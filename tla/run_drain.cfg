CONSTANTS
    PlayerCount = 2
    GamesPerEpoch = 1
    QueueSize = 2
    PipeSize = 1
    CrashLimit = 0
    MaxGames = 2
    MaxFaults = 0
    Signals = FALSE
SPECIFICATION RunSpec
INVARIANT QueueDrainedAtClose
