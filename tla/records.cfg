CONSTANTS
    PlayerCount = 2
    GamesPerEpoch = 2
    QueueSize = 1
    PipeSize = 1
    CrashLimit = 0
    MaxGames = 2
    MaxFaults = 2
    Signals = TRUE
    Callers = {1, 2}
    Owner = 1
    Requests = 2
    BufferTrouble = TRUE
SPECIFICATION RecordsSpec
INVARIANTS RecordsKept NoWorkerOutlivesStop
INVARIANTS ReadsItsAppends
