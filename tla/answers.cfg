CONSTANTS
    NumWorkers = 3
    MaxBatch = 3
    Counts = {1}
    Graph = TRUE
    MaxId = 1
    Impatient = {}
    Mortal = {}
    Callers = {1, 2}
    Owner = 1
    Requests = 2
    BufferTrouble = FALSE
    PlayerCount = 1
    GamesPerEpoch = 1
    QueueSize = 1
    PipeSize = 1
    CrashLimit = 0
    MaxGames = 2
    MaxFaults = 1
    Signals = TRUE
SPECIFICATION AnswersSpec
PROPERTIES EveryRequestAnswered SamplesAreAnswered EpochEnds StopCompletes
