CONSTANTS
    NumWorkers = 2
    MaxBatch = 3
    Counts = {1, 2}
    Graph = FALSE
    MaxId = 1
    Impatient = {0}
    Mortal = {0}
    BatchWorkers = {0, 1}
    SlotRows = 2
    Columns = 2
    BatchCalls = 3
    WeightRoom = 2
    Updates = 4
    SlowStart = TRUE
    GameCells <- MCCells
    FirstCell = "o"
    Wins <- MCWins
    Threatened <- MCThreatened
    Blocks <- MCBlocks
    Values = {0, 1}
    NumSims = 3
    BatchSize = 2
    Starts <- MCStarts
    MaxTokens = 3
    MaxArena = 9
    Recorders = {1, 2}
    Tables = {"runs", "games"}
    CallLimit = 1
    Losses = 1
    PlayCells <- MCPlayCells
    FirstPlayCell = "o"
    WonGames <- MCWonGames
    Visitors = {1, 2}
    MatchMoves = 4
    ModelRoom = 1
    ModelLoads = 3
    ArenaCells <- MCArenaCells
    ArenaFirst = "o"
    ArenaWins <- MCWonGames
    MockCells = {"o", "a"}
    ArenaCentre = {"o"}
    Pairings <- MCPairings
    ArenaGames = 3
    ArenaMoves = 3
    MockFrom = 2
    MockEnds <- MCMockEnds
SPECIFICATION ServicesSpec
INVARIANTS NodeStats StaleAnswersFail
INVARIANTS OwnAnswer SlotsAreSafe ServerSurvives RowsComeBack NewestWeightsWin
INVARIANTS StoreIsWhole ShowsGames CacheAccounted JudgedByItsGames
PROPERTY KeepsPromise
