CONSTANTS
    WinLength = 4
    GridRadius = 1
    PatternValue <- MCPatternValue
    NearRadius = 1
    PlacementRadius = 2
    Offered <- MCOffered
    MaxStones = 7
    MaxLoaded = 4
    Start = "r"
    Turns <- MCTurns
    Evaluations <- MCEvaluations
    Statuses <- MCStatuses
    Budgets = {4, 9, 14, 20, 1000}
    MaxDepth = 4
    Capacity = 3
    Width = 2
    GameIds = {0, 1}
    OfferedRecords <- MCRecords
    Records <- MCRecordsToSample
    Symmetries = {0, 1, 2, 3, 4, 5, 6, 7, 8, 9, 10, 11}
    CropSize = 5
    LegalRadius = 1
    Budget = 2
    MaxWidth = 4
    CacheSize = 1
    BatchSize = 1
    GraphChunk = 4
    CropChunk = 2
    PairLimits = {5, 7, 100}
    GraphRecords <- MCGraphRecords
    GraphSymmetries = {0, 1, 8}
SPECIFICATION BoardSpec
INVARIANTS ThreatsExact CandidatesExact LegalMovesArePlayable EvalMatchesStones RulesHold
INVARIANTS SearchIsSound
INVARIANT SlotsCounted
INVARIANTS TargetsComeHome GraphRowsExact
PROPERTIES KeepsTheLast UndoRestores
