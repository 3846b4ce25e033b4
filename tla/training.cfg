CONSTANTS
    GameCells <- MCCells
    FirstCell = "o"
    Wins <- MCWins
    Threatened <- MCThreatened
    Blocks <- MCBlocks
    Values = {1}
    NumSims = 4
    BatchSize = 2
    Starts <- MCStarts
    Configs <- MCConfigs
    MaxGameMoves = 3
    PrbCapacity = 2
    RestartHistories = {"open", "over"}
    Restorable = {"open"}
    Scores = {1, 2}
    RgscGames = 3
    RgscSteps = 5
    Capacity = 7
    Width = 2
    GameIds <- MCGameIds
    OfferedRecords = {}
    PlayWorkers = {0, 1}
    Stride = 10
    Epochs = 2
    GamesEach = 1
    Crashes = 1
    Bootstraps = 1
    PliesMin = 2
    TrainBatch = 4
    Families <- MCFamilies
    AshaTrials = 3
    Resources <- MCResources
    PbtPopulation = 2
    Generations = 2
    Perturb = 1
    MatureEpochs = 2
    ChampionEpochs = 4
    Alike = 2
    Sweeps = TRUE
    TrialScores = {1, 2}
    Troubles = 1
    GameSpans <- MCGameSpans
    EarliestWin = 10
    RootValues = {0, 64}
    Horizon = 1
    LambdaNum = 3
    LambdaDen = 4
    NotFound = NotFound
    BatchesPerEpoch = 2
    LoaderEnds = {0, 1, 9}
    Setups <- MCSetups
    Gradients = {1, 3}
    WarmUp = 3
    FirstScale = 1
    Calls = 2
    Renewals = 1
    LoaderErrors = 1
SPECIFICATION TrainingSpec
INVARIANTS TargetsAreClean NoVisitLost
INVARIANTS GamesStayDistinct QuarantineHolds WeightsAreItsOwn
INVARIANTS TargetsOfTheGame PrefetchIsIterator AverageOfTheSteps
PROPERTIES GameProgress PlacesAreStable
