CONSTANTS
    Families <- MCFamilies
    AshaTrials = 3
    Resources <- MCResources
    PbtPopulation = 2
    Generations = 2
    Perturb = 1
    MatureEpochs = 2
    ChampionEpochs = 4
    Alike = 2
    Sweeps = FALSE
    TrialScores = {1, 2}
    Troubles = 1
SPECIFICATION SupervisorSpec
INVARIANT FinalStagesProtected
CHECK_DEADLOCK FALSE
