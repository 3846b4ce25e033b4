CONSTANTS
    GameCells <- MCCells
    FirstCell = "o"
    Wins <- MCWins
    Threatened <- MCThreatened
    Blocks <- MCBlocks
    Values = {0, 1}
    NumSims = 3
    BatchSize = 2
    Starts <- MCStarts
    MaxTokens = 3
    MaxArena = 9
SPECIFICATION CallerSpec
INVARIANT VirtualLossDiscourages
CHECK_DEADLOCK FALSE
