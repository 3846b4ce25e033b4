CONSTANTS
    GameCells <- MCCells
    FirstCell = "o"
    Wins <- MCWins
    Threatened <- MCThreatened
    Blocks <- MCBlocks
    Values = {1}
    NumSims = 3
    BatchSize = 2
    Starts <- MCStarts
    Configs <- MCReuse
    MaxGameMoves = 3
SPECIFICATION GameSpec
INVARIANT ReuseKeepsStatistics
