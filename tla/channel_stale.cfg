CONSTANTS
    NumWorkers = 1
    MaxBatch = 1
    Counts = {1}
    Graph = FALSE
    MaxId = 2
    Impatient = {0}
    Mortal = {}
SPECIFICATION Spec
INVARIANT NoStaleAnswer
