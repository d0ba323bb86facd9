\* Two clusters of a compute core and a data-mover core, two calls each; a
\* hardware barrier of eight cores; two clusters with two compute cores that
\* reduce four elements.
CONSTANTS
    a = a
    b = b
    Clusters = {a, b}
    CoreIds = {0, 1}
    DmCore = 1
    ItMod = 2
    Value <- MCValue
    MaxRounds = 2
    ClusterCores = {c0, c1, c2, c3, c4, c5, c6, c7}
    NClusters = 2
    NCompute = 2
    Len = 4
SPECIFICATION PartsSpec
INVARIANTS NoEarlyReturn ResultComplete SumComplete
PROPERTIES ImplementsBarrier EveryoneReturns
\* Every core stops after MaxRounds calls.
CHECK_DEADLOCK FALSE
