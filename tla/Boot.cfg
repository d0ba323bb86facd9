\* One cluster of four compute cores and the DM core.
CONSTANTS
    NCores = 5
    Size <- Sizes
    StackSize = 64
    TlsSize = 20
    MaxL3 = 2
SPECIFICATION FairBootSpec
INVARIANTS AllocDisjoint NoGarbage MainInitialised
PROPERTY EveryoneBoots
