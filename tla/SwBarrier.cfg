\* Three harts, an iteration counter that wraps after two barriers.
CONSTANTS
    Harts = {h1, h2, h3}
    ItMod = 2
SPECIFICATION FairSpec
PROPERTIES ImplementsBarrier EveryoneReturns
