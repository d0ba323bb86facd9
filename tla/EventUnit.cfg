\* The master and three workers, teams of every size.
CONSTANT NCores = 4
SPECIFICATION FairSpec
INVARIANT WakeFindsSleepers
PROPERTIES ImplementsForkJoin RunReturns AllExit
