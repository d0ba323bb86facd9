\* Regions with few arguments around loops of up to 9 iterations, in chunks of
\* up to 3, on four cores.
CONSTANTS
    MaxThreads = 4
    MaxUpper = 8
    MaxChunk = 3
    Argcs = {0, 3, 7}
    Loops <- Normalised
SPECIFICATION LoopSpec
INVARIANTS EachIterationOnce LastFlagRight ArgsIntact
PROPERTIES ImplementsForkJoin LoopComplete
