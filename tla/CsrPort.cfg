\* Two registers to read into.
SPECIFICATION PortSpec
CONSTANTS
    Ids = {1, 2}
    Values = {0, 1}
    Mixed = FALSE
INVARIANT AnswersRight
PROPERTIES LaunchesAsOrdered Answered
