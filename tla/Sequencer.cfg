\* A ring of two, loop bodies of up to two.
SPECIFICATION TraceSpec
CONSTANTS
    Programs <- ShortPrograms
    Depth = 2
    CfgDepth = 2
    MaxBlocks = 3
INVARIANTS IssuesProgram TraceMatches
PROPERTY EverythingIssued
