\* Classes and method bodies of up to eight symbols, and of up to four with a
\* syntax error.  The counter of operands holds three values instead of 256.
SPECIFICATION FairSpec
CONSTANTS
    Sources <- MCSources
    Correct = 8
    Wrong = 4
    DepthLimit = 3
    Names = {"x"}
CHECK_DEADLOCK FALSE
INVARIANTS
    PeeksOnce
    OperandsBalanced
    NamesResolved
PROPERTIES
    ParsingEnds
