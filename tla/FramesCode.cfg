\* The interpreter with every kind of unplanned send.
SPECIFICATION Spec
CONSTANTS
    boot = boot
    init = init
    home = home
    dnu = dnu
    handler = handler
    outer = outer
    inner = inner
    OuterArgs = 1
    Methods <- MCMethods
    Called <- MCCalled
    Blocks <- MCBlocks
    Enclosing <- MCEnclosing
    NumArgs <- MCNumArgs
    NumLocals <- MCNumLocals
    MaxStack <- MCMaxStack
    Bootstrap = boot
    Initialize = init
    DoesNotUnderstand = dnu
    UnknownGlobal = handler
    EscapedBlock = handler
    NoCode = NoCode
    MaxFrames = 6
    MaxBytecodes = 10
CHECK_DEADLOCK FALSE
INVARIANTS
    FramesSound
    EscapesRecognised
PROPERTIES
    UnwindsToCaller
