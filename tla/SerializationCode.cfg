\* The decoder of the code, and one that also knows the notifications, without
\* which no result arrives.
SPECIFICATION Spec
CONSTANTS
    a = a
    b = b
    oa = oa
    fa = fa
    ob = ob
    Actors = {a, b}
    Objects = {oa, fa, ob}
    Frames = {fa}
    Owner <- MCOwner
    Place <- MCPlace
    Values <- MCValues
    Signatures <- MCSignatures
    MaxArguments = 2
    MaxSends = 3
    Decoders <- MCDecoders
CHECK_DEADLOCK FALSE
INVARIANTS
    TypeOK
    MessagesExact
    ResultsFindActivation
