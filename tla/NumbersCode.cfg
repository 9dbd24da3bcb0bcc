\* Integers of four bits, immediate ones of three, and big ones of eight stand
\* for 32, 31 and 64 bits; doubles have six significant bits.
SPECIFICATION Spec
CONSTANTS
    IntBits = 4
    BigBits = 8
    Mantissa = 6
    Slots = 4
    Literals <- MCLiterals
CHECK_DEADLOCK FALSE
INVARIANTS
    IntegersExact
    ComparisonsAgree
    DoublesImpose
