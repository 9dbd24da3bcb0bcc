----------------------------- MODULE MCNumbers -----------------------------
(***************************************************************************)
(* Literals for Numbers: the limits of an immediate integer, an Integer    *)
(* and a BigInteger, small numbers, doubles and nil.                       *)
(***************************************************************************)
EXTENDS Numbers

MCLiterals ==
    {Number("Integer", n) : n \in {MinOf(IntBits), MinOf(ImmediateBits), -1, 0, 2,
                                   MaxOf(ImmediateBits), MaxOf(IntBits)}}
        \cup {Number("BigInteger", n) : n \in {MinOf(BigBits), MaxOf(IntBits) + 1, MaxOf(BigBits)}}
        \cup {Number("Double", 1), Number("Double", 6), NilObject}
=============================================================================
