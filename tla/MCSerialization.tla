-------------------------- MODULE MCSerialization --------------------------
(***************************************************************************)
(* Two actors for Serialization: a with an object and a frame, b with an   *)
(* object; numbers, strings and symbols of every tag.                      *)
(***************************************************************************)
EXTENDS Serialization, TLC

CONSTANTS a, b, oa, fa, ob

MCOwner == (oa :> a) @@ (fa :> a) @@ (ob :> b)
MCPlace == (oa :> 1) @@ (fa :> 2) @@ (ob :> 1)
MCValues == {<<"Integer", 1>>, <<"BigInteger", 2>>, <<"String", <<"x">>>>}
MCSignatures == {<<"Symbol", <<"s", ":">>>>}
CodeDecoder == {"EXIT", "SOM", "SOM_WITH_RESULT", "OBJ_REF", "OBJ_REF_RESULT"}
MCDecoders == {CodeDecoder, CodeDecoder \cup {"NEW_REF", "UNLINK_REF"}}
=============================================================================
