---------------------------- MODULE RemoteObjects ----------------------------
(***************************************************************************)
(* The actors and their objects, which RemoteReferences and Serialization   *)
(* share: the one says who knows of a reference, the other how it is sent.  *)
(***************************************************************************)
EXTENDS Integers, Sequences, FiniteSets, SequencesExt

CONSTANTS
  Actors,
  Objects,   \* the mutable objects, each with a fixed identity
  Owner      \* the actor each object lives on

ASSUME OwnersAssumption == IsFiniteSet(Objects) /\ Owner \in [Objects -> Actors]

OwnObjects(a) == {o \in Objects : Owner[o] = a}
=============================================================================
