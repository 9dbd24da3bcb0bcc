-------------------------- MODULE MCRemoteReferences --------------------------
(* Small instances of RemoteReferences: actor 0 owns o1, actor 1 owns o2.    *)
EXTENDS RemoteReferences

CONSTANTS o1, o2

OneObject == {o1}
TwoObjects == {o1, o2}
OwnerOfOne == [o \in OneObject |-> 0]
OwnerOfTwo == [o \in TwoObjects |-> IF o = o1 THEN 0 ELSE 1]

=============================================================================
