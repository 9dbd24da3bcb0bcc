--------------------------- MODULE RemoteReferences ---------------------------
(***************************************************************************)
(* References between actors: how an owner keeps track of the actors that   *)
(* refer to its objects (src/actors/RemoteObjectManager.cpp), the proxies   *)
(* that stand for remote objects, and the garbage collector of each actor   *)
(* (src/memory/GarbageCollector.cpp), which collects proxies and objects    *)
(* and tells owners of proxies that are gone.                               *)
(*                                                                         *)
(* The program of an actor is reduced to the references it holds: those of  *)
(* the coroutine that runs, and those of the coroutines that are parked in  *)
(* the lists of the interpreter.                                            *)
(***************************************************************************)
EXTENDS RemoteObjects

CONSTANTS
  Ops,       \* what programs do: "send" objects, "return" results
  MaxOps     \* bound on the messages programs send

MessageTypes == {"OBJ", "RESULT", "NEW_REF", "UNLINK_REF"}

\* Message::Deserialize has a case for these only.
Decoded == {"OBJ", "RESULT"}

ASSUME OpsAssumption == Ops \subseteq {"send", "return"}
ASSUME MaxOpsAssumption == MaxOps \in Nat

VARIABLES
  inbox,     \* per actor: the messages in its queue
  running,   \* per actor: the references of the current coroutine
  parked,    \* per actor: the references of all other coroutines
  exists,    \* per actor: its own objects and its proxies in the heap
  external,  \* per object: externalReferences of its owner
  crashed,   \* the actors whose process is gone
  ops        \* messages sent by programs so far

references == <<inbox, running, parked, exists, external, crashed, ops>>

\* Fault: the fields are read in the wrong order.
MsgSwapped(type, o, a) == [type |-> type, obj |-> a, actor |-> o]

\* OBJ stands for the messages that carry references: OBJ_REF_MSG, SOM_MSG,
\* SOM_MSG_WITH_RESULT.  RESULT is OBJ_REF_RESULT_MSG with its activation.
Msg(type, o, a) == [type |-> type, obj |-> o, actor |-> a]

-----------------------------------------------------------------------------
(* Tracking, which precedes every send.                                     *)

\* A proxy says of itself that it is immutable, mutable objects do not.
IsImmutable(a, o) == Owner[o] # a

\* Fault: the reference is not remembered.
RegisteredNever(a, o, b) == external[o]

\* The registrations after TrackObjectSend(pVMObject, actor_id_t), and the
\* notifications it sends.
Registered(a, o, b) ==
  IF IsImmutable(a, o) \/ b = a \/ Owner[o] # a THEN external[o] ELSE external[o] \cup {b}

ObjectNotices(a, o, b) ==
  IF ~IsImmutable(a, o) /\ b # a /\ Owner[o] # a /\ Owner[o] # b
  THEN <<Msg("NEW_REF", o, b)>>
  ELSE << >>

\* TrackObjectSend(GlobalObjectId, actor_id_t) tells the owner if it is the
\* receiver.
IdNotices(a, o, b) ==
  IF b # a /\ Owner[o] # a /\ Owner[o] = b
  THEN <<Msg("NEW_REF", o, b)>>
  ELSE << >>

\* Every actor b gets the messages new[b], in order.
Enqueue(new) == inbox' = [b \in Actors |-> inbox[b] \o new[b]]

-----------------------------------------------------------------------------
ReferencesInit ==
  /\ inbox = [a \in Actors |-> << >>]
  /\ running = [a \in Actors |-> OwnObjects(a)]
  /\ parked = [a \in Actors |-> {}]
  /\ exists = [a \in Actors |-> OwnObjects(a)]
  /\ external = [o \in Objects |-> {}]
  /\ crashed = {}
  /\ ops = 0

\* The running coroutine of a sends o to b, as argument, receiver or reference.
Send(a, o, b) ==
  /\ "send" \in Ops /\ ops < MaxOps /\ a \notin crashed
  /\ o \in running[a] \cap exists[a]
  /\ external' = [external EXCEPT ![o] = Registered(a, o, b)]
  /\ Enqueue([c \in Actors |-> (IF c = Owner[o] THEN ObjectNotices(a, o, b) ELSE << >>)
                               \o (IF c = b THEN <<Msg("OBJ", o, a)>> ELSE << >>)])
  /\ ops' = ops + 1
  /\ UNCHANGED <<running, parked, exists, crashed>>

\* do_RETURN_REMOTE: a answers the activation o, an object of the caller.
Return(a, o) ==
  /\ "return" \in Ops /\ ops < MaxOps /\ a \notin crashed
  /\ o \in running[a] \cap exists[a]
  /\ Owner[o] # a
  /\ Enqueue([c \in Actors |-> IF c = Owner[o]
                               THEN IdNotices(a, o, c) \o <<Msg("RESULT", o, a)>> ELSE << >>])
  /\ ops' = ops + 1
  /\ UNCHANGED <<running, parked, exists, external, crashed>>

-----------------------------------------------------------------------------
(* Receiving.                                                               *)

\* Universe::NewObjectFromBuffer and GetObject: the object itself at home, else
\* the proxy, created if there is none.  The frame that holds it is queued.
ProcessObject(b, m) ==
  /\ parked' = [parked EXCEPT ![b] = @ \cup {m.obj}]
  /\ exists' = [exists EXCEPT ![b] = IF Owner[m.obj] = b THEN @ ELSE @ \cup {m.obj}]
  /\ UNCHANGED crashed

\* Processing a message that is not decoded is a call on a null pointer, which
\* ends the process: NEW_REF and UNLINK_REF messages do nothing else.
ReceiveReference(b) ==
  /\ b \notin crashed
  /\ inbox[b] # << >>
  /\ inbox' = [inbox EXCEPT ![b] = Tail(@)]
  /\ LET m == Head(inbox[b]) IN
     \/ /\ m.type \notin Decoded
        /\ crashed' = crashed \cup {b}
        /\ UNCHANGED <<parked, exists>>
     \/ m.type = "OBJ" /\ ProcessObject(b, m)
     \/ m.type = "RESULT" /\ UNCHANGED <<parked, exists, crashed>>
  /\ UNCHANGED <<running, external, ops>>

-----------------------------------------------------------------------------
(* The program and the collector.                                           *)

\* Another coroutine runs, or none: it takes the references now, some of which
\* other parked coroutines hold as well.
Switch(a) ==
  /\ a \notin crashed
  /\ \E now \in SUBSET parked[a] : \E shared \in SUBSET now :
       /\ running' = [running EXCEPT ![a] = now]
       /\ parked' = [parked EXCEPT ![a] = (@ \ now) \cup shared \cup running[a]]
  /\ UNCHANGED <<inbox, exists, external, crashed, ops>>

Forget(a, o) ==
  /\ a \notin crashed
  /\ o \in running[a]
  /\ running' = [running EXCEPT ![a] = @ \ {o}]
  /\ UNCHANGED <<inbox, parked, exists, external, crashed, ops>>

\* GarbageCollector::Collect: only the current frame is a root.  What it does not
\* reach is freed, and the owner of a freed proxy is told.
CollectReferences(a) ==
  LET dead == exists[a] \ running[a]
      unlinked(c) == SetToSeq({o \in dead : Owner[o] = c /\ c # a})
  IN
  /\ a \notin crashed
  /\ dead # {}
  /\ exists' = [exists EXCEPT ![a] = @ \ dead]
  /\ Enqueue([c \in Actors |->
                [i \in DOMAIN unlinked(c) |-> Msg("UNLINK_REF", unlinked(c)[i], a)]])
  /\ UNCHANGED <<running, parked, external, crashed, ops>>

ReferencesNext ==
  \E a \in Actors :
    \/ ReceiveReference(a) \/ Switch(a) \/ CollectReferences(a)
    \/ \E o \in Objects : Return(a, o) \/ Forget(a, o) \/ \E b \in Actors : Send(a, o, b)

ReferencesSpec == ReferencesInit /\ [][ReferencesNext]_references

-----------------------------------------------------------------------------
ReferencesTypeOK ==
  /\ inbox \in [Actors -> Seq([type : MessageTypes, obj : Objects, actor : Actors])]
  /\ running \in [Actors -> SUBSET Objects]
  /\ parked \in [Actors -> SUBSET Objects]
  /\ exists \in [Actors -> SUBSET Objects]
  /\ external \in [Objects -> SUBSET Actors]
  /\ crashed \subseteq Actors
  /\ ops \in 0..MaxOps

\* A reference to o is abroad at b: b has a proxy, or will have one.
Abroad(o, b) ==
  /\ b # Owner[o]
  /\ \/ o \in exists[b]
     \/ \E i \in DOMAIN inbox[b] : inbox[b][i].type = "OBJ" /\ inbox[b][i].obj = o

\* The owner of an object knows every other actor that has or gets a reference.
AbroadIsRegistered ==
  \A o \in Objects : Owner[o] \notin crashed =>
    \A b \in Actors : Abroad(o, b) => b \in external[o]

\* The owner is told of references other actors get, never of its own.
NoticeNamesAnotherActor ==
  \A a \in Actors : \A i \in DOMAIN inbox[a] :
    inbox[a][i].type = "NEW_REF" => inbox[a][i].actor # Owner[inbox[a][i].obj]

\* An object with a registered reference is not deleted.
RegisteredNotDeleted == \A o \in Objects : external[o] # {} => o \in exists[Owner[o]]

\* What a parked coroutine refers to is there when the coroutine goes on.
ParkedNotDeleted == \A a \in Actors : parked[a] \subseteq exists[a]

=============================================================================
