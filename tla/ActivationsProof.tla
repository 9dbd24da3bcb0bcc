--------------------------- MODULE ActivationsProof ---------------------------
(***************************************************************************)
(* Proofs about the coroutines of the actors (types, places), their calls   *)
(* (one answer each) and their end (the order of exit messages), for every  *)
(* number of actors, every program and every size of the queues.            *)
(***************************************************************************)
EXTENDS Activations, FiniteSetTheorems, SequenceTheorems, TLAPS

Mails == [dest : Actors, msg : Messages]

-----------------------------------------------------------------------------
(* Sequences as queues.                                                     *)

\* A queue after a message was appended.
LEMMA Appended ==
  ASSUME NEW S, NEW q \in Seq(S), NEW m \in S
  PROVE  /\ Append(q, m) \in Seq(S)
         /\ Len(Append(q, m)) = Len(q) + 1
         /\ DOMAIN Append(q, m) = 1..(Len(q) + 1)
         /\ DOMAIN q = 1..Len(q) /\ Len(q) \in Nat
         /\ Append(q, m)[Len(q) + 1] = m
         /\ \A i \in 1..Len(q) : Append(q, m)[i] = q[i]
OBVIOUS

\* A queue after its oldest message was taken.
LEMMA Taken ==
  ASSUME NEW S, NEW q \in Seq(S), q # << >>
  PROVE  /\ Head(q) \in S /\ Head(q) = q[1] /\ 1 \in DOMAIN q
         /\ Tail(q) \in Seq(S)
         /\ Len(Tail(q)) = Len(q) - 1 /\ Len(q) \in Nat \ {0}
         /\ DOMAIN Tail(q) = 1..(Len(q) - 1)
         /\ DOMAIN q = 1..Len(q)
         /\ \A i \in 1..(Len(q) - 1) : Tail(q)[i] = q[i + 1]
OBVIOUS

LEMMA MsgType ==
  ASSUME NEW type \in MessageTypes, NEW a \in Actors, NEW c \in Coroutines \cup {NoOne},
         NEW b \in Actors
  PROVE  Msg(type, a, c) \in Messages /\ Mail(b, Msg(type, a, c)) \in Mails
BY DEF Msg, Mail, Messages, Mails

LEMMA MainIsActor == Main \in Actors /\ IsFiniteSet(Actors) /\ Actors \subseteq Nat
<1>1. N - 1 \in Int /\ 0 \in Int /\ N \in Nat /\ N >= 1
  BY NAssumption
<1>2. IsFiniteSet(0..(N - 1))
  BY <1>1, FS_Interval
<1>3. QED
  BY <1>1, <1>2 DEF Main, Actors

-----------------------------------------------------------------------------
(* Types.  That a program creates no more coroutines than it performs        *)
(* operations needs a count of the requests on their way.                    *)

IsRequest(m) == m.type \in {"SOM", "SOM_RESULT"}
Requests(q) == {i \in DOMAIN q : IsRequest(q[i])}
Requesters(a) == {b \in Actors : \E i \in DOMAIN out[b] : out[b][i].dest = a /\ IsRequest(out[b][i].msg)}

\* An operation sends one request, and nothing with it.
RequestAlone ==
  \A b \in Actors : \A i \in DOMAIN out[b] : IsRequest(out[b][i].msg) => Len(out[b]) = 1

\* Every coroutine but the first stands for an operation that was performed.
CreatedCounted ==
  \A a \in Actors :
    created[a] + Cardinality(Requests(inbox[a])) + Cardinality(Requesters(a)) <= ops + 1

LEMMA RequestsAppended ==
  ASSUME NEW q \in Seq(Messages), NEW m \in Messages
  PROVE  /\ Cardinality(Requests(q)) \in Nat
         /\ IsRequest(m) => Cardinality(Requests(Append(q, m))) = Cardinality(Requests(q)) + 1
         /\ ~IsRequest(m) => Requests(Append(q, m)) = Requests(q)
<1>1. IsFiniteSet(DOMAIN q) /\ Len(q) \in Nat /\ DOMAIN q = 1..Len(q)
  <2>1. 1 \in Int /\ Len(q) \in Int
    BY LenProperties
  <2>2. QED
    BY <2>1, FS_Interval, LenProperties
<1>2. IsFiniteSet(Requests(q))
  BY <1>1, FS_Subset DEF Requests
<1>3. Cardinality(Requests(q)) \in Nat
  BY <1>2, FS_CardinalityType
<1>4. IsRequest(m) => Requests(Append(q, m)) = Requests(q) \cup {Len(q) + 1}
  BY <1>1, Appended DEF Requests
<1>5. ~IsRequest(m) => Requests(Append(q, m)) = Requests(q)
  BY <1>1, Appended DEF Requests
<1>6. Len(q) + 1 \notin Requests(q)
  BY <1>1 DEF Requests
<1>7. Cardinality(Requests(q) \cup {Len(q) + 1}) = Cardinality(Requests(q)) + 1
  BY <1>2, <1>6, FS_AddElement
<1>8. QED
  BY <1>3, <1>4, <1>5, <1>7

LEMMA RequestsTaken ==
  ASSUME NEW q \in Seq(Messages), q # << >>
  PROVE  /\ Cardinality(Requests(q)) \in Nat /\ Cardinality(Requests(Tail(q))) \in Nat
         /\ IsRequest(Head(q)) => Cardinality(Requests(q)) = Cardinality(Requests(Tail(q))) + 1
         /\ ~IsRequest(Head(q)) => Cardinality(Requests(q)) = Cardinality(Requests(Tail(q)))
<1> DEFINE later == Requests(q) \ {1}
           next == [i \in Requests(Tail(q)) |-> i + 1]
<1>1. /\ Tail(q) \in Seq(Messages) /\ Head(q) = q[1]
      /\ Len(q) \in Nat \ {0}
      /\ DOMAIN q = 1..Len(q) /\ DOMAIN Tail(q) = 1..(Len(q) - 1)
      /\ \A i \in 1..(Len(q) - 1) : Tail(q)[i] = q[i + 1]
  BY Taken
<1>2. IsFiniteSet(Requests(q)) /\ IsFiniteSet(Requests(Tail(q)))
  <2>1. IsFiniteSet(1..Len(q)) /\ IsFiniteSet(1..(Len(q) - 1))
    <3>1. 1 \in Int /\ Len(q) \in Int /\ Len(q) - 1 \in Int
      BY <1>1
    <3>2. QED
      BY <3>1, FS_Interval
  <2>2. QED
    BY <1>1, <2>1, FS_Subset DEF Requests
<1>3. next \in Bijection(Requests(Tail(q)), later)
  <2>1. \A i \in Requests(Tail(q)) : i \in Nat /\ i + 1 \in later
    BY <1>1 DEF Requests
  <2>2. next \in [Requests(Tail(q)) -> later]
    BY <2>1
  <2>3. \A i, j \in Requests(Tail(q)) : next[i] = next[j] => i = j
    BY <2>1
  <2>4. \A k \in later : k - 1 \in Requests(Tail(q)) /\ next[k - 1] = k
    BY <1>1 DEF Requests
  <2>5. QED
    BY <2>2, <2>3, <2>4, Zenon DEF Bijection, Injection, Surjection, IsInjective
<1>4. Cardinality(later) = Cardinality(Requests(Tail(q)))
  BY <1>2, <1>3, FS_Bijection DEF ExistsBijection
<1>5. Cardinality(Requests(q)) \in Nat /\ Cardinality(Requests(Tail(q))) \in Nat
  BY <1>2, FS_CardinalityType
<1>6. IsRequest(Head(q)) <=> 1 \in Requests(q)
  BY <1>1 DEF Requests
<1>7. Cardinality(later) = IF 1 \in Requests(q) THEN Cardinality(Requests(q)) - 1
                                               ELSE Cardinality(Requests(q))
  BY <1>2, FS_RemoveElement
<1> HIDE DEF later
<1>8. QED
  BY <1>4, <1>5, <1>6, <1>7

-----------------------------------------------------------------------------
\* TypeOK by the variables that change together.
InboxOK == inbox \in [Actors -> Seq(Messages)] /\ \A a \in Actors : Len(inbox[a]) <= Capacity
OutOK == out \in [Actors -> Seq(Mails)]
PlacesOK ==
  /\ pc \in [Actors -> Locations]
  /\ current \in [Actors -> Coroutines \cup {NoOne}]
  /\ \A a \in Actors : pc[a] = "run" => current[a] # NoOne
ListsOK ==
  /\ activations \in [Actors -> Seq(Coroutines)]
  /\ waitingForResult \in [Actors -> SUBSET Coroutines]
  /\ waitingForRef \in [Actors -> Seq(Coroutines)]
  /\ incoming \in [Actors -> Seq(Actors)]
FramesOK ==
  /\ stop \in [Actors -> BOOLEAN]
  /\ created \in [Actors -> 1..(MaxOps + 1)]
  /\ caller \in [Coroutines -> Coroutines \cup {NoOne}]
ScopeOK == ops \in 0..MaxOps /\ decoded \in Decoders

Parts == InboxOK /\ OutOK /\ PlacesOK /\ ListsOK /\ FramesOK /\ ScopeOK

LEMMA TypeParts == TypeOK <=> Parts
BY DEF TypeOK, Parts, InboxOK, OutOK, PlacesOK, ListsOK, FramesOK, ScopeOK, Mails

LEMMA TypePartsPrimed == Parts' => TypeOK'
BY DEF TypeOK, Parts, InboxOK, OutOK, PlacesOK, ListsOK, FramesOK, ScopeOK, Mails

\* What the first messages and coroutines of the lists are.
LEMMA InitType == Init => Parts
<1> SUFFICES ASSUME Init PROVE Parts
  OBVIOUS
<1>1. \A a \in Actors : Boot(a) \in Coroutines /\ Boot(a) # NoOne
  BY MaxOpsAssumption, NoOneAssumption DEF Boot, Coroutines
<1>2. InboxOK /\ OutOK
  BY CapacityAssumption DEF Init, InboxOK, OutOK
<1>3. PlacesOK
  BY <1>1 DEF Init, PlacesOK, Locations
<1>4. ListsOK
  BY DEF Init, ListsOK
<1>5. FramesOK /\ ScopeOK
  BY MaxOpsAssumption DEF Init, FramesOK, ScopeOK
<1>6. QED
  BY <1>2, <1>3, <1>4, <1>5 DEF Parts

\* An operation is counted, and nothing else is.
LEMMA PerformCounts ==
  ASSUME Parts, NEW a \in Actors, NEW op, Perform(a, op)
  PROVE  ScopeOK' /\ ops' = ops + 1 /\ pc[a] = "run" /\ out[a] = << >>
         /\ current[a] \in Coroutines
BY MaxOpsAssumption DEF Perform, At, Parts, ScopeOK, PlacesOK

\* The steps of the loop that only move the process.
MovesOnly(a) == EnterLoop(a) \/ Sleep(a) \/ Halt(a) \/ (a = Main /\ AllReaped)

LEMMA MovesOnlyIs ==
  ASSUME Parts, NEW a \in Actors, MovesOnly(a)
  PROVE  /\ UNCHANGED <<inbox, out, current, queues, stop, frames, scope>>
         /\ out[a] = << >>
         /\ \E place \in {"receive", "top", "exited"} : pc' = [pc EXCEPT ![a] = place]
         /\ pc'[a] = "exited" => pc[a] = "shutdown"
<1> USE DEF Parts, PlacesOK, At
<1>1. CASE EnterLoop(a)
  BY <1>1 DEF EnterLoop
<1>2. CASE Sleep(a)
  BY <1>2 DEF Sleep
<1>3. CASE Halt(a)
  BY <1>3 DEF Halt
<1>4. CASE a = Main /\ AllReaped
  BY <1>4 DEF AllReaped
<1>5. QED
  BY <1>1, <1>2, <1>3, <1>4 DEF MovesOnly

LEMMA MovesOnlyTypes ==
  ASSUME Parts, NEW a \in Actors, MovesOnly(a)
  PROVE  Parts'
<1>1. PICK place \in {"receive", "top", "exited"} : pc' = [pc EXCEPT ![a] = place]
  BY MovesOnlyIs
<1>2. UNCHANGED <<inbox, out, current, queues, stop, frames, scope>>
  BY MovesOnlyIs
<1>3. PlacesOK'
  BY <1>1, <1>2 DEF Parts, PlacesOK, Locations
<1>4. InboxOK' /\ OutOK' /\ ListsOK' /\ FramesOK' /\ ScopeOK'
  BY <1>2 DEF Parts, InboxOK, OutOK, ListsOK, FramesOK, ScopeOK, queues, frames, scope
<1>5. QED
  BY <1>3, <1>4 DEF Parts

\* The end of a process: a follower's is gone, main sends everyone an exit.
Quits(a) == LeaveLoop(a) \/ ExitSystem(a)

LEMMA QuitsIs ==
  ASSUME Parts, NEW a \in Actors, Quits(a)
  PROVE  /\ UNCHANGED <<inbox, current, queues, stop, frames, decoded>>
         /\ ScopeOK' /\ ops <= ops'
         /\ out[a] = << >> /\ pc[a] \in {"top", "run"} /\ QuitProcess(a)
<1>1. CASE LeaveLoop(a)
  BY <1>1 DEF LeaveLoop, At, scope, Parts, ScopeOK
<1>2. CASE ExitSystem(a)
  <2>1. Perform(a, "exit") /\ QuitProcess(a) /\ UNCHANGED <<inbox, current, queues, stop, frames>>
    BY <1>2 DEF ExitSystem
  <2>2. QED
    BY <2>1, PerformCounts DEF Parts, ScopeOK, Perform
<1>3. QED
  BY <1>1, <1>2 DEF Quits

LEMMA ExitMails ==
  /\ [f \in 1..(N - 1) |-> Mail(f, Exit)] \in Seq(Mails)
  /\ Len([f \in 1..(N - 1) |-> Mail(f, Exit)]) = N - 1
<1>1. \A f \in 1..(N - 1) : f \in Actors
  BY NAssumption DEF Actors
<1>2. \A f \in 1..(N - 1) : Mail(f, Exit) \in Mails
  BY <1>1, MainIsActor, MsgType DEF Exit, MessageTypes
<1>3. N - 1 \in Nat
  BY NAssumption
<1>4. QED
  BY <1>2, <1>3

LEMMA QuitsTypes ==
  ASSUME Parts, NEW a \in Actors, Quits(a)
  PROVE  Parts'
<1>1. /\ UNCHANGED <<inbox, current, queues, stop, frames, decoded>>
      /\ ScopeOK' /\ QuitProcess(a)
  BY QuitsIs
<1>2. PlacesOK'
  BY <1>1 DEF Parts, PlacesOK, Locations, QuitProcess
<1>3. OutOK'
  BY <1>1, ExitMails DEF Parts, OutOK, QuitProcess
<1>4. InboxOK' /\ ListsOK' /\ FramesOK'
  BY <1>1 DEF Parts, InboxOK, ListsOK, FramesOK, queues, frames
<1>5. QED
  BY <1>1, <1>2, <1>3, <1>4 DEF Parts

LEMMA DeliverIs ==
  ASSUME Parts, NEW a \in Actors, Deliver(a)
  PROVE  /\ UNCHANGED <<pc, current, queues, stop, frames, scope>>
         /\ out[a] \in Seq(Mails) /\ out[a] # << >>
         /\ Head(out[a]) \in Mails /\ Head(out[a]) = out[a][1]
         /\ out' = [out EXCEPT ![a] = Tail(out[a])]
         /\ Head(out[a]).dest \in Actors /\ Head(out[a]).msg \in Messages
         /\ inbox' = [inbox EXCEPT ![Head(out[a]).dest] =
                        Append(inbox[Head(out[a]).dest], Head(out[a]).msg)]
         /\ Len(inbox[Head(out[a]).dest]) < Capacity
<1>1. out[a] \in Seq(Mails) /\ out[a] # << >>
  BY DEF Parts, OutOK, Deliver
<1>2. Head(out[a]) \in Mails /\ Head(out[a]) = out[a][1]
  BY <1>1, Taken
<1>3. QED
  BY <1>1, <1>2 DEF Deliver, Put, Mails

LEMMA DeliverTypes ==
  ASSUME Parts, NEW a \in Actors, Deliver(a)
  PROVE  Parts'
<1> DEFINE b == Head(out[a]).dest
           m == Head(out[a]).msg
<1>1. /\ b \in Actors /\ m \in Messages
      /\ inbox' = [inbox EXCEPT ![b] = Append(inbox[b], m)] /\ Len(inbox[b]) < Capacity
      /\ out[a] \in Seq(Mails) /\ out[a] # << >>
      /\ out' = [out EXCEPT ![a] = Tail(out[a])]
      /\ UNCHANGED <<pc, current, queues, stop, frames, scope>>
  BY DeliverIs
<1> HIDE DEF b, m
<1>2. Append(inbox[b], m) \in Seq(Messages) /\ Len(Append(inbox[b], m)) <= Capacity
  <2>1. inbox[b] \in Seq(Messages)
    BY <1>1 DEF Parts, InboxOK
  <2>2. QED
    BY <2>1, <1>1, Appended, CapacityAssumption
<1>3. InboxOK'
  BY <1>1, <1>2 DEF Parts, InboxOK
<1>4. OutOK'
  BY <1>1, Taken DEF Parts, OutOK
<1>5. PlacesOK' /\ ListsOK' /\ FramesOK' /\ ScopeOK'
  BY <1>1 DEF Parts, PlacesOK, ListsOK, FramesOK, ScopeOK, queues, frames, scope
<1>6. QED
  BY <1>3, <1>4, <1>5 DEF Parts

LEMMA ResumeTypes ==
  ASSUME Parts, NEW a \in Actors, Resume(a)
  PROVE  Parts'
<1>1. UNCHANGED <<inbox, out, waitingForResult, stop, frames, scope>>
      /\ pc' = [pc EXCEPT ![a] = "run"]
  BY DEF Resume
<1>2. /\ activations[a] \in Seq(Coroutines) /\ waitingForRef[a] \in Seq(Coroutines)
      /\ incoming[a] \in Seq(Actors)
  BY DEF Parts, ListsOK
<1>3. /\ activations[a] # << >> => Head(activations[a]) \in Coroutines /\ Tail(activations[a]) \in Seq(Coroutines)
      /\ waitingForRef[a] # << >> => Head(waitingForRef[a]) \in Coroutines /\ Tail(waitingForRef[a]) \in Seq(Coroutines)
      /\ incoming[a] # << >> => Tail(incoming[a]) \in Seq(Actors)
  BY <1>2, Taken
<1>4. PlacesOK'
  BY <1>1, <1>3, NoOneAssumption DEF Parts, PlacesOK, Locations, Resume, HaveObject
<1>5. ListsOK'
  <2>1. activations' \in [Actors -> Seq(Coroutines)]
    BY <1>3 DEF Parts, ListsOK, Resume
  <2>2. waitingForRef' \in [Actors -> Seq(Coroutines)] /\ incoming' \in [Actors -> Seq(Actors)]
    BY <1>3 DEF Parts, ListsOK, Resume, HaveObject
  <2>3. QED
    BY <1>1, <2>1, <2>2 DEF Parts, ListsOK
<1>6. InboxOK' /\ OutOK' /\ FramesOK' /\ ScopeOK'
  BY <1>1 DEF Parts, InboxOK, OutOK, FramesOK, ScopeOK, frames, scope
<1>7. QED
  BY <1>4, <1>5, <1>6 DEF Parts

\* A coroutine gives the processor up for a list of its actor.
Parks(a) == Yield(a) \/ WaitForReference(a)

\* System>>stop sets the flag and nothing else.
LEMMA StopsIs ==
  ASSUME Parts, NEW a \in Actors, StopSystem(a)
  PROVE  /\ UNCHANGED <<inbox, out, pc, current, queues, frames, decoded>>
         /\ stop' = [stop EXCEPT ![a] = TRUE]
         /\ ScopeOK' /\ ops' = ops + 1 /\ pc[a] = "run"
<1>1. Perform(a, "stop") /\ UNCHANGED <<inbox, out, pc, current, queues, frames>>
  BY DEF StopSystem
<1>2. QED
  BY <1>1, PerformCounts DEF StopSystem, Perform

LEMMA StopsTypes ==
  ASSUME Parts, NEW a \in Actors, StopSystem(a)
  PROVE  Parts'
<1>1. PlacesOK' /\ FramesOK'
  BY StopsIs DEF Parts, PlacesOK, FramesOK, frames
<1>2. InboxOK' /\ OutOK' /\ ListsOK' /\ ScopeOK'
  BY StopsIs DEF Parts, InboxOK, OutOK, ListsOK, queues
<1>3. QED
  BY <1>1, <1>2 DEF Parts

LEMMA ParksTypes ==
  ASSUME Parts, NEW a \in Actors, Parks(a)
  PROVE  Parts'
<1>1. /\ UNCHANGED <<inbox, out, waitingForResult, incoming, stop, frames, decoded>>
      /\ Suspend(a) /\ \E op \in AllOps : Perform(a, op)
      /\ \/ activations' = Put(activations, a, current[a]) /\ waitingForRef' = waitingForRef
         \/ waitingForRef' = Put(waitingForRef, a, current[a]) /\ activations' = activations
  BY DEF Parks, Yield, WaitForReference, AllOps, Perform
<1>2. ScopeOK' /\ current[a] \in Coroutines
  BY <1>1, PerformCounts
<1>3. PlacesOK'
  BY <1>1 DEF Parts, PlacesOK, Locations, Suspend
<1>4. ListsOK'
  <2>1. /\ Append(activations[a], current[a]) \in Seq(Coroutines)
        /\ Append(waitingForRef[a], current[a]) \in Seq(Coroutines)
    BY <1>2, Appended DEF Parts, ListsOK
  <2>2. QED
    BY <1>1, <2>1 DEF Parts, ListsOK, Put
<1>5. InboxOK' /\ OutOK' /\ FramesOK'
  BY <1>1 DEF Parts, InboxOK, OutOK, FramesOK, frames
<1>6. QED
  BY <1>2, <1>3, <1>4, <1>5 DEF Parts

\* A send that does not wait for an answer.
Sends(a, b) == SendAsync(a, b) \/ SendReference(a, b)

LEMMA SendsIs ==
  ASSUME Parts, NEW a \in Actors, NEW b \in Actors, Sends(a, b)
  PROVE  /\ UNCHANGED <<inbox, pc, current, queues, stop, frames, decoded>>
         /\ \E op \in AllOps : Perform(a, op)
         /\ \E type \in {"SOM", "OBJ_REF"} :
              out' = [out EXCEPT ![a] = <<Mail(b, Msg(type, a, NoOne))>>]
BY DEF Sends, SendAsync, SendReference, AllOps, Perform

LEMMA SendsTypes ==
  ASSUME Parts, NEW a \in Actors, NEW b \in Actors, Sends(a, b)
  PROVE  Parts'
<1>1. PICK type \in {"SOM", "OBJ_REF"} : out' = [out EXCEPT ![a] = <<Mail(b, Msg(type, a, NoOne))>>]
  BY SendsIs
<1>2. UNCHANGED <<inbox, pc, current, queues, stop, frames, decoded>> /\ ScopeOK'
  BY SendsIs, PerformCounts
<1>3. OutOK'
  <2>1. Mail(b, Msg(type, a, NoOne)) \in Mails
    BY MsgType DEF MessageTypes
  <2>2. QED
    BY <1>1, <2>1 DEF Parts, OutOK
<1>4. InboxOK' /\ PlacesOK' /\ ListsOK' /\ FramesOK'
  BY <1>2 DEF Parts, InboxOK, PlacesOK, ListsOK, FramesOK, queues, frames
<1>5. QED
  BY <1>2, <1>3, <1>4 DEF Parts

LEMMA SendSyncTypes ==
  ASSUME Parts, NEW a \in Actors, NEW b \in Actors, SendSync(a, b)
  PROVE  Parts'
<1>1. /\ ScopeOK' /\ current[a] \in Coroutines
  BY PerformCounts DEF SendSync
<1>2. PlacesOK'
  BY DEF Parts, PlacesOK, Locations, SendSync, Suspend
<1>3. OutOK'
  <2>1. Mail(b, Msg("SOM_RESULT", a, current[a])) \in Mails
    BY <1>1, MsgType DEF MessageTypes
  <2>2. QED
    BY <2>1 DEF Parts, OutOK, SendSync
<1>4. ListsOK'
  BY <1>1 DEF Parts, ListsOK, SendSync
<1>5. InboxOK' /\ FramesOK'
  BY DEF Parts, InboxOK, FramesOK, frames, SendSync
<1>6. QED
  BY <1>1, <1>2, <1>3, <1>4, <1>5 DEF Parts

\* What a coroutine that ends sends to the activation it answers.
LEMMA ReturnRemoteIs ==
  ASSUME Parts, NEW a \in Actors, ReturnRemote(a)
  PROVE  LET c == caller[current[a]] IN
         /\ UNCHANGED <<inbox, current, queues, stop, frames, scope>>
         /\ pc[a] = "run" /\ out[a] = << >> /\ pc' = [pc EXCEPT ![a] = "top"]
         /\ current[a] \in Coroutines /\ c \in Coroutines /\ Home(c) \in Actors
         /\ \/ out' = [out EXCEPT ![a] = <<Mail(Home(c), Msg("OBJ_RESULT", a, c))>>]
            \/ out' = [out EXCEPT ![a] = <<Mail(Home(c), Msg("NEW_REF", a, c)),
                                          Mail(Home(c), Msg("OBJ_RESULT", a, c))>>]
<1> DEFINE c == caller[current[a]]
<1>1. pc[a] = "run" /\ out[a] = << >> /\ c # NoOne
  BY DEF ReturnRemote, At
<1>2. current[a] \in Coroutines
  BY <1>1 DEF Parts, PlacesOK
<1>3. c \in Coroutines
  BY <1>1, <1>2 DEF Parts, FramesOK
<1>4. Home(c) \in Actors
  BY <1>3 DEF Home, Coroutines
<1>5. ASSUME NEW x, NEW y PROVE <<x>> \o <<y>> = <<x, y>> /\ << >> \o <<y>> = <<y>>
  <2>1. <<x>> \in Seq({x, y}) /\ <<y>> \in Seq({x, y}) /\ <<x, y>> \in Seq({x, y})
    OBVIOUS
  <2>2. << >> \o <<y>> = <<y>>
    BY <2>1, ConcatEmptySeq
  <2>3. /\ <<x>> \o <<y>> \in Seq({x, y})
        /\ Len(<<x>> \o <<y>>) = 2
        /\ (<<x>> \o <<y>>)[1] = x /\ (<<x>> \o <<y>>)[2] = y
    BY <2>1, ConcatProperties
  <2>4. Len(<<x, y>>) = 2 /\ <<x, y>>[1] = x /\ <<x, y>>[2] = y
    OBVIOUS
  <2>5. <<x>> \o <<y>> = <<x, y>>
    <3> DEFINE s == <<x>> \o <<y>>
               t == <<x, y>>
    <3>1. /\ s \in Seq({x, y}) /\ t \in Seq({x, y}) /\ Len(s) = Len(t)
          /\ \A i \in 1..Len(s) : s[i] = t[i]
      BY <2>1, <2>3, <2>4
    <3> HIDE DEF s, t
    <3>2. s = t
      BY <3>1, SeqEqual
    <3>3. QED
      BY <3>2 DEF s, t
  <2>6. QED
    BY <2>2, <2>5
<1>6. \E told \in {<< >>, <<Mail(Home(c), Msg("NEW_REF", a, c))>>} :
        out' = [out EXCEPT ![a] = told \o <<Mail(Home(c), Msg("OBJ_RESULT", a, c))>>]
  BY DEF ReturnRemote
<1>7. \/ out' = [out EXCEPT ![a] = <<Mail(Home(c), Msg("OBJ_RESULT", a, c))>>]
      \/ out' = [out EXCEPT ![a] = <<Mail(Home(c), Msg("NEW_REF", a, c)),
                                    Mail(Home(c), Msg("OBJ_RESULT", a, c))>>]
  BY <1>5, <1>6
<1>8. UNCHANGED <<inbox, current, queues, stop, frames, scope>> /\ pc' = [pc EXCEPT ![a] = "top"]
  BY DEF ReturnRemote
<1>9. QED
  BY <1>1, <1>2, <1>3, <1>4, <1>7, <1>8

LEMMA ReturnRemoteTypes ==
  ASSUME Parts, NEW a \in Actors, ReturnRemote(a)
  PROVE  Parts'
<1> DEFINE c == caller[current[a]]
           result == Mail(Home(c), Msg("OBJ_RESULT", a, c))
           notice == Mail(Home(c), Msg("NEW_REF", a, c))
<1>1. /\ UNCHANGED <<inbox, current, queues, stop, frames, scope>>
      /\ pc' = [pc EXCEPT ![a] = "top"]
      /\ c \in Coroutines /\ Home(c) \in Actors
      /\ \/ out' = [out EXCEPT ![a] = <<result>>]
         \/ out' = [out EXCEPT ![a] = <<notice, result>>]
  BY ReturnRemoteIs
<1>2. result \in Mails /\ notice \in Mails
  BY <1>1, MsgType DEF MessageTypes
<1> HIDE DEF c, result, notice
<1>3. OutOK'
  <2>1. <<result>> \in Seq(Mails) /\ <<notice, result>> \in Seq(Mails)
    BY <1>2
  <2>2. QED
    BY <1>1, <2>1 DEF Parts, OutOK
<1>4. PlacesOK'
  BY <1>1 DEF Parts, PlacesOK, Locations
<1>5. InboxOK' /\ ListsOK' /\ FramesOK' /\ ScopeOK'
  BY <1>1 DEF Parts, InboxOK, ListsOK, FramesOK, ScopeOK, queues, frames, scope
<1>6. QED
  BY <1>3, <1>4, <1>5 DEF Parts

\* What a message that is received does: it ends the process, stops the loop,
\* creates a coroutine, brings a reference, wakes a coroutine or does nothing.
Crashes(a) == Crash(a) /\ UNCHANGED <<stop, frames, queues>>
Wakes(a, m) ==
  /\ m.to \in waitingForResult[a]
  /\ waitingForResult' = [waitingForResult EXCEPT ![a] = @ \ {m.to}]
  /\ activations' = Put(activations, a, m.to)
  /\ UNCHANGED <<pc, stop, frames, waitingForRef, incoming>>

LEMMA ReceiveIs ==
  ASSUME Parts, NEW a \in Actors, Receive(a)
  PROVE  LET m == Head(inbox[a]) IN
         /\ UNCHANGED <<out, current, scope>>
         /\ pc[a] = "receive" /\ out[a] = << >>
         /\ inbox[a] \in Seq(Messages) /\ inbox[a] # << >>
         /\ inbox' = [inbox EXCEPT ![a] = Tail(inbox[a])]
         /\ m \in Messages /\ m = inbox[a][1]
         /\ \/ Crashes(a) /\ (m.type = "OBJ_RESULT" /\ m.type \in decoded
                                 => m.to \notin waitingForResult[a])
            \/ m.type = "EXIT" /\ ProcessExit(a)
            \/ m.type \in {"SOM", "SOM_RESULT"} /\ ProcessSom(a, m)
            \/ m.type = "OBJ_REF" /\ ProcessRef(a, m)
            \/ m.type = "OBJ_RESULT" /\ Wakes(a, m)
            \/ m.type = "NEW_REF" /\ ProcessNewRef
<1>1. inbox[a] \in Seq(Messages) /\ inbox[a] # << >>
  BY DEF Parts, InboxOK, Receive
<1>2. Head(inbox[a]) \in Messages /\ Head(inbox[a]) = inbox[a][1]
  BY <1>1, Taken
<1>3. QED
  BY <1>1, <1>2 DEF Receive, At, Crashes, Wakes, ProcessResult

\* Only a request creates a coroutine; that there is room for it follows from
\* the count.
LEMMA ReceiveTypes ==
  ASSUME Parts, NEW a \in Actors, Receive(a),
         IsRequest(Head(inbox[a])) => created[a] <= MaxOps
  PROVE  Parts'
<1> DEFINE m == Head(inbox[a])
<1>1. /\ UNCHANGED <<out, current, scope>>
      /\ inbox[a] \in Seq(Messages) /\ inbox[a] # << >>
      /\ inbox' = [inbox EXCEPT ![a] = Tail(inbox[a])]
      /\ m \in Messages /\ m = inbox[a][1]
      /\ \/ Crashes(a)
         \/ m.type = "EXIT" /\ ProcessExit(a)
         \/ m.type \in {"SOM", "SOM_RESULT"} /\ ProcessSom(a, m)
         \/ m.type = "OBJ_REF" /\ ProcessRef(a, m)
         \/ m.type = "OBJ_RESULT" /\ Wakes(a, m)
         \/ m.type = "NEW_REF" /\ ProcessNewRef
  BY ReceiveIs
<1>2. InboxOK'
  <2>1. Tail(inbox[a]) \in Seq(Messages) /\ Len(Tail(inbox[a])) <= Capacity
    <3>1. Len(inbox[a]) <= Capacity
      BY DEF Parts, InboxOK
    <3>2. Tail(inbox[a]) \in Seq(Messages) /\ Len(Tail(inbox[a])) = Len(inbox[a]) - 1
          /\ Len(inbox[a]) \in Nat \ {0}
      BY <1>1, Taken
    <3>3. QED
      BY <3>1, <3>2, CapacityAssumption
  <2>2. QED
    BY <1>1, <2>1 DEF Parts, InboxOK
<1>3. m.to \in Coroutines \cup {NoOne} /\ m.from \in Actors
  BY <1>1 DEF Messages
<1>4. OutOK' /\ ScopeOK'
  BY <1>1 DEF Parts, OutOK, ScopeOK, scope
<1>5. CASE Crashes(a) \/ ProcessExit(a) \/ ProcessNewRef
  <2>1. PlacesOK'
    BY <1>1, <1>5 DEF Parts, PlacesOK, Crashes, Crash, ProcessExit, ProcessNewRef, Locations
  <2>2. ListsOK' /\ FramesOK'
    BY <1>5 DEF Parts, ListsOK, FramesOK, Crashes, Crash, ProcessExit, ProcessNewRef, queues, frames
  <2>3. QED
    BY <1>2, <1>4, <2>1, <2>2 DEF Parts
<1>6. CASE IsRequest(m) /\ ProcessSom(a, m)
  <2>1. /\ UNCHANGED <<pc, stop, waitingForResult, waitingForRef, incoming>>
        /\ created' = [created EXCEPT ![a] = created[a] + 1]
        /\ caller' = [caller EXCEPT ![<<a, created[a] + 1>>] = m.to]
        /\ activations' = [activations EXCEPT ![a] = Append(activations[a], <<a, created[a] + 1>>)]
    BY <1>6 DEF ProcessSom, Put
  <2>2. created[a] + 1 \in 1..(MaxOps + 1)
    BY <1>6, MaxOpsAssumption DEF Parts, FramesOK
  <2>3. <<a, created[a] + 1>> \in Coroutines
    BY <2>2 DEF Coroutines
  <2>4. Append(activations[a], <<a, created[a] + 1>>) \in Seq(Coroutines)
    BY <2>3, Appended DEF Parts, ListsOK
  <2>5. FramesOK'
    BY <1>3, <2>1, <2>2 DEF Parts, FramesOK
  <2>6. ListsOK'
    BY <2>1, <2>4 DEF Parts, ListsOK
  <2>7. PlacesOK'
    BY <1>1, <2>1 DEF Parts, PlacesOK
  <2>8. QED
    BY <1>2, <1>4, <2>5, <2>6, <2>7 DEF Parts
<1>7. CASE ProcessRef(a, m)
  <2>1. Append(incoming[a], m.from) \in Seq(Actors)
    BY <1>3, Appended DEF Parts, ListsOK
  <2>2. ListsOK'
    BY <1>7, <2>1 DEF Parts, ListsOK, ProcessRef, Put
  <2>3. PlacesOK' /\ FramesOK'
    BY <1>1, <1>7 DEF Parts, PlacesOK, FramesOK, ProcessRef, frames
  <2>4. QED
    BY <1>2, <1>4, <2>2, <2>3 DEF Parts
<1>8. CASE Wakes(a, m)
  <2>1. m.to \in Coroutines
    BY <1>8 DEF Parts, ListsOK, Wakes
  <2>2. Append(activations[a], m.to) \in Seq(Coroutines)
    BY <2>1, Appended DEF Parts, ListsOK
  <2>3. ListsOK'
    BY <1>8, <2>2 DEF Parts, ListsOK, Wakes, Put
  <2>4. PlacesOK' /\ FramesOK'
    BY <1>1, <1>8 DEF Parts, PlacesOK, FramesOK, Wakes, frames
  <2>5. QED
    BY <1>2, <1>4, <2>3, <2>4 DEF Parts
<1>9. QED
  BY <1>1, <1>5, <1>6, <1>7, <1>8 DEF IsRequest

-----------------------------------------------------------------------------
(* The kinds of steps.                                                      *)

\* Every step is one of these.
LEMMA StepKinds ==
  ASSUME Next
  PROVE  \E a \in Actors :
           \/ MovesOnly(a) \/ Quits(a) \/ Deliver(a) \/ Resume(a) \/ Receive(a)
           \/ Parks(a) \/ StopSystem(a) \/ ReturnRemote(a)
           \/ \E b \in Actors : Sends(a, b) \/ (b # a /\ SendSync(a, b))
BY DEF Next, ProcessStep, LoopStep, RunStep, MovesOnly, Quits, Parks, Sends, SendSync

-----------------------------------------------------------------------------
(* The count of the requests.                                               *)

Counts == RequestAlone /\ CreatedCounted

LEMMA CountsAreNumbers ==
  ASSUME Parts, NEW c \in Actors
  PROVE  /\ IsFiniteSet(Requesters(c)) /\ Cardinality(Requesters(c)) \in Nat
         /\ Cardinality(Requests(inbox[c])) \in Nat
         /\ created[c] \in Nat /\ created[c] >= 1 /\ ops \in Nat
<1>1. Requesters(c) \in SUBSET Actors
  BY DEF Requesters
<1>2. IsFiniteSet(Requesters(c))
  BY <1>1, MainIsActor, FS_Subset
<1>3. inbox[c] \in Seq(Messages) /\ created[c] \in 1..(MaxOps + 1) /\ ops \in 0..MaxOps
  BY DEF Parts, InboxOK, FramesOK, ScopeOK
<1>4. \E m : m \in Messages
  BY MsgType, MainIsActor DEF MessageTypes
<1>5. Cardinality(Requests(inbox[c])) \in Nat
  BY <1>3, <1>4, RequestsAppended
<1>6. QED
  BY <1>2, <1>3, <1>5, FS_CardinalityType, MaxOpsAssumption

\* Mails without a request keep the count, if nothing else changes.
LEMMA NoRequestCounts ==
  ASSUME Parts, Counts, NEW a \in Actors, out[a] = << >>, NEW q \in Seq(Mails),
         \A i \in DOMAIN q : ~IsRequest(q[i].msg),
         out' = [out EXCEPT ![a] = q],
         UNCHANGED <<inbox, created>>, ops' \in Nat, ops <= ops'
  PROVE  Counts'
<1>1. \A b \in Actors : out'[b] = IF b = a THEN q ELSE out[b]
  BY DEF Parts, OutOK
<1>2. \A c \in Actors : Requesters(c)' = Requesters(c)
  BY <1>1 DEF Requesters
<1>3. RequestAlone'
  BY <1>1 DEF Counts, RequestAlone
<1>4. CreatedCounted'
  <2> SUFFICES ASSUME NEW c \in Actors
               PROVE  created'[c] + Cardinality(Requests(inbox'[c])) + Cardinality(Requesters(c)')
                        <= ops' + 1
    BY DEF CreatedCounted
  <2>1. created[c] + Cardinality(Requests(inbox[c])) + Cardinality(Requesters(c)) <= ops + 1
    BY DEF Counts, CreatedCounted
  <2>2. QED
    BY <1>2, <2>1, CountsAreNumbers
<1>5. QED
  BY <1>3, <1>4 DEF Counts

\* One mail of an operation: at most one request more.
LEMMA OneRequestCounts ==
  ASSUME Parts, Counts, NEW a \in Actors, out[a] = << >>, NEW m \in Mails,
         out' = [out EXCEPT ![a] = <<m>>],
         UNCHANGED <<inbox, created>>, ops' = ops + 1
  PROVE  Counts'
<1>1. \A b \in Actors : out'[b] = IF b = a THEN <<m>> ELSE out[b]
  BY DEF Parts, OutOK
<1>2. \A c \in Actors : Requesters(c)' \subseteq Requesters(c) \cup {a}
  BY <1>1 DEF Requesters
<1>3. RequestAlone'
  BY <1>1 DEF Counts, RequestAlone
<1>4. CreatedCounted'
  <2> SUFFICES ASSUME NEW c \in Actors
               PROVE  created'[c] + Cardinality(Requests(inbox'[c])) + Cardinality(Requesters(c)')
                        <= ops' + 1
    BY DEF CreatedCounted
  <2>1. created[c] + Cardinality(Requests(inbox[c])) + Cardinality(Requesters(c)) <= ops + 1
    BY DEF Counts, CreatedCounted
  <2>2. IsFiniteSet(Requesters(c))
    BY CountsAreNumbers
  <2>3. /\ IsFiniteSet(Requesters(c) \cup {a})
        /\ Cardinality(Requesters(c) \cup {a})
             = IF a \in Requesters(c) THEN Cardinality(Requesters(c)) ELSE Cardinality(Requesters(c)) + 1
    BY <2>2, FS_AddElement
  <2>4. /\ IsFiniteSet(Requesters(c)')
        /\ Cardinality(Requesters(c)') <= Cardinality(Requesters(c) \cup {a})
    <3>1. Requesters(c)' \in SUBSET (Requesters(c) \cup {a})
      BY <1>2
    <3>2. QED
      BY <2>3, <3>1, FS_Subset
  <2>5. Cardinality(Requesters(c)') \in Nat
    BY <2>4, FS_CardinalityType
  <2> DEFINE made == created[c]
             asked == Cardinality(Requests(inbox[c]))
             before == Cardinality(Requesters(c))
             after == Cardinality(Requesters(c)')
  <2>6. /\ made \in Nat /\ asked \in Nat /\ before \in Nat /\ after \in Nat /\ ops \in Nat
        /\ made + asked + before <= ops + 1 /\ after <= before + 1
    BY <2>1, <2>3, <2>4, <2>5, CountsAreNumbers
  <2>7. created'[c] = made /\ Cardinality(Requests(inbox'[c])) = asked
    OBVIOUS
  <2> HIDE DEF made, asked, before, after
  <2>8. made + asked + after <= ops' + 1
    BY <2>6
  <2>9. QED
    BY <2>7, <2>8 DEF after
<1>5. QED
  BY <1>3, <1>4 DEF Counts

LEMMA DeliverCounts ==
  ASSUME Parts, Counts, NEW a \in Actors, Deliver(a)
  PROVE  Counts'
<1> DEFINE b == Head(out[a]).dest
           m == Head(out[a]).msg
<1>1. /\ b \in Actors /\ m \in Messages
      /\ inbox' = [inbox EXCEPT ![b] = Append(inbox[b], m)]
      /\ out[a] \in Seq(Mails) /\ out[a] # << >>
      /\ Head(out[a]) = out[a][1]
      /\ out' = [out EXCEPT ![a] = Tail(out[a])]
      /\ created' = created /\ ops' = ops
  BY DeliverIs DEF frames, scope
<1>2. \A d \in Actors : out'[d] = IF d = a THEN Tail(out[a]) ELSE out[d]
  BY <1>1 DEF Parts, OutOK
<1>3. \A d \in Actors : inbox'[d] = IF d = b THEN Append(inbox[b], m) ELSE inbox[d]
  BY <1>1 DEF Parts, InboxOK
<1>4. /\ Len(out[a]) \in Nat \ {0} /\ DOMAIN out[a] = 1..Len(out[a])
      /\ Len(Tail(out[a])) = Len(out[a]) - 1
      /\ DOMAIN Tail(out[a]) = 1..(Len(out[a]) - 1)
      /\ \A i \in 1..(Len(out[a]) - 1) : Tail(out[a])[i] = out[a][i + 1]
  BY <1>1, Taken
<1>5. m = out[a][1].msg /\ b = out[a][1].dest
  BY <1>1
<1> HIDE DEF b, m
<1>6. IsRequest(m) => Len(out[a]) = 1
  BY <1>4, <1>5 DEF Counts, RequestAlone
<1>7. \A i \in DOMAIN Tail(out[a]) : ~IsRequest(Tail(out[a])[i].msg)
  <2> SUFFICES ASSUME NEW i \in DOMAIN Tail(out[a]), IsRequest(Tail(out[a])[i].msg) PROVE FALSE
    OBVIOUS
  <2>1. i \in 1..(Len(out[a]) - 1) /\ i + 1 \in DOMAIN out[a] /\ IsRequest(out[a][i + 1].msg)
    BY <1>4
  <2>2. Len(out[a]) = 1
    BY <2>1 DEF Counts, RequestAlone
  <2>3. QED
    BY <2>1, <2>2
<1>8. RequestAlone'
  <2> SUFFICES ASSUME NEW d \in Actors, NEW i \in DOMAIN out'[d], IsRequest(out'[d][i].msg)
               PROVE  Len(out'[d]) = 1
    BY DEF RequestAlone
  <2>1. d # a /\ out'[d] = out[d]
    BY <1>2, <1>7
  <2>2. QED
    BY <2>1 DEF Counts, RequestAlone
<1>9. \A c \in Actors : Requesters(c)' = IF IsRequest(m) /\ c = b THEN Requesters(c) \ {a}
                                                               ELSE Requesters(c)
  <2> SUFFICES ASSUME NEW c \in Actors, NEW d \in Actors
               PROVE  d \in Requesters(c)'
                        <=> d \in Requesters(c) /\ ~(d = a /\ IsRequest(m) /\ c = b)
    BY DEF Requesters
  <2>1. CASE d # a
    BY <2>1, <1>2 DEF Requesters
  <2>2. CASE d = a
    <3>1. a \notin Requesters(c)'
      BY <1>2, <1>7 DEF Requesters
    <3>2. a \in Requesters(c) => IsRequest(m) /\ c = b
      <4> SUFFICES ASSUME NEW i \in DOMAIN out[a], out[a][i].dest = c, IsRequest(out[a][i].msg)
                   PROVE  IsRequest(m) /\ c = b
        BY DEF Requesters
      <4>1. Len(out[a]) = 1
        BY DEF Counts, RequestAlone
      <4>2. i = 1
        BY <4>1, <1>4
      <4>3. QED
        BY <4>2, <1>5
    <3>3. QED
      BY <2>2, <3>1, <3>2
  <2>3. QED
    BY <2>1, <2>2
<1>10. IsRequest(m) => a \in Requesters(b)
  BY <1>4, <1>5 DEF Requesters
<1>11. CreatedCounted'
  <2> SUFFICES ASSUME NEW c \in Actors
               PROVE  created[c] + Cardinality(Requests(inbox'[c])) + Cardinality(Requesters(c)')
                        <= ops + 1
    BY <1>1 DEF CreatedCounted
  <2>1. created[c] + Cardinality(Requests(inbox[c])) + Cardinality(Requesters(c)) <= ops + 1
    BY DEF Counts, CreatedCounted
  <2>2. inbox[c] \in Seq(Messages)
    BY DEF Parts, InboxOK
  <2>3. CASE IsRequest(m) /\ c = b
    <3>1. Cardinality(Requesters(c)') = Cardinality(Requesters(c)) - 1
      BY <2>3, <1>9, <1>10, CountsAreNumbers, FS_RemoveElement
    <3>2. Cardinality(Requests(inbox'[c])) = Cardinality(Requests(inbox[c])) + 1
      BY <2>2, <2>3, <1>1, <1>3, RequestsAppended
    <3>3. QED
      BY <2>1, <3>1, <3>2, CountsAreNumbers
  <2>4. CASE ~(IsRequest(m) /\ c = b)
    <3>1. Requesters(c)' = Requesters(c)
      BY <2>4, <1>9
    <3>2. Requests(inbox'[c]) = Requests(inbox[c])
      BY <2>2, <2>4, <1>1, <1>3, RequestsAppended
    <3>3. QED
      BY <2>1, <3>1, <3>2
  <2>5. QED
    BY <2>3, <2>4
<1>12. QED
  BY <1>8, <1>11 DEF Counts

LEMMA ReceiveCounts ==
  ASSUME Parts, Counts, NEW a \in Actors, Receive(a)
  PROVE  Counts' /\ (IsRequest(Head(inbox[a])) => created[a] <= MaxOps)
<1> DEFINE m == Head(inbox[a])
<1>1. /\ UNCHANGED <<out, current, scope>>
      /\ inbox[a] \in Seq(Messages) /\ inbox[a] # << >>
      /\ inbox' = [inbox EXCEPT ![a] = Tail(inbox[a])]
      /\ \/ created' = created
         \/ IsRequest(m) /\ created' = [created EXCEPT ![a] = @ + 1]
  BY ReceiveIs
     DEF Crashes, ProcessExit, ProcessSom, ProcessRef, Wakes, ProcessNewRef, frames, IsRequest
<1>2. /\ Cardinality(Requests(inbox[a])) \in Nat /\ Cardinality(Requests(Tail(inbox[a]))) \in Nat
      /\ IsRequest(m) => Cardinality(Requests(inbox[a])) = Cardinality(Requests(Tail(inbox[a]))) + 1
      /\ ~IsRequest(m) => Cardinality(Requests(inbox[a])) = Cardinality(Requests(Tail(inbox[a])))
  BY <1>1, RequestsTaken
<1> HIDE DEF m
<1>3. ASSUME NEW c \in Actors
      PROVE  created[c] + Cardinality(Requests(inbox[c])) + Cardinality(Requesters(c)) <= ops + 1
  BY DEF Counts, CreatedCounted
<1>4. IsRequest(m) => created[a] <= MaxOps
  <2>1. ops <= MaxOps
    BY MaxOpsAssumption DEF Parts, ScopeOK
  <2>2. QED
    BY <1>2, <1>3, <2>1, CountsAreNumbers, MaxOpsAssumption
<1>5. RequestAlone'
  BY <1>1 DEF Counts, RequestAlone
<1>6. CreatedCounted'
  <2> SUFFICES ASSUME NEW c \in Actors
               PROVE  created'[c] + Cardinality(Requests(inbox'[c])) + Cardinality(Requesters(c)')
                        <= ops' + 1
    BY DEF CreatedCounted
  <2>1. Requesters(c)' = Requesters(c) /\ ops' = ops
    BY <1>1 DEF Requesters, scope
  <2>2. CASE c = a
    <3>1. inbox'[c] = Tail(inbox[a]) /\ created'[c] \in {created[a], created[a] + 1}
          /\ (created'[c] # created[a] => IsRequest(m))
      BY <1>1, <2>2 DEF Parts, InboxOK, FramesOK
    <3>2. QED
      BY <1>2, <1>3, <2>1, <2>2, <3>1, CountsAreNumbers
  <2>3. CASE c # a
    <3>1. inbox'[c] = inbox[c] /\ created'[c] = created[c]
      BY <1>1, <2>3 DEF Parts, InboxOK, FramesOK
    <3>2. QED
      BY <1>3, <2>1, <3>1
  <2>4. QED
    BY <2>2, <2>3
<1>7. QED
  BY <1>4, <1>5, <1>6 DEF Counts, m

LEMMA InitCounts == Init => Counts
<1> SUFFICES ASSUME Init PROVE Counts
  OBVIOUS
<1>1. RequestAlone
  BY DEF Init, RequestAlone
<1>2. \A c \in Actors : Requests(inbox[c]) = {} /\ Requesters(c) = {}
  BY DEF Init, Requests, Requesters
<1>3. CreatedCounted
  <2> SUFFICES ASSUME NEW c \in Actors
               PROVE  created[c] + Cardinality(Requests(inbox[c])) + Cardinality(Requesters(c)) <= ops + 1
    BY DEF CreatedCounted
  <2>1. Cardinality(Requests(inbox[c])) = 0 /\ Cardinality(Requesters(c)) = 0
    BY <1>2, FS_EmptySet
  <2>2. created[c] = 1 /\ ops = 0
    BY DEF Init
  <2>3. QED
    BY <2>1, <2>2
<1>4. QED
  BY <1>1, <1>3 DEF Counts

\* Types and counts are kept by every step.
LEMMA NextTypes ==
  ASSUME Parts, Counts, [Next]_vars
  PROVE  Parts' /\ Counts'
<1>1. ASSUME NEW a \in Actors, MovesOnly(a) \/ Resume(a) \/ Parks(a) \/ StopSystem(a)
      PROVE  Parts' /\ Counts'
  <2>1. Parts'
    BY <1>1, MovesOnlyTypes, ResumeTypes, ParksTypes, StopsTypes
  <2>2. inbox' = inbox /\ out' = out /\ created' = created /\ ops <= ops' /\ ops' \in Nat
    <3>1. CASE MovesOnly(a)
      BY <3>1, MovesOnlyIs, MainIsActor, CountsAreNumbers DEF frames, scope
    <3>2. CASE Resume(a)
      BY <3>2, MainIsActor, CountsAreNumbers DEF Resume, frames, scope
    <3>3. CASE Parks(a)
      BY <3>3, MainIsActor, CountsAreNumbers DEF Parks, Yield, WaitForReference, Perform, frames
    <3>4. CASE StopSystem(a)
      BY <3>4, StopsIs, CountsAreNumbers DEF frames
    <3>5. QED
      BY <1>1, <3>1, <3>2, <3>3, <3>4
  <2>3. RequestAlone'
    BY <2>2 DEF Counts, RequestAlone
  <2>4. CreatedCounted'
    <3> SUFFICES ASSUME NEW c \in Actors
                 PROVE  created'[c] + Cardinality(Requests(inbox'[c])) + Cardinality(Requesters(c)')
                          <= ops' + 1
      BY DEF CreatedCounted
    <3>1. Requesters(c)' = Requesters(c)
      BY <2>2 DEF Requesters
    <3>2. created[c] + Cardinality(Requests(inbox[c])) + Cardinality(Requesters(c)) <= ops + 1
      BY DEF Counts, CreatedCounted
    <3>3. QED
      BY <2>2, <3>1, <3>2, CountsAreNumbers
  <2>5. QED
    BY <2>1, <2>3, <2>4 DEF Counts
<1>2. ASSUME NEW a \in Actors, Quits(a)
      PROVE  Parts' /\ Counts'
  <2>1. /\ UNCHANGED <<inbox, created>> /\ out[a] = << >> /\ QuitProcess(a)
        /\ ScopeOK' /\ ops <= ops'
    BY <1>2, QuitsIs DEF frames
  <2>2. ops' \in Nat
    BY <2>1, MaxOpsAssumption DEF ScopeOK
  <2>3. PICK q \in Seq(Mails) : out' = [out EXCEPT ![a] = q] /\ \A i \in DOMAIN q : ~IsRequest(q[i].msg)
    <3>1. CASE a # Main
      <4>1. out' = out /\ << >> \in Seq(Mails)
        BY <2>1, <3>1 DEF QuitProcess
      <4>2. out' = [out EXCEPT ![a] = << >>]
        BY <2>1, <4>1 DEF Parts, OutOK
      <4>3. \A i \in DOMAIN << >> : ~IsRequest(<< >>[i].msg)
        OBVIOUS
      <4>4. QED
        BY <4>1, <4>2, <4>3
    <3>2. CASE a = Main
      <4>1. out' = [out EXCEPT ![a] = [f \in 1..(N - 1) |-> Mail(f, Exit)]]
        BY <2>1, <3>2 DEF QuitProcess
      <4>2. \A i \in 1..(N - 1) : ~IsRequest(Mail(i, Exit).msg)
        BY DEF IsRequest, Mail, Exit, Msg
      <4>3. QED
        BY <4>1, <4>2, ExitMails
    <3>3. QED
      BY <3>1, <3>2
  <2>4. Counts'
    BY <2>1, <2>2, <2>3, NoRequestCounts
  <2>5. QED
    BY <1>2, <2>4, QuitsTypes
<1>3. ASSUME NEW a \in Actors, Deliver(a)
      PROVE  Parts' /\ Counts'
  BY <1>3, DeliverTypes, DeliverCounts
<1>4. ASSUME NEW a \in Actors, Receive(a)
      PROVE  Parts' /\ Counts'
  BY <1>4, ReceiveTypes, ReceiveCounts
<1>5. ASSUME NEW a \in Actors, ReturnRemote(a)
      PROVE  Parts' /\ Counts'
  <2> DEFINE c == caller[current[a]]
             result == Mail(Home(c), Msg("OBJ_RESULT", a, c))
             notice == Mail(Home(c), Msg("NEW_REF", a, c))
  <2>1. /\ UNCHANGED <<inbox, created, ops>> /\ out[a] = << >>
        /\ c \in Coroutines /\ Home(c) \in Actors
        /\ \/ out' = [out EXCEPT ![a] = <<result>>]
           \/ out' = [out EXCEPT ![a] = <<notice, result>>]
    BY <1>5, ReturnRemoteIs DEF frames, scope
  <2>2. /\ result \in Mails /\ notice \in Mails
        /\ ~IsRequest(result.msg) /\ ~IsRequest(notice.msg)
    BY <2>1, MsgType DEF MessageTypes, IsRequest, Mail, Msg
  <2> HIDE DEF c, result, notice
  <2>3. PICK q \in Seq(Mails) : out' = [out EXCEPT ![a] = q] /\ \A i \in DOMAIN q : ~IsRequest(q[i].msg)
    <3>1. /\ <<result>> \in Seq(Mails) /\ <<notice, result>> \in Seq(Mails)
          /\ \A i \in DOMAIN <<result>> : ~IsRequest(<<result>>[i].msg)
          /\ \A i \in DOMAIN <<notice, result>> : ~IsRequest(<<notice, result>>[i].msg)
      BY <2>2
    <3>2. QED
      BY <2>1, <3>1
  <2>4. ops' \in Nat /\ ops <= ops'
    BY <2>1, CountsAreNumbers
  <2>5. QED
    BY <1>5, <2>1, <2>3, <2>4, NoRequestCounts, ReturnRemoteTypes
<1>6. ASSUME NEW a \in Actors, NEW b \in Actors, Sends(a, b) \/ SendSync(a, b)
      PROVE  Parts' /\ Counts'
  <2>1. /\ UNCHANGED <<inbox, created>> /\ out[a] = << >> /\ ops' = ops + 1
        /\ \E m \in Mails : out' = [out EXCEPT ![a] = <<m>>]
    <3>1. CASE Sends(a, b)
      <4>1. \A type \in {"SOM", "OBJ_REF"} : Mail(b, Msg(type, a, NoOne)) \in Mails
        BY MsgType DEF MessageTypes
      <4>2. QED
        BY <3>1, <4>1, SendsIs, PerformCounts DEF frames
    <3>2. CASE SendSync(a, b)
      <4>1. current[a] \in Coroutines /\ ops' = ops + 1 /\ out[a] = << >>
        BY <3>2, PerformCounts DEF SendSync
      <4>2. Mail(b, Msg("SOM_RESULT", a, current[a])) \in Mails
        BY <4>1, MsgType DEF MessageTypes
      <4>3. QED
        BY <3>2, <4>1, <4>2 DEF SendSync, frames
    <3>3. QED
      BY <1>6, <3>1, <3>2
  <2>2. QED
    BY <1>6, <2>1, SendsTypes, SendSyncTypes, OneRequestCounts
<1>7. CASE UNCHANGED vars
  BY <1>7 DEF vars, queues, frames, scope, Parts, InboxOK, OutOK, PlacesOK, ListsOK, FramesOK, ScopeOK,
              Counts, RequestAlone, CreatedCounted, Requesters
<1>8. QED
  BY <1>1, <1>2, <1>3, <1>4, <1>5, <1>6, <1>7, StepKinds

\* Every variable has its type: in particular a process that runs has a coroutine
\* to run, queues keep to their limit, and programs create no more coroutines
\* than they perform operations (src/actors/Interpreter.cpp:96-249).
THEOREM ActivationsTypeCorrect == Spec => []TypeOK
<1>1. Init => Parts /\ Counts
  BY InitType, InitCounts
<1>2. Parts /\ Counts /\ [Next]_vars => Parts' /\ Counts'
  BY NextTypes
<1>3. Parts => TypeOK
  BY TypeParts
<1>4. QED
  BY <1>1, <1>2, <1>3, PTL DEF Spec

-----------------------------------------------------------------------------
(* Where the coroutines of an actor are.                                    *)

Elements(q) == {q[i] : i \in DOMAIN q}
Distinct(q) == \A i, j \in DOMAIN q : i # j => q[i] # q[j]

LEMMA ElementsAppended ==
  ASSUME NEW S, NEW q \in Seq(S), NEW x \in S
  PROVE  /\ Elements(Append(q, x)) = Elements(q) \cup {x}
         /\ Distinct(q) /\ x \notin Elements(q) => Distinct(Append(q, x))
<1>1. /\ Len(q) \in Nat /\ DOMAIN q = 1..Len(q) /\ DOMAIN Append(q, x) = 1..(Len(q) + 1)
      /\ Append(q, x)[Len(q) + 1] = x
      /\ \A i \in 1..Len(q) : Append(q, x)[i] = q[i]
  BY Appended
<1> DEFINE r == Append(q, x)
<1> HIDE DEF r
<1>2. /\ DOMAIN r = 1..(Len(q) + 1) /\ r[Len(q) + 1] = x /\ \A i \in 1..Len(q) : r[i] = q[i]
  BY <1>1 DEF r
<1>3. Elements(r) = Elements(q) \cup {x}
  <2>1. \A i \in DOMAIN r : r[i] \in Elements(q) \cup {x}
    BY <1>1, <1>2 DEF Elements
  <2>2. \A y \in Elements(q) \cup {x} : \E i \in DOMAIN r : r[i] = y
    BY <1>1, <1>2 DEF Elements
  <2>3. QED
    BY <2>1, <2>2 DEF Elements
<1>4. Distinct(q) /\ x \notin Elements(q) => Distinct(r)
  BY <1>1, <1>2 DEF Elements, Distinct
<1>5. QED
  BY <1>3, <1>4 DEF r

LEMMA ElementsTaken ==
  ASSUME NEW S, NEW q \in Seq(S), q # << >>, Distinct(q)
  PROVE  /\ Head(q) \in Elements(q) /\ Distinct(Tail(q))
         /\ Elements(Tail(q)) = Elements(q) \ {Head(q)}
<1>1. /\ Head(q) = q[1] /\ Len(q) \in Nat \ {0} /\ DOMAIN q = 1..Len(q)
      /\ DOMAIN Tail(q) = 1..(Len(q) - 1)
      /\ \A i \in 1..(Len(q) - 1) : Tail(q)[i] = q[i + 1]
  BY Taken
<1> DEFINE r == Tail(q)
<1> HIDE DEF r
<1>2. DOMAIN r = 1..(Len(q) - 1) /\ \A i \in 1..(Len(q) - 1) : r[i] = q[i + 1]
  BY <1>1 DEF r
<1>3. Distinct(r)
  BY <1>1, <1>2 DEF Distinct
<1>4. \A i \in DOMAIN r : r[i] \in Elements(q) /\ r[i] # q[1]
  BY <1>1, <1>2 DEF Distinct, Elements
<1>5. \A y \in Elements(q) : y # q[1] => \E i \in DOMAIN r : r[i] = y
  <2> SUFFICES ASSUME NEW k \in DOMAIN q, q[k] # q[1] PROVE \E i \in DOMAIN r : r[i] = q[k]
    BY DEF Elements
  <2>1. k - 1 \in DOMAIN r /\ r[k - 1] = q[k]
    BY <1>1, <1>2
  <2>2. QED
    BY <2>1
<1>6. Elements(r) = Elements(q) \ {q[1]}
  BY <1>4, <1>5 DEF Elements
<1>7. Head(q) \in Elements(q)
  BY <1>1 DEF Elements
<1>8. QED
  BY <1>1, <1>3, <1>6, <1>7 DEF r

LEMMA ElementsAreCoroutines ==
  ASSUME NEW q \in Seq(Coroutines)
  PROVE  Elements(q) \subseteq Coroutines
BY DEF Elements

Runs(a) == IF pc[a] = "run" THEN {current[a]} ELSE {}
Listed(a) == Elements(activations[a]) \cup Elements(waitingForRef[a])
Live(a) == Listed(a) \cup Runs(a) \cup waitingForResult[a]
Own(a) == {c \in Coroutines : Home(c) = a /\ c[2] <= created[a]}

\* A coroutine is in one place of its own actor.
OnePlace(a) ==
  /\ Distinct(activations[a]) /\ Distinct(waitingForRef[a])
  /\ Elements(activations[a]) \cap Elements(waitingForRef[a]) = {}
  /\ Listed(a) \cap Runs(a) = {}
  /\ (Listed(a) \cup Runs(a)) \cap waitingForResult[a] = {}
  /\ Live(a) \subseteq Own(a)

Places == \A a \in Actors : OnePlace(a)

\* What one actor does leaves the places of the others alone.
LEMMA OthersPlaces ==
  ASSUME Places, NEW a \in Actors, OnePlace(a)',
         \A b \in Actors \ {a} :
           /\ activations'[b] = activations[b] /\ waitingForRef'[b] = waitingForRef[b]
           /\ waitingForResult'[b] = waitingForResult[b] /\ created'[b] = created[b]
           /\ pc'[b] = pc[b] /\ current'[b] = current[b]
  PROVE  Places' /\ \A b \in Actors \ {a} : Live(b)' = Live(b)
<1>1. ASSUME NEW b \in Actors \ {a} PROVE OnePlace(b)' /\ Live(b)' = Live(b)
  <2>1. /\ Elements(activations[b])' = Elements(activations[b])
        /\ Elements(waitingForRef[b])' = Elements(waitingForRef[b])
        /\ Distinct(activations[b])' = Distinct(activations[b])
        /\ Distinct(waitingForRef[b])' = Distinct(waitingForRef[b])
    BY DEF Elements, Distinct
  <2>2. Listed(b)' = Listed(b) /\ Runs(b)' = Runs(b) /\ Own(b)' = Own(b) /\ Live(b)' = Live(b)
    BY <2>1 DEF Listed, Runs, Own, Live
  <2>3. OnePlace(b)
    BY DEF Places
  <2>4. QED
    BY <2>1, <2>2, <2>3 DEF OnePlace
<1>2. QED
  BY <1>1 DEF Places

\* The lists stay, and no other coroutine runs: a step of a running coroutine, of
\* the loop, or a message that wakes and creates none.
LEMMA KeepsLists ==
  ASSUME Parts, Places, NEW a \in Actors, UNCHANGED <<activations, waitingForRef, waitingForResult, created, current>>,
         \A b \in Actors \ {a} : pc'[b] = pc[b],
         pc'[a] = "run" => pc[a] = "run"
  PROVE  /\ Places' /\ Runs(a)' \subseteq Runs(a)
         /\ Live(a)' = (Live(a) \ Runs(a)) \cup Runs(a)'
         /\ \A b \in Actors \ {a} : Live(b)' = Live(b)
<1>1. /\ Listed(a)' = Listed(a) /\ Own(a)' = Own(a) /\ Runs(a)' \subseteq Runs(a)
      /\ waitingForResult'[a] = waitingForResult[a]
  BY DEF Listed, Own, Runs, Elements
<1>2. OnePlace(a)
  BY DEF Places
<1>3. Distinct(activations[a])' /\ Distinct(waitingForRef[a])'
      /\ Elements(activations[a])' = Elements(activations[a])
      /\ Elements(waitingForRef[a])' = Elements(waitingForRef[a])
  BY <1>2 DEF OnePlace, Distinct, Elements
<1>4. OnePlace(a)'
  BY <1>1, <1>2, <1>3 DEF OnePlace, Live
<1>5. Live(a)' = (Live(a) \ Runs(a)) \cup Runs(a)'
  BY <1>1, <1>2 DEF OnePlace, Live
<1>6. QED
  BY <1>1, <1>4, <1>5, OthersPlaces

\* A coroutine gives up the processor for a list, or waits for a result.
LEMMA ParksPlaces ==
  ASSUME Parts, Places, NEW a \in Actors, Parks(a) \/ \E b \in Actors : SendSync(a, b)
  PROVE  Places' /\ \A b \in Actors : Live(b)' = Live(b)
<1> DEFINE c == current[a]
<1>1. /\ pc[a] = "run" /\ c \in Coroutines
      /\ UNCHANGED created /\ Suspend(a)
      /\ \/ activations' = Put(activations, a, c) /\ UNCHANGED <<waitingForRef, waitingForResult>>
         \/ waitingForRef' = Put(waitingForRef, a, c) /\ UNCHANGED <<activations, waitingForResult>>
         \/ /\ waitingForResult' = [waitingForResult EXCEPT ![a] = @ \cup {c}]
            /\ UNCHANGED <<activations, waitingForRef>>
  <2>1. CASE Yield(a)
    BY <2>1, PerformCounts DEF Yield, frames
  <2>2. CASE WaitForReference(a)
    BY <2>2, PerformCounts DEF WaitForReference, frames
  <2>3. CASE \E b \in Actors : SendSync(a, b)
    BY <2>3, PerformCounts DEF SendSync, frames
  <2>4. QED
    BY <2>1, <2>2, <2>3 DEF Parks
<1> HIDE DEF c
<1>2. Runs(a) = {c} /\ Runs(a)' = {}
  BY <1>1 DEF Runs, Suspend, Parts, PlacesOK, c
<1>3. OnePlace(a)
  BY DEF Places
<1>4. c \notin Listed(a) /\ c \notin waitingForResult[a] /\ Own(a)' = Own(a)
  BY <1>1, <1>2, <1>3 DEF OnePlace, Own
<1>5. /\ activations[a] \in Seq(Coroutines) /\ waitingForRef[a] \in Seq(Coroutines)
  BY DEF Parts, ListsOK
<1>6. OnePlace(a)' /\ Live(a)' = Live(a)
  <2>1. CASE activations' = Put(activations, a, c) /\ UNCHANGED <<waitingForRef, waitingForResult>>
    <3>1. activations'[a] = Append(activations[a], c) /\ waitingForRef'[a] = waitingForRef[a]
          /\ waitingForResult'[a] = waitingForResult[a]
      BY <2>1 DEF Put, Parts, ListsOK
    <3>2. /\ Elements(activations[a])' = Elements(activations[a]) \cup {c}
          /\ Distinct(activations[a])'
      BY <1>1, <1>3, <1>4, <1>5, <3>1, ElementsAppended DEF OnePlace, Listed
    <3>3. /\ Elements(waitingForRef[a])' = Elements(waitingForRef[a])
          /\ Distinct(waitingForRef[a])'
      BY <1>3, <3>1 DEF OnePlace, Elements, Distinct
    <3>4. QED
      BY <1>2, <1>3, <1>4, <3>1, <3>2, <3>3 DEF OnePlace, Listed, Live
  <2>2. CASE waitingForRef' = Put(waitingForRef, a, c) /\ UNCHANGED <<activations, waitingForResult>>
    <3>1. waitingForRef'[a] = Append(waitingForRef[a], c) /\ activations'[a] = activations[a]
          /\ waitingForResult'[a] = waitingForResult[a]
      BY <2>2 DEF Put, Parts, ListsOK
    <3>2. /\ Elements(waitingForRef[a])' = Elements(waitingForRef[a]) \cup {c}
          /\ Distinct(waitingForRef[a])'
      BY <1>1, <1>3, <1>4, <1>5, <3>1, ElementsAppended DEF OnePlace, Listed
    <3>3. /\ Elements(activations[a])' = Elements(activations[a])
          /\ Distinct(activations[a])'
      BY <1>3, <3>1 DEF OnePlace, Elements, Distinct
    <3>4. QED
      BY <1>2, <1>3, <1>4, <3>1, <3>2, <3>3 DEF OnePlace, Listed, Live
  <2>3. CASE /\ waitingForResult' = [waitingForResult EXCEPT ![a] = @ \cup {c}]
             /\ UNCHANGED <<activations, waitingForRef>>
    <3>1. waitingForResult'[a] = waitingForResult[a] \cup {c}
      BY <2>3 DEF Parts, ListsOK
    <3>2. /\ Elements(activations[a])' = Elements(activations[a]) /\ Distinct(activations[a])'
          /\ Elements(waitingForRef[a])' = Elements(waitingForRef[a]) /\ Distinct(waitingForRef[a])'
      BY <1>3, <2>3 DEF OnePlace, Elements, Distinct
    <3>3. QED
      BY <1>2, <1>3, <1>4, <3>1, <3>2 DEF OnePlace, Listed, Live
  <2>4. QED
    BY <1>1, <2>1, <2>2, <2>3
<1>7. \A b \in Actors \ {a} :
        /\ activations'[b] = activations[b] /\ waitingForRef'[b] = waitingForRef[b]
        /\ waitingForResult'[b] = waitingForResult[b] /\ created'[b] = created[b]
        /\ pc'[b] = pc[b] /\ current'[b] = current[b]
  BY <1>1 DEF Put, Suspend, Parts, PlacesOK, ListsOK
<1>8. QED
  BY <1>6, <1>7, OthersPlaces

\* A coroutine whose turn it is leaves its list and runs.
LEMMA ResumePlaces ==
  ASSUME Parts, Places, NEW a \in Actors, Resume(a)
  PROVE  Places' /\ \A b \in Actors : Live(b)' = Live(b)
<1>1. /\ UNCHANGED <<waitingForResult, created>> /\ pc[a] = "receive"
      /\ pc' = [pc EXCEPT ![a] = "run"]
      /\ \/ /\ waitingForRef[a] # << >> /\ UNCHANGED activations
            /\ current' = [current EXCEPT ![a] = Head(waitingForRef[a])]
            /\ waitingForRef' = [waitingForRef EXCEPT ![a] = Tail(waitingForRef[a])]
         \/ /\ activations[a] # << >> /\ UNCHANGED waitingForRef
            /\ current' = [current EXCEPT ![a] = Head(activations[a])]
            /\ activations' = [activations EXCEPT ![a] = Tail(activations[a])]
  BY DEF Resume, HaveObject, At, frames
<1>2. Runs(a) = {} /\ Runs(a)' = {current'[a]}
  BY <1>1 DEF Runs, Parts, PlacesOK
<1>3. OnePlace(a)
  BY DEF Places
<1>4. Own(a)' = Own(a)
  BY <1>1 DEF Own
<1>5. /\ activations[a] \in Seq(Coroutines) /\ waitingForRef[a] \in Seq(Coroutines)
  BY DEF Parts, ListsOK
<1>6. OnePlace(a)' /\ Live(a)' = Live(a)
  <2>1. CASE /\ waitingForRef[a] # << >> /\ UNCHANGED activations
             /\ current' = [current EXCEPT ![a] = Head(waitingForRef[a])]
             /\ waitingForRef' = [waitingForRef EXCEPT ![a] = Tail(waitingForRef[a])]
    <3>1. current'[a] = Head(waitingForRef[a]) /\ waitingForRef'[a] = Tail(waitingForRef[a])
      BY <2>1 DEF Parts, PlacesOK, ListsOK
    <3>2. /\ Elements(waitingForRef[a])' = Elements(waitingForRef[a]) \ {current'[a]}
          /\ Distinct(waitingForRef[a])'
          /\ current'[a] \in Elements(waitingForRef[a])
      BY <1>3, <1>5, <2>1, <3>1, ElementsTaken DEF OnePlace
    <3>3. /\ Elements(activations[a])' = Elements(activations[a]) /\ Distinct(activations[a])'
          /\ waitingForResult'[a] = waitingForResult[a]
      BY <1>1, <1>3, <2>1 DEF OnePlace, Elements, Distinct
    <3>4. QED
      BY <1>2, <1>3, <1>4, <3>2, <3>3 DEF OnePlace, Listed, Live
  <2>2. CASE /\ activations[a] # << >> /\ UNCHANGED waitingForRef
             /\ current' = [current EXCEPT ![a] = Head(activations[a])]
             /\ activations' = [activations EXCEPT ![a] = Tail(activations[a])]
    <3>1. current'[a] = Head(activations[a]) /\ activations'[a] = Tail(activations[a])
      BY <2>2 DEF Parts, PlacesOK, ListsOK
    <3>2. /\ Elements(activations[a])' = Elements(activations[a]) \ {current'[a]}
          /\ Distinct(activations[a])'
          /\ current'[a] \in Elements(activations[a])
      BY <1>3, <1>5, <2>2, <3>1, ElementsTaken DEF OnePlace
    <3>3. /\ Elements(waitingForRef[a])' = Elements(waitingForRef[a]) /\ Distinct(waitingForRef[a])'
          /\ waitingForResult'[a] = waitingForResult[a]
      BY <1>1, <1>3, <2>2 DEF OnePlace, Elements, Distinct
    <3>4. QED
      BY <1>2, <1>3, <1>4, <3>2, <3>3 DEF OnePlace, Listed, Live
  <2>3. QED
    BY <1>1, <2>1, <2>2
<1>7. \A b \in Actors \ {a} :
        /\ activations'[b] = activations[b] /\ waitingForRef'[b] = waitingForRef[b]
        /\ waitingForResult'[b] = waitingForResult[b] /\ created'[b] = created[b]
        /\ pc'[b] = pc[b] /\ current'[b] = current[b]
  BY <1>1 DEF Parts, PlacesOK, ListsOK
<1>8. QED
  BY <1>6, <1>7, OthersPlaces

\* A request creates a coroutine with a new name.
LEMMA SomPlaces ==
  ASSUME Parts, Places, NEW a \in Actors, NEW m, ProcessSom(a, m), created[a] <= MaxOps,
         pc[a] = "receive", UNCHANGED current
  PROVE  LET c == <<a, created[a] + 1>> IN
         /\ Places' /\ c \in Coroutines /\ c \notin Live(a) /\ Live(a)' = Live(a) \cup {c}
         /\ \A b \in Actors \ {a} : Live(b)' = Live(b)
<1> DEFINE c == <<a, created[a] + 1>>
<1>1. /\ UNCHANGED <<pc, waitingForResult, waitingForRef>>
      /\ created' = [created EXCEPT ![a] = created[a] + 1]
      /\ activations' = [activations EXCEPT ![a] = Append(activations[a], c)]
  BY DEF ProcessSom, Put
<1>2. created[a] \in 1..(MaxOps + 1) /\ created'[a] = created[a] + 1
  BY <1>1 DEF Parts, FramesOK
<1>3. c \in Coroutines /\ Home(c) = a /\ c[2] = created[a] + 1
  BY <1>2, MaxOpsAssumption DEF Coroutines, Home
<1>4. Own(a) \subseteq Own(a)' /\ c \in Own(a)' /\ c \notin Own(a)
  <2>1. \A d \in Coroutines : d[2] \in Nat
    BY DEF Coroutines
  <2>2. QED
    BY <1>2, <1>3, <2>1 DEF Own
<1> HIDE DEF c
<1>5. OnePlace(a) /\ activations[a] \in Seq(Coroutines)
  BY DEF Places, Parts, ListsOK
<1>6. c \notin Live(a)
  BY <1>4, <1>5 DEF OnePlace
<1>7. /\ activations'[a] = Append(activations[a], c)
      /\ waitingForRef'[a] = waitingForRef[a] /\ waitingForResult'[a] = waitingForResult[a]
  BY <1>1 DEF Parts, ListsOK
<1>8. Runs(a) = {} /\ Runs(a)' = {}
  BY <1>1 DEF Runs
<1>9. /\ Elements(activations[a])' = Elements(activations[a]) \cup {c}
      /\ Distinct(activations[a])'
  BY <1>3, <1>5, <1>6, <1>7, ElementsAppended DEF OnePlace, Live, Listed
<1>10. /\ Elements(waitingForRef[a])' = Elements(waitingForRef[a])
       /\ Distinct(waitingForRef[a])'
  BY <1>5, <1>7 DEF OnePlace, Elements, Distinct
<1>11. Live(a)' = Live(a) \cup {c}
  BY <1>7, <1>8, <1>9, <1>10 DEF Live, Listed
<1>12. OnePlace(a)'
  BY <1>4, <1>5, <1>6, <1>7, <1>8, <1>9, <1>10, <1>11 DEF OnePlace, Live, Listed
<1>13. \A b \in Actors \ {a} :
        /\ activations'[b] = activations[b] /\ waitingForRef'[b] = waitingForRef[b]
        /\ waitingForResult'[b] = waitingForResult[b] /\ created'[b] = created[b]
        /\ pc'[b] = pc[b] /\ current'[b] = current[b]
  BY <1>1 DEF Parts, ListsOK, FramesOK
<1>14. Places' /\ \A b \in Actors \ {a} : Live(b)' = Live(b)
  BY <1>12, <1>13, OthersPlaces
<1>15. QED
  BY <1>3, <1>6, <1>11, <1>14 DEF c

\* A result moves the coroutine that waits for it to the ready ones.
LEMMA WakesPlaces ==
  ASSUME Parts, Places, NEW a \in Actors, NEW m, Wakes(a, m), UNCHANGED current
  PROVE  Places' /\ \A b \in Actors : Live(b)' = Live(b)
<1> DEFINE c == m.to
<1>1. /\ UNCHANGED <<pc, created, waitingForRef>> /\ c \in waitingForResult[a]
      /\ waitingForResult' = [waitingForResult EXCEPT ![a] = @ \ {c}]
      /\ activations' = [activations EXCEPT ![a] = Append(activations[a], c)]
  BY DEF Wakes, Put, frames
<1> HIDE DEF c
<1>2. OnePlace(a) /\ activations[a] \in Seq(Coroutines) /\ c \in Coroutines
  BY <1>1 DEF Places, Parts, ListsOK
<1>3. /\ activations'[a] = Append(activations[a], c)
      /\ waitingForRef'[a] = waitingForRef[a] /\ waitingForResult'[a] = waitingForResult[a] \ {c}
  BY <1>1 DEF Parts, ListsOK
<1>4. Runs(a)' = Runs(a) /\ Own(a)' = Own(a)
  BY <1>1 DEF Runs, Own
<1>5. c \notin Listed(a) /\ c \notin Runs(a)
  BY <1>1, <1>2 DEF OnePlace
<1>6. /\ Elements(activations[a])' = Elements(activations[a]) \cup {c}
      /\ Distinct(activations[a])'
  BY <1>2, <1>3, <1>5, ElementsAppended DEF OnePlace, Listed
<1>7. /\ Elements(waitingForRef[a])' = Elements(waitingForRef[a])
      /\ Distinct(waitingForRef[a])'
  BY <1>2, <1>3 DEF OnePlace, Elements, Distinct
<1>8. Live(a)' = Live(a)
  BY <1>1, <1>3, <1>4, <1>6, <1>7 DEF Live, Listed
<1>9. OnePlace(a)'
  BY <1>2, <1>3, <1>4, <1>5, <1>6, <1>7, <1>8 DEF OnePlace, Listed
<1>10. \A b \in Actors \ {a} :
        /\ activations'[b] = activations[b] /\ waitingForRef'[b] = waitingForRef[b]
        /\ waitingForResult'[b] = waitingForResult[b] /\ created'[b] = created[b]
        /\ pc'[b] = pc[b] /\ current'[b] = current[b]
  BY <1>1 DEF Parts, ListsOK
<1>11. QED
  BY <1>8, <1>9, <1>10, OthersPlaces

\* The steps that leave the lists as they are.
Quiet(a) ==
  \/ MovesOnly(a) \/ Quits(a) \/ Deliver(a) \/ StopSystem(a) \/ ReturnRemote(a)
  \/ \E b \in Actors : Sends(a, b)
  \/ Receive(a) /\ (Crashes(a) \/ ProcessExit(a) \/ ProcessRef(a, Head(inbox[a])) \/ ProcessNewRef)

LEMMA QuietIs ==
  ASSUME Parts, NEW a \in Actors, Quiet(a)
  PROVE  /\ UNCHANGED <<activations, waitingForRef, waitingForResult, created, caller, current>>
         /\ \A b \in Actors \ {a} : pc'[b] = pc[b]
         /\ pc'[a] = "run" => pc[a] = "run"
<1>1. CASE MovesOnly(a)
  BY <1>1, MovesOnlyIs DEF queues, frames, Parts, PlacesOK
<1>2. CASE Quits(a)
  BY <1>2, QuitsIs DEF queues, frames, Parts, PlacesOK, QuitProcess
<1>3. CASE Deliver(a)
  BY <1>3, DeliverIs DEF queues, frames
<1>4. CASE ReturnRemote(a)
  BY <1>4, ReturnRemoteIs DEF queues, frames, Parts, PlacesOK
<1>5. CASE \E b \in Actors : Sends(a, b)
  BY <1>5, SendsIs DEF queues, frames
<1>6. CASE Receive(a) /\ (Crashes(a) \/ ProcessExit(a) \/ ProcessRef(a, Head(inbox[a])) \/ ProcessNewRef)
  <2>1. UNCHANGED current
    BY <1>6 DEF Receive
  <2>2. QED
    BY <1>6, <2>1 DEF Crashes, Crash, ProcessExit, ProcessRef, ProcessNewRef, queues, frames, Parts, PlacesOK
<1>7. CASE StopSystem(a)
  BY <1>7, StopsIs DEF queues, frames
<1>8. QED
  BY <1>1, <1>2, <1>3, <1>4, <1>5, <1>6, <1>7 DEF Quiet

\* Every step is quiet or one of those that move a coroutine.
LEMMA QuietOrMoves ==
  ASSUME Parts, Counts, Next
  PROVE  \E a \in Actors :
           \/ Quiet(a) \/ Resume(a) \/ Parks(a) \/ \E b \in Actors : b # a /\ SendSync(a, b)
           \/ Receive(a) /\ IsRequest(Head(inbox[a])) /\ ProcessSom(a, Head(inbox[a]))
                         /\ created[a] <= MaxOps
           \/ Receive(a) /\ Head(inbox[a]).type = "OBJ_RESULT" /\ Wakes(a, Head(inbox[a]))
<1>1. ASSUME NEW a \in Actors, Receive(a)
      PROVE  \/ Quiet(a)
             \/ Receive(a) /\ IsRequest(Head(inbox[a])) /\ ProcessSom(a, Head(inbox[a]))
                           /\ created[a] <= MaxOps
             \/ Receive(a) /\ Head(inbox[a]).type = "OBJ_RESULT" /\ Wakes(a, Head(inbox[a]))
  BY <1>1, ReceiveIs, ReceiveCounts DEF Quiet, IsRequest
<1>2. QED
  BY <1>1, StepKinds DEF Quiet

LEMMA NextPlaces ==
  ASSUME Parts, Counts, Places, [Next]_vars
  PROVE  Places'
<1>1. ASSUME NEW a \in Actors, Quiet(a) PROVE Places'
  BY <1>1, QuietIs, KeepsLists
<1>2. ASSUME NEW a \in Actors, Resume(a) PROVE Places'
  BY <1>2, ResumePlaces
<1>3. ASSUME NEW a \in Actors, Parks(a) \/ \E b \in Actors : SendSync(a, b) PROVE Places'
  BY <1>3, ParksPlaces
<1>4. ASSUME NEW a \in Actors, Receive(a), ProcessSom(a, Head(inbox[a])), created[a] <= MaxOps
      PROVE  Places'
  BY <1>4, SomPlaces DEF Receive, At
<1>5. ASSUME NEW a \in Actors, Receive(a), Wakes(a, Head(inbox[a])) PROVE Places'
  BY <1>5, WakesPlaces DEF Receive
<1>6. CASE UNCHANGED vars
  BY <1>6 DEF vars, queues, frames, Places, OnePlace, Listed, Runs, Live, Own, Elements, Distinct
<1>7. QED
  BY <1>1, <1>2, <1>3, <1>4, <1>5, <1>6, QuietOrMoves

LEMMA InitPlaces == Init => Places
<1> SUFFICES ASSUME Init, NEW a \in Actors PROVE OnePlace(a)
  BY DEF Places
<1>1. /\ activations[a] = << >> /\ waitingForRef[a] = << >> /\ waitingForResult[a] = {}
      /\ pc[a] = "run" /\ current[a] = Boot(a) /\ created[a] = 1
  BY DEF Init
<1>2. Elements(<< >>) = {} /\ Distinct(<< >>)
  BY DEF Elements, Distinct
<1>3. Boot(a) \in Own(a)
  BY <1>1, MaxOpsAssumption DEF Own, Boot, Coroutines, Home
<1>4. QED
  BY <1>1, <1>2, <1>3 DEF OnePlace, Listed, Runs, Live

LEMMA ElementsConcatenated ==
  ASSUME NEW S, NEW q \in Seq(S), NEW r \in Seq(S)
  PROVE  /\ q \o r \in Seq(S) /\ Elements(q \o r) = Elements(q) \cup Elements(r)
         /\ Distinct(q) /\ Distinct(r) /\ Elements(q) \cap Elements(r) = {} => Distinct(q \o r)
<1> DEFINE t == q \o r
<1>1. /\ t \in Seq(S) /\ Len(t) = Len(q) + Len(r)
      /\ Len(q) \in Nat /\ Len(r) \in Nat
      /\ DOMAIN q = 1..Len(q) /\ DOMAIN r = 1..Len(r) /\ DOMAIN t = 1..(Len(q) + Len(r))
      /\ \A i \in 1..(Len(q) + Len(r)) : t[i] = IF i <= Len(q) THEN q[i] ELSE r[i - Len(q)]
  BY ConcatProperties
<1> HIDE DEF t
<1>2. ASSUME NEW i \in DOMAIN t
      PROVE  \/ i \in DOMAIN q /\ t[i] = q[i]
             \/ i > Len(q) /\ i - Len(q) \in DOMAIN r /\ t[i] = r[i - Len(q)]
  <2> i \in 1..(Len(q) + Len(r))
    BY <1>1
  <2>1. t[i] = IF i <= Len(q) THEN q[i] ELSE r[i - Len(q)]
    BY <1>1
  <2>2. CASE i <= Len(q)
    BY <1>1, <2>1, <2>2
  <2>3. CASE ~(i <= Len(q))
    BY <1>1, <2>1, <2>3
  <2>4. QED
    BY <2>2, <2>3
<1>3. Elements(t) \subseteq Elements(q) \cup Elements(r)
  BY <1>2 DEF Elements
<1>4. /\ \A i \in DOMAIN q : i \in DOMAIN t /\ t[i] = q[i]
      /\ \A i \in DOMAIN r : i + Len(q) \in DOMAIN t /\ t[i + Len(q)] = r[i]
  BY <1>1
<1>5. Elements(q) \cup Elements(r) \subseteq Elements(t)
  BY <1>4 DEF Elements
<1>6. ASSUME Distinct(q), Distinct(r), Elements(q) \cap Elements(r) = {}
      PROVE  Distinct(t)
  <2> SUFFICES ASSUME NEW i \in DOMAIN t, NEW j \in DOMAIN t, t[i] = t[j] PROVE i = j
    BY DEF Distinct
  <2>1. CASE i \in DOMAIN q /\ t[i] = q[i] /\ j \in DOMAIN q /\ t[j] = q[j]
    BY <2>1, <1>6 DEF Distinct
  <2>2. CASE /\ i > Len(q) /\ i - Len(q) \in DOMAIN r /\ t[i] = r[i - Len(q)]
             /\ j > Len(q) /\ j - Len(q) \in DOMAIN r /\ t[j] = r[j - Len(q)]
    <3>1. i - Len(q) = j - Len(q)
      BY <2>2, <1>6 DEF Distinct
    <3>2. QED
      BY <3>1, <1>1
  <2>3. \A k \in DOMAIN q, l \in DOMAIN r : q[k] # r[l]
    BY <1>6 DEF Elements
  <2>4. QED
    BY <1>2, <2>1, <2>2, <2>3
<1>7. QED
  BY <1>1, <1>3, <1>5, <1>6 DEF t

\* Held lists the coroutines of an actor that do not wait for a result.
LEMMA HeldElements ==
  ASSUME Parts, Places, NEW a \in Actors
  PROVE  /\ Held(a) \in Seq(Coroutines) /\ Distinct(Held(a))
         /\ Elements(Held(a)) = Listed(a) \cup Runs(a)
<1> DEFINE running == IF pc[a] = "run" THEN <<current[a]>> ELSE << >>
           listed == activations[a] \o waitingForRef[a]
<1>1. /\ activations[a] \in Seq(Coroutines) /\ waitingForRef[a] \in Seq(Coroutines)
  BY DEF Parts, ListsOK
<1>2. running \in Seq(Coroutines) /\ Distinct(running) /\ Elements(running) = Runs(a)
  <2>1. CASE pc[a] = "run"
    <3>1. current[a] \in Coroutines
      BY <2>1 DEF Parts, PlacesOK
    <3>2. running = <<current[a]>> /\ Runs(a) = {current[a]}
      BY <2>1 DEF Runs
    <3>3. Elements(<<current[a]>>) = {current[a]} /\ Distinct(<<current[a]>>)
      BY DEF Elements, Distinct
    <3>4. QED
      BY <3>1, <3>2, <3>3
  <2>2. CASE pc[a] # "run"
    BY <2>2 DEF Runs, Elements, Distinct
  <2>3. QED
    BY <2>1, <2>2
<1>3. OnePlace(a)
  BY DEF Places
<1>4. listed \in Seq(Coroutines) /\ Distinct(listed) /\ Elements(listed) = Listed(a)
  BY <1>1, <1>3, ElementsConcatenated DEF OnePlace, Listed
<1>5. Held(a) = listed \o running
  BY DEF Held
<1> HIDE DEF running, listed
<1>6. /\ listed \o running \in Seq(Coroutines) /\ Distinct(listed \o running)
      /\ Elements(listed \o running) = Listed(a) \cup Runs(a)
  BY <1>2, <1>3, <1>4, ElementsConcatenated DEF OnePlace
<1>7. QED
  BY <1>5, <1>6

LEMMA PlacesImplyInOnePlace == Parts /\ Places => InOnePlace
<1> SUFFICES ASSUME Parts, Places, NEW a \in Actors
             PROVE  InOnePlace!(a)
  BY DEF InOnePlace
<1>1. Distinct(Held(a)) /\ Elements(Held(a)) = Listed(a) \cup Runs(a)
  BY HeldElements
<1>2. OnePlace(a)
  BY DEF Places
<1>3. \A i \in DOMAIN Held(a) : Held(a)[i] \in Listed(a) \cup Runs(a)
  BY <1>1 DEF Elements
<1>4. \A c \in Listed(a) \cup Runs(a) : c \notin waitingForResult[a] /\ c \in Own(a)
  BY <1>2 DEF OnePlace, Live
<1>5. \A c \in waitingForResult[a] : c \in Own(a)
  BY <1>2 DEF OnePlace, Live
<1>6. QED
  BY <1>1, <1>3, <1>4, <1>5 DEF Distinct, Own

\* A coroutine runs, is ready, waits for a reference or waits for a result, never
\* two of them at once, and always on its own actor (src/actors/Interpreter.cpp:160-236).
THEOREM CoroutinesInOnePlace == Spec => []InOnePlace
<1>1. Init => Parts /\ Counts /\ Places
  BY InitType, InitCounts, InitPlaces
<1>2. Parts /\ Counts /\ Places /\ [Next]_vars => (Parts /\ Counts /\ Places)'
  BY NextTypes, NextPlaces
<1>3. Parts /\ Places => InOnePlace
  BY PlacesImplyInOnePlace
<1>4. QED
  BY <1>1, <1>2, <1>3, PTL DEF Spec

-----------------------------------------------------------------------------
(* What carries the answer to a call.                                       *)

Has(q, M) == \E i \in DOMAIN q : q[i] \in M
Once(q, M) == \A i, j \in DOMAIN q : q[i] \in M /\ q[j] \in M => i = j

LEMMA OnceAppended ==
  ASSUME NEW S, NEW q \in Seq(S), NEW x \in S, NEW M
  PROVE  /\ Has(Append(q, x), M) <=> Has(q, M) \/ x \in M
         /\ Once(q, M) /\ ~(Has(q, M) /\ x \in M) => Once(Append(q, x), M)
<1> DEFINE r == Append(q, x)
<1>1. /\ Len(q) \in Nat /\ DOMAIN q = 1..Len(q) /\ DOMAIN r = 1..(Len(q) + 1)
      /\ r[Len(q) + 1] = x /\ \A i \in 1..Len(q) : r[i] = q[i]
  BY Appended
<1> HIDE DEF r
<1>2. \A i \in DOMAIN r : i = Len(q) + 1 \/ (i \in DOMAIN q /\ r[i] = q[i])
  BY <1>1
<1>3. Has(r, M) <=> Has(q, M) \/ x \in M
  BY <1>1, <1>2 DEF Has
<1>4. Once(q, M) /\ ~(Has(q, M) /\ x \in M) => Once(r, M)
  BY <1>1, <1>2 DEF Has, Once
<1>5. QED
  BY <1>3, <1>4 DEF r

LEMMA OnceTaken ==
  ASSUME NEW S, NEW q \in Seq(S), q # << >>, NEW M, Once(q, M)
  PROVE  /\ Has(q, M) <=> Head(q) \in M \/ Has(Tail(q), M)
         /\ Head(q) \in M => ~Has(Tail(q), M)
         /\ Once(Tail(q), M)
<1> DEFINE r == Tail(q)
<1>1. /\ Head(q) = q[1] /\ Len(q) \in Nat \ {0} /\ DOMAIN q = 1..Len(q)
      /\ DOMAIN r = 1..(Len(q) - 1)
      /\ \A i \in 1..(Len(q) - 1) : r[i] = q[i + 1]
  BY Taken
<1> HIDE DEF r
<1>2. \A i \in DOMAIN r : i \in Nat /\ i + 1 \in DOMAIN q /\ r[i] = q[i + 1] /\ i + 1 # 1
  BY <1>1
<1>3. \A i \in DOMAIN q : i = 1 \/ (i - 1 \in DOMAIN r /\ r[i - 1] = q[i])
  BY <1>1
<1>4. 1 \in DOMAIN q
  BY <1>1
<1>5. Has(q, M) <=> q[1] \in M \/ Has(r, M)
  BY <1>2, <1>3, <1>4 DEF Has
<1>6. q[1] \in M => ~Has(r, M)
  BY <1>2, <1>4 DEF Has, Once
<1>7. Once(r, M)
  <2> SUFFICES ASSUME NEW i \in DOMAIN r, NEW j \in DOMAIN r, r[i] \in M, r[j] \in M PROVE i = j
    BY DEF Once
  <2>1. i + 1 = j + 1
    BY <1>2 DEF Once
  <2>2. QED
    BY <1>2, <2>1
<1>8. QED
  BY <1>1, <1>5, <1>6, <1>7 DEF r

\* Messages and mails that carry the answer to c, and who holds them.
ForMsg(c) == {m \in Messages : IsFor(m, c)}
ForMail(c) == {x \in Mails : IsFor(x.msg, c)}
InboxOf(c) == {a \in Actors : Has(inbox[a], ForMsg(c))}
OutOf(c) == {a \in Actors : Has(out[a], ForMail(c))}
Workers(c) == {h \in Coroutines : caller[h] = c /\ \E a \in Actors : h \in Live(a)}

Carriers(c) ==
  ({"inbox"} \X InboxOf(c)) \cup ({"out"} \X OutOf(c)) \cup ({"work"} \X Workers(c))

AtMostOne(S) == \A x, y \in S : x = y

\* In each queue and among the mails of each actor there is at most one of them.
OnceEach(c) ==
  \A a \in Actors : Once(inbox[a], ForMsg(c)) /\ Once(out[a], ForMail(c))

Waits(c) == c \in waitingForResult[Home(c)]
SomeEnded == \E a \in Actors : Ended(a)

\* The answer to c is carried by one thing if c waits, by none if it does not, and
\* is lost only if a process ended.
Answered(c) ==
  /\ OnceEach(c)
  /\ AtMostOne(Carriers(c))
  /\ Carriers(c) # {} => Waits(c)
  /\ Waits(c) /\ Carriers(c) = {} => SomeEnded

\* What is addressed to whom: results go home, and come first or second.
Proper(m, b) ==
  /\ m.type = "OBJ_RESULT" => m.to \in Coroutines /\ Home(m.to) = b
  /\ m.type = "SOM" => m.to = NoOne

Addressed ==
  /\ \A a \in Actors : \A i \in DOMAIN inbox[a] : Proper(inbox[a][i], a)
  /\ \A a \in Actors : \A i \in DOMAIN out[a] :
       /\ Proper(out[a][i].msg, out[a][i].dest)
       /\ out[a][i].msg.type # "EXIT" => i <= 2

\* An answer stays an answer: nothing changes, it is lost with a process, or one
\* carrier hands it to another.
LEMMA StillAnswered ==
  ASSUME NEW c, Answered(c), OnceEach(c)', Waits(c)' = Waits(c), SomeEnded => SomeEnded',
         \/ Carriers(c)' = Carriers(c)
         \/ Carriers(c)' \subseteq Carriers(c) /\ SomeEnded'
         \/ \E x \in Carriers(c) : \E y : Carriers(c)' = (Carriers(c) \ {x}) \cup {y}
  PROVE  Answered(c)'
<1>1. CASE Carriers(c)' = Carriers(c)
  BY <1>1 DEF Answered, AtMostOne
<1>2. CASE Carriers(c)' \subseteq Carriers(c) /\ SomeEnded'
  BY <1>2 DEF Answered, AtMostOne
<1>3. CASE \E x \in Carriers(c) : \E y : Carriers(c)' = (Carriers(c) \ {x}) \cup {y}
  BY <1>3 DEF Answered, AtMostOne
<1>4. QED
  BY <1>1, <1>2, <1>3

\* Taking a message from a queue.
LEMMA InboxTaken ==
  ASSUME Parts, NEW a \in Actors, inbox[a] # << >>, inbox' = [inbox EXCEPT ![a] = Tail(inbox[a])],
         NEW c, \A b \in Actors : Once(inbox[b], ForMsg(c))
  PROVE  /\ \A b \in Actors : Once(inbox'[b], ForMsg(c))
         /\ IsFor(Head(inbox[a]), c) => a \in InboxOf(c) /\ InboxOf(c)' = InboxOf(c) \ {a}
         /\ ~IsFor(Head(inbox[a]), c) => InboxOf(c)' = InboxOf(c)
<1>1. inbox[a] \in Seq(Messages) /\ Head(inbox[a]) \in Messages
  BY Taken DEF Parts, InboxOK
<1>2. \A b \in Actors : inbox'[b] = IF b = a THEN Tail(inbox[a]) ELSE inbox[b]
  BY DEF Parts, InboxOK
<1>3. /\ Has(inbox[a], ForMsg(c)) <=> Head(inbox[a]) \in ForMsg(c) \/ Has(Tail(inbox[a]), ForMsg(c))
      /\ Head(inbox[a]) \in ForMsg(c) => ~Has(Tail(inbox[a]), ForMsg(c))
      /\ Once(Tail(inbox[a]), ForMsg(c))
  BY <1>1, OnceTaken
<1>4. Head(inbox[a]) \in ForMsg(c) <=> IsFor(Head(inbox[a]), c)
  BY <1>1 DEF ForMsg
<1>5. \A b \in Actors : Once(inbox'[b], ForMsg(c))
  BY <1>2, <1>3
<1>6. \A b \in Actors : b \in InboxOf(c)' <=> Has(inbox'[b], ForMsg(c))
  BY DEF InboxOf
<1>7. \A b \in Actors : b \in InboxOf(c) <=> Has(inbox[b], ForMsg(c))
  BY DEF InboxOf
<1>8. InboxOf(c) \subseteq Actors /\ InboxOf(c)' \subseteq Actors
  BY DEF InboxOf
<1>9. IsFor(Head(inbox[a]), c) => a \in InboxOf(c) /\ InboxOf(c)' = InboxOf(c) \ {a}
  BY <1>2, <1>3, <1>4, <1>6, <1>7, <1>8
<1>10. ~IsFor(Head(inbox[a]), c) => InboxOf(c)' = InboxOf(c)
  BY <1>2, <1>3, <1>4, <1>6, <1>7, <1>8
<1>11. QED
  BY <1>5, <1>9, <1>10

\* Handing mails to the process that sends them.
LEMMA OutFilled ==
  ASSUME Parts, NEW a \in Actors, out[a] = << >>, NEW q \in Seq(Mails), out' = [out EXCEPT ![a] = q],
         NEW c, \A b \in Actors : Once(out[b], ForMail(c)), Once(q, ForMail(c))
  PROVE  /\ \A b \in Actors : Once(out'[b], ForMail(c))
         /\ OutOf(c)' = IF Has(q, ForMail(c)) THEN OutOf(c) \cup {a} ELSE OutOf(c)
<1>1. \A b \in Actors : out'[b] = IF b = a THEN q ELSE out[b]
  BY DEF Parts, OutOK
<1>2. ~Has(out[a], ForMail(c))
  BY DEF Has
<1>3. \A b \in Actors : Once(out'[b], ForMail(c))
  BY <1>1
<1>4. \A b \in Actors : (b \in OutOf(c)' <=> Has(out'[b], ForMail(c)))
                       /\ (b \in OutOf(c) <=> Has(out[b], ForMail(c)))
  BY DEF OutOf
<1>5. OutOf(c) \subseteq Actors /\ OutOf(c)' \subseteq Actors
  BY DEF OutOf
<1>6. QED
  BY <1>1, <1>2, <1>3, <1>4, <1>5

\* Who left the loop for good does not come back.
LEMMA EndedStays ==
  ASSUME Parts, Next, SomeEnded
  PROVE  SomeEnded'
<1> PICK e \in Actors : Ended(e)
  BY DEF SomeEnded
<1>1. PICK a \in Actors :
        \/ MovesOnly(a) \/ Quits(a) \/ Deliver(a) \/ Resume(a) \/ Receive(a)
        \/ Parks(a) \/ StopSystem(a) \/ ReturnRemote(a)
        \/ \E b \in Actors : Sends(a, b) \/ (b # a /\ SendSync(a, b))
  BY StepKinds
<1> USE DEF Ended, Parts, PlacesOK
<1>2. CASE MovesOnly(a)
  <2>1. Ended(e)'
    BY <1>2 DEF MovesOnly, EnterLoop, Sleep, Halt, AllReaped, At
  <2>2. QED
    BY <2>1 DEF SomeEnded
<1>3. CASE Quits(a)
  <2>1. Ended(e)'
    BY <1>3, QuitsIs DEF QuitProcess
  <2>2. QED
    BY <2>1 DEF SomeEnded
<1>4. CASE Deliver(a)
  BY <1>4, DeliverIs DEF SomeEnded
<1>5. CASE Resume(a)
  BY <1>5 DEF Resume, At, SomeEnded
<1>6. CASE Receive(a)
  <2>1. pc' = pc \/ pc' = [pc EXCEPT ![a] = "crashed"]
    BY <1>6, ReceiveIs DEF Crashes, Crash, ProcessExit, ProcessSom, ProcessRef, Wakes, ProcessNewRef
  <2>2. Ended(e)'
    BY <2>1
  <2>3. QED
    BY <2>2 DEF SomeEnded
<1>7. CASE Parks(a)
  <2>1. pc[a] = "run" /\ Suspend(a)
    BY <1>7 DEF Parks, Yield, WaitForReference, Perform, At
  <2>2. QED
    BY <2>1 DEF Suspend, SomeEnded
<1>8. CASE ReturnRemote(a)
  BY <1>8, ReturnRemoteIs DEF SomeEnded
<1>9. CASE \E b \in Actors : Sends(a, b) \/ (b # a /\ SendSync(a, b))
  <2>1. CASE \E b \in Actors : Sends(a, b)
    BY <2>1, SendsIs DEF SomeEnded
  <2>2. CASE \E b \in Actors : SendSync(a, b)
    BY <2>2 DEF SendSync, Perform, At, Suspend, SomeEnded
  <2>3. QED
    BY <1>9, <2>1, <2>2
<1>10. CASE StopSystem(a)
  BY <1>10, StopsIs DEF SomeEnded
<1>11. QED
  BY <1>1, <1>2, <1>3, <1>4, <1>5, <1>6, <1>7, <1>8, <1>9, <1>10

\* What holds before and after a step of the system, for the lemmas that follow.
Good == Parts /\ Counts /\ Places /\ Addressed

LEMMA WorkersSame ==
  ASSUME UNCHANGED caller, \A b \in Actors : Live(b)' = Live(b), NEW c
  PROVE  Workers(c)' = Workers(c)
BY DEF Workers

\* Steps that touch neither queues nor mails nor what is waited for, and end no
\* coroutine that answers somebody.
LEMMA LoopAnswers ==
  ASSUME Good, Next, NEW a \in Actors,
         MovesOnly(a) \/ Resume(a) \/ Parks(a) \/ StopSystem(a),
         NEW c \in Coroutines, Answered(c)
  PROVE  Answered(c)'
<1>1. UNCHANGED <<inbox, out, waitingForResult, caller>>
  BY MovesOnlyIs, StopsIs DEF Good, Resume, Parks, Yield, WaitForReference, queues, frames
<1>2. Workers(c)' = Workers(c)
  <2>1. CASE Resume(a) \/ Parks(a)
    BY <1>1, <2>1, ResumePlaces, ParksPlaces, WorkersSame DEF Good
  <2>2. CASE MovesOnly(a)
    <3>1. /\ Live(a)' = (Live(a) \ Runs(a)) \cup Runs(a)' /\ Runs(a)' \subseteq Runs(a)
          /\ \A b \in Actors \ {a} : Live(b)' = Live(b)
      BY <2>2, QuietIs, KeepsLists DEF Good, Quiet
    <3>2. \A h \in Runs(a) : caller[h] # c
      <4>1. CASE pc[a] = "run"
        <5>1. caller[current[a]] = NoOne
          BY <2>2, <4>1 DEF MovesOnly, EnterLoop, Sleep, AllReaped, At, Halt
        <5>2. QED
          BY <4>1, <5>1, NoOneAssumption DEF Runs
      <4>2. CASE pc[a] # "run"
        BY <4>2 DEF Runs
      <4>3. QED
        BY <4>1, <4>2
    <3>3. ASSUME NEW h \in Coroutines, caller[h] = c
          PROVE  \A b \in Actors : h \in Live(b)' <=> h \in Live(b)
      BY <3>1, <3>2, <3>3
    <3>4. QED
      BY <1>1, <3>3 DEF Workers
  <2>3. CASE StopSystem(a)
    BY <2>3, StopsIs DEF Good, Workers, Live, Listed, Runs, Elements, queues, frames
  <2>4. QED
    BY <2>1, <2>2, <2>3
<1>3. Carriers(c)' = Carriers(c)
  BY <1>1, <1>2 DEF Carriers, InboxOf, OutOf
<1>4. OnceEach(c)' /\ Waits(c)' = Waits(c)
  BY <1>1 DEF Answered, OnceEach, Waits
<1>5. QED
  BY <1>3, <1>4, EndedStays, StillAnswered DEF Good

\* Sending what needs no answer.
LEMMA SendsAnswers ==
  ASSUME Good, Next, NEW a \in Actors, NEW b \in Actors, Sends(a, b),
         NEW c \in Coroutines, Answered(c)
  PROVE  Answered(c)'
<1>1. PICK type \in {"SOM", "OBJ_REF"} : out' = [out EXCEPT ![a] = <<Mail(b, Msg(type, a, NoOne))>>]
  BY SendsIs DEF Good
<1>2. UNCHANGED <<inbox, waitingForResult, caller>> /\ out[a] = << >>
  BY SendsIs, PerformCounts DEF Good, queues, frames
<1>3. Workers(c)' = Workers(c)
  <2>1. /\ Live(a)' = (Live(a) \ Runs(a)) \cup Runs(a)'
        /\ \A d \in Actors \ {a} : Live(d)' = Live(d)
    BY QuietIs, KeepsLists DEF Good, Quiet
  <2>2. Runs(a)' = Runs(a) /\ Runs(a) \subseteq Live(a)
    BY SendsIs DEF Good, Runs, Live
  <2>3. \A d \in Actors : Live(d)' = Live(d)
    BY <2>1, <2>2
  <2>4. QED
    BY <1>2, <2>3, WorkersSame
<1> DEFINE x == Mail(b, Msg(type, a, NoOne))
<1>4. x \in Mails /\ x \notin ForMail(c)
  BY MsgType DEF MessageTypes, ForMail, IsFor, Mail, Msg
<1> HIDE DEF x
<1>5. <<x>> \in Seq(Mails) /\ ~Has(<<x>>, ForMail(c)) /\ Once(<<x>>, ForMail(c))
  BY <1>4 DEF Has, Once
<1>6. (\A d \in Actors : Once(out'[d], ForMail(c))) /\ OutOf(c)' = OutOf(c)
  BY <1>1, <1>2, <1>5, OutFilled DEF Answered, OnceEach, Good, x
<1>7. Carriers(c)' = Carriers(c)
  BY <1>2, <1>3, <1>6 DEF Carriers, InboxOf
<1>8. OnceEach(c)' /\ Waits(c)' = Waits(c)
  BY <1>2, <1>6 DEF Answered, OnceEach, Waits
<1>9. QED
  BY <1>7, <1>8, EndedStays, StillAnswered DEF Good

\* The end of a process may lose answers, and sends none.
LEMMA QuitsAnswers ==
  ASSUME Good, Next, NEW a \in Actors, Quits(a), NEW c \in Coroutines, Answered(c)
  PROVE  Answered(c)'
<1>1. /\ UNCHANGED <<inbox, waitingForResult, caller>> /\ out[a] = << >> /\ QuitProcess(a)
  BY QuitsIs DEF Good, queues, frames
<1>2. SomeEnded'
  BY <1>1 DEF QuitProcess, Good, Parts, PlacesOK, SomeEnded, Ended
<1>3. Workers(c)' \subseteq Workers(c)
  <2>1. /\ Live(a)' = (Live(a) \ Runs(a)) \cup Runs(a)' /\ Runs(a)' \subseteq Runs(a)
        /\ \A d \in Actors \ {a} : Live(d)' = Live(d)
    BY QuietIs, KeepsLists DEF Good, Quiet
  <2>2. Runs(a) \subseteq Live(a)
    BY DEF Live
  <2>3. \A d \in Actors : Live(d)' \subseteq Live(d)
    BY <2>1, <2>2
  <2>4. QED
    BY <1>1, <2>3 DEF Workers
<1>4. (\A d \in Actors : Once(out'[d], ForMail(c))) /\ OutOf(c)' = OutOf(c)
  <2>1. CASE a # Main
    BY <1>1, <2>1 DEF QuitProcess, Answered, OnceEach, OutOf
  <2>2. CASE a = Main
    <3> DEFINE q == [f \in 1..(N - 1) |-> Mail(f, Exit)]
    <3>1. q \in Seq(Mails) /\ \A i \in DOMAIN q : q[i] \notin ForMail(c)
      BY ExitMails DEF ForMail, IsFor, Mail, Exit, Msg
    <3>2. out' = [out EXCEPT ![a] = q]
      BY <1>1, <2>2 DEF QuitProcess
    <3> HIDE DEF q
    <3>3. ~Has(q, ForMail(c)) /\ Once(q, ForMail(c))
      BY <3>1 DEF Has, Once
    <3>4. QED
      BY <1>1, <3>1, <3>2, <3>3, OutFilled DEF Answered, OnceEach, Good
  <2>3. QED
    BY <2>1, <2>2
<1>5. Carriers(c)' \subseteq Carriers(c)
  BY <1>1, <1>3, <1>4 DEF Carriers, InboxOf
<1>6. OnceEach(c)' /\ Waits(c)' = Waits(c)
  BY <1>1, <1>4 DEF Answered, OnceEach, Waits
<1>7. QED
  BY <1>2, <1>5, <1>6, StillAnswered

\* A set of carriers from which one element of a kind moves to another kind.
LEMMA InboxCarriers ==
  ASSUME NEW c, NEW a
  PROVE  /\ <<"inbox", a>> \in Carriers(c) <=> a \in InboxOf(c)
         /\ <<"out", a>> \in Carriers(c) <=> a \in OutOf(c)
         /\ <<"work", a>> \in Carriers(c) <=> a \in Workers(c)
BY DEF Carriers

\* A mail that is delivered carries the answer on to the queue.
LEMMA DeliverAnswers ==
  ASSUME Good, Next, NEW a \in Actors, Deliver(a), NEW c \in Coroutines, Answered(c)
  PROVE  Answered(c)'
<1> DEFINE b == Head(out[a]).dest
           m == Head(out[a]).msg
<1>1. /\ UNCHANGED <<waitingForResult, caller, pc, current, activations, waitingForRef, created>>
      /\ out[a] \in Seq(Mails) /\ out[a] # << >>
      /\ Head(out[a]) \in Mails
      /\ out' = [out EXCEPT ![a] = Tail(out[a])]
      /\ b \in Actors /\ m \in Messages
      /\ inbox' = [inbox EXCEPT ![b] = Append(inbox[b], m)]
  BY DeliverIs DEF Good, queues, frames
<1>2. Head(out[a]) \in ForMail(c) <=> IsFor(m, c)
  BY <1>1 DEF ForMail
<1>3. m \in ForMsg(c) <=> IsFor(m, c)
  BY <1>1 DEF ForMsg
<1> HIDE DEF b, m
<1>4. Workers(c)' = Workers(c)
  <2>1. \A d \in Actors : Live(d)' = Live(d)
    BY <1>1 DEF Live, Listed, Runs, Elements
  <2>2. QED
    BY <1>1, <2>1, WorkersSame
<1>5. \A d \in Actors : out'[d] = IF d = a THEN Tail(out[a]) ELSE out[d]
  BY <1>1 DEF Good, Parts, OutOK
<1>6. \A d \in Actors : inbox'[d] = IF d = b THEN Append(inbox[b], m) ELSE inbox[d]
  BY <1>1 DEF Good, Parts, InboxOK
<1>7. \A d \in Actors : Once(inbox[d], ForMsg(c)) /\ Once(out[d], ForMail(c))
  BY DEF Answered, OnceEach
<1>8. /\ Has(out[a], ForMail(c)) <=> IsFor(m, c) \/ Has(Tail(out[a]), ForMail(c))
      /\ IsFor(m, c) => ~Has(Tail(out[a]), ForMail(c))
      /\ Once(Tail(out[a]), ForMail(c))
  BY <1>1, <1>2, <1>7, OnceTaken
<1>9. /\ Has(Append(inbox[b], m), ForMsg(c)) <=> Has(inbox[b], ForMsg(c)) \/ IsFor(m, c)
      /\ ~(Has(inbox[b], ForMsg(c)) /\ IsFor(m, c)) => Once(Append(inbox[b], m), ForMsg(c))
  <2>1. inbox[b] \in Seq(Messages)
    BY <1>1 DEF Good, Parts, InboxOK
  <2>2. QED
    BY <1>1, <1>3, <1>7, <2>1, OnceAppended
<1>10. CASE IsFor(m, c)
  <2>1. a \in OutOf(c)
    BY <1>8, <1>10 DEF OutOf
  <2>2. <<"out", a>> \in Carriers(c)
    BY <2>1, InboxCarriers
  <2>3. b \notin InboxOf(c)
    <3>1. <<"inbox", b>> # <<"out", a>>
      OBVIOUS
    <3>2. <<"inbox", b>> \notin Carriers(c)
      BY <2>2, <3>1 DEF Answered, AtMostOne
    <3>3. QED
      BY <3>2, InboxCarriers
  <2>4. ~Has(inbox[b], ForMsg(c))
    BY <1>1, <2>3 DEF InboxOf
  <2>5. OnceEach(c)'
    BY <1>5, <1>6, <1>7, <1>8, <1>9, <2>4 DEF OnceEach
  <2>6. OutOf(c)' = OutOf(c) \ {a} /\ InboxOf(c)' = InboxOf(c) \cup {b}
    <3>1. \A d \in Actors : d \in OutOf(c)' <=> d \in OutOf(c) /\ d # a
      BY <1>5, <1>8, <1>10 DEF OutOf
    <3>2. \A d \in Actors : d \in InboxOf(c)' <=> d \in InboxOf(c) \/ d = b
      BY <1>6, <1>9, <1>10 DEF InboxOf
    <3>3. QED
      BY <1>1, <2>1, <3>1, <3>2 DEF OutOf, InboxOf
  <2>7. Carriers(c)' = (Carriers(c) \ {<<"out", a>>}) \cup {<<"inbox", b>>}
    BY <1>4, <2>6 DEF Carriers
  <2>8. QED
    BY <1>1, <2>2, <2>5, <2>7, EndedStays, StillAnswered DEF Good, Waits
<1>11. CASE ~IsFor(m, c)
  <2>1. OnceEach(c)'
    BY <1>5, <1>6, <1>7, <1>8, <1>9, <1>11 DEF OnceEach
  <2>2. OutOf(c)' = OutOf(c) /\ InboxOf(c)' = InboxOf(c)
    <3>1. \A d \in Actors : d \in OutOf(c)' <=> d \in OutOf(c)
      BY <1>5, <1>8, <1>11 DEF OutOf
    <3>2. \A d \in Actors : d \in InboxOf(c)' <=> d \in InboxOf(c)
      BY <1>6, <1>9, <1>11 DEF InboxOf
    <3>3. QED
      BY <3>1, <3>2 DEF OutOf, InboxOf
  <2>3. Carriers(c)' = Carriers(c)
    BY <1>4, <2>2 DEF Carriers
  <2>4. QED
    BY <1>1, <2>1, <2>3, EndedStays, StillAnswered DEF Good, Waits
<1>12. QED
  BY <1>10, <1>11

\* The end of a coroutine that answers somebody hands the answer to a mail.
LEMMA ReturnRemoteAnswers ==
  ASSUME Good, Next, NEW a \in Actors, ReturnRemote(a), NEW c \in Coroutines, Answered(c)
  PROVE  Answered(c)'
<1> DEFINE h == current[a]
           d == caller[h]
           result == Mail(Home(d), Msg("OBJ_RESULT", a, d))
           notice == Mail(Home(d), Msg("NEW_REF", a, d))
<1>1. /\ UNCHANGED <<inbox, waitingForResult, caller>>
      /\ pc[a] = "run" /\ out[a] = << >> /\ pc' = [pc EXCEPT ![a] = "top"]
      /\ h \in Coroutines /\ d \in Coroutines /\ Home(d) \in Actors
      /\ \/ out' = [out EXCEPT ![a] = <<result>>]
         \/ out' = [out EXCEPT ![a] = <<notice, result>>]
  BY ReturnRemoteIs DEF Good, queues, frames
<1>2. /\ result \in Mails /\ notice \in Mails
      /\ notice \notin ForMail(c)
      /\ result \in ForMail(c) <=> c = d
  <2>1. result \in Mails /\ notice \in Mails
    BY <1>1, MsgType DEF MessageTypes
  <2>2. QED
    BY <2>1 DEF ForMail, IsFor, Mail, Msg
<1>3. /\ Live(a)' = Live(a) \ {h} /\ h \in Live(a)
      /\ \A b \in Actors \ {a} : Live(b)' = Live(b)
  <2>1. Runs(a) = {h} /\ Runs(a)' = {}
    BY <1>1 DEF Runs, Good, Parts, PlacesOK
  <2>2. QED
    BY <2>1, QuietIs, KeepsLists DEF Good, Quiet, Live
<1>4. \A b \in Actors \ {a} : h \notin Live(b)
  <2>1. \A b \in Actors : Live(b) \subseteq Own(b)
    BY DEF Good, Places, OnePlace
  <2>2. QED
    BY <1>3, <2>1 DEF Own
<1> HIDE DEF h, d, result, notice
<1>5. PICK q \in Seq(Mails) : /\ out' = [out EXCEPT ![a] = q] /\ Once(q, ForMail(c))
                              /\ Has(q, ForMail(c)) <=> c = d
  <2>1. /\ <<result>> \in Seq(Mails) /\ <<notice, result>> \in Seq(Mails)
    BY <1>2
  <2>2. /\ Once(<<result>>, ForMail(c)) /\ (Has(<<result>>, ForMail(c)) <=> c = d)
    BY <1>2 DEF Once, Has
  <2>3. \A i \in DOMAIN <<notice, result>> :
          /\ i = 1 \/ i = 2
          /\ i = 1 => <<notice, result>>[i] = notice
          /\ i = 2 => <<notice, result>>[i] = result
    OBVIOUS
  <2>4. 2 \in DOMAIN <<notice, result>>
    OBVIOUS
  <2> DEFINE two == <<notice, result>>
  <2>5. \A i \in DOMAIN two : two[i] \in ForMail(c) => i = 2 /\ c = d
    BY <1>2, <2>3
  <2>6. 2 \in DOMAIN two /\ two[2] = result
    BY <2>3, <2>4
  <2> HIDE DEF two
  <2>7. Once(two, ForMail(c)) /\ (Has(two, ForMail(c)) <=> c = d)
    BY <1>2, <2>5, <2>6 DEF Once, Has
  <2>8. QED
    BY <1>1, <2>1, <2>2, <2>7 DEF two
<1>6. /\ \A b \in Actors : Once(out'[b], ForMail(c))
      /\ OutOf(c)' = IF c = d THEN OutOf(c) \cup {a} ELSE OutOf(c)
  BY <1>1, <1>5, OutFilled DEF Answered, OnceEach, Good
<1>7. OnceEach(c)' /\ Waits(c)' = Waits(c) /\ InboxOf(c)' = InboxOf(c)
  BY <1>1, <1>6 DEF Answered, OnceEach, Waits, InboxOf
<1>8. CASE c = d
  <2>1. h \in Workers(c) /\ Workers(c)' = Workers(c) \ {h}
    <3>1. caller[h] = c
      BY <1>8 DEF d
    <3>2. h \in Workers(c)
      BY <1>1, <1>3, <3>1 DEF Workers
    <3>3. \A g \in Coroutines : (\E b \in Actors : g \in Live(b)')
                                <=> (\E b \in Actors : g \in Live(b)) /\ g # h
      BY <1>3, <1>4
    <3>4. QED
      BY <1>1, <3>2, <3>3 DEF Workers
  <2>2. <<"work", h>> \in Carriers(c)
    BY <2>1, InboxCarriers
  <2>3. Carriers(c)' = (Carriers(c) \ {<<"work", h>>}) \cup {<<"out", a>>}
    BY <1>6, <1>7, <1>8, <2>1 DEF Carriers
  <2>4. QED
    BY <1>7, <2>2, <2>3, EndedStays, StillAnswered DEF Good
<1>9. CASE c # d
  <2>1. Workers(c)' = Workers(c)
    <3>1. caller[h] # c
      BY <1>9 DEF d
    <3>2. \A g \in Coroutines \ {h} : \A b \in Actors : g \in Live(b)' <=> g \in Live(b)
      BY <1>3
    <3>3. QED
      BY <1>1, <3>1, <3>2 DEF Workers
  <2>2. Carriers(c)' = Carriers(c)
    BY <1>6, <1>7, <1>9, <2>1 DEF Carriers
  <2>3. QED
    BY <1>7, <2>2, EndedStays, StillAnswered DEF Good
<1>10. QED
  BY <1>8, <1>9

\* A call sends the one request that stands for its answer.
LEMMA SendSyncAnswers ==
  ASSUME Good, Next, NEW a \in Actors, NEW b \in Actors, SendSync(a, b),
         NEW c \in Coroutines, Answered(c)
  PROVE  Answered(c)'
<1> DEFINE d == current[a]
           x == Mail(b, Msg("SOM_RESULT", a, d))
<1>1. /\ UNCHANGED <<inbox, caller>> /\ pc[a] = "run" /\ out[a] = << >> /\ d \in Coroutines
      /\ out' = [out EXCEPT ![a] = <<x>>]
      /\ waitingForResult' = [waitingForResult EXCEPT ![a] = @ \cup {d}]
  BY PerformCounts DEF SendSync, Good, frames
<1>2. x \in Mails /\ (x \in ForMail(c) <=> c = d)
  <2>1. x \in Mails
    BY <1>1, MsgType DEF MessageTypes
  <2>2. QED
    BY <2>1 DEF ForMail, IsFor, Mail, Msg
<1>3. OnePlace(a) /\ Runs(a) = {d}
  BY <1>1 DEF Good, Places, Runs
<1>4. d \notin waitingForResult[a] /\ Home(d) = a
  BY <1>3 DEF OnePlace, Live, Own
<1> HIDE DEF d, x
<1>5. <<x>> \in Seq(Mails) /\ Once(<<x>>, ForMail(c)) /\ (Has(<<x>>, ForMail(c)) <=> c = d)
  BY <1>2 DEF Once, Has
<1>6. /\ \A e \in Actors : Once(out'[e], ForMail(c))
      /\ OutOf(c)' = IF c = d THEN OutOf(c) \cup {a} ELSE OutOf(c)
  BY <1>1, <1>5, OutFilled DEF Answered, OnceEach, Good
<1>7. OnceEach(c)' /\ InboxOf(c)' = InboxOf(c)
  BY <1>1, <1>6 DEF Answered, OnceEach, InboxOf
<1>8. Workers(c)' = Workers(c)
  <2>1. \A e \in Actors : Live(e)' = Live(e)
    BY ParksPlaces DEF Good
  <2>2. QED
    BY <1>1, <2>1, WorkersSame
<1>9. CASE c = d
  <2>1. ~Waits(c) /\ Waits(c)'
    BY <1>1, <1>4, <1>9 DEF Waits, Good, Parts, ListsOK
  <2>2. Carriers(c) = {}
    BY <2>1 DEF Answered
  <2>3. Carriers(c)' = {<<"out", a>>}
    BY <1>6, <1>7, <1>8, <1>9, <2>2 DEF Carriers
  <2>4. QED
    BY <1>7, <2>1, <2>3 DEF Answered, AtMostOne
<1>10. CASE c # d
  <2>1. Carriers(c)' = Carriers(c)
    BY <1>6, <1>7, <1>8, <1>10 DEF Carriers
  <2>2. Waits(c)' = Waits(c)
    <3>1. Home(c) \in Actors
      BY DEF Home, Coroutines
    <3>2. QED
      BY <1>1, <1>10, <3>1 DEF Waits, Good, Parts, ListsOK
  <2>3. QED
    BY <1>7, <2>1, <2>2, EndedStays, StillAnswered DEF Good
<1>11. QED
  BY <1>9, <1>10

\* What all messages have in common.
LEMMA ReceiveChanges ==
  ASSUME Good, NEW a \in Actors, Receive(a), NEW c \in Coroutines, Answered(c)
  PROVE  LET m == Head(inbox[a]) IN
         /\ OnceEach(c)' /\ OutOf(c)' = OutOf(c) /\ UNCHANGED current
         /\ IsFor(m, c) => a \in InboxOf(c) /\ InboxOf(c)' = InboxOf(c) \ {a}
         /\ ~IsFor(m, c) => InboxOf(c)' = InboxOf(c)
         /\ m \in Messages /\ Proper(m, a)
         /\ pc[a] = "receive" /\ Runs(a) = {}
<1>1. /\ UNCHANGED <<out, current>> /\ pc[a] = "receive"
      /\ inbox[a] \in Seq(Messages) /\ inbox[a] # << >>
      /\ inbox' = [inbox EXCEPT ![a] = Tail(inbox[a])]
      /\ Head(inbox[a]) \in Messages /\ Head(inbox[a]) = inbox[a][1]
  BY ReceiveIs DEF Good
<1>2. 1 \in DOMAIN inbox[a]
  BY <1>1, Taken
<1>3. Proper(Head(inbox[a]), a)
  BY <1>1, <1>2 DEF Good, Addressed
<1>4. /\ \A b \in Actors : Once(inbox'[b], ForMsg(c))
      /\ IsFor(Head(inbox[a]), c) => a \in InboxOf(c) /\ InboxOf(c)' = InboxOf(c) \ {a}
      /\ ~IsFor(Head(inbox[a]), c) => InboxOf(c)' = InboxOf(c)
  BY <1>1, InboxTaken DEF Good, Answered, OnceEach
<1>5. OnceEach(c)' /\ OutOf(c)' = OutOf(c)
  BY <1>1, <1>4 DEF Answered, OnceEach, OutOf
<1>6. Runs(a) = {}
  BY <1>1 DEF Runs
<1>7. QED
  BY <1>1, <1>3, <1>4, <1>5, <1>6

LEMMA QuietReceiveAnswers ==
  ASSUME Good, Next, NEW a \in Actors, Receive(a), NEW c \in Coroutines, Answered(c),
         \/ Crashes(a)
         \/ /\ ~IsFor(Head(inbox[a]), c)
            /\ ProcessExit(a) \/ ProcessRef(a, Head(inbox[a])) \/ ProcessNewRef
  PROVE  Answered(c)'
<1>1. /\ OnceEach(c)' /\ OutOf(c)' = OutOf(c) /\ Runs(a) = {}
      /\ IsFor(Head(inbox[a]), c) => InboxOf(c)' = InboxOf(c) \ {a}
      /\ ~IsFor(Head(inbox[a]), c) => InboxOf(c)' = InboxOf(c)
  BY ReceiveChanges
<1>2. Quiet(a)
  BY DEF Quiet
<1>3. UNCHANGED <<waitingForResult, caller>> /\ \A b \in Actors : Live(b)' = Live(b)
  <2>1. /\ Live(a)' = (Live(a) \ Runs(a)) \cup Runs(a)' /\ Runs(a)' \subseteq Runs(a)
        /\ \A b \in Actors \ {a} : Live(b)' = Live(b)
    BY <1>2, QuietIs, KeepsLists DEF Good
  <2>2. QED
    BY <1>1, <1>2, <2>1, QuietIs DEF Good
<1>4. Workers(c)' = Workers(c) /\ Waits(c)' = Waits(c)
  BY <1>3, WorkersSame DEF Waits
<1>5. CASE Crashes(a)
  <2>1. SomeEnded'
    BY <1>5 DEF Crashes, Crash, SomeEnded, Ended, Good, Parts, PlacesOK
  <2>2. Carriers(c)' \subseteq Carriers(c)
    BY <1>1, <1>4 DEF Carriers
  <2>3. QED
    BY <1>1, <1>4, <2>1, <2>2, StillAnswered
<1>6. CASE ~IsFor(Head(inbox[a]), c)
  <2>1. Carriers(c)' = Carriers(c)
    BY <1>1, <1>4, <1>6 DEF Carriers
  <2>2. QED
    BY <1>1, <1>4, <2>1, EndedStays, StillAnswered DEF Good
<1>7. QED
  BY <1>5, <1>6

\* A request hands the answer to the coroutine that it creates.
LEMMA SomAnswers ==
  ASSUME Good, Next, NEW a \in Actors, Receive(a), IsRequest(Head(inbox[a])),
         ProcessSom(a, Head(inbox[a])), NEW c \in Coroutines, Answered(c)
  PROVE  Answered(c)'
<1> DEFINE m == Head(inbox[a])
           h == <<a, created[a] + 1>>
<1>1. /\ OnceEach(c)' /\ OutOf(c)' = OutOf(c) /\ UNCHANGED current
      /\ IsFor(m, c) => a \in InboxOf(c) /\ InboxOf(c)' = InboxOf(c) \ {a}
      /\ ~IsFor(m, c) => InboxOf(c)' = InboxOf(c)
      /\ m \in Messages /\ Proper(m, a)
      /\ pc[a] = "receive"
  BY ReceiveChanges
<1>2. IsFor(m, c) <=> m.to = c
  BY <1>1, NoOneAssumption DEF IsFor, Proper, IsRequest
<1>3. created[a] <= MaxOps
  BY ReceiveCounts DEF Good
<1>4. /\ h \in Coroutines /\ h \notin Live(a) /\ Live(a)' = Live(a) \cup {h}
      /\ \A b \in Actors \ {a} : Live(b)' = Live(b)
  BY <1>1, <1>3, SomPlaces DEF Good
<1>5. \A b \in Actors : h \notin Live(b)
  <2>1. \A b \in Actors : Live(b) \subseteq Own(b)
    BY DEF Good, Places, OnePlace
  <2>2. Home(h) = a
    BY DEF Home
  <2>3. QED
    BY <1>4, <2>1, <2>2 DEF Own
<1>6. UNCHANGED waitingForResult /\ caller' = [caller EXCEPT ![h] = m.to]
  BY DEF ProcessSom
<1> HIDE DEF m, h
<1>7. \A g \in Coroutines : caller'[g] = IF g = h THEN m.to ELSE caller[g]
  BY <1>6 DEF Good, Parts, FramesOK
<1>8. Waits(c)' = Waits(c)
  BY <1>6 DEF Waits
<1>9. /\ h \notin Workers(c)
      /\ \A g \in Coroutines : g \in Workers(c)' <=> g \in Workers(c) \/ (g = h /\ m.to = c)
  <2>1. \A g \in Coroutines : g \in Workers(c)' <=> caller'[g] = c /\ \E b \in Actors : g \in Live(b)'
    BY DEF Workers
  <2>2. \A g \in Coroutines : g \in Workers(c) <=> caller[g] = c /\ \E b \in Actors : g \in Live(b)
    BY DEF Workers
  <2>3. h \notin Workers(c)
    BY <1>4, <1>5, <2>2
  <2>4. \A g \in Coroutines : (\E b \in Actors : g \in Live(b)') <=> g = h \/ \E b \in Actors : g \in Live(b)
    BY <1>4
  <2>5. QED
    BY <1>4, <1>5, <1>7, <2>1, <2>2, <2>3, <2>4
<1>10. Workers(c) \subseteq Coroutines /\ Workers(c)' \subseteq Coroutines
  BY DEF Workers
<1>11. CASE m.to = c
  <2>1. Workers(c)' = Workers(c) \cup {h}
    BY <1>4, <1>9, <1>10, <1>11
  <2>2. <<"inbox", a>> \in Carriers(c)
    BY <1>1, <1>2, <1>11, InboxCarriers
  <2>3. Carriers(c)' = (Carriers(c) \ {<<"inbox", a>>}) \cup {<<"work", h>>}
    BY <1>1, <1>2, <1>11, <2>1 DEF Carriers
  <2>4. QED
    BY <1>1, <1>8, <2>2, <2>3, EndedStays, StillAnswered DEF Good
<1>12. CASE m.to # c
  <2>1. Workers(c)' = Workers(c)
    BY <1>9, <1>10, <1>12
  <2>2. Carriers(c)' = Carriers(c)
    BY <1>1, <1>2, <1>12, <2>1 DEF Carriers
  <2>3. QED
    BY <1>1, <1>8, <2>2, EndedStays, StillAnswered DEF Good
<1>13. QED
  BY <1>11, <1>12

\* A result ends the wait of the activation it is for, and no other's.
LEMMA WakesAnswers ==
  ASSUME Good, Next, NEW a \in Actors, Receive(a), Head(inbox[a]).type = "OBJ_RESULT",
         Wakes(a, Head(inbox[a])), NEW c \in Coroutines, Answered(c)
  PROVE  Answered(c)'
<1> DEFINE m == Head(inbox[a])
<1>1. /\ OnceEach(c)' /\ OutOf(c)' = OutOf(c) /\ UNCHANGED current
      /\ IsFor(m, c) => a \in InboxOf(c) /\ InboxOf(c)' = InboxOf(c) \ {a}
      /\ ~IsFor(m, c) => InboxOf(c)' = InboxOf(c)
      /\ m \in Messages /\ Proper(m, a)
  BY ReceiveChanges
<1>2. IsFor(m, c) <=> m.to = c
  BY DEF IsFor
<1>3. Home(m.to) = a /\ m.to \in Coroutines
  BY <1>1 DEF Proper
<1>4. /\ UNCHANGED caller
      /\ waitingForResult' = [waitingForResult EXCEPT ![a] = @ \ {m.to}]
  BY DEF Wakes, frames
<1>5. Workers(c)' = Workers(c)
  <2>1. \A b \in Actors : Live(b)' = Live(b)
    BY <1>1, WakesPlaces DEF Good
  <2>2. QED
    BY <1>4, <2>1, WorkersSame
<1> HIDE DEF m
<1>6. CASE m.to = c
  <2>1. ~Waits(c)'
    BY <1>3, <1>4, <1>6 DEF Waits, Good, Parts, ListsOK
  <2>2. <<"inbox", a>> \in Carriers(c)
    BY <1>1, <1>2, <1>6, InboxCarriers
  <2>3. Carriers(c) = {<<"inbox", a>>}
    BY <2>2 DEF Answered, AtMostOne
  <2>4. Carriers(c)' = {}
    <3>1. Carriers(c)' \subseteq Carriers(c) \ {<<"inbox", a>>}
      BY <1>1, <1>2, <1>5, <1>6 DEF Carriers
    <3>2. QED
      BY <2>3, <3>1
  <2>5. QED
    BY <1>1, <2>1, <2>4 DEF Answered, AtMostOne
<1>7. CASE m.to # c
  <2>1. Waits(c)' = Waits(c)
    <3>1. Home(c) \in Actors
      BY DEF Home, Coroutines
    <3>2. QED
      BY <1>4, <1>7, <3>1 DEF Waits, Good, Parts, ListsOK
  <2>2. Carriers(c)' = Carriers(c)
    BY <1>1, <1>2, <1>5, <1>7 DEF Carriers
  <2>3. QED
    BY <1>1, <2>1, <2>2, EndedStays, StillAnswered DEF Good
<1>8. QED
  BY <1>6, <1>7

-----------------------------------------------------------------------------
(* Messages go where they belong.                                           *)

LEMMA AddressedFilled ==
  ASSUME Parts, Addressed, NEW a \in Actors, NEW q \in Seq(Mails), UNCHANGED inbox,
         out' = [out EXCEPT ![a] = q],
         \A i \in DOMAIN q : Proper(q[i].msg, q[i].dest) /\ (q[i].msg.type # "EXIT" => i <= 2)
  PROVE  Addressed'
<1>1. \A b \in Actors : out'[b] = IF b = a THEN q ELSE out[b]
  BY DEF Parts, OutOK
<1>2. QED
  BY <1>1 DEF Addressed

LEMMA AddressedDelivered ==
  ASSUME Parts, Addressed, NEW a \in Actors, Deliver(a)
  PROVE  Addressed'
<1> DEFINE b == Head(out[a]).dest
           m == Head(out[a]).msg
<1>1. /\ out[a] \in Seq(Mails) /\ out[a] # << >> /\ Head(out[a]) = out[a][1]
      /\ out' = [out EXCEPT ![a] = Tail(out[a])]
      /\ b \in Actors /\ m \in Messages
      /\ inbox' = [inbox EXCEPT ![b] = Append(inbox[b], m)]
  BY DeliverIs
<1>2. /\ Len(out[a]) \in Nat \ {0} /\ DOMAIN out[a] = 1..Len(out[a])
      /\ DOMAIN Tail(out[a]) = 1..(Len(out[a]) - 1)
      /\ \A i \in 1..(Len(out[a]) - 1) : Tail(out[a])[i] = out[a][i + 1]
  BY <1>1, Taken
<1>3. Proper(m, b)
  BY <1>1, <1>2 DEF Addressed
<1> HIDE DEF b, m
<1>4. ASSUME NEW d \in Actors, NEW i \in DOMAIN inbox'[d] PROVE Proper(inbox'[d][i], d)
  <2>1. CASE d # b
    BY <2>1, <1>1, <1>4 DEF Addressed, Parts, InboxOK
  <2>2. CASE d = b
    <3>1. inbox[b] \in Seq(Messages) /\ inbox'[d] = Append(inbox[b], m)
      BY <1>1, <2>2 DEF Parts, InboxOK
    <3>2. inbox'[d][i] = m \/ \E j \in DOMAIN inbox[b] : inbox'[d][i] = inbox[b][j]
      BY <1>1, <1>4, <3>1, Appended
    <3>3. QED
      BY <1>1, <1>3, <2>2, <3>2 DEF Addressed
  <2>3. QED
    BY <2>1, <2>2
<1>5. ASSUME NEW d \in Actors, NEW i \in DOMAIN out'[d]
      PROVE  /\ Proper(out'[d][i].msg, out'[d][i].dest)
             /\ out'[d][i].msg.type # "EXIT" => i <= 2
  <2>1. CASE d # a
    BY <2>1, <1>1, <1>5 DEF Addressed, Parts, OutOK
  <2>2. CASE d = a
    <3>1. out'[d] = Tail(out[a])
      BY <1>1, <2>2 DEF Parts, OutOK
    <3>2. i \in 1..(Len(out[a]) - 1) /\ out'[d][i] = out[a][i + 1] /\ i + 1 \in DOMAIN out[a]
      BY <1>2, <1>5, <3>1
    <3>3. QED
      BY <3>2 DEF Addressed
  <2>3. QED
    BY <2>1, <2>2
<1>6. QED
  BY <1>4, <1>5 DEF Addressed

LEMMA AddressedTaken ==
  ASSUME Parts, Addressed, NEW a \in Actors, Receive(a)
  PROVE  Addressed'
<1>1. /\ UNCHANGED out /\ inbox[a] \in Seq(Messages) /\ inbox[a] # << >>
      /\ inbox' = [inbox EXCEPT ![a] = Tail(inbox[a])]
  BY ReceiveIs
<1>2. /\ Len(inbox[a]) \in Nat \ {0} /\ DOMAIN inbox[a] = 1..Len(inbox[a])
      /\ DOMAIN Tail(inbox[a]) = 1..(Len(inbox[a]) - 1)
      /\ \A i \in 1..(Len(inbox[a]) - 1) : Tail(inbox[a])[i] = inbox[a][i + 1]
  BY <1>1, Taken
<1>3. ASSUME NEW d \in Actors, NEW i \in DOMAIN inbox'[d] PROVE Proper(inbox'[d][i], d)
  <2>1. CASE d # a
    BY <2>1, <1>1, <1>3 DEF Addressed, Parts, InboxOK
  <2>2. CASE d = a
    <3>1. inbox'[d] = Tail(inbox[a])
      BY <1>1, <2>2 DEF Parts, InboxOK
    <3>2. inbox'[d][i] = inbox[a][i + 1] /\ i + 1 \in DOMAIN inbox[a]
      BY <1>2, <1>3, <3>1
    <3>3. QED
      BY <2>2, <3>2 DEF Addressed
  <2>3. QED
    BY <2>1, <2>2
<1>4. QED
  BY <1>1, <1>3 DEF Addressed

LEMMA NextAddressed ==
  ASSUME Parts, Counts, Addressed, [Next]_vars
  PROVE  Addressed'
<1>1. ASSUME NEW a \in Actors, MovesOnly(a) \/ Resume(a) \/ Parks(a) \/ StopSystem(a)
      PROVE  Addressed'
  <2>1. UNCHANGED <<inbox, out>>
    BY <1>1, MovesOnlyIs, StopsIs DEF Resume, Parks, Yield, WaitForReference
  <2>2. QED
    BY <2>1 DEF Addressed
<1>2. ASSUME NEW a \in Actors, Quits(a) PROVE Addressed'
  <2>1. UNCHANGED inbox /\ QuitProcess(a)
    BY <1>2, QuitsIs
  <2>2. CASE a # Main
    BY <2>1, <2>2 DEF QuitProcess, Addressed
  <2>3. CASE a = Main
    <3> DEFINE q == [f \in 1..(N - 1) |-> Mail(f, Exit)]
    <3>1. q \in Seq(Mails) /\ out' = [out EXCEPT ![a] = q]
      BY <2>1, <2>3, ExitMails DEF QuitProcess
    <3>2. \A i \in DOMAIN q : q[i].msg.type = "EXIT"
      BY DEF Mail, Exit, Msg
    <3> HIDE DEF q
    <3>3. QED
      BY <2>1, <3>1, <3>2, AddressedFilled DEF Proper
  <2>4. QED
    BY <2>2, <2>3
<1>3. ASSUME NEW a \in Actors, Deliver(a) PROVE Addressed'
  BY <1>3, AddressedDelivered
<1>4. ASSUME NEW a \in Actors, Receive(a) PROVE Addressed'
  BY <1>4, AddressedTaken
<1>5. ASSUME NEW a \in Actors, ReturnRemote(a) PROVE Addressed'
  <2> DEFINE c == caller[current[a]]
             result == Mail(Home(c), Msg("OBJ_RESULT", a, c))
             notice == Mail(Home(c), Msg("NEW_REF", a, c))
  <2>1. /\ UNCHANGED inbox /\ c \in Coroutines /\ Home(c) \in Actors
        /\ \/ out' = [out EXCEPT ![a] = <<result>>]
           \/ out' = [out EXCEPT ![a] = <<notice, result>>]
    BY <1>5, ReturnRemoteIs
  <2>2. /\ result \in Mails /\ notice \in Mails
        /\ Proper(result.msg, result.dest) /\ Proper(notice.msg, notice.dest)
    BY <2>1, MsgType DEF MessageTypes, Proper, Mail, Msg
  <2> HIDE DEF c, result, notice
  <2>3. PICK q \in Seq(Mails) :
          /\ out' = [out EXCEPT ![a] = q]
          /\ \A i \in DOMAIN q : Proper(q[i].msg, q[i].dest) /\ i <= 2
    <3>1. /\ <<result>> \in Seq(Mails) /\ <<notice, result>> \in Seq(Mails)
          /\ \A i \in DOMAIN <<result>> : <<result>>[i] = result /\ i <= 2
          /\ \A i \in DOMAIN <<notice, result>> : <<notice, result>>[i] \in {notice, result} /\ i <= 2
      BY <2>2
    <3>2. QED
      BY <2>1, <2>2, <3>1
  <2>4. QED
    BY <2>1, <2>3, AddressedFilled
<1>6. ASSUME NEW a \in Actors, NEW b \in Actors, Sends(a, b) \/ SendSync(a, b) PROVE Addressed'
  <2>1. PICK m \in Messages : /\ out' = [out EXCEPT ![a] = <<Mail(b, m)>>]
                              /\ Proper(m, b) /\ Mail(b, m) \in Mails
    <3>1. CASE Sends(a, b)
      <4>1. PICK type \in {"SOM", "OBJ_REF"} : out' = [out EXCEPT ![a] = <<Mail(b, Msg(type, a, NoOne))>>]
        BY <3>1, SendsIs
      <4>2. Msg(type, a, NoOne) \in Messages /\ Mail(b, Msg(type, a, NoOne)) \in Mails
        BY MsgType DEF MessageTypes
      <4>3. Proper(Msg(type, a, NoOne), b)
        BY DEF Proper, Msg
      <4>4. QED
        BY <4>1, <4>2, <4>3
    <3>2. CASE SendSync(a, b)
      <4>1. current[a] \in Coroutines
        BY <3>2, PerformCounts DEF SendSync
      <4>2. QED
        BY <3>2, <4>1, MsgType DEF SendSync, MessageTypes, Proper, Msg
    <3>3. QED
      BY <1>6, <3>1, <3>2
  <2>2. UNCHANGED inbox
    BY <1>6, SendsIs DEF SendSync
  <2>3. /\ <<Mail(b, m)>> \in Seq(Mails)
        /\ \A i \in DOMAIN <<Mail(b, m)>> : i = 1 /\ <<Mail(b, m)>>[i] = Mail(b, m)
    BY <2>1
  <2>4. Mail(b, m).msg = m /\ Mail(b, m).dest = b
    BY DEF Mail
  <2> DEFINE q == <<Mail(b, m)>>
  <2>5. /\ q \in Seq(Mails) /\ out' = [out EXCEPT ![a] = q]
        /\ \A i \in DOMAIN q : Proper(q[i].msg, q[i].dest) /\ (q[i].msg.type # "EXIT" => i <= 2)
    BY <2>1, <2>3, <2>4
  <2> HIDE DEF q
  <2>6. QED
    BY <2>2, <2>5, AddressedFilled
<1>7. CASE UNCHANGED vars
  BY <1>7 DEF vars, Addressed
<1>8. QED
  BY <1>1, <1>2, <1>3, <1>4, <1>5, <1>6, <1>7, StepKinds

-----------------------------------------------------------------------------
(* Every call has one answer.                                               *)

AllAnswered == \A c \in Coroutines : Answered(c)

LEMMA NextAnswered ==
  ASSUME Good, AllAnswered, [Next]_vars
  PROVE  AllAnswered'
<1> SUFFICES ASSUME NEW c \in Coroutines PROVE Answered(c)'
  BY DEF AllAnswered
<1>1. Answered(c)
  BY DEF AllAnswered
<1>2. CASE UNCHANGED vars
  <2>1. Workers(c)' = Workers(c)
    BY <1>2 DEF vars, queues, frames, Workers, Live, Listed, Runs, Elements
  <2>2. Carriers(c)' = Carriers(c) /\ OnceEach(c)' /\ Waits(c)' = Waits(c)
    BY <1>1, <1>2, <2>1 DEF vars, queues, Carriers, InboxOf, OutOf, Answered, OnceEach, Waits
  <2>3. SomeEnded' = SomeEnded
    BY <1>2 DEF vars, SomeEnded, Ended
  <2>4. QED
    BY <1>1, <2>2, <2>3, StillAnswered
<1>3. CASE Next
  <2>1. PICK a \in Actors :
          \/ MovesOnly(a) \/ Quits(a) \/ Deliver(a) \/ Resume(a) \/ Receive(a)
          \/ Parks(a) \/ StopSystem(a) \/ ReturnRemote(a)
          \/ \E b \in Actors : Sends(a, b) \/ (b # a /\ SendSync(a, b))
    BY <1>3, StepKinds
  <2>2. CASE MovesOnly(a) \/ Resume(a) \/ Parks(a) \/ StopSystem(a)
    BY <1>1, <1>3, <2>2, LoopAnswers
  <2>3. CASE Quits(a)
    BY <1>1, <1>3, <2>3, QuitsAnswers
  <2>4. CASE Deliver(a)
    BY <1>1, <1>3, <2>4, DeliverAnswers
  <2>5. CASE ReturnRemote(a)
    BY <1>1, <1>3, <2>5, ReturnRemoteAnswers
  <2>6. CASE \E b \in Actors : Sends(a, b)
    BY <1>1, <1>3, <2>6, SendsAnswers
  <2>7. CASE \E b \in Actors : SendSync(a, b)
    BY <1>1, <1>3, <2>7, SendSyncAnswers
  <2>8. CASE Receive(a)
    <3>1. \/ Crashes(a)
          \/ Head(inbox[a]).type = "EXIT" /\ ProcessExit(a)
          \/ IsRequest(Head(inbox[a])) /\ ProcessSom(a, Head(inbox[a]))
          \/ Head(inbox[a]).type = "OBJ_REF" /\ ProcessRef(a, Head(inbox[a]))
          \/ Head(inbox[a]).type = "OBJ_RESULT" /\ Wakes(a, Head(inbox[a]))
          \/ Head(inbox[a]).type = "NEW_REF" /\ ProcessNewRef
      BY <2>8, ReceiveIs DEF Good, IsRequest
    <3>2. CASE Crashes(a)
      BY <1>1, <1>3, <2>8, <3>2, QuietReceiveAnswers
    <3>3. CASE Head(inbox[a]).type = "EXIT" /\ ProcessExit(a)
      BY <1>1, <1>3, <2>8, <3>3, QuietReceiveAnswers DEF IsFor
    <3>4. CASE IsRequest(Head(inbox[a])) /\ ProcessSom(a, Head(inbox[a]))
      BY <1>1, <1>3, <2>8, <3>4, SomAnswers
    <3>5. CASE Head(inbox[a]).type = "OBJ_REF" /\ ProcessRef(a, Head(inbox[a]))
      BY <1>1, <1>3, <2>8, <3>5, QuietReceiveAnswers DEF IsFor
    <3>6. CASE Head(inbox[a]).type = "OBJ_RESULT" /\ Wakes(a, Head(inbox[a]))
      BY <1>1, <1>3, <2>8, <3>6, WakesAnswers
    <3>7. CASE Head(inbox[a]).type = "NEW_REF" /\ ProcessNewRef
      BY <1>1, <1>3, <2>8, <3>7, QuietReceiveAnswers DEF IsFor
    <3>8. QED
      BY <3>1, <3>2, <3>3, <3>4, <3>5, <3>6, <3>7
  <2>9. QED
    BY <2>1, <2>2, <2>3, <2>4, <2>5, <2>6, <2>7, <2>8
<1>4. QED
  BY <1>2, <1>3

LEMMA InitAnswered == Init => Addressed /\ AllAnswered
<1> SUFFICES ASSUME Init PROVE Addressed /\ AllAnswered
  OBVIOUS
<1>1. Addressed
  BY DEF Init, Addressed
<1>2. ASSUME NEW c \in Coroutines PROVE Answered(c)
  <2>1. InboxOf(c) = {} /\ OutOf(c) = {} /\ OnceEach(c)
    BY DEF Init, InboxOf, OutOf, OnceEach, Has, Once
  <2>2. Workers(c) = {}
    BY NoOneAssumption DEF Init, Workers
  <2>3. Carriers(c) = {}
    BY <2>1, <2>2 DEF Carriers
  <2>4. ~Waits(c)
    <3>1. Home(c) \in Actors
      BY DEF Home, Coroutines
    <3>2. QED
      BY <3>1 DEF Init, Waits
  <2>5. QED
    BY <2>1, <2>3, <2>4 DEF Answered, AtMostOne
<1>3. QED
  BY <1>1, <1>2 DEF AllAnswered

\* What is underway, place by place.
LEMMA UnderwayPlaces ==
  ASSUME Good, NEW c \in Coroutines
  PROVE  /\ \A p \in Underway(c) :
              \/ /\ p = <<p[1], p[2]>> /\ p[1] \in InboxOf(c) /\ p[2] > 0
                 /\ p[2] \in DOMAIN inbox[p[1]] /\ inbox[p[1]][p[2]] \in ForMsg(c)
              \/ /\ p = <<p[1], p[2]>> /\ p[1] \in OutOf(c) /\ p[2] < 0 /\ p[2] \in Int
                 /\ -p[2] \in DOMAIN out[p[1]] /\ out[p[1]][-p[2]] \in ForMail(c)
         /\ Underway(c) = {} => InboxOf(c) = {} /\ OutOf(c) = {}
<1>1. ASSUME NEW a \in Actors, NEW i \in DOMAIN inbox[a]
      PROVE  /\ i \in 1..Capacity /\ inbox[a][i] \in Messages
             /\ inbox[a][i] \in ForMsg(c) <=> IsFor(inbox[a][i], c)
  <2>1. inbox[a] \in Seq(Messages) /\ Len(inbox[a]) <= Capacity
    BY DEF Good, Parts, InboxOK
  <2>2. QED
    BY <1>1, <2>1, CapacityAssumption DEF ForMsg
<1>2. ASSUME NEW a \in Actors, NEW i \in DOMAIN out[a]
      PROVE  /\ i \in Nat \ {0} /\ out[a][i] \in Mails
             /\ out[a][i] \in ForMail(c) <=> IsFor(out[a][i].msg, c)
             /\ IsFor(out[a][i].msg, c) => i \in {1, 2}
  <2>1. out[a] \in Seq(Mails)
    BY DEF Good, Parts, OutOK
  <2>2. i \in Nat \ {0} /\ out[a][i] \in Mails
    BY <1>2, <2>1
  <2>3. IsFor(out[a][i].msg, c) => i <= 2
    BY <1>2 DEF Good, Addressed, IsFor
  <2>4. QED
    BY <2>2, <2>3 DEF ForMail
<1>3. ASSUME NEW p \in Underway(c)
      PROVE  \/ /\ p = <<p[1], p[2]>> /\ p[1] \in InboxOf(c) /\ p[2] > 0
                /\ p[2] \in DOMAIN inbox[p[1]] /\ inbox[p[1]][p[2]] \in ForMsg(c)
             \/ /\ p = <<p[1], p[2]>> /\ p[1] \in OutOf(c) /\ p[2] < 0 /\ p[2] \in Int
                /\ -p[2] \in DOMAIN out[p[1]] /\ out[p[1]][-p[2]] \in ForMail(c)
  <2>1. CASE p \in Actors \X (1..Capacity) /\ InInbox(p[1], p[2], c)
    <3>1. p = <<p[1], p[2]>> /\ p[1] \in Actors /\ p[2] > 0
      BY <2>1, CapacityAssumption
    <3>2. p[2] \in DOMAIN inbox[p[1]] /\ inbox[p[1]][p[2]] \in ForMsg(c)
      BY <2>1, <3>1, <1>1 DEF InInbox
    <3>3. QED
      BY <3>1, <3>2 DEF InboxOf, Has
  <2>2. CASE p \in Actors \X {-1, -2} /\ InOut(p[1], -p[2], c)
    <3>1. p = <<p[1], p[2]>> /\ p[1] \in Actors /\ p[2] < 0 /\ p[2] \in Int
      BY <2>2
    <3>2. -p[2] \in DOMAIN out[p[1]] /\ out[p[1]][-p[2]] \in ForMail(c)
      BY <2>2, <3>1, <1>2 DEF InOut
    <3>3. QED
      BY <3>1, <3>2 DEF OutOf, Has
  <2>3. QED
    BY <2>1, <2>2 DEF Underway
<1>4. ASSUME NEW a \in InboxOf(c) PROVE Underway(c) # {}
  <2>1. PICK i \in DOMAIN inbox[a] : inbox[a][i] \in ForMsg(c)
    BY DEF InboxOf, Has
  <2>2. a \in Actors /\ i \in 1..Capacity /\ InInbox(a, i, c)
    BY <1>1, <2>1 DEF InboxOf, InInbox
  <2>3. <<a, i>> \in Underway(c)
    BY <2>2 DEF Underway
  <2>4. QED
    BY <2>3
<1>5. ASSUME NEW a \in OutOf(c) PROVE Underway(c) # {}
  <2>1. PICK i \in DOMAIN out[a] : out[a][i] \in ForMail(c)
    BY DEF OutOf, Has
  <2>2. a \in Actors /\ i \in {1, 2} /\ InOut(a, i, c)
    BY <1>2, <2>1 DEF OutOf, InOut
  <2>3. -i \in {-1, -2} /\ -(-i) = i
    BY <2>2
  <2>4. <<a, -i>> \in Underway(c)
    BY <2>2, <2>3 DEF Underway
  <2>5. QED
    BY <2>4
<1>6. QED
  BY <1>3, <1>4, <1>5

LEMMA WorkingIsWorkers ==
  ASSUME Good, NEW c \in Coroutines
  PROVE  Working(c) = Workers(c)
<1>1. ASSUME NEW h \in Coroutines, NEW a \in Actors
      PROVE  h \in Live(a) <=> h \in waitingForResult[a] \/ \E i \in DOMAIN Held(a) : Held(a)[i] = h
  <2>1. Elements(Held(a)) = Listed(a) \cup Runs(a)
    BY HeldElements DEF Good
  <2>2. h \in Elements(Held(a)) <=> \E i \in DOMAIN Held(a) : Held(a)[i] = h
    BY DEF Elements
  <2>3. QED
    BY <2>1, <2>2 DEF Live
<1>2. QED
  BY <1>1 DEF Working, Workers

\* One carrier is one answer, none is none.
LEMMA AnswersCounted ==
  ASSUME Good, NEW c \in Coroutines, Answered(c)
  PROVE  Answers(c) = IF Carriers(c) = {} THEN 0 ELSE 1
<1>1. Working(c) = Workers(c)
  BY WorkingIsWorkers
<1>2. \A p \in Underway(c) :
        \/ /\ p = <<p[1], p[2]>> /\ p[1] \in InboxOf(c) /\ p[2] > 0
           /\ p[2] \in DOMAIN inbox[p[1]] /\ inbox[p[1]][p[2]] \in ForMsg(c)
        \/ /\ p = <<p[1], p[2]>> /\ p[1] \in OutOf(c) /\ p[2] < 0 /\ p[2] \in Int
           /\ -p[2] \in DOMAIN out[p[1]] /\ out[p[1]][-p[2]] \in ForMail(c)
  BY UnderwayPlaces
<1>3. Underway(c) = {} => InboxOf(c) = {} /\ OutOf(c) = {}
  BY UnderwayPlaces
<1>4. \A x, y : /\ x \in InboxOf(c) /\ y \in InboxOf(c) => x = y
                /\ x \in OutOf(c) /\ y \in OutOf(c) => x = y
                /\ x \in Workers(c) /\ y \in Workers(c) => x = y
                /\ ~(x \in InboxOf(c) /\ y \in OutOf(c))
                /\ ~(x \in InboxOf(c) /\ y \in Workers(c))
                /\ ~(x \in OutOf(c) /\ y \in Workers(c))
  <2> TAKE x, y
  <2>1. \A u, v \in Carriers(c) : u = v
    BY DEF Answered, AtMostOne
  <2>2. /\ <<"inbox", x>> # <<"out", y>> /\ <<"inbox", x>> # <<"work", y>> /\ <<"out", x>> # <<"work", y>>
    OBVIOUS
  <2>3. /\ <<"inbox", x>> = <<"inbox", y>> => x = y
        /\ <<"out", x>> = <<"out", y>> => x = y
        /\ <<"work", x>> = <<"work", y>> => x = y
    OBVIOUS
  <2>4. QED
    BY <2>1, <2>2, <2>3, InboxCarriers
<1>5. ASSUME NEW p \in Underway(c), NEW r \in Underway(c) PROVE p = r
  <2>1. InboxOf(c) \subseteq Actors /\ OutOf(c) \subseteq Actors
    BY DEF InboxOf, OutOf
  <2>2. p[1] = r[1] /\ (p[2] > 0 <=> r[2] > 0) /\ p[1] \in Actors
    BY <1>2, <1>4, <2>1
  <2>3. /\ Once(inbox[p[1]], ForMsg(c)) /\ Once(out[p[1]], ForMail(c))
    BY <2>2 DEF Answered, OnceEach
  <2>4. p[2] = r[2]
    <3>1. CASE p[2] > 0
      BY <1>2, <2>2, <2>3, <3>1 DEF Once
    <3>2. CASE ~(p[2] > 0)
      <4>1. /\ p[2] \in Int /\ -p[2] \in DOMAIN out[p[1]] /\ out[p[1]][-p[2]] \in ForMail(c)
            /\ r[2] \in Int /\ -r[2] \in DOMAIN out[p[1]] /\ out[p[1]][-r[2]] \in ForMail(c)
        BY <1>2, <2>2, <3>2
      <4>2. -p[2] = -r[2]
        BY <4>1, <2>3 DEF Once
      <4>3. QED
        BY <4>1, <4>2
    <3>3. QED
      BY <3>1, <3>2
  <2>5. QED
    BY <1>2, <2>2, <2>4
<1>6. CASE Carriers(c) = {}
  <2>1. InboxOf(c) = {} /\ OutOf(c) = {} /\ Workers(c) = {}
    <3>1. \A x : x \notin InboxOf(c) /\ x \notin OutOf(c) /\ x \notin Workers(c)
      BY <1>6, InboxCarriers
    <3>2. QED
      BY <3>1
  <2>2. Underway(c) = {} /\ Working(c) = {}
    BY <1>1, <1>2, <2>1
  <2>3. QED
    BY <1>6, <2>2, FS_EmptySet DEF Answers
<1>7. CASE Carriers(c) # {}
  <2>1. InboxOf(c) # {} \/ OutOf(c) # {} \/ Workers(c) # {}
    BY <1>7 DEF Carriers
  <2>2. CASE Workers(c) = {}
    <3>1. PICK p : p \in Underway(c)
      BY <1>3, <2>1, <2>2
    <3>2. Underway(c) = {p}
      BY <1>5, <3>1
    <3>3. Cardinality(Underway(c)) = 1 /\ Cardinality(Working(c)) = 0
      BY <1>1, <2>2, <3>2, FS_Singleton, FS_EmptySet
    <3>4. QED
      BY <1>7, <3>3 DEF Answers
  <2>3. CASE Workers(c) # {}
    <3>1. PICK h : h \in Workers(c)
      BY <2>3
    <3>2. Workers(c) = {h} /\ Underway(c) = {}
      BY <1>2, <1>4, <3>1
    <3>3. Cardinality(Underway(c)) = 0 /\ Cardinality(Working(c)) = 1
      BY <1>1, <3>2, FS_Singleton, FS_EmptySet
    <3>4. QED
      BY <1>7, <3>3 DEF Answers
  <2>4. QED
    BY <2>2, <2>3
<1>8. QED
  BY <1>6, <1>7

LEMMA AnsweredImplies == Good /\ AllAnswered => OneAnswerPerCall
<1> SUFFICES ASSUME Good, AllAnswered, NEW c \in Coroutines
             PROVE  OneAnswerPerCall!(c)
  BY DEF OneAnswerPerCall
<1>1. Answered(c)
  BY DEF AllAnswered
<1>2. Answers(c) = IF Carriers(c) = {} THEN 0 ELSE 1
  BY <1>1, AnswersCounted
<1>3. QED
  BY <1>1, <1>2 DEF Answered, Waits, SomeEnded

\* Everything the proofs of this module rest on.
CallsInv == Good /\ AllAnswered

LEMMA CallsInvHolds == Spec => []CallsInv
<1>1. Init => CallsInv
  BY InitType, InitCounts, InitPlaces, InitAnswered DEF CallsInv, Good
<1>2. CallsInv /\ [Next]_vars => CallsInv'
  BY NextTypes, NextPlaces, NextAddressed, NextAnswered DEF CallsInv, Good
<1>3. QED
  BY <1>1, <1>2, PTL DEF Spec

\* A synchronous send has exactly one answer on its way until it arrives, unless a
\* process ended; no result arrives twice or finds its activation gone
\* (src/actors/Interpreter.cpp:77-93, 184-202, 238-249).
THEOREM EveryCallHasOneAnswer == Spec => []OneAnswerPerCall
<1>1. CallsInv => OneAnswerPerCall
  BY AnsweredImplies DEF CallsInv
<1>2. QED
  BY <1>1, CallsInvHolds, PTL

-----------------------------------------------------------------------------
(* The order in which actors stop.                                          *)

\* Main has called actors_shutdown.
MainStops == pc[Main] \in {"shutdown", "exited"}

\* Senders sign their messages, and only a main that stops sends exits.
Signed ==
  \A a \in Actors : \A i \in DOMAIN out[a] :
    /\ out[a][i].msg.from = a
    /\ out[a][i].msg.type = "EXIT" => a = Main /\ MainStops

\* A main that stops sends at most one more message to each follower.
OneEach ==
  MainStops => \A i, j \in DOMAIN out[Main] : out[Main][i].dest = out[Main][j].dest => i = j

\* An exit is the last message that main sends to a follower.
ExitIsLast ==
  \A f \in Actors : \A i \in DOMAIN inbox[f] :
    inbox[f][i].type = "EXIT" =>
      /\ MainStops
      /\ \A j \in DOMAIN inbox[f] : j > i => inbox[f][j].from # Main
      /\ \A k \in DOMAIN out[Main] : out[Main][k].dest # f

EndsInOrder == Signed /\ OneEach /\ ExitIsLast

\* A running actor hands over mails that it signs and that are no exits.
Fills(a) ==
  /\ pc[a] = "run" /\ UNCHANGED inbox
  /\ \E q \in Seq(Mails) :
       /\ out' = [out EXCEPT ![a] = q]
       /\ \A i \in DOMAIN q : q[i].msg.from = a /\ q[i].msg.type # "EXIT"
  /\ pc'[a] \in {"run", "top"} /\ \A b \in Actors \ {a} : pc'[b] = pc[b]

LEMMA SendersFill ==
  ASSUME Parts, NEW a \in Actors, NEW b \in Actors, Sends(a, b) \/ SendSync(a, b)
  PROVE  Fills(a)
<1>1. PICK m \in Messages : /\ out' = [out EXCEPT ![a] = <<Mail(b, m)>>] /\ Mail(b, m) \in Mails
                            /\ m.from = a /\ m.type # "EXIT"
  <2>1. CASE Sends(a, b)
    <3>1. PICK type \in {"SOM", "OBJ_REF"} : out' = [out EXCEPT ![a] = <<Mail(b, Msg(type, a, NoOne))>>]
      BY <2>1, SendsIs
    <3>2. Msg(type, a, NoOne) \in Messages /\ Mail(b, Msg(type, a, NoOne)) \in Mails
      BY MsgType DEF MessageTypes
    <3>3. Msg(type, a, NoOne).from = a /\ Msg(type, a, NoOne).type # "EXIT"
      BY DEF Msg
    <3>4. QED
      BY <3>1, <3>2, <3>3
  <2>2. CASE SendSync(a, b)
    <3>1. current[a] \in Coroutines
      BY <2>2, PerformCounts DEF SendSync
    <3> DEFINE m == Msg("SOM_RESULT", a, current[a])
    <3>2. m \in Messages /\ Mail(b, m) \in Mails
      BY <3>1, MsgType DEF MessageTypes
    <3>3. m.from = a /\ m.type # "EXIT"
      BY DEF Msg
    <3>4. out' = [out EXCEPT ![a] = <<Mail(b, m)>>]
      BY <2>2 DEF SendSync
    <3> HIDE DEF m
    <3>5. QED
      BY <3>2, <3>3, <3>4
  <2>3. QED
    BY <2>1, <2>2
<1> DEFINE q == <<Mail(b, m)>>
<1>2. q \in Seq(Mails) /\ \A i \in DOMAIN q : q[i].msg.from = a /\ q[i].msg.type # "EXIT"
  BY <1>1 DEF Mail
<1>3. UNCHANGED inbox /\ pc[a] = "run" /\ (pc' = pc \/ pc' = [pc EXCEPT ![a] = "top"])
  BY SendsIs, PerformCounts DEF SendSync, Suspend
<1>4. pc'[a] \in {"run", "top"} /\ \A d \in Actors \ {a} : pc'[d] = pc[d]
  BY <1>3 DEF Parts, PlacesOK
<1> HIDE DEF q
<1>5. out' = [out EXCEPT ![a] = q]
  BY <1>1 DEF q
<1>6. QED
  BY <1>2, <1>3, <1>4, <1>5 DEF Fills

LEMMA ReturnFills ==
  ASSUME Parts, NEW a \in Actors, ReturnRemote(a)
  PROVE  Fills(a)
<1> DEFINE c == caller[current[a]]
           result == Mail(Home(c), Msg("OBJ_RESULT", a, c))
           notice == Mail(Home(c), Msg("NEW_REF", a, c))
<1>1. /\ UNCHANGED inbox /\ c \in Coroutines /\ Home(c) \in Actors
      /\ pc[a] = "run" /\ pc' = [pc EXCEPT ![a] = "top"]
      /\ \/ out' = [out EXCEPT ![a] = <<result>>]
         \/ out' = [out EXCEPT ![a] = <<notice, result>>]
  BY ReturnRemoteIs
<1>2. /\ result \in Mails /\ notice \in Mails
      /\ result.msg.from = a /\ result.msg.type # "EXIT"
      /\ notice.msg.from = a /\ notice.msg.type # "EXIT"
  BY <1>1, MsgType DEF MessageTypes, Mail, Msg
<1> HIDE DEF c, result, notice
<1>3. /\ <<result>> \in Seq(Mails) /\ <<notice, result>> \in Seq(Mails)
      /\ \A i \in DOMAIN <<result>> : <<result>>[i] = result
      /\ \A i \in DOMAIN <<notice, result>> : <<notice, result>>[i] \in {notice, result}
  BY <1>2
<1>4. \E q \in Seq(Mails) :
        /\ out' = [out EXCEPT ![a] = q]
        /\ \A i \in DOMAIN q : q[i].msg.from = a /\ q[i].msg.type # "EXIT"
  BY <1>1, <1>2, <1>3
<1>5. pc'[a] = "top" /\ \A b \in Actors \ {a} : pc'[b] = pc[b]
  BY <1>1 DEF Parts, PlacesOK
<1>6. QED
  BY <1>1, <1>4, <1>5 DEF Fills

LEMMA FillsInOrder ==
  ASSUME Parts, EndsInOrder, NEW a \in Actors, Fills(a)
  PROVE  EndsInOrder'
<1>1. PICK q \in Seq(Mails) :
        /\ out' = [out EXCEPT ![a] = q]
        /\ \A i \in DOMAIN q : q[i].msg.from = a /\ q[i].msg.type # "EXIT"
  BY DEF Fills
<1>2. \A b \in Actors : out'[b] = IF b = a THEN q ELSE out[b]
  BY <1>1 DEF Parts, OutOK
<1>3. MainStops' = MainStops /\ (a = Main => ~MainStops)
  BY MainIsActor DEF Fills, MainStops
<1>4. UNCHANGED inbox
  BY DEF Fills
<1>5. Signed'
  <2> SUFFICES ASSUME NEW b \in Actors, NEW i \in DOMAIN out'[b]
               PROVE  /\ out'[b][i].msg.from = b
                      /\ out'[b][i].msg.type = "EXIT" => b = Main /\ MainStops'
    BY DEF Signed
  <2>1. CASE b = a
    BY <1>1, <1>2, <2>1
  <2>2. CASE b # a
    BY <1>2, <1>3, <2>2 DEF EndsInOrder, Signed
  <2>3. QED
    BY <2>1, <2>2
<1>6. OneEach'
  BY <1>2, <1>3, MainIsActor DEF EndsInOrder, OneEach
<1>7. ExitIsLast'
  <2>1. CASE MainStops
    <3>1. out'[Main] = out[Main]
      BY <1>2, <1>3, <2>1, MainIsActor
    <3>2. QED
      BY <1>3, <1>4, <2>1, <3>1 DEF EndsInOrder, ExitIsLast
  <2>2. CASE ~MainStops
    BY <1>4, <2>2 DEF EndsInOrder, ExitIsLast
  <2>3. QED
    BY <2>1, <2>2
<1>8. QED
  BY <1>5, <1>6, <1>7 DEF EndsInOrder

LEMMA QuitsInOrder ==
  ASSUME Parts, EndsInOrder, NEW a \in Actors, Quits(a)
  PROVE  EndsInOrder'
<1>1. /\ UNCHANGED inbox /\ out[a] = << >> /\ pc[a] \in {"top", "run"} /\ QuitProcess(a)
  BY QuitsIs
<1>2. CASE a # Main
  <2>1. UNCHANGED out /\ pc'[Main] = pc[Main]
    BY <1>1, <1>2, MainIsActor DEF QuitProcess, Parts, PlacesOK
  <2>2. MainStops' = MainStops
    BY <2>1 DEF MainStops
  <2>3. QED
    BY <1>1, <2>1, <2>2 DEF EndsInOrder, Signed, OneEach, ExitIsLast
<1>3. CASE a = Main
  <2> DEFINE q == [f \in 1..(N - 1) |-> Mail(f, Exit)]
  <2>1. /\ \A b \in Actors : out'[b] = IF b = Main THEN q ELSE out[b]
        /\ MainStops' /\ ~MainStops
    BY <1>1, <1>3, MainIsActor DEF QuitProcess, Parts, PlacesOK, OutOK, MainStops
  <2>2. \A i \in DOMAIN q : q[i].dest = i /\ q[i].msg.from = Main
    BY DEF Mail, Exit, Msg
  <2> HIDE DEF q
  <2>3. Signed'
    <3> SUFFICES ASSUME NEW b \in Actors, NEW i \in DOMAIN out'[b]
                 PROVE  /\ out'[b][i].msg.from = b
                        /\ out'[b][i].msg.type = "EXIT" => b = Main /\ MainStops'
      BY DEF Signed
    <3>1. QED
      BY <2>1, <2>2 DEF EndsInOrder, Signed
  <2>4. OneEach'
    BY <2>1, <2>2, MainIsActor DEF OneEach
  <2>5. ExitIsLast'
    BY <1>1, <2>1 DEF EndsInOrder, ExitIsLast
  <2>6. QED
    BY <2>3, <2>4, <2>5 DEF EndsInOrder
<1>4. QED
  BY <1>2, <1>3

LEMMA DeliverInOrder ==
  ASSUME Parts, EndsInOrder, NEW a \in Actors, Deliver(a)
  PROVE  EndsInOrder'
<1> DEFINE b == Head(out[a]).dest
           m == Head(out[a]).msg
<1>1. /\ out[a] \in Seq(Mails) /\ out[a] # << >> /\ Head(out[a]) = out[a][1]
      /\ out' = [out EXCEPT ![a] = Tail(out[a])]
      /\ b \in Actors /\ m \in Messages
      /\ inbox' = [inbox EXCEPT ![b] = Append(inbox[b], m)]
      /\ UNCHANGED pc
  BY DeliverIs
<1>2. /\ Len(out[a]) \in Nat \ {0} /\ DOMAIN out[a] = 1..Len(out[a])
      /\ DOMAIN Tail(out[a]) = 1..(Len(out[a]) - 1)
      /\ \A i \in 1..(Len(out[a]) - 1) : Tail(out[a])[i] = out[a][i + 1]
  BY <1>1, Taken
<1>3. /\ 1 \in DOMAIN out[a] /\ out[a][1].dest = b /\ out[a][1].msg = m
      /\ m.from = a /\ (m.type = "EXIT" => a = Main /\ MainStops)
  BY <1>1, <1>2 DEF EndsInOrder, Signed
<1> HIDE DEF b, m
<1>4. MainStops' = MainStops
  BY <1>1 DEF MainStops
<1>5. \A d \in Actors : \A i \in DOMAIN out'[d] :
        IF d = a THEN i \in Nat /\ i + 1 \in DOMAIN out[a] /\ i + 1 # 1 /\ out'[d][i] = out[a][i + 1]
                 ELSE i \in DOMAIN out[d] /\ out'[d][i] = out[d][i]
  BY <1>1, <1>2 DEF Parts, OutOK
<1>6. Signed'
  <2> SUFFICES ASSUME NEW d \in Actors, NEW i \in DOMAIN out'[d]
               PROVE  /\ out'[d][i].msg.from = d
                      /\ out'[d][i].msg.type = "EXIT" => d = Main /\ MainStops'
    BY DEF Signed
  <2>1. QED
    BY <1>4, <1>5 DEF EndsInOrder, Signed
<1>7. OneEach'
  <2> SUFFICES ASSUME MainStops, NEW i \in DOMAIN out'[Main], NEW j \in DOMAIN out'[Main],
                      out'[Main][i].dest = out'[Main][j].dest
               PROVE  i = j
    BY <1>4 DEF OneEach
  <2>1. CASE a = Main
    <3>1. i + 1 = j + 1
      BY <1>5, <2>1, MainIsActor DEF EndsInOrder, OneEach
    <3>2. QED
      BY <1>5, <2>1, <3>1, MainIsActor
  <2>2. CASE a # Main
    BY <1>5, <2>2, MainIsActor DEF EndsInOrder, OneEach
  <2>3. QED
    BY <2>1, <2>2
<1>8. /\ inbox[b] \in Seq(Messages) /\ Len(inbox[b]) \in Nat /\ DOMAIN inbox[b] = 1..Len(inbox[b])
      /\ inbox'[b] = Append(inbox[b], m) /\ DOMAIN inbox'[b] = 1..(Len(inbox[b]) + 1)
      /\ inbox'[b][Len(inbox[b]) + 1] = m
      /\ \A i \in 1..Len(inbox[b]) : inbox'[b][i] = inbox[b][i]
      /\ \A d \in Actors \ {b} : inbox'[d] = inbox[d]
  BY <1>1, Appended DEF Parts, InboxOK
<1>9. \A k \in DOMAIN out'[Main] : \E l \in DOMAIN out[Main] : out'[Main][k] = out[Main][l]
  BY <1>5, MainIsActor
<1>10. a = Main => /\ \A i \in DOMAIN inbox[b] : inbox[b][i].type # "EXIT"
                   /\ MainStops => \A k \in DOMAIN out'[Main] : out'[Main][k].dest # b
  <2> SUFFICES ASSUME a = Main
               PROVE  /\ \A i \in DOMAIN inbox[b] : inbox[b][i].type # "EXIT"
                      /\ MainStops => \A k \in DOMAIN out'[Main] : out'[Main][k].dest # b
    OBVIOUS
  <2>1. \A i \in DOMAIN inbox[b] : inbox[b][i].type # "EXIT"
    BY <1>1, <1>3 DEF EndsInOrder, ExitIsLast
  <2>2. ASSUME MainStops, NEW k \in DOMAIN out'[Main] PROVE out'[Main][k].dest # b
    <3>1. k + 1 \in DOMAIN out[Main] /\ k + 1 # 1 /\ out'[Main][k] = out[Main][k + 1]
      BY <1>5, MainIsActor
    <3>2. 1 \in DOMAIN out[Main] /\ out[Main][1].dest = b
      BY <1>3
    <3>3. out[Main][k + 1].dest # out[Main][1].dest
      BY <2>2, <3>1, <3>2 DEF EndsInOrder, OneEach
    <3>4. QED
      BY <3>1, <3>2, <3>3
  <2>3. QED
    BY <2>1, <2>2
<1>11. ExitIsLast'
  <2> SUFFICES ASSUME NEW f \in Actors, NEW i \in DOMAIN inbox'[f], inbox'[f][i].type = "EXIT"
               PROVE  /\ MainStops
                      /\ \A j \in DOMAIN inbox'[f] : j > i => inbox'[f][j].from # Main
                      /\ \A k \in DOMAIN out'[Main] : out'[Main][k].dest # f
    BY <1>4 DEF ExitIsLast
  <2>1. CASE f # b
    <3>1. inbox'[f] = inbox[f]
      BY <1>8, <2>1
    <3>2. /\ MainStops
          /\ \A j \in DOMAIN inbox[f] : j > i => inbox[f][j].from # Main
          /\ \A k \in DOMAIN out[Main] : out[Main][k].dest # f
      BY <3>1 DEF EndsInOrder, ExitIsLast
    <3>3. QED
      BY <1>9, <3>1, <3>2
  <2>2. CASE f = b /\ i = Len(inbox[b]) + 1
    <3>1. m.type = "EXIT"
      BY <1>8, <2>2
    <3>2. QED
      BY <1>3, <1>8, <1>10, <2>2, <3>1
  <2>3. CASE f = b /\ i # Len(inbox[b]) + 1
    <3>1. i \in DOMAIN inbox[b] /\ inbox[b][i].type = "EXIT"
      BY <1>8, <2>3
    <3>2. /\ MainStops
          /\ \A j \in DOMAIN inbox[b] : j > i => inbox[b][j].from # Main
          /\ \A k \in DOMAIN out[Main] : out[Main][k].dest # b
      BY <1>1, <3>1 DEF EndsInOrder, ExitIsLast
    <3>3. a # Main
      BY <1>10, <3>1
    <3>4. \A j \in DOMAIN inbox'[b] : j > i => inbox'[b][j].from # Main
      BY <1>3, <1>8, <3>2, <3>3
    <3>5. QED
      BY <1>9, <2>3, <3>2, <3>4
  <2>4. QED
    BY <2>1, <2>2, <2>3
<1>12. QED
  BY <1>6, <1>7, <1>11 DEF EndsInOrder

LEMMA ReceiveInOrder ==
  ASSUME Parts, EndsInOrder, NEW a \in Actors, Receive(a)
  PROVE  EndsInOrder'
<1>1. /\ UNCHANGED out /\ inbox[a] \in Seq(Messages) /\ inbox[a] # << >>
      /\ inbox' = [inbox EXCEPT ![a] = Tail(inbox[a])]
      /\ pc[a] = "receive"
  BY ReceiveIs
<1>2. pc' = pc \/ pc' = [pc EXCEPT ![a] = "crashed"]
  BY ReceiveIs DEF Crashes, Crash, ProcessExit, ProcessSom, ProcessRef, Wakes, ProcessNewRef
<1>3. MainStops' = MainStops
  BY <1>1, <1>2, MainIsActor DEF MainStops, Parts, PlacesOK
<1>4. /\ Len(inbox[a]) \in Nat \ {0} /\ DOMAIN inbox[a] = 1..Len(inbox[a])
      /\ DOMAIN Tail(inbox[a]) = 1..(Len(inbox[a]) - 1)
      /\ \A i \in 1..(Len(inbox[a]) - 1) : Tail(inbox[a])[i] = inbox[a][i + 1]
  BY <1>1, Taken
<1>5. Signed' /\ OneEach'
  BY <1>1, <1>3 DEF EndsInOrder, Signed, OneEach
<1>6. ExitIsLast'
  <2> SUFFICES ASSUME NEW f \in Actors, NEW i \in DOMAIN inbox'[f], inbox'[f][i].type = "EXIT"
               PROVE  /\ MainStops
                      /\ \A j \in DOMAIN inbox'[f] : j > i => inbox'[f][j].from # Main
                      /\ \A k \in DOMAIN out[Main] : out[Main][k].dest # f
    BY <1>1, <1>3 DEF ExitIsLast
  <2>1. CASE f # a
    <3>1. inbox'[f] = inbox[f]
      BY <1>1, <2>1 DEF Parts, InboxOK
    <3>2. QED
      BY <3>1 DEF EndsInOrder, ExitIsLast
  <2>2. CASE f = a
    <3>1. inbox'[f] = Tail(inbox[a])
      BY <1>1, <2>2 DEF Parts, InboxOK
    <3>2. /\ i + 1 \in DOMAIN inbox[a] /\ inbox[a][i + 1].type = "EXIT"
          /\ \A j \in DOMAIN inbox'[f] : /\ j \in Nat /\ i \in Nat /\ j + 1 \in DOMAIN inbox[a]
                                         /\ inbox'[f][j] = inbox[a][j + 1]
      BY <1>4, <3>1
    <3>3. /\ MainStops
          /\ \A j \in DOMAIN inbox[a] : j > i + 1 => inbox[a][j].from # Main
          /\ \A k \in DOMAIN out[Main] : out[Main][k].dest # a
      BY <3>2 DEF EndsInOrder, ExitIsLast
    <3>4. \A j \in DOMAIN inbox'[f] : j > i => inbox'[f][j].from # Main
      <4> TAKE j \in DOMAIN inbox'[f]
      <4>1. j > i => j + 1 > i + 1
        BY <3>2
      <4>2. QED
        BY <3>2, <3>3, <4>1
    <3>5. QED
      BY <2>2, <3>3, <3>4
  <2>3. QED
    BY <2>1, <2>2
<1>7. QED
  BY <1>5, <1>6 DEF EndsInOrder

\* Steps that neither send nor take a message, and do not stop main.
LEMMA LoopInOrder ==
  ASSUME Parts, EndsInOrder, NEW a \in Actors,
         MovesOnly(a) \/ Resume(a) \/ Parks(a) \/ StopSystem(a)
  PROVE  EndsInOrder'
<1>1. UNCHANGED <<inbox, out>>
  BY MovesOnlyIs, StopsIs DEF Resume, Parks, Yield, WaitForReference
<1>2. MainStops' = MainStops
  <2>1. CASE MovesOnly(a)
    BY <2>1, MainIsActor DEF MovesOnly, EnterLoop, Sleep, Halt, AllReaped, At, MainStops, Parts, PlacesOK
  <2>2. CASE Resume(a)
    BY <2>2, MainIsActor DEF Resume, At, MainStops, Parts, PlacesOK
  <2>3. CASE Parks(a)
    BY <2>3, MainIsActor DEF Parks, Yield, WaitForReference, Perform, At, Suspend, MainStops, Parts, PlacesOK
  <2>4. CASE StopSystem(a)
    BY <2>4, StopsIs DEF MainStops
  <2>5. QED
    BY <2>1, <2>2, <2>3, <2>4
<1>3. QED
  BY <1>1, <1>2 DEF EndsInOrder, Signed, OneEach, ExitIsLast

LEMMA NextInOrder ==
  ASSUME Parts, EndsInOrder, [Next]_vars
  PROVE  EndsInOrder'
<1>1. CASE UNCHANGED vars
  BY <1>1 DEF vars, EndsInOrder, Signed, OneEach, ExitIsLast, MainStops
<1>2. CASE Next
  <2>1. PICK a \in Actors :
          \/ MovesOnly(a) \/ Quits(a) \/ Deliver(a) \/ Resume(a) \/ Receive(a)
          \/ Parks(a) \/ StopSystem(a) \/ ReturnRemote(a)
          \/ \E b \in Actors : Sends(a, b) \/ (b # a /\ SendSync(a, b))
    BY <1>2, StepKinds
  <2>2. CASE MovesOnly(a) \/ Resume(a) \/ Parks(a) \/ StopSystem(a)
    BY <2>2, LoopInOrder
  <2>3. CASE Quits(a)
    BY <2>3, QuitsInOrder
  <2>4. CASE Deliver(a)
    BY <2>4, DeliverInOrder
  <2>5. CASE Receive(a)
    BY <2>5, ReceiveInOrder
  <2>6. CASE ReturnRemote(a)
    BY <2>6, ReturnFills, FillsInOrder
  <2>7. CASE \E b \in Actors : Sends(a, b) \/ (b # a /\ SendSync(a, b))
    BY <2>7, SendersFill, FillsInOrder
  <2>8. QED
    BY <2>1, <2>2, <2>3, <2>4, <2>5, <2>6, <2>7
<1>3. QED
  BY <1>1, <1>2

LEMMA InitInOrder == Init => EndsInOrder
<1> SUFFICES ASSUME Init PROVE EndsInOrder
  OBVIOUS
<1>1. \A a \in Actors : DOMAIN inbox[a] = {} /\ DOMAIN out[a] = {}
  BY DEF Init
<1>2. QED
  BY <1>1, MainIsActor DEF EndsInOrder, Signed, OneEach, ExitIsLast

\* What follows the exit message of main in the queue is not from main.
LEMMA StopsLast ==
  ASSUME Parts, EndsInOrder, NEW f \in Actors,
         inbox[f] # << >>, Head(inbox[f]).type = "EXIT", inbox'[f] = Tail(inbox[f])
  PROVE  \A i \in DOMAIN inbox'[f] : inbox'[f][i].from # Main
<1>1. inbox[f] \in Seq(Messages)
  BY DEF Parts, InboxOK
<1>2. /\ Len(inbox[f]) \in Nat \ {0} /\ DOMAIN inbox[f] = 1..Len(inbox[f])
      /\ Head(inbox[f]) = inbox[f][1]
      /\ DOMAIN Tail(inbox[f]) = 1..(Len(inbox[f]) - 1)
      /\ \A i \in 1..(Len(inbox[f]) - 1) : Tail(inbox[f])[i] = inbox[f][i + 1]
  BY <1>1, Taken
<1>3. 1 \in DOMAIN inbox[f] /\ \A j \in DOMAIN inbox[f] : j > 1 => inbox[f][j].from # Main
  BY <1>2 DEF EndsInOrder, ExitIsLast
<1>4. \A i \in DOMAIN inbox'[f] : i + 1 \in DOMAIN inbox[f] /\ i + 1 > 1 /\ inbox'[f][i] = inbox[f][i + 1]
  BY <1>2
<1>5. QED
  BY <1>3, <1>4

\* Only leaving the loop ends a follower that stands at the top of it.
LEMMA LeavesFromTop ==
  ASSUME Parts, Next, NEW f \in Followers, pc[f] = "top", pc'[f] = "exited"
  PROVE  LeaveLoop(f)
<1>1. PICK a \in Actors :
        \/ MovesOnly(a) \/ Quits(a) \/ Deliver(a) \/ Resume(a) \/ Receive(a)
        \/ Parks(a) \/ StopSystem(a) \/ ReturnRemote(a)
        \/ \E b \in Actors : Sends(a, b) \/ (b # a /\ SendSync(a, b))
  BY StepKinds
<1>2. f \in Actors /\ f # Main
  BY DEF Followers
<1>3. CASE MovesOnly(a)
  <2>1. a = f
    BY <1>2, <1>3, MovesOnlyIs DEF Parts, PlacesOK
  <2>2. QED
    BY <1>3, <2>1, MovesOnlyIs
<1>4. CASE Quits(a)
  <2>1. a = f
    BY <1>2, <1>4, QuitsIs DEF QuitProcess, Parts, PlacesOK
  <2>2. QED
    BY <1>4, <2>1 DEF Quits, ExitSystem, Perform, At
<1>5. CASE Deliver(a) \/ Resume(a) \/ Parks(a) \/ StopSystem(a) \/ ReturnRemote(a)
  <2>1. pc' = pc \/ (\E place \in {"run", "top"} : pc' = [pc EXCEPT ![a] = place])
    BY <1>5, DeliverIs, ReturnRemoteIs, StopsIs DEF Resume, Parks, Yield, WaitForReference, Suspend
  <2>2. QED
    BY <1>2, <2>1 DEF Parts, PlacesOK
<1>6. CASE Receive(a)
  <2>1. pc' = pc \/ pc' = [pc EXCEPT ![a] = "crashed"]
    BY <1>6, ReceiveIs DEF Crashes, Crash, ProcessExit, ProcessSom, ProcessRef, Wakes, ProcessNewRef
  <2>2. QED
    BY <1>2, <2>1 DEF Parts, PlacesOK
<1>7. CASE \E b \in Actors : Sends(a, b) \/ (b # a /\ SendSync(a, b))
  <2>1. Fills(a)
    BY <1>7, SendersFill
  <2>2. QED
    BY <1>2, <2>1 DEF Fills
<1>8. QED
  BY <1>1, <1>3, <1>4, <1>5, <1>6, <1>7

\* A follower that leaves the loop has no coroutine left, so nothing of its own is
\* waited for, and it waits for nothing.
LEMMA LeavesNothing ==
  ASSUME Good, AllAnswered, NEW f \in Followers, LeaveLoop(f)
  PROVE  /\ \A c \in Coroutines : Home(c) = f => Answers(c) = 0
         /\ \A c \in Coroutines : \A h \in Working(c) : Home(h) # f
<1>1. f \in Actors
  BY DEF Followers
<1>2. pc[f] = "top" /\ ~WaitingActivations(f)
  BY DEF LeaveLoop, At
<1>3. activations[f] = << >> /\ waitingForRef[f] = << >> /\ waitingForResult[f] = {}
  BY <1>1, <1>2 DEF WaitingActivations
<1>4. \A c \in Coroutines : Home(c) = f => Answers(c) = 0
  BY <1>3, AnsweredImplies DEF OneAnswerPerCall
<1>5. ASSUME NEW c \in Coroutines, NEW h \in Working(c) PROVE Home(h) # f
  <2>1. PICK a \in Actors : h \in Live(a)
    BY <1>5, WorkingIsWorkers DEF Workers
  <2>2. Home(h) = a
    BY <2>1 DEF Good, Places, OnePlace, Own
  <2>3. Live(f) = {}
    BY <1>2, <1>3 DEF Live, Listed, Runs, Elements
  <2>4. QED
    BY <2>1, <2>2, <2>3
<1>6. QED
  BY <1>4, <1>5

\* A follower that takes main's exit message has handled everything else main sent
\* it, and one that leaves the loop, also because it stopped itself, leaves no call
\* behind (ExitMsg::Process, messages.cpp:38-40; ProcessActivations,
\* src/actors/Interpreter.cpp:216-236).
THEOREM FollowersFinish == Spec => DoneBeforeExit
<1>1. Init => EndsInOrder
  BY InitInOrder
<1>2. CallsInv /\ EndsInOrder /\ [Next]_vars => EndsInOrder'
  BY NextInOrder DEF CallsInv, Good
<1>3. CallsInv /\ EndsInOrder /\ [Next]_vars => [DoneBeforeExitStep]_vars
  <2> SUFFICES ASSUME CallsInv, EndsInOrder, Next PROVE DoneBeforeExitStep
    OBVIOUS
  <2> SUFFICES ASSUME NEW f \in Followers
               PROVE  /\ inbox[f] # << >> /\ Head(inbox[f]).type = "EXIT" /\ inbox'[f] = Tail(inbox[f]) =>
                           \A i \in DOMAIN inbox'[f] : inbox'[f][i].from # Main
                      /\ pc[f] = "top" /\ pc'[f] = "exited" =>
                           /\ \A c \in Coroutines : Home(c) = f => Answers(c) = 0
                           /\ \A c \in Coroutines : \A h \in Working(c) : Home(h) # f
    BY DEF DoneBeforeExitStep
  <2>1. inbox[f] # << >> /\ Head(inbox[f]).type = "EXIT" /\ inbox'[f] = Tail(inbox[f]) =>
           \A i \in DOMAIN inbox'[f] : inbox'[f][i].from # Main
    BY StopsLast DEF CallsInv, Good, Followers
  <2>2. pc[f] = "top" /\ pc'[f] = "exited" => LeaveLoop(f)
    BY LeavesFromTop DEF CallsInv, Good
  <2>3. LeaveLoop(f) => /\ \A c \in Coroutines : Home(c) = f => Answers(c) = 0
                        /\ \A c \in Coroutines : \A h \in Working(c) : Home(h) # f
    BY LeavesNothing DEF CallsInv
  <2>4. QED
    BY <2>1, <2>2, <2>3
<1>4. QED
  BY CallsInvHolds, <1>1, <1>2, <1>3, PTL DEF Spec, DoneBeforeExit

=============================================================================
