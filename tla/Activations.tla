----------------------------- MODULE Activations -----------------------------
(***************************************************************************)
(* The actor side of the interpreter (src/actors/Interpreter.cpp): each     *)
(* actor is one process that runs its coroutines one at a time, hands the   *)
(* processor on only when one yields, waits or ends, and between two of     *)
(* them processes the messages of its queue.  Also how the actors stop      *)
(* (Universe::Quit and actors_shutdown).                                    *)
(*                                                                         *)
(* A queue is the channel that SyncedQueue implements (MessageChannel), with *)
(* a limit: who sends to a full queue waits inside the send, so its process  *)
(* does nothing else until there is room.                                   *)
(* The programs that run are not modelled: a coroutine may perform any      *)
(* operation of Ops at any point, until MaxOps of them were performed.      *)
(***************************************************************************)
EXTENDS Integers, Sequences, FiniteSets

CONSTANTS
  N,         \* NUMBER_OF_ACTORS
  Ops,       \* the operations the programs perform
  MaxOps,    \* bound on the operations performed in a run
  Capacity,  \* messages a queue holds; in the code 256 words
  Decoders,  \* what Message::Deserialize may decode: sets of message types
  NoOne      \* no coroutine

AllOps == {"yield", "async", "sync", "reference", "receive", "stop", "exit"}
MessageTypes == {"EXIT", "SOM", "SOM_RESULT", "OBJ_REF", "OBJ_RESULT", "NEW_REF"}

ASSUME NAssumption == N \in Nat \ {0}
ASSUME OpsAssumption == Ops \subseteq AllOps
ASSUME MaxOpsAssumption == MaxOps \in Nat
ASSUME CapacityAssumption == Capacity \in Nat \ {0}
ASSUME DecodersAssumption == Decoders \subseteq SUBSET MessageTypes

Actors == 0..(N - 1)
Main == 0
Followers == Actors \ {Main}

\* A coroutine is named by its actor and a number; at most one is created per
\* operation, besides the one every actor starts with.
Coroutines == Actors \X (1..(MaxOps + 1))
ASSUME NoOneAssumption == NoOne \notin Coroutines

Home(c) == c[1]
Boot(a) == <<a, 1>>

VARIABLES
  inbox,             \* per actor: the messages in its queue
  out,               \* per actor: the messages its current operation still sends
  pc,                \* per actor: where its process stands
  current,           \* per actor: the coroutine it runs
  activations,       \* per actor: coroutines ready for execution
  waitingForResult,  \* per actor: coroutines waiting for a remote result
  waitingForRef,     \* per actor: coroutines waiting for an object reference
  incoming,          \* per actor: references that arrived
  stop,              \* per actor: the flag Interpreter::stop
  created,           \* per actor: coroutines created so far
  caller,            \* per coroutine: the activation its result goes to
  ops,               \* operations performed so far
  decoded            \* the message types Message::Deserialize has a case for

queues == <<activations, waitingForResult, waitingForRef, incoming>>
frames == <<created, caller>>
scope == <<ops, decoded>>
vars == <<inbox, out, pc, current, queues, stop, frames, scope>>

-----------------------------------------------------------------------------
\* A message, its sender and the activation its result goes or belongs to.
Msg(type, from, to) == [type |-> type, from |-> from, to |-> to]
Exit == Msg("EXIT", Main, NoOne)

\* A message on its way to the queue of b.
Mail(b, m) == [dest |-> b, msg |-> m]

Put(q, a, m) == [q EXCEPT ![a] = Append(@, m)]

\* RemoteObjectManager::TrackObjectSend(GlobalObjectId, actor_id_t): the owner
\* of the object is told of the new reference.
TellsOwner(self, owner, receiver) ==
  /\ receiver # self
  /\ owner # self
  /\ owner = receiver

\* Fault: it takes two references to wake a coroutine.
HaveObjectTooLate(a) == Len(incoming[a]) > 1 /\ waitingForRef[a] # << >>

\* _have_object_for_activation
HaveObject(a) == incoming[a] # << >> /\ waitingForRef[a] # << >>

\* Fault: coroutines that wait for a result are not counted.
WaitingActivationsNoResult(a) == activations[a] # << >> \/ waitingForRef[a] # << >>

\* _waitingActivationsAvailable
WaitingActivations(a) ==
  activations[a] # << >> \/ waitingForRef[a] # << >> \/ waitingForResult[a] # {}

-----------------------------------------------------------------------------
\* Every actor starts with the coroutine of Universe::initialize.
Init ==
  /\ inbox = [a \in Actors |-> << >>]
  /\ out = [a \in Actors |-> << >>]
  /\ pc = [a \in Actors |-> "run"]
  /\ current = [a \in Actors |-> Boot(a)]
  /\ activations = [a \in Actors |-> << >>]
  /\ waitingForResult = [a \in Actors |-> {}]
  /\ waitingForRef = [a \in Actors |-> << >>]
  /\ incoming = [a \in Actors |-> << >>]
  /\ stop = [a \in Actors |-> FALSE]
  /\ created = [a \in Actors |-> 1]
  /\ caller = [c \in Coroutines |-> NoOne]
  /\ ops = 0
  /\ decoded \in Decoders

\* The process stands at a place and no send holds it up.
At(a, place) == pc[a] = place /\ out[a] = << >>

\* ActorMessaging::SendMessage puts a message into the queue, and waits there
\* for as long as the queue is full.
Deliver(a) ==
  /\ out[a] # << >>
  /\ LET mail == Head(out[a]) IN
     /\ Len(inbox[mail.dest]) < Capacity
     /\ inbox' = Put(inbox, mail.dest, mail.msg)
  /\ out' = [out EXCEPT ![a] = Tail(@)]
  /\ UNCHANGED <<pc, current, queues, stop, frames, scope>>

-----------------------------------------------------------------------------
(* ProcessActivations: the loop that takes messages and resumes coroutines. *)

EnterLoop(a) ==
  /\ At(a, "top")
  /\ ~stop[a] \/ WaitingActivations(a)
  /\ pc' = [pc EXCEPT ![a] = "receive"]
  /\ UNCHANGED <<inbox, out, current, queues, stop, frames, scope>>

\* Fault: the last follower gets no exit message.
QuitSkippingLast(a) ==
  \/ /\ a # Main
     /\ pc' = [pc EXCEPT ![a] = "exited"]
     /\ UNCHANGED out
  \/ /\ a = Main
     /\ pc' = [pc EXCEPT ![a] = "shutdown"]
     /\ out' = [out EXCEPT ![a] = [f \in 1..(N - 2) |-> Mail(f, Exit)]]

\* Fault: main's program goes on after the exit messages.
QuitGoingOn(a) ==
  \/ /\ a # Main
     /\ pc' = [pc EXCEPT ![a] = "exited"]
     /\ UNCHANGED out
  \/ /\ a = Main
     /\ out' = [out EXCEPT ![a] = [f \in 1..(N - 1) |-> Mail(f, Exit)]]
     /\ UNCHANGED pc

\* Universe::Quit.  A follower's process is gone at once.  Main runs
\* actors_shutdown: it sends an exit message to every follower in turn,
QuitProcess(a) ==
  \/ /\ a # Main
     /\ pc' = [pc EXCEPT ![a] = "exited"]
     /\ UNCHANGED out
  \/ /\ a = Main
     /\ pc' = [pc EXCEPT ![a] = "shutdown"]
     /\ out' = [out EXCEPT ![a] = [f \in 1..(N - 1) |-> Mail(f, Exit)]]

\* and waits for every follower to end.
AllReaped ==
  /\ At(Main, "shutdown")
  /\ \A f \in Followers : pc[f] \in {"exited", "crashed"}
  /\ pc' = [pc EXCEPT ![Main] = "exited"]
  /\ UNCHANGED <<inbox, out, current, queues, stop, frames, scope>>

\* The loop ends when the actor was stopped and no coroutine is left.
LeaveLoop(a) ==
  /\ At(a, "top")
  /\ stop[a] /\ ~WaitingActivations(a)
  /\ QuitProcess(a)
  /\ UNCHANGED <<inbox, current, queues, stop, frames, scope>>

\* Process of a message without a decoder is a call on a null pointer.
Crash(a) == pc' = [pc EXCEPT ![a] = "crashed"]

\* ExitMsg::Process
ProcessExit(a) ==
  /\ stop' = [stop EXCEPT ![a] = TRUE]
  /\ UNCHANGED <<pc, queues, frames>>

\* Interpreter::ProcessMessage: a new coroutine, queued behind the others.
ProcessSom(a, m) ==
  LET c == <<a, created[a] + 1>> IN
  /\ created' = [created EXCEPT ![a] = @ + 1]
  /\ caller' = [caller EXCEPT ![c] = m.to]
  /\ activations' = Put(activations, a, c)
  /\ UNCHANGED <<pc, stop, waitingForResult, waitingForRef, incoming>>

\* Interpreter::AddIncommingObjRef
ProcessRef(a, m) ==
  /\ incoming' = Put(incoming, a, m.from)
  /\ UNCHANGED <<pc, stop, frames, activations, waitingForResult, waitingForRef>>

\* Fault: the entry stays in the map.
ProcessResultNoErase(a, m) ==
  /\ m.to \in waitingForResult[a]
  /\ activations' = Put(activations, a, m.to)
  /\ UNCHANGED <<pc, stop, frames, waitingForResult, waitingForRef, incoming>>

\* Interpreter::HandleRemoteReturn; a missing entry of the map is a null frame.
ProcessResult(a, m) ==
  IF m.to \in waitingForResult[a]
  THEN /\ waitingForResult' = [waitingForResult EXCEPT ![a] = @ \ {m.to}]
       /\ activations' = Put(activations, a, m.to)
       /\ UNCHANGED <<pc, stop, frames, waitingForRef, incoming>>
  ELSE Crash(a) /\ UNCHANGED <<stop, frames, queues>>

\* NewRefNotificationMsg::Process only touches the external references.
ProcessNewRef == UNCHANGED <<pc, stop, frames, queues>>

\* One round of ReceiveAndProcessMessages: the oldest message.
Receive(a) ==
  /\ At(a, "receive")
  /\ inbox[a] # << >>
  /\ inbox' = [inbox EXCEPT ![a] = Tail(@)]
  /\ LET m == Head(inbox[a]) IN
     \/ m.type \notin decoded /\ Crash(a) /\ UNCHANGED <<stop, frames, queues>>
     \/ /\ m.type \in decoded
        /\ \/ m.type = "EXIT" /\ ProcessExit(a)
           \/ m.type \in {"SOM", "SOM_RESULT"} /\ ProcessSom(a, m)
           \/ m.type = "OBJ_REF" /\ ProcessRef(a, m)
           \/ m.type = "OBJ_RESULT" /\ ProcessResult(a, m)
           \/ m.type = "NEW_REF" /\ ProcessNewRef
  /\ UNCHANGED <<out, current, scope>>

\* The queue is empty: a coroutine whose reference arrived goes first, then the
\* longest ready one.
Resume(a) ==
  /\ At(a, "receive")
  /\ inbox[a] = << >>
  /\ pc' = [pc EXCEPT ![a] = "run"]
  /\ \/ /\ HaveObject(a)
        /\ current' = [current EXCEPT ![a] = Head(waitingForRef[a])]
        /\ waitingForRef' = [waitingForRef EXCEPT ![a] = Tail(@)]
        /\ incoming' = [incoming EXCEPT ![a] = Tail(@)]
        /\ UNCHANGED activations
     \/ /\ ~HaveObject(a)
        /\ activations[a] # << >>
        /\ current' = [current EXCEPT ![a] = Head(activations[a])]
        /\ activations' = [activations EXCEPT ![a] = Tail(@)]
        /\ UNCHANGED <<waitingForRef, incoming>>
  /\ UNCHANGED <<inbox, out, waitingForResult, stop, frames, scope>>

\* Nothing to run: sleep and look again.
Sleep(a) ==
  /\ At(a, "receive")
  /\ inbox[a] = << >>
  /\ ~HaveObject(a)
  /\ activations[a] = << >>
  /\ pc' = [pc EXCEPT ![a] = "top"]
  /\ UNCHANGED <<inbox, out, current, queues, stop, frames, scope>>

-----------------------------------------------------------------------------
(* What the running coroutine does.                                         *)

Perform(a, op) ==
  /\ At(a, "run")
  /\ op \in Ops /\ ops < MaxOps
  /\ ops' = ops + 1
  /\ UNCHANGED decoded

\* Fault: the frame is not set to NULL, so the interpreter loop goes on.
SuspendRunningOn(a) == UNCHANGED <<current, pc>>

\* Fault: the loop does not look at the frame it was left with.
SuspendUnnoticed(a) ==
  /\ current' = [current EXCEPT ![a] = NoOne]
  /\ UNCHANGED pc

\* The interpreter loop ends because the current frame was set to NULL.
Suspend(a) ==
  /\ current' = [current EXCEPT ![a] = NoOne]
  /\ pc' = [pc EXCEPT ![a] = "top"]

\* do_YIELD
Yield(a) ==
  /\ Perform(a, "yield")
  /\ activations' = Put(activations, a, current[a])
  /\ Suspend(a)
  /\ UNCHANGED <<inbox, out, waitingForResult, waitingForRef, incoming, stop, frames>>

\* do_SEND_ASYNC to an object that lives at b, which may be a itself.
SendAsync(a, b) ==
  /\ Perform(a, "async")
  /\ out' = [out EXCEPT ![a] = <<Mail(b, Msg("SOM", a, NoOne))>>]
  /\ UNCHANGED <<inbox, pc, current, queues, stop, frames>>

\* do_SEND to a remote object: sendSyncMessage.
SendSync(a, b) ==
  /\ Perform(a, "sync")
  /\ b # a
  /\ waitingForResult' = [waitingForResult EXCEPT ![a] = @ \cup {current[a]}]
  /\ out' = [out EXCEPT ![a] = <<Mail(b, Msg("SOM_RESULT", a, current[a]))>>]
  /\ Suspend(a)
  /\ UNCHANGED <<inbox, activations, waitingForRef, incoming, stop, frames>>

\* Actor>>send:toActor:
SendReference(a, b) ==
  /\ Perform(a, "reference")
  /\ out' = [out EXCEPT ![a] = <<Mail(b, Msg("OBJ_REF", a, NoOne))>>]
  /\ UNCHANGED <<inbox, pc, current, queues, stop, frames>>

\* Actor>>receive: WaitForObjectReference
WaitForReference(a) ==
  /\ Perform(a, "receive")
  /\ waitingForRef' = Put(waitingForRef, a, current[a])
  /\ Suspend(a)
  /\ UNCHANGED <<inbox, out, activations, waitingForResult, incoming, stop, frames>>

\* Fault: the bottom frame of a coroutine that has a result to return just ends.
HaltAnswering(a) ==
  /\ At(a, "run")
  /\ pc' = [pc EXCEPT ![a] = "top"]
  /\ UNCHANGED <<inbox, out, current, queues, stop, frames, scope>>

\* The bottom frame of a coroutine that answers nobody ends with HALT, which
\* leaves the interpreter loop and the frame as it is.
Halt(a) ==
  /\ At(a, "run")
  /\ caller[current[a]] = NoOne
  /\ pc' = [pc EXCEPT ![a] = "top"]
  /\ UNCHANGED <<inbox, out, current, queues, stop, frames, scope>>

\* do_RETURN_REMOTE and HALT: the result goes to the waiting activation, after
\* the notification that tracking its id sends.
ReturnRemote(a) ==
  LET c == caller[current[a]]
      b == Home(c)
      told == IF TellsOwner(a, Home(c), b) THEN <<Mail(Home(c), Msg("NEW_REF", a, c))>> ELSE << >>
  IN
  /\ At(a, "run")
  /\ c # NoOne
  /\ out' = [out EXCEPT ![a] = told \o <<Mail(b, Msg("OBJ_RESULT", a, c))>>]
  /\ pc' = [pc EXCEPT ![a] = "top"]
  /\ UNCHANGED <<inbox, current, queues, stop, frames, scope>>

\* System>>stop: the coroutine goes on, and the loop looks at the flag when it ends.
StopSystem(a) ==
  /\ Perform(a, "stop")
  /\ stop' = [stop EXCEPT ![a] = TRUE]
  /\ UNCHANGED <<inbox, out, pc, current, queues, frames>>

\* System>>exit
ExitSystem(a) ==
  /\ Perform(a, "exit")
  /\ QuitProcess(a)
  /\ UNCHANGED <<inbox, current, queues, stop, frames>>

-----------------------------------------------------------------------------
LoopStep(a) == EnterLoop(a) \/ LeaveLoop(a) \/ Receive(a) \/ Resume(a) \/ Sleep(a)

RunStep(a) ==
  \/ Yield(a) \/ WaitForReference(a) \/ Halt(a) \/ ReturnRemote(a)
  \/ StopSystem(a) \/ ExitSystem(a)
  \/ \E b \in Actors : SendAsync(a, b) \/ SendSync(a, b) \/ SendReference(a, b)

ProcessStep(a) == Deliver(a) \/ LoopStep(a) \/ RunStep(a) \/ (a = Main /\ AllReaped)

Next == \E a \in Actors : ProcessStep(a)

Spec == Init /\ [][Next]_vars

\* Every actor has a process (and processor) of its own that keeps running.
Fairness == \A a \in Actors : WF_vars(ProcessStep(a))
FairSpec == Spec /\ Fairness

-----------------------------------------------------------------------------
Locations == {"top", "receive", "run", "shutdown", "exited", "crashed"}

Messages == [type : MessageTypes, from : Actors, to : Coroutines \cup {NoOne}]

TypeOK ==
  /\ inbox \in [Actors -> Seq(Messages)]
  /\ out \in [Actors -> Seq([dest : Actors, msg : Messages])]
  /\ \A a \in Actors : Len(inbox[a]) <= Capacity
  /\ pc \in [Actors -> Locations]
  /\ current \in [Actors -> Coroutines \cup {NoOne}]
  /\ \A a \in Actors : pc[a] = "run" => current[a] # NoOne
  /\ activations \in [Actors -> Seq(Coroutines)]
  /\ waitingForResult \in [Actors -> SUBSET Coroutines]
  /\ waitingForRef \in [Actors -> Seq(Coroutines)]
  /\ incoming \in [Actors -> Seq(Actors)]
  /\ stop \in [Actors -> BOOLEAN]
  /\ created \in [Actors -> 1..(MaxOps + 1)]
  /\ caller \in [Coroutines -> Coroutines \cup {NoOne}]
  /\ ops \in 0..MaxOps /\ decoded \in Decoders

\* The coroutines an actor holds, one entry for each place that refers to one;
\* the frame of a coroutine that halted may stay set and does not count.
Held(a) ==
  activations[a] \o waitingForRef[a] \o IF pc[a] = "run" THEN <<current[a]>> ELSE << >>

\* A coroutine is in one place: running, ready, waiting for a reference or
\* waiting for a result, and always on the actor that created it.  In two places
\* it would be resumed twice.
InOnePlace ==
  \A a \in Actors :
    /\ \A i, j \in DOMAIN Held(a) : i # j => Held(a)[i] # Held(a)[j]
    /\ \A i \in DOMAIN Held(a) :
         /\ Held(a)[i] \notin waitingForResult[a]
         /\ Home(Held(a)[i]) = a
         /\ Held(a)[i][2] <= created[a]
    /\ \A c \in waitingForResult[a] : Home(c) = a

\* What stands for the answer a coroutine waits for: its request on the way, the
\* coroutine that works on it, or the result on the way.
IsFor(m, c) == m.type \in {"SOM_RESULT", "OBJ_RESULT"} /\ m.to = c
InInbox(a, i, c) == i \in DOMAIN inbox[a] /\ IsFor(inbox[a][i], c)
InOut(a, i, c) == i \in DOMAIN out[a] /\ IsFor(out[a][i].msg, c)
Underway(c) ==
  {p \in Actors \X (1..Capacity) : InInbox(p[1], p[2], c)}
  \cup {p \in Actors \X {-1, -2} : InOut(p[1], -p[2], c)}
Working(c) ==
  {h \in Coroutines : caller[h] = c /\ \E a \in Actors : \/ h \in waitingForResult[a]
                                                         \/ \E i \in DOMAIN Held(a) : Held(a)[i] = h}

Answers(c) == Cardinality(Underway(c)) + Cardinality(Working(c))

Ended(a) == pc[a] \in {"shutdown", "exited", "crashed"}

\* A coroutine that waits for a result has exactly one answer coming, and nobody
\* else has: no result is sent twice, none finds its activation gone, and a call
\* is lost only with the process that worked on it.
OneAnswerPerCall ==
  \A c \in Coroutines :
    IF c \in waitingForResult[Home(c)]
    THEN Answers(c) = 1 \/ (Answers(c) = 0 /\ \E a \in Actors : Ended(a))
    ELSE Answers(c) = 0

\* What a step has to respect: when a follower takes main's exit message it has
\* handled all main sent it before, and when it leaves the loop nobody waits for a
\* coroutine of its own or for it.
DoneBeforeExitStep ==
  \A f \in Followers :
    /\ inbox[f] # << >> /\ Head(inbox[f]).type = "EXIT" /\ inbox'[f] = Tail(inbox[f]) =>
         \A i \in DOMAIN inbox'[f] : inbox'[f][i].from # Main
    /\ pc[f] = "top" /\ pc'[f] = "exited" =>
         /\ \A c \in Coroutines : Home(c) = f => Answers(c) = 0
         /\ \A c \in Coroutines : \A h \in Working(c) : Home(h) # f

\* Main's exit message comes after everything else main sends a follower, which
\* leaves its loop with no call of its own open and none that it works on.  (One
\* that stops itself may leave messages unread, see StopsWhenQueueEmpty.)
DoneBeforeExit == [][DoneBeforeExitStep]_vars

\* The loop ends when the queue has run empty.
StopsWhenQueueEmpty ==
  [][\A a \in Actors : stop[a] /\ pc[a] = "top" /\ pc'[a] # pc[a] /\ Ended(a)' => inbox[a] = << >>]_vars

\* An asynchronous send hands its message to the queue and goes on.
SendCompletes == \A a \in Actors : out[a] # << >> ~> out[a] = << >>

\* Coroutines of a wait for a reference or a result.
Waiting(a) == waitingForRef[a] # << >> \/ waitingForResult[a] # {}

\* A follower that was asked to stop ends once its messages are processed.
ExitMessageStops == \A f \in Followers : stop[f] ~> Ended(f)

\* A synchronous send to a remote object gets its result.
SyncSendReturns ==
  \A c \in Coroutines : c \in waitingForResult[Home(c)] ~> c \notin waitingForResult[Home(c)]

\* The same as far as it holds: every coroutine of an actor that waits for a
\* result gets it, unless a process ends, which without a decoder of notifications
\* is the caller's own, or a coroutine waits for a reference that nobody sends.
SyncSendAnswered ==
  \A a \in Actors :
    waitingForResult[a] # {} ~>
      \/ waitingForResult[a] = {}
      \/ [](\E b \in Actors : Ended(b) \/ waitingForRef[b] # << >>)

\* A reference that arrived for a waiting coroutine wakes it up.
ReferenceWakes ==
  \A c \in Coroutines :
    (/\ incoming[Home(c)] # << >> /\ waitingForRef[Home(c)] # << >>
     /\ Head(waitingForRef[Home(c)]) = c)
      ~> ((pc[Home(c)] = "run" /\ current[Home(c)] = c) \/ Ended(Home(c)))

\* Once main wants to exit it does, unless coroutines of a follower wait for ever.
ShutdownCompletes ==
  pc[Main] = "shutdown" ~> (pc[Main] = "exited" \/ [](\E f \in Followers : Waiting(f)))

=============================================================================
