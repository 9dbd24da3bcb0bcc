---------------------------- MODULE ActorLifecycle ----------------------------
(***************************************************************************)
(* How the processes of the actors start, find each other and end           *)
(* (src/actors/actors.cpp): the first process makes a shared memory object  *)
(* under a fixed name, makes itself its owner and starts a follower per     *)
(* further actor; every follower attaches to the object and draws an id     *)
(* under the global lock; the owner removes the name when it ends.          *)
(*                                                                         *)
(* The grain is a system call or one access to the shared object.  Programs *)
(* are launched one after the other.  Faults says what may go wrong.        *)
(***************************************************************************)
EXTENDS Integers, FiniteSets

CONSTANTS
  N,           \* NUMBER_OF_ACTORS
  Pids,        \* process ids, positive numbers
  MaxRuns,     \* bound on the times the program is launched
  MaxCrashes,  \* bound on the processes that are killed
  Faults       \* which of AllFaults happen

\* A follower is killed; the main process is killed, when none of its followers is
\* still starting or also then; execv fails; the program is launched while it
\* runs; the system uses the id of an ended process again.
AllFaults == {"follower", "main", "starting", "exec", "overlap", "reuse"}

ASSUME NAssumption == N \in Nat \ {0}
ASSUME PidsAssumption == Pids \subseteq Nat \ {0}
ASSUME BoundsAssumption == MaxRuns \in Nat /\ MaxCrashes \in Nat
ASSUME FaultsAssumption == Faults \subseteq AllFaults

None == 0     \* no process, no object: what memset leaves
Outside == -1 \* the parent of a launched process, or of one whose parent ended
Objects == 1..(2 * MaxRuns)

VARIABLES
  name,      \* the object SHARED_MEM_ID refers to
  made,      \* shared objects made so far
  shm,       \* the shared objects: actor_globals
  pc,        \* per process: where it stands
  parent,    \* per process: what getppid returns
  object,    \* per process: the object it has mapped
  id,        \* per process: _local_id
  main,      \* per process: _main_actor
  reached,   \* per process: the last actor its loop started, or told to exit
  children,  \* per process: _actor_processes it may wait for
  runs,      \* launches so far
  crashes    \* processes killed so far

locals == <<object, id, main, reached, children>>
vars == <<name, made, shm, pc, parent, locals, runs, crashes>>

Globals(owner) == [owner |-> owner, lastId |-> 0, lock |-> None, exits |-> {}]

Gone == {"unborn", "dead"}
Alive(p) == pc[p] \notin Gone

-----------------------------------------------------------------------------
Init ==
  /\ name = None /\ made = 0
  /\ shm = [o \in Objects |-> Globals(None)]
  /\ pc = [p \in Pids |-> "unborn"]
  /\ parent = [p \in Pids |-> Outside]
  /\ object = [p \in Pids |-> None]
  /\ id = [p \in Pids |-> 0]
  /\ main = [p \in Pids |-> FALSE]
  /\ reached = [p \in Pids |-> 0]
  /\ children = [p \in Pids |-> {}]
  /\ runs = 0 /\ crashes = 0

\* The ids the system may give to a new process: the next one never used, or one
\* whose process ended and was waited for.
Available ==
  {p \in Pids : pc[p] = "unborn" /\ \A q \in Pids : pc[q] = "unborn" => p <= q}
  \cup {p \in Pids : "reuse" \in Faults /\ pc[p] = "dead" /\ ~\E m \in Pids : parent[p] = m /\ Alive(m)}

\* A process enters main() at actors_init.
Begin(q, mother) ==
  /\ parent' = [parent EXCEPT ![q] = mother]
  /\ object' = [object EXCEPT ![q] = None]
  /\ id' = [id EXCEPT ![q] = 0]
  /\ main' = [main EXCEPT ![q] = FALSE]

Launch(p) ==
  /\ runs < MaxRuns
  /\ p \in Available
  /\ "overlap" \in Faults \/ \A q \in Pids : ~Alive(q)
  /\ runs' = runs + 1
  /\ Begin(p, Outside)
  /\ pc' = [pc EXCEPT ![p] = "open"]
  /\ reached' = [reached EXCEPT ![p] = 0]
  /\ children' = [children EXCEPT ![p] = {}]
  /\ UNCHANGED <<name, made, shm, crashes>>

-----------------------------------------------------------------------------
(* actors_init                                                              *)

At(p, place) == pc[p] = place
GoTo(p, place) == pc' = [pc EXCEPT ![p] = place]

Open(p) ==
  /\ At(p, "open")
  /\ \/ name # None /\ object' = [object EXCEPT ![p] = name] /\ GoTo(p, "check")
     \/ name = None /\ GoTo(p, "create") /\ UNCHANGED object
  /\ UNCHANGED <<name, made, shm, parent, id, main, reached, children, runs, crashes>>

\* Fault: what is made is not mapped.
CreateUnmapped(p) ==
  /\ At(p, "create")
  /\ name' = IF name # None THEN name ELSE made + 1
  /\ made' = IF name # None THEN made ELSE made + 1
  /\ name' \in Objects
  /\ GoTo(p, "init")
  /\ UNCHANGED <<shm, parent, locals, runs, crashes>>

\* Without O_EXCL: an object made in the meantime is as good.
Create(p) ==
  /\ At(p, "create")
  /\ name' = IF name # None THEN name ELSE made + 1
  /\ made' = IF name # None THEN made ELSE made + 1
  /\ name' \in Objects
  /\ object' = [object EXCEPT ![p] = name']
  /\ GoTo(p, "init")
  /\ UNCHANGED <<shm, parent, id, main, reached, children, runs, crashes>>

\* _init_global_data_structures
InitGlobals(p) ==
  /\ At(p, "init") \/ At(p, "reinit")
  /\ shm' = [shm EXCEPT ![object[p]] = Globals(p)]
  /\ GoTo(p, IF pc[p] = "init" THEN "check" ELSE "lock")
  /\ UNCHANGED <<name, made, parent, locals, runs, crashes>>

\* _init_process_local_data: an object that is neither ours nor our parent's was
\* left over, or belongs to a program that runs.
Check(p) ==
  /\ At(p, "check")
  /\ GoTo(p, IF shm[object[p]].owner \in {parent[p], p} THEN "lock" ELSE "reinit")
  /\ UNCHANGED <<name, made, shm, parent, locals, runs, crashes>>

\* Fault: the lock is not waited for.
LockRegardless(p) ==
  /\ At(p, "lock")
  /\ shm' = [shm EXCEPT ![object[p]].lock = p]
  /\ GoTo(p, "count")
  /\ UNCHANGED <<name, made, parent, locals, runs, crashes>>

\* A process that was killed holds the lock for ever.
Lock(p) ==
  /\ At(p, "lock")
  /\ shm[object[p]].lock = None
  /\ shm' = [shm EXCEPT ![object[p]].lock = p]
  /\ GoTo(p, "count")
  /\ UNCHANGED <<name, made, parent, locals, runs, crashes>>

Count(p) ==
  /\ At(p, "count")
  /\ \/ /\ shm[object[p]].owner = p
        /\ main' = [main EXCEPT ![p] = TRUE]
        /\ UNCHANGED shm
     \/ /\ shm[object[p]].owner # p
        /\ main' = [main EXCEPT ![p] = FALSE]
        /\ shm' = [shm EXCEPT ![object[p]].lastId = @ + 1]
  /\ GoTo(p, "take")
  /\ UNCHANGED <<name, made, parent, object, id, reached, children, runs, crashes>>

Take(p) ==
  /\ At(p, "take")
  /\ id' = [id EXCEPT ![p] = IF main[p] THEN 0 ELSE shm[object[p]].lastId]
  /\ GoTo(p, "unlock")
  /\ UNCHANGED <<name, made, shm, parent, object, main, reached, children, runs, crashes>>


Unlock(p) ==
  /\ At(p, "unlock")
  /\ shm' = [shm EXCEPT ![object[p]].lock = None]
  /\ GoTo(p, IF main[p] THEN "start" ELSE "run")
  /\ UNCHANGED <<name, made, parent, locals, runs, crashes>>

-----------------------------------------------------------------------------
(* actors_start                                                             *)

\* _init_communication empties the queues.
InitCommunication(p) ==
  /\ At(p, "start")
  /\ shm' = [shm EXCEPT ![object[p]].exits = {}]
  /\ reached' = [reached EXCEPT ![p] = 0]
  /\ GoTo(p, "fork")
  /\ UNCHANGED <<name, made, parent, object, id, main, children, runs, crashes>>

\* The child runs the program from its start; if execv fails it goes on as a
\* copy of its parent.
Fork(p) ==
  /\ At(p, "fork")
  /\ reached[p] < N - 1
  /\ \E q \in Available :
       /\ children' = [children EXCEPT ![p] = @ \cup {q}, ![q] = {}]
       /\ \E executes \in {TRUE, "exec" \notin Faults} :
            IF executes
            THEN /\ Begin(q, p)
                 /\ GoTo(q, "open")
                 /\ reached' = [reached EXCEPT ![p] = @ + 1, ![q] = 0]
            ELSE /\ parent' = [parent EXCEPT ![q] = p]
                 /\ object' = [object EXCEPT ![q] = object[p]]
                 /\ id' = [id EXCEPT ![q] = id[p]]
                 /\ main' = [main EXCEPT ![q] = main[p]]
                 /\ GoTo(q, "fork")
                 /\ reached' = [reached EXCEPT ![p] = @ + 1, ![q] = reached[p] + 1]
  /\ UNCHANGED <<name, made, shm, runs, crashes>>

AllForked(p) ==
  /\ At(p, "fork")
  /\ reached[p] = N - 1
  /\ GoTo(p, "run")
  /\ UNCHANGED <<name, made, shm, parent, locals, runs, crashes>>

-----------------------------------------------------------------------------
(* Universe::Quit and actors_shutdown                                       *)

Finish(p) ==
  /\ At(p, "run") /\ id[p] = 0
  /\ reached' = [reached EXCEPT ![p] = 0]
  /\ GoTo(p, "post")
  /\ UNCHANGED <<name, made, shm, parent, object, id, main, children, runs, crashes>>

\* Main sends exit messages into the queues of all others, one after the other.
Post(p) ==
  /\ At(p, "post")
  /\ reached[p] < N - 1
  /\ shm' = [shm EXCEPT ![object[p]].exits = @ \cup {reached[p] + 1}]
  /\ reached' = [reached EXCEPT ![p] = @ + 1]
  /\ UNCHANGED <<name, made, pc, parent, object, id, main, children, runs, crashes>>

AllTold(p) ==
  /\ At(p, "post")
  /\ reached[p] = N - 1
  /\ GoTo(p, "wait")
  /\ UNCHANGED <<name, made, shm, parent, locals, runs, crashes>>

\* Fault: waitpid does not wait.
ReapRegardless(p) ==
  /\ At(p, "wait")
  /\ GoTo(p, "exit")
  /\ UNCHANGED <<name, made, shm, parent, locals, runs, crashes>>

Reap(p) ==
  /\ At(p, "wait")
  /\ \A q \in children[p] : ~Alive(q)
  /\ GoTo(p, "exit")
  /\ UNCHANGED <<name, made, shm, parent, locals, runs, crashes>>

\* A follower reads the message; it ends if none of its coroutines waits.
ReadExit(p) ==
  /\ At(p, "run") /\ id[p] # 0
  /\ id[p] \in shm[object[p]].exits
  /\ shm' = [shm EXCEPT ![object[p]].exits = @ \ {id[p]}]
  /\ \E place \in {"exit", "held"} : GoTo(p, place)
  /\ UNCHANGED <<name, made, parent, locals, runs, crashes>>

\* What it waited for came.
Resume(p) ==
  /\ At(p, "held")
  /\ GoTo(p, "exit")
  /\ UNCHANGED <<name, made, shm, parent, locals, runs, crashes>>

\* A program ends its follower.
Leave(p) ==
  /\ At(p, "run") /\ id[p] # 0
  /\ GoTo(p, "exit")
  /\ UNCHANGED <<name, made, shm, parent, locals, runs, crashes>>

\* The process is gone, and its children have no parent.
Die(p) ==
  /\ GoTo(p, "dead")
  /\ parent' = [q \in Pids |-> IF parent[q] = p THEN Outside ELSE parent[q]]
  /\ object' = [object EXCEPT ![p] = None]

\* Fault: a follower removes the name as well.
UninitAlways(p) ==
  /\ At(p, "exit")
  /\ name' = None
  /\ Die(p)
  /\ UNCHANGED <<made, shm, id, main, reached, children, runs, crashes>>

\* _uninit: main removes the name, whatever object it stands for now.
Uninit(p) ==
  /\ At(p, "exit")
  /\ name' = IF main[p] THEN None ELSE name
  /\ Die(p)
  /\ UNCHANGED <<made, shm, id, main, reached, children, runs, crashes>>

Starting(q) == pc[q] \in {"open", "create", "init", "reinit", "check", "lock", "count", "take"}

\* The ring of a follower that reads no more may be full: main waits for room.
Reads(q, i) == Starting(q) \/ (pc[q] \in {"unlock", "run", "held"} /\ id[q] = i)

Spin(p) ==
  /\ At(p, "post")
  /\ reached[p] < N - 1
  /\ ~\E q \in Pids : Reads(q, reached[p] + 1)
  /\ GoTo(p, "spin")
  /\ UNCHANGED <<name, made, shm, parent, locals, runs, crashes>>

Crash(p) ==
  /\ crashes < MaxCrashes
  /\ Alive(p)
  /\ IF parent[p] # Outside THEN "follower" \in Faults
     ELSE IF \E q \in children[p] : Starting(q) THEN "starting" \in Faults
     ELSE "main" \in Faults
  /\ crashes' = crashes + 1
  /\ Die(p)
  /\ UNCHANGED <<name, made, shm, id, main, reached, children, runs>>

-----------------------------------------------------------------------------
Step(p) ==
  \/ Open(p) \/ Create(p) \/ InitGlobals(p) \/ Check(p)
  \/ Lock(p) \/ Count(p) \/ Take(p) \/ Unlock(p)
  \/ InitCommunication(p) \/ Fork(p) \/ AllForked(p)
  \/ Finish(p) \/ Post(p) \/ AllTold(p) \/ Reap(p) \/ ReadExit(p) \/ Uninit(p)

Next == \E p \in Pids :
  Launch(p) \/ Step(p) \/ Resume(p) \/ Leave(p) \/ Spin(p) \/ Crash(p)

Spec == Init /\ [][Next]_vars

\* Processes keep running, and programs come to an end.  Nothing makes the result
\* come that a coroutine waits for, or makes room in a ring that nobody reads.
Fairness == \A p \in Pids : WF_vars(Step(p))
FairSpec == Spec /\ Fairness

-----------------------------------------------------------------------------
Places ==
  Gone \cup {"open", "create", "init", "reinit", "check", "lock", "count", "take",
             "unlock", "start", "fork", "run", "post", "spin", "wait", "held", "exit"}

TypeOK ==
  /\ name \in Objects \cup {None} /\ made \in 0..Cardinality(Objects)
  /\ shm \in [Objects -> [owner : Pids \cup {None}, lastId : Nat,
                          lock : Pids \cup {None}, exits : SUBSET (1..(N - 1))]]
  /\ pc \in [Pids -> Places]
  /\ parent \in [Pids -> Pids \cup {Outside}]
  /\ object \in [Pids -> Objects \cup {None}]
  /\ \A p \in Pids : pc[p] \notin Gone \cup {"open", "create"} => object[p] # None
  /\ id \in [Pids -> Nat]
  /\ main \in [Pids -> BOOLEAN]
  /\ reached \in [Pids -> 0..(N - 1)]
  /\ children \in [Pids -> SUBSET Pids]
  /\ runs \in 0..MaxRuns /\ crashes \in 0..MaxCrashes

Attached == {p \in Pids : pc[p] \in {"start", "fork", "run", "post", "spin", "wait", "held"}}

\* Each actor has an id of its own that is the index of a queue: no queue has two
\* readers, and none is out of range (actors.cpp:138-149, 263-265).
IdsApart ==
  \A p \in Attached :
    /\ id[p] < N
    /\ \A q \in Attached : object[p] = object[q] /\ id[p] = id[q] => p = q

\* A follower is attached to the object of the process that started it, and the
\* object is the one the next process will find.
FollowsParent ==
  \A p \in Attached :
    ~main[p] /\ parent[p] # Outside => shm[object[p]].owner = parent[p] /\ name = object[p]

\* What processes do with the shared object, all together: no two read one queue,
\* and nobody works on an object that its main process does not know.
OwnQueueEach == IdsApart /\ FollowsParent

\* When main ends, nobody is left that works on its object, and the next launch
\* starts from a new one.
CleanEndStep ==
  \A p \in Pids :
    pc[p] = "exit" /\ main[p] /\ pc'[p] = "dead" /\ crashes' = crashes =>
      /\ name' = None
      /\ \A q \in Pids : Alive(q) => q = p \/ object[q] # object[p]

CleanEnd == [][CleanEndStep]_vars

\* Main ends once its program did, unless a process was killed at a time when it
\* held the global lock, a coroutine of a follower waits for ever, or the ring of a
\* follower that ended is full (actors.cpp:242-254, 140; actors/Interpreter.cpp:217;
\* synced_queue.cpp:35).
LockLost == \E o \in Objects : shm[o].lock # None /\ ~Alive(shm[o].lock)
Stuck(p) == pc[p] = "spin" \/ \E q \in children[p] : pc[q] = "held"


=============================================================================
