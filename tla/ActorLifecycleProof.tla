------------------------- MODULE ActorLifecycleProof -------------------------
(***************************************************************************)
(* Proofs about the processes of the actors, for any number of actors,      *)
(* launches and killed processes.                                           *)
(***************************************************************************)
EXTENDS ActorLifecycle, FiniteSetTheorems, TLAPS

-----------------------------------------------------------------------------
(* Types, whatever fails.                                                   *)

LEMMA ObjectsFacts ==
  /\ MaxRuns \in Nat /\ MaxCrashes \in Nat /\ N \in Nat /\ N >= 1
  /\ Cardinality(Objects) = 2 * MaxRuns
  /\ \A o \in Objects : o \in Nat /\ o # None /\ o <= Cardinality(Objects)
  /\ \A p \in Pids : p \in Nat /\ p # None /\ p # Outside
<1>1. MaxRuns \in Nat /\ MaxCrashes \in Nat /\ N \in Nat /\ N >= 1
  BY BoundsAssumption, NAssumption
<1>2. \A p \in Pids : p \in Nat /\ p # None /\ p # Outside
  BY PidsAssumption DEF None, Outside
<1> DEFINE n == 2 * MaxRuns
<1>3. n \in Nat
  BY <1>1
<1> HIDE DEF n
<1>4. Cardinality(1..n) = n
  BY <1>3, FS_Interval
<1>5. \A o \in 1..n : o \in Nat /\ o # None /\ o <= n
  BY <1>3 DEF None
<1> QED
  BY <1>1, <1>2, <1>4, <1>5 DEF Objects, n

\* The object of a process that works on one.
LEMMA Mapped ==
  ASSUME TypeOK, NEW p \in Pids, pc[p] \notin Gone \cup {"open", "create"}
  PROVE  object[p] \in Objects
  BY DEF TypeOK

GlobalsType == [owner : Pids \cup {None}, lastId : Nat, lock : Pids \cup {None},
                exits : SUBSET (1..(N - 1))]

\* Fields of the objects change one at a time.
LEMMA FieldChanges ==
  ASSUME TypeOK, NEW o \in Objects
  PROVE  /\ \A l \in Pids \cup {None} : [shm EXCEPT ![o].lock = l] \in [Objects -> GlobalsType]
         /\ \A n \in Nat : [shm EXCEPT ![o].lastId = n] \in [Objects -> GlobalsType]
         /\ \A e \in SUBSET (1..(N - 1)) : [shm EXCEPT ![o].exits = e] \in [Objects -> GlobalsType]
         /\ shm[o] \in GlobalsType
<1>1. shm \in [Objects -> GlobalsType] /\ shm[o] \in GlobalsType
  BY DEF TypeOK, GlobalsType
<1>2. \A r \in GlobalsType : [shm EXCEPT ![o] = r] \in [Objects -> GlobalsType]
  BY <1>1
<1>3. \A l \in Pids \cup {None} : [shm[o] EXCEPT !.lock = l] \in GlobalsType
  BY <1>1 DEF GlobalsType
<1>4. \A n \in Nat : [shm[o] EXCEPT !.lastId = n] \in GlobalsType
  BY <1>1 DEF GlobalsType
<1>5. \A e \in SUBSET (1..(N - 1)) : [shm[o] EXCEPT !.exits = e] \in GlobalsType
  BY <1>1 DEF GlobalsType
<1> QED
  BY <1>1, <1>2, <1>3, <1>4, <1>5

LEMMA InitTypes == Init => TypeOK
  BY ObjectsFacts DEF Init, TypeOK, Globals, Places, Gone

LEMMA LaunchTypes ==
  ASSUME TypeOK, NEW p \in Pids, Launch(p)
  PROVE  TypeOK'
  BY ObjectsFacts DEF TypeOK, Launch, Begin, Places, Gone, Available

\* actors_init
LEMMA InitActionTypes ==
  ASSUME TypeOK, NEW p \in Pids,
         Open(p) \/ Create(p) \/ InitGlobals(p) \/ Check(p) \/ Lock(p) \/ Count(p) \/ Take(p)
           \/ Unlock(p)
  PROVE  TypeOK'
<1>1. CASE Open(p)
  <2>1. pc' \in [Pids -> Places] /\ object' \in [Pids -> Objects \cup {None}]
    <3>1. PICK place \in Places : pc' = [pc EXCEPT ![p] = place]
      BY <1>1 DEF Open, GoTo, Places
    <3>2. \/ object' = [object EXCEPT ![p] = name]
          \/ object' = object
      BY <1>1 DEF Open
    <3> QED
      BY <3>1, <3>2 DEF TypeOK
  <2>2. \A q \in Pids : pc'[q] \notin Gone \cup {"open", "create"} => object'[q] # None
    BY <1>1, ObjectsFacts DEF TypeOK, Open, GoTo, Gone, None
  <2> QED
    BY <1>1, <2>1, <2>2 DEF TypeOK, Open
<1>2. CASE Create(p)
  BY <1>2, ObjectsFacts DEF TypeOK, Create, At, GoTo, locals, Places, Gone, None
<1>3. CASE InitGlobals(p)
  <2>1. object[p] \in Objects
    BY <1>3, Mapped DEF InitGlobals, At, Gone
  <2> QED
    BY <1>3, <2>1 DEF TypeOK, InitGlobals, Globals, At, GoTo, locals, Places, Gone
<1>4. CASE Check(p)
  BY <1>4 DEF TypeOK, Check, At, GoTo, locals, Places, Gone
<1>5. CASE Lock(p)
  <2>1. object[p] \in Objects
    BY <1>5, Mapped DEF Lock, At, Gone
  <2>2. shm' \in [Objects -> GlobalsType]
    BY <1>5, <2>1, FieldChanges DEF Lock
  <2> QED
    BY <1>5, <2>2 DEF TypeOK, Lock, At, GoTo, locals, Places, Gone, GlobalsType
<1>6. CASE Count(p)
  <2>1. object[p] \in Objects
    BY <1>6, Mapped DEF Count, At, Gone
  <2>2. shm' \in [Objects -> GlobalsType]
    <3>1. shm \in [Objects -> GlobalsType]
      BY DEF TypeOK, GlobalsType
    <3>2. shm[object[p]].lastId + 1 \in Nat
      BY <2>1, FieldChanges DEF GlobalsType
    <3>3. \/ shm' = shm
          \/ shm' = [shm EXCEPT ![object[p]].lastId = shm[object[p]].lastId + 1]
      BY <1>6 DEF Count
    <3> QED
      BY <2>1, <3>1, <3>2, <3>3, FieldChanges
  <2>3. pc' \in [Pids -> Places] /\ main' \in [Pids -> BOOLEAN]
    BY <1>6 DEF TypeOK, Count, GoTo, Places
  <2>4. \A q \in Pids : pc'[q] \notin Gone \cup {"open", "create"} => object'[q] # None
    BY <1>6 DEF TypeOK, Count, At, GoTo, Gone
  <2> QED
    BY <1>6, <2>2, <2>3, <2>4 DEF TypeOK, Count, GlobalsType
<1>7. CASE Take(p)
  <2>1. object[p] \in Objects
    BY <1>7, Mapped DEF Take, At, Gone
  <2> QED
    BY <1>7, <2>1 DEF TypeOK, Take, At, GoTo, locals, Places, Gone
<1>8. CASE Unlock(p)
  <2>1. object[p] \in Objects
    BY <1>8, Mapped DEF Unlock, At, Gone
  <2>2. shm' \in [Objects -> GlobalsType]
    BY <1>8, <2>1, FieldChanges DEF Unlock, TypeOK, GlobalsType
  <2> QED
    BY <1>8, <2>2 DEF TypeOK, Unlock, At, GoTo, locals, Places, Gone, GlobalsType
<1> QED
  BY <1>1, <1>2, <1>3, <1>4, <1>5, <1>6, <1>7, <1>8

LEMMA ForkTypes ==
  ASSUME TypeOK, NEW p \in Pids, Fork(p)
  PROVE  TypeOK'
<1>1. PICK q \in Available : \E executes \in {TRUE, "exec" \notin Faults} :
        /\ children' = [children EXCEPT ![p] = @ \cup {q}, ![q] = {}]
        /\ IF executes
           THEN /\ Begin(q, p)
                /\ GoTo(q, "open")
                /\ reached' = [reached EXCEPT ![p] = @ + 1, ![q] = 0]
           ELSE /\ parent' = [parent EXCEPT ![q] = p]
                /\ object' = [object EXCEPT ![q] = object[p]]
                /\ id' = [id EXCEPT ![q] = id[p]]
                /\ main' = [main EXCEPT ![q] = main[p]]
                /\ GoTo(q, "fork")
                /\ reached' = [reached EXCEPT ![p] = @ + 1, ![q] = reached[p] + 1]
  BY DEF Fork
<1>2. q \in Pids /\ pc[p] = "fork" /\ reached[p] + 1 \in 0..(N - 1)
      /\ UNCHANGED <<name, made, shm, runs, crashes>>
  BY ObjectsFacts DEF Fork, Available, At, TypeOK
<1>3. object[p] \in Objects
  BY <1>2, Mapped DEF Gone
<1>4. CASE Begin(q, p) /\ GoTo(q, "open") /\ reached' = [reached EXCEPT ![p] = @ + 1, ![q] = 0]
  <2>1. pc' \in [Pids -> Places] /\ reached' \in [Pids -> 0..(N - 1)]
    <3>1. "open" \in Places /\ 0 \in 0..(N - 1)
      BY ObjectsFacts DEF Places
    <3> QED
      BY <1>2, <1>4, <3>1 DEF TypeOK, GoTo
  <2>2. children' \in [Pids -> SUBSET Pids] /\ parent' \in [Pids -> Pids \cup {Outside}]
    BY <1>1, <1>2, <1>4 DEF TypeOK, Begin
  <2>3. /\ object' \in [Pids -> Objects \cup {None}] /\ id' \in [Pids -> Nat]
        /\ main' \in [Pids -> BOOLEAN]
    BY <1>2, <1>4 DEF TypeOK, Begin
  <2>4. \A r \in Pids : pc'[r] \notin Gone \cup {"open", "create"} => object'[r] # None
    BY <1>2, <1>4 DEF TypeOK, Begin, GoTo
  <2> QED
    BY <1>2, <2>1, <2>2, <2>3, <2>4 DEF TypeOK
<1>5. CASE /\ parent' = [parent EXCEPT ![q] = p]
           /\ object' = [object EXCEPT ![q] = object[p]]
           /\ id' = [id EXCEPT ![q] = id[p]]
           /\ main' = [main EXCEPT ![q] = main[p]]
           /\ GoTo(q, "fork")
           /\ reached' = [reached EXCEPT ![p] = @ + 1, ![q] = reached[p] + 1]
  BY <1>1, <1>2, <1>3, <1>5 DEF TypeOK, GoTo, Places, Gone
<1> QED
  BY <1>1, <1>4, <1>5

\* actors_start and the end of a process
LEMMA OtherTypes ==
  ASSUME TypeOK, NEW p \in Pids,
         InitCommunication(p) \/ AllForked(p) \/ Finish(p) \/ Post(p) \/ AllTold(p) \/ Reap(p)
           \/ ReadExit(p) \/ Resume(p) \/ Leave(p) \/ Spin(p) \/ Uninit(p) \/ Crash(p)
  PROVE  TypeOK'
<1>1. CASE InitCommunication(p)
  <2>1. object[p] \in Objects
    BY <1>1, Mapped DEF InitCommunication, At, Gone
  <2>2. shm' \in [Objects -> GlobalsType]
    BY <1>1, <2>1, FieldChanges DEF InitCommunication
  <2> QED
    BY <1>1, <2>2, ObjectsFacts
       DEF TypeOK, InitCommunication, At, GoTo, locals, Places, Gone, GlobalsType
<1>2. CASE AllForked(p) \/ AllTold(p) \/ Reap(p) \/ Resume(p) \/ Leave(p) \/ Spin(p)
  <2>1. PICK place \in Places \ {"open", "create"} : GoTo(p, place)
    BY <1>2 DEF AllForked, AllTold, Reap, Resume, Leave, Spin, Places
  <2>2. pc[p] \notin Gone \cup {"open", "create"}
    BY <1>2 DEF AllForked, AllTold, Reap, Resume, Leave, Spin, At, Gone
  <2>3. UNCHANGED <<name, made, shm, parent, locals, runs, crashes>>
    BY <1>2 DEF AllForked, AllTold, Reap, Resume, Leave, Spin
  <2>4. pc' \in [Pids -> Places]
    BY <2>1 DEF GoTo, TypeOK
  <2>5. \A q \in Pids : pc'[q] \notin Gone \cup {"open", "create"} => object'[q] # None
    BY <2>1, <2>2, <2>3 DEF TypeOK, GoTo, locals
  <2> QED
    BY <2>3, <2>4, <2>5 DEF TypeOK, locals
<1>3. CASE Post(p) \/ ReadExit(p)
  <2>0. /\ Post(p) => reached[p] + 1 \in 1..(N - 1)
        /\ reached' \in [Pids -> 0..(N - 1)]
    BY <1>3, ObjectsFacts DEF TypeOK, Post, ReadExit, locals
  <2>1. object[p] \in Objects
    BY <1>3, Mapped DEF Post, ReadExit, At, Gone
  <2>2. \E e \in SUBSET (1..(N - 1)) : shm' = [shm EXCEPT ![object[p]].exits = e]
    <3>1. shm[object[p]].exits \in SUBSET (1..(N - 1))
      BY <2>1, FieldChanges DEF GlobalsType
    <3>2. Post(p) => shm' = [shm EXCEPT ![object[p]].exits =
                                            shm[object[p]].exits \cup {reached[p] + 1}]
      BY DEF Post
    <3>3. ReadExit(p) => shm' = [shm EXCEPT ![object[p]].exits = shm[object[p]].exits \ {id[p]}]
      BY DEF ReadExit
    <3> QED
      BY <1>3, <2>0, <3>1, <3>2, <3>3
  <2>3. shm' \in [Objects -> GlobalsType]
    <3>1. PICK e \in SUBSET (1..(N - 1)) : shm' = [shm EXCEPT ![object[p]].exits = e]
      BY <2>2
    <3>2. [shm EXCEPT ![object[p]].exits = e] \in [Objects -> GlobalsType]
      BY <2>1, FieldChanges
    <3> QED
      BY <3>1, <3>2
  <2>4. pc' \in [Pids -> Places]
    BY <1>3 DEF TypeOK, Post, ReadExit, GoTo, Places
  <2>5. \A q \in Pids : pc'[q] \notin Gone \cup {"open", "create"} => object'[q] # None
    BY <1>3 DEF TypeOK, Post, ReadExit, At, GoTo, locals, Gone
  <2> QED
    BY <1>3, <2>0, <2>3, <2>4, <2>5 DEF TypeOK, Post, ReadExit, locals, GlobalsType
<1>4. CASE Uninit(p)
  BY <1>4 DEF TypeOK, Uninit, Die, At, GoTo, locals, Places, Gone
<1>5. CASE Crash(p)
  BY <1>5, ObjectsFacts DEF TypeOK, Crash, Die, At, GoTo, locals, Places, Gone, Alive
<1>6. CASE Finish(p)
  BY <1>6, ObjectsFacts DEF TypeOK, Finish, At, GoTo, Places, Gone
<1> QED
  BY <1>1, <1>2, <1>3, <1>4, <1>5, <1>6

LEMMA NextTypes ==
  ASSUME TypeOK, [Next]_vars
  PROVE  TypeOK'
<1>1. CASE Next
  <2>1. PICK p \in Pids : Launch(p) \/ Step(p) \/ Resume(p) \/ Leave(p) \/ Spin(p) \/ Crash(p)
    BY <1>1 DEF Next
  <2> QED
    BY <2>1, LaunchTypes, InitActionTypes, ForkTypes, OtherTypes DEF Step
<1>2. CASE UNCHANGED vars
  BY <1>2 DEF vars, locals, TypeOK
<1> QED
  BY <1>1, <1>2

\* Whatever is killed, fails or is launched twice, the shared objects and the
\* processes keep their types, and a process that uses an object has mapped one
\* (actors_init, actors.cpp:131-200).
THEOREM LifecycleTypeCorrect == Spec => []TypeOK
<1>1. Init => TypeOK
  BY InitTypes
<1>2. TypeOK /\ [Next]_vars => TypeOK'
  BY NextTypes
<1> QED
  BY <1>1, <1>2, PTL DEF Spec

-----------------------------------------------------------------------------
(* The invariant, when no more fails than that processes are killed.        *)

CleanFaults == Faults \subseteq {"main", "follower"}

\* Places of a process that does not know yet whether it is main, and those of a
\* follower that has its id.
Fresh == {"open", "create", "init", "reinit", "check", "lock", "count"}
Numbered == {"unlock", "run", "held", "exit"}
Following == {"open", "check", "lock", "count", "take"} \cup Numbered

\* Places of main before the first fork, and of main once the object is its own.
Early == Fresh \cup {"take", "unlock", "start"}
Settled ==
  {"lock", "count", "take", "unlock", "start", "fork", "run", "post", "spin", "wait", "exit"}

\* Places of main when it may have followers.
Mothering == {"fork", "run", "post", "spin", "wait"}

\* The process that holds the lock, if it is alive.
Holding == {"count", "take", "unlock"}

\* The main process of the program that runs: no process is its parent, and it
\* has made itself the owner or is about to.
Lead(p) == Alive(p) /\ parent[p] = Outside /\ (main[p] \/ pc[p] \in Fresh)
Follower(p) == Alive(p) /\ ~Lead(p)
Alone(p) == \A q \in Pids : Alive(q) => q = p

\* n of the processes "kids" have been counted, as far as their places show.
Counted == Numbered \cup {"take", "dead"}
Drawn(kids, n, places) ==
  \E C \in SUBSET kids : Cardinality(C) = n /\ \A q \in C : places[q] \in Counted

\* No object belongs to a process that did not look for one yet.
NewcomersOk ==
  \A p \in Pids :
    /\ pc[p] \in {"unborn", "open"} => \A o \in Objects : shm[o].owner # p
    /\ pc[p] = "unborn" => \A q \in Pids : p \notin children[q]

\* Main starts and ends alone, and in between the object that has the name is its
\* own, on which no more ids are drawn than it started processes.
LeadOkAt(p) ==
  /\ pc[p] \in Early => Alone(p) /\ children[p] = {}
  /\ pc[p] = "exit" => Alone(p)
  /\ pc[p] \notin {"open", "create"} => object[p] = name
  /\ pc[p] = "check" /\ shm[name].owner = p => shm[name] = Globals(p)
  /\ pc[p] \in Settled => shm[name].owner = p /\ Drawn(children[p], shm[name].lastId, pc)
  /\ IsFiniteSet(children[p]) /\ Cardinality(children[p]) <= N - 1
  /\ pc[p] = "fork" => Cardinality(children[p]) <= reached[p]
  /\ p \notin children[p] /\ id[p] = 0 /\ pc[p] # "held"

\* A follower is a child of main, or has lost it after it got its id.
FollowOkAt(q) ==
  /\ ~main[q] /\ name # None
  /\ \A p \in Pids : Lead(p) => parent[q] = p
  /\ parent[q] = Outside => pc[q] \in Numbered
  /\ parent[q] # Outside =>
       /\ pc[q] \in Following
       /\ \E p \in Pids : /\ p = parent[q] /\ Lead(p)
                          /\ pc[p] \in Mothering /\ q \in children[p]
  /\ pc[q] # "open" => object[q] = name
  /\ pc[q] \in Numbered => id[q] \in 1..shm[name].lastId /\ shm[name].lastId < N
  /\ pc[q] = "take" => shm[name].lastId \in 1..(N - 1)

LeadOnce == \A p, q \in Pids : Lead(p) /\ Lead(q) => p = q

LockOk == \A p \in Pids : pc[p] \in Holding => shm[name].lock = p

\* The ids that were drawn differ, and the one about to be taken is new.
IdsOk ==
  \A q, r \in Pids : Follower(q) /\ Follower(r) /\ pc[r] \in Numbered =>
    /\ pc[q] \in Numbered /\ id[q] = id[r] => q = r
    /\ pc[q] = "take" => id[r] < shm[name].lastId

LifeInv ==
  /\ TypeOK
  /\ NewcomersOk
  /\ \A p \in Pids : Lead(p) => LeadOkAt(p)
  /\ \A p \in Pids : Follower(p) => FollowOkAt(p)
  /\ LeadOnce /\ LockOk /\ IdsOk

-----------------------------------------------------------------------------
(* Counting.                                                                *)

LEMMA DrawnNone ==
  ASSUME NEW places
  PROVE  Drawn({}, 0, places)
  BY FS_EmptySet DEF Drawn

LEMMA DrawnStays ==
  ASSUME NEW kids, NEW n, NEW places, Drawn(kids, n, places), NEW more, kids \subseteq more,
         NEW next, \A q \in kids : places[q] \in Counted => next[q] \in Counted
  PROVE  Drawn(more, n, next)
  BY DEF Drawn

LEMMA DrawnAgain ==
  ASSUME NEW kids, IsFiniteSet(kids), NEW n, NEW places, Drawn(kids, n, places),
         NEW q \in kids, places[q] \notin Counted, NEW next, next[q] \in Counted,
         \A r \in kids : places[r] \in Counted => next[r] \in Counted
  PROVE  Drawn(kids, n + 1, next)
<1>1. PICK C \in SUBSET kids : Cardinality(C) = n /\ \A r \in C : places[r] \in Counted
  BY DEF Drawn
<1>2. IsFiniteSet(C) /\ q \notin C
  BY <1>1, FS_Subset
<1>3. Cardinality(C \cup {q}) = n + 1
  BY <1>1, <1>2, FS_AddElement
<1>4. C \cup {q} \in SUBSET kids /\ \A r \in C \cup {q} : next[r] \in Counted
  BY <1>1
<1> QED
  BY <1>3, <1>4 DEF Drawn

LEMMA DrawnBound ==
  ASSUME NEW kids, IsFiniteSet(kids), NEW k \in Nat, Cardinality(kids) <= k,
         NEW n, NEW places, Drawn(kids, n, places)
  PROVE  n <= k
<1>1. PICK C \in SUBSET kids : Cardinality(C) = n
  BY DEF Drawn
<1>2. IsFiniteSet(C) /\ Cardinality(C) <= Cardinality(kids)
  BY FS_Subset
<1>3. Cardinality(C) \in Nat /\ Cardinality(kids) \in Nat
  BY <1>2, FS_CardinalityType
<1> QED
  BY <1>1, <1>2, <1>3

-----------------------------------------------------------------------------
(* What the invariant says of single processes.                             *)

\* What the steps do to the shared objects.
SameOwners == \A u \in Objects : shm'[u].owner = shm[u].owner
SameIds == \A u \in Objects : shm'[u].lastId = shm[u].lastId
SameLocks == \A u \in Objects : shm'[u].lock = shm[u].lock

LEMMA SharedChanges ==
  ASSUME TypeOK, NEW p \in Pids, object[p] \in Objects
  PROVE  /\ Lock(p) => SameOwners /\ SameIds /\ shm'[object[p]].lock = p
         /\ Unlock(p) => SameOwners /\ SameIds
         /\ Count(p) => SameOwners /\ SameLocks
         /\ Count(p) /\ shm[object[p]].owner = p => shm' = shm
         /\ Count(p) /\ shm[object[p]].owner # p =>
              shm'[object[p]].lastId = shm[object[p]].lastId + 1
         /\ InitCommunication(p) \/ Post(p) \/ ReadExit(p) => SameOwners /\ SameIds /\ SameLocks
<1> DEFINE o == object[p]
<1>1. shm \in [Objects -> GlobalsType] /\ shm[o] \in GlobalsType
  BY DEF TypeOK, GlobalsType
<1> HIDE DEF o
<1>2. ASSUME NEW x, shm' = [shm EXCEPT ![o].lock = x]
      PROVE  SameOwners /\ SameIds /\ shm'[o].lock = x
  BY <1>1, <1>2 DEF GlobalsType, SameOwners, SameIds, o
<1>3. ASSUME NEW x, shm' = [shm EXCEPT ![o].lastId = x]
      PROVE  SameOwners /\ SameLocks /\ shm'[o].lastId = x
  BY <1>1, <1>3 DEF GlobalsType, SameOwners, SameLocks, o
<1>4. ASSUME NEW x, shm' = [shm EXCEPT ![o].exits = x]
      PROVE  SameOwners /\ SameIds /\ SameLocks
  BY <1>1, <1>4 DEF GlobalsType, SameOwners, SameIds, SameLocks, o
<1>5. Lock(p) => SameOwners /\ SameIds /\ shm'[o].lock = p
  BY <1>2 DEF Lock, o
<1>6. Unlock(p) => SameOwners /\ SameIds
  BY <1>2 DEF Unlock, o
<1>7. ASSUME Count(p)
      PROVE  /\ SameOwners /\ SameLocks /\ (shm[o].owner = p => shm' = shm)
             /\ shm[o].owner # p => shm'[o].lastId = shm[o].lastId + 1
  <2>1. CASE shm[o].owner = p
    BY <1>7, <2>1 DEF Count, o, SameOwners, SameLocks
  <2>2. CASE shm[o].owner # p
    <3>1. shm' = [shm EXCEPT ![o].lastId = shm[o].lastId + 1]
      BY <1>7, <2>2 DEF Count, o
    <3> QED
      BY <2>2, <3>1, <1>3
  <2> QED
    BY <2>1, <2>2
<1>8. InitCommunication(p) => SameOwners /\ SameIds /\ SameLocks
  BY <1>4 DEF InitCommunication, o
<1>9. ASSUME Post(p) PROVE SameOwners /\ SameIds /\ SameLocks
  <2>1. shm' = [shm EXCEPT ![o].exits = shm[o].exits \cup {reached[p] + 1}]
    BY <1>9 DEF Post, o
  <2> QED
    BY <2>1, <1>4
<1>10. ASSUME ReadExit(p) PROVE SameOwners /\ SameIds /\ SameLocks
  <2>1. shm' = [shm EXCEPT ![o].exits = shm[o].exits \ {id[p]}]
    BY <1>10 DEF ReadExit, o
  <2> QED
    BY <2>1, <1>4
<1> QED
  BY <1>5, <1>6, <1>7, <1>8, <1>9, <1>10 DEF o

LEMMA LeadFacts ==
  ASSUME LifeInv, NEW p \in Pids, Lead(p)
  PROVE  /\ LeadOkAt(p) /\ parent[p] = Outside /\ Alive(p) /\ pc[p] \in Places
         /\ pc[p] \notin {"open", "create"} => object[p] = name /\ name \in Objects
         /\ pc[p] \notin Fresh => main[p]
  BY Mapped DEF LifeInv, Lead, LeadOkAt, Alive, TypeOK

LEMMA FollowFacts ==
  ASSUME LifeInv, NEW q \in Pids, Follower(q)
  PROVE  /\ FollowOkAt(q) /\ Alive(q) /\ ~main[q] /\ pc[q] \in Following /\ name \in Objects
         /\ pc[q] # "open" => object[q] = name
<1>1. FollowOkAt(q) /\ Alive(q) /\ TypeOK
  BY DEF LifeInv, Follower
<1> QED
  BY <1>1 DEF FollowOkAt, TypeOK, Following

\* A process that is alone is all that the invariant speaks of.
LEMMA AloneKeeps ==
  ASSUME TypeOK', NewcomersOk', NEW p \in Pids, Alone(p)',
         Alive(p)' => Lead(p)' /\ LeadOkAt(p)',
         (pc[p] \in Holding)' => shm'[name'].lock = p
  PROVE  LifeInv'
<1>1. \A q \in Pids : Lead(q)' => q = p
  BY DEF Alone, Lead
<1>2. \A q \in Pids : ~Follower(q)'
  BY DEF Alone, Follower
<1>3. LeadOnce' /\ IdsOk'
  BY <1>1, <1>2 DEF LeadOnce, IdsOk
<1>4. LockOk'
  BY DEF LockOk, Alone, Alive, Holding, Gone
<1>5. \A q \in Pids : Lead(q)' => LeadOkAt(q)'
  BY <1>1 DEF Lead
<1> QED
  BY <1>2, <1>3, <1>4, <1>5 DEF LifeInv

LEMMA NewcomersKeep ==
  ASSUME NewcomersOk, NEW p \in Pids, pc'[p] \notin {"unborn", "open"},
         \A q \in Pids : q # p => pc'[q] = pc[q],
         \A o \in Objects : shm'[o].owner \in {shm[o].owner, p},
         UNCHANGED children
  PROVE  NewcomersOk'
  BY DEF NewcomersOk

-----------------------------------------------------------------------------
(* Main.                                                                    *)

LEMMA LaunchKeeps ==
  ASSUME LifeInv, CleanFaults, TypeOK', NEW p \in Pids, Launch(p)
  PROVE  LifeInv'
<1>1. /\ pc[p] = "unborn" /\ \A q \in Pids : ~Alive(q)
  BY DEF Launch, Available, CleanFaults
<1>2. /\ pc' = [pc EXCEPT ![p] = "open"] /\ parent' = [parent EXCEPT ![p] = Outside]
      /\ id' = [id EXCEPT ![p] = 0] /\ children' = [children EXCEPT ![p] = {}]
      /\ reached' = [reached EXCEPT ![p] = 0]
      /\ UNCHANGED <<name, made, shm>>
  BY DEF Launch, Begin
<1>3. /\ pc'[p] = "open" /\ parent'[p] = Outside /\ id'[p] = 0 /\ children'[p] = {}
      /\ reached'[p] = 0 /\ \A q \in Pids : q # p => pc'[q] = pc[q] /\ children'[q] = children[q]
  BY <1>2 DEF LifeInv, TypeOK
<1>4. Alone(p)' /\ Lead(p)'
  BY <1>1, <1>3 DEF Alone, Lead, Alive, Gone, Fresh
<1>5. LeadOkAt(p)'
  BY <1>3, <1>4, FS_EmptySet, ObjectsFacts DEF LeadOkAt, Settled
<1>6. NewcomersOk'
  BY <1>1, <1>2, <1>3 DEF LifeInv, NewcomersOk
<1> QED
  BY <1>3, <1>4, <1>5, <1>6, AloneKeeps DEF Holding

\* Until it starts others, main is alone.
LEMMA EarlyKeeps ==
  ASSUME LifeInv, TypeOK', NEW p \in Pids, Lead(p),
         Open(p) \/ Create(p) \/ InitGlobals(p) \/ Check(p) \/ Lock(p) \/ Count(p) \/ Take(p)
           \/ Unlock(p) \/ InitCommunication(p)
  PROVE  LifeInv'
<1>0. /\ LeadOkAt(p) /\ parent[p] = Outside /\ Alive(p) /\ TypeOK /\ NewcomersOk
      /\ pc[p] \notin {"open", "create"} => object[p] = name /\ name \in Objects
      /\ pc[p] \notin Fresh => main[p]
  BY LeadFacts DEF LifeInv
<1>1. pc[p] \in Early /\ Alone(p) /\ children[p] = {}
  BY <1>0 DEF LeadOkAt, Early, Fresh, Open, Create, InitGlobals, Check, Lock, Count, Take, Unlock,
              InitCommunication, At
<1>2. ASSUME /\ UNCHANGED <<parent, children>>
             /\ \A q \in Pids : q # p => pc'[q] = pc[q]
             /\ pc'[p] \in Places \ {"unborn", "open", "dead", "held", "exit"}
             /\ pc'[p] \in Fresh \/ main'[p]
             /\ \A o \in Objects : shm'[o].owner \in {shm[o].owner, p}
             /\ pc'[p] # "create" => object'[p] = name'
             /\ pc'[p] = "check" /\ shm'[name'].owner = p => shm'[name'] = Globals(p)
             /\ pc'[p] \in Settled => shm'[name'].owner = p /\ shm'[name'].lastId = 0
             /\ pc'[p] \in Holding => shm'[name'].lock = p
             /\ reached'[p] \in Nat
             /\ id'[p] = 0
      PROVE  LifeInv'
  <2>1. NewcomersOk'
    BY <1>0, <1>2, NewcomersKeep
  <2>2. Alone(p)' /\ Lead(p)'
    BY <1>0, <1>1, <1>2 DEF Alone, Lead, Alive, Gone
  <2>3. Drawn({}, 0, pc')
    BY DrawnNone
  <2>4. /\ IsFiniteSet(children'[p]) /\ Cardinality(children'[p]) <= N - 1
        /\ Cardinality(children'[p]) <= reached'[p] /\ p \notin children'[p]
    <3>1. children'[p] = {} /\ reached'[p] \in Nat
      BY <1>1, <1>2
    <3>2. IsFiniteSet({}) /\ Cardinality({}) = 0
      BY FS_EmptySet
    <3>3. N - 1 >= 0
      BY ObjectsFacts
    <3> QED
      BY <3>1, <3>2, <3>3
  <2>5. LeadOkAt(p)'
    BY <1>1, <1>2, <2>2, <2>3, <2>4 DEF LeadOkAt
  <2> QED
    BY <1>2, <2>1, <2>2, <2>5, AloneKeeps
<1>3. pc[p] \in Settled => shm[name].owner = p /\ shm[name].lastId = 0
  <2>1. \A n : Drawn({}, n, pc) => n = 0
    BY FS_EmptySet DEF Drawn
  <2> QED
    BY <1>0, <1>1, <2>1 DEF LeadOkAt
<1>4. /\ pc \in [Pids -> Places] /\ object \in [Pids -> Objects \cup {None}]
      /\ reached'[p] \in Nat /\ id[p] = 0 /\ id \in [Pids -> Nat] /\ main \in [Pids -> BOOLEAN]
      /\ shm \in [Objects -> GlobalsType]
  BY <1>0, ObjectsFacts DEF TypeOK, LeadOkAt, GlobalsType
<1>5. CASE Open(p)
  <2>1. name # None => name \in Objects /\ shm[name].owner # p
    BY <1>0, <1>5 DEF TypeOK, NewcomersOk, Open, At
  <2> QED
    BY <1>2, <1>4, <1>5, <2>1
       DEF Open, At, GoTo, Places, Gone, Fresh, Settled, Holding
<1>6. CASE Create(p)
  BY <1>2, <1>4, <1>6 DEF Create, At, GoTo, Places, Gone, Fresh, Settled, Holding
<1>7. CASE InitGlobals(p)
  <2>1. shm' = [shm EXCEPT ![name] = Globals(p)] /\ name \in Objects /\ object[p] = name
    BY <1>0, <1>7 DEF InitGlobals, At
  <2>2. shm'[name] = Globals(p) /\ \A o \in Objects : o # name => shm'[o] = shm[o]
    BY <2>1, <1>4
  <2>3. Globals(p).owner = p /\ Globals(p).lastId = 0
    BY DEF Globals
  <2> QED
    BY <1>2, <1>4, <1>7, <2>1, <2>2, <2>3
       DEF InitGlobals, At, GoTo, locals, Places, Gone, Fresh, Settled, Holding
<1>8. CASE Check(p)
  <2>1. object[p] = name /\ Outside # shm[name].owner /\ name \in Objects
    BY <1>0, <1>4, <1>8, ObjectsFacts DEF Check, At, GlobalsType, None, Outside
  <2>2. shm[name].owner = p => shm[name].lastId = 0
    BY <1>0, <1>8 DEF LeadOkAt, Check, At, Globals
  <2> QED
    BY <1>0, <1>2, <1>4, <1>8, <2>1, <2>2
       DEF Check, At, GoTo, locals, Places, Gone, Fresh, Settled, Holding
<1>9. CASE Lock(p) \/ Count(p) \/ Take(p) \/ Unlock(p) \/ InitCommunication(p)
  <2>1. /\ object[p] = name /\ name \in Objects /\ shm[name].owner = p /\ shm[name].lastId = 0
        /\ name' = name /\ UNCHANGED <<parent, children, object>>
        /\ pc[p] \in {"lock", "count", "take", "unlock", "start"}
    BY <1>0, <1>3, <1>9 DEF Settled, Lock, Count, Take, Unlock, InitCommunication, At, locals
  <2>2. \A o \in Objects : shm'[o].owner = shm[o].owner /\ shm'[o].lastId = shm[o].lastId
    BY <1>0, <1>9, <2>1, SharedChanges DEF Take, SameOwners, SameIds
  <2>3. pc'[p] \in Holding => shm'[name'].lock = p
    <3>1. pc[p] \in Holding => shm[name].lock = p
      BY DEF LifeInv, LockOk
    <3> QED
      BY <1>0, <1>4, <1>9, <2>1, <3>1, SharedChanges
         DEF Lock, Count, Take, Unlock, InitCommunication, At, GoTo, Holding, SameLocks
  <2>4. id'[p] = 0
    BY <1>0, <1>4, <1>9
       DEF Lock, Count, Take, Unlock, InitCommunication, At, locals, Fresh
  <2>5. /\ \A q \in Pids : q # p => pc'[q] = pc[q]
        /\ pc'[p] \in {"count", "take", "unlock", "start", "fork"}
        /\ pc'[p] \in Fresh \/ main'[p]
    BY <1>0, <1>4, <1>9, <2>1
       DEF Lock, Count, Take, Unlock, InitCommunication, At, GoTo, locals, Fresh
  <2> QED
    BY <1>2, <1>4, <2>1, <2>2, <2>3, <2>4, <2>5 DEF Places, Gone
<1> QED
  BY <1>5, <1>6, <1>7, <1>8, <1>9

-----------------------------------------------------------------------------
(* Followers.                                                               *)

\* A step of follower q, which may be its last.
LEMMA FollowerKeeps ==
  ASSUME LifeInv, TypeOK', NEW q \in Pids, Follower(q), name' = name,
         UNCHANGED <<children, reached>>,
         \A r \in Pids : r # q => /\ pc'[r] = pc[r] /\ object'[r] = object[r]
                                  /\ id'[r] = id[r] /\ main'[r] = main[r]
                                  /\ Alive(r) => parent'[r] = parent[r],
         SameOwners,
         \/ shm'[name].lastId = shm[name].lastId
         \/ pc[q] = "count" /\ pc'[q] = "take" /\ shm'[name].lastId = shm[name].lastId + 1,
         pc'[q] = "take" => pc[q] = "count" /\ shm'[name].lastId # shm[name].lastId,
         \/ pc'[q] = "dead"
         \/ /\ parent'[q] = parent[q] /\ ~main'[q] /\ object'[q] = name
            /\ pc'[q] \in Following \ {"open"},
         pc[q] \in Numbered => pc'[q] \in Numbered \cup {"dead"},
         pc[q] = "take" => pc'[q] \in {"unlock", "dead"},
         pc'[q] \in Numbered /\ pc[q] \in Numbered => id'[q] = id[q],
         pc'[q] \in Numbered /\ pc[q] \notin Numbered =>
           pc[q] = "take" /\ id'[q] = shm[name].lastId,
         LockOk'
  PROVE  LifeInv'
<1> DEFINE last == shm[name].lastId
           next == shm'[name].lastId
<1>0. /\ TypeOK /\ FollowOkAt(q) /\ ~main[q] /\ pc[q] \in Following /\ name \in Objects
      /\ Alive(q) /\ last \in Nat /\ next \in Nat /\ N \in Nat
  <2>1. /\ TypeOK /\ FollowOkAt(q) /\ ~main[q] /\ pc[q] \in Following /\ name \in Objects
        /\ Alive(q)
    BY FollowFacts DEF LifeInv
  <2> QED
    BY <2>1, ObjectsFacts DEF TypeOK
<1>1. NewcomersOk'
  <2>1. pc'[q] \notin {"unborn", "open"}
    BY DEF Following, Numbered
  <2>2. \A r \in Pids : r # q => pc'[r] = pc[r]
    OBVIOUS
  <2>3. \A o \in Objects : shm'[o].owner \in {shm[o].owner, q}
    BY DEF SameOwners
  <2> QED
    BY <2>1, <2>2, <2>3, NewcomersKeep DEF LifeInv
<1>2. ~Lead(q)' /\ \A r \in Pids : r # q => Lead(r)' = Lead(r) /\ Alive(r)' = Alive(r)
  <2>1. ~Lead(q)'
    <3>1. parent[q] = Outside => pc'[q] \notin Fresh
      BY <1>0 DEF FollowOkAt, Numbered, Fresh
    <3> QED
      BY <3>1 DEF Lead, Alive, Gone
  <2> QED
    BY <2>1 DEF Lead, Alive
<1>3. ASSUME NEW p \in Pids, Lead(p)
      PROVE  /\ p # q /\ parent[q] = p /\ LeadOkAt(p) /\ pc[p] \in Mothering
             /\ object[p] = name
  <2>1. p # q /\ LeadOkAt(p) /\ pc[p] \in Places
    BY <1>3, LeadFacts DEF Follower
  <2>2. parent[q] = p
    BY <1>0, <1>3 DEF FollowOkAt
  <2>3. pc[p] \in Mothering
    BY <1>0, <2>2, ObjectsFacts DEF FollowOkAt
  <2> QED
    BY <2>1, <2>2, <2>3 DEF LeadOkAt, Mothering
<1>4. ASSUME NEW p \in Pids, Lead(p)
      PROVE  Drawn(children[p], next, pc')
  <2>1. /\ Drawn(children[p], last, pc) /\ IsFiniteSet(children[p])
    BY <1>3, <1>4 DEF LeadOkAt, Settled, Mothering
  <2>2. \A r \in children[p] : pc[r] \in Counted => pc'[r] \in Counted
    <3>1. children[p] \subseteq Pids
      BY <1>0 DEF TypeOK
    <3>2. pc[q] \in Counted => pc'[q] \in Counted
      BY <1>0 DEF Counted, Numbered, Alive, Gone
    <3> QED
      BY <3>1, <3>2
  <2>3. CASE next = last
    BY <2>1, <2>2, <2>3, DrawnStays
  <2>4. CASE next # last
    <3>1. /\ pc[q] = "count" /\ pc'[q] = "take" /\ next = last + 1
      BY <2>4
    <3>2. q \in children[p]
      BY <1>0, <1>3, <1>4, <3>1, ObjectsFacts DEF FollowOkAt
    <3>3. pc[q] \notin Counted /\ pc'[q] \in Counted
      BY <3>1 DEF Counted, Numbered
    <3> HIDE DEF last, next
    <3> QED
      BY <2>1, <2>2, <3>1, <3>2, <3>3, DrawnAgain
  <2> QED
    BY <2>3, <2>4
<1>5. ASSUME NEW p \in Pids, Lead(p)'
      PROVE  LeadOkAt(p)'
  <2>1. Lead(p) /\ p # q
    BY <1>2, <1>5
  <2>2. /\ LeadOkAt(p) /\ pc[p] \in Mothering /\ object[p] = name
        /\ Drawn(children[p], next, pc')
    BY <1>3, <1>4, <2>1
  <2>3. /\ pc'[p] = pc[p] /\ object'[p] = object[p] /\ id'[p] = id[p]
        /\ shm'[name].owner = shm[name].owner
    BY <2>1, <1>0 DEF SameOwners
  <2> QED
    BY <2>2, <2>3 DEF LeadOkAt, Early, Fresh, Settled, Mothering
<1>6. next >= last /\ (next # last => next < N)
  <2>1. CASE next = last
    BY <1>0, <2>1
  <2>2. CASE next # last
    <3>1. next = last + 1 /\ pc[q] = "count"
      BY <2>2
    <3>2. PICK p \in Pids : Lead(p)
      <4>1. parent[q] # Outside /\ parent[q] \in Pids \cup {Outside}
        BY <1>0, <3>1 DEF FollowOkAt, Numbered, TypeOK
      <4> QED
        BY <4>1, <1>0 DEF FollowOkAt
    <3>3. /\ Drawn(children[p], next, pc') /\ IsFiniteSet(children[p])
          /\ Cardinality(children[p]) <= N - 1 /\ N - 1 \in Nat
      BY <1>3, <1>4, <3>2, ObjectsFacts DEF LeadOkAt
    <3>4. next <= N - 1
      <4> HIDE DEF next
      <4> QED
        BY <1>0, <3>3, DrawnBound
    <3> QED
      BY <1>0, <3>1, <3>3, <3>4
  <2> QED
    BY <2>1, <2>2
<1>7. \A r \in Pids : r # q /\ pc[r] \in Holding => pc[q] \notin Holding
  BY DEF LifeInv, LockOk
<1>8. ASSUME NEW r \in Pids, Follower(r)'
      PROVE  FollowOkAt(r)'
  <2>1. CASE r # q
    <3>1. /\ Follower(r) /\ Alive(r)
          /\ pc'[r] = pc[r] /\ object'[r] = object[r] /\ id'[r] = id[r]
          /\ main'[r] = main[r] /\ parent'[r] = parent[r]
      BY <1>2, <1>8, <2>1 DEF Follower
    <3>2. FollowOkAt(r)
      BY <3>1, FollowFacts
    <3>3. \A p \in Pids : Lead(p)' => parent'[r] = p
      BY <3>1, <3>2, <1>2 DEF FollowOkAt
    <3>4. ASSUME parent'[r] # Outside
          PROVE  /\ pc'[r] \in Following
                 /\ \E p \in Pids : /\ p = parent'[r] /\ Lead(p)'
                                    /\ pc'[p] \in Mothering /\ r \in children'[p]
      <4>1. PICK p \in Pids : /\ p = parent[r] /\ Lead(p)
                              /\ pc[p] \in Mothering /\ r \in children[p]
        BY <3>1, <3>2, <3>4 DEF FollowOkAt
      <4>2. p # q /\ Lead(p)' /\ pc'[p] = pc[p]
        BY <4>1, <1>2, <1>3
      <4>3. pc'[r] \in Following
        BY <3>1, <3>2, <3>4 DEF FollowOkAt
      <4> QED
        BY <3>1, <4>1, <4>2, <4>3
    <3>5. pc[r] \in Numbered => id[r] \in 1..next /\ next < N
      BY <3>2, <1>0, <1>6 DEF FollowOkAt, TypeOK
    <3>6. pc[r] = "take" => next \in 1..(N - 1)
      BY <3>2, <1>0, <1>6 DEF FollowOkAt
    <3> QED
      BY <3>1, <3>2, <3>3, <3>4, <3>5, <3>6 DEF FollowOkAt
  <2>2. CASE r = q
    <3>1. /\ parent'[q] = parent[q] /\ ~main'[q] /\ object'[q] = name
          /\ pc'[q] \in Following \ {"open"}
      BY <1>8, <2>2 DEF Follower, Alive, Gone
    <3>2. \A p \in Pids : Lead(p)' => parent'[q] = p
      BY <3>1, <1>2, <1>3
    <3>3. ASSUME parent'[q] # Outside
          PROVE  /\ pc'[q] \in Following
                 /\ \E p \in Pids : /\ p = parent'[q] /\ Lead(p)'
                                    /\ pc'[p] \in Mothering /\ q \in children'[p]
      <4>1. PICK p \in Pids : /\ p = parent[q] /\ Lead(p)
                              /\ pc[p] \in Mothering /\ q \in children[p]
        BY <3>1, <3>3, <1>0 DEF FollowOkAt
      <4>2. p # q /\ Lead(p)' /\ pc'[p] = pc[p]
        BY <4>1, <1>2, <1>3
      <4> QED
        BY <3>1, <4>1, <4>2
    <3>4. parent'[q] = Outside => pc'[q] \in Numbered
      BY <3>1, <1>0 DEF FollowOkAt, Following, Numbered
    <3>5. pc'[q] \in Numbered => id'[q] \in 1..next /\ next < N
      <4>1. CASE pc[q] \in Numbered
        BY <4>1, <1>0, <1>6 DEF FollowOkAt, Numbered
      <4>2. CASE pc[q] \notin Numbered
        BY <4>2, <1>0, <1>6 DEF FollowOkAt
      <4> QED
        BY <4>1, <4>2
    <3>6. pc'[q] = "take" => next \in 1..(N - 1)
      BY <1>0, <1>6
    <3> QED
      BY <2>2, <3>1, <3>2, <3>3, <3>4, <3>5, <3>6, <1>0 DEF FollowOkAt
  <2> QED
    BY <2>1, <2>2
<1>9. LeadOnce'
  BY <1>2 DEF LeadOnce, LifeInv
<1>10. IdsOk'
  <2>1. SUFFICES ASSUME NEW s \in Pids, NEW r \in Pids, Follower(s)', Follower(r)',
                        pc'[r] \in Numbered
                 PROVE  /\ pc'[s] \in Numbered /\ id'[s] = id'[r] => s = r
                        /\ pc'[s] = "take" => id'[r] < next
    BY DEF IdsOk
  <2>2. \A t \in Pids : Follower(t)' => Follower(t)
    BY <1>2 DEF Follower
  <2>3. \A t \in Pids : Follower(t) /\ pc[t] \in Numbered => id[t] \in 1..last
    BY FollowFacts DEF FollowOkAt
  <2>4. /\ \A t \in Pids : Follower(t) /\ pc[t] \in Numbered /\ pc[r] \in Numbered
               /\ id[t] = id[r] => t = r
        /\ \A t \in Pids : Follower(t) /\ pc[t] = "take" /\ pc[r] \in Numbered => id[r] < last
        /\ \A t \in Pids : Follower(t) /\ pc[t] \in Numbered /\ pc[s] = "take" => TRUE
        /\ \A t \in Pids : Follower(t) /\ pc[t] \in Numbered /\ pc[q] = "take" => id[t] < last
    BY <2>1, <2>2 DEF LifeInv, IdsOk
  <2>5. \A t \in Pids : /\ id[t] \in Nat /\ id'[t] \in Nat
    BY <1>0 DEF TypeOK
  <2>6. pc'[s] \in Numbered /\ id'[s] = id'[r] => s = r
    <3>1. CASE r # q /\ s # q
      BY <2>1, <2>2, <2>4, <3>1
    <3>2. CASE r = q /\ s # q
      BY <2>1, <2>2, <2>4, <2>5, <1>0, <3>2
    <3>3. CASE r # q /\ s = q
      BY <2>1, <2>2, <2>4, <2>5, <1>0, <3>3
    <3> QED
      BY <3>1, <3>2, <3>3
  <2>7. pc'[s] = "take" => id'[r] < next
    <3>1. CASE s # q /\ r # q
      BY <2>1, <2>2, <2>4, <2>5, <1>0, <1>6, <3>1
    <3>2. CASE s # q /\ r = q
      <4>1. pc'[s] = "take" => pc[s] \in Holding /\ pc[q] \notin Holding
        BY <1>7, <3>2 DEF Holding
      <4>2. pc'[s] = "take" => pc[q] \in Numbered /\ id'[r] = id[r]
        BY <2>1, <3>2, <4>1 DEF Holding
      <4> QED
        BY <2>1, <2>2, <2>4, <2>5, <1>0, <1>6, <3>2, <4>2
    <3>3. CASE s = q
      <4>1. pc'[q] = "take" => next = last + 1 /\ r # q
        BY <2>1 DEF Numbered
      <4> QED
        BY <2>1, <2>2, <2>3, <2>5, <1>0, <3>3, <4>1
    <3> QED
      BY <3>1, <3>2, <3>3
  <2> QED
    BY <2>6, <2>7
<1> QED
  BY <1>1, <1>5, <1>8, <1>9, <1>10 DEF LifeInv

\* A follower starts, draws its id, and ends.
LEMMA FollowerSteps ==
  ASSUME LifeInv, TypeOK', NEW q \in Pids, Follower(q),
         Open(q) \/ Create(q) \/ InitGlobals(q) \/ Check(q) \/ Lock(q) \/ Count(q) \/ Take(q)
           \/ Unlock(q) \/ ReadExit(q) \/ Resume(q) \/ Leave(q) \/ Uninit(q) \/ Crash(q)
  PROVE  LifeInv'
<1>0. /\ TypeOK /\ FollowOkAt(q) /\ ~main[q] /\ pc[q] \in Following /\ name \in Objects
      /\ name # None /\ Alive(q) /\ (pc[q] # "open" => object[q] = name)
  BY FollowFacts DEF LifeInv, FollowOkAt
<1>1. /\ pc \in [Pids -> Places] /\ object \in [Pids -> Objects \cup {None}]
      /\ id \in [Pids -> Nat] /\ main \in [Pids -> BOOLEAN]
      /\ parent \in [Pids -> Pids \cup {Outside}]
      /\ shm \in [Objects -> GlobalsType] /\ name # None /\ shm[name].lastId \in Nat
      /\ \A r \in Pids : r # None
  BY <1>0, ObjectsFacts DEF TypeOK, GlobalsType
<1>2. /\ \A r \in Pids : pc[r] \in Holding => shm[name].lock = r
      /\ \A r \in Pids : pc[r] \in Holding /\ pc[q] \in Holding => r = q
  BY DEF LifeInv, LockOk
<1>3. ASSUME /\ name' = name /\ UNCHANGED <<children, reached>>
             /\ \A r \in Pids : r # q => pc'[r] = pc[r]
             /\ SameOwners /\ SameIds
             /\ pc'[q] # "take" /\ (pc'[q] \in Holding => pc[q] \in Holding)
             /\ pc[q] \in Numbered => pc'[q] \in Numbered \cup {"dead"}
             /\ pc[q] = "take" => pc'[q] \in {"unlock", "dead"}
             /\ pc'[q] \in Numbered /\ pc[q] \in Numbered => id'[q] = id[q]
             /\ pc'[q] \in Numbered /\ pc[q] \notin Numbered =>
                  pc[q] = "take" /\ id'[q] = shm[name].lastId
             /\ \A r \in Pids : r # q => /\ object'[r] = object[r] /\ id'[r] = id[r]
                                         /\ main'[r] = main[r]
                                         /\ Alive(r) => parent'[r] = parent[r]
             /\ \/ pc'[q] = "dead"
                \/ /\ parent'[q] = parent[q] /\ ~main'[q] /\ object'[q] = name
                   /\ pc'[q] \in Following \ {"open"}
             /\ SameLocks \/ Unlock(q)
      PROVE  LifeInv'
  <2>1. LockOk'
    <3>1. CASE SameLocks
      BY <1>0, <1>2, <1>3, <3>1 DEF LockOk, SameLocks
    <3>2. CASE Unlock(q)
      <4>1. pc[q] \in Holding /\ pc'[q] \notin Holding
        BY <1>0, <1>1, <3>2 DEF Unlock, At, GoTo, Holding
      <4> QED
        BY <4>1, <1>2, <1>3 DEF LockOk
    <3> QED
      BY <1>3, <3>1, <3>2
  <2>2. shm'[name].lastId = shm[name].lastId
    BY <1>0, <1>3 DEF SameIds
  <2> QED
    BY <1>3, <2>1, <2>2, FollowerKeeps
<1>4. CASE Open(q) \/ Check(q)
  <2>1. pc[q] = "check" => shm[object[q]].owner = parent[q]
    <3>1. ASSUME pc[q] = "check"
          PROVE  \E p \in Pids : p = parent[q] /\ Lead(p) /\ pc[p] \in Mothering
      BY <1>0, <3>1 DEF FollowOkAt, Numbered
    <3> QED
      BY <1>0, <3>1, LeadFacts DEF LeadOkAt, Settled, Mothering
  <2>2. /\ pc' = [pc EXCEPT ![q] = IF pc[q] = "open" THEN "check" ELSE "lock"]
        /\ pc[q] \in {"open", "check"} /\ object' = [object EXCEPT ![q] = name]
    BY <1>0, <1>1, <1>4, <2>1 DEF Open, Check, At, GoTo, locals
  <2>3. UNCHANGED <<name, shm, parent, id, main, children, reached>>
    BY <1>4 DEF Open, Check, locals
  <2> QED
    BY <1>0, <1>1, <1>3, <2>2, <2>3
       DEF SameOwners, SameIds, SameLocks, Holding, Numbered, Following
<1>5. CASE Take(q) \/ Unlock(q)
  <2>1. object[q] = name /\ pc[q] \in {"take", "unlock"}
    BY <1>0, <1>5 DEF Take, Unlock, At
  <2>2. SameOwners /\ SameIds /\ (SameLocks \/ Unlock(q))
    BY <1>0, <1>5, <2>1, SharedChanges DEF Take, SameOwners, SameIds, SameLocks
  <2>3. /\ pc' = [pc EXCEPT ![q] = IF pc[q] = "take" THEN "unlock" ELSE "run"]
        /\ id' = [id EXCEPT ![q] = IF pc[q] = "take" THEN shm[name].lastId ELSE @]
        /\ UNCHANGED <<name, parent, object, main, children, reached>>
    BY <1>0, <1>1, <1>5, <2>1 DEF Take, Unlock, At, GoTo, locals
  <2> QED
    BY <1>0, <1>1, <1>3, <2>1, <2>2, <2>3 DEF Holding, Numbered, Following
<1>6. CASE ReadExit(q) \/ Resume(q) \/ Leave(q)
  <2>1. object[q] = name /\ pc[q] \in {"run", "held"}
    BY <1>0, <1>6 DEF ReadExit, Resume, Leave, At
  <2>2. SameOwners /\ SameIds /\ SameLocks
    BY <1>0, <1>6, <2>1, SharedChanges DEF Resume, Leave, SameOwners, SameIds, SameLocks
  <2>3. PICK place \in {"exit", "held"} : pc' = [pc EXCEPT ![q] = place]
    BY <1>6 DEF ReadExit, Resume, Leave, GoTo
  <2>4. UNCHANGED <<name, parent, object, id, main, children, reached>>
    BY <1>6 DEF ReadExit, Resume, Leave, locals
  <2> QED
    BY <1>0, <1>1, <1>3, <2>1, <2>2, <2>3, <2>4 DEF Holding, Numbered, Following
<1>7. CASE Uninit(q) \/ Crash(q)
  <2>1. Die(q) /\ name' = name /\ UNCHANGED <<shm, id, main, reached, children>>
    BY <1>0, <1>7 DEF Uninit, Crash
  <2>2. \A r \in Pids : r # q /\ Alive(r) => parent[r] # q
    <3>1. TAKE r \in Pids
    <3>2. CASE Lead(r)
      BY <3>2, ObjectsFacts DEF Lead
    <3>3. CASE Follower(r)
      BY <3>3, FollowFacts, ObjectsFacts DEF FollowOkAt, Follower
    <3> QED
      BY <3>2, <3>3 DEF Follower
  <2>3. /\ pc'[q] = "dead"
        /\ \A r \in Pids : r # q => pc'[r] = pc[r] /\ object'[r] = object[r]
        /\ \A r \in Pids : r # q /\ Alive(r) => parent'[r] = parent[r]
    BY <1>1, <2>1, <2>2 DEF Die, GoTo
  <2>4. SameOwners /\ SameIds /\ SameLocks
    BY <2>1 DEF SameOwners, SameIds, SameLocks
  <2> QED
    BY <1>3, <2>1, <2>3, <2>4 DEF Holding, Numbered
<1>8. CASE Lock(q)
  <2>1. /\ object[q] = name /\ pc[q] = "lock" /\ shm[name].lock = None
        /\ pc' = [pc EXCEPT ![q] = "count"]
        /\ UNCHANGED <<name, parent, object, id, main, children, reached>>
    BY <1>0, <1>8 DEF Lock, At, GoTo, locals
  <2>2. SameOwners /\ SameIds /\ shm'[name].lock = q
    BY <1>0, <1>8, <2>1, SharedChanges
  <2>3. /\ pc'[q] = "count" /\ \A r \in Pids : r # q => pc'[r] = pc[r]
    BY <1>1, <2>1
  <2>4. LockOk'
    BY <1>1, <1>2, <2>1, <2>2, <2>3 DEF LockOk
  <2>5. shm'[name].lastId = shm[name].lastId
    BY <1>0, <2>2 DEF SameIds
  <2>6. \A r \in Pids : r # q => /\ pc'[r] = pc[r] /\ object'[r] = object[r]
                                 /\ id'[r] = id[r] /\ main'[r] = main[r]
                                 /\ Alive(r) => parent'[r] = parent[r]
    BY <2>1, <2>3
  <2>7. /\ parent'[q] = parent[q] /\ ~main'[q] /\ object'[q] = name
        /\ pc'[q] \in Following \ {"open"} /\ pc'[q] # "take"
        /\ pc[q] \notin Numbered /\ pc[q] # "take" /\ pc'[q] \notin Numbered
    BY <1>0, <2>1, <2>3 DEF Following, Numbered
  <2> QED
    BY <2>1, <2>2, <2>4, <2>5, <2>6, <2>7, FollowerKeeps
<1>9. CASE Count(q)
  <2>1. object[q] = name /\ pc[q] = "count"
    BY <1>0, <1>9 DEF Count, At
  <2>2. shm[name].owner # q
    <3>1. PICK p \in Pids : p = parent[q] /\ Lead(p) /\ pc[p] \in Mothering
      BY <1>0, <2>1 DEF FollowOkAt, Numbered
    <3>2. shm[name].owner = p /\ p # q
      BY <3>1, LeadFacts DEF LeadOkAt, Settled, Mothering, Follower
    <3> QED
      BY <3>2
  <2>3. /\ main' = [main EXCEPT ![q] = FALSE] /\ pc' = [pc EXCEPT ![q] = "take"]
        /\ UNCHANGED <<name, parent, object, id, children, reached>>
    BY <1>9, <2>1, <2>2 DEF Count, GoTo
  <2>4. /\ SameOwners /\ SameLocks /\ shm'[name].lastId = shm[name].lastId + 1
    BY <1>0, <1>9, <2>1, <2>2, SharedChanges
  <2>5. /\ pc'[q] = "take" /\ ~main'[q]
        /\ \A r \in Pids : r # q => pc'[r] = pc[r] /\ main'[r] = main[r]
    BY <1>1, <2>3
  <2>6. LockOk'
    BY <1>0, <1>2, <2>1, <2>3, <2>4, <2>5 DEF LockOk, SameLocks, Holding
  <2>7. \A r \in Pids : r # q => /\ pc'[r] = pc[r] /\ object'[r] = object[r]
                                 /\ id'[r] = id[r] /\ main'[r] = main[r]
                                 /\ Alive(r) => parent'[r] = parent[r]
    BY <2>3, <2>5
  <2>8. /\ parent'[q] = parent[q] /\ object'[q] = name /\ pc'[q] \in Following \ {"open"}
        /\ pc[q] \notin Numbered /\ pc[q] # "take" /\ pc'[q] \notin Numbered
        /\ shm[name].lastId + 1 # shm[name].lastId
    BY <1>1, <2>1, <2>3, <2>5 DEF Following, Numbered
  <2> QED
    BY <2>1, <2>3, <2>4, <2>5, <2>6, <2>7, <2>8, FollowerKeeps
<1>10. CASE Create(q) \/ InitGlobals(q)
  BY <1>0, <1>10 DEF Create, InitGlobals, At, Following, Numbered
<1> QED
  BY <1>4, <1>5, <1>6, <1>7, <1>8, <1>9, <1>10

-----------------------------------------------------------------------------
(* Main with followers.                                                     *)

\* While main has started others they are its children.
LEMMA Children ==
  ASSUME LifeInv, NEW p \in Pids, Lead(p), NEW q \in Pids, Alive(q), q # p
  PROVE  /\ Follower(q) /\ FollowOkAt(q) /\ parent[q] = p /\ q \in children[p]
         /\ pc[q] \in Following /\ (Starting(q) \/ pc[q] \in Numbered)
         /\ pc[p] \in Mothering
<1>1. Follower(q)
  BY DEF LifeInv, LeadOnce, Follower
<1>2. FollowOkAt(q) /\ pc[q] \in Following /\ parent[q] = p
  BY <1>1, FollowFacts DEF FollowOkAt
<1>3. q \in children[p] /\ pc[p] \in Mothering
  BY <1>2, ObjectsFacts DEF FollowOkAt
<1>4. Starting(q) \/ pc[q] \in Numbered
  BY <1>2 DEF Starting, Following, Numbered
<1> QED
  BY <1>1, <1>2, <1>3, <1>4

\* Main goes on, and sends exit messages.
LEMMA GoesOnKeeps ==
  ASSUME LifeInv, TypeOK', NEW p \in Pids, Lead(p),
         AllForked(p) \/ Finish(p) \/ Post(p) \/ AllTold(p) \/ Spin(p)
  PROVE  LifeInv'
<1>0. /\ TypeOK /\ LeadOkAt(p) /\ Alive(p) /\ parent[p] = Outside /\ main[p]
      /\ pc[p] \in {"fork", "run", "post"} /\ object[p] = name /\ name \in Objects
  BY LeadFacts DEF LifeInv, AllForked, Finish, Post, AllTold, Spin, At, Fresh
<1>1. /\ SameOwners /\ SameIds /\ SameLocks
      /\ UNCHANGED <<name, parent, object, id, main, children>>
  BY <1>0, SharedChanges
     DEF AllForked, Finish, Post, AllTold, Spin, locals, SameOwners, SameIds, SameLocks
<1>2. /\ pc'[p] \in {"run", "post", "spin", "wait"} /\ \A q \in Pids : q # p => pc'[q] = pc[q]
  BY <1>0 DEF AllForked, Finish, Post, AllTold, Spin, At, GoTo, TypeOK
<1>3. \A q \in Pids : Lead(q)' = Lead(q) /\ Follower(q)' = Follower(q)
  BY <1>0, <1>1, <1>2 DEF Lead, Follower, Alive, Gone, Fresh
<1>4. /\ shm'[name].owner = shm[name].owner /\ shm'[name].lastId = shm[name].lastId
      /\ shm'[name].lock = shm[name].lock
  BY <1>0, <1>1 DEF SameOwners, SameIds, SameLocks
<1>5. NewcomersOk'
  BY <1>1, <1>2 DEF LifeInv, NewcomersOk, SameOwners
<1>6. ASSUME NEW q \in Pids, Lead(q)'
      PROVE  LeadOkAt(q)'
  <2>1. q = p
    BY <1>3, <1>6 DEF LifeInv, LeadOnce
  <2>3. Drawn(children[p], shm[name].lastId, pc')
    <3>1. Drawn(children[p], shm[name].lastId, pc) /\ children[p] \subseteq Pids
      BY <1>0 DEF LeadOkAt, Settled, TypeOK
    <3>2. p \notin children[p]
      BY <1>0 DEF LeadOkAt
    <3> QED
      BY <3>1, <3>2, <1>2, DrawnStays
  <2> QED
    BY <1>0, <1>1, <1>2, <1>4, <2>1, <2>3 DEF LeadOkAt, Early, Fresh, Settled
<1>7. ASSUME NEW q \in Pids, Follower(q)'
      PROVE  FollowOkAt(q)'
  <2>1. Follower(q) /\ q # p /\ FollowOkAt(q) /\ pc'[q] = pc[q]
    BY <1>2, <1>3, <1>7, FollowFacts DEF Follower
  <2>2. \A r \in Pids : Lead(r)' => parent'[q] = r
    BY <1>1, <1>3, <2>1 DEF FollowOkAt
  <2>3. ASSUME parent'[q] # Outside
        PROVE  /\ pc'[q] \in Following
               /\ \E r \in Pids : /\ r = parent'[q] /\ Lead(r)'
                                  /\ pc'[r] \in Mothering /\ q \in children'[r]
    BY <1>1, <1>2, <1>3, <2>1, <2>3 DEF FollowOkAt, Mothering
  <2> QED
    BY <1>1, <1>4, <2>1, <2>2, <2>3 DEF FollowOkAt
<1>8. LeadOnce' /\ LockOk'
  BY <1>1, <1>2, <1>3, <1>4 DEF LifeInv, LeadOnce, LockOk, Holding
<1>9. IdsOk'
  BY <1>0, <1>1, <1>2, <1>3, <1>4 DEF LifeInv, IdsOk, Numbered, Follower
<1> QED
  BY <1>5, <1>6, <1>7, <1>8, <1>9 DEF LifeInv

\* Main starts the next follower, which executes the program.
LEMMA ForkKeeps ==
  ASSUME LifeInv, CleanFaults, TypeOK', NEW p \in Pids, Lead(p), Fork(p)
  PROVE  LifeInv'
<1>0. /\ TypeOK /\ NewcomersOk /\ LeadOkAt(p) /\ Alive(p) /\ parent[p] = Outside /\ main[p]
      /\ pc[p] = "fork" /\ object[p] = name /\ name \in Objects
  BY LeadFacts DEF LifeInv, Fork, At, Fresh
<1>1. PICK q \in Available :
        /\ children' = [children EXCEPT ![p] = @ \cup {q}, ![q] = {}]
        /\ Begin(q, p) /\ GoTo(q, "open")
        /\ reached' = [reached EXCEPT ![p] = @ + 1, ![q] = 0]
  BY DEF Fork, CleanFaults
<1>2. q \in Pids /\ pc[q] = "unborn" /\ q # p /\ UNCHANGED <<name, shm>>
  BY <1>0 DEF Available, CleanFaults, Fork
<1>3. /\ pc'[q] = "open" /\ parent'[q] = p /\ ~main'[q]
      /\ \A r \in Pids : r # q => /\ pc'[r] = pc[r] /\ parent'[r] = parent[r]
                                  /\ object'[r] = object[r] /\ id'[r] = id[r]
                                  /\ main'[r] = main[r]
      /\ children'[p] = children[p] \cup {q} /\ reached'[p] = reached[p] + 1
      /\ \A r \in Pids : r # p => children'[r] \in {children[r], {}}
      /\ children[p] \subseteq Pids /\ reached[p] \in Nat
  BY <1>0, <1>1, <1>2, ObjectsFacts DEF Begin, GoTo, TypeOK
<1>4. /\ \A r \in Pids : Lead(r)' = Lead(r)
      /\ \A r \in Pids : r # q => Follower(r)' = Follower(r)
      /\ q \notin children[p] /\ p # Outside
  BY <1>0, <1>2, <1>3, ObjectsFacts DEF Lead, Follower, Alive, Gone, NewcomersOk
<1>5. NewcomersOk'
  BY <1>0, <1>2, <1>3 DEF NewcomersOk
<1>6. ASSUME NEW r \in Pids, Lead(r)'
      PROVE  LeadOkAt(r)'
  <2>1. r = p
    BY <1>4, <1>6 DEF LifeInv, LeadOnce
  <2>2. Drawn(children'[p], shm[name].lastId, pc')
    <3>1. Drawn(children[p], shm[name].lastId, pc)
      BY <1>0 DEF LeadOkAt, Settled
    <3>2. \A s \in children[p] : pc'[s] = pc[s]
      BY <1>3, <1>4
    <3>3. children[p] \subseteq children'[p]
      BY <1>3
    <3> QED
      BY <3>1, <3>2, <3>3, DrawnStays
  <2>3. /\ IsFiniteSet(children'[p]) /\ Cardinality(children'[p]) <= reached'[p]
        /\ Cardinality(children'[p]) <= N - 1
    <3>1. IsFiniteSet(children[p]) /\ Cardinality(children[p]) <= reached[p]
      BY <1>0 DEF LeadOkAt
    <3>2. /\ IsFiniteSet(children[p] \cup {q})
          /\ Cardinality(children[p] \cup {q}) = Cardinality(children[p]) + 1
      BY <3>1, <1>4, FS_AddElement
    <3>3. Cardinality(children[p]) \in Nat
      BY <3>1, FS_CardinalityType
    <3>4. reached'[p] <= N - 1
      BY <1>1, ObjectsFacts DEF TypeOK
    <3> QED
      BY <3>1, <3>2, <3>3, <3>4, <1>3, ObjectsFacts
  <2>4. p \notin children'[p] /\ pc'[p] = "fork" /\ id'[p] = 0
    BY <1>0, <1>2, <1>3 DEF LeadOkAt
  <2> QED
    BY <1>0, <1>2, <1>3, <2>1, <2>2, <2>3, <2>4 DEF LeadOkAt, Early, Fresh, Settled
<1>7. FollowOkAt(q)'
  <2>1. \A r \in Pids : Lead(r)' => r = p
    BY <1>4 DEF LifeInv, LeadOnce
  <2>2. Lead(p)' /\ pc'[p] = "fork" /\ q \in children'[p]
    BY <1>0, <1>2, <1>3, <1>4
  <2> QED
    BY <1>0, <1>2, <1>3, <1>4, <2>1, <2>2, ObjectsFacts
       DEF FollowOkAt, Following, Numbered, Mothering
<1>8. ASSUME NEW r \in Pids, Follower(r)', r # q
      PROVE  FollowOkAt(r)'
  <2>1. FollowOkAt(r)
    BY <1>4, <1>8, FollowFacts
  <2>2. \A s \in Pids : Lead(s)' => parent'[r] = s
    BY <1>3, <1>4, <1>8, <2>1 DEF FollowOkAt
  <2>3. ASSUME parent'[r] # Outside
        PROVE  /\ pc'[r] \in Following
               /\ \E s \in Pids : /\ s = parent'[r] /\ Lead(s)'
                                  /\ pc'[s] \in Mothering /\ r \in children'[s]
    <3>1. PICK s \in Pids : /\ s = parent[r] /\ Lead(s)
                            /\ pc[s] \in Mothering /\ r \in children[s]
      BY <1>3, <1>8, <2>1, <2>3 DEF FollowOkAt
    <3>2. s = p
      BY <3>1 DEF LifeInv, LeadOnce
    <3> QED
      BY <1>2, <1>3, <1>4, <1>8, <2>1, <2>3, <3>1, <3>2 DEF FollowOkAt
  <2> QED
    BY <1>2, <1>3, <1>8, <2>1, <2>2, <2>3 DEF FollowOkAt
<1>9. LeadOnce' /\ LockOk'
  BY <1>2, <1>3, <1>4 DEF LifeInv, LeadOnce, LockOk, Holding
<1>10. IdsOk'
  BY <1>2, <1>3, <1>4 DEF LifeInv, IdsOk, Numbered
<1> QED
  BY <1>5, <1>6, <1>7, <1>8, <1>9, <1>10 DEF LifeInv

\* Main has waited for its children.
LEMMA ReapKeeps ==
  ASSUME LifeInv, TypeOK', NEW p \in Pids, Lead(p), Reap(p)
  PROVE  LifeInv'
<1>0. /\ TypeOK /\ LeadOkAt(p) /\ Alive(p) /\ parent[p] = Outside /\ main[p] /\ pc[p] = "wait"
  BY LeadFacts DEF LifeInv, Reap, At, Fresh
<1>1. Alone(p)
  BY Children DEF Alone, Reap
<1>2. /\ UNCHANGED <<name, shm, parent, object, id, main, reached, children>>
      /\ pc'[p] = "exit" /\ \A q \in Pids : q # p => pc'[q] = pc[q]
  BY <1>0 DEF Reap, GoTo, locals, TypeOK
<1>3. NewcomersOk'
  BY <1>2 DEF LifeInv, NewcomersOk
<1>4. Alone(p)' /\ Lead(p)'
  BY <1>0, <1>1, <1>2 DEF Alone, Lead, Alive, Gone
<1>5. Drawn(children[p], shm[name].lastId, pc')
  <2>1. Drawn(children[p], shm[name].lastId, pc) /\ p \notin children[p]
        /\ children[p] \subseteq Pids
    BY <1>0 DEF LeadOkAt, Settled, TypeOK
  <2> QED
    BY <1>2, <2>1, DrawnStays
<1>6. LeadOkAt(p)'
  BY <1>0, <1>2, <1>4, <1>5 DEF LeadOkAt, Early, Fresh, Settled
<1> QED
  BY <1>2, <1>3, <1>4, <1>6, AloneKeeps DEF Holding

\* Main ends, or is killed when no follower is starting.
LEMMA MainEndKeeps ==
  ASSUME LifeInv, CleanFaults, TypeOK', NEW p \in Pids, Lead(p), Uninit(p) \/ Crash(p)
  PROVE  LifeInv'
<1>0. /\ TypeOK /\ NewcomersOk /\ LeadOkAt(p) /\ Alive(p) /\ parent[p] = Outside
  BY LeadFacts DEF LifeInv
<1>1. /\ Die(p) /\ UNCHANGED <<shm, id, main, reached, children>>
  BY DEF Uninit, Crash
<1>2. /\ pc'[p] = "dead" /\ \A q \in Pids : q # p => pc'[q] = pc[q] /\ object'[q] = object[q]
      /\ \A q \in Pids : parent[q] = p => parent'[q] = Outside
  BY <1>0, <1>1 DEF Die, GoTo, TypeOK
<1>3. NewcomersOk'
  BY <1>0, <1>1, <1>2 DEF NewcomersOk
<1>4. ~Alive(p)' /\ \A q \in Pids : q # p => Alive(q)' = Alive(q)
  BY <1>2 DEF Alive, Gone
<1>5. CASE Uninit(p)
  <2>1. Alone(p)
    BY <1>0, <1>5 DEF LeadOkAt, Uninit, At
  <2>2. Alone(p)'
    BY <1>4, <2>1 DEF Alone
  <2> QED
    BY <1>2, <1>3, <1>4, <2>2, AloneKeeps DEF Holding
<1>6. CASE Crash(p)
  <2>1. UNCHANGED name
    BY <1>6 DEF Crash
  <2>2. \A q \in children[p] : ~Starting(q)
    BY <1>0, <1>6 DEF Crash, CleanFaults
  <2>3. ASSUME NEW q \in Pids, Alive(q)'
        PROVE  /\ q # p /\ Follower(q) /\ FollowOkAt(q) /\ pc[q] \in Numbered
               /\ parent'[q] = Outside /\ ~Lead(q)'
    <3>1. /\ q # p /\ Alive(q)
      BY <1>4, <2>3
    <3>2. /\ Follower(q) /\ FollowOkAt(q) /\ pc[q] \in Numbered /\ parent[q] = p
      BY <2>2, <3>1, Children
    <3>3. ~Lead(q)'
      BY <1>1, <1>2, <3>1, <3>2 DEF Lead, FollowOkAt, Numbered, Fresh
    <3> QED
      BY <1>2, <3>1, <3>2, <3>3
  <2>4. \A q \in Pids : ~Lead(q)'
    BY <2>3 DEF Lead
  <2>5. ASSUME NEW q \in Pids, Follower(q)'
        PROVE  FollowOkAt(q)'
    BY <1>1, <1>2, <2>1, <2>3, <2>4, <2>5 DEF Follower, FollowOkAt, Numbered
  <2>6. LeadOnce' /\ LockOk'
    BY <1>1, <1>2, <2>1, <2>4 DEF LifeInv, LeadOnce, LockOk, Holding
  <2>7. IdsOk'
    BY <1>1, <1>2, <2>1, <2>3 DEF LifeInv, IdsOk, Follower
  <2> QED
    BY <1>3, <2>4, <2>5, <2>6, <2>7 DEF LifeInv
<1> QED
  BY <1>5, <1>6

-----------------------------------------------------------------------------
(* Every step.                                                              *)

LEMMA LeadKeeps ==
  ASSUME LifeInv, CleanFaults, TypeOK', NEW p \in Pids, Lead(p),
         Step(p) \/ Resume(p) \/ Leave(p) \/ Spin(p) \/ Crash(p)
  PROVE  LifeInv'
<1>1. id[p] = 0 /\ pc[p] # "held"
  BY LeadFacts DEF LeadOkAt
<1>2. ~ReadExit(p) /\ ~Leave(p) /\ ~Resume(p)
  BY <1>1 DEF ReadExit, Leave, Resume, At
<1> QED
  BY <1>2, EarlyKeeps, ForkKeeps, GoesOnKeeps, ReapKeeps, MainEndKeeps DEF Step

LEMMA FollowerStepsKeep ==
  ASSUME LifeInv, TypeOK', NEW q \in Pids, Follower(q),
         Step(q) \/ Resume(q) \/ Leave(q) \/ Spin(q) \/ Crash(q)
  PROVE  LifeInv'
<1>1. pc[q] \in Following /\ FollowOkAt(q)
  BY FollowFacts
<1>2. /\ ~InitCommunication(q) /\ ~Fork(q) /\ ~AllForked(q)
      /\ ~Post(q) /\ ~AllTold(q) /\ ~Spin(q) /\ ~Reap(q)
  BY <1>1 DEF InitCommunication, Fork, AllForked, Post, AllTold, Spin, Reap, At, Following,
              Numbered
<1>3. ~Finish(q)
  <2>1. pc[q] = "run" => id[q] # 0
    BY <1>1 DEF FollowOkAt, Numbered
  <2> QED
    BY <2>1 DEF Finish, At
<1> QED
  BY <1>2, <1>3, FollowerSteps DEF Step

LEMMA NextKeepsLife ==
  ASSUME LifeInv, CleanFaults, [Next]_vars
  PROVE  LifeInv'
<1>1. TypeOK'
  BY NextTypes DEF LifeInv
<1>2. CASE Next
  <2>1. PICK p \in Pids : Launch(p) \/ Step(p) \/ Resume(p) \/ Leave(p) \/ Spin(p) \/ Crash(p)
    BY <1>2 DEF Next
  <2>2. CASE Launch(p)
    BY <1>1, <2>2, LaunchKeeps
  <2>3. CASE Step(p) \/ Resume(p) \/ Leave(p) \/ Spin(p) \/ Crash(p)
    <3>1. Alive(p)
      <4>1. CASE Crash(p)
        BY <4>1 DEF Crash
      <4>2. CASE Resume(p) \/ Leave(p) \/ Spin(p)
        BY <4>2 DEF Resume, Leave, Spin, At, Alive, Gone
      <4>3. CASE Step(p)
        BY <4>3 DEF Step, Open, Create, InitGlobals, Check, Lock, Count, Take, Unlock,
                    InitCommunication, Fork, AllForked, Finish, Post, AllTold, Reap, ReadExit,
                    Uninit, At, Alive, Gone
      <4> QED
        BY <2>3, <4>1, <4>2, <4>3
    <3> QED
      BY <1>1, <2>3, <3>1, LeadKeeps, FollowerStepsKeep DEF Follower
  <2> QED
    BY <2>1, <2>2, <2>3
<1>3. CASE UNCHANGED vars
  BY <1>3 DEF vars, locals, LifeInv, TypeOK, NewcomersOk, Lead, Follower, Alive, Alone, LeadOkAt,
              FollowOkAt, LeadOnce, LockOk, IdsOk, Drawn
<1> QED
  BY <1>2, <1>3

LEMMA InitLife == Init => LifeInv
<1> SUFFICES ASSUME Init PROVE LifeInv
  OBVIOUS
<1>1. TypeOK
  BY InitTypes
<1>2. \A p \in Pids : pc[p] = "unborn" /\ ~Alive(p) /\ ~Lead(p) /\ ~Follower(p)
  BY DEF Init, Alive, Gone, Lead, Follower
<1>3. NewcomersOk
  BY ObjectsFacts DEF Init, NewcomersOk, Globals
<1> QED
  BY <1>1, <1>2, <1>3 DEF LifeInv, LeadOnce, LockOk, IdsOk, Holding

LEMMA LifeAlways ==
  ASSUME CleanFaults
  PROVE  Spec => []LifeInv
<1>1. Init => LifeInv
  BY InitLife
<1>2. LifeInv /\ [Next]_vars => LifeInv'
  BY NextKeepsLife
<1> QED
  BY <1>1, <1>2, PTL DEF Spec

-----------------------------------------------------------------------------
(* What follows.                                                            *)

LEMMA LifeImpliesQueues ==
  ASSUME LifeInv
  PROVE  OwnQueueEach
<1>0. TypeOK /\ N \in Nat /\ N >= 1
  BY ObjectsFacts DEF LifeInv
<1>1. ASSUME NEW p \in Attached, ~Follower(p)
      PROVE  Lead(p) /\ id[p] = 0 /\ object[p] = name /\ main[p]
  <2>1. Alive(p)
    BY DEF Attached, Alive, Gone
  <2>2. Lead(p)
    BY <1>1, <2>1 DEF Follower, Attached
  <2> QED
    BY <2>2, LeadFacts DEF LeadOkAt, Attached, Fresh
<1>2. ASSUME NEW p \in Attached, Follower(p)
      PROVE  /\ p \in Pids /\ pc[p] \in Numbered /\ FollowOkAt(p)
             /\ id[p] \in Nat /\ id[p] < N /\ id[p] # 0 /\ object[p] = name
  <2>1. /\ FollowOkAt(p) /\ pc[p] \in Following
        /\ pc[p] \in {"start", "fork", "run", "post", "spin", "wait", "held"}
        /\ (pc[p] # "open" => object[p] = name) /\ name \in Objects
    BY <1>2, FollowFacts DEF Attached
  <2>2. pc[p] \in Numbered
    BY <2>1 DEF Following, Numbered
  <2>3. shm[name].lastId \in Nat /\ id[p] \in 1..shm[name].lastId /\ shm[name].lastId < N
    BY <1>0, <2>1, <2>2 DEF FollowOkAt, TypeOK
  <2> QED
    BY <1>0, <2>1, <2>2, <2>3 DEF Attached
<1>3. IdsApart
  <2>1. SUFFICES ASSUME NEW p \in Attached
                 PROVE  /\ id[p] < N
                        /\ \A q \in Attached : object[p] = object[q] /\ id[p] = id[q] => p = q
    BY DEF IdsApart
  <2>2. id[p] < N
    BY <1>0, <1>1, <1>2
  <2>3. ASSUME NEW q \in Attached, id[p] = id[q]
        PROVE  p = q
    <3>1. CASE Follower(p) /\ Follower(q)
      BY <1>2, <2>3, <3>1 DEF LifeInv, IdsOk
    <3>2. CASE ~Follower(p) /\ ~Follower(q)
      BY <1>1, <3>2 DEF LifeInv, LeadOnce, Attached
    <3> QED
      BY <1>1, <1>2, <2>3, <3>1, <3>2
  <2> QED
    BY <2>2, <2>3
<1>4. FollowsParent
  <2>1. SUFFICES ASSUME NEW p \in Attached, ~main[p], parent[p] # Outside
                 PROVE  shm[object[p]].owner = parent[p] /\ name = object[p]
    BY DEF FollowsParent
  <2>2. Follower(p)
    BY <1>1, <2>1
  <2>3. PICK r \in Pids : r = parent[p] /\ Lead(r) /\ pc[r] \in Mothering
    BY <1>2, <2>1, <2>2 DEF FollowOkAt
  <2>4. shm[name].owner = r
    BY <2>3, LeadFacts DEF LeadOkAt, Settled, Mothering
  <2> QED
    BY <1>2, <2>2, <2>3, <2>4
<1> QED
  BY <1>3, <1>4 DEF OwnQueueEach

\* As long as execv succeeds, the program is not launched twice at a time, no process
\* id is used again, and main is not killed while a follower is starting, no two
\* processes read one queue, no id is out of range, and every follower works on the
\* object of the process that started it, however many are killed (actors_init,
\* actors.cpp:131-200, and actors_start, 202-240).
THEOREM OwnQueuesHold ==
  ASSUME CleanFaults
  PROVE  Spec => []OwnQueueEach
<1>1. Spec => []LifeInv
  BY LifeAlways
<1>2. LifeInv => OwnQueueEach
  BY LifeImpliesQueues
<1> QED
  BY <1>1, <1>2, PTL

\* Under the same conditions the main process that ends removes the name when no other
\* process works on the object (_uninit, actors.cpp:64-66, after actors_shutdown, 242-254).
THEOREM MainEndsClean ==
  ASSUME CleanFaults
  PROVE  Spec => CleanEnd
<1>1. Spec => []LifeInv
  BY LifeAlways
<1>2. LifeInv /\ [Next]_vars => CleanEndStep
  <2>1. SUFFICES ASSUME LifeInv, [Next]_vars, NEW p \in Pids, pc[p] = "exit", main[p],
                        pc'[p] = "dead", crashes' = crashes
                 PROVE  /\ name' = None
                        /\ \A q \in Pids : Alive(q) => q = p \/ object[q] # object[p]
    BY DEF CleanEndStep
  <2>2. TypeOK /\ crashes \in Nat
    <3>1. TypeOK /\ MaxCrashes \in Nat
      BY <2>1, ObjectsFacts DEF LifeInv
    <3>2. crashes \in 0..MaxCrashes
      BY <3>1 DEF TypeOK
    <3> QED
      BY <3>1, <3>2
  <2>3. Alone(p)
    <3>1. ~Follower(p)
      BY <2>1, FollowFacts
    <3>2. Lead(p)
      BY <2>1, <3>1 DEF Follower, Alive, Gone
    <3> QED
      BY <2>1, <3>2, LeadFacts DEF LeadOkAt
  <2>4. PICK r \in Pids : Launch(r) \/ Step(r) \/ Resume(r) \/ Leave(r) \/ Spin(r) \/ Crash(r)
    BY <2>1 DEF Next, vars
  <2>5. ~Crash(r)
    BY <2>1, <2>2 DEF Crash
  <2>6. r = p /\ Uninit(p)
    <3>2. CASE Launch(r) \/ Fork(r)
      BY <2>1, <2>2, <3>2 DEF Launch, Fork, GoTo, Available, TypeOK
    <3>3. CASE Open(r) \/ Create(r) \/ InitGlobals(r) \/ Check(r) \/ Lock(r) \/ Count(r)
                 \/ Take(r) \/ Unlock(r) \/ InitCommunication(r) \/ AllForked(r) \/ Finish(r)
                 \/ Post(r) \/ AllTold(r) \/ Reap(r) \/ ReadExit(r) \/ Resume(r) \/ Leave(r)
                 \/ Spin(r)
      BY <2>1, <2>2, <3>3
         DEF Open, Create, InitGlobals, Check, Lock, Count, Take, Unlock, InitCommunication,
             AllForked, Finish, Post, AllTold, Reap, ReadExit, Resume, Leave, Spin, GoTo, TypeOK
    <3>4. CASE Uninit(r)
      BY <2>1, <2>2, <3>4 DEF Uninit, Die, GoTo, TypeOK
    <3> QED
      BY <2>4, <2>5, <3>2, <3>3, <3>4 DEF Step
  <2> QED
    BY <2>1, <2>3, <2>6 DEF Uninit, Alone
<1> QED
  BY <1>1, <1>2, PTL DEF Spec, CleanEnd

=============================================================================
