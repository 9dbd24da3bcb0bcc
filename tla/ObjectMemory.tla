----------------------------- MODULE ObjectMemory -----------------------------
(***************************************************************************)
(* The object memory of one actor: the first-fit allocator over a free list *)
(* that lives in the free blocks themselves (src/memory/Heap.cpp), the      *)
(* sweep that rebuilds and merges that list (src/memory/                    *)
(* GarbageCollector.cpp), and the table of objects with its stack of free   *)
(* entries threaded through it (src/memory/ObjectTable.cpp).                *)
(*                                                                         *)
(* What a program refers to is a set of blocks, from which it may drop any. *)
(* Uninterruptable sections are left out: the constructors that open one    *)
(* make immediate integers only and allocate nothing in it.                 *)
(***************************************************************************)
EXTENDS Integers, Sequences, FiniteSets, FiniteSetsExt

CONSTANTS
  Size,      \* objectSpaceSize, in units that every size is a multiple of
  Header,    \* sizeof(VMObject), which is sizeof(VMFreeObject)
  Buffer,    \* buffersizeForUninterruptable
  Requests,  \* the sizes programs ask for, padded
  MaxDepth,  \* nested calls of Allocate that fit on the stack
  Null

Address == 0..(Size - 1)

ASSUME SizeAssumption == Size \in Nat /\ Header \in 1..Size
ASSUME BufferAssumption == Buffer \in Nat
ASSUME RequestsAssumption == \A n \in Requests : n \in Nat /\ n >= Header
ASSUME MaxDepthAssumption == MaxDepth \in Nat \ {0}
ASSUME NullAssumption == Null \notin Int

VARIABLES
  blocks,        \* by start address: size, free (gcfield is -1), next, entry
  freeListStart,
  freeSize,      \* sizeOfFreeHeap
  table,         \* objectTable: an address, or the next free entry (a union)
  freeStack,     \* free_stack, 0 when empty
  reachable,     \* the blocks the roots of the collector lead to
  under,         \* memory handed out whose constructor has not run yet
  want,          \* the size Allocate is asked for
  depth,         \* nested calls of Allocate
  pc

heap == <<blocks, freeListStart, freeSize>>
objects == <<table, freeStack>>
vars == <<heap, objects, reachable, under, want, depth, pc>>

-----------------------------------------------------------------------------
Block(size, free, next, entry) ==
  [size |-> size, free |-> free, next |-> next, entry |-> entry]

FreeBlocks == {b \in DOMAIN blocks : blocks[b].free}
End(b) == b + blocks[b].size

\* What is reached from start along links that end in none: the least set that
\* start is in and that is closed under the links.
Along(start, link, none) ==
  LET closed == {S \in SUBSET DOMAIN link :
                   /\ start # none => start \in S
                   /\ \A x \in S : link[x] # none => link[x] \in S}
  IN  {x \in DOMAIN link : \A S \in closed : x \in S}

FreeList == Along(freeListStart, [b \in DOMAIN blocks |-> blocks[b].next], Null)

Init ==
  /\ blocks = [b \in {0} |-> Block(Size, TRUE, Null, 0)]
  /\ freeListStart = 0 /\ freeSize = Size
  /\ table = << >> /\ freeStack = 0
  /\ reachable = {} /\ under = Null
  /\ want = 0 /\ depth = 0 /\ pc = "idle"

-----------------------------------------------------------------------------
(* The table of objects.                                                    *)

\* Fault: an entry is used again and stays on the stack.
AddObjectNotPopping(b) ==
  IF freeStack # 0
  THEN table' = [table EXCEPT ![freeStack] = b] /\ UNCHANGED freeStack
  ELSE table' = Append(table, b) /\ UNCHANGED freeStack

\* ObjectTable::AddObject and the entry it gives the object.
AddObject(b) ==
  IF freeStack # 0
  THEN table' = [table EXCEPT ![freeStack] = b] /\ freeStack' = table[freeStack]
  ELSE table' = Append(table, b) /\ UNCHANGED freeStack

NewEntry == IF freeStack # 0 THEN freeStack ELSE Len(table) + 1

\* ObjectTable::RemoveObject for every object of a set, by address.
RemoveObjects(dead) ==
  LET below(d) == {c \in dead : c < d}
      link(d) == IF below(d) = {} THEN freeStack ELSE blocks[Max(below(d))].entry
  IN
  /\ table' = [i \in DOMAIN table |->
                IF \E d \in dead : blocks[d].entry = i
                THEN link(CHOOSE d \in dead : blocks[d].entry = i)
                ELSE table[i]]
  /\ freeStack' = IF dead = {} THEN freeStack ELSE blocks[Max(dead)].entry

-----------------------------------------------------------------------------
(* GarbageCollector::Collect.                                               *)

Dead == {b \in DOMAIN blocks : ~blocks[b].free /\ b \notin reachable}
Swept == FreeBlocks \cup Dead

\* Where the list ends: a block that was just freed refers to itself, one that
\* was free before keeps its link.
LastLink == LET last == Max(Swept) IN IF last \in Dead THEN last ELSE blocks[last].next

\* mergeFreeSpaces joins the blocks that touch.
Merged == {b \in Swept : \A c \in Swept : End(c) # b}

MergedEnd(b) == Min({e \in {End(c) : c \in Swept} : e > b /\ e \notin Swept})
MergedBlock(b) ==
  LET above == {c \in Merged : c > b} IN
  Block(MergedEnd(b) - b, TRUE, IF above = {} THEN Null ELSE Min(above), 0)

\* The sweep in address order, then the merge, whose loop ends at a link to
\* nothing: it does not look at an empty list, or at a block linked to itself.
Collect(place) ==
  IF Swept = {} \/ LastLink # Null
  THEN pc' = "crashed" /\ UNCHANGED <<heap, objects>>
  ELSE
    /\ blocks' = [b \in (DOMAIN blocks \ Swept) \cup Merged |->
                    IF b \in Merged THEN MergedBlock(b) ELSE blocks[b]]
    /\ freeListStart' = Min(Swept)
    /\ freeSize' = Cardinality({u \in Address : \E b \in Swept : u \in b..(End(b) - 1)})
    /\ RemoveObjects(Dead)
    /\ pc' = place

-----------------------------------------------------------------------------
(* Heap::Allocate.                                                          *)

\* A program makes an object, or the arguments of a constructor make one:
\* those of VMEvaluationPrimitive do, while the memory for it is handed out.
New(n) ==
  /\ pc = "idle" \/ pc = "raw"
  /\ pc' = "enter"
  /\ want' = n /\ depth' = 1
  /\ UNCHANGED <<heap, objects, reachable, under>>

\* What a collection does while memory is handed out is not followed further.
Enter ==
  /\ pc = "enter"
  /\ IF freeSize <= Buffer
     THEN Collect(IF under = Null THEN "search" ELSE "damaged")
     ELSE pc' = "search" /\ UNCHANGED <<heap, objects>>
  /\ UNCHANGED <<reachable, under, want, depth>>

Fits(b) == blocks[b].size = want \/ blocks[b].size >= want + Header

\* The blocks the search looks at, from the first to the one where it stops.
Stops(b) == Fits(b) \/ blocks[b].next = Null
Searched ==
  Along(freeListStart, [b \in DOMAIN blocks |-> IF Stops(b) THEN Null ELSE blocks[b].next], Null)
Found == CHOOSE b \in Searched : Stops(b)

\* The list without, or with a shorter, block b: the link to it becomes rest.
Before(b) == CHOOSE a \in FreeList : blocks[a].next = b
Relinked(b, rest, bs) ==
  IF b = freeListStart
  THEN freeListStart' = rest /\ blocks' = bs
  ELSE UNCHANGED freeListStart /\ blocks' = [bs EXCEPT ![Before(b)].next = rest]

HandOut(b) == Block(want, TRUE, b, 0)

\* Memory for an object waits for its constructor; that for an argument is
\* constructed and gets its entry.
Deliver(b, rest, bs) ==
  IF under = Null
  THEN /\ Relinked(b, rest, bs)
       /\ under' = b /\ pc' = "raw"
       /\ UNCHANGED <<objects, reachable>>
  ELSE /\ Relinked(b, rest, [bs EXCEPT ![b].free = FALSE, ![b].entry = NewEntry])
       /\ AddObject(b)
       /\ reachable' = reachable \cup {b}
       /\ pc' = "ready"
       /\ UNCHANGED under

\* A perfect fit.  The block behind it is told of its new neighbour: there has
\* to be one.
TakeAll(b) ==
  IF blocks[b].next = Null
  THEN pc' = "crashed" /\ UNCHANGED <<heap, objects, reachable, under>>
  ELSE
    /\ Deliver(b, blocks[b].next, [blocks EXCEPT ![b] = HandOut(b)])
    /\ freeSize' = freeSize - want * depth

\* A header is written at address a.
Placed(block, a, bs) == [b \in DOMAIN bs \cup {a} |-> IF b = a THEN block ELSE bs[b]]

\* Fault: the rest loses its link.
SplitLosingRest(b) ==
  LET rest == Block(blocks[b].size - want, TRUE, Null, 0)
  IN  /\ Deliver(b, b + want, Placed(rest, b + want, [blocks EXCEPT ![b] = HandOut(b)]))
      /\ freeSize' = freeSize - want * depth

\* Fault: the rest keeps the size of the whole.
SplitKeepingSize(b) ==
  LET rest == Block(blocks[b].size, TRUE, blocks[b].next, 0)
  IN  /\ Deliver(b, b + want, Placed(rest, b + want, [blocks EXCEPT ![b] = HandOut(b)]))
      /\ freeSize' = freeSize - want * depth

\* Fault: the size is not taken off.
SplitUncounted(b) ==
  LET rest == Block(blocks[b].size - want, TRUE, blocks[b].next, 0)
  IN  /\ Deliver(b, b + want, Placed(rest, b + want, [blocks EXCEPT ![b] = HandOut(b)]))
      /\ UNCHANGED freeSize

\* The front of a block, the rest of which stays in the list.  Every nested call
\* takes the size off sizeOfFreeHeap once more.
Split(b) ==
  LET rest == Block(blocks[b].size - want, TRUE, blocks[b].next, 0)
  IN  /\ Deliver(b, b + want, Placed(rest, b + want, [blocks EXCEPT ![b] = HandOut(b)]))
      /\ freeSize' = freeSize - want * depth

\* Nothing fits: collect and call Allocate again.
Retry ==
  /\ IF depth < MaxDepth
     THEN Collect(IF under = Null THEN "enter" ELSE "damaged") /\ depth' = depth + 1
     ELSE pc' = "overflow" /\ UNCHANGED <<heap, objects, depth>>
  /\ UNCHANGED <<reachable, under>>

Search ==
  /\ pc = "search"
  /\ LET b == Found
         s == blocks[b].size
     IN
     \/ s = want /\ TakeAll(b) /\ UNCHANGED depth
     \/ s >= want + Header /\ Split(b) /\ UNCHANGED depth
     \/ s # want /\ s < want + Header /\ Retry
  /\ UNCHANGED want

\* The constructor runs and the object gets its entry in the table.
Construct ==
  /\ pc \in {"raw", "ready"}
  /\ blocks' = [blocks EXCEPT ![under].free = FALSE, ![under].entry = NewEntry]
  /\ AddObject(under)
  /\ reachable' = reachable \cup {under}
  /\ under' = Null /\ pc' = "idle"
  /\ UNCHANGED <<freeListStart, freeSize, want, depth>>

\* The program no longer refers to an object.
Drop(b) ==
  /\ pc = "idle"
  /\ reachable' = reachable \ {b}
  /\ UNCHANGED <<heap, objects, under, want, depth, pc>>

Next ==
  \/ \E n \in Requests : New(n)
  \/ Enter \/ Search \/ Construct
  \/ \E b \in reachable : Drop(b)

Spec == Init /\ [][Next]_vars

-----------------------------------------------------------------------------
TypeOK ==
  /\ DOMAIN blocks \subseteq Address
  /\ \A b \in DOMAIN blocks :
       blocks[b] \in [size : 1..Size, free : BOOLEAN, next : Address \cup {Null}, entry : Nat]
  /\ freeListStart \in Address
  /\ freeSize \in Int
  /\ table \in Seq(Nat) /\ freeStack \in 0..Len(table)
  /\ reachable \subseteq Address
  /\ under \in Address \cup {Null}
  /\ want \in Requests \cup {0} /\ depth \in 0..MaxDepth
  /\ pc \in {"idle", "enter", "search", "raw", "ready", "crashed", "overflow", "damaged"}

Alive == pc \notin {"crashed", "damaged"}

\* The blocks cover the heap without gap or overlap, whatever was split, freed
\* and merged: the sweep, which walks from block to block, meets each header
\* (Heap.cpp:157-189, GarbageCollector.cpp:78-134, 170-192).
Tiled ==
  /\ 0 \in DOMAIN blocks
  /\ \A b \in DOMAIN blocks : End(b) = Size \/ End(b) \in DOMAIN blocks
  /\ \A b, c \in DOMAIN blocks : b < c => End(b) <= c

\* The free list holds every free block once, by address, and ends with the block
\* at the end of the heap.  This is what keeps the search and the merge from
\* running into a link to nothing or round in circles.
FreeListExact ==
  Alive =>
    /\ FreeList = FreeBlocks \ {under}
    /\ \A b \in FreeList :
         IF blocks[b].next = Null THEN End(b) = Size ELSE b < blocks[b].next

\* An object the program refers to stays where it is, is neither freed nor handed
\* out again, and its entry in the table, which is its own, leads to it.
ReachableIntact ==
  Alive =>
    \A b \in reachable :
      /\ b \in DOMAIN blocks /\ ~blocks[b].free
      /\ blocks[b].entry \in DOMAIN table
      /\ table[blocks[b].entry] = b
      /\ \A c \in reachable : blocks[c].entry = blocks[b].entry => b = c

\* The stack of free entries, followed along the entries themselves, holds each
\* entry without an object once: no two links lead to one entry.
UsedEntries == {blocks[b].entry : b \in {c \in DOMAIN blocks : ~blocks[c].free}}

FreeEntriesExact ==
  Alive =>
    LET stacked == Along(freeStack, table, 0) IN
    /\ stacked = DOMAIN table \ UsedEntries
    /\ \A i \in stacked : table[i] # 0 => table[i] # freeStack
    /\ \A i, j \in stacked : table[i] = table[j] /\ table[i] # 0 => i = j

\* sizeOfFreeHeap, which decides when to collect, is not more than what the list
\* has; it is less after a call that had to collect and start over.
FreeSizeNotOverstated ==
  Alive =>
    freeSize <= Cardinality({u \in Address : \E b \in FreeBlocks \ {under} : u \in b..(End(b) - 1)})

\* The heap is in order: no gaps, a list of exactly the free blocks, and a size
\* that does not promise more.
HeapExact == Tiled /\ FreeListExact /\ FreeSizeNotOverstated

\* The object table is in order: who has an entry keeps it, and the free ones can
\* be given out (ObjectTable.cpp:37-69).
TableExact == ReachableIntact /\ FreeEntriesExact

\* Memory handed out for an object is not on the free list before the object's
\* constructor ran.
HandedOutKept == under # Null => under \notin FreeList

\* Allocate returns memory: it meets no null pointer on the way.
NoNullLink == pc # "crashed"

\* When the heap is full Allocate says so (Heap.cpp:198-202).
FullHeapReported == pc # "overflow"

=============================================================================
