--------------------------- MODULE ObjectMemoryProof ---------------------------
(***************************************************************************)
(* Proofs about the object memory, for heaps, requests and tables of any    *)
(* size.                                                                    *)
(***************************************************************************)
EXTENDS ObjectMemory, FiniteSetTheorems, SequenceTheorems, TLAPS

-----------------------------------------------------------------------------
(* Least and greatest numbers.                                              *)

LEMMA Least ==
  ASSUME NEW S, S \subseteq Nat, S # {}
  PROVE  \E x \in S : \A y \in S : x <= y
<1> DEFINE below(x) == {y \in S : y <= x}
           T == {below(x) : x \in S}
           R == StrictSubsetOrdering(Nat)
           F == FiniteSubsetsOf(Nat)
<1>1. T \subseteq F /\ T # {}
  <2>1. ASSUME NEW x \in S
        PROVE  below(x) \in SUBSET Nat /\ IsFiniteSet(below(x))
    <3>1. below(x) \in SUBSET Nat /\ x \in Nat /\ \A s \in below(x) : s <= x
      OBVIOUS
    <3> HIDE DEF below
    <3> QED
      BY <3>1, FS_BoundedSetOfNaturals
  <2> QED
    BY <2>1 DEF FiniteSubsetsOf
<1>2. IsWellFoundedOn(R, F)
  BY FS_StrictSubsetOrderingWellFounded
<1>3. \E m \in T : \A t \in T : ~(<<t, m>> \in R)
  <2> HIDE DEF T, R, F
  <2> QED
    BY <1>1, <1>2, WFMin
<1>4. PICK x \in S : \A y \in S : ~(<<below(y), below(x)>> \in R)
  BY <1>3
<1>5. ASSUME NEW y \in S, ~(x <= y)
      PROVE  FALSE
  <2>1. x \in Nat /\ y \in Nat /\ y < x
    BY <1>5
  <2>2. below(y) \subseteq below(x) /\ below(y) # below(x)
    <3>1. \A z \in below(y) : z \in below(x)
      BY <2>1
    <3>2. x \in below(x) /\ x \notin below(y)
      BY <2>1
    <3> QED
      BY <3>1, <3>2
  <2>3. below(y) \in SUBSET Nat /\ below(x) \in SUBSET Nat
    OBVIOUS
  <2> HIDE DEF below
  <2>4. <<below(y), below(x)>> \in R
    BY <2>2, <2>3 DEF StrictSubsetOrdering
  <2> QED
    BY <2>4, <1>4
<1> QED
  BY <1>5

LEMMA Greatest ==
  ASSUME NEW S, S \subseteq Nat, S # {}, NEW n \in Nat, \A x \in S : x <= n
  PROVE  \E x \in S : \A y \in S : y <= x
<1> DEFINE T == {k \in Nat : \E x \in S : k = n - x}
<1>1. T \subseteq Nat /\ T # {}
  <2>1. PICK x \in S : TRUE
    OBVIOUS
  <2>2. n - x \in T
    BY <2>1
  <2> QED
    BY <2>2
<1>2. PICK k \in T : \A l \in T : k <= l
  <2> HIDE DEF T
  <2> QED
    BY <1>1, Least
<1>3. PICK x \in S : k = n - x
  OBVIOUS
<1>4. ASSUME NEW y \in S
      PROVE  y <= x
  <2>1. n - y \in T
    OBVIOUS
  <2>2. k <= n - y
    BY <1>2, <2>1
  <2> QED
    BY <1>3, <2>2
<1> QED
  BY <1>4

LEMMA MinIsLeast ==
  ASSUME NEW S, S \subseteq Nat, S # {}
  PROVE  Min(S) \in S /\ \A y \in S : Min(S) <= y
  BY Least DEF Min

LEMMA MaxIsGreatest ==
  ASSUME NEW S, S \subseteq Nat, S # {}, NEW n \in Nat, \A x \in S : x <= n
  PROVE  Max(S) \in S /\ \A y \in S : y <= Max(S)
<1>1. \E x \in S : \A y \in S : x >= y
  <2>1. PICK x \in S : \A y \in S : y <= x
    BY Greatest
  <2> QED
    BY <2>1
<1>2. Max(S) \in S /\ \A y \in S : Max(S) >= y
  BY <1>1 DEF Max
<1> QED
  BY <1>2

-----------------------------------------------------------------------------
(* Following links.                                                         *)

\* A set of places that start is in and that the links do not leave.
ClosedUnder(S, start, link, none) ==
  /\ S \subseteq DOMAIN link
  /\ start # none => start \in S
  /\ \A x \in S : link[x] # none => link[x] \in S

LEMMA AlongIsLeast ==
  ASSUME NEW start, NEW link, NEW none, NEW S, ClosedUnder(S, start, link, none)
  PROVE  /\ Along(start, link, none) \subseteq S
         /\ ClosedUnder(Along(start, link, none), start, link, none)
         /\ (\A T : ClosedUnder(T, start, link, none) => S \subseteq T)
              => Along(start, link, none) = S
<1> DEFINE A == Along(start, link, none)
<1>1. \A x : x \in A <=>
        /\ x \in DOMAIN link
        /\ \A T : ClosedUnder(T, start, link, none) => x \in T
  BY DEF Along, ClosedUnder
<1> HIDE DEF A
<1>2. A \subseteq S
  BY <1>1
<1>3. ClosedUnder(A, start, link, none)
  <2>1. A \subseteq DOMAIN link
    BY <1>1
  <2>2. start # none => start \in A
    BY <1>1 DEF ClosedUnder
  <2>3. ASSUME NEW x \in A, link[x] # none
        PROVE  link[x] \in A
    <3>1. \A T : ClosedUnder(T, start, link, none) => link[x] \in T
      BY <1>1, <2>3 DEF ClosedUnder
    <3>2. link[x] \in DOMAIN link
      BY <3>1 DEF ClosedUnder
    <3> QED
      BY <1>1, <3>1, <3>2
  <2> QED
    BY <2>1, <2>2, <2>3 DEF ClosedUnder
<1>4. ASSUME \A T : ClosedUnder(T, start, link, none) => S \subseteq T
      PROVE  A = S
  <2>1. \A x \in S : x \in A
    BY <1>1, <1>4 DEF ClosedUnder
  <2> QED
    BY <1>2, <2>1
<1> QED
  BY <1>2, <1>3, <1>4 DEF A

-----------------------------------------------------------------------------
(* The invariant.                                                           *)

\* The free blocks that have not been handed out.
List == FreeBlocks \ {under}

\* Each of them refers to the next by address, and the last ends with the heap.
ListOrdered ==
  /\ freeListStart \in List /\ \A c \in List : freeListStart <= c
  /\ \A b \in List :
       IF blocks[b].next = Null
       THEN End(b) = Size
       ELSE /\ blocks[b].next \in List /\ b < blocks[b].next
            /\ \A c \in List : c <= b \/ blocks[b].next <= c

\* Every object, also one that the program no longer refers to, has its entry.
EntriesOwn ==
  \A b \in DOMAIN blocks :
    ~blocks[b].free => blocks[b].entry \in DOMAIN table /\ table[blocks[b].entry] = b

ReachableLive == \A b \in reachable : b \in DOMAIN blocks /\ ~blocks[b].free

\* Memory handed out is no object yet, and Allocate knows what it is asked for.
UnderOk ==
  /\ under # Null => under \in FreeBlocks
  /\ pc \in {"raw", "ready"} => under # Null
  /\ pc = "idle" => under = Null
  /\ pc \in {"enter", "search"} => want \in Requests /\ depth >= 1

\* The stack of free entries that starts at top, when those in used have an object.
StackOk(top, entries, used) ==
  /\ ClosedUnder(DOMAIN entries \ used, top, entries, 0)
  /\ \A T \in SUBSET DOMAIN entries :
       ClosedUnder(T, top, entries, 0) => DOMAIN entries \ used \subseteq T
  /\ \A i \in DOMAIN entries \ used : entries[i] # 0 => entries[i] # top
  /\ \A i, j \in DOMAIN entries \ used : entries[i] = entries[j] /\ entries[i] # 0 => i = j

FreeUnits == {u \in Address : \E b \in List : u \in b..(End(b) - 1)}

InOrder ==
  /\ UnderOk /\ ListOrdered /\ ReachableLive
  /\ EntriesOwn /\ StackOk(freeStack, table, UsedEntries)
  /\ freeSize <= Cardinality(FreeUnits)

MemInv == TypeOK /\ Tiled /\ (Alive => InOrder)

LEMMA Sizes ==
  /\ Size \in Nat /\ Size >= 1 /\ Header \in Nat /\ Header >= 1 /\ Header <= Size
  /\ Null \notin Nat
  /\ \A n \in Requests : n \in Nat /\ n >= Header
  /\ \A a : a \in Address <=> a \in Nat /\ a < Size
  /\ Address \subseteq Nat
  BY SizeAssumption, NullAssumption, RequestsAssumption DEF Address

LEMMA BlockFacts ==
  ASSUME TypeOK, Tiled, NEW b \in DOMAIN blocks
  PROVE  /\ b \in Nat /\ b < Size
         /\ blocks[b].size \in Nat /\ blocks[b].size >= 1
         /\ End(b) \in Nat /\ End(b) = b + blocks[b].size /\ b < End(b) /\ End(b) <= Size
         /\ End(b) = Size \/ End(b) \in DOMAIN blocks
         /\ blocks[b].next \in Address \cup {Null} /\ blocks[b].entry \in Nat
         /\ blocks[b].free \in BOOLEAN
         /\ \A c \in DOMAIN blocks : b < c => End(b) <= c
<1>1. /\ b \in Address /\ DOMAIN blocks \subseteq Address
      /\ blocks[b].size \in 1..Size /\ blocks[b].free \in BOOLEAN
      /\ blocks[b].next \in Address \cup {Null} /\ blocks[b].entry \in Nat
  BY DEF TypeOK
<1>2. End(b) = Size \/ End(b) \in DOMAIN blocks
  BY DEF Tiled
<1>3. End(b) <= Size
  BY <1>1, <1>2, Sizes
<1>4. \A c \in DOMAIN blocks : b < c => End(b) <= c
  BY DEF Tiled
<1> QED
  BY <1>1, <1>2, <1>3, <1>4, Sizes DEF End

-----------------------------------------------------------------------------
(* The free list.                                                           *)

LEMMA ListFacts ==
  ASSUME TypeOK
  PROVE  /\ List \subseteq DOMAIN blocks /\ List \subseteq Nat /\ \A b \in List : b <= Size
         /\ \A b \in List : blocks[b].free
<1>1. List \subseteq DOMAIN blocks /\ \A b \in List : blocks[b].free
  BY DEF List, FreeBlocks
<1>2. DOMAIN blocks \subseteq Address
  BY DEF TypeOK
<1> QED
  BY <1>1, <1>2, Sizes

\* Every block of the list but the first has one before it.
LEMMA Predecessor ==
  ASSUME TypeOK, Tiled, ListOrdered, NEW b \in List, b # freeListStart
  PROVE  \E a \in List : blocks[a].next = b
<1> DEFINE lower == {x \in List : x < b}
<1>1. lower \subseteq Nat /\ \A x \in lower : x <= Size
  BY ListFacts
<1>2. freeListStart \in lower
  BY ListFacts DEF ListOrdered
<1>3. PICK a \in lower : \A y \in lower : y <= a
  <2> HIDE DEF lower
  <2> QED
    BY <1>1, <1>2, Greatest, Sizes
<1>4. a \in List /\ a < b /\ a \in Nat /\ b \in Nat
  BY ListFacts
<1>5. blocks[a].next # Null
  <2>1. End(a) <= b /\ b < Size
    BY <1>4, BlockFacts, ListFacts
  <2> QED
    BY <1>4, <2>1, Sizes DEF ListOrdered
<1>6. /\ blocks[a].next \in List /\ a < blocks[a].next
      /\ \A c \in List : c <= a \/ blocks[a].next <= c
  BY <1>4, <1>5 DEF ListOrdered
<1>7. blocks[a].next <= b
  BY <1>4, <1>6
<1>8. blocks[a].next \in Nat
  BY <1>6, ListFacts
<1>9. ASSUME blocks[a].next < b
      PROVE  FALSE
  <2>1. blocks[a].next \in lower
    BY <1>6, <1>9
  <2>2. blocks[a].next <= a
    BY <1>3, <2>1
  <2> QED
    BY <1>4, <1>6, <1>8, <2>2
<1> QED
  BY <1>4, <1>7, <1>8, <1>9

\* Following the links gives all of them.
LEMMA ListIsFollowed ==
  ASSUME TypeOK, Tiled, ListOrdered
  PROVE  FreeList = List
<1> DEFINE link == [b \in DOMAIN blocks |-> blocks[b].next]
<1>1. ClosedUnder(List, freeListStart, link, Null)
  BY ListFacts DEF ClosedUnder, ListOrdered
<1>2. ASSUME NEW T, ClosedUnder(T, freeListStart, link, Null)
      PROVE  List \subseteq T
  <2>1. SUFFICES ASSUME List \ T # {}
                 PROVE  FALSE
    OBVIOUS
  <2>2. List \ T \subseteq Nat
    BY ListFacts
  <2>3. PICK m \in List \ T : \A y \in List \ T : m <= y
    BY <2>1, <2>2, Least
  <2>4. m # freeListStart
    BY <1>2, ListFacts, Sizes DEF ClosedUnder
  <2>5. PICK a \in List : blocks[a].next = m
    BY <2>4, Predecessor
  <2>6. m # Null /\ m \in Nat /\ a \in Nat
    BY ListFacts, Sizes
  <2>7. a < m
    BY <2>5, <2>6 DEF ListOrdered
  <2>8. a \in T
    BY <2>3, <2>6, <2>7
  <2>9. link[a] = m
    BY <2>5, ListFacts
  <2> QED
    BY <1>2, <2>6, <2>8, <2>9 DEF ClosedUnder
<1> HIDE DEF link
<1>3. Along(freeListStart, link, Null) = List
  BY <1>1, <1>2, AlongIsLeast
<1> QED
  BY <1>3 DEF FreeList, link

\* The search stops in the list.
LEMMA SearchFinds ==
  ASSUME TypeOK, Tiled, ListOrdered
  PROVE  Found \in List /\ Stops(Found)
<1> DEFINE link == [b \in DOMAIN blocks |-> IF Stops(b) THEN Null ELSE blocks[b].next]
<1>1. ClosedUnder(List, freeListStart, link, Null)
  BY ListFacts DEF ClosedUnder, ListOrdered, Stops
<1>2. freeListStart # Null
  BY ListFacts, Sizes DEF ListOrdered
<1>3. Searched = Along(freeListStart, link, Null)
  BY DEF Searched
<1>4. /\ Searched \subseteq List /\ ClosedUnder(Searched, freeListStart, link, Null)
  <2> HIDE DEF link
  <2> QED
    BY <1>1, <1>3, AlongIsLeast
<1>5. Searched \subseteq Nat /\ Searched # {} /\ \A b \in Searched : b <= Size
  BY <1>2, <1>4, ListFacts DEF ClosedUnder
<1>6. PICK g \in Searched : \A y \in Searched : y <= g
  BY <1>5, Greatest, Sizes
<1>7. Stops(g)
  <2>1. SUFFICES ASSUME ~Stops(g)
                 PROVE  FALSE
    OBVIOUS
  <2>2. g \in List /\ blocks[g].next # Null /\ link[g] = blocks[g].next
    BY <1>4, <2>1, ListFacts DEF Stops
  <2>3. blocks[g].next \in Searched /\ g < blocks[g].next
    BY <1>4, <2>2 DEF ClosedUnder, ListOrdered
  <2> QED
    <3>1. blocks[g].next <= g /\ blocks[g].next \in Nat /\ g \in Nat
      BY <1>5, <1>6, <2>3
    <3> QED
      BY <2>3, <3>1
<1> HIDE DEF link
<1> QED
  BY <1>4, <1>7 DEF Found

LEMMA BeforeFacts ==
  ASSUME TypeOK, Tiled, ListOrdered, NEW b \in List, b # freeListStart
  PROVE  /\ Before(b) \in List /\ blocks[Before(b)].next = b
         /\ Before(b) \in Nat /\ b \in Nat /\ Before(b) < b
<1>1. \E a \in FreeList : blocks[a].next = b
  BY Predecessor, ListIsFollowed
<1>2. Before(b) \in List /\ blocks[Before(b)].next = b
  BY <1>1, ListIsFollowed DEF Before
<1>3. b \in Nat /\ Before(b) \in Nat
  BY <1>2, ListFacts
<1> QED
  BY <1>2, <1>3, Sizes DEF ListOrdered

-----------------------------------------------------------------------------
(* The object table.                                                        *)

\* An object gets an entry that no other has.
LEMMA AddObjectGives ==
  ASSUME table \in Seq(Nat), NEW used, used \subseteq DOMAIN table,
         StackOk(freeStack, table, used), NEW b \in Nat, AddObject(b)
  PROVE  /\ NewEntry \in DOMAIN table' /\ NewEntry \in Nat /\ NewEntry \notin used
         /\ table'[NewEntry] = b
         /\ \A i \in DOMAIN table : i # NewEntry => i \in DOMAIN table' /\ table'[i] = table[i]
         /\ table' \in Seq(Nat) /\ freeStack' \in 0..Len(table')
         /\ StackOk(freeStack', table', used \cup {NewEntry})
<1> DEFINE S == DOMAIN table \ used
<1>0. DOMAIN table = 1..Len(table) /\ Len(table) \in Nat
  OBVIOUS
<1>1. ClosedUnder(S, freeStack, table, 0)
  BY DEF StackOk
<1>2. CASE freeStack # 0
  <2>1. freeStack \in S /\ NewEntry = freeStack
    BY <1>1, <1>2 DEF ClosedUnder, NewEntry
  <2>2. /\ table' = [table EXCEPT ![freeStack] = b] /\ freeStack' = table[freeStack]
    BY <1>2 DEF AddObject
  <2>3. /\ table' \in Seq(Nat) /\ DOMAIN table' = DOMAIN table /\ Len(table') = Len(table)
        /\ table'[freeStack] = b /\ \A i \in DOMAIN table : i # freeStack => table'[i] = table[i]
    BY <1>0, <2>1, <2>2
  <2>4. freeStack' # 0 => freeStack' \in S /\ freeStack' # freeStack
    BY <1>1, <2>1, <2>2 DEF ClosedUnder, StackOk
  <2>5. DOMAIN table' \ (used \cup {NewEntry}) = S \ {freeStack}
    BY <2>1, <2>3
  <2>6. ClosedUnder(S \ {freeStack}, freeStack', table', 0)
    <3>1. \A x \in S \ {freeStack} : table'[x] # 0 => table'[x] \in S /\ table'[x] # freeStack
      BY <1>1, <2>3 DEF ClosedUnder, StackOk
    <3> QED
      BY <2>3, <2>4, <3>1 DEF ClosedUnder
  <2>7. ASSUME NEW T \in SUBSET DOMAIN table', ClosedUnder(T, freeStack', table', 0)
        PROVE  S \ {freeStack} \subseteq T
    <3>1. T \cup {freeStack} \in SUBSET DOMAIN table
      BY <2>1, <2>3
    <3>2. \A x \in T \cup {freeStack} : table[x] # 0 => table[x] \in T
      BY <2>2, <2>3, <2>7 DEF ClosedUnder
    <3>3. ClosedUnder(T \cup {freeStack}, freeStack, table, 0)
      BY <3>1, <3>2 DEF ClosedUnder
    <3> QED
      BY <3>1, <3>3 DEF StackOk
  <2>8. \A i \in S \ {freeStack} : table'[i] # 0 => table'[i] # freeStack'
    BY <2>1, <2>2, <2>3 DEF StackOk
  <2>9. \A i, j \in S \ {freeStack} : table'[i] = table'[j] /\ table'[i] # 0 => i = j
    BY <2>3 DEF StackOk
  <2>10. StackOk(freeStack', table', used \cup {NewEntry})
    <3> HIDE DEF S
    <3> QED
      BY <2>5, <2>6, <2>7, <2>8, <2>9 DEF StackOk
  <2>11. freeStack' \in 0..Len(table')
    BY <1>0, <2>3, <2>4
  <2> QED
    BY <1>0, <2>1, <2>3, <2>10, <2>11
<1>3. CASE freeStack = 0
  <2>1. S = {}
    <3>1. ClosedUnder({}, freeStack, table, 0)
      BY <1>3 DEF ClosedUnder
    <3> QED
      BY <3>1 DEF StackOk
  <2>2. table' = Append(table, b) /\ freeStack' = 0 /\ NewEntry = Len(table) + 1
    BY <1>3 DEF AddObject, NewEntry
  <2>3. /\ table' \in Seq(Nat) /\ DOMAIN table' = 1..(Len(table) + 1)
        /\ Len(table') = Len(table) + 1
        /\ table'[NewEntry] = b /\ \A i \in DOMAIN table : table'[i] = table[i]
    BY <1>0, <2>2
  <2>4. DOMAIN table' \ (used \cup {NewEntry}) = {}
    BY <1>0, <2>1, <2>2, <2>3
  <2>5. StackOk(freeStack', table', used \cup {NewEntry})
    BY <2>2, <2>4 DEF StackOk, ClosedUnder
  <2> QED
    BY <1>0, <2>2, <2>3, <2>5
<1> QED
  BY <1>2, <1>3

\* What is removed is put on the stack, the highest address on top.
LEMMA RemoveObjectsGives ==
  ASSUME TypeOK, EntriesOwn, StackOk(freeStack, table, UsedEntries), RemoveObjects(Dead)
  PROVE  /\ table' \in Seq(Nat) /\ DOMAIN table' = DOMAIN table /\ freeStack' \in 0..Len(table')
         /\ \A c \in DOMAIN blocks \ Dead :
              ~blocks[c].free => table'[blocks[c].entry] = table[blocks[c].entry]
         /\ StackOk(freeStack', table',
                    {blocks[c].entry : c \in {x \in DOMAIN blocks \ Dead : ~blocks[x].free}})
<1> DEFINE e(d) == blocks[d].entry
           below(d) == {c \in Dead : c < d}
           link(d) == IF below(d) = {} THEN freeStack ELSE e(Max(below(d)))
           S == DOMAIN table \ UsedEntries
           G == {e(d) : d \in Dead}
<1>1. /\ DOMAIN table = 1..Len(table) /\ Len(table) \in Nat /\ table \in Seq(Nat)
      /\ freeStack \in 0..Len(table) /\ DOMAIN blocks \subseteq Address
  BY DEF TypeOK
<1>2. /\ Dead \subseteq DOMAIN blocks /\ Dead \subseteq Nat /\ \A d \in Dead : d <= Size
      /\ \A d \in Dead : ~blocks[d].free
  BY <1>1, Sizes DEF Dead
<1>3. /\ \A d \in DOMAIN blocks : ~blocks[d].free =>
           e(d) \in DOMAIN table /\ table[e(d)] = d /\ e(d) \in UsedEntries /\ e(d) # 0
  BY <1>1 DEF EntriesOwn, UsedEntries
<1>4. /\ \A i \in DOMAIN table \ G : table'[i] = table[i]
      /\ \A d \in Dead : table'[e(d)] = link(d)
      /\ DOMAIN table' = DOMAIN table
  <2> DEFINE hit(i) == \E d \in Dead : e(d) = i
             its(i) == CHOOSE d \in Dead : e(d) = i
  <2>1. table' = [i \in DOMAIN table |-> IF hit(i) THEN link(its(i)) ELSE table[i]]
    BY DEF RemoveObjects
  <2>2. \A d \in Dead : its(e(d)) = d
    BY <1>2, <1>3
  <2>3. \A d \in Dead : hit(e(d)) /\ e(d) \in DOMAIN table
    BY <1>2, <1>3
  <2>4. \A i \in DOMAIN table \ G : ~hit(i)
    OBVIOUS
  <2> HIDE DEF hit, its, link, G, e
  <2> QED
    BY <2>1, <2>2, <2>3, <2>4
<1>5. freeStack' = IF Dead = {} THEN freeStack ELSE e(Max(Dead))
  BY DEF RemoveObjects
<1>6. \A d \in Dead : below(d) # {} => Max(below(d)) \in below(d) /\ \A c \in below(d) : c <= Max(below(d))
  <2>1. SUFFICES ASSUME NEW d \in Dead, below(d) # {}
                 PROVE  Max(below(d)) \in below(d) /\ \A c \in below(d) : c <= Max(below(d))
    OBVIOUS
  <2>2. below(d) \subseteq Nat /\ \A c \in below(d) : c <= Size
    BY <1>2
  <2> HIDE DEF below
  <2> QED
    BY <2>1, <2>2, MaxIsGreatest, Sizes
<1>7. Dead # {} => Max(Dead) \in Dead /\ \A c \in Dead : c <= Max(Dead)
  BY <1>2, MaxIsGreatest, Sizes
<1>8. ClosedUnder(S, freeStack, table, 0)
  BY DEF StackOk
<1>9. /\ G \subseteq UsedEntries /\ G \subseteq DOMAIN table /\ 0 \notin G
      /\ UsedEntries \subseteq DOMAIN table
  <2>1. \A i \in UsedEntries : \E c \in DOMAIN blocks : ~blocks[c].free /\ i = e(c)
    BY DEF UsedEntries
  <2> QED
    BY <1>2, <1>3, <2>1
<1>10. {e(c) : c \in {x \in DOMAIN blocks \ Dead : ~blocks[x].free}} = UsedEntries \ G
  <2>1. \A c \in DOMAIN blocks \ Dead : ~blocks[c].free => e(c) \notin G
    BY <1>2, <1>3
  <2>2. \A i \in UsedEntries \ G : \E c \in DOMAIN blocks \ Dead : ~blocks[c].free /\ i = e(c)
    BY DEF UsedEntries
  <2> QED
    BY <1>3, <2>1, <2>2
<1>11. DOMAIN table' \ (UsedEntries \ G) = S \cup G
  BY <1>4, <1>9
<1>12. \A d \in Dead : link(d) # 0 => link(d) \in S \cup G
  <2>1. \A d \in Dead : below(d) # {} => link(d) \in G
    BY <1>6
  <2>2. \A d \in Dead : below(d) = {} => link(d) = freeStack
    OBVIOUS
  <2> QED
    BY <1>8, <2>1, <2>2 DEF ClosedUnder
<1>13. \A x \in S : table'[x] = table[x]
  BY <1>4, <1>9
<1>14. freeStack' # 0 => freeStack' \in S \cup G
  BY <1>5, <1>7, <1>8 DEF ClosedUnder
<1>15. ClosedUnder(S \cup G, freeStack', table', 0)
  <2>1. ASSUME NEW x \in S \cup G, table'[x] # 0
        PROVE  table'[x] \in S \cup G
    <3>1. CASE x \in S
      BY <1>8, <1>13, <2>1, <3>1 DEF ClosedUnder
    <3>2. CASE x \in G
      <4>1. PICK d \in Dead : x = e(d)
        BY <3>2
      <4>2. table'[x] = link(d)
        BY <1>4, <4>1
      <4> HIDE DEF link, S, G
      <4> QED
        BY <1>12, <2>1, <4>2
    <3> QED
      BY <2>1, <3>1, <3>2
  <2> HIDE DEF S, G
  <2> QED
    BY <1>4, <1>11, <1>14, <2>1 DEF ClosedUnder
<1>16. ASSUME NEW T \in SUBSET DOMAIN table', ClosedUnder(T, freeStack', table', 0)
       PROVE  S \cup G \subseteq T
  <2>1. \A d \in Dead : link(d) # 0 /\ e(d) \in T => link(d) \in T
    <3> HIDE DEF link, e
    <3> QED
      BY <1>4, <1>16 DEF ClosedUnder
  <2>2. G \subseteq T
    <3> DEFINE B == {d \in Dead : e(d) \notin T}
    <3>1. SUFFICES ASSUME B # {}
                   PROVE  FALSE
      OBVIOUS
    <3>2. PICK g \in B : \A c \in B : c <= g
      <4>1. B \subseteq Nat /\ \A c \in B : c <= Size
        BY <1>2
      <4> HIDE DEF B
      <4> QED
        BY <3>1, <4>1, Greatest, Sizes
    <3> DEFINE A == {c \in Dead : c > g}
    <3>3. e(Max(Dead)) \in T /\ Max(Dead) \in Dead
      BY <1>2, <1>3, <1>5, <1>7, <1>16, <3>1 DEF ClosedUnder
    <3>4. Max(Dead) \in A
      <4>1. Max(Dead) # g /\ g <= Max(Dead) /\ g \in Nat /\ Max(Dead) \in Nat
        BY <1>2, <1>7, <3>2, <3>3
      <4> QED
        BY <3>3, <4>1
    <3>5. PICK h \in A : \A c \in A : h <= c
      <4>1. A \subseteq Nat /\ A # {}
        BY <1>2, <3>4
      <4> HIDE DEF A
      <4> QED
        BY <4>1, Least
    <3>6. h \in Dead /\ g \in below(h) /\ e(h) \in T /\ h \in Nat /\ g \in Nat
      <4>1. h \in Dead /\ h > g /\ h \in Nat /\ g \in Nat /\ g \in Dead
        BY <1>2, <3>2, <3>5
      <4>2. h \notin B
        BY <3>2, <4>1
      <4> QED
        BY <4>1, <4>2
    <3>7. Max(below(h)) = g
      <4> DEFINE m == Max(below(h))
      <4>1. m \in below(h) /\ g <= m
        BY <1>6, <3>6
      <4> HIDE DEF m
      <4>2. m \in Dead /\ m < h /\ m \in Nat
        BY <1>2, <4>1
      <4>3. ~(m > g)
        BY <3>5, <3>6, <4>2
      <4>4. m = g
        BY <3>6, <4>1, <4>2, <4>3
      <4> QED
        BY <4>4 DEF m
    <3>8. link(h) = e(g)
      BY <3>6, <3>7
    <3>9. e(g) # 0 /\ e(g) \notin T
      BY <1>2, <1>3, <3>2
    <3> QED
      BY <2>1, <3>6, <3>8, <3>9
  <2>3. freeStack # 0 => freeStack \in T
    <3>1. CASE Dead = {}
      BY <1>5, <1>16, <3>1 DEF ClosedUnder
    <3>2. CASE Dead # {}
      <4>1. PICK l \in Dead : \A c \in Dead : l <= c
        BY <1>2, <3>2, Least
      <4>2. below(l) = {}
        BY <1>2, <4>1
      <4>3. link(l) = freeStack /\ e(l) \in T
        BY <2>2, <4>1, <4>2
      <4> QED
        BY <2>1, <4>1, <4>3
    <3> QED
      BY <3>1, <3>2
  <2>4. ClosedUnder(T \cap S, freeStack, table, 0)
    <3>1. \A x \in T \cap S : table[x] # 0 => table[x] \in T \cap S
      BY <1>8, <1>13, <1>16 DEF ClosedUnder
    <3>2. freeStack # 0 => freeStack \in T \cap S
      BY <1>8, <2>3 DEF ClosedUnder
    <3>3. T \cap S \subseteq DOMAIN table
      OBVIOUS
    <3> HIDE DEF S
    <3> QED
      BY <3>1, <3>2, <3>3 DEF ClosedUnder
  <2>5. T \cap S \in SUBSET DOMAIN table
    OBVIOUS
  <2>6. S \subseteq T \cap S
    BY <2>4, <2>5 DEF StackOk
  <2> QED
    BY <2>2, <2>6
<1>17. \A i \in S \cup G : table'[i] # 0 => table'[i] # freeStack'
  <2>1. ASSUME NEW i \in S, table'[i] # 0, table'[i] = freeStack'
        PROVE  FALSE
    <3>1. table'[i] \in S /\ table'[i] # freeStack
      BY <1>8, <1>13, <2>1 DEF ClosedUnder, StackOk
    <3>2. freeStack' \in G
      BY <1>5, <1>7, <2>1, <3>1
    <3> QED
      BY <1>9, <2>1, <3>1, <3>2
  <2>2. ASSUME NEW d \in Dead, link(d) # 0, link(d) = freeStack'
        PROVE  FALSE
    <3>1. freeStack' = e(Max(Dead)) /\ Max(Dead) \in Dead /\ d <= Max(Dead)
      BY <1>5, <1>7
    <3>2. freeStack' \in G
      BY <3>1
    <3>3. below(d) # {}
      BY <1>8, <1>9, <2>2, <3>2 DEF ClosedUnder
    <3> DEFINE m == Max(below(d))
    <3>4. m \in below(d) /\ link(d) = e(m)
      BY <1>6, <3>3
    <3> HIDE DEF m, link
    <3>5. m \in Dead /\ m < d
      BY <3>4
    <3>6. m = Max(Dead)
      BY <1>2, <1>3, <2>2, <3>1, <3>4, <3>5
    <3> QED
      BY <1>2, <3>1, <3>5, <3>6
  <2> HIDE DEF link
  <2> QED
    BY <1>4, <2>1, <2>2
<1>18. \A i, j \in S \cup G : table'[i] = table'[j] /\ table'[i] # 0 => i = j
  <2>1. ASSUME NEW i \in S, NEW j \in S, table'[i] = table'[j], table'[i] # 0
        PROVE  i = j
    BY <1>13, <2>1 DEF StackOk
  <2>2. ASSUME NEW i \in S, NEW d \in Dead, table'[i] = link(d), table'[i] # 0
        PROVE  FALSE
    <3>1. table'[i] \in S /\ table'[i] # freeStack
      BY <1>8, <1>13, <2>2 DEF ClosedUnder, StackOk
    <3>2. link(d) \in G
      BY <1>6, <2>2, <3>1
    <3> QED
      BY <1>9, <2>2, <3>1, <3>2
  <2>3. ASSUME NEW d \in Dead, NEW f \in Dead, link(d) = link(f), link(d) # 0, d < f
        PROVE  FALSE
    <3>1. d \in below(f)
      BY <2>3
    <3> DEFINE m == Max(below(f))
    <3>2. m \in below(f) /\ d <= m /\ link(f) = e(m)
      BY <1>6, <3>1
    <3>3. m \in Dead /\ link(f) \in G
      BY <3>2
    <3>4. below(d) # {}
      BY <1>8, <1>9, <2>3, <3>3 DEF ClosedUnder
    <3> DEFINE k == Max(below(d))
    <3>5. k \in below(d) /\ link(d) = e(k)
      BY <1>6, <3>4
    <3> HIDE DEF m, k, link
    <3>6. k \in Dead /\ k < d /\ k \in Nat /\ m \in Nat /\ d \in Nat
      BY <1>2, <3>3, <3>5
    <3>7. k = m
      BY <1>2, <1>3, <2>3, <3>2, <3>3, <3>5, <3>6
    <3> QED
      BY <3>2, <3>6, <3>7
  <2>4. \A d, f \in Dead : d < f \/ f < d \/ d = f
    BY <1>2
  <2>5. ASSUME NEW i \in S \cup G, NEW j \in S \cup G, table'[i] = table'[j], table'[i] # 0
        PROVE  i = j
    <3>1. CASE i \in S /\ j \in S
      BY <2>1, <2>5, <3>1
    <3>2. CASE i \in S /\ j \in G
      <4>1. PICK d \in Dead : j = e(d)
        BY <3>2
      <4> HIDE DEF link
      <4> QED
        BY <1>4, <2>2, <2>5, <3>2, <4>1
    <3>3. CASE i \in G /\ j \in S
      <4>1. PICK d \in Dead : i = e(d)
        BY <3>3
      <4> HIDE DEF link
      <4> QED
        BY <1>4, <2>2, <2>5, <3>3, <4>1
    <3>4. CASE i \in G /\ j \in G
      <4>1. PICK d \in Dead : i = e(d)
        BY <3>4
      <4>2. PICK f \in Dead : j = e(f)
        BY <3>4
      <4> HIDE DEF link
      <4> QED
        BY <1>4, <2>3, <2>4, <2>5, <4>1, <4>2
    <3> QED
      BY <2>5, <3>1, <3>2, <3>3, <3>4
  <2> QED
    BY <2>5
<1>19. StackOk(freeStack', table', UsedEntries \ G)
  <2> HIDE DEF S, G
  <2> QED
    BY <1>11, <1>15, <1>16, <1>17, <1>18 DEF StackOk
<1>20. \A i \in DOMAIN table' : table'[i] \in Nat
  <2>1. \A x \in S \cup G : table'[x] # 0 => table'[x] \in DOMAIN table
    BY <1>15, <1>4, <1>9 DEF ClosedUnder
  <2>2. \A i \in DOMAIN table \ (S \cup G) : table'[i] = table[i] /\ table[i] \in Nat
    BY <1>1, <1>4
  <2> QED
    BY <1>1, <1>4, <2>1, <2>2
<1>21. table' \in Seq(Nat) /\ Len(table') = Len(table)
  <2>1. table' = [i \in DOMAIN table |-> table'[i]]
    BY <1>4 DEF RemoveObjects
  <2>2. table' = [i \in 1..Len(table) |-> table'[i]]
    BY <1>1, <2>1
  <2> QED
    BY <1>1, <1>4, <1>20, <2>2
<1>22. freeStack' \in 0..Len(table')
  <2>1. S \cup G \subseteq 1..Len(table)
    BY <1>1, <1>9
  <2> HIDE DEF S, G
  <2>2. freeStack' = 0 \/ freeStack' \in 1..Len(table)
    BY <1>14, <2>1
  <2> QED
    BY <1>1, <1>21, <2>2
<1>23. \A c \in DOMAIN blocks \ Dead : ~blocks[c].free => table'[e(c)] = table[e(c)]
  <2>1. \A c \in DOMAIN blocks \ Dead : ~blocks[c].free => e(c) \in DOMAIN table \ G
    BY <1>2, <1>3
  <2> HIDE DEF G, e
  <2> QED
    BY <1>4, <2>1
<1> QED
  BY <1>4, <1>10, <1>19, <1>21, <1>22, <1>23

-----------------------------------------------------------------------------
(* Steps that leave the heap alone, and the constructor.                     *)

LEMMA InitInv == Init => MemInv
<1> SUFFICES ASSUME Init PROVE MemInv
  OBVIOUS
<1>1. /\ DOMAIN blocks = {0} /\ blocks[0] = [size |-> Size, free |-> TRUE, next |-> Null, entry |-> 0]
      /\ freeListStart = 0 /\ freeSize = Size /\ table = << >> /\ freeStack = 0
      /\ reachable = {} /\ under = Null /\ want = 0 /\ depth = 0 /\ pc = "idle"
  BY DEF Init, Block
<1>2. 0 \in Address /\ Size \in 1..Size
  BY Sizes
<1>3. TypeOK
  <2>1. /\ DOMAIN blocks \subseteq Address /\ freeListStart \in Address /\ freeSize \in Int
        /\ blocks[0] \in [size : 1..Size, free : BOOLEAN, next : Address \cup {Null}, entry : Nat]
    BY <1>1, <1>2, Sizes
  <2>2. table \in Seq(Nat) /\ Len(table) = 0
    BY <1>1
  <2>3. 0 \in 0..MaxDepth
    BY MaxDepthAssumption
  <2> QED
    BY <1>1, <2>1, <2>2, <2>3 DEF TypeOK
<1>4. End(0) = Size
  BY <1>1, Sizes DEF End
<1>5. Tiled
  BY <1>1, <1>4 DEF Tiled
<1>6. List = {0}
  BY <1>1, Sizes DEF List, FreeBlocks
<1>7. ListOrdered
  BY <1>1, <1>4, <1>6 DEF ListOrdered
<1>8. UsedEntries = {} /\ DOMAIN table = {}
  BY <1>1 DEF UsedEntries
<1>9. StackOk(freeStack, table, UsedEntries)
  BY <1>1, <1>8 DEF StackOk, ClosedUnder
<1>10. freeSize <= Cardinality(FreeUnits)
  <2>1. FreeUnits = 0..(Size - 1)
    BY <1>4, <1>6 DEF FreeUnits, Address
  <2>2. Cardinality(0..(Size - 1)) = Size
    BY FS_Interval, Sizes
  <2> QED
    BY <1>1, <2>1, <2>2, Sizes
<1>11. UnderOk /\ EntriesOwn /\ ReachableLive
  BY <1>1 DEF UnderOk, EntriesOwn, ReachableLive
<1> QED
  BY <1>3, <1>5, <1>7, <1>9, <1>10, <1>11 DEF MemInv, InOrder

LEMMA HeapUnchanged ==
  ASSUME UNCHANGED <<heap, objects>>
  PROVE  /\ Tiled => Tiled'
         /\ ListOrdered /\ under' = under => ListOrdered'
         /\ EntriesOwn => EntriesOwn'
         /\ StackOk(freeStack, table, UsedEntries) => StackOk(freeStack', table', UsedEntries')
         /\ freeSize <= Cardinality(FreeUnits) /\ under' = under => freeSize' <= Cardinality(FreeUnits')
<1>1. blocks' = blocks /\ freeListStart' = freeListStart /\ freeSize' = freeSize
      /\ table' = table /\ freeStack' = freeStack
  BY DEF heap, objects
<1>2. Tiled => Tiled'
  BY <1>1 DEF Tiled, End
<1>3. under' = under => List' = List
  BY <1>1 DEF List, FreeBlocks
<1>4. ListOrdered /\ under' = under => ListOrdered'
  BY <1>1, <1>3 DEF ListOrdered, End
<1>5. EntriesOwn => EntriesOwn'
  BY <1>1 DEF EntriesOwn
<1>6. UsedEntries' = UsedEntries
  BY <1>1 DEF UsedEntries
<1>7. under' = under => FreeUnits' = FreeUnits
  BY <1>1, <1>3 DEF FreeUnits, End
<1> QED
  BY <1>1, <1>2, <1>4, <1>5, <1>6, <1>7

LEMMA NewKeeps == ASSUME MemInv, NEW n \in Requests, New(n) PROVE MemInv'
<1>1. UNCHANGED <<heap, objects>> /\ under' = under /\ reachable' = reachable
      /\ want' = n /\ depth' = 1 /\ pc' = "enter" /\ pc \in {"idle", "raw"}
  BY DEF New
<1>2. blocks' = blocks /\ freeListStart' = freeListStart /\ freeSize' = freeSize
      /\ table' = table /\ freeStack' = freeStack
  BY <1>1 DEF heap, objects
<1>3. TypeOK /\ Tiled /\ InOrder
  BY <1>1 DEF MemInv, Alive
<1>4. TypeOK'
  BY <1>1, <1>2, <1>3, MaxDepthAssumption DEF TypeOK
<1>5. UnderOk'
  BY <1>1, <1>2, <1>3 DEF InOrder, UnderOk, FreeBlocks
<1>6. ReachableLive'
  BY <1>1, <1>2, <1>3 DEF InOrder, ReachableLive
<1> QED
  BY <1>1, <1>3, <1>4, <1>5, <1>6, HeapUnchanged DEF MemInv, InOrder

LEMMA DropKeeps == ASSUME MemInv, NEW b \in reachable, Drop(b) PROVE MemInv'
<1>1. UNCHANGED <<heap, objects>> /\ under' = under /\ reachable' \subseteq reachable
      /\ want' = want /\ depth' = depth /\ pc' = pc /\ pc = "idle"
  BY DEF Drop
<1>2. blocks' = blocks /\ freeListStart' = freeListStart /\ freeSize' = freeSize
      /\ table' = table /\ freeStack' = freeStack
  BY <1>1 DEF heap, objects
<1>3. TypeOK /\ Tiled /\ InOrder
  BY <1>1 DEF MemInv, Alive
<1>4. TypeOK'
  BY <1>1, <1>2, <1>3 DEF TypeOK
<1>5. UnderOk'
  BY <1>1, <1>2, <1>3 DEF InOrder, UnderOk, FreeBlocks
<1>6. ReachableLive'
  BY <1>1, <1>2, <1>3 DEF InOrder, ReachableLive
<1> QED
  BY <1>1, <1>3, <1>4, <1>5, <1>6, HeapUnchanged DEF MemInv, InOrder

LEMMA ConstructKeeps == ASSUME MemInv, Construct PROVE MemInv'
<1>1. /\ blocks' = [blocks EXCEPT ![under].free = FALSE, ![under].entry = NewEntry]
      /\ AddObject(under) /\ reachable' = reachable \cup {under} /\ under' = Null /\ pc' = "idle"
      /\ freeListStart' = freeListStart /\ freeSize' = freeSize /\ want' = want /\ depth' = depth
      /\ pc \in {"raw", "ready"}
  BY DEF Construct
<1>2. TypeOK /\ Tiled /\ InOrder
  BY <1>1 DEF MemInv, Alive
<1>3. under \in FreeBlocks /\ under \in DOMAIN blocks /\ blocks[under].free
  BY <1>1, <1>2 DEF InOrder, UnderOk, FreeBlocks
<1>4. /\ under \in Nat /\ under < Size
      /\ DOMAIN blocks \subseteq Address /\ table \in Seq(Nat)
      /\ \A b \in DOMAIN blocks :
           blocks[b] \in [size : 1..Size, free : BOOLEAN, next : Address \cup {Null}, entry : Nat]
  BY <1>2, <1>3, BlockFacts DEF TypeOK
<1>5. UsedEntries \subseteq DOMAIN table
  BY <1>2 DEF InOrder, EntriesOwn, UsedEntries
<1>6. /\ NewEntry \in DOMAIN table' /\ NewEntry \in Nat /\ NewEntry \notin UsedEntries
      /\ table'[NewEntry] = under
      /\ \A i \in DOMAIN table : i # NewEntry => i \in DOMAIN table' /\ table'[i] = table[i]
      /\ table' \in Seq(Nat) /\ freeStack' \in 0..Len(table')
      /\ StackOk(freeStack', table', UsedEntries \cup {NewEntry})
  BY <1>1, <1>2, <1>4, <1>5, AddObjectGives DEF InOrder
<1>7. /\ DOMAIN blocks' = DOMAIN blocks
      /\ \A b \in DOMAIN blocks : b # under => blocks'[b] = blocks[b]
      /\ blocks'[under] = [blocks[under] EXCEPT !.free = FALSE, !.entry = NewEntry]
  BY <1>1, <1>3
<1>8. /\ blocks'[under].size = blocks[under].size /\ ~blocks'[under].free
      /\ blocks'[under].entry = NewEntry
      /\ blocks'[under] \in [size : 1..Size, free : BOOLEAN, next : Address \cup {Null}, entry : Nat]
  <2>1. blocks[under] \in [size : 1..Size, free : BOOLEAN, next : Address \cup {Null}, entry : Nat]
    BY <1>3, <1>4
  <2> DEFINE r == blocks[under]
  <2> HIDE DEF r
  <2>2. blocks'[under] = [r EXCEPT !.free = FALSE, !.entry = NewEntry]
        /\ r \in [size : 1..Size, free : BOOLEAN, next : Address \cup {Null}, entry : Nat]
    BY <1>7, <2>1 DEF r
  <2>3. blocks'[under].size = r.size
    BY <2>2
  <2> QED
    BY <1>6, <2>2, <2>3 DEF r
<1>9. /\ FreeBlocks' = FreeBlocks \ {under} /\ List' = List
  <2>1. FreeBlocks' = FreeBlocks \ {under}
    BY <1>7, <1>8 DEF FreeBlocks
  <2>2. Null \notin FreeBlocks
    BY <1>4, Sizes DEF FreeBlocks
  <2> QED
    BY <1>1, <2>1, <2>2 DEF List
<1>10. \A b \in DOMAIN blocks : End(b)' = End(b)
  BY <1>7, <1>8 DEF End
<1>11. TypeOK'
  BY <1>1, <1>2, <1>4, <1>6, <1>7, <1>8, Sizes DEF TypeOK
<1>12. Tiled'
  BY <1>2, <1>7, <1>10 DEF Tiled
<1>13. ListOrdered'
  <2>1. \A b \in List : b \in DOMAIN blocks /\ blocks'[b] = blocks[b]
    BY <1>2, <1>7, ListFacts DEF List
  <2> QED
    BY <1>1, <1>2, <1>9, <1>10, <2>1 DEF InOrder, ListOrdered
<1>14. UsedEntries' = UsedEntries \cup {NewEntry}
  <2>1. \A b \in DOMAIN blocks : ~blocks'[b].free <=> ~blocks[b].free \/ b = under
    BY <1>7, <1>8
  <2>2. \A b \in DOMAIN blocks : ~blocks[b].free => blocks'[b].entry = blocks[b].entry
    BY <1>3, <1>7
  <2> QED
    <3>1. \A i \in UsedEntries' : \E c \in DOMAIN blocks' : ~blocks'[c].free /\ i = blocks'[c].entry
      BY DEF UsedEntries
    <3>2. \A i \in UsedEntries : \E c \in DOMAIN blocks : ~blocks[c].free /\ i = blocks[c].entry
      BY DEF UsedEntries
    <3>3. UsedEntries' \subseteq UsedEntries \cup {NewEntry}
      <4>1. ASSUME NEW c \in DOMAIN blocks', ~blocks'[c].free
            PROVE  blocks'[c].entry \in UsedEntries \cup {NewEntry}
        BY <1>7, <1>8, <2>1, <2>2, <4>1 DEF UsedEntries
      <4> QED
        BY <3>1, <4>1
    <3>4. UsedEntries \subseteq UsedEntries'
      <4>1. ASSUME NEW c \in DOMAIN blocks, ~blocks[c].free
            PROVE  blocks[c].entry \in UsedEntries'
        BY <1>7, <2>1, <2>2, <4>1 DEF UsedEntries
      <4> QED
        BY <3>2, <4>1
    <3>5. NewEntry \in UsedEntries'
      BY <1>3, <1>7, <1>8 DEF UsedEntries
    <3> QED
      BY <3>3, <3>4, <3>5
<1>15. EntriesOwn'
  <2>1. ASSUME NEW b \in DOMAIN blocks, ~blocks[b].free
        PROVE  blocks[b].entry \in DOMAIN table' /\ table'[blocks[b].entry] = b
    <3>1. blocks[b].entry \in UsedEntries /\ blocks[b].entry \in DOMAIN table
          /\ table[blocks[b].entry] = b
      BY <1>2, <2>1 DEF InOrder, EntriesOwn, UsedEntries
    <3> QED
      BY <1>6, <3>1
  <2>2. ASSUME NEW b \in DOMAIN blocks', ~blocks'[b].free
        PROVE  blocks'[b].entry \in DOMAIN table' /\ table'[blocks'[b].entry] = b
    <3>1. CASE b = under
      BY <1>6, <1>8, <3>1
    <3>2. CASE b # under
      BY <1>7, <2>1, <2>2, <3>2
    <3> QED
      BY <3>1, <3>2
  <2> QED
    BY <2>2 DEF EntriesOwn
<1>16. FreeUnits' = FreeUnits
  <2>1. List \subseteq DOMAIN blocks
    BY <1>2, ListFacts
  <2> QED
    BY <1>9, <1>10, <2>1 DEF FreeUnits
<1>17. UnderOk' /\ ReachableLive'
  BY <1>1, <1>2, <1>3, <1>7, <1>8 DEF InOrder, UnderOk, ReachableLive
<1> QED
  BY <1>1, <1>2, <1>6, <1>11, <1>12, <1>13, <1>14, <1>15, <1>16, <1>17 DEF MemInv, InOrder

-----------------------------------------------------------------------------
(* Memory is taken from the list.                                           *)

BlockType == [size : 1..Size, free : BOOLEAN, next : Address \cup {Null}, entry : Nat]

\* What a perfect fit and a split write in common: a header for the memory, and
\* for a split one for the rest of it, which takes its place in the list.
Taken(b, rest, bs) ==
  /\ DOMAIN bs = DOMAIN blocks \cup {rest}
  /\ bs[b] = HandOut(b)
  /\ \A x \in DOMAIN blocks \ {b} : bs[x] = blocks[x]
  /\ \/ /\ blocks[b].size = want
        /\ rest = blocks[b].next /\ rest # Null
     \/ /\ blocks[b].size > want
        /\ rest = b + want
        /\ bs[rest] = Block(blocks[b].size - want, TRUE, blocks[b].next, 0)

\* The heap after that, field by field.
Took(b, rest) ==
  /\ DOMAIN blocks' = DOMAIN blocks \cup {rest}
  /\ \A x \in DOMAIN blocks' : blocks'[x] \in BlockType
  /\ \A x \in DOMAIN blocks \ {b} :
       /\ blocks'[x].size = blocks[x].size
       /\ blocks'[x].free = blocks[x].free
       /\ blocks'[x].entry = blocks[x].entry
       /\ x \in List => blocks'[x].next = IF blocks[x].next = b THEN rest ELSE blocks[x].next
  /\ blocks'[b].size = want /\ (blocks'[b].free <=> under = Null)
  /\ under # Null => blocks'[b].entry = NewEntry
  /\ \/ /\ blocks[b].size = want /\ rest = blocks[b].next /\ rest \in List
     \/ /\ blocks[b].size > want /\ rest = b + want /\ rest \notin DOMAIN blocks
        /\ blocks'[rest].size = blocks[b].size - want
        /\ blocks'[rest].free /\ blocks'[rest].next = blocks[b].next
  /\ b < rest /\ rest \in Address
  /\ freeListStart' = IF b = freeListStart THEN rest ELSE freeListStart

LEMMA RestFacts ==
  ASSUME TypeOK, Tiled, ListOrdered, NEW b \in List, want \in Nat, want >= 1,
         NEW rest, NEW bs, Taken(b, rest, bs)
  PROVE  /\ b \in Nat /\ rest \in Nat /\ b < rest /\ rest \in Address /\ b \in DOMAIN blocks
         /\ \A x \in DOMAIN bs : bs[x] \in BlockType
         /\ \/ blocks[b].size = want /\ rest \in List
            \/ blocks[b].size > want /\ rest \notin DOMAIN blocks
<1>1. b \in DOMAIN blocks
  BY ListFacts
<1>2. /\ b \in Nat /\ b < Size /\ End(b) = b + blocks[b].size /\ b < End(b) /\ End(b) <= Size
      /\ blocks[b].size \in Nat /\ blocks[b].next \in Address \cup {Null}
      /\ \A c \in DOMAIN blocks : b < c => End(b) <= c
  BY <1>1, BlockFacts
<1>3. want <= blocks[b].size /\ want \in 1..Size
  <2>1. want <= blocks[b].size
    <3>1. blocks[b].size = want \/ blocks[b].size > want
      BY DEF Taken
    <3> QED
      BY <1>2, <3>1
  <2> QED
    BY <1>2, <2>1, Sizes
<1>4. bs[b] \in BlockType
  BY <1>2, <1>3, Sizes DEF Taken, HandOut, Block, BlockType
<1>5. \A x \in DOMAIN blocks \ {b} : bs[x] \in BlockType
  BY DEF Taken, TypeOK, BlockType
<1>6. CASE blocks[b].size = want /\ rest = blocks[b].next /\ rest # Null
  <2>1. rest \in List /\ b < rest
    BY <1>6 DEF ListOrdered
  <2>2. rest \in DOMAIN blocks /\ rest \in Nat
    BY <2>1, ListFacts
  <2>3. DOMAIN bs = DOMAIN blocks
    BY <2>2 DEF Taken
  <2> QED
    BY <1>1, <1>2, <1>4, <1>5, <1>6, <2>1, <2>2, <2>3
<1>7. CASE blocks[b].size > want /\ rest = b + want
           /\ bs[rest] = Block(blocks[b].size - want, TRUE, blocks[b].next, 0)
  <2>1. rest \in Nat /\ b < rest /\ rest < End(b)
    BY <1>2, <1>3, <1>7
  <2>2. rest \notin DOMAIN blocks
    BY <1>2, <2>1
  <2>3. rest \in Address
    BY <1>2, <2>1, Sizes
  <2>4. bs[rest] \in BlockType
    BY <1>2, <1>3, <1>7, Sizes DEF Block, BlockType
  <2>5. DOMAIN bs = DOMAIN blocks \cup {rest}
    BY DEF Taken
  <2> QED
    BY <1>1, <1>2, <1>4, <1>5, <1>7, <2>1, <2>2, <2>3, <2>4, <2>5
<1> QED
  BY <1>6, <1>7 DEF Taken

LEMMA TakenTook ==
  ASSUME TypeOK, Tiled, ListOrdered, NEW b \in List, want \in Nat, want >= 1,
         NEW rest, NEW bs, Taken(b, rest, bs), Deliver(b, rest, bs)
  PROVE  Took(b, rest)
<1> DEFINE fin == IF under = Null THEN bs
                  ELSE [bs EXCEPT ![b].free = FALSE, ![b].entry = NewEntry]
<1>1. /\ b \in Nat /\ rest \in Nat /\ b < rest /\ rest \in Address /\ b \in DOMAIN blocks
      /\ \A x \in DOMAIN bs : bs[x] \in BlockType
      /\ \/ blocks[b].size = want /\ rest \in List
         \/ blocks[b].size > want /\ rest \notin DOMAIN blocks
  BY RestFacts
<1>2. /\ DOMAIN bs = DOMAIN blocks \cup {rest} /\ b \in DOMAIN bs
      /\ bs[b] = [size |-> want, free |-> TRUE, next |-> b, entry |-> 0]
      /\ \A x \in DOMAIN blocks \ {b} : bs[x] = blocks[x]
  BY <1>1 DEF Taken, HandOut, Block
<1>3. NewEntry \in Nat
  BY DEF TypeOK, NewEntry
<1>4. /\ DOMAIN fin = DOMAIN bs
      /\ \A x \in DOMAIN bs \ {b} : fin[x] = bs[x]
      /\ fin[b] \in BlockType /\ fin[b].size = want /\ (fin[b].free <=> under = Null)
      /\ under # Null => fin[b].entry = NewEntry
  <2>1. CASE under = Null
    BY <1>1, <1>2, <2>1
  <2>2. CASE under # Null
    <3>1. fin = [bs EXCEPT ![b].free = FALSE, ![b].entry = NewEntry]
      BY <2>2
    <3> HIDE DEF fin
    <3> DEFINE r == bs[b]
    <3>2. fin[b] = [size |-> want, free |-> FALSE, next |-> b, entry |-> NewEntry]
      <4>1. fin[b] = [r EXCEPT !.free = FALSE, !.entry = NewEntry]
        BY <1>2, <3>1
      <4>2. r = [size |-> want, free |-> TRUE, next |-> b, entry |-> 0]
        BY <1>2
      <4> HIDE DEF r
      <4> QED
        BY <4>1, <4>2
    <3>3. want \in 1..Size /\ b \in Address
      <4>1. r \in BlockType
        BY <1>1, <1>2
      <4>2. r = [size |-> want, free |-> TRUE, next |-> b, entry |-> 0]
        BY <1>2
      <4> HIDE DEF r
      <4> QED
        BY <1>1, <4>1, <4>2 DEF BlockType, TypeOK
    <3>4. fin[b] \in BlockType
      BY <1>3, <3>2, <3>3 DEF BlockType
    <3> QED
      BY <1>2, <2>2, <3>1, <3>2, <3>4
  <2> QED
    BY <2>1, <2>2
<1>5. Relinked(b, rest, fin)
  BY DEF Deliver
<1>6. /\ freeListStart' = IF b = freeListStart THEN rest ELSE freeListStart
      /\ blocks' = IF b = freeListStart THEN fin ELSE [fin EXCEPT ![Before(b)].next = rest]
  BY <1>5 DEF Relinked
<1>7. b # freeListStart => /\ Before(b) \in List /\ Before(b) # b /\ Before(b) # rest
                           /\ blocks[Before(b)].next = b /\ Before(b) \in DOMAIN blocks
  BY <1>1, BeforeFacts, ListFacts
<1>8. \A x \in List : blocks[x].next = b => b # freeListStart /\ x = Before(b)
  <2> SUFFICES ASSUME NEW x \in List, blocks[x].next = b
               PROVE  b # freeListStart /\ x = Before(b)
    OBVIOUS
  <2>1. x < b /\ x \in Nat /\ freeListStart \in Nat /\ freeListStart <= x
        /\ \A c \in List : c <= x \/ b <= c
    BY <1>1, ListFacts, Sizes DEF ListOrdered
  <2>2. b # freeListStart
    BY <1>1, <2>1
  <2> DEFINE a == Before(b)
  <2>3. a \in List /\ blocks[a].next = b /\ a \in Nat /\ a < b
    BY <2>2, BeforeFacts
  <2> HIDE DEF a
  <2>4. \A c \in List : c <= a \/ b <= c
    BY <1>1, <2>3, Sizes DEF ListOrdered
  <2>5. x <= a /\ a <= x
    BY <1>1, <2>1, <2>3, <2>4
  <2>6. x = a
    BY <2>1, <2>3, <2>5
  <2> QED
    BY <2>2, <2>6 DEF a
<1> HIDE DEF fin
<1>9. /\ DOMAIN blocks' = DOMAIN bs
      /\ \A x \in DOMAIN bs :
           /\ blocks'[x] \in BlockType
           /\ blocks'[x].size = fin[x].size /\ blocks'[x].free = fin[x].free
           /\ blocks'[x].entry = fin[x].entry
           /\ blocks'[x].next = IF b # freeListStart /\ x = Before(b) THEN rest ELSE fin[x].next
  <2>1. \A x \in DOMAIN bs : fin[x] \in BlockType
    BY <1>1, <1>4
  <2>2. CASE b = freeListStart
    BY <1>4, <1>6, <2>1, <2>2
  <2>3. CASE b # freeListStart
    <3> DEFINE a == Before(b)
               r == fin[a]
    <3>1. a \in DOMAIN bs /\ r \in BlockType
      BY <1>2, <1>7, <2>1, <2>3
    <3>2. blocks' = [fin EXCEPT ![a] = [r EXCEPT !.next = rest]]
      BY <1>6, <2>3
    <3> HIDE DEF r
    <3>3. /\ [r EXCEPT !.next = rest] \in BlockType
          /\ [r EXCEPT !.next = rest].size = r.size /\ [r EXCEPT !.next = rest].free = r.free
          /\ [r EXCEPT !.next = rest].entry = r.entry /\ [r EXCEPT !.next = rest].next = rest
      BY <1>1, <3>1 DEF BlockType
    <3> HIDE DEF a
    <3>4. blocks'[a] = [r EXCEPT !.next = rest] /\ DOMAIN blocks' = DOMAIN bs
          /\ \A x \in DOMAIN bs \ {a} : blocks'[x] = fin[x]
      BY <1>4, <3>1, <3>2
    <3>5. fin[a] = r
      BY DEF r
    <3>6. \A x \in DOMAIN bs : x # a => x # Before(b)
      BY DEF a
    <3>7. a = Before(b)
      BY DEF a
    <3> HIDE DEF BlockType
    <3> QED
      BY <2>1, <2>3, <3>3, <3>4, <3>5, <3>6, <3>7
  <2> QED
    BY <2>2, <2>3
<1>10. \A x \in DOMAIN blocks \ {b} :
         /\ blocks'[x].size = blocks[x].size
         /\ blocks'[x].free = blocks[x].free
         /\ blocks'[x].entry = blocks[x].entry
         /\ x \in List => blocks'[x].next = IF blocks[x].next = b THEN rest ELSE blocks[x].next
  BY <1>2, <1>4, <1>7, <1>8, <1>9
<1>11. /\ blocks'[b].size = want /\ (blocks'[b].free <=> under = Null)
       /\ under # Null => blocks'[b].entry = NewEntry
  BY <1>2, <1>4, <1>9
<1>12. \/ /\ blocks[b].size = want /\ rest = blocks[b].next /\ rest \in List
       \/ /\ blocks[b].size > want /\ rest = b + want /\ rest \notin DOMAIN blocks
          /\ blocks'[rest].size = blocks[b].size - want
          /\ blocks'[rest].free /\ blocks'[rest].next = blocks[b].next
  <2>1. CASE blocks[b].size = want /\ rest = blocks[b].next /\ rest # Null
    BY <1>1, <2>1
  <2>2. CASE blocks[b].size > want /\ rest = b + want
             /\ bs[rest] = Block(blocks[b].size - want, TRUE, blocks[b].next, 0)
    <3>1. rest \notin DOMAIN blocks /\ rest # b
      BY <1>1, <2>2
    <3>2. fin[rest] = [size |-> blocks[b].size - want, free |-> TRUE, next |-> blocks[b].next,
                       entry |-> 0]
      BY <1>2, <1>4, <2>2, <3>1 DEF Block
    <3> QED
      BY <1>2, <1>7, <1>9, <2>2, <3>1, <3>2
  <2> QED
    BY <2>1, <2>2 DEF Taken
<1>13. DOMAIN blocks' = DOMAIN blocks \cup {rest} /\ \A x \in DOMAIN blocks' : blocks'[x] \in BlockType
  BY <1>2, <1>9
<1> QED
  BY <1>1, <1>6, <1>10, <1>11, <1>12, <1>13 DEF Took

\* Whether there is a rest that was no block before.
IsCut(b, rest) == blocks[b].size > want

LEMMA TookEnds ==
  ASSUME TypeOK, Tiled, ListOrdered, NEW b \in List, want \in Nat, want >= 1,
         NEW rest, Took(b, rest)
  PROVE  /\ b \in DOMAIN blocks /\ b \in Nat /\ rest \in Nat /\ b < rest
         /\ \A x \in DOMAIN blocks \ {b} : End(x)' = End(x)
         /\ \A x \in DOMAIN blocks : x < b => End(x) <= b
         /\ \A x \in DOMAIN blocks : x \in Nat /\ (x < b \/ x = b \/ x > b)
         /\ \/ /\ ~IsCut(b, rest) /\ rest \in List /\ rest = blocks[b].next
               /\ DOMAIN blocks' = DOMAIN blocks /\ End(b)' = End(b) /\ End(b)' = b + want
            \/ /\ IsCut(b, rest) /\ rest \notin DOMAIN blocks
               /\ DOMAIN blocks' = DOMAIN blocks \cup {rest}
               /\ End(b)' = rest /\ End(rest)' = End(b) /\ rest < End(b) /\ rest = b + want
               /\ blocks'[rest].free /\ blocks'[rest].next = blocks[b].next
               /\ \A x \in DOMAIN blocks : b < x => rest < x
<1>1. b \in DOMAIN blocks
  BY ListFacts
<1>2. /\ b \in Nat /\ b < Size /\ End(b) = b + blocks[b].size /\ b < End(b) /\ End(b) <= Size
      /\ blocks[b].size \in Nat
      /\ \A c \in DOMAIN blocks : b < c => End(b) <= c
  BY <1>1, BlockFacts
<1>3. rest \in Nat /\ b < rest /\ DOMAIN blocks' = DOMAIN blocks \cup {rest}
  BY Sizes DEF Took
<1>4. \A x \in DOMAIN blocks \ {b} : End(x)' = End(x)
  BY DEF Took, End
<1>5. \A x \in DOMAIN blocks : x < b => End(x) <= b
  BY <1>1 DEF Tiled
<1>6. \A x \in DOMAIN blocks : x \in Nat /\ (x < b \/ x = b \/ x > b)
  <2>1. \A x \in DOMAIN blocks : x \in Nat
    BY BlockFacts
  <2> QED
    BY <1>2, <2>1
<1>7. End(b)' = b + want
  BY DEF Took, End
<1>8. CASE blocks[b].size = want /\ rest = blocks[b].next /\ rest \in List
  <2>1. ~IsCut(b, rest)
    BY <1>2, <1>8 DEF IsCut
  <2>2. rest \in DOMAIN blocks
    BY <1>8, ListFacts
  <2>3. DOMAIN blocks' = DOMAIN blocks
    BY <1>3, <2>2
  <2>4. End(b)' = End(b)
    BY <1>2, <1>7, <1>8
  <2> QED
    BY <1>1, <1>2, <1>3, <1>4, <1>5, <1>6, <1>7, <1>8, <2>1, <2>3, <2>4
<1>9. CASE /\ blocks[b].size > want /\ rest = b + want /\ rest \notin DOMAIN blocks
           /\ blocks'[rest].size = blocks[b].size - want
           /\ blocks'[rest].free /\ blocks'[rest].next = blocks[b].next
  <2>1. IsCut(b, rest)
    BY <1>9 DEF IsCut
  <2>2. End(b)' = rest
    BY <1>7, <1>9
  <2>3. End(rest)' = rest + (blocks[b].size - want)
    BY <1>9 DEF End
  <2>4. End(rest)' = End(b) /\ rest < End(b)
    BY <1>2, <1>9, <2>3
  <2>5. \A x \in DOMAIN blocks : b < x => rest < x
    BY <1>2, <1>3, <1>6, <2>4
  <2> QED
    BY <1>1, <1>2, <1>3, <1>4, <1>5, <1>6, <1>9, <2>1, <2>2, <2>4, <2>5
<1> QED
  BY <1>8, <1>9 DEF Took

LEMMA TookTiles ==
  ASSUME TypeOK, Tiled, ListOrdered, NEW b \in List, want \in Nat, want >= 1,
         NEW rest, Took(b, rest)
  PROVE  Tiled'
<1> DEFINE D == DOMAIN blocks
<1>1. /\ b \in D /\ b \in Nat /\ rest \in Nat /\ b < rest
      /\ \A x \in D \ {b} : End(x)' = End(x)
      /\ \A x \in D : x < b => End(x) <= b
      /\ \A x \in D : x \in Nat /\ (x < b \/ x = b \/ x > b)
      /\ \/ DOMAIN blocks' = D /\ End(b)' = End(b)
         \/ /\ rest \notin D /\ DOMAIN blocks' = D \cup {rest}
            /\ End(b)' = rest /\ End(rest)' = End(b) /\ rest < End(b)
            /\ \A x \in D : b < x => rest < x
  BY TookEnds
<1>2. /\ 0 \in D /\ \A x \in D : End(x) = Size \/ End(x) \in D
      /\ \A x, y \in D : x < y => End(x) <= y
      /\ \A x \in D : End(x) \in Nat
  BY BlockFacts DEF Tiled
<1>3. CASE DOMAIN blocks' = D /\ End(b)' = End(b)
  <2>1. \A x \in D : End(x)' = End(x)
    BY <1>1, <1>3
  <2> QED
    BY <1>2, <1>3, <2>1 DEF Tiled
<1>4. CASE /\ rest \notin D /\ DOMAIN blocks' = D \cup {rest}
           /\ End(b)' = rest /\ End(rest)' = End(b) /\ rest < End(b)
           /\ \A x \in D : b < x => rest < x
  <2>1. \A x \in DOMAIN blocks' : End(x)' = Size \/ End(x)' \in DOMAIN blocks'
    BY <1>1, <1>2, <1>4
  <2>2. ASSUME NEW x \in DOMAIN blocks', NEW y \in DOMAIN blocks', x < y
        PROVE  End(x)' <= y
    <3>1. CASE x = rest
      <4>1. y \in D /\ b < y
        BY <1>1, <1>4, <2>2, <3>1
      <4> QED
        BY <1>1, <1>2, <1>4, <3>1, <4>1
    <3>2. CASE x = b
      <4>1. y = rest \/ (y \in D /\ y > b)
        BY <1>1, <1>4, <2>2, <3>2
      <4> QED
        BY <1>1, <1>4, <3>2, <4>1
    <3>3. CASE x # b /\ x # rest
      <4>1. x \in D /\ x \in Nat /\ End(x)' = End(x) /\ End(x) \in Nat
        BY <1>1, <1>2, <1>4, <3>3
      <4>2. CASE y = rest
        <5>1. ~(b < x)
          BY <1>1, <1>4, <2>2, <4>1, <4>2
        <5>2. End(x) <= b
          BY <1>1, <3>3, <4>1, <5>1
        <5> QED
          BY <1>1, <4>1, <4>2, <5>2
      <4>3. CASE y # rest
        BY <1>2, <1>4, <2>2, <4>1, <4>3
      <4> QED
        BY <4>2, <4>3
    <3> QED
      BY <3>1, <3>2, <3>3
  <2> QED
    BY <1>2, <1>4, <2>1, <2>2 DEF Tiled
<1> QED
  BY <1>1, <1>3, <1>4

LEMMA TookLists ==
  ASSUME TypeOK, Tiled, ListOrdered, NEW b \in List, want \in Nat, want >= 1,
         NEW rest, Took(b, rest),
         under # Null => under \in FreeBlocks /\ under' = under,
         under = Null => under' = b
  PROVE  /\ List' = (List \ {b}) \cup {rest}
         /\ FreeBlocks' = (FreeBlocks \ {IF under = Null THEN Null ELSE b}) \cup {rest}
<1>1. /\ b \in DOMAIN blocks /\ b \in Nat /\ rest \in Nat /\ b < rest
      /\ \/ rest \in List /\ DOMAIN blocks' = DOMAIN blocks
         \/ /\ rest \notin DOMAIN blocks /\ DOMAIN blocks' = DOMAIN blocks \cup {rest}
            /\ blocks'[rest].free
  BY TookEnds
<1>2. /\ \A x \in DOMAIN blocks \ {b} : blocks'[x].free = blocks[x].free
      /\ blocks'[b].free <=> under = Null
  BY DEF Took
<1>3. blocks[b].free /\ b # under /\ List \subseteq DOMAIN blocks /\ \A x \in List : blocks[x].free
  BY ListFacts DEF List
<1>4. Null \notin DOMAIN blocks
  BY Sizes DEF TypeOK
<1>5. rest \in DOMAIN blocks' /\ blocks'[rest].free /\ rest # b
  BY <1>1, <1>2, <1>3
<1>6. FreeBlocks' = (FreeBlocks \ {IF under = Null THEN Null ELSE b}) \cup {rest}
  <2>1. \A x : x \in FreeBlocks' <=> x \in DOMAIN blocks' /\ blocks'[x].free
    BY DEF FreeBlocks
  <2>2. \A x : x \in FreeBlocks <=> x \in DOMAIN blocks /\ blocks[x].free
    BY DEF FreeBlocks
  <2>3. CASE under = Null
    <3>1. \A x \in DOMAIN blocks : blocks'[x].free <=> blocks[x].free
      BY <1>2, <1>3, <2>3
    <3> QED
      BY <1>1, <1>4, <1>5, <2>1, <2>2, <2>3, <3>1
  <2>4. CASE under # Null
    BY <1>1, <1>2, <1>5, <2>1, <2>2, <2>4
  <2> QED
    BY <2>3, <2>4
<1>7. rest # under
  BY <1>1, <1>3, Sizes DEF FreeBlocks, List
<1>8. Null \notin FreeBlocks
  BY <1>4 DEF FreeBlocks
<1>9. CASE under = Null
  BY <1>5, <1>6, <1>8, <1>9 DEF List
<1>10. CASE under # Null
  BY <1>3, <1>6, <1>7, <1>10 DEF List
<1> QED
  BY <1>6, <1>9, <1>10

LEMMA TookOrders ==
  ASSUME TypeOK, Tiled, ListOrdered, NEW b \in List, want \in Nat, want >= 1,
         NEW rest, Took(b, rest), List' = (List \ {b}) \cup {rest}
  PROVE  ListOrdered'
<1> DEFINE D == DOMAIN blocks
           n(x) == blocks[x].next
<1>1. /\ b \in D /\ b \in Nat /\ rest \in Nat /\ b < rest
      /\ \A x \in D \ {b} : End(x)' = End(x)
      /\ \A x \in D : x \in Nat /\ (x < b \/ x = b \/ x > b)
      /\ \/ rest \in List /\ rest = n(b)
         \/ /\ rest \notin D /\ End(rest)' = End(b) /\ blocks'[rest].next = n(b)
            /\ \A x \in D : b < x => rest < x
  BY TookEnds
<1>2. List \subseteq D /\ List \subseteq Nat
  BY ListFacts
<1>3. Null \notin Nat
  BY Sizes
<1>4. /\ freeListStart \in List /\ \A c \in List : freeListStart <= c
      /\ \A x \in List : n(x) = Null => End(x) = Size
      /\ \A x \in List : n(x) # Null =>
           n(x) \in List /\ x < n(x) /\ \A c \in List : c <= x \/ n(x) <= c
  BY DEF ListOrdered
<1>5. \A x \in List \ {b} : blocks'[x].next = IF n(x) = b THEN rest ELSE n(x)
  BY <1>2 DEF Took
<1>6. freeListStart' = IF b = freeListStart THEN rest ELSE freeListStart
  BY DEF Took
<1> HIDE DEF D, n
<1>7. \A c \in List \ {b} : c \in Nat /\ (c < b \/ b < c) /\ (b < c => rest <= c)
  <2> SUFFICES ASSUME NEW c \in List \ {b}
               PROVE  c \in Nat /\ (c < b \/ b < c) /\ (b < c => rest <= c)
    OBVIOUS
  <2>1. c \in D /\ c \in Nat /\ (c < b \/ b < c)
    BY <1>1, <1>2
  <2>2. b < c => rest <= c
    BY <1>1, <1>2, <1>3, <1>4, <2>1
  <2> QED
    BY <2>1, <2>2
<1>8. freeListStart' \in List' /\ \A c \in List' : freeListStart' <= c
  <2>1. freeListStart \in Nat
    BY <1>2, <1>4
  <2>2. CASE b = freeListStart
    <3>1. \A c \in List \ {b} : rest <= c
      BY <1>1, <1>4, <1>7, <2>2
    <3> QED
      BY <1>1, <1>6, <2>2, <3>1
  <2>3. CASE b # freeListStart
    <3>1. freeListStart <= b
      BY <1>4
    <3>2. freeListStart <= rest
      BY <1>1, <2>1, <3>1
    <3> QED
      BY <1>4, <1>6, <2>3, <3>2
  <2> QED
    BY <2>2, <2>3
<1>9. ASSUME NEW x \in List \ {b}
      PROVE  IF blocks'[x].next = Null
             THEN End(x)' = Size
             ELSE /\ blocks'[x].next \in List' /\ x < blocks'[x].next
                  /\ \A c \in List' : c <= x \/ blocks'[x].next <= c
  <2>1. x \in List /\ x # b /\ End(x)' = End(x) /\ x \in Nat /\ (x < b \/ b < x)
    BY <1>1, <1>2, <1>7
  <2>2. CASE n(x) = b
    <3>1. blocks'[x].next = rest /\ rest # Null /\ n(x) # Null
      BY <1>1, <1>3, <1>5, <2>2
    <3>2. x < b /\ \A c \in List : c <= x \/ b <= c
      BY <1>4, <2>1, <2>2, <3>1
    <3>3. \A c \in List' : c <= x \/ rest <= c
      BY <1>1, <1>7, <2>1, <3>2
    <3> QED
      BY <1>1, <2>1, <3>1, <3>2, <3>3
  <2>3. CASE n(x) # b /\ n(x) = Null
    BY <1>4, <1>5, <2>1, <2>3
  <2>4. CASE n(x) # b /\ n(x) # Null
    <3>1. blocks'[x].next = n(x)
      BY <1>5, <2>4
    <3>2. n(x) \in List \ {b} /\ x < n(x) /\ \A c \in List : c <= x \/ n(x) <= c
      BY <1>4, <2>1, <2>4
    <3>3. n(x) \in Nat
      BY <1>2, <3>2
    <3>4. rest <= x \/ n(x) <= rest
      <4>1. b <= x \/ n(x) <= b
        BY <3>2
      <4> QED
        BY <1>1, <1>7, <2>1, <3>3, <4>1
    <3> QED
      BY <2>4, <3>1, <3>2, <3>4
  <2> QED
    BY <2>2, <2>3, <2>4
<1>10. IF blocks'[rest].next = Null
       THEN End(rest)' = Size
       ELSE /\ blocks'[rest].next \in List' /\ rest < blocks'[rest].next
            /\ \A c \in List' : c <= rest \/ blocks'[rest].next <= c
  <2>1. CASE rest \in List
    BY <1>1, <1>9, <2>1
  <2>2. CASE /\ rest \notin D /\ End(rest)' = End(b) /\ blocks'[rest].next = n(b)
             /\ \A x \in D : b < x => rest < x
    <3>1. CASE n(b) = Null
      BY <1>4, <2>2, <3>1
    <3>2. CASE n(b) # Null
      <4>1. n(b) \in List /\ b < n(b) /\ \A c \in List : c <= b \/ n(b) <= c
        BY <1>4, <3>2
      <4>2. n(b) \in Nat /\ n(b) # b /\ rest < n(b)
        <5>1. n(b) \in Nat /\ n(b) \in D
          BY <1>2, <4>1
        <5> QED
          BY <1>1, <2>2, <4>1, <5>1
      <4>3. \A c \in List' : c <= rest \/ n(b) <= c
        BY <1>1, <1>7, <4>1
      <4> QED
        BY <2>2, <3>2, <4>1, <4>2, <4>3
    <3> QED
      BY <3>1, <3>2
  <2> QED
    BY <1>1, <2>1, <2>2
<1> QED
  BY <1>8, <1>9, <1>10 DEF ListOrdered

\* What is taken is all that the list loses.
LEMMA TookUnits ==
  ASSUME TypeOK, Tiled, ListOrdered, NEW b \in List, want \in Nat, want >= 1,
         NEW rest, Took(b, rest), List' = (List \ {b}) \cup {rest}
  PROVE  /\ Cardinality(FreeUnits') \in Nat /\ Cardinality(FreeUnits) \in Nat
         /\ Cardinality(FreeUnits) - want <= Cardinality(FreeUnits')
<1> DEFINE D == DOMAIN blocks
           gone == b..(b + want - 1)
<1>1. /\ b \in D /\ b \in Nat /\ rest \in Nat /\ b < rest
      /\ \A x \in D \ {b} : End(x)' = End(x)
      /\ \A x \in D : x \in Nat /\ (x < b \/ x = b \/ x > b)
      /\ \/ rest \in List /\ End(b)' = End(b) /\ End(b)' = b + want
         \/ rest \notin D /\ End(rest)' = End(b) /\ rest = b + want
  BY TookEnds
<1>2. List \subseteq D /\ End(b) \in Nat
  BY <1>1, ListFacts, BlockFacts
<1>3. \A u \in FreeUnits \ gone : u \in FreeUnits'
  <2> SUFFICES ASSUME NEW u \in FreeUnits, u \notin gone
               PROVE  u \in FreeUnits'
    OBVIOUS
  <2>1. PICK c \in List : u \in c..(End(c) - 1)
    BY DEF FreeUnits
  <2>2. u \in Address /\ u \in Nat
    BY Sizes DEF FreeUnits
  <2>3. CASE c # b
    <3>1. End(c)' = End(c) /\ c \in List'
      BY <1>1, <1>2, <2>3
    <3>2. u \in c..(End(c)' - 1)
      BY <2>1, <3>1
    <3> QED
      BY <2>2, <3>1, <3>2 DEF FreeUnits
  <2>4. CASE c = b
    <3>1. b <= u /\ u < End(b) /\ b + want <= u
      BY <1>1, <1>2, <2>1, <2>2, <2>4
    <3>2. rest \notin D /\ End(rest)' = End(b) /\ rest = b + want
      BY <1>1, <1>2, <2>2, <3>1
    <3>3. u \in rest..(End(rest)' - 1) /\ rest \in List'
      BY <1>1, <1>2, <2>2, <3>1, <3>2
    <3> QED
      BY <2>2, <3>3 DEF FreeUnits
  <2> QED
    BY <2>3, <2>4
<1>4. IsFiniteSet(Address)
  BY FS_Interval, Sizes DEF Address
<1>5. /\ IsFiniteSet(FreeUnits) /\ IsFiniteSet(FreeUnits')
  BY <1>4, FS_Subset DEF FreeUnits
<1>6. IsFiniteSet(gone) /\ Cardinality(gone) = want
  <2>1. b + want - 1 \in Int /\ b \in Int /\ b <= b + want - 1
    BY <1>1
  <2>2. IsFiniteSet(gone) /\ Cardinality(gone) = (b + want - 1) - b + 1
    BY <2>1, FS_Interval
  <2> QED
    BY <1>1, <2>2
<1> HIDE DEF gone
<1>7. /\ Cardinality(FreeUnits \ gone) = Cardinality(FreeUnits) - Cardinality(FreeUnits \cap gone)
      /\ IsFiniteSet(FreeUnits \ gone)
  BY <1>5, <1>6, FS_Difference
<1>8. Cardinality(FreeUnits \cap gone) <= Cardinality(gone) /\ IsFiniteSet(FreeUnits \cap gone)
  BY <1>6, FS_Subset
<1>9. Cardinality(FreeUnits \ gone) <= Cardinality(FreeUnits')
  BY <1>3, <1>5, FS_Subset
<1>10. /\ Cardinality(FreeUnits) \in Nat /\ Cardinality(FreeUnits') \in Nat
       /\ Cardinality(FreeUnits \ gone) \in Nat /\ Cardinality(FreeUnits \cap gone) \in Nat
  BY <1>5, <1>7, <1>8, FS_CardinalityType
<1> QED
  BY <1>6, <1>7, <1>8, <1>9, <1>10

LEMMA TookKeeps ==
  ASSUME MemInv, pc = "search", NEW b \in List, NEW rest, Took(b, rest),
         freeSize' = freeSize - want * depth, want' = want, depth' = depth,
         \/ /\ under = Null /\ under' = b /\ pc' = "raw"
            /\ UNCHANGED <<objects, reachable>>
         \/ /\ under # Null /\ under' = under /\ pc' = "ready"
            /\ AddObject(b) /\ reachable' = reachable \cup {b}
  PROVE  MemInv'
<1>1. TypeOK /\ Tiled /\ InOrder /\ ListOrdered
  BY DEF MemInv, Alive, InOrder
<1>2. want \in Nat /\ want >= 1 /\ depth \in Nat /\ depth >= 1
  BY <1>1, Sizes, MaxDepthAssumption DEF InOrder, UnderOk, TypeOK
<1>3. under # Null => under \in FreeBlocks
  BY <1>1 DEF InOrder, UnderOk
<1>4. Tiled'
  BY <1>1, <1>2, TookTiles
<1>5. List' = (List \ {b}) \cup {rest}
      /\ FreeBlocks' = (FreeBlocks \ {IF under = Null THEN Null ELSE b}) \cup {rest}
  BY <1>1, <1>2, <1>3, TookLists
<1>6. ListOrdered'
  BY <1>1, <1>2, <1>5, TookOrders
<1>7. freeSize' <= Cardinality(FreeUnits')
  <2>1. /\ Cardinality(FreeUnits') \in Nat /\ Cardinality(FreeUnits) \in Nat
        /\ Cardinality(FreeUnits) - want <= Cardinality(FreeUnits')
    BY <1>1, <1>2, <1>5, TookUnits
  <2>2. freeSize \in Int /\ freeSize <= Cardinality(FreeUnits)
    BY <1>1 DEF InOrder, TypeOK
  <2>3. want * depth \in Nat /\ want <= want * depth
    BY <1>2
  <2> QED
    BY <1>2, <2>1, <2>2, <2>3
<1>8. /\ DOMAIN blocks' = DOMAIN blocks \cup {rest}
      /\ \A x \in DOMAIN blocks' : blocks'[x] \in BlockType
      /\ \A x \in DOMAIN blocks \ {b} :
           blocks'[x].free = blocks[x].free /\ blocks'[x].entry = blocks[x].entry
      /\ (blocks'[b].free <=> under = Null) /\ (under # Null => blocks'[b].entry = NewEntry)
      /\ rest \in Address /\ freeListStart' \in {rest, freeListStart}
      /\ rest \in List \/ (rest \notin DOMAIN blocks /\ blocks'[rest].free)
  BY DEF Took
<1>9. b \in DOMAIN blocks /\ b \in Nat /\ blocks[b].free /\ b \in Address
  BY <1>1, ListFacts DEF TypeOK
<1>10. /\ DOMAIN blocks \subseteq Address /\ freeListStart \in Address /\ freeSize \in Int
       /\ reachable \subseteq Address /\ under \in Address \cup {Null}
       /\ want \in Requests \cup {0} /\ depth \in 0..MaxDepth
       /\ table \in Seq(Nat) /\ freeStack \in 0..Len(table)
  BY <1>1 DEF TypeOK
<1>11. freeSize' \in Int
  BY <1>2, <1>10
<1>12. \A x \in DOMAIN blocks' : ~blocks'[x].free =>
         x \in DOMAIN blocks /\ (x # b => ~blocks[x].free) /\ (x = b => under # Null)
  <2>1. \A x \in List : blocks[x].free
    BY <1>1, ListFacts
  <2>2. rest # b
    BY <1>9, Sizes DEF Took
  <2>3. blocks'[rest].free
    BY <1>8, <2>1, <2>2, ListFacts, <1>1
  <2> QED
    BY <1>8, <2>3
<1>13. \A x \in DOMAIN blocks : ~blocks[x].free =>
         x \in DOMAIN blocks' /\ x # b /\ ~blocks'[x].free /\ blocks'[x].entry = blocks[x].entry
  BY <1>8, <1>9
<1>14. CASE under = Null /\ under' = b /\ pc' = "raw" /\ UNCHANGED <<objects, reachable>>
  <2>1. table' = table /\ freeStack' = freeStack /\ reachable' = reachable
    BY <1>14 DEF objects
  <2>2. TypeOK'
    <3> HIDE DEF BlockType
    <3>1. \A x \in DOMAIN blocks' :
            blocks'[x] \in [size : 1..Size, free : BOOLEAN, next : Address \cup {Null}, entry : Nat]
      BY <1>8 DEF BlockType
    <3> QED
      BY <1>8, <1>9, <1>10, <1>11, <1>14, <2>1, <3>1 DEF TypeOK
  <2>3. UsedEntries' = UsedEntries
    <3>1. \A i : i \in UsedEntries' <=> \E x \in DOMAIN blocks' : ~blocks'[x].free /\ i = blocks'[x].entry
      BY DEF UsedEntries
    <3>2. \A i : i \in UsedEntries <=> \E x \in DOMAIN blocks : ~blocks[x].free /\ i = blocks[x].entry
      BY DEF UsedEntries
    <3>3. \A x \in DOMAIN blocks' : ~blocks'[x].free =>
            x \in DOMAIN blocks /\ ~blocks[x].free /\ blocks'[x].entry = blocks[x].entry
      BY <1>8, <1>12, <1>14
    <3>4. \A i \in UsedEntries' : i \in UsedEntries
      BY <3>1, <3>2, <3>3
    <3>5. \A i \in UsedEntries : i \in UsedEntries'
      BY <1>13, <3>1, <3>2
    <3> QED
      BY <3>4, <3>5
  <2>4. EntriesOwn'
    BY <1>1, <1>8, <1>12, <1>14, <2>1 DEF InOrder, EntriesOwn
  <2>5. StackOk(freeStack', table', UsedEntries')
    BY <1>1, <2>1, <2>3 DEF InOrder
  <2>6. ReachableLive'
    BY <1>1, <1>13, <2>1 DEF InOrder, ReachableLive
  <2>7. b \in FreeBlocks' /\ b # Null
    BY <1>8, <1>9, <1>14, Sizes DEF FreeBlocks
  <2>8. UnderOk'
    BY <1>14, <2>7 DEF UnderOk
  <2> QED
    BY <1>4, <1>6, <1>7, <2>2, <2>4, <2>5, <2>6, <2>8 DEF MemInv, InOrder
<1>15. CASE /\ under # Null /\ under' = under /\ pc' = "ready"
            /\ AddObject(b) /\ reachable' = reachable \cup {b}
  <2>1. UsedEntries \subseteq DOMAIN table
    BY <1>1 DEF InOrder, EntriesOwn, UsedEntries
  <2>2. /\ NewEntry \in DOMAIN table' /\ NewEntry \in Nat /\ NewEntry \notin UsedEntries
        /\ table'[NewEntry] = b
        /\ \A i \in DOMAIN table : i # NewEntry => i \in DOMAIN table' /\ table'[i] = table[i]
        /\ table' \in Seq(Nat) /\ freeStack' \in 0..Len(table')
        /\ StackOk(freeStack', table', UsedEntries \cup {NewEntry})
    BY <1>1, <1>9, <1>10, <1>15, <2>1, AddObjectGives DEF InOrder
  <2>3. TypeOK'
    <3> HIDE DEF BlockType
    <3>1. \A x \in DOMAIN blocks' :
            blocks'[x] \in [size : 1..Size, free : BOOLEAN, next : Address \cup {Null}, entry : Nat]
      BY <1>8 DEF BlockType
    <3> QED
      BY <1>8, <1>9, <1>10, <1>11, <1>15, <2>2, <3>1 DEF TypeOK
  <2>4. ~blocks'[b].free /\ blocks'[b].entry = NewEntry /\ b \in DOMAIN blocks'
    BY <1>8, <1>9, <1>15
  <2>5. UsedEntries' = UsedEntries \cup {NewEntry}
    <3>1. \A i : i \in UsedEntries' <=> \E x \in DOMAIN blocks' : ~blocks'[x].free /\ i = blocks'[x].entry
      BY DEF UsedEntries
    <3>2. \A i : i \in UsedEntries <=> \E x \in DOMAIN blocks : ~blocks[x].free /\ i = blocks[x].entry
      BY DEF UsedEntries
    <3>3. \A x \in DOMAIN blocks' : ~blocks'[x].free =>
            x = b \/ (x \in DOMAIN blocks /\ ~blocks[x].free /\ blocks'[x].entry = blocks[x].entry)
      BY <1>8, <1>12
    <3> QED
      BY <1>13, <2>4, <3>1, <3>2, <3>3
  <2>6. EntriesOwn'
    <3>1. ASSUME NEW x \in DOMAIN blocks', ~blocks'[x].free
          PROVE  blocks'[x].entry \in DOMAIN table' /\ table'[blocks'[x].entry] = x
      <4>1. CASE x = b
        BY <2>2, <2>4, <4>1
      <4>2. CASE x # b
        <5>1. x \in DOMAIN blocks /\ ~blocks[x].free /\ blocks'[x].entry = blocks[x].entry
          BY <1>8, <1>12, <3>1, <4>2
        <5>2. blocks[x].entry \in UsedEntries /\ blocks[x].entry \in DOMAIN table
              /\ table[blocks[x].entry] = x
          BY <1>1, <5>1 DEF InOrder, EntriesOwn, UsedEntries
        <5> QED
          BY <2>2, <5>1, <5>2
      <4> QED
        BY <4>1, <4>2
    <3> QED
      BY <3>1 DEF EntriesOwn
  <2>7. ReachableLive'
    BY <1>1, <1>13, <1>15, <2>4 DEF InOrder, ReachableLive
  <2>8. under # b
    BY DEF List
  <2>9. under \in FreeBlocks'
    BY <1>3, <1>5, <1>15, <2>8
  <2>10. UnderOk'
    BY <1>15, <2>9 DEF UnderOk
  <2> QED
    BY <1>4, <1>6, <1>7, <2>2, <2>3, <2>5, <2>6, <2>7, <2>10 DEF MemInv, InOrder
<1> QED
  BY <1>14, <1>15

\* The memory that the search stops at is taken, whole or in part.
LEMMA TakingKeeps ==
  ASSUME MemInv, pc = "search", NEW b \in List, want' = want, depth' = depth,
         \/ blocks[b].size = want /\ TakeAll(b)
         \/ blocks[b].size >= want + Header /\ Split(b)
  PROVE  MemInv'
<1>1. TypeOK /\ Tiled /\ InOrder /\ ListOrdered
  BY DEF MemInv, Alive, InOrder
<1>2. want \in Nat /\ want >= 1 /\ Header \in Nat /\ Header >= 1
  BY <1>1, Sizes DEF InOrder, UnderOk
<1>3. b \in DOMAIN blocks /\ b \in Nat /\ blocks[b].size \in Nat
  BY <1>1, ListFacts, BlockFacts
<1>4. CASE /\ pc' = "crashed" /\ UNCHANGED <<heap, objects, reachable, under>>
  <2>1. blocks' = blocks /\ freeListStart' = freeListStart /\ freeSize' = freeSize
        /\ table' = table /\ freeStack' = freeStack /\ reachable' = reachable /\ under' = under
    BY <1>4 DEF heap, objects
  <2>2. TypeOK'
    BY <1>1, <1>4, <2>1 DEF TypeOK
  <2>3. Tiled'
    BY <1>1, <1>4, HeapUnchanged
  <2> QED
    BY <1>4, <2>2, <2>3 DEF MemInv, Alive
<1>5. ASSUME NEW rest, NEW bs, Taken(b, rest, bs), Deliver(b, rest, bs),
             freeSize' = freeSize - want * depth
      PROVE  MemInv'
  <2>1. Took(b, rest)
    BY <1>1, <1>2, <1>5, TakenTook
  <2>2. \/ /\ under = Null /\ under' = b /\ pc' = "raw"
           /\ UNCHANGED <<objects, reachable>>
        \/ /\ under # Null /\ under' = under /\ pc' = "ready"
           /\ AddObject(b) /\ reachable' = reachable \cup {b}
    BY <1>5 DEF Deliver
  <2> QED
    BY <1>5, <2>1, <2>2, TookKeeps
<1>6. CASE blocks[b].size = want /\ TakeAll(b)
  <2> DEFINE bs == [blocks EXCEPT ![b] = HandOut(b)]
  <2>1. CASE blocks[b].next = Null
    BY <1>4, <1>6, <2>1 DEF TakeAll
  <2>2. CASE blocks[b].next # Null
    <3>1. blocks[b].next \in DOMAIN blocks
      BY <1>1, <2>2, ListFacts DEF ListOrdered
    <3>2. Taken(b, blocks[b].next, bs)
      BY <1>3, <1>6, <2>2, <3>1 DEF Taken
    <3>3. Deliver(b, blocks[b].next, bs) /\ freeSize' = freeSize - want * depth
      BY <1>6, <2>2 DEF TakeAll
    <3> HIDE DEF bs
    <3> QED
      BY <1>5, <3>2, <3>3
  <2> QED
    BY <2>1, <2>2
<1>7. CASE blocks[b].size >= want + Header /\ Split(b)
  <2> DEFINE restBlock == Block(blocks[b].size - want, TRUE, blocks[b].next, 0)
             given == [blocks EXCEPT ![b] = HandOut(b)]
             bs == Placed(restBlock, b + want, given)
  <2>1. b + want \notin DOMAIN blocks /\ b + want # b /\ blocks[b].size > want
    <3>1. End(b) = b + blocks[b].size /\ \A c \in DOMAIN blocks : b < c => End(b) <= c
      BY <1>1, <1>3, BlockFacts
    <3> QED
      BY <1>2, <1>3, <1>7, <3>1
  <2>2. given[b] = HandOut(b) /\ DOMAIN given = DOMAIN blocks
        /\ \A x \in DOMAIN blocks \ {b} : given[x] = blocks[x]
    BY <1>3
  <2> HIDE DEF restBlock, given
  <2>3. /\ DOMAIN bs = DOMAIN blocks \cup {b + want} /\ bs[b + want] = restBlock
        /\ \A x \in DOMAIN blocks : bs[x] = given[x]
    BY <2>1, <2>2 DEF Placed
  <2> HIDE DEF bs
  <2>4. Taken(b, b + want, bs)
    BY <1>3, <2>1, <2>2, <2>3 DEF Taken, restBlock
  <2>5. Deliver(b, b + want, bs) /\ freeSize' = freeSize - want * depth
    BY <1>7 DEF Split, bs, given, restBlock
  <2> QED
    BY <1>5, <2>4, <2>5
<1> QED
  BY <1>6, <1>7

-----------------------------------------------------------------------------
(* A collection.                                                            *)

LEMMA SweptFacts ==
  ASSUME TypeOK, Tiled
  PROVE  /\ Swept \subseteq DOMAIN blocks /\ Swept \subseteq Nat /\ \A b \in Swept : b <= Size
         /\ \A b \in DOMAIN blocks \ Swept : ~blocks[b].free
         /\ Merged \subseteq Swept
         /\ \A b \in Swept : b \in Merged <=> \A c \in Swept : End(c) # b
         /\ FreeBlocks \subseteq Swept
         /\ \A b \in DOMAIN blocks : ~blocks[b].free => (b \in Swept <=> b \in Dead)
<1>1. Swept \subseteq DOMAIN blocks
  BY DEF Swept, FreeBlocks, Dead
<1>2. Swept \subseteq Nat /\ \A b \in Swept : b <= Size
  <2>1. \A b \in DOMAIN blocks : b \in Nat /\ b < Size
    BY BlockFacts
  <2> QED
    BY <1>1, <2>1, Sizes
<1> QED
  BY <1>1, <1>2 DEF Swept, Merged, FreeBlocks, Dead

\* Behind every block but the first there is one that ends where it starts.
LEMMA Neighbour ==
  ASSUME TypeOK, Tiled, NEW c \in DOMAIN blocks, c # 0
  PROVE  \E d \in DOMAIN blocks : End(d) = c /\ d < c
<1> DEFINE lower == {x \in DOMAIN blocks : x < c}
<1>1. /\ \A x \in DOMAIN blocks :
           /\ x \in Nat /\ x < Size /\ End(x) \in Nat /\ x < End(x)
           /\ End(x) = Size \/ End(x) \in DOMAIN blocks
           /\ \A y \in DOMAIN blocks : x < y => End(x) <= y
      /\ 0 \in DOMAIN blocks
  BY BlockFacts DEF Tiled
<1>2. lower \subseteq Nat /\ 0 \in lower /\ \A x \in lower : x <= Size
  BY <1>1, Sizes
<1>3. PICK d \in lower : \A x \in lower : x <= d
  <2> HIDE DEF lower
  <2> QED
    BY <1>2, Greatest, Sizes
<1>4. d \in DOMAIN blocks /\ d < c /\ End(d) <= c
  BY <1>1
<1>5. End(d) = c
  <2>1. SUFFICES ASSUME End(d) < c PROVE FALSE
    BY <1>1, <1>4
  <2>2. End(d) \in DOMAIN blocks
    BY <1>1, <1>4, <2>1, Sizes
  <2>3. End(d) \in lower
    BY <2>1, <2>2
  <2> QED
    BY <1>1, <1>3, <1>4, <2>3
<1> QED
  BY <1>4, <1>5

\* After a block that stays, the next swept block starts a free block anew.
LEMMA NextMerged ==
  ASSUME TypeOK, Tiled, NEW m \in DOMAIN blocks \ Swept, NEW y \in Swept, m < y
  PROVE  \E x \in Merged : m < x /\ x <= y
<1> DEFINE upper == {x \in Swept : m < x}
<1>1. /\ \A x \in DOMAIN blocks :
           /\ x \in Nat /\ End(x) \in Nat /\ x < End(x)
           /\ \A z \in DOMAIN blocks : x < z => End(x) <= z
      /\ Swept \subseteq DOMAIN blocks
      /\ \A b \in Swept : b \in Merged <=> \A c \in Swept : End(c) # b
  BY BlockFacts, SweptFacts
<1>2. upper \subseteq Nat /\ y \in upper
  BY <1>1
<1>3. PICK x \in upper : \A z \in upper : x <= z
  <2> HIDE DEF upper
  <2> QED
    BY <1>2, Least
<1>4. ASSUME NEW c \in Swept, End(c) = x
      PROVE  FALSE
  <2>1. c \in Nat /\ c < x /\ m \in Nat /\ x \in Nat /\ x \in DOMAIN blocks /\ m < x
    BY <1>1, <1>4
  <2>2. ~(c < m)
    BY <1>1, <1>4, <2>1
  <2>3. c # m
    OBVIOUS
  <2>4. c \in upper
    BY <2>1, <2>2, <2>3
  <2> QED
    BY <1>3, <2>1, <2>4
<1>5. x \in Merged
  BY <1>1, <1>4
<1> QED
  BY <1>2, <1>3, <1>5

\* A free block after the merge reaches to the next block that stays.
LEMMA MergedEndFacts ==
  ASSUME TypeOK, Tiled, NEW b \in Swept
  PROVE  /\ MergedEnd(b) \in Nat /\ b < MergedEnd(b) /\ MergedEnd(b) <= Size
         /\ MergedEnd(b) = Size \/ MergedEnd(b) \in DOMAIN blocks \ Swept
         /\ \A x \in DOMAIN blocks : b <= x /\ x < MergedEnd(b) => x \in Swept
<1> DEFINE ends == {e \in {End(c) : c \in Swept} : e > b /\ e \notin Swept}
           m == MergedEnd(b)
<1>1. /\ \A x \in DOMAIN blocks :
           /\ x \in Nat /\ x < Size /\ End(x) \in Nat /\ x < End(x)
           /\ End(x) <= Size
           /\ End(x) = Size \/ End(x) \in DOMAIN blocks
           /\ \A y \in DOMAIN blocks : x < y => End(x) <= y
      /\ Swept \subseteq DOMAIN blocks /\ Swept \subseteq Nat /\ \A x \in Swept : x <= Size
  BY BlockFacts, SweptFacts
<1>2. ends \subseteq Nat
  BY <1>1
<1>3. ends # {}
  <2>1. PICK l \in Swept : \A x \in Swept : x <= l
    BY <1>1, Greatest, Sizes
  <2>2. End(l) \in Nat /\ l \in Nat /\ l < End(l) /\ b <= l /\ b \in Nat
    BY <1>1, <2>1
  <2>3. End(l) \notin Swept
    BY <2>1, <2>2
  <2>4. End(l) \in ends
    BY <2>2, <2>3
  <2> QED
    BY <2>4
<1>4. m \in ends /\ \A e \in ends : m <= e
  <2>1. m = Min(ends)
    BY DEF MergedEnd
  <2> HIDE DEF ends, m
  <2> QED
    BY <1>2, <1>3, <2>1, MinIsLeast
<1>5. PICK c \in Swept : m = End(c)
  BY <1>4
<1>6. /\ m \in Nat /\ b < m /\ m <= Size /\ m \notin Swept
      /\ m = Size \/ m \in DOMAIN blocks
  BY <1>1, <1>4, <1>5
<1>7. ASSUME NEW x \in DOMAIN blocks, b <= x, x < m, x \notin Swept
      PROVE  FALSE
  <2> DEFINE T == {z \in DOMAIN blocks : b <= z /\ z \notin Swept}
  <2>1. T \subseteq Nat /\ x \in T
    BY <1>1, <1>7
  <2>2. PICK z \in T : \A w \in T : z <= w
    <3> HIDE DEF T
    <3> QED
      BY <2>1, Least
  <2>3. z \in DOMAIN blocks /\ b <= z /\ z \notin Swept /\ z <= x /\ z \in Nat /\ b \in Nat /\ x \in Nat
    BY <1>1, <2>1, <2>2
  <2>4. b < z /\ z # 0
    <3>1. z # b
      BY <2>3
    <3> QED
      BY <2>3, <3>1
  <2>5. PICK d \in DOMAIN blocks : End(d) = z /\ d < z
    BY <2>3, <2>4, Neighbour
  <2>6. b <= d /\ d \in Nat
    <3>1. d \in Nat /\ b \in DOMAIN blocks
      BY <1>1
    <3>2. ~(d < b)
      BY <1>1, <2>3, <2>4, <2>5, <3>1
    <3> QED
      BY <2>3, <3>1, <3>2
  <2>7. d \in Swept
    <3>1. SUFFICES ASSUME d \notin Swept PROVE FALSE
      OBVIOUS
    <3>2. d \in T
      BY <2>6, <3>1
    <3> QED
      BY <2>2, <2>3, <2>5, <2>6, <3>2
  <2>8. z \in ends
    BY <2>3, <2>4, <2>5, <2>7
  <2>9. m <= z
    BY <1>4, <2>8
  <2> QED
    BY <1>6, <1>7, <2>3, <2>9
<1>8. \A x \in DOMAIN blocks : b <= x /\ x < m => x \in Swept
  BY <1>7
<1> HIDE DEF m
<1>9. /\ m \in Nat /\ b < m /\ m <= Size
      /\ m = Size \/ m \in DOMAIN blocks \ Swept
  BY <1>6
<1> QED
  BY <1>8, <1>9 DEF m

\* The heap after the sweep and the merge.
Collected ==
  /\ Swept # {} /\ LastLink = Null
  /\ blocks' = [b \in (DOMAIN blocks \ Swept) \cup Merged |->
                  IF b \in Merged THEN MergedBlock(b) ELSE blocks[b]]
  /\ freeListStart' = Min(Swept)
  /\ freeSize' = Cardinality({u \in Address : \E b \in Swept : u \in b..(End(b) - 1)})

LEMMA CollectedFacts ==
  ASSUME TypeOK, Tiled, Collected
  PROVE  /\ DOMAIN blocks' = (DOMAIN blocks \ Swept) \cup Merged
         /\ \A b \in Merged :
              /\ blocks'[b] \in BlockType /\ blocks'[b].free
              /\ End(b)' = MergedEnd(b)
              /\ IF \E c \in Merged : c > b
                 THEN /\ blocks'[b].next \in Merged /\ b < blocks'[b].next
                      /\ \A c \in Merged : c <= b \/ blocks'[b].next <= c
                 ELSE blocks'[b].next = Null
         /\ \A b \in DOMAIN blocks \ Swept : blocks'[b] = blocks[b] /\ End(b)' = End(b)
         /\ FreeBlocks' = Merged
         /\ freeListStart' \in Merged /\ \A c \in Swept : freeListStart' <= c
<1>1. /\ Swept \subseteq DOMAIN blocks /\ Swept \subseteq Nat
      /\ Merged \subseteq Swept
      /\ \A b \in DOMAIN blocks \ Swept : ~blocks[b].free
      /\ \A b \in Swept : b \in Merged <=> \A c \in Swept : End(c) # b
  BY SweptFacts
<1>2. /\ DOMAIN blocks' = (DOMAIN blocks \ Swept) \cup Merged
      /\ \A b \in Merged : blocks'[b] = MergedBlock(b)
      /\ \A b \in DOMAIN blocks \ Swept : blocks'[b] = blocks[b]
  BY <1>1 DEF Collected
<1>3. ASSUME NEW b \in Merged
      PROVE  /\ blocks'[b] \in BlockType /\ blocks'[b].free
             /\ End(b)' = MergedEnd(b)
             /\ IF \E c \in Merged : c > b
                THEN /\ blocks'[b].next \in Merged /\ b < blocks'[b].next
                     /\ \A c \in Merged : c <= b \/ blocks'[b].next <= c
                ELSE blocks'[b].next = Null
  <2> DEFINE above == {c \in Merged : c > b}
             m == MergedEnd(b)
             n == IF above = {} THEN Null ELSE Min(above)
  <2>1. blocks'[b] = [size |-> m - b, free |-> TRUE, next |-> n, entry |-> 0]
    BY <1>2 DEF MergedBlock, Block
  <2>2. b \in Nat /\ m \in Nat /\ b < m /\ m <= Size
    BY <1>1, MergedEndFacts
  <2>3. above \subseteq Nat /\ above \subseteq Merged
    BY <1>1
  <2>4. above # {} => Min(above) \in above /\ \A c \in above : Min(above) <= c
    <3> HIDE DEF above
    <3> QED
      BY <2>3, MinIsLeast
  <2>5. n \in Address \cup {Null}
    BY <1>1, <2>4 DEF TypeOK
  <2>6. /\ above # {} => n \in Merged /\ b < n /\ \A c \in above : n <= c
        /\ above = {} => n = Null
    BY <2>4
  <2>7. (\E c \in Merged : c > b) <=> above # {}
    OBVIOUS
  <2>8. \A c \in Merged : c <= b \/ c \in above
    BY <1>1, <2>2
  <2> HIDE DEF above, m, n
  <2>9. blocks'[b] \in BlockType /\ blocks'[b].free /\ blocks'[b].next = n
    BY <2>1, <2>2, <2>5, Sizes DEF BlockType
  <2>10. End(b)' = m
    <3>1. End(b)' = b + (m - b)
      BY <2>1 DEF End
    <3> QED
      BY <2>2, <3>1
  <2> QED
    BY <2>6, <2>7, <2>8, <2>9, <2>10 DEF m
<1>4. \A b \in DOMAIN blocks \ Swept : End(b)' = End(b)
  BY <1>2 DEF End
<1>5. FreeBlocks' = Merged
  <2>1. \A b : b \in FreeBlocks' <=> b \in DOMAIN blocks' /\ blocks'[b].free
    BY DEF FreeBlocks
  <2>2. \A b \in Merged : b \in FreeBlocks'
    BY <1>2, <1>3, <2>1
  <2>3. \A b \in FreeBlocks' : b \in Merged
    BY <1>1, <1>2, <2>1
  <2> QED
    BY <2>2, <2>3
<1>6. freeListStart' \in Swept /\ \A c \in Swept : freeListStart' <= c
  BY <1>1, MinIsLeast DEF Collected
<1>7. freeListStart' \in Merged
  <2>1. ASSUME NEW c \in Swept, End(c) = freeListStart'
        PROVE  FALSE
    <3>1. c \in Nat /\ End(c) \in Nat /\ c < End(c)
      BY <1>1, BlockFacts
    <3> QED
      BY <1>6, <2>1, <3>1
  <2> QED
    BY <1>1, <1>6, <2>1
<1> QED
  BY <1>2, <1>3, <1>4, <1>5, <1>6, <1>7

LEMMA CollectedTiles ==
  ASSUME TypeOK, Tiled, Collected
  PROVE  Tiled'
<1> DEFINE D == DOMAIN blocks
<1>1. /\ Swept \subseteq D /\ Merged \subseteq Swept
      /\ \A b \in Swept : b \in Merged <=> \A c \in Swept : End(c) # b
  BY SweptFacts
<1>2. /\ DOMAIN blocks' = (D \ Swept) \cup Merged
      /\ \A b \in Merged : End(b)' = MergedEnd(b)
      /\ \A b \in D \ Swept : End(b)' = End(b)
  BY CollectedFacts
<1>3. \A b \in D : /\ b \in Nat
                   /\ End(b) \in Nat
                   /\ b < End(b)
                   /\ End(b) = Size \/ End(b) \in D
  BY BlockFacts
<1>4. 0 \in D /\ \A b, c \in D : b < c => End(b) <= c
  BY DEF Tiled
<1>5. 0 \in DOMAIN blocks'
  <2>1. ASSUME NEW c \in Swept, End(c) = 0
        PROVE  FALSE
    BY <1>1, <1>3, <2>1
  <2> QED
    BY <1>1, <1>2, <1>4, <2>1
<1>6. \A b \in Merged : /\ MergedEnd(b) \in Nat
                        /\ b < MergedEnd(b)
                        /\ MergedEnd(b) = Size \/ MergedEnd(b) \in D \ Swept
                        /\ \A x \in D : b <= x /\ x < MergedEnd(b) => x \in Swept
  BY <1>1, MergedEndFacts
<1>7. ASSUME NEW b \in DOMAIN blocks'
      PROVE  End(b)' = Size \/ End(b)' \in DOMAIN blocks'
  <2>1. CASE b \in Merged
    BY <1>2, <1>6, <2>1
  <2>2. CASE b \in D \ Swept /\ End(b) \in Swept
    <3>1. ASSUME NEW c \in Swept, End(c) = End(b)
          PROVE  FALSE
      <4>1. c \in D /\ c \in Nat /\ b \in Nat /\ End(b) \in Nat /\ b < End(b) /\ c < End(b) /\ c # b
        BY <1>1, <1>3, <2>2, <3>1
      <4>2. ~(c < b)
        BY <1>4, <2>2, <3>1, <4>1
      <4>3. ~(b < c)
        BY <1>4, <2>2, <3>1, <4>1
      <4> QED
        BY <4>1, <4>2, <4>3
    <3>2. End(b) \in Merged
      BY <1>1, <2>2, <3>1
    <3> QED
      BY <1>2, <2>2, <3>2
  <2>3. CASE b \in D \ Swept /\ End(b) \notin Swept
    BY <1>2, <1>3, <2>3
  <2> QED
    BY <1>2, <2>1, <2>2, <2>3
<1>8. ASSUME NEW b \in DOMAIN blocks', NEW c \in DOMAIN blocks', b < c
      PROVE  End(b)' <= c
  <2>1. b \in D /\ c \in D /\ b \in Nat /\ c \in Nat
    BY <1>1, <1>2, <1>3
  <2>2. CASE b \in D \ Swept
    BY <1>2, <1>4, <1>8, <2>1, <2>2
  <2>3. CASE b \in Merged
    <3> DEFINE m == MergedEnd(b)
    <3>1. SUFFICES ASSUME c < m PROVE FALSE
      BY <1>2, <1>6, <2>1, <2>3
    <3>2. c \in Swept
      BY <1>6, <1>8, <2>1, <2>3, <3>1
    <3>3. c \in Merged
      BY <1>2, <3>2
    <3>4. c # 0
      BY <1>8, <2>1
    <3>5. PICK d \in D : End(d) = c /\ d < c
      BY <2>1, <3>4, Neighbour
    <3>6. d \in Nat /\ b <= d
      <4>1. d \in Nat
        BY <1>3
      <4>2. ~(d < b)
        BY <1>4, <1>8, <2>1, <3>5, <4>1
      <4> QED
        BY <2>1, <4>1, <4>2
    <3>7. d < m
      BY <1>6, <2>1, <2>3, <3>1, <3>5, <3>6
    <3>8. d \in Swept
      BY <1>6, <2>3, <3>6, <3>7
    <3> QED
      BY <1>1, <3>3, <3>5, <3>8
  <2> QED
    BY <1>2, <2>2, <2>3
<1> QED
  BY <1>5, <1>7, <1>8 DEF Tiled

LEMMA CollectedOrders ==
  ASSUME TypeOK, Tiled, ListOrdered, Collected, under = Null, under' = Null
  PROVE  /\ ListOrdered' /\ List' = Merged
         /\ freeSize' <= Cardinality(FreeUnits')
<1> DEFINE D == DOMAIN blocks
<1>1. /\ Swept \subseteq D /\ Swept \subseteq Nat /\ Merged \subseteq Swept
      /\ \A b \in Swept : b <= Size
  BY SweptFacts
<1>2. /\ \A b \in Merged :
           /\ End(b)' = MergedEnd(b)
           /\ IF \E c \in Merged : c > b
              THEN /\ blocks'[b].next \in Merged /\ b < blocks'[b].next
                   /\ \A c \in Merged : c <= b \/ blocks'[b].next <= c
              ELSE blocks'[b].next = Null
      /\ FreeBlocks' = Merged
      /\ freeListStart' \in Merged /\ \A c \in Swept : freeListStart' <= c
  BY CollectedFacts
<1>3. List' = Merged
  <2>1. Null \notin Merged
    BY <1>1, Sizes
  <2> QED
    BY <1>2, <2>1 DEF List
<1>4. \A b \in Swept : /\ MergedEnd(b) \in Nat
                       /\ b < MergedEnd(b)
                       /\ MergedEnd(b) <= Size
                       /\ MergedEnd(b) = Size \/ MergedEnd(b) \in D \ Swept
  BY MergedEndFacts
<1>5. ASSUME NEW b \in Merged, ~\E c \in Merged : c > b
      PROVE  MergedEnd(b) = Size
  <2> DEFINE m == MergedEnd(b)
             l == Max(Swept)
  <2>1. SUFFICES ASSUME m \in D \ Swept PROVE FALSE
    BY <1>1, <1>4
  <2>2. l \in Swept /\ \A x \in Swept : x <= l
    BY <1>1, MaxIsGreatest, Sizes DEF Collected
  <2>3. LastLink = IF l \in Dead THEN l ELSE blocks[l].next
    BY DEF LastLink
  <2> HIDE DEF l, m
  <2>4. l \in List /\ blocks[l].next = Null
    <3>1. l # Null /\ LastLink = Null
      BY <1>1, <2>2, Sizes DEF Collected
    <3>2. l \notin Dead /\ blocks[l].next = Null
      BY <2>3, <3>1
    <3> QED
      BY <2>2, <3>1, <3>2 DEF Swept, List
  <2>5. End(l) = Size
    BY <2>4 DEF ListOrdered
  <2>6. m \in Nat /\ m < Size /\ l \in Nat /\ l # m /\ b \in Nat /\ b < m
    <3>1. m \in Nat /\ m < Size
      BY <2>1, BlockFacts
    <3>2. b < m
      BY <1>1, <1>4 DEF m
    <3> QED
      BY <1>1, <2>1, <2>2, <3>1, <3>2
  <2>7. ~(l < m)
    <3>1. \A x, y \in D : x < y => End(x) <= y
      BY DEF Tiled
    <3> QED
      BY <1>1, <2>1, <2>2, <2>5, <2>6, <3>1, Sizes
  <2>8. PICK x \in Merged : m < x /\ x <= l
    BY <2>1, <2>2, <2>6, <2>7, NextMerged
  <2>9. x \in Nat
    BY <1>1
  <2> QED
    BY <1>5, <2>6, <2>8, <2>9
<1>6. ListOrdered'
  <2>1. ASSUME NEW b \in Merged
        PROVE  IF blocks'[b].next = Null
               THEN End(b)' = Size
               ELSE /\ blocks'[b].next \in Merged /\ b < blocks'[b].next
                    /\ \A c \in Merged : c <= b \/ blocks'[b].next <= c
    <3>1. CASE \E c \in Merged : c > b
      <4>1. blocks'[b].next # Null
        BY <1>1, <1>2, <3>1, Sizes
      <4> QED
        BY <1>2, <3>1, <4>1
    <3>2. CASE ~\E c \in Merged : c > b
      BY <1>2, <1>5, <3>2
    <3> QED
      BY <3>1, <3>2
  <2> QED
    BY <1>1, <1>2, <1>3, <2>1 DEF ListOrdered
<1>7. freeSize' <= Cardinality(FreeUnits')
  <2> DEFINE swept == {u \in Address : \E b \in Swept : u \in b..(End(b) - 1)}
  <2>1. ASSUME NEW u \in Address, NEW b \in Swept, u \in b..(End(b) - 1)
        PROVE  u \in FreeUnits'
    <3> DEFINE low == {x \in Merged : x <= b}
    <3>1. low \subseteq Nat /\ freeListStart' \in low /\ \A x \in low : x <= Size
      BY <1>1, <1>2
    <3>2. PICK g \in low : \A x \in low : x <= g
      <4> HIDE DEF low
      <4> QED
        BY <3>1, Greatest, Sizes
    <3> DEFINE m == MergedEnd(g)
    <3>3. /\ g \in Merged /\ g \in Nat /\ b \in Nat /\ g <= b /\ b \in D
          /\ b < Size /\ End(b) \in Nat /\ End(b) <= Size
          /\ \A y \in D : b < y => End(b) <= y
      BY <1>1, BlockFacts
    <3>4. m \in Nat /\ (m = Size \/ m \in D \ Swept)
      BY <1>1, <1>4
    <3> HIDE DEF m
    <3>5. b < m
      <4>1. SUFFICES ASSUME m <= b PROVE FALSE
        BY <3>3, <3>4
      <4>2. m \in D \ Swept
        BY <3>3, <3>4, <4>1, Sizes
      <4>3. m < b
        BY <3>3, <3>4, <4>1, <4>2
      <4>4. PICK x \in Merged : m < x /\ x <= b
        BY <4>2, <4>3, NextMerged
      <4>5. x \in low /\ x \in Nat
        BY <1>1, <4>4
      <4>6. x <= g /\ g < m
        BY <1>1, <1>4, <3>2, <4>5 DEF m
      <4> QED
        BY <3>3, <3>4, <4>4, <4>5, <4>6
    <3>6. End(b) <= m
      BY <3>3, <3>4, <3>5
    <3>7. u \in Nat /\ u >= b /\ u < End(b)
      BY <2>1, <3>3
    <3>8. End(g)' = m
      BY <1>2 DEF m
    <3>9. u \in g..(End(g)' - 1)
      BY <3>3, <3>4, <3>6, <3>7, <3>8
    <3> QED
      BY <1>3, <3>3, <3>9 DEF FreeUnits
  <2>2. swept \subseteq FreeUnits'
    BY <2>1
  <2>3. IsFiniteSet(FreeUnits')
    <3>1. IsFiniteSet(Address)
      BY FS_Interval, Sizes DEF Address
    <3> QED
      BY <3>1, FS_Subset DEF FreeUnits
  <2>4. freeSize' = Cardinality(swept)
    BY DEF Collected
  <2> HIDE DEF swept
  <2> QED
    BY <2>2, <2>3, <2>4, FS_Subset
<1> QED
  BY <1>3, <1>6, <1>7

LEMMA CollectKeeps ==
  ASSUME MemInv, pc \in {"enter", "search"}, NEW place,
         Collect(place),
         place \in {"enter", "search"} \/ place = "damaged",
         place # "damaged" => under = Null,
         UNCHANGED <<reachable, under, want>>, depth' \in 1..MaxDepth
  PROVE  MemInv'
<1>1. TypeOK /\ Tiled /\ InOrder /\ ListOrdered /\ EntriesOwn
      /\ StackOk(freeStack, table, UsedEntries) /\ ReachableLive
  BY DEF MemInv, Alive, InOrder
<1>2. /\ DOMAIN blocks \subseteq Address /\ freeListStart \in Address /\ freeSize \in Int
      /\ reachable' \subseteq Address /\ under' \in Address \cup {Null}
      /\ want' \in Requests \cup {0} /\ depth' \in 0..MaxDepth
      /\ \A b \in DOMAIN blocks :
           blocks[b] \in [size : 1..Size, free : BOOLEAN, next : Address \cup {Null}, entry : Nat]
  BY <1>1, MaxDepthAssumption DEF TypeOK
<1>3. CASE pc' = "crashed" /\ UNCHANGED <<heap, objects>>
  <2>1. blocks' = blocks /\ freeListStart' = freeListStart /\ freeSize' = freeSize
        /\ table' = table /\ freeStack' = freeStack
    BY <1>3 DEF heap, objects
  <2>2. TypeOK'
    BY <1>1, <1>2, <1>3, <2>1 DEF TypeOK
  <2>3. Tiled'
    BY <1>1, <1>3, HeapUnchanged
  <2> QED
    BY <1>3, <2>2, <2>3 DEF MemInv, Alive
<1>4. CASE Collected /\ RemoveObjects(Dead) /\ pc' = place
  <2>1. /\ DOMAIN blocks' = (DOMAIN blocks \ Swept) \cup Merged
        /\ \A b \in Merged : blocks'[b] \in BlockType /\ blocks'[b].free
        /\ \A b \in DOMAIN blocks \ Swept : blocks'[b] = blocks[b]
        /\ freeListStart' \in Merged
    BY <1>1, <1>4, CollectedFacts
  <2>2. /\ Swept \subseteq DOMAIN blocks /\ Merged \subseteq Swept
        /\ \A b \in DOMAIN blocks : ~blocks[b].free => (b \in Swept <=> b \in Dead)
        /\ \A b \in DOMAIN blocks \ Swept : ~blocks[b].free
    BY <1>1, SweptFacts
  <2>3. /\ table' \in Seq(Nat) /\ DOMAIN table' = DOMAIN table /\ freeStack' \in 0..Len(table')
        /\ \A c \in DOMAIN blocks \ Dead :
             ~blocks[c].free => table'[blocks[c].entry] = table[blocks[c].entry]
        /\ StackOk(freeStack', table',
                   {blocks[c].entry : c \in {x \in DOMAIN blocks \ Dead : ~blocks[x].free}})
    BY <1>1, <1>4, RemoveObjectsGives
  <2>4. freeSize' \in Int
    <3>1. IsFiniteSet(Address)
      BY FS_Interval, Sizes DEF Address
    <3> DEFINE swept == {u \in Address : \E b \in Swept : u \in b..(End(b) - 1)}
    <3>2. swept \subseteq Address /\ freeSize' = Cardinality(swept)
      BY <1>4 DEF Collected
    <3> HIDE DEF swept
    <3>3. Cardinality(swept) \in Nat
      BY <3>1, <3>2, FS_Subset, FS_CardinalityType
    <3> QED
      BY <3>2, <3>3
  <2>5. TypeOK'
    <3>1. DOMAIN blocks' \subseteq Address
      BY <1>2, <2>1, <2>2
    <3>2. \A b \in DOMAIN blocks' :
            blocks'[b] \in [size : 1..Size, free : BOOLEAN, next : Address \cup {Null}, entry : Nat]
      BY <1>2, <2>1, <2>2 DEF BlockType
    <3>3. freeListStart' \in Address
      BY <1>2, <2>1, <2>2
    <3>4. pc' \in {"enter", "search", "damaged"}
      BY <1>4
    <3> QED
      BY <1>2, <2>3, <2>4, <3>1, <3>2, <3>3, <3>4 DEF TypeOK
  <2>6. Tiled'
    BY <1>1, <1>4, CollectedTiles
  <2>7. ASSUME under = Null, pc' \in {"enter", "search"}
        PROVE  InOrder'
    <3>1. ListOrdered' /\ freeSize' <= Cardinality(FreeUnits')
      BY <1>1, <1>4, <2>7, CollectedOrders
    <3>2. UnderOk'
      <4>1. want \in Requests
        BY <1>1 DEF InOrder, UnderOk
      <4> QED
        BY <2>7, <4>1 DEF UnderOk
    <3>3. ReachableLive'
      BY <1>1, <2>1, <2>2 DEF ReachableLive, Dead
    <3>4. \A b \in DOMAIN blocks' : ~blocks'[b].free =>
            b \in DOMAIN blocks \ Dead /\ ~blocks[b].free /\ blocks'[b] = blocks[b]
      BY <2>1, <2>2
    <3>5. \A b \in DOMAIN blocks \ Dead : ~blocks[b].free =>
            b \in DOMAIN blocks' /\ ~blocks'[b].free /\ blocks'[b] = blocks[b]
      BY <2>1, <2>2
    <3>6. EntriesOwn'
      BY <1>1, <2>3, <3>4 DEF EntriesOwn
    <3>7. UsedEntries' = {blocks[c].entry : c \in {x \in DOMAIN blocks \ Dead : ~blocks[x].free}}
      <4>1. \A i : i \in UsedEntries' <=> \E b \in DOMAIN blocks' : ~blocks'[b].free /\ i = blocks'[b].entry
        BY DEF UsedEntries
      <4> DEFINE kept == {blocks[c].entry : c \in {x \in DOMAIN blocks \ Dead : ~blocks[x].free}}
      <4>2. \A i : i \in kept <=> \E b \in DOMAIN blocks \ Dead : ~blocks[b].free /\ i = blocks[b].entry
        OBVIOUS
      <4> HIDE DEF kept
      <4>3. \A i \in UsedEntries' : i \in kept
        BY <3>4, <4>1, <4>2
      <4>4. \A i \in kept : i \in UsedEntries'
        BY <3>5, <4>1, <4>2
      <4>5. UsedEntries' = kept
        BY <4>3, <4>4
      <4> QED
        BY <4>5 DEF kept
    <3> QED
      BY <2>3, <3>1, <3>2, <3>3, <3>6, <3>7 DEF InOrder
  <2> QED
    BY <1>4, <2>5, <2>6, <2>7 DEF MemInv, Alive
<1> QED
  BY <1>3, <1>4 DEF Collect, Collected

LEMMA NextKeeps == MemInv /\ [Next]_vars => MemInv'
<1> SUFFICES ASSUME MemInv, [Next]_vars PROVE MemInv'
  OBVIOUS
<1>1. ASSUME NEW n \in Requests, New(n) PROVE MemInv'
  BY <1>1, NewKeeps
<1>2. ASSUME Enter PROVE MemInv'
  <2>1. pc = "enter" /\ UNCHANGED <<reachable, under, want, depth>>
    BY <1>2 DEF Enter
  <2>2. TypeOK /\ Tiled /\ InOrder /\ depth \in 1..MaxDepth /\ want \in Requests
    <3>1. TypeOK /\ Tiled /\ InOrder
      BY <2>1 DEF MemInv, Alive
    <3> QED
      BY <2>1, <3>1, MaxDepthAssumption DEF InOrder, UnderOk, TypeOK
  <2>3. CASE freeSize <= Buffer
    <3> DEFINE place == IF under = Null THEN "search" ELSE "damaged"
    <3>1. Collect(place)
      BY <1>2, <2>3 DEF Enter
    <3>2. (place \in {"enter", "search"} \/ place = "damaged") /\ (place # "damaged" => under = Null)
      OBVIOUS
    <3> HIDE DEF place
    <3> QED
      BY <2>1, <2>2, <3>1, <3>2, CollectKeeps
  <2>4. CASE ~(freeSize <= Buffer)
    <3>1. pc' = "search" /\ UNCHANGED <<heap, objects>>
      BY <1>2, <2>4 DEF Enter
    <3>2. blocks' = blocks /\ freeListStart' = freeListStart /\ freeSize' = freeSize
          /\ table' = table /\ freeStack' = freeStack
      BY <3>1 DEF heap, objects
    <3>3. TypeOK'
      BY <2>1, <2>2, <3>1, <3>2 DEF TypeOK
    <3>4. UnderOk' /\ ReachableLive'
      BY <2>1, <2>2, <3>1, <3>2 DEF InOrder, UnderOk, ReachableLive, FreeBlocks
    <3> QED
      BY <2>1, <2>2, <3>1, <3>3, <3>4, HeapUnchanged DEF MemInv, InOrder
  <2> QED
    BY <2>3, <2>4
<1>3. ASSUME Search PROVE MemInv'
  <2> DEFINE b == Found
  <2>1. pc = "search" /\ want' = want
    BY <1>3 DEF Search
  <2>2. TypeOK /\ Tiled /\ InOrder /\ ListOrdered
    BY <2>1 DEF MemInv, Alive, InOrder
  <2>3. b \in List
    BY <2>2, SearchFinds
  <2>4. depth \in 1..MaxDepth /\ depth \in Nat /\ MaxDepth \in Nat
    BY <2>1, <2>2, MaxDepthAssumption DEF InOrder, UnderOk, TypeOK
  <2>5. \/ blocks[b].size = want /\ TakeAll(b) /\ depth' = depth
        \/ blocks[b].size >= want + Header /\ Split(b) /\ depth' = depth
        \/ Retry
    BY <1>3 DEF Search
  <2> HIDE DEF b
  <2>6. CASE Retry
    <3>1. UNCHANGED <<reachable, under>>
      BY <2>6 DEF Retry
    <3>2. CASE depth < MaxDepth
      <4> DEFINE place == IF under = Null THEN "enter" ELSE "damaged"
      <4>1. Collect(place) /\ depth' = depth + 1
        BY <2>6, <3>2 DEF Retry
      <4>2. (place \in {"enter", "search"} \/ place = "damaged") /\ (place # "damaged" => under = Null)
        OBVIOUS
      <4>3. depth' \in 1..MaxDepth
        BY <2>4, <3>2, <4>1
      <4> HIDE DEF place
      <4> QED
        BY <2>1, <3>1, <4>1, <4>2, <4>3, CollectKeeps
    <3>3. CASE ~(depth < MaxDepth)
      <4>1. pc' = "overflow" /\ UNCHANGED <<heap, objects, depth>>
        BY <2>6, <3>3 DEF Retry
      <4>2. blocks' = blocks /\ freeListStart' = freeListStart /\ freeSize' = freeSize
            /\ table' = table /\ freeStack' = freeStack
        BY <4>1 DEF heap, objects
      <4>3. TypeOK'
        BY <2>1, <2>2, <3>1, <4>1, <4>2 DEF TypeOK
      <4>4. UnderOk' /\ ReachableLive'
        BY <2>2, <3>1, <4>1, <4>2 DEF InOrder, UnderOk, ReachableLive, FreeBlocks
      <4> QED
        BY <2>2, <3>1, <4>1, <4>3, <4>4, HeapUnchanged DEF MemInv, InOrder
    <3> QED
      BY <3>2, <3>3
  <2> QED
    BY <2>1, <2>3, <2>5, <2>6, TakingKeeps
<1>4. ASSUME Construct PROVE MemInv'
  BY <1>4, ConstructKeeps
<1>5. ASSUME NEW b \in reachable, Drop(b) PROVE MemInv'
  BY <1>5, DropKeeps
<1>6. ASSUME UNCHANGED vars PROVE MemInv'
  <2>1. blocks' = blocks /\ freeListStart' = freeListStart /\ freeSize' = freeSize
        /\ table' = table /\ freeStack' = freeStack /\ reachable' = reachable
        /\ under' = under /\ want' = want /\ depth' = depth /\ pc' = pc
        /\ UNCHANGED <<heap, objects>>
    BY <1>6 DEF vars, heap, objects
  <2>2. TypeOK => TypeOK'
    BY <2>1 DEF TypeOK
  <2>3. UnderOk => UnderOk'
    BY <2>1 DEF UnderOk, FreeBlocks
  <2>4. ReachableLive => ReachableLive'
    BY <2>1 DEF ReachableLive
  <2> QED
    BY <2>1, <2>2, <2>3, <2>4, HeapUnchanged DEF MemInv, InOrder, Alive
<1> QED
  BY <1>1, <1>2, <1>3, <1>4, <1>5, <1>6 DEF Next

-----------------------------------------------------------------------------
(* What the invariant says.                                                 *)

LEMMA InvGivesHeap == MemInv => HeapExact
<1> SUFFICES ASSUME MemInv PROVE HeapExact
  OBVIOUS
<1>1. TypeOK /\ Tiled /\ (Alive => InOrder)
  BY DEF MemInv
<1>2. Alive => FreeListExact
  <2> SUFFICES ASSUME Alive PROVE FreeListExact
    OBVIOUS
  <2>1. ListOrdered
    BY <1>1 DEF InOrder
  <2>2. FreeList = FreeBlocks \ {under}
    BY <1>1, <2>1, ListIsFollowed DEF List
  <2> QED
    BY <2>1, <2>2 DEF FreeListExact, ListOrdered, List
<1>3. Alive => FreeSizeNotOverstated
  BY <1>1 DEF InOrder, FreeSizeNotOverstated, FreeUnits, List
<1> QED
  BY <1>1, <1>2, <1>3 DEF HeapExact, FreeListExact, FreeSizeNotOverstated

LEMMA InvGivesTable == MemInv => TableExact
<1> SUFFICES ASSUME MemInv PROVE TableExact
  OBVIOUS
<1>1. TypeOK /\ (Alive => InOrder)
  BY DEF MemInv
<1>2. Alive => ReachableIntact
  BY <1>1 DEF InOrder, EntriesOwn, ReachableLive, ReachableIntact
<1>3. Alive => FreeEntriesExact
  <2> SUFFICES ASSUME Alive PROVE FreeEntriesExact
    OBVIOUS
  <2> DEFINE S == DOMAIN table \ UsedEntries
  <2>1. StackOk(freeStack, table, UsedEntries)
    BY <1>1 DEF InOrder
  <2>2. /\ ClosedUnder(S, freeStack, table, 0)
        /\ \A T : ClosedUnder(T, freeStack, table, 0) => S \subseteq T
    BY <2>1 DEF StackOk, ClosedUnder
  <2>3. Along(freeStack, table, 0) = S
    <3> HIDE DEF S
    <3> QED
      BY <2>2, AlongIsLeast
  <2> QED
    BY <2>1, <2>3 DEF StackOk, FreeEntriesExact
<1> QED
  BY <1>2, <1>3 DEF TableExact, ReachableIntact, FreeEntriesExact

LEMMA InvHolds == Spec => []MemInv
<1> QED
  BY InitInv, NextKeeps, PTL DEF Spec

\* Every block keeps a size that fits the heap, every link leads into it, and every
\* number stays in its range, whatever is asked for in whatever order
\* (Heap.cpp:126-212).
THEOREM MemoryTypeCorrect == Spec => []TypeOK
<1>1. MemInv => TypeOK
  BY DEF MemInv
<1> QED
  BY <1>1, InvHolds, PTL

\* However memory is split, handed out, swept and merged, the blocks cover the heap
\* without gap or overlap; as long as no null pointer was met, the list holds
\* exactly the free blocks, by address, up to the end of the heap, and
\* sizeOfFreeHeap promises no more than they have (Heap.cpp:126-212,
\* GarbageCollector.cpp:62-192).
THEOREM HeapAlwaysExact == Spec => []HeapExact
<1> QED
  BY InvHolds, InvGivesHeap, PTL

\* What the program refers to stays where it is and keeps its entry, and the stack
\* of free entries holds each of the others once, after any sequence of objects
\* made, dropped and collected (ObjectTable.cpp:37-90, GarbageCollector.cpp:62-134).
THEOREM TableAlwaysExact == Spec => []TableExact
<1> QED
  BY InvHolds, InvGivesTable, PTL

=============================================================================
