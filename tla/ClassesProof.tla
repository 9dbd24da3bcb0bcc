---------------------------- MODULE ClassesProof ----------------------------
(***************************************************************************)
(* Proofs about how the virtual machine gets its classes: for every command *)
(* line, class path and contents of files, and any depth of superclasses.   *)
(* That classes are linked needs files that fit the virtual machine         *)
(* (LibraryFits); the rest holds whatever the files say.                    *)
(***************************************************************************)
EXTENDS Classes, SequenceTheorems, FiniteSetTheorems, WellFoundedInduction, TLAPS

--------------------
(* Sequences of anything. *)

IsSeq(q) == q \in Seq({q[i] : i \in DOMAIN q})

LEMMA SeqIsSeq ==
  ASSUME NEW S, NEW q \in Seq(S)
  PROVE  IsSeq(q)
<1>1. /\ Len(q) \in Nat /\ DOMAIN q = 1..Len(q) /\ q \in [1..Len(q) -> S]
  OBVIOUS
<1>2. q \in [1..Len(q) -> {q[i] : i \in DOMAIN q}]
  BY <1>1
<1>3. QED
  BY <1>1, <1>2, SeqDef DEF IsSeq

LEMMA Measured ==
  ASSUME NEW q, IsSeq(q)
  PROVE  Len(q) \in Nat /\ DOMAIN q = 1..Len(q) /\ (q # << >> => Len(q) \in DOMAIN q)
BY DEF IsSeq

LEMMA Appended ==
  ASSUME NEW q, IsSeq(q), NEW x
  PROVE  /\ IsSeq(Append(q, x))
         /\ Len(Append(q, x)) = Len(q) + 1
         /\ DOMAIN Append(q, x) = 1..(Len(q) + 1)
         /\ Append(q, x)[Len(q) + 1] = x
         /\ \A i \in DOMAIN q : Append(q, x)[i] = q[i]
<1> DEFINE S == {q[i] : i \in DOMAIN q} \cup {x}
<1>1. q \in Seq(S)
  BY DEF IsSeq
<1>2. x \in S
  OBVIOUS
<1> HIDE DEF S
<1>3. Append(q, x) \in Seq(S)
  BY <1>1, <1>2
<1>4. IsSeq(Append(q, x))
  BY <1>3, SeqIsSeq
<1>5. Len(q) \in Nat /\ DOMAIN q = 1..Len(q)
  BY Measured
<1>6. DOMAIN Append(q, x) = 1..Len(Append(q, x))
  BY <1>4, Measured
<1>7. QED
  BY <1>1, <1>2, <1>4, <1>5, <1>6, AppendProperties

LEMMA Shortened ==
  ASSUME NEW q, IsSeq(q), NEW n \in Nat, n <= Len(q)
  PROVE  /\ IsSeq(SubSeq(q, 1, n))
         /\ Len(SubSeq(q, 1, n)) = n
         /\ \A i \in 1..n : SubSeq(q, 1, n)[i] = q[i]
<1> DEFINE S == {q[i] : i \in DOMAIN q}
<1>1. q \in Seq(S)
  BY DEF IsSeq
<1> HIDE DEF S
<1>2. SubSeq(q, 1, n) \in Seq(S) /\ Len(SubSeq(q, 1, n)) = n
  BY <1>1
<1>3. \A i \in 1..n : SubSeq(q, 1, n)[i] = q[i]
  BY <1>1
<1>4. QED
  BY <1>2, <1>3, SeqIsSeq

\* The innermost call, or it and the one that waits for it, gives way to another.
LEMMA Replaced ==
  ASSUME NEW q, IsSeq(q), NEW n \in Nat, n < Len(q), NEW x
  PROVE  LET r == Append(SubSeq(q, 1, n), x)
         IN  /\ IsSeq(r) /\ Len(r) = n + 1 /\ DOMAIN r = 1..(n + 1)
             /\ r[n + 1] = x /\ \A i \in 1..n : r[i] = q[i]
<1> DEFINE s == SubSeq(q, 1, n)
<1>1. Len(q) \in Nat
  BY Measured
<1>2. IsSeq(s) /\ Len(s) = n /\ \A i \in 1..n : s[i] = q[i]
  BY <1>1, Shortened
<1>3. DOMAIN s = 1..n
  BY <1>2, Measured
<1> HIDE DEF s
<1>4. QED
  BY <1>2, <1>3, Appended DEF s

LEMMA TopSet ==
  ASSUME NEW q, IsSeq(q), q # << >>, NEW x
  PROVE  LET r == Append(Front(q), x)
         IN  /\ IsSeq(r) /\ Len(r) = Len(q) /\ DOMAIN r = DOMAIN q
             /\ r[Len(q)] = x /\ \A i \in DOMAIN q : i # Len(q) => r[i] = q[i]
<1>1. Len(q) \in Nat \ {0} /\ DOMAIN q = 1..Len(q)
  BY Measured DEF IsSeq
<1>2. Len(q) - 1 \in Nat /\ Len(q) - 1 < Len(q) /\ Front(q) = SubSeq(q, 1, Len(q) - 1)
  BY <1>1 DEF Front
<1>3. QED
  BY <1>1, <1>2, Replaced

LEMMA Single ==
  ASSUME NEW x
  PROVE  IsSeq(<<x>>) /\ Len(<<x>>) = 1 /\ DOMAIN <<x>> = {1} /\ <<x>>[1] = x
<1>1. <<x>> \in Seq({x})
  OBVIOUS
<1>2. IsSeq(<<x>>)
  BY <1>1, SeqIsSeq
<1>3. QED
  BY <1>1, <1>2

LEMMA NoneYet == IsSeq(<< >>) /\ DOMAIN << >> = {} /\ Len(<< >>) = 0
<1>1. << >> \in Seq({})
  OBVIOUS
<1>2. IsSeq(<< >>)
  BY <1>1, SeqIsSeq
<1>3. QED
  BY <1>1, <1>2

--------------------
(* The steps of Universe::initialize. *)

LEMMA Orders ==
  /\ Len(AllocationOrder) = 13 /\ DOMAIN AllocationOrder = 1..13
  /\ Len(SystemSuperClasses) = 13 /\ DOMAIN SystemSuperClasses = 1..13
BY DEF AllocationOrder, SystemSuperClasses

LEMMA Concatenated ==
  ASSUME NEW S, NEW s \in Seq(S), NEW t \in Seq(S), NEW m \in Nat, NEW n \in Nat,
         Len(s) = m, Len(t) = n
  PROVE  /\ s \o t \in Seq(S) /\ Len(s \o t) = m + n
         /\ \A i \in 1..m : (s \o t)[i] = s[i]
         /\ \A i \in (m + 1)..(m + n) : (s \o t)[i] = t[i - m]
<1>1. s \o t \in Seq(S) /\ Len(s \o t) = m + n
  OBVIOUS
<1>2. \A i \in 1..m : (s \o t)[i] = s[i]
  OBVIOUS
<1>3. \A i \in (m + 1)..(m + n) : (s \o t)[i] = t[i - m]
  OBVIOUS
<1>4. QED
  BY <1>1, <1>2, <1>3

LenIs(q, n) == Len(q) \in Nat /\ Len(q) <= n /\ Len(q) >= n

LEMMA BootStepsAre ==
  /\ LenIs(BootSteps, 45)
  /\ \A i \in 1..13 : BootSteps[i] = Step("allocate", AllocationOrder[i], "")
  /\ BootSteps[14] = Step("nil", "Nil", "")
  /\ \A i \in 15..27 : BootSteps[i] = Step("initialize", SystemSuperClasses[i - 14][1],
                                           SystemSuperClasses[i - 14][2])
  /\ \A i \in 28..40 : BootSteps[i] = Step("system", SystemSuperClasses[i - 27][1], "")
  /\ \A i \in 41..44 : \E n \in {"Block", "True", "False", "System"} :
                           BootSteps[i] = Step("class", n, "")
  /\ BootSteps[41] = Step("class", "Block", "") /\ BootSteps[42] = Step("class", "True", "")
  /\ BootSteps[43] = Step("class", "False", "") /\ BootSteps[44] = Step("class", "System", "")
  /\ BootSteps[45] = Step("globals", "", "")
<1> DEFINE a == [i \in DOMAIN AllocationOrder |-> Step("allocate", AllocationOrder[i], "")]
           b == <<Step("nil", "Nil", "")>>
           c == [i \in DOMAIN SystemSuperClasses |->
                    Step("initialize", SystemSuperClasses[i][1], SystemSuperClasses[i][2])]
           d == [i \in DOMAIN SystemSuperClasses |-> Step("system", SystemSuperClasses[i][1], "")]
           e1 == Step("class", "Block", "")
           e2 == Step("class", "True", "")
           e3 == Step("class", "False", "")
           e4 == Step("class", "System", "")
           e5 == Step("globals", "", "")
           e == <<e1, e2, e3, e4, e5>>
           S == {a[i] : i \in 1..13} \cup {b[1]} \cup {c[i] : i \in 1..13}
                \cup {d[i] : i \in 1..13} \cup {e1, e2, e3, e4, e5}
<1>1. a \in Seq(S) /\ LenIs(a, 13)
  BY Orders DEF LenIs
<1>2. b \in Seq(S) /\ LenIs(b, 1)
  BY DEF LenIs
<1>3. c \in Seq(S) /\ LenIs(c, 13)
  BY Orders DEF LenIs
<1>4. d \in Seq(S) /\ LenIs(d, 13)
  BY Orders DEF LenIs
<1>5. e \in Seq(S) /\ LenIs(e, 5)
  <2>1. {e1, e2, e3, e4, e5} \subseteq S
    OBVIOUS
  <2> HIDE DEF e1, e2, e3, e4, e5, S
  <2>2. QED
    BY <2>1 DEF LenIs
<1>6. \A i \in 1..13 : a[i] = Step("allocate", AllocationOrder[i], "")
  BY Orders
<1>7. \A i \in 1..13 : /\ c[i] = Step("initialize", SystemSuperClasses[i][1],
                                      SystemSuperClasses[i][2])
                       /\ d[i] = Step("system", SystemSuperClasses[i][1], "")
  BY Orders
<1>8. b[1] = Step("nil", "Nil", "")
  OBVIOUS
<1>9. /\ \A i \in 1..4 : \E n \in {"Block", "True", "False", "System"} :
                             e[i] = Step("class", n, "")
      /\ e[1] = Step("class", "Block", "") /\ e[2] = Step("class", "True", "")
      /\ e[3] = Step("class", "False", "") /\ e[4] = Step("class", "System", "")
      /\ e[5] = Step("globals", "", "")
  <2>1. /\ e[1] = Step("class", "Block", "") /\ e[2] = Step("class", "True", "")
        /\ e[3] = Step("class", "False", "") /\ e[4] = Step("class", "System", "")
        /\ e[5] = Step("globals", "", "")
    OBVIOUS
  <2>2. \A i \in 1..4 : i = 1 \/ i = 2 \/ i = 3 \/ i = 4
    OBVIOUS
  <2>3. QED
    BY <2>1, <2>2
<1>10. BootSteps = a \o b \o c \o d \o e
  BY DEF BootSteps
<1> HIDE DEF a, b, c, d, e, S
<1> DEFINE ab == a \o b
           abc == ab \o c
           abcd == abc \o d
           all == abcd \o e
<1> HIDE DEF ab, abc, abcd, all
<1>11. ab \in Seq(S) /\ LenIs(ab, 14)
  BY <1>1, <1>2 DEF ab, LenIs
<1>11a. \A i \in 1..13 : ab[i] = a[i]
  BY <1>1, <1>2 DEF ab, LenIs
<1>11b. \A i \in 14..14 : ab[i] = b[i - 13]
  BY <1>1, <1>2 DEF ab, LenIs
<1>12. abc \in Seq(S) /\ LenIs(abc, 27)
  BY <1>11, <1>3 DEF abc, LenIs
<1>12a. \A i \in 1..14 : abc[i] = ab[i]
  BY <1>11, <1>3 DEF abc, LenIs
<1>12b. \A i \in 15..27 : abc[i] = c[i - 14]
  BY <1>11, <1>3 DEF abc, LenIs
<1>13. abcd \in Seq(S) /\ LenIs(abcd, 40)
  BY <1>12, <1>4 DEF abcd, LenIs
<1>13a. \A i \in 1..27 : abcd[i] = abc[i]
  BY <1>12, <1>4 DEF abcd, LenIs
<1>13b. \A i \in 28..40 : abcd[i] = d[i - 27]
  BY <1>12, <1>4 DEF abcd, LenIs
<1>14. all \in Seq(S) /\ LenIs(all, 45)
  BY <1>13, <1>5 DEF all, LenIs
<1>14a. \A i \in 1..40 : all[i] = abcd[i]
  BY <1>13, <1>5 DEF all, LenIs
<1>14b. \A i \in 41..45 : all[i] = e[i - 40]
  BY <1>13, <1>5 DEF all, LenIs
<1>15. BootSteps = all
  BY <1>10 DEF all, abcd, abc, ab
<1>16. LenIs(all, 45) /\ all[14] = Step("nil", "Nil", "")
  <2>1. all[14] = ab[14]
    BY <1>12a, <1>13a, <1>14a
  <2>2. ab[14] = b[14 - 13] /\ 14 - 13 = 1
    BY <1>11b
  <2>3. ab[14] = b[1]
    BY <2>2
  <2>4. QED
    BY <2>1, <2>3, <1>8, <1>14
<1>17. \A i \in 1..13 : all[i] = Step("allocate", AllocationOrder[i], "")
  <2> SUFFICES ASSUME NEW i \in 1..13
               PROVE  all[i] = Step("allocate", AllocationOrder[i], "")
    OBVIOUS
  <2>1. all[i] = abc[i] /\ abc[i] = ab[i]
    BY <1>12a, <1>13a, <1>14a
  <2>2. ab[i] = a[i]
    BY <1>11a
  <2>3. QED
    BY <2>1, <2>2, <1>6
<1>18. \A i \in 15..27 : all[i] = Step("initialize", SystemSuperClasses[i - 14][1],
                                       SystemSuperClasses[i - 14][2])
  <2> SUFFICES ASSUME NEW i \in 15..27
               PROVE  all[i] = Step("initialize", SystemSuperClasses[i - 14][1],
                                    SystemSuperClasses[i - 14][2])
    OBVIOUS
  <2>1. all[i] = c[i - 14] /\ i - 14 \in 1..13
    BY <1>12b, <1>13a, <1>14a
  <2>2. QED
    BY <2>1, <1>7
<1>19. \A i \in 28..40 : all[i] = Step("system", SystemSuperClasses[i - 27][1], "")
  <2> SUFFICES ASSUME NEW i \in 28..40
               PROVE  all[i] = Step("system", SystemSuperClasses[i - 27][1], "")
    OBVIOUS
  <2>1. all[i] = d[i - 27] /\ i - 27 \in 1..13
    BY <1>13b, <1>14a
  <2>2. QED
    BY <2>1, <1>7
<1>20. \A i \in 41..44 : \E n \in {"Block", "True", "False", "System"} :
                             all[i] = Step("class", n, "")
  <2> SUFFICES ASSUME NEW i \in 41..44
               PROVE  \E n \in {"Block", "True", "False", "System"} : all[i] = Step("class", n, "")
    OBVIOUS
  <2>1. all[i] = e[i - 40] /\ i - 40 \in 1..4
    BY <1>14b
  <2>2. QED
    BY <2>1, <1>9
<1>21. all[45] = Step("globals", "", "")
  <2>1. all[45] = e[45 - 40] /\ 45 - 40 = 5
    BY <1>14b
  <2>2. all[45] = e[5]
    BY <2>1
  <2>3. QED
    BY <2>2, <1>9
<1>22. /\ all[41] = Step("class", "Block", "") /\ all[42] = Step("class", "True", "")
       /\ all[43] = Step("class", "False", "") /\ all[44] = Step("class", "System", "")
  <2>1. /\ all[41] = e[41 - 40] /\ 41 - 40 = 1 /\ all[42] = e[42 - 40] /\ 42 - 40 = 2
        /\ all[43] = e[43 - 40] /\ 43 - 40 = 3 /\ all[44] = e[44 - 40] /\ 44 - 40 = 4
    BY <1>14b
  <2>2. all[41] = e[1] /\ all[42] = e[2] /\ all[43] = e[3] /\ all[44] = e[4]
    BY <2>1
  <2>3. QED
    BY <2>2, <1>9
<1>23. QED
  BY <1>15, <1>16, <1>17, <1>18, <1>19, <1>20, <1>21, <1>22

--------------------
(* Parsers. *)

\* What a parser is replaced by, and what is left of it when the class is read.
ParserSound(p) ==
  /\ p \in [current : Nat, alive : SUBSET Nat, made : Nat, twice : BOOLEAN]
  /\ p.current = None \/ p.current \in p.alive
  /\ ~p.twice

LEMMA NewParserSound ==
  ASSUME NEW p, ParserSound(p)
  PROVE  ParserSound(NewParser(p))
<1>1. /\ DeleteParser(p) \in [current : Nat, alive : SUBSET Nat, made : Nat, twice : BOOLEAN]
      /\ ~DeleteParser(p).twice
  BY DEF ParserSound, DeleteParser
<1>2. p.made + 1 \in Nat
  BY DEF ParserSound
<1>3. QED
  BY <1>1, <1>2 DEF ParserSound, NewParser

LEMMA ParserDoneSound ==
  ASSUME NEW p, ParserSound(p)
  PROVE  ParserSound(ParserDone(p))
<1>1. /\ DeleteParser(p) \in [current : Nat, alive : SUBSET Nat, made : Nat, twice : BOOLEAN]
      /\ ~DeleteParser(p).twice
  BY DEF ParserSound, DeleteParser
<1>2. QED
  BY <1>1 DEF ParserSound, ParserDone, None

LEMMA ParsersKept ==
  ParserSound(parsers) /\ [Next]_vars => ParserSound(parsers)'
<1> SUFFICES ASSUME ParserSound(parsers), [Next]_vars PROVE ParserSound(parsers')
  BY DEF ParserSound
<1>1. CASE OpenFile
  BY <1>1, NewParserSound, ParserDoneSound DEF OpenFile
<1>2. CASE Assemble
  BY <1>2, ParserDoneSound DEF Assemble
<1>3. CASE ReadLine
  BY <1>3, NewParserSound, ParserDoneSound DEF ReadLine
<1>4. CASE UNCHANGED parsers
  BY <1>4
<1>5. CASE UNCHANGED vars
  BY <1>5 DEF vars
<1>6. QED
  BY <1>1, <1>2, <1>3, <1>4, <1>5
     DEF Next, HandleArgument, ArgumentsHandled, Boot, NotFound, LoadSuperClass, Return, Ask,
         GetBlockClassWithArgs, Load, Loaded, BlocksForResolve, Look, PutGlobals

\* A parser that was replaced while its class waited for its superclass is not deleted
\* again when that class is complete (src/compiler/SourcecodeCompiler.cpp:51-88).
THEOREM NoParserDeletedTwice == Spec => []ParsersDeletedOnce
<1>1. Init => ParserSound(parsers)
  BY DEF Init, ParserSound, None
<1>2. ParserSound(parsers) => ParsersDeletedOnce
  BY DEF ParserSound, ParsersDeletedOnce
<1>3. QED
  BY <1>1, <1>2, ParsersKept, PTL DEF Spec

--------------------
(* Calls of LoadClass. *)

IsCall(c) ==
  c \in [name : {c.name}, how : {c.how}, system : {c.system}, pc : {c.pc}, dir : {c.dir},
         super : {c.super}, class : {c.class}]

\* What a call loads stays the same until it returns.
SameLoad(c, d) == IsCall(d) /\ d.name = c.name /\ d.how = c.how /\ d.system = c.system

LEMMA NewCall ==
  ASSUME NEW name, NEW how, NEW system
  PROVE  LET c == Call(name, how, system)
         IN  /\ IsCall(c) /\ c.name = name /\ c.how = how /\ c.system = system
             /\ c.pc = "find" /\ c.super = None /\ c.class = None
BY DEF Call, IsCall

LEMMA CallGoesOn ==
  ASSUME NEW c, IsCall(c), NEW p, NEW x
  PROVE  /\ SameLoad(c, [c EXCEPT !.pc = p]) /\ [c EXCEPT !.pc = p].pc = p
         /\ SameLoad(c, [c EXCEPT !.dir = x]) /\ [c EXCEPT !.dir = x].pc = c.pc
         /\ SameLoad(c, [c EXCEPT !.pc = p, !.dir = x]) /\ [c EXCEPT !.pc = p, !.dir = x].pc = p
         /\ SameLoad(c, [c EXCEPT !.pc = p, !.class = x])
         /\ [c EXCEPT !.pc = p, !.class = x].pc = p /\ [c EXCEPT !.pc = p, !.class = x].class = x
         /\ SameLoad(c, [c EXCEPT !.super = x, !.pc = p])
         /\ [c EXCEPT !.super = x, !.pc = p].pc = p /\ [c EXCEPT !.super = x, !.pc = p].super = x
<1>1. /\ SameLoad(c, [c EXCEPT !.pc = p]) /\ [c EXCEPT !.pc = p].pc = p
      /\ SameLoad(c, [c EXCEPT !.dir = x]) /\ [c EXCEPT !.dir = x].pc = c.pc
  BY DEF SameLoad, IsCall
<1>2. SameLoad(c, [c EXCEPT !.pc = p, !.dir = x]) /\ [c EXCEPT !.pc = p, !.dir = x].pc = p
  BY DEF SameLoad, IsCall
<1>3. /\ SameLoad(c, [c EXCEPT !.pc = p, !.class = x])
      /\ [c EXCEPT !.pc = p, !.class = x].pc = p /\ [c EXCEPT !.pc = p, !.class = x].class = x
  BY DEF SameLoad, IsCall
<1>4. /\ SameLoad(c, [c EXCEPT !.super = x, !.pc = p])
      /\ [c EXCEPT !.super = x, !.pc = p].pc = p /\ [c EXCEPT !.super = x, !.pc = p].super = x
  BY DEF SameLoad, IsCall
<1>5. QED
  BY <1>1, <1>2, <1>3, <1>4

\* Only the outermost call may be for a class of blocks, and the program does not ask
\* for one that is a global already.
BlockCallsOk(ls, gs) ==
  \A i \in DOMAIN ls : IsCall(ls[i]) /\ (ls[i].how = "block" => i = 1 /\ ls[i].name \notin DOMAIN gs)

CallsInv ==
  /\ IsSeq(loads)
  /\ BlockCallsOk(loads, globals)
  /\ outcome \in {"starting", "booting"} => \A i \in DOMAIN loads : loads[i].how # "block"
  /\ outcome = "starting" => loads = << >>

\* While the virtual machine starts, the classes of the system become globals in the
\* order in which they are initialized.
BindingsInv ==
  /\ boot \in Nat \ {0}
  /\ outcome \in {"starting", "booting"} =>
       \A n \in DOMAIN globals : globals[n] > 0 =>
           \E i \in 1..13 : i + 14 < boot /\ n = SystemSuperClasses[i][1]

LEMMA SystemNames ==
  /\ \A i, j \in 1..13 : SystemSuperClasses[i][1] = SystemSuperClasses[j][1] => i = j
  /\ \A i \in 1..13 : SystemSuperClasses[i][1] \notin
        {"integerProxy", "nil", "true", "false", "system", "System", "Block"}
BY DEF SystemSuperClasses

\* The innermost call goes on with the same class.
LEMMA TopGoesOn ==
  ASSUME CallsInv, loads # << >>, NEW d, SameLoad(top, d), SetTop(d)
  PROVE  IsSeq(loads') /\ DOMAIN loads' = DOMAIN loads /\ BlockCallsOk(loads', globals)
         /\ \A i \in DOMAIN loads : loads'[i].how = loads[i].how
<1>1. /\ IsSeq(loads') /\ DOMAIN loads' = DOMAIN loads /\ loads'[Len(loads)] = d
      /\ \A i \in DOMAIN loads : i # Len(loads) => loads'[i] = loads[i]
  BY TopSet DEF SetTop, CallsInv
<1>2. QED
  BY <1>1 DEF CallsInv, BlockCallsOk, SameLoad, top

LEMMA TopIsCall ==
  ASSUME CallsInv, loads # << >>
  PROVE  Len(loads) \in DOMAIN loads /\ IsCall(top)
BY Measured DEF CallsInv, BlockCallsOk, top

LEMMA OneCall ==
  ASSUME NEW c, IsCall(c), c.how = "block" => c.name \notin DOMAIN globals
  PROVE  /\ IsSeq(<<c>>) /\ BlockCallsOk(<<c>>, globals) /\ <<c>> # << >>
         /\ \A i \in DOMAIN <<c>> : <<c>>[i] = c
<1>1. IsSeq(<<c>>) /\ DOMAIN <<c>> = {1} /\ <<c>>[1] = c /\ Len(<<c>>) = 1
  BY Single
<1>2. \A i \in DOMAIN <<c>> : i = 1 /\ <<c>>[i] = c
  BY <1>1
<1>3. BlockCallsOk(<<c>>, globals)
  BY <1>2 DEF BlockCallsOk
<1>4. QED
  BY <1>1, <1>2, <1>3, NoneYet

--------------------
(* Bindings. *)

Kept == \A n \in DOMAIN globals : globals[n] > 0 => n \in DOMAIN globals' /\ globals'[n] = globals[n]
LoadInv == CallsInv /\ BindingsInv
LoadStep == CallsInv' /\ BindingsInv' /\ Kept

\* Steps that bind nothing.
LEMMA NothingBound ==
  ASSUME BindingsInv, UNCHANGED <<globals, boot>>,
         outcome' \in {"starting", "booting"} => outcome \in {"starting", "booting"}
  PROVE  BindingsInv' /\ Kept
BY DEF BindingsInv, Kept

LEMMA NoCalls ==
  ASSUME loads' = << >>
  PROVE  CallsInv'
<1>1. IsSeq(loads') /\ DOMAIN loads' = {}
  BY NoneYet
<1>2. BlockCallsOk(loads', globals')
  BY <1>1 DEF BlockCallsOk
<1>3. QED
  BY <1>1, <1>2 DEF CallsInv

LEMMA ArgumentSteps == LoadInv /\ (HandleArgument \/ ArgumentsHandled) => LoadStep
<1> SUFFICES ASSUME LoadInv, HandleArgument \/ ArgumentsHandled PROVE LoadStep
  OBVIOUS
<1>1. outcome = "starting" /\ UNCHANGED <<globals, boot, loads>>
  BY DEF HandleArgument, ArgumentsHandled
<1>2. loads' = << >>
  BY <1>1 DEF LoadInv, CallsInv
<1>3. QED
  BY <1>1, <1>2, NoCalls, NothingBound DEF LoadStep, LoadInv

LEMMA BootStepIs ==
  ASSUME boot \in Nat \ {0}, boot <= Len(BootSteps)
  PROVE  \/ boot \in 1..13 /\ step = Step("allocate", AllocationOrder[boot], "")
         \/ boot = 14 /\ step = Step("nil", "Nil", "")
         \/ boot \in 15..27 /\ step = Step("initialize", SystemSuperClasses[boot - 14][1],
                                           SystemSuperClasses[boot - 14][2])
         \/ boot \in 28..40 /\ step = Step("system", SystemSuperClasses[boot - 27][1], "")
         \/ boot \in 41..44 /\ \E n \in {"Block", "True", "False", "System"} :
                                   step = Step("class", n, "")
         \/ boot = 45 /\ step = Step("globals", "", "")
<1>1. boot \in 1..45
  <2>1. LenIs(BootSteps, 45)
    BY BootStepsAre
  <2>2. QED
    BY <2>1 DEF LenIs
<1>2. \/ boot \in 1..13 \/ boot = 14 \/ boot \in 15..27 \/ boot \in 28..40 \/ boot \in 41..44
      \/ boot = 45
  BY <1>1
<1>3. QED
  BY <1>2, BootStepsAre DEF step

\* A class of the system becomes a global, or a call starts, or the rest is bound.
LEMMA BootStep == LoadInv /\ Boot => LoadStep
<1> SUFFICES ASSUME LoadInv, Boot PROVE LoadStep
  OBVIOUS
<1>1. /\ outcome = "booting" /\ loads = << >> /\ boot \in Nat \ {0} /\ boot <= Len(BootSteps)
      /\ \A n \in DOMAIN globals : globals[n] > 0 =>
           \E i \in 1..13 : i + 14 < boot /\ n = SystemSuperClasses[i][1]
  BY DEF Boot, LoadInv, BindingsInv
<1>2. CASE boot \in 1..13 /\ step = Step("allocate", AllocationOrder[boot], "")
  <2>1. step.op = "allocate"
    BY <1>2 DEF Step
  <2>2. UNCHANGED <<globals, loads, outcome>> /\ boot' = boot + 1
    BY <2>1 DEF Boot
  <2>3. BindingsInv' /\ Kept
    BY <1>1, <2>2 DEF BindingsInv, Kept
  <2>4. QED
    BY <1>1, <2>2, <2>3, NoCalls DEF LoadStep
<1>3. CASE boot = 14 /\ step = Step("nil", "Nil", "")
  <2>1. step.op = "nil"
    BY <1>3 DEF Step
  <2>2. UNCHANGED <<loads, outcome>> /\ boot' = boot + 1 /\ Bind("integerProxy", NotAClass)
    BY <2>1 DEF Boot
  <2>3. ~(globals'["integerProxy"] > 0)
    BY <2>2 DEF NotAClass, Bind
  <2>4. "integerProxy" \in DOMAIN globals => ~(globals["integerProxy"] > 0)
    BY <1>1, SystemNames
  <2>5. BindingsInv' /\ Kept
    BY <1>1, <2>2, <2>3, <2>4 DEF BindingsInv, Kept, Bind
  <2>6. QED
    BY <1>1, <2>2, <2>5, NoCalls DEF LoadStep
<1>4. CASE boot \in 15..27 /\ step = Step("initialize", SystemSuperClasses[boot - 14][1],
                                          SystemSuperClasses[boot - 14][2])
  <2> DEFINE i == boot - 14
             name == SystemSuperClasses[i][1]
  <2>1. step.op = "initialize" /\ step.name = name
    BY <1>4 DEF Step
  <2>2. UNCHANGED <<loads, outcome>> /\ boot' = boot + 1 /\ Bind(name, known[name])
    BY <2>1 DEF Boot
  <2>3. i \in 1..13 /\ i + 14 < boot' /\ boot' \in Nat \ {0}
    BY <1>4, <2>2
  <2>4. name \in DOMAIN globals => ~(globals[name] > 0)
    <3> SUFFICES ASSUME name \in DOMAIN globals, globals[name] > 0 PROVE FALSE
      OBVIOUS
    <3>1. PICK j \in 1..13 : j + 14 < boot /\ name = SystemSuperClasses[j][1]
      BY <1>1
    <3>2. j = i
      BY <3>1, <2>3, SystemNames
    <3>3. QED
      BY <3>1, <3>2
  <2> HIDE DEF i
  <2>5. \A n \in DOMAIN globals' : globals'[n] > 0 =>
           \E k \in 1..13 : k + 14 < boot' /\ n = SystemSuperClasses[k][1]
    <3> SUFFICES ASSUME NEW n \in DOMAIN globals', globals'[n] > 0
                 PROVE  \E k \in 1..13 : k + 14 < boot' /\ n = SystemSuperClasses[k][1]
      OBVIOUS
    <3>1. CASE n = name
      BY <3>1, <2>3
    <3>2. CASE n # name
      <4>1. n \in DOMAIN globals /\ globals[n] > 0
        BY <2>2, <3>2 DEF Bind
      <4>2. PICK k \in 1..13 : k + 14 < boot /\ n = SystemSuperClasses[k][1]
        BY <1>1, <4>1
      <4>3. k + 14 < boot'
        BY <4>2, <2>2, <1>1
      <4>4. QED
        BY <4>2, <4>3
    <3>3. QED
      BY <3>1, <3>2
  <2>6. BindingsInv'
    BY <2>3, <2>5 DEF BindingsInv
  <2> HIDE DEF name
  <2>7. Kept
    BY <2>2, <2>4 DEF Kept, Bind
  <2>8. QED
    BY <1>1, <2>2, <2>6, <2>7, NoCalls DEF LoadStep
<1>5. CASE step.op \in {"system", "class"}
  <2> DEFINE c == Call(step.name, step.op, IF step.op = "system" THEN known[step.name] ELSE None)
  <2>1. loads' = <<c>> /\ UNCHANGED <<globals, boot, outcome>>
    BY <1>5 DEF Boot
  <2>2. IsCall(c) /\ c.how # "block"
    BY <1>5, NewCall
  <2> HIDE DEF c
  <2>3. IsSeq(<<c>>) /\ BlockCallsOk(<<c>>, globals) /\ \A i \in DOMAIN <<c>> : <<c>>[i] = c
    BY <2>2, OneCall
  <2>4. CallsInv'
    BY <1>1, <2>1, <2>2, <2>3 DEF CallsInv
  <2>5. QED
    BY <1>1, <2>1, <2>4, NothingBound DEF LoadStep, LoadInv
<1>6. CASE boot = 45 /\ step = Step("globals", "", "")
  <2>1. step.op = "globals"
    BY <1>6 DEF Step
  <2>2. /\ loads' = loads /\ boot' = boot + 1 /\ outcome' \in {"shell", "crashed", "running"}
        /\ globals' = [n \in DOMAIN globals \cup SystemGlobals |->
                       CASE n = "nil" -> nil
                         [] n \in {"System", "Block"} -> known[n]
                         [] n \in {"true", "false", "system"} -> NotAClass
                         [] OTHER -> globals[n]]
    BY <2>1 DEF Boot
  <2>3. \A n \in DOMAIN globals : globals[n] > 0 => n \notin SystemGlobals
    BY <1>1, SystemNames DEF SystemGlobals
  <2>4. \A n \in DOMAIN globals : n \notin SystemGlobals =>
            n \in DOMAIN globals' /\ globals'[n] = globals[n]
    BY <2>2 DEF SystemGlobals
  <2>5. Kept
    BY <2>3, <2>4 DEF Kept
  <2>6. boot' \in Nat \ {0}
    BY <1>1, <2>2
  <2>7. BindingsInv'
    BY <2>2, <2>6 DEF BindingsInv
  <2>8. QED
    BY <1>1, <2>2, <2>5, <2>7, NoCalls DEF LoadStep
<1>7. QED
  <2>1. ASSUME NEW n, step = Step("system", n, "") PROVE step.op \in {"system", "class"}
    <3>1. step.op = "system"
      BY <2>1 DEF Step
    <3>2. QED
      BY <3>1
  <2>2. ASSUME NEW n, step = Step("class", n, "") PROVE step.op \in {"system", "class"}
    <3>1. step.op = "class"
      BY <2>2 DEF Step
    <3>2. QED
      BY <3>1
  <2>3. QED
    BY <1>1, <1>2, <1>3, <1>4, <1>5, <1>6, <2>1, <2>2, BootStepIs

\* A call goes on, or fails.
LEMMA TopStep ==
  ASSUME LoadInv, loads # << >>, NEW d, SameLoad(top, d), SetTop(d),
         UNCHANGED <<globals, boot, outcome>>, outcome # "starting"
  PROVE  LoadStep
<1>1. /\ IsSeq(loads') /\ DOMAIN loads' = DOMAIN loads /\ BlockCallsOk(loads', globals)
      /\ \A i \in DOMAIN loads : loads'[i].how = loads[i].how
  BY TopGoesOn DEF LoadInv
<1>2. CallsInv'
  BY <1>1 DEF CallsInv, LoadInv
<1>3. QED
  BY <1>2, NothingBound DEF LoadStep, LoadInv

LEMMA FailedStep ==
  ASSUME LoadInv, UNCHANGED <<loads, globals, boot>>, outcome' \notin {"starting", "booting"}
  PROVE  LoadStep
<1>1. CallsInv'
  BY DEF CallsInv, LoadInv
<1>2. QED
  BY <1>1, NothingBound DEF LoadStep, LoadInv

\* The innermost call calls for its superclass.
LEMMA CallStep ==
  ASSUME LoadInv, outcome # "starting", NEW c, IsCall(c), c.how # "block", loads' = Append(loads, c),
         UNCHANGED <<globals, boot, outcome>>
  PROVE  LoadStep
<1>1. /\ IsSeq(loads') /\ loads'[Len(loads) + 1] = c /\ DOMAIN loads' = 1..(Len(loads) + 1)
      /\ \A i \in DOMAIN loads : loads'[i] = loads[i]
  BY Appended DEF LoadInv, CallsInv
<1>2. Len(loads) \in Nat /\ DOMAIN loads = 1..Len(loads)
  BY Measured DEF LoadInv, CallsInv
<1>3. \A i \in DOMAIN loads' : (i \in DOMAIN loads /\ loads'[i] = loads[i]) \/ loads'[i] = c
  BY <1>1, <1>2
<1>4. CallsInv'
  BY <1>1, <1>3 DEF CallsInv, LoadInv, BlockCallsOk
<1>5. QED
  BY <1>4, NothingBound DEF LoadStep, LoadInv

LEMMA FileSteps == LoadInv /\ (OpenFile \/ NotFound \/ LoadSuperClass \/ Assemble) => LoadStep
<1> SUFFICES ASSUME LoadInv, OpenFile \/ NotFound \/ LoadSuperClass \/ Assemble PROVE LoadStep
  BY SMTT(20)
<1>1. loads # << >> /\ outcome # "starting" /\ UNCHANGED <<globals, boot>>
  BY DEF OpenFile, NotFound, LoadSuperClass, Assemble, Going
<1>2. IsCall(top)
  BY <1>1, TopIsCall DEF LoadInv
<1>3. CASE OpenFile
  <2>1. UNCHANGED outcome
    BY <1>3, SMTT(20) DEF OpenFile
  <2>2. \/ SetTop([top EXCEPT !.dir = @ + 1])
        \/ SetTop([top EXCEPT !.pc = "super"])
        \/ SetTop([top EXCEPT !.pc = "primitives", !.class = top.system])
    BY <1>3, SMTT(20) DEF OpenFile
  <2>3. \E d : SameLoad(top, d) /\ SetTop(d)
    BY Zenon, <1>2, <2>2, CallGoesOn
  <2>4. QED
    BY <1>1, <2>1, <2>3, TopStep, SMTT(20)
<1>4. CASE NotFound
  BY <1>1, <1>4, FailedStep DEF NotFound, Failed
<1>5. CASE LoadSuperClass
  <2>1. CASE Failed("crashed") /\ UNCHANGED loads
    BY <1>1, <2>1, FailedStep DEF Failed
  <2>2. CASE Failed("overflow") /\ UNCHANGED loads
    BY <1>1, <2>2, FailedStep, SMTT(20) DEF Failed
  <2>3. CASE SetTop([top EXCEPT !.super = globals[File.super], !.pc = "assemble"]) /\ UNCHANGED outcome
    BY Zenon, <1>1, <1>2, <2>3, CallGoesOn, TopStep
  <2>4. CASE loads' = Append(loads, Call(File.super, "class", None)) /\ UNCHANGED outcome
    <3> DEFINE c == Call(File.super, "class", None)
    <3>1. IsCall(c) /\ c.how # "block"
      BY NewCall
    <3>2. QED
      BY <1>1, <2>4, <3>1, CallStep
  <2>5. QED
    BY <1>5, <2>1, <2>2, <2>3, <2>4 DEF LoadSuperClass
<1>6. CASE Assemble
  <2>1. UNCHANGED outcome
    BY <1>6 DEF Assemble
  <2>2. \/ SetTop([top EXCEPT !.pc = "primitives", !.class = Len(classes')])
        \/ SetTop([top EXCEPT !.pc = "find", !.dir = @ + 1])
    BY <1>6, SMTT(20) DEF Assemble
  <2>3. \E d : SameLoad(top, d) /\ SetTop(d)
    BY Zenon, <1>2, <2>2, CallGoesOn
  <2>4. QED
    BY <1>1, <2>1, <2>3, TopStep
<1>7. QED
  BY <1>3, <1>4, <1>5, <1>6

LEMMA ReturnStep == LoadInv /\ Return => LoadStep
<1> SUFFICES ASSUME LoadInv, Return PROVE LoadStep
  OBVIOUS
<1>1. /\ loads # << >> /\ outcome \in {"booting", "running", "shell"}
      /\ CallsInv /\ BindingsInv /\ boot \in Nat \ {0}
  BY DEF Return, Going, LoadInv, BindingsInv
<1>2. IsCall(top) /\ Len(loads) \in DOMAIN loads /\ Len(loads) \in Nat /\ DOMAIN loads = 1..Len(loads)
  BY <1>1, TopIsCall, Measured DEF CallsInv
<1>3. CASE Failed("quit") /\ UNCHANGED <<globals, loads, boot>>
  BY <1>3, FailedStep DEF Failed
<1>4. CASE /\ IF top.how = "block" THEN Bind(top.name, top.class) ELSE UNCHANGED globals
           /\ UNCHANGED outcome
           /\ loads' = << >> \/ top.how # "block"
           /\ boot' \in {boot, boot + 1}
           /\ \/ loads' = << >>
              \/ Len(loads) > 1 /\ \E c : loads' = Append(SubSeq(loads, 1, Len(loads) - 2),
                    [loads[Len(loads) - 1] EXCEPT !.super = c, !.pc = "assemble"])
  <2>1. top.how = "block" => outcome \notin {"starting", "booting"} /\ top.name \notin DOMAIN globals
    BY <1>1, <1>2 DEF CallsInv, BlockCallsOk, top
  <2>2. Kept
    BY <1>4, <2>1 DEF Kept, Bind
  <2>3. boot' \in Nat \ {0} /\ boot' >= boot
    <3>1. boot' = boot \/ boot' = boot + 1
      BY <1>4
    <3>2. QED
      BY <1>1, <3>1
  <2>4. BindingsInv'
    <3>1. CASE outcome \in {"starting", "booting"}
      <4>1. UNCHANGED <<globals, outcome>>
        BY <3>1, <2>1, <1>4
      <4>2. ASSUME NEW n \in DOMAIN globals, globals[n] > 0
            PROVE  \E i \in 1..13 : i + 14 < boot' /\ n = SystemSuperClasses[i][1]
        <5>1. PICK i \in 1..13 : i + 14 < boot /\ n = SystemSuperClasses[i][1]
          BY <3>1, <4>2, <1>1 DEF BindingsInv
        <5>2. i + 14 < boot'
          BY <5>1, <2>3, <1>1
        <5>3. QED
          BY <5>1, <5>2
      <4>3. QED
        BY <4>1, <4>2, <2>3 DEF BindingsInv
    <3>2. CASE outcome \notin {"starting", "booting"}
      BY <3>2, <1>4, <2>3 DEF BindingsInv
    <3>3. QED
      BY <3>1, <3>2
  <2>5. CallsInv'
    <3>1. CASE loads' = << >>
      BY <3>1, NoCalls
    <3>2. CASE /\ Len(loads) > 1 /\ UNCHANGED globals
               /\ \E c : loads' = Append(SubSeq(loads, 1, Len(loads) - 2),
                     [loads[Len(loads) - 1] EXCEPT !.super = c, !.pc = "assemble"])
      <4> DEFINE n == Len(loads) - 2
                 w == loads[Len(loads) - 1]
      <4>1. n \in Nat /\ n < Len(loads) /\ n + 1 = Len(loads) - 1 /\ Len(loads) - 1 \in DOMAIN loads
        BY <1>2, <3>2
      <4>2. IsCall(w)
        BY <1>1, <4>1, SMTT(20) DEF CallsInv, BlockCallsOk
      <4>3. PICK d : SameLoad(w, d) /\ loads' = Append(SubSeq(loads, 1, n), d)
        BY Zenon, <3>2, <4>2, CallGoesOn
      <4> HIDE DEF n
      <4>4. /\ IsSeq(loads') /\ DOMAIN loads' = 1..(n + 1) /\ loads'[n + 1] = d
            /\ \A i \in 1..n : loads'[i] = loads[i]
        BY <4>1, <4>3, <1>1, Replaced DEF CallsInv
      <4>5. \A i \in DOMAIN loads' : i \in DOMAIN loads /\ (i = n + 1 \/ i \in 1..n)
        BY <4>1, <4>4, <1>2
      <4>6. \A i \in DOMAIN loads' : i \in DOMAIN loads /\ IsCall(loads'[i])
                                     /\ loads'[i].how = loads[i].how /\ loads'[i].name = loads[i].name
        <5> SUFFICES ASSUME NEW i \in DOMAIN loads'
                     PROVE  i \in DOMAIN loads /\ IsCall(loads'[i])
                            /\ loads'[i].how = loads[i].how /\ loads'[i].name = loads[i].name
          OBVIOUS
        <5>1. CASE i = n + 1
          BY <5>1, <4>1, <4>3, <4>4, <4>5 DEF SameLoad
        <5>2. CASE i \in 1..n
          BY <5>2, <4>4, <4>5, <1>1 DEF CallsInv, BlockCallsOk
        <5>3. QED
          BY <5>1, <5>2, <4>5
      <4>7. BlockCallsOk(loads', globals')
        BY <3>2, <4>6, <1>1 DEF CallsInv, BlockCallsOk
      <4>8. QED
        BY <4>4, <4>6, <4>7, <1>1, <1>4 DEF CallsInv
    <3>3. QED
      BY <3>1, <3>2, <1>4
  <2>6. QED
    BY <2>2, <2>4, <2>5 DEF LoadStep
<1>5. top.how = "block" => ~(Len(loads) > 1)
  BY <1>1, <1>2 DEF CallsInv, BlockCallsOk, top
<1>6. \/ Failed("quit") /\ UNCHANGED <<globals, loads, boot>>
      \/ /\ IF top.how = "block" THEN Bind(top.name, top.class) ELSE UNCHANGED globals
         /\ UNCHANGED outcome
         /\ \/ /\ Len(loads) > 1 /\ UNCHANGED boot
               /\ loads' = Append(SubSeq(loads, 1, Len(loads) - 2),
                     [loads[Len(loads) - 1] EXCEPT !.super = top.class, !.pc = "assemble"])
            \/ loads' = << >> /\ (boot' = boot + 1 \/ UNCHANGED boot)
  BY DEF Return
<1>7. CASE /\ IF top.how = "block" THEN Bind(top.name, top.class) ELSE UNCHANGED globals
           /\ UNCHANGED outcome
           /\ Len(loads) > 1 /\ UNCHANGED boot
           /\ loads' = Append(SubSeq(loads, 1, Len(loads) - 2),
                 [loads[Len(loads) - 1] EXCEPT !.super = top.class, !.pc = "assemble"])
  <2>1. top.how # "block"
    BY <1>5, <1>7
  <2>2. \E c : loads' = Append(SubSeq(loads, 1, Len(loads) - 2),
                    [loads[Len(loads) - 1] EXCEPT !.super = c, !.pc = "assemble"])
    BY <1>7
  <2>3. boot' \in {boot, boot + 1}
    BY <1>7
  <2>4. QED
    BY <1>4, <1>7, <2>1, <2>2, <2>3
<1>8. CASE /\ IF top.how = "block" THEN Bind(top.name, top.class) ELSE UNCHANGED globals
           /\ UNCHANGED outcome
           /\ loads' = << >> /\ (boot' = boot + 1 \/ UNCHANGED boot)
  <2>1. boot' \in {boot, boot + 1}
    BY <1>8
  <2>2. QED
    BY <1>4, <1>8, <2>1
<1>9. QED
  BY <1>3, <1>6, <1>7, <1>8

LEMMA ProgramSteps ==
  LoadInv /\ (\/ Ask \/ GetBlockClassWithArgs \/ Load \/ Loaded \/ BlocksForResolve \/ Look
              \/ PutGlobals \/ ReadLine) => LoadStep
<1> SUFFICES ASSUME LoadInv,
                    \/ Ask \/ GetBlockClassWithArgs \/ Load \/ Loaded \/ BlocksForResolve \/ Look
                    \/ PutGlobals \/ ReadLine
             PROVE  LoadStep
  OBVIOUS
<1>1. /\ loads = << >> /\ outcome \in {"running", "shell"} /\ UNCHANGED boot
      /\ outcome' \in {"running", "shell", "error", "ended"}
  BY DEF Ask, GetBlockClassWithArgs, Load, Loaded, BlocksForResolve, Look, PutGlobals, ReadLine,
         Idle, Running, Failed
<1>2. CASE UNCHANGED <<loads, globals>>
  BY <1>1, <1>2, NoCalls, NothingBound DEF LoadStep, LoadInv
<1>3. ASSUME NEW c, loads' = <<c>>, IsCall(c), c.how = "block" => c.name \notin DOMAIN globals,
             UNCHANGED globals
      PROVE  LoadStep
  <2>1. IsSeq(<<c>>) /\ BlockCallsOk(<<c>>, globals)
    BY <1>3, OneCall
  <2>2. CallsInv'
    BY <1>1, <1>3, <2>1 DEF CallsInv
  <2>3. QED
    BY <1>1, <1>3, <2>2, NothingBound DEF LoadStep, LoadInv
<1>4. ASSUME NEW name, ~HasGlobal(name), loads' = <<Call(name, "block", None)>>, UNCHANGED globals
      PROVE  LoadStep
  <2>1. IsCall(Call(name, "block", None)) /\ Call(name, "block", None).name \notin DOMAIN globals
    BY <1>4, NewCall DEF HasGlobal
  <2>2. QED
    BY <1>3, <1>4, <2>1
<1>5. ASSUME NEW name, loads' = <<Call(name, "class", None)>>, UNCHANGED globals
      PROVE  LoadStep
  <2>1. IsCall(Call(name, "class", None)) /\ Call(name, "class", None).how # "block"
    BY NewCall
  <2>2. QED
    BY <1>3, <1>5, <2>1
<1>6. ASSUME NEW name, NEW value, ~HasGlobal(name), Bind(name, value), UNCHANGED loads
      PROVE  LoadStep
  <2>1. Kept
    BY <1>6 DEF Kept, Bind, HasGlobal
  <2>2. BindingsInv'
    BY <1>1 DEF LoadInv, BindingsInv
  <2>3. QED
    BY <1>1, <1>6, <2>1, <2>2, NoCalls DEF LoadStep
<1>7. CASE Ask \/ Loaded \/ ReadLine
  BY <1>2, <1>7 DEF Ask, Loaded, ReadLine
<1>8. CASE GetBlockClassWithArgs
  BY <1>2, <1>4, <1>8 DEF GetBlockClassWithArgs
<1>9. CASE Load
  BY <1>2, <1>5, <1>9 DEF Load
<1>10. CASE BlocksForResolve
  BY <1>2, <1>4, <1>10 DEF BlocksForResolve
<1>11. CASE Look
  BY <1>2, <1>5, <1>11 DEF Look
<1>12. CASE PutGlobals
  BY <1>2, <1>6, <1>12 DEF PutGlobals
<1>13. QED
  BY <1>7, <1>8, <1>9, <1>10, <1>11, <1>12

LEMMA NextLoads == LoadInv /\ [Next]_vars => LoadStep
<1>1. LoadInv /\ UNCHANGED vars => LoadStep
  BY DEF LoadInv, LoadStep, CallsInv, BindingsInv, Kept, vars
<1>2. QED
  BY <1>1, ArgumentSteps, BootStep, FileSteps, ReturnStep, ProgramSteps DEF Next

LEMMA InitLoads == Init => LoadInv
<1> SUFFICES ASSUME Init PROVE LoadInv
  OBVIOUS
<1>1. loads = << >> /\ globals = << >> /\ boot = 1
  BY DEF Init
<1>2. CallsInv
  BY <1>1, NoneYet DEF CallsInv, BlockCallsOk
<1>3. BindingsInv
  BY <1>1, NoneYet DEF BindingsInv
<1>4. QED
  BY <1>2, <1>3 DEF LoadInv

\* A global that is bound to a class keeps that class: the system binds its classes once
\* each, a class of blocks is bound by the call that found none, and System>>resolve: stops
\* at the first superclass that is bound (src/vm/Universe.cpp:397-464).
THEOREM BindingsAlwaysKept == Spec => BindingsKept
<1>1. Init => LoadInv
  BY InitLoads
<1>2. LoadInv /\ [Next]_vars => LoadInv'
  BY NextLoads DEF LoadStep, LoadInv
<1>3. LoadInv /\ [Next]_vars =>
        [\A n \in DOMAIN globals : globals[n] > 0 =>
                       n \in DOMAIN globals' /\ globals'[n] = globals[n]]_vars
  BY NextLoads DEF LoadStep, Kept
<1>4. QED
  BY <1>1, <1>2, <1>3, PTL DEF Spec, BindingsKept

--------------------
(* Class objects and how they are linked. *)

IsClass(o) ==
  o \in [name : {o.name}, side : {o.side}, class : {o.class}, super : {o.super},
         fields : {o.fields}, invokables : {o.invokables}, room : {o.room}]
ClassObjects(cs) == IsSeq(cs) /\ \A c \in DOMAIN cs : IsClass(cs[c])
Instances(cs) == {c \in DOMAIN cs : cs[c].side = "instance"}

\* A change that leaves all links between class objects as they are.
SameLinks(cs, ds) ==
  /\ ClassObjects(ds) /\ DOMAIN ds = DOMAIN cs
  /\ \A c \in DOMAIN cs : /\ ds[c].name = cs[c].name /\ ds[c].side = cs[c].side
                          /\ ds[c].class = cs[c].class /\ ds[c].super = cs[c].super

LEMMA SameDomain ==
  ASSUME NEW q, IsSeq(q), NEW r, r = [i \in DOMAIN q |-> r[i]]
  PROVE  IsSeq(r) /\ DOMAIN r = DOMAIN q
<1>1. Len(q) \in Nat /\ DOMAIN q = 1..Len(q)
  BY Measured
<1>2. r \in [1..Len(q) -> {r[i] : i \in DOMAIN r}]
  BY <1>1
<1>3. r \in Seq({r[i] : i \in DOMAIN r})
  BY <1>1, <1>2, SeqDef
<1>4. QED
  BY <1>1, <1>2, <1>3 DEF IsSeq

\* Binding primitives, adding an evaluation primitive, filling in methods and fields.
LEMMA InvokablesSet ==
  ASSUME NEW cs, ClassObjects(cs), NEW c \in DOMAIN cs, NEW x
  PROVE  SameLinks(cs, [cs EXCEPT ![c].invokables = x])
<1> DEFINE ds == [cs EXCEPT ![c].invokables = x]
<1>1. IsSeq(ds) /\ DOMAIN ds = DOMAIN cs
  <2>2. ds = [i \in DOMAIN cs |-> ds[i]]
    OBVIOUS
  <2> HIDE DEF ds
  <2>3. QED
    BY <2>2, SameDomain DEF ClassObjects
<1>2. \A d \in DOMAIN cs : /\ IsClass(ds[d])
                           /\ ds[d].name = cs[d].name /\ ds[d].side = cs[d].side
                           /\ ds[d].class = cs[d].class /\ ds[d].super = cs[d].super
  BY DEF ClassObjects, IsClass, IsSeq
<1>3. QED
  BY <1>1, <1>2 DEF SameLinks, ClassObjects

LEMMA ClassFilled ==
  ASSUME NEW cs, ClassObjects(cs), NEW c \in DOMAIN cs, cs[c].class \in DOMAIN cs, c # cs[c].class, NEW f
  PROVE  LET ds == AssembleSystemClass(cs, c, f)
             m == cs[c].class
         IN  /\ SameLinks(cs, ds)
             /\ ds[c].invokables = SetInstanceInvokables(c, f.methods) /\ ds[c].fields = f.fields
             /\ ds[m].invokables = SetInstanceInvokables(m, f.classMethods) /\ ds[m].fields = f.classFields
             /\ \A d \in DOMAIN cs : ds[d].room = cs[d].room
             /\ \A d \in DOMAIN cs : d # c /\ d # m => ds[d] = cs[d]
<1> DEFINE m == cs[c].class
           x == SetInstanceInvokables(c, f.methods)
           z == SetInstanceInvokables(m, f.classMethods)
           y == f.fields
           u == f.classFields
           ds == AssembleSystemClass(cs, c, f)
           a == [[cs[c] EXCEPT !.invokables = x] EXCEPT !.fields = y]
           b == [[cs[m] EXCEPT !.invokables = z] EXCEPT !.fields = u]
<1>1. ds = [cs EXCEPT ![c].invokables = x, ![c].fields = y, ![m].invokables = z, ![m].fields = u]
  BY DEF AssembleSystemClass
<1> HIDE DEF ds, m, x, y, z, u
<1>2. /\ ds = [i \in DOMAIN cs |-> ds[i]]
      /\ ds[c] = a /\ ds[m] = b /\ \A d \in DOMAIN cs : d # c /\ d # m => ds[d] = cs[d]
  BY <1>1 DEF m
<1>3. IsClass(cs[c]) /\ IsClass(cs[m])
  BY DEF ClassObjects, m
<1>4. a.invokables = x /\ a.fields = y /\ a.room = cs[c].room /\ IsClass(a)
      /\ a.name = cs[c].name /\ a.side = cs[c].side /\ a.class = cs[c].class /\ a.super = cs[c].super
  BY <1>3 DEF IsClass
<1>5. b.invokables = z /\ b.fields = u /\ b.room = cs[m].room /\ IsClass(b)
      /\ b.name = cs[m].name /\ b.side = cs[m].side /\ b.class = cs[m].class /\ b.super = cs[m].super
  BY <1>3 DEF IsClass
<1> HIDE DEF a, b
<1>6. IsSeq(ds) /\ DOMAIN ds = DOMAIN cs
  BY <1>2, SameDomain DEF ClassObjects
<1>7. SameLinks(cs, ds)
  <2>1. ASSUME NEW d \in DOMAIN cs
        PROVE  /\ IsClass(ds[d]) /\ ds[d].name = cs[d].name /\ ds[d].side = cs[d].side
               /\ ds[d].class = cs[d].class /\ ds[d].super = cs[d].super
    BY <1>2, <1>4, <1>5 DEF ClassObjects
  <2>2. QED BY <1>6, <2>1 DEF SameLinks, ClassObjects
<1>8. QED BY <1>2, <1>4, <1>5, <1>7 DEF ds, m, x, y, z, u

LEMMA SameLinksTwice ==
  ASSUME NEW cs, NEW ds, NEW es, SameLinks(cs, ds), SameLinks(ds, es)
  PROVE  SameLinks(cs, es)
BY DEF SameLinks

LEMMA PrimitivesBind ==
  ASSUME NEW cs, ClassObjects(cs), NEW c \in DOMAIN cs, NEW routines, NEW cname,
         NEW ds \in setPrimitives(cs, c, routines, cname)
  PROVE  SameLinks(cs, ds)
<1>1. PICK x : ds = [cs EXCEPT ![c].invokables = x]
  BY DEF setPrimitives
<1>2. SameLinks(cs, [cs EXCEPT ![c].invokables = x])
  BY InvokablesSet
<1>3. QED
  BY <1>1, <1>2

LEMMA PrimitivesLoaded ==
  ASSUME NEW cs, ClassObjects(cs), NEW c \in DOMAIN cs, cs[c].class \in DOMAIN cs,
         NEW ds \in LoadPrimitives(cs, c)
  PROVE  SameLinks(cs, ds)
<1>1. PICK routines, cname : \E loaded \in setPrimitives(cs, c, routines, cname) :
          ds \in setPrimitives(loaded, cs[c].class, routines, cname)
  BY DEF LoadPrimitives
<1>2. PICK loaded \in setPrimitives(cs, c, routines, cname) :
          ds \in setPrimitives(loaded, cs[c].class, routines, cname)
  BY <1>1
<1>3. SameLinks(cs, loaded)
  BY PrimitivesBind
<1>4. ClassObjects(loaded) /\ cs[c].class \in DOMAIN loaded
  BY <1>3 DEF SameLinks
<1>5. SameLinks(loaded, ds)
  BY <1>2, <1>4, PrimitivesBind
<1>6. QED
  BY <1>3, <1>5, SameLinksTwice

LEMMA EvaluationAdded ==
  ASSUME NEW cs, ClassObjects(cs), NEW c \in DOMAIN cs, NEW v
  PROVE  SameLinks(cs, AddInstanceInvokable(cs, c, v))
<1>1. PICK x : AddInstanceInvokable(cs, c, v) = [cs EXCEPT ![c].invokables = x]
  BY DEF AddInstanceInvokable
<1>2. SameLinks(cs, [cs EXCEPT ![c].invokables = x])
  BY InvokablesSet
<1>3. QED
  BY <1>1, <1>2

LEMMA LoadedWithPrimitives ==
  ASSUME ClassObjects(classes), NEW call, call.class \in DOMAIN classes,
         classes[call.class].class \in DOMAIN classes, NEW ds \in WithPrimitives(call)
  PROVE  SameLinks(classes, ds)
<1>1. \/ \E v : ds = AddInstanceInvokable(classes, call.class, v)
      \/ ds \in LoadPrimitives(classes, call.class)
      \/ ds = classes
  BY DEF WithPrimitives
<1>2. SameLinks(classes, classes)
  BY DEF SameLinks
<1>3. QED
  BY <1>1, <1>2, EvaluationAdded, PrimitivesLoaded

\* The new class and its metaclass.
LEMMA NewClasses ==
  ASSUME NEW cs, ClassObjects(cs), NEW f, NEW s
  PROVE  LET n == Len(cs)
             ds == Assembled(cs, f, s)
         IN  /\ ClassObjects(ds) /\ n \in Nat /\ DOMAIN cs = 1..n /\ DOMAIN ds = 1..(n + 2)
             /\ Len(ds) = n + 2
             /\ \A c \in DOMAIN cs : ds[c] = cs[c]
             /\ ds[n + 1].side = "class" /\ ds[n + 1].super = cs[s].class
             /\ ds[n + 2].side = "instance" /\ ds[n + 2].class = n + 1 /\ ds[n + 2].super = s
<1> DEFINE n == Len(cs)
           room == VMClassNumberOfFields + GetNumberOfInstanceFields(cs, known["Metaclass"])
           meta == [NewClassObject(known["Metaclass"], room) EXCEPT
                     !.name = f.name, !.side = "class", !.super = cs[s].class,
                     !.fields = f.classFields,
                     !.invokables = SetInstanceInvokables(n + 1, f.classMethods)]
           ms == Append(cs, meta)
           room2 == VMClassNumberOfFields + GetNumberOfInstanceFields(ms, n + 1)
           cls == [NewClassObject(n + 1, room2)
                EXCEPT !.name = f.name, !.side = "instance", !.super = s,
                       !.fields = f.fields,
                       !.invokables = SetInstanceInvokables(n + 2, f.methods)]
           ds == Append(ms, cls)
<1>1. Assembled(cs, f, s) = ds
  BY DEF Assembled
<1> HIDE DEF room, room2
<1>2. IsClass(meta) /\ meta.side = "class" /\ meta.super = cs[s].class
  BY DEF NewClassObject, IsClass
<1>3. IsClass(cls) /\ cls.side = "instance" /\ cls.class = n + 1 /\ cls.super = s
  BY DEF NewClassObject, IsClass
<1> HIDE DEF meta, cls
<1>4. n \in Nat /\ DOMAIN cs = 1..n
  BY Measured DEF ClassObjects
<1>5. /\ IsSeq(ms) /\ Len(ms) = n + 1 /\ DOMAIN ms = 1..(n + 1) /\ ms[n + 1] = meta
      /\ \A c \in DOMAIN cs : ms[c] = cs[c]
  BY Appended DEF ClassObjects
<1> HIDE DEF ms
<1>6. /\ IsSeq(ds) /\ Len(ds) = (n + 1) + 1 /\ DOMAIN ds = 1..((n + 1) + 1) /\ ds[(n + 1) + 1] = cls
      /\ \A c \in DOMAIN ms : ds[c] = ms[c]
  BY <1>5, Appended
<1> HIDE DEF ds
<1>7. (n + 1) + 1 = n + 2 /\ n + 1 \in DOMAIN ms
  BY <1>4, <1>5
<1>8. \A c \in DOMAIN cs : c \in DOMAIN ms /\ ds[c] = cs[c]
  BY <1>4, <1>5, <1>6
<1>9. \A c \in DOMAIN ds : c \in DOMAIN cs \/ c = n + 1 \/ c = n + 2
  BY <1>4, <1>6, <1>7
<1>10. ds[n + 1] = meta /\ ds[n + 2] = cls
  BY <1>5, <1>6, <1>7
<1>11. \A c \in DOMAIN ds : IsClass(ds[c])
  BY <1>2, <1>3, <1>8, <1>9, <1>10 DEF ClassObjects
<1> HIDE DEF n
<1>12. QED
  BY <1>1, <1>2, <1>3, <1>4, <1>6, <1>7, <1>8, <1>10, <1>11 DEF ClassObjects, n

--------------------
(* The hierarchy after the classes of the system are initialized. *)

\* A class of an instance side: its metaclass continues that of its superclass, and
\* that of the root continues Class; System>>resolve: finds the root bound.
Linked(cs, bound, root, c) ==
  /\ cs[c].class \in DOMAIN cs /\ cs[cs[c].class].side = "class"
  /\ cs[c].super = None => cs[c].name \in bound /\ cs[cs[c].class].super = root
  /\ cs[c].super # None => /\ cs[c].super \in Instances(cs)
                           /\ cs[cs[c].class].super = cs[cs[c].super].class
Hierarchy(cs, bound, root) == \A c \in Instances(cs) : Linked(cs, bound, root, c)

LEMMA SameHierarchy ==
  ASSUME NEW cs, NEW ds, NEW bound, NEW more, NEW root, SameLinks(cs, ds), bound \subseteq more,
         Hierarchy(cs, bound, root)
  PROVE  Hierarchy(ds, more, root) /\ Instances(ds) = Instances(cs)
<1>1. Instances(ds) = Instances(cs)
  BY DEF Instances, SameLinks
<1>2. ASSUME NEW c \in Instances(ds) PROVE Linked(ds, more, root, c)
  <2>1. c \in DOMAIN cs /\ Linked(cs, bound, root, c) /\ cs[c].class \in DOMAIN cs
    BY <1>1, <1>2 DEF Hierarchy, Linked, Instances
  <2>2. /\ ds[c].name = cs[c].name /\ ds[c].class = cs[c].class /\ ds[c].super = cs[c].super
        /\ ds[cs[c].class].side = cs[cs[c].class].side
        /\ ds[cs[c].class].super = cs[cs[c].class].super
    BY <2>1 DEF SameLinks
  <2>3. cs[c].super # None => cs[c].super \in DOMAIN cs /\ ds[cs[c].super].class = cs[cs[c].super].class
    BY <2>1 DEF SameLinks, Linked, Instances
  <2>4. DOMAIN ds = DOMAIN cs
    BY DEF SameLinks
  <2>5. QED
    BY <1>1, <2>1, <2>2, <2>3, <2>4 DEF Linked
<1>3. QED
  BY <1>1, <1>2 DEF Hierarchy

LEMMA LongerHierarchy ==
  ASSUME NEW cs, ClassObjects(cs), NEW f, NEW s \in Instances(cs), NEW bound, NEW more, NEW root,
         bound \subseteq more, Hierarchy(cs, bound, root)
  PROVE  LET ds == Assembled(cs, f, s)
         IN  /\ ClassObjects(ds) /\ Hierarchy(ds, more, root)
             /\ Instances(cs) \subseteq Instances(ds) /\ Len(ds) \in Instances(ds)
<1> DEFINE n == Len(cs)
           ds == Assembled(cs, f, s)
<1>1. /\ ClassObjects(ds) /\ n \in Nat /\ DOMAIN cs = 1..n /\ DOMAIN ds = 1..(n + 2)
      /\ Len(ds) = n + 2
      /\ \A c \in DOMAIN cs : ds[c] = cs[c]
      /\ ds[n + 1].side = "class" /\ ds[n + 1].super = cs[s].class
      /\ ds[n + 2].side = "instance" /\ ds[n + 2].class = n + 1 /\ ds[n + 2].super = s
  BY NewClasses
<1> HIDE DEF n, ds
<1>2. DOMAIN cs \subseteq DOMAIN ds /\ n + 1 \in DOMAIN ds /\ n + 2 \in DOMAIN ds
  BY <1>1
<1>3. Instances(cs) \subseteq Instances(ds) /\ n + 2 \in Instances(ds)
  BY <1>1, <1>2 DEF Instances
<1>4. \A c \in Instances(ds) : c = n + 2 \/ c \in Instances(cs)
  <2>1. \A c \in DOMAIN ds : c \in DOMAIN cs \/ c = n + 1 \/ c = n + 2
    BY <1>1
  <2>2. QED
    BY <1>1, <2>1 DEF Instances
<1>5. s \in DOMAIN cs /\ s # None /\ ds[s] = cs[s]
  BY <1>1 DEF Instances, None
<1>6. Linked(ds, more, root, n + 2)
  BY <1>1, <1>2, <1>3, <1>5 DEF Linked
<1>7. ASSUME NEW c \in Instances(cs) PROVE Linked(ds, more, root, c)
  <2>1. c \in DOMAIN cs /\ ds[c] = cs[c] /\ Linked(cs, bound, root, c)
    BY <1>1, <1>7 DEF Instances, Hierarchy
  <2>2. cs[c].class \in DOMAIN cs /\ ds[cs[c].class] = cs[cs[c].class]
    BY <2>1, <1>1 DEF Linked
  <2>3. cs[c].super # None => cs[c].super \in Instances(ds) /\ ds[cs[c].super] = cs[cs[c].super]
    BY <2>1, <1>1, <1>3 DEF Linked, Instances
  <2>4. QED
    BY <2>1, <2>2, <2>3, <1>2 DEF Linked
<1>8. Hierarchy(ds, more, root)
  BY <1>4, <1>6, <1>7 DEF Hierarchy
<1>9. QED
  BY <1>1, <1>3, <1>8 DEF ds

--------------------
(* The invariant. *)

KnownNames == SystemClasses \cup {"Block", "System"}
KnownOk ==
  /\ known \in [KnownNames -> Nat]
  /\ \A n \in {"Block", "System"} : known[n] \in Instances(classes) \cup {None}
  /\ \A i \in 1..13 : i < boot => known[AllocationOrder[i]] = 2 * i /\ 2 * i \in Instances(classes)

\* What the i-th of the system's classes is initialized to.
SystemLinked(i) ==
  LET name == SystemSuperClasses[i][1]
      super == SystemSuperClasses[i][2]
      c == known[name]
  IN  /\ classes[c].name = name /\ name \in DOMAIN globals
      /\ super = "" => classes[c].super = None /\ classes[c - 1].super = known["Class"]
      /\ super # "" => classes[c].super = known[super] /\ classes[c - 1].super = known[super] - 1

\* Before: class objects are allocated in pairs, then initialized one by one.
Starting ==
  /\ boot <= 14 => Len(classes) = 2 * boot - 2
  /\ \A c \in DOMAIN classes : \E i \in 1..13 : i < boot /\ (c = 2 * i \/ c = 2 * i - 1)
  /\ \A i \in 1..13 : i < boot =>
        /\ 2 * i - 1 \in DOMAIN classes /\ classes[2 * i - 1].side = "class"
        /\ classes[2 * i].class = 2 * i - 1
  /\ \A i \in 1..13 : i + 14 < boot => SystemLinked(i)

CallLinked(c, all) ==
  /\ c.system # None => c.system \in all
  /\ c.pc = "assemble" => c.super \in all
  /\ c.pc = "primitives" => c.class \in all

\* What refers to classes refers to the instance side of them.
Referring ==
  /\ \A n \in DOMAIN globals : globals[n] > 0 => globals[n] \in Instances(classes)
  /\ \A i \in DOMAIN loads : CallLinked(loads[i], Instances(classes))
  /\ request \in [op : {request.op}, name : {request.name}, class : {request.class},
                  pc : {request.pc}]
  /\ request.pc = "loaded" => request.class \in Instances(classes)
  /\ loads # << >> \/ outcome \in {"running", "shell"} => boot >= 28

LinkInv ==
  /\ ClassObjects(classes)
  /\ KnownOk
  /\ boot < 28 => Starting
  /\ boot >= 28 => Hierarchy(classes, DOMAIN globals, known["Class"])
  /\ Referring

LEMMA InitLinks == Init => LinkInv
<1> SUFFICES ASSUME Init PROVE LinkInv
  OBVIOUS
<1>1. /\ classes = << >> /\ globals = << >> /\ loads = << >> /\ boot = 1 /\ request = NoRequest
      /\ known = [n \in KnownNames |-> None] /\ outcome = "starting"
  BY DEF Init, KnownNames
<1>2. ClassObjects(classes)
  BY <1>1, NoneYet DEF ClassObjects
<1>3. KnownOk
  BY <1>1 DEF KnownOk, None, KnownNames
<1>4. Starting
  BY <1>1, NoneYet DEF Starting
<1>5. Referring
  BY <1>1, NoneYet DEF Referring, NoRequest
<1>6. QED
  BY <1>1, <1>2, <1>3, <1>4, <1>5 DEF LinkInv

\* Once the classes of the system are initialized, a step keeps every link, or adds a class.
LinksGrow ==
  \/ UNCHANGED classes
  \/ SameLinks(classes, classes')
  \/ \E f : \E s \in Instances(classes) : classes' = Assembled(classes, f, s)

LEMMA HierarchyGrows ==
  ASSUME ClassObjects(classes), Hierarchy(classes, DOMAIN globals, known["Class"]), LinksGrow,
         known'["Class"] = known["Class"], DOMAIN globals \subseteq DOMAIN globals'
  PROVE  /\ ClassObjects(classes') /\ Hierarchy(classes', DOMAIN globals', known'["Class"])
         /\ Instances(classes) \subseteq Instances(classes')
<1>1. SameLinks(classes, classes)
  BY DEF SameLinks
<1>2. CASE UNCHANGED classes
  BY <1>1, <1>2, SameHierarchy
<1>3. CASE SameLinks(classes, classes')
  <2>1. ClassObjects(classes')
    BY <1>3 DEF SameLinks
  <2>2. QED
    BY <1>3, <2>1, SameHierarchy
<1>4. CASE \E f : \E s \in Instances(classes) : classes' = Assembled(classes, f, s)
  BY <1>4, LongerHierarchy
<1>5. QED
  BY <1>2, <1>3, <1>4 DEF LinksGrow

LEMMA AllocationNames ==
  /\ \A i, j \in 1..13 : AllocationOrder[i] = AllocationOrder[j] => i = j
  /\ \A i \in 1..13 : AllocationOrder[i] \notin {"Block", "System"} /\ AllocationOrder[i] \in KnownNames
BY DEF AllocationOrder, KnownNames, SystemClasses

LEMMA NamesAllocated ==
  /\ \A i \in 1..13 : \E j \in 1..13 : SystemSuperClasses[i][1] = AllocationOrder[j]
  /\ \A i \in 1..13 : SystemSuperClasses[i][2] # "" =>
                          \E j \in 1..13 : SystemSuperClasses[i][2] = AllocationOrder[j]
  /\ \A j \in 1..13 : \E i \in 1..13 : SystemSuperClasses[i][1] = AllocationOrder[j]
  /\ \E j \in 1..13 : AllocationOrder[j] = "Class"
  /\ \E j \in 1..13 : AllocationOrder[j] = "Object"
BY DEF AllocationOrder, SystemSuperClasses

LEMMA PairAppended ==
  ASSUME NEW q, IsSeq(q), NEW x, NEW y, NEW n \in Nat, Len(q) = n
  PROVE  LET r == q \o <<x, y>>
         IN  /\ IsSeq(r) /\ Len(r) = n + 2 /\ DOMAIN r = 1..(n + 2) /\ DOMAIN q = 1..n
             /\ r[n + 1] = x /\ r[n + 2] = y /\ \A i \in 1..n : r[i] = q[i]
<1> DEFINE S == {q[i] : i \in DOMAIN q} \cup {x, y}
           p == <<x, y>>
           r == q \o p
<1>1. q \in Seq(S)
  BY DEF IsSeq
<1>2. p \in Seq(S) /\ Len(p) = 2 /\ p[1] = x /\ p[2] = y
  OBVIOUS
<1> HIDE DEF S, p
<1>3. r \in Seq(S) /\ Len(r) = Len(q) + Len(p)
      /\ \A i \in 1 .. Len(q) + Len(p) : r[i] = IF i <= Len(q) THEN q[i] ELSE p[i - Len(q)]
  BY <1>1, <1>2, ConcatProperties
<1> HIDE DEF r
<1>4. IsSeq(r) /\ DOMAIN r = 1..Len(r) /\ DOMAIN q = 1..n
  BY <1>1, <1>3, SeqIsSeq, Measured
<1>5. Len(r) = n + 2
  BY <1>2, <1>3
<1>6. \A i \in 1..n : r[i] = q[i]
  BY <1>2, <1>3
<1>7. r[n + 1] = x /\ r[n + 2] = y
  <2>1. r[n + 1] = p[(n + 1) - n] /\ r[n + 2] = p[(n + 2) - n]
    BY <1>2, <1>3
  <2>2. (n + 1) - n = 1 /\ (n + 2) - n = 2
    OBVIOUS
  <2>3. QED
    BY <1>2, <2>1, <2>2
<1>8. QED
  BY <1>4, <1>5, <1>6, <1>7 DEF r, p

--------------------
(* Universe::initialize. *)

LEMMA Step1Allocate ==
  ASSUME LinkInv, BindingsInv, outcome = "booting", loads = << >>, boot \in 1..13,
         classes' = Allocated(AllocationOrder[boot]),
         known' = [known EXCEPT ![AllocationOrder[boot]] = Len(classes')],
         boot' = boot + 1, UNCHANGED <<globals, loads, request, outcome>>
  PROVE  LinkInv'
<1> DEFINE name == AllocationOrder[boot]
           n == 2 * boot - 2
           mc == IF name = "Metaclass" THEN n + 1 + 1 ELSE known["Metaclass"]
           meta == [NewClassObject(mc, VMClassNumberOfFields) EXCEPT !.side = "class"]
           cls == [NewClassObject(n + 1, VMClassNumberOfFields) EXCEPT !.side = "instance"]
<1>1. /\ ClassObjects(classes) /\ KnownOk /\ Starting /\ Referring
      /\ n \in Nat /\ Len(classes) = n /\ boot < 28 /\ boot' \in 2..14
      /\ n + 1 = 2 * boot - 1 /\ n + 2 = 2 * boot
  BY DEF LinkInv, Starting
<1>2. classes' = classes \o <<meta, cls>>
  BY <1>1 DEF Allocated
<1>3. IsClass(meta) /\ meta.side = "class"
  BY DEF NewClassObject, IsClass
<1>4. IsClass(cls) /\ cls.side = "instance" /\ cls.class = n + 1
  BY DEF NewClassObject, IsClass
<1> HIDE DEF meta, cls, n
<1>5. /\ IsSeq(classes') /\ Len(classes') = n + 2 /\ DOMAIN classes' = 1..(n + 2)
      /\ DOMAIN classes = 1..n
      /\ classes'[n + 1] = meta /\ classes'[n + 2] = cls
      /\ \A c \in 1..n : classes'[c] = classes[c]
  BY <1>1, <1>2, PairAppended DEF ClassObjects
<1>6. \A c \in DOMAIN classes' : c \in DOMAIN classes \/ c = n + 1 \/ c = n + 2
  BY <1>1, <1>5
<1>7. ClassObjects(classes')
  BY <1>1, <1>3, <1>4, <1>5, <1>6 DEF ClassObjects
<1>8. n + 2 \in Instances(classes') /\ n + 1 \in DOMAIN classes' /\ n + 2 \in DOMAIN classes'
  BY <1>1, <1>4, <1>5 DEF Instances
<1>9. Instances(classes) \subseteq Instances(classes')
  <2>1. DOMAIN classes \subseteq DOMAIN classes'
    BY <1>1, <1>5
  <2>2. QED
    BY <2>1, <1>5 DEF Instances
<1>10. /\ known' \in [KnownNames -> Nat] /\ known'[name] = n + 2
       /\ \A k \in KnownNames : k # name => known'[k] = known[k]
  <2>1. name \in KnownNames
    BY AllocationNames
  <2>2. known' = [known EXCEPT ![name] = n + 2] /\ n + 2 \in Nat
    BY <1>1, <1>5
  <2>3. known \in [KnownNames -> Nat]
    BY <1>1 DEF KnownOk
  <2> HIDE DEF name
  <2>4. QED
    BY <2>1, <2>2, <2>3
<1> HIDE DEF name
<1>11. name \notin {"Block", "System"} /\ {"Block", "System"} \subseteq KnownNames
  BY AllocationNames DEF name, KnownNames
<1>12. ASSUME NEW i \in 1..13, i < boot'
       PROVE  /\ known'[AllocationOrder[i]] = 2 * i /\ 2 * i \in Instances(classes')
              /\ 2 * i - 1 \in DOMAIN classes' /\ classes'[2 * i - 1].side = "class"
              /\ classes'[2 * i].class = 2 * i - 1
  <2>1. CASE i = boot
    BY <1>1, <1>3, <1>4, <1>5, <1>8, <1>10, <2>1 DEF name
  <2>2. CASE i < boot
    <3>0. boot \in 1..13 /\ i # boot
      BY <2>2
    <3>1. AllocationOrder[i] # name /\ AllocationOrder[i] \in KnownNames
      BY <3>0, AllocationNames, Zenon DEF name
    <3>2. known'[AllocationOrder[i]] = 2 * i /\ 2 * i \in Instances(classes')
      BY <3>1, <2>2, <1>1, <1>9, <1>10 DEF KnownOk
    <3>3. /\ 2 * i - 1 \in DOMAIN classes /\ classes[2 * i - 1].side = "class"
          /\ classes[2 * i].class = 2 * i - 1 /\ 2 * i \in DOMAIN classes
      BY <2>2, <1>1 DEF Starting, KnownOk, Instances
    <3>4. DOMAIN classes \subseteq DOMAIN classes' /\ \A c \in DOMAIN classes : classes'[c] = classes[c]
      BY <1>1, <1>5
    <3>5. QED
      BY <3>2, <3>3, <3>4
  <2>3. QED
    BY <1>12, <1>1, <2>1, <2>2
<1>13. KnownOk'
  BY <1>1, <1>9, <1>10, <1>11, <1>12 DEF KnownOk
<1>14. \A c \in DOMAIN classes' : \E i \in 1..13 : i < boot' /\ (c = 2 * i \/ c = 2 * i - 1)
  <2> SUFFICES ASSUME NEW c \in DOMAIN classes'
               PROVE  \E i \in 1..13 : i < boot' /\ (c = 2 * i \/ c = 2 * i - 1)
    OBVIOUS
  <2>1. CASE c \in DOMAIN classes
    <3>1. PICK i \in 1..13 : i < boot /\ (c = 2 * i \/ c = 2 * i - 1)
      BY <2>1, <1>1 DEF Starting
    <3>2. i < boot'
      BY <3>1, <1>1
    <3>3. QED
      BY <3>1, <3>2
  <2>2. CASE c = n + 1 \/ c = n + 2
    <3>1. boot < boot' /\ (c = 2 * boot \/ c = 2 * boot - 1)
      BY <2>2, <1>1
    <3>2. QED
      BY <3>1
  <2>3. QED
    BY <1>6, <2>1, <2>2
<1>15. Len(classes') = 2 * boot' - 2
  BY <1>1, <1>5
<1>16. Starting'
  <2>1. \A i \in 1..13 : ~(i + 14 < boot')
    BY <1>1
  <2>2. QED
    BY <1>12, <1>14, <1>15, <2>1 DEF Starting
<1>17. Referring'
  BY <1>1, <1>9, NoneYet DEF Referring
<1>18. boot' < 28 /\ ~(boot' >= 28)
  BY <1>1
<1>19. QED
  BY <1>7, <1>13, <1>16, <1>17, <1>18 DEF LinkInv

LEMMA Step14Nil ==
  ASSUME LinkInv, outcome = "booting", loads = << >>, boot = 14, Bind("integerProxy", NotAClass),
         boot' = boot + 1, UNCHANGED <<classes, known, loads, request, outcome>>
  PROVE  LinkInv'
<1>1. ClassObjects(classes) /\ KnownOk /\ Starting /\ Referring /\ boot' = 15
  BY DEF LinkInv
<1>2. \A i \in 1..13 : i < boot /\ ~(i + 14 < boot')
  BY <1>1
<1>3. KnownOk'
  BY <1>1, <1>2 DEF KnownOk
<1>4. Starting'
  <2>1. \A c \in DOMAIN classes : \E i \in 1..13 : i < boot' /\ (c = 2 * i \/ c = 2 * i - 1)
    <3> SUFFICES ASSUME NEW c \in DOMAIN classes
                 PROVE  \E i \in 1..13 : i < boot' /\ (c = 2 * i \/ c = 2 * i - 1)
      OBVIOUS
    <3>1. PICK i \in 1..13 : c = 2 * i \/ c = 2 * i - 1
      BY <1>1 DEF Starting
    <3>2. QED
      <4>1. i < boot'
        BY <1>1
      <4>2. QED
        BY <3>1, <4>1, Zenon
  <2>2. ~(boot' <= 14)
    BY <1>1
  <2>3. QED
    BY <1>1, <1>2, <2>1, <2>2 DEF Starting
<1>5. \A n \in DOMAIN globals' : globals'[n] > 0 => n \in DOMAIN globals /\ globals'[n] = globals[n]
  BY DEF Bind, NotAClass
<1>6. Referring'
  BY <1>1, <1>5, NoneYet DEF Referring
<1>7. QED
  BY <1>1, <1>3, <1>4, <1>6 DEF LinkInv

\* What changes when a class and its metaclass are initialized.
PairInitialized(cs, c, m, s, name, ms) ==
  [cs EXCEPT ![c].super = s, ![c].name = name, ![m].name = name, ![m].super = ms,
             ![c].invokables = <<>>, ![m].invokables = <<>>, ![c].fields = <<>>, ![m].fields = <<>>]

LEMMA ClassInitialized ==
  ASSUME NEW cs, ClassObjects(cs), NEW c \in DOMAIN cs, NEW m \in DOMAIN cs, c # m,
         NEW s, NEW name, NEW ms
  PROVE  LET ds == PairInitialized(cs, c, m, s, name, ms)
         IN  /\ ClassObjects(ds) /\ DOMAIN ds = DOMAIN cs
             /\ \A d \in DOMAIN cs : ds[d].side = cs[d].side /\ ds[d].class = cs[d].class
             /\ \A d \in DOMAIN cs : d # c /\ d # m => ds[d] = cs[d]
             /\ ds[c].super = s /\ ds[c].name = name /\ ds[m].super = ms
             /\ \A d \in {c, m} : ds[d].fields = << >> /\ ds[d].invokables = << >>
                                 /\ ds[d].room = cs[d].room
<1> DEFINE ds == PairInitialized(cs, c, m, s, name, ms)
<1> USE DEF PairInitialized
<1>1. IsSeq(ds) /\ DOMAIN ds = DOMAIN cs
  <2>2. ds = [i \in DOMAIN cs |-> ds[i]]
    BY Zenon
  <2>3. IsSeq(cs)
    BY DEF ClassObjects
  <2> HIDE DEF ds
  <2>4. QED
    BY <2>2, <2>3, SameDomain
<1>2. \A d \in DOMAIN cs : d # c /\ d # m => ds[d] = cs[d]
  BY Zenon
<1>3. ds[c] = [cs[c] EXCEPT !.super = s, !.name = name, !.invokables = <<>>, !.fields = <<>>]
  BY Zenon
<1>4. ds[m] = [cs[m] EXCEPT !.name = name, !.super = ms, !.invokables = <<>>, !.fields = <<>>]
  BY Zenon
<1> HIDE DEF ds
<1>5. IsClass(cs[c]) /\ IsClass(cs[m])
  BY DEF ClassObjects
<1>6. /\ IsClass(ds[c]) /\ ds[c].super = s /\ ds[c].name = name
      /\ ds[c].side = cs[c].side /\ ds[c].class = cs[c].class
      /\ ds[c].fields = << >> /\ ds[c].invokables = << >> /\ ds[c].room = cs[c].room
  BY <1>3, <1>5 DEF IsClass
<1>7. /\ IsClass(ds[m]) /\ ds[m].super = ms
      /\ ds[m].side = cs[m].side /\ ds[m].class = cs[m].class
      /\ ds[m].fields = << >> /\ ds[m].invokables = << >> /\ ds[m].room = cs[m].room
  BY <1>4, <1>5 DEF IsClass
<1>9. QED
  <2>1. ClassObjects(ds)
    BY <1>1, <1>2, <1>6, <1>7 DEF ClassObjects
  <2>2. \A d \in DOMAIN cs : ds[d].side = cs[d].side /\ ds[d].class = cs[d].class
    BY <1>2, <1>6, <1>7
  <2>3. \A d \in {c, m} : ds[d].fields = << >> /\ ds[d].invokables = << >> /\ ds[d].room = cs[d].room
    BY <1>6, <1>7
  <2>4. QED
    BY <1>1, <1>2, <1>6, <1>7, <2>1, <2>2, <2>3, Zenon DEF ds

\* All 13 classes are initialized: the hierarchy is as it stays.
LEMMA StartedHierarchy ==
  boot = 28 /\ KnownOk /\ Starting => Hierarchy(classes, DOMAIN globals, known["Class"])
<1> SUFFICES ASSUME boot = 28, KnownOk, Starting, NEW c \in Instances(classes)
             PROVE  Linked(classes, DOMAIN globals, known["Class"], c)
  BY DEF Hierarchy
<1>1. \A i \in 1..13 : i < boot /\ i + 14 < boot
  OBVIOUS
<1>2. c \in DOMAIN classes /\ classes[c].side = "instance"
  BY DEF Instances
<1>3. PICK i \in 1..13 : c = 2 * i \/ c = 2 * i - 1
  BY <1>2 DEF Starting
<1>4. classes[2 * i - 1].side = "class" /\ 2 * i - 1 \in DOMAIN classes /\ classes[2 * i].class = 2 * i - 1
  BY <1>1 DEF Starting
<1>5. c = 2 * i
  BY <1>2, <1>3, <1>4
<1>6. PICK k \in 1..13 : SystemSuperClasses[k][1] = AllocationOrder[i]
  BY NamesAllocated
<1>7. known[SystemSuperClasses[k][1]] = c
  BY <1>1, <1>5, <1>6 DEF KnownOk
<1>8. SystemLinked(k)
  BY <1>1 DEF Starting
<1>9. c - 1 = 2 * i - 1 /\ c \in Nat
  BY <1>5
<1>10. CASE SystemSuperClasses[k][2] = ""
  <2>1. /\ classes[c].super = None /\ classes[c - 1].super = known["Class"]
        /\ classes[c].name \in DOMAIN globals
    BY <1>7, <1>8, <1>10 DEF SystemLinked
  <2>2. QED
    BY <1>4, <1>5, <1>9, <2>1 DEF Linked
<1>11. CASE SystemSuperClasses[k][2] # ""
  <2>1. PICK l \in 1..13 : SystemSuperClasses[k][2] = AllocationOrder[l]
    BY <1>11, NamesAllocated, Zenon
  <2>2. known[SystemSuperClasses[k][2]] = 2 * l /\ 2 * l \in Instances(classes)
    BY <2>1, <1>1 DEF KnownOk
  <2>3. classes[c].super = 2 * l /\ classes[c - 1].super = 2 * l - 1
    BY <1>7, <1>8, <1>11, <2>2 DEF SystemLinked
  <2>4. classes[2 * l].class = 2 * l - 1
    BY <1>1 DEF Starting
  <2>5. 2 * l # None
    BY DEF None
  <2>6. QED
    BY <1>4, <1>5, <1>9, <2>2, <2>3, <2>4, <2>5 DEF Linked
<1>12. QED
  BY <1>10, <1>11

LEMMA Later14 == \A i \in 1..13 : ~(i + 15 <= 14) /\ \A k \in 1..13 : k < i => k + 14 < i + 14
OBVIOUS

LEMMA Step15Initialize ==
  ASSUME LinkInv, outcome = "booting", loads = << >>,
         NEW CONSTANT i \in 1..13, boot = i + 14,
         classes' = InitializeSystemClass(Step("initialize", SystemSuperClasses[i][1],
                                                             SystemSuperClasses[i][2])),
         Bind(SystemSuperClasses[i][1], known[SystemSuperClasses[i][1]]),
         boot' = boot + 1, UNCHANGED <<known, loads, request, outcome>>
  PROVE  LinkInv' /\ Starting'
<1> DEFINE name == SystemSuperClasses[i][1]
           sup == SystemSuperClasses[i][2]
           c == known[name]
           m == classes[c].class
           s == IF sup # "" THEN known[sup] ELSE None
           ms == IF sup # "" THEN classes[s].class ELSE known["Class"]
           ds == PairInitialized(classes, c, m, s, name, ms)
<1>1. /\ ClassObjects(classes) /\ KnownOk /\ Starting /\ Referring
      /\ boot' = i + 15
  <2>1. boot < 28 /\ boot' = i + 15
    OBVIOUS
  <2>2. QED
    BY <2>1, Zenon DEF LinkInv
<1>2. classes' = ds
  BY Zenon DEF InitializeSystemClass, Step, PairInitialized
<1> HIDE DEF s, ms, c, m
<1>3. \A k \in 1..13 : k < boot /\ k < boot'
  BY <1>1, SMTT(20)
<1>4. PICK j \in 1..13 : name = AllocationOrder[j]
  BY <1>1, NamesAllocated, Zenon
<1>5. /\ c = 2 * j /\ m = 2 * j - 1 /\ c \in Instances(classes)
      /\ c \in DOMAIN classes /\ m \in DOMAIN classes /\ c # m
  <2>1. c = 2 * j /\ c \in Instances(classes)
    BY <1>1, <1>3, <1>4 DEF c, KnownOk
  <2>2. 2 * j - 1 \in DOMAIN classes /\ classes[2 * j].class = 2 * j - 1
    BY <1>1, <1>3 DEF Starting
  <2>3. m = 2 * j - 1
    BY <2>1, <2>2 DEF m
  <2>4. QED
    BY <2>1, <2>2, <2>3 DEF Instances
<1>6. /\ ClassObjects(classes') /\ DOMAIN classes' = DOMAIN classes
      /\ \A d \in DOMAIN classes : classes'[d].side = classes[d].side /\ classes'[d].class = classes[d].class
      /\ \A d \in DOMAIN classes : d # c /\ d # m => classes'[d] = classes[d]
      /\ classes'[c].super = s /\ classes'[c].name = name /\ classes'[m].super = ms
  <2>1. ClassObjects(classes) /\ c \in DOMAIN classes /\ m \in DOMAIN classes /\ c # m
    BY <1>1, <1>5
  <2> HIDE DEF name
  <2>2. /\ ClassObjects(ds) /\ DOMAIN ds = DOMAIN classes
        /\ \A d \in DOMAIN classes : ds[d].side = classes[d].side /\ ds[d].class = classes[d].class
        /\ \A d \in DOMAIN classes : d # c /\ d # m => ds[d] = classes[d]
        /\ ds[c].super = s /\ ds[c].name = name /\ ds[m].super = ms
    BY <2>1, ClassInitialized
  <2> HIDE DEF ds
  <2>3. QED
    BY <1>2, <2>2
<1>7. Instances(classes') = Instances(classes)
  BY <1>6 DEF Instances
<1>8. /\ DOMAIN globals' = DOMAIN globals \cup {name} /\ globals'[name] = c
      /\ \A n \in DOMAIN globals : n # name => globals'[n] = globals[n]
  BY DEF Bind, c
<1>9. KnownOk'
  BY <1>1, <1>3, <1>7 DEF KnownOk
<1>10. Referring'
  <2>1. \A n \in DOMAIN globals' : globals'[n] > 0 => globals'[n] \in Instances(classes')
    BY <1>1, <1>5, <1>7, <1>8 DEF Referring
  <2>2. QED
    BY <1>1, <2>1, <1>7, NoneYet DEF Referring
<1>11. SystemLinked(i)'
  <2>1. known'[name] = c /\ known' = known
    BY DEF c
  <2>2. c - 1 = m
    BY <1>5
  <2>3. sup = "" => s = None /\ ms = known["Class"]
    BY DEF s, ms
  <2>4. sup # "" => s = known[sup] /\ ms = known[sup] - 1
    <3> SUFFICES ASSUME sup # "" PROVE s = known[sup] /\ ms = known[sup] - 1
      OBVIOUS
    <3>1. PICK l \in 1..13 : sup = AllocationOrder[l]
      BY <1>1, NamesAllocated, Zenon
    <3>2. known[sup] = 2 * l /\ classes[2 * l].class = 2 * l - 1
      BY <3>1, <1>1, <1>3 DEF KnownOk, Starting
    <3>3. QED
      BY <3>2 DEF s, ms
  <2>5. QED
    BY <1>6, <1>8, <2>1, <2>2, <2>3, <2>4 DEF SystemLinked
<1>12. ASSUME NEW k \in 1..13, k < i PROVE SystemLinked(k)'
  <2> DEFINE old == SystemSuperClasses[k][1]
  <2>1. SystemLinked(k)
    <3>1. k + 14 < boot
      BY <1>12, Later14, Zenon
    <3>2. QED
      BY <1>1, <3>1, Zenon DEF Starting
  <2>2. PICK l \in 1..13 : old = AllocationOrder[l]
    BY NamesAllocated, Zenon
  <2>3. old # name /\ l # j
    <3>1. k # i
      BY <1>12
    <3>2. SystemSuperClasses[k][1] # SystemSuperClasses[i][1]
      BY <3>1, SystemNames
    <3>3. QED
      BY <3>2, <1>4, <2>2
  <2>4. known[old] = 2 * l /\ 2 * l \in DOMAIN classes /\ 2 * l - 1 \in DOMAIN classes
    BY <1>1, <1>3, <2>2 DEF KnownOk, Starting, Instances
  <2>5. 2 * l # c /\ 2 * l # m /\ 2 * l - 1 # c /\ 2 * l - 1 # m
    BY <1>5, <2>3
  <2>6. classes'[2 * l] = classes[2 * l] /\ classes'[2 * l - 1] = classes[2 * l - 1]
    BY <1>6, <2>4, <2>5
  <2> HIDE DEF old
  <2>7. known' = known /\ (old \in DOMAIN globals => old \in DOMAIN globals')
    BY <1>8
  <2>8. QED
    BY <2>1, <2>4, <2>6, <2>7 DEF SystemLinked, old
<1>13. Starting'
  <2>1. ~(boot' <= 14)
    BY <1>1, Later14, Zenon
  <2>2. \A d \in DOMAIN classes' : \E k \in 1..13 : k < boot' /\ (d = 2 * k \/ d = 2 * k - 1)
    <3> SUFFICES ASSUME NEW d \in DOMAIN classes
                 PROVE  \E k \in 1..13 : k < boot' /\ (d = 2 * k \/ d = 2 * k - 1)
      BY <1>6
    <3>1. PICK k \in 1..13 : d = 2 * k \/ d = 2 * k - 1
      BY <1>1 DEF Starting
    <3>2. QED
      BY <3>1, <1>3
  <2>3. ASSUME NEW k \in 1..13
        PROVE  /\ 2 * k - 1 \in DOMAIN classes' /\ classes'[2 * k - 1].side = "class"
               /\ classes'[2 * k].class = 2 * k - 1
    <3>1. /\ 2 * k - 1 \in DOMAIN classes /\ classes[2 * k - 1].side = "class"
          /\ classes[2 * k].class = 2 * k - 1 /\ 2 * k \in DOMAIN classes
      BY <1>1, <1>3 DEF Starting, KnownOk, Instances
    <3>2. QED
      BY <3>1, <1>6
  <2>4. ASSUME NEW k \in 1..13, k + 14 < boot' PROVE SystemLinked(k)'
    <3>1. k = i \/ k < i
      BY <2>4, <1>1
    <3>2. QED
      BY <3>1, <1>11, <1>12
  <2>5. QED
    BY <2>1, <2>2, <2>3, <2>4 DEF Starting
<1>14. ASSUME boot' = 28 PROVE Hierarchy(classes', DOMAIN globals', known'["Class"])
  <2>1. (boot = 28 /\ KnownOk /\ Starting => Hierarchy(classes, DOMAIN globals, known["Class"]))'
    BY StartedHierarchy, PTL
  <2>2. QED
    BY <1>9, <1>13, <1>14, <2>1
<1>15. boot' >= 28 => boot' = 28
  BY <1>1
<1>16. QED
  BY <1>6, <1>9, <1>10, <1>13, <1>14, <1>15 DEF LinkInv

--------------------
(* Steps after the classes of the system are initialized. *)

KnownKept ==
  \/ UNCHANGED known
  \/ \E n \in {"Block", "System"} : \E c \in Instances(classes') : known' = [known EXCEPT ![n] = c]

LEMMA LaterStep ==
  ASSUME LinkInv, boot \in Nat, boot >= 28, boot' \in Nat, boot' >= boot, LinksGrow, KnownKept,
         DOMAIN globals \subseteq DOMAIN globals',
         Instances(classes) \subseteq Instances(classes') => Referring'
  PROVE  LinkInv'
<1>1. /\ ClassObjects(classes) /\ KnownOk /\ Hierarchy(classes, DOMAIN globals, known["Class"])
  BY DEF LinkInv
<1>2. "Class" \in KnownNames /\ "Class" \notin {"Block", "System"} /\ {"Block", "System"} \subseteq KnownNames
  BY DEF KnownNames, SystemClasses
<1>3. /\ known' \in [KnownNames -> Nat]
      /\ \A n \in KnownNames \ {"Block", "System"} : known'[n] = known[n]
      /\ \A n \in {"Block", "System"} : known'[n] = known[n] \/ known'[n] \in Instances(classes')
  <2>1. CASE UNCHANGED known
    BY <2>1, <1>1 DEF KnownOk
  <2>2. ASSUME NEW n \in {"Block", "System"}, NEW c \in Instances(classes'),
               known' = [known EXCEPT ![n] = c]
        PROVE  /\ known' \in [KnownNames -> Nat]
               /\ \A k \in KnownNames \ {"Block", "System"} : known'[k] = known[k]
               /\ \A k \in {"Block", "System"} : known'[k] = known[k] \/ known'[k] \in Instances(classes')
    <3>1. n \in KnownNames
      BY <1>2
    <3>2. known \in [KnownNames -> Nat]
      BY <1>1 DEF KnownOk
    <3>3. c \in Nat
      <4>1. ClassObjects(classes')
        BY <1>1, NewClasses DEF LinksGrow, SameLinks
      <4>2. DOMAIN classes' = 1..Len(classes') /\ Len(classes') \in Nat
        BY <4>1, Measured DEF ClassObjects
      <4>3. QED
        BY <4>2 DEF Instances
    <3>4. QED
      BY <2>2, <3>1, <3>2, <3>3
  <2>3. QED
    BY <2>1, <2>2 DEF KnownKept
<1>4. known'["Class"] = known["Class"]
  BY <1>2, <1>3
<1>5. /\ ClassObjects(classes') /\ Hierarchy(classes', DOMAIN globals', known'["Class"])
      /\ Instances(classes) \subseteq Instances(classes')
  BY <1>1, <1>4, HierarchyGrows
<1>6. \A i \in 1..13 : i < boot /\ AllocationOrder[i] \in KnownNames \ {"Block", "System"}
  BY AllocationNames
<1>7. KnownOk'
  <2>1. \A i \in 1..13 : known'[AllocationOrder[i]] = 2 * i /\ 2 * i \in Instances(classes')
    BY <1>1, <1>3, <1>5, <1>6 DEF KnownOk
  <2>2. \A n \in {"Block", "System"} : known'[n] \in Instances(classes') \cup {None}
    BY <1>1, <1>3, <1>5 DEF KnownOk
  <2>3. QED
    BY <1>3, <2>1, <2>2 DEF KnownOk
<1>8. boot' >= 28 /\ ~(boot' < 28)
  OBVIOUS
<1>9. QED
  BY <1>5, <1>7, <1>8 DEF LinkInv

\* The innermost call goes on.
LEMMA TopLinked ==
  ASSUME LinkInv, CallsInv, loads # << >>, boot \in Nat, NEW d, SetTop(d),
         LinksGrow, CallLinked(d, Instances(classes')), UNCHANGED <<known, globals, boot, request, outcome>>
  PROVE  LinkInv'
<1>1. Referring /\ boot >= 28
  BY DEF LinkInv, Referring
<1>2. /\ DOMAIN loads' = DOMAIN loads /\ loads'[Len(loads)] = d
      /\ \A i \in DOMAIN loads : i # Len(loads) => loads'[i] = loads[i]
  BY TopSet DEF SetTop, CallsInv
<1>3. ASSUME Instances(classes) \subseteq Instances(classes') PROVE Referring'
  <2>1. \A i \in DOMAIN loads' : CallLinked(loads'[i], Instances(classes'))
    BY <1>1, <1>2, <1>3 DEF Referring, CallLinked
  <2>2. QED
    BY <1>1, <1>3, <2>1 DEF Referring
<1>4. QED
  BY <1>1, <1>3, LaterStep DEF KnownKept

LEMMA TopOfHierarchy ==
  ASSUME LinkInv, CallsInv, loads # << >>
  PROVE  IsCall(top) /\ CallLinked(top, Instances(classes)) /\ boot >= 28
BY TopIsCall DEF LinkInv, Referring, top

LEMMA OpenFileLinked == LinkInv /\ LoadInv /\ OpenFile => LinkInv'
<1> SUFFICES ASSUME LinkInv, LoadInv, OpenFile PROVE LinkInv'
  BY SMTT(20)
<1>1. /\ loads # << >> /\ CallsInv /\ boot \in Nat /\ top.pc = "find"
      /\ UNCHANGED <<known, globals, boot, request, outcome>>
  BY DEF OpenFile, LoadInv, BindingsInv
<1>2. IsCall(top) /\ CallLinked(top, Instances(classes)) /\ boot >= 28
  BY <1>1, TopOfHierarchy
<1>3. CASE SetTop([top EXCEPT !.dir = @ + 1]) /\ UNCHANGED classes
  <2> DEFINE d == [top EXCEPT !.dir = @ + 1]
  <2>1. SameLoad(top, d) /\ d.pc = "find"
    BY Zenon, <1>1, <1>2, CallGoesOn
  <2>2. CallLinked(d, Instances(classes'))
    BY <1>2, <1>3, <2>1 DEF CallLinked, SameLoad
  <2> HIDE DEF d
  <2>3. SetTop(d)
    BY <1>3 DEF d
  <2>4. QED
    BY <1>1, <1>3, <2>2, <2>3, TopLinked, Zenon DEF LinksGrow
<1>4. CASE SetTop([top EXCEPT !.pc = "super"]) /\ UNCHANGED classes
  <2> DEFINE d == [top EXCEPT !.pc = "super"]
  <2>1. SameLoad(top, d) /\ d.pc = "super"
    BY <1>2 DEF SameLoad, IsCall
  <2>2. CallLinked(d, Instances(classes'))
    BY <1>2, <1>4, <2>1 DEF CallLinked, SameLoad
  <2> HIDE DEF d
  <2>3. SetTop(d)
    BY <1>4 DEF d
  <2>4. QED
    BY <1>1, <1>4, <2>2, <2>3, TopLinked DEF LinksGrow
<1>5. CASE FileOpens /\ top.system # None
  <2> DEFINE c == top.system
             m == classes[c].class
  <2>1. /\ classes' = AssembleSystemClass(classes, c, File)
        /\ SetTop([top EXCEPT !.pc = "primitives", !.class = c])
    BY <1>5 DEF OpenFile
  <2>2. c \in Instances(classes) /\ ClassObjects(classes)
    BY <1>2, <1>5 DEF CallLinked, LinkInv
  <2>3. c \in DOMAIN classes /\ m \in DOMAIN classes /\ c # m
    BY <1>2, <2>2 DEF LinkInv, Hierarchy, Linked, Instances
  <2> HIDE DEF c
  <2>5. SameLinks(classes, classes')
    BY <2>1, <2>2, <2>3, ClassFilled
  <2>6. Instances(classes') = Instances(classes)
    BY <2>5 DEF SameLinks, Instances
  <2> DEFINE d == [top EXCEPT !.pc = "primitives", !.class = c]
  <2>7. SameLoad(top, d) /\ d.pc = "primitives" /\ d.class = c
    BY <1>2 DEF SameLoad, IsCall
  <2>8. CallLinked(d, Instances(classes'))
    BY <1>2, <2>2, <2>6, <2>7 DEF CallLinked, SameLoad
  <2> HIDE DEF d
  <2>9. SetTop(d)
    BY <2>1 DEF d
  <2>10. QED
    BY <1>1, <2>5, <2>8, <2>9, TopLinked, SMTT(20) DEF LinksGrow
<1>6. QED
  BY <1>3, <1>4, <1>5 DEF OpenFile

LEMMA FailedLinked ==
  ASSUME LinkInv, boot \in Nat, boot >= 28,
         UNCHANGED <<classes, known, globals, loads, boot, request>>
  PROVE  LinkInv'
<1>1. Referring'
  BY DEF LinkInv, Referring
<1>2. QED
  BY <1>1, LaterStep DEF LinksGrow, KnownKept

LEMMA LoadSuperClassLinked == LinkInv /\ LoadInv /\ (NotFound \/ LoadSuperClass) => LinkInv'
<1> SUFFICES ASSUME LinkInv, LoadInv, NotFound \/ LoadSuperClass PROVE LinkInv'
  OBVIOUS
<1>1. /\ loads # << >> /\ CallsInv /\ boot \in Nat
      /\ UNCHANGED <<classes, known, globals, boot, request>>
  BY DEF NotFound, LoadSuperClass, LoadInv, BindingsInv
<1>2. IsCall(top) /\ CallLinked(top, Instances(classes)) /\ boot >= 28
  BY <1>1, TopOfHierarchy
<1>3. CASE UNCHANGED loads
  BY <1>1, <1>2, <1>3, FailedLinked
<1>4. CASE /\ HasGlobal(File.super) /\ globals[File.super] > 0 /\ UNCHANGED outcome
           /\ SetTop([top EXCEPT !.super = globals[File.super], !.pc = "assemble"])
  <2> DEFINE s == globals[File.super]
             d == [top EXCEPT !.super = s, !.pc = "assemble"]
  <2>1. s \in Instances(classes)
    BY <1>4 DEF LinkInv, Referring, HasGlobal
  <2> HIDE DEF s
  <2>2. SameLoad(top, d) /\ d.pc = "assemble" /\ d.super = s
    BY <1>2 DEF SameLoad, IsCall
  <2>3. CallLinked(d, Instances(classes'))
    BY <1>1, <1>2, <2>1, <2>2 DEF CallLinked, SameLoad
  <2>4. SetTop(d)
    BY <1>4 DEF s
  <2> HIDE DEF d
  <2>5. QED
    BY <1>1, <1>4, <2>3, <2>4, TopLinked DEF LinksGrow
<1>5. CASE loads' = Append(loads, Call(File.super, "class", None)) /\ UNCHANGED outcome
  <2> DEFINE c == Call(File.super, "class", None)
  <2>1. c.system = None /\ c.pc = "find"
    BY NewCall
  <2> HIDE DEF c
  <2>2. CallLinked(c, Instances(classes'))
    BY <2>1 DEF CallLinked
  <2>3. loads' = Append(loads, c) /\ IsSeq(loads)
    BY <1>1, <1>5 DEF c, CallsInv
  <2>4. /\ loads'[Len(loads) + 1] = c /\ DOMAIN loads' = 1..(Len(loads) + 1)
        /\ \A i \in DOMAIN loads : loads'[i] = loads[i]
        /\ Len(loads) \in Nat /\ DOMAIN loads = 1..Len(loads)
    BY <2>3, Appended, Measured
  <2>5. \A i \in DOMAIN loads' : i \in DOMAIN loads \/ loads'[i] = c
    BY <2>4
  <2>6. \A i \in DOMAIN loads' : CallLinked(loads'[i], Instances(classes'))
    BY <1>1, <2>2, <2>4, <2>5 DEF LinkInv, Referring
  <2>7. Referring'
    BY <1>1, <1>2, <1>5, <2>6 DEF LinkInv, Referring
  <2>8. QED
    BY <1>1, <1>2, <2>7, LaterStep DEF LinksGrow, KnownKept
<1>6. QED
  BY <1>3, <1>4, <1>5 DEF NotFound, LoadSuperClass

LEMMA AssembleLinked == LinkInv /\ LoadInv /\ Assemble => LinkInv'
<1> SUFFICES ASSUME LinkInv, LoadInv, Assemble PROVE LinkInv'
  OBVIOUS
<1>1. /\ loads # << >> /\ CallsInv /\ boot \in Nat /\ top.pc = "assemble"
      /\ classes' = Assembled(classes, File, top.super)
      /\ UNCHANGED <<known, globals, boot, request, outcome>>
  BY DEF Assemble, LoadInv, BindingsInv
<1>2. IsCall(top) /\ CallLinked(top, Instances(classes)) /\ boot >= 28
  BY <1>1, TopOfHierarchy
<1>3. top.super \in Instances(classes)
  BY <1>1, <1>2 DEF CallLinked
<1>4. LinksGrow
  BY <1>1, <1>3 DEF LinksGrow
<1>5. Instances(classes) \subseteq Instances(classes') /\ Len(classes') \in Instances(classes')
  BY <1>1, <1>2, <1>3, LongerHierarchy DEF LinkInv
<1>6. CASE SetTop([top EXCEPT !.pc = "primitives", !.class = Len(classes')])
  <2> DEFINE n == Len(classes')
             d == [top EXCEPT !.pc = "primitives", !.class = n]
  <2> HIDE DEF n
  <2>1. SameLoad(top, d) /\ d.pc = "primitives" /\ d.class = n
    BY <1>2 DEF SameLoad, IsCall
  <2>2. CallLinked(d, Instances(classes'))
    BY <1>2, <1>5, <2>1 DEF CallLinked, SameLoad, n
  <2>3. SetTop(d)
    BY <1>6 DEF n
  <2> HIDE DEF d
  <2>4. QED
    BY <1>1, <1>4, <2>2, <2>3, TopLinked
<1>7. CASE SetTop([top EXCEPT !.pc = "find", !.dir = @ + 1])
  <2> DEFINE d == [top EXCEPT !.pc = "find", !.dir = @ + 1]
  <2>1. SameLoad(top, d) /\ d.pc = "find"
    BY <1>2 DEF SameLoad, IsCall
  <2>2. CallLinked(d, Instances(classes'))
    BY <1>2, <1>5, <2>1 DEF CallLinked, SameLoad
  <2>3. SetTop(d)
    BY <1>7
  <2> HIDE DEF d
  <2>4. QED
    BY <1>1, <1>4, <2>2, <2>3, TopLinked
<1>8. QED
  BY <1>6, <1>7 DEF Assemble

LEMMA ReturnLinked == LinkInv /\ LoadInv /\ Return => LinkInv'
<1> SUFFICES ASSUME LinkInv, LoadInv, Return PROVE LinkInv'
  OBVIOUS
<1> DEFINE c == top.class
<1>1. /\ loads # << >> /\ CallsInv /\ boot \in Nat /\ top.pc = "primitives"
      /\ outcome \in {"booting", "running", "shell"}
  BY DEF Return, LoadInv, BindingsInv, Going
<1>2. IsCall(top) /\ CallLinked(top, Instances(classes)) /\ boot >= 28
  BY <1>1, TopOfHierarchy
<1>3. /\ c \in Instances(classes) /\ c \in DOMAIN classes /\ classes[c].class \in DOMAIN classes
      /\ ClassObjects(classes) /\ Referring
  BY <1>1, <1>2 DEF CallLinked, LinkInv, Hierarchy, Linked, Instances
<1>4. CASE UNCHANGED <<classes, globals, loads, boot, known, request>>
  BY <1>1, <1>2, <1>4, FailedLinked
<1>5. CASE WithPrimitives(top) # {} /\ classes' = CHOOSE cs \in WithPrimitives(top) : TRUE
  <2>1. SameLinks(classes, classes')
    BY <1>3, <1>5, LoadedWithPrimitives
  <2>2. Instances(classes') = Instances(classes) /\ LinksGrow
    BY <2>1 DEF SameLinks, Instances, LinksGrow
  <2>3. /\ DOMAIN globals \subseteq DOMAIN globals'
        /\ \A n \in DOMAIN globals' : globals'[n] > 0 => globals'[n] \in Instances(classes')
    <3>1. CASE Bind(top.name, c)
      BY <3>1, <1>3, <2>2 DEF Bind, Referring
    <3>2. CASE UNCHANGED globals
      BY <3>2, <1>3, <2>2 DEF Referring
    <3>3. Bind(top.name, c) \/ UNCHANGED globals
      BY <1>5 DEF Return
    <3>4. QED
      BY <3>1, <3>2, <3>3
  <2>4. boot' \in Nat /\ boot' >= boot
    <3>1. boot' = boot \/ boot' = boot + 1
      BY DEF Return
    <3>2. QED
      BY <3>1, <1>1
  <2>5. KnownKept
    <3>1. UNCHANGED known \/ (top.name \in {"Block", "System"} /\ known' = [known EXCEPT ![top.name] = c])
      BY DEF Return
    <3> HIDE DEF c
    <3>2. QED
      BY <3>1, <1>3, <2>2 DEF KnownKept
  <2>6. /\ request' \in [op : {request'.op}, name : {request'.name}, class : {request'.class},
                        pc : {request'.pc}]
        /\ request'.pc = "loaded" => request'.class \in Instances(classes')
    <3>1. UNCHANGED request \/ request' = [request EXCEPT !.class = c, !.pc = "loaded"]
      BY DEF Return
    <3> HIDE DEF c
    <3>2. QED
      BY <3>1, <1>3, <2>2 DEF Referring
  <2>8. \A i \in DOMAIN loads' : CallLinked(loads'[i], Instances(classes'))
    <3>1. CASE loads' = << >>
      BY <3>1, NoneYet
    <3>2. CASE /\ Len(loads) > 1
               /\ loads' = Append(SubSeq(loads, 1, Len(loads) - 2),
                     [loads[Len(loads) - 1] EXCEPT !.super = c, !.pc = "assemble"])
      <4> DEFINE n == Len(loads) - 2
                 w == loads[Len(loads) - 1]
                 d == [w EXCEPT !.super = c, !.pc = "assemble"]
      <4>1. /\ n \in Nat /\ n < Len(loads) /\ Len(loads) - 1 \in DOMAIN loads
            /\ DOMAIN loads = 1..(n + 2) /\ IsSeq(loads)
        BY <3>2, <1>1, Measured DEF CallsInv
      <4>2. IsCall(w) /\ CallLinked(w, Instances(classes))
        BY <4>1, <1>1, <1>3 DEF CallsInv, BlockCallsOk, Referring
      <4>3. loads' = Append(SubSeq(loads, 1, n), d)
        BY <3>2
      <4> HIDE DEF n, w, c
      <4>4. SameLoad(w, d) /\ d.pc = "assemble" /\ d.super = c
        BY <4>2 DEF SameLoad, IsCall
      <4>5. CallLinked(d, Instances(classes'))
        BY <4>2, <4>4, <1>3, <2>2 DEF CallLinked, SameLoad
      <4> HIDE DEF d
      <4>6. /\ DOMAIN loads' = 1..(n + 1) /\ loads'[n + 1] = d
            /\ \A i \in 1..n : loads'[i] = loads[i]
        BY <4>1, <4>3, Replaced
      <4>7. \A i \in DOMAIN loads' : loads'[i] = d \/ (i \in DOMAIN loads /\ loads'[i] = loads[i])
        BY <4>1, <4>6
      <4>8. QED
        BY <4>5, <4>7, <1>3, <2>2 DEF Referring
    <3>3. QED
      BY <3>1, <3>2, <1>5 DEF Return
  <2>9. Referring'
    BY <1>2, <2>3, <2>4, <2>6, <2>8, <1>1 DEF Referring
  <2>10. QED
    BY <1>1, <1>2, <2>2, <2>3, <2>4, <2>5, <2>9, LaterStep
<1>6. QED
  BY <1>4, <1>5 DEF Return

RequestOk(r, all) ==
  /\ r \in [op : {r.op}, name : {r.name}, class : {r.class}, pc : {r.pc}]
  /\ r.pc = "loaded" => r.class \in all

LEMMA ProgramLinked ==
  LinkInv /\ LoadInv /\ (\/ Ask \/ GetBlockClassWithArgs \/ Load \/ Loaded \/ BlocksForResolve
                         \/ Look \/ PutGlobals \/ ReadLine) => LinkInv'
<1> SUFFICES ASSUME LinkInv, LoadInv,
                    \/ Ask \/ GetBlockClassWithArgs \/ Load \/ Loaded \/ BlocksForResolve
                    \/ Look \/ PutGlobals \/ ReadLine
             PROVE  LinkInv'
  OBVIOUS
<1>1. /\ loads = << >> /\ outcome \in {"running", "shell"} /\ boot \in Nat
      /\ UNCHANGED <<boot, known>>
  BY DEF Ask, GetBlockClassWithArgs, Load, Loaded, BlocksForResolve, Look, PutGlobals, ReadLine,
         Idle, Running, LoadInv, BindingsInv
<1>2. Referring /\ boot >= 28 /\ RequestOk(request, Instances(classes))
      /\ Hierarchy(classes, DOMAIN globals, known["Class"]) /\ KnownOk
  BY <1>1 DEF LinkInv, Referring, RequestOk
<1>3. LinksGrow
  <2>1. UNCHANGED classes \/ classes' = Assembled(classes, ShellClass, known["Object"])
    BY DEF Ask, GetBlockClassWithArgs, Load, Loaded, BlocksForResolve, Look, PutGlobals, ReadLine
  <2>2. PICK j \in 1..13 : AllocationOrder[j] = "Object"
    BY NamesAllocated
  <2>3. known["Object"] \in Instances(classes)
    <3>1. j < boot
      BY <1>1, <1>2
    <3>2. known[AllocationOrder[j]] \in Instances(classes)
      BY <1>2, <3>1 DEF KnownOk
    <3>3. QED
      BY <2>2, <3>2
  <2>4. QED
    BY <2>1, <2>3 DEF LinksGrow
<1>4. ASSUME Instances(classes) \subseteq Instances(classes'),
             DOMAIN globals \subseteq DOMAIN globals',
             \A n \in DOMAIN globals' : globals'[n] > 0 => globals'[n] \in Instances(classes),
             RequestOk(request', Instances(classes)),
             \A i \in DOMAIN loads' : CallLinked(loads'[i], Instances(classes))
      PROVE  Referring'
  <2>1. \A i \in DOMAIN loads' : CallLinked(loads'[i], Instances(classes'))
    BY <1>4 DEF CallLinked
  <2>2. QED
    BY <1>1, <1>2, <1>4, <2>1 DEF Referring, RequestOk
<1>5. /\ DOMAIN globals \subseteq DOMAIN globals'
      /\ \A n \in DOMAIN globals' : globals'[n] > 0 => globals'[n] \in Instances(classes)
  <2>1. CASE UNCHANGED globals
    BY <2>1, <1>2 DEF Referring
  <2>2. CASE PutGlobals /\ Bind(classes[request.class].name, request.class)
    <3>1. request.class \in Instances(classes)
      BY <2>2, <1>2 DEF PutGlobals, Running, RequestOk
    <3>2. QED
      BY <2>2, <3>1, <1>2 DEF Bind, Referring
  <2>3. QED
    BY <2>1, <2>2
       DEF Ask, GetBlockClassWithArgs, Load, Loaded, BlocksForResolve, Look, PutGlobals, ReadLine
<1>6. RequestOk(request', Instances(classes))
  <2>1. CASE UNCHANGED request
    BY <2>1, <1>2
  <2>2. ASSUME NEW op, NEW name, Asked(op, name) PROVE RequestOk(request', Instances(classes))
    BY <2>2 DEF Asked, RequestOk
  <2>3. CASE Answered
    BY <2>3 DEF Answered, NoRequest, RequestOk
  <2>4. CASE request' = [request EXCEPT !.pc = "look"]
    BY <2>4, <1>2 DEF RequestOk
  <2>5. CASE /\ PutGlobals /\ ~HasGlobal(classes[request.class].name)
             /\ request' = [request EXCEPT !.class = classes[request.class].super]
    <3> DEFINE c == request.class
               s == classes[c].super
    <3>1. c \in Instances(classes)
      BY <2>5, <1>2 DEF PutGlobals, Running, RequestOk
    <3>2. Linked(classes, DOMAIN globals, known["Class"], c)
      BY <3>1, <1>2 DEF Hierarchy
    <3>3. s \in Instances(classes)
      BY <2>5, <3>2 DEF Linked, HasGlobal
    <3>4. request' = [request EXCEPT !.class = s]
      BY <2>5
    <3> HIDE DEF s
    <3>5. QED
      BY <3>3, <3>4, <1>2 DEF RequestOk
  <2>6. CASE Ask
    BY <2>2, <2>6 DEF Ask
  <2>7. QED
    BY <2>1, <2>3, <2>4, <2>5, <2>6
       DEF GetBlockClassWithArgs, Load, Loaded, BlocksForResolve, Look, PutGlobals, ReadLine
<1>7. \A i \in DOMAIN loads' : CallLinked(loads'[i], Instances(classes))
  <2>1. CASE UNCHANGED loads
    BY <2>1, <1>1, NoneYet
  <2>2. ASSUME NEW name, NEW how, loads' = <<Call(name, how, None)>>
        PROVE  \A i \in DOMAIN loads' : CallLinked(loads'[i], Instances(classes))
    <3> DEFINE c == Call(name, how, None)
    <3>1. c.system = None /\ c.pc = "find"
      BY NewCall
    <3>2. loads' = <<c>>
      BY <2>2
    <3> HIDE DEF c
    <3>3. DOMAIN loads' = {1} /\ loads'[1] = c
      BY <3>2, Single
    <3>4. QED
      BY <3>1, <3>3 DEF CallLinked
  <2>3. QED
    BY <2>1, <2>2
       DEF Ask, GetBlockClassWithArgs, Load, Loaded, BlocksForResolve, Look, PutGlobals, ReadLine
<1>8. boot' \in Nat /\ boot' >= boot
  BY <1>1
<1>9. KnownKept
  BY <1>1 DEF KnownKept
<1>10. Instances(classes) \subseteq Instances(classes') => Referring'
  BY <1>4, <1>5, <1>6, <1>7
<1>11. QED
  BY <1>1, <1>2, <1>3, <1>5, <1>8, <1>9, <1>10, LaterStep

LEMMA ArgumentsLinked == LinkInv /\ LoadInv /\ (HandleArgument \/ ArgumentsHandled) => LinkInv'
<1> SUFFICES ASSUME LinkInv, LoadInv, HandleArgument \/ ArgumentsHandled PROVE LinkInv'
  OBVIOUS
<1>1. /\ loads = << >> /\ outcome' \in {"starting", "usage", "booting"}
      /\ UNCHANGED <<classes, known, globals, loads, boot, request>>
  BY DEF HandleArgument, ArgumentsHandled, LoadInv, CallsInv
<1>2. Referring'
  BY <1>1 DEF LinkInv, Referring
<1>3. KnownOk' /\ (Starting' <=> Starting)
  BY <1>1, Zenon DEF LinkInv, KnownOk, Starting, SystemLinked
<1>4. QED
  BY <1>1, <1>2, <1>3 DEF LinkInv

LEMMA BootLinked == LinkInv /\ LoadInv /\ Boot => LinkInv'
<1> SUFFICES ASSUME LinkInv, LoadInv, Boot PROVE LinkInv'
  OBVIOUS
<1>1. /\ outcome = "booting" /\ loads = << >> /\ boot \in Nat \ {0} /\ boot <= Len(BootSteps)
      /\ BindingsInv /\ UNCHANGED request
  BY DEF Boot, LoadInv, BindingsInv
<1>2. CASE boot \in 1..13 /\ step = Step("allocate", AllocationOrder[boot], "")
  <2>1. step.op = "allocate" /\ step.name = AllocationOrder[boot]
    BY <1>2 DEF Step
  <2>2. /\ classes' = Allocated(AllocationOrder[boot])
        /\ known' = [known EXCEPT ![AllocationOrder[boot]] = Len(classes')]
        /\ boot' = boot + 1 /\ UNCHANGED <<globals, loads, outcome>>
    BY <2>1 DEF Boot
  <2>3. QED
    BY <1>1, <1>2, <2>2, Step1Allocate
<1>3. CASE boot = 14 /\ step = Step("nil", "Nil", "")
  <2>1. step.op = "nil"
    BY <1>3 DEF Step
  <2>2. /\ Bind("integerProxy", NotAClass)
        /\ boot' = boot + 1 /\ UNCHANGED <<classes, known, loads, outcome>>
    BY <2>1 DEF Boot
  <2>3. QED
    BY <1>1, <1>3, <2>2, Step14Nil
<1>4. ASSUME NEW CONSTANT i \in 1..13, boot = i + 14,
             step = Step("initialize", SystemSuperClasses[i][1], SystemSuperClasses[i][2])
      PROVE  LinkInv'
  <2>1. step.op = "initialize" /\ step.name = SystemSuperClasses[i][1]
    BY <1>4 DEF Step
  <2>2. /\ classes' = InitializeSystemClass(step) /\ Bind(step.name, known[step.name])
        /\ boot' = boot + 1 /\ UNCHANGED <<known, loads, outcome>>
    BY <2>1 DEF Boot
  <2>3. /\ classes' = InitializeSystemClass(Step("initialize", SystemSuperClasses[i][1],
                                                 SystemSuperClasses[i][2]))
        /\ Bind(SystemSuperClasses[i][1], known[SystemSuperClasses[i][1]])
    BY <1>4, <2>1, <2>2
  <2>4. QED
    BY <1>1, <1>4, <2>2, <2>3, Step15Initialize
<1>5. ASSUME boot >= 28, NEW c, loads' = <<c>>, c.pc = "find",
             c.system # None => c.system \in Instances(classes),
             UNCHANGED <<classes, known, globals, singletons, boot, outcome>>
      PROVE  LinkInv'
  <2>1. DOMAIN loads' = {1} /\ loads'[1] = c
    BY <1>5, Single
  <2>2. \A k \in DOMAIN loads' : CallLinked(loads'[k], Instances(classes))
    BY <1>5, <2>1 DEF CallLinked
  <2>3. Referring'
    BY <1>1, <1>5, <2>2 DEF LinkInv, Referring
  <2>4. QED
    BY <1>1, <1>5, <2>3, LaterStep DEF LinksGrow, KnownKept
<1>6. ASSUME NEW CONSTANT i \in 1..13, boot >= 28, step = Step("system", SystemSuperClasses[i][1], "")
      PROVE  LinkInv'
  <2> DEFINE name == SystemSuperClasses[i][1]
  <2>1. step.op = "system" /\ step.name = name
    BY <1>6 DEF Step
  <2>2. /\ loads' = <<Call(name, "system", known[name])>>
        /\ UNCHANGED <<classes, known, globals, singletons, boot, outcome>>
    BY <2>1 DEF Boot
  <2>3. PICK j \in 1..13 : name = AllocationOrder[j]
    BY NamesAllocated
  <2>4. known[AllocationOrder[j]] \in Instances(classes)
    <3>1. boot \in Nat /\ boot >= 28
      BY <1>1, <1>6
    <3>2. j < boot
      BY <3>1
    <3>3. QED
      BY <3>2 DEF LinkInv, KnownOk
  <2>5. known[name] \in Instances(classes)
    BY <2>3, <2>4
  <2> HIDE DEF name
  <2>6. Call(name, "system", known[name]).pc = "find"
        /\ Call(name, "system", known[name]).system = known[name]
    BY NewCall
  <2>7. QED
    BY <1>5, <1>6, <2>2, <2>5, <2>6
<1>7. ASSUME NEW n, boot >= 28, step = Step("class", n, "") PROVE LinkInv'
  <2>1. step.op = "class" /\ step.name = n
    BY <1>7 DEF Step
  <2>2. /\ loads' = <<Call(n, "class", None)>>
        /\ UNCHANGED <<classes, known, globals, singletons, boot, outcome>>
    BY <2>1 DEF Boot
  <2>3. Call(n, "class", None).pc = "find" /\ Call(n, "class", None).system = None
    BY NewCall
  <2>4. QED
    BY <1>5, <1>7, <2>2, <2>3
<1>8. CASE boot = 45 /\ step = Step("globals", "", "")
  <2>1. step.op = "globals"
    BY <1>8 DEF Step
  <2>2. /\ UNCHANGED <<classes, known, loads>> /\ boot' = boot + 1
        /\ globals' = [n \in DOMAIN globals \cup SystemGlobals |->
                       CASE n = "nil" -> nil
                         [] n \in {"System", "Block"} -> known[n]
                         [] n \in {"true", "false", "system"} -> NotAClass
                         [] OTHER -> globals[n]]
    BY <2>1 DEF Boot
  <2>3. DOMAIN globals' = DOMAIN globals \cup SystemGlobals
    BY <2>2
  <2>4. ASSUME NEW n \in DOMAIN globals', globals'[n] > 0
        PROVE  globals'[n] \in Instances(classes)
    <3>1. CASE n = "nil"
      BY <3>1, <2>2, <2>4 DEF nil
    <3>2. CASE n \in {"System", "Block"}
      <4>1. globals'[n] = known[n] /\ known[n] \in Instances(classes) \cup {None}
        BY <3>2, <2>2, <2>3 DEF LinkInv, KnownOk
      <4>2. QED
        BY <4>1, <2>4 DEF None
    <3>3. CASE n \in {"true", "false", "system"}
      <4>1. globals'[n] = NotAClass
        BY <3>3, <2>2, <2>3
      <4>2. QED
        BY <4>1, <2>4 DEF NotAClass
    <3>4. CASE n \notin SystemGlobals
      <4>1. n \in DOMAIN globals /\ globals'[n] = globals[n]
        BY <3>4, <2>2, <2>3 DEF SystemGlobals
      <4>2. QED
        BY <4>1, <2>4 DEF LinkInv, Referring
    <3>5. QED
      BY <3>1, <3>2, <3>3, <3>4 DEF SystemGlobals
  <2>5. boot >= 28 /\ boot' \in Nat /\ boot' >= boot /\ boot' >= 28
    <3>1. boot = 45 /\ boot' = boot + 1
      BY <1>8, <2>2
    <3>2. QED
      BY <3>1
  <2>6. Referring'
    BY <1>1, <2>2, <2>4, <2>5 DEF LinkInv, Referring
  <2>7. DOMAIN globals \subseteq DOMAIN globals'
    BY <2>3
  <2>8. QED
    BY <1>1, <2>2, <2>5, <2>6, <2>7, LaterStep DEF LinksGrow, KnownKept
<1>9. boot \in 15..27 => \E i \in 1..13 : boot = i + 14 /\ boot - 14 = i
  <2> SUFFICES ASSUME boot \in 15..27 PROVE \E i \in 1..13 : boot = i + 14 /\ boot - 14 = i
    OBVIOUS
  <2>1. boot - 14 \in 1..13 /\ boot = (boot - 14) + 14
    OBVIOUS
  <2>2. QED
    BY <2>1
<1>10. CASE boot \in 15..27 /\ step = Step("initialize", SystemSuperClasses[boot - 14][1],
                                           SystemSuperClasses[boot - 14][2])
  <2>1. PICK i \in 1..13 : boot = i + 14 /\ boot - 14 = i
    BY <1>9, <1>10
  <2>2. QED
    BY <1>4, <1>10, <2>1
<1>11. CASE boot \in 28..40 /\ step = Step("system", SystemSuperClasses[boot - 27][1], "")
  <2>1. boot \in 28..40
    BY <1>11
  <2>2. boot - 27 \in 1..13 /\ boot >= 28
    BY <2>1
  <2>3. QED
    BY <1>6, <1>11, <2>2
<1>12. CASE boot \in 41..44 /\ \E n \in {"Block", "True", "False", "System"} : step = Step("class", n, "")
  <2>1. boot \in 41..44
    BY <1>12
  <2>2. boot >= 28
    BY <2>1
  <2>3. PICK n : step = Step("class", n, "")
    BY <1>12
  <2>4. QED
    BY <1>7, <2>2, <2>3
<1>13. QED
  BY <1>1, <1>2, <1>3, <1>8, <1>10, <1>11, <1>12, BootStepIs

LEMMA NextLinks == LinkInv /\ LoadInv /\ [Next]_vars => LinkInv'
<1>1. LinkInv /\ UNCHANGED vars => LinkInv'
  <2> SUFFICES ASSUME LinkInv, UNCHANGED vars PROVE LinkInv'
    OBVIOUS
  <2>1. UNCHANGED <<classes, known, globals, loads, boot, request, outcome>>
    BY SMTT(20) DEF vars
  <2>2. Referring' /\ KnownOk' /\ (Starting' <=> Starting)
    BY <2>1, Zenon DEF LinkInv, KnownOk, Starting, SystemLinked, Referring
  <2>3. QED
    BY <2>1, <2>2 DEF LinkInv
<1>2. QED
  BY <1>1, ArgumentsLinked, BootLinked, OpenFileLinked, LoadSuperClassLinked, AssembleLinked,
     ReturnLinked, ProgramLinked DEF Next

LEMMA HierarchyIsParallel == LinkInv /\ LoadInv => ParallelHierarchies
<1> SUFFICES ASSUME LinkInv, LoadInv, Initialized, NEW c \in ClassNumbers, classes[c].side = "instance"
             PROVE  classes[classes[c].class].super =
                        IF HasSuperClass(classes, c) THEN classes[classes[c].super].class
                                                     ELSE known["Class"]
  BY DEF ParallelHierarchies
<1>1. boot \in Nat /\ boot > Len(AllocationOrder) + 1 + Len(SystemSuperClasses)
  BY DEF Initialized, LoadInv, BindingsInv
<1>2. boot >= 28
  BY <1>1, Orders
<1>3. Hierarchy(classes, DOMAIN globals, known["Class"])
  BY <1>2 DEF LinkInv
<1>4. c \in Instances(classes)
  BY DEF Instances, ClassNumbers
<1>5. Linked(classes, DOMAIN globals, known["Class"], c)
  BY <1>3, <1>4 DEF Hierarchy
<1>6. QED
  BY <1>5 DEF Linked, HasSuperClass

\* Once the classes of the system are initialized, and however many classes are loaded from
\* whatever files after that, the class of a class continues the class of its superclass, and
\* the class of the root continues Class (src/vm/Universe.cpp:316-464,
\* src/compiler/ClassGenerationContext.cpp:76-116).
THEOREM HierarchiesAlwaysParallel == Spec => []ParallelHierarchies
<1>1. Init => LinkInv /\ LoadInv
  BY InitLinks, InitLoads
<1>2. LinkInv /\ LoadInv /\ [Next]_vars => (LinkInv /\ LoadInv)'
  BY NextLinks, NextLoads DEF LoadStep, LoadInv
<1>3. LinkInv /\ LoadInv => ParallelHierarchies
  BY HierarchyIsParallel
<1>4. QED
  BY <1>1, <1>2, <1>3, PTL DEF Spec

--------------------
(* Until the classes of the system are initialized. *)

Base == LinkInv /\ LoadInv
SystemName(i) == SystemSuperClasses[i][1]
Blank(cs, c) ==
  /\ cs[c].fields = << >> /\ cs[c].invokables = << >> /\ cs[c].room = 5
  /\ cs[c].class \in 0..26 /\ cs[c].super \in 0..26
  /\ cs[c].side = "class" => cs[c].class = 2

StartInv ==
  /\ Starting
  /\ \A c \in DOMAIN classes : Blank(classes, c)
  /\ boot <= 14 => \A c \in DOMAIN classes : classes[c].super = None
  /\ \A i \in 1..13 : i >= boot => known[AllocationOrder[i]] = None
  /\ known["Block"] = None /\ known["System"] = None
  /\ \A i \in 1..13 : i + 14 < boot => globals[SystemName(i)] = known[SystemName(i)]
  /\ \A n \in DOMAIN globals : globals[n] \in DOMAIN classes \cup {NotAClass}
  /\ boot <= 14 => singletons = << >>
  /\ boot > 14 => singletons = [n \in {"nil"} |-> [class |-> known["Nil"], room |-> 1]]
  /\ loads = << >> /\ request.op = "none"
  /\ outcome \in {"starting", "usage", "booting"}

LEMMA InitStart == Init => StartInv
<1> SUFFICES ASSUME Init PROVE StartInv
  OBVIOUS
<1>1. /\ classes = << >> /\ globals = << >> /\ loads = << >> /\ boot = 1 /\ request = NoRequest
      /\ known = [n \in KnownNames |-> None] /\ outcome = "starting" /\ singletons = << >>
  BY DEF Init, KnownNames
<1>2. Starting
  BY <1>1, NoneYet DEF Starting
<1>3. \A i \in 1..13 : AllocationOrder[i] \in KnownNames
  BY AllocationNames
<1>4. "Block" \in KnownNames /\ "System" \in KnownNames
  BY DEF KnownNames
<1>5. /\ \A i \in 1..13 : known[AllocationOrder[i]] = None /\ ~(i + 14 < boot)
      /\ known["Block"] = None /\ known["System"] = None
  BY <1>1, <1>3, <1>4
<1>6. DOMAIN classes = {} /\ DOMAIN globals = {} /\ boot <= 14 /\ ~(boot > 14) /\ request.op = "none"
  <2>1. DOMAIN classes = {} /\ DOMAIN globals = {}
    BY <1>1, NoneYet
  <2>2. request.op = "none"
    BY <1>1 DEF NoRequest
  <2>3. QED BY <1>1, <2>1, <2>2
<1>7. QED BY <1>1, <1>2, <1>5, <1>6 DEF StartInv

\* A class and its metaclass are allocated.
LEMMA StartAllocates ==
  ASSUME Base, StartInv, outcome = "booting", boot \in 1..13,
         classes' = Allocated(AllocationOrder[boot]),
         known' = [known EXCEPT ![AllocationOrder[boot]] = Len(classes')],
         boot' = boot + 1, UNCHANGED <<globals, loads, request, outcome, singletons>>
  PROVE  StartInv'
<1> DEFINE name == AllocationOrder[boot]
           n == 2 * boot - 2
           mc == IF name = "Metaclass" THEN n + 1 + 1 ELSE known["Metaclass"]
           meta == [NewClassObject(mc, VMClassNumberOfFields) EXCEPT !.side = "class"]
           cls == [NewClassObject(n + 1, VMClassNumberOfFields) EXCEPT !.side = "instance"]
<1>1. /\ LinkInv /\ BindingsInv /\ ClassObjects(classes) /\ KnownOk /\ Starting /\ loads = << >>
      /\ n \in Nat /\ Len(classes) = n /\ boot' \in 2..14 /\ n + 2 <= 26 /\ boot \in Nat
  <2>1. boot <= 14 /\ boot < 28 /\ boot \in Nat /\ n \in Nat /\ boot' \in 2..14 /\ n + 2 <= 26
    OBVIOUS
  <2>2. /\ LinkInv /\ BindingsInv /\ ClassObjects(classes) /\ KnownOk /\ Starting /\ loads = << >>
    BY DEF Base, LoadInv, LinkInv, StartInv
  <2>3. Len(classes) = n
    BY <2>1, <2>2 DEF Starting
  <2>4. QED BY <2>1, <2>2, <2>3
<1>2. LinkInv'
  BY <1>1, Step1Allocate
<1>3. Starting'
  BY <1>1, <1>2 DEF LinkInv
<1>4. classes' = classes \o <<meta, cls>>
  BY <1>1 DEF Allocated
<1>5. mc = 2
  <2>1. CASE boot = 1
    <3>1. AllocationOrder[1] = "Metaclass"
      BY DEF AllocationOrder
    <3>2. QED BY <2>1, <3>1
  <2>2. CASE boot > 1
    <3>1. AllocationOrder[1] = "Metaclass"
      BY DEF AllocationOrder
    <3>2. name # AllocationOrder[1]
      BY <2>2, AllocationNames
    <3>3. known[AllocationOrder[1]] = 2
      BY <1>1, <2>2 DEF KnownOk
    <3>4. QED BY <3>1, <3>2, <3>3
  <2>3. QED BY <2>1, <2>2
<1>5a. meta.super = None /\ cls.super = None
  BY DEF NewClassObject
<1>6. Blank(<<meta>>, 1) /\ Blank(<<cls>>, 1)
  <2>1. /\ meta.fields = << >> /\ meta.invokables = << >> /\ meta.room = 5 /\ meta.class = 2
        /\ meta.super = 0
    BY <1>5 DEF NewClassObject, VMClassNumberOfFields, VMObjectNumberOfFields, None
  <2>2. /\ cls.fields = << >> /\ cls.invokables = << >> /\ cls.room = 5 /\ cls.class = n + 1
        /\ cls.super = 0 /\ cls.side = "instance"
    BY DEF NewClassObject, VMClassNumberOfFields, VMObjectNumberOfFields, None
  <2>3. n + 1 \in 0..26
    BY <1>1
  <2> HIDE DEF meta, cls, n
  <2>4. <<meta>>[1] = meta /\ <<cls>>[1] = cls
    OBVIOUS
  <2>5. QED BY <2>1, <2>2, <2>3, <2>4 DEF Blank
<1> HIDE DEF meta, cls, n, mc
<1>7. /\ Len(classes') = n + 2 /\ DOMAIN classes' = 1..(n + 2) /\ DOMAIN classes = 1..n
      /\ classes'[n + 1] = meta /\ classes'[n + 2] = cls
      /\ \A c \in 1..n : classes'[c] = classes[c]
  BY <1>1, <1>4, PairAppended DEF ClassObjects
<1>8. \A c \in DOMAIN classes' : c \in DOMAIN classes \/ c = n + 1 \/ c = n + 2
  BY <1>1, <1>7
<1>9. \A c \in DOMAIN classes' : Blank(classes', c)
  <2>1. \A c \in DOMAIN classes : Blank(classes', c)
    <3>1. SUFFICES ASSUME NEW c \in DOMAIN classes PROVE Blank(classes', c)
      OBVIOUS
    <3>2. classes'[c] = classes[c] /\ Blank(classes, c)
      BY <1>7 DEF StartInv
    <3>3. QED BY <3>2 DEF Blank
  <2>2. <<meta>>[1] = meta /\ <<cls>>[1] = cls
    OBVIOUS
  <2>3. QED BY <1>6, <1>7, <1>8, <2>1, <2>2 DEF Blank
<1>9a. \A c \in DOMAIN classes' : classes'[c].super = None
  <2>1. \A c \in DOMAIN classes : classes[c].super = None
    BY <1>1 DEF StartInv
  <2>2. QED BY <1>5a, <1>7, <1>8, <2>1
<1>10. name \in KnownNames \ {"Block", "System"}
  BY AllocationNames
<1>11. \A k \in KnownNames : k # name => known'[k] = known[k]
  BY <1>1, <1>10 DEF KnownOk
<1>12. \A i \in 1..13 : i >= boot' => known'[AllocationOrder[i]] = None
  <2> SUFFICES ASSUME NEW i \in 1..13, i >= boot' PROVE known'[AllocationOrder[i]] = None
    OBVIOUS
  <2>1. i # boot /\ i >= boot
    OBVIOUS
  <2>2. AllocationOrder[i] \in KnownNames /\ AllocationOrder[i] # name
    BY <2>1, AllocationNames
  <2>3. QED BY <2>1, <2>2, <1>11 DEF StartInv
<1>13. known'["Block"] = None /\ known'["System"] = None
  BY <1>10, <1>11 DEF StartInv, KnownNames
<1>14. \A i \in 1..13 : ~(i + 14 < boot')
  OBVIOUS
<1>15. \A k \in DOMAIN globals : globals[k] \in DOMAIN classes' \cup {NotAClass}
  <2>1. DOMAIN classes \subseteq DOMAIN classes'
    BY <1>1, <1>7
  <2>2. QED BY <2>1 DEF StartInv
<1>16. boot' <= 14 /\ ~(boot' > 14) /\ boot <= 14
  BY <1>1
<1>17. QED BY <1>3, <1>9, <1>9a, <1>12, <1>13, <1>14, <1>15, <1>16 DEF StartInv

LEMMA StartNil ==
  ASSUME Base, StartInv, outcome = "booting", boot = 14,
         singletons' = [n \in {"nil"} |-> [class |-> known["Nil"], room |-> VMObjectNumberOfFields]],
         Bind("integerProxy", NotAClass), boot' = boot + 1,
         UNCHANGED <<classes, known, loads, request, outcome>>
  PROVE  StartInv'
<1>1. /\ Starting /\ boot' = 15 /\ loads = << >>
  BY DEF StartInv
<1>2. Starting'
  <2>1. \A c \in DOMAIN classes : \E i \in 1..13 : i < boot' /\ (c = 2 * i \/ c = 2 * i - 1)
    <3> SUFFICES ASSUME NEW c \in DOMAIN classes
                 PROVE  \E i \in 1..13 : i < boot' /\ (c = 2 * i \/ c = 2 * i - 1)
      OBVIOUS
    <3>1. PICK i \in 1..13 : c = 2 * i \/ c = 2 * i - 1
      BY <1>1 DEF Starting
    <3>2. QED
      <4>1. i < boot'
        BY <1>1
      <4>2. QED BY <3>1, <4>1, Zenon
  <2>2. \A i \in 1..13 : i < boot /\ ~(i + 14 < boot')
    BY <1>1
  <2>3. ~(boot' <= 14)
    BY <1>1
  <2>4. QED BY <1>1, <2>1, <2>2, <2>3 DEF Starting
<1>3. \A k \in DOMAIN globals' : globals'[k] \in DOMAIN classes' \cup {NotAClass}
  BY DEF Bind, StartInv
<1>4. \A i \in 1..13 : ~(i + 14 < boot') /\ ~(i >= boot')
  BY <1>1
<1>5. \A c \in DOMAIN classes : Blank(classes, c)
  BY DEF StartInv
<1>6. singletons' = [n \in {"nil"} |-> [class |-> known'["Nil"], room |-> 1]] /\ ~(boot' <= 14)
  BY <1>1 DEF VMObjectNumberOfFields
<1>7. /\ known["Block"] = None /\ known["System"] = None /\ loads = << >> /\ request.op = "none"
  BY DEF StartInv
<1>8. QED BY <1>2, <1>3, <1>4, <1>5, <1>6, <1>7 DEF StartInv, Blank

LEMMA StartInitializes ==
  ASSUME Base, StartInv, outcome = "booting",
         NEW CONSTANT i \in 1..13, boot = i + 14,
         classes' = InitializeSystemClass(Step("initialize", SystemSuperClasses[i][1],
                                                             SystemSuperClasses[i][2])),
         Bind(SystemSuperClasses[i][1], known[SystemSuperClasses[i][1]]),
         boot' = boot + 1, UNCHANGED <<known, loads, request, outcome, singletons>>
  PROVE  StartInv'
<1> DEFINE name == SystemSuperClasses[i][1]
           sup == SystemSuperClasses[i][2]
           c == known[name]
           m == classes[c].class
           s == IF sup # "" THEN known[sup] ELSE None
           ms == IF sup # "" THEN classes[s].class ELSE known["Class"]
           ds == PairInitialized(classes, c, m, s, name, ms)
<1>1. /\ LinkInv /\ BindingsInv /\ ClassObjects(classes) /\ KnownOk /\ Starting /\ loads = << >>
      /\ boot' = i + 15 /\ boot > 14 /\ boot \in Nat
  <2>1. boot' = i + 15 /\ boot > 14 /\ boot \in Nat /\ boot < 28
    OBVIOUS
  <2>2. QED BY <2>1 DEF Base, LoadInv, LinkInv, StartInv
<1>2. LinkInv' /\ Starting'
  BY <1>1, Step15Initialize
<1>3. classes' = ds
  BY Zenon DEF InitializeSystemClass, Step, PairInitialized
<1> HIDE DEF s, ms, c, m, ds
<1>4. \A k \in 1..13 : k < boot
  BY <1>1
<1>5. ASSUME NEW x, \E k \in 1..13 : AllocationOrder[k] = x
      PROVE  \E j \in 1..13 : /\ x = AllocationOrder[j] /\ known[x] = 2 * j
                               /\ 2 * j \in Instances(classes) /\ classes[2 * j].class = 2 * j - 1
                               /\ 2 * j - 1 \in DOMAIN classes
  <2>1. PICK j \in 1..13 : x = AllocationOrder[j]
    BY <1>5
  <2>2. j < boot
    BY <1>4
  <2>3. QED BY <2>1, <2>2, <1>1 DEF KnownOk, Starting
<1>6. \E k \in 1..13 : AllocationOrder[k] = name
  BY NamesAllocated, Zenon
<1>7. PICK j \in 1..13 : name = AllocationOrder[j] /\ known[name] = 2 * j
         /\ 2 * j \in Instances(classes) /\ classes[2 * j].class = 2 * j - 1 /\ 2 * j - 1 \in DOMAIN classes
  BY <1>5, <1>6
<1>8. c = 2 * j /\ m = 2 * j - 1 /\ c \in DOMAIN classes /\ m \in DOMAIN classes /\ c # m
  BY <1>7 DEF c, m, Instances
<1>9. s \in 0..26 /\ ms \in 0..26
  <2>1. CASE sup = ""
    <3>1. AllocationOrder[4] = "Class" /\ 4 \in 1..13
      BY DEF AllocationOrder
    <3>2. PICK l \in 1..13 : known["Class"] = 2 * l
      BY <3>1, <1>5
    <3>3. QED
      <4>1. s = 0 /\ ms = 2 * l
        BY <2>1, <3>2 DEF s, ms, None
      <4>2. QED BY <4>1
  <2>2. CASE sup # ""
    <3>0. \E k \in 1..13 : AllocationOrder[k] = sup
      BY <2>2, NamesAllocated, Zenon
    <3>1. PICK l \in 1..13 : known[sup] = 2 * l /\ classes[2 * l].class = 2 * l - 1
      BY <3>0, <1>5
    <3>2. s = 2 * l /\ ms = 2 * l - 1
      BY <2>2, <3>1 DEF s, ms
    <3>3. QED BY <3>2
  <2>3. QED BY <2>1, <2>2
<1>10. /\ DOMAIN ds = DOMAIN classes
       /\ \A d \in DOMAIN classes : ds[d].side = classes[d].side /\ ds[d].class = classes[d].class
       /\ \A d \in DOMAIN classes : d # c /\ d # m => ds[d] = classes[d]
       /\ ds[c].super = s /\ ds[m].super = ms
       /\ \A d \in {c, m} : ds[d].fields = << >> /\ ds[d].invokables = << >> /\ ds[d].room = classes[d].room
  <2> HIDE DEF name
  <2>1. QED BY <1>1, <1>8, ClassInitialized DEF ds
<1>11. \A d \in DOMAIN classes' : Blank(classes', d)
  <2> SUFFICES ASSUME NEW d \in DOMAIN classes PROVE Blank(ds, d)
    BY <1>3, <1>10
  <2>1. Blank(classes, d)
    BY DEF StartInv
  <2>2. CASE d # c /\ d # m
    BY <2>1, <2>2, <1>10 DEF Blank
  <2>3. CASE d = c
    BY <2>1, <2>3, <1>9, <1>10 DEF Blank
  <2>4. CASE d = m
    BY <2>1, <2>4, <1>9, <1>10 DEF Blank
  <2>5. QED BY <2>2, <2>3, <2>4
<1>12. /\ DOMAIN globals' = DOMAIN globals \cup {name} /\ globals'[name] = c
       /\ \A n \in DOMAIN globals : n # name => globals'[n] = globals[n]
  BY DEF Bind, c
<1>13. \A n \in DOMAIN globals' : globals'[n] \in DOMAIN classes' \cup {NotAClass}
  BY <1>3, <1>8, <1>10, <1>12 DEF StartInv
<1>14. ASSUME NEW k \in 1..13, k + 14 < boot' PROVE globals'[SystemName(k)] = known'[SystemName(k)]
  <2>1. CASE k = i
    BY <2>1, <1>12 DEF SystemName, c
  <2>2. CASE k # i
    <3>1. k + 14 < boot
      <4>1. k # i /\ k + 14 < i + 15
        BY <2>2, <1>14, <1>1
      <4>2. QED BY <4>1
    <3>2. SystemLinked(k) /\ globals[SystemName(k)] = known[SystemName(k)]
      BY <3>1, <1>1 DEF Starting, StartInv
    <3>3. SystemName(k) \in DOMAIN globals
      BY <3>2 DEF SystemLinked, SystemName
    <3>4. SystemName(k) # name
      BY <2>2, SystemNames DEF SystemName
    <3>5. QED BY <3>2, <3>3, <3>4, <1>12
  <2>3. QED BY <2>1, <2>2
<1>15. \A k \in 1..13 : ~(k >= boot')
  BY <1>1
<1>16. singletons = [n \in {"nil"} |-> [class |-> known["Nil"], room |-> 1]] /\ ~(boot' <= 14)
  BY <1>1 DEF StartInv
<1>17. known["Block"] = None /\ known["System"] = None /\ loads = << >> /\ request.op = "none"
  BY DEF StartInv
<1>18. QED BY <1>2, <1>11, <1>13, <1>14, <1>15, <1>16, <1>17 DEF StartInv

LEMMA StartBoots ==
  ASSUME Base, StartInv, Boot, boot < 28
  PROVE  StartInv'
<1>1. /\ outcome = "booting" /\ loads = << >> /\ boot \in Nat \ {0} /\ boot <= Len(BootSteps)
      /\ UNCHANGED request
  BY DEF Boot, Base, LoadInv, BindingsInv
<1>2. CASE boot \in 1..13 /\ step = Step("allocate", AllocationOrder[boot], "")
  <2>1. step.op = "allocate" /\ step.name = AllocationOrder[boot]
    BY <1>2 DEF Step
  <2>2. /\ classes' = Allocated(AllocationOrder[boot])
        /\ known' = [known EXCEPT ![AllocationOrder[boot]] = Len(classes')]
        /\ boot' = boot + 1 /\ UNCHANGED <<globals, loads, outcome, singletons>>
    BY <2>1 DEF Boot
  <2>3. QED BY <1>1, <1>2, <2>2, StartAllocates
<1>3. CASE boot = 14 /\ step = Step("nil", "Nil", "")
  <2>1. step.op = "nil" /\ step.name = "Nil"
    BY <1>3 DEF Step
  <2>2. /\ Bind("integerProxy", NotAClass)
        /\ singletons' = [n \in {"nil"} |-> [class |-> known["Nil"], room |-> VMObjectNumberOfFields]]
        /\ boot' = boot + 1 /\ UNCHANGED <<classes, known, loads, outcome>>
    BY <2>1 DEF Boot
  <2>3. QED BY <1>1, <1>3, <2>2, StartNil
<1>4. ASSUME NEW CONSTANT i \in 1..13, boot = i + 14,
             step = Step("initialize", SystemSuperClasses[i][1], SystemSuperClasses[i][2])
      PROVE  StartInv'
  <2>1. step.op = "initialize" /\ step.name = SystemSuperClasses[i][1]
    BY <1>4 DEF Step
  <2>2. /\ classes' = InitializeSystemClass(step) /\ Bind(step.name, known[step.name])
        /\ boot' = boot + 1 /\ UNCHANGED <<known, loads, outcome, singletons>>
    BY <2>1 DEF Boot
  <2>3. /\ classes' = InitializeSystemClass(Step("initialize", SystemSuperClasses[i][1],
                                                 SystemSuperClasses[i][2]))
        /\ Bind(SystemSuperClasses[i][1], known[SystemSuperClasses[i][1]])
    BY <1>4, <2>1, <2>2
  <2>4. QED BY <1>1, <1>4, <2>2, <2>3, StartInitializes
<1>5. CASE boot \in 15..27 /\ step = Step("initialize", SystemSuperClasses[boot - 14][1],
                                           SystemSuperClasses[boot - 14][2])
  <2>1. boot \in 15..27
    BY <1>5
  <2>2. \E i \in 1..13 : boot = i + 14 /\ boot - 14 = i
    <3>1. boot - 14 \in 1..13 /\ boot = (boot - 14) + 14
      BY <2>1
    <3>2. QED BY <3>1
  <2>3. PICK i \in 1..13 : boot = i + 14 /\ boot - 14 = i
    BY <2>2
  <2>4. QED BY <1>4, <1>5, <2>3
<1>6. boot \notin 28..40 /\ boot \notin 41..44 /\ boot # 45
  BY <1>1
<1>7. QED BY <1>1, <1>2, <1>3, <1>5, <1>6, BootStepIs

LEMMA StartStep == Base /\ StartInv /\ [Next]_vars /\ boot < 28 => StartInv'
<1> SUFFICES ASSUME Base, StartInv, [Next]_vars, boot < 28 PROVE StartInv'
  OBVIOUS
<1>1. loads = << >> /\ outcome \in {"starting", "usage", "booting"}
  BY SMTT(20) DEF StartInv
<1>2. CASE /\ UNCHANGED <<boot, known, classes, globals, singletons, loads, request>>
           /\ outcome' \in {"starting", "usage", "booting"}
  BY <1>2, Zenon DEF StartInv, Starting, SystemLinked, Blank
<1>3. CASE HandleArgument \/ ArgumentsHandled \/ UNCHANGED vars
  <2>1. /\ UNCHANGED <<boot, known, classes, globals, singletons, loads, request>>
        /\ outcome' \in {"starting", "usage", "booting"}
    BY <1>1, <1>3 DEF HandleArgument, ArgumentsHandled, vars
  <2>2. QED BY <1>2, <2>1
<1>4. CASE Boot
  BY <1>4, StartBoots
<1>5. ~(\/ OpenFile \/ NotFound \/ LoadSuperClass \/ Assemble \/ Return
         \/ Ask \/ GetBlockClassWithArgs \/ Load \/ Loaded
         \/ BlocksForResolve \/ Look \/ PutGlobals
         \/ ReadLine)
  BY <1>1 DEF OpenFile, NotFound, LoadSuperClass, Assemble, Return, Ask, GetBlockClassWithArgs, Load,
     Loaded, BlocksForResolve, Look, PutGlobals, ReadLine, Idle, Running
<1>6. QED BY <1>3, <1>4, <1>5 DEF Next

LEMMA BaseStep == Base /\ [Next]_vars => Base' /\ Kept
BY NextLinks, NextLoads DEF Base, LoadStep, LoadInv

LEMMA InitBase == Init => Base
BY InitLinks, InitLoads DEF Base

--------------------
(* Words. *)

\* Induction over numbers: a set that holds 0 and with each number the next.
LEMMA Induction ==
  ASSUME NEW S, 0 \in S, \A n \in Nat : n \in S => n + 1 \in S
  PROVE  Nat \subseteq S
<1>1. SUFFICES ASSUME Nat \ S # {} PROVE FALSE
  OBVIOUS
<1> DEFINE below(x) == {y \in Nat \ S : y <= x}
           T == {below(x) : x \in Nat \ S}
           R == StrictSubsetOrdering(Nat)
           F == FiniteSubsetsOf(Nat)
<1>2. ASSUME NEW x \in Nat PROVE below(x) \in SUBSET Nat /\ IsFiniteSet(below(x))
  <2>1. below(x) \in SUBSET Nat /\ x \in Nat /\ \A s \in below(x) : s <= x
    OBVIOUS
  <2> HIDE DEF below
  <2>2. QED BY <2>1, FS_BoundedSetOfNaturals
<1>3. T \subseteq F /\ T # {}
  BY <1>1, <1>2 DEF FiniteSubsetsOf
<1>4. \E m \in T : \A t \in T : ~(<<t, m>> \in R)
  <2>1. IsWellFoundedOn(R, F)
    BY FS_StrictSubsetOrderingWellFounded
  <2> HIDE DEF T, R, F
  <2>2. QED BY <1>3, <2>1, WFMin
<1>5. PICK x \in Nat \ S : \A y \in Nat \ S : ~(<<below(y), below(x)>> \in R)
  BY <1>4
<1>6. x # 0 /\ x - 1 \in Nat /\ (x - 1) + 1 = x
  BY <1>5
<1>7. x - 1 \in Nat \ S
  BY <1>5, <1>6
<1>8. below(x - 1) \subseteq below(x) /\ x \in below(x) /\ x \notin below(x - 1)
  BY <1>5, <1>6
<1>9. <<below(x - 1), below(x)>> \in R
  BY <1>8 DEF StrictSubsetOrdering
<1>10. QED BY <1>5, <1>7, <1>9

\* The least and the greatest of some numbers.
LEMMA LeastIs ==
  ASSUME NEW S, S \subseteq Nat, S # {}
  PROVE  Min(S) \in S /\ \A x \in S : Min(S) <= x
<1> DEFINE I == {k \in Nat : \A x \in S : x <= k => \E m \in S : \A y \in S : m <= y}
<1>1. 0 \in I
  <2>1. ASSUME NEW x \in S, x <= 0 PROVE \A y \in S : x <= y
    BY <2>1
  <2>2. QED BY <2>1
<1>2. ASSUME NEW k \in Nat, k \in I PROVE k + 1 \in I
  <2>1. ASSUME NEW x \in S, x <= k + 1 PROVE \E m \in S : \A y \in S : m <= y
    <3>1. CASE \A y \in S : x <= y
      BY <3>1
    <3>2. CASE \E y \in S : ~(x <= y)
      <4>1. PICK y \in S : ~(x <= y)
        BY <3>2
      <4>2. y <= k
        BY <4>1, <2>1
      <4>3. QED BY <4>2, <1>2
    <3>3. QED BY <3>1, <3>2
  <2>2. QED BY <2>1
<1> HIDE DEF I
<1>3. Nat \subseteq I
  BY <1>1, <1>2, Induction
<1>4. PICK x \in S : TRUE
  OBVIOUS
<1>5. x \in Nat /\ x <= x
  OBVIOUS
<1>6. \E m \in S : \A y \in S : m <= y
  BY <1>3, <1>5 DEF I
<1>7. QED BY <1>6 DEF Min

LEMMA GreatestIs ==
  ASSUME NEW S, S \subseteq Nat, S # {}, NEW n \in Nat, \A x \in S : x <= n
  PROVE  Max(S) \in S /\ \A x \in S : x <= Max(S)
<1> DEFINE T == {n - x : x \in S}
<1>1. T \subseteq Nat /\ T # {}
  <2>1. ASSUME NEW x \in S PROVE n - x \in Nat
    <3>1. x \in Nat /\ x <= n
      OBVIOUS
    <3>2. QED BY <3>1
  <2>2. QED BY <2>1
<1>2. Min(T) \in T /\ \A y \in T : Min(T) <= y
  BY <1>1, LeastIs
<1>3. PICK m \in S : Min(T) = n - m
  BY <1>2
<1>4. \A x \in S : x <= m
  <2> SUFFICES ASSUME NEW x \in S PROVE x <= m
    OBVIOUS
  <2>1. n - x \in T
    OBVIOUS
  <2>2. n - m <= n - x /\ m \in Nat /\ x \in Nat
    BY <2>1, <1>2, <1>3
  <2>3. QED BY <2>2
<1>5. \E k \in S : \A x \in S : k >= x
  BY <1>4
<1>6. Max(S) \in S /\ \A x \in S : Max(S) >= x
  BY <1>5 DEF Max
<1>7. QED BY <1>6

WordsInv ==
  /\ world \in Worlds
  /\ command \in [next : Nat \ {0}, classPath : Seq(Seq(Symbols)), vmArgs : Seq(Seq(Symbols))]

LEMMA PartOf ==
  ASSUME NEW S, NEW s \in Seq(S), NEW m \in Nat \ {0}, NEW n \in 0..Len(s)
  PROVE  SubSeq(s, m, n) \in Seq(S)
<1>1. \A i \in m..n : s[i] \in S
  OBVIOUS
<1>2. QED BY <1>1, SubSeqProperties

\* The words between colons are words.
LEMMA SplitWords ==
  ASSUME NEW text \in Seq(Symbols)
  PROVE  Split(text) \in Seq(Seq(Symbols))
<1> DEFINE W == Seq(Symbols)
           N == Len(text)
           end(i) == Min({Len(text) + 1} \cup {j \in Positions(text, ":") : j >= i})
           Body(f, i) == IF i > N THEN << >> ELSE <<SubSeq(text, i, end(i) - 1)>> \o f[end(i) + 1]
           From(f) == f = [i \in 1 .. Len(text) + 2 |->
             IF i > Len(text) THEN << >> ELSE <<SubSeq(text, i, end(i) - 1)>> \o f[end(i) + 1]]
           I == {k \in Nat : k <= N + 1 =>
                   \E f \in [(N + 2 - k)..(N + 2) -> Seq(W)] :
                      \A i \in (N + 2 - k)..(N + 2) : f[i] = Body(f, i)}
<1>1. N \in Nat /\ DOMAIN text = 1..N
  OBVIOUS
<1>2. ASSUME NEW i \in 1..N PROVE end(i) \in i..(N + 1)
  <2> DEFINE E == {N + 1} \cup {j \in Positions(text, ":") : j >= i}
  <2>1. E \subseteq i..(N + 1) /\ E # {} /\ E \subseteq Nat
    BY <1>1, <1>2 DEF Positions
  <2> HIDE DEF E
  <2>2. Min(E) \in E
    BY <2>1, LeastIs
  <2>3. QED BY <2>1, <2>2 DEF E
<1> HIDE DEF end
<1>3. ASSUME NEW i \in 1..N PROVE <<SubSeq(text, i, end(i) - 1)>> \in Seq(W)
  <2>1. end(i) - 1 \in 0..N /\ i \in Nat \ {0}
    BY <1>1, <1>2
  <2>2. SubSeq(text, i, end(i) - 1) \in W
    BY <2>1, PartOf
  <2>3. QED BY <2>2
<1> HIDE DEF W
<1>4. 0 \in I
  <2> DEFINE f == [i \in (N + 2)..(N + 2) |-> << >>]
  <2>1. f \in [(N + 2 - 0)..(N + 2) -> Seq(W)]
    BY <1>1
  <2>2. \A i \in (N + 2 - 0)..(N + 2) : f[i] = Body(f, i)
    BY <1>1
  <2>3. QED BY <2>1, <2>2
<1>5. ASSUME NEW k \in Nat, k \in I PROVE k + 1 \in I
  <2> SUFFICES ASSUME k + 1 <= N + 1
               PROVE  \E f \in [(N + 2 - (k + 1))..(N + 2) -> Seq(W)] :
                         \A i \in (N + 2 - (k + 1))..(N + 2) : f[i] = Body(f, i)
    OBVIOUS
  <2> DEFINE p == N + 2 - k
             q == N + 2 - (k + 1)
  <2>1. p \in Nat /\ q \in Nat /\ q = p - 1 /\ q >= 1 /\ k <= N + 1 /\ p <= N + 2 /\ q \in 1..(N + 1)
    BY <1>1
  <2>2. PICK f \in [p..(N + 2) -> Seq(W)] : \A i \in p..(N + 2) : f[i] = Body(f, i)
    BY <1>5, <2>1
  <2> DEFINE v == IF q > N THEN << >> ELSE <<SubSeq(text, q, end(q) - 1)>> \o f[end(q) + 1]
             g == [i \in q..(N + 2) |-> IF i = q THEN v ELSE f[i]]
  <2>3. v \in Seq(W)
    <3>1. CASE q > N
      BY <3>1
    <3>2. CASE ~(q > N)
      <4>1. q \in 1..N
        BY <3>2, <2>1, <1>1
      <4>2. end(q) + 1 \in p..(N + 2)
        <5>1. end(q) \in q..(N + 1)
          BY <4>1, <1>2
        <5>2. QED BY <5>1, <2>1, <1>1
      <4>3. f[end(q) + 1] \in Seq(W) /\ <<SubSeq(text, q, end(q) - 1)>> \in Seq(W)
        BY <4>1, <4>2, <2>2, <1>3
      <4>4. <<SubSeq(text, q, end(q) - 1)>> \o f[end(q) + 1] \in Seq(W)
        BY <4>3, ConcatProperties
      <4>5. QED BY <3>2, <4>4
    <3>3. QED BY <3>1, <3>2
  <2>4. \A i \in q..(N + 2) : i = q \/ i \in p..(N + 2)
    BY <2>1, <1>1
  <2>4a. \A i \in p..(N + 2) : i \in q..(N + 2) /\ i # q
    BY <2>1, <1>1
  <2> HIDE DEF v, p, q
  <2>5. g \in [q..(N + 2) -> Seq(W)] /\ \A i \in p..(N + 2) : g[i] = f[i]
    BY <2>2, <2>3, <2>4, <2>4a
  <2>6. ASSUME NEW i \in q..(N + 2) PROVE g[i] = Body(g, i)
    <3>1. CASE i > N
      <4>1. CASE i = q
        BY <3>1, <4>1 DEF v
      <4>2. CASE i # q
        BY <3>1, <4>2, <2>2, <2>4, <2>5
      <4>3. QED BY <4>1, <4>2
    <3>2. CASE ~(i > N)
      <4>1. i \in 1..N
        BY <3>2, <2>1, <1>1
      <4>2. end(i) + 1 \in p..(N + 2)
        <5>1. end(i) \in i..(N + 1) /\ i >= q
          BY <4>1, <1>2
        <5>2. QED BY <5>1, <2>1, <1>1
      <4>3. g[end(i) + 1] = f[end(i) + 1]
        BY <4>2, <2>5
      <4>4. CASE i = q
        BY <3>2, <4>3, <4>4 DEF v
      <4>5. CASE i # q
        BY <3>2, <4>3, <4>5, <2>2, <2>4, <2>5
      <4>6. QED BY <4>4, <4>5
    <3>3. QED BY <3>1, <3>2
  <2> HIDE DEF g, Body
  <2>7. QED BY <2>5, <2>6 DEF q
<1>6. \E f \in [1..(N + 2) -> Seq(W)] : \A i \in 1..(N + 2) : f[i] = Body(f, i)
  <2> HIDE DEF I
  <2>1. N + 1 \in I
    BY <1>1, <1>4, <1>5, Induction
  <2>2. N + 2 - (N + 1) = 1 /\ N + 1 <= N + 1
    BY <1>1
  <2>3. QED BY <2>1, <2>2 DEF I
<1>7. PICK g \in [1..(N + 2) -> Seq(W)] : \A i \in 1..(N + 2) : g[i] = Body(g, i)
  BY <1>6
<1>8. From(g)
  BY <1>7
<1> DEFINE h == CHOOSE f : From(f)
<1>10. Split(text) = h[1]
  BY DEF Split, end
<1>9. From(h)
  <2> HIDE DEF From
  <2>1. QED BY <1>8, Zenon
<1> HIDE DEF h
<1>11. \A i \in 1..(N + 2) : h[i] = Body(h, i)
  BY <1>9
<1> DEFINE J == {k \in Nat : k <= N + 1 => \A i \in (N + 2 - k)..(N + 2) : h[i] \in Seq(W)}
<1> HIDE DEF From
<1>12. 0 \in J
  <2>1. N + 2 \in 1..(N + 2) /\ N + 2 > N
    BY <1>1
  <2>2. h[N + 2] = << >>
    BY <1>11, <2>1
  <2>3. \A i \in (N + 2 - 0)..(N + 2) : i = N + 2
    BY <1>1
  <2>4. << >> \in Seq(W)
    OBVIOUS
  <2>5. QED BY <2>2, <2>3, <2>4
<1>13. ASSUME NEW k \in Nat, k \in J PROVE k + 1 \in J
  <2> SUFFICES ASSUME k + 1 <= N + 1, NEW i \in (N + 2 - (k + 1))..(N + 2) PROVE h[i] \in Seq(W)
    OBVIOUS
  <2>1. i \in 1..(N + 2) /\ k <= N + 1
    BY <1>1
  <2>2. CASE i > N
    <3>1. h[i] = << >>
      BY <1>11, <2>1, <2>2
    <3>2. QED BY <3>1
  <2>3. CASE ~(i > N)
    <3>1. i \in 1..N /\ end(i) \in i..(N + 1)
      BY <2>1, <2>3, <1>1, <1>2
    <3>2. end(i) + 1 \in (N + 2 - k)..(N + 2)
      BY <3>1, <1>1, <2>1
    <3>3. h[end(i) + 1] \in Seq(W)
      BY <3>2, <2>1, <1>13
    <3>4. h[i] = <<SubSeq(text, i, end(i) - 1)>> \o h[end(i) + 1]
      BY <1>11, <2>1, <2>3
    <3>5. QED BY <3>1, <3>3, <3>4, <1>3, ConcatProperties
  <2>4. QED BY <2>2, <2>3
<1>14. h[1] \in Seq(W)
  <2> HIDE DEF J
  <2>1. N + 1 \in J
    BY <1>1, <1>12, <1>13, Induction
  <2>2. 1 \in (N + 2 - (N + 1))..(N + 2) /\ N + 1 <= N + 1
    BY <1>1
  <2>3. QED BY <2>1, <2>2 DEF J
<1>15. QED BY <1>10, <1>14 DEF W

LEMMA ExtensionWords ==
  ASSUME NEW text \in Seq(Symbols)
  PROVE  getClassPathExt(text).path \in Seq(Seq(Symbols)) /\ getClassPathExt(text).class \in Seq(Symbols)
<1> DEFINE W == Seq(Symbols)
           fp == Max({0} \cup Positions(text, "/"))
           ssep == Min({Len(text) + 1} \cup Positions(text, ".som"))
           last == IF ssep <= Len(text) /\ ssep > fp THEN ssep - 1 ELSE Len(text)
<1>1. Len(text) \in Nat /\ DOMAIN text = 1..Len(text)
  OBVIOUS
<1>2. fp \in 0..Len(text)
  <2> DEFINE E == {0} \cup Positions(text, "/")
  <2>1. E \subseteq 0..Len(text) /\ E \subseteq Nat /\ E # {}
    BY <1>1 DEF Positions
  <2>2. \A x \in E : x <= Len(text)
    BY <2>1, <1>1
  <2> HIDE DEF E
  <2>3. Max(E) \in E
    BY <1>1, <2>1, <2>2, GreatestIs
  <2>4. QED BY <2>1, <2>3 DEF E
<1>3. ssep \in 1..(Len(text) + 1)
  <2> DEFINE E == {Len(text) + 1} \cup Positions(text, ".som")
  <2>1. E \subseteq 1..(Len(text) + 1) /\ E \subseteq Nat /\ E # {}
    BY <1>1 DEF Positions
  <2> HIDE DEF E
  <2>2. Min(E) \in E
    BY <2>1, LeastIs
  <2>3. QED BY <2>1, <2>2 DEF E
<1>4. getClassPathExt(text) = [path |-> IF fp = 0 THEN << >> ELSE <<SubSeq(text, 1, fp - 1)>>,
                               class |-> SubSeq(text, fp + 1, last)]
  BY DEF getClassPathExt
<1> HIDE DEF fp, ssep
<1>5. last \in 0..Len(text)
  BY <1>1, <1>2, <1>3
<1> HIDE DEF last
<1>6. SubSeq(text, fp + 1, last) \in W
  <2>1. fp + 1 \in Nat \ {0}
    BY <1>1, <1>2
  <2>2. QED BY <2>1, <1>5, PartOf
<1>7. fp # 0 => SubSeq(text, 1, fp - 1) \in W
  <2>1. fp # 0 => fp - 1 \in 0..Len(text)
    BY <1>1, <1>2
  <2>2. QED BY <2>1, PartOf
<1> HIDE DEF W
<1>8. (IF fp = 0 THEN << >> ELSE <<SubSeq(text, 1, fp - 1)>>) \in Seq(W)
  BY <1>7, SMTT(20)
<1>9. QED BY <1>4, <1>6, <1>8 DEF W

LEMMA WordsStep == WordsInv /\ [Next]_vars => WordsInv'
<1> SUFFICES ASSUME WordsInv, [Next]_vars PROVE WordsInv'
  OBVIOUS
<1> DEFINE W == Seq(Symbols)
           Commands == [next : Nat \ {0}, classPath : Seq(W), vmArgs : Seq(W)]
<1>1. world \in Worlds /\ command \in Commands
  BY DEF WordsInv
<1>2. CASE UNCHANGED <<world, command>>
  BY <1>2 DEF WordsInv
<1>3. CASE HandleArgument
  <2> DEFINE arg == world.args[command.next]
             ext == getClassPathExt(arg.text)
  <2>1. world' = world /\ command.next <= Len(world.args) /\ command.next \in Nat \ {0}
    BY <1>1, <1>3 DEF HandleArgument
  <2>2. world.args \in Seq([option : STRING, text : W])
    BY <1>1, ClassesAssumption
  <2>3. \A i \in 1..Len(world.args) : world.args[i].text \in W
    <3> DEFINE A == [option : STRING, text : W]
    <3>1. \A x \in A : x.text \in W
      OBVIOUS
    <3> HIDE DEF A
    <3>2. world.args \in Seq(A)
      BY <2>2 DEF A
    <3>3a. \A i \in 1..Len(world.args) : world.args[i] \in A
      BY <3>2
    <3>3. QED BY <3>1, <3>3a
  <2>4. arg.text \in W
    BY <2>1, <2>2, <2>3
  <2>5. ext.path \in Seq(W) /\ ext.class \in W
    BY <2>4, ExtensionWords
  <2>6. command.next # Len(world.args) => Split(world.args[command.next + 1].text) \in Seq(W)
    <3> SUFFICES ASSUME command.next # Len(world.args)
                 PROVE  Split(world.args[command.next + 1].text) \in Seq(W)
      OBVIOUS
    <3>1. command.next + 1 \in 1..Len(world.args)
      BY <2>1, <2>2
    <3>2. QED BY <3>1, <2>3, SplitWords
  <2>7. \/ command' = command
        \/ /\ command.next # Len(world.args)
           /\ command' = [command EXCEPT !.next = @ + 2,
                               !.classPath = Split(world.args[command.next + 1].text)]
        \/ command' = [command EXCEPT !.next = @ + 1]
        \/ command' = [command EXCEPT !.next = @ + 1, !.classPath = @ \o ext.path,
                                      !.vmArgs = Append(@, ext.class)]
    BY <1>3 DEF HandleArgument
  <2> HIDE DEF W, arg, ext
  <2>8. command' \in Commands
    <3>1. command.next + 1 \in Nat \ {0} /\ command.next + 2 \in Nat \ {0}
      BY <1>1
    <3>2. command.classPath \o ext.path \in Seq(W) /\ Append(command.vmArgs, ext.class) \in Seq(W)
      BY <1>1, <2>5
    <3>3. CASE command' = [command EXCEPT !.next = @ + 1, !.classPath = @ \o ext.path,
                                      !.vmArgs = Append(@, ext.class)]
      BY <1>1, <3>1, <3>2, <3>3
    <3>4. CASE /\ command.next # Len(world.args)
           /\ command' = [command EXCEPT !.next = @ + 2,
                               !.classPath = Split(world.args[command.next + 1].text)]
      BY <1>1, <3>1, <3>4, <2>6
    <3>5. CASE command' = [command EXCEPT !.next = @ + 1]
      BY <1>1, <3>1, <3>5
    <3>6. QED BY <1>1, <3>3, <3>4, <3>5, <2>7
  <2>9. QED BY <1>1, <2>1, <2>8 DEF WordsInv, W
<1>4. CASE ArgumentsHandled
  <2>1. <<".">> \in W
    <3>1. "." \in Symbols
      BY DEF Symbols
    <3> HIDE DEF Symbols
    <3>2. \A x \in Symbols : <<x>> \in Seq(Symbols)
      OBVIOUS
    <3>3. QED BY <3>1, <3>2
  <2> HIDE DEF W
  <2>2. Append(command.classPath, <<".">>) \in Seq(W)
    BY <1>1, <2>1
  <2>3. command' = [command EXCEPT !.classPath = Append(@, <<".">>)] /\ world' = world
    BY <1>4 DEF ArgumentsHandled
  <2>4. command' \in Commands
    BY <1>1, <2>2, <2>3
  <2>5. QED BY <1>1, <2>3, <2>4 DEF WordsInv, W
<1>5. QED
  BY <1>2, <1>3, <1>4, Zenon DEF Next, Boot, OpenFile, NotFound, LoadSuperClass, Assemble, Return, Ask,
     GetBlockClassWithArgs, Load, Loaded, BlocksForResolve, Look, PutGlobals, ReadLine, vars

LEMMA InitWords == Init => WordsInv
BY DEF Init, WordsInv

--------------------
(* Calls of LoadClass that wait for each other. *)

Opens(call, d) ==
  /\ d \in DOMAIN command.classPath /\ command.classPath[d] \in DOMAIN world.dirs
  /\ call.name \in DOMAIN world.dirs[command.classPath[d]].files
FileAt(call, d) == world.dirs[command.classPath[d]].files[call.name]

\* How far a call is.
CallReaches(cs, call) ==
  /\ call.pc \in {"find", "super", "assemble", "primitives"} /\ call.dir \in Nat \ {0}
  /\ call.pc # "find" => Opens(call, call.dir)
  /\ call.system # None => /\ call.pc \in {"find", "primitives"}
                           /\ call.pc = "primitives" => call.class = call.system
  /\ call.system = None =>
       /\ \A d \in 1..(call.dir - 1) : Opens(call, d) => FileAt(call, d).name # call.name
       /\ call.pc = "primitives" => /\ FileAt(call, call.dir).name = call.name
                                    /\ cs[call.class].name = call.name

\* An inner call is for the superclass in the file of the one that waits for it.
WaitsFor(call, next) == call.pc = "super" /\ FileAt(call, call.dir).super = next.name

\* A call for what an outer call is loading looks in the same directories, and does not get
\* as far as that one.
Behind(outer, call) ==
  call.name = outer.name => \/ call.dir < outer.dir
                            \/ call.dir = outer.dir /\ call.pc \in {"find", "super"}

InnerCall(gs, call) == call.name \notin DOMAIN gs /\ call.system = None /\ call.how = "class"
StackOk(cs, gs, ls) ==
  /\ \A i \in DOMAIN ls : CallReaches(cs, ls[i])
  /\ \A i \in DOMAIN ls : i < Len(ls) => WaitsFor(ls[i], ls[i + 1])
  /\ \A i \in DOMAIN ls : i > 1 => InnerCall(gs, ls[i])
  /\ \A i, j \in DOMAIN ls : i < j => Behind(ls[i], ls[j])

LEMMA NoStack ==
  ASSUME NEW cs, NEW gs
  PROVE  StackOk(cs, gs, << >>)
BY NoneYet DEF StackOk

LEMMA StackOfOne ==
  ASSUME NEW cs, NEW gs, NEW name, NEW how, NEW system
  PROVE  StackOk(cs, gs, <<Call(name, how, system)>>)
<1> DEFINE c == Call(name, how, system)
<1>1. c.pc = "find" /\ c.dir = 1
  BY DEF Call
<1> HIDE DEF c
<1>2. Len(<<c>>) = 1 /\ DOMAIN <<c>> = {1} /\ <<c>>[1] = c
  BY Single
<1>3. CallReaches(cs, c)
  BY <1>1 DEF CallReaches
<1> DEFINE ls == <<c>>
<1> HIDE DEF ls
<1>4. Len(ls) = 1 /\ DOMAIN ls = {1} /\ ls[1] = c
  BY <1>2 DEF ls
<1>5. StackOk(cs, gs, ls)
  BY <1>3, <1>4 DEF StackOk
<1>6. QED BY <1>5 DEF ls, c

\* The innermost call goes on.
LEMMA StackGoesOn ==
  ASSUME NEW cs, NEW ds, NEW gs, NEW ls, IsSeq(ls), ls # << >>, StackOk(cs, gs, ls), NEW d,
         SameLoad(ls[Len(ls)], d), CallReaches(ds, d),
         \A i \in DOMAIN ls : i < Len(ls) => Behind(ls[i], d)
  PROVE  StackOk(ds, gs, Append(Front(ls), d))
<1> DEFINE r == Append(Front(ls), d)
           n == Len(ls)
<1>1. /\ IsSeq(r) /\ Len(r) = n /\ DOMAIN r = DOMAIN ls
      /\ r[n] = d /\ \A i \in DOMAIN ls : i # n => r[i] = ls[i]
      /\ n \in Nat /\ DOMAIN ls = 1..n /\ n \in DOMAIN ls
  BY TopSet, Measured
<1> HIDE DEF r
<1>2. \A i \in DOMAIN ls : i = n \/ i < n
  BY <1>1
<1>3. ASSUME NEW i \in DOMAIN r PROVE CallReaches(ds, r[i])
  <2>1. CASE i = n
    BY <2>1, <1>1
  <2>2. CASE i < n
    <3>1. r[i] = ls[i] /\ ls[i].pc = "super" /\ CallReaches(cs, ls[i])
      BY <2>2, <1>1 DEF StackOk, WaitsFor
    <3>2. QED BY <3>1 DEF CallReaches
  <2>3. QED BY <1>1, <1>2, <2>1, <2>2
<1>4. ASSUME NEW i \in DOMAIN r, i < Len(r) PROVE WaitsFor(r[i], r[i + 1])
  <2>1. i + 1 \in DOMAIN ls /\ i # n /\ WaitsFor(ls[i], ls[i + 1]) /\ r[i] = ls[i]
    BY <1>1, <1>4 DEF StackOk
  <2>2. r[i + 1].name = ls[i + 1].name
    BY <1>1, <2>1 DEF SameLoad
  <2>3. QED BY <2>1, <2>2 DEF WaitsFor
<1>5. ASSUME NEW i \in DOMAIN r, i > 1 PROVE InnerCall(gs, r[i])
  <2>1. InnerCall(gs, ls[i])
    BY <1>1, <1>5 DEF StackOk
  <2>2. r[i].name = ls[i].name /\ r[i].system = ls[i].system /\ r[i].how = ls[i].how
    BY <1>1 DEF SameLoad
  <2>3. QED BY <2>1, <2>2 DEF InnerCall
<1>6. ASSUME NEW i \in DOMAIN r, NEW j \in DOMAIN r, i < j PROVE Behind(r[i], r[j])
  <2>1. i # n /\ r[i] = ls[i] /\ i < n
    BY <1>1, <1>6
  <2>2. CASE j = n
    BY <2>1, <2>2, <1>1
  <2>3. CASE j # n
    BY <2>1, <2>3, <1>1, <1>6 DEF StackOk
  <2>4. QED BY <2>2, <2>3
<1> HIDE DEF n
<1>7. StackOk(ds, gs, r)
  BY <1>3, <1>4, <1>5, <1>6 DEF StackOk
<1>8. QED BY <1>7 DEF r

\* It calls for its superclass.
LEMMA StackGrows ==
  ASSUME NEW cs, NEW gs, NEW ls, IsSeq(ls), ls # << >>, StackOk(cs, gs, ls),
         ls[Len(ls)].pc = "super", NEW name, name = FileAt(ls[Len(ls)], ls[Len(ls)].dir).super,
         name \notin DOMAIN gs
  PROVE  StackOk(cs, gs, Append(ls, Call(name, "class", None)))
<1> DEFINE c == Call(name, "class", None)
           r == Append(ls, c)
           n == Len(ls)
<1>1. c.name = name /\ c.how = "class" /\ c.system = None /\ c.pc = "find" /\ c.dir = 1
  BY DEF Call
<1> HIDE DEF c
<1>2. /\ Len(r) = n + 1 /\ DOMAIN r = 1..(n + 1)
      /\ r[n + 1] = c /\ \A i \in DOMAIN ls : r[i] = ls[i]
      /\ n \in Nat /\ DOMAIN ls = 1..n /\ n \in DOMAIN ls
  BY Appended, Measured
<1> HIDE DEF r, n
<1>3. \A i \in DOMAIN r : i \in DOMAIN ls \/ i = n + 1
  BY <1>2
<1>4. CallReaches(cs, c)
  BY <1>1 DEF CallReaches
<1>5. \A i \in DOMAIN r : CallReaches(cs, r[i])
  BY <1>2, <1>3, <1>4 DEF StackOk
<1>6. ASSUME NEW i \in DOMAIN r, i < Len(r) PROVE WaitsFor(r[i], r[i + 1])
  <2>1. CASE i = n
    <3>1. r[i] = ls[n] /\ r[i + 1] = c
      BY <1>2, <2>1
    <3>2. QED BY <1>1, <3>1 DEF WaitsFor, n
  <2>2. CASE i # n
    <3>1. i \in DOMAIN ls /\ i + 1 \in DOMAIN ls /\ i < n
      BY <1>2, <1>6, <2>2
    <3>2. QED BY <1>2, <3>1 DEF StackOk, n
  <2>3. QED BY <2>1, <2>2
<1>7. ASSUME NEW i \in DOMAIN r, i > 1 PROVE InnerCall(gs, r[i])
  BY <1>1, <1>2, <1>3, <1>7 DEF StackOk, InnerCall
<1>8. ASSUME NEW i \in DOMAIN r, NEW j \in DOMAIN r, i < j PROVE Behind(r[i], r[j])
  <2>1. i \in DOMAIN ls /\ r[i] = ls[i]
    BY <1>2, <1>8
  <2>2. CASE j = n + 1
    <3>1. r[j] = c /\ CallReaches(cs, ls[i])
      BY <1>2, <2>1, <2>2 DEF StackOk
    <3>2. ls[i].dir \in Nat \ {0}
      BY <3>1 DEF CallReaches
    <3>3. c.dir < ls[i].dir \/ c.dir = ls[i].dir
      BY <1>1, <3>2
    <3>4. QED BY <1>1, <2>1, <3>1, <3>3 DEF Behind
  <2>3. CASE j \in DOMAIN ls
    BY <1>2, <1>8, <2>1, <2>3 DEF StackOk
  <2>4. QED BY <1>3, <2>2, <2>3
<1>9. StackOk(cs, gs, r)
  BY <1>5, <1>6, <1>7, <1>8 DEF StackOk
<1>10. QED BY <1>9 DEF r, c

\* The innermost call returns to the one that waits for it.  That cannot be a call for what
\* a further one is loading, in the same directory: the returning call would have found what
\* the further one's superclass was not found by.
LEMMA StackReturns ==
  ASSUME NEW cs, NEW ds, NEW gs, NEW ls, IsSeq(ls), Len(ls) > 1, StackOk(cs, gs, ls),
         ls[Len(ls)].pc = "primitives", NEW d, SameLoad(ls[Len(ls) - 1], d),
         d.pc = "assemble", d.dir = ls[Len(ls) - 1].dir
  PROVE  StackOk(ds, gs, Append(SubSeq(ls, 1, Len(ls) - 2), d))
<1> DEFINE n == Len(ls)
           o == ls[n - 1]
           r == Append(SubSeq(ls, 1, n - 2), d)
<1>1. n \in Nat /\ n > 1 /\ DOMAIN ls = 1..n
  BY Measured, SMTT(20)
<1>2. /\ IsSeq(r) /\ Len(r) = n - 1 /\ DOMAIN r = 1..(n - 1)
      /\ r[n - 1] = d /\ \A i \in 1..(n - 2) : r[i] = ls[i]
  <2>1. n - 2 \in Nat /\ n - 2 < n /\ (n - 2) + 1 = n - 1
    BY <1>1
  <2>2. LET q == Append(SubSeq(ls, 1, n - 2), d)
        IN  /\ IsSeq(q) /\ Len(q) = (n - 2) + 1 /\ DOMAIN q = 1..((n - 2) + 1)
            /\ q[(n - 2) + 1] = d /\ \A i \in 1..(n - 2) : q[i] = ls[i]
    <3> DEFINE k == n - 2
    <3>1. k \in Nat /\ k < Len(ls)
      BY <2>1
    <3> HIDE DEF k
    <3>2. LET q == Append(SubSeq(ls, 1, k), d)
          IN  /\ IsSeq(q) /\ Len(q) = k + 1 /\ DOMAIN q = 1..(k + 1)
              /\ q[k + 1] = d /\ \A i \in 1..k : q[i] = ls[i]
      BY <3>1, Replaced
    <3>3. QED BY <3>2 DEF k
  <2> HIDE DEF r
  <2>3. QED BY <2>1, <2>2, Zenon DEF r
<1> HIDE DEF r
<1>3. n - 1 \in DOMAIN ls /\ n - 1 < n /\ (n - 1) + 1 = n /\ n \in DOMAIN ls /\ n > 1
  BY <1>1
<1>4. /\ WaitsFor(o, ls[n]) /\ CallReaches(cs, o)
      /\ d.name = o.name /\ d.how = o.how /\ d.system = o.system
  BY <1>3 DEF StackOk, SameLoad
<1> HIDE DEF n, o
<1>5. \A i \in DOMAIN r : i = n - 1 \/ (i \in 1..(n - 2) /\ i \in DOMAIN ls /\ i < n - 1)
  BY <1>1, <1>2, SMTT(20)
<1>6. CallReaches(ds, d)
  <2>1. o.pc = "super" /\ o.system = None
    BY <1>4 DEF CallReaches, WaitsFor
  <2>2. QED BY <1>4, <2>1, Zenon DEF CallReaches, Opens, FileAt, o, n
<1>7. ASSUME NEW i \in DOMAIN r PROVE CallReaches(ds, r[i])
  <2>1. CASE i = n - 1
    BY <2>1, <1>2, <1>6
  <2>2. CASE i \in 1..(n - 2) /\ i \in DOMAIN ls /\ i < n - 1
    <3>1. i < n
      BY <2>2, <1>1
    <3>2. r[i] = ls[i] /\ ls[i].pc = "super" /\ CallReaches(cs, ls[i])
      BY <2>2, <1>2, <3>1 DEF StackOk, WaitsFor, n
    <3>3. QED BY <3>2 DEF CallReaches
  <2>3. QED BY <1>5, <2>1, <2>2
<1>8. ASSUME NEW i \in DOMAIN r, i < Len(r) PROVE WaitsFor(r[i], r[i + 1])
  <2>1. /\ i \in 1..(n - 2) /\ i \in DOMAIN ls /\ i < n /\ i + 1 \in DOMAIN ls
        /\ i + 1 \in 1..(n - 2) \/ i + 1 = n - 1
    BY <1>1, <1>2, <1>8
  <2>2. WaitsFor(ls[i], ls[i + 1]) /\ r[i] = ls[i]
    BY <1>2, <2>1 DEF StackOk, n
  <2>3. r[i + 1].name = ls[i + 1].name
    BY <1>2, <1>4, <2>1 DEF o
  <2>4. QED BY <2>2, <2>3 DEF WaitsFor
<1>9. ASSUME NEW i \in DOMAIN r, i > 1 PROVE InnerCall(gs, r[i])
  <2>1. i \in DOMAIN ls /\ InnerCall(gs, ls[i])
    BY <1>3, <1>5, <1>9 DEF StackOk
  <2>2. r[i].name = ls[i].name /\ r[i].system = ls[i].system /\ r[i].how = ls[i].how
    BY <1>2, <1>4, <1>5 DEF o
  <2>3. QED BY <2>1, <2>2 DEF InnerCall
<1>10. ASSUME NEW i \in DOMAIN r, NEW j \in DOMAIN r, i < j PROVE Behind(r[i], r[j])
  <2>1. /\ i \in 1..(n - 2) /\ i \in DOMAIN ls /\ i < n - 1 /\ i < n /\ i + 1 \in DOMAIN ls
        /\ i + 1 > 1 /\ i + 1 < n /\ r[i] = ls[i]
    BY <1>1, <1>2, <1>10
  <2>2. CASE j \in 1..(n - 2) /\ j \in DOMAIN ls
    BY <1>2, <1>10, <2>1, <2>2 DEF StackOk
  <2>3. CASE j = n - 1
    <3> DEFINE a == ls[i]
               b == ls[i + 1]
               e == ls[n]
    <3> SUFFICES ASSUME d.name = a.name PROVE d.dir < a.dir
      BY <1>2, <2>1, <2>3 DEF Behind
    <3>1. Behind(a, o) /\ WaitsFor(a, b) /\ Behind(b, e) /\ InnerCall(gs, b) /\ InnerCall(gs, e)
          /\ CallReaches(cs, b) /\ CallReaches(cs, e) /\ e.pc = "primitives" /\ d.dir = o.dir
      BY <1>3, <2>1 DEF StackOk, n, o
    <3> HIDE DEF a, b, e
    <3>2. SUFFICES ASSUME o.dir = a.dir PROVE FALSE
      BY <1>4, <3>1 DEF Behind
    <3>3. FileAt(a, a.dir) = FileAt(o, o.dir)
      BY <1>4, <3>2 DEF FileAt
    <3>4. b.name = e.name
      BY <1>4, <3>1, <3>3 DEF WaitsFor, e
    <3>5. e.dir < b.dir
      <4>1. e.name = b.name /\ e.pc = "primitives" /\ Behind(b, e)
        BY <3>1, <3>4
      <4>2. QED BY <4>1 DEF Behind
    <3>6. /\ e.system = None /\ b.system = None /\ Opens(e, e.dir) /\ FileAt(e, e.dir).name = e.name
          /\ e.dir \in Nat \ {0} /\ b.dir \in Nat \ {0}
          /\ \A k \in 1..(b.dir - 1) : Opens(b, k) => FileAt(b, k).name # b.name
      BY <3>1 DEF InnerCall, CallReaches
    <3>7. e.dir \in 1..(b.dir - 1)
      BY <3>5, <3>6, SMTT(20)
    <3>8. Opens(b, e.dir) /\ FileAt(b, e.dir) = FileAt(e, e.dir)
      <4>1. Opens(e, e.dir)
        BY <3>6
      <4>2. QED BY <3>4, <4>1, Zenon DEF Opens, FileAt
    <3>9. QED BY <3>4, <3>6, <3>7, <3>8
  <2>4. QED BY <1>5, <2>2, <2>3
<1>11. StackOk(ds, gs, r)
  <2>1. \A i, j \in DOMAIN r : i < j => Behind(r[i], r[j])
    BY <1>10
  <2> HIDE DEF r
  <2>2. QED BY <1>7, <1>8, <1>9, <2>1 DEF StackOk
<1>12. QED BY <1>11 DEF r, n

--------------------
\* What a call finds depends on the command line only.
StackInv == StackOk(classes, globals, loads)

LEMMA StackPrime ==
  ASSUME UNCHANGED <<world, command>>, StackOk(classes', globals', loads')
  PROVE  StackInv'
<1>1. (\A i \in DOMAIN loads : CallReaches(classes, loads[i]))'
  BY DEF StackOk, CallReaches, Opens, FileAt
<1>2. (\A i \in DOMAIN loads : i < Len(loads) => WaitsFor(loads[i], loads[i + 1]))'
  BY DEF StackOk, WaitsFor, FileAt
<1>3. /\ (\A i \in DOMAIN loads : i > 1 => InnerCall(globals, loads[i]))'
      /\ (\A i, j \in DOMAIN loads : i < j => Behind(loads[i], loads[j]))'
  BY DEF StackOk, InnerCall, Behind
<1>4. QED BY <1>1, <1>2, <1>3 DEF StackInv, StackOk

LEMMA NoStackPrime ==
  ASSUME loads' = << >>
  PROVE  StackInv'
BY NoneYet DEF StackInv, StackOk

LEMMA OneCallPrime ==
  ASSUME NEW name, NEW how, NEW system, loads' = <<Call(name, how, system)>>,
         UNCHANGED <<world, command>>
  PROVE  StackInv'
BY StackOfOne, StackPrime

\* The innermost call goes on.
LEMMA TopPrime ==
  ASSUME LoadInv, StackInv, loads # << >>, NEW d, SetTop(d), SameLoad(top, d), CallReaches(classes', d),
         \A i \in DOMAIN loads : i < Len(loads) => Behind(loads[i], d),
         UNCHANGED <<world, command, globals>>
  PROVE  StackInv'
<1>1. IsSeq(loads) /\ StackOk(classes, globals, loads)
  BY DEF LoadInv, CallsInv, StackInv
<1>2. StackOk(classes', globals, Append(Front(loads), d))
  BY <1>1, StackGoesOn DEF top
<1>3. QED BY <1>2, StackPrime DEF SetTop

\* What the innermost call of the stack has.
LEMMA TopReaches ==
  ASSUME LoadInv, StackInv, loads # << >>
  PROVE  /\ IsCall(top) /\ CallReaches(classes, top) /\ Len(loads) \in DOMAIN loads
         /\ DOMAIN loads = 1..Len(loads) /\ Len(loads) \in Nat \ {0}
         /\ \A i \in DOMAIN loads : i < Len(loads) =>
              /\ Behind(loads[i], top) /\ CallReaches(classes, loads[i])
              /\ i + 1 \in DOMAIN loads /\ WaitsFor(loads[i], loads[i + 1])
              /\ InnerCall(globals, loads[i + 1]) /\ top.system = None
<1>1. /\ IsCall(top) /\ Len(loads) \in DOMAIN loads /\ DOMAIN loads = 1..Len(loads)
      /\ Len(loads) \in Nat
  BY TopIsCall, Measured DEF LoadInv, CallsInv
<1>2. Len(loads) \in Nat \ {0}
  BY <1>1
<1>3. ASSUME NEW i \in DOMAIN loads, i < Len(loads)
      PROVE  i + 1 \in DOMAIN loads /\ i + 1 > 1 /\ Len(loads) > 1
  BY <1>1, <1>3
<1>4. ASSUME NEW i \in DOMAIN loads, i < Len(loads)
      PROVE  /\ Behind(loads[i], top) /\ CallReaches(classes, loads[i])
             /\ WaitsFor(loads[i], loads[i + 1])
             /\ InnerCall(globals, loads[i + 1]) /\ InnerCall(globals, top)
  BY <1>1, <1>3, <1>4 DEF StackInv, StackOk, top
<1>5. CallReaches(classes, top)
  BY <1>1 DEF StackInv, StackOk, top
<1>6. QED BY <1>1, <1>2, <1>3, <1>4, <1>5 DEF InnerCall

\* What a new class and its metaclass have.
LEMMA NewClassesHave ==
  ASSUME NEW cs, ClassObjects(cs), NEW f, NEW s
  PROVE  LET n == Len(cs)
             ds == Assembled(cs, f, s)
             ms == SubSeq(ds, 1, n + 1)
         IN  /\ ds[n + 1].name = f.name /\ ds[n + 2].name = f.name
             /\ ds[n + 1].fields = f.classFields /\ ds[n + 2].fields = f.fields
             /\ ds[n + 1].invokables = SetInstanceInvokables(n + 1, f.classMethods)
             /\ ds[n + 2].invokables = SetInstanceInvokables(n + 2, f.methods)
             /\ ds[n + 1].class = known["Metaclass"]
             /\ ds[n + 1].room = VMClassNumberOfFields + GetNumberOfInstanceFields(cs, known["Metaclass"])
             /\ \E es : /\ ClassObjects(es) /\ Len(es) = n + 1 /\ DOMAIN es = 1..(n + 1)
                        /\ \A c \in DOMAIN es : es[c] = ds[c]
                        /\ ds[n + 2].room = VMClassNumberOfFields + GetNumberOfInstanceFields(es, n + 1)
<1> DEFINE n == Len(cs)
           room == VMClassNumberOfFields + GetNumberOfInstanceFields(cs, known["Metaclass"])
           zi == SetInstanceInvokables(n + 1, f.classMethods)
           meta == [NewClassObject(known["Metaclass"], room) EXCEPT
                     !.name = f.name, !.side = "class", !.super = cs[s].class,
                     !.fields = f.classFields,
                     !.invokables = zi]
           ms == Append(cs, meta)
           room2 == VMClassNumberOfFields + GetNumberOfInstanceFields(ms, n + 1)
           zj == SetInstanceInvokables(n + 2, f.methods)
           cls == [NewClassObject(n + 1, room2)
                EXCEPT !.name = f.name, !.side = "instance", !.super = s,
                       !.fields = f.fields,
                       !.invokables = zj]
           ds == Append(ms, cls)
<1>1. Assembled(cs, f, s) = ds
  BY DEF Assembled
<1> DEFINE r2 == room2
<1> HIDE DEF room, r2, zi, zj
<1>2. /\ IsClass(meta) /\ meta.name = f.name /\ meta.fields = f.classFields /\ meta.invokables = zi
      /\ meta.class = known["Metaclass"] /\ meta.room = room
  BY DEF NewClassObject, IsClass
<1> HIDE DEF meta, ms, room2
<1>3. /\ IsClass(cls) /\ cls.name = f.name /\ cls.fields = f.fields /\ cls.invokables = zj
      /\ cls.room = room2
  BY DEF NewClassObject, IsClass
<1> HIDE DEF cls
<1>4. n \in Nat /\ DOMAIN cs = 1..n
  BY Measured DEF ClassObjects
<1>5. /\ IsSeq(ms) /\ Len(ms) = n + 1 /\ DOMAIN ms = 1..(n + 1) /\ ms[n + 1] = meta
      /\ \A c \in DOMAIN cs : ms[c] = cs[c]
  BY Appended DEF ClassObjects, ms
<1>6. /\ IsSeq(ds) /\ Len(ds) = (n + 1) + 1 /\ DOMAIN ds = 1..((n + 1) + 1) /\ ds[(n + 1) + 1] = cls
      /\ \A c \in DOMAIN ms : ds[c] = ms[c]
  BY <1>5, Appended
<1> HIDE DEF ds
<1>7. (n + 1) + 1 = n + 2 /\ n + 1 \in DOMAIN ms
  BY <1>4, <1>5
<1>8. ds[n + 1] = meta /\ ds[n + 2] = cls
  BY <1>5, <1>6, <1>7
<1>9. \A c \in DOMAIN ms : c \in DOMAIN cs \/ c = n + 1
  BY <1>4, <1>5
<1>10. ClassObjects(ms)
  BY <1>2, <1>5, <1>9 DEF ClassObjects
<1>11. /\ ClassObjects(ms) /\ Len(ms) = n + 1 /\ DOMAIN ms = 1..(n + 1)
       /\ \A c \in DOMAIN ms : ms[c] = ds[c]
       /\ ds[n + 2].room = VMClassNumberOfFields + GetNumberOfInstanceFields(ms, n + 1)
  BY <1>3, <1>5, <1>6, <1>8, <1>10 DEF room2
<1> HIDE DEF n
<1>12. QED BY <1>1, <1>2, <1>3, <1>8, <1>11 DEF n, room, zi, zj

\* What a step of a call reads of it.
SameFile(c, d) == \A k : Opens(d, k) = Opens(c, k) /\ FileAt(d, k) = FileAt(c, k)
LEMMA FilesOfSame ==
  ASSUME NEW c, NEW d, SameLoad(c, d)
  PROVE  SameFile(c, d)
BY DEF SameLoad, SameFile, Opens, FileAt

LEMMA FileIsAt == File = FileAt(top, top.dir) /\ (FileOpens /\ top.dir \in DOMAIN command.classPath <=> Opens(top, top.dir))
BY DEF File, FileAt, FileOpens, Opens, Directory

LEMMA WordsOfPath ==
  ASSUME WordsInv
  PROVE  IsSeq(command.classPath) /\ DOMAIN command.classPath = 1..Len(command.classPath)
<1>1. command.classPath \in Seq(Seq(Symbols))
  BY DEF WordsInv
<1>2. IsSeq(command.classPath)
  BY <1>1, SeqIsSeq
<1>3. QED BY <1>2, Measured

LEMMA OpenFileStack == Base /\ WordsInv /\ StackInv /\ OpenFile => StackInv'
<1> SUFFICES ASSUME Base, WordsInv, StackInv, OpenFile PROVE StackInv'
  BY SMTT(20)
<1> DEFINE n == Len(loads)
<1>1. /\ loads # << >> /\ LoadInv /\ top.pc = "find" /\ top.dir <= Len(command.classPath)
      /\ UNCHANGED <<world, command, globals>>
  BY DEF OpenFile, Base
<1>2. /\ IsCall(top) /\ CallReaches(classes, top)
      /\ \A i \in DOMAIN loads : i < n =>
              /\ Behind(loads[i], top) /\ CallReaches(classes, loads[i])
              /\ WaitsFor(loads[i], loads[i + 1]) /\ top.system = None
  BY <1>1, TopReaches
<1>3. top.dir \in Nat \ {0} /\ top.dir \in DOMAIN command.classPath
  <2>1. top.dir \in Nat \ {0}
    BY <1>2 DEF CallReaches
  <2>2. Len(command.classPath) \in Nat
    BY WordsOfPath, Measured
  <2>3. QED BY <1>1, <2>1, <2>2, WordsOfPath
<1> HIDE DEF n
<1>4. CASE ~FileOpens
  <2> DEFINE d == [top EXCEPT !.dir = @ + 1]
  <2>1. SameLoad(top, d) /\ d.pc = "find" /\ d.dir = top.dir + 1
    BY <1>1, <1>2 DEF SameLoad, IsCall
  <2>2. SetTop(d)
    BY <1>4 DEF OpenFile
  <2> HIDE DEF d
  <2>3. ~Opens(top, top.dir) /\ SameFile(top, d) /\ d.name = top.name /\ d.system = top.system
    BY <1>4, <2>1, FilesOfSame DEF FileOpens, Opens, Directory, SameLoad
  <2>4. \A k \in 1..(d.dir - 1) : k = top.dir \/ k \in 1..(top.dir - 1)
    BY <1>3, <2>1
  <2>5. d.dir \in Nat \ {0}
    BY <1>3, <2>1
  <2>6. CallReaches(classes', d)
    BY <1>1, <1>2, <2>1, <2>3, <2>4, <2>5 DEF CallReaches, SameFile
  <2>7. ASSUME NEW i \in DOMAIN loads, i < n, d.name = loads[i].name
        PROVE  d.dir < loads[i].dir \/ (d.dir = loads[i].dir /\ d.pc \in {"find", "super"})
    <3>1. /\ Behind(loads[i], top) /\ CallReaches(classes, loads[i]) /\ loads[i].pc = "super"
          /\ loads[i].dir \in Nat \ {0}
      BY <1>2, <2>7 DEF CallReaches, WaitsFor
    <3>2. Opens(loads[i], loads[i].dir)
      BY <3>1 DEF CallReaches
    <3>3. loads[i].name = top.name
      BY <2>3, <2>7
    <3>4. top.dir # loads[i].dir
      BY <2>3, <3>2, <3>3 DEF Opens
    <3>5. top.dir < loads[i].dir
      BY <3>1, <3>3, <3>4 DEF Behind
    <3>6. QED BY <1>3, <2>1, <3>1, <3>5
  <2>8. QED BY <1>1, <2>1, <2>2, <2>6, <2>7, TopPrime DEF Behind, n
<1>5. CASE FileOpens /\ top.system = None
  <2> DEFINE d == [top EXCEPT !.pc = "super"]
  <2>1. SameLoad(top, d) /\ d.pc = "super" /\ d.dir = top.dir
    BY <1>1, <1>2 DEF SameLoad, IsCall
  <2>2. SetTop(d)
    BY <1>5 DEF OpenFile
  <2> HIDE DEF d
  <2>3. Opens(top, top.dir) /\ SameFile(top, d) /\ d.name = top.name /\ d.system = top.system
    BY <1>3, <1>5, <2>1, FilesOfSame, FileIsAt DEF SameLoad
  <2>4. CallReaches(classes', d)
    BY <1>1, <1>2, <1>5, <2>1, <2>3 DEF CallReaches, SameFile
  <2>5. \A i \in DOMAIN loads : i < n => Behind(loads[i], d)
    BY <1>1, <1>2, <2>1, <2>3 DEF Behind
  <2>6. QED BY <1>1, <2>1, <2>2, <2>4, <2>5, TopPrime DEF n
<1>6. CASE FileOpens /\ top.system # None
  <2> DEFINE d == [top EXCEPT !.pc = "primitives", !.class = top.system]
  <2>1. SameLoad(top, d) /\ d.pc = "primitives" /\ d.dir = top.dir /\ d.class = top.system
    BY <1>1, <1>2 DEF SameLoad, IsCall
  <2>2. SetTop(d)
    BY <1>6 DEF OpenFile
  <2> HIDE DEF d
  <2>3. Opens(top, top.dir) /\ SameFile(top, d) /\ d.name = top.name /\ d.system = top.system
    BY <1>3, <1>6, <2>1, FilesOfSame, FileIsAt DEF SameLoad
  <2>4. CallReaches(classes', d)
    BY <1>1, <1>2, <1>6, <2>1, <2>3 DEF CallReaches, SameFile
  <2>5. \A i \in DOMAIN loads : i < n => Behind(loads[i], d)
    BY <1>2, <1>6
  <2>6. QED BY <1>1, <2>1, <2>2, <2>4, <2>5, TopPrime DEF n
<1>7. QED BY <1>4, <1>5, <1>6

LEMMA LoadSuperClassStack == Base /\ StackInv /\ (NotFound \/ LoadSuperClass) => StackInv'
<1> SUFFICES ASSUME Base, StackInv, NotFound \/ LoadSuperClass PROVE StackInv'
  OBVIOUS
<1> DEFINE n == Len(loads)
<1>1. /\ loads # << >> /\ LoadInv /\ UNCHANGED <<world, command, globals, classes>>
  BY DEF NotFound, LoadSuperClass, Base
<1>2. CASE UNCHANGED loads
  BY <1>1, <1>2, StackPrime DEF StackInv
<1>3. IsSeq(loads) /\ StackOk(classes, globals, loads)
  BY <1>1 DEF LoadInv, CallsInv, StackInv
<1>4. /\ IsCall(top) /\ CallReaches(classes, top)
      /\ \A i \in DOMAIN loads : i < n =>
              /\ Behind(loads[i], top) /\ CallReaches(classes, loads[i])
              /\ WaitsFor(loads[i], loads[i + 1]) /\ InnerCall(globals, loads[i + 1])
  BY <1>1, TopReaches
<1> HIDE DEF n
<1>5. ASSUME LoadSuperClass, HasGlobal(File.super),
             SetTop([top EXCEPT !.super = globals[File.super], !.pc = "assemble"])
      PROVE  StackInv'
  <2> DEFINE d == [top EXCEPT !.super = globals[File.super], !.pc = "assemble"]
  <2>1. SameLoad(top, d) /\ d.pc = "assemble" /\ d.dir = top.dir /\ top.pc = "super"
    BY <1>4, <1>5 DEF SameLoad, IsCall, LoadSuperClass
  <2>2. SetTop(d)
    BY <1>5
  <2> HIDE DEF d
  <2>3. SameFile(top, d) /\ d.name = top.name /\ d.system = top.system /\ File = FileAt(top, top.dir)
    BY <2>1, FilesOfSame, FileIsAt DEF SameLoad
  <2>4. CallReaches(classes, d)
    BY <1>4, <2>1, <2>3 DEF CallReaches, SameFile
  <2>5. ASSUME NEW i \in DOMAIN loads, i < n PROVE Behind(loads[i], d)
    <3> SUFFICES ASSUME d.name = loads[i].name PROVE d.dir < loads[i].dir
      BY DEF Behind
    <3>1. /\ Behind(loads[i], top) /\ WaitsFor(loads[i], loads[i + 1])
          /\ InnerCall(globals, loads[i + 1])
      BY <1>4, <2>5
    <3>2. SUFFICES ASSUME top.dir = loads[i].dir PROVE FALSE
      BY <2>1, <2>3, <3>1 DEF Behind
    <3>3. FileAt(loads[i], loads[i].dir) = File
      BY <2>3, <3>2 DEF FileAt
    <3>4. QED BY <1>5, <3>1, <3>3 DEF WaitsFor, InnerCall, HasGlobal
  <2>6. QED BY <1>1, <2>1, <2>2, <2>4, <2>5, TopPrime DEF n
<1>6. ASSUME LoadSuperClass, ~HasGlobal(File.super), loads' = Append(loads, Call(File.super, "class", None))
      PROVE  StackInv'
  <2>1. top.pc = "super" /\ File.super = FileAt(top, top.dir).super /\ File.super \notin DOMAIN globals
    BY <1>6, FileIsAt DEF LoadSuperClass, HasGlobal
  <2>2. StackOk(classes, globals, Append(loads, Call(File.super, "class", None)))
    BY <1>1, <1>3, <2>1, StackGrows DEF top
  <2>3. QED BY <1>1, <1>6, <2>2, StackPrime
<1>7. QED BY <1>2, <1>5, <1>6 DEF NotFound, LoadSuperClass

LEMMA AssembleStack == Base /\ StackInv /\ Assemble => StackInv'
<1> SUFFICES ASSUME Base, StackInv, Assemble PROVE StackInv'
  OBVIOUS
<1> DEFINE n == Len(loads)
<1>1. /\ loads # << >> /\ LoadInv /\ top.pc = "assemble" /\ ClassObjects(classes)
      /\ classes' = Assembled(classes, File, top.super)
      /\ UNCHANGED <<world, command, globals>> /\ File = FileAt(top, top.dir)
  BY FileIsAt DEF Assemble, Base, LinkInv
<1>2. /\ IsCall(top) /\ CallReaches(classes, top)
      /\ \A i \in DOMAIN loads : i < n => /\ Behind(loads[i], top) /\ CallReaches(classes, loads[i])
  BY <1>1, TopReaches
<1>3. classes'[Len(classes')].name = File.name
  BY <1>1, NewClasses, NewClassesHave
<1>4. /\ top.dir \in Nat \ {0} /\ top.system = None /\ Opens(top, top.dir)
      /\ \A k \in 1..(top.dir - 1) : Opens(top, k) => FileAt(top, k).name # top.name
  BY <1>1, <1>2 DEF CallReaches
<1>5. ASSUME NEW i \in DOMAIN loads, i < n, loads[i].name = top.name
      PROVE  loads[i].dir \in Nat \ {0} /\ top.dir < loads[i].dir
  BY <1>1, <1>2, <1>5 DEF Behind, CallReaches
<1> HIDE DEF n
<1>6. CASE File.name = top.name
  <2> DEFINE d == [top EXCEPT !.pc = "primitives", !.class = Len(classes')]
  <2>1. SameLoad(top, d) /\ d.pc = "primitives" /\ d.dir = top.dir /\ d.class = Len(classes')
    BY <1>2 DEF SameLoad, IsCall
  <2>2. SetTop(d)
    BY <1>6 DEF Assemble
  <2> HIDE DEF d
  <2>3. SameFile(top, d) /\ d.name = top.name /\ d.system = top.system
    BY <2>1, FilesOfSame DEF SameLoad
  <2>4. CallReaches(classes', d)
    BY <1>1, <1>3, <1>4, <1>6, <2>1, <2>3 DEF CallReaches, SameFile
  <2>5. \A i \in DOMAIN loads : i < n => Behind(loads[i], d)
    BY <1>5, <2>1, <2>3 DEF Behind
  <2>6. QED BY <1>1, <2>1, <2>2, <2>4, <2>5, TopPrime DEF n
<1>7. CASE File.name # top.name
  <2> DEFINE d == [top EXCEPT !.pc = "find", !.dir = top.dir + 1]
  <2>1. SameLoad(top, d) /\ d.pc = "find" /\ d.dir = top.dir + 1
    BY <1>2 DEF SameLoad, IsCall
  <2>2. SetTop(d)
    BY <1>7 DEF Assemble
  <2> HIDE DEF d
  <2>3. SameFile(top, d) /\ d.name = top.name /\ d.system = top.system
    BY <2>1, FilesOfSame DEF SameLoad
  <2>4. d.dir \in Nat \ {0} /\ \A k \in 1..(d.dir - 1) : k = top.dir \/ k \in 1..(top.dir - 1)
    BY <1>4, <2>1
  <2>5. CallReaches(classes', d)
    BY <1>1, <1>4, <1>7, <2>1, <2>3, <2>4 DEF CallReaches, SameFile
  <2>6. ASSUME NEW i \in DOMAIN loads, i < n PROVE Behind(loads[i], d)
    <3> SUFFICES ASSUME d.name = loads[i].name PROVE d.dir < loads[i].dir \/ d.dir = loads[i].dir
      BY <2>1 DEF Behind
    <3>1. loads[i].dir \in Nat \ {0} /\ top.dir < loads[i].dir
      BY <1>5, <2>3, <2>6
    <3>2. QED BY <1>4, <2>1, <3>1
  <2>7. QED BY <1>1, <2>1, <2>2, <2>5, <2>6, TopPrime DEF n
<1>8. QED BY <1>6, <1>7

LEMMA ReturnStack == Base /\ StackInv /\ Return => StackInv'
<1> SUFFICES ASSUME Base, StackInv, Return PROVE StackInv'
  OBVIOUS
<1>1. /\ loads # << >> /\ LoadInv /\ top.pc = "primitives" /\ UNCHANGED <<world, command>>
      /\ IsSeq(loads) /\ StackOk(classes, globals, loads)
  BY DEF Return, Base, LoadInv, CallsInv, StackInv
<1>2. CASE WithPrimitives(top) = {} /\ UNCHANGED <<classes, globals, loads>>
  BY <1>1, <1>2, StackPrime
<1>3. CASE loads' = << >>
  BY <1>3, NoStackPrime
<1>4. ASSUME Len(loads) > 1, top.how = "block" \/ UNCHANGED globals,
             loads' = Append(SubSeq(loads, 1, Len(loads) - 2),
                             [loads[Len(loads) - 1] EXCEPT !.super = top.class, !.pc = "assemble"])
      PROVE  StackInv'
  <2> DEFINE n == Len(loads)
             o == loads[n - 1]
             d == [o EXCEPT !.super = top.class, !.pc = "assemble"]
  <2>1. n \in DOMAIN loads /\ n - 1 \in DOMAIN loads /\ n > 1
    BY <1>1, <1>4, Measured
  <2>2. IsCall(o) /\ InnerCall(globals, top)
    BY <1>1, <2>1 DEF LoadInv, CallsInv, BlockCallsOk, StackOk, top
  <2>3. UNCHANGED globals
    BY <1>4, <2>2 DEF InnerCall
  <2> HIDE DEF o
  <2>4. SameLoad(o, d) /\ d.pc = "assemble" /\ d.dir = o.dir
    BY <2>2 DEF SameLoad, IsCall
  <2> HIDE DEF d
  <2>5. StackOk(classes', globals, Append(SubSeq(loads, 1, n - 2), d))
    BY <1>1, <1>4, <2>4, StackReturns DEF o, top
  <2>6. QED BY <1>1, <1>4, <2>3, <2>5, StackPrime DEF d, o
<1>5. QED BY <1>2, <1>3, <1>4 DEF Return

LEMMA OtherStack ==
  ASSUME Base, StackInv,
         HandleArgument \/ ArgumentsHandled \/ Boot \/ Ask \/ GetBlockClassWithArgs \/ Load \/ Loaded
         \/ BlocksForResolve \/ Look \/ PutGlobals \/ ReadLine \/ UNCHANGED vars
  PROVE  StackInv'
<1>1. CASE loads' = << >>
  BY <1>1, NoStackPrime
<1>2. CASE HandleArgument \/ ArgumentsHandled
  BY <1>1, <1>2 DEF HandleArgument, ArgumentsHandled, Base, LoadInv, CallsInv
<1>3. CASE Boot
  <2>1. UNCHANGED <<world, command>> /\ loads = << >>
    BY <1>3 DEF Boot
  <2>2. UNCHANGED loads \/ \E name, how, system : loads' = <<Call(name, how, system)>>
    BY <1>3 DEF Boot
  <2>3. QED BY <1>1, <2>1, <2>2, OneCallPrime
<1>4. CASE Ask \/ GetBlockClassWithArgs \/ Load \/ Loaded \/ BlocksForResolve \/ Look \/ PutGlobals
  <2>1. UNCHANGED <<world, command>> /\ loads = << >>
    BY <1>4 DEF Ask, Idle, GetBlockClassWithArgs, Load, Loaded, BlocksForResolve, Look, PutGlobals, Running
  <2>2. UNCHANGED loads \/ \E name, how, system : loads' = <<Call(name, how, system)>>
    BY <1>4 DEF Ask, GetBlockClassWithArgs, Load, Loaded, BlocksForResolve, Look, PutGlobals
  <2>3. QED BY <1>1, <2>1, <2>2, OneCallPrime
<1>5. CASE ReadLine
  BY <1>1, <1>5 DEF ReadLine
<1>6. CASE UNCHANGED vars
  BY <1>6, StackPrime DEF vars, StackInv
<1>7. QED BY <1>2, <1>3, <1>4, <1>5, <1>6

LEMMA StackStep == Base /\ WordsInv /\ StackInv /\ [Next]_vars => StackInv'
BY OpenFileStack, LoadSuperClassStack, AssembleStack, ReturnStack, OtherStack DEF Next

--------------------
(* What a step does to the classes once those of the system are initialized. *)

Methods(list) == IsSeq(list) /\ \A i \in DOMAIN list : list[i].primitive \in BOOLEAN
IsFile(f) ==
  IsSeq(f.fields) /\ IsSeq(f.classFields) /\ Methods(f.methods) /\ Methods(f.classMethods)

LEMMA FilesAreFiles ==
  ASSUME WordsInv, NEW call, NEW d, Opens(call, d)
  PROVE  IsFile(FileAt(call, d)) /\ (LibraryFits => FileFits(call.name, FileAt(call, d)))
<1> DEFINE f == FileAt(call, d)
<1>1. /\ world \in Worlds /\ command.classPath[d] \in DOMAIN world.dirs
      /\ call.name \in DOMAIN world.dirs[command.classPath[d]].files
      /\ f = world.dirs[command.classPath[d]].files[call.name]
  BY DEF Opens, FileAt, WordsInv
<1> HIDE DEF f
<1>2. f \in ClassFiles /\ (LibraryFits => FileFits(call.name, f))
  BY <1>1, ClassesAssumption DEF LibraryFits
<1>3. f.fields \in Seq(STRING) /\ f.classFields \in Seq(STRING)
  BY <1>2 DEF ClassFiles
<1> DEFINE M == [signature : STRING, primitive : BOOLEAN]
<1>4. f.methods \in Seq(M) /\ f.classMethods \in Seq(M)
  BY <1>2 DEF ClassFiles
<1>5. \A m \in M : m.primitive \in BOOLEAN
  OBVIOUS
<1> HIDE DEF M
<1>6. ASSUME NEW q \in Seq(M) PROVE Methods(q)
  <2>1. IsSeq(q)
    BY SeqIsSeq
  <2>2. \A i \in DOMAIN q : q[i] \in M
    OBVIOUS
  <2>3. QED BY <1>5, <2>1, <2>2 DEF Methods
<1>7. IsSeq(f.fields) /\ IsSeq(f.classFields)
  BY <1>3, SeqIsSeq
<1>8. QED BY <1>2, <1>4, <1>6, <1>7 DEF IsFile, f

LEMMA ShellIsFile == IsFile(ShellClass)
<1>1. IsSeq(ShellClass.fields) /\ IsSeq(ShellClass.classFields)
  BY NoneYet DEF ShellClass
<1>2. Methods(ShellClass.classMethods)
  BY NoneYet DEF ShellClass, Methods
<1>3. Methods(<<[signature |-> "run:", primitive |-> FALSE]>>)
  <2> DEFINE x == [signature |-> "run:", primitive |-> FALSE]
  <2>1. x.primitive \in BOOLEAN
    OBVIOUS
  <2> HIDE DEF x
  <2>2. Methods(<<x>>)
    BY <2>1, Single DEF Methods
  <2>3. QED BY <2>2 DEF x
<1>4. Methods(ShellClass.methods)
  BY <1>3 DEF ShellClass
<1>5. QED BY <1>1, <1>2, <1>4 DEF IsFile

\* A class of the system is filled from its file.
Filling ==
  /\ loads # << >> /\ top.pc = "find" /\ top.system # None /\ Going
  /\ Opens(top, top.dir) /\ classes' = AssembleSystemClass(classes, top.system, FileAt(top, top.dir))
  /\ UNCHANGED <<boot, globals, known, singletons, outcome>>
Adding ==
  /\ \E f : IsFile(f) /\ \E s \in Instances(classes) : classes' = Assembled(classes, f, s)
  /\ \/ outcome = "shell"
     \/ loads # << >> /\ top.pc = "assemble"
  /\ UNCHANGED <<boot, globals, known, singletons>>
Binding == loads # << >> /\ top.pc = "primitives" /\ classes' \in WithPrimitives(top) /\ Return

LEMMA OpenFileChange ==
  ASSUME Base, WordsInv, StackInv, OpenFile
  PROVE  UNCHANGED classes \/ Filling
<1>1. /\ loads # << >> /\ top.pc = "find" /\ Going /\ top.dir <= Len(command.classPath) /\ LoadInv
      /\ UNCHANGED <<boot, globals, known, singletons, outcome>>
  BY DEF OpenFile, Base
<1>2. CASE FileOpens /\ top.system # None
  <2>1. CallReaches(classes, top)
    BY <1>1, TopReaches
  <2>2. top.dir \in Nat \ {0} /\ Len(command.classPath) \in Nat
    BY <2>1, WordsOfPath, Measured DEF CallReaches
  <2>3. top.dir \in DOMAIN command.classPath
    BY <1>1, <2>2, WordsOfPath
  <2>4. Opens(top, top.dir) /\ File = FileAt(top, top.dir)
    BY <1>2, <2>3, FileIsAt, SMTT(20)
  <2>5. classes' = AssembleSystemClass(classes, top.system, File)
    BY <1>2 DEF OpenFile
  <2>6. QED BY <1>1, <1>2, <2>4, <2>5 DEF Filling
<1>3. QED BY <1>2 DEF OpenFile

LEMMA AssembleChange ==
  ASSUME Base, WordsInv, StackInv, Assemble
  PROVE  Adding
<1>1. /\ loads # << >> /\ top.pc = "assemble" /\ LoadInv /\ LinkInv /\ CallsInv
      /\ classes' = Assembled(classes, File, top.super)
      /\ UNCHANGED <<boot, globals, known, singletons>>
  BY DEF Assemble, Base, LoadInv
<1>2. CallReaches(classes, top) /\ CallLinked(top, Instances(classes))
  BY <1>1, TopReaches, TopOfHierarchy
<1>3. Opens(top, top.dir) /\ top.super \in Instances(classes)
  BY <1>1, <1>2 DEF CallReaches, CallLinked
<1>4. IsFile(File)
  BY <1>3, FilesAreFiles, FileIsAt
<1>5. QED BY <1>1, <1>3, <1>4 DEF Adding

LEMMA ReadLineChange ==
  ASSUME Base, boot >= 28, ReadLine
  PROVE  UNCHANGED classes \/ Adding
<1>1. /\ outcome = "shell"
      /\ UNCHANGED <<boot, globals, known, singletons>>
      /\ UNCHANGED classes \/ classes' = Assembled(classes, ShellClass, known["Object"])
  BY DEF ReadLine
<1>2. known["Object"] \in Instances(classes)
  <2>1. PICK j \in 1..13 : AllocationOrder[j] = "Object"
    BY NamesAllocated
  <2>2. boot \in Nat /\ j < boot
    BY <2>1 DEF Base, LoadInv, BindingsInv
  <2>3. QED BY <2>1, <2>2 DEF Base, LinkInv, KnownOk
<1>3. QED BY <1>1, <1>2, ShellIsFile DEF Adding

LEMMA BootChange ==
  ASSUME Base, boot >= 28, Boot
  PROVE  /\ UNCHANGED <<classes, known>> /\ loads = << >> /\ boot \in 28..45
         /\ \/ /\ boot \in 28..40 /\ UNCHANGED <<globals, singletons, boot, outcome>>
               /\ loads' = <<Call(SystemName(boot - 27), "system", known[SystemName(boot - 27)])>>
            \/ /\ boot \in 41..44 /\ UNCHANGED <<globals, singletons, boot, outcome>>
               /\ loads' = <<Call(step.name, "class", None)>>
               /\ step = BootSteps[boot]
            \/ /\ boot = 45 /\ UNCHANGED loads /\ boot' = 46
               /\ NewSingleton("system", known["System"], classes)
               /\ globals' = [n \in DOMAIN globals \cup SystemGlobals |->
                       CASE n = "nil" -> nil
                         [] n \in {"System", "Block"} -> known[n]
                         [] n \in {"true", "false", "system"} -> NotAClass
                         [] OTHER -> globals[n]]
               /\ outcome' \in {"shell", "crashed", "running"}
<1>1. boot \in Nat \ {0} /\ boot <= Len(BootSteps) /\ loads = << >> /\ outcome = "booting"
  BY DEF Base, LoadInv, BindingsInv, Boot
<1>2. \/ boot \in 28..40 /\ step = Step("system", SystemName(boot - 27), "")
      \/ boot \in 41..44 /\ step.op = "class"
      \/ boot = 45 /\ step.op = "globals"
  <2>1. ~(boot \in 1..13) /\ boot # 14 /\ ~(boot \in 15..27)
    BY <1>1
  <2>2. QED
    <3>1. \A n : Step("class", n, "").op = "class"
      BY DEF Step
    <3>2. Step("globals", "", "").op = "globals"
      BY DEF Step
    <3>3. QED BY <1>1, <2>1, <3>1, <3>2, BootStepIs DEF SystemName
<1>3. CASE boot \in 28..40 /\ step = Step("system", SystemName(boot - 27), "")
  <2>1. step.op = "system" /\ step.name = SystemName(boot - 27)
    <3>1. \A n : Step("system", n, "").op = "system" /\ Step("system", n, "").name = n
      BY DEF Step
    <3>2. QED BY <1>3, <3>1
  <2>2. /\ loads' = <<Call(step.name, "system", known[step.name])>>
        /\ UNCHANGED <<classes, known, globals, singletons, boot, outcome>>
    BY <2>1 DEF Boot
  <2>3. boot \in 28..45
    <3>1. boot \in 28..40
      BY <1>3
    <3> HIDE <1>3
    <3>2. QED BY <3>1
  <2>4. QED BY <1>1, <1>3, <2>1, <2>2, <2>3
<1>4. CASE boot \in 41..44 /\ step.op = "class"
  <2>1. /\ loads' = <<Call(step.name, "class", None)>>
        /\ UNCHANGED <<classes, known, globals, singletons, boot, outcome>>
    BY <1>4 DEF Boot
  <2>2. boot \in 28..45
    BY <1>4
  <2>3. QED BY <1>1, <1>4, <2>1, <2>2 DEF step
<1>5. CASE boot = 45 /\ step.op = "globals"
  <2>1. /\ NewSingleton("system", known["System"], classes)
        /\ globals' = [n \in DOMAIN globals \cup SystemGlobals |->
                       CASE n = "nil" -> nil
                         [] n \in {"System", "Block"} -> known[n]
                         [] n \in {"true", "false", "system"} -> NotAClass
                         [] OTHER -> globals[n]]
        /\ boot' = boot + 1
        /\ UNCHANGED <<classes, known, loads>>
        /\ outcome' \in {"shell", "crashed", "running"}
    BY <1>5 DEF Boot
  <2>2. boot \in 28..45 /\ boot' = 46
    BY <1>5, <2>1
  <2>3. QED BY <1>1, <1>5, <2>1, <2>2
<1>6. QED BY <1>2, <1>3, <1>4, <1>5

LEMMA ReturnChange ==
  ASSUME Base, Return
  PROVE  /\ loads # << >> /\ top.pc = "primitives" /\ Going
         /\ \/ /\ UNCHANGED <<classes, globals, loads, boot, known, singletons, request>>
               /\ outcome' = "quit"
            \/ /\ Binding /\ UNCHANGED outcome
               /\ IF top.how = "block" THEN Bind(top.name, top.class) ELSE UNCHANGED globals
               /\ \/ /\ Len(loads) > 1
                     /\ loads' = Append(SubSeq(loads, 1, Len(loads) - 2),
                             [loads[Len(loads) - 1] EXCEPT !.super = top.class, !.pc = "assemble"])
                     /\ UNCHANGED <<boot, known, singletons, request>>
                  \/ /\ Len(loads) = 1 /\ loads' = << >> /\ outcome = "booting"
                     /\ boot' = boot + 1 /\ UNCHANGED request
                     /\ known' = IF top.name \in {"Block", "System"}
                                 THEN [known EXCEPT ![top.name] = top.class] ELSE known
                     /\ \/ UNCHANGED singletons
                        \/ /\ top.name \in {"True", "False"}
                           /\ NewSingleton(top.name, top.class, classes')
                  \/ /\ Len(loads) = 1 /\ loads' = << >> /\ outcome # "booting"
                     /\ UNCHANGED <<boot, known, singletons>>
                     /\ request' = IF top.how = "block" THEN request
                                   ELSE [request EXCEPT !.class = top.class, !.pc = "loaded"]
<1>1. loads # << >> /\ top.pc = "primitives" /\ Going /\ (Len(loads) > 1 \/ Len(loads) = 1)
  <2>1. loads # << >> /\ top.pc = "primitives" /\ Going
    BY DEF Return
  <2>2. Len(loads) \in DOMAIN loads /\ DOMAIN loads = 1..Len(loads) /\ Len(loads) \in Nat
    BY <2>1, Measured DEF Base, LoadInv, CallsInv
  <2> DEFINE n == Len(loads)
  <2>3. n \in 1..n /\ n \in Nat
    BY <2>2
  <2> HIDE DEF n
  <2>4. n > 1 \/ n = 1
    BY <2>3
  <2>5. QED BY <2>1, <2>4 DEF n
<1>2. CASE WithPrimitives(top) = {} /\ Failed("quit") /\ UNCHANGED <<classes, globals, loads, boot, known, singletons, request>>
  BY <1>1, <1>2 DEF Failed
<1>3. CASE WithPrimitives(top) # {} /\ classes' = (CHOOSE cs \in WithPrimitives(top) : TRUE)
  <2>1. classes' \in WithPrimitives(top)
    BY <1>3
  <2>2. Binding
    BY <1>1, <2>1 DEF Binding
  <2>3. UNCHANGED outcome /\ (IF top.how = "block" THEN Bind(top.name, top.class) ELSE UNCHANGED globals)
    BY <1>3 DEF Return
  <2>4. CASE Len(loads) > 1
    <3>1. /\ loads' = Append(SubSeq(loads, 1, Len(loads) - 2),
                             [loads[Len(loads) - 1] EXCEPT !.super = top.class, !.pc = "assemble"])
          /\ UNCHANGED <<boot, known, singletons, request>>
      BY <1>3, <2>4 DEF Return
    <3>2. QED BY <1>1, <2>2, <2>3, <2>4, <3>1
  <2>5. CASE ~(Len(loads) > 1) /\ outcome = "booting"
    <3>1. Len(loads) = 1
      BY <1>1, <2>5
    <3>2. /\ loads' = << >> /\ boot' = boot + 1 /\ UNCHANGED request
          /\ known' = IF top.name \in {"Block", "System"}
                                 THEN [known EXCEPT ![top.name] = top.class] ELSE known
      BY <1>3, <2>5 DEF Return
    <3>3. \/ UNCHANGED singletons
          \/ /\ top.name \in {"True", "False"}
             /\ NewSingleton(top.name, top.class, classes')
      BY <1>3, <2>5 DEF Return
    <3>4. QED BY <1>1, <2>2, <2>3, <2>5, <3>1, <3>2, <3>3
  <2>6. CASE ~(Len(loads) > 1) /\ outcome # "booting"
    <3>1. Len(loads) = 1
      BY <1>1, <2>6
    <3>2. /\ loads' = << >> /\ UNCHANGED <<boot, known, singletons>>
          /\ request' = IF top.how = "block" THEN request
                        ELSE [request EXCEPT !.class = top.class, !.pc = "loaded"]
      BY <1>3, <2>6 DEF Return
    <3>3. QED BY <1>1, <2>2, <2>3, <2>6, <3>1, <3>2
  <2>7. QED BY <2>4, <2>5, <2>6
<1>4. QED BY <1>2, <1>3 DEF Return

ClassesChange == UNCHANGED classes \/ Filling \/ Adding \/ Binding
SystemKnown == \A n \in KnownNames \ {"Block", "System"} : known'[n] = known[n]

LEMMA LaterChange ==
  ASSUME Base, WordsInv, StackInv, [Next]_vars, boot >= 28, outcome # "starting"
  PROVE  UNCHANGED <<world, command>> /\ ClassesChange /\ SystemKnown
<1>1. CASE OpenFile
  BY <1>1, OpenFileChange DEF OpenFile, ClassesChange, SystemKnown
<1>2. CASE Assemble
  BY <1>2, AssembleChange DEF Assemble, ClassesChange, SystemKnown
<1>3. CASE ReadLine
  BY <1>3, ReadLineChange DEF ReadLine, ClassesChange, SystemKnown
<1>4. CASE Boot
  BY <1>4, BootChange DEF Boot, ClassesChange, SystemKnown
<1>5. CASE Return
  <2>1. UNCHANGED <<world, command>>
    BY <1>5 DEF Return
  <2>2. ClassesChange
    BY <1>5, ReturnChange DEF ClassesChange
  <2>3. \/ UNCHANGED known
        \/ top.name \in {"Block", "System"} /\ known' = [known EXCEPT ![top.name] = top.class]
    BY <1>5, ReturnChange DEF Binding
  <2>4. SystemKnown
    BY <2>3 DEF SystemKnown, Base, LinkInv, KnownOk
  <2>5. QED BY <2>1, <2>2, <2>4
<1>6. CASE HandleArgument \/ ArgumentsHandled
  BY <1>6 DEF HandleArgument, ArgumentsHandled
<1>7. CASE NotFound \/ LoadSuperClass \/ UNCHANGED vars
  BY <1>7 DEF NotFound, LoadSuperClass, vars, ClassesChange, SystemKnown
<1>8. CASE Ask \/ GetBlockClassWithArgs \/ Load \/ Loaded \/ BlocksForResolve \/ Look \/ PutGlobals
  BY <1>8, SMTT(20) DEF Ask, GetBlockClassWithArgs, Load, Loaded, BlocksForResolve, Look, PutGlobals, ClassesChange, SystemKnown
<1>9. QED BY <1>1, <1>2, <1>3, <1>4, <1>5, <1>6, <1>7, <1>8, SMTT(20) DEF Next

\* The classes of the system: how they are called, and their pairs.
LEMMA SystemPairs ==
  ASSUME Base, boot >= 28
  PROVE  /\ \A j \in 1..13 : known[AllocationOrder[j]] = 2 * j /\ 2 * j \in Instances(classes)
         /\ \A i \in 1..13 : SystemName(i) \in KnownNames \ {"Block", "System"}
         /\ \A i \in 1..13 : \E j \in 1..13 : SystemName(i) = AllocationOrder[j]
         /\ \A j \in 1..13 : AllocationOrder[j] \in KnownNames \ {"Block", "System"}
<1>1. boot \in Nat /\ \A j \in 1..13 : j < boot
  BY DEF Base, LoadInv, BindingsInv
<1>2. QED
  <2>1. \A j \in 1..13 : known[AllocationOrder[j]] = 2 * j /\ 2 * j \in Instances(classes)
    BY <1>1, Zenon DEF Base, LinkInv, KnownOk
  <2>2. \A i \in 1..13 : \E j \in 1..13 : SystemName(i) = AllocationOrder[j]
    BY NamesAllocated, Zenon DEF SystemName
  <2>3. \A j \in 1..13 : AllocationOrder[j] \in KnownNames \ {"Block", "System"}
    BY AllocationNames, Zenon
  <2>4. QED BY <2>1, <2>2, <2>3, Zenon

LEMMA LinksOfChange ==
  ASSUME Base, boot >= 28, ClassesChange
  PROVE  LinksGrow
<1>1. /\ ClassObjects(classes) /\ Hierarchy(classes, DOMAIN globals, known["Class"]) /\ LinkInv /\ CallsInv
  BY DEF Base, LinkInv, LoadInv
<1>2. CASE UNCHANGED classes
  BY <1>2 DEF LinksGrow
<1>3. CASE Filling
  <2> DEFINE c == top.system
             m == classes[c].class
  <2>1. c \in Instances(classes)
    BY <1>1, <1>3, TopOfHierarchy DEF Filling, CallLinked
  <2>2. c \in DOMAIN classes /\ m \in DOMAIN classes /\ c # m
    BY <1>1, <2>1 DEF Hierarchy, Linked, Instances
  <2>5. SameLinks(classes, classes')
    BY <1>1, <1>3, <2>2, ClassFilled DEF Filling
  <2>6. QED BY <2>5 DEF LinksGrow
<1>4. CASE Adding
  BY <1>4 DEF Adding, LinksGrow
<1>5. CASE Binding
  <2>1. top.class \in Instances(classes)
    BY <1>1, <1>5, TopOfHierarchy DEF Binding, CallLinked
  <2>2. top.class \in DOMAIN classes /\ classes[top.class].class \in DOMAIN classes
    BY <1>1, <2>1 DEF Hierarchy, Linked, Instances
  <2>3. SameLinks(classes, classes')
    BY <1>1, <1>5, <2>2, LoadedWithPrimitives DEF Binding
  <2>4. QED BY <2>3 DEF LinksGrow
<1>6. QED BY <1>2, <1>3, <1>4, <1>5 DEF ClassesChange

\* What a step leaves of a class.
OldClasses ==
  /\ ClassObjects(classes') /\ Instances(classes) \subseteq Instances(classes')
  /\ \A c \in DOMAIN classes :
        /\ c \in DOMAIN classes'
        /\ classes'[c].name = classes[c].name /\ classes'[c].side = classes[c].side
        /\ classes'[c].class = classes[c].class /\ classes'[c].super = classes[c].super

LEMMA OldClassesKept ==
  ASSUME ClassObjects(classes), LinksGrow
  PROVE  OldClasses
<1>1. CASE UNCHANGED classes
  BY <1>1 DEF OldClasses
<1>2. CASE SameLinks(classes, classes')
  BY <1>2 DEF OldClasses, SameLinks, Instances
<1>3. ASSUME NEW f, NEW s \in Instances(classes), classes' = Assembled(classes, f, s)
      PROVE  OldClasses
  <2> DEFINE n == Len(classes)
  <2>1. /\ ClassObjects(classes') /\ n \in Nat /\ DOMAIN classes = 1..n /\ DOMAIN classes' = 1..(n + 2)
        /\ \A c \in DOMAIN classes : classes'[c] = classes[c]
    BY <1>3, NewClasses
  <2>2. DOMAIN classes \subseteq DOMAIN classes'
    BY <2>1
  <2>3. QED BY <2>1, <2>2 DEF OldClasses, Instances
<1>4. QED BY <1>1, <1>2, <1>3 DEF LinksGrow

--------------------
(* The classes of the system are there, and the others that are loaded while *)
(* the virtual machine starts. *)

GlobalIn(cs, gs, c) == cs[c].name \in DOMAIN gs /\ gs[cs[c].name] = c
GlobalClass(c) == GlobalIn(classes, globals, c)
SystemGlobal(i) ==
  /\ SystemName(i) \in DOMAIN globals /\ globals[SystemName(i)] = known[SystemName(i)]
  /\ SystemLinked(i)
  /\ classes[2 * i].class = 2 * i - 1
  /\ 2 * i - 1 \in DOMAIN classes /\ classes[2 * i - 1].side = "class"

LEMMA SystemNamesAre == \A n \in SystemClasses : \E i \in 1..13 : n = SystemName(i)
<1>1. /\ SystemName(1) = "Object" /\ SystemName(2) = "Class" /\ SystemName(3) = "Metaclass"
      /\ SystemName(4) = "Nil" /\ SystemName(5) = "Array" /\ SystemName(6) = "Method"
      /\ SystemName(7) = "Symbol" /\ SystemName(8) = "Integer" /\ SystemName(9) = "BigInteger"
      /\ SystemName(10) = "Frame" /\ SystemName(11) = "Primitive" /\ SystemName(12) = "String"
      /\ SystemName(13) = "Double"
  BY DEF SystemName, SystemSuperClasses
<1>2. {1, 2, 3, 4, 5, 6, 7, 8, 9, 10, 11, 12, 13} \subseteq 1..13
  OBVIOUS
<1>3. QED BY <1>1, <1>2 DEF SystemClasses

LEMMA SystemStays ==
  ASSUME Base, boot >= 28, OldClasses, SystemKnown, Kept, \A i \in 1..13 : SystemGlobal(i)
  PROVE  \A i \in 1..13 : SystemGlobal(i)'
<1> SUFFICES ASSUME NEW i \in 1..13 PROVE SystemGlobal(i)'
  OBVIOUS
<1>1. PICK j \in 1..13 : SystemName(i) = AllocationOrder[j]
  BY NamesAllocated DEF SystemName
<1>2. /\ known[SystemName(i)] = 2 * j /\ known'[SystemName(i)] = 2 * j
      /\ 2 * j \in DOMAIN classes /\ 2 * j - 1 \in DOMAIN classes
  <2>1. /\ known[AllocationOrder[j]] = 2 * j /\ 2 * j \in Instances(classes)
        /\ AllocationOrder[j] \in KnownNames \ {"Block", "System"}
    BY SystemPairs
  <2>2. SystemGlobal(j)
    OBVIOUS
  <2>3. QED BY <1>1, <2>1, <2>2 DEF SystemKnown, SystemGlobal, Instances
<1>3. known'["Class"] = known["Class"]
  BY DEF SystemKnown, KnownNames, SystemClasses
<1>4. SystemSuperClasses[i][2] # "" => known'[SystemSuperClasses[i][2]] = known[SystemSuperClasses[i][2]]
  <2>1. SUFFICES ASSUME SystemSuperClasses[i][2] # ""
        PROVE known'[SystemSuperClasses[i][2]] = known[SystemSuperClasses[i][2]]
    OBVIOUS
  <2>2. PICK k \in 1..13 : SystemSuperClasses[i][2] = AllocationOrder[k]
    BY <2>1, NamesAllocated, Zenon
  <2>3. QED BY <2>2, AllocationNames DEF SystemKnown
<1>5. SystemGlobal(i)
  OBVIOUS
<1>6. /\ SystemName(i) \in DOMAIN globals' /\ globals'[SystemName(i)] = known'[SystemName(i)]
  <2>1. globals[SystemName(i)] > 0
    BY <1>2, <1>5 DEF SystemGlobal
  <2>2. QED BY <1>2, <1>5, <2>1 DEF SystemGlobal, Kept
<1>7. SystemLinked(i)'
  <2> DEFINE c == 2 * j
  <2>1. SystemSuperClasses[i][1] = SystemName(i) /\ known[SystemName(i)] = c /\ known'[SystemName(i)] = c
    BY <1>2 DEF SystemName
  <2>2. c \in DOMAIN classes /\ c - 1 \in DOMAIN classes
    BY <1>2
  <2> HIDE DEF c
  <2>3. /\ classes'[c].name = classes[c].name /\ classes'[c].super = classes[c].super
        /\ classes'[c - 1].super = classes[c - 1].super
    BY <2>2 DEF OldClasses
  <2>4. SystemLinked(i)
    BY <1>5 DEF SystemGlobal
  <2>5. SystemName(i) \in DOMAIN globals'
    BY <1>6
  <2>6. QED BY <1>3, <1>4, <2>1, <2>3, <2>4, <2>5 DEF SystemLinked
<1>8. /\ classes'[2 * i].class = 2 * i - 1
      /\ 2 * i - 1 \in DOMAIN classes' /\ classes'[2 * i - 1].side = "class"
  <2>1. 2 * i \in DOMAIN classes /\ 2 * i - 1 \in DOMAIN classes
    BY <1>5, SystemPairs DEF SystemGlobal, Instances
  <2>2. QED BY <1>5, <2>1 DEF SystemGlobal, OldClasses
<1>9. QED BY <1>6, <1>7, <1>8 DEF SystemGlobal

\* The classes of the system are globals.
LEMMA SystemIsGlobal ==
  ASSUME Base, boot >= 28, \A i \in 1..13 : SystemGlobal(i), NEW n \in SystemClasses
  PROVE  /\ n \in DOMAIN globals /\ globals[n] > 0 /\ globals[n] \in Instances(classes)
         /\ classes[globals[n]].name = n /\ GlobalClass(globals[n])
<1>1. PICK i \in 1..13 : n = SystemName(i)
  BY SystemNamesAre
<1>2. PICK j \in 1..13 : SystemName(i) = AllocationOrder[j]
  BY NamesAllocated DEF SystemName
<1>3. known[n] = 2 * j /\ 2 * j > 0 /\ 2 * j \in Instances(classes)
  BY <1>1, <1>2, SystemPairs
<1>4. SystemGlobal(i)
  OBVIOUS
<1>5. n \in DOMAIN globals /\ globals[n] = 2 * j /\ classes[2 * j].name = n
  BY <1>1, <1>3, <1>4 DEF SystemGlobal, SystemLinked, SystemName
<1>6. QED BY <1>3, <1>5 DEF GlobalClass, GlobalIn

FirstCall ==
  /\ boot \in 28..44
  /\ boot <= 40 => /\ loads[1].name = SystemName(boot - 27) /\ Len(loads) = 1
                   /\ loads[1].system = known[SystemName(boot - 27)]
  /\ boot > 40 => loads[1].name = BootSteps[boot].name /\ loads[1].system = None
  /\ boot \in {41, 44} =>
        /\ Len(loads) = 1
        /\ loads[1].pc = "assemble" => GlobalClass(loads[1].super)
        /\ loads[1].pc = "primitives" => GlobalClass(classes[loads[1].class].super)
Outcomes == {"booting", "running", "shell", "quit", "error", "crashed", "overflow", "ended"}
BootInv ==
  /\ \A i \in 1..13 : SystemGlobal(i)
  /\ boot <= 46 /\ outcome \in Outcomes
  /\ outcome \in {"running", "shell"} => boot = 46
  /\ boot <= 40 => Len(classes) = 26
  /\ boot > 41 => known["Block"] # None
  /\ boot > 44 => known["System"] # None
  /\ outcome = "booting" /\ loads # << >> => FirstCall

\* What is known of Block and System stays known.
LEMMA KnownStays ==
  ASSUME Base, boot >= 28, UNCHANGED known \/ \E n \in {"Block", "System"}, c \in Instances(classes) :
                                                  known' = [known EXCEPT ![n] = c]
  PROVE  \A n \in {"Block", "System"} : known[n] # None => known'[n] # None
<1>1. CASE UNCHANGED known
  BY <1>1
<1>2. ASSUME NEW n \in {"Block", "System"}, NEW c \in Instances(classes), known' = [known EXCEPT ![n] = c]
      PROVE  \A k \in {"Block", "System"} : known[k] # None => known'[k] # None
  <2>1. c # None
    <3>1. DOMAIN classes = 1..Len(classes) /\ Len(classes) \in Nat
      BY Measured DEF Base, LinkInv, ClassObjects
    <3>2. QED BY <3>1 DEF Instances, None
  <2>2. DOMAIN known = KnownNames /\ {"Block", "System"} \subseteq KnownNames
    BY DEF Base, LinkInv, KnownOk, KnownNames
  <2>3. QED BY <1>2, <2>1, <2>2
<1>3. QED BY <1>1, <1>2

\* Steps that leave what BootInv is about, or end the start.
LEMMA BootKeeps ==
  ASSUME BootInv, \A i \in 1..13 : SystemGlobal(i)', UNCHANGED <<boot, known>>, outcome' \in Outcomes,
         UNCHANGED classes \/ outcome \in {"running", "shell"},
         outcome' \in {"running", "shell"} => outcome' = outcome,
         outcome' # "booting" \/ (UNCHANGED <<outcome, loads, classes, globals>>)
  PROVE  BootInv'
<1>1. outcome' \in {"running", "shell"} => boot' = 46
  BY DEF BootInv
<1>2. boot' <= 40 => Len(classes') = 26
  BY DEF BootInv
<1>3. outcome' = "booting" /\ loads' # << >> => FirstCall'
  BY DEF BootInv, FirstCall, GlobalClass, GlobalIn
<1>4. QED BY <1>1, <1>2, <1>3 DEF BootInv

\* A call for Block or System finds the superclass.
LEMMA BlockAndSystem ==
  /\ BootSteps[41].name = "Block" /\ BootSteps[44].name = "System"
<1>1. \A n : Step("class", n, "").name = n
  BY DEF Step
<1>2. QED BY <1>1, BootStepsAre

LEMMA CallSet ==
  ASSUME IsSeq(loads), loads # << >>, NEW d, SetTop(d)
  PROVE  /\ IsSeq(loads') /\ Len(loads') = Len(loads) /\ loads'[Len(loads)] = d
         /\ \A i \in DOMAIN loads : i # Len(loads) => loads'[i] = loads[i]
BY TopSet DEF SetTop

\* The first call stays the first.
LEMMA TopBoots ==
  ASSUME Base, BootInv, loads # << >>, NEW d, SetTop(d), SameLoad(top, d),
         \A i \in 1..13 : SystemGlobal(i)', UNCHANGED <<boot, known, outcome>>,
         boot <= 40 => Len(classes') = 26,
         outcome = "booting" /\ boot \in {41, 44} =>
            /\ d.pc = "assemble" => GlobalIn(classes', globals', d.super)
            /\ d.pc = "primitives" => GlobalIn(classes', globals', classes'[d.class].super)
  PROVE  BootInv'
<1>1. /\ IsSeq(loads') /\ Len(loads') = Len(loads) /\ loads'[Len(loads)] = d
      /\ \A i \in DOMAIN loads : i # Len(loads) => loads'[i] = loads[i]
      /\ DOMAIN loads = 1..Len(loads) /\ Len(loads) \in Nat /\ Len(loads) \in DOMAIN loads
  <2>1. IsSeq(loads)
    BY DEF Base, LoadInv, CallsInv
  <2>2. DOMAIN loads = 1..Len(loads) /\ Len(loads) \in Nat /\ Len(loads) \in DOMAIN loads
    BY <2>1, Measured
  <2>3. /\ IsSeq(loads') /\ Len(loads') = Len(loads) /\ loads'[Len(loads)] = d
        /\ \A i \in DOMAIN loads : i # Len(loads) => loads'[i] = loads[i]
    BY <2>1, CallSet, Zenon
  <2>4. QED BY <2>2, <2>3
<1>2. loads'[1].name = loads[1].name /\ loads'[1].system = loads[1].system
  <2>1. 1 \in DOMAIN loads
    BY <1>1
  <2>2. CASE Len(loads) = 1
    BY <1>1, <2>2 DEF SameLoad, top
  <2>3. CASE Len(loads) # 1
    BY <1>1, <2>1, <2>3
  <2>4. QED BY <2>2, <2>3
<1>3. outcome = "booting" => FirstCall
  BY DEF BootInv
<1>4. CASE outcome # "booting"
  BY <1>4 DEF BootInv
<1>5. CASE outcome = "booting"
  <2>1. boot \in {41, 44} => Len(loads) = 1 /\ loads'[1] = d
    BY <1>1, <1>3, <1>5 DEF FirstCall
  <2>2. boot' <= 40 => /\ loads'[1].name = SystemName(boot' - 27) /\ Len(loads') = 1
                       /\ loads'[1].system = known'[SystemName(boot' - 27)]
    BY <1>1, <1>2, <1>3, <1>5 DEF FirstCall
  <2>3. boot' > 40 => loads'[1].name = BootSteps[boot'].name /\ loads'[1].system = None
    BY <1>2, <1>3, <1>5 DEF FirstCall
  <2>4. boot' \in {41, 44} =>
          /\ Len(loads') = 1
          /\ loads'[1].pc = "assemble" => GlobalIn(classes', globals', loads'[1].super)
          /\ loads'[1].pc = "primitives" => GlobalIn(classes', globals', classes'[loads'[1].class].super)
    BY <1>1, <1>5, <2>1
  <2>5. boot' \in 28..44
    BY <1>3, <1>5 DEF FirstCall
  <2>6. FirstCall'
    BY <2>2, <2>3, <2>4, <2>5 DEF FirstCall, GlobalClass
  <2>7. QED BY <2>6 DEF BootInv
<1>6. QED BY <1>4, <1>5

\* What every step gives once the classes of the system are initialized.
Changed ==
  /\ UNCHANGED <<world, command>> /\ ClassesChange /\ SystemKnown /\ OldClasses /\ Kept
  /\ \A i \in 1..13 : SystemGlobal(i)'
  /\ Base' /\ StackInv' /\ WordsInv'

Before == Base /\ WordsInv /\ StackInv /\ BootInv /\ boot >= 28

LEMMA StepChanges ==
  ASSUME Before, [Next]_vars
  PROVE  Changed
<1>1. outcome # "starting" /\ \A i \in 1..13 : SystemGlobal(i)
  BY DEF Before, BootInv, Outcomes
<1>2. UNCHANGED <<world, command>> /\ ClassesChange /\ SystemKnown
  BY <1>1, LaterChange DEF Before
<1>3. LinksGrow
  BY <1>2, LinksOfChange DEF Before
<1>4. OldClasses
  BY <1>3, OldClassesKept DEF Before, Base, LinkInv
<1>5. Base' /\ Kept /\ StackInv' /\ WordsInv'
  BY BaseStep, StackStep, WordsStep DEF Before
<1>6. \A i \in 1..13 : SystemGlobal(i)'
  BY <1>1, <1>2, <1>4, <1>5, SystemStays DEF Before
<1>7. QED BY <1>2, <1>4, <1>5, <1>6 DEF Changed

\* The one call for a class of the system.
LEMMA SystemCalls ==
  ASSUME Before, loads # << >>, boot <= 40
  PROVE  outcome = "booting" => /\ Len(loads) = 1 /\ top.system # None /\ top = loads[1]
                                /\ top.pc \in {"find", "primitives"}
<1> SUFFICES ASSUME outcome = "booting"
             PROVE  Len(loads) = 1 /\ top.system # None /\ top = loads[1] /\ top.pc \in {"find", "primitives"}
  OBVIOUS
<1>1. FirstCall
  BY DEF Before, BootInv
<1>2. Len(loads) = 1 /\ top = loads[1] /\ loads[1].system = known[SystemName(boot - 27)] /\ boot \in 28..40
  <2>1. boot \in 28..44
    BY <1>1 DEF FirstCall
  <2>2. boot \in 28..40
    BY <2>1
  <2>3. QED BY <1>1, <2>2 DEF FirstCall, top
<1>3. boot - 27 \in 1..13
  BY <1>2
<1>4. PICK j \in 1..13 : SystemName(boot - 27) = AllocationOrder[j]
  BY <1>3, SystemPairs DEF Before
<1>5. known[SystemName(boot - 27)] = 2 * j /\ 2 * j # 0
  <2>1. known[AllocationOrder[j]] = 2 * j
    BY SystemPairs, Zenon DEF Before
  <2>2. known[SystemName(boot - 27)] = 2 * j
    BY <1>4, <2>1, Zenon
  <2>3. QED BY <2>2
<1>6. top.system # None
  BY <1>2, <1>5 DEF None
<1>7. CallReaches(classes, top)
  BY TopReaches DEF Before, Base
<1>8. QED BY <1>2, <1>6, <1>7 DEF CallReaches

LEMMA BootFails ==
  ASSUME Before, Changed, UNCHANGED <<boot, known, classes>>, outcome' \in Outcomes \ {"booting", "running", "shell"}
  PROVE  BootInv'
BY BootKeeps DEF Before, Changed

LEMMA OpenFileBoots ==
  ASSUME Before, Changed, OpenFile
  PROVE  BootInv'
<1>1. /\ loads # << >> /\ top.pc = "find" /\ CallsInv /\ UNCHANGED <<boot, known, outcome>>
      /\ BootInv /\ boot >= 28
  BY DEF OpenFile, Before, Base, LoadInv
<1>2. IsCall(top)
  BY <1>1, TopIsCall
<1>3. PICK d : SetTop(d) /\ SameLoad(top, d) /\ d.pc # "assemble" /\ (d.pc = "primitives" => top.system # None)
  <2>1. CASE ~FileOpens
    <3> DEFINE d == [top EXCEPT !.dir = @ + 1]
    <3>1. SameLoad(top, d) /\ d.pc = "find" /\ SetTop(d)
      BY <1>1, <1>2, <2>1 DEF SameLoad, IsCall, OpenFile
    <3> HIDE DEF d
    <3>2. QED BY <3>1
  <2>2. CASE FileOpens /\ top.system = None
    <3> DEFINE d == [top EXCEPT !.pc = "super"]
    <3>1. SameLoad(top, d) /\ d.pc = "super" /\ SetTop(d)
      BY <1>1, <1>2, <2>2 DEF SameLoad, IsCall, OpenFile
    <3> HIDE DEF d
    <3>2. QED BY <3>1
  <2>3. CASE FileOpens /\ top.system # None
    <3> DEFINE d == [top EXCEPT !.pc = "primitives", !.class = top.system]
    <3>1. SameLoad(top, d) /\ d.pc = "primitives" /\ SetTop(d)
      BY <1>1, <1>2, <2>3 DEF SameLoad, IsCall, OpenFile
    <3> HIDE DEF d
    <3>2. QED BY <2>3, <3>1
  <2>4. QED BY <2>1, <2>2, <2>3
<1>4. boot <= 40 => Len(classes') = 26
  <2>1. DOMAIN classes' = DOMAIN classes /\ ClassObjects(classes')
    <3>1. UNCHANGED classes \/ Filling
      BY OpenFileChange, Zenon DEF Before
    <3>2. CASE UNCHANGED classes
      BY <3>2 DEF Changed, OldClasses
    <3>3. CASE Filling
      <4>1. DOMAIN classes' = DOMAIN classes
        BY <3>3, Zenon DEF Filling, AssembleSystemClass
      <4>2. QED BY <4>1 DEF Changed, OldClasses
    <3>4. QED BY <3>1, <3>2, <3>3
  <2>2. Len(classes') = Len(classes)
    <3>1. IsSeq(classes) /\ IsSeq(classes')
      BY <2>1 DEF ClassObjects, Before, Base, LinkInv
    <3>2. DOMAIN classes = 1..Len(classes) /\ DOMAIN classes' = 1..Len(classes') /\ Len(classes) \in Nat /\ Len(classes') \in Nat
      BY <3>1, Measured
    <3>3. QED BY <2>1, <3>2
  <2>3. QED BY <1>1, <2>2 DEF BootInv
<1>5. outcome = "booting" /\ boot \in {41, 44} => top.system = None
  <2>1. SUFFICES ASSUME outcome = "booting", boot \in {41, 44} PROVE top.system = None
    OBVIOUS
  <2>2. FirstCall /\ boot > 40
    BY <1>1, <2>1 DEF BootInv
  <2>3. Len(loads) = 1 /\ loads[1].system = None
    BY <2>1, <2>2 DEF FirstCall
  <2>4. QED BY <2>3 DEF top
<1>6. QED BY <1>1, <1>3, <1>4, <1>5, TopBoots DEF Before, Changed

LEMMA LoadSuperClassBoots ==
  ASSUME LibraryFits, Before, Changed, LoadSuperClass
  PROVE  BootInv'
<1>1. /\ loads # << >> /\ top.pc = "super" /\ CallsInv /\ UNCHANGED <<boot, known, classes, globals>>
      /\ BootInv /\ boot >= 28 /\ LoadInv
  BY DEF LoadSuperClass, Before, Base, LoadInv
<1>2. /\ IsCall(top) /\ CallReaches(classes, top)
  BY <1>1, TopReaches DEF Before
<1>3. outcome = "booting" => boot > 40
  <2>1. SUFFICES ASSUME outcome = "booting", boot <= 40 PROVE FALSE
    BY <1>1 DEF Before, Base, LoadInv, BindingsInv
  <2>2. QED BY <1>1, <2>1, SystemCalls
\* Block and System find their superclass.
<1>4. ASSUME outcome = "booting", boot \in {41, 44}
      PROVE  HasGlobal(File.super) /\ GlobalClass(globals[File.super]) /\ Len(loads) = 1
  <2>1. FirstCall /\ boot > 40
    BY <1>1, <1>4 DEF BootInv
  <2>2. Len(loads) = 1 /\ loads[1].name = BootSteps[boot].name
    BY <1>4, <2>1 DEF FirstCall
  <2>3. top.name \in {"Block", "System"}
    BY <1>4, <2>2, BlockAndSystem DEF top
  <2>4. FileFits(top.name, FileAt(top, top.dir))
    BY <1>1, <1>2, FilesAreFiles DEF CallReaches, Before
  <2>5. File.super \in SystemClasses
    BY <2>3, <2>4, FileIsAt DEF FileFits
  <2>6. QED BY <1>1, <2>2, <2>5, SystemIsGlobal DEF Before, BootInv, HasGlobal
<1>5. CASE Failed("crashed") \/ Failed("overflow")
  BY <1>1, <1>5, BootFails DEF Failed, Outcomes
<1>6. ASSUME SetTop([top EXCEPT !.super = globals[File.super], !.pc = "assemble"]), UNCHANGED outcome
      PROVE  BootInv'
  <2> DEFINE d == [top EXCEPT !.super = globals[File.super], !.pc = "assemble"]
  <2>1. SameLoad(top, d) /\ d.pc = "assemble" /\ d.super = globals[File.super]
    BY <1>2 DEF SameLoad, IsCall
  <2>2. SetTop(d)
    BY <1>6
  <2> HIDE DEF d
  <2>3. outcome = "booting" /\ boot \in {41, 44} => GlobalIn(classes, globals, d.super)
    BY <1>4, <2>1 DEF GlobalClass
  <2>4. GlobalIn(classes, globals, d.super) = GlobalIn(classes', globals', d.super)
    BY <1>1
  <2>5. outcome = "booting" /\ boot \in {41, 44} =>
            /\ d.pc = "assemble" => GlobalIn(classes', globals', d.super)
            /\ d.pc = "primitives" => GlobalIn(classes', globals', classes'[d.class].super)
    BY <2>1, <2>3, <2>4
  <2>6. boot <= 40 => Len(classes') = 26
    BY <1>1 DEF BootInv
  <2>7. QED BY <1>1, <1>6, <2>1, <2>2, <2>5, <2>6, TopBoots DEF Before, Changed
<1>7. ASSUME ~HasGlobal(File.super), loads' = Append(loads, Call(File.super, "class", None)), UNCHANGED outcome
      PROVE  BootInv'
  <2>1. IsSeq(loads) /\ Len(loads) \in DOMAIN loads /\ DOMAIN loads = 1..Len(loads)
    BY <1>1, Measured DEF CallsInv
  <2>2. 1 \in DOMAIN loads
    BY <2>1
  <2>3. loads'[1] = loads[1]
    BY <1>7, <2>1, <2>2, Appended
  <2>4. outcome = "booting" => boot > 40 /\ ~(boot \in {41, 44}) /\ FirstCall
    BY <1>1, <1>3, <1>4, <1>7 DEF BootInv
  <2>5. outcome' = "booting" => FirstCall'
    BY <1>1, <1>7, <2>3, <2>4 DEF FirstCall
  <2>6. QED BY <1>1, <1>7, <2>5 DEF BootInv, Changed
<1>8. QED BY <1>5, <1>6, <1>7 DEF LoadSuperClass

LEMMA AssembleBoots ==
  ASSUME Before, Changed, Assemble
  PROVE  BootInv'
<1>1. /\ loads # << >> /\ top.pc = "assemble" /\ CallsInv /\ UNCHANGED <<boot, known, globals, outcome>>
      /\ BootInv /\ boot >= 28 /\ LinkInv /\ boot \in Nat
      /\ outcome \in {"booting", "running", "shell"}
      /\ classes' = Assembled(classes, File, top.super) /\ ClassObjects(classes)
  BY DEF Assemble, Before, Base, LoadInv, LinkInv, BindingsInv, Going
<1>2. IsCall(top) /\ top.super \in Instances(classes)
  BY <1>1, TopOfHierarchy DEF CallLinked
<1>3. boot > 40
  <2>1. SUFFICES ASSUME outcome = "booting", boot <= 40 PROVE FALSE
    BY <1>1 DEF BootInv
  <2>2. QED BY <1>1, <2>1, SystemCalls
<1>4. classes'[Len(classes')].super = top.super
  BY <1>1, NewClasses
<1>5. PICK d : SetTop(d) /\ SameLoad(top, d) /\ d.pc # "assemble" /\ (d.pc = "primitives" => d.class = Len(classes'))
  <2>1. CASE File.name = top.name
    <3> DEFINE d == [top EXCEPT !.pc = "primitives", !.class = Len(classes')]
    <3>1. SameLoad(top, d) /\ d.pc = "primitives" /\ SetTop(d) /\ d.class = Len(classes')
      BY <1>1, <1>2, <2>1 DEF SameLoad, IsCall, Assemble
    <3> HIDE DEF d
    <3>2. QED BY <3>1
  <2>2. CASE File.name # top.name
    <3> DEFINE d == [top EXCEPT !.pc = "find", !.dir = @ + 1]
    <3>1. SameLoad(top, d) /\ d.pc = "find" /\ SetTop(d)
      BY <1>1, <1>2, <2>2 DEF SameLoad, IsCall, Assemble
    <3> HIDE DEF d
    <3>2. QED BY <3>1
  <2>3. QED BY <2>1, <2>2
<1>6. outcome = "booting" /\ boot \in {41, 44} => GlobalIn(classes', globals', top.super)
  <2>1. SUFFICES ASSUME outcome = "booting", boot \in {41, 44} PROVE GlobalIn(classes', globals', top.super)
    OBVIOUS
  <2>2. FirstCall
    BY <1>1, <2>1 DEF BootInv
  <2>3. GlobalClass(top.super)
    BY <1>1, <2>1, <2>2 DEF FirstCall, top
  <2>4. top.super \in DOMAIN classes
    BY <1>2 DEF Instances
  <2>5. classes'[top.super].name = classes[top.super].name
    BY <2>4 DEF Changed, OldClasses
  <2>6. QED BY <1>1, <2>3, <2>5 DEF GlobalClass, GlobalIn
<1>7. QED BY <1>1, <1>3, <1>4, <1>5, <1>6, TopBoots DEF Before, Changed

LEMMA SameLength ==
  ASSUME ClassObjects(classes), ClassObjects(classes'), DOMAIN classes' = DOMAIN classes
  PROVE  Len(classes') = Len(classes)
<1>1. IsSeq(classes) /\ IsSeq(classes')
  BY DEF ClassObjects
<1>2. DOMAIN classes = 1..Len(classes) /\ DOMAIN classes' = 1..Len(classes') /\ Len(classes) \in Nat /\ Len(classes') \in Nat
  BY <1>1, Measured
<1>3. QED BY <1>2

LEMMA BindingSame ==
  ASSUME Base, Binding
  PROVE  /\ SameLinks(classes, classes') /\ top.class \in Instances(classes) /\ top.class \in DOMAIN classes
         /\ classes[top.class].class \in DOMAIN classes
<1>1. /\ ClassObjects(classes) /\ LinkInv /\ CallsInv /\ boot >= 28
  BY TopOfHierarchy DEF Base, LinkInv, LoadInv, Binding
<1>2. Hierarchy(classes, DOMAIN globals, known["Class"])
  BY <1>1 DEF LinkInv
<1>3. top.class \in Instances(classes)
  BY <1>1, TopOfHierarchy DEF Binding, CallLinked
<1>4. top.class \in DOMAIN classes /\ classes[top.class].class \in DOMAIN classes
  BY <1>2, <1>3 DEF Hierarchy, Linked, Instances
<1>5. SameLinks(classes, classes')
  BY <1>1, <1>4, LoadedWithPrimitives DEF Binding
<1>6. QED BY <1>3, <1>4, <1>5

LEMMA ReturnBoots ==
  ASSUME Before, Changed, Return
  PROVE  BootInv'
<1>1. /\ BootInv /\ Base /\ boot >= 28 /\ loads # << >> /\ Going /\ LoadInv /\ CallsInv /\ LinkInv
      /\ boot \in Nat
  BY ReturnChange DEF Before, Base, LoadInv, BindingsInv
<1>2. CASE UNCHANGED <<classes, globals, loads, boot, known, singletons, request>> /\ outcome' = "quit"
  BY <1>2, BootFails DEF Outcomes
<1>3. CASE Binding /\ UNCHANGED outcome
  <2>1. /\ SameLinks(classes, classes') /\ top.class \in Instances(classes)
        /\ top.class \in DOMAIN classes /\ DOMAIN classes = 1..Len(classes) /\ Len(classes) \in Nat
    BY <1>1, <1>3, BindingSame, Measured DEF LinkInv, ClassObjects
  <2>2. Len(classes') = Len(classes)
    BY <1>1, <2>1, SameLength DEF SameLinks, LinkInv
  <2>3. boot <= 40 => Len(classes') = 26
    BY <1>1, <2>2 DEF BootInv
  <2>4. \A i \in 1..13 : SystemGlobal(i)'
    BY DEF Changed
  <2>5. top.class # None
    BY <2>1 DEF None
  <2>6. UNCHANGED known \/ \E n \in {"Block", "System"}, c \in Instances(classes) :
                                                  known' = [known EXCEPT ![n] = c]
    <3>1. UNCHANGED known \/ known' = IF top.name \in {"Block", "System"}
                                      THEN [known EXCEPT ![top.name] = top.class] ELSE known
      BY <1>1, <1>3, ReturnChange
    <3>2. QED BY <2>1, <3>1
  <2>7. \A n \in {"Block", "System"} : known[n] # None => known'[n] # None
    BY <1>1, <2>6, KnownStays
  <2>8. CASE /\ Len(loads) > 1
             /\ loads' = Append(SubSeq(loads, 1, Len(loads) - 2),
                             [loads[Len(loads) - 1] EXCEPT !.super = top.class, !.pc = "assemble"])
             /\ UNCHANGED <<boot, known, singletons, request>>
    <3>1. outcome = "booting" => FirstCall /\ boot > 40 /\ ~(boot \in {41, 44})
      <4>1. SUFFICES ASSUME outcome = "booting" PROVE FirstCall /\ boot > 40 /\ ~(boot \in {41, 44})
        OBVIOUS
      <4>2. FirstCall
        BY <1>1, <4>1 DEF BootInv
      <4>3. ~(boot <= 40) /\ ~(boot \in {41, 44})
        <5> DEFINE n == Len(loads)
        <5>1. n > 1 /\ n \in Nat
          BY <1>1, <2>8, Measured DEF CallsInv
        <5>2. (boot <= 40 => n = 1) /\ (boot \in {41, 44} => n = 1)
          BY <4>2 DEF FirstCall
        <5> HIDE DEF n
        <5>3. n # 1
          BY <5>1
        <5>4. QED BY <5>2, <5>3
      <4>4. QED BY <1>1, <4>2, <4>3
    <3>2. loads'[1].name = loads[1].name /\ loads'[1].system = loads[1].system
      <4> DEFINE k == Len(loads) - 2
                 o == loads[Len(loads) - 1]
                 d == [o EXCEPT !.super = top.class, !.pc = "assemble"]
      <4>1. IsSeq(loads) /\ Len(loads) \in Nat /\ DOMAIN loads = 1..Len(loads)
        BY <1>1, Measured DEF CallsInv
      <4>2. k \in Nat /\ k < Len(loads) /\ (k = 0 \/ 1 \in 1..k) /\ (k = 0 => Len(loads) - 1 = 1 /\ k + 1 = 1)
            /\ Len(loads) - 1 \in DOMAIN loads
        BY <2>8, <4>1
      <4>3. IsCall(o)
        BY <1>1, <4>2 DEF CallsInv, BlockCallsOk
      <4>4. k = 0 => o = loads[1]
        BY <4>2
      <4> HIDE DEF k, o
      <4>5. d.name = o.name /\ d.system = o.system
        BY <4>3 DEF IsCall
      <4> HIDE DEF d
      <4>6. loads' = Append(SubSeq(loads, 1, k), d)
        BY <2>8 DEF k, d, o
      <4>7. loads'[k + 1] = d /\ \A i \in 1..k : loads'[i] = loads[i]
        BY <4>1, <4>2, <4>6, Replaced
      <4>8. QED BY <4>2, <4>4, <4>5, <4>7
    <3>3. outcome' = "booting" => FirstCall'
      <4>1. SUFFICES ASSUME outcome' = "booting" PROVE FirstCall'
        OBVIOUS
      <4>2. FirstCall /\ boot > 40 /\ ~(boot \in {41, 44}) /\ ~(boot <= 40)
        BY <1>1, <1>3, <3>1, <4>1
      <4>3. UNCHANGED <<boot, known>>
        BY <2>8
      <4>4. QED BY <3>2, <4>2, <4>3, Zenon DEF FirstCall
    <3>4. QED BY <1>1, <1>3, <2>3, <2>4, <2>8, <3>3 DEF BootInv
  <2>9. CASE /\ Len(loads) = 1 /\ loads' = << >> /\ outcome = "booting" /\ boot' = boot + 1
             /\ known' = IF top.name \in {"Block", "System"}
                         THEN [known EXCEPT ![top.name] = top.class] ELSE known
    <3>1. FirstCall /\ top = loads[1]
      BY <1>1, <2>9 DEF BootInv, top
    <3>2. boot \in 28..44 /\ (boot > 40 => top.name = BootSteps[boot].name)
      BY <3>1 DEF FirstCall
    <3>3. {"Block", "System"} \subseteq DOMAIN known
      BY <1>1 DEF LinkInv, KnownOk, KnownNames
    <3>4. boot = 41 => top.name = "Block"
      BY <3>2, BlockAndSystem
    <3>5. boot = 44 => top.name = "System"
      BY <3>2, BlockAndSystem
    <3>6. boot' > 41 => known'["Block"] # None
      <4>1. CASE boot = 41
        BY <2>5, <2>9, <3>3, <3>4, <4>1
      <4>2. CASE boot # 41
        <5>1. SUFFICES ASSUME boot' > 41 PROVE known'["Block"] # None
          OBVIOUS
        <5>2. boot > 41
          BY <2>9, <3>2, <4>2, <5>1
        <5>3. QED BY <1>1, <2>7, <5>2 DEF BootInv
      <4>3. QED BY <4>1, <4>2
    <3>7. boot' > 44 => known'["System"] # None
      <4>1. CASE boot = 44
        BY <2>5, <2>9, <3>3, <3>5, <4>1
      <4>2. CASE boot # 44
        <5>1. SUFFICES ASSUME boot' > 44 PROVE known'["System"] # None
          OBVIOUS
        <5>2. boot > 44
          BY <2>9, <3>2, <4>2, <5>1
        <5>3. QED BY <1>1, <2>7, <5>2 DEF BootInv
      <4>3. QED BY <4>1, <4>2
    <3>8. boot' <= 46 /\ (boot' <= 40 => boot <= 40)
      BY <2>9, <3>2
    <3>9. outcome' = "booting" /\ outcome' \in Outcomes
      BY <1>3, <2>9 DEF Outcomes
    <3>10. QED BY <2>3, <2>4, <2>9, <3>6, <3>7, <3>8, <3>9 DEF BootInv
  <2>10. CASE /\ Len(loads) = 1 /\ loads' = << >> /\ outcome # "booting"
              /\ UNCHANGED <<boot, known, singletons>>
    BY <1>1, <1>3, <2>3, <2>4, <2>10 DEF BootInv
  <2>11. ~(UNCHANGED <<classes, globals, loads, boot, known, singletons, request>> /\ outcome' = "quit")
    BY <1>1, <1>3 DEF Going
  <2>12. \/ /\ Len(loads) > 1
             /\ loads' = Append(SubSeq(loads, 1, Len(loads) - 2),
                             [loads[Len(loads) - 1] EXCEPT !.super = top.class, !.pc = "assemble"])
             /\ UNCHANGED <<boot, known, singletons, request>>
         \/ /\ Len(loads) = 1 /\ loads' = << >> /\ outcome = "booting" /\ boot' = boot + 1
             /\ known' = IF top.name \in {"Block", "System"}
                         THEN [known EXCEPT ![top.name] = top.class] ELSE known
         \/ /\ Len(loads) = 1 /\ loads' = << >> /\ outcome # "booting"
             /\ UNCHANGED <<boot, known, singletons>>
    BY <1>1, <2>11, ReturnChange, ZenonT(60)
  <2>13. QED BY <2>8, <2>9, <2>10, <2>12, Zenon
<1>4. QED BY <1>1, <1>2, <1>3, ReturnChange

LEMMA BootBoots ==
  ASSUME Before, Changed, Boot
  PROVE  BootInv'
<1>1. /\ BootInv /\ Base /\ boot >= 28 /\ UNCHANGED <<classes, known>> /\ loads = << >> /\ boot \in 28..45
      /\ outcome = "booting" /\ \A i \in 1..13 : SystemGlobal(i)'
  BY BootChange DEF Before, Boot, Changed
<1>2. \A name, how, system :
        LET c == Call(name, how, system)
        IN  <<c>>[1] = c /\ Len(<<c>>) = 1 /\ c.name = name /\ c.system = system /\ c.pc = "find"
  BY NewCall, Single
<1>3. CASE /\ boot \in 28..40 /\ UNCHANGED <<globals, singletons, boot, outcome>>
           /\ loads' = <<Call(SystemName(boot - 27), "system", known[SystemName(boot - 27)])>>
  <2>1. /\ loads'[1].name = SystemName(boot - 27) /\ Len(loads') = 1
        /\ loads'[1].system = known[SystemName(boot - 27)]
    BY <1>2, <1>3
  <2>2. boot \in 28..44 /\ ~(boot > 40) /\ ~(boot \in {41, 44})
    <3>1. boot \in 28..40
      BY <1>3
    <3> HIDE <1>3
    <3>2. QED BY <3>1
  <2>3. FirstCall'
    BY <1>1, <1>3, <2>1, <2>2 DEF FirstCall
  <2>4. QED BY <1>1, <1>3, <2>3 DEF BootInv
<1>4. CASE /\ boot \in 41..44 /\ UNCHANGED <<globals, singletons, boot, outcome>>
           /\ loads' = <<Call(step.name, "class", None)>> /\ step = BootSteps[boot]
  <2>1. /\ loads'[1].name = BootSteps[boot].name /\ Len(loads') = 1 /\ loads'[1].system = None
        /\ loads'[1].pc = "find"
    BY <1>2, <1>4
  <2>2. boot \in 28..44 /\ ~(boot <= 40)
    <3>1. boot \in 41..44
      BY <1>4
    <3> HIDE <1>4
    <3>2. QED BY <3>1
  <2>3. FirstCall'
    BY <1>1, <1>4, <2>1, <2>2 DEF FirstCall
  <2>4. QED BY <1>1, <1>4, <2>3 DEF BootInv
<1>5. CASE boot = 45 /\ UNCHANGED loads /\ boot' = 46 /\ outcome' \in {"shell", "crashed", "running"}
  BY <1>1, <1>5 DEF BootInv, Outcomes
<1>6. QED BY <1>1, <1>3, <1>4, <1>5, BootChange

LEMMA OtherBoots ==
  ASSUME Before, Changed,
         \/ Ask \/ GetBlockClassWithArgs \/ Load \/ Loaded \/ BlocksForResolve \/ Look \/ PutGlobals
         \/ ReadLine \/ NotFound \/ UNCHANGED vars
  PROVE  BootInv'
<1>1. BootInv /\ \A i \in 1..13 : SystemGlobal(i)'
  BY DEF Before, Changed
<1>2. CASE Ask \/ GetBlockClassWithArgs \/ Load \/ Loaded \/ BlocksForResolve \/ Look \/ PutGlobals
  <2>1. outcome = "running" /\ UNCHANGED <<boot, known, classes>>
    BY <1>2 DEF Ask, Idle, GetBlockClassWithArgs, Load, Loaded, BlocksForResolve, Look, PutGlobals, Running
  <2>2. outcome' \in {"running", "error"}
    BY <1>2, <2>1 DEF Ask, GetBlockClassWithArgs, Load, Loaded, BlocksForResolve, Look, PutGlobals, Failed
  <2>3. QED BY <1>1, <2>1, <2>2, BootKeeps DEF Outcomes
<1>3. CASE ReadLine
  <2>1. outcome = "shell" /\ UNCHANGED <<boot, known>> /\ outcome' \in {"shell", "ended"}
    BY <1>3 DEF ReadLine
  <2>2. QED BY <1>1, <2>1, BootKeeps DEF Outcomes
<1>4. CASE NotFound
  <2>1. UNCHANGED <<boot, known, classes>> /\ outcome' \in {"crashed", "quit"}
    BY <1>4 DEF NotFound, Failed
  <2>2. QED BY <2>1, BootFails DEF Outcomes
<1>5. CASE UNCHANGED vars
  <2>1. UNCHANGED <<boot, known, classes, globals, loads, outcome>> /\ outcome \in Outcomes
    BY <1>1, <1>5 DEF vars, BootInv
  <2>2. QED BY <1>1, <2>1, BootKeeps
<1>6. QED BY <1>2, <1>3, <1>4, <1>5

LEMMA BootInvStep ==
  ASSUME LibraryFits, Before, [Next]_vars
  PROVE  BootInv'
<1>1. Changed
  BY StepChanges
<1>2. CASE HandleArgument \/ ArgumentsHandled
  BY <1>2 DEF HandleArgument, ArgumentsHandled, Before, BootInv, Outcomes
<1>3. QED
  BY <1>1, <1>2, OpenFileBoots, LoadSuperClassBoots, AssembleBoots, ReturnBoots, BootBoots, OtherBoots DEF Next

--------------------
(* Types. *)

StatesInv ==
  /\ \A c \in DOMAIN classes : {classes[c].class, classes[c].super} \subseteq DOMAIN classes \cup {None}
  /\ \A n \in DOMAIN globals : globals[n] \in DOMAIN classes \cup {NotAClass, nil}
  /\ Len(loads) <= MaxDepth

\* What becomes a global is a class, but for what the last step of the start binds.
Finishing ==
  /\ boot = 45 /\ UNCHANGED <<classes, known, loads>> /\ boot' = 46 /\ loads = << >>
  /\ outcome = "booting"
  /\ NewSingleton("system", known["System"], classes)
  /\ globals' = [n \in DOMAIN globals \cup SystemGlobals |->
           CASE n = "nil" -> nil
             [] n \in {"System", "Block"} -> known[n]
             [] n \in {"true", "false", "system"} -> NotAClass
             [] OTHER -> globals[n]]
  /\ outcome' \in {"shell", "crashed", "running"}

LEMMA GlobalsChange ==
  ASSUME Before, [Next]_vars
  PROVE  \/ UNCHANGED globals
         \/ Finishing
         \/ \E n : \E c \in Instances(classes) : Bind(n, c)
<1>1. /\ LinkInv /\ boot >= 28 /\ CallsInv /\ Base
  BY DEF Before, Base, LoadInv
<1>2. CASE Boot
  BY <1>1, <1>2, BootChange DEF Finishing, Boot
<1>3. CASE Return
  <2>1. /\ loads # << >> /\ top.pc = "primitives"
        /\ UNCHANGED globals \/ Bind(top.name, top.class)
    BY <1>3 DEF Return
  <2>2. top.class \in Instances(classes)
    BY <1>1, <2>1, TopOfHierarchy DEF CallLinked
  <2>3. QED BY <2>1, <2>2
<1>4. CASE PutGlobals
  <2>1. /\ request.pc = "loaded"
        /\ UNCHANGED globals \/ Bind(classes[request.class].name, request.class)
    BY <1>4 DEF PutGlobals, Running
  <2>2. request.class \in Instances(classes)
    BY <1>1, <2>1, Zenon DEF LinkInv, Referring
  <2>3. QED BY <2>1, <2>2
<1>5. CASE HandleArgument \/ ArgumentsHandled \/ OpenFile \/ NotFound \/ LoadSuperClass \/ Assemble
           \/ UNCHANGED vars
  BY <1>5, Zenon DEF HandleArgument, ArgumentsHandled, OpenFile, NotFound, LoadSuperClass, Assemble, vars
<1>6. CASE Ask \/ GetBlockClassWithArgs \/ Load \/ Loaded \/ BlocksForResolve \/ Look \/ ReadLine
  BY <1>6 DEF Ask, GetBlockClassWithArgs, Load, Loaded, BlocksForResolve, Look, ReadLine
<1>7. QED BY <1>2, <1>3, <1>4, <1>5, <1>6 DEF Next

\* Calls: none, one, or those that were there, but for the innermost; one more if there is room.
LEMMA LengthOfCalls ==
  ASSUME Before, [Next]_vars, Len(loads) <= MaxDepth
  PROVE  Len(loads') <= MaxDepth
<1>1. /\ IsSeq(loads) /\ Len(loads) \in Nat /\ MaxDepth \in Nat \ {0}
  BY Measured, ClassesAssumption DEF Before, Base, LoadInv, CallsInv
<1>2. CASE UNCHANGED loads
  BY <1>2
<1>3. CASE loads' = << >>
  BY <1>1, <1>3, NoneYet
<1>4. ASSUME NEW name, NEW how, NEW system, loads' = <<Call(name, how, system)>>
      PROVE  Len(loads') <= MaxDepth
  <2> DEFINE c == Call(name, how, system)
  <2> HIDE DEF c
  <2>1. Len(<<c>>) = 1
    BY Single
  <2>2. QED BY <1>1, <1>4, <2>1 DEF c
<1>5. ASSUME NEW d, loads # << >>, SetTop(d)
      PROVE  Len(loads') <= MaxDepth
  BY <1>1, <1>5, TopSet DEF SetTop
<1>6. ASSUME NEW c, Len(loads) # MaxDepth, loads' = Append(loads, c)
      PROVE  Len(loads') <= MaxDepth
  <2>1. Len(loads') = Len(loads) + 1
    BY <1>1, <1>6, Appended
  <2> DEFINE n == Len(loads)
  <2> HIDE DEF n
  <2>2. n + 1 <= MaxDepth
    BY <1>1, <1>6 DEF n
  <2>3. QED BY <2>1, <2>2 DEF n
<1>7. ASSUME NEW d, Len(loads) > 1, loads' = Append(SubSeq(loads, 1, Len(loads) - 2), d)
      PROVE  Len(loads') <= MaxDepth
  <2> DEFINE k == Len(loads) - 2
  <2>1. k \in Nat /\ k < Len(loads) /\ k + 1 <= MaxDepth
    BY <1>1, <1>7
  <2> HIDE DEF k
  <2>2. loads' = Append(SubSeq(loads, 1, k), d)
    BY <1>7 DEF k
  <2>3. Len(loads') = k + 1
    BY <1>1, <2>1, <2>2, Replaced
  <2>4. QED BY <2>1, <2>3
<1>8. CASE Boot \/ GetBlockClassWithArgs \/ Load \/ BlocksForResolve \/ Look
  BY <1>2, <1>4, <1>8, SMTT(20) DEF Boot, GetBlockClassWithArgs, Load, BlocksForResolve, Look
<1>9. CASE OpenFile \/ Assemble
  BY <1>5, <1>9 DEF OpenFile, Assemble
<1>10. CASE LoadSuperClass
  <2>1. loads # << >>
    BY <1>10 DEF LoadSuperClass
  <2>2. \/ UNCHANGED loads
        \/ \E d : SetTop(d)
        \/ \E c : Len(loads) # MaxDepth /\ loads' = Append(loads, c)
    BY <1>10 DEF LoadSuperClass
  <2>3. QED BY <1>2, <1>5, <1>6, <2>1, <2>2
<1>11. CASE Return
  <2>1. \/ UNCHANGED loads
        \/ loads' = << >>
        \/ Len(loads) > 1 /\ \E d : loads' = Append(SubSeq(loads, 1, Len(loads) - 2), d)
    BY <1>11 DEF Return
  <2>2. QED BY <1>2, <1>3, <1>7, <2>1
<1>12. CASE HandleArgument \/ ArgumentsHandled \/ NotFound \/ Ask \/ Loaded \/ PutGlobals \/ ReadLine \/ UNCHANGED vars
  BY <1>2, <1>12 DEF HandleArgument, ArgumentsHandled, NotFound, Ask, Loaded, PutGlobals, ReadLine, vars
<1>13. QED BY <1>8, <1>9, <1>10, <1>11, <1>12 DEF Next

LEMMA StatesStep ==
  ASSUME LibraryFits, Before, StatesInv, [Next]_vars
  PROVE  StatesInv'
<1>1. Changed
  BY StepChanges
<1>2. /\ ClassObjects(classes) /\ LinkInv /\ boot >= 28 /\ Base /\ BootInv /\ ClassesChange
      /\ OldClasses /\ DOMAIN classes \subseteq DOMAIN classes'
  BY <1>1 DEF Before, Base, LinkInv, Changed, OldClasses
<1>3. \A c \in DOMAIN classes' :
          {classes'[c].class, classes'[c].super} \subseteq DOMAIN classes' \cup {None}
  <2>1. ASSUME NEW c \in DOMAIN classes
        PROVE  {classes'[c].class, classes'[c].super} \subseteq DOMAIN classes' \cup {None}
    BY <1>2, <2>1 DEF StatesInv, OldClasses
  <2>2. LinksGrow
    BY <1>2, LinksOfChange
  <2>3. CASE UNCHANGED classes \/ SameLinks(classes, classes')
    BY <2>1, <2>3 DEF SameLinks
  <2>4. ASSUME NEW f, NEW s \in Instances(classes), classes' = Assembled(classes, f, s)
        PROVE  \A c \in DOMAIN classes' :
                  {classes'[c].class, classes'[c].super} \subseteq DOMAIN classes' \cup {None}
    <3> DEFINE n == Len(classes)
    <3>1. /\ n \in Nat /\ DOMAIN classes = 1..n /\ DOMAIN classes' = 1..(n + 2)
          /\ classes'[n + 1].super = classes[s].class
          /\ classes'[n + 2].class = n + 1 /\ classes'[n + 2].super = s
          /\ classes'[n + 1].class = known["Metaclass"]
      BY <1>2, <2>4, NewClasses, NewClassesHave
    <3> HIDE DEF n
    <3>2. s \in DOMAIN classes /\ classes[s].class \in DOMAIN classes \cup {None} /\ n + 1 \in DOMAIN classes'
      BY <3>1 DEF Instances, StatesInv
    <3>3. known["Metaclass"] \in DOMAIN classes
      <4>1. known["Metaclass"] = 2 * 1 /\ 2 * 1 \in Instances(classes)
        <5>1. AllocationOrder[1] = "Metaclass"
          BY DEF AllocationOrder
        <5>2. QED BY <1>2, <5>1, SystemPairs
      <4>2. QED BY <4>1 DEF Instances
    <3>4. \A c \in DOMAIN classes' : c \in DOMAIN classes \/ c = n + 1 \/ c = n + 2
      BY <3>1
    <3>5. QED BY <1>2, <2>1, <3>1, <3>2, <3>3, <3>4
  <2>5. QED BY <2>2, <2>3, <2>4 DEF LinksGrow
<1>4. \A n \in DOMAIN globals' : globals'[n] \in DOMAIN classes' \cup {NotAClass, nil}
  <2>1. CASE UNCHANGED globals
    BY <1>2, <2>1 DEF StatesInv
  <2>2. CASE Finishing
    <3>1. known["Block"] \in DOMAIN classes' /\ known["System"] \in DOMAIN classes'
      <4>1. boot = 45
        BY <2>2 DEF Finishing
      <4>2. known["Block"] # None /\ known["System"] # None
        BY <1>2, <4>1 DEF BootInv
      <4>3. known["Block"] \in Instances(classes) /\ known["System"] \in Instances(classes)
        BY <1>2, <4>2 DEF LinkInv, KnownOk
      <4>4. QED BY <1>2, <4>3 DEF Instances
    <3>2. ASSUME NEW n \in DOMAIN globals' PROVE globals'[n] \in DOMAIN classes' \cup {NotAClass, nil}
      <4>1. n \in DOMAIN globals \cup SystemGlobals
        BY <2>2 DEF Finishing
      <4>2. CASE n \in {"nil", "true", "false", "system"}
        BY <2>2, <4>1, <4>2 DEF Finishing
      <4>3. CASE n \in {"System", "Block"}
        BY <2>2, <3>1, <4>1, <4>3 DEF Finishing
      <4>4. CASE n \notin {"nil", "true", "false", "system", "System", "Block"}
        <5>1. n \in DOMAIN globals /\ globals'[n] = globals[n]
          BY <2>2, <4>1, <4>4 DEF Finishing, SystemGlobals
        <5>2. QED BY <1>2, <5>1 DEF StatesInv
      <4>5. QED BY <4>2, <4>3, <4>4
    <3>3. QED BY <3>2
  <2>3. ASSUME NEW n, NEW c \in Instances(classes), Bind(n, c)
        PROVE  \A k \in DOMAIN globals' : globals'[k] \in DOMAIN classes' \cup {NotAClass, nil}
    <3>1. c \in DOMAIN classes'
      BY <1>2 DEF Instances
    <3>2. QED BY <1>2, <2>3, <3>1 DEF Bind, StatesInv
  <2>4. QED BY <2>1, <2>2, <2>3, GlobalsChange
<1>5. QED BY <1>3, <1>4, LengthOfCalls DEF StatesInv

--------------------
(* What is collected along superclasses. *)

\* Each class is above its superclass.
Ranked(cs, h) ==
  \A c \in DOMAIN cs : /\ h[c] \in Nat /\ h[c] < Len(cs)
                       /\ HasSuperClass(cs, c) => cs[c].super \in DOMAIN cs /\ h[cs[c].super] < h[c]

\* Going up d superclasses at most.
Level(cs, p, f, d, i) ==
  IF d = 0 \/ ~HasSuperClass(cs, i) THEN p[i] ELSE f[d - 1][cs[i].super] \o p[i]
Levels(cs, p, f, n) ==
  f = [d \in 0..n |-> [i \in DOMAIN cs |-> Level(cs, p, f, d, i)]]

LEMMA LevelsExist ==
  ASSUME NEW cs, NEW p
  PROVE  \A n \in Nat : \E f : Levels(cs, p, f, n)
<1> DEFINE I == {n \in Nat : \E f : Levels(cs, p, f, n)}
<1>1. 0 \in I
  <2> DEFINE f == [d \in 0..0 |-> [i \in DOMAIN cs |-> p[i]]]
  <2>1. \A d \in 0..0 : \A i \in DOMAIN cs : Level(cs, p, f, d, i) = p[i]
    BY DEF Level
  <2>2. Levels(cs, p, f, 0)
    BY <2>1 DEF Levels
  <2>3. QED BY <2>2
<1>2. ASSUME NEW n \in Nat, n \in I PROVE n + 1 \in I
  <2>1. PICK f : Levels(cs, p, f, n)
    BY <1>2
  <2> DEFINE v == [i \in DOMAIN cs |-> Level(cs, p, f, n + 1, i)]
             g == [d \in 0..(n + 1) |-> IF d = n + 1 THEN v ELSE f[d]]
  <2> HIDE DEF v
  <2>2. \A d \in 0..n : d \in 0..(n + 1) /\ d # n + 1 /\ g[d] = f[d]
    OBVIOUS
  <2>3. \A d \in 0..(n + 1) : d = 0 \/ d - 1 \in 0..n
    OBVIOUS
  <2>4. DOMAIN g = 0..(n + 1) /\ g = [d \in 0..(n + 1) |-> g[d]] /\ g[n + 1] = v
    OBVIOUS
  <2> HIDE DEF g
  <2>5. ASSUME NEW d \in 0..(n + 1), NEW i PROVE Level(cs, p, g, d, i) = Level(cs, p, f, d, i)
    BY <2>2, <2>3 DEF Level
  <2>6. ASSUME NEW d \in 0..(n + 1) PROVE g[d] = [i \in DOMAIN cs |-> Level(cs, p, g, d, i)]
    <3>1. CASE d = n + 1
      BY <2>4, <2>5, <3>1 DEF v
    <3>2. CASE d # n + 1
      <4>1. d \in 0..n
        BY <3>2
      <4>2. f[d] = [i \in DOMAIN cs |-> Level(cs, p, f, d, i)]
        BY <2>1, <4>1 DEF Levels
      <4>3. QED BY <2>2, <2>5, <4>1, <4>2
    <3>3. QED BY <3>1, <3>2
  <2>7. Levels(cs, p, g, n + 1)
    BY <2>4, <2>6 DEF Levels
  <2>8. QED BY <2>7
<1> HIDE DEF I
<1>3. QED BY <1>1, <1>2, Induction DEF I

LEMMA Joined ==
  ASSUME NEW p, NEW q, IsSeq(p), IsSeq(q)
  PROVE  /\ IsSeq(p \o q) /\ Len(p \o q) = Len(p) + Len(q) /\ Len(p) \in Nat /\ Len(q) \in Nat
         /\ DOMAIN (p \o q) = 1..(Len(p) + Len(q))
         /\ \A i \in DOMAIN p : (p \o q)[i] = p[i]
         /\ \A i \in (Len(p) + 1)..(Len(p) + Len(q)) : (p \o q)[i] = q[i - Len(p)]
<1> DEFINE S == {p[i] : i \in DOMAIN p} \cup {q[i] : i \in DOMAIN q}
           m == Len(p)
           n == Len(q)
           r == p \o q
<1>1. m \in Nat /\ n \in Nat /\ DOMAIN p = 1..m /\ DOMAIN q = 1..n
  BY Measured
<1>2. p \in Seq(S) /\ q \in Seq(S)
  BY DEF IsSeq
<1> HIDE DEF S
<1>3. /\ r \in Seq(S) /\ Len(r) = m + n
      /\ \A i \in 1..m : r[i] = p[i]
      /\ \A i \in (m + 1)..(m + n) : r[i] = q[i - m]
  BY <1>1, <1>2, Concatenated
<1> HIDE DEF r, m, n
<1>4. IsSeq(r) /\ DOMAIN r = 1..(m + n)
  <2>1. IsSeq(r)
    BY <1>3, SeqIsSeq
  <2>2. QED BY <2>1, <1>3, Measured
<1>5. QED BY <1>1, <1>3, <1>4 DEF r, m, n

\* Beyond its height a class collects no more.
LEMMA LevelsEnd ==
  ASSUME NEW cs, NEW p, NEW f, NEW N \in Nat, NEW h, N = Len(cs), Ranked(cs, h), Levels(cs, p, f, N),
         \A i \in DOMAIN cs : IsSeq(p[i])
  PROVE  \A i \in DOMAIN cs :
            /\ ~HasSuperClass(cs, i) => f[N][i] = p[i]
            /\ HasSuperClass(cs, i) => f[N][i] = f[N][cs[i].super] \o p[i]
            /\ IsSeq(f[N][i])
<1>1. \A d \in 0..N : \A i \in DOMAIN cs : f[d][i] = Level(cs, p, f, d, i)
  <2>1. ASSUME NEW d \in 0..N PROVE f[d] = [i \in DOMAIN cs |-> Level(cs, p, f, d, i)]
    BY DEF Levels
  <2>2. QED BY <2>1
<1> DEFINE I == {k \in Nat : \A i \in DOMAIN cs : h[i] <= k =>
                   \A d, e \in h[i]..N : f[d][i] = f[e][i] /\ IsSeq(f[d][i])}
<1>2. ASSUME NEW k \in Nat, NEW i \in DOMAIN cs, h[i] <= k,
             \A s \in DOMAIN cs : h[s] < k => \A d, e \in h[s]..N : f[d][s] = f[e][s] /\ IsSeq(f[d][s]),
             NEW d \in h[i]..N, NEW e \in h[i]..N
      PROVE  f[d][i] = f[e][i] /\ IsSeq(f[d][i])
  <2>1. h[i] \in Nat /\ d \in 0..N /\ e \in 0..N
    BY DEF Ranked
  <2>2. CASE ~HasSuperClass(cs, i)
    BY <1>1, <2>1, <2>2 DEF Level
  <2>3. CASE HasSuperClass(cs, i)
    <3> DEFINE s == cs[i].super
    <3>1. s \in DOMAIN cs /\ h[s] < h[i] /\ h[s] \in Nat
      BY <2>3 DEF Ranked
    <3> HIDE DEF s
    <3>2. d # 0 /\ e # 0 /\ d - 1 \in h[s]..N /\ e - 1 \in h[s]..N /\ h[s] < k
      BY <1>2, <2>1, <3>1
    <3>3. f[d][i] = f[d - 1][s] \o p[i] /\ f[e][i] = f[e - 1][s] \o p[i]
      BY <1>1, <2>1, <2>3, <3>2 DEF Level, s
    <3>4. f[d - 1][s] = f[e - 1][s] /\ IsSeq(f[d - 1][s])
      BY <1>2, <3>1, <3>2
    <3>5. IsSeq(f[d - 1][s] \o p[i])
      BY <3>4, Joined
    <3>6. QED BY <3>3, <3>4, <3>5
  <2>4. QED BY <2>2, <2>3
<1>3. 0 \in I
  <2>1. \A s \in DOMAIN cs : ~(h[s] < 0)
    BY DEF Ranked
  <2>2. QED BY <1>2, <2>1
<1>4. ASSUME NEW k \in Nat, k \in I PROVE k + 1 \in I
  <2>1. \A s \in DOMAIN cs : h[s] < k + 1 => h[s] <= k
    BY DEF Ranked
  <2>2. \A s \in DOMAIN cs : h[s] < k + 1 => \A d, e \in h[s]..N : f[d][s] = f[e][s] /\ IsSeq(f[d][s])
    BY <1>4, <2>1
  <2> SUFFICES ASSUME NEW i \in DOMAIN cs, h[i] <= k + 1, NEW d \in h[i]..N, NEW e \in h[i]..N
               PROVE  f[d][i] = f[e][i] /\ IsSeq(f[d][i])
    OBVIOUS
  <2>3. k + 1 \in Nat
    OBVIOUS
  <2>4. QED BY <1>2, <2>2, <2>3
<1>5. ASSUME NEW i \in DOMAIN cs PROVE \A d, e \in h[i]..N : f[d][i] = f[e][i] /\ IsSeq(f[d][i])
  <2>1. h[i] \in Nat /\ h[i] <= h[i]
    BY DEF Ranked
  <2> HIDE DEF I
  <2>2. h[i] \in I
    BY <1>3, <1>4, <2>1, Induction
  <2>3. QED BY <2>1, <2>2 DEF I
<1> HIDE DEF I
<1>6. SUFFICES ASSUME NEW i \in DOMAIN cs
      PROVE /\ ~HasSuperClass(cs, i) => f[N][i] = p[i]
            /\ HasSuperClass(cs, i) => f[N][i] = f[N][cs[i].super] \o p[i]
            /\ IsSeq(f[N][i])
  OBVIOUS
<1>7. h[i] \in Nat /\ h[i] < N /\ N \in h[i]..N /\ N # 0 /\ N \in 0..N /\ N - 1 \in Nat
  BY DEF Ranked
<1>8. ~HasSuperClass(cs, i) => f[N][i] = p[i]
  BY <1>1, <1>7 DEF Level
<1>9. HasSuperClass(cs, i) => f[N][i] = f[N][cs[i].super] \o p[i]
  <2> SUFFICES ASSUME HasSuperClass(cs, i) PROVE f[N][i] = f[N][cs[i].super] \o p[i]
    OBVIOUS
  <2> DEFINE s == cs[i].super
  <2>1. s \in DOMAIN cs /\ h[s] < h[i] /\ h[s] \in Nat
    BY DEF Ranked
  <2> HIDE DEF s
  <2>2. N - 1 \in h[s]..N /\ N \in h[s]..N
    BY <1>7, <2>1
  <2>3. f[N - 1][s] = f[N][s]
    BY <1>5, <2>1, <2>2
  <2>4. f[N][i] = f[N - 1][s] \o p[i]
    BY <1>1, <1>7 DEF Level, s
  <2>5. QED BY <2>3, <2>4 DEF s
<1>10. QED BY <1>5, <1>7, <1>8, <1>9

Collected(cs, c) ==
  /\ IsSeq(InstanceFields(cs, c))
  /\ ~HasSuperClass(cs, c) => InstanceFields(cs, c) = cs[c].fields
  /\ HasSuperClass(cs, c) => InstanceFields(cs, c) = InstanceFields(cs, cs[c].super) \o cs[c].fields

LEMMA FieldsCollected ==
  ASSUME NEW cs, IsSeq(cs), NEW h, Ranked(cs, h), \A i \in DOMAIN cs : IsSeq(cs[i].fields)
  PROVE  \A c \in DOMAIN cs : Collected(cs, c)
<1> DEFINE N == Len(cs)
           p == [i \in DOMAIN cs |-> cs[i].fields]
           All(f) == f = [d \in 0 .. Len(cs) |->
             [i \in DOMAIN cs |-> IF d = 0 \/ ~HasSuperClass(cs, i) THEN cs[i].fields
                                  ELSE f[d - 1][cs[i].super] \o cs[i].fields]]
           g == CHOOSE f : All(f)
<1>1. N \in Nat /\ \A i \in DOMAIN cs : p[i] = cs[i].fields /\ IsSeq(p[i])
  BY Measured
<1>2. \A f : Levels(cs, p, f, N) <=> All(f)
  <2> SUFFICES ASSUME NEW f PROVE Levels(cs, p, f, N) <=> All(f)
    OBVIOUS
  <2>1. \A d \in 0..N, i \in DOMAIN cs :
          Level(cs, p, f, d, i) = IF d = 0 \/ ~HasSuperClass(cs, i) THEN cs[i].fields
                                  ELSE f[d - 1][cs[i].super] \o cs[i].fields
    BY DEF Level
  <2> DEFINE x(d, i) == Level(cs, p, f, d, i)
             y(d, i) == IF d = 0 \/ ~HasSuperClass(cs, i) THEN cs[i].fields
                                  ELSE f[d - 1][cs[i].super] \o cs[i].fields
  <2>2. \A d \in 0..N, i \in DOMAIN cs : x(d, i) = y(d, i)
    BY <2>1
  <2> HIDE DEF x, y, p
  <2>3. [d \in 0..N |-> [i \in DOMAIN cs |-> x(d, i)]] = [d \in 0..N |-> [i \in DOMAIN cs |-> y(d, i)]]
    BY <2>2
  <2>4. QED BY <2>3 DEF x, y, Levels
<1>3. PICK f : Levels(cs, p, f, N)
  BY <1>1, LevelsExist
<1>4. All(f)
  BY <1>2, <1>3
<1> HIDE DEF All
<1>5. All(g)
  BY <1>4
<1>6. Levels(cs, p, g, N)
  BY <1>2, <1>5
<1>7. \A c \in DOMAIN cs : InstanceFields(cs, c) = g[N][c]
  BY DEF InstanceFields, All
<1> HIDE DEF g, p, N
<1>8. \A i \in DOMAIN cs :
            /\ ~HasSuperClass(cs, i) => g[N][i] = p[i]
            /\ HasSuperClass(cs, i) => g[N][i] = g[N][cs[i].super] \o p[i]
            /\ IsSeq(g[N][i])
  BY <1>1, <1>6, LevelsEnd DEF N
<1>9. \A i \in DOMAIN cs : HasSuperClass(cs, i) => cs[i].super \in DOMAIN cs
  BY DEF Ranked
<1>10. QED BY <1>1, <1>7, <1>8, <1>9 DEF Collected

SupersOf(cs, c) ==
  /\ IsSeq(SuperClasses(cs, c))
  /\ ~HasSuperClass(cs, c) => SuperClasses(cs, c) = <<c>>
  /\ HasSuperClass(cs, c) => SuperClasses(cs, c) = SuperClasses(cs, cs[c].super) \o <<c>>

LEMMA SupersCollected ==
  ASSUME NEW cs, IsSeq(cs), NEW h, Ranked(cs, h)
  PROVE  \A c \in DOMAIN cs : SupersOf(cs, c)
<1> DEFINE N == Len(cs)
           one(i) == <<i>>
           p == [i \in DOMAIN cs |-> one(i)]
           All(f) == f = [d \in 0 .. Len(cs) |->
             [i \in DOMAIN cs |-> IF d = 0 \/ ~HasSuperClass(cs, i) THEN <<i>>
                                  ELSE f[d - 1][cs[i].super] \o <<i>>]]
           g == CHOOSE f : All(f)
<1>0. \A i : IsSeq(one(i))
  BY Single
<1> HIDE DEF one
<1>1. N \in Nat /\ \A i \in DOMAIN cs : p[i] = one(i) /\ IsSeq(p[i])
  BY <1>0, Measured
<1>2. \A f : Levels(cs, p, f, N) <=> All(f)
  <2> SUFFICES ASSUME NEW f PROVE Levels(cs, p, f, N) <=> All(f)
    OBVIOUS
  <2>1. \A d \in 0..N, i \in DOMAIN cs :
          Level(cs, p, f, d, i) = IF d = 0 \/ ~HasSuperClass(cs, i) THEN one(i)
                                  ELSE f[d - 1][cs[i].super] \o one(i)
    BY DEF Level
  <2> DEFINE x(d, i) == Level(cs, p, f, d, i)
             y(d, i) == IF d = 0 \/ ~HasSuperClass(cs, i) THEN one(i)
                                  ELSE f[d - 1][cs[i].super] \o one(i)
  <2>2. \A d \in 0..N, i \in DOMAIN cs : x(d, i) = y(d, i)
    BY <2>1
  <2> HIDE DEF x, y, p
  <2>3. [d \in 0..N |-> [i \in DOMAIN cs |-> x(d, i)]] = [d \in 0..N |-> [i \in DOMAIN cs |-> y(d, i)]]
    BY <2>2
  <2>4. QED BY <2>3 DEF x, y, Levels, one
<1>3. PICK f : Levels(cs, p, f, N)
  BY <1>1, LevelsExist
<1>4. All(f)
  BY <1>2, <1>3
<1> HIDE DEF All
<1>5. All(g)
  BY <1>4
<1>6. Levels(cs, p, g, N)
  BY <1>2, <1>5
<1>7. \A c \in DOMAIN cs : SuperClasses(cs, c) = g[N][c]
  BY DEF SuperClasses, All
<1> HIDE DEF g, p, N
<1>8. \A i \in DOMAIN cs :
            /\ ~HasSuperClass(cs, i) => g[N][i] = p[i]
            /\ HasSuperClass(cs, i) => g[N][i] = g[N][cs[i].super] \o p[i]
            /\ IsSeq(g[N][i])
  BY <1>1, <1>6, LevelsEnd DEF N
<1>9. \A i \in DOMAIN cs : HasSuperClass(cs, i) => cs[i].super \in DOMAIN cs
  BY DEF Ranked
<1>10. QED BY <1>1, <1>7, <1>8, <1>9 DEF SupersOf, one

\* Induction over heights.
LEMMA HeightInduction ==
  ASSUME NEW cs, NEW h, Ranked(cs, h), NEW P,
         \A c \in DOMAIN cs : (HasSuperClass(cs, c) => cs[c].super \in P) => c \in P
  PROVE  DOMAIN cs \subseteq P
<1> DEFINE I == {k \in Nat : \A c \in DOMAIN cs : h[c] <= k => c \in P}
<1>1. 0 \in I
  <2>1. \A c \in DOMAIN cs : h[c] <= 0 => ~HasSuperClass(cs, c)
    BY DEF Ranked
  <2>2. QED BY <2>1
<1>2. ASSUME NEW k \in Nat, k \in I PROVE k + 1 \in I
  <2>1. \A c \in DOMAIN cs : h[c] <= k + 1 /\ HasSuperClass(cs, c) => cs[c].super \in DOMAIN cs /\ h[cs[c].super] <= k
    BY DEF Ranked
  <2>2. QED BY <1>2, <2>1
<1>3. ASSUME NEW c \in DOMAIN cs PROVE c \in P
  <2>1. h[c] \in Nat /\ h[c] <= h[c]
    BY DEF Ranked
  <2> HIDE DEF I
  <2>2. h[c] \in I
    BY <1>1, <1>2, <2>1, Induction
  <2>3. QED BY <2>1, <2>2 DEF I
<1>4. QED BY <1>3

\* The fields of a class stay what they are when classes are added.
LEMMA FieldsStay ==
  ASSUME NEW cs, NEW ds, NEW h, Ranked(cs, h),
         \A c \in DOMAIN cs : Collected(cs, c), \A c \in DOMAIN ds : Collected(ds, c),
         \A c \in DOMAIN cs : c \in DOMAIN ds /\ ds[c].super = cs[c].super /\ ds[c].fields = cs[c].fields
  PROVE  \A c \in DOMAIN cs : InstanceFields(ds, c) = InstanceFields(cs, c)
<1> DEFINE P == {c \in DOMAIN cs : InstanceFields(ds, c) = InstanceFields(cs, c)}
<1>1. ASSUME NEW c \in DOMAIN cs, HasSuperClass(cs, c) => cs[c].super \in P PROVE c \in P
  <2>1. Collected(cs, c) /\ Collected(ds, c) /\ (HasSuperClass(ds, c) <=> HasSuperClass(cs, c))
        /\ ds[c].super = cs[c].super /\ ds[c].fields = cs[c].fields
    BY DEF HasSuperClass
  <2>2. QED BY <1>1, <2>1 DEF Collected
<1> HIDE DEF P
<1>2. DOMAIN cs \subseteq P
  BY <1>1, HeightInduction
<1>3. QED BY <1>2 DEF P

\* Superclasses are in every set that contains those of its elements.
LEMMA SupersWithin ==
  ASSUME NEW cs, NEW h, Ranked(cs, h), \A c \in DOMAIN cs : SupersOf(cs, c), NEW S,
         \A c \in S : HasSuperClass(cs, c) => cs[c].super \in S, S \subseteq DOMAIN cs
  PROVE  \A c \in S : Range(SuperClasses(cs, c)) \subseteq S
<1> DEFINE P == {c \in DOMAIN cs : c \in S => \A i \in DOMAIN SuperClasses(cs, c) : SuperClasses(cs, c)[i] \in S}
<1>1. ASSUME NEW c \in DOMAIN cs, HasSuperClass(cs, c) => cs[c].super \in P PROVE c \in P
  <2> SUFFICES ASSUME c \in S, NEW i \in DOMAIN SuperClasses(cs, c) PROVE SuperClasses(cs, c)[i] \in S
    OBVIOUS
  <2> DEFINE o == <<c>>
  <2>1. IsSeq(o) /\ Len(o) = 1 /\ DOMAIN o = {1} /\ o[1] = c
    BY Single
  <2>2. SupersOf(cs, c)
    OBVIOUS
  <2>3. /\ ~HasSuperClass(cs, c) => SuperClasses(cs, c) = o
        /\ HasSuperClass(cs, c) => SuperClasses(cs, c) = SuperClasses(cs, cs[c].super) \o o
    BY <2>2 DEF SupersOf
  <2> HIDE DEF o
  <2>4. CASE ~HasSuperClass(cs, c)
    BY <2>1, <2>3, <2>4
  <2>5. CASE HasSuperClass(cs, c)
    <3> DEFINE q == SuperClasses(cs, cs[c].super)
    <3>1. cs[c].super \in DOMAIN cs /\ cs[c].super \in S /\ \A k \in DOMAIN q : q[k] \in S
      BY <1>1, <2>5
    <3>2. IsSeq(q)
      BY <3>1 DEF SupersOf
    <3> HIDE DEF q
    <3>a. /\ Len(q) \in Nat /\ DOMAIN (q \o o) = 1..(Len(q) + Len(o))
          /\ \A k \in DOMAIN q : (q \o o)[k] = q[k]
          /\ \A k \in (Len(q) + 1)..(Len(q) + Len(o)) : (q \o o)[k] = o[k - Len(q)]
      <4>1. IsSeq(o)
        BY <2>1
      <4>2. QED BY <4>1, <3>2, Joined, Zenon
    <3>b. DOMAIN q = 1..Len(q)
      BY <3>2, Measured
    <3> DEFINE z == Len(o)
    <3>c. z = 1
      BY <2>1
    <3> HIDE DEF z
    <3>d. /\ DOMAIN (q \o o) = 1..(Len(q) + z)
          /\ \A k \in (Len(q) + 1)..(Len(q) + z) : (q \o o)[k] = o[k - Len(q)]
      BY <3>a DEF z
    <3>3. /\ Len(q) \in Nat /\ DOMAIN (q \o o) = 1..(Len(q) + 1) /\ DOMAIN q = 1..Len(q)
          /\ \A k \in DOMAIN q : (q \o o)[k] = q[k]
          /\ \A k \in (Len(q) + 1)..(Len(q) + 1) : (q \o o)[k] = o[k - Len(q)]
      BY <3>a, <3>b, <3>c, <3>d
    <3>4. SuperClasses(cs, c) = q \o o
      BY <2>3, <2>5 DEF q
    <3> DEFINE n == Len(q)
    <3> HIDE DEF n
    <3>5. n \in Nat /\ i \in 1..(n + 1)
      BY <3>3, <3>4 DEF n
    <3>6. i \in 1..n \/ i = n + 1
      BY <3>5
    <3>7. CASE i \in 1..n
      BY <3>1, <3>3, <3>4, <3>7 DEF n
    <3>8. CASE i = n + 1
      <4>1. (q \o o)[n + 1] = o[(n + 1) - n]
        BY <3>3, <3>5 DEF n
      <4>2. (n + 1) - n = 1
        BY <3>5
      <4>3. QED BY <2>1, <3>4, <3>8, <4>1, <4>2
    <3>9. QED BY <3>6, <3>7, <3>8
  <2>6. QED BY <2>4, <2>5
<1> HIDE DEF P
<1>2. DOMAIN cs \subseteq P
  BY <1>1, HeightInduction
<1>3. ASSUME NEW c \in S PROVE \A i \in DOMAIN SuperClasses(cs, c) : SuperClasses(cs, c)[i] \in S
  BY <1>2 DEF P
<1>4. QED BY <1>3 DEF Range

\* A field is found at the place it has in the superclass.
LEMMA InheritedFound ==
  ASSUME NEW cs, NEW c, HasSuperClass(cs, c), Collected(cs, c), Collected(cs, cs[c].super),
         IsSeq(cs[c].fields), NEW f \in Range(InstanceFields(cs, cs[c].super))
  PROVE  LookupFieldIndex(cs, c, f) = LookupFieldIndex(cs, cs[c].super, f)
<1> DEFINE p == InstanceFields(cs, cs[c].super)
           q == cs[c].fields
           r == InstanceFields(cs, c)
           A == {i \in DOMAIN p : p[i] = f}
           B == {i \in DOMAIN r : r[i] = f}
<1>1. IsSeq(p) /\ IsSeq(q) /\ r = p \o q
  BY DEF Collected
<1>2. LookupFieldIndex(cs, c, f) = (IF B = {} THEN None ELSE Min(B))
      /\ LookupFieldIndex(cs, cs[c].super, f) = (IF A = {} THEN None ELSE Min(A))
  BY DEF LookupFieldIndex, Positions
<1>3. \E i \in DOMAIN p : p[i] = f
  BY DEF Range
<1> HIDE DEF p, q, r
<1>4. /\ Len(p) \in Nat /\ Len(q) \in Nat /\ DOMAIN p = 1..Len(p) /\ DOMAIN r = 1..(Len(p) + Len(q))
      /\ \A i \in DOMAIN p : r[i] = p[i]
  BY <1>1, Joined, Measured
<1>5. DOMAIN p \subseteq DOMAIN r /\ DOMAIN r \subseteq Nat
  BY <1>4
<1>6. A \subseteq B /\ A # {} /\ B # {} /\ A \subseteq Nat /\ B \subseteq Nat
  BY <1>3, <1>4, <1>5
<1>7. \A i \in B : \A k \in A : i <= k => i \in A
  BY <1>4
<1> HIDE DEF A, B
<1> DEFINE a == Min(A)
           b == Min(B)
<1>8. a \in A /\ (\A x \in A : a <= x) /\ b \in B /\ (\A x \in B : b <= x)
  BY <1>6, LeastIs
<1> HIDE DEF a, b
<1>9. b <= a /\ a <= b /\ a \in Nat /\ b \in Nat
  BY <1>6, <1>7, <1>8
<1>10. a = b
  BY <1>9
<1>11. QED BY <1>2, <1>6, <1>10 DEF a, b

\* What every class has, and the room of its objects.
FieldsOk(cs) ==
  \A c \in DOMAIN cs : /\ IsSeq(cs[c].fields) /\ cs[c].room \in Nat
                       /\ cs[c].side \in {"instance", "class"}
                       /\ cs[c].side = "class" => cs[c].class = 2 /\ cs[c].room >= 5
SystemFields(cs) ==
  /\ \A i \in 1..13 : cs[2 * i].room = 5 /\ cs[2 * i - 1].fields = << >>
  /\ Len(cs[4].fields) <= 1 /\ Len(cs[8].fields) <= 4
  /\ cs[2].fields = << >> /\ cs[6].fields = << >>
LoadedFields(cs) ==
  \A c \in Instances(cs) : c > 26 => GetNumberOfInstanceFields(cs, cs[c].class) <= cs[c].room
SingletonFields(cs, ss, b) ==
  \A n \in DOMAIN ss : \/ ss[n].class = 6 /\ ss[n].room = 1
                       \/ /\ b >= 41 /\ ss[n].class \in DOMAIN cs
                          /\ GetNumberOfInstanceFields(cs, ss[n].class) <= ss[n].room
FieldsInv ==
  /\ FieldsOk(classes) /\ SystemFields(classes) /\ LoadedFields(classes)
  /\ SingletonFields(classes, singletons, boot)
  /\ \E h : Ranked(classes, h)

\* Classes that keep their superclasses and fields keep what they collect.
FieldsKept(cs, ds) ==
  \A c \in DOMAIN cs : /\ c \in DOMAIN ds /\ ds[c].super = cs[c].super /\ ds[c].class = cs[c].class
                       /\ ds[c].side = cs[c].side
                       /\ ds[c].fields = cs[c].fields /\ ds[c].room = cs[c].room
LEMMA AllCollected ==
  ASSUME NEW cs, ClassObjects(cs), FieldsOk(cs), NEW h, Ranked(cs, h)
  PROVE  \A c \in DOMAIN cs : Collected(cs, c) /\ Len(InstanceFields(cs, c)) \in Nat
<1>1. IsSeq(cs) /\ \A i \in DOMAIN cs : IsSeq(cs[i].fields)
  BY DEF ClassObjects, FieldsOk
<1>2. \A c \in DOMAIN cs : Collected(cs, c)
  BY <1>1, FieldsCollected
<1>3. QED BY <1>2, Measured DEF Collected

LEMMA NumbersStay ==
  ASSUME NEW cs, NEW ds, ClassObjects(cs), ClassObjects(ds), FieldsOk(cs), FieldsOk(ds),
         NEW h, Ranked(cs, h), NEW g, Ranked(ds, g), FieldsKept(cs, ds)
  PROVE  \A c \in DOMAIN cs : InstanceFields(ds, c) = InstanceFields(cs, c)
<1>1. (\A c \in DOMAIN cs : Collected(cs, c)) /\ \A c \in DOMAIN ds : Collected(ds, c)
  BY AllCollected
<1>2. QED BY <1>1, FieldsStay DEF FieldsKept

\* A class of the system is initialized after its superclass.
LEMMA SupersEarlier ==
  /\ SystemName(2) = "Class"
  /\ \A i \in 1..13 : SystemSuperClasses[i][2] # "" =>
        \E k \in 1..13 : k < i /\ SystemSuperClasses[i][2] = SystemName(k)
BY SMTT(20) DEF SystemSuperClasses, SystemName

SystemGlobals13 == \A i \in 1..13 : SystemGlobal(i)

\* The places of the classes of the system.
LEMMA SystemPlaces ==
  ASSUME Base, boot >= 28, SystemGlobals13
  PROVE  /\ \A i \in 1..13 : \E j \in 1..13 : SystemName(i) = AllocationOrder[j] /\ known[SystemName(i)] = 2 * j
         /\ \A j \in 1..13 : \E i \in 1..13 : SystemName(i) = AllocationOrder[j] /\ known[SystemName(i)] = 2 * j
         /\ \A i, k \in 1..13 : known[SystemName(i)] = known[SystemName(k)] => i = k
<1>1. \A j \in 1..13 : known[AllocationOrder[j]] = 2 * j
  BY SystemPairs, Zenon
<1>0. /\ \A i \in 1..13 : \E j \in 1..13 : SystemName(i) = AllocationOrder[j]
      /\ \A j \in 1..13 : \E i \in 1..13 : SystemName(i) = AllocationOrder[j]
  BY NamesAllocated, Zenon DEF SystemName
<1>2. ASSUME NEW i \in 1..13 PROVE \E j \in 1..13 : SystemName(i) = AllocationOrder[j] /\ known[SystemName(i)] = 2 * j
  <2>1. PICK j \in 1..13 : SystemName(i) = AllocationOrder[j]
    BY <1>0
  <2>2. QED BY <1>1, <2>1
<1>3. ASSUME NEW j \in 1..13 PROVE \E i \in 1..13 : SystemName(i) = AllocationOrder[j] /\ known[SystemName(i)] = 2 * j
  <2>1. PICK i \in 1..13 : SystemName(i) = AllocationOrder[j]
    BY <1>0
  <2>2. QED BY <1>1, <2>1
<1>4. ASSUME NEW i \in 1..13, NEW k \in 1..13, known[SystemName(i)] = known[SystemName(k)] PROVE i = k
  <2>1. PICK a \in 1..13 : SystemName(i) = AllocationOrder[a] /\ known[SystemName(i)] = 2 * a
    BY <1>2
  <2>2. PICK b \in 1..13 : SystemName(k) = AllocationOrder[b] /\ known[SystemName(k)] = 2 * b
    BY <1>2
  <2>3. a = b
    BY <1>4, <2>1, <2>2
  <2>4. SystemName(i) = SystemName(k)
    BY <2>1, <2>2, <2>3
  <2>5. SystemSuperClasses[i][1] = SystemSuperClasses[k][1]
    BY <2>4, Zenon DEF SystemName
  <2>6. QED BY <2>5, SystemNames, Zenon
<1>5. QED BY <1>2, <1>3, <1>4, Zenon

\* What a rank of the classes of the system gives each.
RankedAt(h, c) ==
  h[c] \in Nat /\ h[c] < 26 /\ (classes[c].super # None =>
                                classes[c].super \in 1..26 /\ h[classes[c].super] < h[c])

\* The superclass of a class of the system, and that of its metaclass.
LEMMA SystemSupers ==
  ASSUME Base, boot >= 28, SystemGlobals13, NEW i \in 1..13
  PROVE  LET c == known[SystemName(i)]
         IN  \/ classes[c].super = None /\ classes[c - 1].super = known[SystemName(2)]
             \/ \E k \in 1..13 : /\ k < i /\ classes[c].super = known[SystemName(k)]
                                 /\ classes[c - 1].super = known[SystemName(k)] - 1
<1>1. SystemLinked(i)
  BY DEF SystemGlobals13, SystemGlobal
<1> DEFINE s == SystemSuperClasses[i][2]
           c == known[SystemName(i)]
<1>2. /\ s = "" => classes[c].super = None /\ classes[c - 1].super = known["Class"]
      /\ s # "" => classes[c].super = known[s] /\ classes[c - 1].super = known[s] - 1
  BY <1>1 DEF SystemLinked, SystemName
<1>3. s # "" => \E k \in 1..13 : k < i /\ s = SystemName(k)
  BY SupersEarlier
<1> HIDE DEF s, c
<1>4. CASE s = ""
  BY <1>2, <1>4, SupersEarlier DEF c
<1>5. CASE s # ""
  BY <1>2, <1>3, <1>5 DEF c
<1>6. QED BY <1>4, <1>5

LEMMA SystemRanked ==
  ASSUME Base, boot >= 28, SystemGlobals13, Len(classes) = 26
  PROVE  \E h : Ranked(classes, h)
<1> DEFINE K(i) == known[SystemName(i)]
           h == [c \in DOMAIN classes |->
                   IF \E i \in 1..13 : K(i) = c THEN (CHOOSE i \in 1..13 : K(i) = c) - 1
                   ELSE 12 + (CHOOSE i \in 1..13 : K(i) = c + 1)]
<1>1. /\ \A i \in 1..13 : \E j \in 1..13 : K(i) = 2 * j
      /\ \A j \in 1..13 : \E i \in 1..13 : K(i) = 2 * j
      /\ \A i, k \in 1..13 : K(i) = K(k) => i = k
  BY SystemPlaces
<1>2. DOMAIN classes = 1..26
  BY Measured DEF Base, LinkInv, ClassObjects
<1>3. \A i \in 1..13 : K(i) \in 1..26 /\ K(i) - 1 \in 1..26 /\ K(i) - 1 + 1 = K(i)
  BY <1>1
<1>4. ASSUME NEW i \in 1..13, NEW k \in 1..13 PROVE K(i) # K(k) - 1
  <2>1. PICK a \in 1..13 : K(i) = 2 * a
    BY <1>1
  <2>2. PICK b \in 1..13 : K(k) = 2 * b
    BY <1>1
  <2> HIDE DEF K
  <2>3. 2 * a # 2 * b - 1
    OBVIOUS
  <2>4. QED BY <2>1, <2>2, <2>3
<1>5. \A c \in 1..26 : \E i \in 1..13 : c = K(i) \/ c = K(i) - 1
  <2>1. SUFFICES ASSUME NEW c \in 1..26 PROVE \E i \in 1..13 : c = K(i) \/ c = K(i) - 1
    BY Zenon
  <2>2. \E j \in 1..13 : c = 2 * j \/ c = 2 * j - 1
    BY SMT
  <2>3. QED BY <1>1, <2>2, Zenon
<1>6. \A i \in 1..13 : \/ classes[K(i)].super = None /\ classes[K(i) - 1].super = K(2)
                       \/ \E k \in 1..13 : /\ k < i /\ classes[K(i)].super = K(k)
                                           /\ classes[K(i) - 1].super = K(k) - 1
  BY SystemSupers, Zenon
<1> HIDE DEF K
<1>7. \A i \in 1..13 : (CHOOSE k \in 1..13 : K(k) = K(i)) = i
  BY <1>1
<1>8. \A i \in 1..13 : h[K(i)] = i - 1
  BY <1>2, <1>3, <1>7, Zenon
<1>9. ASSUME NEW i \in 1..13 PROVE h[K(i) - 1] = 12 + i
  <2>1. ~\E k \in 1..13 : K(k) = K(i) - 1
    BY <1>4
  <2>2. h[K(i) - 1] = 12 + (CHOOSE k \in 1..13 : K(k) = K(i) - 1 + 1)
    BY <1>2, <1>3, <2>1
  <2>3. K(i) - 1 + 1 = K(i)
    BY <1>3
  <2>4. (CHOOSE k \in 1..13 : K(k) = K(i) - 1 + 1) = i
    BY <1>7, <2>3, SMTT(20)
  <2>5. QED BY <2>2, <2>4
<1> HIDE DEF h
<1>10. ASSUME NEW i \in 1..13
       PROVE  RankedAt(h, K(i)) /\ RankedAt(h, K(i) - 1)
  <2> DEFINE a == K(i)
             b == K(i) - 1
  <2>1. h[a] = i - 1 /\ h[b] = 12 + i
    BY <1>8, <1>9
  <2>2. CASE classes[a].super = None /\ classes[b].super = K(2)
    <3>1. h[K(2)] = 1 /\ K(2) \in 1..26
      BY <1>3, <1>8
    <3> HIDE DEF a, b
    <3>2. QED BY <2>1, <2>2, <3>1 DEF a, b, RankedAt
  <2>3. ASSUME NEW k \in 1..13, k < i, classes[a].super = K(k), classes[b].super = K(k) - 1
        PROVE  RankedAt(h, a) /\ RankedAt(h, b)
    <3>1. h[K(k)] = k - 1 /\ h[K(k) - 1] = 12 + k /\ K(k) \in 1..26 /\ K(k) - 1 \in 1..26
      BY <1>3, <1>8, <1>9
    <3> HIDE DEF a, b
    <3>2. QED BY <2>1, <2>3, <3>1 DEF RankedAt
  <2>4. QED BY <1>6, <2>2, <2>3
<1>11. Ranked(classes, h)
  <2>1. ASSUME NEW c \in 1..26 PROVE RankedAt(h, c)
    <3>1. PICK i \in 1..13 : c = K(i) \/ c = K(i) - 1
      BY <1>5
    <3>2. RankedAt(h, K(i)) /\ RankedAt(h, K(i) - 1)
      BY <1>10
    <3>3. QED BY <3>1, <3>2, Zenon
  <2>2. QED BY <1>2, <2>1 DEF Ranked, HasSuperClass, RankedAt
<1>12. QED BY <1>11

--------------------
(* Methods and their routines. *)

IsInvokable(v) ==
  v \in [signature : {v.signature}, primitive : {v.primitive}, holder : {v.holder}, routine : {v.routine}]
RoutinesOk(list) ==
  IsSeq(list) /\ \A i \in DOMAIN list : IsInvokable(list[i]) /\ (list[i].routine = "empty" => list[i].primitive)
NoneEmpty(list) == \A i \in DOMAIN list : list[i].routine # "empty"
\* What is empty in ds was so in cs.
NoMoreEmpty(cs, ds) ==
  \A c \in DOMAIN cs : \A i \in DOMAIN ds[c].invokables : ds[c].invokables[i].routine = "empty" =>
      \E k \in DOMAIN cs[c].invokables : cs[c].invokables[k] = ds[c].invokables[i]
AllRoutinesOk(cs) == \A c \in DOMAIN cs : RoutinesOk(cs[c].invokables)
Callable(cs, c) ==
  \A i \in DOMAIN cs[c].invokables : cs[c].invokables[i].routine = "empty" =>
      cs[c].name = "Block3" /\ cs[c].invokables[i].signature = "value:with:"
BothCallable(cs, c) == Callable(cs, c) /\ Callable(cs, cs[c].class)

LEMMA MethodsSet ==
  ASSUME NEW list, Methods(list), NEW c
  PROVE  LET x == SetInstanceInvokables(c, list)
         IN  /\ RoutinesOk(x) /\ DOMAIN x = DOMAIN list
             /\ \A i \in DOMAIN x : x[i].signature = list[i].signature
             /\ \A i \in DOMAIN x : x[i].routine = "empty" => list[i].primitive
<1> DEFINE v(i) == [signature |-> list[i].signature, primitive |-> list[i].primitive, holder |-> c,
                    routine |-> IF list[i].primitive THEN "empty" ELSE "bytecodes"]
           x == [i \in DOMAIN list |-> v(i)]
<1>1. SetInstanceInvokables(c, list) = x
  BY DEF SetInstanceInvokables
<1>2. ASSUME NEW i \in DOMAIN list
      PROVE  /\ IsInvokable(v(i)) /\ v(i).signature = list[i].signature
             /\ v(i).routine = "empty" => list[i].primitive /\ v(i).primitive
  BY DEF IsInvokable
<1> HIDE DEF v
<1>3. DOMAIN x = DOMAIN list /\ x = [i \in DOMAIN list |-> x[i]] /\ \A i \in DOMAIN list : x[i] = v(i)
  OBVIOUS
<1> HIDE DEF x
<1>4. IsSeq(x)
  BY <1>3, SameDomain DEF Methods
<1>5. QED BY <1>1, <1>2, <1>3, <1>4 DEF RoutinesOk

OnlyInvokables(cs, ds, c) ==
  \A d \in DOMAIN cs : /\ ds[d].fields = cs[d].fields /\ ds[d].room = cs[d].room
                       /\ d # c => ds[d] = cs[d]
LEMMA InvokablesOnly ==
  ASSUME NEW cs, ClassObjects(cs), NEW c \in DOMAIN cs, NEW x
  PROVE  LET ds == [cs EXCEPT ![c].invokables = x]
         IN  OnlyInvokables(cs, ds, c) /\ ds[c].invokables = x
<1> DEFINE ds == [cs EXCEPT ![c].invokables = x]
<1>1. \A d \in DOMAIN cs : ds[d] = IF d = c THEN [cs[d] EXCEPT !.invokables = x] ELSE cs[d]
  OBVIOUS
<1>2. IsClass(cs[c])
  BY DEF ClassObjects
<1>3. /\ [cs[c] EXCEPT !.invokables = x].fields = cs[c].fields
      /\ [cs[c] EXCEPT !.invokables = x].room = cs[c].room
      /\ [cs[c] EXCEPT !.invokables = x].invokables = x
  BY <1>2 DEF IsClass
<1> HIDE DEF ds
<1>4. QED BY <1>1, <1>3 DEF OnlyInvokables, ds

\* All primitives of a class are bound.
LEMMA PrimitivesAreBound ==
  ASSUME NEW cs, ClassObjects(cs), NEW c \in DOMAIN cs, RoutinesOk(cs[c].invokables),
         NEW routines, NEW cname, NEW ds \in setPrimitives(cs, c, routines, cname)
  PROVE  /\ SameLinks(cs, ds) /\ OnlyInvokables(cs, ds, c)
         /\ RoutinesOk(ds[c].invokables) /\ NoneEmpty(ds[c].invokables)
<1> DEFINE list == cs[c].invokables
           bind(v) == IF v.primitive THEN [v EXCEPT !.routine = "library"] ELSE v
           x == [i \in DOMAIN list |-> bind(list[i])]
<1>1. ds = [cs EXCEPT ![c].invokables = x]
  <2>1. ds = [cs EXCEPT ![c].invokables = [i \in DOMAIN @ |-> bind(@[i])]]
    BY DEF setPrimitives
  <2>2. QED BY <2>1
<1>2. ASSUME NEW v, IsInvokable(v), v.routine = "empty" => v.primitive
      PROVE  IsInvokable(bind(v)) /\ bind(v).routine # "empty"
  BY <1>2 DEF IsInvokable
<1> HIDE DEF bind
<1>3. DOMAIN x = DOMAIN list /\ x = [i \in DOMAIN list |-> x[i]] /\ \A i \in DOMAIN list : x[i] = bind(list[i])
  OBVIOUS
<1> HIDE DEF x
<1>4. IsSeq(x)
  BY <1>3, SameDomain DEF RoutinesOk
<1>5. RoutinesOk(x) /\ NoneEmpty(x)
  BY <1>2, <1>3, <1>4 DEF RoutinesOk, NoneEmpty
<1>6. SameLinks(cs, ds) /\ OnlyInvokables(cs, ds, c) /\ ds[c].invokables = x
  BY <1>1, InvokablesSet, InvokablesOnly, Zenon
<1>7. QED BY <1>5, <1>6

\* Binding both sides of a class.
ClassBound(cs, ds, c) ==
  /\ \A d \in DOMAIN cs : ds[d].fields = cs[d].fields /\ ds[d].room = cs[d].room
  /\ \A d \in DOMAIN cs : d # c /\ d # cs[c].class => ds[d] = cs[d]
  /\ \A d \in {c, cs[c].class} : RoutinesOk(ds[d].invokables) /\ NoneEmpty(ds[d].invokables)
LEMMA BothSidesBound ==
  ASSUME NEW cs, ClassObjects(cs), AllRoutinesOk(cs), NEW c \in DOMAIN cs, cs[c].class \in DOMAIN cs,
         cs[c].class # c, NEW ds \in LoadPrimitives(cs, c)
  PROVE  SameLinks(cs, ds) /\ ClassBound(cs, ds, c)
<1> DEFINE m == cs[c].class
<1>1. PICK routines, cname : \E loaded \in setPrimitives(cs, c, routines, cname) :
          ds \in setPrimitives(loaded, m, routines, cname)
  BY DEF LoadPrimitives
<1>2. PICK es \in setPrimitives(cs, c, routines, cname) : ds \in setPrimitives(es, m, routines, cname)
  BY <1>1
<1>3. /\ SameLinks(cs, es) /\ OnlyInvokables(cs, es, c)
      /\ RoutinesOk(es[c].invokables) /\ NoneEmpty(es[c].invokables)
  BY PrimitivesAreBound DEF AllRoutinesOk
<1>4. ClassObjects(es) /\ m \in DOMAIN es /\ es[m] = cs[m] /\ DOMAIN es = DOMAIN cs
  BY <1>3 DEF SameLinks, OnlyInvokables
<1>5. /\ SameLinks(es, ds) /\ OnlyInvokables(es, ds, m)
      /\ RoutinesOk(ds[m].invokables) /\ NoneEmpty(ds[m].invokables)
  BY <1>2, <1>4, PrimitivesAreBound DEF AllRoutinesOk
<1>6. SameLinks(cs, ds)
  BY <1>3, <1>5, SameLinksTwice
<1>7. ds[c] = es[c]
  BY <1>4, <1>5 DEF OnlyInvokables
<1>8. QED BY <1>3, <1>4, <1>5, <1>6, <1>7 DEF OnlyInvokables, ClassBound

UniqueSignatures(list) == \A i, j \in DOMAIN list : list[i].signature = list[j].signature => i = j

\* A class of blocks gets its evaluation primitive in place of the one in its file.
LEMMA EvaluationBound ==
  ASSUME NEW cs, ClassObjects(cs), NEW c \in DOMAIN cs, RoutinesOk(cs[c].invokables),
         NEW v, IsInvokable(v), v.routine = "evaluation"
  PROVE  LET ds == AddInstanceInvokable(cs, c, v)
             list == cs[c].invokables
             x == ds[c].invokables
         IN  /\ SameLinks(cs, ds) /\ OnlyInvokables(cs, ds, c) /\ RoutinesOk(x)
             /\ \A i \in DOMAIN x : x[i].routine = "empty" =>
                  /\ \E k \in DOMAIN list : list[k] = x[i]
                  /\ UniqueSignatures(list) => x[i].signature # v.signature
<1> DEFINE list == cs[c].invokables
           same == {i \in DOMAIN list : list[i].signature = v.signature}
           k == Min(same)
           w == [v EXCEPT !.holder = c]
           y == [list EXCEPT ![k] = w]
           z == Append(list, v)
           x == IF same # {} THEN y ELSE z
           ds == AddInstanceInvokable(cs, c, v)
<1>1. ds = [cs EXCEPT ![c].invokables = x]
  <2>1. CASE same # {}
    <3>1. ds = [cs EXCEPT ![c].invokables[k] = w]
      BY <2>1 DEF AddInstanceInvokable
    <3>2. QED BY <2>1, <3>1
  <2>2. CASE same = {}
    <3>1. ds = [cs EXCEPT ![c].invokables = Append(@, v)]
      BY <2>2 DEF AddInstanceInvokable
    <3>2. QED BY <2>2, <3>1
  <2>3. QED BY <2>1, <2>2
<1>2. IsSeq(list) /\ Len(list) \in Nat /\ DOMAIN list = 1..Len(list)
      /\ \A i \in DOMAIN list : IsInvokable(list[i]) /\ (list[i].routine = "empty" => list[i].primitive)
  BY Measured DEF RoutinesOk
<1>3. IsInvokable(w) /\ w.routine = "evaluation"
  BY DEF IsInvokable
<1>4. same # {} => k \in same
  <2>1. same \subseteq Nat
    BY <1>2
  <2>2. QED BY <2>1, LeastIs
<1>a. \A i \in same : i \in DOMAIN list /\ list[i].signature = v.signature
  OBVIOUS
<1>b. \A i \in DOMAIN list : list[i].signature = v.signature => i \in same
  OBVIOUS
<1> HIDE DEF same, w, ds, k
<1>5. CASE same # {}
  <2>1. DOMAIN y = DOMAIN list /\ y = [i \in DOMAIN list |-> y[i]]
        /\ \A i \in DOMAIN list : y[i] = IF i = k THEN w ELSE list[i]
    OBVIOUS
  <2> HIDE DEF y
  <2>2. IsSeq(y)
    BY <1>2, <2>1, SameDomain
  <2>3. RoutinesOk(y)
    BY <1>2, <1>3, <2>1, <2>2 DEF RoutinesOk
  <2>4. ASSUME NEW i \in DOMAIN y, y[i].routine = "empty"
        PROVE  /\ \E j \in DOMAIN list : list[j] = y[i]
               /\ UniqueSignatures(list) => y[i].signature # v.signature
    <3>1. i # k /\ y[i] = list[i] /\ i \in DOMAIN list
      BY <1>3, <2>1, <2>4
    <3>2. k \in DOMAIN list /\ list[k].signature = v.signature
      BY <1>4, <1>5, <1>a
    <3>3. QED BY <3>1, <3>2 DEF UniqueSignatures
  <2>5. x = y
    BY <1>5
  <2> HIDE DEF x
  <2>6. SameLinks(cs, ds) /\ OnlyInvokables(cs, ds, c) /\ ds[c].invokables = y
    BY <1>1, <2>5, InvokablesSet, InvokablesOnly, Zenon
  <2>7. QED BY <2>3, <2>4, <2>6 DEF ds
<1>6. CASE same = {}
  <2>1. IsSeq(z) /\ DOMAIN z = 1..(Len(list) + 1) /\ z[Len(list) + 1] = v /\ \A i \in DOMAIN list : z[i] = list[i]
    BY <1>2, Appended
  <2> HIDE DEF z
  <2>2. \A i \in DOMAIN z : i = Len(list) + 1 \/ i \in DOMAIN list
    BY <1>2, <2>1
  <2>3. RoutinesOk(z)
    BY <1>2, <2>1, <2>2 DEF RoutinesOk
  <2>4. ASSUME NEW i \in DOMAIN z, z[i].routine = "empty"
        PROVE  /\ \E j \in DOMAIN list : list[j] = z[i]
               /\ UniqueSignatures(list) => z[i].signature # v.signature
    <3>1. i \in DOMAIN list /\ z[i] = list[i]
      BY <2>1, <2>2, <2>4
    <3>2. list[i].signature # v.signature
      BY <1>6, <1>b, <3>1
    <3>3. QED BY <3>1, <3>2
  <2>5. x = z
    BY <1>6
  <2> HIDE DEF x
  <2>6. SameLinks(cs, ds) /\ OnlyInvokables(cs, ds, c) /\ ds[c].invokables = z
    BY <1>1, <2>5, InvokablesSet, InvokablesOnly, Zenon
  <2>7. QED BY <2>3, <2>4, <2>6 DEF ds
<1>7. QED BY <1>5, <1>6

\* The primitive by which a class of blocks is evaluated.
EvaluationName(name) ==
  CASE name = "Block1" -> "value" [] name = "Block2" -> "value:" [] OTHER -> "value:with:"
BlockNames == {BlockName(n) : n \in 1..3}
BlockReady(cs, c, name) ==
  /\ cs[c].name = name /\ UniqueSignatures(cs[c].invokables)
  /\ \A i \in DOMAIN cs[c].invokables : cs[c].invokables[i].routine = "empty" =>
        cs[c].invokables[i].signature = EvaluationName(name)
  /\ Callable(cs, cs[c].class)

LEMMA BlockNamesAre ==
  /\ BlockNames = {"Block1", "Block2", "Block3"}
  /\ BlockArguments("Block1") = 1 /\ BlockArguments("Block2") = 2
<1>1. BlockName(1) = "Block1" /\ BlockName(2) = "Block2" /\ BlockName(3) = "Block3"
  BY DEF BlockName
<1>2. 1..3 = {1, 2, 3}
  OBVIOUS
<1>3. BlockNames = {"Block1", "Block2", "Block3"}
  BY <1>1, <1>2 DEF BlockNames
<1>4. \A n \in 1..3 : (BlockName(n) = "Block1" <=> n = 1) /\ (BlockName(n) = "Block2" <=> n = 2)
  BY <1>1, <1>2
<1>5. QED BY <1>2, <1>3, <1>4 DEF BlockArguments

LEMMA BlockBound ==
  ASSUME NEW cs, ClassObjects(cs), AllRoutinesOk(cs), NEW c \in DOMAIN cs, cs[c].class \in DOMAIN cs,
         cs[c].class # c, NEW name \in BlockNames, BlockReady(cs, c, name)
  PROVE  LET ds == AddInstanceInvokable(cs, c, NewEvaluationPrimitive(BlockArguments(name)))
         IN  BothCallable(ds, c)
<1> DEFINE v == NewEvaluationPrimitive(BlockArguments(name))
           ds == AddInstanceInvokable(cs, c, v)
           x == ds[c].invokables
<1>1. /\ IsInvokable(v) /\ v.routine = "evaluation"
      /\ v.signature = IF BlockArguments(name) = 1 THEN "value" ELSE "value:"
  BY DEF NewEvaluationPrimitive, IsInvokable
<1>2. name \in {"Block1", "Block2", "Block3"}
  BY BlockNamesAre
<1>3. name # "Block3" => v.signature = EvaluationName(name)
  BY <1>1, <1>2, BlockNamesAre DEF EvaluationName
<1>4. name = "Block3" => EvaluationName(name) = "value:with:"
  BY DEF EvaluationName
<1> HIDE DEF v
<1>5. /\ SameLinks(cs, ds) /\ OnlyInvokables(cs, ds, c)
      /\ \A i \in DOMAIN x : x[i].routine = "empty" =>
                  /\ \E k \in DOMAIN cs[c].invokables : cs[c].invokables[k] = x[i]
                  /\ UniqueSignatures(cs[c].invokables) => x[i].signature # v.signature
  BY <1>1, EvaluationBound DEF AllRoutinesOk
<1> HIDE DEF ds
<1>6. /\ ds[c].name = name /\ ds[c].class = cs[c].class /\ ds[cs[c].class] = cs[cs[c].class]
  BY <1>5 DEF SameLinks, OnlyInvokables, BlockReady
<1>7. Callable(ds, cs[c].class)
  BY <1>6 DEF BlockReady, Callable
<1>8. ASSUME NEW i \in DOMAIN x, x[i].routine = "empty"
      PROVE  ds[c].name = "Block3" /\ x[i].signature = "value:with:"
  <2>1. x[i].signature = EvaluationName(name) /\ x[i].signature # v.signature
    BY <1>5, <1>8 DEF BlockReady
  <2>2. QED BY <1>3, <1>4, <1>6, <2>1
<1>9. Callable(ds, c)
  BY <1>8 DEF Callable
<1>10. QED BY <1>6, <1>7, <1>9 DEF BothCallable, ds, v

\* After the classes of the system no call is for one of them.
NoSystemInv == boot > 40 /\ loads # << >> => loads[1].system = None

LEMMA NoSystemStep ==
  ASSUME Before, NoSystemInv, [Next]_vars
  PROVE  NoSystemInv'
<1>1. /\ IsSeq(loads) /\ Len(loads) \in Nat /\ DOMAIN loads = 1..Len(loads) /\ boot \in Nat
      /\ loads # << >> => Len(loads) \in DOMAIN loads
  BY Measured DEF Before, Base, LoadInv, CallsInv, BindingsInv
<1>2. CASE UNCHANGED <<loads, boot>>
  BY <1>2 DEF NoSystemInv
<1>3. CASE loads' = << >>
  BY <1>3 DEF NoSystemInv
<1>4. ASSUME NEW name, NEW how, loads' = <<Call(name, how, None)>> PROVE NoSystemInv'
  <2>1. Call(name, how, None).system = None
    BY NewCall
  <2>2. loads'[1] = Call(name, how, None)
    BY <1>4, Single
  <2>3. QED BY <2>1, <2>2 DEF NoSystemInv
<1>5. ASSUME NEW d, loads # << >>, SetTop(d), d.system = top.system, UNCHANGED boot PROVE NoSystemInv'
  <2>1. loads'[Len(loads)] = d /\ \A i \in DOMAIN loads : i # Len(loads) => loads'[i] = loads[i]
    BY <1>1, <1>5, TopSet, Zenon DEF SetTop
  <2>2. 1 \in DOMAIN loads
    BY <1>1, <1>5
  <2>3. loads'[1].system = loads[1].system
    <3>1. CASE 1 = Len(loads)
      BY <1>5, <2>1, <3>1 DEF top
    <3>2. CASE 1 # Len(loads)
      BY <2>1, <2>2, <3>2
    <3>3. QED BY <3>1, <3>2
  <2>4. QED BY <1>5, <2>3, Zenon DEF NoSystemInv
<1>6. ASSUME NEW c, loads # << >>, loads' = Append(loads, c), UNCHANGED boot PROVE NoSystemInv'
  <2>1. 1 \in DOMAIN loads
    BY <1>1, <1>6
  <2>2. loads'[1] = loads[1]
    BY <1>1, <1>6, <2>1, Appended
  <2>3. QED BY <1>6, <2>2 DEF NoSystemInv
<1>7. ASSUME NEW d, Len(loads) > 1, loads' = Append(SubSeq(loads, 1, Len(loads) - 2), d), UNCHANGED boot,
             d.system = loads[Len(loads) - 1].system
      PROVE NoSystemInv'
  <2> DEFINE k == Len(loads) - 2
  <2>1. k \in Nat /\ k < Len(loads) /\ Len(loads) - 1 = k + 1
    BY <1>1, <1>7
  <2> HIDE DEF k
  <2>2. loads' = Append(SubSeq(loads, 1, k), d)
    BY <1>7 DEF k
  <2>3. loads'[k + 1] = d /\ \A i \in 1..k : loads'[i] = loads[i]
    BY <1>1, <2>1, <2>2, Replaced
  <2>4. loads'[1].system = loads[1].system
    <3>1. CASE k = 0
      BY <1>7, <2>1, <2>3, <3>1
    <3>2. CASE k # 0
      BY <2>1, <2>3, <3>2
    <3>3. QED BY <3>1, <3>2
  <2>5. loads # << >>
    BY <1>7, NoneYet
  <2>6. QED BY <1>7, <2>4, <2>5 DEF NoSystemInv
<1>8. CASE Boot
  <2>1. \/ boot \in 28..40 /\ UNCHANGED boot
        \/ loads' = <<Call(step.name, "class", None)>>
        \/ UNCHANGED loads /\ loads = << >>
    BY <1>8, BootChange DEF Before
  <2>2. CASE boot \in 28..40 /\ UNCHANGED boot
    BY <2>2 DEF NoSystemInv
  <2>3. CASE UNCHANGED loads /\ loads = << >>
    BY <2>3 DEF NoSystemInv
  <2>4. QED BY <1>4, <2>1, <2>2, <2>3
<1>9. CASE GetBlockClassWithArgs \/ Load \/ BlocksForResolve \/ Look
  <2>1. UNCHANGED boot
    BY <1>9 DEF GetBlockClassWithArgs, Load, BlocksForResolve, Look
  <2>2. UNCHANGED loads \/ \E name, how : loads' = <<Call(name, how, None)>>
    BY <1>9, Zenon DEF GetBlockClassWithArgs, Load, BlocksForResolve, Look
  <2>3. QED BY <1>2, <1>4, <2>1, <2>2
<1>10. CASE OpenFile \/ Assemble \/ LoadSuperClass
  <2>1. loads # << >> /\ UNCHANGED boot
    BY <1>10 DEF OpenFile, Assemble, LoadSuperClass
  <2>2. IsCall(top)
    BY <2>1, TopIsCall, Zenon DEF Before, Base, LoadInv
  <2>3. \/ UNCHANGED loads
        \/ \E c : loads' = Append(loads, c)
        \/ \E x, y, z : \/ SetTop([top EXCEPT !.dir = x])
                        \/ SetTop([top EXCEPT !.pc = x])
                        \/ SetTop([top EXCEPT !.pc = x, !.class = y])
                        \/ SetTop([top EXCEPT !.pc = x, !.dir = y])
                        \/ SetTop([top EXCEPT !.super = x, !.pc = y])
    BY <1>10, Zenon DEF OpenFile, Assemble, LoadSuperClass
  <2>4. \A x, y : /\ [top EXCEPT !.dir = x].system = top.system
                  /\ [top EXCEPT !.pc = x].system = top.system
                  /\ [top EXCEPT !.pc = x, !.class = y].system = top.system
                  /\ [top EXCEPT !.pc = x, !.dir = y].system = top.system
                  /\ [top EXCEPT !.super = x, !.pc = y].system = top.system
    BY <2>2 DEF IsCall
  <2>5. QED BY <1>2, <1>5, <1>6, <2>1, <2>3, <2>4, Zenon
<1>11. CASE Return
  <2>1. Base
    BY DEF Before
  <2>2. \/ UNCHANGED <<loads, boot>>
        \/ loads' = << >>
        \/ Len(loads) > 1 /\ UNCHANGED boot /\ loads' = Append(SubSeq(loads, 1, Len(loads) - 2),
                             [loads[Len(loads) - 1] EXCEPT !.super = top.class, !.pc = "assemble"])
    BY <1>11, <2>1, ReturnChange
  <2>3. CASE Len(loads) > 1 /\ UNCHANGED boot /\ loads' = Append(SubSeq(loads, 1, Len(loads) - 2),
                             [loads[Len(loads) - 1] EXCEPT !.super = top.class, !.pc = "assemble"])
    <3> DEFINE n == Len(loads)
    <3>a. n \in Nat /\ n > 1 /\ DOMAIN loads = 1..n
      BY <1>1, <2>3
    <3> HIDE DEF n
    <3>b. n - 1 \in DOMAIN loads
      BY <3>a
    <3>1. IsCall(loads[n - 1])
      BY <2>1, <3>b DEF Base, LoadInv, CallsInv, BlockCallsOk
    <3> DEFINE d == [loads[n - 1] EXCEPT !.super = top.class, !.pc = "assemble"]
    <3>2. d.system = loads[n - 1].system
      BY <3>1 DEF IsCall
    <3>3. loads' = Append(SubSeq(loads, 1, Len(loads) - 2), d)
      BY <2>3 DEF n
    <3> HIDE DEF d
    <3>4. QED BY <1>7, <2>3, <3>2, <3>3 DEF n
  <2>4. QED BY <1>2, <1>3, <2>2, <2>3
<1>12. CASE HandleArgument \/ ArgumentsHandled \/ NotFound \/ Ask \/ Loaded \/ PutGlobals \/ ReadLine \/ UNCHANGED vars
  BY <1>2, <1>12 DEF HandleArgument, ArgumentsHandled, NotFound, Ask, Loaded, PutGlobals, ReadLine, vars
<1>13. QED BY <1>8, <1>9, <1>10, <1>11, <1>12 DEF Next

\* A class of the system is filled by the call that the start has made for it.
LEMMA FillingCall ==
  ASSUME Before, NoSystemInv, Filling
  PROVE  /\ boot \in 28..40 /\ outcome = "booting" /\ Len(loads) = 1 /\ Len(classes) = 26
         /\ top.name = SystemName(boot - 27) /\ top.system = known[SystemName(boot - 27)]
<1>1. /\ loads # << >> /\ top.system # None /\ Going /\ LoadInv /\ StackInv /\ BootInv /\ boot \in Nat
  BY DEF Filling, Before, Base, LoadInv, BindingsInv
<1>2. IsSeq(loads) /\ Len(loads) \in DOMAIN loads /\ DOMAIN loads = 1..Len(loads)
  BY <1>1, Measured DEF LoadInv, CallsInv
<1>3. \A i \in DOMAIN loads : i > 1 => loads[i].system = None
  BY <1>1 DEF StackInv, StackOk, InnerCall
<1> DEFINE n == Len(loads)
<1>4. n \in 1..n /\ (n > 1 => loads[n].system = None) /\ loads[n].system # None
  BY <1>1, <1>2, <1>3 DEF top
<1> HIDE DEF n
<1>5. n = 1
  BY <1>4
<1>6. top = loads[1]
  BY <1>5 DEF top, n
<1>7. boot <= 40
  BY <1>1, <1>6 DEF NoSystemInv
<1>8. outcome = "booting"
  BY <1>1, <1>7 DEF Going, BootInv
<1>9. FirstCall
  BY <1>1, <1>8 DEF BootInv
<1>10. boot \in 28..40
  <2>1. boot >= 28
    BY DEF Before
  <2>2. QED BY <1>1, <1>7, <2>1
<1>11. QED BY <1>1, <1>5, <1>6, <1>7, <1>8, <1>9, <1>10 DEF FirstCall, BootInv, n

\* What a step does to the methods of a class, and what not.
LEMMA BindingFields ==
  ASSUME Base, AllRoutinesOk(classes), Binding
  PROVE  /\ SameLinks(classes, classes')
         /\ \A d \in DOMAIN classes : classes'[d].fields = classes[d].fields /\ classes'[d].room = classes[d].room
         /\ \A d \in DOMAIN classes : d # top.class /\ d # classes[top.class].class => classes'[d] = classes[d]
         /\ AllRoutinesOk(classes') /\ NoMoreEmpty(classes, classes')
         /\ (top.how = "block" => top.name \in BlockNames /\ BlockReady(classes, top.class, top.name))
               => BothCallable(classes', top.class)
<1> DEFINE c == top.class
           m == classes[c].class
<1>1. /\ SameLinks(classes, classes') /\ c \in Instances(classes) /\ c \in DOMAIN classes /\ m \in DOMAIN classes
      /\ ClassObjects(classes) /\ classes' \in WithPrimitives(top)
  BY BindingSame DEF Base, LinkInv, Binding
<1>2. Hierarchy(classes, DOMAIN globals, known["Class"])
  BY TopOfHierarchy DEF Base, LinkInv, LoadInv, Binding
<1>3. m # c
  BY <1>1, <1>2 DEF Hierarchy, Linked, Instances
<1>4. /\ DOMAIN classes' = DOMAIN classes /\ classes'[c].class = m
      /\ classes'[c].name = classes[c].name
  BY <1>1 DEF SameLinks
<1>5. CASE /\ top.how = "block"
           /\ classes' = AddInstanceInvokable(classes, c, NewEvaluationPrimitive(BlockArguments(top.name)))
  <2> DEFINE v == NewEvaluationPrimitive(BlockArguments(top.name))
             ds == AddInstanceInvokable(classes, c, v)
             x == ds[c].invokables
  <2>1. IsInvokable(v) /\ v.routine = "evaluation"
    BY DEF NewEvaluationPrimitive, IsInvokable
  <2>2. (top.name \in BlockNames /\ BlockReady(classes, c, top.name)) => BothCallable(ds, c)
    BY <1>1, <1>3, BlockBound
  <2> HIDE DEF v
  <2>3. /\ OnlyInvokables(classes, ds, c) /\ RoutinesOk(x)
        /\ \A i \in DOMAIN x : x[i].routine = "empty" =>
              \E k \in DOMAIN classes[c].invokables : classes[c].invokables[k] = x[i]
    BY <1>1, <2>1, EvaluationBound DEF AllRoutinesOk
  <2>4. classes' = ds
    BY <1>5 DEF v
  <2> HIDE DEF ds, m, c
  <2>5. AllRoutinesOk(ds) /\ NoMoreEmpty(classes, ds)
    BY <1>4, <2>3, <2>4 DEF OnlyInvokables, AllRoutinesOk, NoMoreEmpty
  <2>6. QED BY <1>1, <1>5, <2>2, <2>3, <2>4, <2>5 DEF OnlyInvokables, c, m
<1>6. CASE top.how # "block" /\ classes' \in LoadPrimitives(classes, c)
  <2>1. ClassBound(classes, classes', c)
    BY <1>1, <1>3, <1>6, BothSidesBound
  <2>2. AllRoutinesOk(classes') /\ NoMoreEmpty(classes, classes')
    <3>1. ASSUME NEW d \in DOMAIN classes
          PROVE  /\ RoutinesOk(classes'[d].invokables)
                 /\ classes'[d] = classes[d] \/ NoneEmpty(classes'[d].invokables)
      BY <2>1, Zenon DEF ClassBound, AllRoutinesOk
    <3>2. QED BY <1>4, <3>1 DEF AllRoutinesOk, NoMoreEmpty, NoneEmpty
  <2>3. BothCallable(classes', c)
    BY <1>4, <2>1, Zenon DEF ClassBound, NoneEmpty, BothCallable, Callable
  <2>4. QED BY <1>1, <2>1, <2>2, <2>3 DEF ClassBound
<1>7. CASE top.how # "block" /\ classes' = classes /\ ~HasPrimitives(classes, c) /\ ~HasPrimitives(classes, m)
  <2>1. ASSUME NEW d \in {c, m} PROVE Callable(classes, d)
    <3>1. ~HasPrimitives(classes, d) /\ RoutinesOk(classes[d].invokables)
      BY <1>1, <1>7 DEF AllRoutinesOk
    <3>2. ASSUME NEW i \in DOMAIN classes[d].invokables PROVE classes[d].invokables[i].routine # "empty"
      <4>1. classes[d].invokables[i] \in Range(classes[d].invokables)
        BY DEF Range
      <4>2. ~classes[d].invokables[i].primitive
        BY <3>1, <4>1 DEF HasPrimitives
      <4>3. QED BY <3>1, <4>2 DEF RoutinesOk
    <3>3. QED BY <3>2 DEF Callable
  <2>2. BothCallable(classes, c)
    BY <2>1 DEF BothCallable
  <2>3. BothCallable(classes', c) /\ AllRoutinesOk(classes') /\ NoMoreEmpty(classes, classes')
    BY <1>7, <2>2 DEF NoMoreEmpty
  <2>4. QED BY <1>1, <1>7, <2>3
<1> HIDE DEF c, m
<1>8. \/ top.how = "block" /\ classes' = AddInstanceInvokable(classes, c, NewEvaluationPrimitive(BlockArguments(top.name)))
      \/ top.how # "block" /\ classes' \in LoadPrimitives(classes, c)
      \/ top.how # "block" /\ classes' = classes /\ ~HasPrimitives(classes, c) /\ ~HasPrimitives(classes, m)
  <2>1. CASE top.how = "block"
    <3> DEFINE ds == AddInstanceInvokable(classes, c, NewEvaluationPrimitive(BlockArguments(top.name)))
    <3>1. WithPrimitives(top) = {ds}
      BY <2>1 DEF WithPrimitives, c
    <3> HIDE DEF ds
    <3>2. classes' = ds
      BY <1>1, <3>1
    <3>3. QED BY <2>1, <3>2 DEF ds
  <2>2. CASE top.how # "block" /\ (HasPrimitives(classes, c) \/ HasPrimitives(classes, m))
    BY <1>1, <2>2 DEF WithPrimitives, c, m
  <2>3. CASE top.how # "block" /\ ~(HasPrimitives(classes, c) \/ HasPrimitives(classes, m))
    BY <1>1, <2>3 DEF WithPrimitives, c, m
  <2>4. QED BY <2>1, <2>2, <2>3
<1>9. QED BY <1>5, <1>6, <1>7, <1>8 DEF c, m

\* A class of the system, with the methods and fields of its file.
Filled(c, m, f) ==
  /\ c \in DOMAIN classes /\ m \in DOMAIN classes /\ c # m /\ SameLinks(classes, classes')
  /\ classes'[c].invokables = SetInstanceInvokables(c, f.methods) /\ classes'[c].fields = f.fields
  /\ classes'[m].invokables = SetInstanceInvokables(m, f.classMethods) /\ classes'[m].fields = f.classFields
  /\ \A d \in DOMAIN classes : classes'[d].room = classes[d].room
  /\ \A d \in DOMAIN classes : d # c /\ d # m => classes'[d] = classes[d]

LEMMA FillingFills ==
  ASSUME Before, NoSystemInv, Filling, LibraryFits
  PROVE  \E j \in 1..13 : \E f : /\ known[SystemName(boot - 27)] = 2 * j /\ SystemName(boot - 27) = AllocationOrder[j]
                                 /\ top.system = 2 * j /\ Filled(2 * j, 2 * j - 1, f)
                                 /\ IsFile(f) /\ FileFits(AllocationOrder[j], f)
<1>1. /\ boot \in 28..40 /\ Len(classes) = 26
      /\ top.name = SystemName(boot - 27) /\ top.system = known[SystemName(boot - 27)]
  BY FillingCall
<1>2. boot - 27 \in 1..13
  BY <1>1
<1>3. PICK j \in 1..13 : SystemName(boot - 27) = AllocationOrder[j] /\ known[SystemName(boot - 27)] = 2 * j
  <2>1. SystemGlobals13 /\ Base /\ boot >= 28
    BY DEF SystemGlobals13, Before, BootInv
  <2>2. QED BY <1>2, <2>1, SystemPlaces
<1> DEFINE c == 2 * j
           m == 2 * j - 1
           f == FileAt(top, top.dir)
<1>4. c \in DOMAIN classes /\ classes[c].class = m /\ m \in DOMAIN classes /\ c # m
  <2>1. SystemGlobal(j) /\ 2 * j \in Instances(classes)
    BY SystemPairs DEF Before, BootInv
  <2>2. QED BY <2>1 DEF SystemGlobal, Instances
<1>5. IsFile(f) /\ FileFits(AllocationOrder[j], f)
  BY <1>1, <1>3, FilesAreFiles DEF Filling, Before
<1>6. ClassObjects(classes) /\ classes' = AssembleSystemClass(classes, c, f)
  BY <1>1, <1>3 DEF Before, Base, LinkInv, Filling
<1> HIDE DEF c, m, f
<1>8. Filled(c, m, f)
  BY <1>4, <1>6, ClassFilled DEF Filled
<1>9. QED BY <1>1, <1>3, <1>5, <1>8 DEF c, m

\* Classes whose fields stay.
LEMMA SameFields ==
  ASSUME NEW cs, NEW ds, ClassObjects(cs), ClassObjects(ds), DOMAIN ds = DOMAIN cs, FieldsKept(cs, ds),
         FieldsOk(cs), SystemFields(cs), LoadedFields(cs), NEW h, Ranked(cs, h), 1..26 \subseteq DOMAIN cs,
         \A c \in Instances(cs) : cs[c].class \in DOMAIN cs
  PROVE  /\ FieldsOk(ds) /\ SystemFields(ds) /\ LoadedFields(ds) /\ Ranked(ds, h)
         /\ \A c \in DOMAIN cs : InstanceFields(ds, c) = InstanceFields(cs, c)
<1>1. FieldsOk(ds)
  BY DEF FieldsOk, FieldsKept
<1>2. Len(ds) = Len(cs)
  BY Measured DEF ClassObjects
<1>3. Ranked(ds, h)
  BY <1>2 DEF Ranked, FieldsKept, HasSuperClass
<1>4. \A c \in DOMAIN cs : InstanceFields(ds, c) = InstanceFields(cs, c)
  BY <1>1, <1>3, NumbersStay
<1>5. SystemFields(ds)
  <2>1. \A i \in 1..13 : 2 * i \in 1..26 /\ 2 * i - 1 \in 1..26
    OBVIOUS
  <2>2. \A c \in 1..26 : ds[c].room = cs[c].room /\ ds[c].fields = cs[c].fields
    BY DEF FieldsKept
  <2>3. \A i \in 1..13 : ds[2 * i].room = cs[2 * i].room /\ ds[2 * i - 1].fields = cs[2 * i - 1].fields
    BY <2>1, <2>2
  <2>4. \A c \in {2, 4, 6, 8} : ds[c].fields = cs[c].fields
    BY <2>2
  <2>5. QED BY <2>3, <2>4 DEF SystemFields
<1>6. LoadedFields(ds)
  <2>1. SUFFICES ASSUME NEW c \in Instances(ds), c > 26
                 PROVE  GetNumberOfInstanceFields(ds, ds[c].class) <= ds[c].room
    BY DEF LoadedFields
  <2>2. c \in Instances(cs) /\ ds[c].class = cs[c].class /\ ds[c].room = cs[c].room
    BY DEF Instances, FieldsKept
  <2>3. GetNumberOfInstanceFields(cs, cs[c].class) <= cs[c].room
    BY <2>1, <2>2 DEF LoadedFields
  <2>4. InstanceFields(ds, cs[c].class) = InstanceFields(cs, cs[c].class)
    BY <1>4, <2>2
  <2>5. QED BY <2>2, <2>3, <2>4 DEF GetNumberOfInstanceFields
<1>7. QED BY <1>1, <1>3, <1>4, <1>5, <1>6

\* A class with its metaclass is added.
Added(cs, f, s, ds) ==
  LET n == Len(cs)
  IN  /\ ClassObjects(ds) /\ n \in Nat /\ DOMAIN cs = 1..n /\ DOMAIN ds = 1..(n + 2) /\ Len(ds) = n + 2
      /\ \A c \in DOMAIN cs : ds[c] = cs[c]
      /\ ds[n + 1].side = "class" /\ ds[n + 1].super = cs[s].class
      /\ ds[n + 2].side = "instance" /\ ds[n + 2].class = n + 1 /\ ds[n + 2].super = s
      /\ ds[n + 1].fields = f.classFields /\ ds[n + 2].fields = f.fields
      /\ ds[n + 1].class = known["Metaclass"]
      /\ ds[n + 1].room = VMClassNumberOfFields + GetNumberOfInstanceFields(cs, known["Metaclass"])
      /\ \E es : /\ ClassObjects(es) /\ Len(es) = n + 1 /\ DOMAIN es = 1..(n + 1)
                 /\ \A c \in DOMAIN es : es[c] = ds[c]
                 /\ ds[n + 2].room = VMClassNumberOfFields + GetNumberOfInstanceFields(es, n + 1)

LEMMA AddedHave ==
  ASSUME NEW cs, ClassObjects(cs), NEW f, NEW s
  PROVE  Added(cs, f, s, Assembled(cs, f, s))
BY NewClasses, NewClassesHave DEF Added

LEMMA AddedFields ==
  ASSUME NEW cs, ClassObjects(cs), FieldsOk(cs), SystemFields(cs), LoadedFields(cs),
         NEW h, Ranked(cs, h), 1..26 \subseteq DOMAIN cs,
         \A c \in Instances(cs) : cs[c].class \in DOMAIN cs,
         known["Metaclass"] = 2, NEW f, IsFile(f), NEW s \in Instances(cs)
  PROVE  LET ds == Assembled(cs, f, s)
         IN  /\ FieldsOk(ds) /\ SystemFields(ds) /\ LoadedFields(ds) /\ \E g : Ranked(ds, g)
             /\ \A c \in DOMAIN cs : InstanceFields(ds, c) = InstanceFields(cs, c)
<1> DEFINE n == Len(cs)
           ds == Assembled(cs, f, s)
           m == cs[s].class
<1>0. Added(cs, f, s, ds)
  BY AddedHave
<1>1. /\ ClassObjects(ds) /\ n \in Nat /\ DOMAIN cs = 1..n /\ DOMAIN ds = 1..(n + 2) /\ Len(ds) = n + 2
      /\ \A c \in DOMAIN cs : ds[c] = cs[c]
      /\ ds[n + 1].side = "class" /\ ds[n + 1].super = m
      /\ ds[n + 2].side = "instance" /\ ds[n + 2].class = n + 1 /\ ds[n + 2].super = s
  BY <1>0, Zenon DEF Added
<1>2. /\ ds[n + 1].fields = f.classFields /\ ds[n + 2].fields = f.fields
      /\ ds[n + 1].class = 2 /\ ds[n + 1].room = VMClassNumberOfFields + GetNumberOfInstanceFields(cs, 2)
  BY <1>0, Zenon DEF Added
<1>3. PICK es : /\ ClassObjects(es) /\ Len(es) = n + 1 /\ DOMAIN es = 1..(n + 1)
                /\ \A c \in DOMAIN es : es[c] = ds[c]
                /\ ds[n + 2].room = VMClassNumberOfFields + GetNumberOfInstanceFields(es, n + 1)
  BY <1>0, Zenon DEF Added
<1>4. VMClassNumberOfFields = 5
  BY DEF VMClassNumberOfFields, VMObjectNumberOfFields
<1>5. s \in 1..n /\ m \in 1..n /\ 26 <= n /\ 2 \in 1..n
  <2>1. s \in DOMAIN cs /\ m \in DOMAIN cs
    BY DEF Instances
  <2>2. 26 \in DOMAIN cs /\ 2 \in DOMAIN cs
    OBVIOUS
  <2>3. DOMAIN cs = 1..n
    BY <1>1
  <2> HIDE DEF n, m
  <2>4. QED BY <2>1, <2>2, <2>3
<1>6. IsSeq(f.fields) /\ IsSeq(f.classFields)
  BY DEF IsFile
<1> HIDE DEF ds, m, n
<1>7. GetNumberOfInstanceFields(cs, 2) \in Nat
  BY AllCollected DEF GetNumberOfInstanceFields
<1>24. n \in Nat
  BY <1>1
<1>25. ds[n + 1].class = 2 /\ ds[n + 1].room \in Nat /\ ds[n + 1].room >= 5
  <2> DEFINE r == ds[n + 1].room
             k == GetNumberOfInstanceFields(cs, 2)
  <2>1. r = 5 + k /\ k \in Nat
    BY <1>2, <1>4, <1>7
  <2> HIDE DEF r, k
  <2>2. r \in Nat /\ r >= 5
    BY <2>1
  <2>3. QED BY <1>2, <2>2 DEF r
<1>26. \A c \in DOMAIN cs : c \in DOMAIN ds /\ c \in DOMAIN es
  <2>1. DOMAIN cs = 1..n /\ DOMAIN ds = 1..(n + 2) /\ DOMAIN es = 1..(n + 1)
    BY <1>1, <1>3
  <2>2. QED
    <3>1. 1..n \subseteq 1..(n + 1) /\ 1..n \subseteq 1..(n + 2)
      BY <1>24
    <3>2. QED BY <2>1, <3>1, Zenon
<1>27. \A c \in DOMAIN es : c \in DOMAIN ds
  <2>1. DOMAIN ds = 1..(n + 2) /\ DOMAIN es = 1..(n + 1)
    BY <1>1, <1>3
  <2>2. QED
    <3>1. 1..(n + 1) \subseteq 1..(n + 2)
      BY <1>24
    <3>2. QED BY <2>1, <3>1, Zenon
<1>8. FieldsOk(es)
  <2>1. SUFFICES ASSUME NEW c \in 1..(n + 1)
                 PROVE  /\ IsSeq(es[c].fields) /\ es[c].room \in Nat
                        /\ es[c].side \in {"instance", "class"}
                        /\ es[c].side = "class" => es[c].class = 2 /\ es[c].room >= 5
    BY <1>3 DEF FieldsOk
  <2>2. CASE c \in 1..n
    <3>1. es[c] = cs[c]
      BY <1>1, <1>3, <2>2
    <3>2. QED BY <1>1, <2>2, <3>1 DEF FieldsOk
  <2>3. CASE c = n + 1
    <3>1. es[c] = ds[n + 1]
      BY <1>3, <2>3
    <3>2. ds[n + 1].side = "class" /\ ds[n + 1].fields = f.classFields
      BY <1>1, <1>2
    <3>3. QED BY <1>6, <1>25, <3>1, <3>2
  <2>4. QED BY <1>1, <2>1, <2>2, <2>3
<1> DEFINE g == [c \in 1..(n + 2) |-> IF c = n + 1 THEN h[m] + 1 ELSE IF c = n + 2 THEN h[s] + 1 ELSE h[c]]
<1>9. /\ \A c \in 1..n : g[c] = h[c] /\ h[c] \in Nat /\ h[c] < n
      /\ g[n + 1] = h[m] + 1 /\ g[n + 2] = h[s] + 1
  <2>1. \A c \in 1..n : h[c] \in Nat /\ h[c] < n
    BY <1>1 DEF Ranked, n
  <2>2. \A c \in 1..n : c \in 1..(n + 2) /\ c # n + 1 /\ c # n + 2
    BY <1>24
  <2>3. n + 1 \in 1..(n + 2) /\ n + 2 \in 1..(n + 2) /\ n + 2 # n + 1
    BY <1>24
  <2>4. QED BY <2>1, <2>2, <2>3
<1> HIDE DEF g
<1>10. /\ g[m] = h[m] /\ g[s] = h[s] /\ h[m] \in Nat /\ h[m] < n /\ h[s] \in Nat /\ h[s] < n
  BY <1>5, <1>9
<1>11. ASSUME NEW c \in 1..n, cs[c].super # None
       PROVE  cs[c].super \in 1..n /\ g[cs[c].super] < g[c]
  <2>1. cs[c].super \in 1..n /\ h[cs[c].super] < h[c]
    BY <1>1, <1>11 DEF Ranked, HasSuperClass
  <2>2. QED BY <1>9, <2>1
<1>12. Ranked(ds, g)
  <2>1. SUFFICES ASSUME NEW c \in 1..(n + 2)
                 PROVE  /\ g[c] \in Nat /\ g[c] < n + 2
                        /\ ds[c].super # None => ds[c].super \in 1..(n + 2) /\ g[ds[c].super] < g[c]
    BY <1>1 DEF Ranked, HasSuperClass
  <2>2. CASE c \in 1..n
    <3>1. ds[c].super = cs[c].super
      BY <1>1, <2>2
    <3>2. QED BY <1>9, <1>11, <1>24, <2>2, <3>1
  <2>3. CASE c = n + 1
    <3>1. ds[c].super = m
      BY <1>1, <2>3
    <3>2. QED BY <1>5, <1>9, <1>10, <1>24, <2>3, <3>1
  <2>4. CASE c = n + 2
    <3>1. ds[c].super = s
      BY <1>1, <2>4
    <3>2. QED BY <1>5, <1>9, <1>10, <1>24, <2>4, <3>1
  <2>5. QED BY <1>24, <2>1, <2>2, <2>3, <2>4
<1>13. Ranked(es, g)
  <2>1. SUFFICES ASSUME NEW c \in 1..(n + 1)
                 PROVE  /\ g[c] \in Nat /\ g[c] < n + 1
                        /\ es[c].super # None => es[c].super \in 1..(n + 1) /\ g[es[c].super] < g[c]
    BY <1>3 DEF Ranked, HasSuperClass
  <2>2. CASE c \in 1..n
    <3>1. es[c] = cs[c]
      BY <1>1, <1>3, <2>2
    <3>2. QED BY <1>1, <1>9, <1>11, <2>2, <3>1
  <2>3. CASE c = n + 1
    <3>1. es[c].super = m
      BY <1>1, <1>3, <2>3
    <3>2. QED BY <1>1, <1>5, <1>9, <1>10, <2>3, <3>1
  <2>4. QED BY <1>1, <2>1, <2>2, <2>3
<1>14. Len(InstanceFields(es, n + 1)) \in Nat
  <2>1. n + 1 \in DOMAIN es
    BY <1>1, <1>3
  <2>2. QED BY <1>3, <1>8, <1>13, <2>1, AllCollected
<1>15. ds[n + 2].room \in Nat /\ GetNumberOfInstanceFields(es, n + 1) <= ds[n + 2].room
  <2> DEFINE r == ds[n + 2].room
             k == GetNumberOfInstanceFields(es, n + 1)
  <2>1. r = 5 + k /\ k \in Nat
    BY <1>3, <1>4, <1>14 DEF GetNumberOfInstanceFields
  <2> HIDE DEF r, k
  <2>2. r \in Nat /\ k <= r
    BY <2>1
  <2>3. QED BY <2>2 DEF r, k
<1>16. FieldsOk(ds)
  <2>1. SUFFICES ASSUME NEW c \in 1..(n + 2)
                 PROVE  /\ IsSeq(ds[c].fields) /\ ds[c].room \in Nat
                        /\ ds[c].side \in {"instance", "class"}
                        /\ ds[c].side = "class" => ds[c].class = 2 /\ ds[c].room >= 5
    BY <1>1 DEF FieldsOk
  <2>2. CASE c \in 1..(n + 1)
    BY <1>3, <1>8, <2>2 DEF FieldsOk
  <2>3. CASE c = n + 2
    BY <1>1, <1>2, <1>6, <1>15, <2>3
  <2>4. QED BY <1>1, <2>1, <2>2, <2>3
<1>17. FieldsKept(cs, ds)
  BY <1>1, <1>26 DEF FieldsKept
<1>18. FieldsKept(es, ds)
  BY <1>3, <1>27 DEF FieldsKept
<1>19. \A c \in DOMAIN cs : InstanceFields(ds, c) = InstanceFields(cs, c)
  BY <1>1, <1>12, <1>16, <1>17, NumbersStay
<1>20. InstanceFields(ds, n + 1) = InstanceFields(es, n + 1)
  <2>1. n + 1 \in DOMAIN es
    BY <1>1, <1>3
  <2>2. QED BY <1>1, <1>3, <1>8, <1>12, <1>13, <1>16, <1>18, <2>1, NumbersStay
<1>21. SystemFields(ds)
  <2>1. \A i \in 1..13 : 2 * i \in 1..26 /\ 2 * i - 1 \in 1..26
    OBVIOUS
  <2>2. \A c \in 1..26 : ds[c] = cs[c]
    BY <1>1
  <2>3. \A i \in 1..13 : ds[2 * i] = cs[2 * i] /\ ds[2 * i - 1] = cs[2 * i - 1]
    BY <2>1, <2>2
  <2>4. \A c \in {2, 4, 6, 8} : ds[c] = cs[c]
    BY <2>2
  <2>5. QED BY <2>3, <2>4 DEF SystemFields
<1>22. LoadedFields(ds)
  <2>1. SUFFICES ASSUME NEW c \in Instances(ds), c > 26
                 PROVE  GetNumberOfInstanceFields(ds, ds[c].class) <= ds[c].room
    BY DEF LoadedFields
  <2>2. c \in 1..(n + 2) /\ ds[c].side = "instance"
    BY <1>1 DEF Instances
  <2>3. CASE c \in 1..n
    <3>1. ds[c] = cs[c] /\ c \in Instances(cs)
      BY <1>1, <2>2, <2>3 DEF Instances
    <3>2. GetNumberOfInstanceFields(cs, cs[c].class) <= cs[c].room
      BY <2>1, <3>1 DEF LoadedFields
    <3>3. InstanceFields(ds, cs[c].class) = InstanceFields(cs, cs[c].class)
      BY <1>19, <3>1
    <3>4. QED BY <3>1, <3>2, <3>3 DEF GetNumberOfInstanceFields
  <2>4. CASE c = n + 1
    BY <1>1, <2>2, <2>4
  <2>5. CASE c = n + 2
    BY <1>1, <1>15, <1>20, <2>5 DEF GetNumberOfInstanceFields
  <2>6. QED BY <1>1, <2>2, <2>3, <2>4, <2>5
<1>23. QED BY <1>12, <1>16, <1>19, <1>21, <1>22 DEF ds

\* What Universe keeps of its objects: true and false are added when their classes are loaded,
\* system at the end of the start.
SingletonAdded ==
  \E n : \E c \in DOMAIN classes' :
      NewSingleton(n, c, classes')
LEMMA TrueAndFalse == \A i \in 1..13 : SystemSuperClasses[i][1] \notin {"True", "False"}
<1>1. \A i \in 1..13 : SystemSuperClasses[i][1] \in SystemClasses
  <2>1. \A j \in 1..13 : AllocationOrder[j] \in SystemClasses
    BY AllocationNames DEF KnownNames
  <2>2. QED BY <2>1, NamesAllocated, Zenon
<1>2. "True" \notin SystemClasses /\ "False" \notin SystemClasses
  BY Zenon DEF SystemClasses
<1>3. QED BY <1>1, <1>2

LEMMA SingletonsChange ==
  ASSUME Before, [Next]_vars
  PROVE  \/ UNCHANGED singletons /\ boot' \in {boot, boot + 1}
         \/ boot' >= 41 /\ SingletonAdded
<1>1. Base /\ boot \in Nat /\ boot >= 28
  BY DEF Before, Base, LoadInv, BindingsInv
<1>2. CASE Boot
  <2>1. \/ UNCHANGED <<singletons, boot>>
        \/ Finishing
    BY <1>1, <1>2, BootChange DEF Finishing, Boot
  <2>2. CASE Finishing
    <3>1. /\ boot = 45 /\ boot' = 46 /\ classes' = classes
          /\ NewSingleton("system", known["System"], classes')
      BY <2>2 DEF Finishing
    <3>2. known["System"] \in DOMAIN classes'
      <4>1. known["System"] # None /\ known["System"] \in Instances(classes) \cup {None}
        BY <3>1 DEF Before, BootInv, Base, LinkInv, KnownOk
      <4>2. QED BY <3>1, <4>1 DEF Instances
    <3>3. QED BY <3>1, <3>2 DEF SingletonAdded
  <2>3. QED BY <2>1, <2>2
<1>3. CASE Return
  <2>1. \/ UNCHANGED singletons /\ boot' \in {boot, boot + 1}
        \/ /\ loads # << >> /\ outcome = "booting" /\ Len(loads) = 1 /\ boot' = boot + 1 /\ Binding
           /\ top.name \in {"True", "False"}
           /\ NewSingleton(top.name, top.class, classes')
    BY <1>1, <1>3, ReturnChange
  <2>2. ASSUME loads # << >>, outcome = "booting", Len(loads) = 1, boot' = boot + 1, Binding,
               top.name \in {"True", "False"},
               NewSingleton(top.name, top.class, classes')
        PROVE  boot' >= 41 /\ SingletonAdded
    <3>1. FirstCall
      BY <2>2 DEF Before, BootInv
    <3>2. boot > 40
      <4>1. loads[1] = top
        BY <2>2 DEF top
      <4>2. SUFFICES ASSUME boot <= 40 PROVE FALSE
        BY <1>1
      <4>3. top.name = SystemName(boot - 27) /\ boot - 27 \in 1..13
        BY <1>1, <3>1, <4>1, <4>2 DEF FirstCall
      <4>4. QED BY <2>2, <4>3, TrueAndFalse DEF SystemName
    <3>3. top.class \in DOMAIN classes /\ SameLinks(classes, classes')
      BY <1>1, <2>2, BindingSame
    <3>4. top.class \in DOMAIN classes'
      BY <3>3 DEF SameLinks
    <3>5. boot' >= 41
      BY <1>1, <2>2, <3>2, SMTT(20)
    <3>6. QED BY <2>2, <3>4, <3>5 DEF SingletonAdded
  <2>3. QED BY <2>1, <2>2
<1>4. CASE HandleArgument \/ ArgumentsHandled \/ OpenFile \/ NotFound \/ LoadSuperClass \/ Assemble
           \/ UNCHANGED vars
  BY <1>4, Zenon DEF HandleArgument, ArgumentsHandled, OpenFile, NotFound, LoadSuperClass, Assemble, vars
<1>5. CASE Ask \/ GetBlockClassWithArgs \/ Load \/ Loaded \/ BlocksForResolve \/ Look \/ ReadLine \/ PutGlobals
  BY <1>5 DEF Ask, GetBlockClassWithArgs, Load, Loaded, BlocksForResolve, Look, ReadLine, PutGlobals
<1>6. QED BY <1>2, <1>3, <1>4, <1>5 DEF Next

LEMMA SingletonsKept ==
  ASSUME NEW cs, NEW ds, NEW ss, NEW a \in Nat, NEW b \in Nat, SingletonFields(cs, ss, a), b >= a,
         DOMAIN cs \subseteq DOMAIN ds,
         \A c \in DOMAIN cs : InstanceFields(ds, c) = InstanceFields(cs, c)
  PROVE  SingletonFields(ds, ss, b)
<1>1. SUFFICES ASSUME NEW n \in DOMAIN ss
               PROVE  \/ ss[n].class = 6 /\ ss[n].room = 1
                      \/ /\ b >= 41 /\ ss[n].class \in DOMAIN ds
                         /\ GetNumberOfInstanceFields(ds, ss[n].class) <= ss[n].room
  BY DEF SingletonFields
<1> DEFINE c == ss[n].class
           r == ss[n].room
<1>2. \/ c = 6 /\ r = 1
      \/ a >= 41 /\ c \in DOMAIN cs /\ GetNumberOfInstanceFields(cs, c) <= r
  BY DEF SingletonFields
<1> HIDE DEF c, r
<1>3. CASE a >= 41 /\ c \in DOMAIN cs /\ GetNumberOfInstanceFields(cs, c) <= r
  <2>1. b >= 41 /\ c \in DOMAIN ds
    BY <1>3
  <2>2. GetNumberOfInstanceFields(ds, c) = GetNumberOfInstanceFields(cs, c)
    BY <1>3 DEF GetNumberOfInstanceFields
  <2>3. QED BY <1>3, <2>1, <2>2 DEF c, r
<1>4. QED BY <1>2, <1>3 DEF c, r

SystemCount == 1..26 \subseteq DOMAIN classes
LEMMA SystemClassesThere ==
  ASSUME Base, boot >= 28, SystemGlobals13
  PROVE  SystemCount
<1>1. \A j \in 1..13 : 2 * j \in DOMAIN classes
  BY SystemPairs DEF Instances
<1>2. \A i \in 1..13 : 2 * i - 1 \in DOMAIN classes
  BY DEF SystemGlobals13, SystemGlobal
<1>3. \A c \in 1..26 : \E i \in 1..13 : c = 2 * i \/ c = 2 * i - 1
  BY SMT
<1>4. QED BY <1>1, <1>2, <1>3 DEF SystemCount

LEMMA ClassesHaveClasses ==
  ASSUME Base, boot >= 28
  PROVE  ClassObjects(classes) /\ \A c \in Instances(classes) : classes[c].class \in DOMAIN classes
BY DEF Base, LinkInv, Hierarchy, Linked

LEMMA SystemFilesFit ==
  ASSUME NEW j \in 1..13, NEW f, FileFits(AllocationOrder[j], f)
  PROVE  /\ f.classFields = << >>
         /\ j = 2 => Len(f.fields) <= 1
         /\ j = 4 => Len(f.fields) <= 4
         /\ j \in {1, 3} => f.fields = << >>
<1>1. AllocationOrder[j] \in SystemClasses
  BY AllocationNames DEF KnownNames
<1>2. AllocationOrder[1] = "Metaclass" /\ AllocationOrder[2] = "Object" /\ AllocationOrder[3] = "Nil" /\ AllocationOrder[4] = "Class"
  BY DEF AllocationOrder
<1>3. QED BY <1>1, <1>2 DEF FileFits

\* A class of the system gets its fields, of which there is no instance but nil.
LEMMA FilledFields ==
  ASSUME Base, boot >= 28, FieldsOk(classes), SystemFields(classes), NEW h, Ranked(classes, h),
         DOMAIN classes = 1..26, NEW j \in 1..13, NEW f, Filled(2 * j, 2 * j - 1, f), IsFile(f),
         FileFits(AllocationOrder[j], f)
  PROVE  FieldsOk(classes') /\ SystemFields(classes') /\ LoadedFields(classes') /\ Ranked(classes', h)
<1> DEFINE c == 2 * j
           m == 2 * j - 1
<1>1. /\ c \in 1..26 /\ m \in 1..26 /\ c # m /\ SameLinks(classes, classes')
      /\ classes'[c].fields = f.fields /\ classes'[m].fields = f.classFields
      /\ \A d \in 1..26 : classes'[d].room = classes[d].room
      /\ \A d \in 1..26 : d # c /\ d # m => classes'[d] = classes[d]
  BY DEF Filled
<1>2. /\ ClassObjects(classes') /\ ClassObjects(classes) /\ DOMAIN classes' = 1..26
      /\ \A d \in 1..26 : /\ classes'[d].side = classes[d].side
                          /\ classes'[d].class = classes[d].class /\ classes'[d].super = classes[d].super
  BY <1>1 DEF SameLinks, Base, LinkInv
<1>3. FieldsOk(classes')
  <2>1. \A d \in 1..26 : IsSeq(classes'[d].fields)
    BY <1>1, Zenon DEF FieldsOk, IsFile
  <2>2. QED BY <1>1, <1>2, <2>1, Zenon DEF FieldsOk
<1>4. Ranked(classes', h)
  <2>1. Len(classes') = Len(classes)
    BY <1>2, SameLength DEF Base, LinkInv
  <2>2. QED BY <1>2, <2>1, Zenon DEF Ranked, HasSuperClass
<1>5. LoadedFields(classes')
  BY <1>2 DEF LoadedFields, Instances
<1>6. SystemFields(classes')
  <2>1. /\ f.classFields = << >>
        /\ j = 2 => Len(f.fields) <= 1
        /\ j = 4 => Len(f.fields) <= 4
        /\ j \in {1, 3} => f.fields = << >>
    BY SystemFilesFit
  <2>2. ASSUME NEW i \in 1..13 PROVE classes'[2 * i].room = 5 /\ classes'[2 * i - 1].fields = << >>
    <3>1. 2 * i \in 1..26 /\ 2 * i - 1 \in 1..26 /\ 2 * i - 1 # c
      OBVIOUS
    <3>2. classes[2 * i].room = 5 /\ classes[2 * i - 1].fields = << >>
      BY DEF SystemFields
    <3>3. classes'[2 * i].room = 5
      BY <1>1, <3>1, <3>2
    <3>4. CASE 2 * i - 1 = m
      <4>1. classes'[2 * i - 1].fields = f.classFields
        BY <1>1, <3>4
      <4>2. QED BY <2>1, <3>3, <4>1
    <3>5. CASE 2 * i - 1 # m
      BY <1>1, <3>1, <3>2, <3>3, <3>5
    <3>6. QED BY <3>4, <3>5
  <2>3. ASSUME NEW i \in 1..4
        PROVE  IF i = j THEN classes'[2 * i].fields = f.fields ELSE classes'[2 * i].fields = classes[2 * i].fields
    <3>1. CASE i = j
      BY <1>1, <3>1
    <3>2. CASE i # j
      <4>1. 2 * i # c /\ 2 * i # m /\ 2 * i \in 1..26
        BY <3>2
      <4>2. classes'[2 * i] = classes[2 * i]
        BY <1>1, <4>1
      <4>3. QED BY <3>2, <4>2
    <3>3. QED BY <3>1, <3>2
  <2>4. /\ (classes'[2].fields = f.fields /\ j = 1) \/ classes'[2].fields = classes[2].fields
        /\ (classes'[4].fields = f.fields /\ j = 2) \/ classes'[4].fields = classes[4].fields
        /\ (classes'[6].fields = f.fields /\ j = 3) \/ classes'[6].fields = classes[6].fields
        /\ (classes'[8].fields = f.fields /\ j = 4) \/ classes'[8].fields = classes[8].fields
    <3>1. 2 * 1 = 2 /\ 2 * 2 = 4 /\ 2 * 3 = 6 /\ 2 * 4 = 8
      OBVIOUS
    <3>2. QED BY <2>3, <3>1
  <2>5. Len(classes[4].fields) <= 1 /\ Len(classes[8].fields) <= 4 /\ classes[2].fields = << >> /\ classes[6].fields = << >>
    BY DEF SystemFields
  <2> HIDE DEF c, m
  <2>6. Len(classes'[4].fields) <= 1 /\ Len(classes'[8].fields) <= 4 /\ classes'[2].fields = << >> /\ classes'[6].fields = << >>
    BY <2>1, <2>4, <2>5
  <2>7. QED BY <2>2, <2>6 DEF SystemFields
<1>7. QED BY <1>3, <1>4, <1>5, <1>6

LEMMA FieldsStep ==
  ASSUME LibraryFits, Before, NoSystemInv, AllRoutinesOk(classes), FieldsInv, [Next]_vars
  PROVE  FieldsInv'
<1>1. /\ Base /\ boot \in Nat /\ boot >= 28 /\ SystemGlobals13 /\ ClassObjects(classes)
      /\ FieldsOk(classes) /\ SystemFields(classes) /\ LoadedFields(classes)
      /\ SingletonFields(classes, singletons, boot)
  BY DEF Before, BootInv, SystemGlobals13, Base, LinkInv, LoadInv, BindingsInv, FieldsInv
<1>2. SystemCount /\ \A c \in Instances(classes) : classes[c].class \in DOMAIN classes
  BY <1>1, SystemClassesThere, ClassesHaveClasses
<1>3. PICK h : Ranked(classes, h)
  BY DEF FieldsInv
<1>4. ClassesChange /\ ClassObjects(classes') /\ DOMAIN classes \subseteq DOMAIN classes'
  BY StepChanges DEF Changed, OldClasses
<1> DEFINE Same == \A c \in DOMAIN classes : InstanceFields(classes', c) = InstanceFields(classes, c)
           Good == /\ FieldsOk(classes') /\ SystemFields(classes') /\ LoadedFields(classes')
                   /\ \E g : Ranked(classes', g)
<1>5. Good /\ (Same \/ boot <= 40)
  <2>1. CASE UNCHANGED classes
    BY <1>1, <1>3, <2>1
  <2>2. CASE Binding
    <3>1. /\ SameLinks(classes, classes')
          /\ \A d \in DOMAIN classes : classes'[d].fields = classes[d].fields /\ classes'[d].room = classes[d].room
      BY <1>1, <2>2, BindingFields
    <3>2. FieldsKept(classes, classes') /\ DOMAIN classes' = DOMAIN classes
      BY <3>1 DEF SameLinks, FieldsKept
    <3>3. FieldsOk(classes') /\ SystemFields(classes') /\ LoadedFields(classes') /\ Ranked(classes', h) /\ Same
      BY <1>1, <1>2, <1>3, <1>4, <3>2, SameFields DEF SystemCount
    <3>4. QED BY <3>3
  <2>3. CASE Adding
    <3>1. PICK f : IsFile(f) /\ \E s \in Instances(classes) : classes' = Assembled(classes, f, s)
      BY <2>3 DEF Adding
    <3>2. PICK s \in Instances(classes) : classes' = Assembled(classes, f, s)
      BY <3>1
    <3>3. known["Metaclass"] = 2
      <4>1. known[AllocationOrder[1]] = 2 * 1
        BY <1>1, SystemPairs
      <4>2. AllocationOrder[1] = "Metaclass"
        BY DEF AllocationOrder
      <4>3. QED BY <4>1, <4>2
    <3> DEFINE ds == Assembled(classes, f, s)
    <3>4. /\ FieldsOk(ds) /\ SystemFields(ds) /\ LoadedFields(ds) /\ \E g : Ranked(ds, g)
          /\ \A c \in DOMAIN classes : InstanceFields(ds, c) = InstanceFields(classes, c)
      BY <1>1, <1>2, <1>3, <3>1, <3>3, AddedFields DEF SystemCount
    <3>5. classes' = ds
      BY <3>2
    <3> HIDE DEF ds
    <3>6. QED BY <3>4, <3>5
  <2>4. CASE Filling
    <3>1. boot \in 28..40 /\ Len(classes) = 26
      BY <2>4, FillingCall
    <3>2. DOMAIN classes = 1..26
      BY <1>1, <3>1, Measured DEF ClassObjects
    <3>3. PICK j \in 1..13 : \E f : Filled(2 * j, 2 * j - 1, f) /\ IsFile(f) /\ FileFits(AllocationOrder[j], f)
      BY <2>4, FillingFills
    <3>4. PICK f : Filled(2 * j, 2 * j - 1, f) /\ IsFile(f) /\ FileFits(AllocationOrder[j], f)
      BY <3>3
    <3>5. FieldsOk(classes') /\ SystemFields(classes') /\ LoadedFields(classes') /\ Ranked(classes', h)
      BY <1>1, <1>3, <3>2, <3>4, FilledFields
    <3>6. QED BY <3>1, <3>5
  <2>5. QED BY <1>4, <2>1, <2>2, <2>3, <2>4 DEF ClassesChange
<1> HIDE DEF Same
<1>6. SingletonFields(classes', singletons', boot')
  <2>1. CASE UNCHANGED singletons /\ boot' \in {boot, boot + 1}
    <3>1. boot' \in Nat /\ boot' >= boot
      BY <1>1, <2>1
    <3>2. CASE Same
      <4>1. SingletonFields(classes', singletons, boot')
        BY <1>1, <1>4, <3>1, <3>2, SingletonsKept DEF Same
      <4>2. QED BY <2>1, <4>1
    <3>3. CASE boot <= 40
      <4>1. \A n \in DOMAIN singletons : singletons[n].class = 6 /\ singletons[n].room = 1
        BY <1>1, <3>3 DEF SingletonFields
      <4>2. QED BY <2>1, <4>1 DEF SingletonFields
    <3>4. QED BY <1>5, <3>2, <3>3
  <2>2. CASE boot' >= 41 /\ SingletonAdded
    <3>1. PICK n : \E c \in DOMAIN classes' : NewSingleton(n, c, classes')
      BY <2>2 DEF SingletonAdded
    <3>2. PICK c \in DOMAIN classes' : NewSingleton(n, c, classes')
      BY <3>1
    <3>3. ASSUME NEW x \in DOMAIN singletons'
          PROVE  \/ singletons'[x].class = 6 /\ singletons'[x].room = 1
                 \/ /\ boot' >= 41 /\ singletons'[x].class \in DOMAIN classes'
                    /\ GetNumberOfInstanceFields(classes', singletons'[x].class) <= singletons'[x].room
      <4>1. CASE x = n
        <5> DEFINE k == GetNumberOfInstanceFields(classes', c)
        <5>1. singletons'[x] = [class |-> c, room |-> k]
          BY <3>2, <3>3, <4>1 DEF NewSingleton
        <5>2. k \in Nat
          <6>1. PICK g : Ranked(classes', g)
            BY <1>5
          <6>2. QED BY <1>4, <1>5, <6>1, AllCollected DEF GetNumberOfInstanceFields
        <5>3. k <= k /\ singletons'[x].class = c /\ singletons'[x].room = k
          BY <5>1, <5>2
        <5> HIDE DEF k
        <5>4. QED BY <2>2, <5>3 DEF k
      <4>2. CASE x # n
        <5>1. x \in DOMAIN singletons /\ singletons'[x] = singletons[x]
          BY <3>2, <3>3, <4>2 DEF NewSingleton
        <5>2. CASE boot <= 40
          BY <1>1, <5>1, <5>2 DEF SingletonFields
        <5>3. CASE Same
          <6> DEFINE q == singletons[x].class
          <6>1. \/ q = 6 /\ singletons[x].room = 1
                \/ q \in DOMAIN classes /\ GetNumberOfInstanceFields(classes, q) <= singletons[x].room
            BY <1>1, <5>1 DEF SingletonFields
          <6>2. q \in DOMAIN classes => /\ q \in DOMAIN classes'
                                        /\ GetNumberOfInstanceFields(classes', q) = GetNumberOfInstanceFields(classes, q)
            BY <1>4, <5>3 DEF Same, GetNumberOfInstanceFields
          <6>3. QED BY <2>2, <5>1, <6>1, <6>2
        <5>4. QED BY <1>5, <5>2, <5>3
      <4>3. QED BY <4>1, <4>2
    <3>4. QED BY <3>3 DEF SingletonFields
  <2>3. QED BY <2>1, <2>2, SingletonsChange
<1>7. QED BY <1>5, <1>6 DEF FieldsInv

LEMMA FieldsStarted ==
  ASSUME Base, StartInv, boot = 28
  PROVE  FieldsInv /\ SystemGlobals13 /\ Len(classes) = 26
<1>1. /\ Starting /\ ClassObjects(classes)
      /\ \A c \in DOMAIN classes : Blank(classes, c)
      /\ \A i \in 1..13 : globals[SystemName(i)] = known[SystemName(i)]
      /\ singletons = [n \in {"nil"} |-> [class |-> known["Nil"], room |-> 1]]
  BY DEF StartInv, Base, LinkInv
<1>2. \A i \in 1..13 : /\ known[AllocationOrder[i]] = 2 * i /\ 2 * i \in Instances(classes)
                       /\ 2 * i - 1 \in DOMAIN classes /\ classes[2 * i - 1].side = "class"
                       /\ classes[2 * i].class = 2 * i - 1 /\ SystemLinked(i)
  <2>1. \A i \in 1..13 : i < boot /\ i + 14 < boot
    OBVIOUS
  <2>2. QED BY <1>1, <2>1, Zenon DEF Base, LinkInv, KnownOk, Starting
<1>3. SystemGlobals13
  BY <1>1, <1>2, Zenon DEF SystemGlobals13, SystemGlobal, SystemLinked, SystemName
<1>4. DOMAIN classes = 1..26
  <2>1. \A c \in DOMAIN classes : \E i \in 1..13 : c = 2 * i \/ c = 2 * i - 1
    BY <1>1 DEF Starting
  <2>2. DOMAIN classes \subseteq 1..26
    BY <2>1
  <2>3. 1..26 \subseteq DOMAIN classes
    BY <1>3, SystemClassesThere DEF SystemCount
  <2>4. QED BY <2>2, <2>3
<1>5. Len(classes) = 26
  <2>1. Len(classes) \in Nat /\ DOMAIN classes = 1..Len(classes)
    BY <1>1, Measured DEF ClassObjects
  <2>2. 26 \in 1..Len(classes) /\ (Len(classes) > 0 => Len(classes) \in 1..26)
    BY <1>4, <2>1
  <2>3. QED
    <3> DEFINE n == Len(classes)
    <3>1. n \in Nat /\ 26 \in 1..n /\ (n > 0 => n \in 1..26)
      BY <2>1, <2>2
    <3> HIDE DEF n
    <3>2. n = 26
      BY <3>1
    <3>3. QED BY <3>2 DEF n
<1>6. PICK h : Ranked(classes, h)
  BY <1>3, <1>5, SystemRanked
<1>7. FieldsOk(classes)
  <2>1. SUFFICES ASSUME NEW c \in DOMAIN classes
                 PROVE  /\ IsSeq(classes[c].fields) /\ classes[c].room \in Nat
                        /\ classes[c].side \in {"instance", "class"}
                        /\ classes[c].side = "class" => classes[c].class = 2 /\ classes[c].room >= 5
    BY DEF FieldsOk
  <2>2. classes[c].fields = << >> /\ classes[c].room = 5 /\ (classes[c].side = "class" => classes[c].class = 2)
    BY <1>1 DEF Blank
  <2>3. classes[c].side \in {"instance", "class"}
    <3>1. PICK i \in 1..13 : c = 2 * i \/ c = 2 * i - 1
      BY <1>1 DEF Starting
    <3>2. classes[2 * i].side = "instance" /\ classes[2 * i - 1].side = "class"
      BY <1>2 DEF Instances
    <3>3. QED BY <3>1, <3>2
  <2>4. QED BY <2>2, <2>3, NoneYet
<1>8. SystemFields(classes)
  <2>1. \A c \in 1..26 : classes[c].fields = << >> /\ classes[c].room = 5
    BY <1>1, <1>4 DEF Blank
  <2>2. \A i \in 1..13 : 2 * i \in 1..26 /\ 2 * i - 1 \in 1..26
    OBVIOUS
  <2>3. \A i \in 1..13 : classes[2 * i].room = 5 /\ classes[2 * i - 1].fields = << >>
    BY <2>1, <2>2
  <2>4. \A c \in {2, 4, 6, 8} : classes[c].fields = << >> /\ Len(classes[c].fields) = 0
    <3>1. \A c \in {2, 4, 6, 8} : c \in 1..26
      OBVIOUS
    <3>2. Len(<< >>) = 0
      BY NoneYet
    <3>3. QED BY <2>1, <3>1, <3>2, Zenon
  <2>5. QED
    <3>1. Len(classes[4].fields) <= 1 /\ Len(classes[8].fields) <= 4
      BY <2>4
    <3>2. classes[2].fields = << >> /\ classes[6].fields = << >>
      BY <2>4
    <3>3. QED BY <2>3, <3>1, <3>2, Zenon DEF SystemFields
<1>9. LoadedFields(classes)
  BY <1>4 DEF LoadedFields, Instances
<1>10. SingletonFields(classes, singletons, boot)
  <2>1. known["Nil"] = 6
    <3>1. AllocationOrder[3] = "Nil" /\ known[AllocationOrder[3]] = 2 * 3
      BY <1>2 DEF AllocationOrder
    <3>2. QED BY <3>1
  <2>2. QED BY <1>1, <2>1 DEF SingletonFields
<1>11. QED BY <1>3, <1>5, <1>6, <1>7, <1>8, <1>9, <1>10 DEF FieldsInv

\* What the classes of the system collect.
FieldCount(c) == GetNumberOfInstanceFields(classes, c)
LEMMA SystemCounts ==
  ASSUME Base, boot >= 28, SystemGlobals13, FieldsInv
  PROVE  /\ FieldCount(2) \in Nat /\ FieldCount(2) <= 5 /\ FieldCount(6) \in Nat /\ FieldCount(6) <= 1
         /\ \A i \in 1..13 : FieldCount(2 * i - 1) \in Nat /\ FieldCount(2 * i - 1) <= 5
<1>1. PICK h : Ranked(classes, h)
  BY DEF FieldsInv
<1>2. ClassObjects(classes) /\ FieldsOk(classes) /\ SystemFields(classes)
  BY DEF Base, LinkInv, FieldsInv
<1>3. \A c \in DOMAIN classes : Collected(classes, c) /\ FieldCount(c) \in Nat
  BY <1>1, <1>2, AllCollected DEF FieldCount, GetNumberOfInstanceFields
<1>4. 1..26 \subseteq DOMAIN classes
  BY SystemClassesThere DEF SystemCount
<1>5. /\ known["Object"] = 4 /\ known["Class"] = 8 /\ known["Metaclass"] = 2 /\ known["Nil"] = 6
  <2>1. /\ AllocationOrder[1] = "Metaclass" /\ AllocationOrder[2] = "Object" /\ AllocationOrder[3] = "Nil"
        /\ AllocationOrder[4] = "Class"
    BY DEF AllocationOrder
  <2>2. \A j \in 1..13 : known[AllocationOrder[j]] = 2 * j
    BY SystemPairs
  <2>3. /\ known[AllocationOrder[1]] = 2 /\ known[AllocationOrder[2]] = 4 /\ known[AllocationOrder[3]] = 6
        /\ known[AllocationOrder[4]] = 8
    BY <2>2
  <2>4. QED BY <2>1, <2>3
<1>6. /\ classes[4].super = None /\ classes[8].super = 4 /\ classes[2].super = 8 /\ classes[6].super = 4
  <2>1. /\ SystemSuperClasses[1][1] = "Object" /\ SystemSuperClasses[1][2] = ""
        /\ SystemSuperClasses[2][1] = "Class" /\ SystemSuperClasses[2][2] = "Object"
        /\ SystemSuperClasses[3][1] = "Metaclass" /\ SystemSuperClasses[3][2] = "Class"
        /\ SystemSuperClasses[4][1] = "Nil" /\ SystemSuperClasses[4][2] = "Object"
    BY DEF SystemSuperClasses
  <2>2. \A i \in 1..13 : SystemLinked(i)
    BY DEF SystemGlobals13, SystemGlobal
  <2>3. /\ classes[known["Object"]].super = None
        /\ classes[known["Class"]].super = known["Object"]
        /\ classes[known["Metaclass"]].super = known["Class"]
        /\ classes[known["Nil"]].super = known["Object"]
    <3>1. SystemLinked(1) /\ SystemLinked(2) /\ SystemLinked(3) /\ SystemLinked(4)
      BY <2>2
    <3>2. classes[known["Object"]].super = None
      BY <2>1, <3>1 DEF SystemLinked
    <3>3. classes[known["Class"]].super = known["Object"]
      BY <2>1, <3>1 DEF SystemLinked
    <3>4. classes[known["Metaclass"]].super = known["Class"]
      BY <2>1, <3>1 DEF SystemLinked
    <3>5. classes[known["Nil"]].super = known["Object"]
      BY <2>1, <3>1 DEF SystemLinked
    <3>6. QED BY <3>2, <3>3, <3>4, <3>5
  <2>4. QED BY <1>5, <2>3
<1>7. /\ Len(classes[4].fields) <= 1 /\ Len(classes[8].fields) <= 4
      /\ classes[2].fields = << >> /\ classes[6].fields = << >>
  BY <1>2 DEF SystemFields
<1>8. ASSUME NEW c \in DOMAIN classes, classes[c].super # None
      PROVE  FieldCount(c) = FieldCount(classes[c].super) + Len(classes[c].fields)
  <2>1. classes[c].super \in DOMAIN classes /\ IsSeq(classes[c].fields)
    BY <1>1, <1>2, <1>8 DEF Ranked, FieldsOk, HasSuperClass
  <2>2. InstanceFields(classes, c) = InstanceFields(classes, classes[c].super) \o classes[c].fields
    BY <1>3, <1>8 DEF Collected, HasSuperClass
  <2>3. IsSeq(InstanceFields(classes, classes[c].super))
    BY <1>3, <2>1 DEF Collected
  <2>4. QED BY <2>1, <2>2, <2>3, Joined DEF FieldCount, GetNumberOfInstanceFields
<1>9. \A c \in DOMAIN classes : Len(classes[c].fields) \in Nat
  BY <1>2, Measured DEF FieldsOk
<1>10. /\ 2 \in DOMAIN classes /\ 4 \in DOMAIN classes /\ 6 \in DOMAIN classes /\ 8 \in DOMAIN classes
  BY <1>4
<1>11. FieldCount(4) = Len(classes[4].fields)
  BY <1>3, <1>6, <1>10 DEF Collected, HasSuperClass, FieldCount, GetNumberOfInstanceFields
<1>12. /\ FieldCount(8) = FieldCount(4) + Len(classes[8].fields)
       /\ FieldCount(2) = FieldCount(8) + Len(classes[2].fields)
       /\ FieldCount(6) = FieldCount(4) + Len(classes[6].fields)
  BY <1>6, <1>8, <1>10 DEF None
<1>13. FieldCount(4) <= 1 /\ FieldCount(8) <= 5 /\ FieldCount(2) <= 5 /\ FieldCount(6) <= 1
  <2>1. Len(classes[2].fields) = 0 /\ Len(classes[6].fields) = 0
    BY <1>7, NoneYet
  <2>2. /\ FieldCount(2) \in Nat /\ FieldCount(4) \in Nat /\ FieldCount(6) \in Nat /\ FieldCount(8) \in Nat
        /\ Len(classes[4].fields) \in Nat /\ Len(classes[8].fields) \in Nat
    BY <1>3, <1>9, <1>10
  <2>3. QED BY <1>7, <1>11, <1>12, <2>1, <2>2
<1> DEFINE Odd(c) == \E i \in 1..13 : c = 2 * i - 1
           P == {c \in DOMAIN classes : Odd(c) => FieldCount(c) <= 5}
<1>14. ASSUME NEW c \in DOMAIN classes, Odd(c)
       PROVE  classes[c].fields = << >> /\ classes[c].super # None /\ (classes[c].super = 8 \/ Odd(classes[c].super))
  <2>1. PICK j \in 1..13 : c = 2 * j - 1
    BY <1>14
  <2>2. PICK i \in 1..13 : known[SystemName(i)] = 2 * j
    BY SystemPlaces
  <2>3. \/ classes[c].super = known[SystemName(2)]
        \/ \E k \in 1..13 : classes[c].super = known[SystemName(k)] - 1
    BY <2>1, <2>2, SystemSupers
  <2>4. \A k \in 1..13 : \E a \in 1..13 : known[SystemName(k)] = 2 * a
    BY SystemPlaces
  <2>5. SystemName(2) = "Class"
    BY SupersEarlier
  <2>6. classes[c].fields = << >>
    BY <1>2, <2>1 DEF SystemFields
  <2>7. classes[c].super = 8 \/ Odd(classes[c].super)
    BY <1>5, <2>3, <2>4, <2>5
  <2>8. QED BY <2>6, <2>7 DEF None
<1>15. ASSUME NEW c \in DOMAIN classes, HasSuperClass(classes, c) => classes[c].super \in P
       PROVE  c \in P
  <2>1. SUFFICES ASSUME Odd(c) PROVE FieldCount(c) <= 5
    OBVIOUS
  <2>2. classes[c].fields = << >> /\ classes[c].super # None /\ (classes[c].super = 8 \/ Odd(classes[c].super))
    BY <1>14, <2>1
  <2>3. classes[c].super \in P
    BY <1>15, <2>2 DEF HasSuperClass
  <2>4. FieldCount(classes[c].super) <= 5 /\ FieldCount(classes[c].super) \in Nat
    BY <1>3, <1>13, <2>2, <2>3
  <2>5. FieldCount(c) = FieldCount(classes[c].super) + 0
    BY <1>8, <2>2, NoneYet
  <2>6. QED BY <2>4, <2>5
<1>16. DOMAIN classes \subseteq P
  <2> HIDE DEF P
  <2>1. QED BY <1>1, <1>15, HeightInduction
<1>17. \A i \in 1..13 : 2 * i - 1 \in DOMAIN classes
  <2>1. \A i \in 1..13 : 2 * i - 1 \in 1..26
    OBVIOUS
  <2>2. QED BY <1>4, <2>1
<1>18. ASSUME NEW i \in 1..13 PROVE FieldCount(2 * i - 1) \in Nat /\ FieldCount(2 * i - 1) <= 5
  <2>1. 2 * i - 1 \in P /\ Odd(2 * i - 1)
    BY <1>16, <1>17
  <2>2. QED BY <1>3, <1>17, <2>1
<1>19. QED BY <1>3, <1>10, <1>13, <1>18

LEMMA FieldsAgree ==
  ASSUME Base, boot >= 28, SystemGlobals13, FieldsInv
  PROVE  InheritedFieldsAgree
<1>1. PICK h : Ranked(classes, h)
  BY DEF FieldsInv
<1>2. ClassObjects(classes) /\ FieldsOk(classes) /\ SystemFields(classes) /\ LoadedFields(classes)
      /\ SingletonFields(classes, singletons, boot)
  BY DEF Base, LinkInv, FieldsInv
<1>3. \A c \in DOMAIN classes : Collected(classes, c)
  BY <1>1, <1>2, AllCollected
<1>4. ASSUME NEW c \in ClassNumbers, HasSuperClass(classes, c),
             NEW f \in Range(InstanceFields(classes, classes[c].super))
      PROVE  LookupFieldIndex(classes, c, f) = LookupFieldIndex(classes, classes[c].super, f)
  <2>1. c \in DOMAIN classes /\ classes[c].super \in DOMAIN classes /\ IsSeq(classes[c].fields)
    BY <1>1, <1>2, <1>4 DEF Ranked, FieldsOk, ClassNumbers
  <2>2. Collected(classes, c) /\ Collected(classes, classes[c].super)
    BY <1>3, <2>1
  <2>3. QED BY <1>4, <2>1, <2>2, InheritedFound
<1>5. ASSUME NEW c \in ClassNumbers
      PROVE  GetNumberOfInstanceFields(classes, classes[c].class) <= classes[c].room
  <2>1. c \in DOMAIN classes /\ classes[c].side \in {"instance", "class"} /\ classes[c].room \in Nat
    BY <1>2 DEF FieldsOk, ClassNumbers
  <2>2. CASE classes[c].side = "class"
    <3>1. classes[c].class = 2 /\ classes[c].room >= 5
      BY <1>2, <2>1, <2>2 DEF FieldsOk
    <3>2. FieldCount(2) \in Nat /\ FieldCount(2) <= 5
      BY SystemCounts
    <3>3. QED BY <2>1, <3>1, <3>2 DEF FieldCount
  <2>3. CASE classes[c].side = "instance"
    <3>1. c \in Instances(classes) /\ c \in Nat \ {0}
      BY <1>2, <2>1, <2>3, Measured DEF Instances, ClassObjects
    <3>2. CASE c > 26
      BY <1>2, <3>1, <3>2 DEF LoadedFields
    <3>3. CASE ~(c > 26)
      <4>1. \E i \in 1..13 : c = 2 * i \/ c = 2 * i - 1
        BY <3>1, <3>3, SMT
      <4>2. PICK i \in 1..13 : c = 2 * i \/ c = 2 * i - 1
        BY <4>1
      <4>3. classes[2 * i].class = 2 * i - 1 /\ classes[2 * i - 1].side = "class"
        BY DEF SystemGlobals13, SystemGlobal
      <4>4. c = 2 * i
        BY <2>3, <4>2, <4>3
      <4>5. classes[c].room = 5
        BY <1>2, <4>4 DEF SystemFields
      <4>6. FieldCount(2 * i - 1) <= 5
        BY SystemCounts
      <4>7. QED BY <4>3, <4>4, <4>5, <4>6 DEF FieldCount
    <3>4. QED BY <3>2, <3>3
  <2>4. QED BY <2>1, <2>2, <2>3
<1>6. ASSUME NEW n \in DOMAIN singletons
      PROVE  GetNumberOfInstanceFields(classes, singletons[n].class) <= singletons[n].room
  <2>1. FieldCount(6) <= 1
    BY SystemCounts
  <2>2. QED BY <1>2, <2>1 DEF SingletonFields, FieldCount
<1>7. QED BY <1>4, <1>5, <1>6 DEF InheritedFieldsAgree

--------------------
(* What can be sent to, and what the superclasses of a global are. *)

\* A class with its superclasses: those that are not globals yet can become so, each under
\* a name that is free.
Trail(cs, gs, T, names, c) ==
  /\ c \in T /\ T \subseteq Instances(cs)
  /\ \A t \in T : /\ cs[t].super = None \/ cs[t].super \in T
                  /\ cs[t].name \in DOMAIN gs => gs[cs[t].name] = t
                  /\ cs[t].name \notin names
                  /\ BothCallable(cs, t)
  /\ \A t, u \in T : cs[t].name = cs[u].name => t = u
HasTrail(cs, gs, names, c) == \E T : Trail(cs, gs, T, names, c)

\* Superclasses of globals are globals, but for the one that System>>resolve: adds next.
ClosedBut(cs, gs, s) ==
  \A n \in DOMAIN gs : gs[n] > 0 =>
      LET super == cs[gs[n]].super
      IN  super = None \/ super = s \/ GlobalIn(cs, gs, super)
GlobalsBound(cs, gs) == \A n \in DOMAIN gs : gs[n] > 0 => cs[gs[n]].name = n /\ BothCallable(cs, gs[n])

\* The innermost call knows its superclass, from which all others are known.
NamesUpTo(ls, i) == {ls[k].name : k \in 1..i}
Continues(cs, gs, names, how, s) ==
  HasTrail(cs, gs, names, s) /\ (how = "block" => GlobalIn(cs, gs, s))
TopReady(cs, gs, names, call) ==
  /\ call.pc = "assemble" => Continues(cs, gs, names, call.how, call.super)
  /\ call.pc = "primitives" =>
        /\ Continues(cs, gs, names, call.how, cs[call.class].super)
        /\ call.how = "block" => BlockReady(cs, call.class, call.name)
CallsReady(cs, gs, ls) ==
  ls # << >> => /\ ls[1].name \notin DOMAIN gs
                /\ ls[1].how = "block" => Len(ls) = 1 /\ ls[1].name \in BlockNames
                /\ TopReady(cs, gs, NamesUpTo(ls, Len(ls)), ls[Len(ls)])

\* What the virtual machine has loaded by name.
LoadedOk(cs, gs, c, n) ==
  /\ c \in Instances(cs) /\ cs[c].name = n /\ BothCallable(cs, c)
  /\ cs[c].super # None /\ GlobalIn(cs, gs, cs[c].super)
KnownBound ==
  /\ \A i \in 1..13 : i + 27 < boot => BothCallable(classes, known[SystemName(i)])
  /\ boot > 41 => LoadedOk(classes, globals, known["Block"], "Block")
  /\ boot > 44 => LoadedOk(classes, globals, known["System"], "System")
Putting(r) == r.op = "resolve" /\ r.pc = "loaded"
PutReady(cs, gs, r) == ClosedBut(cs, gs, r.class) /\ HasTrail(cs, gs, {}, r.class)
ProgramOk(cs, gs, ls, r) ==
  /\ CallsReady(cs, gs, ls)
  /\ Putting(r) => ls = << >> /\ PutReady(cs, gs, r)
  /\ ~Putting(r) => ClosedBut(cs, gs, None)
GlobalNames == \A n \in DOMAIN globals : globals[n] > 0 => classes[globals[n]].name = n
RequestNamed(r) == r.op = "block" => r.name \in BlockNames
RestInv ==
  /\ outcome = "booting" => KnownBound /\ request.op = "none"
  /\ outcome \in {"running", "shell"} => GlobalsBound(classes, globals) /\ "Block" \in DOMAIN globals
  /\ outcome = "shell" => loads = << >> /\ ClosedBut(classes, globals, None)
  /\ outcome = "running" => ProgramOk(classes, globals, loads, request) /\ RequestNamed(request)
RoutinesInv == AllRoutinesOk(classes) /\ GlobalNames /\ RestInv

\* Classes stay what they are, with methods that are no less bound.
Keeps(cs, ds) ==
  /\ Instances(cs) \subseteq Instances(ds)
  /\ \A c \in DOMAIN cs :
        /\ c \in DOMAIN ds /\ ds[c].name = cs[c].name /\ ds[c].class = cs[c].class /\ ds[c].super = cs[c].super
        /\ Callable(cs, c) => Callable(ds, c)
Sound(cs, gs) ==
  /\ \A c \in Instances(cs) : /\ c \in DOMAIN cs /\ cs[c].class \in DOMAIN cs
                              /\ cs[c].super # None => cs[c].super \in Instances(cs)
  /\ \A n \in DOMAIN gs : gs[n] > 0 => gs[n] \in Instances(cs)

LEMMA SoundNow ==
  ASSUME Base, boot >= 28
  PROVE  Sound(classes, globals)
<1>1. Hierarchy(classes, DOMAIN globals, known["Class"]) /\ Referring
  BY DEF Base, LinkInv
<1>2. \A c \in Instances(classes) : Linked(classes, DOMAIN globals, known["Class"], c) /\ c \in DOMAIN classes
  BY <1>1 DEF Hierarchy, Instances
<1>3. QED BY <1>1, <1>2 DEF Sound, Linked, Referring

LEMMA KeepsGlobal ==
  ASSUME NEW cs, NEW ds, NEW gs, Keeps(cs, ds), NEW c \in DOMAIN cs, GlobalIn(cs, gs, c)
  PROVE  GlobalIn(ds, gs, c)
BY DEF Keeps, GlobalIn
LEMMA KeepsBoth ==
  ASSUME NEW cs, NEW ds, Keeps(cs, ds), NEW c \in DOMAIN cs, cs[c].class \in DOMAIN cs, BothCallable(cs, c)
  PROVE  BothCallable(ds, c)
<1>1. Callable(cs, c) /\ Callable(cs, cs[c].class)
  BY DEF BothCallable
<1>2. Callable(ds, c) /\ Callable(ds, cs[c].class) /\ ds[c].class = cs[c].class
  BY <1>1 DEF Keeps
<1>3. QED BY <1>2 DEF BothCallable
LEMMA KeepsTrail ==
  ASSUME NEW cs, NEW ds, NEW gs, Keeps(cs, ds), Sound(cs, gs), NEW T, NEW names, NEW c,
         Trail(cs, gs, T, names, c)
  PROVE  Trail(ds, gs, T, names, c)
<1>1. T \subseteq Instances(ds) /\ T \subseteq Instances(cs) /\ c \in T
  BY DEF Trail, Keeps
<1>2. \A t \in T : t \in DOMAIN cs /\ cs[t].class \in DOMAIN cs /\ BothCallable(cs, t)
  BY <1>1 DEF Sound, Trail
<1>3. \A t \in T : ds[t].name = cs[t].name /\ ds[t].super = cs[t].super /\ BothCallable(ds, t)
  BY <1>2, KeepsBoth DEF Keeps
<1>4. QED BY <1>1, <1>3 DEF Trail
LEMMA KeepsHasTrail ==
  ASSUME NEW cs, NEW ds, NEW gs, Keeps(cs, ds), Sound(cs, gs), NEW names, NEW c,
         HasTrail(cs, gs, names, c)
  PROVE  HasTrail(ds, gs, names, c)
BY KeepsTrail DEF HasTrail
LEMMA KeepsClosed ==
  ASSUME NEW cs, NEW ds, NEW gs, Keeps(cs, ds), Sound(cs, gs), NEW s, ClosedBut(cs, gs, s)
  PROVE  ClosedBut(ds, gs, s)
<1>1. SUFFICES ASSUME NEW n \in DOMAIN gs, gs[n] > 0
               PROVE  ds[gs[n]].super = None \/ ds[gs[n]].super = s \/ GlobalIn(ds, gs, ds[gs[n]].super)
  BY DEF ClosedBut
<1> DEFINE c == gs[n]
           p == cs[c].super
<1>2. c \in Instances(cs) /\ c \in DOMAIN cs
  BY <1>1 DEF Sound
<1>3. ds[c].super = p /\ (p = None \/ p = s \/ GlobalIn(cs, gs, p))
  BY <1>1, <1>2 DEF Keeps, ClosedBut
<1>4. p # None => p \in DOMAIN cs
  BY <1>2 DEF Sound
<1> HIDE DEF c, p
<1>5. ds[c].super = None \/ ds[c].super = s \/ GlobalIn(ds, gs, ds[c].super)
  BY <1>3, <1>4, KeepsGlobal
<1>6. QED BY <1>5 DEF c
LEMMA KeepsBound ==
  ASSUME NEW cs, NEW ds, NEW gs, Keeps(cs, ds), Sound(cs, gs), GlobalsBound(cs, gs)
  PROVE  GlobalsBound(ds, gs)
<1>1. ASSUME NEW n \in DOMAIN gs, gs[n] > 0 PROVE ds[gs[n]].name = n /\ BothCallable(ds, gs[n])
  <2>1. gs[n] \in DOMAIN cs /\ cs[gs[n]].class \in DOMAIN cs /\ cs[gs[n]].name = n /\ BothCallable(cs, gs[n])
    BY <1>1 DEF Sound, GlobalsBound
  <2>2. QED BY <2>1, KeepsBoth DEF Keeps
<1>2. QED BY <1>1 DEF GlobalsBound
LEMMA KeepsLoaded ==
  ASSUME NEW cs, NEW ds, NEW gs, Keeps(cs, ds), Sound(cs, gs), NEW c, NEW n, LoadedOk(cs, gs, c, n)
  PROVE  LoadedOk(ds, gs, c, n)
<1>1. c \in Instances(cs) /\ cs[c].name = n /\ BothCallable(cs, c) /\ cs[c].super # None /\ GlobalIn(cs, gs, cs[c].super)
  BY DEF LoadedOk
<1>2. c \in DOMAIN cs /\ cs[c].class \in DOMAIN cs /\ cs[c].super \in DOMAIN cs
  BY <1>1 DEF Sound
<1>3. BothCallable(ds, c) /\ GlobalIn(ds, gs, cs[c].super)
  BY <1>1, <1>2, KeepsBoth, KeepsGlobal
<1>4. QED BY <1>1, <1>2, <1>3 DEF Keeps, LoadedOk

\* Steps that keep.
LEMMA BoundKeeps ==
  ASSUME NEW cs, NEW ds, SameLinks(cs, ds), NoMoreEmpty(cs, ds)
  PROVE  Keeps(cs, ds)
<1>1. Instances(ds) = Instances(cs)
  BY DEF SameLinks, Instances
<1>2. ASSUME NEW c \in DOMAIN cs, Callable(cs, c) PROVE Callable(ds, c)
  <2>1. ASSUME NEW i \in DOMAIN ds[c].invokables, ds[c].invokables[i].routine = "empty"
        PROVE  ds[c].name = "Block3" /\ ds[c].invokables[i].signature = "value:with:"
    <3>1. PICK k \in DOMAIN cs[c].invokables : cs[c].invokables[k] = ds[c].invokables[i]
      BY <2>1 DEF NoMoreEmpty
    <3>2. cs[c].name = "Block3" /\ cs[c].invokables[k].signature = "value:with:"
      BY <1>2, <2>1, <3>1 DEF Callable
    <3>3. QED BY <3>1, <3>2 DEF SameLinks
  <2>2. QED BY <2>1 DEF Callable
<1>3. QED BY <1>1, <1>2 DEF Keeps, SameLinks
LEMMA AddedKeeps ==
  ASSUME NEW cs, ClassObjects(cs), NEW f, IsFile(f), NEW s
  PROVE  LET ds == Assembled(cs, f, s)
         IN  Keeps(cs, ds) /\ (AllRoutinesOk(cs) => AllRoutinesOk(ds))
<1> DEFINE ds == Assembled(cs, f, s)
           n == Len(cs)
<1>1. /\ n \in Nat /\ DOMAIN cs = 1..n /\ DOMAIN ds = 1..(n + 2)
      /\ \A c \in DOMAIN cs : ds[c] = cs[c]
  BY NewClasses
<1>2. /\ ds[n + 1].invokables = SetInstanceInvokables(n + 1, f.classMethods)
      /\ ds[n + 2].invokables = SetInstanceInvokables(n + 2, f.methods)
  BY NewClassesHave
<1>3. RoutinesOk(ds[n + 1].invokables) /\ RoutinesOk(ds[n + 2].invokables)
  <2>1. Methods(f.methods) /\ Methods(f.classMethods)
    BY DEF IsFile
  <2>2. /\ RoutinesOk(SetInstanceInvokables(n + 1, f.classMethods))
        /\ RoutinesOk(SetInstanceInvokables(n + 2, f.methods))
    BY <2>1, MethodsSet
  <2>3. QED BY <1>2, <2>2
<1> HIDE DEF ds, n
<1>4. \A c \in DOMAIN cs : c \in DOMAIN ds
  BY <1>1
<1>5. Keeps(cs, ds)
  BY <1>1, <1>4 DEF Keeps, Instances, Callable
<1>6. ASSUME AllRoutinesOk(cs) PROVE AllRoutinesOk(ds)
  <2>1. SUFFICES ASSUME NEW c \in 1..(n + 2) PROVE RoutinesOk(ds[c].invokables)
    BY <1>1 DEF AllRoutinesOk
  <2>2. CASE c \in 1..n
    BY <1>1, <1>6, <2>2 DEF AllRoutinesOk
  <2>3. n \in Nat
    BY <1>1
  <2>4. c \in 1..n \/ c = n + 1 \/ c = n + 2
    BY <2>3
  <2>5. QED BY <1>3, <2>2, <2>4
<1>7. QED BY <1>5, <1>6 DEF ds
LEMMA SameKeeps ==
  ASSUME NEW cs
  PROVE  Keeps(cs, cs)
BY DEF Keeps

Ready == Before /\ NoSystemInv /\ RoutinesInv

\* What a step does to the classes, as far as their methods are concerned.
LEMMA ClassesKeepStep ==
  ASSUME LibraryFits, Ready, [Next]_vars
  PROVE  AllRoutinesOk(classes') /\ (Keeps(classes, classes') \/ Filling)
<1>1. /\ Base /\ ClassObjects(classes) /\ AllRoutinesOk(classes) /\ boot >= 28 /\ Before /\ NoSystemInv
  BY DEF Ready, Before, Base, LinkInv, RoutinesInv
<1>2. ClassesChange
  BY <1>1, StepChanges DEF Changed
<1>3. CASE UNCHANGED classes
  BY <1>1, <1>3, SameKeeps
<1>4. CASE Binding
  BY <1>1, <1>4, BindingFields, BoundKeeps
<1>5. CASE Adding
  <2>1. PICK f : IsFile(f) /\ \E s \in Instances(classes) : classes' = Assembled(classes, f, s)
    BY <1>5 DEF Adding
  <2>2. PICK s \in Instances(classes) : classes' = Assembled(classes, f, s)
    BY <2>1
  <2> DEFINE ds == Assembled(classes, f, s)
  <2>3. Keeps(classes, ds) /\ AllRoutinesOk(ds)
    BY <1>1, <2>1, AddedKeeps
  <2>4. classes' = ds
    BY <2>2
  <2> HIDE DEF ds
  <2>5. QED BY <2>3, <2>4
<1>6. CASE Filling
  <2>1. PICK j \in 1..13 : \E f : Filled(2 * j, 2 * j - 1, f) /\ IsFile(f)
    BY <1>1, <1>6, FillingFills
  <2>2. PICK f : Filled(2 * j, 2 * j - 1, f) /\ IsFile(f)
    BY <2>1
  <2> DEFINE c == 2 * j
             m == 2 * j - 1
  <2> HIDE DEF c, m
  <2>3. Filled(c, m, f)
    BY <2>2 DEF c, m
  <2>4. RoutinesOk(SetInstanceInvokables(c, f.methods)) /\ RoutinesOk(SetInstanceInvokables(m, f.classMethods))
    BY <2>2, MethodsSet DEF IsFile
  <2>5. DOMAIN classes' = DOMAIN classes
    BY <2>3 DEF Filled, SameLinks
  <2>6. AllRoutinesOk(classes')
    BY <1>1, <2>3, <2>4, <2>5 DEF Filled, AllRoutinesOk
  <2>7. QED BY <1>6, <2>6
<1>7. QED BY <1>2, <1>3, <1>4, <1>5, <1>6 DEF ClassesChange

LEMMA RestFails ==
  ASSUME outcome' \notin {"booting", "running", "shell"}
  PROVE  RestInv'
BY DEF RestInv

\* The calls that are kept have the names they had.
LEMMA NamesSame ==
  ASSUME NEW ls, NEW ks, NEW n \in Nat, \A i \in 1..n : ks[i].name = ls[i].name
  PROVE  NamesUpTo(ks, n) = NamesUpTo(ls, n)
BY DEF NamesUpTo

LEMMA KnownKeeps ==
  ASSUME Ready, KnownBound, Keeps(classes, classes'), UNCHANGED <<boot, known, globals>>
  PROVE  KnownBound'
<1>1. Base /\ boot >= 28 /\ Sound(classes, globals)
  BY SoundNow DEF Ready, Before
<1>2. ASSUME NEW i \in 1..13, i + 27 < boot PROVE BothCallable(classes', known[SystemName(i)])
  <2>1. PICK j \in 1..13 : SystemName(i) = AllocationOrder[j]
    BY <1>1, SystemPairs
  <2>2. known[SystemName(i)] \in Instances(classes)
    BY <1>1, <2>1, SystemPairs
  <2>3. known[SystemName(i)] \in DOMAIN classes /\ classes[known[SystemName(i)]].class \in DOMAIN classes
    BY <1>1, <2>2 DEF Sound
  <2>4. BothCallable(classes, known[SystemName(i)])
    BY <1>2 DEF KnownBound
  <2>5. QED BY <2>3, <2>4, KeepsBoth
<1>3. ASSUME boot > 41 PROVE LoadedOk(classes', globals, known["Block"], "Block")
  BY <1>1, <1>3, KeepsLoaded DEF KnownBound
<1>4. ASSUME boot > 44 PROVE LoadedOk(classes', globals, known["System"], "System")
  BY <1>1, <1>4, KeepsLoaded DEF KnownBound
<1>5. QED BY <1>2, <1>3, <1>4 DEF KnownBound

\* Only the calls change.
LEMMA CallsMove ==
  ASSUME Ready, Keeps(classes, classes'), UNCHANGED <<boot, known, globals, outcome, request>>,
         loads # << >> \/ outcome = "running",
         outcome = "running" => /\ CallsReady(classes', globals, loads')
                                /\ ~Putting(request)
  PROVE  RestInv'
<1>1. /\ Sound(classes, globals) /\ RestInv
  BY SoundNow DEF Ready, Before, RoutinesInv
<1>2. outcome # "shell"
  BY <1>1 DEF RestInv
<1>3. CASE outcome = "booting"
  <2>1. KnownBound /\ request.op = "none"
    BY <1>1, <1>3 DEF RestInv
  <2>2. KnownBound'
    BY <2>1, KnownKeeps
  <2>3. QED BY <1>3, <2>1, <2>2 DEF RestInv
<1>4. CASE outcome = "running"
  <2>1. /\ GlobalsBound(classes, globals) /\ "Block" \in DOMAIN globals
        /\ ProgramOk(classes, globals, loads, request) /\ RequestNamed(request)
    BY <1>1, <1>4 DEF RestInv
  <2>2. ClosedBut(classes, globals, None)
    BY <1>4, <2>1 DEF ProgramOk
  <2>3. GlobalsBound(classes', globals) /\ ClosedBut(classes', globals, None)
    BY <1>1, <2>1, <2>2, KeepsBound, KeepsClosed
  <2>4. ProgramOk(classes', globals, loads', request)
    BY <1>4, <2>3 DEF ProgramOk
  <2>5. /\ globals' = globals /\ request' = request /\ outcome' = "running"
    BY <1>4
  <2>6. QED BY <2>1, <2>3, <2>4, <2>5 DEF RestInv
<1>5. CASE outcome \notin {"booting", "running", "shell"}
  BY <1>5 DEF RestInv
<1>6. QED BY <1>2, <1>3, <1>4, <1>5

LEMMA NotPutting ==
  ASSUME Ready, loads # << >>, outcome = "running"
  PROVE  /\ ~Putting(request) /\ ClosedBut(classes, globals, None) /\ GlobalsBound(classes, globals)
         /\ "Block" \in DOMAIN globals
         /\ loads[1].name \notin DOMAIN globals
         /\ loads[1].how = "block" => Len(loads) = 1 /\ loads[1].name \in BlockNames
         /\ TopReady(classes, globals, NamesUpTo(loads, Len(loads)), top)
BY DEF Ready, RoutinesInv, RestInv, ProgramOk, CallsReady, top

\* The innermost call goes on.
LEMMA TopMoves ==
  ASSUME Ready, loads # << >>, NEW d, SameLoad(top, d), SetTop(d), Keeps(classes, classes'),
         UNCHANGED <<boot, known, globals, outcome, request>>,
         outcome = "running" => TopReady(classes', globals, NamesUpTo(loads, Len(loads)), d)
  PROVE  RestInv'
<1> DEFINE n == Len(loads)
<1>1. /\ IsSeq(loads) /\ n \in Nat /\ DOMAIN loads = 1..n /\ n \in DOMAIN loads
  BY Measured DEF Ready, Before, Base, LoadInv, CallsInv
<1>2. /\ Len(loads') = n /\ loads'[n] = d /\ loads' # << >>
      /\ \A i \in DOMAIN loads : i # n => loads'[i] = loads[i]
  <2>1. Len(loads') = n /\ loads'[n] = d /\ \A i \in DOMAIN loads : i # n => loads'[i] = loads[i]
    BY <1>1, TopSet, Zenon DEF SetTop
  <2>2. DOMAIN loads' = DOMAIN loads
    BY <1>1, TopSet, Zenon DEF SetTop
  <2>3. loads' # << >>
    BY <1>1, <2>2, NoneYet
  <2>4. QED BY <2>1, <2>3, Zenon
<1>3. loads[n].name = d.name /\ loads[n].how = d.how
  BY DEF SameLoad, top
<1> HIDE DEF n
<1>4. \A i \in 1..n : loads'[i].name = loads[i].name /\ loads'[i].how = loads[i].how
  BY <1>1, <1>2, <1>3
<1>5. NamesUpTo(loads', n) = NamesUpTo(loads, n)
  BY <1>1, <1>4, NamesSame
<1>6. 1 \in 1..n
  BY <1>1
<1>7. ASSUME outcome = "running" PROVE CallsReady(classes', globals, loads') /\ ~Putting(request)
  <2>1. /\ ~Putting(request) /\ loads[1].name \notin DOMAIN globals
        /\ loads[1].how = "block" => n = 1 /\ loads[1].name \in BlockNames
    BY <1>7, NotPutting DEF n
  <2>2. TopReady(classes', globals, NamesUpTo(loads', n), d)
    BY <1>5, <1>7 DEF n
  <2>3. loads'[1].name = loads[1].name /\ loads'[1].how = loads[1].how
    BY <1>4, <1>6
  <2>4. QED BY <1>2, <2>1, <2>2, <2>3 DEF CallsReady
<1>8. QED BY <1>7, CallsMove

LEMMA TopHasNoSystem ==
  ASSUME Ready, loads # << >>, boot > 40
  PROVE  top.system = None
<1>1. LoadInv /\ StackInv /\ loads[1].system = None
  BY DEF Ready, Before, Base, NoSystemInv
<1>2. /\ Len(loads) \in Nat \ {0}
      /\ \A i \in DOMAIN loads : i < Len(loads) => top.system = None
      /\ DOMAIN loads = 1..Len(loads)
  BY <1>1, TopReaches
<1>3. CASE Len(loads) = 1
  BY <1>1, <1>3 DEF top
<1>4. CASE Len(loads) # 1
  <2> DEFINE n == Len(loads)
  <2> HIDE DEF n
  <2>1. n \in Nat \ {0} /\ n # 1 /\ DOMAIN loads = 1..n
    BY <1>2, <1>4 DEF n
  <2>2. 1 \in DOMAIN loads /\ 1 < n
    BY <2>1
  <2>3. QED BY <1>2, <2>2 DEF n
<1>5. QED BY <1>3, <1>4

LEMMA FillingRest ==
  ASSUME LibraryFits, Ready, Filling, UNCHANGED request
  PROVE  RestInv'
<1>1. /\ boot \in 28..40 /\ outcome = "booting" /\ UNCHANGED <<boot, outcome, known, globals>>
      /\ Base /\ Before /\ NoSystemInv /\ SystemGlobals13 /\ KnownBound /\ request.op = "none"
  BY FillingCall DEF Ready, Filling, Before, BootInv, SystemGlobals13, RoutinesInv, RestInv
<1>2. PICK j \in 1..13 : \E f : known[SystemName(boot - 27)] = 2 * j /\ Filled(2 * j, 2 * j - 1, f)
  BY <1>1, FillingFills
<1>3. PICK f : known[SystemName(boot - 27)] = 2 * j /\ Filled(2 * j, 2 * j - 1, f)
  BY <1>2
<1>4. ASSUME NEW i \in 1..13, i + 27 < boot PROVE BothCallable(classes', known[SystemName(i)])
  <2> DEFINE b == boot - 27
  <2>1. b \in 1..13 /\ i # b
    BY <1>1, <1>4
  <2>2. PICK k \in 1..13 : known[SystemName(i)] = 2 * k
    BY <1>1, SystemPlaces
  <2>3. known[SystemName(i)] # known[SystemName(b)]
    BY <1>1, <2>1, SystemPlaces
  <2>4. known[SystemName(b)] = 2 * j
    BY <1>3
  <2> HIDE DEF b
  <2>5. k # j
    BY <2>2, <2>3, <2>4
  <2>6. 2 * k # 2 * j /\ 2 * k # 2 * j - 1 /\ 2 * k - 1 # 2 * j /\ 2 * k - 1 # 2 * j - 1
    BY <2>5
  <2>7. SystemGlobal(k)
    BY <1>1 DEF SystemGlobals13
  <2>8. classes[2 * k].class = 2 * k - 1 /\ 2 * k - 1 \in DOMAIN classes
    BY <2>7 DEF SystemGlobal
  <2>9. 2 * k \in DOMAIN classes
    BY <1>1, SystemPairs DEF Instances
  <2>10. classes'[2 * k] = classes[2 * k] /\ classes'[2 * k - 1] = classes[2 * k - 1]
    BY <1>3, <2>6, <2>8, <2>9 DEF Filled
  <2>11. BothCallable(classes, 2 * k)
    BY <1>1, <1>4, <2>2 DEF KnownBound
  <2>12. BothCallable(classes', 2 * k)
    BY <2>8, <2>10, <2>11 DEF BothCallable, Callable
  <2>13. QED BY <2>2, <2>12
<1>5. KnownBound'
  <2>1. /\ boot' = boot /\ known' = known /\ globals' = globals
    BY <1>1
  <2>2. ~(boot > 41) /\ ~(boot > 44)
    BY <1>1
  <2>3. QED BY <1>4, <2>1, <2>2 DEF KnownBound
<1>6. QED BY <1>1, <1>5 DEF RestInv

LEMMA OpenFileRest ==
  ASSUME LibraryFits, Ready, OpenFile
  PROVE  RestInv'
<1>1. /\ loads # << >> /\ top.pc = "find" /\ CallsInv /\ UNCHANGED <<boot, known, globals, outcome, request>>
      /\ boot >= 28 /\ boot \in Nat
  BY DEF OpenFile, Ready, Before, Base, LoadInv, BindingsInv
<1>2. IsCall(top)
  BY <1>1, TopIsCall
<1>3. PICK d : SetTop(d) /\ SameLoad(top, d) /\ d.pc # "assemble" /\ (d.pc = "primitives" => top.system # None)
  <2>1. CASE ~FileOpens
    <3> DEFINE d == [top EXCEPT !.dir = @ + 1]
    <3>1. SameLoad(top, d) /\ d.pc = "find" /\ SetTop(d)
      BY <1>1, <1>2, <2>1 DEF SameLoad, IsCall, OpenFile
    <3> HIDE DEF d
    <3>2. QED BY <3>1
  <2>2. CASE FileOpens /\ top.system = None
    <3> DEFINE d == [top EXCEPT !.pc = "super"]
    <3>1. SameLoad(top, d) /\ d.pc = "super" /\ SetTop(d)
      BY <1>1, <1>2, <2>2 DEF SameLoad, IsCall, OpenFile
    <3> HIDE DEF d
    <3>2. QED BY <3>1
  <2>3. CASE FileOpens /\ top.system # None
    <3> DEFINE d == [top EXCEPT !.pc = "primitives", !.class = top.system]
    <3>1. SameLoad(top, d) /\ d.pc = "primitives" /\ SetTop(d)
      BY <1>1, <1>2, <2>3 DEF SameLoad, IsCall, OpenFile
    <3> HIDE DEF d
    <3>2. QED BY <2>3, <3>1
  <2>4. QED BY <2>1, <2>2, <2>3
<1>4. outcome = "running" => TopReady(classes', globals, NamesUpTo(loads, Len(loads)), d)
  <2>1. SUFFICES ASSUME outcome = "running" PROVE TopReady(classes', globals, NamesUpTo(loads, Len(loads)), d)
    OBVIOUS
  <2>2. boot = 46
    BY <2>1 DEF Ready, Before, BootInv
  <2>3. top.system = None
    BY <1>1, <2>2, TopHasNoSystem
  <2>4. QED BY <1>3, <2>3 DEF TopReady
<1>5. [Next]_vars
  BY DEF Next
<1>6. CASE Keeps(classes, classes')
  BY <1>1, <1>3, <1>4, <1>6, TopMoves
<1>7. CASE Filling
  BY <1>1, <1>7, FillingRest
<1>8. QED BY <1>5, <1>6, <1>7, ClassesKeepStep, Zenon

\* A class of blocks, as its file describes it, waits for no primitive but its evaluation.
LEMMA BlockAssembled ==
  ASSUME NEW cs, ClassObjects(cs), NEW f, IsFile(f), NEW s, NEW name \in BlockNames, FileFits(name, f),
         f.name = name
  PROVE  BlockReady(Assembled(cs, f, s), Len(cs) + 2, name)
<1> DEFINE ds == Assembled(cs, f, s)
           n == Len(cs)
           x == SetInstanceInvokables(n + 2, f.methods)
           y == SetInstanceInvokables(n + 1, f.classMethods)
<1>1. /\ ds[n + 2].name = f.name /\ ds[n + 2].invokables = x /\ ds[n + 1].invokables = y
  BY NewClassesHave
<1>2. ds[n + 2].class = n + 1
  BY NewClasses
<1>3. /\ \A i, j \in DOMAIN f.methods : f.methods[i].signature = f.methods[j].signature => i = j
      /\ \A m \in Range(f.methods) : m.primitive => m.signature = EvaluationName(name)
      /\ \A m \in Range(f.classMethods) : ~m.primitive
  BY DEF FileFits, EvaluationName, BlockNames
<1>4. /\ DOMAIN x = DOMAIN f.methods /\ \A i \in DOMAIN x : x[i].signature = f.methods[i].signature
      /\ \A i \in DOMAIN x : x[i].routine = "empty" => f.methods[i].primitive
  BY MethodsSet DEF IsFile
<1>5. /\ DOMAIN y = DOMAIN f.classMethods
      /\ \A i \in DOMAIN y : y[i].routine = "empty" => f.classMethods[i].primitive
  BY MethodsSet DEF IsFile
<1>6. /\ \A i \in DOMAIN f.methods : f.methods[i] \in Range(f.methods)
      /\ \A i \in DOMAIN f.classMethods : f.classMethods[i] \in Range(f.classMethods)
  BY DEF Range
<1> HIDE DEF ds, x, y, n
<1>7. UniqueSignatures(x)
  BY <1>3, <1>4 DEF UniqueSignatures
<1>8. \A i \in DOMAIN x : x[i].routine = "empty" => x[i].signature = EvaluationName(name)
  BY <1>3, <1>4, <1>6
<1>9. \A i \in DOMAIN y : y[i].routine # "empty"
  BY <1>3, <1>5, <1>6
<1>10. Callable(ds, n + 1)
  BY <1>1, <1>9 DEF Callable
<1>11. BlockReady(ds, n + 2, name)
  BY <1>1, <1>2, <1>7, <1>8, <1>10 DEF BlockReady
<1>12. QED BY <1>11 DEF ds, n

LEMMA TopIsBlock ==
  ASSUME Ready, loads # << >>, outcome = "running", top.how = "block"
  PROVE  Len(loads) = 1 /\ top.name \in BlockNames
<1>1. /\ CallsInv /\ IsSeq(loads) /\ Len(loads) \in DOMAIN loads
      /\ loads[1].how = "block" => Len(loads) = 1 /\ loads[1].name \in BlockNames
  BY NotPutting, Measured DEF Ready, Before, Base, LoadInv, CallsInv
<1>2. Len(loads) = 1
  BY <1>1 DEF CallsInv, BlockCallsOk, top
<1>3. QED BY <1>1, <1>2 DEF top

LEMMA AssembleRest ==
  ASSUME LibraryFits, Ready, Assemble
  PROVE  RestInv'
<1>1. /\ loads # << >> /\ top.pc = "assemble" /\ CallsInv /\ UNCHANGED <<boot, known, globals, outcome, request>>
      /\ LinkInv /\ LoadInv /\ StackInv /\ WordsInv /\ boot >= 28 /\ Base
      /\ classes' = Assembled(classes, File, top.super) /\ ClassObjects(classes)
  BY DEF Assemble, Ready, Before, Base, LoadInv, LinkInv
<1>2. IsCall(top) /\ top.super \in Instances(classes) /\ CallReaches(classes, top)
  BY <1>1, TopOfHierarchy, TopReaches DEF CallLinked
<1>3. classes'[Len(classes')].super = top.super /\ Len(classes') = Len(classes) + 2
  BY <1>1, NewClasses
<1>4. PICK d : /\ SetTop(d) /\ SameLoad(top, d) /\ d.pc # "assemble"
               /\ d.pc = "primitives" => d.class = Len(classes') /\ File.name = top.name
  <2>1. CASE File.name = top.name
    <3> DEFINE d == [top EXCEPT !.pc = "primitives", !.class = Len(classes')]
    <3>1. SameLoad(top, d) /\ d.pc = "primitives" /\ SetTop(d) /\ d.class = Len(classes')
      BY <1>1, <1>2, <2>1 DEF SameLoad, IsCall, Assemble
    <3> HIDE DEF d
    <3>2. QED BY <2>1, <3>1
  <2>2. CASE File.name # top.name
    <3> DEFINE d == [top EXCEPT !.pc = "find", !.dir = @ + 1]
    <3>1. SameLoad(top, d) /\ d.pc = "find" /\ SetTop(d)
      BY <1>1, <1>2, <2>2 DEF SameLoad, IsCall, Assemble
    <3> HIDE DEF d
    <3>2. QED BY <3>1
  <2>3. QED BY <2>1, <2>2
<1>5. Keeps(classes, classes')
  <2>1. [Next]_vars
    BY DEF Next
  <2>2. ~Filling
    BY <1>1 DEF Filling
  <2>3. QED BY <2>1, <2>2, ClassesKeepStep
<1>6. ASSUME outcome = "running" PROVE TopReady(classes', globals, NamesUpTo(loads, Len(loads)), d)
  <2> DEFINE names == NamesUpTo(loads, Len(loads))
  <2>1. SUFFICES ASSUME d.pc = "primitives" PROVE TopReady(classes', globals, names, d)
    BY <1>4 DEF TopReady
  <2>2. d.class = Len(classes') /\ File.name = top.name /\ d.how = top.how /\ d.name = top.name
    BY <1>4, <2>1 DEF SameLoad
  <2>3. Continues(classes, globals, names, top.how, top.super)
    BY <1>1, <1>6, NotPutting DEF TopReady
  <2> HIDE DEF names
  <2>4. Sound(classes, globals)
    BY <1>1, SoundNow
  <2>5. HasTrail(classes', globals, names, top.super)
    BY <1>5, <2>3, <2>4, KeepsHasTrail DEF Continues
  <2>6. top.how = "block" => GlobalIn(classes', globals, top.super)
    <3>1. top.super \in DOMAIN classes
      BY <1>2 DEF Instances
    <3>2. QED BY <1>5, <2>3, <3>1, KeepsGlobal DEF Continues
  <2>7. classes'[d.class].super = top.super
    BY <1>3, <2>2
  <2>8. Continues(classes', globals, names, d.how, classes'[d.class].super)
    BY <2>2, <2>5, <2>6, <2>7 DEF Continues
  <2>9. ASSUME d.how = "block" PROVE BlockReady(classes', d.class, d.name)
    <3>1. top.name \in BlockNames
      BY <1>1, <1>6, <2>2, <2>9, TopIsBlock
    <3>2. Opens(top, top.dir)
      BY <1>1, <1>2 DEF CallReaches
    <3>3. IsFile(File) /\ FileFits(top.name, File)
      BY <1>1, <3>2, FilesAreFiles, FileIsAt
    <3>4. BlockReady(Assembled(classes, File, top.super), Len(classes) + 2, top.name)
      BY <1>1, <2>2, <3>1, <3>3, BlockAssembled
    <3>5. QED BY <1>1, <1>3, <2>2, <3>4
  <2>10. QED BY <1>4, <2>8, <2>9 DEF TopReady
<1>7. QED BY <1>1, <1>4, <1>5, <1>6, TopMoves

LEMMA GlobalTrail ==
  ASSUME NEW cs, NEW gs, Sound(cs, gs), \A c \in Instances(cs) : c > 0, ClosedBut(cs, gs, None),
         GlobalsBound(cs, gs), NEW n \in DOMAIN gs, gs[n] > 0, NEW names,
         \A k \in names : k \notin DOMAIN gs
  PROVE  HasTrail(cs, gs, names, gs[n]) /\ GlobalIn(cs, gs, gs[n])
<1> DEFINE T == {c \in Instances(cs) : GlobalIn(cs, gs, c)}
<1>1. ASSUME NEW k \in DOMAIN gs, gs[k] > 0
      PROVE  /\ gs[k] \in T /\ cs[gs[k]].name = k /\ BothCallable(cs, gs[k])
             /\ cs[gs[k]].super = None \/ cs[gs[k]].super \in T
  <2>1. gs[k] \in Instances(cs) /\ cs[gs[k]].name = k /\ BothCallable(cs, gs[k])
    BY <1>1 DEF Sound, GlobalsBound
  <2>2. cs[gs[k]].super = None \/ GlobalIn(cs, gs, cs[gs[k]].super)
    BY <1>1 DEF ClosedBut
  <2>3. cs[gs[k]].super # None => cs[gs[k]].super \in Instances(cs)
    BY <2>1 DEF Sound
  <2>4. GlobalIn(cs, gs, gs[k])
    BY <2>1 DEF GlobalIn
  <2>5. QED BY <2>1, <2>2, <2>3, <2>4
<1>2. \A t \in T : t \in Instances(cs) /\ cs[t].name \in DOMAIN gs /\ gs[cs[t].name] = t /\ t > 0
  BY DEF GlobalIn
<1> HIDE DEF T
<1>3. ASSUME NEW t \in T
      PROVE  /\ cs[t].super = None \/ cs[t].super \in T
             /\ cs[t].name \in DOMAIN gs => gs[cs[t].name] = t
             /\ cs[t].name \notin names /\ BothCallable(cs, t)
  <2>1. t \in Instances(cs) /\ cs[t].name \in DOMAIN gs /\ gs[cs[t].name] = t /\ t > 0
    BY <1>2
  <2> DEFINE k == cs[t].name
  <2>2. k \in DOMAIN gs /\ gs[k] = t /\ gs[k] > 0
    BY <2>1
  <2>3. /\ BothCallable(cs, gs[k])
        /\ cs[gs[k]].super = None \/ cs[gs[k]].super \in T
    BY <1>1, <2>2
  <2>4. QED BY <2>1, <2>2, <2>3
<1>4. \A t, u \in T : cs[t].name = cs[u].name => t = u
  BY <1>2
<1>5. gs[n] \in T /\ T \subseteq Instances(cs)
  BY <1>1, <1>2
<1>6. Trail(cs, gs, T, names, gs[n])
  BY <1>3, <1>4, <1>5 DEF Trail
<1>7. GlobalIn(cs, gs, gs[n])
  BY <1>2, <1>5 DEF GlobalIn
<1>8. QED BY <1>6, <1>7 DEF HasTrail

LEMMA NamesFree ==
  ASSUME Ready, loads # << >>, outcome = "running"
  PROVE  \A k \in NamesUpTo(loads, Len(loads)) : k \notin DOMAIN globals
<1>1. /\ IsSeq(loads) /\ Len(loads) \in Nat /\ DOMAIN loads = 1..Len(loads) /\ StackOk(classes, globals, loads)
      /\ loads[1].name \notin DOMAIN globals
  BY NotPutting, Measured DEF Ready, Before, Base, LoadInv, CallsInv, StackInv
<1>2. ASSUME NEW i \in DOMAIN loads PROVE loads[i].name \notin DOMAIN globals
  <2>1. CASE i = 1
    BY <1>1, <2>1
  <2>2. CASE i # 1
    <3>1. i > 1
      BY <1>1, <2>2
    <3>2. QED BY <1>1, <3>1 DEF StackOk, InnerCall
  <2>3. QED BY <2>1, <2>2
<1>3. QED BY <1>1, <1>2 DEF NamesUpTo

LEMMA ClassesPositive ==
  ASSUME ClassObjects(classes)
  PROVE  \A c \in Instances(classes) : c > 0 /\ c \in DOMAIN classes
<1>1. IsSeq(classes)
  BY DEF ClassObjects
<1>2. DOMAIN classes = 1..Len(classes) /\ Len(classes) \in Nat
  BY <1>1, Measured
<1>3. QED BY <1>2 DEF Instances

LEMMA LoadSuperClassRest ==
  ASSUME LibraryFits, Ready, LoadSuperClass
  PROVE  RestInv'
<1>1. /\ loads # << >> /\ top.pc = "super" /\ CallsInv /\ UNCHANGED <<boot, known, classes, globals, request>>
      /\ Before /\ Base /\ boot >= 28 /\ LoadInv /\ StackInv /\ ClassObjects(classes) /\ WordsInv /\ BootInv
  BY DEF LoadSuperClass, Ready, Before, Base, LoadInv, LinkInv
<1>2. /\ IsCall(top) /\ CallReaches(classes, top) /\ Sound(classes, globals) /\ Keeps(classes, classes')
      /\ \A c \in Instances(classes) : c > 0
  BY <1>1, TopReaches, SoundNow, SameKeeps, ClassesPositive
<1>3. CASE Failed("crashed") \/ Failed("overflow")
  BY <1>3, RestFails DEF Failed
<1>4. ASSUME HasGlobal(File.super), globals[File.super] > 0,
             SetTop([top EXCEPT !.super = globals[File.super], !.pc = "assemble"]), UNCHANGED outcome
      PROVE  RestInv'
  <2> DEFINE d == [top EXCEPT !.super = globals[File.super], !.pc = "assemble"]
             names == NamesUpTo(loads, Len(loads))
  <2>1. SameLoad(top, d) /\ d.pc = "assemble" /\ d.super = globals[File.super] /\ SetTop(d)
    BY <1>2, <1>4 DEF SameLoad, IsCall
  <2> HIDE DEF d
  <2>2. ASSUME outcome = "running" PROVE TopReady(classes', globals, names, d)
    <3>1. ClosedBut(classes, globals, None) /\ GlobalsBound(classes, globals)
      BY <1>1, <2>2, NotPutting
    <3>2. \A k \in names : k \notin DOMAIN globals
      BY <1>1, <2>2, NamesFree
    <3>3. File.super \in DOMAIN globals
      BY <1>4 DEF HasGlobal
    <3> HIDE DEF names
    <3>4. HasTrail(classes, globals, names, globals[File.super]) /\ GlobalIn(classes, globals, globals[File.super])
      BY <1>2, <1>4, <3>1, <3>2, <3>3, GlobalTrail
    <3>5. Continues(classes, globals, names, d.how, d.super)
      BY <2>1, <3>4 DEF Continues
    <3>6. QED BY <1>1, <2>1, <3>5 DEF TopReady
  <2>3. QED BY <1>1, <1>2, <1>4, <2>1, <2>2, TopMoves
<1>5. ASSUME ~HasGlobal(File.super), loads' = Append(loads, Call(File.super, "class", None)), UNCHANGED outcome
      PROVE  RestInv'
  <2> DEFINE c == Call(File.super, "class", None)
             n == Len(loads)
  <2>1. IsSeq(loads) /\ n \in Nat /\ DOMAIN loads = 1..n /\ n \in DOMAIN loads
    BY <1>1, Measured DEF CallsInv
  <2>2. Len(loads') = n + 1 /\ loads'[n + 1] = c /\ loads'[1] = loads[1] /\ loads' # << >>
    <3>1. 1 \in DOMAIN loads
      BY <2>1
    <3>2. loads' = Append(loads, c)
      BY <1>5
    <3> HIDE DEF c
    <3>3. Len(loads') = n + 1 /\ loads'[n + 1] = c /\ loads'[1] = loads[1] /\ IsSeq(loads')
      BY <2>1, <3>1, <3>2, Appended
    <3>4. n + 1 # 0
      BY <2>1
    <3>5. QED BY <3>3, <3>4, NoneYet
  <2>3. c.pc = "find"
    BY NewCall
  <2>4. loads'[Len(loads')].pc = "find"
    BY <2>2, <2>3
  <2> HIDE DEF c
  <2>5. ASSUME outcome = "running" PROVE CallsReady(classes', globals, loads') /\ ~Putting(request)
    <3>1. ~Putting(request) /\ loads[1].name \notin DOMAIN globals /\ "Block" \in DOMAIN globals
      BY <1>1, <2>5, NotPutting
    <3>2. loads[1].how # "block"
      <4>1. SUFFICES ASSUME loads[1].how = "block" PROVE FALSE
        OBVIOUS
      <4>2. Len(loads) = 1 /\ loads[1].name \in BlockNames
        BY <1>1, <2>5, <4>1, NotPutting
      <4>3. top.name \in BlockNames
        BY <4>2 DEF top
      <4>4. FileFits(top.name, File)
        BY <1>1, <1>2, FilesAreFiles, FileIsAt DEF CallReaches
      <4>5. File.super \in SystemClasses \cup {"Block"}
        BY <4>3, <4>4 DEF FileFits, BlockNames
      <4>6. \A i \in 1..13 : SystemGlobal(i)
        BY <1>1 DEF BootInv
      <4>7. File.super \in DOMAIN globals
        BY <1>1, <3>1, <4>5, <4>6, SystemIsGlobal
      <4>8. QED BY <1>5, <4>7 DEF HasGlobal
    <3>3. TopReady(classes', globals, NamesUpTo(loads', Len(loads')), loads'[Len(loads')])
      BY <2>4 DEF TopReady
    <3>4. QED BY <2>2, <3>1, <3>2, <3>3 DEF CallsReady
  <2>6. QED BY <1>1, <1>2, <1>5, <2>5, CallsMove
<1>6. QED BY <1>3, <1>4, <1>5 DEF LoadSuperClass

\* A class that is complete continues the trail of its superclass.
LEMMA TrailExtends ==
  ASSUME NEW cs, NEW gs, NEW T, NEW names, NEW less, NEW c \in Instances(cs),
         Trail(cs, gs, T, names, cs[c].super), less \subseteq names,
         cs[c].name \notin DOMAIN gs, cs[c].name \in names, cs[c].name \notin less, BothCallable(cs, c)
  PROVE  Trail(cs, gs, T \cup {c}, less, c)
<1> DEFINE U == T \cup {c}
<1>1. /\ cs[c].super \in T /\ T \subseteq Instances(cs)
      /\ \A t \in T : /\ cs[t].super = None \/ cs[t].super \in T
                      /\ cs[t].name \in DOMAIN gs => gs[cs[t].name] = t
                      /\ cs[t].name \notin names /\ BothCallable(cs, t)
      /\ \A t, u \in T : cs[t].name = cs[u].name => t = u
  BY DEF Trail
<1>2. c \in U /\ U \subseteq Instances(cs)
  BY <1>1
<1>3. ASSUME NEW t \in U
      PROVE  /\ cs[t].super = None \/ cs[t].super \in U
             /\ cs[t].name \in DOMAIN gs => gs[cs[t].name] = t
             /\ cs[t].name \notin less /\ BothCallable(cs, t)
  <2>1. CASE t = c
    BY <1>1, <2>1
  <2>2. CASE t \in T
    BY <1>1, <2>2
  <2>3. QED BY <2>1, <2>2
<1>4. ASSUME NEW t \in U, NEW u \in U, cs[t].name = cs[u].name PROVE t = u
  <2>1. \A v \in T : cs[v].name # cs[c].name
    BY <1>1
  <2>2. QED BY <1>1, <1>4, <2>1
<1>5. QED BY <1>2, <1>3, <1>4 DEF Trail

\* A class is not loaded while a load of it goes on: files before the one that is read were not it.
LEMMA ReturningIsNew ==
  ASSUME Ready, loads # << >>, boot > 40, top.pc = "primitives", NEW i \in DOMAIN loads, i < Len(loads)
  PROVE  loads[i].name # top.name
<1>1. /\ LoadInv /\ StackInv /\ loads[1].system = None
  BY DEF Ready, Before, Base, NoSystemInv
<1>2. /\ Behind(loads[i], top) /\ CallReaches(classes, loads[i]) /\ CallReaches(classes, top)
      /\ DOMAIN loads = 1..Len(loads) /\ Len(loads) \in Nat \ {0}
  BY <1>1, TopReaches
<1>3. loads[i].system = None
  <2>1. CASE i = 1
    BY <1>1, <2>1
  <2>2. CASE i # 1
    <3>1. i > 1
      BY <1>2, <2>2
    <3>2. QED BY <1>1, <3>1 DEF StackInv, StackOk, InnerCall
  <2>3. QED BY <2>1, <2>2
<1>4. SUFFICES ASSUME top.name = loads[i].name PROVE FALSE
  OBVIOUS
<1>5. top.system = None
  BY TopHasNoSystem
<1>6. Opens(top, top.dir) /\ FileAt(top, top.dir).name = top.name /\ top.dir \in Nat \ {0}
  BY <1>2, <1>5 DEF CallReaches
<1>7. top.dir < loads[i].dir /\ loads[i].dir \in Nat
  BY <1>2, <1>4 DEF Behind, CallReaches
<1>8. Opens(loads[i], top.dir) /\ FileAt(loads[i], top.dir).name = loads[i].name
  BY <1>4, <1>6 DEF Opens, FileAt
<1>9. top.dir \in 1..(loads[i].dir - 1)
  BY <1>6, <1>7
<1>10. QED BY <1>2, <1>3, <1>8, <1>9 DEF CallReaches

\* The trail of the class that is returned, without the calls that go on.
LEMMA ReturnedTrail ==
  ASSUME Ready, Binding, Keeps(classes, classes'), outcome = "running", top.how # "block",
         NEW n \in Nat, n = Len(loads), NEW less, less = NamesUpTo(loads, n - 1)
  PROVE  HasTrail(classes', globals, less, top.class)
<1>1. /\ loads # << >> /\ top.pc = "primitives" /\ Base /\ boot = 46 /\ LoadInv /\ StackInv /\ AllRoutinesOk(classes)
      /\ DOMAIN loads = 1..n /\ n \in DOMAIN loads
  BY Measured DEF Binding, Ready, Before, Base, BootInv, RoutinesInv, LoadInv, CallsInv
<1>2. Continues(classes, globals, NamesUpTo(loads, n), top.how, classes[top.class].super)
  BY <1>1, NotPutting DEF TopReady
<1>3. PICK T : Trail(classes, globals, T, NamesUpTo(loads, n), classes[top.class].super)
  BY <1>2 DEF Continues, HasTrail
<1>4. Sound(classes, globals)
  BY <1>1, SoundNow
<1>5. /\ SameLinks(classes, classes') /\ top.class \in Instances(classes) /\ top.class \in DOMAIN classes
  BY <1>1, BindingSame
<1>6. top.class \in Instances(classes') /\ classes'[top.class].super = classes[top.class].super
      /\ classes'[top.class].name = classes[top.class].name
  BY <1>5 DEF Keeps
<1>7. BothCallable(classes', top.class)
  BY <1>1, BindingFields
<1>8. classes[top.class].name = top.name
  <2>1. top.system = None
    BY <1>1, TopHasNoSystem
  <2>2. CallReaches(classes, top)
    BY <1>1, TopReaches
  <2>3. QED BY <1>1, <2>1, <2>2 DEF CallReaches
<1>9. Trail(classes', globals, T, NamesUpTo(loads, n), classes'[top.class].super)
  BY <1>3, <1>4, <1>6, KeepsTrail
<1>10. top = loads[n]
  BY DEF top
<1>11. top.name \in NamesUpTo(loads, n) /\ less \subseteq NamesUpTo(loads, n)
  BY <1>1, <1>10 DEF NamesUpTo
<1>12. top.name \notin less
  <2>1. \A i \in 1..(n - 1) : i \in DOMAIN loads /\ i < Len(loads)
    BY <1>1
  <2>2. \A i \in 1..(n - 1) : loads[i].name # top.name
    BY <1>1, <2>1, ReturningIsNew, SMTT(20)
  <2>3. QED BY <2>2 DEF NamesUpTo
<1>13. top.name \notin DOMAIN globals
  BY <1>1, <1>11, NamesFree
<1>14. Trail(classes', globals, T \cup {top.class}, less, top.class)
  <2> DEFINE c == top.class
             all == NamesUpTo(loads, n)
             ds == classes'
  <2>1. /\ c \in Instances(ds) /\ Trail(ds, globals, T, all, ds[c].super) /\ less \subseteq all
        /\ ds[c].name \notin DOMAIN globals /\ ds[c].name \in all /\ ds[c].name \notin less /\ BothCallable(ds, c)
    BY <1>6, <1>7, <1>8, <1>9, <1>11, <1>12, <1>13
  <2> HIDE DEF c, all, ds
  <2>2. Trail(ds, globals, T \cup {c}, less, c)
    BY <2>1, TrailExtends
  <2>3. QED BY <2>2 DEF ds, c
<1>15. QED BY <1>14 DEF HasTrail

\* A superclass is complete: the load that waits for it goes on.
LEMMA ReturnInner ==
  ASSUME Ready, Binding, Keeps(classes, classes'), UNCHANGED <<boot, known, request, outcome, globals>>,
         Len(loads) > 1,
         loads' = Append(SubSeq(loads, 1, Len(loads) - 2),
                         [loads[Len(loads) - 1] EXCEPT !.super = top.class, !.pc = "assemble"])
  PROVE  RestInv'
<1> DEFINE n == Len(loads)
           k == n - 2
           o == loads[n - 1]
           d == [o EXCEPT !.super = top.class, !.pc = "assemble"]
<1>1. /\ loads # << >> /\ IsSeq(loads) /\ n \in Nat /\ DOMAIN loads = 1..n /\ CallsInv
  BY Measured DEF Binding, Ready, Before, Base, LoadInv, CallsInv
<1>2. n > 1 /\ loads' = Append(SubSeq(loads, 1, k), d)
  OBVIOUS
<1> HIDE DEF n
<1>3. /\ k \in Nat /\ k < n /\ k + 1 = n - 1 /\ n - 1 \in DOMAIN loads /\ n - 1 \in Nat /\ n - 1 # 0
      /\ (k = 0 => n - 1 = 1) /\ (k # 0 => 1 \in 1..k) /\ n # 1
  BY <1>1, <1>2
<1>4. IsCall(o)
  BY <1>1, <1>3 DEF CallsInv, BlockCallsOk
<1>5. d.name = o.name /\ d.how = o.how /\ d.pc = "assemble" /\ d.super = top.class
  <2> HIDE DEF o
  <2>1. QED BY <1>4 DEF IsCall
<1> HIDE DEF d, k
<1>6. IsSeq(loads') /\ Len(loads') = k + 1 /\ loads'[k + 1] = d /\ \A i \in 1..k : loads'[i] = loads[i]
  <2>1. IsSeq(loads) /\ k \in Nat /\ k < Len(loads)
    BY <1>1, <1>3 DEF n
  <2> DEFINE r == Append(SubSeq(loads, 1, k), d)
  <2>2. IsSeq(r) /\ Len(r) = k + 1 /\ r[k + 1] = d /\ \A i \in 1..k : r[i] = loads[i]
    BY <2>1, Replaced
  <2>3. r = loads'
    BY <1>2
  <2> HIDE DEF r
  <2>4. QED BY <2>2, <2>3
<1>7. Len(loads') = n - 1 /\ loads'[n - 1] = d
  BY <1>3, <1>6
<1>8. loads' # << >>
  BY <1>3, <1>7, NoneYet
<1>9. loads'[1].name = loads[1].name /\ loads'[1].how = loads[1].how
  <2>1. CASE k = 0
    <3>1. n - 1 = 1
      BY <1>3, <2>1
    <3>2. loads'[1] = d /\ o = loads[1]
      BY <1>7, <3>1
    <3>3. QED BY <1>5, <3>2
  <2>2. CASE k # 0
    BY <1>3, <1>6, <2>2
  <2>3. QED BY <2>1, <2>2
<1>10. \A i \in 1..(n - 1) : loads'[i].name = loads[i].name
  <2>1. ASSUME NEW i \in 1..(n - 1) PROVE loads'[i].name = loads[i].name
    <3>1. i = n - 1 \/ i \in 1..k
      BY <1>3 DEF k
    <3>2. QED BY <1>5, <1>6, <1>7, <3>1 DEF o
  <2>2. QED BY <2>1
<1>11. NamesUpTo(loads', n - 1) = NamesUpTo(loads, n - 1)
  BY <1>3, <1>10, NamesSame
<1>12. ASSUME outcome = "running" PROVE CallsReady(classes', globals, loads') /\ ~Putting(request)
  <2>1. ~Putting(request) /\ loads[1].name \notin DOMAIN globals /\ (loads[1].how = "block" => n = 1)
    BY <1>1, <1>12, NotPutting DEF n
  <2>2. loads[1].how # "block"
    BY <1>3, <2>1
  <2>3. top.how # "block" /\ o.how # "block"
    <3>1. \A i \in DOMAIN loads : loads[i].how = "block" => i = 1
      BY <1>1 DEF CallsInv, BlockCallsOk
    <3>2. top = loads[n] /\ n \in DOMAIN loads
      BY <1>1, <1>2, SMTT(20) DEF top, n
    <3>3. QED BY <1>3, <2>2, <3>1, <3>2 DEF o
  <2>4. HasTrail(classes', globals, NamesUpTo(loads, n - 1), top.class)
    BY <1>1, <1>12, <2>3, ReturnedTrail, Zenon DEF n
  <2>5. Continues(classes', globals, NamesUpTo(loads', n - 1), d.how, d.super)
    BY <1>5, <1>11, <2>3, <2>4 DEF Continues
  <2>6. TopReady(classes', globals, NamesUpTo(loads', Len(loads')), loads'[Len(loads')])
    BY <1>5, <1>7, <2>5 DEF TopReady
  <2>7. QED BY <1>8, <1>9, <2>1, <2>2, <2>6 DEF CallsReady
<1>13. QED BY <1>1, <1>12, CallsMove

--------------------
(* A class becomes a global. *)

BoundTo(gs, hs, name, v) ==
  /\ name \notin DOMAIN gs /\ DOMAIN hs = DOMAIN gs \cup {name} /\ hs[name] = v
  /\ \A n \in DOMAIN gs : hs[n] = gs[n]

LEMMA BindIs ==
  ASSUME NEW n, n \notin DOMAIN globals, NEW v, Bind(n, v)
  PROVE  BoundTo(globals, globals', n, v)
BY DEF Bind, BoundTo

LEMMA BoundGlobal ==
  ASSUME NEW cs, NEW gs, NEW hs, NEW name, NEW v, BoundTo(gs, hs, name, v), NEW c, GlobalIn(cs, gs, c)
  PROVE  GlobalIn(cs, hs, c)
BY DEF GlobalIn, BoundTo

LEMMA BoundBound ==
  ASSUME NEW cs, NEW gs, NEW hs, NEW name, NEW v, BoundTo(gs, hs, name, v), GlobalsBound(cs, gs),
         cs[v].name = name, BothCallable(cs, v)
  PROVE  GlobalsBound(cs, hs)
BY DEF GlobalsBound, BoundTo

\* The next superclass that is no global yet is that of the class that just became one.
LEMMA BoundClosed ==
  ASSUME NEW cs, NEW gs, NEW hs, NEW name, NEW v, BoundTo(gs, hs, name, v), NEW s, NEW t,
         ClosedBut(cs, gs, s), cs[v].name = name,
         cs[v].super = t \/ cs[v].super = None \/ GlobalIn(cs, gs, cs[v].super), s = v \/ s = None
  PROVE  ClosedBut(cs, hs, t)
<1>1. DOMAIN hs = DOMAIN gs \cup {name} /\ hs[name] = v /\ \A n \in DOMAIN gs : hs[n] = gs[n]
  BY DEF BoundTo
<1>2. \A c : GlobalIn(cs, gs, c) => GlobalIn(cs, hs, c)
  BY BoundGlobal
<1>3. GlobalIn(cs, hs, v)
  BY <1>1 DEF GlobalIn
<1>4. ASSUME NEW n \in DOMAIN hs, hs[n] > 0
      PROVE  cs[hs[n]].super = None \/ cs[hs[n]].super = t \/ GlobalIn(cs, hs, cs[hs[n]].super)
  <2>1. CASE n = name
    BY <1>1, <1>2, <2>1
  <2>2. CASE n # name
    <3>1. n \in DOMAIN gs /\ hs[n] = gs[n]
      BY <1>1, <2>2
    <3>2. cs[gs[n]].super = None \/ cs[gs[n]].super = s \/ GlobalIn(cs, gs, cs[gs[n]].super)
      BY <1>4, <3>1 DEF ClosedBut
    <3>3. QED BY <1>2, <1>3, <3>1, <3>2
  <2>3. QED BY <2>1, <2>2
<1>5. QED BY <1>4 DEF ClosedBut

LEMMA BoundTrail ==
  ASSUME NEW cs, NEW gs, NEW hs, NEW c, BoundTo(gs, hs, cs[c].name, c), HasTrail(cs, gs, {}, c),
         cs[c].super # None
  PROVE  HasTrail(cs, hs, {}, cs[c].super)
<1>1. DOMAIN hs = DOMAIN gs \cup {cs[c].name} /\ hs[cs[c].name] = c /\ \A n \in DOMAIN gs : hs[n] = gs[n]
  BY DEF BoundTo
<1>2. PICK T : Trail(cs, gs, T, {}, c)
  BY DEF HasTrail
<1>3. cs[c].super \in T
  BY <1>2 DEF Trail
<1>4. \A t \in T : cs[t].name \in DOMAIN hs => hs[cs[t].name] = t
  BY <1>1, <1>2 DEF Trail
<1>5. Trail(cs, hs, T, {}, cs[c].super)
  BY <1>2, <1>3, <1>4 DEF Trail
<1>6. QED BY <1>5 DEF HasTrail

LEMMA NamesOfSteps ==
  /\ BootSteps[41].name = "Block" /\ BootSteps[42].name = "True"
  /\ BootSteps[43].name = "False" /\ BootSteps[44].name = "System"
<1>1. \A n : Step("class", n, "").name = n
  BY DEF Step
<1>2. QED BY <1>1, BootStepsAre

\* The virtual machine has loaded a class of its own by name.
LEMMA LoadedAtBoot ==
  ASSUME Ready, StatesInv, Binding, Keeps(classes, classes'), UNCHANGED globals, top.how # "block",
         outcome = "booting", boot \in {41, 44}
  PROVE  LoadedOk(classes', globals, top.class, top.name)
<1> DEFINE s == classes[top.class].super
<1>1. /\ loads # << >> /\ top.pc = "primitives" /\ Base /\ LoadInv /\ StackInv /\ AllRoutinesOk(classes) /\ boot > 40
      /\ BootInv
  BY DEF Binding, Ready, Before, Base, RoutinesInv
<1>2. /\ SameLinks(classes, classes') /\ top.class \in Instances(classes) /\ top.class \in DOMAIN classes
  BY <1>1, BindingSame
<1>3. top.class \in Instances(classes') /\ classes'[top.class].super = s
      /\ classes'[top.class].name = classes[top.class].name
  BY <1>2 DEF Keeps
<1>4. BothCallable(classes', top.class)
  BY <1>1, BindingFields
<1>5. classes[top.class].name = top.name
  <2>1. top.system = None
    BY <1>1, TopHasNoSystem
  <2>2. CallReaches(classes, top)
    BY <1>1, TopReaches
  <2>3. QED BY <1>1, <2>1, <2>2 DEF CallReaches
<1>6. GlobalIn(classes, globals, s)
  <2>1. FirstCall
    BY <1>1 DEF BootInv
  <2>2. Len(loads) = 1
    BY <2>1 DEF FirstCall
  <2>3. top = loads[1]
    BY <2>2 DEF top
  <2>4. QED BY <1>1, <2>1, <2>3 DEF FirstCall, GlobalClass
<1>7. s # None
  <2>1. SUFFICES ASSUME s = None PROVE FALSE
    OBVIOUS
  <2>2. \E n \in DOMAIN globals : globals[n] = None
    BY <1>6, <2>1 DEF GlobalIn
  <2>3. DOMAIN classes = 1..Len(classes)
    BY <1>1, Measured DEF Base, LinkInv, ClassObjects
  <2>4. None \notin DOMAIN classes \cup {NotAClass, nil}
    BY <2>3 DEF None, NotAClass, nil
  <2>5. QED BY <2>2, <2>4 DEF StatesInv
<1>8. s \in DOMAIN classes
  <2>1. Sound(classes, globals)
    BY SoundNow DEF Ready, Before
  <2>2. QED BY <1>2, <1>7, <2>1 DEF Sound
<1> HIDE DEF s
<1>9. GlobalIn(classes', globals, s)
  BY <1>6, <1>8, KeepsGlobal
<1>10. QED BY <1>3, <1>4, <1>5, <1>7, <1>9 DEF LoadedOk

LEMMA ReturnBooting ==
  ASSUME Ready, StatesInv, Binding, Keeps(classes, classes'), UNCHANGED <<outcome, request>>,
         top.how = "block" \/ UNCHANGED globals,
         Len(loads) = 1, outcome = "booting", boot' = boot + 1, SystemKnown,
         known' = IF top.name \in {"Block", "System"} THEN [known EXCEPT ![top.name] = top.class] ELSE known
  PROVE  RestInv'
<1>1. /\ loads # << >> /\ top.pc = "primitives" /\ Base /\ LoadInv /\ CallsInv /\ StackInv /\ AllRoutinesOk(classes)
      /\ BootInv /\ LinkInv /\ boot \in Nat /\ KnownBound /\ request.op = "none" /\ top = loads[1]
      /\ boot >= 28
  BY DEF Binding, Ready, Before, Base, RoutinesInv, RestInv, LoadInv, BindingsInv, top
<1>2. /\ FirstCall /\ boot \in 28..44
  BY <1>1 DEF BootInv, FirstCall
<1>3. top.how # "block"
  <2>1. 1 \in DOMAIN loads
    BY <1>1, Measured DEF CallsInv
  <2>2. QED BY <1>1, <2>1 DEF CallsInv
<1>4. UNCHANGED globals /\ Sound(classes, globals) /\ {"Block", "System"} \subseteq DOMAIN known
  BY <1>1, <1>3, SoundNow DEF LinkInv, KnownOk, KnownNames
<1>5. ASSUME NEW i \in 1..13, i + 27 < boot' PROVE BothCallable(classes', known'[SystemName(i)])
  <2>1. SystemName(i) \in KnownNames \ {"Block", "System"} /\ \E j \in 1..13 : SystemName(i) = AllocationOrder[j]
    BY <1>1, SystemPairs
  <2>2. known'[SystemName(i)] = known[SystemName(i)]
    BY <2>1 DEF SystemKnown
  <2>3. known[SystemName(i)] \in Instances(classes)
    BY <1>1, <2>1, SystemPairs
  <2>4. CASE i + 27 < boot
    <3>1. known[SystemName(i)] \in DOMAIN classes /\ classes[known[SystemName(i)]].class \in DOMAIN classes
      BY <1>4, <2>3 DEF Sound
    <3>2. BothCallable(classes, known[SystemName(i)])
      BY <1>1, <2>4 DEF KnownBound
    <3>3. QED BY <2>2, <3>1, <3>2, KeepsBoth
  <2>5. CASE ~(i + 27 < boot)
    <3>1. boot - 27 = i /\ boot <= 40
      BY <1>2, <1>5, <2>5
    <3>2. top.system = known[SystemName(i)]
      BY <1>1, <1>2, <3>1 DEF FirstCall
    <3>3. top.system # None
      <4>1. DOMAIN classes = 1..Len(classes)
        BY <1>1, Measured DEF LinkInv, ClassObjects
      <4>2. QED BY <2>3, <3>2, <4>1 DEF None, Instances
    <3>4. top.class = top.system
      BY <1>1, <3>3, TopReaches DEF CallReaches
    <3>5. BothCallable(classes', top.class)
      BY <1>1, <1>3, BindingFields
    <3>6. QED BY <2>2, <3>2, <3>4, <3>5
  <2>6. QED BY <2>4, <2>5
<1>6. boot \in 41..44 => top.name = BootSteps[boot].name
  BY <1>1, <1>2 DEF FirstCall
<1>7. ASSUME boot' > 41 PROVE LoadedOk(classes', globals, known'["Block"], "Block")
  <2>1. CASE boot = 41
    <3>1. top.name = "Block"
      BY <1>6, <2>1, NamesOfSteps
    <3>2. known'["Block"] = top.class
      BY <1>4, <3>1
    <3>3. QED BY <1>1, <1>3, <1>4, <2>1, <3>1, <3>2, LoadedAtBoot
  <2>2. CASE boot # 41
    <3>1. boot \in 42..44 /\ boot > 41
      BY <1>2, <1>7, <2>2
    <3>2. boot = 42 \/ boot = 43 \/ boot = 44
      BY <3>1
    <3>3. top.name \in {"True", "False", "System"}
      BY <1>6, <3>2, NamesOfSteps
    <3>4. known'["Block"] = known["Block"]
      BY <1>4, <3>3
    <3>5. LoadedOk(classes, globals, known["Block"], "Block")
      BY <1>1, <3>1 DEF KnownBound
    <3>6. QED BY <1>4, <3>4, <3>5, KeepsLoaded
  <2>3. QED BY <2>1, <2>2
<1>8. ASSUME boot' > 44 PROVE LoadedOk(classes', globals, known'["System"], "System")
  <2>1. boot = 44
    BY <1>2, <1>8
  <2>2. top.name = "System"
    BY <1>6, <2>1, NamesOfSteps
  <2>3. known'["System"] = top.class
    BY <1>4, <2>2
  <2>4. QED BY <1>1, <1>3, <1>4, <2>1, <2>2, <2>3, LoadedAtBoot
<1>9. KnownBound'
  <2>1. globals' = globals
    BY <1>4
  <2>2. QED BY <1>5, <1>7, <1>8, <2>1 DEF KnownBound
<1>10. QED BY <1>1, <1>9 DEF RestInv

LEMMA ClosedButMore ==
  ASSUME NEW cs, NEW gs, NEW s, ClosedBut(cs, gs, None)
  PROVE  ClosedBut(cs, gs, s)
BY DEF ClosedBut

\* No call goes on: the globals and the request are what counts.
LEMMA IdleAgain ==
  ASSUME outcome' = "running", loads' = << >>, GlobalsBound(classes', globals'), "Block" \in DOMAIN globals',
         RequestNamed(request'), Putting(request') => PutReady(classes', globals', request'),
         ~Putting(request') => ClosedBut(classes', globals', None)
  PROVE  RestInv'
<1>1. CallsReady(classes', globals', loads')
  BY DEF CallsReady
<1>2. ProgramOk(classes', globals', loads', request')
  BY <1>1 DEF ProgramOk
<1>3. QED BY <1>2 DEF RestInv

LEMMA ReturnBlock ==
  ASSUME Ready, Binding, Keeps(classes, classes'), UNCHANGED <<outcome, request>>, outcome = "running",
         loads' = << >>, top.how = "block", Bind(top.name, top.class)
  PROVE  RestInv'
<1> DEFINE c == top.class
           s == classes[c].super
<1>1. /\ loads # << >> /\ top.pc = "primitives" /\ Base /\ AllRoutinesOk(classes) /\ boot >= 28
      /\ RequestNamed(request)
  BY DEF Binding, Ready, Before, Base, RoutinesInv, RestInv
<1>2. /\ Len(loads) = 1 /\ top.name \in BlockNames /\ top = loads[1]
  BY <1>1, TopIsBlock DEF top
<1>3. /\ ~Putting(request) /\ ClosedBut(classes, globals, None) /\ GlobalsBound(classes, globals)
      /\ "Block" \in DOMAIN globals /\ loads[1].name \notin DOMAIN globals
      /\ TopReady(classes, globals, NamesUpTo(loads, Len(loads)), top)
  BY <1>1, NotPutting
<1>4. GlobalIn(classes, globals, s) /\ BlockReady(classes, top.class, top.name)
  BY <1>1, <1>3 DEF TopReady, Continues
<1>5. BothCallable(classes', c) /\ classes[c].name = top.name
  BY <1>1, <1>2, <1>4, BindingFields DEF BlockReady
<1>6. Sound(classes, globals) /\ c \in Instances(classes)
  BY <1>1, SoundNow, BindingSame
<1>7. classes'[c].name = top.name /\ classes'[c].super = s
  BY <1>5, <1>6 DEF Keeps, Sound
<1>8. classes'[c].super = None \/ GlobalIn(classes', globals, classes'[c].super)
  <2>1. s = None \/ s \in DOMAIN classes
    BY <1>6 DEF Sound
  <2> HIDE DEF s, c
  <2>2. QED BY <1>4, <1>7, <2>1, KeepsGlobal
<1>9. BoundTo(globals, globals', top.name, c)
  BY <1>2, <1>3, BindIs
<1>10. GlobalsBound(classes', globals) /\ ClosedBut(classes', globals, None)
  BY <1>3, <1>6, KeepsBound, KeepsClosed
<1> HIDE DEF c, s
<1>11. GlobalsBound(classes', globals') /\ ClosedBut(classes', globals', None)
  BY <1>5, <1>7, <1>8, <1>9, <1>10, BoundBound, BoundClosed
<1>12. "Block" \in DOMAIN globals'
  BY <1>3, <1>9 DEF BoundTo
<1>13. request' = request /\ outcome' = "running"
  OBVIOUS
<1>14. QED BY <1>1, <1>3, <1>11, <1>12, <1>13, IdleAgain

LEMMA ReturnClass ==
  ASSUME Ready, Binding, Keeps(classes, classes'), UNCHANGED <<outcome, globals>>, outcome = "running",
         loads' = << >>, Len(loads) = 1, top.how # "block",
         request' = [request EXCEPT !.class = top.class, !.pc = "loaded"]
  PROVE  RestInv'
<1>1. /\ loads # << >> /\ Base /\ boot >= 28 /\ RequestNamed(request) /\ LinkInv
  BY DEF Binding, Ready, Before, Base, RoutinesInv, RestInv
<1>2. ClosedBut(classes, globals, None) /\ GlobalsBound(classes, globals) /\ "Block" \in DOMAIN globals
  BY <1>1, NotPutting
<1>3. Sound(classes, globals)
  BY <1>1, SoundNow
<1>4. GlobalsBound(classes', globals) /\ ClosedBut(classes', globals, None)
  BY <1>2, <1>3, KeepsBound, KeepsClosed
<1>5. request'.op = request.op /\ request'.name = request.name /\ request'.class = top.class
  BY <1>1 DEF LinkInv, Referring
<1>6. RequestNamed(request')
  BY <1>1, <1>5 DEF RequestNamed
<1>7. HasTrail(classes', globals, {}, top.class)
  <2>1. NamesUpTo(loads, 1 - 1) = {}
    BY DEF NamesUpTo
  <2> DEFINE n == 1
  <2>2. n \in Nat /\ n = Len(loads) /\ NamesUpTo(loads, n - 1) = {}
    BY <2>1
  <2> HIDE DEF n
  <2>3. QED BY <2>2, ReturnedTrail
<1>8. PutReady(classes', globals, request')
  BY <1>4, <1>5, <1>7, ClosedButMore DEF PutReady
<1>9. globals' = globals /\ outcome' = "running"
  OBVIOUS
<1>10. QED BY <1>2, <1>4, <1>6, <1>8, <1>9, IdleAgain

LEMMA ReturnRest ==
  ASSUME LibraryFits, Ready, StatesInv, Return
  PROVE  RestInv'
<1>1. Base /\ Before /\ SystemKnown /\ RestInv /\ LoadInv /\ CallsInv
  <2>1. [Next]_vars
    BY DEF Next
  <2>2. Changed
    BY <2>1, StepChanges DEF Ready
  <2>3. QED BY <2>2 DEF Changed, Ready, Before, Base, LoadInv, RoutinesInv
<1>2. CASE outcome' = "quit"
  BY <1>2, RestFails
<1>3. CASE /\ Binding /\ UNCHANGED outcome
           /\ IF top.how = "block" THEN Bind(top.name, top.class) ELSE UNCHANGED globals
  <2>1. Keeps(classes, classes')
    <3>1. [Next]_vars
      BY DEF Next
    <3>2. ~Filling
      BY <1>3 DEF Filling, Binding
    <3>3. QED BY <3>1, <3>2, ClassesKeepStep
  <2>2. loads # << >> /\ Going
    BY <1>1, ReturnChange
  <2>3. CASE /\ Len(loads) > 1 /\ UNCHANGED <<boot, known, singletons, request>>
             /\ loads' = Append(SubSeq(loads, 1, Len(loads) - 2),
                             [loads[Len(loads) - 1] EXCEPT !.super = top.class, !.pc = "assemble"])
    <3>1. top.how # "block"
      <4>1. Len(loads) \in DOMAIN loads /\ Len(loads) # 1
        BY <1>1, <2>2, <2>3, Measured DEF CallsInv
      <4>2. QED BY <1>1, <4>1 DEF CallsInv, BlockCallsOk, top
    <3>2. UNCHANGED globals
      BY <1>3, <3>1
    <3>3. QED BY <1>3, <2>1, <2>3, <3>2, ReturnInner
  <2>4. CASE /\ Len(loads) = 1 /\ outcome = "booting" /\ boot' = boot + 1 /\ UNCHANGED request
             /\ known' = IF top.name \in {"Block", "System"} THEN [known EXCEPT ![top.name] = top.class] ELSE known
    BY <1>1, <1>3, <2>1, <2>4, ReturnBooting
  <2>5. CASE /\ Len(loads) = 1 /\ loads' = << >> /\ outcome # "booting"
             /\ request' = IF top.how = "block" THEN request
                           ELSE [request EXCEPT !.class = top.class, !.pc = "loaded"]
    <3>1. outcome = "running"
      BY <1>1, <2>2, <2>5 DEF Going, RestInv
    <3>2. CASE top.how = "block"
      BY <1>3, <2>1, <2>5, <3>1, <3>2, ReturnBlock
    <3>3. CASE top.how # "block"
      BY <1>3, <2>1, <2>5, <3>1, <3>3, ReturnClass
    <3>4. QED BY <3>2, <3>3
  <2>6. QED
    <3>1. outcome' # "quit"
      BY <1>3, <2>2 DEF Going
    <3>3. \/ Len(loads) > 1 /\ UNCHANGED <<boot, known, singletons, request>>
             /\ loads' = Append(SubSeq(loads, 1, Len(loads) - 2),
                             [loads[Len(loads) - 1] EXCEPT !.super = top.class, !.pc = "assemble"])
          \/ /\ Len(loads) = 1 /\ outcome = "booting" /\ boot' = boot + 1 /\ UNCHANGED request
             /\ known' = IF top.name \in {"Block", "System"} THEN [known EXCEPT ![top.name] = top.class] ELSE known
          \/ /\ Len(loads) = 1 /\ loads' = << >> /\ outcome # "booting"
             /\ request' = IF top.how = "block" THEN request
                           ELSE [request EXCEPT !.class = top.class, !.pc = "loaded"]
      BY <1>1, <3>1, ReturnChange
    <3>4. QED BY <2>3, <2>4, <2>5, <3>3
<1>4. QED BY <1>1, <1>2, <1>3, ReturnChange

\* Two globals of classes are added when the start is over.
Finished(gs, hs, b, s) ==
  /\ DOMAIN gs \subseteq DOMAIN hs /\ {"Block", "System"} \subseteq DOMAIN hs
  /\ hs["Block"] = b /\ hs["System"] = s
  /\ \A n \in DOMAIN hs : hs[n] > 0 => n \in {"Block", "System"} \/ (n \in DOMAIN gs /\ hs[n] = gs[n])
  /\ \A i \in 1..13 : SystemName(i) \in DOMAIN gs => hs[SystemName(i)] = gs[SystemName(i)]

LEMMA FinishingAdds ==
  ASSUME Finishing
  PROVE  Finished(globals, globals', known["Block"], known["System"])
<1>1. DOMAIN globals' = DOMAIN globals \cup SystemGlobals
  BY DEF Finishing
<1>2. {"Block", "System"} \subseteq DOMAIN globals'
  BY <1>1 DEF SystemGlobals
<1>3. globals'["Block"] = known["Block"] /\ globals'["System"] = known["System"]
  BY <1>1, <1>2 DEF Finishing
<1>4. ASSUME NEW n \in DOMAIN globals', globals'[n] > 0
      PROVE  n \in {"Block", "System"} \/ (n \in DOMAIN globals /\ globals'[n] = globals[n])
  <2>1. CASE n = "nil"
    <3>1. globals'[n] = nil
      BY <1>1, <2>1 DEF Finishing
    <3>2. QED BY <1>4, <3>1 DEF nil
  <2>2. CASE n \in {"true", "false", "system"}
    <3>1. globals'[n] = NotAClass
      BY <1>1, <2>2 DEF Finishing
    <3>2. QED BY <1>4, <3>1 DEF NotAClass
  <2>3. CASE n \notin {"nil", "true", "false", "system", "System", "Block"}
    BY <1>1, <2>3 DEF Finishing, SystemGlobals
  <2>4. QED BY <2>1, <2>2, <2>3
<1>5. ASSUME NEW i \in 1..13, SystemName(i) \in DOMAIN globals
      PROVE  globals'[SystemName(i)] = globals[SystemName(i)]
  <2> DEFINE n == SystemName(i)
  <2>1. n \notin {"nil", "true", "false", "system", "System", "Block"}
    BY SystemNames DEF SystemName
  <2>2. n \in DOMAIN globals'
    BY <1>1, <1>5
  <2> HIDE DEF n
  <2>3. globals'[n] = globals[n]
    BY <1>1, <2>1, <2>2 DEF Finishing
  <2>4. QED BY <2>3 DEF n
<1>6. QED BY <1>1, <1>2, <1>3, <1>4, <1>5 DEF Finished

LEMMA FinishingBound ==
  ASSUME Ready, Finishing
  PROVE  GlobalsBound(classes, globals') /\ ClosedBut(classes, globals', None) /\ "Block" \in DOMAIN globals'
<1>1. /\ Base /\ boot = 45 /\ outcome = "booting" /\ KnownBound /\ SystemGlobals13 /\ BindingsInv /\ boot >= 28
      /\ Sound(classes, globals) /\ \A c \in Instances(classes) : c > 0
  <2>1. Base /\ boot = 45 /\ outcome = "booting" /\ BootInv /\ RestInv
    BY DEF Ready, Before, Finishing, RoutinesInv
  <2>2. boot >= 28 /\ ClassObjects(classes)
    BY <2>1 DEF Base, LinkInv
  <2>3. QED
    BY <2>1, <2>2, SoundNow, ClassesPositive DEF Base, LoadInv, BootInv, SystemGlobals13, RestInv
<1>2. /\ LoadedOk(classes, globals, known["Block"], "Block") /\ LoadedOk(classes, globals, known["System"], "System")
      /\ \A i \in 1..13 : BothCallable(classes, known[SystemName(i)])
  <2>1. \A i \in 1..13 : i + 27 < boot
    BY <1>1
  <2>2. boot > 41 /\ boot > 44
    BY <1>1
  <2>3. QED BY <1>1, <2>1, <2>2 DEF KnownBound
<1>3. ASSUME NEW n \in DOMAIN globals, globals[n] > 0
      PROVE  \E i \in 1..13 : n = SystemName(i)
  BY <1>1, <1>3 DEF BindingsInv, SystemName
<1>4. Finished(globals, globals', known["Block"], known["System"])
  BY FinishingAdds
<1>5. ASSUME NEW c \in Instances(classes), GlobalIn(classes, globals, c) PROVE GlobalIn(classes, globals', c)
  <2> DEFINE n == classes[c].name
  <2>1. n \in DOMAIN globals /\ globals[n] = c /\ c > 0
    BY <1>1, <1>5 DEF GlobalIn
  <2>2. PICK i \in 1..13 : n = SystemName(i)
    BY <1>3, <2>1
  <2>3. globals'[n] = c /\ n \in DOMAIN globals'
    BY <1>4, <2>1, <2>2 DEF Finished
  <2>4. QED BY <2>3 DEF GlobalIn
<1>6. ASSUME NEW i \in 1..13
      PROVE  LET c == known[SystemName(i)]
             IN  /\ globals[SystemName(i)] = c /\ classes[c].name = SystemName(i) /\ BothCallable(classes, c)
                 /\ c \in Instances(classes) /\ GlobalIn(classes, globals, c)
  <2>1. SystemGlobal(i)
    BY <1>1 DEF SystemGlobals13
  <2>2. /\ globals[SystemName(i)] = known[SystemName(i)] /\ SystemName(i) \in DOMAIN globals
        /\ classes[known[SystemName(i)]].name = SystemName(i)
    BY <2>1 DEF SystemGlobal, SystemLinked, SystemName
  <2>3. known[SystemName(i)] \in Instances(classes)
    <3>1. PICK j \in 1..13 : SystemName(i) = AllocationOrder[j]
      BY NamesAllocated, Zenon DEF SystemName
    <3>2. known[AllocationOrder[j]] = 2 * j /\ 2 * j \in Instances(classes)
      BY <1>1, SystemPairs
    <3>3. QED BY <3>1, <3>2
  <2>4. GlobalIn(classes, globals, known[SystemName(i)])
    BY <2>2 DEF GlobalIn
  <2>5. QED BY <1>2, <2>2, <2>3, <2>4
<1>7. ASSUME NEW n \in DOMAIN globals', globals'[n] > 0
      PROVE  \/ n \in {"Block", "System"} /\ LoadedOk(classes, globals, globals'[n], n)
             \/ \E i \in 1..13 : n = SystemName(i) /\ globals'[n] = known[SystemName(i)]
  <2>1. CASE n \in {"Block", "System"}
    BY <1>2, <1>4, <2>1 DEF Finished
  <2>2. CASE n \notin {"Block", "System"}
    <3>1. n \in DOMAIN globals /\ globals'[n] = globals[n]
      BY <1>4, <1>7, <2>2 DEF Finished
    <3>2. QED BY <1>3, <1>6, <1>7, <3>1
  <2>3. QED BY <2>1, <2>2
<1>8. ASSUME NEW n \in DOMAIN globals', globals'[n] > 0
      PROVE  classes[globals'[n]].name = n /\ BothCallable(classes, globals'[n])
  BY <1>6, <1>7, <1>8 DEF LoadedOk
<1>9. ASSUME NEW n \in DOMAIN globals', globals'[n] > 0
      PROVE  classes[globals'[n]].super = None \/ GlobalIn(classes, globals', classes[globals'[n]].super)
  <2> DEFINE c == globals'[n]
  <2>1. c \in Instances(classes) /\ (classes[c].super = None \/ GlobalIn(classes, globals, classes[c].super))
    <3>1. CASE LoadedOk(classes, globals, globals'[n], n)
      BY <3>1 DEF LoadedOk
    <3>2. CASE \E i \in 1..13 : n = SystemName(i) /\ globals'[n] = known[SystemName(i)]
      <4>1. PICK i \in 1..13 : c = known[SystemName(i)]
        BY <3>2
      <4>2. classes[c].super = None \/ \E k \in 1..13 : classes[c].super = known[SystemName(k)]
        BY <1>1, <4>1, SystemSupers
      <4> HIDE DEF c
      <4>3. QED BY <1>6, <4>1, <4>2
    <3>3. QED BY <1>7, <1>9, <3>1, <3>2
  <2> HIDE DEF c
  <2>2. classes[c].super # None => classes[c].super \in Instances(classes)
    BY <1>1, <2>1 DEF Sound
  <2>3. classes[c].super = None \/ GlobalIn(classes, globals', classes[c].super)
    BY <1>5, <2>1, <2>2
  <2>4. QED BY <2>3 DEF c
<1>10. GlobalsBound(classes, globals') /\ ClosedBut(classes, globals', None)
  BY <1>8, <1>9 DEF GlobalsBound, ClosedBut
<1>11. QED BY <1>4, <1>10 DEF Finished

LEMMA BootRest ==
  ASSUME Ready, Boot
  PROVE  RestInv'
<1>1. /\ Base /\ boot >= 28 /\ outcome = "booting" /\ loads = << >> /\ UNCHANGED request
      /\ KnownBound /\ request.op = "none"
  BY DEF Ready, Before, Boot, RoutinesInv, RestInv
<1>2. UNCHANGED <<classes, known>>
  BY <1>1, BootChange
<1>3. CASE UNCHANGED <<globals, boot, outcome>>
  <2>1. KnownBound'
    BY <1>1, <1>2, <1>3, SameKeeps, KnownKeeps
  <2>2. QED BY <1>1, <1>3, <2>1 DEF RestInv
<1>4. CASE Finishing
  <2>1. GlobalsBound(classes', globals') /\ ClosedBut(classes', globals', None) /\ "Block" \in DOMAIN globals'
    BY <1>2, <1>4, FinishingBound
  <2>2. loads' = << >> /\ outcome' \in {"shell", "crashed", "running"} /\ request' = request
    BY <1>1, <1>4 DEF Finishing
  <2>3. ~Putting(request') /\ RequestNamed(request')
    BY <1>1, <2>2 DEF Putting, RequestNamed
  <2>4. CASE outcome' = "running"
    BY <2>1, <2>2, <2>3, <2>4, IdleAgain
  <2>5. CASE outcome' = "shell"
    BY <2>1, <2>2, <2>5 DEF RestInv
  <2>6. CASE outcome' = "crashed"
    BY <2>6, RestFails
  <2>7. QED BY <2>2, <2>4, <2>5, <2>6
<1>5. QED BY <1>1, <1>3, <1>4, BootChange DEF Finishing

LEMMA WhileIdle ==
  ASSUME Ready, outcome = "running", loads = << >>
  PROVE  /\ GlobalsBound(classes, globals) /\ "Block" \in DOMAIN globals /\ RequestNamed(request)
         /\ Putting(request) => PutReady(classes, globals, request)
         /\ ~Putting(request) => ClosedBut(classes, globals, None)
BY DEF Ready, RoutinesInv, RestInv, ProgramOk

\* A request that ends, or another that begins.
LEMMA RequestChanges ==
  ASSUME Ready, outcome = "running", loads = << >>, UNCHANGED <<classes, globals, loads, outcome>>,
         ~Putting(request), ~Putting(request'), RequestNamed(request')
  PROVE  RestInv'
<1>1. /\ GlobalsBound(classes, globals) /\ "Block" \in DOMAIN globals /\ ClosedBut(classes, globals, None)
  BY WhileIdle
<1>2. classes' = classes /\ globals' = globals /\ outcome' = "running" /\ loads' = << >>
  OBVIOUS
<1>3. QED BY <1>1, <1>2, IdleAgain

\* A class is looked for.
LEMMA CallBegins ==
  ASSUME Ready, outcome = "running", loads = << >>, NEW name, NEW how, name \notin DOMAIN globals,
         how = "block" => name \in BlockNames, loads' = <<Call(name, how, None)>>, ~Putting(request),
         UNCHANGED <<boot, known, classes, globals, outcome, request>>
  PROVE  RestInv'
<1> DEFINE c == Call(name, how, None)
<1>1. c.name = name /\ c.how = how /\ c.pc = "find"
  BY NewCall
<1>2. loads' = <<c>>
  OBVIOUS
<1> HIDE DEF c
<1>3. Len(loads') = 1 /\ loads'[1] = c /\ IsSeq(loads')
  BY <1>2, Single
<1>4. loads' # << >>
  BY <1>3, NoneYet
<1>5. TopReady(classes', globals, NamesUpTo(loads', Len(loads')), loads'[Len(loads')])
  BY <1>1, <1>3 DEF TopReady
<1>6. CallsReady(classes', globals, loads')
  BY <1>1, <1>3, <1>4, <1>5 DEF CallsReady
<1>7. QED BY <1>6, SameKeeps, CallsMove

LEMMA NoRequestIs == NoRequest.op = "none" /\ NoRequest.pc = ""
BY DEF NoRequest

LEMMA AskRest ==
  ASSUME Ready, Ask
  PROVE  RestInv'
<1>1. /\ outcome = "running" /\ loads = << >> /\ request.op = "none"
      /\ UNCHANGED <<classes, globals, loads, outcome>>
  BY DEF Ask, Idle
<1>2. PICK op, name : Asked(op, name) /\ (op = "block" => \E n \in 1..3 : name = BlockName(n))
  BY DEF Ask
<1>3. request'.op = op /\ request'.name = name /\ request'.pc = "asked"
  BY <1>2 DEF Asked
<1>4. ~Putting(request') /\ RequestNamed(request')
  BY <1>2, <1>3 DEF Putting, RequestNamed, BlockNames
<1>5. ~Putting(request)
  BY <1>1 DEF Putting
<1>6. QED BY <1>1, <1>4, <1>5, RequestChanges

LEMMA LoadRest ==
  ASSUME Ready, GetBlockClassWithArgs \/ Load \/ Loaded
  PROVE  RestInv'
<1>1. /\ outcome = "running" /\ loads = << >> /\ request.op \in {"block", "load"}
      /\ UNCHANGED <<boot, known, classes, globals, outcome>>
  BY DEF GetBlockClassWithArgs, Load, Loaded, Running
<1>2. ~Putting(request) /\ RequestNamed(request)
  BY <1>1, WhileIdle DEF Putting
<1>3. CASE Answered /\ UNCHANGED loads
  <2>1. ~Putting(request') /\ RequestNamed(request')
    BY <1>3, NoRequestIs DEF Answered, Putting, RequestNamed
  <2>2. QED BY <1>1, <1>2, <1>3, <2>1, RequestChanges
<1>4. CASE ~HasGlobal(request.name) /\ UNCHANGED request
  <2>1. request.name \notin DOMAIN globals
    BY <1>4 DEF HasGlobal
  <2>2. CASE GetBlockClassWithArgs
    <3>1. loads' = <<Call(request.name, "block", None)>> /\ request.name \in BlockNames
      BY <1>2, <1>4, <2>2 DEF GetBlockClassWithArgs, Running, RequestNamed
    <3>2. QED BY <1>1, <1>2, <1>4, <2>1, <3>1, CallBegins
  <2>3. CASE Load
    <3>1. loads' = <<Call(request.name, "class", None)>>
      BY <1>4, <2>3 DEF Load
    <3>2. "class" # "block"
      OBVIOUS
    <3>3. QED BY <1>1, <1>2, <1>4, <2>1, <3>1, <3>2, CallBegins
  <2>4. CASE Loaded
    <3>1. Answered /\ UNCHANGED loads
      BY <2>4 DEF Loaded
    <3>2. QED BY <1>3, <3>1
  <2>5. QED BY <2>2, <2>3, <2>4
<1>5. QED BY <1>3, <1>4 DEF GetBlockClassWithArgs, Load, Loaded

LEMMA ResolveRest ==
  ASSUME Ready, BlocksForResolve \/ Look
  PROVE  RestInv'
<1>1. /\ outcome = "running" /\ loads = << >> /\ request.op = "resolve" /\ request.pc \in {"asked", "look"}
      /\ UNCHANGED <<boot, known, classes, globals>> /\ LinkInv
  BY DEF BlocksForResolve, Look, Running, Ready, Before, Base
<1>2. ~Putting(request)
  BY <1>1 DEF Putting
<1>3. CASE Answered /\ UNCHANGED <<loads, outcome>>
  <2>1. ~Putting(request') /\ RequestNamed(request')
    BY <1>3, NoRequestIs DEF Answered, Putting, RequestNamed
  <2>2. QED BY <1>1, <1>2, <1>3, <2>1, RequestChanges
<1>4. CASE request' = [request EXCEPT !.pc = "look"] /\ UNCHANGED <<loads, outcome>>
  <2>1. request'.op = request.op /\ request'.pc = "look"
    BY <1>1, <1>4 DEF LinkInv, Referring
  <2>2. ~Putting(request') /\ RequestNamed(request')
    BY <1>1, <2>1 DEF Putting, RequestNamed
  <2>3. QED BY <1>1, <1>2, <1>4, <2>2, RequestChanges
<1>5. CASE "Block1" \notin DOMAIN globals /\ loads' = <<Call("Block1", "block", None)>> /\ UNCHANGED <<request, outcome>>
  <2>1. "Block1" \in BlockNames
    BY BlockNamesAre
  <2>2. QED BY <1>1, <1>2, <1>5, <2>1, CallBegins
<1>6. CASE /\ request.name \notin DOMAIN globals /\ loads' = <<Call(request.name, "class", None)>>
           /\ UNCHANGED <<request, outcome>>
  <2>1. "class" # "block"
    OBVIOUS
  <2>2. QED BY <1>1, <1>2, <1>6, <2>1, CallBegins
<1>7. CASE Failed("error")
  BY <1>7, RestFails DEF Failed
<1>8. CASE BlocksForResolve
  BY <1>4, <1>5, <1>8 DEF BlocksForResolve, HasGlobal
<1>9. CASE Look
  BY <1>3, <1>6, <1>7, <1>9 DEF Look, HasGlobal
<1>10. QED BY <1>8, <1>9

LEMMA PutGlobalsRest ==
  ASSUME Ready, PutGlobals
  PROVE  RestInv'
<1> DEFINE c == request.class
           name == classes[c].name
           s == classes[c].super
<1>1. /\ outcome = "running" /\ loads = << >> /\ request.op = "resolve" /\ request.pc = "loaded"
      /\ UNCHANGED <<boot, known, classes, loads, outcome>> /\ LinkInv /\ Base /\ boot >= 28
  BY DEF PutGlobals, Running, Ready, Before, Base
<1>2. Putting(request)
  BY <1>1 DEF Putting
<1>3. /\ GlobalsBound(classes, globals) /\ "Block" \in DOMAIN globals /\ RequestNamed(request)
      /\ ClosedBut(classes, globals, c) /\ HasTrail(classes, globals, {}, c)
  BY <1>1, <1>2, WhileIdle DEF PutReady
<1>4. PICK T : Trail(classes, globals, T, {}, c)
  BY <1>3 DEF HasTrail
<1>5. BothCallable(classes, c) /\ (name \in DOMAIN globals => globals[name] = c) /\ c \in Instances(classes)
  BY <1>4 DEF Trail
<1>6. s = None => name \in DOMAIN globals
  BY <1>1, <1>5 DEF LinkInv, Hierarchy, Linked
<1>7. CASE name \in DOMAIN globals /\ Answered /\ UNCHANGED globals
  <2>1. GlobalIn(classes, globals, c)
    BY <1>5, <1>7 DEF GlobalIn
  <2>2. ClosedBut(classes, globals, None)
    BY <1>3, <2>1 DEF ClosedBut
  <2>3. ~Putting(request') /\ RequestNamed(request')
    BY <1>7, NoRequestIs DEF Answered, Putting, RequestNamed
  <2>4. classes' = classes /\ globals' = globals /\ outcome' = "running" /\ loads' = << >>
    BY <1>1, <1>7
  <2>5. QED BY <1>3, <2>2, <2>3, <2>4, IdleAgain
<1>8. CASE name \notin DOMAIN globals /\ Bind(name, c) /\ request' = [request EXCEPT !.class = s]
  <2>1. request'.op = request.op /\ request'.name = request.name /\ request'.class = s
    BY <1>1, <1>8 DEF LinkInv, Referring
  <2>2. RequestNamed(request')
    BY <1>3, <2>1 DEF RequestNamed
  <2>3. BoundTo(globals, globals', name, c)
    BY <1>8, BindIs
  <2>4. s # None
    BY <1>6, <1>8
  <2>5. HasTrail(classes, globals', {}, s)
    BY <1>3, <2>3, <2>4, BoundTrail
  <2> DEFINE n == name
  <2>6. BoundTo(globals, globals', n, c) /\ classes[c].name = n
    BY <2>3
  <2>7. "Block" \in DOMAIN globals'
    BY <1>3, <2>3 DEF BoundTo
  <2> HIDE DEF n, c
  <2>8. GlobalsBound(classes, globals')
    BY <1>3, <1>5, <2>6, BoundBound
  <2>9. ClosedBut(classes, globals', s)
    BY <1>3, <2>6, BoundClosed
  <2>10. PutReady(classes, globals', request')
    BY <2>1, <2>5, <2>9 DEF PutReady
  <2>11. classes' = classes /\ outcome' = "running" /\ loads' = << >>
    BY <1>1
  <2>12. Putting(request')
    <3>1. request'.pc = request.pc
      BY <1>1, <1>8 DEF LinkInv, Referring
    <3>2. QED BY <1>2, <2>1, <3>1 DEF Putting
  <2>13. QED BY <2>2, <2>7, <2>8, <2>10, <2>11, <2>12, IdleAgain
<1>9. QED BY <1>7, <1>8 DEF PutGlobals, HasGlobal

LEMMA ReadLineRest ==
  ASSUME LibraryFits, Ready, ReadLine
  PROVE  RestInv'
<1>1. /\ outcome = "shell" /\ loads = << >> /\ UNCHANGED <<globals, loads>> /\ Base /\ boot >= 28
      /\ GlobalsBound(classes, globals) /\ "Block" \in DOMAIN globals /\ ClosedBut(classes, globals, None)
  BY DEF ReadLine, Ready, Before, RoutinesInv, RestInv
<1>2. Keeps(classes, classes')
  <2>1. [Next]_vars
    BY DEF Next
  <2>2. ~Filling
    BY <1>1 DEF Filling
  <2>3. QED BY <2>1, <2>2, ClassesKeepStep
<1>3. GlobalsBound(classes', globals) /\ ClosedBut(classes', globals, None)
  BY <1>1, <1>2, SoundNow, KeepsBound, KeepsClosed
<1>4. outcome' \in {"ended", "shell"}
  BY <1>1 DEF ReadLine
<1>5. globals' = globals /\ loads' = << >>
  BY <1>1
<1>6. CASE outcome' = "shell"
  BY <1>1, <1>3, <1>5, <1>6 DEF RestInv
<1>7. CASE outcome' = "ended"
  BY <1>7, RestFails
<1>8. QED BY <1>4, <1>6, <1>7

LEMMA NothingRest ==
  ASSUME RestInv, UNCHANGED vars
  PROVE  RestInv'
<1>1. /\ boot' = boot /\ known' = known /\ classes' = classes /\ globals' = globals /\ loads' = loads
      /\ request' = request /\ outcome' = outcome
  BY DEF vars
<1>2. KnownBound => KnownBound'
  BY <1>1 DEF KnownBound
<1>3. QED BY <1>1, <1>2 DEF RestInv

LEMMA RestStep ==
  ASSUME LibraryFits, Ready, StatesInv, [Next]_vars
  PROVE  RestInv'
<1>1. outcome # "starting" /\ RestInv
  BY DEF Ready, Before, BootInv, Outcomes, RoutinesInv
<1>2. CASE NotFound
  BY <1>2, RestFails DEF NotFound, Failed
<1>3. CASE HandleArgument \/ ArgumentsHandled
  BY <1>1, <1>3 DEF HandleArgument, ArgumentsHandled
<1>4. CASE UNCHANGED vars
  BY <1>1, <1>4, NothingRest
<1>5. CASE GetBlockClassWithArgs \/ Load \/ Loaded
  BY <1>5, LoadRest
<1>6. CASE BlocksForResolve \/ Look
  BY <1>6, ResolveRest
<1>7. QED
  BY <1>2, <1>3, <1>4, <1>5, <1>6, BootRest, OpenFileRest, LoadSuperClassRest, AssembleRest, ReturnRest,
     AskRest, PutGlobalsRest, ReadLineRest DEF Next

LEMMA GlobalNamesStep ==
  ASSUME Ready, StatesInv, [Next]_vars, RestInv'
  PROVE  GlobalNames'
<1>1. /\ Base /\ GlobalNames /\ Before /\ Changed
  BY StepChanges DEF Ready, Before, RoutinesInv
<1>2. \A c \in DOMAIN classes : classes'[c].name = classes[c].name
  BY <1>1 DEF Changed, OldClasses
<1>3. CASE UNCHANGED globals
  <2>1. \A n \in DOMAIN globals : globals[n] > 0 => globals[n] \in DOMAIN classes
    BY <1>1 DEF Base, LinkInv, Referring, Instances
  <2>2. QED BY <1>1, <1>2, <1>3, <2>1 DEF GlobalNames
<1>4. CASE outcome' \in {"running", "shell"}
  BY <1>4 DEF RestInv, GlobalsBound, GlobalNames
<1>5. CASE Finishing
  <2>1. GlobalsBound(classes, globals')
    BY <1>5, FinishingBound
  <2>2. classes' = classes
    BY <1>5 DEF Finishing
  <2>3. QED BY <2>1, <2>2 DEF GlobalsBound, GlobalNames
<1>6. UNCHANGED globals \/ Finishing \/ outcome' \in {"running", "shell"}
  <2>1. CASE Boot
    BY <1>1, <2>1, BootChange DEF Finishing, Boot, Before
  <2>2. CASE Return
    <3>1. CASE top.how = "block" /\ UNCHANGED outcome
      <4>1. outcome # "booting" /\ Going
        <5>1. loads # << >> /\ CallsInv /\ Going
          BY <1>1, <2>2, ReturnChange DEF Base, LoadInv
        <5>2. Len(loads) \in DOMAIN loads
          BY <5>1, Measured DEF CallsInv
        <5>3. QED BY <3>1, <5>1, <5>2 DEF CallsInv, top
      <4>2. QED BY <3>1, <4>1 DEF Going
    <3>2. CASE ~(top.how = "block" /\ UNCHANGED outcome)
      BY <2>2, <3>2 DEF Return
    <3>3. QED BY <3>1, <3>2
  <2>3. CASE PutGlobals
    BY <2>3, Zenon DEF PutGlobals, Running
  <2>4. CASE HandleArgument \/ ArgumentsHandled \/ OpenFile \/ NotFound \/ LoadSuperClass \/ Assemble
             \/ UNCHANGED vars
    BY <2>4, Zenon DEF HandleArgument, ArgumentsHandled, OpenFile, NotFound, LoadSuperClass, Assemble, vars
  <2>5. CASE Ask \/ GetBlockClassWithArgs \/ Load \/ Loaded \/ BlocksForResolve \/ Look \/ ReadLine
    BY <2>5 DEF Ask, GetBlockClassWithArgs, Load, Loaded, BlocksForResolve, Look, ReadLine
  <2>6. QED BY <2>1, <2>2, <2>3, <2>4, <2>5 DEF Next
<1>7. QED BY <1>3, <1>4, <1>5, <1>6

LEMMA RoutinesStep ==
  ASSUME LibraryFits, Ready, StatesInv, [Next]_vars
  PROVE  RoutinesInv'
<1>1. AllRoutinesOk(classes')
  BY ClassesKeepStep
<1>2. RestInv'
  BY RestStep
<1>3. GlobalNames'
  BY <1>2, GlobalNamesStep
<1>4. QED BY <1>1, <1>2, <1>3 DEF RoutinesInv

LaterInv == Before /\ NoSystemInv /\ StatesInv /\ FieldsInv /\ RoutinesInv

\* Classes with their superclasses and what can be sent to their instances.
Sendable(cs, U) ==
  /\ U \subseteq Instances(cs)
  /\ \A u \in U : BothCallable(cs, u) /\ (cs[u].super = None \/ cs[u].super \in U)

LEMMA GlobalsSendable ==
  ASSUME NEW cs, NEW gs, Sound(cs, gs), \A c \in Instances(cs) : c > 0, GlobalsBound(cs, gs),
         NEW s, ClosedBut(cs, gs, s), NEW T, Sendable(cs, T), s = None \/ s \in T
  PROVE  \E U : Sendable(cs, U) /\ \A n \in DOMAIN gs : gs[n] > 0 => gs[n] \in U
<1> DEFINE G == {c \in Instances(cs) : GlobalIn(cs, gs, c)}
           U == G \cup T
<1>1. ASSUME NEW n \in DOMAIN gs, gs[n] > 0 PROVE gs[n] \in G
  BY <1>1 DEF Sound, GlobalsBound, GlobalIn
<1>2. ASSUME NEW u \in G
      PROVE  u \in Instances(cs) /\ BothCallable(cs, u) /\ (cs[u].super = None \/ cs[u].super \in U)
  <2> DEFINE n == cs[u].name
  <2>1. u \in Instances(cs) /\ n \in DOMAIN gs /\ gs[n] = u /\ u > 0
    BY DEF GlobalIn
  <2>2. BothCallable(cs, gs[n]) /\ gs[n] > 0
    BY <2>1 DEF GlobalsBound
  <2>3. cs[gs[n]].super = None \/ cs[gs[n]].super = s \/ GlobalIn(cs, gs, cs[gs[n]].super)
    BY <2>1, <2>2 DEF ClosedBut
  <2>4. cs[u].super # None => cs[u].super \in Instances(cs)
    BY <2>1 DEF Sound
  <2>5. QED BY <2>1, <2>2, <2>3, <2>4
<1>3. \A u \in T : u \in Instances(cs) /\ BothCallable(cs, u) /\ (cs[u].super = None \/ cs[u].super \in T)
  BY DEF Sendable
<1> HIDE DEF G
<1>4. Sendable(cs, U)
  BY <1>2, <1>3 DEF Sendable
<1>5. QED BY <1>1, <1>4

LEMMA ProgramSendable ==
  ASSUME LaterInv, outcome \in {"running", "shell"}
  PROVE  \E U : Sendable(classes, U) /\ \A n \in DOMAIN globals : globals[n] > 0 => globals[n] \in U
<1>1. /\ Sound(classes, globals) /\ \A c \in Instances(classes) : c > 0
      /\ GlobalsBound(classes, globals) /\ RestInv
  BY SoundNow, ClassesPositive DEF LaterInv, Before, Base, LinkInv, RoutinesInv, RestInv
<1>2. CASE ClosedBut(classes, globals, None)
  <2>1. Sendable(classes, {})
    BY DEF Sendable
  <2>2. QED BY <1>1, <1>2, <2>1, GlobalsSendable
<1>3. CASE PutReady(classes, globals, request)
  <2>1. PICK T : Trail(classes, globals, T, {}, request.class)
    BY <1>3 DEF PutReady, HasTrail
  <2>2. Sendable(classes, T) /\ request.class \in T
    BY <2>1 DEF Trail, Sendable
  <2>3. QED BY <1>1, <1>3, <2>2, GlobalsSendable DEF PutReady
<1>4. QED BY <1>1, <1>2, <1>3 DEF RestInv, ProgramOk

LEMMA LaterPrimitives ==
  ASSUME LaterInv
  PROVE  PrimitivesBound
<1> SUFFICES ASSUME outcome \in {"running", "shell"} PROVE PrimitivesBound
  BY DEF PrimitivesBound
<1>1. PICK U : Sendable(classes, U) /\ \A n \in DOMAIN globals : globals[n] > 0 => globals[n] \in U
  BY ProgramSendable
<1> DEFINE S == U \cup {classes[u].class : u \in U}
<1>2. /\ Base /\ LinkInv /\ boot >= 28 /\ SystemGlobals13 /\ ClassObjects(classes) /\ IsSeq(classes)
      /\ Hierarchy(classes, DOMAIN globals, known["Class"])
  BY DEF LaterInv, Before, Base, BootInv, SystemGlobals13, LinkInv, ClassObjects
<1>3. known["Class"] \in U
  <2>0. 2 \in 1..13
    OBVIOUS
  <2>1. SystemName(2) = "Class" /\ 2 \in 1..13
    BY <2>0, SupersEarlier, Zenon
  <2>2. globals["Class"] = known["Class"] /\ "Class" \in DOMAIN globals
    BY <1>2, <2>1 DEF SystemGlobals13, SystemGlobal
  <2>3. known["Class"] \in Instances(classes)
    BY <1>2, <2>1, SystemPairs
  <2>4. known["Class"] > 0
    BY <1>2, <2>3, ClassesPositive
  <2>5. QED BY <1>1, <2>2, <2>4
<1>4. ASSUME NEW u \in U
      PROVE  /\ u \in DOMAIN classes /\ classes[u].class \in DOMAIN classes
             /\ classes[u].super = None \/ classes[u].super \in U
             /\ classes[classes[u].class].super \in S
             /\ Callable(classes, u) /\ Callable(classes, classes[u].class)
  <2>1. u \in Instances(classes) /\ BothCallable(classes, u) /\ (classes[u].super = None \/ classes[u].super \in U)
    BY <1>1 DEF Sendable
  <2>2. Linked(classes, DOMAIN globals, known["Class"], u)
    BY <1>2, <2>1 DEF Hierarchy
  <2>3. classes[u].super = None => classes[classes[u].class].super = known["Class"]
    BY <2>2 DEF Linked
  <2>4. classes[u].super # None => classes[classes[u].class].super = classes[classes[u].super].class
    BY <2>2 DEF Linked
  <2>5. classes[classes[u].class].super \in S
    BY <1>3, <2>1, <2>3, <2>4
  <2>6. classes[u].class \in DOMAIN classes /\ u \in DOMAIN classes
    BY <2>1, <2>2 DEF Linked, Instances
  <2> HIDE DEF S
  <2>7. QED BY <2>1, <2>5, <2>6 DEF BothCallable
<1>5. \A c \in S : Callable(classes, c) /\ c \in DOMAIN classes
  BY <1>4
<1>6. \A c \in S : HasSuperClass(classes, c) => classes[c].super \in S
  BY <1>4 DEF HasSuperClass
<1>7. \A n \in DOMAIN globals : globals[n] > 0 => globals[n] \in S /\ classes[globals[n]].class \in S
  BY <1>1
<1> HIDE DEF S
<1>8. PICK h : Ranked(classes, h)
  BY DEF LaterInv, FieldsInv
<1>9. \A c \in DOMAIN classes : SupersOf(classes, c)
  BY <1>2, <1>8, SupersCollected
<1>10. S \subseteq DOMAIN classes
  BY <1>5
<1>11. \A c \in S : Range(SuperClasses(classes, c)) \subseteq S
  BY <1>6, <1>8, <1>9, <1>10, SupersWithin
<1>12. Reachable \subseteq S
  BY <1>7, <1>11 DEF Reachable
<1>13. ASSUME NEW c \in Reachable, NEW v \in Range(classes[c].invokables), v.routine = "empty"
       PROVE  classes[c].name = "Block3" /\ v.signature = "value:with:"
  <2>1. Callable(classes, c)
    BY <1>5, <1>12
  <2>2. PICK i \in DOMAIN classes[c].invokables : v = classes[c].invokables[i]
    BY DEF Range
  <2>3. QED BY <1>13, <2>1, <2>2 DEF Callable
<1>14. QED BY <1>13 DEF PrimitivesBound

LEMMA LaterClosed ==
  ASSUME LaterInv
  PROVE  GlobalsClosed
<1> SUFFICES ASSUME outcome = "running", request.op = "none" PROVE GlobalsClosed
  BY DEF GlobalsClosed
<1>1. ClosedBut(classes, globals, None)
  BY DEF LaterInv, RoutinesInv, RestInv, ProgramOk, Putting
<1>2. QED BY <1>1 DEF ClosedBut, GlobalIn, GlobalsClosed, HasGlobal

LEMMA LaterTypes ==
  ASSUME LaterInv
  PROVE  TypeOK
<1>1. /\ WordsInv /\ StackInv /\ BootInv /\ StatesInv /\ LinkInv /\ boot >= 28 /\ LoadInv /\ BindingsInv
  BY DEF LaterInv, Before, Base, LoadInv
<1>2. /\ world \in Worlds /\ command.vmArgs \in Seq(Seq(Symbols)) /\ command.classPath \in Seq(Seq(Symbols))
  BY <1>1 DEF WordsInv
<1>3. boot \in 1..Len(BootSteps) + 1
  <2>1. Len(BootSteps) = 45
    <3>1. LenIs(BootSteps, 45)
      BY BootStepsAre
    <3> DEFINE n == Len(BootSteps)
    <3>2. n \in Nat /\ n <= 45 /\ n >= 45
      BY <3>1 DEF LenIs
    <3> HIDE DEF n
    <3>3. n = 45
      BY <3>2
    <3>4. QED BY <3>3 DEF n
  <2>2. boot \in Nat /\ boot >= 1 /\ boot <= 46
    BY <1>1 DEF BindingsInv, BootInv
  <2>3. QED BY <2>1, <2>2
<1>4. \A n \in DOMAIN known : known[n] \in ClassNumbers \cup {None}
  <2>1. DOMAIN known = KnownNames
    BY <1>1 DEF LinkInv, KnownOk
  <2>2. ASSUME NEW n \in KnownNames PROVE known[n] \in ClassNumbers \cup {None}
    <3>1. CASE n \in {"Block", "System"}
      BY <1>1, <3>1 DEF LinkInv, KnownOk, Instances, ClassNumbers
    <3>2. CASE n \in SystemClasses
      <4>1. PICK i \in 1..13 : n = SystemName(i)
        BY <3>2, SystemNamesAre
      <4>2. known[n] \in Instances(classes)
        BY <1>1, <4>1, SystemPairs, Zenon DEF LaterInv, Before
      <4>3. QED BY <4>2 DEF Instances, ClassNumbers
    <3>3. QED BY <3>1, <3>2 DEF KnownNames
  <2>3. QED BY <2>1, <2>2
<1>5. \A c \in ClassNumbers : /\ classes[c].super \in ClassNumbers \cup {None}
                              /\ classes[c].class \in ClassNumbers \cup {None}
  BY <1>1 DEF StatesInv, ClassNumbers
<1>6. \A n \in DOMAIN globals : globals[n] \in ClassNumbers \cup {NotAClass, nil}
  BY <1>1 DEF StatesInv, ClassNumbers
<1>7. \A i \in DOMAIN loads : loads[i].pc \in {"find", "super", "assemble", "primitives"}
  BY <1>1 DEF StackInv, StackOk, CallReaches
<1>8. Len(loads) <= MaxDepth
  BY <1>1 DEF StatesInv
<1>9. outcome \in {"starting", "usage", "booting", "running", "shell", "quit", "error",
                   "crashed", "overflow", "ended"}
  BY <1>1 DEF BootInv, Outcomes
<1>10. QED BY <1>2, <1>3, <1>4, <1>5, <1>6, <1>7, <1>8, <1>9 DEF TypeOK

LEMMA LaterLinked == LaterInv => ClassesLinked
<1>1. LaterInv => InheritedFieldsAgree
  BY FieldsAgree DEF LaterInv, Before, BootInv, SystemGlobals13
<1>2. QED BY <1>1, LaterPrimitives, LaterClosed, LaterTypes DEF ClassesLinked

LEMMA LaterKept ==
  ASSUME LibraryFits, LaterInv, [Next]_vars
  PROVE  LaterInv'
<1>1. Before /\ NoSystemInv /\ StatesInv /\ FieldsInv /\ RoutinesInv /\ AllRoutinesOk(classes) /\ Ready
      /\ Base /\ LoadInv /\ BindingsInv
  BY DEF LaterInv, Before, Base, LoadInv, RoutinesInv, Ready
<1>2. Changed
  BY <1>1, StepChanges
<1>3. BootInv'
  BY <1>1, BootInvStep
<1>4. boot' >= 28
  <2>1. Base'
    BY <1>2 DEF Changed
  <2>2. boot' \in {boot, boot + 1} \/ boot' >= 41
    BY <1>1, SingletonsChange
  <2>3. boot \in Nat /\ boot >= 28 /\ boot' \in Nat
    BY <1>1, <2>1 DEF Before, BindingsInv, Base, LoadInv
  <2>4. QED BY <2>2, <2>3
<1>5. Before'
  BY <1>2, <1>3, <1>4 DEF Before, Changed
<1>6. NoSystemInv' /\ StatesInv' /\ FieldsInv' /\ RoutinesInv'
  BY <1>1, NoSystemStep, StatesStep, FieldsStep, RoutinesStep
<1>7. QED BY <1>5, <1>6 DEF LaterInv

--------------------
(* All of the program's life. *)

\* Nothing is allocated before the arguments are handled.
Begins == outcome \in {"starting", "usage"} => boot = 1
EarlyInv == StartInv /\ boot < 28 /\ Begins
LinkedInv == Base /\ WordsInv /\ (EarlyInv \/ LaterInv)

LEMMA EarlyBoots ==
  ASSUME Base, EarlyInv, [Next]_vars
  PROVE  boot' \in {boot, boot + 1} /\ Begins'
<1>1. loads = << >> /\ outcome \in {"starting", "usage", "booting"} /\ boot < 28 /\ boot \in Nat \ {0}
  BY DEF EarlyInv, StartInv, Base, LoadInv, BindingsInv
<1>2. CASE HandleArgument \/ UNCHANGED vars
  <2>1. UNCHANGED boot /\ (UNCHANGED outcome \/ outcome \in {"starting", "usage"})
    BY <1>2 DEF HandleArgument, vars
  <2>2. QED BY <2>1 DEF EarlyInv, Begins
<1>3. CASE ArgumentsHandled
  BY <1>3 DEF ArgumentsHandled, Begins
<1>4. CASE Boot
  <2>1. boot <= Len(BootSteps) /\ outcome = "booting"
    BY <1>4 DEF Boot
  <2>2. \/ boot \in 1..13 /\ step = Step("allocate", AllocationOrder[boot], "")
        \/ boot = 14 /\ step = Step("nil", "Nil", "")
        \/ boot \in 15..27 /\ step = Step("initialize", SystemSuperClasses[boot - 14][1],
                                          SystemSuperClasses[boot - 14][2])
    <3>1. boot \notin 28..40 /\ boot \notin 41..44 /\ boot # 45
      BY <1>1
    <3>2. QED BY <1>1, <2>1, <3>1, BootStepIs
  <2>3. step.op \in {"allocate", "nil", "initialize"}
    <3>1. CASE step = Step("allocate", AllocationOrder[boot], "")
      BY <3>1 DEF Step
    <3>2. CASE step = Step("nil", "Nil", "")
      BY <3>2 DEF Step
    <3>3. CASE step = Step("initialize", SystemSuperClasses[boot - 14][1], SystemSuperClasses[boot - 14][2])
      BY <3>3 DEF Step
    <3>4. QED BY <2>2, <3>1, <3>2, <3>3, Zenon
  <2>4. boot' = boot + 1 /\ UNCHANGED outcome
    BY <1>4, <2>3 DEF Boot
  <2>5. QED BY <2>1, <2>4 DEF Begins
<1>5. ~(\/ OpenFile \/ NotFound \/ LoadSuperClass \/ Assemble \/ Return
         \/ Ask \/ GetBlockClassWithArgs \/ Load \/ Loaded
         \/ BlocksForResolve \/ Look \/ PutGlobals
         \/ ReadLine)
  BY <1>1 DEF OpenFile, NotFound, LoadSuperClass, Assemble, Return, Ask, GetBlockClassWithArgs, Load,
     Loaded, BlocksForResolve, Look, PutGlobals, ReadLine, Idle, Running
<1>6. QED BY <1>2, <1>3, <1>4, <1>5 DEF Next

LEMMA Started == Base /\ WordsInv /\ StartInv /\ Begins /\ boot = 28 => LaterInv
<1> SUFFICES ASSUME Base, WordsInv, StartInv, Begins, boot = 28 PROVE LaterInv
  OBVIOUS
<1>1. /\ loads = << >> /\ outcome = "booting" /\ request.op = "none"
      /\ \A c \in DOMAIN classes : Blank(classes, c)
      /\ \A n \in DOMAIN globals : globals[n] \in DOMAIN classes \cup {NotAClass}
      /\ BindingsInv
  BY DEF StartInv, Begins, Base, LoadInv
<1>2. FieldsInv /\ SystemGlobals13 /\ Len(classes) = 26
  BY FieldsStarted
<1>3. StackInv
  BY <1>1, NoStack DEF StackInv
<1>4. BootInv
  BY <1>1, <1>2 DEF BootInv, SystemGlobals13, Outcomes
<1>5. Before
  BY <1>3, <1>4 DEF Before
<1>6. NoSystemInv
  BY <1>1 DEF NoSystemInv
<1>7. StatesInv
  <2>1. DOMAIN classes = 1..26
    BY <1>2, Measured DEF Base, LinkInv, ClassObjects
  <2>2. \A c \in DOMAIN classes : classes[c].class \in 0..26 /\ classes[c].super \in 0..26
    BY <1>1 DEF Blank
  <2>3. 0..26 \subseteq DOMAIN classes \cup {None}
    BY <2>1 DEF None
  <2>4. Len(loads) <= MaxDepth
    BY <1>1, NoneYet, ClassesAssumption
  <2>5. \A c \in DOMAIN classes : {classes[c].class, classes[c].super} \subseteq DOMAIN classes \cup {None}
    BY <2>2, <2>3
  <2>6. QED BY <1>1, <2>4, <2>5 DEF StatesInv
<1>8. AllRoutinesOk(classes)
  BY <1>1, NoneYet DEF AllRoutinesOk, RoutinesOk, Blank
<1>9. GlobalNames
  <2>1. SUFFICES ASSUME NEW n \in DOMAIN globals, globals[n] > 0
                 PROVE  classes[globals[n]].name = n
    BY DEF GlobalNames
  <2>2. PICK i \in 1..13 : n = SystemName(i)
    BY <1>1, <2>1 DEF BindingsInv, SystemName
  <2>3. SystemGlobal(i)
    BY <1>2 DEF SystemGlobals13
  <2>4. QED BY <2>2, <2>3 DEF SystemGlobal, SystemLinked, SystemName
<1>10. RestInv
  <2>1. KnownBound
    BY DEF KnownBound
  <2>2. QED BY <1>1, <2>1 DEF RestInv
<1>11. QED BY <1>2, <1>5, <1>6, <1>7, <1>8, <1>9, <1>10 DEF LaterInv, RoutinesInv

LEMMA EarlyTypes ==
  ASSUME Base, WordsInv, EarlyInv
  PROVE  TypeOK
<1>1. /\ loads = << >> /\ outcome \in {"starting", "usage", "booting"} /\ Starting
      /\ \A c \in DOMAIN classes : Blank(classes, c)
      /\ boot <= 14 => \A c \in DOMAIN classes : classes[c].super = None
      /\ \A i \in 1..13 : i >= boot => known[AllocationOrder[i]] = None
      /\ \A n \in DOMAIN globals : globals[n] \in DOMAIN classes \cup {NotAClass}
      /\ known["Block"] = None /\ known["System"] = None
      /\ boot \in Nat \ {0} /\ boot < 28 /\ KnownOk
  BY DEF EarlyInv, StartInv, Base, LoadInv, BindingsInv, LinkInv
<1>2. /\ world \in Worlds /\ command.vmArgs \in Seq(Seq(Symbols)) /\ command.classPath \in Seq(Seq(Symbols))
  BY DEF WordsInv
<1>3. boot \in 1..Len(BootSteps) + 1
  <2>1. Len(BootSteps) \in Nat /\ Len(BootSteps) >= 45
    BY BootStepsAre DEF LenIs
  <2> DEFINE n == Len(BootSteps)
  <2> HIDE DEF n
  <2>2. n \in Nat /\ n >= 45 => boot \in 1..n + 1
    BY <1>1
  <2>3. QED BY <2>1, <2>2 DEF n
<1>4. ASSUME NEW i \in 1..13 PROVE known[AllocationOrder[i]] \in ClassNumbers \cup {None}
  <2>1. CASE i < boot
    BY <1>1, <2>1 DEF KnownOk, Instances, ClassNumbers
  <2>2. CASE ~(i < boot)
    BY <1>1, <2>2
  <2>3. QED BY <2>1, <2>2
<1>5. \A n \in DOMAIN known : known[n] \in ClassNumbers \cup {None}
  <2>1. DOMAIN known = KnownNames
    BY <1>1 DEF KnownOk
  <2>2. ASSUME NEW n \in SystemClasses PROVE known[n] \in ClassNumbers \cup {None}
    <3>1. PICK i \in 1..13 : n = SystemName(i)
      BY SystemNamesAre, SMTT(20)
    <3>2. PICK j \in 1..13 : SystemName(i) = AllocationOrder[j]
      BY NamesAllocated, Zenon DEF SystemName
    <3>3. QED BY <1>4, <3>1, <3>2
  <2>3. QED BY <1>1, <2>1, <2>2 DEF KnownNames
<1>6. ASSUME NEW c \in DOMAIN classes
      PROVE  classes[c].super \in DOMAIN classes \cup {None} /\ classes[c].class \in DOMAIN classes \cup {None}
  <2>1. PICK i \in 1..13 : i < boot /\ (c = 2 * i \/ c = 2 * i - 1)
    BY <1>1 DEF Starting
  <2>2. /\ 2 * i - 1 \in DOMAIN classes /\ classes[2 * i - 1].side = "class"
        /\ classes[2 * i].class = 2 * i - 1
    BY <1>1, <2>1 DEF Starting
  <2>3. 2 \in DOMAIN classes
    <3>1. 1 < boot /\ 1 \in 1..13 /\ 2 * 1 = 2
      BY <1>1, <2>1
    <3>2. 2 * 1 \in Instances(classes)
      BY <1>1, <3>1 DEF KnownOk
    <3>3. QED BY <3>1, <3>2 DEF Instances
  <2>4. classes[c].class \in DOMAIN classes
    BY <1>1, <2>1, <2>2, <2>3 DEF Blank
  <2>5. classes[c].super \in DOMAIN classes \cup {None}
    <3>1. CASE boot <= 14
      BY <1>1, <3>1
    <3>2. CASE ~(boot <= 14)
      <4>1. 1..26 \subseteq DOMAIN classes
        <5>1. ASSUME NEW k \in 1..13 PROVE 2 * k \in DOMAIN classes /\ 2 * k - 1 \in DOMAIN classes
          <6>1. k < boot
            BY <1>1, <3>2
          <6>2. QED BY <1>1, <6>1 DEF KnownOk, Instances, Starting
        <5>2. ASSUME NEW d \in 1..26 PROVE \E k \in 1..13 : d = 2 * k \/ d = 2 * k - 1
          BY SMT
        <5>3. QED BY <5>1, <5>2
      <4>2. classes[c].super \in 0..26
        BY <1>1 DEF Blank
      <4>3. 0..26 \subseteq DOMAIN classes \cup {None}
        BY <4>1 DEF None
      <4>4. QED BY <4>2, <4>3
    <3>3. QED BY <3>1, <3>2
  <2>6. QED BY <2>4, <2>5
<1>7. DOMAIN loads = {} /\ Len(loads) <= MaxDepth
  BY <1>1, NoneYet, ClassesAssumption
<1>8. outcome \in {"starting", "usage", "booting", "running", "shell", "quit", "error",
                   "crashed", "overflow", "ended"}
  BY <1>1
<1>9. QED BY <1>1, <1>2, <1>3, <1>5, <1>6, <1>7, <1>8 DEF TypeOK, ClassNumbers

LEMMA EarlyLinked ==
  ASSUME Base, WordsInv, EarlyInv
  PROVE  ClassesLinked
<1>1. outcome \in {"starting", "usage", "booting"} /\ boot \in Nat /\ boot < 28
  BY DEF EarlyInv, StartInv, Base, LoadInv, BindingsInv
<1>2. ~(boot > Len(BootSteps))
  <2>1. Len(BootSteps) \in Nat /\ Len(BootSteps) >= 45
    BY BootStepsAre DEF LenIs
  <2> DEFINE n == Len(BootSteps)
  <2> HIDE DEF n
  <2>2. n \in Nat /\ n >= 45 => ~(boot > n)
    BY <1>1
  <2>3. QED BY <2>1, <2>2 DEF n
<1>3. InheritedFieldsAgree /\ PrimitivesBound /\ GlobalsClosed
  BY <1>1, <1>2 DEF InheritedFieldsAgree, PrimitivesBound, GlobalsClosed
<1>4. QED BY <1>3, EarlyTypes DEF ClassesLinked

LEMMA LinkedStep ==
  ASSUME LibraryFits, LinkedInv, [Next]_vars
  PROVE  LinkedInv'
<1>1. Base' /\ WordsInv'
  BY BaseStep, WordsStep DEF LinkedInv
<1>2. CASE EarlyInv
  <2>1. boot' \in {boot, boot + 1} /\ Begins' /\ boot < 28 /\ boot \in Nat
    BY <1>2, EarlyBoots DEF LinkedInv, EarlyInv, Base, LoadInv, BindingsInv
  <2>2. StartInv'
    BY <1>2, StartStep DEF LinkedInv, EarlyInv
  <2>3. CASE boot' < 28
    BY <1>1, <2>1, <2>2, <2>3 DEF LinkedInv, EarlyInv
  <2>4. CASE ~(boot' < 28)
    <3>1. boot' = 28
      BY <2>1, <2>4
    <3>2. Base' /\ WordsInv' /\ StartInv' /\ Begins' /\ (boot = 28)'
      BY <1>1, <2>1, <2>2, <3>1
    <3>3. LaterInv'
      BY <3>2, Started, PTL
    <3>4. QED BY <1>1, <3>3 DEF LinkedInv
  <2>5. QED BY <2>3, <2>4
<1>3. CASE LaterInv
  BY <1>1, <1>3, LaterKept DEF LinkedInv
<1>4. QED BY <1>2, <1>3 DEF LinkedInv

LEMMA LinkedInit == Init => LinkedInv
<1> SUFFICES ASSUME Init PROVE LinkedInv
  OBVIOUS
<1>1. Base /\ WordsInv /\ StartInv
  BY InitBase, InitWords, InitStart
<1>2. boot = 1
  BY DEF Init
<1>3. QED BY <1>1, <1>2 DEF LinkedInv, EarlyInv, Begins

\* With a class library that has what the virtual machine expects of it, whatever classes a
\* program has loaded, resolved or asked a block for: each superclass is a class and each global
\* what it should be, a method finds its fields in the objects of every subclass and each object
\* has room for them, no primitive that can be sent to is without its routine, and the
\* superclasses of global classes are global (src/vm/Universe.cpp:316-464 and 711-790,
\* src/vmobjects/VMClass.cpp:86-417, Smalltalk/System.som).
THEOREM ClassesAlwaysLinked ==
  ASSUME LibraryFits
  PROVE  Spec => []ClassesLinked
<1>1. LinkedInv /\ [Next]_vars => LinkedInv'
  BY LinkedStep
<1>2. LinkedInv => ClassesLinked
  BY EarlyLinked, LaterLinked DEF LinkedInv
<1>3. QED BY <1>1, <1>2, LinkedInit, PTL DEF Spec

=============================================================================
