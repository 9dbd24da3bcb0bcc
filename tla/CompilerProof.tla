--------------------------- MODULE CompilerProof ---------------------------
(***************************************************************************)
(* Proofs about the compiler, for every source file, correct or not: the   *)
(* parser looks ahead by one token, names are resolved, and the operands   *)
(* of methods and blocks are counted.                                      *)
(***************************************************************************)
EXTENDS Compiler, SequenceTheorems, WellFoundedInduction, TLAPS

-----------------------------------------------------------------------------
(* Types.                                                                   *)

\* Strings; the provers have to be told that those the compiler writes are.
Texts == STRING \cup Terminals \cup
  {"", "self", "$block self", "yield", "superclass", "fields", "fieldNames", "methods",
   "classSide", "Assemble", "pattern", "keywordPattern", "argument", "methodBody",
   "finishMethod", "blockContents", "locals", "blockBody", "nextStatement", "endStatement",
   "afterYield", "result", "expression", "primary", "messages", "assignments",
   "moreAssignments", "assign", "notSuper", "blockPattern", "blockArguments", "finishBlock",
   "selector", "unaryMessage", "unaryMessages", "binaryMessage", "binaryMessages",
   "keywordLast", "keywordMessage", "moreKeywords", "operandMessages", "formula", "send"}

Words == [sym : Terminals, text : Texts]

Symbols == Words \cup {[sym |-> "Yield", text |-> "yield"]}

Tasks == [do : Texts, n : Nat, isSuper : BOOLEAN, names : Seq(Texts)]

GenType == [arguments : Seq(Texts), locals : Seq(Texts), literals : SUBSET Texts,
            finished : BOOLEAN, primitive : BOOLEAN,
            depth : Int, high : Int, counted : Int, max : Int, last : Int,
            operand : BOOLEAN, cut : BOOLEAN,
            short : BOOLEAN, returned : SUBSET Int, yields : BOOLEAN, empty : BOOLEAN]

\* The counter of operands holds the depth modulo its size, and its maximum is
\* that of the depth as long as it does not overflow.
CountOk(g) ==
  /\ g.high >= 0 /\ g.max \in 0..(DepthLimit - 1)
  /\ g.counted = g.depth % DepthLimit
  /\ g.high < DepthLimit => g.max >= g.high

\* A context has a return when it is finished, unless a bytecode that lost a byte
\* takes it for its operand.
GenOk(g) ==
  /\ g \in GenType /\ CountOk(g)
  /\ g.returned # {} => g.finished
  /\ g.finished /\ ~g.cut => g.returned # {}

\* What a context without a yield has done so far is right.
Sound(g) ==
  ~g.yields => ~g.short /\ ~g.cut /\ (~g.empty => g.returned \subseteq {1})

ScanOk ==
  /\ source \in Sources
  /\ sym \in Symbols /\ nextSym \in Words \cup {NoToken}
  /\ read \in 1..source.length
  /\ errors \in BOOLEAN /\ super \in BOOLEAN

GensOk ==
  /\ gens \in Seq(GenType)
  /\ \A i \in DOMAIN gens : GenOk(gens[i])
  /\ \A i \in 1..(Len(gens) - 1) : ~gens[i].finished
  /\ ~errors => \A i \in DOMAIN gens : Sound(gens[i])

-----------------------------------------------------------------------------
(* What holds before a task: the number of contexts, the operands on the    *)
(* stack of the innermost one, how far the parser got with it, and whether  *)
(* the lexer has certainly not peeked at a token.                           *)

Phases == {"class",    \* outside of methods
           "read",     \* the next function reads a symbol
           "open",     \* the code of the context is parsed
           "next",     \* the next statement begins
           "yielded",  \* the next statement begins, after a yield
           "ended",    \* the code has been parsed
           "closed",   \* the context has its return
           "left"}     \* the last symbol of the context has been read

Points == {p \in [ctx : Nat, depth : Nat, phase : Phases, fresh : BOOLEAN] :
             p.ctx = 0 <=> p.phase = "class"}

At(ctx, depth, phase, fresh) ==
  [ctx |-> ctx, depth |-> depth, phase |-> phase, fresh |-> fresh]
Outside == At(0, 0, "class", FALSE)

ClassParts == {"superclass", "fields", "fieldNames", "methods", "classSide"}
Declarations == {"argument", "keywordPattern", "locals", "blockPattern", "blockArguments"}
Neutral == {"messages", "unaryMessages", "binaryMessages", "keywordLast", "operandMessages",
            "formula", "notSuper"}

\* A task leads from point p to point q, when the contexts are gs.  What a block
\* leaves to its outer context is the block itself, unless errors kept the parser
\* from counting.
Leads(t, p, q, gs, wrong) ==
  \/ /\ t.do \in Terminals /\ p.phase \in {"class", "open", "closed"}
     /\ q = At(p.ctx, p.depth, IF p.phase = "closed" THEN "left" ELSE p.phase, p.fresh)
  \/ /\ t.do \in ClassParts /\ p = Outside /\ q = p
  \/ /\ t.do = "Assemble" /\ p.phase = "left"
     /\ IF p.ctx = 1 THEN q = Outside
        ELSE /\ q.ctx = p.ctx - 1 /\ q.phase = "open" /\ ~q.fresh /\ q.depth >= 1
             /\ ~wrong => q.depth = gs[p.ctx - 1].depth + 1
  \/ /\ t.do = "pattern" /\ p.phase = "read" /\ q = At(p.ctx, p.depth, "open", p.fresh)
  \/ /\ t.do \in Declarations /\ p.phase = "open" /\ q = p
  \/ /\ t.do = "selector" /\ p.phase = "open" /\ q = At(p.ctx, p.depth, p.phase, FALSE)
  \/ /\ t.do = "methodBody" /\ p = At(p.ctx, 0, "open", TRUE)
     /\ q = At(p.ctx, 1, "left", FALSE)
  \/ /\ t.do \in {"blockContents", "blockBody"} /\ p = At(p.ctx, 0, "open", TRUE)
     /\ q = At(p.ctx, 1, "ended", FALSE)
  \/ /\ t.do = "nextStatement" /\ p = At(p.ctx, 0, "next", TRUE)
     /\ q = At(p.ctx, 1, "ended", FALSE)
  \/ /\ t.do = "afterYield" /\ p = At(p.ctx, 0, "yielded", TRUE)
     /\ q = At(p.ctx, 1, "ended", FALSE)
  \/ /\ t.do \in {"endStatement", "result"} /\ p.phase = "open" /\ p.depth = 1
     /\ q = At(p.ctx, 1, "ended", FALSE)
  \/ /\ t.do \in {"finishMethod", "finishBlock"} /\ p.phase = "ended" /\ p.depth = 1
     /\ q = At(p.ctx, 1, "closed", FALSE)
  \/ /\ t.do = "expression" /\ p.phase = "open" /\ p.fresh
     /\ q = At(p.ctx, p.depth + 1, "open", FALSE)
  \/ /\ t.do = "primary" /\ p.phase = "open"
     /\ q = At(p.ctx, p.depth + 1, "open", FALSE)
  \/ /\ t.do = "assignments" /\ p.phase = "open" /\ q = At(p.ctx, p.depth, p.phase, FALSE)
  \/ /\ t.do = "moreAssignments" /\ p.phase = "open" /\ p.fresh
     /\ q = At(p.ctx, p.depth, p.phase, FALSE)
  \/ /\ t.do \in Neutral /\ p.phase = "open" /\ p.depth >= 1
     /\ q = At(p.ctx, p.depth, p.phase, FALSE)
  \/ /\ t.do = "assign" /\ p.phase = "open" /\ p.depth >= t.n + 1
     /\ t.n <= Len(t.names) /\ \A i \in 1..Len(t.names) : t.names[i] \in gs[p.ctx].literals
     /\ q = At(p.ctx, p.depth - t.n, "open", FALSE)
  \/ /\ t.do \in {"unaryMessage", "binaryMessage"} /\ p.phase = "read" /\ p.depth >= 1
     /\ q = At(p.ctx, p.depth, "open", FALSE)
  \/ /\ t.do = "keywordMessage" /\ p.phase = "read" /\ t.n >= 1 /\ p.depth >= t.n
     /\ q = At(p.ctx, p.depth - t.n + 1, "open", FALSE)
  \/ /\ t.do \in {"moreKeywords", "send"} /\ p.phase = "open" /\ t.n >= 1 /\ p.depth >= t.n
     /\ q = At(p.ctx, p.depth - t.n + 1, "open", FALSE)

\* The value to assign follows the variables it is assigned to.
Assigning == {"assignments", "moreAssignments"}
ValueFollows(T) ==
  \A i \in DOMAIN T : T[i].do \in Assigning =>
    /\ i + 3 \in DOMAIN T
    /\ T[i + 1].do = "primary" /\ T[i + 2].do = "messages" /\ T[i + 3].do = "assign"

\* The tasks T can be done one after the other, from point p on.
Path(T, p, L, gs, wrong) ==
  /\ L \in [1..(Len(T) + 1) -> Points] /\ L[1] = p
  /\ \A i, j \in 1..(Len(T) + 1) : i <= j => L[j].ctx <= L[i].ctx
  /\ \A i \in 1..Len(T) : Leads(T[i], L[i], L[i + 1], gs, wrong)

Doable(T, p, gs, wrong) == ValueFollows(T) /\ \E L : Path(T, p, L, gs, wrong)

LEMMA LeadsDown ==
  ASSUME NEW t, NEW p \in Points, NEW q \in Points, NEW gs, NEW wrong, Leads(t, p, q, gs, wrong)
  PROVE  q.ctx <= p.ctx
<1>1. p.ctx \in Nat /\ q.ctx \in Nat /\ (p.ctx = 0 <=> p.phase = "class")
  BY DEF Points
<1>2. q.ctx = p.ctx \/ q.ctx = p.ctx - 1 \/ q.ctx = 0
  BY <1>1 DEF Leads, At, Outside, Points
<1> QED
  BY <1>1, <1>2

LEMMA Prefixed ==
  ASSUME NEW T \in Seq(Tasks), NEW t \in Tasks
  PROVE  /\ <<t>> \o T \in Seq(Tasks) /\ Len(<<t>> \o T) = Len(T) + 1
         /\ DOMAIN (<<t>> \o T) = 1..(Len(T) + 1) /\ Len(T) \in Nat /\ DOMAIN T = 1..Len(T)
         /\ (<<t>> \o T)[1] = t
         /\ \A i \in 1..Len(T) : (<<t>> \o T)[i + 1] = T[i]
OBVIOUS

LEMMA Remaining ==
  ASSUME NEW T \in Seq(Tasks), T # << >>
  PROVE  /\ Head(T) \in Tasks /\ Tail(T) \in Seq(Tasks)
         /\ Head(T) = T[1] /\ Len(T) \in Nat /\ Len(T) >= 1 /\ Len(Tail(T)) = Len(T) - 1
         /\ DOMAIN T = 1..Len(T) /\ DOMAIN Tail(T) = 1..(Len(T) - 1)
         /\ \A i \in 1..(Len(T) - 1) : Tail(T)[i] = T[i + 1]
OBVIOUS

\* A task before others that can be done from where it leads.
LEMMA Before ==
  ASSUME NEW T \in Seq(Tasks), NEW t \in Tasks, NEW p \in Points, NEW q \in Points,
         NEW gs, NEW wrong, Leads(t, p, q, gs, wrong), Doable(T, q, gs, wrong),
         t.do \in Assigning =>
           /\ 3 \in DOMAIN T
           /\ T[1].do = "primary" /\ T[2].do = "messages" /\ T[3].do = "assign"
  PROVE  Doable(<<t>> \o T, p, gs, wrong)
<1> DEFINE S == <<t>> \o T
<1>1. /\ Len(S) = Len(T) + 1 /\ Len(T) \in Nat /\ S[1] = t /\ DOMAIN S = 1..(Len(T) + 1)
      /\ DOMAIN T = 1..Len(T) /\ \A i \in 1..Len(T) : S[i + 1] = T[i]
  BY Prefixed
<1>2. PICK L : Path(T, q, L, gs, wrong)
  BY DEF Doable
<1> DEFINE M == [i \in 1..(Len(S) + 1) |-> IF i = 1 THEN p ELSE L[i - 1]]
<1> HIDE DEF S
<1>3. q.ctx <= p.ctx /\ p.ctx \in Nat
  BY LeadsDown DEF Points
<1>4. /\ L \in [1..(Len(T) + 1) -> Points] /\ L[1] = q
      /\ \A i, j \in 1..(Len(T) + 1) : i <= j => L[j].ctx <= L[i].ctx
      /\ \A i \in 1..Len(T) : Leads(T[i], L[i], L[i + 1], gs, wrong)
  BY <1>2 DEF Path
<1>5. /\ M \in [1..(Len(S) + 1) -> Points] /\ M[1] = p
      /\ \A i \in 1..(Len(T) + 1) : M[i + 1] = L[i]
  BY <1>1, <1>4
<1> HIDE DEF M
<1>6. ASSUME NEW i \in 1..Len(S)
      PROVE  Leads(S[i], M[i], M[i + 1], gs, wrong)
  <2>1. CASE i = 1
    BY <2>1, <1>1, <1>4, <1>5
  <2>2. CASE i # 1
    <3>1. i - 1 \in 1..Len(T) /\ (i - 1) + 1 = i
      BY <2>2, <1>1
    <3>2. S[i] = T[i - 1] /\ M[i] = L[i - 1] /\ M[i + 1] = L[(i - 1) + 1]
      BY <3>1, <1>1, <1>5
    <3> QED
      BY <3>1, <3>2, <1>4
  <2> QED
    BY <2>1, <2>2
<1>7. ASSUME NEW i \in 1..(Len(S) + 1), NEW j \in 1..(Len(S) + 1), i <= j
      PROVE  M[j].ctx <= M[i].ctx
  <2>0. \A k \in 1..(Len(S) + 1) : M[k].ctx \in Nat
    BY <1>5 DEF Points
  <2>1. CASE j = 1
    BY <2>0, <2>1, <1>1, <1>7
  <2>2. CASE j # 1
    <3>1. j - 1 \in 1..(Len(T) + 1) /\ M[j] = L[j - 1]
      <4>1. j - 1 \in 1..(Len(T) + 1) /\ (j - 1) + 1 = j
        BY <2>2, <1>1
      <4> QED
        BY <4>1, <1>5
    <3>2. CASE i = 1
      <4>1. 1 \in 1..(Len(T) + 1) /\ 1 <= j - 1
        BY <3>1, <1>1
      <4>2. L[j - 1].ctx <= q.ctx
        BY <3>1, <4>1, <1>4
      <4>3. L[j - 1].ctx \in Nat /\ q.ctx \in Nat
        BY <3>1, <1>4 DEF Points
      <4> QED
        BY <4>2, <4>3, <3>1, <3>2, <1>3, <1>5
    <3>3. CASE i # 1
      <4>1. i - 1 \in 1..(Len(T) + 1) /\ (i - 1) + 1 = i /\ i - 1 <= j - 1
        BY <3>3, <1>1, <1>7
      <4> QED
        BY <3>1, <4>1, <1>4, <1>5
    <3> QED
      BY <3>2, <3>3
  <2> QED
    BY <2>1, <2>2
<1>8. Path(S, p, M, gs, wrong)
  BY <1>1, <1>5, <1>6, <1>7 DEF Path
<1>9. ValueFollows(S)
  <2> SUFFICES ASSUME NEW i \in DOMAIN S, S[i].do \in Assigning
               PROVE  /\ i + 3 \in DOMAIN S /\ S[i + 1].do = "primary"
                      /\ S[i + 2].do = "messages" /\ S[i + 3].do = "assign"
    BY DEF ValueFollows
  <2>1. CASE i = 1
    <3>1. 3 \in 1..Len(T) /\ T[1].do = "primary" /\ T[2].do = "messages" /\ T[3].do = "assign"
      BY <2>1, <1>1
    <3>2. S[1 + 1] = T[1] /\ S[2 + 1] = T[2] /\ S[3 + 1] = T[3]
      BY <3>1, <1>1
    <3> QED
      BY <2>1, <3>1, <3>2, <1>1
  <2>2. CASE i # 1
    <3> DEFINE k == i - 1
    <3>1. k \in 1..Len(T) /\ k + 1 = i
      BY <2>2, <1>1
    <3>2. S[i] = T[k]
      BY <3>1, <1>1
    <3>3. /\ k + 3 \in 1..Len(T) /\ T[k + 1].do = "primary"
          /\ T[k + 2].do = "messages" /\ T[k + 3].do = "assign"
      BY <3>1, <3>2, <1>1 DEF ValueFollows, Doable
    <3>4. /\ k + 1 \in 1..Len(T) /\ k + 2 \in 1..Len(T) /\ i + 3 \in DOMAIN S
          /\ (k + 1) + 1 = i + 1 /\ (k + 2) + 1 = i + 2 /\ (k + 3) + 1 = i + 3
      BY <3>1, <3>3, <1>1
    <3>5. S[i + 1] = T[k + 1] /\ S[i + 2] = T[k + 2] /\ S[i + 3] = T[k + 3]
      BY <3>3, <3>4, <1>1
    <3> QED
      BY <3>3, <3>4, <3>5
  <2> QED
    BY <2>1, <2>2
<1> QED
  BY <1>8, <1>9 DEF Doable, S

\* The first task leads to where the others can be done.
LEMMA After ==
  ASSUME NEW T \in Seq(Tasks), T # << >>, NEW p \in Points, NEW gs, NEW wrong,
         Doable(T, p, gs, wrong)
  PROVE  \E q \in Points : /\ Leads(Head(T), p, q, gs, wrong) /\ q.ctx <= p.ctx
                           /\ Doable(Tail(T), q, gs, wrong)
<1> DEFINE S == Tail(T)
<1>1. /\ Head(T) = T[1] /\ Len(T) \in Nat /\ Len(T) >= 1 /\ Len(S) = Len(T) - 1
      /\ DOMAIN T = 1..Len(T) /\ DOMAIN S = 1..(Len(T) - 1)
      /\ \A i \in 1..(Len(T) - 1) : S[i] = T[i + 1]
  BY Remaining
<1> HIDE DEF S
<1>2. PICK L : Path(T, p, L, gs, wrong)
  BY DEF Doable
<1> DEFINE M == [i \in 1..(Len(S) + 1) |-> L[i + 1]]
<1>3. /\ L \in [1..(Len(T) + 1) -> Points] /\ L[1] = p
      /\ \A i, j \in 1..(Len(T) + 1) : i <= j => L[j].ctx <= L[i].ctx
      /\ \A i \in 1..Len(T) : Leads(T[i], L[i], L[i + 1], gs, wrong)
  BY <1>2 DEF Path
<1>4. 1 \in 1..Len(T) /\ 2 \in 1..(Len(T) + 1) /\ 1 + 1 = 2 /\ Len(S) + 1 = Len(T)
  BY <1>1
<1>5. /\ M \in [1..(Len(S) + 1) -> Points] /\ M[1] = L[2]
      /\ \A i \in 1..Len(T) : M[i] = L[i + 1]
  BY <1>1, <1>3, <1>4
<1> HIDE DEF M
<1>6. Leads(Head(T), p, L[2], gs, wrong) /\ L[2] \in Points /\ L[2].ctx <= p.ctx
  <2>1. Leads(T[1], L[1], L[1 + 1], gs, wrong)
    BY <1>3, <1>4
  <2> QED
    BY <2>1, <1>1, <1>3, <1>4, LeadsDown
<1>7. Path(S, L[2], M, gs, wrong)
  <2>1. ASSUME NEW i \in 1..(Len(S) + 1), NEW j \in 1..(Len(S) + 1), i <= j
        PROVE  M[j].ctx <= M[i].ctx
    <3>1. i + 1 \in 1..(Len(T) + 1) /\ j + 1 \in 1..(Len(T) + 1) /\ i + 1 <= j + 1
      BY <1>4, <1>1, <2>1
    <3> QED
      BY <3>1, <1>3, <1>4, <1>5
  <2>2. ASSUME NEW i \in 1..Len(S)
        PROVE  Leads(S[i], M[i], M[i + 1], gs, wrong)
    <3>1. /\ i \in 1..(Len(T) - 1) /\ i \in 1..Len(T) /\ i + 1 \in 1..Len(T)
      BY <1>1
    <3> QED
      BY <3>1, <1>1, <1>3, <1>5
  <2> QED
    BY <2>1, <2>2, <1>5 DEF Path
<1>8. ValueFollows(S)
  <2> SUFFICES ASSUME NEW i \in DOMAIN S, S[i].do \in Assigning
               PROVE  /\ i + 3 \in DOMAIN S /\ S[i + 1].do = "primary"
                      /\ S[i + 2].do = "messages" /\ S[i + 3].do = "assign"
    BY DEF ValueFollows
  <2> DEFINE k == i + 1
  <2>1. k \in DOMAIN T /\ T[k].do \in Assigning /\ i \in Nat
    BY <1>1
  <2>2. /\ k + 3 \in 1..Len(T) /\ T[k + 1].do = "primary"
        /\ T[k + 2].do = "messages" /\ T[k + 3].do = "assign"
    <3>1. ValueFollows(T) /\ DOMAIN T = 1..Len(T)
      BY <1>1 DEF Doable
    <3> HIDE DEF k
    <3>2. QED
      BY <2>1, <3>1, Zenon DEF ValueFollows
  <2>3. /\ i + 3 \in 1..(Len(T) - 1) /\ i + 2 \in 1..(Len(T) - 1) /\ i + 1 \in 1..(Len(T) - 1)
        /\ (i + 1) + 1 = k + 1 /\ (i + 2) + 1 = k + 2 /\ (i + 3) + 1 = k + 3
    BY <2>1, <2>2, <1>1
  <2>4. S[i + 1] = T[k + 1] /\ S[i + 2] = T[k + 2] /\ S[i + 3] = T[k + 3]
    BY <2>3, <1>1
  <2> QED
    BY <2>2, <2>3, <2>4, <1>1
<1> QED
  BY <1>6, <1>7, <1>8 DEF Doable, S

\* What the outer k contexts keep when the innermost of them is worked on: the
\* literals they have, and the operands of all but it.
Kept(gs, hs, k) ==
  /\ \A i \in 1..k : gs[i].literals \subseteq hs[i].literals
  /\ \A i \in 1..(k - 1) : hs[i].depth = gs[i].depth

LEMMA LeadsKept ==
  ASSUME NEW t, NEW p \in Points, NEW q, NEW gs, NEW hs, NEW wrong, NEW wrong2,
         NEW k \in Nat, p.ctx <= k, Kept(gs, hs, k), wrong => wrong2,
         t.do = "assign" => Len(t.names) \in Nat,
         Leads(t, p, q, gs, wrong)
  PROVE  Leads(t, p, q, hs, wrong2)
<1>1. p.ctx \in Nat /\ (p.ctx = 0 <=> p.phase = "class")
  BY DEF Points
<1>2. CASE t.do = "Assemble" /\ p.phase = "left" /\ p.ctx # 1
  <2>1. p.ctx - 1 \in 1..(k - 1)
    BY <1>1, <1>2
  <2>2. hs[p.ctx - 1].depth = gs[p.ctx - 1].depth
    BY <2>1 DEF Kept
  <2> QED
    BY <1>2, <2>2 DEF Leads, Terminals, ClassParts, Declarations, Neutral
<1>3. CASE t.do = "assign"
  <2>1. p.phase = "open" /\ p.ctx \in 1..k
    BY <1>1, <1>3 DEF Leads, Terminals, ClassParts, Declarations, Neutral
  <2>2. gs[p.ctx].literals \subseteq hs[p.ctx].literals
    BY <2>1 DEF Kept
  <2> QED
    BY <1>3, <2>2 DEF Leads, Terminals, ClassParts, Declarations, Neutral
<1>4. CASE t.do # "assign" /\ ~(t.do = "Assemble" /\ p.phase = "left" /\ p.ctx # 1)
  BY <1>4 DEF Leads
<1> QED
  BY <1>2, <1>3, <1>4

\* The tasks can still be done when the contexts they are for are kept.
LEMMA Framed ==
  ASSUME NEW T \in Seq(Tasks), NEW p \in Points, NEW gs, NEW hs, NEW wrong, NEW wrong2,
         NEW k \in Nat, p.ctx <= k, Kept(gs, hs, k), wrong => wrong2,
         Doable(T, p, gs, wrong)
  PROVE  Doable(T, p, hs, wrong2)
<1>1. PICK L : Path(T, p, L, gs, wrong)
  BY DEF Doable
<1>2. ASSUME NEW i \in 1..Len(T)
      PROVE  Leads(T[i], L[i], L[i + 1], hs, wrong2)
  <2>1. /\ i \in 1..(Len(T) + 1) /\ 1 \in 1..(Len(T) + 1) /\ 1 <= i /\ T[i] \in Tasks
    OBVIOUS
  <2>2. L[i] \in Points /\ L[i].ctx <= p.ctx /\ Leads(T[i], L[i], L[i + 1], gs, wrong)
    BY <1>1, <2>1 DEF Path
  <2>3. L[i].ctx \in Nat /\ p.ctx \in Nat
    BY <2>2 DEF Points
  <2>4. L[i].ctx <= k
    BY <2>2, <2>3
  <2>5. T[i].do = "assign" => Len(T[i].names) \in Nat
    BY <2>1 DEF Tasks
  <2> QED
    BY <2>2, <2>4, <2>5, LeadsKept
<1>3. Path(T, p, L, hs, wrong2)
  BY <1>1, <1>2 DEF Path
<1> QED
  BY <1>3 DEF Doable

-----------------------------------------------------------------------------
(* Plans.                                                                   *)

Plain(f) == Task(f, 0, FALSE, <<>>)

LEMMA PlainIsTask ==
  ASSUME NEW f \in Texts
  PROVE  Plain(f) \in Tasks /\ Plain(f).do = f
BY DEF Plain, Task, Tasks

LEMMA TaskIsTask ==
  ASSUME NEW f \in Texts, NEW n \in Nat, NEW s \in BOOLEAN
  PROVE  /\ Task(f, n, s, <<>>) \in Tasks
         /\ Task(f, n, s, <<>>).do = f /\ Task(f, n, s, <<>>).n = n
BY DEF Task, Tasks

LEMMA Joined ==
  ASSUME NEW T \in Seq(Texts), NEW t \in Texts
  PROVE  /\ <<t>> \o T \in Seq(Texts) /\ Len(<<t>> \o T) = Len(T) + 1 /\ Len(T) \in Nat
         /\ (<<t>> \o T)[1] = t
         /\ \A i \in 1..Len(T) : (<<t>> \o T)[i + 1] = T[i]
OBVIOUS

LEMMA PlanIsSeq ==
  ASSUME NEW fs \in Seq(Texts)
  PROVE  /\ Plan(fs) \in Seq(Tasks) /\ Len(Plan(fs)) = Len(fs) /\ Len(fs) \in Nat
         /\ \A i \in 1..Len(fs) : Plan(fs)[i] = Plain(fs[i])
<1>1. /\ Plan(fs) = [i \in 1..Len(fs) |-> Plain(fs[i])] /\ Len(fs) \in Nat
      /\ \A i \in 1..Len(fs) : fs[i] \in Texts
  BY DEF Plan, Plain
<1>2. \A i \in 1..Len(fs) : Plain(fs[i]) \in Tasks
  BY <1>1, PlainIsTask
<1> QED
  BY <1>1, <1>2

\* The first task of a plan, and the others.
LEMMA PlanSplit ==
  ASSUME NEW T \in Seq(Tasks), NEW fs \in Seq(Texts), NEW f \in Texts
  PROVE  Plan(<<f>> \o fs) \o T = <<Plain(f)>> \o (Plan(fs) \o T)
<1> DEFINE hs == <<f>> \o fs
           A == Plan(hs)
           B == Plan(fs)
           C == <<Plain(f)>> \o B
<1>1. /\ hs \in Seq(Texts) /\ Len(hs) = Len(fs) + 1 /\ Len(fs) \in Nat
      /\ hs[1] = f /\ \A i \in 1..Len(fs) : hs[i + 1] = fs[i]
  BY Joined
<1>2. Plain(f) \in Tasks
  BY PlainIsTask
<1>3. B \in Seq(Tasks) /\ Len(B) = Len(fs) /\ \A i \in 1..Len(fs) : B[i] = Plain(fs[i])
  BY PlanIsSeq
<1> HIDE DEF hs
<1>4. /\ A \in Seq(Tasks) /\ Len(A) = Len(fs) + 1
      /\ \A i \in 1..(Len(fs) + 1) : A[i] = Plain(hs[i])
  BY <1>1, PlanIsSeq
<1> HIDE DEF B
<1>5. /\ C \in Seq(Tasks) /\ Len(C) = Len(B) + 1 /\ C[1] = Plain(f)
      /\ \A i \in 1..Len(B) : C[i + 1] = B[i]
  BY <1>2, <1>3, Prefixed
<1> HIDE DEF A, C
<1>6. ASSUME NEW i \in 1..Len(A) PROVE A[i] = C[i]
  <2>1. CASE i = 1
    BY <2>1, <1>1, <1>4, <1>5
  <2>2. CASE i # 1
    <3>1. i - 1 \in 1..Len(fs) /\ (i - 1) + 1 = i
      BY <2>2, <1>1, <1>4
    <3>2. A[i] = Plain(hs[(i - 1) + 1]) /\ C[(i - 1) + 1] = B[i - 1]
      BY <3>1, <1>3, <1>4, <1>5
    <3> QED
      BY <3>1, <3>2, <1>1, <1>3
  <2> QED
    BY <2>1, <2>2
<1>7. A = C
  BY <1>1, <1>3, <1>4, <1>5, <1>6, SeqEqual
<1>8. C \o T = <<Plain(f)>> \o (B \o T)
  BY <1>2, <1>3 DEF C
<1> QED
  BY <1>7, <1>8 DEF A, B, hs

\* Tuples and their first elements.
LEMMA Tuple2 ==
  ASSUME NEW a, NEW b
  PROVE  <<a, b>> = <<a>> \o <<b>>
<1> DEFINE s == <<a>> \o <<b>>
<1>1. Len(s) = 2 /\ s[1] = a /\ s[2] = b /\ s \in Seq({a, b})
  OBVIOUS
<1>2. s = <<s[1], s[2]>>
  <2> HIDE DEF s
  <2> QED
    BY <1>1
<1> QED
  BY <1>1, <1>2

LEMMA Tuple3 ==
  ASSUME NEW a, NEW b, NEW c
  PROVE  <<a, b, c>> = <<a>> \o <<b, c>>
OBVIOUS

LEMMA Tuple4 ==
  ASSUME NEW a, NEW b, NEW c, NEW d
  PROVE  <<a, b, c, d>> = <<a>> \o <<b, c, d>>
OBVIOUS

LEMMA Tuple5 ==
  ASSUME NEW a, NEW b, NEW c, NEW d, NEW e
  PROVE  <<a, b, c, d, e>> = <<a>> \o <<b, c, d, e>>
OBVIOUS

LEMMA Tuple6 ==
  ASSUME NEW a, NEW b, NEW c, NEW d, NEW e, NEW f
  PROVE  <<a, b, c, d, e, f>> = <<a>> \o <<b, c, d, e, f>>
OBVIOUS

LEMMA Planned0 ==
  ASSUME NEW T \in Seq(Tasks)
  PROVE  Plan(<<>>) \o T = T
<1>1. <<>> \in Seq(Texts) /\ Len(<<>>) = 0
  OBVIOUS
<1>2. Plan(<<>>) \in Seq(Tasks) /\ Len(Plan(<<>>)) = 0
  BY <1>1, PlanIsSeq
<1>3. Plan(<<>>) = <<>>
  BY <1>2
<1> QED
  BY <1>3

LEMMA Planned1 ==
  ASSUME NEW T \in Seq(Tasks), NEW a \in Texts
  PROVE  Plan(<<a>>) \o T = <<Plain(a)>> \o T
<1>1. <<a>> = <<a>> \o <<>> /\ <<>> \in Seq(Texts)
  OBVIOUS
<1>2. Plan(<<a>> \o <<>>) \o T = <<Plain(a)>> \o (Plan(<<>>) \o T)
  BY <1>1, PlanSplit
<1> QED
  BY <1>1, <1>2, Planned0

\* Plans whose tasks lead from point to point, before tasks that can be done from
\* where they end.
LEMMA DoFirst ==
  ASSUME NEW T \in Seq(Tasks), NEW fs \in Seq(Texts), NEW f \in Texts, f \notin Assigning,
         NEW p \in Points, NEW q \in Points, NEW gs, NEW wrong,
         Leads(Plain(f), p, q, gs, wrong), Doable(Plan(fs) \o T, q, gs, wrong)
  PROVE  Doable(Plan(<<f>> \o fs) \o T, p, gs, wrong)
<1>1. Plan(<<f>> \o fs) \o T = <<Plain(f)>> \o (Plan(fs) \o T)
  BY PlanSplit
<1>2. Plain(f) \in Tasks /\ Plain(f).do = f /\ Plan(fs) \o T \in Seq(Tasks)
  BY PlainIsTask, PlanIsSeq
<1> QED
  BY <1>1, <1>2, Before

LEMMA Do1 ==
  ASSUME NEW T \in Seq(Tasks), NEW a \in Texts \ Assigning,
         NEW p0 \in Points, NEW p1 \in Points, NEW gs, NEW wrong,
         Leads(Plain(a), p0, p1, gs, wrong), Doable(T, p1, gs, wrong)
  PROVE  /\ Doable(Plan(<<a>>) \o T, p0, gs, wrong)
         /\ Plan(<<a>>) \o T \in Seq(Tasks)
<1>0. <<a>> \in Seq(Texts) /\ Plan(<<a>>) \in Seq(Tasks)
  <2>1. <<a>> \in Seq(Texts)
    OBVIOUS
  <2> QED
    BY <2>1, PlanIsSeq
<1>1. Plan(<<a>>) \o T = <<Plain(a)>> \o T
  BY Planned1
<1>2. Plain(a) \in Tasks /\ Plain(a).do = a
  BY PlainIsTask
<1>4. Doable(Plan(<<a>>) \o T, p0, gs, wrong)
  BY <1>1, <1>2, Before
<1> QED
  BY <1>0, <1>4

LEMMA Do2 ==
  ASSUME NEW T \in Seq(Tasks), NEW a \in Texts \ Assigning, NEW b \in Texts \ Assigning,
         NEW p0 \in Points, NEW p1 \in Points, NEW p2 \in Points, NEW gs, NEW wrong,
         Leads(Plain(a), p0, p1, gs, wrong), Leads(Plain(b), p1, p2, gs, wrong),
         Doable(T, p2, gs, wrong)
  PROVE  /\ Doable(Plan(<<a, b>>) \o T, p0, gs, wrong)
         /\ Plan(<<a, b>>) \o T \in Seq(Tasks)
<1>0. <<a, b>> \in Seq(Texts) /\ Plan(<<a, b>>) \in Seq(Tasks)
  <2>1. <<a, b>> \in Seq(Texts)
    OBVIOUS
  <2> QED
    BY <2>1, PlanIsSeq
<1>1. Doable(Plan(<<b>>) \o T, p1, gs, wrong)
  BY Do1
<1>2. <<b>> \in Seq(Texts)
  OBVIOUS
<1>3. Doable(Plan(<<a>> \o <<b>>) \o T, p0, gs, wrong)
  BY <1>1, <1>2, DoFirst
<1>4. Doable(Plan(<<a, b>>) \o T, p0, gs, wrong)
  BY <1>3, Tuple2
<1> QED
  BY <1>0, <1>4

LEMMA Do3 ==
  ASSUME NEW T \in Seq(Tasks), NEW a \in Texts \ Assigning, NEW b \in Texts \ Assigning,
         NEW c \in Texts \ Assigning, NEW p0 \in Points, NEW p1 \in Points,
         NEW p2 \in Points, NEW p3 \in Points, NEW gs, NEW wrong,
         Leads(Plain(a), p0, p1, gs, wrong), Leads(Plain(b), p1, p2, gs, wrong),
         Leads(Plain(c), p2, p3, gs, wrong), Doable(T, p3, gs, wrong)
  PROVE  /\ Doable(Plan(<<a, b, c>>) \o T, p0, gs, wrong)
         /\ Plan(<<a, b, c>>) \o T \in Seq(Tasks)
<1>0. <<a, b, c>> \in Seq(Texts) /\ Plan(<<a, b, c>>) \in Seq(Tasks)
  <2>1. <<a, b, c>> \in Seq(Texts)
    OBVIOUS
  <2> QED
    BY <2>1, PlanIsSeq
<1>1. Doable(Plan(<<b, c>>) \o T, p1, gs, wrong)
  BY Do2
<1>2. <<b, c>> \in Seq(Texts)
  OBVIOUS
<1>3. Doable(Plan(<<a>> \o <<b, c>>) \o T, p0, gs, wrong)
  BY <1>1, <1>2, DoFirst
<1>4. Doable(Plan(<<a, b, c>>) \o T, p0, gs, wrong)
  BY <1>3, Tuple3
<1> QED
  BY <1>0, <1>4

LEMMA Do4 ==
  ASSUME NEW T \in Seq(Tasks), NEW a \in Texts \ Assigning, NEW b \in Texts \ Assigning,
         NEW c \in Texts \ Assigning, NEW d \in Texts \ Assigning, NEW p0 \in Points,
         NEW p1 \in Points, NEW p2 \in Points, NEW p3 \in Points, NEW p4 \in Points,
         NEW gs, NEW wrong, Leads(Plain(a), p0, p1, gs, wrong),
         Leads(Plain(b), p1, p2, gs, wrong), Leads(Plain(c), p2, p3, gs, wrong),
         Leads(Plain(d), p3, p4, gs, wrong), Doable(T, p4, gs, wrong)
  PROVE  /\ Doable(Plan(<<a, b, c, d>>) \o T, p0, gs, wrong)
         /\ Plan(<<a, b, c, d>>) \o T \in Seq(Tasks)
<1>0. <<a, b, c, d>> \in Seq(Texts) /\ Plan(<<a, b, c, d>>) \in Seq(Tasks)
  <2>1. <<a, b, c, d>> \in Seq(Texts)
    OBVIOUS
  <2> QED
    BY <2>1, PlanIsSeq
<1>1. Doable(Plan(<<b, c, d>>) \o T, p1, gs, wrong)
  BY Do3
<1>2. <<b, c, d>> \in Seq(Texts)
  OBVIOUS
<1>3. Doable(Plan(<<a>> \o <<b, c, d>>) \o T, p0, gs, wrong)
  BY <1>1, <1>2, DoFirst
<1>4. Doable(Plan(<<a, b, c, d>>) \o T, p0, gs, wrong)
  BY <1>3, Tuple4
<1> QED
  BY <1>0, <1>4

LEMMA Do5 ==
  ASSUME NEW T \in Seq(Tasks), NEW a \in Texts \ Assigning, NEW b \in Texts \ Assigning,
         NEW c \in Texts \ Assigning, NEW d \in Texts \ Assigning,
         NEW e \in Texts \ Assigning, NEW p0 \in Points, NEW p1 \in Points,
         NEW p2 \in Points, NEW p3 \in Points, NEW p4 \in Points, NEW p5 \in Points,
         NEW gs, NEW wrong, Leads(Plain(a), p0, p1, gs, wrong),
         Leads(Plain(b), p1, p2, gs, wrong), Leads(Plain(c), p2, p3, gs, wrong),
         Leads(Plain(d), p3, p4, gs, wrong), Leads(Plain(e), p4, p5, gs, wrong),
         Doable(T, p5, gs, wrong)
  PROVE  /\ Doable(Plan(<<a, b, c, d, e>>) \o T, p0, gs, wrong)
         /\ Plan(<<a, b, c, d, e>>) \o T \in Seq(Tasks)
<1>0. <<a, b, c, d, e>> \in Seq(Texts) /\ Plan(<<a, b, c, d, e>>) \in Seq(Tasks)
  <2>1. <<a, b, c, d, e>> \in Seq(Texts)
    OBVIOUS
  <2> QED
    BY <2>1, PlanIsSeq
<1>1. Doable(Plan(<<b, c, d, e>>) \o T, p1, gs, wrong)
  BY Do4
<1>2. <<b, c, d, e>> \in Seq(Texts)
  OBVIOUS
<1>3. Doable(Plan(<<a>> \o <<b, c, d, e>>) \o T, p0, gs, wrong)
  BY <1>1, <1>2, DoFirst
<1>4. Doable(Plan(<<a, b, c, d, e>>) \o T, p0, gs, wrong)
  BY <1>3, Tuple5
<1> QED
  BY <1>0, <1>4

LEMMA Do6 ==
  ASSUME NEW T \in Seq(Tasks), NEW a \in Texts \ Assigning, NEW b \in Texts \ Assigning,
         NEW c \in Texts \ Assigning, NEW d \in Texts \ Assigning,
         NEW e \in Texts \ Assigning, NEW f \in Texts \ Assigning, NEW p0 \in Points,
         NEW p1 \in Points, NEW p2 \in Points, NEW p3 \in Points, NEW p4 \in Points,
         NEW p5 \in Points, NEW p6 \in Points, NEW gs, NEW wrong,
         Leads(Plain(a), p0, p1, gs, wrong), Leads(Plain(b), p1, p2, gs, wrong),
         Leads(Plain(c), p2, p3, gs, wrong), Leads(Plain(d), p3, p4, gs, wrong),
         Leads(Plain(e), p4, p5, gs, wrong), Leads(Plain(f), p5, p6, gs, wrong),
         Doable(T, p6, gs, wrong)
  PROVE  /\ Doable(Plan(<<a, b, c, d, e, f>>) \o T, p0, gs, wrong)
         /\ Plan(<<a, b, c, d, e, f>>) \o T \in Seq(Tasks)
<1>0. <<a, b, c, d, e, f>> \in Seq(Texts) /\ Plan(<<a, b, c, d, e, f>>) \in Seq(Tasks)
  <2>1. <<a, b, c, d, e, f>> \in Seq(Texts)
    OBVIOUS
  <2> QED
    BY <2>1, PlanIsSeq
<1>1. Doable(Plan(<<b, c, d, e, f>>) \o T, p1, gs, wrong)
  BY Do5
<1>2. <<b, c, d, e, f>> \in Seq(Texts)
  OBVIOUS
<1>3. Doable(Plan(<<a>> \o <<b, c, d, e, f>>) \o T, p0, gs, wrong)
  BY <1>1, <1>2, DoFirst
<1>4. Doable(Plan(<<a, b, c, d, e, f>>) \o T, p0, gs, wrong)
  BY <1>3, Tuple6
<1> QED
  BY <1>0, <1>4

-----------------------------------------------------------------------------
(* The invariant.                                                           *)

Unfinished == {"read", "open", "next", "yielded"}

\* Where the parser is, as far as the next symbols and tasks tell: a point is
\* fresh when the lexer has not peeked, or the next function reads what it has.
Ahead(p, s, next, T) ==
  p.fresh => next = NoToken \/ (T # <<>> /\ Head(T).do \in {"pattern", s.sym})

\* ... and the innermost context: it has one operand less than counted after a
\* yield, for which parsing goes on as if it had left a value.
Missing(s) == IF s.sym = "Yield" THEN 1 ELSE 0

Counts(p, g, s, wrong) ==
  /\ p.phase \in Unfinished => ~g.finished
  /\ p.phase \in {"closed", "left"} => g.finished \/ g.primitive
  /\ ~wrong =>
       /\ s.sym = "Yield" =>
            p.phase \in {"open", "ended", "closed"} /\ p.depth >= 1 /\ g.yields
       /\ p.phase \in Unfinished \/ (p.phase = "ended" /\ ~g.finished)
            => p.depth = g.depth + Missing(s)
       /\ p.phase = "next" /\ ~g.yields => g.last = -1 /\ ~g.operand
       /\ p.phase = "yielded" => g.yields

Linked(p) ==
  p.ctx = Len(gens) /\ Ahead(p, sym, nextSym, todo) /\ Counts(p, gen, sym, errors)

\* Types, contexts that are right so far, and a way through all that is left to do.
ParserInv ==
  /\ ScanOk /\ GensOk /\ todo \in Seq(Tasks)
  /\ \E p \in Points : Linked(p) /\ Doable(todo, p, gens, errors)

LEMMA Now ==
  ASSUME ParserInv, todo # << >>
  PROVE  /\ task \in Tasks /\ Tail(todo) \in Seq(Tasks)
         /\ gens \in Seq(GenType) /\ Len(gens) \in Nat
         /\ \E p, q \in Points :
              /\ Linked(p) /\ Leads(task, p, q, gens, errors) /\ q.ctx <= p.ctx
              /\ Doable(todo, p, gens, errors) /\ Doable(Tail(todo), q, gens, errors)
<1>1. task \in Tasks /\ Tail(todo) \in Seq(Tasks)
  BY Remaining DEF ParserInv, task
<1>2. PICK p \in Points : Linked(p) /\ Doable(todo, p, gens, errors)
  BY DEF ParserInv
<1>3. todo \in Seq(Tasks)
  BY DEF ParserInv
<1>4. \E q \in Points : /\ Leads(Head(todo), p, q, gens, errors) /\ q.ctx <= p.ctx
                        /\ Doable(Tail(todo), q, gens, errors)
  BY <1>2, <1>3, After
<1> QED
  BY <1>1, <1>2, <1>4 DEF task, ParserInv, GensOk

-----------------------------------------------------------------------------
(* The scanner.                                                             *)

LEMMA LargerSeq ==
  ASSUME NEW S, NEW T, S \subseteq T
  PROVE  Seq(S) \subseteq Seq(T)
OBVIOUS

LEMMA SymbolFacts ==
  ASSUME ScanOk
  PROVE  /\ sym.sym \in Terminals \cup {"Yield"} /\ sym.text \in Texts
         /\ sym \in Words <=> sym.sym # "Yield"
         /\ nextSym # NoToken => nextSym \in Words /\ nextSym.sym \in Terminals
         /\ nextSym.sym \in Terminals \cup {""}
         /\ source.tokens \subseteq Words /\ source.length \in Nat \ {0}
         /\ source.correct \in BOOLEAN /\ source.arguments \in Seq(Texts)
<1>1. /\ source.tokens \subseteq Words /\ source.length \in Nat \ {0}
      /\ source.correct \in BOOLEAN /\ source.arguments \in Seq(Texts)
  <2>1. /\ source.tokens \subseteq Tokens /\ source.length \in Nat \ {0}
        /\ source.correct \in BOOLEAN /\ source.arguments \in Seq(STRING)
    BY CompilerAssumption DEF ScanOk
  <2>2. STRING \subseteq Texts
    BY DEF Texts
  <2>3. Tokens \subseteq Words
    BY <2>2 DEF Tokens, Words
  <2>4. Seq(STRING) \subseteq Seq(Texts)
    BY <2>2, LargerSeq
  <2> QED
    BY <2>1, <2>3, <2>4
<1>2. sym \in Words => sym.sym \in Terminals /\ sym.sym # "Yield" /\ sym.text \in Texts
  BY DEF Words, Terminals, Texts
<1>3. nextSym \in Words => nextSym.sym \in Terminals
  BY DEF Words
<1>4. sym \notin Words => sym.sym = "Yield" /\ sym.text \in Texts
  <2>1. sym \notin Words => sym = [sym |-> "Yield", text |-> "yield"]
    BY DEF ScanOk, Symbols
  <2>2. "yield" \in Texts
    BY DEF Texts
  <2> QED
    BY <2>1, <2>2
<1>5. nextSym \in Words \/ nextSym = NoToken
  BY DEF ScanOk
<1>6. NoToken.sym = ""
  BY DEF NoToken
<1> QED
  BY <1>1, <1>2, <1>3, <1>4, <1>5, <1>6

LEMMA ChosenOk ==
  ASSUME ScanOk, Chosen
  PROVE  read' \in 1..source.length
<1>1. read \in 1..source.length /\ source.length \in Nat \ {0}
  BY SymbolFacts DEF ScanOk
<1> QED
  BY <1>1 DEF Chosen

LEMMA UnreadOk ==
  ASSUME ScanOk
  PROVE  Unread \subseteq Words
<1>1. EndOfInput \in Words
  <2>1. "NONE" \in Terminals /\ "" \in Texts
    BY DEF Terminals, Texts
  <2> QED
    BY <2>1 DEF EndOfInput, Words
<1> QED
  BY <1>1, SymbolFacts DEF Unread

LEMMA GetSymOk ==
  ASSUME ScanOk, GetSym
  PROVE  /\ sym' \in Words /\ sym'.sym # "Yield" /\ nextSym' = NoToken
         /\ read' \in 1..source.length
<1>1. sym' \in Words
  BY UnreadOk, SymbolFacts DEF GetSym
<1>2. read' \in 1..source.length
  BY ChosenOk DEF GetSym, ScanOk
<1>3. sym'.sym # "Yield"
  BY <1>1 DEF Words, Terminals
<1> QED
  BY <1>1, <1>2, <1>3 DEF GetSym

LEMMA PeekOk ==
  ASSUME ScanOk, Peek
  PROVE  sym' = sym /\ nextSym' \in Words /\ read' \in 1..source.length
BY UnreadOk, ChosenOk DEF Peek

\* What is accepted has been read, else nothing has.
LEMMA AcceptOk ==
  ASSUME ScanOk, NEW s, accept(s)
  PROVE  /\ sym.sym = s => sym' \in Words /\ sym'.sym # "Yield" /\ nextSym' = NoToken
         /\ sym.sym # s => UNCHANGED scanner
         /\ sym' \in Symbols /\ nextSym' \in Words \cup {NoToken} /\ read' \in 1..source.length
<1>1. CASE sym.sym = s
  BY <1>1, GetSymOk DEF accept, Symbols
<1>2. CASE sym.sym # s
  BY <1>2 DEF accept, ScanOk, scanner
<1> QED
  BY <1>1, <1>2

-----------------------------------------------------------------------------
(* The contexts.                                                            *)

LEMMA Modulo ==
  ASSUME NEW d \in Int, NEW e \in Int, NEW m \in Nat \ {0}
  PROVE  ((d % m) + e) % m = (d + e) % m
<1>1. ASSUME NEW q \in Int, NEW r \in 0..(m - 1) PROVE (q * m + r) % m = r
  OBVIOUS
<1>2. ASSUME NEW x \in Int PROVE \E q \in Int : x = q * m + (x % m)
  <2>1. x = (x \div m) * m + (x % m) /\ x \div m \in Int
    OBVIOUS
  <2> QED
    BY <2>1
<1>3. PICK q1 \in Int : d = q1 * m + (d % m)
  BY <1>2
<1> DEFINE x == (d % m) + e
<1>4. x \in Int /\ x % m \in 0..(m - 1)
  OBVIOUS
<1>5. PICK q2 \in Int : x = q2 * m + (x % m)
  BY <1>2, <1>4
<1>6. PICK r \in 0..(m - 1) : r = x % m
  BY <1>4
<1>7. d % m \in Int /\ q1 * m \in Int /\ q2 * m \in Int /\ r \in Int
  OBVIOUS
<1>8. d + e = q1 * m + x
  BY <1>3, <1>7
<1>9. d + e = q1 * m + (q2 * m + r)
  BY <1>5, <1>6, <1>8
<1>10. q1 * m + (q2 * m + r) = (q1 + q2) * m + r
  OBVIOUS
<1>11. (d + e) % m = r
  <2>1. d + e = (q1 + q2) * m + r
    BY <1>9, <1>10, Zenon
  <2>2. q1 + q2 \in Int
    OBVIOUS
  <2>3. QED
    BY <2>1, <2>2, <1>1, Zenon
<1> QED
  BY <1>6, <1>11

LEMMA LimitFacts == DepthLimit \in Nat \ {0}
BY CompilerAssumption

LEMMA GenFields ==
  ASSUME NEW g, GenOk(g)
  PROVE  /\ g.arguments \in Seq(Texts) /\ g.locals \in Seq(Texts) /\ g.literals \subseteq Texts
         /\ g.finished \in BOOLEAN /\ g.primitive \in BOOLEAN
         /\ g.depth \in Int /\ g.high \in Nat /\ g.counted \in Int /\ g.max \in Int
         /\ g.last \in Int /\ g.short \in BOOLEAN /\ g.returned \subseteq Int
         /\ g.yields \in BOOLEAN /\ g.empty \in BOOLEAN
         /\ g.operand \in BOOLEAN /\ g.cut \in BOOLEAN
BY DEF GenOk, GenType, CountOk

\* What the two contexts have in common that no bytecode changes.
Alike(g, h) ==
  /\ h.arguments = g.arguments /\ h.locals = g.locals /\ h.literals = g.literals
  /\ h.primitive = g.primitive /\ h.yields = g.yields /\ h.empty = g.empty

LEMMA EmitOk ==
  ASSUME NEW g, GenOk(g), NEW take \in Nat, NEW leave \in Nat, NEW op \in BOOLEAN
  PROVE  /\ GenOk(Emit(g, take, leave, op)) /\ Alike(g, Emit(g, take, leave, op))
         /\ Emit(g, take, leave, op).depth = g.depth - take + leave
         /\ Emit(g, take, leave, op).last = leave - take
         /\ Emit(g, take, leave, op).operand = op
         /\ Emit(g, take, leave, op).finished = g.finished
         /\ Emit(g, take, leave, op).returned = g.returned
         /\ Sound(g) /\ (g.yields \/ g.depth >= take) => Sound(Emit(g, take, leave, op))
<1> DEFINE h == Emit(g, take, leave, op)
           d == g.depth - take + leave
           c == Count(g, leave - take)
<1>1. /\ g \in GenType /\ g.depth \in Int /\ g.high \in Nat /\ g.max \in 0..(DepthLimit - 1)
      /\ g.counted = g.depth % DepthLimit /\ (g.high < DepthLimit => g.max >= g.high)
      /\ (g.returned # {} => g.finished)
      /\ (g.finished /\ ~g.cut => g.returned # {})
  BY DEF GenOk, GenType, CountOk
<1>2. DepthLimit \in Nat \ {0}
  BY LimitFacts
<1>3. d \in Int /\ leave - take \in Int /\ d = g.depth + (leave - take)
  BY <1>1
<1>4. c = d % DepthLimit /\ c \in 0..(DepthLimit - 1) /\ (d \in 0..(DepthLimit - 1) => c = d)
  <2>1. ((g.depth % DepthLimit) + (leave - take)) % DepthLimit
          = (g.depth + (leave - take)) % DepthLimit
    BY <1>1, <1>2, <1>3, Modulo
  <2>2. c = d % DepthLimit
    BY <1>1, <1>3, <2>1 DEF Count
  <2> HIDE DEF c, d
  <2> QED
    BY <1>2, <1>3, <2>2
<1>5. /\ h = [g EXCEPT !.depth = d, !.high = Larger(g.high, d), !.counted = c,
                       !.max = Larger(g.max, c), !.last = leave - take,
                       !.operand = op, !.short = g.short \/ g.depth < take]
  BY DEF Emit
<1> HIDE DEF c, d, h
<1>6. /\ h \in GenType
      /\ h.depth = d /\ h.high = Larger(g.high, d) /\ h.counted = c /\ h.max = Larger(g.max, c)
      /\ h.last = leave - take /\ h.finished = g.finished /\ h.returned = g.returned
      /\ (h.short <=> g.short \/ g.depth < take) /\ Alike(g, h)
      /\ h.operand = op /\ h.cut = g.cut
  <2>1. Larger(g.high, d) \in Int /\ Larger(g.max, c) \in Int
    BY <1>1, <1>2, <1>3, <1>4 DEF Larger
  <2> DEFINE hi == Larger(g.high, d)
             mx == Larger(g.max, c)
             la == leave - take
             sh == g.short \/ g.depth < take
  <2>2. hi \in Int /\ mx \in Int /\ la \in Int /\ sh \in BOOLEAN /\ c \in Int /\ d \in Int
    BY <1>1, <1>2, <1>3, <1>4, <2>1
  <2> HIDE DEF hi, mx, la, sh
  <2>3. h = [g EXCEPT !.depth = d, !.high = hi, !.counted = c, !.max = mx, !.last = la,
                      !.operand = op, !.short = sh]
    BY <1>5 DEF hi, mx, la, sh
  <2>4. h \in GenType
    BY <1>1, <2>2, <2>3 DEF GenType
  <2>5. /\ h.depth = d /\ h.high = hi /\ h.counted = c /\ h.max = mx /\ h.last = la
        /\ h.short = sh /\ h.operand = op
    BY <1>1, <2>3 DEF GenType
  <2>6. /\ h.finished = g.finished /\ h.returned = g.returned /\ h.arguments = g.arguments
        /\ h.locals = g.locals /\ h.literals = g.literals
        /\ h.primitive = g.primitive /\ h.yields = g.yields /\ h.empty = g.empty
        /\ h.cut = g.cut
    BY <1>1, <2>3 DEF GenType
  <2> QED
    BY <2>4, <2>5, <2>6 DEF Alike, hi, mx, la, sh
<1>7. CountOk(h)
  <2>1. h.high >= 0 /\ h.max \in 0..(DepthLimit - 1)
    BY <1>1, <1>2, <1>3, <1>4, <1>6 DEF Larger
  <2>2. ASSUME h.high < DepthLimit PROVE h.max >= h.high
    <3>1. CASE d >= 0
      <4>1. d < DepthLimit /\ g.high < DepthLimit
        BY <1>1, <1>2, <1>3, <1>6, <2>2 DEF Larger
      <4>2. c = d
        BY <3>1, <4>1, <1>2, <1>3, <1>4
      <4> QED
        BY <4>1, <4>2, <1>1, <1>2, <1>3, <1>6 DEF Larger
    <3>2. CASE d < 0
      <4>1. h.high = g.high
        BY <3>2, <1>1, <1>3, <1>6 DEF Larger
      <4> QED
        BY <4>1, <2>2, <1>1, <1>2, <1>4, <1>6 DEF Larger
    <3> QED
      BY <3>1, <3>2, <1>3
  <2> QED
    BY <1>4, <1>6, <2>1, <2>2 DEF CountOk
<1>8. Sound(g) /\ (g.yields \/ g.depth >= take) => Sound(h)
  BY <1>1, <1>6 DEF Sound, Alike
<1>9. GenOk(h)
  BY <1>1, <1>6, <1>7 DEF GenOk
<1> QED
  BY <1>6, <1>8, <1>9 DEF h, d

\* The bytecodes that are not returns.
LEMMA PopOk ==
  ASSUME NEW g, GenOk(g)
  PROVE  /\ GenOk(EmitPOP(g)) /\ Alike(g, EmitPOP(g))
         /\ EmitPOP(g).depth = g.depth - 1 /\ EmitPOP(g).last = -1
         /\ ~EmitPOP(g).operand /\ EmitPOP(g).finished = g.finished
         /\ Sound(g) /\ (g.yields \/ g.depth >= 1) => Sound(EmitPOP(g))
<1> DEFINE ff == FALSE
           h == Emit(g, 1, 0, ff)
<1>1. h = EmitPOP(g)
  BY DEF EmitPOP
<1>2. g.depth \in Int /\ 1 \in Nat /\ 0 \in Nat /\ ff \in BOOLEAN /\ ~ff
  BY GenFields
<1> HIDE DEF ff
<1>3. /\ GenOk(h) /\ Alike(g, h) /\ h.depth = g.depth - 1 + 0 /\ h.last = 0 - 1
      /\ h.finished = g.finished /\ h.operand = ff
      /\ Sound(g) /\ (g.yields \/ g.depth >= 1) => Sound(h)
  BY <1>2, EmitOk
<1> HIDE DEF h
<1>4. h.depth = g.depth - 1 /\ h.last = -1
  BY <1>2, <1>3
<1> QED
  BY <1>1, <1>2, <1>3, <1>4

LEMMA PopVariableOk ==
  ASSUME NEW g, GenOk(g)
  PROVE  /\ GenOk(EmitPopVariable(g)) /\ Alike(g, EmitPopVariable(g))
         /\ EmitPopVariable(g).depth = g.depth - 1
         /\ EmitPopVariable(g).finished = g.finished
         /\ Sound(g) /\ (g.yields \/ g.depth >= 1) => Sound(EmitPopVariable(g))
<1> DEFINE tt == TRUE
           h == Emit(g, 1, 0, tt)
<1>1. h = EmitPopVariable(g)
  BY DEF EmitPopVariable
<1>2. g.depth \in Int /\ 1 \in Nat /\ 0 \in Nat /\ tt \in BOOLEAN
  BY GenFields
<1> HIDE DEF tt
<1>3. /\ GenOk(h) /\ Alike(g, h) /\ h.depth = g.depth - 1 + 0 /\ h.finished = g.finished
      /\ Sound(g) /\ (g.yields \/ g.depth >= 1) => Sound(h)
  BY <1>2, EmitOk
<1> HIDE DEF h
<1>4. h.depth = g.depth - 1
  BY <1>2, <1>3
<1> QED
  BY <1>1, <1>3, <1>4

LEMMA PushOk ==
  ASSUME NEW g, GenOk(g)
  PROVE  /\ GenOk(EmitPush(g)) /\ Alike(g, EmitPush(g))
         /\ EmitPush(g).depth = g.depth + 1 /\ EmitPush(g).finished = g.finished
         /\ Sound(g) /\ (g.yields \/ g.depth >= 0) => Sound(EmitPush(g))
<1> DEFINE tt == TRUE
           h == Emit(g, 0, 1, tt)
<1>1. h = EmitPush(g)
  BY DEF EmitPush
<1>2. g.depth \in Int /\ 1 \in Nat /\ 0 \in Nat /\ tt \in BOOLEAN
  BY GenFields
<1> HIDE DEF tt
<1>3. /\ GenOk(h) /\ Alike(g, h) /\ h.depth = g.depth - 0 + 1
      /\ h.finished = g.finished /\ h.returned = g.returned
      /\ Sound(g) /\ (g.yields \/ g.depth >= 0) => Sound(h)
  BY <1>2, EmitOk
<1> HIDE DEF h
<1>4. h.depth = g.depth + 1
  BY <1>2, <1>3
<1> QED
  BY <1>1, <1>3, <1>4

LEMMA SendOk ==
  ASSUME NEW g, GenOk(g), NEW n \in Nat
  PROVE  /\ GenOk(EmitSend(g, n)) /\ Alike(g, EmitSend(g, n))
         /\ EmitSend(g, n).depth = g.depth - n + 1 /\ EmitSend(g, n).finished = g.finished
         /\ Sound(g) /\ (g.yields \/ g.depth >= n) => Sound(EmitSend(g, n))
<1> DEFINE tt == TRUE
           h == Emit(g, n, 1, tt)
<1>1. h = EmitSend(g, n)
  BY DEF EmitSend
<1>2. 1 \in Nat /\ tt \in BOOLEAN
  OBVIOUS
<1> HIDE DEF tt
<1>3. /\ GenOk(h) /\ Alike(g, h) /\ h.depth = g.depth - n + 1
      /\ h.finished = g.finished
      /\ Sound(g) /\ (g.yields \/ g.depth >= n) => Sound(h)
  BY <1>2, EmitOk
<1> HIDE DEF h
<1> QED
  BY <1>1, <1>3

LEMMA DupOk ==
  ASSUME NEW g, GenOk(g)
  PROVE  /\ GenOk(EmitDUP(g)) /\ Alike(g, EmitDUP(g))
         /\ EmitDUP(g).depth = g.depth + 1 /\ EmitDUP(g).finished = g.finished
         /\ Sound(g) /\ (g.yields \/ g.depth >= 1) => Sound(EmitDUP(g))
<1> DEFINE ff == FALSE
           h == Emit(g, 1, 2, ff)
<1>1. h = EmitDUP(g)
  BY DEF EmitDUP
<1>2. g.depth \in Int /\ 1 \in Nat /\ 2 \in Nat /\ ff \in BOOLEAN
  BY GenFields
<1> HIDE DEF ff
<1>3. /\ GenOk(h) /\ Alike(g, h) /\ h.depth = g.depth - 1 + 2
      /\ h.finished = g.finished
      /\ Sound(g) /\ (g.yields \/ g.depth >= 1) => Sound(h)
  BY <1>2, EmitOk
<1> HIDE DEF h
<1>4. h.depth = g.depth + 1
  BY <1>2, <1>3
<1> QED
  BY <1>1, <1>3, <1>4

LEMMA YieldOk ==
  ASSUME NEW g, GenOk(g)
  PROVE  LET h == EmitYIELD(g)
         IN  /\ GenOk(h) /\ h.depth = g.depth /\ h.finished = g.finished /\ h.yields
             /\ h.literals = g.literals /\ h.primitive = g.primitive /\ Sound(h)
<1> DEFINE ff == FALSE
           e == Emit(g, 0, 0, ff)
           tt == TRUE
           h == [e EXCEPT !.yields = tt]
<1>1. h = EmitYIELD(g)
  BY DEF EmitYIELD
<1>2. g.depth \in Int /\ 0 \in Nat /\ ff \in BOOLEAN
  BY GenFields
<1> HIDE DEF ff
<1>3. /\ GenOk(e) /\ Alike(g, e) /\ e.depth = g.depth - 0 + 0 /\ e.finished = g.finished
  BY <1>2, EmitOk
<1>4. e.depth = g.depth /\ e \in GenType
  BY <1>2, <1>3 DEF GenOk
<1> HIDE DEF e
<1>5. tt \in BOOLEAN /\ tt
  OBVIOUS
<1> HIDE DEF tt
<1>6. h \in GenType
  BY <1>4, <1>5 DEF GenType
<1>7. /\ h.yields = tt /\ h.depth = e.depth /\ h.finished = e.finished
      /\ h.returned = e.returned /\ h.high = e.high /\ h.max = e.max /\ h.counted = e.counted
      /\ h.cut = e.cut
  BY <1>4 DEF GenType
<1>8. h.literals = e.literals /\ h.primitive = e.primitive
  BY <1>4 DEF GenType
<1> HIDE DEF h
<1>9. GenOk(h)
  BY <1>3, <1>6, <1>7 DEF GenOk, CountOk
<1>10. Sound(h)
  BY <1>5, <1>7 DEF Sound
<1> QED
  BY <1>1, <1>3, <1>4, <1>5, <1>7, <1>8, <1>9, <1>10 DEF Alike

LEMMA ReturnOk ==
  ASSUME NEW g, GenOk(g)
  PROVE  /\ GenOk(EmitReturn(g)) /\ Alike(g, EmitReturn(g))
         /\ EmitReturn(g).finished /\ EmitReturn(g).depth = g.depth
         /\ Sound(g) /\ (g.yields \/ g.empty \/ g.depth = 1) => Sound(EmitReturn(g))
<1> DEFINE h == EmitReturn(g)
           rs == IF g.cut THEN g.returned ELSE g.returned \cup {g.depth}
           tt == TRUE
           zz == 0
           ff == FALSE
<1>1. g \in GenType /\ g.depth \in Int /\ CountOk(g) /\ g.returned \subseteq Int
  BY DEF GenOk, GenType
<1>2. h = [g EXCEPT !.returned = rs, !.finished = tt, !.last = zz, !.operand = ff]
  BY DEF EmitReturn
<1>3. /\ rs \in SUBSET Int /\ tt \in BOOLEAN /\ tt /\ zz \in Int /\ ff \in BOOLEAN
      /\ rs \subseteq g.returned \cup {g.depth}
      /\ ~g.cut => rs # {}
  BY <1>1
<1> HIDE DEF h, rs, tt, zz, ff
<1>4. /\ h \in GenType /\ h.returned = rs /\ h.finished
      /\ h.depth = g.depth /\ h.high = g.high /\ h.max = g.max /\ h.counted = g.counted
      /\ h.short = g.short /\ h.cut = g.cut /\ Alike(g, h)
  <2>1. h \in GenType
    BY <1>1, <1>2, <1>3 DEF GenType
  <2>2. /\ h.returned = rs /\ h.finished = tt
        /\ h.depth = g.depth /\ h.high = g.high /\ h.max = g.max /\ h.counted = g.counted
    BY <1>1, <1>2 DEF GenType
  <2>3. /\ h.arguments = g.arguments /\ h.locals = g.locals /\ h.literals = g.literals
        /\ h.primitive = g.primitive /\ h.yields = g.yields /\ h.empty = g.empty
        /\ h.short = g.short /\ h.cut = g.cut
    BY <1>1, <1>2 DEF GenType
  <2> QED
    BY <1>3, <2>1, <2>2, <2>3 DEF Alike
<1>5. GenOk(h)
  BY <1>1, <1>3, <1>4 DEF GenOk, CountOk
<1>6. Sound(g) /\ (g.yields \/ g.empty \/ g.depth = 1) => Sound(h)
  BY <1>1, <1>3, <1>4 DEF Sound, Alike
<1> QED
  BY <1>4, <1>5, <1>6 DEF h

\* Taking back a byte takes back the last bytecode if that is all it has; nothing
\* is claimed of a context that yields.
LEMMA RemoveLastOk ==
  ASSUME NEW g, GenOk(g)
  PROVE  LET h == RemoveLastBytecode(g)
         IN  /\ GenOk(h) /\ Alike(g, h) /\ h.finished = g.finished
             /\ ~g.operand => h.depth = g.depth - g.last
             /\ Sound(g) /\ (g.yields \/ ~g.operand) => Sound(h)
<1> DEFINE h == RemoveLastBytecode(g)
           c == Count(g, -g.last)
           d == g.depth - g.last
           zz == 0
           tt == TRUE
<1>1. /\ g \in GenType /\ g.depth \in Int /\ CountOk(g) /\ g.last \in Int
      /\ g.counted = g.depth % DepthLimit
      /\ g.operand \in BOOLEAN /\ g.cut \in BOOLEAN /\ g.yields \in BOOLEAN
  BY DEF GenOk, GenType, CountOk
<1>2. d \in Int /\ c = d % DepthLimit /\ c \in Int /\ zz \in Int /\ tt \in BOOLEAN
  <2>1. -g.last \in Int /\ g.depth + (-g.last) = g.depth - g.last /\ d \in Int
    BY <1>1
  <2>2. ((g.depth % DepthLimit) + (-g.last)) % DepthLimit
          = (g.depth + (-g.last)) % DepthLimit
    BY <1>1, <2>1, LimitFacts, Modulo
  <2>3. c = d % DepthLimit
    BY <1>1, <2>1, <2>2 DEF Count
  <2> HIDE DEF c, d
  <2> QED
    BY <2>1, <2>3, LimitFacts
<1>3. h = IF g.operand THEN [g EXCEPT !.cut = tt]
          ELSE [g EXCEPT !.depth = d, !.counted = c, !.last = zz]
  BY DEF RemoveLastBytecode
<1> HIDE DEF h, c, d, zz
<1>4. CASE g.operand
  <2> HIDE DEF tt
  <2>1. h = [g EXCEPT !.cut = tt]
    BY <1>3, <1>4
  <2>2. h \in GenType
    BY <1>1, <1>2, <2>1 DEF GenType
  <2>3. /\ h.depth = g.depth /\ h.counted = g.counted /\ h.high = g.high /\ h.max = g.max
        /\ h.finished = g.finished /\ h.returned = g.returned /\ h.cut = tt
    BY <1>1, <2>1 DEF GenType
  <2>4. /\ h.arguments = g.arguments /\ h.locals = g.locals /\ h.literals = g.literals
        /\ h.primitive = g.primitive /\ h.yields = g.yields /\ h.empty = g.empty
    BY <1>1, <2>1 DEF GenType
  <2>5. GenOk(h)
    BY <1>1, <2>2, <2>3 DEF GenOk, CountOk, tt
  <2>6. g.yields => Sound(h)
    BY <2>4 DEF Sound
  <2> QED
    BY <1>4, <2>3, <2>4, <2>5, <2>6 DEF Alike, h
<1>5. CASE ~g.operand
  <2>1. h = [g EXCEPT !.depth = d, !.counted = c, !.last = zz]
    BY <1>3, <1>5
  <2>2. h \in GenType
    BY <1>1, <1>2, <2>1 DEF GenType
  <2>3. /\ h.depth = d /\ h.counted = c /\ h.high = g.high /\ h.max = g.max
        /\ h.short = g.short /\ h.cut = g.cut
        /\ h.finished = g.finished /\ h.returned = g.returned
    BY <1>1, <2>1 DEF GenType
  <2>4. /\ h.arguments = g.arguments /\ h.locals = g.locals /\ h.literals = g.literals
        /\ h.primitive = g.primitive /\ h.yields = g.yields /\ h.empty = g.empty
    BY <1>1, <2>1 DEF GenType
  <2>5. GenOk(h)
    BY <1>1, <1>2, <2>2, <2>3 DEF GenOk, CountOk
  <2>6. Sound(g) => Sound(h)
    BY <2>3, <2>4 DEF Sound
  <2> QED
    BY <2>3, <2>4, <2>5, <2>6 DEF Alike, d, h
<1> QED
  BY <1>4, <1>5

\* What is not code changes nothing of the operands.
SameCode(g, h) ==
  /\ h.depth = g.depth /\ h.last = g.last /\ h.finished = g.finished
  /\ h.returned = g.returned /\ h.short = g.short
  /\ h.high = g.high /\ h.max = g.max /\ h.counted = g.counted
  /\ h.yields = g.yields /\ h.operand = g.operand /\ h.cut = g.cut

LEMMA SameCodeOk ==
  ASSUME NEW g, GenOk(g), NEW h \in GenType, SameCode(g, h)
  PROVE  /\ GenOk(h)
         /\ Sound(g) /\ (h.empty = g.empty \/ h.empty \/ g.returned = {}) => Sound(h)
BY DEF GenOk, CountOk, SameCode, Sound

LEMMA DeclareOk ==
  ASSUME NEW g, GenOk(g), NEW name \in Texts,
         NEW h \in {AddLiteralIfAbsent(g, name), AddArgumentIfAbsent(g, name),
                    AddLocalIfAbsent(g, name)}
  PROVE  /\ h \in GenType /\ SameCode(g, h) /\ g.literals \subseteq h.literals
         /\ h.primitive = g.primitive /\ h.empty = g.empty
         /\ h = AddLiteralIfAbsent(g, name) => h.literals = g.literals \cup {name}
<1>1. g \in GenType /\ g.arguments \in Seq(Texts) /\ g.locals \in Seq(Texts)
      /\ g.literals \in SUBSET Texts
  BY DEF GenOk, GenType
<1> DEFINE as == Append(g.arguments, name)
           ls == Append(g.locals, name)
           ns == g.literals \cup {name}
<1>2. as \in Seq(Texts) /\ ls \in Seq(Texts) /\ ns \in SUBSET Texts /\ g.literals \subseteq ns
  BY <1>1
<1>3. h = [g EXCEPT !.literals = ns] => h.literals = ns
  BY <1>1 DEF GenType
<1>4. /\ h = AddLiteralIfAbsent(g, name) => h = [g EXCEPT !.literals = ns]
      /\ \/ h = [g EXCEPT !.literals = ns]
         \/ h = g
         \/ h = [g EXCEPT !.arguments = as]
         \/ h = [g EXCEPT !.locals = ls]
  BY DEF AddLiteralIfAbsent, AddArgumentIfAbsent, AddArgument, AddLocalIfAbsent
<1> HIDE DEF as, ls, ns
<1>5. CASE h = g
  BY <1>1, <1>3, <1>4, <1>5 DEF SameCode, ns
<1>6. CASE h = [g EXCEPT !.literals = ns]
  <2>1. h \in GenType
    BY <1>1, <1>2, <1>6 DEF GenType
  <2>2. SameCode(g, h) /\ h.primitive = g.primitive /\ h.empty = g.empty
    BY <1>1, <1>6 DEF GenType, SameCode
  <2> QED
    BY <1>2, <1>3, <1>6, <2>1, <2>2 DEF ns
<1>7. CASE h = [g EXCEPT !.arguments = as]
  <2>1. h \in GenType
    BY <1>1, <1>2, <1>7 DEF GenType
  <2>2. /\ SameCode(g, h) /\ h.primitive = g.primitive /\ h.empty = g.empty
        /\ h.literals = g.literals
    BY <1>1, <1>7 DEF GenType, SameCode
  <2> QED
    BY <1>3, <1>4, <2>1, <2>2 DEF ns
<1>8. CASE h = [g EXCEPT !.locals = ls]
  <2>1. h \in GenType
    BY <1>1, <1>2, <1>8 DEF GenType
  <2>2. /\ SameCode(g, h) /\ h.primitive = g.primitive /\ h.empty = g.empty
        /\ h.literals = g.literals
    BY <1>1, <1>8 DEF GenType, SameCode
  <2> QED
    BY <1>3, <1>4, <2>1, <2>2 DEF ns
<1> QED
  BY <1>4, <1>5, <1>6, <1>7, <1>8

\* The innermost context, and those around it, when it changes.
LEMMA InnerOk ==
  ASSUME GensOk, gens # << >>
  PROVE  /\ GenOk(gen) /\ (~errors => Sound(gen)) /\ gen = gens[Len(gens)]
         /\ Len(gens) \in Nat /\ Len(gens) >= 1 /\ gens \in Seq(GenType)
BY DEF GensOk, gen

LEMMA OuterFacts ==
  ASSUME gens \in Seq(GenType), gens # << >>, NEW g \in GenType
  PROVE  /\ Append(Outer, g) \in Seq(GenType) /\ Len(Append(Outer, g)) = Len(gens)
         /\ Append(Outer, g)[Len(gens)] = g
         /\ \A i \in 1..(Len(gens) - 1) : Append(Outer, g)[i] = gens[i]
<1>1. Len(gens) \in Nat /\ Len(gens) >= 1
  OBVIOUS
<1>2. /\ Outer \in Seq(GenType) /\ Len(Outer) = Len(gens) - 1
      /\ \A i \in 1..(Len(gens) - 1) : Outer[i] = gens[i]
  <2>1. \A i \in 1..(Len(gens) - 1) : gens[i] \in GenType
    BY <1>1
  <2>2. Outer = [i \in 1..(Len(gens) - 1) |-> gens[i]]
    BY <1>1 DEF Outer
  <2> QED
    BY <1>1, <2>1, <2>2
<1> HIDE DEF Outer
<1> QED
  BY <1>1, <1>2

LEMMA SetGenOk ==
  ASSUME GensOk, gens # << >>, NEW g, GenOk(g), ~errors' => ~errors /\ Sound(g),
         SetGen(g)
  PROVE  /\ GensOk' /\ gens' # << >> /\ Len(gens') = Len(gens) /\ gen' = g
         /\ gens'[Len(gens)] = g
         /\ gen.literals \subseteq g.literals => Kept(gens, gens', Len(gens))
<1>1. g \in GenType
  BY DEF GenOk
<1>2. /\ gens' \in Seq(GenType) /\ Len(gens') = Len(gens) /\ gens'[Len(gens)] = g
      /\ \A i \in 1..(Len(gens) - 1) : gens'[i] = gens[i]
  BY <1>1, OuterFacts DEF SetGen, GensOk
<1>3. Len(gens) \in Nat /\ Len(gens) >= 1 /\ gens \in Seq(GenType) /\ gen = gens[Len(gens)]
  BY InnerOk
<1>4. DOMAIN gens' = 1..Len(gens) /\ DOMAIN gens = 1..Len(gens)
  BY <1>2, <1>3
<1>5. \A i \in 1..Len(gens) : i = Len(gens) \/ i \in 1..(Len(gens) - 1)
  BY <1>3
<1>6. \A i \in DOMAIN gens' : GenOk(gens'[i])
  BY <1>2, <1>4, <1>5, Zenon DEF GensOk
<1>7. ~errors' => \A i \in DOMAIN gens' : Sound(gens'[i])
  BY <1>2, <1>4, <1>5, Zenon DEF GensOk
<1>8. GensOk'
  BY <1>2, <1>6, <1>7 DEF GensOk
<1>9. gen' = g /\ gens' # << >>
  BY <1>2, <1>3 DEF gen
<1>10. gen.literals \subseteq g.literals => Kept(gens, gens', Len(gens))
  BY <1>2, <1>3, <1>5 DEF Kept
<1> QED
  BY <1>2, <1>8, <1>9, <1>10

-----------------------------------------------------------------------------
(* One function of the parser.                                              *)

ScanStep ==
  /\ source' = source /\ sym' \in Symbols /\ nextSym' \in Words \cup {NoToken}
  /\ read' \in 1..source.length /\ errors' \in BOOLEAN /\ super' \in BOOLEAN
  /\ errors => errors'

LEMMA Goes ==
  ASSUME ParserInv, ScanStep, GensOk', todo' \in Seq(Tasks), NEW p \in Points,
         p.ctx = Len(gens'), Ahead(p, sym', nextSym', todo'), Counts(p, gen', sym', errors'),
         Doable(todo', p, gens', errors')
  PROVE  ParserInv'
<1>1. Linked(p)'
  BY DEF Linked
<1>2. ScanOk'
  BY DEF ParserInv, ScanOk, ScanStep
<1> QED
  BY <1>1, <1>2 DEF ParserInv

LEMMA SameKept ==
  ASSUME NEW gs, NEW k
  PROVE  Kept(gs, gs, k)
BY DEF Kept

\* Parts of the context that the parser may come to with no bytecode in between.
Onwards(p, q) ==
  \/ q.phase = p.phase
  \/ p.phase \in Unfinished /\ q.phase \in {"read", "open"}
  \/ p.phase = "yielded" /\ q.phase = "next"
  \/ p.phase = "open" /\ q.phase = "ended"
  \/ p.phase = "closed" /\ q.phase = "left"

\* A function that writes nothing into a context.
LEMMA Proceed ==
  ASSUME ParserInv, ScanStep, gens' = gens, todo' \in Seq(Tasks),
         NEW p \in Points, NEW q \in Points, Linked(p), q.ctx = p.ctx, q.depth = p.depth,
         Onwards(p, q), Ahead(q, sym', nextSym', todo'),
         ~errors' => /\ sym'.sym = "Yield" <=> sym.sym = "Yield"
                     /\ sym.sym = "Yield" => q.phase \in {"open", "ended", "closed"},
         Doable(todo', q, gens, errors)
  PROVE  ParserInv'
<1>1. gen' = gen
  BY DEF gen
<1>2. GensOk'
  BY DEF GensOk, ParserInv, ScanStep
<1>3. Missing(sym') = Missing(sym) \/ errors'
  BY DEF Missing
<1>4. p.ctx = Len(gens) /\ Counts(p, gen, sym, errors)
  BY DEF Linked
<1>5. Counts(q, gen, sym', errors')
  BY <1>3, <1>4 DEF Counts, Onwards, Unfinished, ScanStep
<1>6. Doable(todo', q, gens', errors')
  <2>1. q.ctx \in Nat /\ q.ctx <= q.ctx
    BY DEF Points
  <2>2. Kept(gens, gens, q.ctx) /\ (errors => errors')
    BY SameKept DEF ScanStep
  <2>3. Doable(todo', q, gens, errors')
    BY <2>1, <2>2, Framed
  <2> QED
    BY <2>3
<1> QED
  BY <1>1, <1>2, <1>4, <1>5, <1>6, Goes

\* A function that writes into the innermost context.
LEMMA Writes ==
  ASSUME ParserInv, ScanStep, gens # << >>, NEW g, GenOk(g),
         ~errors' => Sound(g), SetGen(g), todo' \in Seq(Tasks),
         NEW p \in Points, p.ctx = Len(gens), Ahead(p, sym', nextSym', todo'),
         Counts(p, g, sym', errors'), Doable(todo', p, gens', errors')
  PROVE  ParserInv'
<1>1. GensOk' /\ Len(gens') = Len(gens) /\ gen' = g
  BY SetGenOk DEF ParserInv, ScanStep
<1> QED
  BY <1>1, Goes

\* The tasks that are left can be done with what it has written.
LEMMA Rest ==
  ASSUME ParserInv, errors => errors', gens # << >>, NEW g, GenOk(g),
         ~errors' => Sound(g), SetGen(g), gen.literals \subseteq g.literals,
         NEW T \in Seq(Tasks), NEW q \in Points, q.ctx <= Len(gens),
         Doable(T, q, gens, errors)
  PROVE  Doable(T, q, gens', errors')
<1>1. Kept(gens, gens', Len(gens)) /\ Len(gens) \in Nat
  BY SetGenOk, InnerOk DEF ParserInv
<1> QED
  BY <1>1, Framed

LEMMA ScanUnchanged ==
  ASSUME ScanOk, UNCHANGED scanner
  PROVE  /\ sym' = sym /\ nextSym' = nextSym /\ sym' \in Symbols
         /\ nextSym' \in Words \cup {NoToken} /\ read' \in 1..source.length
BY DEF ScanOk, scanner

-----------------------------------------------------------------------------
(* From point to point.                                                     *)

LEMMA OutsideFacts ==
  /\ Outside \in Points /\ Outside.ctx = 0 /\ Outside.depth = 0
  /\ Outside.phase = "class" /\ Outside.fresh = FALSE
BY DEF Outside, At, Points, Phases

LEMMA PointIsAt ==
  ASSUME NEW p \in Points
  PROVE  /\ p = At(p.ctx, p.depth, p.phase, p.fresh)
         /\ p.ctx \in Nat /\ p.depth \in Nat /\ p.phase \in Phases /\ p.fresh \in BOOLEAN
         /\ p.ctx = 0 <=> p.phase = "class"
BY DEF At, Points

\* From a task back to its points: outside of methods, ...
LEMMA ClassPoints ==
  ASSUME NEW t, NEW p \in Points, NEW q, NEW gs, NEW wrong, Leads(t, p, q, gs, wrong)
  PROVE  /\ t.do \in ClassParts => p = Outside /\ q = Outside
         /\ t.do \in Terminals =>
              /\ p.phase \in {"class", "open", "closed"}
              /\ q = At(p.ctx, p.depth, IF p.phase = "closed" THEN "left" ELSE p.phase, p.fresh)
         /\ t.do = "Assemble" => p.ctx \in Nat \ {0} /\ p.phase = "left"
         /\ t.do = "Assemble" /\ p.ctx = 1 => q = Outside
         /\ t.do = "Assemble" /\ p.ctx # 1 =>
              /\ q.ctx = p.ctx - 1 /\ q.phase = "open" /\ ~q.fresh /\ q.depth >= 1
              /\ ~wrong => q.depth = gs[p.ctx - 1].depth + 1
<1>1. p.ctx \in Nat /\ (p.ctx = 0 <=> p.phase = "class")
  BY DEF Points
<1>2. t.do \in ClassParts => p = Outside /\ q = Outside
  BY DEF Leads, ClassParts, Terminals, Declarations, Neutral
<1>3. t.do \in Terminals =>
        /\ p.phase \in {"class", "open", "closed"}
        /\ q = At(p.ctx, p.depth, IF p.phase = "closed" THEN "left" ELSE p.phase, p.fresh)
  BY DEF Leads, ClassParts, Terminals, Declarations, Neutral
<1>4. t.do = "Assemble" =>
        /\ p.phase = "left"
        /\ IF p.ctx = 1 THEN q = Outside
           ELSE /\ q.ctx = p.ctx - 1 /\ q.phase = "open" /\ ~q.fresh /\ q.depth >= 1
                /\ ~wrong => q.depth = gs[p.ctx - 1].depth + 1
  BY DEF Leads, ClassParts, Terminals, Declarations, Neutral
<1> QED
  BY <1>1, <1>2, <1>3, <1>4

\* ... and in a method or a block.
LEMMA MethodPoints ==
  ASSUME NEW t, NEW p \in Points, NEW q, NEW gs, NEW wrong, Leads(t, p, q, gs, wrong),
         t.do \notin Terminals \cup ClassParts \cup {"Assemble"}
  PROVE  /\ p.ctx \in Nat \ {0}
         /\ t.do = "pattern" => p.phase = "read" /\ q = At(p.ctx, p.depth, "open", p.fresh)
         /\ t.do \in Declarations => p.phase = "open" /\ q = p
         /\ t.do \in {"selector", "assignments"} =>
              p.phase = "open" /\ q = At(p.ctx, p.depth, "open", FALSE)
         /\ t.do = "moreAssignments" =>
              p.phase = "open" /\ q = At(p.ctx, p.depth, "open", FALSE)
         /\ t.do = "methodBody" =>
              p = At(p.ctx, 0, "open", TRUE) /\ q = At(p.ctx, 1, "left", FALSE)
         /\ t.do \in {"blockContents", "blockBody"} =>
              p = At(p.ctx, 0, "open", TRUE) /\ q = At(p.ctx, 1, "ended", FALSE)
         /\ t.do = "nextStatement" =>
              p = At(p.ctx, 0, "next", TRUE) /\ q = At(p.ctx, 1, "ended", FALSE)
         /\ t.do = "afterYield" =>
              p = At(p.ctx, 0, "yielded", TRUE) /\ q = At(p.ctx, 1, "ended", FALSE)
         /\ t.do \in {"endStatement", "result"} =>
              p.phase = "open" /\ p.depth = 1 /\ q = At(p.ctx, 1, "ended", FALSE)
         /\ t.do \in {"finishMethod", "finishBlock"} =>
              p.phase = "ended" /\ p.depth = 1 /\ q = At(p.ctx, 1, "closed", FALSE)
         /\ t.do = "expression" =>
              p.phase = "open" /\ q = At(p.ctx, p.depth + 1, "open", FALSE)
         /\ t.do = "primary" => p.phase = "open" /\ q = At(p.ctx, p.depth + 1, "open", FALSE)
         /\ t.do \in Neutral =>
              p.phase = "open" /\ p.depth >= 1 /\ q = At(p.ctx, p.depth, "open", FALSE)
         /\ t.do \in {"unaryMessage", "binaryMessage"} =>
              p.phase = "read" /\ p.depth >= 1 /\ q = At(p.ctx, p.depth, "open", FALSE)
         /\ t.do = "assign" =>
              /\ p.phase = "open" /\ p.depth >= t.n + 1 /\ t.n <= Len(t.names)
              /\ \A i \in 1..Len(t.names) : t.names[i] \in gs[p.ctx].literals
              /\ q = At(p.ctx, p.depth - t.n, "open", FALSE)
         /\ t.do \in {"keywordMessage", "moreKeywords", "send"} =>
              /\ p.phase = IF t.do = "keywordMessage" THEN "read" ELSE "open"
              /\ t.n >= 1 /\ p.depth >= t.n /\ q = At(p.ctx, p.depth - t.n + 1, "open", FALSE)
<1> USE DEF Leads, ClassParts, Terminals, Declarations, Neutral, Assigning
<1>1. p.ctx \in Nat /\ (p.ctx = 0 <=> p.phase = "class")
  BY DEF Points
<1>2. p.ctx # 0
  <2>1. p.phase # "class"
    BY DEF At
  <2> QED
    BY <2>1, <1>1
<1>3. /\ t.do = "pattern" => p.phase = "read" /\ q = At(p.ctx, p.depth, "open", p.fresh)
      /\ t.do \in Declarations => p.phase = "open" /\ q = p
      /\ t.do \in {"selector", "assignments"} =>
           p.phase = "open" /\ q = At(p.ctx, p.depth, "open", FALSE)
      /\ t.do = "moreAssignments" =>
           p.phase = "open" /\ p.fresh /\ q = At(p.ctx, p.depth, "open", FALSE)
  OBVIOUS
<1>4. /\ t.do = "methodBody" =>
           p = At(p.ctx, 0, "open", TRUE) /\ q = At(p.ctx, 1, "left", FALSE)
      /\ t.do \in {"blockContents", "blockBody"} =>
           p = At(p.ctx, 0, "open", TRUE) /\ q = At(p.ctx, 1, "ended", FALSE)
      /\ t.do = "nextStatement" =>
           p = At(p.ctx, 0, "next", TRUE) /\ q = At(p.ctx, 1, "ended", FALSE)
      /\ t.do = "afterYield" =>
           p = At(p.ctx, 0, "yielded", TRUE) /\ q = At(p.ctx, 1, "ended", FALSE)
  OBVIOUS
<1>5. /\ t.do \in {"endStatement", "result"} =>
           p.phase = "open" /\ p.depth = 1 /\ q = At(p.ctx, 1, "ended", FALSE)
      /\ t.do \in {"finishMethod", "finishBlock"} =>
           p.phase = "ended" /\ p.depth = 1 /\ q = At(p.ctx, 1, "closed", FALSE)
      /\ t.do = "expression" =>
           p.phase = "open" /\ p.fresh /\ q = At(p.ctx, p.depth + 1, "open", FALSE)
      /\ t.do = "primary" => p.phase = "open" /\ q = At(p.ctx, p.depth + 1, "open", FALSE)
  OBVIOUS
<1>6. /\ t.do \in Neutral =>
           p.phase = "open" /\ p.depth >= 1 /\ q = At(p.ctx, p.depth, "open", FALSE)
      /\ t.do \in {"unaryMessage", "binaryMessage"} =>
           p.phase = "read" /\ p.depth >= 1 /\ q = At(p.ctx, p.depth, "open", FALSE)
  OBVIOUS
<1>7. t.do = "assign" =>
        /\ p.phase = "open" /\ p.depth >= t.n + 1 /\ t.n <= Len(t.names)
        /\ \A i \in 1..Len(t.names) : t.names[i] \in gs[p.ctx].literals
        /\ q = At(p.ctx, p.depth - t.n, "open", FALSE)
  OBVIOUS
<1>8. t.do \in {"keywordMessage", "moreKeywords", "send"} =>
        /\ p.phase = IF t.do = "keywordMessage" THEN "read" ELSE "open"
        /\ t.n >= 1 /\ p.depth >= t.n /\ q = At(p.ctx, p.depth - t.n + 1, "open", FALSE)
  OBVIOUS
<1> QED
  BY <1>1, <1>2, <1>3, <1>4, <1>5, <1>6, <1>7, <1>8

-----------------------------------------------------------------------------
(* The actions that write no code.                                          *)

\* What a function finds.
LEMMA Found ==
  ASSUME ParserInv, todo # << >>
  PROVE  \E p, q \in Points :
           /\ Linked(p) /\ p.ctx = Len(gens) /\ Leads(task, p, q, gens, errors)
           /\ Doable(todo, p, gens, errors) /\ Doable(Tail(todo), q, gens, errors)
           /\ q.ctx <= Len(gens)
           /\ task \in Tasks /\ Tail(todo) \in Seq(Tasks) /\ Len(gens) \in Nat
<1>1. PICK p, q \in Points : /\ Linked(p) /\ Leads(task, p, q, gens, errors) /\ q.ctx <= p.ctx
                             /\ Doable(todo, p, gens, errors)
                             /\ Doable(Tail(todo), q, gens, errors)
  BY Now
<1>2. p.ctx = Len(gens)
  BY <1>1 DEF Linked
<1> QED
  BY <1>1, <1>2, Now

\* A function that reads one symbol or none and calls others.
LEMMA Calls ==
  ASSUME ParserInv, todo # << >>, task.do \notin Terminals \cup {"pattern", "Yield"},
         source' = source, errors' = errors, super' \in BOOLEAN, gens' = gens,
         UNCHANGED scanner \/ \E s \in Terminals : accept(s), todo' \in Seq(Tasks),
         NEW p \in Points, NEW q \in Points, Linked(p), q.ctx = p.ctx, q.depth = p.depth,
         q.fresh => p.fresh, Onwards(p, q),
         p.phase \in {"open", "ended", "closed"} /\ sym.sym = "Yield"
           => q.phase \in {"open", "ended", "closed"},
         Doable(todo', q, gens, errors)
  PROVE  ParserInv'
<1>1. ScanOk /\ errors \in BOOLEAN /\ sym.sym \in Terminals \cup {"Yield"}
  BY SymbolFacts DEF ParserInv, ScanOk
<1>2. "Yield" \notin Terminals
  BY DEF Terminals
<1>3. /\ sym' \in Symbols /\ nextSym' \in Words \cup {NoToken} /\ read' \in 1..source.length
      /\ sym'.sym = "Yield" <=> sym.sym = "Yield"
      /\ nextSym = NoToken => nextSym' = NoToken
  <2>1. CASE UNCHANGED scanner
    BY <1>1, <2>1, ScanUnchanged DEF scanner
  <2>2. CASE \E s \in Terminals : accept(s)
    <3>1. PICK s \in Terminals : accept(s)
      BY <2>2
    <3>2. CASE sym.sym = s
      BY <1>1, <1>2, <3>1, <3>2, AcceptOk
    <3>3. CASE sym.sym # s
      BY <1>1, <3>1, <3>3, AcceptOk DEF scanner
    <3> QED
      BY <3>2, <3>3
  <2> QED
    BY <2>1, <2>2
<1>4. ScanStep
  BY <1>1, <1>3 DEF ScanStep
<1>5. Ahead(q, sym', nextSym', todo')
  <2>1. p.fresh => nextSym = NoToken
    BY <1>1 DEF Linked, Ahead, task
  <2> QED
    BY <1>3, <2>1 DEF Ahead
<1>6. ~errors' => /\ sym'.sym = "Yield" <=> sym.sym = "Yield"
                  /\ sym.sym = "Yield" => q.phase \in {"open", "ended", "closed"}
  BY <1>3 DEF Linked, Counts
<1> QED
  BY <1>4, <1>5, <1>6, Proceed

LEMMA Starting ==
  ASSUME NEW args \in Seq(Texts)
  PROVE  LET g == MethodGenerationContext(args)
         IN  /\ GenOk(g) /\ Sound(g) /\ ~g.finished /\ g.depth = 0 /\ ~g.yields
             /\ g.last = 0
<1> DEFINE g == MethodGenerationContext(args)
           zz == 0
           ff == FALSE
           ls == <<>>
           ns == {}
           rs == {}
<1>1. /\ zz \in Int /\ ff \in BOOLEAN /\ ls \in Seq(Texts)
      /\ ns \in SUBSET Texts /\ rs \in SUBSET Int
  OBVIOUS
<1>2. g = [arguments |-> args, locals |-> ls, literals |-> ns,
           finished |-> ff, primitive |-> ff,
           depth |-> zz, high |-> zz, counted |-> zz, max |-> zz, last |-> zz,
           operand |-> ff, cut |-> ff, short |-> ff, returned |-> rs, yields |-> ff, empty |-> ff]
  BY DEF MethodGenerationContext
<1>3. ~ff /\ zz = 0 /\ rs = {}
  OBVIOUS
<1> HIDE DEF g, zz, ff, ls, ns, rs
<1>4. g \in GenType
  BY <1>1, <1>2 DEF GenType
<1>5. CountOk(g)
  BY <1>2, <1>3, LimitFacts DEF CountOk
<1>6. GenOk(g)
  BY <1>2, <1>3, <1>4, <1>5 DEF GenOk
<1>7. Sound(g)
  BY <1>2, <1>3 DEF Sound
<1> QED
  BY <1>2, <1>3, <1>6, <1>7 DEF g

\* superclass, instanceFields, classFields, and the side of the class.
LEMMA ClassPartsOk ==
  ASSUME ParserInv, superclass \/ Fields \/ fieldNames \/ classSide, UNCHANGED source
  PROVE  ParserInv'
<1>1. /\ todo # <<>> /\ task.do \in ClassParts /\ errors' = errors /\ super' = super
      /\ gens' = gens /\ \E s \in Terminals : accept(s)
  <2>1. /\ todo # <<>> /\ task.do \in ClassParts /\ errors' = errors /\ super' = super
        /\ gens' = gens
    BY DEF superclass, Fields, fieldNames, classSide, Parse, Call, ClassParts
  <2>2. accept("Identifier") \/ accept("Or") \/ accept("Separator")
    BY DEF superclass, Fields, fieldNames, classSide
  <2> QED
    BY <2>1, <2>2 DEF Terminals
<1>2. PICK p, q \in Points :
        /\ Linked(p) /\ p.ctx = Len(gens) /\ Leads(task, p, q, gens, errors)
        /\ Doable(todo, p, gens, errors) /\ Doable(Tail(todo), q, gens, errors)
        /\ q.ctx <= Len(gens)
        /\ task \in Tasks /\ Tail(todo) \in Seq(Tasks) /\ Len(gens) \in Nat
  BY <1>1, Found
<1>3. p = Outside /\ q = Outside
  BY <1>1, <1>2, ClassPoints
<1>4. todo' \in Seq(Tasks) /\ Doable(todo', Outside, gens, errors)
  <2> DEFINE T == Tail(todo)
  <2>1. Plan(<<>>) \o T = T /\ T \in Seq(Tasks) /\ Doable(T, Outside, gens, errors)
    BY <1>2, <1>3, Planned0
  <2>2. {"fieldNames", "Or", "fields", "methods"} \subseteq (Terminals \cup ClassParts) \cap Texts
    BY DEF Terminals, ClassParts, Texts
  <2>3. "fieldNames" \notin Assigning /\ "Or" \notin Assigning /\ "fields" \notin Assigning
        /\ "methods" \notin Assigning
    BY DEF Assigning
  <2>4. ASSUME NEW a \in {"fieldNames", "Or", "fields", "methods"},
               NEW b \in {"fieldNames", "Or", "fields", "methods"}
        PROVE  /\ Plan(<<a, b>>) \o T \in Seq(Tasks)
               /\ Doable(Plan(<<a, b>>) \o T, Outside, gens, errors)
    <3>1. a \in Texts \ Assigning /\ b \in Texts \ Assigning
      BY <2>2, <2>3
    <3>2. /\ Leads(Plain(a), Outside, Outside, gens, errors)
          /\ Leads(Plain(b), Outside, Outside, gens, errors)
      BY <2>2 DEF Leads, Plain, Task, Outside, At
    <3>3. Outside \in Points
      BY OutsideFacts
    <3> HIDE DEF T
    <3> QED
      BY <2>1, <3>1, <3>2, <3>3, Do2
  <2>5. \/ todo' = todo
        \/ todo' = Plan(<<>>) \o T
        \/ todo' = Plan(<<"fieldNames", "Or">>) \o T
        \/ todo' = Plan(<<"fields", "methods">>) \o T
    BY DEF superclass, Fields, fieldNames, classSide, Do, Expand
  <2>6. CASE todo' = todo
    BY <2>6, <1>1, <1>2, <1>3, Remaining DEF ParserInv
  <2> QED
    BY <2>1, <2>4, <2>5, <2>6
<1>5. task.do \notin Terminals \cup {"pattern", "Yield"} /\ super \in BOOLEAN
  BY <1>1 DEF ClassParts, Terminals, ParserInv, ScanOk
<1> QED
  BY <1>1, <1>2, <1>3, <1>4, <1>5, Calls, OutsideFacts DEF Onwards

\* Arguments of methods and of blocks.
LEMMA DeclarationsOk ==
  ASSUME ParserInv, keywordPattern \/ blockPattern \/ blockArguments, UNCHANGED source
  PROVE  ParserInv'
<1>1. /\ todo # <<>> /\ task.do \in {"keywordPattern", "blockPattern", "blockArguments"}
      /\ errors' = errors /\ super' = super /\ gens' = gens
      /\ \E s \in Terminals : accept(s)
  <2>1. /\ todo # <<>> /\ task.do \in {"keywordPattern", "blockPattern", "blockArguments"}
        /\ errors' = errors /\ super' = super /\ gens' = gens
    BY DEF keywordPattern, blockPattern, blockArguments, Parse, Call
  <2>2. accept("Keyword") \/ accept("Colon")
    BY DEF keywordPattern, blockPattern, blockArguments
  <2> QED
    BY <2>1, <2>2 DEF Terminals
<1>2. PICK p, q \in Points :
        /\ Linked(p) /\ p.ctx = Len(gens) /\ Leads(task, p, q, gens, errors)
        /\ Doable(todo, p, gens, errors) /\ Doable(Tail(todo), q, gens, errors)
        /\ q.ctx <= Len(gens)
        /\ task \in Tasks /\ Tail(todo) \in Seq(Tasks) /\ Len(gens) \in Nat
  BY <1>1, Found
<1>3. /\ task.do \in Declarations
      /\ task.do \notin Terminals \cup ClassParts \cup {"Assemble", "pattern", "Yield"}
  BY <1>1 DEF Declarations, Terminals, ClassParts
<1>4. p.phase = "open" /\ q = p /\ p.ctx \in Nat \ {0} /\ p = At(p.ctx, p.depth, "open", p.fresh)
      /\ p.depth \in Nat /\ p.fresh \in BOOLEAN
  <2>1. p.phase = "open" /\ q = p /\ p.ctx \in Nat \ {0}
    <3>1. Leads(task, p, q, gens, errors) /\ task.do \notin Terminals \cup ClassParts \cup {"Assemble"}
      BY <1>2, <1>3
    <3> QED
      BY <1>3, <3>1, MethodPoints, Zenon
  <2>2. /\ p = At(p.ctx, p.depth, p.phase, p.fresh) /\ p.depth \in Nat /\ p.fresh \in BOOLEAN
    BY PointIsAt
  <2> QED
    BY <2>1, <2>2
<1>5. todo' \in Seq(Tasks) /\ Doable(todo', p, gens, errors)
  <2> DEFINE T == Tail(todo)
  <2>1. Plan(<<>>) \o T = T /\ T \in Seq(Tasks) /\ Doable(T, p, gens, errors)
    BY <1>2, <1>4, Planned0
  <2>2. \A s \in {"argument", "keywordPattern", "blockArguments", "Or"} :
          s \in Texts \ Assigning /\ Leads(Plain(s), p, p, gens, errors)
    <3>1. {"argument", "keywordPattern", "blockArguments", "Or"} \subseteq Texts \ Assigning
      BY DEF Texts, Terminals, Assigning
    <3>2. {"argument", "keywordPattern", "blockArguments", "Or"}
            \subseteq Terminals \cup Declarations
      BY DEF Terminals, Declarations
    <3>3. ASSUME NEW s \in Terminals \cup Declarations
          PROVE  Leads(Plain(s), p, p, gens, errors)
      BY <1>4 DEF Leads, Plain, Task, At
    <3> QED
      BY <3>1, <3>2, <3>3
  <2>3. \/ todo' = Plan(<<>>) \o T
        \/ todo' = Plan(<<"argument", "keywordPattern">>) \o T
        \/ todo' = Plan(<<"argument", "blockArguments">>) \o T
        \/ todo' = Plan(<<"Or">>) \o T
    BY DEF keywordPattern, blockPattern, blockArguments, Do, Expand
  <2> HIDE DEF T
  <2>4. ASSUME NEW b \in {"keywordPattern", "blockArguments"}
        PROVE  /\ Plan(<<"argument", b>>) \o T \in Seq(Tasks)
               /\ Doable(Plan(<<"argument", b>>) \o T, p, gens, errors)
    BY <2>1, <2>2, Do2
  <2>5. Plan(<<"Or">>) \o T \in Seq(Tasks) /\ Doable(Plan(<<"Or">>) \o T, p, gens, errors)
    BY <2>1, <2>2, Do1
  <2> QED
    BY <2>1, <2>3, <2>4, <2>5
<1> QED
  <2>1. super' \in BOOLEAN
    BY <1>1 DEF ParserInv, ScanOk
  <2> QED
    BY <1>1, <1>2, <1>3, <1>4, <1>5, <2>1, Calls DEF Onwards

\* The head of a body, and its first statement.
LEMMA BlockContentsOk ==
  ASSUME ParserInv, blockContents, UNCHANGED source
  PROVE  ParserInv'
<1>1. /\ todo # <<>> /\ task.do = "blockContents"
      /\ errors' = errors /\ super' = super /\ gens' = gens
      /\ accept("Or") /\ "Or" \in Terminals
  BY DEF blockContents, Parse, Call, Terminals
<1>2. PICK p, q \in Points :
        /\ Linked(p) /\ p.ctx = Len(gens) /\ Leads(task, p, q, gens, errors)
        /\ Doable(todo, p, gens, errors) /\ Doable(Tail(todo), q, gens, errors)
        /\ q.ctx <= Len(gens)
        /\ task \in Tasks /\ Tail(todo) \in Seq(Tasks) /\ Len(gens) \in Nat
  BY <1>1, Found
<1>3. task.do \notin Terminals \cup ClassParts \cup {"Assemble", "pattern", "Yield"}
  BY <1>1 DEF Terminals, ClassParts
<1>4. /\ p = At(p.ctx, 0, "open", TRUE) /\ q = At(p.ctx, 1, "ended", FALSE)
      /\ p.ctx \in Nat \ {0} /\ p.phase = "open"
  <2>1. /\ p = At(p.ctx, 0, "open", TRUE) /\ q = At(p.ctx, 1, "ended", FALSE)
        /\ p.ctx \in Nat \ {0}
    BY <1>1, <1>2, <1>3, MethodPoints
  <2>2. At(p.ctx, 0, "open", TRUE).phase = "open"
    BY DEF At
  <2> QED
    BY <2>1, <2>2
<1>5. todo' \in Seq(Tasks) /\ Doable(todo', p, gens, errors)
  <2> DEFINE T == Tail(todo)
  <2>1. T \in Seq(Tasks) /\ Doable(T, q, gens, errors)
    BY <1>2
  <2>2. /\ "locals" \in Texts \ Assigning /\ "Or" \in Texts \ Assigning
        /\ "blockBody" \in Texts \ Assigning
        /\ "locals" \in Terminals \cup Declarations /\ "Or" \in Terminals \cup Declarations
    BY DEF Texts, Terminals, Declarations, Assigning
  <2>3. /\ Leads(Plain("locals"), p, p, gens, errors) /\ Leads(Plain("Or"), p, p, gens, errors)
        /\ Leads(Plain("blockBody"), p, q, gens, errors)
    BY <1>4, <2>2 DEF Leads, Plain, Task, At
  <2>4. \/ todo' = Plan(<<"locals", "Or", "blockBody">>) \o T
        \/ todo' = Plan(<<"blockBody">>) \o T
    BY DEF blockContents, Do, Expand
  <2> HIDE DEF T
  <2>5. /\ Plan(<<"locals", "Or", "blockBody">>) \o T \in Seq(Tasks)
        /\ Doable(Plan(<<"locals", "Or", "blockBody">>) \o T, p, gens, errors)
    BY <2>1, <2>2, <2>3, Do3
  <2>6. /\ Plan(<<"blockBody">>) \o T \in Seq(Tasks)
        /\ Doable(Plan(<<"blockBody">>) \o T, p, gens, errors)
    BY <2>1, <2>2, <2>3, Do1
  <2> QED
    BY <2>4, <2>5, <2>6
<1> QED
  <2>1. super' \in BOOLEAN
    BY <1>1 DEF ParserInv, ScanOk
  <2> QED
    BY <1>1, <1>2, <1>3, <1>4, <1>5, <2>1, Calls DEF Onwards

\* After a yield: the next statement, or the result.
LEMMA AfterYieldOk ==
  ASSUME ParserInv, afterYield, UNCHANGED source
  PROVE  ParserInv'
<1>1. /\ todo # <<>> /\ task.do = "afterYield"
      /\ errors' = errors /\ super' = super /\ gens' = gens
      /\ accept("Exit") /\ "Exit" \in Terminals
  BY DEF afterYield, Parse, Call, Terminals
<1>2. PICK p, q \in Points :
        /\ Linked(p) /\ p.ctx = Len(gens) /\ Leads(task, p, q, gens, errors)
        /\ Doable(todo, p, gens, errors) /\ Doable(Tail(todo), q, gens, errors)
        /\ q.ctx <= Len(gens)
        /\ task \in Tasks /\ Tail(todo) \in Seq(Tasks) /\ Len(gens) \in Nat
  BY <1>1, Found
<1>3. task.do \notin Terminals \cup ClassParts \cup {"Assemble", "pattern", "Yield"}
  BY <1>1 DEF Terminals, ClassParts
<1>4. /\ p = At(p.ctx, 0, "yielded", TRUE) /\ q = At(p.ctx, 1, "ended", FALSE)
      /\ p.ctx \in Nat \ {0} /\ p.phase = "yielded" /\ p.fresh /\ p.depth = 0
  <2>1. /\ p = At(p.ctx, 0, "yielded", TRUE) /\ q = At(p.ctx, 1, "ended", FALSE)
        /\ p.ctx \in Nat \ {0}
    BY <1>1, <1>2, <1>3, MethodPoints
  <2>2. LET x == At(p.ctx, 0, "yielded", TRUE)
        IN  x.phase = "yielded" /\ x.fresh /\ x.depth = 0
    BY DEF At
  <2> QED
    BY <2>1, <2>2
<1>5. super' \in BOOLEAN
  BY <1>1 DEF ParserInv, ScanOk
<1> DEFINE T == Tail(todo)
           o0 == At(p.ctx, 0, "open", TRUE)
           o1 == At(p.ctx, 1, "open", FALSE)
           n0 == At(p.ctx, 0, "next", TRUE)
<1>6. T \in Seq(Tasks) /\ Doable(T, q, gens, errors)
  BY <1>2
<1>7. /\ "expression" \in Texts \ Assigning /\ "result" \in Texts \ Assigning
      /\ "nextStatement" \in Texts \ Assigning
  BY DEF Texts, Assigning
<1>8. /\ o0 \in Points /\ o0.phase = "open" /\ o0.ctx = p.ctx /\ o0.depth = p.depth
      /\ o1 \in Points
      /\ n0 \in Points /\ n0.phase = "next" /\ n0.ctx = p.ctx /\ n0.depth = p.depth
  BY <1>4 DEF Points, Phases, At
<1>9. /\ Leads(Plain("expression"), o0, o1, gens, errors)
      /\ Leads(Plain("result"), o1, q, gens, errors)
      /\ Leads(Plain("nextStatement"), n0, q, gens, errors)
  BY <1>4 DEF Leads, Plain, Task, At
<1>10. \/ todo' = Plan(<<"expression", "result">>) \o T
       \/ todo' = Plan(<<"nextStatement">>) \o T
  BY DEF afterYield, Do, Expand
<1> HIDE DEF T, o0, o1, n0
<1>11. CASE todo' = Plan(<<"expression", "result">>) \o T
  <2>1. todo' \in Seq(Tasks) /\ Doable(todo', o0, gens, errors)
    BY <1>6, <1>7, <1>8, <1>9, <1>11, Do2
  <2> QED
    BY <1>1, <1>2, <1>3, <1>4, <1>5, <1>8, <2>1, Calls DEF Onwards, Unfinished
<1>12. CASE todo' = Plan(<<"nextStatement">>) \o T
  <2>1. todo' \in Seq(Tasks) /\ Doable(todo', n0, gens, errors)
    BY <1>6, <1>7, <1>8, <1>9, <1>12, Do1
  <2> QED
    BY <1>1, <1>2, <1>3, <1>4, <1>5, <1>8, <2>1, Calls DEF Onwards
<1> QED
  BY <1>10, <1>11, <1>12

-----------------------------------------------------------------------------
(* Messages.                                                                *)

\* A message whose receiver, and arguments so far, are on the stack.
Message(t) ==
  /\ t \in Tasks
  /\ t.do \in {"unaryMessage", "binaryMessage"} \/ (t.do = "keywordMessage" /\ t.n = 1)

LEMMA MessageFirst ==
  ASSUME NEW T \in Seq(Tasks), NEW c \in Nat \ {0}, NEW d \in Nat \ {0}, NEW gs, NEW wrong,
         NEW t, Message(t), Doable(T, At(c, d, "open", FALSE), gs, wrong)
  PROVE  /\ Doable(<<t>> \o T, At(c, d, "read", FALSE), gs, wrong)
         /\ <<t>> \o T \in Seq(Tasks)
<1> DEFINE r == At(c, d, "read", FALSE)
           q == At(c, d, "open", FALSE)
<1>1. r \in Points /\ q \in Points
  BY DEF At, Points, Phases
<1>2. Leads(t, r, q, gs, wrong)
  <2>1. CASE t.do \in {"unaryMessage", "binaryMessage"}
    BY <2>1 DEF Leads, At
  <2>2. CASE t.do = "keywordMessage" /\ t.n = 1
    <3>1. d - 1 + 1 = d
      OBVIOUS
    <3> QED
      BY <2>2, <3>1 DEF Leads, At
  <2> QED
    BY <2>1, <2>2 DEF Message
<1>3. t \in Tasks /\ t.do \notin Assigning
  BY DEF Message, Assigning
<1> HIDE DEF r, q
<1> QED
  BY <1>1, <1>2, <1>3, Before, Prefixed DEF r, q

LEMMA NeutralsFirst ==
  ASSUME NEW T \in Seq(Tasks), NEW c \in Nat \ {0}, NEW d \in Nat \ {0}, NEW gs, NEW wrong,
         Doable(T, At(c, d, "open", FALSE), gs, wrong),
         NEW u \in Neutral, NEW v \in Neutral, NEW w \in Neutral,
         NEW U \in {T, Plan(<<u>>) \o T, Plan(<<u, v>>) \o T, Plan(<<u, v, w>>) \o T}
  PROVE  Doable(U, At(c, d, "open", FALSE), gs, wrong) /\ U \in Seq(Tasks)
<1> DEFINE q == At(c, d, "open", FALSE)
<1>1. q \in Points
  BY DEF At, Points, Phases
<1>2. ASSUME NEW s \in Neutral
      PROVE  s \in Texts \ Assigning /\ Leads(Plain(s), q, q, gs, wrong)
  <2>1. s \in Texts /\ s \notin Assigning
    BY Zenon DEF Neutral, Texts, Assigning
  <2>2. Leads(Plain(s), q, q, gs, wrong)
    BY DEF Leads, Plain, Task, At
  <2> QED
    BY <2>1, <2>2
<1> HIDE DEF q
<1>3. Doable(T, q, gs, wrong)
  BY DEF q
<1>4. CASE U = Plan(<<u>>) \o T
  BY <1>1, <1>2, <1>3, <1>4, Do1 DEF q
<1>5. CASE U = Plan(<<u, v>>) \o T
  BY <1>1, <1>2, <1>3, <1>5, Do2 DEF q
<1>6. CASE U = Plan(<<u, v, w>>) \o T
  BY <1>1, <1>2, <1>3, <1>6, Do3 DEF q
<1> QED
  BY <1>3, <1>4, <1>5, <1>6 DEF q

LEMMA Rejoined ==
  ASSUME NEW t \in Tasks, NEW U \in Seq(Tasks), NEW T \in Seq(Tasks)
  PROVE  (<<t>> \o U) \o T = <<t>> \o (U \o T)
OBVIOUS

\* Functions that go on with a message, or with what follows the messages.
LEMMA NeutralsOk ==
  ASSUME ParserInv, UNCHANGED source,
         \/ messages \/ unaryMessages \/ binaryMessages \/ keywordLast
         \/ operandMessages \/ formula \/ notSuper
  PROVE  ParserInv'
<1> DEFINE T == Tail(todo)
<1>1. /\ todo # <<>> /\ task.do \in Neutral /\ errors' = errors /\ super' \in BOOLEAN
      /\ gens' = gens /\ UNCHANGED scanner
  BY DEF messages, unaryMessages, binaryMessages, keywordLast, operandMessages, formula,
         notSuper, Again, Parse, Call, Neutral, ParserInv, ScanOk
<1>2. PICK p, q \in Points :
        /\ Linked(p) /\ p.ctx = Len(gens) /\ Leads(task, p, q, gens, errors)
        /\ Doable(todo, p, gens, errors) /\ Doable(Tail(todo), q, gens, errors)
        /\ q.ctx <= Len(gens)
        /\ task \in Tasks /\ Tail(todo) \in Seq(Tasks) /\ Len(gens) \in Nat
  BY <1>1, Found
<1>3. /\ task.do \notin Terminals \cup ClassParts \cup {"Assemble", "pattern", "Yield"}
      /\ task.do \in Neutral
  BY <1>1 DEF Terminals, ClassParts, Neutral
<1> DEFINE c == p.ctx
           d == p.depth
           r == At(c, d, "read", FALSE)
<1>4. /\ c \in Nat \ {0} /\ d \in Nat \ {0} /\ p.phase = "open"
      /\ q = At(c, d, "open", FALSE)
  <2>1. p.depth \in Nat
    BY DEF Points
  <2>2. /\ p.ctx \in Nat \ {0} /\ p.phase = "open" /\ p.depth >= 1
        /\ q = At(p.ctx, p.depth, "open", FALSE)
    <3>1. p.ctx \in Nat \ {0}
      BY <1>2, <1>3, MethodPoints
    <3>2. p.phase = "open" /\ p.depth >= 1 /\ q = At(p.ctx, p.depth, "open", FALSE)
      BY <1>2, <1>3, MethodPoints
    <3> QED
      BY <3>1, <3>2
  <2> QED
    BY <2>1, <2>2
<1>5. /\ q.phase = "open" /\ q.ctx = p.ctx /\ q.depth = p.depth /\ ~q.fresh
      /\ r \in Points /\ r.phase = "read" /\ r.ctx = p.ctx /\ r.depth = p.depth /\ ~r.fresh
  BY <1>4 DEF At, Points, Phases
<1>6. T \in Seq(Tasks) /\ Doable(T, q, gens, errors)
  BY <1>2
<1>7. \/ todo' = T
      \/ /\ sym.sym # "Yield"
         /\ \E t, U : /\ Message(t) /\ Doable(U, q, gens, errors) /\ U \in Seq(Tasks)
                      /\ todo' = <<t>> \o U
  <2> HIDE DEF T, c, d, r
  <2>1. Plan(<<>>) \o T = T
    BY <1>6, Planned0
  <2>2. /\ \A u, v, w \in Neutral :
             /\ Doable(Plan(<<u>>) \o T, q, gens, errors) /\ Plan(<<u>>) \o T \in Seq(Tasks)
             /\ Doable(Plan(<<u, v>>) \o T, q, gens, errors) /\ Plan(<<u, v>>) \o T \in Seq(Tasks)
             /\ Doable(Plan(<<u, v, w>>) \o T, q, gens, errors)
             /\ Plan(<<u, v, w>>) \o T \in Seq(Tasks)
    BY <1>4, <1>6, NeutralsFirst
  <2>3. ASSUME NEW s \in BOOLEAN
        PROVE  /\ Message(Task("unaryMessage", 0, s, <<>>))
               /\ Message(Task("binaryMessage", 0, s, <<>>))
               /\ Message(Task("keywordMessage", 1, s, <<>>))
    <3>1. "unaryMessage" \in Texts /\ "binaryMessage" \in Texts /\ "keywordMessage" \in Texts
      BY DEF Texts
    <3> QED
      BY <3>1, TaskIsTask DEF Message
  <2>4. Plain("unaryMessage") = Task("unaryMessage", 0, FALSE, <<>>)
        /\ Plain("binaryMessage") = Task("binaryMessage", 0, FALSE, <<>>)
    BY DEF Plain
  <2>5. \A t \in Tasks, U \in Seq(Tasks) : (<<t>> \o U) \o T = <<t>> \o (U \o T)
    BY <1>6, Rejoined
  <2>6. \A t : Message(t) => t \in Tasks
    BY DEF Message
  <2>7. super \in BOOLEAN /\ FALSE \in BOOLEAN
    BY DEF ParserInv, ScanOk
  <2>8. "Yield" \notin {"Identifier", "Keyword"} \cup binaryOpSyms
    BY DEF binaryOpSyms, singleOpSyms
  <2>9. CASE messages
    <3>1. \/ todo' = Plan(<<>>) \o T
          \/ /\ sym.sym # "Yield"
             /\ \/ todo' = (<<Task("unaryMessage", 0, super, <<>>)>>
                             \o Plan(<<"unaryMessages", "binaryMessages", "keywordLast">>)) \o T
                \/ todo' = (<<Task("binaryMessage", 0, super, <<>>)>>
                             \o Plan(<<"binaryMessages", "keywordLast">>)) \o T
                \/ todo' = <<Task("keywordMessage", 1, super, <<>>)>> \o T
      BY <2>8, <2>9 DEF messages, Expand, Do, T
    <3>2. /\ Plan(<<"unaryMessages", "binaryMessages", "keywordLast">>) \in Seq(Tasks)
          /\ Plan(<<"binaryMessages", "keywordLast">>) \in Seq(Tasks)
      <4>1. /\ <<"unaryMessages", "binaryMessages", "keywordLast">> \in Seq(Texts)
            /\ <<"binaryMessages", "keywordLast">> \in Seq(Texts)
        BY DEF Texts
      <4> QED
        BY <4>1, PlanIsSeq
    <3>3. {"unaryMessages", "binaryMessages", "keywordLast"} \subseteq Neutral
      BY DEF Neutral
    <3>4. CASE todo' = (<<Task("unaryMessage", 0, super, <<>>)>>
                         \o Plan(<<"unaryMessages", "binaryMessages", "keywordLast">>)) \o T
               /\ sym.sym # "Yield"
      <4> DEFINE t == Task("unaryMessage", 0, super, <<>>)
                 U == Plan(<<"unaryMessages", "binaryMessages", "keywordLast">>) \o T
      <4>1. Message(t) /\ Doable(U, q, gens, errors) /\ U \in Seq(Tasks)
        BY <2>2, <2>3, <2>7, <3>3
      <4>2. todo' = <<t>> \o U
        BY <2>5, <2>6, <3>2, <3>4, <4>1
      <4> HIDE DEF t, U
      <4> QED
        BY <3>4, <4>1, <4>2
    <3>5. CASE todo' = (<<Task("binaryMessage", 0, super, <<>>)>>
                         \o Plan(<<"binaryMessages", "keywordLast">>)) \o T
               /\ sym.sym # "Yield"
      <4> DEFINE t == Task("binaryMessage", 0, super, <<>>)
                 U == Plan(<<"binaryMessages", "keywordLast">>) \o T
      <4>1. Message(t) /\ Doable(U, q, gens, errors) /\ U \in Seq(Tasks)
        BY <2>2, <2>3, <2>7, <3>3
      <4>2. todo' = <<t>> \o U
        BY <2>5, <2>6, <3>2, <3>5, <4>1
      <4> HIDE DEF t, U
      <4> QED
        BY <3>5, <4>1, <4>2
    <3>6. CASE todo' = <<Task("keywordMessage", 1, super, <<>>)>> \o T /\ sym.sym # "Yield"
      BY <1>6, <2>3, <2>7, <3>6
    <3> QED
      BY <2>1, <3>1, <3>4, <3>5, <3>6
  <2>10. CASE unaryMessages \/ binaryMessages
    <3>1. \/ todo' = Plan(<<>>) \o T
          \/ /\ sym.sym # "Yield"
             /\ \/ todo' = Plan(<<"unaryMessage", "unaryMessages">>) \o T
                \/ todo' = Plan(<<"binaryMessage", "binaryMessages">>) \o T
      BY <2>8, <2>10 DEF unaryMessages, binaryMessages, Again, Expand, Do, T
    <3>2. ASSUME NEW a \in {"unaryMessage", "binaryMessage"},
                 NEW b \in {"unaryMessages", "binaryMessages"}
          PROVE  Plan(<<a, b>>) \o T = <<Plain(a)>> \o (Plan(<<b>>) \o T)
      <4>1. a \in Texts /\ b \in Texts
        BY DEF Texts
      <4>2. <<b>> \in Seq(Texts) /\ <<a, b>> = <<a>> \o <<b>>
        BY <4>1, Tuple2
      <4> QED
        BY <1>6, <4>1, <4>2, PlanSplit
    <3>3. {"unaryMessages", "binaryMessages"} \subseteq Neutral
      BY DEF Neutral
    <3>4. CASE todo' = Plan(<<"unaryMessage", "unaryMessages">>) \o T /\ sym.sym # "Yield"
      BY <2>2, <2>3, <2>4, <2>7, <3>2, <3>3, <3>4
    <3>5. CASE todo' = Plan(<<"binaryMessage", "binaryMessages">>) \o T /\ sym.sym # "Yield"
      BY <2>2, <2>3, <2>4, <2>7, <3>2, <3>3, <3>5
    <3> QED
      BY <2>1, <3>1, <3>4, <3>5
  <2>11. CASE keywordLast
    <3>1. \/ todo' = Plan(<<>>) \o T
          \/ sym.sym # "Yield" /\ todo' = <<Task("keywordMessage", 1, FALSE, <<>>)>> \o T
      BY <2>8, <2>11 DEF keywordLast, Expand, Do, T
    <3> QED
      BY <1>6, <2>1, <2>3, <2>7, <3>1
  <2>12. CASE operandMessages
    <3>1. \/ todo' = Plan(<<>>) \o T
          \/ /\ sym.sym # "Yield"
             /\ todo' = <<Task("unaryMessage", 0, super, <<>>), task>> \o T
      BY <2>8, <2>12 DEF operandMessages, Expand, Do, T
    <3>2. <<Task("unaryMessage", 0, super, <<>>), task>> \o T
            = <<Task("unaryMessage", 0, super, <<>>)>> \o todo
      <4>1. todo = <<task>> \o T /\ <<task>> \in Seq(Tasks)
        BY <1>1, <1>2 DEF task, T, ParserInv
      <4>2. <<Task("unaryMessage", 0, super, <<>>), task>>
              = <<Task("unaryMessage", 0, super, <<>>)>> \o <<task>>
        BY Tuple2
      <4> QED
        BY <2>3, <2>5, <2>6, <2>7, <4>1, <4>2
    <3>3. todo \in Seq(Tasks) /\ Doable(todo, q, gens, errors)
      <4>1. Leads(task, q, q, gens, errors) /\ task.do \notin Assigning
        BY <1>1, <1>4 DEF Leads, At, Assigning, Neutral
      <4>2. todo = <<task>> \o T
        BY <1>1 DEF task, T, ParserInv
      <4> QED
        BY <1>2, <1>6, <4>1, <4>2, Before DEF ParserInv
    <3> QED
      BY <2>1, <2>3, <2>7, <3>1, <3>2, <3>3
  <2>13. CASE formula
    <3>1. \/ todo' = Plan(<<>>) \o T
          \/ /\ sym.sym # "Yield"
             /\ todo' = (<<Task("binaryMessage", 0, super, <<>>)>>
                            \o Plan(<<"binaryMessages">>)) \o T
      BY <2>8, <2>13 DEF formula, Expand, Do, T
    <3>2. Plan(<<"binaryMessages">>) \in Seq(Tasks)
      <4>1. <<"binaryMessages">> \in Seq(Texts)
        BY DEF Texts
      <4> QED
        BY <4>1, PlanIsSeq
    <3>3. "binaryMessages" \in Neutral
      BY DEF Neutral
    <3> DEFINE t == Task("binaryMessage", 0, super, <<>>)
               U == Plan(<<"binaryMessages">>) \o T
    <3>4. Message(t) /\ Doable(U, q, gens, errors) /\ U \in Seq(Tasks)
      BY <2>2, <2>3, <2>7, <3>3
    <3>5. (<<t>> \o Plan(<<"binaryMessages">>)) \o T = <<t>> \o U
      BY <2>5, <2>6, <3>2, <3>4
    <3>6. todo' = T \/ (sym.sym # "Yield" /\ todo' = <<t>> \o U)
      BY <2>1, <3>1, <3>5
    <3> HIDE DEF t, U
    <3> QED
      BY <3>4, <3>6
  <2>14. CASE notSuper
    BY <2>1, <2>14 DEF notSuper, Do, Expand, T
  <2> QED
    BY <2>9, <2>10, <2>11, <2>12, <2>13, <2>14
<1>8. task.do \notin Terminals \cup {"pattern", "Yield"}
  BY <1>3
<1>9. CASE todo' = T
  <2>1. todo' \in Seq(Tasks) /\ Doable(todo', q, gens, errors)
    BY <1>6, <1>9
  <2>2. Onwards(p, q)
    BY <1>4, <1>5 DEF Onwards
  <2> HIDE DEF r, c, d, T
  <2> QED
    BY <1>1, <1>2, <1>5, <1>8, <2>1, <2>2, Calls
<1>10. CASE /\ sym.sym # "Yield"
            /\ \E t, U : /\ Message(t) /\ Doable(U, q, gens, errors) /\ U \in Seq(Tasks)
                         /\ todo' = <<t>> \o U
  <2>1. todo' \in Seq(Tasks) /\ Doable(todo', r, gens, errors)
    <3>1. PICK t, U : /\ Message(t) /\ Doable(U, q, gens, errors) /\ U \in Seq(Tasks)
                      /\ todo' = <<t>> \o U
      BY <1>10
    <3> HIDE DEF c, d, T
    <3> QED
      BY <1>4, <3>1, MessageFirst
  <2>2. Onwards(p, r)
    BY <1>4, <1>5 DEF Onwards, Unfinished
  <2> HIDE DEF r, c, d, T
  <2> QED
    BY <1>1, <1>2, <1>5, <1>8, <1>10, <2>1, <2>2, Calls
<1> QED
  BY <1>7, <1>9, <1>10

LEMMA AppendedTask ==
  ASSUME NEW U \in Seq(Tasks), NEW t \in Tasks, NEW T \in Seq(Tasks)
  PROVE  (U \o <<t>>) \o T = U \o (<<t>> \o T)
OBVIOUS

\* A function that reads the current symbol.
LEMMA Reads ==
  ASSUME ParserInv, GetSym, source' = source, errors' = errors, super' \in BOOLEAN,
         gens' = gens, todo' \in Seq(Tasks),
         NEW p \in Points, NEW q \in Points, Linked(p), q.ctx = p.ctx, q.depth = p.depth,
         Onwards(p, q), sym.sym = "Yield" => p.phase \notin {"open", "ended", "closed"},
         Doable(todo', q, gens, errors)
  PROVE  ParserInv'
<1>1. /\ sym' \in Words /\ sym'.sym # "Yield" /\ nextSym' = NoToken
      /\ read' \in 1..source.length
  BY GetSymOk DEF ParserInv
<1>2. ScanStep
  BY <1>1 DEF ScanStep, Symbols, ParserInv, ScanOk
<1>3. Ahead(q, sym', nextSym', todo')
  BY <1>1 DEF Ahead
<1>4. ~errors => sym.sym # "Yield"
  BY DEF Linked, Counts
<1> QED
  BY <1>1, <1>2, <1>3, <1>4, Proceed

\* The name of a method.
LEMMA PatternOk ==
  ASSUME ParserInv, pattern, UNCHANGED source
  PROVE  ParserInv'
<1> DEFINE T == Tail(todo)
<1>1. /\ todo # <<>> /\ task.do = "pattern" /\ errors' = errors /\ gens' = gens
      /\ super' = super /\ GetSym
      /\ \/ todo' = Plan(<<>>) \o T
         \/ todo' = Plan(<<"argument", "keywordPattern">>) \o T
         \/ todo' = Plan(<<"argument">>) \o T
  BY DEF pattern, Parse, Call, Do, Expand
<1>2. PICK p, q \in Points :
        /\ Linked(p) /\ p.ctx = Len(gens) /\ Leads(task, p, q, gens, errors)
        /\ Doable(todo, p, gens, errors) /\ Doable(Tail(todo), q, gens, errors)
        /\ q.ctx <= Len(gens)
        /\ task \in Tasks /\ Tail(todo) \in Seq(Tasks) /\ Len(gens) \in Nat
  BY <1>1, Found
<1>3. task.do \notin Terminals \cup ClassParts \cup {"Assemble"}
  BY <1>1 DEF Terminals, ClassParts
<1>4. /\ p.phase = "read" /\ q = At(p.ctx, p.depth, "open", p.fresh)
      /\ p.ctx \in Nat \ {0}
  BY <1>1, <1>2, <1>3, MethodPoints
<1>5. q.ctx = p.ctx /\ q.depth = p.depth /\ q.phase = "open"
  BY <1>4 DEF At
<1>6. todo' \in Seq(Tasks) /\ Doable(todo', q, gens, errors)
  <2>1. \A s \in {"argument", "keywordPattern"} :
          s \in Texts \ Assigning /\ Leads(Plain(s), q, q, gens, errors)
    <3>1. {"argument", "keywordPattern"} \subseteq Texts \ Assigning
      BY DEF Texts, Assigning
    <3>2. {"argument", "keywordPattern"} \subseteq Declarations
      BY DEF Declarations
    <3>3. q.phase = "open" /\ q = At(q.ctx, q.depth, "open", q.fresh)
      BY <1>4, <1>5 DEF At
    <3>4. ASSUME NEW s \in Declarations
          PROVE  Leads(Plain(s), q, q, gens, errors)
      BY <1>4, <3>3 DEF Leads, Plain, Task, At
    <3> QED
      BY <3>1, <3>2, <3>4
  <2>2. T \in Seq(Tasks) /\ Doable(T, q, gens, errors)
    BY <1>2
  <2> HIDE DEF T
  <2>3. CASE todo' = Plan(<<>>) \o T
    BY <2>2, <2>3, Planned0
  <2>4. CASE todo' = Plan(<<"argument", "keywordPattern">>) \o T
    BY <2>1, <2>2, <2>4, Do2
  <2>5. CASE todo' = Plan(<<"argument">>) \o T
    BY <2>1, <2>2, <2>5, Do1
  <2> QED
    BY <1>1, <2>3, <2>4, <2>5
<1>7. Onwards(p, q)
  BY <1>4, <1>5 DEF Onwards, Unfinished
<1>8. super' \in BOOLEAN
  BY <1>1 DEF ParserInv, ScanOk
<1> QED
  BY <1>1, <1>2, <1>4, <1>5, <1>6, <1>7, <1>8, Reads

\* One keyword after the other, and the operand of each.
LEMMA KeywordsOk ==
  ASSUME ParserInv, keywordMessage \/ moreKeywords, UNCHANGED source
  PROVE  ParserInv'
<1> DEFINE T == Tail(todo)
           n == task.n
<1>1. /\ todo # <<>> /\ errors' = errors /\ gens' = gens /\ super' = super
      /\ \/ /\ task.do = "keywordMessage" /\ GetSym
            /\ todo' = (Plan(<<"primary", "operandMessages", "formula">>)
                          \o <<Task("moreKeywords", n + 1, task.isSuper, <<>>)>>) \o T
         \/ /\ task.do = "moreKeywords" /\ UNCHANGED scanner
            /\ \/ /\ sym.sym = "Keyword"
                  /\ todo' = <<[task EXCEPT !.do = "keywordMessage"]>> \o T
               \/ todo' = <<[task EXCEPT !.do = "send"]>> \o T
  BY DEF keywordMessage, moreKeywords, Parse, Call, Expand
<1>2. PICK p, q \in Points :
        /\ Linked(p) /\ p.ctx = Len(gens) /\ Leads(task, p, q, gens, errors)
        /\ Doable(todo, p, gens, errors) /\ Doable(Tail(todo), q, gens, errors)
        /\ q.ctx <= Len(gens)
        /\ task \in Tasks /\ Tail(todo) \in Seq(Tasks) /\ Len(gens) \in Nat
  BY <1>1, Found
<1>3. /\ task.do \notin Terminals \cup ClassParts \cup {"Assemble", "pattern", "Yield"}
      /\ task.do \in {"keywordMessage", "moreKeywords", "send"}
  BY <1>1 DEF Terminals, ClassParts
<1> DEFINE c == p.ctx
           d == p.depth
           o == At(c, d, "open", FALSE)
           o1 == At(c, d + 1, "open", FALSE)
           r == At(c, d, "read", FALSE)
<1>4. /\ c \in Nat \ {0} /\ d \in Nat /\ n \in Nat \ {0} /\ d >= n
      /\ p.phase = IF task.do = "keywordMessage" THEN "read" ELSE "open"
      /\ q = At(c, d - n + 1, "open", FALSE)
  <2>1. /\ p.ctx \in Nat \ {0}
        /\ p.phase = IF task.do = "keywordMessage" THEN "read" ELSE "open"
        /\ task.n >= 1 /\ p.depth >= task.n
        /\ q = At(p.ctx, p.depth - task.n + 1, "open", FALSE)
    BY <1>2, <1>3, MethodPoints
  <2>2. p.depth \in Nat /\ task.n \in Nat
    BY <1>2 DEF Points, Tasks
  <2> QED
    BY <2>1, <2>2
<1>5. T \in Seq(Tasks) /\ Doable(T, q, gens, errors) /\ super' \in BOOLEAN
  BY <1>1, <1>2 DEF ParserInv, ScanOk
<1>6. /\ o \in Points /\ o.ctx = c /\ o.depth = d /\ o.phase = "open" /\ ~o.fresh
      /\ r \in Points /\ r.ctx = c /\ r.depth = d /\ r.phase = "read" /\ ~r.fresh
      /\ o1 \in Points /\ d + 1 \in Nat
  BY <1>4 DEF At, Points, Phases
<1>7. CASE /\ task.do = "keywordMessage" /\ GetSym
           /\ todo' = (Plan(<<"primary", "operandMessages", "formula">>)
                         \o <<Task("moreKeywords", n + 1, task.isSuper, <<>>)>>) \o T
  <2> DEFINE t == Task("moreKeywords", n + 1, task.isSuper, <<>>)
             U == <<t>> \o T
             fs == <<"primary", "operandMessages", "formula">>
  <2>1. t \in Tasks /\ t.do = "moreKeywords" /\ t.n = n + 1
    <3>1. "moreKeywords" \in Texts /\ n + 1 \in Nat /\ task.isSuper \in BOOLEAN
      <4>1. "moreKeywords" \in Texts
        BY DEF Texts
      <4>2. n + 1 \in Nat
        BY <1>4
      <4>3. task.isSuper \in BOOLEAN
        BY <1>2 DEF Tasks
      <4> QED
        BY <4>1, <4>2, <4>3
    <3> QED
      BY <3>1, TaskIsTask
  <2>2. Leads(t, o1, q, gens, errors)
    <3>1. (d + 1) - (n + 1) + 1 = d - n + 1 /\ d + 1 >= n + 1 /\ n + 1 >= 1
      BY <1>4
    <3> QED
      BY <1>4, <2>1, <3>1 DEF Leads, At
  <2>3. U \in Seq(Tasks) /\ Doable(U, o1, gens, errors)
    <3>1. t.do \notin Assigning
      BY <2>1 DEF Assigning
    <3> HIDE DEF t, o1, T
    <3> QED
      BY <1>2, <1>5, <1>6, <2>1, <2>2, <3>1, Before, Prefixed
  <2>4. Plan(fs) \in Seq(Tasks)
    <3>1. fs \in Seq(Texts)
      BY DEF Texts
    <3> QED
      BY <3>1, PlanIsSeq
  <2>5. /\ Leads(Plain("primary"), o, o1, gens, errors)
        /\ Leads(Plain("operandMessages"), o1, o1, gens, errors)
        /\ Leads(Plain("formula"), o1, o1, gens, errors)
    <3>1. d + 1 >= 1
      BY <1>4
    <3> QED
      BY <1>4, <3>1 DEF Leads, At, Plain, Task, Neutral
  <2>6. /\ "primary" \in Texts \ Assigning /\ "operandMessages" \in Texts \ Assigning
        /\ "formula" \in Texts \ Assigning
    BY DEF Texts, Assigning
  <2>7. todo' = Plan(fs) \o U
    <3> HIDE DEF fs, t
    <3> QED
      BY <1>5, <1>7, <2>1, <2>4, AppendedTask DEF fs, t
  <2> HIDE DEF o, o1, U, t, T
  <2>8. todo' \in Seq(Tasks) /\ Doable(todo', o, gens, errors)
    BY <1>6, <2>3, <2>5, <2>6, <2>7, Do3
  <2>9. Onwards(p, o) /\ p.phase = "read"
    BY <1>4, <1>6, <1>7 DEF Onwards, Unfinished
  <2> QED
    BY <1>1, <1>2, <1>5, <1>6, <1>7, <2>8, <2>9, Reads
<1>8. CASE /\ task.do = "moreKeywords" /\ UNCHANGED scanner /\ sym.sym = "Keyword"
           /\ todo' = <<[task EXCEPT !.do = "keywordMessage"]>> \o T
  <2> DEFINE t == [task EXCEPT !.do = "keywordMessage"]
  <2>1. t \in Tasks /\ t.do = "keywordMessage" /\ t.n = n
    BY <1>2 DEF Tasks, Texts
  <2>2. Leads(t, r, q, gens, errors)
    BY <1>4, <2>1 DEF Leads, At
  <2>3. t.do \notin Assigning
    BY <2>1 DEF Assigning
  <2>4. todo' \in Seq(Tasks) /\ Doable(todo', r, gens, errors)
    <3>1. todo' = <<t>> \o T
      BY <1>8
    <3> HIDE DEF t, r, T
    <3> QED
      BY <1>2, <1>5, <1>6, <2>1, <2>2, <2>3, <3>1, Before, Prefixed
  <2>5. Onwards(p, r) /\ sym.sym # "Yield"
    BY <1>4, <1>6, <1>8 DEF Onwards, Unfinished
  <2>6. task.do \notin Terminals \cup {"pattern", "Yield"}
    BY <1>3
  <2> HIDE DEF r, T
  <2> QED
    BY <1>1, <1>2, <1>5, <1>6, <1>8, <2>4, <2>5, <2>6, Calls
<1>9. CASE /\ task.do = "moreKeywords" /\ UNCHANGED scanner
           /\ todo' = <<[task EXCEPT !.do = "send"]>> \o T
  <2> DEFINE t == [task EXCEPT !.do = "send"]
  <2>1. t \in Tasks /\ t.do = "send" /\ t.n = n
    BY <1>2 DEF Tasks, Texts
  <2>2. Leads(t, o, q, gens, errors)
    BY <1>4, <2>1 DEF Leads, At
  <2>3. t.do \notin Assigning
    BY <2>1 DEF Assigning
  <2>4. todo' \in Seq(Tasks) /\ Doable(todo', o, gens, errors)
    <3>1. todo' = <<t>> \o T
      BY <1>9
    <3> HIDE DEF t, o, T
    <3> QED
      BY <1>2, <1>5, <1>6, <2>1, <2>2, <2>3, <3>1, Before, Prefixed
  <2>5. Onwards(p, o)
    BY <1>4, <1>6, <1>9 DEF Onwards
  <2>6. task.do \notin Terminals \cup {"pattern", "Yield"}
    BY <1>3
  <2> HIDE DEF o, T
  <2> QED
    BY <1>1, <1>2, <1>5, <1>6, <1>9, <2>4, <2>5, <2>6, Calls
<1> QED
  BY <1>1, <1>7, <1>8, <1>9

-----------------------------------------------------------------------------
(* Symbols, expressions, and assignments.                                   *)

LEMMA HeadOfPlan ==
  ASSUME NEW T \in Seq(Tasks), NEW fs \in Seq(Texts), NEW f \in Texts
  PROVE  Plan(<<f>> \o fs) \o T # <<>> /\ Head(Plan(<<f>> \o fs) \o T).do = f
<1>1. Plan(<<f>> \o fs) \o T = <<Plain(f)>> \o (Plan(fs) \o T)
  BY PlanSplit
<1>2. Plain(f) \in Tasks /\ Plain(f).do = f /\ Plan(fs) \o T \in Seq(Tasks)
  BY PlainIsTask, PlanIsSeq
<1> QED
  BY <1>1, <1>2

\* A symbol that is read, or reported.
LEMMA ExpectOk ==
  ASSUME ParserInv, expect, UNCHANGED source
  PROVE  ParserInv'
<1> DEFINE T == Tail(todo)
<1>1. /\ todo # <<>> /\ task.do \in Terminals /\ gens' = gens /\ super' = super
      /\ todo' = Plan(<<>>) \o T
      /\ \/ sym.sym = task.do /\ GetSym /\ errors' = errors
         \/ sym.sym # task.do /\ UNCHANGED scanner /\ errors' = TRUE
  BY DEF expect, accept, Do, Expand, Report
<1>2. PICK p, q \in Points :
        /\ Linked(p) /\ p.ctx = Len(gens) /\ Leads(task, p, q, gens, errors)
        /\ Doable(todo, p, gens, errors) /\ Doable(Tail(todo), q, gens, errors)
        /\ q.ctx <= Len(gens)
        /\ task \in Tasks /\ Tail(todo) \in Seq(Tasks) /\ Len(gens) \in Nat
  BY <1>1, Found
<1>3. /\ p.phase \in {"class", "open", "closed"}
      /\ q = At(p.ctx, p.depth, IF p.phase = "closed" THEN "left" ELSE p.phase, p.fresh)
  BY <1>1, <1>2, ClassPoints
<1>4. /\ q.ctx = p.ctx /\ q.depth = p.depth /\ q.fresh = p.fresh
      /\ q.phase = IF p.phase = "closed" THEN "left" ELSE p.phase
  BY <1>3 DEF At
<1>5. todo' \in Seq(Tasks) /\ Doable(todo', q, gens, errors)
  BY <1>1, <1>2, Planned0
<1>6. Onwards(p, q) /\ super' \in BOOLEAN
  BY <1>1, <1>3, <1>4 DEF Onwards, ParserInv, ScanOk
<1>7. "Yield" \notin Terminals /\ "pattern" \notin Terminals
  BY DEF Terminals
<1>8. CASE sym.sym = task.do /\ GetSym /\ errors' = errors
  <2>1. sym.sym # "Yield"
    BY <1>1, <1>7, <1>8
  <2> QED
    BY <1>1, <1>2, <1>4, <1>5, <1>6, <1>8, <2>1, Reads
<1>9. CASE sym.sym # task.do /\ UNCHANGED scanner /\ errors' = TRUE
  <2>1. ScanStep
    BY <1>6, <1>9, ScanUnchanged DEF ScanStep, ParserInv
  <2>2. Ahead(q, sym', nextSym', todo')
    BY <1>1, <1>2, <1>4, <1>7, <1>9 DEF Linked, Ahead, task, scanner
  <2> QED
    BY <1>1, <1>2, <1>4, <1>5, <1>6, <1>9, <2>1, <2>2, Proceed
<1> QED
  BY <1>1, <1>8, <1>9

LEMMA SelectorOk ==
  ASSUME ParserInv, selector, UNCHANGED source
  PROVE  ParserInv'
<1> DEFINE T == Tail(todo)
<1>1. /\ todo # <<>> /\ task.do = "selector" /\ gens' = gens /\ super' = super
      /\ todo' = Plan(<<>>) \o T
      /\ \/ sym.sym # "Yield" /\ GetSym /\ errors' = errors
         \/ UNCHANGED scanner /\ errors' = TRUE
  <2>1. "Yield" \notin {"STString", "Identifier", "Primitive"} \cup singleOpSyms
                         \cup keywordSelectorSyms
    BY DEF singleOpSyms, keywordSelectorSyms
  <2> QED
    BY <2>1 DEF selector, Call, Do, Expand, Report
<1>2. PICK p, q \in Points :
        /\ Linked(p) /\ p.ctx = Len(gens) /\ Leads(task, p, q, gens, errors)
        /\ Doable(todo, p, gens, errors) /\ Doable(Tail(todo), q, gens, errors)
        /\ q.ctx <= Len(gens)
        /\ task \in Tasks /\ Tail(todo) \in Seq(Tasks) /\ Len(gens) \in Nat
  BY <1>1, Found
<1>3. task.do \notin Terminals \cup ClassParts \cup {"Assemble"}
  BY <1>1 DEF Terminals, ClassParts
<1>4. p.phase = "open" /\ q = At(p.ctx, p.depth, "open", FALSE)
  BY <1>1, <1>2, <1>3, MethodPoints
<1>5. q.ctx = p.ctx /\ q.depth = p.depth /\ ~q.fresh /\ q.phase = "open"
  BY <1>4 DEF At
<1>6. todo' \in Seq(Tasks) /\ Doable(todo', q, gens, errors)
  BY <1>1, <1>2, Planned0
<1>7. Onwards(p, q) /\ super' \in BOOLEAN
  BY <1>1, <1>4, <1>5 DEF Onwards, ParserInv, ScanOk
<1>8. CASE sym.sym # "Yield" /\ GetSym /\ errors' = errors
  BY <1>1, <1>2, <1>5, <1>6, <1>7, <1>8, Reads
<1>9. CASE UNCHANGED scanner /\ errors' = TRUE
  <2>1. ScanStep
    BY <1>7, <1>9, ScanUnchanged DEF ScanStep, ParserInv
  <2>2. Ahead(q, sym', nextSym', todo')
    BY <1>5 DEF Ahead
  <2> QED
    BY <1>1, <1>2, <1>5, <1>6, <1>7, <1>9, <2>1, <2>2, Proceed
<1> QED
  BY <1>1, <1>8, <1>9

LEMMA NestedTermOk ==
  ASSUME ParserInv, nestedTerm, UNCHANGED source
  PROVE  ParserInv'
<1>1. /\ todo # <<>> /\ task.do = "primary" /\ gens' = gens /\ super' = super
      /\ errors' = errors /\ UNCHANGED scanner /\ sym.sym = "NewTerm"
      /\ todo' = Plan(<<"NewTerm", "expression", "EndTerm", "notSuper">>) \o Tail(todo)
  BY DEF nestedTerm, Parse, Call, Do, Expand
<1>2. PICK p, q \in Points :
        /\ Linked(p) /\ p.ctx = Len(gens) /\ Leads(task, p, q, gens, errors)
        /\ Doable(todo, p, gens, errors) /\ Doable(Tail(todo), q, gens, errors)
        /\ q.ctx <= Len(gens)
        /\ task \in Tasks /\ Tail(todo) \in Seq(Tasks) /\ Len(gens) \in Nat
  BY <1>1, Found
<1>3. task.do \notin Terminals \cup ClassParts \cup {"Assemble"}
  BY <1>1 DEF Terminals, ClassParts
<1>4. /\ p.phase = "open" /\ q = At(p.ctx, p.depth + 1, "open", FALSE)
      /\ p.ctx \in Nat \ {0} /\ p.depth \in Nat
  <2>1. p.phase = "open" /\ q = At(p.ctx, p.depth + 1, "open", FALSE)
    BY <1>1, <1>2, <1>3, MethodPoints
  <2>2. p.ctx \in Nat \ {0}
    BY <1>1, <1>2, <1>3, MethodPoints
  <2> QED
    BY <2>1, <2>2 DEF Points
<1> DEFINE o == At(p.ctx, p.depth, "open", TRUE)
           T == Tail(todo)
<1>5. o \in Points /\ o.ctx = p.ctx /\ o.depth = p.depth /\ o.phase = "open"
  BY <1>4 DEF At, Points, Phases
<1>6. /\ Leads(Plain("NewTerm"), o, o, gens, errors)
      /\ Leads(Plain("expression"), o, q, gens, errors)
      /\ Leads(Plain("EndTerm"), q, q, gens, errors)
      /\ Leads(Plain("notSuper"), q, q, gens, errors)
  BY <1>4 DEF Leads, Plain, Task, At, Terminals, Neutral
<1>7. /\ "NewTerm" \in Texts \ Assigning /\ "expression" \in Texts \ Assigning
      /\ "EndTerm" \in Texts \ Assigning /\ "notSuper" \in Texts \ Assigning
  BY DEF Texts, Terminals, Assigning
<1>8. todo' \in Seq(Tasks) /\ Doable(todo', o, gens, errors)
  <2> HIDE DEF o, T
  <2> QED
    BY <1>1, <1>2, <1>5, <1>6, <1>7, Do4 DEF T
<1>9. todo' # <<>> /\ Head(todo').do = "NewTerm"
  <2>1. <<"expression", "EndTerm", "notSuper">> \in Seq(Texts)
    BY <1>7
  <2>2. <<"NewTerm", "expression", "EndTerm", "notSuper">>
          = <<"NewTerm">> \o <<"expression", "EndTerm", "notSuper">>
    BY Tuple4
  <2> DEFINE fs == <<"expression", "EndTerm", "notSuper">>
  <2>3. todo' = Plan(<<"NewTerm">> \o fs) \o T
    BY <1>1, <2>2
  <2> HIDE DEF fs, T
  <2> QED
    BY <1>2, <1>7, <2>1, <2>3, HeadOfPlan DEF fs, T
<1>10. ScanStep
  BY <1>1, ScanUnchanged DEF ScanStep, ParserInv, ScanOk
<1>11. Ahead(o, sym', nextSym', todo')
  BY <1>1, <1>9 DEF Ahead, scanner
<1>12. Onwards(p, o)
  BY <1>4, <1>5 DEF Onwards
<1> HIDE DEF o
<1> QED
  BY <1>1, <1>2, <1>5, <1>8, <1>10, <1>11, <1>12, Proceed DEF scanner

LEMMA FirstThree ==
  ASSUME NEW T \in Seq(Tasks), NEW a \in Texts, NEW b \in Texts, NEW c \in Texts
  PROVE  LET U == Plan(<<a, b, c>>) \o T
         IN  3 \in DOMAIN U /\ U[1].do = a /\ U[2].do = b /\ U[3].do = c
<1> DEFINE fs == <<a, b, c>>
           P == Plan(fs)
           U == P \o T
<1>1. fs \in Seq(Texts) /\ Len(fs) = 3 /\ fs[1] = a /\ fs[2] = b /\ fs[3] = c
  OBVIOUS
<1> HIDE DEF fs
<1>2. /\ P \in Seq(Tasks) /\ Len(P) = 3 /\ P[1] = Plain(a) /\ P[2] = Plain(b) /\ P[3] = Plain(c)
  BY <1>1, PlanIsSeq
<1> HIDE DEF P
<1>3. 3 \in DOMAIN U /\ U[1] = P[1] /\ U[2] = P[2] /\ U[3] = P[3]
  BY <1>2
<1>4. Plain(a).do = a /\ Plain(b).do = b /\ Plain(c).do = c
  BY PlainIsTask
<1> QED
  BY <1>2, <1>3, <1>4 DEF P, fs

\* Assignments are before the value to assign.
LEMMA AssignmentsFirst ==
  ASSUME NEW T \in Seq(Tasks), NEW c \in Nat \ {0}, NEW d \in Nat, NEW f \in BOOLEAN,
         NEW gs, NEW wrong,
         NEW a \in Assigning, a = "moreAssignments" => f,
         3 \in DOMAIN T, T[1].do = "primary", T[2].do = "messages", T[3].do = "assign",
         Doable(T, At(c, d, "open", FALSE), gs, wrong)
  PROVE  /\ <<Plain(a)>> \o T \in Seq(Tasks)
         /\ Doable(<<Plain(a)>> \o T, At(c, d, "open", f), gs, wrong)
<1> DEFINE p == At(c, d, "open", f)
           q == At(c, d, "open", FALSE)
<1>1. p \in Points /\ q \in Points
  BY DEF At, Points, Phases
<1>2. Leads(Plain(a), p, q, gs, wrong)
  BY DEF Leads, Plain, Task, At, Assigning
<1>3. Plain(a) \in Tasks
  <2>1. a \in Texts
    BY DEF Assigning, Texts
  <2> QED
    BY <2>1, PlainIsTask
<1> HIDE DEF p, q
<1> QED
  BY <1>1, <1>2, <1>3, Before, Prefixed DEF p, q

LEMMA TupleAround ==
  ASSUME NEW a, NEW b, NEW c, NEW d
  PROVE  <<a>> \o <<b, c>> \o <<d>> = <<a, b, c, d>>
<1>1. <<a>> \o <<b, c>> = <<a, b, c>>
  BY Tuple3
<1>2. <<a, b, c>> \o <<d>> = <<a, b, c, d>>
  <2> DEFINE s == <<a, b, c>> \o <<d>>
  <2>1. Len(s) = 4 /\ s[1] = a /\ s[2] = b /\ s[3] = c /\ s[4] = d /\ s \in Seq({a, b, c, d})
    OBVIOUS
  <2>2. s = <<s[1], s[2], s[3], s[4]>>
    <3> HIDE DEF s
    <3> QED
      BY <2>1
  <2> QED
    BY <2>1, <2>2
<1> QED
  BY <1>1, <1>2

LEMMA ExpressionOk ==
  ASSUME ParserInv, expression, UNCHANGED source
  PROVE  ParserInv'
<1> DEFINE T == Tail(todo)
<1>1. /\ todo # <<>> /\ task.do = "expression" /\ gens' = gens /\ super' = super
      /\ errors' = errors /\ Peek
      /\ \/ todo' = Plan(<<"assignments", "primary", "messages", "assign">>) \o T
         \/ todo' = Plan(<<"primary", "messages">>) \o T
  <2>1. <<"assignments">> \o evaluation \o <<"assign">>
          = <<"assignments", "primary", "messages", "assign">>
    BY TupleAround DEF evaluation
  <2> QED
    BY <2>1 DEF expression, Parse, Call, Do, Expand, evaluation
<1>2. PICK p, q \in Points :
        /\ Linked(p) /\ p.ctx = Len(gens) /\ Leads(task, p, q, gens, errors)
        /\ Doable(todo, p, gens, errors) /\ Doable(Tail(todo), q, gens, errors)
        /\ q.ctx <= Len(gens)
        /\ task \in Tasks /\ Tail(todo) \in Seq(Tasks) /\ Len(gens) \in Nat
  BY <1>1, Found
<1>3. task.do \notin Terminals \cup ClassParts \cup {"Assemble"}
  BY <1>1 DEF Terminals, ClassParts
<1>4. /\ p.phase = "open" /\ q = At(p.ctx, p.depth + 1, "open", FALSE)
      /\ p.ctx \in Nat \ {0} /\ p.depth \in Nat
  <2>1. p.phase = "open" /\ q = At(p.ctx, p.depth + 1, "open", FALSE)
    BY <1>1, <1>2, <1>3, MethodPoints
  <2>2. p.ctx \in Nat \ {0}
    BY <1>1, <1>2, <1>3, MethodPoints
  <2> QED
    BY <2>1, <2>2 DEF Points
<1> DEFINE o == At(p.ctx, p.depth, "open", FALSE)
<1>5. o \in Points /\ o.ctx = p.ctx /\ o.depth = p.depth /\ o.phase = "open" /\ ~o.fresh
  BY <1>4 DEF At, Points, Phases
<1>6. /\ Leads(Plain("primary"), o, q, gens, errors)
      /\ Leads(Plain("messages"), q, q, gens, errors)
      /\ Leads(Plain("assign"), q, q, gens, errors)
  <2>1. /\ Leads(Plain("primary"), o, q, gens, errors)
        /\ Leads(Plain("messages"), q, q, gens, errors)
    BY <1>4 DEF Leads, Plain, Task, At, Neutral
  <2>2. /\ Plain("assign").do = "assign" /\ Plain("assign").n = 0
        /\ Plain("assign").names = <<>> /\ Len(<<>>) = 0
    BY DEF Plain, Task
  <2> DEFINE d == p.depth + 1
  <2>3. d \in Nat /\ d >= 0 + 1 /\ d - 0 = d
    BY <1>4
  <2>4. q.depth = d /\ q.phase = "open" /\ q = At(q.ctx, q.depth, "open", FALSE)
    BY <1>4 DEF At
  <2> DEFINE t == Plain("assign")
  <2> HIDE DEF d, t
  <2>5. /\ q.depth >= t.n + 1 /\ t.n <= Len(t.names) /\ q.depth - t.n = q.depth
        /\ \A i \in 1..Len(t.names) : t.names[i] \in gens[q.ctx].literals
    BY <2>2, <2>3, <2>4 DEF t
  <2>6. Leads(t, q, q, gens, errors)
    BY <2>2, <2>4, <2>5 DEF Leads, t
  <2> QED
    BY <2>1, <2>6 DEF t
<1>7. /\ "primary" \in Texts \ Assigning /\ "messages" \in Texts \ Assigning
      /\ "assign" \in Texts \ Assigning /\ "assignments" \in Texts
      /\ "assignments" \in Assigning /\ "assignments" # "moreAssignments"
  BY DEF Texts, Assigning
<1>8. T \in Seq(Tasks) /\ Doable(T, q, gens, errors)
  BY <1>2
<1>9. todo' \in Seq(Tasks) /\ Doable(todo', o, gens, errors)
  <2> HIDE DEF T, o
  <2>1. CASE todo' = Plan(<<"primary", "messages">>) \o T
    BY <1>2, <1>5, <1>6, <1>7, <1>8, <2>1, Do2
  <2>2. CASE todo' = Plan(<<"assignments", "primary", "messages", "assign">>) \o T
    <3> DEFINE fs == <<"primary", "messages", "assign">>
               U == Plan(fs) \o T
    <3>1. U \in Seq(Tasks) /\ Doable(U, o, gens, errors)
      BY <1>2, <1>5, <1>6, <1>7, <1>8, Do3
    <3>2. 3 \in DOMAIN U /\ U[1].do = "primary" /\ U[2].do = "messages" /\ U[3].do = "assign"
      BY <1>7, <1>8, FirstThree
    <3>3. fs \in Seq(Texts)
      BY <1>7
    <3>4. <<"assignments", "primary", "messages", "assign">> = <<"assignments">> \o fs
      BY Tuple4
    <3> HIDE DEF fs
    <3>5. todo' = <<Plain("assignments")>> \o U
      <4>1. todo' = Plan(<<"assignments">> \o fs) \o T
        BY <2>2, <3>4
      <4>2. Plan(<<"assignments">> \o fs) \o T = <<Plain("assignments")>> \o (Plan(fs) \o T)
        BY <1>7, <1>8, <3>3, PlanSplit
      <4> QED
        BY <4>1, <4>2
    <3> HIDE DEF U
    <3>6. Doable(U, At(p.ctx, p.depth, "open", FALSE), gens, errors)
      BY <3>1 DEF o
    <3>7. /\ <<Plain("assignments")>> \o U \in Seq(Tasks)
          /\ Doable(<<Plain("assignments")>> \o U, At(p.ctx, p.depth, "open", FALSE), gens,
                    errors)
      BY <1>4, <1>7, <3>1, <3>2, <3>6, AssignmentsFirst
    <3> QED
      BY <3>5, <3>7 DEF o
  <2> QED
    BY <1>1, <2>1, <2>2
<1>10. ScanStep /\ sym' = sym
  BY <1>1, PeekOk DEF ScanStep, ParserInv, ScanOk
<1>11. Ahead(o, sym', nextSym', todo')
  BY <1>5 DEF Ahead
<1>12. Onwards(p, o)
  BY <1>4, <1>5 DEF Onwards
<1> HIDE DEF o, T
<1> QED
  BY <1>1, <1>2, <1>5, <1>9, <1>10, <1>11, <1>12, Proceed

\* What follows an assignment in what is left to do.
LEMMA ValueNext ==
  ASSUME NEW T \in Seq(Tasks), T # << >>, ValueFollows(T), Head(T).do \in Assigning
  PROVE  LET U == Tail(T)
         IN  /\ 3 \in DOMAIN U
             /\ U[1].do = "primary" /\ U[2].do = "messages" /\ U[3].do = "assign"
<1> DEFINE U == Tail(T)
<1>1. /\ Head(T) = T[1] /\ Len(T) \in Nat /\ Len(T) >= 1 /\ DOMAIN T = 1..Len(T)
      /\ DOMAIN U = 1..(Len(T) - 1) /\ \A i \in 1..(Len(T) - 1) : U[i] = T[i + 1]
  BY Remaining
<1> HIDE DEF U
<1>2. /\ 1 + 3 \in DOMAIN T /\ T[1 + 1].do = "primary" /\ T[1 + 2].do = "messages"
      /\ T[1 + 3].do = "assign"
  <2>1. 1 \in DOMAIN T /\ T[1].do \in Assigning
    BY <1>1
  <2> QED
    BY <2>1 DEF ValueFollows
<1>3. 3 \in 1..(Len(T) - 1) /\ 2 \in 1..(Len(T) - 1) /\ 1 \in 1..(Len(T) - 1)
  BY <1>1, <1>2
<1>4. U[1] = T[1 + 1] /\ U[2] = T[2 + 1] /\ U[3] = T[3 + 1]
  BY <1>1, <1>3
<1> QED
  BY <1>1, <1>2, <1>3, <1>4 DEF U

LEMMA MoreAssignmentsOk ==
  ASSUME ParserInv, moreAssignments, UNCHANGED source
  PROVE  ParserInv'
<1> DEFINE T == Tail(todo)
<1>1. /\ todo # <<>> /\ task.do = "moreAssignments" /\ gens' = gens /\ super' = super
      /\ errors' = errors /\ Peek
      /\ todo' = Plan(<<"assignments">>) \o T \/ todo' = Plan(<<>>) \o T
  BY DEF moreAssignments, Parse, Call, Do, Expand
<1>2. PICK p, q \in Points :
        /\ Linked(p) /\ p.ctx = Len(gens) /\ Leads(task, p, q, gens, errors)
        /\ Doable(todo, p, gens, errors) /\ Doable(Tail(todo), q, gens, errors)
        /\ q.ctx <= Len(gens)
        /\ task \in Tasks /\ Tail(todo) \in Seq(Tasks) /\ Len(gens) \in Nat
  BY <1>1, Found
<1>3. task.do \notin Terminals \cup ClassParts \cup {"Assemble"}
  BY <1>1 DEF Terminals, ClassParts
<1>4. /\ p.phase = "open" /\ q = At(p.ctx, p.depth, "open", FALSE)
      /\ p.ctx \in Nat \ {0} /\ p.depth \in Nat
  <2>1. p.phase = "open" /\ q = At(p.ctx, p.depth, "open", FALSE)
    BY <1>1, <1>2, <1>3, MethodPoints
  <2>2. p.ctx \in Nat \ {0}
    BY <1>1, <1>2, <1>3, MethodPoints
  <2> QED
    BY <2>1, <2>2 DEF Points
<1>5. q.ctx = p.ctx /\ q.depth = p.depth /\ q.phase = "open" /\ ~q.fresh
  BY <1>4 DEF At
<1>6. T \in Seq(Tasks) /\ Doable(T, q, gens, errors)
  BY <1>2
<1>7. 3 \in DOMAIN T /\ T[1].do = "primary" /\ T[2].do = "messages" /\ T[3].do = "assign"
  <2>1. task.do \in Assigning /\ ValueFollows(todo) /\ todo \in Seq(Tasks)
    BY <1>1, <1>2 DEF Assigning, Doable, ParserInv
  <2> QED
    BY <1>1, <2>1, ValueNext DEF task
<1>8. todo' \in Seq(Tasks) /\ Doable(todo', q, gens, errors)
  <2> HIDE DEF T
  <2>1. CASE todo' = Plan(<<>>) \o T
    BY <1>6, <2>1, Planned0
  <2>2. CASE todo' = Plan(<<"assignments">>) \o T
    <3>1. /\ "assignments" \in Texts /\ "assignments" \in Assigning
          /\ "assignments" # "moreAssignments"
      BY DEF Texts, Assigning
    <3>2. todo' = <<Plain("assignments")>> \o T
      BY <1>6, <2>2, <3>1, Planned1
    <3>3. /\ <<Plain("assignments")>> \o T \in Seq(Tasks)
          /\ Doable(<<Plain("assignments")>> \o T, At(p.ctx, p.depth, "open", FALSE), gens,
                    errors)
      BY <1>4, <1>6, <1>7, <3>1, AssignmentsFirst
    <3> QED
      BY <1>4, <3>2, <3>3
  <2> QED
    BY <1>1, <2>1, <2>2
<1>9. ScanStep /\ sym' = sym
  BY <1>1, PeekOk DEF ScanStep, ParserInv, ScanOk
<1>10. Ahead(q, sym', nextSym', todo') /\ Onwards(p, q)
  BY <1>4, <1>5 DEF Ahead, Onwards
<1> HIDE DEF T
<1> QED
  BY <1>1, <1>2, <1>5, <1>8, <1>9, <1>10, Proceed

-----------------------------------------------------------------------------
(* The actions that write into a context.                                   *)

LEMMA Inside ==
  ASSUME ParserInv, NEW p \in Points, Linked(p), p.ctx \in Nat \ {0}
  PROVE  /\ gens # << >> /\ p.ctx = Len(gens) /\ GenOk(gen) /\ (~errors => Sound(gen))
         /\ Counts(p, gen, sym, errors)
<1>1. gens # << >> /\ p.ctx = Len(gens) /\ Counts(p, gen, sym, errors)
  BY DEF Linked
<1> QED
  BY <1>1, InnerOk DEF ParserInv

\* In the code of a context.
LEMMA OpenFacts ==
  ASSUME ParserInv, NEW p \in Points, Linked(p), p.ctx \in Nat \ {0},
         p.phase \in {"open", "read", "next"}
  PROVE  /\ gens # << >> /\ p.ctx = Len(gens) /\ GenOk(gen) /\ ~gen.finished
         /\ gen.depth \in Int /\ p.depth \in Nat
         /\ ~errors => /\ Sound(gen) /\ gen.depth = p.depth - Missing(sym)
                       /\ gen.yields \/ gen.depth = p.depth
                       /\ sym.sym = "Yield" => p.phase = "open"
<1>1. /\ gens # << >> /\ p.ctx = Len(gens) /\ GenOk(gen) /\ (~errors => Sound(gen))
      /\ Counts(p, gen, sym, errors)
  BY Inside
<1>2. gen.depth \in Int /\ p.depth \in Nat
  BY <1>1, GenFields DEF Points
<1>3. ~gen.finished
  BY <1>1 DEF Counts, Unfinished
<1>4. ~errors => /\ p.depth = gen.depth + Missing(sym)
                 /\ Missing(sym) = 0 \/ gen.yields
                 /\ sym.sym = "Yield" => p.phase = "open"
  BY <1>1 DEF Counts, Unfinished, Missing
<1>5. Missing(sym) \in {0, 1}
  BY DEF Missing
<1> QED
  BY <1>1, <1>2, <1>3, <1>4, <1>5

LEMMA SameCounts ==
  ASSUME NEW p, NEW g, NEW h, NEW s, NEW s2, NEW wrong \in BOOLEAN, NEW wrong2 \in BOOLEAN,
         Counts(p, g, s, wrong), SameCode(g, h), h.primitive = g.primitive, wrong => wrong2,
         ~wrong2 => (s2.sym = "Yield" <=> s.sym = "Yield")
  PROVE  Counts(p, h, s2, wrong2)
BY DEF Counts, SameCode, Missing

\* Parser::argument takes what it finds.
LEMMA ArgumentOk ==
  ASSUME ParserInv, argument, UNCHANGED source
  PROVE  ParserInv'
<1> DEFINE T == Tail(todo)
           g == AddArgumentIfAbsent(gen, sym.text)
<1>1. /\ todo # <<>> /\ task.do = "argument" /\ SetGen(g) /\ super' = super
      /\ todo' = Plan(<<>>) \o T
      /\ \/ sym.sym # "Yield" /\ GetSym /\ errors' = errors
         \/ UNCHANGED scanner /\ errors' = TRUE
  BY DEF argument, Call, Do, Expand, Report
<1>2. PICK p, q \in Points :
        /\ Linked(p) /\ p.ctx = Len(gens) /\ Leads(task, p, q, gens, errors)
        /\ Doable(todo, p, gens, errors) /\ Doable(Tail(todo), q, gens, errors)
        /\ q.ctx <= Len(gens)
        /\ task \in Tasks /\ Tail(todo) \in Seq(Tasks) /\ Len(gens) \in Nat
  BY <1>1, Found
<1>3. task.do \notin Terminals \cup ClassParts \cup {"Assemble"} /\ task.do \in Declarations
      /\ "pattern" # task.do
  BY <1>1 DEF Terminals, ClassParts, Declarations
<1>4. p.phase = "open" /\ q = p /\ p.ctx \in Nat \ {0}
  <2>1. p.phase = "open" /\ q = p
    BY <1>2, <1>3, MethodPoints
  <2>2. p.ctx \in Nat \ {0}
    BY <1>2, <1>3, MethodPoints
  <2> QED
    BY <2>1, <2>2
<1>5. /\ gens # << >> /\ GenOk(gen) /\ (~errors => Sound(gen)) /\ Counts(p, gen, sym, errors)
  BY <1>2, <1>4, Inside
<1>6. ScanOk /\ sym.text \in Texts /\ errors \in BOOLEAN /\ super \in BOOLEAN
      /\ sym.sym \in Terminals \cup {"Yield"}
  BY SymbolFacts DEF ParserInv, ScanOk
<1>7. /\ g \in GenType /\ SameCode(gen, g) /\ gen.literals \subseteq g.literals
      /\ g.primitive = gen.primitive /\ g.empty = gen.empty
  BY <1>5, <1>6, DeclareOk
<1>8. GenOk(g) /\ (Sound(gen) => Sound(g))
  BY <1>5, <1>7, SameCodeOk
<1> HIDE DEF g
<1>9. ScanStep /\ (nextSym = NoToken => nextSym' = NoToken)
      /\ (~errors' => (sym'.sym = "Yield" <=> sym.sym = "Yield"))
  <2>1. CASE GetSym /\ errors' = errors /\ sym.sym # "Yield"
    BY <1>1, <1>6, <2>1, GetSymOk DEF ScanStep, Symbols, ParserInv, ScanOk
  <2>2. CASE UNCHANGED scanner /\ errors' = TRUE
    BY <1>1, <1>6, <2>2, ScanUnchanged DEF ScanStep, ParserInv, ScanOk
  <2> QED
    BY <1>1, <2>1, <2>2
<1>10. Counts(p, g, sym', errors')
  BY <1>5, <1>6, <1>7, <1>9, SameCounts DEF ScanStep
<1>11. Ahead(p, sym', nextSym', todo')
  <2>1. p.fresh => nextSym = NoToken
    BY <1>1, <1>2, <1>3, <1>6 DEF Linked, Ahead, task
  <2> QED
    BY <1>9, <2>1 DEF Ahead
<1>12. todo' \in Seq(Tasks) /\ Doable(todo', p, gens', errors')
  <2>1. (errors => errors') /\ (~errors' => Sound(g))
    BY <1>5, <1>8, <1>9 DEF ScanStep
  <2>2. Doable(T, p, gens', errors')
    BY <1>1, <1>2, <1>4, <1>5, <1>7, <1>8, <2>1, Rest
  <2> QED
    BY <1>1, <1>2, <2>2, Planned0
<1>13. ~errors' => Sound(g)
  BY <1>5, <1>8, <1>9 DEF ScanStep
<1> QED
  BY <1>1, <1>2, <1>5, <1>8, <1>9, <1>10, <1>11, <1>12, <1>13, Writes

\* The names of locals, one after the other.
LEMMA LocalsOk ==
  ASSUME ParserInv, locals, UNCHANGED source
  PROVE  ParserInv'
<1> DEFINE T == Tail(todo)
           g == AddLocalIfAbsent(gen, sym.text)
<1>1. /\ todo # <<>> /\ task.do = "locals" /\ super' = super /\ errors' = errors
      /\ \/ /\ sym.sym = "Identifier" /\ GetSym /\ SetGen(g) /\ todo' = todo
         \/ /\ accept("Identifier") /\ gens' = gens /\ todo' = Plan(<<>>) \o T
  BY DEF locals, Parse, Call, Do, Expand, accept
<1>2. PICK p, q \in Points :
        /\ Linked(p) /\ p.ctx = Len(gens) /\ Leads(task, p, q, gens, errors)
        /\ Doable(todo, p, gens, errors) /\ Doable(Tail(todo), q, gens, errors)
        /\ q.ctx <= Len(gens)
        /\ task \in Tasks /\ Tail(todo) \in Seq(Tasks) /\ Len(gens) \in Nat
  BY <1>1, Found
<1>3. /\ task.do \notin Terminals \cup ClassParts \cup {"Assemble", "pattern", "Yield"}
      /\ task.do \in Declarations /\ "Identifier" \in Terminals
  BY <1>1 DEF Terminals, ClassParts, Declarations
<1>4. p.phase = "open" /\ q = p /\ p.ctx \in Nat \ {0}
  <2>1. p.phase = "open" /\ q = p
    BY <1>2, <1>3, MethodPoints
  <2>2. p.ctx \in Nat \ {0}
    BY <1>2, <1>3, MethodPoints
  <2> QED
    BY <2>1, <2>2
<1>5. /\ gens # << >> /\ GenOk(gen) /\ (~errors => Sound(gen)) /\ Counts(p, gen, sym, errors)
  BY <1>2, <1>4, Inside
<1>6. /\ ScanOk /\ sym.text \in Texts /\ errors \in BOOLEAN /\ super \in BOOLEAN
      /\ todo \in Seq(Tasks)
  BY SymbolFacts DEF ParserInv, ScanOk
<1>7. CASE sym.sym = "Identifier" /\ GetSym /\ SetGen(g) /\ todo' = todo
  <2>1. /\ g \in GenType /\ SameCode(gen, g) /\ gen.literals \subseteq g.literals
        /\ g.primitive = gen.primitive /\ g.empty = gen.empty
    BY <1>5, <1>6, DeclareOk
  <2>2. GenOk(g) /\ (Sound(gen) => Sound(g))
    BY <1>5, <2>1, SameCodeOk
  <2> HIDE DEF g
  <2>3. ScanStep /\ nextSym' = NoToken /\ sym'.sym # "Yield" /\ sym.sym # "Yield"
    BY <1>1, <1>6, <1>7, GetSymOk DEF ScanStep, Symbols, ParserInv, ScanOk
  <2>4. Counts(p, g, sym', errors')
    BY <1>5, <1>6, <2>1, <2>3, SameCounts DEF ScanStep
  <2>5. Ahead(p, sym', nextSym', todo')
    BY <2>3 DEF Ahead
  <2>6. (errors => errors') /\ (~errors' => Sound(g))
    BY <1>1, <1>5, <2>2
  <2>7. p.ctx <= Len(gens)
    BY <1>2, <1>4
  <2>8. Doable(todo, p, gens', errors')
    BY <1>2, <1>5, <1>6, <1>7, <2>1, <2>2, <2>6, <2>7, Rest
  <2> QED
    BY <1>2, <1>5, <1>6, <1>7, <2>2, <2>3, <2>4, <2>5, <2>6, <2>8, Writes
<1>8. CASE accept("Identifier") /\ gens' = gens /\ todo' = Plan(<<>>) \o T
  <2>1. todo' \in Seq(Tasks) /\ Doable(todo', q, gens, errors)
    BY <1>2, <1>8, Planned0
  <2>2. Onwards(p, q) /\ q.ctx = p.ctx /\ q.depth = p.depth /\ q.fresh = p.fresh
    BY <1>4 DEF Onwards
  <2>3. task.do \notin Terminals \cup {"pattern", "Yield"}
    BY <1>3
  <2> QED
    BY <1>1, <1>2, <1>3, <1>4, <1>6, <1>8, <2>1, <2>2, <2>3, Calls
<1> QED
  BY <1>1, <1>7, <1>8

\* A function that only writes and calls no other.
LEMMA WritesLast ==
  ASSUME ParserInv, todo # << >>, ScanStep, gens # << >>, NEW g, GenOk(g),
         ~errors' => Sound(g), SetGen(g), gen.literals \subseteq g.literals,
         todo' = Plan(<<>>) \o Tail(todo), Tail(todo) \in Seq(Tasks),
         NEW q \in Points, q.ctx = Len(gens), ~q.fresh, Doable(Tail(todo), q, gens, errors),
         Counts(q, g, sym', errors')
  PROVE  ParserInv'
<1> DEFINE T == Tail(todo)
<1>1. todo' = T /\ T \in Seq(Tasks)
  BY Planned0
<1>2. q.ctx <= Len(gens)
  BY InnerOk DEF ParserInv
<1> HIDE DEF T
<1>3. Doable(T, q, gens', errors')
  BY <1>1, <1>2, Rest DEF ScanStep, T
<1>4. Ahead(q, sym', nextSym', todo')
  BY DEF Ahead
<1> QED
  BY <1>1, <1>3, <1>4, Writes

\* Statements end with a value: a yield has it missing.
LEMMA ResultOk ==
  ASSUME ParserInv, result, UNCHANGED source
  PROVE  ParserInv'
<1> DEFINE g == EmitReturn(gen)
<1>1. /\ todo # <<>> /\ task.do = "result" /\ SetGen(g) /\ super' = super /\ errors' = errors
      /\ todo' = Plan(<<>>) \o Tail(todo) /\ accept("Period") /\ "Period" \in Terminals
  BY DEF result, Parse, Call, Do, Expand, Terminals
<1>2. PICK p, q \in Points :
        /\ Linked(p) /\ p.ctx = Len(gens) /\ Leads(task, p, q, gens, errors)
        /\ Doable(todo, p, gens, errors) /\ Doable(Tail(todo), q, gens, errors)
        /\ q.ctx <= Len(gens)
        /\ task \in Tasks /\ Tail(todo) \in Seq(Tasks) /\ Len(gens) \in Nat
  BY <1>1, Found
<1>3. task.do \notin Terminals \cup ClassParts \cup {"Assemble"}
  BY <1>1 DEF Terminals, ClassParts
<1>4. /\ p.phase = "open" /\ p.depth = 1 /\ q = At(p.ctx, 1, "ended", FALSE)
      /\ p.ctx \in Nat \ {0}
  <2>1. p.phase = "open" /\ p.depth = 1 /\ q = At(p.ctx, 1, "ended", FALSE)
    BY <1>1, <1>2, <1>3, MethodPoints
  <2>2. p.ctx \in Nat \ {0}
    BY <1>1, <1>2, <1>3, MethodPoints
  <2> QED
    BY <2>1, <2>2
<1>5. /\ gens # << >> /\ GenOk(gen) /\ (~errors => Sound(gen)) /\ Counts(p, gen, sym, errors)
  BY <1>2, <1>4, Inside
<1>6. /\ GenOk(g) /\ Alike(gen, g) /\ g.finished
      /\ Sound(gen) /\ (gen.yields \/ gen.empty \/ gen.depth = 1) => Sound(g)
  BY <1>5, ReturnOk
<1> HIDE DEF g
<1>7. ~errors => gen.yields \/ gen.depth = 1
  <2>1. gen.depth \in Int
    BY <1>5, GenFields
  <2> QED
    BY <1>4, <1>5, <2>1 DEF Counts, Missing, Unfinished
<1>8. ScanStep /\ (sym'.sym = "Yield" => sym.sym = "Yield")
  <2>1. ScanOk /\ errors \in BOOLEAN /\ super \in BOOLEAN
    BY DEF ParserInv, ScanOk
  <2>2. /\ sym' \in Symbols /\ nextSym' \in Words \cup {NoToken} /\ read' \in 1..source.length
        /\ sym'.sym = "Yield" => sym.sym = "Yield"
    BY <1>1, <2>1, AcceptOk DEF scanner
  <2> QED
    BY <1>1, <2>1, <2>2 DEF ScanStep
<1>9. q.ctx = Len(gens) /\ q.phase = "ended" /\ ~q.fresh /\ q.depth = 1
  BY <1>2, <1>4 DEF At
<1>10. Counts(q, g, sym', errors')
  BY <1>1, <1>5, <1>6, <1>8, <1>9 DEF Counts, Alike, Unfinished
<1>11. (~errors' => Sound(g)) /\ gen.literals \subseteq g.literals
  BY <1>1, <1>5, <1>6, <1>7 DEF Alike
<1> QED
  BY <1>1, <1>2, <1>5, <1>6, <1>8, <1>9, <1>10, <1>11, WritesLast

\* The return of a method, or of a block, unless a statement has written it.
LEMMA FinishOk ==
  ASSUME ParserInv, finishMethod \/ finishBlock, UNCHANGED source
  PROVE  ParserInv'
<1>1. /\ todo # <<>> /\ task.do \in {"finishMethod", "finishBlock"} /\ super' = super
      /\ errors' = errors /\ UNCHANGED scanner /\ todo' = Plan(<<>>) \o Tail(todo)
      /\ \/ gen.finished /\ SetGen(gen)
         \/ ~gen.finished /\ SetGen(EmitReturn(gen))
         \/ ~gen.finished /\ SetGen(EmitReturn(EmitPush(EmitPOP(gen))))
  BY DEF finishMethod, finishBlock, Parse, Call, Do, Expand
<1>2. PICK p, q \in Points :
        /\ Linked(p) /\ p.ctx = Len(gens) /\ Leads(task, p, q, gens, errors)
        /\ Doable(todo, p, gens, errors) /\ Doable(Tail(todo), q, gens, errors)
        /\ q.ctx <= Len(gens)
        /\ task \in Tasks /\ Tail(todo) \in Seq(Tasks) /\ Len(gens) \in Nat
  BY <1>1, Found
<1>3. task.do \notin Terminals \cup ClassParts \cup {"Assemble"}
  BY <1>1 DEF Terminals, ClassParts
<1>4. /\ p.phase = "ended" /\ p.depth = 1 /\ q = At(p.ctx, 1, "closed", FALSE)
      /\ p.ctx \in Nat \ {0}
  <2>1. p.phase = "ended" /\ p.depth = 1 /\ q = At(p.ctx, 1, "closed", FALSE)
    BY <1>1, <1>2, <1>3, MethodPoints
  <2>2. p.ctx \in Nat \ {0}
    BY <1>1, <1>2, <1>3, MethodPoints
  <2> QED
    BY <2>1, <2>2
<1>5. /\ gens # << >> /\ GenOk(gen) /\ (~errors => Sound(gen)) /\ Counts(p, gen, sym, errors)
  BY <1>2, <1>4, Inside
<1>6. ~errors /\ ~gen.finished => gen.yields \/ gen.depth = 1
  <2>1. gen.depth \in Int
    BY <1>5, GenFields
  <2> QED
    BY <1>4, <1>5, <2>1 DEF Counts, Missing, Unfinished
<1>7. \E g : /\ SetGen(g) /\ GenOk(g) /\ Alike(gen, g) /\ g.finished
             /\ ~errors => Sound(g)
  <2>1. CASE gen.finished /\ SetGen(gen)
    BY <1>5, <2>1 DEF Alike
  <2>2. CASE ~gen.finished /\ SetGen(EmitReturn(gen))
    BY <1>5, <1>6, <2>2, ReturnOk
  <2>3. CASE ~gen.finished /\ SetGen(EmitReturn(EmitPush(EmitPOP(gen))))
    <3> DEFINE g1 == EmitPOP(gen)
               g2 == EmitPush(g1)
               g3 == EmitReturn(g2)
    <3>1. /\ GenOk(g1) /\ Alike(gen, g1) /\ g1.depth = gen.depth - 1
          /\ Sound(gen) /\ (gen.yields \/ gen.depth >= 1) => Sound(g1)
      BY <1>5, PopOk
    <3> HIDE DEF g1
    <3>2. /\ GenOk(g2) /\ Alike(g1, g2) /\ g2.depth = g1.depth + 1
          /\ Sound(g1) /\ (g1.yields \/ g1.depth >= 0) => Sound(g2)
      BY <3>1, PushOk
    <3> HIDE DEF g2
    <3>3. /\ GenOk(g3) /\ Alike(g2, g3) /\ g3.finished
          /\ Sound(g2) /\ (g2.yields \/ g2.empty \/ g2.depth = 1) => Sound(g3)
      BY <3>2, ReturnOk
    <3> HIDE DEF g3
    <3>4. ~errors => Sound(g3)
      <4>1. gen.depth = 1 => g1.depth = 0 /\ g2.depth = 1
        BY <3>1, <3>2
      <4>2. g1.yields = gen.yields /\ g2.yields = gen.yields
        BY <3>1, <3>2 DEF Alike
      <4> QED
        BY <1>5, <1>6, <2>3, <3>1, <3>2, <3>3, <4>1, <4>2
    <3>5. Alike(gen, g3)
      BY <3>1, <3>2, <3>3 DEF Alike
    <3>6. SetGen(g3)
      BY <2>3 DEF g1, g2, g3
    <3> QED
      BY <3>3, <3>4, <3>5, <3>6
  <2> QED
    BY <1>1, <2>1, <2>2, <2>3
<1>8. PICK g : /\ SetGen(g) /\ GenOk(g) /\ Alike(gen, g) /\ g.finished
               /\ ~errors => Sound(g)
  BY <1>7
<1>9. ScanStep
  BY <1>1, ScanUnchanged DEF ScanStep, ParserInv, ScanOk
<1>10. q.ctx = Len(gens) /\ q.phase = "closed" /\ ~q.fresh /\ q.depth = 1
  BY <1>2, <1>4 DEF At
<1>11. Counts(q, g, sym', errors')
  BY <1>1, <1>5, <1>8, <1>10 DEF Counts, Alike, Unfinished, scanner
<1>12. (~errors' => Sound(g)) /\ gen.literals \subseteq g.literals
  BY <1>1, <1>8 DEF Alike
<1> QED
  BY <1>1, <1>2, <1>5, <1>8, <1>9, <1>10, <1>11, <1>12, WritesLast

LEMMA PrimitiveOk ==
  ASSUME NEW g, GenOk(g)
  PROVE  LET h == [g EXCEPT !.primitive = TRUE]
         IN  h \in GenType /\ SameCode(g, h) /\ h.primitive /\ h.literals = g.literals
             /\ h.empty = g.empty
<1> DEFINE tt == TRUE
           h == [g EXCEPT !.primitive = tt]
<1>1. g \in GenType /\ tt \in BOOLEAN /\ tt
  BY DEF GenOk
<1> HIDE DEF tt
<1>2. h \in GenType
  BY <1>1 DEF GenType
<1>3. h.primitive = tt /\ h.literals = g.literals /\ h.empty = g.empty
  BY <1>1 DEF GenType
<1>4. SameCode(g, h)
  BY <1>1 DEF GenType, SameCode
<1> HIDE DEF h
<1> QED
  BY <1>1, <1>2, <1>3, <1>4 DEF h, tt

\* A primitive, or code.
LEMMA MethodBodyOk ==
  ASSUME ParserInv, methodBody, UNCHANGED source
  PROVE  ParserInv'
<1> DEFINE T == Tail(todo)
           g == [gen EXCEPT !.primitive = TRUE]
<1>1. /\ todo # <<>> /\ task.do = "methodBody" /\ super' = super /\ errors' = errors
      /\ UNCHANGED scanner
      /\ \/ /\ sym.sym = "Primitive" /\ SetGen(g) /\ todo' = Plan(<<"Primitive">>) \o T
         \/ /\ gens' = gens
            /\ todo' = Plan(<<"NewTerm", "blockContents", "finishMethod", "EndTerm">>) \o T
  BY DEF methodBody, Parse, Call, Do, Expand
<1>2. PICK p, q \in Points :
        /\ Linked(p) /\ p.ctx = Len(gens) /\ Leads(task, p, q, gens, errors)
        /\ Doable(todo, p, gens, errors) /\ Doable(Tail(todo), q, gens, errors)
        /\ q.ctx <= Len(gens)
        /\ task \in Tasks /\ Tail(todo) \in Seq(Tasks) /\ Len(gens) \in Nat
  BY <1>1, Found
<1>3. task.do \notin Terminals \cup ClassParts \cup {"Assemble", "pattern", "Yield"}
  BY <1>1 DEF Terminals, ClassParts
<1>4. /\ p = At(p.ctx, 0, "open", TRUE) /\ q = At(p.ctx, 1, "left", FALSE)
      /\ p.ctx \in Nat \ {0}
  BY <1>1, <1>2, <1>3, MethodPoints
<1> DEFINE c == p.ctx
           o == At(c, 0, "open", TRUE)
           e == At(c, 1, "ended", FALSE)
           k == At(c, 1, "closed", FALSE)
<1>5. /\ o \in Points /\ o.phase = "open" /\ o.ctx = c /\ o.depth = 0 /\ o.fresh
      /\ e \in Points
      /\ k \in Points /\ k.phase = "closed" /\ k.ctx = c /\ k.depth = 1 /\ ~k.fresh
  BY <1>4 DEF At, Points, Phases
<1>6. /\ gens # << >> /\ GenOk(gen) /\ (~errors => Sound(gen)) /\ Counts(p, gen, sym, errors)
      /\ p.ctx = Len(gens)
  BY <1>2, <1>4, Inside
<1>7. T \in Seq(Tasks) /\ Doable(T, q, gens, errors)
  BY <1>2
<1>8. /\ "NewTerm" \in Texts \ Assigning /\ "blockContents" \in Texts \ Assigning
      /\ "finishMethod" \in Texts \ Assigning /\ "EndTerm" \in Texts \ Assigning
      /\ "Primitive" \in Texts \ Assigning
  BY DEF Texts, Terminals, Assigning
<1>9. ASSUME NEW gs, NEW wrong
      PROVE  /\ Leads(Plain("NewTerm"), o, o, gs, wrong)
             /\ Leads(Plain("blockContents"), o, e, gs, wrong)
             /\ Leads(Plain("finishMethod"), e, k, gs, wrong)
             /\ Leads(Plain("EndTerm"), k, q, gs, wrong)
             /\ Leads(Plain("Primitive"), k, q, gs, wrong)
  BY <1>4 DEF Leads, Plain, Task, At, Terminals
<1>10. CASE sym.sym = "Primitive" /\ SetGen(g) /\ todo' = Plan(<<"Primitive">>) \o T
  <2>1. /\ g \in GenType /\ SameCode(gen, g) /\ g.primitive /\ g.literals = gen.literals
        /\ g.empty = gen.empty
    BY <1>6, PrimitiveOk
  <2>2. GenOk(g) /\ (Sound(gen) => Sound(g))
    BY <1>6, <2>1, SameCodeOk
  <2> HIDE DEF g
  <2>3. (errors => errors') /\ (~errors' => Sound(g)) /\ gen.literals \subseteq g.literals
    BY <1>1, <1>6, <2>1, <2>2
  <2>4. ScanStep
    BY <1>1, ScanUnchanged DEF ScanStep, ParserInv, ScanOk
  <2> HIDE DEF T, k, o, e
  <2>5. Doable(T, q, gens', errors')
    BY <1>2, <1>6, <1>7, <1>10, <2>2, <2>3, Rest
  <2>6. todo' \in Seq(Tasks) /\ Doable(todo', k, gens', errors')
    BY <1>2, <1>5, <1>7, <1>8, <1>9, <1>10, <2>5, Do1
  <2>7. Ahead(k, sym', nextSym', todo')
    BY <1>5 DEF Ahead
  <2>8. Counts(k, g, sym', errors')
    BY <1>1, <1>5, <1>10, <2>1 DEF Counts, Unfinished, scanner
  <2> QED
    BY <1>5, <1>6, <1>10, <2>2, <2>3, <2>4, <2>6, <2>7, <2>8, Writes
<1>11. CASE /\ gens' = gens
            /\ todo' = Plan(<<"NewTerm", "blockContents", "finishMethod", "EndTerm">>) \o T
  <2> HIDE DEF T, k, o, e
  <2>1. todo' \in Seq(Tasks) /\ Doable(todo', o, gens, errors)
    BY <1>2, <1>5, <1>7, <1>8, <1>9, <1>11, Do4
  <2>2. o = p
    BY <1>4 DEF o
  <2>3. task.do \notin Terminals \cup {"pattern", "Yield"} /\ super' \in BOOLEAN
    BY <1>1, <1>3 DEF ParserInv, ScanOk
  <2>4. Onwards(p, p)
    BY DEF Onwards
  <2> QED
    BY <1>1, <1>2, <1>11, <2>1, <2>2, <2>3, <2>4, Calls
<1> QED
  BY <1>1, <1>10, <1>11

\* The value of a statement is dropped before the next, unless a yield left none.
LEMMA EndStatementOk ==
  ASSUME ParserInv, endStatement, UNCHANGED source
  PROVE  ParserInv'
<1> DEFINE T == Tail(todo)
           g == EmitPOP(gen)
<1>1. /\ todo # <<>> /\ task.do = "endStatement" /\ super' = super /\ errors' = errors
      /\ \/ /\ sym.sym = "Yield" /\ GetSym /\ gens' = gens
            /\ todo' = Plan(<<"afterYield">>) \o T
         \/ /\ sym.sym = "Period" /\ GetSym /\ SetGen(g)
            /\ todo' = Plan(<<"nextStatement">>) \o T
         \/ UNCHANGED scanner /\ gens' = gens /\ todo' = Plan(<<>>) \o T
  BY DEF endStatement, Parse, Call, Do, Expand
<1>2. PICK p, q \in Points :
        /\ Linked(p) /\ p.ctx = Len(gens) /\ Leads(task, p, q, gens, errors)
        /\ Doable(todo, p, gens, errors) /\ Doable(Tail(todo), q, gens, errors)
        /\ q.ctx <= Len(gens)
        /\ task \in Tasks /\ Tail(todo) \in Seq(Tasks) /\ Len(gens) \in Nat
  BY <1>1, Found
<1>3. task.do \notin Terminals \cup ClassParts \cup {"Assemble", "pattern", "Yield"}
  BY <1>1 DEF Terminals, ClassParts
<1>4. /\ p.phase = "open" /\ p.depth = 1 /\ q = At(p.ctx, 1, "ended", FALSE)
      /\ p.ctx \in Nat \ {0}
  <2>1. p.phase = "open" /\ p.depth = 1 /\ q = At(p.ctx, 1, "ended", FALSE)
    BY <1>1, <1>2, <1>3, MethodPoints
  <2>2. p.ctx \in Nat \ {0}
    BY <1>1, <1>2, <1>3, MethodPoints
  <2> QED
    BY <2>1, <2>2
<1> DEFINE c == p.ctx
           y == At(c, 0, "yielded", TRUE)
           n == At(c, 0, "next", TRUE)
<1>5. /\ y \in Points /\ y.phase = "yielded" /\ y.ctx = c /\ y.depth = 0
      /\ n \in Points /\ n.phase = "next" /\ n.ctx = c /\ n.depth = 0
      /\ q.phase = "ended" /\ q.ctx = c /\ q.depth = 1 /\ ~q.fresh
  BY <1>4 DEF At, Points, Phases
<1>6. /\ gens # << >> /\ GenOk(gen) /\ (~errors => Sound(gen)) /\ Counts(p, gen, sym, errors)
      /\ p.ctx = Len(gens)
  BY <1>2, <1>4, Inside
<1>7. /\ T \in Seq(Tasks) /\ Doable(T, q, gens, errors)
      /\ super' \in BOOLEAN /\ errors' \in BOOLEAN
  BY <1>1, <1>2 DEF ParserInv, ScanOk
<1>8. /\ "afterYield" \in Texts \ Assigning /\ "nextStatement" \in Texts \ Assigning
  BY DEF Texts, Assigning
<1>9. ASSUME NEW gs, NEW wrong
      PROVE  /\ Leads(Plain("afterYield"), y, q, gs, wrong)
             /\ Leads(Plain("nextStatement"), n, q, gs, wrong)
  BY <1>4 DEF Leads, Plain, Task, At
<1>10. gen.depth \in Int
  BY <1>6, GenFields
<1> HIDE DEF T, y, n
<1>11. ASSUME GetSym
       PROVE  ScanStep /\ nextSym' = NoToken /\ sym'.sym # "Yield"
  BY <1>1, <1>7, <1>11, GetSymOk DEF ScanStep, ParserInv, Symbols
<1>12. CASE /\ sym.sym = "Yield" /\ GetSym /\ gens' = gens
            /\ todo' = Plan(<<"afterYield">>) \o T
  <2>1. todo' \in Seq(Tasks) /\ Doable(todo', y, gens, errors)
    BY <1>2, <1>5, <1>7, <1>8, <1>9, <1>12, Do1
  <2>2. gen' = gen /\ GensOk'
    BY <1>1, <1>12 DEF gen, GensOk, ParserInv
  <2>3. ScanStep /\ nextSym' = NoToken /\ sym'.sym # "Yield"
    BY <1>11, <1>12
  <2>4. Counts(y, gen, sym', errors')
    BY <1>1, <1>4, <1>5, <1>6, <1>10, <1>12, <2>3 DEF Counts, Missing, Unfinished
  <2>5. Ahead(y, sym', nextSym', todo')
    BY <2>3 DEF Ahead
  <2>6. Doable(todo', y, gens', errors') /\ Counts(y, gen', sym', errors') /\ y.ctx = Len(gens')
    BY <1>1, <1>5, <1>6, <1>12, <2>1, <2>2, <2>4
  <2> QED
    BY <1>5, <2>1, <2>2, <2>3, <2>5, <2>6, Goes
<1>13. CASE /\ sym.sym = "Period" /\ GetSym /\ SetGen(g)
            /\ todo' = Plan(<<"nextStatement">>) \o T
  <2>1. /\ GenOk(g) /\ Alike(gen, g) /\ g.depth = gen.depth - 1 /\ g.last = -1
        /\ ~g.operand /\ g.finished = gen.finished
        /\ Sound(gen) /\ (gen.yields \/ gen.depth >= 1) => Sound(g)
    BY <1>6, PopOk
  <2> HIDE DEF g
  <2>2. ScanStep /\ nextSym' = NoToken /\ sym'.sym # "Yield"
    BY <1>11, <1>13
  <2>3. ~errors => gen.depth = 1
    BY <1>4, <1>6, <1>10, <1>13 DEF Counts, Missing, Unfinished
  <2>4. (errors => errors') /\ (~errors' => Sound(g)) /\ gen.literals \subseteq g.literals
    BY <1>1, <1>6, <1>10, <2>1, <2>3 DEF Alike
  <2>5. Doable(T, q, gens', errors')
    BY <1>2, <1>6, <1>7, <1>13, <2>1, <2>4, Rest
  <2>6. todo' \in Seq(Tasks) /\ Doable(todo', n, gens', errors')
    BY <1>2, <1>5, <1>7, <1>8, <1>9, <1>13, <2>5, Do1
  <2>7. Ahead(n, sym', nextSym', todo')
    BY <2>2 DEF Ahead
  <2>8. Counts(n, g, sym', errors')
    <3>1. g.last = -1 /\ ~g.operand /\ (gen.depth = 1 => g.depth = 0)
      BY <2>1
    <3> QED
      BY <1>1, <1>4, <1>5, <1>6, <2>1, <2>2, <2>3, <3>1 DEF Counts, Missing, Unfinished
  <2> QED
    BY <1>5, <1>6, <1>13, <2>1, <2>2, <2>4, <2>6, <2>7, <2>8, Writes
<1>14. CASE UNCHANGED scanner /\ gens' = gens /\ todo' = Plan(<<>>) \o T
  <2>1. todo' \in Seq(Tasks) /\ Doable(todo', q, gens, errors)
    BY <1>7, <1>14, Planned0
  <2>2. task.do \notin Terminals \cup {"pattern", "Yield"} /\ Onwards(p, q)
    BY <1>3, <1>4, <1>5 DEF Onwards
  <2> QED
    BY <1>1, <1>2, <1>4, <1>5, <1>7, <1>14, <2>1, <2>2, Calls
<1> QED
  BY <1>1, <1>12, <1>13, <1>14

\* The message to one receiver.
LEMMA UnaryMessageOk ==
  ASSUME ParserInv, unaryMessage, UNCHANGED source
  PROVE  ParserInv'
<1> DEFINE l == AddLiteralIfAbsent(gen, sym.text)
           g == EmitSend(l, 1)
<1>1. /\ todo # <<>> /\ task.do = "unaryMessage" /\ super' = super /\ errors' = errors
      /\ GetSym /\ SetGen(g) /\ todo' = Plan(<<>>) \o Tail(todo)
  BY DEF unaryMessage, Parse, Call, Do, Expand
<1>2. PICK p, q \in Points :
        /\ Linked(p) /\ p.ctx = Len(gens) /\ Leads(task, p, q, gens, errors)
        /\ Doable(todo, p, gens, errors) /\ Doable(Tail(todo), q, gens, errors)
        /\ q.ctx <= Len(gens)
        /\ task \in Tasks /\ Tail(todo) \in Seq(Tasks) /\ Len(gens) \in Nat
  BY <1>1, Found
<1>3. task.do \notin Terminals \cup ClassParts \cup {"Assemble", "pattern", "Yield"}
  BY <1>1 DEF Terminals, ClassParts
<1>4. /\ p.phase = "read" /\ p.depth >= 1 /\ q = At(p.ctx, p.depth, "open", FALSE)
      /\ p.ctx \in Nat \ {0}
  <2>1. p.phase = "read" /\ p.depth >= 1 /\ q = At(p.ctx, p.depth, "open", FALSE)
    BY <1>1, <1>2, <1>3, MethodPoints
  <2>2. p.ctx \in Nat \ {0}
    BY <1>1, <1>2, <1>3, MethodPoints
  <2> QED
    BY <2>1, <2>2
<1>5. /\ gens # << >> /\ p.ctx = Len(gens) /\ GenOk(gen) /\ ~gen.finished
      /\ gen.depth \in Int /\ p.depth \in Nat
      /\ ~errors => /\ Sound(gen) /\ gen.depth = p.depth - Missing(sym)
                    /\ gen.yields \/ gen.depth = p.depth
                    /\ sym.sym # "Yield"
  BY <1>2, <1>4, OpenFacts
<1>6. sym.text \in Texts /\ errors \in BOOLEAN /\ super \in BOOLEAN
  BY SymbolFacts DEF ParserInv, ScanOk
<1>7. /\ GenOk(l) /\ SameCode(gen, l) /\ gen.literals \subseteq l.literals
      /\ l.primitive = gen.primitive /\ (Sound(gen) => Sound(l))
  <2>1. /\ l \in GenType /\ SameCode(gen, l) /\ gen.literals \subseteq l.literals
        /\ l.primitive = gen.primitive /\ l.empty = gen.empty
    BY <1>5, <1>6, DeclareOk
  <2> QED
    BY <1>5, <2>1, SameCodeOk
<1> HIDE DEF l
<1>8. /\ GenOk(g) /\ Alike(l, g) /\ g.depth = l.depth - 1 + 1 /\ g.finished = l.finished
      /\ Sound(l) /\ (l.yields \/ l.depth >= 1) => Sound(g)
  BY <1>7, SendOk
<1> HIDE DEF g
<1>9. /\ g.depth = gen.depth /\ ~g.finished /\ gen.literals \subseteq g.literals
      /\ ~errors => Sound(g)
  BY <1>4, <1>5, <1>7, <1>8 DEF SameCode, Alike
<1>10. ScanStep /\ sym'.sym # "Yield"
  BY <1>1, <1>6, GetSymOk DEF ScanStep, ParserInv, Symbols
<1>11. q.ctx = p.ctx /\ q.phase = "open" /\ ~q.fresh /\ q.depth = p.depth
  BY <1>4 DEF At
<1>12. Counts(q, g, sym', errors')
  BY <1>1, <1>5, <1>9, <1>10, <1>11 DEF Counts, Unfinished, Missing
<1> QED
  BY <1>1, <1>2, <1>5, <1>8, <1>9, <1>10, <1>11, <1>12, WritesLast

\* The message to a receiver and its arguments.
LEMMA SendsOk ==
  ASSUME ParserInv, send, UNCHANGED source
  PROVE  ParserInv'
<1> DEFINE n == task.n
           g == EmitSend(gen, n)
<1>1. /\ todo # <<>> /\ task.do = "send" /\ super' = super /\ errors' = errors
      /\ UNCHANGED scanner /\ SetGen(g) /\ todo' = Plan(<<>>) \o Tail(todo)
  BY DEF send, Parse, Call, Do, Expand
<1>2. PICK p, q \in Points :
        /\ Linked(p) /\ p.ctx = Len(gens) /\ Leads(task, p, q, gens, errors)
        /\ Doable(todo, p, gens, errors) /\ Doable(Tail(todo), q, gens, errors)
        /\ q.ctx <= Len(gens)
        /\ task \in Tasks /\ Tail(todo) \in Seq(Tasks) /\ Len(gens) \in Nat
  BY <1>1, Found
<1>3. task.do \notin Terminals \cup ClassParts \cup {"Assemble", "pattern", "Yield"}
  BY <1>1 DEF Terminals, ClassParts
<1>4. /\ p.phase = "open" /\ n >= 1 /\ p.depth >= n
      /\ q = At(p.ctx, p.depth - n + 1, "open", FALSE)
      /\ p.ctx \in Nat \ {0} /\ n \in Nat
  <2>1. /\ p.phase = "open" /\ n >= 1 /\ p.depth >= n
        /\ q = At(p.ctx, p.depth - n + 1, "open", FALSE)
    BY <1>1, <1>2, <1>3, MethodPoints
  <2>2. p.ctx \in Nat \ {0}
    BY <1>1, <1>2, <1>3, MethodPoints
  <2> QED
    BY <1>2, <2>1, <2>2 DEF Tasks
<1> HIDE DEF n
<1>5. /\ gens # << >> /\ p.ctx = Len(gens) /\ GenOk(gen) /\ ~gen.finished
      /\ gen.depth \in Int /\ p.depth \in Nat
      /\ ~errors => /\ Sound(gen) /\ gen.depth = p.depth - Missing(sym)
                    /\ gen.yields \/ gen.depth = p.depth
  BY <1>2, <1>4, OpenFacts
<1>6. /\ GenOk(g) /\ Alike(gen, g) /\ g.depth = gen.depth - n + 1 /\ g.finished = gen.finished
      /\ Sound(gen) /\ (gen.yields \/ gen.depth >= n) => Sound(g)
  BY <1>4, <1>5, SendOk
<1> HIDE DEF g
<1>7. /\ ~g.finished /\ gen.literals \subseteq g.literals /\ g.yields = gen.yields
      /\ ~errors => Sound(g)
  BY <1>4, <1>5, <1>6 DEF Alike
<1>8. ScanStep /\ sym' = sym
  BY <1>1, ScanUnchanged DEF ScanStep, ParserInv, ScanOk
<1>9. q.ctx = p.ctx /\ q.phase = "open" /\ ~q.fresh /\ q.depth = p.depth - n + 1
  BY <1>4 DEF At
<1>10. Counts(q, g, sym', errors')
  <2>1. ASSUME ~errors
        PROVE  q.depth = g.depth + Missing(sym)
    <3> DEFINE m == Missing(sym)
    <3>1. m \in {0, 1}
      BY DEF Missing
    <3>2. gen.depth = p.depth - m /\ p.depth \in Nat /\ n \in Nat
      BY <1>4, <1>5, <2>1
    <3> HIDE DEF m
    <3>3. q.depth = (p.depth - m) - n + 1 + m
      BY <1>9, <3>1, <3>2
    <3> QED
      BY <1>6, <3>2, <3>3 DEF m
  <2>2. ~errors /\ sym.sym = "Yield" => g.yields
    BY <1>2, <1>7 DEF Linked, Counts
  <2>3. q.depth >= 1
    <3> DEFINE d == p.depth
    <3>1. d \in Nat /\ n \in Nat /\ d >= n /\ q.depth = d - n + 1
      BY <1>4, <1>5, <1>9
    <3> HIDE DEF d
    <3>2. d - n + 1 >= 1
      BY <3>1
    <3> QED
      BY <3>1, <3>2
  <2> QED
    BY <1>1, <1>7, <1>8, <1>9, <2>1, <2>2, <2>3 DEF Counts, Unfinished
<1> QED
  BY <1>1, <1>2, <1>5, <1>6, <1>7, <1>8, <1>9, <1>10, WritesLast

\* A binary message reads its name, and goes on with its operand.
LEMMA BinaryMessageOk ==
  ASSUME ParserInv, binaryMessage, UNCHANGED source
  PROVE  ParserInv'
<1> DEFINE T == Tail(todo)
           l == AddLiteralIfAbsent(gen, sym.text)
           t == Task("send", 2, task.isSuper, <<>>)
           fs == <<"primary", "operandMessages">>
<1>1. /\ todo # <<>> /\ task.do = "binaryMessage" /\ super' = super /\ errors' = errors
      /\ GetSym /\ SetGen(l) /\ todo' = (Plan(fs) \o <<t>>) \o T
  BY DEF binaryMessage, Parse, Call, Expand
<1>2. PICK p, q \in Points :
        /\ Linked(p) /\ p.ctx = Len(gens) /\ Leads(task, p, q, gens, errors)
        /\ Doable(todo, p, gens, errors) /\ Doable(Tail(todo), q, gens, errors)
        /\ q.ctx <= Len(gens)
        /\ task \in Tasks /\ Tail(todo) \in Seq(Tasks) /\ Len(gens) \in Nat
  BY <1>1, Found
<1>3. task.do \notin Terminals \cup ClassParts \cup {"Assemble", "pattern", "Yield"}
  BY <1>1 DEF Terminals, ClassParts
<1>4. /\ p.phase = "read" /\ p.depth >= 1 /\ q = At(p.ctx, p.depth, "open", FALSE)
      /\ p.ctx \in Nat \ {0}
  <2>1. p.phase = "read" /\ p.depth >= 1 /\ q = At(p.ctx, p.depth, "open", FALSE)
    BY <1>1, <1>2, <1>3, MethodPoints
  <2>2. p.ctx \in Nat \ {0}
    BY <1>1, <1>2, <1>3, MethodPoints
  <2> QED
    BY <2>1, <2>2
<1>5. /\ gens # << >> /\ p.ctx = Len(gens) /\ GenOk(gen) /\ ~gen.finished
      /\ gen.depth \in Int /\ p.depth \in Nat
      /\ ~errors => Sound(gen) /\ sym.sym # "Yield"
      /\ Counts(p, gen, sym, errors)
  <2>1. Counts(p, gen, sym, errors)
    BY <1>2, <1>4, Inside
  <2> QED
    BY <1>2, <1>4, <2>1, OpenFacts
<1>6. sym.text \in Texts /\ errors \in BOOLEAN /\ super \in BOOLEAN
  BY SymbolFacts DEF ParserInv, ScanOk
<1>7. /\ GenOk(l) /\ SameCode(gen, l) /\ gen.literals \subseteq l.literals
      /\ l.primitive = gen.primitive /\ (Sound(gen) => Sound(l))
  <2>1. /\ l \in GenType /\ SameCode(gen, l) /\ gen.literals \subseteq l.literals
        /\ l.primitive = gen.primitive /\ l.empty = gen.empty
    BY <1>5, <1>6, DeclareOk
  <2> QED
    BY <1>5, <2>1, SameCodeOk
<1> HIDE DEF l
<1>8. ScanStep /\ sym'.sym # "Yield" /\ nextSym' = NoToken
  BY <1>1, <1>6, GetSymOk DEF ScanStep, ParserInv, Symbols
<1> DEFINE d == p.depth
           o1 == At(p.ctx, d + 1, "open", FALSE)
<1>9. /\ q.ctx = p.ctx /\ q.phase = "open" /\ ~q.fresh /\ q.depth = p.depth
      /\ o1 \in Points
  BY <1>4, <1>5 DEF At, Points, Phases
<1>10. Counts(q, l, sym', errors')
  <2>1. Counts(p, l, sym', errors')
    BY <1>1, <1>5, <1>6, <1>7, <1>8, SameCounts DEF ScanStep
  <2> QED
    BY <1>1, <1>4, <1>8, <1>9, <2>1 DEF Counts, Unfinished
<1>11. T \in Seq(Tasks) /\ Doable(T, q, gens', errors')
  <2>1. /\ (errors => errors') /\ (~errors' => Sound(l)) /\ q.ctx <= Len(gens)
        /\ T \in Seq(Tasks) /\ Doable(T, q, gens, errors)
    BY <1>1, <1>2, <1>5, <1>7
  <2> HIDE DEF T
  <2> QED
    BY <1>1, <1>2, <1>5, <1>7, <2>1, Rest
<1>12. t \in Tasks /\ t.do = "send" /\ t.n = 2
  <2>1. "send" \in Texts /\ 2 \in Nat /\ task.isSuper \in BOOLEAN
    BY <1>2 DEF Texts, Tasks
  <2> QED
    BY <2>1, TaskIsTask
<1>13. Leads(t, o1, q, gens', errors')
  <2>1. (d + 1) - 2 + 1 = d /\ d + 1 >= 2 /\ 2 >= 1
    BY <1>4, <1>5
  <2> QED
    BY <1>4, <1>12, <2>1 DEF Leads, At
<1> DEFINE U == <<t>> \o T
<1>14. U \in Seq(Tasks) /\ Doable(U, o1, gens', errors')
  <2>1. t.do \notin Assigning
    BY <1>12 DEF Assigning
  <2> HIDE DEF t, o1, T
  <2> QED
    BY <1>2, <1>9, <1>11, <1>12, <1>13, <2>1, Before, Prefixed
<1>15. /\ Leads(Plain("primary"), q, o1, gens', errors')
       /\ Leads(Plain("operandMessages"), o1, o1, gens', errors')
  <2>1. d + 1 >= 1
    BY <1>5
  <2> QED
    BY <1>4, <2>1 DEF Leads, At, Plain, Task, Neutral
<1>16. /\ "primary" \in Texts \ Assigning /\ "operandMessages" \in Texts \ Assigning
       /\ Plan(fs) \in Seq(Tasks)
  <2>1. "primary" \in Texts \ Assigning /\ "operandMessages" \in Texts \ Assigning
    BY DEF Texts, Assigning
  <2>2. fs \in Seq(Texts)
    BY <2>1
  <2> QED
    BY <2>1, <2>2, PlanIsSeq
<1>17. todo' = Plan(fs) \o U
  <2> HIDE DEF fs, t
  <2> QED
    BY <1>1, <1>11, <1>12, <1>16, AppendedTask DEF fs, t
<1> HIDE DEF U, o1, T, t
<1>18. todo' \in Seq(Tasks) /\ Doable(todo', q, gens', errors')
  BY <1>2, <1>9, <1>14, <1>15, <1>16, <1>17, Do2
<1>19. Ahead(q, sym', nextSym', todo')
  BY <1>9 DEF Ahead
<1>20. ~errors' => Sound(l)
  BY <1>1, <1>5, <1>7
<1> QED
  BY <1>1, <1>2, <1>5, <1>7, <1>8, <1>9, <1>10, <1>18, <1>19, <1>20, Writes

LEMMA EmptyOk ==
  ASSUME NEW g, GenOk(g), NEW b \in BOOLEAN
  PROVE  LET h == [g EXCEPT !.empty = b]
         IN  h \in GenType /\ SameCode(g, h) /\ h.primitive = g.primitive
             /\ h.literals = g.literals /\ (h.empty <=> b)
<1> DEFINE h == [g EXCEPT !.empty = b]
<1>1. g \in GenType
  BY DEF GenOk
<1>2. h \in GenType
  BY <1>1 DEF GenType
<1>3. h.primitive = g.primitive /\ h.literals = g.literals /\ h.empty = b
  BY <1>1 DEF GenType
<1>4. SameCode(g, h)
  BY <1>1 DEF GenType, SameCode
<1> HIDE DEF h
<1> QED
  BY <1>2, <1>3, <1>4 DEF h

\* The end of a body: an empty one returns what is not there, and the last
\* statement what the POP after it would have dropped.
LEMMA BodyEndOk ==
  ASSUME NEW g0, GenOk(g0), ~g0.finished, NEW b \in BOOLEAN
  PROVE  LET h == EmitReturn([g0 EXCEPT !.empty = b])
         IN  /\ GenOk(h) /\ h.finished /\ h.literals = g0.literals
             /\ Sound(g0) /\ (g0.yields \/ b \/ g0.depth = 1) => Sound(h)
<1> DEFINE g1 == [g0 EXCEPT !.empty = b]
           h == EmitReturn(g1)
<1>1. g1 \in GenType /\ SameCode(g0, g1) /\ g1.literals = g0.literals /\ (g1.empty <=> b)
  BY EmptyOk
<1> HIDE DEF g1
<1>2. g0.returned = {}
  BY DEF GenOk
<1>3. GenOk(g1) /\ (Sound(g0) => Sound(g1))
  BY <1>1, <1>2, SameCodeOk
<1>4. /\ GenOk(h) /\ Alike(g1, h) /\ h.finished
      /\ Sound(g1) /\ (g1.yields \/ g1.empty \/ g1.depth = 1) => Sound(h)
  BY <1>3, ReturnOk
<1> HIDE DEF h
<1>5. h.literals = g0.literals /\ g1.yields = g0.yields /\ g1.depth = g0.depth
  BY <1>1, <1>4 DEF Alike, SameCode
<1> QED
  BY <1>1, <1>3, <1>4, <1>5 DEF g1, h

\* A statement, the result, or the end of a body.
LEMMA BlockBodyOk ==
  ASSUME ParserInv, blockBody, UNCHANGED source
  PROVE  ParserInv'
<1> DEFINE T == Tail(todo)
           seen == task.do = "nextStatement"
<1>1. /\ todo # <<>> /\ task.do \in {"blockBody", "nextStatement"}
      /\ super' = super /\ errors' = errors
      /\ \/ /\ sym.sym = "Exit" /\ GetSym /\ todo' = Plan(<<"expression", "result">>) \o T
            /\ gens' = gens
         \/ /\ BodyEnds(seen) /\ todo' = Plan(<<>>) \o T /\ UNCHANGED scanner
         \/ /\ todo' = Plan(<<"expression", "endStatement">>) \o T
            /\ UNCHANGED scanner /\ gens' = gens
  BY DEF blockBody, Parse, Call, Do, Expand
<1>2. PICK p, q \in Points :
        /\ Linked(p) /\ p.ctx = Len(gens) /\ Leads(task, p, q, gens, errors)
        /\ Doable(todo, p, gens, errors) /\ Doable(Tail(todo), q, gens, errors)
        /\ q.ctx <= Len(gens)
        /\ task \in Tasks /\ Tail(todo) \in Seq(Tasks) /\ Len(gens) \in Nat
  BY <1>1, Found
<1>3. task.do \notin Terminals \cup ClassParts \cup {"Assemble", "pattern", "Yield"}
  BY <1>1 DEF Terminals, ClassParts
<1>4. /\ q = At(p.ctx, 1, "ended", FALSE) /\ p.ctx \in Nat \ {0}
      /\ p = At(p.ctx, 0, IF seen THEN "next" ELSE "open", TRUE)
  <2>1. /\ q = At(p.ctx, 1, "ended", FALSE)
        /\ p = At(p.ctx, 0, IF seen THEN "next" ELSE "open", TRUE)
    BY <1>1, <1>2, <1>3, MethodPoints
  <2>2. p.ctx \in Nat \ {0}
    BY <1>1, <1>2, <1>3, MethodPoints
  <2> QED
    BY <2>1, <2>2
<1> DEFINE o0 == At(p.ctx, 0, "open", TRUE)
           o1 == At(p.ctx, 1, "open", FALSE)
<1>5. /\ o0 \in Points /\ o0.phase = "open" /\ o0.ctx = p.ctx /\ o0.depth = 0 /\ o0.fresh
      /\ o1 \in Points
      /\ q.ctx = p.ctx /\ q.depth = 1 /\ q.phase = "ended" /\ ~q.fresh
  BY <1>4 DEF Points, Phases, At
<1>6. p.fresh /\ p.depth = 0 /\ p.phase = IF seen THEN "next" ELSE "open"
  <2> DEFINE ph == IF seen THEN "next" ELSE "open"
             x == At(p.ctx, 0, ph, TRUE)
  <2> HIDE DEF ph
  <2>1. x.fresh /\ x.depth = 0 /\ x.phase = ph
    BY DEF At
  <2>2. p = x
    BY <1>4 DEF ph
  <2> HIDE DEF x
  <2> QED
    BY <2>1, <2>2 DEF ph
<1>7. p.phase \in {"open", "next"} /\ (seen => p.phase = "next")
  BY <1>6
<1>8. /\ gens # << >> /\ p.ctx = Len(gens) /\ GenOk(gen) /\ ~gen.finished
      /\ gen.depth \in Int /\ p.depth \in Nat
      /\ ~errors => /\ Sound(gen) /\ gen.depth = p.depth - Missing(sym)
                    /\ gen.yields \/ gen.depth = p.depth
                    /\ sym.sym = "Yield" => p.phase = "open"
  BY <1>2, <1>4, <1>7, OpenFacts
<1>9. /\ "expression" \in Texts \ Assigning /\ "result" \in Texts \ Assigning
      /\ "endStatement" \in Texts \ Assigning
  BY DEF Texts, Assigning
<1>10. /\ Leads(Plain("expression"), o0, o1, gens, errors)
       /\ Leads(Plain("result"), o1, q, gens, errors)
       /\ Leads(Plain("endStatement"), o1, q, gens, errors)
  BY <1>4 DEF Leads, Plain, Task, At
<1>11. Onwards(p, o0)
  BY <1>5, <1>7 DEF Onwards, Unfinished
<1>12. super' \in BOOLEAN /\ T \in Seq(Tasks) /\ Doable(T, q, gens, errors)
  BY <1>1, <1>2 DEF ParserInv, ScanOk
<1> HIDE DEF o0, o1, T, seen
<1>13. CASE /\ sym.sym = "Exit" /\ GetSym /\ todo' = Plan(<<"expression", "result">>) \o T
            /\ gens' = gens
  <2>1. todo' \in Seq(Tasks) /\ Doable(todo', o0, gens, errors)
    BY <1>2, <1>5, <1>9, <1>10, <1>12, <1>13, Do2
  <2> QED
    BY <1>1, <1>2, <1>5, <1>6, <1>11, <1>12, <1>13, <2>1, Reads
<1>14. CASE /\ todo' = Plan(<<"expression", "endStatement">>) \o T
            /\ UNCHANGED scanner /\ gens' = gens
  <2>1. todo' \in Seq(Tasks) /\ Doable(todo', o0, gens, errors)
    BY <1>2, <1>5, <1>9, <1>10, <1>12, <1>14, Do2
  <2>2. task.do \notin Terminals \cup {"pattern", "Yield"}
    BY <1>3
  <2> QED
    BY <1>1, <1>2, <1>5, <1>6, <1>11, <1>12, <1>14, <2>1, <2>2, Calls
<1>15. CASE BodyEnds(seen) /\ todo' = Plan(<<>>) \o T /\ UNCHANGED scanner
  <2>1. sym.sym # "Yield" /\ seen \in BOOLEAN /\ Missing(sym) = 0
    BY <1>15 DEF BodyEnds, Missing, seen
  <2>2. ~errors => gen.depth = 0
    BY <1>6, <1>8, <2>1
  <2>3. ~errors /\ seen => gen.yields \/ (gen.last = -1 /\ ~gen.operand)
    <3>1. Counts(p, gen, sym, errors)
      BY <1>2, <1>4, Inside
    <3> QED
      BY <1>7, <3>1 DEF Counts
  <2>4. \E g0 : /\ SetGen(EmitReturn([g0 EXCEPT !.empty = ~seen]))
                /\ GenOk(g0) /\ ~g0.finished /\ g0.literals = gen.literals
                /\ ~errors => Sound(g0) /\ (g0.yields \/ ~seen \/ g0.depth = 1)
    <3>1. CASE ~seen
      <4>1. SetGen(EmitReturn([gen EXCEPT !.empty = ~seen]))
        BY <1>15, <3>1 DEF BodyEnds
      <4> QED
        BY <1>8, <3>1, <4>1
    <3>2. CASE seen /\ sym.sym = "EndBlock"
      <4> DEFINE g0 == RemoveLastBytecode(gen)
      <4>1. SetGen(EmitReturn([g0 EXCEPT !.empty = ~seen]))
        BY <1>15, <3>2 DEF BodyEnds
      <4>2. /\ GenOk(g0) /\ Alike(gen, g0) /\ g0.finished = gen.finished
            /\ ~gen.operand => g0.depth = gen.depth - gen.last
            /\ Sound(gen) /\ (gen.yields \/ ~gen.operand) => Sound(g0)
        BY <1>8, RemoveLastOk
      <4> HIDE DEF g0
      <4>3. gen.depth = 0 /\ gen.last = -1 /\ ~gen.operand => g0.depth = 1
        BY <4>2
      <4> QED
        BY <1>8, <2>2, <2>3, <3>2, <4>1, <4>2, <4>3 DEF Alike
    <3>3. CASE seen /\ sym.sym = "EndTerm"
      <4> DEFINE g0 == EmitPush(gen)
      <4>1. SetGen(EmitReturn([g0 EXCEPT !.empty = ~seen]))
        BY <1>15, <3>3 DEF BodyEnds
      <4>2. /\ GenOk(g0) /\ Alike(gen, g0) /\ g0.depth = gen.depth + 1
            /\ g0.finished = gen.finished
            /\ Sound(gen) /\ (gen.yields \/ gen.depth >= 0) => Sound(g0)
        BY <1>8, PushOk
      <4> HIDE DEF g0
      <4>3. gen.depth = 0 => g0.depth = 1 /\ gen.depth >= 0
        BY <4>2
      <4> QED
        BY <1>8, <2>2, <3>3, <4>1, <4>2, <4>3 DEF Alike
    <3> QED
      BY <1>15, <3>1, <3>2, <3>3 DEF BodyEnds
  <2>5. PICK g0 : /\ SetGen(EmitReturn([g0 EXCEPT !.empty = ~seen]))
                  /\ GenOk(g0) /\ ~g0.finished /\ g0.literals = gen.literals
                  /\ ~errors => Sound(g0) /\ (g0.yields \/ ~seen \/ g0.depth = 1)
    BY <2>4
  <2> DEFINE b == ~seen
             g == EmitReturn([g0 EXCEPT !.empty = b])
  <2>6. b \in BOOLEAN
    OBVIOUS
  <2>7. SetGen(g) /\ (~errors => Sound(g0) /\ (g0.yields \/ b \/ g0.depth = 1))
    BY <2>5
  <2> HIDE DEF b
  <2>8. /\ GenOk(g) /\ g.finished /\ g.literals = g0.literals
        /\ Sound(g0) /\ (g0.yields \/ b \/ g0.depth = 1) => Sound(g)
    BY <2>5, <2>6, BodyEndOk
  <2> HIDE DEF g
  <2>9. ScanStep /\ sym' = sym
    BY <1>1, <1>15, ScanUnchanged DEF ScanStep, ParserInv, ScanOk
  <2>10. Counts(q, g, sym', errors')
    BY <1>5, <2>1, <2>8, <2>9 DEF Counts, Unfinished
  <2>11. (~errors' => Sound(g)) /\ gen.literals \subseteq g.literals
    BY <1>1, <2>5, <2>7, <2>8
  <2> QED
    BY <1>1, <1>2, <1>5, <1>8, <1>15, <2>7, <2>8, <2>9, <2>10, <2>11, WritesLast DEF T
<1> QED
  BY <1>1, <1>13, <1>14, <1>15

LEMMA SumIsNat ==
  \A x, n \in Nat : \A e \in Int :
     x + e >= n + 1 => x + e \in Nat /\ (x + e) - n = x + e - n
OBVIOUS

\* A value is duplicated, or written to the next variable.
LEMMA AssignsNext ==
  ASSUME ParserInv, source' = source, UNCHANGED scanner, errors' = errors, super' = super,
         NEW p \in Points, Linked(p), p.phase = "open", p.ctx \in Nat \ {0},
         NEW t \in Tasks, t.do = "assign", t.n <= Len(t.names),
         \A i \in 1..Len(t.names) : t.names[i] \in gen.literals,
         NEW e \in Int, p.depth + e >= t.n + 1,
         NEW g, GenOk(g), SetGen(g), Alike(gen, g), g.depth = gen.depth + e,
         g.finished = gen.finished, ~errors => Sound(g),
         NEW T \in Seq(Tasks), todo' = <<t>> \o T,
         NEW q \in Points, q = At(p.ctx, p.depth + e - t.n, "open", FALSE), q.ctx <= Len(gens),
         Doable(T, q, gens, errors)
  PROVE  ParserInv'
<1>1. /\ gens # << >> /\ p.ctx = Len(gens) /\ GenOk(gen) /\ ~gen.finished
      /\ gen.depth \in Int /\ p.depth \in Nat /\ t.n \in Nat
      /\ ~errors => gen.depth = p.depth - Missing(sym)
  BY OpenFacts DEF Tasks
<1>2. /\ Len(gens') = Len(gens) /\ gen' = g
  BY <1>1, SetGenOk DEF ParserInv
<1>3. gens'[p.ctx] = g
  BY <1>1, <1>2 DEF gen
<1> DEFINE d == p.depth + e
           o == At(p.ctx, d, "open", FALSE)
<1>4. d \in Nat /\ d >= t.n + 1 /\ d - t.n = p.depth + e - t.n
  <2> DEFINE x == p.depth
             n == t.n
  <2>1. x \in Nat /\ n \in Nat /\ x + e >= n + 1
    BY <1>1, Zenon
  <2> HIDE DEF x, n
  <2>2. x + e \in Nat /\ (x + e) - n = x + e - n
    BY <2>1, SumIsNat, Zenon
  <2>3. QED
    BY <2>1, <2>2, Zenon DEF x, n
<1>5. o \in Points /\ o.ctx = p.ctx /\ o.depth = d /\ o.phase = "open" /\ ~o.fresh
      /\ q.ctx = p.ctx
  <2>1. p.ctx \in Nat \ {0}
    OBVIOUS
  <2>2. q.ctx = p.ctx
    BY Zenon DEF At
  <2> HIDE DEF d
  <2>3. QED
    BY <1>4, <2>1, <2>2 DEF At, Points, Phases
<1>6. Leads(t, o, q, gens', errors')
  <2>1. \A i \in 1..Len(t.names) : t.names[i] \in gens'[p.ctx].literals
    BY <1>3 DEF Alike
  <2>2. q = At(o.ctx, o.depth - t.n, "open", FALSE)
    BY <1>4, <1>5
  <2> HIDE DEF o, d
  <2> QED
    BY <1>4, <1>5, <2>1, <2>2 DEF Leads
<1> HIDE DEF o, d
<1>7. Doable(T, q, gens', errors')
  <2>1. (errors => errors') /\ (~errors' => Sound(g))
    OBVIOUS
  <2>2. gen.literals \subseteq g.literals
    BY DEF Alike
  <2> QED
    BY <1>1, <2>1, <2>2, Rest
<1>8. todo' \in Seq(Tasks) /\ Doable(todo', o, gens', errors')
  <2>1. t.do \notin Assigning
    BY DEF Assigning
  <2> QED
    BY <1>5, <1>6, <1>7, <2>1, Before, Prefixed
<1>9. ScanStep /\ sym' = sym
  BY ScanUnchanged DEF ScanStep, ParserInv, ScanOk
<1>10. Counts(o, g, sym', errors')
  <2>1. ASSUME ~errors
        PROVE  o.depth = g.depth + Missing(sym)
    <3> DEFINE m == Missing(sym)
    <3>1. m \in {0, 1}
      BY DEF Missing
    <3>2. gen.depth = p.depth - m
      BY <1>1, <2>1
    <3> HIDE DEF m
    <3>3. o.depth = (p.depth - m) + e + m
      BY <1>1, <1>5, <3>1, <3>2 DEF d
    <3> QED
      BY <3>2, <3>3 DEF m
  <2>2. ~errors /\ sym.sym = "Yield" => g.yields
    BY DEF Linked, Counts, Alike
  <2>3. o.depth >= 1
    BY <1>1, <1>4, <1>5
  <2> QED
    BY <1>1, <1>5, <1>9, <2>1, <2>2, <2>3 DEF Counts, Unfinished
<1>11. Ahead(o, sym', nextSym', todo')
  BY <1>5 DEF Ahead
<1> QED
  BY <1>1, <1>5, <1>8, <1>9, <1>10, <1>11, Writes

LEMMA AssignOk ==
  ASSUME ParserInv, assign, UNCHANGED source
  PROVE  ParserInv'
<1> DEFINE T == Tail(todo)
           n == task.n
           m == Len(task.names)
<1>1. /\ todo # <<>> /\ task.do = "assign" /\ super' = super /\ errors' = errors
      /\ UNCHANGED scanner
      /\ \/ task.names = <<>> /\ todo' = Plan(<<>>) \o T /\ gens' = gens
         \/ /\ task.names # <<>> /\ n < m
            /\ todo' = <<[task EXCEPT !.n = @ + 1]>> \o T /\ SetGen(EmitDUP(gen))
         \/ /\ task.names # <<>> /\ ~(n < m) /\ SetGen(EmitPopVariable(gen))
            /\ todo' = <<[task EXCEPT !.n = @ - 1, !.names = Tail(@)]>> \o T
  BY DEF assign, Call, Do, Expand, genPopVariable
<1>2. PICK p, q \in Points :
        /\ Linked(p) /\ p.ctx = Len(gens) /\ Leads(task, p, q, gens, errors)
        /\ Doable(todo, p, gens, errors) /\ Doable(Tail(todo), q, gens, errors)
        /\ q.ctx <= Len(gens)
        /\ task \in Tasks /\ Tail(todo) \in Seq(Tasks) /\ Len(gens) \in Nat
  BY <1>1, Found
<1>3. task.do \notin Terminals \cup ClassParts \cup {"Assemble", "pattern", "Yield"}
  BY <1>1 DEF Terminals, ClassParts
<1>4. /\ p.phase = "open" /\ p.depth >= n + 1 /\ n <= m
      /\ \A i \in 1..m : task.names[i] \in gens[p.ctx].literals
      /\ q = At(p.ctx, p.depth - n, "open", FALSE)
      /\ p.ctx \in Nat \ {0} /\ p.depth \in Nat
  <2>1. /\ p.phase = "open" /\ p.depth >= n + 1 /\ n <= m
        /\ \A i \in 1..m : task.names[i] \in gens[p.ctx].literals
        /\ q = At(p.ctx, p.depth - n, "open", FALSE)
    BY <1>1, <1>2, <1>3, MethodPoints
  <2>2. p.ctx \in Nat \ {0}
    BY <1>1, <1>2, <1>3, MethodPoints
  <2> QED
    BY <2>1, <2>2 DEF Points
<1>5. n \in Nat /\ m \in Nat /\ task.names \in Seq(Texts) /\ task \in Tasks
      /\ T \in Seq(Tasks) /\ Doable(T, q, gens, errors)
  BY <1>2 DEF Tasks
<1>6. /\ gens # << >> /\ p.ctx = Len(gens) /\ GenOk(gen) /\ ~gen.finished
      /\ gen.depth \in Int
      /\ ~errors => /\ Sound(gen)
                    /\ gen.yields \/ gen.depth = p.depth
  BY <1>2, <1>4, OpenFacts
<1>7. \A i \in 1..m : task.names[i] \in gen.literals
  BY <1>4, <1>6 DEF gen
<1> HIDE DEF T, n, m
<1>8. CASE task.names = <<>> /\ todo' = Plan(<<>>) \o T /\ gens' = gens
  <2>1. n = 0 /\ p.depth - n = p.depth
    BY <1>4, <1>5, <1>8 DEF m
  <2>2. q.ctx = p.ctx /\ q.depth = p.depth /\ q.phase = "open" /\ ~q.fresh
    BY <1>4, <2>1 DEF At
  <2>3. todo' \in Seq(Tasks) /\ Doable(todo', q, gens, errors)
    BY <1>5, <1>8, Planned0
  <2>4. task.do \notin Terminals \cup {"pattern", "Yield"} /\ Onwards(p, q)
        /\ super' \in BOOLEAN
    BY <1>1, <1>3, <1>4, <2>2 DEF Onwards, ParserInv, ScanOk
  <2> QED
    BY <1>1, <1>2, <1>8, <2>2, <2>3, <2>4, Calls
<1>9. CASE /\ n < m /\ todo' = <<[task EXCEPT !.n = @ + 1]>> \o T /\ SetGen(EmitDUP(gen))
  <2> DEFINE k == n + 1
             t == [task EXCEPT !.n = k]
             g == EmitDUP(gen)
  <2>1. k \in Nat /\ todo' = <<t>> \o T
    BY <1>5, <1>9 DEF n
  <2> HIDE DEF k
  <2>2. t \in Tasks /\ t.do = "assign" /\ t.n = k /\ t.names = task.names
    BY <1>1, <1>5, <2>1 DEF Tasks
  <2> HIDE DEF t
  <2>3. /\ GenOk(g) /\ Alike(gen, g) /\ g.depth = gen.depth + 1 /\ g.finished = gen.finished
        /\ Sound(gen) /\ (gen.yields \/ gen.depth >= 1) => Sound(g)
    BY <1>6, DupOk
  <2>4. SetGen(g)
    BY <1>9
  <2> HIDE DEF g
  <2>5. p.depth + 1 >= k + 1 /\ k <= m /\ p.depth + 1 - k = p.depth - n /\ p.depth >= 1
    BY <1>4, <1>5, <1>9 DEF k
  <2>6. ~errors => Sound(g)
    BY <1>6, <2>3, <2>5
  <2>7. /\ t.n <= Len(t.names) /\ p.depth + 1 >= t.n + 1
        /\ \A i \in 1..Len(t.names) : t.names[i] \in gen.literals
        /\ q = At(p.ctx, p.depth + 1 - t.n, "open", FALSE)
    BY <1>4, <1>7, <2>2, <2>5 DEF m
  <2> DEFINE e == 1
  <2>8. /\ e \in Int /\ g.depth = gen.depth + e /\ p.depth + e >= t.n + 1
        /\ q = At(p.ctx, p.depth + e - t.n, "open", FALSE)
    BY <2>3, <2>7
  <2> HIDE DEF k, e
  <2> QED
    BY <2>8, <1>1, <1>2, <1>4, <1>5, <2>1, <2>2, <2>3, <2>4, <2>6, <2>7, AssignsNext
<1>10. CASE /\ task.names # <<>> /\ ~(n < m) /\ SetGen(EmitPopVariable(gen))
            /\ todo' = <<[task EXCEPT !.n = @ - 1, !.names = Tail(@)]>> \o T
  <2> DEFINE k == n - 1
             ns == Tail(task.names)
             t == [task EXCEPT !.n = k, !.names = ns]
             g == EmitPopVariable(gen)
  <2>1. /\ k \in Nat /\ k = m - 1 /\ ns \in Seq(Texts) /\ Len(ns) = m - 1
        /\ \A i \in 1..(m - 1) : ns[i] = task.names[i + 1]
    <3>1. m # 0 /\ n = m
      BY <1>4, <1>5, <1>10 DEF m
    <3> QED
      BY <1>5, <1>10, <3>1 DEF m
  <2>2. todo' = <<t>> \o T
    BY <1>5, <1>10 DEF n
  <2> HIDE DEF k, ns
  <2>3. t \in Tasks /\ t.do = "assign" /\ t.n = k /\ t.names = ns
    BY <1>1, <1>5, <2>1 DEF Tasks
  <2> HIDE DEF t
  <2>4. /\ GenOk(g) /\ Alike(gen, g) /\ g.depth = gen.depth - 1 /\ g.finished = gen.finished
        /\ Sound(gen) /\ (gen.yields \/ gen.depth >= 1) => Sound(g)
    BY <1>6, PopVariableOk
  <2>5. SetGen(g) /\ g.depth = gen.depth + (-1)
    BY <1>6, <1>10, <2>4
  <2> HIDE DEF g
  <2>6. /\ p.depth + (-1) >= k + 1 /\ p.depth + (-1) - k = p.depth - n /\ p.depth >= 1
    BY <1>4, <1>5 DEF k
  <2>7. ~errors => Sound(g)
    BY <1>6, <2>4, <2>6
  <2>8. \A i \in 1..(m - 1) : ns[i] \in gen.literals
    <3>1. \A i \in 1..(m - 1) : i + 1 \in 1..m
      BY <1>5
    <3> QED
      BY <1>7, <2>1, <3>1
  <2>9. /\ t.n <= Len(t.names) /\ p.depth + (-1) >= t.n + 1
        /\ q = At(p.ctx, p.depth + (-1) - t.n, "open", FALSE)
    <3>1. t.n = k /\ Len(t.names) = m - 1
      BY <2>1, <2>3
    <3>2. t.n <= Len(t.names) /\ p.depth + (-1) >= t.n + 1
          /\ p.depth + (-1) - t.n = p.depth - n
      BY <2>1, <2>6, <3>1, <1>5
    <3> QED
      BY <1>4, <3>2
  <2>10. \A i \in 1..Len(t.names) : t.names[i] \in gen.literals
    BY <2>1, <2>3, <2>8
  <2>11. -1 \in Int
    OBVIOUS
  <2> QED
    BY <2>10, <2>11, <1>1, <1>2, <1>4, <1>5, <2>2, <2>3, <2>4, <2>5, <2>7, <2>9, AssignsNext
<1> QED
  BY <1>1, <1>8, <1>9, <1>10

\* One more variable for the task that assigns them, which is the third one left.
Amend(T, name) == [T EXCEPT ![3].names = Append(@, name)]

LEMMA Amended ==
  ASSUME NEW T \in Seq(Tasks), NEW q \in Points, NEW gs, NEW wrong, NEW name \in Texts,
         Doable(T, q, gs, wrong), name \in gs[q.ctx].literals,
         3 \in DOMAIN T, T[1].do = "primary", T[2].do = "messages", T[3].do = "assign",
         NEW A, A = Amend(T, name)
  PROVE  /\ A \in Seq(Tasks) /\ Doable(A, q, gs, wrong)
         /\ 3 \in DOMAIN A
         /\ A[1].do = "primary" /\ A[2].do = "messages" /\ A[3].do = "assign"
<1> DEFINE ns == Append(T[3].names, name)
           t == [T[3] EXCEPT !.names = ns]
<1>1. /\ DOMAIN T = 1..Len(T) /\ Len(T) \in Nat /\ 3 \in 1..Len(T)
      /\ 1 \in 1..Len(T) /\ 2 \in 1..Len(T) /\ T \in [1..Len(T) -> Tasks] /\ T[3] \in Tasks
  OBVIOUS
<1>2. /\ ns \in Seq(Texts) /\ Len(ns) = Len(T[3].names) + 1 /\ Len(T[3].names) \in Nat
      /\ \A i \in 1..Len(T[3].names) : ns[i] = T[3].names[i]
      /\ ns[Len(ns)] = name
  <2>1. T[3].names \in Seq(Texts)
    BY <1>1 DEF Tasks
  <2> QED
    BY <2>1
<1>3. A = [T EXCEPT ![3] = t]
  BY <1>1 DEF Amend
<1> HIDE DEF ns
<1>4. t \in Tasks /\ t.do = "assign" /\ t.n = T[3].n /\ t.names = ns
  BY <1>1, <1>2 DEF Tasks
<1> HIDE DEF t
<1>5. /\ A \in [1..Len(T) -> Tasks] /\ A[3] = t
      /\ \A i \in 1..Len(T) : i # 3 => A[i] = T[i]
  BY <1>1, <1>3, <1>4
<1>6. A \in Seq(Tasks) /\ Len(A) = Len(T) /\ DOMAIN A = 1..Len(T)
  BY <1>1, <1>5
<1>7. /\ 3 \in DOMAIN A
      /\ A[1].do = "primary" /\ A[2].do = "messages" /\ A[3].do = "assign"
      /\ \A i \in 1..Len(T) : A[i].do = T[i].do
  BY <1>1, <1>4, <1>5, <1>6
<1>8. ValueFollows(A)
  <2>1. ValueFollows(T)
    BY DEF Doable
  <2> SUFFICES ASSUME NEW i \in 1..Len(T), A[i].do \in Assigning
               PROVE  /\ i + 3 \in DOMAIN A /\ A[i + 1].do = "primary"
                      /\ A[i + 2].do = "messages" /\ A[i + 3].do = "assign"
    BY <1>6 DEF ValueFollows
  <2>2. T[i].do \in Assigning
    BY <1>7
  <2>3. /\ i + 3 \in 1..Len(T) /\ T[i + 1].do = "primary"
        /\ T[i + 2].do = "messages" /\ T[i + 3].do = "assign"
    BY <1>1, <2>1, <2>2 DEF ValueFollows
  <2>4. i + 1 \in 1..Len(T) /\ i + 2 \in 1..Len(T)
    BY <1>1, <2>3
  <2> QED
    BY <1>6, <1>7, <2>3, <2>4
<1>9. PICK L : Path(T, q, L, gs, wrong)
  BY DEF Doable
<1>10. /\ L \in [1..(Len(T) + 1) -> Points] /\ L[1] = q
       /\ \A i \in 1..Len(T) : Leads(T[i], L[i], L[i + 1], gs, wrong)
  BY <1>9 DEF Path
<1>11. /\ L[2] \in Points /\ L[3] \in Points /\ L[4] \in Points
       /\ Leads(T[1], q, L[2], gs, wrong) /\ Leads(T[2], L[2], L[3], gs, wrong)
       /\ Leads(T[3], L[3], L[4], gs, wrong)
  <2>1. /\ 2 \in 1..(Len(T) + 1) /\ 3 \in 1..(Len(T) + 1) /\ 4 \in 1..(Len(T) + 1)
        /\ 1 + 1 = 2 /\ 2 + 1 = 3 /\ 3 + 1 = 4
    BY <1>1
  <2>2. /\ Leads(T[1], L[1], L[1 + 1], gs, wrong) /\ Leads(T[2], L[2], L[2 + 1], gs, wrong)
        /\ Leads(T[3], L[3], L[3 + 1], gs, wrong)
    BY <1>1, <1>10
  <2> QED
    BY <1>10, <2>1, <2>2
<1> DEFINE x == L[2]
           y == L[3]
           z == L[4]
           t1 == T[1]
           t2 == T[2]
           t3 == T[3]
<1> HIDE DEF x, y, z, t1, t2, t3
<1>12. /\ x \in Points /\ y \in Points /\ z \in Points
       /\ Leads(t1, q, x, gs, wrong) /\ Leads(t2, x, y, gs, wrong) /\ Leads(t3, y, z, gs, wrong)
       /\ t1.do = "primary" /\ t2.do = "messages" /\ t3.do = "assign"
       /\ t1.do \notin Terminals \cup ClassParts \cup {"Assemble"}
       /\ t2.do \notin Terminals \cup ClassParts \cup {"Assemble"}
       /\ t3.do \notin Terminals \cup ClassParts \cup {"Assemble"}
  <2>1. \A s \in {"primary", "messages", "assign"} :
          s \notin Terminals \cup ClassParts \cup {"Assemble"}
    BY DEF Terminals, ClassParts
  <2> QED
    BY <1>11, <2>1 DEF x, y, z, t1, t2, t3
<1>13. y.ctx = q.ctx
  <2>1. q.phase = "open" /\ x = At(q.ctx, q.depth + 1, "open", FALSE)
    <3>1. /\ x \in Points /\ Leads(t1, q, x, gs, wrong) /\ t1.do = "primary"
          /\ t1.do \notin Terminals \cup ClassParts \cup {"Assemble"}
      BY <1>12
    <3> QED
      BY <3>1, MethodPoints
  <2>2. t2.do \in Neutral
    BY <1>12 DEF Neutral
  <2>3. x.phase = "open" /\ x.depth >= 1 /\ y = At(x.ctx, x.depth, "open", FALSE)
    <3>1. /\ x \in Points /\ Leads(t2, x, y, gs, wrong)
          /\ t2.do \notin Terminals \cup ClassParts \cup {"Assemble"}
      BY <1>12
    <3> QED
      BY <2>2, <3>1, MethodPoints
  <2> QED
    BY <2>1, <2>3 DEF At
<1>14. Leads(t, y, z, gs, wrong)
  <2>1. /\ y.phase = "open" /\ y.depth >= t3.n + 1 /\ t3.n <= Len(t3.names)
        /\ \A i \in 1..Len(t3.names) : t3.names[i] \in gs[y.ctx].literals
        /\ z = At(y.ctx, y.depth - t3.n, "open", FALSE)
    BY <1>12, MethodPoints
  <2>2. \A i \in 1..Len(ns) : ns[i] \in gs[y.ctx].literals
    <3> TAKE i \in 1..Len(ns)
    <3>1. i \in 1..Len(t3.names) \/ i = Len(ns)
      BY <1>2 DEF t3
    <3>2. ns[i] = t3.names[i] \/ i = Len(ns)
      BY <1>2, <3>1 DEF t3
    <3> QED
      BY <1>2, <1>13, <2>1, <3>1, <3>2
  <2>3. t.n <= Len(t.names)
    <3>1. t3.n \in Nat
      BY <1>1 DEF Tasks, t3
    <3> QED
      BY <1>2, <1>4, <2>1, <3>1 DEF t3
  <2> QED
    BY <1>4, <2>1, <2>2, <2>3 DEF Leads, t3
<1>15. Path(A, q, L, gs, wrong)
  <2>1. ASSUME NEW i \in 1..Len(A)
        PROVE  Leads(A[i], L[i], L[i + 1], gs, wrong)
    <3>1. CASE i = 3
      <4>1. 3 + 1 = 4
        OBVIOUS
      <4> QED
        BY <1>5, <1>14, <3>1, <4>1 DEF y, z
    <3>2. CASE i # 3
      BY <1>5, <1>6, <1>10, <3>2
    <3> QED
      BY <3>1, <3>2
  <2> QED
    BY <1>6, <1>9, <2>1 DEF Path
<1>16. Doable(A, q, gs, wrong)
  BY <1>8, <1>15 DEF Doable
<1> QED
  BY <1>3, <1>6, <1>7, <1>16

\* A variable to assign to, and the symbol that follows it.
LEMMA AssignmentsOk ==
  ASSUME ParserInv, assignments, UNCHANGED source
  PROVE  ParserInv'
<1> DEFINE T == Tail(todo)
           l == AddLiteralIfAbsent(gen, sym.text)
           A == [T EXCEPT ![3].names = Append(@, sym.text)]
<1>1. /\ todo # <<>> /\ task.do = "assignments" /\ super' = super /\ errors' = errors
      /\ \/ /\ sym.sym = "Identifier" /\ GetSym /\ SetGen(l)
            /\ todo' = Plan(<<"Assign", "moreAssignments">>) \o A
         \/ UNCHANGED scanner /\ gens' = gens /\ todo' = Plan(<<>>) \o T
  BY DEF assignments, Parse, Call, Do, Expand
<1>2. PICK p, q \in Points :
        /\ Linked(p) /\ p.ctx = Len(gens) /\ Leads(task, p, q, gens, errors)
        /\ Doable(todo, p, gens, errors) /\ Doable(Tail(todo), q, gens, errors)
        /\ q.ctx <= Len(gens)
        /\ task \in Tasks /\ Tail(todo) \in Seq(Tasks) /\ Len(gens) \in Nat
  BY <1>1, Found
<1>3. task.do \notin Terminals \cup ClassParts \cup {"Assemble", "pattern", "Yield"}
  BY <1>1 DEF Terminals, ClassParts
<1>4. /\ p.phase = "open" /\ q = At(p.ctx, p.depth, "open", FALSE)
      /\ p.ctx \in Nat \ {0} /\ p.depth \in Nat
  <2>1. p.phase = "open" /\ q = At(p.ctx, p.depth, "open", FALSE)
    BY <1>1, <1>2, <1>3, MethodPoints
  <2>2. p.ctx \in Nat \ {0}
    BY <1>1, <1>2, <1>3, MethodPoints
  <2> QED
    BY <2>1, <2>2 DEF Points
<1> DEFINE r == At(p.ctx, p.depth, "open", TRUE)
<1>5. /\ q.ctx = p.ctx /\ q.depth = p.depth /\ q.phase = "open" /\ ~q.fresh
      /\ r \in Points /\ r.ctx = p.ctx /\ r.depth = p.depth /\ r.phase = "open"
  BY <1>4 DEF At, Points, Phases
<1>6. T \in Seq(Tasks) /\ Doable(T, q, gens, errors) /\ super' \in BOOLEAN
  BY <1>1, <1>2 DEF ParserInv, ScanOk
<1>7. 3 \in DOMAIN T /\ T[1].do = "primary" /\ T[2].do = "messages" /\ T[3].do = "assign"
  <2>1. task.do \in Assigning /\ ValueFollows(todo) /\ todo \in Seq(Tasks)
    BY <1>1, <1>2 DEF Assigning, Doable, ParserInv
  <2> QED
    BY <1>1, <2>1, ValueNext DEF task
<1>8. /\ gens # << >> /\ p.ctx = Len(gens) /\ GenOk(gen) /\ (~errors => Sound(gen))
      /\ Counts(p, gen, sym, errors)
  BY <1>2, <1>4, Inside
<1>9. sym.text \in Texts /\ errors \in BOOLEAN /\ super \in BOOLEAN
  BY SymbolFacts DEF ParserInv, ScanOk
<1> HIDE DEF T, r
<1>10. CASE UNCHANGED scanner /\ gens' = gens /\ todo' = Plan(<<>>) \o T
  <2>1. todo' \in Seq(Tasks) /\ Doable(todo', q, gens, errors)
    BY <1>6, <1>10, Planned0
  <2>2. task.do \notin Terminals \cup {"pattern", "Yield"} /\ Onwards(p, q)
    BY <1>3, <1>4, <1>5 DEF Onwards
  <2> QED
    BY <1>1, <1>2, <1>5, <1>6, <1>10, <2>1, <2>2, Calls
<1>11. CASE /\ sym.sym = "Identifier" /\ GetSym /\ SetGen(l)
            /\ todo' = Plan(<<"Assign", "moreAssignments">>) \o A
  <2>1. /\ l \in GenType /\ SameCode(gen, l) /\ gen.literals \subseteq l.literals
        /\ l.primitive = gen.primitive /\ l.empty = gen.empty
        /\ l.literals = gen.literals \cup {sym.text}
    BY <1>8, <1>9, DeclareOk
  <2>2. GenOk(l) /\ (Sound(gen) => Sound(l))
    BY <1>8, <2>1, SameCodeOk
  <2> HIDE DEF l
  <2>3. ScanStep /\ sym'.sym # "Yield" /\ nextSym' = NoToken /\ sym.sym # "Yield"
    BY <1>1, <1>9, <1>11, GetSymOk DEF ScanStep, ParserInv, Symbols
  <2>4. gens'[q.ctx] = l
    <3>1. GensOk
      BY DEF ParserInv
    <3> QED
      BY <1>1, <1>5, <1>8, <1>11, <2>2, <3>1, SetGenOk
  <2>5. (errors => errors') /\ (~errors' => Sound(l))
    BY <1>1, <1>8, <2>2
  <2>6. Doable(T, q, gens', errors')
    BY <1>2, <1>6, <1>8, <1>11, <2>1, <2>2, <2>5, Rest
  <2>7. sym.text \in gens'[q.ctx].literals
    BY <2>1, <2>4
  <2>8. /\ A \in Seq(Tasks) /\ Doable(A, q, gens', errors')
        /\ 3 \in DOMAIN A
        /\ A[1].do = "primary" /\ A[2].do = "messages" /\ A[3].do = "assign"
    <3> DEFINE name == sym.text
               hs == gens'
               wrong == errors'
    <3>1. Doable(T, q, hs, wrong) /\ name \in hs[q.ctx].literals /\ name \in Texts
      BY <1>9, <2>6, <2>7
    <3>2. A = Amend(T, name)
      BY DEF Amend
    <3> HIDE DEF name, hs, wrong, A
    <3>3. /\ A \in Seq(Tasks) /\ Doable(A, q, hs, wrong) /\ 3 \in DOMAIN A
          /\ A[1].do = "primary" /\ A[2].do = "messages" /\ A[3].do = "assign"
      <4>1. q \in Points /\ T \in Seq(Tasks)
        BY <1>2, <1>6
      <4> QED
        BY <4>1, <1>7, <3>1, <3>2, Amended
    <3> QED
      BY <3>3 DEF hs, wrong
  <2> HIDE DEF A
  <2>9. /\ "Assign" \in Texts /\ "Assign" \in Terminals /\ "Assign" \notin Assigning
        /\ "moreAssignments" \in Texts /\ "moreAssignments" \in Assigning
    BY DEF Texts, Terminals, Assigning
  <2> DEFINE B == <<Plain("moreAssignments")>> \o A
  <2>10. B \in Seq(Tasks) /\ Doable(B, r, gens', errors')
    <3>1. Doable(A, At(p.ctx, p.depth, "open", FALSE), gens', errors')
      BY <1>4, <2>8
    <3>2. Doable(B, At(p.ctx, p.depth, "open", TRUE), gens', errors') /\ B \in Seq(Tasks)
      BY <1>4, <2>8, <2>9, <3>1, AssignmentsFirst
    <3> QED
      BY <3>2 DEF r
  <2>11. todo' = <<Plain("Assign")>> \o B
    <3>1. <<"Assign", "moreAssignments">> = <<"Assign">> \o <<"moreAssignments">>
      BY Tuple2
    <3>2. <<"moreAssignments">> \in Seq(Texts)
      BY <2>9
    <3>3. Plan(<<"Assign">> \o <<"moreAssignments">>) \o A
            = <<Plain("Assign")>> \o (Plan(<<"moreAssignments">>) \o A)
      BY <2>8, <2>9, <3>2, PlanSplit
    <3>4. Plan(<<"moreAssignments">>) \o A = B
      BY <2>8, <2>9, Planned1
    <3> QED
      BY <1>11, <3>1, <3>3, <3>4
  <2> HIDE DEF B
  <2>12. Leads(Plain("Assign"), r, r, gens', errors')
    BY <2>9 DEF Leads, Plain, Task, At, r
  <2>13. Plain("Assign") \in Tasks /\ Plain("Assign").do = "Assign"
    BY <2>9, PlainIsTask
  <2>14. todo' \in Seq(Tasks) /\ Doable(todo', r, gens', errors')
    BY <1>5, <2>9, <2>10, <2>11, <2>12, <2>13, Before, Prefixed
  <2>15. Counts(r, l, sym', errors')
    <3>1. Counts(p, l, sym', errors')
      BY <1>1, <1>8, <1>9, <2>1, <2>3, SameCounts DEF ScanStep
    <3> QED
      BY <1>4, <1>5, <3>1 DEF Counts, Unfinished
  <2>16. Ahead(r, sym', nextSym', todo')
    BY <2>3 DEF Ahead
  <2> QED
    BY <1>5, <1>8, <1>11, <2>2, <2>3, <2>5, <2>14, <2>15, <2>16, Writes
<1> QED
  BY <1>1, <1>10, <1>11

\* A value, or a yield, which is counted as one.
LEMMA PrimaryVariableOk ==
  ASSUME ParserInv, primaryVariable, UNCHANGED source
  PROVE  ParserInv'
<1> DEFINE name == IF sym.text = "super" THEN "self" ELSE sym.text
           l == AddLiteralIfAbsent(gen, name)
<1>1. /\ todo # <<>> /\ task.do = "primary" /\ sym.sym = "Identifier" /\ errors' = errors
      /\ todo' = Plan(<<>>) \o Tail(todo)
      /\ \/ /\ SetGen(EmitYIELD(gen)) /\ sym' = [sym |-> "Yield", text |-> "yield"]
            /\ nextSym' = NoToken /\ (Chosen \/ read' = read)
         \/ /\ GetSym
            /\ SetGen(EmitPush(gen)) \/ SetGen(EmitPush(l))
  BY DEF primaryVariable, Call, Do, Expand, genPushVariable
<1>b. super' \in BOOLEAN
  BY DEF primaryVariable
<1>2. PICK p, q \in Points :
        /\ Linked(p) /\ p.ctx = Len(gens) /\ Leads(task, p, q, gens, errors)
        /\ Doable(todo, p, gens, errors) /\ Doable(Tail(todo), q, gens, errors)
        /\ q.ctx <= Len(gens)
        /\ task \in Tasks /\ Tail(todo) \in Seq(Tasks) /\ Len(gens) \in Nat
  BY <1>1, Found
<1>3. task.do \notin Terminals \cup ClassParts \cup {"Assemble", "pattern", "Yield"}
  BY <1>1 DEF Terminals, ClassParts
<1>4. /\ p.phase = "open" /\ q = At(p.ctx, p.depth + 1, "open", FALSE)
      /\ p.ctx \in Nat \ {0} /\ p.depth \in Nat
  <2>1. p.phase = "open" /\ q = At(p.ctx, p.depth + 1, "open", FALSE)
    BY <1>1, <1>2, <1>3, MethodPoints
  <2>2. p.ctx \in Nat \ {0}
    BY <1>1, <1>2, <1>3, MethodPoints
  <2> QED
    BY <2>1, <2>2 DEF Points
<1>5. /\ gens # << >> /\ p.ctx = Len(gens) /\ GenOk(gen) /\ ~gen.finished
      /\ gen.depth \in Int
      /\ ~errors => /\ Sound(gen) /\ gen.depth = p.depth
  <2>1. /\ gens # << >> /\ p.ctx = Len(gens) /\ GenOk(gen) /\ ~gen.finished
        /\ gen.depth \in Int
        /\ ~errors => /\ Sound(gen) /\ gen.depth = p.depth - Missing(sym)
    BY <1>2, <1>4, OpenFacts
  <2>2. Missing(sym) = 0
    BY <1>1 DEF Missing
  <2> QED
    BY <1>4, <2>1, <2>2
<1>6. sym.text \in Texts /\ errors \in BOOLEAN /\ ScanOk /\ source' = source
  BY SymbolFacts DEF ParserInv, ScanOk
<1>7. q.ctx = p.ctx /\ q.depth = p.depth + 1 /\ q.phase = "open" /\ ~q.fresh
  BY <1>4 DEF At
<1>8. CASE /\ SetGen(EmitYIELD(gen)) /\ sym' = [sym |-> "Yield", text |-> "yield"]
           /\ nextSym' = NoToken /\ (Chosen \/ read' = read)
  <2> DEFINE g == EmitYIELD(gen)
  <2>1. /\ GenOk(g) /\ g.depth = gen.depth /\ g.finished = gen.finished /\ g.yields
        /\ g.literals = gen.literals /\ g.primitive = gen.primitive /\ Sound(g)
    BY <1>5, YieldOk
  <2>2. SetGen(g)
    BY <1>8
  <2> HIDE DEF g
  <2>3. read' \in 1..source.length
    BY <1>6, <1>8, ChosenOk DEF ScanOk
  <2>4. ScanStep
    BY <1>1, <1>b, <1>6, <1>8, <2>3 DEF ScanStep, Symbols
  <2>5. Counts(q, g, sym', errors')
    <3>1. Missing(sym') = 1 /\ sym'.sym = "Yield"
      BY <1>8 DEF Missing
    <3>2. ~errors => q.depth = g.depth + 1
      BY <1>5, <1>7, <2>1
    <3>3. q.depth >= 1
      <4>1. p.depth + 1 >= 1
        BY <1>4
      <4> QED
        BY <1>7, <4>1
    <3> QED
      BY <1>1, <1>5, <1>7, <2>1, <3>1, <3>2, <3>3 DEF Counts, Unfinished
  <2> QED
    BY <1>1, <1>2, <1>5, <1>7, <2>1, <2>2, <2>4, <2>5, WritesLast
<1>9. CASE /\ GetSym
           /\ SetGen(EmitPush(gen)) \/ SetGen(EmitPush(l))
  <2>1. \E h : /\ SetGen(EmitPush(h)) /\ GenOk(h) /\ h.depth = gen.depth
               /\ h.finished = gen.finished /\ gen.literals \subseteq h.literals
               /\ ~errors => Sound(h)
    <3>1. CASE SetGen(EmitPush(gen))
      BY <1>5, <3>1
    <3>2. CASE SetGen(EmitPush(l))
      <4>1. name \in Texts
        <5>1. "self" \in Texts
          BY DEF Texts
        <5> QED
          BY <1>6, <5>1
      <4> HIDE DEF name
      <4>2. /\ l \in GenType /\ SameCode(gen, l) /\ gen.literals \subseteq l.literals
            /\ l.primitive = gen.primitive /\ l.empty = gen.empty
        BY <1>5, <4>1, DeclareOk
      <4>3. GenOk(l) /\ (Sound(gen) => Sound(l))
        BY <1>5, <4>2, SameCodeOk
      <4> HIDE DEF l
      <4> QED
        BY <1>5, <3>2, <4>2, <4>3 DEF SameCode
    <3> QED
      BY <1>9, <3>1, <3>2
  <2>2. PICK h : /\ SetGen(EmitPush(h)) /\ GenOk(h) /\ h.depth = gen.depth
                 /\ h.finished = gen.finished /\ gen.literals \subseteq h.literals
                 /\ ~errors => Sound(h)
    BY <2>1
  <2> DEFINE g == EmitPush(h)
  <2>3. /\ GenOk(g) /\ Alike(h, g) /\ g.depth = h.depth + 1 /\ g.finished = h.finished
        /\ Sound(h) /\ (h.yields \/ h.depth >= 0) => Sound(g)
    BY <2>2, PushOk
  <2>4. SetGen(g)
    BY <2>2
  <2> HIDE DEF g
  <2>5. ~errors => Sound(g) /\ q.depth = g.depth
    <3>1. ~errors => h.depth = p.depth /\ h.depth >= 0
      BY <1>4, <1>5, <2>2
    <3>2. ~errors => Sound(g)
      BY <2>2, <2>3, <3>1
    <3>3. ~errors => q.depth = g.depth
      BY <1>7, <2>3, <3>1
    <3> QED
      BY <3>2, <3>3
  <2>6. ScanStep /\ sym'.sym # "Yield"
    BY <1>1, <1>b, <1>6, <1>9, GetSymOk DEF ScanStep, Symbols
  <2>7. Counts(q, g, sym', errors')
    <3>1. Missing(sym') = 0 /\ g.depth \in Int
      BY <2>3, <2>6, GenFields DEF Missing
    <3>2. ~errors => q.depth = g.depth + Missing(sym')
      BY <2>5, <3>1
    <3> QED
      BY <1>1, <1>5, <1>7, <2>2, <2>3, <2>6, <3>2 DEF Counts, Unfinished
  <2>8. gen.literals \subseteq g.literals /\ (~errors' => Sound(g))
    BY <1>1, <2>2, <2>3, <2>5 DEF Alike
  <2> QED
    BY <1>1, <1>2, <1>5, <1>7, <2>3, <2>4, <2>6, <2>7, <2>8, WritesLast
<1> QED
  BY <1>1, <1>8, <1>9

\* A literal is pushed before its symbols have been read.
LEMMA LiteralOk ==
  ASSUME ParserInv, literal, UNCHANGED source
  PROVE  ParserInv'
<1> DEFINE T == Tail(todo)
           l == AddLiteralIfAbsent(gen, sym.text)
           g == EmitPush(l)
<1>1. /\ todo # <<>> /\ task.do = "primary" /\ errors' = errors /\ super' = FALSE
      /\ UNCHANGED scanner /\ SetGen(g)
      /\ \/ todo' = Plan(<<"Pound", "selector">>) \o T
         \/ todo' = Plan(<<"STString">>) \o T
         \/ todo' = Plan(<<"Minus", "Integer">>) \o T
         \/ todo' = Plan(<<"Integer">>) \o T
  BY DEF literal, Parse, Call, Do, Expand
<1>2. PICK p, q \in Points :
        /\ Linked(p) /\ p.ctx = Len(gens) /\ Leads(task, p, q, gens, errors)
        /\ Doable(todo, p, gens, errors) /\ Doable(Tail(todo), q, gens, errors)
        /\ q.ctx <= Len(gens)
        /\ task \in Tasks /\ Tail(todo) \in Seq(Tasks) /\ Len(gens) \in Nat
  BY <1>1, Found
<1>3. task.do \notin Terminals \cup ClassParts \cup {"Assemble", "pattern", "Yield"}
  BY <1>1 DEF Terminals, ClassParts
<1>4. /\ p.phase = "open" /\ q = At(p.ctx, p.depth + 1, "open", FALSE)
      /\ p.ctx \in Nat \ {0} /\ p.depth \in Nat
  <2>1. p.phase = "open" /\ q = At(p.ctx, p.depth + 1, "open", FALSE)
    BY <1>1, <1>2, <1>3, MethodPoints
  <2>2. p.ctx \in Nat \ {0}
    BY <1>1, <1>2, <1>3, MethodPoints
  <2> QED
    BY <2>1, <2>2 DEF Points
<1>5. /\ gens # << >> /\ p.ctx = Len(gens) /\ GenOk(gen) /\ ~gen.finished
      /\ gen.depth \in Int
      /\ ~errors => /\ Sound(gen) /\ gen.depth = p.depth - Missing(sym)
                    /\ gen.yields \/ gen.depth = p.depth
  BY <1>2, <1>4, OpenFacts
<1>6. sym.text \in Texts /\ errors \in BOOLEAN /\ ScanOk /\ source' = source
  BY SymbolFacts DEF ParserInv, ScanOk
<1>7. q.ctx = p.ctx /\ q.depth = p.depth + 1 /\ q.phase = "open" /\ ~q.fresh
  BY <1>4 DEF At
<1>8. /\ GenOk(l) /\ SameCode(gen, l) /\ gen.literals \subseteq l.literals
      /\ l.primitive = gen.primitive /\ (Sound(gen) => Sound(l))
  <2>1. /\ l \in GenType /\ SameCode(gen, l) /\ gen.literals \subseteq l.literals
        /\ l.primitive = gen.primitive /\ l.empty = gen.empty
    BY <1>5, <1>6, DeclareOk
  <2> QED
    BY <1>5, <2>1, SameCodeOk
<1> HIDE DEF l
<1>9. /\ GenOk(g) /\ Alike(l, g) /\ g.depth = l.depth + 1 /\ g.finished = l.finished
      /\ Sound(l) /\ (l.yields \/ l.depth >= 0) => Sound(g)
  BY <1>8, PushOk
<1> HIDE DEF g
<1>10. /\ g.depth = gen.depth + 1 /\ ~g.finished /\ gen.literals \subseteq g.literals
       /\ g.yields = gen.yields
       /\ ~errors => Sound(g)
  BY <1>4, <1>5, <1>8, <1>9 DEF SameCode, Alike
<1>11. ScanStep /\ sym' = sym
  BY <1>1, <1>6, ScanUnchanged DEF ScanStep
<1>12. Counts(q, g, sym', errors')
  <2>1. ASSUME ~errors
        PROVE  q.depth = g.depth + Missing(sym)
    <3> DEFINE m == Missing(sym)
    <3>1. m \in {0, 1}
      BY DEF Missing
    <3>2. gen.depth = p.depth - m
      BY <1>5, <2>1
    <3> HIDE DEF m
    <3> DEFINE d == p.depth
    <3>3. d \in Nat /\ q.depth = d + 1
      BY <1>4, <1>7
    <3> HIDE DEF d
    <3>4. q.depth = (d - m) + 1 + m
      BY <3>1, <3>3
    <3> QED
      BY <1>10, <3>2, <3>4 DEF m, d
  <2>2. ~errors /\ sym.sym = "Yield" => g.yields
    BY <1>2, <1>10 DEF Linked, Counts
  <2>3. q.depth >= 1
    <3>1. p.depth + 1 >= 1
      BY <1>4
    <3> QED
      BY <1>7, <3>1
  <2> QED
    BY <1>1, <1>7, <1>10, <1>11, <2>1, <2>2, <2>3 DEF Counts, Unfinished
<1> HIDE DEF T
<1>13. T \in Seq(Tasks) /\ Doable(T, q, gens', errors')
  <2>1. /\ (errors => errors') /\ (~errors' => Sound(g)) /\ q.ctx <= Len(gens)
        /\ T \in Seq(Tasks) /\ Doable(T, q, gens, errors)
    BY <1>1, <1>2, <1>10 DEF T
  <2> QED
    BY <1>1, <1>2, <1>5, <1>9, <1>10, <2>1, Rest
<1>14. \A s \in {"Pound", "STString", "Minus", "Integer", "selector"} :
         s \in Texts \ Assigning /\ Leads(Plain(s), q, q, gens', errors')
  <2>1. \A s \in {"Pound", "STString", "Minus", "Integer"} : s \in Terminals
    BY DEF Terminals
  <2>2. \A s \in {"Pound", "STString", "Minus", "Integer", "selector"} : s \in Texts \ Assigning
    BY <2>1, Zenon DEF Texts, Assigning
  <2>3. \A s \in {"Pound", "STString", "Minus", "Integer", "selector"} :
          Leads(Plain(s), q, q, gens', errors')
    BY <1>4, <2>1 DEF Leads, Plain, Task, At
  <2> QED
    BY <2>2, <2>3
<1>15. todo' \in Seq(Tasks) /\ Doable(todo', q, gens', errors')
  <2>1. CASE todo' = Plan(<<"Pound", "selector">>) \o T
    BY <1>2, <1>13, <1>14, <2>1, Do2
  <2>2. CASE todo' = Plan(<<"STString">>) \o T
    BY <1>2, <1>13, <1>14, <2>2, Do1
  <2>3. CASE todo' = Plan(<<"Minus", "Integer">>) \o T
    BY <1>2, <1>13, <1>14, <2>3, Do2
  <2>4. CASE todo' = Plan(<<"Integer">>) \o T
    BY <1>2, <1>13, <1>14, <2>4, Do1
  <2> QED
    BY <1>1, <2>1, <2>2, <2>3, <2>4 DEF T
<1>16. Ahead(q, sym', nextSym', todo')
  BY <1>7 DEF Ahead
<1>17. ~errors' => Sound(g)
  BY <1>1, <1>10
<1> QED
  BY <1>1, <1>2, <1>5, <1>7, <1>9, <1>11, <1>12, <1>15, <1>16, <1>17, Writes

-----------------------------------------------------------------------------
(* The actions that begin a context, and that leave it.                     *)

\* A block is a context of its own, inside of the one around it.
LEMMA NestedBlockOk ==
  ASSUME ParserInv, nestedBlock, UNCHANGED source
  PROVE  ParserInv'
<1> DEFINE T == Tail(todo)
           args == <<"$block self">>
           b == MethodGenerationContext(args)
           fs == <<"blockPattern", "blockContents", "finishBlock", "EndBlock", "Assemble">>
<1>1. /\ todo # <<>> /\ task.do = "primary" /\ errors' = errors /\ super' = super
      /\ UNCHANGED scanner /\ gens' = Append(gens, b) /\ sym.sym = "NewBlock"
      /\ todo' = Plan(<<"NewBlock", "blockPattern", "blockContents", "finishBlock",
                        "EndBlock", "Assemble">>) \o T
  BY DEF nestedBlock, Parse, Call, Do, Expand
<1>2. PICK p, q \in Points :
        /\ Linked(p) /\ p.ctx = Len(gens) /\ Leads(task, p, q, gens, errors)
        /\ Doable(todo, p, gens, errors) /\ Doable(Tail(todo), q, gens, errors)
        /\ q.ctx <= Len(gens)
        /\ task \in Tasks /\ Tail(todo) \in Seq(Tasks) /\ Len(gens) \in Nat
  BY <1>1, Found
<1>3. task.do \notin Terminals \cup ClassParts \cup {"Assemble", "pattern", "Yield"}
  BY <1>1 DEF Terminals, ClassParts
<1>4. /\ p.phase = "open" /\ q = At(p.ctx, p.depth + 1, "open", FALSE)
      /\ p.ctx \in Nat \ {0} /\ p.depth \in Nat
  <2>1. p.phase = "open" /\ q = At(p.ctx, p.depth + 1, "open", FALSE)
    BY <1>1, <1>2, <1>3, MethodPoints
  <2>2. p.ctx \in Nat \ {0}
    BY <1>1, <1>2, <1>3, MethodPoints
  <2> QED
    BY <2>1, <2>2 DEF Points
<1>5. /\ gens # << >> /\ p.ctx = Len(gens) /\ GenOk(gen) /\ ~gen.finished
      /\ ~errors => gen.depth = p.depth
  <2>1. /\ gens # << >> /\ p.ctx = Len(gens) /\ GenOk(gen) /\ ~gen.finished
        /\ gen.depth \in Int
        /\ ~errors => gen.depth = p.depth - Missing(sym)
    BY <1>2, <1>4, OpenFacts
  <2>2. Missing(sym) = 0
    BY <1>1 DEF Missing
  <2> QED
    BY <1>4, <2>1, <2>2
<1>6. /\ GenOk(b) /\ Sound(b) /\ ~b.finished /\ b.depth = 0 /\ ~b.yields /\ b \in GenType
  <2>1. args \in Seq(Texts)
    <3> DEFINE x == "$block self"
    <3>1. x \in Texts
      BY DEF Texts
    <3> HIDE DEF x
    <3>2. <<x>> \in Seq(Texts)
      BY <3>1
    <3> QED
      BY <3>2 DEF x
  <2> HIDE DEF args
  <2> QED
    BY <2>1, Starting DEF GenOk
<1> HIDE DEF b, T
<1> DEFINE c == Len(gens)
<1>7. /\ gens \in Seq(GenType) /\ c \in Nat \ {0} /\ gens' \in Seq(GenType)
      /\ Len(gens') = c + 1 /\ gens'[c + 1] = b /\ \A i \in 1..c : gens'[i] = gens[i]
      /\ gens[c] = gen /\ DOMAIN gens = 1..c /\ DOMAIN gens' = 1..(c + 1)
  <2>1. gens \in Seq(GenType) /\ c \in Nat \ {0}
    BY <1>2, <1>4, <1>5 DEF ParserInv, GensOk
  <2> QED
    BY <1>1, <1>6, <2>1 DEF gen
<1> HIDE DEF c
<1>8. GensOk' /\ gen' = b
  <2>1. \A i \in 1..(c + 1) : i = c + 1 \/ i \in 1..c
    BY <1>7
  <2>2. \A i \in 1..c : GenOk(gens[i]) /\ (~errors => Sound(gens[i]))
    BY <1>7 DEF ParserInv, GensOk
  <2>3. \A i \in 1..c : ~gens[i].finished
    <3>1. \A i \in 1..c : i = c \/ i \in 1..(c - 1)
      BY <1>7
    <3> QED
      BY <1>5, <1>7, <3>1, Zenon DEF ParserInv, GensOk, c
  <2>4. \A i \in 1..(c + 1) : GenOk(gens'[i]) /\ (~errors => Sound(gens'[i]))
    BY <1>6, <1>7, <2>1, <2>2
  <2>5. 1..(Len(gens') - 1) = 1..c
    BY <1>7
  <2>6. \A i \in 1..(Len(gens') - 1) : ~gens'[i].finished
    BY <1>7, <2>3, <2>5
  <2> QED
    BY <1>1, <1>7, <2>4, <2>6 DEF GensOk, gen
<1> DEFINE n0 == At(c + 1, 0, "open", TRUE)
           n1 == At(c + 1, 1, "ended", FALSE)
           n2 == At(c + 1, 1, "closed", FALSE)
           n3 == At(c + 1, 1, "left", FALSE)
<1>9. /\ n0 \in Points /\ n1 \in Points /\ n2 \in Points /\ n3 \in Points
      /\ n0.ctx = c + 1 /\ n0.depth = 0 /\ n0.phase = "open"
      /\ q.ctx = c /\ q.phase = "open" /\ ~q.fresh /\ q.depth = p.depth + 1
  BY <1>4, <1>5, <1>7 DEF At, Points, Phases, c
<1>10. /\ Leads(Plain("NewBlock"), n0, n0, gens', errors')
       /\ Leads(Plain("blockPattern"), n0, n0, gens', errors')
       /\ Leads(Plain("blockContents"), n0, n1, gens', errors')
       /\ Leads(Plain("finishBlock"), n1, n2, gens', errors')
       /\ Leads(Plain("EndBlock"), n2, n3, gens', errors')
  BY DEF Leads, Plain, Task, At, Terminals, Declarations
<1>11. Leads(Plain("Assemble"), n3, q, gens', errors')
  <2>1. n3.ctx = c + 1 /\ n3.phase = "left" /\ n3.ctx # 1 /\ n3.ctx - 1 = c
    BY <1>7 DEF At
  <2>2. gens'[c] = gen /\ q.depth >= 1 /\ (~errors => q.depth = gen.depth + 1)
    <3>1. gens'[c] = gen
      <4>1. c \in 1..c
        BY <1>7
      <4> QED
        BY <1>7, <4>1
    <3>2. p.depth + 1 >= 1
      BY <1>4
    <3>3. q.depth >= 1
      BY <1>9, <3>2
    <3>4. ~errors => q.depth = gen.depth + 1
      BY <1>5, <1>9
    <3> QED
      BY <3>1, <3>3, <3>4
  <2>3. Plain("Assemble").do = "Assemble"
    BY DEF Plain, Task
  <2> HIDE DEF n3
  <2> QED
    BY <1>1, <1>9, <2>1, <2>2, <2>3 DEF Leads
<1>12. T \in Seq(Tasks) /\ Doable(T, q, gens', errors')
  <2>1. /\ c \in Nat /\ q.ctx <= c /\ (errors => errors') /\ T \in Seq(Tasks)
        /\ Doable(T, q, gens, errors)
    BY <1>1, <1>2, <1>7, <1>9 DEF T, c
  <2>2. Kept(gens, gens', c)
    <3>1. \A i \in 1..(c - 1) : i \in 1..c
      BY <1>7
    <3> QED
      BY <1>7, <3>1 DEF Kept
  <2> QED
    BY <1>2, <2>1, <2>2, Framed
<1>13. /\ "NewBlock" \in Texts \ Assigning /\ "blockPattern" \in Texts \ Assigning
       /\ "blockContents" \in Texts \ Assigning /\ "finishBlock" \in Texts \ Assigning
       /\ "EndBlock" \in Texts \ Assigning /\ "Assemble" \in Texts \ Assigning
  BY DEF Texts, Terminals, Assigning
<1> HIDE DEF n0, n1, n2, n3
<1>14. todo' \in Seq(Tasks) /\ Doable(todo', n0, gens', errors')
  BY <1>1, <1>2, <1>9, <1>10, <1>11, <1>12, <1>13, Do6
<1>15. todo' # <<>> /\ Head(todo').do = "NewBlock"
  <2>1. fs \in Seq(Texts)
    BY <1>13
  <2>2. <<"NewBlock", "blockPattern", "blockContents", "finishBlock", "EndBlock", "Assemble">>
          = <<"NewBlock">> \o fs
    BY Tuple6
  <2>3. todo' = Plan(<<"NewBlock">> \o fs) \o T
    BY <1>1, <2>2
  <2> HIDE DEF fs
  <2> QED
    BY <1>12, <1>13, <2>1, <2>3, HeadOfPlan
<1>16. ScanStep /\ sym' = sym
  BY <1>1, ScanUnchanged DEF ScanStep, ParserInv, ScanOk
<1>17. Ahead(n0, sym', nextSym', todo')
  BY <1>1, <1>15, <1>16 DEF Ahead
<1>18. Counts(n0, gen', sym', errors')
  BY <1>1, <1>6, <1>8, <1>9, <1>16 DEF Counts, Unfinished, Missing
<1> QED
  BY <1>7, <1>8, <1>9, <1>14, <1>16, <1>17, <1>18, Goes

\* A method begins, or the methods of this side of the class have been read.
LEMMA MethodsOk ==
  ASSUME ParserInv, Methods, UNCHANGED source
  PROVE  ParserInv'
<1> DEFINE T == Tail(todo)
           args == <<"self">>
           b == MethodGenerationContext(args)
           fs == <<"Equal", "methodBody", "Assemble", "methods">>
<1>1. /\ todo # <<>> /\ task.do = "methods" /\ errors' = errors /\ super' = super
      /\ UNCHANGED scanner
      /\ \/ /\ sym.sym # "Yield" /\ gens' = <<b>>
            /\ todo' = Plan(<<"pattern", "Equal", "methodBody", "Assemble", "methods">>) \o T
         \/ gens' = gens /\ todo' = Plan(<<>>) \o T
  <2>1. "Yield" \notin {"Identifier", "Keyword"} \cup binaryOpSyms
    BY DEF binaryOpSyms, singleOpSyms
  <2> QED
    BY <2>1 DEF Methods, Parse, Call, Do, Expand
<1>2. PICK p, q \in Points :
        /\ Linked(p) /\ p.ctx = Len(gens) /\ Leads(task, p, q, gens, errors)
        /\ Doable(todo, p, gens, errors) /\ Doable(Tail(todo), q, gens, errors)
        /\ q.ctx <= Len(gens)
        /\ task \in Tasks /\ Tail(todo) \in Seq(Tasks) /\ Len(gens) \in Nat
  BY <1>1, Found
<1>3. task.do \in ClassParts /\ task.do \notin Terminals \cup {"pattern", "Yield"}
  BY <1>1 DEF Terminals, ClassParts
<1>4. p = Outside /\ q = Outside
  BY <1>2, <1>3, ClassPoints
<1>5. /\ Outside \in Points /\ Outside.ctx = 0 /\ Outside.depth = 0
      /\ Outside.phase = "class" /\ ~Outside.fresh
  BY OutsideFacts
<1>6. T \in Seq(Tasks) /\ Doable(T, Outside, gens, errors) /\ Linked(Outside)
  BY <1>2, <1>4
<1> HIDE DEF T
<1>7. CASE gens' = gens /\ todo' = Plan(<<>>) \o T
  <2>1. todo' \in Seq(Tasks) /\ Doable(todo', Outside, gens, errors)
    BY <1>6, <1>7, Planned0
  <2>2. Onwards(Outside, Outside) /\ super' \in BOOLEAN
    BY <1>1 DEF Onwards, ParserInv, ScanOk
  <2> QED
    BY <1>1, <1>3, <1>5, <1>6, <1>7, <2>1, <2>2, Calls
<1>8. CASE /\ sym.sym # "Yield" /\ gens' = <<b>>
           /\ todo' = Plan(<<"pattern", "Equal", "methodBody", "Assemble", "methods">>) \o T
  <2>1. /\ GenOk(b) /\ Sound(b) /\ ~b.finished /\ b.depth = 0 /\ ~b.yields /\ b \in GenType
    <3>1. args \in Seq(Texts)
      <4>1. "self" \in Texts
        BY DEF Texts
      <4> QED
        BY <4>1
    <3> HIDE DEF args
    <3> QED
      BY <3>1, Starting DEF GenOk
  <2> HIDE DEF b
  <2>2. /\ gens' \in Seq(GenType) /\ Len(gens') = 1 /\ gens'[1] = b /\ DOMAIN gens' = {1}
        /\ gen' = b
    BY <1>8, <2>1 DEF gen
  <2>3. GensOk'
    <3>1. 1..(Len(gens') - 1) = {}
      BY <2>2
    <3> QED
      BY <2>1, <2>2, <3>1 DEF GensOk
  <2> DEFINE m0 == At(1, 0, "read", TRUE)
             m1 == At(1, 0, "open", TRUE)
             m2 == At(1, 1, "left", FALSE)
  <2>4. /\ m0 \in Points /\ m1 \in Points /\ m2 \in Points
        /\ m0.ctx = 1 /\ m0.depth = 0 /\ m0.phase = "read"
    BY DEF At, Points, Phases
  <2>5. /\ Leads(Plain("pattern"), m0, m1, gens', errors')
        /\ Leads(Plain("Equal"), m1, m1, gens', errors')
        /\ Leads(Plain("methodBody"), m1, m2, gens', errors')
        /\ Leads(Plain("Assemble"), m2, Outside, gens', errors')
        /\ Leads(Plain("methods"), Outside, Outside, gens', errors')
    BY DEF Leads, Plain, Task, At, Terminals, ClassParts
  <2>6. Doable(T, Outside, gens', errors')
    <3>1. Kept(gens, gens', 0) /\ 0 \in Nat /\ Outside.ctx <= 0 /\ (errors => errors')
      BY <1>1, <1>5 DEF Kept
    <3> QED
      BY <1>5, <1>6, <3>1, Framed
  <2>7. /\ "pattern" \in Texts \ Assigning /\ "Equal" \in Texts \ Assigning
        /\ "methodBody" \in Texts \ Assigning /\ "Assemble" \in Texts \ Assigning
        /\ "methods" \in Texts \ Assigning
    BY DEF Texts, Terminals, Assigning
  <2> HIDE DEF m0, m1, m2
  <2>8. todo' \in Seq(Tasks) /\ Doable(todo', m0, gens', errors')
    BY <1>5, <1>6, <1>8, <2>4, <2>5, <2>6, <2>7, Do5
  <2>9. todo' # <<>> /\ Head(todo').do = "pattern"
    <3>1. fs \in Seq(Texts)
      BY <2>7
    <3>2. <<"pattern", "Equal", "methodBody", "Assemble", "methods">> = <<"pattern">> \o fs
      BY Tuple5
    <3>3. todo' = Plan(<<"pattern">> \o fs) \o T
      BY <1>8, <3>2
    <3> HIDE DEF fs
    <3> QED
      BY <1>6, <2>7, <3>1, <3>3, HeadOfPlan
  <2>10. ScanStep /\ sym' = sym
    BY <1>1, ScanUnchanged DEF ScanStep, ParserInv, ScanOk
  <2>11. Ahead(m0, sym', nextSym', todo')
    BY <2>9 DEF Ahead
  <2>12. Counts(m0, gen', sym', errors')
    BY <1>8, <2>1, <2>2, <2>4, <2>10 DEF Counts, Unfinished, Missing
  <2> QED
    BY <2>2, <2>3, <2>4, <2>8, <2>10, <2>11, <2>12, Goes
<1> QED
  BY <1>1, <1>7, <1>8

\* A method or a block is assembled, and the parser is back in what is around it.
LEMMA AssembleOk ==
  ASSUME ParserInv, Assemble, UNCHANGED source
  PROVE  ParserInv'
<1> DEFINE T == Tail(todo)
           n == Len(gens)
           o == gens[n - 1]
           h == EmitPush(o)
           G == SubSeq(gens, 1, n - 2)
<1>1. /\ todo # <<>> /\ task.do = "Assemble" /\ errors' = errors /\ super' = FALSE
      /\ UNCHANGED scanner /\ todo' = Plan(<<>>) \o T
      /\ gens' = IF n > 1 THEN Append(G, h) ELSE <<>>
  BY DEF Assemble, Parse, Call, Do, Expand, IsBlockMethod
<1>2. PICK p, q \in Points :
        /\ Linked(p) /\ p.ctx = Len(gens) /\ Leads(task, p, q, gens, errors)
        /\ Doable(todo, p, gens, errors) /\ Doable(Tail(todo), q, gens, errors)
        /\ q.ctx <= Len(gens)
        /\ task \in Tasks /\ Tail(todo) \in Seq(Tasks) /\ Len(gens) \in Nat
  BY <1>1, Found
<1>3. /\ p.ctx \in Nat \ {0} /\ p.phase = "left"
      /\ p.ctx = 1 => q = Outside
      /\ p.ctx # 1 => /\ q.ctx = p.ctx - 1 /\ q.phase = "open" /\ ~q.fresh /\ q.depth >= 1
                      /\ ~errors => q.depth = gens[p.ctx - 1].depth + 1
  <2>1. task.do = "Assemble" /\ Leads(task, p, q, gens, errors)
    BY <1>1, <1>2
  <2>2. p.ctx \in Nat \ {0} /\ p.phase = "left" /\ (p.ctx = 1 => q = Outside)
    BY <2>1, ClassPoints
  <2>3. p.ctx # 1 => /\ q.ctx = p.ctx - 1 /\ q.phase = "open" /\ ~q.fresh /\ q.depth >= 1
                     /\ ~errors => q.depth = gens[p.ctx - 1].depth + 1
    BY <2>1, ClassPoints
  <2> QED
    BY <2>2, <2>3
<1>4. /\ gens \in Seq(GenType) /\ n \in Nat \ {0} /\ p.ctx = n /\ Counts(p, gen, sym, errors)
      /\ ScanOk
  BY <1>2, <1>3, Inside DEF ParserInv, GensOk
<1>5. ~errors => sym.sym # "Yield"
  BY <1>3, <1>4 DEF Counts
<1>6. /\ T \in Seq(Tasks) /\ todo' = T /\ Doable(T, q, gens, errors)
  BY <1>1, <1>2, Planned0
<1>7. ScanStep /\ sym' = sym /\ (errors => errors')
  BY <1>1, <1>4, ScanUnchanged DEF ScanStep, ScanOk
<1> HIDE DEF T, n, o, h, G
<1>8. CASE n = 1
  <2>1. gens' = <<>> /\ Len(gens') = 0 /\ q = Outside
    BY <1>1, <1>3, <1>4, <1>8
  <2>2. q.ctx = 0 /\ q.phase = "class" /\ ~q.fresh /\ q.ctx <= 0
    BY <2>1, OutsideFacts
  <2>3. GensOk'
    <3>1. DOMAIN gens' = {} /\ 1..(Len(gens') - 1) = {} /\ gens' \in Seq(GenType)
      BY <2>1
    <3> QED
      BY <3>1 DEF GensOk
  <2>4. Doable(T, q, gens', errors')
    <3>1. Kept(gens, gens', 0) /\ 0 \in Nat
      BY DEF Kept
    <3> QED
      BY <1>2, <1>6, <1>7, <2>2, <3>1, Framed
  <2>5. Ahead(q, sym', nextSym', todo')
    BY <2>2 DEF Ahead
  <2>6. Counts(q, gen', sym', errors')
    BY <1>1, <1>5, <1>7, <2>2 DEF Counts, Unfinished
  <2> QED
    BY <1>2, <1>6, <1>7, <2>1, <2>2, <2>3, <2>4, <2>5, <2>6, Goes
<1>9. CASE n # 1
  <2> DEFINE m == n - 1
  <2>1. /\ m \in Nat \ {0} /\ n > 1 /\ m \in 1..n /\ m \in 1..(n - 1) /\ m <= n
        /\ n = m + 1 /\ n - 2 = m - 1
    BY <1>4, <1>9
  <2>2. /\ q.ctx = m /\ q.phase = "open" /\ ~q.fresh /\ q.depth >= 1
        /\ ~errors => q.depth = o.depth + 1
    BY <1>3, <1>4, <1>9 DEF o
  <2>3. GenOk(o) /\ ~o.finished /\ (~errors => Sound(o)) /\ o = gens[m]
    BY <1>4, <2>1 DEF ParserInv, GensOk, o, n
  <2>4. /\ GenOk(h) /\ Alike(o, h) /\ h.depth = o.depth + 1 /\ h.finished = o.finished
        /\ Sound(o) /\ (o.yields \/ o.depth >= 0) => Sound(h)
    BY <2>3, PushOk DEF h
  <2>5. o.depth \in Int /\ q.depth \in Nat /\ h \in GenType
    BY <2>3, <2>4, GenFields DEF Points, GenOk
  <2>6. ~errors => Sound(h)
    BY <2>2, <2>3, <2>4, <2>5
  <2> HIDE DEF m
  <2>7. /\ G \in Seq(GenType) /\ Len(G) = m - 1 /\ \A i \in 1..(m - 1) : G[i] = gens[i]
    <3>1. /\ m - 1 \in Nat /\ m - 1 <= Len(gens) /\ G = SubSeq(gens, 1, m - 1)
      BY <1>4, <2>1 DEF G, n
    <3>2. \A i \in 1..(m - 1) : gens[i] \in GenType
      BY <1>4, <2>1 DEF n
    <3>3. G = [i \in 1..(m - 1) |-> gens[i]]
      BY <3>1
    <3> QED
      BY <3>1, <3>2, <3>3
  <2>8. /\ gens' \in Seq(GenType) /\ Len(gens') = m /\ gens'[m] = h /\ DOMAIN gens' = 1..m
        /\ \A i \in 1..(m - 1) : gens'[i] = gens[i]
    <3>1. gens' = Append(G, h)
      BY <1>1, <2>1
    <3> QED
      BY <2>1, <2>5, <2>7, <3>1
  <2>9. gen' = h
    BY <2>8 DEF gen
  <2>10. \A i \in 1..m : i = m \/ i \in 1..(m - 1)
    BY <2>1
  <2>11. \A i \in 1..(m - 1) : i \in DOMAIN gens /\ i \in 1..(Len(gens) - 1)
    BY <1>4, <2>1 DEF n
  <2>12. GensOk'
    <3>1. \A i \in DOMAIN gens' : GenOk(gens'[i]) /\ (~errors' => Sound(gens'[i]))
      BY <1>1, <2>4, <2>6, <2>8, <2>10, <2>11 DEF ParserInv, GensOk
    <3>2. \A i \in 1..(Len(gens') - 1) : ~gens'[i].finished
      BY <2>8, <2>11 DEF ParserInv, GensOk
    <3> QED
      BY <2>8, <3>1, <3>2 DEF GensOk
  <2>13. Doable(T, q, gens', errors')
    <3>1. Kept(gens, gens', m)
      <4>1. o.literals \subseteq h.literals
        BY <2>4 DEF Alike
      <4> QED
        BY <2>3, <2>8, <2>10, <4>1 DEF Kept
    <3>2. q.ctx <= m /\ m \in Nat
      BY <2>1, <2>2
    <3> QED
      BY <1>2, <1>6, <1>7, <3>1, <3>2, Framed
  <2>14. Ahead(q, sym', nextSym', todo')
    BY <2>2 DEF Ahead
  <2>15. Counts(q, gen', sym', errors')
    <3>1. ~errors => q.depth = h.depth
      BY <2>2, <2>4
    <3>2. ~errors => q.depth = h.depth + Missing(sym)
      BY <1>5, <2>5, <3>1 DEF Missing
    <3> QED
      BY <1>1, <1>5, <1>7, <2>2, <2>3, <2>4, <2>9, <3>2 DEF Counts, Unfinished
  <2> QED
    BY <1>2, <1>6, <1>7, <2>2, <2>8, <2>12, <2>13, <2>14, <2>15, Goes
<1> QED
  BY <1>8, <1>9

-----------------------------------------------------------------------------
(* From the beginning of a source file on.                                  *)

\* Nothing is left to do at the end of a class.
LEMMA NothingLeft ==
  ASSUME NEW gs, NEW wrong
  PROVE  Doable(<<>>, Outside, gs, wrong)
<1> DEFINE T == <<>>
           L == [i \in 1..1 |-> Outside]
<1>1. Len(T) = 0 /\ DOMAIN T = {} /\ Outside \in Points /\ Outside.ctx = 0
  BY OutsideFacts
<1>2. Len(T) + 1 = 1 /\ 1..Len(T) = {} /\ L[1] = Outside
  BY <1>1
<1> HIDE DEF T
<1>3. L \in [1..(Len(T) + 1) -> Points]
  BY <1>1, <1>2
<1>4. \A i, j \in 1..(Len(T) + 1) : L[i].ctx = 0
  BY <1>1, <1>2
<1>5. \A i, j \in 1..(Len(T) + 1) : i <= j => L[j].ctx <= L[i].ctx
  BY <1>4
<1> HIDE DEF L
<1>6. Path(T, Outside, L, gs, wrong)
  BY <1>2, <1>3, <1>5 DEF Path
<1>7. ValueFollows(T)
  BY <1>1 DEF ValueFollows
<1> QED
  BY <1>6, <1>7 DEF Doable, T

\* What follows the methods of the first side, and what a class consists of.
LEMMA ClassDoable ==
  ASSUME NEW gs, NEW wrong
  PROVE  /\ Classdef \in Seq(Tasks) /\ Doable(Classdef, Outside, gs, wrong)
         /\ SubSeq(Classdef, 6, 8) \in Seq(Tasks)
         /\ Doable(SubSeq(Classdef, 6, 8), Outside, gs, wrong)
<1> DEFINE E == <<>>
           fs3 == <<"methods", "classSide", "EndTerm">>
           fs6 == <<"superclass", "NewTerm", "fields", "methods", "classSide", "EndTerm">>
           fs7 == <<"Equal", "superclass", "NewTerm", "fields", "methods", "classSide",
                    "EndTerm">>
           fs8 == <<"Identifier", "Equal", "superclass", "NewTerm", "fields", "methods",
                    "classSide", "EndTerm">>
<1>1. Outside \in Points /\ E \in Seq(Tasks) /\ Doable(E, Outside, gs, wrong)
  BY OutsideFacts, NothingLeft
<1>2. /\ Leads(Plain("Identifier"), Outside, Outside, gs, wrong)
      /\ Leads(Plain("Equal"), Outside, Outside, gs, wrong)
      /\ Leads(Plain("superclass"), Outside, Outside, gs, wrong)
      /\ Leads(Plain("NewTerm"), Outside, Outside, gs, wrong)
      /\ Leads(Plain("fields"), Outside, Outside, gs, wrong)
      /\ Leads(Plain("methods"), Outside, Outside, gs, wrong)
      /\ Leads(Plain("classSide"), Outside, Outside, gs, wrong)
      /\ Leads(Plain("EndTerm"), Outside, Outside, gs, wrong)
  <2>1. \A do : Plain(do).do = do
    BY DEF Plain, Task
  <2>2. Outside.phase = "class" /\ Outside = At(Outside.ctx, Outside.depth, Outside.phase, Outside.fresh)
    BY DEF Outside, At
  <2>3. \A do \in Terminals \cup ClassParts : Leads(Plain(do), Outside, Outside, gs, wrong)
    BY <2>1, <2>2 DEF Leads
  <2>4. QED
    BY <2>3 DEF Terminals, ClassParts
<1>3. /\ "Identifier" \in Texts \ Assigning /\ "Equal" \in Texts \ Assigning
      /\ "superclass" \in Texts \ Assigning /\ "NewTerm" \in Texts \ Assigning
      /\ "fields" \in Texts \ Assigning /\ "methods" \in Texts \ Assigning
      /\ "classSide" \in Texts \ Assigning /\ "EndTerm" \in Texts \ Assigning
  BY DEF Texts, Terminals, Assigning
<1>4. Doable(Plan(fs3) \o E, Outside, gs, wrong) /\ Plan(fs3) \o E \in Seq(Tasks)
  BY <1>1, <1>2, <1>3, Do3
<1>5. Doable(Plan(fs6) \o E, Outside, gs, wrong) /\ Plan(fs6) \o E \in Seq(Tasks)
  BY <1>1, <1>2, <1>3, Do6
<1>6. fs3 \in Seq(Texts) /\ fs6 \in Seq(Texts) /\ fs7 \in Seq(Texts) /\ fs8 \in Seq(Texts)
  <2>1. fs3 \in Seq(Texts)
    BY <1>3
  <2>2. fs6 \in Seq(Texts)
    BY <1>3
  <2>3. fs7 \in Seq(Texts)
    BY <1>3
  <2>4. fs8 \in Seq(Texts)
    BY <1>3
  <2> QED
    BY <2>1, <2>2, <2>3, <2>4
<1>7. fs7 = <<"Equal">> \o fs6 /\ fs8 = <<"Identifier">> \o fs7
  OBVIOUS
<1>8. Len(fs8) = 8 /\ fs8[6] = fs3[1] /\ fs8[7] = fs3[2] /\ fs8[8] = fs3[3] /\ Len(fs3) = 3
  OBVIOUS
<1>9. Classdef = Plan(fs8)
  BY DEF Classdef
<1> HIDE DEF fs3, fs6, fs7, fs8, E
<1>10. Doable(Plan(fs7) \o E, Outside, gs, wrong)
  BY <1>1, <1>2, <1>3, <1>5, <1>6, <1>7, DoFirst
<1>11. Doable(Plan(fs8) \o E, Outside, gs, wrong)
  BY <1>1, <1>2, <1>3, <1>6, <1>7, <1>10, DoFirst
<1>12. ASSUME NEW fs \in Seq(Texts)
       PROVE  Plan(fs) \in Seq(Tasks) /\ Plan(fs) \o E = Plan(fs)
  <2>1. Plan(fs) \in Seq(Tasks)
    BY PlanIsSeq
  <2> QED
    BY <2>1 DEF E
<1>13. SubSeq(Classdef, 6, 8) = Plan(fs3)
  <2> DEFINE A == Plan(fs8)
             B == Plan(fs3)
  <2>1. /\ A \in Seq(Tasks) /\ Len(A) = 8 /\ \A i \in 1..8 : A[i] = Plain(fs8[i])
    BY <1>6, <1>8, PlanIsSeq
  <2>2. /\ B \in Seq(Tasks) /\ Len(B) = 3 /\ \A i \in 1..3 : B[i] = Plain(fs3[i])
    BY <1>6, <1>8, PlanIsSeq
  <2> HIDE DEF A, B
  <2>3. \A i \in 1..3 : B[i] = A[i + 5]
    <3>1. B[1] = A[6] /\ B[2] = A[7] /\ B[3] = A[8]
      BY <1>8, <2>1, <2>2
    <3> QED
      BY <3>1
  <2>4. SubSeq(A, 6, 8) = [i \in 1..3 |-> A[i + 5]]
    BY <2>1
  <2>5. B = [i \in 1..3 |-> B[i]]
    BY <2>2
  <2>6. SubSeq(A, 6, 8) = B
    BY <2>3, <2>4, <2>5
  <2> QED
    BY <1>9, <2>6 DEF A, B
<1> QED
  BY <1>4, <1>6, <1>9, <1>11, <1>12, <1>13

LEMMA ParserInvInit == Init => ParserInv
<1> SUFFICES ASSUME Init PROVE ParserInv
  OBVIOUS
<1> DEFINE args == <<"self">> \o source.arguments
           b == MethodGenerationContext(args)
           R == SubSeq(Classdef, 6, 8)
<1>1. /\ source \in Sources /\ sym \in source.tokens /\ nextSym = NoToken /\ read = 1
      /\ errors = FALSE /\ super = FALSE
      /\ \/ todo = Classdef /\ gens = <<>>
         \/ todo = Plan(<<"methodBody", "Assemble">>) \o R /\ gens = <<b>>
  BY DEF Init
<1>2. /\ source.tokens \subseteq Words /\ source.length \in Nat \ {0}
      /\ source.arguments \in Seq(Texts)
  <2>1. /\ source.tokens \subseteq Tokens /\ source.length \in Nat \ {0}
        /\ source.arguments \in Seq(STRING)
    BY <1>1, CompilerAssumption
  <2>2. STRING \subseteq Texts
    BY DEF Texts
  <2>3. Tokens \subseteq Words
    BY <2>2 DEF Tokens, Words
  <2> QED
    BY <2>1, <2>2, <2>3, LargerSeq
<1>3. ScanOk
  <2>1. 1 \in 1..source.length
    BY <1>2
  <2>2. sym \in Words
    BY <1>1, <1>2
  <2> QED
    BY <1>1, <2>1, <2>2 DEF ScanOk, Symbols
<1>4. sym.sym # "Yield"
  BY <1>1, <1>2 DEF Words, Terminals
<1>5. /\ R \in Seq(Tasks) /\ Doable(R, Outside, gens, errors)
      /\ Classdef \in Seq(Tasks) /\ Doable(Classdef, Outside, gens, errors)
  BY ClassDoable
<1> HIDE DEF R
<1>6. CASE todo = Classdef /\ gens = <<>>
  <2>1. GensOk
    <3>1. gens \in Seq(GenType) /\ DOMAIN gens = {} /\ 1..(Len(gens) - 1) = {}
      BY <1>6
    <3> QED
      BY <3>1 DEF GensOk
  <2>2. /\ Outside \in Points /\ Outside.ctx = Len(gens) /\ ~Outside.fresh
        /\ Outside.phase = "class"
    BY <1>6, OutsideFacts
  <2>3. Linked(Outside)
    BY <1>4, <2>2 DEF Linked, Ahead, Counts, Unfinished
  <2> QED
    BY <1>3, <1>5, <1>6, <2>1, <2>2, <2>3 DEF ParserInv
<1>7. CASE todo = Plan(<<"methodBody", "Assemble">>) \o R /\ gens = <<b>>
  <2>1. GenOk(b) /\ Sound(b) /\ ~b.finished /\ b.depth = 0 /\ ~b.yields /\ b \in GenType
    <3> DEFINE x == "self"
    <3>1. x \in Texts
      BY DEF Texts
    <3> HIDE DEF x
    <3>2. <<x>> \in Seq(Texts)
      BY <3>1
    <3>3. <<x>> \o source.arguments \in Seq(Texts)
      BY <1>2, <3>2
    <3>4. args \in Seq(Texts)
      BY <3>3 DEF x
    <3> HIDE DEF args
    <3> QED
      BY <3>4, Starting DEF GenOk
  <2> HIDE DEF b
  <2>2. /\ gens \in Seq(GenType) /\ Len(gens) = 1 /\ gens[1] = b /\ DOMAIN gens = {1}
        /\ gen = b
    BY <1>7, <2>1 DEF gen
  <2>3. GensOk
    <3>1. 1..(Len(gens) - 1) = {}
      BY <2>2
    <3> QED
      BY <2>1, <2>2, <3>1 DEF GensOk
  <2> DEFINE m1 == At(1, 0, "open", TRUE)
             m2 == At(1, 1, "left", FALSE)
  <2>4. /\ m1 \in Points /\ m2 \in Points /\ m1.ctx = 1 /\ m1.depth = 0 /\ m1.phase = "open"
        /\ Outside \in Points
    BY OutsideFacts DEF At, Points, Phases
  <2>5. /\ Leads(Plain("methodBody"), m1, m2, gens, errors)
        /\ Leads(Plain("Assemble"), m2, Outside, gens, errors)
    BY DEF Leads, Plain, Task, At
  <2>6. "methodBody" \in Texts \ Assigning /\ "Assemble" \in Texts \ Assigning
    BY DEF Texts, Assigning
  <2> HIDE DEF m1, m2
  <2>7. todo \in Seq(Tasks) /\ Doable(todo, m1, gens, errors)
    BY <1>5, <1>7, <2>4, <2>5, <2>6, Do2
  <2>8. Linked(m1)
    BY <1>1, <1>4, <2>1, <2>2, <2>4 DEF Linked, Ahead, Counts, Unfinished, Missing
  <2> QED
    BY <1>3, <2>3, <2>4, <2>7, <2>8 DEF ParserInv
<1> QED
  BY <1>1, <1>6, <1>7

\* Every function of the parser keeps the invariant.
LEMMA ParserInvNext == ParserInv /\ [Next]_vars => ParserInv'
<1> SUFFICES ASSUME ParserInv, [Next]_vars PROVE ParserInv'
  OBVIOUS
<1>1. CASE UNCHANGED vars
  <2> SUFFICES UNCHANGED <<source, sym, nextSym, read, errors, todo, gens, super>>
    BY DEF ParserInv, ScanOk, GensOk, Linked, gen
  <2> QED
    BY <1>1 DEF vars, scanner
<1>2. ASSUME UNCHANGED source, expect
      PROVE  ParserInv'
  BY <1>2, ExpectOk
<1>3. ASSUME UNCHANGED source,
             superclass \/ Fields \/ fieldNames \/ Methods \/ Assemble \/ classSide
      PROVE  ParserInv'
  BY <1>3, ClassPartsOk, MethodsOk, AssembleOk
<1>4. ASSUME UNCHANGED source,
             \/ pattern \/ keywordPattern \/ argument \/ methodBody \/ finishMethod
             \/ blockContents \/ locals
      PROVE  ParserInv'
  BY <1>4, PatternOk, DeclarationsOk, ArgumentOk, MethodBodyOk, FinishOk, BlockContentsOk,
     LocalsOk
<1>5. ASSUME UNCHANGED source, blockBody \/ endStatement \/ afterYield \/ result
      PROVE  ParserInv'
  BY <1>5, BlockBodyOk, EndStatementOk, AfterYieldOk, ResultOk
<1>6. ASSUME UNCHANGED source, expression \/ assignments \/ moreAssignments \/ assign
      PROVE  ParserInv'
  BY <1>6, ExpressionOk, AssignmentsOk, MoreAssignmentsOk, AssignOk
<1>7. ASSUME UNCHANGED source,
             \/ primaryVariable \/ nestedTerm \/ notSuper \/ nestedBlock \/ blockPattern
             \/ blockArguments \/ finishBlock \/ literal \/ selector
      PROVE  ParserInv'
  BY <1>7, PrimaryVariableOk, NestedTermOk, NeutralsOk, NestedBlockOk, DeclarationsOk,
     FinishOk, LiteralOk, SelectorOk
<1>8. ASSUME UNCHANGED source,
             \/ messages \/ unaryMessages \/ binaryMessages \/ keywordLast \/ unaryMessage
             \/ binaryMessage \/ operandMessages \/ keywordMessage \/ moreKeywords
             \/ formula \/ send
      PROVE  ParserInv'
  BY <1>8, NeutralsOk, UnaryMessageOk, BinaryMessageOk, KeywordsOk, SendsOk
<1>9. CASE Next
  <2>1. UNCHANGED source /\ (expect \/ Function)
    BY <1>9 DEF Next
  <2> QED
    BY <1>2, <1>3, <1>4, <1>5, <1>6, <1>7, <1>8, <2>1 DEF Function
<1> QED
  BY <1>1, <1>9

\* Whatever the source file contains, the parser is at a point from which the
\* functions it has still to call or to return to find what they need: contexts,
\* operands, symbols, and the literals for what they write (Parser.cpp).
THEOREM ParserIsSound == Spec => []ParserInv
BY ParserInvInit, ParserInvNext, PTL DEF Spec

\* The parser looks ahead only from where the lexer has not.
LEMMA SeesNoToken == ParserInv => PeeksOnce
<1> SUFFICES ASSUME ParserInv, Call("expression") \/ Call("moreAssignments")
             PROVE  nextSym = NoToken
  BY DEF PeeksOnce
<1>1. todo # <<>> /\ task.do \in {"expression", "moreAssignments"}
  BY DEF Call
<1>2. PICK p, q \in Points : Linked(p) /\ Leads(task, p, q, gens, errors)
  BY <1>1, Found
<1>3. p.fresh
  BY <1>1, <1>2 DEF Leads, Terminals, ClassParts, Declarations, Neutral
<1>4. sym.sym \in Terminals \cup {"Yield"}
  BY SymbolFacts DEF ParserInv
<1>5. task.do \notin {"pattern", sym.sym}
  BY <1>1, <1>4 DEF Terminals
<1> QED
  BY <1>2, <1>3, <1>5 DEF Linked, Ahead, task

\* Outside of methods no task is left that needs one.
LEMMA NoMethodNeeded ==
  ASSUME ParserInv, gens = <<>>, NEW i \in DOMAIN todo
  PROVE  todo[i].do \in Terminals \cup ClassParts
<1>1. PICK p \in Points : Linked(p) /\ Doable(todo, p, gens, errors)
  BY DEF ParserInv
<1>2. PICK L : Path(todo, p, L, gens, errors)
  BY <1>1 DEF Doable
<1>3. todo \in Seq(Tasks) /\ Len(todo) \in Nat /\ i \in 1..Len(todo)
  BY DEF ParserInv
<1>4. p.ctx = 0
  BY <1>1 DEF Linked
<1>5. 1 \in 1..(Len(todo) + 1) /\ i \in 1..(Len(todo) + 1) /\ 1 <= i
  BY <1>3
<1>6. L[i] \in Points /\ L[1] = p /\ L[i].ctx <= L[1].ctx
  BY <1>2, <1>5 DEF Path
<1>7. L[i].ctx = 0 /\ L[i].phase = "class"
  BY <1>4, <1>6 DEF Points
<1>8. Leads(todo[i], L[i], L[i + 1], gens, errors)
  BY <1>2, <1>3 DEF Path
<1> DEFINE t == todo[i]
           a == L[i]
           b == L[i + 1]
<1>9. Leads(t, a, b, gens, errors) /\ a.phase = "class"
  BY <1>7, <1>8
<1> HIDE DEF t, a, b
<1>10. t.do \in Terminals \cup ClassParts
  BY <1>9 DEF Leads, At
<1> QED
  BY <1>10 DEF t

\* The parts of OperandsBalanced.
LEMMA TypesAreOk == ParserInv => TypeOK
<1> SUFFICES ASSUME ParserInv PROVE TypeOK
  OBVIOUS
<1>1. /\ sym.sym \in Terminals \cup {"Yield"} /\ nextSym.sym \in Terminals \cup {""}
      /\ read \in 1..source.length /\ errors \in BOOLEAN /\ super \in BOOLEAN
  BY SymbolFacts DEF ParserInv, ScanOk
<1>2. ASSUME NEW g \in Contexts
      PROVE  /\ g.max \in 0..(DepthLimit - 1) /\ g.counted \in 0..(DepthLimit - 1)
             /\ g.depth \in Int /\ g.finished \in BOOLEAN
             /\ g.operand \in BOOLEAN /\ g.cut \in BOOLEAN
  <2>1. GenOk(g)
    BY <1>2 DEF Contexts, ParserInv, GensOk
  <2>2. g.max \in 0..(DepthLimit - 1) /\ g.counted = g.depth % DepthLimit
    BY <2>1 DEF GenOk, CountOk
  <2>3. /\ g.depth \in Int /\ g.finished \in BOOLEAN
        /\ g.operand \in BOOLEAN /\ g.cut \in BOOLEAN
    BY <2>1, GenFields
  <2>4. g.depth % DepthLimit \in 0..(DepthLimit - 1)
    BY <2>3, LimitFacts
  <2> QED
    BY <2>2, <2>3, <2>4
<1>3. ASSUME gens = <<>>
      PROVE  \A i \in DOMAIN todo : todo[i].do \in Terminals \cup
               {"superclass", "fields", "fieldNames", "methods", "classSide"}
  BY <1>3, NoMethodNeeded DEF ClassParts
<1> QED
  BY <1>1, <1>2, <1>3 DEF TypeOK

LEMMA StatementsAreBalanced == ParserInv => StatementsBalanced
<1> SUFFICES ASSUME ParserInv, ~errors, Call("blockBody") \/ Call("nextStatement")
             PROVE  gen.depth = 0
  BY DEF StatementsBalanced
<1>1. todo # <<>> /\ task.do \in {"blockBody", "nextStatement"}
  BY DEF Call
<1>2. PICK p, q \in Points : Linked(p) /\ Leads(task, p, q, gens, errors)
  BY <1>1, Found
<1>3. task.do \notin Terminals \cup ClassParts \cup {"Assemble"}
  BY <1>1 DEF Terminals, ClassParts
<1>4. p.depth = 0 /\ p.phase \in {"open", "next"} /\ p.ctx \in Nat \ {0}
  <2>1. \/ p = At(p.ctx, 0, "open", TRUE)
        \/ p = At(p.ctx, 0, "next", TRUE)
    BY <1>1, <1>2, <1>3, MethodPoints
  <2>2. p.ctx \in Nat \ {0}
    BY <1>1, <1>2, <1>3, MethodPoints
  <2> QED
    BY <2>1, <2>2 DEF At
<1>5. Counts(p, gen, sym, errors)
  BY <1>2 DEF Linked
<1>6. sym.sym # "Yield"
  BY <1>4, <1>5 DEF Counts
<1>7. gen.depth \in Int /\ gen.depth = p.depth - Missing(sym)
  BY <1>2, <1>4, OpenFacts
<1>8. Missing(sym) = 0
  BY <1>6 DEF Missing
<1> DEFINE d == gen.depth
           m == Missing(sym)
<1>9. d \in Int /\ d = p.depth - m /\ p.depth = 0 /\ m = 0
  BY <1>4, <1>7, <1>8
<1> HIDE DEF d, m
<1>10. d = 0
  BY <1>9
<1> QED
  BY <1>10 DEF d

LEMMA AssembledIsRight == ParserInv => ReturnsOneValue /\ StackSuffices
<1> SUFFICES ASSUME ParserInv, ~errors, Call("Assemble")
             PROVE  /\ ~gen.primitive /\ ~gen.yields /\ ~gen.empty
                         => gen.returned = {1} /\ ~gen.short /\ ~gen.cut
                    /\ gen.high < DepthLimit => gen.max >= gen.high
  BY DEF ReturnsOneValue, StackSuffices
<1>1. todo # <<>> /\ task.do = "Assemble"
  BY DEF Call
<1>2. PICK p, q \in Points : Linked(p) /\ Leads(task, p, q, gens, errors)
  BY <1>1, Found
<1>3. p.ctx \in Nat \ {0} /\ p.phase = "left"
  BY <1>1, <1>2, ClassPoints
<1>4. GenOk(gen) /\ Sound(gen) /\ Counts(p, gen, sym, errors)
  BY <1>2, <1>3, Inside
<1>5. ~gen.primitive /\ ~gen.cut => gen.returned # {}
  BY <1>3, <1>4 DEF Counts, GenOk
<1>6. gen.returned \subseteq {1} /\ gen.returned # {} => gen.returned = {1}
  OBVIOUS
<1>7. ~gen.primitive /\ ~gen.yields /\ ~gen.empty => gen.returned = {1} /\ ~gen.short /\ ~gen.cut
  BY <1>4, <1>5, <1>6 DEF Sound
<1>8. gen.high < DepthLimit => gen.max >= gen.high
  BY <1>4 DEF GenOk, CountOk
<1> QED
  BY <1>7, <1>8

-----------------------------------------------------------------------------
(* Names.                                                                   *)

\* The least of some numbers.
LEMMA LeastOk ==
  ASSUME NEW S, S \subseteq Nat, S # {}
  PROVE  Least(S) \in S /\ \A j \in S : Least(S) <= j
<1>1. PICK i \in S : \A j \in S : ~ (<<j, i>> \in OpToRel(<, Nat))
  BY NatLessThanWellFounded, WFMin, Zenon
<1>2. \A j \in S : ~ (j < i)
  BY <1>1 DEF OpToRel
<1>3. \A j \in S : i <= j
  BY <1>2
<1>4. \E k \in S : \A j \in S : k <= j
  BY <1>3
<1> QED
  BY <1>4 DEF Least

\* FindVar finds the innermost context that declares a name, and its place there.
LEMMA FindVarOk ==
  ASSUME gens \in Seq(GenType), NEW name, InContext(name)
  PROVE  LET v == FindVar(name)
             g == gens[Len(gens) - v.level]
         IN  /\ v.name = name /\ v.kind \in {"local", "argument"}
             /\ v.level \in 0..(Len(gens) - 1)
             /\ v.index \in Place(IF v.kind = "local" THEN g.locals ELSE g.arguments, name)
             /\ \A n \in 0..(v.level - 1) : ~Declared(gens[Len(gens) - n], name)
<1> DEFINE S == {n \in 0..(Len(gens) - 1) : Declared(gens[Len(gens) - n], name)}
           level == Least(S)
           g == gens[Len(gens) - level]
           local == Place(g.locals, name) # {}
           P == IF local THEN Place(g.locals, name) ELSE Place(g.arguments, name)
           kind == IF local THEN "local" ELSE "argument"
<1>1. Len(gens) \in Nat /\ DOMAIN gens = 1..Len(gens)
  OBVIOUS
<1>2. S \subseteq Nat /\ S # {}
  <2>1. PICK i \in 1..Len(gens) : Declared(gens[i], name)
    BY <1>1 DEF InContext
  <2>2. Len(gens) - i \in 0..(Len(gens) - 1) /\ Len(gens) - (Len(gens) - i) = i
    BY <1>1, <2>1
  <2>3. Len(gens) - i \in S
    BY <2>1, <2>2
  <2>4. 0..(Len(gens) - 1) \subseteq Nat
    BY <1>1
  <2> QED
    BY <2>3, <2>4
<1>3. level \in S /\ \A n \in S : level <= n
  BY <1>2, LeastOk
<1> HIDE DEF level
<1>4. level \in 0..(Len(gens) - 1) /\ Declared(g, name)
  BY <1>3
<1>5. \A n \in 0..(level - 1) : ~Declared(gens[Len(gens) - n], name)
  <2> SUFFICES ASSUME NEW n \in 0..(level - 1), Declared(gens[Len(gens) - n], name)
               PROVE  FALSE
    OBVIOUS
  <2>1. n \in 0..(Len(gens) - 1) /\ ~(level <= n)
    BY <1>1, <1>4
  <2> QED
    BY <1>3, <2>1
<1>6. g \in GenType
  <2>1. Len(gens) - level \in 1..Len(gens)
    BY <1>1, <1>4
  <2> QED
    BY <1>1, <2>1
<1>7. P # {} /\ P \subseteq Nat
  <2>1. g.locals \in Seq(Texts) /\ g.arguments \in Seq(Texts)
    BY <1>6 DEF GenType
  <2>2. Place(g.locals, name) \subseteq Nat /\ Place(g.arguments, name) \subseteq Nat
    BY <2>1 DEF Place
  <2>3. local \/ Place(g.arguments, name) # {}
    BY <1>4 DEF Declared
  <2> QED
    BY <2>2, <2>3
<1>8. Least(P) \in P
  BY <1>7, LeastOk
<1>9. FindVar(name) = [name |-> name, kind |-> kind, level |-> level, index |-> Least(P)]
  BY DEF FindVar, level
<1>10. P = Place(IF kind = "local" THEN g.locals ELSE g.arguments, name)
  OBVIOUS
<1>11. kind \in {"local", "argument"}
  OBVIOUS
<1> HIDE DEF P, kind
<1> QED
  BY <1>4, <1>5, <1>8, <1>9, <1>10, <1>11

\* A context with the variables of the one it replaces.
LEMMA SameVariables ==
  ASSUME gens \in Seq(GenType), gens # <<>>, NEW g \in GenType, SetGen(g),
         g.locals = gen.locals, g.arguments = gen.arguments
  PROVE  /\ Len(gens') = Len(gens) /\ gen' = g
         /\ \A i \in 1..Len(gens) : /\ gens'[i].locals = gens[i].locals
                                    /\ gens'[i].arguments = gens[i].arguments
<1>1. /\ Len(gens') = Len(gens) /\ gens'[Len(gens)] = g
      /\ \A i \in 1..(Len(gens) - 1) : gens'[i] = gens[i]
  BY OuterFacts DEF SetGen
<1>2. Len(gens) \in Nat
  OBVIOUS
<1>3. \A i \in 1..Len(gens) : i = Len(gens) \/ i \in 1..(Len(gens) - 1)
  BY <1>2
<1> QED
  BY <1>1, <1>3 DEF gen

\* What FindVar finds is what the bytecode needs.
LEMMA FoundIsDeclared ==
  ASSUME gens \in Seq(GenType), gens # <<>>, NEW g \in GenType, SetGen(g),
         g.locals = gen.locals, g.arguments = gen.arguments,
         NEW name, InContext(name), access' = FindVar(name)
  PROVE  NamesResolved'
<1> DEFINE v == FindVar(name)
           h == gens[Len(gens) - v.level]
<1>1. /\ v.name = name /\ v.kind \in {"local", "argument"} /\ v.level \in 0..(Len(gens) - 1)
      /\ v.index \in Place(IF v.kind = "local" THEN h.locals ELSE h.arguments, name)
      /\ \A n \in 0..(v.level - 1) : ~Declared(gens[Len(gens) - n], name)
  BY FindVarOk
<1>2. /\ Len(gens') = Len(gens)
      /\ \A i \in 1..Len(gens) : /\ gens'[i].locals = gens[i].locals
                                 /\ gens'[i].arguments = gens[i].arguments
  BY SameVariables
<1>3. Len(gens) \in Nat /\ access' = v
  OBVIOUS
<1> HIDE DEF v
<1>4. Len(gens) - v.level \in 1..Len(gens)
  BY <1>1, <1>3
<1>5. \A n \in 0..(v.level - 1) : Len(gens) - n \in 1..Len(gens)
  BY <1>1, <1>3
<1> DEFINE k == gens'[Len(gens') - v.level]
<1>6. k.locals = h.locals /\ k.arguments = h.arguments
  BY <1>2, <1>4
<1> HIDE DEF h
<1>7. v.index \in Place(IF v.kind = "local" THEN k.locals ELSE k.arguments, v.name)
  BY <1>1, <1>6
<1>8. \A n \in 0..(v.level - 1) : ~Declared(gens'[Len(gens') - n], v.name)
  BY <1>1, <1>2, <1>5 DEF Declared
<1>9. AccessesDeclaration'
  BY <1>3, <1>7, <1>8 DEF AccessesDeclaration
<1>10. NamesAmongLiterals'
  <2>1. v.kind \notin {"field", "global"}
    BY <1>1
  <2> QED
    BY <1>3, <2>1 DEF NamesAmongLiterals
<1> QED
  BY <1>9, <1>10 DEF NamesResolved

\* A field or a global has its name among the literals.
LEMMA NamedIsLiteral ==
  ASSUME gens \in Seq(GenType), gens # <<>>, NEW g \in GenType, SetGen(g),
         g.locals = gen.locals, g.arguments = gen.arguments,
         NEW name, NEW kind \in {"field", "global"}, access' = ByName(name, kind),
         name \in g.literals
  PROVE  NamesResolved'
<1>1. gen' = g
  BY SameVariables
<1>2. access'.name = name /\ access'.kind = kind
  BY DEF ByName
<1>3. kind \notin {"local", "argument"}
  OBVIOUS
<1> QED
  BY <1>1, <1>2, <1>3 DEF NamesResolved, AccessesDeclaration, NamesAmongLiterals

LEMMA NothingAccessed ==
  ASSUME access' = NoAccess
  PROVE  NamesResolved'
BY DEF NamesResolved, AccessesDeclaration, NamesAmongLiterals, NoAccess

\* A variable that is read.
LEMMA PushedIsResolved ==
  ASSUME ParserInv, gens # <<>>, NEW name \in Texts, genPushVariable(name)
  PROVE  NamesResolved'
<1>1. gens \in Seq(GenType) /\ GenOk(gen)
  BY InnerOk DEF ParserInv
<1>2. CASE InContext(name)
  <2> DEFINE g == EmitPush(gen)
  <2>1. access' = FindVar(name) /\ SetGen(g)
    BY <1>2 DEF genPushVariable
  <2>2. g \in GenType /\ g.locals = gen.locals /\ g.arguments = gen.arguments
    BY <1>1, PushOk DEF GenOk, Alike
  <2> HIDE DEF g
  <2> QED
    BY <1>1, <1>2, <2>1, <2>2, FoundIsDeclared
<1>3. CASE ~InContext(name)
  <2> DEFINE l == AddLiteralIfAbsent(gen, name)
             g == EmitPush(l)
             kind == IF name \in fields THEN "field" ELSE "global"
  <2>1. access' = ByName(name, kind) /\ SetGen(g)
    BY <1>3 DEF genPushVariable
  <2>2. GenOk(l) /\ SameCode(gen, l) /\ name \in l.literals
    <3>1. /\ l \in GenType /\ SameCode(gen, l) /\ l.literals = gen.literals \cup {name}
      BY <1>1, DeclareOk
    <3> HIDE DEF l
    <3>2. GenOk(l)
      BY <1>1, <3>1, SameCodeOk
    <3> QED
      BY <3>1, <3>2
  <2>3. l.locals = gen.locals /\ l.arguments = gen.arguments
    BY <1>1 DEF AddLiteralIfAbsent, GenOk, GenType
  <2> HIDE DEF l
  <2>4. g \in GenType /\ g.locals = l.locals /\ g.arguments = l.arguments
        /\ g.literals = l.literals
    BY <2>2, PushOk DEF GenOk, Alike
  <2>5. kind \in {"field", "global"}
    OBVIOUS
  <2> HIDE DEF g, kind
  <2> QED
    BY <1>1, <2>1, <2>2, <2>3, <2>4, <2>5, NamedIsLiteral
<1> QED
  BY <1>2, <1>3

\* A variable that is written.
LEMMA PoppedIsResolved ==
  ASSUME ParserInv, gens # <<>>, NEW name \in gen.literals, genPopVariable(name)
  PROVE  NamesResolved'
<1> DEFINE g == EmitPopVariable(gen)
<1>1. gens \in Seq(GenType) /\ GenOk(gen)
  BY InnerOk DEF ParserInv
<1>2. /\ SetGen(g)
      /\ access' = IF InContext(name) THEN FindVar(name) ELSE ByName(name, "field")
  BY DEF genPopVariable
<1>3. /\ g \in GenType /\ g.locals = gen.locals /\ g.arguments = gen.arguments
      /\ name \in g.literals
  BY <1>1, PopVariableOk DEF GenOk, Alike
<1> HIDE DEF g
<1>4. CASE InContext(name)
  BY <1>1, <1>2, <1>3, <1>4, FoundIsDeclared
<1>5. CASE ~InContext(name)
  <2>1. access' = ByName(name, "field") /\ "field" \in {"field", "global"}
    BY <1>2, <1>5
  <2> QED
    BY <1>1, <1>2, <1>3, <2>1, NamedIsLiteral
<1> QED
  BY <1>4, <1>5

LEMMA AssignedIsResolved ==
  ASSUME ParserInv, assign
  PROVE  NamesResolved'
<1>1. /\ todo # <<>> /\ task.do = "assign"
      /\ \/ access' = NoAccess
         \/ task.names # <<>> /\ genPopVariable(Head(task.names))
  BY DEF assign, Call
<1>2. PICK p, q \in Points : /\ Linked(p) /\ p.ctx = Len(gens)
                             /\ Leads(task, p, q, gens, errors) /\ task \in Tasks
  BY <1>1, Found
<1>3. task.do \notin Terminals \cup ClassParts \cup {"Assemble"}
  BY <1>1 DEF Terminals, ClassParts
<1>4. p.ctx \in Nat \ {0}
  BY <1>1, <1>2, <1>3, MethodPoints
<1>5. \A i \in 1..Len(task.names) : task.names[i] \in gens[p.ctx].literals
  BY <1>1, <1>2, <1>3, MethodPoints
<1>6. gens # <<>>
  BY <1>2, <1>4, Inside
<1>7. CASE access' = NoAccess
  BY <1>7, NothingAccessed
<1>8. CASE task.names # <<>> /\ genPopVariable(Head(task.names))
  <2>1. task.names \in Seq(Texts) /\ 1 \in 1..Len(task.names)
        /\ Head(task.names) = task.names[1]
    BY <1>2, <1>8 DEF Tasks
  <2>2. Head(task.names) \in gen.literals
    BY <1>2, <1>5, <2>1 DEF gen
  <2> QED
    BY <1>6, <1>8, <2>2, PoppedIsResolved
<1> QED
  BY <1>1, <1>7, <1>8

LEMMA PrimaryIsResolved ==
  ASSUME ParserInv, primaryVariable
  PROVE  NamesResolved'
<1> DEFINE name == IF sym.text = "super" THEN "self" ELSE sym.text
<1>1. /\ todo # <<>> /\ task.do = "primary"
      /\ access' = NoAccess \/ genPushVariable(name)
  BY DEF primaryVariable, Call
<1>2. PICK p, q \in Points : Linked(p) /\ Leads(task, p, q, gens, errors)
  BY <1>1, Found
<1>3. task.do \notin Terminals \cup ClassParts \cup {"Assemble"}
  BY <1>1 DEF Terminals, ClassParts
<1>4. p.ctx \in Nat \ {0}
  BY <1>1, <1>2, <1>3, MethodPoints
<1>5. gens # <<>>
  BY <1>2, <1>4, Inside
<1>6. name \in Texts
  <2>1. sym.text \in Texts
    BY SymbolFacts DEF ParserInv
  <2>2. "self" \in Texts
    BY DEF Texts
  <2> QED
    BY <2>1, <2>2
<1> HIDE DEF name
<1> QED
  BY <1>1, <1>5, <1>6, NothingAccessed, PushedIsResolved

LEMMA NamesResolvedNext == ParserInv /\ NamesResolved /\ [Next]_vars => NamesResolved'
<1> SUFFICES ASSUME ParserInv, NamesResolved, [Next]_vars PROVE NamesResolved'
  OBVIOUS
<1>1. CASE UNCHANGED vars
  <2>1. access' = access /\ gens' = gens
    BY <1>1 DEF vars
  <2> QED
    BY <2>1 DEF NamesResolved, AccessesDeclaration, NamesAmongLiterals, gen
<1>2. CASE assign
  BY <1>2, AssignedIsResolved
<1>3. CASE primaryVariable
  BY <1>3, PrimaryIsResolved
<1>4. ASSUME Next, ~assign, ~primaryVariable
      PROVE  access' = NoAccess
  <2>1. expect \/ argument \/ selector => access' = NoAccess
    BY DEF expect, argument, selector
  <2>2. superclass \/ Fields \/ fieldNames \/ Methods \/ Assemble \/ classSide
        \/ pattern \/ keywordPattern \/ methodBody \/ finishMethod
        \/ blockContents \/ locals => access' = NoAccess
    BY DEF superclass, Fields, fieldNames, Methods, Assemble, classSide, pattern,
           keywordPattern, methodBody, finishMethod, blockContents, locals, Parse
  <2>3. blockBody \/ endStatement \/ afterYield \/ result
        \/ expression \/ assignments \/ moreAssignments => access' = NoAccess
    BY DEF blockBody, endStatement, afterYield, result, expression, assignments,
           moreAssignments, Parse
  <2>4. nestedTerm \/ notSuper \/ nestedBlock \/ blockPattern \/ blockArguments
        \/ finishBlock \/ literal => access' = NoAccess
    BY DEF nestedTerm, notSuper, nestedBlock, blockPattern, blockArguments, finishBlock,
           literal, Parse
  <2>5. messages \/ unaryMessages \/ binaryMessages \/ keywordLast \/ unaryMessage
        \/ binaryMessage \/ operandMessages \/ keywordMessage \/ moreKeywords
        \/ formula \/ send => access' = NoAccess
    BY DEF messages, unaryMessages, binaryMessages, Again, keywordLast, unaryMessage,
           binaryMessage, operandMessages, keywordMessage, moreKeywords, formula, send, Parse
  <2> QED
    BY <1>4, <2>1, <2>2, <2>3, <2>4, <2>5 DEF Next, Function
<1> QED
  BY <1>1, <1>2, <1>3, <1>4, NothingAccessed

-----------------------------------------------------------------------------
(* The theorems.                                                            *)

\* The lexer, which has a place for one token only, is never asked to peek while
\* it holds one (Parser::expression and Parser::assignation, Lexer::Peek).
THEOREM LooksAheadOnce == Spec => []PeeksOnce
BY ParserIsSound, SeesNoToken, PTL

\* A statement begins with no operands, a return finds one, no bytecode takes
\* operands that are not there or loses a byte, for code that has no yield and is
\* free of syntax errors; and the number recorded for a method is enough, also with
\* yields as long as they take no byte from a bytecode that has an operand
\* (Parser.cpp, BytecodeGenerator.cpp, MethodGenerationContext::ComputeStackDepth).
THEOREM OperandsAlwaysBalanced == Spec => []OperandsBalanced
<1>1. ParserInv => OperandsBalanced
  BY TypesAreOk, StatementsAreBalanced, AssembledIsRight DEF OperandsBalanced
<1> QED
  BY <1>1, ParserIsSound, PTL

\* A variable is accessed in the innermost context that declares it, and what is
\* not declared by a name that the method has among its literals
\* (MethodGenerationContext::FindVar, Parser::genPushVariable and genPopVariable).
THEOREM NamesAlwaysResolved == Spec => []NamesResolved
<1>1. Init => NamesResolved
  <2>1. Init => access = NoAccess
    BY Zenon DEF Init
  <2>2. NoAccess.kind = "none"
    BY DEF NoAccess
  <2> QED
    BY <2>1, <2>2 DEF NamesResolved, AccessesDeclaration, NamesAmongLiterals
<1> QED
  BY <1>1, ParserIsSound, NamesResolvedNext, PTL DEF Spec
=============================================================================
