---------------------------- MODULE FramesProof ----------------------------
(***************************************************************************)
(* Proofs about the frames of the bytecode interpreter, for every program: *)
(* operands are where the compiler counts them, an escaped block is        *)
(* recognised, and a return leaves exactly the frames it passes.           *)
(***************************************************************************)
EXTENDS Frames, SequenceTheorems, WellFoundedInduction, TLAPS

-----------------------------------------------------------------------------
(* Following a link that leads to earlier frames.                           *)

Descends(link, n) == link \in [1..n -> Nat] /\ \A g \in 1..n : link[g] < g

ClosedUnder(S, link) == \A g \in S : link[g] # NoFrame => link[g] \in S

\* A set of frames that holds f and is closed under the link holds what is
\* reached from f.
LEMMA AlongLeast ==
  ASSUME NEW link, NEW f, NEW S \in SUBSET DOMAIN link, f \in S, ClosedUnder(S, link)
  PROVE  Along(f, link) \subseteq S
  BY DEF Along, ClosedUnder

LEMMA AlongClosed ==
  ASSUME NEW n \in Nat, NEW link, Descends(link, n), NEW f \in 1..n
  PROVE  /\ f \in Along(f, link)
         /\ Along(f, link) \subseteq 1..n
         /\ ClosedUnder(Along(f, link), link)
<1>1. DOMAIN link = 1..n
  BY DEF Descends
<1>2. \A g \in 1..n : link[g] # NoFrame => link[g] \in 1..n
  BY DEF Descends, NoFrame
<1> QED
  BY <1>1, <1>2 DEF Along, ClosedUnder

\* It leads to no later frame.
LEMMA AlongBelow ==
  ASSUME NEW n \in Nat, NEW link, Descends(link, n), NEW f \in 1..n
  PROVE  Along(f, link) \subseteq 1..f
<1>1. DOMAIN link = 1..n /\ 1..f \in SUBSET (1..n) /\ f \in 1..f
  BY DEF Descends
<1>2. ClosedUnder(1..f, link)
  BY DEF Descends, ClosedUnder, NoFrame
<1> QED
  BY <1>1, <1>2, AlongLeast

\* What is reached does not depend on the links of other frames.
LEMMA AlongSame ==
  ASSUME NEW n \in Nat, NEW link, Descends(link, n),
         NEW m \in Nat, NEW next, Descends(next, m), NEW f \in 1..n, f \in 1..m,
         \A g \in Along(f, link) : g \in 1..m /\ next[g] = link[g]
  PROVE  Along(f, next) = Along(f, link)
<1>0. DOMAIN link = 1..n /\ DOMAIN next = 1..m
  BY DEF Descends
<1>1. Along(f, next) \subseteq Along(f, link)
  <2>1. f \in Along(f, link) /\ ClosedUnder(Along(f, link), link)
    BY AlongClosed
  <2>2. ClosedUnder(Along(f, link), next)
    BY <2>1 DEF ClosedUnder
  <2>3. Along(f, link) \in SUBSET DOMAIN next
    BY <1>0
  <2> QED
    BY <2>1, <2>2, <2>3, AlongLeast
<1>2. Along(f, link) \subseteq Along(f, next)
  <2>1. f \in Along(f, next) /\ ClosedUnder(Along(f, next), next)
    BY AlongClosed
  <2>2. ClosedUnder(Along(f, next), link)
    BY <2>1, <1>1 DEF ClosedUnder
  <2>3. Along(f, next) \in SUBSET DOMAIN link
    BY <1>0, <1>1, AlongClosed
  <2> QED
    BY <2>1, <2>2, <2>3, AlongLeast
<1> QED
  BY <1>1, <1>2

\* The frame, and what is reached from the next one.
LEMMA AlongUnfold ==
  ASSUME NEW n \in Nat, NEW link, Descends(link, n), NEW f \in 1..n
  PROVE  Along(f, link) = {f} \cup (IF link[f] = NoFrame THEN {} ELSE Along(link[f], link))
<1> DEFINE S == {f} \cup (IF link[f] = NoFrame THEN {} ELSE Along(link[f], link))
<1>0. DOMAIN link = 1..n /\ (link[f] # NoFrame => link[f] \in 1..n)
  BY DEF Descends, NoFrame
<1>1. f \in Along(f, link) /\ Along(f, link) \subseteq 1..n /\ ClosedUnder(Along(f, link), link)
  BY AlongClosed
<1>2. ASSUME link[f] # NoFrame
      PROVE  /\ link[f] \in Along(link[f], link)
             /\ Along(link[f], link) \subseteq 1..n
             /\ ClosedUnder(Along(link[f], link), link)
  BY <1>0, <1>2, AlongClosed
<1>3. Along(f, link) \subseteq S
  <2>1. S \in SUBSET DOMAIN link /\ f \in S
    BY <1>0, <1>2
  <2>2. ClosedUnder(S, link)
    BY <1>2 DEF ClosedUnder
  <2> QED
    BY <2>1, <2>2, AlongLeast
<1>4. ASSUME link[f] # NoFrame
      PROVE  Along(link[f], link) \subseteq Along(f, link)
  <2>1. link[f] \in Along(f, link) /\ Along(f, link) \in SUBSET DOMAIN link
    BY <1>0, <1>1, <1>4 DEF ClosedUnder
  <2> QED
    BY <2>1, <1>1, AlongLeast
<1> QED
  BY <1>1, <1>3, <1>4

\* Of two frames that are reached, one is reached from the other.
LEMMA AlongSplit ==
  ASSUME NEW n \in Nat, NEW link, Descends(link, n), NEW f \in 1..n,
         NEW g \in Along(f, link), NEW h \in Along(f, link)
  PROVE  h \in Along(g, link) \/ g \in Along(h, link)
<1> DEFINE S == {i \in 1..n : i \in Along(g, link) \/ g \in Along(i, link)}
<1>0. DOMAIN link = 1..n /\ g \in 1..n
  BY AlongClosed DEF Descends
<1>1. S \in SUBSET DOMAIN link /\ f \in S
  BY <1>0
<1>2. ASSUME NEW i \in S, link[i] # NoFrame
      PROVE  link[i] \in S
  <2>0. link[i] \in 1..n
    BY <1>2 DEF Descends, NoFrame
  <2>1. CASE i \in Along(g, link)
    BY <2>0, <2>1, <1>0, <1>2, AlongClosed DEF ClosedUnder
  <2>2. CASE g \in Along(i, link)
    <3>1. g = i \/ g \in Along(link[i], link)
      BY <2>2, <1>2, AlongUnfold
    <3>2. g = i => link[i] \in Along(g, link)
      BY <1>0, <1>2, AlongClosed DEF ClosedUnder
    <3> QED
      BY <2>0, <3>1, <3>2
  <2> QED
    BY <1>2, <2>1, <2>2
<1>3. ClosedUnder(S, link)
  BY <1>2 DEF ClosedUnder
<1> QED
  BY <1>1, <1>3, AlongLeast

\* What is reached beyond the first frame is the next of what is reached.
LEMMA AlongBack ==
  ASSUME NEW n \in Nat, NEW link, Descends(link, n), NEW f \in 1..n,
         NEW h \in Along(f, link), h # f
  PROVE  \E g \in Along(f, link) : link[g] = h
<1> DEFINE S == {f} \cup {h2 \in 1..n : \E g \in Along(f, link) : link[g] = h2}
<1>0. DOMAIN link = 1..n
  BY DEF Descends
<1>1. f \in Along(f, link) /\ Along(f, link) \subseteq 1..n /\ ClosedUnder(Along(f, link), link)
  BY AlongClosed
<1>2. S \in SUBSET DOMAIN link /\ f \in S /\ S \subseteq Along(f, link)
  BY <1>0, <1>1 DEF ClosedUnder, NoFrame
<1>3. ClosedUnder(S, link)
  BY <1>1, <1>2 DEF ClosedUnder
<1> QED
  BY <1>2, <1>3, AlongLeast

\* The link has an end.
LEMMA AlongEnds ==
  ASSUME NEW n \in Nat, NEW link, Descends(link, n), NEW f \in 1..n
  PROVE  \E g \in Along(f, link) : link[g] = NoFrame
<1>1. f \in Along(f, link) /\ Along(f, link) \subseteq 1..n /\ ClosedUnder(Along(f, link), link)
  BY AlongClosed
<1>2. Along(f, link) \subseteq Nat /\ Along(f, link) # {}
  BY <1>1
<1>3. PICK g \in Along(f, link) : \A h \in Along(f, link) : ~ (<<h, g>> \in OpToRel(<, Nat))
  BY <1>2, NatLessThanWellFounded, WFMin, Zenon
<1>4. \A h \in Along(f, link) : ~ (h < g)
  BY <1>2, <1>3 DEF OpToRel
<1> QED
  BY <1>1, <1>2, <1>4 DEF ClosedUnder, Descends

-----------------------------------------------------------------------------
(* The invariant, for frames fs of which frame k runs or makes a call.      *)

FrameType == [method : Code, ip : Nat, prev : 0..MaxFrames, context : 0..MaxFrames,
              slots : Seq(Values), size : Nat, depth : Nat]

Prevs(fs) == [f \in DOMAIN fs |-> fs[f].prev]
Contexts(fs) == [f \in DOMAIN fs |-> fs[f].context]
Stack(fs, k) == Along(k, Prevs(fs))

\* The frame has its arguments and locals.
HasVariables(r) == Len(r.slots) >= Base(r.method)

\* A value from which the variables around a block can be reached.
ValueOk(v, fs) ==
  /\ v \in Values /\ v.home <= Len(fs)
  /\ v.home # NoFrame => HasVariables(fs[v.home])

\* The links lead down to the bootstrap frame, what is referred to has its
\* variables, and what is off the stack looks like it.
Linked(fs, k, rep) ==
  /\ fs \in Seq(FrameType) /\ Len(fs) <= MaxFrames
  /\ k \in 1..Len(fs) /\ rep \subseteq 1..Len(fs)
  /\ \A f \in 1..Len(fs) :
       /\ fs[f].prev < f /\ fs[f].context < f
       /\ fs[f].context # NoFrame => HasVariables(fs[fs[f].context])
       /\ \A i \in 1..Len(fs[f].slots) : ValueOk(fs[f].slots[i], fs)
  /\ fs[1].method = Bootstrap
  /\ \A f \in Stack(fs, k) :
       /\ fs[f].prev = NoFrame => f = 1
       /\ HasVariables(fs[f])
  /\ \A f \in (1..Len(fs)) \ Stack(fs, k) : fs[f].prev # NoFrame => f \in rep

\* Above its variables a frame has the operands that the compiler counts, n of
\* which a call has counted as one already, and no more than those if tight.
Fits(r, n, tight) ==
  /\ Len(r.slots) >= Base(r.method) + r.depth - 1 + n
  /\ tight => Len(r.slots) <= Base(r.method) + r.depth - 1 + n

Roomy(r) == r.size >= Base(r.method) + MaxStack[r.method] /\ r.depth <= MaxStack[r.method]

\* Frame k has the operands of a call with n arguments, and every caller those
\* of the call it waits for.
Counted(fs, k, n, tight) ==
  /\ Fits(fs[k], n, tight)
  /\ \A g \in Stack(fs, k) :
       /\ Roomy(fs[g])
       /\ fs[g].prev # NoFrame => Fits(fs[fs[g].prev], NumArgs[fs[g].method], tight)

TwoArgumentBlock == \E b \in Blocks : NumArgs[b] = 3

\* A frame that runs is as after a call without more than the one operand.
FramesInv ==
  /\ Linked(frames, frame, replaced)
  /\ outcome = "run" => Counted(frames, frame, 1, ~unguarded /\ ~TwoArgumentBlock)
  /\ outcome \in {"run", "halted", "error", "lost", "misread"}
  /\ unguarded \in BOOLEAN
  /\ executed \in Nat
  /\ FailuresExplained

-----------------------------------------------------------------------------
(* What the invariant says of the parts.                                    *)

LEMMA CodeFacts ==
  /\ NoCode \notin Code
  /\ \A c \in Code : /\ NumArgs[c] \in Nat /\ NumArgs[c] >= 1 /\ NumLocals[c] \in Nat
                     /\ Base(c) \in Nat /\ Base(c) >= NumArgs[c] /\ MaxStack[c] \in Nat
  /\ MaxFrames \in Nat /\ MaxBytecodes \in Nat
  BY CodeAssumption DEF Base, Code

LEMMA ValueFacts ==
  /\ Plain \in Values /\ Plain.home = NoFrame /\ Plain.code = NoCode
  /\ \A v \in Values : v.home \in 0..MaxFrames
  /\ \A v \in Values : v.code \in Blocks => v.home # NoFrame
  BY CodeFacts DEF Values, Plain, NoFrame, Code

LEMMA LinksAreNumbers ==
  ASSUME NEW r \in FrameType
  PROVE  r.prev \in Nat /\ r.context \in Nat
  BY CodeFacts DEF FrameType

LEMMA FrameFacts ==
  ASSUME NEW fs, NEW k, NEW rep, Linked(fs, k, rep), NEW f \in 1..Len(fs)
  PROVE  /\ fs[f] \in FrameType /\ Len(fs) \in Nat /\ DOMAIN fs = 1..Len(fs)
         /\ fs[f].method \in Code /\ fs[f].slots \in Seq(Values) /\ Len(fs[f].slots) \in Nat
         /\ fs[f].size \in Nat /\ fs[f].depth \in Nat /\ fs[f].ip \in Nat
         /\ fs[f].prev \in 0..(f-1) /\ fs[f].context \in 0..(f-1)
<1>1. fs \in Seq(FrameType) /\ Len(fs) \in Nat /\ DOMAIN fs = 1..Len(fs)
  BY DEF Linked
<1>2. fs[f] \in FrameType
  BY <1>1
<1>3. /\ fs[f].method \in Code /\ fs[f].slots \in Seq(Values) /\ fs[f].size \in Nat
      /\ fs[f].depth \in Nat /\ fs[f].ip \in Nat
      /\ fs[f].prev \in 0..MaxFrames /\ fs[f].context \in 0..MaxFrames
  BY <1>2 DEF FrameType
<1>4. fs[f].prev < f /\ fs[f].context < f
  BY DEF Linked
<1> QED
  BY <1>1, <1>2, <1>3, <1>4, CodeFacts

LEMMA LinkFacts ==
  ASSUME NEW fs, NEW k, NEW rep, Linked(fs, k, rep)
  PROVE  /\ Descends(Prevs(fs), Len(fs)) /\ Descends(Contexts(fs), Len(fs))
         /\ \A f \in 1..Len(fs) : Prevs(fs)[f] = fs[f].prev /\ Contexts(fs)[f] = fs[f].context
         /\ k \in 1..Len(fs) /\ Len(fs) \in Nat
<1>1. k \in 1..Len(fs) /\ Len(fs) \in Nat /\ DOMAIN fs = 1..Len(fs)
  BY DEF Linked
<1>2. \A f \in 1..Len(fs) : fs[f].prev \in 0..(f-1) /\ fs[f].context \in 0..(f-1)
  BY FrameFacts
<1> QED
  BY <1>1, <1>2 DEF Descends, Prevs, Contexts

LEMMA StackFacts ==
  ASSUME NEW fs, NEW k, NEW rep, Linked(fs, k, rep)
  PROVE  /\ k \in Stack(fs, k) /\ Stack(fs, k) \subseteq 1..k /\ Stack(fs, k) \subseteq 1..Len(fs)
         /\ \A g \in Stack(fs, k) : fs[g].prev # NoFrame => fs[g].prev \in Stack(fs, k)
         /\ \A g \in Stack(fs, k) : g # k => \E h \in Stack(fs, k) : fs[h].prev = g
         /\ \A g \in Stack(fs, k) : fs[g].prev = NoFrame => g = 1
<1>1. /\ k \in Stack(fs, k) /\ Stack(fs, k) \subseteq 1..k /\ Stack(fs, k) \subseteq 1..Len(fs)
      /\ ClosedUnder(Stack(fs, k), Prevs(fs))
      /\ \A g \in Stack(fs, k) : g # k => \E h \in Stack(fs, k) : Prevs(fs)[h] = g
  BY LinkFacts, AlongClosed, AlongBelow, AlongBack DEF Stack
<1>2. \A g \in 1..Len(fs) : Prevs(fs)[g] = fs[g].prev
  BY LinkFacts
<1>3. \A g \in Stack(fs, k) : fs[g].prev = NoFrame => g = 1
  BY DEF Linked
<1> QED
  BY <1>1, <1>2, <1>3 DEF ClosedUnder

\* A context is reached by no frame but one that keeps its variables.
LEMMA ContextFacts ==
  ASSUME NEW fs, NEW k, NEW rep, Linked(fs, k, rep), NEW f \in Stack(fs, k)
  PROVE  /\ Along(f, Contexts(fs)) \subseteq 1..Len(fs)
         /\ \A g \in Along(f, Contexts(fs)) : HasVariables(fs[g])
         /\ \E g \in Along(f, Contexts(fs)) : fs[g].context = NoFrame
<1>0. f \in 1..Len(fs) /\ HasVariables(fs[f])
  BY StackFacts DEF Linked
<1>1. /\ Along(f, Contexts(fs)) \subseteq 1..Len(fs)
      /\ \A g \in Along(f, Contexts(fs)) : g # f =>
            \E h \in Along(f, Contexts(fs)) : Contexts(fs)[h] = g
      /\ \E g \in Along(f, Contexts(fs)) : Contexts(fs)[g] = NoFrame
  <2>1. Descends(Contexts(fs), Len(fs)) /\ Len(fs) \in Nat
    BY LinkFacts
  <2> QED
    BY <1>0, <2>1, AlongClosed, AlongBack, AlongEnds
<1>2. \A g \in 1..Len(fs) : Contexts(fs)[g] = fs[g].context
  BY LinkFacts
<1>3. ASSUME NEW g \in Along(f, Contexts(fs))
      PROVE  HasVariables(fs[g])
  <2>1. CASE g = f
    BY <2>1, <1>0
  <2>2. CASE g # f
    <3>1. PICK h \in Along(f, Contexts(fs)) : fs[h].context = g
      BY <1>1, <1>2, <2>2
    <3>2. h \in 1..Len(fs) /\ g # NoFrame
      BY <1>1 DEF NoFrame
    <3> QED
      BY <3>1, <3>2 DEF Linked
  <2> QED
    BY <2>1, <2>2
<1> QED
  BY <1>1, <1>2, <1>3

-----------------------------------------------------------------------------
(* What the changes of the frames do to the invariant.                      *)

\* The frames gs are fs but that frame f is r.
Updated(fs, f, r, gs) == gs = [fs EXCEPT ![f] = r]

\* Frame f gets other slots, as long as it keeps its variables.
LEMMA UpdateLinked ==
  ASSUME NEW fs, NEW k, NEW rep, Linked(fs, k, rep), NEW f \in 1..Len(fs),
         NEW r \in FrameType, r.method = fs[f].method, r.prev = fs[f].prev,
         r.context = fs[f].context, HasVariables(r),
         \A i \in 1..Len(r.slots) : ValueOk(r.slots[i], fs),
         NEW gs, Updated(fs, f, r, gs)
  PROVE  /\ Linked(gs, k, rep) /\ Stack(gs, k) = Stack(fs, k) /\ Len(gs) = Len(fs)
<1>1. fs \in Seq(FrameType) /\ DOMAIN fs = 1..Len(fs) /\ Len(fs) \in Nat
  BY DEF Linked
<1>2. gs \in Seq(FrameType) /\ Len(gs) = Len(fs) /\ DOMAIN gs = 1..Len(fs)
  BY <1>1 DEF Updated
<1>3. gs[f] = r /\ \A g \in 1..Len(fs) : g # f => gs[g] = fs[g]
  BY <1>1 DEF Updated
<1>4. \A g \in 1..Len(fs) : /\ gs[g].prev = fs[g].prev /\ gs[g].context = fs[g].context
                            /\ gs[g].method = fs[g].method
                            /\ HasVariables(fs[g]) => HasVariables(gs[g])
  BY <1>3
<1>5. Prevs(gs) = Prevs(fs)
  BY <1>1, <1>2, <1>4 DEF Prevs
<1>6. Stack(gs, k) = Stack(fs, k)
  BY <1>5 DEF Stack
<1>7. \A v : ValueOk(v, fs) => ValueOk(v, gs)
  BY <1>2, <1>4, ValueFacts DEF ValueOk, NoFrame
<1>8. \A g \in 1..Len(fs) :
       /\ gs[g].prev < g /\ gs[g].context < g
       /\ gs[g].context # NoFrame => HasVariables(gs[gs[g].context])
       /\ \A i \in 1..Len(gs[g].slots) : ValueOk(gs[g].slots[i], gs)
  <2> TAKE g \in 1..Len(fs)
  <2>1. /\ fs[g].prev < g /\ fs[g].context < g
        /\ fs[g].context # NoFrame => HasVariables(fs[fs[g].context])
        /\ \A i \in 1..Len(fs[g].slots) : ValueOk(fs[g].slots[i], fs)
    BY DEF Linked
  <2>2. fs[g].context # NoFrame => fs[g].context \in 1..Len(fs)
    BY FrameFacts DEF NoFrame
  <2>3. \A i \in 1..Len(gs[g].slots) : ValueOk(gs[g].slots[i], fs)
    BY <2>1, <1>3
  <2> QED
    BY <2>1, <2>2, <2>3, <1>4, <1>7
<1>9. \A g \in Stack(fs, k) : /\ gs[g].prev = NoFrame => g = 1
                              /\ HasVariables(gs[g])
  BY <1>4, StackFacts DEF Linked
<1>10. /\ Len(fs) <= MaxFrames /\ k \in 1..Len(fs) /\ rep \subseteq 1..Len(fs)
       /\ fs[1].method = Bootstrap
       /\ \A g \in (1..Len(fs)) \ Stack(fs, k) : fs[g].prev # NoFrame => g \in rep
  BY DEF Linked
<1>11. gs[1].method = Bootstrap
  BY <1>1, <1>4, <1>10
<1>12. \A g \in (1..Len(gs)) \ Stack(gs, k) : gs[g].prev # NoFrame => g \in rep
  BY <1>2, <1>4, <1>6, <1>10
<1> QED
  BY <1>2, <1>6, <1>8, <1>9, <1>10, <1>11, <1>12 DEF Linked

\* The frame that runs gets other operands.
LEMMA UpdateCounted ==
  ASSUME NEW fs, NEW k, NEW rep, Linked(fs, k, rep), NEW m, NEW tight,
         Counted(fs, k, m, tight), NEW n,
         NEW r, r.method = fs[k].method, r.prev = fs[k].prev, Fits(r, n, tight), Roomy(r),
         NEW gs, gs = [fs EXCEPT ![k] = r], Stack(gs, k) = Stack(fs, k)
  PROVE  Counted(gs, k, n, tight)
<1>1. DOMAIN fs = 1..Len(fs) /\ k \in 1..Len(fs)
  BY DEF Linked
<1>2. gs[k] = r /\ \A g \in 1..Len(fs) : g # k => gs[g] = fs[g]
  BY <1>1
<1>3. ASSUME NEW g \in Stack(fs, k), fs[g].prev # NoFrame
      PROVE  Fits(gs[fs[g].prev], NumArgs[fs[g].method], tight)
  <2>1. fs[g].prev \in 1..Len(fs) /\ fs[g].prev < g /\ g <= k
    BY <1>3, FrameFacts, StackFacts DEF NoFrame
  <2> QED
    BY <1>2, <1>3, <2>1, StackFacts DEF Counted
<1>4. \A g \in Stack(fs, k) : gs[g].method = fs[g].method /\ gs[g].prev = fs[g].prev /\ Roomy(gs[g])
  BY <1>2, StackFacts DEF Counted
<1> QED
  BY <1>2, <1>3, <1>4 DEF Counted

\* The frames gs are fs and one more frame r.
Grown(fs, r, gs) ==
  /\ gs \in Seq(FrameType) /\ Len(gs) = Len(fs) + 1 /\ Len(gs) <= MaxFrames
  /\ gs[Len(gs)] = r /\ \A g \in 1..Len(fs) : gs[g] = fs[g]
  /\ \A g \in 1..Len(gs) :
       /\ gs[g].prev < g /\ gs[g].context < g
       /\ gs[g].context # NoFrame => HasVariables(gs[gs[g].context])
       /\ \A i \in 1..Len(gs[g].slots) : ValueOk(gs[g].slots[i], gs)
  /\ gs[1].method = Bootstrap
  /\ \A f \in 1..Len(fs) : Stack(gs, f) = Stack(fs, f)
  /\ Stack(gs, Len(gs)) =
       {Len(gs)} \cup (IF r.prev = NoFrame THEN {} ELSE Stack(fs, r.prev))

\* A frame is added that refers to frames with their variables.
LEMMA GrowLinked ==
  ASSUME NEW fs, NEW k, NEW rep, Linked(fs, k, rep), Len(fs) < MaxFrames,
         NEW r \in FrameType, r.prev <= Len(fs), r.context <= Len(fs),
         r.context # NoFrame => HasVariables(fs[r.context]),
         \A i \in 1..Len(r.slots) : ValueOk(r.slots[i], fs),
         NEW gs, gs = Append(fs, r)
  PROVE  Grown(fs, r, gs)
<1>1. fs \in Seq(FrameType) /\ DOMAIN fs = 1..Len(fs) /\ Len(fs) \in Nat /\ Len(fs) >= 1
  BY DEF Linked
<1>2. gs \in Seq(FrameType) /\ Len(gs) = Len(fs) + 1 /\ DOMAIN gs = 1..Len(gs)
  BY <1>1
<1>3. gs[Len(gs)] = r /\ \A g \in 1..Len(fs) : gs[g] = fs[g]
  BY <1>1
<1>4. Len(gs) <= MaxFrames
  BY <1>1, <1>2, CodeFacts
<1>5. \A v : ValueOk(v, fs) => ValueOk(v, gs)
  BY <1>1, <1>2, <1>3, ValueFacts DEF ValueOk, NoFrame
<1>6. r.prev \in Nat /\ r.context \in Nat
  BY LinksAreNumbers
<1>7. ASSUME NEW g \in 1..Len(gs)
      PROVE  /\ gs[g].prev < g /\ gs[g].context < g
             /\ gs[g].context # NoFrame => HasVariables(gs[gs[g].context])
             /\ \A i \in 1..Len(gs[g].slots) : ValueOk(gs[g].slots[i], gs)
  <2>1. CASE g = Len(gs)
    <3>1. r.context # NoFrame => r.context \in 1..Len(fs)
      BY <1>6 DEF NoFrame
    <3> QED
      BY <2>1, <3>1, <1>1, <1>2, <1>3, <1>5, <1>6
  <2>2. CASE g # Len(gs)
    <3>1. g \in 1..Len(fs)
      BY <2>2, <1>1, <1>2
    <3>2. /\ fs[g].prev < g /\ fs[g].context < g
          /\ fs[g].context # NoFrame => HasVariables(fs[fs[g].context])
          /\ \A i \in 1..Len(fs[g].slots) : ValueOk(fs[g].slots[i], fs)
      BY <3>1 DEF Linked
    <3>3. fs[g].context # NoFrame => fs[g].context \in 1..Len(fs)
      BY <3>1, FrameFacts DEF NoFrame
    <3> QED
      BY <3>1, <3>2, <3>3, <1>3, <1>5
  <2> QED
    BY <2>1, <2>2
<1>8. gs[1].method = Bootstrap
  BY <1>1, <1>3 DEF Linked
<1>9. Descends(Prevs(fs), Len(fs)) /\ \A g \in 1..Len(fs) : Prevs(fs)[g] = fs[g].prev
  BY LinkFacts
<1>10. Descends(Prevs(gs), Len(gs))
  <2>0. \A g \in 1..Len(gs) : gs[g] \in FrameType
    BY <1>2
  <2>1. \A g \in 1..Len(gs) : gs[g].prev \in Nat /\ gs[g].prev < g
    <3> SUFFICES ASSUME NEW g \in 1..Len(gs) PROVE gs[g].prev \in Nat /\ gs[g].prev < g
      OBVIOUS
    <3>1. gs[g].prev \in Nat
      BY <2>0, LinksAreNumbers
    <3> QED
      BY <3>1, <1>7
  <2> QED
    BY <1>2, <2>1 DEF Descends, Prevs
<1>11. \A g \in 1..Len(gs) : Prevs(gs)[g] = gs[g].prev
  BY <1>2 DEF Prevs
<1>12. ASSUME NEW f \in 1..Len(fs)
       PROVE  Stack(gs, f) = Stack(fs, f)
  <2>1. Along(f, Prevs(fs)) \subseteq 1..Len(fs)
    BY <1>1, <1>9, AlongClosed
  <2>2. \A g \in Along(f, Prevs(fs)) : g \in 1..Len(gs) /\ Prevs(gs)[g] = Prevs(fs)[g]
    BY <2>1, <1>1, <1>2, <1>3, <1>9, <1>11
  <2>3. f \in 1..Len(gs) /\ Len(gs) \in Nat
    BY <1>1, <1>2
  <2> QED
    BY <2>2, <2>3, <1>1, <1>9, <1>10, AlongSame DEF Stack
<1>13. Stack(gs, Len(gs)) = {Len(gs)} \cup (IF r.prev = NoFrame THEN {} ELSE Stack(fs, r.prev))
  <2>1. Len(gs) \in 1..Len(gs) /\ Len(gs) \in Nat /\ Prevs(gs)[Len(gs)] = r.prev
    BY <1>1, <1>2, <1>3, <1>11
  <2>2. Stack(gs, Len(gs)) = {Len(gs)} \cup (IF r.prev = NoFrame THEN {} ELSE Stack(gs, r.prev))
    BY <2>1, <1>10, AlongUnfold DEF Stack
  <2>3. r.prev # NoFrame => r.prev \in 1..Len(fs)
    BY <1>6 DEF NoFrame
  <2> QED
    BY <2>2, <2>3, <1>12
<1> QED
  BY <1>2, <1>3, <1>4, <1>7, <1>8, <1>12, <1>13 DEF Grown

\* A frame that is called is put on the stack.
LEMMA CallLinked ==
  ASSUME NEW fs, NEW k, NEW rep, Linked(fs, k, rep), Len(fs) < MaxFrames,
         NEW r \in FrameType, r.prev = k, r.context <= Len(fs), HasVariables(r),
         r.context # NoFrame => HasVariables(fs[r.context]),
         \A i \in 1..Len(r.slots) : ValueOk(r.slots[i], fs),
         NEW gs, gs = Append(fs, r)
  PROVE  /\ Linked(gs, Len(fs) + 1, rep)
         /\ Stack(gs, Len(fs) + 1) = Stack(fs, k) \cup {Len(fs) + 1}
<1>1. /\ k \in 1..Len(fs) /\ Len(fs) \in Nat /\ rep \subseteq 1..Len(fs)
      /\ \A g \in (1..Len(fs)) \ Stack(fs, k) : fs[g].prev # NoFrame => g \in rep
      /\ \A g \in Stack(fs, k) : (fs[g].prev = NoFrame => g = 1) /\ HasVariables(fs[g])
  BY DEF Linked
<1>2. k <= Len(fs) /\ k # NoFrame
  BY <1>1 DEF NoFrame
<1>3. Grown(fs, r, gs)
  BY <1>2, GrowLinked
<1>4. Stack(gs, Len(gs)) = Stack(fs, k) \cup {Len(gs)}
  BY <1>2, <1>3 DEF Grown
<1>5. Stack(fs, k) \subseteq 1..Len(fs)
  BY StackFacts
<1>6. \A g \in Stack(gs, Len(gs)) : (gs[g].prev = NoFrame => g = 1) /\ HasVariables(gs[g])
  BY <1>1, <1>2, <1>3, <1>4, <1>5 DEF Grown
<1>7. \A g \in (1..Len(gs)) \ Stack(gs, Len(gs)) : gs[g].prev # NoFrame => g \in rep
  <2> TAKE g \in (1..Len(gs)) \ Stack(gs, Len(gs))
  <2>1. g \in (1..Len(fs)) \ Stack(fs, k)
    BY <1>1, <1>3, <1>4 DEF Grown
  <2> QED
    BY <2>1, <1>1, <1>3 DEF Grown
<1>8. Len(gs) \in 1..Len(gs) /\ rep \subseteq 1..Len(gs) /\ Len(gs) = Len(fs) + 1
  BY <1>1, <1>3 DEF Grown
<1> QED
  BY <1>3, <1>4, <1>6, <1>7, <1>8 DEF Linked, Grown

\* A frame that takes the place of the running one is put on the stack
\* instead of it.
LEMMA ReplaceLinked ==
  ASSUME NEW fs, NEW k, NEW rep, Linked(fs, k, rep), Len(fs) < MaxFrames, k # 1,
         NEW r \in FrameType, r.prev = fs[k].prev, r.context = fs[k].context,
         r.method = fs[k].method, r.slots = fs[k].slots,
         NEW gs, gs = Append(fs, r)
  PROVE  /\ Linked(gs, Len(fs) + 1, rep \cup {k})
         /\ Stack(gs, Len(fs) + 1) = (Stack(fs, k) \ {k}) \cup {Len(fs) + 1}
<1>1. /\ k \in 1..Len(fs) /\ Len(fs) \in Nat /\ rep \subseteq 1..Len(fs)
      /\ \A g \in (1..Len(fs)) \ Stack(fs, k) : fs[g].prev # NoFrame => g \in rep
      /\ \A g \in Stack(fs, k) : (fs[g].prev = NoFrame => g = 1) /\ HasVariables(fs[g])
  BY DEF Linked
<1>2. k \in Stack(fs, k) /\ Stack(fs, k) \subseteq 1..Len(fs)
  BY StackFacts
<1>3. fs[k].prev # NoFrame /\ HasVariables(r)
  BY <1>1, <1>2 DEF HasVariables
<1>4. fs[k].prev \in 1..(k-1) /\ r.prev <= Len(fs) /\ r.context <= Len(fs)
  BY <1>1, <1>3, FrameFacts DEF NoFrame
<1>5. /\ r.context # NoFrame => HasVariables(fs[r.context])
      /\ \A i \in 1..Len(r.slots) : ValueOk(r.slots[i], fs)
  BY <1>1 DEF Linked
<1>6. Grown(fs, r, gs)
  BY <1>4, <1>5, GrowLinked
<1>7. Stack(fs, k) \ {k} = Stack(fs, fs[k].prev)
  <2>1. Descends(Prevs(fs), Len(fs)) /\ Prevs(fs)[k] = fs[k].prev
    BY <1>1, LinkFacts
  <2>2. Stack(fs, k) = {k} \cup Stack(fs, fs[k].prev)
    BY <2>1, <1>1, <1>3, AlongUnfold DEF Stack
  <2>3. Stack(fs, fs[k].prev) \subseteq 1..fs[k].prev
    <3>1. fs[k].prev \in 1..Len(fs)
      BY <1>1, <1>4
    <3> QED
      BY <3>1, <2>1, <1>1, AlongBelow DEF Stack
  <2>4. k \notin Stack(fs, fs[k].prev)
    BY <2>3, <1>1, <1>4
  <2> QED
    BY <2>2, <2>4
<1>8. Stack(gs, Len(gs)) = (Stack(fs, k) \ {k}) \cup {Len(gs)}
  BY <1>3, <1>6, <1>7 DEF Grown
<1>9. ASSUME NEW g \in Stack(gs, Len(gs)) PROVE (gs[g].prev = NoFrame => g = 1) /\ HasVariables(gs[g])
  <2>1. CASE g \in Stack(fs, k)
    <3>1. g \in 1..Len(fs) /\ gs[g] = fs[g]
      BY <2>1, <1>2, <1>6 DEF Grown
    <3> QED
      BY <2>1, <3>1, <1>1
  <2>2. CASE g = Len(gs)
    BY <2>2, <1>3, <1>6 DEF Grown
  <2> QED
    BY <2>1, <2>2, <1>8
<1>10. ASSUME NEW g \in (1..Len(gs)) \ Stack(gs, Len(gs)), gs[g].prev # NoFrame PROVE g \in rep \cup {k}
  <2>1. g \in 1..Len(fs) /\ gs[g] = fs[g]
    BY <1>1, <1>6, <1>8 DEF Grown
  <2>2. CASE g = k
    BY <2>2
  <2>3. CASE g # k
    BY <1>1, <1>8, <1>10, <2>1, <2>3
  <2> QED
    BY <2>2, <2>3
<1>11. Len(gs) \in 1..Len(gs) /\ rep \cup {k} \subseteq 1..Len(gs) /\ Len(gs) = Len(fs) + 1
  BY <1>1, <1>6 DEF Grown
<1> QED
  BY <1>6, <1>8, <1>9, <1>10, <1>11 DEF Linked, Grown

LEMMA CallCounted ==
  ASSUME NEW fs, NEW k, NEW rep, Linked(fs, k, rep), NEW tight,
         NEW r, r.prev = k, Counted(fs, k, NumArgs[r.method], tight),
         Fits(r, 1, tight), Roomy(r),
         NEW gs, gs = Append(fs, r), Stack(gs, Len(fs) + 1) = Stack(fs, k) \cup {Len(fs) + 1}
  PROVE  Counted(gs, Len(fs) + 1, 1, tight)
<1>1. fs \in Seq(FrameType) /\ Len(fs) \in Nat /\ k \in 1..Len(fs)
  BY DEF Linked
<1>2. gs[Len(fs) + 1] = r /\ \A g \in 1..Len(fs) : gs[g] = fs[g]
  BY <1>1
<1>3. ASSUME NEW g \in Stack(fs, k)
      PROVE  /\ Roomy(gs[g])
             /\ gs[g].prev # NoFrame => Fits(gs[gs[g].prev], NumArgs[gs[g].method], tight)
  <2>1. g \in 1..Len(fs) /\ (fs[g].prev # NoFrame => fs[g].prev \in 1..Len(fs))
    BY StackFacts
  <2> QED
    BY <2>1, <1>2, <1>3 DEF Counted
<1>4. Fits(gs[r.prev], NumArgs[r.method], tight)
  BY <1>1, <1>2 DEF Counted
<1> QED
  BY <1>2, <1>3, <1>4 DEF Counted

LEMMA ReplaceCounted ==
  ASSUME NEW fs, NEW k, NEW rep, Linked(fs, k, rep), NEW n, NEW tight,
         Counted(fs, k, n, tight),
         NEW r, r.prev = fs[k].prev, r.method = fs[k].method, r.slots = fs[k].slots,
         r.depth = fs[k].depth, Roomy(r),
         NEW gs, gs = Append(fs, r),
         Stack(gs, Len(fs) + 1) = (Stack(fs, k) \ {k}) \cup {Len(fs) + 1}
  PROVE  Counted(gs, Len(fs) + 1, n, tight)
<1>1. fs \in Seq(FrameType) /\ Len(fs) \in Nat /\ k \in 1..Len(fs)
  BY DEF Linked
<1>2. gs[Len(fs) + 1] = r /\ \A g \in 1..Len(fs) : gs[g] = fs[g]
  BY <1>1
<1>3. ASSUME NEW g \in Stack(fs, k)
      PROVE  /\ g \in 1..Len(fs) /\ (fs[g].prev # NoFrame => fs[g].prev \in 1..Len(fs))
             /\ Roomy(fs[g])
             /\ fs[g].prev # NoFrame => Fits(fs[fs[g].prev], NumArgs[fs[g].method], tight)
  BY StackFacts DEF Counted
<1>4. k \in Stack(fs, k)
  BY StackFacts
<1>5. Fits(r, n, tight)
  BY DEF Counted, Fits
<1> QED
  BY <1>2, <1>3, <1>4, <1>5 DEF Counted

-----------------------------------------------------------------------------
(* Leaving frames.                                                          *)

\* The frames from "left" on.
Leaves(left) == {f \in Callers : f >= left}

\* What a return leaves is the stack above the caller of the last frame.
LEMMA StackBelow ==
  ASSUME NEW fs, NEW k, NEW rep, Linked(fs, k, rep),
         NEW left \in Stack(fs, k), fs[left].prev # NoFrame
  PROVE  /\ Stack(fs, fs[left].prev) = {f \in Stack(fs, k) : f < left}
         /\ fs[left].prev \in Stack(fs, k) /\ fs[left].prev < left
         /\ \A f \in Stack(fs, k) : f > fs[left].prev => f >= left
<1> DEFINE link == Prevs(fs)
           caller == fs[left].prev
<1>1. Descends(link, Len(fs)) /\ Len(fs) \in Nat /\ k \in 1..Len(fs)
  BY LinkFacts
<1>2. left \in 1..Len(fs) /\ caller \in Stack(fs, k) /\ link[left] = caller
  BY LinkFacts, StackFacts
<1>3. caller \in 1..(left - 1) /\ caller \in 1..Len(fs)
  BY <1>2, FrameFacts DEF NoFrame
<1>4. Along(left, link) = {left} \cup Along(caller, link)
  BY <1>1, <1>2, AlongUnfold
<1>5. Along(caller, link) \subseteq 1..caller
  BY <1>1, <1>3, AlongBelow
<1>6. ASSUME NEW f \in Stack(fs, k), f < left
      PROVE  f \in Along(caller, link)
  <2>1. f \in 1..Len(fs)
    BY StackFacts
  <2>2. Along(f, link) \subseteq 1..f
    BY <1>1, <2>1, AlongBelow
  <2>3. left \notin Along(f, link)
    BY <2>1, <2>2, <1>2, <1>6
  <2>4. f \in Along(left, link)
    BY <2>3, <1>1, AlongSplit DEF Stack
  <2> QED
    BY <2>4, <1>4, <1>6, <1>2
<1>7. Along(caller, link) \subseteq Stack(fs, k)
  <2>1. ClosedUnder(Stack(fs, k), link) /\ Stack(fs, k) \in SUBSET DOMAIN link
    BY <1>1, AlongClosed DEF Stack, Descends
  <2> QED
    BY <2>1, <1>2, AlongLeast
<1>8. \A f \in Along(caller, link) : f < left
  BY <1>3, <1>5, <1>2
<1>9. Stack(fs, caller) = {f \in Stack(fs, k) : f < left}
  BY <1>6, <1>7, <1>8 DEF Stack
<1>10. \A f \in Stack(fs, k) : f > caller => f >= left
  <2> TAKE f \in Stack(fs, k)
  <2>1. f \in 1..Len(fs)
    BY StackFacts
  <2>2. f < left => f \in 1..caller
    BY <1>6, <1>5
  <2> QED
    BY <2>1, <2>2, <1>2, <1>3
<1> QED
  BY <1>2, <1>3, <1>9, <1>10

\* Frames gs are the frames after a return to the caller of frame "left".
Left(left, gs) ==
  /\ gs \in Seq(FrameType) /\ Len(gs) = Len(frames)
  /\ \A f \in 1..Len(frames) : /\ f \notin Leaves(left) => gs[f] = frames[f]
                               /\ f \in Leaves(left) => gs[f].prev = NoFrame
  /\ \A f \in 1..Len(frames) : \A i \in 1..Len(frames[f].slots) :
       ValueOk(frames[f].slots[i], gs)
  /\ Stack(gs, frames[left].prev) = Stack(frames, frames[left].prev)

\* A frame that is left keeps its variables as long as it is referred to.
LEMMA PopKeeps ==
  ASSUME NEW rep, Linked(frames, frame, rep), NEW S,
         NEW gs, gs = Popped(S)
  PROVE  /\ gs \in Seq(FrameType) /\ Len(gs) = Len(frames)
         /\ \A f \in 1..Len(frames) :
              /\ f \notin S => gs[f] = frames[f]
              /\ f \in S => gs[f].prev = NoFrame
              /\ gs[f].method = frames[f].method /\ gs[f].context = frames[f].context
              /\ Kept(f) => gs[f].slots = frames[f].slots
              /\ gs[f].slots \in {frames[f].slots, <<>>}
<1>1. frames \in Seq(FrameType) /\ DOMAIN frames = 1..Len(frames) /\ Len(frames) \in Nat
  BY DEF Linked
<1>2. \A f \in 1..Len(frames) :
        gs[f] = IF f \notin S THEN frames[f]
                ELSE [frames[f] EXCEPT !.prev = NoFrame, !.ip = 0, !.depth = 0,
                                       !.slots = IF Kept(f) THEN @ ELSE <<>>]
  BY <1>1 DEF Popped
<1>3. ASSUME NEW f \in 1..Len(frames)
      PROVE  /\ gs[f] \in FrameType
             /\ f \notin S => gs[f] = frames[f]
             /\ f \in S => gs[f].prev = NoFrame
             /\ gs[f].method = frames[f].method /\ gs[f].context = frames[f].context
             /\ Kept(f) => gs[f].slots = frames[f].slots
             /\ gs[f].slots \in {frames[f].slots, <<>>}
  <2>1. frames[f] \in FrameType /\ <<>> \in Seq(Values) /\ NoFrame \in 0..MaxFrames
    BY <1>1, CodeFacts DEF NoFrame
  <2>2. CASE f \notin S
    BY <2>1, <2>2, <1>2
  <2>3. CASE f \in S
    <3> DEFINE slots == IF Kept(f) THEN frames[f].slots ELSE <<>>
    <3>1. gs[f] = [frames[f] EXCEPT !.prev = NoFrame, !.ip = 0, !.depth = 0, !.slots = slots]
      BY <2>3, <1>2
    <3>2. slots \in Seq(Values)
      BY <2>1 DEF FrameType
    <3> HIDE DEF slots
    <3>4. gs[f] = [method |-> frames[f].method, ip |-> 0, prev |-> NoFrame,
                   context |-> frames[f].context, slots |-> slots,
                   size |-> frames[f].size, depth |-> 0]
      BY <3>1, <2>1 DEF FrameType
    <3>3. /\ gs[f] \in FrameType /\ gs[f].prev = NoFrame /\ gs[f].slots = slots
          /\ gs[f].method = frames[f].method /\ gs[f].context = frames[f].context
      BY <3>4, <3>2, <2>1 DEF FrameType
    <3> QED
      BY <3>3, <2>3 DEF slots
  <2> QED
    BY <2>2, <2>3
<1>4. DOMAIN gs = 1..Len(frames) /\ gs = [f \in 1..Len(frames) |-> gs[f]]
  BY <1>1 DEF Popped
<1>5. gs \in Seq(FrameType) /\ Len(gs) = Len(frames)
  BY <1>1, <1>3, <1>4
<1> QED
  BY <1>3, <1>5

LEMMA PopLinked ==
  ASSUME NEW rep, Linked(frames, frame, rep),
         NEW left \in Callers, frames[left].prev # NoFrame,
         NEW gs, gs = Popped(Leaves(left))
  PROVE  Linked(gs, frames[left].prev, rep) /\ Left(left, gs)
<1> DEFINE caller == frames[left].prev
<1>0. Callers = Stack(frames, frame)
  BY DEF Callers, Stack, Prevs
<1>1. /\ gs \in Seq(FrameType) /\ Len(gs) = Len(frames)
      /\ \A f \in 1..Len(frames) :
              /\ f \notin Leaves(left) => gs[f] = frames[f]
              /\ f \in Leaves(left) => gs[f].prev = NoFrame
              /\ gs[f].method = frames[f].method /\ gs[f].context = frames[f].context
              /\ Kept(f) => gs[f].slots = frames[f].slots
              /\ gs[f].slots \in {frames[f].slots, <<>>}
  BY PopKeeps
<1>2. /\ frames \in Seq(FrameType) /\ DOMAIN frames = 1..Len(frames) /\ Len(frames) \in Nat
      /\ DOMAIN gs = 1..Len(frames) /\ Len(frames) <= MaxFrames /\ rep \subseteq 1..Len(frames)
      /\ frames[1].method = Bootstrap /\ 1 \in 1..Len(frames)
      /\ \A f \in Callers : (frames[f].prev = NoFrame => f = 1) /\ HasVariables(frames[f])
      /\ \A f \in (1..Len(frames)) \ Callers : frames[f].prev # NoFrame => f \in rep
  BY <1>0, <1>1 DEF Linked
<1>3. /\ Stack(frames, caller) = {f \in Callers : f < left}
      /\ caller \in Callers /\ caller < left
      /\ left \in 1..Len(frames) /\ Callers \subseteq 1..Len(frames)
  BY <1>0, StackBelow, StackFacts
<1>4. Stack(gs, caller) = Stack(frames, caller)
  <2>1. Descends(Prevs(frames), Len(frames))
        /\ \A f \in 1..Len(frames) : Prevs(frames)[f] = frames[f].prev
    BY LinkFacts
  <2>2. \A f \in 1..Len(frames) : Prevs(gs)[f] = gs[f].prev
    BY <1>2 DEF Prevs
  <2>3. \A f \in 1..Len(frames) : Prevs(gs)[f] \in Nat /\ Prevs(gs)[f] < f
    BY <2>1, <2>2, <1>1 DEF Descends, NoFrame
  <2>4. Descends(Prevs(gs), Len(frames))
    BY <2>3, <1>2 DEF Descends, Prevs
  <2>5. \A f \in Along(caller, Prevs(frames)) :
           f \in 1..Len(frames) /\ Prevs(gs)[f] = Prevs(frames)[f]
    BY <2>1, <2>2, <1>1, <1>3 DEF Leaves, Stack
  <2>6. caller \in 1..Len(frames)
    BY <1>3
  <2> QED
    BY <2>1, <2>4, <2>5, <2>6, <1>2, AlongSame DEF Stack
<1>5. \A f \in 1..Len(frames) : Kept(f) /\ HasVariables(frames[f]) => HasVariables(gs[f])
  BY <1>1 DEF HasVariables
<1>6. \A f \in 1..Len(frames) : \A i \in 1..Len(frames[f].slots) : ValueOk(frames[f].slots[i], gs)
  <2> TAKE f \in 1..Len(frames)
  <2> TAKE i \in 1..Len(frames[f].slots)
  <2> DEFINE v == frames[f].slots[i]
  <2>1. ValueOk(v, frames)
    BY DEF Linked
  <2>2. v.home \in 0..Len(frames)
    BY <2>1, <1>2, ValueFacts, CodeFacts DEF ValueOk
  <2>3. v.home # NoFrame => Kept(v.home)
    <3>1. frames[f].slots \in Seq(Values)
      BY FrameFacts
    <3>2. i \in DOMAIN frames[f].slots
      BY <3>1
    <3> QED
      BY <3>2, <1>2 DEF Kept
  <2> QED
    BY <2>1, <2>2, <2>3, <1>1, <1>5 DEF ValueOk, NoFrame
<1>7. \A f \in 1..Len(gs) :
       /\ gs[f].prev < f /\ gs[f].context < f
       /\ gs[f].context # NoFrame => HasVariables(gs[gs[f].context])
       /\ \A i \in 1..Len(gs[f].slots) : ValueOk(gs[f].slots[i], gs)
  <2> SUFFICES ASSUME NEW f \in 1..Len(frames)
               PROVE  /\ gs[f].prev < f /\ gs[f].context < f
                      /\ gs[f].context # NoFrame => HasVariables(gs[gs[f].context])
                      /\ \A i \in 1..Len(gs[f].slots) : ValueOk(gs[f].slots[i], gs)
    BY <1>1
  <2>1. /\ frames[f].prev < f /\ frames[f].context < f
        /\ frames[f].context # NoFrame => HasVariables(frames[frames[f].context])
    BY DEF Linked
  <2>2. frames[f].context \in 0..Len(frames)
    BY FrameFacts
  <2>3. frames[f].context # NoFrame => Kept(frames[f].context)
    BY <1>2 DEF Kept
  <2>4. gs[f].prev < f /\ gs[f].context < f
    BY <2>1, <1>1 DEF NoFrame
  <2>5. \A i \in 1..Len(gs[f].slots) : ValueOk(gs[f].slots[i], gs)
    BY <1>1, <1>6
  <2> QED
    BY <2>1, <2>2, <2>3, <2>4, <2>5, <1>1, <1>5 DEF NoFrame
<1>8. \A f \in Stack(gs, caller) : (gs[f].prev = NoFrame => f = 1) /\ HasVariables(gs[f])
  <2> SUFFICES ASSUME NEW f \in Stack(frames, caller)
               PROVE  (gs[f].prev = NoFrame => f = 1) /\ HasVariables(gs[f])
    BY <1>4
  <2>1. f \in Callers /\ f \in 1..Len(frames) /\ f < left
    BY <1>3
  <2>2. f \notin Leaves(left)
    BY <2>1, <1>3 DEF Leaves
  <2> QED
    BY <2>1, <2>2, <1>1, <1>2
<1>9. \A f \in (1..Len(gs)) \ Stack(gs, caller) : gs[f].prev # NoFrame => f \in rep
  <2> SUFFICES ASSUME NEW f \in 1..Len(frames), f \notin Stack(frames, caller),
                      gs[f].prev # NoFrame
               PROVE  f \in rep
    BY <1>1, <1>4
  <2>1. f \notin Leaves(left)
    BY <1>1
  <2>2. f \notin Callers
    BY <2>1, <1>3 DEF Leaves
  <2> QED
    BY <2>1, <2>2, <1>1, <1>2
<1>10. gs[1].method = Bootstrap /\ caller \in 1..Len(gs)
  BY <1>1, <1>2, <1>3
<1> QED
  BY <1>1, <1>2, <1>4, <1>6, <1>7, <1>8, <1>9, <1>10 DEF Linked, Left

\* The caller has the operands of the call that ends.
LEMMA PopCounted ==
  ASSUME NEW rep, Linked(frames, frame, rep), NEW m, NEW tight,
         Counted(frames, frame, m, tight),
         NEW left \in Callers, frames[left].prev # NoFrame,
         NEW gs, Left(left, gs)
  PROVE  Counted(gs, frames[left].prev, NumArgs[frames[left].method], tight)
<1> DEFINE caller == frames[left].prev
<1>0. Callers = Stack(frames, frame)
  BY DEF Callers, Stack, Prevs
<1>1. /\ Stack(frames, caller) = {f \in Callers : f < left}
      /\ caller \in Callers /\ caller < left /\ Callers \subseteq 1..Len(frames)
  BY <1>0, StackBelow, StackFacts
<1>2. Stack(gs, caller) = {f \in Callers : f < left}
  BY <1>1 DEF Left
<1>3. \A f \in 1..Len(frames) : f < left => gs[f] = frames[f]
  BY <1>1 DEF Left, Leaves
<1>4. \A g \in Callers : g < left /\ frames[g].prev # NoFrame =>
          frames[g].prev \in 1..Len(frames) /\ frames[g].prev < left
  BY <1>1, FrameFacts DEF NoFrame
<1>5. \A g \in Stack(gs, caller) :
         /\ Roomy(gs[g])
         /\ gs[g].prev # NoFrame => Fits(gs[gs[g].prev], NumArgs[gs[g].method], tight)
  BY <1>0, <1>1, <1>2, <1>3, <1>4 DEF Counted
<1>6. Fits(gs[caller], NumArgs[frames[left].method], tight)
  BY <1>0, <1>1, <1>3 DEF Counted
<1> QED
  BY <1>5, <1>6 DEF Counted

-----------------------------------------------------------------------------
(* Operands.                                                                *)

OkSlots(s, fs) == s \in Seq(Values) /\ \A i \in 1..Len(s) : ValueOk(s[i], fs)

LEMMA PlainOk ==
  ASSUME NEW fs, Len(fs) \in Nat
  PROVE  ValueOk(Plain, fs)
  BY ValueFacts DEF ValueOk, NoFrame

LEMMA FillOk ==
  ASSUME NEW fs, Len(fs) \in Nat, NEW n \in Nat
  PROVE  OkSlots(Fill(n), fs) /\ Len(Fill(n)) = n
<1>1. Fill(n) \in Seq(Values) /\ Len(Fill(n)) = n /\ \A i \in 1..n : Fill(n)[i] = Plain
  BY ValueFacts DEF Fill
<1> QED
  BY <1>1, PlainOk DEF OkSlots

LEMMA SubSeqOk ==
  ASSUME NEW fs, NEW s, OkSlots(s, fs), NEW m \in 1..(Len(s) + 1), NEW n \in 0..Len(s)
  PROVE  /\ OkSlots(SubSeq(s, m, n), fs)
         /\ Len(SubSeq(s, m, n)) = IF m <= n THEN n - m + 1 ELSE 0
<1>1. s \in Seq(Values) /\ Len(s) \in Nat
  BY DEF OkSlots
<1>2. /\ SubSeq(s, m, n) \in Seq(Values)
      /\ Len(SubSeq(s, m, n)) = IF m <= n THEN n - m + 1 ELSE 0
      /\ \A i \in 1..Len(SubSeq(s, m, n)) : SubSeq(s, m, n)[i] = s[m + i - 1]
  BY <1>1
<1>3. \A i \in 1..Len(SubSeq(s, m, n)) : m + i - 1 \in 1..Len(s)
  BY <1>1, <1>2
<1> QED
  BY <1>2, <1>3 DEF OkSlots

LEMMA DropOk ==
  ASSUME NEW fs, NEW s, OkSlots(s, fs), NEW n \in 0..Len(s)
  PROVE  OkSlots(Drop(s, n), fs) /\ Len(Drop(s, n)) = Len(s) - n
<1>1. Len(s) \in Nat
  BY DEF OkSlots
<1>2. 1 \in 1..(Len(s) + 1) /\ Len(s) - n \in 0..Len(s)
  BY <1>1
<1> QED
  BY <1>1, <1>2, SubSeqOk DEF Drop

LEMMA ConcatOk ==
  ASSUME NEW fs, NEW s, OkSlots(s, fs), NEW t, OkSlots(t, fs)
  PROVE  OkSlots(s \o t, fs) /\ Len(s \o t) = Len(s) + Len(t)
<1>1. s \in Seq(Values) /\ Len(s) \in Nat /\ t \in Seq(Values) /\ Len(t) \in Nat
  BY DEF OkSlots
<1>2. s \o t \in Seq(Values) /\ Len(s \o t) = Len(s) + Len(t)
  BY <1>1
<1>3. \A i \in 1..Len(s \o t) : (s \o t)[i] = IF i <= Len(s) THEN s[i] ELSE t[i - Len(s)]
  BY <1>1
<1>4. ASSUME NEW i \in 1..Len(s \o t)
      PROVE  ValueOk((s \o t)[i], fs)
  <2>1. CASE i <= Len(s)
    BY <2>1, <1>1, <1>2, <1>3 DEF OkSlots
  <2>2. CASE i > Len(s)
    <3>1. i - Len(s) \in 1..Len(t)
      BY <2>2, <1>1, <1>2
    <3> QED
      BY <3>1, <2>2, <1>1, <1>2, <1>3 DEF OkSlots
  <2> QED
    BY <2>1, <2>2, <1>1, <1>2
<1> QED
  BY <1>2, <1>4 DEF OkSlots

LEMMA AppendOk ==
  ASSUME NEW fs, NEW s, OkSlots(s, fs), NEW v, ValueOk(v, fs)
  PROVE  /\ OkSlots(Append(s, v), fs) /\ Len(Append(s, v)) = Len(s) + 1
         /\ Append(s, v)[Len(s) + 1] = v
<1>1. s \in Seq(Values) /\ Len(s) \in Nat /\ v \in Values
  BY DEF OkSlots, ValueOk
<1>2. Append(s, v) \in Seq(Values) /\ Len(Append(s, v)) = Len(s) + 1
  BY <1>1
<1>3. \A i \in 1..(Len(s) + 1) : Append(s, v)[i] = IF i <= Len(s) THEN s[i] ELSE v
  BY <1>1
<1> QED
  BY <1>1, <1>2, <1>3 DEF OkSlots

-----------------------------------------------------------------------------
(* A frame that runs.                                                       *)

Tight == ~unguarded /\ ~TwoArgumentBlock

LEMMA Running ==
  ASSUME FramesInv
  PROVE  /\ Callers = Stack(frames, frame) /\ frame \in Callers
         /\ frame \in 1..Len(frames) /\ Len(frames) \in Nat /\ DOMAIN frames = 1..Len(frames)
         /\ cur \in FrameType /\ cur.method \in Code /\ cur.depth \in Nat /\ cur.size \in Nat
         /\ cur.ip \in Nat /\ Len(cur.slots) \in Nat
         /\ OkSlots(cur.slots, frames) /\ HasVariables(cur)
         /\ \A n \in 0..(Len(cur.slots) - 1) : ValueOk(Element(n), frames)
         /\ cur.method # Bootstrap => cur.prev # NoFrame /\ frame # 1
         /\ outcome = "run" => /\ Counted(frames, frame, 1, Tight) /\ Fits(cur, 1, Tight)
                               /\ Roomy(cur)
<1>0. Linked(frames, frame, replaced)
  BY DEF FramesInv
<1>1. /\ frame \in 1..Len(frames) /\ Len(frames) \in Nat /\ DOMAIN frames = 1..Len(frames)
      /\ frames[1].method = Bootstrap
  BY <1>0 DEF Linked
<1>2. Callers = Stack(frames, frame)
  BY DEF Callers, Stack, Prevs
<1>3. /\ cur \in FrameType /\ cur.method \in Code /\ cur.depth \in Nat /\ cur.size \in Nat
      /\ cur.ip \in Nat /\ cur.slots \in Seq(Values) /\ Len(cur.slots) \in Nat
  BY <1>0, <1>1, FrameFacts DEF cur
<1>4. OkSlots(cur.slots, frames)
  BY <1>0, <1>1, <1>3 DEF Linked, OkSlots, cur
<1>5. frame \in Callers /\ HasVariables(cur)
  BY <1>0, <1>2, StackFacts DEF Linked, cur
<1>6. cur.method # Bootstrap => cur.prev # NoFrame /\ frame # 1
  BY <1>0, <1>1, <1>2, <1>5, StackFacts DEF cur
<1>7. \A n \in 0..(Len(cur.slots) - 1) : ValueOk(Element(n), frames)
  BY <1>3, <1>4 DEF OkSlots, Element
<1>8. outcome = "run" => /\ Counted(frames, frame, 1, Tight) /\ Fits(cur, 1, Tight)
                         /\ Roomy(cur)
  BY <1>2, <1>5 DEF FramesInv, Tight, Counted, cur
<1> QED
  BY <1>1, <1>2, <1>3, <1>4, <1>5, <1>6, <1>7, <1>8

LEMMA RunningCounts ==
  ASSUME FramesInv, outcome = "run"
  PROVE  /\ cur.depth \in Nat /\ MaxStack[cur.method] \in Nat /\ cur.depth <= MaxStack[cur.method]
         /\ Base(cur.method) \in Nat /\ Base(cur.method) >= 1
         /\ cur.size \in Nat /\ cur.size >= Base(cur.method) + MaxStack[cur.method]
         /\ Len(cur.slots) \in Nat /\ OkSlots(cur.slots, frames)
         /\ Len(cur.slots) >= Base(cur.method) + cur.depth
         /\ Tight => Len(cur.slots) <= Base(cur.method) + cur.depth
<1>1. /\ cur.depth \in Nat /\ cur.size \in Nat /\ Len(cur.slots) \in Nat /\ cur.method \in Code
      /\ OkSlots(cur.slots, frames) /\ Fits(cur, 1, Tight) /\ Roomy(cur)
  BY Running
<1>2. /\ MaxStack[cur.method] \in Nat /\ Base(cur.method) \in Nat /\ Base(cur.method) >= 1
  BY <1>1, CodeFacts
<1>3. /\ Len(cur.slots) >= Base(cur.method) + cur.depth - 1 + 1
      /\ Tight => Len(cur.slots) <= Base(cur.method) + cur.depth - 1 + 1
  BY <1>1 DEF Fits
<1> QED
  BY <1>1, <1>2, <1>3 DEF Roomy

\* Frame r is frame c but for the next bytecode and the operands.
Changed(c, ip, slots, depth, r) == r = [c EXCEPT !.ip = ip, !.slots = slots, !.depth = depth]

LEMMA ChangedFrame ==
  ASSUME NEW c \in FrameType, NEW ip \in Nat, NEW slots \in Seq(Values), NEW depth \in Nat,
         NEW r, Changed(c, ip, slots, depth, r)
  PROVE  /\ r \in FrameType /\ r.slots = slots /\ r.depth = depth
         /\ r.method = c.method /\ r.size = c.size /\ r.prev = c.prev /\ r.context = c.context
<1>1. c = [method |-> c.method, ip |-> c.ip, prev |-> c.prev, context |-> c.context,
           slots |-> c.slots, size |-> c.size, depth |-> c.depth]
  BY DEF FrameType
<1>2. r = [method |-> c.method, ip |-> ip, prev |-> c.prev, context |-> c.context,
           slots |-> slots, size |-> c.size, depth |-> depth]
  BY <1>1 DEF Changed
<1> QED
  BY <1>2 DEF FrameType

LEMMA AfterFields ==
  ASSUME cur \in FrameType, NEW slots \in Seq(Values), NEW depth \in Nat
  PROVE  /\ After(slots, depth) \in FrameType
         /\ After(slots, depth).slots = slots /\ After(slots, depth).depth = depth
         /\ After(slots, depth).method = cur.method /\ After(slots, depth).size = cur.size
         /\ After(slots, depth).prev = cur.prev /\ After(slots, depth).context = cur.context
<1>1. Changed(cur, cur.ip + 1, slots, depth, After(slots, depth))
  BY DEF After, Changed
<1>2. cur.ip + 1 \in Nat
  BY DEF FrameType
<1> QED
  BY <1>1, <1>2, ChangedFrame

LEMMA StillRuns ==
  ASSUME FramesInv, outcome = "run", outcome' = "run", unguarded' \in BOOLEAN,
         executed' = executed + 1,
         Linked(frames', frame', replaced'),
         Counted(frames', frame', 1, ~unguarded' /\ ~TwoArgumentBlock)
  PROVE  FramesInv'
  BY DEF FramesInv, FailuresExplained

\* The interpreter stops.
LEMMA Stopped ==
  ASSUME FramesInv, outcome = "run", outcome' \in {"halted", "error", "lost", "misread"},
         unguarded' \in BOOLEAN, executed' = executed + 1,
         Linked(frames', frame', replaced'),
         outcome' = "error" => ~(~unguarded' /\ ~TwoArgumentBlock),
         outcome' = "lost" => replaced' # {}
  PROVE  FramesInv'
  BY DEF FramesInv, FailuresExplained, TwoArgumentBlock

\* The running frame gets other operands.
LEMMA RunningChanges ==
  ASSUME FramesInv, outcome = "run",
         NEW r \in FrameType, OkSlots(r.slots, frames), r.method = cur.method,
         r.size = cur.size, r.prev = cur.prev, r.context = cur.context,
         r.depth <= MaxStack[cur.method], HasVariables(r),
         NEW n \in Nat, Fits(r, n, Tight),
         NEW gs, Updated(frames, frame, r, gs)
  PROVE  /\ Linked(gs, frame, replaced) /\ Counted(gs, frame, n, Tight)
         /\ Stack(gs, frame) = Callers /\ Len(gs) = Len(frames) /\ gs[frame] = r
         /\ \A v : ValueOk(v, frames) => ValueOk(v, gs)
<1>0. Linked(frames, frame, replaced) /\ frame \in 1..Len(frames) /\ DOMAIN frames = 1..Len(frames)
  BY Running DEF FramesInv
<1>1. r.method = frames[frame].method /\ r.prev = frames[frame].prev
      /\ r.context = frames[frame].context
  BY DEF cur
<1>2. Roomy(r)
  BY Running DEF Roomy
<1>3. \A i \in 1..Len(r.slots) : ValueOk(r.slots[i], frames)
  BY DEF OkSlots
<1>4. Linked(gs, frame, replaced) /\ Stack(gs, frame) = Stack(frames, frame) /\ Len(gs) = Len(frames)
  BY <1>0, <1>1, <1>3, UpdateLinked
<1>5. gs = [frames EXCEPT ![frame] = r]
  BY DEF Updated
<1>6. Counted(gs, frame, n, Tight)
  <2>1. Counted(frames, frame, 1, Tight)
    BY Running
  <2> QED
    BY <2>1, <1>0, <1>1, <1>2, <1>4, <1>5, UpdateCounted
<1>7. \A v : ValueOk(v, frames) => ValueOk(v, gs)
  <2>1. \A f \in 1..Len(frames) : HasVariables(frames[f]) => HasVariables(gs[f])
    BY <1>0, <1>5
  <2> SUFFICES ASSUME NEW v, ValueOk(v, frames) PROVE ValueOk(v, gs)
    OBVIOUS
  <2>2. v \in Values /\ v.home <= Len(frames) /\ (v.home # NoFrame => HasVariables(frames[v.home]))
    BY DEF ValueOk
  <2>3. v.home # NoFrame => v.home \in 1..Len(frames)
    BY <2>2, <1>0, ValueFacts DEF NoFrame
  <2> QED
    BY <2>1, <2>2, <2>3, <1>4 DEF ValueOk
<1>8. gs[frame] = r
  BY <1>0, <1>5
<1> QED
  BY <1>4, <1>6, <1>7, <1>8, Running

\* The running frame after a bytecode.
LEMMA AfterKeeps ==
  ASSUME FramesInv, outcome = "run", NEW slots, OkSlots(slots, frames), NEW depth \in Nat,
         depth <= MaxStack[cur.method], NEW n \in Nat,
         Len(slots) >= Base(cur.method), Fits(After(slots, depth), n, Tight),
         NEW gs, gs = [frames EXCEPT ![frame] = After(slots, depth)]
  PROVE  /\ Linked(gs, frame, replaced) /\ Counted(gs, frame, n, Tight)
         /\ Stack(gs, frame) = Callers /\ Len(gs) = Len(frames)
         /\ gs[frame] = After(slots, depth)
         /\ \A v : ValueOk(v, frames) => ValueOk(v, gs)
<1> DEFINE r == After(slots, depth)
<1>1. /\ r \in FrameType /\ r.slots = slots /\ r.depth = depth /\ r.method = cur.method
      /\ r.size = cur.size /\ r.prev = cur.prev /\ r.context = cur.context
  BY AfterFields, Running DEF OkSlots
<1>2. Updated(frames, frame, r, gs) /\ Fits(r, n, Tight)
  BY DEF Updated
<1> HIDE DEF r
<1>3. HasVariables(r)
  BY <1>1 DEF HasVariables
<1>4. /\ Linked(gs, frame, replaced) /\ Counted(gs, frame, n, Tight)
      /\ Stack(gs, frame) = Callers /\ Len(gs) = Len(frames) /\ gs[frame] = r
      /\ \A v : ValueOk(v, frames) => ValueOk(v, gs)
  BY <1>1, <1>2, <1>3, RunningChanges
<1> QED
  BY <1>4 DEF r

LEMMA LocalKeeps ==
  ASSUME FramesInv, outcome = "run", NEW slots, OkSlots(slots, frames), NEW depth \in Nat,
         depth <= MaxStack[cur.method],
         Len(slots) >= Base(cur.method) + depth,
         Tight => Len(slots) <= Base(cur.method) + depth,
         Local(slots, depth), executed' = executed + 1
  PROVE  FramesInv'
<1>0. Len(slots) \in Nat /\ Base(cur.method) \in Nat /\ MaxStack[cur.method] \in Nat
      /\ cur.size \in Nat /\ unguarded' = unguarded /\ unguarded \in BOOLEAN
  BY Running, CodeFacts DEF OkSlots, Local, FramesInv
<1>1. CASE Len(slots) > cur.size
  <2>1. ~Tight
    BY <1>0, <1>1, Running DEF Roomy
  <2>2. /\ outcome' = "error" /\ frames' = frames /\ frame' = frame /\ replaced' = replaced
    BY <1>1 DEF Local, Fail
  <2> QED
    BY <1>0, <2>1, <2>2, Stopped DEF FramesInv, Tight
<1>2. CASE ~(Len(slots) > cur.size)
  <2>1. /\ frames' = [frames EXCEPT ![frame] = After(slots, depth)]
        /\ frame' = frame /\ outcome' = outcome /\ replaced' = replaced
    BY <1>2 DEF Local
  <2>2. After(slots, depth).slots = slots /\ After(slots, depth).depth = depth
        /\ After(slots, depth).method = cur.method
    BY AfterFields, Running DEF OkSlots
  <2>3. Fits(After(slots, depth), 1, Tight) /\ Len(slots) >= Base(cur.method)
    BY <1>0, <2>2 DEF Fits
  <2>4. Linked(frames', frame, replaced) /\ Counted(frames', frame, 1, Tight)
    BY <2>1, <2>3, AfterKeeps
  <2> QED
    BY <1>0, <2>1, <2>4, StillRuns DEF Tight
<1> QED
  BY <1>1, <1>2

LEMMA PushKeeps ==
  ASSUME FramesInv, NEW v, ValueOk(v, frames), Push(v), executed' = executed + 1
  PROVE  FramesInv'
<1> DEFINE slots == Append(cur.slots, v)
<1>1. /\ outcome = "run" /\ cur.depth < MaxStack[cur.method] /\ Local(slots, cur.depth + 1)
  BY DEF Push, Fetch
<1>2. /\ OkSlots(cur.slots, frames) /\ cur.depth \in Nat /\ MaxStack[cur.method] \in Nat
      /\ Base(cur.method) \in Nat /\ Len(cur.slots) \in Nat
      /\ Len(cur.slots) >= Base(cur.method) + cur.depth
      /\ Tight => Len(cur.slots) <= Base(cur.method) + cur.depth
  BY <1>1, RunningCounts
<1>3. OkSlots(slots, frames) /\ Len(slots) = Len(cur.slots) + 1
  BY <1>2, AppendOk
<1> HIDE DEF slots
<1>4. /\ cur.depth + 1 \in Nat /\ cur.depth + 1 <= MaxStack[cur.method]
      /\ Len(slots) >= Base(cur.method) + (cur.depth + 1)
      /\ Tight => Len(slots) <= Base(cur.method) + (cur.depth + 1)
  BY <1>1, <1>2, <1>3
<1> QED
  BY <1>1, <1>3, <1>4, LocalKeeps

LEMMA PushesKeep ==
  ASSUME FramesInv, Dup \/ PushObject \/ PushBlock \/ PushVariable, executed' = executed + 1
  PROVE  FramesInv'
<1>0. /\ frame \in 1..Len(frames) /\ Len(frames) \in Nat /\ Len(cur.slots) >= 1
      /\ \A n \in 0..(Len(cur.slots) - 1) : ValueOk(Element(n), frames)
      /\ frame \in Stack(frames, frame) /\ HasVariables(cur)
  BY Running, CodeFacts DEF HasVariables
<1>1. Linked(frames, frame, replaced)
  BY DEF FramesInv
<1>2. CASE Dup
  <2>1. Len(cur.slots) \in Nat
    BY Running
  <2> QED
    BY <1>0, <1>2, <2>1, PushKeeps DEF Dup
<1>3. CASE PushObject
  BY <1>0, <1>3, PlainOk, PushKeeps DEF PushObject
<1>4. CASE PushBlock
  <2>1. PICK b \in Blocks : Push(BlockOf(b, frame))
    BY <1>4 DEF PushBlock
  <2>2. frame \in 1..MaxFrames
    BY <1>0, <1>1, CodeFacts DEF Linked
  <2>3. BlockOf(b, frame) \in Values /\ BlockOf(b, frame).home = frame
    BY <2>2 DEF BlockOf, Values
  <2>4. ValueOk(BlockOf(b, frame), frames)
    BY <1>0, <2>3 DEF ValueOk, cur
  <2> QED
    BY <2>1, <2>4, PushKeeps
<1>5. CASE PushVariable
  <2>1. PICK owner \in ContextLevels(frame) :
          \E i \in 1..Base(frames[owner].method) : Push(frames[owner].slots[i])
    BY <1>5 DEF PushVariable
  <2>2. PICK i \in 1..Base(frames[owner].method) : Push(frames[owner].slots[i])
    BY <2>1
  <2>3. owner \in Along(frame, Contexts(frames))
    BY DEF ContextLevels, Contexts
  <2>4. owner \in 1..Len(frames) /\ HasVariables(frames[owner])
    BY <1>0, <1>1, <2>3, ContextFacts
  <2>5. Base(frames[owner].method) \in Nat /\ Len(frames[owner].slots) \in Nat
    BY <1>1, <2>4, FrameFacts, CodeFacts
  <2>6. i \in 1..Len(frames[owner].slots)
    BY <2>4, <2>5 DEF HasVariables
  <2>7. ValueOk(frames[owner].slots[i], frames)
    BY <1>1, <2>4, <2>6 DEF Linked
  <2> QED
    BY <2>2, <2>7, PushKeeps
<1> QED
  BY <1>2, <1>3, <1>4, <1>5

LEMMA PopKeepsInv ==
  ASSUME FramesInv, Pop, executed' = executed + 1
  PROVE  FramesInv'
<1> DEFINE slots == Drop(cur.slots, 1)
<1>1. outcome = "run" /\ cur.depth > 0 /\ Local(slots, cur.depth - 1)
  BY DEF Pop, Fetch
<1>2. /\ OkSlots(cur.slots, frames) /\ cur.depth \in Nat /\ MaxStack[cur.method] \in Nat
      /\ Base(cur.method) \in Nat /\ Len(cur.slots) \in Nat /\ cur.depth <= MaxStack[cur.method]
      /\ Len(cur.slots) >= Base(cur.method) + cur.depth
      /\ Tight => Len(cur.slots) <= Base(cur.method) + cur.depth
  BY <1>1, RunningCounts
<1>3. OkSlots(slots, frames) /\ Len(slots) = Len(cur.slots) - 1
  <2>1. 1 \in 0..Len(cur.slots)
    BY <1>1, <1>2
  <2> QED
    BY <2>1, <1>2, DropOk
<1> HIDE DEF slots
<1>4. /\ cur.depth - 1 \in Nat /\ cur.depth - 1 <= MaxStack[cur.method]
      /\ Len(slots) >= Base(cur.method) + (cur.depth - 1)
      /\ Tight => Len(slots) <= Base(cur.method) + (cur.depth - 1)
  BY <1>1, <1>2, <1>3
<1> QED
  BY <1>1, <1>3, <1>4, LocalKeeps

\* Every primitive leaves one operand for those of its send.
LEMMA PrimitiveFacts ==
  \A p \in PrimitiveEffects : /\ p[1] \in 1..3 /\ p[2] \in 0..p[1] /\ p[3] \in 0..1
                              /\ p[2] - p[3] = p[1] - 1
  BY DEF PrimitiveEffects, ObjectPrimitives, StringPrimitives, ArrayPrimitives,
         SymbolPrimitives, ClassPrimitives, SystemPrimitives, ActorPrimitives, Answering

LEMMA PrimitivesKeep ==
  ASSUME FramesInv, CallPrimitive, executed' = executed + 1
  PROVE  FramesInv'
<1>0. PICK p \in PrimitiveEffects \cup {NoRoutine} :
        /\ Sends(p[1])
        /\ p = NoRoutine => Element(2).code \in Blocks /\ NumArgs[Element(2).code] = 3
        /\ Local(Drop(cur.slots, p[2]) \o Fill(p[3]), cur.depth - p[1] + 1)
  BY DEF CallPrimitive
<1> DEFINE slots == Drop(cur.slots, p[2]) \o Fill(p[3])
           depth == cur.depth - p[1] + 1
<1>1. outcome = "run" /\ cur.depth >= p[1]
  BY <1>0 DEF Sends, Fetch
<1>2. /\ p[1] \in 1..3 /\ p[2] \in 0..p[1] /\ p[3] \in 0..1
      /\ p[2] - p[3] <= p[1] - 1
      /\ Tight => p[2] - p[3] = p[1] - 1
  <2>1. CASE p \in PrimitiveEffects
    BY <2>1, PrimitiveFacts
  <2>2. CASE p = NoRoutine
    <3>1. ~Tight
      BY <2>2, <1>0 DEF Tight, TwoArgumentBlock
    <3>2. p[1] = 3 /\ p[2] = 0 /\ p[3] = 0
      BY <2>2 DEF NoRoutine
    <3> QED
      BY <3>1, <3>2
  <2> QED
    BY <2>1, <2>2, <1>0
<1>3. /\ OkSlots(cur.slots, frames) /\ cur.depth \in Nat /\ MaxStack[cur.method] \in Nat
      /\ Base(cur.method) \in Nat /\ Len(cur.slots) \in Nat /\ cur.depth <= MaxStack[cur.method]
      /\ Len(cur.slots) >= Base(cur.method) + cur.depth
      /\ Tight => Len(cur.slots) <= Base(cur.method) + cur.depth
  BY <1>1, RunningCounts
<1>4. /\ OkSlots(Drop(cur.slots, p[2]), frames)
      /\ Len(Drop(cur.slots, p[2])) = Len(cur.slots) - p[2]
  <2>1. p[2] \in 0..Len(cur.slots)
    BY <1>1, <1>2, <1>3
  <2> QED
    BY <2>1, <1>3, DropOk
<1>5. OkSlots(Fill(p[3]), frames) /\ Len(Fill(p[3])) = p[3]
  <2>1. p[3] \in Nat /\ Len(frames) \in Nat
    BY <1>2, Running
  <2> QED
    BY <2>1, FillOk
<1>6. OkSlots(slots, frames) /\ Len(slots) = Len(cur.slots) - p[2] + p[3]
  BY <1>4, <1>5, ConcatOk
<1>7. Local(slots, depth)
  BY <1>0
<1> DEFINE operands == p[1]
           popped == p[2]
           pushed == p[3]
<1>a. /\ operands \in 1..3 /\ popped \in 0..operands /\ pushed \in 0..1
      /\ popped - pushed <= operands - 1 /\ (Tight => popped - pushed = operands - 1)
      /\ Len(slots) = Len(cur.slots) - popped + pushed /\ cur.depth >= operands
      /\ depth = cur.depth - operands + 1
  BY <1>1, <1>2, <1>6
<1> HIDE DEF slots, depth, operands, popped, pushed
<1>8. /\ depth \in Nat /\ depth <= MaxStack[cur.method] /\ Len(slots) >= Base(cur.method) + depth
      /\ Tight => Len(slots) <= Base(cur.method) + depth
  <2> DEFINE l == Len(cur.slots)
             b == Base(cur.method)
             d == cur.depth
             m == MaxStack[cur.method]
             k == Len(slots)
  <2>1. /\ l \in Nat /\ b \in Nat /\ d \in Nat /\ m \in Nat
        /\ d <= m /\ l >= b + d /\ (Tight => l <= b + d)
    BY <1>3
  <2>2. /\ operands \in 1..3 /\ popped \in 0..operands /\ pushed \in 0..1
        /\ popped - pushed <= operands - 1 /\ (Tight => popped - pushed = operands - 1)
        /\ k = l - popped + pushed /\ d >= operands /\ depth = d - operands + 1
    BY <1>a
  <2> HIDE DEF l, b, d, m, k
  <2>3. depth \in Nat /\ depth <= m
    BY <2>1, <2>2
  <2>4. k >= b + depth
    BY <2>1, <2>2
  <2>5. Tight => k <= b + depth
    BY <2>1, <2>2
  <2> QED
    BY <2>3, <2>4, <2>5 DEF b, m, k
<1> QED
  BY <1>1, <1>6, <1>7, <1>8, LocalKeeps

LEMMA RestartKeeps ==
  ASSUME FramesInv, Restart, executed' = executed + 1
  PROVE  FramesInv'
<1> DEFINE slots == SubSeq(cur.slots, 1, Base(cur.method))
           r == [cur EXCEPT !.ip = 0, !.slots = slots, !.depth = 0]
<1>1. /\ outcome = "run" /\ frames' = [frames EXCEPT ![frame] = r]
      /\ frame' = frame /\ outcome' = outcome /\ replaced' = replaced /\ unguarded' = unguarded
  BY DEF Restart, Sends, Fetch
<1>2. /\ OkSlots(cur.slots, frames) /\ MaxStack[cur.method] \in Nat
      /\ Base(cur.method) \in Nat /\ Base(cur.method) >= 1 /\ Len(cur.slots) \in Nat
      /\ Len(cur.slots) >= Base(cur.method) + cur.depth /\ cur.depth \in Nat
  BY <1>1, RunningCounts
<1>3. OkSlots(slots, frames) /\ Len(slots) = Base(cur.method)
  <2>1. 1 \in 1..(Len(cur.slots) + 1) /\ Base(cur.method) \in 0..Len(cur.slots)
    BY <1>2
  <2>2. OkSlots(slots, frames)
        /\ Len(slots) = IF 1 <= Base(cur.method) THEN Base(cur.method) - 1 + 1 ELSE 0
    BY <2>1, <1>2, SubSeqOk
  <2> QED
    BY <2>2, <1>2
<1>4. Updated(frames, frame, r, frames')
  BY <1>1 DEF Updated
<1> HIDE DEF slots
<1>6. /\ r \in FrameType /\ r.slots = slots /\ r.depth = 0 /\ r.method = cur.method
      /\ r.size = cur.size /\ r.prev = cur.prev /\ r.context = cur.context
  <2>1. cur \in FrameType /\ slots \in Seq(Values) /\ 0 \in Nat
    BY <1>3, Running DEF OkSlots
  <2>2. Changed(cur, 0, slots, 0, r)
    BY DEF Changed
  <2> HIDE DEF r
  <2> QED
    BY <2>1, <2>2, ChangedFrame
<1> HIDE DEF r
<1>7. HasVariables(r) /\ Fits(r, 1, Tight) /\ r.depth <= MaxStack[cur.method]
  BY <1>2, <1>3, <1>6 DEF HasVariables, Fits
<1>8. Linked(frames', frame, replaced) /\ Counted(frames', frame, 1, Tight)
  <2>1. OkSlots(r.slots, frames)
    BY <1>3, <1>6
  <2> QED
    BY <2>1, <1>1, <1>4, <1>6, <1>7, RunningChanges
<1> QED
  BY <1>1, <1>8, StillRuns DEF FramesInv, Tight

\* What is counted are lengths.
LEMMA SameCounts ==
  ASSUME NEW fs, NEW k, NEW rep, Linked(fs, k, rep), NEW n, NEW tight, Counted(fs, k, n, tight),
         NEW gs, Stack(gs, k) = Stack(fs, k),
         \A f \in 1..Len(fs) : /\ gs[f].method = fs[f].method /\ gs[f].prev = fs[f].prev
                               /\ gs[f].depth = fs[f].depth /\ gs[f].size = fs[f].size
                               /\ Len(gs[f].slots) = Len(fs[f].slots)
  PROVE  Counted(gs, k, n, tight)
<1>1. \A f \in 1..Len(fs) : /\ Roomy(fs[f]) => Roomy(gs[f])
                            /\ \A m : Fits(fs[f], m, tight) => Fits(gs[f], m, tight)
  BY DEF Roomy, Fits
<1>2. \A g \in Stack(fs, k) : /\ g \in 1..Len(fs)
                              /\ fs[g].prev # NoFrame => fs[g].prev \in 1..Len(fs)
  BY StackFacts
<1>3. k \in 1..Len(fs)
  BY DEF Linked
<1> QED
  BY <1>1, <1>2, <1>3 DEF Counted

LEMMA PopVariableKeeps ==
  ASSUME FramesInv, PopVariable, executed' = executed + 1
  PROVE  FramesInv'
<1> DEFINE slots == Drop(cur.slots, 1)
           gs == [frames EXCEPT ![frame] = After(slots, cur.depth - 1)]
           v == Element(0)
<1>a. PICK owner \in ContextLevels(frame) : \E i \in 2..Base(frames[owner].method) :
        frames' = [gs EXCEPT ![owner].slots[i] = v]
  BY DEF PopVariable
<1>0. PICK i \in 2..Base(frames[owner].method) :
        frames' = [gs EXCEPT ![owner].slots[i] = v]
  BY <1>a
<1>1. /\ outcome = "run" /\ cur.depth > 0
      /\ frame' = frame /\ outcome' = outcome /\ replaced' = replaced /\ unguarded' = unguarded
  BY DEF PopVariable, Fetch
<1>2. /\ OkSlots(cur.slots, frames) /\ cur.depth \in Nat /\ MaxStack[cur.method] \in Nat
      /\ Base(cur.method) \in Nat /\ Len(cur.slots) \in Nat /\ cur.depth <= MaxStack[cur.method]
      /\ Len(cur.slots) >= Base(cur.method) + cur.depth
      /\ Tight => Len(cur.slots) <= Base(cur.method) + cur.depth
  BY <1>1, RunningCounts
<1>3. OkSlots(slots, frames) /\ Len(slots) = Len(cur.slots) - 1
  <2>1. 1 \in 0..Len(cur.slots)
    BY <1>1, <1>2
  <2> QED
    BY <2>1, <1>2, DropOk
<1>4. ValueOk(v, frames)
  <2>1. 0 \in 0..(Len(cur.slots) - 1)
    BY <1>1, <1>2
  <2> QED
    BY <2>1, Running
<1> HIDE DEF slots, v
<1>5. /\ Linked(gs, frame, replaced) /\ Counted(gs, frame, 1, Tight)
      /\ Stack(gs, frame) = Callers /\ Len(gs) = Len(frames)
      /\ \A w : ValueOk(w, frames) => ValueOk(w, gs)
  <2>1. cur.depth - 1 \in Nat /\ cur.depth - 1 <= MaxStack[cur.method]
        /\ Len(slots) >= Base(cur.method)
    BY <1>1, <1>2, <1>3
  <2>2. /\ After(slots, cur.depth - 1).slots = slots
        /\ After(slots, cur.depth - 1).depth = cur.depth - 1
        /\ After(slots, cur.depth - 1).method = cur.method
    BY <1>3, <2>1, AfterFields, Running DEF OkSlots
  <2>3. Fits(After(slots, cur.depth - 1), 1, Tight)
    BY <1>1, <1>2, <1>3, <2>2 DEF Fits
  <2> DEFINE hs == gs
  <2>4. hs = [frames EXCEPT ![frame] = After(slots, cur.depth - 1)]
    OBVIOUS
  <2> HIDE DEF hs
  <2>5. /\ Linked(hs, frame, replaced) /\ Counted(hs, frame, 1, Tight)
        /\ Stack(hs, frame) = Callers /\ Len(hs) = Len(frames)
        /\ \A w : ValueOk(w, frames) => ValueOk(w, hs)
    BY <1>1, <1>3, <2>1, <2>3, <2>4, AfterKeeps
  <2> QED
    BY <2>5 DEF hs
<1>6. owner \in 1..Len(frames) /\ HasVariables(frames[owner])
  <2>1. frame \in Stack(frames, frame) /\ Linked(frames, frame, replaced)
    BY Running DEF FramesInv
  <2>2. owner \in Along(frame, Contexts(frames))
    BY DEF ContextLevels, Contexts
  <2> QED
    BY <2>1, <2>2, ContextFacts
<1> DEFINE s == gs[owner].slots
           r == [gs[owner] EXCEPT !.slots = [s EXCEPT ![i] = v]]
<1>7. /\ gs[owner] \in FrameType /\ gs[owner].method = frames[owner].method
      /\ HasVariables(gs[owner]) /\ s \in Seq(Values) /\ Len(s) \in Nat
      /\ gs[owner].method \in Code /\ frames \in Seq(FrameType)
  <2>1. owner \in 1..Len(gs)
    BY <1>5, <1>6
  <2>2. /\ gs[owner] \in FrameType /\ s \in Seq(Values) /\ Len(s) \in Nat
        /\ gs[owner].method \in Code
    BY <2>1, <1>5, FrameFacts
  <2>3. frames \in Seq(FrameType) /\ DOMAIN frames = 1..Len(frames)
    BY DEF FramesInv, Linked
  <2>4. CASE owner = frame
    <3>1. gs[owner] = After(slots, cur.depth - 1)
      BY <2>3, <2>4, <1>6
    <3>2. gs[owner].method = cur.method /\ gs[owner].slots = slots
      BY <3>1, <1>1, <1>2, <1>3, AfterFields, Running DEF OkSlots
    <3>3. Len(slots) >= Base(cur.method)
      BY <1>1, <1>2, <1>3
    <3> QED
      BY <2>2, <2>3, <2>4, <3>2, <3>3 DEF HasVariables, cur
  <2>5. CASE owner # frame
    <3>1. gs[owner] = frames[owner]
      BY <2>3, <2>5, <1>6
    <3> QED
      BY <2>2, <2>3, <3>1, <1>6
  <2> QED
    BY <2>4, <2>5
<1>8. frames' = [gs EXCEPT ![owner] = r]
  BY <1>0
<1> HIDE DEF gs
<1>9. i \in 1..Len(s)
  <2>1. Base(gs[owner].method) \in Nat
    BY <1>7, CodeFacts
  <2> QED
    BY <2>1, <1>7 DEF HasVariables
<1>10. ValueOk(v, gs) /\ v \in Values
  BY <1>4, <1>5 DEF ValueOk
<1> DEFINE t == [s EXCEPT ![i] = v]
<1>11. t \in Seq(Values) /\ Len(t) = Len(s) /\ \A j \in 1..Len(s) : t[j] = IF j = i THEN v ELSE s[j]
  BY <1>7, <1>9, <1>10
<1>12. r = [gs[owner] EXCEPT !.slots = t]
  OBVIOUS
<1> HIDE DEF t, r
<1>13. /\ r \in FrameType /\ r.slots = t /\ r.method = gs[owner].method
       /\ r.prev = gs[owner].prev /\ r.context = gs[owner].context
       /\ r.depth = gs[owner].depth /\ r.size = gs[owner].size
  <2>1. r = [method |-> gs[owner].method, ip |-> gs[owner].ip, prev |-> gs[owner].prev,
             context |-> gs[owner].context, slots |-> t, size |-> gs[owner].size,
             depth |-> gs[owner].depth]
    BY <1>7, <1>12 DEF FrameType
  <2> QED
    BY <2>1, <1>7, <1>11 DEF FrameType
<1>14. /\ HasVariables(r) /\ owner \in 1..Len(gs)
       /\ \A j \in 1..Len(r.slots) : ValueOk(r.slots[j], gs)
  <2>1. \A j \in 1..Len(s) : ValueOk(s[j], gs)
    BY <1>5, <1>6 DEF Linked
  <2> QED
    BY <2>1, <1>5, <1>6, <1>7, <1>10, <1>11, <1>13 DEF HasVariables
<1>15. /\ Linked(frames', frame, replaced) /\ Stack(frames', frame) = Stack(gs, frame)
  <2>1. Updated(gs, owner, r, frames')
    BY <1>8 DEF Updated
  <2> QED
    BY <2>1, <1>5, <1>13, <1>14, UpdateLinked
<1>16. Counted(frames', frame, 1, Tight)
  <2>1. DOMAIN gs = 1..Len(gs)
    BY <1>5 DEF Linked
  <2>2. \A f \in 1..Len(gs) :
           /\ frames'[f].method = gs[f].method /\ frames'[f].prev = gs[f].prev
           /\ frames'[f].depth = gs[f].depth /\ frames'[f].size = gs[f].size
           /\ Len(frames'[f].slots) = Len(gs[f].slots)
    BY <2>1, <1>8, <1>11, <1>13
  <2> QED
    BY <2>2, <1>5, <1>15, SameCounts
<1> QED
  BY <1>1, <1>15, <1>16, StillRuns DEF FramesInv, Tight

-----------------------------------------------------------------------------
(* Calls.                                                                   *)

\* The frames gs are fs with other slots in frame k.
Refilled(fs, k, slots, gs) == gs = [fs EXCEPT ![k].slots = slots]

\* The operands slots of frame k let it be given n values more than its depth says.
Receives(fs, k, slots, n, tight) ==
  /\ OkSlots(slots, fs) /\ n \in Nat /\ Len(slots) >= Base(fs[k].method)
  /\ Len(slots) >= Base(fs[k].method) + fs[k].depth - 1 + n
  /\ tight => Len(slots) <= Base(fs[k].method) + fs[k].depth - 1 + n

\* The running frame of fs gets other operands.
LEMMA TopChanges ==
  ASSUME NEW fs, NEW k, NEW rep, Linked(fs, k, rep), NEW m, NEW tight \in BOOLEAN,
         Counted(fs, k, m, tight), NEW slots, NEW n, Receives(fs, k, slots, n, tight),
         NEW gs, Refilled(fs, k, slots, gs)
  PROVE  /\ Linked(gs, k, rep) /\ Counted(gs, k, n, tight) /\ Len(gs) = Len(fs)
         /\ gs[k].slots = slots /\ gs[k].size = fs[k].size /\ gs[k].method = fs[k].method
         /\ Stack(gs, k) = Stack(fs, k) /\ \A f \in 1..Len(fs) : gs[f].prev = fs[f].prev
         /\ \A v : ValueOk(v, fs) => ValueOk(v, gs)
<1>a. k \in Stack(fs, k)
  BY StackFacts
<1>1. k \in 1..Len(fs) /\ fs \in Seq(FrameType) /\ DOMAIN fs = 1..Len(fs) /\ k \in Stack(fs, k)
  BY <1>a DEF Linked
<1>2. fs[k] \in FrameType /\ slots \in Seq(Values) /\ fs[k].ip \in Nat /\ fs[k].depth \in Nat
  BY <1>1, FrameFacts DEF OkSlots, Receives
<1> DEFINE r == [fs[k] EXCEPT !.slots = slots]
<1>3. /\ r \in FrameType /\ r.slots = slots /\ r.depth = fs[k].depth /\ r.method = fs[k].method
      /\ r.size = fs[k].size /\ r.prev = fs[k].prev /\ r.context = fs[k].context
  <2>1. r = [method |-> fs[k].method, ip |-> fs[k].ip, prev |-> fs[k].prev,
             context |-> fs[k].context, slots |-> slots, size |-> fs[k].size,
             depth |-> fs[k].depth]
    BY <1>2 DEF FrameType
  <2> QED
    BY <2>1, <1>2 DEF FrameType
<1>4. gs = [fs EXCEPT ![k] = r] /\ Updated(fs, k, r, gs)
  BY DEF Updated, Refilled
<1> HIDE DEF r
<1>5. Fits(r, n, tight) /\ HasVariables(r)
  BY <1>3 DEF Fits, HasVariables, Receives
<1>6. Roomy(r)
  BY <1>1, <1>3 DEF Roomy, Counted
<1>7. \A i \in 1..Len(r.slots) : ValueOk(r.slots[i], fs)
  BY <1>3 DEF OkSlots, Receives
<1>8. Linked(gs, k, rep) /\ Stack(gs, k) = Stack(fs, k) /\ Len(gs) = Len(fs)
  <2>1. /\ Linked(fs, k, rep) /\ k \in 1..Len(fs) /\ r \in FrameType /\ HasVariables(r)
        /\ r.method = fs[k].method /\ r.prev = fs[k].prev /\ r.context = fs[k].context
        /\ \A i \in 1..Len(r.slots) : ValueOk(r.slots[i], fs)
        /\ Updated(fs, k, r, gs)
    BY <1>1, <1>3, <1>4, <1>5, <1>7
  <2> QED
    BY ONLY <2>1, UpdateLinked
<1>9. Counted(gs, k, n, tight)
  <2>1. /\ r.method = fs[k].method /\ r.prev = fs[k].prev /\ gs = [fs EXCEPT ![k] = r]
        /\ Stack(gs, k) = Stack(fs, k)
    BY <1>3, <1>4, <1>8
  <2> QED
    BY <2>1, <1>5, <1>6, UpdateCounted
<1>10. gs[k] = r /\ \A f \in 1..Len(fs) : f # k => gs[f] = fs[f]
  BY <1>1, <1>4
<1>11. \A v : ValueOk(v, fs) => ValueOk(v, gs)
  <2>1. \A f \in 1..Len(fs) : HasVariables(fs[f]) => HasVariables(gs[f])
    BY <1>10, <1>5
  <2>2. Len(fs) \in Nat
    BY <1>1
  <2> QED
    BY <2>1, <2>2, <1>8, ValueFacts DEF ValueOk, NoFrame
<1>12. gs[k].slots = slots /\ gs[k].size = fs[k].size /\ gs[k].method = fs[k].method
  BY <1>3, <1>10
<1>13. \A f \in 1..Len(fs) : gs[f].prev = fs[f].prev
  BY <1>3, <1>10
<1> QED
  BY <1>8, <1>9, <1>11, <1>12, <1>13

\* A frame of a call has its arguments and its locals, and no operands.
LEMMA NewFrameIs ==
  ASSUME NEW fs, Len(fs) \in Nat, NEW caller \in 0..MaxFrames, NEW operands,
         OkSlots(operands, fs), NEW c \in Code, Len(operands) >= NumArgs[c],
         NEW context \in 0..MaxFrames
  PROVE  LET r == NewFrame(caller, operands, c, context) IN
         /\ r \in FrameType /\ r.prev = caller /\ r.context = context /\ r.method = c
         /\ OkSlots(r.slots, fs) /\ HasVariables(r) /\ Roomy(r)
         /\ \A tight \in BOOLEAN : Fits(r, 1, tight)
<1> DEFINE slots == SubSeq(operands, Len(operands) - NumArgs[c] + 1, Len(operands))
                      \o Fill(NumLocals[c])
<1>0. /\ NumArgs[c] \in Nat /\ NumArgs[c] >= 1 /\ NumLocals[c] \in Nat /\ Base(c) \in Nat
      /\ MaxStack[c] \in Nat /\ Base(c) = NumArgs[c] + NumLocals[c] /\ Len(operands) \in Nat
  BY CodeFacts DEF Base, OkSlots
<1>1. OkSlots(slots, fs) /\ Len(slots) = Base(c)
  <2> DEFINE first == Len(operands) - NumArgs[c] + 1
  <2>1. first \in 1..(Len(operands) + 1) /\ Len(operands) \in 0..Len(operands)
        /\ first <= Len(operands) /\ Len(operands) - first + 1 = NumArgs[c]
    BY <1>0
  <2> HIDE DEF first
  <2> DEFINE arguments == SubSeq(operands, first, Len(operands))
             locals == Fill(NumLocals[c])
  <2>2. OkSlots(arguments, fs) /\ Len(arguments) = NumArgs[c]
    BY <2>1, SubSeqOk
  <2>3. OkSlots(locals, fs) /\ Len(locals) = NumLocals[c]
    BY <1>0, FillOk
  <2>4. slots = arguments \o locals
    BY DEF first
  <2> HIDE DEF arguments, locals, slots
  <2>5. OkSlots(arguments \o locals, fs) /\ Len(arguments \o locals) = NumArgs[c] + NumLocals[c]
    BY <2>2, <2>3, ConcatOk
  <2> QED
    BY <2>4, <2>5, <1>0
<1> DEFINE r == NewFrame(caller, operands, c, context)
<1>2. r = [method |-> c, ip |-> 0, prev |-> caller, context |-> context, slots |-> slots,
           size |-> Base(c) + MaxStack[c], depth |-> 0]
  BY DEF NewFrame
<1> HIDE DEF slots
<1>3. slots \in Seq(Values)
  BY <1>1 DEF OkSlots
<1>4. /\ r \in FrameType /\ r.prev = caller /\ r.context = context /\ r.method = c
      /\ r.slots = slots /\ r.size = Base(c) + MaxStack[c] /\ r.depth = 0
  BY <1>0, <1>2, <1>3 DEF FrameType
<1> HIDE DEF r
<1>5. HasVariables(r) /\ Roomy(r) /\ OkSlots(r.slots, fs)
  BY <1>0, <1>1, <1>4 DEF HasVariables, Roomy
<1>6. \A tight \in BOOLEAN : Fits(r, 1, tight)
  BY <1>0, <1>1, <1>4 DEF Fits
<1> QED
  BY <1>4, <1>5, <1>6 DEF r

\* A call from frame k of fs.
LEMMA InvokeKeeps ==
  ASSUME NEW fs, NEW k, NEW rep, Linked(fs, k, rep), NEW c \in Code, NEW tight \in BOOLEAN,
         Counted(fs, k, NumArgs[c], tight),
         NEW context \in 0..Len(fs), context # NoFrame => HasVariables(fs[context]),
         Invoke(fs, k, c, context)
  PROVE  Linked(frames', frame', rep) /\ Counted(frames', frame', 1, tight)
<1>1. /\ k \in 1..Len(fs) /\ Len(fs) \in Nat /\ Len(fs) <= MaxFrames /\ MaxFrames \in Nat
      /\ Len(fs) < MaxFrames
  BY CodeFacts DEF Linked, Invoke
<1> DEFINE r == NewFrame(k, fs[k].slots, c, context)
<1>2. OkSlots(fs[k].slots, fs) /\ Len(fs[k].slots) >= NumArgs[c]
  <2>1. /\ fs[k].slots \in Seq(Values) /\ Len(fs[k].slots) \in Nat /\ fs[k].depth \in Nat
        /\ fs[k].method \in Code
    BY <1>1, FrameFacts
  <2>2. OkSlots(fs[k].slots, fs)
    BY <1>1, <2>1 DEF Linked, OkSlots
  <2>3. Len(fs[k].slots) >= Base(fs[k].method) + fs[k].depth - 1 + NumArgs[c]
    BY DEF Counted, Fits
  <2>4. Base(fs[k].method) \in Nat /\ Base(fs[k].method) >= 1 /\ NumArgs[c] \in Nat
    BY <2>1, CodeFacts
  <2>5. Len(fs[k].slots) >= NumArgs[c]
    BY <2>1, <2>3, <2>4
  <2> QED
    BY <2>2, <2>5
<1>3. /\ r \in FrameType /\ r.prev = k /\ r.context = context /\ r.method = c
      /\ OkSlots(r.slots, fs) /\ HasVariables(r) /\ Roomy(r) /\ Fits(r, 1, tight)
  <2>1. k \in 0..MaxFrames /\ context \in 0..MaxFrames
    BY <1>1
  <2> QED
    BY <2>1, <1>1, <1>2, NewFrameIs
<1>4. frames' = Append(fs, r) /\ frame' = Len(fs) + 1
  BY DEF Invoke
<1> HIDE DEF r
<1>5. \A i \in 1..Len(r.slots) : ValueOk(r.slots[i], fs)
  BY <1>3 DEF OkSlots
<1>6. /\ Linked(frames', Len(fs) + 1, rep)
      /\ Stack(frames', Len(fs) + 1) = Stack(fs, k) \cup {Len(fs) + 1}
  <2>1. r.context <= Len(fs) /\ (r.context # NoFrame => HasVariables(fs[r.context]))
    BY <1>1, <1>3
  <2> QED
    BY <2>1, <1>1, <1>3, <1>4, <1>5, CallLinked
<1>7. Counted(frames', Len(fs) + 1, 1, tight)
  BY <1>3, <1>4, <1>6, CallCounted
<1> QED
  BY <1>4, <1>6, <1>7

\* The running frame once it has sent a message with n operands, as far as the
\* compiler counts, and what is on its stack then.
LEMMA SenderIs ==
  ASSUME FramesInv, outcome = "run", NEW n \in Nat, cur.depth >= n,
         cur.depth - n + 1 <= MaxStack[cur.method],
         NEW slots, OkSlots(slots, frames), NEW m \in Nat,
         Len(slots) >= Base(cur.method) + cur.depth - n + m,
         Tight => Len(slots) <= Base(cur.method) + cur.depth - n + m,
         NEW gs, gs = [frames EXCEPT ![frame] = After(slots, cur.depth - n + 1)]
  PROVE  /\ Linked(gs, frame, replaced) /\ Counted(gs, frame, m, Tight)
         /\ Stack(gs, frame) = Callers /\ Len(gs) = Len(frames)
         /\ gs[frame] = After(slots, cur.depth - n + 1)
         /\ \A v : ValueOk(v, frames) => ValueOk(v, gs)
<1> DEFINE depth == cur.depth - n + 1
           r == After(slots, depth)
<1>1. /\ cur.depth \in Nat /\ MaxStack[cur.method] \in Nat /\ Base(cur.method) \in Nat
      /\ cur.depth <= MaxStack[cur.method] /\ cur \in FrameType
  BY Running, RunningCounts
<1>2. slots \in Seq(Values) /\ Len(slots) \in Nat
  BY DEF OkSlots
<1>3. depth \in Nat /\ depth <= MaxStack[cur.method] /\ Len(slots) >= Base(cur.method)
  BY <1>1, <1>2
<1>4. Base(cur.method) + depth - 1 + m = Base(cur.method) + cur.depth - n + m
  BY <1>1
<1>5. gs = [frames EXCEPT ![frame] = After(slots, depth)]
  OBVIOUS
<1> HIDE DEF depth
<1>6. r.slots = slots /\ r.depth = depth /\ r.method = cur.method
  BY <1>1, <1>2, <1>3, AfterFields
<1>7. Fits(r, m, Tight)
  BY <1>4, <1>6 DEF Fits
<1>8. /\ Linked(gs, frame, replaced) /\ Counted(gs, frame, m, Tight)
      /\ Stack(gs, frame) = Callers /\ Len(gs) = Len(frames)
      /\ gs[frame] = After(slots, depth)
      /\ \A v : ValueOk(v, frames) => ValueOk(v, gs)
  BY <1>3, <1>5, <1>7, AfterKeeps
<1> QED
  BY <1>8 DEF depth

\* A bytecode that calls code with the operands it has on the stack.
LEMMA CallingKeeps ==
  ASSUME FramesInv, outcome = "run", NEW c \in Code, cur.depth >= NumArgs[c],
         NEW context \in 0..Len(frames), context # NoFrame => HasVariables(frames[context]),
         Invoke(Calling(NumArgs[c]), frame, c, context),
         outcome' = "run", replaced' = replaced, unguarded' = unguarded,
         executed' = executed + 1
  PROVE  FramesInv'
<1> DEFINE n == NumArgs[c]
           fs == Calling(n)
<1>1. /\ OkSlots(cur.slots, frames) /\ cur.depth \in Nat /\ n \in Nat /\ n >= 1
      /\ Base(cur.method) \in Nat /\ Len(cur.slots) \in Nat
      /\ Len(cur.slots) >= Base(cur.method) + cur.depth
      /\ Tight => Len(cur.slots) <= Base(cur.method) + cur.depth
  BY RunningCounts, CodeFacts
<1>2. fs = [frames EXCEPT ![frame] = After(cur.slots, cur.depth - n + 1)]
  BY DEF Calling
<1>3. Invoke(fs, frame, c, context) /\ cur.depth >= n
  OBVIOUS
<1> HIDE DEF fs
<1>4. /\ Len(cur.slots) >= Base(cur.method) + cur.depth - n + n
      /\ Tight => Len(cur.slots) <= Base(cur.method) + cur.depth - n + n
      /\ cur.depth - n + 1 <= MaxStack[cur.method]
  BY <1>1, RunningCounts
<1>5. /\ Linked(fs, frame, replaced) /\ Counted(fs, frame, n, Tight) /\ Len(fs) = Len(frames)
      /\ fs[frame] = After(cur.slots, cur.depth - n + 1)
  BY <1>1, <1>2, <1>3, <1>4, SenderIs
<1>6. context # NoFrame => HasVariables(fs[context])
  <2>1. CASE context = frame
    <3>1. fs[frame].slots = cur.slots /\ fs[frame].method = cur.method
      <4>1. cur \in FrameType /\ cur.slots \in Seq(Values) /\ cur.depth - n + 1 \in Nat
        BY <1>1, <1>3, Running DEF OkSlots
      <4> QED
        BY <4>1, <1>5, AfterFields
    <3> QED
      BY <2>1, <3>1, Running DEF HasVariables
  <2>2. CASE context # frame
    <3>1. context # NoFrame => fs[context] = frames[context]
      BY <2>2, <1>2, Running DEF NoFrame
    <3> QED
      BY <3>1
  <2> QED
    BY <2>1, <2>2
<1>7. Linked(frames', frame', replaced) /\ Counted(frames', frame', 1, Tight)
  <2>1. Tight \in BOOLEAN
    BY DEF Tight, FramesInv
  <2> HIDE DEF n
  <2>2. n = NumArgs[c]
    BY DEF n
  <2> QED
    BY <2>1, <2>2, <1>3, <1>5, <1>6, InvokeKeeps
<1> QED
  BY <1>7, StillRuns DEF FramesInv, Tight

LEMMA CallsKeep ==
  ASSUME FramesInv, CallMethod \/ Evaluate, executed' = executed + 1
  PROVE  FramesInv'
<1>1. CASE CallMethod
  <2>1. PICK c \in Called :
          /\ Sends(NumArgs[c]) /\ Invoke(Calling(NumArgs[c]), frame, c, NoFrame)
          /\ outcome' = outcome /\ replaced' = replaced /\ unguarded' = unguarded
    BY <1>1 DEF CallMethod
  <2>2. c \in Code /\ NoFrame \in 0..Len(frames)
    BY CodeAssumption, Running DEF Code, NoFrame
  <2>3. outcome = "run" /\ cur.depth >= NumArgs[c]
    BY <2>1 DEF Sends, Fetch
  <2> QED
    BY <2>1, <2>2, <2>3, CallingKeeps
<1>2. CASE Evaluate
  <2> DEFINE block(n) == Element(n - 1)
  <2>1. PICK n \in 1..3 :
          /\ Sends(n) /\ block(n).code \in Blocks
          /\ IF NumArgs[block(n).code] = n
               THEN /\ Invoke(Calling(n), frame, block(n).code, block(n).home)
                    /\ UNCHANGED <<outcome, replaced>>
               ELSE Fail("misread")
          /\ UNCHANGED unguarded
    BY <1>2 DEF Evaluate
  <2>2. outcome = "run" /\ cur.depth >= n /\ unguarded' = unguarded
    BY <2>1 DEF Sends, Fetch
  <2>3. ValueOk(block(n), frames)
    <3>1. n - 1 \in 0..(Len(cur.slots) - 1)
      BY <2>2, RunningCounts
    <3> QED
      BY <3>1, Running
  <2>4. CASE NumArgs[block(n).code] = n
    <3> DEFINE c == block(n).code
               context == block(n).home
    <3>1. c \in Code
      BY <2>1 DEF Code
    <3>2. context \in 0..Len(frames) /\ (context # NoFrame => HasVariables(frames[context]))
      <4>1. block(n).home \in 0..MaxFrames /\ block(n).home <= Len(frames)
        BY <2>3, ValueFacts DEF ValueOk
      <4> QED
        BY <4>1, <2>3, CodeFacts, Running DEF ValueOk
    <3>3. /\ Invoke(Calling(NumArgs[c]), frame, c, context)
          /\ outcome' = outcome /\ replaced' = replaced /\ cur.depth >= NumArgs[c]
      BY <2>1, <2>2, <2>4
    <3> HIDE DEF c, context
    <3> QED
      BY <2>2, <3>1, <3>2, <3>3, CallingKeeps
  <2>5. CASE NumArgs[block(n).code] # n
    <3>1. outcome' = "misread" /\ frames' = frames /\ frame' = frame /\ replaced' = replaced
      BY <2>1, <2>5 DEF Fail
    <3> QED
      BY <2>2, <3>1, Stopped DEF FramesInv
  <2> QED
    BY <2>4, <2>5
<1> QED
  BY <1>1, <1>2

-----------------------------------------------------------------------------
(* Unplanned sends.                                                         *)

\* Frames fs, of which frame k lacks the operands of the send.
LEMMA SendToKeeps ==
  ASSUME NEW fs, NEW k, NEW rep, Linked(fs, k, rep), NEW tight \in BOOLEAN,
         Counted(fs, k, 0, tight), NEW handler \in Code, NEW operands,
         OkSlots(operands, fs), Len(operands) = NumArgs[handler],
         SendTo(fs, k, handler, operands)
  PROVE  /\ Linked(frames', frame', rep)
         /\ \/ outcome' = "error" /\ Len(fs[k].slots) + NumArgs[handler] > fs[k].size
            \/ outcome' = outcome /\ Counted(frames', frame', 1, tight)
<1>1. CASE Len(fs[k].slots) + Len(operands) > fs[k].size
  BY <1>1 DEF SendTo
<1>2. CASE ~(Len(fs[k].slots) + Len(operands) > fs[k].size)
  <2> DEFINE slots == fs[k].slots \o operands
             gs == [fs EXCEPT ![k].slots = slots]
  <2>1. Invoke(gs, k, handler, NoFrame) /\ outcome' = outcome
    BY <1>2 DEF SendTo
  <2>2. /\ k \in 1..Len(fs) /\ Len(fs) \in Nat
    BY DEF Linked
  <2>3. /\ fs[k].slots \in Seq(Values) /\ Len(fs[k].slots) \in Nat /\ fs[k].depth \in Nat
        /\ fs[k].method \in Code
    BY <2>2, FrameFacts
  <2>4. OkSlots(fs[k].slots, fs)
    BY <2>2, <2>3 DEF Linked, OkSlots
  <2>5. OkSlots(slots, fs) /\ Len(slots) = Len(fs[k].slots) + NumArgs[handler]
    BY <2>4, ConcatOk
  <2>6. /\ Len(fs[k].slots) >= Base(fs[k].method) + fs[k].depth - 1
        /\ tight => Len(fs[k].slots) <= Base(fs[k].method) + fs[k].depth - 1
    <3>1. /\ Len(fs[k].slots) >= Base(fs[k].method) + fs[k].depth - 1 + 0
          /\ tight => Len(fs[k].slots) <= Base(fs[k].method) + fs[k].depth - 1 + 0
      BY DEF Counted, Fits
    <3>2. Base(fs[k].method) \in Nat
      BY <2>3, CodeFacts
    <3> QED
      BY <3>1, <3>2, <2>3
  <2>7. /\ NumArgs[handler] \in Nat /\ NumArgs[handler] >= 1 /\ Base(fs[k].method) \in Nat
    BY <2>3, CodeFacts
  <2>8. Refilled(fs, k, slots, gs)
    BY DEF Refilled
  <2> HIDE DEF slots, gs
  <2>9. /\ Len(slots) >= Base(fs[k].method) + fs[k].depth - 1 + NumArgs[handler]
        /\ Len(slots) >= Base(fs[k].method)
        /\ tight => Len(slots) <= Base(fs[k].method) + fs[k].depth - 1 + NumArgs[handler]
    <3> DEFINE had == Len(fs[k].slots)
               base == Base(fs[k].method)
               depth == fs[k].depth
               args == NumArgs[handler]
               have == Len(slots)
    <3>1. /\ had \in Nat /\ base \in Nat /\ depth \in Nat /\ args \in Nat /\ args >= 1
          /\ have = had + args /\ had >= base + depth - 1
          /\ tight => had <= base + depth - 1
      BY <2>3, <2>5, <2>6, <2>7
    <3> HIDE DEF had, base, depth, args, have
    <3>2. /\ have >= base + depth - 1 + args /\ have >= base
          /\ tight => have <= base + depth - 1 + args
      BY <3>1
    <3> QED
      BY <3>2 DEF had, base, depth, args, have
  <2>10. /\ Linked(gs, k, rep) /\ Counted(gs, k, NumArgs[handler], tight) /\ Len(gs) = Len(fs)
    <3>1. Receives(fs, k, slots, NumArgs[handler], tight)
      BY <2>5, <2>7, <2>9 DEF Receives
    <3> QED
      BY <2>8, <3>1, TopChanges
  <2>11. NoFrame \in 0..Len(gs)
    BY <2>2, <2>10 DEF NoFrame
  <2>12. Linked(frames', frame', rep) /\ Counted(frames', frame', 1, tight)
    BY <2>1, <2>10, <2>11, InvokeKeeps
  <2> QED
    BY <2>1, <2>12
<1> QED
  BY <1>1, <1>2

LEMMA HandlerFacts ==
  /\ DoesNotUnderstand \in Code /\ UnknownGlobal \in Code /\ EscapedBlock \in Code
  /\ NumArgs[EscapedBlock] = 2
  BY CodeAssumption DEF Code

LEMMA OperandsOfHandler ==
  ASSUME NEW fs, Len(fs) \in Nat, NEW handler \in Code, NEW receiver, ValueOk(receiver, fs)
  PROVE  /\ OkSlots(ToHandler(handler, receiver), fs)
         /\ Len(ToHandler(handler, receiver)) = NumArgs[handler]
<1> DEFINE first == <<receiver>>
           rest == Fill(NumArgs[handler] - 1)
<1>1. NumArgs[handler] \in Nat /\ NumArgs[handler] - 1 \in Nat
  BY CodeFacts
<1>2. OkSlots(rest, fs) /\ Len(rest) = NumArgs[handler] - 1
  BY <1>1, FillOk
<1>3. OkSlots(first, fs) /\ Len(first) = 1
  BY DEF OkSlots, ValueOk
<1>4. ToHandler(handler, receiver) = first \o rest
  BY DEF ToHandler
<1> HIDE DEF first, rest
<1>5. OkSlots(first \o rest, fs) /\ Len(first \o rest) = Len(first) + Len(rest)
  <2>1. OkSlots(first, fs) /\ OkSlots(rest, fs)
    BY <1>2, <1>3
  <2> QED
    BY <2>1, ConcatOk
<1> QED
  BY <1>1, <1>2, <1>3, <1>4, <1>5

\* The copy of a frame with more space for operands.
LEMMA EmergencyFrame ==
  ASSUME NEW from \in FrameType, NEW extra \in Nat
  PROVE  LET r == EmergencyFrameFrom(from, extra) IN
         /\ r \in FrameType /\ r.size = from.size + extra /\ r.slots = from.slots
         /\ r.depth = from.depth /\ r.method = from.method /\ r.prev = from.prev
         /\ r.context = from.context
<1> DEFINE r == EmergencyFrameFrom(from, extra)
<1>1. from = [method |-> from.method, ip |-> from.ip, prev |-> from.prev,
              context |-> from.context, slots |-> from.slots, size |-> from.size,
              depth |-> from.depth]
  BY DEF FrameType
<1>2. r = [from EXCEPT !.size = from.size + extra]
  BY DEF EmergencyFrameFrom
<1>3. r = [method |-> from.method, ip |-> from.ip, prev |-> from.prev,
           context |-> from.context, slots |-> from.slots, size |-> from.size + extra,
           depth |-> from.depth]
  BY <1>1, <1>2
<1> HIDE DEF r
<1>4. from.size + extra \in Nat
  BY DEF FrameType
<1>5. /\ r \in FrameType /\ r.size = from.size + extra /\ r.slots = from.slots
      /\ r.depth = from.depth /\ r.method = from.method /\ r.prev = from.prev
      /\ r.context = from.context
  BY <1>3, <1>4 DEF FrameType
<1> QED
  BY <1>5 DEF r

\* With the space looked for, an unplanned send never fails.
LEMMA SendWithSpaceKeeps ==
  ASSUME FramesInv, outcome = "run", cur.method # Bootstrap,
         NEW n \in Nat, cur.depth >= n, cur.depth - n + 1 <= MaxStack[cur.method],
         NEW slots, OkSlots(slots, frames),
         Len(slots) >= Base(cur.method) + cur.depth - n,
         Tight => Len(slots) <= Base(cur.method) + cur.depth - n,
         NEW handler \in Code, NEW receiver, ValueOk(receiver, frames),
         SendWithSpace(After(slots, cur.depth - n + 1), handler, receiver),
         executed' = executed + 1
  PROVE  FramesInv'
<1> DEFINE from == After(slots, cur.depth - n + 1)
           fs == [frames EXCEPT ![frame] = from]
           extra == NumArgs[handler] - (from.size - Len(from.slots))
           big == EmergencyFrameFrom(from, extra)
           hs == Append(fs, big)
           operands == ToHandler(handler, receiver)
<1>1. /\ IF extra > 0
           THEN /\ Len(frames) < MaxFrames
                /\ SendTo(hs, Len(fs) + 1, handler, operands)
                /\ replaced' = replaced \cup {frame}
           ELSE SendTo(fs, frame, handler, operands) /\ replaced' = replaced
      /\ unguarded' = unguarded
  BY DEF SendWithSpace
<1>2. /\ frame \in 1..Len(frames) /\ frame # 1 /\ Len(frames) \in Nat
      /\ cur \in FrameType /\ cur.depth \in Nat /\ cur.size \in Nat
      /\ Len(slots) \in Nat /\ slots \in Seq(Values) /\ Base(cur.method) \in Nat
      /\ NumArgs[handler] \in Nat
  BY Running, RunningCounts, CodeFacts DEF OkSlots
<1>3. /\ Linked(fs, frame, replaced) /\ Counted(fs, frame, 0, Tight)
      /\ Stack(fs, frame) = Callers /\ Len(fs) = Len(frames) /\ fs[frame] = from
      /\ \A v : ValueOk(v, frames) => ValueOk(v, fs)
  <2> DEFINE gs == fs
  <2>1. gs = [frames EXCEPT ![frame] = After(slots, cur.depth - n + 1)]
    OBVIOUS
  <2>2. /\ Len(slots) >= Base(cur.method) + cur.depth - n + 0
        /\ Tight => Len(slots) <= Base(cur.method) + cur.depth - n + 0 
        /\ 0 \in Nat
    BY <1>2
  <2> HIDE DEF gs
  <2>3. /\ Linked(gs, frame, replaced) /\ Counted(gs, frame, 0, Tight)
        /\ Stack(gs, frame) = Callers /\ Len(gs) = Len(frames)
        /\ gs[frame] = After(slots, cur.depth - n + 1)
        /\ \A v : ValueOk(v, frames) => ValueOk(v, gs)
    BY <2>1, <2>2, SenderIs
  <2> QED
    BY <2>3 DEF gs
<1>4. /\ from \in FrameType /\ from.slots = slots /\ from.size = cur.size
      /\ from.method = cur.method /\ from.prev = cur.prev /\ from.context = cur.context
  <2>1. cur.depth - n + 1 \in Nat
    BY <1>2
  <2> QED
    BY <2>1, <1>2, AfterFields
<1>5. Tight \in BOOLEAN
  BY DEF Tight, FramesInv
<1>6. extra \in Int /\ extra = NumArgs[handler] - (cur.size - Len(slots))
  BY <1>2, <1>4
<1>7. CASE extra > 0
  <2>1. /\ Len(fs) < MaxFrames /\ SendTo(hs, Len(fs) + 1, handler, operands)
        /\ replaced' = replaced \cup {frame}
    BY <1>1, <1>3, <1>7
  <2>2. /\ big \in FrameType /\ big.size = from.size + extra /\ big.slots = from.slots
        /\ big.depth = from.depth /\ big.method = from.method /\ big.prev = from.prev
        /\ big.context = from.context
    <3>1. extra \in Nat
      BY <1>6, <1>7
    <3> HIDE DEF extra, from
    <3> QED
      BY <3>1, <1>4, EmergencyFrame
  <2>3. hs = Append(fs, big) /\ fs[frame] = from
    BY <1>3
  <2>4. Roomy(big)
    <3>1. Roomy(from)
      <4>1. frame \in Stack(fs, frame)
        BY <1>3, Running
      <4> QED
        BY <4>1, <1>3 DEF Counted
    <3>2. /\ from.size \in Nat /\ Base(from.method) \in Nat /\ MaxStack[from.method] \in Nat
          /\ from.size + extra >= from.size
      <4>1. from.method \in Code /\ from.size \in Nat
        BY <1>2, <1>4 DEF FrameType
      <4> HIDE DEF extra
      <4> QED
        BY <4>1, <1>6, <1>7, CodeFacts
    <3> HIDE DEF from, extra, big
    <3> QED
      BY <3>1, <3>2, <2>2, <1>6 DEF Roomy
  <2>5. DOMAIN fs = 1..Len(fs) /\ fs \in Seq(FrameType) /\ Len(fs) \in Nat
    BY <1>3 DEF Linked
  <2>6. /\ Len(hs) = Len(fs) + 1 /\ hs[Len(fs) + 1] = big
        /\ \A f \in 1..Len(fs) : hs[f] = fs[f]
    BY <2>2, <2>5
  <2> HIDE DEF from, extra, fs, big, hs
  <2>7. /\ Linked(hs, Len(fs) + 1, replaced \cup {frame})
        /\ Stack(hs, Len(fs) + 1) = (Stack(fs, frame) \ {frame}) \cup {Len(fs) + 1}
    <3>1. /\ Linked(fs, frame, replaced) /\ Len(fs) < MaxFrames /\ frame # 1 /\ big \in FrameType
          /\ big.prev = fs[frame].prev /\ big.context = fs[frame].context
          /\ big.method = fs[frame].method /\ big.slots = fs[frame].slots /\ hs = Append(fs, big)
      BY <1>2, <1>3, <2>1, <2>2, <2>3
    <3> QED
      BY <3>1, ReplaceLinked
  <2>8. Counted(hs, Len(fs) + 1, 0, Tight)
    BY <1>3, <2>2, <2>3, <2>4, <2>7, ReplaceCounted
  <2>9. \A v : ValueOk(v, fs) => ValueOk(v, hs)
    BY <2>5, <2>6, ValueFacts DEF ValueOk, NoFrame
  <2>10. OkSlots(operands, hs) /\ Len(operands) = NumArgs[handler]
    <3>1. ValueOk(receiver, hs) /\ Len(hs) \in Nat
      BY <1>3, <2>5, <2>6, <2>9
    <3> QED
      BY <3>1, OperandsOfHandler
  <2> HIDE DEF operands
  <2>11. /\ Linked(frames', frame', replaced \cup {frame})
         /\ \/ outcome' = "error"
               /\ Len(hs[Len(fs) + 1].slots) + NumArgs[handler] > hs[Len(fs) + 1].size
            \/ outcome' = outcome /\ Counted(frames', frame', 1, Tight)
    BY <1>5, <2>1, <2>7, <2>8, <2>10, SendToKeeps
  <2>12. ~(Len(hs[Len(fs) + 1].slots) + NumArgs[handler] > hs[Len(fs) + 1].size)
    BY <1>2, <1>4, <1>6, <2>2, <2>6
  <2> QED
    BY <1>1, <2>1, <2>11, <2>12, StillRuns DEF FramesInv, Tight
<1>8. CASE ~(extra > 0)
  <2>1. SendTo(fs, frame, handler, operands) /\ replaced' = replaced
    BY <1>1, <1>8
  <2>2. OkSlots(operands, fs) /\ Len(operands) = NumArgs[handler]
    BY <1>2, <1>3, OperandsOfHandler
  <2>3. ~(Len(slots) + NumArgs[handler] > cur.size)
    BY <1>2, <1>6, <1>8
  <2> HIDE DEF from, extra, fs, operands
  <2>4. /\ Linked(frames', frame', replaced)
        /\ \/ outcome' = "error" /\ Len(fs[frame].slots) + NumArgs[handler] > fs[frame].size
           \/ outcome' = outcome /\ Counted(frames', frame', 1, Tight)
    BY <1>3, <1>5, <2>1, <2>2, SendToKeeps
  <2> QED
    BY <1>1, <1>3, <1>4, <2>1, <2>3, <2>4, StillRuns DEF FramesInv, Tight
<1> QED
  BY <1>7, <1>8

\* The receiver of a message that is sent from a frame to the self of the
\* method its code stands in.
LEMMA SenderOk ==
  ASSUME FramesInv, NEW f \in Callers
  PROVE  ValueOk(frames[OuterContext(f)].slots[1], frames) /\ OuterContext(f) \in 1..Len(frames)
<1> DEFINE outer == OuterContext(f)
<1>0. Linked(frames, frame, replaced) /\ f \in Stack(frames, frame)
  BY Running DEF FramesInv
<1>1. ContextLevels(f) = Along(f, Contexts(frames))
  BY DEF ContextLevels, Contexts
<1>2. outer \in ContextLevels(f)
  BY <1>0, <1>1, ContextFacts DEF OuterContext
<1>3. outer \in 1..Len(frames) /\ HasVariables(frames[outer])
  BY <1>0, <1>1, <1>2, ContextFacts
<1> HIDE DEF outer
<1>4. 1 \in 1..Len(frames[outer].slots)
  <2>1. Len(frames[outer].slots) \in Nat /\ Base(frames[outer].method) \in Nat
        /\ Base(frames[outer].method) >= 1
    BY <1>0, <1>3, FrameFacts, CodeFacts
  <2> QED
    BY <2>1, <1>3 DEF HasVariables
<1>5. ValueOk(frames[outer].slots[1], frames)
  BY <1>0, <1>3, <1>4 DEF Linked
<1> QED
  BY <1>3, <1>5 DEF outer

LEMMA UnplannedSendsKeep ==
  ASSUME FramesInv, SendNotUnderstood \/ PushUnknownGlobal \/ SuperSendNotUnderstood,
         executed' = executed + 1
  PROVE  FramesInv'
<1>0. /\ outcome = "run" /\ cur.method # Bootstrap
  BY DEF SendNotUnderstood, PushUnknownGlobal, SuperSendNotUnderstood, Sends, Fetch
<1>1. /\ OkSlots(cur.slots, frames) /\ cur.depth \in Nat /\ MaxStack[cur.method] \in Nat
      /\ Base(cur.method) \in Nat /\ Len(cur.slots) \in Nat /\ cur.depth <= MaxStack[cur.method]
      /\ Len(cur.slots) >= Base(cur.method) + cur.depth
      /\ Tight => Len(cur.slots) <= Base(cur.method) + cur.depth
  BY <1>0, RunningCounts
<1>2. ASSUME NEW n \in 1..3, cur.depth >= n
      PROVE  /\ OkSlots(Drop(cur.slots, n), frames)
             /\ Len(Drop(cur.slots, n)) = Len(cur.slots) - n
             /\ ValueOk(Element(n - 1), frames)
             /\ cur.depth - n + 1 <= MaxStack[cur.method]
             /\ n \in Nat
  <2>1. n \in 0..Len(cur.slots) /\ n - 1 \in 0..(Len(cur.slots) - 1)
    BY <1>1, <1>2
  <2>2. /\ OkSlots(Drop(cur.slots, n), frames)
        /\ Len(Drop(cur.slots, n)) = Len(cur.slots) - n
    BY <2>1, <1>1, DropOk
  <2>3. ValueOk(Element(n - 1), frames)
    BY <2>1, Running
  <2> QED
    BY <2>2, <2>3, <1>1
<1>3. CASE SendNotUnderstood
  <2>1. PICK n \in 1..3 :
          /\ Sends(n)
          /\ SendWithSpace(After(Drop(cur.slots, n), cur.depth - n + 1),
                           DoesNotUnderstand, Element(n - 1))
    BY <1>3 DEF SendNotUnderstood
  <2> DEFINE slots == Drop(cur.slots, n)
             receiver == Element(n - 1)
  <2>2. cur.depth >= n
    BY <2>1 DEF Sends
  <2>3. /\ OkSlots(slots, frames) /\ Len(slots) = Len(cur.slots) - n
        /\ ValueOk(receiver, frames) /\ cur.depth - n + 1 <= MaxStack[cur.method] /\ n \in Nat
    BY <2>2, <1>2
  <2>4. SendWithSpace(After(slots, cur.depth - n + 1), DoesNotUnderstand, receiver)
    BY <2>1
  <2> HIDE DEF slots, receiver
  <2>5. /\ Len(slots) >= Base(cur.method) + cur.depth - n
        /\ Tight => Len(slots) <= Base(cur.method) + cur.depth - n
    BY <2>2, <2>3, <1>1
  <2> QED
    BY <1>0, <2>2, <2>3, <2>4, <2>5, HandlerFacts, SendWithSpaceKeeps
<1>4. CASE PushUnknownGlobal
  <2> DEFINE slots == cur.slots
             receiver == frames[OuterContext(frame)].slots[1]
             n == 0
  <2>1. cur.depth < MaxStack[cur.method] /\ SendWithSpace(After(slots, cur.depth + 1), UnknownGlobal, receiver)
    BY <1>4 DEF PushUnknownGlobal
  <2>2. ValueOk(receiver, frames)
    BY Running, SenderOk
  <2>3. /\ n \in Nat /\ cur.depth >= n /\ cur.depth - n + 1 = cur.depth + 1
        /\ cur.depth - n + 1 <= MaxStack[cur.method]
        /\ Len(slots) >= Base(cur.method) + cur.depth - n
        /\ Tight => Len(slots) <= Base(cur.method) + cur.depth - n
    BY <2>1, <1>1
  <2>4. SendWithSpace(After(slots, cur.depth - n + 1), UnknownGlobal, receiver)
    BY <2>1, <2>3
  <2>5. OkSlots(slots, frames)
    BY <1>1
  <2> HIDE DEF slots, receiver, n
  <2> QED
    BY <1>0, <2>2, <2>3, <2>4, <2>5, HandlerFacts, SendWithSpaceKeeps
<1>5. CASE SuperSendNotUnderstood
  <2>1. PICK n \in 1..3 :
          /\ Sends(n)
          /\ SendTo([frames EXCEPT ![frame] = After(Drop(cur.slots, n), cur.depth - n + 1)],
                    frame, DoesNotUnderstand, ToHandler(DoesNotUnderstand, Element(n - 1)))
          /\ unguarded' = TRUE /\ replaced' = replaced
    BY <1>5 DEF SuperSendNotUnderstood
  <2> DEFINE slots == Drop(cur.slots, n)
             receiver == Element(n - 1)
             fs == [frames EXCEPT ![frame] = After(slots, cur.depth - n + 1)]
             operands == ToHandler(DoesNotUnderstand, receiver)
  <2>2. cur.depth >= n
    BY <2>1 DEF Sends
  <2>3. /\ OkSlots(slots, frames) /\ Len(slots) = Len(cur.slots) - n
        /\ ValueOk(receiver, frames) /\ cur.depth - n + 1 <= MaxStack[cur.method] /\ n \in Nat
    BY <2>2, <1>2
  <2>4. SendTo(fs, frame, DoesNotUnderstand, operands)
    BY <2>1
  <2> HIDE DEF slots, receiver
  <2>5. /\ Len(slots) >= Base(cur.method) + cur.depth - n + 0
        /\ Tight => Len(slots) <= Base(cur.method) + cur.depth - n + 0
        /\ 0 \in Nat
    BY <2>2, <2>3, <1>1
  <2>6. fs = [frames EXCEPT ![frame] = After(slots, cur.depth - n + 1)]
    OBVIOUS
  <2> HIDE DEF fs
  <2>7. /\ Linked(fs, frame, replaced) /\ Counted(fs, frame, 0, Tight)
        /\ Len(fs) = Len(frames) /\ \A v : ValueOk(v, frames) => ValueOk(v, fs)
    BY <1>0, <2>2, <2>3, <2>5, <2>6, SenderIs
  <2>8. OkSlots(operands, fs) /\ Len(operands) = NumArgs[DoesNotUnderstand]
    <3>1. Len(fs) \in Nat /\ ValueOk(receiver, fs)
      BY <2>3, <2>7, Running
    <3> QED
      BY <3>1, HandlerFacts, OperandsOfHandler
  <2> HIDE DEF operands
  <2>9. Counted(fs, frame, 0, FALSE)
    BY <2>7 DEF Counted, Fits
  <2>10. /\ Linked(frames', frame', replaced)
         /\ \/ outcome' = "error"
            \/ outcome' = outcome /\ Counted(frames', frame', 1, FALSE)
    BY <2>4, <2>7, <2>8, <2>9, HandlerFacts, SendToKeeps
  <2> QED
    BY <1>0, <2>1, <2>10, StillRuns, Stopped
<1> QED
  BY <1>3, <1>4, <1>5

-----------------------------------------------------------------------------
(* Returns.                                                                 *)

\* A return leaves the frames from "left" on.
LEMMA ReturnIs ==
  ASSUME FramesInv, outcome = "run", NEW left \in Callers, frames[left].prev # NoFrame,
         NEW above, above \cup {left} = Leaves(left),
         NEW result, result = Element(0),
         ReturnFrom(left, above, result)
  PROVE  /\ Linked(frames', frame', replaced) /\ Counted(frames', frame', 1, Tight)
         /\ frame' = frames[left].prev /\ Len(frames') = Len(frames)
         /\ \A f \in Leaves(left) : frames'[f].prev = NoFrame
         /\ frames'[frame'].slots[Len(frames'[frame'].slots)] = result
<1> DEFINE gs == Popped(Leaves(left))
           caller == frames[left].prev
           args == NumArgs[frames[left].method]
           slots == Append(Drop(gs[caller].slots, args), result)
<1>0. Linked(frames, frame, replaced) /\ Counted(frames, frame, 1, Tight)
  BY Running DEF FramesInv
<1>1. /\ frames' = [gs EXCEPT ![caller].slots = slots] /\ frame' = caller
  BY DEF ReturnFrom
<1>2. Linked(gs, caller, replaced) /\ Left(left, gs)
  BY <1>0, PopLinked
<1>3. Counted(gs, caller, args, Tight)
  BY <1>0, <1>2, PopCounted
<1>4. /\ left \in 1..Len(frames) /\ frames[left].method \in Code
      /\ args \in Nat /\ args >= 1
  <2>1. left \in 1..Len(frames)
    BY <1>0, Running, StackFacts
  <2> QED
    BY <2>1, <1>0, FrameFacts, CodeFacts
<1>5. ValueOk(result, gs)
  <2>1. Len(cur.slots) \in 1..Len(cur.slots) /\ frame \in 1..Len(frames)
        /\ result = frames[frame].slots[Len(cur.slots)]
    BY Running, RunningCounts DEF Element, cur
  <2> QED
    BY <2>1, <1>2 DEF Left, cur
<1> HIDE DEF gs
<1>6. /\ caller \in 1..Len(gs) /\ Len(gs) = Len(frames)
      /\ gs[caller].slots \in Seq(Values) /\ Len(gs[caller].slots) \in Nat
      /\ gs[caller].depth \in Nat /\ gs[caller].method \in Code
  <2>1. caller \in 1..Len(gs) /\ Len(gs) = Len(frames)
    BY <1>2 DEF Linked, Left
  <2> QED
    BY <2>1, <1>2, FrameFacts
<1>7. OkSlots(gs[caller].slots, gs)
  BY <1>2, <1>6 DEF Linked, OkSlots
<1>8. /\ Base(gs[caller].method) \in Nat /\ Base(gs[caller].method) >= 1
      /\ Len(gs[caller].slots) >= Base(gs[caller].method) + gs[caller].depth - 1 + args
      /\ Tight => Len(gs[caller].slots) <= Base(gs[caller].method) + gs[caller].depth - 1 + args
  BY <1>3, <1>6, CodeFacts DEF Counted, Fits
<1> DEFINE rest == Drop(gs[caller].slots, args)
<1> HIDE DEF args
<1>9. OkSlots(rest, gs) /\ Len(rest) = Len(gs[caller].slots) - args
  <2>1. args \in 0..Len(gs[caller].slots)
    BY <1>4, <1>6, <1>8
  <2> QED
    BY <2>1, <1>7, DropOk
<1> HIDE DEF rest
<1>10. /\ OkSlots(slots, gs) /\ Len(slots) = Len(rest) + 1 /\ slots[Len(rest) + 1] = result
  <2>1. slots = Append(rest, result)
    BY DEF rest
  <2> HIDE DEF slots
  <2>2. /\ OkSlots(Append(rest, result), gs) /\ Len(Append(rest, result)) = Len(rest) + 1
        /\ Append(rest, result)[Len(rest) + 1] = result
    BY <1>5, <1>9, AppendOk
  <2> QED
    BY <2>1, <2>2
<1>11. Refilled(gs, caller, slots, frames')
  BY <1>1 DEF Refilled
<1> HIDE DEF slots, caller
<1>12. /\ Len(slots) >= Base(gs[caller].method) + gs[caller].depth - 1 + 1
       /\ Len(slots) >= Base(gs[caller].method)
       /\ Tight => Len(slots) <= Base(gs[caller].method) + gs[caller].depth - 1 + 1
  <2>1. Len(slots) = Len(gs[caller].slots) - args + 1
    BY <1>9, <1>10
  <2> DEFINE had == Len(gs[caller].slots)
             base == Base(gs[caller].method)
             depth == gs[caller].depth
             have == Len(slots)
  <2>2. /\ had \in Nat /\ base \in Nat /\ base >= 1 /\ depth \in Nat /\ args \in Nat
        /\ have = had - args + 1 /\ had >= base + depth - 1 + args
        /\ Tight => had <= base + depth - 1 + args
    BY <2>1, <1>4, <1>6, <1>8
  <2> HIDE DEF had, base, depth, have
  <2>3. /\ have >= base + depth - 1 + 1 /\ have >= base
        /\ Tight => have <= base + depth - 1 + 1
    BY <2>2
  <2> QED
    BY <2>3 DEF had, base, depth, have
<1>13. /\ Linked(frames', caller, replaced) /\ Counted(frames', caller, 1, Tight)
       /\ Len(frames') = Len(gs) /\ frames'[caller].slots = slots
       /\ \A f \in 1..Len(gs) : frames'[f].prev = gs[f].prev
  <2>1. Tight \in BOOLEAN
    BY DEF Tight, FramesInv
  <2>2. Receives(gs, caller, slots, 1, Tight)
    BY <1>2, <1>10, <1>11, <1>12 DEF Receives
  <2>3. Refilled(gs, caller, slots, frames')
    BY <1>2, <1>3, <1>10, <1>11
  <2> QED
    BY <2>1, <2>2, <2>3, <1>2, <1>3, <1>10, TopChanges
<1>14. \A f \in Leaves(left) : frames'[f].prev = NoFrame
  <2>1. Leaves(left) \subseteq 1..Len(frames)
    BY <1>0, Running, StackFacts DEF Leaves
  <2> QED
    BY <2>1, <1>2, <1>6, <1>13 DEF Left
<1> QED
  BY <1>1, <1>6, <1>10, <1>13, <1>14 DEF caller

LEMMA LeavesIs ==
  ASSUME FramesInv, NEW left \in Callers
  PROVE  /\ {f \in Callers : f > left} \cup {left} = Leaves(left)
         /\ Leaves(frame) = {frame}
<1>1. Callers = Stack(frames, frame) /\ Linked(frames, frame, replaced) /\ frame \in Callers
  BY Running DEF FramesInv
<1>2. Callers \subseteq 1..frame /\ frame \in Nat
  BY <1>1, StackFacts, Running
<1> QED
  BY <1>1, <1>2 DEF Leaves

\* The frame that a return leaves last.
LastLeft == IF ReturnLocal THEN frame ELSE OuterContext(frame)

LEMMA ReturnsAre ==
  ASSUME FramesInv, ReturnLocal \/ (ReturnNonLocal /\ outcome' = "run")
  PROVE  /\ outcome = "run" /\ UNCHANGED <<outcome, replaced, unguarded>>
         /\ LastLeft \in Callers /\ frames[LastLeft].prev # NoFrame
         /\ \E above : above \cup {LastLeft} = Leaves(LastLeft)
                        /\ ReturnFrom(LastLeft, above, Element(0))
<1>1. CASE ReturnLocal
  <2>1. LastLeft = frame
    BY <1>1 DEF LastLeft
  <2>2. outcome = "run" /\ cur.method # Bootstrap /\ ReturnFrom(frame, {}, Element(0))
    BY <1>1 DEF ReturnLocal, Fetch
  <2>3. frame \in Callers /\ frames[frame].prev # NoFrame /\ {} \cup {frame} = Leaves(frame)
    BY <2>2, Running, LeavesIs DEF cur
  <2>4. UNCHANGED <<outcome, replaced, unguarded>>
    BY <2>2 DEF ReturnFrom
  <2> QED
    BY <2>1, <2>2, <2>3, <2>4
<1>2. CASE ~ReturnLocal
  <2> DEFINE context == OuterContext(frame)
  <2>1. LastLeft = context
    BY <1>2 DEF LastLeft
  <2>2. /\ outcome = "run" /\ frames[context].prev # NoFrame /\ context \in Callers
        /\ ReturnFrom(context, {f \in Callers : f > context}, Element(0))
    BY <1>2 DEF ReturnNonLocal, Fetch, Fail
  <2>3. UNCHANGED <<outcome, replaced, unguarded>>
    BY <2>2 DEF ReturnFrom
  <2> HIDE DEF context
  <2>4. {f \in Callers : f > context} \cup {context} = Leaves(context)
    BY <2>2, LeavesIs
  <2> QED
    BY <2>1, <2>2, <2>3, <2>4
<1> QED
  BY <1>1, <1>2

LEMMA ReturnsKeep ==
  ASSUME FramesInv, ReturnLocal \/ ReturnNonLocal, executed' = executed + 1
  PROVE  FramesInv'
<1>1. CASE ReturnLocal \/ (ReturnNonLocal /\ outcome' = "run")
  <2>1. /\ outcome = "run" /\ UNCHANGED <<outcome, replaced, unguarded>>
        /\ LastLeft \in Callers /\ frames[LastLeft].prev # NoFrame
    BY <1>1, ReturnsAre
  <2>2. PICK above : above \cup {LastLeft} = Leaves(LastLeft)
                     /\ ReturnFrom(LastLeft, above, Element(0))
    BY <1>1, ReturnsAre
  <2>3. Linked(frames', frame', replaced) /\ Counted(frames', frame', 1, Tight)
    BY <2>1, <2>2, ReturnIs
  <2> QED
    BY <2>1, <2>3, StillRuns DEF FramesInv, Tight
<1>2. CASE ReturnNonLocal /\ outcome' # "run"
  <2> DEFINE context == OuterContext(frame)
  <2>1. outcome = "run" /\ frames[context].prev # NoFrame
    BY <1>2 DEF ReturnNonLocal, Fetch
  <2>2. context \notin Callers
    BY <1>2, <2>1 DEF ReturnNonLocal, ReturnFrom
  <2>3. /\ outcome' = "lost" /\ frames' = frames /\ frame' = frame /\ replaced' = replaced
        /\ unguarded' = unguarded
    BY <1>2, <2>2 DEF ReturnNonLocal, Fail
  <2>4. context \in 1..Len(frames)
    BY Running, SenderOk
  <2>5. replaced # {}
    BY <2>1, <2>2, <2>4, Running DEF FramesInv, Linked
  <2> QED
    BY <2>1, <2>3, <2>5, Stopped DEF FramesInv
<1> QED
  BY <1>1, <1>2

LEMMA EscapedKeeps ==
  ASSUME FramesInv, ReturnEscaped, executed' = executed + 1
  PROVE  FramesInv'
<1> DEFINE caller == frames[frame].prev
           sender == frames[OuterContext(caller)].slots[1]
           gs == Popped(Leaves(frame))
           operands == <<sender, cur.slots[1]>>
<1>0. Linked(frames, frame, replaced) /\ frame \in Callers /\ Callers = Stack(frames, frame)
      /\ Leaves(frame) = {frame}
  BY Running, LeavesIs DEF FramesInv
<1>1. /\ outcome = "run" /\ cur.method # Bootstrap /\ unguarded' = TRUE /\ replaced' = replaced
      /\ SendTo(gs, caller, EscapedBlock, operands)
  BY <1>0 DEF ReturnEscaped, Fetch, cur
<1>2. caller # NoFrame /\ caller \in Callers
  BY <1>0, <1>1, Running, StackFacts DEF cur
<1>3. Linked(gs, caller, replaced) /\ Left(frame, gs)
  BY <1>0, <1>2, PopLinked
<1>4. Counted(gs, caller, NumArgs[frames[frame].method], Tight)
  BY <1>0, <1>1, <1>2, <1>3, Running, PopCounted
<1>5. Counted(gs, caller, 0, FALSE)
  <2>1. /\ NumArgs[cur.method] \in Nat /\ gs[caller].depth \in Nat /\ Len(gs[caller].slots) \in Nat
        /\ Base(gs[caller].method) \in Nat
    <3>1. caller \in 1..Len(gs)
      BY <1>3 DEF Linked
    <3> QED
      BY <3>1, <1>3, FrameFacts, CodeFacts, Running
  <2>2. Len(gs[caller].slots) >= Base(gs[caller].method) + gs[caller].depth - 1 + NumArgs[cur.method]
    BY <1>4 DEF Counted, Fits, cur
  <2>3. Fits(gs[caller], 0, FALSE)
    <3> DEFINE had == Len(gs[caller].slots)
               base == Base(gs[caller].method)
               depth == gs[caller].depth
               args == NumArgs[cur.method]
    <3>1. /\ had \in Nat /\ base \in Nat /\ depth \in Nat /\ args \in Nat
          /\ had >= base + depth - 1 + args
      BY <2>1, <2>2
    <3> HIDE DEF had, base, depth, args
    <3>2. had >= base + depth - 1 + 0
      BY <3>1
    <3> QED
      BY <3>2 DEF Fits, had, base, depth
  <2> QED
    BY <2>3, <1>4 DEF Counted, Fits
<1>6. ValueOk(sender, gs) /\ ValueOk(cur.slots[1], gs)
  <2>1. \A f \in 1..Len(frames) : \A i \in 1..Len(frames[f].slots) : ValueOk(frames[f].slots[i], gs)
    BY <1>3 DEF Left
  <2>2. OuterContext(caller) \in 1..Len(frames) /\ HasVariables(frames[OuterContext(caller)])
    <3>1. ContextLevels(caller) = Along(caller, Contexts(frames))
      BY DEF ContextLevels, Contexts
    <3>2. OuterContext(caller) \in ContextLevels(caller)
      BY <1>0, <1>2, <3>1, ContextFacts DEF OuterContext
    <3> QED
      BY <1>0, <1>2, <3>1, <3>2, ContextFacts
  <2>3. \A f \in 1..Len(frames) : HasVariables(frames[f]) => 1 \in 1..Len(frames[f].slots)
    <3>1. \A f \in 1..Len(frames) : /\ Len(frames[f].slots) \in Nat
                                    /\ Base(frames[f].method) \in Nat
                                    /\ Base(frames[f].method) >= 1
      BY <1>0, FrameFacts, CodeFacts
    <3> QED
      BY <3>1 DEF HasVariables
  <2>4. frame \in 1..Len(frames) /\ HasVariables(frames[frame])
    BY Running DEF cur
  <2> QED
    BY <2>1, <2>2, <2>3, <2>4 DEF cur
<1> HIDE DEF gs, caller, sender
<1>7. OkSlots(operands, gs) /\ Len(operands) = NumArgs[EscapedBlock]
  BY <1>6, HandlerFacts DEF OkSlots, ValueOk
<1>8. /\ Linked(frames', frame', replaced)
      /\ \/ outcome' = "error"
         \/ outcome' = outcome /\ Counted(frames', frame', 1, FALSE)
  BY <1>1, <1>3, <1>5, <1>7, HandlerFacts, SendToKeeps
<1> QED
  BY <1>1, <1>8, StillRuns, Stopped

-----------------------------------------------------------------------------
(* The invariant holds.                                                     *)

LEMMA NextKeepsFrames ==
  ASSUME FramesInv, [Next]_vars
  PROVE  FramesInv'
<1>1. CASE Next
  <2>0. Bytecode /\ executed' = executed + 1
    BY <1>1 DEF Next
  <2>1. CASE Dup \/ PushObject \/ PushBlock \/ PushVariable
    BY <2>0, <2>1, PushesKeep
  <2>2. CASE Pop
    BY <2>0, <2>2, PopKeepsInv
  <2>3. CASE PopVariable
    BY <2>0, <2>3, PopVariableKeeps
  <2>4. CASE CallMethod \/ Evaluate
    BY <2>0, <2>4, CallsKeep
  <2>5. CASE CallPrimitive
    BY <2>0, <2>5, PrimitivesKeep
  <2>6. CASE Restart
    BY <2>0, <2>6, RestartKeeps
  <2>7. CASE SendNotUnderstood \/ PushUnknownGlobal \/ SuperSendNotUnderstood
    BY <2>0, <2>7, UnplannedSendsKeep
  <2>8. CASE ReturnLocal \/ ReturnNonLocal
    BY <2>0, <2>8, ReturnsKeep
  <2>9. CASE ReturnEscaped
    BY <2>0, <2>9, EscapedKeeps
  <2>10. CASE Halt
    BY <2>0, <2>10, Stopped DEF Halt, FramesInv
  <2> QED
    BY <2>0, <2>1, <2>2, <2>3, <2>4, <2>5, <2>6, <2>7, <2>8, <2>9, <2>10 DEF Bytecode
<1>2. CASE UNCHANGED vars
  BY <1>2 DEF vars, machine, FramesInv, FailuresExplained
<1> QED
  BY <1>1, <1>2

LEMMA InitFrames ==
  ASSUME Init
  PROVE  FramesInv
<1> DEFINE bottom == [method |-> Bootstrap, ip |-> 0, prev |-> NoFrame, context |-> NoFrame,
                      slots |-> Fill(3), size |-> 3, depth |-> 1]
           fs == <<bottom>>
           r == NewFrame(1, bottom.slots, Initialize, NoFrame)
<1>0. /\ Bootstrap \in Code /\ Initialize \in Code /\ NumArgs[Initialize] = 2
      /\ NumArgs[Bootstrap] = 1 /\ NumLocals[Bootstrap] = 0 /\ Base(Bootstrap) = 1
      /\ MaxStack[Bootstrap] = 2 /\ MaxFrames \in Nat /\ MaxFrames >= 2
  BY CodeAssumption DEF Code, Base
<1>1. /\ frames = <<bottom, r>> /\ frame = 2 /\ outcome = "run" /\ replaced = {}
      /\ unguarded = FALSE /\ executed = 0
  BY DEF Init
<1>2. Len(fs) = 1 /\ OkSlots(Fill(3), fs) /\ Len(Fill(3)) = 3
  <2>1. Len(fs) = 1
    OBVIOUS
  <2>2. \A n \in Nat : OkSlots(Fill(n), fs) /\ Len(Fill(n)) = n
    <3> HIDE DEF fs
    <3> QED
      BY <2>1, FillOk
  <2> QED
    BY <2>1, <2>2
<1>3. /\ bottom \in FrameType /\ bottom.slots = Fill(3) /\ bottom.method = Bootstrap
      /\ bottom.prev = 0 /\ bottom.context = 0 /\ bottom.size = 3 /\ bottom.depth = 1
  BY <1>0, <1>2 DEF FrameType, OkSlots, NoFrame
<1>4. /\ r \in FrameType /\ r.prev = 1 /\ r.context = 0 /\ r.method = Initialize
      /\ OkSlots(r.slots, fs) /\ HasVariables(r) /\ Roomy(r) /\ \A tight \in BOOLEAN : Fits(r, 1, tight)
  <2>2. r = NewFrame(1, Fill(3), Initialize, 0)
    BY <1>3 DEF NoFrame
  <2> HIDE DEF fs, bottom, r
  <2>1. /\ Len(fs) \in Nat /\ 1 \in 0..MaxFrames /\ 0 \in 0..MaxFrames
        /\ Len(Fill(3)) >= NumArgs[Initialize]
    <3>1. Len(fs) \in Nat
      BY <1>2
    <3>2. 1 \in 0..MaxFrames /\ 0 \in 0..MaxFrames
      BY <1>0
    <3>3. Len(Fill(3)) = 3 /\ NumArgs[Initialize] = 2
      BY <1>0, <1>2
    <3>4. Len(Fill(3)) >= NumArgs[Initialize]
      BY <3>3
    <3> QED
      BY <3>1, <3>2, <3>4
  <2> QED
    BY <2>1, <2>2, <1>0, <1>2, NewFrameIs
<1>5. /\ Len(frames) = 2 /\ DOMAIN frames = 1..2 /\ frames[1] = bottom /\ frames[2] = r
      /\ frames \in Seq(FrameType)
  BY <1>1, <1>3, <1>4
<1>6. Len(fs) = 1 /\ fs[1] = bottom
  OBVIOUS
<1> HIDE DEF bottom, fs, r
<1>7. Stack(frames, frame) = {1, 2}
  <2> DEFINE link == Prevs(frames)
  <2>1. link \in [1..2 -> Nat] /\ link[1] = 0 /\ link[2] = 1
    BY <1>3, <1>4, <1>5 DEF Prevs
  <2> HIDE DEF link
  <2>2. Descends(link, 2)
    BY <2>1 DEF Descends
  <2>3. Along(1, link) = {1}
    BY <2>1, <2>2, AlongUnfold DEF NoFrame
  <2>4. Along(2, link) = {2} \cup Along(1, link)
    BY <2>1, <2>2, AlongUnfold DEF NoFrame
  <2> QED
    BY <2>3, <2>4, <1>1 DEF Stack, link
<1>8. HasVariables(bottom) /\ Roomy(bottom) /\ \A tight \in BOOLEAN : Fits(bottom, 2, tight)
  <2>1. /\ Len(bottom.slots) = 3 /\ Base(bottom.method) = 1 /\ MaxStack[bottom.method] = 2
        /\ bottom.size = 3 /\ bottom.depth = 1
    BY <1>0, <1>2, <1>3
  <2> QED
    BY <2>1 DEF HasVariables, Roomy, Fits
<1>9. \A v : ValueOk(v, fs) => ValueOk(v, frames)
  <2>1. \A v : ValueOk(v, fs) => v \in Values /\ v.home <= 1 /\ v.home \in 0..MaxFrames
    BY <1>6, ValueFacts DEF ValueOk
  <2> QED
    BY <2>1, <1>0, <1>5, <1>6 DEF ValueOk, NoFrame
<1>10. Linked(frames, frame, replaced)
  <2>1. \A f \in 1..2 : /\ frames[f].prev < f /\ frames[f].context < f /\ frames[f].context = 0
                        /\ OkSlots(frames[f].slots, fs) /\ HasVariables(frames[f])
                        /\ frames[f].prev = 0 => f = 1
    BY <1>2, <1>3, <1>4, <1>5, <1>8
  <2>2. \A f \in 1..2 : \A i \in 1..Len(frames[f].slots) : ValueOk(frames[f].slots[i], frames)
    BY <2>1, <1>9 DEF OkSlots
  <2>3. \A f \in 1..2 : frames[f].context # NoFrame => HasVariables(frames[frames[f].context])
    BY <2>1 DEF NoFrame
  <2>4. frames[1].method = Bootstrap /\ replaced \subseteq 1..2 /\ frame \in 1..2
        /\ (1..2) \ Stack(frames, frame) = {} /\ Stack(frames, frame) \subseteq 1..2
    BY <1>1, <1>3, <1>5, <1>7
  <2>5. frames \in Seq(FrameType) /\ Len(frames) = 2 /\ Len(frames) <= MaxFrames
    BY <1>0, <1>5
  <2> QED
    BY <2>1, <2>2, <2>3, <2>4, <2>5 DEF Linked, NoFrame
<1>11. \A tight \in BOOLEAN : Counted(frames, frame, 1, tight)
  BY <1>0, <1>1, <1>3, <1>4, <1>5, <1>7, <1>8 DEF Counted, NoFrame
<1>12. (~unguarded /\ ~TwoArgumentBlock) \in BOOLEAN
  OBVIOUS
<1> QED
  BY <1>1, <1>10, <1>11, <1>12 DEF FramesInv, FailuresExplained

LEMMA FramesAlwaysInv == Spec => []FramesInv
<1>1. Init => FramesInv
  BY InitFrames
<1>2. FramesInv /\ [Next]_vars => FramesInv'
  BY NextKeepsFrames
<1> QED
  BY <1>1, <1>2, PTL DEF Spec

-----------------------------------------------------------------------------
(* The theorems.                                                            *)

\* What the invariant says of the operands of a frame.
LEMMA CallersHaveOperands ==
  ASSUME FramesInv, outcome = "run", NEW f \in Callers
  PROVE  Len(frames[f].slots) >= Base(frames[f].method) + frames[f].depth
<1>1. /\ Callers = Stack(frames, frame) /\ Linked(frames, frame, replaced)
      /\ Counted(frames, frame, 1, Tight)
  BY Running DEF FramesInv
<1>2. f \in 1..Len(frames)
  BY <1>1, StackFacts
<1>3. /\ Len(frames[f].slots) \in Nat /\ Base(frames[f].method) \in Nat /\ frames[f].depth \in Nat
  BY <1>1, <1>2, FrameFacts, CodeFacts
<1>4. \E n \in Nat \ {0} : Fits(frames[f], n, Tight)
  <2>1. CASE f = frame
    BY <2>1, <1>1 DEF Counted
  <2>2. CASE f # frame
    <3>1. PICK g \in Callers : frames[g].prev = f
      BY <2>2, <1>1, StackFacts
    <3>2. f # NoFrame
      BY <1>2 DEF NoFrame
    <3>3. Fits(frames[f], NumArgs[frames[g].method], Tight)
      BY <1>1, <3>1, <3>2 DEF Counted
    <3>4. NumArgs[frames[g].method] \in Nat \ {0}
      BY <1>1, StackFacts, FrameFacts, CodeFacts
    <3> QED
      BY <3>3, <3>4
  <2> QED
    BY <2>1, <2>2
<1>5. PICK n \in Nat \ {0} : Len(frames[f].slots) >= Base(frames[f].method) + frames[f].depth - 1 + n
  BY <1>4 DEF Fits
<1> QED
  BY <1>3, <1>5

LEMMA InvariantIsSound ==
  ASSUME FramesInv
  PROVE  FramesSound /\ EscapesRecognised
<1>1. Linked(frames, frame, replaced) /\ Callers = Stack(frames, frame) /\ DOMAIN frames = 1..Len(frames)
  BY Running DEF FramesInv
<1>2. TypeOK
  BY <1>1 DEF FramesInv, Linked, TypeOK, FrameType
<1>3. OperandsAvailable
  BY CallersHaveOperands DEF OperandsAvailable
<1>4. EscapesRecognised
  BY <1>1 DEF Linked, EscapesRecognised
<1> QED
  BY <1>2, <1>3, <1>4 DEF FramesSound, FramesInv

\* In every program, whatever the size of its methods, an operand that a
\* bytecode takes is one the compiler counted (src/interpreter/Interpreter.cpp:187-388), and the
\* interpreter only gives up for the reasons that FailuresExplained names.
THEOREM FramesAlwaysSound == Spec => []FramesSound
<1>1. FramesInv => FramesSound
  BY InvariantIsSound
<1> QED
  BY <1>1, FramesAlwaysInv, PTL

\* In every program a frame off the stack has lost its previous frame, by which
\* a block finds that its method has returned, unless an emergency frame took
\* its place (Interpreter::popFrame, VMFrame::EmergencyFrameFrom).
THEOREM EscapesAlwaysRecognised == Spec => []EscapesRecognised
<1>1. FramesInv => EscapesRecognised
  BY InvariantIsSound
<1> QED
  BY <1>1, FramesAlwaysInv, PTL

\* However one of them changes, the frames are as many.
LEMMA ExceptLength ==
  ASSUME NEW T, NEW fs \in Seq(T), NEW k, NEW x
  PROVE  [fs EXCEPT ![k] = x] \in Seq(T \cup {x}) /\ Len([fs EXCEPT ![k] = x]) = Len(fs)
<1> DEFINE gs == [fs EXCEPT ![k] = x]
<1>1. Len(fs) \in Nat /\ DOMAIN fs = 1..Len(fs) /\ fs \in [1..Len(fs) -> T]
  OBVIOUS
<1>2. gs \in [1..Len(fs) -> T \cup {x}] /\ DOMAIN gs = 1..Len(fs)
  BY <1>1
<1> HIDE DEF gs
<1>3. gs \in Seq(T \cup {x})
  BY <1>1, <1>2
<1>4. Len(gs) \in Nat /\ DOMAIN gs = 1..Len(gs)
  BY <1>3, LenProperties
<1>5. gs \in Seq(T \cup {x}) /\ Len(gs) = Len(fs)
  BY <1>1, <1>2, <1>3, <1>4
<1> QED
  BY <1>5 DEF gs

\* A send that succeeds runs a new frame.
LEMMA SendGoesUp ==
  ASSUME NEW T, NEW fs \in Seq(T), NEW k, NEW handler, NEW operands,
         SendTo(fs, k, handler, operands), outcome' = "run"
  PROVE  frame' = Len(fs) + 1
<1> DEFINE x == [fs[k] EXCEPT !.slots = @ \o operands]
           gs == [fs EXCEPT ![k].slots = @ \o operands]
<1>1. Invoke(gs, k, handler, NoFrame)
  BY DEF SendTo
<1>2. gs = [fs EXCEPT ![k] = x]
  OBVIOUS
<1>3. frame' = Len(gs) + 1
  BY <1>1 DEF Invoke
<1> HIDE DEF gs, x
<1>4. Len([fs EXCEPT ![k] = x]) = Len(fs)
  BY ExceptLength, Zenon
<1> QED
  BY <1>2, <1>3, <1>4, Zenon

\* Only a return goes on in another frame that was on the stack.
LEMMA OnlyReturnsGoDown ==
  ASSUME FramesInv, Next, outcome' = "run", frame' \in Callers \ {frame}
  PROVE  ReturnLocal \/ ReturnNonLocal
<1>0. /\ frames \in Seq(FrameType) /\ Len(frames) \in Nat
      /\ Callers \subseteq 1..Len(frames)
  <2>1. Linked(frames, frame, replaced) /\ Callers = Stack(frames, frame)
    BY Running DEF FramesInv
  <2>2. Callers \subseteq 1..Len(frames)
    BY <2>1, StackFacts
  <2>3. frames \in Seq(FrameType)
    BY <2>1 DEF Linked
  <2> QED
    BY <2>2, <2>3
<1>1. \A k, x : Len([frames EXCEPT ![k] = x]) = Len(frames)
  BY <1>0, ExceptLength, Zenon
<1>2. SUFFICES ASSUME ~(ReturnLocal \/ ReturnNonLocal)
               PROVE  frame' = frame \/ frame' > Len(frames)
  BY <1>0
<1>3. CASE Dup \/ PushObject \/ PushBlock \/ PushVariable \/ Pop \/ CallPrimitive
  <2>1. PICK slots, depth : Local(slots, depth)
    BY <1>3 DEF Dup, PushObject, PushBlock, PushVariable, Push, Pop, CallPrimitive
  <2> QED
    BY <2>1 DEF Local, Fail
<1>4. CASE PopVariable \/ Restart \/ Halt
  BY <1>4 DEF PopVariable, Restart, Halt
<1>5. CASE CallMethod \/ Evaluate
  <2>1. PICK n, k, c, context : Invoke(Calling(n), k, c, context)
    BY <1>5 DEF CallMethod, Evaluate, Fail
  <2>2. Len(Calling(n)) = Len(frames)
    BY <1>1 DEF Calling
  <2> QED
    BY <2>1, <2>2, <1>0 DEF Invoke
<1>6. CASE SuperSendNotUnderstood
  <2>1. PICK x, handler, operands : SendTo([frames EXCEPT ![frame] = x], frame, handler, operands)
    BY <1>6 DEF SuperSendNotUnderstood
  <2> DEFINE fs == [frames EXCEPT ![frame] = x]
  <2>2. SendTo(fs, frame, handler, operands)
    BY <2>1
  <2>3. fs \in Seq(FrameType \cup {x}) /\ Len(fs) = Len(frames)
    BY <1>0, ExceptLength, Zenon
  <2> HIDE DEF fs
  <2>4. frame' = Len(fs) + 1
    BY <2>2, <2>3, SendGoesUp
  <2> QED
    BY <2>3, <2>4, <1>0
<1>7. CASE SendNotUnderstood \/ PushUnknownGlobal
  <2>1. PICK from, handler, receiver : SendWithSpace(from, handler, receiver)
    BY <1>7 DEF SendNotUnderstood, PushUnknownGlobal
  <2> DEFINE fs == [frames EXCEPT ![frame] = from]
  <2>2. fs \in Seq(FrameType \cup {from}) /\ Len(fs) = Len(frames)
    BY <1>0, ExceptLength, Zenon
  <2>3. \/ \E k, operands : SendTo(fs, k, handler, operands)
        \/ \E k, operands, r : SendTo(Append(fs, r), k, handler, operands)
    BY <2>1 DEF SendWithSpace
  <2> HIDE DEF fs
  <2>4. CASE \E k, operands : SendTo(fs, k, handler, operands)
    BY <2>2, <2>4, <1>0, SendGoesUp
  <2>5. CASE \E k, operands, r : SendTo(Append(fs, r), k, handler, operands)
    <3>1. PICK k, operands, r : SendTo(Append(fs, r), k, handler, operands)
      BY <2>5
    <3> DEFINE T == FrameType \cup {from} \cup {r}
               gs == Append(fs, r)
    <3>2. fs \in Seq(T)
      BY <2>2
    <3>3. r \in T
      OBVIOUS
    <3> HIDE DEF T
    <3>4. gs \in Seq(T) /\ Len(gs) = Len(frames) + 1
      BY <3>2, <3>3, <2>2
    <3>5. SendTo(gs, k, handler, operands)
      BY <3>1
    <3> HIDE DEF gs
    <3>6. frame' = Len(gs) + 1
      BY <3>4, <3>5, SendGoesUp
    <3> QED
      BY <3>4, <3>6, <1>0
  <2> QED
    BY <2>3, <2>4, <2>5
<1>8. CASE ReturnEscaped
  <2>1. PICK k, handler, operands : SendTo(Popped({frame}), k, handler, operands)
    BY <1>8 DEF ReturnEscaped
  <2>2. Popped({frame}) \in Seq(FrameType) /\ Len(Popped({frame})) = Len(frames)
    BY PopKeeps DEF FramesInv
  <2> QED
    BY <2>1, <2>2, <1>0, SendGoesUp
<1> QED
  BY <1>2, <1>3, <1>4, <1>5, <1>6, <1>7, <1>8 DEF Next, Bytecode

\* In every program a return, from a method or from any depth of blocks, leaves
\* every frame it passes without a previous frame and hands its result to the
\* caller of the last one (Interpreter::popFrameAndPushResult and
\* doReturnNonLocal).
THEOREM ReturnsUnwind == Spec => UnwindsToCaller
<1>1. ASSUME FramesInv, Next
      PROVE  UnwindsToCallerStep
  <2>1. SUFFICES ASSUME outcome' = "run", frame' \in Callers \ {frame}
                 PROVE  LET left == {f \in Callers : f > frame'}
                        IN  /\ \A f \in left : frames'[f].prev = NoFrame
                            /\ \E f \in left : frames[f].prev = frame'
                            /\ frames'[frame'].slots[Len(frames'[frame'].slots)] = Element(0)
    BY DEF UnwindsToCallerStep
  <2>2. ReturnLocal \/ ReturnNonLocal
    BY <1>1, <2>1, OnlyReturnsGoDown
  <2>3. outcome = "run" /\ LastLeft \in Callers /\ frames[LastLeft].prev # NoFrame
    BY <1>1, <2>1, <2>2, ReturnsAre
  <2>4. PICK above : above \cup {LastLeft} = Leaves(LastLeft)
                     /\ ReturnFrom(LastLeft, above, Element(0))
    BY <1>1, <2>1, <2>2, ReturnsAre
  <2>5. /\ frame' = frames[LastLeft].prev
        /\ \A f \in Leaves(LastLeft) : frames'[f].prev = NoFrame
        /\ frames'[frame'].slots[Len(frames'[frame'].slots)] = Element(0)
    BY <1>1, <2>3, <2>4, ReturnIs
  <2>6. Callers = Stack(frames, frame) /\ Linked(frames, frame, replaced)
    BY <1>1, Running DEF FramesInv
  <2>7. /\ frames[LastLeft].prev < LastLeft
        /\ \A f \in Callers : f > frames[LastLeft].prev => f >= LastLeft
    BY <2>3, <2>6, StackBelow
  <2>8. LastLeft \in Nat /\ frame' \in Nat
    BY <2>3, <2>5, <2>6, StackFacts, FrameFacts
  <2>9. {f \in Callers : f > frame'} \subseteq Leaves(LastLeft) /\ LastLeft > frame'
    BY <2>5, <2>7, <2>8 DEF Leaves
  <2> QED
    BY <2>3, <2>5, <2>9
<1>2. FramesInv /\ [Next]_vars => [UnwindsToCallerStep]_vars
  BY <1>1
<1> QED
  BY <1>2, FramesAlwaysInv, PTL DEF Spec, UnwindsToCaller

=============================================================================
