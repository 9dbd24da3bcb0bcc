--------------------------- MODULE ReferencesProof ---------------------------
(***************************************************************************)
(* Proofs about what actors know of each other's objects.  The first part   *)
(* is about Serialization: messages are decoded to what they were sent      *)
(* with, and every frame that waits for a result gets one.  The second is   *)
(* about RemoteReferences: who is registered as a holder of a reference.    *)
(***************************************************************************)
EXTENDS Serialization, RemoteReferences, FiniteSetTheorems, SequenceTheorems,
        WellFoundedInduction, TLAPS

-----------------------------------------------------------------------------
(* Induction over numbers: a set that holds 0 and with each number the next. *)

LEMMA Induction ==
  ASSUME NEW S, 0 \in S, \A n \in Nat : n \in S => n + 1 \in S
  PROVE  Nat \subseteq S
<1>1. SUFFICES ASSUME Nat \ S # {} PROVE FALSE
  OBVIOUS
<1> DEFINE below(x) == {y \in Nat \ S : y <= x}
           T == {below(x) : x \in Nat \ S}
           R == StrictSubsetOrdering(Nat)
           F == FiniteSubsetsOf(Nat)
<1>2. ASSUME NEW x \in Nat PROVE below(x) \in SUBSET Nat /\ IsFiniteSet(below(x))
  <2>1. below(x) \in SUBSET Nat /\ x \in Nat /\ \A s \in below(x) : s <= x
    OBVIOUS
  <2> HIDE DEF below
  <2>2. QED
    BY <2>1, FS_BoundedSetOfNaturals
<1>3. T \subseteq F /\ T # {}
  BY <1>1, <1>2 DEF FiniteSubsetsOf
<1>4. \E m \in T : \A t \in T : ~(<<t, m>> \in R)
  <2>1. IsWellFoundedOn(R, F)
    BY FS_StrictSubsetOrderingWellFounded
  <2> HIDE DEF T, R, F
  <2>2. QED
    BY <1>3, <2>1, WFMin
<1>5. PICK x \in Nat \ S : \A y \in Nat \ S : ~(<<below(y), below(x)>> \in R)
  BY <1>4
<1>6. x # 0 /\ x - 1 \in Nat /\ (x - 1) + 1 = x
  BY <1>5
<1>7. x - 1 \in Nat \ S
  BY <1>5, <1>6
<1>8. below(x - 1) \subseteq below(x) /\ x \in below(x) /\ x \notin below(x - 1)
  BY <1>5, <1>6
<1>9. <<below(x - 1), below(x)>> \in R
  BY <1>8 DEF StrictSubsetOrdering
<1>10. QED
  BY <1>5, <1>7, <1>9

-----------------------------------------------------------------------------
(* The sum of a sequence of sizes.                                          *)

SumOf(f, s) == f = [n \in 0 .. Len(s) |-> IF n = 0 THEN 0 ELSE f[n - 1] + s[n]]

LEMMA SumExists ==
  ASSUME NEW s, Len(s) \in Nat
  PROVE  \E f : SumOf(f, s) /\ Total(s) = f[Len(s)]
<1> DEFINE Part(f, k) == f = [n \in 0 .. k |-> IF n = 0 THEN 0 ELSE f[n - 1] + s[n]]
           S == {k \in Nat : \E f : Part(f, k)}
<1>1. 0 \in S
  <2> DEFINE g == [n \in 0 .. 0 |-> 0]
  <2>1. Part(g, 0)
    OBVIOUS
  <2>2. QED
    BY <2>1
<1>2. ASSUME NEW k \in Nat, k \in S PROVE k + 1 \in S
  <2>1. PICK f : Part(f, k)
    BY <1>2
  <2> DEFINE g == [n \in 0 .. k + 1 |-> IF n = k + 1 THEN f[k] + s[k + 1] ELSE f[n]]
  <2>2. \A n \in 0 .. k : g[n] = f[n]
    OBVIOUS
  <2>3. ASSUME NEW n \in 0 .. k + 1 PROVE g[n] = IF n = 0 THEN 0 ELSE g[n - 1] + s[n]
    <3>1. CASE n = k + 1
      BY <3>1, <2>2
    <3>2. CASE n \in 0 .. k
      <4>1. f[n] = IF n = 0 THEN 0 ELSE f[n - 1] + s[n]
        BY <2>1, <3>2
      <4>2. n # 0 => n - 1 \in 0 .. k
        BY <3>2
      <4>3. QED
        BY <4>1, <4>2, <3>2, <2>2
    <3>3. QED
      BY <3>1, <3>2
  <2>4. Part(g, k + 1)
    BY <2>3
  <2> HIDE DEF g, Part
  <2>5. QED
    BY <2>4
<1>3. Len(s) \in S
  <2> HIDE DEF S
  <2>1. QED
    BY <1>1, <1>2, Induction
<1>4. \E f : SumOf(f, s)
  BY <1>3 DEF SumOf
<1> DEFINE h == CHOOSE f : SumOf(f, s)
<1>5. SumOf(h, s)
  BY <1>4
<1>6. Total(s) = h[Len(s)]
  BY DEF Total, SumOf
<1>7. QED
  BY <1>5, <1>6

LEMMA TotalEmpty ==
  ASSUME NEW s, Len(s) = 0
  PROVE  Total(s) = 0
<1>1. PICK f : SumOf(f, s) /\ Total(s) = f[Len(s)]
  BY SumExists
<1>2. QED
  BY <1>1 DEF SumOf

LEMMA TotalOne ==
  ASSUME NEW n \in Nat
  PROVE  Total(<<n>>) = n
<1>1. Len(<<n>>) = 1 /\ <<n>>[1] = n
  OBVIOUS
<1>2. PICK f : SumOf(f, <<n>>) /\ Total(<<n>>) = f[1]
  BY <1>1, SumExists
<1>3. f[0] = 0 /\ f[1] = f[0] + n
  BY <1>1, <1>2 DEF SumOf
<1>4. QED
  BY <1>2, <1>3

\* A sum up to each place.
LEMMA SumStep ==
  ASSUME NEW s \in Seq(Nat), NEW f, SumOf(f, s)
  PROVE  /\ f[0] = 0
         /\ \A n \in 0 .. Len(s) : f[n] \in Nat
         /\ \A n \in 0 .. Len(s) : n < Len(s) => f[n + 1] = f[n] + s[n + 1]
<1>1. Len(s) \in Nat /\ \A n \in 1 .. Len(s) : s[n] \in Nat
  OBVIOUS
<1>2. f[0] = 0
  BY <1>1 DEF SumOf
<1>3. ASSUME NEW n \in 1 .. Len(s) PROVE f[n] = f[n - 1] + s[n]
  <2>1. n \in 0 .. Len(s) /\ n # 0
    BY <1>1
  <2>2. f[n] = IF n = 0 THEN 0 ELSE f[n - 1] + s[n]
    BY <2>1 DEF SumOf
  <2>3. QED
    BY <2>1, <2>2
<1>4. ASSUME NEW n \in 0 .. Len(s), n < Len(s) PROVE f[n + 1] = f[n] + s[n + 1]
  <2>1. n + 1 \in 1 .. Len(s) /\ (n + 1) - 1 = n
    BY <1>1, <1>4
  <2>2. QED
    BY <1>3, <2>1
<1> DEFINE S == {n \in Nat : n <= Len(s) => f[n] \in Nat}
<1>5. 0 \in S
  BY <1>2
<1>6. ASSUME NEW n \in Nat, n \in S PROVE n + 1 \in S
  <2>1. CASE n + 1 <= Len(s)
    <3>1. n \in 0 .. Len(s) /\ n < Len(s) /\ n + 1 \in 1 .. Len(s) /\ f[n] \in Nat
      BY <1>1, <1>6, <2>1
    <3>2. QED
      BY <1>1, <1>4, <3>1
  <2>2. CASE ~(n + 1 <= Len(s))
    BY <2>2
  <2>3. QED
    BY <2>1, <2>2
<1> HIDE DEF S
<1>7. Nat \subseteq S
  BY <1>5, <1>6, Induction
<1>8. \A n \in 0 .. Len(s) : f[n] \in Nat
  BY <1>1, <1>7 DEF S
<1>9. QED
  BY <1>2, <1>4, <1>8

LEMMA TotalNat ==
  ASSUME NEW s \in Seq(Nat)
  PROVE  Total(s) \in Nat
<1>1. Len(s) \in Nat
  OBVIOUS
<1>2. PICK f : SumOf(f, s) /\ Total(s) = f[Len(s)]
  BY <1>1, SumExists
<1>3. QED
  BY <1>1, <1>2, SumStep

\* f sums k numbers of s, g sums l of t, and h those of u, which are both together.
SumsOf(k, l, f, g, h, s, t, u) ==
  /\ k \in Nat /\ l \in Nat /\ f[0] = 0 /\ g[0] = 0 /\ h[0] = 0
  /\ \A n \in Nat : n <= k => f[n] \in Nat
  /\ \A n \in Nat : n <= l => g[n] \in Nat
  /\ \A n \in Nat : n < k => f[n + 1] = f[n] + s[n + 1]
  /\ \A n \in Nat : n < l => g[n + 1] = g[n] + t[n + 1]
  /\ \A n \in Nat : n < k + l => h[n + 1] = h[n] + u[n + 1]
  /\ \A n \in Nat : n < k => u[n + 1] = s[n + 1]
  /\ \A n \in Nat : n < l => u[(k + n) + 1] = t[n + 1] /\ t[n + 1] \in Nat

LEMMA SumsJoin ==
  ASSUME NEW k, NEW l, NEW f, NEW g, NEW h, NEW s, NEW t, NEW u,
         SumsOf(k, l, f, g, h, s, t, u)
  PROVE  h[k + l] = f[k] + g[l]
<1> USE DEF SumsOf
<1> DEFINE S == {n \in Nat : n <= k => h[n] = f[n]}
           T == {n \in Nat : n <= l => h[k + n] = f[k] + g[n]}
<1>1. 0 \in S
  OBVIOUS
<1>2. ASSUME NEW n \in Nat, n \in S PROVE n + 1 \in S
  <2> SUFFICES ASSUME n + 1 <= k PROVE h[n + 1] = f[n + 1]
    OBVIOUS
  <2>1. n < k /\ n < k + l /\ h[n] = f[n]
    BY <1>2
  <2>2. QED
    BY <2>1
<1>3. h[k] = f[k]
  <2> HIDE DEF S
  <2>1. k \in S
    BY <1>1, <1>2, Induction
  <2>2. QED
    BY <2>1 DEF S
<1>4. f[k] \in Nat
  OBVIOUS
<1>5. 0 \in T
  BY <1>3, <1>4
<1>6. ASSUME NEW n \in Nat, n \in T PROVE n + 1 \in T
  <2> SUFFICES ASSUME n + 1 <= l PROVE h[k + (n + 1)] = f[k] + g[n + 1]
    OBVIOUS
  <2>1. /\ n <= l /\ n < l /\ h[k + n] = f[k] + g[n] /\ k + n \in Nat /\ k + n < k + l
        /\ k + (n + 1) = (k + n) + 1
    BY <1>6
  <2>2. h[(k + n) + 1] = h[k + n] + t[n + 1] /\ g[n + 1] = g[n] + t[n + 1]
    BY <2>1
  <2>3. g[n] \in Nat /\ t[n + 1] \in Nat
    BY <2>1
  <2>4. QED
    BY <1>4, <2>1, <2>2, <2>3
<1>7. h[k + l] = f[k] + g[l]
  <2> HIDE DEF T
  <2>1. l \in T
    BY <1>5, <1>6, Induction
  <2>2. QED
    BY <2>1 DEF T
<1>8. QED
  BY <1>7

LEMMA TotalConcat ==
  ASSUME NEW s \in Seq(Nat), NEW t \in Seq(Nat)
  PROVE  Total(s \o t) = Total(s) + Total(t)
<1> DEFINE u == s \o t
<1>1. /\ u \in Seq(Nat) /\ Len(u) = Len(s) + Len(t) /\ Len(s) \in Nat /\ Len(t) \in Nat
      /\ \A n \in 1 .. Len(u) : u[n] = IF n <= Len(s) THEN s[n] ELSE t[n - Len(s)]
  BY ConcatProperties
<1> HIDE DEF u
<1>0. Len(s) \in Nat /\ Len(t) \in Nat /\ Len(u) \in Nat
  BY <1>1
<1>2. PICK f : SumOf(f, s) /\ Total(s) = f[Len(s)]
  BY <1>0, SumExists
<1>3. PICK g : SumOf(g, t) /\ Total(t) = g[Len(t)]
  BY <1>0, SumExists
<1>4. PICK h : SumOf(h, u) /\ Total(u) = h[Len(u)]
  BY <1>0, SumExists
<1>5. /\ f[0] = 0 /\ g[0] = 0 /\ h[0] = 0
      /\ \A n \in 0 .. Len(s) : f[n] \in Nat
      /\ \A n \in 0 .. Len(t) : g[n] \in Nat
      /\ \A n \in 0 .. Len(s) : n < Len(s) => f[n + 1] = f[n] + s[n + 1]
      /\ \A n \in 0 .. Len(t) : n < Len(t) => g[n + 1] = g[n] + t[n + 1]
      /\ \A n \in 0 .. Len(u) : n < Len(u) => h[n + 1] = h[n] + u[n + 1]
  BY <1>1, <1>2, <1>3, <1>4, SumStep
<1> DEFINE k == Len(s)
           l == Len(t)
<1>6. /\ k \in Nat /\ l \in Nat /\ Len(u) = k + l
      /\ \A n \in Nat : n <= k => f[n] \in Nat
      /\ \A n \in Nat : n <= l => g[n] \in Nat
      /\ \A n \in Nat : n < k => f[n + 1] = f[n] + s[n + 1]
      /\ \A n \in Nat : n < l => g[n + 1] = g[n] + t[n + 1]
      /\ \A n \in Nat : n < k + l => h[n + 1] = h[n] + u[n + 1]
  <2>1. k \in Nat /\ l \in Nat /\ Len(u) = k + l
    BY <1>0, <1>1
  <2>2. /\ \A n \in 0 .. k : f[n] \in Nat
        /\ \A n \in 0 .. l : g[n] \in Nat
        /\ \A n \in 0 .. k : n < k => f[n + 1] = f[n] + s[n + 1]
        /\ \A n \in 0 .. l : n < l => g[n + 1] = g[n] + t[n + 1]
        /\ \A n \in 0 .. k + l : n < k + l => h[n + 1] = h[n] + u[n + 1]
    BY <1>5, <2>1
  <2> HIDE DEF k, l
  <2>3. QED
    BY <2>1, <2>2
<1>7. \A n \in Nat : n < k => u[n + 1] = s[n + 1]
  <2>1. k \in Nat /\ l \in Nat /\ \A n \in 1 .. k + l : n <= k => u[n] = s[n]
    BY <1>0, <1>1
  <2> HIDE DEF k, l
  <2>2. QED
    BY <2>1
<1>8. \A n \in Nat : n < l => u[(k + n) + 1] = t[n + 1] /\ t[n + 1] \in Nat
  <2>1. k \in Nat /\ l \in Nat /\ \A n \in 1 .. k + l : ~(n <= k) => u[n] = t[n - k]
    BY <1>0, <1>1
  <2>2. \A n \in 1 .. l : t[n] \in Nat
    OBVIOUS
  <2> HIDE DEF k, l
  <2>3. ASSUME NEW n \in Nat, n < l PROVE u[(k + n) + 1] = t[n + 1] /\ t[n + 1] \in Nat
    <3>1. /\ (k + n) + 1 \in 1 .. k + l /\ ~((k + n) + 1 <= k)
          /\ ((k + n) + 1) - k = n + 1 /\ n + 1 \in 1 .. l
      BY <2>1, <2>3
    <3>2. QED
      BY <2>1, <2>2, <3>1
  <2>4. QED
    BY <2>3
<1>9. h[k + l] = f[k] + g[l]
  <2> HIDE DEF k, l
  <2>1. f[0] = 0 /\ g[0] = 0 /\ h[0] = 0
    BY <1>5
  <2>2. QED
    <3>1. SumsOf(k, l, f, g, h, s, t, u)
      BY <1>6, <1>7, <1>8, <2>1 DEF SumsOf
    <3>2. QED
      BY <3>1, SumsJoin
<1>10. QED
  BY <1>1, <1>2, <1>3, <1>4, <1>9 DEF u

-----------------------------------------------------------------------------
(* Sequences of anything.                                                   *)

IsSeq(q) == q \in Seq({q[i] : i \in DOMAIN q})

LEMMA SeqIsSeq ==
  ASSUME NEW S, NEW q \in Seq(S)
  PROVE  IsSeq(q)
<1>1. Len(q) \in Nat /\ DOMAIN q = 1 .. Len(q) /\ q \in [1 .. Len(q) -> S]
  OBVIOUS
<1>2. q \in [1 .. Len(q) -> {q[i] : i \in DOMAIN q}]
  BY <1>1
<1>3. QED
  BY <1>1, <1>2, SeqDef DEF IsSeq

LEMMA FunctionIsSeq ==
  ASSUME NEW q, NEW n \in Nat, DOMAIN q = 1 .. n, q = [i \in DOMAIN q |-> q[i]]
  PROVE  IsSeq(q) /\ Len(q) = n
<1>1. q \in [1 .. n -> {q[i] : i \in DOMAIN q}]
  OBVIOUS
<1>2. QED
  BY <1>1, SeqDef DEF IsSeq

LEMMA Measured ==
  ASSUME NEW q, IsSeq(q)
  PROVE  /\ Len(q) \in Nat /\ DOMAIN q = 1 .. Len(q)
         /\ q = [i \in 1 .. Len(q) |-> q[i]]
BY DEF IsSeq

LEMMA Joined ==
  ASSUME NEW p, IsSeq(p), NEW q, IsSeq(q)
  PROVE  /\ IsSeq(p \o q) /\ Len(p \o q) = Len(p) + Len(q)
         /\ DOMAIN (p \o q) = 1 .. Len(p) + Len(q)
         /\ \A i \in 1 .. Len(p) + Len(q) : (p \o q)[i] = IF i <= Len(p) THEN p[i] ELSE q[i - Len(p)]
<1> DEFINE S == {p[i] : i \in DOMAIN p} \cup {q[i] : i \in DOMAIN q}
<1>1. p \in Seq(S) /\ q \in Seq(S)
  BY DEF IsSeq
<1> HIDE DEF S
<1>2. /\ p \o q \in Seq(S) /\ Len(p \o q) = Len(p) + Len(q)
      /\ \A i \in 1 .. Len(p) + Len(q) : (p \o q)[i] = IF i <= Len(p) THEN p[i] ELSE q[i - Len(p)]
  BY <1>1, ConcatProperties
<1>3. IsSeq(p \o q)
  BY <1>2, SeqIsSeq
<1>4. DOMAIN (p \o q) = 1 .. Len(p \o q)
  BY <1>2
<1>5. QED
  BY <1>2, <1>3, <1>4

LEMMA SameSeq ==
  ASSUME NEW p, IsSeq(p), NEW q, IsSeq(q), Len(p) = Len(q), \A i \in 1 .. Len(p) : p[i] = q[i]
  PROVE  p = q
<1>1. p = [i \in 1 .. Len(p) |-> p[i]] /\ q = [i \in 1 .. Len(q) |-> q[i]]
  BY Measured
<1>2. QED
  BY <1>1

LeftFirst(p, q, r) == (p \o q) \o r
RightFirst(p, q, r) == p \o (q \o r)

LEMMA Associative ==
  ASSUME NEW p, IsSeq(p), NEW q, IsSeq(q), NEW r, IsSeq(r)
  PROVE  LeftFirst(p, q, r) = RightFirst(p, q, r)
<1> DEFINE pq == p \o q
           qr == q \o r
           x == pq \o r
           y == p \o qr
<1>1. /\ IsSeq(pq) /\ Len(pq) = Len(p) + Len(q)
      /\ \A i \in 1 .. Len(p) + Len(q) : pq[i] = IF i <= Len(p) THEN p[i] ELSE q[i - Len(p)]
  BY Joined
<1>2. /\ IsSeq(qr) /\ Len(qr) = Len(q) + Len(r)
      /\ \A i \in 1 .. Len(q) + Len(r) : qr[i] = IF i <= Len(q) THEN q[i] ELSE r[i - Len(q)]
  BY Joined
<1>3. Len(p) \in Nat /\ Len(q) \in Nat /\ Len(r) \in Nat
  BY Measured
<1> HIDE DEF pq, qr
<1>4. /\ IsSeq(x) /\ Len(x) = Len(pq) + Len(r)
      /\ \A i \in 1 .. Len(pq) + Len(r) : x[i] = IF i <= Len(pq) THEN pq[i] ELSE r[i - Len(pq)]
  BY <1>1, Joined
<1>5. /\ IsSeq(y) /\ Len(y) = Len(p) + Len(qr)
      /\ \A i \in 1 .. Len(p) + Len(qr) : y[i] = IF i <= Len(p) THEN p[i] ELSE qr[i - Len(p)]
  BY <1>2, Joined
<1> HIDE DEF x, y
<1>6. ASSUME NEW i \in 1 .. Len(p) + Len(q) + Len(r) PROVE x[i] = y[i]
  <2>1. CASE i <= Len(p)
    BY <1>1, <1>2, <1>3, <1>4, <1>5, <2>1
  <2>2. CASE ~(i <= Len(p)) /\ i <= Len(p) + Len(q)
    <3>1. i - Len(p) \in 1 .. Len(q) + Len(r) /\ i - Len(p) <= Len(q)
      BY <1>3, <2>2
    <3>2. QED
      BY <1>1, <1>2, <1>3, <1>4, <1>5, <2>2, <3>1
  <2>3. CASE ~(i <= Len(p) + Len(q))
    <3>1. i - Len(p) \in 1 .. Len(q) + Len(r) /\ ~(i - Len(p) <= Len(q))
          /\ (i - Len(p)) - Len(q) = i - (Len(p) + Len(q)) /\ ~(i <= Len(p))
      BY <1>3, <2>3
    <3>2. QED
      BY <1>1, <1>2, <1>3, <1>4, <1>5, <2>3, <3>1
  <2>4. QED
    BY <2>1, <2>2, <2>3
<1>7. Len(x) = Len(p) + Len(q) + Len(r) /\ Len(y) = Len(p) + Len(q) + Len(r)
  BY <1>1, <1>2, <1>3, <1>4, <1>5
<1>8. x = y
  BY <1>4, <1>5, <1>6, <1>7, SameSeq
<1>9. QED
  BY <1>8 DEF x, y, pq, qr, LeftFirst, RightFirst

LEMMA NoneYet == IsSeq(<< >>) /\ DOMAIN << >> = {} /\ Len(<< >>) = 0
<1>1. << >> \in Seq({}) /\ Len(<< >>) = 0 /\ DOMAIN << >> = {}
  OBVIOUS
<1>2. IsSeq(<< >>)
  BY <1>1, SeqIsSeq
<1>3. QED
  BY <1>1, <1>2

LEMMA NoneAfter ==
  ASSUME NEW q, IsSeq(q)
  PROVE  q \o << >> = q
<1>1. Len(q) \in Nat
  BY Measured
<1>2. /\ IsSeq(q \o << >>) /\ Len(q \o << >>) = Len(q)
      /\ \A i \in 1 .. Len(q) : (q \o << >>)[i] = q[i]
  BY <1>1, Joined, NoneYet
<1>3. QED
  BY <1>2, SameSeq

LEMMA NoneBefore ==
  ASSUME NEW q, IsSeq(q)
  PROVE  << >> \o q = q
<1> DEFINE p == << >>
           n == Len(q)
<1>1. n \in Nat
  BY Measured
<1>2. IsSeq(p) /\ Len(p) = 0
  BY NoneYet
<1> HIDE DEF p
<1> DEFINE r == p \o q
<1>3. /\ IsSeq(r) /\ Len(r) = 0 + n
      /\ \A i \in 1 .. 0 + n : r[i] = IF i <= 0 THEN p[i] ELSE q[i - 0]
  BY <1>2, Joined
<1> HIDE DEF r, n
<1>4. Len(r) = n /\ \A i \in 1 .. n : r[i] = q[i]
  BY <1>1, <1>3
<1>5. r = q
  BY <1>3, <1>4, SameSeq DEF n
<1>6. QED
  BY <1>5 DEF r, p

\* What is left after the first fields.
LEMMA Rest ==
  ASSUME NEW p, IsSeq(p), NEW q, IsSeq(q), NEW n, n = Len(p)
  PROVE  SubSeq(p \o q, n + 1, Len(p \o q)) = q
<1> DEFINE r == p \o q
           s == SubSeq(r, n + 1, Len(r))
<1>1. /\ IsSeq(r) /\ Len(r) = Len(p) + Len(q) /\ n \in Nat /\ Len(p) \in Nat /\ Len(q) \in Nat
      /\ \A i \in 1 .. Len(p) + Len(q) : r[i] = IF i <= Len(p) THEN p[i] ELSE q[i - Len(p)]
  BY Joined, Measured
<1> HIDE DEF r
<1>2. s = [i \in 1 .. Len(r) - n |-> r[i + n]] /\ Len(s) = Len(r) - n
  <2>1. r \in Seq({r[i] : i \in DOMAIN r}) /\ n + 1 \in 1 .. Len(r) + 1 /\ Len(r) \in n .. Len(r)
    BY <1>1 DEF IsSeq
  <2>2. QED
    BY <1>1, <2>1
<1>3. Len(r) - n = Len(q) /\ \A i \in 1 .. Len(q) : r[i + n] = q[i]
  BY <1>1
<1>4. s = [i \in 1 .. Len(q) |-> q[i]]
  BY <1>2, <1>3
<1>5. q = [i \in 1 .. Len(q) |-> q[i]]
  BY Measured
<1>6. QED
  BY <1>4, <1>5 DEF r

LEMMA Single ==
  ASSUME NEW x
  PROVE  IsSeq(<<x>>) /\ Len(<<x>>) = 1 /\ DOMAIN <<x>> = {1} /\ <<x>>[1] = x
<1>1. <<x>> \in Seq({x})
  OBVIOUS
<1>2. IsSeq(<<x>>)
  BY <1>1, SeqIsSeq
<1>3. QED
  BY <1>1, <1>2

LEMMA Appended ==
  ASSUME NEW q, IsSeq(q), NEW x
  PROVE  /\ IsSeq(Append(q, x)) /\ Len(Append(q, x)) = Len(q) + 1
         /\ DOMAIN Append(q, x) = 1 .. Len(q) + 1
         /\ Append(q, x)[Len(q) + 1] = x
         /\ \A i \in DOMAIN q : Append(q, x)[i] = q[i]
<1> DEFINE S == {q[i] : i \in DOMAIN q} \cup {x}
<1>1. q \in Seq(S) /\ x \in S
  BY DEF IsSeq
<1> HIDE DEF S
<1>2. Append(q, x) \in Seq(S)
  BY <1>1
<1>3. IsSeq(Append(q, x))
  BY <1>2, SeqIsSeq
<1>4. /\ Len(Append(q, x)) = Len(q) + 1 /\ Append(q, x)[Len(q) + 1] = x
      /\ \A i \in 1 .. Len(q) : Append(q, x)[i] = q[i]
  BY <1>1, AppendProperties
<1>5. DOMAIN q = 1 .. Len(q) /\ DOMAIN Append(q, x) = 1 .. Len(Append(q, x))
  BY <1>3, Measured
<1>6. QED
  BY <1>3, <1>4, <1>5

LEMMA Tailed ==
  ASSUME NEW q, IsSeq(q), q # << >>
  PROVE  /\ Len(q) \in Nat /\ Len(q) >= 1 /\ Head(q) = q[1]
         /\ IsSeq(Tail(q)) /\ Len(Tail(q)) = Len(q) - 1 /\ DOMAIN Tail(q) = 1 .. Len(q) - 1
         /\ \A i \in 1 .. Len(q) - 1 : Tail(q)[i] = q[i + 1]
<1> DEFINE S == {q[i] : i \in DOMAIN q}
<1>1. q \in Seq(S)
  BY DEF IsSeq
<1> HIDE DEF S
<1>2. Tail(q) \in Seq(S) /\ Len(Tail(q)) = Len(q) - 1 /\ Len(q) \in Nat /\ Len(q) >= 1
      /\ Head(q) = q[1]
  BY <1>1
<1>3. \A i \in 1 .. Len(q) - 1 : Tail(q)[i] = q[i + 1]
  BY <1>1
<1>4. IsSeq(Tail(q))
  BY <1>2, SeqIsSeq
<1>5. DOMAIN Tail(q) = 1 .. Len(Tail(q))
  BY <1>4, Measured
<1>6. QED
  BY <1>2, <1>3, <1>4, <1>5

LEMMA Updated ==
  ASSUME NEW q, IsSeq(q), NEW i \in DOMAIN q, NEW x
  PROVE  /\ IsSeq([q EXCEPT ![i] = x]) /\ Len([q EXCEPT ![i] = x]) = Len(q)
         /\ DOMAIN [q EXCEPT ![i] = x] = DOMAIN q
         /\ [q EXCEPT ![i] = x][i] = x
         /\ \A j \in DOMAIN q : j # i => [q EXCEPT ![i] = x][j] = q[j]
<1> DEFINE p == [q EXCEPT ![i] = x]
<1>1. p = [j \in DOMAIN q |-> IF j = i THEN x ELSE q[j]]
  OBVIOUS
<1>2. Len(q) \in Nat /\ DOMAIN q = 1 .. Len(q)
  BY Measured
<1>3. DOMAIN p = 1 .. Len(q) /\ p = [j \in DOMAIN p |-> p[j]]
  BY <1>2
<1>4. p[i] = x /\ \A j \in DOMAIN q : j # i => p[j] = q[j]
  BY <1>1
<1> HIDE DEF p
<1>5. IsSeq(p) /\ Len(p) = Len(q)
  BY <1>2, <1>3, FunctionIsSeq
<1>6. QED
  BY <1>2, <1>3, <1>4, <1>5 DEF p

-----------------------------------------------------------------------------
(* What an actor has in memory.                                             *)

Home(o) == Id(Owner[o], Place[o])

TableOk(a, t) ==
  /\ IsSeq(t)
  /\ \A i \in DOMAIN t : t[i] \in Proxies \/ (t[i] \in OwnObjects(a) /\ Place[t[i]] = i)
  /\ \A o \in OwnObjects(a) : Place[o] \in DOMAIN t /\ t[Place[o]] = o
FreeOk(t, f) ==
  /\ IsSeq(f)
  /\ \A k \in DOMAIN f : f[k] \in DOMAIN t /\ t[f[k]] = Freed
  /\ \A k, l \in DOMAIN f : f[k] = f[l] => k = l
ProxiesOk(a, t, s, m) ==
  /\ \A x \in DOMAIN s : /\ x \in Proxies /\ s[x] \in DOMAIN t /\ t[s[x]] = x
                         /\ x.id \in DOMAIN m /\ m[x.id] = x
  /\ \A id \in DOMAIN m : /\ m[id] \in DOMAIN s /\ m[id].id = id
                          /\ \E o \in Objects : id = Home(o) /\ Owner[o] # a

LEMMA FreedIsNone ==
  /\ Freed \in Proxies /\ Freed \notin Objects
  /\ \A o \in Objects : Freed.id # Home(o)
BY OwnersAssumption, SerializationAssumption DEF Freed, Proxies, Ids, Id, Home

IsReader(r) ==
  r \in [fields : {r.fields}, out : {r.out}, table : {r.table}, free : {r.free},
         self : {r.self}, objectMap : {r.objectMap}]

LEMMA EntryAdded ==
  ASSUME NEW a \in Actors, NEW r, IsReader(r), TableOk(a, r.table), FreeOk(r.table, r.free),
         NEW x \in Proxies
  PROVE  LET s == AddObject(r, x)
             i == NextIndex(r)
         IN  /\ IsReader(s) /\ s.fields = r.fields /\ s.out = r.out /\ s.objectMap = r.objectMap
             /\ s.self = Put(r.self, x, i)
             /\ TableOk(a, s.table) /\ FreeOk(s.table, s.free)
             /\ i \in Nat /\ i \in DOMAIN s.table /\ s.table[i] = x
             /\ i \in DOMAIN r.table => r.table[i] = Freed
             /\ DOMAIN r.table \subseteq DOMAIN s.table
             /\ \A j \in DOMAIN r.table : j # i => s.table[j] = r.table[j]
<1> DEFINE i == NextIndex(r)
           s == AddObject(r, x)
           t == IF r.free # << >> THEN [r.table EXCEPT ![i] = x] ELSE Append(r.table, x)
           f == IF r.free # << >> THEN Tail(r.free) ELSE r.free
<1>1. /\ IsReader(s) /\ s.fields = r.fields /\ s.out = r.out /\ s.objectMap = r.objectMap
      /\ s.self = Put(r.self, x, i) /\ s.table = t /\ s.free = f
  BY DEF AddObject, NextIndex, IsReader
<1>2. Len(r.table) \in Nat /\ DOMAIN r.table = 1 .. Len(r.table)
  BY Measured DEF TableOk
<1>3. Len(r.free) \in Nat /\ DOMAIN r.free = 1 .. Len(r.free)
  BY Measured DEF FreeOk
<1>4. CASE r.free # << >>
  <2>1. /\ i = r.free[1] /\ 1 \in DOMAIN r.free /\ IsSeq(f) /\ DOMAIN f = 1 .. Len(r.free) - 1
        /\ \A k \in 1 .. Len(r.free) - 1 : f[k] = r.free[k + 1]
    BY <1>3, <1>4, Tailed DEF FreeOk, NextIndex
  <2>2. i \in DOMAIN r.table /\ r.table[i] = Freed
    BY <2>1 DEF FreeOk
  <2> HIDE DEF i
  <2>3. /\ IsSeq(t) /\ DOMAIN t = DOMAIN r.table /\ t[i] = x
        /\ \A j \in DOMAIN r.table : j # i => t[j] = r.table[j]
    BY <1>4, <2>2, Updated DEF TableOk
  <2> HIDE DEF t, f
  <2>4. TableOk(a, t)
    <3>1. \A o \in OwnObjects(a) : Place[o] # i
      BY <2>2, FreedIsNone DEF TableOk, OwnObjects
    <3>2. ASSUME NEW j \in DOMAIN t
          PROVE  t[j] \in Proxies \/ (t[j] \in OwnObjects(a) /\ Place[t[j]] = j)
      <4>1. CASE j = i
        <5>1. t[j] = x
          BY <2>3, <4>1
        <5>2. QED
          BY <5>1
      <4>2. CASE j # i
        BY <2>3, <4>2 DEF TableOk
      <4>3. QED
        BY <4>1, <4>2
    <3>3. ASSUME NEW o \in OwnObjects(a) PROVE Place[o] \in DOMAIN t /\ t[Place[o]] = o
      BY <2>3, <3>1 DEF TableOk
    <3>4. QED
      BY <2>3, <3>2, <3>3 DEF TableOk
  <2>5. ASSUME NEW k \in DOMAIN f
        PROVE  k + 1 \in DOMAIN r.free /\ f[k] = r.free[k + 1] /\ f[k] # i
    <3>1. k \in Nat /\ k + 1 \in DOMAIN r.free /\ 1 \in DOMAIN r.free /\ k + 1 # 1
      BY <1>3, <2>1
    <3>2. f[k] = r.free[k + 1] /\ i = r.free[1]
      BY <1>3, <2>1
    <3>3. QED
      BY <3>1, <3>2 DEF FreeOk
  <2>6. FreeOk(t, f)
    <3>1. \A k \in DOMAIN f : f[k] \in DOMAIN t /\ t[f[k]] = Freed
      BY <2>3, <2>5 DEF FreeOk
    <3>2. ASSUME NEW k \in DOMAIN f, NEW l \in DOMAIN f, f[k] = f[l] PROVE k = l
      <4>1. k + 1 = l + 1 /\ k \in Nat /\ l \in Nat
        BY <1>3, <2>1, <2>5, <3>2 DEF FreeOk
      <4>2. QED
        BY <4>1
    <3>3. QED
      BY <2>1, <3>1, <3>2 DEF FreeOk
  <2>7. i \in Nat /\ i \in DOMAIN t
    BY <1>2, <2>2, <2>3
  <2>8. QED
    BY <1>1, <2>2, <2>3, <2>4, <2>6, <2>7 DEF i
<1>5. CASE r.free = << >>
  <2>1. i = Len(r.table) + 1
    BY <1>5 DEF NextIndex
  <2> HIDE DEF i
  <2>2. /\ IsSeq(t) /\ DOMAIN t = 1 .. Len(r.table) + 1 /\ t[i] = x
        /\ \A j \in DOMAIN r.table : t[j] = r.table[j]
    BY <1>5, <2>1, Appended DEF TableOk
  <2>3. f = r.free
    BY <1>5
  <2>4. i \notin DOMAIN r.table /\ i \in Nat /\ i \in DOMAIN t /\ DOMAIN r.table \subseteq DOMAIN t
        /\ \A j \in DOMAIN t : j \in DOMAIN r.table \/ j = i
    BY <1>2, <2>1, <2>2
  <2> HIDE DEF t, f
  <2>5. TableOk(a, t)
    <3>1. ASSUME NEW j \in DOMAIN t
          PROVE  t[j] \in Proxies \/ (t[j] \in OwnObjects(a) /\ Place[t[j]] = j)
      <4>1. CASE j = i
        <5>1. t[j] = x
          BY <2>2, <4>1
        <5>2. QED
          BY <5>1
      <4>2. CASE j \in DOMAIN r.table
        BY <2>2, <4>2 DEF TableOk
      <4>3. QED
        BY <2>4, <4>1, <4>2
    <3>2. ASSUME NEW o \in OwnObjects(a) PROVE Place[o] \in DOMAIN t /\ t[Place[o]] = o
      <4>1. Place[o] \in DOMAIN r.table /\ r.table[Place[o]] = o
        BY DEF TableOk
      <4>2. QED
        BY <2>2, <2>4, <4>1
    <3>3. QED
      BY <2>2, <3>1, <3>2 DEF TableOk
  <2>6. FreeOk(t, f)
    BY <2>2, <2>3, <2>4 DEF FreeOk
  <2>7. QED
    BY <1>1, <2>2, <2>4, <2>5, <2>6 DEF i
<1>6. QED
  BY <1>4, <1>5

\* An immutable object.
Fixed(x) == IsValue(x) /\ x \notin Objects

\* A pointer made of p[2] leads, through this table and these proxies, to x.
Leads(t, s, p, x) ==
  \/ Fixed(x) /\ p = x
  \/ /\ x \in Objects /\ p = Pointer(p[2]) /\ p[2] \in DOMAIN t
     /\ t[p[2]] = x \/ (t[p[2]] \in DOMAIN s /\ t[p[2]].id = Home(x))

\* What a step of a decoder leaves of the memory it found.
Kept(t, s, u, v) ==
  /\ \A i \in DOMAIN t : i \in DOMAIN u /\ (t[i] # Freed => u[i] = t[i])
  /\ DOMAIN s \subseteq DOMAIN v

Reads(a, r) ==
  /\ IsReader(r) /\ IsSeq(r.out)
  /\ TableOk(a, r.table) /\ FreeOk(r.table, r.free) /\ ProxiesOk(a, r.table, r.self, r.objectMap)

LEMMA HomeOk ==
  ASSUME NEW o \in Objects
  PROVE  Owner[o] \in Actors /\ Place[o] \in Nat /\ Home(o) \in Ids /\ o \in OwnObjects(Owner[o])
<1>1. Owner[o] \in Actors /\ IsFiniteSet(Objects)
  BY OwnersAssumption
<1>2. o \in OwnObjects(Owner[o]) /\ OwnObjects(Owner[o]) \subseteq Objects
  BY DEF OwnObjects
<1>3. Cardinality(OwnObjects(Owner[o])) \in Nat
  BY <1>1, <1>2, FS_Subset, FS_CardinalityType
<1>4. Place[o] \in 1 .. Cardinality(OwnObjects(Owner[o]))
  BY <1>1, <1>2, SerializationAssumption
<1>5. Place[o] \in Nat
  BY <1>3, <1>4
<1>6. QED
  BY <1>1, <1>2, <1>5 DEF Home, Id, Ids

LEMMA HomeIsOne ==
  ASSUME NEW o \in Objects, NEW u \in Objects, Home(o) = Home(u)
  PROVE  o = u
BY SerializationAssumption DEF Home, Id

LEMMA ProxyKnown ==
  ASSUME NEW a, NEW t, NEW s, NEW m, ProxiesOk(a, t, s, m), NEW x \in DOMAIN s
  PROVE  x # Freed /\ x \in Proxies /\ x \notin Objects
<1>1. x \in Proxies /\ x.id \in DOMAIN m
  BY DEF ProxiesOk
<1>2. PICK o \in Objects : x.id = Home(o)
  BY <1>1 DEF ProxiesOk
<1>3. x # Freed
  BY <1>2, FreedIsNone
<1>4. QED
  BY <1>1, <1>3, SerializationAssumption

LEMMA LeadsOn ==
  ASSUME NEW a, NEW t, NEW s, NEW m, ProxiesOk(a, t, s, m), NEW u, NEW v, Kept(t, s, u, v),
         NEW p, NEW x, Leads(t, s, p, x)
  PROVE  Leads(u, v, p, x)
<1>1. CASE Fixed(x) /\ p = x
  BY <1>1 DEF Leads
<1>2. CASE x \in Objects /\ p = Pointer(p[2]) /\ p[2] \in DOMAIN t /\ t[p[2]] = x
  BY <1>2, FreedIsNone DEF Leads, Kept
<1>3. CASE /\ x \in Objects /\ p = Pointer(p[2]) /\ p[2] \in DOMAIN t
           /\ t[p[2]] \in DOMAIN s /\ t[p[2]].id = Home(x)
  <2>1. t[p[2]] # Freed
    BY <1>3, ProxyKnown
  <2>2. p[2] \in DOMAIN u /\ u[p[2]] = t[p[2]] /\ t[p[2]] \in DOMAIN v
    BY <1>3, <2>1 DEF Kept
  <2>3. QED
    BY <1>3, <2>2 DEF Leads
<1>4. QED
  BY <1>1, <1>2, <1>3 DEF Leads

LEMMA NextIsNumber ==
  ASSUME NEW a, NEW r, TableOk(a, r.table), FreeOk(r.table, r.free)
  PROVE  NextIndex(r) \in Nat
<1>1. Len(r.table) \in Nat /\ DOMAIN r.table = 1 .. Len(r.table)
  BY Measured DEF TableOk
<1>2. CASE r.free = << >>
  BY <1>1, <1>2 DEF NextIndex
<1>3. CASE r.free # << >>
  <2>1. Len(r.free) \in Nat /\ Len(r.free) >= 1 /\ Head(r.free) = r.free[1]
    BY <1>3, Tailed DEF FreeOk
  <2>2. 1 \in DOMAIN r.free
    BY <2>1, Measured DEF FreeOk
  <2>3. QED
    BY <1>1, <1>3, <2>1, <2>2 DEF FreeOk, NextIndex
<1>4. QED
  BY <1>2, <1>3

LEMMA RemoteMade ==
  ASSUME NEW a \in Actors, NEW r, Reads(a, r), NEW o \in Objects, Owner[o] # a,
         Home(o) \notin DOMAIN r.objectMap
  PROVE  LET s == NewRemoteObject(r, Home(o))
         IN  /\ Reads(a, s) /\ s.fields = r.fields /\ s.out = r.out
             /\ Kept(r.table, r.self, s.table, s.self) /\ Home(o) \in DOMAIN s.objectMap
<1> DEFINE i == NextIndex(r)
           x == Proxy(Home(o), i)
           s == AddObject(r, x)
           m == Put(r.objectMap, Home(o), x)
           n == NewRemoteObject(r, Home(o))
<1>1. i \in Nat
  BY NextIsNumber DEF Reads
<1>2. x \in Proxies /\ x.id = Home(o) /\ x # Freed
  BY <1>1, HomeOk, FreedIsNone DEF Proxy, Proxies
<1> HIDE DEF x
<1>3. /\ IsReader(s) /\ s.fields = r.fields /\ s.out = r.out /\ s.objectMap = r.objectMap
      /\ s.self = Put(r.self, x, i)
      /\ TableOk(a, s.table) /\ FreeOk(s.table, s.free)
      /\ i \in DOMAIN s.table /\ s.table[i] = x
      /\ i \in DOMAIN r.table => r.table[i] = Freed
      /\ DOMAIN r.table \subseteq DOMAIN s.table
      /\ \A j \in DOMAIN r.table : j # i => s.table[j] = r.table[j]
  BY <1>2, EntryAdded DEF Reads
<1> HIDE DEF s, i
<1>4. n = [s EXCEPT !.objectMap = m]
  BY <1>3 DEF NewRemoteObject, s, i, x
<1>5. /\ IsReader(n) /\ n.fields = s.fields /\ n.out = s.out /\ n.table = s.table
      /\ n.free = s.free /\ n.self = s.self /\ n.objectMap = m
  BY <1>3, <1>4 DEF IsReader
<1> HIDE DEF n
<1>6. x \notin DOMAIN r.self
  BY <1>2 DEF Reads, ProxiesOk
<1>7. /\ DOMAIN s.self = DOMAIN r.self \cup {x} /\ s.self[x] = i
      /\ \A y \in DOMAIN r.self : s.self[y] = r.self[y]
  BY <1>3, <1>6 DEF Put
<1>8. /\ DOMAIN m = DOMAIN r.objectMap \cup {Home(o)} /\ m[Home(o)] = x
      /\ \A id \in DOMAIN r.objectMap : m[id] = r.objectMap[id]
  BY DEF Put
<1> HIDE DEF m
<1>9. ASSUME NEW y \in DOMAIN s.self
      PROVE  /\ y \in Proxies /\ s.self[y] \in DOMAIN s.table /\ s.table[s.self[y]] = y
             /\ y.id \in DOMAIN m /\ m[y.id] = y
  <2>1. CASE y = x
    BY <1>2, <1>3, <1>7, <1>8, <2>1
  <2>2. CASE y \in DOMAIN r.self
    <3>1. /\ y \in Proxies /\ r.self[y] \in DOMAIN r.table /\ r.table[r.self[y]] = y
          /\ y.id \in DOMAIN r.objectMap /\ r.objectMap[y.id] = y
      BY <2>2 DEF Reads, ProxiesOk
    <3>2. y # Freed
      BY <2>2, ProxyKnown DEF Reads
    <3>3. r.self[y] # i
      BY <1>3, <3>1, <3>2
    <3>4. s.self[y] = r.self[y]
      BY <1>7, <2>2
    <3>5. s.table[s.self[y]] = y /\ s.self[y] \in DOMAIN s.table
      BY <1>3, <3>1, <3>3, <3>4
    <3>6. QED
      BY <1>8, <3>1, <3>5
  <2>3. QED
    BY <1>7, <2>1, <2>2
<1>10. ASSUME NEW id \in DOMAIN m
       PROVE  /\ m[id] \in DOMAIN s.self /\ m[id].id = id
              /\ \E u \in Objects : id = Home(u) /\ Owner[u] # a
  <2>1. CASE id = Home(o)
    BY <1>2, <1>7, <1>8, <2>1
  <2>2. CASE id \in DOMAIN r.objectMap
    <3>1. /\ r.objectMap[id] \in DOMAIN r.self /\ r.objectMap[id].id = id
          /\ \E u \in Objects : id = Home(u) /\ Owner[u] # a
      BY <2>2 DEF Reads, ProxiesOk
    <3>2. QED
      BY <1>7, <1>8, <2>2, <3>1
  <2>3. QED
    BY <1>8, <2>1, <2>2
<1>11. ProxiesOk(a, n.table, n.self, n.objectMap)
  BY <1>5, <1>9, <1>10 DEF ProxiesOk
<1>12. Kept(r.table, r.self, n.table, n.self)
  BY <1>3, <1>5, <1>7 DEF Kept
<1>13. Reads(a, n)
  BY <1>3, <1>5, <1>11 DEF Reads
<1>14. QED
  BY <1>3, <1>5, <1>8, <1>12, <1>13 DEF n

LEMMA PointerMade ==
  ASSUME NEW a \in Actors, NEW r, Reads(a, r), NEW o \in Objects, Owner[o] # a,
         Home(o) \in DOMAIN r.objectMap
  PROVE  LET s == AddObject(r, r.objectMap[Home(o)])
         IN  /\ Reads(a, s) /\ s.fields = r.fields /\ s.out = r.out
             /\ Kept(r.table, r.self, s.table, s.self)
             /\ Leads(s.table, s.self, Pointer(NextIndex(r)), o)
<1> DEFINE i == NextIndex(r)
           x == r.objectMap[Home(o)]
           s == AddObject(r, x)
<1>1. x \in DOMAIN r.self /\ x.id = Home(o)
  BY DEF Reads, ProxiesOk
<1>2. x \in Proxies /\ x # Freed
  BY <1>1, ProxyKnown DEF Reads
<1> HIDE DEF x
<1>3. /\ IsReader(s) /\ s.fields = r.fields /\ s.out = r.out /\ s.objectMap = r.objectMap
      /\ s.self = Put(r.self, x, i)
      /\ TableOk(a, s.table) /\ FreeOk(s.table, s.free)
      /\ i \in DOMAIN s.table /\ s.table[i] = x
      /\ i \in DOMAIN r.table => r.table[i] = Freed
      /\ DOMAIN r.table \subseteq DOMAIN s.table
      /\ \A j \in DOMAIN r.table : j # i => s.table[j] = r.table[j]
  BY <1>2, EntryAdded DEF Reads
<1> HIDE DEF s, i
<1>4. /\ DOMAIN s.self = DOMAIN r.self /\ s.self[x] = i
      /\ \A y \in DOMAIN r.self : y # x => s.self[y] = r.self[y]
  BY <1>1, <1>3 DEF Put
<1>5. ASSUME NEW y \in DOMAIN s.self
      PROVE  /\ y \in Proxies /\ s.self[y] \in DOMAIN s.table /\ s.table[s.self[y]] = y
             /\ y.id \in DOMAIN s.objectMap /\ s.objectMap[y.id] = y
  <2>1. /\ y \in Proxies /\ r.self[y] \in DOMAIN r.table /\ r.table[r.self[y]] = y
        /\ y.id \in DOMAIN r.objectMap /\ r.objectMap[y.id] = y
    BY <1>4 DEF Reads, ProxiesOk
  <2>2. y # Freed
    BY <1>4, ProxyKnown DEF Reads
  <2>3. CASE y = x
    BY <1>3, <1>4, <2>1, <2>3
  <2>4. CASE y # x
    <3>1. r.self[y] # i
      BY <1>3, <2>1, <2>2
    <3>2. s.self[y] = r.self[y]
      BY <1>4, <2>4
    <3>3. QED
      BY <1>3, <2>1, <3>1, <3>2
  <2>5. QED
    BY <2>3, <2>4
<1>6. ProxiesOk(a, s.table, s.self, s.objectMap)
  <2>1. ASSUME NEW id \in DOMAIN s.objectMap
        PROVE  /\ s.objectMap[id] \in DOMAIN s.self /\ s.objectMap[id].id = id
               /\ \E u \in Objects : id = Home(u) /\ Owner[u] # a
    BY <1>3, <1>4 DEF Reads, ProxiesOk
  <2>2. QED
    BY <1>5, <2>1 DEF ProxiesOk
<1>7. Kept(r.table, r.self, s.table, s.self)
  BY <1>3, <1>4 DEF Kept
<1>8. Leads(s.table, s.self, Pointer(i), o)
  <2>1. Pointer(i)[2] = i /\ Pointer(i) = Pointer(Pointer(i)[2])
    BY DEF Pointer
  <2>2. s.table[i] \in DOMAIN s.self /\ s.table[i].id = Home(o)
    BY <1>1, <1>3, <1>4
  <2>3. QED
    BY <1>3, <2>1, <2>2 DEF Leads
<1>9. Reads(a, s)
  BY <1>3, <1>6 DEF Reads
<1>10. QED
  BY <1>3, <1>7, <1>8, <1>9 DEF s, i, x

-----------------------------------------------------------------------------
(* Decoding one object, and several.                                        *)

Encodes(e, x) ==
  \/ /\ x \in Objects
     /\ \E tag \in {"NotImmutable", "GlobalObjectId"} :
           e = <<Field(tag, tagBytes), Field(Home(x), idBytes)>>
  \/ /\ Fixed(x) /\ IsText(x)
     /\ e = <<Field(x[1], tagBytes), Field(Chars(x), sizeBytes), Field(x[2], Chars(x) + 1)>>
  \/ /\ Fixed(x) /\ ~IsText(x)
     /\ e = <<Field(x[1], tagBytes), Field(x[2], Width(x[1]))>>

LEMMA KeptBoth ==
  ASSUME NEW t, NEW s, NEW u, NEW v, Kept(t, s, u, v), NEW w, NEW z, Kept(u, v, w, z)
  PROVE  Kept(t, s, w, z)
BY DEF Kept

LEMMA KeptSame ==
  ASSUME NEW t, NEW s
  PROVE  Kept(t, s, t, s)
BY DEF Kept

\* The pointer that a decoder returns.
LEMMA Returned ==
  ASSUME NEW a, NEW r, Reads(a, r), NEW p
  PROVE  /\ Reads(a, Out(r, p)) /\ Out(r, p).fields = r.fields /\ Out(r, p).out = Append(r.out, p)
         /\ Out(r, p).table = r.table /\ Out(r, p).self = r.self
<1> DEFINE s == Out(r, p)
<1>1. /\ IsReader(s) /\ s.fields = r.fields /\ s.out = Append(r.out, p) /\ s.table = r.table
      /\ s.free = r.free /\ s.self = r.self /\ s.objectMap = r.objectMap
  BY DEF Reads, IsReader, Out
<1> HIDE DEF s
<1>2. IsSeq(s.out)
  BY <1>1, Appended DEF Reads
<1>3. Reads(a, s)
  BY <1>1, <1>2 DEF Reads
<1>4. QED
  BY <1>1, <1>3 DEF s

\* A sequence of fields in two parts.
Splits(fields, e, rest) == IsSeq(e) /\ IsSeq(rest) /\ fields = e \o rest

LEMMA Skipped ==
  ASSUME NEW a, NEW r, Reads(a, r), NEW e, NEW rest, Splits(r.fields, e, rest)
  PROVE  LET s == Skip(r, Len(e))
         IN  /\ Reads(a, s) /\ s.fields = rest /\ s.out = r.out /\ s.table = r.table
             /\ s.self = r.self /\ s.objectMap = r.objectMap
<1> DEFINE n == Len(e)
           s == Skip(r, n)
<1>1. SubSeq(r.fields, n + 1, Len(r.fields)) = rest
  BY Rest DEF Splits
<1>2. /\ IsReader(s) /\ s.fields = rest /\ s.out = r.out /\ s.table = r.table
      /\ s.free = r.free /\ s.self = r.self /\ s.objectMap = r.objectMap
  BY <1>1 DEF Reads, IsReader, Skip
<1> HIDE DEF s
<1>3. Reads(a, s)
  BY <1>2 DEF Reads
<1>4. QED
  BY <1>2, <1>3 DEF s

OneField(e) == IsSeq(e) /\ Len(e) = 1

LEMMA OneSkipped ==
  ASSUME NEW a, NEW r, Reads(a, r), NEW e, OneField(e), NEW rest, Splits(r.fields, e, rest)
  PROVE  LET s == Skip(r, 1)
         IN  /\ Reads(a, s) /\ s.fields = rest /\ s.out = r.out /\ s.table = r.table
             /\ s.self = r.self /\ s.objectMap = r.objectMap
<1> DEFINE n == Len(e)
<1>1. IsSeq(e) /\ n = 1
  BY DEF OneField
<1>2. n = Len(e)
  OBVIOUS
<1> HIDE DEF n
<1>3. LET s == Skip(r, n)
      IN  /\ Reads(a, s) /\ s.fields = rest /\ s.out = r.out /\ s.table = r.table
          /\ s.self = r.self /\ s.objectMap = r.objectMap
  BY <1>2, Skipped
<1>4. QED
  BY <1>1, <1>3

LEMMA ObjectRead ==
  ASSUME NEW a \in Actors, NEW r, Reads(a, r), NEW o \in Objects
  PROVE  LET s == GetObject(a, r, Home(o))
         IN  /\ Reads(a, s) /\ s.fields = r.fields /\ Kept(r.table, r.self, s.table, s.self)
             /\ \E p : s.out = Append(r.out, p) /\ Leads(s.table, s.self, p, o)
<1> DEFINE s == GetObject(a, r, Home(o))
<1>0. Home(o).actor = Owner[o] /\ Home(o).index = Place[o]
  BY DEF Home, Id
<1>1. CASE Owner[o] = a
  <2> DEFINE p == Pointer(Place[o])
  <2>1. s = Out(r, p)
    BY <1>0, <1>1 DEF GetObject
  <2>2. /\ Reads(a, s) /\ s.fields = r.fields /\ s.out = Append(r.out, p)
        /\ s.table = r.table /\ s.self = r.self
    BY <2>1, Returned
  <2> HIDE DEF s
  <2>3. Place[o] \in DOMAIN r.table /\ r.table[Place[o]] = o
    BY <1>1 DEF Reads, TableOk, OwnObjects
  <2>4. p[2] = Place[o] /\ p = Pointer(p[2])
    BY DEF Pointer
  <2>5. Leads(s.table, s.self, p, o)
    BY <2>2, <2>3, <2>4 DEF Leads
  <2>6. Kept(r.table, r.self, s.table, s.self)
    BY <2>2, KeptSame
  <2>7. QED
    BY <2>2, <2>5, <2>6 DEF s
<1>2. CASE Owner[o] # a
  <2> DEFINE k == IF Home(o) \in DOMAIN r.objectMap THEN r ELSE NewRemoteObject(r, Home(o))
             n == AddObject(k, k.objectMap[Home(o)])
             p == Pointer(NextIndex(k))
  <2>1. s = Out(n, p)
    BY <1>0, <1>2 DEF GetObject
  <2>2. /\ Reads(a, k) /\ k.fields = r.fields /\ k.out = r.out
        /\ Kept(r.table, r.self, k.table, k.self) /\ Home(o) \in DOMAIN k.objectMap
    <3>1. CASE Home(o) \in DOMAIN r.objectMap
      BY <3>1, KeptSame
    <3>2. CASE Home(o) \notin DOMAIN r.objectMap
      BY <1>2, <3>2, RemoteMade
    <3>3. QED
      BY <3>1, <3>2
  <2> HIDE DEF k
  <2>3. /\ Reads(a, n) /\ n.fields = k.fields /\ n.out = k.out
        /\ Kept(k.table, k.self, n.table, n.self) /\ Leads(n.table, n.self, p, o)
    BY <1>2, <2>2, PointerMade
  <2> HIDE DEF n, p
  <2>4. /\ Reads(a, s) /\ s.fields = n.fields /\ s.out = Append(n.out, p)
        /\ s.table = n.table /\ s.self = n.self
    BY <2>1, <2>3, Returned
  <2> HIDE DEF s
  <2>5. Kept(r.table, r.self, s.table, s.self)
    BY <2>2, <2>3, <2>4, KeptBoth
  <2>6. QED
    BY <2>2, <2>3, <2>4, <2>5 DEF s
<1>3. QED
  BY <1>1, <1>2

LEMMA Pair ==
  ASSUME NEW x, NEW y
  PROVE  IsSeq(<<x, y>>) /\ Len(<<x, y>>) = 2 /\ <<x, y>>[1] = x /\ <<x, y>>[2] = y
<1>1. <<x, y>> \in Seq({x, y}) /\ Len(<<x, y>>) = 2
  OBVIOUS
<1>2. QED
  BY <1>1, SeqIsSeq

LEMMA Triple ==
  ASSUME NEW x, NEW y, NEW z
  PROVE  /\ IsSeq(<<x, y, z>>) /\ Len(<<x, y, z>>) = 3
         /\ <<x, y, z>>[1] = x /\ <<x, y, z>>[2] = y /\ <<x, y, z>>[3] = z
<1>1. <<x, y, z>> \in Seq({x, y, z}) /\ Len(<<x, y, z>>) = 3
  OBVIOUS
<1>2. QED
  BY <1>1, SeqIsSeq

LEMMA EncodesIsSeq ==
  ASSUME NEW e, NEW x, Encodes(e, x)
  PROVE  IsSeq(e)
BY Pair, Triple DEF Encodes

LEMMA OneRead ==
  ASSUME NEW a \in Actors, NEW r, Reads(a, r), NEW e, NEW x, Encodes(e, x),
         NEW rest, Splits(r.fields, e, rest)
  PROVE  LET s == NewObjectFromBuffer(a, r)
         IN  /\ Reads(a, s) /\ s.fields = rest /\ Kept(r.table, r.self, s.table, s.self)
             /\ \E p : s.out = Append(r.out, p) /\ Leads(s.table, s.self, p, x)
<1> DEFINE s == NewObjectFromBuffer(a, r)
           n == Len(e)
           k == Skip(r, n)
<1>1. /\ Reads(a, k) /\ k.fields = rest /\ k.out = r.out /\ k.table = r.table
      /\ k.self = r.self
  <2>1. LET past == Skip(r, Len(e))
        IN  /\ Reads(a, past) /\ past.fields = rest /\ past.out = r.out /\ past.table = r.table
            /\ past.self = r.self /\ past.objectMap = r.objectMap
    BY Skipped
  <2>2. QED
    BY <2>1
<1>2. \A i \in 1 .. Len(e) : r.fields[i] = e[i]
  <2>1. IsSeq(e) /\ IsSeq(rest) /\ r.fields = e \o rest
    BY DEF Splits
  <2>2. Len(e) \in Nat /\ Len(rest) \in Nat
    BY <2>1, Measured
  <2>3. QED
    BY <2>1, <2>2, Joined
<1>3. CASE /\ x \in Objects
           /\ \E tag \in {"NotImmutable", "GlobalObjectId"} :
                e = <<Field(tag, tagBytes), Field(Home(x), idBytes)>>
  <2>1. PICK tag \in {"NotImmutable", "GlobalObjectId"} :
               e = <<Field(tag, tagBytes), Field(Home(x), idBytes)>>
    BY <1>3
  <2>2. n = 2 /\ r.fields[1] = Field(tag, tagBytes) /\ r.fields[2] = Field(Home(x), idBytes)
    BY <1>2, <2>1, Pair
  <2>3. r.fields[1].value = tag /\ r.fields[2].value = Home(x)
    BY <2>2 DEF Field
  <2>4. s = GetObject(a, k, Home(x))
    BY <2>1, <2>2, <2>3 DEF NewObjectFromBuffer
  <2> HIDE DEF s, k
  <2>5. /\ Reads(a, s) /\ s.fields = k.fields /\ Kept(k.table, k.self, s.table, s.self)
        /\ \E p : s.out = Append(k.out, p) /\ Leads(s.table, s.self, p, x)
    BY <1>1, <1>3, <2>4, ObjectRead
  <2>6. QED
    BY <1>1, <2>5 DEF s
<1>4. ASSUME Fixed(x), s = Out(k, x)
      PROVE  /\ Reads(a, s) /\ s.fields = rest /\ Kept(r.table, r.self, s.table, s.self)
             /\ \E p : s.out = Append(r.out, p) /\ Leads(s.table, s.self, p, x)
  <2> HIDE DEF s, k
  <2>1. /\ Reads(a, s) /\ s.fields = k.fields /\ s.out = Append(k.out, x)
        /\ s.table = k.table /\ s.self = k.self
    BY <1>1, <1>4, Returned
  <2>2. Leads(s.table, s.self, x, x)
    BY <1>4 DEF Leads
  <2>3. QED
    BY <1>1, <2>1, <2>2, KeptSame
<1>5. CASE /\ Fixed(x) /\ IsText(x)
           /\ e = <<Field(x[1], tagBytes), Field(Chars(x), sizeBytes), Field(x[2], Chars(x) + 1)>>
  <2>1. n = 3 /\ r.fields[1] = Field(x[1], tagBytes) /\ r.fields[3] = Field(x[2], Chars(x) + 1)
    BY <1>2, <1>5, Triple
  <2>2. r.fields[1].value = x[1] /\ r.fields[3].value = x[2]
    BY <2>1 DEF Field
  <2>3. x[1] \in {"String", "Symbol"} /\ x = <<x[1], x[2]>>
    BY <1>5 DEF IsText, Fixed, IsValue
  <2>4. s = Out(k, x)
    BY <2>1, <2>2, <2>3 DEF NewObjectFromBuffer
  <2>5. QED
    BY <1>4, <1>5, <2>4
<1>6. CASE /\ Fixed(x) /\ ~IsText(x)
           /\ e = <<Field(x[1], tagBytes), Field(x[2], Width(x[1]))>>
  <2>1. n = 2 /\ r.fields[1] = Field(x[1], tagBytes) /\ r.fields[2] = Field(x[2], Width(x[1]))
    BY <1>2, <1>6, Pair
  <2>2. r.fields[1].value = x[1] /\ r.fields[2].value = x[2]
    BY <2>1 DEF Field
  <2>3. x[1] \in {"BigInteger", "Double", "Integer"} /\ x = <<x[1], x[2]>>
    BY <1>6 DEF IsText, Fixed, IsValue, ValueTags
  <2>4. s = Out(k, x)
    BY <2>1, <2>2, <2>3 DEF NewObjectFromBuffer
  <2>5. QED
    BY <1>4, <1>6, <2>4
<1>7. QED
  BY <1>3, <1>5, <1>6 DEF Encodes

LEMMA ReadExists ==
  ASSUME NEW a, NEW r, NEW n \in Nat
  PROVE  \E f : /\ f[0] = r /\ \A i \in 1 .. n : f[i] = NewObjectFromBuffer(a, f[i - 1])
                /\ ObjectsFromBuffer(a, r, n) = f[n]
<1> DEFINE Part(f, k) == f = [i \in 0 .. k |-> IF i = 0 THEN r ELSE NewObjectFromBuffer(a, f[i - 1])]
           S == {k \in Nat : \E f : Part(f, k)}
<1>1. 0 \in S
  <2> DEFINE g == [i \in 0 .. 0 |-> r]
  <2>1. Part(g, 0)
    OBVIOUS
  <2>2. QED
    BY <2>1
<1>2. ASSUME NEW k \in Nat, k \in S PROVE k + 1 \in S
  <2>1. PICK f : Part(f, k)
    BY <1>2
  <2> DEFINE g == [i \in 0 .. k + 1 |-> IF i = k + 1 THEN NewObjectFromBuffer(a, f[k]) ELSE f[i]]
  <2>2. \A i \in 0 .. k : g[i] = f[i]
    OBVIOUS
  <2>3. ASSUME NEW i \in 0 .. k + 1
        PROVE  g[i] = IF i = 0 THEN r ELSE NewObjectFromBuffer(a, g[i - 1])
    <3>1. CASE i = k + 1
      BY <3>1, <2>2
    <3>2. CASE i \in 0 .. k
      <4>1. f[i] = IF i = 0 THEN r ELSE NewObjectFromBuffer(a, f[i - 1])
        BY <2>1, <3>2
      <4>2. i # 0 => i - 1 \in 0 .. k
        BY <3>2
      <4>3. QED
        BY <4>1, <4>2, <3>2, <2>2
    <3>3. QED
      BY <3>1, <3>2
  <2>4. Part(g, k + 1)
    BY <2>3
  <2> HIDE DEF g, Part
  <2>5. QED
    BY <2>4
<1>3. \E f : Part(f, n)
  <2>1. n \in S
    <3> HIDE DEF S
    <3>1. QED
      BY <1>1, <1>2, Induction
  <2>2. QED
    BY <2>1
<1> DEFINE h == CHOOSE f : Part(f, n)
<1>4. Part(h, n)
  <2> HIDE DEF Part
  <2>1. QED
    BY <1>3
<1>5. ObjectsFromBuffer(a, r, n) = h[n]
  BY DEF ObjectsFromBuffer
<1> HIDE DEF h
<1>6. h[0] = r
  BY <1>4
<1>7. \A i \in 1 .. n : h[i] = NewObjectFromBuffer(a, h[i - 1])
  BY <1>4
<1>8. QED
  BY <1>5, <1>6, <1>7

\* from[i] holds the fields of es[i] and of all that follow.
Tower(from, es, xs, n) == \A i \in 1 .. n :
  Encodes(es[i], xs[i]) /\ Splits(from[i], es[i], from[i + 1])

LEMMA ObjectsRead ==
  ASSUME NEW a \in Actors, NEW r, Reads(a, r), NEW base \in Nat, DOMAIN r.out = 1 .. base,
         NEW n \in Nat, NEW es, NEW xs, NEW from, r.fields = from[1], Tower(from, es, xs, n)
  PROVE  LET s == ObjectsFromBuffer(a, r, n)
         IN  /\ Reads(a, s) /\ s.fields = from[n + 1] /\ Kept(r.table, r.self, s.table, s.self)
             /\ DOMAIN s.out = 1 .. base + n
             /\ \A i \in 1 .. base : s.out[i] = r.out[i]
             /\ \A i \in 1 .. n : Leads(s.table, s.self, s.out[base + i], xs[i])
<1>1. PICK f : /\ f[0] = r /\ \A i \in 1 .. n : f[i] = NewObjectFromBuffer(a, f[i - 1])
               /\ ObjectsFromBuffer(a, r, n) = f[n]
  BY ReadExists
<1> DEFINE Done(s, k) ==
             /\ Reads(a, s) /\ s.fields = from[k + 1] /\ Kept(r.table, r.self, s.table, s.self)
             /\ DOMAIN s.out = 1 .. base + k
             /\ \A i \in 1 .. base : s.out[i] = r.out[i]
             /\ \A i \in 1 .. k : Leads(s.table, s.self, s.out[base + i], xs[i])
           S == {k \in Nat : k <= n => Done(f[k], k)}
<1>3. 0 \in S
  <2>1. Done(f[0], 0)
    BY <1>1, KeptSame
  <2>2. QED
    BY <2>1
<1>4. ASSUME NEW k \in Nat, k \in S PROVE k + 1 \in S
  <2> SUFFICES ASSUME k + 1 <= n PROVE Done(f[k + 1], k + 1)
    OBVIOUS
  <2> DEFINE t == f[k]
             s == f[k + 1]
  <2>1. /\ k \in Nat /\ k + 1 \in 1 .. n /\ (k + 1) - 1 = k /\ (k + 1) + 1 \in 1 .. n + 1
        /\ k <= n
    OBVIOUS
  <2>2. Done(t, k)
    BY <1>4, <2>1
  <2>3. s = NewObjectFromBuffer(a, t)
    BY <1>1, <2>1
  <2> HIDE DEF t, s, S
  <2>4. /\ Reads(a, t) /\ Kept(r.table, r.self, t.table, t.self) /\ DOMAIN t.out = 1 .. base + k
        /\ \A i \in 1 .. base : t.out[i] = r.out[i]
    BY <2>2
  <2>5. Encodes(es[k + 1], xs[k + 1]) /\ Splits(t.fields, es[k + 1], from[(k + 1) + 1])
    BY <2>1, <2>2 DEF Tower
  <2> HIDE DEF Done
  <2>6. PICK p : /\ Reads(a, s) /\ s.fields = from[(k + 1) + 1]
                 /\ Kept(t.table, t.self, s.table, s.self)
                 /\ s.out = Append(t.out, p) /\ Leads(s.table, s.self, p, xs[k + 1])
    <3> DEFINE e == es[k + 1]
               x == xs[k + 1]
               rest == from[(k + 1) + 1]
    <3>1. Encodes(e, x) /\ Splits(t.fields, e, rest)
      BY <2>5
    <3>2. Reads(a, t)
      BY <2>4
    <3> HIDE DEF e, x, rest
    <3>3. LET u == NewObjectFromBuffer(a, t)
          IN  /\ Reads(a, u) /\ u.fields = rest /\ Kept(t.table, t.self, u.table, u.self)
              /\ \E p : u.out = Append(t.out, p) /\ Leads(u.table, u.self, p, x)
      BY <3>1, <3>2, OneRead
    <3>4. QED
      BY <2>3, <3>3 DEF x, rest
  <2>7. Kept(r.table, r.self, s.table, s.self)
    BY <2>4, <2>6, KeptBoth
  <2>8. /\ DOMAIN s.out = 1 .. base + (k + 1) /\ s.out[base + (k + 1)] = p
        /\ \A i \in 1 .. base + k : s.out[i] = t.out[i]
    <3> DEFINE q == t.out
               l == Len(q)
    <3>1. IsSeq(q)
      BY <2>4 DEF Reads
    <3>2. l \in Nat /\ 1 .. l = 1 .. base + k
      BY <2>4, <3>1, Measured
    <3>3. s.out = Append(q, p)
      BY <2>6
    <3>4. DOMAIN q = 1 .. base + k
      BY <2>4
    <3> HIDE DEF q
    <3>5. /\ DOMAIN Append(q, p) = 1 .. l + 1 /\ Append(q, p)[l + 1] = p
          /\ \A i \in DOMAIN q : Append(q, p)[i] = q[i]
      BY <3>1, Appended
    <3> HIDE DEF l
    <3>6. l = base + k
      BY <2>1, <3>2
    <3>7. l + 1 = base + (k + 1)
      BY <2>1, <3>6
    <3>8. QED
      BY <3>3, <3>4, <3>5, <3>7 DEF q
  <2>9. \A i \in 1 .. base : s.out[i] = r.out[i]
    <3>1. \A i \in 1 .. base : i \in 1 .. base + k
      BY <2>1
    <3>2. QED
      BY <2>4, <2>8, <3>1
  <2>10. ASSUME NEW i \in 1 .. k + 1
         PROVE  Leads(s.table, s.self, s.out[base + i], xs[i])
    <3>1. CASE i = k + 1
      BY <2>6, <2>8, <3>1
    <3>2. CASE i \in 1 .. k
      <4>1. Leads(t.table, t.self, t.out[base + i], xs[i])
        BY <2>2, <3>2 DEF Done
      <4>2. base + i \in 1 .. base + k
        BY <2>1, <3>2
      <4>3. ProxiesOk(a, t.table, t.self, t.objectMap)
        BY <2>4 DEF Reads
      <4>4. QED
        BY <2>6, <2>8, <4>1, <4>2, <4>3, LeadsOn
    <3>3. QED
      BY <2>1, <3>1, <3>2
  <2>11. QED
    BY <2>6, <2>7, <2>8, <2>9, <2>10 DEF s, Done
<1> HIDE DEF S
<1>5. n \in S
  BY <1>3, <1>4, Induction
<1>6. QED
  BY <1>1, <1>5 DEF S

-----------------------------------------------------------------------------
(* Messages: their fields, and that decoding follows them to their end.     *)

FormedReference(m) == \E type \in {"NEW_REF", "UNLINK_REF"} : \E id, x :
  /\ m.fields = <<Field(type, tagBytes), Field(id, idBytes), Field(x, 1)>>
  /\ m.meaning = [type |-> type, objects |-> << >>]

FormedObject(m) == \E e, x :
  /\ Encodes(e, x)
  /\ Splits(m.fields, <<Field("OBJ_REF", tagBytes)>>, e)
  /\ m.meaning = [type |-> "OBJ_REF", objects |-> <<x>>]

FormedResult(m) == \E f \in Objects : \E e, x, fields :
  /\ Encodes(e, x)
  /\ Splits(m.fields, <<Field("OBJ_REF_RESULT", tagBytes)>>, fields)
  /\ Splits(fields, e, <<Field(Home(f), idBytes)>>)
  /\ m.meaning = [type |-> "OBJ_REF_RESULT", objects |-> <<x, f>>]

\* Receiver and signature, the number of arguments, and the arguments with, if
\* there is one, the frame that waits.
SomFields(fields, objects, n, last) == \E from, es, xs, rest, fs, ys :
  /\ fields = from[1] /\ Tower(from, es, xs, 2)
  /\ Splits(from[3], <<Field(n, sizeBytes)>>, rest[1])
  /\ Tower(rest, fs, ys, n + last) /\ rest[n + last + 1] = << >>
  /\ IsSeq(objects) /\ Len(objects) = 2 + (n + last)
  /\ \A i \in 1 .. 2 : objects[i] = xs[i]
  /\ \A i \in 1 .. n + last : objects[2 + i] = ys[i]

FormedSom(m) == \E type \in {"SOM", "SOM_WITH_RESULT"} : \E n \in Nat : \E fields, objects :
  /\ SomFields(fields, objects, n, IF type = "SOM" THEN 0 ELSE 1)
  /\ Splits(m.fields, <<Field(type, tagBytes)>>, fields)
  /\ m.meaning = [type |-> type, objects |-> objects]
  /\ type = "SOM_WITH_RESULT" => Last(objects) \in Objects

Formed(m) == FormedReference(m) \/ FormedObject(m) \/ FormedResult(m) \/ FormedSom(m)

MemoryOk(a) ==
  TableOk(a, table[a]) /\ FreeOk(table[a], free[a])
  /\ ProxiesOk(a, table[a], self[a], objectMap[a])

LEMMA TailOfOne ==
  ASSUME NEW p, NEW x, NEW q, Splits(p, <<x>>, q)
  PROVE  Tail(p) = q /\ p[1] = x /\ IsSeq(p) /\ p # << >>
<1> DEFINE l == Len(q)
<1>0. IsSeq(q) /\ p = <<x>> \o q
  BY DEF Splits
<1>1. l \in Nat
  BY <1>0, Measured
<1>2. IsSeq(<<x>>) /\ Len(<<x>>) = 1 /\ <<x>>[1] = x
  BY Single
<1>3. /\ IsSeq(p) /\ Len(p) = 1 + l /\ DOMAIN p = 1 .. 1 + l
      /\ \A i \in 1 .. 1 + l : p[i] = IF i <= 1 THEN <<x>>[i] ELSE q[i - 1]
  BY <1>0, <1>2, Joined
<1> HIDE DEF l
<1>4. p[1] = x /\ \A i \in 1 .. l : p[i + 1] = q[i]
  <2>1. p[1] = x
    BY <1>1, <1>2, <1>3
  <2>2. ASSUME NEW i \in 1 .. l PROVE p[i + 1] = q[i]
    <3>1. i + 1 \in 1 .. 1 + l /\ ~(i + 1 <= 1) /\ (i + 1) - 1 = i
      BY <1>1
    <3>2. QED
      BY <1>3, <3>1
  <2>3. QED
    BY <2>1, <2>2
<1>5. p # << >>
  BY <1>1, <1>3, NoneYet
<1>6. /\ IsSeq(Tail(p)) /\ Len(Tail(p)) = Len(p) - 1
      /\ \A i \in 1 .. Len(p) - 1 : Tail(p)[i] = p[i + 1]
  BY <1>3, <1>5, Tailed
<1>7. Len(p) - 1 = l
  BY <1>1, <1>3
<1>8. Tail(p) = q
  BY <1>0, <1>4, <1>6, <1>7, SameSeq DEF l
<1>9. QED
  BY <1>3, <1>4, <1>5, <1>8

LEMMA ReaderReads ==
  ASSUME NEW a, MemoryOk(a), NEW fields
  PROVE  LET r == Reader(a, fields)
         IN  /\ Reads(a, r) /\ r.fields = fields /\ r.out = << >> /\ r.table = table[a]
             /\ r.self = self[a] /\ r.free = free[a] /\ r.objectMap = objectMap[a]
<1> DEFINE r == Reader(a, fields)
<1>1. /\ IsReader(r) /\ r.fields = fields /\ r.out = << >> /\ r.table = table[a]
      /\ r.self = self[a] /\ r.free = free[a] /\ r.objectMap = objectMap[a]
  BY DEF Reader, IsReader
<1> HIDE DEF r
<1>2. Reads(a, r)
  BY <1>1, NoneYet DEF Reads, MemoryOk
<1>3. QED
  BY <1>1, <1>2 DEF r

LEMMA SomRead ==
  ASSUME NEW a \in Actors, NEW r, Reads(a, r), DOMAIN r.out = 1 .. 0, NEW n \in Nat, NEW last \in {0, 1},
         NEW objects, SomFields(r.fields, objects, n, last)
  PROVE  LET s == DeserializeSom(a, r, last)
         IN  /\ Reads(a, s) /\ s.fields = << >> /\ Kept(r.table, r.self, s.table, s.self)
             /\ DOMAIN s.out = 1 .. 2 + (n + last)
             /\ \A i \in 1 .. 2 + (n + last) : Leads(s.table, s.self, s.out[i], objects[i])
<1> DEFINE s == DeserializeSom(a, r, last)
           start == ObjectsFromBuffer(a, r, 2)
           after == Skip(start, 1)
           args == ObjectsFromBuffer(a, after, n)
           done == ObjectsFromBuffer(a, args, last)
           count == <<Field(n, sizeBytes)>>
<1>1. PICK from, es, xs, rest, fs, ys :
        /\ r.fields = from[1] /\ Tower(from, es, xs, 2)
        /\ Splits(from[3], count, rest[1])
        /\ Tower(rest, fs, ys, n + last) /\ rest[n + last + 1] = << >>
        /\ IsSeq(objects) /\ Len(objects) = 2 + (n + last)
        /\ \A i \in 1 .. 2 : objects[i] = xs[i]
        /\ \A i \in 1 .. n + last : objects[2 + i] = ys[i]
  BY DEF SomFields
<1>2. /\ Reads(a, start) /\ start.fields = from[3]
      /\ Kept(r.table, r.self, start.table, start.self)
      /\ DOMAIN start.out = 1 .. 2
      /\ \A i \in 1 .. 2 : Leads(start.table, start.self, start.out[i], xs[i])
  <2> DEFINE two == 2
             zero == 0
  <2>1. r.fields = from[1] /\ Tower(from, es, xs, two)
    BY <1>1
  <2>2. DOMAIN r.out = 1 .. zero /\ zero \in Nat /\ two \in Nat
    OBVIOUS
  <2>3. start = ObjectsFromBuffer(a, r, two)
    OBVIOUS
  <2> HIDE DEF start, two, zero
  <2>4. /\ Reads(a, start) /\ start.fields = from[two + 1]
        /\ Kept(r.table, r.self, start.table, start.self)
        /\ DOMAIN start.out = 1 .. zero + two
        /\ \A i \in 1 .. two : Leads(start.table, start.self, start.out[zero + i], xs[i])
    BY <2>1, <2>2, <2>3, ObjectsRead
  <2>5. two = 2 /\ zero = 0 /\ two + 1 = 3 /\ \A i \in 1 .. 2 : zero + i = i
    BY DEF two, zero
  <2>6. QED
    BY <2>4, <2>5
<1> HIDE DEF start
<1>4. Splits(start.fields, count, rest[1])
  BY <1>1, <1>2
<1>5. start.fields[1].value = n
  <2>1. start.fields[1] = Field(n, sizeBytes)
    BY <1>4, TailOfOne
  <2>2. QED
    BY <2>1 DEF Field
<1>6. /\ Reads(a, after) /\ after.fields = rest[1] /\ after.out = start.out
      /\ after.table = start.table /\ after.self = start.self
  <2> DEFINE tail == rest[1]
  <2>1. OneField(count)
    BY Single DEF OneField
  <2>2. Reads(a, start) /\ Splits(start.fields, count, tail)
    BY <1>2, <1>4
  <2> HIDE DEF tail, count
  <2>3. /\ Reads(a, after) /\ after.fields = tail /\ after.out = start.out
        /\ after.table = start.table /\ after.self = start.self
    BY <2>1, <2>2, OneSkipped
  <2>4. QED
    BY <2>3 DEF tail
<1> HIDE DEF after, count
<1>7. Tower(rest, fs, ys, n)
  <2>1. \A i \in 1 .. n : i \in 1 .. n + last
    OBVIOUS
  <2>2. Tower(rest, fs, ys, n + last)
    BY <1>1
  <2>3. QED
    BY <2>1, <2>2 DEF Tower
<1>8. /\ Reads(a, args) /\ args.fields = rest[n + 1]
      /\ Kept(after.table, after.self, args.table, args.self)
      /\ DOMAIN args.out = 1 .. 2 + n
      /\ \A i \in 1 .. 2 : args.out[i] = after.out[i]
      /\ \A i \in 1 .. n : Leads(args.table, args.self, args.out[2 + i], ys[i])
  <2> DEFINE two == 2
  <2>1. two \in Nat /\ DOMAIN after.out = 1 .. two
    BY <1>2, <1>6
  <2>2. Reads(a, after) /\ after.fields = rest[1]
    BY <1>6
  <2> HIDE DEF two
  <2>3. /\ Reads(a, args) /\ args.fields = rest[n + 1]
        /\ Kept(after.table, after.self, args.table, args.self)
        /\ DOMAIN args.out = 1 .. two + n
        /\ \A i \in 1 .. two : args.out[i] = after.out[i]
        /\ \A i \in 1 .. n : Leads(args.table, args.self, args.out[two + i], ys[i])
    BY <1>7, <2>1, <2>2, ObjectsRead
  <2>4. QED
    BY <2>3 DEF two
<1> HIDE DEF args
<1> DEFINE from3 == [i \in 1 .. last + 1 |-> rest[n + i]]
           fs3 == [i \in 1 .. last |-> fs[n + i]]
           ys3 == [i \in 1 .. last |-> ys[n + i]]
<1>9. Tower(from3, fs3, ys3, last) /\ from3[1] = rest[n + 1] /\ from3[last + 1] = << >>
  <2>0. Tower(rest, fs, ys, n + last) /\ rest[n + last + 1] = << >>
    BY <1>1
  <2>1. ASSUME NEW i \in 1 .. last
        PROVE  Encodes(fs3[i], ys3[i]) /\ Splits(from3[i], fs3[i], from3[i + 1])
    <3>1. n + i \in 1 .. n + last /\ i + 1 \in 1 .. last + 1 /\ n + (i + 1) = (n + i) + 1
          /\ i \in 1 .. last + 1
      OBVIOUS
    <3>2. Encodes(fs[n + i], ys[n + i]) /\ Splits(rest[n + i], fs[n + i], rest[(n + i) + 1])
      BY <2>0, <3>1 DEF Tower
    <3>3. QED
      BY <3>1, <3>2
  <2>2. 1 \in 1 .. last + 1 /\ last + 1 \in 1 .. last + 1 /\ n + (last + 1) = n + last + 1
    OBVIOUS
  <2>3. from3[1] = rest[n + 1] /\ from3[last + 1] = rest[n + last + 1]
    BY <2>2
  <2> HIDE DEF from3, fs3, ys3
  <2>4. QED
    BY <2>0, <2>1, <2>3 DEF Tower
<1>10. \A i \in 1 .. last : ys3[i] = ys[n + i]
  OBVIOUS
<1> HIDE DEF from3, fs3, ys3
<1>11. /\ Reads(a, done) /\ done.fields = from3[last + 1]
       /\ Kept(args.table, args.self, done.table, done.self)
       /\ DOMAIN done.out = 1 .. (2 + n) + last
       /\ \A i \in 1 .. 2 + n : done.out[i] = args.out[i]
       /\ \A i \in 1 .. last : Leads(done.table, done.self, done.out[(2 + n) + i], ys3[i])
  <2> DEFINE base == 2 + n
  <2>1. base \in Nat /\ DOMAIN args.out = 1 .. base /\ last \in Nat
    BY <1>8
  <2>2. Reads(a, args) /\ args.fields = from3[1] /\ Tower(from3, fs3, ys3, last)
    BY <1>8, <1>9
  <2> HIDE DEF base
  <2>3. /\ Reads(a, done) /\ done.fields = from3[last + 1]
        /\ Kept(args.table, args.self, done.table, done.self)
        /\ DOMAIN done.out = 1 .. base + last
        /\ \A i \in 1 .. base : done.out[i] = args.out[i]
        /\ \A i \in 1 .. last : Leads(done.table, done.self, done.out[base + i], ys3[i])
    BY <2>1, <2>2, ObjectsRead
  <2>4. QED
    BY <2>3 DEF base
<1> HIDE DEF done
<1>12. s = done
  BY <1>5 DEF DeserializeSom, done, args, after, start
<1>14. Kept(after.table, after.self, done.table, done.self)
  BY <1>8, <1>11, KeptBoth
<1>15. Kept(r.table, r.self, done.table, done.self)
  BY <1>2, <1>6, <1>14, KeptBoth
<1>16. \A i \in 1 .. 2 : done.out[i] = start.out[i]
  <2>1. \A i \in 1 .. 2 : i \in 1 .. 2 + n
    OBVIOUS
  <2>2. QED
    BY <1>6, <1>8, <1>11, <2>1
<1>17. \A i \in 1 .. n : done.out[2 + i] = args.out[2 + i]
  <2>1. \A i \in 1 .. n : 2 + i \in 1 .. 2 + n
    OBVIOUS
  <2>2. QED
    BY <1>11, <2>1
<1>18. ASSUME NEW i \in 1 .. 2 + (n + last)
       PROVE  Leads(done.table, done.self, done.out[i], objects[i])
  <2>1. CASE i \in 1 .. 2
    <3>1. Leads(start.table, start.self, start.out[i], objects[i])
      BY <1>1, <1>2, <2>1
    <3>2. ProxiesOk(a, after.table, after.self, after.objectMap)
      BY <1>6 DEF Reads
    <3>3. QED
      BY <1>6, <1>14, <1>16, <2>1, <3>1, <3>2, LeadsOn
  <2>2. CASE \E j \in 1 .. n : i = 2 + j
    <3>1. PICK j \in 1 .. n : i = 2 + j
      BY <2>2
    <3>3. Leads(args.table, args.self, args.out[2 + j], ys[j])
      BY <1>8
    <3>4. j \in 1 .. n + last
      OBVIOUS
    <3>5. objects[i] = ys[j]
      BY <1>1, <3>1, <3>4
    <3>6. ProxiesOk(a, args.table, args.self, args.objectMap)
      BY <1>8 DEF Reads
    <3>7. QED
      BY <1>11, <1>17, <3>1, <3>3, <3>5, <3>6, LeadsOn
  <2>3. CASE \E j \in 1 .. last : i = (2 + n) + j
    <3>1. PICK j \in 1 .. last : i = (2 + n) + j
      BY <2>3
    <3>2. Leads(done.table, done.self, done.out[(2 + n) + j], ys3[j])
      BY <1>11
    <3>3. n + j \in 1 .. n + last /\ 2 + (n + j) = i
      BY <3>1
    <3>4. objects[i] = ys[n + j]
      BY <1>1, <3>3
    <3>5. QED
      BY <1>10, <3>1, <3>2, <3>4
  <2>4. QED
    <3>1. i \in 1 .. 2 \/ (i - 2 \in 1 .. n /\ i = 2 + (i - 2))
          \/ (i - (2 + n) \in 1 .. last /\ i = (2 + n) + (i - (2 + n)))
      OBVIOUS
    <3>2. QED
      BY <2>1, <2>2, <2>3, <3>1
<1>19. done.fields = << >> /\ DOMAIN done.out = 1 .. 2 + (n + last)
  BY <1>9, <1>11
<1>20. QED
  BY <1>11, <1>12, <1>15, <1>18, <1>19 DEF s

LEMMA OneObjectRead ==
  ASSUME NEW a \in Actors, NEW r, Reads(a, r), DOMAIN r.out = 1 .. 0, NEW e, NEW x, Encodes(e, x),
         NEW rest, Splits(r.fields, e, rest)
  PROVE  LET s == ObjectsFromBuffer(a, r, 1)
         IN  /\ Reads(a, s) /\ s.fields = rest /\ Kept(r.table, r.self, s.table, s.self)
             /\ DOMAIN s.out = 1 .. 1 /\ Leads(s.table, s.self, s.out[1], x)
<1> DEFINE from == [i \in 1 .. 2 |-> IF i = 1 THEN r.fields ELSE rest]
           es == [i \in 1 .. 1 |-> e]
           xs == [i \in 1 .. 1 |-> x]
           zero == 0
           one == 1
           s == ObjectsFromBuffer(a, r, one)
<1>1. r.fields = from[1] /\ from[2] = rest /\ es[1] = e /\ xs[1] = x
  OBVIOUS
<1> HIDE DEF from, es, xs
<1>2. Tower(from, es, xs, one)
  <2>1. ASSUME NEW i \in 1 .. one
        PROVE  Encodes(es[i], xs[i]) /\ Splits(from[i], es[i], from[i + 1])
    <3>1. i = 1 /\ i + 1 = 2
      OBVIOUS
    <3>2. QED
      BY <1>1, <3>1
  <2>2. QED
    BY <2>1 DEF Tower
<1>3. zero \in Nat /\ one \in Nat /\ DOMAIN r.out = 1 .. zero
  OBVIOUS
<1> HIDE DEF zero, one
<1>4. /\ Reads(a, s) /\ s.fields = from[one + 1] /\ Kept(r.table, r.self, s.table, s.self)
      /\ DOMAIN s.out = 1 .. zero + one
      /\ \A i \in 1 .. one : Leads(s.table, s.self, s.out[zero + i], xs[i])
  BY <1>1, <1>2, <1>3, ObjectsRead
<1>5. zero = 0 /\ one = 1
  BY DEF zero, one
<1> HIDE DEF s
<1>6. /\ Reads(a, s) /\ s.fields = rest /\ Kept(r.table, r.self, s.table, s.self)
      /\ DOMAIN s.out = 1 .. 1 /\ Leads(s.table, s.self, s.out[1], x)
  <2>1. one + 1 = 2 /\ zero + one = 1 /\ 1 \in 1 .. one /\ zero + 1 = 1
    BY <1>5
  <2>2. QED
    BY <1>1, <1>4, <2>1
<1>7. s = ObjectsFromBuffer(a, r, 1)
  BY <1>5 DEF s
<1>8. QED
  BY <1>6, <1>7

SerializedTypes == {"OBJ_REF", "OBJ_REF_RESULT", "SOM", "SOM_WITH_RESULT", "NEW_REF", "UNLINK_REF"}

\* What a reader of a message has to return for it.
Exact(r, type, xs) ==
  /\ type \in SerializedTypes /\ IsSeq(xs) /\ DOMAIN r.out = DOMAIN xs
  /\ type # "OBJ_REF_RESULT" =>
       \A i \in DOMAIN xs : Leads(r.table, r.self, r.out[i], xs[i])
  /\ type = "OBJ_REF_RESULT" =>
       /\ xs = <<xs[1], xs[2]>> /\ xs[2] \in Objects
       /\ Leads(r.table, r.self, r.out[1], xs[1]) /\ r.out[2] = Home(xs[2])
  /\ type = "SOM_WITH_RESULT" => xs # << >> /\ Last(xs) \in Objects
  /\ type \in {"OBJ_REF", "SOM"} => xs # << >>

Decoding(a, m) ==
  LET r == Deserialize(a, m)
  IN  /\ m.fields[1].value = m.meaning.type
      /\ Reads(a, r) /\ r.fields = << >> /\ Kept(table[a], self[a], r.table, r.self)
      /\ Exact(r, m.meaning.type, m.meaning.objects)

LEMMA ReferenceDecoded ==
  ASSUME NEW a \in Actors, MemoryOk(a), NEW m, FormedReference(m)
  PROVE  Decoding(a, m)
<1>0. PICK type \in {"NEW_REF", "UNLINK_REF"} : \E id, x :
        /\ m.fields = <<Field(type, tagBytes), Field(id, idBytes), Field(x, 1)>>
        /\ m.meaning = [type |-> type, objects |-> << >>]
  BY DEF FormedReference
<1>1. PICK id, x :
        /\ m.fields = <<Field(type, tagBytes), Field(id, idBytes), Field(x, 1)>>
        /\ m.meaning = [type |-> type, objects |-> << >>]
  BY <1>0
<1> DEFINE g == Field(id, idBytes)
           h == Field(x, 1)
           e == <<g, h>>
           f == Tail(m.fields)
           k == Reader(a, f)
           r == Skip(k, 2)
<1>2. f = e /\ m.fields[1].value = type
  BY <1>1, Triple DEF Field
<1>3. IsSeq(e) /\ Len(e) = 2
  BY Pair
<1>4. Splits(e, e, << >>)
  <2> HIDE DEF e
  <2>1. QED
    BY <1>3, NoneAfter, NoneYet DEF Splits
<1> HIDE DEF e
<1> HIDE DEF f
<1>5. /\ Reads(a, k) /\ k.fields = e /\ k.out = << >> /\ k.table = table[a] /\ k.self = self[a]
  BY <1>2, ReaderReads
<1> HIDE DEF k
<1>6. LET s == Skip(k, Len(e))
      IN  Reads(a, s) /\ s.fields = << >> /\ s.out = k.out /\ s.table = k.table /\ s.self = k.self
  <2> DEFINE none == << >>
  <2>1. Splits(k.fields, e, none) /\ Reads(a, k)
    BY <1>4, <1>5
  <2> HIDE DEF none
  <2>2. LET s == Skip(k, Len(e))
        IN  /\ Reads(a, s) /\ s.fields = none /\ s.out = k.out /\ s.table = k.table
            /\ s.self = k.self /\ s.objectMap = k.objectMap
    BY <2>1, Skipped
  <2>3. QED
    BY <2>2 DEF none
<1>7. Reads(a, r) /\ r.fields = << >> /\ r.out = k.out /\ r.table = k.table /\ r.self = k.self
  BY <1>3, <1>6
<1>8. Deserialize(a, m) = r
  BY <1>2 DEF Deserialize, k, f
<1> HIDE DEF r
<1>9. m.meaning.type = type /\ m.meaning.objects = << >>
  BY <1>1
<1>10. Kept(table[a], self[a], r.table, r.self)
  BY <1>5, <1>7, KeptSame
<1>11. Exact(r, type, << >>)
  <2>1. r.out = << >>
    BY <1>5, <1>7
  <2>2. QED
    BY <2>1, NoneYet DEF Exact, SerializedTypes
<1>12. QED
  BY <1>2, <1>7, <1>8, <1>9, <1>10, <1>11 DEF Decoding

LEMMA ObjectDecoded ==
  ASSUME NEW a \in Actors, MemoryOk(a), NEW m, FormedObject(m)
  PROVE  Decoding(a, m)
<1> DEFINE tag == <<Field("OBJ_REF", tagBytes)>>
           f == Tail(m.fields)
           k == Reader(a, f)
           r == ObjectsFromBuffer(a, k, 1)
<1>1. PICK e, x : /\ Encodes(e, x) /\ Splits(m.fields, tag, e)
                  /\ m.meaning = [type |-> "OBJ_REF", objects |-> <<x>>]
  BY DEF FormedObject
<1>2. f = e /\ m.fields[1].value = "OBJ_REF"
  BY <1>1, TailOfOne DEF Field
<1> HIDE DEF f
<1>3. /\ Reads(a, k) /\ k.fields = e /\ k.out = << >> /\ k.table = table[a] /\ k.self = self[a]
  BY <1>2, ReaderReads
<1> HIDE DEF k
<1>4. DOMAIN k.out = 1 .. 0
  BY <1>3, NoneYet
<1>5. Splits(k.fields, e, << >>)
  BY <1>1, <1>3, EncodesIsSeq, NoneAfter, NoneYet DEF Splits
<1>6. /\ Reads(a, r) /\ r.fields = << >> /\ Kept(k.table, k.self, r.table, r.self)
      /\ DOMAIN r.out = 1 .. 1 /\ Leads(r.table, r.self, r.out[1], x)
  <2> DEFINE none == << >>
  <2>1. Splits(k.fields, e, none)
    BY <1>5
  <2> HIDE DEF none, r
  <2>2. /\ Reads(a, r) /\ r.fields = none /\ Kept(k.table, k.self, r.table, r.self)
        /\ DOMAIN r.out = 1 .. 1 /\ Leads(r.table, r.self, r.out[1], x)
    BY <1>1, <1>3, <1>4, <2>1, OneObjectRead DEF r
  <2>3. QED
    BY <2>2 DEF none
<1>7. Deserialize(a, m) = r
  BY <1>2 DEF Deserialize, k, f
<1> HIDE DEF r
<1>8. m.meaning.type = "OBJ_REF" /\ m.meaning.objects = <<x>>
  BY <1>1
<1>9. Exact(r, "OBJ_REF", <<x>>)
  <2>1. IsSeq(<<x>>) /\ DOMAIN <<x>> = {1} /\ <<x>>[1] = x /\ DOMAIN r.out = {1}
    BY <1>6, Single
  <2>2. <<x>> # << >>
    BY <2>1, NoneYet
  <2>3. \A i \in {1} : Leads(r.table, r.self, r.out[i], <<x>>[i])
    BY <1>6, <2>1
  <2> DEFINE xs == <<x>>
  <2> HIDE DEF xs
  <2>4. QED
    BY <2>1, <2>2, <2>3 DEF Exact, SerializedTypes, xs
<1>10. QED
  BY <1>2, <1>3, <1>6, <1>7, <1>8, <1>9 DEF Decoding

LEMMA ResultDecoded ==
  ASSUME NEW a \in Actors, MemoryOk(a), NEW m, FormedResult(m)
  PROVE  Decoding(a, m)
<1> DEFINE tag == <<Field("OBJ_REF_RESULT", tagBytes)>>
           f == Tail(m.fields)
           k == Reader(a, f)
           s == ObjectsFromBuffer(a, k, 1)
           o == Out(s, s.fields[1].value)
           r == Skip(o, 1)
<1>0. PICK frame \in Objects : \E e, x, fields :
        /\ Encodes(e, x) /\ Splits(m.fields, tag, fields)
        /\ Splits(fields, e, <<Field(Home(frame), idBytes)>>)
        /\ m.meaning = [type |-> "OBJ_REF_RESULT", objects |-> <<x, frame>>]
  BY DEF FormedResult
<1>1. PICK e, x, fields :
        /\ Encodes(e, x) /\ Splits(m.fields, tag, fields)
        /\ Splits(fields, e, <<Field(Home(frame), idBytes)>>)
        /\ m.meaning = [type |-> "OBJ_REF_RESULT", objects |-> <<x, frame>>]
  BY <1>0
<1> DEFINE last == <<Field(Home(frame), idBytes)>>
<1>2. f = fields /\ m.fields[1].value = "OBJ_REF_RESULT"
  BY <1>1, TailOfOne DEF Field
<1>3. Deserialize(a, m) = r
  BY <1>2 DEF Deserialize
<1>4. OneField(last) /\ last[1].value = Home(frame) /\ Splits(last, last, << >>)
  <2>1. IsSeq(last) /\ Len(last) = 1 /\ last[1].value = Home(frame)
    BY Single DEF Field
  <2> HIDE DEF last
  <2>2. Splits(last, last, << >>)
    BY <2>1, NoneAfter, NoneYet DEF Splits
  <2>3. QED
    BY <2>1, <2>2 DEF OneField
<1>5. Splits(f, e, last)
  BY <1>1, <1>2
<1> HIDE DEF f, last
<1>6. /\ Reads(a, k) /\ k.fields = f /\ k.out = << >> /\ k.table = table[a] /\ k.self = self[a]
  BY ReaderReads
<1> HIDE DEF k
<1>7. DOMAIN k.out = 1 .. 0
  BY <1>6, NoneYet
<1>8. Splits(k.fields, e, last)
  BY <1>5, <1>6
<1>9. /\ Reads(a, s) /\ s.fields = last /\ Kept(k.table, k.self, s.table, s.self)
      /\ DOMAIN s.out = 1 .. 1 /\ Leads(s.table, s.self, s.out[1], x)
  <2> HIDE DEF s
  <2>1. QED
    BY <1>1, <1>6, <1>7, <1>8, OneObjectRead DEF s
<1> HIDE DEF s
<1>10. /\ Reads(a, o) /\ o.fields = last /\ o.out = Append(s.out, Home(frame))
       /\ o.table = s.table /\ o.self = s.self
  <2>1. s.fields[1].value = Home(frame)
    BY <1>4, <1>9
  <2> DEFINE h == Home(frame)
  <2>2. o = Out(s, h)
    BY <2>1
  <2> HIDE DEF h, o
  <2>3. /\ Reads(a, o) /\ o.fields = s.fields /\ o.out = Append(s.out, h)
        /\ o.table = s.table /\ o.self = s.self
    BY <1>9, <2>2, Returned
  <2>4. QED
    BY <1>9, <2>3 DEF h
<1> HIDE DEF o
<1>11. /\ Reads(a, r) /\ r.fields = << >> /\ r.out = o.out /\ r.table = o.table /\ r.self = o.self
  <2> DEFINE none == << >>
  <2>1. Splits(o.fields, last, none) /\ OneField(last) /\ Reads(a, o)
    BY <1>4, <1>10
  <2> HIDE DEF none, r
  <2>2. /\ Reads(a, r) /\ r.fields = none /\ r.out = o.out /\ r.table = o.table /\ r.self = o.self
    BY <2>1, OneSkipped DEF r
  <2>3. QED
    BY <2>2 DEF none
<1> HIDE DEF r
<1>12. DOMAIN r.out = 1 .. 2 /\ r.out[1] = s.out[1] /\ r.out[2] = Home(frame)
  <2> DEFINE q == s.out
             l == Len(q)
             h == Home(frame)
  <2>1. IsSeq(q) /\ DOMAIN q = 1 .. 1
    BY <1>9 DEF Reads
  <2>2. r.out = Append(q, h)
    BY <1>10, <1>11
  <2> HIDE DEF q, h
  <2>3. l \in Nat /\ 1 .. l = 1 .. 1
    BY <2>1, Measured
  <2>4. /\ DOMAIN Append(q, h) = 1 .. l + 1 /\ Append(q, h)[l + 1] = h
        /\ \A i \in DOMAIN q : Append(q, h)[i] = q[i]
    BY <2>1, Appended
  <2> HIDE DEF l
  <2>5. l = 1
    BY <2>3
  <2>6. 1 \in DOMAIN q
    BY <2>1
  <2>7. QED
    BY <2>2, <2>4, <2>5, <2>6 DEF q, h
<1>13. m.meaning.type = "OBJ_REF_RESULT" /\ m.meaning.objects = <<x, frame>>
  BY <1>1
<1>14. Kept(table[a], self[a], r.table, r.self)
  BY <1>6, <1>9, <1>10, <1>11
<1>15. Leads(r.table, r.self, r.out[1], x)
  BY <1>9, <1>10, <1>11, <1>12
<1>16. Exact(r, "OBJ_REF_RESULT", <<x, frame>>)
  <2> DEFINE xs == <<x, frame>>
  <2>1. IsSeq(xs) /\ DOMAIN xs = 1 .. 2 /\ xs[1] = x /\ xs[2] = frame /\ xs = <<xs[1], xs[2]>>
    BY Pair
  <2> HIDE DEF xs
  <2>2. QED
    BY <1>1, <1>12, <1>15, <2>1 DEF Exact, SerializedTypes
<1>17. QED
  BY <1>2, <1>3, <1>11, <1>13, <1>14, <1>16 DEF Decoding

LEMMA SomDecoded ==
  ASSUME NEW a \in Actors, MemoryOk(a), NEW m, FormedSom(m)
  PROVE  Decoding(a, m)
<1>0. PICK type \in {"SOM", "SOM_WITH_RESULT"}, n \in Nat : \E fields, objects :
        /\ SomFields(fields, objects, n, IF type = "SOM" THEN 0 ELSE 1)
        /\ Splits(m.fields, <<Field(type, tagBytes)>>, fields)
        /\ m.meaning = [type |-> type, objects |-> objects]
        /\ type = "SOM_WITH_RESULT" => Last(objects) \in Objects
  BY DEF FormedSom
<1>1. PICK fields, objects :
        /\ SomFields(fields, objects, n, IF type = "SOM" THEN 0 ELSE 1)
        /\ Splits(m.fields, <<Field(type, tagBytes)>>, fields)
        /\ m.meaning = [type |-> type, objects |-> objects]
        /\ type = "SOM_WITH_RESULT" => Last(objects) \in Objects
  BY <1>0
<1> DEFINE last == IF type = "SOM" THEN 0 ELSE 1
           f == Tail(m.fields)
           k == Reader(a, f)
           r == DeserializeSom(a, k, last)
<1>2. f = fields /\ m.fields[1].value = type
  BY <1>1, TailOfOne DEF Field
<1>3. Deserialize(a, m) = r
  BY <1>2 DEF Deserialize
<1>4. last \in {0, 1} /\ SomFields(f, objects, n, last)
  BY <1>1, <1>2
<1> HIDE DEF f, last
<1>5. /\ Reads(a, k) /\ k.fields = f /\ k.out = << >> /\ k.table = table[a] /\ k.self = self[a]
  BY ReaderReads
<1> HIDE DEF k
<1>6. DOMAIN k.out = 1 .. 0 /\ SomFields(k.fields, objects, n, last)
  BY <1>4, <1>5, NoneYet
<1>7. /\ Reads(a, r) /\ r.fields = << >> /\ Kept(k.table, k.self, r.table, r.self)
      /\ DOMAIN r.out = 1 .. 2 + (n + last)
      /\ \A i \in 1 .. 2 + (n + last) : Leads(r.table, r.self, r.out[i], objects[i])
  BY <1>4, <1>5, <1>6, SomRead
<1> HIDE DEF r
<1>8. IsSeq(objects) /\ DOMAIN objects = 1 .. 2 + (n + last)
  <2> DEFINE l == Len(objects)
  <2>1. IsSeq(objects) /\ l = 2 + (n + last)
    BY <1>4 DEF SomFields
  <2>2. DOMAIN objects = 1 .. l
    BY <2>1, Measured
  <2>3. QED
    BY <2>1, <2>2
<1>9. objects # << >>
  BY <1>4, <1>8, NoneYet
<1>10. m.meaning.type = type /\ m.meaning.objects = objects
  BY <1>1
<1>11. Exact(r, type, objects)
  BY <1>1, <1>7, <1>8, <1>9 DEF Exact, SerializedTypes
<1>12. QED
  BY <1>2, <1>3, <1>5, <1>7, <1>10, <1>11 DEF Decoding

LEMMA AlwaysDecoded ==
  ASSUME NEW a \in Actors, MemoryOk(a), NEW m, Formed(m)
  PROVE  Decoding(a, m)
BY ReferenceDecoded, ObjectDecoded, ResultDecoded, SomDecoded DEF Formed

-----------------------------------------------------------------------------
(* What pointers stand for, and that writing agrees with it.                *)

LEMMA IndexLeads ==
  ASSUME NEW t, NEW s, NEW p, NEW x, Leads(t, s, p, x), IsIndex(p)
  PROVE  /\ x \in Objects /\ p = Pointer(p[2]) /\ p[2] \in DOMAIN t
         /\ t[p[2]] = x \/ (t[p[2]] \in DOMAIN s /\ t[p[2]].id = Home(x))
<1>1. ~(Fixed(x) /\ p = x)
  BY DEF IsIndex, Fixed, IsValue, ValueTags
<1>2. QED
  BY <1>1 DEF Leads

LEMMA ImmutableLeads ==
  ASSUME NEW t, NEW s, NEW p, NEW x, Leads(t, s, p, x), ~IsIndex(p)
  PROVE  Fixed(x) /\ p = x
<1>1. p # Pointer(p[2])
  BY DEF IsIndex, Pointer
<1>2. QED
  BY <1>1 DEF Leads

LEMMA ImmutableLeadsTo ==
  ASSUME NEW x, Fixed(x), NEW t, NEW s
  PROVE  Leads(t, s, x, x) /\ ~IsIndex(x)
BY DEF Leads, Fixed, IsValue, IsIndex, ValueTags

LEMMA Denoted ==
  ASSUME \A b \in Actors : MemoryOk(b),
         NEW a \in Actors, NEW p, NEW x, Leads(table[a], self[a], p, x)
  PROVE  /\ Denotes(a, p, table) = x
         /\ IsIndex(p) => GetGlobalId(a, p) = Home(x) /\ GetHomeId(a, p) = Owner[x]
<1>0. MemoryOk(a)
  OBVIOUS
<1> DEFINE t == table[a]
           y == t[p[2]]
<1>1. CASE ~IsIndex(p)
  BY <1>1, ImmutableLeads DEF Denotes
<1>2. CASE IsIndex(p)
  <2>1. /\ x \in Objects /\ p[2] \in DOMAIN t
        /\ y = x \/ (y \in DOMAIN self[a] /\ y.id = Home(x))
    BY <1>2, IndexLeads
  <2>2. CASE y = x
    <3>1. Denotes(a, p, table) = x
      BY <1>2, <2>1, <2>2 DEF Denotes, IsProxy
    <3>2. y \notin Proxies
      BY <2>1, <2>2, SerializationAssumption
    <3>3. x \in OwnObjects(a) /\ Place[x] = p[2]
      BY <1>0, <2>1, <2>2, <3>2 DEF MemoryOk, TableOk
    <3>4. Id(a, p[2]) = Home(x) /\ Owner[x] = a
      BY <3>3 DEF Home, OwnObjects
    <3>5. QED
      BY <2>1, <2>2, <3>1, <3>4 DEF GetGlobalId, GetHomeId, IsProxy
  <2>3. CASE y \in DOMAIN self[a] /\ y.id = Home(x)
    <3>1. y \notin Objects
      BY <1>0, <2>3, ProxyKnown DEF MemoryOk
    <3>2. Home(x).actor = Owner[x] /\ Home(x).index = Place[x]
      BY DEF Home, Id
    <3>3. Owner[x] \in Actors /\ x \in OwnObjects(Owner[x])
      BY <2>1, HomeOk
    <3>4. table[Owner[x]][Place[x]] = x
      BY <3>3 DEF MemoryOk, TableOk
    <3>5. QED
      BY <1>2, <2>3, <3>1, <3>2, <3>4 DEF Denotes, GetGlobalId, GetHomeId, IsProxy
  <2>4. QED
    BY <2>1, <2>2, <2>3
<1>3. QED
  BY <1>1, <1>2

Bytes(fs) == [j \in DOMAIN fs |-> fs[j].bytes]
Sized(fs, n) == IsSeq(fs) /\ Bytes(fs) \in Seq(Nat) /\ Total(Bytes(fs)) = n

LEMMA SizedNat ==
  ASSUME NEW fs, NEW n, Sized(fs, n)
  PROVE  n \in Nat
BY TotalNat DEF Sized

LEMMA SizedOne ==
  ASSUME NEW v, NEW n \in Nat
  PROVE  Sized(<<Field(v, n)>>, n)
<1> DEFINE fs == <<Field(v, n)>>
<1>1. IsSeq(fs) /\ DOMAIN fs = {1} /\ fs[1].bytes = n
  BY Single DEF Field
<1>2. Bytes(fs) = <<n>>
  <2>1. DOMAIN Bytes(fs) = {1} /\ Bytes(fs)[1] = n
    BY <1>1 DEF Bytes
  <2> HIDE DEF fs
  <2>2. Bytes(fs) = [j \in {1} |-> n]
    BY <1>1 DEF Bytes
  <2>3. <<n>> = [j \in {1} |-> n]
    OBVIOUS
  <2>4. QED
    BY <2>2, <2>3
<1>3. <<n>> \in Seq(Nat)
  OBVIOUS
<1>4. QED
  BY <1>1, <1>2, <1>3, TotalOne DEF Sized

LEMMA SizedBoth ==
  ASSUME NEW p, NEW n, Sized(p, n), NEW q, NEW k, Sized(q, k)
  PROVE  Sized(p \o q, n + k)
<1> DEFINE r == p \o q
           bp == Bytes(p)
           bq == Bytes(q)
           b == bp \o bq
           lp == Len(p)
           lq == Len(q)
<1>1. IsSeq(p) /\ IsSeq(q) /\ bp \in Seq(Nat) /\ bq \in Seq(Nat)
  BY DEF Sized
<1>2. /\ IsSeq(r) /\ DOMAIN r = 1 .. lp + lq /\ DOMAIN p = 1 .. lp /\ DOMAIN q = 1 .. lq
      /\ lp \in Nat /\ lq \in Nat
      /\ \A i \in 1 .. lp + lq : r[i] = IF i <= lp THEN p[i] ELSE q[i - lp]
  BY <1>1, Joined, Measured
<1> HIDE DEF r
<1>3. /\ DOMAIN bp = DOMAIN p /\ DOMAIN bq = DOMAIN q /\ DOMAIN Bytes(r) = DOMAIN r
      /\ \A i \in DOMAIN p : bp[i] = p[i].bytes
      /\ \A i \in DOMAIN q : bq[i] = q[i].bytes
      /\ \A i \in DOMAIN r : Bytes(r)[i] = r[i].bytes
  BY DEF Bytes
<1> HIDE DEF bp, bq, lp, lq
<1>4. Len(bp) = lp /\ Len(bq) = lq
  BY <1>1, <1>2, <1>3
<1>5. /\ b \in Seq(Nat) /\ Len(b) = lp + lq
      /\ \A i \in 1 .. lp + lq : b[i] = IF i <= lp THEN bp[i] ELSE bq[i - lp]
  BY <1>1, <1>4, ConcatProperties
<1> HIDE DEF b
<1>6. ASSUME NEW i \in 1 .. lp + lq PROVE b[i] = Bytes(r)[i]
  <2>0. Bytes(r)[i] = r[i].bytes
    BY <1>2, <1>3
  <2>1. CASE i <= lp
    <3>1. i \in DOMAIN p /\ r[i] = p[i] /\ b[i] = bp[i]
      BY <1>2, <1>5, <2>1
    <3>2. QED
      BY <1>3, <2>0, <3>1
  <2>2. CASE ~(i <= lp)
    <3>1. i - lp \in DOMAIN q /\ r[i] = q[i - lp] /\ b[i] = bq[i - lp]
      BY <1>2, <1>5, <2>2
    <3>2. QED
      BY <1>3, <2>0, <3>1
  <2>3. QED
    BY <2>1, <2>2
<1>7. DOMAIN b = 1 .. lp + lq /\ b = [i \in DOMAIN b |-> b[i]]
  BY <1>5
<1>8. Bytes(r) = b
  <2>1. Bytes(r) = [i \in 1 .. lp + lq |-> Bytes(r)[i]]
    BY <1>2 DEF Bytes
  <2>2. QED
    BY <1>6, <1>7, <2>1
<1>9. Total(b) = Total(bp) + Total(bq)
  BY <1>1, TotalConcat DEF b
<1>10. Total(bp) = n /\ Total(bq) = k
  BY DEF Sized, bp, bq
<1>11. QED
  BY <1>2, <1>5, <1>8, <1>9, <1>10 DEF Sized, r

LEMMA PairOf ==
  ASSUME NEW f, NEW g
  PROVE  <<f>> \o <<g>> = <<f, g>>
<1> DEFINE p == <<f>>
           q == <<g>>
           r == <<f, g>>
<1>1. IsSeq(p) /\ Len(p) = 1 /\ p[1] = f /\ IsSeq(q) /\ Len(q) = 1 /\ q[1] = g
  BY Single
<1>2. IsSeq(r) /\ Len(r) = 2 /\ r[1] = f /\ r[2] = g
  BY Pair
<1> HIDE DEF p, q, r
<1> DEFINE s == p \o q
<1>3. /\ IsSeq(s) /\ Len(s) = Len(p) + Len(q)
      /\ \A i \in 1 .. Len(p) + Len(q) : s[i] = IF i <= Len(p) THEN p[i] ELSE q[i - Len(p)]
  <2>1. IsSeq(p) /\ IsSeq(q)
    BY <1>1
  <2>2. QED
    BY <2>1, Joined
<1> HIDE DEF s
<1>4. \A i \in 1 .. 2 : s[i] = r[i]
  <2>1. s[1] = f /\ s[2] = g
    BY <1>1, <1>3
  <2>2. QED
    BY <1>2, <2>1
<1>5. p \o q = r
  <2>1. Len(s) = Len(r)
    BY <1>1, <1>2, <1>3
  <2>2. s = r
    BY <1>2, <1>3, <1>4, <2>1, SameSeq
  <2>3. QED
    BY <2>2 DEF s
<1>6. QED
  BY <1>5 DEF p, q, r

LEMMA TripleOf ==
  ASSUME NEW f, NEW g, NEW h
  PROVE  <<f, g>> \o <<h>> = <<f, g, h>>
<1> DEFINE p == <<f, g>>
           q == <<h>>
           r == <<f, g, h>>
<1>1. IsSeq(p) /\ Len(p) = 2 /\ p[1] = f /\ p[2] = g /\ IsSeq(q) /\ Len(q) = 1 /\ q[1] = h
  BY Single, Pair
<1>2. IsSeq(r) /\ Len(r) = 3 /\ r[1] = f /\ r[2] = g /\ r[3] = h
  BY Triple
<1> HIDE DEF p, q, r
<1> DEFINE s == p \o q
<1>3. /\ IsSeq(s) /\ Len(s) = Len(p) + Len(q)
      /\ \A i \in 1 .. Len(p) + Len(q) : s[i] = IF i <= Len(p) THEN p[i] ELSE q[i - Len(p)]
  <2>1. IsSeq(p) /\ IsSeq(q)
    BY <1>1
  <2>2. QED
    BY <2>1, Joined
<1> HIDE DEF s
<1>4. \A i \in 1 .. 3 : s[i] = r[i]
  <2>1. s[1] = f /\ s[2] = g /\ s[3] = h
    BY <1>1, <1>3
  <2>2. QED
    BY <1>2, <2>1
<1>5. p \o q = r
  <2>1. Len(s) = Len(r)
    BY <1>1, <1>2, <1>3
  <2>2. s = r
    BY <1>2, <1>3, <1>4, <2>1, SameSeq
  <2>3. QED
    BY <2>2 DEF s
<1>6. QED
  BY <1>5 DEF p, q, r

LEMMA SizedPair ==
  ASSUME NEW v, NEW n \in Nat, NEW w, NEW k \in Nat
  PROVE  Sized(<<Field(v, n), Field(w, k)>>, n + k)
<1> DEFINE f == Field(v, n)
           g == Field(w, k)
<1>1. Sized(<<f>>, n) /\ Sized(<<g>>, k)
  BY SizedOne
<1> HIDE DEF f, g
<1>2. Sized(<<f>> \o <<g>>, n + k)
  BY <1>1, SizedBoth
<1>3. <<f>> \o <<g>> = <<f, g>>
  BY PairOf
<1>4. QED
  BY <1>2, <1>3 DEF f, g

LEMMA SizedTriple ==
  ASSUME NEW v, NEW n \in Nat, NEW w, NEW k \in Nat, NEW x, NEW l \in Nat
  PROVE  Sized(<<Field(v, n), Field(w, k), Field(x, l)>>, n + k + l)
<1> DEFINE f == Field(v, n)
           g == Field(w, k)
           h == Field(x, l)
<1>1. Sized(<<f, g>>, n + k) /\ Sized(<<h>>, l)
  BY SizedOne, SizedPair
<1> HIDE DEF f, g, h
<1>2. Sized(<<f, g>> \o <<h>>, n + k + l)
  <2> DEFINE e == <<f, g>>
             d == <<h>>
             s == n + k
  <2>1. Sized(e, s) /\ Sized(d, l)
    BY <1>1
  <2> HIDE DEF e, d, s
  <2>2. Sized(e \o d, s + l)
    BY <2>1, SizedBoth
  <2>3. QED
    BY <2>2 DEF e, d, s
<1>3. <<f, g>> \o <<h>> = <<f, g, h>>
  BY TripleOf
<1>4. QED
  BY <1>2, <1>3 DEF f, g, h

LEMMA Written ==
  ASSUME \A b \in Actors : MemoryOk(b),
         NEW a \in Actors, NEW p, NEW x, Leads(table[a], self[a], p, x)
  PROVE  /\ Encodes(Serialize(a, p), x)
         /\ Sized(Serialize(a, p), GetSerializedSize(a, p))
         /\ GetSerializedSize(a, p) \in Nat
<1> DEFINE e == Serialize(a, p)
           n == GetSerializedSize(a, p)
<1>1. CASE IsIndex(p)
  <2> DEFINE tag == IF IsProxy(table[a][p[2]]) THEN "GlobalObjectId" ELSE "NotImmutable"
  <2>1. x \in Objects /\ GetGlobalId(a, p) = Home(x)
    BY <1>1, IndexLeads, Denoted
  <2>2. e = <<Field(tag, tagBytes), Field(Home(x), idBytes)>> /\ n = tagBytes + idBytes
    BY <1>1, <2>1 DEF Serialize, GetSerializedSize
  <2>3. tag \in {"NotImmutable", "GlobalObjectId"}
    OBVIOUS
  <2> HIDE DEF e, n, tag
  <2>4. Encodes(e, x)
    BY <2>1, <2>2, <2>3 DEF Encodes
  <2>5. tagBytes \in Nat /\ idBytes \in Nat /\ n \in Nat
    BY <2>2 DEF tagBytes, idBytes
  <2>6. Sized(e, n)
    BY <2>2, <2>5, SizedPair
  <2>7. QED
    BY <2>4, <2>5, <2>6 DEF e, n
<1>2. CASE ~IsIndex(p)
  <2>1. Fixed(x) /\ p = x
    BY <1>2, ImmutableLeads
  <2>2. CASE IsText(x)
    <3>1. /\ e = <<Field(x[1], tagBytes), Field(Chars(x), sizeBytes), Field(x[2], Chars(x) + 1)>>
          /\ n = tagBytes + (sizeBytes + Chars(x) + 1)
      BY <1>2, <2>1, <2>2 DEF Serialize, GetSerializedSize
    <3>2. Chars(x) \in Nat
      BY <2>1, <2>2 DEF Fixed, IsValue, Chars
    <3> HIDE DEF e, n
    <3>3. Encodes(e, x)
      BY <2>1, <2>2, <3>1 DEF Encodes
    <3> DEFINE c == Chars(x)
               d == c + 1
    <3>4. c \in Nat /\ d \in Nat /\ tagBytes \in Nat /\ sizeBytes \in Nat
          /\ n = tagBytes + sizeBytes + d /\ n \in Nat
      BY <3>1, <3>2 DEF tagBytes, sizeBytes
    <3>5. e = <<Field(x[1], tagBytes), Field(c, sizeBytes), Field(x[2], d)>>
      BY <3>1
    <3> HIDE DEF c, d
    <3>6. Sized(e, n)
      BY <3>4, <3>5, SizedTriple
    <3>7. QED
      BY <3>3, <3>4, <3>6 DEF e, n
  <2>3. CASE ~IsText(x)
    <3> DEFINE w == Width(x[1])
    <3>1. e = <<Field(x[1], tagBytes), Field(x[2], w)>> /\ n = tagBytes + w
      BY <1>2, <2>1, <2>3 DEF Serialize, GetSerializedSize
    <3> HIDE DEF e, n
    <3>3. Encodes(e, x)
      BY <2>1, <2>3, <3>1 DEF Encodes
    <3>4. w \in Nat /\ tagBytes \in Nat
      BY DEF Width, tagBytes
    <3> HIDE DEF w
    <3>5. Sized(e, n)
      BY <3>1, <3>4, SizedPair
    <3>6. QED
      BY <3>1, <3>3, <3>4, <3>5 DEF e, n
  <2>4. QED
    BY <2>2, <2>3
<1>3. QED
  BY <1>1, <1>2

-----------------------------------------------------------------------------
(* Several objects written one after the other.                             *)

LEMMA ConcatExists ==
  ASSUME NEW s, NEW l \in Nat, Len(s) = l
  PROVE  \E f : f = [n \in 1 .. l + 1 |-> IF n > l THEN << >> ELSE s[n] \o f[n + 1]]
                /\ Concat(s) = f[1]
<1> DEFINE With(n, q) == s[n] \o q
           Part(f, k) == f = [n \in (l + 1) - k .. l + 1 |->
                                IF n > l THEN << >> ELSE With(n, f[n + 1])]
           S == {k \in Nat : k <= l => \E f : Part(f, k)}
<1>1. 0 \in S
  <2> DEFINE g == [n \in l + 1 .. l + 1 |-> << >>]
  <2> HIDE DEF With
  <2>1. g = [n \in (l + 1) - 0 .. l + 1 |-> IF n > l THEN << >> ELSE With(n, g[n + 1])]
    <3>1. (l + 1) - 0 = l + 1 /\ \A n \in l + 1 .. l + 1 : n > l
      OBVIOUS
    <3>2. QED
      BY <3>1
  <2>2. Part(g, 0)
    BY <2>1
  <2>3. QED
    BY <2>2
<1>2. ASSUME NEW k \in Nat, k \in S PROVE k + 1 \in S
  <2> HIDE DEF With, Part
  <2> SUFFICES ASSUME k + 1 <= l PROVE \E f : Part(f, k + 1)
    OBVIOUS
  <2>0. k <= l
    BY <1>2
  <2>1. PICK f : Part(f, k)
    BY <1>2, <2>0
  <2> USE DEF Part
  <2> DEFINE b == (l + 1) - k
             c == b - 1
             g == [n \in c .. l + 1 |-> IF n = c THEN With(c, f[b]) ELSE f[n]]
  <2>2. /\ b \in Nat /\ b >= 1 /\ b <= l + 1 /\ c + 1 = b /\ c >= 1 /\ c <= l /\ c \in Nat
        /\ (l + 1) - (k + 1) = c
    BY <1>2
  <2>3. f = [n \in b .. l + 1 |-> IF n > l THEN << >> ELSE With(n, f[n + 1])]
    BY <2>1
  <2> HIDE DEF b, c
  <2>4. \A n \in b .. l + 1 : g[n] = f[n]
    BY <2>2
  <2>5. ASSUME NEW n \in c .. l + 1
        PROVE  g[n] = IF n > l THEN << >> ELSE With(n, g[n + 1])
    <3>1. CASE n = c
      <4>1. g[n] = With(c, f[b]) /\ b \in b .. l + 1
        BY <2>2, <3>1
      <4>2. g[n + 1] = f[b]
        BY <2>2, <2>4, <3>1, <4>1
      <4>3. QED
        BY <2>2, <3>1, <4>1, <4>2
    <3>2. CASE n \in b .. l + 1
      <4>1. f[n] = IF n > l THEN << >> ELSE With(n, f[n + 1])
        BY <2>3, <3>2
      <4>2. ~(n > l) => n + 1 \in b .. l + 1
        BY <2>2, <3>2
      <4>3. QED
        BY <2>4, <3>2, <4>1, <4>2
    <3>3. QED
      BY <2>2, <3>1, <3>2
  <2>6. g = [n \in c .. l + 1 |-> IF n > l THEN << >> ELSE With(n, g[n + 1])]
    BY <2>5
  <2>7. Part(g, k + 1)
    BY <2>2, <2>6
  <2> HIDE DEF g, Part
  <2>8. QED
    BY <2>7
<1>3. \E f : Part(f, l)
  <2>1. l \in S
    <3> HIDE DEF S
    <3>1. QED
      BY <1>1, <1>2, Induction
  <2> HIDE DEF With, Part
  <2>2. QED
    BY <2>1
<1> DEFINE Whole(f) == f = [n \in 1 .. l + 1 |-> IF n > l THEN << >> ELSE s[n] \o f[n + 1]]
           h == CHOOSE f : Whole(f)
<1>4. \E f : Whole(f)
  <2>1. (l + 1) - l = 1
    OBVIOUS
  <2> HIDE DEF S
  <2>2. QED
    BY <1>3, <2>1
<1>5. Whole(h)
  <2> HIDE DEF Whole
  <2>1. QED
    BY <1>4
<1>6. Concat(s) = h[1]
  BY DEF Concat
<1> HIDE DEF h
<1>7. QED
  BY <1>5, <1>6

LEMMA ConcatTower ==
  ASSUME NEW es, NEW xs, NEW z \in Seq(Nat), NEW l \in Nat, Len(es) = l, Len(z) = l,
         \A n \in 1 .. l : Encodes(es[n], xs[n]) /\ Sized(es[n], z[n])
  PROVE  \E f : /\ f[l + 1] = << >> /\ Tower(f, es, xs, l) /\ Concat(es) = f[1]
                /\ Sized(f[1], Total(z))
<1>1. PICK f : f = [n \in 1 .. l + 1 |-> IF n > l THEN << >> ELSE es[n] \o f[n + 1]]
               /\ Concat(es) = f[1]
  BY ConcatExists
<1> DEFINE Cat(n) == f[n] = es[n] \o f[n + 1]
<1>2. f[l + 1] = << >>
  <2>1. l + 1 \in 1 .. l + 1 /\ l + 1 > l
    OBVIOUS
  <2>2. QED
    BY <1>1, <2>1
<1>3. \A n \in 1 .. l : Cat(n)
  <2> SUFFICES ASSUME NEW n \in 1 .. l PROVE Cat(n)
    OBVIOUS
  <2> DEFINE With(m, q) == es[m] \o q
  <2>1. f = [m \in 1 .. l + 1 |-> IF m > l THEN << >> ELSE With(m, f[m + 1])]
    BY <1>1
  <2>2. n \in 1 .. l + 1 /\ ~(n > l)
    OBVIOUS
  <2>3. f[n] = With(n, f[n + 1])
    <3> HIDE DEF With
    <3>1. QED
      BY <2>1, <2>2
  <2>4. QED
    BY <2>3
<1>4. Concat(es) = f[1]
  BY <1>1
<1> DEFINE size(n) == Total(Bytes(f[n]))
           w == [n \in 1 .. l + 1 |-> size(n)]
           S == {d \in Nat : d <= l => Sized(f[(l + 1) - d], size((l + 1) - d))}
<1>5. 0 \in S
  <2>1. (l + 1) - 0 = l + 1
    OBVIOUS
  <2>2. Bytes(<< >>) = << >>
    BY NoneYet DEF Bytes
  <2>3. << >> \in Seq(Nat)
    OBVIOUS
  <2>4. Sized(f[l + 1], size(l + 1))
    BY <1>2, <2>2, <2>3, NoneYet DEF Sized
  <2>5. QED
    BY <2>1, <2>4
<1>6. ASSUME NEW d \in Nat, d \in S PROVE d + 1 \in S
  <2> SUFFICES ASSUME d + 1 <= l
               PROVE  Sized(f[(l + 1) - (d + 1)], size((l + 1) - (d + 1)))
    OBVIOUS
  <2> DEFINE b == (l + 1) - d
             c == (l + 1) - (d + 1)
  <2>1. c \in 1 .. l /\ c + 1 = b /\ d <= l
    BY <1>6
  <2>2. Sized(f[b], size(b)) /\ Sized(es[c], z[c])
    BY <1>6, <2>1
  <2>3. Cat(c)
    BY <1>3, <2>1
  <2> HIDE DEF b, c, S, size, w
  <2>4. f[c] = es[c] \o f[b]
    BY <2>1, <2>3
  <2> DEFINE p == es[c]
             q == f[b]
             r == f[c]
             n == z[c]
             k == size(b)
  <2>5. Sized(p, n) /\ Sized(q, k) /\ r = p \o q
    BY <2>2, <2>4
  <2> HIDE DEF p, q, r, n, k
  <2>6. Sized(p \o q, n + k)
    BY <2>5, SizedBoth
  <2>7. Sized(r, n + k)
    BY <2>5, <2>6
  <2>8. Sized(r, Total(Bytes(r)))
    BY <2>7 DEF Sized
  <2>9. QED
    BY <2>8 DEF r, c, size
<1>7. \A n \in 1 .. l + 1 : Sized(f[n], size(n))
  <2> HIDE DEF S, size
  <2>1. Nat \subseteq S
    BY <1>5, <1>6, Induction
  <2>2. ASSUME NEW n \in 1 .. l + 1 PROVE Sized(f[n], size(n))
    <3> DEFINE d == (l + 1) - n
    <3>1. d \in Nat /\ d <= l /\ (l + 1) - d = n
      OBVIOUS
    <3>2. d \in S
      BY <2>1, <3>1
    <3>3. QED
      BY <3>1, <3>2 DEF S
  <2>3. QED
    BY <2>2
<1> HIDE DEF S
<1>8. ASSUME NEW n \in 1 .. l PROVE w[n] = z[n] + w[n + 1]
  <2>1. n \in 1 .. l + 1 /\ n + 1 \in 1 .. l + 1
    OBVIOUS
  <2>2. w[n] = size(n) /\ w[n + 1] = size(n + 1)
    BY <2>1
  <2> DEFINE p == es[n]
             q == f[n + 1]
             r == f[n]
             i == z[n]
             k == size(n + 1)
             j == size(n)
  <2>3. Sized(p, i) /\ Sized(q, k) /\ Sized(r, j)
    BY <1>7, <2>1
  <2>4. r = p \o q
    BY <1>3
  <2> HIDE DEF p, q, r, i, k, j
  <2>5. Sized(p \o q, i + k)
    BY <2>3, SizedBoth
  <2>6. Sized(r, i + k)
    BY <2>4, <2>5
  <2>7. j = i + k
    BY <2>3, <2>6 DEF Sized
  <2>8. QED
    BY <2>2, <2>7 DEF i, k, j
<1>9. \A n \in 1 .. l + 1 : w[n] \in Nat
  <2>1. \A n \in 1 .. l + 1 : size(n) \in Nat
    <3> HIDE DEF size
    <3>1. QED
      BY <1>7, SizedNat
  <2>2. QED
    BY <2>1
<1>10. w[1] = size(1) /\ w[l + 1] = 0
  <2>1. 1 \in 1 .. l + 1 /\ l + 1 \in 1 .. l + 1
    OBVIOUS
  <2>2. Bytes(<< >>) = << >> /\ Len(<< >>) = 0
    BY NoneYet DEF Bytes
  <2>3. Total(<< >>) = 0
    BY <2>2, TotalEmpty
  <2>4. QED
    BY <1>2, <2>1, <2>2, <2>3
<1> HIDE DEF w, size
<1>11. PICK g : SumOf(g, z) /\ Total(z) = g[Len(z)]
  BY SumExists
<1>12. /\ g[0] = 0
       /\ \A n \in 0 .. l : g[n] \in Nat
       /\ \A n \in 0 .. l : n < l => g[n + 1] = g[n] + z[n + 1]
  BY <1>11, SumStep
<1> DEFINE T == {k \in Nat : k <= l => g[k] + w[k + 1] = w[1]}
<1>13. 0 \in T
  <2>1. w[1] \in Nat
    BY <1>9
  <2>2. QED
    BY <1>12, <2>1
<1>14. ASSUME NEW k \in Nat, k \in T PROVE k + 1 \in T
  <2> SUFFICES ASSUME k + 1 <= l PROVE g[k + 1] + w[(k + 1) + 1] = w[1]
    OBVIOUS
  <2>1. /\ k \in 0 .. l /\ k < l /\ k + 1 \in 1 .. l /\ k <= l /\ (k + 1) + 1 \in 1 .. l + 1
        /\ k + 1 \in 0 .. l
    BY <1>14
  <2>2. g[k] + w[k + 1] = w[1] /\ g[k + 1] = g[k] + z[k + 1]
    BY <1>12, <1>14, <2>1
  <2>3. w[k + 1] = z[k + 1] + w[(k + 1) + 1]
    BY <1>8, <2>1
  <2>4. g[k] \in Nat /\ z[k + 1] \in Nat /\ w[(k + 1) + 1] \in Nat
    BY <1>9, <1>12, <2>1
  <2>5. QED
    BY <2>2, <2>3, <2>4
<1> HIDE DEF T
<1>15. l \in T
  BY <1>13, <1>14, Induction
<1>16. g[l] = w[1]
  <2>1. g[l] + w[l + 1] = w[1] /\ g[l] \in Nat
    BY <1>12, <1>15 DEF T
  <2>2. QED
    BY <1>10, <2>1
<1>17. Sized(f[1], Total(z))
  <2>1. 1 \in 1 .. l + 1 /\ Total(z) = size(1)
    BY <1>10, <1>11, <1>16
  <2>2. QED
    BY <1>7, <2>1
<1>18. Tower(f, es, xs, l)
  <2>1. ASSUME NEW n \in 1 .. l PROVE Encodes(es[n], xs[n]) /\ Splits(f[n], es[n], f[n + 1])
    <3>1. n + 1 \in 1 .. l + 1
      OBVIOUS
    <3>2. IsSeq(es[n]) /\ IsSeq(f[n + 1])
      BY <1>7, <3>1 DEF Sized
    <3>3. Cat(n)
      BY <1>3
    <3>4. Splits(f[n], es[n], f[n + 1])
      BY <3>2, <3>3 DEF Splits
    <3>5. QED
      BY <3>4
  <2> HIDE DEF Cat
  <2>2. QED
    BY <2>1 DEF Tower
<1> HIDE DEF Cat
<1>19. QED
  BY <1>2, <1>4, <1>17, <1>18

-----------------------------------------------------------------------------
(* The messages that are sent.                                              *)

Message(m) == Formed(m) /\ Sized(m.fields, m.size)

LEMMA ReferenceSent ==
  ASSUME NEW type \in {"NEW_REF", "UNLINK_REF"}, NEW id, NEW x
  PROVE  /\ Message(RefMessage(type, id, x))
         /\ RefMessage(type, id, x).meaning = [type |-> type, objects |-> << >>]
<1> DEFINE m == RefMessage(type, id, x)
<1>1. /\ m.fields = <<Field(type, tagBytes), Field(id, idBytes), Field(x, 1)>>
      /\ m.meaning = [type |-> type, objects |-> << >>] /\ m.size = tagBytes + idBytes + 1
  BY DEF RefMessage
<1> HIDE DEF m
<1>2. Formed(m)
  BY <1>1 DEF Formed, FormedReference
<1>3. Sized(m.fields, m.size)
  <2> DEFINE one == 1
  <2>1. tagBytes \in Nat /\ idBytes \in Nat /\ one \in Nat
    BY DEF tagBytes, idBytes
  <2>2. m.fields = <<Field(type, tagBytes), Field(id, idBytes), Field(x, one)>>
        /\ m.size = tagBytes + idBytes + one
    BY <1>1
  <2> HIDE DEF one
  <2>3. QED
    BY <2>1, <2>2, SizedTriple
<1>4. QED
  BY <1>1, <1>2, <1>3 DEF m, Message

LEMMA ObjectSent ==
  ASSUME \A b \in Actors : MemoryOk(b),
         NEW a \in Actors, NEW p, NEW x, Leads(table[a], self[a], p, x)
  PROVE  /\ Message(ObjRefMessage(a, p))
         /\ ObjRefMessage(a, p).meaning = [type |-> "OBJ_REF", objects |-> <<x>>]
<1> DEFINE m == ObjRefMessage(a, p)
           e == Serialize(a, p)
           n == GetSerializedSize(a, p)
           tag == <<Field("OBJ_REF", tagBytes)>>
<1>1. Encodes(e, x) /\ Sized(e, n) /\ n \in Nat /\ Denotes(a, p, table) = x
  BY Written, Denoted
<1>2. Sized(tag, tagBytes) /\ IsSeq(tag)
  BY SizedOne, Single DEF tagBytes
<1>3. /\ m.size = tagBytes + n /\ m.fields = tag \o e
      /\ m.meaning = [type |-> "OBJ_REF", objects |-> <<x>>]
  BY <1>1 DEF ObjRefMessage
<1> HIDE DEF m, e, n, tag
<1>4. Splits(m.fields, tag, e)
  BY <1>1, <1>2, <1>3, EncodesIsSeq DEF Splits
<1>5. Formed(m)
  BY <1>1, <1>3, <1>4 DEF Formed, FormedObject, tag
<1>6. Sized(m.fields, m.size)
  BY <1>1, <1>2, <1>3, SizedBoth
<1>7. QED
  BY <1>3, <1>5, <1>6 DEF m, Message

LEMMA ResultSent ==
  ASSUME \A b \in Actors : MemoryOk(b),
         NEW a \in Actors, NEW p, NEW x, Leads(table[a], self[a], p, x), NEW f \in Objects
  PROVE  /\ Message(ResultObjRefMessage(a, p, Home(f)))
         /\ ResultObjRefMessage(a, p, Home(f)).meaning
              = [type |-> "OBJ_REF_RESULT", objects |-> <<x, f>>]
<1> DEFINE m == ResultObjRefMessage(a, p, Home(f))
           e == Serialize(a, p)
           n == GetSerializedSize(a, p)
           tag == <<Field("OBJ_REF_RESULT", tagBytes)>>
           last == <<Field(Home(f), idBytes)>>
           fields == e \o last
<1>0. table[Home(f).actor][Home(f).index] = f
  <2>1. f \in Objects
    BY SerializationAssumption
  <2>2. Owner[f] \in Actors /\ f \in OwnObjects(Owner[f])
    BY <2>1, HomeOk
  <2>3. table[Owner[f]][Place[f]] = f
    BY <2>2 DEF MemoryOk, TableOk
  <2>4. Home(f).actor = Owner[f] /\ Home(f).index = Place[f]
    BY DEF Home, Id
  <2>5. QED
    BY <2>3, <2>4
<1>1. Encodes(e, x) /\ Sized(e, n) /\ n \in Nat /\ Denotes(a, p, table) = x
  BY Written, Denoted
<1>2. Sized(tag, tagBytes) /\ IsSeq(tag)
  BY SizedOne, Single DEF tagBytes
<1>3. Sized(last, idBytes) /\ IsSeq(last)
  BY SizedOne, Single DEF idBytes
<1>4. /\ m.size = tagBytes + n + idBytes /\ m.fields = (tag \o e) \o last
      /\ m.meaning = [type |-> "OBJ_REF_RESULT", objects |-> <<x, f>>]
  BY <1>0, <1>1 DEF ResultObjRefMessage
<1> HIDE DEF m, e, n, tag, last
<1>5. IsSeq(e)
  BY <1>1, EncodesIsSeq
<1>6. m.fields = tag \o fields /\ IsSeq(fields)
  <2>1. LeftFirst(tag, e, last) = RightFirst(tag, e, last)
    BY <1>2, <1>3, <1>5, Associative
  <2>2. IsSeq(fields)
    BY <1>3, <1>5, Joined
  <2>3. QED
    BY <1>4, <2>1, <2>2 DEF LeftFirst, RightFirst
<1>7. Splits(fields, e, last)
  BY <1>3, <1>5 DEF Splits
<1>8. Sized(m.fields, m.size)
  <2> DEFINE p1 == tag \o e
             n1 == tagBytes + n
  <2>1. Sized(p1, n1)
    BY <1>1, <1>2, SizedBoth
  <2>2. m.fields = p1 \o last /\ m.size = n1 + idBytes
    BY <1>4
  <2> HIDE DEF p1, n1
  <2>3. QED
    BY <1>3, <2>1, <2>2, SizedBoth
<1> HIDE DEF fields
<1>9. Splits(m.fields, tag, fields)
  BY <1>2, <1>6 DEF Splits
<1>10. FormedResult(m)
  BY <1>1, <1>4, <1>7, <1>9 DEF FormedResult, tag, last
<1>11. QED
  BY <1>4, <1>8, <1>10 DEF m, Message, Formed

\* A function on 1 .. n is a sequence of length n.
LEMMA SequenceOf ==
  ASSUME NEW n \in Nat, NEW S, NEW s \in [1 .. n -> S]
  PROVE  s \in Seq(S) /\ Len(s) = n
BY SeqDef

\* What a send names, and after its arguments what its type calls for.
Names(a, type, receiver, signature, args, last, x, y) ==
  /\ IsSeq(args) /\ IsSeq(last) /\ type \in {"SOM", "SOM_WITH_RESULT"}
  /\ Leads(table[a], self[a], receiver, x) /\ Leads(table[a], self[a], signature, y)
  /\ \A i \in DOMAIN args : \E v : Leads(table[a], self[a], args[i], v)
  /\ \A i \in DOMAIN last : \E v : Leads(table[a], self[a], last[i], v)
  /\ Len(last) = IF type = "SOM" THEN 0 ELSE 1
  /\ type = "SOM_WITH_RESULT" => Denotes(a, last[1], table) \in Objects

LEMMA SomSent ==
  ASSUME \A b \in Actors : MemoryOk(b),
         NEW a \in Actors, NEW type, NEW receiver, NEW signature, NEW args, NEW last, NEW x, NEW y,
         Names(a, type, receiver, signature, args, last, x, y)
  PROVE  LET m == SomMessage(type, a, receiver, signature, args, last)
         IN  /\ Message(m) /\ m.meaning.type = type
             /\ type = "SOM_WITH_RESULT" =>
                  Last(m.meaning.objects) = Denotes(a, last[1], table)
<1> DEFINE m == SomMessage(type, a, receiver, signature, args, last)
           ps == args \o last
           n == Len(args)
           k == Len(last)
           l == n + k
           es == [i \in 1 .. Len(ps) |-> Serialize(a, ps[i])]
           xs == [i \in 1 .. Len(ps) |-> Denotes(a, ps[i], table)]
           z == [i \in DOMAIN ps |-> GetSerializedSize(a, ps[i])]
<1>0. /\ IsSeq(args) /\ IsSeq(last) /\ type \in {"SOM", "SOM_WITH_RESULT"}
      /\ Leads(table[a], self[a], receiver, x) /\ Leads(table[a], self[a], signature, y)
      /\ \A i \in DOMAIN args : \E v : Leads(table[a], self[a], args[i], v)
      /\ \A i \in DOMAIN last : \E v : Leads(table[a], self[a], last[i], v)
  BY DEF Names
<1>1. /\ IsSeq(ps) /\ Len(ps) = l /\ DOMAIN ps = 1 .. l /\ n \in Nat /\ k \in Nat
      /\ DOMAIN args = 1 .. n /\ DOMAIN last = 1 .. k
      /\ \A i \in 1 .. l : ps[i] = IF i <= n THEN args[i] ELSE last[i - n]
  BY <1>0, Joined, Measured
<1>2. k = IF type = "SOM" THEN 0 ELSE 1
  BY DEF Names
<1> HIDE DEF ps, n, k
<1>3. ASSUME NEW i \in 1 .. l PROVE \E v : Leads(table[a], self[a], ps[i], v)
  <2>1. CASE i <= n
    <3>1. i \in 1 .. n /\ ps[i] = args[i]
      BY <1>1, <2>1
    <3>2. QED
      BY <1>0, <1>1, <3>1
  <2>2. CASE ~(i <= n)
    <3>1. i - n \in 1 .. k /\ ps[i] = last[i - n]
      BY <1>1, <2>2
    <3>2. QED
      BY <1>0, <1>1, <3>1
  <2>3. QED
    BY <2>1, <2>2
<1>4. ASSUME NEW i \in 1 .. l
      PROVE  /\ Encodes(es[i], xs[i]) /\ Sized(es[i], z[i]) /\ z[i] \in Nat
  <2>1. PICK v : Leads(table[a], self[a], ps[i], v)
    BY <1>3
  <2>2. Denotes(a, ps[i], table) = v
    BY <2>1, Denoted
  <2>3. es[i] = Serialize(a, ps[i]) /\ xs[i] = v /\ z[i] = GetSerializedSize(a, ps[i])
    BY <1>1, <2>2
  <2> HIDE DEF es, xs, z
  <2>4. QED
    BY <2>1, <2>3, Written
<1>5. z \in Seq(Nat) /\ Len(z) = l /\ IsSeq(es) /\ Len(es) = l
  <2>1. DOMAIN z = 1 .. l /\ DOMAIN es = 1 .. l /\ l \in Nat
        /\ z = [i \in 1 .. l |-> z[i]] /\ es = [i \in DOMAIN es |-> es[i]]
    BY <1>1
  <2> HIDE DEF es, xs, z, l
  <2>2. z \in [1 .. l -> Nat]
    BY <1>4, <2>1
  <2>3. z \in Seq(Nat) /\ Len(z) = l
    BY <2>1, <2>2, SeqDef
  <2>4. QED
    BY <2>1, <2>3, FunctionIsSeq
<1> HIDE DEF es, xs, z
<1>6. PICK f : /\ f[l + 1] = << >> /\ Tower(f, es, xs, l) /\ Concat(es) = f[1]
               /\ Sized(f[1], Total(z))
  <2>1. l \in Nat
    BY <1>1
  <2> HIDE DEF l
  <2>2. QED
    BY <1>4, <1>5, <2>1, ConcatTower
<1> DEFINE e1 == Serialize(a, receiver)
           e2 == Serialize(a, signature)
           n1 == GetSerializedSize(a, receiver)
           n2 == GetSerializedSize(a, signature)
<1>7. /\ Encodes(e1, x) /\ Sized(e1, n1) /\ n1 \in Nat /\ Denotes(a, receiver, table) = x
      /\ Encodes(e2, y) /\ Sized(e2, n2) /\ n2 \in Nat /\ Denotes(a, signature, table) = y
  BY <1>0, Written, Denoted
<1>8. SizesOf(a, <<receiver, signature>>) = n1 + n2
  <2> DEFINE w == <<receiver, signature>>
             s == [i \in DOMAIN w |-> GetSerializedSize(a, w[i])]
  <2>1. IsSeq(w) /\ Len(w) = 2 /\ DOMAIN w = 1 .. 2 /\ w[1] = receiver /\ w[2] = signature
    BY Pair
  <2>2. SizesOf(a, w) = Total(s)
    BY DEF SizesOf
  <2> HIDE DEF w
  <2>3. DOMAIN s = 1 .. 2 /\ s[1] = n1 /\ s[2] = n2 /\ s = [i \in DOMAIN s |-> s[i]]
    BY <2>1
  <2> HIDE DEF s, n1, n2
  <2>4. s \in [1 .. 2 -> Nat]
    BY <1>7, <2>3
  <2>5. s \in Seq(Nat) /\ Len(s) = 2 /\ Len(s) \in Nat
    <3> DEFINE two == 2
    <3>1. s \in [1 .. two -> Nat] /\ two \in Nat
      BY <2>4
    <3> HIDE DEF two
    <3>2. s \in Seq(Nat) /\ Len(s) = two
      BY <3>1, SequenceOf
    <3>3. QED
      BY <3>2 DEF two
  <2>6. PICK g : SumOf(g, s) /\ Total(s) = g[Len(s)]
    BY <2>5, SumExists
  <2>7. g[0] = 0 /\ \A i \in 0 .. 2 : i < 2 => g[i + 1] = g[i] + s[i + 1]
    BY <2>5, <2>6, SumStep
  <2>8. g[1] = n1 /\ g[2] = n1 + n2
    <3>1. g[0 + 1] = g[0] + s[0 + 1]
      BY <2>7
    <3>2. g[1 + 1] = g[1] + s[1 + 1]
      BY <2>7
    <3>3. QED
      BY <1>7, <2>3, <2>7, <3>1, <3>2
  <2>9. QED
    BY <2>2, <2>5, <2>6, <2>8 DEF w
<1>9. SizesOf(a, args \o last) = Total(z) /\ Total(z) \in Nat
  BY <1>5, TotalNat DEF SizesOf, z, ps
<1> DEFINE tag == <<Field(type, tagBytes)>>
           count == <<Field(n, sizeBytes)>>
           c == f[1]
           r3 == count \o c
           r2 == e2 \o r3
           r1 == e1 \o r2
<1>10. /\ m.size = tagBytes + (n1 + n2) + sizeBytes + Total(z)
       /\ m.fields = (((tag \o e1) \o e2) \o count) \o c
  BY <1>6, <1>8, <1>9 DEF SomMessage, es, ps, n
<1> DEFINE objects == [i \in 1 .. 2 + Len(ps) |->
                         Denotes(a, (<<receiver, signature>> \o args \o last)[i], table)]
<1>11. m.meaning = [type |-> type, objects |-> objects]
  BY DEF SomMessage, ps
<1> HIDE DEF m
<1>12. /\ IsSeq(tag) /\ Sized(tag, tagBytes) /\ IsSeq(count) /\ Sized(count, sizeBytes)
       /\ IsSeq(e1) /\ IsSeq(e2) /\ IsSeq(c) /\ Sized(c, Total(z))
  <2>1. IsSeq(tag) /\ Sized(tag, tagBytes) /\ IsSeq(count) /\ Sized(count, sizeBytes)
    BY Single, SizedOne DEF tagBytes, sizeBytes
  <2> HIDE DEF tag, count, e1, e2
  <2>2. QED
    BY <1>6, <1>7, <2>1, EncodesIsSeq DEF Sized
<1> HIDE DEF tag, count, e1, e2, n1, n2, c
<1>13. IsSeq(r3) /\ IsSeq(r2) /\ IsSeq(r1)
  <2>1. IsSeq(r3)
    BY <1>12, Joined
  <2> HIDE DEF r3
  <2>2. IsSeq(r2)
    BY <1>12, <2>1, Joined
  <2> HIDE DEF r2
  <2>3. QED
    BY <1>12, <2>1, <2>2, Joined
<1>14. m.fields = tag \o r1
  <2> DEFINE t1 == tag \o e1
             t2 == t1 \o e2
  <2>1. IsSeq(t1)
    BY <1>12, Joined
  <2> HIDE DEF t1
  <2>2. IsSeq(t2)
    BY <1>12, <2>1, Joined
  <2>3. m.fields = (t2 \o count) \o c
    BY <1>10 DEF t1
  <2> HIDE DEF t2, m
  <2>4. (t2 \o count) \o c = t2 \o r3
    <3>1. IsSeq(t2) /\ IsSeq(count) /\ IsSeq(c)
      BY <1>12, <2>2
    <3>2. LeftFirst(t2, count, c) = RightFirst(t2, count, c)
      BY <3>1, Associative
    <3>3. QED
      BY <3>2 DEF LeftFirst, RightFirst
  <2> HIDE DEF r3
  <2>5. t2 \o r3 = t1 \o r2
    <3>1. IsSeq(e2) /\ IsSeq(r3)
      BY <1>12, <1>13
    <3>2. LeftFirst(t1, e2, r3) = RightFirst(t1, e2, r3)
      BY <2>1, <3>1, Associative
    <3>3. QED
      BY <3>2 DEF t2, r2, LeftFirst, RightFirst
  <2>6. t1 \o r2 = tag \o r1
    <3>1. IsSeq(tag) /\ IsSeq(e1) /\ IsSeq(r2)
      BY <1>12, <1>13
    <3> HIDE DEF r2
    <3>2. LeftFirst(tag, e1, r2) = RightFirst(tag, e1, r2)
      BY <3>1, Associative
    <3>3. QED
      BY <3>2 DEF t1, r1, LeftFirst, RightFirst
  <2> HIDE DEF r2
  <2> HIDE DEF r1
  <2>7. QED
    BY <2>3, <2>4, <2>5, <2>6
<1>15. Splits(r3, count, c) /\ Splits(r2, e2, r3) /\ Splits(r1, e1, r2)
  BY <1>12, <1>13 DEF Splits
<1> DEFINE n3 == sizeBytes + Total(z)
           n4 == n2 + n3
           n5 == n1 + n4
<1>16. Sized(m.fields, m.size)
  <2>1. Sized(r3, n3)
    BY <1>12, SizedBoth
  <2>2. n3 \in Nat
    BY <1>9 DEF sizeBytes
  <2> HIDE DEF r3, n3
  <2>3. Sized(r2, n4)
    BY <1>7, <2>1, SizedBoth DEF e2, n2
  <2> HIDE DEF r2, n4
  <2>4. Sized(r1, n5)
    BY <1>7, <2>3, SizedBoth DEF e1, n1
  <2> HIDE DEF r1, n5
  <2>5. Sized(tag \o r1, tagBytes + n5)
    BY <1>12, <2>4, SizedBoth
  <2>6. m.size = tagBytes + n5
    BY <1>7, <1>9, <1>10 DEF tagBytes, sizeBytes, n5, n4, n3, n1, n2
  <2>7. QED
    BY <1>14, <2>5, <2>6
<1> HIDE DEF r3, r2, r1, n3, n4, n5
<1>17. Splits(m.fields, tag, r1)
  <2>1. IsSeq(tag) /\ IsSeq(r1)
    BY <1>12, <1>13
  <2>2. QED
    BY <1>14, <2>1 DEF Splits
<1>18. /\ IsSeq(objects) /\ Len(objects) = 2 + l /\ objects[1] = x /\ objects[2] = y
       /\ \A i \in 1 .. l : objects[2 + i] = xs[i]
  <2> DEFINE w == <<receiver, signature>>
             q == (w \o args) \o last
  <2>1. IsSeq(w) /\ Len(w) = 2 /\ w[1] = receiver /\ w[2] = signature
    BY Pair
  <2> HIDE DEF w
  <2>2. q = w \o ps
    <3>1. IsSeq(w) /\ IsSeq(args) /\ IsSeq(last)
      BY <1>0, <2>1
    <3>2. LeftFirst(w, args, last) = RightFirst(w, args, last)
      BY <3>1, Associative
    <3>3. QED
      BY <3>2 DEF ps, LeftFirst, RightFirst
  <2>3. /\ \A i \in 1 .. Len(w) + Len(ps) :
             (w \o ps)[i] = IF i <= Len(w) THEN w[i] ELSE ps[i - Len(w)]
    BY <1>1, <2>1, Joined
  <2> DEFINE v == w \o ps
  <2>4. \A i \in 1 .. 2 + l : v[i] = IF i <= 2 THEN w[i] ELSE ps[i - 2]
    BY <1>1, <2>1, <2>3
  <2> HIDE DEF q, v
  <2>5. objects = [i \in 1 .. 2 + l |-> Denotes(a, v[i], table)]
    BY <1>1, <2>2 DEF q, v, w
  <2> HIDE DEF objects
  <2>6. IsSeq(objects) /\ Len(objects) = 2 + l
    <3>1. 2 + l \in Nat
      BY <1>1
    <3>2. DOMAIN objects = 1 .. 2 + l /\ objects = [i \in DOMAIN objects |-> objects[i]]
      BY <2>5
    <3>3. QED
      BY <3>1, <3>2, FunctionIsSeq
  <2>7. objects[1] = x /\ objects[2] = y
    <3>1. 1 \in 1 .. 2 + l /\ 2 \in 1 .. 2 + l
      BY <1>1
    <3>2. v[1] = receiver /\ v[2] = signature
      BY <2>1, <2>4, <3>1
    <3>3. QED
      BY <1>7, <2>5, <3>1, <3>2
  <2>8. ASSUME NEW i \in 1 .. l PROVE objects[2 + i] = xs[i]
    <3>1. 2 + i \in 1 .. 2 + l /\ ~(2 + i <= 2) /\ (2 + i) - 2 = i
      BY <1>1
    <3>2. v[2 + i] = ps[i]
      BY <2>4, <3>1
    <3>3. xs[i] = Denotes(a, ps[i], table)
      BY <1>1 DEF xs
    <3>4. QED
      BY <2>5, <3>1, <3>2, <3>3
  <2>9. QED
    BY <2>6, <2>7, <2>8
<1> HIDE DEF objects
<1>19. type = "SOM_WITH_RESULT" => Last(objects) = Denotes(a, last[1], table)
  <2> SUFFICES ASSUME type = "SOM_WITH_RESULT" PROVE Last(objects) = Denotes(a, last[1], table)
    OBVIOUS
  <2>1. k = 1 /\ l = n + 1 /\ l \in 1 .. l
    BY <1>1, <1>2
  <2>2. ps[l] = last[1]
    <3>1. ~(l <= n) /\ l - n = 1
      BY <1>1, <2>1
    <3>2. QED
      BY <1>1, <2>1, <3>1
  <2>3. xs[l] = Denotes(a, last[1], table)
    BY <1>1, <2>1, <2>2 DEF xs
  <2>4. Last(objects) = objects[2 + l]
    BY <1>18 DEF Last
  <2>5. QED
    BY <1>18, <2>1, <2>3, <2>4
<1>20. SomFields(r1, objects, n, k)
  <2> DEFINE from == [i \in 1 .. 3 |-> IF i = 1 THEN r1 ELSE IF i = 2 THEN r2 ELSE r3]
             gs == [i \in 1 .. 2 |-> IF i = 1 THEN e1 ELSE e2]
             vs == [i \in 1 .. 2 |-> IF i = 1 THEN x ELSE y]
  <2>1. /\ from[1] = r1 /\ from[2] = r2 /\ from[3] = r3 /\ gs[1] = e1 /\ gs[2] = e2
        /\ vs[1] = x /\ vs[2] = y
    OBVIOUS
  <2> HIDE DEF from, gs, vs
  <2>2. Tower(from, gs, vs, 2)
    <3>1. Encodes(gs[1], vs[1]) /\ Encodes(gs[2], vs[2])
      BY <1>7, <2>1 DEF e1, e2
    <3>2. Splits(from[1], gs[1], from[2]) /\ Splits(from[2], gs[2], from[3])
      BY <1>15, <2>1
    <3>3. ASSUME NEW i \in 1 .. 2
          PROVE  Encodes(gs[i], vs[i]) /\ Splits(from[i], gs[i], from[i + 1])
      <4>1. (i = 1 /\ i + 1 = 2) \/ (i = 2 /\ i + 1 = 3)
        OBVIOUS
      <4>2. QED
        BY <3>1, <3>2, <4>1
    <3>4. QED
      BY <3>3 DEF Tower
  <2>3. Splits(from[3], count, f[1])
    BY <1>15, <2>1 DEF c
  <2>4. Tower(f, es, xs, n + k) /\ f[n + k + 1] = << >>
    BY <1>6
  <2>5. \A i \in 1 .. 2 : objects[i] = vs[i]
    BY <1>18, <2>1
  <2>6. IsSeq(objects) /\ Len(objects) = 2 + (n + k) /\ \A i \in 1 .. n + k : objects[2 + i] = xs[i]
    BY <1>18
  <2> HIDE DEF l
  <2>7. QED
    BY <2>1, <2>2, <2>3, <2>4, <2>5, <2>6 DEF SomFields, count
<1>21. type = "SOM_WITH_RESULT" => Last(objects) \in Objects
  BY <1>19 DEF Names
<1>22. FormedSom(m)
  BY <1>0, <1>1, <1>2, <1>11, <1>17, <1>20, <1>21 DEF FormedSom, tag
<1>23. m.meaning.type = type /\ m.meaning.objects = objects
  BY <1>11
<1>24. QED
  BY <1>16, <1>19, <1>22, <1>23 DEF m, Message, Formed

-----------------------------------------------------------------------------
(* The invariant: the memory of an actor, what it holds, what its queue     *)
(* holds, and who will answer a frame that waits.                           *)

PointersOk(t, s, ps) == \A p \in ps : IsIndex(p) /\ \E x \in Objects : Leads(t, s, p, x)

\* What an actor has to answer are objects: frames, as long as nothing is lost.
AnswersOk(t, s, ps) == \A p \in ps : \E f \in Objects : Leads(t, s, p, f)

\* A result goes to the owner of the frame it names.
QueueOk(a, q) ==
  /\ IsSeq(q)
  /\ \A i \in DOMAIN q : /\ Message(q[i])
                         /\ q[i].meaning.type = "OBJ_REF_RESULT" =>
                              Owner[Last(q[i].meaning.objects)] = a

WaitingOk(a, ids) == \A id \in ids : \E f \in Frames : Owner[f] = a /\ id = Home(f)

\* A message, or an activation at hand, that will bring the frame f its result.
Bears(m, f) ==
  m.meaning.type \in {"SOM_WITH_RESULT", "OBJ_REF_RESULT"} /\ Last(m.meaning.objects) = f
OnItsWay(q, f, b, i) == b \in Actors /\ i \in DOMAIN q[b] /\ Bears(q[b][i], f)
AtHand(t, s, ps, f, b, p) == b \in Actors /\ p \in ps[b] /\ Leads(t[b], s[b], p, f)

\* One of them at most, and one of them exactly when the frame waits.
Borne(q, t, s, ps, w, f) ==
  /\ \A b, c, i, j : OnItsWay(q, f, b, i) /\ OnItsWay(q, f, c, j) => b = c /\ i = j
  /\ \A b, c, x, y : AtHand(t, s, ps, f, b, x) /\ AtHand(t, s, ps, f, c, y) => b = c /\ x = y
  /\ \A b, c, i, x : ~(OnItsWay(q, f, b, i) /\ AtHand(t, s, ps, f, c, x))
  /\ (Home(f) \in w[Owner[f]]) <=> ((\E b, i : OnItsWay(q, f, b, i))
                                    \/ \E c, x : AtHand(t, s, ps, f, c, x))

Ends == {"no", "unknown type", "no activation", "freed object"}

ActorOk(a) ==
  /\ MemoryOk(a)
  /\ PointersOk(table[a], self[a], held[a] \cup pending[a])
  /\ AnswersOk(table[a], self[a], pending[a])
  /\ QueueOk(a, queue[a])
  /\ WaitingOk(a, waiting[a])
  /\ lost[a] \subseteq Kinds /\ ended[a] \in Ends

Shape ==
  /\ DOMAIN table = Actors /\ DOMAIN free = Actors /\ DOMAIN self = Actors
  /\ DOMAIN objectMap = Actors /\ DOMAIN held = Actors /\ DOMAIN pending = Actors
  /\ DOMAIN queue = Actors /\ DOMAIN waiting = Actors /\ DOMAIN ended = Actors
  /\ DOMAIN lost = Actors

AllBorne == \A f \in Objects : Borne(queue, table, self, pending, waiting, f)
NoneUnknown == \A a \in Actors : ended[a] # "no activation"

\* Answers are exact as long as no collection frees what a parked coroutine needs.
IInv ==
  /\ Shape
  /\ \A a \in Actors : ActorOk(a)
  /\ NothingLost => AllBorne /\ NoneUnknown
  /\ decoded \in Decoders /\ sends \in 0 .. MaxSends

\* A pointer to an object is an index, and leads to no other.
LEMMA LeadsToOne ==
  ASSUME NEW t, NEW s, NEW p, NEW x, Leads(t, s, p, x), NEW y, Leads(t, s, p, y),
         NEW a, NEW m, TableOk(a, t), ProxiesOk(a, t, s, m)
  PROVE  x = y
<1>1. CASE IsIndex(p)
  <2>1. /\ x \in Objects /\ (t[p[2]] = x \/ (t[p[2]] \in DOMAIN s /\ t[p[2]].id = Home(x)))
        /\ y \in Objects /\ (t[p[2]] = y \/ (t[p[2]] \in DOMAIN s /\ t[p[2]].id = Home(y)))
    BY <1>1, IndexLeads
  <2> DEFINE z == t[p[2]]
  <2>2. z \in DOMAIN s => z \notin Objects
    BY ProxyKnown
  <2> HIDE DEF z
  <2>3. CASE z = x
    BY <2>1, <2>2, <2>3 DEF z
  <2>4. CASE z # x
    <3>1. z.id = Home(x) /\ z.id = Home(y)
      BY <2>1, <2>2, <2>4 DEF z
    <3>2. QED
      BY <2>1, <3>1, HomeIsOne
  <2>5. QED
    BY <2>3, <2>4
<1>2. CASE ~IsIndex(p)
  BY <1>2, ImmutableLeads
<1>3. QED
  BY <1>1, <1>2

LEMMA ObjectIsIndexed ==
  ASSUME NEW t, NEW s, NEW p, NEW x \in Objects, Leads(t, s, p, x)
  PROVE  IsIndex(p)
BY DEF Leads, Fixed, IsIndex, Pointer

\* What the program of an actor may send.
LEMMA PointersLead ==
  ASSUME NEW a \in Actors, ActorOk(a), NEW p \in Pointers(a)
  PROVE  \E x : Leads(table[a], self[a], p, x)
<1>1. CASE p \in held[a]
  BY <1>1 DEF ActorOk, PointersOk
<1>2. CASE p \in Values
  <2>1. Fixed(p)
    BY <1>2, SerializationAssumption DEF Fixed
  <2>2. QED
    BY <2>1, ImmutableLeadsTo
<1>3. QED
  BY <1>1, <1>2 DEF Pointers

LEMMA SignaturesLead ==
  ASSUME NEW s \in Signatures, NEW t, NEW u
  PROVE  Leads(t, u, s, s)
<1>1. Fixed(s)
  BY SerializationAssumption DEF Fixed
<1>2. QED
  BY <1>1, ImmutableLeadsTo

-----------------------------------------------------------------------------
(* Steps that only send: the memory stays.                                  *)

\* What a queue holds stays in order when messages of the same kind follow.
LEMMA QueueGrows ==
  ASSUME NEW a, NEW q, QueueOk(a, q), NEW ms, QueueOk(a, ms)
  PROVE  /\ QueueOk(a, q \o ms)
         /\ Len(q) \in Nat
         /\ DOMAIN q = 1 .. Len(q) /\ DOMAIN ms = 1 .. Len(ms) /\ Len(ms) \in Nat
         /\ DOMAIN (q \o ms) = 1 .. Len(q) + Len(ms)
         /\ \A i \in DOMAIN (q \o ms) : (q \o ms)[i] = IF i <= Len(q) THEN q[i] ELSE ms[i - Len(q)]
<1>1. IsSeq(q) /\ IsSeq(ms)
  BY DEF QueueOk
<1>2. /\ Len(q) \in Nat /\ DOMAIN q = 1 .. Len(q) /\ Len(ms) \in Nat /\ DOMAIN ms = 1 .. Len(ms)
  BY <1>1, Measured
<1> DEFINE r == q \o ms
<1>3. /\ IsSeq(r) /\ DOMAIN r = 1 .. Len(q) + Len(ms)
      /\ \A i \in 1 .. Len(q) + Len(ms) : r[i] = IF i <= Len(q) THEN q[i] ELSE ms[i - Len(q)]
  BY <1>1, Joined
<1> HIDE DEF r
<1>4. ASSUME NEW i \in DOMAIN r
      PROVE  (\E j \in DOMAIN q : r[i] = q[j]) \/ (\E j \in DOMAIN ms : r[i] = ms[j])
  BY <1>2, <1>3
<1>5. QueueOk(a, r)
  BY <1>3, <1>4 DEF QueueOk
<1>6. QED
  BY <1>2, <1>3, <1>5 DEF r

LEMMA TwoParts ==
  ASSUME NEW a, NEW q, QueueOk(a, q), NEW ms, QueueOk(a, ms)
  PROVE  LET r == q \o ms
             k == Len(q)
         IN  /\ QueueOk(a, r) /\ k \in Nat /\ DOMAIN q = 1 .. k /\ DOMAIN r = 1 .. k + Len(ms)
             /\ \A i \in DOMAIN r : r[i] = IF i <= k THEN q[i] ELSE ms[i - k]
BY QueueGrows

\* A message that bears nothing changes nothing for a frame.
LEMMA NothingNew ==
  ASSUME NEW a, NEW q, QueueOk(a, q), NEW ms, QueueOk(a, ms), NEW f,
         \A i \in DOMAIN ms : ~Bears(ms[i], f)
  PROVE  \A i : i \in DOMAIN (q \o ms) /\ Bears((q \o ms)[i], f) <=> i \in DOMAIN q /\ Bears(q[i], f)
<1> DEFINE r == q \o ms
<1>1. /\ Len(q) \in Nat /\ DOMAIN q = 1 .. Len(q) /\ DOMAIN ms = 1 .. Len(ms) /\ Len(ms) \in Nat
      /\ DOMAIN r = 1 .. Len(q) + Len(ms)
      /\ \A i \in DOMAIN r : r[i] = IF i <= Len(q) THEN q[i] ELSE ms[i - Len(q)]
  BY QueueGrows
<1> HIDE DEF r
<1>2. \A i : i \in DOMAIN r /\ Bears(r[i], f) <=> i \in DOMAIN q /\ Bears(q[i], f)
  BY <1>1
<1>3. QED
  BY <1>2 DEF r

LEMMA OneMessage ==
  ASSUME NEW a, NEW m, Message(m), m.meaning.type = "OBJ_REF_RESULT" => Owner[Last(m.meaning.objects)] = a
  PROVE  QueueOk(a, <<m>>)
BY Single DEF QueueOk

LEMMA NoMessage ==
  ASSUME NEW a
  PROVE  QueueOk(a, << >>)
BY NoneYet DEF QueueOk

\* A frame that is borne by the same messages and activations as before.
LEMMA BorneSame ==
  ASSUME NEW q, NEW t, NEW s, NEW ps, NEW w, NEW f, Borne(q, t, s, ps, w, f),
         NEW r, NEW u, NEW v, NEW os, NEW z,
         \A b, i : OnItsWay(r, f, b, i) <=> OnItsWay(q, f, b, i),
         \A b, p : AtHand(u, v, os, f, b, p) <=> AtHand(t, s, ps, f, b, p),
         (Home(f) \in z[Owner[f]]) <=> (Home(f) \in w[Owner[f]])
  PROVE  Borne(r, u, v, os, z, f)
BY DEF Borne

\* The memory and what the program holds stay; queues are in order.
LEMMA OnlySends ==
  ASSUME IInv, UNCHANGED <<memory, decoded, lost, ended>>, DOMAIN held' = Actors,
         DOMAIN pending' = Actors, DOMAIN waiting' = Actors, DOMAIN queue' = Actors,
         sends' \in 0 .. MaxSends,
         \A b \in Actors : /\ held'[b] \subseteq held[b] /\ pending'[b] \subseteq pending[b]
                           /\ QueueOk(b, queue'[b]) /\ WaitingOk(b, waiting'[b]),
         NothingLost => \A f \in Objects : Borne(queue', table, self, pending', waiting', f)
  PROVE  IInv'
<1>1. /\ table' = table /\ free' = free /\ self' = self /\ objectMap' = objectMap
      /\ decoded' = decoded /\ lost' = lost /\ ended' = ended
  BY DEF memory
<1>2. Shape'
  BY <1>1 DEF IInv, Shape
<1>3. ASSUME NEW a \in Actors PROVE ActorOk(a)'
  <2>1. ActorOk(a)
    BY DEF IInv
  <2>2. MemoryOk(a)'
    BY <1>1, <2>1 DEF ActorOk, MemoryOk
  <2>3. PointersOk(table'[a], self'[a], held'[a] \cup pending'[a])
    BY <1>1, <2>1 DEF ActorOk, PointersOk
  <2>4. AnswersOk(table'[a], self'[a], pending'[a])
    BY <1>1, <2>1 DEF ActorOk, AnswersOk
  <2>5. lost'[a] \subseteq Kinds /\ ended'[a] \in Ends
    BY <1>1, <2>1 DEF ActorOk
  <2>6. QED
    BY <2>2, <2>3, <2>4, <2>5 DEF ActorOk, Ends
<1>4. NothingLost' => AllBorne' /\ NoneUnknown'
  BY <1>1 DEF IInv, NothingLost, AllBorne, NoneUnknown
<1>5. QED
  BY <1>1, <1>2, <1>3, <1>4 DEF IInv

\* A step that only sends messages that bring no result.
LEMMA SendsNoResult ==
  ASSUME IInv, NEW b \in Actors, NEW ms, QueueOk(b, ms), Deliver(b, ms),
         \A f \in Objects : \A i \in DOMAIN ms : ~Bears(ms[i], f)
  PROVE  /\ DOMAIN queue' = Actors
         /\ \A c \in Actors : QueueOk(c, queue'[c])
         /\ \A f \in Objects : \A c, i : OnItsWay(queue', f, c, i) <=> OnItsWay(queue, f, c, i)
<1>1. /\ DOMAIN queue = Actors /\ DOMAIN queue' = Actors
      /\ \A c \in Actors : queue'[c] = IF c = b THEN queue[b] \o ms ELSE queue[c]
  BY DEF IInv, Shape, Deliver
<1>2. \A c \in Actors : QueueOk(c, queue[c])
  BY DEF IInv, ActorOk
<1>3. QueueOk(b, queue[b] \o ms)
  BY <1>2, QueueGrows
<1>4. \A c \in Actors : QueueOk(c, queue'[c])
  BY <1>1, <1>2, <1>3
<1>5. ASSUME NEW f \in Objects, NEW c, NEW i
      PROVE  OnItsWay(queue', f, c, i) <=> OnItsWay(queue, f, c, i)
  <2>1. CASE c = b
    <3> DEFINE q == queue[b]
               r == q \o ms
    <3>1. \A j : j \in DOMAIN r /\ Bears(r[j], f) <=> j \in DOMAIN q /\ Bears(q[j], f)
      BY <1>2, NothingNew
    <3>2. queue'[b] = r
      BY <1>1
    <3> HIDE DEF r, q
    <3>3. OnItsWay(queue', f, b, i) <=> i \in DOMAIN r /\ Bears(r[i], f)
      BY <3>2 DEF OnItsWay
    <3>4. OnItsWay(queue, f, b, i) <=> i \in DOMAIN q /\ Bears(q[i], f)
      BY DEF OnItsWay, q
    <3>5. QED
      BY <2>1, <3>1, <3>3, <3>4
  <2>2. CASE c # b
    BY <1>1, <2>2 DEF OnItsWay
  <2>3. QED
    BY <2>1, <2>2
<1>6. QED
  BY <1>1, <1>4, <1>5

LEMMA MaySends ==
  ASSUME IInv, NEW a, MaySend(a)
  PROVE  sends' \in 0 .. MaxSends
BY SerializationAssumption DEF IInv, MaySend

\* Programs send, and what they hold or wait for stays.
LEMMA SentSame ==
  ASSUME IInv, NEW a \in Actors, MaySend(a),
         UNCHANGED <<memory, held, waiting, pending, decoded, lost, ended>>,
         DOMAIN queue' = Actors,
         \A c \in Actors : QueueOk(c, queue'[c]),
         \A f \in Objects : \A c, i : OnItsWay(queue', f, c, i) <=> OnItsWay(queue, f, c, i)
  PROVE  IInv'
<1>1. ASSUME NothingLost, NEW f \in Objects
      PROVE  Borne(queue', table, self, pending', waiting', f)
  <2>1. Borne(queue, table, self, pending, waiting, f)
    BY <1>1 DEF IInv, AllBorne
  <2>2. pending' = pending /\ waiting' = waiting
    OBVIOUS
  <2>3. QED
    BY <2>1, <2>2, BorneSame
<1>2. /\ DOMAIN held' = Actors /\ DOMAIN pending' = Actors /\ DOMAIN waiting' = Actors
      /\ UNCHANGED <<memory, decoded, lost, ended>>
      /\ \A c \in Actors : /\ held'[c] \subseteq held[c] /\ pending'[c] \subseteq pending[c]
                           /\ WaitingOk(c, waiting'[c])
  BY DEF IInv, Shape, ActorOk
<1>3. sends' \in 0 .. MaxSends
  BY MaySends
<1>4. QED
  BY <1>1, <1>2, <1>3, OnlySends

LEMMA SendReferenceKeeps ==
  ASSUME IInv, NEW a \in Actors, SendReference(a)
  PROVE  IInv'
<1>1. PICK p \in Pointers(a), b \in Actors :
        /\ MaySend(a) /\ Deliver(b, <<ObjRefMessage(a, p)>>)
        /\ UNCHANGED <<memory, held, waiting, pending, decoded, lost, ended>>
  BY DEF SendReference
<1>2. \A c \in Actors : MemoryOk(c)
  BY DEF IInv, ActorOk
<1>3. PICK x : Leads(table[a], self[a], p, x)
  BY PointersLead DEF IInv
<1> DEFINE m == ObjRefMessage(a, p)
           ms == <<m>>
<1>4. Message(m) /\ m.meaning.type = "OBJ_REF"
  <2>1. Message(m) /\ m.meaning = [type |-> "OBJ_REF", objects |-> <<x>>]
    BY <1>2, <1>3, ObjectSent
  <2> HIDE DEF m
  <2>2. QED
    BY <2>1
<1>5. Deliver(b, ms)
  BY <1>1
<1> HIDE DEF m
<1>6. QueueOk(b, ms)
  BY <1>4, OneMessage
<1>7. \A f \in Objects : \A i \in DOMAIN ms : ~Bears(ms[i], f)
  BY <1>4, Single DEF Bears
<1> HIDE DEF ms
<1>8. /\ DOMAIN queue' = Actors
      /\ \A c \in Actors : QueueOk(c, queue'[c])
      /\ \A f \in Objects : \A c, i : OnItsWay(queue', f, c, i) <=> OnItsWay(queue, f, c, i)
  BY <1>5, <1>6, <1>7, SendsNoResult
<1>9. QED
  BY <1>1, <1>8, SentSame

LEMMA HeldLeads ==
  ASSUME IInv, NEW a \in Actors, NEW p \in held[a]
  PROVE  IsIndex(p) /\ \E x \in Objects : Leads(table[a], self[a], p, x)
BY DEF IInv, ActorOk, PointersOk

LEMMA ArgumentsLead ==
  ASSUME IInv, NEW a \in Actors, NEW args \in Arguments(a)
  PROVE  /\ IsSeq(args)
         /\ \A i \in DOMAIN args : \E x : Leads(table[a], self[a], args[i], x)
<1>1. PICK n \in 0 .. MaxArguments : args \in [1 .. n -> Pointers(a)]
  BY DEF Arguments
<1>2. n \in Nat
  BY <1>1, SerializationAssumption
<1>3. IsSeq(args)
  BY <1>1, <1>2, FunctionIsSeq
<1>4. ASSUME NEW i \in DOMAIN args PROVE \E x : Leads(table[a], self[a], args[i], x)
  <2>1. args[i] \in Pointers(a)
    BY <1>1
  <2>2. ActorOk(a)
    BY DEF IInv
  <2>3. QED
    BY <2>1, <2>2, PointersLead
<1>5. QED
  BY <1>3, <1>4

LEMMA NoLast ==
  ASSUME NEW t, NEW s
  PROVE  IsSeq(<< >>) /\ Len(<< >>) = 0 /\ \A i \in DOMAIN << >> : \E x : Leads(t, s, << >>[i], x)
BY NoneYet

\* A message that names a frame which waits for its result.
LEMMA SyncSent ==
  ASSUME \A b \in Actors : MemoryOk(b),
         NEW a \in Actors, NEW receiver, NEW signature, NEW args, IsSeq(args),
         NEW x, Leads(table[a], self[a], receiver, x),
         NEW y, Leads(table[a], self[a], signature, y),
         \A i \in DOMAIN args : \E v : Leads(table[a], self[a], args[i], v),
         NEW p, NEW f \in Objects, Leads(table[a], self[a], p, f)
  PROVE  LET m == SomMessage("SOM_WITH_RESULT", a, receiver, signature, args, <<p>>)
         IN  Message(m) /\ Bears(m, f) /\ m.meaning.type # "OBJ_REF_RESULT"
<1> DEFINE last == <<p>>
           type == "SOM_WITH_RESULT"
           m == SomMessage(type, a, receiver, signature, args, last)
<1>1. Denotes(a, p, table) = f
  BY Denoted
<1>2. IsSeq(last) /\ Len(last) = 1 /\ last[1] = p /\ DOMAIN last = {1}
  BY Single
<1> HIDE DEF last
<1>3. \A i \in DOMAIN last : \E v : Leads(table[a], self[a], last[i], v)
  BY <1>2
<1>4. type \in {"SOM", "SOM_WITH_RESULT"} /\ (Len(last) = IF type = "SOM" THEN 0 ELSE 1)
  BY <1>2
<1>5. type = "SOM_WITH_RESULT" => Denotes(a, last[1], table) \in Objects
  BY <1>1, <1>2
<1> HIDE DEF type
<1>6. /\ Message(m) /\ m.meaning.type = type
      /\ type = "SOM_WITH_RESULT" => Last(m.meaning.objects) = Denotes(a, last[1], table)
  <2>1. IsSeq(last)
    BY <1>2
  <2>2. m = SomMessage(type, a, receiver, signature, args, last)
    OBVIOUS
  <2> HIDE DEF m
  <2>3. Names(a, type, receiver, signature, args, last, x, y)
    BY <1>3, <1>4, <1>5, <2>1 DEF Names
  <2>4. QED
    BY <2>2, <2>3, SomSent
<1> HIDE DEF m
<1>7. Message(m) /\ Bears(m, f) /\ m.meaning.type # "OBJ_REF_RESULT"
  BY <1>1, <1>2, <1>6 DEF Bears, type
<1>8. QED
  BY <1>7 DEF m, type, last

LEMMA SendAsyncKeeps ==
  ASSUME IInv, NEW a \in Actors, SendAsync(a)
  PROVE  IInv'
<1>1. PICK receiver \in held[a], args \in Arguments(a), signature \in Signatures :
        /\ MaySend(a)
        /\ Deliver(GetHomeId(a, receiver), <<SomMessage("SOM", a, receiver, signature, args, << >>)>>)
        /\ UNCHANGED <<memory, held, waiting, pending, decoded, lost, ended>>
  BY DEF SendAsync
<1>2. \A c \in Actors : MemoryOk(c)
  BY DEF IInv, ActorOk
<1>3. PICK x \in Objects : Leads(table[a], self[a], receiver, x)
  BY HeldLeads
<1>4. GetHomeId(a, receiver) = Owner[x] /\ Owner[x] \in Actors
  <2>1. IsIndex(receiver)
    BY HeldLeads
  <2>2. QED
    BY <1>2, <1>3, <2>1, Denoted, HomeOk
<1> DEFINE last == << >>
           b == Owner[x]
           m == SomMessage("SOM", a, receiver, signature, args, last)
           ms == <<m>>
           type == "SOM"
<1>5. Message(m) /\ m.meaning.type = "SOM"
  <2>1. IsSeq(last) /\ Len(last) = 0 /\ \A i \in DOMAIN last : \E y : Leads(table[a], self[a], last[i], y)
    BY NoLast
  <2>2. /\ IsSeq(args) /\ \A i \in DOMAIN args : \E y : Leads(table[a], self[a], args[i], y)
        /\ Leads(table[a], self[a], signature, signature)
    BY ArgumentsLead, SignaturesLead
  <2>3. m = SomMessage(type, a, receiver, signature, args, last)
    OBVIOUS
  <2>4. /\ type \in {"SOM", "SOM_WITH_RESULT"} /\ type # "SOM_WITH_RESULT" /\ type = "SOM"
        /\ Len(last) = IF type = "SOM" THEN 0 ELSE 1
    BY <2>1
  <2> HIDE DEF last, m, type
  <2>5. Message(m) /\ m.meaning.type = type
    <3>1. Names(a, type, receiver, signature, args, last, x, signature)
      BY <1>3, <2>1, <2>2, <2>4 DEF Names
    <3>2. QED
      BY <1>2, <2>3, <3>1, SomSent
  <2>6. QED
    BY <2>4, <2>5
<1>6. Deliver(b, ms)
  BY <1>1, <1>4
<1> HIDE DEF m
<1>7. QueueOk(b, ms)
  BY <1>5, OneMessage
<1>8. \A f \in Objects : \A i \in DOMAIN ms : ~Bears(ms[i], f)
  BY <1>5, Single DEF Bears
<1> HIDE DEF ms
<1>9. /\ DOMAIN queue' = Actors
      /\ \A c \in Actors : QueueOk(c, queue'[c])
      /\ \A f \in Objects : \A c, i : OnItsWay(queue', f, c, i) <=> OnItsWay(queue, f, c, i)
  BY <1>4, <1>6, <1>7, <1>8, SendsNoResult
<1>10. QED
  BY <1>1, <1>9, SentSame

Bearless(ms) == \A i \in DOMAIN ms : \A f : ~Bears(ms[i], f)

\* A step that sends one message that will bring the frame f its result, to b.
LEMMA SendsOne ==
  ASSUME IInv, NEW b \in Actors, NEW first, QueueOk(b, first), NEW m, NEW one, one = <<m>>,
         QueueOk(b, one), NEW f \in Objects, Bears(m, f), Bearless(first), Deliver(b, first \o one)
  PROVE  /\ DOMAIN queue' = Actors
         /\ \A c \in Actors : QueueOk(c, queue'[c])
         /\ \A g \in Objects : g # f =>
              \A c, i : OnItsWay(queue', g, c, i) <=> OnItsWay(queue, g, c, i)
         /\ \E n : \A c, i : OnItsWay(queue', f, c, i)
                               <=> OnItsWay(queue, f, c, i) \/ (c = b /\ i = n)
         /\ \E i : OnItsWay(queue', f, b, i)
<1> DEFINE ms == first \o one
           q == queue[b]
           r == q \o ms
           k == Len(first)
           l == Len(q)
<1>1. /\ DOMAIN queue = Actors /\ DOMAIN queue' = Actors
      /\ \A c \in Actors : queue'[c] = IF c = b THEN r ELSE queue[c]
  BY DEF IInv, Shape, Deliver
<1>2. \A c \in Actors : QueueOk(c, queue[c])
  BY DEF IInv, ActorOk
<1>3. one[1] = m /\ DOMAIN one = {1} /\ Len(one) = 1 /\ QueueOk(b, one)
  BY Single
<1>4. /\ QueueOk(b, ms) /\ k \in Nat /\ DOMAIN first = 1 .. k /\ DOMAIN ms = 1 .. k + 1
      /\ \A i \in DOMAIN ms : ms[i] = IF i <= k THEN first[i] ELSE one[i - k]
  <2>1. QueueOk(b, one)
    BY <1>3
  <2> HIDE DEF ms, k, q, r, l
  <2>2. /\ QueueOk(b, ms) /\ k \in Nat /\ DOMAIN first = 1 .. k /\ DOMAIN ms = 1 .. k + Len(one)
        /\ \A i \in DOMAIN ms : ms[i] = IF i <= k THEN first[i] ELSE one[i - k]
    BY <2>1, TwoParts DEF ms, k
  <2>3. QED
    BY <1>3, <2>2
<1> HIDE DEF ms, k
<1>5. Len(ms) = k + 1
  BY <1>4, Measured DEF QueueOk
<1>6. /\ QueueOk(b, r) /\ l \in Nat /\ DOMAIN q = 1 .. l /\ DOMAIN r = 1 .. l + (k + 1)
      /\ \A i \in DOMAIN r : r[i] = IF i <= l THEN q[i] ELSE ms[i - l]
  <2>1. QueueOk(b, q)
    BY <1>2
  <2> HIDE DEF q, l, r
  <2>2. /\ QueueOk(b, q \o ms) /\ Len(q) \in Nat /\ DOMAIN q = 1 .. Len(q)
        /\ DOMAIN (q \o ms) = 1 .. Len(q) + Len(ms)
        /\ \A i \in DOMAIN (q \o ms) :
             (q \o ms)[i] = IF i <= Len(q) THEN q[i] ELSE ms[i - Len(q)]
    BY <1>4, <2>1, QueueGrows
  <2>3. /\ QueueOk(b, r) /\ l \in Nat /\ DOMAIN q = 1 .. l /\ DOMAIN r = 1 .. l + Len(ms)
        /\ \A i \in DOMAIN r : r[i] = IF i <= l THEN q[i] ELSE ms[i - l]
    BY <2>2 DEF r, l
  <2>4. QED
    BY <1>5, <2>3
<1> HIDE DEF q, r, l
<1>7. \A c \in Actors : QueueOk(c, queue'[c])
  BY <1>1, <1>2, <1>6
<1> DEFINE n == l + (k + 1)
<1>8. ASSUME NEW g, NEW i
      PROVE  i \in DOMAIN r /\ Bears(r[i], g) <=> (i \in DOMAIN q /\ Bears(q[i], g)) \/ (i = n /\ Bears(m, g))
  <2>1. CASE i \in 1 .. l
    BY <1>4, <1>6, <2>1
  <2>2. CASE i \in l + 1 .. l + k
    <3>1. i \in DOMAIN r /\ i - l \in 1 .. k /\ r[i] = ms[i - l] /\ ms[i - l] = first[i - l]
          /\ i # n /\ i \notin DOMAIN q
      <4>1. l \in Nat /\ k \in Nat
        BY <1>4, <1>6
      <4>2. /\ i \in 1 .. l + (k + 1) /\ ~(i <= l) /\ i \notin 1 .. l /\ i # n
            /\ i - l \in 1 .. k /\ i - l \in 1 .. k + 1 /\ i - l <= k
        BY <2>2, <4>1
      <4>3. QED
        BY <1>4, <1>6, <4>2
    <3>2. ~Bears(r[i], g)
      BY <1>4, <3>1 DEF Bearless
    <3>3. QED
      BY <3>1, <3>2
  <2>3. CASE i = n
    <3>1. i \in DOMAIN r /\ i - l = k + 1 /\ k + 1 \in DOMAIN ms /\ (k + 1) - k = 1 /\ ~(k + 1 <= k)
          /\ ~(i <= l) /\ i \notin DOMAIN q
      BY <1>4, <1>6, <2>3
    <3>2. r[i] = ms[k + 1] /\ ms[k + 1] = m
      BY <1>3, <1>4, <1>6, <3>1
    <3>3. QED
      BY <2>3, <3>1, <3>2
  <2>4. CASE i \notin 1 .. l /\ i \notin l + 1 .. l + k /\ i # n
    <3>1. i \notin DOMAIN r
      <4>1. ASSUME i \in 1 .. l + (k + 1) PROVE FALSE
        BY <1>4, <1>6, <2>4, <4>1
      <4>2. QED
        BY <1>6, <4>1
    <3>2. i \notin DOMAIN q
      BY <1>6, <2>4
    <3>3. QED
      BY <2>4, <3>1, <3>2
  <2>5. QED
    BY <2>1, <2>2, <2>3, <2>4
<1> HIDE DEF n
<1>9. Bears(m, f) /\ \A g : g # f => ~Bears(m, g)
  BY DEF Bears
<1>10. ASSUME NEW g, NEW c, NEW i
       PROVE  OnItsWay(queue', g, c, i) <=> OnItsWay(queue, g, c, i) \/ (c = b /\ i = n /\ g = f)
  <2>1. CASE c = b
    BY <1>1, <1>8, <1>9, <2>1 DEF OnItsWay, q
  <2>2. CASE c # b
    BY <1>1, <2>2 DEF OnItsWay
  <2>3. QED
    BY <2>1, <2>2
<1>11. OnItsWay(queue', f, b, n)
  BY <1>10
<1>12. \E k1 : \A c, i : OnItsWay(queue', f, c, i)
                           <=> OnItsWay(queue, f, c, i) \/ (c = b /\ i = k1)
  <2>1. \A c, i : OnItsWay(queue', f, c, i) <=> OnItsWay(queue, f, c, i) \/ (c = b /\ i = n)
    BY <1>10
  <2>2. QED
    BY <2>1, Zenon
<1>13. \A g \in Objects : g # f => \A c, i : OnItsWay(queue', g, c, i) <=> OnItsWay(queue, g, c, i)
  BY <1>10
<1>14. QED
  BY <1>1, <1>7, <1>11, <1>12, <1>13

\* A frame leads to itself, under its home.
LEMMA FrameLeads ==
  ASSUME NEW a \in Actors, MemoryOk(a), NEW f \in Objects, Owner[f] = a
  PROVE  /\ Leads(table[a], self[a], Pointer(Place[f]), f)
         /\ GetGlobalId(a, Pointer(Place[f])) = Home(f)
<1>1. f \in Objects
  OBVIOUS
<1>2. f \in OwnObjects(a)
  BY <1>1 DEF OwnObjects
<1>3. Place[f] \in DOMAIN table[a] /\ table[a][Place[f]] = f
  BY <1>2 DEF MemoryOk, TableOk
<1> DEFINE p == Pointer(Place[f])
<1>4. p[2] = Place[f] /\ p = Pointer(p[2])
  BY DEF Pointer
<1> HIDE DEF p
<1>5. Leads(table[a], self[a], p, f)
  BY <1>1, <1>3, <1>4 DEF Leads
<1>6. GetGlobalId(a, p) = Home(f)
  BY <1>1, <1>3, <1>4 DEF GetGlobalId, IsProxy, Home
<1>7. QED
  BY <1>5, <1>6 DEF p

LEMMA SendSyncKeeps ==
  ASSUME IInv, NEW a \in Actors, SendSync(a)
  PROVE  IInv'
<1>1. PICK receiver \in held[a], args \in Arguments(a), signature \in Signatures, f \in Frames :
        /\ MaySend(a)
        /\ Owner[f] = a /\ Id(a, Place[f]) \notin waiting[a]
        /\ waiting' = [waiting EXCEPT ![a] = @ \cup {GetGlobalId(a, Pointer(Place[f]))}]
        /\ Deliver(GetHomeId(a, receiver),
              <<SomMessage("SOM_WITH_RESULT", a, receiver, signature, args, <<Pointer(Place[f])>>)>>)
        /\ UNCHANGED <<memory, held, pending, decoded, lost, ended>>
  BY DEF SendSync
<1>2. \A c \in Actors : MemoryOk(c)
  BY DEF IInv, ActorOk
<1>3. PICK x \in Objects : Leads(table[a], self[a], receiver, x)
  BY HeldLeads
<1>4. GetHomeId(a, receiver) = Owner[x] /\ Owner[x] \in Actors
  <2>1. IsIndex(receiver)
    BY HeldLeads
  <2>2. QED
    BY <1>2, <1>3, <2>1, Denoted, HomeOk
<1>5. /\ Leads(table[a], self[a], Pointer(Place[f]), f)
      /\ GetGlobalId(a, Pointer(Place[f])) = Home(f)
  BY <1>1, <1>2, FrameLeads, SerializationAssumption
<1>6. f \in Frames /\ f \in Objects /\ Home(f) \notin waiting[a]
  BY <1>1, SerializationAssumption DEF Home
<1> DEFINE p == Pointer(Place[f])
           b == Owner[x]
           m == SomMessage("SOM_WITH_RESULT", a, receiver, signature, args, <<p>>)
           ms == <<m>>
<1>7. Deliver(b, ms) /\ waiting' = [waiting EXCEPT ![a] = @ \cup {Home(f)}]
  BY <1>1, <1>4, <1>5
<1>8. Message(m) /\ Bears(m, f) /\ m.meaning.type # "OBJ_REF_RESULT"
  <2>1. /\ IsSeq(args) /\ \A i \in DOMAIN args : \E y : Leads(table[a], self[a], args[i], y)
        /\ Leads(table[a], self[a], signature, signature)
    BY ArgumentsLead, SignaturesLead
  <2> HIDE DEF p, b
  <2>2. Leads(table[a], self[a], p, f)
    BY <1>5 DEF p
  <2>3. QED
    BY <1>2, <1>3, <1>6, <2>1, <2>2, SyncSent
<1> HIDE DEF m, p, b
<1> DEFINE first == << >>
<1>9. QueueOk(b, ms) /\ QueueOk(b, first)
  BY <1>8, OneMessage, NoMessage
<1>10. Deliver(b, first \o ms)
  <2>1. IsSeq(ms)
    BY Single
  <2> HIDE DEF ms
  <2>2. << >> \o ms = ms
    BY <2>1, NoneBefore
  <2>3. QED
    BY <1>7, <2>2
<1>11. Bearless(first) /\ Bears(m, f) /\ ms = <<m>>
  BY <1>8, NoneYet DEF Bearless
<1> HIDE DEF first, ms
<1>12. /\ DOMAIN queue' = Actors
       /\ \A c \in Actors : QueueOk(c, queue'[c])
       /\ \A g \in Objects : g # f =>
            \A c, i : OnItsWay(queue', g, c, i) <=> OnItsWay(queue, g, c, i)
       /\ \E n : \A c, i : OnItsWay(queue', f, c, i)
                             <=> OnItsWay(queue, f, c, i) \/ (c = b /\ i = n)
       /\ \E i : OnItsWay(queue', f, b, i)
  <2>1. b \in Actors /\ f \in Objects
    BY <1>4, <1>6 DEF b
  <2>2. QED
    BY <1>9, <1>10, <1>11, <2>1, SendsOne
<1>13. /\ DOMAIN waiting' = Actors
       /\ \A c \in Actors : waiting'[c] = IF c = a THEN waiting[a] \cup {Home(f)} ELSE waiting[c]
  BY <1>7 DEF IInv, Shape
<1>14. ASSUME NothingLost, NEW g \in Objects
       PROVE  Borne(queue', table, self, pending', waiting', g)
  <2>1. Borne(queue, table, self, pending, waiting, g) /\ pending' = pending
    BY <1>1, <1>14 DEF IInv, AllBorne
  <2>2. g \in Objects /\ Owner[g] \in Actors
    BY OwnersAssumption
  <2>3. CASE g # f
    <3>1. Home(g) # Home(f)
      BY <1>6, <2>2, <2>3, HomeIsOne
    <3>2. (Home(g) \in waiting'[Owner[g]]) <=> (Home(g) \in waiting[Owner[g]])
      BY <1>13, <2>2, <3>1
    <3>3. \A c, i : OnItsWay(queue', g, c, i) <=> OnItsWay(queue, g, c, i)
      BY <1>12, <2>3
    <3>4. QED
      BY <2>1, <3>2, <3>3, BorneSame
  <2>4. CASE g = f
    <3>1. /\ \A c, i : ~OnItsWay(queue, f, c, i)
          /\ \A c, y : ~AtHand(table, self, pending, f, c, y)
      BY <1>1, <1>6, <2>1, <2>4 DEF Borne
    <3>2. PICK n : \A c, i : OnItsWay(queue', f, c, i) <=> c = b /\ i = n
      BY <1>12, <3>1
    <3>3. Home(f) \in waiting'[Owner[f]]
      BY <1>1, <1>13
    <3>4. QED
      BY <1>12, <2>1, <2>4, <3>1, <3>2, <3>3 DEF Borne
  <2>5. QED
    BY <2>3, <2>4
<1>15. ASSUME NEW c \in Actors PROVE WaitingOk(c, waiting'[c])
  <2>1. WaitingOk(c, waiting[c])
    BY DEF IInv, ActorOk
  <2>2. QED
    BY <1>1, <1>6, <1>13, <2>1 DEF WaitingOk
<1>16. /\ DOMAIN held' = Actors /\ DOMAIN pending' = Actors
       /\ \A c \in Actors : held'[c] \subseteq held[c] /\ pending'[c] \subseteq pending[c]
  BY <1>1 DEF IInv, Shape
<1>17. sends' \in 0 .. MaxSends
  BY <1>1, MaySends
<1>18. QED
  BY <1>1, <1>12, <1>13, <1>14, <1>15, <1>16, <1>17, OnlySends

LEMMA ReturnRemoteKeeps ==
  ASSUME IInv, NEW a \in Actors, ReturnRemote(a)
  PROVE  IInv'
<1> DEFINE id(p) == GetGlobalId(a, p)
           firstOf(p) == IF id(p).actor # a THEN <<RefMessage("NEW_REF", id(p), id(p).actor)>> ELSE << >>
<1>1. PICK p \in pending[a], result \in Pointers(a) :
        /\ MaySend(a)
        /\ pending' = [pending EXCEPT ![a] = @ \ {p}]
        /\ Deliver(id(p).actor, firstOf(p) \o <<ResultObjRefMessage(a, result, id(p))>>)
        /\ UNCHANGED <<memory, held, waiting, decoded, lost, ended>>
  BY DEF ReturnRemote
<1>2. \A c \in Actors : MemoryOk(c)
  BY DEF IInv, ActorOk
<1>3. PICK f \in Objects : Leads(table[a], self[a], p, f)
  BY <1>1 DEF IInv, ActorOk, AnswersOk
<1>4. PICK x : Leads(table[a], self[a], result, x)
  BY <1>1, PointersLead DEF IInv
<1>5. f \in Objects /\ Owner[f] \in Actors /\ p \in pending[a]
  BY <1>1, <1>3, OwnersAssumption
<1>6. id(p) = Home(f)
  <2>1. IsIndex(p)
    BY <1>3, <1>5, ObjectIsIndexed
  <2>2. QED
    BY <1>2, <1>3, <2>1, Denoted
<1> DEFINE b == Owner[f]
           first == IF b # a THEN <<RefMessage("NEW_REF", Home(f), b)>> ELSE << >>
           m == ResultObjRefMessage(a, result, Home(f))
           one == <<m>>
<1>7. /\ pending' = [pending EXCEPT ![a] = @ \ {p}] /\ Deliver(b, first \o one)
      /\ UNCHANGED <<memory, held, waiting, decoded, lost, ended>> /\ MaySend(a)
  <2>1. Home(f).actor = b
    BY DEF Home, Id
  <2>2. id(p).actor = b /\ firstOf(p) = first
    BY <1>6, <2>1
  <2> HIDE DEF b, firstOf, first
  <2>3. QED
    BY <1>1, <1>6, <2>2
<1> HIDE DEF id, firstOf
<1>8. Message(m) /\ Bears(m, f) /\ Owner[Last(m.meaning.objects)] = b
  <2>1. /\ Message(m)
        /\ m.meaning = [type |-> "OBJ_REF_RESULT", objects |-> <<x, f>>]
    BY <1>2, <1>4, <1>5, ResultSent
  <2> HIDE DEF m
  <2> DEFINE w == <<x, f>>
  <2>2. Len(w) = 2 /\ w[2] = f
    BY Pair
  <2> HIDE DEF w
  <2>3. Last(w) = f
    BY <2>2 DEF Last
  <2>4. m.meaning.type = "OBJ_REF_RESULT" /\ m.meaning.objects = w
    BY <2>1 DEF w
  <2>5. QED
    BY <2>1, <2>3, <2>4 DEF Bears
<1>9. QueueOk(b, first) /\ Bearless(first)
  <2>1. CASE b # a
    <3> DEFINE ref == RefMessage("NEW_REF", Home(f), b)
    <3>1. Message(ref) /\ ref.meaning = [type |-> "NEW_REF", objects |-> << >>]
      BY ReferenceSent
    <3>2. first = <<ref>>
      BY <2>1
    <3> HIDE DEF ref, first
    <3>3. QueueOk(b, <<ref>>)
      BY <3>1, OneMessage
    <3>4. \A g : ~Bears(ref, g)
      BY <3>1 DEF Bears
    <3>5. DOMAIN <<ref>> = {1} /\ <<ref>>[1] = ref
      BY Single
    <3>6. QED
      BY <3>2, <3>3, <3>4, <3>5 DEF Bearless
  <2>2. CASE b = a
    <3>1. first = << >>
      BY <2>2
    <3> HIDE DEF first
    <3>2. QED
      BY <3>1, NoMessage, NoneYet DEF Bearless
  <2>3. QED
    BY <2>1, <2>2
<1> HIDE DEF m, first
<1>10. QueueOk(b, one) /\ one = <<m>>
  BY <1>8, OneMessage
<1> HIDE DEF one, b
<1>11. /\ DOMAIN queue' = Actors
       /\ \A c \in Actors : QueueOk(c, queue'[c])
       /\ \A g \in Objects : g # f =>
            \A c, i : OnItsWay(queue', g, c, i) <=> OnItsWay(queue, g, c, i)
       /\ \E n : \A c, i : OnItsWay(queue', f, c, i)
                             <=> OnItsWay(queue, f, c, i) \/ (c = b /\ i = n)
       /\ \E i : OnItsWay(queue', f, b, i)
  <2>1. b \in Actors
    BY <1>5 DEF b
  <2>2. QED
    BY <1>5, <1>7, <1>8, <1>9, <1>10, <2>1, SendsOne
<1>12. /\ DOMAIN pending' = Actors
       /\ \A c \in Actors : pending'[c] = IF c = a THEN pending[a] \ {p} ELSE pending[c]
  BY <1>7 DEF IInv, Shape
<1>13. ASSUME NothingLost, NEW g \in Objects
       PROVE  Borne(queue', table, self, pending', waiting', g)
  <2>1. Borne(queue, table, self, pending, waiting, g) /\ waiting' = waiting
    BY <1>7, <1>13 DEF IInv, AllBorne
  <2>2. CASE g # f
    <3>1. ~Leads(table[a], self[a], p, g)
      <4>1. TableOk(a, table[a]) /\ ProxiesOk(a, table[a], self[a], objectMap[a])
        BY <1>2 DEF MemoryOk
      <4>2. QED
        BY <1>3, <2>2, <4>1, LeadsToOne
    <3>2. \A c, y : AtHand(table, self, pending', g, c, y) <=> AtHand(table, self, pending, g, c, y)
      BY <1>12, <3>1 DEF AtHand
    <3>3. \A c, i : OnItsWay(queue', g, c, i) <=> OnItsWay(queue, g, c, i)
      BY <1>11, <2>2
    <3>4. QED
      BY <2>1, <3>2, <3>3, BorneSame
  <2>3. CASE g = f
    <3>1. AtHand(table, self, pending, f, a, p)
      BY <1>3, <1>5 DEF AtHand
    <3>2. /\ \A c, i : ~OnItsWay(queue, f, c, i)
          /\ \A c, y : AtHand(table, self, pending, f, c, y) => c = a /\ y = p
          /\ Home(f) \in waiting[Owner[f]]
      BY <2>1, <2>3, <3>1 DEF Borne
    <3>3. \A c, y : ~AtHand(table, self, pending', f, c, y)
      <4>1. \A c, y : AtHand(table, self, pending', f, c, y) =>
              AtHand(table, self, pending, f, c, y) /\ ~(c = a /\ y = p)
        BY <1>12 DEF AtHand
      <4>2. QED
        BY <3>2, <4>1
    <3>4. PICK n : \A c, i : OnItsWay(queue', f, c, i) <=> c = b /\ i = n
      BY <1>11, <3>2
    <3>5. QED
      BY <1>11, <2>1, <2>3, <3>2, <3>3, <3>4 DEF Borne
  <2>4. QED
    BY <2>2, <2>3
<1>14. ASSUME NEW c \in Actors
       PROVE  /\ held'[c] \subseteq held[c] /\ pending'[c] \subseteq pending[c]
              /\ WaitingOk(c, waiting'[c])
  BY <1>7, <1>12 DEF IInv, ActorOk
<1>15. /\ DOMAIN held' = Actors /\ DOMAIN waiting' = Actors
       /\ UNCHANGED <<memory, decoded, lost, ended>>
  BY <1>7 DEF IInv, Shape
<1>16. sends' \in 0 .. MaxSends
  BY <1>7, MaySends
<1>17. QED
  BY <1>11, <1>12, <1>13, <1>14, <1>15, <1>16, OnlySends

LEMMA DropKeeps ==
  ASSUME IInv, NEW a \in Actors, Drop(a)
  PROVE  IInv'
<1>1. PICK p \in held[a] :
        /\ held' = [held EXCEPT ![a] = @ \ {p}]
        /\ UNCHANGED <<memory, waiting, pending, queue, decoded, lost, ended, sends>>
  BY DEF Drop
<1>2. DOMAIN held' = Actors /\ \A c \in Actors : held'[c] \subseteq held[c]
  BY <1>1 DEF IInv, Shape
<1>3. ASSUME NEW c \in Actors
      PROVE  pending'[c] \subseteq pending[c] /\ QueueOk(c, queue'[c]) /\ WaitingOk(c, waiting'[c])
  BY <1>1 DEF IInv, ActorOk
<1>4. DOMAIN pending' = Actors /\ DOMAIN waiting' = Actors /\ DOMAIN queue' = Actors
  BY <1>1 DEF IInv, Shape
<1>5. NothingLost => \A f \in Objects : Borne(queue', table, self, pending', waiting', f)
  BY <1>1 DEF IInv, AllBorne
<1>6. UNCHANGED <<memory, decoded, lost, ended>> /\ sends' \in 0 .. MaxSends
  BY <1>1 DEF IInv
<1>7. QED
  BY <1>2, <1>3, <1>4, <1>5, <1>6, OnlySends

LEMMA ReceiveUnknownKeeps ==
  ASSUME IInv, NEW a \in Actors, ReceiveUnknown(a)
  PROVE  IInv'
<1>1. /\ ended' = [ended EXCEPT ![a] = "unknown type"]
      /\ table' = table /\ free' = free /\ self' = self /\ objectMap' = objectMap
      /\ held' = held /\ waiting' = waiting /\ pending' = pending /\ queue' = queue
      /\ decoded' = decoded /\ lost' = lost /\ sends' = sends
  BY DEF ReceiveUnknown, memory
<1>2. Shape' /\ \A c \in Actors : ended'[c] = IF c = a THEN "unknown type" ELSE ended[c]
  BY <1>1 DEF IInv, Shape
<1>3. ASSUME NEW c \in Actors PROVE ActorOk(c)'
  BY <1>1, <1>2 DEF IInv, ActorOk, MemoryOk, Ends
<1>4. NothingLost' => AllBorne' /\ NoneUnknown'
  <2>1. NothingLost' => AllBorne /\ NoneUnknown
    BY <1>1 DEF IInv, NothingLost
  <2>2. AllBorne => AllBorne'
    BY <1>1 DEF AllBorne
  <2>3. NoneUnknown => NoneUnknown'
    BY <1>2 DEF NoneUnknown
  <2>4. QED
    BY <2>1, <2>2, <2>3
<1>5. QED
  BY <1>1, <1>2, <1>3, <1>4 DEF IInv

-----------------------------------------------------------------------------
(* Receiving a message.                                                     *)

\* What the program of a gets hold of, from a message of this type.
NewlyHeld(type, out) ==
  CASE type \in {"OBJ_REF", "SOM"} -> Indexes(out)
    [] type \in {"SOM_WITH_RESULT", "OBJ_REF_RESULT"} -> Indexes(Front(out))
    [] OTHER -> {}

LEMMA FrontIsPart ==
  ASSUME NEW q, IsSeq(q), q # << >>
  PROVE  \A p \in Range(Front(q)) : \E i \in DOMAIN q : i < Len(q) /\ p = q[i]
<1> DEFINE n == Len(q)
           r == SubSeq(q, 1, n - 1)
<1>1. n \in Nat /\ n >= 1 /\ DOMAIN q = 1 .. n
  BY Measured, Tailed
<1>2. DOMAIN r = 1 .. n - 1 /\ \A i \in 1 .. n - 1 : r[i] = q[i]
  <2> DEFINE S == {q[i] : i \in DOMAIN q}
  <2>1. q \in Seq(S)
    BY DEF IsSeq
  <2> HIDE DEF S
  <2>2. 1 \in 1 .. n + 1 /\ n - 1 \in 1 - 1 .. n
    BY <1>1
  <2>3. QED
    BY <1>1, <2>1, <2>2, SubSeqProperties
<1>3. Range(Front(q)) = {r[i] : i \in DOMAIN r}
  BY DEF Front, Range
<1> HIDE DEF r, n
<1>4. ASSUME NEW p \in Range(Front(q))
      PROVE  \E i \in DOMAIN q : i < n /\ p = q[i]
  <2>1. PICK i \in 1 .. n - 1 : p = r[i]
    BY <1>2, <1>3
  <2>2. i \in DOMAIN q /\ i < n /\ p = q[i]
    BY <1>1, <1>2, <2>1
  <2>3. QED
    BY <2>2
<1>5. QED
  BY <1>4 DEF n

LEMMA ReceivedLead ==
  ASSUME NEW r, NEW type, NEW xs, Exact(r, type, xs), IsSeq(r.out)
  PROVE  \A p \in NewlyHeld(type, r.out) :
           IsIndex(p) /\ \E x \in Objects : Leads(r.table, r.self, p, x)
<1> DEFINE out == r.out
<1>1. DOMAIN out = DOMAIN xs /\ DOMAIN out = 1 .. Len(out) /\ Len(out) \in Nat
  BY Measured DEF Exact
<1>2. ASSUME NEW p, IsIndex(p), NEW x, Leads(r.table, r.self, p, x)
      PROVE  \E y \in Objects : Leads(r.table, r.self, p, y)
  BY <1>2, IndexLeads
<1>3. CASE type \in {"OBJ_REF", "SOM"}
  <2>1. NewlyHeld(type, out) = Indexes(out)
    BY <1>3 DEF NewlyHeld
  <2>2. \A i \in DOMAIN out : Leads(r.table, r.self, out[i], xs[i])
    BY <1>1, <1>3 DEF Exact
  <2>3. ASSUME NEW p \in Indexes(out)
        PROVE  IsIndex(p) /\ \E x : Leads(r.table, r.self, p, x)
    BY <2>2 DEF Indexes, Range
  <2>4. QED
    BY <1>2, <2>1, <2>3
<1>4. CASE type = "SOM_WITH_RESULT"
  <2>1. NewlyHeld(type, out) = Indexes(Front(out))
    BY <1>4 DEF NewlyHeld
  <2>2. \A i \in DOMAIN out : Leads(r.table, r.self, out[i], xs[i])
    BY <1>1, <1>4 DEF Exact
  <2>3. out # << >>
    <3>1. xs # << >> /\ IsSeq(xs)
      BY <1>4 DEF Exact
    <3>2. 1 \in DOMAIN xs
      BY <3>1, Tailed, Measured
    <3>3. QED
      BY <1>1, <3>2, NoneYet
  <2>4. ASSUME NEW p \in Indexes(Front(out))
        PROVE  IsIndex(p) /\ \E x : Leads(r.table, r.self, p, x)
    <3>1. PICK i \in DOMAIN out : p = out[i]
      BY <2>3, FrontIsPart DEF Indexes
    <3>2. QED
      BY <2>2, <3>1 DEF Indexes
  <2>5. QED
    BY <1>2, <2>1, <2>4
<1>5. CASE type = "OBJ_REF_RESULT"
  <2>1. NewlyHeld(type, out) = Indexes(Front(out))
    BY <1>5 DEF NewlyHeld
  <2>2. Leads(r.table, r.self, out[1], xs[1]) /\ xs = <<xs[1], xs[2]>>
    BY <1>5 DEF Exact
  <2>3. Len(out) = 2 /\ DOMAIN out = 1 .. 2
    <3> DEFINE w == <<xs[1], xs[2]>>
    <3>1. IsSeq(w) /\ Len(w) = 2
      BY Pair
    <3> HIDE DEF w
    <3>2. DOMAIN w = 1 .. 2
      BY <3>1, Measured
    <3>3. xs = w
      BY <2>2 DEF w
    <3>4. DOMAIN out = 1 .. 2
      BY <1>1, <3>2, <3>3
    <3> HIDE DEF out
    <3>5. 1 .. Len(out) = 1 .. 2
      BY <1>1, <3>4
    <3>6. QED
      BY <1>1, <3>4, <3>5
  <2>4. out # << >>
    BY <2>3, NoneYet
  <2>5. ASSUME NEW p \in Indexes(Front(out))
        PROVE  IsIndex(p) /\ \E x : Leads(r.table, r.self, p, x)
    <3>1. PICK i \in DOMAIN out : i < Len(out) /\ p = out[i]
      BY <2>4, FrontIsPart DEF Indexes
    <3>2. i = 1
      BY <2>3, <3>1
    <3>3. QED
      BY <2>2, <3>1, <3>2 DEF Indexes
  <2>6. QED
    BY <1>2, <2>1, <2>5
<1>6. CASE type \in {"NEW_REF", "UNLINK_REF"}
  BY <1>6 DEF NewlyHeld
<1>7. QED
  BY <1>3, <1>4, <1>5, <1>6 DEF Exact, SerializedTypes

\* The frame or id that comes last in a message.
LEMMA ReceivedLast ==
  ASSUME NEW r, NEW type, NEW xs, Exact(r, type, xs), IsSeq(r.out)
  PROVE  /\ type = "SOM_WITH_RESULT" =>
              Last(xs) \in Objects /\ Leads(r.table, r.self, Activation(r.out), Last(xs))
         /\ type = "OBJ_REF_RESULT" => Last(xs) \in Objects /\ Activation(r.out) = Home(Last(xs))
<1> DEFINE out == r.out
           n == Len(out)
<1>1. DOMAIN out = DOMAIN xs /\ DOMAIN out = 1 .. n /\ n \in Nat /\ IsSeq(xs)
  BY Measured DEF Exact
<1> HIDE DEF out, n
<1>2. DOMAIN xs = 1 .. Len(xs) /\ Len(xs) \in Nat
  BY <1>1, Measured
<1>3. Len(xs) = n
  <2> DEFINE l == Len(xs)
  <2>1. 1 .. n = 1 .. l /\ n \in Nat /\ l \in Nat
    BY <1>1, <1>2, Zenon
  <2> HIDE DEF l
  <2>2. n < l => l \in 1 .. l /\ l \notin 1 .. n
    BY <2>1
  <2>3. l < n => n \in 1 .. n /\ n \notin 1 .. l
    BY <2>1
  <2>4. QED
    BY <2>1, <2>2, <2>3 DEF l
<1>4. Activation(out) = out[n] /\ Last(xs) = xs[n]
  BY <1>3 DEF Activation, Last, n
<1>5. CASE type = "SOM_WITH_RESULT"
  <2>1. xs # << >> /\ Last(xs) \in Objects
    BY <1>5 DEF Exact
  <2>2. n \in DOMAIN xs
    BY <1>1, <1>2, <1>3, <2>1, Tailed
  <2>3. Leads(r.table, r.self, out[n], xs[n])
    BY <1>5, <2>2 DEF Exact, out
  <2>4. QED
    BY <1>4, <1>5, <2>1, <2>3 DEF out
<1>6. CASE type = "OBJ_REF_RESULT"
  <2> DEFINE w == <<xs[1], xs[2]>>
  <2>1. xs[2] \in Objects /\ r.out[2] = Home(xs[2]) /\ xs = w
    BY <1>6 DEF Exact
  <2>2. Len(w) = 2
    BY Pair
  <2> HIDE DEF w
  <2>3. n = 2
    BY <1>3, <2>1, <2>2
  <2>4. QED
    BY <1>4, <1>6, <2>1, <2>3 DEF out
<1>7. QED
  BY <1>5, <1>6

\* What is left on its way when the first message is taken from the queue of a.
Taken(q, r, a, f) ==
  /\ \A c, i : OnItsWay(r, f, c, i) =>
       IF c = a THEN i \in Nat /\ i >= 1 /\ OnItsWay(q, f, c, i + 1) ELSE OnItsWay(q, f, c, i)
  /\ \A c, j : OnItsWay(q, f, c, j) /\ ~(c = a /\ j = 1) => \E i : OnItsWay(r, f, c, i)

LEMMA HeadTaken ==
  ASSUME NEW a \in Actors, NEW q, DOMAIN q = Actors, IsSeq(q[a]), q[a] # << >>,
         NEW r, r = [q EXCEPT ![a] = Tail(@)], NEW f
  PROVE  Taken(q, r, a, f)
<1> DEFINE p == q[a]
           s == Tail(p)
           n == Len(p)
<1>1. /\ n \in Nat /\ DOMAIN p = 1 .. n /\ DOMAIN s = 1 .. n - 1
      /\ \A i \in 1 .. n - 1 : s[i] = p[i + 1]
  BY Measured, Tailed
<1>2. \A c \in Actors : r[c] = IF c = a THEN s ELSE q[c]
  OBVIOUS
<1>3. \A c : c # a => \A i : OnItsWay(r, f, c, i) <=> OnItsWay(q, f, c, i)
  BY <1>2 DEF OnItsWay
<1>4. /\ \A i : OnItsWay(r, f, a, i) <=> i \in DOMAIN s /\ Bears(s[i], f)
      /\ \A i : OnItsWay(q, f, a, i) <=> i \in DOMAIN p /\ Bears(p[i], f)
  BY <1>2 DEF OnItsWay
<1> HIDE DEF p, s, n
<1>5. ASSUME NEW i, OnItsWay(r, f, a, i)
      PROVE  i \in Nat /\ i >= 1 /\ OnItsWay(q, f, a, i + 1)
  <2>1. i \in 1 .. n - 1 /\ Bears(s[i], f)
    BY <1>1, <1>4, <1>5
  <2>2. i + 1 \in DOMAIN p /\ s[i] = p[i + 1]
    BY <1>1, <2>1
  <2>3. QED
    BY <1>1, <1>4, <2>1, <2>2
<1>6. ASSUME NEW j, OnItsWay(q, f, a, j), j # 1
      PROVE  \E i : OnItsWay(r, f, a, i)
  <2>1. j \in 1 .. n /\ Bears(p[j], f)
    BY <1>1, <1>4, <1>6
  <2> DEFINE i == j - 1
  <2>2. i \in 1 .. n - 1 /\ i + 1 = j
    BY <1>1, <1>6, <2>1
  <2> HIDE DEF i
  <2>3. i \in DOMAIN s /\ s[i] = p[j]
    BY <1>1, <2>2
  <2>4. OnItsWay(r, f, a, i)
    BY <1>4, <2>1, <2>3
  <2>5. QED
    BY <2>4
<1>7. QED
  BY <1>3, <1>5, <1>6 DEF Taken

SameAtHand(u, v, os, t, s, ps, f) ==
  \A b, p : AtHand(u, v, os, f, b, p) <=> AtHand(t, s, ps, f, b, p)

SameWait(z, w, f) == (Home(f) \in z[Owner[f]]) <=> (Home(f) \in w[Owner[f]])

\* The first message of a is taken, and it brings f nothing.
TakenOther(q, r, a, f) ==
  /\ a \in Actors /\ DOMAIN q = Actors /\ IsSeq(q[a]) /\ q[a] # << >>
  /\ r = [q EXCEPT ![a] = Tail(@)] /\ ~Bears(q[a][1], f)

LEMMA BorneAfterOther ==
  ASSUME NEW a, NEW q, NEW r, NEW f, TakenOther(q, r, a, f),
         NEW t, NEW s, NEW ps, NEW w, Borne(q, t, s, ps, w, f),
         NEW u, NEW v, NEW os, NEW z, SameAtHand(u, v, os, t, s, ps, f), SameWait(z, w, f)
  PROVE  Borne(r, u, v, os, z, f)
<1>1. /\ \A c, i : OnItsWay(r, f, c, i) =>
           IF c = a THEN i \in Nat /\ i >= 1 /\ OnItsWay(q, f, c, i + 1) ELSE OnItsWay(q, f, c, i)
      /\ \A c, j : OnItsWay(q, f, c, j) /\ ~(c = a /\ j = 1) => \E i : OnItsWay(r, f, c, i)
  <2>1. Taken(q, r, a, f)
    BY HeadTaken DEF TakenOther
  <2>2. QED
    BY <2>1 DEF Taken
<1>2. ~OnItsWay(q, f, a, 1)
  BY DEF OnItsWay, TakenOther
<1>3. \A c, i : OnItsWay(r, f, c, i) => \E j : OnItsWay(q, f, c, j)
  BY <1>1
<1>4. (\E c, i : OnItsWay(r, f, c, i)) <=> (\E c, i : OnItsWay(q, f, c, i))
  BY <1>1, <1>2, <1>3
<1>5. ASSUME NEW b, NEW c, NEW i, NEW j, OnItsWay(r, f, b, i), OnItsWay(r, f, c, j)
      PROVE  b = c /\ i = j
  <2>1. b = c
    BY <1>3, <1>5 DEF Borne
  <2>2. CASE b = a
    <3>1. i \in Nat /\ j \in Nat /\ OnItsWay(q, f, a, i + 1) /\ OnItsWay(q, f, a, j + 1)
      BY <1>1, <1>5, <2>1, <2>2
    <3>2. i + 1 = j + 1
      BY <3>1 DEF Borne
    <3>3. QED
      BY <2>1, <3>1, <3>2
  <2>3. CASE b # a
    <3>1. OnItsWay(q, f, b, i) /\ OnItsWay(q, f, c, j)
      BY <1>1, <1>5, <2>1, <2>3
    <3>2. QED
      BY <3>1 DEF Borne
  <2>4. QED
    BY <2>2, <2>3
<1>6. \A b, c, x, y : AtHand(u, v, os, f, b, x) /\ AtHand(u, v, os, f, c, y) => b = c /\ x = y
  BY DEF Borne, SameAtHand
<1>7. ASSUME NEW b, NEW c, NEW i, NEW x, OnItsWay(r, f, b, i), AtHand(u, v, os, f, c, x)
      PROVE  FALSE
  <2>1. AtHand(t, s, ps, f, c, x)
    BY <1>7 DEF SameAtHand
  <2>2. PICK j : OnItsWay(q, f, b, j)
    BY <1>3, <1>7
  <2>3. QED
    BY <2>1, <2>2 DEF Borne
<1>8. (Home(f) \in z[Owner[f]]) <=> ((\E b, i : OnItsWay(r, f, b, i))
                                    \/ \E c, x : AtHand(u, v, os, f, c, x))
  BY <1>4 DEF Borne, SameAtHand, SameWait
<1>9. QED
  BY <1>5, <1>6, <1>7, <1>8 DEF Borne

\* The message that brings f its result is taken: no other is on its way.
LEMMA NoneAfterTaken ==
  ASSUME NEW a \in Actors, NEW q, DOMAIN q = Actors, IsSeq(q[a]), q[a] # << >>,
         NEW r, r = [q EXCEPT ![a] = Tail(@)],
         NEW t, NEW s, NEW ps, NEW w, NEW f, Borne(q, t, s, ps, w, f), Bears(q[a][1], f)
  PROVE  /\ \A c, i : ~OnItsWay(r, f, c, i)
         /\ \A c, x : ~AtHand(t, s, ps, f, c, x)
         /\ Home(f) \in w[Owner[f]]
<1>1. \A c, i : OnItsWay(r, f, c, i) =>
        IF c = a THEN i \in Nat /\ i >= 1 /\ OnItsWay(q, f, c, i + 1) ELSE OnItsWay(q, f, c, i)
  <2>1. Taken(q, r, a, f)
    BY HeadTaken
  <2>2. QED
    BY <2>1 DEF Taken
<1>2. OnItsWay(q, f, a, 1)
  <2>1. 1 \in DOMAIN q[a]
    BY Measured, Tailed
  <2>2. QED
    BY <2>1 DEF OnItsWay
<1>3. ASSUME NEW c, NEW i, OnItsWay(r, f, c, i) PROVE FALSE
  <2>1. CASE c = a
    <3>1. i \in Nat /\ i >= 1 /\ OnItsWay(q, f, a, i + 1)
      BY <1>1, <1>3, <2>1
    <3>2. i + 1 = 1
      BY <1>2, <3>1 DEF Borne
    <3>3. QED
      BY <3>1, <3>2
  <2>2. CASE c # a
    <3>1. OnItsWay(q, f, c, i)
      BY <1>1, <1>3, <2>2
    <3>2. QED
      BY <1>2, <2>2, <3>1 DEF Borne
  <2>3. QED
    BY <2>1, <2>2
<1>4. (\A c, x : ~AtHand(t, s, ps, f, c, x)) /\ Home(f) \in w[Owner[f]]
  BY <1>2 DEF Borne
<1>5. QED
  BY <1>3, <1>4

\* The memory of a after it has read a message: what led to an object does.
LEMMA MemoryRead ==
  ASSUME IInv, NEW a \in Actors, NEW r, Reads(a, r), Kept(table[a], self[a], r.table, r.self),
         table' = [table EXCEPT ![a] = r.table], free' = [free EXCEPT ![a] = r.free],
         self' = [self EXCEPT ![a] = r.self], objectMap' = [objectMap EXCEPT ![a] = r.objectMap]
  PROVE  /\ DOMAIN table' = Actors /\ DOMAIN free' = Actors
         /\ DOMAIN self' = Actors /\ DOMAIN objectMap' = Actors
         /\ table'[a] = r.table /\ self'[a] = r.self
         /\ \A c \in Actors : MemoryOk(c)'
         /\ \A c \in Actors : \A p, x :
              Leads(table[c], self[c], p, x) => Leads(table'[c], self'[c], p, x)
<1>1. /\ DOMAIN table' = Actors /\ DOMAIN free' = Actors
      /\ DOMAIN self' = Actors /\ DOMAIN objectMap' = Actors
      /\ table'[a] = r.table /\ self'[a] = r.self
      /\ free'[a] = r.free /\ objectMap'[a] = r.objectMap
      /\ \A c \in Actors : c # a => /\ table'[c] = table[c] /\ self'[c] = self[c]
                                    /\ free'[c] = free[c] /\ objectMap'[c] = objectMap[c]
  BY DEF IInv, Shape
<1>2. \A c \in Actors : MemoryOk(c)
  BY DEF IInv, ActorOk
<1>3. ASSUME NEW c \in Actors PROVE MemoryOk(c)'
  <2>1. CASE c = a
    BY <1>1, <2>1 DEF MemoryOk, Reads
  <2>2. CASE c # a
    BY <1>1, <1>2, <2>2 DEF MemoryOk
  <2>3. QED
    BY <2>1, <2>2
<1>4. ASSUME NEW c \in Actors, NEW p, NEW x, Leads(table[c], self[c], p, x)
      PROVE  Leads(table'[c], self'[c], p, x)
  <2>1. CASE c = a
    <3>1. ProxiesOk(a, table[a], self[a], objectMap[a])
      BY <1>2 DEF MemoryOk
    <3>2. Leads(r.table, r.self, p, x)
      BY <1>4, <2>1, <3>1, LeadsOn
    <3>3. QED
      BY <1>1, <2>1, <3>2
  <2>2. CASE c # a
    BY <1>1, <1>4, <2>2
  <2>3. QED
    BY <2>1, <2>2
<1>5. QED
  BY <1>1, <1>3, <1>4

\* What led an actor to a frame it has to answer still does, and to no other.
LEMMA StillAtHand ==
  ASSUME IInv, \A c \in Actors : MemoryOk(c)',
         \A c \in Actors : \A p \in pending[c] : \A x :
           Leads(table[c], self[c], p, x) => Leads(table'[c], self'[c], p, x)
  PROVE  \A f, c, p : p \in pending[c] =>
           (AtHand(table', self', pending, f, c, p) <=> AtHand(table, self, pending, f, c, p))
<1> SUFFICES ASSUME NEW f, NEW c \in Actors, NEW p \in pending[c]
             PROVE  Leads(table'[c], self'[c], p, f) <=> Leads(table[c], self[c], p, f)
  BY DEF AtHand
<1>1. PICK g \in Objects : Leads(table[c], self[c], p, g)
  BY DEF IInv, ActorOk, AnswersOk
<1>2. Leads(table'[c], self'[c], p, g)
  BY <1>1
<1>3. TableOk(c, table'[c]) /\ ProxiesOk(c, table'[c], self'[c], objectMap'[c])
  BY DEF MemoryOk
<1>4. TableOk(c, table[c]) /\ ProxiesOk(c, table[c], self[c], objectMap[c])
  BY DEF IInv, ActorOk, MemoryOk
<1>5. Leads(table'[c], self'[c], p, f) => f = g
  BY <1>2, <1>3, LeadsToOne
<1>6. Leads(table[c], self[c], p, f) => f = g
  BY <1>1, <1>4, LeadsToOne
<1>7. QED
  BY <1>1, <1>2, <1>5, <1>6

LEMMA TailOk ==
  ASSUME NEW a, NEW q, QueueOk(a, q), q # << >>
  PROVE  QueueOk(a, Tail(q))
<1> DEFINE s == Tail(q)
           n == Len(q)
<1>1. IsSeq(s) /\ n \in Nat /\ DOMAIN q = 1 .. n /\ DOMAIN s = 1 .. n - 1
      /\ \A i \in 1 .. n - 1 : s[i] = q[i + 1]
  BY Measured, Tailed DEF QueueOk
<1> HIDE DEF s, n
<1>2. \A i \in DOMAIN s : i + 1 \in DOMAIN q /\ s[i] = q[i + 1]
  BY <1>1
<1>3. QueueOk(a, s)
  BY <1>1, <1>2 DEF QueueOk
<1>4. QED
  BY <1>3 DEF s

LEMMA ReceiveKeeps ==
  ASSUME IInv, NEW a \in Actors, Receive(a)
  PROVE  IInv'
<1> DEFINE m == Head(queue[a])
           r == Received(a)
           type == m.fields[1].value
           act == Activation(r.out)
           xs == m.meaning.objects
           F == Last(xs)
<1>1. /\ queue[a] # << >>
      /\ table' = [table EXCEPT ![a] = r.table] /\ free' = [free EXCEPT ![a] = r.free]
      /\ self' = [self EXCEPT ![a] = r.self] /\ objectMap' = [objectMap EXCEPT ![a] = r.objectMap]
      /\ held' = [held EXCEPT ![a] = @ \cup NewlyHeld(type, r.out)]
      /\ pending' = IF type = "SOM_WITH_RESULT"
                    THEN [pending EXCEPT ![a] = @ \cup {act}] ELSE pending
      /\ waiting' = IF type = "OBJ_REF_RESULT"
                    THEN [waiting EXCEPT ![a] = @ \ {act}] ELSE waiting
      /\ ended' = IF type = "OBJ_REF_RESULT" /\ act \notin waiting[a]
                  THEN [ended EXCEPT ![a] = "no activation"] ELSE ended
      /\ queue' = [queue EXCEPT ![a] = Tail(@)]
      /\ decoded' = decoded /\ lost' = lost /\ sends' = sends
  BY DEF Receive, NewlyHeld
<1>2. /\ Shape /\ ActorOk(a) /\ MemoryOk(a) /\ QueueOk(a, queue[a]) /\ IsSeq(queue[a])
  BY DEF IInv, ActorOk, QueueOk
<1>3. 1 \in DOMAIN queue[a] /\ m = queue[a][1]
  <2> DEFINE q == queue[a]
  <2>1. IsSeq(q) /\ q # << >>
    BY <1>1, <1>2
  <2>2. m = Head(q)
    OBVIOUS
  <2> HIDE DEF m, r, type, act, xs, F, q
  <2>3. DOMAIN q = 1 .. Len(q) /\ Len(q) \in Nat /\ Len(q) >= 1 /\ Head(q) = q[1]
    BY <2>1, Measured, Tailed
  <2>4. 1 \in DOMAIN q /\ m = q[1]
    BY <2>2, <2>3
  <2>5. QED
    BY <2>4 DEF q
<1>4. Message(m) /\ (m.meaning.type = "OBJ_REF_RESULT" => Owner[F] = a)
  BY <1>2, <1>3 DEF QueueOk
<1>5. /\ type = m.meaning.type /\ Reads(a, r) /\ IsSeq(r.out)
      /\ Kept(table[a], self[a], r.table, r.self) /\ Exact(r, type, xs)
  <2>1. Formed(m)
    BY <1>4 DEF Message
  <2>2. Decoding(a, m)
    BY <1>2, <2>1, AlwaysDecoded
  <2>3. QED
    BY <2>2 DEF Decoding, Received, Reads
<1> DEFINE q1 == queue[a][1]
<1>6. Bears(q1, F) <=> type \in {"SOM_WITH_RESULT", "OBJ_REF_RESULT"}
  BY <1>3, <1>5 DEF Bears
<1>7. \A f : f # F => ~Bears(q1, f)
  BY <1>3 DEF Bears
<1>8. /\ \A p \in NewlyHeld(type, r.out) :
           IsIndex(p) /\ \E x \in Objects : Leads(r.table, r.self, p, x)
      /\ type = "SOM_WITH_RESULT" => F \in Objects /\ Leads(r.table, r.self, act, F)
      /\ type = "OBJ_REF_RESULT" => F \in Objects /\ act = Home(F) /\ Owner[F] = a
  BY <1>4, <1>5, ReceivedLead, ReceivedLast
<1> HIDE DEF m, r, type, act, xs, F, q1
<1>9. /\ DOMAIN table' = Actors /\ DOMAIN free' = Actors
      /\ DOMAIN self' = Actors /\ DOMAIN objectMap' = Actors
      /\ table'[a] = r.table /\ self'[a] = r.self
      /\ \A c \in Actors : MemoryOk(c)'
      /\ \A c \in Actors : \A p, x :
           Leads(table[c], self[c], p, x) => Leads(table'[c], self'[c], p, x)
  BY <1>1, <1>5, MemoryRead
<1>10. NothingLost => \A f \in Objects : Borne(queue, table, self, pending, waiting, f)
  BY DEF IInv, AllBorne
<1> DEFINE Bore(f) == /\ \A c, i : ~OnItsWay(queue', f, c, i)
                      /\ \A c, x : ~AtHand(table, self, pending, f, c, x)
                      /\ Home(f) \in waiting[Owner[f]]
<1>11. NothingLost /\ type \in {"SOM_WITH_RESULT", "OBJ_REF_RESULT"} => F \in Objects /\ Bore(F)
  <2> SUFFICES ASSUME NothingLost, type \in {"SOM_WITH_RESULT", "OBJ_REF_RESULT"}
               PROVE  F \in Objects /\ Bore(F)
    OBVIOUS
  <2>1. F \in Objects /\ Bears(queue[a][1], F)
    BY <1>6, <1>8 DEF q1
  <2>2. Borne(queue, table, self, pending, waiting, F)
    BY <1>10, <2>1
  <2>3. DOMAIN queue = Actors /\ IsSeq(queue[a]) /\ queue[a] # << >>
    BY <1>1, <1>2 DEF Shape
  <2>4. queue' = [queue EXCEPT ![a] = Tail(@)]
    BY <1>1
  <2>5. QED
    BY <2>1, <2>2, <2>3, <2>4, NoneAfterTaken
<1>12. /\ NothingLost => ended' = ended
       /\ \A c \in Actors : ended'[c] \in {ended[c], "no activation"}
  <2>1. NothingLost => ended' = ended
    BY <1>1, <1>8, <1>11
  <2>2. ASSUME NEW c \in Actors PROVE ended'[c] \in {ended[c], "no activation"}
    BY <1>1, <1>2 DEF Shape
  <2>3. QED
    BY <2>1, <2>2
<1>13. Shape'
  BY <1>1, <1>2, <1>9 DEF Shape
<1>14. /\ \A c \in Actors : held'[c] = IF c = a THEN held[a] \cup NewlyHeld(type, r.out) ELSE held[c]
       /\ \A c \in Actors : pending'[c] = IF c = a /\ type = "SOM_WITH_RESULT"
                                          THEN pending[a] \cup {act} ELSE pending[c]
       /\ \A c \in Actors : waiting'[c] = IF c = a /\ type = "OBJ_REF_RESULT"
                                          THEN waiting[a] \ {act} ELSE waiting[c]
       /\ \A c \in Actors : queue'[c] = IF c = a THEN Tail(queue[a]) ELSE queue[c]
  BY <1>1, <1>2 DEF Shape
<1>15. ASSUME NEW c \in Actors PROVE ActorOk(c)'
  <2>1. ActorOk(c)
    BY DEF IInv
  <2>2. PointersOk(table'[c], self'[c], held'[c] \cup pending'[c])
    <3>1. ASSUME NEW p \in held[c] \cup pending[c]
          PROVE  IsIndex(p) /\ \E x \in Objects : Leads(table'[c], self'[c], p, x)
      BY <1>9, <2>1 DEF ActorOk, PointersOk
    <3>2. ASSUME c = a, NEW p \in NewlyHeld(type, r.out)
          PROVE  IsIndex(p) /\ \E x \in Objects : Leads(table'[c], self'[c], p, x)
      BY <1>8, <1>9, <3>2
    <3>3. ASSUME c = a, type = "SOM_WITH_RESULT"
          PROVE  IsIndex(act) /\ \E x \in Objects : Leads(table'[c], self'[c], act, x)
      <4>1. F \in Objects /\ Leads(r.table, r.self, act, F)
        BY <1>8, <3>3, SerializationAssumption
      <4>2. IsIndex(act)
        BY <4>1, ObjectIsIndexed
      <4>3. QED
        BY <1>9, <3>3, <4>1, <4>2
    <3>4. QED
      BY <1>14, <3>1, <3>2, <3>3 DEF PointersOk
  <2>3. AnswersOk(table'[c], self'[c], pending'[c])
    <3>1. \A p \in pending[c] : \E f \in Objects : Leads(table'[c], self'[c], p, f)
      BY <1>9, <2>1 DEF ActorOk, AnswersOk
    <3>2. c = a /\ type = "SOM_WITH_RESULT" => \E f \in Objects : Leads(table'[c], self'[c], act, f)
      BY <1>8, <1>9
    <3>3. QED
      BY <1>14, <3>1, <3>2 DEF AnswersOk
  <2>4. QueueOk(c, queue'[c])
    <3>1. queue[a] # << >> /\ QueueOk(a, queue[a]) /\ QueueOk(c, queue[c])
      BY <1>1, <1>2, <2>1 DEF ActorOk
    <3>2. QueueOk(a, Tail(queue[a]))
      BY <3>1, TailOk
    <3>3. queue'[c] = IF c = a THEN Tail(queue[a]) ELSE queue[c]
      BY <1>14
    <3>4. CASE c = a
      BY <3>2, <3>3, <3>4
    <3>5. CASE c # a
      BY <3>1, <3>3, <3>5
    <3>6. QED
      BY <3>4, <3>5
  <2>5. WaitingOk(c, waiting'[c])
    BY <1>14, <2>1 DEF ActorOk, WaitingOk
  <2>6. MemoryOk(c)' /\ lost'[c] \subseteq Kinds /\ ended'[c] \in Ends
    BY <1>1, <1>9, <1>12, <2>1 DEF ActorOk, Ends
  <2>7. QED
    BY <2>2, <2>3, <2>4, <2>5, <2>6 DEF ActorOk
<1>16. \A f, c, p : p \in pending[c] =>
         (AtHand(table', self', pending, f, c, p) <=> AtHand(table, self, pending, f, c, p))
  BY <1>9, StillAtHand
<1>17. \A f, c, p : AtHand(table', self', pending', f, c, p) <=>
         \/ AtHand(table, self, pending, f, c, p)
         \/ type = "SOM_WITH_RESULT" /\ f = F /\ c = a /\ p = act
  <2> SUFFICES ASSUME NEW f, NEW c, NEW p
               PROVE  AtHand(table', self', pending', f, c, p) <=>
                        \/ AtHand(table, self, pending, f, c, p)
                        \/ type = "SOM_WITH_RESULT" /\ f = F /\ c = a /\ p = act
    OBVIOUS
  <2>1. CASE p \in pending[c] /\ c \in Actors /\ ~(type = "SOM_WITH_RESULT" /\ c = a /\ p = act)
    <3>1. AtHand(table', self', pending', f, c, p) <=> AtHand(table', self', pending, f, c, p)
      BY <1>14, <2>1 DEF AtHand
    <3>2. QED
      BY <1>16, <2>1, <3>1
  <2>2. CASE p \notin pending[c] /\ c \in Actors /\ ~(type = "SOM_WITH_RESULT" /\ c = a /\ p = act)
    BY <1>14, <2>2 DEF AtHand
  <2>3. CASE type = "SOM_WITH_RESULT" /\ c = a /\ p = act
    <3>1. Leads(table'[a], self'[a], act, F) /\ act \in pending'[a]
      BY <1>8, <1>9, <1>14, <2>3
    <3>2. TableOk(a, table'[a]) /\ ProxiesOk(a, table'[a], self'[a], objectMap'[a])
      BY <1>9 DEF MemoryOk
    <3>3. Leads(table'[a], self'[a], act, f) <=> f = F
      BY <3>1, <3>2, LeadsToOne
    <3>4. AtHand(table', self', pending', f, c, p) <=> f = F
      BY <2>3, <3>1, <3>3 DEF AtHand
    <3>5. AtHand(table, self, pending, f, c, p) => f = F
      <4>1. AtHand(table, self, pending, f, c, p) => Leads(table'[a], self'[a], act, f)
        BY <1>9, <2>3 DEF AtHand
      <4>2. QED
        BY <3>3, <4>1
    <3>6. QED
      BY <2>3, <3>4, <3>5
  <2>4. CASE c \notin Actors
    BY <2>4 DEF AtHand
  <2>5. QED
    BY <2>1, <2>2, <2>3, <2>4
<1>18. ASSUME NothingLost, NEW f \in Objects
       PROVE  Borne(queue', table', self', pending', waiting', f)
  <2>1. Borne(queue, table, self, pending, waiting, f) /\ f \in Objects /\ Owner[f] \in Actors
    BY <1>10, <1>18, OwnersAssumption
  <2>2. CASE ~Bears(q1, f)
    <3>1. type \in {"SOM_WITH_RESULT", "OBJ_REF_RESULT"} => f # F
      BY <1>6, <2>2
    <3>2. SameAtHand(table', self', pending', table, self, pending, f)
      BY <1>17, <3>1 DEF SameAtHand
    <3>3. (Home(f) \in waiting'[Owner[f]]) <=> (Home(f) \in waiting[Owner[f]])
      <4>1. CASE type = "OBJ_REF_RESULT"
        <5>1. F \in Objects /\ act = Home(F)
          BY <1>8, <4>1, SerializationAssumption
        <5>2. act # Home(f)
          BY <2>1, <3>1, <4>1, <5>1, HomeIsOne
        <5>3. QED
          BY <1>14, <2>1, <5>2
      <4>2. CASE type # "OBJ_REF_RESULT"
        BY <1>14, <2>1, <4>2
      <4>3. QED
        BY <4>1, <4>2
    <3>4. DOMAIN queue = Actors /\ IsSeq(queue[a]) /\ queue[a] # << >>
      BY <1>1, <1>2 DEF Shape
    <3>5. queue' = [queue EXCEPT ![a] = Tail(@)] /\ ~Bears(queue[a][1], f)
      BY <1>1, <2>2 DEF q1
    <3>6. QED
      <4>1. TakenOther(queue, queue', a, f)
        BY <3>4, <3>5 DEF TakenOther
      <4>2. SameWait(waiting', waiting, f)
        BY <3>3 DEF SameWait
      <4>3. QED
        BY <2>1, <3>2, <4>1, <4>2, BorneAfterOther
  <2>3. CASE Bears(q1, f) /\ type = "SOM_WITH_RESULT"
    <3>1. f = F
      BY <1>7, <2>3
    <3>2. Bore(f)
      BY <1>11, <1>18, <2>3, <3>1
    <3>3. \A c, p : AtHand(table', self', pending', f, c, p) <=> c = a /\ p = act
      BY <1>17, <2>3, <3>1, <3>2
    <3>4. Home(f) \in waiting'[Owner[f]]
      BY <1>14, <2>1, <2>3, <3>2
    <3>5. QED
      BY <3>2, <3>3, <3>4 DEF Borne
  <2>4. CASE Bears(q1, f) /\ type = "OBJ_REF_RESULT"
    <3>1. f = F
      BY <1>7, <2>4
    <3>2. Bore(f)
      BY <1>11, <1>18, <2>4, <3>1
    <3>3. \A c, p : ~AtHand(table', self', pending', f, c, p)
      BY <1>17, <2>4, <3>2
    <3>4. Home(f) \notin waiting'[Owner[f]]
      BY <1>8, <1>14, <2>1, <2>4, <3>1
    <3>5. QED
      BY <3>2, <3>3, <3>4 DEF Borne
  <2>5. CASE Bears(q1, f) /\ type \notin {"SOM_WITH_RESULT", "OBJ_REF_RESULT"}
    BY <1>6, <1>7, <2>5
  <2>6. QED
    BY <2>2, <2>3, <2>4, <2>5
<1>19. decoded' \in Decoders /\ sends' \in 0 .. MaxSends
  BY <1>1 DEF IInv
<1>20. NothingLost' => AllBorne' /\ NoneUnknown'
  <2>1. NothingLost' => NothingLost
    BY <1>1 DEF NothingLost
  <2>2. NothingLost => AllBorne'
    BY <1>18 DEF AllBorne
  <2>3. NothingLost => NoneUnknown'
    BY <1>12 DEF IInv, NoneUnknown
  <2>4. QED
    BY <2>1, <2>2, <2>3
<1>21. QED
  BY <1>13, <1>15, <1>19, <1>20 DEF IInv

-----------------------------------------------------------------------------
(* A collection.                                                            *)

\* A finite set as a sequence: each of its elements once.
LEMMA Listed ==
  ASSUME NEW S, IsFiniteSet(S)
  PROVE  LET q == SetToSeq(S)
         IN  /\ IsSeq(q) /\ Range(q) = S
             /\ \A i, j \in DOMAIN q : q[i] = q[j] => i = j
<1> DEFINE n == Cardinality(S)
           q == SetToSeq(S)
<1>1. n \in Nat /\ ExistsBijection(1 .. n, S)
  BY FS_CardinalityType
<1>2. \E f \in [1 .. n -> S] : IsInjective(f)
  BY <1>1 DEF ExistsBijection, Bijection, Injection
<1>3. q \in [1 .. n -> S] /\ IsInjective(q)
  BY <1>2 DEF SetToSeq
<1> HIDE DEF q
<1>4. IsSeq(q)
  BY <1>1, <1>3, FunctionIsSeq
<1>5. \A i, j \in DOMAIN q : q[i] = q[j] => i = j
  BY <1>3 DEF IsInjective
<1>6. Range(q) = S
  <2>1. IsFiniteSet(1 .. n) /\ Cardinality(1 .. n) = n
    <3>1. IsFiniteSet(1 .. n) /\ Cardinality(1 .. n) = IF 1 > n THEN 0 ELSE n - 1 + 1
      BY <1>1, FS_Interval
    <3> HIDE DEF n
    <3>2. QED
      BY <1>1, <3>1
  <2>2. q \in Injection(1 .. n, S)
    BY <1>3 DEF Injection
  <2>3. q \in Surjection(1 .. n, S)
    BY <2>1, <2>2, FS_Injection
  <2>4. QED
    BY <2>3 DEF Surjection, Range
<1>7. QED
  BY <1>4, <1>5, <1>6 DEF q

\* The proxies of an actor are finite: each has an index of its own.
LEMMA ProxiesFinite ==
  ASSUME NEW a, NEW t, NEW s, NEW m, ProxiesOk(a, t, s, m), IsSeq(t)
  PROVE  IsFiniteSet(DOMAIN s) /\ \A x, y \in DOMAIN s : s[x] = s[y] => x = y
<1>1. \A x \in DOMAIN s : s[x] \in DOMAIN t /\ t[s[x]] = x
  BY DEF ProxiesOk
<1>2. \A x, y \in DOMAIN s : s[x] = s[y] => x = y
  BY <1>1
<1> DEFINE g == [x \in DOMAIN s |-> s[x]]
<1>3. g \in [DOMAIN s -> DOMAIN t] /\ IsInjective(g)
  BY <1>1, <1>2 DEF IsInjective
<1> HIDE DEF g
<1>4. g \in Injection(DOMAIN s, DOMAIN t)
  BY <1>3 DEF Injection
<1>5. IsFiniteSet(DOMAIN t)
  <2> DEFINE n == Len(t)
  <2>1. n \in Nat /\ DOMAIN t = 1 .. n
    BY Measured
  <2> HIDE DEF n
  <2>2. IsFiniteSet(1 .. n)
    BY <2>1, FS_Interval
  <2>3. QED
    BY <2>1, <2>2
<1>6. IsFiniteSet(DOMAIN s)
  BY <1>4, <1>5, FS_Injection
<1>7. QED
  BY <1>2, <1>6

LEMMA Reversed ==
  ASSUME NEW q, IsSeq(q)
  PROVE  /\ IsSeq(Reverse(q)) /\ DOMAIN Reverse(q) = DOMAIN q
         /\ \A i \in DOMAIN q : \E j \in DOMAIN q : Reverse(q)[i] = q[j] /\ j = (Len(q) - i) + 1
<1> DEFINE n == Len(q)
           r == Reverse(q)
<1>1. n \in Nat /\ DOMAIN q = 1 .. n
  BY Measured
<1>2. r = [i \in 1 .. n |-> q[(n - i) + 1]]
  BY DEF Reverse
<1> HIDE DEF n, r
<1>3. DOMAIN r = 1 .. n /\ r = [i \in DOMAIN r |-> r[i]]
  BY <1>2
<1>4. IsSeq(r)
  BY <1>1, <1>3, FunctionIsSeq
<1>5. ASSUME NEW i \in 1 .. n
      PROVE  (n - i) + 1 \in DOMAIN q /\ r[i] = q[(n - i) + 1]
  BY <1>1, <1>2
<1>6. QED
  BY <1>1, <1>3, <1>4, <1>5 DEF n, r

\* The free indexes of a table in which those of dead proxies are freed.
LEMMA IndexesFreed ==
  ASSUME NEW a \in Actors, NEW t, NEW f, NEW s, NEW m,
         TableOk(a, t), FreeOk(t, f), ProxiesOk(a, t, s, m),
         NEW D, D \subseteq DOMAIN s, NEW is, IsSeq(is), Range(is) = {s[d] : d \in D},
         \A i, j \in DOMAIN is : is[i] = is[j] => i = j,
         NEW u, u = [i \in DOMAIN t |-> IF i \in Range(is) THEN Freed ELSE t[i]]
  PROVE  TableOk(a, u) /\ FreeOk(u, Reverse(is) \o f)
<1>1. IsSeq(t) /\ IsSeq(f) /\ DOMAIN t = 1 .. Len(t) /\ Len(t) \in Nat
  BY Measured DEF TableOk, FreeOk
<1>2. /\ DOMAIN u = DOMAIN t
      /\ \A i \in DOMAIN t : i \in Range(is) => u[i] = Freed
      /\ \A i \in DOMAIN t : i \notin Range(is) => u[i] = t[i]
  OBVIOUS
<1>3. ASSUME NEW i \in Range(is)
      PROVE  i \in DOMAIN t /\ t[i] \in DOMAIN s /\ t[i] # Freed /\ t[i] \notin Objects
  <2>1. PICK d \in DOMAIN s : i = s[d]
    OBVIOUS
  <2>2. i \in DOMAIN t /\ t[i] = d
    BY <2>1 DEF ProxiesOk
  <2>3. QED
    BY <2>1, <2>2, ProxyKnown
<1>4. TableOk(a, u)
  <2>1. IsSeq(u)
    BY <1>1, <1>2, FunctionIsSeq
  <2>2. ASSUME NEW i \in DOMAIN u
        PROVE  u[i] \in Proxies \/ (u[i] \in OwnObjects(a) /\ Place[u[i]] = i)
    BY <1>2, FreedIsNone DEF TableOk
  <2>3. ASSUME NEW o \in OwnObjects(a)
        PROVE  Place[o] \in DOMAIN u /\ u[Place[o]] = o
    <3>1. Place[o] \in DOMAIN t /\ t[Place[o]] = o /\ o \in Objects
      BY DEF TableOk, OwnObjects
    <3>2. Place[o] \notin Range(is)
      BY <1>3, <3>1
    <3>3. QED
      BY <1>2, <3>1, <3>2
  <2>4. QED
    BY <2>1, <2>2, <2>3 DEF TableOk
<1> DEFINE r == Reverse(is)
           g == r \o f
           n == Len(is)
           l == Len(f)
<1>5. /\ IsSeq(r) /\ DOMAIN r = DOMAIN is /\ n \in Nat /\ DOMAIN is = 1 .. n
      /\ \A i \in DOMAIN is : \E j \in DOMAIN is : r[i] = is[j] /\ j = (n - i) + 1
      /\ l \in Nat /\ DOMAIN f = 1 .. l
  BY <1>1, Reversed, Measured
<1> HIDE DEF r, n
<1>6. ASSUME NEW k \in DOMAIN r
      PROVE  r[k] \in DOMAIN t /\ r[k] \in Range(is)
  BY <1>3, <1>5 DEF Range
<1>7. ASSUME NEW k \in DOMAIN r, NEW h \in DOMAIN r, r[k] = r[h] PROVE k = h
  <2>1. PICK i \in DOMAIN is : r[k] = is[i] /\ i = (n - k) + 1
    BY <1>5
  <2>2. PICK j \in DOMAIN is : r[h] = is[j] /\ j = (n - h) + 1
    BY <1>5
  <2>3. i = j
    BY <1>7, <2>1, <2>2
  <2>4. k \in 1 .. n /\ h \in 1 .. n
    BY <1>5
  <2>5. QED
    BY <1>5, <2>1, <2>2, <2>3, <2>4
<1>8. ASSUME NEW k \in DOMAIN f
      PROVE  f[k] \in DOMAIN t /\ t[f[k]] = Freed /\ f[k] \notin Range(is)
  BY <1>3 DEF FreeOk
<1>9. ASSUME NEW k \in DOMAIN f, NEW h \in DOMAIN f, f[k] = f[h] PROVE k = h
  BY <1>9 DEF FreeOk
<1>10. Len(r) = n
  <2>1. DOMAIN r = 1 .. n
    BY <1>5
  <2>2. r = [i \in DOMAIN r |-> r[i]]
    BY <1>5, Measured
  <2>3. QED
    BY <1>5, <2>1, <2>2, FunctionIsSeq
<1>11. /\ IsSeq(g) /\ DOMAIN g = 1 .. n + l
       /\ \A i \in 1 .. n + l : g[i] = IF i <= n THEN r[i] ELSE f[i - n]
  <2>1. /\ IsSeq(g) /\ DOMAIN g = 1 .. Len(r) + Len(f)
        /\ \A i \in 1 .. Len(r) + Len(f) : g[i] = IF i <= Len(r) THEN r[i] ELSE f[i - Len(r)]
    BY <1>1, <1>5, Joined
  <2> HIDE DEF g, l
  <2>2. QED
    BY <1>10, <2>1 DEF l
<1> HIDE DEF g, l
<1>12. ASSUME NEW k \in DOMAIN g
       PROVE  \/ k \in DOMAIN r /\ g[k] = r[k] /\ k <= n /\ k \in Nat
              \/ k - n \in DOMAIN f /\ g[k] = f[k - n] /\ k > n /\ k \in Nat
  BY <1>5, <1>11
<1>13. ASSUME NEW k \in DOMAIN g PROVE g[k] \in DOMAIN u /\ u[g[k]] = Freed
  <2>1. CASE k \in DOMAIN r /\ g[k] = r[k]
    BY <1>2, <1>6, <2>1
  <2>2. CASE k - n \in DOMAIN f /\ g[k] = f[k - n]
    BY <1>2, <1>8, <2>2
  <2>3. QED
    BY <1>12, <2>1, <2>2
<1>14. ASSUME NEW k \in DOMAIN g, NEW h \in DOMAIN g, g[k] = g[h] PROVE k = h
  <2>1. CASE k \in DOMAIN r /\ h \in DOMAIN r /\ g[k] = r[k] /\ g[h] = r[h]
    BY <1>7, <1>14, <2>1
  <2>2. CASE k \in DOMAIN r /\ g[k] = r[k] /\ h - n \in DOMAIN f /\ g[h] = f[h - n]
    BY <1>6, <1>8, <1>14, <2>2
  <2>3. CASE h \in DOMAIN r /\ g[h] = r[h] /\ k - n \in DOMAIN f /\ g[k] = f[k - n]
    BY <1>6, <1>8, <1>14, <2>3
  <2>4. CASE /\ k - n \in DOMAIN f /\ g[k] = f[k - n] /\ k \in Nat
             /\ h - n \in DOMAIN f /\ g[h] = f[h - n] /\ h \in Nat
    <3>1. k - n = h - n
      BY <1>9, <1>14, <2>4
    <3>2. QED
      BY <1>5, <2>4, <3>1
  <2>5. QED
    BY <1>12, <2>1, <2>2, <2>3, <2>4
<1>15. FreeOk(u, g)
  BY <1>11, <1>13, <1>14 DEF FreeOk
<1>16. QED
  BY <1>4, <1>15 DEF g, r

\* The proxies that are left, and the map without those that are gone.
LEMMA ProxiesLeft ==
  ASSUME NEW a \in Actors, NEW t, NEW s, NEW m, ProxiesOk(a, t, s, m),
         NEW D, D \subseteq DOMAIN s,
         NEW u, DOMAIN u = DOMAIN t, \A i \in DOMAIN t : t[i] \notin D => u[i] = t[i],
         NEW v, v = [d \in DOMAIN s \ D |-> s[d]],
         NEW n, n = [id \in DOMAIN m \ {d.id : d \in D} |-> m[id]]
  PROVE  ProxiesOk(a, u, v, n)
<1>1. /\ DOMAIN v = DOMAIN s \ D /\ \A d \in DOMAIN s \ D : v[d] = s[d]
      /\ DOMAIN n = DOMAIN m \ {d.id : d \in D} /\ \A id \in DOMAIN n : n[id] = m[id]
  OBVIOUS
<1>2. ASSUME NEW x \in DOMAIN v
      PROVE  /\ x \in Proxies /\ v[x] \in DOMAIN u /\ u[v[x]] = x
             /\ x.id \in DOMAIN n /\ n[x.id] = x
  <2>1. /\ x \in DOMAIN s /\ x \notin D /\ v[x] = s[x] /\ x \in Proxies
        /\ s[x] \in DOMAIN t /\ t[s[x]] = x /\ x.id \in DOMAIN m /\ m[x.id] = x
    BY <1>1 DEF ProxiesOk
  <2>2. u[v[x]] = x /\ v[x] \in DOMAIN u
    BY <2>1
  <2>3. ASSUME NEW d \in D PROVE d.id # x.id
    <3>1. m[d.id] = d
      BY <2>3 DEF ProxiesOk
    <3>2. QED
      BY <2>1, <2>3, <3>1
  <2>4. x.id \in DOMAIN n
    BY <1>1, <2>1, <2>3
  <2>5. QED
    BY <1>1, <2>1, <2>2, <2>4
<1>3. ASSUME NEW id \in DOMAIN n
      PROVE  /\ n[id] \in DOMAIN v /\ n[id].id = id
             /\ \E o \in Objects : id = Home(o) /\ Owner[o] # a
  <2>1. /\ id \in DOMAIN m /\ id \notin {d.id : d \in D} /\ n[id] = m[id]
    BY <1>1
  <2>2. /\ m[id] \in DOMAIN s /\ m[id].id = id /\ \E o \in Objects : id = Home(o) /\ Owner[o] # a
    BY <2>1 DEF ProxiesOk
  <2>3. m[id] \notin D
    BY <2>1, <2>2
  <2>4. QED
    BY <1>1, <2>1, <2>2, <2>3
<1>4. QED
  BY <1>2, <1>3 DEF ProxiesOk

\* A pointer keeps its proxy alive.
LEMMA LeadsLive ==
  ASSUME NEW t, NEW s, NEW p, NEW x, Leads(t, s, p, x), IsIndex(p), NEW D, t[p[2]] \notin D,
         NEW u, DOMAIN u = DOMAIN t, \A i \in DOMAIN t : t[i] \notin D => u[i] = t[i],
         NEW v, DOMAIN v = DOMAIN s \ D
  PROVE  Leads(u, v, p, x)
<1>1. /\ x \in Objects /\ p = Pointer(p[2]) /\ p[2] \in DOMAIN t
      /\ t[p[2]] = x \/ (t[p[2]] \in DOMAIN s /\ t[p[2]].id = Home(x))
  BY IndexLeads
<1>2. u[p[2]] = t[p[2]]
  BY <1>1
<1>3. QED
  BY <1>1, <1>2 DEF Leads

\* The owners of proxies that are gone are told, with no result for anyone.
LEMMA UnlinksSent ==
  ASSUME NEW a, NEW D, IsFiniteSet(D), NEW b
  PROVE  LET gone == SetToSeq(D)
             ms == [i \in 1 .. Len(gone) |-> RefMessage("UNLINK_REF", gone[i].id, a)]
         IN  QueueOk(b, ms) /\ Bearless(ms)
<1> DEFINE gone == SetToSeq(D)
           n == Len(gone)
           ms == [i \in 1 .. n |-> RefMessage("UNLINK_REF", gone[i].id, a)]
<1>1. n \in Nat
  BY Listed, Measured
<1> HIDE DEF n
<1>2. DOMAIN ms = 1 .. n /\ ms = [i \in DOMAIN ms |-> ms[i]]
  OBVIOUS
<1>3. ASSUME NEW i \in DOMAIN ms
      PROVE  Message(ms[i]) /\ ms[i].meaning.type = "UNLINK_REF"
  <2> DEFINE m == RefMessage("UNLINK_REF", gone[i].id, a)
  <2>1. Message(m) /\ m.meaning = [type |-> "UNLINK_REF", objects |-> << >>]
    BY ReferenceSent
  <2>2. ms[i] = m
    BY <1>2
  <2> HIDE DEF m, ms
  <2>3. m.meaning.type = "UNLINK_REF"
    BY <2>1
  <2>4. QED
    BY <2>1, <2>2, <2>3
<1> HIDE DEF ms
<1>4. IsSeq(ms)
  BY <1>1, <1>2, FunctionIsSeq
<1>5. QueueOk(b, ms) /\ Bearless(ms)
  BY <1>3, <1>4 DEF QueueOk, Bearless, Bears
<1>6. QED
  BY <1>5 DEF ms, n

\* Where nothing that is at hand is freed, nothing at hand is taken away.
LEMMA NoneMissed ==
  ASSUME NEW a, NEW missed, NEW frames, Lost(a, missed, frames) = {}
  PROVE  To(a, held[a], missed) = {} /\ To(a, pending[a], missed) = {}
BY DEF Lost

LEMMA CollectKeeps ==
  ASSUME IInv, NEW a \in Actors, Collect(a)
  PROVE  IInv'
<1>0. PICK missed \in SUBSET (DOMAIN self[a] \ Dead(a)), frames \in SUBSET waiting[a] :
    LET all == Dead(a) \cup missed
        dead == SetToSeq(all)
        indexes == [i \in 1 .. Len(dead) |-> self[a][dead[i]]]
        mine(x) == LET gone == SetToSeq({d \in all : d.id.actor = x})
                   IN  [i \in 1 .. Len(gone) |-> RefMessage("UNLINK_REF", gone[i].id, a)]
    IN  /\ table' = [table EXCEPT ![a] = [i \in DOMAIN @ |->
                         IF i \in Range(indexes) THEN Freed ELSE @[i]]]
        /\ free' = [free EXCEPT ![a] = Reverse(indexes) \o @]
        /\ self' = [self EXCEPT ![a] = [d \in DOMAIN @ \ all |-> @[d]]]
        /\ objectMap' = [objectMap EXCEPT ![a] = UnlinkRemoteObject(a, {d.id : d \in all})]
        /\ queue' = [b \in Actors |-> queue[b] \o mine(b)]
        /\ held' = [held EXCEPT ![a] = @ \ To(a, @, missed)]
        /\ pending' = [pending EXCEPT ![a] = @ \ To(a, @, missed)]
        /\ lost' = [lost EXCEPT ![a] = @ \cup Lost(a, missed, frames)]
        /\ UNCHANGED <<waiting, decoded, ended, sends>>
  BY DEF Collect
<1> DEFINE D == Dead(a) \cup missed
           dead == SetToSeq(D)
           is == [i \in 1 .. Len(dead) |-> self[a][dead[i]]]
           gone(b) == SetToSeq({d \in D : d.id.actor = b})
           ms(b) == [i \in 1 .. Len(gone(b)) |-> RefMessage("UNLINK_REF", gone(b)[i].id, a)]
           t == table[a]
           s == self[a]
           om == objectMap[a]
           u == [i \in DOMAIN t |-> IF i \in Range(is) THEN Freed ELSE t[i]]
           v == [d \in DOMAIN s \ D |-> s[d]]
           n == [id \in DOMAIN om \ {d.id : d \in D} |-> om[id]]
<1>1. /\ table' = [table EXCEPT ![a] = u] /\ free' = [free EXCEPT ![a] = Reverse(is) \o free[a]]
      /\ self' = [self EXCEPT ![a] = v] /\ objectMap' = [objectMap EXCEPT ![a] = n]
      /\ queue' = [b \in Actors |-> queue[b] \o ms(b)]
      /\ waiting' = waiting /\ decoded' = decoded /\ ended' = ended /\ sends' = sends
  BY <1>0 DEF UnlinkRemoteObject
<1>2. Shape /\ ActorOk(a) /\ TableOk(a, t) /\ FreeOk(t, free[a]) /\ ProxiesOk(a, t, s, om)
  BY DEF IInv, ActorOk, MemoryOk
<1>3. /\ DOMAIN held' = Actors /\ DOMAIN pending' = Actors /\ DOMAIN lost' = Actors
      /\ held'[a] = held[a] \ To(a, held[a], missed)
      /\ pending'[a] = pending[a] \ To(a, pending[a], missed)
      /\ lost'[a] = lost[a] \cup Lost(a, missed, frames)
      /\ \A c \in Actors : c # a => held'[c] = held[c] /\ pending'[c] = pending[c]
                                   /\ lost'[c] = lost[c]
  BY <1>0, <1>2 DEF Shape
<1>4. \A p \in held'[a] \cup pending'[a] : p \in held[a] \cup pending[a] /\ t[p[2]] \notin D
  <2>1. \A p \in held'[a] \cup pending'[a] : p \in held[a] \cup pending[a] /\ t[p[2]] \notin missed
    BY <1>3 DEF To
  <2>2. \A p \in held[a] \cup pending[a] : t[p[2]] \notin Dead(a)
    BY DEF Dead
  <2>3. QED
    BY <2>1, <2>2
<1>5. IsFiniteSet(D) /\ D \subseteq DOMAIN s /\ \A x, y \in DOMAIN s : s[x] = s[y] => x = y
  <2>1. IsSeq(t)
    BY <1>2 DEF TableOk
  <2>2. IsFiniteSet(DOMAIN s) /\ \A x, y \in DOMAIN s : s[x] = s[y] => x = y
    BY <1>2, <2>1, ProxiesFinite
  <2>3. D \in SUBSET DOMAIN s
    BY DEF Dead
  <2> HIDE DEF D, s
  <2>4. IsFiniteSet(D)
    BY <2>2, <2>3, FS_Subset
  <2>5. QED
    BY <2>2, <2>3, <2>4
<1> HIDE DEF D
<1>6. /\ IsSeq(is) /\ Range(is) = {s[d] : d \in D}
      /\ \A i, j \in DOMAIN is : is[i] = is[j] => i = j
  <2>1. /\ IsSeq(dead) /\ Range(dead) = D
        /\ \A i, j \in DOMAIN dead : dead[i] = dead[j] => i = j
    BY <1>5, Listed
  <2> HIDE DEF dead
  <2> DEFINE k == Len(dead)
  <2>2. k \in Nat /\ DOMAIN dead = 1 .. k
    BY <2>1, Measured
  <2> HIDE DEF k
  <2>3. DOMAIN is = 1 .. k /\ is = [i \in DOMAIN is |-> is[i]]
        /\ \A i \in 1 .. k : is[i] = s[dead[i]]
    BY DEF k
  <2> HIDE DEF is
  <2>4. IsSeq(is)
    BY <2>2, <2>3, FunctionIsSeq
  <2>5. Range(is) = {s[d] : d \in D}
    BY <2>1, <2>2, <2>3 DEF Range
  <2>6. \A i \in 1 .. k : dead[i] \in DOMAIN s
    BY <1>5, <2>1, <2>2 DEF Range
  <2>7. \A i, j \in DOMAIN is : is[i] = is[j] => i = j
    BY <1>5, <2>1, <2>2, <2>3, <2>6
  <2>8. QED
    BY <2>4, <2>5, <2>7
<1>7. \A b \in Actors : QueueOk(b, ms(b)) /\ Bearless(ms(b))
  <2> TAKE b \in Actors
  <2> DEFINE E == {d \in D : d.id.actor = b}
  <2>1. IsFiniteSet(E)
    <3>1. E \in SUBSET D
      OBVIOUS
    <3> HIDE DEF E
    <3>2. QED
      BY <1>5, <3>1, FS_Subset
  <2>2. ms(b) = [i \in 1 .. Len(SetToSeq(E)) |-> RefMessage("UNLINK_REF", SetToSeq(E)[i].id, a)]
    OBVIOUS
  <2> HIDE DEF E, ms, gone
  <2> DEFINE r == [i \in 1 .. Len(SetToSeq(E)) |-> RefMessage("UNLINK_REF", SetToSeq(E)[i].id, a)]
  <2>3. QueueOk(b, r) /\ Bearless(r)
    BY <2>1, UnlinksSent
  <2>4. ms(b) = r
    BY <2>2
  <2> HIDE DEF r
  <2>5. QED
    BY <2>3, <2>4
<1> HIDE DEF dead, is, gone, ms
<1>8. DOMAIN u = DOMAIN t /\ \A i \in DOMAIN t : t[i] \notin D => u[i] = t[i]
  <2>1. DOMAIN u = DOMAIN t /\ \A i \in DOMAIN t : i \notin Range(is) => u[i] = t[i]
    OBVIOUS
  <2>2. ASSUME NEW i \in Range(is) PROVE t[i] \in D
    <3>1. PICK d \in D : i = s[d]
      BY <1>6, <2>2
    <3>2. d \in DOMAIN s /\ d \in D
      BY <1>5
    <3>3. t[i] = d
      BY <1>2, <3>1, <3>2 DEF ProxiesOk
    <3>4. QED
      BY <3>2, <3>3
  <2>3. QED
    BY <2>1, <2>2
<1>9. TableOk(a, u) /\ FreeOk(u, Reverse(is) \o free[a])
  <2> DEFINE f == free[a]
  <2>1. FreeOk(t, f) /\ u = [i \in DOMAIN t |-> IF i \in Range(is) THEN Freed ELSE t[i]]
    BY <1>2
  <2> HIDE DEF u, t, s, om, f
  <2>2. TableOk(a, u) /\ FreeOk(u, Reverse(is) \o f)
    BY <1>2, <1>5, <1>6, <2>1, IndexesFreed
  <2>3. QED
    BY <2>2 DEF f
<1>10. ProxiesOk(a, u, v, n) /\ DOMAIN v = DOMAIN s \ D
  <2>1. /\ v = [d \in DOMAIN s \ D |-> s[d]] /\ n = [id \in DOMAIN om \ {d.id : d \in D} |-> om[id]]
        /\ DOMAIN v = DOMAIN s \ D
    OBVIOUS
  <2> HIDE DEF u, v, n, t, s, om
  <2>2. QED
    BY <1>2, <1>5, <1>8, <2>1, ProxiesLeft
<1>11. ASSUME NEW p \in held'[a] \cup pending'[a], NEW x, Leads(t, s, p, x)
       PROVE  Leads(u, v, p, x)
  <2>1. IsIndex(p)
    BY <1>2, <1>4 DEF ActorOk, PointersOk
  <2>2. t[p[2]] \notin D
    BY <1>4, <1>11
  <2> HIDE DEF u, v, n, t, s, om
  <2>3. QED
    BY <1>8, <1>10, <1>11, <2>1, <2>2, LeadsLive
<1>12. /\ DOMAIN table' = Actors /\ DOMAIN free' = Actors /\ DOMAIN self' = Actors
       /\ DOMAIN objectMap' = Actors /\ DOMAIN queue' = Actors
       /\ table'[a] = u /\ free'[a] = Reverse(is) \o free[a] /\ self'[a] = v /\ objectMap'[a] = n
       /\ \A c \in Actors : c # a => /\ table'[c] = table[c] /\ self'[c] = self[c]
                                     /\ free'[c] = free[c] /\ objectMap'[c] = objectMap[c]
       /\ \A c \in Actors : queue'[c] = queue[c] \o ms(c)
  <2> HIDE DEF u, v, n, t, s, om
  <2>1. QED
    BY <1>1, <1>2 DEF Shape
<1> HIDE DEF u, v, n, t, s, om
<1>13. Shape'
  BY <1>1, <1>2, <1>3, <1>12 DEF Shape
<1>14. \A c \in Actors : MemoryOk(c)'
  <2> TAKE c \in Actors
  <2>1. MemoryOk(c)
    BY DEF IInv, ActorOk
  <2>2. CASE c = a
    BY <1>9, <1>10, <1>12, <2>2 DEF MemoryOk
  <2>3. CASE c # a
    BY <1>12, <2>1, <2>3 DEF MemoryOk
  <2>4. QED
    BY <2>2, <2>3
<1>15. \A c \in Actors : \A p \in held'[c] \cup pending'[c] :
         /\ p \in held[c] \cup pending[c] /\ (p \in pending'[c] => p \in pending[c])
         /\ \A x : Leads(table[c], self[c], p, x) => Leads(table'[c], self'[c], p, x)
  BY <1>3, <1>11, <1>12 DEF t, s
<1>16. \A c \in Actors : QueueOk(c, queue'[c])
  <2> TAKE c \in Actors
  <2> DEFINE q == queue[c]
             w == ms(c)
  <2>1. QueueOk(c, q) /\ QueueOk(c, w)
    BY <1>7 DEF IInv, ActorOk
  <2>2. queue'[c] = q \o w
    BY <1>12
  <2> HIDE DEF q, w
  <2>3. QueueOk(c, q \o w)
    BY <2>1, QueueGrows
  <2>4. QED
    BY <2>2, <2>3
<1>17. ASSUME NEW c \in Actors PROVE ActorOk(c)'
  <2>1. ActorOk(c)
    BY DEF IInv
  <2>2. PointersOk(table'[c], self'[c], held'[c] \cup pending'[c])
    BY <1>15, <2>1 DEF ActorOk, PointersOk
  <2>3. AnswersOk(table'[c], self'[c], pending'[c])
    BY <1>15, <2>1 DEF ActorOk, AnswersOk
  <2>4. WaitingOk(c, waiting'[c]) /\ lost'[c] \subseteq Kinds /\ ended'[c] \in Ends
    BY <1>1, <1>3, <2>1 DEF ActorOk, Lost, Kinds
  <2>5. QED
    BY <1>14, <1>16, <2>2, <2>3, <2>4 DEF ActorOk, Ends
<1>18. NothingLost' => NothingLost /\ \A c \in Actors : pending'[c] = pending[c]
  <2> SUFFICES ASSUME NothingLost'
               PROVE  NothingLost /\ \A c \in Actors : pending'[c] = pending[c]
    OBVIOUS
  <2>1. \A c \in Actors : lost[c] = {} /\ lost'[a] = {}
    BY <1>3 DEF NothingLost
  <2>2. To(a, pending[a], missed) = {}
    BY <1>3, <2>1, NoneMissed
  <2>3. \A c \in Actors : pending'[c] = pending[c]
    BY <1>3, <2>2
  <2>4. QED
    BY <2>1, <2>3 DEF NothingLost
<1>19. ASSUME NothingLost', NEW f \in Objects PROVE Borne(queue', table', self', pending', waiting', f)
  <2>1. \A c, i : OnItsWay(queue', f, c, i) <=> OnItsWay(queue, f, c, i)
    <3> SUFFICES ASSUME NEW c \in Actors, NEW i
                 PROVE  OnItsWay(queue', f, c, i) <=> OnItsWay(queue, f, c, i)
      BY DEF OnItsWay
    <3> DEFINE q == queue[c]
               w == ms(c)
               r == q \o w
    <3>1. QueueOk(c, q) /\ QueueOk(c, w) /\ \A j \in DOMAIN w : ~Bears(w[j], f)
      BY <1>7 DEF IInv, ActorOk, Bearless
    <3>2. queue'[c] = r
      BY <1>12
    <3> HIDE DEF q, w
    <3>3. \A j : j \in DOMAIN r /\ Bears(r[j], f) <=> j \in DOMAIN q /\ Bears(q[j], f)
      BY <3>1, NothingNew
    <3> HIDE DEF r
    <3>4. QED
      BY <3>2, <3>3 DEF OnItsWay, q
  <2>2. \A c, p : AtHand(table', self', pending', f, c, p) <=> AtHand(table, self, pending, f, c, p)
    <3>1. \A g, c, p : p \in pending[c] =>
            (AtHand(table', self', pending, g, c, p) <=> AtHand(table, self, pending, g, c, p))
      BY <1>14, <1>15, <1>18, <1>19, StillAtHand
    <3>2. QED
      BY <1>18, <1>19, <3>1 DEF AtHand
  <2>3. Borne(queue, table, self, pending, waiting, f) /\ waiting' = waiting
    BY <1>1, <1>18, <1>19 DEF IInv, AllBorne
  <2>4. QED
    BY <2>1, <2>2, <2>3, BorneSame
<1>20. decoded' \in Decoders /\ sends' \in 0 .. MaxSends
  BY <1>1 DEF IInv
<1>21. NothingLost' => AllBorne' /\ NoneUnknown'
  BY <1>1, <1>18, <1>19 DEF IInv, AllBorne, NoneUnknown
<1>22. QED
  BY <1>13, <1>17, <1>20, <1>21 DEF IInv

-----------------------------------------------------------------------------
(* What was freed is used.                                                  *)

LEMMA ExistingLead ==
  ASSUME NEW a \in Actors, MemoryOk(a), NEW p \in Existing(a)
  PROVE  IsIndex(p) /\ \E x \in Objects : Leads(table[a], self[a], p, x)
<1>1. CASE \E o \in OwnObjects(a) : p = Pointer(Place[o])
  <2>1. PICK o \in OwnObjects(a) : p = Pointer(Place[o])
    BY <1>1
  <2>2. o \in Objects /\ Owner[o] = a
    BY DEF OwnObjects
  <2>3. Leads(table[a], self[a], p, o)
    BY <2>1, <2>2, FrameLeads
  <2>4. QED
    BY <2>1, <2>2, <2>3 DEF IsIndex, Pointer
<1>2. CASE \E d \in DOMAIN self[a] : p = Pointer(self[a][d])
  <2>1. PICK d \in DOMAIN self[a] : p = Pointer(self[a][d])
    BY <1>2
  <2>2. /\ self[a][d] \in DOMAIN table[a] /\ table[a][self[a][d]] = d
        /\ \E o \in Objects : d.id = Home(o)
    BY DEF MemoryOk, ProxiesOk
  <2>3. p[2] = self[a][d] /\ p = Pointer(p[2]) /\ IsIndex(p)
    BY <2>1 DEF Pointer, IsIndex
  <2>4. QED
    BY <2>2, <2>3 DEF Leads
<1>3. QED
  BY <1>1, <1>2 DEF Existing

LEMMA UseFreedKeeps ==
  ASSUME IInv, NEW a \in Actors, UseFreed(a)
  PROVE  IInv'
<1>1. /\ table' = table /\ free' = free /\ self' = self /\ objectMap' = objectMap
      /\ waiting' = waiting /\ queue' = queue /\ decoded' = decoded /\ lost' = lost
      /\ sends' = sends /\ lost[a] # {}
  BY DEF UseFreed, memory
<1>2. /\ ended' = ended \/ ended' = [ended EXCEPT ![a] = "freed object"]
      /\ \/ held' = held /\ pending' = pending
         \/ \E p \in Existing(a) : held' = [held EXCEPT ![a] = @ \cup {p}] /\ pending' = pending
         \/ \E p \in Existing(a) : pending' = [pending EXCEPT ![a] = @ \cup {p}] /\ held' = held
  BY DEF UseFreed
<1>3. Shape /\ MemoryOk(a)
  BY DEF IInv, ActorOk
<1>4. Shape'
  BY <1>1, <1>2, <1>3 DEF Shape
<1> DEFINE Gained(p) ==
             \A c \in Actors :
               /\ held'[c] \cup pending'[c] \subseteq held[c] \cup pending[c] \cup {p}
               /\ pending'[c] \subseteq pending[c] \cup {p}
               /\ c # a => held'[c] = held[c] /\ pending'[c] = pending[c]
<1>5. /\ \A c \in Actors : ended'[c] \in {ended[c], "freed object"}
      /\ (held' = held /\ pending' = pending) \/ \E p \in Existing(a) : Gained(p)
  <2>1. \A c \in Actors : ended'[c] \in {ended[c], "freed object"}
    BY <1>2, <1>3 DEF Shape
  <2>2. ASSUME NEW p \in Existing(a), held' = [held EXCEPT ![a] = @ \cup {p}] /\ pending' = pending
        PROVE  Gained(p)
    BY <1>3, <2>2 DEF Shape
  <2>3. ASSUME NEW p \in Existing(a), pending' = [pending EXCEPT ![a] = @ \cup {p}] /\ held' = held
        PROVE  Gained(p)
    BY <1>3, <2>3 DEF Shape
  <2> HIDE DEF Gained
  <2>4. QED
    BY <1>2, <2>1, <2>2, <2>3
<1>6. \A p \in Existing(a) : IsIndex(p) /\ \E x \in Objects : Leads(table[a], self[a], p, x)
  BY <1>3, ExistingLead
<1>7. ASSUME NEW c \in Actors PROVE ActorOk(c)'
  <2>1. ActorOk(c)
    BY DEF IInv
  <2>2. /\ PointersOk(table'[c], self'[c], held'[c] \cup pending'[c])
        /\ AnswersOk(table'[c], self'[c], pending'[c])
    <3>1. /\ PointersOk(table'[c], self'[c], held[c] \cup pending[c])
          /\ AnswersOk(table'[c], self'[c], pending[c])
      BY <1>1, <2>1 DEF ActorOk
    <3>2. CASE held' = held /\ pending' = pending
      BY <3>1, <3>2
    <3>3. CASE c # a /\ \E p \in Existing(a) : Gained(p)
      BY <3>1, <3>3
    <3>4. CASE c = a /\ \E p \in Existing(a) : Gained(p)
      <4>1. PICK p \in Existing(a) : Gained(p)
        BY <3>4
      <4>2. IsIndex(p) /\ \E x \in Objects : Leads(table'[c], self'[c], p, x)
        BY <1>1, <1>6, <3>4
      <4>3. /\ held'[c] \cup pending'[c] \subseteq held[c] \cup pending[c] \cup {p}
            /\ pending'[c] \subseteq pending[c] \cup {p}
        BY <4>1
      <4> HIDE DEF Gained
      <4>4. PointersOk(table'[c], self'[c], held'[c] \cup pending'[c])
        BY <3>1, <4>2, <4>3 DEF PointersOk
      <4>5. AnswersOk(table'[c], self'[c], pending'[c])
        BY <3>1, <4>2, <4>3 DEF AnswersOk
      <4>6. QED
        BY <4>4, <4>5
    <3> HIDE DEF Gained
    <3>5. QED
      BY <1>5, <3>2, <3>3, <3>4
  <2>4. MemoryOk(c)' /\ QueueOk(c, queue'[c]) /\ WaitingOk(c, waiting'[c])
    BY <1>1, <2>1 DEF ActorOk, MemoryOk
  <2>5. lost'[c] \subseteq Kinds /\ ended'[c] \in Ends
    BY <1>1, <1>5, <2>1 DEF ActorOk, Ends
  <2>6. QED
    BY <2>2, <2>4, <2>5 DEF ActorOk
<1>8. ~NothingLost'
  BY <1>1 DEF NothingLost
<1>9. decoded' \in Decoders /\ sends' \in 0 .. MaxSends
  BY <1>1 DEF IInv
<1>10. QED
  BY <1>4, <1>7, <1>8, <1>9 DEF IInv

-----------------------------------------------------------------------------
(* The initial states, and every step.                                      *)

LEMMA FirstTable ==
  ASSUME NEW a \in Actors, NEW t,
         t = [i \in 1 .. Cardinality(OwnObjects(a)) |-> CHOOSE o \in OwnObjects(a) : Place[o] = i]
  PROVE  TableOk(a, t)
<1> DEFINE S == OwnObjects(a)
           n == Cardinality(S)
<1>1. IsFiniteSet(S) /\ n \in Nat
  <2>1. S \in SUBSET Objects /\ IsFiniteSet(Objects)
    BY OwnersAssumption DEF OwnObjects
  <2> HIDE DEF S
  <2>2. IsFiniteSet(S)
    BY <2>1, FS_Subset
  <2>3. QED
    BY <2>2, FS_CardinalityType
<1>2. {Place[o] : o \in S} = 1 .. n
  BY SerializationAssumption
<1>3. t = [i \in 1 .. n |-> CHOOSE o \in S : Place[o] = i]
  OBVIOUS
<1> HIDE DEF n, S
<1>4. ASSUME NEW i \in 1 .. n PROVE t[i] \in S /\ Place[t[i]] = i
  <2>1. \E o \in S : Place[o] = i
    BY <1>2
  <2>2. t[i] = CHOOSE o \in S : Place[o] = i
    BY <1>3
  <2>3. QED
    BY <2>1, <2>2
<1>5. IsSeq(t) /\ DOMAIN t = 1 .. n
  <2>1. DOMAIN t = 1 .. n /\ t = [i \in DOMAIN t |-> t[i]]
    BY <1>3
  <2>2. QED
    BY <1>1, <2>1, FunctionIsSeq
<1>6. ASSUME NEW o \in S PROVE Place[o] \in DOMAIN t /\ t[Place[o]] = o
  <2>1. Place[o] \in 1 .. n
    BY <1>2
  <2>2. t[Place[o]] \in S /\ Place[t[Place[o]]] = Place[o]
    BY <1>4, <2>1
  <2>3. QED
    BY <1>5, <2>1, <2>2, SerializationAssumption DEF S, OwnObjects
<1>7. QED
  BY <1>4, <1>5, <1>6 DEF TableOk, S

LEMMA InitIInv == Init => IInv
<1> SUFFICES ASSUME Init PROVE IInv
  OBVIOUS
<1>1. Shape /\ decoded \in Decoders /\ sends \in 0 .. MaxSends
  BY SerializationAssumption DEF Init, Shape
<1>2. ASSUME NEW a \in Actors PROVE ActorOk(a)
  <2>1. /\ table[a] = [i \in 1 .. Cardinality(OwnObjects(a)) |->
                         CHOOSE o \in OwnObjects(a) : Place[o] = i]
        /\ free[a] = << >> /\ self[a] = << >> /\ objectMap[a] = << >>
        /\ held[a] = {Pointer(Place[o]) : o \in OwnObjects(a) \ Frames}
        /\ waiting[a] = {} /\ pending[a] = {} /\ queue[a] = << >>
        /\ lost[a] = {} /\ ended[a] = "no"
    BY DEF Init
  <2>2. TableOk(a, table[a])
    BY <2>1, FirstTable
  <2>3. /\ FreeOk(table[a], free[a]) /\ ProxiesOk(a, table[a], self[a], objectMap[a])
        /\ QueueOk(a, queue[a])
    BY <2>1, NoneYet, NoMessage DEF FreeOk, ProxiesOk
  <2>4. PointersOk(table[a], self[a], held[a] \cup pending[a])
    <3> SUFFICES ASSUME NEW p \in held[a]
                 PROVE  IsIndex(p) /\ \E x \in Objects : Leads(table[a], self[a], p, x)
      BY <2>1 DEF PointersOk
    <3>1. PICK o \in OwnObjects(a) : p = Pointer(Place[o])
      BY <2>1
    <3>2. o \in Objects /\ p[2] = Place[o] /\ p = Pointer(p[2]) /\ IsIndex(p)
      BY <3>1 DEF OwnObjects, Pointer, IsIndex
    <3>3. Place[o] \in DOMAIN table[a] /\ table[a][Place[o]] = o
      BY <2>2, <3>1 DEF TableOk
    <3>4. Leads(table[a], self[a], p, o)
      BY <3>2, <3>3 DEF Leads
    <3>5. QED
      BY <3>2, <3>4
  <2>5. AnswersOk(table[a], self[a], pending[a]) /\ WaitingOk(a, waiting[a])
    BY <2>1 DEF AnswersOk, WaitingOk
  <2>6. QED
    BY <2>1, <2>2, <2>3, <2>4, <2>5 DEF ActorOk, MemoryOk, Ends
<1>3. ASSUME NEW f \in Objects PROVE Borne(queue, table, self, pending, waiting, f)
  <2>1. Owner[f] \in Actors
    BY OwnersAssumption
  <2>2. /\ \A a \in Actors : queue[a] = << >> /\ pending[a] = {} /\ waiting[a] = {}
    BY DEF Init
  <2>3. \A c, i : ~OnItsWay(queue, f, c, i)
    BY <2>2, NoneYet DEF OnItsWay
  <2>4. \A c, x : ~AtHand(table, self, pending, f, c, x)
    BY <2>2 DEF AtHand
  <2>5. QED
    BY <2>1, <2>2, <2>3, <2>4 DEF Borne
<1>4. NoneUnknown
  BY DEF Init, NoneUnknown
<1>5. QED
  BY <1>1, <1>2, <1>3, <1>4 DEF IInv, AllBorne

LEMMA NextKeeps == IInv /\ [Next]_vars => IInv'
<1> SUFFICES ASSUME IInv, [Next]_vars PROVE IInv'
  OBVIOUS
<1>1. ASSUME NEW a \in Actors,
             \/ SendReference(a) \/ SendAsync(a) \/ SendSync(a) \/ ReturnRemote(a)
             \/ Receive(a) \/ ReceiveUnknown(a) \/ Drop(a) \/ Collect(a) \/ UseFreed(a)
      PROVE  IInv'
  BY <1>1, SendReferenceKeeps, SendAsyncKeeps, SendSyncKeeps, ReturnRemoteKeeps, ReceiveKeeps,
     ReceiveUnknownKeeps, DropKeeps, CollectKeeps, UseFreedKeeps
<1>2. CASE UNCHANGED vars
  <2>1. /\ table' = table /\ free' = free /\ self' = self /\ objectMap' = objectMap
        /\ held' = held /\ waiting' = waiting /\ pending' = pending /\ queue' = queue
        /\ decoded' = decoded /\ lost' = lost /\ ended' = ended /\ sends' = sends
    BY <1>2 DEF vars, memory
  <2>2. Shape' /\ \A a \in Actors : ActorOk(a)'
    BY <2>1 DEF IInv, Shape, ActorOk, MemoryOk
  <2>3. NothingLost' => AllBorne' /\ NoneUnknown'
    BY <2>1 DEF IInv, NothingLost, AllBorne, NoneUnknown
  <2>4. QED
    BY <2>1, <2>2, <2>3 DEF IInv
<1>3. QED
  BY <1>1, <1>2 DEF Next

LEMMA InvariantHolds == Spec => []IInv
<1>1. Init => IInv
  BY InitIInv
<1>2. IInv /\ [Next]_vars => IInv'
  BY NextKeeps
<1>3. QED
  BY <1>1, <1>2, PTL DEF Spec

-----------------------------------------------------------------------------
(* What follows.                                                            *)

LEMMA InvariantTypes == IInv => TypeOK
<1> SUFFICES ASSUME IInv PROVE TypeOK
  OBVIOUS
<1>1. ASSUME NEW a \in Actors
      PROVE  /\ \A p \in held[a] \cup pending[a] : IsIndex(p) /\ p[2] \in DOMAIN table[a]
             /\ Range(free[a]) \subseteq DOMAIN table[a]
             /\ \A x \in DOMAIN self[a] : table[a][self[a][x]] = x
             /\ \A id \in DOMAIN objectMap[a] :
                  objectMap[a][id] \in DOMAIN self[a] /\ objectMap[a][id].id = id
             /\ lost[a] \subseteq Kinds
             /\ ended[a] \in {"no", "unknown type", "no activation", "freed object"}
  <2>1. ActorOk(a) /\ FreeOk(table[a], free[a]) /\ ProxiesOk(a, table[a], self[a], objectMap[a])
    BY DEF IInv, ActorOk, MemoryOk
  <2>2. \A p \in held[a] \cup pending[a] : IsIndex(p) /\ p[2] \in DOMAIN table[a]
    BY <2>1, IndexLeads DEF ActorOk, PointersOk
  <2>3. Range(free[a]) \subseteq DOMAIN table[a]
    BY <2>1 DEF FreeOk, Range
  <2>4. QED
    BY <2>1, <2>2, <2>3 DEF ProxiesOk, ActorOk, Ends
<1>2. decoded \in Decoders /\ sends \in 0 .. MaxSends
  BY DEF IInv
<1>3. QED
  BY <1>1, <1>2 DEF TypeOK

\* What a decoded pointer stands for, while the table of its actor is not yet
\* the new one.
StandsFor(r, p) ==
  IF ~IsIndex(p) THEN p
  ELSE LET y == r.table[p[2]]
       IN  IF IsProxy(y) THEN table[y.id.actor][y.id.index] ELSE y

LEMMA DecodedDenotes ==
  ASSUME \A b \in Actors : MemoryOk(b),
         NEW a \in Actors, NEW r, Reads(a, r), NEW p, NEW x, Leads(r.table, r.self, p, x)
  PROVE  StandsFor(r, p) = x
<1>1. CASE ~IsIndex(p)
  BY <1>1, ImmutableLeads DEF StandsFor
<1>2. CASE IsIndex(p)
  <2> DEFINE y == r.table[p[2]]
  <2>1. /\ x \in Objects
        /\ r.table[p[2]] = x \/ (r.table[p[2]] \in DOMAIN r.self /\ r.table[p[2]].id = Home(x))
    BY <1>2, IndexLeads
  <2>2. y = x \/ (y \in DOMAIN r.self /\ y.id = Home(x))
    BY <2>1
  <2> HIDE DEF y
  <2>3. CASE y = x
    <3>1. ~IsProxy(y)
      BY <2>1, <2>3 DEF IsProxy
    <3>2. QED
      BY <1>2, <2>3, <3>1 DEF y, StandsFor
  <2>4. CASE y # x
    <3>1. y \in DOMAIN r.self /\ y.id = Home(x)
      BY <2>2, <2>4
    <3>2. y \notin Objects
      BY <3>1, ProxyKnown DEF Reads
    <3>3. y.id.actor = Owner[x] /\ y.id.index = Place[x]
      BY <3>1 DEF Home, Id
    <3>4. table[Owner[x]][Place[x]] = x
      <4>1. Owner[x] \in Actors /\ x \in OwnObjects(Owner[x])
        BY <2>1, HomeOk
      <4>2. QED
        BY <4>1 DEF MemoryOk, TableOk
    <3>5. QED
      BY <1>2, <3>2, <3>3, <3>4 DEF y, IsProxy, StandsFor
  <2>5. QED
    BY <2>3, <2>4
<1>3. QED
  BY <1>1, <1>2

LEMMA InvariantRoundTrip == IInv => RoundTrip
<1> SUFFICES ASSUME IInv, NEW a \in Actors, queue[a] # << >>
             PROVE  LET m == Head(queue[a])
                        r == Received(a)
                        result == m.meaning.type = "OBJ_REF_RESULT"
                        denoted(i) == IF result /\ i = 2 THEN table[r.out[i].actor][r.out[i].index]
                                      ELSE IF ~IsIndex(r.out[i]) THEN r.out[i]
                                      ELSE LET x == r.table[r.out[i][2]]
                                           IN  IF IsProxy(x) THEN table[x.id.actor][x.id.index] ELSE x
                    IN  /\ r.fields = << >>
                        /\ m.meaning.objects = [i \in 1 .. Len(r.out) |-> denoted(i)]
  BY Zenon DEF RoundTrip
<1> DEFINE m == Head(queue[a])
           r == Received(a)
           type == m.meaning.type
           xs == m.meaning.objects
           out == r.out
           denoted(i) == IF type = "OBJ_REF_RESULT" /\ i = 2 THEN table[out[i].actor][out[i].index]
                         ELSE StandsFor(r, out[i])
<1>1. Decoding(a, m)
  <2> DEFINE q == queue[a]
  <2>1. MemoryOk(a) /\ QueueOk(a, q) /\ IsSeq(q) /\ q # << >>
    BY DEF IInv, ActorOk, QueueOk
  <2>2. m = Head(q)
    OBVIOUS
  <2> HIDE DEF q, m
  <2>3. 1 \in DOMAIN q /\ m = q[1]
    <3>1. DOMAIN q = 1 .. Len(q) /\ Len(q) \in Nat /\ Len(q) >= 1 /\ Head(q) = q[1]
      BY <2>1, Measured, Tailed
    <3>2. QED
      BY <2>2, <3>1
  <2>4. Formed(m)
    BY <2>1, <2>3 DEF QueueOk, Message
  <2>5. QED
    BY <2>1, <2>4, AlwaysDecoded
<1>2. /\ Reads(a, r) /\ r.fields = << >> /\ Exact(r, type, xs) /\ IsSeq(out)
  BY <1>1 DEF Decoding, Received, Reads
<1>3. \A b \in Actors : MemoryOk(b)
  BY DEF IInv, ActorOk
<1> HIDE DEF m, r, type, xs
<1> DEFINE n == Len(out)
<1>4. DOMAIN out = 1 .. n /\ n \in Nat /\ DOMAIN xs = DOMAIN out /\ IsSeq(xs)
  BY <1>2, Measured DEF Exact
<1> HIDE DEF n
<1>5. ASSUME NEW i \in 1 .. n, ~(type = "OBJ_REF_RESULT" /\ i = 2) PROVE denoted(i) = xs[i]
  <2>1. Leads(r.table, r.self, out[i], xs[i])
    <3>1. CASE type # "OBJ_REF_RESULT"
      BY <1>2, <1>4, <3>1 DEF Exact
    <3>2. CASE type = "OBJ_REF_RESULT"
      <4> DEFINE w == <<xs[1], xs[2]>>
      <4>1. xs = w /\ Leads(r.table, r.self, out[1], xs[1])
        BY <1>2, <3>2 DEF Exact
      <4>2. IsSeq(w) /\ Len(w) = 2
        BY Pair
      <4> HIDE DEF w
      <4>3. DOMAIN w = 1 .. 2
        BY <4>2, Measured
      <4>4. i \in 1 .. 2
        BY <1>4, <4>1, <4>3
      <4>5. i = 1
        BY <1>5, <3>2, <4>4
      <4>6. QED
        BY <4>1, <4>5
    <3>3. QED
      BY <3>1, <3>2
  <2>2. denoted(i) = StandsFor(r, out[i])
    BY <1>5, Zenon
  <2> HIDE DEF denoted, out
  <2>3. StandsFor(r, out[i]) = xs[i]
    BY <1>2, <1>3, <2>1, DecodedDenotes
  <2>4. QED
    BY <2>2, <2>3
<1>6. ASSUME type = "OBJ_REF_RESULT", 2 \in 1 .. n PROVE denoted(2) = xs[2]
  <2>1. xs[2] \in Objects /\ out[2] = Home(xs[2])
    BY <1>2, <1>6 DEF Exact
  <2> DEFINE f == xs[2]
  <2> HIDE DEF f
  <2>2. f \in Objects /\ Owner[f] \in Actors /\ f \in OwnObjects(Owner[f])
    <3>1. f \in Objects
      BY <2>1 DEF f
    <3>2. QED
      BY <3>1, HomeOk
  <2>3. table[Owner[f]][Place[f]] = f
    BY <1>3, <2>2 DEF MemoryOk, TableOk
  <2>4. out[2].actor = Owner[f] /\ out[2].index = Place[f]
    BY <2>1 DEF Home, Id, f
  <2>5. QED
    BY <1>6, <2>3, <2>4 DEF f
<1>7. xs = [i \in 1 .. n |-> denoted(i)]
  <2>1. \A i \in 1 .. n : denoted(i) = xs[i]
    BY <1>5, <1>6, Zenon
  <2> HIDE DEF denoted
  <2>2. xs = [i \in 1 .. Len(xs) |-> xs[i]] /\ DOMAIN xs = 1 .. Len(xs)
    BY <1>4, Measured
  <2>3. xs = [i \in 1 .. n |-> xs[i]]
    BY <1>4, <2>2
  <2>4. QED
    BY <2>1, <2>3
<1>8. QED
  BY <1>2, <1>7, Zenon DEF n, m, r, type, xs, StandsFor

LEMMA InvariantSizes == IInv => SizesAgree
<1> SUFFICES ASSUME IInv, NEW a \in Actors, NEW i \in DOMAIN queue[a]
             PROVE  LET m == queue[a][i]
                        written == Total([j \in DOMAIN m.fields |-> m.fields[j].bytes])
                        words == (m.size + 3) \div 4
                    IN  /\ written = m.size
                        /\ written <= 4 * words /\ 4 * words <= 4 * (m.size \div 4 + 1)
  BY DEF SizesAgree
<1> DEFINE m == queue[a][i]
           n == m.size
           written == Total([j \in DOMAIN m.fields |-> m.fields[j].bytes])
<1>1. Message(m)
  BY DEF IInv, ActorOk, QueueOk
<1>2. written = n /\ n \in Nat
  BY <1>1, SizedNat DEF Message, Sized, Bytes
<1> HIDE DEF n, written
<1>3. n <= 4 * ((n + 3) \div 4) /\ 4 * ((n + 3) \div 4) <= 4 * (n \div 4 + 1)
  BY <1>2
<1>4. QED
  BY <1>2, <1>3 DEF n, written

LEMMA InvariantResults == IInv => ResultsFindActivation
<1> SUFFICES ASSUME IInv, NothingLost PROVE ResultsFindActivation
  BY DEF ResultsFindActivation
<1>1. AllBorne /\ \A a \in Actors : ended[a] # "no activation"
  BY DEF IInv, NoneUnknown
<1> DEFINE inQueue(f, b) == {i \in DOMAIN queue[b] :
                               /\ queue[b][i].meaning.type \in {"SOM_WITH_RESULT", "OBJ_REF_RESULT"}
                               /\ Last(queue[b][i].meaning.objects) = f}
           atHand(f, b) == {p \in pending[b] : Denotes(b, p, table) = f}
           Q(f) == UNION {{<<b, i>> : i \in inQueue(f, b)} : b \in Actors}
           H(f) == UNION {{<<b, p>> : p \in atHand(f, b)} : b \in Actors}
<1>2. ASSUME NEW a \in Actors, NEW id \in waiting[a]
      PROVE  Cardinality(Q(table[a][id.index])) + Cardinality(H(table[a][id.index])) = 1
  <2>1. PICK f \in Frames : Owner[f] = a /\ id = Home(f)
    BY DEF IInv, ActorOk, WaitingOk
  <2>2. f \in Objects /\ f \in OwnObjects(a) /\ f \in Frames
    BY <2>1, SerializationAssumption DEF OwnObjects
  <2>3. table[a][id.index] = f
    <3>1. TableOk(a, table[a])
      BY DEF IInv, ActorOk, MemoryOk
    <3>2. id.index = Place[f]
      BY <2>1 DEF Home, Id
    <3>3. QED
      BY <2>2, <3>1, <3>2 DEF TableOk
  <2>4. Borne(queue, table, self, pending, waiting, f)
    BY <1>1, <2>2 DEF AllBorne
  <2>5. \A b, i : OnItsWay(queue, f, b, i) <=> b \in Actors /\ i \in inQueue(f, b)
    BY DEF OnItsWay, Bears
  <2>6. \A b, p : AtHand(table, self, pending, f, b, p) <=> b \in Actors /\ p \in atHand(f, b)
    <3> SUFFICES ASSUME NEW b \in Actors, NEW p \in pending[b]
                 PROVE  Leads(table[b], self[b], p, f) <=> Denotes(b, p, table) = f
      BY DEF AtHand
    <3>1. PICK g \in Objects : Leads(table[b], self[b], p, g)
      BY DEF IInv, ActorOk, AnswersOk
    <3>2. \A c \in Actors : MemoryOk(c)
      BY DEF IInv, ActorOk
    <3>3. Denotes(b, p, table) = g
      BY <3>1, <3>2, Denoted
    <3>4. Leads(table[b], self[b], p, f) => Denotes(b, p, table) = f
      BY <3>2, Denoted
    <3>5. QED
      BY <3>1, <3>3, <3>4
  <2> HIDE DEF inQueue, atHand
  <2>7. \A z : z \in Q(f) <=> \E b, i : OnItsWay(queue, f, b, i) /\ z = <<b, i>>
    BY <2>5
  <2>8. \A z : z \in H(f) <=> \E b, p : AtHand(table, self, pending, f, b, p) /\ z = <<b, p>>
    BY <2>6
  <2> HIDE DEF Q, H
  <2>9. Home(f) \in waiting[Owner[f]]
    BY <2>1
  <2>10. CASE \E b, i : OnItsWay(queue, f, b, i)
    <3>1. PICK b, i : OnItsWay(queue, f, b, i)
      BY <2>10
    <3>2. H(f) = {}
      BY <2>4, <2>8, <3>1 DEF Borne
    <3>3. Q(f) = {<<b, i>>}
      <4>1. <<b, i>> \in Q(f)
        BY <2>7, <3>1
      <4>2. \A z \in Q(f) : z = <<b, i>>
        BY <2>4, <2>7, <3>1 DEF Borne
      <4>3. QED
        BY <4>1, <4>2
    <3>4. Cardinality(Q(f)) = 1 /\ Cardinality(H(f)) = 0
      BY <3>2, <3>3, FS_Singleton, FS_EmptySet
    <3>5. QED
      BY <2>3, <3>4
  <2>11. CASE \E b, p : AtHand(table, self, pending, f, b, p)
    <3>1. PICK b, p : AtHand(table, self, pending, f, b, p)
      BY <2>11
    <3>2. Q(f) = {}
      BY <2>4, <2>7, <3>1 DEF Borne
    <3>3. H(f) = {<<b, p>>}
      <4>1. <<b, p>> \in H(f)
        BY <2>8, <3>1
      <4>2. \A z \in H(f) : z = <<b, p>>
        BY <2>4, <2>8, <3>1 DEF Borne
      <4>3. QED
        BY <4>1, <4>2
    <3>4. Cardinality(H(f)) = 1 /\ Cardinality(Q(f)) = 0
      BY <3>2, <3>3, FS_Singleton, FS_EmptySet
    <3>5. QED
      BY <2>3, <3>4
  <2>12. QED
    BY <2>4, <2>9, <2>10, <2>11 DEF Borne
<1>3. QED
  BY <1>1, <1>2 DEF ResultsFindActivation

\* Every pointer and proxy is in the table of its actor (TypeOK of Serialization).
THEOREM SerializationTypeCorrect == Spec => []TypeOK
<1>1. IInv => TypeOK
  BY InvariantTypes
<1>2. QED
  BY <1>1, InvariantHolds, PTL

\* A message is decoded to the objects it was sent with, to its end, and takes
\* the bytes that GetSize counted, whatever was sent before, collected since, and
\* taken for an object that was collected too early.
THEOREM MessagesAlwaysExact == Spec => []MessagesExact
<1>1. IInv => MessagesExact
  BY InvariantRoundTrip, InvariantSizes DEF MessagesExact
<1>2. QED
  BY <1>1, InvariantHolds, PTL

\* A result names a frame that waits, and every frame that waits is named by one
\* message or one activation: no answer is lost, and none comes twice, until a
\* collection frees what a parked coroutine refers to (GarbageCollector.cpp:144-168).
THEOREM ResultsAlwaysFind == Spec => []ResultsFindActivation
<1>1. IInv => ResultsFindActivation
  BY InvariantResults
<1>2. QED
  BY <1>1, InvariantHolds, PTL

-----------------------------------------------------------------------------
(* The tracking of references, for every set of objects and every program.  *)

Messages == [type : MessageTypes, obj : Objects, actor : Actors]

\* A message is one of the messages of the module if its fields are.
LEMMA MsgType ==
  ASSUME NEW type \in MessageTypes, NEW o \in Objects, NEW a \in Actors
  PROVE  Msg(type, o, a) \in Messages
BY DEF Msg, Messages

\* SetToSeq of a finite set is a sequence of its elements.
LEMMA SetToSeqIsSeq ==
  ASSUME NEW S, IsFiniteSet(S)
  PROVE  SetToSeq(S) \in Seq(S)
<1>1. Cardinality(S) \in Nat /\ ExistsBijection(1..Cardinality(S), S)
  BY FS_CardinalityType
<1>2. \E f \in [1..Cardinality(S) -> S] : IsInjective(f)
  BY <1>1 DEF ExistsBijection, Bijection, Injection
<1>3. SetToSeq(S) \in [1..Cardinality(S) -> S]
  BY <1>2 DEF SetToSeq
<1>4. QED
  BY <1>1, <1>3

\* What is in a queue after messages were added was there before or was added.
LEMMA DeliverAdds ==
  ASSUME NEW q \in Seq(Messages), NEW more \in Seq(Messages)
  PROVE  /\ q \o more \in Seq(Messages)
         /\ \A i \in DOMAIN (q \o more) :
              \/ \E j \in DOMAIN q : (q \o more)[i] = q[j]
              \/ \E j \in DOMAIN more : (q \o more)[i] = more[j]
<1>1. /\ q \o more \in Seq(Messages)
      /\ Len(q \o more) = Len(q) + Len(more)
      /\ \A i \in 1..(Len(q) + Len(more)) :
           (q \o more)[i] = IF i <= Len(q) THEN q[i] ELSE more[i - Len(q)]
  BY ConcatProperties
<1>2. QED
  BY <1>1

\* A queue changes as Deliver says: its old messages and the new ones.
LEMMA DeliverType ==
  ASSUME ReferencesTypeOK, NEW new \in [Actors -> Seq(Messages)], Enqueue(new)
  PROVE  /\ inbox' \in [Actors -> Seq(Messages)]
         /\ \A b \in Actors : \A i \in DOMAIN inbox'[b] :
              \/ \E j \in DOMAIN inbox[b] : inbox'[b][i] = inbox[b][j]
              \/ \E j \in DOMAIN new[b] : inbox'[b][i] = new[b][j]
<1>1. \A b \in Actors : inbox[b] \in Seq(Messages) /\ new[b] \in Seq(Messages)
  BY DEF ReferencesTypeOK, Messages
<1>2. \A b \in Actors : inbox'[b] = inbox[b] \o new[b]
  BY DEF Enqueue
<1>3. \A b \in Actors : inbox'[b] \in Seq(Messages)
  BY <1>1, <1>2, DeliverAdds
<1>4. inbox' \in [Actors -> Seq(Messages)]
  BY <1>3 DEF Enqueue
<1>5. ASSUME NEW b \in Actors, NEW i \in DOMAIN inbox'[b]
      PROVE  \/ \E j \in DOMAIN inbox[b] : inbox'[b][i] = inbox[b][j]
             \/ \E j \in DOMAIN new[b] : inbox'[b][i] = new[b][j]
  <2>1. inbox[b] \in Seq(Messages) /\ new[b] \in Seq(Messages) /\ inbox'[b] = inbox[b] \o new[b]
    BY <1>1, <1>2
  <2>2. \A k \in DOMAIN (inbox[b] \o new[b]) :
          \/ \E j \in DOMAIN inbox[b] : (inbox[b] \o new[b])[k] = inbox[b][j]
          \/ \E j \in DOMAIN new[b] : (inbox[b] \o new[b])[k] = new[b][j]
    BY <2>1, DeliverAdds
  <2>3. QED
    BY <2>1, <2>2, Zenon
<1>6. QED
  BY <1>4, <1>5

\* What a send adds to the queues.
SentBySend(a, o, b) ==
  [c \in Actors |-> (IF c = Owner[o] THEN ObjectNotices(a, o, b) ELSE << >>)
                      \o (IF c = b THEN <<Msg("OBJ", o, a)>> ELSE << >>)]
SentByReturn(a, o) ==
  [c \in Actors |-> IF c = Owner[o]
                      THEN IdNotices(a, o, c) \o <<Msg("RESULT", o, a)>> ELSE << >>]
Unlinked(a, c) == SetToSeq({o \in exists[a] \ running[a] : Owner[o] = c /\ c # a})
SentByCollect(a) ==
  [c \in Actors |-> [i \in DOMAIN Unlinked(a, c) |-> Msg("UNLINK_REF", Unlinked(a, c)[i], a)]]

\* A notification of a send and the reference itself; only the second is an OBJ,
\* and only the receiver gets it.
LEMMA SentBySendType ==
  ASSUME NEW a \in Actors, NEW o \in Objects, NEW b \in Actors
  PROVE  /\ SentBySend(a, o, b) \in [Actors -> Seq(Messages)]
         /\ \A c \in Actors : \A j \in DOMAIN SentBySend(a, o, b)[c] :
              SentBySend(a, o, b)[c][j].type = "OBJ"
                => c = b /\ SentBySend(a, o, b)[c][j].obj = o
<1> DEFINE notices(c) == IF c = Owner[o] THEN ObjectNotices(a, o, b) ELSE << >>
           object(c) == IF c = b THEN <<Msg("OBJ", o, a)>> ELSE << >>
<1>1. Msg("OBJ", o, a) \in Messages /\ Msg("NEW_REF", o, b) \in Messages
  BY MsgType DEF MessageTypes
<1>2. ASSUME NEW c \in Actors
      PROVE  /\ notices(c) \in Seq(Messages) /\ object(c) \in Seq(Messages)
             /\ \A j \in DOMAIN notices(c) : notices(c)[j].type = "NEW_REF"
             /\ \A j \in DOMAIN object(c) : c = b /\ object(c)[j].obj = o
  BY <1>1 DEF ObjectNotices, Msg
<1>3. ASSUME NEW c \in Actors
      PROVE  /\ notices(c) \o object(c) \in Seq(Messages)
             /\ \A j \in DOMAIN (notices(c) \o object(c)) :
                  \/ \E k \in DOMAIN notices(c) : (notices(c) \o object(c))[j] = notices(c)[k]
                  \/ \E k \in DOMAIN object(c) : (notices(c) \o object(c))[j] = object(c)[k]
  <2>1. notices(c) \in Seq(Messages) /\ object(c) \in Seq(Messages)
    BY <1>2
  <2> HIDE DEF notices, object
  <2>2. QED
    BY <2>1, DeliverAdds
<1>4. \A c \in Actors : SentBySend(a, o, b)[c] = notices(c) \o object(c)
  BY DEF SentBySend
<1>5. SentBySend(a, o, b) = [c \in Actors |-> notices(c) \o object(c)]
  BY DEF SentBySend
<1> HIDE DEF notices, object
<1>6. SentBySend(a, o, b) \in [Actors -> Seq(Messages)]
  BY <1>3, <1>5
<1>7. ASSUME NEW c \in Actors, NEW j \in DOMAIN SentBySend(a, o, b)[c],
             SentBySend(a, o, b)[c][j].type = "OBJ"
      PROVE  c = b /\ SentBySend(a, o, b)[c][j].obj = o
  <2>1. \/ \E k \in DOMAIN notices(c) : SentBySend(a, o, b)[c][j] = notices(c)[k]
        \/ \E k \in DOMAIN object(c) : SentBySend(a, o, b)[c][j] = object(c)[k]
    <3>1. SentBySend(a, o, b)[c] = notices(c) \o object(c)
      BY <1>4
    <3>2. \A l \in DOMAIN (notices(c) \o object(c)) :
            \/ \E k \in DOMAIN notices(c) : (notices(c) \o object(c))[l] = notices(c)[k]
            \/ \E k \in DOMAIN object(c) : (notices(c) \o object(c))[l] = object(c)[k]
      BY <1>3
    <3>3. QED
      BY <3>1, <3>2, <1>7, Zenon
  <2>2. QED
    BY <2>1, <1>2, <1>7
<1>8. QED
  BY <1>6, <1>7

LEMMA SentByReturnType ==
  ASSUME NEW a \in Actors, NEW o \in Objects
  PROVE  /\ SentByReturn(a, o) \in [Actors -> Seq(Messages)]
         /\ \A c \in Actors : \A j \in DOMAIN SentByReturn(a, o)[c] :
              SentByReturn(a, o)[c][j].type # "OBJ"
<1>1. Msg("RESULT", o, a) \in Messages /\ \A c \in Actors : Msg("NEW_REF", o, c) \in Messages
  BY MsgType DEF MessageTypes
<1>2. ASSUME NEW c \in Actors
      PROVE  /\ SentByReturn(a, o)[c] \in Seq(Messages)
             /\ \A j \in DOMAIN SentByReturn(a, o)[c] : SentByReturn(a, o)[c][j].type # "OBJ"
  BY <1>1 DEF SentByReturn, IdNotices, Msg
<1>3. QED
  BY <1>2 DEF SentByReturn

LEMMA SentByCollectType ==
  ASSUME ReferencesTypeOK, NEW a \in Actors
  PROVE  /\ SentByCollect(a) \in [Actors -> Seq(Messages)]
         /\ \A c \in Actors : \A j \in DOMAIN SentByCollect(a)[c] :
              SentByCollect(a)[c][j].type # "OBJ"
<1>1. ASSUME NEW c \in Actors
      PROVE  /\ SentByCollect(a)[c] \in Seq(Messages)
             /\ \A j \in DOMAIN SentByCollect(a)[c] : SentByCollect(a)[c][j].type # "OBJ"
  <2> DEFINE S == {o \in exists[a] \ running[a] : Owner[o] = c /\ c # a}
             u == Unlinked(a, c)
  <2>1. S \in SUBSET Objects
    BY DEF ReferencesTypeOK
  <2>2. IsFiniteSet(S)
    BY <2>1, OwnersAssumption, FS_Subset
  <2>3. u \in Seq(Objects)
    <3>1. u \in Seq(S)
      BY <2>2, SetToSeqIsSeq DEF Unlinked
    <3> HIDE DEF S, u
    <3>2. QED
      BY <3>1, <2>1, SeqMonotonic
  <2>4. \A i \in DOMAIN u : u[i] \in Objects
    <3> HIDE DEF u
    <3>1. QED
      BY <2>3
  <2>5. SentByCollect(a)[c] = [i \in DOMAIN u |-> Msg("UNLINK_REF", u[i], a)]
    BY DEF SentByCollect
  <2> HIDE DEF u
  <2>6. \A i \in DOMAIN u : Msg("UNLINK_REF", u[i], a) \in Messages
    BY <2>4, MsgType DEF MessageTypes
  <2>7. [i \in DOMAIN u |-> Msg("UNLINK_REF", u[i], a)] \in Seq(Messages)
    BY <2>3, <2>6
  <2>8. QED
    BY <2>5, <2>7 DEF Msg
<1>2. QED
  BY <1>1 DEF SentByCollect

-----------------------------------------------------------------------------
(* The invariant: types, and every reference abroad is registered, whether   *)
(* or not the owner's process is still there.                                *)

Registrations == \A o \in Objects : \A b \in Actors : Abroad(o, b) => b \in external[o]

\* NUMBER_OF_ACTORS is 2 (actors.h:16): a reference that is passed on goes home.
TwoActors == \A x, y, z \in Actors : x = y \/ y = z \/ x = z

\* A step that adds to the queues what it sends, and only takes references away
\* from heaps, keeps Registrations if the references it sends are registered.
LEMMA SendingKeepsRegistrations ==
  ASSUME ReferencesTypeOK, Registrations, NEW new \in [Actors -> Seq(Messages)], Enqueue(new),
         \A c \in Actors : exists'[c] \subseteq exists[c],
         \A o \in Objects : external[o] \subseteq external'[o],
         \A c \in Actors : \A j \in DOMAIN new[c] :
           new[c][j].type = "OBJ" =>
             c = Owner[new[c][j].obj] \/ c \in external'[new[c][j].obj]
  PROVE  Registrations'
<1> SUFFICES ASSUME NEW o \in Objects, NEW b \in Actors, Abroad(o, b)'
             PROVE  b \in external'[o]
  BY DEF Registrations
<1>1. b # Owner[o]
  BY DEF Abroad
<1>2. CASE o \in exists'[b]
  BY <1>1, <1>2 DEF Registrations, Abroad
<1>3. ASSUME NEW i \in DOMAIN inbox'[b], inbox'[b][i].type = "OBJ", inbox'[b][i].obj = o
      PROVE  b \in external'[o]
  <2>1. \/ \E j \in DOMAIN inbox[b] : inbox'[b][i] = inbox[b][j]
        \/ \E j \in DOMAIN new[b] : inbox'[b][i] = new[b][j]
    BY DeliverType
  <2>2. CASE \E j \in DOMAIN inbox[b] : inbox'[b][i] = inbox[b][j]
    BY <2>2, <1>1, <1>3 DEF Registrations, Abroad
  <2>3. CASE \E j \in DOMAIN new[b] : inbox'[b][i] = new[b][j]
    BY <2>3, <1>1, <1>3
  <2>4. QED
    BY <2>1, <2>2, <2>3
<1>4. QED
  BY <1>2, <1>3 DEF Abroad

LEMMA InitRefs == ReferencesInit => ReferencesTypeOK /\ Registrations
<1> SUFFICES ASSUME ReferencesInit PROVE ReferencesTypeOK /\ Registrations
  OBVIOUS
<1>1. ReferencesTypeOK
  BY MaxOpsAssumption DEF ReferencesInit, OwnObjects, ReferencesTypeOK
<1>2. Registrations
  BY DEF ReferencesInit, OwnObjects, Registrations, Abroad
<1>3. QED
  BY <1>1, <1>2

\* A send.  An owner registers the receiver; who sends a proxy sends it to its
\* owner or to itself.
LEMMA SendKeepsReferences ==
  ASSUME ReferencesTypeOK, NEW a \in Actors, NEW o \in Objects, NEW b \in Actors, Send(a, o, b)
  PROVE  /\ ReferencesTypeOK'
         /\ TwoActors /\ Registrations => Registrations'
<1>1. SentBySend(a, o, b) \in [Actors -> Seq(Messages)] /\ Enqueue(SentBySend(a, o, b))
  <2>1. Enqueue(SentBySend(a, o, b))
    BY Zenon DEF Send, SentBySend
  <2>2. QED
    BY <2>1, SentBySendType
<1>2. inbox' \in [Actors -> Seq(Messages)]
  BY <1>1, DeliverType
<1>3. Registered(a, o, b) \in SUBSET Actors /\ external[o] \subseteq Registered(a, o, b)
  BY DEF Registered, ReferencesTypeOK
<1>4. external' \in [Objects -> SUBSET Actors] /\ external'[o] = Registered(a, o, b)
      /\ \A u \in Objects : external[u] \subseteq external'[u]
  BY <1>3 DEF Send, ReferencesTypeOK
<1>5. ReferencesTypeOK'
  <2>1. ops' \in 0..MaxOps
    BY MaxOpsAssumption DEF Send, ReferencesTypeOK
  <2>2. UNCHANGED <<running, parked, exists, crashed>>
    BY DEF Send
  <2>3. QED
    BY <1>2, <1>4, <2>1, <2>2 DEF ReferencesTypeOK, Messages
<1>6. ASSUME TwoActors, Registrations PROVE Registrations'
  <2>1. b = Owner[o] \/ b \in external'[o]
    <3>1. Owner[o] \in Actors
      BY OwnersAssumption
    <3>2. CASE Owner[o] = a
      BY <3>2, <1>4 DEF Registered, IsImmutable
    <3>3. CASE Owner[o] # a /\ b = a
      BY <3>3, <1>4, <1>6 DEF Registrations, Abroad, Send
    <3>4. CASE Owner[o] # a /\ b # a
      BY <3>1, <3>4, <1>6 DEF TwoActors
    <3>5. QED
      BY <3>2, <3>3, <3>4
  <2>2. \A c \in Actors : \A j \in DOMAIN SentBySend(a, o, b)[c] :
          SentBySend(a, o, b)[c][j].type = "OBJ" =>
            \/ c = Owner[SentBySend(a, o, b)[c][j].obj]
            \/ c \in external'[SentBySend(a, o, b)[c][j].obj]
    BY <2>1, SentBySendType
  <2>3. \A c \in Actors : exists'[c] \subseteq exists[c]
    BY DEF Send
  <2>4. QED
    BY <1>1, <1>4, <1>6, <2>2, <2>3, SendingKeepsRegistrations
<1>7. QED
  BY <1>5, <1>6

LEMMA ReturnKeepsReferences ==
  ASSUME ReferencesTypeOK, NEW a \in Actors, NEW o \in Objects, Return(a, o)
  PROVE  ReferencesTypeOK' /\ (Registrations => Registrations')
<1>1. SentByReturn(a, o) \in [Actors -> Seq(Messages)] /\ Enqueue(SentByReturn(a, o))
  BY SentByReturnType DEF Return, SentByReturn
<1>2. inbox' \in [Actors -> Seq(Messages)]
  BY <1>1, DeliverType
<1>3. ReferencesTypeOK'
  <2>1. ops' \in 0..MaxOps
    BY MaxOpsAssumption DEF Return, ReferencesTypeOK
  <2>2. UNCHANGED <<running, parked, exists, external, crashed>>
    BY DEF Return
  <2>3. QED
    BY <1>2, <2>1, <2>2 DEF ReferencesTypeOK, Messages
<1>4. ASSUME Registrations PROVE Registrations'
  <2>1. /\ \A c \in Actors : exists'[c] \subseteq exists[c]
        /\ \A u \in Objects : external[u] \subseteq external'[u]
    BY DEF Return
  <2>2. QED
    BY <1>1, <1>4, <2>1, SentByReturnType, SendingKeepsRegistrations
<1>5. QED
  BY <1>3, <1>4

LEMMA CollectKeepsReferences ==
  ASSUME ReferencesTypeOK, NEW a \in Actors, CollectReferences(a)
  PROVE  ReferencesTypeOK' /\ (Registrations => Registrations')
<1>1. SentByCollect(a) \in [Actors -> Seq(Messages)] /\ Enqueue(SentByCollect(a))
  BY SentByCollectType DEF CollectReferences, SentByCollect, Unlinked
<1>2. inbox' \in [Actors -> Seq(Messages)]
  BY <1>1, DeliverType
<1>3. /\ exists' \in [Actors -> SUBSET Objects]
      /\ \A c \in Actors : exists'[c] \subseteq exists[c]
  BY DEF CollectReferences, ReferencesTypeOK
<1>4. ReferencesTypeOK'
  BY <1>2, <1>3 DEF CollectReferences, ReferencesTypeOK, Messages
<1>5. ASSUME Registrations PROVE Registrations'
  <2>1. \A u \in Objects : external[u] \subseteq external'[u]
    BY DEF CollectReferences
  <2>2. QED
    BY <1>1, <1>3, <1>5, <2>1, SentByCollectType, SendingKeepsRegistrations
<1>6. QED
  BY <1>4, <1>5

\* A reference that is received moves from the queue to the heap.
LEMMA ReceiveKeepsReferences ==
  ASSUME ReferencesTypeOK, NEW b \in Actors, ReceiveReference(b)
  PROVE  ReferencesTypeOK' /\ (Registrations => Registrations')
<1> DEFINE m == Head(inbox[b])
<1>1. inbox[b] \in Seq(Messages) /\ inbox[b] # << >>
  BY DEF ReferencesTypeOK, Messages, ReceiveReference
<1>2. /\ m \in Messages /\ m = inbox[b][1] /\ 1 \in DOMAIN inbox[b]
      /\ Tail(inbox[b]) \in Seq(Messages)
      /\ \A i \in DOMAIN Tail(inbox[b]) :
           i + 1 \in DOMAIN inbox[b] /\ Tail(inbox[b])[i] = inbox[b][i + 1]
  BY <1>1
<1>3. inbox' = [inbox EXCEPT ![b] = Tail(@)]
  BY DEF ReceiveReference
<1>4. m.obj \in Objects
  BY <1>2 DEF Messages
<1>5. /\ UNCHANGED <<running, external, ops>>
      /\ \/ m.type # "OBJ" /\ exists' = exists /\ parked' = parked
                           /\ crashed' \in {crashed, crashed \cup {b}}
         \/ m.type = "OBJ" /\ ProcessObject(b, m)
  BY DEF ReceiveReference, Decoded
<1> HIDE DEF m
<1>6. ReferencesTypeOK'
  <2>1. inbox' \in [Actors -> Seq(Messages)]
    BY <1>2, <1>3 DEF ReferencesTypeOK, Messages
  <2>2. /\ parked' \in [Actors -> SUBSET Objects]
        /\ exists' \in [Actors -> SUBSET Objects]
        /\ crashed' \subseteq Actors
    <3>1. CASE m.type # "OBJ"
      BY <3>1, <1>5 DEF ReferencesTypeOK, ProcessObject
    <3>2. CASE m.type = "OBJ"
      <4>1. /\ parked' = [parked EXCEPT ![b] = @ \cup {m.obj}]
            /\ exists' = [exists EXCEPT ![b] = IF Owner[m.obj] = b THEN @ ELSE @ \cup {m.obj}]
            /\ crashed' = crashed
        BY <3>2, <1>5 DEF ProcessObject
      <4>2. /\ parked[b] \cup {m.obj} \in SUBSET Objects
            /\ exists[b] \in SUBSET Objects
            /\ exists[b] \cup {m.obj} \in SUBSET Objects
        BY <1>4 DEF ReferencesTypeOK
      <4>3. QED
        BY <4>1, <4>2 DEF ReferencesTypeOK
    <3>3. QED
      BY <3>1, <3>2
  <2>3. QED
    BY <2>1, <2>2, <1>5 DEF ReferencesTypeOK, Messages
<1>7. ASSUME Registrations PROVE Registrations'
  <2> SUFFICES ASSUME NEW o \in Objects, NEW c \in Actors, Abroad(o, c)'
               PROVE  Abroad(o, c)
    BY <1>5, <1>7 DEF Registrations
  <2>1. c # Owner[o]
    BY DEF Abroad
  <2>2. CASE o \in exists'[c]
    <3>1. CASE o \in exists[c]
      BY <3>1, <2>1 DEF Abroad
    <3>2. CASE o \notin exists[c]
      <4>1. m.type = "OBJ" /\ c = b /\ m.obj = o
        BY <3>2, <2>2, <1>5 DEF ProcessObject, ReferencesTypeOK
      <4>2. QED
        BY <4>1, <2>1, <1>2 DEF Abroad
    <3>3. QED
      BY <3>1, <3>2
  <2>3. ASSUME NEW i \in DOMAIN inbox'[c], inbox'[c][i].type = "OBJ", inbox'[c][i].obj = o
        PROVE  Abroad(o, c)
    <3>1. CASE c = b
      BY <3>1, <2>1, <2>3, <1>2, <1>3 DEF Abroad, ReferencesTypeOK
    <3>2. CASE c # b
      BY <3>2, <2>1, <2>3, <1>3 DEF Abroad, ReferencesTypeOK
    <3>3. QED
      BY <3>1, <3>2
  <2>4. QED
    BY <2>2, <2>3 DEF Abroad
<1>8. QED
  BY <1>6, <1>7

\* Switching and forgetting move references within the program.
LEMMA ProgramKeepsReferences ==
  ASSUME ReferencesTypeOK, NEW a \in Actors, Switch(a) \/ \E o \in Objects : Forget(a, o)
  PROVE  ReferencesTypeOK' /\ (Registrations => Registrations')
<1>1. ReferencesTypeOK'
  <2>1. running' \in [Actors -> SUBSET Objects] /\ parked' \in [Actors -> SUBSET Objects]
    <3>1. CASE Switch(a)
      <4>1. PICK now \in SUBSET parked[a] : \E shared \in SUBSET now :
              /\ running' = [running EXCEPT ![a] = now]
              /\ parked' = [parked EXCEPT ![a] = (@ \ now) \cup shared \cup running[a]]
        BY <3>1 DEF Switch
      <4>2. PICK shared \in SUBSET now :
              /\ running' = [running EXCEPT ![a] = now]
              /\ parked' = [parked EXCEPT ![a] = (@ \ now) \cup shared \cup running[a]]
        BY <4>1
      <4>3. parked[a] \subseteq Objects /\ running[a] \subseteq Objects
        BY DEF ReferencesTypeOK
      <4>4. now \subseteq Objects /\ (parked[a] \ now) \cup shared \cup running[a] \subseteq Objects
        BY <4>3
      <4>5. QED
        BY <4>2, <4>4 DEF ReferencesTypeOK
    <3>2. CASE \E o \in Objects : Forget(a, o)
      BY <3>2 DEF ReferencesTypeOK, Forget
    <3>3. QED
      BY <3>1, <3>2
  <2>2. UNCHANGED <<inbox, exists, external, crashed, ops>>
    BY DEF Switch, Forget
  <2>3. QED
    BY <2>1, <2>2 DEF ReferencesTypeOK
<1>2. UNCHANGED <<inbox, exists, external>>
  BY DEF Switch, Forget
<1>3. QED
  BY <1>1, <1>2 DEF Registrations, Abroad

LEMMA NextKeepsReferences ==
  ASSUME ReferencesTypeOK, [ReferencesNext]_references
  PROVE  ReferencesTypeOK' /\ (TwoActors /\ Registrations => Registrations')
<1>1. ASSUME NEW a \in Actors, ReceiveReference(a)
      PROVE  ReferencesTypeOK' /\ (Registrations => Registrations')
  BY <1>1, ReceiveKeepsReferences
<1>2. ASSUME NEW a \in Actors, CollectReferences(a)
      PROVE  ReferencesTypeOK' /\ (Registrations => Registrations')
  BY <1>2, CollectKeepsReferences
<1>3. ASSUME NEW a \in Actors, NEW o \in Objects, Return(a, o)
      PROVE  ReferencesTypeOK' /\ (Registrations => Registrations')
  BY <1>3, ReturnKeepsReferences
<1>4. ASSUME NEW a \in Actors, NEW o \in Objects, NEW b \in Actors, Send(a, o, b)
      PROVE  ReferencesTypeOK' /\ (TwoActors /\ Registrations => Registrations')
  BY <1>4, SendKeepsReferences
<1>5. ASSUME NEW a \in Actors, Switch(a) \/ \E o \in Objects : Forget(a, o)
      PROVE  ReferencesTypeOK' /\ (Registrations => Registrations')
  BY <1>5, ProgramKeepsReferences
<1>6. CASE UNCHANGED references
  BY <1>6 DEF references, ReferencesTypeOK, Registrations, Abroad
<1>7. QED
  BY <1>1, <1>2, <1>3, <1>4, <1>5, <1>6 DEF ReferencesNext

-----------------------------------------------------------------------------
\* Queues hold messages of the module, programs and heaps objects, whatever the
\* programs send (RemoteObjectManager.cpp, GarbageCollector.cpp).
THEOREM ReferencesTypeCorrect == ReferencesSpec => []ReferencesTypeOK
<1>1. ReferencesTypeOK /\ [ReferencesNext]_references => ReferencesTypeOK'
  BY NextKeepsReferences
<1>2. QED
  BY InitRefs, <1>1, PTL DEF ReferencesSpec

\* Between two actors the owner knows of every reference abroad: proxies and
\* references on their way (RemoteObjectManager.cpp:20-35).
THEOREM AbroadAlwaysRegistered ==
  ASSUME TwoActors
  PROVE  ReferencesSpec => []AbroadIsRegistered
<1>1. ReferencesTypeOK /\ Registrations /\ [ReferencesNext]_references => (ReferencesTypeOK /\ Registrations)'
  BY NextKeepsReferences
<1>2. Registrations => AbroadIsRegistered
  BY DEF Registrations, AbroadIsRegistered
<1>3. QED
  BY InitRefs, <1>1, <1>2, PTL DEF ReferencesSpec
=============================================================================
