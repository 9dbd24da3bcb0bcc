--------------------------- MODULE SyncedQueueProof ---------------------------
(***************************************************************************)
(* Proofs about the ring buffer, for every set of senders, every size of    *)
(* the ring, every chunk that fits into it and bodies of any size: its      *)
(* accounting, the order and lengths of what comes out of it, and, when no  *)
(* body is longer than a chunk, that it is the abstract channel.            *)
(***************************************************************************)
EXTENDS QueueImplementsChannel, SequenceTheorems, TLAPS

\* What every step keeps: the accounting of the ring and what it rests on.
QueueInv == TypeOK /\ LockHeld /\ WriterBounds /\ ReaderBounds /\ RingAccounting

\* The smaller of two numbers is one of them and bounded by both.
LEMMA SmallerOfBounds ==
  ASSUME NEW a \in Int, NEW b \in Int
  PROVE  /\ SmallerOf(a, b) \in {a, b}
         /\ SmallerOf(a, b) <= a /\ SmallerOf(a, b) <= b
BY DEF SmallerOf

\* A piece holds at least one word, at most a chunk, and no more than what is
\* left of the message.
LEMMA PieceBounds ==
  ASSUME TypeOK, NEW s \in Senders, done[s] <= size[s]
  PROVE  /\ Piece(s) \in 1..Size
         /\ done[s] + Piece(s) <= size[s] + 1
<1>1. /\ done[s] \in Nat /\ size[s] \in Nat
      /\ Chunk \in 1..Size /\ Size \in Nat
  BY ChunkAssumption, SizeAssumption DEF TypeOK
<1>2. QED
  BY <1>1 DEF Piece, SmallerOf

\* The next position is in the ring and one further, or back at the start.
LEMMA NextPositionInRing ==
  ASSUME NEW p \in 0..(Size - 1)
  PROVE  /\ NextPosition(p) \in 0..(Size - 1)
         /\ NextPosition(p) = p + 1 \/ NextPosition(p) = p + 1 - Size
BY SizeAssumption DEF NextPosition

\* A header is read as some number of words, whatever word is taken for one.
LEMMA HeaderValueIsNat ==
  ASSUME TypeOK, NEW w
  PROVE  HeaderValue(w) \in Nat
<1>1. \A i \in DOMAIN log : log[i] \in [from : Senders, size : BodySizes]
  <2>1. log \in Seq([from : Senders, size : BodySizes])
    BY DEF TypeOK
  <2>2. DOMAIN log = 1..Len(log)
    BY <2>1
  <2>3. \A i \in 1..Len(log) : log[i] \in [from : Senders, size : BodySizes]
    BY <2>1, ElementOfSeq
  <2>4. QED
    BY <2>2, <2>3
<1>2. CASE w[1] \in DOMAIN log
  <2>1. log[w[1]].size \in BodySizes
    BY <1>1, <1>2
  <2>2. QED
    BY <2>1, <1>2, BodySizesAssumption DEF HeaderValue
<1>3. CASE w[1] \notin DOMAIN log
  BY <1>3 DEF HeaderValue
<1>4. QED
  BY <1>2, <1>3

LEMMA InitInv == Init => QueueInv
<1> SUFFICES ASSUME Init PROVE QueueInv
  OBVIOUS
<1>1. TypeOK
  BY SizeAssumption DEF Init, TypeOK, Word, Garbage, Held
<1>2. LockHeld /\ WriterBounds /\ ReaderBounds
  BY DEF Init, LockHeld, WriterBounds, ReaderBounds, Held
<1>3. RingAccounting
  BY SizeAssumption DEF Init, RingAccounting, WordsInRing, CopiedByWriter, TakenByReader
<1>4. QED
  BY <1>1, <1>2, <1>3 DEF QueueInv


-----------------------------------------------------------------------------
(* One lemma per group of steps.                                            *)

\* Taking the lock starts a message with nothing copied, so no position and no
\* count changes.
LEMMA TakeLockKeepsInv ==
  ASSUME QueueInv, NEW s \in Senders, NEW n \in BodySizes, TakeLock(s, n)
  PROVE  QueueInv'
<1> USE DEF QueueInv
<1>1. n \in Nat /\ n >= 1
  BY BodySizesAssumption
<1>2. TypeOK'
  BY <1>1 DEF TypeOK, TakeLock, readerVars, Held
<1>3. LockHeld'
  BY NoActorAssumption DEF LockHeld, TakeLock, TypeOK, Held
<1>4. WriterBounds'
  <2> SUFFICES ASSUME NEW t \in Senders
               PROVE  WriterBounds!(t)'
    BY DEF WriterBounds
  <2>1. CASE t = s
    BY <2>1, <1>1 DEF WriterBounds, TakeLock, TypeOK, Held
  <2>2. CASE t # s
    BY <2>2 DEF WriterBounds, TakeLock, TypeOK, Piece
  <2>3. QED
    BY <2>1, <2>2
<1>5. ReaderBounds'
  BY DEF ReaderBounds, TakeLock, readerVars
<1>6. RingAccounting'
  BY NoActorAssumption
     DEF RingAccounting, WordsInRing, CopiedByWriter, TakenByReader, TakeLock, readerVars, TypeOK
<1>7. QED
  BY <1>2, <1>3, <1>4, <1>5, <1>6

\* Finding space reserves room for the piece: only the reader moves used_buffer
\* until the piece is published, and it only lowers it.
LEMMA FindSpaceKeepsInv ==
  ASSUME QueueInv, NEW s \in Senders, FindSpace(s)
  PROVE  QueueInv'
<1> USE DEF QueueInv
<1>1. TypeOK'
  BY DEF TypeOK, FindSpace, shared, readerVars, history, Held
<1>2. LockHeld'
  BY DEF LockHeld, FindSpace, shared, TypeOK, Held
<1>3. WriterBounds'
  <2> SUFFICES ASSUME NEW t \in Senders
               PROVE  WriterBounds!(t)'
    BY DEF WriterBounds
  <2>1. CASE t = s
    <3>1. Piece(s)' = Piece(s) /\ used' = used
      BY DEF FindSpace, Piece, shared
    <3>2. Piece(s) \in 1..Size /\ used \in Nat /\ used + Piece(s) <= Size
      <4>1. done[s] <= size[s] /\ Piece(s) <= Size - used
        BY DEF FindSpace, StoreMax, WriterBounds
      <4>2. Piece(s) \in 1..Size
        BY <4>1, PieceBounds
      <4>3. used \in Nat /\ Size \in Nat
        BY SizeAssumption DEF TypeOK
      <4>4. QED
        BY <4>1, <4>2, <4>3
    <3>3. /\ pc[s] = "space" /\ pc'[s] = "copy"
          /\ size'[s] = size[s] /\ done'[s] = done[s] /\ copied'[s] = copied[s]
      BY DEF FindSpace, TypeOK
    <3>4. size[s] \in BodySizes /\ done[s] <= size[s] /\ copied[s] = 0
      BY <3>3 DEF WriterBounds, Held
    <3>5. QED
      BY <2>1, <3>1, <3>2, <3>3, <3>4
  <2>2. CASE t # s
    BY <2>2 DEF WriterBounds, FindSpace, TypeOK, Piece, shared
  <2>3. QED
    BY <2>1, <2>2
<1>4. ReaderBounds'
  BY DEF ReaderBounds, FindSpace, shared, readerVars
<1>5. RingAccounting'
  BY DEF RingAccounting, WordsInRing, CopiedByWriter, TakenByReader, FindSpace, shared, readerVars
<1>6. QED
  BY <1>1, <1>2, <1>3, <1>4, <1>5

\* Copying a word moves store and the count of copied words together.
LEMMA CopyWordKeepsInv ==
  ASSUME QueueInv, NEW s \in Senders, CopyWord(s)
  PROVE  QueueInv'
<1> USE DEF QueueInv
<1>1. lock = s
  BY DEF CopyWord, LockHeld, Held
<1>2. /\ copied[s] \in Nat /\ copied[s] < Piece(s)
      /\ used + Piece(s) <= Size /\ Piece(s) \in 1..Size
      /\ used \in Nat
  BY PieceBounds DEF CopyWord, WriterBounds, TypeOK
<1>3. MessageWord(current[s], done[s] + copied[s]) \in Word
  BY DEF MessageWord, Word, TypeOK
<1>4. /\ NextPosition(store) \in 0..(Size - 1)
      /\ NextPosition(store) = store + 1 \/ NextPosition(store) = store + 1 - Size
  BY NextPositionInRing DEF TypeOK
<1>5. TypeOK'
  <2>1. ring' \in [0..(Size - 1) -> Word]
    BY <1>3 DEF CopyWord, TypeOK
  <2>2. copied' \in [Senders -> Nat]
    <3>1. copied[s] + 1 \in Nat
      BY <1>2
    <3>2. QED
      BY <3>1 DEF CopyWord, TypeOK
  <2>3. pc' \in [Senders -> {"idle", "blocked"} \cup Held]
    BY DEF CopyWord, TypeOK, Held
  <2>4. store' \in 0..(Size - 1)
    BY <1>4 DEF CopyWord
  <2>5. QED
    BY <2>1, <2>2, <2>3, <2>4 DEF CopyWord, TypeOK, readerVars, history
<1>6. LockHeld'
  BY DEF LockHeld, CopyWord, TypeOK, Held
<1>7. WriterBounds'
  <2> SUFFICES ASSUME NEW t \in Senders
               PROVE  WriterBounds!(t)'
    BY DEF WriterBounds
  <2>1. Piece(t)' = Piece(t)
    BY DEF CopyWord, Piece
  <2>2. CASE t = s
    <3>1. /\ pc[s] = "copy" /\ size'[s] = size[s] /\ done'[s] = done[s]
          /\ copied'[s] = copied[s] + 1 /\ used' = used
          /\ pc'[s] = IF copied[s] + 1 = Piece(s) THEN "publish" ELSE "copy"
      BY DEF CopyWord, TypeOK
    <3>2. size[s] \in BodySizes /\ done[s] <= size[s]
      BY <3>1 DEF WriterBounds, Held
    <3>3. QED
      BY <2>1, <2>2, <1>2, <3>1, <3>2
  <2>3. CASE t # s
    BY <2>1, <2>3 DEF WriterBounds, CopyWord, TypeOK
  <2>4. QED
    BY <2>2, <2>3
<1>8. ReaderBounds'
  BY DEF ReaderBounds, CopyWord, readerVars
<1>9. RingAccounting'
  <2>1. lock \in Senders /\ lock # NoActor
    BY <1>1, NoActorAssumption
  <2>2. /\ TakenByReader \in Nat /\ TakenByReader <= used
        /\ TakenByReader' = TakenByReader
    BY DEF TakenByReader, ReaderBounds, TypeOK, CopyWord, readerVars
  <2>3. /\ CopiedByWriter = copied[s] /\ CopiedByWriter' = copied[s] + 1
        /\ used' = used /\ read' = read /\ store' = NextPosition(store)
    BY <1>1, <2>1 DEF CopiedByWriter, CopyWord, TypeOK
  <2>4. WordsInRing' = WordsInRing + 1
    BY <1>2, <2>2, <2>3 DEF WordsInRing
  <2>5. WordsInRing' \in 0..Size
    BY <1>2, <2>2, <2>3, SizeAssumption DEF WordsInRing
  <2>6. store \in 0..(Size - 1) /\ read \in 0..(Size - 1) /\ Size \in Nat
    BY SizeAssumption DEF TypeOK
  <2>7. \/ store' = read' + WordsInRing'
        \/ store' = read' + WordsInRing' - Size
    BY <1>2, <1>4, <2>3, <2>4, <2>5, <2>6 DEF RingAccounting
  <2>8. QED
    BY <2>5, <2>7 DEF RingAccounting
<1>10. QED
  BY <1>5, <1>6, <1>7, <1>8, <1>9

\* Publishing turns copied words into used ones: the sum does not change.
LEMMA PublishKeepsInv ==
  ASSUME QueueInv, NEW s \in Senders, Publish(s)
  PROVE  QueueInv'
<1> USE DEF QueueInv
<1>1. lock = s /\ lock # NoActor
  BY NoActorAssumption DEF Publish, LockHeld, Held
<1>2. /\ copied[s] = Piece(s) /\ Piece(s) \in 1..Size
      /\ used \in Nat /\ used + Piece(s) <= Size
      /\ done[s] \in Nat /\ size[s] \in Nat /\ done[s] + Piece(s) <= size[s] + 1
  <2>1. done[s] <= size[s] /\ copied[s] = Piece(s) /\ used + Piece(s) <= Size
    BY DEF Publish, WriterBounds
  <2>2. used \in Nat /\ done[s] \in Nat /\ size[s] \in Nat
    BY DEF TypeOK
  <2>3. QED
    BY <2>1, <2>2, PieceBounds
<1>3. TypeOK'
  <2>1. used' \in 0..Size
    BY <1>2, SizeAssumption DEF Publish
  <2>2. done' \in [Senders -> Nat]
    <3>1. done[s] + Piece(s) \in Nat
      BY <1>2
    <3>2. QED
      BY <3>1 DEF Publish, TypeOK
  <2>3. copied' \in [Senders -> Nat]
    BY DEF Publish, TypeOK
  <2>4. pc' \in [Senders -> {"idle", "blocked"} \cup Held]
    BY DEF Publish, TypeOK, Held
  <2>5. QED
    BY <2>1, <2>2, <2>3, <2>4 DEF Publish, TypeOK, readerVars, history
<1>4. LockHeld'
  BY <1>1 DEF LockHeld, Publish, TypeOK, Held
<1>5. WriterBounds'
  <2> SUFFICES ASSUME NEW t \in Senders
               PROVE  WriterBounds!(t)'
    BY DEF WriterBounds
  <2>1. CASE t = s
    <3>1. /\ pc'[s] = IF done[s] + Piece(s) = size[s] + 1 THEN "unlock" ELSE "space"
          /\ done'[s] = done[s] + Piece(s)
          /\ copied'[s] = 0 /\ size'[s] = size[s]
      BY DEF Publish, TypeOK
    <3>2. size[s] \in BodySizes
      BY DEF Publish, WriterBounds, Held
    <3>3. QED
      BY <2>1, <3>1, <3>2, <1>2
  <2>2. CASE t # s
    <3>1. pc[t] \notin Held
      BY <2>2, <1>1 DEF LockHeld
    <3>2. pc'[t] = pc[t] /\ size'[t] = size[t]
      BY <2>2 DEF Publish, TypeOK
    <3>3. QED
      BY <3>1, <3>2 DEF WriterBounds, Held
  <2>3. QED
    BY <2>1, <2>2
<1>6. ReaderBounds'
  BY <1>2 DEF ReaderBounds, Publish, readerVars, TypeOK
<1>7. RingAccounting'
  <2>1. CopiedByWriter = Piece(s) /\ CopiedByWriter' = 0
    BY <1>1, <1>2 DEF CopiedByWriter, Publish, TypeOK
  <2>2. TakenByReader' = TakenByReader /\ TakenByReader \in Nat
    BY DEF TakenByReader, Publish, readerVars, TypeOK
  <2>3. WordsInRing' = WordsInRing
    BY <2>1, <2>2, <1>2 DEF WordsInRing, Publish
  <2>4. QED
    BY <2>3 DEF RingAccounting, Publish
<1>8. QED
  BY <1>3, <1>4, <1>5, <1>6, <1>7

\* Letting go of the lock, or going to sleep on it, moves nothing in the ring.
LEMMA LockStepsKeepInv ==
  ASSUME QueueInv, NEW s \in Senders, Unlock(s) \/ Contend(s)
  PROVE  QueueInv'
<1> USE DEF QueueInv
<1>1. /\ UNCHANGED <<ring, store, read, used, done, copied, current, readerVars, history>>
      /\ \A t \in Senders : t # s => pc'[t] = pc[t] /\ size'[t] = size[t]
      /\ pc'[s] \in {"idle", "blocked"}
      /\ pc'[s] = "blocked" => size'[s] \in BodySizes
  BY DEF Unlock, Contend, TypeOK, shared
<1>2. TypeOK'
  BY BodySizesAssumption DEF Unlock, Contend, TypeOK, shared, readerVars, history, Held
<1>3. LockHeld'
  <2>1. CASE Unlock(s)
    BY <2>1, <1>1 DEF LockHeld, Unlock, TypeOK, Held
  <2>2. CASE Contend(s)
    BY <2>2, <1>1 DEF LockHeld, Contend, shared, Held
  <2>3. QED
    BY <2>1, <2>2
<1>4. WriterBounds'
  <2> SUFFICES ASSUME NEW t \in Senders
               PROVE  WriterBounds!(t)'
    BY DEF WriterBounds
  <2>1. CASE t = s
    BY <2>1, <1>1 DEF WriterBounds, Held
  <2>2. CASE t # s
    BY <2>2, <1>1 DEF WriterBounds, Piece
  <2>3. QED
    BY <2>1, <2>2
<1>5. ReaderBounds'
  BY <1>1 DEF ReaderBounds, readerVars
<1>6. CopiedByWriter' = CopiedByWriter
  <2>1. CASE Unlock(s)
    BY <2>1, NoActorAssumption DEF CopiedByWriter, Unlock, LockHeld, WriterBounds, Held
  <2>2. CASE Contend(s)
    BY <2>2 DEF CopiedByWriter, Contend, shared
  <2>3. QED
    BY <2>1, <2>2
<1>7. RingAccounting'
  BY <1>1, <1>6 DEF RingAccounting, WordsInRing, TakenByReader, readerVars
<1>8. QED
  BY <1>2, <1>3, <1>4, <1>5, <1>7

\* What the reader does to the writers: it leaves them alone and may only lower
\* used_buffer.
LEMMA ReaderLeavesWriters ==
  ASSUME QueueInv, UNCHANGED <<lock, senderVars>>, used' \in Nat, used' <= used
  PROVE  LockHeld' /\ WriterBounds'
<1> USE DEF QueueInv
<1>1. LockHeld'
  BY DEF LockHeld, senderVars
<1>2. WriterBounds'
  <2> SUFFICES ASSUME NEW t \in Senders
               PROVE  WriterBounds!(t)'
    BY DEF WriterBounds
  <2>1. Piece(t)' = Piece(t) /\ (done[t] <= size[t] => Piece(t) \in 1..Size)
    BY PieceBounds DEF Piece, senderVars
  <2>2. pc[t] \in {"copy", "publish"} => used' + Piece(t) <= Size
    BY <2>1, SizeAssumption DEF WriterBounds, TypeOK
  <2>3. QED
    BY <2>1, <2>2 DEF WriterBounds, senderVars
<1>3. QED
  BY <1>1, <1>2

\* Starting a message and sampling used_buffer take nothing out of the ring.
LEMMA SampleKeepsInv ==
  ASSUME QueueInv, StartRead \/ Sample
  PROVE  QueueInv'
<1> USE DEF QueueInv
<1>1. UNCHANGED <<shared, senderVars, history>>
  BY DEF StartRead, Sample
<1>2. TypeOK'
  <2>1. <<Garbage>> \in Seq(Word)
    BY DEF Garbage, Word
  <2>2. CASE StartRead
    BY <2>1, <2>2 DEF StartRead, TypeOK, shared, senderVars, history
  <2>3. CASE Sample
    BY <2>3, SmallerOfBounds DEF Sample, TypeOK, shared, senderVars, history
  <2>4. QED
    BY <2>2, <2>3
<1>3. LockHeld' /\ WriterBounds'
  BY <1>1, ReaderLeavesWriters DEF shared, TypeOK
<1>4. ReaderBounds'
  <2>1. CASE StartRead
    BY <2>1 DEF StartRead, ReaderBounds
  <2>2. CASE Sample
    <3>1. used \in Nat /\ toRead \in Nat /\ used > 0 /\ toRead > 0 /\ used' = used
      BY <2>2 DEF Sample, TypeOK, shared
    <3>2. doRead' > 0 /\ doRead' <= used /\ doRead' <= toRead
      BY <2>2, <3>1 DEF Sample, SmallerOf
    <3>3. QED
      BY <2>2, <3>1, <3>2 DEF Sample, ReaderBounds
  <2>3. QED
    BY <2>1, <2>2
<1>5. RingAccounting'
  <2>1. TakenByReader = 0 /\ TakenByReader' = 0
    BY DEF StartRead, Sample, TakenByReader
  <2>2. QED
    BY <1>1, <2>1 DEF RingAccounting, WordsInRing, CopiedByWriter, shared, senderVars
<1>6. QED
  BY <1>2, <1>3, <1>4, <1>5

\* Taking a word moves read and the count of taken words together.
LEMMA TakeWordKeepsInv ==
  ASSUME QueueInv, TakeWord
  PROVE  QueueInv'
<1> USE DEF QueueInv
<1>1. /\ taken \in Nat /\ doRead \in Nat /\ used \in 0..Size /\ Size \in Nat
      /\ taken < doRead /\ doRead <= used
      /\ store \in 0..(Size - 1) /\ read \in 0..(Size - 1)
  BY SizeAssumption DEF TakeWord, ReaderBounds, TypeOK
<1>2. /\ NextPosition(read) \in 0..(Size - 1)
      /\ NextPosition(read) = read + 1 \/ NextPosition(read) = read + 1 - Size
  BY <1>1, NextPositionInRing
<1>3. TypeOK'
  <2>1. ring[read] \in Word
    BY <1>1 DEF TypeOK
  <2>2. data' \in Seq(Word)
    <3>1. data \in Seq(Word) /\ data' = [data EXCEPT ![DataIndex] = ring[read]]
      BY DEF TakeWord, TypeOK
    <3>2. CASE DataIndex \in 1..Len(data)
      BY <2>1, <3>1, <3>2, ExceptSeq
    <3>3. CASE DataIndex \notin 1..Len(data)
      <4>1. data' = data
        BY <3>1, <3>3
      <4>2. QED
        BY <3>1, <4>1
    <3>4. QED
      BY <3>2, <3>3
  <2>3. QED
    BY <1>1, <1>2, <2>2 DEF TakeWord, TypeOK, senderVars, history
<1>4. LockHeld' /\ WriterBounds'
  BY <1>1, ReaderLeavesWriters DEF TakeWord
<1>5. ReaderBounds'
  BY <1>1 DEF TakeWord, ReaderBounds
<1>6. RingAccounting'
  <2>1. TakenByReader = taken /\ TakenByReader' = taken + 1
    BY DEF TakeWord, TakenByReader
  <2>2. CopiedByWriter' = CopiedByWriter /\ CopiedByWriter \in Nat
    BY DEF TakeWord, CopiedByWriter, senderVars, TypeOK
  <2>3. WordsInRing' = WordsInRing - 1 /\ WordsInRing \in 1..Size
    BY <1>1, <2>1, <2>2 DEF WordsInRing, TakeWord, RingAccounting
  <2>4. \/ store' = read' + WordsInRing'
        \/ store' = read' + WordsInRing' - Size
    BY <1>1, <1>2, <2>3 DEF TakeWord, RingAccounting
  <2>5. QED
    BY <2>3, <2>4, <1>1 DEF RingAccounting
<1>7. QED
  BY <1>3, <1>4, <1>5, <1>6

\* Giving words back lowers used_buffer by what was taken: the sum stays.
LEMMA GiveBackKeepsInv ==
  ASSUME QueueInv, GiveBack
  PROVE  QueueInv'
<1> USE DEF QueueInv
<1>1. /\ taken = doRead /\ doRead \in Nat /\ doRead <= used /\ doRead <= toRead
      /\ used \in 0..Size /\ toRead \in Nat /\ Size \in Nat
      /\ used' = used - doRead
  BY SizeAssumption DEF GiveBack, ReaderBounds, TypeOK
<1>2. rpc' \in {"sample", "idle"} /\ rpc = "giveback"
  BY DEF GiveBack
<1>3. TypeOK'
  <2>1. HeaderValue(data[1]) \in Nat /\ Garbage \in Word
    BY HeaderValueIsNat DEF Garbage, Word
  <2>2. [k \in 1..HeaderValue(data[1]) |-> Garbage] \in Seq(Word)
    BY <2>1
  <2>3. toRead' \in Nat /\ data' \in Seq(Word) /\ delivered' \in Seq(Seq(Word))
        /\ part' \in {"header", "body"}
    <3>1. toRead' \in Nat /\ part' \in {"header", "body"}
      BY <1>1, <2>1 DEF GiveBack, TypeOK
    <3>2. data' \in {data, [k \in 1..HeaderValue(data[1]) |-> Garbage]}
      BY DEF GiveBack
    <3>3. delivered' \in {delivered, Append(delivered, data)}
      BY DEF GiveBack
    <3>4. data \in Seq(Word) /\ delivered \in Seq(Seq(Word))
      BY DEF TypeOK
    <3>5. Append(delivered, data) \in Seq(Seq(Word))
      BY <3>4, AppendProperties
    <3>6. QED
      BY <2>2, <3>1, <3>2, <3>3, <3>4, <3>5
  <2>4. QED
    BY <1>1, <1>2, <2>3 DEF GiveBack, TypeOK, senderVars
<1>4. LockHeld' /\ WriterBounds'
  BY <1>1, ReaderLeavesWriters DEF GiveBack
<1>5. ReaderBounds'
  BY <1>2 DEF ReaderBounds
<1>6. RingAccounting'
  <2>1. TakenByReader = doRead /\ TakenByReader' = 0
    BY <1>1, <1>2 DEF TakenByReader
  <2>2. CopiedByWriter' = CopiedByWriter /\ CopiedByWriter \in Nat
    BY DEF GiveBack, CopiedByWriter, senderVars, TypeOK
  <2>3. WordsInRing' = WordsInRing
    BY <1>1, <2>1, <2>2 DEF WordsInRing
  <2>4. QED
    BY <2>3 DEF GiveBack, RingAccounting
<1>7. QED
  BY <1>3, <1>4, <1>5, <1>6

-----------------------------------------------------------------------------
\* Every step keeps the invariant.
LEMMA NextKeepsInv == QueueInv /\ [Next]_vars => QueueInv'
<1> SUFFICES ASSUME QueueInv, [Next]_vars PROVE QueueInv'
  OBVIOUS
<1>1. ASSUME NEW s \in Senders, Enqueue(s) \/ Wake(s) PROVE QueueInv'
  <2>1. PICK n \in BodySizes : TakeLock(s, n)
    BY <1>1 DEF Enqueue, Wake, QueueInv, WriterBounds
  <2>2. QED
    BY <2>1, TakeLockKeepsInv
<1>2. ASSUME NEW s \in Senders, Contend(s) \/ Unlock(s) PROVE QueueInv'
  BY <1>2, LockStepsKeepInv
<1>3. ASSUME NEW s \in Senders, FindSpace(s) PROVE QueueInv'
  BY <1>3, FindSpaceKeepsInv
<1>4. ASSUME NEW s \in Senders, CopyWord(s) PROVE QueueInv'
  BY <1>4, CopyWordKeepsInv
<1>5. ASSUME NEW s \in Senders, Publish(s) PROVE QueueInv'
  BY <1>5, PublishKeepsInv
<1>6. CASE StartRead \/ Sample
  BY <1>6, SampleKeepsInv
<1>7. CASE TakeWord
  BY <1>7, TakeWordKeepsInv
<1>8. CASE GiveBack
  BY <1>8, GiveBackKeepsInv
<1>9. CASE UNCHANGED vars
  BY <1>9
     DEF vars, shared, senderVars, readerVars, history, QueueInv, TypeOK, LockHeld, WriterBounds,
         ReaderBounds, RingAccounting, WordsInRing, CopiedByWriter, TakenByReader, Piece
<1>10. QED
  BY <1>1, <1>2, <1>3, <1>4, <1>5, <1>6, <1>7, <1>8, <1>9 DEF Next, HolderStep, ReaderStep

\* The invariant holds in every behaviour of the queue.
THEOREM QueueInvariant == Spec => []QueueInv
<1>1. QED
  BY InitInv, NextKeepsInv, PTL DEF Spec

\* Every variable has its type; in particular used_buffer never leaves 0..Size
\* and the two positions never leave the buffer (synced_queue.cpp:32-124).
THEOREM QueueTypeCorrect == Spec => []TypeOK
<1>1. QueueInv => TypeOK
  BY DEF QueueInv
<1>2. QED
  BY <1>1, QueueInvariant, PTL

\* The positions of writer and reader and the counter they share agree in every
\* state, also half-way through a piece (synced_queue.cpp:39-47, 112-120).
THEOREM RingAccountingHolds == Spec => []RingAccounting
<1>1. QueueInv => RingAccounting
  BY DEF QueueInv
<1>2. QED
  BY <1>1, QueueInvariant, PTL

\* The writer never stores to the word the reader is loading, although no lock
\* is shared between the two (synced_queue.cpp:40 and 113).
THEOREM WriterAndReaderNeverMeet == Spec => []WriterAndReaderApart
<1>1. ASSUME QueueInv PROVE WriterAndReaderApart
  <2> SUFFICES ASSUME NEW s \in Senders, pc[s] = "copy", rpc = "copy"
               PROVE  store # read
    BY DEF WriterAndReaderApart
  <2>1. lock = s /\ lock # NoActor
    BY <1>1, NoActorAssumption DEF QueueInv, LockHeld, Held
  <2>2. /\ copied[s] \in Nat /\ used \in Nat /\ taken \in Nat /\ doRead \in Nat
        /\ done[s] <= size[s]
        /\ copied[s] < Piece(s) /\ used + Piece(s) <= Size
        /\ taken < doRead /\ doRead <= used
    BY <1>1 DEF QueueInv, TypeOK, WriterBounds, ReaderBounds
  <2>3. Piece(s) \in 1..Size
    BY <1>1, <2>2, PieceBounds DEF QueueInv
  <2>4. WordsInRing = used + copied[s] - taken
    BY <2>1 DEF WordsInRing, CopiedByWriter, TakenByReader
  <2>5. WordsInRing > 0 /\ WordsInRing < Size
    BY <2>2, <2>3, <2>4, SizeAssumption
  <2>6. QED
    BY <1>1, <2>5, SizeAssumption DEF QueueInv, RingAccounting, TypeOK
<1>2. QED
  BY <1>1, QueueInvariant, PTL

-----------------------------------------------------------------------------
(* The words on their way, as one line of words.                            *)

\* Word k of message m, or the first of the next message after the last of m.
Place(m, k) == IF k = log[m].size + 1 THEN <<m + 1, 0>> ELSE <<m, k>>

\* The position i words after the next one to read.
Offset(i) == IF read + i < Size THEN read + i ELSE read + i - Size

\* The word that the next call of _store begins or goes on with.
NextToWrite ==
  IF lock = NoActor THEN <<Len(log) + 1, 0>> ELSE Place(Len(log), done[lock] + copied[lock])

\* The word that the reader needs next to keep its place in the messages.
NextToRead ==
  LET m == Len(delivered) + 1 IN
  IF rpc = "idle" THEN <<m, 0>>
  ELSE IF part = "header" THEN <<m, TakenByReader>>
  ELSE Place(m, 1 + log[m].size - toRead + TakenByReader)

\* The words in the ring in their order, and after them the next one written.
Line(i) == IF i < WordsInRing THEN ring[Offset(i)] ELSE NextToWrite

-----------------------------------------------------------------------------
(* The invariant.                                                           *)

\* The holder of the lock works on the last message of the log.
WriterFrames ==
  /\ lock # NoActor => pc[lock] \in Held
  /\ \A s \in Senders : pc[s] \in Held =>
       /\ current[s] = Len(log) /\ Len(log) \in DOMAIN log
       /\ log[Len(log)].size = size[s]
       /\ pc[s] = "unlock" => done[s] = size[s] + 1

\* The line starts with what the reader needs and runs through the messages
\* without a gap.
LineOfWords ==
  /\ Line(0) = NextToRead
  /\ \A i \in 0..(WordsInRing - 1) :
       /\ Line(i)[1] \in DOMAIN log /\ Line(i)[2] \in 0..log[Line(i)[1]].size
       /\ \A j \in i..WordsInRing :
            Line(i)[2] + (j - i) <= log[Line(i)[1]].size + 1
              => Line(j) = Place(Line(i)[1], Line(i)[2] + (j - i))

\* The reader knows which message it reads and how long that is.
ReaderFrames ==
  LET m == Len(delivered) + 1 IN
  /\ rpc # "idle" /\ part = "header" =>
       /\ toRead = 1 /\ Len(data) = 1
       /\ rpc = "giveback" => m \in DOMAIN log /\ data[1] = <<m, 0>>
  /\ rpc # "idle" /\ part = "body" =>
       m \in DOMAIN log /\ Len(data) = log[m].size /\ toRead \in 1..log[m].size

FrameInv == QueueInv /\ WriterFrames /\ LineOfWords /\ ReaderFrames /\ FramingKept

-----------------------------------------------------------------------------
(* The ring as a line.                                                      *)

\* Sizes in the log.
LEMMA LogSizes ==
  ASSUME TypeOK
  PROVE  /\ DOMAIN log = 1..Len(log) /\ Len(log) \in Nat
         /\ \A m \in DOMAIN log : log[m].size \in BodySizes /\ log[m].size \in Nat /\ log[m].size >= 1
<1>1. log \in Seq([from : Senders, size : BodySizes])
  BY DEF TypeOK
<1>2. DOMAIN log = 1..Len(log) /\ Len(log) \in Nat
  BY <1>1
<1>3. \A m \in 1..Len(log) : log[m] \in [from : Senders, size : BodySizes]
  BY <1>1, ElementOfSeq
<1>4. \A m \in 1..Len(log) : log[m].size \in BodySizes
  BY <1>3
<1>5. \A x \in BodySizes : x \in Nat /\ x >= 1
  BY BodySizesAssumption
<1>6. QED
  BY <1>2, <1>4, <1>5

\* The counts of a state, and where the writer stands.
LEMMA RingCounts ==
  ASSUME QueueInv
  PROVE  /\ Size \in Nat \ {0} /\ read \in 0..(Size - 1) /\ store \in 0..(Size - 1)
         /\ used \in Nat /\ WordsInRing \in 0..Size
         /\ TakenByReader \in Nat /\ TakenByReader <= used
         /\ CopiedByWriter \in Nat /\ WordsInRing = used + CopiedByWriter - TakenByReader
         /\ WordsInRing < Size => store = Offset(WordsInRing)
<1>1. /\ Size \in Nat \ {0} /\ read \in 0..(Size - 1) /\ store \in 0..(Size - 1)
      /\ used \in Nat /\ WordsInRing \in 0..Size
  BY SizeAssumption DEF QueueInv, TypeOK, RingAccounting
<1>2. TakenByReader \in Nat /\ TakenByReader <= used
  BY <1>1 DEF QueueInv, TypeOK, ReaderBounds, TakenByReader
<1>3. CopiedByWriter \in Nat
  BY DEF QueueInv, TypeOK, CopiedByWriter
<1>4. store = read + WordsInRing \/ store = read + WordsInRing - Size
  BY DEF QueueInv, RingAccounting
<1>5. QED
  BY <1>1, <1>2, <1>3, <1>4 DEF Offset, WordsInRing

LEMMA OffsetInRing ==
  ASSUME QueueInv, NEW i \in 0..(Size - 1)
  PROVE  /\ Offset(i) \in 0..(Size - 1)
         /\ \A j \in 0..(Size - 1) : Offset(i) = Offset(j) => i = j
BY RingCounts DEF Offset

\* A line that stays as it is, though a message may be added to the log.
LEMMA LineKept ==
  ASSUME QueueInv, LineOfWords, \A m \in DOMAIN log : m \in DOMAIN log' /\ log'[m] = log[m],
         WordsInRing' = WordsInRing, NextToRead' = NextToRead,
         \A i \in 0..WordsInRing : Line(i)' = Line(i)
  PROVE  LineOfWords'
<1>1. WordsInRing \in Nat
  BY RingCounts
<1>2. Line(0)' = NextToRead'
  BY <1>1 DEF LineOfWords
<1>3. ASSUME NEW i \in 0..(WordsInRing - 1)
      PROVE  /\ Line(i)'[1] \in DOMAIN log' /\ Line(i)'[2] \in 0..log'[Line(i)'[1]].size
             /\ \A j \in i..WordsInRing :
                  Line(i)'[2] + (j - i) <= log'[Line(i)'[1]].size + 1
                    => Line(j)' = Place(Line(i)[1], Line(i)[2] + (j - i))'
  <2>1. Line(i)' = Line(i)
    BY <1>1
  <2>2. /\ Line(i)[1] \in DOMAIN log /\ Line(i)[2] \in 0..log[Line(i)[1]].size
        /\ log'[Line(i)[1]] = log[Line(i)[1]]
    BY DEF LineOfWords
  <2>3. ASSUME NEW j \in i..WordsInRing, Line(i)[2] + (j - i) <= log[Line(i)[1]].size + 1
        PROVE  Line(j)' = Place(Line(i)[1], Line(i)[2] + (j - i))'
    <3>1. Line(j)' = Line(j)
      BY <1>1
    <3>2. Line(j) = Place(Line(i)[1], Line(i)[2] + (j - i))
      BY <2>3 DEF LineOfWords
    <3>3. Place(Line(i)[1], Line(i)[2] + (j - i))' = Place(Line(i)[1], Line(i)[2] + (j - i))
      BY <2>1, <2>2 DEF Place
    <3>4. QED
      BY <3>1, <3>2, <3>3
  <2>4. QED
    BY <2>1, <2>2, <2>3
<1>4. QED
  BY <1>2, <1>3 DEF LineOfWords

\* A line that grows by the word its writer goes on with.
LEMMA LineGrows ==
  ASSUME QueueInv, LineOfWords, UNCHANGED log, NEW n \in Nat,
         WordsInRing = n, WordsInRing' = n + 1, NextToRead' = NextToRead,
         \A i \in 0..n : Line(i)' = Line(i),
         NEW m \in DOMAIN log, NEW k \in 0..log[m].size,
         Line(n) = <<m, k>>, Line(n + 1)' = Place(m, k + 1)
  PROVE  LineOfWords'
<1>1. n \in Nat /\ \A l \in DOMAIN log : log[l].size \in Nat
  BY LogSizes DEF QueueInv
<1>2. Line(n) = <<m, k>> /\ Line(n + 1)' = Place(m, k + 1)
      /\ \A i \in 0..n : Line(i)' = Line(i)
  OBVIOUS
<1>4. \A i \in 0..(n - 1) :
        /\ Line(i)[1] \in DOMAIN log /\ Line(i)[2] \in 0..log[Line(i)[1]].size
        /\ \A j \in i..n :
             Line(i)[2] + (j - i) <= log[Line(i)[1]].size + 1
               => Line(j) = Place(Line(i)[1], Line(i)[2] + (j - i))
  BY DEF LineOfWords
<1>5. Line(0)' = NextToRead'
  BY <1>1, <1>2 DEF LineOfWords
<1>6. ASSUME NEW i \in 0..n
      PROVE  /\ Line(i)[1] \in DOMAIN log /\ Line(i)[2] \in 0..log[Line(i)[1]].size
             /\ \A j \in i..(n + 1) :
                  Line(i)[2] + (j - i) <= log[Line(i)[1]].size + 1
                    => Line(j)' = Place(Line(i)[1], Line(i)[2] + (j - i))
  <2>1. CASE i = n
    <3>1. Line(i)[1] = m /\ Line(i)[2] = k
      BY <1>2, <2>1
    <3>2. ASSUME NEW j \in i..(n + 1) PROVE Line(j)' = Place(m, k + (j - i))
      <4>1. CASE j = n
        <5>1. k + (j - i) = k /\ k # log[m].size + 1
          BY <1>1, <2>1, <4>1
        <5>2. QED
          BY <1>1, <1>2, <4>1, <5>1 DEF Place
      <4>2. CASE j = n + 1
        <5>1. k + (j - i) = k + 1
          BY <1>1, <2>1, <4>2
        <5>2. QED
          BY <1>2, <4>2, <5>1
      <4>3. QED
        BY <1>1, <2>1, <4>1, <4>2
    <3>3. QED
      BY <3>1, <3>2
  <2>2. CASE i # n
    <3>1. i \in 0..(n - 1)
      BY <1>1, <2>2
    <3> DEFINE l == Line(i)[1]
               h == Line(i)[2]
    <3>2. /\ l \in DOMAIN log /\ h \in 0..log[l].size /\ log[l].size \in Nat
          /\ \A j \in i..n : h + (j - i) <= log[l].size + 1 => Line(j) = Place(l, h + (j - i))
      BY <1>1, <1>4, <3>1
    <3> HIDE DEF l, h
    <3>3. ASSUME NEW j \in i..(n + 1), h + (j - i) <= log[l].size + 1
          PROVE  Line(j)' = Place(l, h + (j - i))
      <4>1. CASE j \in i..n
        BY <1>1, <1>2, <3>1, <3>2, <3>3, <4>1
      <4>2. CASE j = n + 1
        <5>1. n \in i..n /\ h + (n - i) <= log[l].size /\ h + (n - i) # log[l].size + 1
          BY <1>1, <3>1, <3>2, <3>3, <4>2
        <5>2. Line(n) = Place(l, h + (n - i))
          BY <1>1, <3>2, <5>1
        <5>3. Line(n) = <<l, h + (n - i)>>
          BY <5>1, <5>2 DEF Place
        <5>4. m = l /\ k = h + (n - i)
          BY <1>2, <5>3
        <5>5. k + 1 = h + (j - i)
          BY <1>1, <3>1, <3>2, <4>2, <5>4
        <5>6. QED
          BY <1>2, <4>2, <5>4, <5>5
      <4>3. QED
        BY <1>1, <4>1, <4>2
    <3>4. QED
      BY <3>2, <3>3 DEF l, h
  <2>3. QED
    BY <2>1, <2>2
<1>7. \A i \in 0..n :
        /\ Line(i)'[1] \in DOMAIN log' /\ Line(i)'[2] \in 0..log'[Line(i)'[1]].size
        /\ \A j \in i..(n + 1) :
             Line(i)'[2] + (j - i) <= log'[Line(i)'[1]].size + 1
               => Line(j)' = Place(Line(i)[1], Line(i)[2] + (j - i))'
  BY <1>2, <1>6 DEF Place
<1>8. 0..(WordsInRing' - 1) = 0..n
  BY <1>1
<1>9. QED
  BY <1>5, <1>7, <1>8 DEF LineOfWords

\* A line that loses its first word.
LEMMA LineShrinks ==
  ASSUME QueueInv, LineOfWords, UNCHANGED log, NEW n \in Nat \ {0},
         WordsInRing = n, WordsInRing' = n - 1,
         \A i \in 0..(n - 1) : Line(i)' = Line(i + 1),
         NextToRead' = Place(NextToRead[1], NextToRead[2] + 1)
  PROVE  LineOfWords'
<1>1. \A l \in DOMAIN log : log[l].size \in Nat
  BY LogSizes DEF QueueInv
<1>2. \A i \in 0..(n - 1) : Line(i)' = Line(i + 1)
  OBVIOUS
<1>4. \A i \in 0..(n - 1) :
        /\ Line(i)[1] \in DOMAIN log /\ Line(i)[2] \in 0..log[Line(i)[1]].size
        /\ \A j \in i..n :
             Line(i)[2] + (j - i) <= log[Line(i)[1]].size + 1
               => Line(j) = Place(Line(i)[1], Line(i)[2] + (j - i))
  BY DEF LineOfWords
<1>5. Line(0)' = NextToRead'
  <2>1. 0 \in 0..(n - 1) /\ 1 \in 0..n /\ Line(0)' = Line(0 + 1) /\ 0 + 1 = 1
    BY <1>1, <1>2
  <2>2. Line(0)[1] \in DOMAIN log /\ Line(0)[2] \in 0..log[Line(0)[1]].size
    BY <1>4, <2>1
  <2>3. Line(0)[2] + (1 - 0) <= log[Line(0)[1]].size + 1 /\ Line(0)[2] + (1 - 0) = Line(0)[2] + 1
    BY <1>1, <2>2
  <2>4. Line(1) = Place(Line(0)[1], Line(0)[2] + 1)
    BY <1>4, <2>1, <2>3
  <2>5. Line(0) = NextToRead
    BY DEF LineOfWords
  <2>6. QED
    BY <2>1, <2>4, <2>5
<1>6. ASSUME NEW i \in 0..(n - 2)
      PROVE  /\ Line(i)'[1] \in DOMAIN log' /\ Line(i)'[2] \in 0..log'[Line(i)'[1]].size
             /\ \A j \in i..(n - 1) :
                  Line(i)'[2] + (j - i) <= log'[Line(i)'[1]].size + 1
                    => Line(j)' = Place(Line(i)[1], Line(i)[2] + (j - i))'
  <2>1. i + 1 \in 0..(n - 1) /\ Line(i)' = Line(i + 1)
    BY <1>2
  <2>2. ASSUME NEW j \in i..(n - 1), Line(i)'[2] + (j - i) <= log'[Line(i)'[1]].size + 1
        PROVE  Line(j)' = Place(Line(i)[1], Line(i)[2] + (j - i))'
    <3>1. j + 1 \in (i + 1)..n /\ Line(j)' = Line(j + 1) /\ (j + 1) - (i + 1) = j - i
      BY <1>2
    <3>2. Line(j + 1) = Place(Line(i + 1)[1], Line(i + 1)[2] + (j - i))
      BY <1>4, <2>1, <2>2, <3>1
    <3>3. Place(Line(i)[1], Line(i)[2] + (j - i))' = Place(Line(i + 1)[1], Line(i + 1)[2] + (j - i))
      BY <2>1 DEF Place
    <3>4. QED
      BY <3>1, <3>2, <3>3
  <2>3. QED
    BY <1>4, <2>1, <2>2
<1>7. 0..(WordsInRing' - 1) = 0..(n - 2) /\ \A i : i..WordsInRing' = i..(n - 1)
  OBVIOUS
<1>8. QED
  BY <1>5, <1>6, <1>7 DEF LineOfWords

-----------------------------------------------------------------------------
(* One lemma per group of steps.                                            *)

\* Whether the line of words stays as it is depends on these alone.
LEMMA LineSame ==
  ASSUME UNCHANGED <<ring, read>>, WordsInRing' = WordsInRing, NextToWrite' = NextToWrite
  PROVE  \A i : Line(i)' = Line(i)
BY DEF Line, Offset

\* A step of a writer that does not take the lock leaves the reader's side alone.
LEMMA WritersLeaveReader ==
  ASSUME UNCHANGED <<readerVars, history>>, ReaderFrames, FramingKept
  PROVE  TakenByReader' = TakenByReader /\ NextToRead' = NextToRead /\ ReaderFrames' /\ FramingKept'
<1>1. TakenByReader' = TakenByReader
  BY DEF readerVars, TakenByReader
<1>2. NextToRead' = NextToRead
  BY <1>1 DEF readerVars, history, NextToRead, Place
<1>3. ReaderFrames' /\ FramingKept'
  BY DEF readerVars, history, ReaderFrames, FramingKept
<1>4. QED
  BY <1>1, <1>2, <1>3

\* And the other way round.
LEMMA ReaderLeavesFrames ==
  ASSUME UNCHANGED <<lock, senderVars, log>>, WriterFrames
  PROVE  /\ WriterFrames' /\ NextToWrite' = NextToWrite /\ CopiedByWriter' = CopiedByWriter
BY DEF senderVars, WriterFrames, NextToWrite, CopiedByWriter, Place

\* The holder of the lock.
LEMMA HolderIs ==
  ASSUME FrameInv, NEW s \in Senders, pc[s] \in Held
  PROVE  /\ lock = s /\ lock # NoActor /\ current[s] = Len(log) /\ Len(log) \in DOMAIN log
         /\ log[Len(log)].size = size[s] /\ size[s] \in Nat /\ size[s] >= 1
         /\ done[s] \in Nat /\ copied[s] \in Nat
         /\ CopiedByWriter = copied[s]
         /\ NextToWrite = Place(Len(log), done[s] + copied[s])
         /\ \A t \in Senders : t # s => pc[t] \notin Held
<1>1. lock = s /\ lock # NoActor /\ \A t \in Senders : t # s => pc[t] \notin Held
  BY NoActorAssumption DEF FrameInv, QueueInv, LockHeld
<1>2. current[s] = Len(log) /\ Len(log) \in DOMAIN log /\ log[Len(log)].size = size[s]
  BY DEF FrameInv, WriterFrames
<1>3. size[s] \in Nat /\ size[s] >= 1 /\ done[s] \in Nat /\ copied[s] \in Nat
  BY <1>2, LogSizes DEF FrameInv, QueueInv, TypeOK
<1>4. CopiedByWriter = copied[s] /\ NextToWrite = Place(Len(log), done[s] + copied[s])
  BY <1>1 DEF CopiedByWriter, NextToWrite
<1>5. QED
  BY <1>1, <1>2, <1>3, <1>4

LEMMA TakeLockFrames ==
  ASSUME FrameInv, NEW s \in Senders, NEW n \in BodySizes, TakeLock(s, n)
  PROVE  WriterFrames' /\ LineOfWords' /\ ReaderFrames' /\ FramingKept'
<1> DEFINE new == [from |-> s, size |-> n]
<1>1. /\ QueueInv /\ TypeOK /\ lock = NoActor /\ lock' = s /\ s # NoActor
      /\ pc' = [pc EXCEPT ![s] = "space"] /\ size' = [size EXCEPT ![s] = n]
      /\ done' = [done EXCEPT ![s] = 0] /\ copied' = [copied EXCEPT ![s] = 0]
      /\ log' = Append(log, new) /\ current' = [current EXCEPT ![s] = Len(log) + 1]
      /\ UNCHANGED <<ring, store, read, used, readerVars, delivered>>
  BY NoActorAssumption DEF FrameInv, QueueInv, TakeLock
<1>2. n \in Nat /\ n >= 1
  BY BodySizesAssumption
<1>3. /\ log \in Seq([from : Senders, size : BodySizes]) /\ new \in [from : Senders, size : BodySizes]
  BY <1>1 DEF TypeOK
<1> HIDE DEF new
<1>4. /\ Len(log) \in Nat /\ DOMAIN log = 1..Len(log) /\ Len(log') = Len(log) + 1
      /\ DOMAIN log' = 1..(Len(log) + 1) /\ log'[Len(log) + 1] = new
      /\ \A m \in DOMAIN log : m \in DOMAIN log' /\ log'[m] = log[m]
  BY <1>1, <1>3, AppendProperties
<1>5. WriterFrames'
  <2>1. \A t \in Senders : pc[t] \notin Held
    BY <1>1, NoActorAssumption DEF QueueInv, LockHeld
  <2>2. /\ pc'[s] = "space" /\ size'[s] = n /\ current'[s] = Len(log) + 1
        /\ \A t \in Senders \ {s} : pc'[t] = pc[t]
    BY <1>1 DEF TypeOK
  <2>3. log'[Len(log')].size = n /\ Len(log') \in DOMAIN log'
    BY <1>4 DEF new
  <2>4. QED
    BY <1>1, <1>4, <2>1, <2>2, <2>3 DEF WriterFrames, Held
<1>6. NextToWrite' = NextToWrite
  <2>1. NextToWrite = <<Len(log) + 1, 0>>
    BY <1>1 DEF NextToWrite
  <2>2. done'[s] = 0 /\ copied'[s] = 0
    BY <1>1 DEF TypeOK
  <2>3. NextToWrite' = IF 0 = log'[Len(log')].size + 1 THEN <<Len(log') + 1, 0>> ELSE <<Len(log'), 0>>
    BY <1>1, <2>2 DEF NextToWrite, Place
  <2>4. log'[Len(log')].size = n
    BY <1>4 DEF new
  <2>5. QED
    BY <1>2, <1>4, <2>1, <2>3, <2>4
<1>7. WordsInRing' = WordsInRing /\ TakenByReader' = TakenByReader
  <2>1. CopiedByWriter = 0 /\ CopiedByWriter' = 0
    BY <1>1 DEF CopiedByWriter, TypeOK
  <2>2. TakenByReader' = TakenByReader
    BY <1>1 DEF TakenByReader, readerVars
  <2>3. QED
    BY <1>1, <2>1, <2>2 DEF WordsInRing
<1>8. NextToRead' = NextToRead
  <2>1. rpc # "idle" /\ part = "body" => log'[Len(delivered) + 1] = log[Len(delivered) + 1]
    BY <1>4 DEF FrameInv, ReaderFrames
  <2>2. part = "header" \/ part = "body"
    BY <1>1 DEF TypeOK
  <2>3. QED
    BY <1>1, <1>7, <2>1, <2>2 DEF NextToRead, readerVars, Place
<1>9. LineOfWords'
  BY <1>1, <1>4, <1>6, <1>7, <1>8, LineSame, LineKept DEF FrameInv
<1>10. ReaderFrames'
  BY <1>1, <1>4 DEF FrameInv, ReaderFrames, readerVars
<1>11. FramingKept'
  <2>1. Len(delivered) \in Nat /\ DOMAIN delivered = 1..Len(delivered)
    BY <1>1 DEF TypeOK
  <2>2. \A j \in DOMAIN delivered : j \in DOMAIN log
    BY <1>4, <2>1 DEF FrameInv, FramingKept
  <2>3. QED
    BY <1>1, <1>4, <2>1, <2>2 DEF FrameInv, FramingKept
<1>12. QED
  BY <1>5, <1>9, <1>10, <1>11

\* Looking for space, publishing and the lock move no word.
LEMMA WriterStepFrames ==
  ASSUME FrameInv, NEW s \in Senders, FindSpace(s) \/ Publish(s) \/ Unlock(s) \/ Contend(s)
  PROVE  WriterFrames' /\ LineOfWords' /\ ReaderFrames' /\ FramingKept'
<1>1. QueueInv /\ TypeOK /\ WriterFrames /\ LineOfWords /\ ReaderFrames /\ FramingKept
  BY DEF FrameInv, QueueInv
<1>2. UNCHANGED <<ring, read, readerVars, history>>
  BY DEF FindSpace, Publish, Unlock, Contend, shared
<1>3. /\ NextToRead' = NextToRead /\ TakenByReader' = TakenByReader /\ ReaderFrames' /\ FramingKept'
      /\ UNCHANGED <<log, delivered>>
  BY <1>1, <1>2, WritersLeaveReader DEF history
<1>4. WriterFrames' /\ WordsInRing' = WordsInRing /\ NextToWrite' = NextToWrite
  <2>1. CASE FindSpace(s)
    <3>1. pc[s] \in Held /\ pc' = [pc EXCEPT ![s] = "copy"] /\ UNCHANGED <<lock, used, size, done, copied, current>>
      BY <2>1 DEF FindSpace, shared, Held
    <3>2. WriterFrames'
      BY <1>1, <1>3, <3>1 DEF WriterFrames, TypeOK, Held
    <3>3. QED
      BY <1>3, <3>1, <3>2 DEF WordsInRing, CopiedByWriter, NextToWrite, Place
  <2>2. CASE Publish(s)
    <3>1. /\ pc[s] = "publish" /\ pc[s] \in Held
          /\ UNCHANGED <<lock, size, current>>
          /\ used' = used + Piece(s) /\ done'[s] = done[s] + Piece(s) /\ copied'[s] = 0
          /\ pc' = [pc EXCEPT ![s] = IF done[s] + Piece(s) = size[s] + 1 THEN "unlock" ELSE "space"]
          /\ \A t \in Senders \ {s} : done'[t] = done[t]
      BY <1>1, <2>2 DEF Publish, Held, TypeOK
    <3>2. copied[s] = Piece(s) /\ done[s] <= size[s]
      BY <1>1, <3>1 DEF QueueInv, WriterBounds
    <3>3. Piece(s) \in Nat
      BY <1>1, <3>2, PieceBounds
    <3>4. /\ lock = s /\ lock # NoActor /\ CopiedByWriter = copied[s]
          /\ NextToWrite = Place(Len(log), done[s] + copied[s]) /\ done[s] \in Nat
          /\ \A t \in Senders : t # s => pc[t] \notin Held
      BY <3>1, HolderIs
    <3>5. CopiedByWriter' = 0 /\ NextToWrite' = Place(Len(log), done'[s] + copied'[s])
      BY <1>3, <3>1, <3>4 DEF CopiedByWriter, NextToWrite, Place
    <3>6. done'[s] + copied'[s] = done[s] + copied[s]
      BY <3>1, <3>2, <3>3, <3>4
    <3>7. NextToWrite' = NextToWrite
      BY <3>4, <3>5, <3>6
    <3>8. WordsInRing' = WordsInRing
      BY <1>1, <1>3, <3>1, <3>2, <3>3, <3>4, <3>5, RingCounts DEF WordsInRing
    <3>9. WriterFrames'
      <4>1. pc'[s] \in Held /\ (pc'[s] = "unlock" => done'[s] = size'[s] + 1)
        BY <1>1, <3>1 DEF TypeOK, Held
      <4>2. \A t \in Senders \ {s} : pc'[t] = pc[t]
        BY <1>1, <3>1 DEF TypeOK
      <4>3. QED
        BY <1>1, <1>3, <3>1, <3>4, <4>1, <4>2 DEF WriterFrames
    <3>10. QED
      BY <3>7, <3>8, <3>9
  <2>3. CASE Unlock(s)
    <3>1. /\ pc[s] = "unlock" /\ pc[s] \in Held /\ lock' = NoActor
          /\ pc' = [pc EXCEPT ![s] = "idle"] /\ UNCHANGED <<used, size, done, copied, current>>
      BY <2>3 DEF Unlock, Held
    <3>2. done[s] = size[s] + 1 /\ copied[s] = 0
      BY <1>1, <3>1 DEF WriterFrames, QueueInv, WriterBounds
    <3>3. /\ lock = s /\ lock # NoActor /\ CopiedByWriter = copied[s] /\ log[Len(log)].size = size[s]
          /\ NextToWrite = Place(Len(log), done[s] + copied[s]) /\ size[s] \in Nat
          /\ \A t \in Senders : t # s => pc[t] \notin Held
      BY <3>1, HolderIs
    <3>4. done[s] + copied[s] = log[Len(log)].size + 1
      BY <3>2, <3>3
    <3>5. NextToWrite = <<Len(log) + 1, 0>>
      BY <3>3, <3>4 DEF Place
    <3>6. NextToWrite' = NextToWrite
      BY <1>3, <3>1, <3>5 DEF NextToWrite
    <3>7. CopiedByWriter' = CopiedByWriter
      BY <3>1, <3>2, <3>3 DEF CopiedByWriter
    <3>8. WordsInRing' = WordsInRing
      BY <1>3, <3>1, <3>7 DEF WordsInRing
    <3>9. WriterFrames'
      <4>1. \A t \in Senders : pc'[t] \notin Held
        BY <1>1, <3>1, <3>3 DEF TypeOK, Held
      <4>2. QED
        BY <3>1, <4>1 DEF WriterFrames
    <3>10. QED
      BY <3>6, <3>8, <3>9
  <2>4. CASE Contend(s)
    <3>1. /\ pc[s] = "idle" /\ pc' = [pc EXCEPT ![s] = "blocked"]
          /\ UNCHANGED <<lock, used, done, copied, current>>
          /\ \A t \in Senders \ {s} : size'[t] = size[t]
      BY <1>1, <2>4 DEF Contend, MayStart, shared, TypeOK
    <3>2. pc[s] \notin Held /\ pc'[s] \notin Held /\ \A t \in Senders \ {s} : pc'[t] = pc[t]
      BY <1>1, <3>1 DEF TypeOK, Held
    <3>3. lock # NoActor => lock \in Senders /\ pc'[lock] \in Held
      <4>1. lock # NoActor => lock \in Senders /\ pc[lock] \in Held
        BY <1>1 DEF WriterFrames, TypeOK
      <4>2. QED
        BY <3>2, <4>1
    <3>4. WriterFrames'
      BY <1>1, <1>3, <3>1, <3>2, <3>3 DEF WriterFrames
    <3>5. QED
      BY <1>3, <3>1, <3>4 DEF WordsInRing, CopiedByWriter, NextToWrite, Place
  <2>5. QED
    BY <2>1, <2>2, <2>3, <2>4
<1>5. LineOfWords'
  BY <1>1, <1>2, <1>3, <1>4, LineSame, LineKept
<1>6. QED
  BY <1>3, <1>4, <1>5

\* Copying a word puts the word that was next to write at the end of the ring.
LEMMA CopyWordFrames ==
  ASSUME FrameInv, NEW s \in Senders, CopyWord(s)
  PROVE  /\ WriterFrames' /\ LineOfWords' /\ ReaderFrames' /\ FramingKept'
         /\ \A i \in 0..WordsInRing : Line(i)' = Line(i)
<1> DEFINE n == used + copied[s] - TakenByReader
           m == Len(log)
           k == done[s] + copied[s]
<1>1. QueueInv /\ TypeOK /\ WriterFrames /\ LineOfWords /\ ReaderFrames /\ FramingKept
  BY DEF FrameInv, QueueInv
<1>2. /\ pc[s] = "copy" /\ pc[s] \in Held
      /\ ring' = [ring EXCEPT ![store] = MessageWord(current[s], k)]
      /\ copied'[s] = copied[s] + 1
      /\ pc' = [pc EXCEPT ![s] = IF copied[s] + 1 = Piece(s) THEN "publish" ELSE "copy"]
      /\ UNCHANGED <<read, used, lock, size, done, current, readerVars, history>>
  BY <1>1 DEF CopyWord, Held, TypeOK
<1>3. /\ NextToRead' = NextToRead /\ TakenByReader' = TakenByReader /\ ReaderFrames' /\ FramingKept'
      /\ UNCHANGED <<log, delivered>>
  BY <1>1, <1>2, WritersLeaveReader DEF history
<1>4. /\ lock = s /\ lock # NoActor /\ current[s] = m /\ m \in DOMAIN log
      /\ log[m].size = size[s] /\ size[s] \in Nat /\ done[s] \in Nat /\ copied[s] \in Nat
      /\ CopiedByWriter = copied[s] /\ NextToWrite = Place(m, k)
      /\ \A t \in Senders : t # s => pc[t] \notin Held
  BY <1>2, HolderIs
<1>5. /\ copied[s] < Piece(s) /\ done[s] <= size[s] /\ used + Piece(s) <= Size
      /\ Piece(s) \in 1..Size /\ done[s] + Piece(s) <= size[s] + 1
  BY <1>1, <1>2, PieceBounds DEF QueueInv, WriterBounds
<1>6. k \in 0..log[m].size
  BY <1>4, <1>5
<1>7. n \in Nat /\ n < Size /\ WordsInRing = n
  <2> DEFINE c == copied[s]
             e == Piece(s)
             t == TakenByReader
  <2>1. /\ used \in Nat /\ c \in Nat /\ e \in 1..Size /\ c < e /\ used + e <= Size /\ Size \in Nat
        /\ t \in Nat /\ t <= used /\ WordsInRing = used + c - t /\ n = used + c - t
    BY <1>1, <1>4, <1>5, RingCounts
  <2> HIDE DEF n, c, e, t
  <2> QED
    BY <2>1
<1>8. WordsInRing' = WordsInRing + 1
  <2>1. CopiedByWriter' = copied[s] + 1
    BY <1>2, <1>4 DEF CopiedByWriter
  <2> DEFINE c == copied[s]
             t == TakenByReader
  <2>2. used \in Nat /\ c \in Nat /\ t \in Nat
    BY <1>1, <1>4, RingCounts
  <2>3. WordsInRing = used + c - t /\ WordsInRing' = used + (c + 1) - t
    BY <1>2, <1>3, <1>4, <2>1 DEF WordsInRing
  <2> HIDE DEF c, t
  <2>4. QED
    BY <2>2, <2>3
<1>9. NextToWrite = <<m, k>> /\ NextToWrite' = Place(m, k + 1)
  <2>1. k # log[m].size + 1 /\ done[s] + (copied[s] + 1) = k + 1
    BY <1>4, <1>5, <1>6
  <2>2. NextToWrite' = Place(m, done[s] + (copied[s] + 1))
    BY <1>2, <1>3, <1>4 DEF NextToWrite, Place
  <2>3. QED
    BY <1>4, <2>1, <2>2 DEF Place
<1>10. PICK w \in Nat : w = n
  BY <1>7
<1>11. \A i \in 0..w : Line(i)' = Line(i)
  <2>0. w = WordsInRing /\ WordsInRing' = w + 1 /\ w < Size /\ Size \in Nat
    BY <1>1, <1>7, <1>8, <1>10, RingCounts
  <2>1. store = Offset(w) /\ store \in 0..(Size - 1) /\ w \in 0..(Size - 1)
    BY <1>1, <1>7, <1>10, RingCounts
  <2>2. ring \in [0..(Size - 1) -> Word]
    BY <1>1 DEF TypeOK
  <2>3. \A i : Offset(i)' = Offset(i)
    BY <1>2 DEF Offset
  <2>4. ASSUME NEW i \in 0..w PROVE Line(i)' = ring'[Offset(i)] /\ Offset(i) \in 0..(Size - 1)
    <3>1. i \in 0..(Size - 1) /\ i < WordsInRing'
      BY <2>0
    <3>2. Offset(i) \in 0..(Size - 1)
      BY <1>1, <3>1, OffsetInRing
    <3>3. QED
      BY <2>3, <3>1, <3>2 DEF Line
  <2>5. Line(w)' = Line(w)
    <3>1. Line(w)' = MessageWord(current[s], k)
      BY <1>2, <2>1, <2>2, <2>4
    <3>2. Line(w) = NextToWrite
      BY <1>7, <1>10 DEF Line
    <3>3. QED
      BY <1>4, <1>9, <3>1, <3>2 DEF MessageWord
  <2>6. ASSUME NEW i \in 0..(w - 1) PROVE Line(i)' = Line(i)
    <3>1. i \in 0..w /\ i \in 0..(Size - 1) /\ i # w /\ i < WordsInRing
      BY <2>0
    <3>2. Offset(i) # store
      BY <1>1, <2>1, <3>1, OffsetInRing
    <3>3. ring'[Offset(i)] = ring[Offset(i)]
      BY <1>2, <2>2, <2>4, <3>1, <3>2
    <3>4. QED
      BY <2>4, <3>1, <3>3 DEF Line
  <2>7. QED
    BY <2>5, <2>6
<1>12. LineOfWords'
  <2>1. Line(w) = <<m, k>>
    BY <1>7, <1>9, <1>10 DEF Line
  <2>2. Line(w + 1)' = Place(m, k + 1)
    BY <1>7, <1>8, <1>9, <1>10 DEF Line
  <2>3. PICK M \in DOMAIN log : M = m
    BY <1>4
  <2>4. PICK K \in 0..log[M].size : K = k
    BY <1>6, <2>3
  <2> HIDE DEF n, m, k
  <2>5. WordsInRing = w /\ WordsInRing' = w + 1
    BY <1>7, <1>8, <1>10
  <2>6. QED
    BY <1>1, <1>3, <1>11, <2>1, <2>2, <2>3, <2>4, <2>5, LineGrows
<1>13. WriterFrames'
  <2>1. pc'[s] \in {"publish", "copy"} /\ pc'[s] \in Held /\ \A t \in Senders \ {s} : pc'[t] = pc[t]
    BY <1>1, <1>2 DEF TypeOK, Held
  <2>2. QED
    BY <1>1, <1>2, <1>3, <1>4, <2>1 DEF WriterFrames
<1>14. w = WordsInRing
  BY <1>7, <1>10
<1>15. QED
  BY <1>3, <1>11, <1>12, <1>13, <1>14

\* Starting a message and sampling used_buffer take no word.
LEMMA SampleFrames ==
  ASSUME FrameInv, StartRead \/ Sample
  PROVE  WriterFrames' /\ LineOfWords' /\ ReaderFrames' /\ FramingKept'
<1>1. QueueInv /\ TypeOK /\ WriterFrames /\ LineOfWords /\ ReaderFrames /\ FramingKept
  BY DEF FrameInv, QueueInv
<1>2. UNCHANGED <<ring, read, used, lock, senderVars, log, delivered>>
  BY DEF StartRead, Sample, shared, history
<1>3. TakenByReader = 0 /\ TakenByReader' = 0
  BY DEF StartRead, Sample, TakenByReader
<1>4. WriterFrames' /\ NextToWrite' = NextToWrite /\ WordsInRing' = WordsInRing
  BY <1>1, <1>2, <1>3, ReaderLeavesFrames DEF WordsInRing
<1>5. NextToRead' = NextToRead /\ ReaderFrames'
  <2>1. CASE StartRead
    <3>1. Len(<<Garbage>>) = 1
      OBVIOUS
    <3>2. QED
      BY <1>1, <1>2, <1>3, <2>1, <3>1 DEF StartRead, NextToRead, ReaderFrames
  <2>2. CASE Sample
    BY <1>1, <1>2, <1>3, <2>2 DEF Sample, NextToRead, ReaderFrames, Place
  <2>3. QED
    BY <2>1, <2>2
<1>6. LineOfWords'
  BY <1>1, <1>2, <1>4, <1>5, LineSame, LineKept
<1>7. FramingKept'
  BY <1>1, <1>2 DEF FramingKept
<1>8. QED
  BY <1>4, <1>5, <1>6, <1>7

\* The word that is taken is the one the reader needs.
LEMMA TakeWordFrames ==
  ASSUME FrameInv, TakeWord
  PROVE  /\ WriterFrames' /\ LineOfWords' /\ ReaderFrames' /\ FramingKept'
         /\ ring[read] = NextToRead
         /\ \A i \in 0..(WordsInRing - 1) : Line(i)' = Line(i + 1)
<1> DEFINE m == Len(delivered) + 1
<1>1. QueueInv /\ TypeOK /\ WriterFrames /\ LineOfWords /\ ReaderFrames /\ FramingKept
  BY DEF FrameInv, QueueInv
<1>2. /\ rpc = "copy" /\ data' = [data EXCEPT ![taken + 1] = ring[read]]
      /\ read' = NextPosition(read) /\ taken' = taken + 1
      /\ rpc' = IF taken + 1 = doRead THEN "giveback" ELSE "copy"
      /\ UNCHANGED <<ring, used, lock, senderVars, part, toRead, doRead, log, delivered>>
  BY DEF TakeWord, DataIndex, history
<1>3. /\ taken \in Nat /\ doRead \in Nat /\ toRead \in Nat
      /\ taken < doRead /\ doRead <= used /\ doRead <= toRead
  BY <1>1, <1>2 DEF QueueInv, TypeOK, ReaderBounds
<1>4. TakenByReader = taken /\ TakenByReader' = taken + 1
  BY <1>2 DEF TakenByReader
<1>5. WriterFrames' /\ NextToWrite' = NextToWrite /\ CopiedByWriter' = CopiedByWriter
  BY <1>1, <1>2, ReaderLeavesFrames
<1>6. PICK n \in Nat \ {0} : n = WordsInRing
  BY <1>1, <1>3, <1>4, RingCounts
<1>7. WordsInRing' = n - 1 /\ n <= Size
  BY <1>1, <1>2, <1>3, <1>4, <1>5, <1>6, RingCounts DEF WordsInRing
<1>8. \A i \in 0..(n - 1) : Line(i)' = Line(i + 1)
  <2> SUFFICES ASSUME NEW i \in 0..(n - 1) PROVE Line(i)' = Line(i + 1)
    OBVIOUS
  <2>1. CASE i = n - 1
    BY <1>5, <1>6, <1>7, <2>1 DEF Line
  <2>2. CASE i # n - 1
    <3>1. i < WordsInRing' /\ i + 1 < WordsInRing
      BY <1>6, <1>7, <2>2
    <3>2. Offset(i)' = Offset(i + 1)
      BY <1>1, <1>2, <1>6, <1>7, RingCounts DEF Offset, NextPosition
    <3>3. QED
      BY <1>2, <3>1, <3>2 DEF Line
  <2>3. QED
    BY <2>1, <2>2
<1>9. ring[read] = NextToRead
  <2>1. Line(0) = NextToRead
    BY <1>1 DEF LineOfWords
  <2>2. 0 < WordsInRing /\ Offset(0) = read
    BY <1>1, <1>6, RingCounts DEF Offset
  <2>3. QED
    BY <2>1, <2>2 DEF Line
<1>10. NextToRead[1] \in DOMAIN log /\ NextToRead[2] \in 0..log[NextToRead[1]].size
  BY <1>1, <1>6 DEF LineOfWords
<1>11. NextToRead' = Place(NextToRead[1], NextToRead[2] + 1)
  <2>1. part = "header" \/ part = "body"
    BY <1>1 DEF TypeOK
  <2>2. CASE part = "header"
    <3>1. toRead = 1 /\ taken = 0
      BY <1>1, <1>2, <1>3, <2>2 DEF ReaderFrames
    <3>2. NextToRead = <<m, 0>> /\ NextToRead' = <<m, 1>>
      BY <1>2, <1>4, <2>2, <3>1 DEF NextToRead
    <3>3. m \in DOMAIN log
      BY <1>10, <3>2
    <3>4. 1 # log[m].size + 1
      BY <1>1, <3>3, LogSizes
    <3>5. Place(m, 0 + 1) = <<m, 1>>
      BY <3>4 DEF Place
    <3>6. QED
      BY <3>2, <3>5
  <2>3. CASE part = "body"
    <3> DEFINE k == 1 + log[m].size - toRead + taken
    <3>1. m \in DOMAIN log /\ toRead \in 1..log[m].size /\ log[m].size \in Nat
      BY <1>1, <1>2, <2>3, LogSizes DEF ReaderFrames
    <3>2. k \in Nat /\ k # log[m].size + 1 /\ 1 + log[m].size - toRead + (taken + 1) = k + 1
      BY <1>3, <3>1
    <3>3. NextToRead = Place(m, k) /\ NextToRead' = Place(m, 1 + log[m].size - toRead + (taken + 1))
      BY <1>2, <1>4, <2>3 DEF NextToRead, Place
    <3> HIDE DEF k
    <3>4. NextToRead = <<m, k>>
      BY <3>2, <3>3 DEF Place
    <3>5. QED
      BY <3>2, <3>3, <3>4
  <2>4. QED
    BY <2>1, <2>2, <2>3
<1>12. LineOfWords'
  BY <1>1, <1>2, <1>6, <1>7, <1>8, <1>11, LineShrinks
<1>13. Len(data') = Len(data) /\ (1 <= Len(data) /\ taken = 0 => data'[1] = ring[read])
  <2>1. data \in Seq(Word) /\ ring[read] \in Word
    BY <1>1 DEF QueueInv, TypeOK
  <2>2. QED
    BY <1>2, <2>1
<1>14. ReaderFrames'
  <2>1. CASE part = "header"
    <3>1. toRead = 1 /\ Len(data) = 1 /\ taken = 0
      BY <1>1, <1>2, <1>3, <2>1 DEF ReaderFrames
    <3>2. NextToRead = <<m, 0>>
      BY <1>2, <1>4, <2>1, <3>1 DEF NextToRead
    <3>3. m \in DOMAIN log /\ data'[1] = <<m, 0>>
      BY <1>9, <1>10, <1>13, <3>1, <3>2
    <3>4. QED
      BY <1>2, <1>13, <2>1, <3>1, <3>3 DEF ReaderFrames
  <2>2. CASE part = "body"
    BY <1>1, <1>2, <1>13, <2>2 DEF ReaderFrames
  <2>3. QED
    BY <1>1, <2>1, <2>2 DEF TypeOK
<1>15. FramingKept'
  BY <1>1, <1>2 DEF FramingKept
<1>16. QED
  BY <1>5, <1>6, <1>8, <1>9, <1>12, <1>14, <1>15

\* Giving the words back ends a round, the header or the message.
LEMMA GiveBackFrames ==
  ASSUME FrameInv, GiveBack
  PROVE  WriterFrames' /\ LineOfWords' /\ ReaderFrames' /\ FramingKept'
<1> DEFINE m == Len(delivered) + 1
<1>1. QueueInv /\ TypeOK /\ WriterFrames /\ LineOfWords /\ ReaderFrames /\ FramingKept
  BY DEF FrameInv, QueueInv
<1>2. /\ rpc = "giveback" /\ used' = used - doRead
      /\ UNCHANGED <<ring, store, read, lock, senderVars, doRead, taken, log>>
  BY DEF GiveBack
<1>3. /\ taken = doRead /\ doRead \in Nat /\ toRead \in Nat
      /\ doRead > 0 /\ doRead <= toRead
  BY <1>1, <1>2 DEF QueueInv, TypeOK, ReaderBounds
<1>4. TakenByReader = doRead /\ TakenByReader' = 0
  BY <1>2, <1>3 DEF TakenByReader, GiveBack
<1>5. WriterFrames' /\ NextToWrite' = NextToWrite /\ CopiedByWriter' = CopiedByWriter
  BY <1>1, <1>2, ReaderLeavesFrames
<1>6. WordsInRing' = WordsInRing
  BY <1>1, <1>2, <1>3, <1>4, <1>5, RingCounts DEF WordsInRing
<1>7. m \in DOMAIN log /\ log[m].size \in Nat /\ log[m].size >= 1
  <2>1. m \in DOMAIN log
    BY <1>1, <1>2 DEF ReaderFrames, TypeOK
  <2>2. QED
    BY <1>1, <2>1, LogSizes
<1>8. NextToRead' = NextToRead /\ ReaderFrames' /\ FramingKept'
  <2>1. CASE toRead # doRead
    <3>1. /\ toRead' = toRead - doRead /\ rpc' = "sample" /\ UNCHANGED <<part, data, delivered>>
      BY <2>1 DEF GiveBack
    <3>2. part = "body"
      BY <1>1, <1>2, <1>3, <2>1 DEF ReaderFrames, TypeOK
    <3>3. Len(data) = log[m].size /\ toRead \in 1..log[m].size
      BY <1>1, <1>2, <3>2 DEF ReaderFrames
    <3>4. 1 + log[m].size - (toRead - doRead) + 0 = 1 + log[m].size - toRead + doRead
      BY <1>3, <1>7
    <3>5. NextToRead' = NextToRead
      BY <1>2, <1>4, <3>1, <3>2, <3>4 DEF NextToRead, Place
    <3>6. ReaderFrames'
      BY <1>2, <1>3, <1>7, <2>1, <3>1, <3>2, <3>3 DEF ReaderFrames
    <3>7. QED
      BY <1>1, <1>2, <3>1, <3>5, <3>6 DEF FramingKept
  <2>2. CASE toRead = doRead /\ part = "header"
    <3>1. /\ toRead' = HeaderValue(data[1]) /\ data' = [k \in 1..HeaderValue(data[1]) |-> Garbage]
          /\ part' = "body" /\ rpc' = "sample" /\ UNCHANGED delivered
      BY <2>2 DEF GiveBack
    <3>2. toRead = 1 /\ data[1] = <<m, 0>>
      BY <1>1, <1>2, <2>2 DEF ReaderFrames
    <3>3. HeaderValue(data[1]) = log[m].size
      BY <1>7, <3>2 DEF HeaderValue
    <3>4. Len(data') = log[m].size
      BY <1>7, <3>1, <3>3
    <3>5. ReaderFrames'
      BY <1>2, <1>7, <3>1, <3>3, <3>4 DEF ReaderFrames
    <3>6. NextToRead' = Place(m, 1) /\ NextToRead = <<m, 1>>
      <4>1. 1 + log[m].size - log[m].size + 0 = 1
        BY <1>7
      <4>2. QED
        BY <1>2, <1>4, <2>2, <3>1, <3>2, <3>3, <4>1 DEF NextToRead, Place
    <3>7. NextToRead' = NextToRead
      BY <1>7, <3>6 DEF Place
    <3>8. QED
      BY <1>1, <1>2, <3>1, <3>5, <3>7 DEF FramingKept
  <2>3. CASE toRead = doRead /\ part = "body"
    <3>1. toRead' = 0 /\ delivered' = Append(delivered, data) /\ rpc' = "idle" /\ UNCHANGED part
      BY <2>3 DEF GiveBack
    <3>2. Len(data) = log[m].size
      BY <1>1, <1>2, <2>3 DEF ReaderFrames
    <3>3. delivered \in Seq(Seq(Word)) /\ data \in Seq(Word)
      BY <1>1 DEF TypeOK
    <3>4. /\ Len(delivered) \in Nat /\ Len(delivered') = Len(delivered) + 1
          /\ DOMAIN delivered' = 1..(Len(delivered) + 1) /\ DOMAIN delivered = 1..Len(delivered)
          /\ delivered'[Len(delivered) + 1] = data
          /\ \A j \in 1..Len(delivered) : delivered'[j] = delivered[j]
      BY <3>1, <3>3, AppendProperties
    <3>5. ReaderFrames'
      BY <3>1 DEF ReaderFrames
    <3>6. 1 + log[m].size - toRead + doRead = log[m].size + 1
      BY <1>3, <1>7, <2>3
    <3>7. NextToRead = <<m + 1, 0>>
      BY <1>2, <1>4, <2>3, <3>6 DEF NextToRead, Place
    <3>8. NextToRead' = NextToRead
      BY <3>1, <3>4, <3>7 DEF NextToRead
    <3>9. FramingKept'
      <4>1. DOMAIN log = 1..Len(log) /\ Len(log) \in Nat
        BY <1>1, LogSizes
      <4>2. Len(delivered') <= Len(log')
        BY <1>2, <1>7, <3>4, <4>1
      <4>3. \A j \in DOMAIN delivered' : Len(delivered'[j]) = log'[j].size
        BY <1>1, <1>2, <3>2, <3>4 DEF FramingKept
      <4>4. QED
        BY <4>2, <4>3 DEF FramingKept
    <3>10. QED
      BY <3>5, <3>8, <3>9
  <2>4. QED
    BY <1>1, <2>1, <2>2, <2>3 DEF TypeOK
<1>9. LineOfWords'
  BY <1>1, <1>2, <1>5, <1>6, <1>8, LineSame, LineKept
<1>10. QED
  BY <1>5, <1>8, <1>9

-----------------------------------------------------------------------------
(* Messages keep their boundaries.                                          *)

LEMMA InitFrames == Init => FrameInv
<1> SUFFICES ASSUME Init PROVE FrameInv
  OBVIOUS
<1>1. QueueInv
  BY InitInv
<1>2. log = << >> /\ delivered = << >> /\ Len(log) = 0 /\ Len(delivered) = 0 /\ DOMAIN delivered = {}
      /\ lock = NoActor /\ rpc = "idle" /\ used = 0
  BY DEF Init
<1>3. WordsInRing = 0 /\ NextToWrite = <<1, 0>> /\ NextToRead = <<1, 0>>
  BY <1>2 DEF WordsInRing, CopiedByWriter, TakenByReader, NextToWrite, NextToRead
<1>4. LineOfWords
  BY <1>3 DEF LineOfWords, Line
<1>5. WriterFrames /\ ReaderFrames /\ FramingKept
  BY <1>2 DEF Init, WriterFrames, ReaderFrames, FramingKept, Held
<1>6. QED
  BY <1>1, <1>4, <1>5 DEF FrameInv

LEMMA NextFrames == FrameInv /\ [Next]_vars => FrameInv'
<1> SUFFICES ASSUME FrameInv, [Next]_vars
             PROVE  WriterFrames' /\ LineOfWords' /\ ReaderFrames' /\ FramingKept'
  BY NextKeepsInv DEF FrameInv
<1>1. ASSUME NEW s \in Senders, Enqueue(s) \/ Wake(s) PROVE WriterFrames' /\ LineOfWords' /\ ReaderFrames' /\ FramingKept'
  <2>1. PICK n \in BodySizes : TakeLock(s, n)
    BY <1>1 DEF Enqueue, Wake, FrameInv, QueueInv, WriterBounds
  <2>2. QED
    BY <2>1, TakeLockFrames
<1>2. ASSUME NEW s \in Senders, Contend(s) \/ HolderStep(s)
      PROVE  WriterFrames' /\ LineOfWords' /\ ReaderFrames' /\ FramingKept'
  BY <1>2, WriterStepFrames, CopyWordFrames DEF HolderStep
<1>3. CASE ReaderStep
  BY <1>3, SampleFrames, TakeWordFrames, GiveBackFrames DEF ReaderStep
<1>4. CASE UNCHANGED vars
  <2>1. /\ UNCHANGED <<ring, read, used, lock, log, delivered>> /\ UNCHANGED <<senderVars, readerVars, history>>
    BY <1>4 DEF vars, shared, history
  <2>2. TakenByReader' = TakenByReader /\ NextToRead' = NextToRead /\ ReaderFrames' /\ FramingKept'
    BY <2>1, WritersLeaveReader DEF FrameInv
  <2>3. WriterFrames' /\ NextToWrite' = NextToWrite /\ CopiedByWriter' = CopiedByWriter
    BY <2>1, ReaderLeavesFrames DEF FrameInv
  <2>4. WordsInRing' = WordsInRing
    BY <2>1, <2>2, <2>3 DEF WordsInRing
  <2>5. LineOfWords'
    BY <2>1, <2>2, <2>3, <2>4, LineSame, LineKept DEF FrameInv
  <2>6. QED
    BY <2>2, <2>3, <2>5
<1>5. QED
  BY <1>1, <1>2, <1>3, <1>4 DEF Next

LEMMA FrameInvHolds == Spec => []FrameInv
<1>1. QED
  BY InitFrames, NextFrames, PTL DEF Spec

\* The reader never loses the boundary between two messages: they come out in the
\* order the lock was taken, each with its length, for bodies of any size, also
\* those that are published in several chunks (synced_queue.cpp:58-73,
\* actors.cpp:278-289).
THEOREM FramingAlwaysKept == Spec => []FramingKept
<1>1. FrameInv => FramingKept
  BY DEF FrameInv
<1>2. QED
  BY <1>1, FrameInvHolds, PTL

-----------------------------------------------------------------------------
(* Short bodies arrive whole.                                               *)

\* No body is longer than a chunk, so it is published in one piece.
ShortBodies == BodySizes \subseteq 1..Chunk

\* What the writers have published ends with a header or with a body.
PublishedWhole ==
  /\ \A s \in Senders : pc[s] \in Held => done[s] \in {0, 1, size[s] + 1}
  /\ Line(used - TakenByReader)
       = IF lock = NoActor THEN <<Len(log) + 1, 0>> ELSE Place(Len(log), done[lock])

\* A body is taken in one round.
TakenWhole ==
  LET m == Len(delivered) + 1 IN
  rpc # "idle" /\ part = "body" =>
    /\ toRead = log[m].size
    /\ rpc \in {"copy", "giveback"} =>
         doRead = toRead /\ \A k \in 1..taken : data[k] = MessageWord(m, k)

WholeInv == FrameInv /\ PublishedWhole /\ TakenWhole /\ DeliveredIntact

\* Between two pieces everything in the ring is published.
BetweenPieces ==
  QueueInv /\ CopiedByWriter = 0
    => Line(used - TakenByReader)
         = IF lock = NoActor THEN <<Len(log) + 1, 0>> ELSE Place(Len(log), done[lock])

LEMMA NothingCopied == BetweenPieces
<1> SUFFICES ASSUME QueueInv, CopiedByWriter = 0
             PROVE  Line(used - TakenByReader)
                      = IF lock = NoActor THEN <<Len(log) + 1, 0>> ELSE Place(Len(log), done[lock])
  BY DEF BetweenPieces
<1>1. WordsInRing = used - TakenByReader /\ WordsInRing \in Nat
  BY RingCounts
<1>2. Line(used - TakenByReader) = NextToWrite
  BY <1>1 DEF Line
<1>3. lock # NoActor => done[lock] + copied[lock] = done[lock]
  BY DEF CopiedByWriter, QueueInv, TypeOK
<1>4. QED
  BY <1>2, <1>3 DEF NextToWrite

LEMMA NothingCopiedNext == BetweenPieces'
BY NothingCopied, PTL

\* Where the published words end, a header or a body begins.
LEMMA PublishedEnd ==
  ASSUME FrameInv, PublishedWhole
  PROVE  Line(used - TakenByReader)[2] \in {0, 1}
<1>1. CASE lock = NoActor
  BY <1>1 DEF PublishedWhole
<1>2. CASE lock # NoActor
  <2>1. lock \in Senders /\ pc[lock] \in Held
    BY <1>2 DEF FrameInv, QueueInv, TypeOK, WriterFrames
  <2>2. /\ log[Len(log)].size = size[lock] /\ size[lock] \in Nat /\ size[lock] >= 1
        /\ done[lock] \in {0, 1, size[lock] + 1}
    BY <2>1, HolderIs DEF PublishedWhole
  <2>3. Place(Len(log), done[lock])[2] \in {0, 1}
    BY <2>2 DEF Place
  <2>4. QED
    BY <1>2, <2>3 DEF PublishedWhole
<1>3. QED
  BY <1>1, <1>2

\* A step of a writer.
LEMMA WriterWhole ==
  ASSUME WholeInv, FrameInv', UNCHANGED <<readerVars, delivered>>,
         \A m \in DOMAIN log : m \in DOMAIN log' /\ log'[m] = log[m], PublishedWhole'
  PROVE  WholeInv'
<1>1. TypeOK /\ ReaderFrames /\ FramingKept /\ TakenWhole /\ DeliveredIntact
  BY DEF WholeInv, FrameInv, QueueInv
<1>2. TakenWhole'
  BY <1>1 DEF TakenWhole, ReaderFrames, readerVars
<1>3. DeliveredIntact'
  <2>1. \A j \in DOMAIN delivered : j \in DOMAIN log
    <3>1. /\ DOMAIN delivered = 1..Len(delivered) /\ Len(delivered) \in Nat
          /\ DOMAIN log = 1..Len(log) /\ Len(log) \in Nat /\ Len(delivered) <= Len(log)
      BY <1>1, LogSizes DEF TypeOK, FramingKept
    <3>2. QED
      BY <3>1
  <2>2. QED
    BY <1>1, <2>1 DEF DeliveredIntact
<1>4. QED
  BY <1>2, <1>3 DEF WholeInv

LEMMA WritersKeepWhole ==
  ASSUME ShortBodies, WholeInv, FrameInv', NEW s \in Senders,
         (\E n \in BodySizes : TakeLock(s, n)) \/ Contend(s) \/ HolderStep(s)
  PROVE  WholeInv'
<1>1. TypeOK /\ QueueInv /\ FrameInv /\ PublishedWhole /\ QueueInv'
  BY DEF WholeInv, FrameInv, QueueInv
<1>2. UNCHANGED <<readerVars, delivered>> /\ TakenByReader' = TakenByReader
  BY DEF TakeLock, Contend, HolderStep, FindSpace, CopyWord, Publish, Unlock, shared, history, readerVars,
         TakenByReader
<1>3. \A m \in DOMAIN log : m \in DOMAIN log' /\ log'[m] = log[m]
  <2>1. CASE \E n \in BodySizes : TakeLock(s, n)
    <3>1. PICK n \in BodySizes : log' = Append(log, [from |-> s, size |-> n])
      BY <2>1 DEF TakeLock
    <3>2. log \in Seq([from : Senders, size : BodySizes])
          /\ [from |-> s, size |-> n] \in [from : Senders, size : BodySizes]
      BY <1>1 DEF TypeOK
    <3>3. QED
      BY <3>1, <3>2, AppendProperties
  <2>2. CASE Contend(s) \/ HolderStep(s)
    BY <2>2 DEF Contend, HolderStep, FindSpace, CopyWord, Publish, Unlock, history
  <2>3. QED
    BY <2>1, <2>2
<1>4. PublishedWhole'
  <2>1. CASE \E n \in BodySizes : TakeLock(s, n)
    <3>1. CopiedByWriter' = 0
      BY <1>1, <2>1 DEF TakeLock, CopiedByWriter, TypeOK
    <3>2. \A t \in Senders : pc'[t] \in Held => done'[t] \in {0, 1, size'[t] + 1}
      BY <1>1, <2>1, NoActorAssumption DEF TakeLock, QueueInv, LockHeld, TypeOK
    <3>3. QED
      BY <1>1, <3>1, <3>2, NothingCopiedNext DEF PublishedWhole, BetweenPieces
  <2>2. CASE Contend(s)
    <3>1. /\ UNCHANGED <<ring, read, used, lock, done, copied, log>>
          /\ pc[s] \notin Held /\ pc'[s] \notin Held
          /\ \A t \in Senders \ {s} : pc'[t] = pc[t] /\ size'[t] = size[t]
      BY <1>1, <2>2 DEF Contend, MayStart, shared, history, TypeOK, Held
    <3>2. CopiedByWriter' = CopiedByWriter /\ NextToWrite' = NextToWrite /\ \A m, k : Place(m, k)' = Place(m, k)
      BY <3>1 DEF CopiedByWriter, NextToWrite, Place
    <3>3. WordsInRing' = WordsInRing
      BY <1>2, <3>1, <3>2 DEF WordsInRing
    <3>4. Line(used - TakenByReader)' = Line(used - TakenByReader)
      BY <1>2, <3>1, <3>2, <3>3 DEF Line, Offset
    <3>5. Place(Len(log), done[lock])' = Place(Len(log), done[lock])
      BY <3>1 DEF Place
    <3>6. QED
      BY <1>1, <3>1, <3>4, <3>5 DEF PublishedWhole
  <2>3. CASE FindSpace(s)
    <3>1. pc[s] = "space" /\ pc[s] \in Held /\ UNCHANGED <<lock, size, done, copied>>
          /\ \A t \in Senders \ {s} : pc'[t] = pc[t]
      BY <1>1, <2>3 DEF FindSpace, shared, Held, TypeOK
    <3>2. copied[s] = 0 /\ lock = s
      BY <1>1, <3>1 DEF QueueInv, WriterBounds, LockHeld
    <3>3. CopiedByWriter' = 0
      BY <3>1, <3>2 DEF CopiedByWriter
    <3>4. \A t \in Senders : pc'[t] \in Held => done'[t] \in {0, 1, size'[t] + 1}
      BY <1>1, <3>1 DEF PublishedWhole
    <3>5. QED
      BY <1>1, <3>3, <3>4, NothingCopiedNext DEF PublishedWhole, BetweenPieces
  <2>4. CASE CopyWord(s)
    <3>1. /\ pc[s] = "copy" /\ pc[s] \in Held /\ UNCHANGED <<used, lock, size, done, log>>
          /\ \A t \in Senders \ {s} : pc'[t] = pc[t]
      BY <1>1, <2>4 DEF CopyWord, Held, TypeOK, history
    <3>2. \A t \in Senders : pc'[t] \in Held => done'[t] \in {0, 1, size'[t] + 1}
      BY <1>1, <3>1 DEF PublishedWhole
    <3>3. PICK v \in Int : v = used - TakenByReader /\ v \in 0..WordsInRing
      BY <1>1, RingCounts
    <3>4. Line(v)' = Line(v)
      BY <1>1, <2>4, <3>3, CopyWordFrames
    <3>5. (used - TakenByReader)' = v
      BY <1>2, <3>1, <3>3
    <3>6. Line(used - TakenByReader)' = Line(used - TakenByReader)
      BY <3>3, <3>4, <3>5 DEF Line, Offset
    <3>7. Place(Len(log), done[lock])' = Place(Len(log), done[lock])
      BY <3>1 DEF Place
    <3>8. QED
      BY <1>1, <3>1, <3>2, <3>6, <3>7 DEF PublishedWhole
  <2>5. CASE Publish(s)
    <3>1. /\ pc[s] = "publish" /\ pc[s] \in Held /\ UNCHANGED <<lock, size>>
          /\ done'[s] = done[s] + Piece(s) /\ copied'[s] = 0
          /\ \A t \in Senders \ {s} : pc'[t] = pc[t] /\ done'[t] = done[t]
      BY <1>1, <2>5 DEF Publish, Held, TypeOK
    <3>2. /\ lock = s /\ lock # NoActor /\ size[s] \in Nat /\ done[s] \in Nat
          /\ done[s] \in {0, 1, size[s] + 1} /\ done[s] <= size[s] /\ size[s] \in BodySizes
      BY <1>1, <3>1, HolderIs DEF PublishedWhole, QueueInv, WriterBounds
    <3>3. done[s] + Piece(s) \in {0, 1, size[s] + 1}
      <4>1. size[s] <= Chunk /\ Chunk \in Nat
        BY <3>2, ChunkAssumption, SizeAssumption DEF ShortBodies
      <4>2. CASE done[s] = 0
        BY <4>2 DEF Piece
      <4>3. CASE done[s] = 1
        BY <3>2, <4>1, <4>3 DEF Piece, SmallerOf
      <4>4. QED
        BY <3>2, <4>2, <4>3
    <3>4. CopiedByWriter' = 0
      BY <3>1, <3>2 DEF CopiedByWriter
    <3>5. \A t \in Senders : pc'[t] \in Held => done'[t] \in {0, 1, size'[t] + 1}
      BY <1>1, <3>1, <3>3 DEF PublishedWhole
    <3>6. QED
      BY <1>1, <3>4, <3>5, NothingCopiedNext DEF PublishedWhole, BetweenPieces
  <2>6. CASE Unlock(s)
    <3>1. CopiedByWriter' = 0
      BY <2>6 DEF Unlock, CopiedByWriter
    <3>2. /\ UNCHANGED <<size, done>> /\ pc'[s] \notin Held
          /\ \A t \in Senders \ {s} : pc'[t] = pc[t]
      BY <1>1, <2>6 DEF Unlock, TypeOK, Held
    <3>3. QED
      BY <1>1, <3>1, <3>2, NothingCopiedNext DEF PublishedWhole, BetweenPieces
  <2>7. QED
    BY <2>1, <2>2, <2>3, <2>4, <2>5, <2>6 DEF HolderStep
<1>5. QED
  BY <1>1, <1>2, <1>3, <1>4, WriterWhole

\* A body that is there at all is there as a whole, and so it is taken.
LEMMA SampleWhole ==
  ASSUME WholeInv, Sample
  PROVE  TakenWhole'
<1> DEFINE m == Len(delivered) + 1
<1>1. QueueInv /\ TypeOK /\ ReaderFrames /\ LineOfWords /\ FrameInv /\ PublishedWhole /\ TakenWhole
  BY DEF WholeInv, FrameInv, QueueInv
<1>2. /\ rpc = "sample" /\ used # 0 /\ toRead > 0 /\ doRead' = SmallerOf(used, toRead) /\ taken' = 0
      /\ UNCHANGED <<part, toRead, data, log, delivered>>
  BY DEF Sample, history
<1>3. CASE part = "body"
  <2>1. /\ m \in DOMAIN log /\ toRead = log[m].size /\ log[m].size \in Nat /\ log[m].size >= 1
    BY <1>1, <1>2, <1>3, LogSizes DEF ReaderFrames, TakenWhole
  <2>2. TakenByReader = 0
    BY <1>2 DEF TakenByReader
  <2>3. used \in Nat /\ used > 0 /\ used <= WordsInRing /\ WordsInRing \in Nat
    BY <1>1, <1>2, <2>2, RingCounts
  <2>4. NextToRead = <<m, 1>>
    <3>1. 1 + log[m].size - toRead + 0 = 1 /\ 1 # log[m].size + 1
      BY <2>1
    <3>2. QED
      BY <1>2, <1>3, <2>2, <3>1 DEF NextToRead, Place
  <2>5. used >= log[m].size
    <3> SUFFICES ASSUME used < log[m].size PROVE FALSE
      BY <2>1, <2>3
    <3>1. Line(0) = <<m, 1>> /\ 0 \in 0..(WordsInRing - 1) /\ used \in 0..WordsInRing
      BY <1>1, <2>3, <2>4 DEF LineOfWords
    <3>2. Line(used) = Place(m, 1 + (used - 0))
      BY <1>1, <2>1, <2>3, <3>1 DEF LineOfWords
    <3>3. Line(used) = <<m, 1 + used>>
      BY <2>1, <2>3, <3>2 DEF Place
    <3>4. used - TakenByReader = used
      BY <2>2, <2>3
    <3>5. 1 + used \in {0, 1}
      BY <1>1, <3>3, <3>4, PublishedEnd
    <3>6. QED
      BY <2>3, <3>5
  <2>6. doRead' = toRead
    BY <1>2, <2>1, <2>3, <2>5 DEF SmallerOf
  <2>7. QED
    BY <1>2, <2>1, <2>6 DEF TakenWhole
<1>4. CASE part # "body"
  BY <1>2, <1>4 DEF TakenWhole
<1>5. QED
  BY <1>3, <1>4

LEMMA ReaderKeepsWhole ==
  ASSUME ShortBodies, WholeInv, FrameInv', ReaderStep
  PROVE  WholeInv'
<1> DEFINE m == Len(delivered) + 1
<1>1. /\ TypeOK /\ QueueInv /\ FrameInv /\ ReaderFrames /\ PublishedWhole /\ TakenWhole /\ DeliveredIntact
      /\ QueueInv' /\ TypeOK'
  BY DEF WholeInv, FrameInv, QueueInv
<1>2. UNCHANGED <<ring, lock, senderVars, log>>
  BY DEF ReaderStep, StartRead, Sample, TakeWord, GiveBack, shared, history
<1>3. \A s \in Senders : pc'[s] \in Held => done'[s] \in {0, 1, size'[s] + 1}
  BY <1>1, <1>2 DEF PublishedWhole, senderVars
<1>4. NextToWrite' = NextToWrite /\ CopiedByWriter' = CopiedByWriter /\ \A x, y : Place(x, y)' = Place(x, y)
  BY <1>1, <1>2, ReaderLeavesFrames DEF FrameInv, Place
<1>5. Place(Len(log), done[lock])' = Place(Len(log), done[lock])
  BY <1>2 DEF Place, senderVars
<1>6. data \in Seq(Word) /\ data \in [1..Len(data) -> Word] /\ DOMAIN data = 1..Len(data)
  <2>1. data \in Seq(Word)
    BY <1>1 DEF TypeOK
  <2>2. QED
    BY <2>1
<1>7. CASE StartRead \/ Sample
  <2>1. UNCHANGED <<read, used, delivered>> /\ TakenByReader = 0 /\ TakenByReader' = 0
    BY <1>7 DEF StartRead, Sample, shared, history, TakenByReader
  <2>2. WordsInRing' = WordsInRing
    BY <1>4, <2>1 DEF WordsInRing
  <2>3. Line(used - TakenByReader)' = Line(used - TakenByReader)
    BY <1>2, <1>4, <2>1, <2>2 DEF Line, Offset
  <2>4. PublishedWhole'
    BY <1>1, <1>2, <1>3, <1>5, <2>3 DEF PublishedWhole
  <2>5. TakenWhole'
    <3>1. CASE StartRead
      BY <3>1 DEF StartRead, TakenWhole
    <3>2. CASE Sample
      BY <3>2, SampleWhole
    <3>3. QED
      BY <1>7, <3>1, <3>2
  <2>6. DeliveredIntact'
    BY <1>1, <1>2, <2>1 DEF DeliveredIntact
  <2>7. QED
    BY <2>4, <2>5, <2>6 DEF WholeInv
<1>8. CASE TakeWord
  <2>1. /\ rpc = "copy" /\ data' = [data EXCEPT ![taken + 1] = ring[read]] /\ taken' = taken + 1
        /\ UNCHANGED <<used, part, toRead, doRead, delivered>>
    BY <1>8 DEF TakeWord, DataIndex, history
  <2>2. /\ ring[read] = NextToRead /\ \A i \in 0..(WordsInRing - 1) : Line(i)' = Line(i + 1)
    BY <1>1, <1>8, TakeWordFrames
  <2>3. /\ taken \in Nat /\ doRead \in Nat /\ toRead \in Nat /\ used \in Nat
        /\ taken < doRead /\ doRead <= used /\ doRead <= toRead
    BY <1>1, <2>1 DEF QueueInv, TypeOK, ReaderBounds
  <2>4. TakenByReader = taken /\ TakenByReader' = taken + 1
    BY <1>8, <2>1 DEF TakenByReader, TakeWord
  <2>5. PICK v \in Nat : v = used - (taken + 1) /\ v \in 0..(WordsInRing - 1) /\ v + 1 = used - taken
    BY <1>1, <2>3, <2>4, RingCounts
  <2>6. Line(v)' = Line(used - TakenByReader)
    BY <2>2, <2>4, <2>5
  <2>7. Line(used - TakenByReader)' = Line(used - TakenByReader)
    BY <2>1, <2>4, <2>5, <2>6 DEF Line, Offset
  <2>8. PublishedWhole'
    BY <1>1, <1>2, <1>3, <1>5, <2>7 DEF PublishedWhole
  <2>9. TakenWhole'
    <3>1. CASE part = "body"
      <4>1. /\ m \in DOMAIN log /\ Len(data) = log[m].size /\ toRead = log[m].size /\ log[m].size \in Nat
            /\ doRead = toRead /\ \A k \in 1..taken : data[k] = MessageWord(m, k)
        BY <1>1, <2>1, <3>1, LogSizes DEF ReaderFrames, TakenWhole
      <4>2. 1 + log[m].size - toRead + taken = taken + 1 /\ taken + 1 # log[m].size + 1
        BY <2>3, <4>1
      <4>3. NextToRead = <<m, taken + 1>>
        BY <2>1, <2>4, <3>1, <4>2 DEF NextToRead, Place
      <4>4. \A k \in 1..(taken + 1) : data'[k] = MessageWord(m, k)
        <5>1. taken + 1 \in 1..Len(data) /\ DOMAIN data = 1..Len(data)
          BY <1>6, <2>3, <4>1
        <5>2. data'[taken + 1] = MessageWord(m, taken + 1)
          BY <2>1, <2>2, <4>3, <5>1 DEF MessageWord
        <5>3. \A k \in 1..taken : data'[k] = data[k]
          BY <2>1, <2>3, <5>1
        <5>4. QED
          BY <2>3, <4>1, <5>2, <5>3
      <4>5. QED
        BY <1>2, <2>1, <4>1, <4>4 DEF TakenWhole
    <3>2. CASE part # "body"
      BY <2>1, <3>2 DEF TakenWhole
    <3>3. QED
      BY <3>1, <3>2
  <2>10. DeliveredIntact'
    BY <1>1, <1>2, <2>1 DEF DeliveredIntact
  <2>11. QED
    BY <2>8, <2>9, <2>10 DEF WholeInv
<1>9. CASE GiveBack
  <2>1. rpc = "giveback" /\ used' = used - doRead /\ UNCHANGED read
    BY <1>9 DEF GiveBack
  <2>2. taken = doRead /\ doRead \in Nat /\ doRead <= used /\ used \in Nat
    BY <1>1, <2>1 DEF QueueInv, TypeOK, ReaderBounds
  <2>3. TakenByReader = doRead /\ TakenByReader' = 0
    BY <1>9, <2>1, <2>2 DEF TakenByReader, GiveBack
  <2>4. WordsInRing' = WordsInRing /\ (used - TakenByReader)' = used - TakenByReader
    BY <1>1, <1>4, <2>1, <2>2, <2>3, RingCounts DEF WordsInRing
  <2>5. Line(used - TakenByReader)' = Line(used - TakenByReader)
    BY <1>2, <1>4, <2>1, <2>4 DEF Line, Offset
  <2>6. PublishedWhole'
    BY <1>1, <1>2, <1>3, <1>5, <2>5 DEF PublishedWhole
  <2>7. m \in DOMAIN log /\ log[m].size \in Nat /\ log[m].size >= 1
    BY <1>1, <2>1, LogSizes DEF ReaderFrames, TypeOK
  <2>8. CASE part = "header"
    <3>1. toRead = 1 /\ data[1] = <<m, 0>> /\ toRead = doRead
      <4>1. toRead = 1 /\ data[1] = <<m, 0>>
        BY <1>1, <2>1, <2>8 DEF ReaderFrames
      <4>2. doRead > 0 /\ doRead <= toRead
        BY <1>1, <2>1 DEF QueueInv, ReaderBounds
      <4>3. QED
        BY <2>2, <4>1, <4>2
    <3>2. HeaderValue(data[1]) = log[m].size
      BY <2>7, <3>1 DEF HeaderValue
    <3>3. toRead' = log[m].size /\ rpc' = "sample" /\ UNCHANGED delivered
      BY <1>9, <2>8, <3>1, <3>2 DEF GiveBack
    <3>4. TakenWhole' /\ DeliveredIntact'
      BY <1>1, <1>2, <3>3 DEF TakenWhole, DeliveredIntact
    <3>5. QED
      BY <2>6, <3>4 DEF WholeInv
  <2>9. CASE part = "body"
    <3>1. /\ toRead = log[m].size /\ doRead = toRead /\ Len(data) = log[m].size
          /\ \A k \in 1..taken : data[k] = MessageWord(m, k)
      BY <1>1, <2>1, <2>9 DEF TakenWhole, ReaderFrames
    <3>2. delivered' = Append(delivered, data) /\ rpc' = "idle"
      BY <1>9, <2>9, <3>1 DEF GiveBack
    <3>3. data = [k \in 1..log[m].size |-> MessageWord(m, k)]
      <4>1. data \in [1..log[m].size -> Word]
        BY <1>6, <3>1
      <4>2. \A k \in 1..log[m].size : data[k] = MessageWord(m, k)
        BY <2>2, <3>1
      <4>3. QED
        BY <4>1, <4>2
    <3>4. delivered \in Seq(Seq(Word)) /\ data \in Seq(Word)
      BY <1>1 DEF TypeOK
    <3>5. /\ Len(delivered) \in Nat /\ DOMAIN delivered = 1..Len(delivered)
          /\ DOMAIN delivered' = 1..(Len(delivered) + 1)
          /\ delivered'[Len(delivered) + 1] = data
          /\ \A j \in 1..Len(delivered) : delivered'[j] = delivered[j]
      BY <3>2, <3>4, AppendProperties
    <3>6. DeliveredIntact'
      <4>1. \A j \in 1..Len(delivered) : delivered'[j] = [k \in 1..log[j].size |-> MessageWord(j, k)]
        BY <1>1, <3>5 DEF DeliveredIntact
      <4>2. \A j \in DOMAIN delivered' : delivered'[j] = [k \in 1..log[j].size |-> MessageWord(j, k)]
        <5> TAKE j \in DOMAIN delivered'
        <5>1. CASE j = m
          BY <3>3, <3>5, <5>1
        <5>2. CASE j # m
          <6>1. j \in 1..Len(delivered) /\ delivered'[j] = delivered[j]
            BY <3>5, <5>2
          <6>2. QED
            BY <4>1, <6>1
        <5>3. QED
          BY <5>1, <5>2
      <4>3. QED
        BY <1>2, <4>2 DEF DeliveredIntact, MessageWord
    <3>7. TakenWhole'
      BY <3>2 DEF TakenWhole
    <3>8. QED
      BY <2>6, <3>6, <3>7 DEF WholeInv
  <2>10. QED
    BY <1>1, <2>8, <2>9 DEF TypeOK
<1>10. QED
  BY <1>7, <1>8, <1>9 DEF ReaderStep

LEMMA NextWhole ==
  ASSUME ShortBodies
  PROVE  WholeInv /\ [Next]_vars => WholeInv'
<1> SUFFICES ASSUME WholeInv, [Next]_vars PROVE WholeInv'
  OBVIOUS
<1>1. FrameInv'
  BY NextFrames DEF WholeInv
<1>2. CASE Next
  <2>1. ASSUME NEW s \in Senders, Enqueue(s) \/ Wake(s) PROVE \E n \in BodySizes : TakeLock(s, n)
    BY <2>1 DEF Enqueue, Wake, WholeInv, FrameInv, QueueInv, WriterBounds
  <2>2. QED
    BY <1>1, <1>2, <2>1, WritersKeepWhole, ReaderKeepsWhole DEF Next
<1>3. CASE UNCHANGED vars
  <2>1. UNCHANGED <<ring, read, used, lock, log, delivered>> /\ UNCHANGED <<senderVars, readerVars, history>>
    BY <1>3 DEF vars, shared, history
  <2>2. TakenByReader' = TakenByReader /\ NextToWrite' = NextToWrite /\ CopiedByWriter' = CopiedByWriter
    BY <2>1, WritersLeaveReader, ReaderLeavesFrames DEF WholeInv, FrameInv
  <2>3. WordsInRing' = WordsInRing
    BY <2>1, <2>2 DEF WordsInRing
  <2>4. Line(used - TakenByReader)' = Line(used - TakenByReader)
    BY <2>1, <2>2, <2>3 DEF Line, Offset
  <2>5. PublishedWhole'
    BY <2>1, <2>4 DEF WholeInv, PublishedWhole, senderVars, Place
  <2>6. QED
    BY <1>1, <2>1, <2>5, WriterWhole
<1>4. QED
  BY <1>2, <1>3

LEMMA WholeInvHolds ==
  ASSUME ShortBodies
  PROVE  Spec => []WholeInv
<1>1. Init => WholeInv
  <2> SUFFICES ASSUME Init PROVE WholeInv
    OBVIOUS
  <2>1. FrameInv
    BY InitFrames
  <2>2. CopiedByWriter = 0 /\ DOMAIN delivered = {} /\ \A s \in Senders : pc[s] \notin Held
    BY DEF Init, CopiedByWriter, Held
  <2>3. PublishedWhole
    BY <2>1, <2>2, NothingCopied DEF PublishedWhole, BetweenPieces, FrameInv
  <2>4. QED
    BY <2>1, <2>2, <2>3 DEF WholeInv, TakenWhole, DeliveredIntact, Init
<1>2. WholeInv /\ [Next]_vars => WholeInv'
  BY NextWhole
<1>3. QED
  BY <1>1, <1>2, PTL DEF Spec

\* Every message is handed over word for word as it was sent, as long as no body is
\* longer than a chunk: the reader indexes the words of a round from 0 again
\* (synced_queue.cpp:104-124), which only a body taken in one round survives.
THEOREM ShortBodiesIntact ==
  ASSUME ShortBodies
  PROVE  Spec => []DeliveredIntact
<1>1. WholeInv => DeliveredIntact
  BY DEF WholeInv
<1>2. QED
  BY <1>1, WholeInvHolds, PTL

-----------------------------------------------------------------------------
(* The ring is a channel.                                                   *)

\* What was received, when every message is intact.
LEMMA ReceivedIs ==
  WholeInv => [j \in DOMAIN delivered |-> Received(j)] = [j \in 1..Len(delivered) |-> log[j]]
<1> SUFFICES ASSUME WholeInv
             PROVE  [j \in DOMAIN delivered |-> Received(j)] = [j \in 1..Len(delivered) |-> log[j]]
  OBVIOUS
<1>1. DOMAIN delivered = 1..Len(delivered)
  BY DEF WholeInv, FrameInv, QueueInv, TypeOK
<1>2. \A j \in DOMAIN delivered : Received(j) = log[j]
  BY DEF WholeInv, DeliveredIntact, Received
<1>3. QED
  BY <1>1, <1>2

LEMMA ReceivedIsNext ==
  WholeInv' => [j \in DOMAIN delivered |-> Received(j)]' = [j \in 1..Len(delivered') |-> log'[j]]
<1>1. (WholeInv => [j \in DOMAIN delivered |-> Received(j)] = [j \in 1..Len(delivered) |-> log[j]])'
  BY ReceivedIs, PTL
<1>2. QED
  BY <1>1

\* Taking the lock sends a message; the end of a body delivers the oldest that was
\* not delivered; everything else happens inside the channel.
LEMMA StepImplementsChannel ==
  ASSUME WholeInv, WholeInv', [Next]_vars
  PROVE  [Channel!Next]_(Channel!vars)
<1> DEFINE got == [j \in DOMAIN delivered |-> Received(j)]
           n == Len(delivered)
<1>1. /\ got = [j \in 1..n |-> log[j]] /\ got' = [j \in 1..n' |-> log'[j]]
  BY ReceivedIs, ReceivedIsNext
<1>2. TypeOK /\ TypeOK' /\ FramingKept
  BY DEF WholeInv, FrameInv, QueueInv
<1>3. /\ n \in Nat /\ DOMAIN log = 1..Len(log) /\ Len(log) \in Nat /\ n <= Len(log)
  <2>1. DOMAIN log = 1..Len(log) /\ Len(log) \in Nat
    BY <1>2, LogSizes
  <2>2. delivered \in Seq(Seq(Word))
    BY <1>2 DEF TypeOK
  <2>3. n \in Nat
    BY <2>2
  <2>4. n <= Len(log)
    BY <1>2 DEF FramingKept
  <2> QED
    BY <2>1, <2>3, <2>4
<1>4. Len(got) = n
  BY <1>1, <1>3
<1> HIDE DEF got
<1>5. ASSUME NEW s \in Senders, NEW k \in BodySizes, TakeLock(s, k) PROVE Channel!Next
  <2> DEFINE new == [from |-> s, size |-> k]
  <2>1. new \in [from : Senders, size : BodySizes] /\ log' = Append(log, new) /\ UNCHANGED delivered
    BY <1>5 DEF TakeLock
  <2> HIDE DEF new
  <2>2. \A j \in 1..n : log'[j] = log[j]
    <3>1. log \in Seq([from : Senders, size : BodySizes])
      BY <1>2 DEF TypeOK
    <3>2. \A j \in 1..Len(log) : log'[j] = log[j]
      BY <2>1, <3>1, AppendProperties
    <3>3. QED
      BY <1>3, <3>2
  <2>3. got' = got
    BY <1>1, <2>1, <2>2
  <2>4. QED
    BY <2>1, <2>3 DEF Channel!Next, Channel!Send, got
<1>6. CASE GiveBack
  <2>1. CASE UNCHANGED delivered
    <3>1. UNCHANGED log
      BY <1>6 DEF GiveBack
    <3>2. got' = got
      BY <1>1, <2>1, <3>1
    <3>3. QED
      BY <3>1, <3>2 DEF Channel!vars, got
  <2>2. CASE delivered' = Append(delivered, data)
    <3>1. UNCHANGED log /\ rpc = "giveback"
      BY <1>6 DEF GiveBack
    <3>2. delivered \in Seq(Seq(Word)) /\ data \in Seq(Word)
      BY <1>2 DEF TypeOK
    <3>3. n' = n + 1
      BY <2>2, <3>2, AppendProperties
    <3>4. n + 1 \in DOMAIN log
      BY <1>2, <3>1 DEF WholeInv, FrameInv, ReaderFrames, TypeOK
    <3>5. Len(got) < Len(log)
      BY <1>3, <1>4, <3>4
    <3>6. got' = Append(got, log[n + 1])
      <4>1. got' = [j \in 1..(n + 1) |-> log[j]]
        BY <1>1, <3>1, <3>3
      <4>2. got = [j \in 1..n |-> log[j]]
        BY <1>1
      <4>3. Append(got, log[n + 1]) = [j \in 1..(n + 1) |-> IF j <= n THEN got[j] ELSE log[n + 1]]
        BY <1>3, <1>4
      <4>4. \A j \in 1..(n + 1) : (IF j <= n THEN got[j] ELSE log[n + 1]) = log[j]
        BY <1>3, <4>2
      <4>5. QED
        BY <4>1, <4>3, <4>4
    <3>7. QED
      BY <1>4, <3>1, <3>5, <3>6 DEF Channel!Next, Channel!Deliver, got
  <2>3. QED
    BY <1>6, <2>1, <2>2 DEF GiveBack
<1>7. CASE UNCHANGED history
  <2>1. UNCHANGED <<log, delivered>>
    BY <1>7 DEF history
  <2>2. got' = got
    BY <1>1, <2>1
  <2>3. QED
    BY <2>1, <2>2 DEF Channel!vars, got
<1>8. CASE Next
  <2>1. ASSUME NEW s \in Senders, Enqueue(s) \/ Wake(s) PROVE Channel!Next
    <3>1. PICK k \in BodySizes : TakeLock(s, k)
      BY <2>1 DEF Enqueue, Wake, WholeInv, FrameInv, QueueInv, WriterBounds
    <3>2. QED
      BY <1>5, <3>1
  <2>2. ASSUME NEW s \in Senders, Contend(s) \/ HolderStep(s) PROVE UNCHANGED history
    BY <2>2 DEF Contend, HolderStep, FindSpace, CopyWord, Publish, Unlock, history
  <2>3. StartRead \/ Sample \/ TakeWord => UNCHANGED history
    BY DEF StartRead, Sample, TakeWord, history
  <2>4. QED
    BY <1>6, <1>7, <1>8, <2>1, <2>2, <2>3 DEF Next, ReaderStep
<1>9. CASE UNCHANGED vars
  BY <1>7, <1>9 DEF vars
<1>10. QED
  BY <1>8, <1>9

\* The ring buffer of any size is a channel that loses, alters and reorders nothing,
\* for any number of writers, also when the reader is one of them, as long as no
\* body is longer than a chunk (synced_queue.cpp:50-124, actors.cpp:278-289).
THEOREM QueueIsChannel ==
  ASSUME ShortBodies
  PROVE  Spec => Channel!Init /\ [][Channel!Next]_(Channel!vars)
<1>1. Init => Channel!Init
  BY DEF Init, Channel!Init
<1>2. WholeInv /\ WholeInv' /\ [Next]_vars => [Channel!Next]_(Channel!vars)
  BY StepImplementsChannel
<1>3. QED
  BY <1>1, <1>2, WholeInvHolds, PTL DEF Spec

=============================================================================
