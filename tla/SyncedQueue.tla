----------------------------- MODULE SyncedQueue -----------------------------
(***************************************************************************)
(* One message queue of the actor runtime: the ring buffer of              *)
(* src/actors/synced_queue.cpp in shared memory, as the message buffer     *)
(* functions of src/actors/actors.cpp use it.  Several actor processes     *)
(* write (Senders), the actor that owns the queue reads (Reader), and it   *)
(* may also write: an actor can send to itself.                            *)
(*                                                                         *)
(* The grain is one access to shared memory: a word copied into or out of  *)
(* the ring, a sample of used_buffer, one atomic XADD on it.               *)
(***************************************************************************)
EXTENDS Integers, Sequences, FiniteSets

CONSTANTS
  Senders,     \* the actors that send to this queue
  Reader,      \* the actor that owns the queue
  Size,        \* words in the ring (ACTOR_QUEUE_BUFFER_SIZE, 256 in the code)
  Chunk,       \* words of a body published at once (32 in the code)
  BodySizes,   \* sizes, in words, that a message body may have
  MaxMessages, \* bound on the messages sent
  NoActor      \* nobody holds the lock

ASSUME SizeAssumption == Size \in Nat \ {0}
ASSUME ChunkAssumption == Chunk \in 1..Size
ASSUME BodySizesAssumption == BodySizes \subseteq Nat \ {0}
ASSUME MaxMessagesAssumption == MaxMessages \in Nat
ASSUME NoActorAssumption == NoActor \notin Senders

VARIABLES
  ring,        \* the words of the ring, by position
  store,       \* position of the next word to write
  read,        \* position of the next word to read
  used,        \* used_buffer: words published and not yet given back
  lock,        \* the sender that holds the mutex
  pc,          \* per sender: where it stands in the enqueue function
  size,        \* per sender: the parameter size of the call
  done,        \* per sender: words of the message published, header included
  copied,      \* per sender: words of the current piece copied (the i of _store)
  current,     \* per sender: which message, by its place in log
  rpc,         \* where the reader stands in actors_msgbuffer_read_msg
  part,        \* which dequeue of read_msg runs: the header's or the body's
  toRead,      \* to_be_read
  doRead,      \* do_read
  taken,       \* words copied in this round (the i of syncedqueue_dequeue)
  data,        \* the buffer the words are copied to
  log,         \* history: the messages in the order the lock was taken
  delivered    \* history: the bodies handed to Message::Deserialize

shared == <<ring, store, read, used, lock>>
senderVars == <<pc, size, done, copied, current>>
readerVars == <<rpc, part, toRead, doRead, taken, data>>
history == <<log, delivered>>
vars == <<shared, senderVars, readerVars, history>>

-----------------------------------------------------------------------------
(* A word is named by the message it belongs to and its place in it: place  *)
(* 0 is the header, which holds the size of the body.                       *)

Garbage == <<0, 0>>
Word == Nat \X Nat
MessageWord(m, k) == <<m, k>>

\* Fault: the header is counted as a word of the body.
HeaderValueCountingHeader(w) == IF w[1] \in DOMAIN log THEN log[w[1]].size + 1 ELSE 0

HeaderValue(w) == IF w[1] \in DOMAIN log THEN log[w[1]].size ELSE 0

SmallerOf(a, b) == IF a <= b THEN a ELSE b

\* The position after p, going round at the end of the buffer.
NextPosition(p) == IF p + 1 = Size THEN 0 ELSE p + 1

\* Faults: the store may reach the read position, or must stay one word short
\* of it, as in rings that tell full from empty by the positions.
StoreMaxOneMore == Size - used + 1
StoreMaxOneLess == Size - used - 1

\* _store_max: the space a writer sees.
StoreMax == Size - used

\* The words of the next call of _store: the header alone, then full chunks
\* while more than one is left, then the rest.
Piece(s) == IF done[s] = 0 THEN 1 ELSE SmallerOf(Chunk, size[s] + 1 - done[s])

\* A single-threaded owner does not read while it sends.
ReaderSends == Reader \in Senders /\ pc[Reader] # "idle"

-----------------------------------------------------------------------------
Init ==
  /\ ring = [p \in 0..(Size - 1) |-> Garbage]
  /\ store = 0 /\ read = 0 /\ used = 0
  /\ lock = NoActor
  /\ pc = [s \in Senders |-> "idle"]
  /\ size = [s \in Senders |-> 0]
  /\ done = [s \in Senders |-> 0]
  /\ copied = [s \in Senders |-> 0]
  /\ current = [s \in Senders |-> 0]
  /\ rpc = "idle" /\ part = "header"
  /\ toRead = 0 /\ doRead = 0 /\ taken = 0
  /\ data = << >>
  /\ log = << >> /\ delivered = << >>

-----------------------------------------------------------------------------
(* The writer: syncedqueue_enqueue_ex_with_header_valuet and _store.        *)

\* Fault: the writer does not wait for the mutex.
TakeLockRegardless(s, n) ==
  /\ lock' = s
  /\ pc' = [pc EXCEPT ![s] = "space"]
  /\ size' = [size EXCEPT ![s] = n]
  /\ done' = [done EXCEPT ![s] = 0]
  /\ copied' = [copied EXCEPT ![s] = 0]
  /\ log' = Append(log, [from |-> s, size |-> n])
  /\ current' = [current EXCEPT ![s] = Len(log) + 1]
  /\ UNCHANGED <<ring, store, read, used, readerVars, delivered>>

\* Taking the mutex decides the place of the message in the queue.
TakeLock(s, n) ==
  /\ lock = NoActor
  /\ lock' = s
  /\ pc' = [pc EXCEPT ![s] = "space"]
  /\ size' = [size EXCEPT ![s] = n]
  /\ done' = [done EXCEPT ![s] = 0]
  /\ copied' = [copied EXCEPT ![s] = 0]
  /\ log' = Append(log, [from |-> s, size |-> n])
  /\ current' = [current EXCEPT ![s] = Len(log) + 1]
  /\ UNCHANGED <<ring, store, read, used, readerVars, delivered>>

MayStart(s) ==
  /\ pc[s] = "idle"
  /\ s = Reader => rpc = "idle"
  /\ Len(log) < MaxMessages

Enqueue(s) == \E n \in BodySizes : MayStart(s) /\ TakeLock(s, n)

\* The mutex is taken: the caller sleeps in pthread_mutex_lock.
Contend(s) ==
  /\ MayStart(s)
  /\ lock # NoActor
  /\ \E n \in BodySizes : size' = [size EXCEPT ![s] = n]
  /\ pc' = [pc EXCEPT ![s] = "blocked"]
  /\ UNCHANGED <<shared, done, copied, current, readerVars, history>>

\* The mutex has the default attributes although processes share it, so an
\* unlock need not wake a sleeper of another process: it may, or it may not.
Wake(s) ==
  /\ pc[s] = "blocked"
  /\ TakeLock(s, size[s])

\* The loop of _store ends: there is room for the whole piece.
FindSpace(s) ==
  /\ pc[s] = "space"
  /\ Piece(s) <= StoreMax
  /\ pc' = [pc EXCEPT ![s] = "copy"]
  /\ UNCHANGED <<shared, size, done, copied, current, readerVars, history>>

CopyWord(s) ==
  /\ pc[s] = "copy"
  /\ ring' = [ring EXCEPT ![store] = MessageWord(current[s], done[s] + copied[s])]
  /\ store' = NextPosition(store)
  /\ copied' = [copied EXCEPT ![s] = @ + 1]
  /\ pc' = [pc EXCEPT ![s] = IF copied[s] + 1 = Piece(s) THEN "publish" ELSE "copy"]
  /\ UNCHANGED <<read, used, lock, size, done, current, readerVars, history>>

\* Fault: the next piece starts at the index where this one ended.
PublishKeepingIndex(s) ==
  /\ pc[s] = "publish"
  /\ used' = used + Piece(s)
  /\ done' = [done EXCEPT ![s] = @ + Piece(s)]
  /\ pc' = [pc EXCEPT ![s] = IF done[s] + Piece(s) = size[s] + 1 THEN "unlock" ELSE "space"]
  /\ UNCHANGED <<ring, store, read, lock, size, copied, current, readerVars, history>>

\* One XADD makes all words of the piece visible to the reader.
Publish(s) ==
  /\ pc[s] = "publish"
  /\ used' = used + Piece(s)
  /\ done' = [done EXCEPT ![s] = @ + Piece(s)]
  /\ copied' = [copied EXCEPT ![s] = 0]
  /\ pc' = [pc EXCEPT ![s] = IF done[s] + Piece(s) = size[s] + 1 THEN "unlock" ELSE "space"]
  /\ UNCHANGED <<ring, store, read, lock, size, current, readerVars, history>>

Unlock(s) ==
  /\ pc[s] = "unlock"
  /\ lock' = NoActor
  /\ pc' = [pc EXCEPT ![s] = "idle"]
  /\ UNCHANGED <<ring, store, read, used, size, done, copied, current, readerVars, history>>

-----------------------------------------------------------------------------
(* The reader: actors_msgbuffer_holds_data, actors_msgbuffer_read_msg and   *)
(* syncedqueue_dequeue.                                                     *)

StartRead ==
  /\ rpc = "idle"
  /\ ~ReaderSends
  /\ used # 0
  /\ part' = "header" /\ toRead' = 1 /\ data' = <<Garbage>>
  /\ rpc' = "sample"
  /\ UNCHANGED <<shared, senderVars, doRead, taken, history>>

Sample ==
  /\ rpc = "sample"
  /\ toRead > 0
  /\ used # 0
  /\ doRead' = SmallerOf(used, toRead)
  /\ taken' = 0
  /\ rpc' = "copy"
  /\ UNCHANGED <<shared, senderVars, part, toRead, data, history>>

\* data is indexed by the loop counter of this round, not by the number of
\* words read so far.
DataIndex == taken + 1

TakeWord ==
  /\ rpc = "copy"
  /\ data' = [data EXCEPT ![DataIndex] = ring[read]]
  /\ read' = NextPosition(read)
  /\ taken' = taken + 1
  /\ rpc' = IF taken + 1 = doRead THEN "giveback" ELSE "copy"
  /\ UNCHANGED <<ring, store, used, lock, senderVars, part, toRead, doRead, history>>

\* One XADD gives the words back; what follows is local to the reader: the next
\* round, or the dequeue of the body, or the end of actors_msgbuffer_read_msg.
GiveBack ==
  /\ rpc = "giveback"
  /\ used' = used - doRead
  /\ \/ /\ toRead # doRead
        /\ toRead' = toRead - doRead
        /\ rpc' = "sample"
        /\ UNCHANGED <<part, data, delivered>>
     \/ /\ toRead = doRead /\ part = "header"
        /\ toRead' = HeaderValue(data[1])
        /\ data' = [k \in 1..HeaderValue(data[1]) |-> Garbage]
        /\ part' = "body"
        /\ rpc' = "sample"
        /\ UNCHANGED delivered
     \/ /\ toRead = doRead /\ part = "body"
        /\ toRead' = 0
        /\ delivered' = Append(delivered, data)
        /\ rpc' = "idle"
        /\ UNCHANGED <<part, data>>
  /\ UNCHANGED <<ring, store, read, lock, senderVars, doRead, taken, log>>

-----------------------------------------------------------------------------
HolderStep(s) == FindSpace(s) \/ CopyWord(s) \/ Publish(s) \/ Unlock(s)
ReaderStep == StartRead \/ Sample \/ TakeWord \/ GiveBack

Next ==
  \/ \E s \in Senders : Enqueue(s) \/ Contend(s) \/ Wake(s) \/ HolderStep(s)
  \/ ReaderStep

Spec == Init /\ [][Next]_vars

\* The holder of the lock and the reader are processes that keep running.
\* Nothing is assumed of Wake: the code asks for no wake-up across processes.
Fairness == (\A s \in Senders : WF_vars(HolderStep(s))) /\ WF_vars(ReaderStep)
FairSpec == Spec /\ Fairness

-----------------------------------------------------------------------------
Held == {"space", "copy", "publish", "unlock"}

TypeOK ==
  /\ ring \in [0..(Size - 1) -> Word]
  /\ store \in 0..(Size - 1) /\ read \in 0..(Size - 1)
  /\ used \in 0..Size
  /\ lock \in Senders \cup {NoActor}
  /\ pc \in [Senders -> {"idle", "blocked"} \cup Held]
  /\ size \in [Senders -> Nat]
  /\ done \in [Senders -> Nat]
  /\ copied \in [Senders -> Nat]
  /\ current \in [Senders -> Nat]
  /\ rpc \in {"idle", "sample", "copy", "giveback"}
  /\ part \in {"header", "body"}
  /\ toRead \in Nat /\ doRead \in Nat /\ taken \in Nat
  /\ data \in Seq(Word)
  /\ log \in Seq([from : Senders, size : BodySizes])
  /\ delivered \in Seq(Seq(Word))

\* Only the holder of the mutex is past it.
LockHeld == \A s \in Senders : pc[s] \in Held => lock = s

\* A writer copies no more than the piece it found room for.
WriterBounds ==
  \A s \in Senders :
    /\ pc[s] \in {"blocked"} \cup Held => size[s] \in BodySizes
    /\ pc[s] \in {"space", "copy", "publish"} => done[s] <= size[s]
    /\ pc[s] \in {"space", "unlock"} => copied[s] = 0
    /\ pc[s] = "copy" => copied[s] < Piece(s)
    /\ pc[s] = "publish" => copied[s] = Piece(s)
    /\ pc[s] \in {"copy", "publish"} => used + Piece(s) <= Size

\* A reader takes no more than what was published and what it was asked for.
ReaderBounds ==
  /\ rpc \in {"copy", "giveback"} => doRead > 0 /\ doRead <= used /\ doRead <= toRead
  /\ rpc = "copy" => taken < doRead
  /\ rpc = "giveback" => taken = doRead

\* The words in the ring: published, plus copied by the writer and not yet
\* published, minus taken by the reader and not yet given back.
CopiedByWriter == IF lock = NoActor THEN 0 ELSE copied[lock]
TakenByReader == IF rpc \in {"copy", "giveback"} THEN taken ELSE 0
WordsInRing == used + CopiedByWriter - TakenByReader

\* The two positions, which the writer and the reader move on their own, and
\* the counter they share always agree.
RingAccounting ==
  /\ WordsInRing \in 0..Size
  /\ \/ store = read + WordsInRing
     \/ store = read + WordsInRing - Size

\* The writer and the reader work on the ring without a common lock; only the
\* accounting in used_buffer keeps the word that is being written apart from
\* the word that is being read.
WriterAndReaderApart ==
  \A s \in Senders : pc[s] = "copy" /\ rpc = "copy" => store # read

\* Messages come out in the order the lock was taken, each with the length it
\* was sent with, however the body was cut into pieces: the reader never loses
\* the boundary between two messages.
FramingKept ==
  /\ Len(delivered) <= Len(log)
  /\ \A j \in DOMAIN delivered : Len(delivered[j]) = log[j].size

\* Each message is handed over word for word as it was sent.
DeliveredIntact ==
  \A j \in DOMAIN delivered :
    delivered[j] = [k \in 1..log[j].size |-> MessageWord(j, k)]

\* Every call of the enqueue function returns.
EverySendReturns == \A s \in Senders : pc[s] # "idle" ~> pc[s] = "idle"

\* What is sent is delivered.
EveryMessageDelivered ==
  \A m \in 1..MaxMessages : m \in DOMAIN log ~> m \in DOMAIN delivered

=============================================================================
