------------------------ MODULE QueueImplementsChannel ------------------------
(***************************************************************************)
(* The ring buffer implements the abstract channel: a message is sent when  *)
(* its writer gets the lock, and received when the reader hands it over.    *)
(***************************************************************************)
EXTENDS SyncedQueue

\* What the receiver makes of a body: the message, when every word of it is
\* there and in its place.
Corrupt == [from |-> NoActor, size |-> 0]

Received(j) ==
  IF delivered[j] = [k \in 1..log[j].size |-> MessageWord(j, k)]
  THEN log[j]
  ELSE Corrupt

Channel == INSTANCE MessageChannel WITH
  Message <- [from : Senders, size : BodySizes],
  sent <- log,
  received <- [j \in DOMAIN delivered |-> Received(j)]

\* The queue with fair processes is a channel that loses, alters and reorders
\* nothing and in the end delivers every message whose writer got the lock
\* (synced_queue.cpp:50-124), as long as no body is longer than a chunk and the
\* reader does not write to its own queue.
ImplementsChannel == Channel!Spec

=============================================================================
