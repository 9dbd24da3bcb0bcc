--------------------------- MODULE Serialization ---------------------------
(***************************************************************************)
(* Messages as they cross the queue between actors: the fields that        *)
(* Serialize writes and Deserialize reads (src/src/actors/messages.h,      *)
(* src/src/vmobjects/VM*.h, Universe::NewObjectFromBuffer), the ids that   *)
(* stand for objects, and the proxies and entries of the object table that *)
(* decoding makes (src/src/actors/RemoteObjectManager.h).                  *)
(*                                                                         *)
(* A message is a sequence of fields, each with its bytes; the queue itself *)
(* is in SyncedQueue, registrations of references are in RemoteReferences.  *)
(* Own objects of an actor are not collected here, but for frames that      *)
(* wait; proxies are, between messages, and also while a coroutine that is  *)
(* parked refers to them.                                                   *)
(***************************************************************************)
EXTENDS RemoteObjects

CONSTANTS
  Place,        \* the index of each object in the table of its owner
  Frames,       \* the objects that are frames, which wait for results
  Values,       \* immutable objects: <<tag, value>>, strings as sequences
  Signatures,   \* symbols, which are immutable objects
  MaxArguments, \* bound on the arguments of a message
  MaxSends,     \* bound on the messages programs send
  Decoders      \* sets of message types that a decoder may know

Id(a, i) == [actor |-> a, index |-> i]
Ids == [actor : Actors \cup {"none"}, index : Nat]
\* A proxy is told from a later one of the same id by its first index.
Proxy(id, i) == [id |-> id, first |-> i]
Proxies == [id : Ids, first : Nat]

ValueTags == {"BigInteger", "Double", "Integer", "String", "Symbol"}
IsText(v) == v[1] \in {"String", "Symbol"}
IsValue(v) ==
  /\ v = <<v[1], v[2]>> /\ v[1] \in ValueTags
  /\ IsText(v) => Len(v[2]) \in Nat

ASSUME SerializationAssumption ==
  /\ "none" \notin Actors
  /\ \A o \in Objects : o \notin Proxies \cup Values \cup Signatures
  /\ \A a \in Actors : {Place[o] : o \in OwnObjects(a)} = 1 .. Cardinality(OwnObjects(a))
  /\ \A o, u \in Objects : Owner[o] = Owner[u] /\ Place[o] = Place[u] => o = u
  /\ Frames \subseteq Objects
  /\ (\A v \in Values : IsValue(v)) /\ (\A s \in Signatures : IsValue(s))
  /\ MaxArguments \in Nat /\ MaxSends \in Nat

VARIABLES
  table,     \* per actor: _OBJECT_TABLE, what each index leads to
  free,      \* per actor: the stack of free indexes
  self,      \* per actor: the proxies in its heap, and self_pointer of each
  objectMap, \* per actor: the proxy of an id
  held,      \* per actor: the indexes its program holds
  waiting,   \* per actor: the ids in activationsWaitingForResult
  pending,   \* per actor: activations of others it has to answer
  queue,     \* per actor: the messages it has not read
  decoded,   \* the message types that have a case in Message::Deserialize
  lost,      \* per actor: what a collection freed while its coroutines refer to it
  ended,     \* per actor: why its process ended, if it has
  sends

memory == <<table, free, self, objectMap>>
vars == <<memory, held, waiting, pending, queue, decoded, lost, ended, sends>>

-----------------------------------------------------------------------------
(* Objects, pointers and ids.                                               *)

Freed == [id |-> Id("none", 0), first |-> 0]
IsProxy(x) == x \notin Objects
\* A pointer is an index of the table, or the immutable object itself.
Pointer(i) == <<"index", i>>
IsIndex(p) == p[1] = "index"
Pointers(a) == held[a] \cup Values

\* What a pointer of a, into the table t, means to every actor.
Denotes(a, p, t) ==
  IF ~IsIndex(p) THEN p
  ELSE IF ~IsProxy(t[a][p[2]]) THEN t[a][p[2]]
  ELSE LET id == t[a][p[2]].id IN table[id.actor][id.index]

\* Fault: a proxy passed on gets an id of this actor.
GetGlobalIdHere(a, p) == Id(a, p[2])

GetGlobalId(a, p) == IF IsProxy(table[a][p[2]]) THEN table[a][p[2]].id ELSE Id(a, p[2])
GetHomeId(a, p) == IF IsProxy(table[a][p[2]]) THEN table[a][p[2]].id.actor ELSE a

-----------------------------------------------------------------------------
(* Writing: fields with their width in bytes.                               *)

Field(value, bytes) == [value |-> value, bytes |-> bytes]
tagBytes == 4      \* sizeof(ImmutableTypes), and of the message type
idBytes == 8       \* sizeof(GlobalObjectId)
sizeBytes == 8     \* sizeof(size_t)
Width(tag) == IF tag = "Integer" THEN 4 ELSE 8
Chars(v) == Len(v[2])

Serialize(a, p) ==
  IF IsIndex(p)
  THEN <<Field(IF IsProxy(table[a][p[2]]) THEN "GlobalObjectId" ELSE "NotImmutable", tagBytes),
         Field(GetGlobalId(a, p), idBytes)>>
  ELSE IF IsText(p)
  THEN <<Field(p[1], tagBytes), Field(Chars(p), sizeBytes), Field(p[2], Chars(p) + 1)>>
  ELSE <<Field(p[1], tagBytes), Field(p[2], Width(p[1]))>>

\* Fault: the end of a string is not counted.
GetSerializedSizeUnterminated(a, p) ==
  IF IsIndex(p) THEN tagBytes + idBytes
  ELSE tagBytes + (IF IsText(p) THEN sizeBytes + Chars(p) ELSE Width(p[1]))

GetSerializedSize(a, p) ==
  IF IsIndex(p) THEN tagBytes + idBytes
  ELSE tagBytes + (IF IsText(p) THEN sizeBytes + Chars(p) + 1 ELSE Width(p[1]))

\* The loops over the arguments, which add sizes, and write one after the other.
Total(sizes) ==
  LET sum[n \in 0 .. Len(sizes)] == IF n = 0 THEN 0 ELSE sum[n - 1] + sizes[n]
  IN  sum[Len(sizes)]
Concat(seqs) ==
  LET from[n \in 1 .. Len(seqs) + 1] == IF n > Len(seqs) THEN <<>> ELSE seqs[n] \o from[n + 1]
  IN  from[1]
SizesOf(a, ps) == Total([i \in DOMAIN ps |-> GetSerializedSize(a, ps[i])])

\* A message: GetSize, what Serialize writes, and what it means.
ObjRefMessage(a, p) ==
  [size |-> tagBytes + GetSerializedSize(a, p),
   fields |-> <<Field("OBJ_REF", tagBytes)>> \o Serialize(a, p),
   meaning |-> [type |-> "OBJ_REF", objects |-> <<Denotes(a, p, table)>>]]

ResultObjRefMessage(a, p, id) ==
  [size |-> tagBytes + GetSerializedSize(a, p) + idBytes,
   fields |-> <<Field("OBJ_REF_RESULT", tagBytes)>> \o Serialize(a, p) \o <<Field(id, idBytes)>>,
   meaning |-> [type |-> "OBJ_REF_RESULT",
                objects |-> <<Denotes(a, p, table), table[id.actor][id.index]>>]]

SomMessage(type, a, receiver, signature, args, last) ==
  [size |-> tagBytes + SizesOf(a, <<receiver, signature>>) + sizeBytes + SizesOf(a, args \o last),
   fields |-> <<Field(type, tagBytes)>> \o Serialize(a, receiver) \o Serialize(a, signature)
              \o <<Field(Len(args), sizeBytes)>>
              \o Concat([i \in 1 .. Len(args \o last) |-> Serialize(a, (args \o last)[i])]),
   meaning |-> [type |-> type,
                objects |-> [i \in 1 .. 2 + Len(args \o last) |->
                               Denotes(a, (<<receiver, signature>> \o args \o last)[i], table)]]]

RefMessage(type, id, actor) ==
  [size |-> tagBytes + idBytes + 1,
   fields |-> <<Field(type, tagBytes), Field(id, idBytes), Field(actor, 1)>>,
   meaning |-> [type |-> type, objects |-> <<>>]]

-----------------------------------------------------------------------------
(* Reading.  The reader of actor a is the fields that are left, the pointers *)
(* decoded so far, and the memory of a.                                     *)

Reader(a, fields) ==
  [fields |-> fields, out |-> <<>>,
   table |-> table[a], free |-> free[a], self |-> self[a], objectMap |-> objectMap[a]]
Skip(r, n) == [r EXCEPT !.fields = SubSeq(@, n + 1, Len(@))]
Out(r, p) == [r EXCEPT !.out = Append(@, p)]

Put(f, x, v) == [y \in DOMAIN f \cup {x} |-> IF y = x THEN v ELSE f[y]]

\* ObjectTable::AddObject: the top of the free stack, or a new entry.
AddObject(r, x) ==
  LET i == IF r.free # <<>> THEN Head(r.free) ELSE Len(r.table) + 1
  IN  [r EXCEPT !.table = IF r.free # <<>> THEN [@ EXCEPT ![i] = x] ELSE Append(@, x),
                !.free = IF r.free # <<>> THEN Tail(@) ELSE @,
                !.self = Put(@, x, i)]
NextIndex(r) == IF r.free # <<>> THEN Head(r.free) ELSE Len(r.table) + 1

NewRemoteObject(r, id) ==
  LET proxy == Proxy(id, NextIndex(r))
  IN  [AddObject(r, proxy) EXCEPT !.objectMap = Put(@, id, proxy)]

\* objectMap holds addresses: the pointer made of one to return it is a new
\* entry of the table.
GetObject(a, r, id) ==
  IF id.actor = a THEN Out(r, Pointer(id.index))
  ELSE LET known == IF id \in DOMAIN r.objectMap THEN r ELSE NewRemoteObject(r, id)
       IN  Out(AddObject(known, known.objectMap[id]), Pointer(NextIndex(known)))

NewObjectFromBuffer(a, r) ==
  LET tag == r.fields[1].value
  IN  CASE tag \in {"NotImmutable", "GlobalObjectId"} -> GetObject(a, Skip(r, 2), r.fields[2].value)
        [] tag \in {"String", "Symbol"} -> Out(Skip(r, 3), <<tag, r.fields[3].value>>)
        [] OTHER -> Out(Skip(r, 2), <<tag, r.fields[2].value>>)
ObjectsFromBuffer(a, r, n) ==
  LET read[i \in 0 .. n] == IF i = 0 THEN r ELSE NewObjectFromBuffer(a, read[i - 1])
  IN  read[n]

DeserializeSom(a, r, last) ==
  LET start == ObjectsFromBuffer(a, r, 2)
      args == ObjectsFromBuffer(a, Skip(start, 1), start.fields[1].value)
  IN  ObjectsFromBuffer(a, args, last)

\* Message::Deserialize of a type that is known; a direct id is not an object.
Deserialize(a, m) ==
  LET r == Reader(a, Tail(m.fields))
      type == m.fields[1].value
  IN  CASE type = "OBJ_REF" -> ObjectsFromBuffer(a, r, 1)
        [] type = "OBJ_REF_RESULT" ->
              LET s == ObjectsFromBuffer(a, r, 1) IN Skip(Out(s, s.fields[1].value), 1)
        [] type = "SOM" -> DeserializeSom(a, r, 0)
        [] type = "SOM_WITH_RESULT" -> DeserializeSom(a, r, 1)
        [] OTHER -> Skip(r, 2)

-----------------------------------------------------------------------------
(* The actors.                                                              *)

Init ==
  /\ table = [a \in Actors |->
                [i \in 1 .. Cardinality(OwnObjects(a)) |->
                   CHOOSE o \in OwnObjects(a) : Place[o] = i]]
  /\ free = [a \in Actors |-> <<>>]
  /\ self = [a \in Actors |-> <<>>]
  /\ objectMap = [a \in Actors |-> <<>>]
  /\ held = [a \in Actors |-> {Pointer(Place[o]) : o \in OwnObjects(a) \ Frames}]
  /\ waiting = [a \in Actors |-> {}]
  /\ pending = [a \in Actors |-> {}]
  /\ queue = [a \in Actors |-> <<>>]
  /\ decoded \in Decoders
  /\ lost = [a \in Actors |-> {}]
  /\ ended = [a \in Actors |-> "no"]
  /\ sends = 0

Running(a) == ended[a] = "no"
MaySend(a) == Running(a) /\ sends < MaxSends /\ sends' = sends + 1
Deliver(b, messages) == queue' = [queue EXCEPT ![b] = @ \o messages]

\* Actor>>send:toActor:
SendReference(a) == \E p \in Pointers(a), b \in Actors :
  /\ MaySend(a)
  /\ Deliver(b, <<ObjRefMessage(a, p)>>)
  /\ UNCHANGED <<memory, held, waiting, pending, decoded, lost, ended>>

Arguments(a) == UNION {[1 .. n -> Pointers(a)] : n \in 0 .. MaxArguments}

SendAsync(a) == \E receiver \in held[a], args \in Arguments(a), signature \in Signatures :
  /\ MaySend(a)
  /\ Deliver(GetHomeId(a, receiver), <<SomMessage("SOM", a, receiver, signature, args, <<>>)>>)
  /\ UNCHANGED <<memory, held, waiting, pending, decoded, lost, ended>>

\* A frame sends to a remote object and waits under its id.
SendSync(a) ==
  \E receiver \in held[a], args \in Arguments(a), signature \in Signatures, f \in Frames :
    LET frame == Pointer(Place[f])
    IN  /\ MaySend(a)
        /\ IsProxy(table[a][receiver[2]])
        /\ Owner[f] = a /\ Id(a, Place[f]) \notin waiting[a]
        /\ waiting' = [waiting EXCEPT ![a] = @ \cup {GetGlobalId(a, frame)}]
        /\ Deliver(GetHomeId(a, receiver),
              <<SomMessage("SOM_WITH_RESULT", a, receiver, signature, args, <<frame>>)>>)
        /\ UNCHANGED <<memory, held, pending, decoded, lost, ended>>

\* do_RETURN_REMOTE: tracking the id of the activation tells its owner of a
\* reference, since the owner is the receiver.
ReturnRemote(a) == \E p \in pending[a], result \in Pointers(a) :
  LET id == GetGlobalId(a, p)
  IN  /\ MaySend(a)
      /\ pending' = [pending EXCEPT ![a] = @ \ {p}]
      /\ Deliver(id.actor,
            (IF id.actor # a THEN <<RefMessage("NEW_REF", id, id.actor)>> ELSE <<>>)
              \o <<ResultObjRefMessage(a, result, id)>>)
      /\ UNCHANGED <<memory, held, waiting, decoded, lost, ended>>

\* ReceiveAndProcessMessages, one message: what the new frame or the parked
\* one gets on its stack is held by the program.
Received(a) == Deserialize(a, Head(queue[a]))
Activation(out) == out[Len(out)]
Indexes(ps) == {p \in Range(ps) : IsIndex(p)}

Receive(a) ==
  /\ Running(a) /\ queue[a] # <<>>
  /\ Head(queue[a]).fields[1].value \in decoded
  /\ LET r == Received(a)
         type == Head(queue[a]).fields[1].value
     IN  /\ table' = [table EXCEPT ![a] = r.table]
         /\ free' = [free EXCEPT ![a] = r.free]
         /\ self' = [self EXCEPT ![a] = r.self]
         /\ objectMap' = [objectMap EXCEPT ![a] = r.objectMap]
         /\ held' = [held EXCEPT ![a] = @ \cup
              CASE type \in {"OBJ_REF", "SOM"} -> Indexes(r.out)
                [] type \in {"SOM_WITH_RESULT", "OBJ_REF_RESULT"} -> Indexes(Front(r.out))
                [] OTHER -> {}]
         /\ pending' = IF type = "SOM_WITH_RESULT"
                       THEN [pending EXCEPT ![a] = @ \cup {Activation(r.out)}] ELSE pending
         /\ waiting' = IF type = "OBJ_REF_RESULT"
                       THEN [waiting EXCEPT ![a] = @ \ {Activation(r.out)}] ELSE waiting
         /\ ended' = IF type = "OBJ_REF_RESULT" /\ Activation(r.out) \notin waiting[a]
                     THEN [ended EXCEPT ![a] = "no activation"] ELSE ended
  /\ queue' = [queue EXCEPT ![a] = Tail(@)]
  /\ UNCHANGED <<decoded, lost, sends>>

\* Deserialize answers NULL, on which Process is called.
ReceiveUnknown(a) ==
  /\ Running(a) /\ queue[a] # <<>>
  /\ Head(queue[a]).fields[1].value \notin decoded
  /\ ended' = [ended EXCEPT ![a] = "unknown type"]
  /\ UNCHANGED <<memory, held, waiting, pending, queue, decoded, lost, sends>>

Drop(a) == \E p \in held[a] :
  /\ Running(a)
  /\ IsProxy(table[a][p[2]])
  /\ held' = [held EXCEPT ![a] = @ \ {p}]
  /\ UNCHANGED <<memory, waiting, pending, queue, decoded, lost, ended, sends>>

\* A collection marks what the globals and the current frame reach, and neither
\* the coroutines that are parked or wait nor what only these refer to.  Besides the
\* proxies no pointer leads to it frees some, missed, that such a coroutine needs.
Dead(a) == DOMAIN self[a] \ {table[a][p[2]] : p \in held[a] \cup pending[a]}
To(a, ps, proxies) == {p \in ps : table[a][p[2]] \in proxies}

Kinds == {"object", "activation"}
Lost(a, missed, frames) ==
  (IF To(a, held[a], missed) # {} \/ frames # {} THEN {"object"} ELSE {})
    \cup (IF To(a, pending[a], missed) # {} THEN {"activation"} ELSE {})

\* Fault: the map keeps the address of a proxy that is gone.
UnlinkRemoteObjectKept(a, ids) == objectMap[a]

UnlinkRemoteObject(a, ids) == [id \in DOMAIN objectMap[a] \ ids |-> objectMap[a][id]]

NothingLost == \A a \in Actors : lost[a] = {}

\* It frees the index of Self() and the entry of the map, and tells the owner.  What
\* is missed, once in a run (bound), is a proxy or a frame that waits.
Collect(a) ==
  \E missed \in SUBSET (DOMAIN self[a] \ Dead(a)), frames \in SUBSET waiting[a] :
    LET all == Dead(a) \cup missed
        dead == SetToSeq(all)
        indexes == [i \in 1 .. Len(dead) |-> self[a][dead[i]]]
        mine(x) == LET gone == SetToSeq({d \in all : d.id.actor = x})
                   IN  [i \in 1 .. Len(gone) |-> RefMessage("UNLINK_REF", gone[i].id, a)]
    IN  /\ Running(a) /\ (all # {} \/ frames # {})
        /\ missed # {} \/ frames # {} => NothingLost
        /\ table' = [table EXCEPT ![a] = [i \in DOMAIN @ |->
                         IF i \in Range(indexes) THEN Freed ELSE @[i]]]
        /\ free' = [free EXCEPT ![a] = Reverse(indexes) \o @]
        /\ self' = [self EXCEPT ![a] = [d \in DOMAIN @ \ all |-> @[d]]]
        /\ objectMap' = [objectMap EXCEPT ![a] = UnlinkRemoteObject(a, {d.id : d \in all})]
        /\ queue' = [b \in Actors |-> queue[b] \o mine(b)]
        /\ held' = [held EXCEPT ![a] = @ \ To(a, @, missed)]
        /\ pending' = [pending EXCEPT ![a] = @ \ To(a, @, missed)]
        /\ lost' = [lost EXCEPT ![a] = @ \cup Lost(a, missed, frames)]
        /\ UNCHANGED <<waiting, decoded, ended, sends>>

\* A coroutine uses what was freed: the process crashes, or it finds what is in
\* that memory by now, any object it has, and takes it for what was there.
Existing(a) ==
  {Pointer(Place[o]) : o \in OwnObjects(a)} \cup {Pointer(self[a][d]) : d \in DOMAIN self[a]}

UseFreed(a) ==
  /\ Running(a) /\ lost[a] # {}
  /\ \/ ended' = [ended EXCEPT ![a] = "freed object"] /\ UNCHANGED <<held, pending>>
     \/ "object" \in lost[a] /\ \E p \in Existing(a) :
          held' = [held EXCEPT ![a] = @ \cup {p}] /\ UNCHANGED <<pending, ended>>
     \/ "activation" \in lost[a] /\ \E p \in Existing(a) :
          pending' = [pending EXCEPT ![a] = @ \cup {p}] /\ UNCHANGED <<held, ended>>
  /\ UNCHANGED <<memory, waiting, queue, decoded, lost, sends>>

Next == \E a \in Actors :
  \/ SendReference(a) \/ SendAsync(a) \/ SendSync(a) \/ ReturnRemote(a)
  \/ Receive(a) \/ ReceiveUnknown(a) \/ Drop(a) \/ Collect(a) \/ UseFreed(a)
Spec == Init /\ [][Next]_vars

-----------------------------------------------------------------------------
TypeOK ==
  /\ \A a \in Actors :
       /\ \A p \in held[a] \cup pending[a] : IsIndex(p) /\ p[2] \in DOMAIN table[a]
       /\ Range(free[a]) \subseteq DOMAIN table[a]
       /\ \A x \in DOMAIN self[a] : table[a][self[a][x]] = x
       /\ \A id \in DOMAIN objectMap[a] :
             objectMap[a][id] \in DOMAIN self[a] /\ objectMap[a][id].id = id
       /\ lost[a] \subseteq Kinds
       /\ ended[a] \in {"no", "unknown type", "no activation", "freed object"}
  /\ decoded \in Decoders /\ sends \in 0 .. MaxSends

\* The next message, decoded, refers to the very objects it was sent with, in
\* their order, whoever owns them and however often they were passed on, and
\* its decoder stops at its end (messages.h, NewObjectFromBuffer; a warning in
\* actors/Interpreter.cpp doubts the order of the arguments).
RoundTrip == \A a \in Actors : Running(a) /\ queue[a] # <<>> =>
  LET m == Head(queue[a])
      r == Received(a)
      result == m.meaning.type = "OBJ_REF_RESULT"
      denoted(i) == IF result /\ i = 2 THEN table[r.out[i].actor][r.out[i].index]
                    ELSE IF ~IsIndex(r.out[i]) THEN r.out[i]
                    ELSE LET x == r.table[r.out[i][2]]
                         IN  IF IsProxy(x) THEN table[x.id.actor][x.id.index] ELSE x
  IN  /\ r.fields = <<>>
      /\ m.meaning.objects # <<>> =>
           m.meaning.objects = [i \in 1 .. Len(r.out) |-> denoted(i)]

\* GetSize, which decides how much is allocated and how much is sent, agrees
\* with what Serialize writes: the buffer is not overrun, and the words sent
\* hold every byte (actors_msgbuffer_send_msg rounds up, SendMessage adds one).
SizesAgree == \A a \in Actors : \A i \in DOMAIN queue[a] :
  LET m == queue[a][i]
      written == Total([j \in DOMAIN m.fields |-> m.fields[j].bytes])
      words == (m.size + 3) \div 4
  IN  /\ written = m.size
      /\ written <= 4 * words /\ 4 * words <= 4 * (m.size \div 4 + 1)

\* What is encoded is decoded, and takes the room that was counted for it.
MessagesExact == RoundTrip /\ SizesAgree

\* A result that comes home names a frame that waits, and every frame that waits
\* is named by one message or activation on its way, unless a process has ended:
\* as long as no collection frees what a coroutine refers to that is parked, which
\* the list of roots does not prevent (GarbageCollector.cpp:144-168).
ResultsFindActivation == NothingLost =>
  /\ \A a \in Actors : ended[a] # "no activation"
  /\ (\A a \in Actors : Running(a)) =>
       \A a \in Actors : \A id \in waiting[a] :
         LET frame == table[a][id.index]
             inQueue(b) == {i \in DOMAIN queue[b] :
                              /\ queue[b][i].meaning.type \in {"SOM_WITH_RESULT", "OBJ_REF_RESULT"}
                              /\ Last(queue[b][i].meaning.objects) = frame}
             atHand(b) == {p \in pending[b] : Denotes(b, p, table) = frame}
         IN  Cardinality(UNION {{<<b, i>> : i \in inQueue(b)} : b \in Actors})
               + Cardinality(UNION {{<<b, p>> : p \in atHand(b)} : b \in Actors}) = 1

-----------------------------------------------------------------------------
\* What the comments say and the code does not do.
\* VMObject.h:95: pointers that are handed around are made of Self() and not of
\* an address, so that == tells whether two of them are the same object.
OnePointerPerObject == \A a \in Actors : \A p, q \in held[a] :
  Denotes(a, p, table) = Denotes(a, q, table) => p = q
\* GarbageCollector.cpp:97 removes the object from the object table.
EntriesReclaimed == \A a \in Actors : \A i \in DOMAIN table[a] :
  LET x == table[a][i]
  IN  x \in Objects \/ x = Freed \/ x \in DOMAIN self[a]
=============================================================================
