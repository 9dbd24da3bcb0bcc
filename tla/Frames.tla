------------------------------- MODULE Frames -------------------------------
(***************************************************************************)
(* The activation frames of the bytecode interpreter                       *)
(* (src/src/interpreter/Interpreter.cpp, src/src/vmobjects/VMFrame.cpp):   *)
(* calls, block evaluation, local and non-local returns, the restart of a  *)
(* loop, and the unplanned sends (doesNotUnderstand:arguments:,            *)
(* unknownGlobal: and escapedBlock:) the compiler left no stack for.       *)
(*                                                                         *)
(* The bytecodes of a method are chosen as it runs, within what the        *)
(* compiler can emit: "depth" is the number of operands the compiler       *)
(* counts at the current bytecode, which never exceeds the stack size it   *)
(* recorded for the method.  What is really on the stack is "slots".       *)
(***************************************************************************)
EXTENDS Integers, Sequences

CONSTANTS Methods,    \* methods of the program
          Called,     \* those the program sends by name
          Blocks,     \* block literals of the program
          Enclosing,  \* the method or block each block literal stands in
          NumArgs,    \* arguments of a method, the receiver included
          NumLocals,  \* local variables of a method
          MaxStack,   \* operand slots the compiler computed for a method
          Bootstrap, Initialize, DoesNotUnderstand, UnknownGlobal, EscapedBlock,
          NoCode,     \* what values that are no blocks have as their code
          MaxFrames,  \* bound: frames ever allocated
          MaxBytecodes \* bound: bytecodes executed

Code == Methods \cup Blocks

ASSUME CodeAssumption ==
    /\ NoCode \notin Code
    /\ Methods \cap Blocks = {}
    /\ Called \subseteq Methods \ {Bootstrap}
    /\ {Bootstrap, Initialize, DoesNotUnderstand, UnknownGlobal, EscapedBlock} \subseteq Methods
    /\ Enclosing \in [Blocks -> Code]
    /\ NumArgs \in [Code -> Nat \ {0}]
    /\ NumLocals \in [Code -> Nat]
    /\ MaxStack \in [Code -> Nat]
    /\ MaxFrames \in Nat \ {0, 1} /\ MaxBytecodes \in Nat
    /\ NumArgs[Bootstrap] = 1 /\ NumLocals[Bootstrap] = 0
    /\ NumArgs[Initialize] = 2
    /\ NumArgs[DoesNotUnderstand] = 3
    /\ NumArgs[UnknownGlobal] = 2
    /\ NumArgs[EscapedBlock] = 2
    /\ MaxStack[Bootstrap] = 2

VARIABLES frames,     \* every frame allocated so far, in order
          frame,      \* the frame that runs
          outcome,    \* "run", "halted", "error" (ErrorExit), "lost" (a return that
                      \* finds no frame) or "misread" (not a block evaluated)
          replaced,   \* frames an emergency frame took the place of
          unguarded,  \* an unplanned send was made without looking for space
          executed    \* bytecodes executed, for the bound only

machine == <<frames, frame, outcome, replaced, unguarded>>
vars == <<machine, executed>>

NoFrame == 0

\* A value is a block (its code and the frame it was created in) or any other
\* object.
Plain == [code |-> NoCode, home |-> NoFrame]
BlockOf(b, f) == [code |-> b, home |-> f]

cur == frames[frame]
Base(c) == NumArgs[c] + NumLocals[c]    \* slots below the operand stack
Fill(n) == [i \in 1..n |-> Plain]
Drop(s, n) == SubSeq(s, 1, Len(s) - n)
Element(n) == cur.slots[Len(cur.slots) - n]    \* VMFrame::GetStackElement

\* The frames reached from f along a link that ends in NoFrame, f included: the
\* least set that holds f and is closed under the link.
Along(f, link) ==
    LET closed == {S \in SUBSET DOMAIN link :
                     f \in S /\ \A g \in S : link[g] # NoFrame => link[g] \in S}
    IN  {g \in DOMAIN link : \A S \in closed : g \in S}

\* The frames VMFrame::GetContextLevel reaches from f, and the last of them, the
\* activation of the method its code stands in (VMFrame::GetOuterContext).
ContextLevels(f) == Along(f, [g \in DOMAIN frames |-> frames[g].context])
OuterContext(f) == CHOOSE g \in ContextLevels(f) : frames[g].context = NoFrame

\* The frames that will be returned to, the running one included.
Callers == Along(frame, [g \in DOMAIN frames |-> frames[g].prev])

\* Universe::NewFrame and VMFrame::CopyArgumentsFrom: the arguments are copied
\* from the operands of the caller, where they stay until the return.
NewFrame(caller, operands, c, context) ==
    [method |-> c, ip |-> 0, prev |-> caller, context |-> context,
     slots |-> SubSeq(operands, Len(operands) - NumArgs[c] + 1, Len(operands))
                 \o Fill(NumLocals[c]),
     size |-> Base(c) + MaxStack[c], depth |-> 0]

\* Interpreter::PushNewFrame: code c is called from frame k of fs.
Invoke(fs, k, c, context) ==
    /\ Len(fs) < MaxFrames
    /\ frames' = Append(fs, NewFrame(k, fs[k].slots, c, context))
    /\ frame' = Len(fs) + 1

Fail(how) == outcome' = how /\ UNCHANGED <<frames, frame, replaced>>

Init ==
    LET bottom == [method |-> Bootstrap, ip |-> 0, prev |-> NoFrame, context |-> NoFrame,
                 slots |-> Fill(3), size |-> 3, depth |-> 1]
    IN  /\ frames = <<bottom, NewFrame(1, bottom.slots, Initialize, NoFrame)>>
        /\ frame = 2
        /\ outcome = "run"
        /\ replaced = {}
        /\ unguarded = FALSE
        /\ executed = 0

-----------------------------------------------------------------------------
\* Interpreter::Start: every bytecode first advances the index of its frame.
Fetch == outcome = "run" /\ cur.method # Bootstrap /\ executed < MaxBytecodes

\* The running frame after a bytecode that leaves slots on the stack where the
\* compiler counts depth operands.
After(slots, depth) == [cur EXCEPT !.ip = @ + 1, !.slots = slots, !.depth = depth]

\* A bytecode that changes slots of the running frame only.  A push into a
\* full frame ends in "Array index out of bounds".
Local(slots, depth) ==
    /\ IF Len(slots) > cur.size
         THEN Fail("error")
         ELSE /\ frames' = [frames EXCEPT ![frame] = After(slots, depth)]
              /\ UNCHANGED <<frame, outcome, replaced>>
    /\ UNCHANGED unguarded

Push(v) == Fetch /\ cur.depth < MaxStack[cur.method] /\ Local(Append(cur.slots, v), cur.depth + 1)

Dup == cur.depth > 0 /\ Push(Element(0))

\* PUSH_CONSTANT, PUSH_FIELD, and PUSH_GLOBAL of a global that exists.
PushObject == Push(Plain)

PushBlock == \E b \in Blocks : Enclosing[b] = cur.method /\ Push(BlockOf(b, frame))

\* PUSH_ARGUMENT and PUSH_LOCAL
PushVariable ==
    \E owner \in ContextLevels(frame) :
      \E i \in 1..Base(frames[owner].method) : Push(frames[owner].slots[i])

\* POP and POP_FIELD
Pop == Fetch /\ cur.depth > 0 /\ Local(Drop(cur.slots, 1), cur.depth - 1)

\* POP_ARGUMENT and POP_LOCAL write into the frame of the context level.
PopVariable ==
    /\ Fetch /\ cur.depth > 0
    /\ \E owner \in ContextLevels(frame) :
         \E i \in 2..Base(frames[owner].method) :
           frames' = [[frames EXCEPT ![frame] = After(Drop(cur.slots, 1), cur.depth - 1)]
                        EXCEPT ![owner].slots[i] = Element(0)]
    /\ UNCHANGED <<frame, outcome, replaced, unguarded>>

-----------------------------------------------------------------------------
\* A send with n operands finds its receiver below the n - 1 others.  Once it
\* has returned, the compiler counts one operand for the n.
Sends(n) == Fetch /\ cur.depth >= n
Calling(n) == [frames EXCEPT ![frame] = After(cur.slots, cur.depth - n + 1)]

\* VMMethod::operator()
CallMethod ==
    \E c \in Called :
      /\ Sends(NumArgs[c])
      /\ Invoke(Calling(NumArgs[c]), frame, c, NoFrame)
      /\ UNCHANGED <<outcome, replaced, unguarded>>

\* What the primitives do to the stack of their caller: operands of the send,
\* operands popped, results pushed.  Answering takes the operands away and
\* pushes a result; some leave the receiver as the result instead.
Answering(n) == <<n, n, 1>>

ObjectPrimitives == {Answering(1), Answering(2)}
StringPrimitives == {Answering(1), Answering(2), Answering(3)}
ArrayPrimitives == {Answering(1), Answering(2),
                    <<3, 2, 0>>}        \* at:put:
SymbolPrimitives == {Answering(1)}
ClassPrimitives == {Answering(1)}
\* Fault: printNewline pops a result it never pushed.
SystemPrimitivesOneTooMany == {Answering(1), Answering(2), <<2, 1, 0>>, <<3, 2, 0>>, <<1, 2, 0>>}

SystemPrimitives == {Answering(1), Answering(2),
                     <<2, 1, 0>>,       \* exit:, printString:
                     <<3, 2, 0>>,       \* global:put:
                     <<1, 0, 0>>}       \* printNewline, stop
ActorPrimitives == {Answering(1),
                    <<3, 2, 0>>}        \* send:toActor:

PrimitiveEffects == ObjectPrimitives \cup StringPrimitives \cup ArrayPrimitives
    \cup SymbolPrimitives \cup ClassPrimitives \cup SystemPrimitives \cup ActorPrimitives

\* VMPrimitive::EmptyRoutine: value:with: is marked primitive in Block3 and is
\* never given a routine.
NoRoutine == <<3, 0, 0>>

CallPrimitive ==
    \E p \in PrimitiveEffects \cup {NoRoutine} :
      /\ Sends(p[1])
      /\ p = NoRoutine => Element(2).code \in Blocks /\ NumArgs[Element(2).code] = 3
      /\ Local(Drop(cur.slots, p[2]) \o Fill(p[3]), cur.depth - p[1] + 1)

\* VMEvaluationPrimitive::computeSignatureString: operands of the selector
\* under which the class of the blocks with n arguments evaluates them
\* ("with:" is never appended).
EvaluationSelector(n) == IF n = 1 THEN 1 ELSE 2

\* VMEvaluationPrimitive::evaluationRoutine.  Under the selector of fewer
\* arguments than the block has it takes what lies below for the block.
Evaluate ==
    \E n \in 1..3 :
      LET block == Element(n - 1)
      IN  /\ Sends(n)
          /\ block.code \in Blocks
          /\ n = EvaluationSelector(NumArgs[block.code])
          /\ IF NumArgs[block.code] = n
               THEN /\ Invoke(Calling(n), frame, block.code, block.home)
                    /\ UNCHANGED <<outcome, replaced>>
               ELSE Fail("misread")
          /\ UNCHANGED unguarded

\* _Block::Restart
Restart ==
    /\ Sends(1)
    /\ Element(0).code \in Blocks
    /\ frames' = [frames EXCEPT ![frame] =
                    [cur EXCEPT !.ip = 0, !.slots = SubSeq(@, 1, Base(cur.method)), !.depth = 0]]
    /\ UNCHANGED <<frame, outcome, replaced, unguarded>>

-----------------------------------------------------------------------------
\* VMFrame::EmergencyFrameFrom
EmergencyFrameFrom(from, extraLength) == [from EXCEPT !.size = @ + extraLength]

\* The operands of an unplanned send; all but escapedBlock: pass symbols and
\* arrays.
ToHandler(handler, receiver) == <<receiver>> \o Fill(NumArgs[handler] - 1)

\* VMObject::Send of a handler, from frame k of fs.
SendTo(fs, k, handler, operands) ==
    IF Len(fs[k].slots) + Len(operands) > fs[k].size
      THEN outcome' = "error" /\ frames' = fs /\ frame' = k
      ELSE /\ Invoke([fs EXCEPT ![k].slots = @ \o operands], k, handler, NoFrame)
           /\ UNCHANGED outcome

\* Fault: one slot fewer than the operands need.
SendWithSpaceOneShort(from, handler, receiver) ==
    LET fs == [frames EXCEPT ![frame] = from]
        additionalStackSlots == NumArgs[handler] - (from.size - Len(from.slots)) - 1
    IN  /\ IF additionalStackSlots > 0
             THEN /\ Len(frames) < MaxFrames
                  /\ SendTo(Append(fs, EmergencyFrameFrom(from, additionalStackSlots)),
                            Len(fs) + 1, handler, ToHandler(handler, receiver))
                  /\ replaced' = replaced \cup {frame}
             ELSE SendTo(fs, frame, handler, ToHandler(handler, receiver)) /\ UNCHANGED replaced
        /\ UNCHANGED unguarded

\* An unplanned send from the running frame once it is as "from" says: a frame
\* with too little space is replaced by a bigger copy first.
SendWithSpace(from, handler, receiver) ==
    LET fs == [frames EXCEPT ![frame] = from]
        additionalStackSlots == NumArgs[handler] - (from.size - Len(from.slots))
    IN  /\ IF additionalStackSlots > 0
             THEN /\ Len(frames) < MaxFrames
                  /\ SendTo(Append(fs, EmergencyFrameFrom(from, additionalStackSlots)),
                            Len(fs) + 1, handler, ToHandler(handler, receiver))
                  /\ replaced' = replaced \cup {frame}
             ELSE SendTo(fs, frame, handler, ToHandler(handler, receiver)) /\ UNCHANGED replaced
        /\ UNCHANGED unguarded

\* Interpreter::send of a message the receiver does not understand: the
\* operands are taken into an array.
SendNotUnderstood ==
    \E n \in 1..3 :
      /\ Sends(n)
      /\ SendWithSpace(After(Drop(cur.slots, n), cur.depth - n + 1),
                       DoesNotUnderstand, Element(n - 1))

\* PUSH_GLOBAL of a global that does not exist.
PushUnknownGlobal ==
    /\ Fetch /\ cur.depth < MaxStack[cur.method]
    /\ SendWithSpace(After(cur.slots, cur.depth + 1), UnknownGlobal,
                     frames[OuterContext(frame)].slots[1])

\* SUPER_SEND of a message no superclass understands looks for no space.
SuperSendNotUnderstood ==
    \E n \in 1..3 :
      /\ Sends(n)
      /\ SendTo([frames EXCEPT ![frame] = After(Drop(cur.slots, n), cur.depth - n + 1)],
                frame, DoesNotUnderstand, ToHandler(DoesNotUnderstand, Element(n - 1)))
      /\ unguarded' = TRUE
      /\ UNCHANGED replaced

-----------------------------------------------------------------------------
\* A frame that is still the home of a block, or the context of a frame.
Kept(f) == \E g \in DOMAIN frames :
             \/ frames[g].context = f
             \/ \E i \in DOMAIN frames[g].slots : frames[g].slots[i].home = f

\* Fault: a popped frame keeps its previous frame.
PoppedLinked(fs) == [f \in DOMAIN frames |->
                       IF f \in fs /\ ~Kept(f) THEN [frames[f] EXCEPT !.slots = <<>>] ELSE frames[f]]

\* Interpreter::popFrame, for the frames in fs: a popped frame has no previous
\* frame from then on.  What nothing refers to any more is forgotten.
Popped(fs) == [f \in DOMAIN frames |->
                 IF f \notin fs THEN frames[f]
                 ELSE [frames[f] EXCEPT !.prev = NoFrame, !.ip = 0, !.depth = 0,
                                        !.slots = IF Kept(f) THEN @ ELSE <<>>]]

\* Interpreter::popFrameAndPushResult, when "left" is the last frame popped.
ReturnFrom(left, above, result) ==
    LET caller == frames[left].prev
        args == NumArgs[frames[left].method]
    IN  /\ frames' = [Popped(above \cup {left}) EXCEPT
                        ![caller].slots = Append(Drop(@, args), result)]
        /\ frame' = caller
        /\ UNCHANGED <<outcome, replaced, unguarded>>

\* RETURN_LOCAL.  In an empty body it is the first bytecode and finds nothing
\* but variables to return.
ReturnLocal ==
    /\ Fetch
    /\ cur.depth > 0 \/ cur.ip = 0
    /\ ReturnFrom(frame, {}, Element(0))

\* Fault: the frames above the home of the block are not popped.
ReturnNonLocalAtOnce ==
    LET context == OuterContext(frame)
    IN  /\ Fetch
        /\ cur.depth > 0
        /\ cur.method \in Blocks
        /\ frames[context].prev # NoFrame
        /\ IF context \in Callers
             THEN ReturnFrom(context, {}, Element(0))
             ELSE Fail("lost") /\ UNCHANGED unguarded

\* RETURN_NON_LOCAL, to the caller of the home method...
ReturnNonLocal ==
    LET context == OuterContext(frame)
    IN  /\ Fetch
        /\ cur.depth > 0
        /\ cur.method \in Blocks
        /\ frames[context].prev # NoFrame
        /\ IF context \in Callers
             THEN ReturnFrom(context, {f \in Callers : f > context}, Element(0))
             ELSE Fail("lost") /\ UNCHANGED unguarded

\* ...or, when that has returned already, escapedBlock: is sent from the
\* caller of the block, whose operands for the block stay where they are.
ReturnEscaped ==
    LET caller == cur.prev
        sender == frames[OuterContext(caller)].slots[1]
    IN  /\ Fetch
        /\ cur.depth > 0
        /\ cur.method \in Blocks
        /\ frames[OuterContext(frame)].prev = NoFrame
        /\ SendTo(Popped({frame}), caller, EscapedBlock, <<sender, cur.slots[1]>>)
        /\ unguarded' = TRUE
        /\ UNCHANGED replaced

\* HALT, the only bytecode of the bootstrap method.
Halt ==
    /\ outcome = "run"
    /\ cur.method = Bootstrap
    /\ outcome' = "halted"
    /\ UNCHANGED <<frames, frame, replaced, unguarded>>

Bytecode ==
    \/ Dup \/ PushObject \/ PushBlock \/ PushVariable \/ Pop \/ PopVariable
    \/ CallMethod \/ CallPrimitive \/ Evaluate \/ Restart
    \/ SendNotUnderstood \/ PushUnknownGlobal \/ SuperSendNotUnderstood
    \/ ReturnLocal \/ ReturnNonLocal \/ ReturnEscaped \/ Halt

Next == Bytecode /\ executed' = executed + 1

Spec == Init /\ [][Next]_vars

-----------------------------------------------------------------------------
Values == {Plain} \cup [code : Blocks, home : 1..MaxFrames]

\* The frames, their slots and the links between them have their types.
TypeOK ==
    /\ frames \in Seq([method : Code, ip : Nat, prev : 0..MaxFrames,
                       context : 0..MaxFrames, slots : Seq(Values), size : Nat, depth : Nat])
    /\ Len(frames) <= MaxFrames
    /\ frame \in 1..Len(frames)
    /\ outcome \in {"run", "halted", "error", "lost", "misread"}
    /\ replaced \subseteq 1..Len(frames)
    /\ unguarded \in BOOLEAN
    /\ executed \in Nat

\* A method that is returned to finds on its stack at least the operands the
\* compiler counts there: no call, return, restart or primitive takes more
\* than it was given, nor reaches into the variables.
OperandsAvailable ==
    outcome = "run" =>
      \A f \in Callers : Len(frames[f].slots) >= Base(frames[f].method) + frames[f].depth

\* A frame that has been left has no previous frame, which is how an escaped
\* block is recognised; only a frame replaced by an emergency frame is off the
\* stack and still looks as if it were on it.
EscapesRecognised ==
    \A f \in DOMAIN frames \ Callers : frames[f].prev # NoFrame => f \in replaced

\* The interpreter overflows a frame only after an unplanned send that looked
\* for no space, or when a block has two arguments (value:with: takes no operand
\* away); it only loses its way in a non-local return when a frame was replaced
\* while blocks still referred to it.
FailuresExplained ==
    /\ outcome = "error" => unguarded \/ \E b \in Blocks : NumArgs[b] = 3
    /\ outcome = "lost" => replaced # {}

\* The operands of a frame suffice for what runs in it, and where the interpreter
\* gives up it is for one of the two reasons above.
FramesSound == TypeOK /\ OperandsAvailable /\ FailuresExplained

\* A return leaves every frame it passes, no matter how deep, and continues in
\* the caller of the last one with the result as the top operand.
UnwindsToCallerStep ==
    (outcome' = "run" /\ frame' \in Callers \ {frame} /\ Len(frames') = Len(frames)) =>
      LET left == {f \in Callers : f > frame'}
      IN  /\ \A f \in left : frames'[f].prev = NoFrame
          /\ \E f \in left : frames[f].prev = frame'
          /\ frames'[frame'].slots[Len(frames'[frame'].slots)] = Element(0)

UnwindsToCaller == [][UnwindsToCallerStep]_vars

\* The comment of Interpreter::send ("copy current frame into a bigger one and
\* replace the current frame"): a block that runs finds the home it was created
\* in among the callers, unless that has returned.  False after an emergency
\* frame: blocks keep the frame that was replaced.
HomesReachable ==
    frames[OuterContext(frame)].prev # NoFrame => OuterContext(frame) \in Callers

\* Block3.som promises value:with: for blocks with two arguments.  False: the
\* selector of their evaluation primitive is value:.
TwoArgumentBlocks ==
    [][ (frame' = frame /\ cur.depth >= 3 /\ Element(2).code \in Blocks
           /\ NumArgs[Element(2).code] = 3)
        => frames'[frame].depth # cur.depth - 2 \/ frames'[frame].slots # cur.slots ]_vars
=============================================================================
