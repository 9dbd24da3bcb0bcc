------------------------------ MODULE Numbers ------------------------------
(***************************************************************************)
(* Numbers and the pointers that hold them: immediate integers in a        *)
(* VMPointer, boxed ones, the proxy that stands for an immediate integer   *)
(* as a receiver (src/src/vmobjects/VMPointer.h), and the primitives of    *)
(* Integer, BigInteger and Double with their coercions.                    *)
(*                                                                         *)
(* A register is a pointer as the code has it: an embedded integer or an   *)
(* index of the object table.  Doubles are multiples of one half with      *)
(* Mantissa significant bits, or "special" (infinite or no number).        *)
(***************************************************************************)
EXTENDS Integers, FiniteSets, FiniteSetsExt, Functions

CONSTANTS IntBits,   \* 32
          BigBits,   \* 64
          Mantissa,  \* 53
          Slots,     \* bound: indexes of the object table
          Literals   \* numbers and other objects that are loaded

ASSUME NumbersAssumption ==
    /\ IntBits \in Nat /\ BigBits \in Nat /\ Mantissa \in Nat
    /\ 2 < IntBits /\ 2 * IntBits <= BigBits      \* products of integers fit
    /\ IntBits < Mantissa /\ Mantissa < BigBits
    /\ Slots \in Nat /\ Slots < 2 ^ (IntBits - 1)

VARIABLES a,       \* the register operations work on
          b,       \* the other operand
          heap,    \* _OBJECT_TABLE: the objects, by index
          outcome  \* "running", or how the process ended

vars == <<a, b, heap, outcome>>

MaxOf(bits) == 2 ^ (bits - 1) - 1
MinOf(bits) == -(2 ^ (bits - 1))
InBits(n, bits) == MinOf(bits) <= n /\ n <= MaxOf(bits)
Wrapped(n, bits) == ((n - MinOf(bits)) % (2 ^ bits)) + MinOf(bits)
ImmediateBits == IntBits - 1

Number(class, n) == [class |-> class, n |-> n, special |-> FALSE]
Special == [class |-> "Double", n |-> 0, special |-> TRUE]
NilObject == Number("Nil", 0)
NoObject == Number("", 0)
nilIndex == 1
proxyIndex == 2

Immediate(n) == [iint |-> TRUE, value |-> Wrapped(n, ImmediateBits)]   \* a field of 31 bits
Index(i) == [iint |-> FALSE, value |-> i]
Read(p, h) == IF p.iint THEN Number("Integer", p.value) ELSE h[p.value]   \* GetEmbeddedInteger
At(p) == Read(p, heap)
\* operator-> of an immediate integer answers the proxy with its value set.
Arrow(p) == IF p.iint THEN [heap EXCEPT ![proxyIndex].n = p.value] ELSE heap
Numeric == {"Integer", "BigInteger", "Double"}
Whole == {"Integer", "BigInteger"}

\* VMPointer::operator== compares 31 bits, of an integer or of an index.
Identical(p, q) == p.value % 2 ^ ImmediateBits = q.value % 2 ^ ImmediateBits

\* Fault: the limits of an immediate integer are those of int32_t.
IsImmediateAny(number) == number.class = "Integer"

\* VMPointer(int32_t) -> SetEmbeddedInteger: boxed if 31 bits are not enough.
IsImmediate(number) == number.class = "Integer" /\ InBits(number.n, ImmediateBits)

-----------------------------------------------------------------------------
\* C++ arithmetic: division rounds to zero.
Abs(n) == IF n < 0 THEN -n ELSE n
Sign(n) == IF n < 0 THEN -1 ELSE 1
Quotient(x, y) == Sign(x) * Sign(y) * (Abs(x) \div Abs(y))
Remainder(x, y) == x - y * Quotient(x, y)
Bit(n, i) == (n \div 2 ^ i) % 2
AndOf(x, y) ==
    LET both(i) == IF Bit(x, i) = 1 /\ Bit(y, i) = 1 THEN 2 ^ i ELSE 0
    IN  Wrapped(MapThenSumSet(both, 0 .. BigBits - 1), BigBits)

Exact(op, x, y) ==
    CASE op = "+" -> x + y [] op = "-" -> x - y [] op = "*" -> x * y
      [] op = "/" -> Quotient(x, y) [] op = "%" -> Remainder(x, y) [] op = "&" -> AndOf(x, y)

\* Division traps at zero, and where the quotient has too many bits.
Traps(op, x, y, bits) == op \in {"/", "%"} /\ (y = 0 \/ (x = MinOf(bits) /\ y = -1))

\* A double: to Mantissa bits, ties to even; beyond the range it is special.
Rounded(halves) ==
    LET k == CHOOSE k \in 0 .. BigBits : /\ Abs(halves) < 2 ^ (Mantissa + k)
                                         /\ k = 0 \/ Abs(halves) >= 2 ^ (Mantissa + k - 1)
        u == 2 ^ k
        low == Abs(halves) \div u
        rest == Abs(halves) % u
        up == 2 * rest > u \/ (2 * rest = u /\ low % 2 = 1)
    IN  Sign(halves) * u * (IF up THEN low + 1 ELSE low)
NewDouble(halves) ==
    IF Abs(halves) < 2 ^ (BigBits + 1) THEN Number("Double", Rounded(halves)) ELSE Special
ToDouble(number) ==
    IF number.class = "Double" THEN number ELSE NewDouble(2 * number.n)
ToInt64(number) ==   \* undefined where the double is out of range
    IF number.special THEN MinOf(BigBits) .. MaxOf(BigBits) ELSE {Quotient(number.n, 2)}

-----------------------------------------------------------------------------
\* The operations answer the set of what may come out.
Trap == Number("trap", 0)         \* SIGFPE
ErrorExit == Number("error", 0)   \* Universe::ErrorExit
NullSend == Number("crash", 0)    \* Send found no invokable and calls it

\* Integer::pushResult and PUSH_INT_OR_BIGINT
PushResult(n) == IF InBits(n, IntBits) THEN Number("Integer", n) ELSE Number("BigInteger", n)

DoubleSelectors == {"+", "-", "*", "//", "%", "&"}
BigIntegerSelectors == {"+", "-", "*", "/", "%", "&"}
IntegerSelectors == DoubleSelectors \cup BigIntegerSelectors

\* coerceDouble ends the program for what is no number.
DoubleOp(op, left, rightObj) ==
    IF rightObj.class \notin Numeric THEN {ErrorExit}
    ELSE LET right == ToDouble(rightObj)
             x == left.n
             y == right.n
             special == left.special \/ right.special
         IN  IF op \in {"%", "&"}
             THEN {IF Traps(op, i, j, BigBits) THEN Trap ELSE NewDouble(2 * Exact(op, i, j)) :
                      i \in ToInt64(left), j \in ToInt64(right)}
             ELSE IF special \/ (op = "//" /\ y = 0) THEN {Special}
             ELSE CASE op = "+" -> {NewDouble(x + y)}
                    [] op = "-" -> {NewDouble(x - y)}
                    [] op = "*" -> {NewDouble((x * y) \div 2)}
                    [] op = "//" -> {NewDouble(Sign(y) * ((2 * x) \div Abs(y)))}

\* CHECK_BIGINT: any object that is no Integer is read as a BigInteger.
BigIntegerRight(rightObj) ==
    IF rightObj.class \in Whole THEN {rightObj.n} ELSE MinOf(BigBits) .. MaxOf(BigBits)
BigIntegerOp(op, left, rightObj) ==
    {IF Traps(op, left.n, right, BigBits) THEN Trap
     ELSE IF op \in {"%", "&"} THEN Number("BigInteger", Exact(op, left.n, right))
     ELSE PushResult(Wrapped(Exact(op, left.n, right), BigBits)) :
        right \in BigIntegerRight(rightObj)}

\* CHECK_COERCION resends, and "//" as "/"; VMObject::Send does not look
\* whether there is a method.
Resent(op) == IF op = "//" THEN "/" ELSE op
\* Fault: the operands change places when an operation is resent.
ResendAsBigIntegerSwapped(op, left, right) ==
    BigIntegerOp(Resent(op), right, Number("BigInteger", left.n))

ResendAsBigInteger(op, left, right) == BigIntegerOp(Resent(op), Number("BigInteger", left.n), right)
ResendAsDouble(op, left, right) ==
    IF Resent(op) \in DoubleSelectors THEN DoubleOp(Resent(op), ToDouble(left), right)
    ELSE {NullSend}

IntegerRight(rightObj) ==
    IF rightObj.class = "Integer" THEN {rightObj.n} ELSE MinOf(IntBits) .. MaxOf(IntBits)
\* Fault: an Integer reads a BigInteger as an Integer.
IntegerOpUncoerced(op, left, rightObj) ==
    {IF Traps(op, left.n, rightObj.n, BigBits) THEN Trap
     ELSE PushResult(Wrapped(Exact(op, left.n, rightObj.n), IntBits))}

IntegerOp(op, left, rightObj) ==
    IF rightObj.class = "BigInteger" THEN ResendAsBigInteger(op, left, rightObj)
    ELSE IF rightObj.class = "Double" THEN ResendAsDouble(op, left, rightObj)
    ELSE IF op = "//"
    THEN UNION {DoubleOp(op, ToDouble(left), Number("Integer", right)) :
                   right \in IntegerRight(rightObj)}
    ELSE {IF Traps(op, left.n, right, BigBits) THEN Trap ELSE PushResult(Exact(op, left.n, right)) :
             right \in IntegerRight(rightObj)}

Operation(op, left, right) ==
    CASE left.class = "Integer" -> IntegerOp(op, left, right)
      [] left.class = "BigInteger" -> BigIntegerOp(op, left, right)
      [] left.class = "Double" -> DoubleOp(op, left, right)
Understands(left, op) ==
    \/ left.class = "Integer" /\ op \in IntegerSelectors
    \/ left.class = "BigInteger" /\ op \in BigIntegerSelectors
    \/ left.class = "Double" /\ op \in DoubleSelectors

\* "=" and "<": the set of answers, none if the program ends.
DoubleComparison(less, left, rightObj) ==
    IF rightObj.class \notin Numeric THEN {}
    ELSE LET right == ToDouble(rightObj)
         IN  IF left.special \/ right.special THEN BOOLEAN
             ELSE {IF less THEN left.n < right.n ELSE left.n = right.n}
BigIntegerComparison(less, left, rightObj) ==
    {IF less THEN left.n < right ELSE left.n = right : right \in BigIntegerRight(rightObj)}
\* Fault: a BigInteger is compared with the low bits of an Integer's operand.
ComparisonNarrow(less, left, right) ==
    {IF less THEN Wrapped(left.n, IntBits) < Wrapped(right.n, IntBits)
     ELSE Wrapped(left.n, IntBits) = Wrapped(right.n, IntBits)}

Comparison(less, left, right) ==
    IF left.class = "Double" THEN DoubleComparison(less, left, right)
    ELSE IF "BigInteger" \in {left.class, right.class} THEN BigIntegerComparison(less, left, right)
    ELSE IF right.class = "Double" THEN DoubleComparison(less, ToDouble(left), right)
    ELSE IF right.class = "Integer" THEN {IF less THEN left.n < right.n ELSE left.n = right.n}
    ELSE IF less THEN BOOLEAN ELSE {FALSE}

SquareRoot(number) ==   \* the nearest double, above or below
    IF number.special \/ number.n < 0 THEN {Special}
    ELSE LET x == ToDouble(number)
         IN  {Number("Double", r) : r \in {r \in 0 .. x.n + 1 :
                 (r - 1) * (r - 1) < 2 * x.n /\ 2 * x.n < (r + 1) * (r + 1)}}

-----------------------------------------------------------------------------
(***************************************************************************)
(* Results go to register a: as an immediate integer, or to a free index   *)
(* (the lowest: which one does not matter).  Objects no register points at *)
(* are collected; the value of the proxy matters while one points at it.   *)
(***************************************************************************)
Kept(h, pointers) ==
    [i \in 1 .. Slots |->
        IF i = nilIndex \/ Index(i) \in pointers THEN h[i]
        ELSE IF i = proxyIndex THEN Number("Integer", 0) ELSE NoObject]

FreeIndex(other) == Min({i \in proxyIndex + 1 .. Slots : Index(i) # other})
Stored(number, h, other) ==
    IF number \in {Trap, ErrorExit, NullSend}
    THEN [outcome |-> number.class, pointer |-> a, heap |-> h]
    ELSE LET i == FreeIndex(other)
             p == IF number = NilObject THEN Index(nilIndex)
                  ELSE IF IsImmediate(number) THEN Immediate(number.n) ELSE Index(i)
             h2 == IF p = Index(i) THEN [h EXCEPT ![i] = number] ELSE h
         IN  [outcome |-> "running", pointer |-> p, heap |-> Kept(h2, {p, other})]

\* A send of op to p: finding the class of p sets the proxy, the primitive
\* takes its operands from the stack of the frame.
Answers(op, p, q) ==
    LET h == Arrow(p)
    IN  {Stored(number, h, b) : number \in Operation(op, Read(p, h), Read(q, h))}
Put(answer) == a' = answer.pointer /\ heap' = answer.heap /\ outcome' = answer.outcome

TypeOK ==
    /\ \A p \in {a, b} : p.value \in IF p.iint THEN MinOf(ImmediateBits) .. MaxOf(ImmediateBits)
                                     ELSE 1 .. Slots
    /\ DOMAIN heap = 1 .. Slots
    /\ \A i \in 1 .. Slots : heap[i].class \in Numeric \cup {"Nil", ""}
    /\ heap[nilIndex] = NilObject /\ heap[proxyIndex].class = "Integer"
    /\ outcome \in {"running", "trap", "error", "crash"}

Init ==
    /\ a = Index(nilIndex) /\ b = Index(nilIndex)
    /\ heap = [i \in 1 .. Slots |-> IF i = nilIndex THEN NilObject
                                    ELSE IF i = proxyIndex THEN Number("Integer", 0) ELSE NoObject]
    /\ outcome = "running"

LoadA == /\ \E literal \in Literals : Put(Stored(literal, heap, b))
         /\ UNCHANGED b
LoadB == \E literal \in Literals :
    LET answer == Stored(literal, heap, a)
    IN  b' = answer.pointer /\ heap' = answer.heap /\ UNCHANGED <<a, outcome>>

Arithmetic == \E op \in IntegerSelectors, pair \in {<<a, b>>, <<b, a>>} :
    /\ Understands(At(pair[1]), op)
    /\ \E answer \in Answers(op, pair[1], pair[2]) : Put(answer)
    /\ UNCHANGED b

\* A message with an answer that is no number ("=", "<", asString, isImmediate).
Message == \E p \in {a, b} :
    /\ heap' = Kept(Arrow(p), {a, b})
    /\ UNCHANGED <<a, b, outcome>>

Sqrt == /\ At(a).class \in Numeric
        /\ \E number \in SquareRoot(At(a)) : Put(Stored(number, Arrow(a), b))
        /\ UNCHANGED b

\* A product that overflows, modulo INT32_MAX
AtRandom == /\ At(a).class = "Integer"
            /\ \E n \in -(MaxOf(IntBits) - 1) .. MaxOf(IntBits) - 1 :
                   Put(Stored(Number("Integer", n), Arrow(a), b))
            /\ UNCHANGED b

\* doesNotUnderstand:, unknownGlobal: and escapedBlock: are sent by the virtual
\* machine, with VMObject::Send, and self in the handler is Self() of the proxy.
UnplannedSend ==
    /\ a.iint
    /\ a' = Index(proxyIndex) /\ heap' = Kept(Arrow(a), {a', b})
    /\ UNCHANGED <<b, outcome>>

Next == /\ outcome = "running"
        /\ LoadA \/ LoadB \/ Arithmetic \/ Message \/ Sqrt \/ AtRandom \/ UnplannedSend
Spec == Init /\ [][Next]_vars

-----------------------------------------------------------------------------
\* Both operands in both orders, apart from those that are the proxy.
Pairs == {<<p, q>> \in {a, b} \X {a, b} : Index(proxyIndex) \notin {p, q}}
AreWhole(p, q) == At(p).class \in Whole /\ At(q).class \in Whole
Values(op, p, q) == {Read(answer.pointer, answer.heap) : answer \in Answers(op, p, q)}

\* Sums, differences and products of integers that fit a BigInteger are exact,
\* through every coercion and back out of the pointer they are stored in: of
\* class Integer exactly if 32 bits hold them, immediate exactly if 31 do.
ArithmeticExact == outcome = "running" =>
    \A pair \in Pairs, op \in {"+", "-", "*"} :
        LET p == pair[1]
            q == pair[2]
        IN  AreWhole(p, q) /\ InBits(Exact(op, At(p).n, At(q).n), BigBits) =>
                LET n == Exact(op, At(p).n, At(q).n)
                    class == IF InBits(n, IntBits) THEN "Integer" ELSE "BigInteger"
                IN  \A answer \in Answers(op, p, q) :
                       /\ Read(answer.pointer, answer.heap) = Number(class, n)
                       /\ answer.pointer.iint <=> InBits(n, ImmediateBits)

\* The quotient and the remainder of two integers put together again give the
\* dividend, in every class the four numbers can have, if the division does not
\* trap; and it traps only for a zero or for the quotient that has no BigInteger.
QuotientRemainder == outcome = "running" =>
    \A pair \in Pairs :
        LET p == pair[1]
            q == pair[2]
            x == At(p).n
            y == At(q).n
        IN  AreWhole(p, q) =>
              IF y = 0 \/ (x = MinOf(BigBits) /\ y = -1)
              THEN \A answer \in Answers("/", p, q) : answer.outcome = "trap"
              ELSE \A quotient \in Values("/", p, q), remainder \in Values("%", p, q) :
                     /\ quotient.n * y + remainder.n = x
                     /\ remainder.n # 0 => (remainder.n > 0 <=> x > 0)

\* The results of integers with integers, in value, class and representation.
IntegersExact == TypeOK /\ ArithmeticExact /\ QuotientRemainder

\* Of two numbers that can be compared, exactly one is less or they are equal,
\* and the answers are those of the other one compared with the first, so that
\* >, >= and <=, which the library makes of = and <, agree with the values.
\* (A BigInteger does not compare itself with a Double: see BigIntegersCoerce.)
Comparable(p, q) ==
    /\ {At(p).class, At(q).class} \subseteq Numeric
    /\ {At(p).class, At(q).class} # {"BigInteger", "Double"}
    /\ ~At(p).special /\ ~At(q).special
ComparisonsAgree == outcome = "running" =>
    \A pair \in Pairs :
        LET x == At(pair[1])
            y == At(pair[2])
        IN  Comparable(pair[1], pair[2]) =>
              \A less \in Comparison(TRUE, x, y), equal \in Comparison(FALSE, x, y),
                 greater \in Comparison(TRUE, y, x), equalToo \in Comparison(FALSE, y, x) :
                 /\ equal = equalToo
                 /\ Cardinality({answer \in {"<", "=", ">"} :
                        CASE answer = "<" -> less [] answer = "=" -> equal [] answer = ">" -> greater}) = 1
                 /\ AreWhole(pair[1], pair[2]) => (less <=> x.n < y.n)

\* An Integer and a Double give a Double, in either order (Integer.cpp:48).
DoublesImpose == outcome = "running" =>
    \A pair \in Pairs, op \in {"+", "-", "*"} :
        {At(pair[1]).class, At(pair[2]).class} = {"Integer", "Double"} =>
            \A value \in Values(op, pair[1], pair[2]) : value.class = "Double"

-----------------------------------------------------------------------------
\* What the comments say and the code does not do.
\* BigInteger.cpp:163, 178: the remainder and the conjunction are converted to
\* Integer if required, like the other results.
BigIntegersCanonic ==
    \A p \in {a, b} : At(p).class = "BigInteger" /\ At(p) \notin Literals =>
        ~InBits(At(p).n, IntBits)
\* BigInteger.cpp:47: the second parameter is checked for its type.
BigIntegersCoerce == outcome = "running" =>
    \A pair \in Pairs :
        At(pair[1]).class = "BigInteger" /\ At(pair[2]).class = "Double" =>
            \A value \in Values("+", pair[1], pair[2]) : value.class = "Double"
\* Integer.cpp:49: an operation that is resent as one of a Double is answered.
ResendsUnderstood == outcome # "crash"
\* Universe.cpp:340: the proxy answers all sends to immediate integers: self of a
\* handler is the number it was entered with as long as the handler runs.
SelfKeepsValue ==
    [][a = Index(proxyIndex) /\ a' = a => heap'[proxyIndex] = heap[proxyIndex]]_vars
\* Object.som:41: what is equal has the same hash; nil has the hash of an object.
EqualMeansSameHash == \A p \in {a, b} :
    At(p).class = "Integer" /\ p # Index(proxyIndex) => ~Identical(Index(nilIndex), p)
=============================================================================
