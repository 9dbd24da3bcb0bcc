------------------------------ MODULE Compiler ------------------------------
(***************************************************************************)
(* The compiler of SOM classes: the recursive descent parser               *)
(* (src/src/compiler/Parser.cpp) and the generation of methods and blocks  *)
(* (MethodGenerationContext.cpp, BytecodeGenerator.cpp).                   *)
(*                                                                         *)
(* The functions of the parser that are still to be called or to be        *)
(* returned to are a stack of tasks, "todo"; one action is one function up *)
(* to its first call.  Tokens are chosen when the lexer is asked for them. *)
(* Of a method the model keeps what the interpreter depends on: variables, *)
(* literals, and the operands its bytecodes leave on the stack.            *)
(***************************************************************************)
EXTENDS Integers, Sequences

CONSTANTS Sources,    \* kinds of source files: their tokens, the arguments
                      \* of their methods, and as bounds their length and
                      \* whether syntax errors are left out
          Names,      \* identifiers that may be declared
          DepthLimit  \* values of the counter of operands (uint8_t: 256)

VARIABLES source,  \* the kind of file that is compiled
          sym,     \* the current token
          nextSym, \* the token the lexer has peeked at, if any
          read,    \* tokens read, for the bound
          errors,  \* a syntax error was reported
          todo,    \* calls to make and to return to
          gens,    \* generation contexts: the method and the blocks around
          fields,  \* fields declared on the side of the class being compiled
          super,   \* the last primary was "super"
          access   \* the variable the last bytecode reads or writes

scanner == <<sym, nextSym, read>>
vars == <<source, scanner, errors, todo, gens, fields, super, access>>

EndOfInput == [sym |-> "NONE", text |-> ""]
NoToken == [sym |-> "", text |-> ""]
NoAccess == [name |-> "", kind |-> "none", level |-> 0, index |-> 0]

\* The symbols of the lexer.  "Op" stands for the operators the parser does
\* not treat one by one, OperatorSequence included.
Terminals == {"NONE", "Identifier", "Keyword", "KeywordSequence", "Op", "Or", "Minus",
              "Equal", "Integer", "STString", "Pound", "NewTerm", "EndTerm", "NewBlock",
              "EndBlock", "Colon", "Assign", "Period", "Exit", "Primitive", "Separator"}
singleOpSyms == {"Op", "Or", "Equal"}
binaryOpSyms == singleOpSyms \cup {"Minus"}
keywordSelectorSyms == {"Keyword", "KeywordSequence"}

Tokens == [sym : Terminals, text : STRING]

ASSUME CompilerAssumption ==
    /\ \A s \in Sources : DOMAIN s = {"tokens", "arguments", "length", "correct"}
    /\ \A s \in Sources : /\ s.tokens \subseteq Tokens /\ s.arguments \in Seq(STRING)
                          /\ s.length \in Nat \ {0} /\ s.correct \in BOOLEAN
    /\ DepthLimit \in Nat \ {0}

Larger(a, b) == IF a > b THEN a ELSE b
Place(s, x) == {i \in DOMAIN s : s[i] = x}    \* ExtendedList::IndexOf
Least(S) == CHOOSE i \in S : \A j \in S : i <= j

-----------------------------------------------------------------------------
\* Generation contexts.  "depth" is what the bytecodes really leave on the
\* stack and "high" its maximum, "counted" and "max" are the same as
\* ComputeStackDepth counts them, "short" says that a bytecode takes operands
\* that are not there, "returned" are the depths at returns.  "last" is the effect
\* of the last bytecode, "operand" says that bytes behind it name its operand, and
\* "cut" that one of these was taken back.
MethodGenerationContext(arguments) ==
    [arguments |-> arguments, locals |-> <<>>, literals |-> {},
     finished |-> FALSE, primitive |-> FALSE,
     depth |-> 0, high |-> 0, counted |-> 0, max |-> 0,
     last |-> 0, operand |-> FALSE, cut |-> FALSE,
     short |-> FALSE, returned |-> {}, yields |-> FALSE, empty |-> FALSE]

gen == gens[Len(gens)]
Outer == SubSeq(gens, 1, Len(gens) - 1)
SetGen(g) == gens' = Append(Outer, g)
IsBlockMethod == Len(gens) > 1

AddArgument(g, name) == [g EXCEPT !.arguments = Append(@, name)]
AddArgumentIfAbsent(g, name) == IF Place(g.locals, name) # {} THEN g ELSE AddArgument(g, name)
AddLocalIfAbsent(g, name) ==
    IF Place(g.locals, name) # {} THEN g ELSE [g EXCEPT !.locals = Append(@, name)]
AddLiteralIfAbsent(g, literal) == [g EXCEPT !.literals = @ \cup {literal}]

\* MethodGenerationContext::ComputeStackDepth counts modulo 2^8 and looks at
\* the counter after each bytecode.
Count(g, effect) == (g.counted + effect) % DepthLimit

\* A bytecode that takes operands from the stack and leaves others; EMIT1, or with
\* an operand of its own EMIT2 and EMIT3.
Emit(g, take, leave, operand) ==
    [g EXCEPT !.depth = @ - take + leave, !.high = Larger(@, g.depth - take + leave),
              !.counted = Count(g, leave - take), !.max = Larger(@, Count(g, leave - take)),
              !.last = leave - take, !.operand = operand, !.short = @ \/ g.depth < take]

EmitPush(g) == Emit(g, 0, 1, TRUE)
EmitPOP(g) == Emit(g, 1, 0, FALSE)
EmitPopVariable(g) == Emit(g, 1, 0, TRUE)
EmitDUP(g) == Emit(g, 1, 2, FALSE)
EmitYIELD(g) == [Emit(g, 0, 0, FALSE) EXCEPT !.yields = TRUE]
\* Fault: the value a send leaves is not counted.
EmitSendUncounted(g, operands) ==
    [Emit(g, operands, 1, TRUE) EXCEPT !.counted = Count(g, -operands), !.max = g.max]

EmitSend(g, operands) == Emit(g, operands, 1, TRUE)

\* The opcode of a return behind a bytecode that lost a byte is read as its operand.
EmitReturn(g) == [g EXCEPT !.returned = IF g.cut THEN @ ELSE @ \cup {g.depth},
                           !.finished = TRUE, !.last = 0, !.operand = FALSE]

\* One byte is taken back: a bytecode without an operand, or a byte of the operand.
RemoveLastBytecode(g) ==
    IF g.operand
      THEN [g EXCEPT !.cut = TRUE]
      ELSE [g EXCEPT !.depth = @ - g.last, !.counted = Count(g, -g.last), !.last = 0]

\* MethodGenerationContext::FindVar: locals before arguments, and the context
\* itself before the outer ones.
Declared(g, name) == Place(g.locals, name) \cup Place(g.arguments, name) # {}

\* Fault: the level is not counted on the way out.
FindVarHere(name) ==
    LET level == Least({n \in 0..(Len(gens) - 1) : Declared(gens[Len(gens) - n], name)})
        g == gens[Len(gens) - level]
        local == Place(g.locals, name) # {}
    IN  [name |-> name, kind |-> IF local THEN "local" ELSE "argument", level |-> 0,
         index |-> Least(IF local THEN Place(g.locals, name) ELSE Place(g.arguments, name))]

FindVar(name) ==
    LET level == Least({n \in 0..(Len(gens) - 1) : Declared(gens[Len(gens) - n], name)})
        g == gens[Len(gens) - level]
        local == Place(g.locals, name) # {}
    IN  [name |-> name, kind |-> IF local THEN "local" ELSE "argument", level |-> level,
         index |-> Least(IF local THEN Place(g.locals, name) ELSE Place(g.arguments, name))]

InContext(name) == \E g \in DOMAIN gens : Declared(gens[g], name)
ByName(name, kind) == [name |-> name, kind |-> kind, level |-> 0, index |-> 0]

genPushVariable(name) ==
    /\ access' = IF InContext(name) THEN FindVar(name)
                 ELSE ByName(name, IF name \in fields THEN "field" ELSE "global")
    /\ SetGen(EmitPush(IF InContext(name) THEN gen ELSE AddLiteralIfAbsent(gen, name)))

genPopVariable(name) ==
    /\ access' = IF InContext(name) THEN FindVar(name) ELSE ByName(name, "field")
    /\ SetGen(EmitPopVariable(gen))

-----------------------------------------------------------------------------
\* A task is a function of the parser, or a symbol to expect.  "n" and
\* "isSuper" are its arguments, "names" the variables that are assigned to.
Task(f, n, isSuper, names) == [do |-> f, n |-> n, isSuper |-> isSuper, names |-> names]
Plan(fs) == [i \in DOMAIN fs |-> Task(fs[i], 0, FALSE, <<>>)]

task == Head(todo)
Call(f) == todo # <<>> /\ task.do = f
Expand(tasks) == todo' = tasks \o Tail(todo)
Do(fs) == Expand(Plan(fs))

Unread == IF read < source.length THEN source.tokens ELSE {EndOfInput}
Chosen == read' = IF read < source.length THEN read + 1 ELSE read

\* Lexer::GetSym and Lexer::Peek
GetSym ==
    /\ IF nextSym = NoToken
         THEN sym' \in Unread /\ Chosen
         ELSE sym' = nextSym /\ UNCHANGED read
    /\ nextSym' = NoToken
Peek == sym' = sym /\ nextSym' \in Unread /\ Chosen

accept(s) == IF sym.sym = s THEN GetSym ELSE UNCHANGED scanner

\* Parser::Classdef
Classdef == Plan(<<"Identifier", "Equal", "superclass", "NewTerm", "fields", "methods",
                   "classSide", "EndTerm">>)

\* A source file is read from its beginning, or from the body of a method on.
Init ==
    /\ source \in Sources
    /\ sym \in source.tokens
    /\ nextSym = NoToken
    /\ read = 1
    /\ errors = FALSE
    /\ \/ /\ todo = Classdef
          /\ gens = <<>>
          /\ fields = {}
       \/ /\ todo = Plan(<<"methodBody", "Assemble">>) \o SubSeq(Classdef, 6, 8)
          /\ gens = <<MethodGenerationContext(<<"self">> \o source.arguments)>>
          /\ fields = Names
    /\ super = FALSE
    /\ access = NoAccess

\* Parser::expect prints a message and goes on.
Report == ~source.correct /\ errors' = TRUE

\* A symbol that is not the expected one is reported and stays where it is.
expect ==
    /\ todo # <<>> /\ task.do \in Terminals
    /\ accept(task.do)
    /\ IF sym.sym = task.do THEN UNCHANGED errors ELSE Report
    /\ Do(<<>>)
    /\ access' = NoAccess
    /\ UNCHANGED <<gens, fields, super>>

Parse(f) == Call(f) /\ access' = NoAccess /\ UNCHANGED errors

-----------------------------------------------------------------------------
\* Classes
superclass ==
    /\ Parse("superclass")
    /\ accept("Identifier")
    /\ Do(<<>>)
    /\ UNCHANGED <<gens, fields, super>>

\* instanceFields and classFields
Fields ==
    /\ Parse("fields")
    /\ accept("Or")
    /\ Do(IF sym.sym = "Or" THEN <<"fieldNames", "Or">> ELSE <<>>)
    /\ UNCHANGED <<gens, fields, super>>

\* Fault: the name is looked at and not read.
fieldNamesUnread ==
    /\ Parse("fieldNames")
    /\ IF sym.sym = "Identifier"
         THEN fields' = fields \cup {sym.text} /\ UNCHANGED todo
         ELSE Do(<<>>) /\ UNCHANGED fields
    /\ UNCHANGED <<scanner, gens, super>>

fieldNames ==
    /\ Parse("fieldNames")
    /\ IF sym.sym = "Identifier"
         THEN fields' = fields \cup {sym.text} /\ UNCHANGED todo
         ELSE Do(<<>>) /\ UNCHANGED fields
    /\ accept("Identifier")
    /\ UNCHANGED <<gens, super>>

Methods ==
    /\ Parse("methods")
    /\ IF sym.sym \in {"Identifier", "Keyword"} \cup binaryOpSyms
         THEN /\ gens' = <<MethodGenerationContext(<<"self">>)>>
              /\ Do(<<"pattern", "Equal", "methodBody", "Assemble", "methods">>)
         ELSE Do(<<>>) /\ UNCHANGED gens
    /\ UNCHANGED <<scanner, fields, super>>

\* MethodGenerationContext::Assemble, and what the caller does with the result
Assemble ==
    /\ Parse("Assemble")
    /\ gens' = IF IsBlockMethod
                 THEN Append(SubSeq(gens, 1, Len(gens) - 2), EmitPush(gens[Len(gens) - 1]))
                 ELSE <<>>
    /\ Do(<<>>)
    /\ super' = FALSE
    /\ UNCHANGED <<scanner, fields>>

classSide ==
    /\ Parse("classSide")
    /\ accept("Separator")
    /\ IF sym.sym = "Separator"
         THEN fields' = {} /\ Do(<<"fields", "methods">>)
         ELSE UNCHANGED fields /\ Do(<<>>)
    /\ UNCHANGED <<gens, super>>

-----------------------------------------------------------------------------
\* Methods
pattern ==
    /\ Parse("pattern")
    /\ CASE sym.sym = "Identifier" -> Do(<<>>) /\ GetSym
         [] sym.sym = "Keyword"    -> Do(<<"argument", "keywordPattern">>) /\ GetSym
         [] OTHER                  -> Do(<<"argument">>) /\ GetSym
    /\ UNCHANGED <<gens, fields, super>>

keywordPattern ==
    /\ Parse("keywordPattern")
    /\ accept("Keyword")
    /\ Do(IF sym.sym = "Keyword" THEN <<"argument", "keywordPattern">> ELSE <<>>)
    /\ UNCHANGED <<gens, fields, super>>

\* Parser::identifier takes the text of whatever symbol it finds.
argument ==
    /\ Call("argument")
    /\ SetGen(AddArgumentIfAbsent(gen, sym.text))
    /\ IF sym.sym \in {"Identifier", "Primitive"}
         THEN GetSym /\ UNCHANGED errors
         ELSE Report /\ UNCHANGED scanner
    /\ Do(<<>>)
    /\ access' = NoAccess
    /\ UNCHANGED <<fields, super>>

methodBody ==
    /\ Parse("methodBody")
    /\ IF sym.sym = "Primitive"
         THEN /\ SetGen([gen EXCEPT !.primitive = TRUE])
              /\ Do(<<"Primitive">>)
         ELSE /\ UNCHANGED gens
              /\ Do(<<"NewTerm", "blockContents", "finishMethod", "EndTerm">>)
    /\ UNCHANGED <<scanner, fields, super>>

finishMethod ==
    /\ Parse("finishMethod")
    /\ SetGen(IF gen.finished THEN gen ELSE EmitReturn(EmitPush(EmitPOP(gen))))
    /\ Do(<<>>)
    /\ UNCHANGED <<scanner, fields, super>>

blockContents ==
    /\ Parse("blockContents")
    /\ accept("Or")
    /\ Do(IF sym.sym = "Or" THEN <<"locals", "Or", "blockBody">> ELSE <<"blockBody">>)
    /\ UNCHANGED <<gens, fields, super>>

locals ==
    /\ Parse("locals")
    /\ IF sym.sym = "Identifier"
         THEN SetGen(AddLocalIfAbsent(gen, sym.text)) /\ UNCHANGED todo
         ELSE Do(<<>>) /\ UNCHANGED gens
    /\ accept("Identifier")
    /\ UNCHANGED <<fields, super>>

\* Fault: the POP before the end of a block stays.
BodyEndsAfterPop(seen_period) ==
    /\ sym.sym \in {"EndBlock", "EndTerm"}
    /\ SetGen(LET g == IF seen_period /\ sym.sym = "EndTerm" THEN EmitPush(gen) ELSE gen
              IN  EmitReturn([g EXCEPT !.empty = ~seen_period]))

\* Parser::blockBody.  "nextStatement" is blockBody(mgenc, true).
BodyEnds(seen_period) ==
    \/ /\ sym.sym = "EndBlock"
       /\ SetGen(LET g == IF seen_period THEN RemoveLastBytecode(gen) ELSE gen
                 IN  EmitReturn([g EXCEPT !.empty = ~seen_period]))
    \/ /\ sym.sym = "EndTerm"
       /\ SetGen(LET g == IF seen_period THEN EmitPush(gen) ELSE gen
                 IN  EmitReturn([g EXCEPT !.empty = ~seen_period]))

blockBody ==
    \E f \in {"blockBody", "nextStatement"} :
      /\ Parse(f)
      /\ \/ /\ sym.sym = "Exit"
            /\ GetSym
            /\ Do(<<"expression", "result">>)
            /\ UNCHANGED gens
         \/ /\ BodyEnds(f = "nextStatement")
            /\ Do(<<>>)
            /\ UNCHANGED scanner
         \/ /\ sym.sym \notin {"Exit", "EndBlock", "EndTerm"}
            /\ Do(<<"expression", "endStatement">>)
            /\ UNCHANGED <<scanner, gens>>
      /\ UNCHANGED <<fields, super>>

\* Fault: the value of a statement is left on the stack.
endStatementKeeping ==
    /\ Parse("endStatement")
    /\ CASE sym.sym = "Yield"  -> GetSym /\ Do(<<"afterYield">>)
         [] sym.sym = "Period" -> GetSym /\ Do(<<"nextStatement">>)
         [] OTHER              -> UNCHANGED scanner /\ Do(<<>>)
    /\ UNCHANGED <<gens, fields, super>>

endStatement ==
    /\ Parse("endStatement")
    /\ CASE sym.sym = "Yield"  -> GetSym /\ UNCHANGED gens /\ Do(<<"afterYield">>)
         [] sym.sym = "Period" -> GetSym /\ SetGen(EmitPOP(gen)) /\ Do(<<"nextStatement">>)
         [] OTHER              -> UNCHANGED <<scanner, gens>> /\ Do(<<>>)
    /\ UNCHANGED <<fields, super>>

afterYield ==
    /\ Parse("afterYield")
    /\ accept("Exit")
    /\ Do(IF sym.sym = "Exit" THEN <<"expression", "result">> ELSE <<"nextStatement">>)
    /\ UNCHANGED <<gens, fields, super>>

result ==
    /\ Parse("result")
    /\ SetGen(EmitReturn(gen))
    /\ accept("Period")
    /\ Do(<<>>)
    /\ UNCHANGED <<fields, super>>

-----------------------------------------------------------------------------
\* Expressions
evaluation == <<"primary", "messages">>

expression ==
    /\ Parse("expression")
    /\ Peek
    /\ IF nextSym'.sym = "Assign"
         THEN Do(<<"assignments">> \o evaluation \o <<"assign">>)
         ELSE Do(evaluation)
    /\ UNCHANGED <<gens, fields, super>>

\* Fault: the variable is not read before the parser looks ahead again.
assignmentsUnread ==
    /\ Parse("assignments")
    /\ IF sym.sym = "Identifier"
         THEN /\ SetGen(AddLiteralIfAbsent(gen, sym.text))
              /\ todo' = Plan(<<"Assign", "moreAssignments">>)
                           \o [Tail(todo) EXCEPT ![3].names = Append(@, sym.text)]
         ELSE UNCHANGED gens /\ Do(<<>>)
    /\ UNCHANGED <<scanner, fields, super>>

\* Fault: the name of the variable is not added to the literals.
assignmentsUnnamed ==
    /\ Parse("assignments")
    /\ IF sym.sym = "Identifier"
         THEN /\ GetSym
              /\ todo' = Plan(<<"Assign", "moreAssignments">>)
                           \o [Tail(todo) EXCEPT ![3].names = Append(@, sym.text)]
         ELSE UNCHANGED scanner /\ Do(<<>>)
    /\ UNCHANGED <<gens, fields, super>>

\* The variables of assignments are collected in the task that assigns them.
assignments ==
    /\ Parse("assignments")
    /\ IF sym.sym = "Identifier"
         THEN /\ GetSym
              /\ SetGen(AddLiteralIfAbsent(gen, sym.text))
              /\ todo' = Plan(<<"Assign", "moreAssignments">>)
                           \o [Tail(todo) EXCEPT ![3].names = Append(@, sym.text)]
         ELSE UNCHANGED <<scanner, gens>> /\ Do(<<>>)
    /\ UNCHANGED <<fields, super>>

moreAssignments ==
    /\ Parse("moreAssignments")
    /\ Peek
    /\ Do(IF nextSym'.sym = "Assign" THEN <<"assignments">> ELSE <<>>)
    /\ UNCHANGED <<gens, fields, super>>

\* All values are duplicated before the first variable is popped.
assign ==
    /\ Call("assign")
    /\ IF task.names = <<>>
         THEN Do(<<>>) /\ access' = NoAccess /\ UNCHANGED gens
         ELSE IF task.n < Len(task.names)
         THEN /\ Expand(<<[task EXCEPT !.n = @ + 1]>>)
              /\ SetGen(EmitDUP(gen))
              /\ access' = NoAccess
         ELSE /\ Expand(<<[task EXCEPT !.n = @ - 1, !.names = Tail(@)]>>)
              /\ genPopVariable(Head(task.names))
    /\ UNCHANGED <<scanner, errors, fields, super>>

\* Parser::primary.  For "yield" the symbol that follows is overwritten.
primaryVariable ==
    /\ Call("primary") /\ sym.sym = "Identifier"
    /\ Do(<<>>)
    /\ super' = (sym.text = "super")
    /\ IF sym.text = "yield"
         THEN /\ SetGen(EmitYIELD(gen))
              /\ access' = NoAccess
              /\ sym' = [sym |-> "Yield", text |-> "yield"]
              /\ nextSym' = NoToken
              /\ IF nextSym = NoToken THEN Chosen ELSE UNCHANGED read
         ELSE /\ genPushVariable(IF sym.text = "super" THEN "self" ELSE sym.text)
              /\ GetSym
    /\ UNCHANGED <<errors, fields>>

nestedTerm ==
    /\ Parse("primary") /\ sym.sym = "NewTerm"
    /\ Do(<<"NewTerm", "expression", "EndTerm", "notSuper">>)
    /\ UNCHANGED <<scanner, gens, fields, super>>

\* "super" is a variable of each call of evaluation, binaryOperand or formula.
notSuper ==
    /\ Parse("notSuper")
    /\ Do(<<>>)
    /\ super' = FALSE
    /\ UNCHANGED <<scanner, gens, fields>>

nestedBlock ==
    /\ Parse("primary") /\ sym.sym = "NewBlock"
    /\ gens' = Append(gens, MethodGenerationContext(<<"$block self">>))
    /\ Do(<<"NewBlock", "blockPattern", "blockContents", "finishBlock", "EndBlock", "Assemble">>)
    /\ UNCHANGED <<scanner, fields, super>>

blockPattern ==
    /\ Parse("blockPattern")
    /\ accept("Colon")
    /\ Do(IF sym.sym = "Colon" THEN <<"argument", "blockArguments">> ELSE <<>>)
    /\ UNCHANGED <<gens, fields, super>>

blockArguments ==
    /\ Parse("blockArguments")
    /\ accept("Colon")
    /\ Do(IF sym.sym = "Colon" THEN <<"argument", "blockArguments">> ELSE <<"Or">>)
    /\ UNCHANGED <<gens, fields, super>>

finishBlock ==
    /\ Parse("finishBlock")
    /\ SetGen(IF gen.finished THEN gen ELSE EmitReturn(gen))
    /\ Do(<<>>)
    /\ UNCHANGED <<scanner, fields, super>>

\* literalNumber, literalSymbol and literalString
literal ==
    /\ Parse("primary")
    /\ sym.sym \notin {"Identifier", "NewTerm", "NewBlock"}
    /\ Do(CASE sym.sym = "Pound"    -> <<"Pound", "selector">>
            [] sym.sym = "STString" -> <<"STString">>
            [] sym.sym = "Minus"    -> <<"Minus", "Integer">>
            [] OTHER                -> <<"Integer">>)
    /\ SetGen(EmitPush(AddLiteralIfAbsent(gen, sym.text)))
    /\ super' = FALSE
    /\ UNCHANGED <<scanner, fields>>

\* The name of a symbol.
selector ==
    /\ Call("selector")
    /\ LET known == sym.sym \in {"STString", "Identifier", "Primitive"}
                                  \cup singleOpSyms \cup keywordSelectorSyms
       IN  IF known THEN GetSym /\ UNCHANGED errors
                    ELSE Report /\ UNCHANGED scanner
    /\ Do(<<>>)
    /\ access' = NoAccess
    /\ UNCHANGED <<gens, fields, super>>

-----------------------------------------------------------------------------
\* Messages
messages ==
    /\ Parse("messages")
    /\ CASE sym.sym = "Identifier" ->
              Expand(<<Task("unaryMessage", 0, super, <<>>)>>
                       \o Plan(<<"unaryMessages", "binaryMessages", "keywordLast">>))
         [] sym.sym \in binaryOpSyms ->
              Expand(<<Task("binaryMessage", 0, super, <<>>)>>
                       \o Plan(<<"binaryMessages", "keywordLast">>))
         [] sym.sym = "Keyword" -> Expand(<<Task("keywordMessage", 1, super, <<>>)>>)
         [] OTHER -> Do(<<>>)
    /\ UNCHANGED <<scanner, gens, fields, super>>

Again(f, g, symbols) ==
    /\ Parse(f)
    /\ Do(IF sym.sym \in symbols THEN <<g, f>> ELSE <<>>)
    /\ UNCHANGED <<scanner, gens, fields, super>>

unaryMessages == Again("unaryMessages", "unaryMessage", {"Identifier"})
binaryMessages == Again("binaryMessages", "binaryMessage", binaryOpSyms)

keywordLast ==
    /\ Parse("keywordLast")
    /\ IF sym.sym = "Keyword"
         THEN Expand(<<Task("keywordMessage", 1, FALSE, <<>>)>>)
         ELSE Do(<<>>)
    /\ UNCHANGED <<scanner, gens, fields, super>>

unaryMessage ==
    /\ Parse("unaryMessage")
    /\ GetSym
    /\ SetGen(EmitSend(AddLiteralIfAbsent(gen, sym.text), 1))
    /\ Do(<<>>)
    /\ UNCHANGED <<fields, super>>

binaryMessage ==
    /\ Parse("binaryMessage")
    /\ GetSym
    /\ SetGen(AddLiteralIfAbsent(gen, sym.text))
    /\ Expand(Plan(<<"primary", "operandMessages">>) \o <<Task("send", 2, task.isSuper, <<>>)>>)
    /\ UNCHANGED <<fields, super>>

\* The unary messages of Parser::binaryOperand all have its "super".
operandMessages ==
    /\ Parse("operandMessages")
    /\ IF sym.sym = "Identifier"
         THEN Expand(<<Task("unaryMessage", 0, super, <<>>), task>>)
         ELSE Do(<<>>)
    /\ UNCHANGED <<scanner, gens, fields, super>>

\* One keyword and its operand; "n" counts the operands with the receiver.
keywordMessage ==
    /\ Parse("keywordMessage")
    /\ GetSym
    /\ Expand(Plan(<<"primary", "operandMessages", "formula">>)
                \o <<Task("moreKeywords", task.n + 1, task.isSuper, <<>>)>>)
    /\ UNCHANGED <<gens, fields, super>>

moreKeywords ==
    /\ Parse("moreKeywords")
    /\ Expand(<<[task EXCEPT !.do = IF sym.sym = "Keyword" THEN "keywordMessage" ELSE "send"]>>)
    /\ UNCHANGED <<scanner, gens, fields, super>>

formula ==
    /\ Parse("formula")
    /\ IF sym.sym \in binaryOpSyms
         THEN Expand(<<Task("binaryMessage", 0, super, <<>>)>> \o Plan(<<"binaryMessages">>))
         ELSE Do(<<>>)
    /\ UNCHANGED <<scanner, gens, fields, super>>

\* SUPER_SEND, SEND_ASYNC or SEND
send ==
    /\ Parse("send")
    /\ SetGen(EmitSend(gen, task.n))
    /\ Do(<<>>)
    /\ UNCHANGED <<scanner, fields, super>>

-----------------------------------------------------------------------------
Function ==
    \/ superclass \/ Fields \/ fieldNames \/ Methods \/ Assemble \/ classSide
    \/ pattern \/ keywordPattern \/ argument \/ methodBody \/ finishMethod
    \/ blockContents \/ locals \/ blockBody \/ endStatement \/ afterYield \/ result
    \/ expression \/ assignments \/ moreAssignments \/ assign
    \/ primaryVariable \/ nestedTerm \/ notSuper
    \/ nestedBlock \/ blockPattern \/ blockArguments \/ finishBlock
    \/ literal \/ selector
    \/ messages \/ unaryMessages \/ binaryMessages \/ keywordLast \/ unaryMessage
    \/ binaryMessage \/ operandMessages \/ keywordMessage \/ moreKeywords \/ formula \/ send

Next == (expect \/ Function) /\ UNCHANGED source

Spec == Init /\ [][Next]_vars

\* The parser is a program that runs.
FairSpec == Spec /\ WF_vars(Next)

-----------------------------------------------------------------------------
Contexts == {gens[i] : i \in DOMAIN gens}

\* Tasks, contexts and symbols have their types, and a task that writes into a
\* context finds one.
TypeOK ==
    /\ sym.sym \in Terminals \cup {"Yield"}
    /\ nextSym.sym \in Terminals \cup {""}
    /\ read \in 1..source.length
    /\ errors \in BOOLEAN /\ super \in BOOLEAN
    /\ \A g \in Contexts :
         /\ g.max \in 0..(DepthLimit - 1) /\ g.counted \in 0..(DepthLimit - 1)
         /\ g.depth \in Int /\ g.finished \in BOOLEAN
         /\ g.operand \in BOOLEAN /\ g.cut \in BOOLEAN
    /\ gens = <<>> =>
         \A i \in DOMAIN todo : todo[i].do \in Terminals \cup
            {"superclass", "fields", "fieldNames", "methods", "classSide"}

\* The lexer is never asked to peek at a second token, for which it has no
\* place, whatever the source file contains: every path from one peek to the
\* next reads a token in between.
PeeksOnce == Call("expression") \/ Call("moreAssignments") => nextSym = NoToken

\* A statement begins with no operands on the stack, however the ones before
\* it ended.
StatementsBalanced ==
    ~errors /\ (Call("blockBody") \/ Call("nextStatement")) => gen.depth = 0

\* In a method or block that has code and no yield, every return finds exactly
\* the value to return, no bytecode takes operands that are not there, and none
\* loses a byte of its own when the one before the end is taken back.
ReturnsOneValue ==
    ~errors /\ Call("Assemble") /\ ~gen.primitive /\ ~gen.yields /\ ~gen.empty
      => gen.returned = {1} /\ ~gen.short /\ ~gen.cut

\* The number of operands recorded for a method is enough for what its
\* bytecodes push, unless that is more than the counter holds, or a bytecode
\* names a wrong literal because a yield made it lose its last byte.
StackSuffices ==
    ~errors /\ Call("Assemble") /\ gen.high < DepthLimit /\ ~gen.cut => gen.max >= gen.high

\* The operands of a method or block, from its first statement to its last return
\* (Parser.cpp, BytecodeGenerator.cpp, MethodGenerationContext::ComputeStackDepth).
OperandsBalanced == TypeOK /\ StatementsBalanced /\ ReturnsOneValue /\ StackSuffices

\* A variable is read and written in the innermost context that declares it,
\* at the level and index the interpreter will look for it.
AccessesDeclaration ==
    access.kind \in {"local", "argument"} =>
      LET g == gens[Len(gens) - access.level]
      IN  /\ access.index \in Place(IF access.kind = "local" THEN g.locals ELSE g.arguments,
                                    access.name)
          /\ \A n \in 0..(access.level - 1) : ~Declared(gens[Len(gens) - n], access.name)

\* A bytecode that names a field or a global finds the name among the literals
\* of its own method: whoever emits it has added it there.
NamesAmongLiterals ==
    access.kind \in {"field", "global"} => access.name \in gen.literals

\* Every name in a bytecode leads the interpreter to what the source means by it.
NamesResolved == AccessesDeclaration /\ NamesAmongLiterals

\* The comment of Parser::formula ("only the first message in a sequence can be
\* a super send"): a super send finds "self" as the operand pushed last, not
\* the result of another send.  False: binaryOperand sends all its unary
\* messages to super, and formula the binary message after them.
OnlyFirstToSuper ==
    ~errors /\ (Call("unaryMessage") \/ Call("binaryMessage")) /\ task.isSuper => gen.last = 1

\* The comment of Parser::blockBody ("a POP has been generated which must be
\* elided"): what is removed at the end of a block is a POP.  False: after a
\* yield it is the YIELD, or the last byte of a send or of an assignment.
ElidesPop ==
    ~errors /\ Call("nextStatement") /\ sym.sym = "EndBlock" => gen.last = -1 /\ ~gen.operand

\* The comment of Parser::genPopVariable ("whether the variable to be popped off
\* the stack is a local variable, argument, or object field"): what is written
\* as a field is one.  False for names that nothing declares.
WritesDeclared ==
    [][ (Call("assign") /\ access'.kind = "field") => access'.name \in fields ]_vars

\* The parser comes to an end on every source file, correct or not.
ParsingEnds == ~source.correct => <>(todo = <<>>)
=============================================================================
