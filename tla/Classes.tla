------------------------------ MODULE Classes ------------------------------
(***************************************************************************)
(* How the virtual machine gets its classes: the command line, the start   *)
(* of Universe (src/src/vm/Universe.cpp), loading a class with its         *)
(* superclasses from the class path (SourcecodeCompiler.cpp,               *)
(* ClassGenerationContext.cpp), binding its primitives (VMClass.cpp,       *)
(* primitives/Core.cpp), the classes of blocks, System>>resolve: of the    *)
(* class library, and the lines typed at the shell.                        *)
(*                                                                         *)
(* LoadClass calls itself for superclasses: "loads" is the stack of calls. *)
(* What is compiled is the file's record; Compiler models the parsing.     *)
(***************************************************************************)
EXTENDS Integers, Sequences, FiniteSets, FiniteSetsExt, SequencesExt

CONSTANTS Requests,  \* names the running program asks for
          Worlds,    \* command lines, directories with files, shell inputs
          MaxDepth,  \* bound: calls of LoadClass the native stack has room for
          MaxOps     \* bound: requests of the running program

\* Words are sequences of names and separators.
Symbols == STRING \cup {"/", ":", ".som", "."}
\* What the compiler reads from a file.
ClassFiles ==
    LET methods == Seq([signature : STRING, primitive : BOOLEAN])
    IN  [name : STRING, super : STRING, fields : Seq(STRING), methods : methods,
         classFields : Seq(STRING), classMethods : methods]
ASSUME ClassesAssumption ==
    /\ \A w \in Worlds :
           /\ {"args", "dirs", "lines"} \subseteq DOMAIN w
           /\ w.args \in Seq([option : STRING, text : Seq(Symbols)])
           /\ \A d \in DOMAIN w.dirs : \A n \in DOMAIN w.dirs[d].files :
                  w.dirs[d].files[n] \in ClassFiles
    /\ MaxDepth \in Nat \ {0} /\ MaxOps \in Nat

VARIABLES world,
          command,    \* handleArguments: next argument, classPath, vmArgs
          boot,       \* the next step of Universe::initialize
          known,      \* objectClass, nilClass, ..., blockClass, systemClass
          classes,    \* all class objects, by number
          globals,    \* Universe::globals, of what is bound
          singletons, \* nil, true, false and system
          loads,      \* LoadClass and LoadClassBasic in progress, innermost last
          parsers,    \* SourcecodeCompiler::parser and the ones not yet deleted
          request,    \* what the running program asked for
          input,      \* the shell: lines read, and whether cin has failed
          outcome

vars == <<world, command, boot, known, classes, globals, singletons, loads, parsers,
          request, input, outcome>>

None == 0
NotAClass == -1      \* a global that is no class
nil == -2            \* the global nil

SystemClasses == {"Object", "Nil", "Class", "Array", "Symbol", "Method", "Integer", "BigInteger",
                  "Frame", "Primitive", "String", "Double", "Metaclass"}
BlockName(n) == CASE n = 1 -> "Block1" [] n = 2 -> "Block2" [] OTHER -> "Block3"
NoRequest == [op |-> "none", name |-> "", class |-> None, pc |-> ""]

\* What the virtual machine expects of the class library (src/Smalltalk): the
\* classes whose objects it allocates before it reads their files have no more
\* fields than its C++ classes, on the class side none; the superclasses of
\* Block, System and the classes of blocks are there before these; and a class
\* of blocks has no primitives but the one that evaluates it.
FileFits(name, file) ==
    /\ name \in SystemClasses => file.classFields = <<>>
    /\ name = "Object" => Len(file.fields) <= 1
    /\ name = "Class" => Len(file.fields) <= 4
    /\ name \in {"Metaclass", "Nil"} => file.fields = <<>>
    /\ name \in {"Block", "System"} => file.super \in SystemClasses
    /\ name \in {BlockName(n) : n \in 1 .. 3} =>
           /\ file.super \in SystemClasses \cup {"Block"}
           /\ \A i, j \in DOMAIN file.methods :
                  file.methods[i].signature = file.methods[j].signature => i = j
           /\ \A m \in Range(file.methods) : m.primitive =>
                  m.signature = (CASE name = "Block1" -> "value" [] name = "Block2" -> "value:"
                                   [] OTHER -> "value:with:")
           /\ \A m \in Range(file.classMethods) : ~m.primitive
LibraryFits ==
    \A w \in Worlds : \A d \in DOMAIN w.dirs : \A n \in DOMAIN w.dirs[d].files :
        FileFits(n, w.dirs[d].files[n])

-----------------------------------------------------------------------------
\* The command line.
Positions(text, s) == {i \in DOMAIN text : text[i] = s}

\* setupClassPath: getline at each ":"
Split(text) ==
    LET end(i) == Min({Len(text) + 1} \cup {j \in Positions(text, ":") : j >= i})
        from[i \in 1 .. Len(text) + 2] ==
            IF i > Len(text) THEN <<>> ELSE <<SubSeq(text, i, end(i) - 1)>> \o from[end(i) + 1]
    IN  from[1]

\* getClassPathExt: the directory, if there is one, and the class
getClassPathExt(text) ==
    LET fp == Max({0} \cup Positions(text, "/"))
        ssep == Min({Len(text) + 1} \cup Positions(text, ".som"))
    IN  [path |-> IF fp = 0 THEN <<>> ELSE <<SubSeq(text, 1, fp - 1)>>,
         class |-> SubSeq(text, fp + 1, IF ssep <= Len(text) /\ ssep > fp THEN ssep - 1
                                                                        ELSE Len(text))]

HandleArgument ==
    /\ outcome = "starting"
    /\ command.next <= Len(world.args)
    /\ LET arg == world.args[command.next]
           ext == getClassPathExt(arg.text)
       IN  CASE arg.option = "-cp" ->
                   IF command.next = Len(world.args) \/ command.classPath # <<>>
                   THEN /\ outcome' = "usage"
                        /\ UNCHANGED command
                   ELSE /\ command' = [command EXCEPT !.next = @ + 2,
                               !.classPath = Split(world.args[command.next + 1].text)]
                        /\ UNCHANGED outcome
             [] arg.option = "-h" -> outcome' = "usage" /\ UNCHANGED command
             [] arg.option \in {"-d", "-g", "-H"} ->
                   command' = [command EXCEPT !.next = @ + 1] /\ UNCHANGED outcome
             [] OTHER ->
                   /\ command' = [command EXCEPT !.next = @ + 1,
                                      !.classPath = @ \o ext.path,
                                      !.vmArgs = Append(@, ext.class)]
                   /\ UNCHANGED outcome
    /\ UNCHANGED <<world, boot, known, classes, globals, singletons, loads, parsers, request, input>>

ArgumentsHandled ==
    /\ outcome = "starting"
    /\ command.next > Len(world.args)
    /\ command' = [command EXCEPT !.classPath = Append(@, <<".">>)]
    /\ outcome' = "booting"
    /\ UNCHANGED <<world, boot, known, classes, globals, singletons, loads, parsers, request, input>>

-----------------------------------------------------------------------------
\* Class objects.  "side" tells a class from its metaclass, "room" is the
\* number of fields the object was allocated with.
VMObjectNumberOfFields == 1
VMClassNumberOfFields == 4 + VMObjectNumberOfFields
NewClassObject(class, room) ==
    [name |-> "", side |-> "", class |-> class, super |-> None, fields |-> <<>>,
     invokables |-> <<>>, room |-> room]

HasSuperClass(cs, c) == cs[c].super # None

\* GetNumberOfInstanceFields and GetInstanceFieldName go up the superclasses.
SuperClasses(cs, c) ==
    LET up[d \in 0 .. Len(cs)] ==
            [i \in DOMAIN cs |-> IF d = 0 \/ ~HasSuperClass(cs, i) THEN <<i>>
                                ELSE up[d - 1][cs[i].super] \o <<i>>]
    IN  up[Len(cs)][c]
InstanceFields(cs, c) ==
    LET all[d \in 0 .. Len(cs)] ==
            [i \in DOMAIN cs |-> IF d = 0 \/ ~HasSuperClass(cs, i) THEN cs[i].fields
                                ELSE all[d - 1][cs[i].super] \o cs[i].fields]
    IN  all[Len(cs)][c]
GetNumberOfInstanceFields(cs, c) == Len(InstanceFields(cs, c))

\* Fault: a field of the class hides the one it inherits.
LookupFieldIndexOwnFirst(cs, c, name) ==
    LET found == Positions(InstanceFields(cs, c), name)
    IN  IF found = {} THEN None ELSE Max(found)

\* The loop reads one name past the end: an array index out of bounds, which
\* ends the program, is "None" here.
LookupFieldIndex(cs, c, name) ==
    LET found == Positions(InstanceFields(cs, c), name)
    IN  IF found = {} THEN None ELSE Min(found)

LookupInvokable(cs, c, signature) ==
    LET all == SuperClasses(cs, c)
        holders == {i \in DOMAIN all : \E v \in Range(cs[all[i]].invokables) :
                                           v.signature = signature}
    IN  IF holders = {} THEN {}
        ELSE LET list == cs[all[Max(holders)]].invokables
             IN  {list[Min({i \in DOMAIN list : list[i].signature = signature})]}

SetInstanceInvokables(c, methods) ==
    [i \in DOMAIN methods |->
        [signature |-> methods[i].signature, primitive |-> methods[i].primitive, holder |-> c,
         routine |-> IF methods[i].primitive THEN "empty" ELSE "bytecodes"]]

\* A class of the system gets what its file has for both of its sides.
AssembleSystemClass(cs, c, file) ==
    LET m == cs[c].class
    IN  [cs EXCEPT ![c].invokables = SetInstanceInvokables(c, file.methods),
                   ![c].fields = file.fields,
                   ![m].invokables = SetInstanceInvokables(m, file.classMethods),
                   ![m].fields = file.classFields]

\* AddInstanceInvokable replaces, or else appends without setting the holder.
AddInstanceInvokable(cs, c, invokable) ==
    LET same == {i \in DOMAIN cs[c].invokables :
                    cs[c].invokables[i].signature = invokable.signature}
    IN  IF same # {}
        THEN [cs EXCEPT ![c].invokables[Min(same)] = [invokable EXCEPT !.holder = c]]
        ELSE [cs EXCEPT ![c].invokables = Append(@, invokable)]

\* NewEvaluationPrimitive; for more than two arguments the loop that should
\* add "with:" leaves the signature as it is.
NewEvaluationPrimitive(n) ==
    [signature |-> IF n = 1 THEN "value" ELSE "value:", primitive |-> TRUE, holder |-> None,
     routine |-> "evaluation"]

HasPrimitives(cs, c) == \E v \in Range(cs[c].invokables) : v.primitive

\* setPrimitives: {} if the library has no routine for one of them.
setPrimitives(cs, c, routines, cname) ==
    LET bind(v) == IF v.primitive THEN [v EXCEPT !.routine = "library"] ELSE v
    IN  IF \A v \in Range(cs[c].invokables) : v.primitive => <<cname, v.signature>> \in routines
        THEN {[cs EXCEPT ![c].invokables = [i \in DOMAIN @ |-> bind(@[i])]]}
        ELSE {}

\* LoadPrimitives: in each directory the core library, if it is there and
\* supports the class, and else the library of the class, which must.
Directory(d) == world.dirs[d]
Directories == {command.classPath[i] : i \in DOMAIN command.classPath}
ResponsibleAt(cname) ==
    {i \in DOMAIN command.classPath :
        LET d == command.classPath[i]
        IN  d \in DOMAIN world.dirs /\ cname \in Directory(d).core \cup Directory(d).libraries}
\* Fault: only the primitives of the instances are bound.
LoadPrimitivesOneSide(cs, c) ==
    LET cname == cs[c].name
        found == ResponsibleAt(cname)
    IN  IF found = {} THEN {}
        ELSE setPrimitives(cs, c, Directory(command.classPath[Min(found)]).routines, cname)

LoadPrimitives(cs, c) ==
    LET cname == cs[c].name
        found == ResponsibleAt(cname)
        lib == Directory(command.classPath[Min(found)])
    IN  IF found = {} \/ cname \notin lib.core \cup lib.claims THEN {}
        ELSE UNION {setPrimitives(loaded, cs[c].class, lib.routines, cname) :
                        loaded \in setPrimitives(cs, c, lib.routines, cname)}

-----------------------------------------------------------------------------
\* Loading.  A call in progress: what it loads, for whom, and how far it is.
Call(name, how, system) ==
    [name |-> name, how |-> how, system |-> system, pc |-> "find", dir |-> 1, super |-> None,
     class |-> None]
top == loads[Len(loads)]
SetTop(call) == loads' = Append(Front(loads), call)

File == Directory(command.classPath[top.dir]).files[top.name]
FileOpens ==
    LET d == command.classPath[top.dir]
    IN  d \in DOMAIN world.dirs /\ top.name \in DOMAIN Directory(d).files

\* The answer of CompileClass when the class is complete: its name is that of
\* its file, or an error is shown and the parser is left where it is.
Failed(reason) == outcome' = reason
Going == outcome \in {"booting", "running", "shell"}

\* SourcecodeCompiler: "current" is the member, "alive" the parsers that exist,
\* "twice" says that one was deleted that did not exist any more.
DeleteParser(p) ==
    IF p.current = None THEN p
    ELSE [p EXCEPT !.alive = @ \ {p.current}, !.twice = @ \/ p.current \notin p.alive]
NewParser(p) ==
    LET id == p.made + 1
    IN  [DeleteParser(p) EXCEPT !.current = id, !.made = id, !.alive = @ \cup {id}]
\* Fault: the member keeps the address of what was deleted.
ParserKept(p) == DeleteParser(p)

ParserDone(p) == [DeleteParser(p) EXCEPT !.current = None]

\* Fault: a directory without the file is looked at again.
OpenFileAgain ==
    /\ Going /\ loads # <<>> /\ top.pc = "find"
    /\ top.dir <= Len(command.classPath)
    /\ FileOpens /\ top.system = None
    /\ SetTop([top EXCEPT !.pc = "super"])
    /\ parsers' = NewParser(parsers)
    /\ UNCHANGED <<world, command, boot, known, classes, globals, singletons, request, input, outcome>>

\* The file is opened and parsed; a class of the system is filled in as it
\* is, whatever name and superclass its file gives.
OpenFile ==
    /\ Going /\ loads # <<>> /\ top.pc = "find"
    /\ top.dir <= Len(command.classPath)
    /\ IF ~FileOpens
       THEN /\ SetTop([top EXCEPT !.dir = @ + 1])
            /\ UNCHANGED <<classes, parsers>>
       ELSE IF top.system = None
       THEN /\ SetTop([top EXCEPT !.pc = "super"])
            /\ parsers' = NewParser(parsers)
            /\ UNCHANGED classes
       ELSE /\ classes' = AssembleSystemClass(classes, top.system, File)
            /\ parsers' = ParserDone(NewParser(parsers))
            /\ SetTop([top EXCEPT !.pc = "primitives", !.class = top.system])
    /\ UNCHANGED <<world, command, boot, known, globals, singletons, request, input, outcome>>

\* No directory has the class.  GetBlockClassWithArgs goes on with no class.
NotFound ==
    /\ Going /\ loads # <<>> /\ top.pc = "find"
    /\ top.dir > Len(command.classPath)
    /\ Failed(IF top.how = "block" THEN "crashed" ELSE "quit")
    /\ UNCHANGED <<world, command, boot, known, classes, globals, singletons, loads, parsers,
                   request, input>>

\* Assemble begins with LoadClass of the superclass.
HasGlobal(name) == name \in DOMAIN globals
LoadSuperClass ==
    /\ Going /\ loads # <<>> /\ top.pc = "super"
    /\ IF HasGlobal(File.super)
       THEN IF globals[File.super] > 0
            THEN /\ SetTop([top EXCEPT !.super = globals[File.super], !.pc = "assemble"])
                 /\ UNCHANGED outcome
            ELSE Failed("crashed") /\ UNCHANGED loads
       ELSE IF Len(loads) = MaxDepth
       THEN Failed("overflow") /\ UNCHANGED loads
       ELSE /\ loads' = Append(loads, Call(File.super, "class", None))
            /\ UNCHANGED outcome
    /\ UNCHANGED <<world, command, boot, known, classes, globals, singletons, parsers, request,
                   input>>

\* Fault: the metaclass continues the superclass itself.
AssembledOneSided(cs, file, superClass) ==
    LET m == Len(cs) + 1
        c == Len(cs) + 2
        room == VMClassNumberOfFields + GetNumberOfInstanceFields(cs, known["Metaclass"])
    IN  cs \o <<[NewClassObject(known["Metaclass"], room) EXCEPT
                     !.name = file.name, !.side = "class", !.super = superClass,
                     !.fields = file.classFields,
                     !.invokables = SetInstanceInvokables(m, file.classMethods)],
                [NewClassObject(m, room) EXCEPT
                     !.name = file.name, !.side = "instance", !.super = superClass,
                     !.fields = file.fields,
                     !.invokables = SetInstanceInvokables(c, file.methods)]>>

\* The metaclass is an instance of Metaclass and continues the metaclass of
\* the superclass; a class is allocated for the fields of its metaclass in
\* addition to those every class has.
Assembled(cs, file, superClass) ==
    LET m == Len(cs) + 1
        c == Len(cs) + 2
        meta == [NewClassObject(known["Metaclass"], VMClassNumberOfFields +
                     GetNumberOfInstanceFields(cs, known["Metaclass"])) EXCEPT
                     !.name = file.name, !.side = "class", !.super = cs[superClass].class,
                     !.fields = file.classFields,
                     !.invokables = SetInstanceInvokables(m, file.classMethods)]
        withMeta == Append(cs, meta)
    IN  Append(withMeta,
            [NewClassObject(m, VMClassNumberOfFields + GetNumberOfInstanceFields(withMeta, m))
                EXCEPT !.name = file.name, !.side = "instance", !.super = superClass,
                       !.fields = file.fields,
                       !.invokables = SetInstanceInvokables(c, file.methods)])

Assemble ==
    /\ Going /\ loads # <<>> /\ top.pc = "assemble"
    /\ classes' = Assembled(classes, File, top.super)
    /\ IF File.name = top.name
       THEN /\ SetTop([top EXCEPT !.pc = "primitives", !.class = Len(classes')])
            /\ parsers' = ParserDone(parsers)
       ELSE /\ SetTop([top EXCEPT !.pc = "find", !.dir = @ + 1])
            /\ UNCHANGED parsers
    /\ UNCHANGED <<world, command, boot, known, globals, singletons, request, input, outcome>>

\* What LoadClass does after LoadClassBasic: bind the primitives if either
\* side has any.  A class of blocks only gets its evaluation primitive, and
\* is the only one that becomes a global here.
BlockArguments(name) == CHOOSE n \in 1 .. 3 : BlockName(n) = name
WithPrimitives(call) ==
    IF call.how = "block"
    THEN {AddInstanceInvokable(classes, call.class,
                               NewEvaluationPrimitive(BlockArguments(call.name)))}
    ELSE IF HasPrimitives(classes, call.class) \/ HasPrimitives(classes, classes[call.class].class)
    THEN LoadPrimitives(classes, call.class)
    ELSE {classes}

Bind(name, value) ==
    globals' = [n \in DOMAIN globals \cup {name} |-> IF n = name THEN value ELSE globals[n]]

\* NewInstance, with room for the fields of its class.
NewSingleton(name, class, cs) ==
    singletons' = [n \in DOMAIN singletons \cup {name} |->
        IF n = name THEN [class |-> class, room |-> GetNumberOfInstanceFields(cs, class)]
                    ELSE singletons[n]]

\* Returning: to the load of the subclass, or to who asked.
Return ==
    /\ Going /\ loads # <<>> /\ top.pc = "primitives"
    /\ \/ /\ WithPrimitives(top) = {}
          /\ Failed("quit")
          /\ UNCHANGED <<classes, globals, loads, boot, known, singletons, request>>
       \/ /\ WithPrimitives(top) # {}
          /\ classes' = CHOOSE cs \in WithPrimitives(top) : TRUE
          /\ IF top.how = "block" THEN Bind(top.name, top.class) ELSE UNCHANGED globals
          /\ UNCHANGED outcome
          /\ LET c == top.class
             IN  IF Len(loads) > 1
                 THEN /\ loads' = Append(SubSeq(loads, 1, Len(loads) - 2),
                             [loads[Len(loads) - 1] EXCEPT !.super = c, !.pc = "assemble"])
                      /\ UNCHANGED <<boot, known, singletons, request>>
                 ELSE /\ loads' = <<>>
                      /\ IF outcome = "booting"
                         THEN /\ boot' = boot + 1
                              /\ known' = IF top.name \in {"Block", "System"}
                                          THEN [known EXCEPT ![top.name] = c] ELSE known
                              /\ IF top.name \in {"True", "False"}
                                 THEN NewSingleton(top.name, c, classes') ELSE UNCHANGED singletons
                              /\ UNCHANGED request
                         ELSE /\ request' = IF top.how = "block" THEN request
                                            ELSE [request EXCEPT !.class = c, !.pc = "loaded"]
                              /\ UNCHANGED <<boot, known, singletons>>
    /\ UNCHANGED <<world, command, parsers, input>>

-----------------------------------------------------------------------------
\* Universe::initialize with InitializeGlobals, step by step.
Step(op, name, super) == [op |-> op, name |-> name, super |-> super]
AllocationOrder == <<"Metaclass", "Object", "Nil", "Class", "Array", "Symbol", "Method", "Integer",
                     "BigInteger", "Frame", "Primitive", "String", "Double">>
SystemSuperClasses ==
    <<<<"Object", "">>, <<"Class", "Object">>, <<"Metaclass", "Class">>, <<"Nil", "Object">>,
      <<"Array", "Object">>, <<"Method", "Array">>, <<"Symbol", "Object">>,
      <<"Integer", "Object">>, <<"BigInteger", "Object">>, <<"Frame", "Array">>,
      <<"Primitive", "Object">>, <<"String", "Object">>, <<"Double", "Object">>>>
BootSteps ==
    [i \in DOMAIN AllocationOrder |-> Step("allocate", AllocationOrder[i], "")] \o
    <<Step("nil", "Nil", "")>> \o
    [i \in DOMAIN SystemSuperClasses |->
        Step("initialize", SystemSuperClasses[i][1], SystemSuperClasses[i][2])] \o
    [i \in DOMAIN SystemSuperClasses |-> Step("system", SystemSuperClasses[i][1], "")] \o
    <<Step("class", "Block", ""), Step("class", "True", ""), Step("class", "False", ""),
      Step("class", "System", ""), Step("globals", "", "")>>

\* NewMetaclassClass and NewSystemClass: the metaclass of Metaclass is an
\* instance of Metaclass, as every other metaclass.
Allocated(name) ==
    LET m == Len(classes) + 1
        metaclass == IF name = "Metaclass" THEN m + 1 ELSE known["Metaclass"]
    IN  classes \o <<[NewClassObject(metaclass, VMClassNumberOfFields) EXCEPT !.side = "class"],
                     [NewClassObject(m, VMClassNumberOfFields) EXCEPT !.side = "instance"]>>

\* InitializeSystemClass
InitializeSystemClass(step) ==
    LET c == known[step.name]
        m == classes[c].class
        hasSuper == step.super # ""
        super == IF hasSuper THEN known[step.super] ELSE None
    IN  [classes EXCEPT
            ![c].super = super, ![c].name = step.name, ![m].name = step.name,
            ![m].super = IF hasSuper THEN classes[super].class ELSE known["Class"],
            ![c].invokables = <<>>, ![m].invokables = <<>>, ![c].fields = <<>>, ![m].fields = <<>>]

step == BootSteps[boot]
SystemGlobals == {"nil", "true", "false", "system", "System", "Block"}
Boot ==
    /\ outcome = "booting" /\ loads = <<>>
    /\ boot <= Len(BootSteps)
    /\ CASE step.op = "allocate" ->
                /\ classes' = Allocated(step.name)
                /\ known' = [known EXCEPT ![step.name] = Len(classes')]
                /\ boot' = boot + 1
                /\ UNCHANGED <<globals, singletons, loads, outcome>>
         [] step.op = "nil" ->
                \* nil gets its class, and the proxy of the integers is made
                /\ singletons' = [n \in {"nil"} |-> [class |-> known[step.name],
                                                     room |-> VMObjectNumberOfFields]]
                /\ Bind("integerProxy", NotAClass)
                /\ boot' = boot + 1
                /\ UNCHANGED <<classes, known, loads, outcome>>
         [] step.op = "initialize" ->
                /\ classes' = InitializeSystemClass(step)
                /\ Bind(step.name, known[step.name])
                /\ boot' = boot + 1
                /\ UNCHANGED <<known, singletons, loads, outcome>>
         [] step.op \in {"system", "class"} ->
                /\ loads' = <<Call(step.name, step.op, IF step.op = "system" THEN known[step.name]
                                                                             ELSE None)>>
                /\ UNCHANGED <<classes, known, globals, singletons, boot, outcome>>
         [] OTHER ->
                /\ NewSingleton("system", known["System"], classes)
                /\ globals' = [n \in DOMAIN globals \cup SystemGlobals |->
                       CASE n = "nil" -> nil
                         [] n \in {"System", "Block"} -> known[n]
                         [] n \in {"true", "false", "system"} -> NotAClass
                         [] OTHER -> globals[n]]
                /\ boot' = boot + 1
                /\ outcome' = IF command.vmArgs = <<>> THEN "shell"
                              ELSE IF LookupInvokable(classes, known["System"], "initialize:") = {}
                              THEN "crashed" ELSE "running"
                /\ UNCHANGED <<classes, known, loads>>
    /\ UNCHANGED <<world, command, parsers, request, input>>

-----------------------------------------------------------------------------
\* The running program: LoadClass and GetBlockClassWithArgs as they are
\* called, and System>>resolve:, which initialize: sends for the class of the
\* command line and Object>>unknownGlobal: for globals that are not bound.
Names == UNION {DOMAIN Directory(d).files : d \in DOMAIN world.dirs}
ClassOf(text) == IF Len(text) = 1 THEN text[1] ELSE "?"
Asked(op, name) == request' = [op |-> op, name |-> name, class |-> None, pc |-> "asked"]
Idle == outcome = "running" /\ request.op = "none" /\ loads = <<>>
Running(op, pc) == outcome = "running" /\ request.op = op /\ loads = <<>> /\ request.pc = pc

Ask ==
    /\ Idle
    /\ \/ input.asked = 0 /\ Asked("resolve", ClassOf(command.vmArgs[1]))
       \/ /\ input.asked \in 1 .. MaxOps
          /\ \/ \E n \in Requests : Asked("resolve", n) \/ Asked("load", n)
             \/ \E n \in 1 .. 3 : Asked("block", BlockName(n))
    /\ input' = [input EXCEPT !.asked = @ + 1]
    /\ UNCHANGED <<world, command, boot, known, classes, globals, singletons, loads, parsers,
                   outcome>>

Answered == request' = NoRequest

\* Fault: the class of blocks is loaded for each block.
GetBlockClassAnew ==
    /\ Running("block", "asked")
    /\ loads' = <<Call(request.name, "block", None)>>
    /\ UNCHANGED <<world, command, boot, known, classes, globals, singletons, parsers, request, input,
                   outcome>>

\* NewBlock -> GetBlockClassWithArgs
GetBlockClassWithArgs ==
    /\ Running("block", "asked")
    /\ IF HasGlobal(request.name)
       THEN Answered /\ UNCHANGED loads
       ELSE loads' = <<Call(request.name, "block", None)>> /\ UNCHANGED request
    /\ UNCHANGED <<world, command, boot, known, classes, globals, singletons, parsers, input,
                   outcome>>

\* System>>load:
Load ==
    /\ Running("load", "asked")
    /\ IF HasGlobal(request.name)
       THEN Answered /\ UNCHANGED loads
       ELSE loads' = <<Call(request.name, "class", None)>> /\ UNCHANGED request
    /\ UNCHANGED <<world, command, boot, known, classes, globals, singletons, parsers, input,
                   outcome>>

Loaded ==
    /\ Running("load", "loaded")
    /\ Answered
    /\ UNCHANGED <<world, command, boot, known, classes, globals, singletons, loads, parsers, input,
                   outcome>>

\* System>>resolve: the blocks of its first lines need the class Block1.
BlocksForResolve ==
    /\ Running("resolve", "asked")
    /\ IF HasGlobal("Block1")
       THEN request' = [request EXCEPT !.pc = "look"] /\ UNCHANGED loads
       ELSE loads' = <<Call("Block1", "block", None)>> /\ UNCHANGED request
    /\ UNCHANGED <<world, command, boot, known, classes, globals, singletons, parsers, input,
                   outcome>>

Look ==
    /\ Running("resolve", "look")
    /\ \/ /\ HasGlobal(request.name) /\ globals[request.name] # nil
          /\ Answered
          /\ UNCHANGED <<loads, outcome>>
       \/ /\ HasGlobal(request.name) /\ globals[request.name] = nil
          /\ Failed("error")                     \* LoadClass answers no class
          /\ UNCHANGED <<request, loads>>
       \/ /\ ~HasGlobal(request.name)
          /\ loads' = <<Call(request.name, "class", None)>>
          /\ UNCHANGED <<request, outcome>>
    /\ UNCHANGED <<world, command, boot, known, classes, globals, singletons, parsers, input>>

\* Fault: only the class that was asked for becomes a global.
PutGlobalsOne ==
    /\ Running("resolve", "loaded")
    /\ Bind(classes[request.class].name, request.class)
    /\ Answered
    /\ UNCHANGED <<world, command, boot, known, classes, singletons, loads, parsers, input, outcome>>

\* The class and its superclasses become globals, up to one that is already.
PutGlobals ==
    /\ Running("resolve", "loaded")
    /\ LET class == classes[request.class]
       IN  IF HasGlobal(class.name)
           THEN Answered /\ UNCHANGED globals
           ELSE /\ Bind(class.name, request.class)
                /\ request' = [request EXCEPT !.class = class.super]
    /\ UNCHANGED <<world, command, boot, known, classes, singletons, loads, parsers, input, outcome>>

-----------------------------------------------------------------------------
\* The shell.  A line longer than the buffer is cut and makes cin fail; from
\* then on getline reads nothing, and the end of the input never comes.
ShellClass == [name |-> "Shell_Class", super |-> "Object", fields |-> <<>>, classFields |-> <<>>,
               methods |-> <<[signature |-> "run:", primitive |-> FALSE]>>, classMethods |-> <<>>]

ReadLine ==
    /\ outcome = "shell" /\ loads = <<>>
    /\ LET atEnd == input.read = Len(world.lines)
           line == IF atEnd \/ input.failed THEN "empty" ELSE world.lines[input.read + 1]
       IN  /\ input' = [input EXCEPT !.read = IF atEnd \/ input.failed THEN @ ELSE @ + 1,
                                     !.failed = @ \/ line = "long"]
           /\ IF line = "empty" THEN UNCHANGED <<classes, parsers>>
              ELSE \* LoadShellClass, without primitives and without a global
                   /\ classes' = Assembled(classes, ShellClass, known["Object"])
                   /\ parsers' = ParserDone(NewParser(parsers))
           /\ outcome' = IF atEnd /\ ~input.failed THEN "ended" ELSE outcome
    /\ UNCHANGED <<world, command, boot, known, globals, singletons, loads, request>>

-----------------------------------------------------------------------------
Init ==
    /\ world \in Worlds
    /\ command = [next |-> 1, classPath |-> <<>>, vmArgs |-> <<>>]
    /\ boot = 1
    /\ known = [n \in SystemClasses \cup {"Block", "System"} |-> None]
    /\ classes = <<>>
    /\ globals = <<>>
    /\ singletons = <<>>
    /\ loads = <<>>
    /\ parsers = [current |-> None, alive |-> {}, made |-> 0, twice |-> FALSE]
    /\ request = NoRequest
    /\ input = [asked |-> 0, read |-> 0, failed |-> FALSE]
    /\ outcome = "starting"

Next ==
    \/ HandleArgument \/ ArgumentsHandled
    \/ Boot
    \/ OpenFile \/ NotFound \/ LoadSuperClass \/ Assemble \/ Return
    \/ Ask \/ GetBlockClassWithArgs \/ Load \/ Loaded
    \/ BlocksForResolve \/ Look \/ PutGlobals
    \/ ReadLine

\* One thread runs all of it.
Spec == Init /\ [][Next]_vars
FairSpec == Spec /\ WF_vars(Next)

-----------------------------------------------------------------------------
ClassNumbers == DOMAIN classes
TypeOK ==
    /\ world \in Worlds
    /\ command.vmArgs \in Seq(Seq(Symbols)) /\ command.classPath \in Seq(Seq(Symbols))
    /\ boot \in 1 .. Len(BootSteps) + 1
    /\ \A n \in DOMAIN known : known[n] \in ClassNumbers \cup {None}
    /\ \A c \in ClassNumbers : /\ classes[c].super \in ClassNumbers \cup {None}
                               /\ classes[c].class \in ClassNumbers \cup {None}
    /\ \A n \in DOMAIN globals : globals[n] \in ClassNumbers \cup {NotAClass, nil}
    /\ \A i \in DOMAIN loads : loads[i].pc \in {"find", "super", "assemble", "primitives"}
    /\ Len(loads) <= MaxDepth
    /\ outcome \in {"starting", "usage", "booting", "running", "shell", "quit", "error",
                    "crashed", "overflow", "ended"}

\* The hierarchy of metaclasses follows that of the classes: the superclass of
\* a class's class is the class of its superclass, and Class for the root, so
\* that messages to classes are looked up where their superclasses have them
\* (InitializeSystemClass, Assemble).
Initialized == boot > Len(AllocationOrder) + 1 + Len(SystemSuperClasses)
ParallelHierarchies ==
    Initialized =>
        \A c \in ClassNumbers : classes[c].side = "instance" =>
            classes[classes[c].class].super =
                IF HasSuperClass(classes, c) THEN classes[classes[c].super].class
                                             ELSE known["Class"]

\* A method of a superclass finds its fields in the instances of every
\* subclass at the place they have in its own (LookupFieldIndex goes by name),
\* and every object has room for the fields its class describes now, also the
\* ones allocated before their classes were read: nil, and the classes of the
\* system, whose C++ members Class.som declares.
InheritedFieldsAgree ==
    boot > Len(BootSteps) /\ loads = <<>> =>
        /\ \A c \in ClassNumbers : HasSuperClass(classes, c) =>
               \A f \in Range(InstanceFields(classes, classes[c].super)) :
                   LookupFieldIndex(classes, c, f) =
                       LookupFieldIndex(classes, classes[c].super, f)
        /\ \A c \in ClassNumbers :
               GetNumberOfInstanceFields(classes, classes[c].class) <= classes[c].room
        /\ \A n \in DOMAIN singletons :
               GetNumberOfInstanceFields(classes, singletons[n].class) <= singletons[n].room

\* A primitive that can be sent to has its routine: of every class a program
\* can reach, on both sides, the primitives are bound, except value:with: of
\* blocks with two arguments, whose evaluation primitive has another name.
Reachable ==
    {c \in ClassNumbers : \E n \in DOMAIN globals : globals[n] > 0 /\
        (c \in Range(SuperClasses(classes, globals[n])) \/
         c \in Range(SuperClasses(classes, classes[globals[n]].class)))}
PrimitivesBound ==
    outcome \in {"running", "shell"} =>
        \A c \in Reachable : \A v \in Range(classes[c].invokables) :
            v.routine = "empty" => classes[c].name = "Block3" /\ v.signature = "value:with:"

\* "All its super-classes must have been added to the dictionary earlier"
\* (System>>resolve:): the global with the name of the superclass of a global
\* class is that superclass.
GlobalsClosed ==
    outcome = "running" /\ request.op = "none" =>
        \A n \in DOMAIN globals : globals[n] > 0 =>
            LET super == classes[globals[n]].super
            IN  super # None => HasGlobal(classes[super].name) /\ globals[classes[super].name] = super

\* Classes are what sends and the library rely on: fields are found where they
\* are, primitives have routines, superclasses are globals.
ClassesLinked == TypeOK /\ InheritedFieldsAgree /\ PrimitivesBound /\ GlobalsClosed

\* A class that a program has found under its name stays there: loading a
\* class again, or a superclass of it, replaces no global.
BindingsKept == [][\A n \in DOMAIN globals : globals[n] > 0 =>
                       n \in DOMAIN globals' /\ globals'[n] = globals[n]]_vars

\* The parser of the compiler is replaced while the class that was parsed by
\* it waits for its superclass; still each parser is deleted at most once.
ParsersDeletedOnce == ~parsers.twice

\* Loading comes to an end, in failure only of the whole program.  A class
\* that is its own superclass, over any number of files, uses up the stack.
CyclicFiles ==
    LET above(n) == {Directory(d).files[n].super : d \in {d \in DOMAIN world.dirs :
                                                            n \in DOMAIN Directory(d).files}}
    IN  \E S \in SUBSET (Names \ SystemClasses) : S # {} /\ \A n \in S : above(n) \cap S # {}
LoadsEnd == (loads # <<>>) ~> (\/ loads = <<>>
                               \/ outcome \in {"quit", "crashed"}
                               \/ outcome = "overflow" /\ CyclicFiles)

-----------------------------------------------------------------------------
\* What the program's comments and library say and the code does not do; each
\* is refuted by a run of its own.

\* "Unable to resolve" (System>>resolve:): a class that is not found is
\* reported by the library, and does not end the virtual machine in LoadClass.
UnresolvedReported ==
    outcome = "quit" => ~(/\ request.op = "resolve" /\ Len(loads) = 1
                          /\ loads[1].name = request.name /\ loads[1].pc = "find")

\* "getClassPathExt will strip the suffix and add it to extPathTokens even if
\* there is no new class path present" (handleArguments).
SuffixStripped == \A i \in DOMAIN command.vmArgs : ".som" \notin Range(command.vmArgs[i])

\* The superclass a file of the class library gives is the one the class has.
DeclaredSuperClass ==
    boot > Len(BootSteps) =>
        \A d \in DOMAIN world.dirs : \A n \in DOMAIN Directory(d).files \cap SystemClasses :
            LET super == classes[globals[n]].super
            IN  Directory(d).files[n].super = IF super = None THEN "nil" ELSE classes[super].name

\* The shell reads on until the end of its input.
ShellEnds == (outcome = "shell") ~> (outcome = "ended")
=============================================================================
