----------------------------- MODULE MCClasses -----------------------------
(***************************************************************************)
(* Class paths for Classes: the class library (src/Smalltalk) with the     *)
(* fields and superclasses of its files and some of their methods, and     *)
(* directories of applications.                                            *)
(***************************************************************************)
EXTENDS Classes

Method(s) == [signature |-> s, primitive |-> FALSE]
Primitive(s) == [signature |-> s, primitive |-> TRUE]
ClassFile(name, super, fields, methods, classFields, classMethods) ==
    [name |-> name, super |-> super, fields |-> fields, methods |-> methods,
     classFields |-> classFields, classMethods |-> classMethods]
Plain(name, super) == ClassFile(name, super, <<>>, <<>>, <<>>, <<>>)

LibraryFiles ==
    ("Object" :> ClassFile("Object", "nil", <<"class">>, <<Primitive("==")>>, <<>>, <<>>)) @@
    ("Class" :> ClassFile("Class", "Object",
        <<"superClass", "name", "instanceFields", "instanceInvokables">>,
        <<Primitive("new")>>, <<>>, <<>>)) @@
    ("Metaclass" :> Plain("Metaclass", "Class")) @@
    ("Frame" :> ClassFile("Frame", "Array", <<"previousFrame", "context", "method">>, <<>>,
        <<>>, <<>>)) @@
    ("Method" :> ClassFile("Method", "Object",
        <<"signature", "holder", "numberOfLocals", "maximumNumberOfStackElements">>, <<>>,
        <<>>, <<>>)) @@
    ("Primitive" :> ClassFile("Primitive", "Object", <<"signature", "holder">>, <<>>, <<>>, <<>>)) @@
    ("Array" :> ClassFile("Array", "Object", <<>>, <<Primitive("at:")>>, <<>>,
        <<Primitive("new:")>>)) @@
    ("Block" :> ClassFile("Block", "Object", <<>>, <<Primitive("value"), Primitive("restart")>>,
        <<>>, <<>>)) @@
    ("Block1" :> ClassFile("Block1", "Block", <<>>, <<Primitive("value")>>, <<>>, <<>>)) @@
    ("Block3" :> ClassFile("Block3", "Block", <<>>, <<Primitive("value:with:")>>, <<>>, <<>>)) @@
    ("System" :> ClassFile("System", "Object", <<>>,
        <<Method("initialize:"), Method("resolve:"), Primitive("load:")>>, <<>>, <<>>)) @@
    [n \in {"True", "False"} |-> Plain(n, "Boolean")] @@
    [n \in {"Nil", "Symbol", "Integer", "BigInteger", "String", "Double", "Boolean"} |->
        Plain(n, "Object")]

Routines == {<<"Object", "==">>, <<"Class", "new">>, <<"Array", "at:">>, <<"Array", "new:">>,
             <<"Block", "value">>, <<"Block", "restart">>, <<"System", "load:">>,
             <<"App", "own">>}
Dir(files, core, libraries, claims) ==
    [files |-> files, core |-> core, libraries |-> libraries, claims |-> claims,
     routines |-> Routines]
Library == Dir(LibraryFiles, {"Object", "Class", "Array", "Block", "System", "Integer"}, {}, {})

Word(text) == [option |-> "", text |-> text]
Option(o) == [option |-> o, text |-> <<>>]
Cp == <<Option("-cp"), Word(<<"lib">>)>>
World(args, app, lines) ==
    [args |-> args, dirs |-> (<<"lib">> :> Library) @@ (<<"app">> :> app), lines |-> lines]
Run(class) == Cp \o <<Word(<<"app", "/", class, ".som">>)>>

\* Subclasses with fields of their own, one of them named like an inherited one.
Apps == Dir(("App" :> ClassFile("App", "Base", <<"x", "y">>, <<Method("run")>>, <<"shared">>, <<>>))
         @@ ("Base" :> ClassFile("Base", "Boolean", <<"x">>, <<Method("run")>>, <<>>, <<>>))
         @@ ("Lost" :> Plain("Lost", "Nowhere")),
         {}, {}, {})
\* A file with another name, before the right one; a class without a superclass.
Misnamed == Dir(("App" :> Plain("Other", "Base"))
             @@ ("Base" :> Plain("Wrong", "Object"))
             @@ ("Rootless" :> Plain("Rootless", "nil")), {}, {}, {})
Cyclic == Dir(("App" :> Plain("App", "Egg")) @@ ("Egg" :> Plain("Egg", "App")), {}, {}, {})
Bound(claims) ==
    Dir("App" :> ClassFile("App", "Object", <<>>, <<Primitive("own")>>, <<>>, <<>>),
        {}, {"App"}, claims)
Nothing == Dir([n \in {} |-> n], {}, {}, {})

MCWorlds ==
    {World(Run("App"), app, <<>>) : app \in {Apps, Misnamed, Cyclic, Bound({"App"}), Bound({})}} \cup
    {World(Run("Rootless"), Misnamed, <<>>),
     World(Run("Array"), Apps, <<>>), World(Run("Gone"), Apps, <<>>),
     [args |-> <<Option("-cp"), Word(<<"app", ":", "lib", ":", "more">>), Option("-d"),
                 Word(<<"App">>)>>,
      dirs |-> (<<"lib">> :> Library) @@ (<<"app">> :> Misnamed) @@ (<<"more">> :> Apps),
      lines |-> <<>>],
     World(Cp, Nothing, <<"statement", "empty", "statement">>),
     World(Cp, Nothing, <<"long", "statement">>),
     World(<<Word(<<"app", "/", "App">>)>> \o Cp, Apps, <<>>),
     World(<<Option("-cp")>>, Apps, <<>>),
     World(<<Option("-h")>>, Apps, <<>>),
     World(<<Word(<<"App">>)>>, Apps, <<>>)}

\* The application is in a directory with the suffix in its name.
SuffixWorlds ==
    {[args |-> Cp \o <<Word(<<"app", ".som", "/", "App", ".som">>)>>,
      dirs |-> (<<"lib">> :> Library), lines |-> <<>>]}

ASSUME MCLibraryFits == LibraryFits
=============================================================================
