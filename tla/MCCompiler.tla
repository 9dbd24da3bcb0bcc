----------------------------- MODULE MCCompiler -----------------------------
(***************************************************************************)
(* Source files for Compiler, each kind with the symbols of one part of    *)
(* the language.                                                           *)
(***************************************************************************)
EXTENDS Compiler

Name(text) == [sym |-> "Identifier", text |-> text]
Symbols(S) == {[sym |-> s, text |-> s] : s \in S}
Body == {Name("x")} \cup Symbols({"NewTerm", "EndTerm", "NewBlock", "EndBlock", "Period"})

Classes == {Name("x")} \cup Symbols({"Equal", "Or", "NewTerm", "EndTerm", "Keyword", "Op",
                                     "Primitive", "Separator"})
Literals == {Name("x")} \cup Symbols({"Integer", "STString", "Pound", "Minus", "Keyword",
                                      "KeywordSequence", "NewTerm", "EndTerm"})
Blocks == Body \cup Symbols({"Or", "Colon", "Assign", "Exit"})
Sends == Body \cup {Name("super")} \cup Symbols({"Op", "Keyword"})
Yields == Body \cup {Name("yield")} \cup Symbols({"Exit", "Assign", "Keyword"})

File(tokens, length, correct) ==
    [tokens |-> tokens, length |-> length, correct |-> correct,
     arguments |-> IF tokens \in {Blocks, Sends} THEN <<"x">> ELSE <<>>]

CONSTANTS Correct,  \* bound: length of the files without syntax errors
          Wrong     \* bound: length of the others

Kinds == {Classes, Literals, Blocks, Sends, Yields}
MCSources == {File(k, Correct, TRUE) : k \in Kinds} \cup {File(k, Wrong, FALSE) : k \in Kinds}
=============================================================================
