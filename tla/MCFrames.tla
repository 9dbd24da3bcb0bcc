----------------------------- MODULE MCFrames -----------------------------
(***************************************************************************)
(* A program for Frames: initialize:, a method "home" with a block that    *)
(* holds a nested block, a handler of doesNotUnderstand:arguments: and one *)
(* for the other unplanned sends.  OuterArgs are the arguments of the      *)
(* outer block.                                                            *)
(***************************************************************************)
EXTENDS Frames

CONSTANTS boot, init, home, dnu, handler, outer, inner, OuterArgs

MCMethods == {boot, init, home, dnu, handler}
MCCalled == {home}
MCBlocks == {outer, inner}
MCEnclosing == [b \in MCBlocks |-> IF b = outer THEN home ELSE outer]
MCNumArgs == [c \in MCMethods \cup MCBlocks |->
                IF c = outer THEN OuterArgs
                ELSE IF c = dnu THEN 3 ELSE IF c \in {init, handler} THEN 2 ELSE 1]
MCNumLocals == [c \in MCMethods \cup MCBlocks |-> IF c = outer THEN 1 ELSE 0]
MCMaxStack == [c \in MCMethods \cup MCBlocks |->
                 IF c = boot THEN 2 ELSE IF c = home THEN 1 + OuterArgs ELSE 1]
=============================================================================
