---------------------------- MODULE MCIfaceImpls ----------------------------
(***************************************************************************)
(* Small instances of IfaceImpls: a primitive type that std implements     *)
(* ToStr for, an interface Free of std that it has no impl of, a class     *)
(* and two interfaces of the program's own.                                *)
(***************************************************************************)
EXTENDS IfaceImpls, TLC

CONSTANTS Bool, ToStr, Free, Cls, Test, Lower, to_string, free, test

MCRequired == ToStr :> {to_string} @@ Free :> {free} @@
              Test :> {to_string, test} @@ Lower :> {to_string}

ImplBlock(i, t, ms) == [type |-> t, iface |-> i, methods |-> ms]

MCStdImpls == <<ImplBlock(ToStr, Bool, <<to_string>>)>>

(* Complete, incomplete, excessive and repeated methods; impls of a        *)
(* class; second impls of std's.                                           *)
ProgramImpls ==
  {ImplBlock(ToStr, Cls, <<to_string>>),
   ImplBlock(ToStr, Bool, <<to_string>>),
   ImplBlock(Free, Bool, <<free>>),
   ImplBlock(Test, Bool, <<to_string, test>>),
   ImplBlock(Test, Cls, <<to_string, test>>),
   ImplBlock(Test, Cls, <<test, test>>),
   ImplBlock(Lower, Cls, <<to_string, test>>),
   ImplBlock(Cls, Bool, <<>>)}

Calm(is) == [impls |-> is, panics |-> FALSE]

(* Every pair of impl blocks, compiled on its own.                         *)
PairPrograms == {Calm(<<x, y>>) : x, y \in ProgramImpls}

(* Programs that follow each other in a session.                           *)
SessionPrograms ==
  {Calm(<<>>), Calm(<<ImplBlock(Test, Cls, <<to_string, test>>),
                      ImplBlock(ToStr, Cls, <<to_string>>)>>),
   Calm(<<ImplBlock(Lower, Bool, <<to_string>>),
          ImplBlock(Test, Bool, <<to_string, test>>)>>),
   Calm(<<ImplBlock(Test, Free, <<test>>), ImplBlock(ToStr, Bool, <<>>)>>),
   Calm(<<ImplBlock(Free, Free, <<free>>), ImplBlock(ToStr, Test, <<to_string>>)>>)}
  \cup {[impls |-> <<x>>, panics |-> p] : x \in ProgramImpls, p \in BOOLEAN}

(* A program with no impl of its own.                                      *)
PlainPrograms == {[impls |-> <<>>, panics |-> FALSE]}
=============================================================================
