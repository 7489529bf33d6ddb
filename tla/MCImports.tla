----------------------------- MODULE MCImports -----------------------------
(***************************************************************************)
(* Small instances of Imports.  Modules are tried in every order.          *)
(***************************************************************************)
EXTENDS Imports, TLC

CONSTANTS A, B, C, D, X, F

MCOrders == {o \in [1..Cardinality(Modules) -> Modules] :
               \A i, j \in 1..Cardinality(Modules) : o[i] = o[j] => i = j}

Import(s, n, e) == [src |-> s, symbol |-> n, is_export |-> e]
Fn(n, t) == [name |-> n, sig |-> t]
Ast(a, i, f) == [adts |-> a, imports |-> i, functions |-> f]

Lists(S) == {<<>>} \cup {<<x>> : x \in S}

(* Chains: A imports from B, which exports from C, which exports from D,   *)
(* which declares; with wrong turns (unknown modules, imports from itself, *)
(* circles of exports, second declarations along the way).                 *)
ImportsOfA == {<<Import(B, X, FALSE)>>, <<Import(B, F, FALSE)>>,
               <<Import(B, Glob, FALSE)>>, <<Import(NoModule, X, FALSE)>>,
               <<Import(A, X, FALSE)>>,
               <<Import(B, X, TRUE), Import(C, Glob, FALSE)>>,
               <<Import(B, Glob, TRUE), Import(C, X, FALSE)>>}
ImportsOfB == {<<>>, <<Import(A, Glob, FALSE)>>} \cup {<<Import(C, n, TRUE)>> : n \in {X, F, Glob}}
ImportsOfC == {<<>>, <<Import(B, Glob, TRUE)>>} \cup
              {<<Import(D, n, TRUE)>> : n \in {X, F, Glob}}

ChainPrograms ==
  {[m \in {A, B, C, D} |-> CASE m = A -> Ast(<<>>, ia, fa)
                             [] m = B -> Ast(<<>>, ib, fb)
                             [] m = C -> Ast(<<>>, ic, <<>>)
                             [] m = D -> d] :
     ia \in ImportsOfA, ib \in ImportsOfB, ic \in ImportsOfC,
     fa \in {<<>>, <<Fn(F, X)>>}, fb \in {<<>>, <<Fn(X, None)>>},
     d \in {Ast(<<X>>, <<>>, <<>>), Ast(<<>>, <<>>, <<Fn(F, None)>>),
            Ast(<<X>>, <<>>, <<Fn(F, X)>>), Ast(<<X>>, <<>>, <<Fn(X, None)>>)}}
=============================================================================
