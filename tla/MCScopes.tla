------------------------------ MODULE MCScopes ------------------------------
(* Two modules with functions and closures of up to MaxNodes expressions.  *)
EXTENDS Scopes

CONSTANTS a, iter, i64, bool

MCNames == {a, iter}
MCFunctions == <<{}, {a}>>
MCParamLists == {<<>>, <<a>>, <<a, a>>}
MCLoopTypes == {i64, bool}
=============================================================================
