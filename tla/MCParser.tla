------------------------------ MODULE MCParser ------------------------------
(* Source files for Parser: declarations that use every production, and    *)
(* what an editor makes of them on the way: cut off anywhere, with a token *)
(* missing or with another one in its place.                               *)
EXTENDS Parser

CONSTANTS Noise   \* kinds put in place of another token

Main(body) == <<"Func", "Identifier", "LeftParen", "RightParen">> \o body
Value(expr) == Main(<<"Equal">> \o expr)

Programs == {
    \* func f() { var x = a - b * !c.d ws }
    Main(<<"LeftBrace", "Var", "Identifier", "Equal", "Identifier", "Minus",
           "Identifier", "Star", "Bang", "Identifier", "Dot", "Identifier",
           "ws", "RightBrace">>),
    \* class A[T: B] { priv ws val f: T? }  import a/+
    <<"Class", "Identifier", "LeftBracket", "Identifier", "Colon", "Identifier",
      "RightBracket", "LeftBrace", "Priv", "ws", "Val", "Identifier", "Colon",
      "Identifier", "QuestionMark", "RightBrace", "Import", "Identifier",
      "Slash", "Plus">>,
    \* class A { construct(f, g: *T) {}  func m(a: (B): C) -> A[T] = f(a, 1) }
    <<"Class", "Identifier", "LeftBrace", "Construct", "LeftParen",
      "Identifier", "Comma", "Identifier", "Colon", "Star", "Identifier",
      "RightParen", "LeftBrace", "RightBrace", "RightBrace">>,
    <<"Class", "Identifier", "LeftBrace", "Func", "Identifier", "LeftParen",
      "Identifier", "Colon", "LeftParen", "Identifier", "RightParen", "Colon",
      "Identifier", "RightParen", "Arrow", "Identifier", "LeftBracket",
      "Identifier", "RightBracket", "Equal", "Identifier", "LeftParen",
      "Identifier", "Comma", "Int", "RightParen", "RightBrace">>,
    \* mod enum E { A(val x: T), B { val y = 1 } }
    <<"Mod", "Enum", "Identifier", "LeftBrace", "Identifier", "LeftParen",
      "Val", "Identifier", "Colon", "Identifier", "RightParen", "Identifier",
      "LeftBrace", "Val", "Identifier", "Equal", "Int", "RightBrace", "RightBrace">>,
    \* interface I { func m() -> T }  extern func p()
    <<"Interface", "Identifier", "LeftBrace", "Func", "Identifier", "LeftParen",
      "RightParen", "Arrow", "Identifier", "RightBrace", "Extern", "Func",
      "Identifier", "LeftParen", "RightParen">>,
    \* impl I for T:A { func m() = a:b }
    <<"Impl", "Identifier", "For", "Identifier", "Colon", "Identifier",
      "LeftBrace", "Func", "Identifier", "LeftParen", "RightParen", "Equal",
      "Identifier", "Colon", "Identifier", "RightBrace">>,
    \* func f() = for ( ws i in a) b else break;
    Value(<<"For", "LeftParen", "ws", "Identifier", "In", "Identifier",
            "RightParen", "Identifier", "Else", "Break", "Semicolon">>),
    \* func f() = when (a) { 1 -> b  else -> c }
    Value(<<"When", "LeftParen", "Identifier", "RightParen", "LeftBrace", "Int",
            "Arrow", "Identifier", "Else", "Arrow", "Identifier", "RightBrace">>),
    \* func f() = (a: T, b: T): T -> (a)
    Value(<<"LeftParen", "Identifier", "Colon", "Identifier", "Comma",
            "Identifier", "Colon", "Identifier", "RightParen", "Colon",
            "Identifier", "Arrow", "LeftParen", "Identifier", "RightParen">>),
    \* func f() { if (a is b) return c?.d[T] ws () -> 1 }
    Main(<<"LeftBrace", "If", "LeftParen", "Identifier", "Is", "Identifier",
           "RightParen", "Return", "Identifier", "QuestionDot", "Identifier",
           "LeftBracket", "Identifier", "RightBracket", "ws", "LeftParen",
           "RightParen", "Arrow", "Int", "RightBrace">>)}

CutOff(p)  == {SubSeq(p, 1, n) : n \in 1..Len(p)}
Missing(p) == {RemoveAt(p, i) : i \in DOMAIN p}
Mistyped(p) == {[p EXCEPT ![i] = k] : i \in DOMAIN p, k \in Noise}

MCInputs == UNION {CutOff(p) \cup {Append(c, "ws") : c \in CutOff(p)}
                   \cup Missing(p) \cup Mistyped(p) : p \in Programs}
=============================================================================
