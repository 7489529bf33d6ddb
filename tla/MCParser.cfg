SPECIFICATION Spec
CONSTANTS
    Inputs <- MCInputs
    Noise = {"RightBrace", "RightParen", "LeftParen", "LeftBracket", "Else", "Func",
             "Identifier", "Extern", "Dot", "Colon", "Comma", "When", "For", "Int",
             "Arrow", "Var", "QuestionMark", "Semicolon"}
    MaxChildren = 12
INVARIANTS
    TypeOK
    TokensOnceInOrder
    SpansCoverText
    AcceptedIsBalanced
    CrashesOnlyAtEnd
PROPERTIES
    EndsOrStuckInWhen
CHECK_DEADLOCK FALSE
