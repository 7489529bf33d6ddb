------------------------------ MODULE Grammar ------------------------------
(***************************************************************************)
(* The productions of gelix' recursive-descent parser (declaration.rs and  *)
(* expression.rs of the parser crate) as data.  A program is a sequence of *)
(* instructions, one for every call a production makes that reads a token, *)
(* opens or closes a tree node or reports an error; Parser executes them.  *)
(* A call of a production is the instruction Do(name), so recursion goes   *)
(* through the names of Body and no operator here is recursive.            *)
(***************************************************************************)
EXTENDS Integers, Sequences

Start(kind)   == <<[op |-> "start", kind |-> kind]>>
StartAt(kind) == <<[op |-> "start_at", kind |-> kind]>>
End           == <<[op |-> "end"]>>
(* The local variable 'checkpoint' of a production, and the end of its     *)
(* scope.                                                                  *)
Mark          == <<[op |-> "mark"]>>
Unmark        == <<[op |-> "unmark"]>>
Consume(kind) == <<[op |-> "consume", kind |-> kind]>>
Either(kinds) == <<[op |-> "either", kinds |-> kinds]>>
Fail          == <<[op |-> "fail"]>>
Do(name)      == <<[op |-> "do", name |-> name]>>
(* Branches: on the current token, on the token just read (by advance or   *)
(* by advance_checked), on the next token, past modifiers.                 *)
OnPeek(arms, other)        == <<[op |-> "peek", arms |-> arms, other |-> other]>>
OnAdvance(arms, other)     == <<[op |-> "advance", arms |-> arms, other |-> other]>>
OnChecked(arms, other)     == <<[op |-> "checked", arms |-> arms, other |-> other]>>
OnNext(arms, other)        == <<[op |-> "next", arms |-> arms, other |-> other]>>
PastModifiers(arms, other) == <<[op |-> "past", arms |-> arms, other |-> other]>>
OnMatch(kind, yes, no)     == <<[op |-> "match", kind |-> kind, yes |-> yes, no |-> no]>>
Advance                    == OnAdvance(<<>>, <<>>)
If(kind, yes)              == OnMatch(kind, yes, <<>>)
(* while !check(kind) && !is_at_end() { body }                             *)
Until(kind, body) == <<[op |-> "until", kind |-> kind, body |-> body]>>
(* loop { item; if !matches(Comma) { break } }                             *)
Separated(item)   == <<[op |-> "separated", item |-> item]>>
ConsumeModifiers  == <<[op |-> "modifiers"]>>
CheckMods(allowed) == <<[op |-> "check_mods", allowed |-> allowed]>>
Function(mods, ext) == <<[op |-> "function", mods |-> mods, ext |-> ext]>>
Infix(minimum)    == <<[op |-> "infix", minimum |-> minimum]>>
Postfix           == <<[op |-> "postfix"]>>

Node(kind, content) == Start(kind) \o content \o End
Expr == Do("expression")
Type == Do("type_")

-----------------------------------------------------------------------------
(* Modifier tables.                                                        *)
MODIFIERS        == {"Mod", "Priv", "Extern", "Variadic", "Value"}
GLOBAL_MODIFIERS == {"Mod", "Priv"}
FUNC_MODIFIERS   == {"Extern", "Variadic"}

(* What an ADT may contain: the kinds of first token its members have.     *)
CLASS_CONF == [mods |-> {"Extern", "Value"}, ext |-> FALSE,
               members |-> {"Var", "Val", "Construct", "Func"}]
IFACE_CONF == [mods |-> {}, ext |-> TRUE, members |-> {"Func"}]
ENUM_CONF  == [mods |-> {"Value"}, ext |-> FALSE,
               members |-> {"Var", "Val", "Func", "Identifier"}]
CASE_CONF  == [mods |-> {}, ext |-> FALSE,
               members |-> {"Var", "Val", "Construct", "Func"}]

-----------------------------------------------------------------------------
(* Declarations.                                                           *)
Declaration ==
    Mark \o ConsumeModifiers
    \o OnPeek([Func   |-> StartAt("FunctionDecl"),
               Import |-> StartAt("ImportDecl"),
               Export |-> StartAt("ImportDecl"),
               Impl   |-> StartAt("ImplDecl")], StartAt("AdtDecl"))
    \o Unmark
    \o OnChecked([Func      |-> Function(FUNC_MODIFIERS, FALSE),
                  Class     |-> Do("class"),
                  Export    |-> Do("import_declaration"),
                  Import    |-> Do("import_declaration"),
                  Interface |-> Do("interface"),
                  Impl      |-> Do("iface_impl"),
                  Enum      |-> Do("enum")], Fail)
    \o End

GenericIdent == Node("Ident",
    Consume("Identifier")
    \o If("LeftBracket", Do("type_parameters") \o Consume("RightBracket")))

(* The loop over type parameters inside generic_ident.                     *)
TypeParameters == OnPeek([Identifier |->
    Node("TypeParameter", Advance \o If("Colon", Type))
    \o If("Comma", Do("type_parameters"))], <<>>)

FuncSignature(mods) == Node("FunctionSignature",
    CheckMods(mods) \o GenericIdent \o Consume("LeftParen")
    \o Do("func_parameters") \o If("Arrow", Type))

StartOfBody == OnPeek([LeftBrace |-> <<>>], Consume("Equal"))
FunctionBody == Node("FunctionBody", StartOfBody \o Expr)

FuncParameters ==
    OnPeek([RightParen |-> <<>>], Separated(Node("Parameter",
        Consume("Identifier") \o Consume("Colon") \o Type)))
    \o Consume("RightParen")

Method(ext) == Node("Method", ConsumeModifiers \o Advance \o Function({}, ext))

AdtMember == Node("AdtMember",
    ConsumeModifiers \o CheckMods({}) \o Advance \o Consume("Identifier")
    \o OnChecked([Equal |-> Node("Initializer", Expr),
                  Colon |-> Type \o If("Equal", Node("Initializer", Expr))],
                 Fail))

Constructor == Node("Constructor",
    ConsumeModifiers \o CheckMods({})
    \o Node("FunctionSignature",
            Advance \o Consume("LeftParen")
            \o OnPeek([RightParen |-> <<>>], Separated(Node("Parameter",
                   Consume("Identifier") \o If("Colon", Type))))
            \o Consume("RightParen"))
    \o Do("maybe_fn_body"))

MaybeFnBody ==
    LET body == StartOfBody \o Node("FunctionBody", Expr)
    IN  OnPeek([LeftBrace |-> body, Equal |-> body], <<>>)

MemberOf(kind, conf) ==
    CASE kind \in {"Var", "Val"} -> Do("adt_member")
      [] kind = "Construct"      -> Do("constructor")
      [] kind = "Func"           -> Method(conf.ext)
      [] kind = "Identifier"     -> Do("enum_case")

GenericAdt(conf) ==
    CheckMods(conf.mods) \o GenericIdent \o Consume("LeftBrace")
    \o Until("RightBrace",
             PastModifiers([k \in conf.members |-> MemberOf(k, conf)], Fail))
    \o Consume("RightBrace")

EnumCase == Node("EnumCase", OnNext([LeftBrace |-> Do("case")],
    GenericIdent
    \o If("LeftParen", Do("case_members") \o Consume("RightParen"))))

(* The loop over the members of an enum case in parentheses.               *)
CaseMembers ==
    OnPeek([RightParen |-> <<>>, EndOfFile |-> <<>>],
           ConsumeModifiers
           \o Node("Variable", Either({"Val", "Var"}) \o Consume("Identifier")
                               \o Consume("Colon") \o Type)
           \o If("Comma", Do("case_members")))

ImportDeclaration ==
    CheckMods({}) \o Consume("Identifier") \o Do("import_path")
ImportPath == If("Slash", Either({"Identifier", "Plus"}) \o Do("import_path"))

IfaceImpl ==
    Node("Implementing", Type) \o Consume("For") \o Node("Implementor", Type)
    \o Consume("LeftBrace")
    \o Until("RightBrace", OnPeek([Func |-> Method(FALSE)], Fail))
    \o Consume("RightBrace")

(* Type arguments in brackets, of a type and of an identifier.             *)
TypeArguments == Separated(Type) \o Consume("RightBracket")

Type_ ==
    Mark \o Start("Type")
    \o OnAdvance(
         [Identifier |-> OnMatch("LeftBracket", TypeArguments,
                                 If("Colon", Consume("Identifier"))),
          Tilde      |-> Type,
          Star       |-> Type,
          LeftParen  |-> OnPeek([RightParen |-> <<>>], Separated(Type))
                         \o Consume("RightParen") \o If("Colon", Type)],
         Fail)
    \o OnPeek([QuestionMark |-> StartAt("Type") \o End \o Advance], <<>>)
    \o End \o Unmark

-----------------------------------------------------------------------------
(* Expressions.                                                            *)
HigherExpression ==
    OnPeek([Var |-> Do("variable"), Val |-> Do("variable")], Expr)

Variable == Node("Variable",
    Advance \o Consume("Identifier") \o Consume("Equal")
    \o Node("Initializer", Expr))

Binary(minimum) == Mark \o Do("unary") \o Infix(minimum) \o Unmark

Expression == OnPeek(
    [LeftBrace |-> Do("block"),
     If        |-> Do("if_expression"),
     For       |-> Do("for_expression"),
     Return    |-> Do("return_expr"),
     Break     |-> Do("break_expr"),
     When      |-> Do("when_expression")], Binary(0))

Block == Node("Block",
    Advance \o Until("RightBrace", Do("higher_expression"))
    \o Consume("RightBrace"))

BodyAndElse == Node("ExprBody", Expr) \o If("Else", Node("ExprElse", Expr))

IfExpression == Node("IfExpr",
    Advance \o Consume("LeftParen") \o Node("ExprCondition", Expr)
    \o Consume("RightParen") \o BodyAndElse)

ForExpression == Node("ForExpr",
    Advance \o Consume("LeftParen")
    \o OnNext([In |-> Node("ForIterCond",
                           Consume("Identifier") \o Advance \o Expr)],
              Node("ExprCondition", Expr))
    \o Consume("RightParen") \o BodyAndElse)

RetOrBreakExpr(kind) ==
    Node(kind, Advance \o OnMatch("Semicolon", <<>>, Expr))

WhenExpression == Node("WhenExpr",
    Advance \o Consume("LeftParen") \o Node("ExprCondition", Expr)
    \o Consume("RightParen") \o Consume("LeftBrace") \o Do("when_branches"))

(* The loop over the branches; its parameter is else_branch_found.  The    *)
(* loop looks for '}' only, not for the end of the file.                   *)
WhenBranches(found) == OnMatch("RightBrace", <<>>, OnMatch("Else",
    (IF found THEN Fail ELSE <<>>)
    \o Consume("Arrow") \o Start("ExprElse") \o Expr \o End
    \o Do("when_branches_after_else"),
    Start("WhenBranch")
    \o Node("ExprCondition", Expr) \o Consume("Arrow") \o Node("ExprBody", Expr)
    \o End
    \o Do(IF found THEN "when_branches_after_else" ELSE "when_branches")))

Unary ==
    LET prefix == Node("PrefixExpr", Node("Operator", Advance) \o Binary(30))
    IN  OnPeek([Minus |-> prefix, Bang |-> prefix], Do("call"))

(* What call() does when the callee is followed by '(', '.', '?.' or ':'.  *)
Wrap(kind) == StartAt("Callee") \o StartAt(kind) \o End
PostfixForms == [
    LeftParen   |-> Wrap("CallExpr") \o Advance
                    \o OnPeek([RightParen |-> <<>>],
                              Separated(Node("CallArgument", Expr)))
                    \o Consume("RightParen") \o End,
    Dot         |-> Wrap("GetExpr") \o Advance \o Do("identifier") \o End,
    QuestionDot |-> Wrap("GetNullableExpr") \o Advance \o Do("identifier") \o End,
    Colon       |-> Wrap("GetStaticExpr") \o Advance \o Consume("Identifier") \o End]

Call == Mark \o Do("primary") \o Postfix \o Unmark

LITERALS == {"False", "True", "Int", "Float", "String", "Null"}
(* Mutant: what starts no expression is read.                              *)
PrimaryReadsOn == OnPeek(
    [k \in LITERALS \cup {"LeftParen", "Identifier"} |->
        CASE k \in LITERALS   -> Node("Literal", Advance)
          [] k = "LeftParen"  -> Do("grouping_or_closure")
          [] k = "Identifier" -> Do("identifier")], Advance)
Primary == OnPeek(
    [k \in LITERALS \cup {"LeftParen", "Identifier"} |->
        CASE k \in LITERALS   -> Node("Literal", Advance)
          [] k = "LeftParen"  -> Do("grouping_or_closure")
          [] k = "Identifier" -> Do("identifier")], Fail)

Identifier == Node("Ident", Advance \o If("LeftBracket", TypeArguments))

GroupingOrClosure ==
    LET closure  == StartAt("ClosureLiteral") \o Do("closure")
        grouping == StartAt("Grouping") \o Expr \o Consume("RightParen") \o End
    IN  Mark \o Advance
        \o OnPeek([Identifier |-> OnNext([Colon |-> closure, Comma |-> closure],
                                         grouping),
                   RightParen |-> closure], grouping)
        \o Unmark

Closure ==
    Node("FunctionSignature", Do("func_parameters") \o If("Colon", Type))
    \o Consume("Arrow") \o Node("FunctionBody", Expr) \o End

-----------------------------------------------------------------------------
(* The program of every production that is called by name.                 *)
Body == [
    declaration |-> Declaration,         class |-> GenericAdt(CLASS_CONF),
    interface |-> GenericAdt(IFACE_CONF), enum |-> GenericAdt(ENUM_CONF),
    case |-> GenericAdt(CASE_CONF),      type_parameters |-> TypeParameters,
    func_parameters |-> FuncParameters,  adt_member |-> AdtMember,
    constructor |-> Constructor,         maybe_fn_body |-> MaybeFnBody,
    enum_case |-> EnumCase,              case_members |-> CaseMembers,
    import_declaration |-> ImportDeclaration, import_path |-> ImportPath,
    iface_impl |-> IfaceImpl,            type_ |-> Type_,
    higher_expression |-> HigherExpression, variable |-> Variable,
    expression |-> Expression,           block |-> Block,
    if_expression |-> IfExpression,      for_expression |-> ForExpression,
    return_expr |-> RetOrBreakExpr("ReturnExpr"),
    break_expr |-> RetOrBreakExpr("BreakExpr"),
    when_expression |-> WhenExpression,
    when_branches |-> WhenBranches(FALSE),
    when_branches_after_else |-> WhenBranches(TRUE),
    unary |-> Unary, call |-> Call, primary |-> Primary,
    identifier |-> Identifier, grouping_or_closure |-> GroupingOrClosure,
    closure |-> Closure]

(* Binding powers, left and right, of the infix operators.                 *)
Power(l, r) == [left |-> l, right |-> r]
InfixBindingPower == [
    Equal |-> Power(6, 5),           QuestionQuestion |-> Power(8, 7),
    Or |-> Power(10, 9),             And |-> Power(12, 11),
    BangEqual |-> Power(14, 13),     EqualEqual |-> Power(14, 13),
    Less |-> Power(16, 15),          LessEqual |-> Power(16, 15),
    Greater |-> Power(16, 15),       GreaterEqual |-> Power(16, 15),
    Plus |-> Power(16, 15),          Minus |-> Power(16, 15),
    Star |-> Power(18, 17),          Slash |-> Power(18, 17),
    Is |-> Power(20, 19)]
=============================================================================
