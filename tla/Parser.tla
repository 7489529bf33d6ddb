------------------------------- MODULE Parser -------------------------------
(***************************************************************************)
(* The parser crate of gelixrs: a pushdown machine over the tokens of one  *)
(* source file.  An action is one primitive of Parser (lib.rs); which      *)
(* primitive comes next is the head of todo, the stack of what the active  *)
(* productions still have to do (module Grammar).  A token is its          *)
(* SyntaxKind; "ws" stands for the kinds should_skip names, Whitespace and *)
(* Comment.                                                                *)
(***************************************************************************)
EXTENDS Grammar, TreeBuilder, FiniteSets, FiniteSetsExt

CONSTANTS
    Inputs,        \* token sequences that may be parsed
    MaxChildren    \* bound: children of a node at which 'when' stops looping

(* The lexer has no pattern for the kind that stands for the end.          *)
ASSUME InputsAreTokens == Inputs \subseteq Seq(STRING \ {"EndOfFile"})

VARIABLES
    input,      \* the tokens of the file
    current,    \* Source.current, one-based: the token to read next
    nodes,      \* NodeBuilder.nodes
    marks,      \* the checkpoints of the active productions
    todo,       \* what the active productions still have to do
    errors,     \* the positions errors were reported at
    poisoned,   \* Parser.poisoned: an error was reported in this declaration
    modifiers,  \* Parser.modifiers
    status      \* "running", "parsed" or "crashed" (an unwrap of None)

vars == <<input, current, nodes, marks, todo, errors, poisoned, modifiers, status>>

-----------------------------------------------------------------------------
(* Source and the token cursor.                                            *)
Raw(i)  == IF i \in DOMAIN input THEN input[i] ELSE "EndOfFile"
IsAtEnd == current > Len(input)
(* The first token at i or after it that is not skipped.                   *)
Skip(i) == CHOOSE j \in i..(Len(input) + 2) :
               Raw(j) # "ws" /\ \A k \in i..(j - 1) : Raw(k) = "ws"
Peek     == Raw(Skip(current))
PeekNext == Raw(Skip(Skip(current) + 1))
(* peek_past_modifiers: source.next() over every modifier.                 *)
PastMods == Min({j \in Skip(current)..(Len(input) + 1) :
                    /\ Raw(j) # "ws" /\ Raw(j) \notin MODIFIERS})

(* skip_whitespace moves the skipped tokens to the tree.                   *)
Skipped == Feed(nodes, current, Skip(current) - 1)
SkipWhitespace == current' = Skip(current) /\ nodes' = Skipped

Running(op) == status = "running" /\ todo # <<>> /\ Head(todo).op = op
Goto(program) == todo' = program \o Tail(todo)
Arm(arms, other, kind) == IF kind \in DOMAIN arms THEN arms[kind] ELSE other

(* advance: crash if only skipped tokens are left, else read one token.    *)
Crash == /\ status' = "crashed"
         /\ UNCHANGED <<input, current, nodes, marks, todo, errors, poisoned, modifiers>>
NothingLeft == Peek = "EndOfFile"
ReadToken == /\ ~NothingLeft
             /\ current' = Skip(current) + 1
             /\ nodes' = Feed(nodes, current, Skip(current))

(* error_at_current, the cursor being at 'at'.                             *)
Report(at) == errors' = Append(errors, at) /\ poisoned' = TRUE

-----------------------------------------------------------------------------
(* Tree nodes.                                                             *)
StartNodeStep ==
    /\ Running("start") /\ Goto(<<>>)
    /\ current' = Skip(current)
    /\ nodes' = StartNode(Skipped, Head(todo).kind)
    /\ UNCHANGED <<input, marks, errors, poisoned, modifiers, status>>

StartNodeAtStep ==
    LET opened == StartNodeAt(nodes, Head(todo).kind, Last(marks)) IN
    /\ Running("start_at") /\ Goto(<<>>)
    /\ current' = Skip(current)
    /\ nodes' = Feed(opened, current, Skip(current) - 1)
    /\ UNCHANGED <<input, marks, errors, poisoned, modifiers, status>>

EndNodeStep ==
    /\ Running("end") /\ Goto(<<>>)
    /\ nodes' = EndNode(nodes)
    /\ UNCHANGED <<input, current, marks, errors, poisoned, modifiers, status>>

MarkStep ==
    /\ Running("mark") /\ Goto(<<>>)
    /\ marks' = Append(marks, Checkpoint(nodes))
    /\ UNCHANGED <<input, current, nodes, errors, poisoned, modifiers, status>>

UnmarkStep ==
    /\ Running("unmark") /\ Goto(<<>>)
    /\ marks' = Front(marks)
    /\ UNCHANGED <<input, current, nodes, errors, poisoned, modifiers, status>>

-----------------------------------------------------------------------------
(* Reading tokens.                                                         *)
AdvanceStep ==
    /\ Running("advance")
    /\ \/ NothingLeft /\ Crash
       \/ /\ ReadToken
          /\ Goto(Arm(Head(todo).arms, Head(todo).other, Peek))
          /\ UNCHANGED <<input, marks, errors, poisoned, modifiers, status>>

(* match self.advance_checked() {..}: nothing is read at the end, but      *)
(* skipped tokens before the end are not the end.                          *)
AdvanceCheckedStep ==
    /\ Running("checked")
    /\ Goto(Arm(Head(todo).arms, Head(todo).other, Peek))
    /\ \/ IsAtEnd /\ UNCHANGED <<current, nodes>>
       \/ ReadToken
    /\ UNCHANGED <<input, marks, errors, poisoned, modifiers, status>>

(* Mutant: the end of the file is as good as the wanted token.             *)
ConsumeStepAtEnd ==
    /\ Running("consume")
    /\ \/ IsAtEnd /\ UNCHANGED <<current, nodes>>
       \/ ReadToken
    /\ Goto(IF IsAtEnd \/ Peek = Head(todo).kind THEN <<>> ELSE Fail)
    /\ UNCHANGED <<input, marks, errors, poisoned, modifiers, status>>

(* consume: the token is read whether it is the wanted one or not.  If it  *)
(* is not, error_at_current follows: an error, or, if poisoned, another    *)
(* token read.                                                             *)
ConsumeStep ==
    /\ Running("consume")
    /\ \/ IsAtEnd /\ UNCHANGED <<current, nodes>>
       \/ ReadToken
    /\ Goto(IF Peek = Head(todo).kind THEN <<>> ELSE Fail)
    /\ UNCHANGED <<input, marks, errors, poisoned, modifiers, status>>

ConsumeEitherStep ==
    /\ Running("either") /\ SkipWhitespace
    /\ Goto(IF Peek \in Head(todo).kinds THEN Advance ELSE Fail)
    /\ UNCHANGED <<input, marks, errors, poisoned, modifiers, status>>

ErrorAtCurrent ==
    /\ Running("fail") /\ Goto(<<>>)
    /\ \/ /\ poisoned
          /\ \/ IsAtEnd /\ UNCHANGED <<current, nodes>>
             \/ ReadToken
          /\ UNCHANGED <<errors, poisoned>>
       \/ /\ ~poisoned /\ Report(current)
          /\ UNCHANGED <<current, nodes>>
    /\ UNCHANGED <<input, marks, modifiers, status>>

(* advance_checked where only skipped tokens are left: is_at_end is false, *)
(* and advance unwraps what is behind them.                                *)
CrashInAdvanceChecked ==
    /\ \/ Running("checked") \/ Running("consume")
       \/ Running("fail") /\ poisoned
    /\ ~IsAtEnd /\ NothingLeft
    /\ Crash

-----------------------------------------------------------------------------
(* Looking at tokens.                                                      *)
PeekStep ==
    /\ Running("peek") /\ SkipWhitespace
    /\ Goto(Arm(Head(todo).arms, Head(todo).other, Peek))
    /\ UNCHANGED <<input, marks, errors, poisoned, modifiers, status>>

MatchesStep ==
    /\ Running("match")
    /\ LET matches == Peek = Head(todo).kind IN
       /\ IF matches THEN ReadToken ELSE SkipWhitespace
       /\ Goto(IF matches THEN Head(todo).yes ELSE Head(todo).no)
    /\ UNCHANGED <<input, marks, errors, poisoned, modifiers, status>>

(* Mutant: the cursor stays at the next token.                             *)
PeekNextStepMoving ==
    /\ Running("next")
    /\ current' = Skip(Skip(current) + 1)
    /\ nodes' = Skipped
    /\ Goto(Arm(Head(todo).arms, Head(todo).other, PeekNext))
    /\ UNCHANGED <<input, marks, errors, poisoned, modifiers, status>>

(* The cursor is restored; the skipped tokens stay in the tree.            *)
PeekNextStep ==
    /\ Running("next")
    /\ nodes' = Skipped
    /\ Goto(Arm(Head(todo).arms, Head(todo).other, PeekNext))
    /\ UNCHANGED <<input, current, marks, errors, poisoned, modifiers, status>>

PeekPastModifiers ==
    LET skipped(i) == IF Raw(i) = "ws" THEN <<Token(i)>> ELSE <<>>
        tokens == FlattenSeq([i \in 1..(PastMods - current) |->
                                 skipped(current + i - 1)])
    IN
    /\ Running("past")
    /\ modifiers' = <<>>
    /\ nodes' = [nodes EXCEPT ![Len(nodes)] = WithTokens(@, tokens)]
    /\ Goto(Arm(Head(todo).arms, Head(todo).other, Raw(PastMods)))
    /\ UNCHANGED <<input, current, marks, errors, poisoned, status>>

(* Mutant: the loop looks for its closing token only.                      *)
UntilStepNoEnd ==
    /\ Running("until") /\ SkipWhitespace
    /\ IF Peek = Head(todo).kind
       THEN Goto(<<>>) ELSE Goto(Head(todo).body \o <<Head(todo)>>)
    /\ UNCHANGED <<input, marks, errors, poisoned, modifiers, status>>

UntilStep ==
    /\ Running("until") /\ SkipWhitespace
    /\ IF Peek \in {Head(todo).kind, "EndOfFile"}
       THEN Goto(<<>>) ELSE Goto(Head(todo).body \o <<Head(todo)>>)
    /\ UNCHANGED <<input, marks, errors, poisoned, modifiers, status>>

SeparatedStep ==
    /\ Running("separated")
    /\ Goto(Head(todo).item \o If("Comma", <<Head(todo)>>))
    /\ UNCHANGED <<input, current, nodes, marks, errors, poisoned, modifiers, status>>

-----------------------------------------------------------------------------
(* Modifiers.                                                              *)
ConsumeModifiersStep ==
    /\ Running("modifiers")
    /\ modifiers' = <<>>
    /\ Goto(<<[op |-> "modifier"]>>)
    /\ UNCHANGED <<input, current, nodes, marks, errors, poisoned, status>>

ConsumeModifier ==
    /\ Running("modifier") /\ SkipWhitespace
    /\ IF Peek \in MODIFIERS
       THEN /\ modifiers' = Append(modifiers, Peek)
            /\ Goto(Node("Modifier", Advance) \o <<Head(todo)>>)
       ELSE UNCHANGED modifiers /\ Goto(<<>>)
    /\ UNCHANGED <<input, marks, errors, poisoned, status>>

CheckModsStep ==
    LET bad == {m \in DOMAIN modifiers :
                   modifiers[m] \notin Head(todo).allowed \cup GLOBAL_MODIFIERS}
    IN
    /\ Running("check_mods")
    /\ Goto([i \in 1..Cardinality(bad) |-> Fail[1]])
    /\ UNCHANGED <<input, current, nodes, marks, errors, poisoned, modifiers, status>>

-----------------------------------------------------------------------------
(* Productions.                                                            *)
CallProduction ==
    /\ Running("do")
    /\ ~(/\ Head(todo).name \in {"when_branches", "when_branches_after_else"}
         /\ Len(Last(nodes).children) >= MaxChildren)
    /\ Goto(Body[Head(todo).name])
    /\ UNCHANGED <<input, current, nodes, marks, errors, poisoned, modifiers, status>>

FunctionStep ==
    /\ Running("function")
    /\ LET isExtern == Head(todo).ext \/ \E i \in DOMAIN modifiers : modifiers[i] = "Extern"
       IN  Goto(FuncSignature(Head(todo).mods)
                \o (IF isExtern THEN <<>> ELSE FunctionBody))
    /\ UNCHANGED <<input, current, nodes, marks, errors, poisoned, modifiers, status>>

InfixStep ==
    /\ Running("infix") /\ SkipWhitespace
    /\ IF /\ Peek \in DOMAIN InfixBindingPower
          /\ InfixBindingPower[Peek].left >= Head(todo).minimum
       THEN Goto(Node("Operator", Advance) \o StartAt("BinaryExpr")
                 \o Binary(InfixBindingPower[Peek].right) \o End \o <<Head(todo)>>)
       ELSE Goto(<<>>)
    /\ UNCHANGED <<input, marks, errors, poisoned, modifiers, status>>

(* A '(' after skipped tokens does not continue a call.                    *)
PostfixStep ==
    /\ Running("postfix") /\ SkipWhitespace
    /\ IF /\ Peek \in DOMAIN PostfixForms
          /\ ~(Peek = "LeftParen" /\ Raw(Skip(current) - 1) = "ws")
       THEN Goto(PostfixForms[Peek] \o <<Head(todo)>>)
       ELSE Goto(<<>>)
    /\ UNCHANGED <<input, marks, errors, poisoned, modifiers, status>>

-----------------------------------------------------------------------------
(* parse(): declarations until the end of the file; after each,            *)
(* try_depoison skips to the next token that may start one.                *)
RECOVERABLE == {"Enum", "Class", "Func", "Import", "Export", "Impl",
                "Interface", "EndOfFile"}

ParseDeclaration ==
    /\ Running("file") /\ SkipWhitespace
    /\ Peek # "EndOfFile"
    /\ Goto(Do("declaration") \o <<[op |-> "depoison"], Head(todo)>>)
    /\ UNCHANGED <<input, marks, errors, poisoned, modifiers, status>>

FinishFile ==
    /\ Running("file") /\ SkipWhitespace
    /\ Peek = "EndOfFile"
    /\ Goto(<<>>) /\ status' = "parsed"
    /\ UNCHANGED <<input, marks, errors, poisoned, modifiers>>

TryDepoison ==
    /\ Running("depoison")
    /\ \/ ~poisoned /\ Goto(<<>>) /\ UNCHANGED <<current, nodes, poisoned>>
       \/ /\ poisoned /\ Peek \in RECOVERABLE /\ Goto(<<>>)
          /\ SkipWhitespace /\ poisoned' = FALSE
       \/ /\ poisoned /\ Peek \notin RECOVERABLE
          /\ ReadToken /\ UNCHANGED <<todo, poisoned>>
    /\ UNCHANGED <<input, marks, errors, modifiers, status>>

-----------------------------------------------------------------------------
Init ==
    /\ input \in Inputs
    /\ current = 1
    /\ nodes = NewBuilder
    /\ marks = <<>>
    /\ todo = <<[op |-> "file"]>>
    /\ errors = <<>> /\ poisoned = FALSE /\ modifiers = <<>>
    /\ status = "running"

Next ==
    \/ StartNodeStep \/ StartNodeAtStep \/ EndNodeStep \/ MarkStep \/ UnmarkStep
    \/ AdvanceStep \/ AdvanceCheckedStep \/ ConsumeStep \/ ConsumeEitherStep
    \/ ErrorAtCurrent \/ CrashInAdvanceChecked
    \/ PeekStep \/ MatchesStep \/ PeekNextStep \/ PeekPastModifiers
    \/ UntilStep \/ SeparatedStep
    \/ ConsumeModifiersStep \/ ConsumeModifier \/ CheckModsStep
    \/ CallProduction \/ FunctionStep \/ InfixStep \/ PostfixStep
    \/ ParseDeclaration \/ FinishFile \/ TryDepoison

(* The parser is one thread that runs until parse() returns.               *)
Spec == Init /\ [][Next]_vars /\ WF_vars(Next)

-----------------------------------------------------------------------------
(* Properties.                                                             *)

(* Every variable has its type; the root stays open, the node of every     *)
(* live checkpoint is open and has the children the checkpoint counted     *)
(* (the drain of start_node_at).  About Parser and NodeBuilder.            *)
TypeOK ==
    /\ current \in 1..(Len(input) + 1)
    /\ nodes # <<>> /\ nodes[1].kind = "Root"
    /\ \A m \in DOMAIN marks :
           /\ marks[m].node \in 1..Len(nodes)
           /\ marks[m].child_count <= Len(nodes[marks[m].node].children)
    /\ \A e \in DOMAIN errors : errors[e] \in 1..(Len(input) + 1)
    /\ poisoned \in BOOLEAN
    /\ \A m \in DOMAIN modifiers : modifiers[m] \in MODIFIERS
    /\ status \in {"running", "parsed", "crashed"}

Significant(tokens) == FlattenSeq([i \in DOMAIN tokens |->
    IF Raw(tokens[i]) = "ws" THEN <<>> ELSE <<tokens[i]>>])

(* The tree under construction holds the tokens read so far, each once and *)
(* in the order of the file, however often nodes were opened below others  *)
(* at a checkpoint and whatever was read after an error.  Only skipped     *)
(* tokens may be in it more often.  When parse() is done, every production *)
(* has closed its nodes, so that finish() takes the root, with the whole   *)
(* file in it.                                                             *)
TokensOnceInOrder ==
    /\ Significant(Leaves(nodes)) = Significant([i \in 1..(current - 1) |-> i])
    /\ status = "parsed" => Len(nodes) = 1 /\ marks = <<>> /\ current = Len(input) + 1

(* A node's span is as long as the text below it, for finished nodes and   *)
(* for the one on top: start_node_at computes the end of a node from the   *)
(* children it adopts, end_node takes it over from the child.              *)
SpansCoverText ==
    /\ Last(nodes).end - Last(nodes).start = Len(IntoNode(Last(nodes)).leaves)
    /\ \A n \in DOMAIN nodes : \A c \in DOMAIN nodes[n].children :
           LET child == nodes[n].children[c]
           IN  child.kind # "token" => child.end - child.start = Len(child.leaves)

Opening == [RightParen |-> "LeftParen", RightBracket |-> "LeftBracket",
            RightBrace |-> "LeftBrace"]
(* The brackets that are open after the tokens, where the token behind a   *)
(* dot is a name.                                                          *)
OpenBrackets(tokens) ==
    FoldLeft(LAMBDA s, t :
        IF t = "ws" THEN s
        ELSE IF s.dot THEN [s EXCEPT !.dot = FALSE]
        ELSE IF t \in {"Dot", "QuestionDot"} THEN [s EXCEPT !.dot = TRUE]
        ELSE IF t \in {"LeftParen", "LeftBracket", "LeftBrace"}
             THEN [s EXCEPT !.open = Append(@, t)]
        ELSE IF t \notin DOMAIN Opening THEN s
        ELSE IF s.open # <<>> /\ Last(s.open) = Opening[t]
             THEN [s EXCEPT !.open = Front(@)]
        ELSE [s EXCEPT !.open = Append(@, t)],
        [open |-> <<>>, dot |-> FALSE], tokens).open

(* A file that parse() accepts has all its brackets closed, in order: a    *)
(* file cut off or mistyped inside brackets is never taken for a complete  *)
(* one, whichever productions were active and however far they looked      *)
(* ahead.  The token behind a dot is no bracket: identifier() takes it for *)
(* a name whatever it is.                                                  *)
AcceptedIsBalanced ==
    status = "parsed" /\ errors = <<>> => OpenBrackets(input) = <<>>

(* The unguarded advance() of most productions never meets the end of the  *)
(* file, as a look at the token came first.  parse() panics only in        *)
(* type_(), in identifier() behind a dot and behind the 'in' of a for      *)
(* loop, and where only skipped tokens are left (is_at_end says no).       *)
CrashesOnlyAtEnd ==
    status = "crashed" =>
        /\ Peek = "EndOfFile"
        /\ IF Head(todo).op = "advance"
           THEN Last(nodes).kind \in {"Type", "Ident", "ForIterCond"}
           ELSE Last(input) = "ws"

(* parse() returns or panics on every file, except that the branches of a  *)
(* 'when' are looked for beyond the end of the file for ever.              *)
WhenAtEnd == /\ todo # <<>> /\ Head(todo).op = "do"
             /\ Head(todo).name \in {"when_branches", "when_branches_after_else"}
             /\ Peek = "EndOfFile"
EndsOrStuckInWhen == <>(status # "running" \/ WhenAtEnd)
=============================================================================
