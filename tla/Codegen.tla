------------------------------ MODULE Codegen ------------------------------
(***************************************************************************)
(* Control flow from GIR to LLVM IR.                                       *)
(*                                                                         *)
(* First the GIR generator builds the body of a function bottom-up and     *)
(* types it (gir-generator/src/expr.rs, try_unify_type of resolver.rs);    *)
(* then the IR generator walks the body and emits basic blocks, branches   *)
(* and phis (ir/src/generator/{expr,mod,values}.rs).  Every body up to a   *)
(* size is built; the walk of it is deterministic.                         *)
(*                                                                         *)
(* Of the instructions only what LLVM's verifier looks at is kept: which   *)
(* block ends how, which block a value is computed in and used in, and     *)
(* which predecessors a merge of values covers.                            *)
(***************************************************************************)
EXTENDS Naturals, Sequences, FiniteSets

CONSTANTS MaxSize, \* bound: expressions with operands, and cases, in a body
          Odd      \* bound: the odd shapes (Oddities) that bodies may have

(* Type::Any, Type::None, and one type of values: two types that do not    *)
(* unify are like "value" and "none" to the code.                          *)
Types == {"any", "none", "value"}

(* What a break gives its loop's type: nothing, when it has no value.      *)
Given == Types \cup {"void"}

Kinds == {"call", "none", "break", "return", "block", "if", "switch", "loop"}

(* Shapes of expressions that the IR generator does not get right; see the *)
(* properties.                                                             *)
Oddities == {"leaving_then", "any_value", "any_loop", "mixed_breaks",
             "branching_condition", "omitted_else", "dead_code"}

(* sub are the operands' places in nodes.  phi: phi_type is Some.  breaks: *)
(* what breaks inside give the loop around the expression.  leaves: it     *)
(* always breaks or returns.  gives: when it goes on, it is with a value.  *)
Node == [kind: Kinds, sub: Seq(Nat \ {0}), ty: Types, phi: BOOLEAN,
         breaks: SUBSET Given, leaves: BOOLEAN, gives: BOOLEAN,
         odd: SUBSET Oddities]

ASSUME Bounds == MaxSize \in Nat /\ Odd \subseteq Oddities

(* An expression that is being generated, with the operands it has so far: *)
(* whether the syntax tree has an else, and whether a when without one has *)
(* all cases of an enum.                                                   *)
Opened == [kind: Kinds \cup {"function"}, arity: Nat, else: BOOLEAN,
           exhaustive: BOOLEAN, sub: Seq(Nat \ {0})]
Form(kind, arity, else) == [kind |-> kind, arity |-> arity, else |-> else,
                            exhaustive |-> FALSE, sub |-> <<>>]
Forms ==
  {Form("break", 1, FALSE), Form("return", 1, FALSE), Form("block", 2, FALSE)}
  \cup {Form(k, 2, FALSE) : k \in {"if", "loop"}}
  \cup {Form(k, 3, TRUE) : k \in {"if", "loop"}}
  \cup {Form("switch", 2 * n + 1, TRUE) : n \in 1..2}
  \cup {Form("switch", 2 * n, FALSE) : n \in 1..2}
  \cup {[Form("switch", 2 * n, FALSE) EXCEPT !.exhaustive = TRUE] : n \in 1..2}

Size(f) == IF f.kind = "switch" THEN 1 + f.arity \div 2 ELSE 1

(* A value of the IR: its IRType, whether it is an instruction or          *)
(* none_const, and the block of the instruction.                           *)
Value == [ty: {"none", "value"}, real: BOOLEAN, def: Nat]
NoneConst == [ty |-> "none", real |-> FALSE, def |-> 0]

Incoming == [v: Value, b: Nat]
LoopData == [end: Nat, phi: BOOLEAN, nodes: Seq(Incoming)]
NoLoop == [end |-> 0, phi |-> FALSE, nodes |-> <<>>]

(* How a block ends: not yet, by branches, or by a return.                 *)
Open == [kind |-> "open", to |-> {}]
Ret  == [kind |-> "ret", to |-> {}]
Br(targets) == [kind |-> "br", to |-> targets]
Terminator == [kind: {"open", "ret", "br"}, to: SUBSET Nat]

(* The IR generator.  insert is the builder's block, 0 when it has none,   *)
(* last is last_block, locals the number of scopes of locals.  uses,       *)
(* merges and faults are what the verifier sees, unclosed counts the loops *)
(* whose body's scope was not popped.                                      *)
Generator == [insert: Nat, last: Nat, term: Seq(Terminator), locals: Nat,
              loop: LoopData, unclosed: Nat,
              uses: SUBSET [def: Nat, at: Nat],
              merges: SUBSET [at: Nat, from: SUBSET Nat],
              faults: SUBSET {"store", "return"}]

(* A call of expression_ that has not returned: where it is (pc), which    *)
(* case of a switch it is at, the blocks and incoming values it has made,  *)
(* the outer loop's data, and how many scopes there were.                  *)
Places == {"visit", "cond", "case", "then", "else", "body", "again",
           "block", "break", "return"}
Frame == [node: Nat, pc: Places, case: Nat, blocks: Seq(Nat),
          incoming: Seq(Incoming), outer: LoopData, base: Nat]

VARIABLES
  left,      \* how many more expressions the body may have
  ret_type,  \* the function's return type
  phase,     \* "gir", "ir", "done", "panicked"
  nodes,     \* the expressions made
  open,      \* the expressions that the GIR generator is inside of
  frames,    \* the calls of expression_
  result,    \* what the last one returned
  m          \* the IR generator

vars == <<left, ret_type, phase, nodes, open, frames, result, m>>

Front(s) == SubSeq(s, 1, Len(s) - 1)
Last(s)  == s[Len(s)]
Elems(s) == {s[i] : i \in DOMAIN s}

-----------------------------------------------------------------------------
(* The GIR generator.                                                      *)

(* try_unify_type: a type equals itself, and Any is anything, so unifying  *)
(* with Any "casts" the left to the right and gives the right's type.      *)
Unifies(l, r) == l = r \/ "any" \in {l, r}
Unified(l, r) == IF Unifies(l, r) THEN r ELSE "none"

MakeNode(kind, sub, ty, phi, odd) ==
  LET subs == {nodes[i] : i \in Elems(sub)}
      given == IF kind = "loop" THEN nodes[sub[1]].breaks
               ELSE UNION {n.breaks : n \in subs}
  IN  [kind |-> kind, sub |-> sub, ty |-> ty, phi |-> phi,
       breaks |-> given \cup IF kind = "break" THEN {nodes[sub[1]].ty} ELSE {},
       leaves |-> \/ kind \in {"break", "return"}
                  \/ kind = "block" /\ \E n \in subs : n.leaves,
       gives |-> CASE kind \in {"break", "return"} -> TRUE
                   [] kind = "block" -> nodes[sub[2]].gives
                   [] kind = "if" -> nodes[sub[2]].gives /\ nodes[sub[3]].gives
                   [] OTHER -> ty = "value",
       odd |-> odd \cup UNION {n.odd : n \in subs}]

Leaf(kind, sub, ty, given, leaves) ==
  [kind |-> kind, sub |-> sub, ty |-> ty, phi |-> FALSE, breaks |-> given,
   leaves |-> leaves, gives |-> kind # "none", odd |-> {}]

(* Expressions without operands; Call stands for all that give a value.    *)
CallExpr == 1
NoneExpr == 2
Leaves(ret) == << Leaf("call", <<>>, "value", {}, FALSE),
                  Leaf("none", <<>>, "none", {}, FALSE),
                  Leaf("break", <<NoneExpr>>, "any", {"void"}, TRUE),
                  Leaf("break", <<CallExpr>>, "any", {"value"}, TRUE),
                  Leaf("return", <<IF ret = "none" THEN NoneExpr ELSE CallExpr>>,
                       "any", {}, TRUE) >>

(* The innermost expression that is being generated takes e as its next    *)
(* operand.  E220, and == for the cases of a when: a condition is a Bool.  *)
Inner == Last(open)
Condition(f, i) ==
  \/ f.kind \in {"if", "loop"} /\ i = 1
  \/ f.kind = "switch" /\ i % 2 = 1 /\ ~(f.else /\ i = f.arity)

Takes(f, ty) == Len(f.sub) < f.arity
                /\ (Condition(f, Len(f.sub) + 1) => ty = "value")

AddOperand(fs, e) == [fs EXCEPT ![Len(fs)].sub = Append(@, e)]

(* E207: a break is in the body or else branch of a loop.                  *)
InLoop == \E i \in DOMAIN open : open[i].kind = "loop" /\ open[i].sub # <<>>

PushLeaf ==
  /\ phase = "gir"
  /\ \E i \in 1..5 : /\ Takes(Inner, nodes[i].ty)
                     /\ nodes[i].kind = "break" => InLoop
                     /\ open' = AddOperand(open, i)
  /\ UNCHANGED <<left, ret_type, phase, nodes, frames, result, m>>

(* The syntax tree has an expression with operands here.                   *)
Descend ==
  /\ phase = "gir" /\ Len(Inner.sub) < Inner.arity
  /\ \E form \in Forms : /\ form.kind = "break" => InLoop
                         /\ Size(form) <= left
                         /\ left' = left - Size(form)
                         /\ open' = Append(open, form)
  /\ UNCHANGED <<ret_type, phase, nodes, frames, result, m>>

Make(kind, expr) ==
  /\ phase = "gir" /\ Inner.kind = kind /\ Len(Inner.sub) = Inner.arity
  /\ expr.odd \subseteq Odd
  /\ Takes(open[Len(open) - 1], expr.ty)
  /\ nodes' = Append(nodes, expr)
  /\ open' = AddOperand(Front(open), Len(nodes) + 1)
  /\ UNCHANGED <<left, ret_type, phase, frames, result, m>>

Ty(i) == nodes[i].ty
Flag(what, is) == IF is THEN {what} ELSE {}

(* Typed like what leaves, but may go on, and not with what is wanted.     *)
Misfit(i, ty) == /\ Ty(i) = "any" /\ ~nodes[i].leaves
                 /\ ty = "value" => ~nodes[i].gives

MakeBreak == Make("break", MakeNode("break", Inner.sub, "any", FALSE, {}))

Returned(sub) ==
  MakeNode("return", sub, "any", FALSE,
           Flag("any_value", Misfit(sub[1], ret_type)))

(* return_: E212 unless the value can be cast to the return type.          *)
MakeReturn ==
  /\ Make("return", Returned(Inner.sub))
  /\ Unifies(Ty(Last(Inner.sub)), ret_type)

MakeBlock ==
  LET sub == Inner.sub
  IN  Make("block", MakeNode("block", sub, Ty(Last(sub)), FALSE,
                             Flag("dead_code", nodes[sub[1]].leaves)))

(* No else branch is none_const.                                           *)
WithElse(f) == IF f.else THEN f.sub ELSE Append(f.sub, NoneExpr)

MakeIf ==
  LET sub == WithElse(Inner)
  IN  Make("if", MakeNode("if", sub, Unified(Ty(sub[2]), Ty(sub[3])),
                          Unifies(Ty(sub[2]), Ty(sub[3])),
                          Flag("leaving_then", Ty(sub[2]) = "any")
                          \cup Flag("any_value", Ty(sub[2]) = "value"
                                                  /\ Misfit(sub[3], "value"))))

(* when: the branches' types are unified one after the other with the      *)
(* first one's, once None is always None; in the end Any counts as None.   *)
SwitchType(tys) == IF "none" \in Elems(tys) THEN "none" ELSE Last(tys)
TypeOrNone(ty) == IF ty = "any" THEN "none" ELSE ty

Branches(sub) == [i \in 1..(Len(sub) \div 2) |-> sub[2 * i]]
BranchTypes(sub) == [i \in DOMAIN Branches(sub) |-> Ty(Branches(sub)[i])]

(* If the cases are all there are of an enum, the else may be omitted.     *)
MakeSwitch ==
  LET sub == WithElse(Inner)
      tys == IF Inner.else THEN Append(BranchTypes(sub), Ty(Last(sub)))
             ELSE BranchTypes(sub)
      ty == IF Inner.else \/ Inner.exhaustive THEN TypeOrNone(SwitchType(tys))
            ELSE "none"
      misfits == {i \in Elems(Branches(sub)) : Misfit(i, ty)}
  IN  Make("switch", MakeNode("switch", sub, ty, ty = "value",
             Flag("omitted_else", Inner.exhaustive /\ ty = "value")
             \cup Flag("any_value", ty = "value" /\ misfits # {})))

(* set_loop_type: E209 unless the body, and the breaks in the body and the *)
(* else branch that have a value, agree on a type.                         *)
LoopTypesAgree(body, else) ==
  Cardinality((nodes[body].breaks \cup nodes[else].breaks \cup {Ty(body)})
              \ {"void", "any"}) <= 1

(* for_cond and for_body.  The breaks in the condition are the outer       *)
(* loop's (MakeNode).                                                      *)
LoopOddities(sub) ==
  LET cond == sub[1]  body == sub[2]  else == sub[3]
      phi == Unifies(Ty(body), Ty(else))
      given == nodes[body].breaks \cup nodes[else].breaks
      fitting == IF Ty(else) = "value" THEN {"value"} ELSE {"none", "void"}
  IN  Flag("any_loop", phi /\ Ty(else) = "any")
      \cup Flag("mixed_breaks", phi /\ ~(given \subseteq fitting))
      \cup Flag("any_value", phi /\ Misfit(body, Ty(else)))
      \cup Flag("branching_condition", cond # CallExpr)

MakeLoop ==
  LET sub == WithElse(Inner)
  IN  /\ Make("loop", MakeNode("loop", sub, Unified(Ty(sub[2]), Ty(sub[3])),
                        Unifies(Ty(sub[2]), Ty(sub[3])), LoopOddities(sub)))
      /\ LoopTypesAgree(sub[2], sub[3])

-----------------------------------------------------------------------------
(* The IR generator's builder.                                             *)

AppendBlocks(g, k) == [g EXCEPT !.term = @ \o [i \in 1..k |-> Open]]
Fresh(i) == Len(m.term) + i
FreshBlocks == <<Fresh(1), Fresh(2), Fresh(3)>>

PositionAt(g, b) == [g EXCEPT !.insert = b, !.last = b]

TerminateInPlace(g, t) ==
  IF g.insert = 0 THEN g ELSE [g EXCEPT !.term[g.insert] = t]

(* Nothing is emitted without a block to insert to.                        *)
Terminate(g, t) ==
  IF g.insert = 0 THEN g
  ELSE [g EXCEPT !.term[g.insert] = t, !.insert = 0]

BranchUnchecked(g, b) == [g EXCEPT !.term[g.last] = Br({b}), !.insert = 0]

UnconditionalBranch(g, b) == Terminate(g, Br({b}))

Use(g, v) ==
  IF v.real /\ g.insert # 0
  THEN [g EXCEPT !.uses = @ \cup {[def |-> v.def, at |-> g.insert]}] ELSE g

ConditionalBranch(g, v, then, else) == Terminate(Use(g, v), Br({then, else}))

PushLocalScope(g) == [g EXCEPT !.locals = @ + 1]
PopLocals(g) == [g EXCEPT !.locals = @ - 1]

(* LLValue::from.                                                          *)
From(v, ty) == [v EXCEPT !.ty = IF ty = "value" THEN "value" ELSE "none"]

(* build_phi: values of IRType::None are left out; one value needs no phi. *)
Counted(incoming) == {i \in DOMAIN incoming : incoming[i].v.ty # "none"}

FirstCounted(incoming) ==
  incoming[CHOOSE i \in Counted(incoming) : \A j \in Counted(incoming) : i <= j].v

PhiOfFirst(g, incoming) ==
  IF Counted(incoming) = {} THEN NoneConst ELSE FirstCounted(incoming)

PhiOfSeveral(g, incoming) ==
  IF Cardinality(Counted(incoming)) < 2 THEN NoneConst
  ELSE [ty |-> FirstCounted(incoming).ty, real |-> TRUE, def |-> g.insert]

PhiValue(g, incoming) ==
  LET kept == Counted(incoming)
  IN  CASE kept = {} -> NoneConst
        [] Cardinality(kept) = 1 -> FirstCounted(incoming)
        [] OTHER -> [ty |-> FirstCounted(incoming).ty, real |-> TRUE, def |-> g.insert]

BuildPhi(g, incoming, ty) ==
  LET kept == Counted(incoming)
      several == Cardinality(kept) >= 2
  IN  IF ty # "value" /\ ~several THEN g
      ELSE [g EXCEPT
        !.merges = @ \cup {[at |-> g.insert, from |-> {incoming[i].b : i \in kept}]},
        !.uses = @ \cup {[def |-> incoming[i].v.def, at |-> incoming[i].b] :
                           i \in {j \in kept : several /\ incoming[j].v.real}}]

-----------------------------------------------------------------------------
(* expression_: one action per stretch of code between two calls of it.    *)

top == Last(frames)
node == nodes[top.node]
Block(i) == top.blocks[i]

NewFrame(n, g) == [node |-> n, pc |-> "visit", case |-> 1, blocks |-> <<>>,
                   incoming |-> <<>>, outer |-> NoLoop,
                   base |-> g.locals - g.unclosed]

(* Go on with g until the call of expression_ for node n returns to f.     *)
Evaluate(n, f, g) ==
  /\ frames' = Append(Append(Front(frames), f), NewFrame(n, g))
  /\ m' = g
  /\ UNCHANGED <<left, ret_type, phase, nodes, open, result>>

Give(v, g) ==
  /\ frames' = Front(frames)
  /\ result' = v
  /\ m' = g
  /\ UNCHANGED <<left, ret_type, phase, nodes, open>>

At(kind, pc) == /\ phase = "ir" /\ frames # <<>>
                /\ node.kind = kind /\ top.pc = pc

Visiting(kind) == At(kind, "visit") /\ m.insert # 0

(* into_int_value of none_const panics.                                    *)
Computed == result.real

Skip == /\ phase = "ir" /\ frames # <<>> /\ top.pc = "visit" /\ m.insert = 0
        /\ Give(NoneConst, m)

Call == /\ Visiting("call")
        /\ Give([ty |-> "value", real |-> TRUE, def |-> m.insert], m)

NoneLiteral == Visiting("none") /\ Give(NoneConst, m)

EnterBlock ==
  /\ Visiting("block")
  /\ Evaluate(node.sub[1], [top EXCEPT !.pc = "block"], PushLocalScope(m))

NextInBlock ==
  /\ At("block", "block")
  /\ IF top.case < Len(node.sub)
     THEN Evaluate(node.sub[top.case + 1], [top EXCEPT !.case = @ + 1], m)
     ELSE Give(result, PopLocals(m))

(* The value of a break is evaluated only when the loop has a phi.         *)
Jump(g) == UnconditionalBranch(g, g.loop.end)

EnterBreak ==
  /\ Visiting("break")
  /\ IF m.loop.phi THEN Evaluate(node.sub[1], [top EXCEPT !.pc = "break"], m)
     ELSE Give(NoneConst, Jump(m))

Break ==
  /\ At("break", "break")
  /\ LET incoming == [v |-> result, b |-> m.last]
     IN  Give(NoneConst, Jump([m EXCEPT !.loop.nodes = Append(@, incoming)]))

EnterReturn ==
  /\ Visiting("return")
  /\ Evaluate(node.sub[1], [top EXCEPT !.pc = "return"], m)

(* The verifier wants the value returned to be of the function's type.     *)
BuildReturn(g, v) ==
  LET gives == IF v.ty = "value" /\ v.real THEN "value" ELSE "none"
      wrong == g.insert # 0 /\ gives # ret_type
  IN  Terminate(Use([g EXCEPT !.faults = @ \cup Flag("return", wrong)], v), Ret)

Return ==
  /\ At("return", "return")
  /\ Give(NoneConst, BuildReturn(m, result))

-----------------------------------------------------------------------------
(* if_: blocks then, else, cont.                                           *)

EnterIf ==
  /\ Visiting("if")
  /\ Evaluate(node.sub[1], [top EXCEPT !.pc = "cond"], m)

IfCondition ==
  /\ At("if", "cond") /\ Computed
  /\ LET g == ConditionalBranch(AppendBlocks(m, 3), result, Fresh(1), Fresh(2))
     IN  Evaluate(node.sub[2],
           [top EXCEPT !.pc = "then", !.blocks = FreshBlocks],
           PushLocalScope(PositionAt(g, Fresh(1))))

EndedAtStart == [v |-> result,
                 b |-> IF top.pc = "then" THEN Block(1) ELSE Block(2)]
Ended == [v |-> result, b |-> m.last]

LeaveScopeOpen(g, to) == UnconditionalBranch(g, to)
LeaveBranch(g, to) == UnconditionalBranch(PopLocals(g), to)

IfThen ==
  /\ At("if", "then")
  /\ Evaluate(node.sub[3], [top EXCEPT !.pc = "else", !.incoming = <<Ended>>],
              PushLocalScope(PositionAt(LeaveBranch(m, Block(3)), Block(2))))

IfElse ==
  /\ At("if", "else")
  /\ LET g == PositionAt(LeaveBranch(m, Block(3)), Block(3))
         incoming == Append(top.incoming, Ended)
     IN  IF node.phi
         THEN Give(From(PhiValue(g, incoming), Ty(node.sub[2])),
                   BuildPhi(g, incoming, node.ty))
         ELSE Give(NoneConst, g)

-----------------------------------------------------------------------------
(* switch: blocks when-end, when-case-false, when-case.  The last          *)
(* when-case-false is made and removed; it is not made here.               *)

EnterSwitch ==
  /\ Visiting("switch")
  /\ Evaluate(node.sub[1],
       [top EXCEPT !.pc = "cond", !.blocks = FreshBlocks],
       PushLocalScope(AppendBlocks(m, 3)))

SwitchCondition ==
  /\ At("switch", "cond") /\ Computed
  /\ LET g == ConditionalBranch(PopLocals(m), result, Block(3), Block(2))
     IN  Evaluate(node.sub[2 * top.case], [top EXCEPT !.pc = "case"],
                  PushLocalScope(PositionAt(g, Block(3))))

CaseDone == [top EXCEPT !.case = @ + 1, !.incoming = Append(@, Ended)]

SwitchCase ==
  /\ At("switch", "case")
  /\ LET g == PositionAt(LeaveBranch(m, Block(1)), Block(2))
     IN  IF 2 * top.case + 1 = Len(node.sub)
         THEN Evaluate(Last(node.sub), [CaseDone EXCEPT !.pc = "else"],
                       PushLocalScope(g))
         ELSE Evaluate(node.sub[2 * top.case + 1],
                       [CaseDone EXCEPT !.pc = "cond",
                          !.blocks = <<@[1], Fresh(1), Fresh(2)>>],
                       PushLocalScope(AppendBlocks(g, 2)))

SwitchElse ==
  /\ At("switch", "else")
  /\ LET g == PositionAt(LeaveBranch(m, Block(1)), Block(1))
         incoming == Append(top.incoming, Ended)
     IN  IF node.phi
         THEN Give(From(PhiValue(g, incoming), Ty(Last(node.sub))),
                   BuildPhi(g, incoming, node.ty))
         ELSE Give(NoneConst, g)

-----------------------------------------------------------------------------
(* loop_: blocks for-loop, for-else, for-cont.  The condition is emitted   *)
(* twice, before the loop and at the end of the body.                      *)

EnterLoop ==
  /\ Visiting("loop")
  /\ Evaluate(node.sub[1],
       [top EXCEPT !.pc = "cond", !.outer = m.loop, !.blocks = FreshBlocks],
       [AppendBlocks(m, 3) EXCEPT
          !.loop = [end |-> Fresh(3), phi |-> node.phi, nodes |-> <<>>]])

LoopCondition ==
  /\ At("loop", "cond") /\ Computed
  /\ LET g == ConditionalBranch(m, result, Block(1), Block(2))
     IN  Evaluate(node.sub[2], [top EXCEPT !.pc = "body"],
                  PushLocalScope(PositionAt(g, Block(1))))

LoopElse(f, g) ==
  Evaluate(node.sub[3], [f EXCEPT !.pc = "else"],
           PushLocalScope(PositionAt(g, Block(2))))

(* result_store has the type of the loop's value.                          *)
StoreResult(g, v) ==
  IF ~node.phi THEN g
  ELSE LET wrong == v.real # (node.ty = "value")
       IN  Use([g EXCEPT !.faults = @ \cup Flag("store", wrong)], v)

(* The body's scope is popped only when the body's end is reached.         *)
LoopBody ==
  /\ At("loop", "body")
  /\ IF m.insert = 0 THEN LoopElse(top, [m EXCEPT !.unclosed = @ + 1])
     ELSE Evaluate(node.sub[1],
                   [top EXCEPT !.pc = "again", !.incoming = <<Ended>>],
                   PopLocals(StoreResult(m, result)))

(* The value of the last iteration is loaded after the second condition,   *)
(* the block is the one from before it.                                    *)
Reloaded(in) ==
  [in EXCEPT !.v = From([@ EXCEPT !.real = TRUE, !.def = m.insert], node.ty)]

LoopAgain ==
  /\ At("loop", "again") /\ Computed
  /\ LoopElse([top EXCEPT !.incoming = <<Reloaded(@[1])>>],
              ConditionalBranch(m, result, Block(1), Block(3)))

ForgetOuterLoop(g) == [g EXCEPT !.loop = NoLoop]
RestoreLoop(g) == [g EXCEPT !.loop = top.outer]

LoopEnd ==
  /\ At("loop", "else")
  /\ LET g == RestoreLoop(PositionAt(LeaveBranch(m, Block(3)), Block(3)))
         incoming == m.loop.nodes \o Append(top.incoming, Ended)
     IN  IF node.phi
         THEN Give(From(PhiValue(g, incoming), node.ty),
                   BuildPhi(g, incoming, node.ty))
         ELSE Give(NoneConst, g)

-----------------------------------------------------------------------------
(* A whole function.                                                       *)

Panic ==
  /\ phase = "ir" /\ frames # <<>>
  /\ top.pc \in {"cond", "again"} /\ ~Computed
  /\ phase' = "panicked"
  /\ UNCHANGED <<left, ret_type, nodes, open, frames, result, m>>

(* prepare_function: the entry block and the parameters' scope.            *)
Prepared == [insert |-> 1, last |-> 1, term |-> <<Open>>, locals |-> 1,
             loop |-> NoLoop, unclosed |-> 0, uses |-> {}, merges |-> {},
             faults |-> {}]

Init ==
  /\ left = MaxSize
  /\ ret_type \in {"none", "value"}
  /\ phase = "gir"
  /\ nodes = Leaves(ret_type)
  /\ open = <<Form("function", 1, FALSE)>>
  /\ frames = <<>>
  /\ result = NoneConst
  /\ m = Prepared

(* generate_function_ returns the body's value; E310 unless it can.  E207  *)
(* if a break is left that is in no loop.                                  *)
StartFunction ==
  /\ phase = "gir" /\ Inner.kind = "function" /\ Len(Inner.sub) = 1
  /\ LET body == Inner.sub[1]
     IN  /\ nodes[body].breaks = {}
         /\ IF ret_type = "none"
            THEN nodes' = nodes /\ frames' = <<NewFrame(body, m)>>
            ELSE /\ Unifies(Ty(body), ret_type)
                 /\ Returned(<<body>>).odd \subseteq Odd
                 /\ nodes' = Append(nodes, Returned(<<body>>))
                 /\ frames' = <<NewFrame(Len(nodes) + 1, m)>>
  /\ phase' = "ir"
  /\ UNCHANGED <<left, ret_type, open, result, m>>

(* function_body: a return, if the end can be reached.                     *)
EndFunction ==
  /\ phase = "ir" /\ frames = <<>>
  /\ m' = BuildReturn(m, NoneConst)
  /\ phase' = "done"
  /\ UNCHANGED <<left, ret_type, nodes, open, frames, result>>

Next ==
  \/ PushLeaf \/ Descend \/ MakeBreak \/ MakeReturn \/ MakeBlock
  \/ MakeIf \/ MakeSwitch \/ MakeLoop \/ StartFunction
  \/ Skip \/ Call \/ NoneLiteral \/ EnterBlock \/ NextInBlock
  \/ EnterBreak \/ Break \/ EnterReturn \/ Return
  \/ EnterIf \/ IfCondition \/ IfThen \/ IfElse
  \/ EnterSwitch \/ SwitchCondition \/ SwitchCase \/ SwitchElse
  \/ EnterLoop \/ LoopCondition \/ LoopBody \/ LoopAgain \/ LoopEnd
  \/ Panic \/ EndFunction

Spec == Init /\ [][Next]_vars

-----------------------------------------------------------------------------
(* Properties.                                                             *)

TypeOK ==
  /\ left \in 0..MaxSize
  /\ ret_type \in {"none", "value"}
  /\ phase \in {"gir", "ir", "done", "panicked"}
  /\ nodes \in Seq(Node) /\ open \in Seq(Opened)
  /\ frames \in Seq(Frame) /\ result \in Value /\ m \in Generator
  /\ m.insert \in 0..Len(m.term)
  /\ m.insert # 0 => m.term[m.insert] = Open

Preds(b) == {p \in DOMAIN m.term : b \in m.term[p].to}

(* The blocks that can be reached from the entry without going through b.  *)
ReachedWithout(b) ==
  LET reached[k \in 0..Len(m.term)] ==
        IF k = 0 THEN {1} \ {b}
        ELSE reached[k - 1]
             \cup ((UNION {m.term[p].to : p \in reached[k - 1]}) \ {b})
  IN  reached[Len(m.term)]

Dominates(a, b) == a = b \/ b \notin ReachedWithout(a)

(* Where the value of an if, when or loop is merged, there is a value for  *)
(* each block that control comes from, and for no other, however the       *)
(* branches branch themselves: build_phi leaves nothing out that counts,   *)
(* and last_block is the block a branch ends in.                           *)
MergesMatchPredecessors ==
  phase = "done" => \A x \in m.merges : x.from = Preds(x.at)

(* A value is computed on every way to where it is used, also when what    *)
(* build_phi gives is not a phi but the only value.                        *)
ValuesReachUses ==
  phase = "done" => \A u \in m.uses : Dominates(u.def, u.at)

(* What is returned, stored and branched on has the type that it needs:    *)
(* Any, which unifies with everything, never stands for a missing value,   *)
(* unless the body goes on after a break or return.                        *)
DeadCode == \E i \in DOMAIN nodes : "dead_code" \in nodes[i].odd
NothingMissing == ~DeadCode => phase # "panicked" /\ m.faults = {}

(* A block ends once: after a break or return nothing more is emitted into *)
(* its block, by any construct around it.                                  *)
TerminatorsAreFinal ==
  [][\A b \in DOMAIN m.term : m.term[b] # Open => m'.term[b] = m.term[b]]_vars

(* A break goes to the end of the innermost loop that it is in, also after *)
(* other loops inside of that have ended.                                  *)
OpenLoops == {i \in DOMAIN frames : nodes[frames[i].node].kind = "loop"
                                    /\ frames[i].pc # "visit"}
BreaksLeaveInnermostLoop ==
  phase = "ir" =>
    m.loop.end = IF OpenLoops = {} THEN 0
                 ELSE frames[CHOOSE i \in OpenLoops :
                               \A j \in OpenLoops : j <= i].blocks[3]

(* Whoever pushes a scope of locals pops it, so that locals are freed where *)
(* their scope ends; loops whose body leaves do not, each once.            *)
ScopesBalanced ==
  [][Len(frames') < Len(frames) => m'.locals - m'.unclosed = top.base]_vars

=============================================================================
