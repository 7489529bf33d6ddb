------------------------------- MODULE Scopes -------------------------------
(***************************************************************************)
(* Scopes, loops and closures while the GIR generator generates function   *)
(* bodies: generate_function_ (gir-generator/src/passes/generate.rs), the  *)
(* expressions of expr.rs that open scopes, define variables or enter and  *)
(* leave loops, and the generator that is made for a closure literal       *)
(* (for_closure and end_closure of lib.rs).                                *)
(*                                                                         *)
(* The generator walks the syntax tree recursively: the constructs it is   *)
(* inside of are the variable frames.  What the tree holds next is chosen  *)
(* when the walk gets there, so all trees up to a size are walked.         *)
(***************************************************************************)
EXTENDS Naturals, Sequences, FiniteSets

CONSTANTS
  Names,         \* identifiers of the source
  Modules,       \* how many modules are generated, one after the other
  Functions,     \* Functions[m]: the names of functions that module m sees
  ParamLists,    \* parameter lists of functions and closures
  LoopTypes,     \* types of values, for loops
  Iter,          \* the name for_iter gives the iterator, "iter"
  Any,           \* Type::Any
  None,          \* Option::None
  MaxFunctions,  \* bound: functions generated, closures included
  MaxNodes,      \* bound: expressions walked and variables made
  MaxDepth       \* bound: constructs inside each other

ASSUME SizesAndNames == /\ Modules \in Nat \ {0} /\ MaxFunctions \in Nat \ {0}
                        /\ MaxNodes \in Nat /\ MaxDepth \in Nat \ {0}
                        /\ Functions \in [1..Modules -> SUBSET Names]
                        /\ ParamLists \subseteq Seq(Names) /\ Iter \in Names

(* A variable: its name, the function it was made for, and which one it    *)
(* is; for_iter makes two more, for itself.                                *)
Var == [name: Names, owner: 1..MaxFunctions, id: 1..MaxNodes, temp: BOOLEAN]
Environment == [Names -> Var \cup {None}]
Empty == [n \in Names |-> None]
LoopTy == LoopTypes \cup {Any, None}

ASSUME SpecialValues == /\ None \notin Var \cup LoopTypes \cup {Any}
                        /\ Any \notin LoopTypes

(* E207: break outside of a loop; E237: not an iterator; E300: unknown     *)
(* type in a closure's signature.  Any other error of this part of the     *)
(* generator (E202, E206, E208, E209, E230) only adds to the list.         *)
Codes == {"E207", "E237", "E300", "other"}

(* outer_env and captured are the closure_data; has_modules says whether   *)
(* the generator's list of modules is not empty.                           *)
Generator == [fn: 1..MaxFunctions, module: 1..Modules, is_closure: BOOLEAN,
              environments: Seq(Environment), outer_env: Seq(Environment),
              captured: SUBSET Var, current_loop_ty: LoopTy,
              has_modules: BOOLEAN, errors: SUBSET Codes]

(* scope is what the source declares in a construct, loop the type the     *)
(* source gives a loop: the lexical meaning that the code is compared      *)
(* with.  Of these the code keeps prev_loop_ty and name only.              *)
Loops == {"for", "for_iter"}
Kinds == Loops \cup {"function", "closure", "block", "variable", "branch",
                     "if", "when", "break"}
Expected == {"cond", "value", "iterator", "init", "body", "else"}
Places == Expected \cup {"enter", "branch", "between", "leave"}
Frame == [kind: Kinds, at: Places, name: Names \cup {None},
          scope: Environment, loop: LoopTy, prev_loop_ty: LoopTy]

VARIABLES
  gens,      \* the generators: the first, and one per closure inside of it
  frames,    \* the constructs that the walk is inside of
  nodes,     \* expressions walked and variables made so far
  functions, \* functions and closures begun so far
  found,     \* all errors found so far, whether reported or not
  external,  \* a function without a body was met in this module
  panicked   \* what the generator panicked over, "no" if it did not

vars == <<gens, frames, nodes, functions, found, external, panicked>>

-----------------------------------------------------------------------------
(* Helpers.                                                                *)

Last(s) == s[Len(s)]
Pop(s)  == SubSeq(s, 1, Len(s) - 1)
Max(S)  == CHOOSE x \in S : \A y \in S : y <= x

gen == Last(gens)
top == Last(frames)
InGen(g) == [gens EXCEPT ![Len(gens)] = g]

NewGenerator == [fn |-> 1, module |-> 1, is_closure |-> FALSE,
                 environments |-> <<>>, outer_env |-> <<>>, captured |-> {},
                 current_loop_ty |-> None, has_modules |-> TRUE, errors |-> {}]

NewFrame(k, at) == [kind |-> k, at |-> at, name |-> None, scope |-> Empty,
                    loop |-> None, prev_loop_ty |-> None]

Report(g, codes) == [g EXCEPT !.errors = @ \cup codes]

BeginScope(envs) == Append(envs, Empty)

(* Popping an empty vector does nothing.                                   *)
EndScope(envs) == IF envs = <<>> THEN <<>> ELSE Pop(envs)

(* The innermost of some environments that has the name.                   *)
Innermost(envs, n) ==
  LET hits == {k \in DOMAIN envs : envs[k][n] # None}
  IN  IF hits = {} THEN None ELSE envs[Max(hits)][n]

Outer(g, n) == IF g.is_closure THEN Innermost(g.outer_env, n) ELSE None

FindLocalVar(g, n) ==
  LET own == Innermost(g.environments, n)
  IN  IF own # None THEN own ELSE Outer(g, n)

SetLoopType(old, ty) == IF old \in {None, Any} THEN ty ELSE old
LoopMismatch(old, ty) == old \notin {None, Any} /\ ty \notin {old, Any}

(* What a construct expects after the expression it expected.              *)
After(f) ==
  CASE f.at = "cond" -> IF f.kind = "for" THEN "enter" ELSE "branch"
    [] f.at = "value" -> IF f.kind = "when" THEN "cond" ELSE "leave"
    [] f.at = "iterator" -> "enter"
    [] f.at = "body" -> IF f.kind = "block" THEN "body"
                        ELSE IF f.kind \in Loops THEN "between" ELSE "leave"
    [] f.at = "branch" -> IF f.kind = "when" THEN "cond" ELSE "else"
    [] OTHER -> "leave"

Goto(fs, at) == [fs EXCEPT ![Len(fs)].at = at]
Advance(fs)  == IF fs = <<>> THEN fs ELSE Goto(fs, After(Last(fs)))

(* The construct whose scope a definition is made in.                      *)
OpensScope(f) ==
  \/ f.kind \in {"function", "closure", "block", "branch", "for_iter"}
  \/ f.kind = "for" /\ f.at # "cond"

Scoped(fs) == Max({k \in DOMAIN fs : OpensScope(fs[k])})
Declare(fs, n, v) == [fs EXCEPT ![Scoped(fs)].scope[n] = v]

(* The loop that a break in the innermost function leaves.                 *)
FunctionStart(fs) == Max({k \in DOMAIN fs : fs[k].kind \in {"function", "closure"}})
LoopsIn(fs) == {k \in FunctionStart(fs)..Len(fs) :
                  fs[k].kind \in Loops /\ fs[k].loop # None}
SetLoop(fs, ty) ==
  IF LoopsIn(fs) = {} THEN fs
  ELSE [fs EXCEPT ![Max(LoopsIn(fs))].loop = SetLoopType(@, ty)]

NewVar(n, fn, i) == [name |-> n, owner |-> fn, id |-> nodes + i, temp |-> FALSE]
Made(n) == NewVar(n, gen.fn, 1)
Temporary(n) == [Made(n) EXCEPT !.temp = TRUE]

(* Mutant: variables are put into the outermost scope of the function.     *)
DefineOutermost(envs, n, v) == [envs EXCEPT ![1][n] = v]

(* insert_variable: into the innermost environment.                        *)
Define(envs, n, v) == [envs EXCEPT ![Len(envs)][n] = v]

(* Parameters are variables of the function's scope; a second one of the   *)
(* same name takes the first one's place (E208).                           *)
ParamScope(fn, ps) ==
  [n \in Names |-> LET at == {i \in DOMAIN ps : ps[i] = n}
                   IN  IF at = {} THEN None ELSE NewVar(n, fn, Max(at))]

Twice(ps) == IF \E i, j \in DOMAIN ps : i # j /\ ps[i] = ps[j]
             THEN {"other"} ELSE {}

PrepareFunction(g, fn, ps) ==
  [Report(g, Twice(ps)) EXCEPT !.fn = fn,
                               !.environments = Append(@, ParamScope(fn, ps))]

-----------------------------------------------------------------------------
(* Every step of the walk goes on from the innermost construct.            *)

Expecting == panicked = "no" /\ frames # <<>> /\ top.at \in Expected
At(kinds, place) == /\ panicked = "no" /\ frames # <<>>
                    /\ top.kind \in kinds /\ top.at = place
Room(k) == nodes + k <= MaxNodes

(* The walk goes on in fs, with generator g, k more nodes, and errors.     *)
Walk(g, fs, k, codes) ==
  /\ Room(k)
  /\ gens' = InGen(Report(g, codes))
  /\ frames' = fs
  /\ nodes' = nodes + k
  /\ found' = found \cup codes
  /\ UNCHANGED <<functions, external, panicked>>

Inside(f) == Append(frames, f)
Open(f, g) == /\ Expecting /\ Len(frames) < MaxDepth
              /\ Walk(g, Inside(f), 1, {})
Scope(envs) == [gen EXCEPT !.environments = envs]

Crash(over) == /\ panicked' = over
               /\ UNCHANGED <<gens, frames, nodes, functions, found, external>>

(* environments.last_mut().unwrap() and modules[0] on an empty vector:     *)
(* what for_closure took from the outer generator is missed.               *)
Panic == Crash("outer")

Init ==
  /\ gens = <<NewGenerator>>
  /\ frames = <<>>
  /\ nodes = 0
  /\ functions = 0
  /\ found = {}
  /\ external = FALSE
  /\ panicked = "no"

(* generate_function_ of a function of the module.  Without a body it      *)
(* returns before end_scope.                                               *)
StartFunction(ps, body) ==
  /\ panicked = "no" /\ frames = <<>>
  /\ functions < MaxFunctions /\ Room(Len(ps))
  /\ gens' = <<PrepareFunction(gens[1], functions + 1, ps)>>
  /\ frames' = IF body THEN <<[NewFrame("function", "body") EXCEPT
                                  !.scope = ParamScope(functions + 1, ps)]>>
               ELSE <<>>
  /\ external' = (external \/ ~body)
  /\ functions' = functions + 1
  /\ nodes' = nodes + Len(ps)
  /\ found' = found \cup Twice(ps)
  /\ UNCHANGED panicked

EndFunction == /\ At({"function"}, "leave")
               /\ Walk(Scope(EndScope(gen.environments)), <<>>, 0, {})

(* The pass goes on with the next module: switch_module.                   *)
SwitchModule ==
  /\ panicked = "no" /\ frames = <<>> /\ gen.module < Modules
  /\ gens' = InGen([gen EXCEPT !.module = @ + 1, !.environments = <<>>,
                               !.current_loop_ty = None])
  /\ external' = FALSE
  /\ UNCHANGED <<frames, nodes, functions, found, panicked>>

(* Another literal, or anything else that changes nothing but may fail.    *)
Simple(codes) == Expecting /\ Walk(gen, Advance(frames), 1, codes)

(* A well-formed string literal has the type string_type of the            *)
(* intrinsics, which those of a closure's generator are without.  A \u     *)
(* escape that ends the text, or is no code point, panics anywhere.        *)
StringLiteral(bad_escape) ==
  /\ Expecting
  /\ IF gen.is_closure \/ bad_escape THEN Crash("literal")
     ELSE Walk(gen, Advance(frames), 1, {})

(* Mutant: looking a variable up always records a capture.                 *)
CaptureAnything(g, n) == LET v == FindLocalVar(g, n)
                         IN  IF v = None THEN {} ELSE {v}

(* find_local_var records the variables it finds around the closure.       *)
Capture(g, n) == IF Innermost(g.environments, n) = None /\ Outer(g, n) # None
                 THEN {Outer(g, n)} ELSE {}

(* var: a local variable, a function of the module, or E206.               *)
Use(n) ==
  LET known == FindLocalVar(gen, n) # None \/ n \in Functions[gen.module]
  IN  /\ Expecting
      /\ Walk([gen EXCEPT !.captured = @ \cup Capture(gen, n)],
              Advance(frames), 1, IF known THEN {} ELSE {"other"})

OpenBlock == Open(NewFrame("block", "body"), Scope(BeginScope(gen.environments)))
CloseBlock == /\ At({"block"}, "body")
              /\ Walk(Scope(EndScope(gen.environments)), Advance(Pop(frames)), 0, {})

(* var_def: the variable exists after its initializer.                     *)
OpenVariable(n) == Open([NewFrame("variable", "value") EXCEPT !.name = n], gen)
EndVariable ==
  /\ At({"variable"}, "leave")
  /\ IF gen.environments = <<>> THEN Panic
     ELSE Walk(Scope(Define(gen.environments, top.name, Made(top.name))),
               Advance(Declare(Pop(frames), top.name, Made(top.name))), 1, {})
NotAssignable == /\ At({"variable"}, "leave")
                 /\ Walk(gen, Advance(Pop(frames)), 0, {"other"})

(* break: E207 is found before the value is walked.                        *)
NoLoop == IF gen.current_loop_ty = None THEN {"E207"} ELSE {}
Break == Expecting /\ Walk(gen, Advance(frames), 1, NoLoop)
OpenBreak == /\ Expecting /\ Len(frames) < MaxDepth
             /\ Walk(gen, Inside(NewFrame("break", "value")), 1, NoLoop)

(* set_loop_type, of a break's value or of the loop's body.                *)
WithLoopType(g, ty) == [g EXCEPT !.current_loop_ty = SetLoopType(@, ty)]
Mismatch(ty) == IF LoopMismatch(gen.current_loop_ty, ty) THEN {"other"} ELSE {}
EndBreak(ty) ==
  /\ At({"break"}, "leave")
  /\ Walk(WithLoopType(gen, ty), Advance(SetLoop(Pop(frames), ty)), 0, Mismatch(ty))

OpenIf == Open(NewFrame("if", "cond"), gen)
OpenWhen == Open(NewFrame("when", "value"), gen)

(* smart_casts: a variable that the condition named is defined again.      *)
Castable(n) == FindLocalVar(gen, n) # None /\ Capture(gen, n) \subseteq gen.captured
Cast(envs, n) == IF n = None THEN envs ELSE Define(envs, n, Made(n))
CastScope(n) == IF n = None THEN Empty ELSE [Empty EXCEPT ![n] = Made(n)]
CastNodes(n) == IF n = None THEN 0 ELSE 1
Casts == {n \in Names : Castable(n)} \cup {None}

EnterBranch(n) ==
  /\ At({"if", "when"}, "branch") /\ Len(frames) < MaxDepth
  /\ n \in Casts
  /\ Walk(Scope(Cast(BeginScope(gen.environments), n)),
          Inside([NewFrame("branch", "body") EXCEPT !.scope = CastScope(n)]),
          CastNodes(n), {})
LeaveBranch == /\ At({"branch"}, "leave")
               /\ Walk(Scope(EndScope(gen.environments)), Advance(Pop(frames)), 0, {})

(* A condition that no operator fits ends the whole when (E202).           *)
AbortWhen == /\ At({"when"}, "branch")
             /\ Walk(gen, Advance(Pop(frames)), 0, {"other"})

(* All branches of a when are done, or there is no else branch.            *)
WhenElse == At({"when"}, "cond") /\ Walk(gen, Goto(frames, "else"), 0, {})
OmitElse == At({"if", "when", "for", "for_iter"}, "else")
            /\ Walk(gen, Goto(frames, "leave"), 0, {})
Leave == At({"if", "when"}, "leave") /\ Walk(gen, Advance(Pop(frames)), 0, {})

OpenFor == Open(NewFrame("for", "cond"), gen)
OpenForIter(n) == Open([NewFrame("for_iter", "iterator") EXCEPT !.name = n],
                       Scope(BeginScope(gen.environments)))

(* for_body: the loop's type is unknown, and the outer loop's is kept.     *)
ForBody(g, scope, k) ==
  Walk([g EXCEPT !.current_loop_ty = Any],
       [frames EXCEPT ![Len(frames)].at = "body", ![Len(frames)].scope = scope,
                      ![Len(frames)].loop = Any,
                      ![Len(frames)].prev_loop_ty = gen.current_loop_ty], k, {})

EnterFor(n) ==
  /\ At({"for"}, "enter") /\ n \in Casts
  /\ ForBody(Scope(Cast(BeginScope(gen.environments), n)), CastScope(n), CastNodes(n))

(* The iterator goes into a variable "iter" and its elements into one of   *)
(* the loop's name, which the body sees cast in a scope of its own.  The   *)
(* registry of a closure's generator knows of no iterator.                 *)
EnterForIter ==
  /\ At({"for_iter"}, "enter")
  /\ IF gen.environments = <<>> THEN Panic
     ELSE /\ ~gen.is_closure
          /\ LET held == Define(gen.environments, Iter, Temporary(Iter))
                 outer == Define(held, top.name, Temporary(top.name))
                 inner == Define(BeginScope(outer), top.name, Made(top.name))
             IN  ForBody(Scope(inner),
                         [top.scope EXCEPT ![top.name] = Made(top.name)], 1)

(* E237 leaves for_iter before its end_scope; by then "iter" is defined.   *)
NotAnIterator ==
  /\ At({"for_iter"}, "enter") /\ gen.environments # <<>>
  /\ Walk(Scope(Define(gen.environments, Iter, Temporary(Iter))),
          Advance(Pop(frames)), 1, {"E237"})

AfterBody(ty) ==
  /\ At(Loops, "between")
  /\ Walk(WithLoopType(gen, ty), Goto(SetLoop(frames, ty), "else"), 0, Mismatch(ty))

(* Mutant: a loop leaves no loop behind.                                   *)
ForgetLoopTy(f) == None

PrevLoopTy(f) == f.prev_loop_ty

LeaveFor ==
  /\ At({"for"}, "leave")
  /\ Walk([Scope(EndScope(gen.environments)) EXCEPT
             !.current_loop_ty = PrevLoopTy(top)], Advance(Pop(frames)), 0, {})

(* "body-value" is defined between the two scopes that end here.           *)
LeaveForIter ==
  /\ At({"for_iter"}, "leave")
  /\ LET outer == EndScope(gen.environments)
     IN  IF outer = <<>> THEN Panic
         ELSE Walk([Scope(EndScope(outer)) EXCEPT !.current_loop_ty = PrevLoopTy(top)],
                   Advance(Pop(frames)), 0, {})

(* The generator of a closure literal: for_closure, create_function and    *)
(* prepare_function.  It starts in the first module of the list.           *)
ClosureGenerator(ps) ==
  PrepareFunction([NewGenerator EXCEPT !.environments = <<Empty>>,
                                       !.is_closure = TRUE,
                                       !.outer_env = gen.environments],
                  functions + 1, ps)

Given == [gen EXCEPT !.environments = <<>>, !.has_modules = FALSE]

OpenClosure(ps) ==
  /\ Expecting /\ Len(frames) < MaxDepth
  /\ IF ~gen.has_modules THEN Panic
     ELSE /\ functions < MaxFunctions /\ Room(1 + Len(ps))
          /\ gens' = Append(InGen(Given), ClosureGenerator(ps))
          /\ frames' = Inside([NewFrame("closure", "body") EXCEPT
                                  !.scope = ParamScope(functions + 1, ps)])
          /\ functions' = functions + 1
          /\ nodes' = nodes + 1 + Len(ps)
          /\ found' = found \cup Twice(ps)
          /\ UNCHANGED <<external, panicked>>

(* An unknown return type is found before for_closure; an unknown          *)
(* parameter type after it, and end_closure is never reached.              *)
UnknownReturnType == Simple({"E300"})
UnknownParamType == /\ Expecting /\ gen.has_modules
                    /\ Walk(Given, Advance(frames), 1, {"E300"})

(* Mutant: the inner generator goes on in the outer function.              *)
EndClosureKeepsInner(outer, inner) == [inner EXCEPT !.environments = inner.outer_env]

(* Mutant: only the environments are given back.                           *)
EndClosureEnvironments(outer, inner) == [outer EXCEPT !.environments = inner.outer_env]

(* end_closure: the closure's errors go with its generator.                *)
EndClosure(outer, inner) == [outer EXCEPT !.environments = inner.outer_env,
                                          !.has_modules = inner.has_modules]

LeaveClosure ==
  /\ At({"closure"}, "leave")
  /\ gens' = Append(SubSeq(gens, 1, Len(gens) - 2),
                    EndClosure(gens[Len(gens) - 1], gen))
  /\ frames' = Advance(Pop(frames))
  /\ UNCHANGED <<nodes, functions, found, external, panicked>>

Next ==
  \/ \E ps \in ParamLists, body \in BOOLEAN : StartFunction(ps, body)
  \/ EndFunction
  \/ SwitchModule
  \/ \E codes \in {{}, {"other"}} : Simple(codes)
  \/ \E bad_escape \in BOOLEAN : StringLiteral(bad_escape)
  \/ \E n \in Names : Use(n)
  \/ OpenBlock \/ CloseBlock
  \/ \E n \in Names : OpenVariable(n)
  \/ EndVariable \/ NotAssignable
  \/ Break \/ OpenBreak
  \/ \E ty \in LoopTypes : EndBreak(ty) \/ AfterBody(ty)
  \/ OpenIf \/ OpenWhen
  \/ \E n \in Names \cup {None} : EnterBranch(n)
  \/ LeaveBranch \/ AbortWhen \/ WhenElse \/ OmitElse \/ Leave
  \/ OpenFor
  \/ \E n \in Names : OpenForIter(n)
  \/ \E n \in Names \cup {None} : EnterFor(n)
  \/ EnterForIter \/ NotAnIterator \/ LeaveFor \/ LeaveForIter
  \/ \E ps \in ParamLists : OpenClosure(ps)
  \/ UnknownReturnType \/ UnknownParamType \/ LeaveClosure

Spec == Init /\ [][Next]_vars

-----------------------------------------------------------------------------
(* What the source means.                                                  *)

(* A loop declares nothing for its else branch.                            *)
Visible(k, n) == frames[k].scope[n] # None /\ frames[k].at # "else"

(* The innermost of the constructs first..last that declares the name.     *)
Declared(first, last, n) ==
  LET hits == {k \in first..last : Visible(k, n)}
  IN  IF hits = {} THEN None ELSE frames[Max(hits)].scope[n]

(* A closure sees the function around it, and not the one around that.     *)
Lexical(n) ==
  LET start == FunctionStart(frames)
      own == Declared(start, Len(frames), n)
  IN  IF own # None \/ start = 1 THEN own
      ELSE Declared(FunctionStart(SubSeq(frames, 1, start - 1)), start - 1, n)

(* Names that the compiler also uses for something not declared there.     *)
Hidden == {Iter} \cup {n \in Names : \E k \in DOMAIN frames :
                                       frames[k].at = "else" /\ frames[k].scope[n] # None}

(* What disturbs scopes: a function without a body, a for over something   *)
(* that is no iterator, and a closure whose generator is lost.             *)
Undisturbed == ~external /\ found \cap {"E237", "E300"} = {}

(* The frame of the closure literal that generator k is for.               *)
Literal(k) == CHOOSE i \in DOMAIN frames :
                /\ frames[i].kind = "closure"
                /\ Cardinality({j \in 1..i : frames[j].kind = "closure"}) = k - 1

-----------------------------------------------------------------------------
(* Properties.                                                             *)

TypeOK ==
  /\ gens \in Seq(Generator) /\ gens # <<>>
  /\ frames \in Seq(Frame) /\ Len(frames) <= MaxDepth
  /\ nodes \in 0..MaxNodes
  /\ functions \in 0..MaxFunctions
  /\ found \in SUBSET Codes
  /\ external \in BOOLEAN
  /\ panicked \in {"no", "outer", "literal"}
  /\ \A k \in DOMAIN gens : gens[k].is_closure <=> k > 1
  /\ Len(gens) = 1 + Cardinality({k \in DOMAIN frames : frames[k].kind = "closure"})

(* Wherever the walk is, a name means the variable that the innermost      *)
(* enclosing construct of the source declares, however blocks, branches,   *)
(* loops and closures were entered and left before.                        *)
LexicalScoping ==
  Undisturbed /\ frames # <<>> =>
    \A n \in Names \ Hidden : FindLocalVar(gen, n) = Lexical(n)

(* A break is judged by, and gives its type to, the innermost loop of its  *)
(* own function: for_body restores the outer loop's type on every way out, *)
(* and a closure starts outside of all loops.  After a break outside of a  *)
(* loop, an error, its value's type stays as if there was one.             *)
LoopTypeRestored ==
  "E207" \notin found =>
    gen.current_loop_ty =
      IF frames = <<>> \/ LoopsIn(frames) = {} THEN None
      ELSE frames[Max(LoopsIn(frames))].loop

(* What for_closure takes from the outer generator, its scopes and its     *)
(* list of modules, is given back before a definition or another closure   *)
(* misses it, unless the program has a closure with an unknown type in its *)
(* signature, an error.  (Of panics over string literals it says nothing:  *)
(* a correct program can meet one, see StringLiteral.)                     *)
LoansReturned == panicked = "outer" => "E300" \in found

(* What a closure captures are the variables that the function around it   *)
(* has where the closure literal is written, never shadowed ones of that   *)
(* function, another function's, or the closure's own.                     *)
CapturedWhereWritten ==
  Undisturbed =>
    \A k \in 2..Len(gens) : \A v \in gens[k].captured :
      LET at == Literal(k)
          start == FunctionStart(SubSeq(frames, 1, at - 1))
      IN  v.name \in Hidden \/ v = Declared(start, at - 1, v.name)

(* lib.rs 122-123 says of consume: "Returns errors if any occurred."  The  *)
(* errors of a function are in the generator that consume looks at.        *)
ErrorsReported == frames = <<>> => found \subseteq gens[1].errors
=============================================================================
