------------------------------ MODULE Worklist ------------------------------
(***************************************************************************)
(* Monomorphisation in the IR generator (ir/src/generator/mod.rs, types.rs *)
(* and intrinsics.rs) over the adapters of gir-ir-adapter that hold what   *)
(* was generated of a declaration for which type arguments.  The adapters  *)
(* belong to the declarations, so those of a cached standard library       *)
(* outlive a compilation.  todo is the Rust call stack: what the active    *)
(* functions of the generator still have to do.                            *)
(***************************************************************************)
EXTENDS Instances, SequencesExt, FiniteSetsExt

CONSTANT
    MaxModules  \* bound: compilations with one cached standard library

ASSUME BoundAssumption == MaxModules \in Nat \ {0}

VARIABLES
    program,         \* what is compiled
    module,          \* number of the LLVM module that is generated
    ir,              \* Function.ir: function -> arguments -> module of its value
    structs,         \* ADT.ir: ADT -> arguments -> [module, arguments built for]
    functions_left,  \* instances declared whose bodies are to be generated
    type_args,       \* stack of the type arguments in force
    todo,            \* what is still to be done
    generated,       \* instances taken for generation (history)
    status           \* "running", "done" or "crashed" (a panic)

vars == <<program, module, ir, structs, functions_left, type_args, todo,
          generated, status>>

NoInstances == [k \in {} |-> 0]

Task(op)  == status = "running" /\ todo # <<>> /\ Head(todo).op = op
Do(tasks) == todo' = tasks \o Tail(todo)
Panic == /\ status' = "crashed"
         /\ UNCHANGED <<program, module, ir, structs, functions_left, type_args,
                        todo, generated>>

Op(op)         == [op |-> op]
Push(args)     == [op |-> "push", args |-> args]
Lower(types)   == [i \in DOMAIN types |-> TypeOf(types[i])]

-----------------------------------------------------------------------------
(* Type arguments in force: get_type_args is the topmost frame that is not *)
(* empty, and panics if there is none.                                     *)
Frames     == {i \in DOMAIN type_args : type_args[i] # <<>>}
TopFrame   == type_args[Max(Frames)]
(* unwrap_var of a type parameter may be evaluated.                        *)
Unwraps(t) == t.k = "var" /\ type_args # <<>> =>
                  Frames # {} /\ t.i \in DOMAIN TopFrame
InForce    == IF Frames = {} THEN <<>> ELSE TopFrame
Processes(types) == \A i \in DOMAIN types : Unwraps(types[i])
ProcessArgs(types) == ResolveAll(types, InForce)

-----------------------------------------------------------------------------
(* Types.                                                                  *)
LowerPlain ==
    /\ Task("type")
    /\ \/ Head(todo).t.k = "base" /\ Do(<<>>)
       \/ Head(todo).t.k = "ptr" /\ Do(<<TypeOf(Head(todo).t.of)>>)
    /\ UNCHANGED <<program, module, ir, structs, functions_left, type_args,
                   generated, status>>

LowerVariable ==
    /\ Task("type") /\ Head(todo).t.k = "var"
    /\ LET t == Head(todo).t  inner == Resolve(t, InForce) IN
       IF Unwraps(t) /\ ~(inner.k = "ptr" /\ inner.of.k = "var")
       THEN /\ Do(<<TypeOf(inner)>>)
            /\ UNCHANGED <<program, module, ir, structs, functions_left,
                           type_args, generated, status>>
       ELSE Panic

(* get_or_build_adt: looked up under the arguments in force if its own are *)
(* absent, built twice (the second struct is the nullable one), and added  *)
(* under its own arguments when both are built.  While the fields of a     *)
(* struct are lowered, build_adt borrows the declaration, which other      *)
(* structs of the same ADT cannot be added to then.                        *)
(* Mutant: looked up under its own arguments only.                         *)
LookupOwnArgs(a, args) == args
LookupArgs(a, args) == IF a \in Generic /\ args = <<>> THEN InForce ELSE args
Built(a, args) == [op |-> "built", a |-> a, args |-> args,
                   for |-> IF a \in Generic /\ args = <<>> THEN InForce ELSE args]
Build(a, args) ==
    LET once == <<Push(args)>> \o Lower(Layout[a]) \o <<Op("pop")>>
    IN  once \o once \o <<Built(a, args)>>

LowerAdt ==
    /\ Task("type") /\ Head(todo).t.k = "adt"
    /\ LET a == Head(todo).t.a  args == ProcessArgs(Head(todo).t.args) IN
       IF /\ Processes(Head(todo).t.args)
          /\ a \in Generic /\ args = <<>> => Frames # {}
          \* building a struct inside itself never ends: the stack overflows
          /\ \/ Slot(a, LookupArgs(a, args)) \in DOMAIN structs[a]
             \/ ~Contains(todo, Built(a, args))
       THEN /\ Do(IF Slot(a, LookupArgs(a, args)) \in DOMAIN structs[a]
                  THEN <<>> ELSE Build(a, args))
            /\ UNCHANGED <<program, module, ir, structs, functions_left,
                           type_args, generated, status>>
       ELSE Panic

(* add_inst: another value for the same arguments replaces the first.      *)
WithInst(adapter, args, value) ==
    [x \in DOMAIN adapter \cup {args} |-> IF x = args THEN value ELSE adapter[x]]

Borrowed(a) == \E i \in 2..Len(todo) : todo[i].op = "built" /\ todo[i].a = a

AddStruct ==
    /\ Task("built")
    /\ LET a == Head(todo).a IN
       IF ~Borrowed(a)
       THEN /\ Do(<<>>)
            /\ structs' = [structs EXCEPT ![a] =
                   WithInst(@, Slot(a, Head(todo).args),
                            [module |-> module, for |-> Head(todo).for])]
            /\ UNCHANGED <<program, module, ir, functions_left, type_args,
                           generated, status>>
       ELSE Panic

PushTyArgs ==
    /\ Task("push") /\ Do(<<>>)
    /\ type_args' = Append(type_args, Head(todo).args)
    /\ UNCHANGED <<program, module, ir, structs, functions_left, generated, status>>

PopTyArgs ==
    /\ Task("pop") /\ Do(<<>>)
    /\ type_args' = Front(type_args)
    /\ UNCHANGED <<program, module, ir, structs, functions_left, generated, status>>

-----------------------------------------------------------------------------
(* Functions.                                                              *)
Declared(f, args) == Slot(f, args) \in DOMAIN ir[f]

(* queue_function.                                                         *)
Queue(f, args) == <<Push(args)>> \o Lower(Signature[f])
                  \o <<[op |-> "queue", f |-> f, args |-> args], Op("pop")>>

GetOrCreate(f, args) == Do(IF Declared(f, args) THEN <<>> ELSE Queue(f, args))

(* Mutant: the arguments are not processed.                                *)
LoadFunctionRaw ==
    /\ Task("call")
    /\ GetOrCreate(Head(todo).f, Head(todo).args)
    /\ UNCHANGED <<program, module, ir, structs, functions_left, type_args,
                   generated, status>>

LoadFunction ==
    /\ Task("call")
    /\ IF Processes(Head(todo).args)
       THEN /\ GetOrCreate(Head(todo).f, ProcessArgs(Head(todo).args))
            /\ UNCHANGED <<program, module, ir, structs, functions_left,
                           type_args, generated, status>>
       ELSE Panic

(* ConcreteMethodGet: the implementor is in the last frame, empty or not.  *)
LoadBoundMethod ==
    /\ Task("bound")
    /\ IF /\ type_args # <<>> /\ Head(todo).i \in DOMAIN Last(type_args)
          /\ Last(type_args)[Head(todo).i] \in DOMAIN Impls
       THEN /\ GetOrCreate(Impls[Last(type_args)[Head(todo).i]], <<>>)
            /\ UNCHANGED <<program, module, ir, structs, functions_left,
                           type_args, generated, status>>
       ELSE Panic

AddInst(f, args) == ir' = [ir EXCEPT ![f] = WithInst(@, Slot(f, args), module)]

(* Mutant: the instance is queued and not added to the adapter.            *)
QueueFunctionOnly ==
    /\ Task("queue") /\ Do(<<>>)
    /\ functions_left' = Append(functions_left,
                                [f |-> Head(todo).f, args |-> Head(todo).args])
    /\ UNCHANGED <<program, module, ir, structs, type_args, generated, status>>

QueueFunction ==
    /\ Task("queue") /\ Do(<<>>)
    /\ AddInst(Head(todo).f, Head(todo).args)
    /\ functions_left' = Append(functions_left,
                                [f |-> Head(todo).f, args |-> Head(todo).args])
    /\ UNCHANGED <<program, module, structs, type_args, generated, status>>

-----------------------------------------------------------------------------
(* generate_.                                                              *)
DeclareRequired ==
    /\ Task("declare")
    /\ Do(IF Head(todo).f \in Generic THEN <<>>
          ELSE Lower(Signature[Head(todo).f]) \o <<[op |-> "set", f |-> Head(todo).f]>>)
    /\ UNCHANGED <<program, module, ir, structs, functions_left, type_args,
                   generated, status>>

SetRequired ==
    /\ Task("set") /\ Do(<<>>)
    /\ AddInst(Head(todo).f, <<>>)
    /\ UNCHANGED <<program, module, structs, functions_left, type_args,
                   generated, status>>

(* A required function with type parameters has not been declared.         *)
GenerateRequired ==
    /\ Task("generate")
    /\ IF Head(todo).f \notin Generic
       THEN /\ Do(program[Head(todo).f])
            /\ generated' = generated \cup {Instance(Head(todo).f, <<>>)}
            /\ UNCHANGED <<program, module, ir, structs, functions_left,
                           type_args, status>>
       ELSE Panic

(* Mutant: the body runs without its type arguments.                       *)
GenerateLeftBare ==
    /\ Task("left") /\ functions_left # <<>>
    /\ LET next == Last(functions_left) IN
       IF Declared(next.f, next.args)
       THEN /\ functions_left' = Front(functions_left)
            /\ generated' = generated \cup {Instance(next.f, next.args)}
            /\ todo' = program[next.f] \o todo
            /\ UNCHANGED <<program, module, ir, structs, type_args, status>>
       ELSE Panic

GenerateLeft ==
    /\ Task("left") /\ functions_left # <<>>
    /\ LET next == Last(functions_left) IN
       IF Declared(next.f, next.args)
       THEN /\ functions_left' = Front(functions_left)
            /\ type_args' = Append(type_args, next.args)
            /\ generated' = generated \cup {Instance(next.f, next.args)}
            /\ todo' = program[next.f] \o <<Op("pop")>> \o todo
            /\ UNCHANGED <<program, module, ir, structs, status>>
       ELSE Panic

(* fill_intrinsic_functions, over the instances there are now.             *)
StartFill ==
    /\ Task("left") /\ functions_left = <<>>
    /\ Do(SetToSeq({TypeOf(args[1]) : args \in DOMAIN ir[SizeOf]})
          \o SetToSeq({[op |-> "free", t |-> args[1]] : args \in DOMAIN ir[FreeType]}))
    /\ UNCHANGED <<program, module, ir, structs, functions_left, type_args,
                   generated, status>>

(* free_type calls the destructor, which must have been asked for.         *)
FillFreeType ==
    /\ Task("free")
    /\ LET t == Head(todo).t IN
       IF t.k = "adt" => Declared(FreeInstance[t.a], t.args)
       THEN /\ Do(<<>>)
            /\ UNCHANGED <<program, module, ir, structs, functions_left,
                           type_args, generated, status>>
       ELSE Panic

Finish ==
    /\ status = "running" /\ todo = <<>>
    /\ status' = "done"
    /\ UNCHANGED <<program, module, ir, structs, functions_left, type_args,
                   todo, generated>>

-----------------------------------------------------------------------------
Work == [i \in DOMAIN Required |-> [op |-> "declare", f |-> Required[i]]]
        \o [i \in DOMAIN Required |-> [op |-> "generate", f |-> Required[i]]]
        \o <<Op("left")>>

Init ==
    /\ program \in Programs
    /\ module = 1
    /\ ir = [f \in Functions |-> NoInstances]
    /\ structs = [a \in ADTs |-> NoInstances]
    /\ functions_left = <<>> /\ type_args = <<>> /\ generated = {}
    /\ todo = Work
    /\ status = "running"

(* reset_modules clears the adapters of the standard library; the other    *)
(* declarations are made anew.  The generator of the IR is a new one.      *)
(* Mutant: only the adapters with type arguments are cleared.              *)
ResetGeneric(adapters) ==
    [d \in DOMAIN adapters |-> IF d \in Generic THEN NoInstances ELSE adapters[d]]
Reset(adapters) == [d \in DOMAIN adapters |-> NoInstances]

NextCompilation ==
    /\ status # "running" /\ module < MaxModules
    /\ program' \in Programs
    /\ module' = module + 1
    /\ ir' = Reset(ir) /\ structs' = Reset(structs)
    /\ functions_left' = <<>> /\ type_args' = <<>> /\ generated' = {}
    /\ todo' = Work
    /\ status' = "running"

Step ==
    \/ LowerPlain \/ LowerVariable \/ LowerAdt \/ AddStruct
    \/ PushTyArgs \/ PopTyArgs
    \/ LoadFunction \/ LoadBoundMethod \/ QueueFunction
    \/ DeclareRequired \/ SetRequired \/ GenerateRequired \/ GenerateLeft
    \/ StartFill \/ FillFreeType \/ Finish
Next == Step \/ NextCompilation

(* A compilation runs until it returns or panics; nothing makes another    *)
(* one start.                                                              *)
Spec == Init /\ [][Next]_vars /\ WF_vars(Step)

-----------------------------------------------------------------------------
(* Properties.                                                             *)

(* Every variable has its type: one slot at most without type parameters,  *)
(* and no type parameter itself among the arguments in force.  About the   *)
(* fields of IRGenerator and the adapters.                                 *)
TypeOK ==
    /\ DOMAIN program = Functions /\ module \in 1..MaxModules
    /\ DOMAIN ir = Functions /\ DOMAIN structs = ADTs
    /\ \A f \in Functions \ Generic : DOMAIN ir[f] \subseteq {<<>>}
    /\ \A i \in DOMAIN functions_left : functions_left[i].f \in Functions
    /\ \A i \in DOMAIN type_args : \A j \in DOMAIN type_args[i] :
           type_args[i][j].k # "var"
    /\ \A i \in generated : i.f \in Functions
    /\ status \in {"running", "done", "crashed"}

(* The required functions whose bodies wait for their turn.                *)
RequiredLeft == {Instance(todo[i].f, <<>>) :
                    i \in {j \in DOMAIN todo : /\ todo[j].op = "generate"
                                               /\ todo[j].f \notin Generic}}
Left == {Instance(functions_left[i].f, functions_left[i].args) :
            i \in DOMAIN functions_left}

(* A function instance that has been declared in the module is waiting for *)
(* its body or has got it, never both, and none waits twice: declaring,    *)
(* adding to the adapter and queueing, with the lowering of types between, *)
(* do not come apart, and nothing of an earlier compilation is taken for   *)
(* declared.                                                               *)
DeclaredOnce ==
    status # "crashed" =>
    /\ \A f \in Functions : \A args \in DOMAIN ir[f] :
           /\ [f |-> f, args |-> args] \in generated \cup Left \cup RequiredLeft
           /\ ir[f][args] = module
    /\ Left \cap (generated \cup RequiredLeft) = {}
    /\ Cardinality(Left) = Len(functions_left)

(* A struct stands for the ADT with the arguments it is stored under, and  *)
(* no other struct of the module does.                                     *)
OneStructPerInstance ==
    \A a \in ADTs : \A args \in DOMAIN structs[a] :
        /\ structs[a][args].module = module
        /\ structs[a][args].for = args

(* What is being generated asks for nothing the generator is known to      *)
(* stumble over: arguments that hold a type parameter further down, absent *)
(* arguments, an ADT inside itself, drop(), a bound without a method, and  *)
(* an instance of an ADT inside another one of the same ADT, as in         *)
(* Box[Box[i64]], while the inner one has no struct yet (Nested).          *)
PlainType(t, inner) ==
    \/ t.k \in {"base", "var"}
    \/ /\ t.k = "adt"
       /\ t.a \in Generic => t.args # <<>>
       /\ Adt(t.a, <<>>) \notin Range(Layout[t.a])
       /\ \A i \in DOMAIN t.args : t.args[i].k \in inner
NeedsMethod(f) == \E i \in DOMAIN program[f] : program[f][i].op = "bound"
PlainItem(item) ==
    CASE item.op = "bound" -> TRUE
      [] item.op = "type"  -> PlainType(item.t, {"base", "var"})
      [] item.op = "call"  ->
            /\ item.f \in Generic => item.args # <<>>
            /\ item.f # FreeType
            /\ \A i \in DOMAIN item.args :
                   /\ PlainType(item.args[i], {"base"})
                   /\ NeedsMethod(item.f) => item.args[i] \in DOMAIN Impls
(* The types an item makes the generator lower, each with its arguments.   *)
Asked(item, args) ==
    CASE item.op = "bound" -> {}
      [] item.op = "type"  -> {<<item.t, args>>}
      [] item.op = "call"  -> Range(Signature[item.f]) \X {ResolveAll(item.args, args)}
Nested(t, args) ==
    /\ t.k = "adt" /\ t.a \in Generic
    /\ LET own == IF t.args = <<>> THEN args ELSE ResolveAll(t.args, args) IN
       \E i \in DOMAIN own : /\ own[i].k = "adt" /\ own[i].a = t.a
                            /\ own[i].args \notin DOMAIN structs[t.a]
Plain ==
    /\ \A i \in DOMAIN Required : Required[i] \notin Generic
    /\ \A g \in generated : \A i \in DOMAIN program[g.f] :
           /\ PlainItem(program[g.f][i])
           /\ \A asked \in Asked(program[g.f][i], g.args) : ~Nested(asked[1], asked[2])

(* On nothing else does the generator panic: not in the first compilation  *)
(* and not with a standard library that others have used before; and on    *)
(* nested instances only if the outer one is asked for first.              *)
CrashesAreJustified == status = "crashed" => ~Plain

(* "Generic type instances are considered entirely different"              *)
(* (docs/src/generics.md): an instance belongs to one choice of arguments, *)
(* so none of them holds a type parameter that could still be anything.    *)
InstancesAreDistinct ==
    \A f \in Functions : \A args \in DOMAIN ir[f] : \A i \in DOMAIN args :
        args[i].k = "adt" =>
            \A j \in DOMAIN args[i].args : args[i].args[j].k # "var"

Mono == INSTANCE Monomorphisation WITH program <- program,
                                      generated <- generated,
                                      status <- status
(* The generator does what Monomorphisation promises, and ends.            *)
MonoSpec == Mono!AbsSpec
=============================================================================
