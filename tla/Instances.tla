----------------------------- MODULE Instances -----------------------------
(***************************************************************************)
(* What the IR generator of gelixrs works on: types, functions and ADTs    *)
(* that may have type parameters, and the instances of functions a program *)
(* asks for.  A type parameter is its index; an instance is a function     *)
(* together with the type arguments it is generated for.                   *)
(***************************************************************************)
EXTENDS Integers, Sequences, FiniteSets

CONSTANTS
    Types,        \* the types that occur, in declarations and as arguments
    Functions,    \* the functions of the program and of the standard library
    Generic,      \* the functions and ADTs with type parameters
    Signature,    \* function -> the types of its parameters and its result
    Layout,       \* ADT -> the types its structure is made of
    Impls,        \* type -> the method that implements the bound for it
    SizeOf, FreeType,  \* gelixrs_get_type_size and gelixrs_free_type
    FreeInstance, \* ADT -> its method free-instance
    Required,     \* Intrinsics.required_compile_fns, in order
    Programs      \* the programs: function -> what its body asks for

ADTs == DOMAIN Layout

Base(name)   == [k |-> "base", name |-> name]
NoneType     == Base("none")
Var(i)       == [k |-> "var", i |-> i]
RawPtr(of)   == [k |-> "ptr", of |-> of]
Adt(a, args) == [k |-> "adt", a |-> a, args |-> args]

(* What the expressions of a body ask the generator for: a function, the   *)
(* LLVM type of something, the method of a type parameter's bound.         *)
Callee(f, args) == [op |-> "call", f |-> f, args |-> args]
TypeOf(t)       == [op |-> "type", t |-> t]
BoundMethod(i)  == [op |-> "bound", i |-> i]
Items == [op: {"call"}, f: Functions, args: Seq(Types)]
         \cup [op: {"type"}, t: Types] \cup [op: {"bound"}, i: Nat \ {0}]

(* A type is made of types.  Replacing type parameters adds none, since it *)
(* stops at a parameter.                                                   *)
ASSUME TypesAssumption ==
    /\ NoneType \in Types
    /\ \A t \in Types : /\ t.k = "ptr" => t.of \in Types
                        /\ t.k = "adt" => t.a \in ADTs /\ t.args \in Seq(Types)

ASSUME DeclarationsAssumption ==
    /\ Required \in Seq(Functions)
    /\ Signature \in [Functions -> Seq(Types)]
    /\ Layout \in [ADTs -> Seq(Types)]
    /\ \A t \in DOMAIN Impls : Impls[t] \in Functions

(* A body refers to type parameters of its own function only              *)
(* (search_type_param), and of these an expression may need the bound's    *)
(* method.                                                                 *)
ASSUME ProgramsAssumption ==
    /\ Programs \subseteq [Functions -> Seq(Items)]
    /\ \A p \in Programs : \A f \in Functions \ Generic : \A i \in DOMAIN p[f] :
           /\ p[f][i].op # "bound"
           /\ p[f][i].op = "call" =>
                  \A j \in DOMAIN p[f][i].args : p[f][i].args[j].k # "var"

(* The two intrinsics take their type argument from whoever refers to them.*)
ASSUME IntrinsicsAssumption ==
    LET intrinsics == {SizeOf, FreeType} IN
    /\ intrinsics \subseteq Functions \cap Generic
    /\ \A t \in DOMAIN Impls : Impls[t] \notin intrinsics
    /\ \A p \in Programs : \A f \in Functions : \A i \in DOMAIN p[f] :
           p[f][i].op = "call" /\ p[f][i].f \in intrinsics => p[f][i].args # <<>>

(* IRAdapter: one slot for a function without type parameters, whatever    *)
(* the arguments.                                                          *)
Slot(f, args) == IF f \in Generic THEN args ELSE <<>>
Instance(f, args) == [f |-> f, args |-> Slot(f, args)]

(* maybe_unwrap_var: only a type that is a parameter itself is replaced.   *)
Resolve(t, args) == IF t.k # "var" THEN t
                    ELSE IF t.i \in DOMAIN args THEN args[t.i] ELSE NoneType
ResolveAll(types, args) == [i \in DOMAIN types |-> Resolve(types[i], args)]

(* The instances that the body of an instance refers to.                   *)
References(program, inst) ==
    LET body == program[inst.f] IN
    {Instance(body[i].f, ResolveAll(body[i].args, inst.args)) :
        i \in {j \in DOMAIN body : body[j].op = "call"}}
    \cup {Instance(Impls[inst.args[body[i].i]], <<>>) :
        i \in {j \in DOMAIN body : /\ body[j].op = "bound"
                                   /\ body[j].i \in DOMAIN inst.args
                                   /\ inst.args[body[j].i] \in DOMAIN Impls}}

RequiredInstances == {Instance(Required[i], <<>>) : i \in DOMAIN Required}
=============================================================================
