----------------------------- MODULE IfaceImpls -----------------------------
(***************************************************************************)
(* The registry of interface implementations, over a session of            *)
(* compilations: declare_impl (passes/declare.rs), fill_impls_             *)
(* (passes/methods.rs), generate_impl (passes/generate.rs) and the life of *)
(* a generator (lib.rs), run after run as the end-to-end test runner does  *)
(* it (e2etest/src/test.rs), with or without a standard library that was   *)
(* compiled once and is shared by all runs.                                *)
(*                                                                         *)
(* The registry maps a type to a reference-counted cell.  Cloning the map, *)
(* as with_cached_std does, does not clone the cells: they are modelled as *)
(* a heap, the maps as functions into it.                                  *)
(***************************************************************************)
EXTENDS Naturals, Sequences, FiniteSets

CONSTANTS
  StdNames,     \* the primitive types, and the types and interfaces of std
  OwnNames,     \* types and interfaces that a program may declare
  IfaceNames,   \* those of the names that are interfaces
  Methods,      \* method names
  Required,     \* Required[i]: the methods that interface i declares
  StdImpls,     \* the impl blocks of std
  Programs,     \* the programs that may be compiled
  MaxCompilations, \* bound: programs compiled in one session
  LookedUp,     \* bound: the types whose impls generated code may ask for
  None          \* Option::None

Names == StdNames \cup OwnNames

ImplAst == [type: Names, iface: Names, methods: Seq(Methods)]

(* panics: generating the program's own code hits a panic.                 *)
Program == [impls: Seq(ImplAst), panics: BOOLEAN]

ASSUME NamesAreSplit == /\ StdNames \cap OwnNames = {}
                        /\ IfaceNames \subseteq Names
                        /\ Required \in [IfaceNames -> SUBSET Methods]
                        /\ IsFiniteSet(Methods)
ASSUME ImplsAreAsts  == /\ StdImpls \in Seq(ImplAst)
                        /\ Programs \subseteq Program
(* std is compiled before and without the programs.                        *)
ASSUME StdIsClosed   == \A j \in DOMAIN StdImpls :
                          {StdImpls[j].type, StdImpls[j].iface} \subseteq StdNames
ASSUME SessionBound  == MaxCompilations \in Nat /\ LookedUp \subseteq Names

(* Compilation 0 is that of std alone, the others are those of a program.  *)
Compilations == 0..MaxCompilations

(* A type as the compiler knows it: a program's own types are new in every *)
(* compilation, as are std's when std is compiled again with the program.  *)
Type == [name: Names, of: Compilations]
Interface == [name: IfaceNames, of: Compilations]
Impl == [module: Compilations, wants: Seq(Methods), methods: SUBSET Methods]

(* A method's function, given the cell it is found in and its name.        *)
Fn   == [module: Compilations, iface: Interface]
IFaceImpls == [implementor: Type, interfaces: [Interface -> Impl \cup {None}],
               methods: [Methods -> Fn \cup {None}]]

ASSUME NoneIsNothing == None \notin Impl \cup Fn \cup Nat

VARIABLES
  cached,      \* std is compiled once for all programs (no --no-cache)
  past,        \* the programs of the session so far, the current one last
  phase,       \* what the current compilation does
  item,        \* next impl block to declare
  cells,       \* the heap of IFaceImpls
  iface_impls, \* GIRGenerator.iface_impls: the registry of this compilation
  std_impls,   \* CompiledGIR.iface_impls of the cached std, None before
  compiled,    \* compilations whose modules are marked compiled
  lifecycle,   \* compilations whose ADTs have their lifecycle methods
  todo,        \* cells the current pass still has to visit
  filling,     \* the cell fill_impls_ is working on, None between calls
  left,        \* interfaces of that cell still to be handled
  methods,     \* the local variable of fill_impls_
  generated,   \* the compilations whose impl methods this one generated
  errors

session == <<cached, past, cells, std_impls, compiled, lifecycle>>
fill    == <<filling, left, methods>>
vars == <<cached, past, phase, item, cells, iface_impls, std_impls, compiled,
          lifecycle, todo, fill, generated, errors>>

Phases == {"idle", "declare", "fill", "generate"}

cur == Len(past)
CurImpls == IF cur = 0 THEN StdImpls
            ELSE IF cached THEN past[cur].impls
            ELSE StdImpls \o past[cur].impls

TypeOf(c, n) == [name |-> n, of |-> IF cached /\ n \in StdNames THEN 0 ELSE c]

(* The types the current compilation can name.                             *)
Visible == {TypeOf(cur, n) : n \in IF cur = 0 THEN StdNames ELSE Names}

Err(code, t, i, m) == [code |-> code, type |-> t, iface |-> i, method |-> m]
GirError == [code: {"E306", "E307", "E313", "E314"}, type: Type, iface: Type,
             method: Methods \cup {None}]

NoTypes   == [t \in Type |-> None]
NoImpls   == [i \in Interface |-> None]
NoMethods == [m \in Methods |-> None]

-----------------------------------------------------------------------------
Init ==
  /\ cached \in BOOLEAN
  /\ past = <<>>
  /\ phase = "idle"
  /\ item = 1
  /\ cells = <<>>
  /\ iface_impls = NoTypes
  /\ std_impls = None
  /\ compiled = {}
  /\ lifecycle = {}
  /\ todo = {}
  /\ filling = None
  /\ left = {}
  /\ methods = NoMethods
  /\ generated = {}
  /\ errors = {}

Start(registry) ==
  /\ phase = "idle"
  /\ phase' = "declare"
  /\ item' = 1
  /\ iface_impls' = registry
  /\ generated' = {}
  /\ errors' = {}
  /\ UNCHANGED <<cached, cells, std_impls, compiled, lifecycle, todo, fill>>

(* maybe_compile_stdlib: before the first program.  (A std that does not   *)
(* compile fails every program in the same way: such a session stops.)     *)
CompileStd == /\ cached /\ std_impls = None
              /\ 0 \notin compiled
              /\ Start(NoTypes)
              /\ UNCHANGED past

(* GIRGenerator::new, or with_cached_std: the cached registry's cells are  *)
(* shared, not copied.                                                     *)
FirstRegistry == IF cached THEN std_impls ELSE NoTypes

Compile(p) == /\ cached => std_impls # None
              /\ cur < MaxCompilations
              /\ past' = Append(past, p)
              /\ Start(FirstRegistry)

-----------------------------------------------------------------------------
(* declare_impl                                                            *)

(* Mutant: types are told apart by their names.                            *)
CellOfByName(t) ==
  IF \E k \in DOMAIN cells : cells[k].implementor.name = t.name
  THEN CHOOSE k \in DOMAIN cells : cells[k].implementor.name = t.name
  ELSE Len(cells) + 1

(* get_iface_impls: the type's cell, made when there is none.              *)
CellOf(t) == IF iface_impls[t] = None THEN Len(cells) + 1 ELSE iface_impls[t]

WithCell(t) ==
  IF iface_impls[t] # None THEN cells
  ELSE Append(cells, [implementor |-> t, interfaces |-> NoImpls,
                      methods |-> NoMethods])

NotAnInterface(ast) ==
  /\ ast.iface \notin IfaceNames
  /\ errors' = errors \cup
       {Err("E307", TypeOf(cur, ast.type), TypeOf(cur, ast.iface), None)}
  /\ UNCHANGED <<cells, iface_impls>>

AlreadyDefined(t, i) == WithCell(t)[CellOf(t)].interfaces[i] # None

InsertImpl(ast) ==
  LET t == TypeOf(cur, ast.type)
      i == TypeOf(cur, ast.iface)
  IN  /\ ast.iface \in IfaceNames
      /\ iface_impls' = [iface_impls EXCEPT ![t] = CellOf(t)]
      /\ cells' = [WithCell(t) EXCEPT ![CellOf(t)].interfaces[i] =
           [module |-> cur, wants |-> ast.methods, methods |-> {}]]
      /\ errors' = errors \cup
           IF AlreadyDefined(t, i) THEN {Err("E306", t, i, None)} ELSE {}

DeclareImpl ==
  /\ phase = "declare"
  /\ item <= Len(CurImpls)
  /\ NotAnInterface(CurImpls[item]) \/ InsertImpl(CurImpls[item])
  /\ item' = item + 1
  /\ UNCHANGED <<cached, past, phase, std_impls, compiled, lifecycle, todo,
                 fill, generated>>

Registered == {iface_impls[t] : t \in Type} \ {None}

DeclareImpls ==
  /\ phase = "declare"
  /\ item > Len(CurImpls)
  /\ phase' = "fill"
  /\ todo' = Registered
  /\ UNCHANGED <<session, item, iface_impls, fill, generated, errors>>

-----------------------------------------------------------------------------
(* fill_impls, fill_impls_                                                 *)

(* Mutant: impls of precompiled modules are compiled once more.            *)
UncompiledAll(k) == {i \in Interface : cells[k].interfaces[i] # None}

Uncompiled(k) == {i \in Interface :
                    /\ cells[k].interfaces[i] # None
                    /\ cells[k].interfaces[i].module \notin compiled}

(* The cells come in the order of a hash map, as do the interfaces of one. *)
FillImpls(k) ==
  /\ phase = "fill"
  /\ filling = None
  /\ k \in todo
  /\ filling' = k
  /\ left' = Uncompiled(k)
  /\ methods' = NoMethods
  /\ todo' = todo \ {k}
  /\ UNCHANGED <<session, phase, item, iface_impls, generated, errors>>

Occurrences(seq, m) == Cardinality({j \in DOMAIN seq : seq[j] = m})

(* The number of the interface's methods; once its lifecycle methods are   *)
(* declared, new-instance, free-instance and copy-instance are among them. *)
IfaceMethodLen(i) == Cardinality(Required[i.name]) +
                     IF i.of \in lifecycle THEN 3 ELSE 0

(* Mutant: no correction for the lifecycle methods.                        *)
WantedLenUncorrected(i) == IfaceMethodLen(i)

(* Mutant: a correction for interfaces that have none yet, too.            *)
WantedLenOvercorrected(i) == IfaceMethodLen(i) - 3

WantedLen(i) == IfaceMethodLen(i) - IF i.of \in compiled THEN 3 ELSE 0

(* Mutant: the methods another interface also gives the type stay.         *)
ToggledKeepsFirst(impl, m) == TRUE

(* Each definition of a method enters its name in the table if it is not   *)
(* there, and removes it if it is.  Is it there in the end?                *)
Toggled(impl, m) ==
  (methods[m] # None) # (Occurrences(impl.wants, m) % 2 = 1)

FillImpl(i) ==
  LET impl  == cells[filling].interfaces[i]
      has   == {m \in Methods : Occurrences(impl.wants, m) > 0}
      known == has \cap Required[i.name]
      other == has \ Required[i.name]
      type  == cells[filling].implementor
  IN  /\ filling # None
      /\ i \in left
      /\ left' = left \ {i}
      /\ cells' = [cells EXCEPT
           ![filling].interfaces[i].methods = @ \cup known]
      /\ methods' = [m \in Methods |->
           IF m \notin known THEN methods[m]
           ELSE IF Toggled(impl, m)
           THEN [module |-> impl.module, iface |-> i]
           ELSE None]
      /\ errors' = errors \cup {Err("E313", type, i, m) : m \in other} \cup
           IF WantedLen(i) > Cardinality(impl.methods \cup known)
           THEN {Err("E314", type, i, None)} ELSE {}
      /\ UNCHANGED <<cached, past, phase, item, iface_impls, std_impls,
                     compiled, lifecycle, todo, filling, generated>>

(* impls.methods = methods: all of the table is replaced.                  *)
FilledImpls ==
  /\ filling # None
  /\ left = {}
  /\ cells' = [cells EXCEPT ![filling].methods = methods]
  /\ filling' = None
  /\ UNCHANGED <<cached, past, phase, item, iface_impls, std_impls, compiled,
                 lifecycle, todo, left, methods, generated, errors>>

(* The rest of stage 2 declares the lifecycle methods.                     *)
EndFill ==
  /\ phase = "fill"
  /\ filling = None
  /\ todo = {}
  /\ phase' = "generate"
  /\ lifecycle' = lifecycle \cup {cur}
  /\ todo' = Registered
  /\ UNCHANGED <<cached, past, item, cells, iface_impls, std_impls, compiled,
                 fill, generated, errors>>

-----------------------------------------------------------------------------
(* generate_impls and the end of a compilation                             *)

GenerateImpl(k) ==
  /\ phase = "generate"
  /\ k \in todo
  /\ todo' = todo \ {k}
  /\ generated' = generated \cup
       {cells[k].interfaces[i].module : i \in
          {u \in Uncompiled(k) : cells[k].interfaces[u].methods # {}}}
  /\ UNCHANGED <<session, phase, item, iface_impls, fill, errors>>

(* Code being generated asks for the impls of some type: to cast a value,  *)
(* to call a method or an operator, to free it.  Asking makes the cell.    *)
Lookup(t) ==
  /\ phase = "generate"
  /\ t \in Visible
  /\ t.name \in LookedUp
  /\ iface_impls[t] = None
  /\ cells' = WithCell(t)
  /\ iface_impls' = [iface_impls EXCEPT ![t] = CellOf(t)]
  /\ UNCHANGED <<cached, past, phase, item, std_impls, compiled, lifecycle,
                 todo, fill, generated, errors>>

Panics == IF cur = 0 THEN FALSE ELSE past[cur].panics

(* consume: all modules of this compilation are marked compiled, whether   *)
(* or not there were errors.  The runner keeps what std's compilation      *)
(* returned.                                                               *)
Consume ==
  /\ phase = "generate"
  /\ todo = {}
  /\ ~Panics
  /\ phase' = "idle"
  /\ compiled' = compiled \cup {cur}
  /\ std_impls' = IF cur = 0 /\ errors = {} THEN iface_impls ELSE std_impls
  /\ UNCHANGED <<cached, past, item, cells, iface_impls, lifecycle, todo,
                 fill, generated, errors>>

(* The runner catches the panic and goes on with the next program: no      *)
(* module of this compilation is marked.                                   *)
Panic ==
  /\ phase = "generate"
  /\ Panics
  /\ phase' = "idle"
  /\ todo' = {}
  /\ UNCHANGED <<session, item, iface_impls, fill, generated, errors>>

Next ==
  \/ CompileStd
  \/ \E p \in Programs : Compile(p)
  \/ DeclareImpl
  \/ DeclareImpls
  \/ \E k \in DOMAIN cells : FillImpls(k)
  \/ \E i \in left : FillImpl(i)
  \/ FilledImpls
  \/ EndFill
  \/ \E k \in DOMAIN cells : GenerateImpl(k)
  \/ \E t \in Visible : Lookup(t)
  \/ Consume
  \/ Panic

Spec == Init /\ [][Next]_vars

-----------------------------------------------------------------------------
(* Properties.                                                             *)

(* Every variable holds values of its type, and the registries point into  *)
(* the heap, at the cell of the type they are asked for.                   *)
Registry == [Type -> Nat \cup {None}]
PointsTo(registry) == \A t \in Type : registry[t] # None =>
                        /\ registry[t] \in 1..Len(cells)
                        /\ cells[registry[t]].implementor = t

TypeOK ==
  /\ cached \in BOOLEAN
  /\ past \in Seq(Program) /\ Len(past) <= MaxCompilations
  /\ phase \in Phases
  /\ item \in Nat \ {0}
  /\ cells \in Seq(IFaceImpls)
  /\ iface_impls \in Registry /\ PointsTo(iface_impls)
  /\ std_impls \in Registry \cup {None}
  /\ std_impls # None => PointsTo(std_impls)
  /\ compiled \subseteq Compilations
  /\ lifecycle \subseteq Compilations
  /\ todo \subseteq 1..Len(cells)
  /\ filling \in 1..Len(cells) \cup {None}
  /\ left \subseteq Interface
  /\ methods \in [Methods -> Fn \cup {None}]
  /\ generated \subseteq Compilations
  /\ errors \subseteq GirError

(* A compilation that reports nothing generates, for every impl block of   *)
(* its own, all methods the interface requires.                            *)
ImplsComplete ==
  (phase = "generate" /\ errors = {}) =>
    \A k \in Registered, i \in Interface :
      LET impl == cells[k].interfaces[i]
      IN  (impl # None /\ impl.module = cur) => impl.methods = Required[i.name]

(* A type that a compilation declares never carries an impl of another     *)
(* compilation, and no type carries one of an interface of another: what   *)
(* leaks through the shared cells concerns std's types alone.              *)
Isolated(k) ==
  \A i \in Interface : LET impl == cells[k].interfaces[i] IN
    impl # None => /\ cells[k].implementor.of \in {0, impl.module}
                   /\ i.of \in {0, impl.module}

OwnTypesIsolated == \A k \in DOMAIN cells : Isolated(k)

(* What a compilation of std's impl blocks and the program's, together and *)
(* from nothing, comes to: the last impl block of a pair counts.           *)
AllImpls == IF cur = 0 \/ ~cached THEN CurImpls
            ELSE StdImpls \o past[cur].impls
ModuleOf(j) == IF cached /\ j <= Len(StdImpls) THEN 0 ELSE cur

SamePair(j, k) == /\ AllImpls[j].type = AllImpls[k].type
                  /\ AllImpls[j].iface = AllImpls[k].iface
Valid(j) == AllImpls[j].iface \in IfaceNames
Blocks == {j \in DOMAIN AllImpls : Valid(j)}
Effective == {j \in Blocks : \A k \in Blocks : SamePair(j, k) => k <= j}

Needs(j) == Required[AllImpls[j].iface]
Has(j)   == {AllImpls[j].methods[x] : x \in DOMAIN AllImpls[j].methods}
ErrOf(code, j, m) == Err(code, TypeOf(cur, AllImpls[j].type),
                         TypeOf(cur, AllImpls[j].iface), m)

FreshErrors ==
  {ErrOf("E307", j, None) : j \in DOMAIN AllImpls \ Blocks}
  \cup {ErrOf("E306", j, None) : j \in Blocks \ Effective}
  \cup {ErrOf("E313", jm[1], jm[2]) :
          jm \in {x \in Effective \X Methods : x[2] \in Has(x[1]) \ Needs(x[1])}}
  \cup {ErrOf("E314", j, None) :
          j \in {x \in Effective : ~(Needs(x) \subseteq Has(x))}}

FreshModule(t, i) ==
  LET js == {j \in Effective : /\ TypeOf(cur, AllImpls[j].type) = t
                               /\ TypeOf(cur, AllImpls[j].iface) = i}
  IN  IF js = {} THEN None ELSE ModuleOf(CHOOSE j \in js : TRUE)

FoundModule(t, i) ==
  IF iface_impls[t] = None THEN None
  ELSE LET impl == cells[iface_impls[t]].interfaces[i]
       IN  IF impl = None THEN None ELSE impl.module

(* An earlier program can disturb a later one only by implementing one of  *)
(* std's interfaces for one of std's types, or by a panic after            *)
(* implementing anything for such a type.                                  *)
Undisturbed ==
  \A c \in 1..(cur - 1) : \A j \in DOMAIN past[c].impls :
    LET ast == past[c].impls[j]
    IN  ast.type \in StdNames =>
          /\ ast.iface \notin StdNames \cap IfaceNames
          /\ ~past[c].panics

(* GIRFlags::cached_std saves compiling std again and nothing else: unless *)
(* disturbed, a compilation reports the same errors, and finds the same    *)
(* impls for every pair of type and interface it can name, as one that     *)
(* compiles std along with the program.                                    *)
CachedCompilesLikeFresh ==
  (phase = "generate" /\ (cached => Undisturbed)) =>
    /\ errors = FreshErrors
    /\ \A t \in Visible, i \in Visible \cap Interface :
         FoundModule(t, i) = FreshModule(t, i)

(* No earlier program panicked that had an impl block for one of std's     *)
(* types: what such a program leaves in a shared cell is never marked      *)
(* compiled.                                                               *)
Unbroken ==
  \A c \in 1..(cur - 1) : past[c].panics =>
    \A j \in DOMAIN past[c].impls : past[c].impls[j].type \notin StdNames

(* With or without a cached std, whatever earlier programs implemented for *)
(* its types, only modules of the running compilation are generated.  What *)
(* is excluded are sessions with a cached std in which an earlier program  *)
(* panicked that had an impl block for one of std's types.                 *)
OnlyOwnModulesGenerated ==
  (cached => Unbroken) => generated \subseteq {cur}

(* Definition x of block j, of std or the program, gives type t method m.  *)
Claim(t, m, j, x) ==
  /\ j \in Effective
  /\ TypeOf(cur, AllImpls[j].type) = t
  /\ x \in DOMAIN AllImpls[j].methods /\ AllImpls[j].methods[x] = m
  /\ m \in Needs(j)

Claims(t, m) == {c \in UNION {{j} \X DOMAIN AllImpls[j].methods : j \in Blocks} :
                   Claim(t, m, c[1], c[2])}

(* Every definition of the name for the type is compiled now.              *)
CompiledNow(t, m) == \A c \in Claims(t, m) : ModuleOf(c[1]) = cur

(* The names in a type's method table: of the names that have at most two  *)
(* definitions for the type, none of them in a std compiled before, the    *)
(* table has exactly those defined once.  Sessions that are not Unbroken   *)
(* are excluded; what a std compiled before gives its types is the concern *)
(* of StdMethodsFound.                                                     *)
MethodsComplete ==
  (phase = "generate" /\ (cached => Unbroken)) =>
    \A t \in Visible, m \in Methods :
      (/\ iface_impls[t] # None
       /\ CompiledNow(t, m) /\ Cardinality(Claims(t, m)) <= 2) =>
        ((cells[iface_impls[t]].methods[m] # None)
           <=> Cardinality(Claims(t, m)) = 1)

(* tests/enums/methods.gel and others call a method that std implements    *)
(* for a primitive type and expect it to be found: a method that std alone *)
(* gives a type is in the type's table in every compilation.               *)
StdMethodsFound ==
  (phase = "generate" /\ cur > 0 /\ past[cur].impls = <<>>) =>
    \A j \in DOMAIN StdImpls : \A x \in DOMAIN StdImpls[j].methods :
      LET t == TypeOf(cur, StdImpls[j].type)
      IN  /\ iface_impls[t] # None
          /\ cells[iface_impls[t]].methods[StdImpls[j].methods[x]] # None
=============================================================================
