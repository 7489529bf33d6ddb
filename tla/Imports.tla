------------------------------ MODULE Imports ------------------------------
(***************************************************************************)
(* Name declaration and import resolution of the GIR generator: the first  *)
(* stage of GIRGenerator::run_passes (gir-generator/src/passes/mod.rs)     *)
(* with the passes of declare.rs and import.rs, over the module tables of  *)
(* gir-nodes/src/module.rs.                                                *)
(*                                                                         *)
(* A pass visits the modules one by one, in the order the parse stage read *)
(* them from the file system; a module's AST items (classes, imports,      *)
(* functions, left-over imports) are handled one by one.  One step of this *)
(* specification handles one item, or finishes one module.                 *)
(***************************************************************************)
EXTENDS Naturals, Sequences, FiniteSets

CONSTANTS
  Modules,      \* all modules of the compilation
  Names,        \* identifiers of global declarations
  Programs,     \* the ASTs considered: functions from Modules to ModuleAst
  Orders,       \* the orders in which modules_uncompiled may list Modules
  Prelude,      \* the module std/prelude, None when the flag no_prelude is set
  PreludeExempt,\* modules for which path.is(["std", "prelude"]) answers true
  Main,         \* the identifier "main"
  Library,      \* GIRFlags::library
  NoModule,     \* a path that names no module
  Glob,         \* the symbol "+" of an import
  None,         \* Option::None
  Overflow      \* the answer of a lookup that exhausts the stack

(* A global declaration: where it was declared, its name, what it is.      *)
Declaration == [home: Modules, name: Names, kind: {"adt", "function"}]

ImportAst == [src: Modules \cup {NoModule}, symbol: Names \cup {Glob},
              is_export: BOOLEAN]

(* A function's signature mentions at most one type, by name.              *)
FunctionAst == [name: Names, sig: Names \cup {None}]

ModuleAst == [adts: Seq(Names), imports: Seq(ImportAst),
              functions: Seq(FunctionAst)]

ASSUME ProgramsAreAsts == Programs \subseteq [Modules -> ModuleAst]
ASSUME OrdersAreLists  ==
  \A o \in Orders : /\ o \in Seq(Modules)
                    /\ Len(o) > 0
                    /\ \A m \in Modules : \E i \in DOMAIN o : o[i] = m
                    /\ \A i, j \in DOMAIN o : o[i] = o[j] => i = j
ASSUME PreludeIsModule == /\ Prelude \in Modules \cup {None}
                          /\ PreludeExempt \subseteq Modules
ASSUME LibraryIsFlag   == Library \in BOOLEAN
ASSUME SpecialValues   == /\ NoModule \notin Modules
                          /\ Glob \notin Names
                          /\ None \notin Declaration
                          /\ None \notin Names
                          /\ None \notin Modules
                          /\ Overflow \notin Declaration
                          /\ Overflow # None

VARIABLES
  prog,           \* the AST being compiled
  order,          \* modules_uncompiled
  pass,           \* the pass being run, or how the compilation ended
  turn,           \* index in order of the module the pass is visiting
  item,           \* index of the next AST item of that module
  declarations,   \* Module.declarations
  import_decls, import_modules,  \* Module.imports.{decls, modules}
  export_decls, export_modules,  \* Module.exports.{decls, modules}
  unresolved,     \* Module.imports.unresolved
  used_names,     \* Module.used_names
  main_fn,        \* Intrinsics.main_fn: the module whose main was taken
  errors          \* the errors reported

tables == <<declarations, import_decls, import_modules,
            export_decls, export_modules>>
vars == <<prog, order, pass, turn, item, tables, unresolved, used_names,
          main_fn, errors>>

Passes == {"declare_adts", "import_stage_1", "declare_functions",
           "import_stage_2"}
(* "done": the stage ended (with or without reported errors);              *)
(* "panic": a RefCell was borrowed twice; "overflow": unbounded recursion. *)
Ended  == {"done", "panic", "overflow"}

Codes == {"E100", "E101", "E102", "E103", "E300", "E301", "E305"}
GirError == [code: Codes, at: Modules \cup {None},
             name: Names \cup {Glob, None}]
Err(c, m, n) == [code |-> c, at |-> m, name |-> n]

Cur == order[turn]

-----------------------------------------------------------------------------
(* Lookups.                                                                *)

(* What "find_map" takes from the modules listed: the answer of the first  *)
(* one that has an answer.                                                 *)
FirstAnswer(mods, answer) ==
  LET hits == {i \in DOMAIN mods : answer[mods[i]] # None}
  IN  IF hits = {} THEN None
      ELSE answer[mods[CHOOSE i \in hits : \A j \in hits : i <= j]]

(* Mutant: the lookup on behalf of another module also goes through the    *)
(* imports.                                                                *)
FindImportThroughImports(m, n) ==
  LET find[d \in 0..Cardinality(Modules)] ==
        [s \in Modules |->
          IF declarations[s][n] # None THEN declarations[s][n]
          ELSE IF d = 0 THEN Overflow
          ELSE FirstAnswer(export_modules[s] \o import_modules[s], find[d - 1])]
  IN  find[Cardinality(Modules)][m]

(* Module::find_import: the module's own declarations, then its exports:   *)
(* the declarations exported by name, then the modules exported by "+",    *)
(* recursively.  A chain of calls longer than the number of modules has    *)
(* come back to a module it was already asking and, since a lookup changes *)
(* nothing, goes on until the stack is exhausted.                          *)
FindImport(m, n) ==
  LET find[d \in 0..Cardinality(Modules)] ==
        [s \in Modules |->
          IF declarations[s][n] # None THEN declarations[s][n]
          ELSE IF export_decls[s][n] # None THEN export_decls[s][n]
          ELSE IF d = 0 THEN Overflow
          ELSE FirstAnswer(export_modules[s], find[d - 1])]
  IN  find[Cardinality(Modules)][m]

(* Module::find_decl: what code inside the module sees.                    *)
FindDecl(m, n) ==
  LET own == FindImport(m, n)
  IN  IF own # None THEN own
      ELSE IF import_decls[m][n] # None THEN import_decls[m][n]
      ELSE FirstAnswer(import_modules[m],
                       [s \in Modules |-> FindImport(s, n)])

-----------------------------------------------------------------------------
(* Initial state and the helpers of the passes.                            *)

NoDecls == [m \in Modules |-> [n \in Names |-> None]]
NoList  == [m \in Modules |-> <<>>]

Init ==
  /\ prog \in Programs
  /\ order \in Orders
  /\ pass = "declare_adts"
  /\ turn = 1
  /\ item = 1
  /\ declarations = NoDecls
  /\ import_decls = NoDecls
  /\ import_modules = NoList
  /\ export_decls = NoDecls
  /\ export_modules = NoList
  /\ unresolved = NoList
  /\ used_names = [m \in Modules |-> {}]
  /\ main_fn = None
  /\ errors = {}

(* Mutant: a second insert of a name into used_names goes unnoticed.       *)
CollisionsUnnoticed(m, ns) == {}

(* The errors of reserving the names ns in module m.                       *)
Collisions(m, ns) == {Err("E100", m, n) : n \in ns \cap used_names[m]}

(* try_reserve_name, for each of the names ns: a name already in use is    *)
(* reported and the caller goes on.                                        *)
Reserve(m, ns) ==
  /\ used_names' = [used_names EXCEPT ![m] = @ \cup ns]
  /\ errors' = errors \cup Collisions(m, ns)

(* Mutants: an export is entered among the imports.                        *)
InsertDeclAsImport(m, is_export, n, d) ==
  /\ import_decls' = [import_decls EXCEPT ![m][n] = d]
  /\ UNCHANGED export_decls

PushModuleAsImport(m, is_export, src) ==
  /\ import_modules' = [import_modules EXCEPT ![m] = Append(@, src)]
  /\ UNCHANGED export_modules

(* get_imports(module, is_export).decls.insert(name, decl)                 *)
InsertDecl(m, is_export, n, d) ==
  IF is_export
  THEN /\ export_decls' = [export_decls EXCEPT ![m][n] = d]
       /\ UNCHANGED import_decls
  ELSE /\ import_decls' = [import_decls EXCEPT ![m][n] = d]
       /\ UNCHANGED export_decls

(* get_imports(module, is_export).modules.push(src)                        *)
PushModule(m, is_export, src) ==
  IF is_export
  THEN /\ export_modules' = [export_modules EXCEPT ![m] = Append(@, src)]
       /\ UNCHANGED import_modules
  ELSE /\ import_modules' = [import_modules EXCEPT ![m] = Append(@, src)]
       /\ UNCHANGED export_modules

NextItem == item' = item + 1 /\ UNCHANGED <<pass, turn>>

(* Mutant: the pass runs past the last module.                             *)
NextModulePastEnd(next) ==
  /\ item' = 1
  /\ IF turn <= Len(order) THEN turn' = turn + 1 /\ UNCHANGED pass
                           ELSE turn' = 1 /\ pass' = next

(* run_mod / run_ast: the next module of this pass, or the next pass.      *)
NextModule(next) ==
  /\ item' = 1
  /\ IF turn < Len(order) THEN turn' = turn + 1 /\ UNCHANGED pass
                          ELSE turn' = 1 /\ pass' = next

Crash(how) ==
  /\ pass' = how
  /\ UNCHANGED <<prog, order, turn, item, tables, unresolved, used_names,
                 main_fn, errors>>

UsesPrelude(m) == Prelude # None /\ m \notin PreludeExempt

-----------------------------------------------------------------------------
(* declare_adts                                                            *)

DeclareAdt ==
  /\ pass = "declare_adts"
  /\ item <= Len(prog[Cur].adts)
  /\ LET name == prog[Cur].adts[item]
     IN  /\ Reserve(Cur, {name})
         /\ declarations' = [declarations EXCEPT ![Cur][name] =
              [home |-> Cur, name |-> name, kind |-> "adt"]]
  /\ NextItem
  /\ UNCHANGED <<prog, order, import_decls, import_modules, export_decls,
                 export_modules, unresolved, main_fn>>

EndDeclareAdts ==
  /\ pass = "declare_adts"
  /\ item > Len(prog[Cur].adts)
  /\ NextModule("import_stage_1")
  /\ UNCHANGED <<prog, order, tables, unresolved, used_names, main_fn, errors>>

-----------------------------------------------------------------------------
(* import_stage_1                                                          *)

Importing(imp) ==
  /\ pass = "import_stage_1"
  /\ item <= Len(prog[Cur].imports)
  /\ imp = prog[Cur].imports[item]

(* Mutant: an import of an unknown module is skipped without a report.     *)
ImportUnknownModuleSilently(imp) ==
  /\ imp.src \notin Modules
  /\ NextItem
  /\ UNCHANGED <<prog, order, tables, unresolved, used_names, main_fn, errors>>

(* find_module finds nothing.                                              *)
ImportUnknownModule(imp) ==
  /\ imp.src \notin Modules
  /\ errors' = errors \cup {Err("E102", Cur, imp.symbol)}
  /\ NextItem
  /\ UNCHANGED <<prog, order, tables, unresolved, used_names, main_fn>>

(* src_module stays borrowed while the importing module is borrowed        *)
(* mutably: for one and the same module that is a BorrowMutError.          *)
ImportSelf(imp) ==
  /\ imp.src = Cur
  /\ imp.symbol = Glob \/ FindImport(Cur, imp.symbol) # Overflow
  /\ Crash("panic")

Defer(imp) == unresolved' = [unresolved EXCEPT ![Cur] = Append(@, imp)]

ImportGlob(imp) ==
  /\ imp.src \in Modules \ {Cur}
  /\ imp.symbol = Glob
  /\ PushModule(Cur, imp.is_export, imp.src)
  /\ Defer(imp)
  /\ NextItem
  /\ UNCHANGED <<prog, order, declarations, import_decls, export_decls,
                 used_names, main_fn, errors>>

ImportFound(imp) ==
  /\ imp.src \in Modules \ {Cur}
  /\ imp.symbol \in Names
  /\ LET decl == FindImport(imp.src, imp.symbol)
     IN  /\ decl \in Declaration
         /\ Reserve(Cur, {imp.symbol})
         /\ InsertDecl(Cur, imp.is_export, imp.symbol, decl)
  /\ NextItem
  /\ UNCHANGED <<prog, order, declarations, import_modules, export_modules,
                 unresolved, main_fn>>

ImportLater(imp) ==
  /\ imp.src \in Modules \ {Cur}
  /\ imp.symbol \in Names
  /\ FindImport(imp.src, imp.symbol) = None
  /\ Defer(imp)
  /\ NextItem
  /\ UNCHANGED <<prog, order, tables, used_names, main_fn, errors>>

ImportOverflow(imp) ==
  /\ imp.src \in Modules
  /\ imp.symbol \in Names
  /\ FindImport(imp.src, imp.symbol) = Overflow
  /\ Crash("overflow")

ImportStage1 ==
  \E imp \in ImportAst :
    /\ Importing(imp)
    /\ \/ ImportUnknownModule(imp)
       \/ ImportSelf(imp)
       \/ ImportGlob(imp)
       \/ ImportFound(imp)
       \/ ImportLater(imp)
       \/ ImportOverflow(imp)

(* After its imports a module gets the prelude as one more "+" import.     *)
EndImportStage1 ==
  /\ pass = "import_stage_1"
  /\ item > Len(prog[Cur].imports)
  /\ IF UsesPrelude(Cur)
     THEN import_modules' =
            [import_modules EXCEPT ![Cur] = Append(@, Prelude)]
     ELSE UNCHANGED import_modules
  /\ NextModule("declare_functions")
  /\ UNCHANGED <<prog, order, declarations, import_decls, export_decls,
                 export_modules, unresolved, used_names, main_fn, errors>>

-----------------------------------------------------------------------------
(* declare_functions                                                       *)

Declaring(f) ==
  /\ pass = "declare_functions"
  /\ item <= Len(prog[Cur].functions)
  /\ f = prog[Cur].functions[item]

(* find_type on the type the signature mentions.                           *)
SigType(f) == IF f.sig = None THEN None ELSE FindDecl(Cur, f.sig)

SigResolves(f) == f.sig = None \/ SigType(f) \in [home: Modules, name: Names,
                                                 kind: {"adt"}]

(* maybe_set_main_fn, after the function was inserted.                     *)
SetMain(f) ==
  IF f.name = Main /\ main_fn = None THEN main_fn' = Cur ELSE UNCHANGED main_fn

DeclareFunction(f) ==
  /\ SigResolves(f)
  /\ used_names' = [used_names EXCEPT ![Cur] = @ \cup {f.name}]
  /\ declarations' = [declarations EXCEPT ![Cur][f.name] =
       [home |-> Cur, name |-> f.name, kind |-> "function"]]
  /\ SetMain(f)
  /\ errors' = errors \cup Collisions(Cur, {f.name})
                 \cup IF f.name = Main /\ main_fn # None
                      THEN {Err("E305", Cur, f.name)} ELSE {}
  /\ NextItem
  /\ UNCHANGED <<prog, order, import_decls, import_modules, export_decls,
                 export_modules, unresolved>>

(* The signature does not resolve: the name stays reserved, the function   *)
(* is not declared.                                                        *)
RejectFunction(f) ==
  /\ ~SigResolves(f)
  /\ SigType(f) # Overflow
  /\ used_names' = [used_names EXCEPT ![Cur] = @ \cup {f.name}]
  /\ errors' = errors \cup Collisions(Cur, {f.name})
       \cup {Err(IF SigType(f) = None THEN "E300" ELSE "E301", Cur, f.sig)}
  /\ NextItem
  /\ UNCHANGED <<prog, order, tables, unresolved, main_fn>>

DeclareOverflow(f) ==
  /\ f.sig # None
  /\ SigType(f) = Overflow
  /\ Crash("overflow")

DeclareFunctions ==
  \E f \in FunctionAst :
    /\ Declaring(f)
    /\ \/ DeclareFunction(f)
       \/ RejectFunction(f)
       \/ DeclareOverflow(f)

(* After the last module, validate_intrinsics misses a main function.      *)
EndDeclareFunctions ==
  /\ pass = "declare_functions"
  /\ item > Len(prog[Cur].functions)
  /\ NextModule("import_stage_2")
  /\ errors' = errors \cup
       IF turn = Len(order) /\ ~Library /\ main_fn = None
       THEN {Err("E101", None, None)} ELSE {}
  /\ UNCHANGED <<prog, order, tables, unresolved, used_names, main_fn>>

-----------------------------------------------------------------------------
(* import_stage_2                                                          *)

DeclaredNames(m) == {n \in Names : declarations[m][n] # None}

Resolving(imp) ==
  /\ pass = "import_stage_2"
  /\ unresolved[Cur] # <<>>
  /\ imp = Head(unresolved[Cur])

(* Mutant: the list of unresolved imports is never shortened.              *)
ResolvedButKept ==
  UNCHANGED <<prog, order, pass, turn, item, declarations, import_modules,
              export_modules, unresolved, main_fn>>

Resolved ==
  /\ unresolved' = [unresolved EXCEPT ![Cur] = Tail(@)]
  /\ UNCHANGED <<prog, order, pass, turn, item, declarations, import_modules,
                 export_modules, main_fn>>

(* Mutant: the names a "+" import brings in are not reserved.              *)
ReserveGlobNot(imp) ==
  /\ imp.symbol = Glob
  /\ Resolved
  /\ UNCHANGED <<import_decls, export_decls, used_names, errors>>

ReserveGlob(imp) ==
  /\ imp.symbol = Glob
  /\ Reserve(Cur, DeclaredNames(imp.src))
  /\ Resolved
  /\ UNCHANGED <<import_decls, export_decls>>

ResolveFound(imp) ==
  /\ imp.symbol \in Names
  /\ LET decl == FindImport(imp.src, imp.symbol)
     IN  /\ decl \in Declaration
         /\ Reserve(Cur, {imp.symbol})
         /\ InsertDecl(Cur, imp.is_export, imp.symbol, decl)
  /\ Resolved

ResolveMissing(imp) ==
  /\ imp.symbol \in Names
  /\ FindImport(imp.src, imp.symbol) = None
  /\ errors' = errors \cup {Err("E103", Cur, imp.symbol)}
  /\ Resolved
  /\ UNCHANGED <<import_decls, export_decls, used_names>>

ResolveOverflow(imp) ==
  /\ imp.symbol \in Names
  /\ FindImport(imp.src, imp.symbol) = Overflow
  /\ Crash("overflow")

ImportStage2 ==
  \E imp \in ImportAst :
    /\ Resolving(imp)
    /\ \/ ReserveGlob(imp)
       \/ ResolveFound(imp)
       \/ ResolveMissing(imp)
       \/ ResolveOverflow(imp)

(* The names the prelude itself declares are reserved in every other       *)
(* module.                                                                 *)
EndImportStage2 ==
  /\ pass = "import_stage_2"
  /\ unresolved[Cur] = <<>>
  /\ IF UsesPrelude(Cur) THEN Reserve(Cur, DeclaredNames(Prelude))
                         ELSE UNCHANGED <<used_names, errors>>
  /\ NextModule("done")
  /\ UNCHANGED <<prog, order, tables, unresolved, main_fn>>

-----------------------------------------------------------------------------
Next ==
  \/ DeclareAdt
  \/ EndDeclareAdts
  \/ ImportStage1
  \/ EndImportStage1
  \/ DeclareFunctions
  \/ EndDeclareFunctions
  \/ ImportStage2
  \/ EndImportStage2

Spec == Init /\ [][Next]_vars

(* run_passes is straight-line code of one thread: it keeps going.         *)
FairSpec == Spec /\ WF_vars(Next)
-----------------------------------------------------------------------------
(* Properties.                                                             *)

NamedBy(imp, n) == imp.symbol = n \/ imp.symbol = Glob

ImportsOf(m) == {prog[m].imports[i] : i \in DOMAIN prog[m].imports}

(* Every variable holds values of its type.                                *)
TypeOK ==
  /\ prog \in [Modules -> ModuleAst]
  /\ order \in Seq(Modules)
  /\ pass \in Passes \cup Ended
  /\ turn \in 1..Len(order)
  /\ item \in Nat \ {0}
  /\ declarations \in [Modules -> [Names -> Declaration \cup {None}]]
  /\ import_decls \in [Modules -> [Names -> Declaration \cup {None}]]
  /\ export_decls \in [Modules -> [Names -> Declaration \cup {None}]]
  /\ import_modules \in [Modules -> Seq(Modules)]
  /\ export_modules \in [Modules -> Seq(Modules)]
  /\ unresolved \in [Modules -> Seq(ImportAst)]
  /\ used_names \in [Modules -> SUBSET Names]
  /\ main_fn \in Modules \cup {None}
  /\ errors \subseteq GirError

Clash(m, n) ==
  \/ declarations[m][n] # None /\ import_decls[m][n] # None
  \/ declarations[m][n] # None /\ export_decls[m][n] # None
  \/ import_decls[m][n] # None /\ export_decls[m][n] # None

(* Every name bound in one of a module's own tables is reserved there.     *)
OwnBinding(m, n) == \/ declarations[m][n] # None
                    \/ import_decls[m][n] # None
                    \/ export_decls[m][n] # None

BoundNamesReserved ==
  \A m \in Modules, n \in Names : OwnBinding(m, n) => n \in used_names[m]

(* A name that a module has twice - declared, imported by name or exported *)
(* by name - was reported as E100.  (module.rs:27-28: used_names exists to *)
(* ensure that no naming collision occurs.)                                *)
NoSilentClash ==
  \A m \in Modules, n \in Names : Clash(m, n) => Err("E100", m, n) \in errors

(* A name, once bound in one of a module's tables, never comes to mean     *)
(* something else unless that is reported as E100.                         *)
Rebound(table, m, n) == table[m][n] # None /\ table'[m][n] # table[m][n]

BindingsAreFinal ==
  [][\A m \in Modules, n \in Names :
       (\/ Rebound(declarations, m, n)
        \/ Rebound(import_decls, m, n)
        \/ Rebound(export_decls, m, n)) => Err("E100", m, n) \in errors']_vars

(* When a compilation ends without errors, no name of a module can be      *)
(* taken from two places: its own tables and the declarations of the       *)
(* modules it imports or exports by "+", the prelude among them.           *)
GlobSources(m) ==
  {import_modules[m][i] : i \in DOMAIN import_modules[m]} \cup
  {export_modules[m][i] : i \in DOMAIN export_modules[m]}

Succeeded == pass = "done" /\ errors = {}

DirectlyUnambiguous ==
  Succeeded => \A m \in Modules, n \in Names :
    LET sources == {s \in GlobSources(m) : declarations[s][n] # None}
    IN  /\ Cardinality(sources) <= 1
        /\ OwnBinding(m, n) => sources = {}

(* tests/modules/collide_prelude2.gel expects an error for a module that   *)
(* declares a class of a name the prelude gives it: whatever the way a     *)
(* name comes into a module, a compilation without errors leaves it one    *)
(* meaning.                                                                *)
Meanings(m, n) ==
  ({declarations[m][n], import_decls[m][n], export_decls[m][n]} \cup
   {FindImport(s, n) : s \in GlobSources(m)}) \ {None}

NamesAreUnambiguous ==
  Succeeded => \A m \in Modules, n \in Names : Cardinality(Meanings(m, n)) <= 1

(* The stage crashes only on programs that can make it: unbounded          *)
(* recursion needs modules that export each other by "+" in a circle, and  *)
(* a doubly borrowed module needs a module that imports from itself.       *)
ExportCircle ==
  \E circle \in (SUBSET Modules) \ {{}} : \A m \in circle :
    \E imp \in ImportsOf(m) : imp.is_export /\ imp.symbol = Glob
                              /\ imp.src \in circle

CrashesAreJustified ==
  /\ pass = "overflow" => ExportCircle
  /\ pass = "panic" => \E m \in Modules : \E imp \in ImportsOf(m) : imp.src = m

(* No import gets lost between the two import passes: when the stage is    *)
(* over, each is in force or was reported.                                 *)
InForce(m, imp) ==
  IF imp.symbol = Glob
  THEN \E i \in DOMAIN (IF imp.is_export THEN export_modules ELSE import_modules)[m] :
         (IF imp.is_export THEN export_modules ELSE import_modules)[m][i] = imp.src
  ELSE (IF imp.is_export THEN export_decls ELSE import_decls)[m][imp.symbol] # None

ImportsSettled ==
  pass = "done" => \A m \in Modules : \A imp \in ImportsOf(m) :
    \/ InForce(m, imp)
    \/ Err("E102", m, imp.symbol) \in errors
    \/ Err("E103", m, imp.symbol) \in errors

(* An import bound early, in the first import pass, still means what its   *)
(* source module offers under that name at the end, although functions and *)
(* exports were added to that module since - provided no name is ambiguous.*)
BindingsStayCurrent ==
  (Succeeded /\ NamesAreUnambiguous) =>
    \A m \in Modules : \A imp \in ImportsOf(m) :
      imp.symbol # Glob =>
        (IF imp.is_export THEN export_decls ELSE import_decls)[m][imp.symbol]
          = FindImport(imp.src, imp.symbol)

(* The names module m offers to others: declared, or exported from a       *)
(* module that offers them.                                                *)
Offered ==
  LET offered[d \in 0..Cardinality(Modules)] ==
        [m \in Modules |-> DeclaredNames(m) \cup
          IF d = 0 THEN {}
          ELSE {n \in Names : \E imp \in ImportsOf(m) :
                  /\ imp.is_export /\ NamedBy(imp, n)
                  /\ imp.src \in Modules /\ n \in offered[d - 1][imp.src]}]
  IN  offered[Cardinality(Modules)]

Missed(m, imp) == /\ imp.symbol # Glob
                  /\ Err("E103", m, imp.symbol) \in errors
                  /\ (IF imp.is_export THEN export_decls
                                       ELSE import_decls)[m][imp.symbol] = None

(* docs/src/modules.md, "Export": an export allows other modules to import *)
(* the declaration it pulls in.  So an import reported as unresolved names *)
(* nothing its source module offers.                                       *)
ExportsCanBeImported ==
  pass = "done" => \A m \in Modules : \A imp \in ImportsOf(m) :
    Missed(m, imp) /\ imp.src \in Modules => imp.symbol \notin Offered[imp.src]

(* The same where modules are read after the modules they import by-name   *)
(* exports from: then both import passes together find everything that is  *)
(* offered, through any number of exports, "+" exports in between          *)
(* included.                                                               *)
GlobReach(s) ==
  {t \in Modules : \A S \in SUBSET Modules :
     (/\ s \in S
      /\ \A u \in S : \A imp \in ImportsOf(u) :
           imp.is_export /\ imp.symbol = Glob /\ imp.src \in Modules
             => imp.src \in S) => t \in S}

Before(s, m) == \E i, j \in DOMAIN order : i < j /\ order[i] = s /\ order[j] = m

ExportersFirst ==
  \A m \in Modules : \A imp \in ImportsOf(m) :
    imp.src \in Modules /\ imp.symbol # Glob =>
      \A s \in GlobReach(imp.src) :
        (\E e \in ImportsOf(s) : e.is_export /\ e.symbol = imp.symbol)
          => Before(s, m)

ExportsFoundInOrder ==
  (pass = "done" /\ ExportersFirst) => ExportsCanBeImported

(* The stage ends.                                                         *)
Terminates == <>(pass \in Ended)
=============================================================================
