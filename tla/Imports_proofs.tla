--------------------------- MODULE Imports_proofs ---------------------------
(***************************************************************************)
(* Proofs about Imports: type correctness; that no module ever has two     *)
(* declarations of one name, two "+" imports of one name, nor changes what *)
(* a name means, without an E100 being reported; that no import is lost    *)
(* between the passes; that the recursion without end of find_import and   *)
(* Exports::resolve takes a circle of "+" exports; and that in a           *)
(* compilation without errors every import is bound to what a lookup at    *)
(* the end still answers.                                                  *)
(***************************************************************************)
EXTENDS Imports, Integers, SequenceTheorems, FiniteSetTheorems, TLAPS

-----------------------------------------------------------------------------
(* The building blocks of the actions keep the types.                      *)

LEMMA ErrIsError ==
  ASSUME NEW c \in Codes, NEW m \in Modules \cup {None},
         NEW n \in Names \cup {Glob, None}
  PROVE  Err(c, m, n) \in GirError
BY DEF Err, GirError

LEMMA ImportFields ==
  ASSUME NEW imp \in ImportAst
  PROVE  /\ imp.src \in Modules \cup {NoModule}
         /\ imp.symbol \in Names \cup {Glob}
         /\ imp.is_export \in BOOLEAN
BY DEF ImportAst

LEMMA CurIsModule == TypeOK => Cur \in Modules
BY DEF TypeOK, Cur

LEMMA CollisionsAreErrors ==
  ASSUME NEW m \in Modules, NEW ns \in SUBSET Names
  PROVE  Collisions(m, ns) \subseteq GirError
<1> SUFFICES ASSUME NEW n \in ns
             PROVE  Err("E100", m, n) \in GirError
  BY DEF Collisions
<1> QED
  BY ErrIsError DEF Codes

LEMMA ReserveTyped ==
  ASSUME TypeOK, NEW m \in Modules, NEW ns \in SUBSET Names, Reserve(m, ns)
  PROVE  /\ used_names' \in [Modules -> SUBSET Names]
         /\ errors' \subseteq GirError
BY CollisionsAreErrors DEF TypeOK, Reserve

LEMMA AppendAt ==
  ASSUME NEW S, NEW f \in [Modules -> Seq(S)], NEW m \in Modules, NEW x \in S
  PROVE  [f EXCEPT ![m] = Append(@, x)] \in [Modules -> Seq(S)]
<1>1. Append(f[m], x) \in Seq(S)
  BY AppendProperties
<1> QED
  BY <1>1

LEMMA InsertDeclTyped ==
  ASSUME TypeOK, NEW m \in Modules, NEW e \in BOOLEAN, NEW n \in Names,
         NEW d \in Declaration, InsertDecl(m, e, n, d)
  PROVE  /\ import_decls' \in [Modules -> [Names -> Declaration \cup {None}]]
         /\ export_decls' \in [Modules -> [Names -> Declaration \cup {None}]]
<1>0. /\ import_decls \in [Modules -> [Names -> Declaration \cup {None}]]
      /\ export_decls \in [Modules -> [Names -> Declaration \cup {None}]]
  BY DEF TypeOK
<1>1. CASE e = TRUE
  <2>1. /\ export_decls' = [export_decls EXCEPT ![m][n] = d]
        /\ import_decls' = import_decls
    BY <1>1 DEF InsertDecl
  <2> QED
    BY <1>0, <2>1
<1>2. CASE e = FALSE
  <2>1. /\ import_decls' = [import_decls EXCEPT ![m][n] = d]
        /\ export_decls' = export_decls
    BY <1>2 DEF InsertDecl
  <2> QED
    BY <1>0, <2>1
<1> QED
  BY <1>1, <1>2

LEMMA PushModuleTyped ==
  ASSUME TypeOK, NEW m \in Modules, NEW e \in BOOLEAN, NEW s \in Modules,
         PushModule(m, e, s)
  PROVE  /\ import_modules' \in [Modules -> Seq(Modules)]
         /\ export_modules' \in [Modules -> Seq(Modules)]
<1>0. /\ import_modules \in [Modules -> Seq(Modules)]
      /\ export_modules \in [Modules -> Seq(Modules)]
  BY DEF TypeOK
<1>1. CASE e = TRUE
  <2>1. /\ export_modules' = [export_modules EXCEPT ![m] = Append(@, s)]
        /\ import_modules' = import_modules
    BY <1>1 DEF PushModule
  <2> QED
    BY <1>0, <2>1, AppendAt
<1>2. CASE e = FALSE
  <2>1. /\ import_modules' = [import_modules EXCEPT ![m] = Append(@, s)]
        /\ export_modules' = export_modules
    BY <1>2 DEF PushModule
  <2> QED
    BY <1>0, <2>1, AppendAt
<1> QED
  BY <1>1, <1>2

LEMMA NextItemTyped ==
  ASSUME TypeOK, NextItem
  PROVE  /\ pass' \in Passes \cup Ended
         /\ turn' \in 1..Len(order)
         /\ item' \in Nat \ {0}
BY DEF TypeOK, NextItem

LEMMA NextModuleTyped ==
  ASSUME TypeOK, NEW next \in Passes \cup Ended, NextModule(next)
  PROVE  /\ pass' \in Passes \cup Ended
         /\ turn' \in 1..Len(order)
         /\ item' \in Nat \ {0}
<1>1. Len(order) \in Nat /\ turn \in 1..Len(order) /\ pass \in Passes \cup Ended
  BY DEF TypeOK
<1> QED
  BY ONLY <1>1, NextModule(next), next \in Passes \cup Ended DEF NextModule

LEMMA CrashTyped ==
  ASSUME TypeOK, NEW how \in Ended, Crash(how)
  PROVE  TypeOK'
BY DEF TypeOK, Crash, tables

LEMMA DeclaredNamesAreNames ==
  ASSUME NEW m PROVE DeclaredNames(m) \in SUBSET Names
BY DEF DeclaredNames

-----------------------------------------------------------------------------
(* Every variable keeps its type.                                          *)
THEOREM TypeCorrect == Spec => []TypeOK
<1>1. Init => TypeOK
  <2> SUFFICES ASSUME Init PROVE TypeOK
    OBVIOUS
  <2>1. prog \in [Modules -> ModuleAst] /\ order \in Seq(Modules)
    BY ProgramsAreAsts, OrdersAreLists DEF Init
  <2>2. turn \in 1..Len(order)
    BY OrdersAreLists DEF Init
  <2> QED
    BY <2>1, <2>2 DEF Init, TypeOK, NoDecls, NoList, Passes
<1>2. TypeOK /\ [Next]_vars => TypeOK'
  <2> SUFFICES ASSUME TypeOK, [Next]_vars PROVE TypeOK'
    OBVIOUS
  <2>0. Cur \in Modules
    BY CurIsModule
  <2>1. CASE DeclareAdt
    <3> DEFINE name == prog[Cur].adts[item]
               d == [home |-> Cur, name |-> name, kind |-> "adt"]
    <3>1. name \in Names
      <4>1. prog[Cur].adts \in Seq(Names)
        BY <2>0 DEF TypeOK, ModuleAst
      <4>2. item \in 1..Len(prog[Cur].adts)
        BY <2>1, <4>1 DEF DeclareAdt, TypeOK
      <4> QED
        BY <4>1, <4>2
    <3>2. d \in Declaration
      BY <2>0, <3>1 DEF Declaration
    <3>3. declarations' = [declarations EXCEPT ![Cur][name] = d]
      BY <2>1 DEF DeclareAdt
    <3>4. declarations' \in [Modules -> [Names -> Declaration \cup {None}]]
      BY <2>0, <3>1, <3>2, <3>3 DEF TypeOK
    <3>5. /\ used_names' \in [Modules -> SUBSET Names]
          /\ errors' \subseteq GirError
      <4>1. Reserve(Cur, {name}) /\ {name} \in SUBSET Names
        BY <2>1, <3>1 DEF DeclareAdt
      <4> QED
        BY <2>0, <4>1, ReserveTyped
    <3> QED
      BY <2>1, <3>4, <3>5, NextItemTyped DEF DeclareAdt, TypeOK
  <2>2. CASE EndDeclareAdts
    <3>1. NextModule("import_stage_1") /\ "import_stage_1" \in Passes \cup Ended
      BY <2>2 DEF EndDeclareAdts, Passes
    <3> QED
      BY <2>2, <3>1, NextModuleTyped DEF EndDeclareAdts, TypeOK, tables
  <2>3. CASE ImportStage1
    <3> PICK imp \in ImportAst : Importing(imp) /\
          \/ ImportUnknownModule(imp) \/ ImportSelf(imp) \/ ImportGlob(imp)
          \/ ImportFound(imp) \/ ImportLater(imp) \/ ImportOverflow(imp)
      BY <2>3 DEF ImportStage1
    <3>0. ASSUME Defer(imp)
          PROVE  unresolved' \in [Modules -> Seq(ImportAst)]
      <4>1. unresolved' = [unresolved EXCEPT ![Cur] = Append(@, imp)]
        BY <3>0 DEF Defer
      <4>2. unresolved \in [Modules -> Seq(ImportAst)]
        BY DEF TypeOK
      <4> QED
        BY <2>0, <4>1, <4>2, AppendAt
    <3>1. CASE ImportUnknownModule(imp)
      <4>1. Err("E102", Cur, imp.symbol) \in GirError
        BY <2>0, ImportFields, ErrIsError DEF Codes
      <4> QED
        BY <3>1, <4>1, NextItemTyped DEF ImportUnknownModule, TypeOK, tables
    <3>2. CASE ImportSelf(imp)
      BY <3>2, CrashTyped DEF ImportSelf, Ended
    <3>3. CASE ImportGlob(imp)
      <4>1. /\ import_modules' \in [Modules -> Seq(Modules)]
            /\ export_modules' \in [Modules -> Seq(Modules)]
        BY <2>0, <3>3, ImportFields, PushModuleTyped DEF ImportGlob
      <4> QED
        BY <3>0, <3>3, <4>1, NextItemTyped DEF ImportGlob, TypeOK
    <3>4. CASE ImportFound(imp)
      <4> DEFINE d == FindImport(imp.src, imp.symbol)
      <4>1. /\ d \in Declaration
            /\ imp.symbol \in Names
            /\ InsertDecl(Cur, imp.is_export, imp.symbol, d)
            /\ Reserve(Cur, {imp.symbol})
        BY <3>4 DEF ImportFound
      <4> HIDE DEF d
      <4>2. /\ import_decls' \in [Modules -> [Names -> Declaration \cup {None}]]
            /\ export_decls' \in [Modules -> [Names -> Declaration \cup {None}]]
        BY <2>0, <4>1, ImportFields, InsertDeclTyped
      <4>3. /\ used_names' \in [Modules -> SUBSET Names]
            /\ errors' \subseteq GirError
        BY <2>0, <4>1, ReserveTyped
      <4> QED
        BY <3>4, <4>2, <4>3, NextItemTyped DEF ImportFound, TypeOK
    <3>5. CASE ImportLater(imp)
      BY <3>0, <3>5, NextItemTyped DEF ImportLater, TypeOK, tables
    <3>6. CASE ImportOverflow(imp)
      BY <3>6, CrashTyped DEF ImportOverflow, Ended
    <3> QED
      BY <3>1, <3>2, <3>3, <3>4, <3>5, <3>6
  <2>4. CASE EndImportStage1
    <3>1. NextModule("declare_functions")
          /\ "declare_functions" \in Passes \cup Ended
      BY <2>4 DEF EndImportStage1, Passes
    <3>2. import_modules' \in [Modules -> Seq(Modules)]
      <4>1. UsesPrelude(Cur) => Prelude \in Modules
        BY PreludeIsModule DEF UsesPrelude
      <4>2. import_modules \in [Modules -> Seq(Modules)]
        BY DEF TypeOK
      <4>3. CASE UsesPrelude(Cur)
        <5>1. import_modules' =
                [import_modules EXCEPT ![Cur] = Append(@, Prelude)]
          BY <2>4, <4>3 DEF EndImportStage1
        <5> QED
          BY <2>0, <4>1, <4>2, <4>3, <5>1, AppendAt
      <4>4. CASE ~UsesPrelude(Cur)
        BY <2>4, <4>2, <4>4 DEF EndImportStage1
      <4> QED
        BY <4>3, <4>4
    <3> QED
      BY <2>4, <3>1, <3>2, NextModuleTyped DEF EndImportStage1, TypeOK
  <2>5. CASE DeclareFunctions
    <3> PICK f \in FunctionAst : Declaring(f) /\
          (DeclareFunction(f) \/ RejectFunction(f) \/ DeclareOverflow(f))
      BY <2>5 DEF DeclareFunctions
    <3>0. f.name \in Names /\ f.sig \in Names \cup {None}
      BY DEF FunctionAst
    <3>1. {f.name} \in SUBSET Names
      BY <3>0
    <3>2. Collisions(Cur, {f.name}) \subseteq GirError
      BY <2>0, <3>1, CollisionsAreErrors
    <3>3. CASE DeclareFunction(f)
      <4> DEFINE d == [home |-> Cur, name |-> f.name, kind |-> "function"]
      <4>1. d \in Declaration
        BY <2>0, <3>0 DEF Declaration
      <4>2. declarations' = [declarations EXCEPT ![Cur][f.name] = d]
        BY <3>3 DEF DeclareFunction
      <4>3. declarations' \in [Modules -> [Names -> Declaration \cup {None}]]
        BY <2>0, <3>0, <4>1, <4>2 DEF TypeOK
      <4>4. Err("E305", Cur, f.name) \in GirError
        BY <2>0, <3>0, ErrIsError DEF Codes
      <4>5. errors' \subseteq GirError
        BY <3>2, <3>3, <4>4 DEF DeclareFunction, TypeOK
      <4>6. main_fn' \in Modules \cup {None}
        BY <2>0, <3>3 DEF DeclareFunction, SetMain, TypeOK
      <4>7. used_names' \in [Modules -> SUBSET Names]
        BY <2>0, <3>0, <3>3 DEF DeclareFunction, TypeOK
      <4> QED
        BY <3>3, <4>3, <4>5, <4>6, <4>7, NextItemTyped
           DEF DeclareFunction, TypeOK
    <3>4. CASE RejectFunction(f)
      <4>1. f.sig \in Names
        BY <3>0, <3>4 DEF RejectFunction, SigResolves
      <4>2. /\ Err("E300", Cur, f.sig) \in GirError
            /\ Err("E301", Cur, f.sig) \in GirError
        BY <2>0, <4>1, ErrIsError DEF Codes
      <4>3. errors' \subseteq GirError
        BY <3>2, <3>4, <4>2 DEF RejectFunction, TypeOK
      <4>4. used_names' \in [Modules -> SUBSET Names]
        BY <2>0, <3>0, <3>4 DEF RejectFunction, TypeOK
      <4> QED
        BY <3>4, <4>3, <4>4, NextItemTyped DEF RejectFunction, TypeOK, tables
    <3>5. CASE DeclareOverflow(f)
      BY <3>5, CrashTyped DEF DeclareOverflow, Ended
    <3> QED
      BY <3>3, <3>4, <3>5
  <2>6. CASE EndDeclareFunctions
    <3>1. NextModule("import_stage_2") /\ "import_stage_2" \in Passes \cup Ended
      BY <2>6 DEF EndDeclareFunctions, Passes
    <3>2. Err("E101", None, None) \in GirError
      BY ErrIsError DEF Codes
    <3> QED
      BY <2>6, <3>1, <3>2, NextModuleTyped
         DEF EndDeclareFunctions, TypeOK, tables
  <2>7. CASE ImportStage2
    <3> PICK imp \in ImportAst : Resolving(imp) /\
          \/ ReserveGlob(imp) \/ ResolveFound(imp) \/ ResolveMissing(imp)
          \/ ResolveOverflow(imp)
      BY <2>7 DEF ImportStage2
    <3>0. Resolved => unresolved' \in [Modules -> Seq(ImportAst)]
      BY <2>0 DEF Resolving, Resolved, TypeOK
    <3>1. CASE ReserveGlob(imp)
      <4>1. /\ used_names' \in [Modules -> SUBSET Names]
            /\ errors' \subseteq GirError
        BY <2>0, <3>1, DeclaredNamesAreNames, ReserveTyped DEF ReserveGlob
      <4> QED
        BY <3>0, <3>1, <4>1 DEF ReserveGlob, Resolved, TypeOK
    <3>2. CASE ResolveFound(imp)
      <4> DEFINE d == FindImport(imp.src, imp.symbol)
      <4>1. /\ d \in Declaration
            /\ imp.symbol \in Names
            /\ InsertDecl(Cur, imp.is_export, imp.symbol, d)
            /\ Reserve(Cur, {imp.symbol})
        BY <3>2 DEF ResolveFound
      <4> HIDE DEF d
      <4>2. /\ import_decls' \in [Modules -> [Names -> Declaration \cup {None}]]
            /\ export_decls' \in [Modules -> [Names -> Declaration \cup {None}]]
        BY <2>0, <4>1, ImportFields, InsertDeclTyped
      <4>3. /\ used_names' \in [Modules -> SUBSET Names]
            /\ errors' \subseteq GirError
        BY <2>0, <4>1, ReserveTyped
      <4> QED
        BY <3>0, <3>2, <4>2, <4>3 DEF ResolveFound, Resolved, TypeOK
    <3>3. CASE ResolveMissing(imp)
      <4>1. Err("E103", Cur, imp.symbol) \in GirError
        BY <2>0, ImportFields, ErrIsError DEF Codes
      <4> QED
        BY <3>0, <3>3, <4>1 DEF ResolveMissing, Resolved, TypeOK
    <3>4. CASE ResolveOverflow(imp)
      BY <3>4, CrashTyped DEF ResolveOverflow, Ended
    <3> QED
      BY <3>1, <3>2, <3>3, <3>4
  <2>8. CASE EndImportStage2
    <3>1. NextModule("done") /\ "done" \in Passes \cup Ended
      BY <2>8 DEF EndImportStage2, Ended
    <3>2. /\ used_names' \in [Modules -> SUBSET Names]
          /\ errors' \subseteq GirError
      <4>1. CASE UsesPrelude(Cur)
        BY <2>0, <2>8, <4>1, DeclaredNamesAreNames, ReserveTyped
           DEF EndImportStage2
      <4>2. CASE ~UsesPrelude(Cur)
        BY <2>8, <4>2 DEF EndImportStage2, TypeOK
      <4> QED
        BY <4>1, <4>2
    <3> QED
      BY <2>8, <3>1, <3>2, NextModuleTyped DEF EndImportStage2, TypeOK, tables
  <2>9. CASE UNCHANGED vars
    BY <2>9 DEF vars, tables, TypeOK
  <2> QED
    BY <2>1, <2>2, <2>3, <2>4, <2>5, <2>6, <2>7, <2>8, <2>9 DEF Next
<1> QED
  BY <1>1, <1>2, PTL DEF Spec

-----------------------------------------------------------------------------
(* How a step may bind names.                                              *)

(* The three tables differ from before for name n of module m.             *)
Changed(table, m, n) == table'[m][n] # table[m][n]

(* A step that binds (m, n) has reserved n in m, and has reported it if it *)
(* was in use; it touches only one of the tables there; nothing is ever    *)
(* unreserved or unreported.                                               *)
Binds(m, n) == /\ n \in used_names'[m]
               /\ n \in used_names[m] => Err("E100", m, n) \in errors'

StepBinds ==
  /\ errors \subseteq errors'
  /\ \A m \in Modules : used_names[m] \subseteq used_names'[m]
  /\ \A m \in Modules, n \in Names :
       /\ Changed(declarations, m, n) =>
            /\ Binds(m, n)
            /\ ~Changed(import_decls, m, n) /\ ~Changed(export_decls, m, n)
       /\ Changed(import_decls, m, n) =>
            /\ Binds(m, n)
            /\ ~Changed(declarations, m, n) /\ ~Changed(export_decls, m, n)
       /\ Changed(export_decls, m, n) =>
            /\ Binds(m, n)
            /\ ~Changed(declarations, m, n) /\ ~Changed(import_decls, m, n)

LEMMA ReserveGrows ==
  ASSUME TypeOK, NEW m \in Modules, NEW ns \in SUBSET Names, Reserve(m, ns)
  PROVE  /\ errors \subseteq errors'
         /\ \A k \in Modules : used_names[k] \subseteq used_names'[k]
         /\ \A n \in ns : Binds(m, n)
BY DEF TypeOK, Reserve, Collisions, Binds

LEMMA TablesKept ==
  ASSUME UNCHANGED <<declarations, import_decls, export_decls>>,
         errors \subseteq errors',
         \A m \in Modules : used_names[m] \subseteq used_names'[m]
  PROVE  StepBinds
BY DEF StepBinds, Changed

LEMMA DeclareBinds ==
  ASSUME TypeOK, NEW k \in Modules, NEW x \in Names, NEW d,
         Binds(k, x),
         declarations' = [declarations EXCEPT ![k][x] = d],
         UNCHANGED <<import_decls, export_decls>>,
         errors \subseteq errors',
         \A m \in Modules : used_names[m] \subseteq used_names'[m]
  PROVE  StepBinds
<1>1. ASSUME NEW m \in Modules, NEW n \in Names, Changed(declarations, m, n)
      PROVE  m = k /\ n = x
  BY <1>1 DEF Changed, TypeOK
<1> QED
  BY <1>1 DEF StepBinds, Changed

LEMMA InsertBinds ==
  ASSUME TypeOK, NEW k \in Modules, NEW e \in BOOLEAN, NEW x \in Names, NEW d,
         Binds(k, x), InsertDecl(k, e, x, d),
         UNCHANGED declarations,
         errors \subseteq errors',
         \A m \in Modules : used_names[m] \subseteq used_names'[m]
  PROVE  StepBinds
<1>1. CASE e = TRUE
  <2>1. /\ export_decls' = [export_decls EXCEPT ![k][x] = d]
        /\ import_decls' = import_decls
    BY <1>1 DEF InsertDecl
  <2>2. ASSUME NEW m \in Modules, NEW n \in Names, Changed(export_decls, m, n)
        PROVE  m = k /\ n = x
    BY <2>1, <2>2 DEF Changed, TypeOK
  <2> QED
    BY <2>1, <2>2 DEF StepBinds, Changed
<1>2. CASE e = FALSE
  <2>1. /\ import_decls' = [import_decls EXCEPT ![k][x] = d]
        /\ export_decls' = export_decls
    BY <1>2 DEF InsertDecl
  <2>2. ASSUME NEW m \in Modules, NEW n \in Names, Changed(import_decls, m, n)
        PROVE  m = k /\ n = x
    BY <2>1, <2>2 DEF Changed, TypeOK
  <2> QED
    BY <2>1, <2>2 DEF StepBinds, Changed
<1> QED
  BY <1>1, <1>2

LEMMA CrashKeeps == ASSUME NEW how, Crash(how) PROVE StepBinds
BY TablesKept DEF Crash, tables

LEMMA NextBinds == TypeOK /\ [Next]_vars => StepBinds
<1> SUFFICES ASSUME TypeOK, [Next]_vars PROVE StepBinds
  OBVIOUS
<1>0. Cur \in Modules
  BY CurIsModule
<1>1. CASE DeclareAdt
  <2> DEFINE name == prog[Cur].adts[item]
             d == [home |-> Cur, name |-> name, kind |-> "adt"]
  <2>1. name \in Names
    <3>1. prog[Cur].adts \in Seq(Names)
      BY <1>0 DEF TypeOK, ModuleAst
    <3>2. item \in 1..Len(prog[Cur].adts)
      BY <1>1, <3>1 DEF DeclareAdt, TypeOK
    <3> QED
      BY <3>1, <3>2
  <2>2. /\ Reserve(Cur, {name})
        /\ declarations' = [declarations EXCEPT ![Cur][name] = d]
        /\ UNCHANGED <<import_decls, export_decls>>
    BY <1>1 DEF DeclareAdt
  <2> HIDE DEF name, d
  <2>3. /\ errors \subseteq errors'
        /\ \A k \in Modules : used_names[k] \subseteq used_names'[k]
        /\ Binds(Cur, name)
    <3>1. {name} \in SUBSET Names
      BY <2>1
    <3> QED
      BY <1>0, <2>2, <3>1, ReserveGrows
  <2> QED
    BY <1>0, <2>1, <2>2, <2>3, DeclareBinds
<1>2. CASE EndDeclareAdts
  BY <1>2, TablesKept DEF EndDeclareAdts, tables
<1>3. CASE ImportStage1
  <2> PICK imp \in ImportAst : Importing(imp) /\
        \/ ImportUnknownModule(imp) \/ ImportSelf(imp) \/ ImportGlob(imp)
        \/ ImportFound(imp) \/ ImportLater(imp) \/ ImportOverflow(imp)
    BY <1>3 DEF ImportStage1
  <2>1. CASE ImportUnknownModule(imp)
    BY <2>1, TablesKept DEF ImportUnknownModule, tables
  <2>2. CASE ImportSelf(imp)
    BY <2>2, CrashKeeps DEF ImportSelf
  <2>3. CASE ImportGlob(imp)
    BY <2>3, TablesKept DEF ImportGlob
  <2>4. CASE ImportFound(imp)
    <3> DEFINE d == FindImport(imp.src, imp.symbol)
    <3>1. /\ imp.symbol \in Names
          /\ Reserve(Cur, {imp.symbol})
          /\ InsertDecl(Cur, imp.is_export, imp.symbol, d)
          /\ UNCHANGED declarations
      BY <2>4 DEF ImportFound
    <3> HIDE DEF d
    <3> QED
      BY <1>0, <3>1, ImportFields, ReserveGrows, InsertBinds
  <2>5. CASE ImportLater(imp)
    BY <2>5, TablesKept DEF ImportLater, tables
  <2>6. CASE ImportOverflow(imp)
    BY <2>6, CrashKeeps DEF ImportOverflow
  <2> QED
    BY <2>1, <2>2, <2>3, <2>4, <2>5, <2>6
<1>4. CASE EndImportStage1
  BY <1>4, TablesKept DEF EndImportStage1
<1>5. CASE DeclareFunctions
  <2> PICK f \in FunctionAst : Declaring(f) /\
        (DeclareFunction(f) \/ RejectFunction(f) \/ DeclareOverflow(f))
    BY <1>5 DEF DeclareFunctions
  <2>0. f.name \in Names
    BY DEF FunctionAst
  <2>1. CASE DeclareFunction(f)
    <3> DEFINE d == [home |-> Cur, name |-> f.name, kind |-> "function"]
    <3>1. /\ used_names' = [used_names EXCEPT ![Cur] = @ \cup {f.name}]
          /\ errors \cup Collisions(Cur, {f.name}) \subseteq errors'
          /\ declarations' = [declarations EXCEPT ![Cur][f.name] = d]
          /\ UNCHANGED <<import_decls, export_decls>>
      BY <2>1 DEF DeclareFunction
    <3>2. /\ \A m \in Modules : used_names[m] \subseteq used_names'[m]
          /\ Binds(Cur, f.name)
      BY <1>0, <2>0, <3>1 DEF Binds, Collisions, TypeOK
    <3> QED
      BY <1>0, <2>0, <3>1, <3>2, DeclareBinds
  <2>2. CASE RejectFunction(f)
    <3>1. \A m \in Modules : used_names[m] \subseteq used_names'[m]
      BY <1>0, <2>0, <2>2 DEF RejectFunction, TypeOK
    <3> QED
      BY <2>2, <3>1, TablesKept DEF RejectFunction, tables
  <2>3. CASE DeclareOverflow(f)
    BY <2>3, CrashKeeps DEF DeclareOverflow
  <2> QED
    BY <2>1, <2>2, <2>3
<1>6. CASE EndDeclareFunctions
  BY <1>6, TablesKept DEF EndDeclareFunctions, tables
<1>7. CASE ImportStage2
  <2> PICK imp \in ImportAst : Resolving(imp) /\
        \/ ReserveGlob(imp) \/ ResolveFound(imp) \/ ResolveMissing(imp)
        \/ ResolveOverflow(imp)
    BY <1>7 DEF ImportStage2
  <2>1. CASE ReserveGlob(imp)
    <3>1. Reserve(Cur, DeclaredNames(imp.src))
      BY <2>1 DEF ReserveGlob
    <3>2. /\ errors \subseteq errors'
          /\ \A k \in Modules : used_names[k] \subseteq used_names'[k]
      BY <1>0, <3>1, DeclaredNamesAreNames, ReserveGrows
    <3> QED
      BY <2>1, <3>2, TablesKept DEF ReserveGlob, Resolved
  <2>2. CASE ResolveFound(imp)
    <3> DEFINE d == FindImport(imp.src, imp.symbol)
    <3>1. /\ imp.symbol \in Names
          /\ Reserve(Cur, {imp.symbol})
          /\ InsertDecl(Cur, imp.is_export, imp.symbol, d)
          /\ UNCHANGED declarations
      BY <2>2 DEF ResolveFound, Resolved
    <3> HIDE DEF d
    <3> QED
      BY <1>0, <3>1, ImportFields, ReserveGrows, InsertBinds
  <2>3. CASE ResolveMissing(imp)
    BY <2>3, TablesKept DEF ResolveMissing, Resolved
  <2>4. CASE ResolveOverflow(imp)
    BY <2>4, CrashKeeps DEF ResolveOverflow
  <2> QED
    BY <2>1, <2>2, <2>3, <2>4
<1>8. CASE EndImportStage2
  <2>1. /\ errors \subseteq errors'
        /\ \A k \in Modules : used_names[k] \subseteq used_names'[k]
    <3>1. CASE UsesPrelude(Cur)
      BY <1>0, <1>8, <3>1, DeclaredNamesAreNames, ReserveGrows
         DEF EndImportStage2
    <3>2. CASE ~UsesPrelude(Cur)
      BY <1>8, <3>2 DEF EndImportStage2
    <3> QED
      BY <3>1, <3>2
  <2> QED
    BY <1>8, <2>1, TablesKept DEF EndImportStage2, tables
<1>9. CASE UNCHANGED vars
  BY <1>9, TablesKept DEF vars, tables
<1> QED
  BY <1>1, <1>2, <1>3, <1>4, <1>5, <1>6, <1>7, <1>8, <1>9 DEF Next

-----------------------------------------------------------------------------
(* The inductive invariant: a clash can only go unreported if a name is    *)
(* bound without being reserved.                                           *)
IInv == BoundNamesReserved /\ NoSilentClash

LEMMA IInvHolds == Spec => []IInv
<1>1. Init => IInv
  BY DEF Init, IInv, BoundNamesReserved, NoSilentClash, OwnBinding, Clash,
         NoDecls
<1>2. TypeOK /\ IInv /\ [Next]_vars => IInv'
  <2> SUFFICES ASSUME TypeOK, IInv, [Next]_vars PROVE IInv'
    OBVIOUS
  <2>1. StepBinds
    BY NextBinds
  <2>2. BoundNamesReserved'
    BY <2>1 DEF StepBinds, Binds, Changed, IInv, BoundNamesReserved, OwnBinding
  <2>3. NoSilentClash'
    <3> SUFFICES ASSUME NEW m \in Modules, NEW n \in Names, Clash(m, n)'
                 PROVE  (Err("E100", m, n) \in errors)'
      BY DEF NoSilentClash
    <3>1. CASE Clash(m, n)
      BY <2>1, <3>1 DEF StepBinds, IInv, NoSilentClash, Err
    <3>2. CASE ~Clash(m, n)
      <4>1. OwnBinding(m, n)
        BY <2>1, <3>2 DEF StepBinds, Changed, Clash, OwnBinding
      <4>2. n \in used_names[m]
        BY <4>1 DEF IInv, BoundNamesReserved
      <4>3. Binds(m, n)
        BY <2>1, <3>2 DEF StepBinds, Changed, Clash
      <4> QED
        BY <4>2, <4>3 DEF Binds, Err
    <3> QED
      BY <3>1, <3>2
  <2> QED
    BY <2>2, <2>3 DEF IInv
<1> QED
  BY <1>1, <1>2, TypeCorrect, PTL DEF Spec

(* No module has a name twice in its own tables without an E100 for it:    *)
(* the code reserves before it binds.                                      *)
THEOREM NoSilentClashHolds == Spec => []NoSilentClash
BY IInvHolds, PTL DEF IInv

(* No step changes what a bound name means without an E100 for it.         *)
THEOREM BindingsAreFinalHolds == Spec => BindingsAreFinal
<1> DEFINE Final ==
      \A m \in Modules, n \in Names :
        (\/ Rebound(declarations, m, n)
         \/ Rebound(import_decls, m, n)
         \/ Rebound(export_decls, m, n)) => Err("E100", m, n) \in errors'
<1>1. TypeOK /\ IInv /\ [Next]_vars => Final
  <2> SUFFICES ASSUME TypeOK, IInv, [Next]_vars,
                      NEW m \in Modules, NEW n \in Names,
                      \/ Rebound(declarations, m, n)
                      \/ Rebound(import_decls, m, n)
                      \/ Rebound(export_decls, m, n)
               PROVE  Err("E100", m, n) \in errors'
    OBVIOUS
  <2>1. OwnBinding(m, n)
    BY DEF Rebound, OwnBinding
  <2>2. n \in used_names[m]
    BY <2>1 DEF IInv, BoundNamesReserved
  <2>3. Binds(m, n)
    BY NextBinds DEF StepBinds, Changed, Rebound
  <2> QED
    BY <2>2, <2>3 DEF Binds
<1> QED
  BY <1>1, TypeCorrect, IInvHolds, PTL DEF Spec, BindingsAreFinal

-----------------------------------------------------------------------------
(* No import gets lost. Between the two import passes an import is in      *)
(* force, has been answered with an error, or waits in the unresolved list *)
(* of its module; SettleInv says which of these holds when.                *)

Listed(list, s) == \E i \in DOMAIN list : list[i] = s

Settled(m, imp) == \/ InForce(m, imp)
                   \/ Err("E102", m, imp.symbol) \in errors
                   \/ Err("E103", m, imp.symbol) \in errors

(* Imports by name wait; a "+" import is kept for its names only.          *)
Waits(m, imp) == imp.symbol # Glob /\ Listed(unresolved[m], imp)

Handled(m, imp) == Settled(m, imp) \/ Waits(m, imp)

(* The first import pass has been at the i-th import of m.                 *)
Visited(m, i) == \E j \in DOMAIN order : /\ order[j] = m
                                         /\ j < turn \/ (j = turn /\ i < item)

(* The first pass has handled what it has seen, the second has emptied the *)
(* lists of the modules it has seen, and every module gets its turn.       *)
SettleInv ==
  /\ \A m \in Modules : \E j \in DOMAIN order : order[j] = m
  /\ pass = "import_stage_1" =>
       \A m \in Modules : \A i \in DOMAIN prog[m].imports :
         Visited(m, i) => Handled(m, prog[m].imports[i])
  /\ pass \in {"declare_functions", "import_stage_2"} =>
       \A m \in Modules : \A i \in DOMAIN prog[m].imports :
         Handled(m, prog[m].imports[i])
  /\ pass = "import_stage_2" =>
       \A j \in DOMAIN order : j < turn => unresolved[order[j]] = <<>>
  /\ pass = "done" =>
       \A m \in Modules : \A i \in DOMAIN prog[m].imports :
         Settled(m, prog[m].imports[i])

(* The lists of g have what those of f have, and x is in that of k.        *)
Longer(f, g, k, x) ==
  /\ \A m \in Modules : \A s : Listed(f[m], s) => Listed(g[m], s)
  /\ Listed(g[k], x)

LEMMA AppendLists ==
  ASSUME NEW S, NEW f \in [Modules -> Seq(S)], NEW k \in Modules, NEW x \in S,
         NEW g, g = [f EXCEPT ![k] = Append(@, x)]
  PROVE  Longer(f, g, k, x)
<1>1. PICK r : r = Append(f[k], x)
  OBVIOUS
<1>2. f[k] \in Seq(S) /\ Len(f[k]) \in Nat /\ DOMAIN f[k] = 1..Len(f[k])
  BY LenProperties
<1>3. /\ r \in Seq(S) /\ Len(r) = Len(f[k]) + 1 /\ r[Len(f[k]) + 1] = x
      /\ \A i \in 1..Len(f[k]) : r[i] = f[k][i]
  BY <1>1, <1>2, AppendProperties
<1>4. DOMAIN r = 1..(Len(f[k]) + 1)
  BY <1>3, LenProperties
<1>5. /\ \A i \in DOMAIN f[k] : i \in DOMAIN r
      /\ Len(f[k]) + 1 \in DOMAIN r
  BY <1>2, <1>4
<1>6. g[k] = r /\ \A m \in Modules \ {k} : g[m] = f[m]
  BY <1>1
<1>7. Listed(g[k], x)
  BY <1>3, <1>5, <1>6 DEF Listed
<1>8. ASSUME NEW s, Listed(f[k], s) PROVE Listed(r, s)
  BY <1>2, <1>3, <1>5, <1>8 DEF Listed
<1> QED
  BY <1>6, <1>7, <1>8 DEF Longer

LEMMA InForceIs ==
  ASSUME NEW m, NEW imp \in ImportAst
  PROVE  InForce(m, imp) <=>
           \/ /\ imp.symbol = Glob /\ imp.is_export = TRUE
              /\ Listed(export_modules[m], imp.src)
           \/ /\ imp.symbol = Glob /\ imp.is_export = FALSE
              /\ Listed(import_modules[m], imp.src)
           \/ /\ imp.symbol # Glob /\ imp.is_export = TRUE
              /\ export_decls[m][imp.symbol] # None
           \/ /\ imp.symbol # Glob /\ imp.is_export = FALSE
              /\ import_decls[m][imp.symbol] # None
<1>1. imp.is_export \in BOOLEAN
  BY ImportFields
<1>2. CASE imp.is_export = TRUE
  BY <1>2 DEF InForce, Listed
<1>3. CASE imp.is_export = FALSE
  BY <1>3 DEF InForce, Listed
<1> QED
  BY <1>1, <1>2, <1>3

(* Modules and declarations that are taken stay taken.                     *)
Keeps ==
  /\ errors \subseteq errors'
  /\ \A m \in Modules : \A s :
       /\ Listed(import_modules[m], s) => Listed(import_modules'[m], s)
       /\ Listed(export_modules[m], s) => Listed(export_modules'[m], s)
  /\ \A m \in Modules, n \in Names :
       /\ import_decls[m][n] # None => import_decls'[m][n] # None
       /\ export_decls[m][n] # None => export_decls'[m][n] # None

LEMMA SettledStays ==
  ASSUME Keeps, NEW m \in Modules, NEW imp \in ImportAst, Settled(m, imp)
  PROVE  Settled(m, imp)'
<1>1. imp.symbol \in Names \cup {Glob}
  BY ImportFields
<1>2. CASE InForce(m, imp)
  <2>1. InForce(m, imp)'
    <3>1. InForce(m, imp)' <=>
           \/ /\ imp.symbol = Glob /\ imp.is_export = TRUE
              /\ Listed(export_modules'[m], imp.src)
           \/ /\ imp.symbol = Glob /\ imp.is_export = FALSE
              /\ Listed(import_modules'[m], imp.src)
           \/ /\ imp.symbol # Glob /\ imp.is_export = TRUE
              /\ export_decls'[m][imp.symbol] # None
           \/ /\ imp.symbol # Glob /\ imp.is_export = FALSE
              /\ import_decls'[m][imp.symbol] # None
      <4>1. imp.is_export \in BOOLEAN
        BY ImportFields
      <4>2. CASE imp.is_export = TRUE
        BY <4>2 DEF InForce, Listed
      <4>3. CASE imp.is_export = FALSE
        BY <4>3 DEF InForce, Listed
      <4> QED
        BY <4>1, <4>2, <4>3
    <3> QED
      BY <1>1, <1>2, <3>1, InForceIs DEF Keeps
  <2> QED
    BY <2>1 DEF Settled
<1>3. CASE \/ Err("E102", m, imp.symbol) \in errors
           \/ Err("E103", m, imp.symbol) \in errors
  BY <1>3 DEF Keeps, Settled, Err
<1> QED
  BY <1>2, <1>3 DEF Settled

(* A declaration that is bound is one.                                     *)
LEMMA InsertKeeps ==
  ASSUME TypeOK, NEW k \in Modules, NEW e \in BOOLEAN, NEW x \in Names,
         NEW d \in Declaration, InsertDecl(k, e, x, d),
         UNCHANGED <<import_modules, export_modules>>, errors \subseteq errors'
  PROVE  /\ Keeps
         /\ e = TRUE => export_decls'[k][x] # None
         /\ e = FALSE => import_decls'[k][x] # None
<1>0. d # None
  BY SpecialValues
<1>1. /\ import_decls \in [Modules -> [Names -> Declaration \cup {None}]]
      /\ export_decls \in [Modules -> [Names -> Declaration \cup {None}]]
  BY DEF TypeOK
<1>2. CASE e = TRUE
  <2>1. /\ export_decls' = [export_decls EXCEPT ![k][x] = d]
        /\ import_decls' = import_decls
    BY <1>2 DEF InsertDecl
  <2>2. \A m \in Modules, n \in Names :
          export_decls'[m][n] = IF m = k /\ n = x THEN d ELSE export_decls[m][n]
    BY <1>1, <2>1
  <2> QED
    BY <1>0, <1>2, <2>1, <2>2 DEF Keeps
<1>3. CASE e = FALSE
  <2>1. /\ import_decls' = [import_decls EXCEPT ![k][x] = d]
        /\ export_decls' = export_decls
    BY <1>3 DEF InsertDecl
  <2>2. \A m \in Modules, n \in Names :
          import_decls'[m][n] = IF m = k /\ n = x THEN d ELSE import_decls[m][n]
    BY <1>1, <2>1
  <2> QED
    BY <1>0, <1>3, <2>1, <2>2 DEF Keeps
<1> QED
  BY <1>2, <1>3

LEMMA PushKeeps ==
  ASSUME TypeOK, NEW k \in Modules, NEW e \in BOOLEAN, NEW s \in Modules,
         PushModule(k, e, s),
         UNCHANGED <<import_decls, export_decls>>, errors \subseteq errors'
  PROVE  /\ Keeps
         /\ e = TRUE => Listed(export_modules'[k], s)
         /\ e = FALSE => Listed(import_modules'[k], s)
<1>1. /\ import_modules \in [Modules -> Seq(Modules)]
      /\ export_modules \in [Modules -> Seq(Modules)]
  BY DEF TypeOK
<1>2. CASE e = TRUE
  <2>1. /\ export_modules' = [export_modules EXCEPT ![k] = Append(@, s)]
        /\ import_modules' = import_modules
    BY <1>2 DEF PushModule
  <2>2. PICK g : g = export_modules'
    OBVIOUS
  <2>3. Longer(export_modules, g, k, s)
    <3>1. PICK f : f = export_modules
      OBVIOUS
    <3>2. f \in [Modules -> Seq(Modules)] /\ g = [f EXCEPT ![k] = Append(@, s)]
      BY <1>1, <2>1, <2>2, <3>1
    <3>3. Longer(f, g, k, s)
      BY ONLY <3>2, k \in Modules, s \in Modules, AppendLists
    <3> QED
      BY ONLY <3>1, <3>3
  <2>4. Keeps
    BY <2>1, <2>2, <2>3 DEF Keeps, Longer
  <2> QED
    BY <1>2, <2>2, <2>3, <2>4 DEF Longer
<1>3. CASE e = FALSE
  <2>1. /\ import_modules' = [import_modules EXCEPT ![k] = Append(@, s)]
        /\ export_modules' = export_modules
    BY <1>3 DEF PushModule
  <2>2. PICK g : g = import_modules'
    OBVIOUS
  <2>3. Longer(import_modules, g, k, s)
    <3>1. PICK f : f = import_modules
      OBVIOUS
    <3>2. f \in [Modules -> Seq(Modules)] /\ g = [f EXCEPT ![k] = Append(@, s)]
      BY <1>1, <2>1, <2>2, <3>1
    <3>3. Longer(f, g, k, s)
      BY ONLY <3>2, k \in Modules, s \in Modules, AppendLists
    <3> QED
      BY ONLY <3>1, <3>3
  <2>4. Keeps
    BY <2>1, <2>2, <2>3 DEF Keeps, Longer
  <2> QED
    BY <1>3, <2>2, <2>3, <2>4 DEF Longer
<1> QED
  BY <1>2, <1>3

LEMMA NothingTaken ==
  ASSUME UNCHANGED <<import_decls, export_decls, import_modules, export_modules>>,
         errors \subseteq errors'
  PROVE  Keeps
BY DEF Keeps

LEMMA ImportsTyped ==
  ASSUME TypeOK, NEW m \in Modules, NEW i \in DOMAIN prog[m].imports
  PROVE  /\ prog[m].imports[i] \in ImportAst /\ prog[m].imports \in Seq(ImportAst)
         /\ i \in 1..Len(prog[m].imports) /\ Len(prog[m].imports) \in Nat
<1>1. prog[m].imports \in Seq(ImportAst)
  BY DEF TypeOK, ModuleAst
<1>2. Len(prog[m].imports) \in Nat /\ DOMAIN prog[m].imports = 1..Len(prog[m].imports)
  BY <1>1, LenProperties
<1> QED
  BY <1>1, <1>2, ElementOfSeq

LEMMA OrderTyped ==
  ASSUME TypeOK
  PROVE  /\ Len(order) \in Nat /\ DOMAIN order = 1..Len(order) /\ turn \in 1..Len(order)
         /\ turn \in Nat /\ item \in Nat \ {0}
<1>1. order \in Seq(Modules) /\ turn \in 1..Len(order) /\ item \in Nat \ {0}
  BY DEF TypeOK
<1> QED
  BY <1>1, LenProperties

LEMMA HandledStays ==
  ASSUME Keeps, NEW m \in Modules, NEW imp \in ImportAst, Handled(m, imp),
         \A x : Listed(unresolved[m], x) => Listed(unresolved'[m], x)
  PROVE  Handled(m, imp)'
<1>1. Settled(m, imp) => Settled(m, imp)'
  BY SettledStays
<1>2. Waits(m, imp) => Waits(m, imp)'
  BY DEF Waits, Listed
<1> QED
  BY <1>1, <1>2 DEF Handled

(* The pass goes on to the next import, when this one has been handled.    *)
LEMMA VisitItem ==
  ASSUME TypeOK, SettleInv, pass = "import_stage_1", NextItem, UNCHANGED <<prog, order>>,
         Keeps, \A m \in Modules : \A x : Listed(unresolved[m], x) => Listed(unresolved'[m], x),
         NEW imp, imp = prog[Cur].imports[item], Handled(Cur, imp)'
  PROVE  SettleInv'
<1>1. ASSUME NEW m \in Modules, NEW i \in DOMAIN prog[m].imports, Visited(m, i)'
      PROVE  Handled(m, prog[m].imports[i])'
  <2>1. PICK j \in DOMAIN order : order[j] = m /\ (j < turn \/ (j = turn /\ i < item + 1))
    BY <1>1 DEF Visited, NextItem
  <2>2. i \in Nat /\ item \in Nat
    BY ImportsTyped, OrderTyped
  <2>3. CASE j < turn \/ (j = turn /\ i < item)
    <3>1. Visited(m, i)
      BY <2>1, <2>3 DEF Visited
    <3>2. Handled(m, prog[m].imports[i])
      BY <3>1 DEF SettleInv
    <3> QED
      BY <3>2, ImportsTyped, HandledStays
  <2>4. CASE j = turn /\ i = item
    <3>1. m = Cur /\ prog[m].imports[i] = imp
      BY <2>1, <2>4 DEF Cur
    <3>2. Cur' = Cur /\ prog' = prog
      BY DEF Cur, NextItem
    <3> QED
      BY <3>1, <3>2
  <2> QED
    BY <2>1, <2>2, <2>3, <2>4
<1>2. pass' = "import_stage_1"
  BY DEF NextItem
<1>3. \A m \in Modules : \E j \in DOMAIN order' : order'[j] = m
  BY DEF SettleInv
<1> QED
  BY <1>1, <1>2, <1>3 DEF SettleInv

LEMMA CrashSettles == ASSUME SettleInv, NEW how \in {"panic", "overflow"}, Crash(how)
                      PROVE  SettleInv'
BY DEF Crash, SettleInv

LEMMA StayListed ==
  ASSUME TypeOK, NEW imp \in ImportAst, UNCHANGED unresolved \/ Defer(imp)
  PROVE  /\ \A m \in Modules : \A x : Listed(unresolved[m], x) => Listed(unresolved'[m], x)
         /\ Defer(imp) => Listed(unresolved'[Cur], imp)
<1>1. CASE UNCHANGED unresolved /\ ~Defer(imp)
  BY <1>1 DEF Listed
<1>2. CASE Defer(imp)
  <2>1. PICK f : f = unresolved
    OBVIOUS
  <2>2. PICK g : g = unresolved'
    OBVIOUS
  <2>3. PICK k : k = Cur
    OBVIOUS
  <2>4. f \in [Modules -> Seq(ImportAst)] /\ k \in Modules
        /\ g = [f EXCEPT ![k] = Append(@, imp)]
    BY <1>2, <2>1, <2>2, <2>3, CurIsModule DEF TypeOK, Defer
  <2>5. Longer(f, g, k, imp)
    BY ONLY <2>4, imp \in ImportAst, AppendLists
  <2> QED
    BY <2>1, <2>2, <2>3, <2>5 DEF Longer
<1> QED
  BY <1>1, <1>2

LEMMA Stage1Settles == ASSUME TypeOK, SettleInv, ImportStage1 PROVE SettleInv'
<1>1. PICK imp \in ImportAst : Importing(imp) /\
        \/ ImportUnknownModule(imp) \/ ImportSelf(imp) \/ ImportGlob(imp)
        \/ ImportFound(imp) \/ ImportLater(imp) \/ ImportOverflow(imp)
  BY DEF ImportStage1
<1>2. pass = "import_stage_1" /\ imp = prog[Cur].imports[item] /\ Cur \in Modules
      /\ imp.is_export \in BOOLEAN
  BY <1>1, CurIsModule, ImportFields DEF Importing
<1>3. CASE ImportSelf(imp) \/ ImportOverflow(imp)
  BY <1>3, CrashSettles DEF ImportSelf, ImportOverflow
<1>4. CASE ImportUnknownModule(imp)
  <2>1. Keeps
    BY <1>4, NothingTaken DEF ImportUnknownModule, tables
  <2>2. Err("E102", Cur, imp.symbol) \in errors' /\ Cur' = Cur
    BY <1>4 DEF ImportUnknownModule, NextItem, Cur
  <2>3. Handled(Cur, imp)'
    BY <2>2 DEF Handled, Settled, Err
  <2>4. NextItem /\ UNCHANGED <<prog, order, unresolved>>
    BY <1>4 DEF ImportUnknownModule
  <2> QED
    BY <1>1, <1>2, <2>1, <2>3, <2>4, StayListed, VisitItem
<1>5. CASE ImportGlob(imp)
  <2>1. /\ imp.src \in Modules /\ imp.symbol = Glob /\ PushModule(Cur, imp.is_export, imp.src)
        /\ Defer(imp) /\ NextItem /\ UNCHANGED <<prog, order, import_decls, export_decls, errors>>
    BY <1>5 DEF ImportGlob
  <2>2. /\ Keeps
        /\ imp.is_export = TRUE => Listed(export_modules'[Cur], imp.src)
        /\ imp.is_export = FALSE => Listed(import_modules'[Cur], imp.src)
    BY <1>2, <2>1, PushKeeps
  <2>3. Cur' = Cur
    BY <2>1 DEF NextItem, Cur
  <2>4. InForce(Cur, imp)'
    BY <1>2, <2>1, <2>2, <2>3 DEF InForce, Listed
  <2>5. Handled(Cur, imp)'
    BY <2>4 DEF Handled, Settled
  <2> QED
    BY <1>2, <2>1, <2>2, <2>5, StayListed, VisitItem
<1>6. CASE ImportFound(imp)
  <2>1. PICK d : d = FindImport(imp.src, imp.symbol)
    OBVIOUS
  <2>2. /\ imp.symbol \in Names /\ d \in Declaration /\ Reserve(Cur, {imp.symbol})
        /\ InsertDecl(Cur, imp.is_export, imp.symbol, d)
        /\ NextItem /\ UNCHANGED <<prog, order, import_modules, export_modules, unresolved>>
    BY <1>6, <2>1 DEF ImportFound
  <2>3. errors \subseteq errors'
    BY <2>2 DEF Reserve
  <2>4. /\ Keeps
        /\ imp.is_export = TRUE => export_decls'[Cur][imp.symbol] # None
        /\ imp.is_export = FALSE => import_decls'[Cur][imp.symbol] # None
    BY <1>2, <2>2, <2>3, InsertKeeps
  <2>5. Cur' = Cur /\ imp.symbol # Glob
    BY <2>2, SpecialValues DEF NextItem, Cur
  <2>6. InForce(Cur, imp)'
    BY <1>2, <2>4, <2>5 DEF InForce
  <2>7. Handled(Cur, imp)'
    BY <2>6 DEF Handled, Settled
  <2> QED
    BY <1>2, <2>2, <2>4, <2>7, StayListed, VisitItem
<1>7. CASE ImportLater(imp)
  <2>1. /\ imp.symbol \in Names /\ Defer(imp) /\ NextItem
        /\ UNCHANGED <<prog, order, tables, errors>>
    BY <1>7 DEF ImportLater
  <2>2. Keeps
    BY <2>1, NothingTaken DEF tables
  <2>3. Cur' = Cur /\ imp.symbol # Glob
    BY <2>1, SpecialValues DEF NextItem, Cur
  <2>4. Listed(unresolved'[Cur], imp)
    BY <2>1, StayListed
  <2>5. Handled(Cur, imp)'
    BY <2>3, <2>4 DEF Handled, Waits, Listed
  <2> QED
    BY <1>2, <2>1, <2>2, <2>5, StayListed, VisitItem
<1> QED
  BY <1>1, <1>3, <1>4, <1>5, <1>6, <1>7

LEMMA EndStage1Settles == ASSUME TypeOK, SettleInv, EndImportStage1 PROVE SettleInv'
<1>1. /\ pass = "import_stage_1" /\ item > Len(prog[Cur].imports)
      /\ NextModule("declare_functions")
      /\ UNCHANGED <<prog, order, import_decls, export_decls, export_modules, unresolved, errors>>
      /\ import_modules' = import_modules
         \/ /\ import_modules' = [import_modules EXCEPT ![Cur] = Append(@, Prelude)]
            /\ Prelude \in Modules
  BY PreludeIsModule DEF EndImportStage1, UsesPrelude
<1>2. Keeps
  <2>1. CASE import_modules' = import_modules
    BY <1>1, <2>1, NothingTaken
  <2>2. CASE /\ import_modules' = [import_modules EXCEPT ![Cur] = Append(@, Prelude)]
             /\ Prelude \in Modules
    <3>1. PushModule(Cur, FALSE, Prelude)
      BY <1>1, <2>2 DEF PushModule
    <3> QED
      BY <1>1, <2>2, <3>1, CurIsModule, PushKeeps
  <2> QED
    BY <1>1, <2>1, <2>2
<1>3. ASSUME NEW m \in Modules, NEW i \in DOMAIN prog[m].imports,
             Visited(m, i) \/ \E j \in DOMAIN order : order[j] = m /\ j = turn
      PROVE  Handled(m, prog[m].imports[i])'
  <2>1. Visited(m, i)
    <3>1. CASE \E j \in DOMAIN order : order[j] = m /\ j = turn
      <4>1. m = Cur /\ i < item
        BY <1>1, <3>1, ImportsTyped, OrderTyped DEF Cur
      <4> QED
        BY <3>1, <4>1 DEF Visited
    <3> QED
      BY <1>3, <3>1
  <2>2. Handled(m, prog[m].imports[i])
    BY <1>1, <2>1 DEF SettleInv
  <2> QED
    BY <1>1, <1>2, <2>2, ImportsTyped, HandledStays DEF Listed
<1>4. CASE turn < Len(order)
  <2>1. pass' = "import_stage_1" /\ turn' = turn + 1 /\ item' = 1
    BY <1>1, <1>4 DEF NextModule
  <2>2. ASSUME NEW m \in Modules, NEW i \in DOMAIN prog[m].imports, Visited(m, i)'
        PROVE  Handled(m, prog[m].imports[i])'
    <3>1. PICK j \in DOMAIN order : order[j] = m /\ (j < turn + 1 \/ i < 1)
      BY <1>1, <2>1, <2>2 DEF Visited
    <3>2. i \in Nat \ {0} /\ j \in Nat /\ turn \in Nat
      BY ImportsTyped, OrderTyped
    <3>3. j < turn \/ j = turn
      BY <3>1, <3>2
    <3> QED
      BY <1>3, <3>1, <3>3 DEF Visited
  <2> QED
    BY <1>1, <2>1, <2>2 DEF SettleInv
<1>5. CASE ~(turn < Len(order))
  <2>1. pass' = "declare_functions"
    BY <1>1, <1>5 DEF NextModule
  <2>2. ASSUME NEW m \in Modules, NEW i \in DOMAIN prog[m].imports
        PROVE  Handled(m, prog[m].imports[i])'
    <3>1. PICK j \in DOMAIN order : order[j] = m
      BY DEF SettleInv
    <3>2. j < turn \/ j = turn
      BY <1>5, OrderTyped
    <3> QED
      BY <1>3, <3>1, <3>2 DEF Visited
  <2> QED
    BY <1>1, <2>1, <2>2 DEF SettleInv
<1> QED
  BY <1>4, <1>5

(* From one import pass to the other nothing is taken back.                *)
LEMMA StillHandled ==
  ASSUME TypeOK, SettleInv, pass = "declare_functions",
         UNCHANGED <<prog, order, import_decls, export_decls, import_modules, export_modules,
                     unresolved>>,
         errors \subseteq errors',
         pass' = "declare_functions" \/ (pass' = "import_stage_2" /\ turn' = 1)
  PROVE  SettleInv'
<1>1. Keeps
  BY NothingTaken
<1>2. ASSUME NEW m \in Modules, NEW i \in DOMAIN prog[m].imports
      PROVE  Handled(m, prog[m].imports[i])'
  <2>1. Handled(m, prog[m].imports[i])
    BY DEF SettleInv
  <2> QED
    BY <1>1, <2>1, ImportsTyped, HandledStays DEF Listed
<1>3. ASSUME turn' = 1, NEW j \in DOMAIN order
      PROVE  ~(j < turn')
  BY <1>3, OrderTyped
<1> QED
  BY <1>2, <1>3 DEF SettleInv

LEMMA FunctionsSettle ==
  ASSUME TypeOK, SettleInv, DeclareFunctions \/ EndDeclareFunctions
  PROVE  SettleInv'
<1>1. CASE DeclareFunctions
  <2>1. PICK f \in FunctionAst : Declaring(f) /\
          (DeclareFunction(f) \/ RejectFunction(f) \/ DeclareOverflow(f))
    BY <1>1 DEF DeclareFunctions
  <2>2. CASE DeclareOverflow(f)
    BY <2>2, CrashSettles DEF DeclareOverflow
  <2>3. CASE DeclareFunction(f) \/ RejectFunction(f)
    BY <2>1, <2>3, StillHandled DEF Declaring, DeclareFunction, RejectFunction, NextItem, tables
  <2> QED
    BY <2>1, <2>2, <2>3
<1>2. CASE EndDeclareFunctions
  BY <1>2, StillHandled DEF EndDeclareFunctions, NextModule, tables
<1> QED
  BY <1>1, <1>2

LEMMA TailListed ==
  ASSUME NEW S, NEW s \in Seq(S), s # <<>>, NEW x, Listed(s, x), x # Head(s)
  PROVE  Listed(Tail(s), x)
<1>1. /\ Len(s) \in Nat \ {0} /\ DOMAIN s = 1..Len(s)
      /\ Tail(s) \in Seq(S) /\ Len(Tail(s)) = Len(s) - 1 /\ Head(s) = s[1]
  BY EmptySeq, LenProperties, HeadTailProperties
<1>2. PICK i \in 1..Len(s) : s[i] = x
  BY <1>1 DEF Listed
<1>3. PICK j : j = i - 1
  OBVIOUS
<1>4. i # 1 /\ j \in 1..(Len(s) - 1) /\ j + 1 = i
  BY <1>1, <1>2, <1>3
<1>5. Tail(s)[j] = s[j + 1]
  BY <1>1, <1>4, HeadTailProperties
<1>6. DOMAIN Tail(s) = 1..(Len(s) - 1)
  BY <1>1, LenProperties
<1> QED
  BY <1>2, <1>4, <1>5, <1>6 DEF Listed

LEMMA ResolvedSettles ==
  ASSUME TypeOK, SettleInv, NEW imp \in ImportAst, Resolving(imp), Resolved, Keeps,
         imp.symbol # Glob => Settled(Cur, imp)'
  PROVE  SettleInv'
<1>0. Cur \in Modules /\ unresolved \in [Modules -> Seq(ImportAst)]
  BY CurIsModule DEF TypeOK
<1>1. /\ pass = "import_stage_2" /\ unresolved[Cur] # <<>> /\ imp = Head(unresolved[Cur])
      /\ unresolved' = [unresolved EXCEPT ![Cur] = Tail(@)]
      /\ UNCHANGED <<prog, order, pass, turn, item>>
  BY DEF Resolving, Resolved
<1>2. ASSUME NEW m \in Modules, NEW i \in DOMAIN prog[m].imports
      PROVE  Handled(m, prog[m].imports[i])'
  <2>1. PICK x : x = prog[m].imports[i]
    OBVIOUS
  <2>2. x \in ImportAst /\ Handled(m, x) /\ prog'[m].imports[i] = x
    BY <1>1, <2>1, ImportsTyped DEF SettleInv
  <2>3. CASE Settled(m, x)
    BY <2>1, <2>2, <2>3, SettledStays DEF Handled
  <2>4. CASE Waits(m, x)
    <3>1. CASE m # Cur
      <4>1. unresolved'[m] = unresolved[m]
        BY <1>0, <1>1, <3>1
      <4> QED
        BY <2>1, <2>2, <2>4, <4>1 DEF Handled, Waits, Listed
    <3>2. CASE m = Cur /\ x = imp
      <4>1. Settled(m, x)'
        <5>1. Cur' = Cur
          BY <1>1 DEF Cur
        <5> QED
          BY <2>4, <3>2, <5>1 DEF Waits
      <4> QED
        BY <2>1, <2>2, <4>1 DEF Handled
    <3>3. CASE m = Cur /\ x # imp
      <4>1. unresolved'[m] = Tail(unresolved[m]) /\ unresolved[m] \in Seq(ImportAst)
        BY <1>0, <1>1, <3>3
      <4>2. Listed(Tail(unresolved[m]), x)
        BY <1>1, <2>4, <3>3, <4>1, TailListed DEF Waits
      <4>3. Waits(m, x)'
        BY <2>4, <4>1, <4>2 DEF Waits, Listed
      <4> QED
        BY <2>1, <2>2, <4>3 DEF Handled
    <3> QED
      BY <3>1, <3>2, <3>3
  <2> QED
    BY <2>2, <2>3, <2>4 DEF Handled
<1>3. ASSUME NEW j \in DOMAIN order, j < turn
      PROVE  unresolved'[order[j]] = <<>>
  <2>1. unresolved[order[j]] = <<>>
    BY <1>1, <1>3 DEF SettleInv
  <2> QED
    BY <1>0, <1>1, <2>1
<1> QED
  BY <1>1, <1>2, <1>3 DEF SettleInv

LEMMA Stage2Settles == ASSUME TypeOK, SettleInv, ImportStage2 PROVE SettleInv'
<1>1. PICK imp \in ImportAst : Resolving(imp) /\
        \/ ReserveGlob(imp) \/ ResolveFound(imp) \/ ResolveMissing(imp)
        \/ ResolveOverflow(imp)
  BY DEF ImportStage2
<1>2. Cur \in Modules /\ imp.is_export \in BOOLEAN
  BY CurIsModule, ImportFields
<1>3. CASE ResolveOverflow(imp)
  BY <1>3, CrashSettles DEF ResolveOverflow
<1>4. CASE ReserveGlob(imp)
  <2>1. imp.symbol = Glob /\ Resolved
    BY <1>4 DEF ReserveGlob
  <2>2. Keeps
    BY <1>4, NothingTaken DEF ReserveGlob, Resolved, Reserve
  <2> QED
    BY <1>1, <2>1, <2>2, ResolvedSettles
<1>5. CASE ResolveFound(imp)
  <2>1. PICK d : d = FindImport(imp.src, imp.symbol)
    OBVIOUS
  <2>2. /\ imp.symbol \in Names /\ d \in Declaration /\ Reserve(Cur, {imp.symbol})
        /\ InsertDecl(Cur, imp.is_export, imp.symbol, d) /\ Resolved
        /\ UNCHANGED <<import_modules, export_modules, order, turn>>
    BY <1>5, <2>1 DEF ResolveFound, Resolved
  <2>3. errors \subseteq errors'
    BY <2>2 DEF Reserve
  <2>4. /\ Keeps
        /\ imp.is_export = TRUE => export_decls'[Cur][imp.symbol] # None
        /\ imp.is_export = FALSE => import_decls'[Cur][imp.symbol] # None
    BY <1>2, <2>2, <2>3, InsertKeeps
  <2>5. Cur' = Cur /\ imp.symbol # Glob
    BY <2>2, SpecialValues DEF Cur
  <2>6. InForce(Cur, imp)'
    BY <1>2, <2>4, <2>5 DEF InForce
  <2>7. Settled(Cur, imp)'
    BY <2>6 DEF Settled
  <2> QED
    BY <1>1, <2>2, <2>4, <2>7, ResolvedSettles
<1>6. CASE ResolveMissing(imp)
  <2>1. /\ errors' = errors \cup {Err("E103", Cur, imp.symbol)} /\ Resolved
        /\ UNCHANGED <<import_decls, export_decls, import_modules, export_modules, order, turn>>
    BY <1>6 DEF ResolveMissing, Resolved
  <2>2. Keeps
    BY <2>1, NothingTaken
  <2>3. Err("E103", Cur, imp.symbol) \in errors' /\ Cur' = Cur
    BY <2>1 DEF Cur
  <2>4. Settled(Cur, imp)'
    BY <2>3 DEF Settled, Err
  <2> QED
    BY <1>1, <2>1, <2>2, <2>4, ResolvedSettles
<1> QED
  BY <1>1, <1>3, <1>4, <1>5, <1>6

LEMMA EndStage2Settles == ASSUME TypeOK, SettleInv, EndImportStage2 PROVE SettleInv'
<1>1. /\ pass = "import_stage_2" /\ unresolved[Cur] = <<>> /\ NextModule("done")
      /\ UNCHANGED <<prog, order, tables, unresolved>> /\ errors \subseteq errors'
  BY DEF EndImportStage2, Reserve
<1>2. Keeps
  BY <1>1, NothingTaken DEF tables
<1>3. ASSUME NEW m \in Modules, NEW i \in DOMAIN prog[m].imports
      PROVE  Handled(m, prog[m].imports[i])'
  <2>1. Handled(m, prog[m].imports[i])
    BY <1>1 DEF SettleInv
  <2> QED
    BY <1>1, <1>2, <2>1, ImportsTyped, HandledStays DEF Listed
<1>4. ASSUME NEW j \in DOMAIN order, j < turn \/ j = turn
      PROVE  unresolved'[order[j]] = <<>>
  BY <1>1, <1>4 DEF SettleInv, Cur
<1>5. CASE turn < Len(order)
  <2>1. pass' = "import_stage_2" /\ turn' = turn + 1
    BY <1>1, <1>5 DEF NextModule
  <2>2. \A j \in DOMAIN order : j < turn' => j < turn \/ j = turn
    BY <2>1, OrderTyped
  <2> QED
    BY <1>1, <1>3, <1>4, <2>1, <2>2 DEF SettleInv
<1>6. CASE ~(turn < Len(order))
  <2>1. pass' = "done"
    BY <1>1, <1>6 DEF NextModule
  <2>2. ASSUME NEW m \in Modules, NEW i \in DOMAIN prog[m].imports
        PROVE  Settled(m, prog[m].imports[i])'
    <3>1. PICK j \in DOMAIN order : order[j] = m
      BY DEF SettleInv
    <3>2. j < turn \/ j = turn
      BY <1>6, OrderTyped
    <3>3. unresolved'[m] = <<>>
      BY <1>4, <3>1, <3>2
    <3>4. ~Waits(m, prog[m].imports[i])'
      BY <3>3 DEF Waits, Listed
    <3> QED
      BY <1>3, <3>4 DEF Handled
  <2> QED
    BY <1>1, <2>1, <2>2 DEF SettleInv
<1> QED
  BY <1>5, <1>6

LEMMA SettleInvHolds == Spec => []SettleInv
<1>1. Init => SettleInv
  BY OrdersAreLists DEF Init, SettleInv
<1>2. TypeOK /\ SettleInv /\ [Next]_vars => SettleInv'
  <2> SUFFICES ASSUME TypeOK, SettleInv, [Next]_vars
               PROVE  SettleInv'
    OBVIOUS
  <2>1. CASE DeclareAdt
    BY <2>1 DEF DeclareAdt, NextItem, SettleInv
  <2>2. CASE EndDeclareAdts
    <3>1. /\ UNCHANGED <<prog, order>>
          /\ pass' = "declare_adts" \/ (pass' = "import_stage_1" /\ turn' = 1 /\ item' = 1)
      BY <2>2 DEF EndDeclareAdts, NextModule
    <3>2. ASSUME NEW m \in Modules, NEW i \in DOMAIN prog[m].imports, turn' = 1, item' = 1
          PROVE  ~Visited(m, i)'
      BY <3>1, <3>2, ImportsTyped, OrderTyped DEF Visited
    <3> QED
      BY <3>1, <3>2 DEF SettleInv
  <2>3. CASE UNCHANGED vars
    BY <2>3 DEF vars, tables, SettleInv, Visited, Handled, Settled, Waits, InForce, Listed
  <2> QED
    BY <2>1, <2>2, <2>3, Stage1Settles, EndStage1Settles, FunctionsSettle, Stage2Settles,
       EndStage2Settles DEF Next
<1> QED
  BY <1>1, <1>2, TypeCorrect, PTL DEF Spec

(* When the stage is over each import of each module is in force or was    *)
(* reported, whatever the modules import and in whichever order they are   *)
(* read: none gets lost between import_stage_1, which keeps what it does   *)
(* not find in unresolved, and import_stage_2, which empties that list     *)
(* (import.rs).                                                            *)
THEOREM ImportsSettledHolds == Spec => []ImportsSettled
<1>1. TypeOK /\ SettleInv => ImportsSettled
  BY DEF SettleInv, Settled, ImportsSettled, ImportsOf
<1> QED
  BY <1>1, TypeCorrect, SettleInvHolds, PTL

-----------------------------------------------------------------------------
(* No two "+" imports of a module that declare a common name, and none     *)
(* that declares a name the module has itself, go unreported.  The names a *)
(* "+" import brings in are reserved in the second import pass only; until *)
(* then the import waits in the unresolved list, and the prelude waits for *)
(* the end of its module's visit.  Of the imports that do not wait any     *)
(* more, GlobInv says that their names are reserved (Counted).             *)

GlobWaits(m, s) == \E i \in DOMAIN unresolved[m] :
                     unresolved[m][i].symbol = Glob /\ unresolved[m][i].src = s

PreludeWaits(m, s) ==
  /\ s = Prelude /\ UsesPrelude(m)
  /\ pass = "import_stage_2" => \E j \in DOMAIN order : turn <= j /\ order[j] = m
  /\ pass # "done"

Waiting(m, s) == GlobWaits(m, s) \/ PreludeWaits(m, s)

Counted(m, s) ==
  \A n \in DeclaredNames(s) :
    /\ n \in used_names[m]
    /\ OwnBinding(m, n) => Err("E100", m, n) \in errors
    /\ \A t \in GlobSources(m) \ {s} :
         n \in DeclaredNames(t) => Waiting(m, t) \/ Err("E100", m, n) \in errors

GlobInv ==
  /\ pass \in {"declare_adts", "import_stage_1", "declare_functions"} =>
       \A m \in Modules : \A s \in GlobSources(m) : Waiting(m, s)
  /\ pass \in {"import_stage_2", "done"} =>
       \A m \in Modules : \A s \in GlobSources(m) : Waiting(m, s) \/ Counted(m, s)
  /\ pass = "done" => \A m \in Modules : unresolved[m] = <<>>

LEMMA GlobSourcesAre ==
  ASSUME NEW m, NEW s
  PROVE  s \in GlobSources(m) <=> Listed(import_modules[m], s) \/ Listed(export_modules[m], s)
BY DEF GlobSources, Listed

LEMMA GlobSourcesNext ==
  ASSUME NEW m, NEW s
  PROVE  s \in GlobSources(m)' <=> Listed(import_modules'[m], s) \/ Listed(export_modules'[m], s)
BY DEF GlobSources, Listed

LEMMA GlobWaitsIs ==
  ASSUME NEW m, NEW s
  PROVE  /\ GlobWaits(m, s)
            <=> \E imp : Listed(unresolved[m], imp) /\ imp.symbol = Glob /\ imp.src = s
         /\ GlobWaits(m, s)'
            <=> \E imp : Listed(unresolved'[m], imp) /\ imp.symbol = Glob /\ imp.src = s
BY DEF GlobWaits, Listed

(* Reserving the names ns in module k accounts for the "+" import of s0    *)
(* there, if it stops waiting.                                             *)
Reserves(k, ns, s0) ==
  /\ UNCHANGED <<declarations, import_modules, export_modules>>
  /\ Reserve(k, ns)
  /\ \A m \in Modules : \A s \in GlobSources(m) :
       Waiting(m, s) => Waiting(m, s)' \/ (m = k /\ s = s0 /\ ns = DeclaredNames(s0))
  /\ \/ \A m \in Modules : \A n \in Names : OwnBinding(m, n)' => OwnBinding(m, n)
     \/ /\ \A m \in Modules : \A n \in Names :
             OwnBinding(m, n)' => OwnBinding(m, n) \/ (m = k /\ n \in ns)
        /\ \A m \in Modules : \A s \in GlobSources(m) : Waiting(m, s) => Waiting(m, s)'

LEMMA ReserveUses ==
  ASSUME TypeOK, NEW k \in Modules, NEW ns \in SUBSET Names, Reserve(k, ns),
         NEW m \in Modules, NEW n \in Names
  PROVE  /\ errors \subseteq errors'
         /\ n \in used_names[m] => n \in used_names'[m]
         /\ m = k /\ n \in ns => n \in used_names'[m]
         /\ m = k /\ n \in ns /\ n \in used_names[m] => Err("E100", m, n) \in errors'
<1>1. used_names \in [Modules -> SUBSET Names] BY DEF TypeOK
<1>2. used_names' = [used_names EXCEPT ![k] = @ \cup ns] /\ errors' = errors \cup Collisions(k, ns)
  BY DEF Reserve
<1>3. ASSUME m = k, n \in ns, n \in used_names[m] PROVE Err("E100", m, n) \in Collisions(k, ns)
  BY <1>3 DEF Collisions
<1> QED BY <1>1, <1>2, <1>3

LEMMA ReserveCounts ==
  ASSUME TypeOK, BoundNamesReserved, NEW k \in Modules, NEW ns \in SUBSET Names, NEW s0,
         Reserves(k, ns, s0),
         \A m \in Modules : \A s \in GlobSources(m) : Waiting(m, s) \/ Counted(m, s)
  PROVE  \A m \in Modules : \A s \in GlobSources(m)' : Waiting(m, s)' \/ Counted(m, s)'
<1>0. /\ \A m : GlobSources(m)' = GlobSources(m)
      /\ \A m : DeclaredNames(m)' = DeclaredNames(m)
      /\ \A m : DeclaredNames(m) \subseteq Names
      /\ Reserve(k, ns)
  BY DEF Reserves, GlobSources, DeclaredNames
<1> SUFFICES ASSUME NEW m \in Modules, NEW s \in GlobSources(m), ~Waiting(m, s)'
             PROVE  Counted(m, s)'
  BY <1>0
<1> SUFFICES ASSUME NEW n \in DeclaredNames(s)
             PROVE  /\ n \in used_names'[m]
                    /\ OwnBinding(m, n)' => Err("E100", m, n) \in errors'
                    /\ \A t \in GlobSources(m) \ {s} :
                         n \in DeclaredNames(t) => Waiting(m, t)' \/ Err("E100", m, n) \in errors'
  BY <1>0 DEF Counted, Err
<1>1. n \in Names BY <1>0
<1>2. /\ errors \subseteq errors'
      /\ n \in used_names[m] => n \in used_names'[m]
      /\ m = k /\ n \in ns => n \in used_names'[m]
      /\ m = k /\ n \in ns /\ n \in used_names[m] => Err("E100", m, n) \in errors'
  BY <1>0, <1>1, ReserveUses
<1>3. \A t \in GlobSources(m) : Waiting(m, t) \/ Counted(m, t) OBVIOUS
<1>4. \A t \in GlobSources(m) :
        Waiting(m, t) => Waiting(m, t)' \/ (m = k /\ t = s0 /\ ns = DeclaredNames(s0))
  BY DEF Reserves
<1>5. OwnBinding(m, n) => n \in used_names[m] BY <1>1 DEF BoundNamesReserved
<1>6. CASE Waiting(m, s)
  <2>1. m = k /\ s = s0 /\ ns = DeclaredNames(s0) /\ n \in ns BY <1>4, <1>6
  <2>2. OwnBinding(m, n)' => OwnBinding(m, n) BY <1>1, <1>6 DEF Reserves
  <2>3. ASSUME NEW t \in GlobSources(m) \ {s}, n \in DeclaredNames(t), ~Waiting(m, t)'
        PROVE  Err("E100", m, n) \in errors'
    <3>1. ~Waiting(m, t) BY <1>4, <2>1, <2>3
    <3>2. n \in used_names[m] BY <3>1, <1>3, <2>3 DEF Counted
    <3> QED BY <3>2, <1>2, <2>1
  <2> QED BY <2>1, <2>2, <2>3, <1>2, <1>5
<1>7. CASE ~Waiting(m, s)
  <2>1. /\ n \in used_names[m]
        /\ OwnBinding(m, n) => Err("E100", m, n) \in errors
        /\ \A t \in GlobSources(m) \ {s} :
             n \in DeclaredNames(t) => Waiting(m, t) \/ Err("E100", m, n) \in errors
    BY <1>3, <1>7 DEF Counted
  <2>2. OwnBinding(m, n)' => OwnBinding(m, n) \/ (m = k /\ n \in ns) BY <1>1 DEF Reserves
  <2>3. ASSUME NEW t \in GlobSources(m) \ {s}, n \in DeclaredNames(t), ~Waiting(m, t)'
        PROVE  Err("E100", m, n) \in errors'
    <3>1. CASE Waiting(m, t) BY <3>1, <1>2, <1>4, <2>1, <2>3
    <3>2. CASE ~Waiting(m, t) BY <3>2, <1>2, <2>1, <2>3
    <3> QED BY <3>1, <3>2
  <2> QED BY <2>1, <2>2, <2>3, <1>2
<1> QED BY <1>6, <1>7

(* Before the second import pass: a "+" import is deferred as it is        *)
(* entered, and nothing is taken off a list.                               *)
LEMMA WaitingStays ==
  ASSUME NEW m, NEW s, Waiting(m, s), pass # "import_stage_2", pass' # "done",
         pass' = "import_stage_2" =>
           turn' = 1 /\ \E j \in DOMAIN order' : 1 <= j /\ order'[j] = m,
         \A x : Listed(unresolved[m], x) => Listed(unresolved'[m], x)
  PROVE  Waiting(m, s)'
<1>1. CASE GlobWaits(m, s) BY <1>1, GlobWaitsIs DEF Waiting
<1>2. CASE PreludeWaits(m, s)
  <2>1. s = Prelude /\ UsesPrelude(m) BY <1>2 DEF PreludeWaits
  <2>2. PreludeWaits(m, s)' BY <2>1 DEF PreludeWaits, UsesPrelude
  <2> QED BY <2>2 DEF Waiting
<1> QED BY <1>1, <1>2 DEF Waiting

OnlyNew(f, g, k, x) ==
  \A m \in Modules : \A s : Listed(g[m], s) => Listed(f[m], s) \/ (m = k /\ s = x)

(* Lists that were appended to have nothing else that is new.              *)
LEMMA AppendedIs ==
  ASSUME NEW S, NEW f \in [Modules -> Seq(S)], NEW k \in Modules, NEW x \in S,
         NEW g, g = [f EXCEPT ![k] = Append(@, x)]
  PROVE  OnlyNew(f, g, k, x)
<1> SUFFICES ASSUME NEW m \in Modules, NEW s, Listed(g[m], s)
             PROVE  Listed(f[m], s) \/ (m = k /\ s = x)
  BY DEF OnlyNew
<1>1. CASE m # k BY <1>1
<1>2. CASE m = k
  <2>1. PICK r : r = f[k] OBVIOUS
  <2>2. r \in Seq(S) /\ g[m] = Append(r, x) BY <1>2, <2>1
  <2>3. PICK i \in DOMAIN Append(r, x) : Append(r, x)[i] = s BY <2>2 DEF Listed
  <2>4. Len(r) \in Nat /\ DOMAIN r = 1..Len(r) /\ DOMAIN Append(r, x) = 1..(Len(r) + 1)
        /\ Append(r, x)[Len(r) + 1] = x /\ \A j \in 1..Len(r) : Append(r, x)[j] = r[j]
    BY <2>2, AppendProperties, LenProperties
  <2>5. i \in 1..Len(r) \/ i = Len(r) + 1 BY <2>4
  <2>6. CASE i = Len(r) + 1 BY <2>3, <2>4, <2>6, <1>2
  <2>7. CASE i \in 1..Len(r)
    <3>1. r[i] = s /\ i \in DOMAIN r BY <2>3, <2>4, <2>7
    <3> QED BY <3>1, <2>1, <1>2 DEF Listed
  <2> QED BY <2>5, <2>6, <2>7
<1> QED BY <1>1, <1>2

LEMMA PushSources ==
  ASSUME TypeOK, NEW k \in Modules, NEW e \in BOOLEAN, NEW s0 \in Modules, PushModule(k, e, s0),
         NEW m \in Modules, NEW s \in GlobSources(m)'
  PROVE  s \in GlobSources(m) \/ (m = k /\ s = s0)
<1>1. import_modules \in [Modules -> Seq(Modules)] /\ export_modules \in [Modules -> Seq(Modules)]
  BY DEF TypeOK
<1>3. CASE e = TRUE
  <2>1. import_modules' = import_modules
        /\ export_modules' = [export_modules EXCEPT ![k] = Append(@, s0)]
    BY <1>3 DEF PushModule
  <2>2. Listed(export_modules'[m], s) => Listed(export_modules[m], s) \/ (m = k /\ s = s0)
    <3>1. PICK f : f = export_modules OBVIOUS
    <3>2. PICK g : g = export_modules' OBVIOUS
    <3>3. f \in [Modules -> Seq(Modules)] /\ g = [f EXCEPT ![k] = Append(@, s0)]
      BY <1>1, <2>1, <3>1, <3>2
    <3>4. OnlyNew(f, g, k, s0)
      BY ONLY <3>3, k \in Modules, s0 \in Modules, AppendedIs
    <3> QED BY <3>1, <3>2, <3>4 DEF OnlyNew
  <2> QED BY <2>1, <2>2, GlobSourcesAre, GlobSourcesNext
<1>4. CASE e = FALSE
  <2>1. export_modules' = export_modules
        /\ import_modules' = [import_modules EXCEPT ![k] = Append(@, s0)]
    BY <1>4 DEF PushModule
  <2>2. Listed(import_modules'[m], s) => Listed(import_modules[m], s) \/ (m = k /\ s = s0)
    <3>1. PICK f : f = import_modules OBVIOUS
    <3>2. PICK g : g = import_modules' OBVIOUS
    <3>3. f \in [Modules -> Seq(Modules)] /\ g = [f EXCEPT ![k] = Append(@, s0)]
      BY <1>1, <2>1, <3>1, <3>2
    <3>4. OnlyNew(f, g, k, s0)
      BY ONLY <3>3, k \in Modules, s0 \in Modules, AppendedIs
    <3> QED BY <3>1, <3>2, <3>4 DEF OnlyNew
  <2> QED BY <2>1, <2>2, GlobSourcesAre, GlobSourcesNext
<1> QED BY <1>3, <1>4

(* A step that enters no "+" import, before the second pass.               *)
LEMMA EarlyStep ==
  ASSUME TypeOK, SettleInv, GlobInv, UNCHANGED <<order, import_modules, export_modules>>,
         pass \in {"declare_adts", "import_stage_1", "declare_functions"},
         pass' \in Passes, pass' = "import_stage_2" => turn' = 1,
         \A m \in Modules : \A x : Listed(unresolved[m], x) => Listed(unresolved'[m], x)
  PROVE  GlobInv'
<1>1. ASSUME NEW m \in Modules, NEW s \in GlobSources(m)' PROVE Waiting(m, s)'
  <2>1. s \in GlobSources(m) BY GlobSourcesAre, GlobSourcesNext
  <2>2. Waiting(m, s) BY <2>1 DEF GlobInv
  <2>3. \E j \in DOMAIN order' : 1 <= j /\ order'[j] = m
    <3>1. PICK j \in DOMAIN order : order[j] = m BY DEF SettleInv
    <3>2. 1 <= j BY OrderTyped
    <3> QED BY <3>1, <3>2
  <2>4. pass # "import_stage_2" /\ pass' # "done" BY DEF Passes
  <2> QED BY <2>2, <2>3, <2>4, WaitingStays
<1>2. pass' # "done" BY DEF Passes
<1> QED BY <1>1, <1>2 DEF GlobInv

LEMMA CrashGlob == ASSUME NEW how \in {"panic", "overflow"}, Crash(how) PROVE GlobInv'
BY DEF Crash, GlobInv

LEMMA Stage1Waits == ASSUME TypeOK, SettleInv, GlobInv, ImportStage1 PROVE GlobInv'
<1>1. PICK imp \in ImportAst : Importing(imp) /\
        \/ ImportUnknownModule(imp) \/ ImportSelf(imp) \/ ImportGlob(imp)
        \/ ImportFound(imp) \/ ImportLater(imp) \/ ImportOverflow(imp)
  BY DEF ImportStage1
<1>2. pass = "import_stage_1" /\ Cur \in Modules /\ imp.is_export \in BOOLEAN
  BY <1>1, CurIsModule, ImportFields DEF Importing
<1>3. CASE ImportSelf(imp) \/ ImportOverflow(imp)
  BY <1>3, CrashGlob DEF ImportSelf, ImportOverflow
<1>4. CASE ImportUnknownModule(imp) \/ ImportFound(imp) \/ ImportLater(imp)
  <2>1. UNCHANGED <<pass, order, import_modules, export_modules>>
    BY <1>4 DEF ImportUnknownModule, ImportFound, ImportLater, NextItem, tables
  <2>2. UNCHANGED unresolved \/ Defer(imp)
    BY <1>4 DEF ImportUnknownModule, ImportFound, ImportLater
  <2> QED BY <2>1, <2>2, <1>2, StayListed, EarlyStep DEF Passes
<1>5. CASE ImportGlob(imp)
  <2>1. /\ imp.src \in Modules /\ imp.symbol = Glob /\ PushModule(Cur, imp.is_export, imp.src)
        /\ Defer(imp) /\ UNCHANGED <<pass, order>>
    BY <1>5 DEF ImportGlob, NextItem
  <2>2. /\ \A m \in Modules : \A x : Listed(unresolved[m], x) => Listed(unresolved'[m], x)
        /\ Listed(unresolved'[Cur], imp)
    BY <2>1, StayListed
  <2>3. ASSUME NEW m \in Modules, NEW s \in GlobSources(m)' PROVE Waiting(m, s)'
    <3>1. s \in GlobSources(m) \/ (m = Cur /\ s = imp.src) BY <1>2, <2>1, PushSources
    <3>2. CASE s \in GlobSources(m)
      <4>1. Waiting(m, s) BY <3>2, <1>2 DEF GlobInv
      <4> QED BY <4>1, <1>2, <2>1, <2>2, WaitingStays
    <3>3. CASE m = Cur /\ s = imp.src
      <4>1. GlobWaits(m, s)' BY <3>3, <2>1, <2>2, GlobWaitsIs
      <4> QED BY <4>1 DEF Waiting
    <3> QED BY <3>1, <3>2, <3>3
  <2> QED BY <2>1, <2>3, <1>2 DEF GlobInv
<1> QED BY <1>1, <1>3, <1>4, <1>5

LEMMA EndStage1Waits == ASSUME TypeOK, SettleInv, GlobInv, EndImportStage1 PROVE GlobInv'
<1>1. /\ pass = "import_stage_1" /\ pass' \in {"import_stage_1", "declare_functions"}
      /\ UNCHANGED <<prog, order, export_modules, unresolved>>
      /\ IF UsesPrelude(Cur)
         THEN import_modules' = [import_modules EXCEPT ![Cur] = Append(@, Prelude)]
         ELSE UNCHANGED import_modules
  BY DEF EndImportStage1, NextModule
<1>2. CASE ~UsesPrelude(Cur)
  BY <1>1, <1>2, EarlyStep DEF Passes, Listed
<1>3. CASE UsesPrelude(Cur)
  <2>1. Prelude \in Modules BY <1>3, PreludeIsModule DEF UsesPrelude
  <2>2. PushModule(Cur, FALSE, Prelude) BY <1>1, <1>3 DEF PushModule
  <2>3. ASSUME NEW m \in Modules, NEW s \in GlobSources(m)' PROVE Waiting(m, s)'
    <3>1. s \in GlobSources(m) \/ (m = Cur /\ s = Prelude)
      BY CurIsModule, <2>1, <2>2, PushSources
    <3>2. CASE s \in GlobSources(m)
      <4>1. Waiting(m, s) BY <3>2, <1>1 DEF GlobInv
      <4> QED BY <4>1, <1>1, WaitingStays DEF Listed
    <3>3. CASE m = Cur /\ s = Prelude
      <4>1. PreludeWaits(m, s)' BY <3>3, <1>1, <1>3 DEF PreludeWaits, UsesPrelude
      <4> QED BY <4>1 DEF Waiting
    <3> QED BY <3>1, <3>2, <3>3
  <2> QED BY <1>1, <2>3 DEF GlobInv
<1> QED BY <1>2, <1>3

LEMMA FunctionsWait ==
  ASSUME TypeOK, SettleInv, GlobInv, DeclareFunctions \/ EndDeclareFunctions
  PROVE  GlobInv'
<1>1. CASE DeclareFunctions
  <2>1. PICK f \in FunctionAst : Declaring(f) /\
          (DeclareFunction(f) \/ RejectFunction(f) \/ DeclareOverflow(f))
    BY <1>1 DEF DeclareFunctions
  <2>2. CASE DeclareOverflow(f)
    BY <2>2, CrashGlob DEF DeclareOverflow
  <2>3. CASE DeclareFunction(f) \/ RejectFunction(f)
    BY <2>1, <2>3, EarlyStep
    DEF Declaring, DeclareFunction, RejectFunction, NextItem, tables, Listed, Passes
  <2> QED
    BY <2>1, <2>2, <2>3
<1>2. CASE EndDeclareFunctions
  BY <1>2, EarlyStep DEF EndDeclareFunctions, NextModule, tables, Listed, Passes
<1> QED
  BY <1>1, <1>2

(* What stops waiting when the head of the current list goes.              *)
LEMMA HeadStopsWaiting ==
  ASSUME TypeOK, NEW imp \in ImportAst, Resolving(imp), Resolved,
         NEW m \in Modules, NEW s, Waiting(m, s)
  PROVE  Waiting(m, s)' \/ (m = Cur /\ imp.symbol = Glob /\ s = imp.src)
<1>0. Cur \in Modules /\ unresolved \in [Modules -> Seq(ImportAst)]
  BY CurIsModule DEF TypeOK
<1>1. /\ unresolved[Cur] # <<>> /\ imp = Head(unresolved[Cur])
      /\ unresolved' = [unresolved EXCEPT ![Cur] = Tail(@)]
      /\ UNCHANGED <<order, pass, turn>>
  BY DEF Resolving, Resolved
<1>2. CASE PreludeWaits(m, s)
  <2>1. PreludeWaits(m, s)' BY <1>1, <1>2 DEF PreludeWaits, UsesPrelude
  <2> QED BY <2>1 DEF Waiting
<1>3. CASE GlobWaits(m, s)
  <2>1. PICK x : Listed(unresolved[m], x) /\ x.symbol = Glob /\ x.src = s BY <1>3, GlobWaitsIs
  <2>2. CASE m = Cur /\ x = imp BY <2>1, <2>2
  <2>3. CASE m = Cur /\ x # imp
    <3>1. unresolved'[m] = Tail(unresolved[m]) /\ unresolved[m] \in Seq(ImportAst)
      BY <1>0, <1>1, <2>3
    <3>2. Listed(Tail(unresolved[m]), x) BY <1>1, <2>1, <2>3, <3>1, TailListed
    <3>3. GlobWaits(m, s)' BY <2>1, <3>1, <3>2, GlobWaitsIs
    <3> QED BY <3>3 DEF Waiting
  <2>4. CASE m # Cur
    <3>1. unresolved'[m] = unresolved[m] BY <1>0, <1>1, <2>4
    <3>2. GlobWaits(m, s)' BY <2>1, <3>1, GlobWaitsIs
    <3> QED BY <3>2 DEF Waiting
  <2> QED BY <2>2, <2>3, <2>4
<1> QED BY <1>2, <1>3 DEF Waiting

(* A module's own binding that InsertDecl makes is the one it is asked for.*)
LEMMA InsertBindsOne ==
  ASSUME TypeOK, NEW k \in Modules, NEW e \in BOOLEAN, NEW x \in Names, NEW d,
         InsertDecl(k, e, x, d), UNCHANGED declarations,
         NEW m \in Modules, NEW n \in Names, OwnBinding(m, n)'
  PROVE  OwnBinding(m, n) \/ (m = k /\ n = x)
<1>1. /\ import_decls \in [Modules -> [Names -> Declaration \cup {None}]]
      /\ export_decls \in [Modules -> [Names -> Declaration \cup {None}]]
  BY DEF TypeOK
<1>2. \/ declarations[m][n] # None \/ import_decls'[m][n] # None
      \/ export_decls'[m][n] # None
  BY DEF OwnBinding
<1>3. CASE e = TRUE
  <2>1. export_decls' = [export_decls EXCEPT ![k][x] = d] /\ import_decls' = import_decls
    BY <1>3 DEF InsertDecl
  <2>2. m # k \/ n # x => export_decls'[m][n] = export_decls[m][n] BY <1>1, <2>1
  <2> QED BY <1>2, <2>1, <2>2 DEF OwnBinding
<1>4. CASE e = FALSE
  <2>1. import_decls' = [import_decls EXCEPT ![k][x] = d] /\ export_decls' = export_decls
    BY <1>4 DEF InsertDecl
  <2>2. m # k \/ n # x => import_decls'[m][n] = import_decls[m][n] BY <1>1, <2>1
  <2> QED BY <1>2, <2>1, <2>2 DEF OwnBinding
<1> QED BY <1>3, <1>4

LEMMA Stage2Counts ==
  ASSUME TypeOK, BoundNamesReserved, GlobInv, ImportStage2 PROVE GlobInv'
<1>1. PICK imp \in ImportAst : Resolving(imp) /\
        \/ ReserveGlob(imp) \/ ResolveFound(imp) \/ ResolveMissing(imp)
        \/ ResolveOverflow(imp)
  BY DEF ImportStage2
<1>2. Cur \in Modules /\ imp.is_export \in BOOLEAN /\ pass = "import_stage_2"
  BY <1>1, CurIsModule, ImportFields DEF Resolving
<1>3. CASE ResolveOverflow(imp)
  BY <1>3, CrashGlob DEF ResolveOverflow
<1>4. \A m \in Modules : \A s \in GlobSources(m) : Waiting(m, s) \/ Counted(m, s)
  BY <1>2 DEF GlobInv
<1>5. ASSUME NEW ns \in SUBSET Names, NEW s0, Reserves(Cur, ns, s0), UNCHANGED pass
      PROVE  GlobInv'
  BY <1>2, <1>4, <1>5, ReserveCounts DEF GlobInv
<1>6. CASE ReserveGlob(imp)
  <2>1. /\ imp.symbol = Glob /\ Resolved /\ Reserve(Cur, DeclaredNames(imp.src))
        /\ UNCHANGED <<pass, declarations, import_modules, export_modules, import_decls, export_decls>>
    BY <1>6 DEF ReserveGlob, Resolved
  <2>2. \A m \in Modules : \A n \in Names : OwnBinding(m, n)' => OwnBinding(m, n)
    BY <2>1 DEF OwnBinding
  <2>3. \A m \in Modules : \A s \in GlobSources(m) :
          Waiting(m, s) => Waiting(m, s)' \/ (m = Cur /\ s = imp.src)
    BY <1>1, <2>1, HeadStopsWaiting
  <2>4. Reserves(Cur, DeclaredNames(imp.src), imp.src) BY <2>1, <2>2, <2>3 DEF Reserves
  <2> QED BY <1>5, <2>1, <2>4, DeclaredNamesAreNames
<1>7. CASE ResolveFound(imp)
  <2>1. PICK d : d = FindImport(imp.src, imp.symbol) OBVIOUS
  <2>2. /\ imp.symbol \in Names /\ Reserve(Cur, {imp.symbol}) /\ Resolved
        /\ InsertDecl(Cur, imp.is_export, imp.symbol, d)
        /\ UNCHANGED <<pass, declarations, import_modules, export_modules>>
    BY <1>7, <2>1 DEF ResolveFound, Resolved
  <2>3. \A m \in Modules : \A n \in Names :
          OwnBinding(m, n)' => OwnBinding(m, n) \/ (m = Cur /\ n \in {imp.symbol})
    BY <1>2, <2>2, InsertBindsOne
  <2>4. \A m \in Modules : \A s \in GlobSources(m) : Waiting(m, s) => Waiting(m, s)'
    BY <1>1, <2>2, HeadStopsWaiting, SpecialValues
  <2>5. Reserves(Cur, {imp.symbol}, imp.src) BY <2>2, <2>3, <2>4 DEF Reserves
  <2> QED BY <1>5, <2>2, <2>5
<1>8. CASE ResolveMissing(imp)
  <2>1. /\ imp.symbol \in Names /\ Resolved /\ errors \subseteq errors'
        /\ UNCHANGED <<pass, tables, used_names>>
    BY <1>8 DEF ResolveMissing, Resolved, tables
  <2>2. ASSUME NEW m \in Modules, NEW s, Waiting(m, s) PROVE Waiting(m, s)'
    BY <1>1, <2>1, <2>2, HeadStopsWaiting, SpecialValues
  <2>3. ASSUME NEW m \in Modules, NEW s \in GlobSources(m)' PROVE Waiting(m, s)' \/ Counted(m, s)'
    <3>1. \A x : GlobSources(x)' = GlobSources(x) /\ DeclaredNames(x)' = DeclaredNames(x)
      BY <2>1 DEF GlobSources, DeclaredNames, tables
    <3>2. \A n : OwnBinding(m, n)' <=> OwnBinding(m, n) BY <2>1 DEF OwnBinding, tables
    <3>3. CASE Waiting(m, s) BY <2>2, <3>3
    <3>4. CASE Counted(m, s)
      <4>1. ASSUME NEW n \in DeclaredNames(s)
            PROVE  /\ n \in used_names'[m]
                   /\ OwnBinding(m, n)' => Err("E100", m, n) \in errors'
                   /\ \A t \in GlobSources(m) \ {s} :
                        n \in DeclaredNames(t) => Waiting(m, t)' \/ Err("E100", m, n) \in errors'
        BY <2>1, <2>2, <3>2, <3>4 DEF Counted
      <4> QED BY <4>1, <3>1 DEF Counted, Err
    <3> QED BY <1>4, <3>1, <3>3, <3>4
  <2> QED BY <1>2, <2>1, <2>3 DEF GlobInv
<1> QED BY <1>1, <1>3, <1>6, <1>7, <1>8

LEMMA EndStage2Counts ==
  ASSUME TypeOK, BoundNamesReserved, SettleInv, GlobInv, EndImportStage2 PROVE GlobInv'
<1>1. /\ pass = "import_stage_2" /\ unresolved[Cur] = <<>> /\ NextModule("done")
      /\ UNCHANGED <<prog, order, unresolved, declarations, import_modules, export_modules,
                     import_decls, export_decls>>
      /\ IF UsesPrelude(Cur) THEN Reserve(Cur, DeclaredNames(Prelude))
                             ELSE UNCHANGED <<used_names, errors>>
  BY DEF EndImportStage2, tables
<1>2. \A m \in Modules : \A s \in GlobSources(m) : Waiting(m, s) \/ Counted(m, s)
  BY <1>1 DEF GlobInv
<1>3. \/ pass' = "import_stage_2" /\ turn < Len(order) /\ turn' = turn + 1
      \/ pass' = "done" /\ ~(turn < Len(order))
  BY <1>1 DEF NextModule
<1>4. ASSUME NEW m \in Modules, m # Cur
      PROVE  \A j \in DOMAIN order : turn <= j /\ order[j] = m => turn < j
  BY <1>4, OrderTyped DEF Cur
<1>5. ASSUME NEW m \in Modules, NEW s, Waiting(m, s)
      PROVE  Waiting(m, s)' \/ (m = Cur /\ s = Prelude /\ UsesPrelude(Cur))
  <2>1. CASE GlobWaits(m, s)
    <3>1. GlobWaits(m, s)' BY <1>1, <2>1 DEF GlobWaits
    <3> QED BY <3>1 DEF Waiting
  <2>2. CASE PreludeWaits(m, s) /\ m = Cur BY <2>2 DEF PreludeWaits
  <2>3. CASE PreludeWaits(m, s) /\ m # Cur
    <3>1. PICK j \in DOMAIN order : turn <= j /\ order[j] = m BY <1>1, <2>3 DEF PreludeWaits
    <3>2. turn < j /\ j <= Len(order) BY <1>4, <2>3, <3>1, OrderTyped
    <3>3. pass' = "import_stage_2" /\ turn' <= j BY <1>3, <3>1, <3>2, OrderTyped
    <3>4. s = Prelude /\ UsesPrelude(m)' BY <2>3 DEF PreludeWaits, UsesPrelude
    <3>5. PreludeWaits(m, s)' BY <1>1, <3>1, <3>3, <3>4 DEF PreludeWaits
    <3> QED BY <3>5 DEF Waiting
  <2> QED BY <1>5, <2>1, <2>2, <2>3 DEF Waiting
<1>6. \A m \in Modules : \A n \in Names : OwnBinding(m, n)' => OwnBinding(m, n)
  BY <1>1 DEF OwnBinding
<1>7. \A m \in Modules : \A s \in GlobSources(m)' : Waiting(m, s)' \/ Counted(m, s)'
  <2>1. CASE UsesPrelude(Cur)
    <3>1. Reserves(Cur, DeclaredNames(Prelude), Prelude) BY <1>1, <1>5, <1>6, <2>1 DEF Reserves
    <3> QED BY <1>2, <3>1, CurIsModule, DeclaredNamesAreNames, ReserveCounts
  <2>2. CASE ~UsesPrelude(Cur)
    <3>1. errors' = errors /\ used_names' = used_names BY <1>1, <2>2
    <3>2. ASSUME NEW m \in Modules, NEW s \in GlobSources(m), Counted(m, s)
          PROVE  Counted(m, s)'
      <4>1. /\ \A x : GlobSources(x)' = GlobSources(x) /\ DeclaredNames(x)' = DeclaredNames(x)
            /\ \A n : OwnBinding(m, n)' <=> OwnBinding(m, n)
        BY <1>1 DEF GlobSources, DeclaredNames, OwnBinding
      <4>2. \A t : Waiting(m, t) => Waiting(m, t)' BY <1>5, <2>2
      <4>3. ASSUME NEW n \in DeclaredNames(s)
            PROVE  /\ n \in used_names'[m]
                   /\ OwnBinding(m, n)' => Err("E100", m, n) \in errors'
                   /\ \A t \in GlobSources(m) \ {s} :
                        n \in DeclaredNames(t) => Waiting(m, t)' \/ Err("E100", m, n) \in errors'
        BY <3>1, <3>2, <4>1, <4>2 DEF Counted
      <4> QED BY <4>1, <4>3 DEF Counted, Err
    <3>3. \A m : GlobSources(m)' = GlobSources(m) BY <1>1 DEF GlobSources
    <3> QED BY <1>2, <1>5, <2>2, <3>2, <3>3
  <2> QED BY <2>1, <2>2
<1>8. ASSUME pass' = "done", NEW m \in Modules PROVE unresolved'[m] = <<>>
  <2>1. PICK j \in DOMAIN order : order[j] = m BY DEF SettleInv
  <2>2. j < turn \/ j = turn BY <1>3, <1>8, OrderTyped
  <2> QED BY <1>1, <2>1, <2>2 DEF SettleInv, Cur
<1> QED BY <1>3, <1>7, <1>8 DEF GlobInv

LEMMA GlobInvHolds == Spec => []GlobInv
<1>1. Init => GlobInv
  <2> SUFFICES ASSUME Init PROVE GlobInv OBVIOUS
  <2>1. \A m \in Modules : GlobSources(m) = {}
    BY DEF Init, NoList, GlobSources
  <2> QED BY <2>1 DEF Init, GlobInv
<1>2. TypeOK /\ IInv /\ SettleInv /\ GlobInv /\ [Next]_vars => GlobInv'
  <2> SUFFICES ASSUME TypeOK, BoundNamesReserved, SettleInv, GlobInv, [Next]_vars
               PROVE  GlobInv'
    BY DEF IInv
  <2>1. CASE DeclareAdt
    BY <2>1, EarlyStep DEF DeclareAdt, NextItem, Listed, Passes
  <2>2. CASE EndDeclareAdts
    BY <2>2, EarlyStep DEF EndDeclareAdts, NextModule, tables, Listed, Passes
  <2>3. CASE UNCHANGED vars
    <3>1. \A m, s : (Waiting(m, s)' <=> Waiting(m, s)) /\ GlobSources(m)' = GlobSources(m)
                   /\ DeclaredNames(m)' = DeclaredNames(m)
      BY <2>3 DEF vars, tables, Waiting, GlobWaits, PreludeWaits, UsesPrelude, GlobSources,
                  DeclaredNames
    <3>2. \A m, n : OwnBinding(m, n)' <=> OwnBinding(m, n)
      BY <2>3 DEF vars, tables, OwnBinding
    <3>3. \A m, s : Counted(m, s)' <=> Counted(m, s)
      BY <2>3, <3>1, <3>2 DEF vars, Counted, Err
    <3> QED BY <2>3, <3>1, <3>3 DEF vars, GlobInv
  <2> QED
    BY <2>1, <2>2, <2>3, Stage1Waits, EndStage1Waits, FunctionsWait, Stage2Counts,
       EndStage2Counts DEF Next
<1> QED
  BY <1>1, <1>2, TypeCorrect, IInvHolds, SettleInvHolds, PTL DEF Spec

(* A compilation that ends without errors leaves every name one direct     *)
(* source in every module: its own tables, or the declarations of one      *)
(* module it takes by "+", the prelude among them.  The names of "+"       *)
(* imports are reserved in import_stage_2 (import.rs), when every module   *)
(* has declared its functions, and those of the prelude last.              *)
THEOREM DirectlyUnambiguousHolds == Spec => []DirectlyUnambiguous
<1>1. TypeOK /\ GlobInv => DirectlyUnambiguous
  <2> SUFFICES ASSUME TypeOK, GlobInv, Succeeded, NEW m \in Modules, NEW n \in Names,
                      NEW S, S = {s \in GlobSources(m) : declarations[s][n] # None}
               PROVE  Cardinality(S) <= 1 /\ (OwnBinding(m, n) => S = {})
    BY DEF DirectlyUnambiguous
  <2>1. pass = "done" /\ errors = {} BY DEF Succeeded
  <2>2. \A s \in GlobSources(m) : ~Waiting(m, s)
    BY <2>1 DEF GlobInv, Waiting, GlobWaits, PreludeWaits
  <2>3. ASSUME NEW s \in S
        PROVE  ~OwnBinding(m, n) /\ \A t \in S : t = s
    <3>1. s \in GlobSources(m) /\ n \in DeclaredNames(s) BY DEF DeclaredNames
    <3>2. Counted(m, s) BY <2>1, <2>2, <3>1 DEF GlobInv
    <3>3. \A t \in S : t \in GlobSources(m) /\ n \in DeclaredNames(t) BY DEF DeclaredNames
    <3> QED BY <2>1, <2>2, <3>1, <3>2, <3>3 DEF Counted
  <2>4. CASE S = {}
    <3>1. Cardinality({}) = 0 BY FS_EmptySet, Zenon
    <3>2. Cardinality(S) = 0 BY <2>4, <3>1, Zenon
    <3> QED BY ONLY <3>2, <2>4
  <2>5. CASE S # {}
    <3>1. PICK s \in S : TRUE BY <2>5
    <3>2. S = {s} BY <2>3, <3>1
    <3>3. Cardinality({s}) = 1 BY FS_Singleton, Zenon
    <3>4. Cardinality(S) = 1 BY <3>2, <3>3, Zenon
    <3>5. ~OwnBinding(m, n) BY <2>3, <3>1
    <3> QED BY ONLY <3>4, <3>5
  <2> QED BY <2>4, <2>5
<1> QED
  BY <1>1, TypeCorrect, GlobInvHolds, PTL

-----------------------------------------------------------------------------
(* Lookups.  FindImport is defined by recursion over the length of the     *)
(* chain of calls; facts about it are proved by induction in the form of a *)
(* set that contains 0 and k + 1 with every k.                             *)

(* A set of natural numbers that is not empty has a least element.         *)
LEMMA LeastElement ==
  ASSUME NEW T, T \subseteq Nat, T # {}
  PROVE  \E x \in T : \A y \in T : x <= y
<1> DEFINE F == {0..n : n \in T}
<1>1. F \subseteq FiniteSubsetsOf(Nat)
  <2> SUFFICES ASSUME NEW n \in T PROVE 0..n \subseteq Nat /\ IsFiniteSet(0..n)
    BY DEF FiniteSubsetsOf
  <2> QED BY FS_Interval
<1>2. PICK X \in F : \A Y \in F : ~(<<Y, X>> \in StrictSubsetOrdering(Nat))
  <2> HIDE DEF F
  <2>1. F # {} BY DEF F
  <2> QED BY <1>1, <2>1, FS_StrictSubsetOrderingWellFounded, WFMin, Zenon
<1>3. PICK x \in T : X = 0..x OBVIOUS
<1>4. ASSUME NEW y \in T, y < x PROVE FALSE
  <2>1. 0..y \in F /\ 0..y \subseteq 0..x /\ x \in 0..x /\ x \notin 0..y BY <1>4
  <2>2. <<0..y, 0..x>> \in StrictSubsetOrdering(Nat)
    BY <2>1 DEF StrictSubsetOrdering
  <2> QED BY <2>1, <2>2, <1>2, <1>3
<1> QED BY <1>4

LEMMA SetInduction ==
  ASSUME NEW S, 0 \in S, \A n \in Nat : n \in S => n + 1 \in S
  PROVE  Nat \subseteq S
<1> DEFINE T == Nat \ S
<1> SUFFICES ASSUME T # {} PROVE FALSE OBVIOUS
<1> HIDE DEF T
<1>1. PICK x \in T : \A y \in T : x <= y BY LeastElement DEF T
<1>2. x # 0 /\ x - 1 \in Nat /\ x - 1 \notin T /\ x - 1 \in S BY <1>1 DEF T
<1> QED BY <1>1, <1>2 DEF T

Answers == Declaration \cup {None, Overflow}

(* The answer taken is that of the first module that has one.              *)
LEMMA FirstAnswerIs ==
  ASSUME NEW mods \in Seq(Modules), NEW a
  PROVE  \/ /\ FirstAnswer(mods, a) = None
            /\ \A i \in DOMAIN mods : a[mods[i]] = None
         \/ /\ FirstAnswer(mods, a) # None
            /\ \E i \in DOMAIN mods : /\ FirstAnswer(mods, a) = a[mods[i]]
                                      /\ \A j \in DOMAIN mods : j < i => a[mods[j]] = None
<1> DEFINE hits == {i \in DOMAIN mods : a[mods[i]] # None}
           first == CHOOSE i \in hits : \A j \in hits : i <= j
<1>1. FirstAnswer(mods, a) = IF hits = {} THEN None ELSE a[mods[first]]
  BY Zenon DEF FirstAnswer
<1>2. DOMAIN mods \subseteq Nat BY LenProperties
<1>3. CASE hits = {} BY <1>1, <1>3
<1>4. CASE hits # {}
  <2>1. hits \subseteq Nat BY <1>2
  <2>2. first \in hits /\ \A j \in hits : first <= j
    <3> HIDE DEF hits
    <3> QED BY <2>1, <1>4, LeastElement
  <2>3. \A j \in DOMAIN mods : j < first => a[mods[j]] = None
    <3> SUFFICES ASSUME NEW j \in DOMAIN mods, j < first, j \in hits PROVE FALSE OBVIOUS
    <3> HIDE DEF hits, first
    <3> QED BY <2>1, <2>2
  <2>4. FirstAnswer(mods, a) = a[mods[first]] /\ a[mods[first]] # None /\ first \in DOMAIN mods
    <3>1. FirstAnswer(mods, a) = a[mods[first]] BY <1>1, <1>4, Zenon
    <3> QED BY <3>1, <2>2
  <2> HIDE DEF first
  <2> QED BY <2>3, <2>4
<1> QED BY <1>3, <1>4

LEMMA FirstAnswerTyped ==
  ASSUME NEW mods \in Seq(Modules), NEW a \in [Modules -> Answers]
  PROVE  FirstAnswer(mods, a) \in Answers
<1>1. CASE FirstAnswer(mods, a) = None BY <1>1 DEF Answers
<1>2. CASE FirstAnswer(mods, a) # None
  <2>1. PICK i \in DOMAIN mods : FirstAnswer(mods, a) = a[mods[i]]
    BY <1>2, FirstAnswerIs
  <2>2. mods[i] \in Modules BY ElementOfSeq, LenProperties
  <2> QED BY <2>1, <2>2
<1> QED BY <1>1, <1>2

(* What a lookup answers that is not lost in a circle, it answers also     *)
(* where more is known.                                                    *)
LEMMA FirstAnswerKept ==
  ASSUME NEW mods \in Seq(Modules), NEW a, NEW b,
         \A s \in Modules : a[s] # Overflow => b[s] = a[s],
         FirstAnswer(mods, a) # Overflow
  PROVE  FirstAnswer(mods, b) = FirstAnswer(mods, a)
<1>0. \A i \in DOMAIN mods : mods[i] \in Modules /\ i \in Nat BY ElementOfSeq, LenProperties
<1>1. CASE FirstAnswer(mods, a) = None
  <2>1. \A i \in DOMAIN mods : a[mods[i]] = None BY <1>1, FirstAnswerIs
  <2>2. \A i \in DOMAIN mods : b[mods[i]] = None BY <1>0, <2>1, SpecialValues
  <2> QED BY <1>1, <2>2, FirstAnswerIs
<1>2. CASE FirstAnswer(mods, a) # None
  <2>1. PICK i \in DOMAIN mods : /\ FirstAnswer(mods, a) = a[mods[i]]
                                 /\ \A j \in DOMAIN mods : j < i => a[mods[j]] = None
    BY <1>2, FirstAnswerIs
  <2>2. b[mods[i]] = a[mods[i]] BY <1>0, <2>1
  <2>3. \A j \in DOMAIN mods : j < i => b[mods[j]] = None BY <1>0, <2>1, SpecialValues
  <2>4. PICK k \in DOMAIN mods : /\ FirstAnswer(mods, b) = b[mods[k]]
                                 /\ \A j \in DOMAIN mods : j < k => b[mods[j]] = None
                                 /\ b[mods[k]] # None
    BY <1>2, <2>1, <2>2, FirstAnswerIs
  <2>5. ~(i < k) /\ ~(k < i) BY <1>2, <2>1, <2>2, <2>3, <2>4
  <2>6. i = k BY <1>0, <2>5
  <2> QED BY <2>1, <2>2, <2>4, <2>6
<1> QED BY <1>1, <1>2

(* One call of FindImport, given the answers of the shorter chains.        *)
Call(f, n, d, s) ==
  IF declarations[s][n] # None THEN declarations[s][n]
  ELSE IF export_decls[s][n] # None THEN export_decls[s][n]
  ELSE IF d = 0 THEN Overflow
  ELSE FirstAnswer(export_modules[s], f[d - 1])

Finds(f, n, k) == f = [d \in 0..k |-> [s \in Modules |-> Call(f, n, d, s)]]

LEMMA FindsAt ==
  ASSUME NEW f, NEW n, NEW k
  PROVE  Finds(f, n, k)
         <=> /\ f = [d \in 0..k |-> f[d]]
             /\ \A d \in 0..k : f[d] = [s \in Modules |-> Call(f, n, d, s)]
<1> DEFINE h == [d \in 0..k |-> [s \in Modules |-> Call(f, n, d, s)]]
<1>1. \A d \in 0..k : h[d] = [s \in Modules |-> Call(f, n, d, s)] OBVIOUS
<1>2. h = [d \in 0..k |-> h[d]] OBVIOUS
<1>3. Finds(f, n, k) <=> f = h BY Zenon DEF Finds
<1> HIDE DEF h
<1>4. ASSUME f = h PROVE \A d \in 0..k : f[d] = [s \in Modules |-> Call(f, n, d, s)]
  BY <1>1, <1>4, Zenon
<1>5. ASSUME f = [d \in 0..k |-> f[d]], \A d \in 0..k : f[d] = [s \in Modules |-> Call(f, n, d, s)]
      PROVE  f = h
  <2>1. \A d \in 0..k : f[d] = h[d] BY <1>1, <1>5, Zenon
  <2>2. [d \in 0..k |-> f[d]] = [d \in 0..k |-> h[d]] BY <2>1
  <2> QED BY <2>2, <1>2, <1>5, Zenon
<1> QED BY <1>2, <1>3, <1>4, <1>5, Zenon

(* What Call takes from f.                                                 *)
LEMMA CallSame ==
  ASSUME NEW f, NEW g, NEW n, NEW d \in Nat, d # 0 => f[d - 1] = g[d - 1]
  PROVE  [s \in Modules |-> Call(f, n, d, s)] = [s \in Modules |-> Call(g, n, d, s)]
<1>1. ASSUME NEW s PROVE Call(f, n, d, s) = Call(g, n, d, s)
  BY Zenon DEF Call
<1> QED BY <1>1, Zenon

LEMMA CallTyped ==
  ASSUME TypeOK, NEW f, NEW n \in Names, NEW d \in Nat, NEW s \in Modules,
         d # 0 => f[d - 1] \in [Modules -> Answers]
  PROVE  Call(f, n, d, s) \in Answers
<1>1. /\ declarations[s][n] \in Answers /\ export_decls[s][n] \in Answers
      /\ export_modules[s] \in Seq(Modules)
  BY DEF TypeOK, Answers
<1>2. d # 0 => FirstAnswer(export_modules[s], f[d - 1]) \in Answers
  BY <1>1, FirstAnswerTyped
<1>3. Overflow \in Answers BY DEF Answers
<1> QED BY <1>1, <1>2, <1>3, Zenon DEF Call

(* One more call.                                                          *)
LEMMA FindsExtend ==
  ASSUME TypeOK, NEW n \in Names, NEW j \in Nat, NEW f, NEW g,
         g = [d \in 0..j |-> IF d = j THEN [s \in Modules |-> Call(f, n, j, s)] ELSE f[d]],
         \A d \in 0..j : d # 0 => f[d - 1] \in [Modules -> Answers],
         \A d \in 0..j : d # j => f[d] = [s \in Modules |-> Call(f, n, d, s)]
                                  /\ f[d] \in [Modules -> Answers]
  PROVE  g \in [0..j -> [Modules -> Answers]] /\ Finds(g, n, j)
<1> DEFINE last == [s \in Modules |-> Call(f, n, j, s)]
<1>0. j \in 0..j OBVIOUS
<1>1. last \in [Modules -> Answers] BY <1>0, CallTyped
<1>2. \A d \in 0..j : g[d] = IF d = j THEN last ELSE f[d] OBVIOUS
<1>3. g = [d \in 0..j |-> g[d]] OBVIOUS
<1> HIDE DEF last
<1>4. \A d \in 0..j : g[d] \in [Modules -> Answers] BY <1>1, <1>2
<1>5. ASSUME NEW d \in 0..j PROVE g[d] = [s \in Modules |-> Call(g, n, d, s)]
  <2>1. d \in Nat /\ (d # 0 => d - 1 \in 0..j /\ d - 1 # j) OBVIOUS
  <2>2. d # 0 => g[d - 1] = f[d - 1] BY <2>1, <1>2
  <2>3. [s \in Modules |-> Call(f, n, d, s)] = [s \in Modules |-> Call(g, n, d, s)]
    BY <2>1, <2>2, CallSame
  <2>4. d = j => g[d] = [s \in Modules |-> Call(f, n, d, s)] BY <1>2 DEF last
  <2>5. d # j => g[d] = [s \in Modules |-> Call(f, n, d, s)] BY <1>2
  <2> QED BY <2>3, <2>4, <2>5, Zenon
<1>6. Finds(g, n, j) BY <1>3, <1>5, FindsAt, Zenon
<1>7. [d \in 0..j |-> g[d]] \in [0..j -> [Modules -> Answers]] BY <1>4
<1> QED BY <1>3, <1>6, <1>7, Zenon

LEMMA FindsExists ==
  ASSUME TypeOK, NEW n \in Names, NEW k \in Nat
  PROVE  \E f \in [0..k -> [Modules -> Answers]] : Finds(f, n, k)
<1> DEFINE I == {j \in Nat : \E f \in [0..j -> [Modules -> Answers]] : Finds(f, n, j)}
<1>1. 0 \in I
  <2> DEFINE f == [d \in 0..0 |-> [s \in Modules |-> None]]
             g == [d \in 0..0 |-> IF d = 0 THEN [s \in Modules |-> Call(f, n, 0, s)] ELSE f[d]]
  <2>1. g \in [0..0 -> [Modules -> Answers]] /\ Finds(g, n, 0)
    <3>1. \A d \in 0..0 : d = 0 OBVIOUS
    <3> HIDE DEF f
    <3> QED BY <3>1, FindsExtend
  <2> HIDE DEF g
  <2> QED BY <2>1
<1>2. ASSUME NEW j \in Nat, j \in I PROVE j + 1 \in I
  <2>1. PICK f \in [0..j -> [Modules -> Answers]] : Finds(f, n, j) BY <1>2
  <2>2. \A d \in 0..j : f[d] = [s \in Modules |-> Call(f, n, d, s)] BY <2>1, FindsAt, Zenon
  <2> DEFINE g == [d \in 0..(j + 1) |-> IF d = j + 1 THEN [s \in Modules |-> Call(f, n, j + 1, s)]
                                        ELSE f[d]]
  <2>3. \A d \in 0..(j + 1) : /\ d # j + 1 => d \in 0..j
                              /\ d # 0 => d - 1 \in 0..j
    OBVIOUS
  <2>4. g \in [0..(j + 1) -> [Modules -> Answers]] /\ Finds(g, n, j + 1)
    <3>1. \A d \in 0..(j + 1) : d # 0 => f[d - 1] \in [Modules -> Answers] BY <2>3
    <3>2. \A d \in 0..(j + 1) : d # j + 1 => f[d] = [s \in Modules |-> Call(f, n, d, s)]
                                             /\ f[d] \in [Modules -> Answers]
      BY <2>2, <2>3
    <3>3. PICK e : e = g OBVIOUS
    <3>4. e \in [0..(j + 1) -> [Modules -> Answers]] /\ Finds(e, n, j + 1)
      BY ONLY TypeOK, n \in Names, j + 1 \in Nat, <3>1, <3>2, <3>3, FindsExtend
    <3> HIDE DEF g
    <3> QED BY <3>3, <3>4
  <2> HIDE DEF g
  <2> QED BY <2>4
<1> HIDE DEF I
<1>3. k \in I BY <1>1, <1>2, SetInduction
<1> QED BY <1>3 DEF I

(* The answers a lookup for n gets, by the length the chain may have.      *)
LEMMA FindImportIs ==
  ASSUME TypeOK, NEW n \in Names, Cardinality(Modules) \in Nat
  PROVE  \E f : /\ Finds(f, n, Cardinality(Modules))
                /\ \A m : FindImport(m, n) = f[Cardinality(Modules)][m]
<1> DEFINE g == CHOOSE g : Finds(g, n, Cardinality(Modules))
<1>1. Finds(g, n, Cardinality(Modules)) BY FindsExists, Zenon
<1>2. \A m : FindImport(m, n) = g[Cardinality(Modules)][m]
  BY Zenon DEF FindImport, Finds, Call
<1> QED BY <1>1, <1>2

(* A call within a chain.                                                  *)
LEMMA CallLonger ==
  ASSUME NEW f, NEW n, NEW d \in Nat, NEW s
  PROVE  Call(f, n, d + 1, s) = IF declarations[s][n] # None THEN declarations[s][n]
                                ELSE IF export_decls[s][n] # None THEN export_decls[s][n]
                                ELSE FirstAnswer(export_modules[s], f[d])
<1>1. PICK e : e = d + 1 OBVIOUS
<1>2. e # 0 /\ e - 1 = d BY <1>1
<1>3. Call(f, n, e, s) = IF declarations[s][n] # None THEN declarations[s][n]
                         ELSE IF export_decls[s][n] # None THEN export_decls[s][n]
                         ELSE FirstAnswer(export_modules[s], f[d])
  BY <1>2, Zenon DEF Call
<1> QED BY <1>1, <1>3, Zenon

(* What is no longer lost stays answered when the chain may be longer.     *)
LEMMA FindsKeep ==
  ASSUME TypeOK, NEW n, NEW N \in Nat, NEW f, Finds(f, n, N), NEW d \in Nat, d + 1 <= N,
         NEW s \in Modules, f[d][s] # Overflow
  PROVE  f[d + 1][s] = f[d][s]
<1> DEFINE I == {j \in Nat : j + 1 <= N =>
                    \A t \in Modules : f[j][t] # Overflow => f[j + 1][t] = f[j][t]}
<1>0. \A j \in 0..N : \A t \in Modules : f[j][t] = Call(f, n, j, t)
  <2>1. \A j \in 0..N : f[j] = [t \in Modules |-> Call(f, n, j, t)] BY FindsAt, Zenon
  <2> QED BY <2>1
<1>1. ASSUME NEW j \in Nat, j + 1 <= N, NEW t \in Modules, f[j][t] # Overflow,
             j # 0 => \A u \in Modules : f[j - 1][u] # Overflow => f[j][u] = f[j - 1][u]
      PROVE  f[j + 1][t] = f[j][t]
  <2>1. f[j][t] = Call(f, n, j, t) /\ f[j + 1][t] = Call(f, n, j + 1, t) BY <1>0, <1>1
  <2>2. j + 1 # 0 /\ j + 1 - 1 = j OBVIOUS
  <2>3. CASE declarations[t][n] # None \/ export_decls[t][n] # None
    BY <2>1, <2>3, Zenon DEF Call
  <2>4. CASE ~(declarations[t][n] # None \/ export_decls[t][n] # None)
    <3>1. j # 0 /\ f[j][t] = FirstAnswer(export_modules[t], f[j - 1])
      BY <1>1, <2>1, <2>4, Zenon DEF Call
    <3>2. f[j + 1][t] = FirstAnswer(export_modules[t], f[j]) 
      <4>1. declarations[t][n] = None /\ export_decls[t][n] = None BY <2>4
      <4>2. Call(f, n, j + 1, t) = IF declarations[t][n] # None THEN declarations[t][n]
                                   ELSE IF export_decls[t][n] # None THEN export_decls[t][n]
                                   ELSE FirstAnswer(export_modules[t], f[j])
        BY CallLonger
      <4>3. Call(f, n, j + 1, t) = FirstAnswer(export_modules[t], f[j]) BY <4>1, <4>2
      <4> QED BY <2>1, <4>3, Zenon
    <3>3. export_modules[t] \in Seq(Modules) BY DEF TypeOK
    <3>4. FirstAnswer(export_modules[t], f[j]) = FirstAnswer(export_modules[t], f[j - 1])
      BY <1>1, <3>1, <3>3, FirstAnswerKept
    <3> QED BY <3>1, <3>2, <3>4
  <2> QED BY <2>3, <2>4
<1>2. 0 \in I BY <1>1
<1>3. ASSUME NEW j \in Nat, j \in I PROVE j + 1 \in I
  <2>1. j + 1 - 1 = j OBVIOUS
  <2> QED BY <1>1, <1>3, <2>1
<1> HIDE DEF I
<1>4. d \in I BY <1>2, <1>3, SetInduction
<1> QED BY <1>4 DEF I

(* A lookup that exhausts the stack has found a circle of "+" exports.     *)
LEMMA OverflowCircle ==
  ASSUME TypeOK, IsFiniteSet(Modules), NEW n \in Names, NEW m \in Modules,
         FindImport(m, n) = Overflow
  PROVE  \E C \in SUBSET Modules :
           C # {} /\ \A s \in C : \E t \in C : Listed(export_modules[s], t)
<1> DEFINE N == Cardinality(Modules)
<1>0. N \in Nat BY FS_CardinalityType
<1>1. PICK f : Finds(f, n, N) /\ \A s : FindImport(s, n) = f[N][s] BY <1>0, FindImportIs
<1> HIDE DEF N
<1> DEFINE R(d) == {s \in Modules : f[d][s] = Overflow}
<1>2. ASSUME NEW d \in Nat, d + 1 <= N PROVE R(d + 1) \subseteq R(d)
  BY <1>0, <1>1, <1>2, FindsKeep
<1>3. ASSUME NEW d \in Nat, d + 1 <= N, NEW s \in R(d + 1)
      PROVE  \E t \in R(d) : Listed(export_modules[s], t)
  <2>1. f[d + 1] = [t \in Modules |-> Call(f, n, d + 1, t)]
    <3>1. d + 1 \in 0..N BY <1>0, <1>3
    <3> QED BY <1>1, <3>1, FindsAt, Zenon
  <2>2. Call(f, n, d + 1, s) = Overflow BY <2>1
  <2>3. /\ declarations[s][n] # Overflow /\ export_decls[s][n] # Overflow
        /\ export_modules[s] \in Seq(Modules)
    BY SpecialValues DEF TypeOK
  <2>4. d + 1 # 0 /\ d + 1 - 1 = d OBVIOUS
  <2>5. FirstAnswer(export_modules[s], f[d]) = Overflow
    <3>1. Call(f, n, d + 1, s)
          = IF declarations[s][n] # None THEN declarations[s][n]
            ELSE IF export_decls[s][n] # None THEN export_decls[s][n]
            ELSE FirstAnswer(export_modules[s], f[d])
      BY <2>4, CallLonger
    <3> QED BY <2>2, <2>3, <3>1, Zenon
  <2>6. PICK i \in DOMAIN export_modules[s] : f[d][export_modules[s][i]] = Overflow
    BY <2>3, <2>5, FirstAnswerIs, SpecialValues
  <2>7. export_modules[s][i] \in Modules BY <2>3, ElementOfSeq, LenProperties
  <2> QED BY <2>6, <2>7 DEF Listed
<1>4. PICK d \in Nat : d + 1 <= N /\ R(d) # {} /\ R(d + 1) = R(d)
  <2> SUFFICES ASSUME \A d \in Nat : d + 1 <= N /\ R(d) # {} => R(d + 1) # R(d)
               PROVE  FALSE
    OBVIOUS
  <2> DEFINE I == {j \in Nat : j <= N => IsFiniteSet(R(j)) /\ Cardinality(R(j)) <= N - j}
  <2> HIDE DEF R
  <2>1. 0 \in I
    <3>1. R(0) \subseteq Modules BY DEF R
    <3>2. IsFiniteSet(R(0)) /\ Cardinality(R(0)) <= Cardinality(Modules) BY <3>1, FS_Subset
    <3> QED BY <1>0, <3>2 DEF N
  <2>2. ASSUME NEW j \in Nat, j \in I PROVE j + 1 \in I
    <3> SUFFICES ASSUME j + 1 <= N
                 PROVE  IsFiniteSet(R(j + 1)) /\ Cardinality(R(j + 1)) <= N - (j + 1)
      OBVIOUS
    <3>1. IsFiniteSet(R(j)) /\ Cardinality(R(j)) <= N - j BY <1>0, <2>2
    <3>2. R(j + 1) \subseteq R(j) BY <1>2
    <3>3. /\ IsFiniteSet(R(j + 1)) /\ Cardinality(R(j + 1)) <= Cardinality(R(j))
          /\ Cardinality(R(j + 1)) = Cardinality(R(j)) => R(j + 1) = R(j)
      BY <3>1, <3>2, FS_Subset
    <3>4. Cardinality(R(j + 1)) \in Nat /\ Cardinality(R(j)) \in Nat
      BY <3>1, <3>3, FS_CardinalityType
    <3>5. CASE R(j) = {}
      <4>1. R(j + 1) = {} BY <3>2, <3>5
      <4>2. Cardinality(R(j + 1)) = 0 BY <4>1, FS_EmptySet, Zenon
      <4> QED BY <1>0, <3>3, <4>2
    <3>6. CASE R(j) # {}
      <4>1. Cardinality(R(j + 1)) # Cardinality(R(j)) BY <3>3, <3>6
      <4> QED BY <1>0, <3>1, <3>3, <3>4, <4>1
    <3> QED BY <3>5, <3>6
  <2> HIDE DEF I
  <2>3. N \in I BY <1>0, <2>1, <2>2, SetInduction
  <2>4. IsFiniteSet(R(N)) /\ Cardinality(R(N)) <= 0 BY <1>0, <2>3 DEF I
  <2>5. Cardinality(R(N)) = 0 BY <2>4, FS_CardinalityType
  <2>6. R(N) = {} BY <2>4, <2>5, FS_EmptySet
  <2>7. m \in R(N) BY <1>1 DEF R
  <2> QED BY <2>6, <2>7
<1>5. R(d) \in SUBSET Modules OBVIOUS
<1>6. \A s \in R(d) : \E t \in R(d) : Listed(export_modules[s], t) BY <1>3, <1>4
<1> HIDE DEF R
<1> QED BY <1>4, <1>5, <1>6

LEMMA ModulesFinite == ASSUME TypeOK, SettleInv PROVE IsFiniteSet(Modules)
<1> DEFINE f == [i \in 1..Len(order) |-> order[i]]
<1>1. Len(order) \in Nat /\ DOMAIN order = 1..Len(order) BY OrderTyped
<1>2. \A i \in 1..Len(order) : order[i] \in Modules BY ElementOfSeq DEF TypeOK
<1>3. \A m \in Modules : \E i \in 1..Len(order) : order[i] = m BY <1>1 DEF SettleInv
<1>4. f \in Surjection(1..Len(order), Modules) BY <1>2, <1>3 DEF Surjection
<1>5. IsFiniteSet(1..Len(order)) BY <1>1, FS_Interval
<1> QED BY <1>4, <1>5, FS_Surjection

(* The modules a module exports by "+" are those of its AST's items.       *)
ExportsAsWritten ==
  \A m \in Modules : \A s : Listed(export_modules[m], s) =>
    \E imp \in ImportsOf(m) : imp.is_export /\ imp.symbol = Glob /\ imp.src = s

LEMMA CircleIsWritten ==
  ASSUME TypeOK, SettleInv, ExportsAsWritten, NEW n \in Names, NEW m \in Modules,
         FindImport(m, n) = Overflow
  PROVE  ExportCircle
<1>1. PICK C \in SUBSET Modules :
        C # {} /\ \A s \in C : \E t \in C : Listed(export_modules[s], t)
  BY ModulesFinite, OverflowCircle
<1>2. ASSUME NEW s \in C
      PROVE  \E imp \in ImportsOf(s) : imp.is_export /\ imp.symbol = Glob /\ imp.src \in C
  <2>1. PICK t \in C : Listed(export_modules[s], t) BY <1>1
  <2>2. PICK imp \in ImportsOf(s) : imp.is_export /\ imp.symbol = Glob /\ imp.src = t
    BY <2>1 DEF ExportsAsWritten
  <2> QED BY <2>1, <2>2, Zenon
<1>3. C \in (SUBSET Modules) \ {{}} BY <1>1
<1> QED BY <1>2, <1>3 DEF ExportCircle

LEMMA CurrentImport ==
  ASSUME TypeOK, NEW imp \in ImportAst, Importing(imp)
  PROVE  imp \in ImportsOf(Cur)
<1>1. prog[Cur].imports \in Seq(ImportAst) BY CurIsModule DEF TypeOK, ModuleAst
<1>2. item \in 1..Len(prog[Cur].imports) BY <1>1, LenProperties, OrderTyped DEF Importing
<1>3. item \in DOMAIN prog[Cur].imports BY <1>1, <1>2, LenProperties
<1> QED BY <1>3 DEF Importing, ImportsOf

(* Deferred imports are imports of their module, and name modules.         *)
DeferredKnown ==
  \A m \in Modules : \A imp : Listed(unresolved[m], imp) =>
    imp.src \in Modules /\ imp \in ImportsOf(m)

LEMMA TailIsListed ==
  ASSUME NEW S, NEW s \in Seq(S), s # <<>>, NEW x, Listed(Tail(s), x)
  PROVE  Listed(s, x)
<1>1. /\ Len(s) \in Nat \ {0} /\ DOMAIN s = 1..Len(s)
      /\ Tail(s) \in Seq(S) /\ Len(Tail(s)) = Len(s) - 1
  BY EmptySeq, LenProperties, HeadTailProperties
<1>2. PICK i \in 1..(Len(s) - 1) : Tail(s)[i] = x BY <1>1, LenProperties DEF Listed
<1>3. s[i + 1] = x /\ i + 1 \in 1..Len(s) BY <1>1, <1>2, HeadTailProperties
<1> QED BY <1>1, <1>3 DEF Listed

LEMMA DeferredKnownHolds == Spec => []DeferredKnown
<1>1. Init => DeferredKnown BY DEF Init, NoList, DeferredKnown, Listed
<1>2. TypeOK /\ DeferredKnown /\ [Next]_vars => DeferredKnown'
  <2> SUFFICES ASSUME TypeOK, DeferredKnown, [Next]_vars PROVE DeferredKnown' OBVIOUS
  <2>0. \A m : ImportsOf(m)' = ImportsOf(m)
    BY DEF Next, DeclareAdt, EndDeclareAdts, ImportStage1, EndImportStage1, DeclareFunctions,
           EndDeclareFunctions, ImportStage2, EndImportStage2, vars, ImportUnknownModule,
           ImportSelf, ImportGlob, ImportFound, ImportLater, ImportOverflow, Crash,
           DeclareFunction, RejectFunction, DeclareOverflow, ReserveGlob, ResolveFound,
           ResolveMissing, ResolveOverflow, Resolved, ImportsOf
  <2>1. CASE UNCHANGED unresolved BY <2>0, <2>1 DEF DeferredKnown, Listed
  <2>2. CASE ImportStage1
    <3>1. PICK imp \in ImportAst : Importing(imp) /\
            \/ ImportUnknownModule(imp) \/ ImportSelf(imp) \/ ImportGlob(imp)
            \/ ImportFound(imp) \/ ImportLater(imp) \/ ImportOverflow(imp)
      BY <2>2 DEF ImportStage1
    <3>2. CASE ImportGlob(imp) \/ ImportLater(imp)
      <4>1. /\ imp.src \in Modules /\ imp \in ImportsOf(Cur)
            /\ unresolved' = [unresolved EXCEPT ![Cur] = Append(@, imp)]
        BY <3>1, <3>2, CurrentImport DEF ImportGlob, ImportLater, Defer
      <4>2. Cur \in Modules /\ unresolved \in [Modules -> Seq(ImportAst)]
        BY CurIsModule DEF TypeOK
      <4>3. ASSUME NEW m \in Modules, NEW x, Listed(unresolved'[m], x)
            PROVE  x.src \in Modules /\ x \in ImportsOf(m)
        <5>1. Listed(unresolved[m], x) \/ (m = Cur /\ x = imp)
          <6>1. PICK f : f = unresolved OBVIOUS
          <6>2. PICK g : g = unresolved' OBVIOUS
          <6>3. PICK k \in Modules : k = Cur BY <4>2
          <6>4. f \in [Modules -> Seq(ImportAst)] /\ g = [f EXCEPT ![k] = Append(@, imp)]
            BY <4>1, <4>2, <6>1, <6>2, <6>3
          <6>5. OnlyNew(f, g, k, imp)
            BY ONLY <6>4, k \in Modules, imp \in ImportAst, AppendedIs
          <6> QED BY <4>3, <6>1, <6>2, <6>3, <6>5 DEF OnlyNew
        <5> QED BY <4>1, <5>1 DEF DeferredKnown
      <4> QED BY <2>0, <4>3 DEF DeferredKnown, Listed
    <3>3. CASE ~(ImportGlob(imp) \/ ImportLater(imp))
      BY <3>1, <3>3, <2>1
      DEF ImportUnknownModule, ImportSelf, ImportFound, ImportOverflow, Crash
    <3> QED BY <3>2, <3>3
  <2>3. CASE ImportStage2
    <3>1. PICK imp \in ImportAst : Resolving(imp) /\
            \/ ReserveGlob(imp) \/ ResolveFound(imp) \/ ResolveMissing(imp)
            \/ ResolveOverflow(imp)
      BY <2>3 DEF ImportStage2
    <3>2. CASE ResolveOverflow(imp) BY <2>1, <3>2 DEF ResolveOverflow, Crash
    <3>3. CASE Resolved
      <4>1. unresolved[Cur] # <<>> /\ unresolved' = [unresolved EXCEPT ![Cur] = Tail(@)]
            /\ Cur \in Modules /\ unresolved \in [Modules -> Seq(ImportAst)]
        BY <3>1, <3>3, CurIsModule DEF Resolving, Resolved, TypeOK
      <4>2. ASSUME NEW m \in Modules, NEW x, Listed(unresolved'[m], x)
            PROVE  x.src \in Modules /\ x \in ImportsOf(m)
        <5>1. CASE m # Cur BY <4>1, <4>2, <5>1 DEF DeferredKnown
        <5>2. CASE m = Cur
          <6>1. Listed(Tail(unresolved[m]), x) /\ unresolved[m] \in Seq(ImportAst) BY <4>1, <4>2, <5>2
          <6>2. Listed(unresolved[m], x) BY <4>1, <5>2, <6>1, TailIsListed
          <6> QED BY <6>2 DEF DeferredKnown
        <5> QED BY <5>1, <5>2
      <4> QED BY <2>0, <4>2 DEF DeferredKnown, Listed
    <3> QED BY <3>1, <3>2, <3>3 DEF ReserveGlob, ResolveFound, ResolveMissing
  <2>4. CASE DeclareFunctions
    BY <2>1, <2>4 DEF DeclareFunctions, DeclareFunction, RejectFunction, DeclareOverflow, Crash
  <2>5. CASE DeclareAdt \/ EndDeclareAdts \/ EndImportStage1 \/ EndDeclareFunctions
             \/ EndImportStage2 \/ UNCHANGED vars
    BY <2>1, <2>5 DEF DeclareAdt, EndDeclareAdts, EndImportStage1, EndDeclareFunctions,
                      EndImportStage2, vars
  <2> QED BY <2>2, <2>3, <2>4, <2>5 DEF Next
<1> QED BY <1>1, <1>2, TypeCorrect, PTL DEF Spec

LEMMA DeferredSource ==
  ASSUME TypeOK, DeferredKnown, NEW imp \in ImportAst, Resolving(imp)
  PROVE  imp.src \in Modules /\ imp \in ImportsOf(Cur)
<1>1. Cur \in Modules /\ unresolved[Cur] # <<>> /\ imp = Head(unresolved[Cur])
      /\ unresolved[Cur] \in Seq(ImportAst)
  BY CurIsModule DEF Resolving, TypeOK
<1>2. PICK s \in Seq(ImportAst) : s = unresolved[Cur] BY <1>1
<1>3. s[1] = imp /\ 1 \in DOMAIN s BY <1>1, <1>2, EmptySeq, LenProperties, HeadTailProperties
<1>4. Listed(unresolved[Cur], imp) BY <1>2, <1>3 DEF Listed
<1> QED BY <1>1, <1>4 DEF DeferredKnown

CrashInv == ExportsAsWritten /\ CrashesAreJustified

LEMMA QuietStep ==
  ASSUME CrashInv, UNCHANGED <<prog, export_modules>>, pass' \notin {"panic", "overflow"}
  PROVE  CrashInv'
BY DEF CrashInv, ExportsAsWritten, CrashesAreJustified, ImportsOf, Listed

LEMMA CrashStep ==
  ASSUME CrashInv, NEW how \in {"panic", "overflow"}, Crash(how),
         how = "overflow" => ExportCircle,
         how = "panic" => \E m \in Modules : \E imp \in ImportsOf(m) : imp.src = m
  PROVE  CrashInv'
<1>1. pass' = how /\ UNCHANGED <<prog, export_modules>> BY DEF Crash, tables
<1>2. ExportsAsWritten' BY <1>1 DEF CrashInv, ExportsAsWritten, ImportsOf, Listed
<1>3. \A m : ImportsOf(m)' = ImportsOf(m) BY <1>1 DEF ImportsOf
<1>4. ExportCircle => ExportCircle' BY <1>3 DEF ExportCircle
<1>5. CrashesAreJustified' BY <1>1, <1>3, <1>4 DEF CrashesAreJustified
<1> QED BY <1>2, <1>5 DEF CrashInv

LEMMA Stage1Crashes == ASSUME TypeOK, SettleInv, CrashInv, ImportStage1 PROVE CrashInv'
<1>1. PICK imp \in ImportAst : Importing(imp) /\
        \/ ImportUnknownModule(imp) \/ ImportSelf(imp) \/ ImportGlob(imp)
        \/ ImportFound(imp) \/ ImportLater(imp) \/ ImportOverflow(imp)
  BY DEF ImportStage1
<1>2. pass = "import_stage_1" /\ Cur \in Modules /\ imp.is_export \in BOOLEAN
      /\ imp \in ImportsOf(Cur)
  BY <1>1, CurIsModule, ImportFields, CurrentImport DEF Importing
<1>3. CASE ImportSelf(imp)
  BY <1>2, <1>3, CrashStep DEF ImportSelf
<1>4. CASE ImportOverflow(imp)
  <2>1. ExportCircle BY <1>4, CircleIsWritten DEF ImportOverflow, CrashInv
  <2> QED BY <1>4, <2>1, CrashStep DEF ImportOverflow
<1>5. CASE ImportUnknownModule(imp) \/ ImportLater(imp)
  BY <1>2, <1>5, QuietStep DEF ImportUnknownModule, ImportLater, NextItem, tables
<1>6. CASE ImportFound(imp)
  BY <1>2, <1>6, QuietStep DEF ImportFound, NextItem
<1>7. CASE ImportGlob(imp)
  <2>1. /\ imp.src \in Modules /\ imp.symbol = Glob /\ PushModule(Cur, imp.is_export, imp.src)
        /\ UNCHANGED <<prog, pass>>
    BY <1>7 DEF ImportGlob, NextItem
  <2>2. CASE imp.is_export = FALSE
    BY <1>2, <2>1, <2>2, QuietStep DEF PushModule
  <2>3. CASE imp.is_export = TRUE
    <3>1. export_modules' = [export_modules EXCEPT ![Cur] = Append(@, imp.src)]
      BY <2>1, <2>3 DEF PushModule
    <3>2. ASSUME NEW m \in Modules, NEW s, Listed(export_modules'[m], s)
          PROVE  \E e \in ImportsOf(m) : e.is_export /\ e.symbol = Glob /\ e.src = s
      <4>1. Listed(export_modules[m], s) \/ (m = Cur /\ s = imp.src)
        <5>1. PICK f : f = export_modules OBVIOUS
        <5>2. PICK g : g = export_modules' OBVIOUS
        <5>3. PICK k \in Modules : k = Cur BY <1>2
        <5>4. f \in [Modules -> Seq(Modules)] /\ g = [f EXCEPT ![k] = Append(@, imp.src)]
          BY <3>1, <5>1, <5>2, <5>3 DEF TypeOK
        <5>5. PICK y \in Modules : y = imp.src BY <2>1
        <5>6. OnlyNew(f, g, k, y)
          BY ONLY <5>4, <5>5, k \in Modules, y \in Modules, AppendedIs
        <5> QED BY <3>2, <5>1, <5>2, <5>3, <5>5, <5>6 DEF OnlyNew
      <4>2. CASE Listed(export_modules[m], s) BY <4>2 DEF CrashInv, ExportsAsWritten
      <4>3. CASE m = Cur /\ s = imp.src BY <1>2, <2>1, <2>3, <4>3
      <4> QED BY <4>1, <4>2, <4>3
    <3>3. ExportsAsWritten' BY <2>1, <3>2 DEF ExportsAsWritten, ImportsOf, Listed
    <3>4. CrashesAreJustified' BY <1>2, <2>1 DEF CrashesAreJustified
    <3> QED BY <3>3, <3>4 DEF CrashInv
  <2> QED BY <1>2, <2>2, <2>3
<1> QED BY <1>1, <1>3, <1>4, <1>5, <1>6, <1>7

LEMMA FunctionsCrash ==
  ASSUME TypeOK, SettleInv, CrashInv, DeclareFunctions \/ EndDeclareFunctions
  PROVE  CrashInv'
<1>1. CASE DeclareFunctions
  <2>1. PICK f \in FunctionAst : Declaring(f) /\
          (DeclareFunction(f) \/ RejectFunction(f) \/ DeclareOverflow(f))
    BY <1>1 DEF DeclareFunctions
  <2>2. CASE DeclareOverflow(f)
    <3>1. f.sig \in Names /\ FindDecl(Cur, f.sig) = Overflow /\ Cur \in Modules
      BY <2>2, CurIsModule, SpecialValues DEF DeclareOverflow, SigType, FunctionAst
    <3>2. PICK n \in Names : n = f.sig BY <3>1
    <3>3. PICK m \in Modules : FindImport(m, n) = Overflow
      <4>1. CASE FindImport(Cur, n) = Overflow BY <3>1, <4>1
      <4>2. CASE FindImport(Cur, n) # Overflow
        <5> DEFINE a == [s \in Modules |-> FindImport(s, n)]
        <5>1. import_decls[Cur][n] # Overflow BY <3>1, SpecialValues DEF TypeOK
        <5>2. FirstAnswer(import_modules[Cur], a) = Overflow
          BY <3>1, <3>2, <4>2, <5>1, Zenon DEF FindDecl
        <5>3. import_modules[Cur] \in Seq(Modules) BY <3>1 DEF TypeOK
        <5>4. PICK i \in DOMAIN import_modules[Cur] : a[import_modules[Cur][i]] = Overflow
          <6> HIDE DEF a
          <6> QED BY <5>2, <5>3, FirstAnswerIs, SpecialValues
        <5>5. import_modules[Cur][i] \in Modules BY <5>3, ElementOfSeq, LenProperties
        <5>6. FindImport(import_modules[Cur][i], n) = Overflow BY <5>4, <5>5, Zenon
        <5> QED BY <5>5, <5>6
      <4> QED BY <4>1, <4>2
    <3>4. ExportCircle BY <3>3, CircleIsWritten DEF CrashInv
    <3> QED BY <2>2, <3>4, CrashStep DEF DeclareOverflow
  <2>3. CASE DeclareFunction(f) \/ RejectFunction(f)
    BY <2>1, <2>3, QuietStep DEF Declaring, DeclareFunction, RejectFunction, NextItem, tables
  <2> QED BY <2>1, <2>2, <2>3
<1>2. CASE EndDeclareFunctions
  BY <1>2, QuietStep DEF EndDeclareFunctions, NextModule, tables
<1> QED BY <1>1, <1>2

LEMMA Stage2Crashes ==
  ASSUME TypeOK, SettleInv, DeferredKnown, CrashInv, ImportStage2
  PROVE  CrashInv'
<1>1. PICK imp \in ImportAst : Resolving(imp) /\
        \/ ReserveGlob(imp) \/ ResolveFound(imp) \/ ResolveMissing(imp)
        \/ ResolveOverflow(imp)
  BY DEF ImportStage2
<1>2. CASE ResolveOverflow(imp)
  <2>1. imp.src \in Modules /\ imp.symbol \in Names BY <1>1, <1>2, DeferredSource DEF ResolveOverflow
  <2>2. ExportCircle BY <1>2, <2>1, CircleIsWritten DEF ResolveOverflow, CrashInv
  <2> QED BY <1>2, <2>2, CrashStep DEF ResolveOverflow
<1>3. CASE ReserveGlob(imp) \/ ResolveFound(imp) \/ ResolveMissing(imp)
  BY <1>1, <1>3, QuietStep DEF Resolving, ReserveGlob, ResolveFound, ResolveMissing, Resolved
<1> QED BY <1>1, <1>2, <1>3

LEMMA CrashInvHolds == Spec => []CrashInv
<1>1. Init => CrashInv
  <2> SUFFICES ASSUME Init PROVE CrashInv OBVIOUS
  <2>1. \A m \in Modules : \A s : ~Listed(export_modules[m], s) BY DEF Init, NoList, Listed
  <2> QED BY <2>1 DEF Init, CrashInv, ExportsAsWritten, CrashesAreJustified
<1>2. TypeOK /\ SettleInv /\ DeferredKnown /\ CrashInv /\ [Next]_vars => CrashInv'
  <2> SUFFICES ASSUME TypeOK, SettleInv, DeferredKnown, CrashInv, [Next]_vars
               PROVE  CrashInv'
    OBVIOUS
  <2>1. CASE DeclareAdt BY <2>1, QuietStep DEF DeclareAdt, NextItem
  <2>2. CASE EndDeclareAdts BY <2>2, QuietStep DEF EndDeclareAdts, NextModule, tables
  <2>3. CASE EndImportStage1 BY <2>3, QuietStep DEF EndImportStage1, NextModule
  <2>4. CASE EndImportStage2 BY <2>4, QuietStep DEF EndImportStage2, NextModule, tables
  <2>5. CASE UNCHANGED vars
    <3>1. UNCHANGED <<prog, pass, export_modules>> BY <2>5 DEF vars, tables
    <3>2. ExportsAsWritten' BY <3>1 DEF CrashInv, ExportsAsWritten, ImportsOf, Listed
    <3>3. \A m : ImportsOf(m)' = ImportsOf(m) BY <3>1 DEF ImportsOf
    <3>4. ExportCircle => ExportCircle' BY <3>3 DEF ExportCircle
    <3>5. CrashesAreJustified' BY <3>1, <3>3, <3>4 DEF CrashInv, CrashesAreJustified
    <3> QED BY <3>2, <3>5 DEF CrashInv
  <2> QED BY <2>1, <2>2, <2>3, <2>4, <2>5, Stage1Crashes, FunctionsCrash, Stage2Crashes DEF Next
<1> QED BY <1>1, <1>2, TypeCorrect, SettleInvHolds, DeferredKnownHolds, PTL DEF Spec

(* Whatever modules are compiled, the recursion of find_import             *)
(* (module.rs) is unbounded only where modules export each other by "+" in *)
(* a circle, and only a module that imports from itself is borrowed twice. *)
THEOREM CrashesAreJustifiedHolds == Spec => []CrashesAreJustified
BY CrashInvHolds, PTL DEF CrashInv

-----------------------------------------------------------------------------
(* find_import is its own unfolding: a module's answer is that of its own  *)
(* tables or the first answer of the modules it exports by "+".            *)
LEMMA FindsUnique ==
  ASSUME NEW n, NEW f, NEW g, NEW k \in Nat, NEW l \in Nat, Finds(f, n, k), Finds(g, n, l),
         NEW d \in Nat, d <= k, d <= l
  PROVE  f[d] = g[d]
<1> DEFINE I == {j \in Nat : j <= d => f[j] = g[j]}
<1>1. ASSUME NEW j \in Nat, j <= d, j # 0 => f[j - 1] = g[j - 1] PROVE f[j] = g[j]
  <2>1. j \in 0..k /\ j \in 0..l BY <1>1
  <2>2. f[j] = [s \in Modules |-> Call(f, n, j, s)] BY <2>1, FindsAt, Zenon
  <2>3. g[j] = [s \in Modules |-> Call(g, n, j, s)] BY <2>1, FindsAt, Zenon
  <2>4. [s \in Modules |-> Call(f, n, j, s)] = [s \in Modules |-> Call(g, n, j, s)]
    BY <1>1, CallSame
  <2> QED BY <2>2, <2>3, <2>4, Zenon
<1>2. 0 \in I BY <1>1
<1>3. ASSUME NEW j \in Nat, j \in I PROVE j + 1 \in I
  <2> SUFFICES ASSUME j + 1 <= d PROVE f[j + 1] = g[j + 1] OBVIOUS
  <2>1. j + 1 # 0 /\ j + 1 - 1 = j /\ f[j] = g[j] BY <1>3
  <2> QED BY <1>1, <2>1
<1> HIDE DEF I
<1>4. d \in I BY <1>2, <1>3, SetInduction
<1> QED BY <1>4 DEF I

(* After as many calls as there are modules nothing new is found.          *)
LEMMA FindsStable ==
  ASSUME TypeOK, IsFiniteSet(Modules), NEW n, NEW N, N = Cardinality(Modules), NEW f,
         Finds(f, n, N + 1)
  PROVE  f[N + 1] = f[N]
<1>0. N \in Nat BY FS_CardinalityType
<1> DEFINE R(d) == {s \in Modules : f[d][s] = Overflow}
<1>1. \A d \in Nat : d <= N + 1 => f[d] = [s \in Modules |-> Call(f, n, d, s)]
  <2>1. \A d \in Nat : d <= N + 1 => d \in 0..(N + 1) BY <1>0
  <2> QED BY <2>1, FindsAt, Zenon
<1>2. ASSUME NEW d \in Nat, d + 1 <= N + 1
      PROVE  /\ R(d + 1) \subseteq R(d)
             /\ R(d + 1) = R(d) => f[d + 1] = f[d]
  <2>1. \A s \in Modules : f[d][s] # Overflow => f[d + 1][s] = f[d][s]
    BY <1>0, <1>2, FindsKeep
  <2>2. f[d] = [s \in Modules |-> f[d][s]]
    <3>1. f[d] = [s \in Modules |-> Call(f, n, d, s)] BY <1>0, <1>1, <1>2
    <3> QED BY <3>1
  <2>3. f[d + 1] = [s \in Modules |-> f[d + 1][s]]
    <3>1. f[d + 1] = [s \in Modules |-> Call(f, n, d + 1, s)] BY <1>0, <1>1, <1>2
    <3> QED BY <3>1
  <2>4. ASSUME R(d + 1) = R(d) PROVE f[d + 1] = f[d]
    <3>1. \A s \in Modules : f[d + 1][s] = f[d][s] BY <2>1, <2>4
    <3>2. [s \in Modules |-> f[d + 1][s]] = [s \in Modules |-> f[d][s]] BY <3>1
    <3> QED BY <2>2, <2>3, <3>2, Zenon
  <2> QED BY <2>1, <2>4
<1>3. ASSUME NEW d \in Nat, d + 1 <= N, f[d + 1] = f[d] PROVE f[d + 2] = f[d + 1]
  <2>1. f[d + 1] = [s \in Modules |-> Call(f, n, d + 1, s)]
        /\ f[d + 2] = [s \in Modules |-> Call(f, n, d + 2, s)]
    BY <1>0, <1>1, <1>3
  <2>2. ASSUME NEW s PROVE Call(f, n, d + 2, s) = Call(f, n, d + 1, s)
    <3>1. PICK e \in Nat : e = d + 1 OBVIOUS
    <3>2. d + 2 = e + 1 /\ f[e] = f[d] BY <1>3, <3>1
    <3>3. Call(f, n, e + 1, s) = IF declarations[s][n] # None THEN declarations[s][n]
                                 ELSE IF export_decls[s][n] # None THEN export_decls[s][n]
                                 ELSE FirstAnswer(export_modules[s], f[e])
      BY CallLonger
    <3>4. Call(f, n, d + 1, s) = IF declarations[s][n] # None THEN declarations[s][n]
                                 ELSE IF export_decls[s][n] # None THEN export_decls[s][n]
                                 ELSE FirstAnswer(export_modules[s], f[d])
      BY CallLonger
    <3> QED BY <3>1, <3>2, <3>3, <3>4, Zenon
  <2>3. [s \in Modules |-> Call(f, n, d + 2, s)] = [s \in Modules |-> Call(f, n, d + 1, s)]
    BY <2>2, Zenon
  <2> QED BY <2>1, <2>3, Zenon
<1>4. ASSUME NEW d \in Nat, d + 1 <= N + 1, f[d + 1] = f[d] PROVE f[N + 1] = f[N]
  <2> DEFINE I == {j \in Nat : d + j + 1 <= N + 1 => f[d + j + 1] = f[d + j]}
  <2>1. 0 \in I BY <1>4
  <2>2. ASSUME NEW j \in Nat, j \in I PROVE j + 1 \in I
    <3> SUFFICES ASSUME d + (j + 1) + 1 <= N + 1
                 PROVE  f[d + (j + 1) + 1] = f[d + (j + 1)]
      OBVIOUS
    <3>1. PICK e \in Nat : e = d + j OBVIOUS
    <3>2. e + 1 <= N /\ f[e + 1] = f[e] BY <1>0, <2>2, <3>1
    <3>3. f[e + 2] = f[e + 1] BY <1>3, <3>2
    <3>4. d + (j + 1) + 1 = e + 2 /\ d + (j + 1) = e + 1 BY <3>1
    <3> QED BY <3>3, <3>4
  <2> HIDE DEF I
  <2>3. N - d \in I BY <1>0, <1>4, <2>1, <2>2, SetInduction
  <2>4. d + (N - d) = N /\ d + (N - d) + 1 = N + 1 BY <1>0
  <2> QED BY <1>0, <2>3, <2>4 DEF I
<1> SUFFICES ASSUME \A d \in Nat : d + 1 <= N + 1 => R(d + 1) # R(d) PROVE FALSE
  BY <1>2, <1>4
<1> DEFINE I == {j \in Nat : j <= N + 1 => IsFiniteSet(R(j)) /\ Cardinality(R(j)) + j <= N}
<1> HIDE DEF R
<1>5. 0 \in I
  <2>1. R(0) \subseteq Modules BY DEF R
  <2>2. IsFiniteSet(R(0)) /\ Cardinality(R(0)) <= Cardinality(Modules) BY <2>1, FS_Subset
  <2>3. Cardinality(R(0)) \in Nat BY <2>2, FS_CardinalityType
  <2> QED BY <1>0, <2>2, <2>3
<1>6. ASSUME NEW j \in Nat, j \in I PROVE j + 1 \in I
  <2> SUFFICES ASSUME j + 1 <= N + 1
               PROVE  IsFiniteSet(R(j + 1)) /\ Cardinality(R(j + 1)) + (j + 1) <= N
    OBVIOUS
  <2>1. IsFiniteSet(R(j)) /\ Cardinality(R(j)) + j <= N BY <1>0, <1>6
  <2>2. R(j + 1) \subseteq R(j) /\ R(j + 1) # R(j) BY <1>2
  <2>3. /\ IsFiniteSet(R(j + 1)) /\ Cardinality(R(j + 1)) <= Cardinality(R(j))
        /\ Cardinality(R(j + 1)) # Cardinality(R(j))
    BY <2>1, <2>2, FS_Subset
  <2>4. Cardinality(R(j + 1)) \in Nat /\ Cardinality(R(j)) \in Nat
    BY <2>1, <2>3, FS_CardinalityType
  <2> QED BY <1>0, <2>1, <2>3, <2>4
<1> HIDE DEF I
<1>7. N + 1 \in I BY <1>0, <1>5, <1>6, SetInduction
<1>8. IsFiniteSet(R(N + 1)) /\ Cardinality(R(N + 1)) + (N + 1) <= N BY <1>0, <1>7 DEF I
<1>9. Cardinality(R(N + 1)) \in Nat BY <1>8, FS_CardinalityType
<1> QED BY <1>0, <1>8, <1>9

LEMMA FindImportUnfolds ==
  ASSUME TypeOK, IsFiniteSet(Modules), NEW n \in Names, NEW m \in Modules
  PROVE  FindImport(m, n) =
           IF declarations[m][n] # None THEN declarations[m][n]
           ELSE IF export_decls[m][n] # None THEN export_decls[m][n]
           ELSE FirstAnswer(export_modules[m], [s \in Modules |-> FindImport(s, n)])
<1> DEFINE N == Cardinality(Modules)
<1>0. N \in Nat BY FS_CardinalityType
<1>1. PICK f : Finds(f, n, N) /\ \A s : FindImport(s, n) = f[N][s] BY <1>0, FindImportIs
<1>2. PICK g : Finds(g, n, N + 1)
  <2>1. N + 1 \in Nat BY <1>0
  <2> QED BY <2>1, FindsExists
<1>3. g[N + 1] = g[N] BY <1>2, FindsStable
<1> HIDE DEF N
<1>4. f[N] = g[N] BY <1>0, <1>1, <1>2, FindsUnique
<1>5. g[N + 1] = [s \in Modules |-> Call(g, n, N + 1, s)]
  <2>1. N + 1 \in 0..(N + 1) BY <1>0
  <2> QED BY <2>1, <1>2, FindsAt, Zenon
<1>6. f[N] = [s \in Modules |-> FindImport(s, n)]
  <2>1. N \in 0..N BY <1>0
  <2>2. f[N] = [s \in Modules |-> Call(f, n, N, s)] BY <2>1, <1>1, FindsAt, Zenon
  <2>3. \A s \in Modules : f[N][s] = Call(f, n, N, s) BY <2>2
  <2>4. \A s \in Modules : FindImport(s, n) = Call(f, n, N, s) BY <1>1, <2>3
  <2>5. [s \in Modules |-> FindImport(s, n)] = [s \in Modules |-> Call(f, n, N, s)]
    BY <2>4, Zenon
  <2> QED BY <2>2, <2>5, Zenon
<1>7. FindImport(m, n) = g[N + 1][m] BY <1>1, <1>3, <1>4
<1>8. FindImport(m, n) = Call(g, n, N + 1, m) BY <1>5, <1>7
<1>9. Call(g, n, N + 1, m) =
        IF declarations[m][n] # None THEN declarations[m][n]
        ELSE IF export_decls[m][n] # None THEN export_decls[m][n]
        ELSE FirstAnswer(export_modules[m], g[N])
  BY <1>0, CallLonger
<1> QED BY <1>4, <1>6, <1>8, <1>9, Zenon

-----------------------------------------------------------------------------
(* What the imports mean. A declaration is Backed for module s when it is  *)
(* found by going from s along "+" exports to a table that has it: then it *)
(* is what find_import answers, whatever is added to the tables - unless   *)
(* something is reported, or a name is ambiguous.                          *)

Closed(S, n, d) ==
  \A u \in Modules :
    (\/ declarations[u][n] = d
     \/ export_decls[u][n] = d
     \/ \E t \in S : Listed(export_modules[u], t)) => u \in S

Backed(s, n, d) == \A S \in SUBSET Modules : Closed(S, n, d) => s \in S

LEMMA FoundIsBacked ==
  ASSUME TypeOK, IsFiniteSet(Modules), NEW n \in Names, NEW s \in Modules, NEW d \in Declaration,
         FindImport(s, n) = d
  PROVE  Backed(s, n, d)
<1> SUFFICES ASSUME NEW S \in SUBSET Modules, Closed(S, n, d) PROVE s \in S BY DEF Backed
<1> DEFINE N == Cardinality(Modules)
<1>0. N \in Nat /\ d # None /\ d # Overflow BY FS_CardinalityType, SpecialValues
<1>1. PICK f : Finds(f, n, N) /\ \A t : FindImport(t, n) = f[N][t] BY <1>0, FindImportIs
<1> HIDE DEF N
<1> DEFINE I == {j \in Nat : j <= N => \A t \in Modules : f[j][t] = d => t \in S}
<1>2. ASSUME NEW j \in Nat, j <= N, NEW t \in Modules, f[j][t] = d,
             j # 0 => \A u \in Modules : f[j - 1][u] = d => u \in S
      PROVE  t \in S
  <2>1. Call(f, n, j, t) = d
    <3>1. j \in 0..N BY <1>0, <1>2
    <3>2. f[j] = [u \in Modules |-> Call(f, n, j, u)] BY <1>1, <3>1, FindsAt, Zenon
    <3> QED BY <1>2, <3>2
  <2>2. \/ declarations[t][n] = d
        \/ export_decls[t][n] = d
        \/ j # 0 /\ FirstAnswer(export_modules[t], f[j - 1]) = d
    BY <1>0, <2>1, Zenon DEF Call
  <2>3. CASE j # 0 /\ FirstAnswer(export_modules[t], f[j - 1]) = d
    <3>1. export_modules[t] \in Seq(Modules) BY DEF TypeOK
    <3>2. PICK i \in DOMAIN export_modules[t] : f[j - 1][export_modules[t][i]] = d
      BY <1>0, <2>3, <3>1, FirstAnswerIs
    <3>3. export_modules[t][i] \in Modules BY <3>1, ElementOfSeq, LenProperties
    <3>4. export_modules[t][i] \in S BY <1>2, <2>3, <3>2, <3>3
    <3> QED BY <3>2, <3>4 DEF Closed, Listed
  <2> QED BY <2>2, <2>3 DEF Closed
<1>3. 0 \in I BY <1>2
<1>4. ASSUME NEW j \in Nat, j \in I PROVE j + 1 \in I
  <2> SUFFICES ASSUME j + 1 <= N, NEW t \in Modules, f[j + 1][t] = d PROVE t \in S OBVIOUS
  <2>1. j + 1 - 1 = j /\ \A u \in Modules : f[j][u] = d => u \in S BY <1>0, <1>4
  <2> QED BY <1>2, <2>1
<1> HIDE DEF I
<1>5. N \in I BY <1>0, <1>3, <1>4, SetInduction
<1> QED BY <1>0, <1>1, <1>5 DEF I

(* Nothing is taken out of the tables, and nothing replaced unreported.    *)
Grows ==
  /\ Keeps
  /\ errors' = {} => \A m \in Modules, n \in Names :
       /\ declarations[m][n] # None => declarations'[m][n] = declarations[m][n]
       /\ import_decls[m][n] # None => import_decls'[m][n] = import_decls[m][n]
       /\ export_decls[m][n] # None => export_decls'[m][n] = export_decls[m][n]

LEMMA NextKeeps == TypeOK /\ [Next]_vars => Keeps
<1> SUFFICES ASSUME TypeOK, [Next]_vars PROVE Keeps OBVIOUS
<1>0. Cur \in Modules /\ errors \subseteq errors' BY CurIsModule, NextBinds DEF StepBinds
<1>1. ASSUME NEW imp \in ImportAst, NEW d \in Declaration, imp.symbol \in Names,
             InsertDecl(Cur, imp.is_export, imp.symbol, d),
             UNCHANGED <<import_modules, export_modules>>
      PROVE  Keeps
  BY <1>0, <1>1, ImportFields, InsertKeeps
<1>2. CASE ImportStage1
  <2>1. PICK imp \in ImportAst : Importing(imp) /\
          \/ ImportUnknownModule(imp) \/ ImportSelf(imp) \/ ImportGlob(imp)
          \/ ImportFound(imp) \/ ImportLater(imp) \/ ImportOverflow(imp)
    BY <1>2 DEF ImportStage1
  <2>2. CASE ImportGlob(imp)
    BY <1>0, <2>2, ImportFields, PushKeeps DEF ImportGlob
  <2>3. CASE ImportFound(imp)
    <3>1. PICK d : d = FindImport(imp.src, imp.symbol) OBVIOUS
    <3> QED BY <1>1, <2>3, <3>1 DEF ImportFound
  <2>4. CASE ImportUnknownModule(imp) \/ ImportSelf(imp) \/ ImportLater(imp) \/ ImportOverflow(imp)
    BY <1>0, <2>4, NothingTaken
    DEF ImportUnknownModule, ImportSelf, ImportLater, ImportOverflow, Crash, tables
  <2> QED BY <2>1, <2>2, <2>3, <2>4
<1>3. CASE ImportStage2
  <2>1. PICK imp \in ImportAst : Resolving(imp) /\
          \/ ReserveGlob(imp) \/ ResolveFound(imp) \/ ResolveMissing(imp)
          \/ ResolveOverflow(imp)
    BY <1>3 DEF ImportStage2
  <2>2. CASE ResolveFound(imp)
    <3>1. PICK d : d = FindImport(imp.src, imp.symbol) OBVIOUS
    <3> QED BY <1>1, <2>2, <3>1 DEF ResolveFound, Resolved
  <2>3. CASE ReserveGlob(imp) \/ ResolveMissing(imp) \/ ResolveOverflow(imp)
    BY <1>0, <2>3, NothingTaken
    DEF ReserveGlob, ResolveMissing, ResolveOverflow, Resolved, Crash, tables
  <2> QED BY <2>1, <2>2, <2>3
<1>4. CASE EndImportStage1
  <2>1. CASE UNCHANGED import_modules
    BY <1>0, <1>4, <2>1, NothingTaken DEF EndImportStage1
  <2>2. CASE UsesPrelude(Cur)
    <3>1. Prelude \in Modules BY <2>2, PreludeIsModule DEF UsesPrelude
    <3>2. PushModule(Cur, FALSE, Prelude) BY <1>4, <2>2 DEF EndImportStage1, PushModule
    <3> QED BY <1>0, <1>4, <3>1, <3>2, PushKeeps DEF EndImportStage1
  <2> QED BY <1>4, <2>1, <2>2 DEF EndImportStage1
<1>5. CASE DeclareFunctions
  BY <1>0, <1>5, NothingTaken
  DEF DeclareFunctions, DeclareFunction, RejectFunction, DeclareOverflow, Crash, tables
<1>6. CASE DeclareAdt \/ EndDeclareAdts \/ EndDeclareFunctions \/ EndImportStage2 \/ UNCHANGED vars
  BY <1>0, <1>6, NothingTaken
  DEF DeclareAdt, EndDeclareAdts, EndDeclareFunctions, EndImportStage2, vars, tables
<1> QED BY <1>2, <1>3, <1>4, <1>5, <1>6 DEF Next

LEMMA NextGrows == TypeOK /\ BoundNamesReserved /\ [Next]_vars => Grows
<1> SUFFICES ASSUME TypeOK, BoundNamesReserved, [Next]_vars PROVE Grows OBVIOUS
<1>1. StepBinds BY NextBinds
<1>2. ASSUME errors' = {}, NEW m \in Modules, NEW n \in Names
      PROVE  /\ declarations[m][n] # None => declarations'[m][n] = declarations[m][n]
             /\ import_decls[m][n] # None => import_decls'[m][n] = import_decls[m][n]
             /\ export_decls[m][n] # None => export_decls'[m][n] = export_decls[m][n]
  BY <1>1, <1>2 DEF StepBinds, Changed, Binds, BoundNamesReserved, OwnBinding
<1> QED BY <1>2, NextKeeps DEF Grows

LEMMA BackedStays ==
  ASSUME Grows, errors' = {}, NEW n \in Names, NEW d \in Declaration, NEW s, Backed(s, n, d)
  PROVE  Backed(s, n, d)'
<1> SUFFICES ASSUME NEW S \in SUBSET Modules, Closed(S, n, d)' PROVE s \in S BY DEF Backed
<1>0. d # None BY SpecialValues
<1>1. Closed(S, n, d)
  <2> SUFFICES ASSUME NEW u \in Modules,
                      \/ declarations[u][n] = d \/ export_decls[u][n] = d
                      \/ \E t \in S : Listed(export_modules[u], t)
               PROVE  u \in S
    BY DEF Closed
  <2>1. \/ declarations'[u][n] = d \/ export_decls'[u][n] = d
        \/ \E t \in S : Listed(export_modules'[u], t)
    BY <1>0 DEF Grows, Keeps
  <2> QED BY <2>1 DEF Closed, Listed
<1> QED BY <1>1 DEF Backed

(* The table an import by name binds in.                                   *)
Table(e) == IF e THEN export_decls ELSE import_decls

Bound(m, imp) ==
  /\ Table(imp.is_export)[m][imp.symbol] # None
  /\ errors = {} => Backed(imp.src, imp.symbol, Table(imp.is_export)[m][imp.symbol])

LEMMA TableTyped ==
  ASSUME TypeOK, NEW e \in BOOLEAN, NEW m \in Modules, NEW n \in Names,
         Table(e)[m][n] # None
  PROVE  Table(e)[m][n] \in Declaration
<1>1. /\ import_decls \in [Modules -> [Names -> Declaration \cup {None}]]
      /\ export_decls \in [Modules -> [Names -> Declaration \cup {None}]]
  BY DEF TypeOK
<1>2. CASE e = TRUE BY <1>1, <1>2 DEF Table
<1>3. CASE e = FALSE BY <1>1, <1>3 DEF Table
<1> QED BY <1>2, <1>3

LEMMA BoundStays ==
  ASSUME TypeOK, Grows, NEW m \in Modules, NEW imp \in ImportAst, imp.symbol \in Names,
         Bound(m, imp)
  PROVE  Bound(m, imp)'
<1>1. PICK e \in BOOLEAN : e = imp.is_export BY ImportFields
<1>2. PICK n \in Names : n = imp.symbol OBVIOUS
<1>3. ASSUME errors' = {}
      PROVE  Table(e)'[m][n] = Table(e)[m][n] /\ Backed(imp.src, n, Table(e)[m][n])'
  <2>1. errors = {} BY <1>3 DEF Grows, Keeps
  <2>2. Table(e)[m][n] # None /\ Backed(imp.src, n, Table(e)[m][n]) BY <1>1, <1>2, <2>1 DEF Bound
  <2>3. PICK d \in Declaration : d = Table(e)[m][n] BY <2>2, TableTyped
  <2>4. Backed(imp.src, n, d)' BY <1>3, <2>2, <2>3, BackedStays
  <2>5. Table(e)'[m][n] = d
    <3>1. CASE e = TRUE BY <1>3, <2>2, <2>3, <3>1 DEF Table, Grows
    <3>2. CASE e = FALSE BY <1>3, <2>2, <2>3, <3>2 DEF Table, Grows
    <3> QED BY <3>1, <3>2
  <2> QED BY <2>3, <2>4, <2>5
<1>4. Table(e)'[m][n] # None
  <2>1. Table(e)[m][n] # None BY <1>1, <1>2 DEF Bound
  <2>2. CASE e = TRUE BY <2>1, <2>2 DEF Table, Grows, Keeps
  <2>3. CASE e = FALSE BY <2>1, <2>3 DEF Table, Grows, Keeps
  <2> QED BY <2>2, <2>3
<1> QED BY <1>1, <1>2, <1>3, <1>4 DEF Bound

-----------------------------------------------------------------------------
(* What a module offers.                                                   *)
Offer(f, d, m) ==
  DeclaredNames(m) \cup
  IF d = 0 THEN {}
  ELSE {n \in Names : \E imp \in ImportsOf(m) :
          /\ imp.is_export /\ NamedBy(imp, n)
          /\ imp.src \in Modules /\ n \in f[d - 1][imp.src]}

Offers(f, k) == f = [d \in 0..k |-> [m \in Modules |-> Offer(f, d, m)]]

LEMMA OffersAt ==
  ASSUME NEW f, NEW k
  PROVE  Offers(f, k)
         <=> /\ f = [d \in 0..k |-> f[d]]
             /\ \A d \in 0..k : f[d] = [m \in Modules |-> Offer(f, d, m)]
<1> DEFINE h == [d \in 0..k |-> [m \in Modules |-> Offer(f, d, m)]]
<1>1. \A d \in 0..k : h[d] = [m \in Modules |-> Offer(f, d, m)] OBVIOUS
<1>2. h = [d \in 0..k |-> h[d]] OBVIOUS
<1>3. Offers(f, k) <=> f = h BY Zenon DEF Offers
<1> HIDE DEF h
<1>4. ASSUME f = h PROVE \A d \in 0..k : f[d] = [m \in Modules |-> Offer(f, d, m)]
  BY <1>1, <1>4, Zenon
<1>5. ASSUME f = [d \in 0..k |-> f[d]], \A d \in 0..k : f[d] = [m \in Modules |-> Offer(f, d, m)]
      PROVE  f = h
  <2>1. \A d \in 0..k : f[d] = h[d] BY <1>1, <1>5, Zenon
  <2>2. [d \in 0..k |-> f[d]] = [d \in 0..k |-> h[d]] BY <2>1
  <2> QED BY <2>2, <1>2, <1>5, Zenon
<1> QED BY <1>2, <1>3, <1>4, <1>5, Zenon

LEMMA OfferSame ==
  ASSUME NEW f, NEW g, NEW d \in Nat, d # 0 => f[d - 1] = g[d - 1]
  PROVE  [m \in Modules |-> Offer(f, d, m)] = [m \in Modules |-> Offer(g, d, m)]
<1>1. ASSUME NEW m PROVE Offer(f, d, m) = Offer(g, d, m)
  <2>1. CASE d = 0 BY <2>1 DEF Offer
  <2>2. CASE d # 0 BY <2>2, Zenon DEF Offer
  <2> QED BY <2>1, <2>2
<1> QED BY <1>1, Zenon

LEMMA OffersExtend ==
  ASSUME NEW j \in Nat, NEW f, NEW g,
         g = [d \in 0..j |-> IF d = j THEN [m \in Modules |-> Offer(f, j, m)] ELSE f[d]],
         \A d \in 0..j : d # j => f[d] = [m \in Modules |-> Offer(f, d, m)]
  PROVE  Offers(g, j)
<1> DEFINE last == [m \in Modules |-> Offer(f, j, m)]
<1>2. \A d \in 0..j : g[d] = IF d = j THEN last ELSE f[d] OBVIOUS
<1>3. g = [d \in 0..j |-> g[d]] OBVIOUS
<1> HIDE DEF last
<1>5. ASSUME NEW d \in 0..j PROVE g[d] = [m \in Modules |-> Offer(g, d, m)]
  <2>1. d \in Nat /\ (d # 0 => d - 1 \in 0..j /\ d - 1 # j) OBVIOUS
  <2>2. d # 0 => g[d - 1] = f[d - 1] BY <2>1, <1>2
  <2>3. [m \in Modules |-> Offer(f, d, m)] = [m \in Modules |-> Offer(g, d, m)]
    BY <2>1, <2>2, OfferSame
  <2>4. d = j => g[d] = [m \in Modules |-> Offer(f, d, m)] BY <1>2 DEF last
  <2>5. d # j => g[d] = [m \in Modules |-> Offer(f, d, m)] BY <1>2
  <2> QED BY <2>3, <2>4, <2>5, Zenon
<1> QED BY <1>3, <1>5, OffersAt, Zenon

LEMMA OffersExists == ASSUME NEW k \in Nat PROVE \E f : Offers(f, k)
<1> DEFINE I == {j \in Nat : \E f : Offers(f, j)}
<1>1. 0 \in I
  <2> DEFINE f == [d \in 0..0 |-> {}]
             g == [d \in 0..0 |-> IF d = 0 THEN [m \in Modules |-> Offer(f, 0, m)] ELSE f[d]]
  <2>1. Offers(g, 0)
    <3>1. \A d \in 0..0 : d = 0 OBVIOUS
    <3> HIDE DEF f
    <3> QED BY <3>1, OffersExtend
  <2> HIDE DEF g
  <2> QED BY <2>1
<1>2. ASSUME NEW j \in Nat, j \in I PROVE j + 1 \in I
  <2>1. PICK f : Offers(f, j) BY <1>2
  <2>2. \A d \in 0..j : f[d] = [m \in Modules |-> Offer(f, d, m)] BY <2>1, OffersAt, Zenon
  <2>3. PICK g : g = [d \in 0..(j + 1) |-> IF d = j + 1 THEN [m \in Modules |-> Offer(f, j + 1, m)]
                                           ELSE f[d]]
    OBVIOUS
  <2>4. \A d \in 0..(j + 1) : d # j + 1 => d \in 0..j OBVIOUS
  <2>5. \A d \in 0..(j + 1) : d # j + 1 => f[d] = [m \in Modules |-> Offer(f, d, m)]
    BY <2>2, <2>4
  <2>6. Offers(g, j + 1) BY ONLY j + 1 \in Nat, <2>3, <2>5, OffersExtend
  <2> QED BY <2>6
<1> HIDE DEF I
<1>3. k \in I BY <1>1, <1>2, SetInduction
<1> QED BY <1>3 DEF I

LEMMA OfferedIs ==
  ASSUME Cardinality(Modules) \in Nat
  PROVE  \E f : Offers(f, Cardinality(Modules)) /\ Offered = f[Cardinality(Modules)]
<1> DEFINE g == CHOOSE g : Offers(g, Cardinality(Modules))
<1>1. Offers(g, Cardinality(Modules)) BY OffersExists, Zenon
<1>2. Offered = g[Cardinality(Modules)] BY Zenon DEF Offered, Offers, Offer
<1> QED BY <1>1, <1>2

(* To be offered by a module a name is declared there, or exported there   *)
(* from a module that offers it: induction along the exports.              *)
LEMMA OfferedInduction ==
  ASSUME IsFiniteSet(Modules), NEW n \in Names, NEW T \in SUBSET Modules,
         \A s \in Modules :
           (\/ n \in DeclaredNames(s)
            \/ \E imp \in ImportsOf(s) :
                 /\ imp.is_export /\ NamedBy(imp, n)
                 /\ imp.src \in T /\ n \in Offered[imp.src]) => s \in T,
         NEW m \in Modules, n \in Offered[m]
  PROVE  m \in T
<1> DEFINE N == Cardinality(Modules)
<1>0. N \in Nat BY FS_CardinalityType
<1>1. PICK f : Offers(f, N) /\ Offered = f[N] BY <1>0, OfferedIs
<1> HIDE DEF N
<1>2. \A d \in Nat : d <= N => f[d] = [s \in Modules |-> Offer(f, d, s)]
  <2>1. \A d \in Nat : d <= N => d \in 0..N BY <1>0
  <2> QED BY <1>1, <2>1, OffersAt, Zenon
<1>3. \A d \in Nat, s \in Modules : d <= N => f[d][s] = Offer(f, d, s) BY <1>2
<1> DEFINE U == {j \in Nat : j + 1 <= N => \A s \in Modules : f[j][s] \subseteq f[j + 1][s]}
<1>4. 0 \in U
  <2> SUFFICES ASSUME 0 + 1 <= N, NEW s \in Modules PROVE f[0][s] \subseteq f[0 + 1][s] OBVIOUS
  <2>1. f[0][s] = Offer(f, 0, s) /\ f[0 + 1][s] = Offer(f, 0 + 1, s) BY <1>0, <1>3
  <2>2. Offer(f, 0, s) = DeclaredNames(s) BY DEF Offer
  <2>3. DeclaredNames(s) \subseteq Offer(f, 0 + 1, s) BY DEF Offer
  <2> QED BY <2>1, <2>2, <2>3
<1>5. ASSUME NEW j \in Nat, j \in U PROVE j + 1 \in U
  <2> SUFFICES ASSUME (j + 1) + 1 <= N, NEW s \in Modules, NEW x \in f[j + 1][s]
               PROVE  x \in f[(j + 1) + 1][s]
    OBVIOUS
  <2>1. PICK e \in Nat : e = j + 1 OBVIOUS
  <2>2. e # 0 /\ e - 1 = j /\ e + 1 # 0 /\ (e + 1) - 1 = e /\ e <= N /\ e + 1 <= N BY <1>0, <2>1
  <2>3. \A t \in Modules : f[j][t] \subseteq f[e][t] BY <1>0, <1>5, <2>1, <2>2
  <2>4. f[e][s] = Offer(f, e, s) /\ f[e + 1][s] = Offer(f, e + 1, s) BY <1>3, <2>2
  <2>5. CASE x \in DeclaredNames(s) BY <2>1, <2>4, <2>5 DEF Offer
  <2>6. CASE x \notin DeclaredNames(s)
    <3>1. x \in Names /\ \E imp \in ImportsOf(s) : imp.is_export /\ NamedBy(imp, x)
                           /\ imp.src \in Modules /\ x \in f[j][imp.src]
      BY <2>1, <2>2, <2>4, <2>6 DEF Offer
    <3>2. \E imp \in ImportsOf(s) : imp.is_export /\ NamedBy(imp, x)
                           /\ imp.src \in Modules /\ x \in f[e][imp.src]
      BY <2>3, <3>1
    <3>3. x \in Offer(f, e + 1, s) BY <2>2, <3>1, <3>2 DEF Offer
    <3> QED BY <2>1, <2>4, <3>3
  <2> QED BY <2>5, <2>6
<1> HIDE DEF U
<1>6. \A j \in Nat : j + 1 <= N => \A s \in Modules : f[j][s] \subseteq f[j + 1][s]
  <2>1. Nat \subseteq U BY <1>4, <1>5, SetInduction
  <2> QED BY <2>1 DEF U
<1> DEFINE V == {j \in Nat : j <= N => \A s \in Modules : f[N - j][s] \subseteq f[N][s]}
<1>7. 0 \in V
  <2>1. N - 0 = N BY <1>0
  <2> QED BY <2>1
<1>8. ASSUME NEW j \in Nat, j \in V PROVE j + 1 \in V
  <2> SUFFICES ASSUME j + 1 <= N, NEW s \in Modules PROVE f[N - (j + 1)][s] \subseteq f[N][s]
    OBVIOUS
  <2>1. PICK e \in Nat : e = N - (j + 1) BY <1>0
  <2>2. e + 1 = N - j /\ e + 1 <= N BY <1>0, <2>1
  <2>3. f[e][s] \subseteq f[e + 1][s] BY <1>6, <2>2
  <2>4. f[N - j][s] \subseteq f[N][s] BY <1>0, <1>8
  <2> QED BY <2>1, <2>2, <2>3, <2>4
<1> HIDE DEF V
<1>9. ASSUME NEW d \in Nat, d <= N, NEW s \in Modules PROVE f[d][s] \subseteq Offered[s]
  <2>1. N - d \in V BY <1>0, <1>7, <1>8, <1>9, SetInduction
  <2>2. N - d \in Nat /\ N - d <= N /\ N - (N - d) = d BY <1>0, <1>9
  <2>3. f[N - (N - d)][s] \subseteq f[N][s] BY <2>1, <2>2 DEF V
  <2> QED BY <1>1, <2>2, <2>3
<1> DEFINE I == {j \in Nat : j <= N => \A s \in Modules : n \in f[j][s] => s \in T}
<1>10. ASSUME NEW j \in Nat, j <= N, NEW s \in Modules, n \in f[j][s],
              j # 0 => \A t \in Modules : n \in f[j - 1][t] => t \in T
       PROVE  s \in T
  <2>1. n \in Offer(f, j, s) BY <1>3, <1>10
  <2>2. CASE n \in DeclaredNames(s) BY <2>2
  <2>3. CASE n \notin DeclaredNames(s)
    <3>1. j # 0 BY <2>1, <2>3 DEF Offer
    <3>2. PICK imp \in ImportsOf(s) : imp.is_export /\ NamedBy(imp, n)
                                      /\ imp.src \in Modules /\ n \in f[j - 1][imp.src]
      BY <2>1, <2>3, <3>1 DEF Offer
    <3>3. imp.src \in T BY <1>10, <3>1, <3>2
    <3>4. j - 1 \in Nat /\ j - 1 <= N BY <1>0, <1>10, <3>1
    <3>5. n \in Offered[imp.src] BY <1>9, <3>2, <3>4
    <3> QED BY <3>2, <3>3, <3>5
  <2> QED BY <2>2, <2>3
<1>11. 0 \in I BY <1>10
<1>12. ASSUME NEW j \in Nat, j \in I PROVE j + 1 \in I
  <2> SUFFICES ASSUME j + 1 <= N, NEW s \in Modules, n \in f[j + 1][s] PROVE s \in T OBVIOUS
  <2>1. j + 1 - 1 = j /\ \A t \in Modules : n \in f[j][t] => t \in T BY <1>0, <1>12
  <2> QED BY <1>10, <2>1
<1> HIDE DEF I
<1>13. N \in I BY <1>0, <1>11, <1>12, SetInduction
<1> QED BY <1>0, <1>1, <1>13 DEF I

-----------------------------------------------------------------------------
(* The import passes, from what they have seen of a module's imports.      *)

LEMMA OrderFixed == Spec => [](order \in Orders)
<1>1. Init => order \in Orders BY DEF Init
<1>2. order \in Orders /\ [Next]_vars => (order \in Orders)'
  BY DEF Next, DeclareAdt, EndDeclareAdts, ImportStage1, EndImportStage1, DeclareFunctions,
         EndDeclareFunctions, ImportStage2, EndImportStage2, vars, ImportUnknownModule,
         ImportSelf, ImportGlob, ImportFound, ImportLater, ImportOverflow, Crash,
         DeclareFunction, RejectFunction, DeclareOverflow, ReserveGlob, ResolveFound,
         ResolveMissing, ResolveOverflow, Resolved
<1> QED BY <1>1, <1>2, PTL DEF Spec

Seen(m, i) == \/ pass \in {"declare_functions", "import_stage_2", "done"}
              \/ pass = "import_stage_1" /\ Visited(m, i)

(* The import was reported, and rightly so.                                *)
Unfound(m, imp) ==
  /\ pass \in {"import_stage_2", "done"}
  /\ errors # {}
  /\ ExportersFirst => imp.symbol \notin Offered[imp.src]

ByName(m, imp) == Waits(m, imp) \/ Bound(m, imp) \/ Unfound(m, imp)

Status(m, imp) ==
  /\ imp.src \notin Modules => errors # {}
  /\ imp.src \in Modules /\ imp.symbol = Glob => InForce(m, imp)
  /\ imp.src \in Modules /\ imp.symbol # Glob => ByName(m, imp)

ImportInv == \A m \in Modules : \A i \in DOMAIN prog[m].imports :
               Seen(m, i) => Status(m, prog[m].imports[i])

(* What a step sees is seen already or the current import of the first     *)
(* pass.                                                                   *)
LEMMA SeenNext ==
  ASSUME TypeOK, SettleInv, [Next]_vars, NEW m \in Modules, NEW i \in DOMAIN prog[m].imports,
         Seen(m, i)'
  PROVE  Seen(m, i) \/ (ImportStage1 /\ m = Cur /\ i = item)
<1>1. CASE pass \in {"declare_functions", "import_stage_2", "done"} BY <1>1 DEF Seen
<1>2. CASE pass = "declare_adts"
  <2>1. CASE DeclareAdt BY <1>2, <2>1 DEF DeclareAdt, NextItem, Seen
  <2>2. CASE EndDeclareAdts
    <3>1. /\ UNCHANGED order
          /\ pass' = "declare_adts" \/ (pass' = "import_stage_1" /\ turn' = 1 /\ item' = 1)
      BY <2>2 DEF EndDeclareAdts, NextModule
    <3>2. ~Visited(m, i)' \/ ~(turn' = 1 /\ item' = 1)
      BY <3>1, ImportsTyped, OrderTyped DEF Visited
    <3> QED BY <3>1, <3>2 DEF Seen
  <2>3. CASE UNCHANGED vars BY <1>2, <2>3 DEF vars, Seen
  <2> QED
    BY <1>2, <2>1, <2>2, <2>3
    DEF Next, ImportStage1, Importing, EndImportStage1, DeclareFunctions, Declaring,
        EndDeclareFunctions, ImportStage2, Resolving, EndImportStage2
<1>3. CASE pass = "import_stage_1"
  <2>1. CASE ImportStage1
    <3>1. PICK imp \in ImportAst : Importing(imp) /\
            \/ ImportUnknownModule(imp) \/ ImportSelf(imp) \/ ImportGlob(imp)
            \/ ImportFound(imp) \/ ImportLater(imp) \/ ImportOverflow(imp)
      BY <2>1 DEF ImportStage1
    <3>2. CASE ImportSelf(imp) \/ ImportOverflow(imp)
      BY <3>2 DEF ImportSelf, ImportOverflow, Crash, Seen
    <3>3. CASE NextItem /\ UNCHANGED order
      <4>1. PICK j \in DOMAIN order : order[j] = m /\ (j < turn \/ (j = turn /\ i < item + 1))
        BY <1>3, <3>3 DEF Seen, Visited, NextItem
      <4>2. i \in Nat /\ item \in Nat BY ImportsTyped, OrderTyped
      <4>3. CASE j < turn \/ (j = turn /\ i < item) BY <1>3, <4>1, <4>3 DEF Seen, Visited
      <4>4. CASE j = turn /\ i = item BY <2>1, <4>1, <4>4 DEF Cur
      <4> QED BY <4>1, <4>2, <4>3, <4>4
    <3> QED BY <3>1, <3>2, <3>3 DEF ImportUnknownModule, ImportGlob, ImportFound, ImportLater
  <2>2. CASE EndImportStage1
    <3>1. /\ item > Len(prog[Cur].imports) /\ UNCHANGED order
          /\ \/ pass' = "import_stage_1" /\ turn' = turn + 1 /\ item' = 1
             \/ pass' = "declare_functions" /\ ~(turn < Len(order))
      BY <2>2 DEF EndImportStage1, NextModule
    <3>2. PICK j \in DOMAIN order : order[j] = m /\ (j < turn \/ j = turn)
      <4>1. CASE pass' = "import_stage_1" /\ turn' = turn + 1 /\ item' = 1
        <5>1. PICK j \in DOMAIN order : order[j] = m /\ (j < turn + 1 \/ i < 1)
          BY <3>1, <4>1 DEF Seen, Visited
        <5>2. i \in Nat \ {0} /\ j \in Nat /\ turn \in Nat BY ImportsTyped, OrderTyped
        <5> QED BY <5>1, <5>2
      <4>2. CASE pass' = "declare_functions" /\ ~(turn < Len(order))
        <5>1. PICK j \in DOMAIN order : order[j] = m BY DEF SettleInv
        <5> QED BY <4>2, <5>1, OrderTyped
      <4> QED BY <3>1, <4>1, <4>2
    <3>3. j = turn => i < item BY <3>1, <3>2, ImportsTyped, OrderTyped DEF Cur
    <3> QED BY <1>3, <3>2, <3>3 DEF Seen, Visited
  <2>3. CASE UNCHANGED vars BY <1>3, <2>3 DEF vars, Seen, Visited
  <2> QED
    BY <1>3, <2>1, <2>2, <2>3
    DEF Next, DeclareAdt, EndDeclareAdts, DeclareFunctions, Declaring,
        EndDeclareFunctions, ImportStage2, Resolving, EndImportStage2
<1>4. CASE pass \in {"panic", "overflow"}
  <2>1. UNCHANGED vars
    BY <1>4 DEF Next, DeclareAdt, EndDeclareAdts, ImportStage1, Importing, EndImportStage1,
                DeclareFunctions, Declaring, EndDeclareFunctions, ImportStage2, Resolving,
                EndImportStage2
  <2> QED BY <1>4, <2>1 DEF vars, Seen
<1> QED BY <1>1, <1>2, <1>3, <1>4 DEF TypeOK, Passes, Ended

LEMMA SameProgram == [Next]_vars => UNCHANGED <<prog, order>>
BY DEF Next, DeclareAdt, EndDeclareAdts, ImportStage1, EndImportStage1, DeclareFunctions,
       EndDeclareFunctions, ImportStage2, EndImportStage2, vars, ImportUnknownModule,
       ImportSelf, ImportGlob, ImportFound, ImportLater, ImportOverflow, Crash,
       DeclareFunction, RejectFunction, DeclareOverflow, ReserveGlob, ResolveFound,
       ResolveMissing, ResolveOverflow, Resolved

(* From the second import pass on no declarations are added.               *)
LEMMA LateDeclarations ==
  ASSUME [Next]_vars, pass \in {"import_stage_2", "done"}
  PROVE  /\ UNCHANGED declarations
         /\ pass' \in {"import_stage_2", "done", "overflow"}
<1>1. CASE ImportStage2
  BY <1>1 DEF ImportStage2, Resolving, ReserveGlob, ResolveFound, ResolveMissing, ResolveOverflow,
              Resolved, Crash, tables
<1>2. CASE EndImportStage2 BY <1>2 DEF EndImportStage2, NextModule, tables
<1>3. CASE UNCHANGED vars BY <1>3 DEF vars, tables
<1> QED
  BY <1>1, <1>2, <1>3
  DEF Next, DeclareAdt, EndDeclareAdts, ImportStage1, Importing, EndImportStage1,
      DeclareFunctions, Declaring, EndDeclareFunctions

LEMMA StaticOffers ==
  ASSUME UNCHANGED <<prog, order>>
  PROVE  /\ ExportersFirst' = ExportersFirst
         /\ UNCHANGED declarations => Offered' = Offered
<1>1. \A m : ImportsOf(m)' = ImportsOf(m) BY DEF ImportsOf
<1>2. \A s : GlobReach(s)' = GlobReach(s) BY <1>1 DEF GlobReach
<1>3. \A s, m : Before(s, m)' = Before(s, m) BY DEF Before
<1>4. ExportersFirst' = ExportersFirst BY <1>1, <1>2, <1>3 DEF ExportersFirst
<1>5. UNCHANGED declarations => Offered' = Offered
  BY DEF Offered, ImportsOf, DeclaredNames, NamedBy
<1> QED BY <1>4, <1>5

LEMMA UnfoundStays ==
  ASSUME [Next]_vars, Grows, NEW m, NEW imp, Unfound(m, imp), pass' # "overflow"
  PROVE  Unfound(m, imp)'
<1>1. UNCHANGED <<prog, order>> BY SameProgram
<1>2. UNCHANGED declarations /\ pass' \in {"import_stage_2", "done"}
  BY LateDeclarations DEF Unfound
<1>3. ExportersFirst' = ExportersFirst /\ Offered' = Offered BY <1>1, <1>2, StaticOffers
<1>4. errors' # {} BY DEF Unfound, Grows, Keeps
<1> QED BY <1>2, <1>3, <1>4 DEF Unfound

(* InsertDecl binds what a lookup found.                                   *)
LEMMA InsertBacks ==
  ASSUME TypeOK, SettleInv, Grows, NEW m \in Modules, NEW imp \in ImportAst,
         imp.symbol \in Names, imp.src \in Modules, NEW d \in Declaration,
         FindImport(imp.src, imp.symbol) = d,
         InsertDecl(m, imp.is_export, imp.symbol, d)
  PROVE  Bound(m, imp)'
<1>1. PICK e \in BOOLEAN : e = imp.is_export BY ImportFields
<1>2. PICK n \in Names : n = imp.symbol OBVIOUS
<1>3. Backed(imp.src, n, d) BY <1>2, ModulesFinite, FoundIsBacked
<1>4. errors' = {} => Backed(imp.src, n, d)' BY <1>3, BackedStays
<1>5. Table(e)'[m][n] = d
  <2>1. /\ import_decls \in [Modules -> [Names -> Declaration \cup {None}]]
        /\ export_decls \in [Modules -> [Names -> Declaration \cup {None}]]
    BY DEF TypeOK
  <2>2. CASE e = TRUE
    <3>1. export_decls' = [export_decls EXCEPT ![m][n] = d] BY <1>1, <1>2, <2>2 DEF InsertDecl
    <3>2. export_decls'[m][n] = d BY <2>1, <3>1
    <3> QED BY <2>2, <3>2 DEF Table
  <2>3. CASE e = FALSE
    <3>1. import_decls' = [import_decls EXCEPT ![m][n] = d] BY <1>1, <1>2, <2>3 DEF InsertDecl
    <3>2. import_decls'[m][n] = d BY <2>1, <3>1
    <3> QED BY <2>3, <3>2 DEF Table
  <2> QED BY <2>2, <2>3
<1>6. d # None BY SpecialValues
<1> QED BY <1>1, <1>2, <1>4, <1>5, <1>6 DEF Bound

(* The first import pass leaves the current import in a known state.       *)
LEMMA Stage1Status ==
  ASSUME TypeOK, SettleInv, Grows, NEW imp \in ImportAst, imp = prog[Cur].imports[item],
         ImportStage1, pass' \notin {"panic", "overflow"}
  PROVE  Status(Cur, imp)'
<1>1. PICK x \in ImportAst : Importing(x) /\
        \/ ImportUnknownModule(x) \/ ImportSelf(x) \/ ImportGlob(x)
        \/ ImportFound(x) \/ ImportLater(x) \/ ImportOverflow(x)
  BY DEF ImportStage1
<1>2. /\ x = imp /\ Cur \in Modules /\ imp.is_export \in BOOLEAN
      /\ imp.symbol \in Names \cup {Glob} /\ Glob \notin Names
  BY <1>1, CurIsModule, ImportFields, SpecialValues DEF Importing
<1>3. ~ImportSelf(imp) /\ ~ImportOverflow(imp) BY DEF ImportSelf, ImportOverflow, Crash
<1>4. Cur' = Cur
  BY <1>1, <1>2, <1>3 DEF Cur, NextItem, ImportUnknownModule, ImportGlob, ImportFound, ImportLater
<1>5. CASE ImportUnknownModule(imp)
  BY <1>5 DEF ImportUnknownModule, Status
<1>6. CASE ImportGlob(imp)
  <2>1. /\ imp.src \in Modules /\ imp.symbol = Glob /\ PushModule(Cur, imp.is_export, imp.src)
        /\ UNCHANGED <<import_decls, export_decls, errors>>
    BY <1>6 DEF ImportGlob
  <2>2. /\ imp.is_export = TRUE => Listed(export_modules'[Cur], imp.src)
        /\ imp.is_export = FALSE => Listed(import_modules'[Cur], imp.src)
    BY <1>2, <2>1, PushKeeps
  <2>3. InForce(Cur, imp)' BY <1>2, <1>4, <2>1, <2>2 DEF InForce, Listed
  <2> QED BY <2>1, <2>3 DEF Status
<1>7. CASE ImportFound(imp)
  <2>1. PICK d : d = FindImport(imp.src, imp.symbol) OBVIOUS
  <2>2. /\ imp.src \in Modules /\ imp.symbol \in Names /\ d \in Declaration
        /\ InsertDecl(Cur, imp.is_export, imp.symbol, d)
    BY <1>7, <2>1 DEF ImportFound
  <2>3. PICK m \in Modules : m = Cur BY <1>2
  <2>4. Bound(m, imp)' BY <2>1, <2>2, <2>3, InsertBacks
  <2>5. Bound(Cur, imp)' BY <1>4, <2>3, <2>4 DEF Bound
  <2> QED BY <1>2, <2>2, <2>5 DEF Status, ByName
<1>8. CASE ImportLater(imp)
  <2>1. imp.src \in Modules /\ imp.symbol \in Names /\ Defer(imp) BY <1>8 DEF ImportLater
  <2>2. Listed(unresolved'[Cur], imp) BY <2>1, StayListed
  <2>3. Waits(Cur, imp)' BY <1>2, <1>4, <2>1, <2>2 DEF Waits, Listed
  <2> QED BY <1>2, <2>1, <2>3 DEF Status, ByName
<1> QED BY <1>1, <1>2, <1>3, <1>5, <1>6, <1>7, <1>8

(* The answer of the modules exported by "+" counts.                       *)
LEMMA GlobAnswers ==
  ASSUME TypeOK, SettleInv, NEW n \in Names, NEW m \in Modules, NEW s \in Modules,
         Listed(export_modules[m], s), FindImport(s, n) # None
  PROVE  FindImport(m, n) # None
<1> DEFINE a == [t \in Modules |-> FindImport(t, n)]
<1>1. FindImport(m, n) = IF declarations[m][n] # None THEN declarations[m][n]
                         ELSE IF export_decls[m][n] # None THEN export_decls[m][n]
                         ELSE FirstAnswer(export_modules[m], a)
  BY ModulesFinite, FindImportUnfolds, Zenon
<1>2. a[s] # None OBVIOUS
<1> HIDE DEF a
<1>3. export_modules[m] \in Seq(Modules) BY DEF TypeOK
<1>4. FirstAnswer(export_modules[m], a) # None BY <1>2, <1>3, FirstAnswerIs DEF Listed
<1> QED BY <1>1, <1>4

LEMMA OwnAnswers ==
  ASSUME TypeOK, SettleInv, NEW n \in Names, NEW m \in Modules,
         declarations[m][n] # None \/ export_decls[m][n] # None
  PROVE  FindImport(m, n) # None
<1>1. FindImport(m, n) = IF declarations[m][n] # None THEN declarations[m][n]
                         ELSE IF export_decls[m][n] # None THEN export_decls[m][n]
                         ELSE FirstAnswer(export_modules[m], [t \in Modules |-> FindImport(t, n)])
  BY ModulesFinite, FindImportUnfolds, Zenon
<1> QED BY <1>1, Zenon

LEMMA GlobReaches ==
  ASSUME NEW s \in Modules
  PROVE  /\ s \in GlobReach(s)
         /\ \A t \in GlobReach(s) : \A imp \in ImportsOf(t) :
              imp.is_export /\ imp.symbol = Glob /\ imp.src \in Modules
                => imp.src \in GlobReach(s)
BY DEF GlobReach

(* A name the first pass did not find, and that an exporter read before    *)
(* this module offers, is found in the second.                             *)
LEMMA MissingNotOffered ==
  ASSUME TypeOK, SettleInv, DeferredKnown, ImportInv, order \in Orders, ExportersFirst,
         NEW imp \in ImportAst, Resolving(imp), imp.symbol \in Names,
         FindImport(imp.src, imp.symbol) = None
  PROVE  imp.symbol \notin Offered[imp.src]
<1>1. /\ imp.src \in Modules /\ imp \in ImportsOf(Cur) /\ Cur \in Modules
      /\ pass = "import_stage_2" /\ Glob \notin Names
  BY DeferredSource, CurIsModule, SpecialValues DEF Resolving
<1>2. PICK n \in Names : n = imp.symbol OBVIOUS
<1> DEFINE T == {s \in Modules : s \in GlobReach(imp.src) => FindImport(s, n) # None}
<1>3. ASSUME NEW s \in Modules, n \in DeclaredNames(s) PROVE s \in T
  BY <1>3, OwnAnswers DEF DeclaredNames
<1>4. ASSUME NEW s \in Modules, NEW e \in ImportsOf(s), e.is_export, NamedBy(e, n),
             e.src \in T, n \in Offered[e.src], s \in GlobReach(imp.src)
      PROVE  FindImport(s, n) # None
  <2>1. PICK i \in DOMAIN prog[s].imports : e = prog[s].imports[i] BY DEF ImportsOf
  <2>2. Status(s, e) BY <1>1, <2>1 DEF ImportInv, Seen
  <2>3. e \in ImportAst /\ e.src \in Modules BY <1>4, <2>1, ImportsTyped
  <2>4. e.is_export = TRUE BY <1>4, <2>3, ImportFields
  <2>5. CASE e.symbol = Glob
    <3>1. e.src \in GlobReach(imp.src) BY <1>1, <1>4, <2>3, <2>5, GlobReaches
    <3>2. FindImport(e.src, n) # None BY <1>4, <3>1
    <3>3. Listed(export_modules[s], e.src) BY <2>2, <2>3, <2>4, <2>5, InForceIs DEF Status
    <3> QED BY <2>3, <3>2, <3>3, GlobAnswers
  <2>6. CASE e.symbol = n /\ e.symbol # Glob
    <3>1. Before(s, Cur)
      BY <1>1, <1>2, <1>4, <2>6 DEF ExportersFirst
    <3>2. PICK k \in DOMAIN order, j \in DOMAIN order : k < j /\ order[k] = s /\ order[j] = Cur
      BY <3>1 DEF Before
    <3>3. j = turn BY <3>2, OrdersAreLists, OrderTyped DEF Cur
    <3>4. unresolved[s] = <<>> BY <1>1, <3>2, <3>3 DEF SettleInv
    <3>5. ~Waits(s, e) BY <3>4 DEF Waits, Listed
    <3>6. ~Unfound(s, e) BY <1>4, <2>6 DEF Unfound
    <3>7. Bound(s, e) BY <2>2, <2>3, <2>6, <3>5, <3>6 DEF Status, ByName
    <3>8. export_decls[s][n] # None BY <2>4, <2>6, <3>7 DEF Bound, Table
    <3> QED BY <3>8, OwnAnswers
  <2> QED BY <1>4, <2>5, <2>6 DEF NamedBy
<1>5. SUFFICES ASSUME n \in Offered[imp.src] PROVE FALSE BY <1>2
<1>6. imp.src \in T
  <2> HIDE DEF T
  <2>1. T \in SUBSET Modules BY DEF T
  <2>2. ASSUME NEW s \in Modules,
               \/ n \in DeclaredNames(s)
               \/ \E e \in ImportsOf(s) : e.is_export /\ NamedBy(e, n)
                                          /\ e.src \in T /\ n \in Offered[e.src]
        PROVE  s \in T
    <3>1. CASE n \in DeclaredNames(s) BY <1>3, <3>1
    <3>2. CASE \E e \in ImportsOf(s) : e.is_export /\ NamedBy(e, n)
                                       /\ e.src \in T /\ n \in Offered[e.src]
      <4>1. s \in GlobReach(imp.src) => FindImport(s, n) # None BY <1>4, <3>2
      <4> QED BY <4>1 DEF T
    <3> QED BY <2>2, <3>1, <3>2
  <2>3. IsFiniteSet(Modules) BY ModulesFinite
  <2> QED BY <1>1, <1>5, <2>1, <2>2, <2>3, OfferedInduction
<1>7. FindImport(imp.src, n) # None BY <1>1, <1>6, GlobReaches
<1> QED BY <1>2, <1>7

(* Waiting ends with being bound, or with a justified report.              *)
LEMMA WaitsNext ==
  ASSUME TypeOK, SettleInv, DeferredKnown, ImportInv, order \in Orders, Grows, [Next]_vars,
         NEW m \in Modules, NEW imp \in ImportAst, imp.symbol \in Names, Waits(m, imp),
         pass' \notin {"panic", "overflow"}
  PROVE  ByName(m, imp)'
<1>1. CASE ImportStage2
  <2>1. PICK x \in ImportAst : Resolving(x) /\
          \/ ReserveGlob(x) \/ ResolveFound(x) \/ ResolveMissing(x)
          \/ ResolveOverflow(x)
    BY <1>1 DEF ImportStage2
  <2>2. Resolved
    BY <2>1 DEF ReserveGlob, ResolveFound, ResolveMissing, ResolveOverflow, Crash
  <2>3. /\ Cur \in Modules /\ unresolved \in [Modules -> Seq(ImportAst)] /\ Cur' = Cur
        /\ unresolved[Cur] # <<>> /\ x = Head(unresolved[Cur])
        /\ unresolved' = [unresolved EXCEPT ![Cur] = Tail(@)]
    BY <2>1, <2>2, CurIsModule DEF TypeOK, Resolving, Resolved, Cur
  <2>4. CASE m # Cur
    <3>1. unresolved'[m] = unresolved[m] BY <2>3, <2>4
    <3> QED BY <3>1 DEF Waits, Listed, ByName
  <2>5. CASE m = Cur /\ x # imp
    <3>1. unresolved'[m] = Tail(unresolved[m]) /\ unresolved[m] \in Seq(ImportAst) BY <2>3, <2>5
    <3>2. Listed(Tail(unresolved[m]), imp) BY <2>3, <2>5, <3>1, TailListed DEF Waits
    <3> QED BY <3>1, <3>2 DEF Waits, Listed, ByName
  <2>6. CASE m = Cur /\ x = imp
    <3>1. imp.symbol # Glob /\ imp.src \in Modules
      BY <2>1, <2>6, DeferredSource, SpecialValues
    <3>2. CASE ResolveFound(imp)
      <4>1. PICK d : d = FindImport(imp.src, imp.symbol) OBVIOUS
      <4>2. d \in Declaration /\ InsertDecl(m, imp.is_export, imp.symbol, d)
        BY <2>6, <3>2, <4>1 DEF ResolveFound
      <4>3. Bound(m, imp)' BY <3>1, <4>1, <4>2, InsertBacks
      <4> QED BY <4>3 DEF ByName
    <3>3. CASE ResolveMissing(imp)
      <4>1. FindImport(imp.src, imp.symbol) = None /\ errors' # {} BY <3>3 DEF ResolveMissing
      <4>2. ExportersFirst => imp.symbol \notin Offered[imp.src]
        BY <2>1, <2>6, <4>1, MissingNotOffered
      <4>3. UNCHANGED <<prog, order, pass, declarations>> /\ pass = "import_stage_2"
        BY <2>1, <2>2 DEF Resolved, Resolving
      <4>4. ExportersFirst' = ExportersFirst /\ Offered' = Offered BY <4>3, StaticOffers
      <4>5. Unfound(m, imp)' BY <4>1, <4>2, <4>3, <4>4 DEF Unfound
      <4> QED BY <4>5 DEF ByName
    <3>4. ~ReserveGlob(imp) /\ ~ResolveOverflow(imp)
      BY <3>1 DEF ReserveGlob, ResolveOverflow, Crash
    <3> QED BY <2>1, <2>6, <3>2, <3>3, <3>4
  <2> QED BY <2>4, <2>5, <2>6
<1>2. CASE ImportStage1
  <2>1. PICK x \in ImportAst : Importing(x) /\
          \/ ImportUnknownModule(x) \/ ImportSelf(x) \/ ImportGlob(x)
          \/ ImportFound(x) \/ ImportLater(x) \/ ImportOverflow(x)
    BY <1>2 DEF ImportStage1
  <2>2. UNCHANGED unresolved \/ Defer(x)
    BY <2>1 DEF ImportUnknownModule, ImportSelf, ImportGlob, ImportFound, ImportLater,
                ImportOverflow, Crash
  <2>3. Listed(unresolved'[m], imp) BY <2>2, StayListed DEF Waits
  <2> QED BY <2>3 DEF Waits, Listed, ByName
<1>3. CASE UNCHANGED unresolved BY <1>3 DEF Waits, Listed, ByName
<1>4. CASE DeclareFunctions
  BY <1>3, <1>4 DEF DeclareFunctions, DeclareFunction, RejectFunction, DeclareOverflow, Crash
<1>5. CASE DeclareAdt \/ EndDeclareAdts \/ EndImportStage1 \/ EndDeclareFunctions
           \/ EndImportStage2 \/ UNCHANGED vars
  BY <1>3, <1>5 DEF DeclareAdt, EndDeclareAdts, EndImportStage1, EndDeclareFunctions,
                    EndImportStage2, vars
<1> QED BY <1>1, <1>2, <1>4, <1>5 DEF Next

LEMMA StatusStays ==
  ASSUME TypeOK, SettleInv, DeferredKnown, ImportInv, order \in Orders, Grows, [Next]_vars,
         NEW m \in Modules, NEW imp \in ImportAst, Status(m, imp),
         pass' \notin {"panic", "overflow"}
  PROVE  Status(m, imp)'
<1>1. imp.symbol \in Names \cup {Glob} /\ imp.is_export \in BOOLEAN BY ImportFields
<1>2. ASSUME imp.src \notin Modules PROVE errors' # {} BY <1>2 DEF Status, Grows, Keeps
<1>3. ASSUME imp.src \in Modules, imp.symbol = Glob PROVE InForce(m, imp)'
  <2>1. InForce(m, imp) BY <1>3 DEF Status
  <2>2. CASE imp.is_export = TRUE
    BY <1>3, <2>1, <2>2 DEF InForce, Grows, Keeps, Listed
  <2>3. CASE imp.is_export = FALSE
    BY <1>3, <2>1, <2>3 DEF InForce, Grows, Keeps, Listed
  <2> QED BY <1>1, <2>2, <2>3
<1>4. ASSUME imp.src \in Modules, imp.symbol # Glob PROVE ByName(m, imp)'
  <2>1. ByName(m, imp) /\ imp.symbol \in Names BY <1>1, <1>4 DEF Status
  <2>2. CASE Waits(m, imp) BY <2>1, <2>2, WaitsNext
  <2>3. CASE Bound(m, imp) BY <2>1, <2>3, BoundStays DEF ByName
  <2>4. CASE Unfound(m, imp) BY <2>1, <2>4, UnfoundStays DEF ByName
  <2> QED BY <2>1, <2>2, <2>3, <2>4 DEF ByName
<1> QED BY <1>2, <1>3, <1>4 DEF Status

LEMMA ImportInvHolds == Spec => []ImportInv
<1>1. Init => ImportInv BY DEF Init, ImportInv, Seen
<1>2. TypeOK /\ IInv /\ SettleInv /\ DeferredKnown /\ ImportInv /\ order \in Orders /\ [Next]_vars
      => ImportInv'
  <2> SUFFICES ASSUME TypeOK, BoundNamesReserved, SettleInv, DeferredKnown, ImportInv,
                      order \in Orders, [Next]_vars,
                      NEW m \in Modules, NEW i \in DOMAIN prog[m].imports, Seen(m, i)'
               PROVE  Status(m, prog[m].imports[i])'
    BY SameProgram DEF IInv, ImportInv
  <2>1. Grows BY NextGrows
  <2>2. prog' = prog BY SameProgram
  <2>3. PICK imp \in ImportAst : imp = prog[m].imports[i] BY ImportsTyped
  <2>4. pass' \notin {"panic", "overflow"} BY DEF Seen
  <2>5. CASE Seen(m, i)
    <3>1. Status(m, imp) BY <2>3, <2>5 DEF ImportInv
    <3>2. Status(m, imp)' BY <2>1, <2>4, <3>1, StatusStays
    <3> QED BY <2>2, <2>3, <3>2
  <2>6. CASE ImportStage1 /\ m = Cur /\ i = item
    <3>1. Status(Cur, imp)' BY <2>1, <2>3, <2>4, <2>6, Stage1Status
    <3>2. Cur' = Cur
      <4>1. order' = order /\ turn' = turn
        BY <2>4, <2>6, SameProgram
        DEF ImportStage1, ImportUnknownModule, ImportSelf, ImportGlob, ImportFound, ImportLater,
            ImportOverflow, Crash, NextItem
      <4> QED BY <4>1 DEF Cur
    <3>3. Status(m, imp)' BY <2>6, <3>1, <3>2
    <3> QED BY <2>2, <2>3, <3>3
  <2> QED BY <2>5, <2>6, SeenNext
<1> QED
  BY <1>1, <1>2, TypeCorrect, IInvHolds, SettleInvHolds, DeferredKnownHolds, OrderFixed, PTL
  DEF Spec

(* In a compilation without errors no import waits or is missed.           *)
LEMMA AllBound ==
  ASSUME TypeOK, GlobInv, ImportInv, Succeeded, NEW m \in Modules, NEW imp \in ImportsOf(m),
         imp.symbol # Glob
  PROVE  Bound(m, imp) /\ imp \in ImportAst /\ imp.symbol \in Names
<1>1. PICK i \in DOMAIN prog[m].imports : imp = prog[m].imports[i] BY DEF ImportsOf
<1>2. imp \in ImportAst /\ imp.symbol \in Names BY <1>1, ImportsTyped, ImportFields
<1>3. pass = "done" /\ errors = {} BY DEF Succeeded
<1>4. Status(m, imp) BY <1>1, <1>3 DEF ImportInv, Seen
<1>5. unresolved[m] = <<>> BY <1>3 DEF GlobInv
<1>6. ~Waits(m, imp) BY <1>5 DEF Waits, Listed
<1>7. ~Unfound(m, imp) BY <1>3 DEF Unfound
<1> QED BY <1>2, <1>3, <1>4, <1>6, <1>7 DEF Status, ByName

(* Where no name is ambiguous the answer is the declaration that backs it. *)
LEMMA BackedIsFound ==
  ASSUME TypeOK, SettleInv, Succeeded, NamesAreUnambiguous, NEW n \in Names,
         NEW s \in Modules, NEW d \in Declaration, Backed(s, n, d)
  PROVE  FindImport(s, n) = d
<1> DEFINE S == {u \in Modules : FindImport(u, n) = d}
<1>0. d # None /\ IsFiniteSet(Modules) BY SpecialValues, ModulesFinite
<1>1. ASSUME NEW u \in Modules, NEW x \in Meanings(u, n), NEW y \in Meanings(u, n) PROVE x = y
  <2>1. Cardinality(Meanings(u, n)) <= 1 BY DEF NamesAreUnambiguous
  <2>2. IsFiniteSet(Meanings(u, n))
    <3>1. PICK A : A = {FindImport(t, n) : t \in Modules} OBVIOUS
    <3>2. IsFiniteSet(A)
      <4> DEFINE f == [t \in Modules |-> FindImport(t, n)]
      <4>1. f \in Surjection(Modules, A) BY <3>1, Zenon DEF Surjection
      <4> QED BY <1>0, <4>1, FS_Surjection
    <3>3. PICK B : B = {declarations[u][n], import_decls[u][n], export_decls[u][n]} OBVIOUS
    <3>4. IsFiniteSet(B) 
      <4>1. IsFiniteSet({}) BY FS_EmptySet
      <4>2. IsFiniteSet({} \cup {declarations[u][n]}) BY <4>1, FS_AddElement
      <4>3. IsFiniteSet(({} \cup {declarations[u][n]}) \cup {import_decls[u][n]}) BY <4>2, FS_AddElement
      <4>4. IsFiniteSet((({} \cup {declarations[u][n]}) \cup {import_decls[u][n]})
                        \cup {export_decls[u][n]})
        BY <4>3, FS_AddElement
      <4>5. B = (({} \cup {declarations[u][n]}) \cup {import_decls[u][n]})
                        \cup {export_decls[u][n]}
        BY <3>3
      <4> QED BY <4>4, <4>5
    <3>5. IsFiniteSet(B \cup A) BY <3>2, <3>4, FS_Union
    <3>6. GlobSources(u) \subseteq Modules
      <4>1. import_modules[u] \in Seq(Modules) /\ export_modules[u] \in Seq(Modules) BY DEF TypeOK
      <4>2. \A i \in DOMAIN import_modules[u] : import_modules[u][i] \in Modules
        BY <4>1, ElementOfSeq, LenProperties
      <4>3. \A i \in DOMAIN export_modules[u] : export_modules[u][i] \in Modules
        BY <4>1, ElementOfSeq, LenProperties
      <4> QED BY <4>2, <4>3 DEF GlobSources
    <3>7. Meanings(u, n) \subseteq B \cup A BY <3>1, <3>3, <3>6 DEF Meanings
    <3> QED BY <3>5, <3>7, FS_Subset
  <2>3. ASSUME x # y PROVE FALSE
    <3>1. {x} \subseteq Meanings(u, n) /\ {x} # Meanings(u, n) BY <2>3
    <3>2. Cardinality({x}) = 1 BY FS_Singleton
    <3>3. /\ Cardinality({x}) <= Cardinality(Meanings(u, n))
          /\ Cardinality(Meanings(u, n)) = Cardinality({x}) => Meanings(u, n) = {x}
      BY <2>2, <3>1, FS_Subset
    <3>4. Cardinality(Meanings(u, n)) \in Nat BY <2>2, FS_CardinalityType
    <3> QED BY <2>1, <3>1, <3>2, <3>3, <3>4
  <2> QED BY <2>3
<1>2. ASSUME NEW u \in Modules, FindImport(u, n) # None PROVE FindImport(u, n) \in Meanings(u, n)
  <2> DEFINE a == [t \in Modules |-> FindImport(t, n)]
  <2>1. FindImport(u, n) = IF declarations[u][n] # None THEN declarations[u][n]
                           ELSE IF export_decls[u][n] # None THEN export_decls[u][n]
                           ELSE FirstAnswer(export_modules[u], a)
    BY <1>0, FindImportUnfolds, Zenon
  <2>2. CASE declarations[u][n] # None \/ export_decls[u][n] # None
    <3> HIDE DEF a
    <3> QED BY <1>2, <2>1, <2>2 DEF Meanings
  <2>3. CASE ~(declarations[u][n] # None \/ export_decls[u][n] # None)
    <3>1. FindImport(u, n) = FirstAnswer(export_modules[u], a)
      <4> HIDE DEF a
      <4> QED BY <2>1, <2>3
    <3>2. export_modules[u] \in Seq(Modules) BY DEF TypeOK
    <3>3. PICK i \in DOMAIN export_modules[u] : FindImport(u, n) = a[export_modules[u][i]]
      <4> HIDE DEF a
      <4> QED BY <1>2, <3>1, <3>2, FirstAnswerIs
    <3>4. export_modules[u][i] \in Modules BY <3>2, ElementOfSeq, LenProperties
    <3>5. FindImport(u, n) = FindImport(export_modules[u][i], n) BY <3>3, <3>4
    <3>6. export_modules[u][i] \in GlobSources(u) BY DEF GlobSources
    <3> QED BY <1>2, <3>5, <3>6 DEF Meanings
  <2> QED BY <2>2, <2>3
<1>3. Closed(S, n, d)
  <2>1. ASSUME NEW u \in Modules, declarations[u][n] = d \/ export_decls[u][n] = d
        PROVE  FindImport(u, n) = d
    <3>1. d \in Meanings(u, n) BY <1>0, <2>1 DEF Meanings
    <3>2. FindImport(u, n) # None BY <1>0, <2>1, OwnAnswers
    <3> QED BY <1>1, <1>2, <3>1, <3>2
  <2>2. ASSUME NEW u \in Modules, NEW t \in S, Listed(export_modules[u], t)
        PROVE  FindImport(u, n) = d
    <3>1. t \in GlobSources(u) BY <2>2, GlobSourcesAre
    <3>2. t \in Modules /\ FindImport(t, n) = d OBVIOUS
    <3>3. d \in Meanings(u, n) BY <1>0, <3>1, <3>2 DEF Meanings
    <3>4. FindImport(u, n) # None BY <1>0, <2>2, <3>2, GlobAnswers
    <3> QED BY <1>1, <1>2, <3>3, <3>4
  <2> QED BY <2>1, <2>2 DEF Closed
<1>4. S \in SUBSET Modules OBVIOUS
<1>5. s \in S BY <1>3, <1>4 DEF Backed
<1> QED BY <1>5

(* What an import bound in the first pass, before functions and later      *)
(* exports were entered (import.rs), is at the end still what find_import  *)
(* (module.rs) answers for its source, in every compilation without errors *)
(* and without ambiguous names.                                            *)
THEOREM BindingsStayCurrentHolds == Spec => []BindingsStayCurrent
<1>1. TypeOK /\ SettleInv /\ GlobInv /\ ImportInv => BindingsStayCurrent
  <2> SUFFICES ASSUME TypeOK, SettleInv, GlobInv, ImportInv, Succeeded, NamesAreUnambiguous,
                      NEW m \in Modules, NEW imp \in ImportsOf(m), imp.symbol # Glob
               PROVE  Table(imp.is_export)[m][imp.symbol] = FindImport(imp.src, imp.symbol)
    BY DEF BindingsStayCurrent, Table
  <2>1. Bound(m, imp) /\ imp \in ImportAst /\ imp.symbol \in Names BY AllBound
  <2>2. PICK n \in Names : n = imp.symbol BY <2>1
  <2>3. PICK d : d = Table(imp.is_export)[m][n] OBVIOUS
  <2>4. Backed(imp.src, n, d) /\ d # None BY <2>1, <2>2, <2>3 DEF Bound, Succeeded
  <2>5. d \in Declaration BY <2>1, <2>2, <2>3, <2>4, ImportFields, TableTyped
  <2>6. imp.src \in Modules
    <3>1. PICK i \in DOMAIN prog[m].imports : imp = prog[m].imports[i] BY DEF ImportsOf
    <3> QED BY <3>1 DEF ImportInv, Seen, Succeeded, Status
  <2> QED BY <2>2, <2>3, <2>4, <2>5, <2>6, BackedIsFound
<1> QED BY <1>1, TypeCorrect, SettleInvHolds, GlobInvHolds, ImportInvHolds, PTL

(* Where modules are read after the exporters they import from, whatever   *)
(* an import names that its source offers is found by one pass or the      *)
(* other, through any number of exports (import.rs).                       *)
THEOREM ExportsFoundInOrderHolds == Spec => []ExportsFoundInOrder
<1>1. TypeOK /\ GlobInv /\ ImportInv => ExportsFoundInOrder
  <2> SUFFICES ASSUME TypeOK, GlobInv, ImportInv, pass = "done", ExportersFirst,
                      NEW m \in Modules, NEW imp \in ImportsOf(m), Missed(m, imp),
                      imp.src \in Modules
               PROVE  imp.symbol \notin Offered[imp.src]
    BY DEF ExportsFoundInOrder, ExportsCanBeImported
  <2>1. PICK i \in DOMAIN prog[m].imports : imp = prog[m].imports[i] BY DEF ImportsOf
  <2>2. Status(m, imp) /\ imp.symbol # Glob BY <2>1 DEF ImportInv, Seen, Missed
  <2>3. unresolved[m] = <<>> BY DEF GlobInv
  <2>4. ~Waits(m, imp) BY <2>3 DEF Waits, Listed
  <2>5. ~Bound(m, imp) BY DEF Bound, Missed, Table
  <2>6. Unfound(m, imp) BY <2>2, <2>4, <2>5 DEF Status, ByName
  <2> QED BY <2>6 DEF Unfound
<1> QED BY <1>1, TypeCorrect, GlobInvHolds, ImportInvHolds, PTL
=============================================================================
