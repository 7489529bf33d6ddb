# gelixrs in TLA+

This directory specifies parts of gelixrs, the compiler for the language gelix
written in Rust, in TLA+. TLC checks the specifications on small instances;
TLAPS proves some of their properties for every value of the constants.

Every definition that stands for code names it in `PROJECT.json` under `map`.
Paths below are relative to `src/crates/` unless they start with `src/`.

## 1. The system

The compiler is one thread that runs one stage after the other:

    gelixrs::parse_source     directory tree -> AST modules  (parser, lexer, ast)
    GIRGenerator::consume     AST -> GIR, or errors          (gir-generator, gir-nodes)
    IRGenerator::generate     GIR -> LLVM IR                 (ir, gir-ir-adapter)
    JIT / clang               LLVM IR -> run or binary       (ir::jit, gelixrs)

The end-to-end test runner (`e2etest`) compiles and runs hundreds of programs
in one process; the standard library is parsed and generated to GIR once and
shared by all of them. Nothing is concurrent. What makes the code hard is
shared mutable state under reference counts (`Rc<RefCell<..>>`), passes that
depend on what earlier passes left behind, the order in which files were read
and hash maps are walked, errors that are reported but do not stop a pass,
early returns with `?` between two halves of a state change, and panics that a
caller catches.

| Component | State | Operations | What makes it correct | Status |
|---|---|---|---|---|
| Module names, imports, exports | per module: declarations, imports, exports, unresolved imports, used names | declare ADT / function, import passes 1 and 2, reserve, find | names mean one thing, collisions are reported, no import is lost, lookups end | `Imports` |
| Interface registry, cached std | type -> shared cell of impls and methods; CompiledGIR | declare impl, fill impls, generate, look a method up, consume, panic | a cached compilation is like a fresh one; impls are complete; nothing of one program shows in another | `IfaceImpls` |
| Scopes and locals | stack of environments, current loop type | begin/end scope, define, find, set loop type, all expressions that do so | names are lexical, loop types are the innermost loop's, whatever errors occur | `Scopes` |
| Closure literals | outer environments, captures, the module list | for_closure, end_closure | captures are those of the literal's place; what is taken is given back; errors are kept | `Scopes` |
| Definite initialization | set of fields not yet assigned | read, assign, call in constructors | what is accepted reads and leaves behind no unset field, `val` fields are written once | `Constructors` |
| Monomorphisation worklist | functions left, per function the instances made | get or create, queue, declare, generate | every instance asked for is generated, once, in this module; the list runs empty | `Worklist`, `Monomorphisation` |
| IR control flow and locals | the builder's block and `last_block`, the loop, stack of locals | expressions that branch, break or return | blocks end once, phis cover their predecessors, values are computed before their use, scopes nest | `Codegen` |
| Reference counts | which values a scope holds, heap counts | increment, decrement | one decrement per increment on every path | not modelled |
| Lifecycle methods, collector | new / free methods per ADT | declare, generate, collect | frees what it counted, finds the methods it names | not modelled |
| std runtime | String and Array buffers | push, pop, append, reserve, ... | behave as sequences | not modelled |
| Lexer, parser | token cursor, tree builder, poisoned node | advance, consume, recover | each token is in the tree once; nothing incomplete is accepted; every production ends | `Parser`, `Grammar`, `TreeBuilder` |
| Parse stage | path of the directory being read | push, pop, read file, read directory | a module's path is its file's | not modelled |
| Test runner | results and allocation list of the program run | clear, exec, compare | a test is judged by its own output | partly (`IfaceImpls`) |
| Types, casts, `when` | none, pure functions | can_cast, unify | symmetric where it must be, branches agree | partly (`Codegen`) |
| CLI, JIT, linking, AST accessors, error texts, GIR printer | - | - | - | not modelled |

The command line, JIT, linker, generated accessors and printers are not
modelled: they are calls into libraries, generated code, or text for people.
`PROJECT.json` lists every component with its sources, and under `hazards` the
places where the code can go wrong in a way that a test hardly reaches.

## 2. Modules

`X.tla` is the specification, `MCX.tla` its small instances, `X_proofs.tla` the
theorems about it. `Parser` extends `Grammar` and `TreeBuilder`; `Worklist` and
`Monomorphisation` extend `Instances`, and `Worklist` instantiates `Monomorphisation`,
which it implements (`Mono`). Theorems are in `Imports_proofs`, `IfaceImpls_proofs`,
`Constructors_proofs`, `Worklist_proofs`, `Scopes_proofs`, `Parser_proofs`,
`Codegen_proofs` and `CodegenMerges_proofs`, which extends the latter. Apart from that the
specifications do not depend on each other: files are parsed before modules are
declared, imports are settled before the registry is filled, and that before bodies
are generated, the GIR before IR is generated from it; each stage reads only the
finished tables of the one before, which are constants or chosen inputs here.

### Grammar, TreeBuilder, Parser

`parser/src/{lib,declaration,expression,nodes}.rs`, `parser/src/util/{builder,source}.rs`.

`Grammar` holds the productions as data: `Body` gives each function of
`declaration.rs` and `expression.rs` as a program of the primitives that it
calls, in the order it calls them, with its branches. `Parser` runs them: `todo`
is the call stack flattened, and an action is one primitive of `lib.rs`
(`ConsumeStep`, `AdvanceStep`, `PeekNextStep`, ...), which moves the cursor,
feeds the tree, reports an error and poisons the declaration as the code does.
`TryDepoison` skips to a token that may begin a declaration. `TreeBuilder` is
`NodeBuilder`: a stack of open nodes with their spans, and checkpoints below
which a node may be opened later (`StartNodeAt`).

Abstracted: a token is its kind and has length 1; comments and whitespace are
one kind, `ws`; error texts; a finished node keeps the tokens below it and not
its inner nodes.

### Constructors

`gir-generator/src/passes/{generate,methods,intrinsic_methods}.rs`, `expr.rs`.

In the phase `check` the constructors of a class are generated one after the
other with the set `uninitialized`, as `generate_constructors` does, then a
method. In the phase `run` a constructor of an accepted class is called: the
initializers, the setter parameters, then the body, where branches and loops may
go either way. `writes` counts the writes of each field of the object, `missed`
is the history of assignments that the check counted and the run did not make.

Abstracted: a body is a flat sequence in which `if`, `else`, `end`, `for`,
`again` are brackets; the objects of an access are `this`, another local, or the
value of any other expression; conditions are chosen.

### Instances, Monomorphisation, Worklist

`ir/src/generator/{mod,types,intrinsics,expr}.rs`, `gir-ir-adapter/src/lib.rs`,
`gir-generator/src/lib.rs` (`reset_modules`).

`Instances` has the types, the instances a body refers to, and the constants: a
program gives each function the items of its body (calls with type arguments,
types, methods found by a bound). `Monomorphisation` is the promise, of six
short definitions: from the required functions on, each instance referred to is
generated once, nothing else is, and it ends. `Worklist` is the code: `todo` is
the Rust call stack, `functions_left` the list, `ir` and `structs` the adapters
that belong to the declarations and so outlive a compilation, `type_args` the
stack of arguments in force. `LoadFunction`, `AddInst`, `QueueFunction` are the
steps of `get_or_create`, between which the types of the signature are lowered;
lowering asks for no function, since the types that would (`Type::Function`) are
left out. `LowerAdt` and `AddStruct` are `get_or_build_adt`: a struct is built twice
and then added, for which the ADT is borrowed mutably. While `build_adt` lowers the
fields of one instance it borrows the ADT too (`Borrowed`), so adding an instance of
the same ADT in there panics, as for `Box[Box[i64]]`; if the inner one has its struct
already there is nothing to add. `FillFreeType` fills an intrinsic in. `Reset`, `NextCompilation` begin another compilation with the
same library. `Mono == INSTANCE Monomorphisation` maps `program`, `generated`
and `status` to themselves.

Abstracted: function types inside signatures, closure types, vtables and the
layout of interfaces, the code of bodies apart from what it asks for.

### Imports

`gir-generator/src/passes/{declare,import,intrinsics}.rs`, `gir-nodes/src/module.rs`.

A pass (`pass`) visits modules one after the other (`turn`, in `order`) and
their items (`item`). One action handles one item, or finishes a module, as
`run_passes` and its `run_ast` do. The tables of `Module` are variables of the
same names (`declarations`, `import_decls`, ...).

* `DeclareAdt`, `DeclareFunctions` reserve the name, insert the declaration, and
  for functions look the type in the signature up; a function `main` is taken
  by the intrinsics.
* `ImportStage1` binds what it finds, keeps what it does not find in
  `unresolved`, and crashes where the code does: a module that imports from
  itself is borrowed twice, a lookup in a circle of `+` exports never returns.
* `ImportStage2` resolves or reports what is left over and reserves the names
  that `+` imports bring in; `EndImportStage2` reserves the prelude's names.
* `FindImport` and `FindDecl` are the two recursive lookups of `Module`. A chain
  of more calls than there are modules has repeated itself.

Abstracted: a signature mentions at most one type; ADT bodies, type parameters,
enum cases, and interface blocks are elsewhere or left out. `Orders` is the set
of orders `read_dir` may give: all of them in the runs.

### IfaceImpls

`gir-generator/src/passes/{declare,methods,generate}.rs`, `resolver.rs`, `lib.rs`,
`gir-nodes/src/iface_impls.rs`, `e2etest/src/test.rs`.

A session of compilations, each of std's impl blocks and a program's (`cached =
FALSE`), or of std once and then programs that clone the registry map and
share its cells (`cached = TRUE`). The cells are a heap (`cells`), a registry is
a map from types to cells. `DeclareImpl` declares one block, `FillImpls`,
`FillImpl` and `FilledImpls` are one call of `fill_impls_` with one step per
interface, in any order, as hash maps are walked; `GenerateImpl` generates the
methods of a cell, `Lookup` is `find_associated_method` on a type the program
mentions (it may create a cell), `Consume` ends a compilation and `Panic` is a
panic in generated code's compilation that the test runner catches.

Abstracted: signatures are not compared; a program is one module; a type is a
name and the compilation that declared it.

### Scopes

`gir-generator/src/lib.rs` (scopes, variables, closures), `expr.rs` and
`passes/generate.rs`.

The generator recurses over the syntax tree. `frames` is that recursion: one
frame for each construct the walk is inside of, `at` the subexpression it is
at. The tree is chosen as the walk goes, so a run covers every tree up to the
bound. `gens` are the generators: the first, and one more for each closure
literal that is open; each has the fields of `GIRGenerator` that bodies change.
A frame also keeps what the *source* declares in the construct (`scope`) and the
type of the loop (`loop`): the lexical meaning that the environments and
`current_loop_ty` are compared with.

Every early return is an action of its own: `NotAnIterator` (leaves a scope
open), `AbortWhen`, `NotAssignable`, `UnknownReturnType`, `UnknownParamType`
(leaves the outer generator without environments and modules), a function
without a body (`StartFunction(ps, FALSE)`), and the panics: `Panic` where the loans
of a closure are missed (`panicked = "outer"`), `StringLiteral` where a string literal
in a closure unwraps the `string_type` that the closure's generator is without, or a
`\u` escape is malformed (`panicked = "literal"`).

Abstracted: types, but for those of loops, and with them the panics that depend on
types (a static access on a type that is no ADT, expr.rs:806); the errors that only add to the
list are one code, `other`; temporaries whose names no program can write
(`body-value`, `closure-store`) are not defined. `iter` can be written and is.

### Codegen

`gir-generator/src/expr.rs`, `resolver.rs` (how control flow is typed),
`ir/src/generator/{expr,mod,values,type_adapter}.rs` (what is emitted for it).

In the phase `gir` a function body is built the way the GIR generator returns
from its recursion: `open` are the expressions it is inside of, `PushLeaf` and
`Descend` give the innermost its next operand, and `MakeBreak` .. `MakeLoop` type
and finish one. In the phase `ir` the body is walked: `frames` are the calls of
`expression_`, and one action is the code between two such calls, so each of
`if_`, `switch` and `loop_` is an action per operand. `m` is the generator: the
builder's block (`insert`, 0 when its position is cleared), `last` (`last_block`),
the terminator of each block (`term`), the number of scopes of locals, the loop's
data, and what LLVM's verifier would see: `uses` of values, `merges` (phis and
the blocks they have a value for) and `faults`.

Abstracted: types are `any`, `none` and one `value`, as two types that do not
unify end like a value and none; an instruction is where it is and whose value
it uses; a scope of locals is only counted; a `call` stands for everything that
gives a value without branching; the wrapper block with smart casts, and the
block `when-case-false` that is made and removed, are not made.

`Odd` names the shapes of bodies for which the code emits IR that LLVM rejects
or panics. A body with a shape that is not in `Odd` is not built, so a run says
for which bodies the properties hold: all others. The shapes are

* `leaving_then`: an `if` whose `then` branch is of type Any, because it breaks or
  returns: `if_` gives the merged value that branch's type, None to LLVM;
* `omitted_else`: a value of a `when` over all cases of an enum, without `else`;
* `any_value`: an `if` without a value in its `then` branch whose else branch
  leaves is of type Any, which passes for every type although control may go on
  without a value: as a branch, the body of a loop, or what is returned;
* `any_loop`: a loop whose else branch leaves: its type is Any;
* `mixed_breaks`: a loop with a value in which a break gives none, or the reverse:
  `break_` compares types only when there is a value;
* `branching_condition`: a loop's condition that branches itself or leaves,
  which is emitted again at the end of the body, where `last_block` has been read;
* `dead_code`: code after a break or return. It is not emitted, and no property
  but `NothingMissing` (a value may be missing) is affected: the run has it.

## 3. What the runs check

| Run | Shows |
|---|---|
| `imports` | Four modules with imports and re-exports by name and by `+` in every file order, with wrong turns: no clash goes unreported (`NoSilentClash`), bindings never change silently (`BindingsAreFinal`), what a module takes directly is unambiguous (`DirectlyUnambiguous`), no import is lost between the passes (`ImportsSettled`), early bindings are not stale (`BindingsStayCurrent`), everything offered is found if exporters are read first (`ExportsFoundInOrder`), only programs that import from themselves or export in circles crash it (`CrashesAreJustified`), and the stage ends (`Terminates`). |
| `iface_impls` | Sessions of two programs: `ImplsComplete`, `OwnTypesIsolated`, `CachedCompilesLikeFresh`, `OnlyOwnModulesGenerated`, `MethodsComplete`. |
| `iface_std_methods` | Violation: with a cached std, its methods on primitive types are gone. |
| `scopes` | All bodies of up to six expressions: `LexicalScoping`, `LoopTypeRestored`, `CapturedWhereWritten`, and what a closure takes from the generator around it is back before it is missed (`LoansReturned`). |
| `scopes_closure_errors` | Violation: errors in closures are dropped. |
| `codegen` | All bodies of up to three nested or consecutive expressions without the first six shapes of `Oddities`: phis cover exactly the predecessors (`MergesMatchPredecessors`), definitions dominate uses (`ValuesReachUses`), no operand is missing (`NothingMissing`), each block ends only once (`TerminatorsAreFinal`), breaks go to the end of their own loop (`BreaksLeaveInnermostLoop`), scopes of locals nest (`ScopesBalanced`). |
| `codegen_omitted_else` | Violation: the value of a `when` over all cases of an enum. |
| `parser` | Files that use every production, cut off anywhere, with a token missing or another in its place: each token is in the tree once and in order (`TokensOnceInOrder`), spans fit the text (`SpansCoverText`), nothing with open brackets is accepted (`AcceptedIsBalanced`), panics happen at the end of a file only, in the places listed (`CrashesOnlyAtEnd`), and the parser ends or is looking for branches of a `when` at the end of the file (`EndsOrStuckInWhen`). |
| `worklist` | 350 programs, compiled alone and after another with the same library: `Worklist` implements `Monomorphisation`, its liveness included (`MonoSpec`); an instance declared is waiting for its body or has it, in this module (`DeclaredOnce`); one struct per ADT and arguments (`OneStructPerInstance`); panics only on programs of the shapes listed in `Plain` (`CrashesAreJustified`). |
| `worklist_nested` | Violation: `f[Box[T]]` is one instance for every `T`. |
| `constructors` | Constructors of every sequence of up to three statements and of branches, loops and branches in loops, one or two in a class: what is accepted reads or leaves a field unset only where a path missed an assignment that the text has (`UnsetOnlyIfMissed`); `val` fields are written once but for loops and setters of initialized fields (`ValWrittenOnce`). |
| `constructors_branch` | Violation: a field assigned in one branch only counts as initialized. |

Some properties hold only under a condition, and the condition is part of what
they say. `CachedCompilesLikeFresh` is about sessions in which no earlier program
implemented a std interface for a std type, or panicked after implementing
anything for one. `OnlyOwnModulesGenerated` and `MethodsComplete` exclude, with a
cached std, only the sessions in which an earlier program panicked that had an impl
block for a std type (`Unbroken`): what a calm one implemented for std does no harm
there. `MethodsComplete` is about names with at most two definitions, none of them in
a std compiled before: those are missing from the tables, see `iface_std_methods`.
`LoansReturned` allows the loss after E300, and says nothing of panics over string
literals: a correct program has one as soon as a closure contains a string.
`CrashesAreJustified` of `worklist` allows the panics that `Plain` names, nested
instances (`Nested`) among them: `tests/arrays/nested.gel`, which
`e2etest/test-snapshot` lists as failing, asks for such an instance.
`LexicalScoping` is about modules without body-less functions
and programs without a non-iterator in a `for` or a bad closure signature;
names after such an error are wrong, but the compilation has failed.
`NothingMissing` is about bodies without code after a break or return.
`ScopesBalanced` counts the scopes that loops leave open when the end of their
body is not reached; it says that no other construct leaves one.

`UnsetOnlyIfMissed` says what is left of definite initialization: the analysis
does not look at paths, and everything else that could go wrong (the order of
location and value, fields of the same name of other objects, setters,
initializers, the next constructor) is right. Without branches, loops, returns
and nested objects `missed` is empty, and every field is set.

Observed while modelling, without a run:

* Imports: only names that the prelude declares itself are reserved, so a module
  may declare a class with the name of a re-exported one (import.rs:95); an
  import by name of a name exported by name depends on the order files were read
  in (import.rs:75, and `ExportsFoundInOrder` for what holds); `ModPath::is`
  compares a prefix.
* Interfaces: the third interface of a type that has a method of some name
  enters that name again, the second having removed it (methods.rs:229).
* Scopes: parameters of a function without a body stay in scope for the functions
  after it (generate.rs:69); the temporary that `for` holds its iterator in is
  called `iter` and shadows a variable of that name in the loop; `for`'s else
  branch sees the loop variable, which may never have been stored; a closure
  resolves global names in the first module of the compilation; a variable two
  closures out is not found.
* Codegen: an `if` whose `then` branch leaves has, to the IR generator, no value
  (expr.rs:495); see `Oddities`.
* Parser: `identifier` behind `.` or `?.` takes any token; looking past modifiers and
  at the next token feeds skipped whitespace to the tree, where it comes again
  when it is read, so later spans are shifted; whitespace at the end of a file
  where a token is wanted panics, as do `type_` and `identifier` there; a `when` cut
  off loops for ever; all infix operators group to the right; an error's position
  is that of the token after the one that did not match.
* Worklist: `Box[Box[T]]` panics unless something asked for `Box[T]` before
  (types.rs:186, 194), so it depends on the order of the list; `drop[T]` of a class whose destructor nobody has asked for panics
  (intrinsics.rs:125); a class that contains itself by value recurses without end;
  a generic function among the required ones panics; so does a method found by a
  bound that the argument has no impl of. A closure type is cached for the first
  arguments it is met with. The collector looks up `free-sr`, a method that no one
  declares (gc.rs:78).
* Constructors: a `val` field of a local other than `this` may be assigned any
  number of times; `this.a = this.a` initializes `a` with itself; `this.x.f = v`
  counts as an assignment of `this.f`; `this` may be handed out as a value before
  it is initialized; closures start with an empty set; the default constructor of
  a data case pairs its parameters with the first fields, which are those of the
  enum if that has any (methods.rs:326).

### Bounds, and why they are enough

* `imports`: a chain of four modules (declare, export, export, import) is one
  longer than any interaction of two passes; two names allow a clash next to an
  unrelated name; circles of two and three exports occur.
* `iface_impls`: two programs after std is the shortest session in which one
  disturbs another; two impl blocks per program give every pair of blocks of
  `ProgramImpls`. `LookedUp` is one type with a cell and one without.
* `scopes`: `MaxNodes = 6` and `MaxDepth = 4` allow a loop in a loop, a closure in
  a closure with a capture, a branch in a loop in a closure, and one construct
  after another; `MaxFunctions = 3` two functions and a closure or a function and
  two closures; two modules one `switch_module`.
* `codegen`: `MaxSize = 3` counts expressions with operands and the cases of a
  `when`. It allows a `when` of two cases, an `if` or a loop in a branch of a loop or
  `if`, a break in an `if` in a loop, and a return whose value is one of these: the
  block a branch ends in differs from the one it began in, loops nest, and
  merges get values from merges. Bodies are many; the walk is deterministic.

* `parser`: eleven files use each production at least once; `Noise` has a kind for
  each decision a production makes. `MaxChildren = 12` stops the endless loop of a
  `when` at the end of the file. The bound is in the guard of that one loop
  (`CallProduction` of the `when` branches), and a run it stopped anywhere but at
  the end of the file would violate `EndsOrStuckInWhen`, so it hides nothing else.
* `worklist`: two generic functions that may call each other and themselves with a
  parameter, a type that holds one, or neither; a generic class with lifecycle
  methods; a class that contains itself; a bound; intrinsics. `MaxModules = 2` is
  one reuse of the library, after each program.
* `constructors`: one `val` and one `var` field; two constructors make one set follow
  another; `MaxWrites = 3` lets a loop repeat an assignment twice.

`CHECK_DEADLOCK FALSE` where it is set: the stage, the session, or the
compilation ends, at its bound or by itself.

### Fairness

All components are straight-line code in one thread: as long as there is a next
step it is taken, whichever it is. `imports` (`FairSpec`) and `parser` have
`WF_vars(Next)`, `worklist` has weak fairness of the steps of a compilation (`Step`)
and none of `NextCompilation`: nobody has to compile again. `Monomorphisation`
asks for the same of its steps.

## 4. What is proved

`Imports_proofs`, for any set of modules, names, programs and file orders:

* `TypeCorrect`: `Spec => []TypeOK`.
* `NoSilentClashHolds`: by the inductive invariant that every name in a module's
  own tables is reserved there (`BoundNamesReserved`), and that a clash is
  reported. An insertion reserves first, and reserving what is reserved reports
  E100; without `BoundNamesReserved` the induction has nothing to say about the
  first of the two bindings.
* `BindingsAreFinalHolds`: the action property, from the same invariant.
* `ImportsSettledHolds`: an import is answered in the first pass, or kept and answered
  in the second, by two loops that share nothing but the modules' lists. `SettleInv`
  says what holds in between: of what the first pass has seen, each import is in
  force, reported, or in the list of its module (`Waits`; for imports by name only,
  since a "+" import is in force already when its names are kept); and the second
  pass leaves empty lists behind. `Keeps` is why nothing is forgotten: tables grow.
* `DirectlyUnambiguousHolds`: the names of a "+" import are reserved only in the second
  pass, and the prelude's at the end of a module's visit. `GlobInv` says of each
  "+" import in force that it still waits for that (`Waiting`) or is `Counted`: its
  names are reserved, and clash with no other counted one unreported. After
  `declare_functions` no module declares anything more, without which a name could
  clash after it was counted.
* `CrashesAreJustifiedHolds`: `OverflowCircle` turns a lookup that ran out of stack into a
  circle. A call that finds nothing asks the modules exported by "+"; the sets of
  modules still lost after d calls shrink with d and stand still, by counting, before
  d reaches the number of modules; where they stand still each member has a "+"
  export to a member.
* `BindingsStayCurrentHolds`: the first pass binds to what `find_import` answers before
  functions and later exports exist. A variable assigned once cannot be compared
  with a recursion over tables that change, so the invariant (`ImportInv`, part `Bound`)
  says instead that the binding is `Backed`: some module reached by "+" exports has
  it in a table. Growing tables keep that, and at the end, `FindImport` being a fixed
  point of its own unfolding (`FindImportUnfolds`), a backed declaration is what it
  answers if no name has two meanings.
* `ExportsFoundInOrderHolds`: part `Unfound` of `ImportInv` says that what was reported is
  not offered. When the second pass asks in vain, the modules in which `FindImport`
  finds the name are closed under the exports that could offer it (`OfferedInduction`),
  so a source that does not find it does not offer it (`MissingNotOffered`).

With these, every safety property of the run `imports` is proved. `GlobInv`, `CrashInv` and
`ImportInv` hold in all 1511800 states of its instance.

`IfaceImpls_proofs`, for any std, programs, length of session, and both modes:

* `TypeCorrect`, including that registries point into the heap, at cells of the
  type they are asked for.
* `OwnTypesIsolatedHolds`: a compilation's own types and interfaces never meet
  another's in a cell. Inductive with `TypeOK` alone.
* `ImplsCompleteHolds`: needs the loop invariant of the fill pass
  (`FilledSoFar`: what the pass has left behind is complete or reported), that
  the interface being filled exists (`FillingExisting`), that impls hold only
  required methods (`MethodsRequired`), and `Ages`, which relates the two flags
  whose combination decides how many methods an interface is thought to need.
  `IInv` is their conjunction.
* `OnlyOwnGenerated`: an impl is generated unless its module is marked compiled. The
  induction has to say where the others come from (`OriginInv`): every compilation
  that is over is marked or panicked (`RunsAreMarked`), an impl with a type of std was
  declared by the program it is of (`ImplsHaveOrigin`), and the registry knows the
  types of std and of the running compilation only (`RegistryIsCurrent`). A cell
  with an unmarked impl of another program is then one that `Unbroken` excludes.
* `CachedCompilesLikeFreshHolds`: `FreshErrors` and `FreshModule` are read off the impl
  blocks, the code gets there in steps. `FreshInv` says where it is: the registry
  agrees with the blocks declared so far (`RegistryAgrees(Front)`), the errors are those
  of these blocks and of the impls that `fill_impls_` has come to (`Filled`), and the
  others have no method yet. `StdInv` carries this over the end of a compilation:
  what `consume` keeps of std was compiled without errors (`StdClean`), and until a
  program implements an interface of std for a type of std, the shared cells hold
  std's impls and no others that a later program could name (`StdAgrees`). `VisibleInv`
  (a registry knows only types the compilation can name), `AgesInv` (when lifecycle
  methods are declared, and what is marked compiled) and `FillingInv` (where the fill
  pass is) are what the steps need besides.
* `MethodsCompleteHolds`: the property is about names with at most two definitions and is
  not inductive. `MethodsInv` says for any number of them that the table has a name if
  the number of its definitions handled so far is odd (`TableAgrees`), as each one
  toggles it. That the impls it comes to are those of the blocks, whatever an earlier
  program left in the shared cells, is `OwnInv`: where the latest block for a type and
  interface is one of this compilation, the registry has its impl, and where there is
  none the registry has nothing of this compilation.

Both rest on `StdIsClosed`, that std's blocks name only types of std; the constants
could otherwise make std implement the interface of a program it is compiled
without. With these, every property of the run `iface_impls` is proved. The invariants
hold in all 143835 states of its instance.

`Constructors_proofs`, for any classes, with any number of constructors and bodies
of any length (`ClassesAssumption` says what shape the class declarations have):

* `UnsetOnlyIfMissedHolds`: what the check accepts leaves a field unset, or reads
  it unset, only where the path taken missed an assignment that the text has.
* `ValWrittenOnceHolds`: a `val` field that is accepted is written once, but for
  the fields in loops and the setters of initialized fields that the property
  names.

Both come from `IInv`. A property of the phase `run` cannot be inductive alone: it
is about what `check` found in the same text before. So `CheckedSoFar` says of
every statement that was checked without an error what the check saw there, in
terms of the text (`UninitAt(i, p)`, what constructor `i` has not assigned before its
statement `p`) and not of the variable `uninitialized`, which is gone by then.
`WrittenOrMissed` and `NotWrittenAhead` relate the object of the run to the same
`UninitAt` at the place the run is at.

`Worklist_proofs`, for any program, library, and number of compilations with it:

* `TypeCorrect`; `TypeInv` is stronger: the type arguments of everything that is
  waiting or declared are concrete, what is not generic has none, and an
  intrinsic is never queued without one.
* `DeclaredOnceHolds`: by `DeclInv`, which says where in the steps of `get_or_create`
  an instance can be: between `AddInst`, `QueueFunction` and the end of `generate` it
  is declared and not yet on the list, or the reverse, and a task of the Rust
  stack (`todo`) makes up for the difference. The tasks of a body come in an order
  (`OrderedTasks`), without which two of them could make up for the same one.
* `Refines`: `Worklist` implements the safety part of `Monomorphisation`, under the
  mapping `Mono == INSTANCE Monomorphisation`: the initial states are its initial
  states and each step is one of its steps or a stutter. A step of the code that
  generates an instance must show that the instance was *wanted*: referred to by
  one generated before, or required (`WantInv`). What is wanted is said with the
  arguments of the instance, the body asks with a type parameter and the stack
  `type_args`; `ServeInv` says which instance each waiting task serves and that the
  arguments in force when the task runs are that instance's. And the step that
  ends must show that nothing is wanted any more (`NothingWanting`).

`Scopes_proofs`, for any names, parameter lists and loop types, and for bodies of
any size and depth. The induction is over 33 actions, so it is split in two: `Steps`
shows that each action is one of 15 kinds of step (opens a construct, closes one,
defines a variable, begins a closure, ...) and preserves `TypeInv`; the invariants
about scopes, loops and closures are then shown for each kind of step.

* `TypeCorrect`: by `TypeInv`, with the places that each construct can be at, and that
  all constructs but the innermost are waiting for a part of themselves.
* `LoopTypeRestoredHolds`: what the code has is one loop type per generator and one
  saved by each loop; what the property speaks of is the loops of the innermost
  function. `LoopInv` connects them by a ghost function, the type of the loop around
  each construct: the saved type of a loop is the type around it, the type of a
  suspended generator is the type around its closure literal.
* `LoansAreReturned`: by `HeightInv`, a ghost count of scopes per construct. Each
  construct needs one scope below its own, and the scopes kept in `outer_env` are
  enough for the constructs around the closure.
* `LexicalScopingHolds`, `CapturedWhereWrittenHolds`: by `ScopeInv`. The ghost is now
  the stack of environments itself inside of each construct: what the construct's
  kind and declarations make of the stack around it (`ScopesAt`). The generator's
  `environments` are those of the innermost construct, the `outer_env` of the k-th
  closure those around its literal, and each capture is what those give for its
  name. `NamesMean` then shows that looking a name up in such a stack is looking
  for the innermost declaration in the source. The invariant speaks of all the
  closures around and not of the innermost only, since `end_closure` hands the
  stack back to the generator outside.

`Codegen_proofs`, for function bodies of every size and shape, those with the odd
shapes of `Odd` included:

* `TypeCorrect`: both generators are typed, and the builder is at an open block or at
  none.
* `TerminatorsFinal` (an action property): a block ends once.
* `BreaksInnermost`: `loop.end` is the end of the innermost loop being emitted.
* `ScopesBalancedHolds` (an action property): a call of `expression_` returns with as
  many scopes as it was called with, plus the ones counted in `unclosed`.

The four come from one inductive invariant, `TypeInv`. Its part `Forming` is about the
GIR: an expression has as many operands as its kind takes and they exist, without
which the walk has nothing to stand on. Its part `Walk(frames, m)` relates the builder
to all the calls of `expression_` that have not returned, not only to the innermost:
`LoopsNest` says that the loop saved by each call is the one around it, since
`RestoreLoop` brings it back; `ScopesNest` that the number of scopes each call found
is that of the call around it and what that has pushed by then. `BlocksKept` is what
the proof that blocks end once needs: the blocks that a call has made and has yet to
emit into (`Waiting`) are open, nobody is inserting into them, and no two calls share
one. Only then is the block that `if_`, `switch` or `loop_` goes on with, after an
operand that may have emitted anything, known to be still open. Each of the 33 actions
is shown to give `Goes`: the invariant, that of the blocks there are only the one
inserted into changes (`Extends`), and that a call that returns leaves the scopes as
it found them.

`CodegenMerges_proofs`, for bodies of every size without an odd shape but `dead_code`
(`Regular`, which is what the run `codegen` checks; for the other shapes the three do
not hold, see section 2):

* `MergesMatch`: a merge has a value for each of its block's predecessors, for no other.
* `ValuesReach`: a value is computed on every way to where it is used.
* `NothingMissingHolds`: no condition is without a value, and what is stored and returned
  is of the type wanted, unless the body has dead code.

These come from a second invariant, `Merging`, of which TLC has checked each part on the
run `codegen`. Its first part is about the GIR: `Shaped` says of each expression how
its type, whether it leaves, whether it gives a value and what its breaks give fit
those of its operands. Each action of the GIR generator is shown to make shaped
expressions out of shaped ones; this is where the odd shapes are excluded. The second,
`Kept`, is about the walk:

* `Chain`, `Broken`: each call is for an operand of the call around it, and a break that
  is still to come has a loop around it whose operands know of it.
* `Fed`: the predecessors of a construct's end block are, at every moment, the blocks that
  values have come from: those of the branches that have ended and, of a loop, those of the
  breaks in it, which are in `m.loop` or, while an inner loop is emitted, in the inner
  call's `outer`. When the last branch has ended this is what `build_phi` is
  given, hence `Merged`.
* `Held`, `Apart`: the blocks that a call will branch to are no other call's, and merges
  that are done are not at one of them, so their predecessors do not change any more.
* `AllSound`, `Delivered`: of each value that is still to be used, and of each use, `Reach`.
  Dominance is about all ways through the graph and would not survive a new branch;
  `Reach(d, b)` is a witness that does: a set of blocks that has b, is entered only
  at d, and has no block in it that is still to be branched to. `ReachDominates` shows
  at the end that no way from the entry gets into such a set without d.
* `Still`: where nothing is inserted to, and that the second condition of a loop (a
  call, as anything else is odd) is emitted in the block in which the body ended.
* `Faultless`, `Rooted`: no fault without dead code; a function that returns a value never
  gets to its end.

Each of the 22 actions of the walk is shown to give `Stays` (`SkipKeeps` .. `LoopEndKeeps`), by
`EvaluateKeeps` or `GiveKeeps`: what it emits is `Emits`, and the call goes on (`Moves`) or
returns (`Finishes`).

`Parser_proofs`, for any set of files, well formed or not, of any length:

* `TypeCorrect`: the cursor stays in the file and the root open; a checkpoint of a live
  production is of an open node and counts children that node has, so neither the
  index nor the drain in `start_node_at` is out of range.
* `TokensOnce`: the tree holds every token that was read and is not whitespace once and
  in order; when `parse` is done only the root is open, so it is the root, with the
  whole file in it, that `finish` takes.
* `SpansCover`: spans are as long as the text below them.
* `BuilderIsServed`: no production closes a node it has not opened (`end_node` never
  pops the root), or uses a checkpoint it does not have.

That a step keeps the tree whole is a matter of `NodeBuilder` (module `TreeBuilder`):
`Builder(ns, ms)` says of the open nodes and checkpoints that spans fit, that every checkpoint's `start` is where its
first children end, and that checkpoints are in the order they were taken. The last is
needed by `start_node_at`, which shifts the nodes above the checkpoint's: the later
checkpoints would otherwise be of the wrong node. `BuilderStartAt`, `BuilderEnd`,
`BuilderFeed` and others show that each operation keeps this and the leaves.

That the operations are only called where they may be is a matter of the grammar, and
the invariant `IInv` has to say it of all that the active productions still have to do:
`TodoOK` asks for the program in `todo` to fit the shape of the builder, its depth and
the nodes of its checkpoints. `Typed(p, s, t)`, program p makes shape t of shape s, is
the greatest relation closed under what single instructions do (a set `W` in which
every triple is justified by others), as programs loop and call each other by name.
`BodyTyped` puts the productions together: each keeps every shape, except `closure()`,
which closes the node its caller opened. Since a branch must have the same type on
every arm, this covers all errors and recoveries too. `TodoOK` is not checked by TLC,
as it quantifies over sets of programs; the three properties it is for are, by the run
`parser`.

`FlattenSeq` of the community modules is recursive, and so are `FindImport`, `Offered` and
`ReachedWithout`. What they give is shown by induction over a length, in the form of a set of numbers
that has 0 and with every k also k + 1 (`SetInduction`, from the well-foundedness of
finite sets).

The assumptions are the named `ASSUME`s of the modules: types of the constants
and that special values (`None`, `Glob`, ...) are none of the ordinary ones, and what
shape programs, libraries and classes have. Of a file `Parser` assumes that no token is
of the kind `EndOfFile`, for which the lexer has no pattern. TLC evaluates them in every
run.

Only model-checked: liveness, the fairness part of `MonoSpec` included; of `Parser`
what depends on which tokens a production has looked at before (`AcceptedIsBalanced`,
`CrashesOnlyAtEnd`).
Two properties of `Worklist` hold for the programs of the runs and not for all
constants: `OneStructPerInstance` counts on a generic class being mentioned with all
its arguments, and `CrashesAreJustified` on no two classes containing each other by
value, nor instances nested in the fields of another class, which `Plain` does not
exclude: it looks at what a body and the signatures it uses ask for themselves.

## 5. Not modelled, and what is next

Not modelled: reference counts and the collector, the lifecycle methods, types
and casts as functions of their own, the standard library's buffers, the parse
stage's path stack, the output of the test runner. Three hazards have no property: the parse stage's path,
strings in closures and the parameters of functions without a body (section 3).
Reference counts need
the values and scopes of `Codegen` one level finer, and are the next thing to
specify; the buffers (`GelArray`, `GelString` against a sequence) come after.

Theorems to come: `CrashesOnlyAtEnd` of `Parser`, with a `Typed` that also knows which
tokens may follow.
