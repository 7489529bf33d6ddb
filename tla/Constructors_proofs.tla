------------------------- MODULE Constructors_proofs -------------------------
(***************************************************************************)
(* Proofs about Constructors: for any classes with any bodies, what the    *)
(* check accepts leaves a field unset only where a path missed an          *)
(* assignment, and writes a val field once.                                *)
(***************************************************************************)
EXTENDS Constructors, TLAPS

-----------------------------------------------------------------------------
(* The inductive invariant.                                                *)

ConstructorAt(i) == class.constructors[i]
BodyAt(i) == ConstructorAt(i).body

(* What of constructor i is not initialized before its statement p.        *)
UninitAt(i, p) == ToInitialize(i) \ Written(BodyAt(i), 1, p - 1)

(* Statement j of constructor i gave no error.                             *)
Accepted(i, j) ==
  LET s == BodyAt(i)[j] IN
  /\ s.op = "assign" =>
       /\ s.value \notin UninitAt(i, j + 1)
       /\ IsThis(s.obj) => s.f \in UninitAt(i, j) \cup class.mutable
  /\ s.op = "read" => s.f \notin UninitAt(i, j)
  /\ s.op = "method" => UninitAt(i, j) = {}

Passed(i) == /\ \A j \in 1..Len(BodyAt(i)) : Accepted(i, j)
             /\ UninitAt(i, Len(BodyAt(i)) + 1) = {}

(* Without errors so far, everything that was checked was in order.        *)
CheckedSoFar ==
  errors = {} =>
    IF position # 0 /\ phase = "check"
    THEN /\ \A i \in 1..(position - 1) : Passed(i)
         /\ \A j \in 1..(pc - 1) : Accepted(position, j)
    ELSE \A i \in DOMAIN class.constructors : Passed(i)

TypeInv ==
  /\ class \in Classes
  /\ position \in 0..Len(class.constructors)
  /\ pc \in 1..(Len(Body) + 1)
  /\ phase \in {"check", "rejected", "run", "done"}
  /\ (phase = "check" /\ position # 0) => uninitialized = UninitAt(position, pc)
  /\ writes \in [class.fields -> Nat]
  /\ phase \in {"run", "done"} =>
       /\ errors = {}
       /\ position # 0 /\ constructor = position
  /\ phase = "done" => pc = Len(Body) + 1

(* What an initializer, a setter parameter or an assignment above would    *)
(* have set is set, or it is known that control passed the assignment.     *)
WrittenOrMissed ==
  phase \in {"run", "done"} =>
    /\ class.fields \ ToInitialize(constructor) \subseteq class.fields \ Unset
    /\ Written(Body, 1, pc - 1) \cap Unset \subseteq missed

(* A val field that is written once at most is not written before the      *)
(* statement that assigns it.                                              *)
Vals == class.fields \ (class.mutable \cup Repeated \cup SetTwice)
NotWrittenAhead ==
  phase \in {"run", "done"} =>
    \A f \in Vals :
      /\ writes[f] <= 1
      /\ f \in UninitAt(constructor, pc) => writes[f] = 0

IInv == TypeInv /\ CheckedSoFar /\ WrittenOrMissed /\ NotWrittenAhead

-----------------------------------------------------------------------------
(* Bodies and what they assign.                                            *)

LEMMA ClassFacts ==
  ASSUME NEW c \in Classes
  PROVE  /\ c.initialized \subseteq c.fields
         /\ DOMAIN c.constructors = 1..Len(c.constructors)
         /\ Len(c.constructors) \in Nat /\ 1 \in DOMAIN c.constructors
         /\ \A i \in DOMAIN c.constructors :
              BodyOf(c.fields, c.constructors[i].body)
         /\ BodyOf(c.fields, c.method)
BY ClassesAssumption

LEMMA BodyTyped ==
  ASSUME TypeInv
  PROVE  /\ BodyOf(class.fields, Body)
         /\ DOMAIN Body = 1..Len(Body) /\ Len(Body) \in Nat
         /\ position # 0 => Body = BodyAt(position)
BY ClassFacts DEF TypeInv, Body, BodyAt, ConstructorAt, BodyOf

LEMMA StatementTyped ==
  ASSUME TypeInv, pc \in DOMAIN Body
  PROVE  /\ pc \in 1..Len(Body)
         /\ Now \in Statement(class.fields)
         /\ Now.op = "assign" => /\ Now.f \in class.fields
                                 /\ Now.obj \in {"this", "other", "nested"}
BY BodyTyped DEF Now, BodyOf, Statement

LEMMA WrittenStep ==
  ASSUME NEW b, NEW p \in Nat \ {0}
  PROVE  Written(b, 1, p) =
           Written(b, 1, p - 1) \cup
             (IF b[p].op = "assign" /\ IsThis(b[p].obj) THEN {b[p].f} ELSE {})
<1>1. 1..p = (1..(p - 1)) \cup {p}
  OBVIOUS
<1> QED
  BY <1>1 DEF Written

LEMMA WrittenSkip ==
  ASSUME NEW b, NEW p \in Nat \ {0}, NEW q \in Nat, p <= q + 1
  PROVE  Written(b, 1, q) = Written(b, 1, p - 1) \cup Written(b, p, q)
<1>1. 1..q = (1..(p - 1)) \cup (p..q)
  OBVIOUS
<1> QED
  BY <1>1 DEF Written

LEMMA WrittenMore ==
  ASSUME NEW b, NEW p \in Int, NEW q \in Int, NEW k \in Int, NEW l \in Int,
         k <= p, q <= l
  PROVE  Written(b, p, q) \subseteq Written(b, k, l)
<1>1. p..q \subseteq k..l
  OBVIOUS
<1> QED
  BY <1>1 DEF Written

(* Before the first statement nothing has been assigned.                   *)
LEMMA UninitAtStart ==
  \A i : UninitAt(i, 1) = ToInitialize(i)
<1>1. 1..0 = {}
  OBVIOUS
<1> QED
  BY <1>1 DEF UninitAt, Written

-----------------------------------------------------------------------------
(* Type correctness.                                                       *)

LEMMA TypeInit == Init => TypeInv
<1> SUFFICES ASSUME Init
             PROVE  TypeInv
  OBVIOUS
<1>1. Len(Body) \in Nat /\ BodyAt(1) = Body
  BY ClassFacts DEF Init, Body, BodyAt, ConstructorAt, BodyOf
<1> QED
  BY <1>1, UninitAtStart, ClassFacts DEF Init, TypeInv

LEMMA TypeStep ==
  ASSUME TypeInv, [Next]_vars
  PROVE  TypeInv'
<1> USE BodyTyped, StatementTyped
<1> DEFINE Same == class' = class /\ position' = position /\ phase' = phase
                   /\ constructor' = constructor
<1>1. Same => /\ Body' = Body
              /\ \A i, p : UninitAt(i, p)' = UninitAt(i, p)
  BY DEF Body, UninitAt, BodyAt, ConstructorAt, ToInitialize, Setters
<1>2. CASE CheckAssign
  <2>1. Same /\ pc \in 1..Len(Body) /\ pc' = pc + 1 /\ phase = "check"
    BY <1>2 DEF CheckAssign, AtStatement, Step
  <2>2. position # 0 => UninitAt(position, pc + 1) = AfterGet(Now)
    <3> SUFFICES ASSUME position # 0
                 PROVE  UninitAt(position, pc + 1) = AfterGet(Now)
      OBVIOUS
    <3>1. Now = BodyAt(position)[pc] /\ Now.op = "assign"
      BY <1>2 DEF CheckAssign, AtStatement, Now
    <3>2. Written(BodyAt(position), 1, pc) =
            Written(BodyAt(position), 1, pc - 1)
              \cup (IF IsThis(Now.obj) THEN {Now.f} ELSE {})
      BY <2>1, <3>1, WrittenStep
    <3> QED
      BY <2>1, <3>2 DEF UninitAt, AfterGet, TypeInv
  <2> QED
    BY <1>1, <1>2, <2>1, <2>2 DEF TypeInv, CheckAssign
<1>3. CASE CheckRead \/ CheckMethodCall \/ CheckOther
  <2>1. /\ Same /\ pc \in 1..Len(Body) /\ pc' = pc + 1 /\ phase = "check"
        /\ uninitialized' = uninitialized /\ writes' = writes
        /\ Now.op # "assign"
    BY <1>3 DEF CheckRead, CheckMethodCall, CheckOther, AtStatement, Step
  <2>2. position # 0 => UninitAt(position, pc + 1) = UninitAt(position, pc)
    BY <2>1, WrittenStep DEF UninitAt, Now
  <2> QED
    BY <1>1, <2>1, <2>2 DEF TypeInv
<1>4. CASE CheckEnd
  <2>1. /\ class' = class /\ phase' = "check" /\ pc' = 1 /\ writes' = writes
        /\ position' \in 0..Len(class.constructors)
        /\ position' # 0 => uninitialized' = ToInitialize(position')
    BY <1>4, ClassFacts DEF CheckEnd, TypeInv, running
  <2>2. Len(Body') \in Nat
    BY <2>1, ClassFacts DEF Body, BodyOf, TypeInv
  <2>3. \A i : UninitAt(i, 1)' = ToInitialize(i)
    BY <2>1, UninitAtStart DEF UninitAt, BodyAt, ConstructorAt, ToInitialize, Setters
  <2> QED
    BY <2>1, <2>2, <2>3 DEF TypeInv
<1>5. CASE StartRun
  <2>1. CASE errors # {}
    BY <1>5, <2>1 DEF StartRun, TypeInv, running, Body
  <2>2. CASE errors = {}
    <3>1. PICK i \in DOMAIN class.constructors :
            /\ phase' = "run" /\ position' = i /\ constructor' = i /\ pc' = 1
            /\ writes' = [f \in class.fields |->
                            (IF f \in class.initialized THEN 1 ELSE 0)
                            + (IF f \in Setters(i) THEN 1 ELSE 0)]
      BY <1>5, <2>2 DEF StartRun
    <3>2. class' = class /\ errors' = {}
      BY <1>5, <2>2 DEF StartRun
    <3>3. i \in 1..Len(class.constructors) /\ Len(Body') \in Nat
      BY <3>1, <3>2, ClassFacts DEF Body, BodyOf, TypeInv
    <3> QED
      BY <3>1, <3>2, <3>3 DEF TypeInv
  <2> QED
    BY <2>1, <2>2
<1>6. CASE RunAssign \/ RunPlain
  <2>1. /\ Same /\ pc \in 1..Len(Body) /\ pc' = pc + 1 /\ phase = "run"
        /\ errors' = errors
    BY <1>6 DEF RunAssign, RunPlain, AtStatement, Continue
  <2>2. writes' \in [class.fields -> Nat]
    BY <1>6 DEF RunAssign, RunPlain, TypeInv, AtStatement
  <2> QED
    BY <1>1, <2>1, <2>2 DEF TypeInv
<1>7. CASE RunIf \/ RunElse \/ RunFor \/ RunAgain \/ RunReturn
  <2>1. /\ Same /\ phase = "run" /\ errors' = errors /\ writes' = writes
        /\ pc \in 1..Len(Body)
    BY <1>7 DEF RunIf, RunElse, RunFor, RunAgain, RunReturn, AtStatement,
                Continue, SkipTo, running
  <2>2. pc' \in 1..(Len(Body) + 1)
    BY <1>7, <2>1 DEF RunIf, RunElse, RunFor, RunAgain, RunReturn, AtStatement,
                Continue, SkipTo, Now, BodyOf, BracketsMatch
  <2> QED
    BY <1>1, <2>1, <2>2 DEF TypeInv
<1>8. CASE RunEnd
  BY <1>8 DEF RunEnd, TypeInv, running, Body
<1>9. CASE UNCHANGED vars
  BY <1>9 DEF vars, TypeInv, Body, UninitAt, BodyAt, ConstructorAt,
              ToInitialize, Setters
<1> QED
  BY <1>2, <1>3, <1>4, <1>5, <1>6, <1>7, <1>8, <1>9 DEF Next

-----------------------------------------------------------------------------
(* What the check accepts.                                                 *)

LEMMA AcceptedDependsOnClass ==
  ASSUME class' = class
  PROVE  /\ \A i, p : UninitAt(i, p)' = UninitAt(i, p)
         /\ \A i, j : Accepted(i, j)' = Accepted(i, j)
         /\ \A i : Passed(i)' = Passed(i)
<1>1. \A i : /\ ToInitialize(i)' = ToInitialize(i)
             /\ BodyAt(i)' = BodyAt(i)
  BY DEF ToInitialize, Setters, BodyAt, ConstructorAt
<1>2. \A i, p : UninitAt(i, p)' = UninitAt(i, p)
  BY <1>1 DEF UninitAt
<1> QED
  BY <1>1, <1>2 DEF Accepted, Passed

(* A step that leaves errors empty reports nothing.                        *)
LEMMA ReportsNothing ==
  ASSUME NEW codes, Report(codes), errors' = {}
  PROVE  errors = {} /\ codes = {}
BY DEF Report

LEMMA CheckedInit == Init => CheckedSoFar
<1>1. 1..0 = {}
  OBVIOUS
<1> QED
  BY <1>1 DEF Init, CheckedSoFar

LEMMA CheckedStep ==
  ASSUME TypeInv, CheckedSoFar, [Next]_vars
  PROVE  CheckedSoFar'
<1> USE BodyTyped, StatementTyped, AcceptedDependsOnClass
<1>1. CASE CheckAssign \/ CheckRead \/ CheckMethodCall \/ CheckOther
  <2>1. /\ class' = class /\ position' = position /\ phase' = phase
        /\ phase = "check" /\ pc \in 1..Len(Body) /\ pc' = pc + 1
    BY <1>1 DEF CheckAssign, CheckRead, CheckMethodCall, CheckOther, AtStatement,
                Step
  <2>0. errors' = {} => errors = {}
    BY ONLY <1>1, ReportsNothing
       DEF CheckAssign, CheckRead, CheckMethodCall, CheckOther
  <2>2. position # 0 /\ errors' = {} => Accepted(position, pc)
    <3> SUFFICES ASSUME position # 0, errors' = {}
                 PROVE  Accepted(position, pc)
      OBVIOUS
    <3>1. /\ Now = BodyAt(position)[pc]
          /\ uninitialized = UninitAt(position, pc)
      BY <2>1 DEF Now, TypeInv
    <3>2. Now.op = "assign" => AfterGet(Now) = UninitAt(position, pc + 1)
      BY <2>1, <3>1, WrittenStep DEF UninitAt, AfterGet
    <3>3. CASE CheckAssign
      <4>1. /\ Now.op = "assign"
            /\ (IF Now.value \in AfterGet(Now) THEN {"E222"} ELSE {})
                 \cup (IF WasUninit(Now) \/ Now.f \in class.mutable
                       THEN {} ELSE {"E200"}) = {}
        BY ONLY <3>3, ReportsNothing, errors' = {} DEF CheckAssign, AtStatement
      <4>2. /\ Now.value \notin AfterGet(Now)
            /\ WasUninit(Now) \/ Now.f \in class.mutable
        BY ONLY <4>1
      <4> QED
        BY <3>1, <3>2, <4>1, <4>2 DEF Accepted, WasUninit
    <3>4. CASE CheckRead
      <4>1. Now.op = "read" /\ Now.f \notin uninitialized
        BY ONLY <3>4, ReportsNothing, errors' = {} DEF CheckRead, AtStatement
      <4> QED
        BY <3>1, <4>1 DEF Accepted
    <3>5. CASE CheckMethodCall
      <4>1. Now.op = "method" /\ uninitialized = {}
        BY ONLY <3>5, ReportsNothing, errors' = {} DEF CheckMethodCall, AtStatement
      <4> QED
        BY <3>1, <4>1 DEF Accepted
    <3>6. CASE CheckOther
      BY <3>1, <3>6 DEF Accepted, CheckOther
    <3> QED
      BY <1>1, <3>3, <3>4, <3>5, <3>6
  <2> QED
    BY <2>0, <2>1, <2>2 DEF CheckedSoFar, TypeInv
<1>2. CASE CheckEnd
  <2>1. /\ class' = class /\ phase' = "check" /\ phase = "check" /\ pc' = 1
        /\ position # 0 /\ pc = Len(Body) + 1
        /\ IF position < Len(class.constructors)
           THEN position' = position + 1 ELSE position' = 0
    BY <1>2 DEF CheckEnd, TypeInv
  <2>2. errors' = {} => errors = {} /\ uninitialized = {}
    BY ONLY <1>2, ReportsNothing DEF CheckEnd
  <2>3. errors' = {} => \A i \in 1..position : Passed(i)
    BY <2>1, <2>2 DEF CheckedSoFar, Passed, TypeInv
  <2> QED
    BY <2>1, <2>2, <2>3, ClassFacts DEF CheckedSoFar, TypeInv
<1>3. CASE StartRun
  BY <1>3 DEF StartRun, CheckedSoFar, running
<1>4. CASE RunAssign \/ RunPlain \/ RunIf \/ RunElse \/ RunFor \/ RunAgain
           \/ RunReturn \/ RunEnd
  <2>1. class' = class /\ errors' = errors /\ phase = "run" /\ phase' # "check"
    BY <1>4 DEF RunAssign, RunPlain, RunIf, RunElse, RunFor, RunAgain, RunReturn,
                RunEnd, AtStatement, Continue, SkipTo
  <2> QED
    BY <2>1 DEF CheckedSoFar
<1>5. CASE UNCHANGED vars
  BY <1>5 DEF vars, CheckedSoFar
<1> QED
  BY <1>1, <1>2, <1>3, <1>4, <1>5 DEF Next

-----------------------------------------------------------------------------
(* What runs.                                                              *)

(* The steps of a run, by what they do to the place in the body: go on     *)
(* after the statement, pass others over, or go back into a loop's body.   *)
LEMMA RunSteps ==
  ASSUME TypeInv, phase = "run",
         RunAssign \/ RunPlain \/ RunIf \/ RunElse \/ RunFor \/ RunAgain
           \/ RunReturn
  PROVE  /\ class' = class /\ position' = position /\ phase' = phase
         /\ constructor' = constructor /\ Body' = Body /\ errors' = errors
         /\ pc \in 1..Len(Body) /\ pc \in DOMAIN Body
         /\ \/ RunAssign
            \/ /\ Now.op # "assign" /\ pc' = pc + 1
               /\ writes' = writes /\ missed' = missed
            \/ /\ Now.op # "assign" /\ writes' = writes
               /\ pc' \in (pc + 1)..(Len(Body) + 1)
               /\ missed' = missed \cup Written(Body, pc, pc' - 1)
            \/ /\ writes' = writes /\ missed' = missed
               /\ Now.op = "again"
               /\ Opening(Body, pc) \in 1..(pc - 1)
               /\ Body[Opening(Body, pc)].op = "for"
               /\ Closing(Body, Opening(Body, pc), {"again"}) = pc
               /\ pc' = Opening(Body, pc) + 1
<1> USE BodyTyped, StatementTyped
<1>1. /\ class' = class /\ position' = position /\ phase' = phase
      /\ constructor' = constructor /\ errors' = errors
      /\ pc \in 1..Len(Body) /\ pc \in DOMAIN Body
  BY DEF RunAssign, RunPlain, RunIf, RunElse, RunFor, RunAgain, RunReturn,
         AtStatement, Continue, SkipTo, running
<1>2. Body' = Body
  BY <1>1 DEF Body
<1>3. BracketsMatch(Body)
  BY DEF BodyOf
<1>4. CASE RunAssign
  BY <1>1, <1>2, <1>4
<1>5. CASE RunPlain \/ RunIf \/ RunFor
  BY <1>1, <1>2, <1>3, <1>5 DEF RunPlain, RunIf, RunFor, AtStatement, Continue,
     SkipTo, BracketsMatch, Now
<1>6. CASE RunElse \/ RunReturn
  BY <1>1, <1>2, <1>3, <1>6 DEF RunElse, RunReturn, AtStatement, SkipTo,
     BracketsMatch, Now
<1>7. CASE RunAgain
  BY <1>1, <1>2, <1>3, <1>7 DEF RunAgain, AtStatement, Continue, running,
     BracketsMatch, Now
<1> QED
  BY <1>4, <1>5, <1>6, <1>7

(* An assignment that runs to this object writes the field, any other that *)
(* passes for one is noted.                                                *)
LEMMA AssignStep ==
  ASSUME TypeInv, RunAssign
  PROVE  /\ phase = "run" /\ pc' = pc + 1 /\ Now.op = "assign"
         /\ Now.f \in class.fields
         /\ \/ /\ Now.obj = "this" /\ IsThis(Now.obj) /\ missed' = missed
               /\ \A g \in class.fields :
                    writes'[g] = IF g = Now.f THEN writes[g] + 1 ELSE writes[g]
            \/ /\ writes' = writes
               /\ missed' = IF IsThis(Now.obj) THEN missed \cup {Now.f} ELSE missed
BY StatementTyped DEF RunAssign, AtStatement, Continue, IsThis, TypeInv

(* Only three kinds of steps end in a run.                                 *)
LEMMA StepsOfARun ==
  ASSUME [Next]_vars, TypeInv, phase' \in {"run", "done"}
  PROVE  \/ StartRun
         \/ /\ phase = "run"
            /\ RunAssign \/ RunPlain \/ RunIf \/ RunElse \/ RunFor \/ RunAgain
                 \/ RunReturn
         \/ RunEnd
         \/ UNCHANGED vars
BY DEF Next, CheckAssign, CheckRead, CheckMethodCall, CheckOther, CheckEnd, Step,
       AtStatement, RunAssign, RunPlain, RunIf, RunElse, RunFor, RunAgain, RunReturn

(* The constructor that starts to run is one that was accepted.            *)
LEMMA Started ==
  ASSUME TypeInv, StartRun, phase' \in {"run", "done"}
  PROVE  /\ class' = class /\ pc' = 1 /\ constructor' \in DOMAIN class.constructors
         /\ position' = constructor' /\ phase' = "run" /\ errors = {}
         /\ missed' = missed
         /\ writes' = [f \in class.fields |->
                         (IF f \in class.initialized THEN 1 ELSE 0)
                         + (IF f \in Setters(constructor') THEN 1 ELSE 0)]
<1>1. errors = {}
  BY DEF StartRun
<1> QED
  BY <1>1 DEF StartRun

LEMMA WrittenStart ==
  ASSUME NEW b
  PROVE  Written(b, 1, 0) = {}
<1>1. 1..0 = {}
  OBVIOUS
<1> QED
  BY <1>1 DEF Written

LEMMA ToInitializeDependsOnClass ==
  ASSUME class' = class
  PROVE  \A i : ToInitialize(i)' = ToInitialize(i)
BY DEF ToInitialize, Setters

LEMMA WrittenOrMissedStep ==
  ASSUME TypeInv, WrittenOrMissed, [Next]_vars
  PROVE  WrittenOrMissed'
<1> SUFFICES ASSUME phase' \in {"run", "done"}
             PROVE  WrittenOrMissed'
  BY DEF WrittenOrMissed
<1>1. CASE StartRun
  <2>1. \A f \in class.fields \ ToInitialize(constructor') : writes'[f] # 0
    BY <1>1, Started DEF ToInitialize
  <2>2. Written(Body', 1, pc' - 1) = {}
    BY <1>1, Started, WrittenStart
  <2> QED
    BY <1>1, <2>1, <2>2, Started, ToInitializeDependsOnClass
       DEF WrittenOrMissed, Unset
<1>2. CASE /\ phase = "run"
           /\ RunAssign \/ RunPlain \/ RunIf \/ RunElse \/ RunFor \/ RunAgain
                \/ RunReturn
  <2>1. /\ class' = class /\ constructor' = constructor /\ Body' = Body
        /\ phase = "run" /\ pc \in Nat \ {0} /\ Len(Body) \in Nat
    BY <1>2, RunSteps, BodyTyped
  <2>2. CASE RunAssign
    <3>1. /\ Unset' \subseteq Unset
          /\ missed \subseteq missed'
          /\ IsThis(Now.obj) => Now.f \in missed' \/ Now.f \notin Unset'
      BY <2>1, <2>2, AssignStep DEF Unset, TypeInv
    <3>2. Written(Body, 1, pc) =
            Written(Body, 1, pc - 1) \cup (IF IsThis(Now.obj) THEN {Now.f} ELSE {})
      BY <2>1, <2>2, WrittenStep, AssignStep DEF Now
    <3>3. pc' - 1 = pc
      BY <2>1, <2>2, AssignStep
    <3>4. Written(Body, 1, pc) \cap Unset' \subseteq missed'
      BY <2>1, <3>1, <3>2 DEF WrittenOrMissed
    <3> QED
      BY <2>1, <3>1, <3>3, <3>4, ToInitializeDependsOnClass
         DEF WrittenOrMissed, Unset
  <2>3. CASE Now.op # "assign" /\ pc' = pc + 1 /\ writes' = writes /\ missed' = missed
    <3>1. Body[pc].op # "assign"
      BY <2>3 DEF Now
    <3>2. Written(Body, 1, pc) = Written(Body, 1, pc - 1) \cup
            (IF Body[pc].op = "assign" /\ IsThis(Body[pc].obj) THEN {Body[pc].f} ELSE {})
      BY <2>1, WrittenStep
    <3>3. Written(Body, 1, pc) = Written(Body, 1, pc - 1)
      BY <3>1, <3>2
    <3> QED
      BY <2>1, <2>3, <3>3, ToInitializeDependsOnClass DEF WrittenOrMissed, Unset
  <2>4. CASE /\ writes' = writes /\ pc' \in (pc + 1)..(Len(Body) + 1)
             /\ missed' = missed \cup Written(Body, pc, pc' - 1)
    <3>1. Written(Body, 1, pc' - 1) =
            Written(Body, 1, pc - 1) \cup Written(Body, pc, pc' - 1)
      BY <2>1, <2>4, WrittenSkip
    <3> QED
      BY <2>1, <2>4, <3>1, ToInitializeDependsOnClass DEF WrittenOrMissed, Unset
  <2>5. CASE /\ writes' = writes /\ missed' = missed
             /\ Opening(Body, pc) \in 1..(pc - 1) /\ pc' = Opening(Body, pc) + 1
    <3>1. Written(Body, 1, pc' - 1) \subseteq Written(Body, 1, pc - 1)
      BY <2>1, <2>5, WrittenMore
    <3> QED
      BY <2>1, <2>5, <3>1, ToInitializeDependsOnClass DEF WrittenOrMissed, Unset
  <2> QED
    BY <1>2, <2>2, <2>3, <2>4, <2>5, RunSteps
<1>3. CASE RunEnd
  BY <1>3, ToInitializeDependsOnClass DEF RunEnd, running, WrittenOrMissed, Unset, Body
<1>4. CASE UNCHANGED vars
  BY <1>4, ToInitializeDependsOnClass DEF vars, WrittenOrMissed, Unset, Body
<1> QED
  BY <1>1, <1>2, <1>3, <1>4, StepsOfARun

(* A field that is set twice or may be set in a loop is no concern of      *)
(* ValWrittenOnce, and which fields these are does not change in a run.    *)
LEMMA ValsStay ==
  ASSUME class' = class, constructor' = constructor, position' = position
  PROVE  Vals' = Vals
BY DEF Vals, Repeated, SetTwice, Setters, Body, Written, IsThis

(* A loop that begins again assigns only fields that are Repeated.         *)
LEMMA LoopsAssignRepeated ==
  ASSUME TypeInv, pc \in 1..Len(Body),
         NEW o \in 1..(pc - 1), Body[o].op = "for",
         Closing(Body, o, {"again"}) = pc
  PROVE  Written(Body, o, pc) \subseteq Repeated
<1>1. o \in DOMAIN Body
  BY BodyTyped
<1> QED
  BY <1>1 DEF Repeated

(* A field's only assignment is reached while the field is unset: the      *)
(* check let it pass, so nothing above assigns the field.                  *)
LEMMA NotWrittenAheadStep ==
  ASSUME TypeInv, CheckedSoFar, NotWrittenAhead, [Next]_vars
  PROVE  NotWrittenAhead'
<1> SUFFICES ASSUME phase' \in {"run", "done"}, NEW f \in Vals'
             PROVE  /\ writes'[f] <= 1
                    /\ f \in UninitAt(constructor, pc)' => writes'[f] = 0
  BY DEF NotWrittenAhead
<1>1. CASE StartRun
  <2>1. /\ f \in class.fields
        /\ ~(f \in class.initialized /\ f \in Setters(constructor'))
    BY <1>1, Started DEF Vals, SetTwice, Setters
  <2>2. UninitAt(constructor, pc)' \subseteq ToInitialize(constructor')
    BY <1>1, Started, AcceptedDependsOnClass DEF UninitAt
  <2> QED
    BY <1>1, <2>1, <2>2, Started DEF ToInitialize
<1>2. CASE /\ phase = "run"
           /\ RunAssign \/ RunPlain \/ RunIf \/ RunElse \/ RunFor \/ RunAgain
                \/ RunReturn
  <2>1. /\ class' = class /\ constructor' = constructor /\ position' = position
        /\ Body' = Body /\ phase = "run"
        /\ pc \in Nat \ {0} /\ Len(Body) \in Nat /\ pc \in 1..Len(Body)
    BY <1>2, RunSteps, BodyTyped
  <2>2. /\ constructor \in DOMAIN class.constructors /\ constructor = position
        /\ Body = BodyAt(constructor)
        /\ errors = {}
    BY <2>1, ClassFacts, BodyTyped DEF TypeInv
  <2>3. /\ f \in Vals /\ f \in class.fields
        /\ f \notin class.mutable /\ f \notin Repeated
    BY <2>1, ValsStay DEF Vals
  <2>4. /\ writes[f] <= 1 /\ writes[f] \in Nat
        /\ f \in UninitAt(constructor, pc) => writes[f] = 0
    BY <2>1, <2>3 DEF NotWrittenAhead, TypeInv
  <2>5. UninitAt(constructor, pc)' = UninitAt(constructor, pc')
    BY <2>1, AcceptedDependsOnClass
  <2>6. ASSUME pc' \in Nat, pc' > pc
        PROVE  UninitAt(constructor, pc') \subseteq UninitAt(constructor, pc)
    BY <2>1, <2>6, WrittenMore DEF UninitAt
  <2>7. CASE RunAssign
    <3>1. CASE Now.f = f /\ IsThis(Now.obj)
      <4>1. Accepted(constructor, pc)
        BY <2>1, <2>2 DEF CheckedSoFar, Passed
      <4>2. Now = BodyAt(constructor)[pc] /\ Now.op = "assign"
        BY <2>2, <2>7, AssignStep DEF Now
      <4>3. f \in UninitAt(constructor, pc)
        BY <2>3, <3>1, <4>1, <4>2 DEF Accepted
      <4>4. Written(BodyAt(constructor), 1, pc) =
              Written(BodyAt(constructor), 1, pc - 1) \cup {f}
        <5>1. Written(BodyAt(constructor), 1, pc) =
                Written(BodyAt(constructor), 1, pc - 1) \cup
                  (IF Now.op = "assign" /\ IsThis(Now.obj) THEN {Now.f} ELSE {})
          BY <2>1, <4>2, WrittenStep
        <5> QED
          BY <3>1, <4>2, <5>1
      <4>5. pc' = pc + 1 /\ f \notin UninitAt(constructor, pc + 1)
        BY <2>1, <2>7, <4>4, AssignStep DEF UninitAt
      <4>6. writes'[f] \in {0, 1}
        BY <2>3, <2>4, <2>7, <4>3, AssignStep
      <4> QED
        BY <2>5, <4>5, <4>6
    <3>2. CASE ~(Now.f = f /\ IsThis(Now.obj))
      <4>1. writes'[f] = writes[f] /\ pc' = pc + 1
        BY <2>3, <2>7, <3>2, AssignStep
      <4> QED
        BY <2>1, <2>4, <2>5, <2>6, <4>1
    <3> QED
      BY <3>1, <3>2
  <2>8. CASE writes' = writes /\ pc' \in (pc + 1)..(Len(Body) + 1)
    BY <2>1, <2>4, <2>5, <2>6, <2>8
  <2>9. CASE /\ writes' = writes /\ Now.op = "again"
             /\ Opening(Body, pc) \in 1..(pc - 1)
             /\ Body[Opening(Body, pc)].op = "for"
             /\ Closing(Body, Opening(Body, pc), {"again"}) = pc
             /\ pc' = Opening(Body, pc) + 1
    <3> DEFINE o == Opening(Body, pc)
    <3>1. f \notin Written(Body, o, pc)
      BY <2>1, <2>3, <2>9, LoopsAssignRepeated
    <3>2. Written(Body, 1, pc) = Written(Body, 1, o - 1) \cup Written(Body, o, pc)
      <4>1. o \in Nat \ {0} /\ o <= pc + 1 /\ pc \in Nat /\ pc <= Len(Body)
        BY <2>1, <2>9
      <4> HIDE DEF o
      <4> QED
        BY <4>1, WrittenSkip
    <3>3. /\ Written(Body, 1, pc - 1) \subseteq Written(Body, 1, pc)
          /\ Written(Body, 1, o - 1) \subseteq Written(Body, 1, pc' - 1)
      BY <2>1, <2>9, WrittenMore
    <3>4. f \in UninitAt(constructor, pc') => f \in UninitAt(constructor, pc)
      BY <2>2, <3>1, <3>2, <3>3 DEF UninitAt
    <3> QED
      BY <2>4, <2>5, <2>9, <3>4
  <2>10. CASE pc' = pc + 1 /\ writes' = writes
    BY <2>1, <2>4, <2>5, <2>6, <2>10
  <2> QED
    BY <1>2, <2>7, <2>8, <2>9, <2>10, RunSteps
<1>3. CASE RunEnd \/ UNCHANGED vars
  <2>1. /\ class' = class /\ constructor' = constructor /\ position' = position
        /\ phase \in {"run", "done"} /\ pc' = pc /\ writes' = writes
    BY <1>3 DEF RunEnd, running, vars
  <2>2. f \in Vals /\ UninitAt(constructor, pc)' = UninitAt(constructor, pc)
    BY <2>1, ValsStay, AcceptedDependsOnClass
  <2> QED
    BY <2>1, <2>2 DEF NotWrittenAhead
<1> QED
  BY <1>1, <1>2, <1>3, StepsOfARun

-----------------------------------------------------------------------------
(* The theorems.                                                           *)

THEOREM InductiveInvariant == Spec => []IInv
<1>1. Init => IInv
  BY TypeInit, CheckedInit DEF Init, IInv, WrittenOrMissed, NotWrittenAhead
<1>2. IInv /\ [Next]_vars => IInv'
  BY TypeStep, CheckedStep, WrittenOrMissedStep, NotWrittenAheadStep DEF IInv
<1> QED
  BY <1>1, <1>2, PTL DEF Spec

(* An accepted constructor uses or leaves behind an unset field only if    *)
(* the path it took missed an assignment: for every class and body, the    *)
(* order of statements and the kinds of objects are checked right, and     *)
(* branches, loops and returns are all that is not (expr.rs, get and       *)
(* assignment; generate.rs, check_no_uninitialized).                       *)
THEOREM UnsetOnlyIfMissedHolds == Spec => []UnsetOnlyIfMissed
<1>1. IInv => UnsetOnlyIfMissed
  <2> SUFFICES ASSUME IInv, phase \in {"run", "done"}
               PROVE  UnsetOnlyIfMissed
    BY DEF UnsetOnlyIfMissed, ReadNow
  <2> USE DEF IInv
  <2>1. /\ constructor \in DOMAIN class.constructors /\ constructor = position
        /\ Body = BodyAt(constructor) /\ DOMAIN Body = 1..Len(Body)
        /\ Len(Body) \in Nat
    BY ClassFacts, BodyTyped DEF TypeInv
  <2>2. Passed(constructor)
    BY <2>1 DEF CheckedSoFar, TypeInv
  <2>3. ASSUME NEW f \in Unset, f \notin missed
        PROVE  f \in UninitAt(constructor, pc)
    BY <2>1, <2>3 DEF WrittenOrMissed, UninitAt, Unset
  <2>4. CASE phase = "done"
    <3>1. UninitAt(constructor, pc) = {}
      BY <2>1, <2>2, <2>4 DEF Passed, TypeInv
    <3> QED
      BY <2>3, <2>4, <3>1 DEF UnsetOnlyIfMissed, ReadNow
  <2>5. CASE phase = "run"
    <3>1. ASSUME NEW f \in Unset \cap ReadNow, f \notin missed
          PROVE  FALSE
      <4>1. pc \in 1..Len(Body) /\ pc \in Nat \ {0} /\ f \in UninitAt(constructor, pc)
        BY <2>1, <2>3, <3>1 DEF ReadNow
      <4>2. Accepted(constructor, pc) /\ Now = BodyAt(constructor)[pc]
        BY <2>1, <2>2, <4>1 DEF Passed, Now
      <4>3. CASE Now.op = "read"
        BY <3>1, <4>1, <4>2, <4>3 DEF ReadNow, Accepted
      <4>4. CASE Now.op = "method"
        BY <3>1, <4>1, <4>2, <4>4 DEF ReadNow, Accepted
      <4>5. CASE Now.op = "assign"
        <5>1. f = Now.value /\ f # Now.f /\ f \notin UninitAt(constructor, pc + 1)
          BY <2>1, <2>5, <3>1, <4>1, <4>2, <4>5 DEF ReadNow, Accepted
        <5>2. Written(BodyAt(constructor), 1, pc)
                \subseteq Written(BodyAt(constructor), 1, pc - 1) \cup {Now.f}
          <6>1. Written(BodyAt(constructor), 1, pc) =
                  Written(BodyAt(constructor), 1, pc - 1) \cup
                    (IF Now.op = "assign" /\ IsThis(Now.obj) THEN {Now.f} ELSE {})
            BY <4>1, <4>2, WrittenStep
          <6> QED
            BY <6>1
        <5>3. pc + 1 - 1 = pc
          BY <4>1
        <5> QED
          BY <4>1, <5>1, <5>2, <5>3 DEF UninitAt
      <4> QED
        BY <2>1, <3>1, <4>1, <4>3, <4>4, <4>5 DEF ReadNow
    <3> QED
      BY <2>5, <3>1 DEF UnsetOnlyIfMissed
  <2> QED
    BY <2>4, <2>5
<1> QED
  BY <1>1, InductiveInvariant, PTL

(* A val field is written at most once by an accepted constructor, in any  *)
(* class, unless a loop repeats the assignment or a setter parameter sets  *)
(* a field with an initializer (E200, expr.rs assignment).                 *)
THEOREM ValWrittenOnceHolds == Spec => []ValWrittenOnce
<1>1. IInv => ValWrittenOnce
  BY DEF IInv, NotWrittenAhead, Vals, ValWrittenOnce
<1> QED
  BY <1>1, InductiveInvariant, PTL

=============================================================================
