---------------------------- MODULE Constructors ----------------------------
(***************************************************************************)
(* Definite initialization in constructors of gelixrs: the GIR generator   *)
(* goes through the constructors of a class once, in the order of the      *)
(* text, with the set of fields that are not initialized yet, and what it  *)
(* accepts is run: new-instance sets the fields with an initializer, the   *)
(* setter parameters come next, then the body, in which branches are       *)
(* skipped and loops repeated.                                             *)
(* A body is a flat sequence of statements; "if" .. "else" .. "end" and    *)
(* "for" .. "again" are brackets around branches and loop bodies.  A field *)
(* is its name: that is how Field compares.                                *)
(***************************************************************************)
EXTENDS Integers, Sequences, FiniteSets, FiniteSetsExt, Functions

CONSTANTS
    Classes,    \* [fields, initialized, mutable: sets of fields; constructors:
                \*  sequence of [setters: sequence of fields, body]; method: body]
    MaxWrites   \* a loop does not begin again once a field has that many writes

VARIABLES
    class,          \* the class that is compiled
    position,       \* what is generated: index of a constructor, 0: a method
    pc,             \* statement of its body that comes next
    uninitialized,  \* uninitialized_this_fields
    errors,         \* [in, code]: errors reported
    phase,          \* "check", "rejected", "run" or "done"
    constructor,    \* the constructor that runs
    writes,         \* field -> how often it has been written in this object
    missed          \* history: fields that a statement accepted as a write of
                    \* this.f has not written: passed over, or another object's

vars == <<class, position, pc, uninitialized, errors, phase, constructor,
          writes, missed>>
running == <<constructor, writes, missed>>

(* Statements.  An object is this, another local variable, or the value of *)
(* any other expression ("nested").                                        *)
Assign(obj, f, value) == [op |-> "assign", obj |-> obj, f |-> f, value |-> value]
Read(obj, f)          == [op |-> "read", obj |-> obj, f |-> f]
Mark(op)              == [op |-> op]
NoField == "none"

(* Where the statement is closed that is open at i: one level down.        *)
Level(body, i) ==
    Cardinality({j \in 1..i : body[j].op \in {"if", "for"}})
    - Cardinality({j \in 1..(i - 1) : body[j].op \in {"end", "again"}})
Closing(body, i, ops) ==
    Min({j \in (i + 1)..Len(body) :
            body[j].op \in ops /\ Level(body, j) = Level(body, i)})
Opening(body, i) ==
    Max({j \in 1..(i - 1) :
            body[j].op = "for" /\ Level(body, j) = Level(body, i)})

(* A body is what the parser makes of a syntax tree: its brackets match.   *)
BracketsMatch(body) == \A i \in DOMAIN body :
    /\ body[i].op = "if"   => Closing(body, i, {"else"}) \in (i + 1)..Len(body)
    /\ body[i].op = "else" => Closing(body, i, {"end"}) \in (i + 1)..Len(body)
    /\ body[i].op = "for"  => Closing(body, i, {"again"}) \in (i + 1)..Len(body)
    /\ body[i].op = "again" =>
           /\ Opening(body, i) \in 1..(i - 1)
           /\ body[Opening(body, i)].op = "for"
           /\ Closing(body, Opening(body, i), {"again"}) = i

Statement(fields) ==
    [op: {"assign"}, obj: {"this", "other", "nested"}, f: fields,
     value: fields \cup {NoField}]
    \cup [op: {"read"}, obj: {"this", "other", "nested"}, f: fields]
    \cup [op: {"method", "return", "if", "else", "end", "for", "again"}]
BodyOf(fields, body) == body \in Seq(Statement(fields)) /\ BracketsMatch(body)

ASSUME ClassesAssumption == \A c \in Classes :
    /\ c.initialized \subseteq c.fields /\ c.mutable \subseteq c.fields
    /\ DOMAIN c.constructors = 1..Len(c.constructors) /\ c.constructors # <<>>
    /\ \A i \in DOMAIN c.constructors :
           /\ c.constructors[i].setters \in Seq(c.fields)
           /\ BodyOf(c.fields, c.constructors[i].body)
    /\ BodyOf(c.fields, c.method)

Body == IF position = 0 THEN class.method ELSE class.constructors[position].body
Now  == Body[pc]
AtStatement(p, op) == phase = p /\ pc \in DOMAIN Body /\ Now.op = op

-----------------------------------------------------------------------------
(* Checking.                                                               *)

(* The parameters without a type, each of which sets its field.            *)
Setters(i) == Range(class.constructors[i].setters)
(* set_uninitialized_members.                                              *)
ToInitialize(i) == class.fields \ (class.initialized \cup Setters(i))

Report(codes) == errors' = errors \cup {[in |-> position, code |-> c] : c \in codes}
Step == pc' = pc + 1 /\ UNCHANGED <<class, position, phase, constructor>>

(* get with allow_uninit: a local variable that is not the first parameter *)
(* is not this, but any other expression passes for it.                    *)
IsThis(obj) == obj # "other"
(* The fields that the statements from..to are taken to assign.            *)
Written(body, from, to) == {body[j].f : j \in {k \in from..to :
                                body[k].op = "assign" /\ IsThis(body[k].obj)}}
(* Mutant: every assignment is allowed, as a first one.                    *)
WasUninitAlways(s) == TRUE
(* Whether the field was uninitialized, as the assignment is told.         *)
WasUninit(s) == ~IsThis(s.obj) \/ s.f \in uninitialized
(* Mutant: the field is removed before the object is looked at.            *)
AfterGetSwapped(s) == uninitialized \ {s.f}
AfterGet(s) == IF IsThis(s.obj) THEN uninitialized \ {s.f} ELSE uninitialized

(* The location is looked at before the value.                             *)
CheckAssign ==
    /\ AtStatement("check", "assign") /\ Step
    /\ uninitialized' = AfterGet(Now)
    /\ Report((IF Now.value \in AfterGet(Now) THEN {"E222"} ELSE {})
              \cup (IF WasUninit(Now) \/ Now.f \in class.mutable
                    THEN {} ELSE {"E200"}))
    /\ UNCHANGED <<writes, missed>>

(* get: the field alone decides, whichever object it is read from.         *)
CheckRead ==
    /\ AtStatement("check", "read") /\ Step
    /\ Report(IF Now.f \in uninitialized THEN {"E222"} ELSE {})
    /\ UNCHANGED <<uninitialized, writes, missed>>

CheckMethodCall ==
    /\ AtStatement("check", "method") /\ Step
    /\ Report(IF uninitialized # {} THEN {"E203"} ELSE {})
    /\ UNCHANGED <<uninitialized, writes, missed>>

(* Branches, loops and returns leave the set alone.                        *)
CheckOther ==
    /\ AtStatement("check", Now.op) /\ Step
    /\ Now.op \notin {"assign", "read", "method"}
    /\ UNCHANGED <<uninitialized, errors, writes, missed>>

(* check_no_uninitialized, then the next constructor or, after the set has *)
(* been cleared, the methods.                                              *)
CheckEnd ==
    /\ phase = "check" /\ position # 0 /\ pc > Len(Body)
    /\ Report(IF uninitialized # {} THEN {"E309"} ELSE {})
    /\ IF position < Len(class.constructors)
       THEN position' = position + 1 /\ uninitialized' = ToInitialize(position + 1)
       ELSE position' = 0 /\ uninitialized' = {}
    /\ pc' = 1
    /\ UNCHANGED <<class, phase, running>>

-----------------------------------------------------------------------------
(* Running what was accepted.                                              *)
StartRun ==
    /\ phase = "check" /\ position = 0 /\ pc > Len(Body)
    /\ IF errors # {}
       THEN phase' = "rejected" /\ UNCHANGED <<position, pc, running>>
       ELSE \E i \in DOMAIN class.constructors :
            /\ phase' = "run" /\ position' = i /\ constructor' = i /\ pc' = 1
            /\ writes' = [f \in class.fields |->
                             (IF f \in class.initialized THEN 1 ELSE 0)
                             + (IF f \in Setters(i) THEN 1 ELSE 0)]
            /\ UNCHANGED missed
    /\ UNCHANGED <<class, uninitialized, errors>>


(* Control goes to the statement behind 'to'; the writes between are       *)
(* passed over.                                                            *)
SkipTo(to) ==
    /\ pc' = to + 1
    /\ missed' = missed \cup Written(Body, pc, to)
    /\ UNCHANGED <<class, position, uninitialized, errors, phase, constructor, writes>>
Continue ==
    pc' = pc + 1 /\ UNCHANGED <<class, position, uninitialized, errors, phase, constructor>>

RunAssign ==
    /\ AtStatement("run", "assign") /\ Continue
    /\ IF Now.obj = "this"
       THEN writes' = [writes EXCEPT ![Now.f] = @ + 1] /\ UNCHANGED missed
       ELSE /\ missed' = IF IsThis(Now.obj) THEN missed \cup {Now.f} ELSE missed
            /\ UNCHANGED writes

RunPlain == /\ AtStatement("run", Now.op)
            /\ Now.op \in {"read", "method", "end"}
            /\ Continue /\ UNCHANGED <<writes, missed>>

RunIf ==
    /\ AtStatement("run", "if")
    /\ \/ Continue /\ UNCHANGED <<writes, missed>>
       \/ SkipTo(Closing(Body, pc, {"else"}))
RunElse == AtStatement("run", "else") /\ SkipTo(Closing(Body, pc, {"end"}))
RunFor ==
    /\ AtStatement("run", "for")
    /\ \/ Continue /\ UNCHANGED <<writes, missed>>
       \/ SkipTo(Closing(Body, pc, {"again"}))
(* The loop ends after its body or begins another time.                    *)
RunAgain ==
    /\ AtStatement("run", "again")
    /\ \/ Continue /\ UNCHANGED <<writes, missed>>
       \/ /\ \A f \in class.fields : writes[f] < MaxWrites
          /\ pc' = Opening(Body, pc) + 1
          /\ UNCHANGED <<class, position, uninitialized, errors, phase, running>>
RunReturn == AtStatement("run", "return") /\ SkipTo(Len(Body))

RunEnd ==
    /\ phase = "run" /\ pc > Len(Body)
    /\ phase' = "done"
    /\ UNCHANGED <<class, position, pc, uninitialized, errors, running>>

-----------------------------------------------------------------------------
Init ==
    /\ class \in Classes
    /\ position = 1 /\ pc = 1
    /\ uninitialized = ToInitialize(1)
    /\ errors = {} /\ phase = "check"
    /\ constructor = 0 /\ missed = {}
    /\ writes = [f \in class.fields |-> 0]

Next ==
    \/ CheckAssign \/ CheckRead \/ CheckMethodCall \/ CheckOther \/ CheckEnd
    \/ StartRun \/ RunAssign \/ RunPlain \/ RunIf \/ RunElse \/ RunFor
    \/ RunAgain \/ RunReturn \/ RunEnd

Spec == Init /\ [][Next]_vars

-----------------------------------------------------------------------------
(* Properties.                                                             *)

Unset == {f \in class.fields : writes[f] = 0}
(* The field that the next statement reads from this.                      *)
ReadNow ==
    IF phase # "run" \/ pc \notin DOMAIN Body THEN {}
    ELSE CASE Now.op = "read" /\ Now.obj = "this" -> {Now.f}
           [] Now.op = "method" -> class.fields
           [] Now.op = "assign" /\ Now.value # Now.f -> {Now.value}
           [] OTHER -> {}

(* An accepted constructor reads, hands to a method or leaves behind an    *)
(* unset field only if control passed over a statement that assigns it, or *)
(* the statement assigned that field of another object.  (A field that is  *)
(* read in its own first assignment is the third way, left out here.)      *)
UnsetOnlyIfMissed ==
    /\ Unset \cap ReadNow \subseteq missed
    /\ phase = "done" => Unset \subseteq missed

(* Fields that a loop may assign several times, and fields that have a      *)
(* value before a setter parameter sets them again.                        *)
Repeated == UNION {Written(Body, i, Closing(Body, i, {"again"})) :
                       i \in {k \in DOMAIN Body : Body[k].op = "for"}}
SetTwice == class.initialized \cap Setters(constructor)

(* A field declared with val is written once in an accepted constructor,   *)
(* in whatever order initializer, setters, reads and assignments come, and *)
(* wherever control leaves, unless it is one of these two kinds of fields. *)
ValWrittenOnce ==
    phase \in {"run", "done"} =>
        \A f \in class.fields \ (class.mutable \cup Repeated \cup SetTwice) :
            writes[f] <= 1

(* "It is not valid for a constructor to leave a class member              *)
(* uninitialized - if it does, gelix will produce a compile error."        *)
(* (docs/src/classes.md)                                                   *)
ConstructorsInitialize == phase = "done" => Unset = {}
=============================================================================
