-------------------------- MODULE Worklist_proofs --------------------------
(***************************************************************************)
(* Proofs about the monomorphisation worklist, for every program, standard *)
(* library and number of compilations: its types, that every instance is   *)
(* declared and generated once, and that its steps are those of the        *)
(* abstract specification Monomorphisation.                                *)
(***************************************************************************)
EXTENDS Worklist, SequenceTheorems, FiniteSetTheorems, TLAPS

-----------------------------------------------------------------------------
(* The types of the state.                                                 *)

(* Type arguments of what is generated: none is a type parameter itself.   *)
Concrete == {args \in Seq(Types) : \A j \in DOMAIN args : args[j].k # "var"}

Intrinsics == {SizeOf, FreeType}

AnyTask ==
  Items \cup [op: {"push"}, args: Concrete] \cup [op: {"pop", "left"}]
  \cup [op: {"built"}, a: ADTs, args: Concrete, for: Concrete]
  \cup [op: {"queue"}, f: Functions, args: Concrete]
  \cup [op: {"declare", "generate"}, f: Functions]
  \cup [op: {"set"}, f: Functions \ Generic]
  \cup [op: {"free"}, t: Types]

Tasks == {t \in AnyTask : t.op \in {"call", "queue"} /\ t.f \in Intrinsics
                              => t.args # <<>>}

TypeInv ==
  /\ program \in Programs
  /\ module \in 1..MaxModules
  /\ DOMAIN ir = Functions
  /\ \A f \in Functions : /\ DOMAIN ir[f] \subseteq Concrete
                          /\ IsFiniteSet(DOMAIN ir[f])
                          /\ f \notin Generic => DOMAIN ir[f] \subseteq {<<>>}
                          /\ f \in Intrinsics => <<>> \notin DOMAIN ir[f]
  /\ DOMAIN structs = ADTs
  /\ functions_left \in Seq([f: Functions, args: Concrete])
  /\ type_args \in Seq(Concrete)
  /\ todo \in Seq(Tasks)
  /\ generated \subseteq [f: Functions, args: Concrete]
  /\ status \in {"running", "done", "crashed"}

-----------------------------------------------------------------------------
(* Lemmas about the operators.                                             *)

LEMMA TaskFields ==
  ASSUME NEW t \in Tasks
  PROVE  /\ t.op = "type" => t = TypeOf(t.t) /\ t.t \in Types
         /\ t.op = "call" => /\ t = Callee(t.f, t.args)
                             /\ t.f \in Functions /\ t.args \in Seq(Types)
                             /\ t.f \in Intrinsics => t.args # <<>>
         /\ t.op = "bound" => t = BoundMethod(t.i) /\ t.i \in Nat \ {0}
         /\ t.op = "push" => t.args \in Concrete
         /\ t.op = "built" => t.a \in ADTs /\ t.args \in Concrete
         /\ t.op = "queue" => /\ t.f \in Functions /\ t.args \in Concrete
                              /\ t.f \in Intrinsics => t.args # <<>>
         /\ t.op \in {"declare", "set", "generate"} => t.f \in Functions
         /\ t.op = "set" => t.f \notin Generic
         /\ t.op \in {"pop", "left"} => t = Op(t.op)
         /\ t.op = "free" => t.t \in Types
         /\ t.op \in {"type", "call", "bound", "push", "pop", "built", "queue",
                      "declare", "set", "generate", "left", "free"}
BY DEF Tasks, AnyTask, Items, TypeOf, Callee, BoundMethod, Op

LEMMA TasksMade ==
  /\ \A t \in Types : TypeOf(t) \in Tasks /\ [op |-> "free", t |-> t] \in Tasks
  /\ \A args \in Concrete : Push(args) \in Tasks
  /\ Op("pop") \in Tasks /\ Op("left") \in Tasks
  /\ \A a \in ADTs, args \in Concrete, x \in Concrete :
        [op |-> "built", a |-> a, args |-> args, for |-> x] \in Tasks
  /\ \A f \in Functions, args \in Concrete :
        (f \in Intrinsics => args # <<>>)
          => [op |-> "queue", f |-> f, args |-> args] \in Tasks
  /\ \A f \in Functions, op \in {"declare", "generate"} :
        [op |-> op, f |-> f] \in Tasks
  /\ \A f \in Functions \ Generic : [op |-> "set", f |-> f] \in Tasks
BY DEF Tasks, AnyTask, Items, TypeOf, Push, Op

LEMMA ConcreteFacts ==
  /\ <<>> \in Concrete /\ Concrete \subseteq Seq(Types)
  /\ \A args \in Concrete : /\ args \in Seq(Types)
                            /\ \A j \in DOMAIN args : args[j].k # "var"
BY DEF Concrete

(* What takes the first task's place comes before the tasks that are left. *)
LEMMA DoStep ==
  ASSUME todo \in Seq(Tasks), todo # <<>>, NEW ts \in Seq(Tasks), Do(ts)
  PROVE  /\ todo' \in Seq(Tasks)
         /\ Len(todo') = Len(ts) + Len(todo) - 1
         /\ DOMAIN todo' = 1..(Len(ts) + Len(todo) - 1)
         /\ \A i \in 1..Len(ts) : todo'[i] = ts[i]
         /\ \A i \in (Len(ts) + 1)..(Len(ts) + Len(todo) - 1) :
               todo'[i] = todo[i - Len(ts) + 1]
         /\ \A i \in 2..Len(todo) : todo'[i + Len(ts) - 1] = todo[i]
         /\ Len(ts) \in Nat /\ Len(todo) \in Nat \ {0}
         /\ DOMAIN ts = 1..Len(ts) /\ DOMAIN todo = 1..Len(todo)
         /\ Head(todo) = todo[1] /\ Head(todo) \in Tasks
<1>1. /\ Tail(todo) \in Seq(Tasks) /\ Len(Tail(todo)) = Len(todo) - 1
      /\ \A i \in 1..(Len(todo) - 1) : Tail(todo)[i] = todo[i + 1]
      /\ Len(todo) \in Nat \ {0} /\ Len(ts) \in Nat
      /\ DOMAIN ts = 1..Len(ts) /\ DOMAIN todo = 1..Len(todo)
      /\ Head(todo) = todo[1] /\ Head(todo) \in Tasks
  BY HeadTailProperties, LenProperties
<1>2. /\ todo' \in Seq(Tasks) /\ Len(todo') = Len(ts) + Len(todo) - 1
      /\ \A i \in 1..(Len(ts) + Len(todo) - 1) :
            todo'[i] = IF i <= Len(ts) THEN ts[i] ELSE Tail(todo)[i - Len(ts)]
  BY <1>1, ConcatProperties DEF Do
<1>3. DOMAIN todo' = 1..(Len(ts) + Len(todo) - 1)
  BY <1>2
<1>4. \A i \in (Len(ts) + 1)..(Len(ts) + Len(todo) - 1) :
         todo'[i] = todo[i - Len(ts) + 1]
  BY <1>1, <1>2
<1>5. \A i \in 2..Len(todo) : todo'[i + Len(ts) - 1] = todo[i]
  <2> SUFFICES ASSUME NEW i \in 2..Len(todo)
               PROVE  todo'[i + Len(ts) - 1] = todo[i]
    OBVIOUS
  <2>1. /\ i + Len(ts) - 1 \in (Len(ts) + 1)..(Len(ts) + Len(todo) - 1)
        /\ (i + Len(ts) - 1) - Len(ts) + 1 = i
    BY <1>1
  <2> QED
    BY <1>4, <2>1
<1> QED
  BY <1>1, <1>2, <1>3, <1>4, <1>5

LEMMA Concatenated ==
  ASSUME NEW s \in Seq(Tasks), NEW t \in Seq(Tasks)
  PROVE  /\ s \o t \in Seq(Tasks) /\ Len(s \o t) = Len(s) + Len(t)
         /\ Len(s) \in Nat /\ Len(t) \in Nat
         /\ \A i \in 1..Len(s) : (s \o t)[i] = s[i]
         /\ \A i \in (Len(s) + 1)..(Len(s) + Len(t)) : (s \o t)[i] = t[i - Len(s)]
<1>1. Len(s) \in Nat /\ Len(t) \in Nat
  OBVIOUS
<1> QED
  BY <1>1, ConcatProperties

LEMMA FrontProperties ==
  ASSUME NEW S, NEW s \in Seq(S)
  PROVE  /\ Front(s) \in Seq(S)
         /\ s # <<>> => /\ Len(Front(s)) = Len(s) - 1 /\ Len(s) \in Nat \ {0}
                        /\ \A i \in 1..(Len(s) - 1) : Front(s)[i] = s[i]
<1>1. Len(s) \in Nat /\ (s # <<>> => Len(s) # 0)
  OBVIOUS
<1>2. PICK n \in Int : n = Len(s) - 1
  BY <1>1
<1>3. \A i \in 1..n : s[i] \in S
  BY <1>1, <1>2, ElementOfSeq
<1>4. /\ SubSeq(s, 1, n) \in Seq(S)
      /\ Len(SubSeq(s, 1, n)) = IF 1 <= n THEN n - 1 + 1 ELSE 0
      /\ \A i \in 1..(n - 1 + 1) : SubSeq(s, 1, n)[i] = s[1 + i - 1]
  BY <1>3, SubSeqProperties
<1>5. Front(s) = SubSeq(s, 1, n)
  BY <1>2 DEF Front
<1>6. ASSUME s # <<>>
      PROVE  /\ Len(Front(s)) = Len(s) - 1 /\ Len(s) \in Nat \ {0}
             /\ \A i \in 1..(Len(s) - 1) : Front(s)[i] = s[i]
  <2>1. n \in Nat /\ n - 1 + 1 = n /\ Len(s) \in Nat \ {0}
    BY <1>1, <1>2, <1>6
  <2>2. \A i \in 1..n : i \in 1..(n - 1 + 1) /\ 1 + i - 1 = i
    BY <2>1
  <2>3. Len(Front(s)) = n
    <3>1. (IF 1 <= n THEN n - 1 + 1 ELSE 0) = n
      BY ONLY <2>1
    <3> QED
      BY ONLY <1>4, <1>5, <3>1
  <2>4. \A i \in 1..n : Front(s)[i] = s[i]
    BY ONLY <1>4, <1>5, <2>2
  <2> QED
    BY <1>2, <2>1, <2>3, <2>4
<1> QED
  BY <1>4, <1>5, <1>6

LEMMA LowerTyped ==
  ASSUME NEW types \in Seq(Types)
  PROVE  /\ Lower(types) \in Seq(Tasks) /\ Len(Lower(types)) = Len(types)
         /\ \A i \in 1..Len(types) : Lower(types)[i].op = "type"
<1>1. /\ DOMAIN types = 1..Len(types) /\ Len(types) \in Nat
      /\ \A i \in 1..Len(types) : types[i] \in Types
  BY LenProperties, ElementOfSeq
<1>2. /\ Lower(types) = [i \in 1..Len(types) |-> TypeOf(types[i])]
      /\ \A i \in 1..Len(types) : TypeOf(types[i]) \in Tasks
  BY <1>1, TasksMade DEF Lower
<1> QED
  BY <1>1, <1>2 DEF TypeOf

LEMMA LargestExists ==
  ASSUME NEW n \in Nat, NEW S \in SUBSET (1..n), S # {}
  PROVE  Max(S) \in S
<1> DEFINE T == {n - i : i \in S}
<1>1. T \subseteq Nat /\ T # {}
  <2>1. PICK j \in S : TRUE
    OBVIOUS
  <2>2. n - j \in T
    BY <2>1
  <2>3. \A i \in S : n - i \in Nat
    OBVIOUS
  <2> QED
    BY <2>2, <2>3
<1>2. PICK x \in T : \A y \in T : ~ (<<y, x>> \in OpToRel(<, Nat))
  BY <1>1, NatLessThanWellFounded, WFMin
<1>3. PICK i \in S : x = n - i
  OBVIOUS
<1>4. \A j \in S : i >= j
  <2> SUFFICES ASSUME NEW j \in S
               PROVE  i >= j
    OBVIOUS
  <2>1. n - j \in T /\ n - j \in Nat /\ x \in Nat
    BY <1>1
  <2>2. ~(n - j < x)
    BY <1>2, <2>1 DEF OpToRel
  <2> QED
    BY <1>3, <2>2
<1> QED
  BY <1>4 DEF Max

LEMMA InForceConcrete ==
  ASSUME type_args \in Seq(Concrete)
  PROVE  InForce \in Concrete
<1>1. Len(type_args) \in Nat /\ DOMAIN type_args = 1..Len(type_args)
  BY LenProperties
<1>2. CASE Frames = {}
  BY <1>2, ConcreteFacts DEF InForce
<1>3. CASE Frames # {}
  <2>1. Max(Frames) \in Frames
    BY <1>1, <1>3, LargestExists DEF Frames
  <2>2. type_args[Max(Frames)] \in Concrete
    BY <1>1, <2>1, ElementOfSeq DEF Frames
  <2> QED
    BY <1>3, <2>2 DEF InForce, TopFrame
<1> QED
  BY <1>2, <1>3

(* Resolving leaves no type parameter at the top of a type.                *)
LEMMA ResolveConcrete ==
  ASSUME NEW t \in Types, NEW args \in Concrete
  PROVE  Resolve(t, args) \in Types /\ Resolve(t, args).k # "var"
BY TypesAssumption, ConcreteFacts, ElementOfSeq DEF Resolve, NoneType, Base

LEMMA ResolveAllConcrete ==
  ASSUME NEW types \in Seq(Types), NEW args \in Concrete
  PROVE  ResolveAll(types, args) \in Concrete
<1>1. /\ DOMAIN types = 1..Len(types) /\ Len(types) \in Nat
      /\ \A i \in 1..Len(types) : types[i] \in Types
  BY LenProperties, ElementOfSeq
<1>2. \A i \in 1..Len(types) : /\ Resolve(types[i], args) \in Types
                               /\ Resolve(types[i], args).k # "var"
  BY <1>1, ResolveConcrete
<1> QED
  BY <1>1, <1>2 DEF ResolveAll, Concrete

LEMMA ResolveAllKeepsLength ==
  ASSUME NEW types \in Seq(Types), NEW args
  PROVE  types # <<>> => ResolveAll(types, args) # <<>>
<1>1. DOMAIN types = DOMAIN ResolveAll(types, args)
  BY DEF ResolveAll
<1>2. types # <<>> => Len(types) \in Nat \ {0} /\ DOMAIN types = 1..Len(types)
  BY LenProperties, EmptySeq
<1> QED
  BY <1>1, <1>2

LEMMA ProcessArgsConcrete ==
  ASSUME TypeInv, NEW types \in Seq(Types)
  PROVE  /\ ProcessArgs(types) \in Concrete
         /\ types # <<>> => ProcessArgs(types) # <<>>
BY InForceConcrete, ResolveAllConcrete, ResolveAllKeepsLength
   DEF TypeInv, ProcessArgs

(* What declaring a function is made of.                                   *)
LEMMA QueueTyped ==
  ASSUME NEW f \in Functions, NEW args \in Concrete,
         f \in Intrinsics => args # <<>>
  PROVE  LET n == Len(Signature[f])  s == Queue(f, args) IN
         /\ n \in Nat /\ s \in Seq(Tasks) /\ Len(s) = n + 3
         /\ s[1] = Push(args)
         /\ \A i \in 2..(n + 1) : s[i].op = "type"
         /\ s[n + 2] = [op |-> "queue", f |-> f, args |-> args]
         /\ s[n + 3] = Op("pop")
<1> DEFINE low == Lower(Signature[f])  n == Len(Signature[f])
           fst == <<Push(args)>>
           lst == <<[op |-> "queue", f |-> f, args |-> args], Op("pop")>>
<1>1. /\ low \in Seq(Tasks) /\ Len(low) = n /\ n \in Nat
      /\ \A i \in 1..n : low[i].op = "type"
  BY LowerTyped, DeclarationsAssumption, LenProperties
<1>2. /\ fst \in Seq(Tasks) /\ Len(fst) = 1 /\ fst[1] = Push(args)
      /\ lst \in Seq(Tasks) /\ Len(lst) = 2 /\ lst[2] = Op("pop")
      /\ lst[1] = [op |-> "queue", f |-> f, args |-> args]
  BY TasksMade
<1> HIDE DEF low, n, fst, lst
<1>3. /\ fst \o low \in Seq(Tasks) /\ Len(fst \o low) = 1 + n
      /\ \A i \in 1..1 : (fst \o low)[i] = fst[i]
      /\ \A i \in (1 + 1)..(1 + n) : (fst \o low)[i] = low[i - 1]
  <2>1. fst \in Seq(Tasks) /\ low \in Seq(Tasks)
    BY <1>1, <1>2
  <2>2. /\ fst \o low \in Seq(Tasks) /\ Len(fst \o low) = Len(fst) + Len(low)
        /\ \A i \in 1..Len(fst) : (fst \o low)[i] = fst[i]
        /\ \A i \in (Len(fst) + 1)..(Len(fst) + Len(low)) :
              (fst \o low)[i] = low[i - Len(fst)]
    BY <2>1, Concatenated
  <2> QED
    BY <1>1, <1>2, <2>2
<1>4. /\ (fst \o low) \o lst \in Seq(Tasks)
      /\ Len((fst \o low) \o lst) = (1 + n) + 2
      /\ \A i \in 1..(1 + n) : ((fst \o low) \o lst)[i] = (fst \o low)[i]
      /\ \A i \in ((1 + n) + 1)..((1 + n) + 2) :
             ((fst \o low) \o lst)[i] = lst[i - (1 + n)]
  <2>1. (fst \o low) \in Seq(Tasks) /\ lst \in Seq(Tasks)
    BY <1>2, <1>3
  <2>2. /\ (fst \o low) \o lst \in Seq(Tasks) /\ Len((fst \o low) \o lst) = Len(fst \o low) + Len(lst)
        /\ \A i \in 1..Len(fst \o low) : ((fst \o low) \o lst)[i] = (fst \o low)[i]
        /\ \A i \in (Len(fst \o low) + 1)..(Len(fst \o low) + Len(lst)) :
              ((fst \o low) \o lst)[i] = lst[i - Len(fst \o low)]
    BY <2>1, Concatenated
  <2> QED
    BY <1>2, <1>3, <2>2
<1>5. Queue(f, args) = (fst \o low) \o lst
  BY DEF Queue, fst, low, lst
<1>6. LET s == (fst \o low) \o lst IN
         /\ s[1] = Push(args) /\ s[n + 2] = lst[1] /\ s[n + 3] = lst[2]
         /\ \A i \in 2..(n + 1) : s[i].op = "type"
  <2>1. /\ 1 \in 1..1 /\ 1 \in 1..(1 + n) /\ (n + 2) - (1 + n) = 1
        /\ n + 2 \in ((1 + n) + 1)..((1 + n) + 2) /\ (n + 3) - (1 + n) = 2
        /\ n + 3 \in ((1 + n) + 1)..((1 + n) + 2)
    BY <1>1
  <2>2. \A i \in 2..(n + 1) : /\ i \in (1 + 1)..(1 + n) /\ i \in 1..(1 + n)
                              /\ i - 1 \in 1..n
    BY <1>1
  <2> DEFINE s == (fst \o low) \o lst
  <2>3. s[1] = Push(args)
    BY <1>2, <1>3, <1>4, <2>1
  <2>4. s[n + 2] = lst[1] /\ s[n + 3] = lst[2]
    BY <1>4, <2>1
  <2>5. \A i \in 2..(n + 1) : s[i].op = "type"
    BY <1>1, <1>3, <1>4, <2>2
  <2> QED
    BY <2>3, <2>4, <2>5
<1>7. PICK s : s = (fst \o low) \o lst
  OBVIOUS
<1>8. /\ n \in Nat /\ s \in Seq(Tasks) /\ s = Queue(f, args)
      /\ s[1] = Push(args) /\ \A i \in 2..(n + 1) : s[i].op = "type"
      /\ s[n + 2] = [op |-> "queue", f |-> f, args |-> args]
      /\ s[n + 3] = Op("pop")
  BY <1>1, <1>2, <1>4, <1>5, <1>6, <1>7
<1>9. Len(s) = n + 3
  BY <1>1, <1>4, <1>7
<1> QED
  BY <1>8, <1>9 DEF n

(* What building an ADT is made of: types lowered between a push and a     *)
(* pop, twice.                                                             *)
LEMMA BuildTyped ==
  ASSUME NEW a \in ADTs, NEW args \in Concrete, TypeInv
  PROVE  LET n == Len(Layout[a])  s == Build(a, args) IN
         /\ n \in Nat /\ s \in Seq(Tasks) /\ Len(s) = 2 * n + 5
         /\ s[1] = Push(args) /\ s[n + 3] = Push(args)
         /\ \A i \in 2..(n + 1) : s[i].op = "type"
         /\ \A i \in (n + 4)..(2 * n + 3) : s[i].op = "type"
         /\ s[n + 2] = Op("pop") /\ s[2 * n + 4] = Op("pop")
         /\ s[2 * n + 5].op = "built"
<1> DEFINE low == Lower(Layout[a])  n == Len(Layout[a])
           fst == <<Push(args)>>  pop == <<Op("pop")>>
           once == (fst \o low) \o pop  lst == <<Built(a, args)>>
<1>1. /\ low \in Seq(Tasks) /\ Len(low) = n /\ n \in Nat
      /\ \A i \in 1..n : low[i].op = "type"
  BY LowerTyped, DeclarationsAssumption, LenProperties
<1>2. /\ fst \in Seq(Tasks) /\ Len(fst) = 1 /\ fst[1] = Push(args)
      /\ pop \in Seq(Tasks) /\ Len(pop) = 1 /\ pop[1] = Op("pop")
  BY TasksMade
<1>3. /\ lst \in Seq(Tasks) /\ Len(lst) = 1 /\ lst[1].op = "built"
  <2>1. InForce \in Concrete
    BY InForceConcrete DEF TypeInv
  <2> DEFINE x == IF a \in Generic /\ args = <<>> THEN InForce ELSE args
  <2>2. x \in Concrete /\ Built(a, args) = [op |-> "built", a |-> a, args |-> args, for |-> x]
    BY <2>1 DEF Built
  <2>3. Built(a, args) \in Tasks /\ Built(a, args).op = "built"
    BY <2>2, TasksMade
  <2> QED
    BY <2>3
<1>4. Build(a, args) = (once \o once) \o lst
  BY DEF Build
<1> HIDE DEF low, n, fst, pop, lst
<1>5. /\ fst \o low \in Seq(Tasks) /\ Len(fst \o low) = 1 + n
      /\ \A i \in 1..1 : (fst \o low)[i] = fst[i]
      /\ \A i \in (1 + 1)..(1 + n) : (fst \o low)[i] = low[i - 1]
  <2>1. fst \in Seq(Tasks) /\ low \in Seq(Tasks)
    BY <1>1, <1>2
  <2>2. /\ fst \o low \in Seq(Tasks) /\ Len(fst \o low) = Len(fst) + Len(low)
        /\ \A i \in 1..Len(fst) : (fst \o low)[i] = fst[i]
        /\ \A i \in (Len(fst) + 1)..(Len(fst) + Len(low)) :
              (fst \o low)[i] = low[i - Len(fst)]
    BY <2>1, Concatenated
  <2> QED
    BY <1>1, <1>2, <2>2
<1>6. /\ once \in Seq(Tasks) /\ Len(once) = (1 + n) + 1
      /\ \A i \in 1..(1 + n) : once[i] = (fst \o low)[i]
      /\ \A i \in ((1 + n) + 1)..((1 + n) + 1) : once[i] = pop[i - (1 + n)]
  <2>1. (fst \o low) \in Seq(Tasks) /\ pop \in Seq(Tasks)
    BY <1>2, <1>5
  <2>2. /\ (fst \o low) \o pop \in Seq(Tasks) /\ Len((fst \o low) \o pop) = Len(fst \o low) + Len(pop)
        /\ \A i \in 1..Len(fst \o low) : ((fst \o low) \o pop)[i] = (fst \o low)[i]
        /\ \A i \in (Len(fst \o low) + 1)..(Len(fst \o low) + Len(pop)) :
              ((fst \o low) \o pop)[i] = pop[i - Len(fst \o low)]
    BY <2>1, Concatenated
  <2> QED
    BY <1>2, <1>5, <2>2 DEF once
<1>7. /\ once[1] = Push(args) /\ once[n + 2] = Op("pop") /\ Len(once) = n + 2
      /\ \A i \in 2..(n + 1) : once[i].op = "type"
  BY <1>1, <1>2, <1>5, <1>6
<1> HIDE DEF once
<1>8. /\ once \o once \in Seq(Tasks)
      /\ Len(once \o once) = (n + 2) + (n + 2)
      /\ \A i \in 1..(n + 2) : (once \o once)[i] = once[i]
      /\ \A i \in ((n + 2) + 1)..((n + 2) + (n + 2)) :
            (once \o once)[i] = once[i - (n + 2)]
  <2>1. once \in Seq(Tasks) /\ once \in Seq(Tasks)
    BY <1>6
  <2>2. /\ once \o once \in Seq(Tasks) /\ Len(once \o once) = Len(once) + Len(once)
        /\ \A i \in 1..Len(once) : (once \o once)[i] = once[i]
        /\ \A i \in (Len(once) + 1)..(Len(once) + Len(once)) :
              (once \o once)[i] = once[i - Len(once)]
    BY <2>1, Concatenated
  <2> QED
    BY <1>7, <2>2
<1>9. LET s == (once \o once) \o lst IN
      /\ s \in Seq(Tasks) /\ Len(s) = ((n + 2) + (n + 2)) + 1
      /\ \A i \in 1..((n + 2) + (n + 2)) : s[i] = (once \o once)[i]
      /\ \A i \in (((n + 2) + (n + 2)) + 1)..(((n + 2) + (n + 2)) + 1) :
            s[i] = lst[i - ((n + 2) + (n + 2))]
  <2>1. (once \o once) \in Seq(Tasks) /\ lst \in Seq(Tasks)
    BY <1>3, <1>8
  <2>2. /\ (once \o once) \o lst \in Seq(Tasks) /\ Len((once \o once) \o lst) = Len(once \o once) + Len(lst)
        /\ \A i \in 1..Len(once \o once) : ((once \o once) \o lst)[i] = (once \o once)[i]
        /\ \A i \in (Len(once \o once) + 1)..(Len(once \o once) + Len(lst)) :
              ((once \o once) \o lst)[i] = lst[i - Len(once \o once)]
    BY <2>1, Concatenated
  <2> QED
    BY <1>3, <1>8, <2>2
<1>10. LET s == (once \o once) \o lst IN
      /\ \A i \in 1..(n + 2) : s[i] = once[i]
      /\ \A i \in (n + 3)..(2 * n + 4) : s[i] = once[i - (n + 2)]
      /\ s[2 * n + 5] = lst[1] /\ Len(s) = 2 * n + 5
  BY <1>1, <1>8, <1>9
<1>11. LET s == (once \o once) \o lst IN
      /\ s[1] = Push(args) /\ s[n + 3] = Push(args)
      /\ \A i \in 2..(n + 1) : s[i].op = "type"
      /\ \A i \in (n + 4)..(2 * n + 3) : s[i].op = "type"
      /\ s[n + 2] = Op("pop") /\ s[2 * n + 4] = Op("pop")
      /\ s[2 * n + 5].op = "built"
  BY <1>1, <1>3, <1>7, <1>10
<1> QED
  BY <1>1, <1>4, <1>9, <1>10, <1>11 DEF n

-----------------------------------------------------------------------------
(* The kinds of steps.                                                     *)

LowOps == {"type", "push", "pop", "built", "free"}

Change(op) == IF op = "push" THEN 1 ELSE IF op = "pop" THEN -1 ELSE 0

(* The stack of type arguments is k[i] higher before ts[i] than before     *)
(* ts, never lower, and in the end as high as before.                      *)
Balances(ts, k) ==
  /\ k \in [1..(Len(ts) + 1) -> Nat]
  /\ k[1] = 0 /\ k[Len(ts) + 1] = 0
  /\ \A i \in 1..Len(ts) : k[i + 1] = k[i] + Change(ts[i].op)
Balanced(ts) == \E k : Balances(ts, k)

Idle ==
  /\ UNCHANGED <<program, module, ir, structs, functions_left, type_args, todo,
                 generated>>
  /\ \/ status' = status
     \/ status = "running" /\ status' = "crashed"
     \/ status = "running" /\ status' = "done" /\ todo = <<>>

Lowering ==
  /\ status = "running" /\ todo # <<>> /\ Head(todo).op \in LowOps
  /\ \E ts \in Seq(Tasks) :
        /\ Do(ts)
        /\ \A i \in 1..Len(ts) : ts[i].op \in LowOps
        /\ \/ /\ Head(todo).op \notin {"push", "pop"} /\ Balanced(ts)
              /\ type_args' = type_args
           \/ /\ Head(todo).op = "push" /\ ts = <<>>
              /\ type_args' = Append(type_args, Head(todo).args)
           \/ /\ Head(todo).op = "pop" /\ ts = <<>>
              /\ type_args' = Front(type_args)
  /\ DOMAIN structs' = DOMAIN structs
  /\ UNCHANGED <<program, module, ir, functions_left, generated, status>>

(* What a call or a bound's method loads.                                  *)
Loads(f, args) ==
  \/ /\ Head(todo).op = "call" /\ f = Head(todo).f
     /\ args = ProcessArgs(Head(todo).args)
  \/ /\ Head(todo).op = "bound" /\ type_args # <<>>
     /\ Head(todo).i \in DOMAIN Last(type_args)
     /\ Last(type_args)[Head(todo).i] \in DOMAIN Impls
     /\ f = Impls[Last(type_args)[Head(todo).i]] /\ args = <<>>

Loading ==
  /\ status = "running" /\ todo # <<>> /\ Head(todo).op \in {"call", "bound"}
  /\ \E f \in Functions, args \in Concrete :
        /\ f \in Intrinsics => args # <<>>
        /\ Loads(f, args) /\ GetOrCreate(f, args)
  /\ UNCHANGED <<program, module, ir, structs, functions_left, type_args,
                 generated, status>>

LEMMA EmptyBalanced == Balanced(<<>>)
<1>1. Balances(<<>>, [i \in 1..1 |-> 0])
  BY DEF Balances
<1> QED
  BY <1>1 DEF Balanced

LEMMA FlatBalanced ==
  ASSUME NEW ts \in Seq(Tasks),
         \A i \in 1..Len(ts) : ts[i].op \notin {"push", "pop"}
  PROVE  Balanced(ts) /\ Balances(ts, [i \in 1..(Len(ts) + 1) |-> 0])
<1>1. Len(ts) \in Nat
  BY LenProperties
<1>2. Balances(ts, [i \in 1..(Len(ts) + 1) |-> 0])
  BY <1>1 DEF Balances, Change
<1> QED
  BY <1>2 DEF Balanced

LEMMA QueueBalanced ==
  ASSUME NEW f \in Functions, NEW args \in Concrete,
         f \in Intrinsics => args # <<>>
  PROVE  Balanced(Queue(f, args))
<1> DEFINE n == Len(Signature[f])  s == Queue(f, args)
           k == [i \in 1..(n + 4) |-> IF i \in {1, n + 4} THEN 0 ELSE 1]
<1>1. /\ n \in Nat /\ s \in Seq(Tasks) /\ Len(s) = n + 3
      /\ s[1] = Push(args)
      /\ \A i \in 2..(n + 1) : s[i].op = "type"
      /\ s[n + 2] = [op |-> "queue", f |-> f, args |-> args]
      /\ s[n + 3] = Op("pop")
  BY QueueTyped
<1> HIDE DEF n, s
<1>2. /\ s[1].op = "push" /\ s[n + 3].op = "pop"
      /\ \A i \in 2..(n + 2) : s[i].op \in {"type", "queue"}
  <2>1. \A i \in 2..(n + 2) : i \in 2..(n + 1) \/ i = n + 2
    BY <1>1
  <2> QED
    BY <1>1, <2>1 DEF Push, Op
<1>3. \A i \in 1..(n + 3) : k[i + 1] = k[i] + Change(s[i].op)
  <2>1. ASSUME NEW i \in 2..(n + 2)
        PROVE  k[i + 1] = k[i] + Change(s[i].op)
    BY <1>1, <1>2 DEF Change
  <2>2. \A i \in {1, n + 3} : k[i + 1] = k[i] + Change(s[i].op)
    BY <1>1, <1>2 DEF Change
  <2>3. \A i \in 1..(n + 3) : i \in {1, n + 3} \/ i \in 2..(n + 2)
    BY <1>1
  <2> HIDE DEF k
  <2> QED
    BY <2>1, <2>2, <2>3
<1>4. k \in [1..((n + 3) + 1) -> Nat] /\ k[1] = 0 /\ k[(n + 3) + 1] = 0
  BY <1>1
<1>5. Balances(s, k)
  BY <1>1, <1>3, <1>4 DEF Balances
<1> QED
  BY <1>5 DEF Balanced, s

LEMMA BuildBalanced ==
  ASSUME NEW a \in ADTs, NEW args \in Concrete, TypeInv
  PROVE  /\ Balanced(Build(a, args)) /\ Build(a, args) \in Seq(Tasks)
         /\ \A i \in 1..Len(Build(a, args)) : Build(a, args)[i].op \in LowOps
<1> DEFINE n == Len(Layout[a])  s == Build(a, args)
           k == [i \in 1..(2 * n + 6) |->
                   IF i \in {1, n + 3, 2 * n + 5, 2 * n + 6} THEN 0 ELSE 1]
<1>1. /\ n \in Nat /\ s \in Seq(Tasks) /\ Len(s) = 2 * n + 5
      /\ s[1] = Push(args) /\ s[n + 3] = Push(args)
      /\ \A i \in 2..(n + 1) : s[i].op = "type"
      /\ \A i \in (n + 4)..(2 * n + 3) : s[i].op = "type"
      /\ s[n + 2] = Op("pop") /\ s[2 * n + 4] = Op("pop")
      /\ s[2 * n + 5].op = "built"
  BY BuildTyped
<1> HIDE DEF n, s
<1>2. /\ s[1].op = "push" /\ s[n + 3].op = "push"
      /\ s[n + 2].op = "pop" /\ s[2 * n + 4].op = "pop"
  BY <1>1 DEF Push, Op
<1>3. \A i \in 1..(2 * n + 5) :
         i \in 2..(n + 1) \/ i \in (n + 4)..(2 * n + 3)
         \/ i \in {1, n + 2, n + 3, 2 * n + 4, 2 * n + 5}
  BY <1>1
<1>4. \A i \in 1..(2 * n + 5) : k[i + 1] = k[i] + Change(s[i].op)
  <2>1. \A i \in 2..(n + 1) : k[i + 1] = k[i] + Change(s[i].op)
    BY <1>1 DEF Change
  <2>2. \A i \in (n + 4)..(2 * n + 3) : k[i + 1] = k[i] + Change(s[i].op)
    BY <1>1 DEF Change
  <2>3. \A i \in {1, n + 2, n + 3, 2 * n + 4, 2 * n + 5} :
           k[i + 1] = k[i] + Change(s[i].op)
    <3>1. /\ Change(s[1].op) = 1 /\ Change(s[n + 3].op) = 1
          /\ Change(s[n + 2].op) = -1 /\ Change(s[2 * n + 4].op) = -1
          /\ Change(s[2 * n + 5].op) = 0
      BY <1>1, <1>2 DEF Change
    <3>2. /\ k[1] = 0 /\ k[2] = 1 /\ k[n + 2] = 1 /\ k[n + 3] = 0
          /\ k[(n + 3) + 1] = 1 /\ k[2 * n + 4] = 1
          /\ k[2 * n + 5] = 0 /\ k[(2 * n + 5) + 1] = 0
      BY <1>1
    <3>3. /\ 1 + 1 = 2 /\ (n + 2) + 1 = n + 3
          /\ (2 * n + 4) + 1 = 2 * n + 5
      BY <1>1
    <3> HIDE DEF k
    <3> QED
      BY <3>1, <3>2, <3>3
  <2> QED
    BY <1>3, <2>1, <2>2, <2>3
<1>5. k \in [1..((2 * n + 5) + 1) -> Nat] /\ k[1] = 0 /\ k[(2 * n + 5) + 1] = 0
  BY <1>1
<1>6. Balances(s, k)
  BY <1>1, <1>4, <1>5 DEF Balances
<1>7. \A i \in 1..(2 * n + 5) : s[i].op \in LowOps
  BY <1>1, <1>2, <1>3 DEF LowOps
<1> QED
  BY <1>1, <1>6, <1>7 DEF Balanced, s

LEMMA EmptyTasks ==
  /\ <<>> \in Seq(Tasks) /\ Balanced(<<>>)
  /\ \A i \in 1..Len(<<>>) : <<>>[i].op \in LowOps
BY EmptyBalanced

LEMMA OneTask ==
  ASSUME NEW t \in Tasks
  PROVE  <<t>> \in Seq(Tasks) /\ Len(<<t>>) = 1 /\ <<t>>[1] = t
OBVIOUS

LEMMA OneType ==
  ASSUME NEW t \in Types
  PROVE  /\ <<TypeOf(t)>> \in Seq(Tasks) /\ Balanced(<<TypeOf(t)>>)
         /\ \A i \in 1..Len(<<TypeOf(t)>>) : <<TypeOf(t)>>[i].op \in LowOps
<1> DEFINE x == TypeOf(t)
<1>1. x \in Tasks /\ x.op = "type"
  BY TasksMade DEF TypeOf
<1> HIDE DEF x
<1>2. /\ <<x>> \in Seq(Tasks)
      /\ \A i \in 1..Len(<<x>>) : <<x>>[i].op = "type"
  BY <1>1, OneTask
<1>3. Balanced(<<x>>)
  BY <1>2, FlatBalanced
<1> QED
  BY <1>2, <1>3 DEF x, LowOps

(* One by one, what the steps do.                                          *)
LEMMA LoweringSteps ==
  ASSUME TypeInv,
         \/ LowerPlain \/ LowerVariable \/ LowerAdt \/ AddStruct \/ PushTyArgs
         \/ PopTyArgs \/ FillFreeType
  PROVE  Idle \/ Lowering
<1>1. CASE LowerPlain
  <2>1. /\ status = "running" /\ todo # <<>> /\ Head(todo).op = "type"
        /\ \/ Do(<<>>)
           \/ Head(todo).t.k = "ptr" /\ Do(<<TypeOf(Head(todo).t.of)>>)
        /\ UNCHANGED <<program, module, ir, structs, functions_left, type_args,
                       generated, status>>
    BY <1>1 DEF LowerPlain, Task
  <2>2. Head(todo) \in Tasks
    BY <2>1, HeadTailProperties DEF TypeInv
  <2>3. Head(todo).t \in Types
    BY <2>1, <2>2, TaskFields
  <2>4. CASE Do(<<>>)
    BY <2>1, <2>4, EmptyTasks DEF Lowering, LowOps
  <2>5. CASE Head(todo).t.k = "ptr" /\ Do(<<TypeOf(Head(todo).t.of)>>)
    <3>1. Head(todo).t.of \in Types
      BY <2>3, <2>5, TypesAssumption
    <3> QED
      BY <2>1, <2>5, <3>1, OneType DEF Lowering, LowOps
  <2> QED
    BY <2>1, <2>4, <2>5
<1>2. CASE LowerVariable
  <2> DEFINE inner == Resolve(Head(todo).t, InForce)
  <2>1. /\ status = "running" /\ todo # <<>> /\ Head(todo).op = "type"
        /\ \/ /\ Do(<<TypeOf(inner)>>)
              /\ UNCHANGED <<program, module, ir, structs, functions_left,
                             type_args, generated, status>>
           \/ Panic
    BY <1>2 DEF LowerVariable, Task
  <2>2. Head(todo) \in Tasks
    BY <2>1, HeadTailProperties DEF TypeInv
  <2>3. Head(todo).t \in Types
    BY <2>1, <2>2, TaskFields
  <2>4. inner \in Types
    BY <2>3, InForceConcrete, ResolveConcrete DEF TypeInv
  <2> HIDE DEF inner
  <2>5. CASE Panic
    BY <2>1, <2>5 DEF Panic, Idle
  <2>6. CASE /\ Do(<<TypeOf(inner)>>)
             /\ UNCHANGED <<program, module, ir, structs, functions_left,
                            type_args, generated, status>>
    BY <2>1, <2>4, <2>6, OneType DEF Lowering, LowOps
  <2> QED
    BY <2>1, <2>5, <2>6
<1>3. CASE LowerAdt
  <2> DEFINE a == Head(todo).t.a  args == ProcessArgs(Head(todo).t.args)
  <2>1. /\ status = "running" /\ todo # <<>> /\ Head(todo).op = "type"
        /\ Head(todo).t.k = "adt"
        /\ \/ /\ Do(<<>>) \/ Do(Build(a, args))
              /\ UNCHANGED <<program, module, ir, structs, functions_left,
                             type_args, generated, status>>
           \/ Panic
    BY <1>3 DEF LowerAdt, Task
  <2>2. Head(todo) \in Tasks
    BY <2>1, HeadTailProperties DEF TypeInv
  <2>3. Head(todo).t \in Types
    BY <2>1, <2>2, TaskFields
  <2>4. a \in ADTs /\ args \in Concrete
    BY <2>1, <2>3, TypesAssumption, ProcessArgsConcrete
  <2> HIDE DEF a, args
  <2>5. CASE Panic
    BY <2>1, <2>5 DEF Panic, Idle
  <2>6. CASE /\ Do(<<>>)
             /\ UNCHANGED <<program, module, ir, structs, functions_left,
                            type_args, generated, status>>
    BY <2>1, <2>6, EmptyTasks DEF Lowering, LowOps
  <2>7. CASE /\ Do(Build(a, args))
             /\ UNCHANGED <<program, module, ir, structs, functions_left,
                            type_args, generated, status>>
    BY <2>1, <2>4, <2>7, BuildBalanced DEF Lowering, LowOps
  <2> QED
    BY <2>1, <2>5, <2>6, <2>7
<1>4. CASE AddStruct
  <2>1. /\ status = "running" /\ todo # <<>> /\ Head(todo).op = "built"
        /\ \/ /\ Do(<<>>) /\ DOMAIN structs' = DOMAIN structs
              /\ UNCHANGED <<program, module, ir, functions_left, type_args,
                             generated, status>>
           \/ Panic
    BY <1>4 DEF AddStruct, Task
  <2>2. CASE Panic
    BY <2>1, <2>2 DEF Panic, Idle
  <2>3. CASE /\ Do(<<>>) /\ DOMAIN structs' = DOMAIN structs
             /\ UNCHANGED <<program, module, ir, functions_left, type_args,
                            generated, status>>
    BY <2>1, <2>3, EmptyTasks DEF Lowering, LowOps
  <2> QED
    BY <2>1, <2>2, <2>3
<1>5. CASE PushTyArgs
  <2>1. /\ status = "running" /\ todo # <<>> /\ Head(todo).op = "push"
        /\ Do(<<>>) /\ type_args' = Append(type_args, Head(todo).args)
        /\ UNCHANGED <<program, module, ir, structs, functions_left, generated,
                       status>>
    BY <1>5 DEF PushTyArgs, Task
  <2> QED
    BY <2>1, EmptyTasks DEF Lowering, LowOps
<1>6. CASE PopTyArgs
  <2>1. /\ status = "running" /\ todo # <<>> /\ Head(todo).op = "pop"
        /\ Do(<<>>) /\ type_args' = Front(type_args)
        /\ UNCHANGED <<program, module, ir, structs, functions_left, generated,
                       status>>
    BY <1>6 DEF PopTyArgs, Task
  <2> QED
    BY <2>1, EmptyTasks DEF Lowering, LowOps
<1>7. CASE FillFreeType
  <2>1. \/ status = "running" /\ Panic
        \/ /\ status = "running" /\ todo # <<>> /\ Head(todo).op = "free"
           /\ Do(<<>>)
           /\ UNCHANGED <<program, module, ir, structs, functions_left, type_args,
                          generated, status>>
    BY <1>7 DEF FillFreeType, Task
  <2> QED
    BY <2>1, EmptyTasks DEF Lowering, LowOps, Panic, Idle
<1> QED
  BY <1>1, <1>2, <1>3, <1>4, <1>5, <1>6, <1>7

LEMMA LoadingSteps ==
  ASSUME TypeInv, LoadFunction \/ LoadBoundMethod
  PROVE  Idle \/ Loading
<1>1. CASE LoadFunction
  <2>1. /\ status = "running" /\ todo # <<>> /\ Head(todo).op = "call"
        /\ \/ /\ GetOrCreate(Head(todo).f, ProcessArgs(Head(todo).args))
              /\ UNCHANGED <<program, module, ir, structs, functions_left,
                             type_args, generated, status>>
           \/ Panic
    BY <1>1 DEF LoadFunction, Task
  <2>2. Head(todo) \in Tasks
    BY <2>1, HeadTailProperties DEF TypeInv
  <2>3. /\ Head(todo).f \in Functions /\ Head(todo).args \in Seq(Types)
        /\ Head(todo).f \in Intrinsics => Head(todo).args # <<>>
    BY <2>1, <2>2, TaskFields
  <2>4. /\ ProcessArgs(Head(todo).args) \in Concrete
        /\ Head(todo).f \in Intrinsics => ProcessArgs(Head(todo).args) # <<>>
    BY <2>3, ProcessArgsConcrete
  <2> QED
    BY <2>1, <2>3, <2>4 DEF Loading, Loads, Panic, Idle
<1>2. CASE LoadBoundMethod
  <2> DEFINE f == Impls[Last(type_args)[Head(todo).i]]
  <2>1. /\ status = "running" /\ todo # <<>> /\ Head(todo).op = "bound"
        /\ \/ /\ type_args # <<>> /\ Head(todo).i \in DOMAIN Last(type_args)
              /\ Last(type_args)[Head(todo).i] \in DOMAIN Impls
              /\ GetOrCreate(f, <<>>)
              /\ UNCHANGED <<program, module, ir, structs, functions_left,
                             type_args, generated, status>>
           \/ Panic
    BY <1>2 DEF LoadBoundMethod, Task
  <2>2. CASE Panic
    BY <2>1, <2>2 DEF Panic, Idle
  <2>3. CASE ~Panic
    <3>1. /\ Last(type_args)[Head(todo).i] \in DOMAIN Impls
          /\ GetOrCreate(f, <<>>)
      BY <2>1, <2>3
    <3>2. f \in Functions /\ f \notin Intrinsics
      BY <3>1, DeclarationsAssumption, IntrinsicsAssumption DEF Intrinsics
    <3> QED
      BY <2>1, <2>3, <3>1, <3>2, ConcreteFacts DEF Loading, Loads
  <2> QED
    BY <2>2, <2>3
<1> QED
  BY <1>1, <1>2

(* SetToSeq puts the elements of a finite set in some order.               *)
LEMMA SetToSeqTyped ==
  ASSUME NEW T, NEW S \in SUBSET T, IsFiniteSet(S)
  PROVE  SetToSeq(S) \in Seq(T) /\ \A i \in 1..Len(SetToSeq(S)) : SetToSeq(S)[i] \in S
<1>1. Cardinality(S) \in Nat /\ ExistsBijection(1..Cardinality(S), S)
  BY FS_CardinalityType
<1>2. \E f \in [1..Cardinality(S) -> S] : IsInjective(f)
  BY <1>1 DEF ExistsBijection, Bijection, Injection
<1>3. SetToSeq(S) \in [1..Cardinality(S) -> S]
  BY <1>2 DEF SetToSeq
<1> QED
  BY <1>1, <1>3

LEMMA BodyTyped ==
  ASSUME TypeInv, NEW f \in Functions
  PROVE  /\ program[f] \in Seq(Tasks) /\ program[f] \in Seq(Items)
         /\ \A i \in 1..Len(program[f]) :
               /\ program[f][i].op \in {"type", "call", "bound"}
               /\ i \in DOMAIN program[f]
<1>1. program[f] \in Seq(Items)
  BY ProgramsAssumption DEF TypeInv
<1>2. /\ Len(program[f]) \in Nat /\ DOMAIN program[f] = 1..Len(program[f])
      /\ program[f] \in [1..Len(program[f]) -> Items]
  BY <1>1, LenProperties
<1>3. \A i \in 1..Len(program[f]) : program[f][i] \in Tasks
  <2> SUFFICES ASSUME NEW i \in 1..Len(program[f])
               PROVE  program[f][i] \in Tasks
    OBVIOUS
  <2>1. program[f][i] \in Items /\ program[f][i].op \in {"type", "call", "bound"}
    BY <1>2 DEF Items
  <2>2. program[f][i].op = "call" /\ program[f][i].f \in Intrinsics
          => program[f][i].args # <<>>
    BY <1>2, IntrinsicsAssumption DEF Intrinsics, TypeInv
  <2> QED
    BY <2>1, <2>2 DEF Tasks, AnyTask
<1>4. \A i \in 1..Len(program[f]) : program[f][i].op \in {"type", "call", "bound"}
  BY <1>2 DEF Items
<1> QED
  BY <1>1, <1>2, <1>3, <1>4

(* What is left to do when an instance is taken from functions_left: its   *)
(* body, then its type arguments are popped, then the next one.            *)
Body(f) == (program[f] \o <<Op("pop")>>) \o <<Op("left")>>

LEMMA LeftBody ==
  ASSUME TypeInv, NEW f \in Functions
  PROVE  LET n == Len(program[f]) IN
         /\ n \in Nat /\ Body(f) \in Seq(Tasks) /\ Len(Body(f)) = n + 2
         /\ \A i \in 1..n : /\ Body(f)[i] = program[f][i]
                            /\ Body(f)[i].op \in {"type", "call", "bound"}
         /\ Body(f)[n + 1] = Op("pop") /\ Body(f)[n + 2] = Op("left")
<1> DEFINE b == program[f]  n == Len(b)  p == <<Op("pop")>>  l == <<Op("left")>>
<1>1. /\ b \in Seq(Tasks) /\ n \in Nat
      /\ \A i \in 1..n : b[i].op \in {"type", "call", "bound"}
  BY BodyTyped, LenProperties
<1>2. /\ p \in Seq(Tasks) /\ Len(p) = 1 /\ p[1] = Op("pop")
      /\ l \in Seq(Tasks) /\ Len(l) = 1 /\ l[1] = Op("left")
  BY TasksMade, OneTask
<1> HIDE DEF b, p, l
<1>3. /\ b \o p \in Seq(Tasks) /\ Len(b \o p) = Len(b) + Len(p)
      /\ \A i \in 1..Len(b) : (b \o p)[i] = b[i]
      /\ \A i \in (Len(b) + 1)..(Len(b) + Len(p)) : (b \o p)[i] = p[i - Len(b)]
  BY <1>1, <1>2, Concatenated
<1>4. /\ (b \o p) \o l \in Seq(Tasks)
      /\ Len((b \o p) \o l) = Len(b \o p) + Len(l)
      /\ \A i \in 1..Len(b \o p) : ((b \o p) \o l)[i] = (b \o p)[i]
      /\ \A i \in (Len(b \o p) + 1)..(Len(b \o p) + Len(l)) :
            ((b \o p) \o l)[i] = l[i - Len(b \o p)]
  BY <1>2, <1>3, Concatenated
<1> HIDE DEF n
<1>5. /\ Len(b) = n /\ Len(b \o p) = n + 1 /\ (b \o p)[n + 1] = Op("pop")
      /\ \A i \in 1..n : (b \o p)[i] = b[i]
  BY <1>1, <1>2, <1>3 DEF n
<1>6. /\ Len((b \o p) \o l) = n + 2 /\ ((b \o p) \o l)[n + 1] = Op("pop")
      /\ ((b \o p) \o l)[n + 2] = Op("left")
      /\ \A i \in 1..n : ((b \o p) \o l)[i] = b[i]
  BY <1>1, <1>2, <1>4, <1>5
<1> QED
  BY <1>1, <1>4, <1>6 DEF Body, b, p, l, n

Generating ==
  /\ status = "running" /\ todo # <<>> /\ Head(todo).op = "generate"
  /\ Head(todo).f \in Functions \ Generic
  /\ Do(program[Head(todo).f])
  /\ generated' = generated \cup {Instance(Head(todo).f, <<>>)}
  /\ UNCHANGED <<program, module, ir, structs, functions_left, type_args, status>>

GeneratingLeft ==
  /\ status = "running" /\ todo # <<>> /\ Head(todo).op = "left"
  /\ functions_left # <<>>
  /\ LET next == functions_left[Len(functions_left)] IN
     /\ next.f \in Functions /\ next.args \in Concrete
     /\ Declared(next.f, next.args)
     /\ Do(Body(next.f))
     /\ functions_left' = Front(functions_left)
     /\ type_args' = Append(type_args, next.args)
     /\ generated' = generated \cup {Instance(next.f, next.args)}
  /\ UNCHANGED <<program, module, ir, structs, status>>

Filling ==
  /\ status = "running" /\ todo # <<>> /\ Head(todo).op = "left"
  /\ functions_left = <<>>
  /\ \E ts \in Seq(Tasks) : /\ Do(ts)
                            /\ \A i \in 1..Len(ts) : ts[i].op \in {"type", "free"}
  /\ UNCHANGED <<program, module, ir, structs, functions_left, type_args,
                 generated, status>>

LEMMA GeneratingSteps ==
  ASSUME TypeInv, GenerateRequired \/ GenerateLeft \/ StartFill
  PROVE  Idle \/ Generating \/ GeneratingLeft \/ Filling
<1>1. CASE GenerateRequired
  <2>1. status = "running" /\ todo # <<>> /\ Head(todo).op = "generate"
    BY <1>1 DEF GenerateRequired, Task
  <2>2. Head(todo).f \in Functions
    BY <2>1, HeadTailProperties, TaskFields DEF TypeInv
  <2> QED
    BY <1>1, <2>1, <2>2 DEF GenerateRequired, Generating, Panic, Idle
<1>2. CASE GenerateLeft
  <2> DEFINE next == functions_left[Len(functions_left)]
  <2>1. /\ status = "running" /\ todo # <<>> /\ Head(todo).op = "left"
        /\ functions_left # <<>>
        /\ \/ Panic
           \/ /\ Declared(next.f, next.args)
              /\ functions_left' = Front(functions_left)
              /\ type_args' = Append(type_args, next.args)
              /\ generated' = generated \cup {Instance(next.f, next.args)}
              /\ todo' = program[next.f] \o <<Op("pop")>> \o todo
              /\ UNCHANGED <<program, module, ir, structs, status>>
    BY <1>2 DEF GenerateLeft, Task, Last
  <2>2. next \in [f: Functions, args: Concrete]
    <3>1. functions_left \in Seq([f: Functions, args: Concrete])
      BY DEF TypeInv
    <3>2. Len(functions_left) \in 1..Len(functions_left)
      BY <2>1, <3>1, EmptySeq
    <3> QED
      BY <3>1, <3>2, ElementOfSeq
  <2>3. next.f \in Functions /\ next.args \in Concrete
    BY <2>2
  <2> HIDE DEF next
  <2>4. CASE Panic
    BY <2>1, <2>4 DEF Panic, Idle
  <2>5. CASE ~Panic
    <3> DEFINE b == program[next.f]  p == <<Op("pop")>>  l == <<Op("left")>>
    <3>1. b \in Seq(Tasks) /\ p \in Seq(Tasks) /\ l \in Seq(Tasks)
      BY <2>3, BodyTyped, TasksMade, OneTask
    <3>2. todo \in Seq(Tasks) /\ Tail(todo) \in Seq(Tasks) /\ Head(todo) \in Tasks
      BY <2>1, HeadTailProperties DEF TypeInv
    <3>3. Head(todo) = Op("left")
      BY <2>1, <3>2, TaskFields
    <3>4. todo = l \o Tail(todo)
      BY <2>1, <3>2, <3>3, HeadTailProperties
    <3>5. b \o p \in Seq(Tasks)
      BY <3>1, Concatenated
    <3> HIDE DEF b, p, l
    <3>6. (b \o p) \o (l \o Tail(todo)) = ((b \o p) \o l) \o Tail(todo)
      <4>1. \A s, t, u \in Seq(Tasks) : (s \o t) \o u = s \o (t \o u)
        BY ConcatAssociative
      <4> QED
        BY <3>1, <3>2, <3>5, <4>1
    <3>7. todo' = (b \o p) \o todo
      BY <2>1, <2>5 DEF b, p
    <3>8. Do(Body(next.f))
      BY <3>4, <3>6, <3>7 DEF Do, Body, b, p, l
    <3> QED
      BY <2>1, <2>3, <2>5, <3>8 DEF GeneratingLeft, next
  <2> QED
    BY <2>4, <2>5
<1>3. CASE StartFill
  <2> DEFINE sizes == {TypeOf(args[1]) : args \in DOMAIN ir[SizeOf]}
             frees == {[op |-> "free", t |-> args[1]] : args \in DOMAIN ir[FreeType]}
             T == {t \in Tasks : t.op \in {"type", "free"}}
  <2>1. SizeOf \in Functions /\ FreeType \in Functions
        /\ SizeOf \in Intrinsics /\ FreeType \in Intrinsics
    BY IntrinsicsAssumption DEF Intrinsics
  <2>2. \A args \in DOMAIN ir[SizeOf] \cup DOMAIN ir[FreeType] : args[1] \in Types
    <3> SUFFICES ASSUME NEW args \in DOMAIN ir[SizeOf] \cup DOMAIN ir[FreeType]
                 PROVE  args[1] \in Types
      OBVIOUS
    <3>1. args \in Seq(Types) /\ args # <<>>
      BY <2>1, ConcreteFacts DEF TypeInv
    <3> QED
      BY <3>1, EmptySeq, ElementOfSeq
  <2>3. sizes \in SUBSET T /\ frees \in SUBSET T
    <3>1. \A t \in Types : /\ TypeOf(t) \in Tasks /\ TypeOf(t).op = "type"
                           /\ [op |-> "free", t |-> t] \in Tasks
      BY TasksMade DEF TypeOf
    <3>2. \A args \in DOMAIN ir[SizeOf] : TypeOf(args[1]) \in T
      BY <2>2, <3>1
    <3>3. \A args \in DOMAIN ir[FreeType] : [op |-> "free", t |-> args[1]] \in T
      BY <2>2, <3>1
    <3> HIDE DEF T
    <3> QED
      BY <3>2, <3>3
  <2>4. IsFiniteSet(sizes) /\ IsFiniteSet(frees)
    <3>1. IsFiniteSet(DOMAIN ir[SizeOf]) /\ IsFiniteSet(DOMAIN ir[FreeType])
      BY <2>1 DEF TypeInv
    <3>2. [args \in DOMAIN ir[SizeOf] |-> TypeOf(args[1])]
             \in Surjection(DOMAIN ir[SizeOf], sizes)
      BY DEF Surjection
    <3>3. [args \in DOMAIN ir[FreeType] |-> [op |-> "free", t |-> args[1]]]
             \in Surjection(DOMAIN ir[FreeType], frees)
      BY DEF Surjection
    <3> HIDE DEF sizes, frees
    <3> QED
      BY <3>1, <3>2, <3>3, FS_Surjection DEF ExistsSurjection
  <2>5. /\ SetToSeq(sizes) \in Seq(T) /\ SetToSeq(frees) \in Seq(T)
    BY <2>3, <2>4, SetToSeqTyped
  <2> DEFINE ts == SetToSeq(sizes) \o SetToSeq(frees)
  <2>6. ts \in Seq(T)
    BY <2>5, ConcatProperties
  <2>7. /\ status = "running" /\ todo # <<>> /\ Head(todo).op = "left"
        /\ functions_left = <<>> /\ Do(ts)
        /\ UNCHANGED <<program, module, ir, structs, functions_left, type_args,
                       generated, status>>
    BY <1>3 DEF StartFill, Task
  <2> HIDE DEF ts
  <2>8. ts \in Seq(Tasks) /\ \A i \in 1..Len(ts) : ts[i].op \in {"type", "free"}
    BY <2>6, SeqMonotonic, ElementOfSeq
  <2> QED
    BY <2>7, <2>8 DEF Filling
<1> QED
  BY <1>1, <1>2, <1>3


LEMMA StepKinds ==
  ASSUME TypeInv, [Next]_vars
  PROVE  \/ Idle \/ Lowering \/ Loading
         \/ status = "running" /\ QueueFunction
         \/ status = "running" /\ DeclareRequired
         \/ status = "running" /\ SetRequired
         \/ Generating \/ GeneratingLeft \/ Filling \/ NextCompilation
<1>1. CASE Step
  <2>1. CASE Finish
    BY <2>1 DEF Finish, Idle
  <2>2. CASE QueueFunction \/ DeclareRequired \/ SetRequired
    BY <2>2 DEF QueueFunction, DeclareRequired, SetRequired, Task
  <2> QED
    BY <1>1, <2>1, <2>2, LoweringSteps, LoadingSteps, GeneratingSteps DEF Step
<1>2. CASE UNCHANGED vars
  BY <1>2 DEF vars, Idle
<1> QED
  BY <1>1, <1>2 DEF Next

-----------------------------------------------------------------------------
(* Types are kept.                                                         *)

LEMMA WorkTyped ==
  LET n == Len(Required) IN
  /\ n \in Nat /\ Work \in Seq(Tasks) /\ Len(Work) = 2 * n + 1
  /\ \A i \in 1..n : /\ Required[i] \in Functions
                     /\ Work[i] = [op |-> "declare", f |-> Required[i]]
                     /\ Work[n + i] = [op |-> "generate", f |-> Required[i]]
  /\ Work[2 * n + 1] = Op("left")
<1> DEFINE n == Len(Required)
           d == [i \in DOMAIN Required |-> [op |-> "declare", f |-> Required[i]]]
           g == [i \in DOMAIN Required |-> [op |-> "generate", f |-> Required[i]]]
           l == <<Op("left")>>
<1>1. /\ n \in Nat /\ DOMAIN Required = 1..n
      /\ \A i \in 1..n : Required[i] \in Functions
  BY DeclarationsAssumption, LenProperties, ElementOfSeq
<1>2. \A i \in 1..n : /\ [op |-> "declare", f |-> Required[i]] \in Tasks
                      /\ [op |-> "generate", f |-> Required[i]] \in Tasks
  BY <1>1, TasksMade
<1>3. /\ d \in Seq(Tasks) /\ Len(d) = n /\ g \in Seq(Tasks) /\ Len(g) = n
      /\ \A i \in 1..n : /\ d[i] = [op |-> "declare", f |-> Required[i]]
                         /\ g[i] = [op |-> "generate", f |-> Required[i]]
  <2> HIDE DEF n
  <2>1. /\ d \in [1..n -> Tasks] /\ g \in [1..n -> Tasks]
        /\ \A i \in 1..n : /\ d[i] = [op |-> "declare", f |-> Required[i]]
                           /\ g[i] = [op |-> "generate", f |-> Required[i]]
    BY <1>1, <1>2
  <2> HIDE DEF d, g
  <2> QED
    BY <1>1, <2>1
<1>4. l \in Seq(Tasks) /\ Len(l) = 1 /\ l[1] = Op("left")
  BY TasksMade, OneTask
<1>5. Work = (d \o g) \o l
  BY DEF Work
<1> HIDE DEF n, d, g, l
<1>6. /\ d \o g \in Seq(Tasks) /\ Len(d \o g) = Len(d) + Len(g)
      /\ \A i \in 1..Len(d) : (d \o g)[i] = d[i]
      /\ \A i \in (Len(d) + 1)..(Len(d) + Len(g)) : (d \o g)[i] = g[i - Len(d)]
  BY <1>3, Concatenated
<1>7. /\ Work \in Seq(Tasks) /\ Len(Work) = Len(d \o g) + Len(l)
      /\ \A i \in 1..Len(d \o g) : Work[i] = (d \o g)[i]
      /\ \A i \in (Len(d \o g) + 1)..(Len(d \o g) + Len(l)) :
            Work[i] = l[i - Len(d \o g)]
  BY <1>4, <1>5, <1>6, Concatenated
<1>8. /\ Len(d) = n /\ Len(g) = n /\ Len(d \o g) = 2 * n /\ Len(Work) = 2 * n + 1
      /\ Work[2 * n + 1] = Op("left")
  BY <1>1, <1>3, <1>4, <1>6, <1>7
<1>9. ASSUME NEW i \in 1..n
      PROVE  /\ Work[i] = [op |-> "declare", f |-> Required[i]]
             /\ Work[n + i] = [op |-> "generate", f |-> Required[i]]
  <2>1. /\ i \in 1..Len(d) /\ i \in 1..Len(d \o g) /\ n + i \in 1..Len(d \o g)
        /\ n + i \in (Len(d) + 1)..(Len(d) + Len(g)) /\ (n + i) - Len(d) = i
    BY <1>1, <1>8
  <2> QED
    BY <1>3, <1>6, <1>7, <2>1
<1> QED
  BY <1>1, <1>7, <1>8, <1>9 DEF n

(* What declaring a required function is made of.                          *)
Declaring(f) == Lower(Signature[f]) \o <<[op |-> "set", f |-> f]>>

LEMMA DeclaringTyped ==
  ASSUME NEW f \in Functions, f \notin Generic
  PROVE  LET n == Len(Signature[f])  s == Declaring(f) IN
         /\ n \in Nat /\ s \in Seq(Tasks) /\ Len(s) = n + 1
         /\ \A i \in 1..n : s[i].op = "type"
         /\ s[n + 1] = [op |-> "set", f |-> f]
<1> DEFINE low == Lower(Signature[f])  n == Len(Signature[f])
           set == <<[op |-> "set", f |-> f]>>
<1>1. /\ low \in Seq(Tasks) /\ Len(low) = n /\ n \in Nat
      /\ \A i \in 1..n : low[i].op = "type"
  BY LowerTyped, DeclarationsAssumption, LenProperties
<1>2. set \in Seq(Tasks) /\ Len(set) = 1 /\ set[1] = [op |-> "set", f |-> f]
  <2>1. [op |-> "set", f |-> f] \in Tasks
    BY TasksMade
  <2> QED
    BY <2>1, OneTask
<1> HIDE DEF low, n, set
<1>3. /\ low \o set \in Seq(Tasks) /\ Len(low \o set) = Len(low) + Len(set)
      /\ \A i \in 1..Len(low) : (low \o set)[i] = low[i]
      /\ \A i \in (Len(low) + 1)..(Len(low) + Len(set)) :
            (low \o set)[i] = set[i - Len(low)]
  BY <1>1, <1>2, Concatenated
<1>4. /\ Len(low \o set) = n + 1 /\ (low \o set)[n + 1] = set[1]
      /\ \A i \in 1..n : (low \o set)[i].op = "type"
  BY <1>1, <1>2, <1>3
<1> QED
  BY <1>1, <1>2, <1>3, <1>4 DEF Declaring, low, n, set

LEMMA Added ==
  ASSUME DOMAIN ir = Functions, NEW f \in Functions, NEW args, AddInst(f, args)
  PROVE  /\ DOMAIN ir' = Functions
         /\ \A x \in Functions : x # f => ir'[x] = ir[x]
         /\ DOMAIN ir'[f] = DOMAIN ir[f] \cup {Slot(f, args)}
         /\ \A x \in DOMAIN ir'[f] :
               ir'[f][x] = IF x = Slot(f, args) THEN module ELSE ir[f][x]
<1> DEFINE s == Slot(f, args)  new == WithInst(ir[f], s, module)
<1>1. /\ DOMAIN new = DOMAIN ir[f] \cup {s}
      /\ \A x \in DOMAIN new : new[x] = IF x = s THEN module ELSE ir[f][x]
  BY DEF WithInst
<1>2. ir' = [ir EXCEPT ![f] = new]
  BY DEF AddInst
<1> HIDE DEF new, s
<1> QED
  BY <1>1, <1>2 DEF s

LEMMA SlotConcrete ==
  ASSUME NEW f \in Functions, NEW args \in Concrete
  PROVE  /\ Slot(f, args) \in Concrete
         /\ f \notin Generic => Slot(f, args) = <<>>
         /\ f \in Intrinsics => Slot(f, args) = args
         /\ Instance(f, args) = [f |-> f, args |-> Slot(f, args)]
         /\ Instance(f, args) \in [f: Functions, args: Concrete]
BY ConcreteFacts, IntrinsicsAssumption DEF Slot, Instance, Intrinsics

LEMMA AddedTyped ==
  ASSUME TypeInv, NEW f \in Functions, NEW args \in Concrete, AddInst(f, args),
         f \in Intrinsics => args # <<>>
  PROVE  /\ DOMAIN ir' = Functions
         /\ \A x \in Functions :
               /\ DOMAIN ir'[x] \subseteq Concrete
               /\ IsFiniteSet(DOMAIN ir'[x])
               /\ x \notin Generic => DOMAIN ir'[x] \subseteq {<<>>}
               /\ x \in Intrinsics => <<>> \notin DOMAIN ir'[x]
<1>1. /\ DOMAIN ir' = Functions
      /\ \A x \in Functions : x # f => ir'[x] = ir[x]
      /\ DOMAIN ir'[f] = DOMAIN ir[f] \cup {Slot(f, args)}
  BY Added DEF TypeInv
<1>2. IsFiniteSet(DOMAIN ir'[f])
  <2>1. IsFiniteSet(DOMAIN ir[f])
    BY DEF TypeInv
  <2>2. IsFiniteSet(DOMAIN ir[f] \cup {Slot(f, args)})
    BY <2>1, FS_AddElement
  <2> QED
    BY <1>1, <2>2
<1>3. /\ Slot(f, args) \in Concrete
      /\ f \notin Generic => Slot(f, args) = <<>>
      /\ f \in Intrinsics => Slot(f, args) # <<>>
  BY SlotConcrete
<1> QED
  BY <1>1, <1>2, <1>3 DEF TypeInv

LEMMA ResetTyped ==
  ASSUME NEW a
  PROVE  /\ DOMAIN Reset(a) = DOMAIN a
         /\ \A d \in DOMAIN a : Reset(a)[d] = NoInstances
BY DEF Reset

LEMMA NothingThere == DOMAIN NoInstances = {}
BY DEF NoInstances

LEMMA TypeInit == Init => TypeInv
<1> SUFFICES ASSUME Init PROVE TypeInv
  OBVIOUS
<1>1. \A f \in Functions : ir[f] = NoInstances
  BY DEF Init
<1>2. IsFiniteSet({})
  BY FS_EmptySet
<1>3. Work \in Seq(Tasks) /\ 1 \in 1..MaxModules
  BY WorkTyped, BoundAssumption
<1> QED
  BY <1>1, <1>2, <1>3, NothingThere DEF Init, TypeInv

LEMMA TypeStep == TypeInv /\ [Next]_vars => TypeInv'
<1> SUFFICES ASSUME TypeInv, [Next]_vars PROVE TypeInv'
  OBVIOUS
<1>1. CASE Idle
  BY <1>1 DEF Idle, TypeInv
<1>2. CASE Lowering
  <2>1. Head(todo) \in Tasks
    BY <1>2, HeadTailProperties DEF Lowering, TypeInv
  <2>2. todo' \in Seq(Tasks)
    BY <1>2, DoStep DEF Lowering, TypeInv
  <2>3. type_args' \in Seq(Concrete)
    <3>1. CASE Head(todo).op = "push" /\ type_args' = Append(type_args, Head(todo).args)
      BY <2>1, <3>1, TaskFields, AppendProperties DEF TypeInv
    <3>2. CASE type_args' = Front(type_args)
      BY <3>2, FrontProperties DEF TypeInv
    <3> QED
      BY <1>2, <3>1, <3>2 DEF Lowering, TypeInv
  <2> QED
    BY <1>2, <2>2, <2>3 DEF Lowering, TypeInv
<1>3. CASE Loading
  <2>1. todo' \in Seq(Tasks)
    <3>1. PICK f \in Functions, args \in Concrete :
             (f \in Intrinsics => args # <<>>) /\ GetOrCreate(f, args)
      BY <1>3 DEF Loading
    <3>2. Queue(f, args) \in Seq(Tasks) /\ <<>> \in Seq(Tasks)
      <4>1. Queue(f, args) \in Seq(Tasks)
        BY <3>1, QueueTyped
      <4> QED
        BY <4>1
    <3> QED
      BY <1>3, <3>1, <3>2, DoStep DEF Loading, GetOrCreate, TypeInv
  <2> QED
    BY <1>3, <2>1 DEF Loading, TypeInv
<1>4. CASE QueueFunction
  <2>1. todo # <<>> /\ Head(todo).op = "queue"
    BY <1>4 DEF QueueFunction, Task
  <2>2. /\ Head(todo).f \in Functions /\ Head(todo).args \in Concrete
        /\ Head(todo).f \in Intrinsics => Head(todo).args # <<>>
    BY <2>1, HeadTailProperties, TaskFields DEF TypeInv
  <2>3. todo' \in Seq(Tasks)
    BY <1>4, <2>1, DoStep, EmptyTasks DEF QueueFunction, TypeInv
  <2>4. functions_left' \in Seq([f: Functions, args: Concrete])
    BY <1>4, <2>2, AppendProperties DEF QueueFunction, TypeInv
  <2> QED
    BY <1>4, <2>2, <2>3, <2>4, AddedTyped DEF QueueFunction, TypeInv
<1>5. CASE DeclareRequired
  <2>1. todo # <<>> /\ Head(todo).op = "declare"
    BY <1>5 DEF DeclareRequired, Task
  <2>2. Head(todo).f \in Functions
    BY <2>1, HeadTailProperties, TaskFields DEF TypeInv
  <2> DEFINE ts == IF Head(todo).f \in Generic THEN <<>>
                   ELSE Declaring(Head(todo).f)
  <2>3. ts \in Seq(Tasks)
    <3>1. Head(todo).f \notin Generic => Declaring(Head(todo).f) \in Seq(Tasks)
      BY <2>2, DeclaringTyped
    <3> QED
      BY <3>1, EmptyTasks
  <2>4. Do(ts)
    BY <1>5 DEF DeclareRequired, Declaring
  <2>5. todo' \in Seq(Tasks)
    BY <2>1, <2>3, <2>4, DoStep DEF TypeInv
  <2> QED
    BY <1>5, <2>5 DEF DeclareRequired, TypeInv
<1>6. CASE SetRequired
  <2>1. todo # <<>> /\ Head(todo).op = "set"
    BY <1>6 DEF SetRequired, Task
  <2>2. Head(todo).f \in Functions \ Generic /\ Head(todo).f \notin Intrinsics
    BY <2>1, HeadTailProperties, TaskFields, IntrinsicsAssumption
       DEF TypeInv, Intrinsics
  <2>3. todo' \in Seq(Tasks)
    BY <1>6, <2>1, DoStep, EmptyTasks DEF SetRequired, TypeInv
  <2> QED
    BY <1>6, <2>2, <2>3, AddedTyped, ConcreteFacts DEF SetRequired, TypeInv
<1>7. CASE Generating
  <2>1. program[Head(todo).f] \in Seq(Tasks)
    BY <1>7, BodyTyped DEF Generating
  <2>2. todo' \in Seq(Tasks)
    BY <1>7, <2>1, DoStep DEF Generating, TypeInv
  <2>3. Instance(Head(todo).f, <<>>) \in [f: Functions, args: Concrete]
    BY <1>7, SlotConcrete, ConcreteFacts DEF Generating
  <2> QED
    BY <1>7, <2>2, <2>3 DEF Generating, TypeInv
<1>8. CASE GeneratingLeft
  <2> DEFINE next == functions_left[Len(functions_left)]
  <2>1. /\ todo # <<>> /\ next.f \in Functions /\ next.args \in Concrete
        /\ Do(Body(next.f)) /\ functions_left' = Front(functions_left)
        /\ type_args' = Append(type_args, next.args)
        /\ generated' = generated \cup {Instance(next.f, next.args)}
        /\ UNCHANGED <<program, module, ir, structs, status>>
    BY <1>8 DEF GeneratingLeft
  <2> HIDE DEF next
  <2>2. todo' \in Seq(Tasks)
    BY <2>1, LeftBody, DoStep DEF TypeInv
  <2>3. /\ Instance(next.f, next.args) \in [f: Functions, args: Concrete]
        /\ type_args' \in Seq(Concrete)
        /\ functions_left' \in Seq([f: Functions, args: Concrete])
    <3>1. Instance(next.f, next.args) \in [f: Functions, args: Concrete]
      BY <2>1, SlotConcrete
    <3>2. type_args' \in Seq(Concrete)
      BY <2>1, AppendProperties DEF TypeInv
    <3>3. functions_left' \in Seq([f: Functions, args: Concrete])
      BY <2>1, FrontProperties DEF TypeInv
    <3> QED
      BY <3>1, <3>2, <3>3
  <2> QED
    BY <2>1, <2>2, <2>3 DEF TypeInv
<1>9. CASE Filling
  BY <1>9, DoStep DEF Filling, TypeInv
<1>10. CASE NextCompilation
  <2>1. /\ DOMAIN ir' = Functions /\ DOMAIN structs' = ADTs
        /\ \A f \in Functions : DOMAIN ir'[f] = {}
    BY <1>10, ResetTyped, NothingThere DEF NextCompilation, TypeInv
  <2>2. IsFiniteSet({}) /\ Work \in Seq(Tasks)
    BY FS_EmptySet, WorkTyped
  <2>3. module' \in 1..MaxModules
    BY <1>10, BoundAssumption DEF NextCompilation, TypeInv
  <2>4. /\ program' \in Programs /\ functions_left' = <<>> /\ type_args' = <<>>
        /\ generated' = {} /\ todo' = Work /\ status' = "running"
    BY <1>10 DEF NextCompilation
  <2>5. \A f \in Functions :
           /\ DOMAIN ir'[f] \subseteq Concrete /\ IsFiniteSet(DOMAIN ir'[f])
           /\ f \notin Generic => DOMAIN ir'[f] \subseteq {<<>>}
           /\ f \in Intrinsics => <<>> \notin DOMAIN ir'[f]
    BY <2>1, <2>2
  <2> QED
    BY <2>1, <2>2, <2>3, <2>4, <2>5 DEF TypeInv
<1> QED
  BY <1>1, <1>2, <1>3, <1>4, <1>5, <1>6, <1>7, <1>8, <1>9, <1>10, StepKinds


LEMMA TypeInvariant == Spec => []TypeInv
BY TypeInit, TypeStep, PTL DEF Spec

(* The types of the generator's state, whatever is compiled: every         *)
(* function without type parameters has one slot at most and no type       *)
(* parameter itself is among the arguments in force.                       *)
THEOREM TypeCorrect == Spec => []TypeOK
<1>1. TypeInv => TypeOK
  <2> SUFFICES ASSUME TypeInv PROVE TypeOK
    OBVIOUS
  <2>1. DOMAIN program = Functions
    BY ProgramsAssumption DEF TypeInv
  <2>2. \A i \in DOMAIN functions_left : functions_left[i].f \in Functions
    <3>1. \A i \in 1..Len(functions_left) :
             functions_left[i] \in [f: Functions, args: Concrete]
      BY ElementOfSeq DEF TypeInv
    <3> QED
      BY <3>1, LenProperties DEF TypeInv
  <2>3. \A i \in DOMAIN type_args : \A j \in DOMAIN type_args[i] :
           type_args[i][j].k # "var"
    <3>1. \A i \in 1..Len(type_args) : type_args[i] \in Concrete
      BY ElementOfSeq DEF TypeInv
    <3> QED
      BY <3>1, LenProperties, ConcreteFacts DEF TypeInv
  <2> QED
    BY <2>1, <2>2, <2>3 DEF TypeInv, TypeOK
<1> QED
  BY <1>1, TypeInvariant, PTL

-----------------------------------------------------------------------------
(* The order of what is to be done.                                        *)

(* What may not come after a task: declarations come first, an instance is *)
(* queued before anything else that could load it, the next instance is    *)
(* taken when all that was to be done is done.                             *)
Bars(op) ==
  IF op \in {"declare", "set"} THEN {"queue", "call", "bound"}
  ELSE IF op \in {"queue", "call", "bound"} THEN {"declare", "set", "queue"}
  ELSE IF op = "generate" THEN {"declare", "set", "queue", "call", "bound"}
  ELSE IF op = "left"
  THEN {"declare", "set", "queue", "call", "bound", "generate", "left"}
  ELSE {}

OrderedTasks(ts) ==
  \A i, j \in 1..Len(ts) : i < j => ts[j].op \notin Bars(ts[i].op)

Elems(ts) == {ts[i] : i \in 1..Len(ts)}
Pending   == Elems(todo)
Later     == {todo[i] : i \in 2..Len(todo)}

LEMMA PendingStep ==
  ASSUME todo \in Seq(Tasks), todo # <<>>, NEW ts \in Seq(Tasks), Do(ts)
  PROVE  /\ Pending' = Elems(ts) \cup Later
         /\ Pending = {Head(todo)} \cup Later
<1>1. /\ Len(ts) \in Nat /\ Len(todo) \in Nat \ {0} /\ Head(todo) = todo[1]
      /\ \A i \in 1..Len(ts) : todo'[i] = ts[i]
      /\ Len(todo') = Len(ts) + Len(todo) - 1
      /\ \A i \in (Len(ts) + 1)..(Len(ts) + Len(todo) - 1) :
            todo'[i] = todo[i - Len(ts) + 1]
      /\ \A i \in 2..Len(todo) : todo'[i + Len(ts) - 1] = todo[i]
  BY DoStep
<1> DEFINE n == Len(ts)  m == Len(todo)
<1>2. n \in Nat /\ m \in Nat \ {0}
  BY <1>1
<1>3. Pending' = {todo'[i] : i \in 1..(n + m - 1)}
  BY <1>1 DEF Pending, Elems
<1>4. Elems(ts) = {ts[i] : i \in 1..n} /\ Later = {todo[i] : i \in 2..m}
      /\ Pending = {todo[i] : i \in 1..m}
  BY DEF Elems, Later, Pending
<1>5. /\ \A i \in 1..n : todo'[i] = ts[i] /\ i \in 1..(n + m - 1)
      /\ \A i \in (n + 1)..(n + m - 1) :
            todo'[i] = todo[i - n + 1] /\ i - n + 1 \in 2..m
      /\ \A i \in 2..m : todo'[i + n - 1] = todo[i] /\ i + n - 1 \in 1..(n + m - 1)
      /\ \A i \in 1..(n + m - 1) : i \in 1..n \/ i \in (n + 1)..(n + m - 1)
  BY <1>1
<1> HIDE DEF n, m
<1>6. Pending' = Elems(ts) \cup Later
  BY <1>3, <1>4, <1>5
<1>7. /\ 1 \in 1..m /\ \A i \in 2..m : i \in 1..m
      /\ \A i \in 1..m : i = 1 \/ i \in 2..m
  BY <1>2
<1>8. Pending = {Head(todo)} \cup Later
  BY <1>1, <1>4, <1>7
<1> QED
  BY <1>6, <1>8

LEMMA OrderedLater ==
  ASSUME todo \in Seq(Tasks), todo # <<>>, OrderedTasks(todo)
  PROVE  \A t \in Later : t.op \notin Bars(Head(todo).op)
<1>1. Len(todo) \in Nat \ {0} /\ Head(todo) = todo[1]
  BY HeadTailProperties
<1> QED
  BY <1>1 DEF OrderedTasks, Later

LEMMA OrderKept ==
  ASSUME todo \in Seq(Tasks), todo # <<>>, NEW ts \in Seq(Tasks), Do(ts),
         OrderedTasks(todo), OrderedTasks(ts),
         \A i \in 1..Len(ts) : Bars(ts[i].op) \subseteq Bars(Head(todo).op)
  PROVE  OrderedTasks(todo')
<1> DEFINE n == Len(ts)  m == Len(todo)
<1>1. /\ n \in Nat /\ m \in Nat \ {0} /\ Head(todo) = todo[1]
      /\ Len(todo') = n + m - 1
      /\ \A i \in 1..n : todo'[i] = ts[i]
      /\ \A i \in (n + 1)..(n + m - 1) : todo'[i] = todo[i - n + 1]
  BY DoStep
<1>2. /\ \A i, j \in 1..n : i < j => ts[j].op \notin Bars(ts[i].op)
      /\ \A i, j \in 1..m : i < j => todo[j].op \notin Bars(todo[i].op)
      /\ \A i \in 1..n : Bars(ts[i].op) \subseteq Bars(todo[1].op)
  BY <1>1 DEF OrderedTasks
<1> HIDE DEF n, m
<1> SUFFICES ASSUME NEW i \in 1..(n + m - 1), NEW j \in 1..(n + m - 1), i < j
             PROVE  todo'[j].op \notin Bars(todo'[i].op)
  BY <1>1 DEF OrderedTasks
<1>3. CASE j <= n
  BY <1>1, <1>2, <1>3
<1>4. CASE i <= n /\ j > n
  <2>1. /\ i \in 1..n /\ j - n + 1 \in 1..m /\ 1 \in 1..m /\ 1 < j - n + 1
        /\ j \in (n + 1)..(n + m - 1)
    BY <1>1, <1>4
  <2>2. todo[j - n + 1].op \notin Bars(todo[1].op)
    BY <1>2, <2>1
  <2> QED
    BY <1>1, <1>2, <2>1, <2>2
<1>5. CASE i > n
  <2>1. /\ i - n + 1 \in 1..m /\ j - n + 1 \in 1..m /\ i - n + 1 < j - n + 1
        /\ i \in (n + 1)..(n + m - 1) /\ j \in (n + 1)..(n + m - 1)
    BY <1>1, <1>5
  <2> QED
    BY <1>1, <1>2, <2>1
<1> QED
  BY <1>1, <1>3, <1>4, <1>5

(* What a step puts in place of the first task is in order.                *)
LEMMA LowOrdered ==
  ASSUME NEW ts \in Seq(Tasks), \A i \in 1..Len(ts) : ts[i].op \in LowOps
  PROVE  /\ OrderedTasks(ts)
         /\ \A i \in 1..Len(ts) : Bars(ts[i].op) = {}
BY DEF OrderedTasks, Bars, LowOps

LEMMA QueueOrdered ==
  ASSUME NEW f \in Functions, NEW args \in Concrete,
         f \in Intrinsics => args # <<>>
  PROVE  LET ts == Queue(f, args) IN
         /\ ts \in Seq(Tasks) /\ OrderedTasks(ts)
         /\ \A i \in 1..Len(ts) : /\ Bars(ts[i].op) \subseteq Bars("call")
                                  /\ ts[i].op \in LowOps \cup {"queue"}
                                  /\ ts[i].op = "queue" =>
                                        ts[i] = [op |-> "queue", f |-> f, args |-> args]
<1> DEFINE n == Len(Signature[f])  ts == Queue(f, args)
<1>1. /\ n \in Nat /\ ts \in Seq(Tasks) /\ Len(ts) = n + 3
      /\ ts[1] = Push(args)
      /\ \A i \in 2..(n + 1) : ts[i].op = "type"
      /\ ts[n + 2] = [op |-> "queue", f |-> f, args |-> args]
      /\ ts[n + 3] = Op("pop")
  BY QueueTyped
<1> HIDE DEF n, ts
<1>2. /\ \A i \in 1..(n + 3) : i # n + 2 => ts[i].op \in LowOps
      /\ ts[n + 2].op = "queue"
  <2>1. ts[1].op \in LowOps /\ ts[n + 3].op \in LowOps
    BY <1>1 DEF Push, Op, LowOps
  <2>2. \A i \in 2..(n + 1) : ts[i].op \in LowOps
    BY <1>1 DEF LowOps
  <2>3. \A i \in 1..(n + 3) : i # n + 2 => i \in {1, n + 3} \/ i \in 2..(n + 1)
    BY <1>1
  <2> QED
    BY <1>1, <2>1, <2>2, <2>3
<1>3. /\ \A op \in LowOps : Bars(op) = {}
      /\ Bars("queue") = Bars("call") /\ "queue" \notin LowOps
      /\ Bars("queue") \cap LowOps = {}
  BY DEF Bars, LowOps
<1>4. OrderedTasks(ts)
  <2> SUFFICES ASSUME NEW i \in 1..(n + 3), NEW j \in 1..(n + 3), i < j
               PROVE  ts[j].op \notin Bars(ts[i].op)
    BY <1>1 DEF OrderedTasks
  <2>1. CASE i # n + 2
    BY <1>2, <1>3, <2>1
  <2>2. CASE i = n + 2
    <3>1. j # n + 2
      BY <2>2
    <3> QED
      BY <1>2, <1>3, <2>2, <3>1
  <2> QED
    BY <2>1, <2>2
<1>5. \A i \in 1..(n + 3) : /\ Bars(ts[i].op) \subseteq Bars("call")
                            /\ ts[i].op \in LowOps \cup {"queue"}
                            /\ ts[i].op = "queue" =>
                                  ts[i] = [op |-> "queue", f |-> f, args |-> args]
  BY <1>1, <1>2, <1>3
<1> QED
  BY <1>1, <1>4, <1>5 DEF ts

LEMMA DeclaringOrdered ==
  ASSUME NEW f \in Functions, f \notin Generic
  PROVE  LET ts == Declaring(f) IN
         /\ ts \in Seq(Tasks) /\ OrderedTasks(ts)
         /\ \A i \in 1..Len(ts) : /\ Bars(ts[i].op) \subseteq Bars("declare")
                                  /\ \/ ts[i].op = "type"
                                     \/ ts[i] = [op |-> "set", f |-> f]
         /\ [op |-> "set", f |-> f] \in Elems(ts)
<1> DEFINE n == Len(Signature[f])  ts == Declaring(f)
<1>1. /\ n \in Nat /\ ts \in Seq(Tasks) /\ Len(ts) = n + 1
      /\ \A i \in 1..n : ts[i].op = "type"
      /\ ts[n + 1] = [op |-> "set", f |-> f]
  BY DeclaringTyped
<1> HIDE DEF n, ts
<1>2. \A i \in 1..(n + 1) : i \in 1..n \/ i = n + 1
  BY <1>1
<1>3. Bars("type") = {} /\ Bars("set") = Bars("declare")
  BY DEF Bars
<1>4. OrderedTasks(ts)
  <2> SUFFICES ASSUME NEW i \in 1..(n + 1), NEW j \in 1..(n + 1), i < j
               PROVE  ts[j].op \notin Bars(ts[i].op)
    BY <1>1 DEF OrderedTasks
  <2>1. i \in 1..n
    BY <1>1
  <2> QED
    BY <1>1, <1>3, <2>1
<1>5. \A i \in 1..(n + 1) : /\ Bars(ts[i].op) \subseteq Bars("declare")
                            /\ ts[i].op = "type" \/ ts[i] = [op |-> "set", f |-> f]
  BY <1>1, <1>2, <1>3
<1>6. n + 1 \in 1..Len(ts)
  BY <1>1
<1> QED
  BY <1>1, <1>4, <1>5, <1>6 DEF ts, Elems

LEMMA ProgramOrdered ==
  ASSUME TypeInv, NEW f \in Functions
  PROVE  /\ OrderedTasks(program[f])
         /\ \A i \in 1..Len(program[f]) : Bars(program[f][i].op) \subseteq Bars("generate")
BY BodyTyped DEF OrderedTasks, Bars

LEMMA BodyOrdered ==
  ASSUME TypeInv, NEW f \in Functions
  PROVE  LET ts == Body(f) IN
         /\ ts \in Seq(Tasks) /\ OrderedTasks(ts)
         /\ \A i \in 1..Len(ts) : /\ Bars(ts[i].op) \subseteq Bars("left")
                                  /\ ts[i].op \in {"type", "call", "bound", "pop", "left"}
<1> DEFINE n == Len(program[f])  ts == Body(f)
<1>1. /\ n \in Nat /\ ts \in Seq(Tasks) /\ Len(ts) = n + 2
      /\ \A i \in 1..n : ts[i].op \in {"type", "call", "bound"}
      /\ ts[n + 1] = Op("pop") /\ ts[n + 2] = Op("left")
  BY LeftBody
<1> HIDE DEF n, ts
<1>2. /\ ts[n + 1].op = "pop" /\ ts[n + 2].op = "left"
      /\ \A i \in 1..(n + 2) : i \in 1..n \/ i = n + 1 \/ i = n + 2
  BY <1>1 DEF Op
<1>3. \A i \in 1..(n + 2) : /\ i < n + 2 => ts[i].op \in {"type", "call", "bound", "pop"}
                            /\ i = n + 2 => ts[i].op = "left"
  BY <1>1, <1>2
<1>4. OrderedTasks(ts)
  <2> SUFFICES ASSUME NEW i \in 1..(n + 2), NEW j \in 1..(n + 2), i < j
               PROVE  ts[j].op \notin Bars(ts[i].op)
    BY <1>1 DEF OrderedTasks
  <2>1. i < n + 2
    BY <1>1
  <2>2. ts[j].op \in {"type", "call", "bound", "pop", "left"}
    BY <1>1, <1>3
  <2> QED
    BY <1>3, <2>1, <2>2 DEF Bars
<1>5. \A i \in 1..(n + 2) : /\ Bars(ts[i].op) \subseteq Bars("left")
                            /\ ts[i].op \in {"type", "call", "bound", "pop", "left"}
  <2>1. \A op \in {"type", "call", "bound", "pop", "left"} : Bars(op) \subseteq Bars("left")
    BY DEF Bars
  <2> QED
    BY <1>1, <1>2, <2>1
<1> QED
  BY <1>1, <1>4, <1>5 DEF ts

LEMMA WorkOrdered == OrderedTasks(Work)
<1> DEFINE n == Len(Required)
<1>1. /\ n \in Nat /\ Len(Work) = 2 * n + 1
      /\ \A i \in 1..n : /\ Work[i] = [op |-> "declare", f |-> Required[i]]
                         /\ Work[n + i] = [op |-> "generate", f |-> Required[i]]
      /\ Work[2 * n + 1] = Op("left")
  BY WorkTyped
<1> HIDE DEF n
<1>2. /\ \A i \in 1..n : Work[i].op = "declare"
      /\ \A i \in (n + 1)..(2 * n) : Work[i].op = "generate"
      /\ Work[2 * n + 1].op = "left"
  <2>1. \A i \in (n + 1)..(2 * n) : \E j \in 1..n : i = n + j
    <3> SUFFICES ASSUME NEW i \in (n + 1)..(2 * n) PROVE \E j \in 1..n : i = n + j
      OBVIOUS
    <3>1. i - n \in 1..n /\ i = n + (i - n)
      BY <1>1
    <3> QED
      BY <3>1
  <2>2. \A i \in 1..n : Work[i].op = "declare" /\ Work[n + i].op = "generate"
    <3> SUFFICES ASSUME NEW i \in 1..n
                 PROVE  Work[i].op = "declare" /\ Work[n + i].op = "generate"
      OBVIOUS
    <3>1. /\ Work[i] = [op |-> "declare", f |-> Required[i]]
          /\ Work[n + i] = [op |-> "generate", f |-> Required[i]]
      BY <1>1
    <3> QED
      BY ONLY <3>1
  <2>3. Work[2 * n + 1].op = "left"
    BY <1>1 DEF Op
  <2> QED
    BY <2>1, <2>2, <2>3
<1> SUFFICES ASSUME NEW i \in 1..(2 * n + 1), NEW j \in 1..(2 * n + 1), i < j
             PROVE  Work[j].op \notin Bars(Work[i].op)
  BY <1>1 DEF OrderedTasks
<1>3. /\ i \in 1..n \/ i \in (n + 1)..(2 * n)
      /\ j \in 1..n \/ j \in (n + 1)..(2 * n) \/ j = 2 * n + 1
      /\ i \in (n + 1)..(2 * n) => j \in (n + 1)..(2 * n) \/ j = 2 * n + 1
  BY <1>1
<1> QED
  BY <1>2, <1>3 DEF Bars

(* The tasks stay in order.                                                *)
LEMMA OrderStep ==
  ASSUME TypeInv, OrderedTasks(todo), [Next]_vars
  PROVE  OrderedTasks(todo')
<1>1. todo \in Seq(Tasks)
  BY DEF TypeInv
<1>2. CASE Idle
  BY <1>2 DEF Idle
<1>3. CASE Lowering
  BY <1>1, <1>3, LowOrdered, OrderKept DEF Lowering
<1>4. CASE Loading
  <2>1. PICK f \in Functions, args \in Concrete :
           (f \in Intrinsics => args # <<>>) /\ GetOrCreate(f, args)
    BY <1>4 DEF Loading
  <2>2. todo # <<>> /\ Bars(Head(todo).op) = Bars("call")
    BY <1>4 DEF Loading, Bars
  <2>3. CASE Do(<<>>)
    BY <1>1, <2>2, <2>3, EmptyTasks, LowOrdered, OrderKept
  <2>4. CASE Do(Queue(f, args))
    BY <1>1, <2>1, <2>2, <2>4, QueueOrdered, OrderKept
  <2> QED
    BY <2>1, <2>3, <2>4 DEF GetOrCreate
<1>5. CASE QueueFunction \/ SetRequired
  <2>1. todo # <<>> /\ Do(<<>>)
    BY <1>5 DEF QueueFunction, SetRequired, Task
  <2> QED
    BY <1>1, <2>1, EmptyTasks, LowOrdered, OrderKept
<1>6. CASE DeclareRequired
  <2>1. /\ todo # <<>> /\ Head(todo).op = "declare"
        /\ Do(IF Head(todo).f \in Generic THEN <<>> ELSE Declaring(Head(todo).f))
    BY <1>6 DEF DeclareRequired, Task, Declaring
  <2>2. Head(todo).f \in Functions
    BY <1>1, <2>1, HeadTailProperties, TaskFields
  <2>3. CASE Head(todo).f \in Generic
    BY <1>1, <2>1, <2>3, EmptyTasks, LowOrdered, OrderKept
  <2>4. CASE Head(todo).f \notin Generic
    BY <1>1, <2>1, <2>2, <2>4, DeclaringOrdered, OrderKept
  <2> QED
    BY <2>3, <2>4
<1>7. CASE Generating
  <2>1. /\ todo # <<>> /\ Head(todo).op = "generate" /\ Head(todo).f \in Functions
        /\ Do(program[Head(todo).f])
    BY <1>7 DEF Generating
  <2> QED
    BY <1>1, <2>1, BodyTyped, ProgramOrdered, OrderKept
<1>8. CASE GeneratingLeft
  <2>1. PICK f \in Functions : todo # <<>> /\ Head(todo).op = "left" /\ Do(Body(f))
    BY <1>8 DEF GeneratingLeft
  <2> QED
    BY <1>1, <2>1, BodyOrdered, OrderKept
<1>9. CASE Filling
  <2>1. PICK ts \in Seq(Tasks) : /\ todo # <<>> /\ Do(ts)
                                 /\ \A i \in 1..Len(ts) : ts[i].op \in LowOps
    BY <1>9 DEF Filling, LowOps
  <2> QED
    BY <1>1, <2>1, LowOrdered, OrderKept
<1>10. CASE NextCompilation
  BY <1>10, WorkOrdered DEF NextCompilation
<1> QED
  BY <1>2, <1>3, <1>4, <1>5, <1>6, <1>7, <1>8, <1>9, <1>10, StepKinds

-----------------------------------------------------------------------------
(* Every instance is declared once.                                        *)

HeavyOps == {"queue", "declare", "set", "generate"}
Heavy == {t \in Pending : t.op \in HeavyOps}
LaterHeavy == {t \in Later : t.op \in HeavyOps}

LeftInstance(i) == Instance(functions_left[i].f, functions_left[i].args)
Distinct == \A i, j \in 1..Len(functions_left) :
               LeftInstance(i) = LeftInstance(j) => i = j

(* The inductive invariant: what is declared has or awaits its body; what  *)
(* is about to be queued is not declared; a required function is declared  *)
(* before its body, and its body is still to come when it is declared.     *)
DeclInv ==
  /\ OrderedTasks(todo)
  /\ \A t \in Heavy : t.op = "queue" => ~Declared(t.f, t.args)
  /\ \A t \in Heavy : t.op = "generate" /\ t.f \notin Generic =>
        \/ Declared(t.f, <<>>)
        \/ \E u \in Heavy : u.op \in {"declare", "set"} /\ u.f = t.f
  /\ \A t \in Heavy : t.op \in {"declare", "set"} /\ t.f \notin Generic =>
        \E u \in Heavy : u.op = "generate" /\ u.f = t.f
  /\ \A f \in Functions : \A args \in DOMAIN ir[f] :
        /\ ir[f][args] = module
        /\ [f |-> f, args |-> args] \in generated \cup Left \cup RequiredLeft
  /\ \A g \in generated \cup Left : g.args \in DOMAIN ir[g.f]
  /\ Left \cap (generated \cup RequiredLeft) = {}
  /\ Distinct

LEMMA HeavyStep ==
  ASSUME todo \in Seq(Tasks), todo # <<>>, NEW ts \in Seq(Tasks), Do(ts)
  PROVE  /\ \A t : t \in Heavy' <=>
               t.op \in HeavyOps /\ (t \in Elems(ts) \/ t \in LaterHeavy)
         /\ \A t : t \in Heavy <=>
               t.op \in HeavyOps /\ (t = Head(todo) \/ t \in LaterHeavy)
         /\ OrderedTasks(todo) =>
               \A t \in LaterHeavy : t.op \notin Bars(Head(todo).op)
BY PendingStep, OrderedLater DEF Heavy, LaterHeavy

LEMMA HeavyRemoved ==
  ASSUME todo \in Seq(Tasks), todo # <<>>, Do(<<>>)
  PROVE  /\ \A t : t \in Heavy' <=> t.op \in HeavyOps /\ t \in LaterHeavy
         /\ \A t : t \in Heavy <=>
               t.op \in HeavyOps /\ (t = Head(todo) \/ t \in LaterHeavy)
         /\ OrderedTasks(todo) =>
               \A t \in LaterHeavy : t.op \notin Bars(Head(todo).op)
<1>1. <<>> \in Seq(Tasks) /\ Elems(<<>>) = {}
  BY EmptyTasks DEF Elems
<1> QED
  BY <1>1, HeavyStep

(* Instances without type arguments of functions without type parameters.  *)
LEMMA PlainInstance ==
  ASSUME NEW f, f \notin Generic, NEW args
  PROVE  Instance(f, args) = [f |-> f, args |-> <<>>] /\ Slot(f, args) = <<>>
BY DEF Instance, Slot

RequiredAreHeavy ==
  \A x : x \in RequiredLeft <=>
           \E t \in Heavy : /\ t.op = "generate" /\ t.f \notin Generic
                            /\ x = [f |-> t.f, args |-> <<>>]

LEMMA RequiredLeftHeavy == TypeInv => RequiredAreHeavy
<1> SUFFICES ASSUME TypeInv, NEW x
             PROVE  x \in RequiredLeft <=>
                      \E t \in Heavy : /\ t.op = "generate" /\ t.f \notin Generic
                                       /\ x = [f |-> t.f, args |-> <<>>]
  BY DEF RequiredAreHeavy
<1>1. DOMAIN todo = 1..Len(todo)
  BY LenProperties DEF TypeInv
<1>2. \A f : f \notin Generic => Instance(f, <<>>) = [f |-> f, args |-> <<>>]
  BY PlainInstance
<1> QED
  BY <1>1, <1>2 DEF RequiredLeft, Heavy, HeavyOps, Pending, Elems

LEMMA RequiredLeftHeavyNext == TypeInv' => RequiredAreHeavy'
BY RequiredLeftHeavy, PTL

LEMMA LeftElements ==
  ASSUME TypeInv
  PROVE  /\ \A x : x \in Left <=> \E i \in 1..Len(functions_left) : x = LeftInstance(i)
         /\ \A i \in 1..Len(functions_left) :
               /\ functions_left[i] \in [f: Functions, args: Concrete]
               /\ LeftInstance(i) \in [f: Functions, args: Concrete]
<1>1. functions_left \in Seq([f: Functions, args: Concrete])
  BY DEF TypeInv
<1>2. /\ DOMAIN functions_left = 1..Len(functions_left)
      /\ \A i \in 1..Len(functions_left) :
            functions_left[i] \in [f: Functions, args: Concrete]
  BY <1>1, LenProperties, ElementOfSeq
<1>3. \A i \in 1..Len(functions_left) :
         LeftInstance(i) \in [f: Functions, args: Concrete]
  BY <1>2, SlotConcrete DEF LeftInstance
<1> QED
  BY <1>2, <1>3 DEF Left, LeftInstance

LEMMA LeftAppended ==
  ASSUME TypeInv, Distinct, NEW f \in Functions, NEW args \in Concrete,
         functions_left' = Append(functions_left, [f |-> f, args |-> args]),
         Instance(f, args) \notin Left
  PROVE  Distinct' /\ Left' = Left \cup {Instance(f, args)}
<1>0. PICK n : n = Len(functions_left)
  OBVIOUS
<1>1. /\ n \in Nat /\ Len(functions_left') = n + 1
      /\ DOMAIN functions_left' = 1..(n + 1) /\ DOMAIN functions_left = 1..n
      /\ \A i \in 1..n : functions_left'[i] = functions_left[i]
      /\ functions_left'[n + 1] = [f |-> f, args |-> args]
  <2>1. functions_left \in Seq([f: Functions, args: Concrete])
    BY DEF TypeInv
  <2> QED
    BY <1>0, <2>1, AppendProperties, LenProperties
<1>2. /\ \A i \in 1..n : LeftInstance(i)' = LeftInstance(i)
      /\ LeftInstance(n + 1)' = Instance(f, args)
  <2>1. /\ functions_left'[n + 1].f = f /\ functions_left'[n + 1].args = args
        /\ \A i \in 1..n : functions_left'[i] = functions_left[i]
    BY <1>1
  <2> QED
    BY <2>1 DEF LeftInstance
<1>3. \A i \in 1..n : LeftInstance(i) \in Left
  BY <1>0, LeftElements
<1>4. Distinct'
  <2> SUFFICES ASSUME NEW i \in 1..(n + 1), NEW j \in 1..(n + 1),
                      LeftInstance(i)' = LeftInstance(j)'
               PROVE  i = j
    BY <1>1 DEF Distinct
  <2>1. \A k \in 1..(n + 1) : k \in 1..n \/ k = n + 1
    BY <1>1
  <2>2. \A k, l \in 1..n : LeftInstance(k) = LeftInstance(l) => k = l
    BY <1>0 DEF Distinct
  <2> QED
    BY <1>2, <1>3, <2>1, <2>2
<1>5. /\ Left = {LeftInstance(i) : i \in 1..n}
      /\ Left' = {LeftInstance(i)' : i \in 1..(n + 1)}
  BY <1>1 DEF Left, LeftInstance
<1>6. \A k : k \in 1..(n + 1) <=> k \in 1..n \/ k = n + 1
  BY <1>1
<1>7. ASSUME NEW x
      PROVE  x \in Left' <=> x \in Left \cup {Instance(f, args)}
  BY <1>2, <1>5, <1>6
<1>8. Left' = Left \cup {Instance(f, args)}
  BY <1>7
<1> QED
  BY <1>4, <1>8

LEMMA LeftTaken ==
  ASSUME TypeInv, Distinct, functions_left # <<>>,
         functions_left' = Front(functions_left)
  PROVE  LET x == LeftInstance(Len(functions_left)) IN
         /\ Distinct' /\ x \notin Left' /\ Left = Left' \cup {x}
<1>0. PICK n : n = Len(functions_left)
  OBVIOUS
<1>1. /\ n \in Nat \ {0} /\ Len(functions_left') = n - 1
      /\ DOMAIN functions_left' = 1..(n - 1) /\ DOMAIN functions_left = 1..n
      /\ \A i \in 1..(n - 1) : functions_left'[i] = functions_left[i]
  <2>1. functions_left \in Seq([f: Functions, args: Concrete])
    BY DEF TypeInv
  <2>2. /\ functions_left' \in Seq([f: Functions, args: Concrete])
        /\ n \in Nat \ {0} /\ Len(functions_left') = n - 1
        /\ \A i \in 1..(n - 1) : functions_left'[i] = functions_left[i]
    BY <1>0, <2>1, FrontProperties
  <2> QED
    BY <1>0, <2>1, <2>2, LenProperties
<1>2. \A i \in 1..(n - 1) : LeftInstance(i)' = LeftInstance(i)
  BY <1>1 DEF LeftInstance
<1>3. \A k, l \in 1..n : LeftInstance(k) = LeftInstance(l) => k = l
  BY <1>0 DEF Distinct
<1>4. \A k : k \in 1..n <=> k \in 1..(n - 1) \/ k = n
  BY <1>1
<1>5. Distinct'
  BY <1>1, <1>2, <1>3, <1>4 DEF Distinct
<1>6. /\ Left = {LeftInstance(i) : i \in 1..n}
      /\ Left' = {LeftInstance(i)' : i \in 1..(n - 1)}
  BY <1>1 DEF Left, LeftInstance
<1>7. n \notin 1..(n - 1) /\ n \in 1..n
  BY <1>1
<1>8. ASSUME NEW x
      PROVE  x \in Left <=> x \in Left' \cup {LeftInstance(n)}
  BY <1>2, <1>4, <1>6
<1>9. LeftInstance(n) \notin Left'
  BY <1>2, <1>3, <1>4, <1>6, <1>7
<1> QED
  BY <1>0, <1>5, <1>8, <1>9

LEMMA HeavyTyped ==
  ASSUME TypeInv
  PROVE  \A t \in Heavy : /\ t \in Tasks /\ t.f \in Functions
                          /\ t.op = "queue" => t.args \in Concrete
<1>1. \A t \in Pending : t \in Tasks
  BY ElementOfSeq DEF TypeInv, Pending, Elems
<1> QED
  BY <1>1, TaskFields DEF Heavy, HeavyOps

(* Nothing of it changes.                                                  *)
LEMMA DeclSame ==
  ASSUME TypeInv, TypeInv', DeclInv, OrderedTasks(todo'), Heavy' = Heavy,
         UNCHANGED <<module, ir, functions_left, generated>>
  PROVE  DeclInv'
<1>1. RequiredLeft' = RequiredLeft
  <2>1. RequiredAreHeavy /\ RequiredAreHeavy'
    BY RequiredLeftHeavy, RequiredLeftHeavyNext
  <2>2. \A x : x \in RequiredLeft <=> x \in RequiredLeft'
    BY <2>1 DEF RequiredAreHeavy
  <2> QED
    BY <2>2
<1>2. Left' = Left /\ Distinct' = Distinct
  BY DEF Left, Distinct, LeftInstance
<1>3. \A f, args : Declared(f, args)' <=> Declared(f, args)
  BY DEF Declared
<1> QED
  BY <1>1, <1>2, <1>3 DEF DeclInv

(* A function is queued once its signature is lowered.                     *)
LEMMA DeclLoading ==
  ASSUME TypeInv, TypeInv', DeclInv, OrderedTasks(todo'), Loading
  PROVE  DeclInv'
<1>1. PICK f \in Functions, args \in Concrete :
         (f \in Intrinsics => args # <<>>) /\ GetOrCreate(f, args)
  BY DEF Loading
<1>2. /\ todo \in Seq(Tasks) /\ todo # <<>> /\ Head(todo).op \in {"call", "bound"}
      /\ OrderedTasks(todo) /\ UNCHANGED <<module, ir, functions_left, generated>>
  BY DEF Loading, TypeInv, DeclInv
<1>3. CASE Do(<<>>)
  <2>1. Heavy' = Heavy
    <3>1. \A t : t \in Heavy' <=> t \in Heavy
      BY <1>2, <1>3, HeavyRemoved DEF HeavyOps
    <3> QED
      BY <3>1
  <2> QED
    BY <1>2, <2>1, DeclSame
<1>4. CASE ~Declared(f, args) /\ Do(Queue(f, args))
  <2> DEFINE q == [op |-> "queue", f |-> f, args |-> args]
  <2>1. /\ Queue(f, args) \in Seq(Tasks)
        /\ \A t \in Elems(Queue(f, args)) : t.op \in HeavyOps => t = q
    BY <1>1, QueueOrdered DEF Elems, HeavyOps, LowOps
  <2>2. \A t \in Heavy' : t = q \/ t \in Heavy
    BY <1>2, <1>4, <2>1, HeavyStep
  <2>3. \A t \in Heavy : t.op = "generate" /\ t \in Heavy'
    <3>1. \A t \in Heavy : /\ t.op \in HeavyOps /\ t \in LaterHeavy
                           /\ t.op \notin {"declare", "set", "queue"}
      BY <1>2, <1>4, <2>1, HeavyStep DEF HeavyOps, Bars
    <3> QED
      BY <1>2, <1>4, <2>1, <3>1, HeavyStep DEF HeavyOps
  <2>4. RequiredLeft' = RequiredLeft
    <3>1. RequiredAreHeavy /\ RequiredAreHeavy'
      BY RequiredLeftHeavy, RequiredLeftHeavyNext
    <3>2. \A x : x \in RequiredLeft <=> x \in RequiredLeft'
      BY <2>2, <2>3, <3>1 DEF RequiredAreHeavy
    <3> QED
      BY <3>2
  <2>5. Left' = Left /\ Distinct' = Distinct
    BY <1>2 DEF Left, Distinct, LeftInstance
  <2>6. \A x, y : Declared(x, y)' <=> Declared(x, y)
    BY <1>2 DEF Declared
  <2>7. \A t \in Heavy' : t.op = "queue" => ~Declared(t.f, t.args)'
    BY <1>4, <2>2, <2>3, <2>6
  <2>8. \A t \in Heavy' : t.op = "generate" /\ t.f \notin Generic =>
           Declared(t.f, <<>>)'
    BY <2>2, <2>3, <2>6 DEF DeclInv
  <2>9. \A t \in Heavy' : t.op \notin {"declare", "set"}
    BY <2>2, <2>3
  <2> HIDE DEF q
  <2> QED
    BY <1>2, <2>4, <2>5, <2>7, <2>8, <2>9 DEF DeclInv
<1> QED
  BY <1>1, <1>3, <1>4 DEF GetOrCreate

(* The instance is added to the adapter and to functions_left.             *)
LEMMA DeclQueue ==
  ASSUME TypeInv, TypeInv', DeclInv, OrderedTasks(todo'), QueueFunction
  PROVE  DeclInv'
<1> DEFINE q == Head(todo)  f == q.f  args == q.args
           new == [f |-> f, args |-> Slot(f, args)]
<1>1. /\ todo \in Seq(Tasks) /\ todo # <<>> /\ q.op = "queue" /\ Do(<<>>)
      /\ OrderedTasks(todo) /\ AddInst(f, args)
      /\ functions_left' = Append(functions_left, [f |-> f, args |-> args])
      /\ UNCHANGED <<module, generated>>
  BY DEF QueueFunction, Task, TypeInv, DeclInv
<1>2. f \in Functions /\ args \in Concrete
  BY <1>1, HeadTailProperties, TaskFields
<1>3. /\ \A t : t \in Heavy' <=> t.op \in HeavyOps /\ t \in LaterHeavy
      /\ \A t : t \in Heavy <=> t.op \in HeavyOps /\ (t = q \/ t \in LaterHeavy)
      /\ \A t \in LaterHeavy : t.op \notin Bars("queue")
  BY <1>1, HeavyRemoved
<1>4. \A t : t \in Heavy' => t \in Heavy /\ t.op \in {"queue", "generate"}
  BY <1>3 DEF Bars, HeavyOps
<1>5. \A t \in Heavy' : t.op = "generate"
  <2>1. \A t \in LaterHeavy : t.op # "queue"
    BY <1>3 DEF Bars
  <2> QED
    BY <1>3, <1>4, <2>1
<1>6. q \in Heavy /\ ~Declared(f, args)
  BY <1>1, <1>3 DEF HeavyOps, DeclInv
<1>7. Instance(f, args) = new
  BY DEF Instance
<1>8. \A t \in Heavy : t.op = "generate" /\ t.f \notin Generic => Declared(t.f, <<>>)
  BY <1>1, <1>3 DEF DeclInv, Bars
<1>9. new \notin generated \cup Left \cup RequiredLeft
  <2>1. new \notin generated \cup Left
    BY <1>6 DEF DeclInv, Declared
  <2>2. new \notin RequiredLeft
    <3>1. ASSUME NEW t \in Heavy, t.op = "generate", t.f \notin Generic,
                 new = [f |-> t.f, args |-> <<>>]
          PROVE  FALSE
      <4>1. t.f = f /\ Slot(f, args) = <<>>
        BY <3>1
      <4>2. Declared(f, <<>>) /\ Slot(f, <<>>) = <<>>
        BY <1>8, <3>1, <4>1, PlainInstance
      <4> QED
        BY <1>6, <4>1, <4>2 DEF Declared
    <3> QED
      BY <3>1, RequiredLeftHeavy DEF RequiredAreHeavy
  <2> QED
    BY <2>1, <2>2
<1>10. Distinct' /\ Left' = Left \cup {new}
  BY <1>1, <1>2, <1>7, <1>9, LeftAppended DEF DeclInv
<1>11. RequiredLeft' = RequiredLeft
  <2>1. RequiredAreHeavy /\ RequiredAreHeavy'
    BY RequiredLeftHeavy, RequiredLeftHeavyNext
  <2>2. \A t : t.op = "generate" => (t \in Heavy' <=> t \in Heavy)
    BY <1>1, <1>3
  <2>3. \A x : x \in RequiredLeft <=> x \in RequiredLeft'
    BY <2>1, <2>2 DEF RequiredAreHeavy
  <2> QED
    BY <2>3
<1>12. /\ \A x \in Functions : x # f => ir'[x] = ir[x]
       /\ DOMAIN ir'[f] = DOMAIN ir[f] \cup {Slot(f, args)}
       /\ \A x \in DOMAIN ir'[f] :
             ir'[f][x] = IF x = Slot(f, args) THEN module ELSE ir[f][x]
  BY <1>1, <1>2, Added DEF TypeInv
<1>13. \A x \in Functions : DOMAIN ir[x] \subseteq DOMAIN ir'[x]
  BY <1>12
<1>14. \A t \in Heavy' : t.op = "generate" /\ t.f \notin Generic =>
          Declared(t.f, <<>>)'
  <2>1. \A t \in Heavy' : t.f \in Functions
    BY <1>4, HeavyTyped
  <2> QED
    BY <1>4, <1>8, <1>13, <2>1 DEF Declared
<1>15. \A g \in generated' \cup Left' : g.args \in DOMAIN ir'[g.f]
  <2>1. \A g \in generated \cup Left : g.f \in Functions /\ g.args \in DOMAIN ir[g.f]
    BY LeftElements DEF DeclInv, TypeInv
  <2>2. new.args \in DOMAIN ir'[new.f]
    BY <1>12
  <2> QED
    BY <1>1, <1>10, <1>13, <2>1, <2>2
<1>16. \A x \in Functions : \A a \in DOMAIN ir'[x] :
          /\ ir'[x][a] = module'
          /\ [f |-> x, args |-> a] \in generated' \cup Left' \cup RequiredLeft'
  <2> SUFFICES ASSUME NEW x \in Functions, NEW a \in DOMAIN ir'[x]
               PROVE  /\ ir'[x][a] = module
                      /\ [f |-> x, args |-> a] \in generated \cup Left'
                                                    \cup RequiredLeft
    BY <1>1, <1>11
  <2>1. CASE a \in DOMAIN ir[x] /\ ~(x = f /\ a = Slot(f, args))
    BY <1>10, <1>12, <2>1 DEF DeclInv
  <2>2. CASE x = f /\ a = Slot(f, args)
    BY <1>10, <1>12, <2>2
  <2> QED
    BY <1>12, <2>1, <2>2
<1>17. Left' \cap (generated' \cup RequiredLeft') = {}
  BY <1>1, <1>9, <1>10, <1>11 DEF DeclInv
<1> HIDE DEF q, f, args, new
<1> QED
  BY <1>5, <1>10, <1>14, <1>15, <1>16, <1>17 DEF DeclInv

(* A required function with type parameters is not declared; another will  *)
(* be when its signature is lowered.                                       *)
LEMMA DeclDeclare ==
  ASSUME TypeInv, TypeInv', DeclInv, OrderedTasks(todo'), DeclareRequired
  PROVE  DeclInv'
<1> DEFINE d == Head(todo)  f == d.f  set == [op |-> "set", f |-> f]
<1>1. /\ todo \in Seq(Tasks) /\ todo # <<>> /\ d.op = "declare"
      /\ Do(IF f \in Generic THEN <<>> ELSE Declaring(f))
      /\ OrderedTasks(todo)
      /\ UNCHANGED <<module, ir, functions_left, generated>>
  BY DEF DeclareRequired, Task, TypeInv, DeclInv, Declaring
<1>2. f \in Functions
  BY <1>1, HeadTailProperties, TaskFields
<1> DEFINE ts == IF f \in Generic THEN <<>> ELSE Declaring(f)
<1>3. /\ ts \in Seq(Tasks) /\ Do(ts)
      /\ f \in Generic => Elems(ts) = {}
      /\ f \notin Generic => /\ set \in Elems(ts)
                             /\ \A t \in Elems(ts) : t.op \in HeavyOps => t = set
  <2>1. CASE f \in Generic
    BY <1>1, <2>1, EmptyTasks DEF Elems
  <2>2. CASE f \notin Generic
    BY <1>1, <1>2, <2>2, DeclaringOrdered DEF Elems, HeavyOps
  <2> QED
    BY <2>1, <2>2
<1> HIDE DEF ts
<1>4. /\ \A t : t \in Heavy' <=>
               t.op \in HeavyOps /\ (t \in Elems(ts) \/ t \in LaterHeavy)
      /\ \A t : t \in Heavy <=> t.op \in HeavyOps /\ (t = d \/ t \in LaterHeavy)
      /\ \A t \in LaterHeavy : t.op # "queue"
  <2>1. \A t \in LaterHeavy : t.op \notin Bars(d.op)
    BY <1>1, <1>3, HeavyStep
  <2> QED
    BY <1>1, <1>3, <2>1, HeavyStep DEF Bars
<1>5. \A t \in Heavy' : t \in Heavy \/ (f \notin Generic /\ t = set)
  BY <1>3, <1>4
<1>6. \A t \in Heavy : t \in Heavy' \/ t = d
  BY <1>3, <1>4
<1>7. f \notin Generic => set \in Heavy'
  BY <1>3, <1>4 DEF HeavyOps
<1>8. d \in Heavy
  BY <1>1, <1>4 DEF HeavyOps
<1>9. RequiredLeft' = RequiredLeft
  <2>1. RequiredAreHeavy /\ RequiredAreHeavy'
    BY RequiredLeftHeavy, RequiredLeftHeavyNext
  <2>2. \A t : t.op = "generate" => (t \in Heavy' <=> t \in Heavy)
    BY <1>1, <1>5, <1>6
  <2>3. \A x : x \in RequiredLeft <=> x \in RequiredLeft'
    BY <2>1, <2>2 DEF RequiredAreHeavy
  <2> QED
    BY <2>3
<1>10. Left' = Left /\ Distinct' = Distinct
  BY <1>1 DEF Left, Distinct, LeftInstance
<1>11. \A x, y : Declared(x, y)' <=> Declared(x, y)
  BY <1>1 DEF Declared
<1>12. \A t \in Heavy' : t.op # "queue"
  BY <1>1, <1>3, <1>4
<1>13. \A t \in Heavy' : t.op = "generate" /\ t.f \notin Generic =>
          \/ Declared(t.f, <<>>)'
          \/ \E u \in Heavy' : u.op \in {"declare", "set"} /\ u.f = t.f
  <2> SUFFICES ASSUME NEW t \in Heavy', t.op = "generate", t.f \notin Generic,
                      ~Declared(t.f, <<>>)
               PROVE  \E u \in Heavy' : u.op \in {"declare", "set"} /\ u.f = t.f
    BY <1>11
  <2>1. t \in Heavy
    BY <1>5
  <2>2. PICK u \in Heavy : u.op \in {"declare", "set"} /\ u.f = t.f
    BY <2>1 DEF DeclInv
  <2>3. CASE u \in Heavy'
    BY <2>2, <2>3
  <2>4. CASE u = d
    BY <1>7, <2>2, <2>4
  <2> QED
    BY <1>6, <2>3, <2>4
<1>14. \A t \in Heavy' : t.op \in {"declare", "set"} /\ t.f \notin Generic =>
          \E u \in Heavy' : u.op = "generate" /\ u.f = t.f
  <2> SUFFICES ASSUME NEW t \in Heavy', t.op \in {"declare", "set"},
                      t.f \notin Generic
               PROVE  \E u \in Heavy' : u.op = "generate" /\ u.f = t.f
    OBVIOUS
  <2>1. PICK v \in Heavy : v.op \in {"declare", "set"} /\ v.f = t.f
    BY <1>1, <1>5, <1>8
  <2>2. PICK u \in Heavy : u.op = "generate" /\ u.f = t.f
    BY <2>1 DEF DeclInv
  <2> QED
    BY <1>1, <1>6, <2>2
<1> HIDE DEF d, f, set
<1> QED
  BY <1>1, <1>9, <1>10, <1>12, <1>13, <1>14 DEF DeclInv

LEMMA DeclSet ==
  ASSUME TypeInv, TypeInv', DeclInv, OrderedTasks(todo'), SetRequired
  PROVE  DeclInv'
<1> DEFINE d == Head(todo)  f == d.f  new == [f |-> f, args |-> <<>>]
<1>1. /\ todo \in Seq(Tasks) /\ todo # <<>> /\ d.op = "set" /\ Do(<<>>)
      /\ OrderedTasks(todo) /\ AddInst(f, <<>>)
      /\ UNCHANGED <<module, functions_left, generated>>
  BY DEF SetRequired, Task, TypeInv, DeclInv
<1>2. f \in Functions /\ f \notin Generic /\ Slot(f, <<>>) = <<>>
  <2>1. f \in Functions /\ f \notin Generic
    BY <1>1, HeadTailProperties, TaskFields
  <2> QED
    BY <2>1, PlainInstance
<1>3. /\ \A t : t \in Heavy' <=> t.op \in HeavyOps /\ t \in LaterHeavy
      /\ \A t : t \in Heavy <=> t.op \in HeavyOps /\ (t = d \/ t \in LaterHeavy)
      /\ \A t \in LaterHeavy : t.op # "queue"
  <2>1. \A t \in LaterHeavy : t.op \notin Bars(d.op)
    BY <1>1, HeavyRemoved
  <2> QED
    BY <1>1, <2>1, HeavyRemoved DEF Bars
<1>4. /\ \A t \in Heavy' : t \in Heavy
      /\ \A t \in Heavy : t \in Heavy' \/ t = d
  BY <1>3
<1>5. d \in Heavy
  BY <1>1, <1>3 DEF HeavyOps
<1>6. RequiredLeft' = RequiredLeft
  <2>1. RequiredAreHeavy /\ RequiredAreHeavy'
    BY RequiredLeftHeavy, RequiredLeftHeavyNext
  <2>2. \A t : t.op = "generate" => (t \in Heavy' <=> t \in Heavy)
    BY <1>1, <1>4
  <2>3. \A x : x \in RequiredLeft <=> x \in RequiredLeft'
    BY <2>1, <2>2 DEF RequiredAreHeavy
  <2> QED
    BY <2>3
<1>7. Left' = Left /\ Distinct' = Distinct
  BY <1>1 DEF Left, Distinct, LeftInstance
<1>8. new \in RequiredLeft
  <2>1. PICK u \in Heavy : u.op = "generate" /\ u.f = f
    BY <1>1, <1>2, <1>5 DEF DeclInv
  <2> QED
    BY <1>2, <2>1, RequiredLeftHeavy DEF RequiredAreHeavy
<1>9. /\ \A x \in Functions : x # f => ir'[x] = ir[x]
      /\ DOMAIN ir'[f] = DOMAIN ir[f] \cup {<<>>}
      /\ \A x \in DOMAIN ir'[f] :
            ir'[f][x] = IF x = <<>> THEN module ELSE ir[f][x]
  BY <1>1, <1>2, Added DEF TypeInv
<1>10. \A x \in Functions : DOMAIN ir[x] \subseteq DOMAIN ir'[x]
  BY <1>9
<1>11. \A t \in Heavy' : t.op # "queue"
  BY <1>3
<1>12. \A t \in Heavy' : t.op = "generate" /\ t.f \notin Generic =>
          \/ Declared(t.f, <<>>)'
          \/ \E u \in Heavy' : u.op \in {"declare", "set"} /\ u.f = t.f
  <2> SUFFICES ASSUME NEW t \in Heavy', t.op = "generate", t.f \notin Generic,
                      \A u \in Heavy' : ~(u.op \in {"declare", "set"} /\ u.f = t.f)
               PROVE  Declared(t.f, <<>>)'
    OBVIOUS
  <2>1. t \in Heavy /\ t.f \in Functions
    BY <1>4, HeavyTyped
  <2>2. CASE Declared(t.f, <<>>)
    BY <1>10, <2>1, <2>2 DEF Declared
  <2>3. CASE ~Declared(t.f, <<>>)
    <3>1. PICK u \in Heavy : u.op \in {"declare", "set"} /\ u.f = t.f
      BY <2>1, <2>3 DEF DeclInv
    <3>2. t.f = f
      BY <1>4, <3>1
    <3> QED
      BY <1>2, <1>9, <3>2 DEF Declared
  <2> QED
    BY <2>2, <2>3
<1>13. \A t \in Heavy' : t.op \in {"declare", "set"} /\ t.f \notin Generic =>
          \E u \in Heavy' : u.op = "generate" /\ u.f = t.f
  <2> SUFFICES ASSUME NEW t \in Heavy', t.op \in {"declare", "set"},
                      t.f \notin Generic
               PROVE  \E u \in Heavy' : u.op = "generate" /\ u.f = t.f
    OBVIOUS
  <2>1. PICK u \in Heavy : u.op = "generate" /\ u.f = t.f
    BY <1>4 DEF DeclInv
  <2> QED
    BY <1>1, <1>4, <2>1
<1>14. \A g \in generated \cup Left : g.args \in DOMAIN ir'[g.f]
  <2>1. \A g \in generated \cup Left : g.f \in Functions /\ g.args \in DOMAIN ir[g.f]
    BY LeftElements DEF DeclInv, TypeInv
  <2> QED
    BY <1>10, <2>1
<1>15. \A x \in Functions : \A a \in DOMAIN ir'[x] :
          /\ ir'[x][a] = module
          /\ [f |-> x, args |-> a] \in generated \cup Left \cup RequiredLeft
  <2> SUFFICES ASSUME NEW x \in Functions, NEW a \in DOMAIN ir'[x]
               PROVE  /\ ir'[x][a] = module
                      /\ [f |-> x, args |-> a] \in generated \cup Left
                                                    \cup RequiredLeft
    OBVIOUS
  <2>1. CASE a \in DOMAIN ir[x] /\ ~(x = f /\ a = <<>>)
    BY <1>9, <2>1 DEF DeclInv
  <2>2. CASE x = f /\ a = <<>>
    BY <1>8, <1>9, <2>2
  <2> QED
    BY <1>9, <2>1, <2>2
<1> HIDE DEF d, f, new
<1> QED
  BY <1>1, <1>6, <1>7, <1>11, <1>12, <1>13, <1>14, <1>15 DEF DeclInv

(* A required function is taken for generation.                            *)
LEMMA DeclGenerating ==
  ASSUME TypeInv, TypeInv', DeclInv, OrderedTasks(todo'), Generating
  PROVE  DeclInv'
<1> DEFINE d == Head(todo)  f == d.f  new == [f |-> f, args |-> <<>>]
<1>1. /\ todo \in Seq(Tasks) /\ todo # <<>> /\ d.op = "generate" /\ Do(program[f])
      /\ f \in Functions /\ f \notin Generic
      /\ OrderedTasks(todo) /\ generated' = generated \cup {Instance(f, <<>>)}
      /\ UNCHANGED <<module, ir, functions_left>>
  BY DEF Generating, TypeInv, DeclInv
<1>2. Instance(f, <<>>) = new
  BY <1>1, PlainInstance
<1>3. /\ program[f] \in Seq(Tasks)
      /\ \A t \in Elems(program[f]) : t.op \notin HeavyOps
  BY <1>1, BodyTyped DEF Elems, HeavyOps
<1>4. /\ \A t : t \in Heavy' <=> t.op \in HeavyOps /\ t \in LaterHeavy
      /\ \A t : t \in Heavy <=> t.op \in HeavyOps /\ (t = d \/ t \in LaterHeavy)
      /\ \A t \in LaterHeavy : t.op \notin {"declare", "set", "queue"}
  <2>1. \A t \in LaterHeavy : t.op \notin Bars(d.op)
    BY <1>1, <1>3, HeavyStep
  <2> QED
    BY <1>1, <1>3, <2>1, HeavyStep DEF Bars
<1>5. /\ \A t \in Heavy' : t \in Heavy /\ t.op = "generate"
      /\ \A t \in Heavy : t.op = "generate" /\ (t \in Heavy' \/ t = d)
      /\ d \in Heavy
  BY <1>1, <1>4 DEF HeavyOps
<1>6. \A t \in Heavy : t.op = "generate" /\ t.f \notin Generic => Declared(t.f, <<>>)
  BY <1>5 DEF DeclInv
<1>7. \A x : x \in RequiredLeft <=> x \in RequiredLeft' \cup {new}
  <2>1. RequiredAreHeavy /\ RequiredAreHeavy'
    BY RequiredLeftHeavy, RequiredLeftHeavyNext
  <2>2. \A x : x \in RequiredLeft <=>
                 \E t \in Heavy : t.f \notin Generic /\ x = [f |-> t.f, args |-> <<>>]
    BY <1>5, <2>1 DEF RequiredAreHeavy
  <2>3. \A x : x \in RequiredLeft' <=>
                 \E t \in Heavy' : t.f \notin Generic /\ x = [f |-> t.f, args |-> <<>>]
    BY <1>5, <2>1 DEF RequiredAreHeavy
  <2> QED
    BY <1>1, <1>5, <2>2, <2>3
<1>8. Left' = Left /\ Distinct' = Distinct
  BY <1>1 DEF Left, Distinct, LeftInstance
<1>9. \A x, y : Declared(x, y)' <=> Declared(x, y)
  BY <1>1 DEF Declared
<1>10. new.args \in DOMAIN ir[new.f]
  BY <1>1, <1>5, <1>6, PlainInstance DEF Declared
<1>11. \A t \in Heavy' : /\ t.op = "generate"
                         /\ t.f \notin Generic => Declared(t.f, <<>>)'
  BY <1>5, <1>6, <1>9
<1> HIDE DEF d, f, new
<1> QED
  BY <1>1, <1>2, <1>7, <1>8, <1>10, <1>11 DEF DeclInv

(* The last of functions_left is taken for generation.                     *)
LEMMA DeclGeneratingLeft ==
  ASSUME TypeInv, TypeInv', DeclInv, OrderedTasks(todo'), GeneratingLeft
  PROVE  DeclInv'
<1> DEFINE x == LeftInstance(Len(functions_left))
<1>1. /\ todo \in Seq(Tasks) /\ todo # <<>> /\ Head(todo).op = "left"
      /\ \E f \in Functions : Do(Body(f))
      /\ functions_left # <<>> /\ functions_left' = Front(functions_left)
      /\ generated' = generated \cup {x}
      /\ OrderedTasks(todo) /\ UNCHANGED <<module, ir>>
  BY DEF GeneratingLeft, TypeInv, DeclInv, LeftInstance
<1>2. Heavy' = Heavy
  <2>1. PICK f \in Functions : Do(Body(f))
    BY <1>1
  <2>2. /\ Body(f) \in Seq(Tasks)
        /\ \A t \in Elems(Body(f)) : t.op \notin HeavyOps
    BY BodyOrdered DEF Elems, HeavyOps
  <2>3. \A t : t \in Heavy' <=> t \in Heavy
    BY <1>1, <2>1, <2>2, HeavyStep DEF HeavyOps
  <2> QED
    BY <2>3
<1>3. RequiredLeft' = RequiredLeft
  <2>1. RequiredAreHeavy /\ RequiredAreHeavy'
    BY RequiredLeftHeavy, RequiredLeftHeavyNext
  <2>2. \A y : y \in RequiredLeft <=> y \in RequiredLeft'
    BY <1>2, <2>1 DEF RequiredAreHeavy
  <2> QED
    BY <2>2
<1>4. Distinct' /\ x \notin Left' /\ Left = Left' \cup {x}
  BY <1>1, LeftTaken DEF DeclInv
<1>5. \A f, args : Declared(f, args)' <=> Declared(f, args)
  BY <1>1 DEF Declared
<1> HIDE DEF x
<1>6. Left' \cap (generated' \cup RequiredLeft') = {}
  BY <1>1, <1>3, <1>4 DEF DeclInv
<1>7. generated' \cup Left' = generated \cup Left
  BY <1>1, <1>4
<1> QED
  BY <1>1, <1>2, <1>3, <1>4, <1>5, <1>6, <1>7 DEF DeclInv

LEMMA DeclStart ==
  ASSUME todo = Work, functions_left = <<>>, generated = {}, TypeInv,
         \A f \in Functions : DOMAIN ir[f] = {}
  PROVE  DeclInv
<1> DEFINE n == Len(Required)
<1>1. /\ n \in Nat /\ Len(Work) = 2 * n + 1
      /\ \A i \in 1..n : /\ Work[i] = [op |-> "declare", f |-> Required[i]]
                         /\ Work[n + i] = [op |-> "generate", f |-> Required[i]]
      /\ Work[2 * n + 1] = Op("left")
  BY WorkTyped
<1> HIDE DEF n
<1>2. \A t \in Heavy : \E i \in 1..n : t \in {[op |-> "declare", f |-> Required[i]],
                                              [op |-> "generate", f |-> Required[i]]}
  <2> SUFFICES ASSUME NEW i \in 1..(2 * n + 1), Work[i].op \in HeavyOps
               PROVE  \E j \in 1..n : Work[i] \in {[op |-> "declare", f |-> Required[j]],
                                                   [op |-> "generate", f |-> Required[j]]}
    BY <1>1 DEF Heavy, Pending, Elems
  <2>1. CASE i \in 1..n
    BY <1>1, <2>1
  <2>2. CASE i \in (n + 1)..(2 * n)
    <3>1. i - n \in 1..n /\ n + (i - n) = i
      BY <1>1, <2>2
    <3>2. Work[n + (i - n)] = [op |-> "generate", f |-> Required[i - n]]
      BY <1>1, <3>1
    <3> QED
      BY <3>1, <3>2
  <2>3. CASE i = 2 * n + 1
    BY <1>1, <2>3 DEF Op, HeavyOps
  <2> QED
    BY <1>1, <2>1, <2>2, <2>3
<1>3. \A i \in 1..n : /\ [op |-> "declare", f |-> Required[i]] \in Heavy
                      /\ [op |-> "generate", f |-> Required[i]] \in Heavy
  <2>1. \A i \in 1..n : i \in 1..(2 * n + 1) /\ n + i \in 1..(2 * n + 1)
    BY <1>1
  <2> QED
    BY <1>1, <2>1 DEF Heavy, Pending, Elems, HeavyOps
<1>4. \A t \in Heavy : t.op \in {"declare", "generate"}
  BY <1>2
<1>5. \A t \in Heavy : /\ \E u \in Heavy : u.op = "generate" /\ u.f = t.f
                       /\ \E u \in Heavy : u.op = "declare" /\ u.f = t.f
  <2> SUFFICES ASSUME NEW t \in Heavy
               PROVE  /\ \E u \in Heavy : u.op = "generate" /\ u.f = t.f
                      /\ \E u \in Heavy : u.op = "declare" /\ u.f = t.f
    OBVIOUS
  <2>1. PICK i \in 1..n : t.f = Required[i]
    BY <1>2
  <2> QED
    BY <1>3, <2>1
<1>6. Left = {} /\ Distinct
  BY DEF Left, Distinct
<1> QED
  BY <1>4, <1>5, <1>6, WorkOrdered DEF DeclInv

Starting == /\ todo = Work /\ functions_left = <<>> /\ generated = {}
            /\ type_args = <<>>
            /\ \A f \in Functions : DOMAIN ir[f] = {}

LEMMA DeclStarting == TypeInv /\ Starting => DeclInv
BY DeclStart DEF Starting

LEMMA DeclStartingNext == TypeInv' /\ Starting' => DeclInv'
BY DeclStarting, PTL

LEMMA NextStarts ==
  ASSUME TypeInv, NextCompilation
  PROVE  Starting'
<1>1. /\ todo' = Work /\ functions_left' = <<>> /\ generated' = {}
      /\ type_args' = <<>> /\ ir' = Reset(ir) /\ DOMAIN ir = Functions
  BY DEF NextCompilation, TypeInv
<1> QED
  BY <1>1, ResetTyped, NothingThere DEF Starting

LEMMA DeclStep == TypeInv /\ TypeInv' /\ DeclInv /\ [Next]_vars => DeclInv'
<1> SUFFICES ASSUME TypeInv, TypeInv', DeclInv, [Next]_vars PROVE DeclInv'
  OBVIOUS
<1>1. OrderedTasks(todo')
  BY OrderStep DEF DeclInv
<1>2. CASE Idle
  <2>1. Heavy' = Heavy
    BY <1>2 DEF Idle, Heavy, Pending, Elems
  <2>2. module' = module
    BY <1>2 DEF Idle
  <2> QED
    BY <1>1, <1>2, <2>1, <2>2, DeclSame DEF Idle
<1>3. CASE Lowering \/ Filling
  <2>1. PICK ts \in Seq(Tasks) : /\ todo # <<>> /\ Head(todo).op \notin HeavyOps
                                 /\ Do(ts)
                                 /\ \A i \in 1..Len(ts) : ts[i].op \notin HeavyOps
    BY <1>3 DEF Lowering, Filling, LowOps, HeavyOps
  <2>2. \A t : t \in Heavy' <=> t \in Heavy
    <3>1. todo \in Seq(Tasks)
      BY DEF TypeInv
    <3>2. \A t \in Elems(ts) : t.op \notin HeavyOps
      BY <2>1 DEF Elems
    <3> QED
      BY <2>1, <3>1, <3>2, HeavyStep
  <2>3. Heavy' = Heavy /\ UNCHANGED <<module, ir, functions_left, generated>>
    BY <1>3, <2>2 DEF Lowering, Filling
  <2> QED
    BY <1>1, <2>3, DeclSame
<1>4. CASE NextCompilation
  <2>1. Starting'
    BY <1>4, NextStarts
  <2> QED
    BY <2>1, DeclStartingNext
<1> QED
  BY <1>1, <1>2, <1>3, <1>4, StepKinds, DeclLoading, DeclQueue, DeclDeclare,
     DeclSet, DeclGenerating, DeclGeneratingLeft

LEMMA DeclInvariant == Spec => []DeclInv
<1>1. Init => DeclInv
  <2> SUFFICES ASSUME Init PROVE DeclInv
    OBVIOUS
  <2>1. TypeInv /\ Starting
    BY TypeInit, NothingThere DEF Init, Starting
  <2> QED
    BY <2>1, DeclStarting
<1> QED
  BY <1>1, TypeInvariant, DeclStep, PTL DEF Spec

LEMMA LeftCounted ==
  ASSUME TypeInv, Distinct
  PROVE  Cardinality(Left) = Len(functions_left)
<1> DEFINE n == Len(functions_left)
           f == [i \in 1..n |-> LeftInstance(i)]
<1>1. n \in Nat /\ Left = {LeftInstance(i) : i \in 1..n}
  BY LenProperties DEF Left, LeftInstance, TypeInv
<1>2. \A i, j \in 1..n : LeftInstance(i) = LeftInstance(j) => i = j
  BY DEF Distinct
<1>3. IsFiniteSet(1..n) /\ Cardinality(1..n) = n
  <2>1. /\ IsFiniteSet(1..n)
        /\ Cardinality(1..n) = IF 1 > n THEN 0 ELSE n - 1 + 1
    BY <1>1, FS_Interval
  <2> HIDE DEF n
  <2> QED
    BY <1>1, <2>1
<1> HIDE DEF n
<1>4. f \in Bijection(1..n, Left)
  BY <1>1, <1>2 DEF Bijection, Injection, Surjection, IsInjective
<1>5. Cardinality(Left) = Cardinality(1..n)
  <2>1. ExistsBijection(1..n, Left)
    BY <1>4 DEF ExistsBijection
  <2> QED
    BY <1>3, <2>1, FS_Bijection
<1> QED
  BY <1>3, <1>5 DEF n

(* Every function instance in an adapter of the module has its body or     *)
(* waits for it, not both, and waits once: however declaring, lowering     *)
(* signatures and queueing interleave, and in every compilation that       *)
(* shares the standard library.                                            *)
THEOREM DeclaredOnceHolds == Spec => []DeclaredOnce
<1>1. TypeInv /\ DeclInv => DeclaredOnce
  <2> SUFFICES ASSUME TypeInv, DeclInv PROVE DeclaredOnce
    OBVIOUS
  <2>1. Cardinality(Left) = Len(functions_left)
    BY LeftCounted DEF DeclInv
  <2> QED
    BY <2>1 DEF DeclInv, DeclaredOnce
<1> QED
  BY <1>1, TypeInvariant, DeclInvariant, PTL

-----------------------------------------------------------------------------
(* What the body that is being generated asks for: the tasks of its items  *)
(* find the type arguments of its instance in force, however deep the      *)
(* types and signatures lowered in between reach.                          *)

Asking == {"call", "bound"}
Ground == {"declare", "set", "generate", "left"}

(* k[i] is the height of type_args before ts[i] if it is n before ts:      *)
(* nothing that starts a body or declares finds type arguments.            *)
HeightsOf(ts, n, k) ==
  /\ k \in [1..(Len(ts) + 1) -> Nat] /\ k[1] = n
  /\ \A i \in 1..Len(ts) : /\ k[i + 1] = k[i] + Change(ts[i].op)
                           /\ ts[i].op \in Ground => k[i] = 0

(* The items to come are those of cur's body, their frame is at height e   *)
(* and stays there until they are done.                                    *)
Serves(k, e, cur) ==
  \A i \in 1..Len(todo) : todo[i].op \in Asking =>
    /\ e \in {0, 1} /\ k[i] = e /\ \A j \in 1..i : k[j] >= e
    /\ cur \in generated
    /\ \E m \in 1..Len(program[cur.f]) : todo[i] = program[cur.f][m]
    /\ cur.f \in Generic => cur.args = (IF e = 0 THEN <<>> ELSE type_args[1])

LEMMA HeightsJoined ==
  ASSUME todo \in Seq(Tasks), todo # <<>>, NEW ts \in Seq(Tasks), Do(ts),
         NEW n, NEW k, HeightsOf(todo, n, k),
         NEW m, NEW b, HeightsOf(ts, m, b), b[Len(ts) + 1] = k[2]
  PROVE  \E h : /\ HeightsOf(todo', m, h)
                /\ \A i \in 1..Len(ts) : h[i] = b[i]
                /\ \A i \in 2..Len(todo) : h[i + Len(ts) - 1] = k[i]
<1> DEFINE x == Len(ts)  y == Len(todo)
           h == [i \in 1..(x + y) |-> IF i <= x THEN b[i] ELSE k[i - x + 1]]
<1>1. /\ x \in Nat /\ y \in Nat \ {0} /\ Len(todo') = x + y - 1
      /\ \A i \in 1..x : todo'[i] = ts[i]
      /\ \A i \in (x + 1)..(x + y - 1) : todo'[i] = todo[i - x + 1]
  BY DoStep
<1>2. /\ k \in [1..(y + 1) -> Nat] /\ k[1] = n
      /\ \A i \in 1..y : /\ k[i + 1] = k[i] + Change(todo[i].op)
                         /\ todo[i].op \in Ground => k[i] = 0
      /\ b \in [1..(x + 1) -> Nat] /\ b[1] = m
      /\ \A i \in 1..x : /\ b[i + 1] = b[i] + Change(ts[i].op)
                         /\ ts[i].op \in Ground => b[i] = 0
      /\ b[x + 1] = k[2]
  BY DEF HeightsOf
<1>3. /\ \A i \in 1..x : h[i] = b[i]
      /\ \A i \in (x + 1)..(x + y) : h[i] = k[i - x + 1]
      /\ h[x + 1] = b[x + 1]
  <2>1. \A i \in 1..x : i \in 1..(x + y) /\ i <= x
    BY <1>1
  <2>2. \A i \in (x + 1)..(x + y) : i \in 1..(x + y) /\ ~(i <= x)
    BY <1>1
  <2>3. x + 1 \in (x + 1)..(x + y) /\ x + 1 - x + 1 = 2
    BY <1>1
  <2>4. \A i \in (x + 1)..(x + y) : h[i] = k[i - x + 1]
    BY <2>2
  <2>5. h[x + 1] = k[x + 1 - x + 1]
    BY <2>3, <2>4
  <2> HIDE DEF h, x
  <2>6. h[x + 1] = b[x + 1]
    BY <1>2, <2>3, <2>5
  <2> QED
    BY <2>1, <2>4, <2>6 DEF h
<1>4. h \in [1..((x + y - 1) + 1) -> Nat]
  <2> SUFFICES ASSUME NEW i \in 1..(x + y)
               PROVE  (IF i <= x THEN b[i] ELSE k[i - x + 1]) \in Nat
    BY <1>1
  <2>1. i <= x => i \in 1..(x + 1)
    BY <1>1
  <2>2. ~(i <= x) => i - x + 1 \in 1..(y + 1)
    BY <1>1
  <2> QED
    BY <1>2, <2>1, <2>2
<1> HIDE DEF h, x, y
<1>5. h[1] = m
  <2>1. CASE x = 0
    BY <1>1, <1>2, <1>3, <2>1
  <2>2. CASE x # 0
    BY <1>1, <1>2, <1>3, <2>2
  <2> QED
    BY <2>1, <2>2
<1>6. \A i \in 2..(y + 1) : h[i + x - 1] = k[i]
  <2> SUFFICES ASSUME NEW i \in 2..(y + 1) PROVE h[i + x - 1] = k[i]
    OBVIOUS
  <2>1. PICK j \in (x + 1)..(x + y) : j = i + x - 1 /\ j - x + 1 = i
    BY <1>1
  <2>2. h[j] = k[i]
    BY <1>3, <2>1
  <2> QED
    BY <2>1, <2>2
<1>7. ASSUME NEW i \in 1..(x + y - 1)
      PROVE  /\ h[i + 1] = h[i] + Change(todo'[i].op)
             /\ todo'[i].op \in Ground => h[i] = 0
  <2>1. CASE i <= x
    <3>1. i \in 1..x /\ h[i] = b[i] /\ todo'[i] = ts[i]
      BY <1>1, <1>3, <2>1
    <3>2. h[i + 1] = b[i + 1]
      <4>1. i + 1 \in 1..x \/ i = x
        BY <1>1, <2>1
      <4> QED
        BY <1>3, <4>1
    <3> QED
      BY <1>2, <3>1, <3>2
  <2>2. CASE i > x
    <3>1. PICK l \in 1..y : /\ l = i - x + 1 /\ i = l + x - 1 /\ l \in 2..(y + 1)
                            /\ l + 1 \in 2..(y + 1) /\ i + 1 = (l + 1) + x - 1
                            /\ i \in (x + 1)..(x + y - 1)
      BY <1>1, <2>2
    <3>2. h[i] = k[l]
      BY <1>6, <3>1
    <3>3. h[(l + 1) + x - 1] = k[l + 1]
      BY <1>6, <3>1
    <3>4. h[i + 1] = k[l + 1]
      BY <3>1, <3>3
    <3>5. todo'[i] = todo[l]
      BY <1>1, <3>1
    <3> QED
      BY <1>2, <3>2, <3>4, <3>5
  <2> QED
    BY <1>1, <2>1, <2>2
<1>8. HeightsOf(todo', m, h)
  BY <1>1, <1>4, <1>5, <1>7 DEF HeightsOf
<1>9. \A i \in 2..y : h[i + x - 1] = k[i]
  BY <1>1, <1>6
<1> QED
  BY <1>3, <1>8, <1>9 DEF x, y

LEMMA ServesKept ==
  ASSUME TypeInv, todo # <<>>, NEW ts \in Seq(Tasks), Do(ts),
         NEW k, HeightsOf(todo, Len(type_args), k), NEW e, NEW cur,
         Serves(k, e, cur), UNCHANGED <<program, generated>>,
         NEW h,
         \A i \in 1..Len(ts) : /\ ts[i].op \notin Asking
                               /\ h[i] \in Nat /\ h[i] >= Len(type_args),
         \A i \in 2..Len(todo) : h[i + Len(ts) - 1] = k[i],
         k[1] >= 1 /\ k[2] >= 1 => type_args'[1] = type_args[1]
  PROVE  Serves(h, e, cur)'
<1> DEFINE x == Len(ts)  y == Len(todo)
<1>1. /\ x \in Nat /\ y \in Nat \ {0} /\ Len(todo') = x + y - 1
      /\ \A i \in 1..x : todo'[i] = ts[i]
      /\ \A i \in (x + 1)..(x + y - 1) : todo'[i] = todo[i - x + 1]
  BY DoStep DEF TypeInv
<1>2. /\ k[1] = Len(type_args) /\ Len(type_args) \in Nat
      /\ \A i \in 1..(y + 1) : k[i] \in Nat
  BY LenProperties DEF HeightsOf, TypeInv
<1>3. /\ \A i \in 1..x : /\ ts[i].op \notin Asking
                         /\ h[i] \in Nat /\ h[i] >= Len(type_args)
      /\ \A i \in 2..y : h[i + x - 1] = k[i]
  OBVIOUS
<1> HIDE DEF x, y
<1> SUFFICES ASSUME NEW i \in 1..(x + y - 1), todo'[i].op \in Asking
             PROVE  /\ e \in {0, 1} /\ h[i] = e /\ \A j \in 1..i : h[j] >= e
                    /\ cur \in generated
                    /\ \E m \in 1..Len(program[cur.f]) : todo'[i] = program[cur.f][m]
                    /\ cur.f \in Generic =>
                          cur.args = (IF e = 0 THEN <<>> ELSE type_args'[1])
  BY <1>1 DEF Serves
<1>4. i > x
  BY <1>1, <1>3
<1> DEFINE l == i - x + 1
<1>5. l \in 2..y /\ i = l + x - 1 /\ i \in (x + 1)..(x + y - 1) /\ l \in 1..y
  BY <1>1, <1>4
<1>6. todo'[i] = todo[l]
  BY <1>1, <1>5
<1>7. /\ e \in {0, 1} /\ k[l] = e /\ \A j \in 1..l : k[j] >= e
      /\ cur \in generated
      /\ \E m \in 1..Len(program[cur.f]) : todo[l] = program[cur.f][m]
      /\ cur.f \in Generic => cur.args = (IF e = 0 THEN <<>> ELSE type_args[1])
  <2>1. l \in 1..Len(todo) /\ todo[l].op \in Asking
    BY <1>5, <1>6 DEF y
  <2> HIDE DEF l
  <2> QED
    BY <2>1 DEF Serves
<1>8. h[i] = e
  <2> HIDE DEF l
  <2> QED
    BY <1>3, <1>5, <1>7
<1>9. ASSUME NEW j \in 1..i PROVE h[j] >= e
  <2>1. CASE j <= x
    <3>1. j \in 1..x /\ h[j] \in Nat /\ h[j] >= Len(type_args) /\ k[1] >= e
      BY <1>1, <1>3, <1>5, <1>7, <2>1
    <3> QED
      BY <1>2, <1>7, <3>1
  <2>2. CASE j > x
    <3>1. j - x + 1 \in 2..y /\ j - x + 1 \in 1..l /\ j = (j - x + 1) + x - 1
      BY <1>1, <1>5, <2>2
    <3>2. h[(j - x + 1) + x - 1] = k[j - x + 1]
      BY <1>3, <3>1
    <3>3. h[j] = k[j - x + 1]
      BY <3>1, <3>2
    <3> QED
      BY <1>7, <3>1, <3>3
  <2> QED
    BY <1>1, <2>1, <2>2
<1>10. e = 1 => type_args'[1] = type_args[1]
  <2>1. 1 \in 1..l /\ 2 \in 1..l
    BY <1>1, <1>5
  <2>2. k[1] >= e /\ k[2] >= e
    BY <1>7, <2>1
  <2> QED
    BY <2>2
<1> QED
  BY <1>6, <1>7, <1>8, <1>9, <1>10

(* The steps that leave the stack of type arguments as it is, or push to   *)
(* it or pop from it.                                                      *)
LEMMA LevelStep ==
  ASSUME TypeInv, todo # <<>>, NEW ts \in Seq(Tasks), Do(ts),
         NEW k, HeightsOf(todo, Len(type_args), k), NEW e, NEW cur,
         Serves(k, e, cur), UNCHANGED <<program, generated, type_args>>,
         Head(todo).op \notin {"push", "pop"},
         NEW b, Balances(ts, b),
         \A i \in 1..Len(ts) : /\ ts[i].op \notin Asking
                               /\ ts[i].op \in Ground =>
                                     b[i] = 0 /\ Head(todo).op \in Ground
  PROVE  \E h : HeightsOf(todo', Len(type_args'), h) /\ Serves(h, e, cur)'
<1> DEFINE x == Len(ts)  n == Len(type_args)  c == [i \in 1..(x + 1) |-> n + b[i]]
<1>1. /\ x \in Nat /\ n \in Nat /\ Len(todo) \in Nat \ {0} /\ todo \in Seq(Tasks)
      /\ Head(todo) = todo[1]
  BY LenProperties, HeadTailProperties DEF TypeInv
<1>2. /\ k[1] = n /\ k[2] = k[1] + Change(todo[1].op)
      /\ todo[1].op \in Ground => k[1] = 0
      /\ k[1] \in Nat /\ k[2] \in Nat
  <2>1. 1 \in 1..Len(todo) /\ 1 + 1 = 2 /\ 2 \in 1..(Len(todo) + 1)
        /\ 1 \in 1..(Len(todo) + 1)
    BY <1>1
  <2> QED
    BY <2>1 DEF HeightsOf
<1>3. k[2] = n
  <2>1. Change(todo[1].op) = 0
    BY <1>1 DEF Change
  <2> QED
    BY <1>1, <1>2, <2>1
<1>4. /\ b \in [1..(x + 1) -> Nat] /\ b[1] = 0 /\ b[x + 1] = 0
      /\ \A i \in 1..x : b[i + 1] = b[i] + Change(ts[i].op)
  BY DEF Balances
<1>5. HeightsOf(ts, n, c) /\ c[x + 1] = n
      /\ \A i \in 1..x : c[i] \in Nat /\ c[i] >= n
  <2>1. \A i \in 1..(x + 1) : b[i] \in Nat /\ c[i] = n + b[i]
    BY <1>4
  <2>2. 1 \in 1..(x + 1) /\ x + 1 \in 1..(x + 1)
        /\ \A i \in 1..x : i \in 1..(x + 1) /\ i + 1 \in 1..(x + 1)
    BY <1>1
  <2>3. c \in [1..(x + 1) -> Nat]
    BY <1>1, <2>1
  <2> HIDE DEF c, n, x
  <2>4. c[1] = n /\ c[x + 1] = n
    BY <1>1, <1>4, <2>1, <2>2
  <2>5. ASSUME NEW i \in 1..x
        PROVE  /\ c[i + 1] = c[i] + Change(ts[i].op)
               /\ ts[i].op \in Ground => c[i] = 0
               /\ c[i] \in Nat /\ c[i] >= n
    <3>1. /\ b[i] \in Nat /\ b[i + 1] \in Nat /\ c[i] = n + b[i]
          /\ c[i + 1] = n + b[i + 1] /\ b[i + 1] = b[i] + Change(ts[i].op)
          /\ Change(ts[i].op) \in Int
      BY <1>4, <2>1, <2>2 DEF Change
    <3>2. c[i + 1] = c[i] + Change(ts[i].op)
      BY <1>1, <3>1
    <3>3. ts[i].op \in Ground => c[i] = 0
      <4>1. ts[i].op \in Ground => b[i] = 0 /\ n = 0
        BY <1>1, <1>2 DEF x
      <4> QED
        BY <3>1, <4>1
    <3> QED
      BY <1>1, <3>1, <3>2, <3>3
  <2> QED
    BY <2>3, <2>4, <2>5 DEF HeightsOf, x
<1> HIDE DEF c
<1>6. PICK h : /\ HeightsOf(todo', n, h)
               /\ \A i \in 1..Len(ts) : h[i] = c[i]
               /\ \A i \in 2..Len(todo) : h[i + Len(ts) - 1] = k[i]
  BY <1>1, <1>3, <1>5, HeightsJoined
<1>7. \A i \in 1..Len(ts) : /\ ts[i].op \notin Asking
                            /\ h[i] \in Nat /\ h[i] >= Len(type_args)
  BY <1>5, <1>6
<1>8. Serves(h, e, cur)'
  BY <1>6, <1>7, ServesKept
<1> QED
  BY <1>6, <1>8

LEMMA PushPopStep ==
  ASSUME TypeInv, todo # <<>>, Do(<<>>),
         NEW k, HeightsOf(todo, Len(type_args), k), NEW e, NEW cur,
         Serves(k, e, cur), UNCHANGED <<program, generated>>,
         \/ Head(todo).op = "push" /\ type_args' = Append(type_args, Head(todo).args)
         \/ Head(todo).op = "pop" /\ type_args' = Front(type_args)
  PROVE  \E h : HeightsOf(todo', Len(type_args'), h) /\ Serves(h, e, cur)'
<1> DEFINE n == Len(type_args)
<1>1. /\ n \in Nat /\ Len(todo) \in Nat \ {0} /\ todo \in Seq(Tasks)
      /\ Head(todo) = todo[1] /\ Head(todo) \in Tasks
      /\ type_args \in Seq(Concrete)
  BY LenProperties, HeadTailProperties DEF TypeInv
<1>2. /\ k[1] = n /\ k[2] = n + Change(todo[1].op) /\ k[1] \in Nat /\ k[2] \in Nat
  <2>1. 1 \in 1..Len(todo) /\ 1 + 1 = 2 /\ 2 \in 1..(Len(todo) + 1)
        /\ 1 \in 1..(Len(todo) + 1)
    BY <1>1
  <2> QED
    BY <2>1 DEF HeightsOf
<1>3. Len(type_args') = k[2] /\ (k[1] >= 1 /\ k[2] >= 1 => type_args'[1] = type_args[1])
  <2>1. CASE Head(todo).op = "push" /\ type_args' = Append(type_args, Head(todo).args)
    <3>1. Head(todo).args \in Concrete
      BY <1>1, <2>1, TaskFields
    <3>2. Len(type_args') = n + 1 /\ \A i \in 1..n : type_args'[i] = type_args[i]
      BY <1>1, <2>1, <3>1, AppendProperties
    <3>3. Change(todo[1].op) = 1
      BY <1>1, <2>1 DEF Change
    <3> HIDE DEF n
    <3> QED
      BY <1>1, <1>2, <3>2, <3>3
  <2>2. CASE Head(todo).op = "pop" /\ type_args' = Front(type_args)
    <3>1. Change(todo[1].op) = -1
      BY <1>1, <2>2 DEF Change
    <3>2. n >= 1 /\ type_args # <<>>
      BY <1>1, <1>2, <3>1
    <3>3. Len(type_args') = n - 1 /\ \A i \in 1..(n - 1) : type_args'[i] = type_args[i]
      BY <1>1, <2>2, <3>2, FrontProperties
    <3> HIDE DEF n
    <3> QED
      BY <1>1, <1>2, <3>1, <3>2, <3>3
  <2> QED
    BY <2>1, <2>2
<1> DEFINE c == [i \in 1..1 |-> k[2]]
<1>4. PICK ts \in Seq(Tasks) : ts = <<>>
  BY EmptyTasks
<1>5. Len(ts) = 0
  BY <1>4
<1> DEFINE m == k[2]
<1>6. HeightsOf(ts, m, c) /\ c[Len(ts) + 1] = k[2] /\ Do(ts)
  <2>1. c \in [1..1 -> Nat] /\ c[1] = k[2]
    BY <1>2
  <2> HIDE DEF c
  <2>2. HeightsOf(ts, k[2], c)
    BY <1>5, <2>1 DEF HeightsOf
  <2> QED
    BY <1>4, <1>5, <2>1, <2>2
<1> HIDE DEF c, m
<1>7. PICK h : /\ HeightsOf(todo', m, h)
               /\ \A i \in 2..Len(todo) : h[i + Len(ts) - 1] = k[i]
  BY <1>1, <1>6, HeightsJoined
<1>8. Serves(h, e, cur)'
  <2>1. \A i \in 1..Len(ts) : /\ ts[i].op \notin Asking
                              /\ h[i] \in Nat /\ h[i] >= Len(type_args)
    BY <1>5
  <2> QED
    BY <1>3, <1>6, <1>7, <2>1, ServesKept
<1> QED
  BY <1>3, <1>7, <1>8 DEF m

LEMMA LaterAsks ==
  ASSUME TypeInv, OrderedTasks(todo), todo # <<>>,
         Head(todo).op \in {"generate", "left"},
         NEW ts \in Seq(Tasks), Do(ts)
  PROVE  /\ Len(todo') \in Nat /\ Len(ts) \in Nat
         /\ \A i \in 1..Len(ts) : todo'[i] = ts[i]
         /\ \A i \in 1..Len(todo') : todo'[i].op \in Asking => i \in 1..Len(ts)
<1>1. todo \in Seq(Tasks) /\ \A t \in Later : t.op \notin Asking
  BY OrderedLater DEF Bars, Asking, TypeInv
<1> DEFINE x == Len(ts)
<1>2. /\ Len(todo) \in Nat \ {0} /\ x \in Nat /\ Len(todo') = x + Len(todo) - 1
      /\ \A i \in 1..x : todo'[i] = ts[i]
      /\ \A i \in (x + 1)..(x + Len(todo) - 1) : todo'[i] = todo[i - x + 1]
  BY <1>1, DoStep
<1> HIDE DEF x
<1>3. ASSUME NEW i \in (x + 1)..(x + Len(todo) - 1) PROVE todo'[i] \in Later
  <2>1. PICK j \in 2..Len(todo) : j = i - x + 1
    BY <1>2
  <2> QED
    BY <1>2, <2>1 DEF Later
<1>4. \A i \in 1..Len(todo') : i \in 1..x \/ i \in (x + 1)..(x + Len(todo) - 1)
  BY <1>2
<1> QED
  BY <1>1, <1>2, <1>3, <1>4 DEF x

(* The body of a required function starts without type arguments.          *)
LEMMA GeneratingStack ==
  ASSUME TypeInv, OrderedTasks(todo), Generating,
         NEW k, HeightsOf(todo, Len(type_args), k)
  PROVE  \E h, cur : /\ cur = Instance(Head(todo).f, <<>>)
                     /\ HeightsOf(todo', Len(type_args'), h)
                     /\ Serves(h, 0, cur)'
<1>0. PICK f, ts, cur : /\ f = Head(todo).f /\ ts = program[f]
                        /\ cur = [f |-> f, args |-> <<>>]
  OBVIOUS
<1> DEFINE x == Len(ts)  c == [i \in 1..(x + 1) |-> 0]
<1>1. /\ todo \in Seq(Tasks) /\ todo # <<>> /\ Head(todo).op = "generate"
      /\ f \in Functions /\ f \notin Generic /\ Do(ts)
      /\ generated' = generated \cup {Instance(f, <<>>)}
      /\ program' = program /\ type_args' = type_args
  BY <1>0 DEF Generating, TypeInv
<1>2. /\ ts \in Seq(Tasks) /\ x \in Nat
      /\ \A i \in 1..x : ts[i].op \in {"type", "call", "bound"}
  BY <1>0, <1>1, BodyTyped, LenProperties
<1>3. k[1] = 0 /\ k[2] = 0 /\ Len(type_args) = 0
  <2>1. 1 \in 1..Len(todo) /\ 1 + 1 = 2 /\ Head(todo) = todo[1]
    BY <1>1, HeadTailProperties
  <2>2. k[1] = Len(type_args) /\ k[1] = 0 /\ k[2] = k[1] + Change(todo[1].op)
    BY <1>1, <2>1 DEF HeightsOf, Ground
  <2>3. Change(todo[1].op) = 0
    BY <1>1, <2>1 DEF Change
  <2> QED
    BY <2>2, <2>3
<1>4. HeightsOf(ts, 0, c) /\ c[x + 1] = k[2]
  <2>1. c \in [1..(x + 1) -> Nat] /\ \A i \in 1..(x + 1) : c[i] = 0
    OBVIOUS
  <2>2. \A i \in 1..x : Change(ts[i].op) = 0 /\ ts[i].op \notin Ground
    BY <1>2 DEF Change, Ground
  <2>3. /\ 1 \in 1..(x + 1) /\ x + 1 \in 1..(x + 1)
        /\ \A i \in 1..x : i \in 1..(x + 1) /\ i + 1 \in 1..(x + 1)
    BY <1>2
  <2> HIDE DEF c
  <2>4. \A i \in 1..x : c[i + 1] = c[i] + Change(ts[i].op)
    <3> SUFFICES ASSUME NEW i \in 1..x PROVE c[i + 1] = c[i] + Change(ts[i].op)
      OBVIOUS
    <3>1. c[i + 1] = 0 /\ c[i] = 0 /\ Change(ts[i].op) = 0
      BY <2>1, <2>2, <2>3
    <3> QED
      BY <3>1
  <2> QED
    BY <1>3, <2>1, <2>2, <2>3, <2>4 DEF HeightsOf
<1>5. Instance(f, <<>>) = cur
  BY <1>0, <1>1, PlainInstance
<1>6. /\ \A i \in 1..x : todo'[i] = ts[i]
      /\ \A i \in 1..Len(todo') : todo'[i].op \in Asking => i \in 1..x
      /\ Len(todo') \in Nat
  BY <1>1, <1>2, LaterAsks
<1>7. \A i \in 1..x : c[i] = 0
  BY <1>2
<1> HIDE DEF c
<1>8. PICK h : HeightsOf(todo', 0, h) /\ \A i \in 1..x : h[i] = c[i]
  BY <1>1, <1>2, <1>4, HeightsJoined
<1>9. \A i \in 1..Len(todo') : h[i] \in Nat
  BY <1>6, <1>8 DEF HeightsOf
<1>10. ASSUME NEW i \in 1..Len(todo'), todo'[i].op \in Asking
       PROVE  /\ h[i] = 0 /\ \A j \in 1..i : h[j] >= 0
              /\ \E m \in 1..Len(program[f]) : todo'[i] = program[f][m]
  <2>1. i \in 1..x /\ todo'[i] = ts[i] /\ h[i] = 0
    BY <1>6, <1>7, <1>8, <1>10
  <2>2. \A j \in 1..i : h[j] \in Nat
    BY <1>6, <1>9
  <2> QED
    BY <1>0, <2>1, <2>2
<1>11. Serves(h, 0, cur)'
  <2>1. cur \in generated' /\ cur.f = f /\ cur.f \notin Generic /\ program' = program
    BY <1>0, <1>1, <1>5
  <2> QED
    BY <1>10, <2>1 DEF Serves
<1> QED
  BY <1>0, <1>1, <1>3, <1>5, <1>8, <1>11

(* The body of a queued instance starts with its type arguments alone.     *)
LEMMA GeneratingLeftStack ==
  ASSUME TypeInv, OrderedTasks(todo), GeneratingLeft,
         NEW k, HeightsOf(todo, Len(type_args), k)
  PROVE  \E h, cur : /\ cur = LeftInstance(Len(functions_left))
                     /\ HeightsOf(todo', Len(type_args'), h)
                     /\ Serves(h, 1, cur)'
<1>0. PICK next : next = functions_left[Len(functions_left)]
  OBVIOUS
<1>1. PICK f, args, ts, b, cur : /\ f = next.f /\ args = next.args /\ ts = Body(f)
                                 /\ b = program[f] /\ cur = Instance(f, args)
  OBVIOUS
<1> DEFINE x == Len(b)
           c == [i \in 1..(x + 3) |-> IF i <= x + 1 THEN 1 ELSE 0]
<1>2. /\ todo \in Seq(Tasks) /\ todo # <<>> /\ Head(todo).op = "left"
      /\ f \in Functions /\ args \in Concrete /\ Do(ts)
      /\ type_args' = Append(type_args, args)
      /\ generated' = generated \cup {cur} /\ program' = program
  BY <1>0, <1>1 DEF GeneratingLeft, TypeInv
<1>3. /\ x \in Nat /\ ts \in Seq(Tasks) /\ Len(ts) = x + 2
      /\ \A i \in 1..x : /\ ts[i] = b[i]
                         /\ ts[i].op \in {"type", "call", "bound"}
      /\ ts[x + 1] = Op("pop") /\ ts[x + 2] = Op("left")
  BY <1>1, <1>2, LeftBody
<1>4. k[1] = 0 /\ k[2] = 0 /\ Len(type_args) = 0
  <2>1. 1 \in 1..Len(todo) /\ 1 + 1 = 2 /\ Head(todo) = todo[1]
    BY <1>2, HeadTailProperties
  <2>2. k[1] = Len(type_args) /\ k[1] = 0 /\ k[2] = k[1] + Change(todo[1].op)
    BY <1>2, <2>1 DEF HeightsOf, Ground
  <2>3. Change(todo[1].op) = 0
    BY <1>2, <2>1 DEF Change
  <2> QED
    BY <2>2, <2>3
<1>5. Len(type_args') = 1 /\ type_args'[1] = args
  <2>1. type_args \in Seq(Concrete) /\ type_args = <<>>
    BY <1>4, EmptySeq DEF TypeInv
  <2> QED
    BY <1>2, <2>1
<1>6. /\ c \in [1..((x + 2) + 1) -> Nat] /\ c[1] = 1 /\ c[(x + 2) + 1] = 0
      /\ \A i \in 1..(x + 1) : c[i] = 1
      /\ c[x + 2] = 0
  BY <1>3
<1> HIDE DEF c, x
<1>7. \A i \in 1..(x + 2) : /\ c[i + 1] = c[i] + Change(ts[i].op)
                            /\ ts[i].op \in Ground => c[i] = 0
  <2>1. ASSUME NEW i \in 1..x
        PROVE  c[i + 1] = c[i] + Change(ts[i].op) /\ ts[i].op \notin Ground
    <3>1. Change(ts[i].op) = 0 /\ ts[i].op \notin Ground
      BY <1>3 DEF Change, Ground
    <3>2. i \in 1..(x + 1) /\ i + 1 \in 1..(x + 1)
      BY <1>3
    <3> QED
      BY <1>6, <3>1, <3>2
  <2>2. /\ ts[x + 1].op = "pop" /\ ts[x + 2].op = "left"
    BY <1>3 DEF Op
  <2>3. c[(x + 1) + 1] = c[x + 1] + Change(ts[x + 1].op) /\ ts[x + 1].op \notin Ground
    <3>1. Change(ts[x + 1].op) = -1 /\ ts[x + 1].op \notin Ground
      BY <2>2 DEF Change, Ground
    <3>2. c[x + 1] = 1 /\ (x + 1) + 1 = x + 2
      BY <1>3, <1>6
    <3> QED
      BY <1>6, <3>1, <3>2
  <2>4. c[(x + 2) + 1] = c[x + 2] + Change(ts[x + 2].op) /\ c[x + 2] = 0
    <3>1. Change(ts[x + 2].op) = 0
      BY <2>2 DEF Change
    <3> QED
      BY <1>6, <3>1
  <2>5. \A i \in 1..(x + 2) : i \in 1..x \/ i = x + 1 \/ i = x + 2
    BY <1>3
  <2> QED
    BY <2>1, <2>3, <2>4, <2>5
<1>8. HeightsOf(ts, 1, c) /\ c[Len(ts) + 1] = k[2]
  BY <1>3, <1>4, <1>6, <1>7 DEF HeightsOf
<1>9. /\ \A i \in 1..Len(ts) : todo'[i] = ts[i]
      /\ \A i \in 1..Len(todo') : todo'[i].op \in Asking => i \in 1..Len(ts)
      /\ Len(todo') \in Nat
  BY <1>2, <1>3, LaterAsks
<1>10. PICK h : HeightsOf(todo', 1, h) /\ \A i \in 1..Len(ts) : h[i] = c[i]
  BY <1>2, <1>3, <1>8, HeightsJoined
<1>11. ASSUME NEW i \in 1..Len(todo'), todo'[i].op \in Asking
       PROVE  /\ h[i] = 1 /\ \A j \in 1..i : h[j] >= 1
              /\ \E m \in 1..Len(program[f]) : todo'[i] = program[f][m]
  <2>1. i \in 1..(x + 2) /\ todo'[i] = ts[i]
    BY <1>3, <1>9, <1>11
  <2>2. i \in 1..x
    <3>1. ts[x + 1].op \notin Asking /\ ts[x + 2].op \notin Asking
      BY <1>3 DEF Op, Asking
    <3> QED
      BY <1>3, <1>11, <2>1, <3>1
  <2>3. \A j \in 1..i : j \in 1..(x + 1) /\ j \in 1..Len(ts)
    BY <1>3, <2>2
  <2>4. \A j \in 1..i : h[j] = 1
    BY <1>6, <1>10, <2>3
  <2>5. i \in 1..i
    BY <2>1
  <2>6. i \in 1..Len(program[f]) /\ todo'[i] = program[f][i]
    BY <1>1, <1>3, <2>1, <2>2 DEF x
  <2> QED
    BY <2>4, <2>5, <2>6
<1>12. Serves(h, 1, cur)'
  <2>1. /\ cur \in generated' /\ cur.f = f /\ program' = program
        /\ cur.f \in Generic => cur.args = args
    BY <1>1, <1>2 DEF Instance, Slot
  <2> QED
    BY <1>5, <1>11, <2>1 DEF Serves
<1> QED
  BY <1>0, <1>1, <1>5, <1>10, <1>12 DEF LeftInstance

-----------------------------------------------------------------------------
(* What is wanted is asked for, queued or declared.                        *)

(* What an item of a body refers to.                                       *)
ItemRefs(item, args) ==
  IF item.op = "call" THEN {Instance(item.f, ResolveAll(item.args, args))}
  ELSE IF item.op = "bound" /\ item.i \in DOMAIN args
          /\ args[item.i] \in DOMAIN Impls
  THEN {Instance(Impls[args[item.i]], <<>>)}
  ELSE {}

(* What a task is going to declare.                                        *)
Owed(t, args) ==
  IF t.op = "queue" THEN {Instance(t.f, t.args)} ELSE ItemRefs(t, args)

Covered(cur) ==
  \A g \in generated : \A r \in References(program, g) :
    \/ r.args \in DOMAIN ir[r.f]
    \/ \E t \in Pending : r \in Owed(t, cur.args)

WantedNow ==
  RequiredInstances \cup UNION {References(program, i) : i \in generated}

(* The inductive invariant, beside DeclInv: functions_left is emptied      *)
(* before the work ends; required functions are generated; only what is    *)
(* wanted is queued.                                                       *)
WantInv ==
  /\ \/ \E t \in Pending : t.op = "left"
     \/ functions_left = <<>> /\ \A t \in Pending : t.op \in LowOps
  /\ \A t \in Heavy : t.op = "generate" =>
        \E i \in DOMAIN Required : t.f = Required[i]
  /\ \A i \in DOMAIN Required :
        \/ Instance(Required[i], <<>>) \in generated
        \/ \E t \in Heavy : t.op = "generate" /\ t.f = Required[i]
  /\ Left \subseteq WantedNow
  /\ \A t \in Heavy : t.op = "queue" => Instance(t.f, t.args) \in WantedNow

(* And the body that is being generated finds the type arguments of its    *)
(* instance, so that what it asks for is what the instance refers to.      *)
ServeInv ==
  \E k, e, cur : /\ HeightsOf(todo, Len(type_args), k)
                 /\ Serves(k, e, cur) /\ Covered(cur)

LEMMA ReferencesAre ==
  ASSUME TypeInv, NEW g, g.f \in Functions
  PROVE  \A r : r \in References(program, g) <=>
            \E m \in 1..Len(program[g.f]) : r \in ItemRefs(program[g.f][m], g.args)
<1> DEFINE body == program[g.f]
<1>1. /\ DOMAIN body = 1..Len(body)
      /\ \A m \in DOMAIN body : body[m].op \in {"type", "call", "bound"}
  BY BodyTyped, LenProperties
<1> HIDE DEF body
<1>2. ASSUME NEW r
      PROVE  r \in References(program, g) <=>
               \E m \in DOMAIN body : r \in ItemRefs(body[m], g.args)
  <2>1. r \in References(program, g) <=>
          \/ \E m \in DOMAIN body :
                /\ body[m].op = "call"
                /\ r = Instance(body[m].f, ResolveAll(body[m].args, g.args))
          \/ \E m \in DOMAIN body :
                /\ body[m].op = "bound" /\ body[m].i \in DOMAIN g.args
                /\ g.args[body[m].i] \in DOMAIN Impls
                /\ r = Instance(Impls[g.args[body[m].i]], <<>>)
    BY DEF References, body
  <2>2. \A m \in DOMAIN body :
          r \in ItemRefs(body[m], g.args) <=>
            \/ /\ body[m].op = "call"
               /\ r = Instance(body[m].f, ResolveAll(body[m].args, g.args))
            \/ /\ body[m].op = "bound" /\ body[m].i \in DOMAIN g.args
               /\ g.args[body[m].i] \in DOMAIN Impls
               /\ r = Instance(Impls[g.args[body[m].i]], <<>>)
    BY DEF ItemRefs
  <2> QED
    BY <2>1, <2>2
<1> QED
  BY <1>1, <1>2 DEF body

LEMMA ReferencesTyped ==
  ASSUME TypeInv, NEW g \in generated, NEW r \in References(program, g)
  PROVE  r.f \in Functions /\ r = [f |-> r.f, args |-> r.args]
<1>1. g.f \in Functions
  BY DEF TypeInv
<1>2. PICK m \in 1..Len(program[g.f]) : r \in ItemRefs(program[g.f][m], g.args)
  BY <1>1, ReferencesAre
<1>3. program[g.f][m] \in Tasks
  BY <1>1, <1>2, BodyTyped, ElementOfSeq
<1>4. CASE program[g.f][m].op = "call"
  <2>1. program[g.f][m].f \in Functions
    BY <1>3, <1>4, TaskFields
  <2> QED
    BY <1>2, <1>4, <2>1 DEF ItemRefs, Instance
<1>5. CASE program[g.f][m].op = "bound"
  <2>1. \E t \in DOMAIN Impls : r = Instance(Impls[t], <<>>)
    BY <1>2, <1>5 DEF ItemRefs
  <2> QED
    BY <2>1, DeclarationsAssumption DEF Instance
<1> QED
  BY <1>2, <1>4, <1>5 DEF ItemRefs

(* A body's item loads the instance it refers to.                          *)
LEMMA LoadedRef ==
  ASSUME TypeInv, todo # <<>>, Head(todo).op \in Asking,
         NEW k, HeightsOf(todo, Len(type_args), k), NEW e, NEW cur,
         Serves(k, e, cur),
         NEW f \in Functions, NEW args \in Concrete, Loads(f, args)
  PROVE  /\ ItemRefs(Head(todo), cur.args) = {Instance(f, args)}
         /\ cur \in generated
         /\ \E m \in 1..Len(program[cur.f]) : Head(todo) = program[cur.f][m]
<1> DEFINE item == Head(todo)
<1>1. /\ todo \in Seq(Tasks) /\ item = todo[1] /\ 1 \in 1..Len(todo) /\ 1 \in 1..1
      /\ item \in Tasks /\ type_args \in Seq(Concrete)
  BY HeadTailProperties DEF TypeInv
<1>2. /\ e \in {0, 1} /\ Len(type_args) = e /\ cur \in generated
      /\ \E m \in 1..Len(program[cur.f]) : item = program[cur.f][m]
      /\ cur.f \in Generic => cur.args = (IF e = 0 THEN <<>> ELSE type_args[1])
  BY <1>1 DEF Serves, HeightsOf
<1>3. InForce = IF e = 0 THEN <<>> ELSE type_args[1]
  <2>1. CASE e = 0
    <3>1. DOMAIN type_args = {}
      BY <1>1, <1>2, <2>1, EmptySeq
    <3>2. Frames = {}
      BY <3>1 DEF Frames
    <3> QED
      BY <2>1, <3>2 DEF InForce
  <2>2. CASE e = 1
    <3>1. DOMAIN type_args = 1..1 /\ type_args[1] \in Concrete
      BY <1>1, <1>2, <2>2, ElementOfSeq, LenProperties
    <3>2. Frames \subseteq {1}
      BY <3>1 DEF Frames
    <3>3. CASE Frames = {}
      <4>1. type_args[1] = <<>>
        BY <3>1, <3>3 DEF Frames
      <4> QED
        BY <2>2, <3>3, <4>1 DEF InForce
    <3>4. CASE Frames # {}
      <4>1. Max(Frames) \in Frames
        <5>1. Frames \in SUBSET (1..1) /\ 1 \in Nat
          BY <3>2
        <5> QED
          BY <3>4, <5>1, LargestExists
      <4>2. Max(Frames) = 1
        BY <3>2, <4>1
      <4> QED
        BY <2>2, <3>4, <4>2 DEF InForce, TopFrame
    <3> QED
      BY <3>3, <3>4
  <2> QED
    BY <1>2, <2>1, <2>2
<1>4. cur.f \in Functions /\ program \in Programs
  BY <1>2 DEF TypeInv
<1>5. PICK m \in DOMAIN program[cur.f] : item = program[cur.f][m]
  BY <1>2, <1>4, BodyTyped
<1> HIDE DEF item
<1>6. CASE item.op = "call"
  <2>1. f = item.f /\ args = ResolveAll(item.args, InForce)
    BY <1>6 DEF Loads, ProcessArgs, item
  <2>2. ResolveAll(item.args, cur.args) = ResolveAll(item.args, InForce)
    <3>1. CASE cur.f \in Generic
      BY <1>2, <1>3, <3>1
    <3>2. CASE cur.f \notin Generic
      <4>1. \A j \in DOMAIN item.args : item.args[j].k # "var"
        BY <1>4, <1>5, <1>6, <3>2, ProgramsAssumption
      <4>2. \A z : ResolveAll(item.args, z) = [j \in DOMAIN item.args |-> item.args[j]]
        BY <4>1 DEF ResolveAll, Resolve
      <4> QED
        BY <4>2
    <3> QED
      BY <3>1, <3>2
  <2> QED
    BY <1>2, <1>6, <2>1, <2>2 DEF ItemRefs, item
<1>7. CASE item.op = "bound"
  <2>1. /\ type_args # <<>> /\ item.i \in DOMAIN Last(type_args)
        /\ Last(type_args)[item.i] \in DOMAIN Impls
        /\ f = Impls[Last(type_args)[item.i]] /\ args = <<>>
    BY <1>7 DEF Loads, item
  <2>2. e = 1
    BY <1>1, <1>2, <2>1, EmptySeq
  <2>3. Last(type_args) = type_args[1]
    BY <1>2, <2>2 DEF Last
  <2>4. cur.f \in Generic
    BY <1>4, <1>5, <1>7, ProgramsAssumption
  <2>5. cur.args = type_args[1]
    BY <1>2, <2>2, <2>4
  <2> QED
    BY <1>2, <1>7, <2>1, <2>3, <2>5 DEF ItemRefs, item
<1> QED
  BY <1>6, <1>7 DEF Asking, item

LEMMA CoveredStep ==
  ASSUME TypeInv, todo # <<>>, NEW ts \in Seq(Tasks), Do(ts), NEW cur, Covered(cur),
         program' = program, generated' = generated,
         \A f \in Functions : DOMAIN ir[f] \subseteq DOMAIN ir'[f],
         \A r \in Owed(Head(todo), cur.args) :
            \/ r.args \in DOMAIN ir'[r.f]
            \/ \E t \in Elems(ts) : r \in Owed(t, cur.args)
  PROVE  Covered(cur)'
<1>1. Pending' = Elems(ts) \cup Later /\ Pending = {Head(todo)} \cup Later
  BY PendingStep DEF TypeInv
<1> SUFFICES ASSUME NEW g \in generated, NEW r \in References(program, g)
             PROVE  \/ r.args \in DOMAIN ir'[r.f]
                    \/ \E t \in Pending' : r \in Owed(t, cur.args)
  BY DEF Covered
<1>2. r.f \in Functions
  BY ReferencesTyped
<1>3. CASE r.args \in DOMAIN ir[r.f]
  BY <1>2, <1>3
<1>4. CASE \E t \in Pending : r \in Owed(t, cur.args)
  BY <1>1, <1>4
<1> QED
  BY <1>3, <1>4 DEF Covered

(* When a body begins, its instance is covered by its own items.           *)
LEMMA CoveredStart ==
  ASSUME TypeInv, OrderedTasks(todo), todo # <<>>,
         Head(todo).op \in {"generate", "left"},
         NEW ts \in Seq(Tasks), Do(ts), NEW cur, Covered(cur),
         program' = program, ir' = ir,
         NEW new, new.f \in Functions, generated' = generated \cup {new},
         \A m \in 1..Len(program[new.f]) : program[new.f][m] \in Elems(ts)
  PROVE  Covered(new)'
<1>1. /\ Pending' = Elems(ts) \cup Later /\ Pending = {Head(todo)} \cup Later
      /\ \A t \in Later : t.op \notin Bars(Head(todo).op)
  BY PendingStep, OrderedLater DEF TypeInv
<1>2. \A t \in Pending : t.op \notin {"queue", "call", "bound"}
  BY <1>1 DEF Bars
<1>3. \A t \in Pending : \A args : Owed(t, args) = {}
  BY <1>2 DEF Owed, ItemRefs
<1> SUFFICES ASSUME NEW g \in generated \cup {new},
                    NEW r \in References(program, g)
             PROVE  \/ r.args \in DOMAIN ir[r.f]
                    \/ \E t \in Pending' : r \in Owed(t, new.args)
  BY DEF Covered
<1>4. CASE g \in generated
  BY <1>3, <1>4 DEF Covered
<1>5. CASE g = new
  <2>1. PICK m \in 1..Len(program[new.f]) : r \in ItemRefs(program[new.f][m], new.args)
    BY <1>5, ReferencesAre
  <2>2. program[new.f][m] \in Pending' /\ program[new.f][m].op # "queue"
    BY <1>1, <2>1, BodyTyped
  <2> QED
    BY <2>1, <2>2 DEF Owed
<1> QED
  BY <1>4, <1>5

LEMMA ServeStart == TypeInv /\ Starting => ServeInv
<1> SUFFICES ASSUME TypeInv, Starting PROVE ServeInv
  OBVIOUS
<1> DEFINE n == Len(Required)  k == [i \in 1..(2 * n + 2) |-> 0]
<1>1. /\ n \in Nat /\ Len(Work) = 2 * n + 1
      /\ \A i \in 1..n : /\ Work[i] = [op |-> "declare", f |-> Required[i]]
                         /\ Work[n + i] = [op |-> "generate", f |-> Required[i]]
      /\ Work[2 * n + 1] = Op("left")
  BY WorkTyped
<1> HIDE DEF n
<1>2. \A i \in 1..(2 * n + 1) : Work[i].op \in {"declare", "generate", "left"}
  <2> SUFFICES ASSUME NEW i \in 1..(2 * n + 1)
               PROVE  Work[i].op \in {"declare", "generate", "left"}
    OBVIOUS
  <2>1. CASE i \in 1..n
    <3>1. Work[i] = [op |-> "declare", f |-> Required[i]]
      BY <1>1, <2>1
    <3> QED
      BY <3>1
  <2>2. CASE i \in (n + 1)..(2 * n)
    <3>1. PICK j \in 1..n : i = n + j
      <4>1. i - n \in 1..n /\ i = n + (i - n)
        BY <1>1, <2>2
      <4> QED
        BY <4>1
    <3>2. Work[n + j] = [op |-> "generate", f |-> Required[j]]
      BY <1>1
    <3>3. Work[i] = [op |-> "generate", f |-> Required[j]]
      BY <3>1, <3>2
    <3> QED
      BY <3>3
  <2>3. CASE i = 2 * n + 1
    BY <1>1, <2>3 DEF Op
  <2> QED
    BY <1>1, <2>1, <2>2, <2>3
<1>3. HeightsOf(todo, Len(type_args), k)
  <2>1. /\ k \in [1..((2 * n + 1) + 1) -> Nat] /\ k[1] = 0
        /\ \A i \in 1..(2 * n + 1) : k[i] = 0 /\ k[i + 1] = 0
    BY <1>1
  <2>2. \A i \in 1..(2 * n + 1) : Change(Work[i].op) = 0
    BY <1>2 DEF Change
  <2>3. Len(type_args) = 0 /\ todo = Work
    BY DEF Starting
  <2> HIDE DEF k
  <2>4. \A i \in 1..(2 * n + 1) : k[i + 1] = k[i] + Change(Work[i].op)
    <3> SUFFICES ASSUME NEW i \in 1..(2 * n + 1)
                 PROVE  k[i + 1] = k[i] + Change(Work[i].op)
      OBVIOUS
    <3>1. k[i] = 0 /\ k[i + 1] = 0 /\ Change(Work[i].op) = 0
      BY <2>1, <2>2
    <3> QED
      BY <3>1
  <2> QED
    BY <1>1, <2>1, <2>3, <2>4 DEF HeightsOf
<1>4. \A cur : Serves(k, 0, cur)
  BY <1>1, <1>2 DEF Serves, Asking, Starting
<1>5. \A cur : Covered(cur)
  BY DEF Covered, Starting
<1> QED
  BY <1>3, <1>4, <1>5 DEF ServeInv

LEMMA ServeStartNext == TypeInv' /\ Starting' => ServeInv'
BY ServeStart, PTL

LEMMA QueueQueues ==
  ASSUME NEW f \in Functions, NEW args \in Concrete,
         f \in Intrinsics => args # <<>>
  PROVE  [op |-> "queue", f |-> f, args |-> args] \in Elems(Queue(f, args))
<1>1. /\ Len(Signature[f]) \in Nat /\ Len(Queue(f, args)) = Len(Signature[f]) + 3
      /\ Queue(f, args)[Len(Signature[f]) + 2]
            = [op |-> "queue", f |-> f, args |-> args]
  BY QueueTyped
<1>2. PICK i : i = Len(Signature[f]) + 2
  OBVIOUS
<1>3. i \in 1..Len(Queue(f, args))
  BY <1>1, <1>2
<1> QED
  BY <1>1, <1>2, <1>3 DEF Elems

(* The steps that leave the stack as it is.                                *)
LEMMA ServeLevel ==
  ASSUME TypeInv, todo # <<>>, NEW ts \in Seq(Tasks), Do(ts),
         NEW k, HeightsOf(todo, Len(type_args), k), NEW e, NEW cur,
         Serves(k, e, cur), Covered(cur),
         UNCHANGED <<program, generated, type_args>>,
         Head(todo).op \notin {"push", "pop"},
         NEW b, Balances(ts, b),
         \A i \in 1..Len(ts) : /\ ts[i].op \notin Asking
                               /\ ts[i].op \in Ground =>
                                     b[i] = 0 /\ Head(todo).op \in Ground,
         \A f \in Functions : DOMAIN ir[f] \subseteq DOMAIN ir'[f],
         \A r \in Owed(Head(todo), cur.args) :
            \/ r.args \in DOMAIN ir'[r.f]
            \/ \E t \in Elems(ts) : r \in Owed(t, cur.args)
  PROVE  ServeInv'
<1>1. PICK h : HeightsOf(todo', Len(type_args'), h) /\ Serves(h, e, cur)'
  BY LevelStep
<1>2. Covered(cur)'
  <2>1. program' = program /\ generated' = generated
    OBVIOUS
  <2> QED
    BY <2>1, CoveredStep
<1> QED
  BY <1>1, <1>2 DEF ServeInv

LEMMA ServeLowering ==
  ASSUME TypeInv, ServeInv, Lowering
  PROVE  ServeInv'
<1>1. PICK k, e, cur : /\ HeightsOf(todo, Len(type_args), k)
                       /\ Serves(k, e, cur) /\ Covered(cur)
  BY DEF ServeInv
<1>2. PICK ts \in Seq(Tasks) :
        /\ Do(ts) /\ \A i \in 1..Len(ts) : ts[i].op \in LowOps
        /\ \/ /\ Head(todo).op \notin {"push", "pop"} /\ Balanced(ts)
              /\ type_args' = type_args
           \/ /\ Head(todo).op = "push" /\ ts = <<>>
              /\ type_args' = Append(type_args, Head(todo).args)
           \/ /\ Head(todo).op = "pop" /\ ts = <<>>
              /\ type_args' = Front(type_args)
  BY DEF Lowering
<1>3. /\ todo # <<>> /\ Head(todo).op \in LowOps
      /\ program' = program /\ generated' = generated /\ ir' = ir
  BY DEF Lowering
<1>4. /\ \A args : Owed(Head(todo), args) = {}
      /\ \A f \in Functions : DOMAIN ir[f] \subseteq DOMAIN ir'[f]
  BY <1>3 DEF Owed, ItemRefs, LowOps
<1>5. Covered(cur)'
  BY <1>1, <1>2, <1>3, <1>4, CoveredStep
<1>6. CASE /\ Head(todo).op \notin {"push", "pop"} /\ Balanced(ts)
           /\ type_args' = type_args
  <2>1. PICK b : Balances(ts, b)
    BY <1>6 DEF Balanced
  <2>2. \A i \in 1..Len(ts) : ts[i].op \notin Asking /\ ts[i].op \notin Ground
    BY <1>2 DEF LowOps, Asking, Ground
  <2>3. UNCHANGED <<program, generated, type_args>>
    BY <1>3, <1>6
  <2> QED
    BY <1>1, <1>2, <1>3, <1>4, <1>6, <2>1, <2>2, <2>3, ServeLevel
<1>7. CASE /\ ts = <<>>
           /\ \/ /\ Head(todo).op = "push"
                 /\ type_args' = Append(type_args, Head(todo).args)
              \/ Head(todo).op = "pop" /\ type_args' = Front(type_args)
  <2>1. Do(<<>>) /\ UNCHANGED <<program, generated>>
    BY <1>2, <1>3, <1>7
  <2>2. PICK h : HeightsOf(todo', Len(type_args'), h) /\ Serves(h, e, cur)'
    BY <1>1, <1>3, <1>7, <2>1, PushPopStep
  <2> QED
    BY <1>5, <2>2 DEF ServeInv
<1> QED
  BY <1>2, <1>6, <1>7

LEMMA ServeLoading ==
  ASSUME TypeInv, ServeInv, Loading
  PROVE  ServeInv'
<1>1. PICK k, e, cur : /\ HeightsOf(todo, Len(type_args), k)
                       /\ Serves(k, e, cur) /\ Covered(cur)
  BY DEF ServeInv
<1>2. PICK f \in Functions, args \in Concrete :
        /\ f \in Intrinsics => args # <<>>
        /\ Loads(f, args) /\ GetOrCreate(f, args)
  BY DEF Loading
<1>3. /\ todo # <<>> /\ Head(todo).op \in Asking
      /\ Head(todo).op \notin {"push", "pop", "queue"}
      /\ UNCHANGED <<program, generated, type_args>>
      /\ \A x \in Functions : DOMAIN ir[x] \subseteq DOMAIN ir'[x]
      /\ ir' = ir
  BY DEF Loading, Asking
<1>4. Owed(Head(todo), cur.args) = {Instance(f, args)}
  <2>1. ItemRefs(Head(todo), cur.args) = {Instance(f, args)}
    BY <1>1, <1>2, <1>3, LoadedRef
  <2> QED
    BY <1>3, <2>1 DEF Owed
<1>5. CASE Declared(f, args) /\ Do(<<>>)
  <2>1. PICK ts, b : ts \in Seq(Tasks) /\ ts = <<>> /\ Balances(ts, b)
    BY EmptyTasks DEF Balanced
  <2>2. Do(ts) /\ \A i \in 1..Len(ts) : FALSE
    BY <1>5, <2>1
  <2>3. \A r \in Owed(Head(todo), cur.args) : r.args \in DOMAIN ir'[r.f]
    BY <1>3, <1>4, <1>5 DEF Declared, Instance
  <2> QED
    BY <1>1, <1>3, <2>1, <2>2, <2>3, ServeLevel
<1>6. CASE Do(Queue(f, args))
  <2>1. PICK ts, b : ts = Queue(f, args) /\ Balances(ts, b)
    BY <1>2, QueueBalanced DEF Balanced
  <2>2. /\ ts \in Seq(Tasks) /\ Do(ts)
        /\ \A i \in 1..Len(ts) : ts[i].op \in LowOps \cup {"queue"}
    BY <1>2, <1>6, <2>1, QueueOrdered
  <2>3. \A i \in 1..Len(ts) : ts[i].op \notin Asking /\ ts[i].op \notin Ground
    BY <2>2 DEF LowOps, Asking, Ground
  <2>4. \A r \in Owed(Head(todo), cur.args) :
           \E t \in Elems(ts) : r \in Owed(t, cur.args)
    <3>1. [op |-> "queue", f |-> f, args |-> args] \in Elems(ts)
      BY <1>2, <2>1, QueueQueues
    <3>2. Instance(f, args)
            \in Owed([op |-> "queue", f |-> f, args |-> args], cur.args)
      BY DEF Owed
    <3> QED
      BY <1>4, <3>1, <3>2
  <2> QED
    BY <1>1, <1>3, <2>1, <2>2, <2>3, <2>4, ServeLevel
<1> QED
  BY <1>2, <1>5, <1>6 DEF GetOrCreate

LEMMA ServeAdding ==
  ASSUME TypeInv, ServeInv, QueueFunction \/ SetRequired
  PROVE  ServeInv'
<1>1. PICK k, e, cur : /\ HeightsOf(todo, Len(type_args), k)
                       /\ Serves(k, e, cur) /\ Covered(cur)
  BY DEF ServeInv
<1>2. PICK f, args : /\ todo # <<>> /\ f = Head(todo).f /\ AddInst(f, args)
                     /\ Head(todo).op \in {"queue", "set"}
                     /\ Head(todo).op = "queue" => args = Head(todo).args
                     /\ Do(<<>>) /\ UNCHANGED <<program, generated, type_args>>
  BY DEF QueueFunction, SetRequired, Task
<1>3. f \in Functions
  BY <1>2, HeadTailProperties, TaskFields DEF TypeInv
<1>4. /\ \A x \in Functions : x # f => ir'[x] = ir[x]
      /\ DOMAIN ir'[f] = DOMAIN ir[f] \cup {Slot(f, args)}
  BY <1>2, <1>3, Added DEF TypeInv
<1>5. \A x \in Functions : DOMAIN ir[x] \subseteq DOMAIN ir'[x]
  BY <1>4
<1>6. PICK ts, b : ts \in Seq(Tasks) /\ ts = <<>> /\ Balances(ts, b)
  BY EmptyTasks DEF Balanced
<1>7. Do(ts) /\ \A i \in 1..Len(ts) : FALSE
  BY <1>2, <1>6
<1>8. \A r \in Owed(Head(todo), cur.args) : r.args \in DOMAIN ir'[r.f]
  <2>1. CASE Head(todo).op = "queue"
    <3>1. Owed(Head(todo), cur.args) = {[f |-> f, args |-> Slot(f, args)]}
      BY <1>2, <2>1 DEF Owed, Instance
    <3> QED
      BY <1>4, <3>1
  <2>2. CASE Head(todo).op = "set"
    BY <2>2 DEF Owed, ItemRefs
  <2> QED
    BY <1>2, <2>1, <2>2
<1>9. Head(todo).op \notin {"push", "pop"}
  BY <1>2
<1> QED
  BY <1>1, <1>2, <1>5, <1>6, <1>7, <1>8, <1>9, ServeLevel

(* Declaring and filling put tasks in place that leave the stack alone.    *)
LEMMA ServeFlat ==
  ASSUME TypeInv, ServeInv, todo # <<>>, NEW ts \in Seq(Tasks), Do(ts),
         Head(todo).op \in {"declare", "left"},
         \A i \in 1..Len(ts) : ts[i].op \in {"type", "set", "free"},
         UNCHANGED <<program, generated, type_args, ir>>
  PROVE  ServeInv'
<1>1. PICK k, e, cur : /\ HeightsOf(todo, Len(type_args), k)
                       /\ Serves(k, e, cur) /\ Covered(cur)
  BY DEF ServeInv
<1>2. PICK b : b = [i \in 1..(Len(ts) + 1) |-> 0]
  OBVIOUS
<1>3. Balances(ts, b)
  <2>1. \A i \in 1..Len(ts) : ts[i].op \notin {"push", "pop"}
    OBVIOUS
  <2> QED
    BY <1>2, <2>1, FlatBalanced
<1>4. \A i \in 1..Len(ts) : /\ ts[i].op \notin Asking
                            /\ b[i] = 0 /\ Head(todo).op \in Ground
  <2>1. \A i \in 1..Len(ts) : i \in 1..(Len(ts) + 1)
    BY LenProperties
  <2> QED
    BY <1>2, <2>1 DEF Asking, Ground
<1>5. \A r \in Owed(Head(todo), cur.args) : FALSE
  BY DEF Owed, ItemRefs
<1>6. /\ UNCHANGED <<program, generated, type_args>>
      /\ Head(todo).op \notin {"push", "pop"}
      /\ \A f \in Functions : DOMAIN ir[f] \subseteq DOMAIN ir'[f]
  OBVIOUS
<1> QED
  BY <1>1, <1>3, <1>4, <1>5, <1>6, ServeLevel

LEMMA ServeDeclaring ==
  ASSUME TypeInv, ServeInv, DeclareRequired
  PROVE  ServeInv'
<1>1. PICK f : /\ f = Head(todo).f /\ todo # <<>> /\ Head(todo).op = "declare"
               /\ Do(IF f \in Generic THEN <<>> ELSE Declaring(f))
               /\ UNCHANGED <<program, generated, type_args, ir>>
  BY DEF DeclareRequired, Task, Declaring
<1>2. f \in Functions
  BY <1>1, HeadTailProperties, TaskFields DEF TypeInv
<1>3. CASE f \in Generic
  <2>1. PICK ts \in Seq(Tasks) : ts = <<>>
    BY EmptyTasks
  <2>2. Do(ts) /\ \A i \in 1..Len(ts) : FALSE
    BY <1>1, <1>3, <2>1
  <2> QED
    BY <1>1, <2>2, ServeFlat
<1>4. CASE f \notin Generic
  <2>1. PICK ts : ts = Declaring(f)
    OBVIOUS
  <2>2. /\ ts \in Seq(Tasks) /\ Do(ts)
        /\ \A i \in 1..Len(ts) : ts[i].op = "type" \/ ts[i] = [op |-> "set", f |-> f]
    BY <1>1, <1>2, <1>4, <2>1, DeclaringOrdered
  <2>3. \A i \in 1..Len(ts) : ts[i].op \in {"type", "set", "free"}
    BY <2>2
  <2> QED
    BY <1>1, <2>2, <2>3, ServeFlat
<1> QED
  BY <1>3, <1>4

LEMMA ServeGenerating ==
  ASSUME TypeInv, OrderedTasks(todo), ServeInv, Generating \/ GeneratingLeft
  PROVE  ServeInv'
<1>1. PICK k, e, cur : /\ HeightsOf(todo, Len(type_args), k)
                       /\ Serves(k, e, cur) /\ Covered(cur)
  BY DEF ServeInv
<1>2. CASE Generating
  <2>1. PICK h, new : /\ new = Instance(Head(todo).f, <<>>)
                      /\ HeightsOf(todo', Len(type_args'), h)
                      /\ Serves(h, 0, new)'
    BY <1>1, <1>2, GeneratingStack
  <2>2. PICK f, ts : f = Head(todo).f /\ ts = program[f]
    OBVIOUS
  <2>3. /\ todo # <<>> /\ Head(todo).op \in {"generate", "left"} /\ f \in Functions
        /\ Do(ts) /\ generated' = generated \cup {new}
        /\ program' = program /\ ir' = ir
    BY <1>2, <2>1, <2>2 DEF Generating
  <2>4. new.f = f
    BY <2>1, <2>2 DEF Instance
  <2>5. /\ ts \in Seq(Tasks)
        /\ \A m \in 1..Len(program[new.f]) : program[new.f][m] \in Elems(ts)
    BY <2>2, <2>3, <2>4, BodyTyped DEF Elems
  <2>6. Covered(new)'
    BY <1>1, <2>3, <2>4, <2>5, CoveredStart
  <2> QED
    BY <2>1, <2>6 DEF ServeInv
<1>3. CASE GeneratingLeft
  <2>1. PICK h, new : /\ new = LeftInstance(Len(functions_left))
                      /\ HeightsOf(todo', Len(type_args'), h)
                      /\ Serves(h, 1, new)'
    BY <1>1, <1>3, GeneratingLeftStack
  <2>2. PICK f, ts : f = functions_left[Len(functions_left)].f /\ ts = Body(f)
    OBVIOUS
  <2>3. /\ todo # <<>> /\ Head(todo).op \in {"generate", "left"} /\ f \in Functions
        /\ Do(ts) /\ generated' = generated \cup {new}
        /\ program' = program /\ ir' = ir
    BY <1>3, <2>1, <2>2 DEF GeneratingLeft, LeftInstance
  <2>4. new.f = f
    BY <2>1, <2>2 DEF LeftInstance, Instance
  <2>5. ts \in Seq(Tasks) /\ \A m \in 1..Len(program[f]) : program[f][m] \in Elems(ts)
    <3>1. /\ Len(program[f]) \in Nat /\ ts \in Seq(Tasks)
          /\ Len(ts) = Len(program[f]) + 2
          /\ \A m \in 1..Len(program[f]) : ts[m] = program[f][m]
      BY <2>2, <2>3, LeftBody
    <3>2. \A m \in 1..Len(program[f]) : m \in 1..Len(ts)
      BY <3>1
    <3> QED
      BY <3>1, <3>2 DEF Elems
  <2>6. Covered(new)'
    BY <1>1, <2>3, <2>4, <2>5, CoveredStart
  <2> QED
    BY <2>1, <2>6 DEF ServeInv
<1> QED
  BY <1>2, <1>3

LEMMA ServeStep == TypeInv /\ TypeInv' /\ DeclInv /\ ServeInv /\ [Next]_vars => ServeInv'
<1> SUFFICES ASSUME TypeInv, TypeInv', DeclInv, ServeInv, [Next]_vars PROVE ServeInv'
  OBVIOUS
<1>1. CASE Idle
  <2>1. PICK k, e, cur : /\ HeightsOf(todo, Len(type_args), k)
                         /\ Serves(k, e, cur) /\ Covered(cur)
    BY DEF ServeInv
  <2>2. /\ todo' = todo /\ type_args' = type_args /\ program' = program
        /\ generated' = generated /\ ir' = ir
    BY <1>1 DEF Idle
  <2>3. Serves(k, e, cur)' /\ Covered(cur)'
    BY <2>1, <2>2 DEF Serves, Covered, Pending, Elems
  <2> QED
    BY <2>1, <2>2, <2>3 DEF ServeInv
<1>2. CASE Filling
  <2>1. PICK ts \in Seq(Tasks) :
           /\ todo # <<>> /\ Head(todo).op \in {"declare", "left"} /\ Do(ts)
           /\ \A i \in 1..Len(ts) : ts[i].op \in {"type", "set", "free"}
           /\ UNCHANGED <<program, generated, type_args, ir>>
    BY <1>2 DEF Filling
  <2> QED
    BY <2>1, ServeFlat
<1>3. CASE NextCompilation
  <2>1. Starting'
    BY <1>3, NextStarts
  <2> QED
    BY <2>1, ServeStartNext
<1>4. CASE Generating \/ GeneratingLeft
  BY <1>4, ServeGenerating DEF DeclInv
<1> QED
  BY <1>1, <1>2, <1>3, <1>4, StepKinds, ServeLowering, ServeLoading, ServeAdding,
     ServeDeclaring

-----------------------------------------------------------------------------
(* Only what is wanted is queued, and nothing wanted is dropped.           *)

LEMMA WantedGrows ==
  ASSUME program' = program, generated \subseteq generated'
  PROVE  WantedNow \subseteq WantedNow'
<1>1. \A i : References(program', i) = References(program, i)
  OBVIOUS
<1>2. RequiredInstances' = RequiredInstances
  BY DEF RequiredInstances
<1> QED
  BY <1>1, <1>2 DEF WantedNow

LEMMA WantKept ==
  ASSUME TypeInv, WantInv, todo # <<>>, NEW ts \in Seq(Tasks), Do(ts),
         program' = program, generated \subseteq generated',
         \/ \E t \in Elems(ts) : t.op = "left"
         \/ Head(todo).op \notin LowOps \cup {"left"}
         \/ /\ functions_left' = functions_left /\ Head(todo).op \in LowOps
            /\ \A t \in Elems(ts) : t.op \in LowOps
         \/ /\ functions_left' = <<>>
            /\ \A t \in Elems(ts) \cup Later : t.op \in LowOps,
         \A t \in Elems(ts) : t.op # "generate",
         Head(todo).op = "generate" => Instance(Head(todo).f, <<>>) \in generated',
         \A x \in Left' : \/ x \in Left
                          \/ /\ Head(todo).op = "queue"
                             /\ x = Instance(Head(todo).f, Head(todo).args),
         \A t \in Elems(ts) : t.op = "queue" => Instance(t.f, t.args) \in WantedNow
  PROVE  WantInv'
<1>1. /\ Pending' = Elems(ts) \cup Later /\ Pending = {Head(todo)} \cup Later
      /\ \A t : t \in Heavy' <=>
            t.op \in HeavyOps /\ (t \in Elems(ts) \/ t \in LaterHeavy)
      /\ \A t : t \in Heavy <=>
            t.op \in HeavyOps /\ (t = Head(todo) \/ t \in LaterHeavy)
  BY PendingStep, HeavyStep DEF TypeInv
<1>2. \/ \E t \in Pending' : t.op = "left"
      \/ functions_left' = <<>> /\ \A t \in Pending' : t.op \in LowOps
  <2>1. \/ \E t \in Pending : t.op = "left"
        \/ functions_left = <<>> /\ \A t \in Pending : t.op \in LowOps
    BY DEF WantInv
  <2> QED
    BY <1>1, <2>1 DEF LowOps
<1>3. \A t \in Heavy' : t.op = "generate" =>
         \E i \in DOMAIN Required : t.f = Required[i]
  BY <1>1 DEF WantInv
<1>4. \A i \in DOMAIN Required :
        \/ Instance(Required[i], <<>>) \in generated'
        \/ \E t \in Heavy' : t.op = "generate" /\ t.f = Required[i]
  BY <1>1 DEF WantInv
<1>5. WantedNow \subseteq WantedNow'
  BY WantedGrows
<1>6. Left' \subseteq WantedNow'
  <2>1. Head(todo).op = "queue" =>
           Instance(Head(todo).f, Head(todo).args) \in WantedNow
    BY <1>1 DEF WantInv, HeavyOps
  <2>2. Left \subseteq WantedNow
    BY DEF WantInv
  <2> QED
    BY <1>5, <2>1, <2>2
<1>7. \A t \in Heavy' : t.op = "queue" => Instance(t.f, t.args) \in WantedNow'
  <2>1. \A t \in Heavy : t.op = "queue" => Instance(t.f, t.args) \in WantedNow
    BY DEF WantInv
  <2> QED
    BY <1>1, <1>5, <2>1
<1> QED
  BY <1>2, <1>3, <1>4, <1>6, <1>7 DEF WantInv

LEMMA WantStart == TypeInv /\ Starting => WantInv
<1> SUFFICES ASSUME TypeInv, Starting PROVE WantInv
  OBVIOUS
<1> DEFINE n == Len(Required)
<1>1. /\ n \in Nat /\ Len(Work) = 2 * n + 1
      /\ \A i \in 1..n : /\ Work[i] = [op |-> "declare", f |-> Required[i]]
                         /\ Work[n + i] = [op |-> "generate", f |-> Required[i]]
      /\ Work[2 * n + 1] = Op("left")
  BY WorkTyped
<1>2. DOMAIN Required = 1..n
  BY DeclarationsAssumption, LenProperties
<1>3. todo = Work /\ functions_left = <<>>
  BY DEF Starting
<1> HIDE DEF n
<1>4. Op("left") \in Pending
  <2>1. 2 * n + 1 \in 1..Len(todo)
    BY <1>1, <1>3
  <2> QED
    BY <1>1, <1>3, <2>1 DEF Pending, Elems
<1>5. \A t \in Heavy : /\ t.op # "queue"
                       /\ t.op = "generate" =>
                             \E i \in DOMAIN Required : t.f = Required[i]
  <2> SUFFICES ASSUME NEW i \in 1..(2 * n + 1)
               PROVE  /\ Work[i].op # "queue"
                      /\ Work[i].op = "generate" =>
                            \E j \in DOMAIN Required : Work[i].f = Required[j]
    BY <1>1, <1>3 DEF Heavy, Pending, Elems
  <2>1. CASE i \in 1..n
    <3>1. Work[i] = [op |-> "declare", f |-> Required[i]]
      BY <1>1, <2>1
    <3> QED
      BY <3>1
  <2>2. CASE i \in (n + 1)..(2 * n)
    <3>1. i - n \in 1..n /\ n + (i - n) = i
      BY <1>1, <2>2
    <3>2. Work[n + (i - n)] = [op |-> "generate", f |-> Required[i - n]]
      BY <1>1, <3>1
    <3> QED
      BY <1>2, <3>1, <3>2
  <2>3. CASE i = 2 * n + 1
    BY <1>1, <2>3 DEF Op
  <2> QED
    BY <1>1, <2>1, <2>2, <2>3
<1>6. \A i \in DOMAIN Required :
         \E t \in Heavy : t.op = "generate" /\ t.f = Required[i]
  <2> SUFFICES ASSUME NEW i \in 1..n
               PROVE  \E t \in Heavy : t.op = "generate" /\ t.f = Required[i]
    BY <1>2
  <2>1. n + i \in 1..Len(todo)
    BY <1>1, <1>3
  <2>2. todo[n + i] = [op |-> "generate", f |-> Required[i]]
    BY <1>1, <1>3
  <2> QED
    BY <2>1, <2>2 DEF Heavy, Pending, Elems, HeavyOps
<1>7. \E t \in Pending : t.op = "left"
  BY <1>4 DEF Op
<1>8. Left = {}
  BY <1>3 DEF Left
<1> QED
  BY <1>5, <1>6, <1>7, <1>8 DEF WantInv

LEMMA WantStartNext == TypeInv' /\ Starting' => WantInv'
BY WantStart, PTL

(* An instance is queued because what is being generated refers to it.     *)
LEMMA WantLoading ==
  ASSUME TypeInv, WantInv, ServeInv, Loading
  PROVE  WantInv'
<1>1. PICK k, e, cur : /\ HeightsOf(todo, Len(type_args), k)
                       /\ Serves(k, e, cur) /\ Covered(cur)
  BY DEF ServeInv
<1>2. PICK f \in Functions, args \in Concrete :
        /\ f \in Intrinsics => args # <<>>
        /\ Loads(f, args) /\ GetOrCreate(f, args)
  BY DEF Loading
<1>3. /\ todo # <<>> /\ Head(todo).op \in Asking
      /\ Head(todo).op \notin LowOps \cup {"left"} /\ Head(todo).op # "generate"
      /\ program' = program /\ generated' = generated /\ Left' = Left
  BY DEF Loading, Asking, LowOps, Left
<1>4. Instance(f, args) \in WantedNow
  <2>1. /\ ItemRefs(Head(todo), cur.args) = {Instance(f, args)}
        /\ cur \in generated
        /\ \E m \in 1..Len(program[cur.f]) : Head(todo) = program[cur.f][m]
    BY <1>1, <1>2, <1>3, LoadedRef
  <2>2. cur.f \in Functions
    BY <2>1 DEF TypeInv
  <2>3. Instance(f, args) \in References(program, cur)
    BY <2>1, <2>2, ReferencesAre
  <2> QED
    BY <2>1, <2>3 DEF WantedNow
<1>5. CASE Do(<<>>)
  <2>1. PICK ts \in Seq(Tasks) : ts = <<>>
    BY EmptyTasks
  <2>2. Do(ts) /\ Elems(ts) = {}
    BY <1>5, <2>1 DEF Elems
  <2> QED
    BY <1>3, <2>2, WantKept
<1>6. CASE Do(Queue(f, args))
  <2>1. PICK ts : ts = Queue(f, args)
    OBVIOUS
  <2>2. /\ ts \in Seq(Tasks) /\ Do(ts)
        /\ \A t \in Elems(ts) :
              t.op \in LowOps \/ t = [op |-> "queue", f |-> f, args |-> args]
    BY <1>2, <1>6, <2>1, QueueOrdered DEF Elems
  <2>3. \A t \in Elems(ts) : /\ t.op # "generate"
                             /\ t.op = "queue" => t.f = f /\ t.args = args
    BY <2>2 DEF LowOps
  <2> QED
    BY <1>3, <1>4, <2>2, <2>3, WantKept
<1> QED
  BY <1>2, <1>5, <1>6 DEF GetOrCreate

LEMMA WantQueue ==
  ASSUME TypeInv, DeclInv, WantInv, QueueFunction
  PROVE  WantInv'
<1>1. /\ todo \in Seq(Tasks) /\ todo # <<>> /\ Head(todo).op = "queue" /\ Do(<<>>)
      /\ functions_left' = Append(functions_left,
                                  [f |-> Head(todo).f, args |-> Head(todo).args])
      /\ program' = program /\ generated' = generated
  BY DEF QueueFunction, Task, TypeInv
<1>2. Head(todo).f \in Functions /\ Head(todo).args \in Concrete
  BY <1>1, HeadTailProperties, TaskFields
<1>3. Left' = Left \cup {Instance(Head(todo).f, Head(todo).args)}
  <2>1. ~Declared(Head(todo).f, Head(todo).args)
    <3>1. Head(todo) \in Heavy
      BY <1>1, HeavyRemoved DEF HeavyOps
    <3> QED
      BY <1>1, <3>1 DEF DeclInv
  <2>2. Instance(Head(todo).f, Head(todo).args) \notin Left
    BY <2>1 DEF DeclInv, Declared, Instance
  <2> QED
    BY <1>1, <1>2, <2>2, LeftAppended DEF DeclInv
<1>4. PICK ts \in Seq(Tasks) : ts = <<>>
  BY EmptyTasks
<1>5. Do(ts) /\ Elems(ts) = {}
  BY <1>1, <1>4 DEF Elems
<1>6. Head(todo).op \notin LowOps \cup {"left"} /\ Head(todo).op # "generate"
  BY <1>1 DEF LowOps
<1> QED
  BY <1>1, <1>3, <1>5, <1>6, WantKept

LEMMA WantDeclaring ==
  ASSUME TypeInv, WantInv, DeclareRequired \/ SetRequired
  PROVE  WantInv'
<1>1. /\ todo # <<>> /\ Head(todo).op \notin LowOps \cup {"left"}
      /\ Head(todo).op # "generate"
      /\ program' = program /\ generated' = generated /\ Left' = Left
  BY DEF DeclareRequired, SetRequired, Task, LowOps, Left
<1>2. \E ts \in Seq(Tasks) :
         Do(ts) /\ \A t \in Elems(ts) : t.op \notin {"generate", "queue"}
  <2>1. CASE Do(<<>>)
    <3>1. <<>> \in Seq(Tasks) /\ Elems(<<>>) = {}
      BY EmptyTasks DEF Elems
    <3> QED
      BY <2>1, <3>1
  <2>2. CASE DeclareRequired /\ Head(todo).f \notin Generic
    <3>1. PICK f, ts : f = Head(todo).f /\ ts = Declaring(f)
      OBVIOUS
    <3>2. f \in Functions
      <4>1. Head(todo).op = "declare"
        BY <2>2 DEF DeclareRequired, Task
      <4> QED
        BY <1>1, <3>1, <4>1, HeadTailProperties, TaskFields DEF TypeInv
    <3>3. /\ ts \in Seq(Tasks)
          /\ \A i \in 1..Len(ts) :
                ts[i].op = "type" \/ ts[i] = [op |-> "set", f |-> f]
      BY <2>2, <3>1, <3>2, DeclaringOrdered
    <3>4. Do(ts)
      BY <2>2, <3>1 DEF DeclareRequired, Declaring
    <3>5. \A i \in 1..Len(ts) : ts[i].op \in {"type", "set"}
      BY <3>3
    <3>6. \A t \in Elems(ts) : t.op \in {"type", "set"}
      BY <3>5 DEF Elems
    <3> QED
      BY <3>3, <3>4, <3>6
  <2> QED
    BY <2>1, <2>2 DEF DeclareRequired, SetRequired
<1> QED
  BY <1>1, <1>2, WantKept

LEMMA WantGenerating ==
  ASSUME TypeInv, WantInv, DeclInv, Generating \/ GeneratingLeft
  PROVE  WantInv'
<1>1. CASE Generating
  <2>1. PICK f, ts : f = Head(todo).f /\ ts = program[f]
    OBVIOUS
  <2>2. /\ f \in Functions /\ Do(ts) /\ todo # <<>> /\ Head(todo).op = "generate"
        /\ generated' = generated \cup {Instance(f, <<>>)}
        /\ program' = program /\ Left' = Left
    BY <1>1, <2>1 DEF Generating, Left
  <2>3. ts \in Seq(Tasks) /\ \A t \in Elems(ts) : t.op \in {"type", "call", "bound"}
    BY <2>1, <2>2, BodyTyped DEF Elems
  <2>4. Head(todo).op \notin LowOps \cup {"left"}
    BY <2>2 DEF LowOps
  <2>5. /\ generated \subseteq generated' /\ Instance(f, <<>>) \in generated'
        /\ \A t \in Elems(ts) : t.op # "generate" /\ t.op # "queue"
    BY <2>2, <2>3
  <2> QED
    BY <2>1, <2>2, <2>3, <2>4, <2>5, WantKept
<1>2. CASE GeneratingLeft
  <2>1. PICK f, ts : f = functions_left[Len(functions_left)].f /\ ts = Body(f)
    OBVIOUS
  <2>2. /\ f \in Functions /\ Do(ts) /\ todo # <<>> /\ Head(todo).op = "left"
        /\ functions_left # <<>> /\ functions_left' = Front(functions_left)
        /\ generated \subseteq generated' /\ program' = program
    BY <1>2, <2>1 DEF GeneratingLeft
  <2>3. Left' \subseteq Left
    BY <2>2, LeftTaken DEF DeclInv
  <2>4. /\ ts \in Seq(Tasks)
        /\ \A t \in Elems(ts) : t.op \in {"type", "call", "bound", "pop", "left"}
        /\ Op("left") \in Elems(ts)
    <3>1. PICK n : n = Len(program[f])
      OBVIOUS
    <3>2. /\ n \in Nat /\ ts \in Seq(Tasks) /\ Len(ts) = n + 2
          /\ \A i \in 1..n : ts[i].op \in {"type", "call", "bound"}
          /\ ts[n + 1] = Op("pop") /\ ts[n + 2] = Op("left")
      BY <2>1, <2>2, <3>1, LeftBody
    <3>3. \A i \in 1..Len(ts) : i \in 1..n \/ i = n + 1 \/ i = n + 2
      BY <3>2
    <3>4. \A i \in 1..Len(ts) : ts[i].op \in {"type", "call", "bound", "pop", "left"}
      BY <3>2, <3>3 DEF Op
    <3>5. n + 2 \in 1..Len(ts)
      BY <3>2
    <3> QED
      BY <3>2, <3>4, <3>5 DEF Elems
  <2>5. /\ \E t \in Elems(ts) : t.op = "left"
        /\ \A t \in Elems(ts) : t.op # "generate" /\ t.op # "queue"
        /\ Head(todo).op # "generate"
    BY <2>2, <2>4 DEF Op
  <2> QED
    BY <2>2, <2>3, <2>4, <2>5, WantKept
<1> QED
  BY <1>1, <1>2

LEMMA WantStep ==
  TypeInv /\ TypeInv' /\ DeclInv /\ WantInv /\ ServeInv /\ [Next]_vars => WantInv'
<1> SUFFICES ASSUME TypeInv, TypeInv', DeclInv, WantInv, ServeInv, [Next]_vars
             PROVE  WantInv'
  OBVIOUS
<1>1. CASE Idle
  BY <1>1 DEF Idle, WantInv, Heavy, Pending, Elems, Left, WantedNow
<1>2. CASE Lowering
  <2>1. PICK ts \in Seq(Tasks) :
          /\ todo # <<>> /\ Head(todo).op \in LowOps /\ Do(ts)
          /\ \A i \in 1..Len(ts) : ts[i].op \in LowOps
    BY <1>2 DEF Lowering
  <2>2. /\ program' = program /\ generated' = generated
        /\ functions_left' = functions_left /\ Left' = Left
    BY <1>2 DEF Lowering, Left
  <2>3. \A t \in Elems(ts) : /\ t.op \in LowOps /\ t.op # "generate"
                             /\ t.op # "queue"
    BY <2>1 DEF Elems, LowOps
  <2>4. Head(todo).op # "generate"
    BY <2>1 DEF LowOps
  <2> QED
    BY <2>1, <2>2, <2>3, <2>4, WantKept
<1>3. CASE Filling
  <2>1. PICK ts \in Seq(Tasks) :
          /\ todo # <<>> /\ Head(todo).op = "left" /\ Do(ts)
          /\ \A i \in 1..Len(ts) : ts[i].op \in {"type", "free"}
    BY <1>3 DEF Filling
  <2>2. /\ program' = program /\ generated' = generated
        /\ functions_left' = <<>> /\ Left' = Left
    BY <1>3 DEF Filling, Left
  <2>3. \A t \in Elems(ts) : /\ t.op \in LowOps /\ t.op # "generate"
                             /\ t.op # "queue"
    BY <2>1 DEF Elems, LowOps
  <2>4. \A t \in Later : t.op \in LowOps
    <3>1. \A t \in Later : t.op \notin Bars("left")
      BY <2>1, OrderedLater DEF TypeInv, DeclInv
    <3>2. \A t \in Later : t \in Tasks
      <4>1. \A i \in 2..Len(todo) : i \in 1..Len(todo)
        BY LenProperties DEF TypeInv
      <4> QED
        BY <4>1, ElementOfSeq DEF TypeInv, Later
    <3> QED
      BY <3>1, <3>2, TaskFields DEF Bars, LowOps
  <2> QED
    BY <2>1, <2>2, <2>3, <2>4, WantKept
<1>4. CASE NextCompilation
  <2>1. Starting'
    BY <1>4, NextStarts
  <2> QED
    BY <2>1, WantStartNext
<1> QED
  BY <1>1, <1>2, <1>3, <1>4, StepKinds, WantLoading, WantQueue, WantDeclaring,
     WantGenerating

LEMMA WantInvariant == Spec => [](WantInv /\ ServeInv)
<1>1. Init => WantInv /\ ServeInv
  <2> SUFFICES ASSUME Init PROVE WantInv /\ ServeInv
    OBVIOUS
  <2>1. TypeInv /\ Starting
    BY TypeInit, NothingThere DEF Init, Starting
  <2> QED
    BY <2>1, WantStart, ServeStart
<1> QED
  BY <1>1, TypeInvariant, DeclInvariant, WantStep, ServeStep, PTL DEF Spec

-----------------------------------------------------------------------------
(* The abstract specification.                                             *)

LEMMA WantedIs == Mono!Wanted = WantedNow /\ Mono!absVars = <<program, generated, status>>
<1>1. \A t, args : Mono!Resolve(t, args) = Resolve(t, args)
  BY DEF Mono!Resolve, Resolve, Mono!NoneType, NoneType, Mono!Base, Base
<1>2. \A types, args : Mono!ResolveAll(types, args) = ResolveAll(types, args)
  BY <1>1 DEF Mono!ResolveAll, ResolveAll
<1>3. \A f, args : Mono!Instance(f, args) = Instance(f, args)
  BY DEF Mono!Instance, Instance, Mono!Slot, Slot
<1>4. \A p, x : Mono!References(p, x) = References(p, x)
  BY <1>2, <1>3 DEF Mono!References, References
<1>5. Mono!RequiredInstances = RequiredInstances
  BY <1>3 DEF Mono!RequiredInstances, RequiredInstances
<1> QED
  BY <1>4, <1>5 DEF Mono!Wanted, WantedNow, Mono!absVars

(* When nothing is left to do, everything wanted has been generated.       *)
LEMMA NothingWanting ==
  ASSUME TypeInv, DeclInv, WantInv, ServeInv, todo = <<>>
  PROVE  WantedNow \subseteq generated
<1>1. Pending = {} /\ Heavy = {}
  BY DEF Pending, Elems, Heavy
<1>2. functions_left = <<>> /\ Left = {}
  <2>1. functions_left = <<>>
    BY <1>1 DEF WantInv
  <2> QED
    BY <2>1 DEF Left
<1>3. RequiredLeft = {}
  BY <1>1, RequiredLeftHeavy DEF RequiredAreHeavy
<1>4. RequiredInstances \subseteq generated
  BY <1>1 DEF WantInv, RequiredInstances
<1>5. ASSUME NEW g \in generated, NEW r \in References(program, g)
      PROVE  r \in generated
  <2>1. r.args \in DOMAIN ir[r.f]
    BY <1>1 DEF ServeInv, Covered
  <2>2. r.f \in Functions /\ r = [f |-> r.f, args |-> r.args]
    BY ReferencesTyped
  <2>3. [f |-> r.f, args |-> r.args] \in generated \cup Left \cup RequiredLeft
    BY <2>1, <2>2 DEF DeclInv
  <2> QED
    BY <1>2, <1>3, <2>2, <2>3
<1> QED
  BY <1>4, <1>5 DEF WantedNow

LEMMA AbstractStep ==
  ASSUME TypeInv, DeclInv, WantInv, ServeInv, [Next]_vars
  PROVE  [Mono!AbsNext]_<<program, generated, status>>
<1>1. CASE Idle
  <2>1. program' = program /\ generated' = generated
    BY <1>1 DEF Idle
  <2>2. CASE status' = status
    BY <2>1, <2>2
  <2>3. CASE status = "running" /\ status' = "crashed"
    BY <2>1, <2>3 DEF Mono!AbsNext, Mono!Refuse
  <2>4. CASE status = "running" /\ status' = "done" /\ todo = <<>>
    <3>1. Mono!Wanted \subseteq generated
      BY <2>4, NothingWanting, WantedIs
    <3> QED
      BY <2>1, <2>4, <3>1 DEF Mono!AbsNext, Mono!Complete
  <2> QED
    BY <1>1, <2>2, <2>3, <2>4 DEF Idle
<1>2. CASE Generating
  <2>1. PICK x : x = Instance(Head(todo).f, <<>>)
    OBVIOUS
  <2>2. /\ status = "running" /\ generated' = generated \cup {x}
        /\ program' = program /\ status' = status
    BY <1>2, <2>1 DEF Generating
  <2>3. x \in Mono!Wanted
    <3>1. todo \in Seq(Tasks) /\ todo # <<>> /\ Head(todo).op = "generate"
      BY <1>2 DEF Generating, TypeInv
    <3>2. Head(todo) \in Heavy
      <4>1. Head(todo) = todo[1] /\ 1 \in 1..Len(todo)
        BY <3>1, HeadTailProperties
      <4> QED
        BY <3>1, <4>1 DEF Heavy, Pending, Elems, HeavyOps
    <3>3. \E i \in DOMAIN Required : Head(todo).f = Required[i]
      BY <3>1, <3>2 DEF WantInv
    <3> QED
      BY <2>1, <3>3, WantedIs DEF WantedNow, RequiredInstances
  <2>4. CASE x \in generated
    BY <2>2, <2>4
  <2>5. CASE x \notin generated
    BY <2>2, <2>3, <2>5 DEF Mono!AbsNext, Mono!Generate
  <2> QED
    BY <2>4, <2>5
<1>3. CASE GeneratingLeft
  <2>1. PICK x : x = LeftInstance(Len(functions_left))
    OBVIOUS
  <2>2. /\ status = "running" /\ generated' = generated \cup {x}
        /\ program' = program /\ status' = status
        /\ functions_left # <<>> /\ functions_left' = Front(functions_left)
    BY <1>3, <2>1 DEF GeneratingLeft, LeftInstance
  <2>3. x \in Left
    BY <2>1, <2>2, LeftTaken DEF DeclInv
  <2>4. x \in Mono!Wanted \ generated
    BY <2>3, WantedIs DEF WantInv, DeclInv
  <2> QED
    BY <2>2, <2>4 DEF Mono!AbsNext, Mono!Generate
<1>4. CASE NextCompilation
  BY <1>4 DEF NextCompilation, Mono!AbsNext, Mono!Again
<1>5. CASE Lowering \/ Loading \/ Filling
  BY <1>5 DEF Lowering, Loading, Filling
<1>6. CASE QueueFunction \/ DeclareRequired \/ SetRequired
  BY <1>6 DEF QueueFunction, DeclareRequired, SetRequired
<1> QED
  BY <1>1, <1>2, <1>3, <1>4, <1>5, <1>6, StepKinds

(* The generator implements Monomorphisation: it takes for generation only *)
(* what is required or referred to by what has been generated, each        *)
(* instance once, and returns only when everything that is referred to has *)
(* been generated.  (That it returns is for TLC: MonoSpec.)                *)
THEOREM Refines == Spec => Mono!AbsInit /\ [][Mono!AbsNext]_(Mono!absVars)
<1>1. Init => Mono!AbsInit
  BY DEF Init, Mono!AbsInit
<1>2. TypeInv /\ DeclInv /\ (WantInv /\ ServeInv) /\ [Next]_vars
         => [Mono!AbsNext]_(Mono!absVars)
  <2> SUFFICES ASSUME TypeInv, DeclInv, WantInv, ServeInv, [Next]_vars
               PROVE  [Mono!AbsNext]_(Mono!absVars)
    OBVIOUS
  <2>1. [Mono!AbsNext]_<<program, generated, status>>
    BY AbstractStep
  <2> QED
    BY <2>1 DEF Mono!absVars
<1> QED
  BY <1>1, <1>2, TypeInvariant, DeclInvariant, WantInvariant, PTL DEF Spec

=============================================================================
