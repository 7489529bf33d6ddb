--------------------------- MODULE Scopes_proofs ---------------------------
(***************************************************************************)
(* Proofs about the scopes, loops and closures of the GIR generator, for   *)
(* every set of names, parameter lists and loop types, and for bodies of   *)
(* every size and depth.                                                   *)
(***************************************************************************)
EXTENDS Scopes, SequenceTheorems, FiniteSetTheorems, TLAPS

-----------------------------------------------------------------------------
(* The constructs that the walk is inside of.                              *)

(* Where a construct is while the walk is inside of one of its parts.      *)
Waiting == Expected \cup {"branch"}

(* The places of each construct; a loop has a type once it is entered; a   *)
(* construct without a scope declares nothing.                             *)
Proper(f) ==
  /\ f.kind \in {"function", "closure", "branch"} => f.at \in {"body", "leave"}
  /\ f.kind = "block" => f.at = "body"
  /\ f.kind = "variable" => f.at \in {"value", "leave"} /\ f.name \in Names
  /\ f.kind = "break" => f.at \in {"value", "leave"}
  /\ f.kind = "if" => f.at \in {"cond", "branch", "else", "leave"}
  /\ f.kind = "when" => f.at \in {"value", "cond", "branch", "else", "leave"}
  /\ f.kind = "for" => f.at \in {"cond", "enter", "body", "between", "else", "leave"}
  /\ f.kind = "for_iter" =>
        /\ f.at \in {"iterator", "enter", "body", "between", "else", "leave"}
        /\ f.name \in Names
  /\ f.kind \in Loops => (f.loop = None <=> f.at \in {"cond", "iterator", "enter"})
  /\ ~OpensScope(f) \/ (f.at = "enter" /\ f.kind = "for") => f.scope = Empty

Framed(fs) ==
  /\ fs \in Seq(Frame)
  /\ \A i \in 1..Len(fs) : Proper(fs[i]) /\ (fs[i].kind = "function" <=> i = 1)
  /\ \A i \in 1..Len(fs) : i < Len(fs) => fs[i].at \in Waiting

Awaiting(fs) == fs # <<>> /\ Framed(fs) /\ Last(fs).at \in Waiting

Closures(fs) == {k \in DOMAIN fs : fs[k].kind = "closure"}

TypeInv ==
  /\ gens \in Seq(Generator) /\ gens # <<>>
  /\ Framed(frames) /\ Len(frames) <= MaxDepth
  /\ nodes \in 0..MaxNodes
  /\ functions \in 0..MaxFunctions
  /\ found \in SUBSET Codes
  /\ external \in BOOLEAN
  /\ panicked \in {"no", "outer", "literal"}
  /\ \A k \in 1..Len(gens) : gens[k].is_closure <=> k > 1
  /\ Len(gens) = 1 + Cardinality(Closures(frames))

-----------------------------------------------------------------------------
(* Lemmas about the operators.                                             *)

LEMMA LargestExists ==
  ASSUME NEW n \in Nat, NEW S \in SUBSET (1..n), S # {}
  PROVE  Max(S) \in S /\ \A i \in S : i <= Max(S)
<1> DEFINE T == {n - i : i \in S}
<1>1. T \subseteq Nat /\ T # {}
  <2>1. PICK j \in S : TRUE
    OBVIOUS
  <2>2. n - j \in T
    BY <2>1
  <2>3. \A i \in S : n - i \in Nat
    OBVIOUS
  <2> QED
    BY <2>2, <2>3
<1>2. PICK x \in T : \A y \in T : ~ (<<y, x>> \in OpToRel(<, Nat))
  BY <1>1, NatLessThanWellFounded, WFMin
<1>3. PICK i \in S : x = n - i
  OBVIOUS
<1>4. \A j \in S : j <= i
  <2> SUFFICES ASSUME NEW j \in S
               PROVE  j <= i
    OBVIOUS
  <2>1. n - j \in T /\ n - j \in Nat /\ x \in Nat
    BY <1>1
  <2>2. ~(n - j < x)
    BY <1>2, <2>1 DEF OpToRel
  <2> QED
    BY <1>3, <2>2
<1> QED
  BY <1>4 DEF Max

LEMMA LargestIs ==
  ASSUME NEW n \in Nat, NEW S \in SUBSET (1..n), NEW j \in S, \A i \in S : i <= j
  PROVE  Max(S) = j
<1>1. Max(S) \in S /\ \A i \in S : i <= Max(S)
  BY LargestExists
<1>2. Max(S) \in 1..n /\ j \in 1..n /\ j <= Max(S) /\ Max(S) <= j
  BY <1>1
<1> QED
  BY <1>2

LEMMA PopProperties ==
  ASSUME NEW S, NEW s \in Seq(S), s # <<>>
  PROVE  /\ Len(s) \in Nat \ {0} /\ Pop(s) \in Seq(S) /\ Len(Pop(s)) = Len(s) - 1
         /\ \A i \in 1..(Len(s) - 1) : Pop(s)[i] = s[i]
         /\ Last(s) = s[Len(s)] /\ Last(s) \in S
<1>1. Len(s) \in Nat \ {0}
  BY EmptySeq
<1>2. PICK m : m = Len(s) - 1
  OBVIOUS
<1>3. m \in Nat /\ m <= Len(s) /\ 1 <= Len(s) + 1 /\ Len(s) \in 1..Len(s)
  BY <1>1, <1>2
<1>4. SubSeq(s, 1, m) \in Seq(S)
  <2>1. \A i \in 1..m : s[i] \in S
    BY <1>1, <1>3, ElementOfSeq
  <2> QED
    BY <1>3, <2>1, SubSeqProperties
<1>5. /\ Len(SubSeq(s, 1, m)) = m
      /\ \A i \in 1..m : SubSeq(s, 1, m)[i] = s[i]
  BY <1>1, <1>2, <1>3, SubSeqProperties
<1> QED
  BY <1>1, <1>2, <1>3, <1>4, <1>5, ElementOfSeq DEF Pop, Last

Replaced(fs, i, f) == [fs EXCEPT ![i] = f]

(* One construct is replaced by another of its kind.                       *)
LEMMA Changed ==
  ASSUME NEW fs, Framed(fs), NEW i \in 1..Len(fs), NEW f \in Frame, Proper(f),
         f.kind = fs[i].kind, f.at = fs[i].at \/ i = Len(fs),
         NEW r, r = Replaced(fs, i, f)
  PROVE  /\ Framed(r) /\ Len(r) = Len(fs) /\ Closures(r) = Closures(fs)
         /\ r[i] = f /\ \A j \in 1..Len(fs) : j # i => r[j] = fs[j]
<1>1. fs \in Seq(Frame) /\ DOMAIN fs = 1..Len(fs) /\ Len(fs) \in Nat
  BY LenProperties DEF Framed
<1>2. r \in Seq(Frame) /\ Len(r) = Len(fs) /\ DOMAIN r = 1..Len(fs)
  BY <1>1, ExceptSeq DEF Replaced
<1>3. r[i] = f /\ \A j \in 1..Len(fs) : j # i => r[j] = fs[j]
  BY <1>1 DEF Replaced
<1>4. \A j \in 1..Len(fs) : r[j].kind = fs[j].kind
  BY <1>3
<1>5. Framed(r)
  <2>1. \A j \in 1..Len(fs) : Proper(r[j]) /\ (r[j].kind = "function" <=> j = 1)
    BY <1>3, <1>4 DEF Framed
  <2>2. \A j \in 1..Len(fs) : j < Len(fs) => r[j].at \in Waiting
    <3> SUFFICES ASSUME NEW j \in 1..Len(fs), j < Len(fs)
                 PROVE  r[j].at \in Waiting
      OBVIOUS
    <3>1. fs[j].at \in Waiting
      BY DEF Framed
    <3>2. r[j].at = fs[j].at
      BY <1>3
    <3> QED
      BY <3>1, <3>2
  <2> QED
    BY <1>2, <2>1, <2>2 DEF Framed
<1>6. Closures(r) = Closures(fs)
  BY <1>1, <1>2, <1>4 DEF Closures
<1> QED
  BY <1>2, <1>3, <1>5, <1>6

LEMMA Pushed ==
  ASSUME NEW fs, Awaiting(fs), NEW f \in Frame, Proper(f), f.kind # "function",
         NEW r, r = Append(fs, f)
  PROVE  /\ Framed(r) /\ Len(r) = Len(fs) + 1 /\ Len(fs) \in Nat \ {0}
         /\ r[Len(fs) + 1] = f /\ \A j \in 1..Len(fs) : r[j] = fs[j]
         /\ Closures(r) = Closures(fs)
                          \cup (IF f.kind = "closure" THEN {Len(fs) + 1} ELSE {})
<1>0. PICK n : n = Len(fs)
  OBVIOUS
<1>1. /\ fs \in Seq(Frame) /\ DOMAIN fs = 1..n /\ n \in Nat \ {0}
      /\ fs[n].at \in Waiting
  BY <1>0, LenProperties, EmptySeq DEF Awaiting, Framed, Last
<1>2. /\ r \in Seq(Frame) /\ Len(r) = n + 1 /\ DOMAIN r = 1..(n + 1)
      /\ r[n + 1] = f /\ \A j \in 1..n : r[j] = fs[j]
  BY <1>0, <1>1, AppendProperties, LenProperties
<1>3. \A j \in 1..(n + 1) : j \in 1..n \/ j = n + 1
  BY <1>1
<1>4. Framed(r)
  <2>1. \A j \in 1..(n + 1) : Proper(r[j]) /\ (r[j].kind = "function" <=> j = 1)
    BY <1>0, <1>1, <1>2, <1>3 DEF Awaiting, Framed
  <2>2. \A j \in 1..(n + 1) : j < n + 1 => r[j].at \in Waiting
    <3> SUFFICES ASSUME NEW j \in 1..n
                 PROVE  fs[j].at \in Waiting
      BY <1>1, <1>2, <1>3
    <3>1. j < n \/ j = n
      BY <1>1
    <3> QED
      BY <1>0, <1>1, <3>1 DEF Awaiting, Framed
  <2> QED
    BY <1>2, <2>1, <2>2 DEF Framed
<1>5. Closures(r) = Closures(fs)
                    \cup (IF f.kind = "closure" THEN {n + 1} ELSE {})
  BY <1>1, <1>2, <1>3 DEF Closures
<1> QED
  BY <1>0, <1>1, <1>2, <1>4, <1>5

LEMMA Popped ==
  ASSUME NEW fs, Framed(fs), fs # <<>>, Last(fs).kind # "function",
         NEW r, r = Pop(fs)
  PROVE  /\ Awaiting(r) /\ Len(r) = Len(fs) - 1 /\ Len(fs) \in Nat \ {0, 1}
         /\ \A j \in 1..(Len(fs) - 1) : r[j] = fs[j]
         /\ Closures(r) = Closures(fs) \ {Len(fs)}
<1>0. PICK n : n = Len(fs)
  OBVIOUS
<1>1. /\ fs \in Seq(Frame) /\ DOMAIN fs = 1..n /\ n \in Nat \ {0}
      /\ r \in Seq(Frame) /\ Len(r) = n - 1 /\ DOMAIN r = 1..(n - 1)
      /\ \A j \in 1..(n - 1) : r[j] = fs[j]
      /\ Last(fs) = fs[n]
  BY <1>0, LenProperties, PopProperties DEF Framed
<1>2. n # 1
  BY <1>0, <1>1 DEF Framed
<1>3. r # <<>> /\ Last(r) = r[n - 1]
  BY <1>1, <1>2, EmptySeq DEF Last
<1>4. n - 1 \in 1..(n - 1) /\ n - 1 < n /\ n - 1 \in 1..n
  BY <1>1, <1>2
<1>5. \A j \in 1..(n - 1) : j \in 1..n /\ j < n
  BY <1>1
<1>6. Framed(r)
  BY <1>0, <1>1, <1>5 DEF Framed
<1>7. Last(r).at \in Waiting
  BY <1>0, <1>1, <1>3, <1>4 DEF Framed
<1>8. Closures(r) = Closures(fs) \ {n}
  <2>1. \A j \in 1..n : j \in 1..(n - 1) <=> j # n
    BY <1>1
  <2> QED
    BY <1>1, <1>5, <2>1 DEF Closures
<1> QED
  BY <1>0, <1>1, <1>2, <1>3, <1>6, <1>7, <1>8 DEF Awaiting

LEMMA Advanced ==
  ASSUME NEW fs, Awaiting(fs), NEW r, r = Advance(fs), NEW n, n = Len(fs)
  PROVE  /\ n \in Nat \ {0} /\ Framed(r) /\ Len(r) = n
         /\ Closures(r) = Closures(fs)
         /\ r[n] = [fs[n] EXCEPT !.at = After(fs[n])]
         /\ \A j \in 1..n : j # n => r[j] = fs[j]
         /\ Last(fs) = fs[n]
<1>1. /\ fs \in Seq(Frame) /\ n \in Nat \ {0} /\ n \in 1..n /\ fs[n] \in Frame
      /\ fs[n].at \in Waiting /\ Proper(fs[n]) /\ Framed(fs) /\ Last(fs) = fs[n]
  <2>1. fs \in Seq(Frame) /\ n \in Nat \ {0}
    BY EmptySeq DEF Awaiting, Framed
  <2>2. n \in 1..n
    BY <2>1
  <2> QED
    BY <2>1, <2>2, ElementOfSeq DEF Awaiting, Framed, Last
<1>2. PICK f : f = [fs[n] EXCEPT !.at = After(fs[n])]
  OBVIOUS
<1>3. After(fs[n]) \in Places
  BY DEF After, Places, Expected
<1>4. /\ f \in Frame /\ f.kind = fs[n].kind /\ f.name = fs[n].name
      /\ f.scope = fs[n].scope /\ f.loop = fs[n].loop /\ f.at = After(fs[n])
  BY <1>1, <1>2, <1>3 DEF Frame
<1>5. Proper(f)
  BY <1>1, <1>4 DEF Proper, After, Waiting, Expected, OpensScope, Loops
<1>6. r = Replaced(fs, n, f)
  BY <1>1, <1>2 DEF Advance, Goto, Awaiting, Replaced
<1>7. /\ Framed(r) /\ Len(r) = Len(fs) /\ Closures(r) = Closures(fs)
      /\ r[n] = f /\ \A j \in 1..Len(fs) : j # n => r[j] = fs[j]
  <2>1. /\ Framed(fs) /\ n \in 1..Len(fs) /\ f \in Frame /\ Proper(f)
        /\ f.kind = fs[n].kind /\ n = Len(fs)
    BY <1>1, <1>4, <1>5
  <2> QED
    BY ONLY <1>6, <2>1, Changed
<1> QED
  BY <1>1, <1>2, <1>7

-----------------------------------------------------------------------------
(* Environments and generators.                                            *)

LEMMA EmptyTyped == Empty \in Environment
BY DEF Empty, Environment

LEMMA Defined ==
  ASSUME NEW envs \in Seq(Environment), envs # <<>>, NEW n \in Names, NEW v \in Var
  PROVE  /\ Define(envs, n, v) \in Seq(Environment)
         /\ Len(Define(envs, n, v)) = Len(envs)
         /\ Define(envs, n, v) = [envs EXCEPT ![Len(envs)] = [@ EXCEPT ![n] = v]]
<1>1. Len(envs) \in 1..Len(envs) /\ Len(envs) \in Nat
  BY EmptySeq
<1>2. envs[Len(envs)] \in Environment
  BY <1>1, ElementOfSeq
<1>3. [envs[Len(envs)] EXCEPT ![n] = v] \in Environment
  BY <1>2 DEF Environment
<1>4. Define(envs, n, v) = [envs EXCEPT ![Len(envs)] = [@ EXCEPT ![n] = v]]
  BY DEF Define
<1> QED
  BY <1>1, <1>3, <1>4, ExceptSeq

LEMMA Begun ==
  ASSUME NEW envs \in Seq(Environment), NEW e \in Environment
  PROVE  /\ Append(envs, e) \in Seq(Environment) /\ Append(envs, e) # <<>>
         /\ Len(Append(envs, e)) = Len(envs) + 1 /\ Len(envs) \in Nat
         /\ Append(envs, e)[Len(envs) + 1] = e
         /\ \A k \in 1..Len(envs) : Append(envs, e)[k] = envs[k]
         /\ Pop(Append(envs, e)) = envs
         /\ EndScope(Append(envs, e)) = envs
<1>1. /\ Append(envs, e) \in Seq(Environment) /\ Append(envs, e) # <<>>
      /\ Len(Append(envs, e)) = Len(envs) + 1 /\ Len(envs) \in Nat
      /\ Append(envs, e)[Len(envs) + 1] = e
      /\ \A k \in 1..Len(envs) : Append(envs, e)[k] = envs[k]
  BY AppendProperties
<1>2. Pop(Append(envs, e)) = envs
  <2>1. PICK a : a = Append(envs, e)
    OBVIOUS
  <2>2. /\ Len(a) \in Nat \ {0} /\ Pop(a) \in Seq(Environment) /\ Len(Pop(a)) = Len(a) - 1
        /\ \A i \in 1..(Len(a) - 1) : Pop(a)[i] = a[i]
    BY <1>1, <2>1, PopProperties
  <2>3. Len(Pop(a)) = Len(envs) /\ \A i \in 1..Len(envs) : Pop(a)[i] = envs[i]
    BY <1>1, <2>1, <2>2
  <2>4. Pop(a) = envs
    BY <2>2, <2>3, SeqEqual
  <2> QED
    BY <2>1, <2>4
<1> QED
  BY <1>1, <1>2 DEF EndScope

LEMMA Ended ==
  ASSUME NEW envs \in Seq(Environment)
  PROVE  /\ EndScope(envs) \in Seq(Environment) /\ Len(envs) \in Nat
         /\ Len(EndScope(envs)) \in Nat
         /\ Len(envs) > 0 => Len(EndScope(envs)) = Len(envs) - 1
<1>1. CASE envs = <<>>
  BY <1>1 DEF EndScope
<1>2. CASE envs # <<>>
  BY <1>2, PopProperties DEF EndScope
<1> QED
  BY <1>1, <1>2

LEMMA InnermostIs ==
  ASSUME NEW envs \in Seq(Environment), NEW n \in Names
  PROVE  \/ /\ Innermost(envs, n) = None
            /\ \A k \in 1..Len(envs) : envs[k][n] = None
         \/ \E m \in 1..Len(envs) :
              /\ Innermost(envs, n) = envs[m][n] /\ envs[m][n] # None
              /\ envs[m][n] \in Var
              /\ \A k \in 1..Len(envs) : k > m => envs[k][n] = None
<1> DEFINE hits == {k \in 1..Len(envs) : envs[k][n] # None}
<1>0. DOMAIN envs = 1..Len(envs) /\ Len(envs) \in Nat
  BY LenProperties
<1>1. Innermost(envs, n) = IF hits = {} THEN None ELSE envs[Max(hits)][n]
  BY <1>0 DEF Innermost
<1>2. CASE hits = {}
  BY <1>1, <1>2
<1>3. CASE hits # {}
  <2>1. Max(hits) \in hits /\ \A k \in hits : k <= Max(hits)
    BY <1>0, <1>3, LargestExists
  <2>2. PICK m : m = Max(hits)
    OBVIOUS
  <2>3. m \in 1..Len(envs) /\ envs[m][n] # None /\ \A k \in hits : k <= m
    BY <2>1, <2>2
  <2>4. envs[m] \in Environment
    BY <1>0, <2>3, ElementOfSeq
  <2>5. envs[m][n] \in Var
    BY <2>3, <2>4 DEF Environment
  <2>6. \A k \in 1..Len(envs) : k > m => envs[k][n] = None
    BY <1>0, <2>3
  <2> QED
    BY <1>1, <1>3, <2>2, <2>3, <2>5, <2>6
<1> QED
  BY <1>2, <1>3

LEMMA CaptureTyped ==
  ASSUME NEW g \in Generator, NEW n \in Names
  PROVE  Capture(g, n) \in SUBSET Var
<1>1. g.outer_env \in Seq(Environment)
  BY DEF Generator
<1>2. Innermost(g.outer_env, n) \in Var \cup {None}
  BY <1>1, InnermostIs
<1> QED
  BY <1>2 DEF Capture, Outer

(* Variables are kept under their names.                                   *)
NamedScope(e) == \A n \in Names : e[n] # None => e[n].name = n

LEMMA MadeTyped ==
  ASSUME gen \in Generator, nodes \in 0..MaxNodes, Room(1), NEW n \in Names
  PROVE  Made(n) \in Var /\ Temporary(n) \in Var /\ Made(n).name = n
<1>1. nodes + 1 \in 1..MaxNodes
  BY SizesAndNames DEF Room
<1>2. gen.fn \in 1..MaxFunctions
  BY DEF Generator
<1>3. /\ Made(n) \in Var /\ Made(n).name = n
      /\ [Made(n) EXCEPT !.temp = TRUE] \in Var
  BY <1>1, <1>2 DEF Made, NewVar, Var
<1> QED
  BY <1>3 DEF Temporary

LEMMA ParamsTyped ==
  ASSUME nodes \in 0..MaxNodes, NEW ps \in ParamLists, Room(Len(ps)),
         NEW fn \in 1..MaxFunctions
  PROVE  /\ ParamScope(fn, ps) \in Environment /\ Len(ps) \in Nat
         /\ NamedScope(ParamScope(fn, ps))
<1>1. ps \in Seq(Names) /\ Len(ps) \in Nat /\ DOMAIN ps = 1..Len(ps)
  BY SizesAndNames, LenProperties
<1>2. ASSUME NEW n \in Names
      PROVE  LET at == {i \in DOMAIN ps : ps[i] = n}
             IN  (IF at = {} THEN None ELSE NewVar(n, fn, Max(at))) \in Var \cup {None}
  <2> DEFINE at == {i \in 1..Len(ps) : ps[i] = n}
  <2>1. CASE at = {}
    BY <1>1, <2>1
  <2>2. CASE at # {}
    <3>1. Max(at) \in 1..Len(ps)
      BY <1>1, <2>2, LargestExists
    <3>2. nodes + Max(at) \in 1..MaxNodes
      BY <1>1, <3>1, SizesAndNames DEF Room
    <3>3. NewVar(n, fn, Max(at)) \in Var
      BY <3>2 DEF NewVar, Var
    <3> QED
      BY <1>1, <3>3
  <2> QED
    BY <2>1, <2>2
<1>3. ParamScope(fn, ps) \in Environment
  BY <1>2 DEF ParamScope, Environment
<1>4. NamedScope(ParamScope(fn, ps))
  <2> SUFFICES ASSUME NEW n \in Names, ParamScope(fn, ps)[n] # None
               PROVE  ParamScope(fn, ps)[n].name = n
    BY DEF NamedScope
  <2>1. \E i : ParamScope(fn, ps)[n] = NewVar(n, fn, i)
    BY DEF ParamScope
  <2> QED
    BY <2>1 DEF NewVar
<1> QED
  BY <1>1, <1>3, <1>4
-----------------------------------------------------------------------------
(* The construct that a definition or a break concerns.                    *)

LEMMA ScopedIs ==
  ASSUME NEW fs, Framed(fs), fs # <<>>, NEW m, m = Scoped(fs)
  PROVE  /\ m \in 1..Len(fs) /\ Len(fs) \in Nat /\ OpensScope(fs[m])
         /\ \A j \in 1..Len(fs) : j > m => ~OpensScope(fs[j])
<1> DEFINE S == {k \in 1..Len(fs) : OpensScope(fs[k])}
<1>1. fs \in Seq(Frame) /\ DOMAIN fs = 1..Len(fs) /\ Len(fs) \in Nat \ {0}
  BY LenProperties, EmptySeq DEF Framed
<1>2. 1 \in S
  <2>1. 1 \in 1..Len(fs)
    BY <1>1
  <2>2. fs[1].kind = "function"
    BY <2>1 DEF Framed
  <2> QED
    BY <2>1, <2>2 DEF OpensScope
<1>3. Scoped(fs) = Max(S)
  BY <1>1 DEF Scoped
<1>4. m \in S /\ \A k \in S : k <= m
  BY <1>1, <1>2, <1>3, LargestExists
<1>5. \A j \in 1..Len(fs) : j > m => j \notin S
  BY <1>1, <1>4
<1> QED
  BY <1>1, <1>4, <1>5

LEMMA DeclareTyped ==
  ASSUME NEW fs, Awaiting(fs), NEW n \in Names, NEW v \in Var,
         NEW r, r = Declare(fs, n, v), NEW m, m = Scoped(fs)
  PROVE  /\ Awaiting(r) /\ Len(r) = Len(fs) /\ Closures(r) = Closures(fs)
         /\ m \in 1..Len(fs)
         /\ r[m] = [fs[m] EXCEPT !.scope = [@ EXCEPT ![n] = v]]
         /\ \A j \in 1..Len(fs) : j # m => r[j] = fs[j]
<1>1. Framed(fs) /\ fs # <<>>
  BY DEF Awaiting
<1>2. m \in 1..Len(fs) /\ Len(fs) \in Nat /\ OpensScope(fs[m])
  BY ONLY <1>1, m = Scoped(fs), ScopedIs
<1>3. PICK f : f = [fs[m] EXCEPT !.scope = [@ EXCEPT ![n] = v]]
  OBVIOUS
<1>4. fs \in Seq(Frame) /\ Proper(fs[m]) /\ Last(fs) = fs[Len(fs)]
  BY <1>1, <1>2 DEF Framed, Last
<1>5. fs[m] \in Frame
  BY <1>2, <1>4, ElementOfSeq
<1>6. fs[m].at \in Waiting
  BY <1>2, <1>4 DEF Awaiting, Framed
<1>7. [fs[m].scope EXCEPT ![n] = v] \in Environment
  BY <1>5 DEF Frame, Environment
<1>8. /\ f \in Frame /\ f.kind = fs[m].kind /\ f.at = fs[m].at
      /\ f.name = fs[m].name /\ f.loop = fs[m].loop
  BY <1>3, <1>5, <1>7 DEF Frame
<1>9. Proper(f)
  BY <1>2, <1>4, <1>6, <1>8 DEF Proper, OpensScope, Waiting, Expected
<1>10. r = Replaced(fs, m, f)
  BY <1>3 DEF Declare, Replaced
<1>11. /\ Framed(r) /\ Len(r) = Len(fs) /\ Closures(r) = Closures(fs)
       /\ r[m] = f /\ \A j \in 1..Len(fs) : j # m => r[j] = fs[j]
  <2>1. /\ Framed(fs) /\ m \in 1..Len(fs) /\ f \in Frame /\ Proper(f)
        /\ f.kind = fs[m].kind /\ f.at = fs[m].at
    BY <1>1, <1>2, <1>8, <1>9
  <2> QED
    BY ONLY <1>10, <2>1, Changed
<1>12. Awaiting(r)
  <2>1. Len(fs) \in 1..Len(fs) /\ r # <<>>
    BY <1>2, <1>11, EmptySeq
  <2>2. r[Len(fs)].at = fs[Len(fs)].at
    BY <1>8, <1>11, <2>1
  <2> QED
    BY <1>4, <1>11, <2>1, <2>2 DEF Awaiting, Last
<1> QED
  BY <1>2, <1>3, <1>11, <1>12

LEMMA FunctionStartIs ==
  ASSUME NEW fs, Framed(fs), fs # <<>>, NEW m, m = FunctionStart(fs)
  PROVE  /\ m \in 1..Len(fs) /\ Len(fs) \in Nat
         /\ fs[m].kind \in {"function", "closure"}
         /\ \A j \in 1..Len(fs) : j > m => fs[j].kind \notin {"function", "closure"}
<1> DEFINE S == {k \in 1..Len(fs) : fs[k].kind \in {"function", "closure"}}
<1>1. fs \in Seq(Frame) /\ DOMAIN fs = 1..Len(fs) /\ Len(fs) \in Nat \ {0}
  BY LenProperties, EmptySeq DEF Framed
<1>2. 1 \in S
  BY <1>1 DEF Framed
<1>3. FunctionStart(fs) = Max(S)
  BY <1>1 DEF FunctionStart
<1>4. m \in S /\ \A k \in S : k <= m
  BY <1>1, <1>2, <1>3, LargestExists
<1>5. \A j \in 1..Len(fs) : j > m => j \notin S
  BY <1>1, <1>4
<1> QED
  BY <1>1, <1>4, <1>5

LEMMA LoopsInAre ==
  ASSUME NEW fs, Framed(fs), fs # <<>>, LoopsIn(fs) # {}, NEW m, m = Max(LoopsIn(fs))
  PROVE  /\ m \in 1..Len(fs) /\ fs[m].kind \in Loops /\ fs[m].loop # None
         /\ \A j \in 1..Len(fs) : j > m =>
              /\ fs[j].kind \notin {"function", "closure"}
              /\ fs[j].kind \in Loops => fs[j].loop = None
<1>1. PICK s : s = FunctionStart(fs)
  OBVIOUS
<1>2. /\ s \in 1..Len(fs) /\ Len(fs) \in Nat
      /\ \A j \in 1..Len(fs) : j > s => fs[j].kind \notin {"function", "closure"}
  BY <1>1, FunctionStartIs
<1>3. LoopsIn(fs) = {k \in s..Len(fs) : fs[k].kind \in Loops /\ fs[k].loop # None}
  BY <1>1 DEF LoopsIn
<1>4. LoopsIn(fs) \in SUBSET (1..Len(fs))
  BY <1>2, <1>3
<1>5. m \in LoopsIn(fs) /\ \A k \in LoopsIn(fs) : k <= m
  BY <1>2, <1>4, LargestExists
<1>6. ASSUME NEW j \in 1..Len(fs), j > m
      PROVE  j > s /\ j \notin LoopsIn(fs) /\ j \in s..Len(fs)
  <2>1. m \in s..Len(fs)
    BY <1>3, <1>5
  <2>2. j > s /\ j \in s..Len(fs) /\ ~(j <= m)
    BY <1>2, <1>6, <2>1
  <2> QED
    BY <1>5, <2>2
<1> QED
  BY <1>2, <1>3, <1>4, <1>5, <1>6

LEMMA SetLoopTyped ==
  ASSUME NEW fs, Framed(fs), fs # <<>>, NEW ty \in LoopTypes, NEW r, r = SetLoop(fs, ty)
  PROVE  /\ Framed(r) /\ Len(r) = Len(fs) /\ Closures(r) = Closures(fs)
         /\ Awaiting(fs) => Awaiting(r)
         /\ \A j \in 1..Len(fs) : r[j].at = fs[j].at /\ r[j].kind = fs[j].kind
         /\ \/ LoopsIn(fs) = {} /\ r = fs
            \/ \E m \in 1..Len(fs) :
                 /\ fs[m].kind \in Loops /\ fs[m].loop # None
                 /\ \A j \in 1..Len(fs) : j > m =>
                       /\ fs[j].kind \notin {"function", "closure"}
                       /\ fs[j].kind \in Loops => fs[j].loop = None
                 /\ r[m] = [fs[m] EXCEPT !.loop = SetLoopType(fs[m].loop, ty)]
                 /\ \A j \in 1..Len(fs) : j # m => r[j] = fs[j]
<1>1. CASE LoopsIn(fs) = {}
  BY <1>1 DEF SetLoop
<1>2. CASE LoopsIn(fs) # {}
  <2>1. PICK m : m = Max(LoopsIn(fs))
    OBVIOUS
  <2>2. /\ m \in 1..Len(fs) /\ fs[m].kind \in Loops /\ fs[m].loop # None
        /\ \A j \in 1..Len(fs) : j > m =>
              /\ fs[j].kind \notin {"function", "closure"}
              /\ fs[j].kind \in Loops => fs[j].loop = None
    BY <1>2, <2>1, LoopsInAre
  <2>3. PICK f : f = [fs[m] EXCEPT !.loop = SetLoopType(fs[m].loop, ty)]
    OBVIOUS
  <2>4. fs \in Seq(Frame) /\ Proper(fs[m]) /\ Len(fs) \in Nat
    BY <2>2 DEF Framed
  <2>5. fs[m] \in Frame
    BY <2>2, <2>4, ElementOfSeq
  <2>6. SetLoopType(fs[m].loop, ty) \in LoopTy /\ SetLoopType(fs[m].loop, ty) # None
    BY <2>2, <2>5, SpecialValues DEF Frame, LoopTy, SetLoopType
  <2>7. /\ f \in Frame /\ f.kind = fs[m].kind /\ f.at = fs[m].at
        /\ f.name = fs[m].name /\ f.scope = fs[m].scope /\ f.loop # None
    BY <2>3, <2>5, <2>6 DEF Frame
  <2>8. Proper(f)
    BY <2>2, <2>4, <2>7 DEF Proper, OpensScope
  <2>9. r = Replaced(fs, m, f)
    BY <1>2, <2>1, <2>3 DEF SetLoop, Replaced
  <2>10. /\ Framed(r) /\ Len(r) = Len(fs) /\ Closures(r) = Closures(fs)
         /\ r[m] = f /\ \A j \in 1..Len(fs) : j # m => r[j] = fs[j]
    <3>1. /\ Framed(fs) /\ m \in 1..Len(fs) /\ f \in Frame /\ Proper(f)
          /\ f.kind = fs[m].kind /\ f.at = fs[m].at
      BY <2>2, <2>7, <2>8
    <3> QED
      BY ONLY <2>9, <3>1, Changed
  <2>11. \A j \in 1..Len(fs) : r[j].at = fs[j].at /\ r[j].kind = fs[j].kind
    BY <2>7, <2>10
  <2>12. Awaiting(fs) => Awaiting(r)
    <3>1. Len(fs) \in 1..Len(fs) /\ r # <<>>
      BY <2>2, <2>4, <2>10, EmptySeq
    <3> QED
      BY <2>10, <2>11, <3>1 DEF Awaiting, Last
  <2> QED
    BY <2>2, <2>3, <2>10, <2>11, <2>12
<1> QED
  BY <1>1, <1>2
-----------------------------------------------------------------------------
(* What a step of the walk does to the innermost generator and to the      *)
(* constructs, but for the places the constructs are at.                   *)

Alike(fs, r) ==
  /\ Len(r) = Len(fs)
  /\ \A i \in 1..Len(fs) :
       /\ r[i].kind = fs[i].kind /\ r[i].scope = fs[i].scope
       /\ r[i].loop = fs[i].loop /\ r[i].prev_loop_ty = fs[i].prev_loop_ty

(* The generator that goes on, and what it captures on the way.            *)
Goes(g, fs) ==
  /\ g \in Generator /\ gens' = InGen(g)
  /\ g.is_closure = gen.is_closure /\ g.outer_env = gen.outer_env
  /\ \A v \in g.captured : v \in gen.captured \/ \E n \in Names : v \in Capture(gen, n)
  /\ Alike(fs, frames')
  /\ found \subseteq found' /\ external' = external /\ panicked' = panicked

LEMMA GenTyped ==
  ASSUME TypeInv
  PROVE  /\ gen \in Generator /\ Len(gens) \in Nat \ {0} /\ gen = gens[Len(gens)]
         /\ gen.is_closure <=> Len(gens) > 1
         /\ gen.environments \in Seq(Environment)
<1>1. Len(gens) \in Nat \ {0} /\ Len(gens) \in 1..Len(gens) /\ gen = gens[Len(gens)]
  BY EmptySeq DEF TypeInv, gen, Last
<1>2. gen \in Generator
  BY <1>1, ElementOfSeq DEF TypeInv
<1> QED
  BY <1>1, <1>2 DEF TypeInv, Generator

LEMMA WalkTyped ==
  ASSUME TypeInv, NEW g \in Generator, g.is_closure = gen.is_closure,
         g.outer_env = gen.outer_env,
         \A v \in g.captured : v \in gen.captured \/ \E n \in Names : v \in Capture(gen, n),
         NEW fs, Framed(fs), Len(fs) <= MaxDepth, Closures(fs) = Closures(frames),
         NEW x, Alike(x, fs), NEW k \in Nat, NEW codes \in SUBSET Codes,
         Walk(g, fs, k, codes)
  PROVE  /\ TypeInv'
         /\ \E h : /\ Goes(h, x) /\ h.environments = g.environments
                  /\ h.current_loop_ty = g.current_loop_ty
                  /\ h.has_modules = g.has_modules
<1>1. PICK h : h = Report(g, codes)
  OBVIOUS
<1>2. /\ h \in Generator /\ h.is_closure = g.is_closure /\ h.outer_env = g.outer_env
      /\ h.captured = g.captured /\ h.environments = g.environments
      /\ h.current_loop_ty = g.current_loop_ty /\ h.has_modules = g.has_modules
  BY <1>1 DEF Report, Generator
<1>3. /\ gens' = [gens EXCEPT ![Len(gens)] = h] /\ frames' = fs /\ nodes' = nodes + k
      /\ nodes + k <= MaxNodes /\ found' = found \cup codes
      /\ functions' = functions /\ external' = external /\ panicked' = panicked
  BY <1>1 DEF Walk, InGen, Room
<1>4. PICK n : n = Len(gens)
  OBVIOUS
<1>5. /\ gens \in Seq(Generator) /\ n \in Nat \ {0} /\ n \in 1..n
      /\ gen = gens[n] /\ DOMAIN gens = 1..n
  BY <1>4, GenTyped, LenProperties DEF TypeInv
<1>6. /\ gens' \in Seq(Generator) /\ Len(gens') = n /\ DOMAIN gens' = 1..n
      /\ gens' # <<>>
  <2>1. gens' \in Seq(Generator) /\ Len(gens') = n /\ DOMAIN gens' = 1..n
    BY <1>2, <1>3, <1>4, <1>5, ExceptSeq
  <2> QED
    BY <1>5, <2>1
<1>7. \A i \in 1..n : gens'[i].is_closure <=> i > 1
  <2>1. \A i \in 1..n : gens[i].is_closure <=> i > 1
    BY <1>4 DEF TypeInv
  <2>2. \A i \in 1..n : gens'[i].is_closure = gens[i].is_closure
    BY <1>2, <1>3, <1>4, <1>5
  <2> QED
    BY <2>1, <2>2
<1>8. nodes' \in 0..MaxNodes
  BY <1>3, SizesAndNames DEF TypeInv
<1>9. TypeInv'
  BY <1>3, <1>4, <1>6, <1>7, <1>8 DEF TypeInv
<1>10. Goes(h, x)
  BY <1>2, <1>3 DEF Goes, InGen
<1> QED
  BY <1>2, <1>9, <1>10

LEMMA ScopeTyped ==
  ASSUME gen \in Generator, NEW envs \in Seq(Environment), NEW g, g = Scope(envs)
  PROVE  /\ g \in Generator /\ g.is_closure = gen.is_closure
         /\ g.outer_env = gen.outer_env /\ g.captured = gen.captured
         /\ g.environments = envs /\ g.current_loop_ty = gen.current_loop_ty
         /\ g.has_modules = gen.has_modules
BY DEF Scope, Generator

LEMMA WithLoopTyped ==
  ASSUME NEW g \in Generator, NEW ty \in LoopTypes, NEW h, h = WithLoopType(g, ty)
  PROVE  /\ h \in Generator /\ h.is_closure = g.is_closure
         /\ h.outer_env = g.outer_env /\ h.captured = g.captured
         /\ h.environments = g.environments
         /\ h.current_loop_ty = SetLoopType(g.current_loop_ty, ty)
         /\ h.has_modules = g.has_modules
<1>1. g.current_loop_ty \in LoopTy
  BY DEF Generator
<1>2. SetLoopType(g.current_loop_ty, ty) \in LoopTy
  BY <1>1 DEF SetLoopType, LoopTy
<1> QED
  BY <1>2 DEF WithLoopType, Generator
LEMMA AlikeItself == ASSUME NEW fs PROVE Alike(fs, fs)
BY DEF Alike

LEMMA Forward ==
  ASSUME NEW fs, Awaiting(fs), NEW r, r = Advance(fs)
  PROVE  /\ Framed(r) /\ Len(r) = Len(fs) /\ Closures(r) = Closures(fs)
         /\ Alike(fs, r)
<1>1. PICK n : n = Len(fs)
  OBVIOUS
<1>2. /\ n \in Nat \ {0} /\ Framed(r) /\ Len(r) = n /\ Closures(r) = Closures(fs)
      /\ r[n] = [fs[n] EXCEPT !.at = After(fs[n])]
      /\ \A j \in 1..n : j # n => r[j] = fs[j]
  BY <1>1, Advanced
<1>3. fs[n] \in Frame
  BY <1>1, <1>2, ElementOfSeq DEF Awaiting, Framed
<1>4. Alike(fs, r)
  BY <1>1, <1>2, <1>3 DEF Alike, Frame
<1> QED
  BY <1>1, <1>2, <1>4

LEMMA Back ==
  ASSUME TypeInv, frames # <<>>, top.kind \notin {"function", "closure"},
         NEW fs, fs = Pop(frames)
  PROVE  /\ Awaiting(fs) /\ Len(fs) = Len(frames) - 1 /\ Len(fs) <= MaxDepth
         /\ Closures(fs) = Closures(frames)
         /\ Len(frames) \in Nat \ {0, 1} /\ top = frames[Len(frames)] /\ top \in Frame
<1>1. Framed(frames) /\ Last(frames).kind # "function" /\ Len(frames) <= MaxDepth
  BY DEF TypeInv, top
<1>2. /\ Awaiting(fs) /\ Len(fs) = Len(frames) - 1 /\ Len(frames) \in Nat \ {0, 1}
      /\ Closures(fs) = Closures(frames) \ {Len(frames)}
  BY <1>1, Popped
<1>3. Len(frames) \notin Closures(frames)
  BY DEF Closures, top, Last
<1>4. Len(frames) \in 1..Len(frames) /\ top = frames[Len(frames)]
  BY <1>2 DEF top, Last
<1>5. top \in Frame
  BY <1>1, <1>4, ElementOfSeq DEF Framed
<1>6. Len(fs) <= MaxDepth
  BY <1>1, <1>2, SizesAndNames
<1> QED
  BY <1>2, <1>3, <1>4, <1>5, <1>6

LEMMA TopTyped ==
  ASSUME TypeInv, frames # <<>>
  PROVE  /\ Framed(frames) /\ Len(frames) \in Nat \ {0} /\ Len(frames) <= MaxDepth
         /\ top = frames[Len(frames)] /\ top \in Frame /\ Proper(top)
         /\ frames \in Seq(Frame) /\ Len(frames) \in 1..Len(frames)
         /\ top.at \in Waiting => Awaiting(frames)
<1>1. /\ Framed(frames) /\ Len(frames) \in Nat \ {0} /\ Len(frames) <= MaxDepth
      /\ top = frames[Len(frames)] /\ Len(frames) \in 1..Len(frames)
      /\ frames \in Seq(Frame)
  <2>1. Framed(frames) /\ frames \in Seq(Frame) /\ Len(frames) <= MaxDepth
    BY DEF TypeInv, Framed
  <2>2. Len(frames) \in Nat \ {0} /\ top = frames[Len(frames)]
    BY <2>1, EmptySeq DEF top, Last
  <2> QED
    BY <2>1, <2>2
<1>2. top \in Frame /\ Proper(top)
  BY <1>1, ElementOfSeq DEF Framed
<1> QED
  BY <1>1, <1>2 DEF Awaiting, top

(* The innermost construct goes to another of its places.                  *)
LEMMA Moved ==
  ASSUME TypeInv, frames # <<>>, NEW at \in Places, Proper([top EXCEPT !.at = at]),
         NEW r, r = Goto(frames, at)
  PROVE  /\ Framed(r) /\ Len(r) = Len(frames) /\ Closures(r) = Closures(frames)
         /\ Alike(frames, r) /\ Len(r) <= MaxDepth
<1>1. PICK f : f = [top EXCEPT !.at = at]
  OBVIOUS
<1>2. PICK n : n = Len(frames)
  OBVIOUS
<1>3. /\ Framed(frames) /\ n \in 1..Len(frames) /\ n <= MaxDepth
      /\ top = frames[n] /\ top \in Frame
  BY <1>2, TopTyped
<1>4. f \in Frame /\ Proper(f) /\ f.kind = frames[n].kind
  BY <1>1, <1>3 DEF Frame
<1>5. r = Replaced(frames, n, f)
  BY <1>1, <1>2, <1>3 DEF Goto, Replaced
<1>6. /\ Framed(r) /\ Len(r) = Len(frames) /\ Closures(r) = Closures(frames)
      /\ r[n] = f /\ \A j \in 1..Len(frames) : j # n => r[j] = frames[j]
  BY ONLY <1>2, <1>3, <1>4, <1>5, Changed
<1>7. Alike(frames, r)
  BY <1>1, <1>3, <1>6 DEF Alike, Frame
<1> QED
  BY <1>2, <1>3, <1>6, <1>7

-----------------------------------------------------------------------------
(* The kinds of steps, by what they do to the scopes, the loop type and    *)
(* the constructs.                                                         *)

Entered(f) == f.kind \in Loops /\ f.loop # None

(* The scopes that are left with a construct.                              *)
Left(f, envs) ==
  IF f.kind \in {"block", "branch"} \/ (f.kind = "for" /\ Entered(f)) THEN EndScope(envs)
  ELSE IF f.kind = "for_iter" /\ Entered(f) THEN EndScope(EndScope(envs))
  ELSE envs

SameLoop(g) == g.current_loop_ty = gen.current_loop_ty
SameModules(g) == g.has_modules = gen.has_modules
SameScopes(g) == g.environments = gen.environments

(* A new scope: with nothing in it, or with a variable cast.               *)
OneName(e) == \/ e = Empty
              \/ \E n \in Names, v \in Var : v.name = n /\ e = [Empty EXCEPT ![n] = v]

Stays == \E g : Goes(g, frames) /\ SameScopes(g) /\ SameLoop(g) /\ SameModules(g)

Loses == \E g : Goes(g, frames) /\ SameLoop(g) /\ "E300" \in found'

(* A construct is entered, with the scopes that belong to it.              *)
Opening(g, f) ==
  /\ f.kind \notin {"function", "closure"} /\ f.loop = None
  /\ Goes(g, Append(frames, f)) /\ SameLoop(g) /\ SameModules(g)
  /\ f.kind = "break" => "E207" \in found' \/ gen.current_loop_ty # None
  /\ IF f.kind \in {"block", "branch", "for_iter"}
     THEN g.environments = Append(gen.environments, f.scope) /\ OneName(f.scope)
     ELSE SameScopes(g) /\ f.scope = Empty

Opens == \E g : \E f \in Frame : Opening(g, f)

Inner == frames # <<>> /\ top.kind \notin {"function", "closure"}

Closes ==
  \E g : /\ Inner /\ (top.kind = "for_iter" => Entered(top))
         /\ Goes(g, Pop(frames)) /\ SameModules(g)
         /\ g.environments = Left(top, gen.environments)
         /\ g.current_loop_ty = IF Entered(top) THEN top.prev_loop_ty
                                ELSE gen.current_loop_ty

Abandons ==
  \E g : /\ Inner /\ top.kind = "for_iter" /\ ~Entered(top)
         /\ Goes(g, Pop(frames)) /\ SameLoop(g) /\ SameModules(g)
         /\ Len(g.environments) = Len(gen.environments) /\ "E237" \in found'

(* A variable is made when its initializer is done.                        *)
Defining(g, n, v) ==
  /\ v.name = n /\ Inner /\ top.kind = "variable" /\ gen.environments # <<>>
  /\ Goes(g, Declare(Pop(frames), n, v)) /\ SameLoop(g) /\ SameModules(g)
  /\ g.environments = Define(gen.environments, n, v)

Defines == \E g : \E n \in Names, v \in Var : Defining(g, n, v)

(* A value, of a break or of a loop's body, for the innermost loop.        *)
Breaking(g, fs, ty) ==
  /\ Inner
  /\ \/ top.kind = "break" /\ fs = Pop(frames)
     \/ Entered(top) /\ fs = frames
  /\ Goes(g, SetLoop(fs, ty)) /\ SameScopes(g) /\ SameModules(g)
  /\ g.current_loop_ty = SetLoopType(gen.current_loop_ty, ty)

Breaks == \E g, fs : \E ty \in LoopTypes : Breaking(g, fs, ty)

(* The body of a loop: of a for, and of one over an iterator.              *)
Entering(g, f) ==
  /\ Inner /\ top.kind \in Loops /\ ~Entered(top)
  /\ f.kind = top.kind /\ f.loop = Any /\ f.prev_loop_ty = gen.current_loop_ty
  /\ Goes(g, Replaced(frames, Len(frames), f)) /\ SameModules(g)
  /\ g.current_loop_ty = Any

EnteringFor(g, f) ==
  /\ top.kind = "for" /\ top.scope = Empty
  /\ g.environments = Append(gen.environments, f.scope) /\ OneName(f.scope)

EnteringForIter(g, f, n, i, t, v) ==
  /\ top.kind = "for_iter" /\ gen.environments # <<>>
  /\ i.name = Iter /\ t.name = n /\ v.name = n
  /\ g.environments = Append(Define(Define(gen.environments, Iter, i), n, t),
                             [Empty EXCEPT ![n] = v])
  /\ f.scope = [top.scope EXCEPT ![n] = v]

Enters ==
  \E g : \E f \in Frame :
    /\ Entering(g, f)
    /\ \/ EnteringFor(g, f)
       \/ \E n \in Names, i \in Var, t \in Var, v \in Var :
            EnteringForIter(g, f, n, i, t, v)

Panics ==
  /\ Panic /\ Inner
  /\ \/ gen.environments = <<>>
     \/ top.kind = "for_iter" /\ Entered(top) /\ EndScope(gen.environments) = <<>>

(* A function begins, and ends with its body; the next module begins.      *)
Starting(g, e) ==
  /\ g \in Generator /\ frames = <<>> /\ Len(gens) = 1 /\ gens' = <<g>> /\ NamedScope(e)
  /\ g.environments = Append(gen.environments, e) /\ SameLoop(g) /\ SameModules(g)
  /\ g.outer_env = gen.outer_env /\ g.captured = gen.captured
  /\ found \subseteq found' /\ panicked' = panicked
  /\ \/ frames' = <<>> /\ external'
     \/ /\ external' = external /\ Len(frames') = 1
        /\ frames'[1].kind = "function" /\ frames'[1].scope = e

Starts == \E g : \E e \in Environment : Starting(g, e)

Ends == \E g : /\ frames # <<>> /\ Len(frames) = 1 /\ top.kind = "function"
              /\ Goes(g, <<>>) /\ SameLoop(g) /\ SameModules(g)
              /\ g.environments = EndScope(gen.environments)

Switches == \E g : /\ frames = <<>> /\ g \in Generator /\ gens' = InGen(g)
                  /\ g.outer_env = gen.outer_env /\ g.captured = gen.captured
                  /\ g.environments = <<>> /\ g.current_loop_ty = None /\ SameModules(g)
                  /\ frames' = <<>> /\ found' = found /\ panicked' = panicked
                  /\ ~external'

(* A closure literal begins: g is what for_closure leaves of the generator *)
(* around it, h the closure's own.                                         *)
OpeningClosure(g, h, f) ==
  /\ frames # <<>> /\ gen.has_modules
  /\ gens' = Append(InGen(g), h) /\ frames' = Append(frames, f)
  /\ f.kind = "closure" /\ f.loop = None /\ NamedScope(f.scope)
  /\ g \in Generator /\ SameLoop(g)
  /\ g.outer_env = gen.outer_env /\ g.captured = gen.captured
  /\ h \in Generator /\ h.environments = <<Empty, f.scope>> /\ h.has_modules
  /\ h.outer_env = gen.environments /\ h.current_loop_ty = None /\ h.captured = {}
  /\ found \subseteq found' /\ external' = external /\ panicked' = panicked

OpensClosure == \E g, h : \E f \in Frame : OpeningClosure(g, h, f)

LeavingClosure(g, outer) ==
  /\ frames # <<>> /\ top.kind = "closure" /\ Len(gens) > 1
  /\ outer = gens[Len(gens) - 1] /\ g \in Generator
  /\ gens' = Append(SubSeq(gens, 1, Len(gens) - 2), g) /\ Alike(Pop(frames), frames')
  /\ g.environments = gen.outer_env /\ g.has_modules = gen.has_modules
  /\ g.current_loop_ty = outer.current_loop_ty
  /\ g.outer_env = outer.outer_env /\ g.captured = outer.captured
  /\ found' = found /\ external' = external /\ panicked' = panicked

LeavesClosure == \E g, outer : LeavingClosure(g, outer)

PanicsInClosure == Panic /\ frames # <<>> /\ ~gen.has_modules

Fails == Crash("literal")
-----------------------------------------------------------------------------
(* Every action is a step of one of these kinds, and keeps the types.      *)

(* A generator that differs from the innermost one in its scopes only.     *)
Scoping(h) ==
  /\ h \in Generator /\ h.is_closure = gen.is_closure /\ h.outer_env = gen.outer_env
  /\ h.captured = gen.captured /\ SameLoop(h) /\ SameModules(h)

LEMMA ScopingGen == ASSUME TypeInv PROVE Scoping(gen) /\ SameScopes(gen)
BY GenTyped DEF Scoping, SameLoop, SameModules, SameScopes

LEMMA ScopingScope ==
  ASSUME TypeInv, NEW envs \in Seq(Environment)
  PROVE  Scoping(Scope(envs)) /\ Scope(envs).environments = envs
BY GenTyped, ScopeTyped DEF Scoping, SameLoop, SameModules

LEMMA SimpleStep ==
  ASSUME TypeInv, NEW codes \in SUBSET Codes, Simple(codes)
  PROVE  TypeInv' /\ Stays
<1>1. Expecting /\ Walk(gen, Advance(frames), 1, codes)
  BY DEF Simple
<1>2. frames # <<>> /\ Awaiting(frames) /\ Len(frames) <= MaxDepth
  BY <1>1, TopTyped DEF Expecting, Waiting
<1>3. PICK r : r = Advance(frames)
  OBVIOUS
<1>4. /\ Framed(r) /\ Len(r) <= MaxDepth /\ Closures(r) = Closures(frames)
      /\ Alike(frames, r)
  BY <1>2, <1>3, Forward
<1>5. gen \in Generator
  BY GenTyped
<1>6. Walk(gen, r, 1, codes) /\ 1 \in Nat
  BY <1>1, <1>3
<1>7. /\ TypeInv'
      /\ \E h : /\ Goes(h, frames) /\ h.environments = gen.environments
               /\ h.current_loop_ty = gen.current_loop_ty
               /\ h.has_modules = gen.has_modules
  BY <1>4, <1>5, <1>6, WalkTyped
<1> QED
  BY <1>7 DEF Stays, SameScopes, SameLoop, SameModules

LEMMA StringLiteralStep ==
  ASSUME TypeInv, NEW bad_escape \in BOOLEAN, StringLiteral(bad_escape)
  PROVE  TypeInv' /\ (Stays \/ Fails)
<1>1. CASE gen.is_closure \/ bad_escape
  <2>1. Fails
    BY <1>1 DEF StringLiteral, Fails
  <2>2. TypeInv'
    BY <2>1 DEF TypeInv, Fails, Crash
  <2> QED
    BY <2>1, <2>2
<1>2. CASE ~(gen.is_closure \/ bad_escape)
  <2>1. Simple({}) /\ {} \in SUBSET Codes
    BY <1>2 DEF StringLiteral, Simple
  <2> QED
    BY <2>1, SimpleStep
<1> QED
  BY <1>1, <1>2

LEMMA UseStep ==
  ASSUME TypeInv, NEW n \in Names, Use(n)
  PROVE  TypeInv' /\ Stays
<1>1. PICK g : g = [gen EXCEPT !.captured = @ \cup Capture(gen, n)]
  OBVIOUS
<1>2. PICK codes \in SUBSET Codes : Expecting /\ Walk(g, Advance(frames), 1, codes)
  <2>1. PICK c : c = IF FindLocalVar(gen, n) # None \/ n \in Functions[gen.module]
                     THEN {} ELSE {"other"}
    OBVIOUS
  <2>2. c \in SUBSET Codes
    BY <2>1 DEF Codes
  <2> QED
    BY <1>1, <2>1, <2>2 DEF Use
<1>3. frames # <<>> /\ Awaiting(frames) /\ Len(frames) <= MaxDepth
  BY <1>2, TopTyped DEF Expecting, Waiting
<1>4. PICK r : r = Advance(frames)
  OBVIOUS
<1>5. /\ Framed(r) /\ Len(r) <= MaxDepth /\ Closures(r) = Closures(frames)
      /\ Alike(frames, r)
  BY <1>3, <1>4, Forward
<1>6. gen \in Generator /\ Capture(gen, n) \in SUBSET Var
  BY GenTyped, CaptureTyped
<1>7. /\ g \in Generator /\ g.is_closure = gen.is_closure /\ g.outer_env = gen.outer_env
      /\ g.captured = gen.captured \cup Capture(gen, n)
      /\ g.environments = gen.environments
      /\ g.current_loop_ty = gen.current_loop_ty
      /\ g.has_modules = gen.has_modules
  BY <1>1, <1>6 DEF Generator
<1>8. \A v \in g.captured : v \in gen.captured \/ \E m \in Names : v \in Capture(gen, m)
  BY <1>7
<1>9. Walk(g, r, 1, codes) /\ 1 \in Nat
  BY <1>2, <1>4
<1>10. /\ TypeInv'
       /\ \E h : /\ Goes(h, frames) /\ h.environments = g.environments
                /\ h.current_loop_ty = g.current_loop_ty
                /\ h.has_modules = g.has_modules
  BY <1>5, <1>7, <1>8, <1>9, WalkTyped
<1> QED
  BY <1>7, <1>10 DEF Stays, SameScopes, SameLoop, SameModules

(* Entering a construct.                                                   *)
LEMMA EnterStep ==
  ASSUME TypeInv, panicked = "no", frames # <<>>, top.at \in Waiting, Len(frames) < MaxDepth,
         NEW f \in Frame, Proper(f), f.kind \notin {"function", "closure"},
         NEW g, Scoping(g), NEW k \in Nat, NEW codes \in SUBSET Codes,
         Walk(g, Inside(f), k, codes)
  PROVE  /\ TypeInv'
         /\ \E h : /\ Goes(h, Append(frames, f)) /\ SameLoop(h) /\ SameModules(h)
                  /\ h.environments = g.environments
<1>1. Awaiting(frames)
  BY TopTyped
<1>2. PICK r : r = Append(frames, f)
  OBVIOUS
<1>3. /\ Framed(r) /\ Len(r) = Len(frames) + 1 /\ Len(frames) \in Nat
      /\ Closures(r) = Closures(frames)
  <2>1. /\ Framed(r) /\ Len(r) = Len(frames) + 1 /\ Len(frames) \in Nat
        /\ Closures(r) = Closures(frames)
                         \cup (IF f.kind = "closure" THEN {Len(frames) + 1} ELSE {})
    BY <1>1, <1>2, Pushed
  <2>2. f.kind # "closure"
    OBVIOUS
  <2> QED
    BY <2>1, <2>2
<1>4. Len(r) <= MaxDepth
  BY <1>3, SizesAndNames
<1>5. Walk(g, r, k, codes) /\ Alike(r, r)
  BY <1>2, AlikeItself DEF Inside
<1>6. /\ g \in Generator /\ g.is_closure = gen.is_closure /\ g.outer_env = gen.outer_env
      /\ \A v \in g.captured : v \in gen.captured \/ \E m \in Names : v \in Capture(gen, m)
  BY DEF Scoping
<1>7. /\ TypeInv'
      /\ \E h : /\ Goes(h, r) /\ h.environments = g.environments
               /\ h.current_loop_ty = g.current_loop_ty
               /\ h.has_modules = g.has_modules
  BY <1>3, <1>4, <1>5, <1>6, WalkTyped
<1> QED
  BY <1>2, <1>7 DEF Scoping, SameLoop, SameModules

LEMMA NewFrameTyped ==
  ASSUME NEW k \in Kinds, NEW at \in Places, NEW f, f = NewFrame(k, at)
  PROVE  /\ f \in Frame /\ f.kind = k /\ f.at = at /\ f.scope = Empty /\ f.loop = None
BY EmptyTyped DEF NewFrame, Frame, LoopTy

LEMMA OpenStep ==
  ASSUME TypeInv, NEW f \in Frame, Proper(f), f.loop = None, f.scope = Empty, NEW g,
         \/ f.kind \in {"block", "for_iter"} /\ g = Scope(BeginScope(gen.environments))
         \/ f.kind \in {"variable", "if", "when", "for"} /\ g = gen,
         Open(f, g)
  PROVE  TypeInv' /\ Opens
<1>1. /\ panicked = "no" /\ frames # <<>> /\ top.at \in Waiting /\ Len(frames) < MaxDepth
      /\ Walk(g, Inside(f), 1, {}) /\ 1 \in Nat /\ {} \in SUBSET Codes
      /\ f.kind \notin {"function", "closure"} /\ f.kind # "break"
  BY DEF Open, Expecting, Waiting
<1>2. gen.environments \in Seq(Environment) /\ Empty \in Environment
  BY GenTyped, EmptyTyped
<1>3. BeginScope(gen.environments) \in Seq(Environment)
  BY <1>2, Begun DEF BeginScope
<1>4. Scoping(g) /\ g.environments = IF f.kind \in {"block", "for_iter"}
                                     THEN Append(gen.environments, Empty)
                                     ELSE gen.environments
  BY <1>3, ScopingGen, ScopingScope DEF BeginScope
<1>5. /\ TypeInv'
      /\ \E h : /\ Goes(h, Append(frames, f)) /\ SameLoop(h) /\ SameModules(h)
               /\ h.environments = g.environments
  BY <1>1, <1>4, EnterStep
<1>6. PICK h : /\ Goes(h, Append(frames, f)) /\ SameLoop(h) /\ SameModules(h)
               /\ h.environments = g.environments
  BY <1>5
<1>7. Opening(h, f)
  BY <1>1, <1>4, <1>6 DEF Opening, SameScopes, OneName
<1> QED
  BY <1>5, <1>7 DEF Opens

LEMMA OpenBlockStep == ASSUME TypeInv, OpenBlock PROVE TypeInv' /\ Opens
<1>1. PICK f : f = NewFrame("block", "body")
  OBVIOUS
<1>2. /\ f \in Frame /\ f.kind = "block" /\ f.at = "body" /\ f.scope = Empty
      /\ f.loop = None
  BY <1>1, NewFrameTyped DEF Kinds, Places, Expected
<1>3. Proper(f)
  BY <1>2 DEF Proper, Loops
<1>4. PICK g : g = Scope(BeginScope(gen.environments))
  OBVIOUS
<1>5. Open(f, g)
  BY <1>1, <1>4 DEF OpenBlock
<1> QED
  BY <1>2, <1>3, <1>4, <1>5, OpenStep

LEMMA OpenVariableStep ==
  ASSUME TypeInv, NEW n \in Names, OpenVariable(n) PROVE TypeInv' /\ Opens
<1>1. PICK e : e = NewFrame("variable", "value")
  OBVIOUS
<1>2. /\ e \in Frame /\ e.kind = "variable" /\ e.at = "value" /\ e.scope = Empty
      /\ e.loop = None
  BY <1>1, NewFrameTyped DEF Kinds, Places, Expected
<1>3. PICK f : f = [e EXCEPT !.name = n]
  OBVIOUS
<1>4. /\ f \in Frame /\ f.kind = "variable" /\ f.at = "value" /\ f.scope = Empty
      /\ f.loop = None /\ f.name = n
  BY <1>2, <1>3 DEF Frame
<1>5. Proper(f)
  BY <1>4 DEF Proper, Loops
<1>6. Open(f, gen)
  BY <1>1, <1>3 DEF OpenVariable
<1> QED
  BY <1>4, <1>5, <1>6, OpenStep

LEMMA OpenIfStep == ASSUME TypeInv, OpenIf PROVE TypeInv' /\ Opens
<1>1. PICK f : f = NewFrame("if", "cond")
  OBVIOUS
<1>2. /\ f \in Frame /\ f.kind = "if" /\ f.at = "cond" /\ f.scope = Empty
      /\ f.loop = None
  BY <1>1, NewFrameTyped DEF Kinds, Places, Expected
<1>3. Proper(f)
  BY <1>2 DEF Proper, Loops
<1>4. Open(f, gen)
  BY <1>1 DEF OpenIf
<1> QED
  BY <1>2, <1>3, <1>4, OpenStep

LEMMA OpenWhenStep == ASSUME TypeInv, OpenWhen PROVE TypeInv' /\ Opens
<1>1. PICK f : f = NewFrame("when", "value")
  OBVIOUS
<1>2. /\ f \in Frame /\ f.kind = "when" /\ f.at = "value" /\ f.scope = Empty
      /\ f.loop = None
  BY <1>1, NewFrameTyped DEF Kinds, Places, Expected
<1>3. Proper(f)
  BY <1>2 DEF Proper, Loops
<1>4. Open(f, gen)
  BY <1>1 DEF OpenWhen
<1> QED
  BY <1>2, <1>3, <1>4, OpenStep

LEMMA OpenForStep == ASSUME TypeInv, OpenFor PROVE TypeInv' /\ Opens
<1>1. PICK f : f = NewFrame("for", "cond")
  OBVIOUS
<1>2. /\ f \in Frame /\ f.kind = "for" /\ f.at = "cond" /\ f.scope = Empty
      /\ f.loop = None
  BY <1>1, NewFrameTyped DEF Kinds, Places, Expected, Loops
<1>3. Proper(f)
  BY <1>2 DEF Proper, Loops
<1>4. Open(f, gen)
  BY <1>1 DEF OpenFor
<1> QED
  BY <1>2, <1>3, <1>4, OpenStep

LEMMA OpenForIterStep ==
  ASSUME TypeInv, NEW n \in Names, OpenForIter(n) PROVE TypeInv' /\ Opens
<1>1. PICK e : e = NewFrame("for_iter", "iterator")
  OBVIOUS
<1>2. /\ e \in Frame /\ e.kind = "for_iter" /\ e.at = "iterator" /\ e.scope = Empty
      /\ e.loop = None
  BY <1>1, NewFrameTyped DEF Kinds, Places, Expected, Loops
<1>3. PICK f : f = [e EXCEPT !.name = n]
  OBVIOUS
<1>4. /\ f \in Frame /\ f.kind = "for_iter" /\ f.at = "iterator" /\ f.scope = Empty
      /\ f.loop = None /\ f.name = n
  BY <1>2, <1>3 DEF Frame
<1>5. Proper(f)
  BY <1>4 DEF Proper, Loops
<1>6. PICK g : g = Scope(BeginScope(gen.environments))
  OBVIOUS
<1>7. Open(f, g)
  BY <1>1, <1>3, <1>6 DEF OpenForIter
<1> QED
  BY <1>4, <1>5, <1>6, <1>7, OpenStep

LEMMA NoLoopTyped == NoLoop \in SUBSET Codes
BY DEF NoLoop, Codes

LEMMA BreakStep == ASSUME TypeInv, Break PROVE TypeInv' /\ Stays
<1>1. Simple(NoLoop)
  BY DEF Break, Simple
<1> QED
  BY <1>1, NoLoopTyped, SimpleStep

LEMMA OpenBreakStep == ASSUME TypeInv, OpenBreak PROVE TypeInv' /\ Opens
<1>1. PICK f : f = NewFrame("break", "value")
  OBVIOUS
<1>2. /\ f \in Frame /\ f.kind = "break" /\ f.at = "value" /\ f.scope = Empty
      /\ f.loop = None
  BY <1>1, NewFrameTyped DEF Kinds, Places, Expected
<1>3. Proper(f)
  BY <1>2 DEF Proper, Loops
<1>4. /\ panicked = "no" /\ frames # <<>> /\ top.at \in Waiting /\ Len(frames) < MaxDepth
      /\ Walk(gen, Inside(f), 1, NoLoop) /\ 1 \in Nat
      /\ f.kind \notin {"function", "closure"}
  BY <1>1, <1>2 DEF OpenBreak, Expecting, Waiting
<1>5. /\ TypeInv'
      /\ \E h : /\ Goes(h, Append(frames, f)) /\ SameLoop(h) /\ SameModules(h)
               /\ h.environments = gen.environments
  BY <1>2, <1>3, <1>4, ScopingGen, NoLoopTyped, EnterStep
<1>6. "E207" \in found' \/ gen.current_loop_ty # None
  BY <1>4 DEF Walk, NoLoop
<1>7. PICK h : /\ Goes(h, Append(frames, f)) /\ SameLoop(h) /\ SameModules(h)
               /\ h.environments = gen.environments
  BY <1>5
<1>8. Opening(h, f)
  BY <1>2, <1>6, <1>7 DEF Opening, SameScopes
<1> QED
  BY <1>2, <1>5, <1>8 DEF Opens
(* Going to another place of the innermost construct.                      *)
LEMMA MoveStep ==
  ASSUME TypeInv, frames # <<>>, NEW at \in Places, Proper([top EXCEPT !.at = at]),
         Walk(gen, Goto(frames, at), 0, {})
  PROVE  TypeInv' /\ Stays
<1>1. PICK r : r = Goto(frames, at)
  OBVIOUS
<1>2. /\ Framed(r) /\ Len(r) <= MaxDepth /\ Closures(r) = Closures(frames)
      /\ Alike(frames, r)
  BY <1>1, Moved
<1>3. Walk(gen, r, 0, {}) /\ 0 \in Nat /\ {} \in SUBSET Codes /\ gen \in Generator
  BY <1>1, GenTyped
<1>4. /\ TypeInv'
      /\ \E h : /\ Goes(h, frames) /\ h.environments = gen.environments
               /\ h.current_loop_ty = gen.current_loop_ty
               /\ h.has_modules = gen.has_modules
  BY <1>2, <1>3, WalkTyped
<1> QED
  BY <1>4 DEF Stays, SameScopes, SameLoop, SameModules

LEMMA WhenElseStep == ASSUME TypeInv, WhenElse PROVE TypeInv' /\ Stays
<1>1. /\ frames # <<>> /\ top.kind = "when" /\ top.at = "cond"
      /\ Walk(gen, Goto(frames, "else"), 0, {})
  BY DEF WhenElse, At
<1>2. top \in Frame /\ Proper(top)
  BY <1>1, TopTyped
<1>3. Proper([top EXCEPT !.at = "else"])
  BY <1>1, <1>2 DEF Proper, Frame, Loops, OpensScope
<1> QED
  BY <1>1, <1>3, MoveStep DEF Places, Expected

LEMMA OmitElseStep == ASSUME TypeInv, OmitElse PROVE TypeInv' /\ Stays
<1>1. /\ frames # <<>> /\ top.kind \in {"if", "when", "for", "for_iter"}
      /\ top.at = "else" /\ Walk(gen, Goto(frames, "leave"), 0, {})
  BY DEF OmitElse, At
<1>2. top \in Frame /\ Proper(top)
  BY <1>1, TopTyped
<1>3. Proper([top EXCEPT !.at = "leave"])
  BY <1>1, <1>2 DEF Proper, Frame, Loops, OpensScope
<1> QED
  BY <1>1, <1>3, MoveStep DEF Places, Expected

(* Leaving a construct, whose value goes to the construct around it, which *)
(* may have changed.                                                       *)
LEMMA LeaveStep ==
  ASSUME TypeInv, Inner,
         NEW fs, Awaiting(fs), Len(fs) = Len(Pop(frames)), Closures(fs) = Closures(Pop(frames)),
         NEW g \in Generator, g.is_closure = gen.is_closure, g.outer_env = gen.outer_env,
         g.captured = gen.captured, NEW k \in Nat, NEW codes \in SUBSET Codes,
         Walk(g, Advance(fs), k, codes)
  PROVE  /\ TypeInv'
         /\ \E h : /\ Goes(h, fs) /\ h.environments = g.environments
                  /\ h.current_loop_ty = g.current_loop_ty
                  /\ h.has_modules = g.has_modules
<1>1. PICK r : r = Advance(fs)
  OBVIOUS
<1>2. /\ Framed(r) /\ Len(r) = Len(fs) /\ Closures(r) = Closures(fs) /\ Alike(fs, r)
  BY <1>1, Forward
<1>3. Len(Pop(frames)) <= MaxDepth /\ Closures(Pop(frames)) = Closures(frames)
  BY Back DEF Inner
<1>4. /\ Walk(g, r, k, codes) /\ Len(r) <= MaxDepth /\ Closures(r) = Closures(frames)
  BY <1>1, <1>2, <1>3
<1> QED
  BY <1>2, <1>4, WalkTyped

LEMMA CloseStep ==
  ASSUME TypeInv, Inner, top.kind = "for_iter" => Entered(top), NEW g, Scoping(g),
         g.environments = Left(top, gen.environments), ~Entered(top),
         NEW codes \in SUBSET Codes, Walk(g, Advance(Pop(frames)), 0, codes)
  PROVE  TypeInv' /\ Closes
<1>1. Awaiting(Pop(frames))
  BY Back DEF Inner
<1>2. /\ TypeInv'
      /\ \E h : /\ Goes(h, Pop(frames)) /\ h.environments = g.environments
               /\ h.current_loop_ty = g.current_loop_ty
               /\ h.has_modules = g.has_modules
  BY <1>1, LeaveStep DEF Scoping
<1> QED
  BY <1>2 DEF Closes, Scoping, SameLoop, SameModules

LEMMA CloseBlockStep == ASSUME TypeInv, CloseBlock PROVE TypeInv' /\ Closes
<1>1. PICK g : g = Scope(EndScope(gen.environments))
  OBVIOUS
<1>2. /\ Inner /\ top.kind = "block" /\ Walk(g, Advance(Pop(frames)), 0, {})
      /\ {} \in SUBSET Codes
  BY <1>1 DEF CloseBlock, At, Inner
<1>3. Scoping(g) /\ g.environments = EndScope(gen.environments)
  BY <1>1, GenTyped, Ended, ScopingScope
<1>4. ~Entered(top) /\ Left(top, gen.environments) = EndScope(gen.environments)
  <2>1. top.kind \notin Loops /\ top.kind \in {"block", "branch"}
    BY <1>2 DEF Loops
  <2>2. ~Entered(top)
    BY <2>1 DEF Entered
  <2>3. Left(top, gen.environments) = EndScope(gen.environments)
    BY <2>1 DEF Left
  <2> QED
    BY <2>2, <2>3
<1> QED
  BY <1>2, <1>3, <1>4, CloseStep

LEMMA LeaveBranchStep == ASSUME TypeInv, LeaveBranch PROVE TypeInv' /\ Closes
<1>1. PICK g : g = Scope(EndScope(gen.environments))
  OBVIOUS
<1>2. /\ Inner /\ top.kind = "branch" /\ Walk(g, Advance(Pop(frames)), 0, {})
      /\ {} \in SUBSET Codes
  BY <1>1 DEF LeaveBranch, At, Inner
<1>3. Scoping(g) /\ g.environments = EndScope(gen.environments)
  BY <1>1, GenTyped, Ended, ScopingScope
<1>4. ~Entered(top) /\ Left(top, gen.environments) = EndScope(gen.environments)
  <2>1. top.kind \notin Loops /\ top.kind \in {"block", "branch"}
    BY <1>2 DEF Loops
  <2>2. ~Entered(top)
    BY <2>1 DEF Entered
  <2>3. Left(top, gen.environments) = EndScope(gen.environments)
    BY <2>1 DEF Left
  <2> QED
    BY <2>2, <2>3
<1> QED
  BY <1>2, <1>3, <1>4, CloseStep

LEMMA UnscopedCloseStep ==
  ASSUME TypeInv, frames # <<>>, top.kind \in {"variable", "if", "when"},
         NEW codes \in SUBSET Codes, Walk(gen, Advance(Pop(frames)), 0, codes)
  PROVE  TypeInv' /\ Closes
<1>1. Inner /\ ~Entered(top) /\ Left(top, gen.environments) = gen.environments
  BY DEF Inner, Entered, Left, Loops
<1> QED
  BY <1>1, ScopingGen, CloseStep DEF SameScopes

LEMMA NotAssignableStep == ASSUME TypeInv, NotAssignable PROVE TypeInv' /\ Closes
<1>1. {"other"} \in SUBSET Codes
  BY DEF Codes
<1> QED
  BY <1>1, UnscopedCloseStep DEF NotAssignable, At

LEMMA AbortWhenStep == ASSUME TypeInv, AbortWhen PROVE TypeInv' /\ Closes
<1>1. {"other"} \in SUBSET Codes
  BY DEF Codes
<1> QED
  BY <1>1, UnscopedCloseStep DEF AbortWhen, At

LEMMA LeaveIfStep == ASSUME TypeInv, Leave PROVE TypeInv' /\ Closes
<1>1. {} \in SUBSET Codes
  OBVIOUS
<1> QED
  BY <1>1, UnscopedCloseStep DEF Leave, At

LEMMA EndVariableStep ==
  ASSUME TypeInv, EndVariable PROVE TypeInv' /\ (Defines \/ Panics)
<1>1. frames # <<>> /\ top.kind = "variable" /\ top.at = "leave" /\ Inner
  BY DEF EndVariable, At, Inner
<1>2. CASE gen.environments = <<>>
  <2>1. Panic
    BY <1>2 DEF EndVariable
  <2>2. TypeInv'
    BY <2>1 DEF TypeInv, Panic, Crash
  <2> QED
    BY <1>1, <1>2, <2>1, <2>2 DEF Panics
<1>3. CASE gen.environments # <<>>
  <2>1. PICK n : n = top.name
    OBVIOUS
  <2>2. PICK v : v = Made(n)
    OBVIOUS
  <2>3. PICK g : g = Scope(Define(gen.environments, n, v))
    OBVIOUS
  <2>4. PICK fs : fs = Declare(Pop(frames), n, v)
    OBVIOUS
  <2>5. Walk(g, Advance(fs), 1, {}) /\ 1 \in Nat /\ {} \in SUBSET Codes
    BY <1>3, <2>1, <2>2, <2>3, <2>4 DEF EndVariable
  <2>6. n \in Names
    BY <1>1, <2>1, TopTyped DEF Proper
  <2>7. Room(1) /\ nodes \in 0..MaxNodes
    BY <2>5 DEF Walk, TypeInv
  <2>8. v \in Var /\ v.name = n
    BY <2>2, <2>6, <2>7, GenTyped, MadeTyped
  <2>9. gen.environments \in Seq(Environment)
    BY GenTyped
  <2>10. Define(gen.environments, n, v) \in Seq(Environment)
    BY <1>3, <2>6, <2>8, <2>9, Defined
  <2>11. Scoping(g) /\ g.environments = Define(gen.environments, n, v)
    BY <2>3, <2>10, ScopingScope
  <2>12. Awaiting(Pop(frames))
    BY <1>1, Back DEF Inner
  <2>13. Awaiting(fs) /\ Len(fs) = Len(Pop(frames)) /\ Closures(fs) = Closures(Pop(frames))
    <3>1. PICK p : p = Pop(frames)
      OBVIOUS
    <3>2. PICK m : m = Scoped(p)
      OBVIOUS
    <3>3. Awaiting(p) /\ n \in Names /\ v \in Var /\ fs = Declare(p, n, v)
      BY <2>4, <2>6, <2>8, <2>12, <3>1
    <3>4. Awaiting(fs) /\ Len(fs) = Len(p) /\ Closures(fs) = Closures(p)
      BY ONLY <3>2, <3>3, DeclareTyped
    <3> QED
      BY <3>1, <3>4
  <2>14. /\ TypeInv'
         /\ \E h : /\ Goes(h, fs) /\ h.environments = g.environments
                  /\ h.current_loop_ty = g.current_loop_ty
                  /\ h.has_modules = g.has_modules
    BY <1>1, <2>5, <2>11, <2>13, LeaveStep DEF Scoping
  <2>15. PICK h : /\ Goes(h, fs) /\ h.environments = g.environments
                  /\ h.current_loop_ty = g.current_loop_ty
                  /\ h.has_modules = g.has_modules
    BY <2>14
  <2>16. Defining(h, n, v)
    BY <1>1, <1>3, <2>4, <2>8, <2>11, <2>15 DEF Defining, Scoping, SameLoop, SameModules
  <2> QED
    BY <2>6, <2>8, <2>14, <2>16 DEF Defines
<1> QED
  BY <1>2, <1>3

LEMMA EndBreakStep ==
  ASSUME TypeInv, NEW ty \in LoopTypes, EndBreak(ty) PROVE TypeInv' /\ Breaks
<1>1. frames # <<>> /\ top.kind = "break" /\ top.at = "leave" /\ Inner
  BY DEF EndBreak, At, Inner
<1>2. PICK g : g = WithLoopType(gen, ty)
  OBVIOUS
<1>3. PICK fs : fs = SetLoop(Pop(frames), ty)
  OBVIOUS
<1>4. PICK codes \in SUBSET Codes : Walk(g, Advance(fs), 0, codes)
  <2>1. Mismatch(ty) \in SUBSET Codes
    BY DEF Mismatch, Codes
  <2> QED
    BY <1>2, <1>3, <2>1 DEF EndBreak
<1>5. /\ g \in Generator /\ g.is_closure = gen.is_closure /\ g.outer_env = gen.outer_env
      /\ g.captured = gen.captured /\ g.environments = gen.environments
      /\ g.current_loop_ty = SetLoopType(gen.current_loop_ty, ty)
      /\ g.has_modules = gen.has_modules
  BY <1>2, GenTyped, WithLoopTyped
<1>6. Awaiting(Pop(frames))
  BY <1>1, Back DEF Inner
<1>7. Awaiting(fs) /\ Len(fs) = Len(Pop(frames)) /\ Closures(fs) = Closures(Pop(frames))
  BY <1>3, <1>6, SetLoopTyped DEF Awaiting
<1>8. /\ TypeInv'
      /\ \E h : /\ Goes(h, fs) /\ h.environments = g.environments
               /\ h.current_loop_ty = g.current_loop_ty
               /\ h.has_modules = g.has_modules
  BY <1>1, <1>4, <1>5, <1>7, LeaveStep
<1>9. PICK h : /\ Goes(h, fs) /\ h.environments = g.environments
               /\ h.current_loop_ty = g.current_loop_ty
               /\ h.has_modules = g.has_modules
  BY <1>8
<1>10. Breaking(h, Pop(frames), ty)
  <2>1. Goes(h, SetLoop(Pop(frames), ty))
    BY <1>3, <1>9
  <2>2. SameScopes(h) /\ SameModules(h)
    BY <1>5, <1>9 DEF SameScopes, SameModules
  <2> QED
    BY <1>1, <1>5, <1>9, <2>1, <2>2 DEF Breaking
<1> QED
  BY <1>8, <1>10 DEF Breaks

LEMMA AfterBodyStep ==
  ASSUME TypeInv, NEW ty \in LoopTypes, AfterBody(ty) PROVE TypeInv' /\ Breaks
<1>1. frames # <<>> /\ top.kind \in Loops /\ top.at = "between" /\ Inner
  BY DEF AfterBody, At, Inner, Loops
<1>2. PICK g : g = WithLoopType(gen, ty)
  OBVIOUS
<1>3. PICK fs : fs = SetLoop(frames, ty)
  OBVIOUS
<1>4. PICK r : r = Goto(fs, "else")
  OBVIOUS
<1>5. PICK codes \in SUBSET Codes : Walk(g, r, 0, codes)
  <2>1. Mismatch(ty) \in SUBSET Codes
    BY DEF Mismatch, Codes
  <2> QED
    BY <1>2, <1>3, <1>4, <2>1 DEF AfterBody
<1>6. /\ g \in Generator /\ g.is_closure = gen.is_closure /\ g.outer_env = gen.outer_env
      /\ g.captured = gen.captured /\ g.environments = gen.environments
      /\ g.current_loop_ty = SetLoopType(gen.current_loop_ty, ty)
      /\ g.has_modules = gen.has_modules
  BY <1>2, GenTyped, WithLoopTyped
<1>7. PICK n : n = Len(frames)
  OBVIOUS
<1>8. /\ Framed(frames) /\ n \in Nat \ {0} /\ n <= MaxDepth /\ n \in 1..n
      /\ top = frames[n] /\ top \in Frame /\ Proper(top)
  BY <1>1, <1>7, TopTyped
<1>9. /\ Framed(fs) /\ Len(fs) = n /\ Closures(fs) = Closures(frames)
      /\ \A j \in 1..n : fs[j].at = frames[j].at /\ fs[j].kind = frames[j].kind
  BY <1>1, <1>3, <1>7, <1>8, SetLoopTyped
<1>10. PICK f : f = [fs[n] EXCEPT !.at = "else"]
  OBVIOUS
<1>11. fs[n] \in Frame /\ Proper(fs[n]) /\ fs[n].kind \in Loops /\ fs[n].at = "between"
  <2>1. fs[n] \in Frame /\ Proper(fs[n])
    BY <1>8, <1>9, ElementOfSeq DEF Framed
  <2> QED
    BY <1>1, <1>8, <1>9, <2>1
<1>12. f \in Frame /\ f.kind = fs[n].kind
  BY <1>10, <1>11 DEF Frame, Places, Expected
<1>13. Proper(f)
  BY <1>10, <1>11 DEF Proper, Loops, OpensScope, Frame
<1>14. r = Replaced(fs, n, f)
  BY <1>4, <1>9, <1>10 DEF Goto, Replaced
<1>15. /\ Framed(r) /\ Len(r) = n /\ Closures(r) = Closures(frames)
       /\ r[n] = f /\ \A j \in 1..n : j # n => r[j] = fs[j]
  <2>1. /\ Framed(fs) /\ n \in 1..Len(fs) /\ n = Len(fs)
    BY <1>8, <1>9
  <2>2. /\ Framed(r) /\ Len(r) = Len(fs) /\ Closures(r) = Closures(fs)
        /\ r[n] = f /\ \A j \in 1..Len(fs) : j # n => r[j] = fs[j]
    BY ONLY <1>12, <1>13, <1>14, <2>1, Changed
  <2> QED
    BY <1>9, <2>2
<1>16. Alike(fs, r)
  BY <1>9, <1>10, <1>11, <1>15 DEF Alike, Frame
<1>17. /\ TypeInv'
       /\ \E h : /\ Goes(h, fs) /\ h.environments = g.environments
                /\ h.current_loop_ty = g.current_loop_ty
                /\ h.has_modules = g.has_modules
  <2>1. 0 \in Nat /\ Len(r) <= MaxDepth
    BY <1>8, <1>15
  <2> QED
    BY <1>5, <1>6, <1>15, <1>16, <2>1, WalkTyped
<1>18. PICK h : /\ Goes(h, fs) /\ h.environments = g.environments
                /\ h.current_loop_ty = g.current_loop_ty
                /\ h.has_modules = g.has_modules
  BY <1>17
<1>19. Entered(top)
  BY <1>1, <1>8 DEF Entered, Proper
<1>20. Breaking(h, frames, ty)
  BY <1>1, <1>3, <1>6, <1>18, <1>19 DEF Breaking, SameScopes, SameModules
<1> QED
  BY <1>17, <1>20 DEF Breaks
(* A variable is put into a scope that was just begun.                     *)
LEMMA DefinedInNew ==
  ASSUME NEW envs \in Seq(Environment), NEW n \in Names, NEW v \in Var
  PROVE  Define(Append(envs, Empty), n, v) = Append(envs, [Empty EXCEPT ![n] = v])
<1>1. PICK e : e = [Empty EXCEPT ![n] = v]
  OBVIOUS
<1>2. e \in Environment
  BY <1>1, EmptyTyped DEF Environment
<1>3. PICK m : m = Len(envs) + 1
  OBVIOUS
<1>4. PICK b : b = Append(envs, Empty)
  OBVIOUS
<1>5. /\ b \in Seq(Environment) /\ b # <<>> /\ Len(b) = m /\ Len(envs) \in Nat
      /\ b[m] = Empty /\ \A k \in 1..Len(envs) : b[k] = envs[k]
  BY <1>3, <1>4, EmptyTyped, Begun
<1>6. PICK d : d = Define(b, n, v)
  OBVIOUS
<1>7. /\ d \in Seq(Environment) /\ Len(d) = m
      /\ d = [b EXCEPT ![m] = [@ EXCEPT ![n] = v]]
  BY <1>5, <1>6, Defined
<1>8. PICK a : a = Append(envs, e)
  OBVIOUS
<1>9. /\ a \in Seq(Environment) /\ Len(a) = m /\ a[m] = e
      /\ \A k \in 1..Len(envs) : a[k] = envs[k]
  BY <1>2, <1>3, <1>8, Begun
<1>10. DOMAIN b = 1..m /\ m \in 1..m
  BY <1>3, <1>5, LenProperties
<1>11. \A k \in 1..m : k = m \/ k \in 1..Len(envs)
  BY <1>3, <1>5
<1>12. \A k \in 1..m : d[k] = a[k]
  BY <1>1, <1>3, <1>5, <1>7, <1>9, <1>10, <1>11
<1>13. d = a
  BY <1>7, <1>9, <1>12, SeqEqual
<1> QED
  BY <1>1, <1>4, <1>6, <1>8, <1>13

(* A scope in which a variable may have been cast.                         *)
LEMMA CastTyped ==
  ASSUME gen \in Generator, nodes \in 0..MaxNodes, NEW n \in Casts, Room(CastNodes(n)),
         NEW envs \in Seq(Environment)
  PROVE  /\ CastScope(n) \in Environment /\ OneName(CastScope(n))
         /\ Cast(BeginScope(envs), n) = Append(envs, CastScope(n))
         /\ CastNodes(n) \in Nat
<1>1. CASE n = None
  BY <1>1, EmptyTyped DEF CastScope, OneName, Cast, BeginScope, CastNodes
<1>2. CASE n # None
  <2>1. n \in Names /\ Room(1)
    BY <1>2 DEF Casts, CastNodes
  <2>2. Made(n) \in Var /\ Made(n).name = n
    BY <2>1, MadeTyped
  <2>3. [Empty EXCEPT ![n] = Made(n)] \in Environment
    BY <2>1, <2>2, EmptyTyped DEF Environment
  <2>4. Define(Append(envs, Empty), n, Made(n)) = Append(envs, [Empty EXCEPT ![n] = Made(n)])
    BY <2>1, <2>2, DefinedInNew
  <2> QED
    BY <1>2, <2>1, <2>2, <2>3, <2>4 DEF CastScope, Cast, BeginScope, CastNodes, OneName
<1> QED
  BY <1>1, <1>2

LEMMA EnterBranchStep ==
  ASSUME TypeInv, NEW n \in Names \cup {None}, EnterBranch(n) PROVE TypeInv' /\ Opens
<1>1. PICK e : e = CastScope(n)
  OBVIOUS
<1>2. PICK b : b = NewFrame("branch", "body")
  OBVIOUS
<1>3. PICK f : f = [b EXCEPT !.scope = e]
  OBVIOUS
<1>4. PICK g : g = Scope(Cast(BeginScope(gen.environments), n))
  OBVIOUS
<1>5. /\ panicked = "no" /\ frames # <<>> /\ top.at = "branch" /\ Len(frames) < MaxDepth
      /\ n \in Casts /\ Walk(g, Inside(f), CastNodes(n), {})
  BY <1>1, <1>2, <1>3, <1>4 DEF EnterBranch, At
<1>6. /\ Room(CastNodes(n)) /\ nodes \in 0..MaxNodes /\ gen \in Generator
      /\ gen.environments \in Seq(Environment)
  BY <1>5, GenTyped DEF Walk, TypeInv
<1>7. /\ e \in Environment /\ OneName(e) /\ CastNodes(n) \in Nat
      /\ Cast(BeginScope(gen.environments), n) = Append(gen.environments, e)
  BY <1>1, <1>5, <1>6, CastTyped
<1>8. Scoping(g) /\ g.environments = Append(gen.environments, e)
  BY <1>4, <1>6, <1>7, Begun, ScopingScope
<1>9. /\ b \in Frame /\ b.kind = "branch" /\ b.at = "body" /\ b.loop = None
  BY <1>2, NewFrameTyped DEF Kinds, Places, Expected
<1>10. /\ f \in Frame /\ f.kind = "branch" /\ f.at = "body" /\ f.loop = None /\ f.scope = e
  BY <1>3, <1>7, <1>9 DEF Frame
<1>11. Proper(f)
  BY <1>10 DEF Proper, Loops, OpensScope
<1>12. /\ TypeInv'
       /\ \E h : /\ Goes(h, Append(frames, f)) /\ SameLoop(h) /\ SameModules(h)
                /\ h.environments = g.environments
  <2>1. top.at \in Waiting /\ f.kind \notin {"function", "closure"} /\ {} \in SUBSET Codes
    BY <1>5, <1>10 DEF Waiting
  <2> QED
    BY <1>5, <1>7, <1>8, <1>10, <1>11, <2>1, EnterStep
<1>13. PICK h : /\ Goes(h, Append(frames, f)) /\ SameLoop(h) /\ SameModules(h)
                /\ h.environments = g.environments
  BY <1>12
<1>14. Opening(h, f)
  BY <1>7, <1>8, <1>10, <1>13 DEF Opening
<1> QED
  BY <1>10, <1>12, <1>14 DEF Opens

(* The innermost construct is replaced, as the body of a loop is entered.  *)
LEMMA ForBodyStep ==
  ASSUME TypeInv, frames # <<>>, top.kind \in Loops, top.at = "enter",
         NEW g, Scoping(g), NEW e \in Environment, NEW k \in Nat, ForBody(g, e, k)
  PROVE  /\ TypeInv'
         /\ \E h : \E f \in Frame : /\ Entering(h, f) /\ f.scope = e
                                  /\ h.environments = g.environments
<1>1. PICK n : n = Len(frames)
  OBVIOUS
<1>2. /\ Framed(frames) /\ n \in 1..n /\ n <= MaxDepth /\ top = frames[n]
      /\ top \in Frame /\ Proper(top)
  BY <1>1, TopTyped
<1>3. gen.current_loop_ty \in LoopTy /\ Any \in LoopTy /\ Any # None
  BY GenTyped, SpecialValues DEF Generator, LoopTy
<1>4. PICK f : f = [top EXCEPT !.at = "body", !.scope = e, !.loop = Any,
                               !.prev_loop_ty = gen.current_loop_ty]
  OBVIOUS
<1>5. /\ f \in Frame /\ f.kind = top.kind /\ f.name = top.name /\ f.at = "body"
      /\ f.scope = e /\ f.loop = Any /\ f.prev_loop_ty = gen.current_loop_ty
  BY <1>2, <1>3, <1>4 DEF Frame, Places, Expected
<1>6. Proper(f)
  BY <1>2, <1>3, <1>5 DEF Proper, OpensScope, Loops
<1>7. PICK r : r = Replaced(frames, n, f)
  OBVIOUS
<1>8. /\ Framed(r) /\ Len(r) = Len(frames) /\ Closures(r) = Closures(frames)
  BY ONLY <1>1, <1>2, <1>5, <1>6, <1>7, Changed
<1>9. PICK h : h = [g EXCEPT !.current_loop_ty = Any]
  OBVIOUS
<1>10. /\ h \in Generator /\ h.is_closure = gen.is_closure /\ h.outer_env = gen.outer_env
       /\ h.captured = gen.captured /\ h.environments = g.environments
       /\ h.current_loop_ty = Any /\ h.has_modules = gen.has_modules
  BY <1>3, <1>9 DEF Scoping, SameModules, Generator
<1>11. Walk(h, r, k, {})
  <2>1. [frames EXCEPT ![Len(frames)].at = "body", ![Len(frames)].scope = e,
                       ![Len(frames)].loop = Any,
                       ![Len(frames)].prev_loop_ty = gen.current_loop_ty]
          = [frames EXCEPT ![n] = f]
    BY <1>1, <1>2, <1>4 DEF Framed
  <2> QED
    BY <1>7, <1>9, <2>1 DEF ForBody, Replaced
<1>12. Alike(r, r) /\ Len(r) <= MaxDepth /\ {} \in SUBSET Codes
  BY <1>1, <1>2, <1>8, AlikeItself
<1>13. /\ TypeInv'
       /\ \E i : /\ Goes(i, r) /\ i.environments = h.environments
                /\ i.current_loop_ty = h.current_loop_ty
                /\ i.has_modules = h.has_modules
  BY <1>8, <1>10, <1>11, <1>12, WalkTyped
<1>14. PICK i : /\ Goes(i, r) /\ i.environments = h.environments
                /\ i.current_loop_ty = h.current_loop_ty
                /\ i.has_modules = h.has_modules
  BY <1>13
<1>15. ~Entered(top) /\ Inner
  BY <1>2 DEF Entered, Proper, Inner, Loops
<1>16. Entering(i, f)
  BY <1>1, <1>5, <1>7, <1>10, <1>14, <1>15 DEF Entering, SameModules
<1> QED
  BY <1>5, <1>10, <1>13, <1>14, <1>16

LEMMA EnterForStep ==
  ASSUME TypeInv, NEW n \in Names \cup {None}, EnterFor(n) PROVE TypeInv' /\ Enters
<1>1. PICK e : e = CastScope(n)
  OBVIOUS
<1>2. PICK g : g = Scope(Cast(BeginScope(gen.environments), n))
  OBVIOUS
<1>3. /\ frames # <<>> /\ top.kind = "for" /\ top.at = "enter" /\ top.kind \in Loops
      /\ n \in Casts /\ ForBody(g, e, CastNodes(n))
  BY <1>1, <1>2 DEF EnterFor, At, Loops
<1>4. /\ Room(CastNodes(n)) /\ nodes \in 0..MaxNodes /\ gen \in Generator
      /\ gen.environments \in Seq(Environment)
  BY <1>3, GenTyped DEF ForBody, Walk, TypeInv
<1>5. /\ e \in Environment /\ OneName(e) /\ CastNodes(n) \in Nat
      /\ Cast(BeginScope(gen.environments), n) = Append(gen.environments, e)
  BY <1>1, <1>3, <1>4, CastTyped
<1>6. Scoping(g) /\ g.environments = Append(gen.environments, e)
  BY <1>2, <1>4, <1>5, Begun, ScopingScope
<1>7. /\ TypeInv'
      /\ \E h : \E f \in Frame : /\ Entering(h, f) /\ f.scope = e
                               /\ h.environments = g.environments
  BY <1>3, <1>5, <1>6, ForBodyStep
<1>8. top.scope = Empty
  BY <1>3, TopTyped DEF Proper
<1> QED
  BY <1>3, <1>5, <1>6, <1>7, <1>8 DEF Enters, EnteringFor

LEMMA EnterForIterStep ==
  ASSUME TypeInv, EnterForIter PROVE TypeInv' /\ (Enters \/ Panics)
<1>1. /\ frames # <<>> /\ top.kind = "for_iter" /\ top.at = "enter" /\ Inner
      /\ top.kind \in Loops
  BY DEF EnterForIter, At, Inner, Loops
<1>2. CASE gen.environments = <<>>
  <2>1. Panic
    BY <1>2 DEF EnterForIter
  <2>2. TypeInv'
    BY <2>1 DEF TypeInv, Panic, Crash
  <2> QED
    BY <1>1, <1>2, <2>1, <2>2 DEF Panics
<1>3. CASE gen.environments # <<>>
  <2>1. PICK n : n = top.name
    OBVIOUS
  <2>2. PICK held : held = Define(gen.environments, Iter, Temporary(Iter))
    OBVIOUS
  <2>3. PICK outer : outer = Define(held, n, Temporary(n))
    OBVIOUS
  <2>4. PICK inner : inner = Define(BeginScope(outer), n, Made(n))
    OBVIOUS
  <2>5. PICK g : g = Scope(inner)
    OBVIOUS
  <2>6. PICK e : e = [top.scope EXCEPT ![n] = Made(n)]
    OBVIOUS
  <2>7. ForBody(g, e, 1)
    BY <1>3, <2>1, <2>2, <2>3, <2>4, <2>5, <2>6 DEF EnterForIter
  <2>8. /\ n \in Names /\ Iter \in Names /\ top \in Frame
    BY <1>1, <2>1, TopTyped, SizesAndNames DEF Proper
  <2>9. Room(1) /\ nodes \in 0..MaxNodes
    BY <2>7 DEF ForBody, Walk, TypeInv
  <2>10. /\ Made(n) \in Var /\ Temporary(n) \in Var /\ Temporary(Iter) \in Var
         /\ Made(n).name = n /\ Temporary(n).name = n /\ Temporary(Iter).name = Iter
    BY <2>8, <2>9, GenTyped, MadeTyped DEF Temporary, Made, NewVar
  <2>11. gen.environments \in Seq(Environment)
    BY GenTyped
  <2>12. held \in Seq(Environment) /\ Len(held) = Len(gen.environments)
    BY <1>3, <2>2, <2>8, <2>10, <2>11, Defined
  <2>13. held # <<>>
    BY <1>3, <2>11, <2>12, EmptySeq
  <2>14. outer \in Seq(Environment)
    BY <2>3, <2>8, <2>10, <2>12, <2>13, Defined
  <2>15. Append(outer, Empty) \in Seq(Environment) /\ Append(outer, Empty) # <<>>
    BY <2>14, EmptyTyped, Begun
  <2>16. inner = Append(outer, [Empty EXCEPT ![n] = Made(n)])
    BY <2>4, <2>8, <2>14, <2>10, DefinedInNew DEF BeginScope
  <2>17. inner \in Seq(Environment)
    BY <2>4, <2>8, <2>10, <2>15, Defined DEF BeginScope
  <2>18. Scoping(g) /\ g.environments = inner
    BY <2>5, <2>17, ScopingScope
  <2>19. e \in Environment
    BY <2>6, <2>8, <2>10 DEF Frame, Environment
  <2>20. /\ TypeInv'
         /\ \E h : \E f \in Frame : /\ Entering(h, f) /\ f.scope = e
                                  /\ h.environments = g.environments
    BY <1>1, <2>7, <2>18, <2>19, ForBodyStep
  <2>21. PICK h, f : /\ f \in Frame /\ Entering(h, f) /\ f.scope = e
                     /\ h.environments = g.environments
    BY <2>20
  <2>22. EnteringForIter(h, f, n, Temporary(Iter), Temporary(n), Made(n))
    BY <1>1, <1>3, <2>2, <2>3, <2>6, <2>10, <2>16, <2>18, <2>21 DEF EnteringForIter
  <2> QED
    BY <2>8, <2>10, <2>20, <2>21, <2>22 DEF Enters
<1> QED
  BY <1>2, <1>3

LEMMA NotAnIteratorStep == ASSUME TypeInv, NotAnIterator PROVE TypeInv' /\ Abandons
<1>1. PICK d : d = Define(gen.environments, Iter, Temporary(Iter))
  OBVIOUS
<1>2. PICK g : g = Scope(d)
  OBVIOUS
<1>3. /\ frames # <<>> /\ top.kind = "for_iter" /\ top.at = "enter" /\ Inner
      /\ gen.environments # <<>> /\ Walk(g, Advance(Pop(frames)), 1, {"E237"})
  BY <1>1, <1>2 DEF NotAnIterator, At, Inner
<1>4. Room(1) /\ nodes \in 0..MaxNodes /\ Iter \in Names
  BY <1>3, SizesAndNames DEF Walk, TypeInv
<1>5. Temporary(Iter) \in Var /\ gen.environments \in Seq(Environment)
  BY <1>4, GenTyped, MadeTyped
<1>6. d \in Seq(Environment) /\ Len(d) = Len(gen.environments)
  BY <1>1, <1>3, <1>4, <1>5, Defined
<1>7. Scoping(g) /\ g.environments = d
  BY <1>2, <1>6, ScopingScope
<1>8. Awaiting(Pop(frames)) /\ {"E237"} \in SUBSET Codes /\ 1 \in Nat
  BY <1>3, Back DEF Inner, Codes
<1>9. /\ TypeInv'
      /\ \E h : /\ Goes(h, Pop(frames)) /\ h.environments = g.environments
               /\ h.current_loop_ty = g.current_loop_ty
               /\ h.has_modules = g.has_modules
  BY <1>3, <1>7, <1>8, LeaveStep DEF Scoping
<1>10. ~Entered(top)
  BY <1>3, TopTyped DEF Entered, Proper, Loops
<1>11. "E237" \in found'
  BY <1>3 DEF Walk
<1> QED
  BY <1>3, <1>6, <1>7, <1>9, <1>10, <1>11 DEF Abandons, Scoping, SameLoop, SameModules
LEMMA LoopLeft ==
  ASSUME TypeInv, Inner, Entered(top), top.at = "leave", NEW g, Scoping(g),
         g.environments = Left(top, gen.environments),
         NEW h, h = [g EXCEPT !.current_loop_ty = PrevLoopTy(top)],
         Walk(h, Advance(Pop(frames)), 0, {})
  PROVE  TypeInv' /\ Closes
<1>1. Awaiting(Pop(frames)) /\ top \in Frame /\ 0 \in Nat /\ {} \in SUBSET Codes
  BY Back DEF Inner
<1>2. top.prev_loop_ty \in LoopTy
  BY <1>1 DEF Frame
<1>3. /\ h \in Generator /\ h.is_closure = gen.is_closure /\ h.outer_env = gen.outer_env
      /\ h.captured = gen.captured /\ h.environments = g.environments
      /\ h.current_loop_ty = top.prev_loop_ty /\ h.has_modules = gen.has_modules
  BY <1>2 DEF Scoping, SameModules, Generator, PrevLoopTy
<1>4. /\ TypeInv'
      /\ \E i : /\ Goes(i, Pop(frames)) /\ i.environments = h.environments
               /\ i.current_loop_ty = h.current_loop_ty
               /\ i.has_modules = h.has_modules
  BY <1>1, <1>3, LeaveStep
<1> QED
  BY <1>3, <1>4 DEF Closes, SameModules

LEMMA LeaveForStep == ASSUME TypeInv, LeaveFor PROVE TypeInv' /\ Closes
<1>1. PICK g : g = Scope(EndScope(gen.environments))
  OBVIOUS
<1>2. PICK h : h = [g EXCEPT !.current_loop_ty = PrevLoopTy(top)]
  OBVIOUS
<1>3. /\ frames # <<>> /\ Inner /\ top.kind = "for" /\ top.at = "leave"
      /\ Walk(h, Advance(Pop(frames)), 0, {})
  BY <1>1, <1>2 DEF LeaveFor, At, Inner
<1>4. Scoping(g) /\ g.environments = EndScope(gen.environments)
  BY <1>1, GenTyped, Ended, ScopingScope
<1>5. Entered(top)
  BY <1>3, TopTyped DEF Entered, Proper, Loops
<1>6. Left(top, gen.environments) = EndScope(gen.environments)
  BY <1>3, <1>5 DEF Left
<1> QED
  BY <1>2, <1>3, <1>4, <1>5, <1>6, LoopLeft

LEMMA LeaveForIterStep ==
  ASSUME TypeInv, LeaveForIter PROVE TypeInv' /\ (Closes \/ Panics)
<1>1. /\ frames # <<>> /\ Inner /\ top.kind = "for_iter" /\ top.at = "leave"
  BY DEF LeaveForIter, At, Inner
<1>2. Entered(top)
  BY <1>1, TopTyped DEF Entered, Proper, Loops
<1>3. PICK outer : outer = EndScope(gen.environments)
  OBVIOUS
<1>4. CASE outer = <<>>
  <2>1. Panic
    BY <1>3, <1>4 DEF LeaveForIter
  <2>2. TypeInv'
    BY <2>1 DEF TypeInv, Panic, Crash
  <2> QED
    BY <1>1, <1>2, <1>3, <1>4, <2>1, <2>2 DEF Panics
<1>5. CASE outer # <<>>
  <2>1. PICK g : g = Scope(EndScope(outer))
    OBVIOUS
  <2>2. PICK h : h = [g EXCEPT !.current_loop_ty = PrevLoopTy(top)]
    OBVIOUS
  <2>3. Walk(h, Advance(Pop(frames)), 0, {})
    BY <1>3, <1>5, <2>1, <2>2 DEF LeaveForIter
  <2>4. EndScope(outer) \in Seq(Environment)
    BY <1>3, GenTyped, Ended
  <2>5. Scoping(g) /\ g.environments = EndScope(outer)
    BY <2>1, <2>4, ScopingScope
  <2>6. Left(top, gen.environments) = EndScope(outer)
    BY <1>1, <1>2, <1>3 DEF Left
  <2> QED
    BY <1>1, <1>2, <2>2, <2>3, <2>5, <2>6, LoopLeft
<1> QED
  BY <1>4, <1>5

LEMMA UnknownReturnTypeStep ==
  ASSUME TypeInv, UnknownReturnType PROVE TypeInv' /\ Stays
<1>1. {"E300"} \in SUBSET Codes
  BY DEF Codes
<1> QED
  BY <1>1, SimpleStep DEF UnknownReturnType

LEMMA UnknownParamTypeStep ==
  ASSUME TypeInv, UnknownParamType PROVE TypeInv' /\ Loses
<1>1. PICK r : r = Advance(frames)
  OBVIOUS
<1>2. Expecting /\ Walk(Given, r, 1, {"E300"}) /\ 1 \in Nat /\ {"E300"} \in SUBSET Codes
  BY <1>1 DEF UnknownParamType, Codes
<1>3. frames # <<>> /\ Awaiting(frames) /\ Len(frames) <= MaxDepth
  BY <1>2, TopTyped DEF Expecting, Waiting
<1>4. /\ Framed(r) /\ Len(r) <= MaxDepth /\ Closures(r) = Closures(frames)
      /\ Alike(frames, r)
  BY <1>1, <1>3, Forward
<1>5. PICK g : g = Given
  OBVIOUS
<1>6. /\ g \in Generator /\ g.is_closure = gen.is_closure /\ g.outer_env = gen.outer_env
      /\ g.captured = gen.captured /\ g.current_loop_ty = gen.current_loop_ty
  <2>1. <<>> \in Seq(Environment)
    OBVIOUS
  <2> QED
    BY <1>5, <2>1, GenTyped DEF Given, Generator
<1>7. /\ TypeInv'
      /\ \E h : /\ Goes(h, frames) /\ h.environments = g.environments
               /\ h.current_loop_ty = g.current_loop_ty
               /\ h.has_modules = g.has_modules
  BY <1>2, <1>4, <1>5, <1>6, WalkTyped
<1>8. "E300" \in found'
  BY <1>2 DEF Walk
<1> QED
  BY <1>6, <1>7, <1>8 DEF Loses, SameLoop

LEMMA EndFunctionStep == ASSUME TypeInv, EndFunction PROVE TypeInv' /\ Ends
<1>1. PICK g : g = Scope(EndScope(gen.environments))
  OBVIOUS
<1>2. /\ frames # <<>> /\ top.kind = "function" /\ Walk(g, <<>>, 0, {})
  BY <1>1 DEF EndFunction, At
<1>3. Scoping(g) /\ g.environments = EndScope(gen.environments)
  BY <1>1, GenTyped, Ended, ScopingScope
<1>4. Len(frames) = 1 /\ frames[1].kind = "function"
  BY <1>2, TopTyped DEF Framed
<1>5. Closures(<<>>) = Closures(frames)
  <2>1. DOMAIN frames = 1..1 /\ DOMAIN <<>> = {}
    BY <1>4, LenProperties DEF TypeInv, Framed
  <2>2. Closures(frames) = {}
    BY <1>4, <2>1 DEF Closures
  <2> QED
    BY <2>1, <2>2 DEF Closures
<1>6. PICK e : e = <<>>
  OBVIOUS
<1>7. e \in Seq(Frame) /\ Len(e) = 0
  BY <1>6
<1>8. Framed(e) /\ Len(e) <= MaxDepth /\ Alike(e, e)
  BY <1>7, SizesAndNames, AlikeItself DEF Framed
<1>9. /\ TypeInv'
      /\ \E h : /\ Goes(h, e) /\ h.environments = g.environments
               /\ h.current_loop_ty = g.current_loop_ty
               /\ h.has_modules = g.has_modules
  <2>1. 0 \in Nat /\ {} \in SUBSET Codes /\ Walk(g, e, 0, {}) /\ Closures(e) = Closures(frames)
    BY <1>2, <1>5, <1>6
  <2> QED
    BY <1>3, <1>8, <2>1, WalkTyped DEF Scoping
<1> QED
  BY <1>2, <1>3, <1>4, <1>6, <1>9 DEF Ends, Scoping, SameLoop, SameModules

LEMMA NoClosures == Closures(<<>>) = {} /\ Cardinality(Closures(<<>>)) = 0
<1>1. DOMAIN <<>> = {}
  OBVIOUS
<1> QED
  BY <1>1, FS_EmptySet DEF Closures

LEMMA OnlyGenerator ==
  ASSUME TypeInv, frames = <<>>
  PROVE  Len(gens) = 1 /\ gens[1] = gen /\ gen \in Generator
<1>1. Len(gens) = 1
  BY NoClosures DEF TypeInv
<1> QED
  BY <1>1, GenTyped

LEMMA StartFunctionStep ==
  ASSUME TypeInv, NEW ps \in ParamLists, NEW body \in BOOLEAN, StartFunction(ps, body)
  PROVE  TypeInv' /\ Starts
<1>1. PICK e : e = ParamScope(functions + 1, ps)
  OBVIOUS
<1>2. PICK g : g = PrepareFunction(gens[1], functions + 1, ps)
  OBVIOUS
<1>3. PICK b : b = NewFrame("function", "body")
  OBVIOUS
<1>4. PICK f : f = [b EXCEPT !.scope = e]
  OBVIOUS
<1>5. /\ frames = <<>> /\ functions < MaxFunctions /\ Room(Len(ps)) /\ gens' = <<g>>
      /\ frames' = (IF body THEN <<f>> ELSE <<>>) /\ external' = (external \/ ~body)
      /\ functions' = functions + 1 /\ nodes' = nodes + Len(ps)
      /\ found' = found \cup Twice(ps) /\ panicked' = panicked
  BY <1>1, <1>2, <1>3, <1>4 DEF StartFunction
<1>6. functions + 1 \in 1..MaxFunctions
  BY <1>5, SizesAndNames DEF TypeInv
<1>7. e \in Environment /\ Len(ps) \in Nat /\ NamedScope(e)
  BY <1>1, <1>5, <1>6, ParamsTyped DEF TypeInv
<1>8. Len(gens) = 1 /\ gens[1] = gen /\ gen \in Generator /\ ~gen.is_closure
  <2>1. Len(gens) = 1 /\ gens[1] = gen /\ gen \in Generator
    BY <1>5, OnlyGenerator
  <2> QED
    BY <2>1, GenTyped DEF Generator
<1>9. Twice(ps) \in SUBSET Codes
  BY DEF Twice, Codes
<1>10. /\ g \in Generator /\ g.environments = Append(gen.environments, e)
       /\ SameLoop(g) /\ SameModules(g) /\ g.outer_env = gen.outer_env
       /\ g.captured = gen.captured /\ ~g.is_closure
  <2>1. PICK a : a = Append(gen.environments, e)
    OBVIOUS
  <2>2. a \in Seq(Environment)
    BY <1>7, <2>1, GenTyped, Begun
  <2>3. PICK h : h = Report(gen, Twice(ps))
    OBVIOUS
  <2>4. /\ h \in Generator /\ h.is_closure = gen.is_closure /\ h.outer_env = gen.outer_env
        /\ h.captured = gen.captured /\ h.environments = gen.environments
        /\ h.current_loop_ty = gen.current_loop_ty /\ h.has_modules = gen.has_modules
    BY <1>8, <1>9, <2>3 DEF Report, Generator
  <2>5. g = [h EXCEPT !.fn = functions + 1, !.environments = a]
    BY <1>1, <1>2, <1>8, <2>1, <2>3, <2>4 DEF PrepareFunction
  <2> QED
    BY <1>6, <1>8, <2>1, <2>2, <2>4, <2>5 DEF Generator, SameLoop, SameModules
<1>11. /\ b \in Frame /\ b.kind = "function" /\ b.at = "body" /\ b.loop = None
  BY <1>3, NewFrameTyped DEF Kinds, Places, Expected
<1>12. /\ f \in Frame /\ f.kind = "function" /\ f.at = "body" /\ f.loop = None /\ f.scope = e
  BY <1>4, <1>7, <1>11 DEF Frame
<1>13. Proper(f)
  BY <1>12 DEF Proper, Loops, OpensScope
<1>14. /\ Framed(frames') /\ Closures(frames') = {} /\ Len(frames') <= 1
  <2>1. CASE body
    <3>1. frames' \in Seq(Frame) /\ Len(frames') = 1 /\ frames'[1] = f
      BY <1>5, <1>12, <2>1
    <3>2. DOMAIN frames' = 1..1
      BY <3>1, LenProperties
    <3> QED
      BY <1>12, <1>13, <3>1, <3>2 DEF Framed, Closures
  <2>2. CASE ~body
    <3>1. frames' = <<>> /\ Len(frames') = 0
      BY <1>5, <2>2
    <3> QED
      BY <3>1, NoClosures DEF Framed
  <2> QED
    BY <2>1, <2>2
<1>15. TypeInv'
  <2>1. /\ gens' \in Seq(Generator) /\ gens' # <<>> /\ Len(gens') = 1 /\ gens'[1] = g
    BY <1>5, <1>10
  <2>2. \A k \in 1..Len(gens') : gens'[k].is_closure <=> k > 1
    BY <1>10, <2>1
  <2>3. nodes' \in 0..MaxNodes /\ functions' \in 0..MaxFunctions
    BY <1>5, <1>6, <1>7, SizesAndNames DEF TypeInv, Room
  <2>4. found' \in SUBSET Codes /\ external' \in BOOLEAN /\ panicked' \in {"no", "outer", "literal"}
    BY <1>5, <1>9 DEF TypeInv
  <2>5. Cardinality(Closures(frames')) = 0 /\ Len(frames') <= MaxDepth
    <3>1. Len(frames') \in Nat
      BY <1>14 DEF Framed
    <3> QED
      BY <1>14, <3>1, FS_EmptySet, SizesAndNames
  <2> QED
    BY <1>14, <2>1, <2>2, <2>3, <2>4, <2>5 DEF TypeInv
<1>16. Starting(g, e)
  <2>1. \/ frames' = <<>> /\ external'
        \/ /\ external' = external /\ Len(frames') = 1
           /\ frames'[1].kind = "function" /\ frames'[1].scope = e
    BY <1>5, <1>12 DEF TypeInv
  <2> QED
    BY <1>5, <1>7, <1>8, <1>10, <2>1 DEF Starting
<1> QED
  BY <1>7, <1>15, <1>16 DEF Starts
LEMMA NewTyped == NewGenerator \in Generator /\ ~NewGenerator.is_closure
BY SizesAndNames DEF NewGenerator, Generator, LoopTy

LEMMA SwitchModuleStep == ASSUME TypeInv, SwitchModule PROVE TypeInv' /\ Switches
<1>1. PICK g : g = [gen EXCEPT !.module = @ + 1, !.environments = <<>>,
                               !.current_loop_ty = None]
  OBVIOUS
<1>2. /\ frames = <<>> /\ gen.module < Modules /\ gens' = InGen(g) /\ external' = FALSE
      /\ frames' = frames /\ nodes' = nodes /\ functions' = functions /\ found' = found
      /\ panicked' = panicked
  BY <1>1 DEF SwitchModule
<1>3. Len(gens) = 1 /\ gens[1] = gen /\ gen \in Generator
  BY <1>2, OnlyGenerator
<1>4. gen.module + 1 \in 1..Modules /\ <<>> \in Seq(Environment) /\ None \in LoopTy
  BY <1>2, <1>3, SizesAndNames DEF Generator, LoopTy
<1>5. /\ g \in Generator /\ g.is_closure = gen.is_closure /\ g.outer_env = gen.outer_env
      /\ g.captured = gen.captured /\ g.environments = <<>> /\ g.current_loop_ty = None
      /\ SameModules(g)
  BY <1>1, <1>3, <1>4 DEF Generator, SameModules
<1>6. gens \in Seq(Generator) /\ DOMAIN gens = 1..1 /\ gens' = [gens EXCEPT ![1] = g]
  BY <1>2, <1>3, LenProperties DEF TypeInv, InGen
<1>7. gens' \in Seq(Generator) /\ Len(gens') = 1 /\ gens'[1] = g /\ gens' # <<>>
  <2>1. 1 \in 1..Len(gens)
    BY <1>3
  <2>2. gens' \in Seq(Generator) /\ Len(gens') = Len(gens)
    BY <1>5, <1>6, <2>1, ExceptSeq
  <2> QED
    BY <1>3, <1>6, <2>2
<1>8. \A k \in 1..Len(gens') : gens'[k].is_closure <=> k > 1
  BY <1>3, <1>5, <1>7 DEF TypeInv
<1>9. TypeInv'
  BY <1>2, <1>3, <1>7, <1>8 DEF TypeInv
<1> QED
  BY <1>2, <1>5, <1>9 DEF Switches

LEMMA ClosuresFinite ==
  ASSUME NEW fs, Framed(fs)
  PROVE  IsFiniteSet(Closures(fs)) /\ Closures(fs) \subseteq 1..Len(fs)
<1>1. DOMAIN fs = 1..Len(fs) /\ Len(fs) \in Nat
  BY LenProperties DEF Framed
<1>2. Closures(fs) \subseteq 1..Len(fs)
  BY <1>1 DEF Closures
<1>3. IsFiniteSet(1..Len(fs))
  BY <1>1, FS_Interval
<1> QED
  BY <1>2, <1>3, FS_Subset

LEMMA OpenClosureStep ==
  ASSUME TypeInv, NEW ps \in ParamLists, OpenClosure(ps)
  PROVE  TypeInv' /\ (OpensClosure \/ PanicsInClosure)
<1>1. frames # <<>> /\ top.at \in Waiting /\ Len(frames) < MaxDepth
  BY DEF OpenClosure, Expecting, Waiting
<1>2. CASE ~gen.has_modules
  <2>1. Panic
    BY <1>2 DEF OpenClosure
  <2>2. TypeInv'
    BY <2>1 DEF TypeInv, Panic, Crash
  <2> QED
    BY <1>1, <1>2, <2>1, <2>2 DEF PanicsInClosure
<1>3. CASE gen.has_modules
  <2>1. PICK e : e = ParamScope(functions + 1, ps)
    OBVIOUS
  <2>2. PICK b : b = NewFrame("closure", "body")
    OBVIOUS
  <2>3. PICK f : f = [b EXCEPT !.scope = e]
    OBVIOUS
  <2>4. PICK h : h = ClosureGenerator(ps)
    OBVIOUS
  <2>5. PICK g : g = Given
    OBVIOUS
  <2>6. PICK r : r = Append(frames, f)
    OBVIOUS
  <2>7. PICK n : n = Len(gens)
    OBVIOUS
  <2>8. /\ functions < MaxFunctions /\ Room(1 + Len(ps))
        /\ gens' = Append([gens EXCEPT ![n] = g], h) /\ frames' = r
        /\ functions' = functions + 1 /\ nodes' = nodes + 1 + Len(ps)
        /\ found' = found \cup Twice(ps)
        /\ external' = external /\ panicked' = panicked
    BY <1>3, <2>1, <2>2, <2>3, <2>4, <2>5, <2>6, <2>7 DEF OpenClosure, InGen, Inside
  <2>9. functions + 1 \in 1..MaxFunctions
    BY <2>8, SizesAndNames DEF TypeInv
  <2>10. Len(ps) \in Nat
    BY SizesAndNames
  <2>11. nodes + 1 + Len(ps) <= MaxNodes /\ nodes \in Nat /\ Room(Len(ps))
    BY <2>8, <2>10, SizesAndNames DEF TypeInv, Room
  <2>12. e \in Environment /\ NamedScope(e)
    BY <2>1, <2>9, <2>11, ParamsTyped DEF TypeInv
  <2>13. gen \in Generator /\ gen.environments \in Seq(Environment)
    BY GenTyped
  <2>14. /\ g \in Generator /\ SameLoop(g) /\ g.outer_env = gen.outer_env
         /\ g.captured = gen.captured /\ g.is_closure = gen.is_closure
    <3>1. <<>> \in Seq(Environment)
      OBVIOUS
    <3> QED
      BY <2>5, <2>13, <3>1 DEF Given, Generator, SameLoop
  <2>15. Twice(ps) \in SUBSET Codes
    BY DEF Twice, Codes
  <2>16. /\ h \in Generator /\ h.environments = <<Empty, e>> /\ h.has_modules
         /\ h.outer_env = gen.environments /\ h.current_loop_ty = None /\ h.captured = {}
         /\ h.is_closure
    <3>1. PICK a : a = <<Empty>>
      OBVIOUS
    <3>2. PICK c : c = Append(a, e)
      OBVIOUS
    <3>3. a \in Seq(Environment)
      BY <3>1, EmptyTyped
    <3>4. c \in Seq(Environment)
      BY <2>12, <3>2, <3>3, Begun
    <3>5. c = <<Empty, e>>
      <4>1. PICK t : t = <<Empty, e>>
        OBVIOUS
      <4>2. t \in Seq(Environment) /\ Len(t) = 2 /\ t[1] = Empty /\ t[2] = e
        BY <2>12, <4>1, EmptyTyped
      <4>3. Len(a) = 1 /\ a[1] = Empty
        BY <3>1
      <4>4. Len(c) = 2 /\ c[1] = Empty /\ c[2] = e
        <5>1. /\ Len(c) = Len(a) + 1 /\ c[Len(a) + 1] = e
              /\ \A k \in 1..Len(a) : c[k] = a[k]
          BY <2>12, <3>2, <3>3, Begun
        <5>2. 1 \in 1..1 /\ 1 + 1 = 2
          OBVIOUS
        <5> QED
          BY ONLY <4>3, <5>1, <5>2
      <4>5. \A i \in 1..Len(c) : c[i] = t[i]
        <5>1. \A i \in 1..2 : i = 1 \/ i = 2
          OBVIOUS
        <5> QED
          BY <4>2, <4>4, <5>1
      <4> QED
        BY <3>4, <4>1, <4>2, <4>4, <4>5, SeqEqual
    <3>6. PICK d : d = [NewGenerator EXCEPT !.environments = a, !.is_closure = TRUE,
                                            !.outer_env = gen.environments]
      OBVIOUS
    <3>7. /\ d \in Generator /\ d.is_closure /\ d.environments = a /\ d.has_modules
          /\ d.outer_env = gen.environments /\ d.current_loop_ty = None
          /\ d.captured = {}
      <4>1. NewGenerator \in Generator
        BY NewTyped
      <4> QED
        BY <2>13, <3>3, <3>6, <4>1 DEF Generator, NewGenerator
    <3>8. PICK x : x = Report(d, Twice(ps))
      OBVIOUS
    <3>9. /\ x \in Generator /\ x.is_closure /\ x.environments = a /\ x.has_modules
          /\ x.outer_env = gen.environments /\ x.current_loop_ty = None
          /\ x.captured = {}
      BY <2>15, <3>7, <3>8 DEF Report, Generator
    <3>10. h = [x EXCEPT !.fn = functions + 1, !.environments = c]
      BY <2>1, <2>4, <3>1, <3>2, <3>6, <3>8, <3>9 DEF ClosureGenerator, PrepareFunction
    <3> QED
      BY <2>9, <3>4, <3>5, <3>9, <3>10 DEF Generator
  <2>17. /\ b \in Frame /\ b.kind = "closure" /\ b.at = "body" /\ b.loop = None
    BY <2>2, NewFrameTyped DEF Kinds, Places, Expected
  <2>18. /\ f \in Frame /\ f.kind = "closure" /\ f.at = "body" /\ f.loop = None /\ f.scope = e
    BY <2>3, <2>12, <2>17 DEF Frame
  <2>19. Proper(f)
    BY <2>18 DEF Proper, Loops, OpensScope
  <2>20. Awaiting(frames) /\ Framed(frames)
    BY <1>1, TopTyped
  <2>21. /\ Framed(r) /\ Len(r) = Len(frames) + 1 /\ Len(frames) \in Nat
         /\ Closures(r) = Closures(frames) \cup {Len(frames) + 1}
    <3>1. f.kind # "function"
      BY <2>18
    <3>2. /\ Framed(r) /\ Len(r) = Len(frames) + 1 /\ Len(frames) \in Nat
          /\ Closures(r) = Closures(frames)
                           \cup (IF f.kind = "closure" THEN {Len(frames) + 1} ELSE {})
      <4>1. PICK fs : fs = frames
        OBVIOUS
      <4>2. Awaiting(fs) /\ r = Append(fs, f) /\ f \in Frame /\ Proper(f) /\ f.kind # "function"
        BY <2>6, <2>18, <2>19, <2>20, <3>1, <4>1
      <4>3. /\ Framed(r) /\ Len(r) = Len(fs) + 1 /\ Len(fs) \in Nat \ {0}
            /\ Closures(r) = Closures(fs)
                             \cup (IF f.kind = "closure" THEN {Len(fs) + 1} ELSE {})
        BY ONLY <4>2, Pushed
      <4> QED
        BY <4>1, <4>3
    <3> QED
      BY <2>18, <3>2
  <2>22. Cardinality(Closures(r)) = Cardinality(Closures(frames)) + 1
    <3>1. IsFiniteSet(Closures(frames)) /\ Len(frames) + 1 \notin Closures(frames)
      BY <2>20, <2>21, ClosuresFinite
    <3> QED
      BY <2>21, <3>1, FS_AddElement
  <2>23. gens \in Seq(Generator) /\ n \in Nat \ {0} /\ n \in 1..n /\ DOMAIN gens = 1..n
    BY <2>7, GenTyped, LenProperties DEF TypeInv
  <2>24. PICK gs : gs = [gens EXCEPT ![n] = g]
    OBVIOUS
  <2>25. /\ gs \in Seq(Generator) /\ Len(gs) = n
         /\ \A k \in 1..n : gs[k].is_closure = gens[k].is_closure
    <3>1. gs \in Seq(Generator) /\ Len(gs) = n
      BY <2>7, <2>14, <2>23, <2>24, ExceptSeq
    <3>2. gen = gens[n]
      BY <2>7, GenTyped
    <3> QED
      BY <2>14, <2>23, <2>24, <3>1, <3>2
  <2>26. /\ gens' \in Seq(Generator) /\ Len(gens') = n + 1 /\ gens'[n + 1] = h
         /\ \A k \in 1..n : gens'[k] = gs[k]
    BY <2>8, <2>16, <2>24, <2>25, AppendProperties
  <2>27. \A k \in 1..Len(gens') : gens'[k].is_closure <=> k > 1
    <3>1. \A k \in 1..n : gens[k].is_closure <=> k > 1
      BY <2>7 DEF TypeInv
    <3>2. \A k \in 1..(n + 1) : k \in 1..n \/ k = n + 1
      BY <2>23
    <3>3. n + 1 > 1
      BY <2>23
    <3> QED
      BY <2>16, <2>25, <2>26, <3>1, <3>2, <3>3
  <2>28. TypeInv'
    <3>1. gens' # <<>> /\ Len(r) <= MaxDepth
      BY <1>1, <2>21, <2>23, <2>26, SizesAndNames
    <3>2. nodes' \in 0..MaxNodes /\ functions' \in 0..MaxFunctions
      BY <2>8, <2>9, <2>10, <2>11, SizesAndNames
    <3>3. found' \in SUBSET Codes /\ external' \in BOOLEAN /\ panicked' \in {"no", "outer", "literal"}
      BY <2>8, <2>15 DEF TypeInv
    <3>4. Len(gens') = 1 + Cardinality(Closures(frames'))
      <4>1. Len(gens) = 1 + Cardinality(Closures(frames))
        BY DEF TypeInv
      <4>2. Cardinality(Closures(frames)) \in Nat
        BY <2>20, ClosuresFinite, FS_CardinalityType
      <4> QED
        BY <2>7, <2>8, <2>22, <2>26, <4>1, <4>2
    <3> QED
      BY <2>8, <2>21, <2>26, <2>27, <3>1, <3>2, <3>3, <3>4 DEF TypeInv
  <2>29. OpeningClosure(g, h, f)
    BY <1>1, <1>3, <2>6, <2>7, <2>8, <2>12, <2>14, <2>16, <2>18 DEF OpeningClosure, InGen
  <2> QED
    BY <2>18, <2>28, <2>29 DEF OpensClosure
<1> QED
  BY <1>2, <1>3 DEF TypeInv

LEMMA LeaveClosureStep == ASSUME TypeInv, LeaveClosure PROVE TypeInv' /\ LeavesClosure
<1>1. PICK n : n = Len(gens)
  OBVIOUS
<1>2. PICK outer : outer = gens[n - 1]
  OBVIOUS
<1>3. PICK g : g = EndClosure(outer, gen)
  OBVIOUS
<1>4. PICK r : r = Advance(Pop(frames))
  OBVIOUS
<1>5. PICK gs : gs = SubSeq(gens, 1, n - 2)
  OBVIOUS
<1>6. /\ frames # <<>> /\ top.kind = "closure" /\ gens' = Append(gs, g) /\ frames' = r
      /\ nodes' = nodes /\ functions' = functions /\ found' = found
      /\ external' = external /\ panicked' = panicked
  BY <1>1, <1>2, <1>3, <1>4, <1>5 DEF LeaveClosure, At
<1>7. Framed(frames) /\ Last(frames).kind # "function" /\ Len(frames) \in 1..Len(frames)
  BY <1>6, TopTyped DEF top
<1>8. /\ Awaiting(Pop(frames)) /\ Len(Pop(frames)) = Len(frames) - 1
      /\ Len(frames) \in Nat \ {0, 1}
      /\ Closures(Pop(frames)) = Closures(frames) \ {Len(frames)}
  BY <1>6, <1>7, Popped
<1>9. /\ Framed(r) /\ Len(r) = Len(frames) - 1 /\ Alike(Pop(frames), r)
      /\ Closures(r) = Closures(frames) \ {Len(frames)}
  <2>1. /\ Framed(r) /\ Len(r) = Len(Pop(frames)) /\ Closures(r) = Closures(Pop(frames))
        /\ Alike(Pop(frames), r)
    BY <1>4, <1>8, Forward
  <2> QED
    BY <1>8, <2>1
<1>10. Len(frames) \in Closures(frames)
  <2>1. DOMAIN frames = 1..Len(frames)
    BY <1>7, LenProperties DEF Framed
  <2> QED
    BY <1>6, <1>7, <2>1 DEF Closures, top, Last
<1>11. /\ Cardinality(Closures(r)) = Cardinality(Closures(frames)) - 1
       /\ Cardinality(Closures(frames)) \in Nat /\ Cardinality(Closures(r)) \in Nat
  <2>1. IsFiniteSet(Closures(frames)) /\ IsFiniteSet(Closures(r))
    BY <1>7, <1>9, ClosuresFinite
  <2> QED
    BY <1>9, <1>10, <2>1, FS_RemoveElement, FS_CardinalityType
<1>12. n \in Nat \ {0, 1} /\ n - 2 \in Nat /\ n - 1 \in 1..n /\ n - 1 = Cardinality(Closures(frames))
  <2>1. n = 1 + Cardinality(Closures(frames))
    BY <1>1 DEF TypeInv
  <2> QED
    BY <1>11, <2>1
<1>13. gens \in Seq(Generator) /\ gen \in Generator /\ outer \in Generator
  BY <1>1, <1>2, <1>12, GenTyped, ElementOfSeq DEF TypeInv
<1>14. /\ g \in Generator /\ g.environments = gen.outer_env
       /\ g.has_modules = gen.has_modules /\ g.is_closure = outer.is_closure
       /\ g.current_loop_ty = outer.current_loop_ty
       /\ g.outer_env = outer.outer_env /\ g.captured = outer.captured
  BY <1>3, <1>13 DEF EndClosure, Generator
<1>15. /\ gs \in Seq(Generator) /\ Len(gs) = n - 2
       /\ \A k \in 1..(n - 2) : gs[k] = gens[k]
  <2>1. PICK m : m = n - 2
    OBVIOUS
  <2>2. m \in Nat /\ m <= Len(gens) /\ 1 <= Len(gens) + 1
    BY <1>1, <1>12, <2>1
  <2>3. \A k \in 1..m : gens[k] \in Generator
    BY <1>1, <1>12, <1>13, <2>1, ElementOfSeq
  <2>4. SubSeq(gens, 1, m) \in Seq(Generator)
    BY <2>2, <2>3, SubSeqProperties
  <2>5. /\ Len(SubSeq(gens, 1, m)) = m
        /\ \A i \in 1..m : SubSeq(gens, 1, m)[i] = gens[i]
    BY <1>13, <2>2, SubSeqProperties
  <2> QED
    BY <1>5, <2>1, <2>4, <2>5
<1>16. /\ gens' \in Seq(Generator) /\ Len(gens') = n - 1 /\ gens'[n - 1] = g
       /\ \A k \in 1..(n - 2) : gens'[k] = gens[k]
  <2>1. /\ gens' \in Seq(Generator) /\ Len(gens') = Len(gs) + 1 /\ gens'[Len(gs) + 1] = g
        /\ \A k \in 1..Len(gs) : gens'[k] = gs[k]
    BY <1>6, <1>14, <1>15, AppendProperties
  <2>2. Len(gs) + 1 = n - 1
    BY <1>12, <1>15
  <2> QED
    BY <1>15, <2>1, <2>2
<1>17. \A k \in 1..Len(gens') : gens'[k].is_closure <=> k > 1
  <2>1. \A k \in 1..n : gens[k].is_closure <=> k > 1
    BY <1>1 DEF TypeInv
  <2>2. \A k \in 1..(n - 1) : k \in 1..n /\ (k \in 1..(n - 2) \/ k = n - 1)
    BY <1>12
  <2> QED
    BY <1>2, <1>14, <1>16, <2>1, <2>2
<1>18. TypeInv'
  <2>1. gens' # <<>> /\ Len(r) <= MaxDepth
    <3>1. Len(frames) <= MaxDepth
      BY DEF TypeInv
    <3> QED
      BY <1>8, <1>9, <1>12, <1>16, <3>1, SizesAndNames
  <2>2. Len(gens') = 1 + Cardinality(Closures(frames'))
    BY <1>6, <1>11, <1>12, <1>16
  <2> QED
    BY <1>6, <1>9, <1>16, <1>17, <2>1, <2>2 DEF TypeInv
<1>19. LeavingClosure(g, outer)
  <2>1. Len(gens) > 1
    BY <1>1, <1>12
  <2> QED
    BY <1>1, <1>2, <1>5, <1>6, <1>9, <1>13, <1>14, <2>1 DEF LeavingClosure
<1> QED
  BY <1>18, <1>19 DEF LeavesClosure

-----------------------------------------------------------------------------
(* Type correctness.                                                       *)

Stepping ==
  \/ Stays \/ Loses \/ Opens \/ Closes \/ Abandons \/ Defines \/ Breaks \/ Enters
  \/ Starts \/ Ends \/ Switches \/ OpensClosure \/ LeavesClosure
  \/ Panics \/ PanicsInClosure \/ Fails

LEMMA Steps == ASSUME TypeInv, Next PROVE TypeInv' /\ Stepping
<1>1. CASE \E ps \in ParamLists, body \in BOOLEAN : StartFunction(ps, body)
  BY <1>1, StartFunctionStep DEF Stepping
<1>2. CASE EndFunction
  BY <1>2, EndFunctionStep DEF Stepping
<1>3. CASE SwitchModule
  BY <1>3, SwitchModuleStep DEF Stepping
<1>4. CASE \E codes \in {{}, {"other"}} : Simple(codes)
  <2>1. PICK codes \in {{}, {"other"}} : Simple(codes)
    BY <1>4
  <2>2. codes \in SUBSET Codes
    BY DEF Codes
  <2> QED
    BY <2>1, <2>2, SimpleStep DEF Stepping
<1>5. CASE \E n \in Names : Use(n)
  BY <1>5, UseStep DEF Stepping
<1>6. CASE OpenBlock
  BY <1>6, OpenBlockStep DEF Stepping
<1>7. CASE CloseBlock
  BY <1>7, CloseBlockStep DEF Stepping
<1>8. CASE \E n \in Names : OpenVariable(n)
  BY <1>8, OpenVariableStep DEF Stepping
<1>9. CASE EndVariable
  BY <1>9, EndVariableStep DEF Stepping
<1>10. CASE NotAssignable
  BY <1>10, NotAssignableStep DEF Stepping
<1>11. CASE Break
  BY <1>11, BreakStep DEF Stepping
<1>12. CASE OpenBreak
  BY <1>12, OpenBreakStep DEF Stepping
<1>13. CASE \E ty \in LoopTypes : EndBreak(ty)
  BY <1>13, EndBreakStep DEF Stepping
<1>14. CASE \E ty \in LoopTypes : AfterBody(ty)
  BY <1>14, AfterBodyStep DEF Stepping
<1>15. CASE OpenIf
  BY <1>15, OpenIfStep DEF Stepping
<1>16. CASE OpenWhen
  BY <1>16, OpenWhenStep DEF Stepping
<1>17. CASE \E n \in Names \cup {None} : EnterBranch(n)
  BY <1>17, EnterBranchStep DEF Stepping
<1>18. CASE LeaveBranch
  BY <1>18, LeaveBranchStep DEF Stepping
<1>19. CASE AbortWhen
  BY <1>19, AbortWhenStep DEF Stepping
<1>20. CASE WhenElse
  BY <1>20, WhenElseStep DEF Stepping
<1>21. CASE OmitElse
  BY <1>21, OmitElseStep DEF Stepping
<1>22. CASE Leave
  BY <1>22, LeaveIfStep DEF Stepping
<1>23. CASE OpenFor
  BY <1>23, OpenForStep DEF Stepping
<1>24. CASE \E n \in Names : OpenForIter(n)
  BY <1>24, OpenForIterStep DEF Stepping
<1>25. CASE \E n \in Names \cup {None} : EnterFor(n)
  BY <1>25, EnterForStep DEF Stepping
<1>26. CASE EnterForIter
  BY <1>26, EnterForIterStep DEF Stepping
<1>27. CASE NotAnIterator
  BY <1>27, NotAnIteratorStep DEF Stepping
<1>28. CASE LeaveFor
  BY <1>28, LeaveForStep DEF Stepping
<1>29. CASE LeaveForIter
  BY <1>29, LeaveForIterStep DEF Stepping
<1>30. CASE \E ps \in ParamLists : OpenClosure(ps)
  BY <1>30, OpenClosureStep DEF Stepping
<1>31. CASE UnknownReturnType
  BY <1>31, UnknownReturnTypeStep DEF Stepping
<1>32. CASE UnknownParamType
  BY <1>32, UnknownParamTypeStep DEF Stepping
<1>33. CASE LeaveClosure
  BY <1>33, LeaveClosureStep DEF Stepping
<1>34. CASE \E bad_escape \in BOOLEAN : StringLiteral(bad_escape)
  BY <1>34, StringLiteralStep DEF Stepping
<1> QED
  BY <1>1, <1>2, <1>3, <1>4, <1>5, <1>6, <1>7, <1>8, <1>9, <1>10, <1>11, <1>12, <1>13,
     <1>14, <1>15, <1>16, <1>17, <1>18, <1>19, <1>20, <1>21, <1>22, <1>23, <1>24, <1>25,
     <1>26, <1>27, <1>28, <1>29, <1>30, <1>31, <1>32, <1>33, <1>34 DEF Next

LEMMA InitTyped == ASSUME Init PROVE TypeInv
<1>1. /\ gens = <<NewGenerator>> /\ frames = <<>> /\ nodes = 0 /\ functions = 0
      /\ found = {} /\ external = FALSE /\ panicked = "no"
  BY DEF Init
<1>2. NewGenerator \in Generator /\ ~NewGenerator.is_closure
  BY NewTyped
<1>3. /\ gens \in Seq(Generator) /\ gens # <<>> /\ Len(gens) = 1
      /\ gens[1] = NewGenerator
  BY <1>1, <1>2
<1>4. Framed(frames) /\ Len(frames) = 0
  BY <1>1 DEF Framed
<1>5. \A k \in 1..Len(gens) : gens[k].is_closure <=> k > 1
  BY <1>2, <1>3
<1>6. Len(gens) = 1 + Cardinality(Closures(frames))
  BY <1>1, <1>3, NoClosures
<1>7. /\ nodes \in 0..MaxNodes /\ functions \in 0..MaxFunctions /\ found \in SUBSET Codes
      /\ external \in BOOLEAN /\ panicked \in {"no", "outer", "literal"} /\ Len(frames) <= MaxDepth
  <2>1. 0 \in 0..MaxNodes /\ 0 \in 0..MaxFunctions /\ 0 <= MaxDepth
    BY SizesAndNames
  <2> QED
    BY <1>1, <1>4, <2>1
<1> QED
  BY <1>3, <1>4, <1>5, <1>6, <1>7 DEF TypeInv

(* The constructs that the walk is inside of are at places they have, each *)
(* but the innermost waits for a part of itself, and every closure literal *)
(* among them has a generator of its own (generate_function_, expr.rs).    *)
THEOREM TypeInvariant == Spec => []TypeInv
<1>1. Init => TypeInv
  BY InitTyped
<1>2. TypeInv /\ [Next]_vars => TypeInv'
  <2>1. ASSUME TypeInv, UNCHANGED vars PROVE TypeInv'
    BY <2>1 DEF vars, TypeInv
  <2> QED
    BY <2>1, Steps
<1> QED
  BY <1>1, <1>2, PTL DEF Spec

(* The state is well typed, and there is one generator for each closure    *)
(* literal that the walk is inside of, besides the first: no way out of a  *)
(* closure or a function loses or keeps one (for_closure, end_closure).    *)
THEOREM TypeCorrect == Spec => []TypeOK
<1>1. TypeInv => TypeOK
  BY LenProperties DEF TypeInv, TypeOK, Framed, Closures
<1> QED
  BY <1>1, TypeInvariant, PTL

-----------------------------------------------------------------------------
(* Which generator goes on in which construct.                             *)

(* The generator of the body that the i-th construct's inside is in.       *)
Number(fs, i) == 1 + Cardinality({k \in 1..i : fs[k].kind = "closure"})

LEMMA PartFinite ==
  ASSUME NEW i \in Nat, NEW S, S \subseteq 1..i
  PROVE  IsFiniteSet(S) /\ Cardinality(S) \in Nat
<1>1. IsFiniteSet(1..i)
  BY FS_Interval
<1>2. IsFiniteSet(S)
  BY <1>1, FS_Subset
<1> QED
  BY <1>2, FS_CardinalityType

LEMMA NumberTyped ==
  ASSUME NEW fs, NEW i \in Nat
  PROVE  Number(fs, i) \in Nat \ {0}
<1>1. {k \in 1..i : fs[k].kind = "closure"} \subseteq 1..i
  OBVIOUS
<1>2. Cardinality({k \in 1..i : fs[k].kind = "closure"}) \in Nat
  BY <1>1, PartFinite
<1> QED
  BY <1>2 DEF Number

LEMMA NumberSame ==
  ASSUME NEW fs, NEW r, NEW i \in Nat, \A k \in 1..i : r[k].kind = fs[k].kind
  PROVE  Number(r, i) = Number(fs, i)
<1>1. {k \in 1..i : r[k].kind = "closure"} = {k \in 1..i : fs[k].kind = "closure"}
  OBVIOUS
<1> QED
  BY <1>1 DEF Number

LEMMA NumberNext ==
  ASSUME NEW fs, NEW i \in Nat \ {0}
  PROVE  Number(fs, i) = IF fs[i].kind = "closure" THEN Number(fs, i - 1) + 1
                         ELSE Number(fs, i - 1)
<1> DEFINE S == {k \in 1..i : fs[k].kind = "closure"}
           T == {k \in 1..(i - 1) : fs[k].kind = "closure"}
<1>1. i - 1 \in Nat /\ IsFiniteSet(T) /\ Cardinality(T) \in Nat
  <2>1. i - 1 \in Nat /\ T \subseteq 1..(i - 1)
    OBVIOUS
  <2> HIDE DEF T
  <2> QED
    BY <2>1, PartFinite
<1>2. Number(fs, i) = 1 + Cardinality(S) /\ Number(fs, i - 1) = 1 + Cardinality(T)
  BY DEF Number
<1>3. \A k \in 1..i : k \in 1..(i - 1) <=> k # i
  OBVIOUS
<1>4. CASE fs[i].kind = "closure"
  <2>1. S = T \cup {i} /\ i \notin T
    BY <1>4
  <2>2. Cardinality(S) = Cardinality(T) + 1
    BY <1>1, <2>1, FS_AddElement
  <2> HIDE DEF S, T
  <2> QED
    BY <1>1, <1>2, <1>4, <2>2
<1>5. CASE fs[i].kind # "closure"
  <2>1. S = T
    BY <1>5
  <2> QED
    BY <1>2, <1>5, <2>1
<1> QED
  BY <1>4, <1>5

(* The numbers grow along the constructs.                                  *)
LEMMA NumberGrows ==
  ASSUME NEW fs, NEW i \in Nat, NEW j \in Nat, i <= j
  PROVE  Number(fs, i) <= Number(fs, j)
<1> DEFINE S == {k \in 1..j : fs[k].kind = "closure"}
           T == {k \in 1..i : fs[k].kind = "closure"}
<1>1. IsFiniteSet(S) /\ T \subseteq S
  <2>1. S \subseteq 1..j /\ T \subseteq S
    OBVIOUS
  <2> HIDE DEF S, T
  <2> QED
    BY <2>1, PartFinite
<1>2. Cardinality(T) <= Cardinality(S) /\ Cardinality(T) \in Nat /\ Cardinality(S) \in Nat
  BY <1>1, FS_Subset, FS_CardinalityType
<1>3. Number(fs, j) = 1 + Cardinality(S) /\ Number(fs, i) = 1 + Cardinality(T)
  BY DEF Number
<1> HIDE DEF S, T
<1> QED
  BY <1>2, <1>3

(* Closure literals and their generators.                                  *)
LEMMA ClosureNumbers ==
  ASSUME TypeInv, NEW n, n = Len(frames)
  PROVE  /\ n \in Nat /\ Number(frames, n) = Len(gens)
         /\ \A i \in 1..n : frames[i].kind = "closure" =>
              Number(frames, i) \in 2..Len(gens) /\ Number(frames, i) \in Nat
         /\ n > 0 /\ frames[n].kind = "closure" =>
              \A i \in 1..(n - 1) : frames[i].kind = "closure" =>
                 Number(frames, i) \in 2..(Len(gens) - 1)
<1>1. Framed(frames) /\ frames \in Seq(Frame)
  BY DEF TypeInv, Framed
<1>2. n \in Nat /\ DOMAIN frames = 1..n
  BY <1>1, LenProperties
<1>3. Number(frames, n) = Len(gens)
  BY <1>2 DEF Number, TypeInv, Closures
<1>4. Len(gens) \in Nat \ {0}
  BY GenTyped
<1>5. ASSUME NEW i \in 1..n, frames[i].kind = "closure"
      PROVE  Number(frames, i) \in 2..Len(gens) /\ Number(frames, i) \in Nat
  <2>1. i \in Nat \ {0} /\ i \in Nat /\ i - 1 \in Nat /\ i <= n
    BY <1>2
  <2>2. /\ Number(frames, i) \in Nat \ {0} /\ Number(frames, i - 1) \in Nat \ {0}
        /\ Number(frames, i) = Number(frames, i - 1) + 1
    BY <1>5, <2>1, NumberTyped, NumberNext
  <2>3. Number(frames, i) <= Number(frames, n)
    BY <1>2, <2>1, NumberGrows
  <2> QED
    BY <1>3, <1>4, <2>2, <2>3
<1>6. ASSUME n > 0, frames[n].kind = "closure", NEW i \in 1..(n - 1),
             frames[i].kind = "closure"
      PROVE  Number(frames, i) \in 2..(Len(gens) - 1)
  <2>1. i \in 1..n /\ i \in Nat /\ n - 1 \in Nat /\ i <= n - 1 /\ n \in Nat \ {0}
    BY <1>2, <1>6
  <2>2. Number(frames, i) \in 2..Len(gens) /\ Number(frames, i) \in Nat
    BY <1>5, <1>6, <2>1
  <2>3. Number(frames, i) <= Number(frames, n - 1)
    BY <2>1, NumberGrows
  <2>4. Number(frames, n) = Number(frames, n - 1) + 1 /\ Number(frames, n - 1) \in Nat \ {0}
    BY <1>6, <2>1, NumberNext, NumberTyped
  <2> QED
    BY <1>3, <1>4, <2>2, <2>3, <2>4
<1> QED
  BY <1>2, <1>3, <1>5, <1>6

LEMMA GoesGens ==
  ASSUME TypeInv, NEW g, NEW fs, Goes(g, fs), NEW c, c = Len(gens)
  PROVE  /\ c \in Nat \ {0} /\ Len(gens') = c /\ gens'[c] = g
         /\ \A k \in 1..c : k # c => gens'[k] = gens[k]
         /\ \A k \in 1..c : gens'[k].outer_env = gens[k].outer_env
<1>1. /\ gens \in Seq(Generator) /\ c \in Nat \ {0} /\ c \in 1..c /\ DOMAIN gens = 1..c
      /\ gen = gens[c]
  BY GenTyped, LenProperties DEF TypeInv
<1>2. gens' = [gens EXCEPT ![c] = g] /\ g \in Generator /\ g.outer_env = gen.outer_env
  BY DEF Goes, InGen
<1>3. Len(gens') = c
  BY <1>1, <1>2, ExceptSeq
<1> QED
  BY <1>1, <1>2, <1>3

(* What stays the same from one construct to the next stays the same.      *)
LEMMA Constant ==
  ASSUME NEW a \in Nat, NEW b \in Nat, NEW l, \A j \in (a + 1)..b : l[j] = l[j - 1]
  PROVE  \A j \in a..b : l[j] = l[a]
<1> SUFFICES ASSUME \E j \in a..b : l[j] # l[a]
             PROVE  FALSE
  OBVIOUS
<1> DEFINE T == {j \in a..b : l[j] # l[a]}
<1>1. T \subseteq Nat /\ T # {}
  OBVIOUS
<1>2. PICK x \in T : \A y \in T : ~ (<<y, x>> \in OpToRel(<, Nat))
  BY <1>1, NatLessThanWellFounded, WFMin
<1>3. x \in (a + 1)..b /\ x - 1 \in a..b /\ x \in Nat /\ x - 1 \in Nat /\ x - 1 < x
  <2>1. x \in a..b /\ x # a
    BY <1>2
  <2> QED
    BY <2>1
<1>4. x - 1 \notin T
  BY <1>2, <1>3 DEF OpToRel
<1>5. l[x - 1] = l[a] /\ l[x] = l[x - 1]
  BY <1>3, <1>4
<1> QED
  BY <1>2, <1>5

-----------------------------------------------------------------------------
(* The types of loops.                                                     *)

(* The loop that a break inside of a construct leaves: its type.           *)
LoopWithin(f, around) == IF f.kind \in {"function", "closure"} THEN None
                         ELSE IF Entered(f) THEN f.loop ELSE around

LoopAt(f, around, within) ==
  /\ within = LoopWithin(f, around)
  /\ Entered(f) => f.prev_loop_ty = around
  /\ f.kind = "break" => around # None

(* l[i] is the type of the loop around what is inside of the i-th          *)
(* construct: the generators and the loops keep those of the constructs    *)
(* that the walk goes back to.                                             *)
TracksLoops(fs, gs, l) ==
  /\ l \in [0..Len(fs) -> LoopTy] /\ l[0] = None
  /\ \A i \in 1..Len(fs) : LoopAt(fs[i], l[i - 1], l[i])
  /\ \A i \in 1..Len(fs) : fs[i].kind = "closure" =>
       gs[Number(fs, i) - 1].current_loop_ty = l[i - 1]
  /\ gs[Len(gs)].current_loop_ty = l[Len(fs)]

LoopInv == "E207" \notin found => \E l : TracksLoops(frames, gens, l)

LEMMA LoopsAlike ==
  ASSUME NEW fs, Len(fs) \in Nat, NEW r, Len(r) = Len(fs),
         \A i \in 1..Len(fs) : /\ r[i].kind = fs[i].kind /\ r[i].loop = fs[i].loop
                               /\ r[i].prev_loop_ty = fs[i].prev_loop_ty,
         NEW gs, NEW l, TracksLoops(fs, gs, l)
  PROVE  TracksLoops(r, gs, l)
<1>1. ASSUME NEW i \in 1..Len(fs)
      PROVE  /\ LoopAt(r[i], l[i - 1], l[i])
             /\ r[i].kind = "closure" => gs[Number(r, i) - 1].current_loop_ty = l[i - 1]
  <2>1. LoopAt(fs[i], l[i - 1], l[i])
    BY DEF TracksLoops
  <2>2. LoopAt(r[i], l[i - 1], l[i])
    BY <2>1 DEF LoopAt, LoopWithin, Entered
  <2>3. i \in Nat /\ \A k \in 1..i : r[k].kind = fs[k].kind
    OBVIOUS
  <2>4. Number(r, i) = Number(fs, i)
    BY <2>3, NumberSame
  <2> QED
    BY <2>2, <2>4 DEF TracksLoops
<1> QED
  BY <1>1 DEF TracksLoops

(* The innermost loop of the function, and what is inside of it.           *)
LEMMA LoopCurrent ==
  ASSUME NEW fs, Framed(fs), fs # <<>>, NEW gs, NEW l, TracksLoops(fs, gs, l)
  PROVE  /\ LoopsIn(fs) = {} => l[Len(fs)] = None
         /\ LoopsIn(fs) # {} => \E m \in 1..Len(fs) :
              /\ m = Max(LoopsIn(fs)) /\ Entered(fs[m]) /\ fs[m].loop # None
              /\ \A j \in m..Len(fs) : l[j] = fs[m].loop
              /\ \A j \in (m + 1)..Len(fs) : /\ ~Entered(fs[j])
                                             /\ fs[j].kind \notin {"function", "closure"}
<1>1. PICK n : n = Len(fs)
  OBVIOUS
<1>2. n \in Nat \ {0}
  BY <1>1, EmptySeq DEF Framed
<1>3. PICK s : s = FunctionStart(fs)
  OBVIOUS
<1>4. /\ s \in 1..n /\ fs[s].kind \in {"function", "closure"}
      /\ \A j \in 1..n : j > s => fs[j].kind \notin {"function", "closure"}
  BY <1>1, <1>3, FunctionStartIs
<1>5. LoopsIn(fs) = {k \in s..n : fs[k].kind \in Loops /\ fs[k].loop # None}
  BY <1>1, <1>3 DEF LoopsIn
<1>6. \A j \in 1..n : LoopAt(fs[j], l[j - 1], l[j])
  BY <1>1 DEF TracksLoops
<1>7. ASSUME LoopsIn(fs) = {} PROVE l[n] = None
  <2>1. \A j \in (s + 1)..n : l[j] = l[j - 1]
    <3> SUFFICES ASSUME NEW j \in (s + 1)..n
                 PROVE  l[j] = l[j - 1]
      OBVIOUS
    <3>1. j \in 1..n /\ j > s /\ j \in s..n
      BY <1>2, <1>4
    <3>2. ~Entered(fs[j])
      BY <1>5, <1>7, <3>1 DEF Entered
    <3> QED
      BY <1>4, <1>6, <3>1, <3>2 DEF LoopAt, LoopWithin
  <2>2. s \in Nat /\ n \in Nat /\ n \in s..n
    BY <1>2, <1>4
  <2>3. l[n] = l[s]
    BY <2>1, <2>2, Constant
  <2>4. l[s] = None
    BY <1>4, <1>6 DEF LoopAt, LoopWithin
  <2> QED
    BY <2>3, <2>4
<1>8. ASSUME LoopsIn(fs) # {}
      PROVE  \E m \in 1..n :
              /\ m = Max(LoopsIn(fs)) /\ Entered(fs[m]) /\ fs[m].loop # None
              /\ \A j \in m..n : l[j] = fs[m].loop
              /\ \A j \in (m + 1)..n : /\ ~Entered(fs[j])
                                       /\ fs[j].kind \notin {"function", "closure"}
  <2>1. PICK m : m = Max(LoopsIn(fs))
    OBVIOUS
  <2>2. /\ m \in 1..n /\ fs[m].kind \in Loops /\ fs[m].loop # None
        /\ \A j \in 1..n : j > m =>
              /\ fs[j].kind \notin {"function", "closure"}
              /\ fs[j].kind \in Loops => fs[j].loop = None
    BY <1>1, <1>8, <2>1, LoopsInAre
  <2>3. \A j \in (m + 1)..n : j \in 1..n /\ j > m
    BY <1>2, <2>2
  <2>4. \A j \in (m + 1)..n : /\ ~Entered(fs[j])
                              /\ fs[j].kind \notin {"function", "closure"}
    BY <2>2, <2>3 DEF Entered
  <2>5. \A j \in (m + 1)..n : l[j] = l[j - 1]
    BY <1>6, <2>3, <2>4 DEF LoopAt, LoopWithin
  <2>6. m \in Nat /\ n \in Nat
    BY <1>2, <2>2
  <2>7. \A j \in m..n : l[j] = l[m]
    BY <2>5, <2>6, Constant
  <2>8. l[m] = fs[m].loop
    <3>1. fs[m].kind \notin {"function", "closure"} /\ Entered(fs[m])
      BY <2>2 DEF Entered, Loops
    <3> QED
      BY <1>6, <2>2, <3>1 DEF LoopAt, LoopWithin
  <2> QED
    BY <2>1, <2>2, <2>4, <2>7, <2>8 DEF Entered
<1> QED
  BY <1>1, <1>7, <1>8

(* A value for the innermost loop.                                         *)
LEMMA LoopsSet ==
  ASSUME NEW fs, Framed(fs), fs # <<>>, NEW gs, NEW l, TracksLoops(fs, gs, l),
         l[Len(fs)] # None, NEW ty \in LoopTypes, NEW r, r = SetLoop(fs, ty),
         NEW hs, Len(hs) \in Nat \ {0},
         \A i \in 1..Len(fs) : fs[i].kind = "closure" =>
           hs[Number(fs, i) - 1].current_loop_ty = gs[Number(fs, i) - 1].current_loop_ty,
         hs[Len(hs)].current_loop_ty = SetLoopType(gs[Len(gs)].current_loop_ty, ty)
  PROVE  \E k : TracksLoops(r, hs, k)
<1>1. PICK n : n = Len(fs)
  OBVIOUS
<1>2. n \in Nat \ {0}
  BY <1>1, EmptySeq DEF Framed
<1>3. PICK m \in 1..n :
              /\ m = Max(LoopsIn(fs)) /\ Entered(fs[m]) /\ fs[m].loop # None
              /\ \A j \in m..n : l[j] = fs[m].loop
              /\ \A j \in (m + 1)..n : /\ ~Entered(fs[j])
                                       /\ fs[j].kind \notin {"function", "closure"}
  BY <1>1, LoopCurrent
<1>4. LoopsIn(fs) # {}
  BY <1>1, LoopCurrent
<1>5. PICK x : x = SetLoopType(fs[m].loop, ty)
  OBVIOUS
<1>6. fs \in Seq(Frame) /\ DOMAIN fs = 1..n
  BY <1>1, LenProperties DEF Framed
<1>7. fs[m] \in Frame
  BY <1>1, <1>3, <1>6, ElementOfSeq
<1>8. x \in LoopTy /\ x # None
  BY <1>3, <1>5, <1>7, SpecialValues DEF Frame, LoopTy, SetLoopType
<1>9. /\ r = [fs EXCEPT ![m] = [fs[m] EXCEPT !.loop = x]]
  BY <1>3, <1>4, <1>5 DEF SetLoop
<1>10. /\ Len(r) = n /\ r[m] = [fs[m] EXCEPT !.loop = x]
       /\ \A j \in 1..n : j # m => r[j] = fs[j]
  <2>1. Framed(r) /\ Len(r) = Len(fs)
    BY SetLoopTyped
  <2> QED
    BY <1>1, <1>3, <1>6, <1>9, <2>1
<1>11. /\ r[m].kind = fs[m].kind /\ r[m].loop = x
       /\ r[m].prev_loop_ty = fs[m].prev_loop_ty /\ Entered(r[m])
  BY <1>3, <1>7, <1>8, <1>10 DEF Frame, Entered
<1>12. PICK k : k = [j \in 0..n |-> IF j < m THEN l[j] ELSE x]
  OBVIOUS
<1>13. /\ l \in [0..n -> LoopTy] /\ l[0] = None
       /\ \A j \in 1..n : LoopAt(fs[j], l[j - 1], l[j])
       /\ \A j \in 1..n : fs[j].kind = "closure" =>
            gs[Number(fs, j) - 1].current_loop_ty = l[j - 1]
       /\ gs[Len(gs)].current_loop_ty = l[n]
  BY <1>1 DEF TracksLoops
<1>14. k \in [0..n -> LoopTy] /\ k[0] = None
  BY <1>2, <1>3, <1>8, <1>12, <1>13
<1>15. \A j \in 1..n : r[j].kind = fs[j].kind
  BY <1>10, <1>11
<1>16. ASSUME NEW j \in 1..n
       PROVE  LoopAt(r[j], k[j - 1], k[j])
  <2>0. j \in 0..n /\ j - 1 \in 0..n /\ j \in Nat /\ m \in Nat
    BY <1>2, <1>3
  <2>1. CASE j < m
    BY <1>10, <1>12, <1>13, <2>0, <2>1
  <2>2. CASE j = m
    <3>1. k[j - 1] = l[j - 1] /\ k[j] = x
      BY <1>12, <2>0, <2>2
    <3>2. r[j].kind \notin {"function", "closure"} /\ r[j].kind # "break"
      BY <1>11, <2>2 DEF Entered, Loops
    <3>3. fs[j].prev_loop_ty = l[j - 1]
      BY <1>3, <1>13, <2>2 DEF LoopAt
    <3> QED
      BY <1>11, <2>2, <3>1, <3>2, <3>3 DEF LoopAt, LoopWithin
  <2>3. CASE j > m
    <3>1. k[j - 1] = x /\ k[j] = x
      BY <1>12, <2>0, <2>3
    <3>2. r[j] = fs[j] /\ ~Entered(fs[j]) /\ fs[j].kind \notin {"function", "closure"}
      BY <1>3, <1>10, <2>0, <2>3
    <3> QED
      BY <1>8, <3>1, <3>2 DEF LoopAt, LoopWithin
  <2> QED
    BY <2>0, <2>1, <2>2, <2>3
<1>17. ASSUME NEW j \in 1..n, r[j].kind = "closure"
       PROVE  hs[Number(r, j) - 1].current_loop_ty = k[j - 1]
  <2>1. fs[j].kind = "closure" /\ j \in Nat /\ \A i \in 1..j : r[i].kind = fs[i].kind
    BY <1>2, <1>15, <1>17
  <2>2. Number(r, j) = Number(fs, j)
    BY <2>1, NumberSame
  <2>3. j < m
    <3>1. j # m
      BY <1>3, <2>1 DEF Entered, Loops
    <3>2. ~(j > m)
      <4>1. j > m => j \in (m + 1)..n
        BY <1>2, <1>3
      <4> QED
        BY <1>3, <2>1, <4>1
    <3> QED
      BY <1>3, <3>1, <3>2
  <2>4. k[j - 1] = l[j - 1]
    <3>1. j - 1 \in 0..n /\ j - 1 < m
      BY <1>2, <1>3, <2>3
    <3> QED
      BY <1>12, <3>1
  <2> QED
    BY <1>1, <1>13, <2>1, <2>2, <2>4
<1>18. hs[Len(hs)].current_loop_ty = k[n]
  <2>1. n \in m..n /\ ~(n < m) /\ n \in 0..n
    BY <1>2, <1>3
  <2>2. l[n] = fs[m].loop
    BY <1>3, <2>1
  <2> QED
    BY <1>5, <1>12, <1>13, <2>1, <2>2
<1> QED
  BY <1>10, <1>14, <1>16, <1>17, <1>18 DEF TracksLoops

(* The steps, one kind at a time.                                          *)
LEMMA GoesLoops ==
  ASSUME NEW g, NEW x, Goes(g, x), Len(x) \in Nat, NEW l, TracksLoops(x, gens', l)
  PROVE  TracksLoops(frames', gens', l)
BY LoopsAlike DEF Goes, Alike

(* What the generators of closures keep while the innermost one goes on.   *)
LEMMA GoesKeeps ==
  ASSUME TypeInv, NEW g, NEW x, Goes(g, x)
  PROVE  /\ \A i \in 1..Len(frames) : frames[i].kind = "closure" =>
              /\ gens'[Number(frames, i) - 1] = gens[Number(frames, i) - 1]
              /\ gens'[Number(frames, i)].outer_env = gens[Number(frames, i)].outer_env
         /\ gens'[Len(gens')] = g /\ gens[Len(gens)] = gen /\ Len(gens') = Len(gens)
         /\ Len(gens) \in Nat \ {0}
<1>1. PICK c : c = Len(gens)
  OBVIOUS
<1>2. /\ c \in Nat \ {0} /\ Len(gens') = c /\ gens'[c] = g
      /\ \A k \in 1..c : k # c => gens'[k] = gens[k]
      /\ \A k \in 1..c : gens'[k].outer_env = gens[k].outer_env
  BY <1>1, GoesGens
<1>3. ASSUME NEW i \in 1..Len(frames), frames[i].kind = "closure"
      PROVE  /\ gens'[Number(frames, i) - 1] = gens[Number(frames, i) - 1]
             /\ gens'[Number(frames, i)].outer_env = gens[Number(frames, i)].outer_env
  <2>1. PICK k : k = Number(frames, i)
    OBVIOUS
  <2>2. k \in 2..c
    BY <1>1, <1>3, <2>1, ClosureNumbers
  <2>3. k \in 1..c /\ k - 1 \in 1..c /\ k - 1 # c
    BY <1>2, <2>2
  <2> QED
    BY <1>2, <2>1, <2>3
<1> QED
  BY <1>1, <1>2, <1>3, GenTyped

LEMMA LoopsStay ==
  ASSUME TypeInv, NEW g, NEW x, Goes(g, x), Len(x) = Len(frames),
         \A i \in 1..Len(frames) : /\ x[i].kind = frames[i].kind
                                   /\ x[i].loop = frames[i].loop
                                   /\ x[i].prev_loop_ty = frames[i].prev_loop_ty,
         SameLoop(g), NEW l, TracksLoops(frames, gens, l)
  PROVE  TracksLoops(frames', gens', l)
<1>1. Len(frames) \in Nat
  BY ClosureNumbers
<1>2. TracksLoops(frames, gens', l)
  BY GoesKeeps DEF TracksLoops, SameLoop
<1>3. TracksLoops(x, gens', l)
  BY <1>1, <1>2, LoopsAlike
<1> QED
  BY <1>1, <1>3, GoesLoops

LEMMA LoopsOpen ==
  ASSUME TypeInv, TypeInv', NEW g, NEW f \in Frame, Opening(g, f), "E207" \notin found',
         NEW l, TracksLoops(frames, gens, l)
  PROVE  \E k : TracksLoops(frames', gens', k)
<1>1. PICK n : n = Len(frames)
  OBVIOUS
<1>2. PICK r : r = Append(frames, f)
  OBVIOUS
<1>3. n \in Nat /\ frames \in Seq(Frame)
  BY <1>1, ClosureNumbers DEF TypeInv, Framed
<1>4. Len(r) = n + 1 /\ r[n + 1] = f /\ \A j \in 1..n : r[j] = frames[j]
  BY <1>1, <1>2, <1>3, AppendProperties
<1>5. PICK k : k = [j \in 0..(n + 1) |-> IF j = n + 1 THEN l[n] ELSE l[j]]
  OBVIOUS
<1>6. /\ l \in [0..n -> LoopTy] /\ l[0] = None
      /\ \A j \in 1..n : LoopAt(frames[j], l[j - 1], l[j])
      /\ \A j \in 1..n : frames[j].kind = "closure" =>
           gens[Number(frames, j) - 1].current_loop_ty = l[j - 1]
      /\ gens[Len(gens)].current_loop_ty = l[n]
  BY <1>1 DEF TracksLoops
<1>7. /\ k \in [0..(n + 1) -> LoopTy] /\ k[n + 1] = l[n] /\ \A j \in 0..n : k[j] = l[j]
  <2>1. 0 \in 0..n /\ n \in 0..n /\ \A j \in 0..(n + 1) : j = n + 1 \/ j \in 0..n
    BY <1>3
  <2>2. \A j \in 0..n : j # n + 1 /\ j \in 0..(n + 1)
    BY <1>3
  <2>3. l[n] \in LoopTy /\ n + 1 \in 0..(n + 1)
    BY <1>3, <1>6, <2>1
  <2> QED
    BY <1>5, <1>6, <2>1, <2>2, <2>3
<1>8. /\ f.kind \notin {"function", "closure"} /\ f.loop = None /\ ~Entered(f)
      /\ Goes(g, r) /\ SameLoop(g) /\ (f.kind = "break" => gen.current_loop_ty # None)
  BY <1>2 DEF Opening, Entered
<1>9. gens'[Len(gens')].current_loop_ty = l[n] /\ gen.current_loop_ty = l[n]
  BY <1>6, <1>8, GoesKeeps DEF SameLoop
<1>10. ASSUME NEW j \in 1..(n + 1)
       PROVE  /\ LoopAt(r[j], k[j - 1], k[j])
              /\ r[j].kind = "closure" => gens'[Number(r, j) - 1].current_loop_ty = k[j - 1]
  <2>1. CASE j = n + 1
    <3>1. k[j - 1] = l[n] /\ k[j] = l[n] /\ r[j] = f
      BY <1>3, <1>4, <1>7, <2>1
    <3> QED
      BY <1>8, <1>9, <3>1 DEF LoopAt, LoopWithin
  <2>2. CASE j \in 1..n
    <3>1. j \in Nat /\ j \in 0..n /\ j - 1 \in 0..n /\ \A i \in 1..j : i \in 1..n
      BY <1>3, <2>2
    <3>2. k[j - 1] = l[j - 1] /\ k[j] = l[j] /\ r[j] = frames[j]
      BY <1>4, <1>7, <2>2, <3>1
    <3>3. Number(r, j) = Number(frames, j)
      BY <1>4, <3>1, NumberSame
    <3> QED
      BY <1>1, <1>6, <1>8, <2>2, <3>2, <3>3, GoesKeeps
  <2> QED
    BY <1>3, <2>1, <2>2
<1>11. k[0] = None
  BY <1>3, <1>6, <1>7
<1>12. TracksLoops(r, gens', k)
  BY <1>4, <1>7, <1>9, <1>10, <1>11 DEF TracksLoops
<1>13. Len(r) \in Nat
  BY <1>3, <1>4
<1> QED
  BY <1>8, <1>12, <1>13, GoesLoops

(* What is known of the constructs but the innermost one.                  *)
Shorter(l, m) == [j \in 0..m |-> l[j]]

(* The walk goes back to the construct around the innermost one.           *)
LEMMA LoopsBack ==
  ASSUME TypeInv, Inner, NEW l, TracksLoops(frames, gens, l), NEW n, n = Len(frames),
         NEW hs, Len(hs) = Len(gens), NEW p, p = Pop(frames),
         \A i \in 1..n : frames[i].kind = "closure" =>
           hs[Number(frames, i) - 1] = gens[Number(frames, i) - 1],
         hs[Len(hs)].current_loop_ty = l[n - 1],
         NEW k, k = Shorter(l, n - 1)
  PROVE  TracksLoops(p, hs, k) /\ k[n - 1] = l[n - 1] /\ Len(p) = n - 1 /\ n \in Nat \ {0, 1}
<1>1. /\ n \in Nat \ {0, 1} /\ Len(p) = n - 1 /\ frames \in Seq(Frame)
      /\ \A j \in 1..(n - 1) : p[j] = frames[j]
  <2>1. frames \in Seq(Frame) /\ frames # <<>>
    BY DEF Inner, TypeInv, Framed
  <2> QED
    BY <2>1, Back, PopProperties DEF Inner
<1>2. /\ l \in [0..n -> LoopTy] /\ l[0] = None
      /\ \A j \in 1..n : LoopAt(frames[j], l[j - 1], l[j])
      /\ \A j \in 1..n : frames[j].kind = "closure" =>
           gens[Number(frames, j) - 1].current_loop_ty = l[j - 1]
  BY DEF TracksLoops
<1>3. \A j \in 0..(n - 1) : j \in 0..n
  BY <1>1
<1>4. /\ k \in [0..(n - 1) -> LoopTy] /\ \A j \in 0..(n - 1) : k[j] = l[j]
  BY <1>2, <1>3 DEF Shorter
<1>5. ASSUME NEW j \in 1..(n - 1)
      PROVE  /\ LoopAt(p[j], k[j - 1], k[j])
             /\ p[j].kind = "closure" => hs[Number(p, j) - 1].current_loop_ty = k[j - 1]
  <2>1. /\ j \in Nat /\ j \in 1..n /\ j \in 0..(n - 1) /\ j - 1 \in 0..(n - 1)
        /\ \A i \in 1..j : i \in 1..(n - 1)
    BY <1>1
  <2>2. k[j - 1] = l[j - 1] /\ k[j] = l[j] /\ p[j] = frames[j]
    BY <1>1, <1>4, <2>1
  <2>3. Number(p, j) = Number(frames, j)
    BY <1>1, <2>1, NumberSame
  <2> QED
    BY <1>2, <2>1, <2>2, <2>3
<1>6. k[0] = None /\ k[n - 1] = l[n - 1]
  BY <1>1, <1>2, <1>4
<1> QED
  BY <1>1, <1>4, <1>5, <1>6 DEF TracksLoops

LEMMA LoopsClose ==
  ASSUME TypeInv, Inner, NEW g, NEW x, Goes(g, x), Len(x) = Len(Pop(frames)),
         \A i \in 1..Len(x) : /\ x[i].kind = Pop(frames)[i].kind
                              /\ x[i].loop = Pop(frames)[i].loop
                              /\ x[i].prev_loop_ty = Pop(frames)[i].prev_loop_ty,
         g.current_loop_ty = IF Entered(top) THEN top.prev_loop_ty ELSE gen.current_loop_ty,
         NEW l, TracksLoops(frames, gens, l)
  PROVE  \E k : TracksLoops(frames', gens', k)
<1>1. PICK n : n = Len(frames)
  OBVIOUS
<1>2. PICK p : p = Pop(frames)
  OBVIOUS
<1>3. n \in Nat \ {0, 1} /\ n \in 1..n /\ top = frames[n] /\ Len(p) = n - 1
  BY <1>1, <1>2, Back DEF Inner
<1>4. LoopAt(top, l[n - 1], l[n]) /\ gens[Len(gens)].current_loop_ty = l[n]
  BY <1>1, <1>3 DEF TracksLoops
<1>5. g.current_loop_ty = l[n - 1]
  BY <1>4, GenTyped DEF LoopAt, LoopWithin, Inner
<1>6. /\ \A i \in 1..n : frames[i].kind = "closure" =>
           gens'[Number(frames, i) - 1] = gens[Number(frames, i) - 1]
      /\ gens'[Len(gens')] = g /\ Len(gens') = Len(gens)
  BY <1>1, GoesKeeps
<1>7. PICK k : k = Shorter(l, n - 1)
  OBVIOUS
<1>8. TracksLoops(p, gens', k)
  <2>1. PICK hs : hs = gens'
    OBVIOUS
  <2>2. /\ TypeInv /\ Inner /\ TracksLoops(frames, gens, l) /\ Len(hs) = Len(gens)
        /\ \A i \in 1..n : frames[i].kind = "closure" =>
             hs[Number(frames, i) - 1] = gens[Number(frames, i) - 1]
        /\ hs[Len(hs)].current_loop_ty = l[n - 1]
    BY <1>5, <1>6, <2>1
  <2>3. TracksLoops(p, hs, k)
    BY ONLY <1>1, <1>2, <1>7, <2>2, LoopsBack
  <2> QED
    BY <2>1, <2>3
<1>9. Len(p) \in Nat /\ Len(x) = Len(p)
  BY <1>2, <1>3
<1>10. TracksLoops(x, gens', k)
  BY <1>2, <1>8, <1>9, LoopsAlike
<1> QED
  BY <1>9, <1>10, GoesLoops

LEMMA LoopsBreak ==
  ASSUME TypeInv, NEW g, NEW fs, NEW ty \in LoopTypes, Breaking(g, fs, ty),
         NEW l, TracksLoops(frames, gens, l)
  PROVE  \E k : TracksLoops(frames', gens', k)
<1>1. PICK n : n = Len(frames)
  OBVIOUS
<1>2. /\ Inner /\ Goes(g, SetLoop(fs, ty))
      /\ \/ top.kind = "break" /\ fs = Pop(frames)
         \/ Entered(top) /\ fs = frames
      /\ g.current_loop_ty = SetLoopType(gen.current_loop_ty, ty)
  BY DEF Breaking
<1>3. n \in Nat \ {0, 1} /\ n \in 1..n /\ top = frames[n] /\ Len(Pop(frames)) = n - 1
  BY <1>1, <1>2, Back DEF Inner
<1>4. /\ LoopAt(top, l[n - 1], l[n]) /\ gen.current_loop_ty = l[n]
      /\ gens[Len(gens)] = gen
  BY <1>1, <1>3, GenTyped DEF TracksLoops
<1>5. /\ \A i \in 1..n : frames[i].kind = "closure" =>
           gens'[Number(frames, i) - 1] = gens[Number(frames, i) - 1]
      /\ gens'[Len(gens')] = g /\ Len(gens') = Len(gens) /\ Len(gens') \in Nat \ {0}
  BY <1>1, <1>2, GoesKeeps
<1>6. PICK hs : hs = gens'
  OBVIOUS
<1>7. PICK r : r = SetLoop(fs, ty)
  OBVIOUS
<1>8. CASE top.kind = "break" /\ fs = Pop(frames)
  <2>1. l[n] = l[n - 1] /\ l[n - 1] # None
    BY <1>4, <1>8 DEF LoopAt, LoopWithin, Entered, Loops
  <2>2. PICK k : k = Shorter(l, n - 1)
    OBVIOUS
  <2>3. PICK gs : gs = gens
    OBVIOUS
  <2>4. TracksLoops(fs, gs, k) /\ k[n - 1] = l[n - 1] /\ Len(fs) = n - 1
    <3>1. /\ TypeInv /\ Inner /\ TracksLoops(frames, gens, l) /\ Len(gs) = Len(gens)
          /\ \A i \in 1..n : frames[i].kind = "closure" =>
               gs[Number(frames, i) - 1] = gens[Number(frames, i) - 1]
          /\ gs[Len(gs)].current_loop_ty = l[n - 1]
      BY <1>2, <1>4, <2>1, <2>3
    <3>2. fs = Pop(frames) /\ n = Len(frames) /\ k = Shorter(l, n - 1)
      BY <1>1, <1>8, <2>2
    <3>3. TracksLoops(fs, gs, k)
      BY ONLY <3>1, <3>2, LoopsBack
    <3>4. k[n - 1] = l[n - 1]
      BY <1>3, <3>2 DEF Shorter
    <3> QED
      BY <1>3, <3>2, <3>3, <3>4
  <2>5. /\ Framed(fs) /\ fs # <<>> /\ \A j \in 1..(n - 1) : fs[j] = frames[j]
    <3>1. frames \in Seq(Frame) /\ frames # <<>>
      BY <1>2 DEF Inner, TypeInv, Framed
    <3>2. Awaiting(fs)
      BY <1>2, <1>8, Back DEF Inner
    <3>3. \A j \in 1..(n - 1) : fs[j] = frames[j]
      BY ONLY <1>1, <1>8, <3>1, PopProperties
    <3> QED
      BY <3>2, <3>3 DEF Awaiting
  <2>6. \A i \in 1..(n - 1) : fs[i].kind = "closure" =>
          hs[Number(fs, i) - 1].current_loop_ty = gs[Number(fs, i) - 1].current_loop_ty
    <3> SUFFICES ASSUME NEW i \in 1..(n - 1), fs[i].kind = "closure"
                 PROVE  hs[Number(fs, i) - 1].current_loop_ty = gs[Number(fs, i) - 1].current_loop_ty
      OBVIOUS
    <3>1. i \in Nat /\ i \in 1..n /\ \A j \in 1..i : j \in 1..(n - 1)
      BY <1>3
    <3>2. Number(fs, i) = Number(frames, i)
      BY <2>5, <3>1, NumberSame
    <3> QED
      BY <1>5, <1>6, <2>3, <2>5, <3>1, <3>2
  <2>7. hs[Len(hs)].current_loop_ty = SetLoopType(gs[Len(gs)].current_loop_ty, ty)
    BY <1>2, <1>4, <1>5, <1>6, <2>3
  <2>8. \E m : TracksLoops(r, hs, m)
    <3>1. k[Len(fs)] # None /\ Len(hs) \in Nat \ {0}
      BY <1>5, <1>6, <2>1, <2>4
    <3>2. \A i \in 1..Len(fs) : fs[i].kind = "closure" =>
          hs[Number(fs, i) - 1].current_loop_ty = gs[Number(fs, i) - 1].current_loop_ty
      BY <2>4, <2>6
    <3>3. TracksLoops(fs, gs, k) /\ Framed(fs) /\ fs # <<>> /\ ty \in LoopTypes
      BY <2>4, <2>5
    <3> QED
      BY ONLY <1>7, <2>7, <3>1, <3>2, <3>3, LoopsSet
  <2>9. Len(r) \in Nat
    <3>1. Framed(r)
      BY <1>7, <2>5, SetLoopTyped
    <3> QED
      BY <3>1 DEF Framed
  <2> QED
    BY <1>2, <1>6, <1>7, <2>8, <2>9, GoesLoops
<1>9. CASE Entered(top) /\ fs = frames
  <2>1. PICK gs : gs = gens
    OBVIOUS
  <2>2. Framed(fs) /\ fs # <<>> /\ Len(fs) = n
    BY <1>1, <1>2, <1>9 DEF Inner, TypeInv
  <2>3. l[n] # None
    BY <1>2, <1>4, <1>9 DEF LoopAt, LoopWithin, Inner, Entered
  <2>4. \E m : TracksLoops(r, hs, m)
    <3>1. l[Len(fs)] # None /\ Len(hs) \in Nat \ {0}
      BY <1>5, <1>6, <2>2, <2>3
    <3>2. \A i \in 1..Len(fs) : fs[i].kind = "closure" =>
          hs[Number(fs, i) - 1].current_loop_ty = gs[Number(fs, i) - 1].current_loop_ty
      BY <1>5, <1>6, <1>9, <2>1, <2>2
    <3>3. TracksLoops(fs, gs, l) /\ Framed(fs) /\ fs # <<>> /\ ty \in LoopTypes
      BY <1>9, <2>1, <2>2
    <3>4. hs[Len(hs)].current_loop_ty = SetLoopType(gs[Len(gs)].current_loop_ty, ty)
      BY <1>2, <1>4, <1>5, <1>6, <2>1
    <3> QED
      BY ONLY <1>7, <3>1, <3>2, <3>3, <3>4, LoopsSet
  <2>5. Len(r) \in Nat
    <3>1. Framed(r)
      BY <1>7, <2>2, SetLoopTyped
    <3> QED
      BY <3>1 DEF Framed
  <2> QED
    BY <1>2, <1>6, <1>7, <2>4, <2>5, GoesLoops
<1> QED
  BY <1>2, <1>8, <1>9

LEMMA LoopsEnter ==
  ASSUME TypeInv, NEW g, NEW f \in Frame, Entering(g, f),
         NEW l, TracksLoops(frames, gens, l)
  PROVE  \E k : TracksLoops(frames', gens', k)
<1>1. PICK n : n = Len(frames)
  OBVIOUS
<1>2. PICK r : r = Replaced(frames, n, f)
  OBVIOUS
<1>3. /\ Inner /\ top.kind \in Loops /\ ~Entered(top) /\ Goes(g, r)
      /\ f.kind = top.kind /\ f.loop = Any /\ f.prev_loop_ty = gen.current_loop_ty
      /\ g.current_loop_ty = Any
  BY <1>1, <1>2 DEF Entering
<1>4. n \in Nat \ {0, 1} /\ n \in 1..n /\ top = frames[n]
  BY <1>1, <1>3, Back DEF Inner
<1>5. frames \in Seq(Frame) /\ DOMAIN frames = 1..n
  BY <1>1, LenProperties DEF TypeInv, Framed
<1>6. /\ Len(r) = n /\ r[n] = f /\ \A j \in 1..n : j # n => r[j] = frames[j]
  <2>1. r = [frames EXCEPT ![n] = f]
    BY <1>2 DEF Replaced
  <2>2. Len(r) = Len(frames)
    BY <1>1, <1>4, <1>5, <2>1, ExceptSeq
  <2> QED
    BY <1>1, <1>4, <1>5, <2>1, <2>2
<1>7. /\ l \in [0..n -> LoopTy] /\ l[0] = None
      /\ \A j \in 1..n : LoopAt(frames[j], l[j - 1], l[j])
      /\ \A j \in 1..n : frames[j].kind = "closure" =>
           gens[Number(frames, j) - 1].current_loop_ty = l[j - 1]
      /\ gen.current_loop_ty = l[n]
  BY <1>1, GenTyped DEF TracksLoops
<1>8. l[n] = l[n - 1] /\ f.kind \notin {"function", "closure", "break"} /\ Entered(f)
      /\ f.kind \in Loops
  BY <1>3, <1>4, <1>7, SpecialValues DEF LoopAt, LoopWithin, Entered, Inner, Loops
<1>9. PICK k : k = [l EXCEPT ![n] = Any]
  OBVIOUS
<1>10. /\ k \in [0..n -> LoopTy] /\ k[n] = Any /\ \A j \in 0..(n - 1) : k[j] = l[j]
  <2>1. n \in 0..n /\ Any \in LoopTy /\ \A j \in 0..(n - 1) : j \in 0..n /\ j # n
    BY <1>4 DEF LoopTy
  <2> QED
    BY <1>7, <1>9, <2>1
<1>11. /\ \A i \in 1..n : frames[i].kind = "closure" =>
            gens'[Number(frames, i) - 1] = gens[Number(frames, i) - 1]
       /\ gens'[Len(gens')] = g
  BY <1>1, <1>3, GoesKeeps
<1>12. \A j \in 1..n : r[j].kind = frames[j].kind
  BY <1>3, <1>4, <1>6
<1>13. ASSUME NEW j \in 1..n
       PROVE  /\ LoopAt(r[j], k[j - 1], k[j])
              /\ r[j].kind = "closure" => gens'[Number(r, j) - 1].current_loop_ty = k[j - 1]
  <2>0. j - 1 \in 0..(n - 1) /\ j \in Nat /\ k[j - 1] = l[j - 1]
    BY <1>4, <1>10
  <2>1. CASE j = n
    BY <1>3, <1>6, <1>7, <1>8, <1>10, <2>0, <2>1 DEF LoopAt, LoopWithin, Loops
  <2>2. CASE j # n
    <3>1. j \in 0..(n - 1) /\ \A i \in 1..j : i \in 1..n
      BY <1>4, <2>2
    <3>2. Number(r, j) = Number(frames, j)
      BY <1>12, <2>0, <3>1, NumberSame
    <3> QED
      BY <1>6, <1>7, <1>10, <1>11, <2>0, <2>2, <3>1, <3>2
  <2> QED
    BY <2>1, <2>2
<1>14. k[0] = None
  BY <1>4, <1>7, <1>10
<1>15. TracksLoops(r, gens', k) /\ Len(r) \in Nat
  BY <1>3, <1>4, <1>6, <1>10, <1>11, <1>13, <1>14 DEF TracksLoops
<1> QED
  BY <1>3, <1>15, GoesLoops

(* A definition changes the scope of one construct, and nothing else.      *)
DefinedIn(p, x, n, v) ==
  /\ Len(x) = Len(p) /\ Awaiting(p)
  /\ Scoped(p) \in 1..Len(p) /\ x[Scoped(p)].kind = p[Scoped(p)].kind
  /\ x[Scoped(p)].scope = [p[Scoped(p)].scope EXCEPT ![n] = v]
  /\ \A j \in 1..Len(p) : j # Scoped(p) => x[j] = p[j]
  /\ \A i \in 1..Len(x) : /\ x[i].kind = p[i].kind /\ x[i].loop = p[i].loop
                          /\ x[i].prev_loop_ty = p[i].prev_loop_ty

LEMMA DefinesIn ==
  ASSUME TypeInv, NEW g, NEW n \in Names, NEW v \in Var, Defining(g, n, v),
         NEW p, p = Pop(frames), NEW x, x = Declare(p, n, v)
  PROVE  DefinedIn(p, x, n, v)
<1>1. Awaiting(p)
  BY Back DEF Defining, Inner
<1>2. PICK m : m = Scoped(p)
  OBVIOUS
<1>3. /\ Len(x) = Len(p) /\ m \in 1..Len(p)
      /\ x[m] = [p[m] EXCEPT !.scope = [@ EXCEPT ![n] = v]]
      /\ \A j \in 1..Len(p) : j # m => x[j] = p[j]
  BY ONLY <1>1, <1>2, n \in Names, v \in Var, x = Declare(p, n, v), DeclareTyped
<1>4. p[m] \in Frame
  BY <1>1, <1>3, ElementOfSeq DEF Awaiting, Framed
<1>5. /\ x[m].kind = p[m].kind /\ x[m].loop = p[m].loop
      /\ x[m].prev_loop_ty = p[m].prev_loop_ty
      /\ x[m].scope = [p[m].scope EXCEPT ![n] = v]
  BY <1>3, <1>4 DEF Frame
<1>6. \A i \in 1..Len(x) : /\ x[i].kind = p[i].kind /\ x[i].loop = p[i].loop
                           /\ x[i].prev_loop_ty = p[i].prev_loop_ty
  <2>1. \A i \in 1..Len(x) : i = m \/ x[i] = p[i]
    BY ONLY <1>3
  <2> QED
    BY ONLY <1>5, <2>1
<1> QED
  BY ONLY <1>1, <1>2, <1>3, <1>5, <1>6 DEF DefinedIn

LEMMA LoopsStart ==
  ASSUME TypeInv, NEW g, NEW e, Starting(g, e), NEW l, TracksLoops(frames, gens, l)
  PROVE  \E k : TracksLoops(frames', gens', k)
<1>1. frames = <<>> /\ Len(gens) = 1 /\ gens' = <<g>> /\ SameLoop(g)
  BY DEF Starting
<1>2. Len(frames) = 0 /\ Len(gens') = 1 /\ gens'[1] = g /\ gens[1] = gen
  BY <1>1, OnlyGenerator
<1>3. l[0] = None /\ gen.current_loop_ty = l[0]
  BY <1>1, <1>2 DEF TracksLoops
<1>4. g.current_loop_ty = None
  BY <1>1, <1>3 DEF SameLoop
<1>5. None \in LoopTy
  BY DEF LoopTy
<1>6. CASE frames' = <<>>
  <2>1. PICK k : k = [j \in 0..0 |-> None]
    OBVIOUS
  <2>2. Len(frames') = 0 /\ k \in [0..0 -> LoopTy] /\ k[0] = None
    BY <1>5, <1>6, <2>1
  <2> QED
    BY <1>2, <1>4, <2>2 DEF TracksLoops
<1>7. CASE Len(frames') = 1 /\ frames'[1].kind = "function"
  <2>1. PICK k : k = [j \in 0..1 |-> None]
    OBVIOUS
  <2>2. k \in [0..1 -> LoopTy] /\ k[0] = None /\ k[1] = None
    BY <1>5, <2>1
  <2>3. LoopAt(frames'[1], k[0], k[1])
    BY <1>7, <2>2 DEF LoopAt, LoopWithin, Entered, Loops
  <2>4. \A i \in 1..1 : i = 1 /\ i - 1 = 0
    OBVIOUS
  <2> QED
    BY <1>2, <1>4, <1>7, <2>2, <2>3, <2>4 DEF TracksLoops
<1> QED
  BY <1>6, <1>7 DEF Starting

LEMMA LoopsEmpty ==
  ASSUME frames' = <<>>, NEW g, gens'[Len(gens')] = g, g.current_loop_ty = None
  PROVE  \E k : TracksLoops(frames', gens', k)
<1>1. PICK k : k = [j \in 0..0 |-> None]
  OBVIOUS
<1>2. Len(frames') = 0 /\ k \in [0..0 -> LoopTy] /\ k[0] = None
  BY <1>1 DEF LoopTy
<1> QED
  BY <1>2 DEF TracksLoops

LEMMA LoopsEnd ==
  ASSUME TypeInv, TypeInv', Ends, NEW l, TracksLoops(frames, gens, l)
  PROVE  \E k : TracksLoops(frames', gens', k)
<1>1. PICK g : /\ frames # <<>> /\ Len(frames) = 1 /\ top.kind = "function"
               /\ Goes(g, <<>>) /\ SameLoop(g)
  BY DEF Ends
<1>2. top = frames[1] /\ gens[Len(gens)] = gen
  BY <1>1, TopTyped, GenTyped
<1>3. l[1] = None /\ gen.current_loop_ty = l[1]
  BY <1>1, <1>2 DEF TracksLoops, LoopAt, LoopWithin
<1>4. gens'[Len(gens')] = g /\ g.current_loop_ty = None
  BY <1>1, <1>3, GoesKeeps DEF SameLoop
<1>5. frames' = <<>>
  <2>1. Len(frames') = 0
    BY <1>1 DEF Goes, Alike
  <2> QED
    BY <2>1, EmptySeq DEF TypeInv, Framed
<1> QED
  BY <1>4, <1>5, LoopsEmpty

LEMMA LoopsSwitch ==
  ASSUME TypeInv, Switches
  PROVE  \E k : TracksLoops(frames', gens', k)
<1>1. PICK g : /\ frames = <<>> /\ g \in Generator /\ gens' = InGen(g) /\ frames' = <<>>
               /\ g.current_loop_ty = None
  BY DEF Switches
<1>2. Len(gens) = 1 /\ gens \in Seq(Generator) /\ DOMAIN gens = 1..1
  BY <1>1, OnlyGenerator, LenProperties DEF TypeInv
<1>3. Len(gens') = 1 /\ gens'[1] = g
  <2>1. gens' = [gens EXCEPT ![1] = g]
    BY <1>1, <1>2 DEF InGen
  <2>2. 1 \in 1..Len(gens)
    BY <1>2
  <2>3. Len(gens') = Len(gens)
    BY <1>1, <1>2, <2>1, <2>2, ExceptSeq
  <2> QED
    BY <1>2, <2>1, <2>3
<1> QED
  BY <1>1, <1>3, LoopsEmpty

(* What the generators of closures keep when a closure literal begins.     *)
OpeningKept(g, h, f, n, c, r) ==
  /\ n \in Nat \ {0} /\ c \in Nat \ {0} /\ frames' = r /\ Len(r) = n + 1
  /\ r[n + 1] = f /\ \A j \in 1..n : r[j] = frames[j]
  /\ Len(gens') = c + 1 /\ gens'[c + 1] = h /\ gens'[c] = g
  /\ \A j \in 1..n : Number(r, j) = Number(frames, j)
  /\ Number(r, n + 1) = c + 1
  /\ \A i \in 1..n : frames[i].kind = "closure" =>
       /\ Number(frames, i) \in 2..c
       /\ gens'[Number(frames, i) - 1] = gens[Number(frames, i) - 1]
       /\ gens'[Number(frames, i)].outer_env = gens[Number(frames, i)].outer_env
       /\ gens'[Number(frames, i)].captured = gens[Number(frames, i)].captured

LEMMA OpeningKeeps ==
  ASSUME TypeInv, NEW g, NEW h, NEW f \in Frame, OpeningClosure(g, h, f),
         NEW n, n = Len(frames), NEW c, c = Len(gens), NEW r, r = Append(frames, f)
  PROVE  OpeningKept(g, h, f, n, c, r)
<1>1. /\ n \in Nat \ {0} /\ frames \in Seq(Frame)
  <2>1. frames # <<>>
    BY DEF OpeningClosure
  <2> QED
    BY <2>1, TopTyped
<1>2. /\ gens \in Seq(Generator) /\ c \in Nat \ {0} /\ c \in 1..c /\ DOMAIN gens = 1..c
      /\ gen = gens[c]
  BY GenTyped, LenProperties DEF TypeInv
<1>3. Len(r) = n + 1 /\ r[n + 1] = f /\ \A j \in 1..n : r[j] = frames[j]
  BY <1>1, AppendProperties
<1>4. PICK gs : gs = [gens EXCEPT ![c] = g]
  OBVIOUS
<1>5. /\ gens' = Append(gs, h) /\ g \in Generator /\ h \in Generator
      /\ g.outer_env = gen.outer_env /\ f.kind = "closure" /\ frames' = r
      /\ g.captured = gen.captured
  BY <1>4 DEF OpeningClosure, InGen
<1>6. /\ gs \in Seq(Generator) /\ Len(gs) = c /\ gs[c] = g
      /\ \A k \in 1..c : k # c => gs[k] = gens[k]
      /\ \A k \in 1..c : /\ gs[k].outer_env = gens[k].outer_env
                       /\ gs[k].captured = gens[k].captured
  <2>1. gs \in Seq(Generator) /\ Len(gs) = c
    BY <1>2, <1>4, <1>5, ExceptSeq
  <2> QED
    BY <1>2, <1>4, <1>5, <2>1
<1>7. /\ Len(gens') = c + 1 /\ gens'[c + 1] = h /\ \A k \in 1..c : gens'[k] = gs[k]
  BY <1>5, <1>6, AppendProperties
<1>8. ASSUME NEW j \in 1..n PROVE Number(r, j) = Number(frames, j)
  <2>1. j \in Nat /\ \A i \in 1..j : r[i].kind = frames[i].kind
    BY <1>1, <1>3
  <2> QED
    BY <2>1, NumberSame
<1>9. Number(r, n + 1) = c + 1
  <2>1. n + 1 \in Nat \ {0} /\ (n + 1) - 1 = n /\ n \in 1..n
    BY <1>1
  <2>2. Number(r, n + 1) = Number(r, n) + 1
    BY <1>3, <1>5, <2>1, NumberNext
  <2>3. Number(frames, n) = c
    BY ClosureNumbers
  <2> QED
    BY <1>8, <2>1, <2>2, <2>3
<1>10. ASSUME NEW i \in 1..n, frames[i].kind = "closure"
       PROVE  /\ Number(frames, i) \in 2..c
              /\ gens'[Number(frames, i) - 1] = gens[Number(frames, i) - 1]
              /\ gens'[Number(frames, i)].outer_env = gens[Number(frames, i)].outer_env
              /\ gens'[Number(frames, i)].captured = gens[Number(frames, i)].captured
  <2>1. PICK k : k = Number(frames, i)
    OBVIOUS
  <2>2. k \in 2..c
    BY <1>10, <2>1, ClosureNumbers
  <2>3. k \in 1..c /\ k - 1 \in 1..c /\ k - 1 # c
    BY <1>2, <2>2
  <2> QED
    BY <1>6, <1>7, <2>1, <2>2, <2>3
<1> QED
  BY <1>1, <1>2, <1>3, <1>5, <1>6, <1>7, <1>8, <1>9, <1>10 DEF OpeningKept

LEMMA LoopsOpenClosure ==
  ASSUME TypeInv, NEW g, NEW h, NEW f \in Frame, OpeningClosure(g, h, f),
         NEW l, TracksLoops(frames, gens, l)
  PROVE  \E k : TracksLoops(frames', gens', k)
<1>1. PICK n : n = Len(frames)
  OBVIOUS
<1>2. PICK c : c = Len(gens)
  OBVIOUS
<1>3. PICK r : r = Append(frames, f)
  OBVIOUS
<1>4. /\ n \in Nat \ {0} /\ c \in Nat \ {0} /\ frames' = r /\ Len(r) = n + 1
      /\ r[n + 1] = f /\ \A j \in 1..n : r[j] = frames[j]
      /\ Len(gens') = c + 1 /\ gens'[c + 1] = h /\ gens'[c] = g
      /\ \A j \in 1..n : Number(r, j) = Number(frames, j)
      /\ Number(r, n + 1) = c + 1
      /\ \A i \in 1..n : frames[i].kind = "closure" =>
           gens'[Number(frames, i) - 1] = gens[Number(frames, i) - 1]
  <2>1. OpeningKept(g, h, f, n, c, r)
    BY <1>1, <1>2, <1>3, OpeningKeeps
  <2> QED
    BY <2>1 DEF OpeningKept
<1>5. /\ l \in [0..n -> LoopTy] /\ l[0] = None
      /\ \A j \in 1..n : LoopAt(frames[j], l[j - 1], l[j])
      /\ \A j \in 1..n : frames[j].kind = "closure" =>
           gens[Number(frames, j) - 1].current_loop_ty = l[j - 1]
      /\ gen.current_loop_ty = l[n]
  BY <1>1, GenTyped DEF TracksLoops
<1>6. PICK k : k = [j \in 0..(n + 1) |-> IF j = n + 1 THEN None ELSE l[j]]
  OBVIOUS
<1>7. /\ k \in [0..(n + 1) -> LoopTy] /\ k[n + 1] = None /\ \A j \in 0..n : k[j] = l[j]
  <2>1. \A j \in 0..(n + 1) : j = n + 1 \/ j \in 0..n
    BY <1>4
  <2>2. \A j \in 0..n : j # n + 1 /\ j \in 0..(n + 1)
    BY <1>4
  <2>3. None \in LoopTy /\ n + 1 \in 0..(n + 1)
    BY <1>4 DEF LoopTy
  <2> QED
    BY <1>5, <1>6, <2>1, <2>2, <2>3
<1>8. /\ f.kind = "closure" /\ f.loop = None /\ g.current_loop_ty = gen.current_loop_ty
      /\ h.current_loop_ty = None
  BY DEF OpeningClosure, SameLoop
<1>9. ASSUME NEW j \in 1..(n + 1)
      PROVE  /\ LoopAt(r[j], k[j - 1], k[j])
             /\ r[j].kind = "closure" => gens'[Number(r, j) - 1].current_loop_ty = k[j - 1]
  <2>1. CASE j = n + 1
    <3>1. k[j - 1] = l[n] /\ k[j] = None /\ r[j] = f
      BY <1>4, <1>7, <2>1
    <3>2. gens'[Number(r, j) - 1] = g
      BY <1>4, <2>1
    <3> QED
      BY <1>5, <1>8, <3>1, <3>2 DEF LoopAt, LoopWithin, Entered, Loops
  <2>2. CASE j \in 1..n
    <3>1. j \in 0..n /\ j - 1 \in 0..n
      BY <1>4, <2>2
    <3>2. k[j - 1] = l[j - 1] /\ k[j] = l[j] /\ r[j] = frames[j]
      BY <1>4, <1>7, <2>2, <3>1
    <3> QED
      BY <1>4, <1>5, <2>2, <3>2
  <2> QED
    BY <1>4, <2>1, <2>2
<1>10. k[0] = None
  BY <1>4, <1>5, <1>7
<1>11. TracksLoops(r, gens', k)
  BY <1>4, <1>7, <1>8, <1>9, <1>10 DEF TracksLoops
<1> QED
  BY <1>4, <1>11

(* What the generators of closures keep when a closure literal ends.       *)
LeavingKept(g, outer, n, c, p) ==
  /\ n \in Nat \ {0, 1} /\ c \in Nat \ {0, 1} /\ Len(p) = n - 1
  /\ \A j \in 1..(n - 1) : p[j] = frames[j]
  /\ top = frames[n] /\ top.kind = "closure" /\ Number(frames, n) = c
  /\ outer = gens[c - 1] /\ gen = gens[c]
  /\ Len(gens') = c - 1 /\ gens'[c - 1] = g
  /\ \A j \in 1..(n - 1) : Number(p, j) = Number(frames, j)
  /\ \A i \in 1..(n - 1) : frames[i].kind = "closure" =>
       /\ Number(frames, i) \in 2..(c - 1)
       /\ gens'[Number(frames, i) - 1] = gens[Number(frames, i) - 1]
       /\ gens'[Number(frames, i)].outer_env = gens[Number(frames, i)].outer_env
       /\ gens'[Number(frames, i)].captured = gens[Number(frames, i)].captured

LEMMA LeavingKeeps ==
  ASSUME TypeInv, NEW g, NEW outer, LeavingClosure(g, outer),
         NEW n, n = Len(frames), NEW c, c = Len(gens), NEW p, p = Pop(frames)
  PROVE  LeavingKept(g, outer, n, c, p)
<1>1. /\ frames # <<>> /\ top.kind = "closure" /\ c > 1 /\ outer = gens[c - 1]
      /\ g \in Generator /\ gens' = Append(SubSeq(gens, 1, c - 2), g)
      /\ g.outer_env = outer.outer_env /\ g.captured = outer.captured
  BY DEF LeavingClosure
<1>2. frames \in Seq(Frame) /\ top = frames[n] /\ n \in Nat \ {0} /\ n \in 1..n /\ Framed(frames)
  BY <1>1, TopTyped
<1>3. n # 1
  BY <1>1, <1>2 DEF Framed
<1>4. Len(p) = n - 1 /\ \A j \in 1..(n - 1) : p[j] = frames[j]
  BY <1>1, <1>2, PopProperties
<1>5. gens \in Seq(Generator) /\ c \in Nat \ {0, 1} /\ gen = gens[c]
  BY <1>1, GenTyped DEF TypeInv
<1>6. Number(frames, n) = c
  BY ClosureNumbers
<1>7. PICK gs : gs = SubSeq(gens, 1, c - 2)
  OBVIOUS
<1>8. /\ gs \in Seq(Generator) /\ Len(gs) = c - 2
      /\ \A k \in 1..(c - 2) : gs[k] = gens[k]
  <2>1. PICK m : m = c - 2
    OBVIOUS
  <2>2. m \in Nat /\ m <= Len(gens) /\ 1 <= Len(gens) + 1
    BY <1>5, <2>1
  <2>3. \A k \in 1..m : gens[k] \in Generator
    BY <1>5, <2>1, ElementOfSeq
  <2>4. SubSeq(gens, 1, m) \in Seq(Generator)
    BY <2>2, <2>3, SubSeqProperties
  <2>5. /\ Len(SubSeq(gens, 1, m)) = m
        /\ \A i \in 1..m : SubSeq(gens, 1, m)[i] = gens[i]
    BY <1>5, <2>2, SubSeqProperties
  <2> QED
    BY <1>7, <2>1, <2>4, <2>5
<1>9. /\ Len(gens') = c - 1 /\ gens'[c - 1] = g
      /\ \A k \in 1..(c - 2) : gens'[k] = gens[k]
  <2>1. /\ Len(gens') = Len(gs) + 1 /\ gens'[Len(gs) + 1] = g
        /\ \A k \in 1..Len(gs) : gens'[k] = gs[k]
    BY <1>1, <1>7, <1>8, AppendProperties
  <2>2. Len(gs) + 1 = c - 1
    BY <1>5, <1>8
  <2> QED
    BY <1>8, <2>1, <2>2
<1>10. ASSUME NEW j \in 1..(n - 1) PROVE Number(p, j) = Number(frames, j)
  <2>1. j \in Nat /\ \A i \in 1..j : p[i].kind = frames[i].kind
    BY <1>2, <1>4
  <2> QED
    BY <2>1, NumberSame
<1>11. ASSUME NEW i \in 1..(n - 1), frames[i].kind = "closure"
       PROVE  /\ Number(frames, i) \in 2..(c - 1)
              /\ gens'[Number(frames, i) - 1] = gens[Number(frames, i) - 1]
              /\ gens'[Number(frames, i)].outer_env = gens[Number(frames, i)].outer_env
              /\ gens'[Number(frames, i)].captured = gens[Number(frames, i)].captured
  <2>1. PICK k : k = Number(frames, i)
    OBVIOUS
  <2>2. k \in 2..(c - 1)
    <3>1. n > 0 /\ frames[n].kind = "closure"
      BY <1>1, <1>2
    <3> QED
      BY <1>11, <2>1, <3>1, ClosureNumbers
  <2>3. k - 1 \in 1..(c - 2) /\ (k \in 1..(c - 2) \/ k = c - 1)
    BY <1>5, <2>2
  <2>4. gens'[k].outer_env = gens[k].outer_env /\ gens'[k].captured = gens[k].captured
    BY <1>1, <1>9, <2>3
  <2> QED
    BY <1>9, <2>1, <2>2, <2>3, <2>4
<1> QED
  BY <1>1, <1>2, <1>3, <1>4, <1>5, <1>6, <1>9, <1>10, <1>11 DEF LeavingKept

LEMMA LoopsLeaveClosure ==
  ASSUME TypeInv, NEW g, NEW outer, LeavingClosure(g, outer),
         NEW l, TracksLoops(frames, gens, l)
  PROVE  \E k : TracksLoops(frames', gens', k)
<1>1. PICK n : n = Len(frames)
  OBVIOUS
<1>2. PICK c : c = Len(gens)
  OBVIOUS
<1>3. PICK p : p = Pop(frames)
  OBVIOUS
<1>4. /\ n \in Nat \ {0, 1} /\ c \in Nat \ {0, 1} /\ Len(p) = n - 1
      /\ \A j \in 1..(n - 1) : p[j] = frames[j]
      /\ top = frames[n] /\ top.kind = "closure" /\ Number(frames, n) = c
      /\ outer = gens[c - 1] /\ Len(gens') = c - 1 /\ gens'[c - 1] = g
      /\ \A j \in 1..(n - 1) : Number(p, j) = Number(frames, j)
      /\ \A i \in 1..(n - 1) : frames[i].kind = "closure" =>
           gens'[Number(frames, i) - 1] = gens[Number(frames, i) - 1]
  <2>1. LeavingKept(g, outer, n, c, p)
    BY <1>1, <1>2, <1>3, LeavingKeeps
  <2> QED
    BY <2>1 DEF LeavingKept
<1>5. /\ l \in [0..n -> LoopTy] /\ l[0] = None
      /\ \A j \in 1..n : LoopAt(frames[j], l[j - 1], l[j])
      /\ \A j \in 1..n : frames[j].kind = "closure" =>
           gens[Number(frames, j) - 1].current_loop_ty = l[j - 1]
  BY <1>1 DEF TracksLoops
<1>6. g.current_loop_ty = l[n - 1]
  <2>1. n \in 1..n
    BY <1>4
  <2> QED
    BY <1>4, <1>5, <2>1 DEF LeavingClosure
<1>7. PICK k : k = [j \in 0..(n - 1) |-> l[j]]
  OBVIOUS
<1>8. k \in [0..(n - 1) -> LoopTy] /\ \A j \in 0..(n - 1) : k[j] = l[j]
  <2>1. \A j \in 0..(n - 1) : j \in 0..n
    BY <1>4
  <2> QED
    BY <1>5, <1>7, <2>1
<1>9. ASSUME NEW j \in 1..(n - 1)
      PROVE  /\ LoopAt(p[j], k[j - 1], k[j])
             /\ p[j].kind = "closure" => gens'[Number(p, j) - 1].current_loop_ty = k[j - 1]
  <2>1. j \in 1..n /\ j \in 0..(n - 1) /\ j - 1 \in 0..(n - 1)
    BY <1>4
  <2>2. k[j - 1] = l[j - 1] /\ k[j] = l[j] /\ p[j] = frames[j]
    BY <1>4, <1>8, <2>1
  <2> QED
    BY <1>4, <1>5, <2>1, <2>2
<1>10. k[0] = None /\ k[n - 1] = l[n - 1]
  BY <1>4, <1>5, <1>8
<1>11. TracksLoops(p, gens', k) /\ Len(p) \in Nat
  BY <1>4, <1>6, <1>8, <1>9, <1>10 DEF TracksLoops
<1>12. TracksLoops(frames', gens', k)
  <2>1. Alike(p, frames')
    BY <1>3 DEF LeavingClosure
  <2> QED
    BY <1>11, <2>1, LoopsAlike DEF Alike
<1> QED
  BY <1>12

LEMMA LoopsPanic ==
  ASSUME NEW over, Crash(over), NEW l, TracksLoops(frames, gens, l)
  PROVE  TracksLoops(frames', gens', l)
BY DEF Crash

LEMMA LoopStep ==
  ASSUME TypeInv, TypeInv', LoopInv, Stepping, "E207" \notin found'
  PROVE  \E k : TracksLoops(frames', gens', k)
<1>1. found \subseteq found'
  BY DEF Stepping, Stays, Loses, Opens, Opening, Closes, Abandons, Defines, Defining, Breaks,
         Breaking, Enters, Entering, Starts, Starting, Ends, Switches, OpensClosure,
         OpeningClosure, LeavesClosure, LeavingClosure, Panics, PanicsInClosure, Panic, Fails, Crash, Goes
<1>2. PICK l : TracksLoops(frames, gens, l)
  BY <1>1 DEF LoopInv
<1>3. CASE Stays \/ Loses
  BY <1>2, <1>3, LoopsStay DEF Stays, Loses
<1>4. CASE Opens
  BY <1>2, <1>4, LoopsOpen DEF Opens
<1>5. CASE Closes
  <2>1. PICK g : /\ Inner /\ Goes(g, Pop(frames))
                 /\ g.current_loop_ty = IF Entered(top) THEN top.prev_loop_ty
                                        ELSE gen.current_loop_ty
    BY <1>5 DEF Closes
  <2> QED
    BY <1>2, <2>1, LoopsClose
<1>6. CASE Abandons
  <2>1. PICK g : Inner /\ ~Entered(top) /\ Goes(g, Pop(frames)) /\ SameLoop(g)
    BY <1>6 DEF Abandons
  <2> QED
    BY <1>2, <2>1, LoopsClose DEF SameLoop
<1>7. CASE Defines
  <2>1. PICK g : \E n \in Names, v \in Var : Defining(g, n, v)
    BY <1>7 DEF Defines
  <2>2. PICK n \in Names, v \in Var : Defining(g, n, v)
    BY <2>1
  <2>0. PICK p : p = Pop(frames)
    OBVIOUS
  <2>3. PICK x : x = Declare(p, n, v)
    OBVIOUS
  <2>4. /\ Len(x) = Len(Pop(frames))
        /\ \A i \in 1..Len(x) : /\ x[i].kind = Pop(frames)[i].kind
                                /\ x[i].loop = Pop(frames)[i].loop
                                /\ x[i].prev_loop_ty = Pop(frames)[i].prev_loop_ty
    <3>1. /\ Len(x) = Len(p)
          /\ \A i \in 1..Len(x) : /\ x[i].kind = p[i].kind /\ x[i].loop = p[i].loop
                                  /\ x[i].prev_loop_ty = p[i].prev_loop_ty
      <4>1. n \in Names /\ v \in Var /\ Defining(g, n, v)
        BY <2>2
      <4>2. DefinedIn(p, x, n, v)
        BY ONLY TypeInv, <4>1, <2>0, <2>3, DefinesIn
      <4> QED
        BY <4>2 DEF DefinedIn
    <3> QED
      BY <2>0, <3>1
  <2>5. /\ Inner /\ ~Entered(top) /\ Goes(g, x) /\ SameLoop(g)
    BY <2>0, <2>2, <2>3 DEF Defining, Entered, Loops
  <2> QED
    BY <1>2, <2>4, <2>5, LoopsClose DEF SameLoop
<1>8. CASE Breaks
  BY <1>2, <1>8, LoopsBreak DEF Breaks
<1>9. CASE Enters
  BY <1>2, <1>9, LoopsEnter DEF Enters
<1>10. CASE Starts
  BY <1>2, <1>10, LoopsStart DEF Starts
<1>11. CASE Ends
  BY <1>2, <1>11, LoopsEnd
<1>12. CASE Switches
  BY <1>12, LoopsSwitch
<1>13. CASE OpensClosure
  BY <1>2, <1>13, LoopsOpenClosure DEF OpensClosure
<1>14. CASE LeavesClosure
  BY <1>2, <1>14, LoopsLeaveClosure DEF LeavesClosure
<1>15. CASE Panics \/ PanicsInClosure \/ Fails
  BY <1>2, <1>15, LoopsPanic DEF Panics, PanicsInClosure, Panic, Fails
<1> QED
  BY <1>3, <1>4, <1>5, <1>6, <1>7, <1>8, <1>9, <1>10, <1>11, <1>12, <1>13, <1>14, <1>15
     DEF Stepping

LEMMA LoopInit == ASSUME Init PROVE LoopInv
<1>1. PICK k : k = [j \in 0..0 |-> None]
  OBVIOUS
<1>2. Len(frames) = 0 /\ k \in [0..0 -> LoopTy] /\ k[0] = None
  BY <1>1 DEF LoopTy, Init
<1>3. gens[Len(gens)].current_loop_ty = None
  <2>1. Len(gens) = 1 /\ gens[1] = NewGenerator
    BY DEF Init
  <2> QED
    BY <2>1 DEF NewGenerator
<1>4. TracksLoops(frames, gens, k)
  BY <1>2, <1>3 DEF TracksLoops
<1> QED
  BY <1>4 DEF LoopInv

(* The loop type of the generator that goes on is that of the innermost    *)
(* loop around; what a loop kept (prev_loop_ty) and what the generator of  *)
(* an outer function holds are the types of the loops around those.        *)
THEOREM LoopInvariant == Spec => []LoopInv
<1>1. Init => LoopInv
  BY LoopInit
<1>2. TypeInv /\ TypeInv' /\ LoopInv /\ [Next]_vars => LoopInv'
  <2>1. ASSUME LoopInv, UNCHANGED vars PROVE LoopInv'
    BY <2>1 DEF vars, LoopInv
  <2>2. ASSUME TypeInv, TypeInv', LoopInv, Next PROVE LoopInv'
    <3>1. Stepping
      BY <2>2, Steps
    <3>2. "E207" \notin found' => \E k : TracksLoops(frames', gens', k)
      BY <2>2, <3>1, LoopStep
    <3> QED
      BY <3>2 DEF LoopInv
  <2> QED
    BY <2>1, <2>2
<1> QED
  BY <1>1, <1>2, TypeInvariant, PTL DEF Spec

(* A break is judged by, and gives its type to, the innermost loop of its  *)
(* own function: whatever was walked before, for_body gives the outer      *)
(* loop's type back, and a closure starts outside of all loops.            *)
THEOREM LoopTypeRestoredHolds == Spec => []LoopTypeRestored
<1>1. TypeInv /\ LoopInv => LoopTypeRestored
  <2> SUFFICES ASSUME TypeInv, LoopInv, "E207" \notin found
               PROVE  gen.current_loop_ty =
                        IF frames = <<>> \/ LoopsIn(frames) = {} THEN None
                        ELSE frames[Max(LoopsIn(frames))].loop
    BY DEF LoopTypeRestored
  <2>1. PICK l : TracksLoops(frames, gens, l)
    BY DEF LoopInv
  <2>2. gen.current_loop_ty = l[Len(frames)] /\ l[0] = None
    BY <2>1, GenTyped DEF TracksLoops
  <2>3. CASE frames = <<>>
    BY <2>2, <2>3
  <2>4. CASE frames # <<>>
    <3>1. Framed(frames) /\ Len(frames) \in Nat \ {0}
      BY <2>4, TopTyped
    <3>2. CASE LoopsIn(frames) = {}
      BY <2>1, <2>2, <2>4, <3>1, <3>2, LoopCurrent
    <3>3. CASE LoopsIn(frames) # {}
      <4>1. PICK m \in 1..Len(frames) :
                   /\ m = Max(LoopsIn(frames))
                   /\ \A j \in m..Len(frames) : l[j] = frames[m].loop
        BY <2>1, <2>4, <3>1, <3>3, LoopCurrent
      <4>2. Len(frames) \in m..Len(frames)
        BY <3>1
      <4> QED
        BY <2>2, <2>4, <3>3, <4>1, <4>2
    <3> QED
      BY <3>2, <3>3
  <2> QED
    BY <2>3, <2>4
<1> QED
  BY <1>1, TypeInvariant, LoopInvariant, PTL

-----------------------------------------------------------------------------
(* How many scopes there are: a crash is a scope that is missing.          *)

(* The scopes of the generator inside of a construct, from those around.   *)
HeightWithin(f, around) ==
  IF f.kind = "function" THEN 1
  ELSE IF f.kind = "closure" THEN 2
  ELSE IF f.kind \in {"block", "branch"} \/ (f.kind = "for" /\ Entered(f)) THEN around + 1
  ELSE IF f.kind = "for_iter" THEN IF Entered(f) THEN around + 2 ELSE around + 1
  ELSE around

HeightAt(f, around, within) == within = HeightWithin(f, around) /\ within >= 1

(* At least t[i] scopes are there inside of the i-th construct, in the     *)
(* generator that goes on and, as outer_env, in those of the closures that *)
(* the walk goes back to.  Functions without a body leave more.            *)
TracksHeights(fs, gs, t) ==
  /\ t \in [0..Len(fs) -> Nat] /\ t[0] = 0
  /\ \A i \in 1..Len(fs) : HeightAt(fs[i], t[i - 1], t[i])
  /\ \A i \in 1..Len(fs) : fs[i].kind = "closure" =>
       t[i - 1] <= Len(gs[Number(fs, i)].outer_env)
  /\ gs[Len(gs)].has_modules /\ t[Len(fs)] <= Len(gs[Len(gs)].environments)

HeightInv ==
  "E300" \notin found => panicked # "outer" /\ \E t : TracksHeights(frames, gens, t)

(* Constructs with the same scopes.                                        *)
Shaped(fs, r) ==
  /\ Len(r) = Len(fs)
  /\ \A i \in 1..Len(fs) : r[i].kind = fs[i].kind /\ (Entered(r[i]) <=> Entered(fs[i]))

LEMMA ShapedAlike ==
  ASSUME NEW fs, NEW x, NEW r, Shaped(fs, x), Alike(x, r)
  PROVE  Shaped(fs, r)
BY DEF Shaped, Alike, Entered

LEMMA ShapedSet ==
  ASSUME NEW fs, Framed(fs), fs # <<>>, NEW ty \in LoopTypes, NEW r, r = SetLoop(fs, ty)
  PROVE  Shaped(fs, r)
<1>1. CASE r = fs
  BY <1>1 DEF Shaped
<1>2. CASE Len(r) = Len(fs) /\ \E m \in 1..Len(fs) :
             /\ fs[m].kind \in Loops /\ fs[m].loop # None
             /\ r[m] = [fs[m] EXCEPT !.loop = SetLoopType(fs[m].loop, ty)]
             /\ \A j \in 1..Len(fs) : j # m => r[j] = fs[j]
  <2>1. PICK m \in 1..Len(fs) :
             /\ fs[m].kind \in Loops /\ fs[m].loop # None
             /\ r[m] = [fs[m] EXCEPT !.loop = SetLoopType(fs[m].loop, ty)]
             /\ \A j \in 1..Len(fs) : j # m => r[j] = fs[j]
    BY <1>2
  <2>2. fs[m] \in Frame
    BY ElementOfSeq DEF Framed
  <2>3. SetLoopType(fs[m].loop, ty) # None
    BY <2>1, <2>2, SpecialValues DEF SetLoopType
  <2>4. r[m].kind = fs[m].kind /\ (Entered(r[m]) <=> Entered(fs[m]))
    BY <2>1, <2>2, <2>3 DEF Entered, Frame
  <2> QED
    BY <1>2, <2>1, <2>4 DEF Shaped
<1> QED
  BY <1>1, <1>2, SetLoopTyped

LEMMA HeightsShaped ==
  ASSUME NEW fs, Len(fs) \in Nat, NEW r, Shaped(fs, r),
         NEW gs, NEW t, TracksHeights(fs, gs, t)
  PROVE  TracksHeights(r, gs, t)
<1>1. ASSUME NEW i \in 1..Len(fs)
      PROVE  /\ HeightAt(r[i], t[i - 1], t[i])
             /\ r[i].kind = "closure" => t[i - 1] <= Len(gs[Number(r, i)].outer_env)
  <2>1. HeightAt(fs[i], t[i - 1], t[i])
    BY DEF TracksHeights
  <2>2. HeightAt(r[i], t[i - 1], t[i])
    BY <2>1 DEF HeightAt, HeightWithin, Shaped
  <2>3. i \in Nat /\ \A k \in 1..i : r[k].kind = fs[k].kind
    BY DEF Shaped
  <2>4. Number(r, i) = Number(fs, i)
    BY <2>3, NumberSame
  <2> QED
    BY <2>2, <2>3, <2>4 DEF TracksHeights, Shaped
<1> QED
  BY <1>1 DEF TracksHeights, Shaped

LEMMA HeightsSame ==
  ASSUME TypeInv, NEW g, NEW x, Goes(g, x), Shaped(frames, x), NEW n, n = Len(frames),
         NEW t, TracksHeights(frames, gens, t),
         g.has_modules, t[n] <= Len(g.environments)
  PROVE  \E k : TracksHeights(frames', gens', k)
<1>1. n \in Nat
  BY ClosureNumbers
<1>2. TracksHeights(frames, gens', t)
  <2>1. gens'[Len(gens')] = g
    BY GoesKeeps
  <2>2. \A i \in 1..n : frames[i].kind = "closure" =>
          gens'[Number(frames, i)].outer_env = gens[Number(frames, i)].outer_env
    BY GoesKeeps
  <2> QED
    BY <2>1, <2>2 DEF TracksHeights
<1>3. Shaped(frames, frames')
  BY ShapedAlike DEF Goes
<1>4. TracksHeights(frames', gens', t)
  BY <1>1, <1>2, <1>3, HeightsShaped
<1> QED
  BY <1>4

(* The walk goes back to the construct around the innermost one.           *)
LEMMA HeightsBack ==
  ASSUME TypeInv, Inner, NEW g, NEW x, Goes(g, x), NEW p, p = Pop(frames), Shaped(p, x),
         NEW n, n = Len(frames), NEW t, TracksHeights(frames, gens, t),
         g.has_modules, t[n - 1] <= Len(g.environments)
  PROVE  \E k : TracksHeights(frames', gens', k)
<1>1. /\ n \in Nat \ {0, 1} /\ Len(p) = n - 1 /\ frames \in Seq(Frame)
      /\ \A j \in 1..(n - 1) : p[j] = frames[j]
  <2>1. frames \in Seq(Frame) /\ frames # <<>>
    BY DEF Inner, TypeInv, Framed
  <2> QED
    BY <2>1, Back, PopProperties DEF Inner
<1>2. /\ t \in [0..n -> Nat] /\ t[0] = 0
      /\ \A j \in 1..n : HeightAt(frames[j], t[j - 1], t[j])
      /\ \A j \in 1..n : frames[j].kind = "closure" =>
           t[j - 1] <= Len(gens[Number(frames, j)].outer_env)
  BY DEF TracksHeights
<1>3. /\ \A i \in 1..n : frames[i].kind = "closure" =>
           gens'[Number(frames, i)].outer_env = gens[Number(frames, i)].outer_env
      /\ gens'[Len(gens')] = g
  BY GoesKeeps
<1>4. PICK k : k = Shorter(t, n - 1)
  OBVIOUS
<1>5. \A j \in 0..(n - 1) : j \in 0..n
  BY <1>1
<1>6. k \in [0..(n - 1) -> Nat] /\ \A j \in 0..(n - 1) : k[j] = t[j]
  BY <1>2, <1>4, <1>5 DEF Shorter
<1>7. ASSUME NEW j \in 1..(n - 1)
      PROVE  /\ HeightAt(p[j], k[j - 1], k[j])
             /\ p[j].kind = "closure" => k[j - 1] <= Len(gens'[Number(p, j)].outer_env)
  <2>1. /\ j \in Nat /\ j \in 1..n /\ j \in 0..(n - 1) /\ j - 1 \in 0..(n - 1)
        /\ \A i \in 1..j : i \in 1..(n - 1)
    BY <1>1
  <2>2. k[j - 1] = t[j - 1] /\ k[j] = t[j] /\ p[j] = frames[j]
    BY <1>1, <1>6, <2>1
  <2>3. Number(p, j) = Number(frames, j)
    BY <1>1, <2>1, NumberSame
  <2> QED
    BY <1>2, <1>3, <2>1, <2>2, <2>3
<1>8. k[0] = 0 /\ k[n - 1] = t[n - 1]
  BY <1>1, <1>2, <1>6
<1>9. TracksHeights(p, gens', k) /\ Len(p) \in Nat
  BY <1>1, <1>3, <1>6, <1>7, <1>8 DEF TracksHeights
<1>10. Shaped(p, frames')
  BY ShapedAlike DEF Goes
<1> QED
  BY <1>9, <1>10, HeightsShaped

LEMMA HeightsOpen ==
  ASSUME TypeInv, TypeInv', NEW g, NEW f \in Frame, Opening(g, f),
         NEW t, TracksHeights(frames, gens, t)
  PROVE  \E k : TracksHeights(frames', gens', k)
<1>1. PICK n : n = Len(frames)
  OBVIOUS
<1>2. PICK r : r = Append(frames, f)
  OBVIOUS
<1>3. n \in Nat /\ frames \in Seq(Frame)
  BY <1>1, ClosureNumbers DEF TypeInv, Framed
<1>4. Len(r) = n + 1 /\ r[n + 1] = f /\ \A j \in 1..n : r[j] = frames[j]
  BY <1>1, <1>2, <1>3, AppendProperties
<1>5. /\ f.kind \notin {"function", "closure"} /\ ~Entered(f) /\ Goes(g, r)
      /\ g.has_modules = gen.has_modules
      /\ IF f.kind \in {"block", "branch", "for_iter"}
         THEN g.environments = Append(gen.environments, f.scope)
         ELSE g.environments = gen.environments
  BY <1>2 DEF Opening, Entered, SameScopes, SameModules
<1>6. n # 0
  <2>1. Len(frames') = n + 1 /\ frames'[n + 1].kind = f.kind /\ n + 1 \in 1..(n + 1)
    BY <1>3, <1>4, <1>5 DEF Goes, Alike
  <2> QED
    BY <1>5, <2>1 DEF TypeInv, Framed
<1>7. /\ t \in [0..n -> Nat] /\ t[0] = 0
      /\ \A j \in 1..n : HeightAt(frames[j], t[j - 1], t[j])
      /\ \A j \in 1..n : frames[j].kind = "closure" =>
           t[j - 1] <= Len(gens[Number(frames, j)].outer_env)
      /\ gens[Len(gens)].has_modules /\ t[n] <= Len(gens[Len(gens)].environments)
  BY <1>1 DEF TracksHeights
<1>8. t[n] \in Nat /\ t[n] >= 1 /\ n \in 0..n
  <2>1. n \in 1..n /\ n \in 0..n
    BY <1>3, <1>6
  <2> QED
    BY <1>7, <2>1 DEF HeightAt
<1>9. PICK h : h = HeightWithin(f, t[n])
  OBVIOUS
<1>10. /\ h \in Nat /\ HeightAt(f, t[n], h)
       /\ h = IF f.kind \in {"block", "branch", "for_iter"} THEN t[n] + 1 ELSE t[n]
  BY <1>5, <1>8, <1>9 DEF HeightAt, HeightWithin
<1>11. h <= Len(g.environments) /\ g.has_modules
  <2>1. /\ gen.environments \in Seq(Environment) /\ gen = gens[Len(gens)]
        /\ f.scope \in Environment
    BY GenTyped DEF Frame
  <2>2. /\ Len(Append(gen.environments, f.scope)) = Len(gen.environments) + 1
        /\ Len(gen.environments) \in Nat
    BY <2>1, Begun
  <2> QED
    BY <1>5, <1>7, <1>8, <1>10, <2>1, <2>2
<1>12. PICK k : k = [j \in 0..(n + 1) |-> IF j = n + 1 THEN h ELSE t[j]]
  OBVIOUS
<1>13. /\ k \in [0..(n + 1) -> Nat] /\ k[n + 1] = h /\ \A j \in 0..n : k[j] = t[j]
  <2>1. \A j \in 0..(n + 1) : j = n + 1 \/ j \in 0..n
    BY <1>3
  <2>2. \A j \in 0..n : j # n + 1 /\ j \in 0..(n + 1)
    BY <1>3
  <2>3. n + 1 \in 0..(n + 1)
    BY <1>3
  <2> QED
    BY <1>7, <1>10, <1>12, <2>1, <2>2, <2>3
<1>14. ASSUME NEW j \in 1..(n + 1)
       PROVE  /\ HeightAt(r[j], k[j - 1], k[j])
              /\ r[j].kind = "closure" => k[j - 1] <= Len(gens'[Number(r, j)].outer_env)
  <2>1. CASE j = n + 1
    <3>1. k[j - 1] = t[n] /\ k[j] = h /\ r[j] = f
      BY <1>3, <1>4, <1>13, <2>1
    <3> QED
      BY <1>5, <1>10, <3>1
  <2>2. CASE j \in 1..n
    <3>1. j \in Nat /\ j \in 0..n /\ j - 1 \in 0..n /\ \A i \in 1..j : i \in 1..n
      BY <1>3, <2>2
    <3>2. k[j - 1] = t[j - 1] /\ k[j] = t[j] /\ r[j] = frames[j]
      BY <1>4, <1>13, <2>2, <3>1
    <3>3. Number(r, j) = Number(frames, j)
      BY <1>4, <3>1, NumberSame
    <3>4. frames[j].kind = "closure" =>
            gens'[Number(frames, j)].outer_env = gens[Number(frames, j)].outer_env
      BY <1>1, <1>5, <2>2, GoesKeeps
    <3> QED
      BY <1>7, <2>2, <3>2, <3>3, <3>4
  <2> QED
    BY <1>3, <2>1, <2>2
<1>15. gens'[Len(gens')] = g
  BY <1>5, GoesKeeps
<1>16. TracksHeights(r, gens', k) /\ Len(r) \in Nat
  <2>1. k[0] = 0
    BY <1>3, <1>7, <1>13
  <2> QED
    BY <1>3, <1>4, <1>11, <1>13, <1>14, <1>15, <2>1 DEF TracksHeights
<1>17. Shaped(r, frames')
  BY <1>5, ShapedAlike DEF Shaped, Goes
<1> QED
  BY <1>16, <1>17, HeightsShaped

LEMMA HeightsEnter ==
  ASSUME TypeInv, NEW g, NEW f \in Frame, Entering(g, f),
         \/ EnteringFor(g, f)
         \/ \E n \in Names, i \in Var, s \in Var, v \in Var : EnteringForIter(g, f, n, i, s, v),
         NEW t, TracksHeights(frames, gens, t)
  PROVE  \E k : TracksHeights(frames', gens', k)
<1>1. PICK n : n = Len(frames)
  OBVIOUS
<1>2. PICK r : r = Replaced(frames, n, f)
  OBVIOUS
<1>3. /\ Inner /\ top.kind \in Loops /\ ~Entered(top) /\ Goes(g, r)
      /\ f.kind = top.kind /\ Entered(f) /\ g.has_modules = gen.has_modules
  BY <1>1, <1>2, SpecialValues DEF Entering, Entered, SameModules
<1>4. n \in Nat \ {0, 1} /\ n \in 1..n /\ n \in 0..n /\ n - 1 \in 0..n /\ top = frames[n]
  BY <1>1, <1>3, Back DEF Inner
<1>5. frames \in Seq(Frame) /\ DOMAIN frames = 1..n
  BY <1>1, LenProperties DEF TypeInv, Framed
<1>6. /\ Len(r) = n /\ r[n] = f /\ \A j \in 1..n : j # n => r[j] = frames[j]
  <2>1. r = [frames EXCEPT ![n] = f]
    BY <1>2 DEF Replaced
  <2>2. Len(r) = Len(frames)
    BY <1>1, <1>4, <1>5, <2>1, ExceptSeq
  <2> QED
    BY <1>1, <1>4, <1>5, <2>1, <2>2
<1>7. /\ t \in [0..n -> Nat] /\ t[0] = 0
      /\ \A j \in 1..n : HeightAt(frames[j], t[j - 1], t[j])
      /\ \A j \in 1..n : frames[j].kind = "closure" =>
           t[j - 1] <= Len(gens[Number(frames, j)].outer_env)
      /\ gen.has_modules /\ t[n] <= Len(gen.environments)
  BY <1>1, GenTyped DEF TracksHeights
<1>8. t[n] \in Nat /\ t[n] >= 1 /\ t[n - 1] \in Nat /\ HeightAt(top, t[n - 1], t[n])
  BY <1>4, <1>7 DEF HeightAt
<1>9. gen.environments \in Seq(Environment) /\ Len(gen.environments) \in Nat
  BY GenTyped, LenProperties
<1>10. Len(g.environments) = Len(gen.environments) + 1
  <2>1. CASE EnteringFor(g, f)
    <3>1. f.scope \in Environment
      BY DEF Frame
    <3> QED
      BY <1>9, <2>1, <3>1, Begun DEF EnteringFor
  <2>2. CASE \E m \in Names, i \in Var, s \in Var, v \in Var : EnteringForIter(g, f, m, i, s, v)
    <3>1. PICK m \in Names, i \in Var, s \in Var, v \in Var : EnteringForIter(g, f, m, i, s, v)
      BY <2>2
    <3>2. gen.environments # <<>>
      BY <3>1 DEF EnteringForIter
    <3>3. PICK a : a = Define(gen.environments, Iter, i)
      OBVIOUS
    <3>4. PICK b : b = Define(a, m, s)
      OBVIOUS
    <3>5. PICK e : e = [Empty EXCEPT ![m] = v]
      OBVIOUS
    <3>6. a \in Seq(Environment) /\ Len(a) = Len(gen.environments)
      BY <1>9, <3>2, <3>3, Defined, SizesAndNames
    <3>7. a # <<>>
      BY <1>9, <3>2, <3>6, EmptySeq
    <3>8. b \in Seq(Environment) /\ Len(b) = Len(a)
      BY <3>4, <3>6, <3>7, Defined
    <3>9. e \in Environment
      BY <3>5 DEF Empty, Environment
    <3>10. Len(Append(b, e)) = Len(b) + 1
      BY <3>8, <3>9, Begun
    <3>11. g.environments = Append(b, e)
      BY <3>1, <3>3, <3>4, <3>5 DEF EnteringForIter
    <3> QED
      BY <3>6, <3>8, <3>10, <3>11
  <2> QED
    BY <2>1, <2>2
<1>11. PICK h : h = t[n] + 1
  OBVIOUS
<1>12. h \in Nat /\ HeightAt(f, t[n - 1], h) /\ h <= Len(g.environments)
  <2>1. t[n] = IF top.kind = "for" THEN t[n - 1] ELSE t[n - 1] + 1
    BY <1>3, <1>8 DEF HeightAt, HeightWithin, Loops
  <2> QED
    BY <1>3, <1>7, <1>8, <1>9, <1>10, <1>11, <2>1 DEF HeightAt, HeightWithin, Loops
<1>13. PICK k : k = [t EXCEPT ![n] = h]
  OBVIOUS
<1>14. k \in [0..n -> Nat] /\ k[n] = h /\ \A j \in 0..(n - 1) : k[j] = t[j]
  <2>1. \A j \in 0..(n - 1) : j \in 0..n /\ j # n
    BY <1>4
  <2> QED
    BY <1>4, <1>7, <1>12, <1>13, <2>1
<1>15. \A j \in 1..n : r[j].kind = frames[j].kind
  BY <1>3, <1>4, <1>6
<1>16. ASSUME NEW j \in 1..n
       PROVE  /\ HeightAt(r[j], k[j - 1], k[j])
              /\ r[j].kind = "closure" => k[j - 1] <= Len(gens'[Number(r, j)].outer_env)
  <2>0. j - 1 \in 0..(n - 1) /\ j \in Nat /\ k[j - 1] = t[j - 1]
    BY <1>4, <1>14
  <2>1. CASE j = n
    BY <1>3, <1>6, <1>12, <1>14, <2>0, <2>1 DEF Loops
  <2>2. CASE j # n
    <3>1. j \in 0..(n - 1) /\ \A i \in 1..j : i \in 1..n
      BY <1>4, <2>2
    <3>2. Number(r, j) = Number(frames, j)
      BY <1>15, <2>0, <3>1, NumberSame
    <3>3. frames[j].kind = "closure" =>
            gens'[Number(frames, j)].outer_env = gens[Number(frames, j)].outer_env
      BY <1>1, <1>3, GoesKeeps
    <3> QED
      BY <1>6, <1>7, <1>14, <2>0, <2>2, <3>1, <3>2, <3>3
  <2> QED
    BY <2>1, <2>2
<1>17. gens'[Len(gens')] = g
  BY <1>3, GoesKeeps
<1>18. TracksHeights(r, gens', k) /\ Len(r) \in Nat
  <2>1. k[0] = 0
    <3>1. 0 \in 0..(n - 1)
      BY <1>4
    <3> QED
      BY <1>7, <1>14, <3>1
  <2> QED
    BY <1>3, <1>4, <1>6, <1>7, <1>12, <1>14, <1>16, <1>17, <2>1 DEF TracksHeights
<1>19. Shaped(r, frames')
  BY <1>3, ShapedAlike DEF Shaped, Goes
<1> QED
  BY <1>18, <1>19, HeightsShaped

(* The scopes that a construct opened are there when it is left.           *)
LEMMA HeightsClose ==
  ASSUME TypeInv, Closes, NEW t, TracksHeights(frames, gens, t)
  PROVE  \E k : TracksHeights(frames', gens', k)
<1>1. PICK g : /\ Inner /\ (top.kind = "for_iter" => Entered(top))
               /\ Goes(g, Pop(frames)) /\ g.has_modules = gen.has_modules
               /\ g.environments = Left(top, gen.environments)
  BY DEF Closes, SameModules
<1>2. PICK n : n = Len(frames)
  OBVIOUS
<1>3. PICK p : p = Pop(frames)
  OBVIOUS
<1>4. /\ n \in Nat \ {0, 1} /\ n \in 1..n /\ n \in 0..n /\ n - 1 \in 0..n /\ n - 1 \in 1..n
      /\ top = frames[n] /\ gen = gens[Len(gens)]
  <2>1. n \in Nat \ {0, 1} /\ top = frames[n]
    BY <1>1, <1>2, Back DEF Inner
  <2> QED
    BY <2>1, GenTyped
<1>5. /\ t \in [0..n -> Nat] /\ HeightAt(top, t[n - 1], t[n])
      /\ t[n - 1] >= 1 /\ gen.has_modules /\ t[n] <= Len(gen.environments)
  BY <1>2, <1>4 DEF TracksHeights, HeightAt
<1>6. t[n] \in Nat /\ t[n - 1] \in Nat
  BY <1>4, <1>5
<1>7. PICK envs : envs = gen.environments
  OBVIOUS
<1>8. PICK once : once = EndScope(envs)
  OBVIOUS
<1>9. envs \in Seq(Environment) /\ Len(envs) \in Nat
  BY <1>7, GenTyped, LenProperties
<1>10. /\ once \in Seq(Environment) /\ Len(once) \in Nat
       /\ Len(envs) > 0 => Len(once) = Len(envs) - 1
       /\ Len(EndScope(once)) \in Nat
       /\ Len(once) > 0 => Len(EndScope(once)) = Len(once) - 1
  BY <1>8, <1>9, Ended
<1>11. t[n - 1] <= Len(g.environments)
  <2>1. CASE top.kind \in {"block", "branch"} \/ (top.kind = "for" /\ Entered(top))
    <3>1. t[n] = t[n - 1] + 1
      BY <1>5, <2>1 DEF HeightAt, HeightWithin
    <3>2. g.environments = once
      BY <1>1, <1>7, <1>8, <2>1 DEF Left
    <3> QED
      BY <1>5, <1>6, <1>7, <1>9, <1>10, <3>1, <3>2
  <2>2. CASE top.kind = "for_iter"
    <3>1. t[n] = t[n - 1] + 2
      BY <1>1, <1>5, <2>2 DEF HeightAt, HeightWithin
    <3>2. g.environments = EndScope(once)
      BY <1>1, <1>7, <1>8, <2>2 DEF Left
    <3> QED
      BY <1>5, <1>6, <1>7, <1>9, <1>10, <3>1, <3>2
  <2>3. CASE /\ top.kind \notin {"block", "branch", "for_iter"}
             /\ ~(top.kind = "for" /\ Entered(top))
    <3>1. t[n] = t[n - 1]
      BY <1>1, <1>5, <2>3 DEF HeightAt, HeightWithin, Inner
    <3>2. g.environments = envs
      BY <1>1, <1>7, <2>3 DEF Left
    <3> QED
      BY <1>5, <1>7, <3>1, <3>2
  <2> QED
    BY <2>1, <2>2, <2>3
<1>12. Shaped(p, p) /\ Goes(g, p)
  BY <1>1, <1>3 DEF Shaped
<1> QED
  BY <1>1, <1>2, <1>3, <1>5, <1>11, <1>12, HeightsBack

LEMMA HeightsAbandon ==
  ASSUME TypeInv, Abandons, NEW t, TracksHeights(frames, gens, t)
  PROVE  \E k : TracksHeights(frames', gens', k)
<1>1. PICK g : /\ Inner /\ top.kind = "for_iter" /\ ~Entered(top)
               /\ Goes(g, Pop(frames)) /\ g.has_modules = gen.has_modules
               /\ Len(g.environments) = Len(gen.environments)
  BY DEF Abandons, SameModules
<1>2. PICK n : n = Len(frames)
  OBVIOUS
<1>3. PICK p : p = Pop(frames)
  OBVIOUS
<1>4. /\ n \in 1..n /\ n \in 0..n /\ n - 1 \in 0..n
      /\ top = frames[n] /\ gen = gens[Len(gens)]
  <2>1. n \in Nat \ {0, 1} /\ top = frames[n]
    BY <1>1, <1>2, Back DEF Inner
  <2> QED
    BY <2>1, GenTyped
<1>5. /\ t \in [0..n -> Nat] /\ HeightAt(top, t[n - 1], t[n])
      /\ gen.has_modules /\ t[n] <= Len(gen.environments)
  BY <1>2, <1>4 DEF TracksHeights
<1>6. t[n] \in Nat /\ t[n - 1] \in Nat /\ t[n] = t[n - 1] + 1
  BY <1>1, <1>4, <1>5 DEF HeightAt, HeightWithin
<1>7. gen.environments \in Seq(Environment) /\ Len(gen.environments) \in Nat
  BY GenTyped, LenProperties
<1>8. t[n - 1] <= Len(g.environments)
  BY <1>1, <1>5, <1>6, <1>7
<1>9. Shaped(p, p) /\ Goes(g, p)
  BY <1>1, <1>3 DEF Shaped
<1> QED
  BY <1>1, <1>2, <1>3, <1>5, <1>8, <1>9, HeightsBack

LEMMA HeightsDefine ==
  ASSUME TypeInv, Defines, NEW t, TracksHeights(frames, gens, t)
  PROVE  \E k : TracksHeights(frames', gens', k)
<1>1. PICK g : \E m \in Names, v \in Var : Defining(g, m, v)
  BY DEF Defines
<1>2. PICK m \in Names, v \in Var : Defining(g, m, v)
  BY <1>1
<1>3. PICK n : n = Len(frames)
  OBVIOUS
<1>4. PICK p : p = Pop(frames)
  OBVIOUS
<1>5. PICK x : x = Declare(p, m, v)
  OBVIOUS
<1>6. /\ Inner /\ top.kind = "variable" /\ gen.environments # <<>>
      /\ Goes(g, x) /\ g.has_modules = gen.has_modules
      /\ g.environments = Define(gen.environments, m, v)
  BY <1>2, <1>4, <1>5 DEF Defining, SameModules
<1>7. /\ n \in 1..n /\ n \in 0..n /\ n - 1 \in 0..n
      /\ top = frames[n] /\ gen = gens[Len(gens)]
  <2>1. n \in Nat \ {0, 1} /\ top = frames[n]
    BY <1>3, <1>6, Back DEF Inner
  <2> QED
    BY <2>1, GenTyped
<1>8. /\ t \in [0..n -> Nat] /\ HeightAt(top, t[n - 1], t[n])
      /\ gen.has_modules /\ t[n] <= Len(gen.environments)
  BY <1>3, <1>7 DEF TracksHeights
<1>9. t[n] = t[n - 1]
  BY <1>6, <1>8 DEF HeightAt, HeightWithin
<1>10. Len(g.environments) = Len(gen.environments)
  BY <1>2, <1>6, GenTyped, Defined
<1>11. Shaped(p, x)
  <2>1. m \in Names /\ v \in Var /\ Defining(g, m, v)
    BY <1>2
  <2>2. DefinedIn(p, x, m, v)
    BY ONLY TypeInv, <1>4, <1>5, <2>1, DefinesIn
  <2> QED
    BY <2>2 DEF DefinedIn, Shaped, Entered
<1> QED
  BY <1>3, <1>4, <1>6, <1>8, <1>9, <1>10, <1>11, HeightsBack

LEMMA HeightsBreak ==
  ASSUME TypeInv, Breaks, NEW t, TracksHeights(frames, gens, t)
  PROVE  \E k : TracksHeights(frames', gens', k)
<1>1. PICK g, fs : \E ty \in LoopTypes : Breaking(g, fs, ty)
  BY DEF Breaks
<1>2. PICK ty \in LoopTypes : Breaking(g, fs, ty)
  BY <1>1
<1>3. PICK x : x = SetLoop(fs, ty)
  OBVIOUS
<1>4. /\ Inner /\ Goes(g, x) /\ g.environments = gen.environments
      /\ g.has_modules = gen.has_modules
      /\ \/ top.kind = "break" /\ fs = Pop(frames)
         \/ Entered(top) /\ fs = frames
  BY <1>2, <1>3 DEF Breaking, SameScopes, SameModules
<1>5. PICK n : n = Len(frames)
  OBVIOUS
<1>6. /\ n \in 1..n /\ n \in 0..n /\ n - 1 \in 0..n
      /\ top = frames[n] /\ gen = gens[Len(gens)]
  <2>1. n \in Nat \ {0, 1} /\ top = frames[n]
    BY <1>4, <1>5, Back DEF Inner
  <2> QED
    BY <2>1, GenTyped
<1>7. /\ t \in [0..n -> Nat] /\ HeightAt(top, t[n - 1], t[n])
      /\ gen.has_modules /\ t[n] <= Len(gen.environments)
  BY <1>5, <1>6 DEF TracksHeights
<1>8. CASE top.kind = "break" /\ fs = Pop(frames)
  <2>1. t[n] = t[n - 1]
    BY <1>7, <1>8 DEF HeightAt, HeightWithin
  <2>2. Framed(fs) /\ fs # <<>>
    BY <1>4, <1>8, Back DEF Inner, Awaiting
  <2>3. Shaped(fs, x)
    BY <1>3, <2>2, ShapedSet
  <2> QED
    BY <1>4, <1>5, <1>7, <1>8, <2>1, <2>3, HeightsBack
<1>9. CASE Entered(top) /\ fs = frames
  <2>1. Framed(fs) /\ fs # <<>>
    BY <1>4, <1>9 DEF Inner, TypeInv
  <2>2. Shaped(fs, x)
    BY <1>3, <2>1, ShapedSet
  <2> QED
    BY <1>4, <1>5, <1>7, <1>9, <2>2, HeightsSame
<1> QED
  BY <1>4, <1>8, <1>9

LEMMA HeightsStay ==
  ASSUME TypeInv, Stays, NEW t, TracksHeights(frames, gens, t)
  PROVE  \E k : TracksHeights(frames', gens', k)
<1>1. PICK g : /\ Goes(g, frames) /\ g.environments = gen.environments
               /\ g.has_modules = gen.has_modules
  BY DEF Stays, SameScopes, SameModules
<1>2. PICK n : n = Len(frames)
  OBVIOUS
<1>3. gen.has_modules /\ t[n] <= Len(gen.environments)
  BY <1>2, GenTyped DEF TracksHeights
<1>4. Shaped(frames, frames)
  BY DEF Shaped
<1> QED
  BY <1>1, <1>2, <1>3, <1>4, HeightsSame

LEMMA HeightsEmpty ==
  ASSUME frames' = <<>>, NEW g \in Generator, gens'[Len(gens')] = g, g.has_modules
  PROVE  \E k : TracksHeights(frames', gens', k)
<1>1. PICK k : k = [j \in 0..0 |-> 0]
  OBVIOUS
<1>2. Len(frames') = 0 /\ k \in [0..0 -> Nat] /\ k[0] = 0
  BY <1>1
<1>3. 0 <= Len(g.environments)
  BY LenProperties DEF Generator
<1> QED
  BY <1>2, <1>3 DEF TracksHeights

LEMMA HeightsStart ==
  ASSUME TypeInv, Starts, NEW t, TracksHeights(frames, gens, t)
  PROVE  \E k : TracksHeights(frames', gens', k)
<1>1. PICK g : \E e \in Environment : Starting(g, e)
  BY DEF Starts
<1>2. PICK e \in Environment : Starting(g, e)
  BY <1>1
<1>3. /\ g \in Generator /\ frames = <<>> /\ gens' = <<g>>
      /\ g.environments = Append(gen.environments, e) /\ g.has_modules = gen.has_modules
  BY <1>2 DEF Starting, SameModules
<1>4. gen.has_modules
  BY GenTyped DEF TracksHeights
<1>5. Len(gens') = 1 /\ gens'[Len(gens')] = g
  BY <1>3
<1>6. CASE frames' = <<>>
  BY <1>3, <1>4, <1>5, <1>6, HeightsEmpty
<1>7. CASE Len(frames') = 1 /\ frames'[1].kind = "function"
  <2>1. PICK k : k = [j \in 0..1 |-> j]
    OBVIOUS
  <2>2. k \in [0..1 -> Nat] /\ k[0] = 0 /\ k[1] = 1
    BY <2>1
  <2>3. HeightAt(frames'[1], k[0], k[1])
    BY <1>7, <2>2 DEF HeightAt, HeightWithin
  <2>4. \A i \in 1..1 : i = 1 /\ i - 1 = 0
    OBVIOUS
  <2>5. 1 <= Len(g.environments)
    BY <1>3, GenTyped, Begun
  <2> QED
    BY <1>3, <1>4, <1>5, <1>7, <2>2, <2>3, <2>4, <2>5 DEF TracksHeights
<1> QED
  BY <1>2, <1>6, <1>7 DEF Starting

LEMMA HeightsEnd ==
  ASSUME TypeInv, TypeInv', Ends, NEW t, TracksHeights(frames, gens, t)
  PROVE  \E k : TracksHeights(frames', gens', k)
<1>1. PICK g : Goes(g, <<>>) /\ g.has_modules = gen.has_modules
  BY DEF Ends, SameModules
<1>2. g \in Generator /\ gens'[Len(gens')] = g /\ g.has_modules
  BY <1>1, GoesKeeps, GenTyped DEF Goes, TracksHeights
<1>3. frames' = <<>>
  <2>1. Len(frames') = 0
    BY <1>1 DEF Goes, Alike
  <2> QED
    BY <2>1, EmptySeq DEF TypeInv, Framed
<1> QED
  BY <1>2, <1>3, HeightsEmpty

LEMMA HeightsSwitch ==
  ASSUME TypeInv, Switches, NEW t, TracksHeights(frames, gens, t)
  PROVE  \E k : TracksHeights(frames', gens', k)
<1>1. PICK g : /\ frames = <<>> /\ g \in Generator /\ gens' = InGen(g) /\ frames' = <<>>
               /\ g.has_modules = gen.has_modules
  BY DEF Switches, SameModules
<1>2. Len(gens) = 1 /\ gens \in Seq(Generator) /\ DOMAIN gens = 1..1
  BY <1>1, OnlyGenerator, LenProperties DEF TypeInv
<1>3. Len(gens') = 1 /\ gens'[1] = g
  <2>1. gens' = [gens EXCEPT ![1] = g]
    BY <1>1, <1>2 DEF InGen
  <2>2. 1 \in 1..Len(gens)
    BY <1>2
  <2>3. Len(gens') = Len(gens)
    BY <1>1, <1>2, <2>1, <2>2, ExceptSeq
  <2> QED
    BY <1>2, <2>1, <2>3
<1>4. g.has_modules
  BY <1>1, GenTyped DEF TracksHeights
<1> QED
  BY <1>1, <1>3, <1>4, HeightsEmpty

(* A closure starts with two scopes, and keeps those around it.            *)
LEMMA HeightsOpenClosure ==
  ASSUME TypeInv, OpensClosure, NEW t, TracksHeights(frames, gens, t)
  PROVE  \E k : TracksHeights(frames', gens', k)
<1>0. PICK g, h : \E f \in Frame : OpeningClosure(g, h, f)
  BY DEF OpensClosure
<1>1. PICK f \in Frame : OpeningClosure(g, h, f)
  BY <1>0
<1>2. PICK n : n = Len(frames)
  OBVIOUS
<1>3. PICK c : c = Len(gens)
  OBVIOUS
<1>4. PICK r : r = Append(frames, f)
  OBVIOUS
<1>5. /\ n \in Nat \ {0} /\ frames' = r /\ Len(r) = n + 1
      /\ r[n + 1] = f /\ \A j \in 1..n : r[j] = frames[j]
      /\ gens'[Len(gens')] = h /\ gens'[c + 1] = h
      /\ \A j \in 1..n : Number(r, j) = Number(frames, j)
      /\ Number(r, n + 1) = c + 1
      /\ \A i \in 1..n : frames[i].kind = "closure" =>
           gens'[Number(frames, i)].outer_env = gens[Number(frames, i)].outer_env
  <2>1. OpeningKept(g, h, f, n, c, r)
    BY <1>1, <1>2, <1>3, <1>4, OpeningKeeps
  <2> QED
    BY <2>1 DEF OpeningKept
<1>6. /\ f.kind = "closure" /\ h.environments = <<Empty, f.scope>> /\ h.has_modules
      /\ h.outer_env = gen.environments
  BY <1>1 DEF OpeningClosure
<1>7. /\ t \in [0..n -> Nat] /\ t[0] = 0
      /\ \A j \in 1..n : HeightAt(frames[j], t[j - 1], t[j])
      /\ \A j \in 1..n : frames[j].kind = "closure" =>
           t[j - 1] <= Len(gens[Number(frames, j)].outer_env)
      /\ t[n] <= Len(gen.environments)
  BY <1>2, GenTyped DEF TracksHeights
<1>8. PICK k : k = [j \in 0..(n + 1) |-> IF j = n + 1 THEN 2 ELSE t[j]]
  OBVIOUS
<1>9. /\ k \in [0..(n + 1) -> Nat] /\ k[n + 1] = 2 /\ \A j \in 0..n : k[j] = t[j]
  <2>1. \A j \in 0..(n + 1) : j = n + 1 \/ j \in 0..n
    BY <1>5
  <2>2. \A j \in 0..n : j # n + 1 /\ j \in 0..(n + 1)
    BY <1>5
  <2>3. n + 1 \in 0..(n + 1)
    BY <1>5
  <2> QED
    BY <1>7, <1>8, <2>1, <2>2, <2>3
<1>10. ASSUME NEW j \in 1..(n + 1)
       PROVE  /\ HeightAt(r[j], k[j - 1], k[j])
              /\ r[j].kind = "closure" => k[j - 1] <= Len(gens'[Number(r, j)].outer_env)
  <2>1. CASE j = n + 1
    <3>1. k[j - 1] = t[n] /\ k[j] = 2 /\ r[j] = f
      BY <1>5, <1>9, <2>1
    <3>2. gens'[Number(r, j)] = h
      BY <1>5, <2>1
    <3> QED
      BY <1>6, <1>7, <3>1, <3>2 DEF HeightAt, HeightWithin
  <2>2. CASE j \in 1..n
    <3>1. j \in 0..n /\ j - 1 \in 0..n
      BY <1>5, <2>2
    <3>2. k[j - 1] = t[j - 1] /\ k[j] = t[j] /\ r[j] = frames[j]
      BY <1>5, <1>9, <2>2, <3>1
    <3> QED
      BY <1>5, <1>7, <2>2, <3>2
  <2> QED
    BY <1>5, <2>1, <2>2
<1>11. k[0] = 0
  <2>1. 0 \in 0..n
    BY <1>5
  <2> QED
    BY <1>7, <1>9, <2>1
<1>12. TracksHeights(r, gens', k)
  <2>1. Len(h.environments) = 2
    BY <1>6
  <2> QED
    BY <1>5, <1>6, <1>9, <1>10, <1>11, <2>1 DEF TracksHeights
<1> QED
  BY <1>5, <1>12

(* end_closure gives the scopes and the modules back.                      *)
LEMMA HeightsLeaveClosure ==
  ASSUME TypeInv, LeavesClosure, NEW t, TracksHeights(frames, gens, t)
  PROVE  \E k : TracksHeights(frames', gens', k)
<1>1. PICK g, outer : LeavingClosure(g, outer)
  BY DEF LeavesClosure
<1>2. PICK n : n = Len(frames)
  OBVIOUS
<1>3. PICK c : c = Len(gens)
  OBVIOUS
<1>4. PICK p : p = Pop(frames)
  OBVIOUS
<1>5. /\ n \in Nat \ {0, 1} /\ c \in Nat \ {0, 1} /\ Len(p) = n - 1
      /\ \A j \in 1..(n - 1) : p[j] = frames[j]
      /\ frames[n].kind = "closure" /\ Number(frames, n) = c /\ gen = gens[c]
      /\ gens'[Len(gens')] = g
      /\ \A j \in 1..(n - 1) : Number(p, j) = Number(frames, j)
      /\ \A i \in 1..(n - 1) : frames[i].kind = "closure" =>
           gens'[Number(frames, i)].outer_env = gens[Number(frames, i)].outer_env
  <2>1. LeavingKept(g, outer, n, c, p)
    BY <1>1, <1>2, <1>3, <1>4, LeavingKeeps
  <2> QED
    BY <2>1 DEF LeavingKept
<1>6. /\ t \in [0..n -> Nat] /\ t[0] = 0
      /\ \A j \in 1..n : HeightAt(frames[j], t[j - 1], t[j])
      /\ \A j \in 1..n : frames[j].kind = "closure" =>
           t[j - 1] <= Len(gens[Number(frames, j)].outer_env)
      /\ gen.has_modules
  BY <1>2, GenTyped DEF TracksHeights
<1>7. g.environments = gen.outer_env /\ g.has_modules = gen.has_modules
  BY <1>1 DEF LeavingClosure
<1>8. t[n - 1] <= Len(g.environments)
  <2>1. n \in 1..n
    BY <1>5
  <2> QED
    BY <1>5, <1>6, <1>7, <2>1
<1>9. PICK k : k = [j \in 0..(n - 1) |-> t[j]]
  OBVIOUS
<1>10. k \in [0..(n - 1) -> Nat] /\ \A j \in 0..(n - 1) : k[j] = t[j]
  <2>1. \A j \in 0..(n - 1) : j \in 0..n
    BY <1>5
  <2> QED
    BY <1>6, <1>9, <2>1
<1>11. ASSUME NEW j \in 1..(n - 1)
       PROVE  /\ HeightAt(p[j], k[j - 1], k[j])
              /\ p[j].kind = "closure" => k[j - 1] <= Len(gens'[Number(p, j)].outer_env)
  <2>1. j \in 1..n /\ j \in 0..(n - 1) /\ j - 1 \in 0..(n - 1)
    BY <1>5
  <2>2. k[j - 1] = t[j - 1] /\ k[j] = t[j] /\ p[j] = frames[j]
    BY <1>5, <1>10, <2>1
  <2> QED
    BY <1>5, <1>6, <2>1, <2>2
<1>12. k[0] = 0 /\ k[n - 1] = t[n - 1]
  BY <1>5, <1>6, <1>10
<1>13. TracksHeights(p, gens', k) /\ Len(p) \in Nat
  <2>1. g.has_modules /\ k[n - 1] <= Len(g.environments)
    BY <1>6, <1>7, <1>8, <1>12
  <2>2. \A j \in 1..(n - 1) :
           /\ HeightAt(p[j], k[j - 1], k[j])
           /\ p[j].kind = "closure" => k[j - 1] <= Len(gens'[Number(p, j)].outer_env)
    BY <1>11
  <2> QED
    BY <1>5, <1>10, <1>12, <2>1, <2>2 DEF TracksHeights
<1>14. Shaped(p, frames')
  <2>1. Alike(p, frames')
    BY <1>1, <1>4 DEF LeavingClosure
  <2> QED
    BY <2>1 DEF Alike, Shaped, Entered
<1> QED
  BY <1>13, <1>14, HeightsShaped

(* No crash while the scopes are there.                                    *)
LEMMA HeightsPanic ==
  ASSUME TypeInv, Panics \/ PanicsInClosure, NEW t, TracksHeights(frames, gens, t)
  PROVE  FALSE
<1>1. CASE PanicsInClosure
  BY <1>1, GenTyped DEF PanicsInClosure, TracksHeights
<1>2. CASE Panics
  <2>1. PICK n : n = Len(frames)
    OBVIOUS
  <2>2. /\ n \in Nat \ {0, 1} /\ n \in 1..n /\ n \in 0..n /\ n - 1 \in 0..n /\ n - 1 \in 1..n
        /\ top = frames[n] /\ gen = gens[Len(gens)]
    <3>1. n \in Nat \ {0, 1} /\ top = frames[n]
      BY <1>2, <2>1, Back DEF Panics, Inner
    <3> QED
      BY <3>1, GenTyped
  <2>3. /\ t \in [0..n -> Nat] /\ HeightAt(top, t[n - 1], t[n])
        /\ t[n - 1] >= 1 /\ t[n] <= Len(gen.environments)
    BY <2>1, <2>2 DEF TracksHeights, HeightAt
  <2>4. t[n] \in Nat /\ t[n - 1] \in Nat /\ t[n] >= 1
    BY <2>2, <2>3 DEF HeightAt
  <2>5. gen.environments \in Seq(Environment) /\ Len(gen.environments) \in Nat
    BY GenTyped, LenProperties
  <2>6. CASE gen.environments = <<>>
    <3>1. Len(gen.environments) = 0
      BY <2>6
    <3> QED
      BY <2>3, <2>4, <3>1
  <2>7. CASE top.kind = "for_iter" /\ Entered(top) /\ EndScope(gen.environments) = <<>>
    <3>1. t[n] = t[n - 1] + 2
      BY <2>3, <2>7 DEF HeightAt, HeightWithin
    <3>2. Len(gen.environments) > 0 =>
            Len(EndScope(gen.environments)) = Len(gen.environments) - 1
      BY <2>5, Ended
    <3>3. Len(EndScope(gen.environments)) = 0
      BY <2>7
    <3>4. PICK a : a = t[n - 1]
      OBVIOUS
    <3>5. a \in Nat /\ a >= 1 /\ a + 2 <= Len(gen.environments)
      BY <2>3, <2>4, <3>1, <3>4
    <3>6. Len(gen.environments) >= 3
      BY <2>5, <3>5
    <3>7. PICK b : b = Len(gen.environments)
      OBVIOUS
    <3>8. b \in Nat /\ b >= 3
      BY <2>5, <3>6, <3>7
    <3>9. Len(EndScope(gen.environments)) = b - 1
      <4>1. b > 0
        BY <3>8
      <4> QED
        BY <3>2, <3>7, <4>1
    <3> QED
      BY <3>3, <3>8, <3>9
  <2> QED
    BY <1>2, <2>6, <2>7 DEF Panics
<1> QED
  BY <1>1, <1>2

LEMMA HeightStep ==
  ASSUME TypeInv, TypeInv', HeightInv, Stepping, "E300" \notin found'
  PROVE  panicked' # "outer" /\ \E k : TracksHeights(frames', gens', k)
<1>1. found \subseteq found'
  BY DEF Stepping, Stays, Loses, Opens, Opening, Closes, Abandons, Defines, Defining, Breaks,
         Breaking, Enters, Entering, Starts, Starting, Ends, Switches, OpensClosure,
         OpeningClosure, LeavesClosure, LeavingClosure, Panics, PanicsInClosure, Panic, Fails, Crash, Goes
<1>2. panicked # "outer" /\ \E t : TracksHeights(frames, gens, t)
  BY <1>1 DEF HeightInv
<1>3. PICK t : TracksHeights(frames, gens, t)
  BY <1>2
<1>4. ~(Panics \/ PanicsInClosure)
  BY <1>3, HeightsPanic
<1>5. panicked' # "outer"
  BY <1>2, <1>4
     DEF Stepping, Stays, Loses, Opens, Opening, Closes, Abandons, Defines, Defining, Breaks,
         Breaking, Enters, Entering, Starts, Starting, Ends, Switches, OpensClosure,
         OpeningClosure, LeavesClosure, LeavingClosure, Fails, Crash, Goes
<1>6. CASE Opens
  <2>1. PICK g : \E f \in Frame : Opening(g, f)
    BY <1>6 DEF Opens
  <2>2. PICK f \in Frame : Opening(g, f)
    BY <2>1
  <2> QED
    BY <1>3, <1>5, <2>2, HeightsOpen
<1>7. CASE Enters
  <2>1. PICK g : \E f \in Frame :
                   /\ Entering(g, f)
                   /\ \/ EnteringFor(g, f)
                      \/ \E n \in Names, i \in Var, s \in Var, v \in Var :
                           EnteringForIter(g, f, n, i, s, v)
    BY <1>7 DEF Enters
  <2>2. PICK f \in Frame :
                   /\ Entering(g, f)
                   /\ \/ EnteringFor(g, f)
                      \/ \E n \in Names, i \in Var, s \in Var, v \in Var :
                           EnteringForIter(g, f, n, i, s, v)
    BY <2>1
  <2> QED
    BY <1>3, <1>5, <2>2, HeightsEnter
<1>8. CASE Loses
  BY <1>8 DEF Loses
<1>9. CASE Fails
  BY <1>3, <1>5, <1>9 DEF Fails, Crash
<1> QED
  BY <1>3, <1>4, <1>5, <1>6, <1>7, <1>8, <1>9, HeightsStay, HeightsClose, HeightsAbandon,
     HeightsDefine, HeightsBreak, HeightsStart, HeightsEnd, HeightsSwitch,
     HeightsOpenClosure, HeightsLeaveClosure DEF Stepping

LEMMA HeightInit == ASSUME Init PROVE HeightInv
<1>1. PICK k : k = [j \in 0..0 |-> 0]
  OBVIOUS
<1>2. Len(frames) = 0 /\ k \in [0..0 -> Nat] /\ k[0] = 0 /\ panicked # "outer"
  BY <1>1 DEF Init
<1>3. gens[Len(gens)].has_modules /\ 0 <= Len(gens[Len(gens)].environments)
  <2>1. Len(gens) = 1 /\ gens[1] = NewGenerator
    BY DEF Init
  <2>2. NewGenerator.has_modules /\ NewGenerator.environments = <<>>
    BY DEF NewGenerator
  <2> QED
    BY <2>1, <2>2
<1>4. TracksHeights(frames, gens, k)
  BY <1>2, <1>3 DEF TracksHeights
<1> QED
  BY <1>2, <1>4 DEF HeightInv

(* Until a closure's signature has an unknown type, the generator has a    *)
(* scope for each construct that opened one, and so has each generator     *)
(* that waits for a closure (begin_scope, end_scope, for_closure).         *)
THEOREM HeightInvariant == Spec => []HeightInv
<1>1. Init => HeightInv
  BY HeightInit
<1>2. TypeInv /\ TypeInv' /\ HeightInv /\ [Next]_vars => HeightInv'
  <2>1. ASSUME HeightInv, UNCHANGED vars PROVE HeightInv'
    BY <2>1 DEF vars, HeightInv
  <2>2. ASSUME TypeInv, TypeInv', HeightInv, Next PROVE HeightInv'
    <3>1. Stepping
      BY <2>2, Steps
    <3>2. "E300" \notin found' =>
            panicked' # "outer" /\ \E k : TracksHeights(frames', gens', k)
      BY <2>2, <3>1, HeightStep
    <3> QED
      BY <3>2 DEF HeightInv
  <2> QED
    BY <2>1, <2>2
<1> QED
  BY <1>1, <1>2, TypeInvariant, PTL DEF Spec

(* What for_closure takes from the outer generator is back before it is    *)
(* needed: environments.last_mut().unwrap() and modules[0] find what they  *)
(* unwrap, unless an unknown type in the signature of a closure was met,   *)
(* when the loan is never given back.  Other panics, over the contents of  *)
(* a string literal or for want of its type, are not spoken of.            *)
THEOREM LoansAreReturned == Spec => []LoansReturned
<1>1. HeightInv => LoansReturned
  BY DEF HeightInv, LoansReturned
<1> QED
  BY <1>1, HeightInvariant, PTL

-----------------------------------------------------------------------------
(* What the scopes hold: a name means what the source means by it.         *)

Named(envs) == \A k \in 1..Len(envs) : NamedScope(envs[k])

LEMMA NamedAppend ==
  ASSUME NEW envs \in Seq(Environment), NEW s \in Environment, NamedScope(s), Named(envs)
  PROVE  Named(Append(envs, s))
<1>1. PICK x : x = Append(envs, s)
  OBVIOUS
<1>2. PICK m : m = Len(envs)
  OBVIOUS
<1>3. m \in Nat /\ Len(x) = m + 1 /\ x[m + 1] = s /\ \A k \in 1..m : x[k] = envs[k]
  BY <1>1, <1>2, Begun
<1>4. \A k \in 1..(m + 1) : k \in 1..m \/ k = m + 1
  BY <1>3
<1>5. Named(x)
  BY <1>2, <1>3, <1>4 DEF Named
<1> QED
  BY <1>1, <1>5

LEMMA NamedLast ==
  ASSUME NEW envs \in Seq(Environment), NEW s \in Environment, Named(Append(envs, s))
  PROVE  NamedScope(s) /\ Named(envs)
<1>1. PICK x : x = Append(envs, s)
  OBVIOUS
<1>2. PICK m : m = Len(envs)
  OBVIOUS
<1>3. m \in Nat /\ Len(x) = m + 1 /\ x[m + 1] = s /\ \A k \in 1..m : x[k] = envs[k]
  BY <1>1, <1>2, Begun
<1>4. /\ \A k \in 1..m : k \in 1..(m + 1)
      /\ m + 1 \in 1..(m + 1)
  BY <1>3
<1> QED
  BY <1>1, <1>2, <1>3, <1>4 DEF Named

LEMMA DefineLast ==
  ASSUME NEW envs \in Seq(Environment), NEW s \in Environment, NEW n \in Names, NEW v \in Var
  PROVE  /\ [s EXCEPT ![n] = v] \in Environment
         /\ Define(Append(envs, s), n, v) = Append(envs, [s EXCEPT ![n] = v])
<1>1. PICK r : r = [s EXCEPT ![n] = v]
  OBVIOUS
<1>2. r \in Environment
  BY <1>1 DEF Environment
<1>3. PICK x : x = Append(envs, s)
  OBVIOUS
<1>4. PICK y : y = Append(envs, r)
  OBVIOUS
<1>5. PICK m : m = Len(envs)
  OBVIOUS
<1>6. /\ x \in Seq(Environment) /\ x # <<>> /\ m \in Nat /\ Len(x) = m + 1 /\ x[m + 1] = s
      /\ \A k \in 1..m : x[k] = envs[k]
  BY <1>3, <1>5, Begun
<1>7. /\ y \in Seq(Environment) /\ Len(y) = m + 1 /\ y[m + 1] = r
      /\ \A k \in 1..m : y[k] = envs[k]
  BY <1>2, <1>4, <1>5, Begun
<1>8. PICK z : z = Define(x, n, v)
  OBVIOUS
<1>9. /\ z \in Seq(Environment) /\ Len(z) = m + 1
      /\ z = [x EXCEPT ![m + 1] = [x[m + 1] EXCEPT ![n] = v]]
  <2>1. x \in Seq(Environment) /\ x # <<>> /\ Len(x) = m + 1
    BY ONLY <1>6
  <2> QED
    <3>1. /\ Define(x, n, v) \in Seq(Environment) /\ Len(Define(x, n, v)) = Len(x)
          /\ Define(x, n, v) = [x EXCEPT ![Len(x)] = [@ EXCEPT ![n] = v]]
      BY ONLY <2>1, n \in Names, v \in Var, Defined
    <3> QED
      BY ONLY <1>8, <2>1, <3>1
<1>10. z[m + 1] = r /\ \A k \in 1..m : z[k] = envs[k]
  <2>1. DOMAIN x = 1..(m + 1) /\ m + 1 \in 1..(m + 1)
        /\ \A k \in 1..m : k # m + 1 /\ k \in 1..(m + 1)
    BY <1>6, LenProperties
  <2> QED
    BY <1>1, <1>6, <1>9, <2>1
<1>11. \A k \in 1..(m + 1) : z[k] = y[k]
  <2>1. \A k \in 1..(m + 1) : k \in 1..m \/ k = m + 1
    BY <1>6
  <2> QED
    BY <1>7, <1>10, <2>1
<1>12. z = y
  BY <1>7, <1>9, <1>11, SeqEqual
<1> QED
  BY <1>1, <1>2, <1>3, <1>4, <1>8, <1>12

LEMMA InnermostEmpty == ASSUME NEW n \in Names PROVE Innermost(<<>>, n) = None
<1>1. DOMAIN <<>> = {}
  OBVIOUS
<1>2. {k \in DOMAIN <<>> : <<>>[k][n] # None} = {}
  BY <1>1
<1> QED
  BY <1>2 DEF Innermost

LEMMA InnermostAppend ==
  ASSUME NEW envs \in Seq(Environment), NEW s \in Environment, NEW n \in Names
  PROVE  Innermost(Append(envs, s), n) = IF s[n] # None THEN s[n] ELSE Innermost(envs, n)
<1>1. PICK x : x = Append(envs, s)
  OBVIOUS
<1>2. PICK m : m = Len(envs)
  OBVIOUS
<1>3. /\ x \in Seq(Environment) /\ m \in Nat /\ Len(x) = m + 1 /\ x[m + 1] = s
      /\ \A k \in 1..m : x[k] = envs[k]
  BY <1>1, <1>2, Begun
<1>4. /\ \A k \in 1..(m + 1) : k \in 1..m \/ k = m + 1
      /\ \A k \in 1..m : k \in 1..(m + 1) /\ k < m + 1
      /\ m + 1 \in 1..(m + 1)
  BY <1>3
<1>5. \/ /\ Innermost(x, n) = None /\ \A k \in 1..(m + 1) : x[k][n] = None
      \/ \E j \in 1..(m + 1) : /\ Innermost(x, n) = x[j][n] /\ x[j][n] # None
                               /\ \A k \in 1..(m + 1) : k > j => x[k][n] = None
  BY <1>3, InnermostIs
<1>6. \/ /\ Innermost(envs, n) = None /\ \A k \in 1..m : envs[k][n] = None
      \/ \E j \in 1..m : /\ Innermost(envs, n) = envs[j][n] /\ envs[j][n] # None
                         /\ \A k \in 1..m : k > j => envs[k][n] = None
  BY <1>2, InnermostIs
<1>7. CASE s[n] # None
  <2>1. Innermost(x, n) = s[n]
    <3>1. PICK j \in 1..(m + 1) : /\ Innermost(x, n) = x[j][n] /\ x[j][n] # None
                                  /\ \A k \in 1..(m + 1) : k > j => x[k][n] = None
      BY <1>3, <1>4, <1>5, <1>7
    <3>2. j = m + 1
      BY <1>3, <1>4, <1>7, <3>1
    <3> QED
      BY <1>3, <3>1, <3>2
  <2> QED
    BY <1>1, <1>7, <2>1
<1>8. CASE s[n] = None
  <2>1. Innermost(x, n) = Innermost(envs, n)
    <3>1. CASE Innermost(x, n) = None /\ \A k \in 1..(m + 1) : x[k][n] = None
      <4>1. \A k \in 1..m : envs[k][n] = None
        BY <1>3, <1>4, <3>1
      <4> QED
        BY <1>6, <3>1, <4>1
    <3>2. CASE \E j \in 1..(m + 1) : /\ Innermost(x, n) = x[j][n] /\ x[j][n] # None
                                     /\ \A k \in 1..(m + 1) : k > j => x[k][n] = None
      <4>1. PICK j \in 1..(m + 1) : /\ Innermost(x, n) = x[j][n] /\ x[j][n] # None
                                    /\ \A k \in 1..(m + 1) : k > j => x[k][n] = None
        BY <3>2
      <4>2. j \in 1..m
        BY <1>3, <1>4, <1>8, <4>1
      <4>3. envs[j][n] # None /\ Innermost(x, n) = envs[j][n]
        BY <1>3, <4>1, <4>2
      <4>4. \A k \in 1..m : k > j => envs[k][n] = None
        BY <1>3, <1>4, <4>1
      <4>5. PICK i \in 1..m : /\ Innermost(envs, n) = envs[i][n] /\ envs[i][n] # None
                              /\ \A k \in 1..m : k > i => envs[k][n] = None
        BY <1>6, <4>2, <4>3
      <4>6. ~(i > j) /\ ~(j > i)
        BY <4>2, <4>3, <4>4, <4>5
      <4>7. i = j
        BY <1>3, <4>2, <4>6
      <4> QED
        BY <4>3, <4>5, <4>7
    <3> QED
      BY <1>5, <3>1, <3>2
  <2> QED
    BY <1>1, <1>8, <2>1
<1> QED
  BY <1>7, <1>8

LEMMA InnermostNamed ==
  ASSUME NEW envs \in Seq(Environment), Named(envs), NEW n \in Names, Innermost(envs, n) # None
  PROVE  Innermost(envs, n).name = n /\ Innermost(envs, n) \in Var
<1>1. PICK m \in 1..Len(envs) : /\ Innermost(envs, n) = envs[m][n] /\ envs[m][n] # None
                                /\ envs[m][n] \in Var
  BY InnermostIs
<1> QED
  BY <1>1 DEF Named, NamedScope

(* The scopes inside of a construct, from those around.  A loop over an    *)
(* iterator has two: together they hold what its construct declares.       *)
ScopesAt(f, around, within) ==
  IF f.kind = "function" THEN within = <<f.scope>>
  ELSE IF f.kind = "closure" THEN within = <<Empty, f.scope>>
  ELSE IF f.kind = "for_iter" /\ Entered(f)
  THEN \E s, r \in Environment :
         /\ within = Append(Append(around, s), r)
         /\ \A n \in Names \ {Iter} : f.scope[n] = IF r[n] # None THEN r[n] ELSE s[n]
  ELSE IF f.kind \in {"block", "branch", "for_iter"} \/ (f.kind = "for" /\ Entered(f))
  THEN within = Append(around, f.scope)
  ELSE within = around /\ f.scope = Empty

(* A closure's generator knows the scopes around it, and has captured what *)
(* these mean by a name.                                                   *)
Remembers(h, envs) ==
  h.outer_env = envs /\ \A v \in h.captured : v = Innermost(envs, v.name)

KeepsScopes(fs, gs, e) ==
  /\ e \in [0..Len(fs) -> Seq(Environment)] /\ e[0] = <<>>
  /\ \A i \in 0..Len(fs) : Named(e[i])
  /\ \A i \in 1..Len(fs) : ScopesAt(fs[i], e[i - 1], e[i])
  /\ \A i \in 1..Len(fs) : fs[i].kind = "closure" => Remembers(gs[Number(fs, i)], e[i - 1])

(* e[i] are the scopes inside of the i-th construct, innermost last.       *)
TracksScopes(fs, gs, e) ==
  KeepsScopes(fs, gs, e) /\ gs[Len(gs)].environments = e[Len(fs)]

ScopeInv == Undisturbed => \E e : TracksScopes(frames, gens, e)

(* Constructs with the same declarations.                                  *)
Declaring(fs, r) ==
  /\ Len(r) = Len(fs)
  /\ \A i \in 1..Len(fs) : /\ r[i].kind = fs[i].kind /\ r[i].scope = fs[i].scope
                           /\ Entered(r[i]) <=> Entered(fs[i])

LEMMA DeclaringAlike ==
  ASSUME NEW fs, NEW x, NEW r, Declaring(fs, x), Alike(x, r)
  PROVE  Declaring(fs, r)
BY DEF Declaring, Alike, Entered

LEMMA ScopesDeclaring ==
  ASSUME NEW fs, Len(fs) \in Nat, NEW r, Declaring(fs, r),
         NEW gs, NEW e, KeepsScopes(fs, gs, e)
  PROVE  KeepsScopes(r, gs, e)
<1>1. ASSUME NEW i \in 1..Len(fs)
      PROVE  /\ ScopesAt(r[i], e[i - 1], e[i])
             /\ r[i].kind = "closure" => Remembers(gs[Number(r, i)], e[i - 1])
  <2>1. ScopesAt(fs[i], e[i - 1], e[i])
    BY DEF KeepsScopes
  <2>2. ScopesAt(r[i], e[i - 1], e[i])
    <3>1. /\ r[i].kind = fs[i].kind /\ r[i].scope = fs[i].scope
          /\ Entered(r[i]) <=> Entered(fs[i])
      BY DEF Declaring
    <3> QED
      BY ONLY <2>1, <3>1 DEF ScopesAt
  <2>3. i \in Nat /\ \A k \in 1..i : r[k].kind = fs[k].kind
    BY DEF Declaring
  <2>4. Number(r, i) = Number(fs, i)
    BY <2>3, NumberSame
  <2> QED
    BY <2>2, <2>3, <2>4 DEF KeepsScopes, Declaring
<1> QED
  BY <1>1 DEF KeepsScopes, Declaring

(* What is looked up around a closure is what a name means there.          *)
LEMMA GoesRemember ==
  ASSUME TypeInv, NEW g, NEW x, Goes(g, x), NEW e, KeepsScopes(frames, gens, e)
  PROVE  KeepsScopes(frames, gens', e)
<1>1. PICK c : c = Len(gens)
  OBVIOUS
<1>2. /\ c \in Nat \ {0} /\ Len(gens') = c /\ gens'[c] = g
      /\ \A k \in 1..c : k # c => gens'[k] = gens[k]
  BY <1>1, GoesGens
<1>3. gen = gens[c] /\ (gen.is_closure <=> c > 1)
  BY <1>1, GenTyped
<1>4. ASSUME NEW i \in 1..Len(frames), frames[i].kind = "closure"
      PROVE  Remembers(gens'[Number(frames, i)], e[i - 1])
  <2>1. PICK k : k = Number(frames, i)
    OBVIOUS
  <2>2. k \in 2..c
    BY <1>1, <1>4, <2>1, ClosureNumbers
  <2>3. k \in 1..c
    BY <1>2, <2>2
  <2>4. Remembers(gens[k], e[i - 1])
    BY <1>4, <2>1 DEF KeepsScopes
  <2>5. CASE k # c
    BY <1>2, <2>1, <2>3, <2>4, <2>5
  <2>6. CASE k = c
    <3>1. gen.is_closure
      BY <1>2, <1>3, <2>2, <2>6
    <3>2. /\ g.outer_env = gen.outer_env
          /\ \A v \in g.captured : v \in gen.captured \/ \E n \in Names : v \in Capture(gen, n)
      BY DEF Goes
    <3>3. gen.outer_env = e[i - 1] /\ \A v \in gen.captured : v = Innermost(e[i - 1], v.name)
      BY <1>3, <2>4, <2>6 DEF Remembers
    <3>4. Named(e[i - 1]) /\ e[i - 1] \in Seq(Environment)
      <4>1. i - 1 \in 0..Len(frames)
        BY ClosureNumbers
      <4> QED
        BY <4>1 DEF KeepsScopes
    <3>5. ASSUME NEW v, NEW n \in Names, v \in Capture(gen, n)
          PROVE  v = Innermost(e[i - 1], v.name)
      <4>1. v = Innermost(e[i - 1], n) /\ v # None
        BY <3>1, <3>3, <3>5 DEF Capture, Outer
      <4>2. v.name = n
        BY <3>4, <4>1, InnermostNamed
      <4> QED
        BY <4>1, <4>2
    <3>6. \A v \in g.captured : v = Innermost(e[i - 1], v.name)
      BY <3>2, <3>3, <3>5
    <3> QED
      BY <1>2, <2>1, <2>6, <3>2, <3>3, <3>6 DEF Remembers
  <2> QED
    BY <2>5, <2>6
<1> QED
  BY <1>4 DEF KeepsScopes

LEMMA ScopesStay ==
  ASSUME TypeInv, NEW g, NEW x, Goes(g, x), Declaring(frames, x), SameScopes(g),
         NEW e, TracksScopes(frames, gens, e)
  PROVE  \E k : TracksScopes(frames', gens', k)
<1>1. Len(frames) \in Nat
  BY ClosureNumbers
<1>2. KeepsScopes(frames, gens', e)
  BY GoesRemember DEF TracksScopes
<1>3. Declaring(frames, frames')
  BY DeclaringAlike DEF Goes
<1>4. KeepsScopes(frames', gens', e)
  BY <1>1, <1>2, <1>3, ScopesDeclaring
<1>5. gens'[Len(gens')].environments = e[Len(frames)]
  BY GoesKeeps DEF TracksScopes, SameScopes
<1>6. Len(frames') = Len(frames)
  BY <1>3 DEF Declaring
<1> QED
  BY <1>4, <1>5, <1>6 DEF TracksScopes

LEMMA ShorterKept ==
  ASSUME TypeInv, Inner, NEW hs, NEW e, KeepsScopes(frames, hs, e), NEW n, n = Len(frames),
         NEW p, p = Pop(frames), NEW k, k = Shorter(e, n - 1)
  PROVE  KeepsScopes(p, hs, k) /\ k[n - 1] = e[n - 1] /\ Len(p) = n - 1 /\ n \in Nat \ {0, 1}
<1>1. /\ n \in Nat \ {0, 1} /\ Len(p) = n - 1 /\ frames \in Seq(Frame)
      /\ \A j \in 1..(n - 1) : p[j] = frames[j]
  <2>1. frames \in Seq(Frame) /\ frames # <<>>
    BY DEF Inner, TypeInv, Framed
  <2> QED
    BY <2>1, Back, PopProperties DEF Inner
<1>2. /\ e \in [0..n -> Seq(Environment)] /\ e[0] = <<>>
      /\ \A j \in 0..n : Named(e[j])
      /\ \A j \in 1..n : ScopesAt(frames[j], e[j - 1], e[j])
      /\ \A j \in 1..n : frames[j].kind = "closure" =>
           Remembers(hs[Number(frames, j)], e[j - 1])
  BY DEF KeepsScopes
<1>3. \A j \in 0..(n - 1) : j \in 0..n
  BY <1>1
<1>4. /\ k \in [0..(n - 1) -> Seq(Environment)] /\ \A j \in 0..(n - 1) : k[j] = e[j]
  BY <1>2, <1>3 DEF Shorter
<1>5. ASSUME NEW j \in 1..(n - 1)
      PROVE  /\ ScopesAt(p[j], k[j - 1], k[j])
             /\ p[j].kind = "closure" => Remembers(hs[Number(p, j)], k[j - 1])
  <2>1. /\ j \in Nat /\ j \in 1..n /\ j \in 0..(n - 1) /\ j - 1 \in 0..(n - 1)
        /\ \A i \in 1..j : i \in 1..(n - 1)
    BY <1>1
  <2>2. k[j - 1] = e[j - 1] /\ k[j] = e[j] /\ p[j] = frames[j]
    BY <1>1, <1>4, <2>1
  <2>3. Number(p, j) = Number(frames, j)
    BY <1>1, <2>1, NumberSame
  <2> QED
    BY <1>2, <2>1, <2>2, <2>3
<1>6. k[0] = <<>> /\ k[n - 1] = e[n - 1]
  <2>1. 0 \in 0..(n - 1) /\ n - 1 \in 0..(n - 1)
    BY <1>1
  <2> QED
    BY <1>2, <1>4, <2>1
<1> QED
  BY <1>1, <1>2, <1>3, <1>4, <1>5, <1>6 DEF KeepsScopes

LEMMA ScopesBack ==
  ASSUME TypeInv, Inner, NEW g, NEW x, Goes(g, x), NEW p, p = Pop(frames), Declaring(p, x),
         NEW n, n = Len(frames), NEW e, TracksScopes(frames, gens, e),
         g.environments = e[n - 1]
  PROVE  \E k : TracksScopes(frames', gens', k)
<1>1. KeepsScopes(frames, gens', e)
  BY GoesRemember DEF TracksScopes
<1>2. PICK hs : hs = gens'
  OBVIOUS
<1>3. PICK k : k = Shorter(e, n - 1)
  OBVIOUS
<1>4. KeepsScopes(p, hs, k) /\ k[n - 1] = e[n - 1] /\ Len(p) = n - 1 /\ n \in Nat \ {0, 1}
  <2>1. TypeInv /\ Inner /\ KeepsScopes(frames, hs, e)
    BY <1>1, <1>2
  <2> QED
    BY ONLY <1>3, <2>1, p = Pop(frames), n = Len(frames), ShorterKept
<1>5. Declaring(p, frames')
  BY DeclaringAlike DEF Goes
<1>6. KeepsScopes(frames', gens', k)
  BY <1>2, <1>4, <1>5, ScopesDeclaring
<1>7. Len(frames') = n - 1 /\ gens'[Len(gens')] = g
  BY <1>4, <1>5, GoesKeeps DEF Declaring
<1> QED
  BY <1>4, <1>6, <1>7 DEF TracksScopes

(* The scopes that a construct opened are those that end with it.          *)
LEMMA ScopesClose ==
  ASSUME TypeInv, Closes, NEW e, TracksScopes(frames, gens, e)
  PROVE  \E k : TracksScopes(frames', gens', k)
<1>1. PICK g : /\ Inner /\ (top.kind = "for_iter" => Entered(top))
               /\ Goes(g, Pop(frames))
               /\ g.environments = Left(top, gen.environments)
  BY DEF Closes
<1>2. PICK n : n = Len(frames)
  OBVIOUS
<1>3. PICK p : p = Pop(frames)
  OBVIOUS
<1>4. /\ n \in Nat \ {0, 1} /\ n \in 1..n /\ n \in 0..n /\ n - 1 \in 0..n
      /\ top = frames[n] /\ gen = gens[Len(gens)] /\ top \in Frame
  <2>1. n \in Nat \ {0, 1} /\ top = frames[n] /\ top \in Frame
    BY <1>1, <1>2, Back DEF Inner
  <2> QED
    BY <2>1, GenTyped
<1>5. PICK a : a = e[n - 1]
  OBVIOUS
<1>6. /\ a \in Seq(Environment) /\ ScopesAt(top, a, e[n]) /\ gen.environments = e[n]
      /\ top.scope \in Environment
  BY <1>2, <1>4, <1>5 DEF TracksScopes, KeepsScopes, Frame
<1>7. g.environments = a
  <2>1. CASE top.kind \in {"block", "branch"} \/ (top.kind = "for" /\ Entered(top))
    <3>1. e[n] = Append(a, top.scope)
      BY <1>6, <2>1 DEF ScopesAt
    <3>2. g.environments = EndScope(gen.environments)
      BY <1>1, <2>1 DEF Left
    <3>3. EndScope(Append(a, top.scope)) = a
      BY <1>6, Begun
    <3> QED
      BY <1>6, <3>1, <3>2, <3>3
  <2>2. CASE top.kind = "for_iter"
    <3>1. PICK s, r \in Environment : e[n] = Append(Append(a, s), r)
      BY <1>1, <1>6, <2>2 DEF ScopesAt
    <3>2. g.environments = EndScope(EndScope(gen.environments))
      BY <1>1, <2>2 DEF Left
    <3>3. PICK b : b = Append(a, s)
      OBVIOUS
    <3>4. b \in Seq(Environment) /\ EndScope(b) = a
      BY <1>6, <3>3, Begun
    <3>5. EndScope(e[n]) = b
      BY <3>1, <3>3, <3>4, Begun
    <3> QED
      BY <1>6, <3>2, <3>4, <3>5
  <2>3. CASE /\ top.kind \notin {"block", "branch", "for_iter"}
             /\ ~(top.kind = "for" /\ Entered(top))
    <3>1. e[n] = a
      BY <1>1, <1>6, <2>3 DEF ScopesAt, Inner
    <3>2. g.environments = gen.environments
      BY <1>1, <2>3 DEF Left
    <3> QED
      BY <1>6, <3>1, <3>2
  <2> QED
    BY <2>1, <2>2, <2>3
<1>8. Declaring(p, p) /\ Goes(g, p)
  BY <1>1, <1>3 DEF Declaring
<1> QED
  BY <1>1, <1>2, <1>3, <1>5, <1>7, <1>8, ScopesBack

LEMMA DeclaringSet ==
  ASSUME NEW fs, Framed(fs), fs # <<>>, NEW ty \in LoopTypes, NEW r, r = SetLoop(fs, ty)
  PROVE  Declaring(fs, r)
<1>1. CASE r = fs
  BY <1>1 DEF Declaring
<1>2. CASE Len(r) = Len(fs) /\ \E m \in 1..Len(fs) :
             /\ fs[m].kind \in Loops /\ fs[m].loop # None
             /\ r[m] = [fs[m] EXCEPT !.loop = SetLoopType(fs[m].loop, ty)]
             /\ \A j \in 1..Len(fs) : j # m => r[j] = fs[j]
  <2>1. PICK m \in 1..Len(fs) :
             /\ fs[m].kind \in Loops /\ fs[m].loop # None
             /\ r[m] = [fs[m] EXCEPT !.loop = SetLoopType(fs[m].loop, ty)]
             /\ \A j \in 1..Len(fs) : j # m => r[j] = fs[j]
    BY <1>2
  <2>2. fs[m] \in Frame
    BY ElementOfSeq DEF Framed
  <2>3. SetLoopType(fs[m].loop, ty) # None
    BY <2>1, <2>2, SpecialValues DEF SetLoopType
  <2>4. /\ r[m].kind = fs[m].kind /\ r[m].scope = fs[m].scope
        /\ Entered(r[m]) <=> Entered(fs[m])
    BY <2>1, <2>2, <2>3 DEF Entered, Frame
  <2> QED
    BY <1>2, <2>1, <2>4 DEF Declaring
<1> QED
  BY <1>1, <1>2, SetLoopTyped

LEMMA ScopesBreak ==
  ASSUME TypeInv, Breaks, NEW e, TracksScopes(frames, gens, e)
  PROVE  \E k : TracksScopes(frames', gens', k)
<1>1. PICK g, fs : \E ty \in LoopTypes : Breaking(g, fs, ty)
  BY DEF Breaks
<1>2. PICK ty \in LoopTypes : Breaking(g, fs, ty)
  BY <1>1
<1>3. PICK x : x = SetLoop(fs, ty)
  OBVIOUS
<1>4. /\ Inner /\ Goes(g, x) /\ SameScopes(g)
      /\ \/ top.kind = "break" /\ fs = Pop(frames)
         \/ Entered(top) /\ fs = frames
  BY <1>2, <1>3 DEF Breaking
<1>5. PICK n : n = Len(frames)
  OBVIOUS
<1>6. n \in 1..n /\ top = frames[n] /\ gen = gens[Len(gens)]
  <2>1. n \in Nat \ {0, 1} /\ top = frames[n]
    BY <1>4, <1>5, Back DEF Inner
  <2> QED
    BY <2>1, GenTyped
<1>7. CASE top.kind = "break" /\ fs = Pop(frames)
  <2>1. gen.environments = e[n - 1]
    BY <1>5, <1>6, <1>7 DEF TracksScopes, KeepsScopes, ScopesAt
  <2>2. Framed(fs) /\ fs # <<>>
    BY <1>4, <1>7, Back DEF Inner, Awaiting
  <2>3. Declaring(fs, x)
    BY <1>3, <2>2, DeclaringSet
  <2> QED
    BY <1>4, <1>5, <1>7, <2>1, <2>3, ScopesBack DEF SameScopes
<1>8. CASE Entered(top) /\ fs = frames
  <2>1. Framed(fs) /\ fs # <<>>
    BY <1>4, <1>8 DEF Inner, TypeInv
  <2>2. Declaring(fs, x)
    BY <1>3, <2>1, DeclaringSet
  <2> QED
    BY <1>4, <1>8, <2>2, ScopesStay
<1> QED
  BY <1>4, <1>7, <1>8

LEMMA OneNamed ==
  ASSUME NEW s \in Environment, OneName(s)
  PROVE  NamedScope(s)
BY SpecialValues DEF OneName, NamedScope, Empty, Environment

LEMMA ScopesOpen ==
  ASSUME TypeInv, TypeInv', NEW g, NEW f \in Frame, Opening(g, f),
         NEW e, TracksScopes(frames, gens, e)
  PROVE  \E k : TracksScopes(frames', gens', k)
<1>1. PICK n : n = Len(frames)
  OBVIOUS
<1>2. PICK r : r = Append(frames, f)
  OBVIOUS
<1>3. n \in Nat /\ frames \in Seq(Frame) /\ n \in 0..n
  <2>1. n \in Nat /\ frames \in Seq(Frame)
    BY <1>1, ClosureNumbers DEF TypeInv, Framed
  <2> QED
    BY <2>1
<1>4. Len(r) = n + 1 /\ r[n + 1] = f /\ \A j \in 1..n : r[j] = frames[j]
  BY <1>1, <1>2, <1>3, AppendProperties
<1>5. /\ f.kind \notin {"function", "closure"} /\ ~Entered(f) /\ Goes(g, r)
      /\ IF f.kind \in {"block", "branch", "for_iter"}
         THEN g.environments = Append(gen.environments, f.scope) /\ OneName(f.scope)
         ELSE g.environments = gen.environments /\ f.scope = Empty
  BY <1>2 DEF Opening, Entered, SameScopes
<1>6. KeepsScopes(frames, gens', e)
  BY <1>5, GoesRemember DEF TracksScopes
<1>7. /\ e \in [0..n -> Seq(Environment)] /\ e[0] = <<>>
      /\ \A j \in 0..n : Named(e[j])
      /\ \A j \in 1..n : ScopesAt(frames[j], e[j - 1], e[j])
      /\ \A j \in 1..n : frames[j].kind = "closure" =>
           Remembers(gens'[Number(frames, j)], e[j - 1])
  BY <1>1, <1>6 DEF KeepsScopes
<1>8. gen.environments = e[n] /\ e[n] \in Seq(Environment) /\ Named(e[n])
  BY <1>1, <1>3, <1>7, GenTyped DEF TracksScopes
<1>9. PICK h : h = g.environments
  OBVIOUS
<1>10. /\ ScopesAt(f, e[n], h) /\ h \in Seq(Environment) /\ Named(h)
  <2>1. CASE f.kind \in {"block", "branch", "for_iter"}
    <3>1. f.scope \in Environment /\ NamedScope(f.scope)
      BY <1>5, <2>1, OneNamed DEF Frame
    <3>2. h = Append(e[n], f.scope)
      BY <1>5, <1>8, <1>9, <2>1
    <3>3. h \in Seq(Environment) /\ Named(h)
      BY <1>8, <3>1, <3>2, Begun, NamedAppend
    <3> QED
      BY <1>5, <2>1, <3>2, <3>3 DEF ScopesAt
  <2>2. CASE f.kind \notin {"block", "branch", "for_iter"}
    BY <1>5, <1>8, <1>9, <2>2 DEF ScopesAt
  <2> QED
    BY <2>1, <2>2
<1>11. PICK k : k = [j \in 0..(n + 1) |-> IF j = n + 1 THEN h ELSE e[j]]
  OBVIOUS
<1>12. /\ k \in [0..(n + 1) -> Seq(Environment)] /\ k[n + 1] = h
       /\ \A j \in 0..n : k[j] = e[j]
       /\ \A j \in 0..(n + 1) : Named(k[j])
  <2>1. \A j \in 0..(n + 1) : j = n + 1 \/ j \in 0..n
    BY <1>3
  <2>2. \A j \in 0..n : j # n + 1 /\ j \in 0..(n + 1)
    BY <1>3
  <2>3. n + 1 \in 0..(n + 1)
    BY <1>3
  <2>4. /\ k \in [0..(n + 1) -> Seq(Environment)] /\ k[n + 1] = h
        /\ \A j \in 0..n : k[j] = e[j]
    BY <1>7, <1>10, <1>11, <2>1, <2>2, <2>3
  <2> QED
    BY <1>7, <1>10, <2>1, <2>4
<1>13. ASSUME NEW j \in 1..(n + 1)
       PROVE  /\ ScopesAt(r[j], k[j - 1], k[j])
              /\ r[j].kind = "closure" => Remembers(gens'[Number(r, j)], k[j - 1])
  <2>1. CASE j = n + 1
    <3>1. k[j - 1] = e[n] /\ k[j] = h /\ r[j] = f
      BY <1>3, <1>4, <1>12, <2>1
    <3> QED
      BY <1>5, <1>10, <3>1
  <2>2. CASE j \in 1..n
    <3>1. j \in Nat /\ j \in 0..n /\ j - 1 \in 0..n /\ \A i \in 1..j : i \in 1..n
      BY <1>3, <2>2
    <3>2. k[j - 1] = e[j - 1] /\ k[j] = e[j] /\ r[j] = frames[j]
      BY <1>4, <1>12, <2>2, <3>1
    <3>3. Number(r, j) = Number(frames, j)
      BY <1>4, <3>1, NumberSame
    <3> QED
      BY <1>7, <2>2, <3>2, <3>3
  <2> QED
    BY <1>3, <2>1, <2>2
<1>14. KeepsScopes(r, gens', k) /\ Len(r) \in Nat
  <2>1. k[0] = <<>>
    <3>1. 0 \in 0..n
      BY <1>3
    <3> QED
      BY <1>7, <1>12, <3>1
  <2> QED
    BY <1>3, <1>4, <1>12, <1>13, <2>1 DEF KeepsScopes
<1>15. Declaring(r, frames')
  BY <1>5, DeclaringAlike DEF Declaring, Goes
<1>16. KeepsScopes(frames', gens', k)
  BY <1>14, <1>15, ScopesDeclaring
<1>17. Len(frames') = n + 1 /\ gens'[Len(gens')] = g
  BY <1>4, <1>5, <1>15, GoesKeeps DEF Declaring
<1> QED
  BY <1>9, <1>12, <1>16, <1>17 DEF TracksScopes

LEMMA NamedChanged ==
  ASSUME NEW s \in Environment, NamedScope(s), NEW n \in Names, NEW v \in Var, v.name = n
  PROVE  [s EXCEPT ![n] = v] \in Environment /\ NamedScope([s EXCEPT ![n] = v])
BY DEF Environment, NamedScope

(* The scopes of a loop's body.                                            *)
LEMMA EnteredScopes ==
  ASSUME TypeInv, NEW g, NEW f \in Frame, Entered(f), f.kind = top.kind, top \in Frame,
         ~Entered(top), top.kind \in Loops,
         \/ EnteringFor(g, f)
         \/ \E n \in Names, i \in Var, t \in Var, v \in Var : EnteringForIter(g, f, n, i, t, v),
         NEW a \in Seq(Environment), Named(gen.environments),
         ScopesAt(top, a, gen.environments), NEW h, h = g.environments
  PROVE  ScopesAt(f, a, h) /\ h \in Seq(Environment) /\ Named(h)
<1>1. CASE EnteringFor(g, f)
  <2>1. gen.environments = a /\ f.kind = "for"
    BY <1>1 DEF EnteringFor, ScopesAt
  <2>2. f.scope \in Environment /\ NamedScope(f.scope)
    BY <1>1, OneNamed DEF EnteringFor, Frame
  <2>3. h = Append(a, f.scope)
    BY <1>1, <2>1 DEF EnteringFor
  <2>4. h \in Seq(Environment) /\ Named(h)
    BY <2>1, <2>2, <2>3, Begun, NamedAppend
  <2> QED
    BY <2>1, <2>3, <2>4 DEF ScopesAt
<1>2. CASE \E n \in Names, i \in Var, t \in Var, v \in Var : EnteringForIter(g, f, n, i, t, v)
  <2>1. PICK n \in Names, i \in Var, t \in Var, v \in Var : EnteringForIter(g, f, n, i, t, v)
    BY <1>2
  <2>2. /\ top.kind = "for_iter" /\ i.name = Iter /\ t.name = n /\ v.name = n
        /\ g.environments = Append(Define(Define(gen.environments, Iter, i), n, t),
                                   [Empty EXCEPT ![n] = v])
        /\ f.scope = [top.scope EXCEPT ![n] = v]
    BY <2>1 DEF EnteringForIter
  <2>3. PICK s : s = top.scope
    OBVIOUS
  <2>4. PICK s1 : s1 = [s EXCEPT ![Iter] = i]
    OBVIOUS
  <2>5. PICK s2 : s2 = [s1 EXCEPT ![n] = t]
    OBVIOUS
  <2>6. PICK q : q = [Empty EXCEPT ![n] = v]
    OBVIOUS
  <2>7. s \in Environment /\ Iter \in Names
    BY <2>3, SizesAndNames DEF Frame
  <2>8. gen.environments = Append(a, s)
    BY <2>2, <2>3 DEF ScopesAt
  <2>9. NamedScope(s) /\ Named(a)
    <3>1. Named(Append(a, s))
      BY <2>8
    <3> QED
      BY <2>7, <3>1, NamedLast
  <2>10. s1 \in Environment /\ NamedScope(s1)
    BY <2>2, <2>4, <2>7, <2>9, NamedChanged
  <2>11. s2 \in Environment /\ NamedScope(s2)
    BY <2>2, <2>5, <2>10, NamedChanged
  <2>12. q \in Environment /\ NamedScope(q)
    <3>1. Empty \in Environment /\ NamedScope(Empty)
      BY EmptyTyped DEF NamedScope, Empty
    <3> QED
      BY <2>2, <2>6, <3>1, NamedChanged
  <2>13. Define(Append(a, s), Iter, i) = Append(a, s1)
    <3>1. a \in Seq(Environment) /\ i \in Var
      BY <2>2
    <3>2. Define(Append(a, s), Iter, i) = Append(a, [s EXCEPT ![Iter] = i])
      BY ONLY <2>7, <3>1, DefineLast
    <3> QED
      BY ONLY <2>4, <3>2
  <2>14. Define(Append(a, s1), n, t) = Append(a, s2)
    <3>1. a \in Seq(Environment) /\ n \in Names /\ t \in Var
      BY <2>2
    <3>2. Define(Append(a, s1), n, t) = Append(a, [s1 EXCEPT ![n] = t])
      BY ONLY <2>10, <3>1, DefineLast
    <3> QED
      BY ONLY <2>5, <3>2
  <2>15. h = Append(Append(a, s2), q)
    BY <2>2, <2>6, <2>8, <2>13, <2>14
  <2>16. h \in Seq(Environment) /\ Named(h)
    <3>1. PICK b : b = Append(a, s2)
      OBVIOUS
    <3>2. b \in Seq(Environment) /\ Named(b)
      BY <2>9, <2>11, <3>1, Begun, NamedAppend
    <3>3. Append(b, q) \in Seq(Environment) /\ Named(Append(b, q))
      BY <2>12, <3>2, Begun, NamedAppend
    <3> QED
      BY <2>15, <3>1, <3>3
  <2>17. \A m \in Names \ {Iter} : f.scope[m] = IF q[m] # None THEN q[m] ELSE s2[m]
    <3> SUFFICES ASSUME NEW m \in Names \ {Iter}
                 PROVE  f.scope[m] = IF q[m] # None THEN q[m] ELSE s2[m]
      OBVIOUS
    <3>1. m \in DOMAIN s /\ m \in DOMAIN s1 /\ m \in DOMAIN Empty
      BY <2>7, <2>10 DEF Environment, Empty
    <3>2. f.scope[m] = IF m = n THEN v ELSE s[m]
      BY <2>2, <2>3, <3>1
    <3>3. q[m] = IF m = n THEN v ELSE None
      BY <2>6 DEF Empty
    <3>4. s2[m] = IF m = n THEN t ELSE s1[m]
      BY <2>5, <3>1
    <3>5. s1[m] = s[m]
      BY <2>4, <3>1
    <3>6. v # None
      BY SpecialValues
    <3> QED
      BY <3>2, <3>3, <3>4, <3>5, <3>6
  <2> QED
    BY <2>2, <2>11, <2>12, <2>15, <2>16, <2>17 DEF ScopesAt
<1> QED
  BY <1>1, <1>2

LEMMA ScopesEnter ==
  ASSUME TypeInv, NEW g, NEW f \in Frame, Entering(g, f),
         \/ EnteringFor(g, f)
         \/ \E n \in Names, i \in Var, t \in Var, v \in Var : EnteringForIter(g, f, n, i, t, v),
         NEW e, TracksScopes(frames, gens, e)
  PROVE  \E k : TracksScopes(frames', gens', k)
<1>1. PICK n : n = Len(frames)
  OBVIOUS
<1>2. PICK r : r = Replaced(frames, n, f)
  OBVIOUS
<1>3. /\ Inner /\ top.kind \in Loops /\ ~Entered(top) /\ Goes(g, r)
      /\ f.kind = top.kind /\ Entered(f)
  BY <1>1, <1>2, SpecialValues DEF Entering, Entered
<1>4. /\ n \in Nat \ {0, 1} /\ n \in 1..n /\ n \in 0..n /\ n - 1 \in 0..n
      /\ top = frames[n] /\ top \in Frame
  <2>1. n \in Nat \ {0, 1} /\ top = frames[n] /\ top \in Frame
    BY <1>1, <1>3, Back DEF Inner
  <2> QED
    BY <2>1
<1>5. frames \in Seq(Frame) /\ DOMAIN frames = 1..n
  BY <1>1, LenProperties DEF TypeInv, Framed
<1>6. /\ Len(r) = n /\ r[n] = f /\ \A j \in 1..n : j # n => r[j] = frames[j]
  <2>1. r = [frames EXCEPT ![n] = f]
    BY <1>2 DEF Replaced
  <2>2. Len(r) = Len(frames)
    BY <1>1, <1>4, <1>5, <2>1, ExceptSeq
  <2> QED
    BY <1>1, <1>4, <1>5, <2>1, <2>2
<1>7. KeepsScopes(frames, gens', e)
  BY <1>3, GoesRemember DEF TracksScopes
<1>8. /\ e \in [0..n -> Seq(Environment)] /\ e[0] = <<>>
      /\ \A j \in 0..n : Named(e[j])
      /\ \A j \in 1..n : ScopesAt(frames[j], e[j - 1], e[j])
      /\ \A j \in 1..n : frames[j].kind = "closure" =>
           Remembers(gens'[Number(frames, j)], e[j - 1])
  BY <1>1, <1>7 DEF KeepsScopes
<1>9. gen.environments = e[n]
  BY <1>1, GenTyped DEF TracksScopes
<1>10. PICK a : a = e[n - 1]
  OBVIOUS
<1>11. PICK h : h = g.environments
  OBVIOUS
<1>12. ScopesAt(f, a, h) /\ h \in Seq(Environment) /\ Named(h)
  <2>1. a \in Seq(Environment) /\ Named(gen.environments)
    BY <1>4, <1>8, <1>9, <1>10
  <2>2. ScopesAt(top, a, gen.environments)
    BY <1>4, <1>8, <1>9, <1>10
  <2>3. /\ f \in Frame
        /\ \/ EnteringFor(g, f)
           \/ \E m \in Names, i \in Var, t \in Var, v \in Var : EnteringForIter(g, f, m, i, t, v)
    OBVIOUS
  <2> QED
    BY ONLY TypeInv, <1>3, <1>4, <1>11, <2>1, <2>2, <2>3, EnteredScopes
<1>13. PICK k : k = [e EXCEPT ![n] = h]
  OBVIOUS
<1>14. /\ k \in [0..n -> Seq(Environment)] /\ k[n] = h /\ \A j \in 0..(n - 1) : k[j] = e[j]
       /\ \A j \in 0..n : Named(k[j])
  <2>1. \A j \in 0..(n - 1) : j \in 0..n /\ j # n
    BY <1>4
  <2>2. /\ k \in [0..n -> Seq(Environment)] /\ k[n] = h
        /\ \A j \in 0..n : j # n => k[j] = e[j]
    BY <1>4, <1>8, <1>12, <1>13
  <2> QED
    BY <1>8, <1>12, <2>1, <2>2
<1>15. \A j \in 1..n : r[j].kind = frames[j].kind
  BY <1>3, <1>4, <1>6
<1>16. ASSUME NEW j \in 1..n
       PROVE  /\ ScopesAt(r[j], k[j - 1], k[j])
              /\ r[j].kind = "closure" => Remembers(gens'[Number(r, j)], k[j - 1])
  <2>0. j - 1 \in 0..(n - 1) /\ j \in Nat /\ k[j - 1] = e[j - 1]
    BY <1>4, <1>14
  <2>1. CASE j = n
    BY <1>3, <1>6, <1>10, <1>12, <1>14, <2>0, <2>1 DEF Loops
  <2>2. CASE j # n
    <3>1. j \in 0..(n - 1) /\ \A i \in 1..j : i \in 1..n
      BY <1>4, <2>2
    <3>2. Number(r, j) = Number(frames, j)
      BY <1>15, <2>0, <3>1, NumberSame
    <3> QED
      BY <1>6, <1>8, <1>14, <2>0, <2>2, <3>1, <3>2
  <2> QED
    BY <2>1, <2>2
<1>17. KeepsScopes(r, gens', k) /\ Len(r) \in Nat
  <2>1. k[0] = <<>>
    <3>1. 0 \in 0..(n - 1)
      BY <1>4
    <3> QED
      BY <1>8, <1>14, <3>1
  <2> QED
    BY <1>4, <1>6, <1>14, <1>16, <2>1 DEF KeepsScopes
<1>18. Declaring(r, frames')
  BY <1>3, DeclaringAlike DEF Declaring, Goes
<1>19. KeepsScopes(frames', gens', k)
  BY <1>17, <1>18, ScopesDeclaring
<1>20. Len(frames') = n /\ gens'[Len(gens')] = g
  BY <1>3, <1>6, <1>18, GoesKeeps DEF Declaring
<1> QED
  BY <1>11, <1>14, <1>19, <1>20 DEF TracksScopes

LEMMA OneOrTwo ==
  ASSUME NEW s \in Environment
  PROVE  /\ <<s>> = Append(<<>>, s) /\ <<Empty, s>> = Append(<<Empty>>, s)
         /\ <<>> \in Seq(Environment) /\ <<Empty>> \in Seq(Environment)
<1>1. <<>> \in Seq(Environment) /\ <<Empty>> \in Seq(Environment)
  BY EmptyTyped
<1>2. <<s>> = Append(<<>>, s)
  OBVIOUS
<1>3. <<Empty, s>> = Append(<<Empty>>, s)
  <2>1. PICK a : a = <<Empty>>
    OBVIOUS
  <2>2. PICK c : c = Append(a, s)
    OBVIOUS
  <2>3. PICK t : t = <<Empty, s>>
    OBVIOUS
  <2>4. t \in Seq(Environment) /\ Len(t) = 2 /\ t[1] = Empty /\ t[2] = s
    BY <2>3, EmptyTyped
  <2>5. a \in Seq(Environment) /\ Len(a) = 1 /\ a[1] = Empty
    BY <1>1, <2>1
  <2>6. /\ c \in Seq(Environment) /\ Len(c) = Len(a) + 1 /\ c[Len(a) + 1] = s
        /\ \A k \in 1..Len(a) : c[k] = a[k]
    BY <2>2, <2>5, Begun
  <2>7. Len(c) = 2 /\ c[1] = Empty /\ c[2] = s
    <3>1. 1 \in 1..1 /\ 1 + 1 = 2
      OBVIOUS
    <3> QED
      BY ONLY <2>5, <2>6, <3>1
  <2>8. \A i \in 1..Len(c) : c[i] = t[i]
    <3>1. \A i \in 1..2 : i = 1 \/ i = 2
      OBVIOUS
    <3> QED
      BY <2>4, <2>7, <3>1
  <2>9. c = t
    BY <2>4, <2>6, <2>7, <2>8, SeqEqual
  <2> QED
    BY <2>1, <2>2, <2>3, <2>9
<1> QED
  BY <1>1, <1>2, <1>3

(* A scope that a definition is made in is the last one; a construct       *)
(* without a scope has none.                                               *)
LEMMA LastScope ==
  ASSUME NEW f \in Frame, Proper(f), f.at \in Waiting,
         NEW a \in Seq(Environment), NEW b, ScopesAt(f, a, b), Named(b),
         NEW n \in Names, NEW v \in Var, v.name = n,
         NEW x, x.kind = f.kind, x.scope = [f.scope EXCEPT ![n] = v],
         Entered(x) <=> Entered(f), NEW h, h = Define(b, n, v)
  PROVE  /\ OpensScope(f) => ScopesAt(x, a, h) /\ h \in Seq(Environment) /\ Named(h)
         /\ ~OpensScope(f) => /\ b = a /\ f.kind \notin {"function", "closure"}
                              /\ \A c : ScopesAt(f, c, c)
<1>1. f.kind = "for" => (OpensScope(f) <=> Entered(f))
  BY DEF Proper, Waiting, Expected, OpensScope, Entered, Loops
<1>2. PICK s : s = f.scope
  OBVIOUS
<1>3. PICK u : u = [s EXCEPT ![n] = v]
  OBVIOUS
<1>4. s \in Environment /\ u \in Environment /\ x.scope = u
  BY <1>2, <1>3 DEF Frame, Environment
<1>5. CASE ~OpensScope(f)
  BY <1>1, <1>5 DEF ScopesAt, OpensScope
<1>6. ASSUME NEW c \in Seq(Environment), NEW r \in Environment, b = Append(c, r)
      PROVE  h = Append(c, [r EXCEPT ![n] = v]) /\ h \in Seq(Environment) /\ Named(h)
  <2>1. PICK q : q = [r EXCEPT ![n] = v]
    OBVIOUS
  <2>2. h = Append(c, q)
    <3>1. Define(Append(c, r), n, v) = Append(c, [r EXCEPT ![n] = v])
      BY DefineLast
    <3>2. h = Define(Append(c, r), n, v)
      BY <1>6
    <3> QED
      BY <2>1, <3>1, <3>2
  <2>3. NamedScope(r) /\ Named(c)
    <3>1. Named(Append(c, r))
      BY <1>6
    <3> QED
      BY <3>1, NamedLast
  <2>4. q \in Environment /\ NamedScope(q)
    BY <2>1, <2>3, NamedChanged
  <2> QED
    BY <2>1, <2>2, <2>3, <2>4, Begun, NamedAppend
<1>7. CASE f.kind = "function"
  <2>1. b = <<s>>
    BY <1>2, <1>7 DEF ScopesAt
  <2>2. b = Append(<<>>, s) /\ <<u>> = Append(<<>>, u) /\ <<>> \in Seq(Environment)
    BY <1>4, <2>1, OneOrTwo
  <2>3. h = <<u>> /\ h \in Seq(Environment) /\ Named(h)
    BY <1>3, <1>4, <1>6, <2>2
  <2> QED
    BY <1>4, <1>7, <2>3 DEF ScopesAt, OpensScope
<1>8. CASE f.kind = "closure"
  <2>1. b = <<Empty, s>>
    BY <1>2, <1>8 DEF ScopesAt
  <2>2. b = Append(<<Empty>>, s) /\ <<Empty, u>> = Append(<<Empty>>, u)
        /\ <<Empty>> \in Seq(Environment)
    BY <1>4, <2>1, OneOrTwo
  <2>3. h = <<Empty, u>> /\ h \in Seq(Environment) /\ Named(h)
    BY <1>3, <1>4, <1>6, <2>2
  <2> QED
    BY <1>4, <1>8, <2>3 DEF ScopesAt, OpensScope
<1>9. CASE f.kind = "for_iter" /\ Entered(f)
  <2>1. PICK q, r \in Environment :
           /\ b = Append(Append(a, q), r)
           /\ \A m \in Names \ {Iter} : f.scope[m] = IF r[m] # None THEN r[m] ELSE q[m]
    BY <1>9 DEF ScopesAt
  <2>2. PICK c : c = Append(a, q)
    OBVIOUS
  <2>3. PICK w : w = [r EXCEPT ![n] = v]
    OBVIOUS
  <2>4. c \in Seq(Environment) /\ w \in Environment
    BY <2>2, <2>3, Begun DEF Environment
  <2>5. h = Append(c, w) /\ h \in Seq(Environment) /\ Named(h)
    BY <1>6, <2>1, <2>2, <2>3, <2>4
  <2>6. \A m \in Names \ {Iter} : u[m] = IF w[m] # None THEN w[m] ELSE q[m]
    <3> SUFFICES ASSUME NEW m \in Names \ {Iter}
                 PROVE  u[m] = IF w[m] # None THEN w[m] ELSE q[m]
      OBVIOUS
    <3>1. m \in DOMAIN s /\ m \in DOMAIN r
      BY <1>4 DEF Environment
    <3>2. u[m] = (IF m = n THEN v ELSE s[m]) /\ w[m] = (IF m = n THEN v ELSE r[m])
      BY <1>3, <2>3, <3>1
    <3>3. v # None
      BY SpecialValues
    <3> QED
      BY <1>2, <2>1, <3>2, <3>3
  <2>7. x.kind = "for_iter" /\ Entered(x) /\ h = Append(Append(a, q), w)
    BY <1>9, <2>2, <2>5
  <2>8. \A m \in Names \ {Iter} : x.scope[m] = IF w[m] # None THEN w[m] ELSE q[m]
    BY <1>4, <2>6
  <2>9. ScopesAt(x, a, h)
    BY <2>4, <2>7, <2>8 DEF ScopesAt
  <2> QED
    BY <1>9, <2>5, <2>9 DEF OpensScope
<1>10. CASE /\ f.kind \in {"block", "branch", "for_iter"} \/ (f.kind = "for" /\ Entered(f))
            /\ ~(f.kind = "for_iter" /\ Entered(f))
  <2>1. b = Append(a, s)
    BY <1>2, <1>10 DEF ScopesAt
  <2>2. h = Append(a, u) /\ h \in Seq(Environment) /\ Named(h)
    BY <1>3, <1>4, <1>6, <2>1
  <2>3. OpensScope(f)
    BY <1>1, <1>10 DEF OpensScope
  <2> QED
    BY <1>4, <1>10, <2>2, <2>3 DEF ScopesAt
<1> QED
  BY <1>1, <1>5, <1>7, <1>8, <1>9, <1>10 DEF OpensScope

LEMMA ScopesDeclare ==
  ASSUME NEW fs, Awaiting(fs), NEW m \in Names, NEW v \in Var, v.name = m,
         NEW x, DefinedIn(fs, x, m, v), NEW gs, NEW e, KeepsScopes(fs, gs, e)
  PROVE  \E k : KeepsScopes(x, gs, k) /\ k[Len(fs)] = Define(e[Len(fs)], m, v)
<1>1. PICK n : n = Len(fs)
  OBVIOUS
<1>2. PICK d : d = Scoped(fs)
  OBVIOUS
<1>3. /\ fs # <<>> /\ Framed(fs) /\ fs \in Seq(Frame) /\ n \in Nat \ {0}
      /\ Last(fs) = fs[n] /\ fs[n].at \in Waiting
  BY <1>1, EmptySeq DEF Awaiting, Framed, Last
<1>4. d \in 1..n /\ OpensScope(fs[d]) /\ \A j \in 1..n : j > d => ~OpensScope(fs[j])
  BY <1>1, <1>2, <1>3, ScopedIs
<1>5. \A j \in 1..n : fs[j] \in Frame /\ Proper(fs[j]) /\ fs[j].at \in Waiting
  <2> SUFFICES ASSUME NEW j \in 1..n
               PROVE  fs[j] \in Frame /\ Proper(fs[j]) /\ fs[j].at \in Waiting
    OBVIOUS
  <2>1. j < n \/ j = n
    BY <1>3
  <2> QED
    BY <1>1, <1>3, <2>1, ElementOfSeq DEF Framed
<1>6. /\ Len(x) = n /\ x[d].kind = fs[d].kind
      /\ x[d].scope = [fs[d].scope EXCEPT ![m] = v]
      /\ \A j \in 1..n : j # d => x[j] = fs[j]
      /\ \A j \in 1..n : x[j].kind = fs[j].kind /\ x[j].loop = fs[j].loop
  BY <1>1, <1>2 DEF DefinedIn
<1>7. /\ e \in [0..n -> Seq(Environment)] /\ e[0] = <<>>
      /\ \A j \in 0..n : Named(e[j])
      /\ \A j \in 1..n : ScopesAt(fs[j], e[j - 1], e[j])
      /\ \A j \in 1..n : fs[j].kind = "closure" => Remembers(gs[Number(fs, j)], e[j - 1])
  BY <1>1 DEF KeepsScopes
<1>8. d - 1 \in 0..n /\ d \in 0..n /\ n \in 0..n /\ d \in Nat
  BY <1>3, <1>4
<1>9. PICK h : h = Define(e[d], m, v)
  OBVIOUS
<1>10. ScopesAt(x[d], e[d - 1], h) /\ h \in Seq(Environment) /\ Named(h)
  <2>1. PICK f : f = fs[d]
    OBVIOUS
  <2>2. PICK y : y = x[d]
    OBVIOUS
  <2>3. PICK a : a = e[d - 1]
    OBVIOUS
  <2>4. PICK b : b = e[d]
    OBVIOUS
  <2>5. /\ f \in Frame /\ Proper(f) /\ f.at \in Waiting /\ OpensScope(f)
        /\ a \in Seq(Environment) /\ ScopesAt(f, a, b) /\ Named(b)
        /\ m \in Names /\ v \in Var /\ v.name = m
    BY <1>4, <1>5, <1>7, <1>8, <2>1, <2>3, <2>4
  <2>6. y.kind = f.kind /\ y.scope = [f.scope EXCEPT ![m] = v] /\ (Entered(y) <=> Entered(f))
    BY <1>4, <1>6, <2>1, <2>2 DEF Entered
  <2>7. h = Define(b, m, v)
    BY <1>9, <2>4
  <2>8. ScopesAt(y, a, h) /\ h \in Seq(Environment) /\ Named(h)
    BY ONLY <2>5, <2>6, <2>7, LastScope
  <2> QED
    BY <2>2, <2>3, <2>8
<1>11. ASSUME NEW j \in 1..n, j > d
       PROVE  /\ e[j] = e[j - 1] /\ fs[j].kind \notin {"function", "closure"}
              /\ \A c : ScopesAt(fs[j], c, c)
  <2>1. PICK f : f = fs[j]
    OBVIOUS
  <2>2. j - 1 \in 0..n /\ j \in 0..n
    BY <1>3
  <2>3. PICK a : a = e[j - 1]
    OBVIOUS
  <2>4. PICK b : b = e[j]
    OBVIOUS
  <2>5. /\ f \in Frame /\ Proper(f) /\ f.at \in Waiting /\ ~OpensScope(f)
        /\ a \in Seq(Environment) /\ ScopesAt(f, a, b) /\ Named(b)
        /\ m \in Names /\ v \in Var /\ v.name = m
    BY <1>4, <1>5, <1>7, <1>11, <2>1, <2>2, <2>3, <2>4
  <2>6. PICK y : y = [f EXCEPT !.scope = [f.scope EXCEPT ![m] = v]]
    OBVIOUS
  <2>7. y.kind = f.kind /\ y.scope = [f.scope EXCEPT ![m] = v] /\ (Entered(y) <=> Entered(f))
    BY <2>5, <2>6 DEF Frame, Entered
  <2>8. b = a /\ f.kind \notin {"function", "closure"} /\ \A c : ScopesAt(f, c, c)
    <3>1. PICK z : z = Define(b, m, v)
      OBVIOUS
    <3> QED
      BY ONLY <2>5, <2>7, <3>1, LastScope
  <2> QED
    BY <2>1, <2>3, <2>4, <2>8
<1>12. e[n] = e[d]
  <2>1. \A j \in (d + 1)..n : e[j] = e[j - 1]
    <3> SUFFICES ASSUME NEW j \in (d + 1)..n
                 PROVE  e[j] = e[j - 1]
      OBVIOUS
    <3>1. j \in 1..n /\ j > d
      BY <1>8
    <3> QED
      BY <1>11, <3>1
  <2>2. n \in d..n /\ n \in Nat
    BY <1>3, <1>4
  <2> QED
    BY <1>8, <2>1, <2>2, Constant
<1>13. PICK k : k = [j \in 0..n |-> IF j < d THEN e[j] ELSE h]
  OBVIOUS
<1>14. /\ k \in [0..n -> Seq(Environment)] /\ k[0] = <<>> /\ k[n] = h
       /\ \A j \in 0..n : Named(k[j])
  <2>1. 0 < d /\ 0 \in 0..n /\ ~(n < d)
    BY <1>3, <1>4
  <2> QED
    BY <1>7, <1>8, <1>10, <1>13, <2>1
<1>15. ASSUME NEW j \in 1..n
       PROVE  /\ ScopesAt(x[j], k[j - 1], k[j])
              /\ x[j].kind = "closure" => Remembers(gs[Number(x, j)], k[j - 1])
  <2>0. j \in 0..n /\ j - 1 \in 0..n /\ j \in Nat /\ \A i \in 1..j : i \in 1..n
    BY <1>3
  <2>1. Number(x, j) = Number(fs, j)
    BY <1>6, <2>0, NumberSame
  <2>2. CASE j < d
    <3>1. k[j - 1] = e[j - 1] /\ k[j] = e[j] /\ x[j] = fs[j]
      BY <1>6, <1>8, <1>13, <2>0, <2>2
    <3> QED
      BY <1>7, <2>1, <3>1
  <2>3. CASE j = d
    <3>1. k[j - 1] = e[j - 1] /\ k[j] = h
      BY <1>8, <1>13, <2>0, <2>3
    <3> QED
      BY <1>6, <1>7, <1>10, <2>1, <2>3, <3>1
  <2>4. CASE j > d
    <3>1. k[j - 1] = h /\ k[j] = h /\ x[j] = fs[j]
      BY <1>6, <1>8, <1>13, <2>0, <2>4
    <3> QED
      BY <1>6, <1>11, <2>4, <3>1
  <2> QED
    BY <1>8, <2>0, <2>2, <2>3, <2>4
<1>16. KeepsScopes(x, gs, k)
  BY <1>6, <1>14, <1>15 DEF KeepsScopes
<1> QED
  BY <1>1, <1>9, <1>12, <1>14, <1>16

LEMMA ScopesDefine ==
  ASSUME TypeInv, Defines, NEW e, TracksScopes(frames, gens, e)
  PROVE  \E k : TracksScopes(frames', gens', k)
<1>1. PICK g : \E m \in Names, v \in Var : Defining(g, m, v)
  BY DEF Defines
<1>2. PICK m \in Names, v \in Var : Defining(g, m, v)
  BY <1>1
<1>3. PICK n : n = Len(frames)
  OBVIOUS
<1>4. PICK p : p = Pop(frames)
  OBVIOUS
<1>5. PICK x : x = Declare(p, m, v)
  OBVIOUS
<1>6. /\ Inner /\ top.kind = "variable" /\ Goes(g, x) /\ v.name = m
      /\ g.environments = Define(gen.environments, m, v)
  BY <1>2, <1>4, <1>5 DEF Defining
<1>7. n \in 1..n /\ top = frames[n] /\ gen = gens[Len(gens)]
  <2>1. n \in Nat \ {0, 1} /\ top = frames[n]
    BY <1>3, <1>6, Back DEF Inner
  <2> QED
    BY <2>1, GenTyped
<1>8. KeepsScopes(frames, gens', e)
  BY <1>6, GoesRemember DEF TracksScopes
<1>9. gen.environments = e[n - 1]
  BY <1>3, <1>6, <1>7 DEF TracksScopes, KeepsScopes, ScopesAt
<1>10. PICK hs : hs = gens'
  OBVIOUS
<1>11. PICK k : k = Shorter(e, n - 1)
  OBVIOUS
<1>12. KeepsScopes(p, hs, k) /\ k[n - 1] = e[n - 1] /\ Len(p) = n - 1
  <2>1. TypeInv /\ Inner /\ KeepsScopes(frames, hs, e)
    BY <1>6, <1>8, <1>10
  <2>2. KeepsScopes(p, hs, k) /\ k[n - 1] = e[n - 1] /\ Len(p) = n - 1
        /\ n \in Nat \ {0, 1}
    BY ONLY <1>3, <1>4, <1>11, <2>1, ShorterKept
  <2> QED
    BY ONLY <2>2
<1>13. DefinedIn(p, x, m, v) /\ m \in Names /\ v \in Var
  <2>1. m \in Names /\ v \in Var /\ Defining(g, m, v)
    BY <1>2
  <2> QED
    BY ONLY TypeInv, <1>4, <1>5, <2>1, DefinesIn
<1>14. Awaiting(p)
  BY <1>13 DEF DefinedIn
<1>15. PICK q : KeepsScopes(x, hs, q) /\ q[Len(p)] = Define(k[Len(p)], m, v)
  BY ONLY <1>6, <1>12, <1>13, <1>14, ScopesDeclare
<1>16. Len(x) = n - 1 /\ n - 1 \in Nat
  BY <1>12, <1>13, <1>7, <1>3, ClosureNumbers DEF DefinedIn
<1>17. Declaring(x, frames')
  BY <1>6, DeclaringAlike DEF Declaring, Goes
<1>18. KeepsScopes(frames', gens', q)
  BY <1>10, <1>15, <1>16, <1>17, ScopesDeclaring
<1>19. Len(frames') = n - 1 /\ gens'[Len(gens')] = g
  BY <1>6, <1>16, <1>17, GoesKeeps DEF Declaring
<1> QED
  BY <1>6, <1>9, <1>12, <1>15, <1>18, <1>19 DEF TracksScopes

LEMMA ScopesEmpty ==
  ASSUME frames' = <<>>, NEW g, gens'[Len(gens')] = g, g.environments = <<>>
  PROVE  \E k : TracksScopes(frames', gens', k)
<1>1. PICK k : k = [j \in 0..0 |-> <<>>]
  OBVIOUS
<1>2. Len(frames') = 0 /\ k \in [0..0 -> Seq(Environment)] /\ k[0] = <<>>
  BY <1>1
<1>3. \A j \in 0..0 : Named(k[j])
  <2>1. Named(<<>>)
    BY DEF Named
  <2> QED
    BY <1>2, <2>1
<1>4. KeepsScopes(frames', gens', k)
  BY <1>2, <1>3 DEF KeepsScopes
<1> QED
  BY <1>2, <1>4 DEF TracksScopes

LEMMA ScopesStart ==
  ASSUME TypeInv, Starts, ~external', NEW e, TracksScopes(frames, gens, e)
  PROVE  \E k : TracksScopes(frames', gens', k)
<1>1. PICK g : \E s \in Environment : Starting(g, s)
  BY DEF Starts
<1>2. PICK s \in Environment : Starting(g, s)
  BY <1>1
<1>3. /\ frames = <<>> /\ gens' = <<g>> /\ NamedScope(s)
      /\ g.environments = Append(gen.environments, s)
      /\ Len(frames') = 1 /\ frames'[1].kind = "function" /\ frames'[1].scope = s
  BY <1>2 DEF Starting
<1>4. gen.environments = <<>>
  <2>1. Len(frames) = 0 /\ gens[Len(gens)] = gen
    BY <1>3, GenTyped
  <2> QED
    BY <2>1 DEF TracksScopes, KeepsScopes
<1>5. PICK w : w = <<s>>
  OBVIOUS
<1>6. w = Append(<<>>, s) /\ <<>> \in Seq(Environment)
  BY <1>5, OneOrTwo
<1>7. w \in Seq(Environment) /\ Named(w)
  <2>1. Named(<<>>)
    BY DEF Named
  <2>2. Append(<<>>, s) \in Seq(Environment) /\ Named(Append(<<>>, s))
    BY <1>3, <1>6, <2>1, Begun, NamedAppend
  <2> QED
    BY <1>6, <2>2
<1>8. PICK k : k = [j \in 0..1 |-> IF j = 0 THEN <<>> ELSE w]
  OBVIOUS
<1>9. k \in [0..1 -> Seq(Environment)] /\ k[0] = <<>> /\ k[1] = w
  BY <1>6, <1>7, <1>8
<1>10. \A j \in 0..1 : Named(k[j])
  <2>1. \A j \in 0..1 : j = 0 \/ j = 1
    OBVIOUS
  <2>2. Named(<<>>)
    BY DEF Named
  <2> QED
    BY <1>7, <1>9, <2>1, <2>2
<1>11. \A i \in 1..1 : i = 1 /\ i - 1 = 0
  OBVIOUS
<1>12. ScopesAt(frames'[1], k[0], k[1])
  BY <1>3, <1>5, <1>9 DEF ScopesAt
<1>13. KeepsScopes(frames', gens', k)
  BY <1>3, <1>9, <1>10, <1>11, <1>12 DEF KeepsScopes
<1>14. Len(gens') = 1 /\ gens'[1] = g
  BY <1>3
<1> QED
  BY <1>3, <1>4, <1>6, <1>9, <1>13, <1>14 DEF TracksScopes

LEMMA ScopesEnd ==
  ASSUME TypeInv, TypeInv', Ends, NEW e, TracksScopes(frames, gens, e)
  PROVE  \E k : TracksScopes(frames', gens', k)
<1>1. PICK g : /\ frames # <<>> /\ Len(frames) = 1 /\ top.kind = "function"
               /\ Goes(g, <<>>) /\ g.environments = EndScope(gen.environments)
  BY DEF Ends
<1>2. top = frames[1] /\ gens[Len(gens)] = gen /\ top \in Frame
  BY <1>1, TopTyped, GenTyped
<1>3. PICK s : s = top.scope
  OBVIOUS
<1>4. s \in Environment /\ gen.environments = <<s>>
  <2>1. 1 \in 1..1
    OBVIOUS
  <2> QED
    BY <1>1, <1>2, <1>3, <2>1 DEF Frame, TracksScopes, KeepsScopes, ScopesAt
<1>5. g.environments = <<>>
  <2>1. <<s>> = Append(<<>>, s) /\ <<>> \in Seq(Environment)
    BY <1>4, OneOrTwo
  <2>2. EndScope(Append(<<>>, s)) = <<>>
    BY <1>4, <2>1, Begun
  <2> QED
    BY <1>1, <1>4, <2>1, <2>2
<1>6. gens'[Len(gens')] = g
  BY <1>1, GoesKeeps
<1>7. frames' = <<>>
  <2>1. Len(frames') = 0
    BY <1>1 DEF Goes, Alike
  <2> QED
    BY <2>1, EmptySeq DEF TypeInv, Framed
<1> QED
  BY <1>5, <1>6, <1>7, ScopesEmpty

LEMMA ScopesSwitch ==
  ASSUME TypeInv, Switches
  PROVE  \E k : TracksScopes(frames', gens', k)
<1>1. PICK g : /\ frames = <<>> /\ g \in Generator /\ gens' = InGen(g) /\ frames' = <<>>
               /\ g.environments = <<>>
  BY DEF Switches
<1>2. Len(gens) = 1 /\ gens \in Seq(Generator) /\ DOMAIN gens = 1..1
  BY <1>1, OnlyGenerator, LenProperties DEF TypeInv
<1>3. Len(gens') = 1 /\ gens'[1] = g
  <2>1. gens' = [gens EXCEPT ![1] = g]
    BY <1>1, <1>2 DEF InGen
  <2>2. 1 \in 1..Len(gens)
    BY <1>2
  <2>3. Len(gens') = Len(gens)
    BY <1>1, <1>2, <2>1, <2>2, ExceptSeq
  <2> QED
    BY <1>2, <2>1, <2>3
<1> QED
  BY <1>1, <1>3, ScopesEmpty

LEMMA ScopesOpenClosure ==
  ASSUME TypeInv, OpensClosure, NEW e, TracksScopes(frames, gens, e)
  PROVE  \E k : TracksScopes(frames', gens', k)
<1>0. PICK g, h : \E f \in Frame : OpeningClosure(g, h, f)
  BY DEF OpensClosure
<1>1. PICK f \in Frame : OpeningClosure(g, h, f)
  BY <1>0
<1>2. PICK n : n = Len(frames)
  OBVIOUS
<1>3. PICK c : c = Len(gens)
  OBVIOUS
<1>4. PICK r : r = Append(frames, f)
  OBVIOUS
<1>5. /\ n \in Nat \ {0} /\ frames' = r /\ Len(r) = n + 1
      /\ r[n + 1] = f /\ \A j \in 1..n : r[j] = frames[j]
      /\ gens'[Len(gens')] = h /\ gens'[c + 1] = h
      /\ \A j \in 1..n : Number(r, j) = Number(frames, j)
      /\ Number(r, n + 1) = c + 1
      /\ \A i \in 1..n : frames[i].kind = "closure" =>
           /\ gens'[Number(frames, i)].outer_env = gens[Number(frames, i)].outer_env
           /\ gens'[Number(frames, i)].captured = gens[Number(frames, i)].captured
  <2>1. OpeningKept(g, h, f, n, c, r)
    BY <1>1, <1>2, <1>3, <1>4, OpeningKeeps
  <2> QED
    BY <2>1 DEF OpeningKept
<1>6. /\ f.kind = "closure" /\ h.environments = <<Empty, f.scope>>
      /\ h.outer_env = gen.environments /\ h.captured = {} /\ NamedScope(f.scope)
      /\ f.scope \in Environment
  BY <1>1 DEF OpeningClosure, Frame
<1>7. /\ e \in [0..n -> Seq(Environment)] /\ e[0] = <<>>
      /\ \A j \in 0..n : Named(e[j])
      /\ \A j \in 1..n : ScopesAt(frames[j], e[j - 1], e[j])
      /\ \A j \in 1..n : frames[j].kind = "closure" =>
           Remembers(gens[Number(frames, j)], e[j - 1])
      /\ gen.environments = e[n]
  BY <1>2, GenTyped DEF TracksScopes, KeepsScopes
<1>8. PICK w : w = <<Empty, f.scope>>
  OBVIOUS
<1>9. w \in Seq(Environment) /\ Named(w)
  <2>1. PICK a : a = <<Empty>>
    OBVIOUS
  <2>2. a = Append(<<>>, Empty) /\ <<>> \in Seq(Environment) /\ Empty \in Environment
    BY <2>1, EmptyTyped, OneOrTwo
  <2>3. Named(<<>>) /\ NamedScope(Empty)
    BY DEF Named, NamedScope, Empty
  <2>4. Append(<<>>, Empty) \in Seq(Environment) /\ Named(Append(<<>>, Empty))
    BY <2>2, <2>3, Begun, NamedAppend
  <2>5. a \in Seq(Environment) /\ Named(a) /\ w = Append(a, f.scope)
    BY <1>6, <1>8, <2>1, <2>2, <2>4, OneOrTwo
  <2>6. Append(a, f.scope) \in Seq(Environment) /\ Named(Append(a, f.scope))
    BY <1>6, <2>5, Begun, NamedAppend
  <2> QED
    BY <2>5, <2>6
<1>10. PICK k : k = [j \in 0..(n + 1) |-> IF j = n + 1 THEN w ELSE e[j]]
  OBVIOUS
<1>11. /\ k \in [0..(n + 1) -> Seq(Environment)] /\ k[n + 1] = w
       /\ \A j \in 0..n : k[j] = e[j]
       /\ \A j \in 0..(n + 1) : Named(k[j])
  <2>1. \A j \in 0..(n + 1) : j = n + 1 \/ j \in 0..n
    BY <1>5
  <2>2. \A j \in 0..n : j # n + 1 /\ j \in 0..(n + 1)
    BY <1>5
  <2>3. n + 1 \in 0..(n + 1)
    BY <1>5
  <2>4. /\ k \in [0..(n + 1) -> Seq(Environment)] /\ k[n + 1] = w
        /\ \A j \in 0..n : k[j] = e[j]
    BY <1>7, <1>9, <1>10, <2>1, <2>2, <2>3
  <2> QED
    BY <1>7, <1>9, <2>1, <2>4
<1>12. ASSUME NEW j \in 1..(n + 1)
       PROVE  /\ ScopesAt(r[j], k[j - 1], k[j])
              /\ r[j].kind = "closure" => Remembers(gens'[Number(r, j)], k[j - 1])
  <2>1. CASE j = n + 1
    <3>1. k[j - 1] = e[n] /\ k[j] = w /\ r[j] = f
      BY <1>5, <1>11, <2>1
    <3>2. gens'[Number(r, j)] = h
      BY <1>5, <2>1
    <3>3. Remembers(h, e[n])
      BY <1>6, <1>7 DEF Remembers
    <3>4. ScopesAt(f, e[n], w)
      BY <1>6, <1>8 DEF ScopesAt
    <3> QED
      BY <3>1, <3>2, <3>3, <3>4
  <2>2. CASE j \in 1..n
    <3>1. j \in 0..n /\ j - 1 \in 0..n
      BY <1>5, <2>2
    <3>2. k[j - 1] = e[j - 1] /\ k[j] = e[j] /\ r[j] = frames[j]
      BY <1>5, <1>11, <2>2, <3>1
    <3> QED
      BY <1>5, <1>7, <2>2, <3>2 DEF Remembers
  <2> QED
    BY <1>5, <2>1, <2>2
<1>13. k[0] = <<>>
  <2>1. 0 \in 0..n
    BY <1>5
  <2> QED
    BY <1>7, <1>11, <2>1
<1>14. KeepsScopes(r, gens', k)
  BY <1>5, <1>11, <1>12, <1>13 DEF KeepsScopes
<1> QED
  BY <1>5, <1>6, <1>8, <1>11, <1>14 DEF TracksScopes

(* end_closure gives back the scopes around the closure literal.           *)
LEMMA ScopesLeaveClosure ==
  ASSUME TypeInv, LeavesClosure, NEW e, TracksScopes(frames, gens, e)
  PROVE  \E k : TracksScopes(frames', gens', k)
<1>1. PICK g, outer : LeavingClosure(g, outer)
  BY DEF LeavesClosure
<1>2. PICK n : n = Len(frames)
  OBVIOUS
<1>3. PICK c : c = Len(gens)
  OBVIOUS
<1>4. PICK p : p = Pop(frames)
  OBVIOUS
<1>5. /\ n \in Nat \ {0, 1} /\ c \in Nat \ {0, 1} /\ Len(p) = n - 1
      /\ \A j \in 1..(n - 1) : p[j] = frames[j]
      /\ frames[n].kind = "closure" /\ Number(frames, n) = c /\ gen = gens[c]
      /\ gens'[Len(gens')] = g
      /\ \A j \in 1..(n - 1) : Number(p, j) = Number(frames, j)
      /\ \A i \in 1..(n - 1) : frames[i].kind = "closure" =>
           /\ gens'[Number(frames, i)].outer_env = gens[Number(frames, i)].outer_env
           /\ gens'[Number(frames, i)].captured = gens[Number(frames, i)].captured
  <2>1. LeavingKept(g, outer, n, c, p)
    BY <1>1, <1>2, <1>3, <1>4, LeavingKeeps
  <2> QED
    BY <2>1 DEF LeavingKept
<1>6. /\ e \in [0..n -> Seq(Environment)] /\ e[0] = <<>>
      /\ \A j \in 0..n : Named(e[j])
      /\ \A j \in 1..n : ScopesAt(frames[j], e[j - 1], e[j])
      /\ \A j \in 1..n : frames[j].kind = "closure" =>
           Remembers(gens[Number(frames, j)], e[j - 1])
  BY <1>2 DEF TracksScopes, KeepsScopes
<1>7. g.environments = e[n - 1]
  <2>1. n \in 1..n
    BY <1>5
  <2>2. Remembers(gen, e[n - 1])
    BY <1>5, <1>6, <2>1
  <2> QED
    BY <1>1, <2>2 DEF LeavingClosure, Remembers
<1>8. PICK k : k = Shorter(e, n - 1)
  OBVIOUS
<1>9. k \in [0..(n - 1) -> Seq(Environment)] /\ \A j \in 0..(n - 1) : k[j] = e[j] /\ Named(k[j])
  <2>1. \A j \in 0..(n - 1) : j \in 0..n
    BY <1>5
  <2> QED
    BY <1>6, <1>8, <2>1 DEF Shorter
<1>10. ASSUME NEW j \in 1..(n - 1)
       PROVE  /\ ScopesAt(p[j], k[j - 1], k[j])
              /\ p[j].kind = "closure" => Remembers(gens'[Number(p, j)], k[j - 1])
  <2>1. j \in 1..n /\ j \in 0..(n - 1) /\ j - 1 \in 0..(n - 1)
    BY <1>5
  <2>2. k[j - 1] = e[j - 1] /\ k[j] = e[j] /\ p[j] = frames[j]
    BY <1>5, <1>9, <2>1
  <2> QED
    BY <1>5, <1>6, <2>1, <2>2 DEF Remembers
<1>11. k[0] = <<>> /\ k[n - 1] = e[n - 1]
  <2>1. 0 \in 0..(n - 1) /\ n - 1 \in 0..(n - 1)
    BY <1>5
  <2> QED
    BY <1>6, <1>9, <2>1
<1>12. KeepsScopes(p, gens', k) /\ Len(p) \in Nat
  BY <1>5, <1>9, <1>10, <1>11 DEF KeepsScopes
<1>13. Declaring(p, frames')
  <2>1. Alike(p, frames')
    BY <1>1, <1>4 DEF LeavingClosure
  <2> QED
    BY <2>1 DEF Alike, Declaring, Entered
<1>14. KeepsScopes(frames', gens', k) /\ Len(frames') = n - 1
  BY <1>5, <1>12, <1>13, ScopesDeclaring DEF Declaring
<1> QED
  BY <1>5, <1>7, <1>11, <1>14 DEF TracksScopes

LEMMA ScopeStep ==
  ASSUME TypeInv, TypeInv', ScopeInv, Stepping, Undisturbed'
  PROVE  \E k : TracksScopes(frames', gens', k)
<1>1. found \subseteq found' /\ "E237" \notin found' /\ "E300" \notin found' /\ ~external'
  <2>1. found \subseteq found'
    BY DEF Stepping, Stays, Loses, Opens, Opening, Closes, Abandons, Defines, Defining, Breaks,
           Breaking, Enters, Entering, Starts, Starting, Ends, Switches, OpensClosure,
           OpeningClosure, LeavesClosure, LeavingClosure, Panics, PanicsInClosure, Panic, Fails, Crash, Goes
  <2> QED
    BY <2>1 DEF Undisturbed
<1>2. CASE Switches
  BY <1>2, ScopesSwitch
<1>3. CASE ~Switches
  <2>1. ~external
    BY <1>1, <1>3
       DEF Stepping, Stays, Loses, Opens, Opening, Closes, Abandons, Defines, Defining, Breaks,
           Breaking, Enters, Entering, Starts, Starting, Ends, OpensClosure,
           OpeningClosure, LeavesClosure, LeavingClosure, Panics, PanicsInClosure, Panic, Fails, Crash, Goes
  <2>2. Undisturbed
    BY <1>1, <2>1 DEF Undisturbed
  <2>3. PICK e : TracksScopes(frames, gens, e)
    BY <2>2 DEF ScopeInv
  <2>4. CASE Opens
    <3>1. PICK g : \E f \in Frame : Opening(g, f)
      BY <2>4 DEF Opens
    <3>2. PICK f \in Frame : Opening(g, f)
      BY <3>1
    <3> QED
      BY <2>3, <3>2, ScopesOpen
  <2>5. CASE Enters
    <3>1. PICK g : \E f \in Frame :
                     /\ Entering(g, f)
                     /\ \/ EnteringFor(g, f)
                        \/ \E n \in Names, i \in Var, t \in Var, v \in Var :
                             EnteringForIter(g, f, n, i, t, v)
      BY <2>5 DEF Enters
    <3>2. PICK f \in Frame :
                     /\ Entering(g, f)
                     /\ \/ EnteringFor(g, f)
                        \/ \E n \in Names, i \in Var, t \in Var, v \in Var :
                             EnteringForIter(g, f, n, i, t, v)
      BY <3>1
    <3> QED
      BY <2>3, <3>2, ScopesEnter
  <2>6. CASE Stays
    <3>1. PICK g : Goes(g, frames) /\ SameScopes(g)
      BY <2>6 DEF Stays
    <3>2. Declaring(frames, frames)
      BY DEF Declaring
    <3> QED
      BY <2>3, <3>1, <3>2, ScopesStay
  <2>7. CASE Panics \/ PanicsInClosure \/ Fails
    BY <2>3, <2>7 DEF Panics, PanicsInClosure, Panic, Fails, Crash
  <2>8. ~Loses /\ ~Abandons
    BY <1>1 DEF Loses, Abandons
  <2> QED
    BY <1>1, <1>3, <2>3, <2>4, <2>5, <2>6, <2>7, <2>8, ScopesClose, ScopesDefine, ScopesBreak,
       ScopesStart, ScopesEnd, ScopesOpenClosure, ScopesLeaveClosure DEF Stepping
<1> QED
  BY <1>2, <1>3

LEMMA ScopeInit == ASSUME Init PROVE ScopeInv
<1>1. PICK k : k = [j \in 0..0 |-> <<>>]
  OBVIOUS
<1>2. Len(frames) = 0 /\ k \in [0..0 -> Seq(Environment)] /\ k[0] = <<>>
  BY <1>1 DEF Init
<1>3. \A j \in 0..0 : Named(k[j])
  <2>1. Named(<<>>)
    BY DEF Named
  <2> QED
    BY <1>2, <2>1
<1>4. gens[Len(gens)].environments = <<>>
  <2>1. Len(gens) = 1 /\ gens[1] = NewGenerator
    BY DEF Init
  <2> QED
    BY <2>1 DEF NewGenerator
<1>5. TracksScopes(frames, gens, k)
  BY <1>2, <1>3, <1>4 DEF TracksScopes, KeepsScopes
<1> QED
  BY <1>5 DEF ScopeInv

(* While nothing disturbs them, the environments of the generator that     *)
(* goes on are those that the constructs around it opened, each with what  *)
(* its construct declares; those a closure was made in are its outer_env.  *)
THEOREM ScopeInvariant == Spec => []ScopeInv
<1>1. Init => ScopeInv
  BY ScopeInit
<1>2. TypeInv /\ TypeInv' /\ ScopeInv /\ [Next]_vars => ScopeInv'
  <2>1. ASSUME ScopeInv, UNCHANGED vars PROVE ScopeInv'
    BY <2>1 DEF vars, ScopeInv, Undisturbed
  <2>2. ASSUME TypeInv, TypeInv', ScopeInv, Next PROVE ScopeInv'
    <3>1. Stepping
      BY <2>2, Steps
    <3>2. Undisturbed' => \E k : TracksScopes(frames', gens', k)
      BY <2>2, <3>1, ScopeStep
    <3> QED
      BY <3>2 DEF ScopeInv
  <2> QED
    BY <2>1, <2>2
<1> QED
  BY <1>1, <1>2, TypeInvariant, PTL DEF Spec

-----------------------------------------------------------------------------
(* What a name means is what the source declares.                          *)

LEMMA FrameTyped ==
  ASSUME TypeInv, NEW i \in 1..Len(frames)
  PROVE  /\ frames[i] \in Frame /\ Proper(frames[i]) /\ frames[i].scope \in Environment
         /\ frames[i].kind = "function" <=> i = 1
<1>1. frames[i] \in Frame /\ Proper(frames[i]) /\ (frames[i].kind = "function" <=> i = 1)
  BY ElementOfSeq DEF TypeInv, Framed
<1> QED
  BY <1>1 DEF Frame

LEMMA NotHidden ==
  ASSUME NEW i \in DOMAIN frames, NEW n \in Names \ Hidden
  PROVE  Visible(i, n) <=> frames[i].scope[n] # None
BY DEF Visible, Hidden

LEMMA NothingDeclared ==
  ASSUME NEW a \in Nat, NEW n
  PROVE  Declared(a, a - 1, n) = None
<1>1. a..(a - 1) = {}
  OBVIOUS
<1>2. {k \in a..(a - 1) : Visible(k, n)} = {}
  BY <1>1
<1> QED
  BY <1>2 DEF Declared

LEMMA DeclaredNext ==
  ASSUME NEW a \in Nat \ {0}, NEW b \in Nat, a <= b, NEW n
  PROVE  Declared(a, b, n) = IF Visible(b, n) THEN frames[b].scope[n]
                             ELSE Declared(a, b - 1, n)
<1> DEFINE S == {k \in a..b : Visible(k, n)}
           T == {k \in a..(b - 1) : Visible(k, n)}
<1>1. Declared(a, b, n) = IF S = {} THEN None ELSE frames[Max(S)].scope[n]
  BY DEF Declared
<1>2. Declared(a, b - 1, n) = IF T = {} THEN None ELSE frames[Max(T)].scope[n]
  BY DEF Declared
<1>3. CASE Visible(b, n)
  <2>1. b \in S /\ S \in SUBSET (1..b) /\ \A i \in S : i <= b
    BY <1>3
  <2> HIDE DEF S
  <2>2. Max(S) = b
    BY <2>1, LargestIs
  <2> QED
    BY <1>1, <1>3, <2>1, <2>2
<1>4. CASE ~Visible(b, n)
  <2>1. \A k \in a..b : k # b => k \in a..(b - 1)
    OBVIOUS
  <2>2. \A k \in a..(b - 1) : k \in a..b
    OBVIOUS
  <2>3. S = T
    BY <1>4, <2>1, <2>2
  <2> HIDE DEF S, T
  <2> QED
    BY <1>1, <1>2, <1>4, <2>3
<1> QED
  BY <1>3, <1>4

(* One more construct: it means what it declares, or what is meant around. *)
LEMMA ScopesMean ==
  ASSUME NEW f \in Frame, NEW a \in Seq(Environment), NEW b, ScopesAt(f, a, b),
         NEW n \in Names, n # Iter
  PROVE  Innermost(b, n) = IF f.scope[n] # None THEN f.scope[n]
                           ELSE IF f.kind \in {"function", "closure"} THEN None
                           ELSE Innermost(a, n)
<1>1. f.scope \in Environment /\ Empty \in Environment /\ Empty[n] = None
  BY EmptyTyped DEF Frame, Empty
<1>2. CASE f.kind = "function"
  <2>1. b = Append(<<>>, f.scope) /\ <<>> \in Seq(Environment)
    BY <1>1, <1>2, OneOrTwo DEF ScopesAt
  <2> QED
    BY <1>1, <1>2, <2>1, InnermostAppend, InnermostEmpty
<1>3. CASE f.kind = "closure"
  <2>1. b = Append(<<Empty>>, f.scope) /\ <<Empty>> \in Seq(Environment)
    BY <1>1, <1>3, OneOrTwo DEF ScopesAt
  <2>2. Innermost(<<Empty>>, n) = None
    <3>1. <<Empty>> = Append(<<>>, Empty) /\ <<>> \in Seq(Environment)
      BY <1>1, OneOrTwo
    <3> QED
      BY <1>1, <3>1, InnermostAppend, InnermostEmpty
  <2> QED
    BY <1>1, <1>3, <2>1, <2>2, InnermostAppend
<1>4. CASE f.kind = "for_iter" /\ Entered(f)
  <2>1. PICK s \in Environment, r \in Environment :
               /\ b = Append(Append(a, s), r)
               /\ \A m \in Names \ {Iter} : f.scope[m] = IF r[m] # None THEN r[m] ELSE s[m]
    BY <1>4 DEF ScopesAt
  <2>2. f.scope[n] = IF r[n] # None THEN r[n] ELSE s[n]
    BY <2>1
  <2>3. PICK c : c = Append(a, s)
    OBVIOUS
  <2>4. c \in Seq(Environment)
    BY <2>3, AppendProperties
  <2>5. Innermost(b, n) = IF r[n] # None THEN r[n] ELSE Innermost(c, n)
    BY <2>1, <2>3, <2>4, InnermostAppend
  <2>6. Innermost(c, n) = IF s[n] # None THEN s[n] ELSE Innermost(a, n)
    BY <2>3, InnermostAppend
  <2> QED
    BY <1>4, <2>2, <2>5, <2>6
<1>5. CASE /\ f.kind \notin {"function", "closure"}
           /\ ~(f.kind = "for_iter" /\ Entered(f))
           /\ f.kind \in {"block", "branch", "for_iter"} \/ (f.kind = "for" /\ Entered(f))
  <2>1. b = Append(a, f.scope)
    BY <1>5 DEF ScopesAt
  <2> QED
    BY <1>1, <1>5, <2>1, InnermostAppend
<1>6. CASE /\ f.kind \notin {"function", "closure"}
           /\ ~(f.kind = "for_iter" /\ Entered(f))
           /\ ~(f.kind \in {"block", "branch", "for_iter"} \/ (f.kind = "for" /\ Entered(f)))
  <2>1. b = a /\ f.scope = Empty
    BY <1>6 DEF ScopesAt
  <2> QED
    BY <1>1, <1>6, <2>1
<1> QED
  BY <1>2, <1>3, <1>4, <1>5, <1>6

(* From the start of a function on, name for name.                         *)
LEMMA NamesMean ==
  ASSUME TypeInv, NEW e, KeepsScopes(frames, gens, e),
         NEW s \in 1..Len(frames), frames[s].kind \in {"function", "closure"},
         NEW b \in s..Len(frames),
         \A j \in (s + 1)..b : frames[j].kind \notin {"function", "closure"},
         NEW n \in Names \ Hidden
  PROVE  Innermost(e[b], n) = Declared(s, b, n)
<1> SUFFICES ASSUME Innermost(e[b], n) # Declared(s, b, n)
             PROVE  FALSE
  OBVIOUS
<1> DEFINE T == {j \in s..b : Innermost(e[j], n) # Declared(s, j, n)}
<1>0. /\ frames \in Seq(Frame) /\ Len(frames) \in Nat /\ DOMAIN frames = 1..Len(frames)
      /\ s \in Nat \ {0} /\ b \in Nat /\ s <= b
  <2>1. frames \in Seq(Frame)
    BY DEF TypeInv, Framed
  <2>2. Len(frames) \in Nat /\ DOMAIN frames = 1..Len(frames)
    BY <2>1, LenProperties
  <2> QED
    BY <2>1, <2>2
<1>1. T \subseteq Nat /\ T # {}
  BY <1>0
<1>2. PICK x \in T : \A y \in T : ~ (<<y, x>> \in OpToRel(<, Nat))
  BY <1>1, NatLessThanWellFounded, WFMin
<1>3. /\ x \in s..b /\ x \in Nat \ {0} /\ x \in 1..Len(frames) /\ x \in 0..Len(frames)
      /\ x - 1 \in 0..Len(frames) /\ s <= x
  <2>1. x \in s..b
    BY <1>2
  <2>2. PICK l : l = Len(frames)
    OBVIOUS
  <2>3. l \in Nat /\ s \in 1..l /\ b \in s..l
    BY <1>0, <2>2
  <2>4. x \in Int /\ s <= x /\ x <= b /\ 1 <= s /\ b <= l
    BY <1>0, <2>1, <2>3
  <2>5. /\ x \in Nat \ {0} /\ x \in 1..l /\ x \in 0..l /\ x - 1 \in 0..l
    BY <1>0, <2>3, <2>4
  <2> QED
    BY <2>1, <2>2, <2>4, <2>5
<1>4. /\ frames[x] \in Frame /\ e[x - 1] \in Seq(Environment)
      /\ ScopesAt(frames[x], e[x - 1], e[x])
  BY <1>3, FrameTyped DEF KeepsScopes
<1>5. n \in Names /\ n # Iter
  BY DEF Hidden
<1>6. Innermost(e[x], n) = IF frames[x].scope[n] # None THEN frames[x].scope[n]
                           ELSE IF frames[x].kind \in {"function", "closure"} THEN None
                           ELSE Innermost(e[x - 1], n)
  BY <1>4, <1>5, ScopesMean
<1>7. Visible(x, n) <=> frames[x].scope[n] # None
  BY <1>0, <1>3, NotHidden
<1>8. Declared(s, x, n) = IF Visible(x, n) THEN frames[x].scope[n]
                          ELSE Declared(s, x - 1, n)
  BY <1>0, <1>3, DeclaredNext
<1>9. CASE x = s
  <2>1. Declared(s, x - 1, n) = None
    BY <1>0, <1>9, NothingDeclared
  <2> QED
    BY <1>2, <1>6, <1>7, <1>8, <1>9, <2>1
<1>10. CASE x # s
  <2>1. x \in (s + 1)..b /\ x - 1 \in s..b /\ x - 1 < x /\ x - 1 \in Nat
    BY <1>0, <1>3, <1>10
  <2>2. x - 1 \notin T
    BY <1>2, <1>3, <2>1 DEF OpToRel
  <2>3. Innermost(e[x - 1], n) = Declared(s, x - 1, n)
    BY <2>1, <2>2
  <2> QED
    BY <1>2, <1>6, <1>7, <1>8, <2>1, <2>3
<1> QED
  BY <1>9, <1>10

(* The function that a construct is written in.                            *)
LEMMA StartOfPart ==
  ASSUME TypeInv, NEW i \in 1..Len(frames), NEW s, s = FunctionStart(SubSeq(frames, 1, i))
  PROVE  /\ s \in 1..i /\ s \in 1..Len(frames) /\ i \in s..Len(frames)
         /\ frames[s].kind \in {"function", "closure"}
         /\ \A j \in (s + 1)..i : frames[j].kind \notin {"function", "closure"}
<1> DEFINE S == {k \in 1..i : frames[k].kind \in {"function", "closure"}}
<1>1. frames \in Seq(Frame) /\ Len(frames) \in Nat /\ i \in Nat \ {0} /\ 1 \in 1..Len(frames)
  <2>1. frames \in Seq(Frame)
    BY DEF TypeInv, Framed
  <2>2. Len(frames) \in Nat
    BY <2>1, LenProperties
  <2> QED
    BY <2>1, <2>2
<1>2. PICK p : p = SubSeq(frames, 1, i)
  OBVIOUS
<1>3. p \in Seq(Frame) /\ Len(p) = i /\ \A j \in 1..i : p[j] = frames[j]
  <2>1. \A j \in 1..i : frames[j] \in Frame
    BY <1>1, ElementOfSeq
  <2>2. i <= Len(frames) /\ 1 <= Len(frames) + 1
    BY <1>1
  <2> QED
    BY <1>1, <1>2, <2>1, <2>2, SubSeqProperties
<1>4. DOMAIN p = 1..i
  BY <1>3, LenProperties
<1>5. FunctionStart(p) = Max(S)
  <2>1. {k \in DOMAIN p : p[k].kind \in {"function", "closure"}} = S
    BY <1>3, <1>4
  <2> HIDE DEF S
  <2> QED
    BY <2>1 DEF FunctionStart
<1>6. 1 \in S /\ S \in SUBSET (1..i) /\ i \in Nat
  BY <1>1, FrameTyped
<1>7. s \in S /\ \A k \in S : k <= s
  <2> HIDE DEF S
  <2>1. S # {}
    BY <1>6
  <2> QED
    BY <1>2, <1>5, <1>6, <2>1, LargestExists
<1>8. s \in 1..i /\ frames[s].kind \in {"function", "closure"}
  BY <1>7
<1>9. \A j \in (s + 1)..i : j \in 1..i /\ ~(j <= s)
  BY <1>1, <1>8
<1>10. \A j \in (s + 1)..i : j \notin S
  <2> HIDE DEF S
  <2> QED
    BY <1>7, <1>9
<1> QED
  BY <1>1, <1>8, <1>9, <1>10

(* What is looked up in the environments is what the source declares.      *)
LEMMA LexicalMeaning ==
  ASSUME TypeInv, frames # <<>>, NEW e, TracksScopes(frames, gens, e), NEW n \in Names \ Hidden
  PROVE  FindLocalVar(gen, n) = Lexical(n)
<1>1. PICK l : l = Len(frames)
  OBVIOUS
<1>2. PICK s : s = FunctionStart(frames)
  OBVIOUS
<1>3. PICK c : c = Len(gens)
  OBVIOUS
<1>4. Framed(frames) /\ l \in Nat \ {0}
  BY <1>1, TopTyped
<1>5. /\ s \in 1..l /\ l \in s..l /\ s \in Nat \ {0} /\ frames[s].kind \in {"function", "closure"}
      /\ \A j \in (s + 1)..l : frames[j].kind \notin {"function", "closure"}
  <2>1. /\ s \in 1..l /\ frames[s].kind \in {"function", "closure"}
        /\ \A j \in 1..l : j > s => frames[j].kind \notin {"function", "closure"}
    BY <1>1, <1>2, <1>4, FunctionStartIs
  <2>2. \A j \in (s + 1)..l : j \in 1..l /\ j > s
    BY <2>1
  <2>3. l \in s..l /\ s \in Nat \ {0}
    BY <1>4, <2>1
  <2> QED
    BY <2>1, <2>2, <2>3
<1>6. KeepsScopes(frames, gens, e) /\ gen.environments = e[l]
  BY <1>1, GenTyped DEF TracksScopes
<1>7. Innermost(gen.environments, n) = Declared(s, l, n)
  BY <1>1, <1>5, <1>6, NamesMean
<1>8. /\ c \in Nat \ {0} /\ gen = gens[c] /\ (gen.is_closure <=> c > 1)
      /\ Number(frames, l) = c
  BY <1>1, <1>3, GenTyped, ClosureNumbers
<1>9. Number(frames, s) = c
  <2>1. PICK k : k = [j \in 0..l |-> Number(frames, j)]
    OBVIOUS
  <2>2. \A j \in (s + 1)..l : k[j] = k[j - 1]
    <3> SUFFICES ASSUME NEW j \in (s + 1)..l
                 PROVE  k[j] = k[j - 1]
      OBVIOUS
    <3>1. j \in 0..l /\ j - 1 \in 0..l /\ j \in Nat \ {0}
      BY <1>4, <1>5
    <3>2. Number(frames, j) = Number(frames, j - 1)
      BY <1>5, <3>1, NumberNext
    <3> QED
      BY <2>1, <3>1, <3>2
  <2>3. \A j \in s..l : k[j] = k[s]
    BY <1>4, <1>5, <2>2, Constant
  <2>4. k[l] = Number(frames, l) /\ k[s] = Number(frames, s) /\ k[l] = k[s]
    BY <1>4, <1>5, <2>1, <2>3
  <2> QED
    BY <1>8, <2>4
<1>10. Lexical(n) = IF Declared(s, l, n) # None \/ s = 1 THEN Declared(s, l, n)
                    ELSE Declared(FunctionStart(SubSeq(frames, 1, s - 1)), s - 1, n)
  BY <1>1, <1>2 DEF Lexical
<1>11. FindLocalVar(gen, n) = IF Declared(s, l, n) # None THEN Declared(s, l, n)
                              ELSE Outer(gen, n)
  BY <1>7 DEF FindLocalVar
<1>12. CASE s = 1
  <2>1. frames[1].kind # "closure"
    <3>1. 1 \in 1..Len(frames)
      BY <1>1, <1>4
    <3>2. frames[1].kind = "function"
      BY <3>1, FrameTyped
    <3> QED
      BY <3>2
  <2>2. Number(frames, 1) = Number(frames, 0) /\ Number(frames, 0) = 1
    <3>1. 1 \in Nat \ {0} /\ 1 - 1 = 0
      OBVIOUS
    <3>2. Number(frames, 1) = Number(frames, 0)
      BY <2>1, <3>1, NumberNext
    <3>3. {k \in 1..0 : frames[k].kind = "closure"} = {}
      OBVIOUS
    <3>4. Number(frames, 0) = 1
      BY <3>3, FS_EmptySet DEF Number
    <3> QED
      BY <3>2, <3>4
  <2>3. c = 1 /\ ~gen.is_closure
    BY <1>8, <1>9, <1>12, <2>2
  <2>4. Outer(gen, n) = None
    BY <2>3 DEF Outer
  <2> QED
    BY <1>10, <1>11, <1>12, <2>4
<1>13. CASE s # 1
  <2>1. frames[s].kind = "closure" /\ s - 1 \in 1..Len(frames) /\ s \in 1..Len(frames)
    <3>1. s \in 1..Len(frames) /\ s - 1 \in 1..Len(frames)
      BY <1>1, <1>4, <1>5, <1>13
    <3>2. frames[s].kind # "function"
      BY <1>13, <3>1, FrameTyped
    <3> QED
      BY <1>5, <3>1, <3>2
  <2>2. Remembers(gens[c], e[s - 1])
    BY <1>6, <1>9, <2>1 DEF KeepsScopes
  <2>3. gen.is_closure
    <3>1. c \in 2..Len(gens)
      BY <1>1, <1>5, <1>9, <2>1, ClosureNumbers
    <3> QED
      BY <1>8, <3>1
  <2>4. Outer(gen, n) = Innermost(e[s - 1], n)
    BY <1>8, <2>2, <2>3 DEF Outer, Remembers
  <2>5. PICK r : r = FunctionStart(SubSeq(frames, 1, s - 1))
    OBVIOUS
  <2>6. PICK i : i = s - 1
    OBVIOUS
  <2>7. /\ r \in 1..Len(frames) /\ i \in r..Len(frames)
        /\ frames[r].kind \in {"function", "closure"}
        /\ \A j \in (r + 1)..i : frames[j].kind \notin {"function", "closure"}
    BY <2>1, <2>5, <2>6, StartOfPart
  <2>8. Innermost(e[i], n) = Declared(r, i, n)
    BY <1>6, <2>7, NamesMean
  <2> QED
    BY <1>10, <1>11, <1>13, <2>4, <2>5, <2>6, <2>8
<1> QED
  BY <1>12, <1>13

(* Wherever the walk is, a name means the variable that the innermost      *)
(* enclosing construct of the source declares: for every program that      *)
(* nothing disturbs, whatever was entered and left before.                 *)
THEOREM LexicalScopingHolds == Spec => []LexicalScoping
<1>1. TypeInv /\ ScopeInv => LexicalScoping
  <2> SUFFICES ASSUME TypeInv, ScopeInv, Undisturbed, frames # <<>>, NEW n \in Names \ Hidden
               PROVE  FindLocalVar(gen, n) = Lexical(n)
    BY DEF LexicalScoping
  <2>1. PICK e : TracksScopes(frames, gens, e)
    BY DEF ScopeInv
  <2> QED
    BY <2>1, LexicalMeaning
<1> QED
  BY <1>1, TypeInvariant, ScopeInvariant, PTL

(* The closure literal of each generator but the first.                    *)
LEMMA LiteralExists ==
  ASSUME TypeInv, NEW k \in 2..Len(gens)
  PROVE  \E i \in 1..Len(frames) : frames[i].kind = "closure" /\ Number(frames, i) = k
<1>1. PICK l : l = Len(frames)
  OBVIOUS
<1>2. l \in Nat /\ Number(frames, l) = Len(gens) /\ Len(gens) \in Nat \ {0}
  BY <1>1, ClosureNumbers, GenTyped
<1> DEFINE T == {j \in 0..l : Number(frames, j) >= k}
<1>3. T \subseteq Nat /\ T # {}
  <2>1. l \in T
    BY <1>2
  <2> QED
    BY <2>1
<1>4. PICK x \in T : \A y \in T : ~ (<<y, x>> \in OpToRel(<, Nat))
  BY <1>3, NatLessThanWellFounded, WFMin
<1>5. x \in 0..l /\ x \in Nat /\ Number(frames, x) >= k /\ k \in Nat /\ k >= 2
  <2>1. x \in 0..l /\ Number(frames, x) >= k
    BY <1>4
  <2>2. k \in Nat /\ k >= 2
    BY <1>2
  <2> QED
    BY <1>2, <2>1, <2>2
<1>6. x # 0
  <2>1. {i \in 1..0 : frames[i].kind = "closure"} = {}
    OBVIOUS
  <2>2. Number(frames, 0) = 1
    BY <2>1, FS_EmptySet DEF Number
  <2> QED
    BY <1>5, <2>2
<1>7. x - 1 \in Nat /\ x - 1 \in 0..l /\ x - 1 < x /\ x \in Nat \ {0} /\ x \in 1..l
  BY <1>2, <1>5, <1>6
<1>8. x - 1 \notin T
  BY <1>4, <1>5, <1>7 DEF OpToRel
<1>9. Number(frames, x - 1) \in Nat \ {0} /\ ~(Number(frames, x - 1) >= k)
  BY <1>7, <1>8, NumberTyped
<1>10. Number(frames, x) = IF frames[x].kind = "closure" THEN Number(frames, x - 1) + 1
                           ELSE Number(frames, x - 1)
  BY <1>7, NumberNext
<1>11. frames[x].kind = "closure" /\ Number(frames, x) = k
  BY <1>5, <1>9, <1>10
<1> QED
  BY <1>1, <1>7, <1>11

LEMMA LiteralIs ==
  ASSUME TypeInv, NEW k \in 2..Len(gens), NEW i, i = Literal(k)
  PROVE  i \in 1..Len(frames) /\ frames[i].kind = "closure" /\ Number(frames, i) = k
<1>1. PICK j \in 1..Len(frames) : frames[j].kind = "closure" /\ Number(frames, j) = k
  BY LiteralExists
<1>2. DOMAIN frames = 1..Len(frames) /\ Len(frames) \in Nat /\ k \in Nat
  <2>1. frames \in Seq(Frame) /\ Len(gens) \in Nat
    BY GenTyped DEF TypeInv, Framed
  <2> QED
    BY <2>1, LenProperties
<1>3. \A x \in 1..Len(frames) :
        Number(frames, x) = k <=> Cardinality({y \in 1..x : frames[y].kind = "closure"}) = k - 1
  <2> SUFFICES ASSUME NEW x \in 1..Len(frames)
               PROVE  Number(frames, x) = k <=>
                        Cardinality({y \in 1..x : frames[y].kind = "closure"}) = k - 1
    OBVIOUS
  <2>1. PICK q : q = Cardinality({y \in 1..x : frames[y].kind = "closure"})
    OBVIOUS
  <2>2. x \in Nat /\ {y \in 1..x : frames[y].kind = "closure"} \subseteq 1..x
    BY <1>2
  <2>3. q \in Nat
    BY <2>1, <2>2, PartFinite
  <2>4. Number(frames, x) = 1 + q
    BY <2>1 DEF Number
  <2> QED
    BY <1>2, <2>1, <2>3, <2>4
<1>4. /\ i \in 1..Len(frames) /\ frames[i].kind = "closure"
      /\ Cardinality({y \in 1..i : frames[y].kind = "closure"}) = k - 1
  <2>1. i = CHOOSE x \in 1..Len(frames) :
              /\ frames[x].kind = "closure"
              /\ Cardinality({y \in 1..x : frames[y].kind = "closure"}) = k - 1
    BY <1>2 DEF Literal
  <2>2. \E x \in 1..Len(frames) :
          /\ frames[x].kind = "closure"
          /\ Cardinality({y \in 1..x : frames[y].kind = "closure"}) = k - 1
    BY <1>1, <1>3
  <2> QED
    BY <2>1, <2>2
<1> QED
  BY <1>3, <1>4

(* A closure captures what the function around its literal has there.      *)
LEMMA CapturedThere ==
  ASSUME TypeInv, NEW e, KeepsScopes(frames, gens, e), NEW k \in 2..Len(gens),
         NEW v \in gens[k].captured, NEW i, i = Literal(k), v.name \notin Hidden
  PROVE  v = Declared(FunctionStart(SubSeq(frames, 1, i - 1)), i - 1, v.name)
<1>1. i \in 1..Len(frames) /\ frames[i].kind = "closure" /\ Number(frames, i) = k
  BY LiteralIs
<1>2. Len(frames) \in Nat /\ i \in Nat
  <2>1. frames \in Seq(Frame)
    BY DEF TypeInv, Framed
  <2> QED
    BY <1>1, <2>1, LenProperties
<1>3. i # 1
  <2>1. frames[i].kind # "function"
    BY <1>1
  <2> QED
    BY <1>1, <2>1, FrameTyped
<1>4. PICK j : j = i - 1
  OBVIOUS
<1>5. j \in 1..Len(frames)
  BY <1>1, <1>2, <1>3, <1>4
<1>6. Remembers(gens[k], e[j])
  BY <1>1, <1>4 DEF KeepsScopes
<1>7. v = Innermost(e[j], v.name)
  BY <1>6 DEF Remembers
<1>8. v.name \in Names
  <2>1. k \in 1..Len(gens)
    BY GenTyped
  <2>2. gens[k] \in Generator
    BY <2>1, ElementOfSeq DEF TypeInv
  <2>3. v \in Var
    BY <2>2 DEF Generator
  <2> QED
    BY <2>3 DEF Var
<1>9. PICK s : s = FunctionStart(SubSeq(frames, 1, j))
  OBVIOUS
<1>10. /\ s \in 1..Len(frames) /\ j \in s..Len(frames)
       /\ frames[s].kind \in {"function", "closure"}
       /\ \A x \in (s + 1)..j : frames[x].kind \notin {"function", "closure"}
  BY <1>5, <1>9, StartOfPart
<1>11. PICK n : n = v.name
  OBVIOUS
<1>12. n \in Names \ Hidden
  BY <1>8, <1>11
<1>13. Innermost(e[j], n) = Declared(s, j, n)
  BY <1>10, <1>12, NamesMean
<1> QED
  BY <1>4, <1>7, <1>9, <1>11, <1>13

(* What a closure captures are the variables that the function around it   *)
(* has where the literal is written: however deep closures are in each     *)
(* other, and whatever they define before they look a name up.             *)
THEOREM CapturedWhereWrittenHolds == Spec => []CapturedWhereWritten
<1>1. TypeInv /\ ScopeInv => CapturedWhereWritten
  <2> SUFFICES ASSUME TypeInv, ScopeInv, Undisturbed,
                      NEW k \in 2..Len(gens), NEW v \in gens[k].captured
               PROVE  \/ v.name \in Hidden
                      \/ v = Declared(FunctionStart(SubSeq(frames, 1, Literal(k) - 1)),
                                      Literal(k) - 1, v.name)
    BY DEF CapturedWhereWritten
  <2>1. PICK e : TracksScopes(frames, gens, e)
    BY DEF ScopeInv
  <2>2. KeepsScopes(frames, gens, e)
    BY <2>1 DEF TracksScopes
  <2>3. PICK i : i = Literal(k)
    OBVIOUS
  <2> QED
    BY <2>2, <2>3, CapturedThere
<1> QED
  BY <1>1, TypeInvariant, ScopeInvariant, PTL
=============================================================================
