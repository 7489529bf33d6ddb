--------------------------- MODULE Codegen_proofs ---------------------------
(***************************************************************************)
(* Proofs about the control flow that the IR generator emits, for function *)
(* bodies of every size and shape, the odd ones included: the types of the *)
(* state, that a block ends once, that a break leaves the innermost loop,  *)
(* and that scopes of locals nest.                                         *)
(***************************************************************************)
EXTENDS Codegen, SequenceTheorems, FiniteSetTheorems, TLAPS

-----------------------------------------------------------------------------
(* Lemmas about the operators of the GIR generator.                        *)

(* How many operands an expression has.                                    *)
Operands(kind, n) ==
  /\ kind \in {"break", "return"} => n = 1
  /\ kind = "block" => n = 2
  /\ kind \in {"if", "loop"} => n = 3
  /\ kind = "switch" => n \in {3, 5}

Within(sub, ns) == \A j \in 1..Len(sub) : sub[j] \in 1..Len(ns)

Expressions(ns) ==
  /\ ns \in Seq(Node) /\ Len(ns) >= 5
  /\ \A i \in 1..Len(ns) :
        Operands(ns[i].kind, Len(ns[i].sub)) /\ Within(ns[i].sub, ns)


LEMMA ElemsAre ==
  ASSUME NEW S, NEW s \in Seq(S)
  PROVE  /\ Elems(s) = {s[i] : i \in 1..Len(s)} /\ Elems(s) \subseteq S
         /\ Len(s) \in Nat /\ DOMAIN s = 1..Len(s)
<1>1. DOMAIN s = 1..Len(s) /\ Len(s) \in Nat
  BY LenProperties
<1> QED
  BY <1>1, ElementOfSeq DEF Elems

LEMMA Appended ==
  ASSUME NEW S, NEW s \in Seq(S), NEW x \in S, NEW r, r = Append(s, x)
  PROVE  /\ r \in Seq(S) /\ Len(r) = Len(s) + 1 /\ r[Len(s) + 1] = x /\ r # <<>>
         /\ \A i \in 1..Len(s) : r[i] = s[i]
         /\ Len(s) \in Nat /\ Last(r) = x
<1>1. r \in Seq(S) /\ Len(r) = Len(s) + 1 /\ r[Len(s) + 1] = x /\ r # <<>>
  BY AppendProperties
<1>2. \A i \in 1..Len(s) : r[i] = s[i]
  BY AppendProperties
<1>3. Len(s) \in Nat
  BY LenProperties
<1> QED
  BY <1>1, <1>2, <1>3 DEF Last

LEMMA FrontIs ==
  ASSUME NEW S, NEW s \in Seq(S), s # <<>>, NEW r, r = Front(s)
  PROVE  /\ Len(s) \in Nat \ {0} /\ r \in Seq(S) /\ Len(r) = Len(s) - 1
         /\ \A i \in 1..(Len(s) - 1) : r[i] = s[i]
         /\ Last(s) = s[Len(s)] /\ Last(s) \in S
<1>1. Len(s) \in Nat \ {0}
  BY EmptySeq
<1>2. PICK h : h = Len(s) - 1
  OBVIOUS
<1>3. h \in Nat /\ h <= Len(s) /\ 1 <= Len(s) + 1 /\ Len(s) \in 1..Len(s)
  BY <1>1, <1>2
<1>4. SubSeq(s, 1, h) \in Seq(S)
  <2>1. \A i \in 1..h : s[i] \in S
    BY <1>1, <1>3, ElementOfSeq
  <2> QED
    BY <1>3, <2>1, SubSeqProperties
<1>5. /\ Len(SubSeq(s, 1, h)) = h
      /\ \A i \in 1..h : SubSeq(s, 1, h)[i] = s[i]
  <2>1. \A i \in 1..h : s[i] \in S
    BY <1>1, <1>3, ElementOfSeq
  <2>2. PICK q : q = SubSeq(s, 1, h)
    OBVIOUS
  <2>3. 1 \in Int /\ h \in Int
    BY <1>3
  <2>4. /\ Len(q) = IF 1 <= h THEN h - 1 + 1 ELSE 0
        /\ \A i \in 1..(h - 1 + 1) : q[i] = s[1 + i - 1]
    BY <2>1, <2>2, <2>3, SubSeqProperties
  <2>5. Len(q) = h /\ \A i \in 1..h : q[i] = s[i]
    <3>1. h - 1 + 1 = h /\ \A i \in 1..h : 1 + i - 1 = i
      BY <1>3
    <3>2. ~(1 <= h) => h = 0
      BY <1>3
    <3> QED
      BY <2>4, <3>1, <3>2
  <2> QED
    BY <2>2, <2>5
<1> QED
  BY <1>1, <1>2, <1>3, <1>4, <1>5, ElementOfSeq DEF Front, Last

LEMMA UnifiedTyped ==
  ASSUME NEW l \in Types, NEW r \in Types
  PROVE  Unified(l, r) \in Types /\ Unifies(l, r) \in BOOLEAN
BY DEF Unified, Unifies, Types

LEMMA FlagTyped ==
  ASSUME NEW S, NEW w \in S, NEW b
  PROVE  Flag(w, b) \in SUBSET S
BY DEF Flag

LEMMA OperandTyped ==
  ASSUME Expressions(nodes), NEW i \in 1..Len(nodes)
  PROVE  /\ nodes[i] \in Node /\ Ty(i) \in Types /\ nodes[i].odd \subseteq Oddities
         /\ nodes[i].breaks \subseteq Given /\ nodes[i].kind \in Kinds
         /\ nodes[i].leaves \in BOOLEAN /\ nodes[i].gives \in BOOLEAN
<1>1. nodes[i] \in Node
  BY ElementOfSeq DEF Expressions
<1> QED
  BY <1>1 DEF Node, Ty

LEMMA MakeNodeTyped ==
  ASSUME Expressions(nodes), NEW kind \in Kinds \ {"call", "none"},
         NEW sub \in Seq(Nat \ {0}), Operands(kind, Len(sub)), Within(sub, nodes),
         NEW ty \in Types, NEW phi \in BOOLEAN, NEW odd \in SUBSET Oddities,
         NEW x, x = MakeNode(kind, sub, ty, phi, odd)
  PROVE  x \in Node /\ x.kind = kind /\ x.sub = sub /\ x.ty = ty /\ x.phi = phi
<1>1. Elems(sub) = {sub[j] : j \in 1..Len(sub)} /\ Len(sub) \in Nat
  BY ElemsAre
<1>2. PICK subs : subs = {nodes[i] : i \in Elems(sub)}
  OBVIOUS
<1>3. subs \subseteq Node
  BY <1>1, <1>2, OperandTyped DEF Within
<1>4. \A n \in subs : n.breaks \subseteq Given /\ n.odd \subseteq Oddities
  BY <1>3 DEF Node
<1>5. 1 \in 1..Len(sub) /\ sub[1] \in 1..Len(nodes)
  <2>1. 1 \in 1..Len(sub)
    BY <1>1 DEF Operands, Kinds
  <2> QED
    BY <2>1 DEF Within
<1>6. PICK given : given = IF kind = "loop" THEN nodes[sub[1]].breaks
                           ELSE UNION {n.breaks : n \in subs}
  OBVIOUS
<1>7. given \subseteq Given
  <2>1. nodes[sub[1]].breaks \subseteq Given
    BY <1>5, OperandTyped
  <2>2. UNION {n.breaks : n \in subs} \subseteq Given
    BY <1>4
  <2> QED
    BY <1>6, <2>1, <2>2
<1>8. PICK breaks : breaks = given \cup IF kind = "break" THEN {nodes[sub[1]].ty} ELSE {}
  OBVIOUS
<1>9. breaks \in SUBSET Given
  <2>1. nodes[sub[1]].ty \in Types
    BY <1>5, OperandTyped DEF Ty
  <2> QED
    BY <1>7, <1>8, <2>1 DEF Given
<1>10. PICK leaves : leaves = (\/ kind \in {"break", "return"}
                               \/ kind = "block" /\ \E n \in subs : n.leaves)
  OBVIOUS
<1>11. leaves \in BOOLEAN
  BY <1>10
<1>12. PICK gives : gives = CASE kind \in {"break", "return"} -> TRUE
                   [] kind = "block" -> nodes[sub[2]].gives
                   [] kind = "if" -> nodes[sub[2]].gives /\ nodes[sub[3]].gives
                   [] OTHER -> ty = "value"
  OBVIOUS
<1>13. gives \in BOOLEAN
  <2>1. kind = "block" => nodes[sub[2]].gives \in BOOLEAN
    <3>1. kind = "block" => 2 \in 1..Len(sub)
      <4>1. kind = "block" => Len(sub) = 2
        BY DEF Operands
      <4>2. 2 \in 1..2
        OBVIOUS
      <4> QED
        BY ONLY <4>1, <4>2
    <3> QED
      BY <3>1, OperandTyped DEF Within
  <2> QED
    BY <1>12, <2>1
<1>14. PICK odds : odds = odd \cup UNION {n.odd : n \in subs}
  OBVIOUS
<1>15. odds \in SUBSET Oddities
  BY <1>4, <1>14
<1>16. x = [kind |-> kind, sub |-> sub, ty |-> ty, phi |-> phi, breaks |-> breaks,
            leaves |-> leaves, gives |-> gives, odd |-> odds]
  BY <1>2, <1>6, <1>8, <1>10, <1>12, <1>14 DEF MakeNode
<1> QED
  BY <1>9, <1>11, <1>13, <1>15, <1>16 DEF Node


-----------------------------------------------------------------------------
(* The types of the state.                                                 *)

(* An expression that is being generated has at most the operands that the *)
(* syntax tree gives it; an else branch may be missing there.              *)
Formed(f) ==
  /\ Len(f.sub) <= f.arity
  /\ f.kind \notin {"call", "none"}
  /\ f.kind \in {"function", "break", "return"} => f.arity = 1
  /\ f.kind = "block" => f.arity = 2
  /\ f.kind \in {"if", "loop"} => f.arity = IF f.else THEN 3 ELSE 2
  /\ f.kind = "switch" => f.arity \in IF f.else THEN {3, 5} ELSE {2, 4}

Forming ==
  /\ Expressions(nodes)
  /\ open \in Seq(Opened) /\ open # <<>>
  /\ \A i \in 1..Len(open) : /\ open[i].kind = "function" <=> i = 1
                             /\ Formed(open[i]) /\ Within(open[i].sub, nodes)

(* Where a call of expression_ can be, what it has made by then, and that  *)
(* the operand it goes on with exists.                                     *)
PlacesOf(kind) ==
  CASE kind \in {"call", "none"} -> {"visit"}
    [] kind = "break" -> {"visit", "break"}
    [] kind = "return" -> {"visit", "return"}
    [] kind = "block" -> {"visit", "block"}
    [] kind = "if" -> {"visit", "cond", "then", "else"}
    [] kind = "switch" -> {"visit", "cond", "case", "else"}
    [] OTHER -> {"visit", "cond", "body", "again", "else"}

HasBlocks(kind, pc) == \/ kind = "if" /\ pc \in {"then", "else"}
                       \/ kind \in {"switch", "loop"} /\ pc # "visit"

Placed(f, kind, k, n) ==
  /\ f.pc \in PlacesOf(kind)
  /\ HasBlocks(kind, f.pc) =>
        Len(f.blocks) = 3 /\ \A i \in 1..3 : f.blocks[i] \in 1..n
  /\ kind = "block" => f.case \in 1..2
  /\ f.pc = "visit" => f.case = 1
  /\ kind = "switch" => f.case \in 1..3
  /\ kind = "switch" /\ f.pc \in {"visit", "cond", "case"} => 2 * f.case + 1 <= k
  /\ f.pc = "again" => Len(f.incoming) = 1

KindOf(f) == nodes[f.node].kind
Calling(f, n) == /\ f \in Frame /\ f.node \in 1..Len(nodes)
                 /\ Placed(f, KindOf(f), Len(nodes[f.node].sub), n)

Emitting(g) == /\ g \in Generator /\ g.insert \in 0..Len(g.term)
               /\ g.insert # 0 => g.term[g.insert] = Open

(* The blocks of a call, by their places in its blocks, that code is still *)
(* to be emitted into: they are open, nothing is inserted into them yet,   *)
(* and no two calls have the same.                                         *)
ToCome(kind, pc) ==
  CASE kind = "if" /\ pc = "then" -> {2, 3}
    [] kind = "if" /\ pc = "else" -> {3}
    [] kind = "switch" /\ pc = "cond" -> {1, 2, 3}
    [] kind = "switch" /\ pc = "case" -> {1, 2}
    [] kind = "switch" /\ pc = "else" -> {1}
    [] kind = "loop" /\ pc = "cond" -> {1, 2, 3}
    [] kind = "loop" /\ pc \in {"body", "again"} -> {2, 3}
    [] kind = "loop" /\ pc = "else" -> {3}
    [] OTHER -> {}
Waiting(f) == ToCome(KindOf(f), f.pc)

Untouched(f, g) == \A j \in Waiting(f) : /\ g.term[f.blocks[j]] = Open
                                        /\ f.blocks[j] # g.insert
Disjoint(e, f) == \A j \in Waiting(e), k \in Waiting(f) : e.blocks[j] # f.blocks[k]
Distinct(f) == \A j, k \in Waiting(f) : j # k => f.blocks[j] # f.blocks[k]

BlocksKept(fs, g) ==
  /\ \A i \in 1..Len(fs) : Untouched(fs[i], g) /\ Distinct(fs[i])
  /\ \A i, k \in 1..Len(fs) : i # k => Disjoint(fs[i], fs[k])

(* Where a break goes that the first k calls are around.                   *)
IsLoop(f) == KindOf(f) = "loop" /\ f.pc # "visit"
Around(fs, k) == {i \in 1..k : IsLoop(fs[i])}
Innermost(loops) == CHOOSE i \in loops : \A j \in loops : j <= i
EndOf(fs, k) == IF Around(fs, k) = {} THEN 0 ELSE fs[Innermost(Around(fs, k))].blocks[3]

LoopsNest(fs, g) ==
  /\ \A i \in 1..Len(fs) : IsLoop(fs[i]) => fs[i].outer.end = EndOf(fs, i - 1)
  /\ g.loop.end = EndOf(fs, Len(fs))

(* How many scopes a call has pushed and not popped yet.                   *)
Depth(f) == IF \/ f.pc \in {"block", "then", "case", "body", "else"}
               \/ f.pc = "cond" /\ KindOf(f) = "switch"
            THEN 1 ELSE 0

ScopesNest(fs, g) ==
  /\ \A i \in 1..(Len(fs) - 1) : fs[i + 1].base = fs[i].base + Depth(fs[i])
  /\ fs # <<>> => g.locals = g.unclosed + Last(fs).base + Depth(Last(fs))

Walk(fs, g) ==
  /\ fs \in Seq(Frame) /\ \A i \in 1..Len(fs) : Calling(fs[i], Len(g.term))
  /\ Emitting(g) /\ BlocksKept(fs, g) /\ LoopsNest(fs, g) /\ ScopesNest(fs, g)

TypeInv ==
  /\ left \in 0..MaxSize
  /\ ret_type \in {"none", "value"}
  /\ phase \in {"gir", "ir", "done", "panicked"}
  /\ Forming
  /\ phase = "gir" => frames = <<>> /\ m = Prepared
  /\ result \in Value
  /\ Walk(frames, m)

-----------------------------------------------------------------------------
(* The GIR generator keeps to the types.                                   *)

LEMMA PreparedTyped == Emitting(Prepared) /\ Prepared.loop.end = 0
<1>1. /\ Open \in Terminator /\ <<>> \in Seq(Incoming)
  BY DEF Open, Terminator
<1>2. <<Open>> \in Seq(Terminator) /\ Len(<<Open>>) = 1 /\ <<Open>>[1] = Open
  BY <1>1
<1>3. NoLoop \in LoopData /\ NoLoop.end = 0
  BY <1>1 DEF NoLoop, LoopData
<1>4. Prepared \in Generator
  BY <1>2, <1>3 DEF Prepared, Generator
<1>5. Prepared.insert = 1 /\ Prepared.term = <<Open>> /\ Prepared.loop = NoLoop
  BY DEF Prepared
<1> QED
  BY <1>2, <1>3, <1>4, <1>5 DEF Emitting

(* Before any call of expression_.                                         *)
LEMMA NothingWalked == ASSUME frames' = <<>>, m' = Prepared PROVE Walk(frames, m)'
<1>1. <<>> \in Seq(Frame) /\ Len(<<>>) = 0 /\ 1..0 = {}
  OBVIOUS
<1>2. EndOf(frames, Len(frames))' = 0
  <2>1. Around(frames, Len(frames))' = {}
    BY <1>1 DEF Around
  <2> QED
    BY <2>1 DEF EndOf
<1>3. BlocksKept(frames, m)' /\ LoopsNest(frames, m)' /\ ScopesNest(frames, m)'
  <2>1. \A i \in 1..(0 - 1) : FALSE
    OBVIOUS
  <2> QED
    BY <1>1, <1>2, <2>1, PreparedTyped DEF BlocksKept, LoopsNest, ScopesNest
<1> QED
  BY <1>1, <1>3, PreparedTyped DEF Walk, Emitting

LEMMA WithinMore ==
  ASSUME NEW sub, NEW ns, Within(sub, ns), NEW r, Len(ns) \in Nat, Len(r) \in Nat,
         Len(ns) <= Len(r)
  PROVE  Within(sub, r)
BY DEF Within

LEMMA InnerIs ==
  ASSUME TypeInv
  PROVE  /\ Inner = open[Len(open)] /\ Len(open) \in Nat \ {0} /\ Len(open) \in 1..Len(open)
         /\ Inner \in Opened /\ Formed(Inner) /\ Within(Inner.sub, nodes)
         /\ Inner.sub \in Seq(Nat \ {0}) /\ Len(Inner.sub) \in Nat /\ Inner.arity \in Nat
         /\ Inner.kind # "function" => Len(open) > 1
<1>1. open \in Seq(Opened) /\ Len(open) \in Nat \ {0} /\ Inner = open[Len(open)]
  BY EmptySeq DEF TypeInv, Forming, Inner, Last
<1>2. Inner \in Opened
  BY <1>1, ElementOfSeq
<1>3. Len(open) \in 1..Len(open)
  BY <1>1
<1>4. Formed(Inner) /\ Within(Inner.sub, nodes) /\ (Inner.kind = "function" <=> Len(open) = 1)
  BY <1>1, <1>3 DEF TypeInv, Forming
<1>5. Inner.sub \in Seq(Nat \ {0}) /\ Inner.arity \in Nat
  BY <1>2 DEF Opened
<1>6. Len(Inner.sub) \in Nat
  BY <1>5, LenProperties
<1>7. Inner.kind # "function" => Len(open) > 1
  <2>1. PICK n : n = Len(open)
    OBVIOUS
  <2>2. n \in Nat \ {0} /\ (Inner.kind = "function" <=> n = 1)
    BY <1>1, <1>4, <2>1
  <2>3. Inner.kind # "function" => n > 1
    BY <2>2
  <2> QED
    BY <2>1, <2>3
<1> QED
  BY <1>1, <1>2, <1>3, <1>4, <1>5, <1>6, <1>7

LEMMA NodesTyped ==
  ASSUME TypeInv
  PROVE  /\ Expressions(nodes) /\ nodes \in Seq(Node) /\ Len(nodes) \in Nat /\ Len(nodes) >= 5
         /\ nodes # <<>>
<1>1. nodes \in Seq(Node) /\ Len(nodes) >= 5
  BY DEF TypeInv, Forming, Expressions
<1>2. Len(nodes) \in Nat
  BY <1>1, LenProperties
<1>3. nodes # <<>>
  <2>1. Len(<<>>) = 0
    OBVIOUS
  <2> QED
    BY <1>1, <2>1
<1> QED
  BY <1>1, <1>2, <1>3 DEF TypeInv, Forming

(* One more operand for the last of some expressions.                      *)
LEMMA OperandAdded ==
  ASSUME NEW fs \in Seq(Opened), fs # <<>>, NEW e \in Nat \ {0}, NEW ns, e \in 1..Len(ns),
         \A i \in 1..Len(fs) : /\ fs[i].kind = "function" <=> i = 1
                               /\ Formed(fs[i]) /\ Within(fs[i].sub, ns),
         Len(Last(fs).sub) < Last(fs).arity,
         NEW r, r = AddOperand(fs, e)
  PROVE  /\ r \in Seq(Opened) /\ r # <<>>
         /\ \A i \in 1..Len(r) : /\ r[i].kind = "function" <=> i = 1
                                 /\ Formed(r[i]) /\ Within(r[i].sub, ns)
<1>1. PICK n : n = Len(fs)
  OBVIOUS
<1>2. n \in Nat \ {0} /\ n \in 1..n /\ Last(fs) = fs[n] /\ DOMAIN fs = 1..n
  BY <1>1, EmptySeq, LenProperties DEF Last
<1>3. fs[n] \in Opened /\ fs[n].sub \in Seq(Nat \ {0}) /\ fs[n].arity \in Nat
  <2>1. fs[n] \in Opened
    BY <1>1, <1>2, ElementOfSeq
  <2> QED
    BY <2>1 DEF Opened
<1>4. PICK s : s = Append(fs[n].sub, e)
  OBVIOUS
<1>5. /\ s \in Seq(Nat \ {0}) /\ Len(s) = Len(fs[n].sub) + 1 /\ s[Len(fs[n].sub) + 1] = e
      /\ \A i \in 1..Len(fs[n].sub) : s[i] = fs[n].sub[i]
      /\ Len(fs[n].sub) \in Nat
  BY <1>3, <1>4, Appended
<1>6. PICK f : f = [fs[n] EXCEPT !.sub = s]
  OBVIOUS
<1>7. f \in Opened /\ f.sub = s /\ f.kind = fs[n].kind /\ f.arity = fs[n].arity
      /\ f.else = fs[n].else
  BY <1>3, <1>5, <1>6 DEF Opened
<1>8. Within(s, ns)
  <2>1. Within(fs[n].sub, ns)
    BY <1>1, <1>2
  <2>2. \A i \in 1..Len(s) : i \in 1..Len(fs[n].sub) \/ i = Len(fs[n].sub) + 1
    BY <1>5
  <2> QED
    BY <1>5, <2>1, <2>2 DEF Within
<1>9. Formed(f)
  <2>1. Formed(fs[n])
    BY <1>1, <1>2
  <2>2. Len(s) <= f.arity
    BY <1>2, <1>3, <1>5, <1>7
  <2> QED
    BY <1>7, <2>1, <2>2 DEF Formed
<1>10. r = [fs EXCEPT ![n] = f]
  BY <1>1, <1>4, <1>6 DEF AddOperand
<1>11. r \in Seq(Opened) /\ Len(r) = n
  BY <1>1, <1>2, <1>7, <1>10, ExceptSeq
<1>12. \A i \in 1..n : r[i] = IF i = n THEN f ELSE fs[i]
  BY <1>2, <1>10
<1>13. r # <<>>
  <2>1. Len(<<>>) = 0
    OBVIOUS
  <2> QED
    BY <1>2, <1>11, <2>1
<1>14. \A i \in 1..n : /\ r[i].kind = "function" <=> i = 1
                       /\ Formed(r[i]) /\ Within(r[i].sub, ns)
  BY <1>1, <1>2, <1>7, <1>8, <1>9, <1>12
<1> QED
  BY <1>11, <1>13, <1>14

LEMMA PushLeafStep == ASSUME TypeInv, PushLeaf PROVE TypeInv'
<1>1. PICK i \in 1..5 : Takes(Inner, nodes[i].ty) /\ open' = AddOperand(open, i)
  BY DEF PushLeaf
<1>2. /\ Expressions(nodes) /\ nodes \in Seq(Node) /\ Len(nodes) \in Nat /\ Len(nodes) >= 5
      /\ i \in 1..Len(nodes) /\ i \in Nat \ {0}
  <2>1. Len(nodes) \in Nat /\ Len(nodes) >= 5
    BY NodesTyped
  <2>2. i \in 1..Len(nodes) /\ i \in Nat \ {0}
    BY <2>1
  <2> QED
    BY <2>1, <2>2, NodesTyped
<1>3. PICK r : r = AddOperand(open, i)
  OBVIOUS
<1>4. /\ r \in Seq(Opened) /\ r # <<>>
      /\ \A j \in 1..Len(r) : /\ r[j].kind = "function" <=> j = 1
                              /\ Formed(r[j]) /\ Within(r[j].sub, nodes)
  <2>1. Len(Last(open).sub) < Last(open).arity
    BY <1>1 DEF Takes, Inner
  <2>2. /\ open \in Seq(Opened) /\ open # <<>>
        /\ \A j \in 1..Len(open) : /\ open[j].kind = "function" <=> j = 1
                                   /\ Formed(open[j]) /\ Within(open[j].sub, nodes)
    BY DEF TypeInv, Forming
  <2> QED
    BY <1>2, <1>3, <2>1, <2>2, OperandAdded
<1>5. UNCHANGED <<left, ret_type, phase, nodes, frames, result, m>>
  BY DEF PushLeaf
<1>6. Forming'
  BY <1>1, <1>2, <1>3, <1>4, <1>5 DEF Forming
<1>7. frames = <<>> /\ m = Prepared
  BY DEF TypeInv, PushLeaf
<1> QED
  BY <1>5, <1>6, <1>7, NothingWalked DEF TypeInv

LEMMA FormTyped ==
  ASSUME NEW k, NEW n \in Nat, NEW e \in BOOLEAN, NEW x \in BOOLEAN,
         \/ k \in {"break", "return"} /\ n = 1
         \/ k = "block" /\ n = 2
         \/ k \in {"if", "loop"} /\ n = IF e THEN 3 ELSE 2
         \/ k = "switch" /\ n \in IF e THEN {3, 5} ELSE {2, 4},
         NEW f, f = [kind |-> k, arity |-> n, else |-> e, exhaustive |-> x, sub |-> <<>>]
  PROVE  /\ f \in Opened /\ Formed(f) /\ f.sub = <<>> /\ f.kind # "function"
         /\ Size(f) \in Nat \ {0}
<1>1. /\ <<>> \in Seq(Nat \ {0}) /\ Len(<<>>) = 0
  OBVIOUS
<1>2. /\ f.kind = k /\ f.arity = n /\ f.else = e /\ f.exhaustive = x /\ f.sub = <<>>
      /\ k \in Kinds /\ k # "function"
  BY DEF Kinds
<1>3. f \in Opened
  BY <1>1, <1>2 DEF Opened
<1>4. Formed(f)
  BY <1>1, <1>2 DEF Formed
<1>5. Size(f) \in Nat \ {0}
  <2>1. Size(f) = IF k = "switch" THEN 1 + n \div 2 ELSE 1
    BY <1>2 DEF Size
  <2>2. CASE k = "switch"
    <3>1. n = 2 \/ n = 3 \/ n = 4 \/ n = 5
      BY <2>2
    <3>2. 2 \div 2 = 1 /\ 3 \div 2 = 1 /\ 4 \div 2 = 2 /\ 5 \div 2 = 2
      OBVIOUS
    <3> QED
      BY <2>1, <2>2, <3>1, <3>2
  <2> QED
    BY <2>1, <2>2
<1> QED
  BY <1>2, <1>3, <1>4, <1>5

(* What the syntax tree gives, before there are operands.                  *)
Blank(f) ==
  \E k, n, e, x :
    /\ f = [kind |-> k, arity |-> n, else |-> e, exhaustive |-> x, sub |-> <<>>]
    /\ n \in Nat /\ e \in BOOLEAN /\ x \in BOOLEAN
    /\ \/ k \in {"break", "return"} /\ n = 1
       \/ k = "block" /\ n = 2
       \/ k \in {"if", "loop"} /\ n = IF e THEN 3 ELSE 2
       \/ k = "switch" /\ n \in IF e THEN {3, 5} ELSE {2, 4}

LEMMA FormsFormed ==
  ASSUME NEW f \in Forms
  PROVE  /\ f \in Opened /\ Formed(f) /\ f.sub = <<>> /\ f.kind # "function"
         /\ Size(f) \in Nat \ {0}
<1>1. Blank(f)
  <2>1. CASE f \in {Form("break", 1, FALSE), Form("return", 1, FALSE), Form("block", 2, FALSE)}
    BY <2>1 DEF Form, Blank
  <2>2. CASE f \in {Form(k, 2, FALSE) : k \in {"if", "loop"}}
    BY <2>2 DEF Form, Blank
  <2>3. CASE f \in {Form(k, 3, TRUE) : k \in {"if", "loop"}}
    BY <2>3 DEF Form, Blank
  <2>4. CASE f \in {Form("switch", 2 * n + 1, TRUE) : n \in 1..2}
    <3>1. PICK i \in 1..2 : f = Form("switch", 2 * i + 1, TRUE)
      BY <2>4
    <3>2. PICK n : n = 2 * i + 1
      OBVIOUS
    <3>3. n \in {3, 5} /\ n \in Nat
      BY <3>2
    <3>4. f = [kind |-> "switch", arity |-> n, else |-> TRUE, exhaustive |-> FALSE, sub |-> <<>>]
      BY <3>1, <3>2 DEF Form
    <3> QED
      BY <3>3, <3>4 DEF Blank
  <2>5. CASE f \in {Form("switch", 2 * n, FALSE) : n \in 1..2}
    <3>1. PICK i \in 1..2 : f = Form("switch", 2 * i, FALSE)
      BY <2>5
    <3>2. PICK n : n = 2 * i
      OBVIOUS
    <3>3. n \in {2, 4} /\ n \in Nat
      BY <3>2
    <3>4. f = [kind |-> "switch", arity |-> n, else |-> FALSE, exhaustive |-> FALSE, sub |-> <<>>]
      BY <3>1, <3>2 DEF Form
    <3> QED
      BY <3>3, <3>4 DEF Blank
  <2>6. CASE f \in {[Form("switch", 2 * n, FALSE) EXCEPT !.exhaustive = TRUE] : n \in 1..2}
    <3>1. PICK i \in 1..2 : f = [Form("switch", 2 * i, FALSE) EXCEPT !.exhaustive = TRUE]
      BY <2>6
    <3>2. PICK n : n = 2 * i
      OBVIOUS
    <3>3. n \in {2, 4} /\ n \in Nat
      BY <3>2
    <3>4. f = [kind |-> "switch", arity |-> n, else |-> FALSE, exhaustive |-> TRUE, sub |-> <<>>]
      BY <3>1, <3>2 DEF Form
    <3> QED
      BY <3>3, <3>4 DEF Blank
  <2> QED
    BY <2>1, <2>2, <2>3, <2>4, <2>5, <2>6 DEF Forms
<1>2. PICK k, n, e, x : /\ f = [kind |-> k, arity |-> n, else |-> e, exhaustive |-> x, sub |-> <<>>]
                        /\ n \in Nat /\ e \in BOOLEAN /\ x \in BOOLEAN
                        /\ \/ k \in {"break", "return"} /\ n = 1
                           \/ k = "block" /\ n = 2
                           \/ k \in {"if", "loop"} /\ n = IF e THEN 3 ELSE 2
                           \/ k = "switch" /\ n \in IF e THEN {3, 5} ELSE {2, 4}
  BY <1>1 DEF Blank
<1> QED
  BY <1>2, FormTyped

LEMMA DescendStep == ASSUME TypeInv, Descend PROVE TypeInv'
<1>1. PICK f \in Forms : /\ Size(f) <= left /\ left' = left - Size(f)
                         /\ open' = Append(open, f)
  BY DEF Descend
<1>2. /\ f \in Opened /\ Formed(f) /\ f.sub = <<>> /\ f.kind # "function"
      /\ Size(f) \in Nat \ {0}
  BY FormsFormed
<1>3. UNCHANGED <<ret_type, phase, nodes, frames, result, m>>
  BY DEF Descend
<1>4. left' \in 0..MaxSize
  BY <1>1, <1>2, Bounds DEF TypeInv
<1>5. open \in Seq(Opened) /\ open # <<>>
  BY DEF TypeInv, Forming
<1>6. PICK r : r = Append(open, f)
  OBVIOUS
<1>7. PICK n : n = Len(open)
  OBVIOUS
<1>8. /\ r \in Seq(Opened) /\ Len(r) = n + 1 /\ r[n + 1] = f /\ r # <<>>
      /\ \A i \in 1..n : r[i] = open[i]
  BY <1>2, <1>5, <1>6, <1>7, Appended
<1>9. n \in Nat \ {0}
  BY <1>5, <1>7, EmptySeq
<1>10. Within(f.sub, nodes)
  BY <1>2 DEF Within
<1>11. \A i \in 1..Len(r) : /\ r[i].kind = "function" <=> i = 1
                            /\ Formed(r[i]) /\ Within(r[i].sub, nodes)
  <2> SUFFICES ASSUME NEW i \in 1..(n + 1)
               PROVE  /\ r[i].kind = "function" <=> i = 1
                      /\ Formed(r[i]) /\ Within(r[i].sub, nodes)
    BY <1>8
  <2>1. CASE i = n + 1
    BY <1>2, <1>8, <1>9, <1>10, <2>1
  <2>2. CASE i \in 1..n
    BY <1>7, <1>8, <2>2 DEF TypeInv, Forming
  <2> QED
    BY <1>9, <2>1, <2>2
<1>12. Forming'
  BY <1>1, <1>3, <1>6, <1>8, <1>11 DEF TypeInv, Forming
<1>13. frames = <<>> /\ m = Prepared
  BY DEF TypeInv, Descend
<1> QED
  BY <1>3, <1>4, <1>12, <1>13, NothingWalked DEF TypeInv

LEMMA MoreExpressions ==
  ASSUME TypeInv, NEW x \in Node, Operands(x.kind, Len(x.sub)), Within(x.sub, nodes),
         NEW ns, ns = Append(nodes, x)
  PROVE  /\ Expressions(ns) /\ Len(ns) = Len(nodes) + 1 /\ Len(nodes) \in Nat
         /\ \A i \in 1..Len(nodes) : ns[i] = nodes[i]
<1>1. PICK n : n = Len(nodes)
  OBVIOUS
<1>2. Expressions(nodes) /\ nodes \in Seq(Node) /\ n \in Nat /\ n >= 5
  BY <1>1, NodesTyped
<1>3. /\ ns \in Seq(Node) /\ Len(ns) = n + 1 /\ ns[n + 1] = x
      /\ \A i \in 1..n : ns[i] = nodes[i]
  BY <1>1, <1>2, Appended
<1>4. \A i \in 1..(n + 1) : i \in 1..n \/ i = n + 1
  BY <1>2
<1>5. n <= n + 1 /\ n + 1 >= 5 /\ n + 1 \in Nat
  BY <1>2
<1>6. ASSUME NEW i \in 1..(n + 1)
      PROVE  Operands(ns[i].kind, Len(ns[i].sub)) /\ Within(ns[i].sub, ns)
  <2>1. Operands(ns[i].kind, Len(ns[i].sub)) /\ Within(ns[i].sub, nodes)
    BY <1>1, <1>2, <1>3, <1>4 DEF Expressions
  <2> QED
    BY <1>1, <1>2, <1>3, <1>5, <2>1, WithinMore
<1> QED
  BY <1>1, <1>2, <1>3, <1>5, <1>6 DEF Expressions

(* An expression gets its operands' types and becomes an operand itself.   *)
LEMMA MakeStep ==
  ASSUME TypeInv, NEW kind \in Kinds, NEW x, x \in Node, Operands(x.kind, Len(x.sub)),
         Within(x.sub, nodes), Make(kind, x)
  PROVE  TypeInv'
<1>1. PICK n : n = Len(open)
  OBVIOUS
<1>2. PICK fs : fs = Front(open)
  OBVIOUS
<1>3. /\ phase = "gir" /\ Inner.kind = kind /\ Takes(open[n - 1], x.ty)
      /\ nodes' = Append(nodes, x) /\ open' = AddOperand(fs, Len(nodes) + 1)
      /\ UNCHANGED <<left, ret_type, phase, frames, result, m>>
  BY <1>1, <1>2 DEF Make
<1>4. n \in Nat /\ n > 1 /\ open \in Seq(Opened) /\ open # <<>>
  <2>1. kind # "function"
    BY DEF Kinds
  <2> QED
    BY <1>1, <1>3, <2>1, InnerIs DEF TypeInv, Forming
<1>5. fs \in Seq(Opened) /\ Len(fs) = n - 1 /\ \A i \in 1..(n - 1) : fs[i] = open[i]
  BY <1>1, <1>2, <1>4, FrontIs
<1>6. fs # <<>> /\ Last(fs) = open[n - 1]
  <2>1. Len(<<>>) = 0 /\ n - 1 # 0 /\ n - 1 \in 1..(n - 1)
    BY <1>4
  <2> QED
    BY <1>5, <2>1 DEF Last
<1>7. /\ Expressions(nodes') /\ Len(nodes') = Len(nodes) + 1 /\ Len(nodes) \in Nat
  BY <1>3, MoreExpressions
<1>8. PICK e : e = Len(nodes) + 1
  OBVIOUS
<1>9. e \in Nat \ {0} /\ e \in 1..Len(nodes')
  BY <1>7, <1>8
<1>10. \A i \in 1..Len(fs) : /\ fs[i].kind = "function" <=> i = 1
                             /\ Formed(fs[i]) /\ Within(fs[i].sub, nodes')
  <2> SUFFICES ASSUME NEW i \in 1..(n - 1)
               PROVE  /\ fs[i].kind = "function" <=> i = 1
                      /\ Formed(fs[i]) /\ Within(fs[i].sub, nodes')
    BY <1>5
  <2>1. i \in 1..n
    BY <1>4
  <2>2. /\ fs[i].kind = "function" <=> i = 1
        /\ Formed(fs[i]) /\ Within(fs[i].sub, nodes)
    BY <1>1, <1>5, <2>1 DEF TypeInv, Forming
  <2>3. Len(nodes) <= Len(nodes') /\ Len(nodes') \in Nat
    BY <1>7
  <2> QED
    BY <1>7, <2>2, <2>3, WithinMore
<1>11. Len(Last(fs).sub) < Last(fs).arity
  BY <1>3, <1>6 DEF Takes
<1>12. PICK r : r = AddOperand(fs, e)
  OBVIOUS
<1>13. /\ r \in Seq(Opened) /\ r # <<>>
       /\ \A i \in 1..Len(r) : /\ r[i].kind = "function" <=> i = 1
                               /\ Formed(r[i]) /\ Within(r[i].sub, nodes')
  <2>1. PICK ns : ns = nodes'
    OBVIOUS
  <2>2. /\ e \in 1..Len(ns) /\ e \in Nat \ {0} /\ fs \in Seq(Opened)
        /\ \A i \in 1..Len(fs) : /\ fs[i].kind = "function" <=> i = 1
                                 /\ Formed(fs[i]) /\ Within(fs[i].sub, ns)
    BY ONLY <1>5, <1>9, <1>10, <2>1
  <2>3. /\ r \in Seq(Opened) /\ r # <<>>
        /\ \A i \in 1..Len(r) : /\ r[i].kind = "function" <=> i = 1
                                /\ Formed(r[i]) /\ Within(r[i].sub, ns)
    BY ONLY <1>6, <1>11, <1>12, <2>2, OperandAdded
  <2> QED
    BY ONLY <2>1, <2>3
<1>14. Forming'
  <2>1. open' = r
    BY ONLY <1>3, <1>8, <1>12
  <2> QED
    BY ONLY <1>7, <1>13, <2>1 DEF Forming
<1>15. frames' = <<>> /\ m' = Prepared
  BY <1>3 DEF TypeInv
<1> QED
  BY <1>3, <1>14, <1>15, NothingWalked DEF TypeInv

(* The operands of an expression that is complete.                         *)
LEMMA SubIs ==
  ASSUME TypeInv, NEW kind \in Kinds, NEW x, Make(kind, x), kind \in {"break", "return", "block"}
  PROVE  /\ Inner.sub \in Seq(Nat \ {0}) /\ Operands(kind, Len(Inner.sub))
         /\ Within(Inner.sub, nodes) /\ Len(Inner.sub) \in 1..2
<1>1. Inner.kind = kind /\ Len(Inner.sub) = Inner.arity
  BY DEF Make
<1>2. Inner.sub \in Seq(Nat \ {0}) /\ Within(Inner.sub, nodes) /\ Formed(Inner)
  BY InnerIs
<1>3. Operands(kind, Len(Inner.sub)) /\ Len(Inner.sub) \in 1..2
  BY <1>1, <1>2 DEF Formed, Operands
<1> QED
  BY <1>2, <1>3

LEMMA WithElseIs ==
  ASSUME TypeInv, NEW kind \in {"if", "loop", "switch"}, Inner.kind = kind,
         Len(Inner.sub) = Inner.arity, NEW sub, sub = WithElse(Inner)
  PROVE  /\ sub \in Seq(Nat \ {0}) /\ Operands(kind, Len(sub)) /\ Within(sub, nodes)
         /\ Len(sub) \in {3, 5} /\ (kind # "switch" => Len(sub) = 3)
<1>1. /\ Inner.sub \in Seq(Nat \ {0}) /\ Within(Inner.sub, nodes) /\ Formed(Inner)
      /\ Len(Inner.sub) \in Nat
  BY InnerIs
<1>2. CASE Inner.else
  <2>1. sub = Inner.sub
    BY <1>2 DEF WithElse
  <2>2. Len(sub) \in {3, 5} /\ (kind # "switch" => Len(sub) = 3)
    BY <1>1, <1>2, <2>1 DEF Formed
  <2> QED
    BY <1>1, <2>1, <2>2 DEF Operands
<1>3. CASE ~Inner.else
  <2>1. PICK s : s = Inner.sub
    OBVIOUS
  <2>2. PICK n : n = Len(s)
    OBVIOUS
  <2>3. n \in {2, 4} /\ (kind # "switch" => n = 2)
    BY <1>1, <1>3, <2>1, <2>2 DEF Formed
  <2>4. 2 \in Nat \ {0} /\ 2 \in 1..Len(nodes)
    <3>1. Len(nodes) \in Nat /\ Len(nodes) >= 5
      BY NodesTyped
    <3> QED
      BY <3>1
  <2>5. sub = Append(s, 2)
    BY <1>3, <2>1 DEF WithElse, NoneExpr
  <2>6. /\ sub \in Seq(Nat \ {0}) /\ Len(sub) = n + 1 /\ sub[n + 1] = 2
        /\ \A i \in 1..n : sub[i] = s[i]
    BY <1>1, <2>1, <2>2, <2>4, <2>5, Appended
  <2>7. Len(sub) \in {3, 5} /\ (kind # "switch" => Len(sub) = 3)
    BY <2>3, <2>6
  <2>8. Within(sub, nodes)
    <3>1. \A i \in 1..Len(sub) : i \in 1..n \/ i = n + 1
      BY <2>3, <2>6
    <3> QED
      BY <1>1, <2>1, <2>2, <2>4, <2>6, <3>1 DEF Within
  <2>9. Operands(kind, Len(sub))
    BY <2>7 DEF Operands
  <2> QED
    BY <2>6, <2>7, <2>8, <2>9
<1> QED
  BY <1>2, <1>3

LEMMA OperandsPlaced ==
  ASSUME TypeInv, NEW sub, Within(sub, nodes), NEW i, i \in 1..Len(sub)
  PROVE  sub[i] \in 1..Len(nodes) /\ Ty(sub[i]) \in Types
<1>1. sub[i] \in 1..Len(nodes)
  BY DEF Within
<1> QED
  BY <1>1, OperandTyped, NodesTyped

LEMMA MakeBreakStep == ASSUME TypeInv, MakeBreak PROVE TypeInv'
<1>0. Expressions(nodes)
  BY NodesTyped
<1>1. PICK x : x = MakeNode("break", Inner.sub, "any", FALSE, {})
  OBVIOUS
<1>2. Make("break", x)
  BY <1>1 DEF MakeBreak
<1>3. /\ "break" \in Kinds \ {"call", "none"} /\ "any" \in Types /\ FALSE \in BOOLEAN
      /\ {} \in SUBSET Oddities /\ "break" \in Kinds
  BY DEF Kinds, Types
<1>4. /\ Inner.sub \in Seq(Nat \ {0}) /\ Operands("break", Len(Inner.sub))
      /\ Within(Inner.sub, nodes)
  BY <1>2, <1>3, SubIs
<1>5. x \in Node /\ x.kind = "break" /\ x.sub = Inner.sub
  <2>1. PICK k : k = "break"
    OBVIOUS
  <2>2. PICK phi : phi = FALSE
    OBVIOUS
  <2>3. PICK odds : odds = {}
    OBVIOUS
  <2>4. k \in Kinds \ {"call", "none"} /\ Operands(k, Len(Inner.sub)) /\ phi \in BOOLEAN
    BY <1>3, <1>4, <2>1, <2>2
  <2>5. x = MakeNode(k, Inner.sub, "any", phi, odds)
    BY <1>1, <2>1, <2>2, <2>3
  <2>6. odds \in SUBSET Oddities /\ "any" \in Types
    BY <1>3, <2>3
  <2>7. Inner.sub \in Seq(Nat \ {0}) /\ Within(Inner.sub, nodes)
    BY <1>3, <1>4
  <2>8. x \in Node /\ x.kind = k /\ x.sub = Inner.sub
    BY ONLY <1>0, <2>4, <2>5, <2>6, <2>7, MakeNodeTyped
  <2> QED
    BY <2>1, <2>8
<1> QED
  BY <1>2, <1>3, <1>4, <1>5, MakeStep

LEMMA ReturnedTyped ==
  ASSUME TypeInv, NEW sub \in Seq(Nat \ {0}), Len(sub) = 1, Within(sub, nodes),
         NEW x, x = Returned(sub)
  PROVE  x \in Node /\ x.kind = "return" /\ x.sub = sub
<1>0. Expressions(nodes) /\ sub \in Seq(Nat \ {0}) /\ Within(sub, nodes)
  BY NodesTyped
<1>1. PICK odd : odd = Flag("any_value", Misfit(sub[1], ret_type))
  OBVIOUS
<1>2. /\ "return" \in Kinds \ {"call", "none"} /\ "any" \in Types /\ FALSE \in BOOLEAN
      /\ "any_value" \in Oddities
  BY DEF Kinds, Types, Oddities
<1>3. odd \in SUBSET Oddities
  BY <1>1, <1>2, FlagTyped
<1>4. Operands("return", Len(sub))
  BY DEF Operands
<1>5. x = MakeNode("return", sub, "any", FALSE, odd)
  BY <1>1 DEF Returned
<1>6. x \in Node /\ x.kind = "return" /\ x.sub = sub
  <2>1. PICK k : k = "return"
    OBVIOUS
  <2>2. PICK phi : phi = FALSE
    OBVIOUS
  <2>3. PICK odds : odds = odd
    OBVIOUS
  <2>4. k \in Kinds \ {"call", "none"} /\ Operands(k, Len(sub)) /\ phi \in BOOLEAN
    BY <1>0, <1>2, <1>4, <2>1, <2>2
  <2>5. x = MakeNode(k, sub, "any", phi, odds)
    BY <1>5, <2>1, <2>2, <2>3
  <2>6. odds \in SUBSET Oddities /\ "any" \in Types
    BY <1>2, <1>3, <2>3
  <2>7. sub \in Seq(Nat \ {0}) /\ Within(sub, nodes)
    BY <1>0, <1>2, <1>4
  <2>8. x \in Node /\ x.kind = k /\ x.sub = sub
    BY ONLY <1>0, <2>4, <2>5, <2>6, <2>7, MakeNodeTyped
  <2> QED
    BY <2>1, <2>8
<1> QED
  BY <1>6

LEMMA MakeReturnStep == ASSUME TypeInv, MakeReturn PROVE TypeInv'
<1>1. PICK x : x = Returned(Inner.sub)
  OBVIOUS
<1>2. Make("return", x) /\ "return" \in Kinds
  BY <1>1 DEF MakeReturn, Kinds
<1>3. /\ Inner.sub \in Seq(Nat \ {0}) /\ Operands("return", Len(Inner.sub))
      /\ Within(Inner.sub, nodes)
  BY <1>2, SubIs
<1>4. x \in Node /\ x.kind = "return" /\ x.sub = Inner.sub
  BY <1>1, <1>3, ReturnedTyped DEF Operands
<1> QED
  BY <1>2, <1>3, <1>4, MakeStep

LEMMA MakeBlockStep == ASSUME TypeInv, MakeBlock PROVE TypeInv'
<1>0. Expressions(nodes)
  BY NodesTyped
<1>1. PICK sub : sub = Inner.sub
  OBVIOUS
<1>2. PICK odd : odd = Flag("dead_code", nodes[sub[1]].leaves)
  OBVIOUS
<1>3. PICK ty : ty = Ty(Last(sub))
  OBVIOUS
<1>4. PICK x : x = MakeNode("block", sub, ty, FALSE, odd)
  OBVIOUS
<1>5. Make("block", x)
  BY <1>1, <1>2, <1>3, <1>4 DEF MakeBlock
<1>6. /\ "block" \in Kinds \ {"call", "none"} /\ FALSE \in BOOLEAN
      /\ "dead_code" \in Oddities /\ "block" \in Kinds
  BY DEF Kinds, Types, Oddities
<1>7. odd \in SUBSET Oddities
  BY <1>2, <1>6, FlagTyped
<1>8. /\ sub \in Seq(Nat \ {0}) /\ Operands("block", Len(sub)) /\ Within(sub, nodes)
  BY <1>1, <1>5, <1>6, SubIs
<1>9. ty \in Types
  <2>1. Len(sub) = 2 /\ 2 \in 1..Len(sub)
    <3>1. Len(sub) = 2
      BY <1>8 DEF Operands
    <3> QED
      BY <3>1
  <2>2. Ty(sub[2]) \in Types
    BY <1>8, <2>1, OperandsPlaced
  <2> QED
    BY <1>3, <2>1, <2>2 DEF Last
<1>10. x \in Node /\ x.kind = "block" /\ x.sub = sub
  <2>1. PICK k : k = "block"
    OBVIOUS
  <2>2. PICK phi : phi = FALSE
    OBVIOUS
  <2>3. PICK odds : odds = odd
    OBVIOUS
  <2>4. k \in Kinds \ {"call", "none"} /\ Operands(k, Len(sub)) /\ phi \in BOOLEAN
    BY <1>6, <1>8, <2>1, <2>2
  <2>5. x = MakeNode(k, sub, ty, phi, odds)
    BY <1>4, <2>1, <2>2, <2>3
  <2>6. odds \in SUBSET Oddities /\ ty \in Types
    BY <1>7, <1>9, <2>3
  <2>7. sub \in Seq(Nat \ {0}) /\ Within(sub, nodes)
    BY <1>6, <1>8
  <2>8. x \in Node /\ x.kind = k /\ x.sub = sub
    BY ONLY <1>0, <2>4, <2>5, <2>6, <2>7, MakeNodeTyped
  <2> QED
    BY <2>1, <2>8
<1> QED
  BY <1>5, <1>6, <1>8, <1>10, MakeStep

LEMMA MakeIfStep == ASSUME TypeInv, MakeIf PROVE TypeInv'
<1>0. Expressions(nodes)
  BY NodesTyped
<1>1. PICK sub : sub = WithElse(Inner)
  OBVIOUS
<1>2. PICK odd : odd = Flag("leaving_then", Ty(sub[2]) = "any")
                       \cup Flag("any_value", Ty(sub[2]) = "value" /\ Misfit(sub[3], "value"))
  OBVIOUS
<1>3. PICK ty : ty = Unified(Ty(sub[2]), Ty(sub[3]))
  OBVIOUS
<1>4. PICK phi : phi = Unifies(Ty(sub[2]), Ty(sub[3]))
  OBVIOUS
<1>5. PICK x : x = MakeNode("if", sub, ty, phi, odd)
  OBVIOUS
<1>6. Make("if", x) /\ Inner.kind = "if" /\ Len(Inner.sub) = Inner.arity
  BY <1>1, <1>2, <1>3, <1>4, <1>5 DEF MakeIf, Make
<1>7. /\ "if" \in Kinds \ {"call", "none"} /\ "if" \in Kinds
      /\ "leaving_then" \in Oddities /\ "any_value" \in Oddities
  BY DEF Kinds, Oddities
<1>8. odd \in SUBSET Oddities
  <2>1. /\ Flag("leaving_then", Ty(sub[2]) = "any") \in SUBSET Oddities
        /\ Flag("any_value", Ty(sub[2]) = "value" /\ Misfit(sub[3], "value"))
             \in SUBSET Oddities
    BY <1>7 DEF Flag
  <2> QED
    BY <1>2, <2>1
<1>9. /\ sub \in Seq(Nat \ {0}) /\ Operands("if", Len(sub)) /\ Within(sub, nodes)
      /\ Len(sub) = 3
  BY <1>1, <1>6, WithElseIs
<1>10. ty \in Types /\ phi \in BOOLEAN
  <2>1. 2 \in 1..Len(sub) /\ 3 \in 1..Len(sub)
    BY <1>9
  <2>2. Ty(sub[2]) \in Types /\ Ty(sub[3]) \in Types
    BY <1>9, <2>1, OperandsPlaced
  <2> QED
    BY <1>3, <1>4, <2>2, UnifiedTyped
<1>11. x \in Node /\ x.kind = "if" /\ x.sub = sub
  <2>1. PICK k : k = "if"
    OBVIOUS
  <2>2. k \in Kinds \ {"call", "none"} /\ Operands(k, Len(sub)) /\ x = MakeNode(k, sub, ty, phi, odd)
    BY <1>5, <1>7, <1>9, <2>1
  <2>3. sub \in Seq(Nat \ {0}) /\ Within(sub, nodes)
    BY <1>9
  <2>4. x \in Node /\ x.kind = k /\ x.sub = sub
    BY ONLY <1>0, <1>8, <1>10, <2>2, <2>3, MakeNodeTyped
  <2> QED
    BY <2>1, <2>4
<1> QED
  BY <1>6, <1>7, <1>9, <1>11, MakeStep

LEMMA LoopOdditiesTyped ==
  ASSUME NEW sub
  PROVE  LoopOddities(sub) \in SUBSET Oddities
<1>1. /\ "any_loop" \in Oddities /\ "mixed_breaks" \in Oddities
      /\ "any_value" \in Oddities /\ "branching_condition" \in Oddities
  BY DEF Oddities
<1> QED
  BY <1>1 DEF LoopOddities, Flag

LEMMA MakeLoopStep == ASSUME TypeInv, MakeLoop PROVE TypeInv'
<1>0. Expressions(nodes)
  BY NodesTyped
<1>1. PICK sub : sub = WithElse(Inner)
  OBVIOUS
<1>2. PICK odd : odd = LoopOddities(sub)
  OBVIOUS
<1>3. PICK ty : ty = Unified(Ty(sub[2]), Ty(sub[3]))
  OBVIOUS
<1>4. PICK phi : phi = Unifies(Ty(sub[2]), Ty(sub[3]))
  OBVIOUS
<1>5. PICK x : x = MakeNode("loop", sub, ty, phi, odd)
  OBVIOUS
<1>6. Make("loop", x) /\ Inner.kind = "loop" /\ Len(Inner.sub) = Inner.arity
  BY <1>1, <1>2, <1>3, <1>4, <1>5 DEF MakeLoop, Make
<1>7. "loop" \in Kinds \ {"call", "none"} /\ "loop" \in Kinds
  BY DEF Kinds
<1>8. odd \in SUBSET Oddities
  BY <1>2, LoopOdditiesTyped
<1>9. /\ sub \in Seq(Nat \ {0}) /\ Operands("loop", Len(sub)) /\ Within(sub, nodes)
      /\ Len(sub) = 3
  BY <1>1, <1>6, WithElseIs
<1>10. ty \in Types /\ phi \in BOOLEAN
  <2>1. 2 \in 1..Len(sub) /\ 3 \in 1..Len(sub)
    BY <1>9
  <2>2. Ty(sub[2]) \in Types /\ Ty(sub[3]) \in Types
    BY <1>9, <2>1, OperandsPlaced
  <2> QED
    BY <1>3, <1>4, <2>2, UnifiedTyped
<1>11. x \in Node /\ x.kind = "loop" /\ x.sub = sub
  <2>1. PICK k : k = "loop"
    OBVIOUS
  <2>2. k \in Kinds \ {"call", "none"} /\ Operands(k, Len(sub)) /\ x = MakeNode(k, sub, ty, phi, odd)
    BY <1>5, <1>7, <1>9, <2>1
  <2>3. sub \in Seq(Nat \ {0}) /\ Within(sub, nodes)
    BY <1>9
  <2>4. x \in Node /\ x.kind = k /\ x.sub = sub
    BY ONLY <1>0, <1>8, <1>10, <2>2, <2>3, MakeNodeTyped
  <2> QED
    BY <2>1, <2>4
<1> QED
  BY <1>6, <1>7, <1>9, <1>11, MakeStep

(* The branches of a when, and their types.                                *)
LEMMA BranchesAre ==
  ASSUME TypeInv, NEW sub, Within(sub, nodes), Len(sub) \in {3, 5},
         NEW tys, tys = BranchTypes(sub)
  PROVE  tys \in Seq(Types) /\ tys # <<>> /\ Len(tys) \in 1..2
<1>1. PICK n : n = Len(sub) \div 2
  OBVIOUS
<1>2. n \in 1..2 /\ \A i \in 1..n : 2 * i \in 1..Len(sub)
  <2>1. 3 \div 2 = 1 /\ 5 \div 2 = 2
    OBVIOUS
  <2>2. CASE Len(sub) = 3
    <3>1. n = 1
      BY <1>1, <2>1, <2>2
    <3> QED
      BY <2>2, <3>1
  <2>3. CASE Len(sub) = 5
    <3>1. n = 2
      BY <1>1, <2>1, <2>3
    <3> QED
      BY <2>3, <3>1
  <2> QED
    BY <2>2, <2>3
<1>3. PICK br : br = Branches(sub)
  OBVIOUS
<1>4. br = [i \in 1..n |-> sub[2 * i]]
  BY <1>1, <1>3 DEF Branches
<1>5. tys = [i \in 1..n |-> Ty(br[i])]
  BY <1>3, <1>4 DEF BranchTypes
<1>6. \A i \in 1..n : Ty(br[i]) \in Types
  <2> SUFFICES ASSUME NEW i \in 1..n
               PROVE  Ty(br[i]) \in Types
    OBVIOUS
  <2>1. 2 * i \in 1..Len(sub)
    BY <1>2
  <2>2. PICK k : k = 2 * i
    OBVIOUS
  <2>3. Ty(sub[k]) \in Types
    BY <2>1, <2>2, OperandsPlaced
  <2>4. br[i] = sub[k]
    BY <1>4, <2>2
  <2> QED
    BY <2>3, <2>4
<1>7. tys \in [1..n -> Types]
  BY <1>5, <1>6
<1>8. tys \in Seq(Types) /\ Len(tys) = n
  BY <1>2, <1>7, SeqDef, LenProperties
<1>9. tys # <<>>
  <2>1. Len(<<>>) = 0
    OBVIOUS
  <2> QED
    BY <1>2, <1>8, <2>1
<1> QED
  BY <1>2, <1>8, <1>9

LEMMA SwitchTypeTyped ==
  ASSUME NEW tys \in Seq(Types), tys # <<>>
  PROVE  SwitchType(tys) \in Types /\ TypeOrNone(SwitchType(tys)) \in Types
<1>1. Last(tys) \in Types
  BY FrontIs
<1> QED
  BY <1>1 DEF SwitchType, TypeOrNone, Types

LEMMA MakeSwitchStep == ASSUME TypeInv, MakeSwitch PROVE TypeInv'
<1>0. Expressions(nodes)
  BY NodesTyped
<1>1. PICK sub : sub = WithElse(Inner)
  OBVIOUS
<1>2. PICK tys : tys = IF Inner.else THEN Append(BranchTypes(sub), Ty(Last(sub)))
                       ELSE BranchTypes(sub)
  OBVIOUS
<1>3. PICK ty : ty = IF Inner.else \/ Inner.exhaustive THEN TypeOrNone(SwitchType(tys))
                     ELSE "none"
  OBVIOUS
<1>4. PICK phi : phi = (ty = "value")
  OBVIOUS
<1>5. PICK misfits : misfits = {i \in Elems(Branches(sub)) : Misfit(i, ty)}
  OBVIOUS
<1>6. PICK odd : odd = Flag("omitted_else", Inner.exhaustive /\ ty = "value")
                       \cup Flag("any_value", ty = "value" /\ misfits # {})
  OBVIOUS
<1>7. PICK x : x = MakeNode("switch", sub, ty, phi, odd)
  OBVIOUS
<1>8. Make("switch", x) /\ Inner.kind = "switch" /\ Len(Inner.sub) = Inner.arity
  BY <1>1, <1>2, <1>3, <1>4, <1>5, <1>6, <1>7 DEF MakeSwitch, Make
<1>9. /\ "switch" \in Kinds \ {"call", "none"} /\ "switch" \in Kinds
      /\ "omitted_else" \in Oddities /\ "any_value" \in Oddities
  BY DEF Kinds, Oddities
<1>10. odd \in SUBSET Oddities
  BY <1>6, <1>9 DEF Flag
<1>11. /\ sub \in Seq(Nat \ {0}) /\ Operands("switch", Len(sub)) /\ Within(sub, nodes)
       /\ Len(sub) \in {3, 5}
  BY <1>1, <1>8, WithElseIs
<1>12. ty \in Types /\ phi \in BOOLEAN
  <2>1. PICK bt : bt = BranchTypes(sub)
    OBVIOUS
  <2>2. bt \in Seq(Types) /\ bt # <<>>
    BY <1>11, <2>1, BranchesAre
  <2>3. Ty(Last(sub)) \in Types
    <3>1. Len(sub) \in 1..Len(sub)
      <4>1. 3 \in 1..3 /\ 5 \in 1..5
        OBVIOUS
      <4> QED
        BY ONLY <1>11, <4>1
    <3> QED
      BY <1>11, <3>1, OperandsPlaced DEF Last
  <2>4. tys \in Seq(Types) /\ tys # <<>>
    <3>1. PICK at : at = Append(bt, Ty(Last(sub)))
      OBVIOUS
    <3>2. at \in Seq(Types) /\ at # <<>>
      BY <2>2, <2>3, <3>1, Appended
    <3> QED
      BY <1>2, <2>1, <2>2, <3>1, <3>2
  <2>5. TypeOrNone(SwitchType(tys)) \in Types /\ "none" \in Types
    BY <2>4, SwitchTypeTyped DEF Types
  <2> QED
    BY <1>3, <1>4, <2>5
<1>13. x \in Node /\ x.kind = "switch" /\ x.sub = sub
  BY ONLY <1>0, <1>7, <1>9, <1>10, <1>11, <1>12, MakeNodeTyped
<1> QED
  BY <1>8, <1>9, <1>11, <1>13, MakeStep

-----------------------------------------------------------------------------
(* A call of expression_ begins.                                           *)

LEMMA NewPlaced ==
  ASSUME NEW kind \in Kinds, NEW k, Operands(kind, k), NEW n, NEW f,
         f.pc = "visit", f.case = 1
  PROVE  Placed(f, kind, k, n) /\ ToCome(kind, f.pc) = {}
<1>1. f.pc \in PlacesOf(kind)
  BY DEF PlacesOf, Kinds
<1>2. ~HasBlocks(kind, f.pc)
  BY DEF HasBlocks
<1>3. kind = "switch" => 2 * f.case + 1 <= k
  BY DEF Operands
<1>4. 1 \in 1..2 /\ 1 \in 1..3 /\ f.pc # "again"
  OBVIOUS
<1>5. Placed(f, kind, k, n)
  BY <1>1, <1>2, <1>3, <1>4 DEF Placed
<1>6. ToCome(kind, f.pc) = {}
  BY DEF ToCome
<1> QED
  BY <1>5, <1>6

LEMMA NewFrameIs ==
  ASSUME NEW n \in Nat, NEW g, g.locals - g.unclosed \in Nat, NEW q, q = NewFrame(n, g)
  PROVE  /\ q \in Frame /\ q.node = n /\ q.pc = "visit" /\ q.case = 1
         /\ q.base = g.locals - g.unclosed
<1>1. /\ <<>> \in Seq(Nat) /\ <<>> \in Seq(Incoming) /\ NoLoop \in LoopData
  BY DEF NoLoop, LoopData
<1>2. "visit" \in Places /\ 1 \in Nat
  BY DEF Places
<1> QED
  BY <1>1, <1>2 DEF NewFrame, Frame

LEMMA StartFunctionStep == ASSUME TypeInv, StartFunction PROVE TypeInv'
<1>1. PICK body : body = Inner.sub[1]
  OBVIOUS
<1>2. /\ phase = "gir" /\ Inner.kind = "function" /\ Len(Inner.sub) = 1
      /\ frames = <<>> /\ m = Prepared
  BY DEF StartFunction, TypeInv
<1>3. body \in 1..Len(nodes) /\ body \in Nat \ {0}
  <2>1. Within(Inner.sub, nodes) /\ 1 \in 1..Len(Inner.sub)
    BY <1>2, InnerIs
  <2>2. body \in 1..Len(nodes) /\ Len(nodes) \in Nat
    BY <1>1, <2>1, NodesTyped DEF Within
  <2> QED
    BY <2>2
<1>4. UNCHANGED <<left, ret_type, open, result>> /\ phase' = "ir" /\ m' = Prepared
  BY <1>2 DEF StartFunction
<1>5. PICK n \in Nat : /\ Expressions(nodes') /\ frames' = <<NewFrame(n, m)>>
                       /\ n \in 1..Len(nodes') /\ Len(nodes') \in Nat /\ Len(nodes) \in Nat
                       /\ Len(nodes) <= Len(nodes')
  <2>1. CASE ret_type = "none"
    <3>1. nodes' = nodes /\ frames' = <<NewFrame(body, m)>>
      BY <1>1, <2>1 DEF StartFunction
    <3> QED
      BY <1>3, <3>1, NodesTyped
  <2>2. CASE ret_type # "none"
    <3>1. PICK s : s = <<body>>
      OBVIOUS
    <3>2. PICK x : x = Returned(s)
      OBVIOUS
    <3>3. PICK k : k = Len(nodes)
      OBVIOUS
    <3>4. nodes' = Append(nodes, x) /\ frames' = <<NewFrame(k + 1, m)>>
      BY <1>1, <2>2, <3>1, <3>2, <3>3 DEF StartFunction
    <3>5. s \in Seq(Nat \ {0}) /\ Len(s) = 1 /\ Within(s, nodes)
      <4>1. s \in Seq(Nat \ {0}) /\ Len(s) = 1 /\ s[1] = body
        BY <1>3, <3>1
      <4>2. \A j \in 1..1 : j = 1
        OBVIOUS
      <4> QED
        BY <1>3, <4>1, <4>2 DEF Within
    <3>6. x \in Node /\ x.kind = "return" /\ x.sub = s
      BY <3>2, <3>5, ReturnedTyped
    <3>7. Operands(x.kind, Len(x.sub)) /\ Within(x.sub, nodes)
      BY <3>5, <3>6 DEF Operands
    <3>8. PICK ns : ns = Append(nodes, x)
      OBVIOUS
    <3>9. Expressions(ns) /\ Len(ns) = k + 1 /\ k \in Nat
      BY <3>3, <3>6, <3>7, <3>8, MoreExpressions
    <3>10. k + 1 \in Nat /\ k + 1 \in 1..Len(ns) /\ k <= Len(ns)
      BY <3>9
    <3> QED
      BY <3>3, <3>4, <3>8, <3>9, <3>10
  <2> QED
    BY <2>1, <2>2
<1>6. Forming'
  <2>1. open \in Seq(Opened) /\ open # <<>>
    BY DEF TypeInv, Forming
  <2>2. ASSUME NEW i \in 1..Len(open)
        PROVE  /\ open[i].kind = "function" <=> i = 1
               /\ Formed(open[i]) /\ Within(open[i].sub, nodes')
    <3>1. /\ open[i].kind = "function" <=> i = 1
          /\ Formed(open[i]) /\ Within(open[i].sub, nodes)
      BY DEF TypeInv, Forming
    <3> QED
      BY <1>5, <3>1, WithinMore
  <2> QED
    BY <1>4, <1>5, <2>1, <2>2 DEF Forming
<1>7. Walk(frames, m)'
  <2>1. PICK q : q = NewFrame(n, m)
    OBVIOUS
  <2>2. /\ Prepared.locals = 1 /\ Prepared.unclosed = 0 /\ 1 - 0 = 1 /\ 1 \in Nat
        /\ 1 = 0 + 1 + 0
    BY DEF Prepared
  <2>3. q \in Frame /\ q.node = n /\ q.pc = "visit" /\ q.case = 1 /\ q.base = 1
    BY <1>2, <2>1, <2>2, NewFrameIs
  <2>4. PICK kind : kind = nodes'[n].kind
    OBVIOUS
  <2>5. PICK k : k = Len(nodes'[n].sub)
    OBVIOUS
  <2>6. kind \in Kinds /\ Operands(kind, k)
    <3>1. nodes'[n] \in Node /\ Operands(kind, k)
      BY <1>5, <2>4, <2>5, ElementOfSeq DEF Expressions
    <3> QED
      BY <2>4, <3>1 DEF Node
  <2>7. Placed(q, kind, k, Len(m'.term)) /\ ToCome(kind, q.pc) = {}
    BY <2>3, <2>6, NewPlaced
  <2>8. Calling(q, Len(m.term))' /\ Waiting(q)' = {} /\ IsLoop(q)' = FALSE /\ Depth(q)' = 0
    <3>1. KindOf(q)' = kind
      BY <2>3, <2>4 DEF KindOf
    <3> QED
      BY <1>5, <2>3, <2>4, <2>5, <2>7, <3>1 DEF Calling, Waiting, IsLoop, Depth
  <2>9. frames' \in Seq(Frame) /\ Len(frames') = 1 /\ frames'[1] = q /\ frames' # <<>>
    BY <1>5, <2>1, <2>3
  <2>10. \A i \in 1..1 : i = 1
    OBVIOUS
  <2>11. LoopsNest(frames, m)'
    <3>1. Around(frames, Len(frames))' = {}
      BY <2>8, <2>9, <2>10 DEF Around
    <3>2. EndOf(frames, Len(frames))' = 0
      BY <3>1 DEF EndOf
    <3> QED
      BY <1>4, <2>8, <2>9, <2>10, <3>2, PreparedTyped DEF LoopsNest
  <2>12. BlocksKept(frames, m)'
    BY <2>8, <2>9, <2>10 DEF BlocksKept, Untouched, Distinct, Disjoint
  <2>13. ScopesNest(frames, m)'
    <3>1. \A i \in 1..(1 - 1) : FALSE
      OBVIOUS
    <3>2. Last(frames') = q
      BY <2>9 DEF Last
    <3> QED
      BY <1>4, <2>2, <2>3, <2>8, <2>9, <3>1, <3>2 DEF ScopesNest
  <2> QED
    BY <1>4, <2>8, <2>9, <2>10, <2>11, <2>12, <2>13, PreparedTyped DEF Walk, Emitting
<1> QED
  BY <1>4, <1>6, <1>7 DEF TypeInv

-----------------------------------------------------------------------------
(* What the builder's operators do to the generator.                       *)

Alike(g, r) == r.locals = g.locals /\ r.unclosed = g.unclosed /\ r.loop = g.loop

(* Of the blocks that there are, at most the one inserted into changes.    *)
Extends(g, r) ==
  /\ Len(g.term) <= Len(r.term)
  /\ \A b \in 1..Len(g.term) : b # g.insert => r.term[b] = g.term[b]

(* The block inserted into has ended.                                      *)
Closes(g, r) ==
  /\ r \in Generator /\ r.insert = 0 /\ Len(r.term) = Len(g.term)
  /\ Extends(g, r) /\ Alike(g, r)

LEMMA GeneratorIs ==
  ASSUME NEW g \in Generator
  PROVE  /\ g.insert \in Nat /\ g.locals \in Nat /\ g.unclosed \in Nat /\ g.last \in Nat
         /\ g.term \in Seq(Terminator) /\ Len(g.term) \in Nat /\ DOMAIN g.term = 1..Len(g.term)
         /\ g.loop \in LoopData
<1>1. g.term \in Seq(Terminator) /\ g.insert \in Nat /\ g.locals \in Nat /\ g.unclosed \in Nat
      /\ g.last \in Nat /\ g.loop \in LoopData
  BY DEF Generator
<1> QED
  BY <1>1, LenProperties

LEMMA TerminateIs ==
  ASSUME NEW g, Emitting(g), NEW t \in Terminator, NEW r, r = Terminate(g, t)
  PROVE  Closes(g, r)
<1>1. g \in Generator /\ g.insert \in 0..Len(g.term) /\ Len(g.term) \in Nat
      /\ g.term \in Seq(Terminator)
  BY GeneratorIs DEF Emitting
<1>2. CASE g.insert = 0
  BY <1>1, <1>2 DEF Terminate, Closes, Extends, Alike
<1>3. CASE g.insert # 0
  <2>1. PICK i : i = g.insert
    OBVIOUS
  <2>2. i \in 1..Len(g.term)
    BY <1>1, <1>3, <2>1
  <2>3. PICK s : s = [g.term EXCEPT ![i] = t]
    OBVIOUS
  <2>4. s \in Seq(Terminator) /\ Len(s) = Len(g.term)
    BY <1>1, <2>2, <2>3, ExceptSeq
  <2>5. \A b \in 1..Len(g.term) : b # i => s[b] = g.term[b]
    BY <1>1, <2>3, LenProperties
  <2>6. r = [g EXCEPT !.term = s, !.insert = 0]
    BY <1>3, <2>1, <2>3 DEF Terminate
  <2>7. /\ r \in Generator /\ r.term = s /\ r.insert = 0 /\ r.locals = g.locals
        /\ r.unclosed = g.unclosed /\ r.loop = g.loop
    <3>1. 0 \in Nat
      OBVIOUS
    <3> QED
      BY <1>1, <2>4, <2>6, <3>1 DEF Generator
  <2> QED
    BY <1>1, <2>1, <2>4, <2>5, <2>7 DEF Closes, Extends, Alike
<1> QED
  BY <1>2, <1>3

LEMMA BranchTyped ==
  /\ \A a \in Nat : Br({a}) \in Terminator
  /\ \A a, b \in Nat : Br({a, b}) \in Terminator
  /\ Ret \in Terminator
BY DEF Br, Ret, Terminator

LEMMA UnconditionalBranchIs ==
  ASSUME NEW g, Emitting(g), NEW b \in Nat, NEW r, r = UnconditionalBranch(g, b)
  PROVE  Closes(g, r)
<1>1. PICK t : t = Br({b})
  OBVIOUS
<1>2. t \in Terminator /\ r = Terminate(g, t)
  BY <1>1, BranchTyped DEF UnconditionalBranch
<1> QED
  BY <1>2, TerminateIs

(* Only the record of what the verifier sees changes.                      *)
Records(g, r) ==
  r \in Generator /\ r.term = g.term /\ r.insert = g.insert /\ Alike(g, r)

LEMMA RecordsIs ==
  ASSUME NEW g, Emitting(g), NEW r, Records(g, r)
  PROVE  Emitting(r) /\ Extends(g, r)
<1>1. g \in Generator /\ Len(g.term) \in Nat
  BY GeneratorIs DEF Emitting
<1> QED
  BY <1>1 DEF Emitting, Records, Extends

LEMMA UseIs ==
  ASSUME NEW g \in Generator, NEW v \in Value, NEW r, r = Use(g, v)
  PROVE  Records(g, r)
<1>1. CASE v.real /\ g.insert # 0
  <2>1. PICK us : us = g.uses \cup {[def |-> v.def, at |-> g.insert]}
    OBVIOUS
  <2>2. v.def \in Nat /\ g.insert \in Nat /\ g.uses \in SUBSET [def: Nat, at: Nat]
    BY DEF Value, Generator
  <2>3. us \in SUBSET [def: Nat, at: Nat]
    BY <2>1, <2>2
  <2>4. r = [g EXCEPT !.uses = us]
    BY <1>1, <2>1 DEF Use
  <2> QED
    BY <2>3, <2>4 DEF Generator, Records, Alike
<1>2. CASE ~(v.real /\ g.insert # 0)
  BY <1>2 DEF Use, Records, Alike
<1> QED
  BY <1>1, <1>2

LEMMA FaultIs ==
  ASSUME NEW g \in Generator, NEW w \in {"store", "return"}, NEW b, NEW r,
         r = [g EXCEPT !.faults = @ \cup Flag(w, b)]
  PROVE  Records(g, r)
<1>1. PICK fl : fl = g.faults \cup Flag(w, b)
  OBVIOUS
<1>2. fl \in SUBSET {"store", "return"}
  BY <1>1 DEF Flag, Generator
<1>3. r = [g EXCEPT !.faults = fl]
  BY <1>1
<1> QED
  BY <1>2, <1>3 DEF Generator, Records, Alike

LEMMA ConditionalBranchIs ==
  ASSUME NEW g, Emitting(g), NEW v \in Value, NEW a \in Nat, NEW b \in Nat,
         NEW r, r = ConditionalBranch(g, v, a, b)
  PROVE  Closes(g, r)
<1>1. PICK u : u = Use(g, v)
  OBVIOUS
<1>2. Records(g, u)
  BY <1>1, UseIs DEF Emitting
<1>3. Emitting(u)
  BY <1>2, RecordsIs
<1>4. PICK t : t = Br({a, b})
  OBVIOUS
<1>5. t \in Terminator /\ r = Terminate(u, t)
  BY <1>1, <1>4, BranchTyped DEF ConditionalBranch
<1>6. Closes(u, r)
  BY <1>3, <1>5, TerminateIs
<1> QED
  BY <1>2, <1>6 DEF Closes, Records, Extends, Alike

LEMMA BuildReturnIs ==
  ASSUME NEW g, Emitting(g), NEW v \in Value, NEW r, r = BuildReturn(g, v)
  PROVE  Closes(g, r)
<1>1. PICK wrong : wrong = (/\ g.insert # 0
                            /\ (IF v.ty = "value" /\ v.real THEN "value" ELSE "none") # ret_type)
  OBVIOUS
<1>2. PICK h : h = [g EXCEPT !.faults = @ \cup Flag("return", wrong)]
  OBVIOUS
<1>3. PICK u : u = Use(h, v)
  OBVIOUS
<1>4. Records(g, h)
  <2>1. PICK w : w = "return"
    OBVIOUS
  <2>2. w \in {"store", "return"} /\ h = [g EXCEPT !.faults = @ \cup Flag(w, wrong)]
    BY <1>2, <2>1
  <2> QED
    BY <2>2, FaultIs DEF Emitting
<1>5. Records(h, u)
  BY <1>3, <1>4, UseIs DEF Records
<1>6. Emitting(u) /\ Records(g, u)
  <2>1. Emitting(h) 
    BY <1>4, RecordsIs
  <2>2. Emitting(u)
    BY <1>5, <2>1, RecordsIs
  <2> QED
    BY <1>4, <1>5, <2>2 DEF Records, Alike
<1>7. r = Terminate(u, Ret)
  BY <1>1, <1>2, <1>3 DEF BuildReturn
<1>8. Closes(u, r)
  BY <1>6, <1>7, BranchTyped, TerminateIs
<1> QED
  BY <1>6, <1>8 DEF Closes, Records, Extends, Alike

LEMMA PositionIs ==
  ASSUME NEW g \in Generator, NEW b, b \in 1..Len(g.term), g.term[b] = Open,
         NEW r, r = PositionAt(g, b)
  PROVE  /\ Emitting(r) /\ r.term = g.term /\ r.insert = b /\ Alike(g, r)
<1>1. b \in Nat /\ b \in 0..Len(g.term)
  BY GeneratorIs
<1> QED
  BY <1>1 DEF PositionAt, Generator, Emitting, Alike

LEMMA PushIs ==
  ASSUME NEW g \in Generator, NEW r, r = PushLocalScope(g)
  PROVE  /\ r \in Generator /\ r.term = g.term /\ r.insert = g.insert
         /\ r.unclosed = g.unclosed /\ r.loop = g.loop /\ r.locals = g.locals + 1
<1>1. PICK l : l = g.locals + 1
  OBVIOUS
<1>2. l \in Nat
  BY <1>1, GeneratorIs
<1>3. r = [g EXCEPT !.locals = l]
  BY <1>1 DEF PushLocalScope
<1> QED
  BY <1>1, <1>2, <1>3 DEF Generator

LEMMA PopIs ==
  ASSUME NEW g \in Generator, g.locals > 0, NEW r, r = PopLocals(g)
  PROVE  /\ r \in Generator /\ r.term = g.term /\ r.insert = g.insert
         /\ r.unclosed = g.unclosed /\ r.loop = g.loop /\ r.locals = g.locals - 1
<1>1. PICK l : l = g.locals - 1
  OBVIOUS
<1>2. l \in Nat
  BY <1>1, GeneratorIs
<1>3. r = [g EXCEPT !.locals = l]
  BY <1>1 DEF PopLocals
<1> QED
  BY <1>1, <1>2, <1>3 DEF Generator

LEMMA AppendBlocksIs ==
  ASSUME NEW g, Emitting(g), NEW k \in Nat, NEW r, r = AppendBlocks(g, k)
  PROVE  /\ Emitting(r) /\ r.insert = g.insert /\ Alike(g, r)
         /\ Len(r.term) = Len(g.term) + k /\ Extends(g, r)
         /\ \A b \in 1..Len(g.term) : r.term[b] = g.term[b]
         /\ \A i \in 1..k : r.term[Len(g.term) + i] = Open
<1>1. g \in Generator /\ g.term \in Seq(Terminator) /\ Len(g.term) \in Nat
      /\ g.insert \in 0..Len(g.term)
  BY GeneratorIs DEF Emitting
<1>2. PICK n : n = Len(g.term)
  OBVIOUS
<1>3. PICK new : new = [i \in 1..k |-> Open]
  OBVIOUS
<1>4. new \in Seq(Terminator) /\ Len(new) = k /\ \A i \in 1..k : new[i] = Open
  <2>1. Open \in Terminator
    BY DEF Open, Terminator
  <2>2. new \in [1..k -> Terminator]
    BY <1>3, <2>1
  <2> QED
    BY <1>3, <2>2, SeqDef, LenProperties
<1>5. PICK s : s = g.term \o new
  OBVIOUS
<1>6. /\ s \in Seq(Terminator) /\ Len(s) = n + k
      /\ \A i \in 1..(n + k) : s[i] = IF i <= n THEN g.term[i] ELSE new[i - n]
  BY <1>1, <1>2, <1>4, <1>5, ConcatProperties
<1>7. \A b \in 1..n : s[b] = g.term[b]
  BY <1>1, <1>2, <1>6
<1>8. \A i \in 1..k : s[n + i] = Open
  <2> SUFFICES ASSUME NEW i \in 1..k
               PROVE  s[n + i] = Open
    OBVIOUS
  <2>1. PICK b : b = n + i
    OBVIOUS
  <2>2. b \in 1..(n + k) /\ ~(b <= n) /\ b - n = i
    BY <1>1, <1>2, <2>1
  <2>3. s[b] = new[i]
    BY <1>6, <2>2
  <2> QED
    BY <1>4, <2>1, <2>3
<1>9. r = [g EXCEPT !.term = s]
  BY <1>3, <1>5 DEF AppendBlocks
<1>10. r \in Generator /\ r.term = s /\ r.insert = g.insert /\ Alike(g, r)
  BY <1>1, <1>6, <1>9 DEF Generator, Alike
<1>11. n <= n + k /\ r.insert \in 0..Len(r.term)
  BY <1>1, <1>2, <1>6, <1>10
<1>12. r.insert # 0 => r.term[r.insert] = Open
  <2>1. g.insert # 0 => g.insert \in 1..n
    BY <1>1, <1>2
  <2> QED
    BY <1>7, <1>10, <2>1 DEF Emitting
<1> QED
  BY <1>2, <1>6, <1>7, <1>8, <1>10, <1>11, <1>12 DEF Emitting, Extends

(* LLValue::from and build_phi: what they give is a value.                 *)
LEMMA FromTyped ==
  ASSUME NEW v \in Value, NEW ty
  PROVE  From(v, ty) \in Value
BY DEF From, Value

LEMMA CountedIs ==
  ASSUME NEW in \in Seq(Incoming)
  PROVE  /\ Counted(in) \subseteq 1..Len(in) /\ Len(in) \in Nat /\ IsFiniteSet(Counted(in))
         /\ \A i \in Counted(in) : in[i] \in Incoming
         /\ Counted(in) # {} => FirstCounted(in) \in Value
<1>1. Counted(in) \subseteq 1..Len(in) /\ Len(in) \in Nat
  BY LenProperties DEF Counted
<1>2. IsFiniteSet(Counted(in))
  <2>1. IsFiniteSet(1..Len(in))
    BY <1>1, FS_Interval
  <2> QED
    BY <1>1, <2>1, FS_Subset
<1>3. \A i \in Counted(in) : in[i] \in Incoming
  BY <1>1, ElementOfSeq
<1>4. ASSUME Counted(in) # {}
      PROVE  FirstCounted(in) \in Value
  <2>1. PICK c : c = Counted(in)
    OBVIOUS
  <2>2. PICK i \in c : \A j \in c : i <= j
    <3>1. c \in SUBSET Nat /\ c # {}
      BY <1>1, <1>4, <2>1
    <3>2. PICK R : R = {ss \in Nat \X Nat : ss[1] < ss[2]}
      OBVIOUS
    <3>3. IsWellFoundedOn(R, Nat)
      BY ONLY <3>2, NatLessThanWellFounded DEF OpToRel
    <3>4. PICK i \in c : \A j \in c : <<j, i>> \notin R
      BY ONLY <3>1, <3>3, WFMin
    <3>5. ASSUME NEW j \in c
          PROVE  i <= j
      <4>1. i \in Nat /\ j \in Nat
        BY <3>1
      <4>2. PICK ss : ss = <<j, i>>
        OBVIOUS
      <4>3. ss \in Nat \X Nat /\ ss[1] = j /\ ss[2] = i /\ ss \notin R
        BY <3>4, <4>1, <4>2
      <4>4. ~(j < i)
        BY <3>2, <4>3
      <4> QED
        BY <4>1, <4>4
    <3> QED
      BY <3>5
  <2>3. PICK k : k = CHOOSE j \in c : \A l \in c : j <= l
    OBVIOUS
  <2>4. k \in c
    BY <2>2, <2>3
  <2>5. FirstCounted(in) = in[k].v
    BY <2>1, <2>3 DEF FirstCounted
  <2>6. in[k] \in Incoming
    BY <1>3, <2>1, <2>4
  <2> QED
    BY <2>5, <2>6 DEF Incoming
<1> QED
  BY <1>1, <1>2, <1>3, <1>4

LEMMA PhiValueTyped ==
  ASSUME NEW in \in Seq(Incoming), NEW g \in Generator
  PROVE  PhiValue(g, in) \in Value
<1>1. PICK kept : kept = Counted(in)
  OBVIOUS
<1>2. kept # {} => FirstCounted(in) \in Value
  BY <1>1, CountedIs
<1>3. NoneConst \in Value
  BY DEF NoneConst, Value
<1>4. PICK v : v = [ty |-> FirstCounted(in).ty, real |-> TRUE, def |-> g.insert]
  OBVIOUS
<1>5. kept # {} => v \in Value
  BY <1>2, <1>4, GeneratorIs DEF Value
<1>6. PhiValue(g, in) = CASE kept = {} -> NoneConst
                          [] Cardinality(kept) = 1 -> FirstCounted(in)
                          [] OTHER -> v
  BY <1>1, <1>4 DEF PhiValue
<1>7. CASE kept = {}
  <2>1. Cardinality(kept) # 1
    BY <1>7, FS_EmptySet
  <2> QED
    BY <1>3, <1>6, <1>7, <2>1
<1>8. CASE kept # {}
  BY <1>2, <1>5, <1>6, <1>8
<1> QED
  BY <1>7, <1>8

LEMMA BuildPhiIs ==
  ASSUME NEW g \in Generator, NEW in \in Seq(Incoming), NEW ty, NEW r,
         r = BuildPhi(g, in, ty)
  PROVE  Records(g, r)
<1>1. PICK kept : kept = Counted(in)
  OBVIOUS
<1>2. PICK several : several = (Cardinality(kept) >= 2)
  OBVIOUS
<1>3. CASE ty # "value" /\ ~several
  <2>1. r = g
    BY <1>1, <1>2, <1>3 DEF BuildPhi
  <2> QED
    BY <2>1 DEF Records, Alike
<1>4. CASE ~(ty # "value" /\ ~several)
  <2>1. PICK used : used = {j \in kept : several /\ in[j].v.real}
    OBVIOUS
  <2>2. PICK ms : ms = g.merges \cup {[at |-> g.insert, from |-> {in[i].b : i \in kept}]}
    OBVIOUS
  <2>3. PICK us : us = g.uses \cup {[def |-> in[i].v.def, at |-> in[i].b] : i \in used}
    OBVIOUS
  <2>4. r = [g EXCEPT !.merges = ms, !.uses = us]
    BY <1>1, <1>2, <1>4, <2>1, <2>2, <2>3 DEF BuildPhi
  <2>5. \A i \in kept : in[i].b \in Nat /\ in[i].v.def \in Nat
    <3>1. \A i \in kept : in[i] \in Incoming
      BY <1>1, CountedIs
    <3> QED
      BY <3>1 DEF Incoming, Value
  <2>6. ms \in SUBSET [at: Nat, from: SUBSET Nat]
    <3>1. {in[i].b : i \in kept} \in SUBSET Nat
      BY <2>5
    <3>2. g.insert \in Nat /\ g.merges \in SUBSET [at: Nat, from: SUBSET Nat]
      BY DEF Generator
    <3> QED
      BY <2>2, <3>1, <3>2
  <2>7. us \in SUBSET [def: Nat, at: Nat]
    <3>1. g.uses \in SUBSET [def: Nat, at: Nat]
      BY DEF Generator
    <3>2. \A i \in used : [def |-> in[i].v.def, at |-> in[i].b] \in [def: Nat, at: Nat]
      BY <2>1, <2>5
    <3> QED
      BY <2>3, <3>1, <3>2
  <2> QED
    BY <2>4, <2>6, <2>7 DEF Generator, Records, Alike
<1> QED
  BY <1>3, <1>4

-----------------------------------------------------------------------------
(* The calls of expression_ that have not returned.                        *)

LEMMA EndOfStep ==
  ASSUME NEW fs, NEW k \in Nat \ {0}
  PROVE  EndOf(fs, k) = IF IsLoop(fs[k]) THEN fs[k].blocks[3] ELSE EndOf(fs, k - 1)
<1>1. \A i : i \in 1..k <=> (i \in 1..(k - 1) \/ i = k)
  OBVIOUS
<1>2. CASE IsLoop(fs[k])
  <2>1. PICK loops : loops = Around(fs, k)
    OBVIOUS
  <2>2. k \in loops /\ \A j \in loops : j <= k /\ j \in Nat
    BY <1>1, <1>2, <2>1 DEF Around
  <2>3. \A i \in loops : (\A j \in loops : j <= i) => i = k
    BY <2>2
  <2>4. Innermost(loops) = k
    BY <2>2, <2>3 DEF Innermost
  <2> QED
    BY <1>2, <2>1, <2>2, <2>4 DEF EndOf
<1>3. CASE ~IsLoop(fs[k])
  <2>1. Around(fs, k) = Around(fs, k - 1)
    BY <1>1, <1>3 DEF Around
  <2> QED
    BY <1>3, <2>1 DEF EndOf
<1> QED
  BY <1>2, <1>3

LEMMA EndOfSame ==
  ASSUME NEW fs, NEW hs, NEW k \in Nat, \A i \in 1..k : fs[i] = hs[i]
  PROVE  EndOf(fs, k) = EndOf(hs, k)
<1>1. Around(fs, k) = Around(hs, k)
  BY DEF Around
<1>2. PICK loops : loops = Around(fs, k)
  OBVIOUS
<1>3. PICK i : i = Innermost(loops)
  OBVIOUS
<1>4. CASE loops = {}
  BY <1>1, <1>2, <1>4 DEF EndOf
<1>5. CASE loops # {}
  <2>1. loops \subseteq 1..k
    BY <1>2 DEF Around
  <2>2. i \in loops
    <3>1. \E l \in loops : \A j \in loops : j <= l
      <4>1. PICK R : R = {ss \in Nat \X Nat : ss[1] < ss[2]}
        OBVIOUS
      <4>2. PICK up : up = {k - j : j \in loops}
        OBVIOUS
      <4>3. up \in SUBSET Nat /\ up # {}
        <5>1. \A j \in 1..k : k - j \in Nat
          OBVIOUS
        <5>2. \A j \in loops : k - j \in Nat
          BY <2>1, <5>1
        <5>3. \E j \in loops : TRUE
          BY <1>5
        <5> QED
          BY <4>2, <5>2, <5>3
      <4>4. IsWellFoundedOn(R, Nat)
        BY ONLY <4>1, NatLessThanWellFounded DEF OpToRel
      <4>5. PICK u \in up : \A w \in up : <<w, u>> \notin R
        BY ONLY <4>3, <4>4, WFMin
      <4>6. PICK l \in loops : u = k - l
        BY <4>2
      <4>7. ASSUME NEW j \in loops
            PROVE  j <= l
        <5>1. PICK w : w = k - j
          OBVIOUS
        <5>2. w \in up /\ w \in Nat /\ u \in Nat
          BY <4>2, <4>3, <5>1
        <5>3. PICK ss : ss = <<w, u>>
          OBVIOUS
        <5>4. ss \in Nat \X Nat /\ ss[1] = w /\ ss[2] = u /\ ss \notin R
          BY <4>5, <5>2, <5>3
        <5>5. ~(w < u)
          BY <4>1, <5>4
        <5>6. j \in Nat /\ l \in Nat
          BY <2>1
        <5> QED
          BY <4>6, <5>1, <5>2, <5>5, <5>6
      <4> QED
        BY <4>7
    <3> QED
      BY <1>3, <3>1 DEF Innermost
  <2>3. fs[i] = hs[i]
    BY <2>1, <2>2
  <2> QED
    BY <1>1, <1>2, <1>3, <1>5, <2>3 DEF EndOf
<1> QED
  BY <1>4, <1>5

LEMMA WaitingHasBlocks ==
  ASSUME NEW f, NEW n \in Nat, Calling(f, n), NEW j \in Waiting(f)
  PROVE  /\ j \in 1..3 /\ f.blocks[j] \in 1..n /\ f.blocks[j] \in Nat \ {0}
         /\ HasBlocks(KindOf(f), f.pc)
<1>1. j \in 1..3 /\ HasBlocks(KindOf(f), f.pc)
  BY DEF Waiting, ToCome, HasBlocks
<1>2. f.blocks[j] \in 1..n
  BY <1>1 DEF Calling, Placed
<1> QED
  BY <1>1, <1>2

LEMMA CallingMore ==
  ASSUME NEW f, NEW n \in Nat, NEW h \in Nat, n <= h, Calling(f, n)
  PROVE  Calling(f, h)
BY DEF Calling, Placed

LEMMA CallingIs ==
  ASSUME NEW f, NEW n, Calling(f, n)
  PROVE  /\ f \in Frame /\ f.node \in 1..Len(nodes) /\ f.base \in Nat /\ Depth(f) \in {0, 1}
         /\ f.blocks \in Seq(Nat) /\ f.incoming \in Seq(Incoming) /\ f.outer \in LoopData
         /\ f.case \in Nat
<1>1. f \in Frame /\ f.node \in 1..Len(nodes)
  BY DEF Calling
<1> QED
  BY <1>1 DEF Frame, Depth

LEMMA TopIs ==
  ASSUME Walk(frames, m), frames # <<>>
  PROVE  /\ Len(frames) \in Nat \ {0} /\ top = frames[Len(frames)] /\ Last(frames) = top
         /\ Calling(top, Len(m.term)) /\ Untouched(top, m) /\ Distinct(top)
         /\ m \in Generator /\ Emitting(m) /\ Len(m.term) \in Nat
         /\ m.locals = m.unclosed + top.base + Depth(top)
         /\ IsLoop(top) => top.outer.end = EndOf(frames, Len(frames) - 1)
         /\ m.loop.end = IF IsLoop(top) THEN top.blocks[3] ELSE EndOf(frames, Len(frames) - 1)
<1>1. frames \in Seq(Frame) /\ Len(frames) \in Nat \ {0} /\ top = frames[Len(frames)]
      /\ Last(frames) = top
  BY EmptySeq DEF Walk, top, Last
<1>2. Len(frames) \in 1..Len(frames)
  BY <1>1
<1>3. m \in Generator /\ Emitting(m) /\ Len(m.term) \in Nat
  <2>1. Emitting(m)
    BY DEF Walk
  <2> QED
    BY <2>1, GeneratorIs DEF Emitting
<1>4. Calling(top, Len(m.term)) /\ Untouched(top, m) /\ Distinct(top)
  BY <1>1, <1>2 DEF Walk, BlocksKept
<1>5. m.locals = m.unclosed + top.base + Depth(top)
  BY <1>1 DEF Walk, ScopesNest
<1>6. IsLoop(top) => top.outer.end = EndOf(frames, Len(frames) - 1)
  BY <1>1, <1>2 DEF Walk, LoopsNest
<1>7. m.loop.end = IF IsLoop(top) THEN top.blocks[3] ELSE EndOf(frames, Len(frames) - 1)
  BY <1>1, EndOfStep DEF Walk, LoopsNest
<1> QED
  BY <1>1, <1>3, <1>4, <1>5, <1>6, <1>7

(* A block of the innermost call, and of none around it.                   *)
Own(b) == \/ b = 0 \/ b = m.insert \/ b > Len(m.term)
          \/ \E k \in Waiting(top) : b = top.blocks[k]

LEMMA OwnIs ==
  ASSUME Walk(frames, m), frames # <<>>, NEW b, Own(b),
         NEW i \in 1..(Len(frames) - 1), NEW j \in Waiting(frames[i])
  PROVE  /\ frames[i].blocks[j] # b /\ frames[i].blocks[j] \in 1..Len(m.term)
         /\ frames[i].blocks[j] # m.insert /\ m.term[frames[i].blocks[j]] = Open
<1>1. PICK n : n = Len(frames)
  OBVIOUS
<1>2. n \in Nat \ {0} /\ top = frames[n] /\ Len(m.term) \in Nat /\ n \in 1..n
      /\ i \in 1..n /\ i # n
  BY <1>1, TopIs
<1>3. PICK c : c = frames[i].blocks[j]
  OBVIOUS
<1>4. c \in 1..Len(m.term) /\ c \in Nat \ {0}
  <2>1. Calling(frames[i], Len(m.term))
    BY <1>1, <1>2 DEF Walk
  <2> QED
    BY <1>2, <1>3, <2>1, WaitingHasBlocks
<1>5. c # m.insert /\ m.term[c] = Open
  BY <1>1, <1>2, <1>3 DEF Walk, BlocksKept, Untouched
<1>6. \A k \in Waiting(top) : c # top.blocks[k]
  BY <1>1, <1>2, <1>3 DEF Walk, BlocksKept, Disjoint
<1>7. ~(c > Len(m.term))
  BY <1>2, <1>4
<1> QED
  BY <1>3, <1>4, <1>5, <1>6, <1>7 DEF Own

(* The innermost call returns.                                             *)
LEMMA GiveWalk ==
  ASSUME Walk(frames, m), frames # <<>>, NEW g, Emitting(g), Extends(m, g), Own(g.insert),
         g.locals = g.unclosed + top.base,
         g.loop.end = EndOf(frames, Len(frames) - 1),
         NEW fs, fs = Front(frames)
  PROVE  Walk(fs, g)
<1>1. PICK n : n = Len(frames)
  OBVIOUS
<1>2. n \in Nat \ {0} /\ top = frames[n] /\ Len(m.term) \in Nat /\ n - 1 \in Nat /\ n \in 1..n
  BY <1>1, TopIs
<1>3. fs \in Seq(Frame) /\ Len(fs) = n - 1 /\ \A i \in 1..(n - 1) : fs[i] = frames[i]
  BY <1>1, FrontIs DEF Walk
<1>4. \A i \in 1..(n - 1) : i \in 1..n /\ i \in Nat
  BY <1>2
<1>5. Len(m.term) <= Len(g.term) /\ Len(g.term) \in Nat
  BY GeneratorIs DEF Extends, Emitting
<1>6. ASSUME NEW i \in 1..(n - 1)
      PROVE  Calling(fs[i], Len(g.term))
  <2>1. Calling(frames[i], Len(m.term))
    BY <1>1, <1>4 DEF Walk
  <2> QED
    BY <1>2, <1>3, <1>5, <2>1, CallingMore
<1>7. BlocksKept(fs, g)
  <2>1. ASSUME NEW i \in 1..(n - 1)
        PROVE  Untouched(fs[i], g) /\ Distinct(fs[i])
    <3>1. ASSUME NEW j \in Waiting(fs[i])
          PROVE  g.term[fs[i].blocks[j]] = Open /\ fs[i].blocks[j] # g.insert
      <4>1. PICK b : b = fs[i].blocks[j]
        OBVIOUS
      <4>2. b # g.insert /\ b \in 1..Len(m.term) /\ b # m.insert /\ m.term[b] = Open
        BY <1>1, <1>3, <4>1, OwnIs
      <4>3. g.term[b] = m.term[b]
        BY <4>2 DEF Extends
      <4> QED
        BY <4>1, <4>2, <4>3
    <3>2. Distinct(fs[i])
      BY <1>1, <1>3, <1>4 DEF Walk, BlocksKept
    <3> QED
      BY <3>1, <3>2 DEF Untouched
  <2>2. \A i, k \in 1..(n - 1) : i # k => Disjoint(fs[i], fs[k])
    BY <1>1, <1>3, <1>4 DEF Walk, BlocksKept
  <2> QED
    BY <1>3, <2>1, <2>2 DEF BlocksKept
<1>8. LoopsNest(fs, g)
  <2>1. EndOf(fs, n - 1) = EndOf(frames, n - 1)
    BY <1>2, <1>3, EndOfSame
  <2>2. ASSUME NEW i \in 1..(n - 1), IsLoop(fs[i])
        PROVE  fs[i].outer.end = EndOf(fs, i - 1)
    <3>1. frames[i].outer.end = EndOf(frames, i - 1)
      BY <1>1, <1>3, <1>4, <2>2 DEF Walk, LoopsNest
    <3>2. i - 1 \in Nat /\ \A k \in 1..(i - 1) : k \in 1..(n - 1)
      BY <1>2
    <3>3. EndOf(fs, i - 1) = EndOf(frames, i - 1)
      BY <1>3, <3>2, EndOfSame
    <3> QED
      BY <1>3, <3>1, <3>3
  <2> QED
    BY <1>1, <1>3, <2>1, <2>2 DEF LoopsNest
<1>9. ScopesNest(fs, g)
  <2>1. ASSUME NEW i \in 1..(n - 1 - 1)
        PROVE  fs[i + 1].base = fs[i].base + Depth(fs[i])
    <3>1. i \in 1..(n - 1) /\ i + 1 \in 1..(n - 1)
      BY <1>2
    <3>2. frames[i + 1].base = frames[i].base + Depth(frames[i])
      BY <1>1, <3>1 DEF Walk, ScopesNest
    <3> QED
      BY <1>3, <3>1, <3>2
  <2>2. ASSUME fs # <<>>
        PROVE  g.locals = g.unclosed + Last(fs).base + Depth(Last(fs))
    <3>1. n - 1 # 0
      BY <1>3, <2>2, EmptySeq
    <3>2. PICK h : h = n - 1
      OBVIOUS
    <3>3. h \in 1..(n - 1) /\ h + 1 = n /\ h \in 1..n
      BY <1>2, <3>1, <3>2
    <3>4. frames[h + 1].base = frames[h].base + Depth(frames[h])
      BY <1>1, <3>2, <3>3 DEF Walk, ScopesNest
    <3>5. Last(fs) = frames[h]
      BY <1>3, <3>2, <3>3 DEF Last
    <3>6. frames[h].base \in Nat /\ Depth(frames[h]) \in {0, 1}
      <4>1. Calling(frames[h], Len(m.term))
        BY <1>1, <3>3 DEF Walk
      <4> QED
        BY <4>1, CallingIs
    <3>7. g.unclosed \in Nat
      BY GeneratorIs DEF Emitting
    <3>8. PICK d : d = Depth(frames[h])
      OBVIOUS
    <3>9. PICK e : e = frames[h].base
      OBVIOUS
    <3>10. g.unclosed + (e + d) = g.unclosed + e + d
      BY <3>6, <3>7, <3>8, <3>9
    <3> QED
      BY <1>2, <3>3, <3>4, <3>5, <3>8, <3>9, <3>10
  <2> QED
    BY <1>3, <2>1, <2>2 DEF ScopesNest
<1> QED
  BY <1>3, <1>6, <1>7, <1>8, <1>9 DEF Walk

(* The innermost call goes on, as f, until another one in it returns.      *)
LEMMA EvaluateWalk ==
  ASSUME Walk(frames, m), frames # <<>>, NEW g, Emitting(g), Extends(m, g), Own(g.insert),
         NEW f, Calling(f, Len(g.term)), f.base = top.base,
         Untouched(f, g), Distinct(f), \A j \in Waiting(f) : Own(f.blocks[j]),
         g.locals = g.unclosed + f.base + Depth(f),
         g.loop.end = IF IsLoop(f) THEN f.blocks[3] ELSE EndOf(frames, Len(frames) - 1),
         IsLoop(f) => f.outer.end = EndOf(frames, Len(frames) - 1),
         Expressions(nodes), NEW e \in 1..Len(nodes),
         NEW fs, fs = Append(Append(Front(frames), f), NewFrame(e, g))
  PROVE  Walk(fs, g)
<1>1. PICK n : n = Len(frames)
  OBVIOUS
<1>2. n \in Nat \ {0} /\ top = frames[n] /\ Len(m.term) \in Nat /\ n - 1 \in Nat /\ n \in 1..n
  BY <1>1, TopIs
<1>3. PICK hs : hs = Front(frames)
  OBVIOUS
<1>4. hs \in Seq(Frame) /\ Len(hs) = n - 1 /\ \A i \in 1..(n - 1) : hs[i] = frames[i]
  <2>1. frames \in Seq(Frame) /\ frames # <<>>
    BY DEF Walk
  <2> QED
    BY ONLY <1>1, <1>3, <2>1, FrontIs
<1>5. PICK q : q = NewFrame(e, g)
  OBVIOUS
<1>6. g \in Generator /\ g.unclosed \in Nat /\ g.locals \in Nat /\ Len(g.term) \in Nat
  BY GeneratorIs DEF Emitting
<1>7. f \in Frame /\ f.base \in Nat /\ Depth(f) \in {0, 1}
  BY CallingIs
<1>8. g.locals - g.unclosed \in Nat /\ g.locals - g.unclosed = f.base + Depth(f)
  <2>1. PICK d : d = Depth(f)
    OBVIOUS
  <2> QED
    BY <1>6, <1>7, <2>1
<1>9. /\ q \in Frame /\ q.node = e /\ q.pc = "visit" /\ q.case = 1
      /\ q.base = f.base + Depth(f)
  <2>1. e \in Nat /\ Len(nodes) \in Nat
    BY LenProperties DEF Expressions
  <2> QED
    BY <1>5, <1>8, <2>1, NewFrameIs
<1>10. Calling(q, Len(g.term)) /\ Waiting(q) = {} /\ ~IsLoop(q) /\ Depth(q) = 0
  <2>1. KindOf(q) \in Kinds /\ Operands(KindOf(q), Len(nodes[q.node].sub))
    BY <1>9, OperandTyped DEF Expressions, KindOf
  <2>2. /\ Placed(q, KindOf(q), Len(nodes[q.node].sub), Len(g.term))
        /\ ToCome(KindOf(q), q.pc) = {}
    BY <1>9, <2>1, NewPlaced
  <2> QED
    BY <1>9, <2>2 DEF Calling, Waiting, IsLoop, Depth
<1>11. PICK gs : gs = Append(hs, f)
  OBVIOUS
<1>12. gs \in Seq(Frame) /\ Len(gs) = n /\ gs[n] = f /\ \A i \in 1..(n - 1) : gs[i] = frames[i]
  <2>1. n - 1 + 1 = n
    BY <1>2
  <2>2. /\ gs \in Seq(Frame) /\ Len(gs) = Len(hs) + 1 /\ gs[Len(hs) + 1] = f
        /\ \A i \in 1..Len(hs) : gs[i] = hs[i]
    BY <1>4, <1>7, <1>11, Appended
  <2> QED
    BY <1>4, <2>1, <2>2
<1>13. /\ fs \in Seq(Frame) /\ Len(fs) = n + 1 /\ fs[n + 1] = q /\ fs[n] = f /\ fs # <<>>
       /\ \A i \in 1..(n - 1) : fs[i] = frames[i]
       /\ Last(fs) = q
  <2>1. fs = Append(gs, q)
    BY <1>3, <1>5, <1>11
  <2>2. /\ fs \in Seq(Frame) /\ Len(fs) = n + 1 /\ fs[n + 1] = q /\ fs # <<>> /\ Last(fs) = q
        /\ \A i \in 1..n : fs[i] = gs[i]
    <3>1. /\ fs \in Seq(Frame) /\ Len(fs) = Len(gs) + 1 /\ fs[Len(gs) + 1] = q /\ fs # <<>>
          /\ Last(fs) = q /\ \A i \in 1..Len(gs) : fs[i] = gs[i]
      <4>1. q \in Frame /\ gs \in Seq(Frame)
        BY <1>9, <1>12
      <4>2. /\ fs \in Seq(Frame) /\ Len(fs) = Len(gs) + 1 /\ fs[Len(gs) + 1] = q
            /\ \A i \in 1..Len(gs) : fs[i] = gs[i]
        BY ONLY <2>1, <4>1, Appended
      <4>3. fs # <<>> /\ Last(fs) = q
        <5>1. Len(<<>>) = 0 /\ n + 1 # 0
          BY <1>2
        <5> QED
          BY <1>12, <4>2, <5>1 DEF Last
      <4> QED
        BY <4>2, <4>3
    <3> QED
      BY <1>12, <3>1
  <2>3. \A i \in 1..(n - 1) : i \in 1..n
    BY <1>2
  <2> QED
    BY <1>2, <1>12, <2>2, <2>3
<1>14. /\ \A i \in 1..(n + 1) : i \in 1..(n - 1) \/ i = n \/ i = n + 1
       /\ \A i \in 1..(n - 1) : i \in 1..n /\ i \in Nat /\ i # n /\ i # n + 1
  BY <1>2
<1>15. Len(m.term) <= Len(g.term)
  BY DEF Extends
<1>16. ASSUME NEW i \in 1..(n + 1)
       PROVE  Calling(fs[i], Len(g.term))
  <2>1. CASE i \in 1..(n - 1)
    <3>1. Calling(frames[i], Len(m.term))
      BY <1>1, <1>14, <2>1 DEF Walk
    <3> QED
      BY <1>2, <1>6, <1>13, <1>15, <2>1, <3>1, CallingMore
  <2> QED
    BY <1>10, <1>13, <1>14, <2>1
<1>17. ASSUME NEW i \in 1..(n - 1), NEW j \in Waiting(fs[i])
       PROVE  /\ g.term[fs[i].blocks[j]] = Open /\ fs[i].blocks[j] # g.insert
              /\ \A b : Own(b) => fs[i].blocks[j] # b
  <2>1. PICK c : c = fs[i].blocks[j]
    OBVIOUS
  <2>2. fs[i] = frames[i] /\ j \in Waiting(frames[i])
    BY <1>13
  <2>3. ASSUME NEW b, Own(b)
        PROVE  c # b /\ c \in 1..Len(m.term) /\ c # m.insert /\ m.term[c] = Open
    BY <1>1, <2>1, <2>2, <2>3, OwnIs
  <2>4. c # g.insert /\ c \in 1..Len(m.term) /\ c # m.insert /\ m.term[c] = Open
    BY <2>3
  <2>5. g.term[c] = m.term[c]
    BY <2>4 DEF Extends
  <2> QED
    BY <2>1, <2>3, <2>4, <2>5
<1>18. BlocksKept(fs, g)
  <2>1. ASSUME NEW i \in 1..(n + 1)
        PROVE  Untouched(fs[i], g) /\ Distinct(fs[i])
    <3>1. CASE i \in 1..(n - 1)
      <4>1. Untouched(fs[i], g)
        BY <1>17, <3>1 DEF Untouched
      <4>2. Distinct(frames[i])
        BY <1>1, <1>14, <3>1 DEF Walk, BlocksKept
      <4> QED
        BY <1>13, <3>1, <4>1, <4>2
    <3>2. CASE i = n
      BY <1>13, <3>2
    <3>3. CASE i = n + 1
      BY <1>10, <1>13, <3>3 DEF Untouched, Distinct
    <3> QED
      BY <1>14, <3>1, <3>2, <3>3
  <2>2. ASSUME NEW i \in 1..(n - 1)
        PROVE  Disjoint(fs[i], f) /\ Disjoint(f, fs[i])
    BY <1>17 DEF Disjoint
  <2>3. \A h : Disjoint(h, q) /\ Disjoint(q, h)
    BY <1>10 DEF Disjoint
  <2>4. \A i, k \in 1..(n - 1) : i # k => Disjoint(fs[i], fs[k])
    BY <1>1, <1>13, <1>14 DEF Walk, BlocksKept
  <2>5. ASSUME NEW i \in 1..(n + 1), NEW k \in 1..(n + 1), i # k
        PROVE  Disjoint(fs[i], fs[k])
    BY <1>13, <1>14, <2>2, <2>3, <2>4, <2>5
  <2> QED
    BY <1>13, <2>1, <2>5 DEF BlocksKept
<1>19. LoopsNest(fs, g)
  <2>1. EndOf(fs, n - 1) = EndOf(frames, n - 1)
    BY <1>2, <1>13, EndOfSame
  <2>2. EndOf(fs, n) = IF IsLoop(f) THEN f.blocks[3] ELSE EndOf(frames, n - 1)
    BY <1>2, <1>13, <2>1, EndOfStep
  <2>3. EndOf(fs, n + 1) = EndOf(fs, n)
    <3>1. PICK h : h = n + 1
      OBVIOUS
    <3>2. h \in Nat \ {0} /\ h - 1 = n /\ fs[h] = q
      BY <1>2, <1>13, <3>1
    <3>3. EndOf(fs, h) = IF IsLoop(fs[h]) THEN fs[h].blocks[3] ELSE EndOf(fs, h - 1)
      BY <3>2, EndOfStep
    <3> QED
      BY <1>10, <3>1, <3>2, <3>3
  <2>4. ASSUME NEW i \in 1..(n + 1), IsLoop(fs[i])
        PROVE  fs[i].outer.end = EndOf(fs, i - 1)
    <3>1. CASE i \in 1..(n - 1)
      <4>1. frames[i].outer.end = EndOf(frames, i - 1)
        BY <1>1, <1>13, <1>14, <2>4, <3>1 DEF Walk, LoopsNest
      <4>2. i - 1 \in Nat /\ \A k \in 1..(i - 1) : k \in 1..(n - 1)
        BY <1>2, <3>1
      <4>3. EndOf(fs, i - 1) = EndOf(frames, i - 1)
        BY <1>13, <4>2, EndOfSame
      <4> QED
        BY <1>13, <3>1, <4>1, <4>3
    <3>2. CASE i = n
      BY <1>1, <1>13, <2>1, <2>4, <3>2
    <3> QED
      BY <1>10, <1>13, <1>14, <2>4, <3>1, <3>2
  <2> QED
    BY <1>1, <1>13, <2>2, <2>3, <2>4 DEF LoopsNest
<1>20. ScopesNest(fs, g)
  <2>1. ASSUME NEW i \in 1..n
        PROVE  fs[i + 1].base = fs[i].base + Depth(fs[i])
    <3>1. CASE i = n
      BY <1>9, <1>13, <3>1
    <3>2. CASE i # n
      <4>1. i \in 1..(n - 1) /\ i + 1 \in 1..n
        BY <1>2, <3>2
      <4>2. frames[i + 1].base = frames[i].base + Depth(frames[i])
        BY <1>1, <4>1 DEF Walk, ScopesNest
      <4>3. fs[i] = frames[i]
        BY <1>13, <4>1
      <4>4. fs[i + 1].base = frames[i + 1].base
        <5>1. CASE i + 1 = n
          BY <1>2, <1>13, <5>1
        <5>2. CASE i + 1 # n
          <6>1. PICK k : k = i + 1
            OBVIOUS
          <6>2. k \in 1..(n - 1)
            BY <1>2, <4>1, <5>2, <6>1
          <6> QED
            BY <1>13, <6>1, <6>2
        <5> QED
          BY <5>1, <5>2
      <4> QED
        BY <4>2, <4>3, <4>4
    <3> QED
      BY <3>1, <3>2
  <2>2. g.locals = g.unclosed + q.base + Depth(q)
    <3>1. PICK b : b = q.base
      OBVIOUS
    <3>2. b \in Nat /\ b = g.locals - g.unclosed
      BY <1>8, <1>9, <3>1
    <3>3. g.locals = g.unclosed + b + 0
      BY <1>6, <3>2
    <3> QED
      BY <1>10, <3>1, <3>3
  <2>3. \A i \in 1..(Len(fs) - 1) : fs[i + 1].base = fs[i].base + Depth(fs[i])
    <3>1. Len(fs) - 1 = n
      BY <1>2, <1>13
    <3> QED
      BY <2>1, <3>1
  <2>4. g.locals = g.unclosed + Last(fs).base + Depth(Last(fs))
    BY <1>13, <2>2
  <2> QED
    BY <2>3, <2>4 DEF ScopesNest
<1> QED
  BY <1>13, <1>16, <1>18, <1>19, <1>20 DEF Walk

LEMMA WalkNext ==
  ASSUME NEW fs, NEW g, Walk(fs, g), nodes' = nodes, frames' = fs, m' = g
  PROVE  Walk(frames, m)'
<1>1. ASSUME NEW f
      PROVE  /\ KindOf(f)' = KindOf(f) /\ Waiting(f)' = Waiting(f) /\ IsLoop(f)' = IsLoop(f)
             /\ Depth(f)' = Depth(f)
  <2>1. KindOf(f)' = KindOf(f)
    BY DEF KindOf
  <2> QED
    BY <2>1 DEF Waiting, IsLoop, Depth
<1>2. \A i \in 1..Len(fs) : Calling(fs[i], Len(g.term))'
  BY <1>1 DEF Walk, Calling
<1>3. BlocksKept(frames, m)'
  <2>1. BlocksKept(fs, g)
    BY DEF Walk
  <2> QED
    BY <1>1, <2>1 DEF BlocksKept, Untouched, Distinct, Disjoint
<1>4. LoopsNest(frames, m)'
  <2>1. LoopsNest(fs, g)
    BY DEF Walk
  <2>2. ASSUME NEW k
        PROVE  EndOf(frames, k)' = EndOf(fs, k)
    <3>1. Around(frames, k)' = Around(fs, k)
      BY <1>1 DEF Around
    <3> QED
      BY <3>1 DEF EndOf, Innermost
  <2> QED
    BY <1>1, <2>1, <2>2 DEF LoopsNest
<1>5. ScopesNest(frames, m)'
  <2>1. ScopesNest(fs, g)
    BY DEF Walk
  <2> QED
    BY <1>1, <2>1 DEF ScopesNest, Last
<1> QED
  BY <1>2, <1>3, <1>4, <1>5 DEF Walk, Emitting, Calling

(* What the steps of the walk have in common: the types, that no block     *)
(* but the one inserted into changes, and that a call leaves as many scopes*)
(* as it found.                                                            *)
Goes ==
  /\ TypeInv' /\ Extends(m, m')
  /\ Len(frames') < Len(frames) => m'.locals - m'.unclosed = top.base

Returns(g) ==
  /\ Emitting(g) /\ Extends(m, g) /\ Own(g.insert)
  /\ g.locals = g.unclosed + top.base
  /\ g.loop.end = EndOf(frames, Len(frames) - 1)

GoesOn(f, g) ==
  /\ Emitting(g) /\ Extends(m, g) /\ Own(g.insert)
  /\ Calling(f, Len(g.term)) /\ f.base = top.base
  /\ Untouched(f, g) /\ Distinct(f) /\ \A j \in Waiting(f) : Own(f.blocks[j])
  /\ g.locals = g.unclosed + f.base + Depth(f)
  /\ g.loop.end = IF IsLoop(f) THEN f.blocks[3] ELSE EndOf(frames, Len(frames) - 1)
  /\ IsLoop(f) => f.outer.end = EndOf(frames, Len(frames) - 1)

LEMMA GiveStep ==
  ASSUME TypeInv, phase = "ir", frames # <<>>, NEW v \in Value, NEW g, Returns(g), Give(v, g)
  PROVE  Goes
<1>1. /\ frames' = Front(frames) /\ result' = v /\ m' = g
      /\ UNCHANGED <<left, ret_type, phase, nodes, open>>
  BY DEF Give
<1>2. Walk(frames, m)
  BY DEF TypeInv
<1>3. PICK fs : fs = Front(frames)
  OBVIOUS
<1>4. Walk(fs, g)
  BY <1>2, <1>3, GiveWalk DEF Returns
<1>5. Walk(frames, m)'
  BY <1>1, <1>3, <1>4, WalkNext
<1>6. TypeInv'
  BY <1>1, <1>5 DEF TypeInv, Forming
<1>7. m'.locals - m'.unclosed = top.base
  <2>1. g.unclosed \in Nat
    BY GeneratorIs DEF Returns, Emitting
  <2>2. top.base \in Nat
    BY <1>2, TopIs, CallingIs
  <2>3. PICK b : b = top.base
    OBVIOUS
  <2>5. g.locals = g.unclosed + b
    BY <2>3 DEF Returns
  <2>6. g.locals - g.unclosed = b
    <3>1. b \in Nat
      BY <2>2, <2>3
    <3> QED
      BY ONLY <2>1, <2>5, <3>1
  <2> QED
    BY <1>1, <2>3, <2>6
<1> QED
  BY <1>1, <1>6, <1>7 DEF Goes, Returns

LEMMA EvaluateStep ==
  ASSUME TypeInv, phase = "ir", frames # <<>>, NEW e \in 1..Len(nodes), NEW f, NEW g,
         GoesOn(f, g), Evaluate(e, f, g)
  PROVE  Goes
<1>1. /\ frames' = Append(Append(Front(frames), f), NewFrame(e, g)) /\ m' = g
      /\ UNCHANGED <<left, ret_type, phase, nodes, open, result>>
  BY DEF Evaluate
<1>2. Walk(frames, m) /\ Expressions(nodes)
  BY DEF TypeInv, Forming
<1>3. PICK fs : fs = Append(Append(Front(frames), f), NewFrame(e, g))
  OBVIOUS
<1>4. Walk(fs, g)
  BY <1>2, <1>3, EvaluateWalk DEF GoesOn
<1>5. Walk(frames, m)'
  BY <1>1, <1>3, <1>4, WalkNext
<1>6. TypeInv'
  BY <1>1, <1>5 DEF TypeInv, Forming
<1>7. ~(Len(frames') < Len(frames))
  <2>1. frames \in Seq(Frame) /\ frames # <<>>
    BY <1>2 DEF Walk
  <2>2. PICK hs : hs = Front(frames)
    OBVIOUS
  <2>3. hs \in Seq(Frame) /\ Len(hs) = Len(frames) - 1 /\ Len(frames) \in Nat
    BY <2>1, <2>2, FrontIs
  <2>4. PICK gs : gs = Append(hs, f)
    OBVIOUS
  <2>5. f \in Frame
    BY CallingIs DEF GoesOn
  <2>6. gs \in Seq(Frame) /\ Len(gs) = Len(hs) + 1
    BY <2>3, <2>4, <2>5, Appended
  <2>7. PICK q : q = NewFrame(e, g)
    OBVIOUS
  <2>8. fs = Append(gs, q) /\ fs \in Seq(Frame)
    BY <1>3, <1>4, <2>2, <2>4, <2>7 DEF Walk
  <2>9. Len(fs) = Len(gs) + 1
    BY <2>6, <2>8
  <2>10. Len(fs) = Len(frames) + 1
    BY <2>3, <2>6, <2>9
  <2> QED
    BY <1>1, <1>3, <2>3, <2>10
<1> QED
  BY <1>1, <1>6, <1>7 DEF Goes, GoesOn

-----------------------------------------------------------------------------
(* The steps of expression_.                                               *)

DepthAt(kind, pc) == IF \/ pc \in {"block", "then", "case", "body", "else"}
                        \/ pc = "cond" /\ kind = "switch"
                     THEN 1 ELSE 0

LEMMA AtIs ==
  ASSUME TypeInv, NEW kind, NEW pc, At(kind, pc)
  PROVE  /\ phase = "ir" /\ frames # <<>> /\ Walk(frames, m)
         /\ top.node \in 1..Len(nodes) /\ node \in Node /\ node.kind = kind
         /\ KindOf(top) = kind /\ top.pc = pc /\ top \in Frame
         /\ Operands(kind, Len(node.sub)) /\ Within(node.sub, nodes)
         /\ Placed(top, kind, Len(node.sub), Len(m.term))
         /\ Waiting(top) = ToCome(kind, pc)
         /\ IsLoop(top) <=> kind = "loop" /\ pc # "visit"
         /\ Depth(top) = DepthAt(kind, pc)
<1>1. phase = "ir" /\ frames # <<>> /\ Walk(frames, m) /\ Expressions(nodes)
      /\ node.kind = kind /\ top.pc = pc
  BY DEF TypeInv, Forming, At
<1>2. Calling(top, Len(m.term))
  BY <1>1, TopIs
<1>3. top.node \in 1..Len(nodes) /\ top \in Frame
  BY <1>2 DEF Calling
<1>4. node \in Node
  BY <1>1, <1>3, OperandTyped DEF node
<1>5. KindOf(top) = kind
  BY <1>1 DEF KindOf, node
<1>6. Operands(kind, Len(node.sub)) /\ Within(node.sub, nodes)
  BY <1>1, <1>3 DEF Expressions, node
<1>7. Placed(top, kind, Len(node.sub), Len(m.term))
  BY <1>2, <1>5 DEF Calling, node
<1>8. /\ Waiting(top) = ToCome(kind, pc)
      /\ IsLoop(top) <=> kind = "loop" /\ pc # "visit"
      /\ Depth(top) = DepthAt(kind, pc)
  BY <1>1, <1>5 DEF Waiting, IsLoop, Depth, DepthAt
<1> QED
  BY <1>1, <1>3, <1>4, <1>5, <1>6, <1>7, <1>8

LEMMA ClosedIs ==
  ASSUME NEW g, Emitting(g), NEW r, Closes(g, r)
  PROVE  Emitting(r) /\ Len(r.term) = Len(g.term) /\ Len(g.term) \in Nat /\ r \in Generator
<1>1. Len(g.term) \in Nat /\ 0 \in 0..Len(g.term)
  BY GeneratorIs DEF Emitting
<1> QED
  BY <1>1 DEF Emitting, Closes

(* A call that has no scope of its own gives a value.                      *)
LEMMA ReturnsFlat ==
  ASSUME TypeInv, frames # <<>>, Depth(top) = 0, ~IsLoop(top),
         NEW g, g = m \/ Closes(m, g)
  PROVE  Returns(g)
<1>1. /\ Emitting(m) /\ Len(m.term) \in Nat /\ m.locals = m.unclosed + top.base + Depth(top)
      /\ m.loop.end = EndOf(frames, Len(frames) - 1)
      /\ Calling(top, Len(m.term)) /\ m \in Generator
  BY TopIs DEF TypeInv
<1>2. Emitting(g) /\ Extends(m, g) /\ Own(g.insert) /\ Alike(m, g)
  <2>1. CASE g = m
    BY <1>1, <2>1 DEF Extends, Own, Alike
  <2>2. CASE Closes(m, g)
    BY <1>1, <2>2, ClosedIs DEF Closes, Own
  <2> QED
    BY <2>1, <2>2
<1>3. m.unclosed + top.base + 0 = m.unclosed + top.base
  <2>1. m.unclosed \in Nat /\ top.base \in Nat
    BY <1>1, GeneratorIs, CallingIs
  <2> QED
    BY <2>1
<1> QED
  BY <1>1, <1>2, <1>3 DEF Returns, Alike

LEMMA NoneConstTyped == NoneConst \in Value
BY DEF NoneConst, Value

LEMMA SkipStep == ASSUME TypeInv, Skip PROVE Goes
<1>1. phase = "ir" /\ frames # <<>> /\ top.pc = "visit" /\ Give(NoneConst, m)
  BY DEF Skip
<1>2. Depth(top) = 0 /\ ~IsLoop(top)
  BY <1>1 DEF Depth, IsLoop
<1> QED
  BY <1>1, <1>2, ReturnsFlat, NoneConstTyped, GiveStep

LEMMA CallStep == ASSUME TypeInv, Call PROVE Goes
<1>1. PICK v : v = [ty |-> "value", real |-> TRUE, def |-> m.insert]
  OBVIOUS
<1>2. At("call", "visit") /\ Give(v, m)
  BY <1>1 DEF Call, Visiting
<1>3. phase = "ir" /\ frames # <<>> /\ Depth(top) = 0 /\ ~IsLoop(top) /\ Walk(frames, m)
  BY <1>2, AtIs DEF DepthAt
<1>4. v \in Value
  <2>1. m.insert \in Nat
    BY <1>3, TopIs, GeneratorIs
  <2> QED
    BY <1>1, <2>1 DEF Value
<1> QED
  BY <1>2, <1>3, <1>4, ReturnsFlat, GiveStep

LEMMA NoneLiteralStep == ASSUME TypeInv, NoneLiteral PROVE Goes
<1>1. At("none", "visit") /\ Give(NoneConst, m)
  BY DEF NoneLiteral, Visiting
<1>2. phase = "ir" /\ frames # <<>> /\ Depth(top) = 0 /\ ~IsLoop(top)
  BY <1>1, AtIs DEF DepthAt
<1> QED
  BY <1>1, <1>2, ReturnsFlat, NoneConstTyped, GiveStep

(* A call goes on without a scope and without a block of its own.          *)
LEMMA GoesOnFlat ==
  ASSUME TypeInv, frames # <<>>, Depth(top) = 0, ~IsLoop(top), NEW f,
         Calling(f, Len(m.term)), f.base = top.base, Waiting(f) = {}, ~IsLoop(f), Depth(f) = 0
  PROVE  GoesOn(f, m)
<1>1. /\ Emitting(m) /\ Len(m.term) \in Nat /\ m.locals = m.unclosed + top.base + Depth(top)
      /\ m.loop.end = EndOf(frames, Len(frames) - 1)
  BY TopIs DEF TypeInv
<1>2. Extends(m, m) /\ Own(m.insert)
  BY <1>1 DEF Extends, Own
<1>3. Untouched(f, m) /\ Distinct(f)
  BY DEF Untouched, Distinct
<1> QED
  BY <1>1, <1>2, <1>3 DEF GoesOn

(* Where a call goes on, when it is still the same call.                   *)
LEMMA MovedIs ==
  ASSUME TypeInv, frames # <<>>, NEW pc \in Places, NEW f, f = [top EXCEPT !.pc = pc]
  PROVE  /\ f \in Frame /\ f.node = top.node /\ f.pc = pc /\ f.base = top.base
         /\ f.blocks = top.blocks /\ f.case = top.case /\ f.incoming = top.incoming
         /\ f.outer = top.outer /\ KindOf(f) = KindOf(top)
         /\ Waiting(f) = ToCome(KindOf(top), pc)
         /\ Depth(f) = DepthAt(KindOf(top), pc)
         /\ IsLoop(f) <=> KindOf(top) = "loop" /\ pc # "visit"
         /\ \A n : Placed(f, KindOf(top), Len(nodes[top.node].sub), n) => Calling(f, n)
<1>1. top \in Frame /\ top.node \in 1..Len(nodes)
  BY TopIs, CallingIs DEF TypeInv
<1>2. /\ f \in Frame /\ f.node = top.node /\ f.pc = pc /\ f.base = top.base
      /\ f.blocks = top.blocks /\ f.case = top.case /\ f.incoming = top.incoming
      /\ f.outer = top.outer
  BY <1>1 DEF Frame
<1>3. KindOf(f) = KindOf(top)
  BY <1>2 DEF KindOf
<1> QED
  BY <1>1, <1>2, <1>3 DEF Waiting, Depth, DepthAt, IsLoop, Calling

LEMMA OperandIs ==
  ASSUME TypeInv, NEW kind, NEW pc, At(kind, pc), NEW i, i \in 1..Len(node.sub)
  PROVE  node.sub[i] \in 1..Len(nodes)
BY AtIs DEF Within

LEMMA EnterReturnStep == ASSUME TypeInv, EnterReturn PROVE Goes
<1>1. PICK f : f = [top EXCEPT !.pc = "return"]
  OBVIOUS
<1>2. PICK e : e = node.sub[1]
  OBVIOUS
<1>3. At("return", "visit") /\ Evaluate(e, f, m)
  BY <1>1, <1>2 DEF EnterReturn, Visiting
<1>4. /\ phase = "ir" /\ frames # <<>> /\ KindOf(top) = "return" /\ Len(node.sub) = 1
      /\ Placed(top, "return", Len(node.sub), Len(m.term))
      /\ Depth(top) = 0 /\ ~IsLoop(top)
  BY <1>3, AtIs DEF Operands, DepthAt
<1>5. e \in 1..Len(nodes)
  <2>1. 1 \in 1..Len(node.sub)
    BY <1>4
  <2> QED
    BY <1>2, <1>3, <2>1, OperandIs
<1>6. "return" \in Places
  BY DEF Places
<1>7. /\ f.base = top.base /\ Waiting(f) = {} /\ Depth(f) = 0 /\ ~IsLoop(f)
      /\ f.case = top.case /\ f.pc = "return"
      /\ \A n : Placed(f, "return", Len(node.sub), n) => Calling(f, n)
  BY <1>1, <1>4, <1>6, MovedIs DEF ToCome, DepthAt, node
<1>8. Calling(f, Len(m.term))
  BY <1>4, <1>7 DEF Placed, PlacesOf, HasBlocks
<1>9. GoesOn(f, m)
  BY <1>4, <1>7, <1>8, GoesOnFlat
<1> QED
  BY <1>3, <1>4, <1>5, <1>9, EvaluateStep

LEMMA ReturnStep == ASSUME TypeInv, Return PROVE Goes
<1>1. PICK g : g = BuildReturn(m, result)
  OBVIOUS
<1>2. At("return", "return") /\ Give(NoneConst, g)
  BY <1>1 DEF Return
<1>3. phase = "ir" /\ frames # <<>> /\ Depth(top) = 0 /\ ~IsLoop(top)
  BY <1>2, AtIs DEF DepthAt
<1>4. Closes(m, g)
  BY <1>1, BuildReturnIs DEF TypeInv, Walk
<1> QED
  BY <1>2, <1>3, <1>4, ReturnsFlat, NoneConstTyped, GiveStep

LEMMA JumpIs ==
  ASSUME NEW g, Emitting(g), NEW r, r = Jump(g)
  PROVE  Closes(g, r)
<1>1. g.loop.end \in Nat
  BY DEF Emitting, Generator, LoopData
<1> QED
  BY <1>1, UnconditionalBranchIs DEF Jump

LEMMA EnterBreakStep == ASSUME TypeInv, EnterBreak PROVE Goes
<1>1. At("break", "visit")
  BY DEF EnterBreak, Visiting
<1>2. /\ phase = "ir" /\ frames # <<>> /\ KindOf(top) = "break" /\ Len(node.sub) = 1
      /\ Placed(top, "break", Len(node.sub), Len(m.term))
      /\ Depth(top) = 0 /\ ~IsLoop(top)
  BY <1>1, AtIs DEF Operands, DepthAt
<1>3. CASE m.loop.phi
  <2>1. PICK f : f = [top EXCEPT !.pc = "break"]
    OBVIOUS
  <2>2. PICK e : e = node.sub[1]
    OBVIOUS
  <2>3. Evaluate(e, f, m)
    BY <1>3, <2>1, <2>2 DEF EnterBreak
  <2>4. e \in 1..Len(nodes)
    <3>1. 1 \in 1..Len(node.sub)
      BY <1>2
    <3> QED
      BY <1>1, <2>2, <3>1, OperandIs
  <2>5. "break" \in Places
    BY DEF Places
  <2>6. /\ f.base = top.base /\ Waiting(f) = {} /\ Depth(f) = 0 /\ ~IsLoop(f)
        /\ f.case = top.case /\ f.pc = "break"
        /\ \A n : Placed(f, "break", Len(node.sub), n) => Calling(f, n)
    BY <1>2, <2>1, <2>5, MovedIs DEF ToCome, DepthAt, node
  <2>7. Calling(f, Len(m.term))
    BY <1>2, <2>6 DEF Placed, PlacesOf, HasBlocks
  <2>8. GoesOn(f, m)
    BY <1>2, <2>6, <2>7, GoesOnFlat
  <2> QED
    BY <1>2, <2>3, <2>4, <2>8, EvaluateStep
<1>4. CASE ~m.loop.phi
  <2>1. PICK g : g = Jump(m)
    OBVIOUS
  <2>2. Closes(m, g)
    BY <2>1, JumpIs DEF TypeInv, Walk
  <2>3. Give(NoneConst, g)
    BY <1>4, <2>1 DEF EnterBreak
  <2> QED
    BY <1>2, <2>2, <2>3, ReturnsFlat, NoneConstTyped, GiveStep
<1> QED
  BY <1>3, <1>4

LEMMA BreakStep == ASSUME TypeInv, Break PROVE Goes
<1>1. PICK in : in = [v |-> result, b |-> m.last]
  OBVIOUS
<1>2. PICK h : h = [m EXCEPT !.loop.nodes = Append(@, in)]
  OBVIOUS
<1>3. PICK g : g = Jump(h)
  OBVIOUS
<1>4. At("break", "break") /\ Give(NoneConst, g)
  BY <1>1, <1>2, <1>3 DEF Break
<1>5. /\ phase = "ir" /\ frames # <<>> /\ Walk(frames, m) /\ Depth(top) = 0 /\ ~IsLoop(top)
  BY <1>4, AtIs DEF DepthAt
<1>6. m \in Generator /\ Emitting(m) /\ Len(m.term) \in Nat
  BY <1>5, TopIs
<1>7. PICK l : l = [m.loop EXCEPT !.nodes = Append(@, in)]
  OBVIOUS
<1>8. l \in LoopData /\ l.end = m.loop.end
  <2>1. m.loop \in LoopData /\ m.last \in Nat
    BY <1>6, GeneratorIs
  <2>2. in \in Incoming
    BY <1>1, <2>1 DEF Incoming, TypeInv
  <2>3. PICK s : s = m.loop.nodes
    OBVIOUS
  <2>4. PICK r : r = Append(s, in)
    OBVIOUS
  <2>5. s \in Seq(Incoming)
    BY <2>1, <2>3 DEF LoopData
  <2>6. r \in Seq(Incoming)
    BY <2>2, <2>4, <2>5, Appended
  <2>7. l = [m.loop EXCEPT !.nodes = r]
    BY <1>7, <2>3, <2>4
  <2> QED
    BY <2>1, <2>6, <2>7 DEF LoopData
<1>9. h = [m EXCEPT !.loop = l]
  BY <1>2, <1>7
<1>10. /\ h \in Generator /\ h.term = m.term /\ h.insert = m.insert /\ h.locals = m.locals
       /\ h.unclosed = m.unclosed /\ h.loop = l
  BY <1>6, <1>8, <1>9 DEF Generator
<1>11. Emitting(h)
  BY <1>6, <1>10 DEF Emitting
<1>12. Closes(h, g)
  BY <1>3, <1>11, JumpIs
<1>13. Returns(g)
  <2>1. Emitting(g) /\ g.insert = 0 /\ Extends(m, g) /\ Own(g.insert)
    BY <1>10, <1>11, <1>12, ClosedIs DEF Closes, Extends, Own
  <2>2. /\ m.locals = m.unclosed + top.base + 0 /\ m.unclosed \in Nat /\ top.base \in Nat
        /\ m.loop.end = EndOf(frames, Len(frames) - 1)
    BY <1>5, TopIs, GeneratorIs, CallingIs
  <2>3. m.locals = m.unclosed + top.base
    BY ONLY <2>2
  <2> QED
    BY <1>8, <1>10, <1>12, <2>1, <2>2, <2>3 DEF Returns, Closes, Alike
<1> QED
  BY <1>4, <1>5, <1>13, NoneConstTyped, GiveStep

LEMMA SameCall ==
  ASSUME TypeInv, frames # <<>>, NEW f \in Frame, f.node = top.node
  PROVE  /\ KindOf(f) = KindOf(top) /\ Waiting(f) = ToCome(KindOf(top), f.pc)
         /\ Depth(f) = DepthAt(KindOf(top), f.pc)
         /\ IsLoop(f) <=> KindOf(top) = "loop" /\ f.pc # "visit"
         /\ \A n : Placed(f, KindOf(top), Len(node.sub), n) => Calling(f, n)
<1>1. top.node \in 1..Len(nodes)
  BY TopIs, CallingIs DEF TypeInv
<1>2. KindOf(f) = KindOf(top)
  BY DEF KindOf
<1> QED
  BY <1>1, <1>2 DEF Waiting, Depth, DepthAt, IsLoop, Calling, node

LEMMA TopScope ==
  ASSUME TypeInv, frames # <<>>
  PROVE  /\ m.locals \in Nat /\ m.unclosed \in Nat /\ top.base \in Nat
         /\ Depth(top) = 0 => /\ m.locals = m.unclosed + top.base
                              /\ m.locals = m.unclosed + top.base + 0
                              /\ m.locals + 1 = m.unclosed + top.base + 1
         /\ Depth(top) = 1 => /\ m.locals > 0 /\ m.locals - 1 = m.unclosed + top.base
                              /\ m.locals - 1 = m.unclosed + top.base + 0
                              /\ m.locals = m.unclosed + top.base + 1
                              /\ m.locals - 1 + 1 = m.unclosed + top.base + 1
                              /\ m.locals + 1 = (m.unclosed + 1) + top.base + 1
<1>1. m.locals = m.unclosed + top.base + Depth(top) /\ m \in Generator
      /\ Calling(top, Len(m.term))
  BY TopIs DEF TypeInv
<1>2. m.locals \in Nat /\ m.unclosed \in Nat /\ top.base \in Nat /\ Depth(top) \in {0, 1}
  BY <1>1, GeneratorIs, CallingIs
<1>3. PICK d : d = Depth(top)
  OBVIOUS
<1>4. PICK b : b = top.base
  OBVIOUS
<1>5. PICK u : u = m.unclosed
  OBVIOUS
<1>6. PICK l : l = m.locals
  OBVIOUS
<1>7. l = u + b + d /\ l \in Nat /\ u \in Nat /\ b \in Nat /\ d \in {0, 1}
  BY <1>1, <1>2, <1>3, <1>4, <1>5, <1>6
<1>8. d = 0 => l = u + b /\ l = u + b + 0 /\ l + 1 = u + b + 1
  BY ONLY <1>7
<1>9. d = 1 => /\ l > 0 /\ l - 1 = u + b /\ l - 1 = u + b + 0 /\ l = u + b + 1
               /\ l - 1 + 1 = u + b + 1 /\ l + 1 = (u + 1) + b + 1
  BY ONLY <1>7
<1> QED
  BY <1>3, <1>4, <1>5, <1>6, <1>7, <1>8, <1>9

LEMMA EnterBlockStep == ASSUME TypeInv, EnterBlock PROVE Goes
<1>1. PICK f : f = [top EXCEPT !.pc = "block"]
  OBVIOUS
<1>2. PICK e : e = node.sub[1]
  OBVIOUS
<1>3. PICK g : g = PushLocalScope(m)
  OBVIOUS
<1>4. At("block", "visit") /\ Evaluate(e, f, g)
  BY <1>1, <1>2, <1>3 DEF EnterBlock, Visiting
<1>5. /\ phase = "ir" /\ frames # <<>> /\ KindOf(top) = "block" /\ Len(node.sub) = 2
      /\ Placed(top, "block", Len(node.sub), Len(m.term)) /\ Walk(frames, m)
      /\ Depth(top) = 0 /\ ~IsLoop(top)
  BY <1>4, AtIs DEF Operands, DepthAt
<1>6. e \in 1..Len(nodes)
  <2>1. 1 \in 1..Len(node.sub)
    BY <1>5
  <2> QED
    BY <1>2, <1>4, <2>1, OperandIs
<1>7. "block" \in Places
  BY DEF Places
<1>8. /\ f.base = top.base /\ Waiting(f) = {} /\ Depth(f) = 1 /\ ~IsLoop(f)
      /\ f.case = top.case /\ f.pc = "block"
      /\ \A n : Placed(f, "block", Len(node.sub), n) => Calling(f, n)
  BY <1>1, <1>5, <1>7, MovedIs DEF ToCome, DepthAt, node
<1>9. /\ m \in Generator /\ Emitting(m) /\ Len(m.term) \in Nat
      /\ m.loop.end = EndOf(frames, Len(frames) - 1)
  BY <1>5, TopIs
<1>10. /\ g \in Generator /\ g.term = m.term /\ g.insert = m.insert
       /\ g.unclosed = m.unclosed /\ g.loop = m.loop /\ g.locals = m.locals + 1
  BY <1>3, <1>9, PushIs
<1>11. Calling(f, Len(g.term))
  BY <1>5, <1>8, <1>10 DEF Placed, PlacesOf, HasBlocks
<1>12. Emitting(g) /\ Extends(m, g) /\ Own(g.insert)
  BY <1>9, <1>10 DEF Emitting, Extends, Own
<1>13. g.locals = g.unclosed + f.base + Depth(f)
  BY <1>5, <1>8, <1>10, TopScope
<1>14. GoesOn(f, g)
  BY <1>8, <1>9, <1>10, <1>11, <1>12, <1>13 DEF GoesOn, Untouched, Distinct
<1> QED
  BY <1>4, <1>5, <1>6, <1>14, EvaluateStep

LEMMA NextInBlockStep == ASSUME TypeInv, NextInBlock PROVE Goes
<1>1. At("block", "block")
  BY DEF NextInBlock
<1>2. /\ phase = "ir" /\ frames # <<>> /\ KindOf(top) = "block" /\ Len(node.sub) = 2
      /\ Placed(top, "block", Len(node.sub), Len(m.term)) /\ Walk(frames, m)
      /\ Depth(top) = 1 /\ ~IsLoop(top) /\ top \in Frame /\ top.pc = "block"
  BY <1>1, AtIs DEF Operands, DepthAt
<1>3. /\ m \in Generator /\ Emitting(m) /\ Len(m.term) \in Nat
      /\ m.loop.end = EndOf(frames, Len(frames) - 1)
  BY <1>2, TopIs
<1>4. CASE top.case < Len(node.sub)
  <2>1. PICK c : c = top.case + 1
    OBVIOUS
  <2>2. c = 2 /\ c \in Nat /\ c \in 1..2
    BY <1>2, <1>4, <2>1 DEF Placed
  <2>3. PICK f : f = [top EXCEPT !.case = c]
    OBVIOUS
  <2>4. PICK e : e = node.sub[c]
    OBVIOUS
  <2>5. Evaluate(e, f, m)
    BY <1>4, <2>1, <2>3, <2>4 DEF NextInBlock
  <2>6. e \in 1..Len(nodes)
    BY <1>1, <1>2, <2>2, <2>4, OperandIs
  <2>7. f \in Frame /\ f.node = top.node /\ f.base = top.base /\ f.pc = "block" /\ f.case = c
    BY <1>2, <2>2, <2>3 DEF Frame
  <2>8. /\ Waiting(f) = {} /\ Depth(f) = 1 /\ ~IsLoop(f)
        /\ \A n : Placed(f, "block", Len(node.sub), n) => Calling(f, n)
    BY <1>2, <2>7, SameCall DEF ToCome, DepthAt
  <2>9. Calling(f, Len(m.term))
    BY <2>2, <2>7, <2>8 DEF Placed, PlacesOf, HasBlocks
  <2>10. Extends(m, m) /\ Own(m.insert)
    BY <1>3 DEF Extends, Own
  <2>11. m.locals = m.unclosed + f.base + Depth(f)
    BY <1>2, <2>7, <2>8, TopScope
  <2>12. GoesOn(f, m)
    BY <1>3, <2>7, <2>8, <2>9, <2>10, <2>11 DEF GoesOn, Untouched, Distinct
  <2> QED
    BY <1>2, <2>5, <2>6, <2>12, EvaluateStep
<1>5. CASE ~(top.case < Len(node.sub))
  <2>1. PICK g : g = PopLocals(m)
    OBVIOUS
  <2>2. Give(result, g)
    BY <1>5, <2>1 DEF NextInBlock
  <2>3. m.locals > 0 /\ m.locals - 1 = m.unclosed + top.base
    BY <1>2, TopScope
  <2>4. /\ g \in Generator /\ g.term = m.term /\ g.insert = m.insert
        /\ g.unclosed = m.unclosed /\ g.loop = m.loop /\ g.locals = m.locals - 1
    BY <1>3, <2>1, <2>3, PopIs
  <2>5. Emitting(g) /\ Extends(m, g) /\ Own(g.insert)
    BY <1>3, <2>4 DEF Emitting, Extends, Own
  <2>6. Returns(g)
    BY <1>3, <2>3, <2>4, <2>5 DEF Returns
  <2>7. result \in Value
    BY DEF TypeInv
  <2> QED
    BY <1>2, <2>2, <2>6, <2>7, GiveStep
<1> QED
  BY <1>4, <1>5

LEMMA EnterIfStep == ASSUME TypeInv, EnterIf PROVE Goes
<1>1. PICK f : f = [top EXCEPT !.pc = "cond"]
  OBVIOUS
<1>2. PICK e : e = node.sub[1]
  OBVIOUS
<1>3. At("if", "visit") /\ Evaluate(e, f, m)
  BY <1>1, <1>2 DEF EnterIf, Visiting
<1>4. /\ phase = "ir" /\ frames # <<>> /\ KindOf(top) = "if" /\ Len(node.sub) = 3
      /\ Placed(top, "if", Len(node.sub), Len(m.term))
      /\ Depth(top) = 0 /\ ~IsLoop(top)
  BY <1>3, AtIs DEF Operands, DepthAt
<1>5. e \in 1..Len(nodes)
  <2>1. 1 \in 1..Len(node.sub)
    BY <1>4
  <2> QED
    BY <1>2, <1>3, <2>1, OperandIs
<1>6. "cond" \in Places
  BY DEF Places
<1>7. /\ f.base = top.base /\ Waiting(f) = {} /\ Depth(f) = 0 /\ ~IsLoop(f)
      /\ f.case = top.case /\ f.pc = "cond"
      /\ \A n : Placed(f, "if", Len(node.sub), n) => Calling(f, n)
  BY <1>1, <1>4, <1>6, MovedIs DEF ToCome, DepthAt, node
<1>8. Calling(f, Len(m.term))
  BY <1>4, <1>7 DEF Placed, PlacesOf, HasBlocks
<1>9. GoesOn(f, m)
  BY <1>4, <1>7, <1>8, GoesOnFlat
<1> QED
  BY <1>3, <1>4, <1>5, <1>9, EvaluateStep

LEMMA FreshIs ==
  ASSUME Len(m.term) \in Nat
  PROVE  /\ FreshBlocks \in Seq(Nat) /\ Len(FreshBlocks) = 3
         /\ \A i \in 1..3 : /\ FreshBlocks[i] = Fresh(i) /\ Fresh(i) \in 1..(Len(m.term) + 3)
                            /\ Fresh(i) \in Nat \ {0} /\ Fresh(i) > Len(m.term)
                            /\ Own(Fresh(i))
         /\ \A i, j \in 1..3 : i # j => Fresh(i) # Fresh(j)
<1>1. \A i \in 1..3 : /\ Fresh(i) \in 1..(Len(m.term) + 3)
                      /\ Fresh(i) \in Nat \ {0} /\ Fresh(i) > Len(m.term)
  BY DEF Fresh
<1>2. \A i, j \in 1..3 : i # j => Fresh(i) # Fresh(j)
  BY DEF Fresh
<1>3. \A i \in 1..3 : i = 1 \/ i = 2 \/ i = 3
  OBVIOUS
<1>4. PICK a : a = Fresh(1)
  OBVIOUS
<1>5. PICK b : b = Fresh(2)
  OBVIOUS
<1>6. PICK c : c = Fresh(3)
  OBVIOUS
<1>7. a \in Nat /\ b \in Nat /\ c \in Nat
  <2>1. 1 \in 1..3 /\ 2 \in 1..3 /\ 3 \in 1..3
    OBVIOUS
  <2> QED
    BY <1>1, <1>4, <1>5, <1>6, <2>1
<1>8. FreshBlocks = <<a, b, c>>
  BY <1>4, <1>5, <1>6 DEF FreshBlocks
<1>9. /\ <<a, b, c>> \in Seq(Nat) /\ Len(<<a, b, c>>) = 3
      /\ <<a, b, c>>[1] = a /\ <<a, b, c>>[2] = b /\ <<a, b, c>>[3] = c
  BY ONLY <1>7
<1>10. \A i \in 1..3 : FreshBlocks[i] = Fresh(i)
  BY <1>3, <1>4, <1>5, <1>6, <1>8, <1>9
<1>11. \A i \in 1..3 : Own(Fresh(i))
  BY <1>1 DEF Own
<1> QED
  BY <1>1, <1>2, <1>8, <1>9, <1>10, <1>11

(* The block is ended after new ones have been made.                       *)
LEMMA ClosedWithFresh ==
  ASSUME Emitting(m), NEW k \in Nat, NEW a, a = AppendBlocks(m, k), NEW g, Closes(a, g)
  PROVE  /\ Emitting(g) /\ g \in Generator /\ g.insert = 0 /\ Extends(m, g) /\ Alike(m, g)
         /\ Len(g.term) = Len(m.term) + k
         /\ \A i \in 1..k : g.term[Fresh(i)] = Open
<1>1. /\ Len(m.term) \in Nat /\ m.insert \in 0..Len(m.term)
  BY GeneratorIs DEF Emitting
<1>2. /\ Emitting(a) /\ a.insert = m.insert /\ Alike(m, a)
      /\ Len(a.term) = Len(m.term) + k
      /\ \A b \in 1..Len(m.term) : a.term[b] = m.term[b]
      /\ \A i \in 1..k : a.term[Len(m.term) + i] = Open
  BY AppendBlocksIs
<1>3. Emitting(g) /\ Len(g.term) = Len(a.term) /\ g \in Generator
  BY <1>2, ClosedIs
<1>4. \A i \in 1..k : g.term[Fresh(i)] = Open
  <2> SUFFICES ASSUME NEW i \in 1..k
               PROVE  g.term[Fresh(i)] = Open
    OBVIOUS
  <2>1. PICK b : b = Len(m.term) + i
    OBVIOUS
  <2>2. b \in 1..(Len(m.term) + k) /\ b # m.insert
    BY <1>1, <2>1
  <2>3. g.term[b] = a.term[b]
    BY <1>2, <2>2 DEF Closes, Extends
  <2> QED
    BY <1>2, <2>1, <2>3 DEF Fresh
<1>5. Extends(m, g)
  <2>1. Len(m.term) <= Len(m.term) + k /\ \A b \in 1..Len(m.term) : b \in 1..(Len(m.term) + k)
    BY <1>1
  <2> QED
    BY <1>2, <1>3, <2>1 DEF Closes, Extends
<1> QED
  BY <1>2, <1>3, <1>4, <1>5 DEF Closes, Alike

LEMMA IfConditionStep == ASSUME TypeInv, IfCondition PROVE Goes
<1>1. PICK f : f = [top EXCEPT !.pc = "then", !.blocks = FreshBlocks]
  OBVIOUS
<1>2. PICK e : e = node.sub[2]
  OBVIOUS
<1>3. PICK a : a = AppendBlocks(m, 3)
  OBVIOUS
<1>4. PICK c : c = ConditionalBranch(a, result, Fresh(1), Fresh(2))
  OBVIOUS
<1>5. PICK h : h = PositionAt(c, Fresh(1))
  OBVIOUS
<1>6. PICK g : g = PushLocalScope(h)
  OBVIOUS
<1>7. At("if", "cond") /\ Evaluate(e, f, g)
  BY <1>1, <1>2, <1>3, <1>4, <1>5, <1>6 DEF IfCondition
<1>8. /\ phase = "ir" /\ frames # <<>> /\ KindOf(top) = "if" /\ Len(node.sub) = 3
      /\ Placed(top, "if", Len(node.sub), Len(m.term)) /\ Walk(frames, m)
      /\ Depth(top) = 0 /\ ~IsLoop(top) /\ top \in Frame
  BY <1>7, AtIs DEF Operands, DepthAt
<1>9. e \in 1..Len(nodes)
  <2>1. 2 \in 1..Len(node.sub)
    BY <1>8
  <2> QED
    BY <1>2, <1>7, <2>1, OperandIs
<1>10. /\ m \in Generator /\ Emitting(m) /\ Len(m.term) \in Nat
       /\ m.loop.end = EndOf(frames, Len(frames) - 1)
  BY <1>8, TopIs
<1>11. /\ FreshBlocks \in Seq(Nat) /\ Len(FreshBlocks) = 3
       /\ \A i \in 1..3 : /\ FreshBlocks[i] = Fresh(i) /\ Fresh(i) \in 1..(Len(m.term) + 3)
                          /\ Fresh(i) \in Nat \ {0} /\ Own(Fresh(i))
       /\ \A i, j \in 1..3 : i # j => Fresh(i) # Fresh(j)
  BY <1>10, FreshIs
<1>12. 1 \in 1..3 /\ 2 \in 1..3 /\ 3 \in 1..3 /\ 3 \in Nat
  OBVIOUS
<1>13. Closes(a, c)
  <2>1. Emitting(a)
    BY <1>3, <1>10, <1>12, AppendBlocksIs
  <2>2. result \in Value /\ Fresh(1) \in Nat /\ Fresh(2) \in Nat
    BY <1>11, <1>12 DEF TypeInv
  <2> QED
    BY <1>4, <2>1, <2>2, ConditionalBranchIs
<1>14. /\ Emitting(c) /\ c \in Generator /\ Extends(m, c) /\ Alike(m, c)
       /\ Len(c.term) = Len(m.term) + 3 /\ \A i \in 1..3 : c.term[Fresh(i)] = Open
  BY <1>3, <1>10, <1>12, <1>13, ClosedWithFresh
<1>15. Emitting(h) /\ h.term = c.term /\ h.insert = Fresh(1) /\ Alike(c, h)
  BY <1>5, <1>11, <1>12, <1>14, PositionIs
<1>16. /\ g \in Generator /\ g.term = h.term /\ g.insert = h.insert
       /\ g.unclosed = h.unclosed /\ g.loop = h.loop /\ g.locals = h.locals + 1
  BY <1>6, <1>15, PushIs DEF Emitting
<1>17. Emitting(g) /\ Extends(m, g) /\ Own(g.insert)
  BY <1>11, <1>12, <1>14, <1>15, <1>16 DEF Emitting, Extends
<1>18. "then" \in Places
  BY DEF Places
<1>19. /\ f \in Frame /\ f.node = top.node /\ f.base = top.base /\ f.pc = "then"
       /\ f.blocks = FreshBlocks
  BY <1>1, <1>8, <1>11, <1>18 DEF Frame
<1>20. /\ Waiting(f) = {2, 3} /\ Depth(f) = 1 /\ ~IsLoop(f)
       /\ \A n : Placed(f, "if", Len(node.sub), n) => Calling(f, n)
  BY <1>8, <1>19, SameCall DEF ToCome, DepthAt
<1>21. Calling(f, Len(g.term))
  BY <1>11, <1>14, <1>15, <1>16, <1>19, <1>20 DEF Placed, PlacesOf
<1>22. Untouched(f, g) /\ Distinct(f) /\ \A j \in Waiting(f) : Own(f.blocks[j])
  <2>1. \A j \in {2, 3} : j \in 1..3 /\ j # 1
    OBVIOUS
  <2> QED
    BY <1>11, <1>12, <1>14, <1>15, <1>16, <1>19, <1>20, <2>1 DEF Untouched, Distinct
<1>23. g.locals = g.unclosed + f.base + Depth(f)
  BY <1>8, <1>14, <1>15, <1>16, <1>19, <1>20, TopScope DEF Alike
<1>24. GoesOn(f, g)
  BY <1>10, <1>14, <1>15, <1>16, <1>17, <1>19, <1>20, <1>21, <1>22, <1>23 DEF GoesOn, Alike
<1> QED
  BY <1>7, <1>8, <1>9, <1>24, EvaluateStep

LEMMA PoppedIs ==
  ASSUME TypeInv, frames # <<>>, Depth(top) = 1, NEW p, p = PopLocals(m)
  PROVE  /\ p \in Generator /\ p.term = m.term /\ p.insert = m.insert
         /\ p.unclosed = m.unclosed /\ p.loop = m.loop /\ p.locals = m.locals - 1
         /\ Emitting(p)
<1>1. m \in Generator /\ Emitting(m)
  BY TopIs DEF TypeInv
<1>2. m.locals > 0
  BY TopScope
<1>3. /\ p \in Generator /\ p.term = m.term /\ p.insert = m.insert
      /\ p.unclosed = m.unclosed /\ p.loop = m.loop /\ p.locals = m.locals - 1
  BY <1>1, <1>2, PopIs
<1> QED
  BY <1>1, <1>3 DEF Emitting

(* When only the block inserted into ends, a call's blocks to come stay    *)
(* open.                                                                   *)
LEMMA StillWaiting ==
  ASSUME TypeInv, frames # <<>>, NEW r, Extends(m, r)
  PROVE  /\ Distinct(top)
         /\ \A j \in Waiting(top) : /\ r.term[top.blocks[j]] = Open
                                    /\ top.blocks[j] \in 1..Len(m.term)
                                    /\ top.blocks[j] \in Nat \ {0}
                                    /\ Own(top.blocks[j]) /\ top.blocks[j] # m.insert
<1>1. /\ Len(m.term) \in Nat
      /\ Calling(top, Len(m.term)) /\ Untouched(top, m) /\ Distinct(top)
  BY TopIs DEF TypeInv
<1>2. ASSUME NEW j \in Waiting(top)
      PROVE  /\ r.term[top.blocks[j]] = Open
             /\ top.blocks[j] \in 1..Len(m.term) /\ top.blocks[j] \in Nat \ {0}
             /\ Own(top.blocks[j]) /\ top.blocks[j] # m.insert
  <2>1. top.blocks[j] \in 1..Len(m.term) /\ top.blocks[j] \in Nat \ {0}
    BY <1>1, WaitingHasBlocks
  <2>2. m.term[top.blocks[j]] = Open /\ top.blocks[j] # m.insert
    BY <1>1 DEF Untouched
  <2>3. r.term[top.blocks[j]] = Open
    BY <2>1, <2>2 DEF Extends
  <2> QED
    BY <2>1, <2>2, <2>3 DEF Own
<1> QED
  BY <1>1, <1>2

(* The code after it goes to one of the blocks of the call.                *)
LEMMA GoToIs ==
  ASSUME TypeInv, frames # <<>>, NEW l, l \in Generator, Len(l.term) = Len(m.term),
         Extends(m, l), NEW j \in Waiting(top), NEW r, r = PositionAt(l, Block(j))
  PROVE  /\ Emitting(r) /\ r \in Generator /\ r.insert = top.blocks[j]
         /\ Len(r.term) = Len(m.term) /\ Own(r.insert)
         /\ Extends(m, r) /\ Alike(l, r)
         /\ \A k \in Waiting(top) : r.term[top.blocks[k]] = Open /\ Own(top.blocks[k])
<1>1. \A k \in Waiting(top) : /\ l.term[top.blocks[k]] = Open
                              /\ top.blocks[k] \in 1..Len(m.term)
                              /\ Own(top.blocks[k])
  BY StillWaiting
<1>2. r = PositionAt(l, top.blocks[j])
  BY DEF Block
<1>3. PICK c : c = top.blocks[j]
  OBVIOUS
<1>4. Emitting(r) /\ r.term = l.term /\ r.insert = c /\ Alike(l, r)
  BY <1>1, <1>2, <1>3, PositionIs
<1> QED
  BY <1>1, <1>3, <1>4 DEF Extends, Emitting

(* A branch, case or body ends: its scope is popped, its block ends.       *)
LEMMA LeaveToIs ==
  ASSUME TypeInv, frames # <<>>, Depth(top) = 1, NEW b \in Nat,
         NEW j \in Waiting(top), NEW r, r = PositionAt(LeaveBranch(m, b), Block(j))
  PROVE  /\ Emitting(r) /\ r \in Generator /\ r.insert = top.blocks[j]
         /\ Len(r.term) = Len(m.term) /\ Own(r.insert)
         /\ Extends(m, r) /\ r.locals = m.locals - 1 /\ r.unclosed = m.unclosed
         /\ r.loop = m.loop
         /\ \A k \in Waiting(top) : r.term[top.blocks[k]] = Open /\ Own(top.blocks[k])
<1>1. PICK p : p = PopLocals(m)
  OBVIOUS
<1>2. /\ p \in Generator /\ p.term = m.term /\ p.insert = m.insert /\ Emitting(p)
      /\ p.unclosed = m.unclosed /\ p.loop = m.loop /\ p.locals = m.locals - 1
  BY <1>1, PoppedIs
<1>3. PICK l : l = LeaveBranch(m, b)
  OBVIOUS
<1>4. Closes(p, l)
  BY <1>1, <1>2, <1>3, UnconditionalBranchIs DEF LeaveBranch
<1>5. l \in Generator /\ Len(l.term) = Len(m.term) /\ Extends(m, l) /\ Alike(p, l)
  BY <1>2, <1>4 DEF Closes, Extends
<1>6. r = PositionAt(l, Block(j))
  BY <1>3
<1>7. /\ Emitting(r) /\ r \in Generator /\ r.insert = top.blocks[j]
      /\ Len(r.term) = Len(m.term) /\ Own(r.insert)
      /\ Extends(m, r) /\ Alike(l, r)
      /\ \A k \in Waiting(top) : r.term[top.blocks[k]] = Open /\ Own(top.blocks[k])
  BY <1>5, <1>6, GoToIs
<1> QED
  BY <1>2, <1>5, <1>7 DEF Alike

LEMMA EndedTyped ==
  ASSUME TypeInv
  PROVE  /\ Ended \in Incoming /\ <<Ended>> \in Seq(Incoming)
         /\ \A s \in Seq(Incoming) : Append(s, Ended) \in Seq(Incoming)
<1>1. result \in Value /\ m.last \in Nat
  BY GeneratorIs DEF TypeInv, Walk, Emitting
<1>2. Ended \in Incoming
  BY <1>1 DEF Ended, Incoming
<1>3. PICK x : x = Ended
  OBVIOUS
<1>4. x \in Incoming
  BY <1>2, <1>3
<1>5. \A s \in Seq(Incoming) : Append(s, x) \in Seq(Incoming)
  BY <1>4, AppendProperties
<1>6. <<x>> \in Seq(Incoming)
  BY <1>4
<1> QED
  BY <1>2, <1>3, <1>5, <1>6

(* The values of the ways through an if, when or loop are merged.          *)
LEMMA MergeIs ==
  ASSUME NEW g, Returns(g), NEW in \in Seq(Incoming), NEW ty, NEW want,
         NEW r, r = BuildPhi(g, in, ty)
  PROVE  Returns(r) /\ From(PhiValue(g, in), want) \in Value
<1>1. g \in Generator /\ Emitting(g)
  BY DEF Returns, Emitting
<1>2. Records(g, r)
  BY <1>1, BuildPhiIs
<1>3. Emitting(r)
  BY <1>1, <1>2, RecordsIs
<1>4. Returns(r)
  BY <1>2, <1>3 DEF Returns, Records, Alike, Extends
<1>5. PhiValue(g, in) \in Value
  BY <1>1, PhiValueTyped
<1> QED
  BY <1>4, <1>5, FromTyped

LEMMA IfThenStep == ASSUME TypeInv, IfThen PROVE Goes
<1>1. PICK in : in = <<Ended>>
  OBVIOUS
<1>2. PICK f : f = [top EXCEPT !.pc = "else", !.incoming = in]
  OBVIOUS
<1>3. PICK e : e = node.sub[3]
  OBVIOUS
<1>4. PICK b : b = Block(3)
  OBVIOUS
<1>5. PICK h : h = PositionAt(LeaveBranch(m, b), Block(2))
  OBVIOUS
<1>6. PICK g : g = PushLocalScope(h)
  OBVIOUS
<1>7. At("if", "then") /\ Evaluate(e, f, g)
  BY <1>1, <1>2, <1>3, <1>4, <1>5, <1>6 DEF IfThen
<1>8. /\ phase = "ir" /\ frames # <<>> /\ KindOf(top) = "if" /\ Len(node.sub) = 3
      /\ Placed(top, "if", Len(node.sub), Len(m.term)) /\ Walk(frames, m)
      /\ Depth(top) = 1 /\ ~IsLoop(top) /\ top \in Frame /\ Waiting(top) = {2, 3}
      /\ top.pc = "then"
  BY <1>7, AtIs DEF Operands, DepthAt, ToCome
<1>9. e \in 1..Len(nodes)
  <2>1. 3 \in 1..Len(node.sub)
    BY <1>8
  <2> QED
    BY <1>3, <1>7, <2>1, OperandIs
<1>10. /\ Distinct(top) /\ m.loop.end = EndOf(frames, Len(frames) - 1)
       /\ b \in Nat
  <2>1. Calling(top, Len(m.term)) /\ Len(m.term) \in Nat /\ 3 \in Waiting(top)
    BY <1>8, TopIs
  <2>2. b \in Nat
    BY <1>4, <2>1, WaitingHasBlocks DEF Block
  <2> QED
    BY <1>8, <2>2, TopIs
<1>11. /\ Emitting(h) /\ h \in Generator /\ h.insert = top.blocks[2]
       /\ Len(h.term) = Len(m.term) /\ Own(h.insert)
       /\ Extends(m, h) /\ h.locals = m.locals - 1 /\ h.unclosed = m.unclosed
       /\ h.loop = m.loop
       /\ \A k \in Waiting(top) : h.term[top.blocks[k]] = Open /\ Own(top.blocks[k])
  <2>1. 2 \in Waiting(top)
    BY <1>8
  <2> QED
    BY <1>5, <1>8, <1>10, <2>1, LeaveToIs
<1>12. /\ g \in Generator /\ g.term = h.term /\ g.insert = h.insert
       /\ g.unclosed = h.unclosed /\ g.loop = h.loop /\ g.locals = h.locals + 1
  BY <1>6, <1>11, PushIs
<1>13. Emitting(g) /\ Extends(m, g) /\ Own(g.insert)
  BY <1>11, <1>12 DEF Emitting, Extends
<1>14. "else" \in Places
  BY DEF Places
<1>15. in \in Seq(Incoming)
  BY <1>1, EndedTyped
<1>16. /\ f \in Frame /\ f.node = top.node /\ f.base = top.base /\ f.pc = "else"
       /\ f.blocks = top.blocks
  BY <1>2, <1>8, <1>14, <1>15 DEF Frame
<1>17. /\ Waiting(f) = {3} /\ Depth(f) = 1 /\ ~IsLoop(f)
       /\ \A n : Placed(f, "if", Len(node.sub), n) => Calling(f, n)
  BY <1>8, <1>16, SameCall DEF ToCome, DepthAt
<1>18. Calling(f, Len(g.term))
  BY <1>8, <1>11, <1>12, <1>16, <1>17 DEF Placed, PlacesOf, HasBlocks
<1>19. Untouched(f, g) /\ Distinct(f) /\ \A j \in Waiting(f) : Own(f.blocks[j])
  <2>1. top.blocks[2] # top.blocks[3]
    BY <1>8, <1>10 DEF Distinct
  <2> QED
    BY <1>8, <1>11, <1>12, <1>16, <1>17, <2>1 DEF Untouched, Distinct
<1>20. g.locals = g.unclosed + f.base + Depth(f)
  BY <1>8, <1>11, <1>12, <1>16, <1>17, TopScope
<1>21. GoesOn(f, g)
  BY <1>8, <1>10, <1>11, <1>12, <1>13, <1>16, <1>17, <1>18, <1>19, <1>20 DEF GoesOn
<1> QED
  BY <1>7, <1>8, <1>9, <1>21, EvaluateStep

LEMMA IfElseStep == ASSUME TypeInv, IfElse PROVE Goes
<1>1. PICK b : b = Block(3)
  OBVIOUS
<1>2. PICK g : g = PositionAt(LeaveBranch(m, b), Block(3))
  OBVIOUS
<1>3. PICK in : in = Append(top.incoming, Ended)
  OBVIOUS
<1>4. At("if", "else")
  BY DEF IfElse
<1>5. /\ phase = "ir" /\ frames # <<>> /\ KindOf(top) = "if" /\ Walk(frames, m)
      /\ Depth(top) = 1 /\ ~IsLoop(top) /\ top \in Frame /\ Waiting(top) = {3}
  BY <1>4, AtIs DEF DepthAt, ToCome
<1>6. m.loop.end = EndOf(frames, Len(frames) - 1) /\ b \in Nat
  <2>1. Calling(top, Len(m.term)) /\ Len(m.term) \in Nat /\ 3 \in Waiting(top)
    BY <1>5, TopIs
  <2>2. b \in Nat
    BY <1>1, <2>1, WaitingHasBlocks DEF Block
  <2> QED
    BY <1>5, <2>2, TopIs
<1>7. Returns(g)
  <2>1. 3 \in Waiting(top)
    BY <1>5
  <2>2. /\ Emitting(g) /\ Own(g.insert)
        /\ Extends(m, g) /\ g.locals = m.locals - 1 /\ g.unclosed = m.unclosed
        /\ g.loop = m.loop
    BY <1>2, <1>5, <1>6, <2>1, LeaveToIs
  <2> QED
    BY <1>5, <1>6, <2>2, TopScope DEF Returns
<1>8. in \in Seq(Incoming)
  <2>1. top.incoming \in Seq(Incoming)
    BY <1>5 DEF Frame
  <2> QED
    BY <1>3, <2>1, EndedTyped
<1>9. CASE node.phi
  <2>1. PICK r : r = BuildPhi(g, in, node.ty)
    OBVIOUS
  <2>2. PICK v : v = From(PhiValue(g, in), Ty(node.sub[2]))
    OBVIOUS
  <2>3. Give(v, r)
    BY <1>1, <1>2, <1>3, <1>9, <2>1, <2>2 DEF IfElse
  <2>4. Returns(r) /\ v \in Value
    BY <1>7, <1>8, <2>1, <2>2, MergeIs
  <2> QED
    BY <1>5, <2>3, <2>4, GiveStep
<1>10. CASE ~node.phi
  <2>1. Give(NoneConst, g)
    BY <1>1, <1>2, <1>10 DEF IfElse
  <2> QED
    BY <1>5, <1>7, <2>1, NoneConstTyped, GiveStep
<1> QED
  BY <1>9, <1>10

LEMMA EnterSwitchStep == ASSUME TypeInv, EnterSwitch PROVE Goes
<1>1. PICK f : f = [top EXCEPT !.pc = "cond", !.blocks = FreshBlocks]
  OBVIOUS
<1>2. PICK e : e = node.sub[1]
  OBVIOUS
<1>3. PICK a : a = AppendBlocks(m, 3)
  OBVIOUS
<1>4. PICK g : g = PushLocalScope(a)
  OBVIOUS
<1>5. At("switch", "visit") /\ Evaluate(e, f, g)
  BY <1>1, <1>2, <1>3, <1>4 DEF EnterSwitch, Visiting
<1>6. /\ phase = "ir" /\ frames # <<>> /\ KindOf(top) = "switch" /\ Len(node.sub) \in {3, 5}
      /\ Placed(top, "switch", Len(node.sub), Len(m.term)) /\ Walk(frames, m)
      /\ Depth(top) = 0 /\ ~IsLoop(top) /\ top \in Frame /\ top.pc = "visit"
  BY <1>5, AtIs DEF Operands, DepthAt
<1>7. e \in 1..Len(nodes)
  <2>1. 1 \in 1..Len(node.sub)
    <3>1. 1 \in 1..3 /\ 1 \in 1..5
      OBVIOUS
    <3>2. Len(node.sub) \in {3, 5}
      BY <1>6
    <3> QED
      BY ONLY <3>1, <3>2
  <2> QED
    BY <1>2, <1>5, <2>1, OperandIs
<1>8. /\ m \in Generator /\ Emitting(m) /\ Len(m.term) \in Nat /\ m.insert \in 0..Len(m.term)
      /\ m.loop.end = EndOf(frames, Len(frames) - 1)
  BY <1>6, TopIs DEF Emitting
<1>9. /\ FreshBlocks \in Seq(Nat) /\ Len(FreshBlocks) = 3
      /\ \A i \in 1..3 : /\ FreshBlocks[i] = Fresh(i) /\ Fresh(i) \in 1..(Len(m.term) + 3)
                         /\ Fresh(i) > Len(m.term) /\ Fresh(i) \in Nat \ {0} /\ Own(Fresh(i))
      /\ \A i, j \in 1..3 : i # j => Fresh(i) # Fresh(j)
  BY <1>8, FreshIs
<1>10. /\ Emitting(a) /\ a.insert = m.insert /\ Alike(m, a) /\ Extends(m, a)
       /\ Len(a.term) = Len(m.term) + 3
       /\ \A i \in 1..3 : a.term[Fresh(i)] = Open
  <2>1. PICK k \in Nat : k = 3
    OBVIOUS
  <2>2. /\ Emitting(a) /\ a.insert = m.insert /\ Alike(m, a) /\ Extends(m, a)
        /\ Len(a.term) = Len(m.term) + k
        /\ \A i \in 1..k : a.term[Len(m.term) + i] = Open
    <3>1. a = AppendBlocks(m, k) /\ Emitting(m)
      BY ONLY <1>3, <1>8, <2>1
    <3> QED
      BY ONLY <3>1, AppendBlocksIs
  <2> QED
    BY <2>1, <2>2 DEF Fresh
<1>11. /\ g \in Generator /\ g.term = a.term /\ g.insert = a.insert
       /\ g.unclosed = a.unclosed /\ g.loop = a.loop /\ g.locals = a.locals + 1
  BY <1>4, <1>10, PushIs DEF Emitting
<1>12. Emitting(g) /\ Extends(m, g) /\ Own(g.insert)
  BY <1>10, <1>11 DEF Emitting, Extends, Own
<1>13. "cond" \in Places
  BY DEF Places
<1>14. /\ f \in Frame /\ f.node = top.node /\ f.base = top.base /\ f.pc = "cond"
       /\ f.blocks = FreshBlocks /\ f.case = top.case
  BY <1>1, <1>6, <1>9, <1>13 DEF Frame
<1>15. /\ Waiting(f) = {1, 2, 3} /\ Depth(f) = 1 /\ ~IsLoop(f)
       /\ \A n : Placed(f, "switch", Len(node.sub), n) => Calling(f, n)
  BY <1>6, <1>14, SameCall DEF ToCome, DepthAt
<1>16. Calling(f, Len(g.term))
  BY <1>6, <1>9, <1>10, <1>11, <1>14, <1>15 DEF Placed, PlacesOf
<1>17. Untouched(f, g) /\ Distinct(f) /\ \A j \in Waiting(f) : Own(f.blocks[j])
  <2>1. \A j \in {1, 2, 3} : j \in 1..3
    OBVIOUS
  <2>2. \A i \in 1..3 : Fresh(i) # m.insert
    BY <1>8, <1>9
  <2> QED
    BY <1>9, <1>10, <1>11, <1>14, <1>15, <2>1, <2>2 DEF Untouched, Distinct
<1>18. g.locals = g.unclosed + f.base + Depth(f)
  BY <1>6, <1>10, <1>11, <1>14, <1>15, TopScope DEF Alike
<1>19. GoesOn(f, g)
  BY <1>8, <1>10, <1>11, <1>12, <1>14, <1>15, <1>16, <1>17, <1>18 DEF GoesOn, Alike
<1> QED
  BY <1>5, <1>6, <1>7, <1>19, EvaluateStep

LEMMA SwitchConditionStep == ASSUME TypeInv, SwitchCondition PROVE Goes
<1>1. PICK f : f = [top EXCEPT !.pc = "case"]
  OBVIOUS
<1>2. PICK i : i = 2 * top.case
  OBVIOUS
<1>3. PICK e : e = node.sub[i]
  OBVIOUS
<1>4. PICK p : p = PopLocals(m)
  OBVIOUS
<1>5. PICK c : c = ConditionalBranch(p, result, Block(3), Block(2))
  OBVIOUS
<1>6. PICK h : h = PositionAt(c, Block(3))
  OBVIOUS
<1>7. PICK g : g = PushLocalScope(h)
  OBVIOUS
<1>8. At("switch", "cond") /\ Evaluate(e, f, g)
  BY <1>1, <1>2, <1>3, <1>4, <1>5, <1>6, <1>7 DEF SwitchCondition
<1>9. /\ phase = "ir" /\ frames # <<>> /\ KindOf(top) = "switch" /\ Len(node.sub) \in {3, 5}
      /\ Placed(top, "switch", Len(node.sub), Len(m.term)) /\ Walk(frames, m)
      /\ Depth(top) = 1 /\ ~IsLoop(top) /\ top \in Frame /\ top.pc = "cond"
      /\ Waiting(top) = {1, 2, 3}
  BY <1>8, AtIs DEF Operands, DepthAt, ToCome
<1>10. e \in 1..Len(nodes)
  <2>1. top.case \in 1..3 /\ 2 * top.case + 1 <= Len(node.sub)
    BY <1>9 DEF Placed
  <2>2. i \in 1..Len(node.sub)
    BY <1>2, <1>9, <2>1
  <2> QED
    BY <1>3, <1>8, <2>2, OperandIs
<1>11. m.loop.end = EndOf(frames, Len(frames) - 1) /\ Len(m.term) \in Nat /\ m \in Generator
  BY <1>9, TopIs
<1>12. /\ Distinct(top)
       /\ \A j \in Waiting(top) : top.blocks[j] \in Nat \ {0} /\ Own(top.blocks[j])
  BY <1>9, <1>11, StillWaiting DEF Extends
<1>13. /\ p \in Generator /\ p.term = m.term /\ p.insert = m.insert /\ Emitting(p)
       /\ p.unclosed = m.unclosed /\ p.loop = m.loop /\ p.locals = m.locals - 1
  BY <1>4, <1>9, PoppedIs
<1>14. Closes(p, c)
  <2>1. Block(3) \in Nat /\ Block(2) \in Nat /\ result \in Value
    BY <1>9, <1>12 DEF Block, TypeInv
  <2> QED
    BY <1>5, <1>13, <2>1, ConditionalBranchIs
<1>15. c \in Generator /\ Len(c.term) = Len(m.term) /\ Extends(m, c) /\ Alike(p, c)
  BY <1>13, <1>14 DEF Closes, Extends
<1>16. /\ Emitting(h) /\ h \in Generator /\ h.insert = top.blocks[3]
       /\ Len(h.term) = Len(m.term) /\ Own(h.insert)
       /\ Extends(m, h) /\ Alike(c, h)
       /\ \A k \in Waiting(top) : h.term[top.blocks[k]] = Open /\ Own(top.blocks[k])
  <2>1. 3 \in Waiting(top)
    BY <1>9
  <2> QED
    BY <1>6, <1>9, <1>15, <2>1, GoToIs
<1>17. /\ g \in Generator /\ g.term = h.term /\ g.insert = h.insert
       /\ g.unclosed = h.unclosed /\ g.loop = h.loop /\ g.locals = h.locals + 1
  BY <1>7, <1>16, PushIs
<1>18. Emitting(g) /\ Extends(m, g) /\ Own(g.insert)
  BY <1>16, <1>17 DEF Emitting, Extends
<1>19. "case" \in Places
  BY DEF Places
<1>20. /\ f \in Frame /\ f.node = top.node /\ f.base = top.base /\ f.pc = "case"
       /\ f.blocks = top.blocks /\ f.case = top.case
  BY <1>1, <1>9, <1>19 DEF Frame
<1>21. /\ Waiting(f) = {1, 2} /\ Depth(f) = 1 /\ ~IsLoop(f)
       /\ \A n : Placed(f, "switch", Len(node.sub), n) => Calling(f, n)
  BY <1>9, <1>20, SameCall DEF ToCome, DepthAt
<1>22. Calling(f, Len(g.term))
  BY <1>9, <1>16, <1>17, <1>20, <1>21 DEF Placed, PlacesOf, HasBlocks
<1>23. Untouched(f, g) /\ Distinct(f) /\ \A j \in Waiting(f) : Own(f.blocks[j])
  <2>1. \A j \in {1, 2} : top.blocks[j] # top.blocks[3]
    BY <1>9, <1>12 DEF Distinct
  <2> QED
    BY <1>9, <1>12, <1>16, <1>17, <1>20, <1>21, <2>1 DEF Untouched, Distinct
<1>24. g.locals = g.unclosed + f.base + Depth(f)
  BY <1>9, <1>13, <1>15, <1>16, <1>17, <1>20, <1>21, TopScope DEF Alike
<1>25. g.loop.end = EndOf(frames, Len(frames) - 1)
  BY <1>11, <1>13, <1>15, <1>16, <1>17 DEF Alike
<1>26. GoesOn(f, g)
  BY <1>18, <1>20, <1>21, <1>22, <1>23, <1>24, <1>25 DEF GoesOn
<1> QED
  BY <1>8, <1>9, <1>10, <1>26, EvaluateStep

LEMMA SwitchElseStep == ASSUME TypeInv, SwitchElse PROVE Goes
<1>1. PICK b : b = Block(1)
  OBVIOUS
<1>2. PICK g : g = PositionAt(LeaveBranch(m, b), Block(1))
  OBVIOUS
<1>3. PICK in : in = Append(top.incoming, Ended)
  OBVIOUS
<1>4. At("switch", "else")
  BY DEF SwitchElse
<1>5. /\ phase = "ir" /\ frames # <<>> /\ KindOf(top) = "switch" /\ Walk(frames, m)
      /\ Depth(top) = 1 /\ ~IsLoop(top) /\ top \in Frame /\ Waiting(top) = {1}
  BY <1>4, AtIs DEF DepthAt, ToCome
<1>6. m.loop.end = EndOf(frames, Len(frames) - 1) /\ b \in Nat
  <2>1. Calling(top, Len(m.term)) /\ Len(m.term) \in Nat /\ 1 \in Waiting(top)
    BY <1>5, TopIs
  <2>2. b \in Nat
    BY <1>1, <2>1, WaitingHasBlocks DEF Block
  <2> QED
    BY <1>5, <2>2, TopIs
<1>7. Returns(g)
  <2>1. 1 \in Waiting(top)
    BY <1>5
  <2>2. /\ Emitting(g) /\ Own(g.insert)
        /\ Extends(m, g) /\ g.locals = m.locals - 1 /\ g.unclosed = m.unclosed
        /\ g.loop = m.loop
    BY <1>2, <1>5, <1>6, <2>1, LeaveToIs
  <2> QED
    BY <1>5, <1>6, <2>2, TopScope DEF Returns
<1>8. in \in Seq(Incoming)
  <2>1. top.incoming \in Seq(Incoming)
    BY <1>5 DEF Frame
  <2> QED
    BY <1>3, <2>1, EndedTyped
<1>9. CASE node.phi
  <2>1. PICK r : r = BuildPhi(g, in, node.ty)
    OBVIOUS
  <2>2. PICK v : v = From(PhiValue(g, in), Ty(Last(node.sub)))
    OBVIOUS
  <2>3. Give(v, r)
    BY <1>1, <1>2, <1>3, <1>9, <2>1, <2>2 DEF SwitchElse
  <2>4. Returns(r) /\ v \in Value
    BY <1>7, <1>8, <2>1, <2>2, MergeIs
  <2> QED
    BY <1>5, <2>3, <2>4, GiveStep
<1>10. CASE ~node.phi
  <2>1. Give(NoneConst, g)
    BY <1>1, <1>2, <1>10 DEF SwitchElse
  <2> QED
    BY <1>5, <1>7, <2>1, NoneConstTyped, GiveStep
<1> QED
  BY <1>9, <1>10

LEMMA CaseDoneIs ==
  ASSUME TypeInv, frames # <<>>, NEW pc \in Places, NEW f, f = [CaseDone EXCEPT !.pc = pc]
  PROVE  /\ f \in Frame /\ f.node = top.node /\ f.base = top.base /\ f.pc = pc
         /\ f.blocks = top.blocks /\ f.case = top.case + 1 /\ f.incoming \in Seq(Incoming)
<1>1. top \in Frame
  BY TopIs, CallingIs DEF TypeInv
<1>2. PICK c : c = top.case + 1
  OBVIOUS
<1>3. PICK in : in = Append(top.incoming, Ended)
  OBVIOUS
<1>4. c \in Nat /\ in \in Seq(Incoming)
  <2>1. top.case \in Nat /\ top.incoming \in Seq(Incoming)
    BY <1>1 DEF Frame
  <2> QED
    BY <1>2, <1>3, <2>1, EndedTyped
<1>5. PICK d : d = [top EXCEPT !.case = c, !.incoming = in]
  OBVIOUS
<1>6. d = CaseDone
  BY <1>2, <1>3, <1>5 DEF CaseDone
<1>7. /\ d \in Frame /\ d.node = top.node /\ d.base = top.base /\ d.pc = top.pc
      /\ d.blocks = top.blocks /\ d.case = c /\ d.incoming = in
  BY <1>1, <1>4, <1>5 DEF Frame
<1>8. f = [d EXCEPT !.pc = pc]
  BY <1>6
<1> QED
  BY <1>2, <1>4, <1>7, <1>8 DEF Frame

(* The last case is followed by the else branch.                           *)
LEMMA LastCase ==
  ASSUME TypeInv, At("switch", "case"), 2 * top.case + 1 = Len(node.sub), SwitchCase
  PROVE  Goes
<1>1. PICK b : b = Block(1)
  OBVIOUS
<1>2. PICK h : h = PositionAt(LeaveBranch(m, b), Block(2))
  OBVIOUS
<1>3. PICK g : g = PushLocalScope(h)
  OBVIOUS
<1>4. PICK f : f = [CaseDone EXCEPT !.pc = "else"]
  OBVIOUS
<1>5. PICK e : e = Last(node.sub)
  OBVIOUS
<1>6. Evaluate(e, f, g)
  BY <1>1, <1>2, <1>3, <1>4, <1>5 DEF SwitchCase
<1>7. /\ phase = "ir" /\ frames # <<>> /\ KindOf(top) = "switch" /\ Len(node.sub) \in {3, 5}
      /\ Placed(top, "switch", Len(node.sub), Len(m.term)) /\ Walk(frames, m)
      /\ Depth(top) = 1 /\ ~IsLoop(top) /\ top \in Frame /\ top.pc = "case"
      /\ Waiting(top) = {1, 2}
  BY AtIs DEF Operands, DepthAt, ToCome
<1>8. e \in 1..Len(nodes)
  <2>1. PICK k : k = Len(node.sub)
    OBVIOUS
  <2>2. k \in {3, 5}
    BY <1>7, <2>1
  <2>3. k \in 1..k
    BY ONLY <2>2
  <2> QED
    BY <1>5, <2>1, <2>3, OperandIs DEF Last
<1>9. /\ Distinct(top) /\ b \in Nat
  <2>1. Extends(m, m)
    BY <1>7, TopIs DEF Extends
  <2>2. /\ Distinct(top)
        /\ \A j \in Waiting(top) : top.blocks[j] \in Nat \ {0}
    BY <1>7, <2>1, StillWaiting
  <2> QED
    BY <1>1, <1>7, <2>2 DEF Block
<1>10. /\ Emitting(h) /\ h \in Generator /\ h.insert = top.blocks[2]
       /\ Len(h.term) = Len(m.term) /\ Own(h.insert)
       /\ Extends(m, h) /\ h.locals = m.locals - 1 /\ h.unclosed = m.unclosed
       /\ h.loop = m.loop
       /\ \A k \in Waiting(top) : h.term[top.blocks[k]] = Open /\ Own(top.blocks[k])
  <2>1. 2 \in Waiting(top)
    BY <1>7
  <2> QED
    BY <1>2, <1>7, <1>9, <2>1, LeaveToIs
<1>11. /\ g \in Generator /\ g.term = h.term /\ g.insert = h.insert
       /\ g.unclosed = h.unclosed /\ g.loop = h.loop /\ g.locals = h.locals + 1
  BY <1>3, <1>10, PushIs
<1>12. Emitting(g) /\ Extends(m, g) /\ Own(g.insert)
  BY <1>10, <1>11 DEF Emitting, Extends
<1>13. "else" \in Places
  BY DEF Places
<1>14. /\ f \in Frame /\ f.node = top.node /\ f.base = top.base /\ f.pc = "else"
       /\ f.blocks = top.blocks /\ f.case = top.case + 1
  BY <1>4, <1>7, <1>13, CaseDoneIs
<1>15. f.case \in 1..3
  <2>1. PICK c : c = top.case
    OBVIOUS
  <2>2. PICK k : k = Len(node.sub)
    OBVIOUS
  <2>3. c \in 1..3 /\ 2 * c + 1 <= k /\ k \in {3, 5}
    BY <1>7, <2>1, <2>2 DEF Placed
  <2>4. c + 1 \in 1..3
    BY ONLY <2>3
  <2> QED
    BY <1>14, <2>1, <2>4
<1>16. /\ Waiting(f) = {1} /\ Depth(f) = 1 /\ ~IsLoop(f)
       /\ \A n : Placed(f, "switch", Len(node.sub), n) => Calling(f, n)
  BY <1>7, <1>14, SameCall DEF ToCome, DepthAt
<1>17. Calling(f, Len(g.term))
  BY <1>7, <1>10, <1>11, <1>14, <1>15, <1>16 DEF Placed, PlacesOf, HasBlocks
<1>18. Untouched(f, g) /\ Distinct(f) /\ \A j \in Waiting(f) : Own(f.blocks[j])
  <2>1. top.blocks[1] # top.blocks[2]
    BY <1>7, <1>9 DEF Distinct
  <2> QED
    BY <1>7, <1>10, <1>11, <1>14, <1>16, <2>1 DEF Untouched, Distinct
<1>19. g.locals = g.unclosed + f.base + Depth(f)
  BY <1>7, <1>10, <1>11, <1>14, <1>16, TopScope
<1>20. g.loop.end = EndOf(frames, Len(frames) - 1)
  BY <1>7, <1>10, <1>11, TopIs
<1>21. GoesOn(f, g)
  BY <1>12, <1>14, <1>16, <1>17, <1>18, <1>19, <1>20 DEF GoesOn
<1> QED
  BY <1>6, <1>7, <1>8, <1>21, EvaluateStep

(* Another one by its condition, in the block when-case-false.             *)
LEMMA NextCase ==
  ASSUME TypeInv, At("switch", "case"), 2 * top.case + 1 # Len(node.sub), SwitchCase
  PROVE  Goes
<1>1. PICK b : b = Block(1)
  OBVIOUS
<1>2. PICK h : h = PositionAt(LeaveBranch(m, b), Block(2))
  OBVIOUS
<1>3. PICK a : a = AppendBlocks(h, 2)
  OBVIOUS
<1>4. PICK g : g = PushLocalScope(a)
  OBVIOUS
<1>5. PICK d : d = [CaseDone EXCEPT !.pc = "cond"]
  OBVIOUS
<1>6. PICK bs : bs = <<d.blocks[1], Fresh(1), Fresh(2)>>
  OBVIOUS
<1>7. PICK f : f = [d EXCEPT !.blocks = bs]
  OBVIOUS
<1>8. PICK e : e = node.sub[2 * top.case + 1]
  OBVIOUS
<1>9. PICK f2 : f2 = [CaseDone EXCEPT !.pc = "cond", !.blocks = <<@[1], Fresh(1), Fresh(2)>>]
  OBVIOUS
<1>10. Evaluate(e, f2, g)
  BY <1>1, <1>2, <1>3, <1>4, <1>8, <1>9 DEF SwitchCase
<1>11. /\ phase = "ir" /\ frames # <<>> /\ KindOf(top) = "switch" /\ Len(node.sub) \in {3, 5}
       /\ Placed(top, "switch", Len(node.sub), Len(m.term)) /\ Walk(frames, m)
       /\ Depth(top) = 1 /\ ~IsLoop(top) /\ top \in Frame /\ top.pc = "case"
       /\ Waiting(top) = {1, 2}
  BY AtIs DEF Operands, DepthAt, ToCome
<1>12. top.case = 1 /\ Len(node.sub) = 5
  <2>1. top.case \in 1..3 /\ 2 * top.case + 1 <= Len(node.sub)
    BY <1>11 DEF Placed
  <2>2. PICK c : c = top.case
    OBVIOUS
  <2>3. PICK k : k = Len(node.sub)
    OBVIOUS
  <2>4. c \in 1..3 /\ 2 * c + 1 <= k /\ 2 * c + 1 # k /\ k \in {3, 5}
    BY <1>11, <2>1, <2>2, <2>3
  <2>5. c = 1 /\ k = 5
    BY ONLY <2>4
  <2> QED
    BY <2>2, <2>3, <2>5
<1>13. e \in 1..Len(nodes)
  <2>1. PICK i : i = 2 * top.case + 1
    OBVIOUS
  <2>2. i \in 1..Len(node.sub)
    BY <1>12, <2>1
  <2> QED
    BY <1>8, <2>1, <2>2, OperandIs
<1>14. Len(m.term) \in Nat /\ m \in Generator /\ Extends(m, m)
       /\ m.loop.end = EndOf(frames, Len(frames) - 1)
  BY <1>11, TopIs DEF Extends
<1>15. /\ Distinct(top) /\ b \in Nat
       /\ \A j \in Waiting(top) : top.blocks[j] \in 1..Len(m.term)
  <2>1. /\ Distinct(top)
        /\ \A j \in Waiting(top) : /\ top.blocks[j] \in Nat \ {0}
                                   /\ top.blocks[j] \in 1..Len(m.term)
    BY <1>11, <1>14, StillWaiting
  <2> QED
    BY <1>1, <1>11, <2>1 DEF Block
<1>16. /\ Emitting(h) /\ h \in Generator /\ h.insert = top.blocks[2]
       /\ Len(h.term) = Len(m.term) /\ Own(h.insert)
       /\ Extends(m, h) /\ h.locals = m.locals - 1 /\ h.unclosed = m.unclosed
       /\ h.loop = m.loop
       /\ \A k \in Waiting(top) : h.term[top.blocks[k]] = Open /\ Own(top.blocks[k])
  <2>1. 2 \in Waiting(top)
    BY <1>11
  <2> QED
    BY <1>2, <1>11, <1>15, <2>1, LeaveToIs
<1>17. /\ Emitting(a) /\ a.insert = h.insert /\ Alike(h, a)
       /\ Len(a.term) = Len(m.term) + 2
       /\ \A c \in 1..Len(m.term) : a.term[c] = h.term[c]
       /\ \A i \in 1..2 : a.term[Fresh(i)] = Open
  <2>1. PICK k \in Nat : k = 2
    OBVIOUS
  <2>2. /\ Emitting(a) /\ a.insert = h.insert /\ Alike(h, a)
        /\ Len(a.term) = Len(h.term) + k
        /\ \A c \in 1..Len(h.term) : a.term[c] = h.term[c]
        /\ \A i \in 1..k : a.term[Len(h.term) + i] = Open
    <3>1. a = AppendBlocks(h, k) /\ Emitting(h)
      BY ONLY <1>3, <1>16, <2>1
    <3> QED
      BY ONLY <3>1, AppendBlocksIs
  <2> QED
    BY <1>16, <2>1, <2>2 DEF Fresh
<1>18. /\ g \in Generator /\ g.term = a.term /\ g.insert = a.insert
       /\ g.unclosed = a.unclosed /\ g.loop = a.loop /\ g.locals = a.locals + 1
  BY <1>4, <1>17, PushIs DEF Emitting
<1>19. Emitting(g) /\ Extends(m, g) /\ Own(g.insert)
  <2>1. Len(m.term) <= Len(m.term) + 2
    BY <1>14
  <2> QED
    BY <1>16, <1>17, <1>18, <2>1 DEF Emitting, Extends
<1>20. "cond" \in Places
  BY DEF Places
<1>21. /\ d \in Frame /\ d.node = top.node /\ d.base = top.base /\ d.pc = "cond"
       /\ d.blocks = top.blocks /\ d.case = top.case + 1
  BY <1>5, <1>11, <1>20, CaseDoneIs
<1>22. PICK c : c = top.blocks[1]
  OBVIOUS
<1>23. PICK x : x = Fresh(1)
  OBVIOUS
<1>24. PICK y : y = Fresh(2)
  OBVIOUS
<1>25. /\ c \in 1..Len(m.term) /\ c \in Nat /\ x = Len(m.term) + 1 /\ y = Len(m.term) + 2
       /\ x \in Nat /\ y \in Nat /\ x > Len(m.term) /\ y > Len(m.term)
  BY <1>11, <1>14, <1>15, <1>22, <1>23, <1>24 DEF Fresh
<1>26. bs = <<c, x, y>>
  BY <1>6, <1>21, <1>22, <1>23, <1>24
<1>27. bs \in Seq(Nat) /\ Len(bs) = 3 /\ bs[1] = c /\ bs[2] = x /\ bs[3] = y
  BY <1>25, <1>26
<1>28. f2 = f
  BY <1>5, <1>6, <1>7, <1>9, <1>21 DEF Frame, CaseDone
<1>29. /\ f \in Frame /\ f.node = top.node /\ f.base = top.base /\ f.pc = "cond"
       /\ f.blocks = bs /\ f.case = 2
  <2>1. 1 + 1 = 2
    OBVIOUS
  <2> QED
    BY <1>7, <1>12, <1>21, <1>27, <2>1 DEF Frame
<1>30. /\ Waiting(f) = {1, 2, 3} /\ Depth(f) = 1 /\ ~IsLoop(f)
       /\ \A n : Placed(f, "switch", Len(node.sub), n) => Calling(f, n)
  BY <1>11, <1>29, SameCall DEF ToCome, DepthAt
<1>31. Calling(f, Len(g.term))
  <2>1. c \in 1..Len(g.term) /\ x \in 1..Len(g.term) /\ y \in 1..Len(g.term)
    BY <1>14, <1>17, <1>18, <1>25
  <2>2. \A i \in 1..3 : i = 1 \/ i = 2 \/ i = 3
    OBVIOUS
  <2>3. \A i \in 1..3 : bs[i] \in 1..Len(g.term)
    BY <1>27, <2>1, <2>2
  <2>4. 2 \in 1..2 /\ 2 \in 1..3 /\ 2 * 2 + 1 <= 5
    OBVIOUS
  <2> QED
    BY <1>12, <1>27, <1>29, <1>30, <2>3, <2>4 DEF Placed, PlacesOf
<1>32. Untouched(f, g) /\ Distinct(f) /\ \A j \in Waiting(f) : Own(f.blocks[j])
  <2>1. top.blocks[1] # top.blocks[2] /\ top.blocks[2] \in 1..Len(m.term)
        /\ h.term[c] = Open /\ Own(c)
    BY <1>11, <1>15, <1>16, <1>22 DEF Distinct
  <2>2. c # g.insert /\ x # g.insert /\ y # g.insert
    BY <1>14, <1>16, <1>17, <1>18, <1>22, <1>25, <2>1
  <2>3. g.term[c] = Open /\ g.term[x] = Open /\ g.term[y] = Open
    BY <1>17, <1>18, <1>23, <1>24, <1>25, <2>1
  <2>4. Own(x) /\ Own(y)
    BY <1>25 DEF Own
  <2>5. c # x /\ c # y /\ x # y
    BY <1>14, <1>25
  <2> QED
    BY <1>27, <1>29, <1>30, <2>1, <2>2, <2>3, <2>4, <2>5 DEF Untouched, Distinct
<1>33. g.locals = g.unclosed + f.base + Depth(f)
  BY <1>11, <1>16, <1>17, <1>18, <1>29, <1>30, TopScope DEF Alike
<1>34. g.loop.end = EndOf(frames, Len(frames) - 1)
  BY <1>14, <1>16, <1>17, <1>18 DEF Alike
<1>35. GoesOn(f, g)
  BY <1>19, <1>29, <1>30, <1>31, <1>32, <1>33, <1>34 DEF GoesOn
<1> QED
  BY <1>10, <1>11, <1>13, <1>28, <1>35, EvaluateStep

LEMMA SwitchCaseStep == ASSUME TypeInv, SwitchCase PROVE Goes
<1>1. At("switch", "case")
  BY DEF SwitchCase
<1> QED
  BY <1>1, LastCase, NextCase

LEMMA EnterLoopStep == ASSUME TypeInv, EnterLoop PROVE Goes
<1>1. PICK f : f = [top EXCEPT !.pc = "cond", !.outer = m.loop, !.blocks = FreshBlocks]
  OBVIOUS
<1>2. PICK e : e = node.sub[1]
  OBVIOUS
<1>3. PICK a : a = AppendBlocks(m, 3)
  OBVIOUS
<1>4. PICK l : l = [end |-> Fresh(3), phi |-> node.phi, nodes |-> <<>>]
  OBVIOUS
<1>5. PICK g : g = [a EXCEPT !.loop = l]
  OBVIOUS
<1>6. At("loop", "visit") /\ Evaluate(e, f, g)
  BY <1>1, <1>2, <1>3, <1>4, <1>5 DEF EnterLoop, Visiting
<1>7. /\ phase = "ir" /\ frames # <<>> /\ KindOf(top) = "loop" /\ Len(node.sub) = 3
      /\ Placed(top, "loop", Len(node.sub), Len(m.term)) /\ Walk(frames, m)
      /\ Depth(top) = 0 /\ ~IsLoop(top) /\ top \in Frame /\ top.pc = "visit"
      /\ node \in Node
  BY <1>6, AtIs DEF Operands, DepthAt
<1>8. e \in 1..Len(nodes)
  <2>1. 1 \in 1..Len(node.sub)
    BY <1>7
  <2> QED
    BY <1>2, <1>6, <2>1, OperandIs
<1>9. /\ m \in Generator /\ Emitting(m) /\ Len(m.term) \in Nat /\ m.insert \in 0..Len(m.term)
      /\ m.loop.end = EndOf(frames, Len(frames) - 1) /\ m.loop \in LoopData
  BY <1>7, TopIs, GeneratorIs DEF Emitting
<1>10. /\ FreshBlocks \in Seq(Nat) /\ Len(FreshBlocks) = 3
       /\ \A i \in 1..3 : /\ FreshBlocks[i] = Fresh(i) /\ Fresh(i) \in 1..(Len(m.term) + 3)
                          /\ Fresh(i) > Len(m.term) /\ Fresh(i) \in Nat \ {0} /\ Own(Fresh(i))
       /\ \A i, j \in 1..3 : i # j => Fresh(i) # Fresh(j)
  BY <1>9, FreshIs
<1>11. /\ Emitting(a) /\ a.insert = m.insert /\ Alike(m, a) /\ Extends(m, a)
       /\ Len(a.term) = Len(m.term) + 3
       /\ \A i \in 1..3 : a.term[Fresh(i)] = Open
  <2>1. PICK k \in Nat : k = 3
    OBVIOUS
  <2>2. /\ Emitting(a) /\ a.insert = m.insert /\ Alike(m, a) /\ Extends(m, a)
        /\ Len(a.term) = Len(m.term) + k
        /\ \A i \in 1..k : a.term[Len(m.term) + i] = Open
    <3>1. a = AppendBlocks(m, k) /\ Emitting(m)
      BY ONLY <1>3, <1>9, <2>1
    <3> QED
      BY ONLY <3>1, AppendBlocksIs
  <2> QED
    BY <2>1, <2>2 DEF Fresh
<1>12. l \in LoopData /\ l.end = Fresh(3)
  <2>1. 3 \in 1..3 /\ <<>> \in Seq(Incoming)
    OBVIOUS
  <2>2. node.phi \in BOOLEAN
    BY <1>7 DEF Node
  <2>3. Fresh(3) \in Nat
    BY <1>10, <2>1
  <2> QED
    BY <1>4, <2>1, <2>2, <2>3 DEF LoopData
<1>13. /\ g \in Generator /\ g.term = a.term /\ g.insert = a.insert
       /\ g.unclosed = a.unclosed /\ g.loop = l /\ g.locals = a.locals
  BY <1>5, <1>11, <1>12 DEF Emitting, Generator
<1>14. Emitting(g) /\ Extends(m, g) /\ Own(g.insert)
  BY <1>11, <1>13 DEF Emitting, Extends, Own
<1>15. "cond" \in Places
  BY DEF Places
<1>16. /\ f \in Frame /\ f.node = top.node /\ f.base = top.base /\ f.pc = "cond"
       /\ f.blocks = FreshBlocks /\ f.outer = m.loop
  BY <1>1, <1>7, <1>9, <1>10, <1>15 DEF Frame
<1>17. /\ Waiting(f) = {1, 2, 3} /\ Depth(f) = 0 /\ IsLoop(f)
       /\ \A n : Placed(f, "loop", Len(node.sub), n) => Calling(f, n)
  BY <1>7, <1>16, SameCall DEF ToCome, DepthAt
<1>18. Calling(f, Len(g.term))
  BY <1>7, <1>10, <1>11, <1>13, <1>16, <1>17 DEF Placed, PlacesOf
<1>19. Untouched(f, g) /\ Distinct(f) /\ \A j \in Waiting(f) : Own(f.blocks[j])
  <2>1. \A j \in {1, 2, 3} : j \in 1..3
    OBVIOUS
  <2>2. \A i \in 1..3 : Fresh(i) # m.insert
    BY <1>9, <1>10
  <2> QED
    BY <1>10, <1>11, <1>13, <1>16, <1>17, <2>1, <2>2 DEF Untouched, Distinct
<1>20. g.locals = g.unclosed + f.base + Depth(f)
  BY <1>7, <1>11, <1>13, <1>16, <1>17, TopScope DEF Alike
<1>21. g.loop.end = f.blocks[3]
  <2>1. 3 \in 1..3
    OBVIOUS
  <2> QED
    BY <1>10, <1>12, <1>13, <1>16, <2>1
<1>22. GoesOn(f, g)
  BY <1>9, <1>14, <1>16, <1>17, <1>18, <1>19, <1>20, <1>21 DEF GoesOn
<1> QED
  BY <1>6, <1>7, <1>8, <1>22, EvaluateStep

LEMMA InLoopIs ==
  ASSUME TypeInv, NEW pc \in {"cond", "body", "again", "else"}, At("loop", pc)
  PROVE  /\ phase = "ir" /\ frames # <<>> /\ KindOf(top) = "loop" /\ Len(node.sub) = 3
         /\ Placed(top, "loop", Len(node.sub), Len(m.term)) /\ Walk(frames, m)
         /\ IsLoop(top) /\ top \in Frame /\ top.pc = pc
         /\ m.loop.end = top.blocks[3] /\ m.loop \in LoopData
         /\ top.outer.end = EndOf(frames, Len(frames) - 1) /\ top.outer \in LoopData
         /\ m \in Generator /\ Emitting(m) /\ Len(m.term) \in Nat
         /\ Waiting(top) = ToCome("loop", pc) /\ Depth(top) = DepthAt("loop", pc)
         /\ Distinct(top) /\ Extends(m, m)
         /\ \A i \in 1..3 : top.blocks[i] \in Nat \ {0}
<1>1. /\ phase = "ir" /\ frames # <<>> /\ KindOf(top) = "loop" /\ Len(node.sub) = 3
      /\ Placed(top, "loop", Len(node.sub), Len(m.term)) /\ Walk(frames, m)
      /\ IsLoop(top) /\ top \in Frame /\ top.pc = pc
      /\ Waiting(top) = ToCome("loop", pc) /\ Depth(top) = DepthAt("loop", pc)
  BY AtIs DEF Operands
<1>2. /\ m.loop.end = top.blocks[3] /\ top.outer.end = EndOf(frames, Len(frames) - 1)
      /\ m \in Generator /\ Emitting(m) /\ Len(m.term) \in Nat /\ Distinct(top)
  BY <1>1, TopIs
<1>3. \A i \in 1..3 : top.blocks[i] \in Nat \ {0}
  <2>1. HasBlocks("loop", pc)
    BY DEF HasBlocks
  <2>2. \A i \in 1..3 : top.blocks[i] \in 1..Len(m.term)
    BY <1>1, <2>1 DEF Placed
  <2>3. \A b \in 1..Len(m.term) : b \in Nat \ {0}
    BY <1>2
  <2> QED
    BY <2>2, <2>3
<1>4. m.loop \in LoopData /\ top.outer \in LoopData /\ Extends(m, m)
  BY <1>1, <1>2, GeneratorIs DEF Extends, Frame
<1> QED
  BY <1>1, <1>2, <1>3, <1>4

LEMMA LoopConditionStep == ASSUME TypeInv, LoopCondition PROVE Goes
<1>1. PICK f : f = [top EXCEPT !.pc = "body"]
  OBVIOUS
<1>2. PICK e : e = node.sub[2]
  OBVIOUS
<1>3. PICK c : c = ConditionalBranch(m, result, Block(1), Block(2))
  OBVIOUS
<1>4. PICK h : h = PositionAt(c, Block(1))
  OBVIOUS
<1>5. PICK g : g = PushLocalScope(h)
  OBVIOUS
<1>6. At("loop", "cond") /\ Evaluate(e, f, g)
  BY <1>1, <1>2, <1>3, <1>4, <1>5 DEF LoopCondition
<1>7. /\ phase = "ir" /\ frames # <<>> /\ KindOf(top) = "loop" /\ Len(node.sub) = 3
      /\ Placed(top, "loop", Len(node.sub), Len(m.term))
      /\ top \in Frame /\ top.pc = "cond"
      /\ m.loop.end = top.blocks[3]
      /\ top.outer.end = EndOf(frames, Len(frames) - 1)
      /\ Emitting(m) /\ Len(m.term) \in Nat
      /\ Waiting(top) = {1, 2, 3} /\ Depth(top) = 0 /\ Distinct(top)
      /\ \A i \in 1..3 : top.blocks[i] \in Nat \ {0}
  BY <1>6, InLoopIs DEF ToCome, DepthAt
<1>8. e \in 1..Len(nodes)
  <2>1. 2 \in 1..Len(node.sub)
    BY <1>7
  <2> QED
    BY <1>2, <1>6, <2>1, OperandIs
<1>9. Closes(m, c)
  <2>1. 1 \in 1..3 /\ 2 \in 1..3
    OBVIOUS
  <2>2. Block(1) \in Nat /\ Block(2) \in Nat /\ result \in Value
    BY <1>7, <2>1 DEF Block, TypeInv
  <2> QED
    BY <1>3, <1>7, <2>2, ConditionalBranchIs
<1>10. c \in Generator /\ Len(c.term) = Len(m.term) /\ Extends(m, c) /\ Alike(m, c)
  BY <1>9 DEF Closes
<1>11. /\ Emitting(h) /\ h \in Generator /\ h.insert = top.blocks[1]
       /\ Len(h.term) = Len(m.term) /\ Own(h.insert)
       /\ Extends(m, h) /\ Alike(c, h)
       /\ \A k \in Waiting(top) : h.term[top.blocks[k]] = Open /\ Own(top.blocks[k])
  <2>1. 1 \in Waiting(top)
    BY <1>7
  <2> QED
    BY <1>4, <1>7, <1>10, <2>1, GoToIs
<1>12. /\ g \in Generator /\ g.term = h.term /\ g.insert = h.insert
       /\ g.unclosed = h.unclosed /\ g.loop = h.loop /\ g.locals = h.locals + 1
  BY <1>5, <1>11, PushIs
<1>13. Emitting(g) /\ Extends(m, g) /\ Own(g.insert)
  BY <1>11, <1>12 DEF Emitting, Extends
<1>14. "body" \in Places
  BY DEF Places
<1>15. /\ f \in Frame /\ f.node = top.node /\ f.base = top.base /\ f.pc = "body"
       /\ f.blocks = top.blocks /\ f.outer = top.outer
  BY <1>1, <1>7, <1>14 DEF Frame
<1>16. /\ Waiting(f) = {2, 3} /\ Depth(f) = 1 /\ IsLoop(f)
       /\ \A n : Placed(f, "loop", Len(node.sub), n) => Calling(f, n)
  BY <1>7, <1>15, SameCall DEF ToCome, DepthAt
<1>17. Calling(f, Len(g.term))
  BY <1>7, <1>11, <1>12, <1>15, <1>16 DEF Placed, PlacesOf, HasBlocks
<1>18. Untouched(f, g) /\ Distinct(f) /\ \A j \in Waiting(f) : Own(f.blocks[j])
  <2>1. \A j \in {2, 3} : top.blocks[j] # top.blocks[1]
    BY <1>7 DEF Distinct
  <2> QED
    BY <1>7, <1>11, <1>12, <1>15, <1>16, <2>1 DEF Untouched, Distinct
<1>19. g.locals = g.unclosed + f.base + Depth(f)
  BY <1>7, <1>10, <1>11, <1>12, <1>15, <1>16, TopScope DEF Alike
<1>20. g.loop.end = f.blocks[3]
  BY <1>7, <1>10, <1>11, <1>12, <1>15 DEF Alike
<1>21. GoesOn(f, g)
  BY <1>7, <1>13, <1>15, <1>16, <1>17, <1>18, <1>19, <1>20 DEF GoesOn
<1> QED
  BY <1>6, <1>7, <1>8, <1>21, EvaluateStep

(* The else branch of a loop, however its body ended.                      *)
LEMMA LoopElseStep ==
  ASSUME TypeInv, NEW pc \in {"body", "again"}, At("loop", pc),
         NEW f, f \in Frame, f.node = top.node, f.base = top.base, f.blocks = top.blocks,
         f.outer = top.outer,
         NEW l, l \in Generator, Len(l.term) = Len(m.term), Extends(m, l), l.loop = m.loop,
         l.locals + 1 = l.unclosed + top.base + 1, LoopElse(f, l)
  PROVE  Goes
<1>1. PICK d : d = [f EXCEPT !.pc = "else"]
  OBVIOUS
<1>2. PICK e : e = node.sub[3]
  OBVIOUS
<1>3. PICK h : h = PositionAt(l, Block(2))
  OBVIOUS
<1>4. PICK g : g = PushLocalScope(h)
  OBVIOUS
<1>5. Evaluate(e, d, g)
  BY <1>1, <1>2, <1>3, <1>4 DEF LoopElse
<1>6. /\ phase = "ir" /\ frames # <<>> /\ KindOf(top) = "loop" /\ Len(node.sub) = 3
      /\ Placed(top, "loop", Len(node.sub), Len(m.term))
      /\ top.pc = pc /\ m.loop.end = top.blocks[3]
      /\ top.outer.end = EndOf(frames, Len(frames) - 1)
      /\ Waiting(top) = {2, 3} /\ Distinct(top)
  BY InLoopIs DEF ToCome
<1>7. e \in 1..Len(nodes)
  <2>1. 3 \in 1..Len(node.sub)
    BY <1>6
  <2> QED
    BY <1>2, <2>1, OperandIs
<1>8. /\ Emitting(h) /\ h \in Generator /\ h.insert = top.blocks[2]
      /\ Len(h.term) = Len(m.term) /\ Own(h.insert)
      /\ Extends(m, h) /\ Alike(l, h)
      /\ \A k \in Waiting(top) : h.term[top.blocks[k]] = Open /\ Own(top.blocks[k])
  <2>1. 2 \in Waiting(top)
    BY <1>6
  <2> QED
    BY <1>3, <1>6, <2>1, GoToIs
<1>9. /\ g \in Generator /\ g.term = h.term /\ g.insert = h.insert
      /\ g.unclosed = h.unclosed /\ g.loop = h.loop /\ g.locals = h.locals + 1
  BY <1>4, <1>8, PushIs
<1>10. Emitting(g) /\ Extends(m, g) /\ Own(g.insert)
  BY <1>8, <1>9 DEF Emitting, Extends
<1>11. "else" \in Places
  BY DEF Places
<1>12. /\ d \in Frame /\ d.node = top.node /\ d.base = top.base /\ d.pc = "else"
       /\ d.blocks = top.blocks /\ d.outer = top.outer
  BY <1>1, <1>11 DEF Frame
<1>13. /\ Waiting(d) = {3} /\ Depth(d) = 1 /\ IsLoop(d)
       /\ \A n : Placed(d, "loop", Len(node.sub), n) => Calling(d, n)
  BY <1>6, <1>12, SameCall DEF ToCome, DepthAt
<1>14. Calling(d, Len(g.term))
  BY <1>6, <1>8, <1>9, <1>12, <1>13 DEF Placed, PlacesOf, HasBlocks
<1>15. Untouched(d, g) /\ Distinct(d) /\ \A j \in Waiting(d) : Own(d.blocks[j])
  <2>1. top.blocks[3] # top.blocks[2]
    BY <1>6 DEF Distinct
  <2> QED
    BY <1>6, <1>8, <1>9, <1>12, <1>13, <2>1 DEF Untouched, Distinct
<1>16. g.locals = g.unclosed + d.base + Depth(d)
  BY <1>8, <1>9, <1>12, <1>13 DEF Alike
<1>17. g.loop.end = d.blocks[3]
  BY <1>6, <1>8, <1>9, <1>12 DEF Alike
<1>18. GoesOn(d, g)
  BY <1>6, <1>10, <1>12, <1>13, <1>14, <1>15, <1>16, <1>17 DEF GoesOn
<1> QED
  BY <1>5, <1>6, <1>7, <1>18, EvaluateStep

LEMMA StoreResultIs ==
  ASSUME NEW g, Emitting(g), NEW v \in Value, NEW r, r = StoreResult(g, v)
  PROVE  Records(g, r)
<1>1. CASE ~node.phi
  BY <1>1 DEF StoreResult, Records, Alike, Emitting
<1>2. CASE node.phi
  <2>1. PICK wrong : wrong = (v.real # (node.ty = "value"))
    OBVIOUS
  <2>2. PICK w : w = "store"
    OBVIOUS
  <2>3. PICK h : h = [g EXCEPT !.faults = @ \cup Flag(w, wrong)]
    OBVIOUS
  <2>4. w \in {"store", "return"}
    BY <2>2
  <2>5. Records(g, h)
    BY <2>3, <2>4, FaultIs DEF Emitting
  <2>6. r = Use(h, v)
    BY <1>2, <2>1, <2>2, <2>3 DEF StoreResult
  <2>7. Records(h, r)
    BY <2>5, <2>6, UseIs DEF Records
  <2> QED
    BY <2>5, <2>7 DEF Records, Alike
<1> QED
  BY <1>1, <1>2

LEMMA LoopBodyStep == ASSUME TypeInv, LoopBody PROVE Goes
<1>1. At("loop", "body") /\ "body" \in {"cond", "body", "again", "else"}
      /\ "body" \in {"body", "again"}
  BY DEF LoopBody
<1>2. /\ phase = "ir" /\ frames # <<>> /\ KindOf(top) = "loop" /\ Len(node.sub) = 3
      /\ Placed(top, "loop", Len(node.sub), Len(m.term))
      /\ top \in Frame /\ top.pc = "body"
      /\ m.loop.end = top.blocks[3]
      /\ top.outer.end = EndOf(frames, Len(frames) - 1)
      /\ m \in Generator /\ Emitting(m) /\ Len(m.term) \in Nat
      /\ Waiting(top) = {2, 3} /\ Depth(top) = 1 /\ Distinct(top) /\ Extends(m, m)
  BY <1>1, InLoopIs DEF ToCome, DepthAt
<1>3. CASE m.insert = 0
  <2>1. PICK u : u = m.unclosed + 1
    OBVIOUS
  <2>2. PICK l : l = [m EXCEPT !.unclosed = u]
    OBVIOUS
  <2>3. LoopElse(top, l)
    BY <1>3, <2>1, <2>2 DEF LoopBody
  <2>4. m.locals + 1 = u + top.base + 1 /\ u \in Nat
    BY <1>2, <2>1, TopScope
  <2>5. /\ l \in Generator /\ l.term = m.term /\ l.loop = m.loop /\ l.locals = m.locals
        /\ l.unclosed = u
    BY <1>2, <2>2, <2>4 DEF Generator
  <2>6. PICK f : f = top
    OBVIOUS
  <2>7. Extends(m, l) /\ l.locals + 1 = l.unclosed + top.base + 1
    BY <1>2, <2>4, <2>5 DEF Extends
  <2>8. PICK pc \in {"body", "again"} : pc = "body"
    OBVIOUS
  <2>9. At("loop", pc) /\ LoopElse(f, l)
    BY <1>1, <2>3, <2>6, <2>8
  <2>10. /\ f \in Frame /\ f.node = top.node /\ f.base = top.base /\ f.blocks = top.blocks
         /\ f.outer = top.outer
    BY <1>2, <2>6
  <2>11. Len(l.term) = Len(m.term)
    BY <2>5
  <2> QED
    BY <2>5, <2>7, <2>9, <2>10, <2>11, LoopElseStep
<1>4. CASE m.insert # 0
  <2>1. PICK in : in = <<Ended>>
    OBVIOUS
  <2>2. PICK f : f = [top EXCEPT !.pc = "again", !.incoming = in]
    OBVIOUS
  <2>3. PICK s : s = StoreResult(m, result)
    OBVIOUS
  <2>4. PICK g : g = PopLocals(s)
    OBVIOUS
  <2>5. PICK e : e = node.sub[1]
    OBVIOUS
  <2>6. Evaluate(e, f, g)
    BY <1>4, <2>1, <2>2, <2>3, <2>4, <2>5 DEF LoopBody
  <2>7. e \in 1..Len(nodes)
    <3>1. 1 \in 1..Len(node.sub)
      BY <1>2
    <3> QED
      BY <1>1, <2>5, <3>1, OperandIs
  <2>8. Records(m, s)
    BY <1>2, <2>3, StoreResultIs DEF TypeInv
  <2>9. m.locals > 0 /\ m.locals - 1 = m.unclosed + top.base + 0
    BY <1>2, TopScope
  <2>10. /\ g \in Generator /\ g.term = m.term /\ g.insert = m.insert
         /\ g.unclosed = m.unclosed /\ g.loop = m.loop /\ g.locals = m.locals - 1
    <3>1. /\ s \in Generator /\ s.locals > 0 /\ s.term = m.term /\ s.insert = m.insert
          /\ s.unclosed = m.unclosed /\ s.loop = m.loop /\ s.locals = m.locals
      BY <2>8, <2>9 DEF Records, Alike
    <3> QED
      BY <2>4, <3>1, PopIs
  <2>11. Emitting(g) /\ Extends(m, g) /\ Own(g.insert)
    BY <1>2, <2>10 DEF Emitting, Extends, Own
  <2>12. "again" \in Places /\ in \in Seq(Incoming)
    BY <2>1, EndedTyped DEF Places
  <2>13. /\ f \in Frame /\ f.node = top.node /\ f.base = top.base /\ f.pc = "again"
         /\ f.blocks = top.blocks /\ f.outer = top.outer /\ f.incoming = in
    BY <1>2, <2>2, <2>12 DEF Frame
  <2>14. /\ Waiting(f) = {2, 3} /\ Depth(f) = 0 /\ IsLoop(f)
         /\ \A n : Placed(f, "loop", Len(node.sub), n) => Calling(f, n)
    BY <1>2, <2>13, SameCall DEF ToCome, DepthAt
  <2>15. Calling(f, Len(g.term))
    <3>1. Len(in) = 1
      BY <2>1
    <3> QED
      BY <1>2, <2>10, <2>13, <2>14, <3>1 DEF Placed, PlacesOf, HasBlocks
  <2>16. Untouched(f, g) /\ Distinct(f) /\ \A j \in Waiting(f) : Own(f.blocks[j])
    <3>1. \A j \in Waiting(top) : /\ m.term[top.blocks[j]] = Open /\ Own(top.blocks[j])
                                  /\ top.blocks[j] # m.insert
      BY <1>2, StillWaiting
    <3> QED
      BY <1>2, <2>10, <2>13, <2>14, <3>1 DEF Untouched, Distinct
  <2>17. g.locals = g.unclosed + f.base + Depth(f)
    BY <2>9, <2>10, <2>13, <2>14
  <2>18. GoesOn(f, g)
    BY <1>2, <2>10, <2>11, <2>13, <2>14, <2>15, <2>16, <2>17 DEF GoesOn
  <2> QED
    BY <1>2, <2>6, <2>7, <2>18, EvaluateStep
<1> QED
  BY <1>3, <1>4

LEMMA LoopAgainStep == ASSUME TypeInv, LoopAgain PROVE Goes
<1>1. At("loop", "again") /\ "again" \in {"cond", "body", "again", "else"}
  BY DEF LoopAgain
<1>2. /\ phase = "ir" /\ frames # <<>>
      /\ Placed(top, "loop", Len(node.sub), Len(m.term))
      /\ top \in Frame /\ top.pc = "again"
      /\ m \in Generator /\ Emitting(m) /\ Len(m.term) \in Nat
      /\ Depth(top) = 0 /\ \A i \in 1..3 : top.blocks[i] \in Nat \ {0}
  BY <1>1, InLoopIs DEF ToCome, DepthAt
<1>3. PICK old : old = top.incoming[1]
  OBVIOUS
<1>4. PICK v : v = [old.v EXCEPT !.real = TRUE, !.def = m.insert]
  OBVIOUS
<1>5. PICK w : w = From(v, node.ty)
  OBVIOUS
<1>6. PICK new : new = [old EXCEPT !.v = w]
  OBVIOUS
<1>7. PICK in : in = <<new>>
  OBVIOUS
<1>8. PICK f : f = [top EXCEPT !.incoming = in]
  OBVIOUS
<1>9. PICK l : l = ConditionalBranch(m, result, Block(1), Block(3))
  OBVIOUS
<1>10. LoopElse(f, l)
  BY <1>3, <1>4, <1>5, <1>6, <1>7, <1>8, <1>9 DEF LoopAgain, Reloaded
<1>11. new \in Incoming
  <2>1. top.incoming \in Seq(Incoming) /\ Len(top.incoming) = 1 /\ 1 \in 1..1
    BY <1>2 DEF Frame, Placed
  <2>2. old \in Incoming
    BY <1>3, <2>1, ElementOfSeq
  <2>3. old.v \in Value /\ m.insert \in Nat
    BY <1>2, <2>2, GeneratorIs DEF Incoming
  <2>4. v \in Value
    BY <1>4, <2>3 DEF Value
  <2>5. w \in Value
    BY <1>5, <2>4, FromTyped
  <2> QED
    BY <1>6, <2>2, <2>5 DEF Incoming
<1>12. in \in Seq(Incoming)
  BY <1>7, <1>11
<1>13. /\ f \in Frame /\ f.node = top.node /\ f.base = top.base /\ f.blocks = top.blocks
       /\ f.outer = top.outer
  BY <1>2, <1>8, <1>12 DEF Frame
<1>14. Closes(m, l)
  <2>1. 1 \in 1..3 /\ 3 \in 1..3
    OBVIOUS
  <2>2. Block(1) \in Nat /\ Block(3) \in Nat /\ result \in Value
    BY <1>2, <2>1 DEF Block, TypeInv
  <2> QED
    BY <1>2, <1>9, <2>2, ConditionalBranchIs
<1>15. /\ l \in Generator /\ Len(l.term) = Len(m.term) /\ Extends(m, l) /\ l.loop = m.loop
       /\ l.locals = m.locals /\ l.unclosed = m.unclosed
  BY <1>14 DEF Closes, Alike
<1>16. l.locals + 1 = l.unclosed + top.base + 1
  BY <1>2, <1>15, TopScope
<1>17. PICK pc \in {"body", "again"} : pc = "again"
  OBVIOUS
<1>18. At("loop", pc)
  BY <1>1, <1>17
<1> QED
  BY <1>10, <1>13, <1>15, <1>16, <1>18, LoopElseStep

LEMMA LoopEndStep == ASSUME TypeInv, LoopEnd PROVE Goes
<1>1. PICK b : b = Block(3)
  OBVIOUS
<1>2. PICK h : h = PositionAt(LeaveBranch(m, b), Block(3))
  OBVIOUS
<1>3. PICK g : g = RestoreLoop(h)
  OBVIOUS
<1>4. PICK in : in = m.loop.nodes \o Append(top.incoming, Ended)
  OBVIOUS
<1>5. At("loop", "else") /\ "else" \in {"cond", "body", "again", "else"}
  BY DEF LoopEnd
<1>6. /\ phase = "ir" /\ frames # <<>> /\ top \in Frame
      /\ m.loop \in LoopData /\ top.outer \in LoopData
      /\ top.outer.end = EndOf(frames, Len(frames) - 1)
      /\ m \in Generator /\ Emitting(m) /\ Len(m.term) \in Nat
      /\ Waiting(top) = {3} /\ Depth(top) = 1
      /\ \A i \in 1..3 : top.blocks[i] \in Nat \ {0}
  BY <1>5, InLoopIs DEF ToCome, DepthAt
<1>7. /\ Emitting(h) /\ h \in Generator /\ Own(h.insert)
      /\ Extends(m, h) /\ h.locals = m.locals - 1 /\ h.unclosed = m.unclosed
  <2>1. 3 \in Waiting(top) /\ 3 \in 1..3
    BY <1>6
  <2>2. b \in Nat
    BY <1>1, <1>6, <2>1 DEF Block
  <2> QED
    BY <1>2, <1>6, <2>1, <2>2, LeaveToIs
<1>8. /\ g \in Generator /\ g.term = h.term /\ g.insert = h.insert /\ g.locals = h.locals
      /\ g.unclosed = h.unclosed /\ g.loop = top.outer
  BY <1>3, <1>6, <1>7 DEF RestoreLoop, Generator
<1>9. Returns(g)
  <2>1. Emitting(g) /\ Extends(m, g) /\ Own(g.insert)
    BY <1>7, <1>8 DEF Emitting, Extends
  <2>2. g.locals = g.unclosed + top.base
    BY <1>6, <1>7, <1>8, TopScope
  <2> QED
    BY <1>6, <1>8, <2>1, <2>2 DEF Returns
<1>10. in \in Seq(Incoming)
  <2>1. top.incoming \in Seq(Incoming) /\ m.loop.nodes \in Seq(Incoming)
    BY <1>6 DEF Frame, LoopData
  <2>2. PICK s : s = Append(top.incoming, Ended)
    OBVIOUS
  <2>3. s \in Seq(Incoming)
    BY <2>1, <2>2, EndedTyped
  <2> QED
    BY <1>4, <2>1, <2>2, <2>3, ConcatProperties
<1>11. CASE node.phi
  <2>1. PICK r : r = BuildPhi(g, in, node.ty)
    OBVIOUS
  <2>2. PICK v : v = From(PhiValue(g, in), node.ty)
    OBVIOUS
  <2>3. Give(v, r)
    BY <1>1, <1>2, <1>3, <1>4, <1>11, <2>1, <2>2 DEF LoopEnd
  <2>4. Returns(r) /\ v \in Value
    BY <1>9, <1>10, <2>1, <2>2, MergeIs
  <2> QED
    BY <1>6, <2>3, <2>4, GiveStep
<1>12. CASE ~node.phi
  <2>1. Give(NoneConst, g)
    BY <1>1, <1>2, <1>3, <1>12 DEF LoopEnd
  <2> QED
    BY <1>6, <1>9, <2>1, NoneConstTyped, GiveStep
<1> QED
  BY <1>11, <1>12

LEMMA PanicStep == ASSUME TypeInv, Panic PROVE Goes
<1>1. /\ frames # <<>> /\ phase' = "panicked"
      /\ UNCHANGED <<left, ret_type, nodes, open, frames, result, m>>
  BY DEF Panic
<1>2. Walk(frames, m) /\ Len(m.term) \in Nat /\ Len(frames) \in Nat
  BY <1>1, TopIs DEF TypeInv
<1>3. PICK fs : fs = frames
  OBVIOUS
<1>4. PICK g : g = m
  OBVIOUS
<1>5. Walk(frames, m)'
  BY <1>1, <1>2, <1>3, <1>4, WalkNext
<1>6. TypeInv'
  BY <1>1, <1>5 DEF TypeInv, Forming
<1> QED
  BY <1>1, <1>2, <1>6 DEF Goes, Extends

LEMMA EndFunctionStep == ASSUME TypeInv, EndFunction PROVE Goes
<1>1. PICK g : g = BuildReturn(m, NoneConst)
  OBVIOUS
<1>2. /\ frames = <<>> /\ phase' = "done" /\ m' = g
      /\ UNCHANGED <<left, ret_type, nodes, open, frames, result>>
  BY <1>1 DEF EndFunction
<1>3. Walk(frames, m) /\ Emitting(m)
  BY DEF TypeInv, Walk
<1>4. Closes(m, g)
  BY <1>1, <1>3, NoneConstTyped, BuildReturnIs
<1>5. Emitting(g)
  BY <1>3, <1>4, ClosedIs
<1>6. Len(frames) = 0 /\ frames \in Seq(Frame)
  BY <1>2
<1>7. BlocksKept(frames, g)
  BY <1>6 DEF BlocksKept
<1>8. LoopsNest(frames, g)
  BY <1>3, <1>4, <1>6 DEF Walk, LoopsNest, Closes, Alike
<1>9. ScopesNest(frames, g)
  BY <1>2, <1>3 DEF Walk, ScopesNest
<1>10. Walk(frames, g)
  BY <1>5, <1>6, <1>7, <1>8, <1>9 DEF Walk
<1>11. PICK fs : fs = frames
  OBVIOUS
<1>12. Walk(frames, m)'
  BY <1>2, <1>10, <1>11, WalkNext
<1>13. TypeInv'
  BY <1>2, <1>12 DEF TypeInv, Forming
<1>14. ~(Len(frames') < Len(frames))
  BY <1>2
<1> QED
  BY <1>2, <1>4, <1>13, <1>14 DEF Goes, Closes

-----------------------------------------------------------------------------
(* Every step.                                                             *)

LEMMA LeavesTyped ==
  ASSUME NEW ret \in {"none", "value"}, NEW ns, ns = Leaves(ret)
  PROVE  Expressions(ns)
<1>1. PICK call : call = Leaf("call", <<>>, "value", {}, FALSE)
  OBVIOUS
<1>2. PICK none : none = Leaf("none", <<>>, "none", {}, FALSE)
  OBVIOUS
<1>3. PICK leave : leave = Leaf("break", <<NoneExpr>>, "any", {"void"}, TRUE)
  OBVIOUS
<1>4. PICK give : give = Leaf("break", <<CallExpr>>, "any", {"value"}, TRUE)
  OBVIOUS
<1>5. PICK e : e = IF ret = "none" THEN NoneExpr ELSE CallExpr
  OBVIOUS
<1>6. PICK back : back = Leaf("return", <<e>>, "any", {}, TRUE)
  OBVIOUS
<1>7. ns = <<call, none, leave, give, back>>
  BY <1>1, <1>2, <1>3, <1>4, <1>5, <1>6 DEF Leaves
<1>8. PICK S : S = Nat \ {0}
  OBVIOUS
<1>9. /\ <<>> \in Seq(S) /\ <<NoneExpr>> \in Seq(S) /\ <<CallExpr>> \in Seq(S)
      /\ <<e>> \in Seq(S) /\ e \in 1..5 /\ NoneExpr \in 1..5 /\ CallExpr \in 1..5
  BY <1>5, <1>8 DEF NoneExpr, CallExpr
<1>10. call \in Node /\ call.kind = "call" /\ call.sub = <<>>
  BY <1>1, <1>8, <1>9 DEF Leaf, Node, Kinds, Types, Given
<1>11. none \in Node /\ none.kind = "none" /\ none.sub = <<>>
  BY <1>2, <1>8, <1>9 DEF Leaf, Node, Kinds, Types, Given
<1>12. leave \in Node /\ leave.kind = "break" /\ leave.sub = <<NoneExpr>>
  BY <1>3, <1>8, <1>9 DEF Leaf, Node, Kinds, Types, Given
<1>13. give \in Node /\ give.kind = "break" /\ give.sub = <<CallExpr>>
  BY <1>4, <1>8, <1>9 DEF Leaf, Node, Kinds, Types, Given
<1>14. back \in Node /\ back.kind = "return" /\ back.sub = <<e>>
  BY <1>6, <1>8, <1>9 DEF Leaf, Node, Kinds, Types, Given
<1>15. ns \in Seq(Node) /\ Len(ns) = 5
  BY <1>7, <1>10, <1>11, <1>12, <1>13, <1>14
<1>16. \A n : n \in 1..5 => /\ n = 1 \/ n = 2 \/ n = 3 \/ n = 4 \/ n = 5
  OBVIOUS
<1>17. ASSUME NEW i \in 1..5
       PROVE  \/ ns[i].kind \in {"call", "none"} /\ ns[i].sub = <<>>
              \/ ns[i].kind \in {"break", "return"} /\ \E x \in 1..5 : ns[i].sub = <<x>>
  <2>1. CASE i = 1
    BY <1>7, <1>10, <2>1
  <2>2. CASE i = 2
    BY <1>7, <1>11, <2>2
  <2>3. CASE i = 3
    BY <1>7, <1>9, <1>12, <2>3
  <2>4. CASE i = 4
    BY <1>7, <1>9, <1>13, <2>4
  <2>5. CASE i = 5
    BY <1>7, <1>9, <1>14, <2>5
  <2> QED
    BY <1>16, <2>1, <2>2, <2>3, <2>4, <2>5
<1>18. ASSUME NEW i \in 1..5
       PROVE  Operands(ns[i].kind, Len(ns[i].sub)) /\ Within(ns[i].sub, ns)
  <2>1. CASE ns[i].kind \in {"call", "none"} /\ ns[i].sub = <<>>
    BY <2>1 DEF Operands, Within
  <2>2. CASE ns[i].kind \in {"break", "return"} /\ \E x \in 1..5 : ns[i].sub = <<x>>
    <3>1. PICK x \in 1..5 : ns[i].sub = <<x>>
      BY <2>2
    <3>2. PICK s : s = ns[i].sub
      OBVIOUS
    <3>3. Len(s) = 1 /\ s[1] = x
      BY <3>1, <3>2
    <3>4. \A j \in 1..1 : j = 1
      OBVIOUS
    <3> QED
      BY <1>15, <2>2, <3>2, <3>3, <3>4 DEF Operands, Within
  <2> QED
    BY <1>17, <2>1, <2>2
<1> QED
  BY <1>15, <1>18 DEF Expressions

LEMMA InitTyped == ASSUME Init PROVE TypeInv
<1>1. Expressions(nodes)
  BY LeavesTyped DEF Init
<1>2. PICK f : f = Form("function", 1, FALSE)
  OBVIOUS
<1>3. /\ f \in Opened /\ f.kind = "function" /\ f.arity = 1 /\ f.sub = <<>>
  BY <1>2 DEF Form, Opened
<1>4. Forming
  <2>1. open = <<f>>
    BY <1>2 DEF Init
  <2>2. open \in Seq(Opened) /\ open # <<>> /\ Len(open) = 1 /\ open[1] = f
    BY <1>3, <2>1
  <2>3. Len(<<>>) = 0 /\ \A i \in 1..1 : i = 1
    OBVIOUS
  <2>4. Formed(f)
    BY <1>3, <2>3 DEF Formed
  <2>5. Within(f.sub, nodes)
    BY <1>3, <2>3 DEF Within
  <2> QED
    BY <1>1, <1>3, <2>2, <2>3, <2>4, <2>5 DEF Forming
<1>5. frames = <<>> /\ m = Prepared /\ Len(frames) = 0 /\ 1..0 = {} /\ 1..(0 - 1) = {}
      /\ frames \in Seq(Frame)
  BY DEF Init
<1>6. EndOf(frames, Len(frames)) = 0
  <2>1. Around(frames, Len(frames)) = {}
    BY <1>5 DEF Around
  <2> QED
    BY <2>1 DEF EndOf
<1>7. Walk(frames, m)
  BY <1>5, <1>6, PreparedTyped DEF Walk, BlocksKept, LoopsNest, ScopesNest
<1> QED
  BY <1>1, <1>4, <1>5, <1>7, NoneConstTyped, Bounds DEF Init, TypeInv

Shaping == \/ PushLeaf \/ Descend \/ MakeBreak \/ MakeReturn \/ MakeBlock
           \/ MakeIf \/ MakeSwitch \/ MakeLoop

(* The GIR generator emits nothing.                                        *)
LEMMA NothingEmitted ==
  ASSUME TypeInv, TypeInv', m' = m, Len(frames) = 0
  PROVE  Goes
<1>1. Extends(m, m')
  <2>1. Len(m.term) \in Nat
    BY GeneratorIs DEF TypeInv, Walk, Emitting
  <2> QED
    BY <2>1 DEF Extends
<1>2. Len(frames') \in Nat
  BY LenProperties DEF TypeInv, Walk
<1>3. ~(Len(frames') < Len(frames))
  BY <1>2
<1> QED
  BY <1>1, <1>3 DEF Goes

LEMMA ShapingStep == ASSUME TypeInv, Shaping PROVE Goes
<1>1. TypeInv'
  BY PushLeafStep, DescendStep, MakeBreakStep, MakeReturnStep, MakeBlockStep,
     MakeIfStep, MakeSwitchStep, MakeLoopStep DEF Shaping
<1>2. phase = "gir" /\ m' = m
  BY DEF Shaping, PushLeaf, Descend, MakeBreak, MakeReturn, MakeBlock, MakeIf,
         MakeSwitch, MakeLoop, Make
<1>3. Len(frames) = 0
  BY <1>2 DEF TypeInv
<1> QED
  BY <1>1, <1>2, <1>3, NothingEmitted

LEMMA StepGoes == ASSUME TypeInv, [Next]_vars PROVE Goes
<1>1. CASE Shaping
  BY <1>1, ShapingStep
<1>2. CASE StartFunction
  <2>1. phase = "gir" /\ m' = m
    BY <1>2 DEF StartFunction
  <2>2. Len(frames) = 0
    BY <2>1 DEF TypeInv
  <2> QED
    BY <1>2, <2>1, <2>2, StartFunctionStep, NothingEmitted
<1>3. CASE Skip \/ Call \/ NoneLiteral \/ EnterBlock \/ NextInBlock
  BY <1>3, SkipStep, CallStep, NoneLiteralStep, EnterBlockStep, NextInBlockStep
<1>4. CASE EnterBreak \/ Break \/ EnterReturn \/ Return
  BY <1>4, EnterBreakStep, BreakStep, EnterReturnStep, ReturnStep
<1>5. CASE EnterIf \/ IfCondition \/ IfThen \/ IfElse
  BY <1>5, EnterIfStep, IfConditionStep, IfThenStep, IfElseStep
<1>6. CASE EnterSwitch \/ SwitchCondition \/ SwitchCase \/ SwitchElse
  BY <1>6, EnterSwitchStep, SwitchConditionStep, SwitchCaseStep, SwitchElseStep
<1>7. CASE EnterLoop \/ LoopCondition \/ LoopBody \/ LoopAgain \/ LoopEnd
  BY <1>7, EnterLoopStep, LoopConditionStep, LoopBodyStep, LoopAgainStep, LoopEndStep
<1>8. CASE Panic \/ EndFunction
  BY <1>8, PanicStep, EndFunctionStep
<1>9. CASE UNCHANGED vars
  <2>1. UNCHANGED <<left, ret_type, phase, nodes, open, frames, result, m>>
    BY <1>9 DEF vars
  <2>2. PICK fs : fs = frames
    OBVIOUS
  <2>3. PICK g : g = m
    OBVIOUS
  <2>4. Walk(fs, g)
    BY <2>2, <2>3 DEF TypeInv
  <2>5. Walk(frames, m)'
    BY <2>1, <2>2, <2>3, <2>4, WalkNext
  <2>6. TypeInv'
    BY <2>1, <2>5 DEF TypeInv, Forming, Prepared
  <2>7. Len(m.term) \in Nat /\ Len(frames) \in Nat
    BY GeneratorIs, LenProperties DEF TypeInv, Walk, Emitting
  <2> QED
    BY <2>1, <2>6, <2>7 DEF Goes, Extends
<1> QED
  BY <1>1, <1>2, <1>3, <1>4, <1>5, <1>6, <1>7, <1>8, <1>9 DEF Next, Shaping

LEMMA TypeInvariant == Spec => []TypeInv
<1>1. Init => TypeInv
  BY InitTyped
<1>2. TypeInv /\ [Next]_vars => TypeInv'
  BY StepGoes DEF Goes
<1> QED
  BY <1>1, <1>2, PTL DEF Spec

-----------------------------------------------------------------------------
(* Theorems.                                                               *)

(* Whatever body the GIR generator builds, the IR generator keeps to its   *)
(* types, and the builder is at a block that has not ended or, after a     *)
(* break or return, at none (position_at_block, terminate of               *)
(* ir/src/generator/mod.rs).                                               *)
THEOREM TypeCorrect == Spec => []TypeOK
<1>1. TypeInv => TypeOK
  BY DEF TypeInv, Forming, Expressions, Walk, Emitting, TypeOK
<1> QED
  BY <1>1, TypeInvariant, PTL

(* A block of the generated function ends once: whatever constructs are    *)
(* around a break or return, none emits into the block that it ended, and  *)
(* none branches out of a block that a construct around it has yet to fill *)
(* (expr.rs if_, switch, loop_, expression_).                              *)
THEOREM TerminatorsFinal == Spec => TerminatorsAreFinal
<1>1. TypeInv /\ [Next]_vars
        => [\A b \in DOMAIN m.term : m.term[b] # Open => m'.term[b] = m.term[b]]_vars
  <2> SUFFICES ASSUME TypeInv, [Next]_vars, NEW b \in DOMAIN m.term, m.term[b] # Open
               PROVE  m'.term[b] = m.term[b]
    OBVIOUS
  <2>1. Extends(m, m')
    BY StepGoes DEF Goes
  <2>2. Emitting(m) /\ m.term \in Seq(Terminator)
    BY GeneratorIs DEF TypeInv, Walk, Emitting
  <2>3. b \in 1..Len(m.term) /\ b # 0
    BY <2>2, LenProperties
  <2>4. b # m.insert
    BY <2>2, <2>3 DEF Emitting
  <2> QED
    BY <2>1, <2>3, <2>4 DEF Extends
<1> QED
  BY <1>1, TypeInvariant, PTL DEF Spec, TerminatorsAreFinal

(* A break branches to the end of the innermost loop that it is in, also   *)
(* after other loops inside of that one have ended: loop_ gives back the   *)
(* data of the loop around it, for loops nested in any way.                *)
THEOREM BreaksInnermost == Spec => []BreaksLeaveInnermostLoop
<1>1. TypeInv => BreaksLeaveInnermostLoop
  <2> SUFFICES ASSUME TypeInv
               PROVE  BreaksLeaveInnermostLoop
    OBVIOUS
  <2>1. frames \in Seq(Frame) /\ m.loop.end = EndOf(frames, Len(frames))
    BY DEF TypeInv, Walk, LoopsNest
  <2>2. DOMAIN frames = 1..Len(frames)
    BY <2>1, LenProperties
  <2>3. OpenLoops = Around(frames, Len(frames))
    BY <2>2 DEF OpenLoops, Around, IsLoop, KindOf
  <2> QED
    BY <2>1, <2>3 DEF EndOf, Innermost, BreaksLeaveInnermostLoop
<1> QED
  BY <1>1, TypeInvariant, PTL

(* Every call of expression_ returns with as many scopes of locals as it   *)
(* was called with, however it ends, but for one more for each loop inside *)
(* whose body always leaves: loop_ pops the body's scope only at the end   *)
(* of the body (push_local_scope, pop_locals_release).                     *)
THEOREM ScopesBalancedHolds == Spec => ScopesBalanced
<1>1. TypeInv /\ [Next]_vars
        => [Len(frames') < Len(frames) => m'.locals - m'.unclosed = top.base]_vars
  BY StepGoes DEF Goes
<1> QED
  BY <1>1, TypeInvariant, PTL DEF Spec, ScopesBalanced
=============================================================================
