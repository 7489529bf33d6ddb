------------------------- MODULE CodegenMerges_proofs -------------------------
(***************************************************************************)
(* Proofs about the values that the IR generator computes and merges, for  *)
(* function bodies of every size without an odd shape but code after a     *)
(* break or return: merges have a value for each way in, values are        *)
(* computed before they are used, and no value is missing.                 *)
(*                                                                         *)
(* To TypeInv (Codegen_proofs) the invariant, Merging, adds that the       *)
(* expressions made are typed as the GIR generator types them (Shaped),    *)
(* and of the walk (Kept) that each construct that is being generated has  *)
(* a value for every branch to its end so far, that every value that is    *)
(* still to be used is on every way to where its branch ends, and that the *)
(* blocks to come are branched to by their own construct only.             *)
(***************************************************************************)
EXTENDS Codegen_proofs

(* No shape is odd but code after a break or return; the others break the  *)
(* properties below.                                                       *)
Regular == Odd \subseteq {"dead_code"}

(* An operand is what is wanted, or leaves.                                *)
Fits(e, ty) == \/ e.ty = ty
               \/ e.ty = "any" /\ (e.leaves \/ (ty = "value" /\ e.gives))

(* Cases of a when with their conditions.                                  *)
CasesOf(n) == {c \in 1..2 : 2 * c < Len(n.sub)}

Shaped(n, ns, ret) ==
  LET s(i) == ns[n.sub[i]] IN
  /\ n.odd \subseteq {"dead_code"}
  /\ n.ty = "value" => n.gives
  /\ n.ty = "none" => ~n.gives
  /\ n.leaves => n.ty = "any" \/ n.odd # {}
  /\ n.kind = "call" => n.ty = "value" /\ ~n.leaves /\ n.breaks = {}
  /\ n.kind = "none" => n.ty = "none" /\ ~n.leaves
  /\ n.kind \in {"break", "return"} => n.leaves /\ n.ty = "any"
  /\ n.kind = "break" => /\ n.breaks # {}
                         /\ n.breaks \subseteq {"value"} => s(1).ty = "value"
                         /\ n.breaks \subseteq {"none", "void"} => s(1).ty = "none"
  /\ n.kind = "return" => Fits(s(1), ret)
  /\ n.kind = "block" => /\ n.ty = s(2).ty /\ n.gives = s(2).gives
                         /\ n.leaves <=> s(1).leaves \/ s(2).leaves
                         /\ s(1).leaves => n.odd # {}
  /\ n.kind \in {"if", "switch", "loop"} => ~n.leaves
  /\ n.kind = "if" => /\ s(1).ty = "value" /\ s(2).ty # "any"
                      /\ n.gives => s(2).gives /\ s(3).gives
                      /\ n.ty = "value" => n.phi /\ s(2).ty = "value"
                      /\ n.phi => IF s(2).ty = "value" THEN Fits(s(3), "value")
                                  ELSE s(3).ty # "value"
                      /\ n.phi /\ n.ty = "none" => s(3).ty = "none"
                      /\ ~n.phi => n.ty = "none"
  /\ n.kind = "switch" =>
       /\ \A c \in CasesOf(n) : s(2 * c - 1).ty = "value"
       /\ n.phi <=> n.ty = "value"
       /\ n.ty # "any"
       /\ n.phi => /\ s(Len(n.sub)).ty = "value"
                   /\ \A c \in CasesOf(n) : Fits(s(2 * c), "value")
  /\ n.kind = "loop" =>
       /\ n.sub[1] = CallExpr
       /\ ~n.phi => n.ty = "none"
       /\ n.ty # "any"
       /\ n.phi => /\ s(3).ty = n.ty /\ Fits(s(2), n.ty)
                   /\ s(2).breaks \cup s(3).breaks \subseteq
                        IF n.ty = "value" THEN {"value"} ELSE {"none", "void"}
  /\ n.kind # "loop" /\ n.sub # <<>> =>
       \A i \in 1..Len(n.sub) : s(i).breaks \subseteq n.breaks

NodesInv == nodes[CallExpr].kind = "call" /\ \A i \in 1..Len(nodes) : Shaped(nodes[i], nodes, ret_type)

-----------------------------------------------------------------------------
(* What is made has the shapes that are left when there are no odd ones.   *)

LEMMA CasesAre ==
  ASSUME NEW n, Len(n.sub) \in Nat, NEW c \in CasesOf(n)
  PROVE  2 * c - 1 \in 1..Len(n.sub) /\ 2 * c \in 1..Len(n.sub)
BY DEF CasesOf

LEMMA ShapedMore ==
  ASSUME NEW ns, NEW n, Len(n.sub) \in Nat, Operands(n.kind, Len(n.sub)), Within(n.sub, ns),
         NEW r, NEW ret, \A i \in 1..Len(ns) : r[i] = ns[i], Shaped(n, ns, ret)
  PROVE  Shaped(n, r, ret)
<1>1. ASSUME NEW i \in 1..Len(n.sub)
      PROVE  r[n.sub[i]] = ns[n.sub[i]]
  BY DEF Within
<1>2. /\ n.kind \in {"break", "return", "block", "if", "loop"} => 1 \in 1..Len(n.sub)
      /\ n.kind \in {"block", "if", "loop"} => 2 \in 1..Len(n.sub)
      /\ n.kind \in {"if", "loop"} => 3 \in 1..Len(n.sub)
      /\ n.kind = "switch" => Len(n.sub) \in 1..Len(n.sub)
  BY DEF Operands
<1>3. \A c \in CasesOf(n) : /\ r[n.sub[2 * c - 1]] = ns[n.sub[2 * c - 1]]
                            /\ r[n.sub[2 * c]] = ns[n.sub[2 * c]]
  BY <1>1, CasesAre
<1>4. /\ n.kind \in {"break", "return", "block", "if", "loop"} => r[n.sub[1]] = ns[n.sub[1]]
      /\ n.kind \in {"block", "if", "loop"} => r[n.sub[2]] = ns[n.sub[2]]
      /\ n.kind \in {"if", "loop"} => r[n.sub[3]] = ns[n.sub[3]]
      /\ n.kind = "switch" => r[n.sub[Len(n.sub)]] = ns[n.sub[Len(n.sub)]]
  BY <1>1, <1>2
<1> QED
  BY <1>1, <1>3, <1>4 DEF Shaped

(* What MakeNode records of the operands.                                  *)
MadeOf(x, kind, sub, ty, phi, odd) ==
  /\ x.kind = kind /\ x.sub = sub /\ x.ty = ty /\ x.phi = phi
  /\ x.leaves <=> \/ kind \in {"break", "return"}
                  \/ kind = "block" /\ \E j \in 1..Len(sub) : nodes[sub[j]].leaves
  /\ kind \in {"break", "return"} => x.gives = TRUE
  /\ kind = "block" => x.gives = nodes[sub[2]].gives
  /\ kind = "if" => x.gives = (nodes[sub[2]].gives /\ nodes[sub[3]].gives)
  /\ kind \in {"switch", "loop"} => x.gives = (ty = "value")
  /\ odd \subseteq x.odd /\ \A j \in 1..Len(sub) : nodes[sub[j]].odd \subseteq x.odd
  /\ kind # "loop" => \A j \in 1..Len(sub) : nodes[sub[j]].breaks \subseteq x.breaks
  /\ kind = "break" => nodes[sub[1]].ty \in x.breaks

LEMMA NodeIs ==
  ASSUME NEW kind, NEW sub \in Seq(Nat \ {0}), NEW ty, NEW phi, NEW odd,
         NEW x, x = MakeNode(kind, sub, ty, phi, odd)
  PROVE  MadeOf(x, kind, sub, ty, phi, odd)
<1>1. Elems(sub) = {sub[j] : j \in 1..Len(sub)}
  BY ElemsAre
<1>2. PICK subs : subs = {nodes[i] : i \in Elems(sub)}
  OBVIOUS
<1>3. subs = {nodes[sub[j]] : j \in 1..Len(sub)}
  BY <1>1, <1>2
<1>4. PICK breaks : breaks = (IF kind = "loop" THEN nodes[sub[1]].breaks
                              ELSE UNION {n.breaks : n \in subs})
                             \cup IF kind = "break" THEN {nodes[sub[1]].ty} ELSE {}
  OBVIOUS
<1>5. PICK leaves : leaves = (\/ kind \in {"break", "return"}
                              \/ kind = "block" /\ \E n \in subs : n.leaves)
  OBVIOUS
<1>6. PICK gives : gives = CASE kind \in {"break", "return"} -> TRUE
                   [] kind = "block" -> nodes[sub[2]].gives
                   [] kind = "if" -> nodes[sub[2]].gives /\ nodes[sub[3]].gives
                   [] OTHER -> ty = "value"
  OBVIOUS
<1>7. PICK odds : odds = odd \cup UNION {n.odd : n \in subs}
  OBVIOUS
<1>8. x = [kind |-> kind, sub |-> sub, ty |-> ty, phi |-> phi, breaks |-> breaks,
           leaves |-> leaves, gives |-> gives, odd |-> odds]
  BY <1>2, <1>4, <1>5, <1>6, <1>7 DEF MakeNode
<1>9. /\ x.kind = kind /\ x.sub = sub /\ x.ty = ty /\ x.phi = phi /\ x.breaks = breaks
      /\ x.leaves = leaves /\ x.gives = gives /\ x.odd = odds
  BY <1>8
<1>10. odd \subseteq odds /\ \A j \in 1..Len(sub) : nodes[sub[j]].odd \subseteq odds
  BY <1>3, <1>7
<1>11. kind # "loop" => \A j \in 1..Len(sub) : nodes[sub[j]].breaks \subseteq breaks
  BY <1>3, <1>4
<1>12. kind = "break" => nodes[sub[1]].ty \in breaks
  BY <1>4
<1>13. leaves <=> \/ kind \in {"break", "return"}
                  \/ kind = "block" /\ \E j \in 1..Len(sub) : nodes[sub[j]].leaves
  BY <1>3, <1>5
<1>14. /\ kind \in {"break", "return"} => gives = TRUE
       /\ kind = "block" => gives = nodes[sub[2]].gives
       /\ kind = "if" => gives = (nodes[sub[2]].gives /\ nodes[sub[3]].gives)
       /\ kind \in {"switch", "loop"} => gives = (ty = "value")
  BY <1>6
<1> QED
  BY <1>9, <1>10, <1>11, <1>12, <1>13, <1>14 DEF MadeOf

(* Nothing but dead code is odd.                                           *)
LEMMA MadeRegular ==
  ASSUME Regular, NEW kind, NEW x, Make(kind, x), NEW odd, odd \subseteq x.odd
  PROVE  x.odd \subseteq {"dead_code"} /\ odd \subseteq {"dead_code"}
BY DEF Regular, Make

LEMMA FlagIs ==
  ASSUME NEW what, NEW is, what # "dead_code", NEW odd, Flag(what, is) \subseteq odd,
         odd \subseteq {"dead_code"}
  PROVE  ~is
BY DEF Flag
LEMMA MakeShaped ==
  ASSUME TypeInv, NodesInv, NEW x, nodes' = Append(nodes, x), UNCHANGED ret_type,
         Shaped(x, nodes, ret_type), Len(x.sub) \in Nat,
         Operands(x.kind, Len(x.sub)), Within(x.sub, nodes)
  PROVE  NodesInv'
<1>1. PICK S : S = Node \cup {x}
  OBVIOUS
<1>2. PICK ns : ns = nodes'
  OBVIOUS
<1>3. /\ nodes \in Seq(Node) /\ Len(nodes) \in Nat /\ Len(nodes) >= 5 /\ Expressions(nodes)
  BY NodesTyped
<1>4. nodes \in Seq(S) /\ x \in S
  <2>1. \A i \in 1..Len(nodes) : nodes[i] \in S
    BY <1>1, <1>3, ElementOfSeq
  <2>2. nodes \in [1..Len(nodes) -> S]
    BY <1>3, <2>1, LenProperties
  <2> QED
    BY <1>1, <1>3, <2>2, SeqDef
<1>5. /\ Len(ns) = Len(nodes) + 1 /\ ns[Len(nodes) + 1] = x
      /\ \A i \in 1..Len(nodes) : ns[i] = nodes[i]
  BY <1>2, <1>4, Appended
<1>6. ASSUME NEW i \in 1..Len(nodes)
      PROVE  Shaped(ns[i], ns, ret_type)
  <2>1. nodes[i] \in Node /\ Operands(nodes[i].kind, Len(nodes[i].sub)) /\ Within(nodes[i].sub, nodes)
    BY <1>3, OperandTyped DEF Expressions
  <2>2. Len(nodes[i].sub) \in Nat
    BY <2>1, LenProperties DEF Node
  <2>3. Shaped(nodes[i], nodes, ret_type)
    BY DEF NodesInv
  <2>4. Shaped(nodes[i], ns, ret_type)
    BY <1>5, <2>1, <2>2, <2>3, ShapedMore
  <2> QED
    BY <1>5, <2>4
<1>7. Shaped(x, ns, ret_type)
  BY <1>5, ShapedMore
<1>8. \A i \in 1..Len(ns) : Shaped(ns[i], ns, ret_type)
  <2>1. \A i \in 1..Len(ns) : i \in 1..Len(nodes) \/ i = Len(nodes) + 1
    BY <1>3, <1>5
  <2> QED
    BY <1>5, <1>6, <1>7, <2>1
<1>9. ns[1].kind = "call"
  <2>1. 1 \in 1..Len(nodes)
    BY <1>3
  <2> QED
    BY <1>5, <2>1 DEF NodesInv, CallExpr
<1> QED
  BY <1>2, <1>8, <1>9 DEF NodesInv, CallExpr

LEMMA MakeBreakShaped == ASSUME TypeInv, Regular, NodesInv, MakeBreak PROVE NodesInv'
<1>1. PICK sub : sub = Inner.sub
  OBVIOUS
<1>2. PICK x : x = MakeNode("break", sub, "any", FALSE, {})
  OBVIOUS
<1>3. Make("break", x) /\ "break" \in Kinds
  BY <1>1, <1>2 DEF MakeBreak, Kinds
<1>4. /\ sub \in Seq(Nat \ {0}) /\ Operands("break", Len(sub)) /\ Within(sub, nodes)
      /\ Len(sub) = 1 /\ 1 \in 1..Len(sub)
  <2>1. /\ sub \in Seq(Nat \ {0}) /\ Operands("break", Len(sub)) /\ Within(sub, nodes)
    BY <1>1, <1>3, SubIs
  <2>2. Len(sub) = 1
    BY <2>1 DEF Operands
  <2> QED
    BY <2>1, <2>2
<1>5. /\ x.kind = "break" /\ x.sub = sub /\ x.ty = "any" /\ x.leaves /\ x.gives
      /\ nodes[sub[1]].ty \in x.breaks
      /\ \A j \in 1..Len(sub) : nodes[sub[j]].breaks \subseteq x.breaks
  <2>1. PICK k : k = "break"
    OBVIOUS
  <2>2. PICK p : p = FALSE
    OBVIOUS
  <2>3. PICK t, o : t = "any" /\ o = {}
    OBVIOUS
  <2>4. x = MakeNode(k, sub, t, p, o) /\ sub \in Seq(Nat \ {0})
    BY <1>2, <1>4, <2>1, <2>2, <2>3
  <2>5. MadeOf(x, k, sub, t, p, o)
    BY ONLY <2>4, NodeIs
  <2> QED
    BY <2>1, <2>2, <2>3, <2>5 DEF MadeOf
<1>6. x.odd \subseteq {"dead_code"}
  BY <1>3, MadeRegular
<1>7. nodes[sub[1]].ty \in Types
  BY <1>4, OperandsPlaced DEF Ty
<1>8. Shaped(x, nodes, ret_type)
  BY <1>5, <1>6, <1>7 DEF Shaped, Types
<1>9. nodes' = Append(nodes, x) /\ UNCHANGED ret_type
  BY <1>3 DEF Make
<1>10. Operands(x.kind, Len(x.sub)) /\ Within(x.sub, nodes) /\ Len(x.sub) \in Nat
  BY <1>4, <1>5 DEF Operands
<1> QED
  BY ONLY TypeInv, NodesInv, <1>8, <1>9, <1>10, MakeShaped

LEMMA ReturnedShaped ==
  ASSUME TypeInv, NodesInv, NEW sub \in Seq(Nat \ {0}), Len(sub) = 1, Within(sub, nodes),
         NEW x, x = Returned(sub), x.odd \subseteq {"dead_code"}, Unifies(Ty(sub[1]), ret_type)
  PROVE  Shaped(x, nodes, ret_type) /\ x.kind = "return" /\ x.sub = sub
<1>1. PICK odd : odd = Flag("any_value", Misfit(sub[1], ret_type))
  OBVIOUS
<1>2. x = MakeNode("return", sub, "any", FALSE, odd)
  BY <1>1 DEF Returned
<1>3. /\ x.kind = "return" /\ x.sub = sub /\ x.ty = "any" /\ x.leaves /\ x.gives
      /\ odd \subseteq x.odd
      /\ \A j \in 1..Len(sub) : nodes[sub[j]].breaks \subseteq x.breaks
  <2>1. PICK k : k = "return"
    OBVIOUS
  <2>2. PICK p : p = FALSE
    OBVIOUS
  <2>3. PICK t, o : t = "any" /\ o = odd
    OBVIOUS
  <2>4. x = MakeNode(k, sub, t, p, o) /\ sub \in Seq(Nat \ {0})
    BY <1>2, <2>1, <2>2, <2>3
  <2>5. MadeOf(x, k, sub, t, p, o)
    BY ONLY <2>4, NodeIs
  <2> QED
    BY <2>1, <2>2, <2>3, <2>5 DEF MadeOf
<1>4. ~Misfit(sub[1], ret_type)
  BY <1>1, <1>3, FlagIs
<1>5. Ty(sub[1]) \in Types
  BY OperandsPlaced
<1>6. Fits(nodes[sub[1]], ret_type)
  BY <1>4, <1>5 DEF Misfit, Unifies, Fits, Ty, Types, TypeInv
<1> QED
  BY <1>3, <1>6 DEF Shaped

LEMMA MakeReturnShaped == ASSUME TypeInv, Regular, NodesInv, MakeReturn PROVE NodesInv'
<1>1. PICK sub : sub = Inner.sub
  OBVIOUS
<1>2. PICK x : x = Returned(sub)
  OBVIOUS
<1>3. Make("return", x) /\ "return" \in Kinds /\ Unifies(Ty(Last(sub)), ret_type)
  BY <1>1, <1>2 DEF MakeReturn, Kinds
<1>4. /\ sub \in Seq(Nat \ {0}) /\ Operands("return", Len(sub)) /\ Within(sub, nodes)
      /\ Len(sub) = 1
  BY <1>1, <1>3, SubIs DEF Operands
<1>5. Unifies(Ty(sub[1]), ret_type)
  BY <1>3, <1>4 DEF Last
<1>6. x.odd \subseteq {"dead_code"}
  BY <1>3, MadeRegular
<1>7. Shaped(x, nodes, ret_type) /\ x.kind = "return" /\ x.sub = sub
  BY <1>2, <1>4, <1>5, <1>6, ReturnedShaped
<1>8. nodes' = Append(nodes, x) /\ UNCHANGED ret_type
  BY <1>3 DEF Make
<1>9. Operands(x.kind, Len(x.sub)) /\ Within(x.sub, nodes) /\ Len(x.sub) \in Nat
  BY <1>4, <1>7 DEF Operands
<1> QED
  BY ONLY TypeInv, NodesInv, <1>7, <1>8, <1>9, MakeShaped

LEMMA MakeBlockShaped == ASSUME TypeInv, Regular, NodesInv, MakeBlock PROVE NodesInv'
<1>1. PICK sub : sub = Inner.sub
  OBVIOUS
<1>2. PICK odd : odd = Flag("dead_code", nodes[sub[1]].leaves)
  OBVIOUS
<1>3. PICK ty : ty = Ty(Last(sub))
  OBVIOUS
<1>4. PICK x : x = MakeNode("block", sub, ty, FALSE, odd)
  OBVIOUS
<1>5. Make("block", x) /\ "block" \in Kinds
  BY <1>1, <1>2, <1>3, <1>4 DEF MakeBlock, Kinds
<1>6. /\ sub \in Seq(Nat \ {0}) /\ Operands("block", Len(sub)) /\ Within(sub, nodes)
      /\ Len(sub) = 2 /\ 1 \in 1..Len(sub) /\ 2 \in 1..Len(sub)
  <2>1. /\ sub \in Seq(Nat \ {0}) /\ Operands("block", Len(sub)) /\ Within(sub, nodes)
    BY <1>1, <1>5, SubIs
  <2>2. Len(sub) = 2
    BY <2>1 DEF Operands
  <2> QED
    BY <2>1, <2>2
<1>7. /\ x.kind = "block" /\ x.sub = sub /\ x.ty = ty /\ x.gives = nodes[sub[2]].gives
      /\ x.leaves <=> \E j \in 1..Len(sub) : nodes[sub[j]].leaves
      /\ odd \subseteq x.odd /\ \A j \in 1..Len(sub) : nodes[sub[j]].odd \subseteq x.odd
      /\ \A j \in 1..Len(sub) : nodes[sub[j]].breaks \subseteq x.breaks
  <2>1. PICK k : k = "block"
    OBVIOUS
  <2>2. PICK p : p = FALSE
    OBVIOUS
  <2>3. PICK t, o : t = ty /\ o = odd
    OBVIOUS
  <2>4. x = MakeNode(k, sub, t, p, o) /\ sub \in Seq(Nat \ {0})
    BY <1>4, <1>6, <2>1, <2>2, <2>3
  <2>5. MadeOf(x, k, sub, t, p, o)
    BY ONLY <2>4, NodeIs
  <2> QED
    BY <2>1, <2>2, <2>3, <2>5 DEF MadeOf
<1>8. x.leaves <=> nodes[sub[1]].leaves \/ nodes[sub[2]].leaves
  BY <1>6, <1>7
<1>9. x.odd \subseteq {"dead_code"}
  BY <1>5, MadeRegular
<1>10. ty = nodes[sub[2]].ty
  BY <1>3, <1>6 DEF Last, Ty
<1>11. nodes[sub[1]].leaves => x.odd # {}
  BY <1>2, <1>7 DEF Flag
<1>12. Shaped(nodes[sub[2]], nodes, ret_type)
  <2>1. sub[2] \in 1..Len(nodes)
    BY <1>6 DEF Within
  <2> QED
    BY <2>1 DEF NodesInv
<1>13. /\ ty = "value" => nodes[sub[2]].gives
       /\ ty = "none" => ~nodes[sub[2]].gives
       /\ nodes[sub[2]].leaves => ty = "any" \/ x.odd # {}
  BY <1>6, <1>7, <1>10, <1>12 DEF Shaped
<1>14. Shaped(x, nodes, ret_type)
  BY <1>7, <1>8, <1>9, <1>10, <1>11, <1>13 DEF Shaped
<1>15. nodes' = Append(nodes, x) /\ UNCHANGED ret_type
  BY <1>5 DEF Make
<1>16. Operands(x.kind, Len(x.sub)) /\ Within(x.sub, nodes) /\ Len(x.sub) \in Nat
  BY <1>6, <1>7 DEF Operands
<1> QED
  BY ONLY TypeInv, NodesInv, <1>14, <1>15, <1>16, MakeShaped
(* The operands of an expression that is being generated that are          *)
(* conditions have a value.                                                *)
Conditions(fs, ns) ==
  \A k \in 1..Len(fs) : \A i \in 1..Len(fs[k].sub) :
    Condition(fs[k], i) => ns[fs[k].sub[i]].ty = "value"

LEMMA ConditionAdded ==
  ASSUME NEW fs \in Seq(Opened), fs # <<>>, NEW ns, NEW e \in Nat \ {0}, Conditions(fs, ns),
         Takes(Last(fs), ns[e].ty), NEW r, r = AddOperand(fs, e)
  PROVE  Conditions(r, ns)
<1>1. PICK n : n = Len(fs)
  OBVIOUS
<1>2. n \in Nat \ {0} /\ n \in 1..n /\ Last(fs) = fs[n] /\ DOMAIN fs = 1..n
  BY <1>1, EmptySeq, LenProperties DEF Last
<1>3. fs[n] \in Opened /\ fs[n].sub \in Seq(Nat \ {0})
  <2>1. fs[n] \in Opened
    BY <1>1, <1>2, ElementOfSeq
  <2> QED
    BY <2>1 DEF Opened
<1>4. PICK s : s = Append(fs[n].sub, e)
  OBVIOUS
<1>5. /\ s \in Seq(Nat \ {0}) /\ Len(s) = Len(fs[n].sub) + 1 /\ s[Len(fs[n].sub) + 1] = e
      /\ \A i \in 1..Len(fs[n].sub) : s[i] = fs[n].sub[i]
      /\ Len(fs[n].sub) \in Nat
  BY <1>3, <1>4, Appended
<1>6. PICK f : f = [fs[n] EXCEPT !.sub = s]
  OBVIOUS
<1>7. f \in Opened /\ f.sub = s /\ f.kind = fs[n].kind /\ f.arity = fs[n].arity
      /\ f.else = fs[n].else
  BY <1>3, <1>5, <1>6 DEF Opened
<1>8. \A i \in Nat : Condition(f, i) <=> Condition(fs[n], i)
  BY <1>7 DEF Condition
<1>9. r = [fs EXCEPT ![n] = f]
  BY <1>1, <1>4, <1>6 DEF AddOperand
<1>10. r \in Seq(Opened) /\ Len(r) = n
  BY <1>1, <1>2, <1>7, <1>9, ExceptSeq
<1>11. \A i \in 1..n : r[i] = IF i = n THEN f ELSE fs[i]
  BY <1>2, <1>9
<1>12. ASSUME NEW i \in 1..Len(s), Condition(f, i)
       PROVE  ns[s[i]].ty = "value"
  <2>1. CASE i \in 1..Len(fs[n].sub)
    BY <1>1, <1>2, <1>5, <1>8, <1>12, <2>1 DEF Conditions
  <2>2. CASE i = Len(fs[n].sub) + 1
    <3>1. i \in Nat /\ Condition(fs[n], i)
      BY <1>5, <1>8, <1>12, <2>2
    <3>2. ns[e].ty = "value"
      BY <1>2, <2>2, <3>1 DEF Takes
    <3> QED
      BY <1>5, <2>2, <3>2
  <2>3. PICK h : h = Len(fs[n].sub)
    OBVIOUS
  <2>4. h \in Nat /\ i \in 1..(h + 1)
    BY <1>5, <2>3
  <2>5. i \in 1..h \/ i = h + 1
    BY <2>4
  <2> QED
    BY <2>1, <2>2, <2>3, <2>5
<1> QED
  BY <1>1, <1>2, <1>7, <1>10, <1>11, <1>12 DEF Conditions

LEMMA ConditionsMore ==
  ASSUME NEW fs, NEW ns, NEW r, Conditions(fs, ns), \A i \in 1..Len(ns) : r[i] = ns[i],
         \A k \in 1..Len(fs) : Within(fs[k].sub, ns)
  PROVE  Conditions(fs, r)
BY DEF Conditions, Within

LEMMA MakeConditions ==
  ASSUME TypeInv, Conditions(open, nodes), NEW kind \in Kinds, NEW x, Make(kind, x)
  PROVE  /\ Conditions(open, nodes)' /\ nodes' = Append(nodes, x) /\ UNCHANGED ret_type
         /\ \A i \in 1..Len(Inner.sub) :
               Condition(Inner, i) => nodes[Inner.sub[i]].ty = "value"
<1>1. PICK n, fs, ns, e : n = Len(open) /\ fs = Front(open) /\ ns = nodes' /\ e = Len(nodes) + 1
  OBVIOUS
<1>2. /\ Inner.kind = kind /\ Takes(open[n - 1], x.ty)
      /\ ns = Append(nodes, x) /\ open' = AddOperand(fs, e) /\ UNCHANGED ret_type
  BY <1>1 DEF Make
<1>3. n \in Nat /\ n > 1 /\ open \in Seq(Opened) /\ open # <<>> /\ Inner = open[n] /\ n \in 1..n
  <2>1. kind # "function"
    BY DEF Kinds
  <2> QED
    BY <1>1, <1>2, <2>1, InnerIs DEF TypeInv, Forming
<1>4. fs \in Seq(Opened) /\ Len(fs) = n - 1 /\ \A i \in 1..(n - 1) : fs[i] = open[i]
  BY <1>1, <1>3, FrontIs
<1>5. fs # <<>> /\ Last(fs) = open[n - 1]
  <2>1. Len(<<>>) = 0 /\ n - 1 # 0 /\ n - 1 \in 1..(n - 1)
    BY <1>3
  <2> QED
    BY <1>4, <2>1 DEF Last
<1>6. /\ Len(nodes) \in Nat /\ ns[e] = x /\ \A i \in 1..Len(nodes) : ns[i] = nodes[i]
  <2>1. PICK S : S = Node \cup {x}
    OBVIOUS
  <2>2. nodes \in Seq(Node) /\ Len(nodes) \in Nat
    BY NodesTyped
  <2>3. nodes \in Seq(S) /\ x \in S
    <3>1. \A i \in 1..Len(nodes) : nodes[i] \in S
      BY <2>1, <2>2, ElementOfSeq
    <3>2. nodes \in [1..Len(nodes) -> S]
      BY <2>2, <3>1, LenProperties
    <3> QED
      BY <2>1, <2>2, <3>2, SeqDef
  <2> QED
    BY <1>1, <1>2, <2>2, <2>3, Appended
<1>7. \A k \in 1..Len(fs) : Within(fs[k].sub, nodes)
  <2>1. \A k \in 1..(n - 1) : k \in 1..n
    BY <1>3
  <2> QED
    BY <1>1, <1>4, <2>1 DEF TypeInv, Forming
<1>8. Conditions(fs, nodes)
  <2>1. \A k \in 1..(n - 1) : k \in 1..n
    BY <1>3
  <2> QED
    BY <1>1, <1>4, <2>1 DEF Conditions
<1>9. Conditions(fs, ns)
  BY <1>6, <1>7, <1>8, ConditionsMore
<1>10. e \in Nat \ {0} /\ Takes(Last(fs), ns[e].ty)
  BY <1>1, <1>2, <1>5, <1>6
<1>11. PICK r : r = AddOperand(fs, e)
  OBVIOUS
<1>12. Conditions(r, ns)
  BY <1>4, <1>5, <1>9, <1>10, <1>11, ConditionAdded
<1>13. \A i \in 1..Len(Inner.sub) : Condition(Inner, i) => nodes[Inner.sub[i]].ty = "value"
  BY <1>1, <1>3 DEF Conditions
<1> QED
  BY <1>1, <1>2, <1>11, <1>12, <1>13

(* The conditions are operands of the same numbers when an else is added.  *)
LEMMA WithElseKeeps ==
  ASSUME TypeInv, NEW kind \in {"if", "loop", "switch"}, Inner.kind = kind,
         Len(Inner.sub) = Inner.arity, NEW sub, sub = WithElse(Inner)
  PROVE  /\ \A i \in 1..Len(Inner.sub) : sub[i] = Inner.sub[i]
         /\ Len(Inner.sub) = IF Inner.else THEN Len(sub) ELSE Len(sub) - 1
         /\ Len(Inner.sub) \in IF Inner.else THEN {3, 5} ELSE {2, 4}
<1>1. /\ Inner.sub \in Seq(Nat \ {0}) /\ Len(Inner.sub) \in Nat /\ Formed(Inner)
  BY InnerIs
<1>2. CASE Inner.else
  BY <1>1, <1>2 DEF WithElse, Formed
<1>3. CASE ~Inner.else
  <2>1. PICK s, e : s = Inner.sub /\ e = NoneExpr
    OBVIOUS
  <2>2. e \in Nat \ {0} /\ sub = Append(s, e)
    BY <1>3, <2>1 DEF WithElse, NoneExpr
  <2>3. Len(sub) = Len(s) + 1 /\ \A i \in 1..Len(s) : sub[i] = s[i]
    BY <1>1, <2>1, <2>2, Appended
  <2>4. Len(s) \in {2, 4}
    BY <1>1, <1>3, <2>1 DEF Formed
  <2>5. Len(s) = Len(sub) - 1
    BY <1>1, <2>1, <2>3
  <2> QED
    BY <1>3, <2>1, <2>3, <2>4, <2>5
<1> QED
  BY <1>2, <1>3

LEMMA MakeIfShaped == ASSUME TypeInv, Regular, NodesInv, Conditions(open, nodes), MakeIf PROVE NodesInv' /\ Conditions(open, nodes)'
<1>1. PICK sub : sub = WithElse(Inner)
  OBVIOUS
<1>2. PICK leaving, misfit : /\ leaving = Flag("leaving_then", Ty(sub[2]) = "any")
                             /\ misfit = Flag("any_value", Ty(sub[2]) = "value" /\ Misfit(sub[3], "value"))
  OBVIOUS
<1>3. PICK odd : odd = leaving \cup misfit
  OBVIOUS
<1>4. PICK ty, phi : ty = Unified(Ty(sub[2]), Ty(sub[3])) /\ phi = Unifies(Ty(sub[2]), Ty(sub[3]))
  OBVIOUS
<1>5. PICK x : x = MakeNode("if", sub, ty, phi, odd)
  OBVIOUS
<1>6. Make("if", x) /\ Inner.kind = "if" /\ Len(Inner.sub) = Inner.arity
  BY <1>1, <1>2, <1>3, <1>4, <1>5 DEF MakeIf, Make
<1>7. /\ sub \in Seq(Nat \ {0}) /\ Within(sub, nodes) /\ Len(sub) = 3
      /\ 1 \in 1..Len(sub) /\ 2 \in 1..Len(sub) /\ 3 \in 1..Len(sub)
  <2>1. sub \in Seq(Nat \ {0}) /\ Within(sub, nodes) /\ Len(sub) = 3
    BY <1>1, <1>6, WithElseIs
  <2> QED
    BY <2>1
<1>8. /\ x.kind = "if" /\ x.sub = sub /\ x.ty = ty /\ x.phi = phi /\ ~x.leaves
      /\ x.gives = (nodes[sub[2]].gives /\ nodes[sub[3]].gives)
      /\ odd \subseteq x.odd
      /\ \A j \in 1..Len(sub) : nodes[sub[j]].breaks \subseteq x.breaks
  <2>1. PICK k : k = "if"
    OBVIOUS
  <2>2. x = MakeNode(k, sub, ty, phi, odd) /\ sub \in Seq(Nat \ {0})
    BY <1>5, <1>7, <2>1
  <2>3. MadeOf(x, k, sub, ty, phi, odd)
    BY ONLY <2>2, NodeIs
  <2> QED
    BY <2>1, <2>3 DEF MadeOf
<1>9. x.odd \subseteq {"dead_code"} /\ leaving \subseteq x.odd /\ misfit \subseteq x.odd
  BY <1>3, <1>6, <1>8, MadeRegular
<1>10. Ty(sub[2]) # "any" /\ ~(Ty(sub[2]) = "value" /\ Misfit(sub[3], "value"))
  <2>1. ~(Ty(sub[2]) = "any")
    BY <1>2, <1>9, FlagIs
  <2>2. ~(Ty(sub[2]) = "value" /\ Misfit(sub[3], "value"))
    BY <1>2, <1>9, FlagIs
  <2> QED
    BY <2>1, <2>2
<1>11. Ty(sub[2]) \in {"none", "value"} /\ Ty(sub[3]) \in {"any", "none", "value"}
  BY <1>7, <1>10, OperandsPlaced DEF Types
<1>12. nodes[sub[1]].ty = "value"
  <2>1. 1 \in 1..Len(Inner.sub) /\ sub[1] = Inner.sub[1]
    <3>1. Len(Inner.sub) \in {2, 3, 4, 5} /\ \A i \in 1..Len(Inner.sub) : sub[i] = Inner.sub[i]
      BY <1>1, <1>6, WithElseKeeps
    <3> QED
      BY <3>1
  <2>2. Condition(Inner, 1)
    BY <1>6 DEF Condition
  <2> QED
    BY <1>6, <2>1, <2>2, MakeConditions DEF Kinds
<1>13. /\ Shaped(nodes[sub[2]], nodes, ret_type) /\ Shaped(nodes[sub[3]], nodes, ret_type)
  BY <1>7 DEF NodesInv, Within
<1>14. /\ nodes[sub[2]].ty = "value" => nodes[sub[2]].gives
       /\ nodes[sub[3]].ty = "value" => nodes[sub[3]].gives
       /\ nodes[sub[2]].ty = "none" => ~nodes[sub[2]].gives
       /\ nodes[sub[3]].ty = "none" => ~nodes[sub[3]].gives
  BY <1>13 DEF Shaped
<1>15. /\ ty = "value" => Ty(sub[2]) = "value" /\ Ty(sub[3]) = "value" /\ phi
       /\ phi /\ Ty(sub[2]) = "value" => Ty(sub[3]) \in {"any", "value"}
       /\ phi /\ Ty(sub[2]) # "value" => Ty(sub[3]) # "value"
       /\ phi => ty = Ty(sub[3])
       /\ ~phi => ty = "none" /\ Ty(sub[2]) # Ty(sub[3]) /\ Ty(sub[3]) # "any"
  BY <1>4, <1>11 DEF Unified, Unifies
<1>16. ty = "value" => x.gives
  BY <1>8, <1>14, <1>15 DEF Ty
<1>17. ty = "none" => ~x.gives
  BY <1>8, <1>11, <1>14, <1>15 DEF Ty
<1>18. phi /\ Ty(sub[2]) = "value" => Fits(nodes[sub[3]], "value")
  BY <1>10, <1>11, <1>15 DEF Fits, Misfit, Ty
<1>19. Shaped(x, nodes, ret_type)
  BY <1>8, <1>9, <1>10, <1>12, <1>15, <1>16, <1>17, <1>18 DEF Shaped, Ty
<1>20. Operands(x.kind, Len(x.sub)) /\ Within(x.sub, nodes) /\ Len(x.sub) \in Nat
  BY <1>7, <1>8 DEF Operands
<1>21. nodes' = Append(nodes, x) /\ UNCHANGED ret_type /\ Conditions(open, nodes)'
  BY <1>6, MakeConditions DEF Kinds
<1> QED
  BY ONLY TypeInv, NodesInv, <1>19, <1>20, <1>21, MakeShaped
LEMMA MakeSwitchShaped ==
  ASSUME TypeInv, Regular, NodesInv, Conditions(open, nodes), MakeSwitch
  PROVE  NodesInv' /\ Conditions(open, nodes)'
<1>1. PICK sub : sub = WithElse(Inner)
  OBVIOUS
<1>2. PICK tys : tys = IF Inner.else THEN Append(BranchTypes(sub), Ty(Last(sub)))
                       ELSE BranchTypes(sub)
  OBVIOUS
<1>3. PICK ty : ty = IF Inner.else \/ Inner.exhaustive THEN TypeOrNone(SwitchType(tys))
                     ELSE "none"
  OBVIOUS
<1>4. PICK phi : phi = (ty = "value")
  OBVIOUS
<1>5. PICK misfits : misfits = {i \in Elems(Branches(sub)) : Misfit(i, ty)}
  OBVIOUS
<1>6. PICK omitted, misfit : /\ omitted = Flag("omitted_else", Inner.exhaustive /\ ty = "value")
                             /\ misfit = Flag("any_value", ty = "value" /\ misfits # {})
  OBVIOUS
<1>7. PICK odd : odd = omitted \cup misfit
  OBVIOUS
<1>8. PICK x : x = MakeNode("switch", sub, ty, phi, odd)
  OBVIOUS
<1>9. Make("switch", x) /\ Inner.kind = "switch" /\ Len(Inner.sub) = Inner.arity
  BY <1>1, <1>2, <1>3, <1>4, <1>5, <1>6, <1>7, <1>8 DEF MakeSwitch, Make
<1>10. /\ sub \in Seq(Nat \ {0}) /\ Operands("switch", Len(sub)) /\ Within(sub, nodes)
       /\ Len(sub) \in {3, 5} /\ Len(sub) \in 1..Len(sub)
  <2>1. /\ sub \in Seq(Nat \ {0}) /\ Operands("switch", Len(sub)) /\ Within(sub, nodes)
        /\ Len(sub) \in {3, 5}
    BY <1>1, <1>9, WithElseIs
  <2>2. 3 \in 1..3 /\ 5 \in 1..5
    OBVIOUS
  <2> QED
    BY ONLY <2>1, <2>2
<1>11. /\ x.kind = "switch" /\ x.sub = sub /\ x.ty = ty /\ x.phi = phi /\ ~x.leaves
       /\ x.gives = (ty = "value")
       /\ odd \subseteq x.odd
       /\ \A j \in 1..Len(sub) : nodes[sub[j]].breaks \subseteq x.breaks
  <2>1. PICK k : k = "switch"
    OBVIOUS
  <2>2. x = MakeNode(k, sub, ty, phi, odd) /\ sub \in Seq(Nat \ {0})
    BY <1>8, <1>10, <2>1
  <2>3. MadeOf(x, k, sub, ty, phi, odd)
    BY ONLY <2>2, NodeIs
  <2> QED
    BY <2>1, <2>3 DEF MadeOf
<1>12. x.odd \subseteq {"dead_code"} /\ omitted \subseteq x.odd /\ misfit \subseteq x.odd
  BY <1>7, <1>9, <1>11, MadeRegular
<1>13. ~(Inner.exhaustive /\ ty = "value") /\ ~(ty = "value" /\ misfits # {})
  <2>1. ~(Inner.exhaustive /\ ty = "value")
    BY <1>6, <1>12, FlagIs
  <2>2. ~(ty = "value" /\ misfits # {})
    BY <1>6, <1>12, FlagIs
  <2> QED
    BY <2>1, <2>2
<1>14. PICK bt : bt = BranchTypes(sub)
  OBVIOUS
<1>15. bt \in Seq(Types) /\ bt # <<>> /\ Len(bt) \in 1..2
  BY <1>10, <1>14, BranchesAre
<1>16. Ty(Last(sub)) \in Types /\ Last(sub) = sub[Len(sub)]
  BY <1>10, OperandsPlaced DEF Last
<1>17. PICK final : final = Ty(Last(sub))
  OBVIOUS
<1>18. PICK at : at = Append(bt, final)
  OBVIOUS
<1>19. /\ at \in Seq(Types) /\ Last(at) = final /\ \A i \in 1..Len(bt) : at[i] = bt[i]
       /\ Len(at) = Len(bt) + 1
  <2>1. PICK S : S = Types
    OBVIOUS
  <2>2. bt \in Seq(S) /\ final \in S /\ at = Append(bt, final)
    BY <1>15, <1>16, <1>17, <1>18, <2>1
  <2>3. /\ at \in Seq(S) /\ Last(at) = final /\ \A i \in 1..Len(bt) : at[i] = bt[i]
        /\ Len(at) = Len(bt) + 1
    <3>1. /\ at \in Seq(S) /\ Len(at) = Len(bt) + 1 /\ at[Len(bt) + 1] = final
          /\ \A i \in 1..Len(bt) : at[i] = bt[i]
      BY <2>2, AppendProperties
    <3> QED
      BY <3>1 DEF Last
  <2> QED
    BY <2>1, <2>3
<1>20. ty \in {"none", "value"}
  <2>1. tys \in Seq(Types) /\ tys # <<>>
    <3>1. at # <<>>
      <4>1. Len(<<>>) = 0 /\ Len(at) # 0
        BY <1>15, <1>19
      <4> QED
        BY <4>1
    <3> QED
      BY <1>2, <1>14, <1>15, <1>17, <1>18, <1>19, <3>1
  <2>2. TypeOrNone(SwitchType(tys)) \in Types
    BY <2>1, SwitchTypeTyped
  <2>3. TypeOrNone(SwitchType(tys)) # "any"
    BY DEF TypeOrNone
  <2> QED
    BY <1>3, <2>2, <2>3 DEF Types
<1>21. ASSUME ty = "value"
       PROVE  tys = at /\ final = "value" /\ \A i \in 1..Len(bt) : bt[i] \in {"any", "value"}
  <2>1. Inner.else /\ TypeOrNone(SwitchType(tys)) = "value"
    BY <1>3, <1>13, <1>21
  <2>2. tys = at
    BY <1>2, <1>14, <1>17, <1>18, <2>1
  <2>3. SwitchType(at) = "value"
    BY <2>1, <2>2 DEF TypeOrNone
  <2>4. "none" \notin Elems(at) /\ final = "value"
    BY <1>19, <2>3 DEF SwitchType
  <2>5. \A i \in 1..Len(at) : at[i] # "none" /\ at[i] \in Types
    BY <1>19, <2>4, ElemsAre, ElementOfSeq
  <2>6. \A i \in 1..Len(bt) : i \in 1..Len(at)
    BY <1>15, <1>19
  <2> QED
    BY <1>19, <2>2, <2>4, <2>5, <2>6 DEF Types
<1>22. PICK br : br = Branches(sub)
  OBVIOUS
<1>23. PICK n : n = Len(sub) \div 2
  OBVIOUS
<1>24. (Len(sub) = 3 => n = 1) /\ (Len(sub) = 5 => n = 2)
  <2>1. 3 \div 2 = 1 /\ 5 \div 2 = 2
    OBVIOUS
  <2> QED
    BY <1>23, <2>1
<1>25. br = [i \in 1..n |-> sub[2 * i]] /\ bt = [i \in 1..n |-> Ty(br[i])]
  BY <1>14, <1>22, <1>23 DEF Branches, BranchTypes
<1>26. ASSUME NEW c \in 1..2, 2 * c < Len(sub)
       PROVE  c \in 1..n /\ br[c] = sub[2 * c] /\ bt[c] = Ty(sub[2 * c])
  <2>1. PICK l : l = Len(sub)
    OBVIOUS
  <2>2. (l = 3 => n = 1) /\ (l = 5 => n = 2) /\ l \in {3, 5} /\ 2 * c < l
    BY <1>10, <1>24, <1>26, <2>1
  <2>3. c \in 1..n
    BY ONLY <2>2, c \in 1..2
  <2> QED
    BY <1>25, <2>3
<1>27. Len(bt) = n
  <2>1. DOMAIN bt = 1..Len(bt) /\ DOMAIN bt = 1..n
    BY <1>15, <1>25, LenProperties
  <2>2. n \in 1..2
    BY <1>10, <1>24
  <2>3. PICK l : l = Len(bt)
    OBVIOUS
  <2>4. l \in 1..2 /\ 1..l = 1..n
    BY <1>15, <2>1, <2>3
  <2>5. l = n
    <3>1. l \in 1..n /\ n \in 1..l
      BY <2>2, <2>4
    <3> QED
      BY <2>2, <2>4, <3>1
  <2> QED
    BY <2>3, <2>5
<1>28. ASSUME NEW c \in 1..2, 2 * c < Len(sub)
       PROVE  nodes[sub[2 * c - 1]].ty = "value"
  <2>1. /\ \A i \in 1..Len(Inner.sub) : sub[i] = Inner.sub[i]
        /\ Len(Inner.sub) = IF Inner.else THEN Len(sub) ELSE Len(sub) - 1
    BY <1>1, <1>9, WithElseKeeps
  <2>2. PICK i : i = 2 * c - 1
    OBVIOUS
  <2>3. i \in {1, 3} /\ i < Len(sub) - 1
    BY <1>10, <1>28, <2>2
  <2>4. i \in 1..Len(Inner.sub) /\ i % 2 = 1 /\ ~(Inner.else /\ i = Inner.arity)
    <3>1. 1 % 2 = 1 /\ 3 % 2 = 1
      OBVIOUS
    <3>2. i % 2 = 1
      BY <2>3, <3>1
    <3> QED
      BY <1>9, <1>10, <2>1, <2>3, <3>2
  <2>5. Condition(Inner, i)
    BY <1>9, <2>4 DEF Condition
  <2>6. nodes[Inner.sub[i]].ty = "value"
    BY <1>9, <2>4, <2>5, MakeConditions DEF Kinds
  <2>7. sub[i] = Inner.sub[i]
    BY <2>1, <2>4
  <2> QED
    BY <2>2, <2>6, <2>7
<1>29. ASSUME ty = "value", NEW c \in 1..2, 2 * c < Len(sub)
       PROVE  Fits(nodes[sub[2 * c]], "value")
  <2>1. PICK e : e = sub[2 * c]
    OBVIOUS
  <2>2. Ty(e) \in {"any", "value"}
    BY <1>21, <1>26, <1>27, <1>29, <2>1
  <2>3. e \in Elems(br)
    <3>1. DOMAIN br = 1..n
      BY <1>25
    <3> QED
      BY <1>26, <1>29, <2>1, <3>1 DEF Elems
  <2>4. ~Misfit(e, "value")
    BY <1>5, <1>13, <1>22, <1>29, <2>3
  <2>5. Fits(nodes[e], "value")
    BY <2>2, <2>4 DEF Misfit, Fits, Ty
  <2> QED
    BY <2>1, <2>5
<1>30. ty = "value" => nodes[sub[Len(sub)]].ty = "value"
  BY <1>16, <1>17, <1>21 DEF Ty
<1>31. Shaped(x, nodes, ret_type)
  BY <1>4, <1>11, <1>12, <1>20, <1>28, <1>29, <1>30 DEF Shaped, CasesOf
<1>32. Operands(x.kind, Len(x.sub)) /\ Within(x.sub, nodes) /\ Len(x.sub) \in Nat
  BY <1>10, <1>11 DEF Operands
<1>33. nodes' = Append(nodes, x) /\ UNCHANGED ret_type /\ Conditions(open, nodes)'
  BY <1>9, MakeConditions DEF Kinds
<1> QED
  BY ONLY TypeInv, NodesInv, <1>31, <1>32, <1>33, MakeShaped

LEMMA MakeLoopShaped ==
  ASSUME TypeInv, Regular, NodesInv, Conditions(open, nodes), MakeLoop
  PROVE  NodesInv' /\ Conditions(open, nodes)'
<1>1. PICK sub : sub = WithElse(Inner)
  OBVIOUS
<1>2. PICK odd : odd = LoopOddities(sub)
  OBVIOUS
<1>3. PICK ty, phi : ty = Unified(Ty(sub[2]), Ty(sub[3])) /\ phi = Unifies(Ty(sub[2]), Ty(sub[3]))
  OBVIOUS
<1>4. PICK x : x = MakeNode("loop", sub, ty, phi, odd)
  OBVIOUS
<1>5. Make("loop", x) /\ Inner.kind = "loop" /\ Len(Inner.sub) = Inner.arity
  BY <1>1, <1>2, <1>3, <1>4 DEF MakeLoop, Make
<1>6. /\ sub \in Seq(Nat \ {0}) /\ Within(sub, nodes) /\ Len(sub) = 3
      /\ 2 \in 1..Len(sub) /\ 3 \in 1..Len(sub)
  <2>1. sub \in Seq(Nat \ {0}) /\ Within(sub, nodes) /\ Len(sub) = 3
    BY <1>1, <1>5, WithElseIs
  <2> QED
    BY <2>1
<1>7. /\ x.kind = "loop" /\ x.sub = sub /\ x.ty = ty /\ x.phi = phi /\ ~x.leaves
      /\ x.gives = (ty = "value") /\ odd \subseteq x.odd
  <2>1. PICK k : k = "loop"
    OBVIOUS
  <2>2. x = MakeNode(k, sub, ty, phi, odd) /\ sub \in Seq(Nat \ {0})
    BY <1>4, <1>6, <2>1
  <2>3. MadeOf(x, k, sub, ty, phi, odd)
    BY ONLY <2>2, NodeIs
  <2> QED
    BY <2>1, <2>3 DEF MadeOf
<1>8. x.odd \subseteq {"dead_code"} /\ odd \subseteq x.odd
  BY <1>5, <1>7, MadeRegular
<1>9. PICK given, fitting :
        /\ given = nodes[sub[2]].breaks \cup nodes[sub[3]].breaks
        /\ fitting = IF Ty(sub[3]) = "value" THEN {"value"} ELSE {"none", "void"}
  OBVIOUS
<1>10. /\ ~(phi /\ Ty(sub[3]) = "any") /\ ~(phi /\ ~(given \subseteq fitting))
       /\ ~(phi /\ Misfit(sub[2], Ty(sub[3]))) /\ ~(sub[1] # CallExpr)
  <2>1. PICK f1, f2, f3, f4 :
          /\ f1 = Flag("any_loop", phi /\ Ty(sub[3]) = "any")
          /\ f2 = Flag("mixed_breaks", phi /\ ~(given \subseteq fitting))
          /\ f3 = Flag("any_value", phi /\ Misfit(sub[2], Ty(sub[3])))
          /\ f4 = Flag("branching_condition", sub[1] # CallExpr)
    OBVIOUS
  <2>2. odd = f1 \cup f2 \cup f3 \cup f4
    BY <1>2, <1>3, <1>9, <2>1 DEF LoopOddities
  <2>3. f1 \subseteq x.odd /\ f2 \subseteq x.odd /\ f3 \subseteq x.odd /\ f4 \subseteq x.odd
    BY <1>8, <2>2
  <2>4. ~(phi /\ Ty(sub[3]) = "any")
    BY <1>8, <2>1, <2>3, FlagIs
  <2>5. ~(phi /\ ~(given \subseteq fitting))
    BY <1>8, <2>1, <2>3, FlagIs
  <2>6. ~(phi /\ Misfit(sub[2], Ty(sub[3])))
    BY <1>8, <2>1, <2>3, FlagIs
  <2>7. ~(sub[1] # CallExpr)
    BY <1>8, <2>1, <2>3, FlagIs
  <2> QED
    BY <2>4, <2>5, <2>6, <2>7
<1>11. Ty(sub[2]) \in Types /\ Ty(sub[3]) \in Types
  BY <1>6, OperandsPlaced
<1>12. (~phi => ty = "none") /\ (phi => ty = Ty(sub[3])) /\ ty \in {"none", "value"}
  BY <1>3, <1>10, <1>11 DEF Unified, Unifies, Types
<1>13. ASSUME phi
       PROVE  Fits(nodes[sub[2]], ty) /\ nodes[sub[3]].ty = ty
  <2>1. Ty(sub[2]) = "any" \/ Ty(sub[2]) = ty
    BY <1>3, <1>10, <1>12, <1>13 DEF Unifies
  <2>2. ~Misfit(sub[2], ty)
    BY <1>10, <1>12, <1>13
  <2> QED
    BY <1>12, <1>13, <2>1, <2>2 DEF Misfit, Fits, Ty
<1>14. phi => nodes[sub[2]].breaks \cup nodes[sub[3]].breaks \subseteq
                IF ty = "value" THEN {"value"} ELSE {"none", "void"}
  BY <1>9, <1>10, <1>12
<1>15. Shaped(x, nodes, ret_type)
  BY <1>7, <1>8, <1>10, <1>12, <1>13, <1>14 DEF Shaped
<1>16. Operands(x.kind, Len(x.sub)) /\ Within(x.sub, nodes) /\ Len(x.sub) \in Nat
  BY <1>6, <1>7 DEF Operands
<1>17. nodes' = Append(nodes, x) /\ UNCHANGED ret_type /\ Conditions(open, nodes)'
  BY <1>5, MakeConditions DEF Kinds
<1> QED
  BY ONLY TypeInv, NodesInv, <1>15, <1>16, <1>17, MakeShaped
(* Nothing but regular shapes is made.                                     *)
Shapely == NodesInv /\ (phase = "gir" => Conditions(open, nodes))

LEMMA PushLeafShaped == ASSUME TypeInv, Shapely, PushLeaf PROVE Shapely'
<1>1. PICK i \in 1..5 : Takes(Inner, nodes[i].ty) /\ open' = AddOperand(open, i)
  BY DEF PushLeaf
<1>2. open \in Seq(Opened) /\ open # <<>> /\ i \in Nat \ {0}
  BY DEF TypeInv, Forming
<1>3. PICK r : r = AddOperand(open, i)
  OBVIOUS
<1>4. Takes(Last(open), nodes[i].ty) /\ Conditions(open, nodes)
  BY <1>1 DEF Inner, PushLeaf, Shapely
<1>5. Conditions(r, nodes)
  BY <1>2, <1>3, <1>4, ConditionAdded
<1> QED
  BY <1>1, <1>3, <1>5 DEF PushLeaf, Shapely, NodesInv

LEMMA DescendShaped == ASSUME TypeInv, Shapely, Descend PROVE Shapely'
<1>1. PICK f \in Forms : open' = Append(open, f)
  BY DEF Descend
<1>2. f \in Opened /\ f.sub = <<>> /\ Len(<<>>) = 0 /\ 1..0 = {}
  BY FormsFormed
<1>3. PICK r, n : r = Append(open, f) /\ n = Len(open)
  OBVIOUS
<1>4. open \in Seq(Opened) /\ Conditions(open, nodes)
  BY DEF TypeInv, Forming, Descend, Shapely
<1>5. Len(r) = n + 1 /\ r[n + 1] = f /\ n \in Nat /\ \A i \in 1..n : r[i] = open[i]
  BY <1>2, <1>3, <1>4, Appended
<1>6. ASSUME NEW k \in 1..(n + 1), NEW i \in 1..Len(r[k].sub), Condition(r[k], i)
      PROVE  nodes[r[k].sub[i]].ty = "value"
  <2>1. CASE k = n + 1
    BY <1>2, <1>5, <2>1
  <2>2. CASE k \in 1..n
    BY <1>3, <1>4, <1>5, <1>6, <2>2 DEF Conditions
  <2> QED
    BY <1>5, <2>1, <2>2
<1>7. Conditions(r, nodes)
  BY <1>5, <1>6 DEF Conditions
<1> QED
  BY <1>1, <1>3, <1>7 DEF Descend, Shapely, NodesInv

LEMMA StartFunctionShaped == ASSUME TypeInv, Regular, Shapely, StartFunction PROVE Shapely'
<1>1. PICK body : body = Inner.sub[1]
  OBVIOUS
<1>2. /\ Inner.kind = "function" /\ Len(Inner.sub) = 1 /\ UNCHANGED ret_type /\ phase' = "ir"
      /\ NodesInv
  BY DEF StartFunction, Shapely
<1>3. body \in 1..Len(nodes) /\ body \in Nat \ {0}
  <2>1. Within(Inner.sub, nodes) /\ 1 \in 1..Len(Inner.sub)
    BY <1>2, InnerIs
  <2>2. body \in 1..Len(nodes) /\ Len(nodes) \in Nat
    BY <1>1, <2>1, NodesTyped DEF Within
  <2> QED
    BY <2>2
<1>4. CASE ret_type = "none"
  <2>1. nodes' = nodes
    BY <1>4 DEF StartFunction
  <2> QED
    BY <1>2, <2>1 DEF Shapely, NodesInv
<1>5. CASE ret_type # "none"
  <2>1. PICK s : s = <<body>>
    OBVIOUS
  <2>2. PICK x : x = Returned(s)
    OBVIOUS
  <2>3. nodes' = Append(nodes, x) /\ Unifies(Ty(body), ret_type) /\ x.odd \subseteq Odd
    BY <1>1, <1>5, <2>1, <2>2 DEF StartFunction
  <2>4. s \in Seq(Nat \ {0}) /\ Len(s) = 1 /\ s[1] = body /\ Within(s, nodes)
    <3>1. s \in Seq(Nat \ {0}) /\ Len(s) = 1 /\ s[1] = body
      BY <1>3, <2>1
    <3>2. \A j \in 1..1 : j = 1
      OBVIOUS
    <3> QED
      BY <1>3, <3>1, <3>2 DEF Within
  <2>5. x.odd \subseteq {"dead_code"}
    BY <2>3 DEF Regular
  <2>6. Shaped(x, nodes, ret_type) /\ x.kind = "return" /\ x.sub = s
    BY <1>2, <2>2, <2>3, <2>4, <2>5, ReturnedShaped
  <2>7. Operands(x.kind, Len(x.sub)) /\ Within(x.sub, nodes) /\ Len(x.sub) \in Nat
    BY <2>4, <2>6 DEF Operands
  <2>8. NodesInv'
    BY ONLY TypeInv, <1>2, <2>3, <2>6, <2>7, MakeShaped
  <2> QED
    BY <1>2, <2>8 DEF Shapely
<1> QED
  BY <1>4, <1>5

LEMMA LeavesShaped ==
  ASSUME NEW ret \in {"none", "value"}, NEW ns, ns = Leaves(ret)
  PROVE  /\ Len(ns) = 5 /\ ns[CallExpr].kind = "call"
         /\ \A i \in 1..5 : Shaped(ns[i], ns, ret)
<1>1. PICK s1, s2 : s1 = <<NoneExpr>> /\ s2 = <<CallExpr>>
  OBVIOUS
<1>2. PICK e : e = IF ret = "none" THEN NoneExpr ELSE CallExpr
  OBVIOUS
<1>3. PICK call, none, leave, give, back :
         /\ call = Leaf("call", <<>>, "value", {}, FALSE)
         /\ none = Leaf("none", <<>>, "none", {}, FALSE)
         /\ leave = Leaf("break", s1, "any", {"void"}, TRUE)
         /\ give = Leaf("break", s2, "any", {"value"}, TRUE)
         /\ back = Leaf("return", <<e>>, "any", {}, TRUE)
  OBVIOUS
<1>4. ns = <<call, none, leave, give, back>>
  BY <1>1, <1>2, <1>3 DEF Leaves
<1>5. /\ Len(ns) = 5 /\ ns[1] = call /\ ns[2] = none /\ ns[3] = leave /\ ns[4] = give
      /\ ns[5] = back /\ Len(s1) = 1 /\ s1[1] = 2 /\ Len(s2) = 1 /\ s2[1] = 1
      /\ Len(<<e>>) = 1 /\ <<e>>[1] = e
  BY <1>1, <1>4 DEF NoneExpr, CallExpr
<1>6. /\ call.kind = "call" /\ call.sub = <<>> /\ call.ty = "value" /\ ~call.leaves
      /\ call.breaks = {} /\ call.gives /\ call.odd = {}
  BY <1>3 DEF Leaf
<1>7. /\ none.kind = "none" /\ none.sub = <<>> /\ none.ty = "none" /\ ~none.leaves
      /\ none.breaks = {} /\ ~none.gives /\ none.odd = {}
  BY <1>3 DEF Leaf
<1>8. /\ leave.kind = "break" /\ leave.sub = s1 /\ leave.ty = "any" /\ leave.leaves
      /\ leave.breaks = {"void"} /\ leave.gives /\ leave.odd = {}
  BY <1>3 DEF Leaf
<1>9. /\ give.kind = "break" /\ give.sub = s2 /\ give.ty = "any" /\ give.leaves
      /\ give.breaks = {"value"} /\ give.gives /\ give.odd = {}
  BY <1>3 DEF Leaf
<1>10. /\ back.kind = "return" /\ back.sub = <<e>> /\ back.ty = "any" /\ back.leaves
       /\ back.breaks = {} /\ back.gives /\ back.odd = {}
  BY <1>3 DEF Leaf
<1>11. \A i \in 1..1 : i = 1
  OBVIOUS
<1>12. Shaped(call, ns, ret) /\ Shaped(none, ns, ret)
  BY <1>6, <1>7 DEF Shaped
<1>13. Shaped(leave, ns, ret)
  BY <1>5, <1>7, <1>8, <1>11 DEF Shaped
<1>14. Shaped(give, ns, ret)
  BY <1>5, <1>6, <1>9, <1>11 DEF Shaped
<1>15. Shaped(back, ns, ret)
  <2>1. ns[e].ty = ret /\ ns[e].breaks = {}
    BY <1>2, <1>5, <1>6, <1>7 DEF NoneExpr, CallExpr
  <2> QED
    BY <1>5, <1>10, <1>11, <2>1 DEF Shaped, Fits
<1>16. \A i \in 1..5 : i = 1 \/ i = 2 \/ i = 3 \/ i = 4 \/ i = 5
  OBVIOUS
<1>17. \A i \in 1..5 : Shaped(ns[i], ns, ret)
  BY <1>5, <1>12, <1>13, <1>14, <1>15, <1>16
<1> QED
  BY <1>5, <1>6, <1>17 DEF CallExpr

LEMMA InitShaped == ASSUME Init PROVE Shapely
<1>1. NodesInv
  BY LeavesShaped DEF Init, NodesInv
<1>2. PICK f : f = Form("function", 1, FALSE)
  OBVIOUS
<1>3. f.sub = <<>> /\ open = <<f>> /\ Len(open) = 1 /\ open[1] = f /\ 1..0 = {} /\ Len(<<>>) = 0
  BY <1>2 DEF Form, Init
<1>4. \A i \in 1..1 : i = 1
  OBVIOUS
<1>5. Conditions(open, nodes)
  BY <1>3, <1>4 DEF Conditions
<1> QED
  BY <1>1, <1>5 DEF Shapely

LEMMA ShapingShaped == ASSUME TypeInv, Regular, Shapely, Shaping PROVE Shapely'
<1>1. phase = "gir" /\ NodesInv /\ Conditions(open, nodes)
  BY DEF Shaping, PushLeaf, Descend, MakeBreak, MakeReturn, MakeBlock, MakeIf, MakeSwitch,
         MakeLoop, Make, Shapely
<1>2. CASE PushLeaf \/ Descend
  BY <1>2, PushLeafShaped, DescendShaped
<1>3. CASE MakeIf \/ MakeSwitch \/ MakeLoop
  BY <1>1, <1>3, MakeIfShaped, MakeSwitchShaped, MakeLoopShaped DEF Shapely
<1>4. CASE MakeBreak
  <2>1. PICK x : Make("break", x) /\ "break" \in Kinds
    BY <1>4 DEF MakeBreak, Kinds
  <2>2. Conditions(open, nodes)'
    BY <1>1, <2>1, MakeConditions
  <2> QED
    BY <1>1, <1>4, <2>2, MakeBreakShaped DEF Shapely
<1>5. CASE MakeReturn
  <2>1. PICK x : Make("return", x) /\ "return" \in Kinds
    BY <1>5 DEF MakeReturn, Kinds
  <2>2. Conditions(open, nodes)'
    BY <1>1, <2>1, MakeConditions
  <2> QED
    BY <1>1, <1>5, <2>2, MakeReturnShaped DEF Shapely
<1>6. CASE MakeBlock
  <2>1. PICK x : Make("block", x) /\ "block" \in Kinds
    BY <1>6 DEF MakeBlock, Kinds
  <2>2. Conditions(open, nodes)'
    BY <1>1, <2>1, MakeConditions
  <2> QED
    BY <1>1, <1>6, <2>2, MakeBlockShaped DEF Shapely
<1> QED
  BY <1>2, <1>3, <1>4, <1>5, <1>6 DEF Shaping

-----------------------------------------------------------------------------
(* What the walk keeps to when no shape but dead code is odd.              *)

(* The operand that a call goes on with when the inner one returns.        *)
PlaceOf(kind, f, k) ==
  CASE kind = "block" -> f.case
    [] kind = "switch" /\ f.pc = "cond" -> 2 * f.case - 1
    [] kind = "switch" /\ f.pc = "case" -> 2 * f.case
    [] kind = "switch" /\ f.pc = "else" -> k
    [] kind \in {"if", "loop"} /\ f.pc \in {"then", "body"} -> 2
    [] kind \in {"if", "loop"} /\ f.pc = "else" -> 3
    [] OTHER -> 1
OperandOf(f) == nodes[f.node].sub[PlaceOf(KindOf(f), f, Len(nodes[f.node].sub))]

Chain(fs) == \A k \in 1..(Len(fs) - 1) : fs[k].pc # "visit" /\ fs[k + 1].node = OperandOf(fs[k])

(* The k-th call is of the innermost loop around the j-th one.             *)
Encloses(fs, k, j) == k < j /\ IsLoop(fs[k]) /\ \A i \in (k + 1)..(j - 1) : ~IsLoop(fs[i])

(* A break has its loop.                                                   *)
GivenTo(n) == nodes[n.sub[2]].breaks \cup nodes[n.sub[3]].breaks
Broken(fs) ==
  \A j \in 1..Len(fs) : nodes[fs[j].node].breaks # {} =>
    \E k \in 1..Len(fs) : /\ Encloses(fs, k, j)
                          /\ nodes[fs[j].node].breaks \subseteq GivenTo(nodes[fs[k].node])

(* Values of branches are only kept in these places.                       *)
Fresher(f) == \/ f.pc \in {"visit", "then", "body"}
              \/ f.pc = "cond" /\ KindOf(f) \in {"if", "loop"}
Empties(fs) == \A k \in 1..Len(fs) : Fresher(fs[k]) => fs[k].incoming = <<>>

(* The second operand of a block whose first one leaves is not emitted,    *)
(* and the second condition of a loop is emitted where the body ended.     *)
Abandoned(f) == KindOf(f) = "block" /\ f.pc = "block" /\ f.case = 2
                /\ nodes[nodes[f.node].sub[1]].leaves
OnTop(fs, k) == k = Len(fs) \/ (k = Len(fs) - 1 /\ fs[k + 1].pc = "visit")
Still(fs, g) ==
  \A k \in 1..Len(fs) :
    /\ Abandoned(fs[k]) => OnTop(fs, k) /\ g.insert = 0
    /\ fs[k].pc = "again" => OnTop(fs, k) /\ g.insert # 0 /\ g.insert = fs[k].incoming[1].b
    /\ fs[k].pc = "visit" /\ ~DeadCode => g.insert # 0

(* The blocks that a call still branches to.                               *)
HeldAt(kind, pc) ==
  CASE kind = "if" /\ pc = "then" -> {2, 3}
    [] kind = "if" /\ pc = "else" -> {3}
    [] kind = "switch" /\ pc = "cond" -> {1, 2, 3}
    [] kind = "switch" /\ pc = "case" -> {1, 2}
    [] kind = "switch" /\ pc = "else" -> {1}
    [] kind = "loop" /\ pc \in {"cond", "body", "again"} -> {1, 2, 3}
    [] kind = "loop" /\ pc = "else" -> {3}
    [] OTHER -> {}
Holds(f) == HeldAt(KindOf(f), f.pc)
Held(f) == {f.blocks[j] : j \in Holds(f)}
AllHeld(fs) == UNION {Held(fs[i]) : i \in 1..Len(fs)}
Apart(fs) ==
  /\ 1 \notin AllHeld(fs)
  /\ \A i, k \in 1..Len(fs) : i # k => Held(fs[i]) \cap Held(fs[k]) = {}
  /\ \A i \in 1..Len(fs) : \A a, b \in Holds(fs[i]) : fs[i].blocks[a] = fs[i].blocks[b] => a = b

PredsIn(g, b) == {p \in 1..Len(g.term) : b \in g.term[p].to}
Drawn(g) ==
  /\ Len(g.term) >= 1 /\ \A p \in 1..Len(g.term) : g.term[p].to \subseteq 2..Len(g.term)
  /\ g.insert # 0 => g.last = g.insert

(* Every way into the block where values are merged has its value.         *)
CountedBlocks(in) == {in[i].b : i \in Counted(in)}
EndPlace(kind) == IF kind = "switch" THEN 1 ELSE 3
EndBlock(f) == f.blocks[EndPlace(KindOf(f))]
Merges(n) == n.phi /\ IF n.kind = "if" THEN nodes[n.sub[2]].ty = "value" ELSE n.ty = "value"
Gathered(f) == IF f.pc = "again" THEN {} ELSE CountedBlocks(f.incoming)

LoopFed(f, g, data) ==
  LET n == nodes[f.node]
  IN  /\ data.phi = n.phi /\ data.end = f.blocks[3]
      /\ Merges(n) => PredsIn(g, f.blocks[3]) = CountedBlocks(data.nodes) \cup Gathered(f)
      /\ n.phi /\ ~Merges(n) => /\ Counted(data.nodes) = {}
                                /\ f.pc = "else" => Counted(f.incoming) = {}
BranchFed(f, g) ==
  LET n == nodes[f.node]
  IN  HasBlocks(n.kind, f.pc) =>
        /\ n.kind = "if" /\ f.pc = "then" => PredsIn(g, EndBlock(f)) = {}
        /\ n.kind = "if" /\ f.pc = "else" => Len(f.incoming) = 1
        /\ Merges(n) => PredsIn(g, EndBlock(f)) = Gathered(f)
        /\ n.kind = "if" /\ f.pc = "else" /\ n.phi =>
              IF Merges(n) THEN Counted(f.incoming) # {} \/ DeadCode
              ELSE Counted(f.incoming) = {}
Fed(fs, g) ==
  /\ \A k \in 1..Len(fs) : ~IsLoop(fs[k]) => BranchFed(fs[k], g)
  /\ \A k \in 1..Len(fs) : Encloses(fs, k, Len(fs) + 1) => LoopFed(fs[k], g, g.loop)
  /\ \A k, j \in 1..Len(fs) : Encloses(fs, k, j) /\ IsLoop(fs[j]) => LoopFed(fs[k], g, fs[j].outer)

Merged(g, held) == \A x \in g.merges : /\ x.from = PredsIn(g, x.at) /\ x.at \in 1..Len(g.term)
                                       /\ x.at \notin held

(* d is on every way from the entry to b: no way enters D but at d.  This  *)
(* stays so, as what is emitted branches to blocks that are held or new.   *)
Reach(d, b, g, held) ==
  \E D \in SUBSET (1..Len(g.term)) :
    /\ d \in D /\ b \in D /\ (1 \in D => d = 1)
    /\ \A p \in 1..Len(g.term) : \A x \in g.term[p].to : x \in D \ {d} => p \in D
    /\ (D \ {d}) \cap held = {}

(* A value is computed on every way to the end of b.                       *)
SoundAt(v, b, g, held) ==
  v.ty = "value" => (v.real \/ DeadCode) /\ (v.real => Reach(v.def, b, g, held))
Sound(in, g, held) == \A i \in 1..Len(in) : SoundAt(in[i].v, in[i].b, g, held)
AllSound(fs, g, held) ==
  /\ \A k \in 1..Len(fs) : /\ Sound(fs[k].incoming, g, held)
                           /\ IsLoop(fs[k]) => Sound(fs[k].outer.nodes, g, held)
  /\ Sound(g.loop.nodes, g, held)
  /\ \A u \in g.uses : Reach(u.def, u.at, g, held)

(* What the evaluation of an expression gives.                             *)
Delivers(e, v, g, held) ==
  /\ g.insert = 0 => v = NoneConst /\ (e.leaves \/ DeadCode)
  /\ e.ty = "none" => v = NoneConst
  /\ g.insert # 0 => /\ ~e.leaves /\ (e.gives => v.ty = "value")
                     /\ SoundAt(v, g.insert, g, held)
Delivered(fs, g, v) == fs # <<>> /\ Last(fs).pc # "visit"
                         => Delivers(nodes[OperandOf(Last(fs))], v, g, AllHeld(fs))

(* A function that returns a value does not reach its end.                 *)
Rooted(fs, g) ==
  ret_type = "value" => IF fs = <<>> THEN g.insert = 0 ELSE nodes[fs[1].node].leaves

Faultless(g) == ~DeadCode => g.faults = {}

Kept(fs, g, v) ==
  /\ Chain(fs) /\ Broken(fs) /\ Empties(fs) /\ Still(fs, g) /\ Apart(fs) /\ Drawn(g)
  /\ Fed(fs, g) /\ Merged(g, AllHeld(fs)) /\ AllSound(fs, g, AllHeld(fs))
  /\ Delivered(fs, g, v) /\ Faultless(g)

-----------------------------------------------------------------------------
(* Blocks and branches.                                                    *)

(* From g to r the block inserted into comes to branch to T, and blocks    *)
(* may have been made.                                                     *)
Links(g, r, T) ==
  /\ Len(g.term) <= Len(r.term) /\ Len(r.term) \in Nat
  /\ \A b \in 1..Len(g.term) : b # g.insert => r.term[b].to = g.term[b].to
  /\ g.insert # 0 => r.term[g.insert].to = T
  /\ \A b \in (Len(g.term) + 1)..Len(r.term) : r.term[b].to = {}

LEMMA InsertIs ==
  ASSUME NEW g, Emitting(g)
  PROVE  /\ Len(g.term) \in Nat /\ g.insert \in 0..Len(g.term)
         /\ g.insert # 0 => g.insert \in 1..Len(g.term) /\ g.term[g.insert].to = {}
BY GeneratorIs DEF Emitting, Open

LEMMA PredsLinked ==
  ASSUME NEW g, Emitting(g), NEW r, NEW T, Links(g, r, T), NEW b
  PROVE  PredsIn(r, b) = PredsIn(g, b) \cup IF g.insert # 0 /\ b \in T THEN {g.insert} ELSE {}
<1>1. /\ Len(g.term) \in Nat /\ Len(r.term) \in Nat /\ Len(g.term) <= Len(r.term)
      /\ g.insert # 0 => g.insert \in 1..Len(g.term) /\ g.term[g.insert].to = {}
  BY InsertIs DEF Links
<1>2. ASSUME NEW p \in 1..Len(r.term)
      PROVE  b \in r.term[p].to <=> \/ p \in 1..Len(g.term) /\ b \in g.term[p].to
                                    \/ g.insert # 0 /\ b \in T /\ p = g.insert
  <2>1. CASE p \in (Len(g.term) + 1)..Len(r.term)
    BY <1>1, <2>1 DEF Links
  <2>2. CASE p \in 1..Len(g.term) /\ p # g.insert
    BY <1>1, <2>2 DEF Links
  <2>3. CASE p \in 1..Len(g.term) /\ p = g.insert
    BY <1>1, <2>3 DEF Links
  <2> QED
    BY <1>1, <2>1, <2>2, <2>3
<1>3. \A p \in 1..Len(g.term) : p \in 1..Len(r.term)
  BY <1>1
<1> QED
  BY <1>1, <1>2, <1>3 DEF PredsIn

LEMMA PredsNew ==
  ASSUME NEW g, Drawn(g), NEW b, b \notin 2..Len(g.term)
  PROVE  PredsIn(g, b) = {}
BY DEF Drawn, PredsIn

(* Branches to blocks that are held, or new, do not go around a value.     *)
LEMMA ReachKept ==
  ASSUME NEW g, Emitting(g), NEW r, NEW T, Links(g, r, T), NEW held, NEW kept,
         \A t \in T : t \in held \/ t \notin 1..Len(g.term),
         \A h \in kept : h \in held \/ h \notin 1..Len(g.term),
         NEW d, NEW b, Reach(d, b, g, held)
  PROVE  Reach(d, b, r, kept)
<1>1. PICK D \in SUBSET (1..Len(g.term)) :
        /\ d \in D /\ b \in D /\ (1 \in D => d = 1)
        /\ \A p \in 1..Len(g.term) : \A x \in g.term[p].to : x \in D \ {d} => p \in D
        /\ (D \ {d}) \cap held = {}
  BY DEF Reach
<1>2. /\ Len(g.term) \in Nat /\ Len(r.term) \in Nat /\ Len(g.term) <= Len(r.term)
      /\ g.insert # 0 => g.insert \in 1..Len(g.term) /\ g.term[g.insert].to = {}
  BY InsertIs DEF Links
<1>3. D \in SUBSET (1..Len(r.term))
  BY <1>2
<1>4. ASSUME NEW p \in 1..Len(r.term), NEW x \in r.term[p].to, x \in D \ {d}
      PROVE  p \in D
  <2>1. x \notin T
    BY <1>1, <1>4
  <2>2. CASE p \in (Len(g.term) + 1)..Len(r.term)
    BY <1>2, <1>4, <2>2 DEF Links
  <2>3. CASE p \in 1..Len(g.term) /\ p # g.insert
    BY <1>1, <1>4, <2>3 DEF Links
  <2>4. CASE p \in 1..Len(g.term) /\ p = g.insert
    BY <1>2, <1>4, <2>1, <2>4 DEF Links
  <2> QED
    BY <1>2, <2>2, <2>3, <2>4
<1>5. (D \ {d}) \cap kept = {}
  BY <1>1
<1> QED
  BY <1>1, <1>3, <1>4, <1>5 DEF Reach

LEMMA ReachSelf ==
  ASSUME NEW g, NEW held, NEW d \in 1..Len(g.term)
  PROVE  Reach(d, d, g, held)
BY {d} \in SUBSET (1..Len(g.term)) DEF Reach

(* The only way to e is from b.                                            *)
LEMMA ReachOn ==
  ASSUME NEW g, NEW held, NEW d, NEW b, Reach(d, b, g, held), Len(g.term) \in Nat,
         NEW e \in 2..Len(g.term), e \notin held, PredsIn(g, e) \subseteq {b}
  PROVE  Reach(d, e, g, held)
<1>1. PICK D \in SUBSET (1..Len(g.term)) :
        /\ d \in D /\ b \in D /\ (1 \in D => d = 1)
        /\ \A p \in 1..Len(g.term) : \A x \in g.term[p].to : x \in D \ {d} => p \in D
        /\ (D \ {d}) \cap held = {}
  BY DEF Reach
<1>2. PICK E : E = D \cup {e}
  OBVIOUS
<1>3. E \in SUBSET (1..Len(g.term)) /\ d \in E /\ e \in E /\ (1 \in E => d = 1)
  BY <1>1, <1>2
<1>4. ASSUME NEW p \in 1..Len(g.term), NEW x \in g.term[p].to, x \in E \ {d}
      PROVE  p \in E
  <2>1. CASE x = e
    BY <1>1, <1>2, <2>1, <1>4 DEF PredsIn
  <2>2. CASE x # e
    BY <1>1, <1>2, <1>4, <2>2
  <2> QED
    BY <2>1, <2>2
<1>5. (E \ {d}) \cap held = {}
  BY <1>1, <1>2
<1> QED
  BY <1>3, <1>4, <1>5 DEF Reach

LEMMA DrawnKept ==
  ASSUME NEW g, Emitting(g), Drawn(g), NEW r, NEW T, Links(g, r, T),
         T \subseteq 2..Len(r.term), r.insert # 0 => r.last = r.insert
  PROVE  Drawn(r)
<1>1. /\ Len(g.term) \in Nat /\ Len(r.term) \in Nat /\ Len(g.term) <= Len(r.term)
      /\ Len(g.term) >= 1
      /\ g.insert # 0 => g.insert \in 1..Len(g.term)
  BY InsertIs DEF Links, Drawn
<1>2. ASSUME NEW p \in 1..Len(r.term)
      PROVE  r.term[p].to \subseteq 2..Len(r.term)
  <2>1. CASE p \in (Len(g.term) + 1)..Len(r.term)
    BY <1>1, <2>1 DEF Links
  <2>2. CASE p \in 1..Len(g.term) /\ p # g.insert
    <3>1. r.term[p].to \subseteq 2..Len(g.term)
      BY <2>2 DEF Links, Drawn
    <3> QED
      BY <1>1, <3>1
  <2>3. CASE p \in 1..Len(g.term) /\ p = g.insert
    <3>1. g.insert # 0
      BY <1>1, <2>3
    <3>2. r.term[p].to = T
      BY <2>3, <3>1 DEF Links
    <3> QED
      BY <3>2
  <2> QED
    BY <1>1, <2>1, <2>2, <2>3
<1> QED
  BY <1>1, <1>2 DEF Drawn

LEMMA SoundKept ==
  ASSUME NEW g, Emitting(g), NEW r, NEW T, Links(g, r, T), NEW held, NEW kept,
         \A t \in T : t \in held \/ t \notin 1..Len(g.term),
         \A h \in kept : h \in held \/ h \notin 1..Len(g.term),
         NEW in, Sound(in, g, held)
  PROVE  Sound(in, r, kept)
<1>1. \A d, b : Reach(d, b, g, held) => Reach(d, b, r, kept)
  BY ReachKept
<1> QED
  BY <1>1 DEF Sound, SoundAt

-----------------------------------------------------------------------------
(* What the builder's operators do to branches, uses and merges.           *)

(* Nothing but how blocks end, and scopes, changes.                        *)
Quiet(g, r) == /\ r.uses = g.uses /\ r.merges = g.merges /\ r.faults = g.faults
               /\ r.loop = g.loop

LEMMA LinksSame ==
  ASSUME NEW g, Emitting(g), NEW r, r.term = g.term
  PROVE  Links(g, r, {})
BY InsertIs DEF Links

LEMMA LinksFurther ==
  ASSUME NEW g, Emitting(g), NEW a, Emitting(a), a.insert = g.insert, Links(g, a, {}),
         NEW r, NEW T, Links(a, r, T)
  PROVE  Links(g, r, T)
<1>1. /\ Len(g.term) \in Nat /\ Len(a.term) \in Nat /\ Len(r.term) \in Nat
      /\ Len(g.term) <= Len(a.term) /\ Len(a.term) <= Len(r.term)
      /\ g.insert \in 0..Len(g.term)
  BY InsertIs DEF Links
<1>2. ASSUME NEW b \in 1..Len(g.term), b # g.insert
      PROVE  r.term[b].to = g.term[b].to
  <2>1. b \in 1..Len(a.term)
    BY <1>1
  <2> QED
    BY <1>2, <2>1 DEF Links
<1>3. ASSUME NEW b \in (Len(g.term) + 1)..Len(r.term)
      PROVE  r.term[b].to = {}
  <2>1. CASE b \in (Len(a.term) + 1)..Len(r.term)
    BY <2>1 DEF Links
  <2>2. CASE b \in (Len(g.term) + 1)..Len(a.term)
    <3>1. b \in 1..Len(a.term) /\ b # a.insert
      BY <1>1, <2>2
    <3> QED
      BY <2>2, <3>1 DEF Links
  <2> QED
    BY <1>1, <2>1, <2>2
<1> QED
  BY <1>1, <1>2, <1>3 DEF Links

(* r only differs from a generator that g comes to in other things.        *)
LEMMA LinksAs ==
  ASSUME NEW g, NEW a, NEW T, Links(g, a, T), NEW r, r.term = a.term
  PROVE  Links(g, r, T)
BY DEF Links

LEMMA TerminateLinks ==
  ASSUME NEW g, Emitting(g), NEW t \in Terminator, NEW r, r = Terminate(g, t)
  PROVE  Links(g, r, t.to) /\ Quiet(g, r) /\ r.insert = 0
<1>1. /\ Len(g.term) \in Nat /\ g.insert \in 0..Len(g.term) /\ g \in Generator
      /\ DOMAIN g.term = 1..Len(g.term) /\ g.term \in Seq(Terminator)
  BY InsertIs, GeneratorIs DEF Emitting
<1>2. CASE g.insert = 0
  BY <1>1, <1>2 DEF Terminate, Links, Quiet
<1>3. CASE g.insert # 0
  <2>1. PICK b, ts : b = g.insert /\ ts = [g.term EXCEPT ![b] = t]
    OBVIOUS
  <2>2. r = [g EXCEPT !.term = ts, !.insert = 0]
    BY <1>3, <2>1 DEF Terminate
  <2>3. /\ r.term = ts /\ r.insert = 0 /\ r.uses = g.uses /\ r.merges = g.merges
        /\ r.faults = g.faults /\ r.loop = g.loop
    BY <1>1, <2>2 DEF Generator
  <2>4. Len(ts) = Len(g.term)
    BY <1>1, <2>1, ExceptSeq
  <2>5. ts[b] = t /\ \A i \in 1..Len(g.term) : i # b => ts[i] = g.term[i]
    BY <1>1, <1>3, <2>1
  <2> QED
    BY <1>1, <2>1, <2>3, <2>4, <2>5 DEF Links, Quiet
<1> QED
  BY <1>2, <1>3

LEMMA JumpLinks ==
  ASSUME NEW g, Emitting(g), NEW b \in Nat, NEW r, r = UnconditionalBranch(g, b)
  PROVE  Links(g, r, {b}) /\ Quiet(g, r) /\ r.insert = 0
<1>1. Br({b}) \in Terminator /\ Br({b}).to = {b}
  BY BranchTyped DEF Br
<1>2. PICK t : t = Br({b})
  OBVIOUS
<1>3. r = Terminate(g, t)
  BY <1>2 DEF UnconditionalBranch
<1> QED
  BY <1>1, <1>2, <1>3, TerminateLinks

(* A value is used, if it is an instruction.                               *)
Uses(g, r, v) ==
  \/ r.uses = g.uses
  \/ /\ v.real /\ g.insert # 0
     /\ r.uses = g.uses \cup {[def |-> v.def, at |-> g.insert]}

LEMMA UseUses ==
  ASSUME NEW g \in Generator, NEW v, NEW r, r = Use(g, v)
  PROVE  /\ r.term = g.term /\ r.insert = g.insert /\ r.merges = g.merges
         /\ r.faults = g.faults /\ r.loop = g.loop /\ r.last = g.last /\ Uses(g, r, v)
BY DEF Use, Uses, Generator

LEMMA ConditionalBranchLinks ==
  ASSUME NEW g, Emitting(g), NEW v \in Value, NEW a \in Nat, NEW b \in Nat,
         NEW r, r = ConditionalBranch(g, v, a, b)
  PROVE  /\ Links(g, r, {a, b}) /\ Uses(g, r, v) /\ r.merges = g.merges
         /\ r.faults = g.faults /\ r.loop = g.loop
<1>1. PICK u, t : u = Use(g, v) /\ t = Br({a, b})
  OBVIOUS
<1>2. r = Terminate(u, t)
  BY <1>1 DEF ConditionalBranch
<1>3. /\ u.term = g.term /\ u.insert = g.insert /\ u.merges = g.merges
      /\ u.faults = g.faults /\ u.loop = g.loop /\ Uses(g, u, v)
  BY <1>1, UseUses DEF Emitting
<1>4. Emitting(u)
  BY <1>1, UseIs, RecordsIs DEF Emitting
<1>5. t \in Terminator /\ t.to = {a, b}
  BY <1>1, BranchTyped DEF Br
<1>6. Links(u, r, {a, b}) /\ Quiet(u, r)
  BY <1>2, <1>4, <1>5, TerminateLinks
<1> QED
  BY <1>3, <1>6 DEF Links, Quiet, Uses

LEMMA AppendBlocksLinks ==
  ASSUME NEW g, Emitting(g), NEW k \in Nat, NEW r, r = AppendBlocks(g, k)
  PROVE  Links(g, r, {}) /\ Quiet(g, r) /\ r.insert = g.insert /\ r.last = g.last
<1>1. /\ Emitting(r) /\ r.insert = g.insert
      /\ Len(r.term) = Len(g.term) + k
      /\ \A b \in 1..Len(g.term) : r.term[b] = g.term[b]
      /\ \A i \in 1..k : r.term[Len(g.term) + i] = Open
  BY AppendBlocksIs
<1>2. Len(g.term) \in Nat /\ (g.insert # 0 => g.insert \in 1..Len(g.term) /\ g.term[g.insert].to = {})
  BY InsertIs
<1>3. r.uses = g.uses /\ r.merges = g.merges /\ r.faults = g.faults /\ r.loop = g.loop
      /\ r.last = g.last
  BY DEF AppendBlocks, Emitting, Generator
<1>4. ASSUME NEW b \in (Len(g.term) + 1)..Len(r.term)
      PROVE  r.term[b].to = {}
  <2>1. b - Len(g.term) \in 1..k /\ Len(g.term) + (b - Len(g.term)) = b
    BY <1>1, <1>2
  <2>2. r.term[b] = Open
    BY <1>1, <2>1
  <2> QED
    BY <2>2 DEF Open
<1> QED
  BY <1>1, <1>2, <1>3, <1>4 DEF Links, Quiet

LEMMA PositionQuiet ==
  ASSUME NEW g \in Generator, NEW b, NEW r, r = PositionAt(g, b)
  PROVE  Quiet(g, r) /\ r.term = g.term /\ r.insert = b /\ r.last = b
BY DEF PositionAt, Quiet, Generator

LEMMA PushQuiet ==
  ASSUME NEW g \in Generator, NEW r, r = PushLocalScope(g)
  PROVE  Quiet(g, r) /\ r.term = g.term /\ r.insert = g.insert /\ r.last = g.last
BY DEF PushLocalScope, Quiet, Generator

LEMMA PopQuiet ==
  ASSUME NEW g \in Generator, NEW r, r = PopLocals(g)
  PROVE  Quiet(g, r) /\ r.term = g.term /\ r.insert = g.insert /\ r.last = g.last
BY DEF PopLocals, Quiet, Generator

-----------------------------------------------------------------------------
(* The calls around the innermost one.                                     *)

LEMMA HeldIs ==
  ASSUME NEW f, NEW n, Calling(f, n)
  PROVE  /\ Holds(f) \subseteq 1..3 /\ Held(f) \subseteq 1..n
         /\ Holds(f) # {} => HasBlocks(KindOf(f), f.pc)
         /\ f.pc = "visit" => Holds(f) = {} /\ Held(f) = {}
<1>1. /\ Holds(f) \subseteq 1..3
      /\ Holds(f) # {} => HasBlocks(KindOf(f), f.pc)
      /\ f.pc = "visit" => Holds(f) = {}
  BY DEF Holds, HeldAt, HasBlocks
<1>2. HasBlocks(KindOf(f), f.pc) => \A i \in 1..3 : f.blocks[i] \in 1..n
  BY DEF Calling, Placed
<1> QED
  BY <1>1, <1>2 DEF Held

LEMMA EnclosesSame ==
  ASSUME NEW fs, NEW hs, NEW n \in Nat, \A i \in 1..(n - 1) : fs[i] = hs[i],
         NEW k \in Nat \ {0}, NEW j \in 1..n, Encloses(fs, k, j)
  PROVE  Encloses(hs, k, j)
<1>1. k \in 1..(n - 1) /\ \A i \in (k + 1)..(j - 1) : i \in 1..(n - 1)
  BY DEF Encloses
<1> QED
  BY <1>1 DEF Encloses

(* The innermost call is in the same loops as the calls around it, if they *)
(* are none.                                                               *)
LEMMA EnclosesFurther ==
  ASSUME NEW fs, NEW j \in Nat, NEW k \in Nat
  PROVE  /\ Encloses(fs, k, j) /\ ~IsLoop(fs[j]) => Encloses(fs, k, j + 1)
         /\ Encloses(fs, k, j + 1) /\ k # j => Encloses(fs, k, j) /\ ~IsLoop(fs[j])
         /\ k = j /\ IsLoop(fs[j]) => Encloses(fs, k, j + 1)
<1>1. ASSUME Encloses(fs, k, j), ~IsLoop(fs[j])
      PROVE  Encloses(fs, k, j + 1)
  <2>1. \A i \in (k + 1)..(j + 1 - 1) : i \in (k + 1)..(j - 1) \/ i = j
    OBVIOUS
  <2> QED
    BY <1>1, <2>1 DEF Encloses
<1>2. ASSUME Encloses(fs, k, j + 1), k # j
      PROVE  Encloses(fs, k, j) /\ ~IsLoop(fs[j])
  <2>1. k < j /\ j \in (k + 1)..(j + 1 - 1)
    BY <1>2 DEF Encloses
  <2>2. \A i \in (k + 1)..(j - 1) : i \in (k + 1)..(j + 1 - 1)
    OBVIOUS
  <2> QED
    BY <1>2, <2>1, <2>2 DEF Encloses
<1>3. k = j /\ IsLoop(fs[j]) => Encloses(fs, k, j + 1)
  <2>1. \A i \in (j + 1)..(j + 1 - 1) : FALSE
    OBVIOUS
  <2> QED
    BY <2>1 DEF Encloses
<1> QED
  BY <1>1, <1>2, <1>3

LEMMA EnclosesOne ==
  ASSUME NEW fs, NEW i \in Nat, NEW k \in Nat, NEW j \in Nat, Encloses(fs, i, j), Encloses(fs, k, j)
  PROVE  i = k
<1>1. i < j /\ k < j
  BY DEF Encloses
<1>2. CASE i < k
  <2>1. k \in (i + 1)..(j - 1)
    BY <1>1, <1>2
  <2> QED
    BY <2>1 DEF Encloses
<1>3. CASE k < i
  <2>1. i \in (k + 1)..(j - 1)
    BY <1>1, <1>3
  <2> QED
    BY <2>1 DEF Encloses
<1> QED
  BY <1>2, <1>3

LEMMA LoopHolds ==
  ASSUME NEW f, NEW n, Calling(f, n), IsLoop(f)
  PROVE  3 \in Holds(f) /\ f.blocks[3] \in Held(f)
<1>1. f.pc \in {"cond", "body", "again", "else"} /\ KindOf(f) = "loop"
  BY DEF Calling, Placed, PlacesOf, IsLoop
<1>2. 3 \in Holds(f)
  BY <1>1 DEF Holds, HeldAt
<1> QED
  BY <1>2 DEF Held

LEMMA BranchHolds ==
  ASSUME NEW f, NEW n, Calling(f, n), ~IsLoop(f), HasBlocks(KindOf(f), f.pc)
  PROVE  EndBlock(f) \in Held(f)
<1>1. \/ KindOf(f) = "if" /\ f.pc \in {"then", "else"}
      \/ KindOf(f) = "switch" /\ f.pc \in {"cond", "case", "else"}
  BY DEF Calling, Placed, PlacesOf, IsLoop, HasBlocks
<1>2. EndPlace(KindOf(f)) \in Holds(f)
  BY <1>1 DEF Holds, HeldAt, EndPlace
<1> QED
  BY <1>2 DEF Held, EndBlock

(* A call around is not disturbed by branches to blocks of others.         *)
LEMMA FedKept ==
  ASSUME NEW g, Emitting(g), NEW r, NEW T, Links(g, r, T), NEW f, Calling(f, Len(g.term)),
         T \cap Held(f) = {}
  PROVE  /\ ~IsLoop(f) /\ BranchFed(f, g) => BranchFed(f, r)
         /\ \A data : IsLoop(f) /\ LoopFed(f, g, data) => LoopFed(f, r, data)
<1>1. ASSUME NEW b \in Held(f)
      PROVE  PredsIn(r, b) = PredsIn(g, b)
  <2>1. b \notin T
    OBVIOUS
  <2>2. PredsIn(r, b) = PredsIn(g, b) \cup IF g.insert # 0 /\ b \in T THEN {g.insert} ELSE {}
    BY PredsLinked
  <2> QED
    BY <2>1, <2>2
<1>2. IsLoop(f) => PredsIn(r, f.blocks[3]) = PredsIn(g, f.blocks[3])
  BY <1>1, LoopHolds
<1>3. ~IsLoop(f) /\ HasBlocks(KindOf(f), f.pc) => PredsIn(r, EndBlock(f)) = PredsIn(g, EndBlock(f))
  BY <1>1, BranchHolds
<1>4. ~IsLoop(f) /\ BranchFed(f, g) => BranchFed(f, r)
  BY <1>3 DEF BranchFed, KindOf
<1>5. \A data : IsLoop(f) /\ LoopFed(f, g, data) => LoopFed(f, r, data)
  BY <1>2 DEF LoopFed
<1> QED
  BY <1>4, <1>5

(* What is emitted by a step of the innermost call.                        *)
Emits(g, T) ==
  /\ Emitting(g) /\ Links(m, g, T) /\ T \subseteq 2..Len(g.term)
  /\ \A t \in T : t \in AllHeld(frames) \/ t \notin 1..Len(m.term)
  /\ g.insert # 0 => g.last = g.insert
  /\ \A u \in g.uses : Reach(u.def, u.at, m, AllHeld(frames))
  /\ Sound(g.loop.nodes, m, AllHeld(frames))
  /\ Faultless(g)

(* The innermost call goes on as f.                                        *)
Moves(f, g, T) ==
  /\ Emits(g, T) /\ g.merges = m.merges
  /\ \A t \in T : t \in Held(top) \/ t \notin 1..Len(m.term)
  /\ f.node = top.node /\ f.pc # "visit" /\ Calling(f, Len(g.term))
  /\ \A h \in Held(f) : h # 1 /\ (h \in Held(top) \/ h \notin 1..Len(m.term))
  /\ \A a, b \in Holds(f) : f.blocks[a] = f.blocks[b] => a = b
  /\ Fresher(f) => f.incoming = <<>>
  /\ IF IsLoop(f)
     THEN LoopFed(f, g, g.loop) /\ f.outer = IF IsLoop(top) THEN top.outer ELSE m.loop
     ELSE ~IsLoop(top) /\ g.loop = m.loop /\ BranchFed(f, g)
  /\ Sound(f.incoming, m, AllHeld(frames))
  /\ top.pc = "visit" => m.insert # 0
  /\ Abandoned(f) => g.insert = 0
  /\ f.pc = "again" => g.insert # 0 /\ g.insert = f.incoming[1].b
  /\ ~DeadCode => g.insert # 0

(* It returns v.                                                           *)
Finishes(v, g, T) ==
  LET n == Len(frames)
      rest == AllHeld(Front(frames))
  IN  /\ Emits(g, T)
      /\ \A x \in g.merges : \/ x \in m.merges
                             \/ /\ x.from = PredsIn(g, x.at) /\ x.at \in 1..Len(g.term)
                                /\ x.at \notin rest
      /\ \A k \in 1..(n - 1) : Encloses(frames, k, n) => LoopFed(frames[k], g, g.loop)
      /\ \A k \in 1..(n - 1) : T \cap Held(frames[k]) = {} \/ Encloses(frames, k, n)
      /\ top.pc = "visit" /\ (m.insert = 0 \/ node.kind = "call") => g.insert = m.insert
      /\ Delivers(node, v, g, rest)

(* The calls after a call has gone on, or returned.                        *)
OthersKept(fs) == Len(fs) \in Nat /\ \A i \in 1..(Len(frames) - 1) : fs[i] = frames[i]
Evaluated(fs, f) ==
  LET n == Len(frames)
  IN  /\ OthersKept(fs) /\ Len(fs) = n + 1 /\ fs[n] = f
      /\ fs[n + 1].pc = "visit" /\ fs[n + 1].incoming = <<>> /\ fs[n + 1].node = OperandOf(f)
Popped(fs) == OthersKept(fs) /\ Len(fs) = Len(frames) - 1

LEMMA FramesAre ==
  ASSUME TypeInv, frames # <<>>
  PROVE  /\ Len(frames) \in Nat \ {0} /\ top = frames[Len(frames)] /\ Emitting(m)
         /\ \A k \in 1..Len(frames) : Calling(frames[k], Len(m.term))
         /\ Len(m.term) \in Nat /\ frames \in Seq(Frame)
<1>1. Walk(frames, m)
  BY DEF TypeInv
<1> QED
  BY <1>1, TopIs DEF Walk

LEMMA EvaluatedIs ==
  ASSUME TypeInv, frames # <<>>, NEW f \in Frame, NEW g, NEW e, e = OperandOf(f),
         NEW fs, fs = Append(Append(Front(frames), f), NewFrame(e, g))
  PROVE  Evaluated(fs, f)
<1>1. frames \in Seq(Frame)
  BY FramesAre
<1>2. PICK hs : hs = Front(frames)
  OBVIOUS
<1>3. PICK q : q = NewFrame(e, g)
  OBVIOUS
<1>4. PICK n : n = Len(frames)
  OBVIOUS
<1>5. n \in Nat \ {0} /\ hs \in Seq(Frame) /\ Len(hs) = n - 1 /\ \A i \in 1..(n - 1) : hs[i] = frames[i]
  BY <1>1, <1>2, <1>4, FrontIs
<1>6. PICK h1 : h1 = Append(hs, f)
  OBVIOUS
<1>7. h1 \in Seq(Frame) /\ Len(h1) = n /\ h1[n] = f /\ \A i \in 1..(n - 1) : h1[i] = frames[i]
  BY <1>5, <1>6, AppendProperties
<1>8. PICK S : S = Frame \cup {q}
  OBVIOUS
<1>9. h1 \in Seq(S) /\ q \in S
  <2>1. \A i \in 1..n : h1[i] \in S
    BY <1>5, <1>7, <1>8, ElementOfSeq
  <2>2. DOMAIN h1 = 1..n /\ h1 = [i \in DOMAIN h1 |-> h1[i]]
    BY <1>7, LenProperties
  <2>3. h1 \in [1..n -> S]
    BY <2>1, <2>2
  <2> QED
    BY <1>5, <1>8, <2>3, SeqDef
<1>10. fs = Append(h1, q)
  BY <1>2, <1>3, <1>6
<1>11. Len(fs) = n + 1 /\ fs[n + 1] = q /\ \A i \in 1..n : fs[i] = h1[i]
  BY <1>7, <1>9, <1>10, AppendProperties
<1>12. fs[n] = f /\ \A i \in 1..(n - 1) : fs[i] = frames[i]
  BY <1>5, <1>7, <1>11
<1>13. q.pc = "visit" /\ q.incoming = <<>> /\ q.node = OperandOf(f)
  BY <1>3 DEF NewFrame
<1> QED
  BY <1>4, <1>5, <1>11, <1>12, <1>13 DEF Evaluated, OthersKept

LEMMA ReturnedIs ==
  ASSUME TypeInv, frames # <<>>
  PROVE  Popped(Front(frames))
<1>1. PICK hs : hs = Front(frames)
  OBVIOUS
<1>2. frames \in Seq(Frame)
  BY FramesAre
<1>3. /\ Len(frames) \in Nat \ {0} /\ Len(hs) = Len(frames) - 1
      /\ \A i \in 1..(Len(frames) - 1) : hs[i] = frames[i]
  BY <1>1, <1>2, FrontIs
<1> QED
  BY <1>1, <1>3 DEF Popped, OthersKept

(* The operand that a call goes on with is there.                          *)
LEMMA PlaceIs ==
  ASSUME NEW f, NEW n, Calling(f, n), f.pc # "visit", Expressions(nodes)
  PROVE  /\ PlaceOf(KindOf(f), f, Len(nodes[f.node].sub)) \in 1..Len(nodes[f.node].sub)
         /\ OperandOf(f) \in 1..Len(nodes)
         /\ KindOf(f) \in {"break", "return", "block", "if", "switch", "loop"}
<1>1. /\ f.node \in 1..Len(nodes) /\ Placed(f, KindOf(f), Len(nodes[f.node].sub), n)
      /\ f.case \in Nat
  BY CallingIs DEF Calling
<1>2. PICK k, kind : k = Len(nodes[f.node].sub) /\ kind = KindOf(f)
  OBVIOUS
<1>3. Operands(kind, k) /\ Within(nodes[f.node].sub, nodes) /\ kind \in Kinds
  <2>1. nodes[f.node] \in Node
    BY <1>1, ElementOfSeq DEF Expressions
  <2> QED
    BY <1>1, <1>2, <2>1 DEF Expressions, KindOf, Node
<1>4. f.pc \in PlacesOf(kind)
  BY <1>1, <1>2 DEF Placed
<1>5. kind \in {"break", "return", "block", "if", "switch", "loop"}
  BY <1>3, <1>4 DEF PlacesOf, Kinds
<1>6. PlaceOf(kind, f, k) \in 1..k
  <2>1. CASE kind \in {"break", "return"}
    <3>1. k = 1 /\ PlaceOf(kind, f, k) = 1
      BY <1>3, <2>1 DEF Operands, PlaceOf
    <3> QED
      BY <3>1
  <2>2. CASE kind = "block"
    <3>1. k = 2 /\ PlaceOf(kind, f, k) = f.case /\ f.case \in 1..2
      BY <1>1, <1>2, <1>3, <2>2 DEF Operands, PlaceOf, Placed
    <3> QED
      BY <3>1
  <2>3. CASE kind \in {"if", "loop"}
    <3>1. k = 3 /\ PlaceOf(kind, f, k) \in 1..3
      BY <1>3, <2>3 DEF Operands, PlaceOf
    <3> QED
      BY <3>1
  <2>4. CASE kind = "switch"
    <3>1. k \in {3, 5} /\ f.case \in 1..3 /\ f.pc \in {"cond", "case", "else"}
          /\ (f.pc \in {"cond", "case"} => 2 * f.case + 1 <= k)
      BY <1>1, <1>2, <1>3, <1>4, <2>4 DEF Operands, Placed, PlacesOf
    <3>2. /\ f.pc = "cond" => PlaceOf(kind, f, k) = 2 * f.case - 1
          /\ f.pc = "case" => PlaceOf(kind, f, k) = 2 * f.case
          /\ f.pc = "else" => PlaceOf(kind, f, k) = k
      BY <2>4 DEF PlaceOf
    <3>3. CASE f.pc = "cond"
      BY <3>1, <3>2, <3>3
    <3>4. CASE f.pc = "case"
      BY <3>1, <3>2, <3>4
    <3>5. CASE f.pc = "else"
      BY <3>1, <3>2, <3>5
    <3> QED
      BY <3>1, <3>3, <3>4, <3>5
  <2> QED
    BY <1>5, <2>1, <2>2, <2>3, <2>4
<1> QED
  BY <1>2, <1>3, <1>5, <1>6 DEF OperandOf, Within

LEMMA ShapedIs ==
  ASSUME NodesInv, NEW i \in 1..Len(nodes)
  PROVE  Shaped(nodes[i], nodes, ret_type)
BY DEF NodesInv

(* The breaks in an operand are a loop's or the whole expression's.        *)
LEMMA OperandBreaks ==
  ASSUME TypeInv, NodesInv, NEW f, NEW n, Calling(f, n), f.pc # "visit"
  PROVE  nodes[OperandOf(f)].breaks \subseteq
           IF IsLoop(f) THEN GivenTo(nodes[f.node]) ELSE nodes[f.node].breaks
<1>1. Expressions(nodes) /\ f.node \in 1..Len(nodes)
  BY NodesTyped DEF Calling
<1>2. PICK x, k, kind : x = nodes[f.node] /\ k = Len(x.sub) /\ kind = KindOf(f)
  OBVIOUS
<1>3. PICK p : p = PlaceOf(kind, f, k)
  OBVIOUS
<1>4. p \in 1..k /\ OperandOf(f) = x.sub[p] /\ x.kind = kind /\ Operands(kind, k)
  BY <1>1, <1>2, <1>3, PlaceIs DEF OperandOf, KindOf, Expressions
<1>5. Shaped(x, nodes, ret_type)
  BY <1>1, <1>2, ShapedIs
<1>6. CASE kind # "loop"
  <2>1. x.sub # <<>>
    <3>1. Len(<<>>) = 0 /\ 1..0 = {}
      OBVIOUS
    <3> QED
      BY <1>2, <1>4, <3>1
  <2>2. nodes[x.sub[p]].breaks \subseteq x.breaks
    BY <1>2, <1>4, <1>5, <1>6, <2>1 DEF Shaped
  <2> QED
    BY <1>2, <1>4, <1>6, <2>2 DEF IsLoop
<1>7. CASE kind = "loop"
  <2>1. p \in 1..3
    <3>1. k = 3
      BY <1>4, <1>7 DEF Operands
    <3> QED
      BY <1>4, <3>1
  <2>2. IsLoop(f)
    BY <1>2, <1>7 DEF IsLoop
  <2>3. CASE p = 1
    <3>1. x.sub[1] = CallExpr
      BY <1>4, <1>5, <1>7 DEF Shaped
    <3>2. nodes[CallExpr].kind = "call" /\ CallExpr \in 1..Len(nodes)
      BY NodesTyped DEF NodesInv, CallExpr
    <3>3. nodes[CallExpr].breaks = {}
      BY <3>2, ShapedIs DEF Shaped
    <3> QED
      BY <1>4, <2>3, <3>1, <3>3
  <2>4. CASE p = 2
    BY <1>2, <1>4, <2>2, <2>4 DEF GivenTo
  <2>5. CASE p = 3
    BY <1>2, <1>4, <2>2, <2>5 DEF GivenTo
  <2> QED
    BY <2>1, <2>3, <2>4, <2>5
<1> QED
  BY <1>6, <1>7

-----------------------------------------------------------------------------
(* The innermost call goes on.                                             *)

LEMMA EvaluatedChain ==
  ASSUME TypeInv, frames # <<>>, Chain(frames), NEW f, f.node = top.node, f.pc # "visit",
         NEW fs, Evaluated(fs, f)
  PROVE  Chain(fs)
<1>1. PICK n : n = Len(frames)
  OBVIOUS
<1>2. /\ n \in Nat \ {0} /\ top = frames[n] /\ Len(fs) = n + 1 /\ fs[n] = f
      /\ fs[n + 1].node = OperandOf(f) /\ \A i \in 1..(n - 1) : fs[i] = frames[i]
  BY <1>1, FramesAre DEF Evaluated, OthersKept
<1>3. ASSUME NEW k \in 1..n
      PROVE  fs[k].pc # "visit" /\ fs[k + 1].node = OperandOf(fs[k])
  <2>1. CASE k = n
    BY <1>2, <2>1
  <2>2. CASE k # n
    <3>1. k \in 1..(n - 1)
      BY <1>2, <2>2
    <3>2. frames[k].pc # "visit" /\ frames[k + 1].node = OperandOf(frames[k]) /\ fs[k] = frames[k]
      BY <1>1, <1>2, <3>1 DEF Chain
    <3>3. fs[k + 1].node = frames[k + 1].node
      <4>1. k + 1 = n \/ k + 1 \in 1..(n - 1)
        BY <1>2, <3>1
      <4> QED
        BY <1>2, <4>1
    <3> QED
      BY <3>2, <3>3
  <2> QED
    BY <2>1, <2>2
<1>4. Len(fs) - 1 = n
  BY <1>2
<1> QED
  BY <1>3, <1>4 DEF Chain

LEMMA EvaluatedBroken ==
  ASSUME TypeInv, NodesInv, frames # <<>>, Broken(frames), NEW f, f.node = top.node,
         f.pc # "visit", NEW h, Calling(f, h), NEW fs, Evaluated(fs, f)
  PROVE  Broken(fs)
<1>1. PICK n : n = Len(frames)
  OBVIOUS
<1>2. /\ n \in Nat \ {0} /\ top = frames[n] /\ Len(fs) = n + 1 /\ fs[n] = f
      /\ fs[n + 1].node = OperandOf(f) /\ \A i \in 1..(n - 1) : fs[i] = frames[i]
  BY <1>1, FramesAre DEF Evaluated, OthersKept
<1>3. ASSUME NEW j \in 1..n, nodes[fs[j].node].breaks # {}
      PROVE  \E k \in 1..(n + 1) : /\ Encloses(fs, k, j)
                                   /\ nodes[fs[j].node].breaks \subseteq GivenTo(nodes[fs[k].node])
  <2>1. fs[j].node = frames[j].node
    BY <1>2
  <2>2. PICK k \in 1..n : /\ Encloses(frames, k, j)
                          /\ nodes[frames[j].node].breaks \subseteq GivenTo(nodes[frames[k].node])
    BY <1>1, <1>3, <2>1 DEF Broken
  <2>3. k \in Nat \ {0} /\ k \in 1..(n - 1) /\ k \in 1..(n + 1)
    BY <1>2, <2>2 DEF Encloses
  <2>4. Encloses(fs, k, j)
    BY <1>2, <2>2, <2>3, EnclosesSame
  <2> QED
    BY <1>2, <2>1, <2>2, <2>3, <2>4
<1>4. ASSUME nodes[fs[n + 1].node].breaks # {}
      PROVE  \E k \in 1..(n + 1) : /\ Encloses(fs, k, n + 1)
                  /\ nodes[fs[n + 1].node].breaks \subseteq GivenTo(nodes[fs[k].node])
  <2>1. nodes[fs[n + 1].node].breaks \subseteq
           IF IsLoop(f) THEN GivenTo(nodes[f.node]) ELSE nodes[f.node].breaks
    BY <1>2, OperandBreaks
  <2>2. CASE IsLoop(f)
    <3>1. Encloses(fs, n, n + 1)
      BY <1>2, <2>2, EnclosesFurther
    <3>2. n \in 1..(n + 1)
      BY <1>2
    <3> QED
      BY <1>2, <2>1, <2>2, <3>1, <3>2
  <2>3. CASE ~IsLoop(f)
    <3>1. n \in 1..n
      BY <1>2
    <3>2. PICK k \in 1..(n + 1) : /\ Encloses(fs, k, n)
                  /\ nodes[fs[n].node].breaks \subseteq GivenTo(nodes[fs[k].node])
      BY <1>2, <1>3, <1>4, <2>1, <2>3, <3>1
    <3>3. Encloses(fs, k, n + 1)
      BY <1>2, <2>3, <3>2, EnclosesFurther
    <3> QED
      BY <1>2, <2>1, <2>3, <3>2, <3>3
  <2> QED
    BY <2>2, <2>3
<1>5. \A j \in 1..(n + 1) : j \in 1..n \/ j = n + 1
  BY <1>2
<1> QED
  BY <1>2, <1>3, <1>4, <1>5 DEF Broken

LEMMA EvaluatedStill ==
  ASSUME TypeInv, NodesInv, frames # <<>>, Chain(frames), Still(frames, m),
         NEW f, NEW g, NEW T, Moves(f, g, T), NEW fs, Evaluated(fs, f)
  PROVE  Still(fs, g)
<1>1. PICK n : n = Len(frames)
  OBVIOUS
<1>2. /\ n \in Nat \ {0} /\ top = frames[n] /\ Len(fs) = n + 1 /\ fs[n] = f
      /\ fs[n + 1].pc = "visit" /\ \A i \in 1..(n - 1) : fs[i] = frames[i]
  BY <1>1, FramesAre DEF Evaluated, OthersKept
<1>3. ASSUME NEW k \in 1..(n - 1)
      PROVE  ~Abandoned(frames[k]) /\ frames[k].pc # "again" /\ frames[k].pc # "visit"
  <2>1. k \in 1..n /\ k # n
    BY <1>2
  <2>2. frames[k].pc # "visit" /\ frames[k + 1].node = OperandOf(frames[k])
    BY <1>1 DEF Chain
  <2>3. OnTop(frames, k) => k + 1 = n /\ top.pc = "visit" /\ m.insert # 0
    <3>1. k = n - 1 => k + 1 = n
      BY <1>2
    <3> QED
      BY <1>1, <1>2, <2>1, <3>1 DEF OnTop, Moves
  <2>4. ~Abandoned(frames[k])
    BY <1>1, <2>1, <2>3 DEF Still
  <2>5. frames[k].pc # "again"
    <3>1. SUFFICES ASSUME frames[k].pc = "again"
                   PROVE  FALSE
      OBVIOUS
    <3>2. k + 1 = n
      BY <1>1, <2>1, <2>3, <3>1 DEF Still
    <3>3. Calling(frames[k], Len(m.term))
      BY <1>1, <2>1, FramesAre
    <3>4. KindOf(frames[k]) = "loop" /\ frames[k].node \in 1..Len(nodes)
      <4>1. KindOf(frames[k]) \in {"break", "return", "block", "if", "switch", "loop"}
        BY <2>2, <3>3, NodesTyped, PlaceIs
      <4>2. PICK kind : kind = KindOf(frames[k])
        OBVIOUS
      <4>3. frames[k].pc \in PlacesOf(kind) /\ frames[k].node \in 1..Len(nodes)
        BY <3>3, <4>2 DEF Calling, Placed
      <4> QED
        BY <3>1, <4>1, <4>2, <4>3 DEF PlacesOf
    <3>5. OperandOf(frames[k]) = nodes[frames[k].node].sub[1]
      BY <3>1, <3>4 DEF OperandOf, PlaceOf
    <3>6. nodes[frames[k].node].sub[1] = CallExpr
      BY <3>4, ShapedIs DEF Shaped, KindOf
    <3>7. KindOf(top) = "call"
      BY <1>2, <2>2, <3>2, <3>5, <3>6 DEF KindOf, NodesInv
    <3>8. KindOf(f) = "call" /\ f.pc \in PlacesOf("call") /\ f.pc # "visit"
      BY <3>7 DEF Moves, Calling, Placed, KindOf
    <3> QED
      BY <3>8 DEF PlacesOf
  <2> QED
    BY <2>2, <2>4, <2>5
<1>4. ASSUME NEW k \in 1..(n + 1)
      PROVE  /\ Abandoned(fs[k]) => OnTop(fs, k) /\ g.insert = 0
             /\ fs[k].pc = "again" => OnTop(fs, k) /\ g.insert # 0 /\ g.insert = fs[k].incoming[1].b
             /\ fs[k].pc = "visit" /\ ~DeadCode => g.insert # 0
  <2>1. CASE k = n + 1
    <3>1. fs[k].pc = "visit" /\ ~Abandoned(fs[k])
      BY <1>2, <2>1 DEF Abandoned
    <3> QED
      BY <3>1 DEF Moves
  <2>2. CASE k = n
    <3>1. fs[k] = f /\ f.pc # "visit"
      BY <1>2, <2>2 DEF Moves
    <3>2. k = Len(fs) - 1 /\ fs[k + 1].pc = "visit"
      BY <1>2, <2>2
    <3> QED
      BY <3>1, <3>2 DEF Moves, OnTop
  <2>3. CASE k \in 1..(n - 1)
    BY <1>2, <1>3, <2>3
  <2>4. k = n + 1 \/ k = n \/ k \in 1..(n - 1)
    BY <1>2
  <2> QED
    BY <2>1, <2>2, <2>3, <2>4
<1> QED
  BY <1>2, <1>4 DEF Still

(* What the calls hold: the others what they held.                         *)
LEMMA HeldBy ==
  ASSUME NEW fs, NEW k \in 1..Len(fs)
  PROVE  Held(fs[k]) \subseteq AllHeld(fs)
BY DEF AllHeld

LEMMA EvaluatedHeld ==
  ASSUME TypeInv, frames # <<>>, NEW f, NEW g, NEW T, Moves(f, g, T),
         NEW fs, Evaluated(fs, f)
  PROVE  /\ \A h \in AllHeld(fs) : h \in AllHeld(frames) \/ h \notin 1..Len(m.term)
         /\ Holds(fs[Len(frames) + 1]) = {}
         /\ Apart(frames) => Apart(fs)
<1>1. PICK n : n = Len(frames)
  OBVIOUS
<1>2. /\ n \in Nat \ {0} /\ top = frames[n] /\ Len(fs) = n + 1 /\ fs[n] = f
      /\ fs[n + 1].pc = "visit" /\ \A i \in 1..(n - 1) : fs[i] = frames[i]
  BY <1>1, FramesAre DEF Evaluated, OthersKept
<1>3. Holds(fs[n + 1]) = {} /\ Held(fs[n + 1]) = {}
  BY <1>2 DEF Holds, Held, HeldAt
<1>4. /\ \A h \in Held(f) : h # 1 /\ (h \in Held(top) \/ h \notin 1..Len(m.term))
      /\ \A a, b \in Holds(f) : f.blocks[a] = f.blocks[b] => a = b
  BY DEF Moves
<1>5. Held(top) \subseteq AllHeld(frames)
  BY <1>1, <1>2, HeldBy
<1>6. \A i \in 1..(n + 1) : i = n + 1 \/ i = n \/ i \in 1..(n - 1)
  BY <1>2
<1>7. \A i \in 1..(n - 1) : i \in 1..n /\ i # n
  BY <1>2
<1>8. \A i \in 1..(n - 1) : Held(fs[i]) \subseteq AllHeld(frames)
  BY <1>1, <1>2, <1>7, HeldBy
<1>9. ASSUME NEW h \in AllHeld(fs)
      PROVE  /\ h \in AllHeld(frames) \/ h \notin 1..Len(m.term)
             /\ h \in AllHeld(frames) \/ h # 1
  <2>1. PICK i \in 1..(n + 1) : h \in Held(fs[i])
    BY <1>2 DEF AllHeld
  <2> QED
    BY <1>2, <1>3, <1>4, <1>5, <1>6, <1>8, <2>1
<1>10. ASSUME Apart(frames)
       PROVE  Apart(fs)
  <2>1. \A i \in 1..(n - 1) : Held(frames[i]) \cap Held(top) = {}
    BY <1>1, <1>2, <1>7, <1>10 DEF Apart
  <2>2. \A i \in 1..(n - 1) : Held(frames[i]) \subseteq 1..Len(m.term)
    BY <1>1, <1>7, FramesAre, HeldIs
  <2>3. \A i \in 1..(n - 1) : Held(fs[i]) \cap Held(fs[n]) = {}
    BY <1>2, <1>4, <2>1, <2>2
  <2>4. \A i, k \in 1..(n - 1) : i # k => Held(fs[i]) \cap Held(fs[k]) = {}
    BY <1>1, <1>2, <1>7, <1>10 DEF Apart
  <2>5. \A i, k \in 1..(n + 1) : i # k => Held(fs[i]) \cap Held(fs[k]) = {}
    BY <1>3, <1>6, <2>3, <2>4
  <2>6. \A i \in 1..(n + 1) : \A a, b \in Holds(fs[i]) : fs[i].blocks[a] = fs[i].blocks[b] => a = b
    <3>1. \A i \in 1..(n - 1) : \A a, b \in Holds(fs[i]) : fs[i].blocks[a] = fs[i].blocks[b] => a = b
      BY <1>1, <1>2, <1>7, <1>10 DEF Apart
    <3> QED
      BY <1>2, <1>3, <1>4, <1>6, <3>1
  <2>7. 1 \notin AllHeld(fs)
    BY <1>9, <1>10 DEF Apart
  <2> QED
    BY <1>2, <2>5, <2>6, <2>7 DEF Apart
<1> QED
  BY <1>1, <1>3, <1>9, <1>10

(* What is emitted leaves what has been computed and merged as it is.      *)
LEMMA EmitsKeeps ==
  ASSUME TypeInv, frames # <<>>, NEW g, NEW T, Emits(g, T), NEW kept,
         \A h \in kept : h \in AllHeld(frames) \/ h \notin 1..Len(m.term)
  PROVE  /\ Drawn(m) => Drawn(g)
         /\ \A in : Sound(in, m, AllHeld(frames)) => Sound(in, g, kept)
         /\ Sound(g.loop.nodes, g, kept)
         /\ \A u \in g.uses : Reach(u.def, u.at, g, kept)
         /\ \A x \in m.merges : Merged(m, AllHeld(frames)) =>
               /\ x.from = PredsIn(g, x.at) /\ x.at \in 1..Len(g.term) /\ x.at \notin kept
<1>1. Emitting(m) /\ Len(m.term) \in Nat
  BY FramesAre
<1>2. /\ Emitting(g) /\ Links(m, g, T) /\ T \subseteq 2..Len(g.term)
      /\ \A t \in T : t \in AllHeld(frames) \/ t \notin 1..Len(m.term)
      /\ g.insert # 0 => g.last = g.insert
      /\ \A u \in g.uses : Reach(u.def, u.at, m, AllHeld(frames))
      /\ Sound(g.loop.nodes, m, AllHeld(frames))
  BY DEF Emits
<1>3. PICK held : held = AllHeld(frames)
  OBVIOUS
<1>4. Drawn(m) => Drawn(g)
  BY <1>1, <1>2, DrawnKept
<1>5. \A in : Sound(in, m, held) => Sound(in, g, kept)
  BY <1>1, <1>2, <1>3, SoundKept
<1>6. \A d, b : Reach(d, b, m, held) => Reach(d, b, g, kept)
  BY <1>1, <1>2, <1>3, ReachKept
<1>7. ASSUME NEW x \in m.merges, Merged(m, held)
      PROVE  x.from = PredsIn(g, x.at) /\ x.at \in 1..Len(g.term) /\ x.at \notin kept
  <2>1. x.from = PredsIn(m, x.at) /\ x.at \in 1..Len(m.term) /\ x.at \notin held
    BY <1>7 DEF Merged
  <2>2. x.at \notin T
    BY <1>2, <1>3, <2>1
  <2>3. PredsIn(g, x.at) = PredsIn(m, x.at) \cup IF m.insert # 0 /\ x.at \in T THEN {m.insert} ELSE {}
    BY <1>1, <1>2, PredsLinked
  <2>4. Len(m.term) <= Len(g.term) /\ Len(g.term) \in Nat
    BY <1>2 DEF Links
  <2> QED
    BY <1>1, <1>3, <2>1, <2>2, <2>3, <2>4
<1> QED
  BY <1>2, <1>3, <1>4, <1>5, <1>6, <1>7

LEMMA EvaluatedEmpties ==
  ASSUME TypeInv, frames # <<>>, Empties(frames), NEW f, NEW g, NEW T, Moves(f, g, T),
         NEW fs, Evaluated(fs, f)
  PROVE  Empties(fs)
<1>1. PICK n : n = Len(frames)
  OBVIOUS
<1>2. /\ n \in Nat \ {0} /\ top = frames[n] /\ Len(fs) = n + 1 /\ fs[n] = f
      /\ fs[n + 1].incoming = <<>> /\ \A i \in 1..(n - 1) : fs[i] = frames[i]
  BY <1>1, FramesAre DEF Evaluated, OthersKept
<1>3. \A k \in 1..(n - 1) : Fresher(fs[k]) => fs[k].incoming = <<>>
  <2>1. \A k \in 1..(n - 1) : k \in 1..n
    BY <1>2
  <2> QED
    BY <1>1, <1>2, <2>1 DEF Empties
<1>4. Fresher(f) => f.incoming = <<>>
  BY DEF Moves
<1>5. \A k \in 1..(n + 1) : k = n + 1 \/ k = n \/ k \in 1..(n - 1)
  BY <1>2
<1> QED
  BY <1>2, <1>3, <1>4, <1>5 DEF Empties

(* The loops around the innermost call are those around the calls.         *)
LEMMA EvaluatedFed ==
  ASSUME TypeInv, frames # <<>>, Fed(frames, m), Apart(frames), NEW f, NEW g, NEW T,
         Moves(f, g, T), NEW fs, Evaluated(fs, f)
  PROVE  Fed(fs, g)
<1>1. PICK n : n = Len(frames)
  OBVIOUS
<1>2. /\ n \in Nat \ {0} /\ top = frames[n] /\ Len(fs) = n + 1 /\ fs[n] = f
      /\ fs[n + 1].pc = "visit" /\ \A i \in 1..(n - 1) : fs[i] = frames[i]
  BY <1>1, FramesAre DEF Evaluated, OthersKept
<1>3. /\ Emitting(g) /\ Links(m, g, T) /\ Emitting(m)
      /\ \A t \in T : t \in Held(top) \/ t \notin 1..Len(m.term)
  BY FramesAre DEF Moves, Emits
<1>4. ASSUME NEW k \in 1..(n - 1)
      PROVE  /\ ~IsLoop(frames[k]) => BranchFed(frames[k], g)
             /\ \A data : IsLoop(frames[k]) /\ LoopFed(frames[k], m, data) => LoopFed(frames[k], g, data)
  <2>1. k \in 1..n /\ k # n /\ n \in 1..n
    BY <1>2
  <2>2. Calling(frames[k], Len(m.term))
    BY <1>1, <2>1, FramesAre
  <2>3. Held(frames[k]) \cap Held(top) = {}
    BY <1>1, <1>2, <2>1 DEF Apart
  <2>4. Held(frames[k]) \subseteq 1..Len(m.term)
    BY <2>2, HeldIs
  <2>5. T \cap Held(frames[k]) = {}
    BY <1>3, <2>3, <2>4
  <2>6. ~IsLoop(frames[k]) => BranchFed(frames[k], m)
    BY <1>1, <2>1 DEF Fed
  <2> QED
    BY <1>3, <2>2, <2>5, <2>6, FedKept
<1>5. ~IsLoop(fs[n + 1]) /\ BranchFed(fs[n + 1], g)
  BY <1>2 DEF IsLoop, BranchFed, HasBlocks
<1>6. \A k \in 1..(n + 1) : ~IsLoop(fs[k]) => BranchFed(fs[k], g)
  <2>1. ~IsLoop(fs[n]) => BranchFed(fs[n], g)
    BY <1>2 DEF Moves
  <2>2. \A k \in 1..(n + 1) : k = n + 1 \/ k = n \/ k \in 1..(n - 1)
    BY <1>2
  <2> QED
    BY <1>2, <1>4, <1>5, <2>1, <2>2
<1>7. ASSUME NEW k \in 1..n, NEW j \in 1..n, Encloses(fs, k, j)
      PROVE  Encloses(frames, k, j) /\ k \in 1..(n - 1)
  <2>1. \A i \in 1..(n - 1) : fs[i] = frames[i]
    BY <1>2
  <2>2. k \in Nat \ {0} /\ n \in Nat /\ k < j
    BY <1>2, <1>7 DEF Encloses
  <2> QED
    BY <1>7, <2>1, <2>2, EnclosesSame
<1>8. ASSUME NEW k \in 1..(n - 1), Encloses(frames, k, n), ~IsLoop(top)
      PROVE  LoopFed(frames[k], m, m.loop)
  <2>1. Encloses(frames, k, n + 1)
    BY <1>2, <1>8, EnclosesFurther
  <2>2. k \in 1..n
    BY <1>2
  <2> QED
    BY <1>1, <2>1, <2>2 DEF Fed
<1>9. ASSUME NEW k \in 1..(n + 1), Encloses(fs, k, n + 2)
      PROVE  LoopFed(fs[k], g, g.loop)
  <2>1. k # n + 1
    BY <1>5, <1>9 DEF Encloses
  <2>2. Encloses(fs, k, n + 1) /\ k \in 1..n
    <3>1. n + 1 \in Nat /\ (n + 1) + 1 = n + 2
      BY <1>2
    <3> QED
      BY <1>2, <1>9, <2>1, <3>1, EnclosesFurther
  <2>3. CASE k = n
    <3>1. IsLoop(f)
      BY <1>2, <2>2, <2>3 DEF Encloses
    <3> QED
      BY <1>2, <2>3, <3>1 DEF Moves
  <2>4. CASE k # n
    <3>1. Encloses(fs, k, n) /\ ~IsLoop(f) /\ n \in 1..n
      BY <1>2, <2>2, <2>4, EnclosesFurther
    <3>2. Encloses(frames, k, n) /\ k \in 1..(n - 1)
      BY <2>2, <3>1, <1>7
    <3>3. ~IsLoop(top) /\ g.loop = m.loop
      BY <3>1 DEF Moves
    <3>4. IsLoop(frames[k]) /\ LoopFed(frames[k], m, m.loop)
      BY <3>2, <3>3, <1>8 DEF Encloses
    <3> QED
      BY <1>2, <1>4, <3>2, <3>3, <3>4
  <2> QED
    BY <2>3, <2>4
<1>10. ASSUME NEW k \in 1..(n + 1), NEW j \in 1..(n + 1), Encloses(fs, k, j), IsLoop(fs[j])
       PROVE  LoopFed(fs[k], g, fs[j].outer)
  <2>1. j # n + 1 /\ k < j
    BY <1>5, <1>10 DEF Encloses
  <2>2. j \in 1..n /\ k \in 1..n
    BY <1>2, <2>1
  <2>3. Encloses(frames, k, j) /\ k \in 1..(n - 1)
    BY <1>7, <1>10, <2>2
  <2>4. LoopFed(frames[k], m, fs[j].outer)
    <3>1. CASE j = n
      <4>1. IsLoop(f) /\ f.outer = IF IsLoop(top) THEN top.outer ELSE m.loop
        BY <1>2, <1>10, <3>1 DEF Moves
      <4>2. IsLoop(top) => LoopFed(frames[k], m, top.outer)
        BY <1>1, <1>2, <2>2, <2>3, <3>1 DEF Fed
      <4> QED
        BY <1>2, <1>8, <2>3, <3>1, <4>1, <4>2
    <3>2. CASE j # n
      <4>1. j \in 1..(n - 1)
        BY <1>2, <2>2, <3>2
      <4> QED
        BY <1>1, <1>2, <1>10, <2>2, <2>3, <4>1 DEF Fed
    <3> QED
      BY <3>1, <3>2
  <2> QED
    BY <1>2, <1>4, <2>3, <2>4 DEF Encloses
<1>11. Len(fs) = n + 1 /\ (n + 1) + 1 = n + 2
  BY <1>2
<1> QED
  BY <1>6, <1>9, <1>10, <1>11 DEF Fed

LEMMA EvaluateKeeps ==
  ASSUME TypeInv, NodesInv, frames # <<>>, Kept(frames, m, result),
         NEW f, NEW g, NEW T, Moves(f, g, T), NEW fs, Evaluated(fs, f)
  PROVE  Kept(fs, g, result)
<1>1. PICK n : n = Len(frames)
  OBVIOUS
<1>2. /\ n \in Nat \ {0} /\ top = frames[n] /\ Len(fs) = n + 1 /\ fs[n] = f
      /\ fs[n + 1].pc = "visit" /\ fs[n + 1].incoming = <<>>
      /\ \A i \in 1..(n - 1) : fs[i] = frames[i]
  BY <1>1, FramesAre DEF Evaluated, OthersKept
<1>3. f.node = top.node /\ f.pc # "visit" /\ Calling(f, Len(g.term)) /\ Emits(g, T)
      /\ g.merges = m.merges
  BY DEF Moves
<1>4. Chain(fs) /\ Broken(fs) /\ Empties(fs) /\ Still(fs, g) /\ Apart(fs) /\ Fed(fs, g)
  BY <1>3, EvaluatedChain, EvaluatedBroken, EvaluatedEmpties, EvaluatedStill, EvaluatedHeld,
     EvaluatedFed DEF Kept
<1>5. PICK kept : kept = AllHeld(fs)
  OBVIOUS
<1>6. \A h \in kept : h \in AllHeld(frames) \/ h \notin 1..Len(m.term)
  BY <1>5, EvaluatedHeld
<1>7. Drawn(m) /\ Merged(m, AllHeld(frames)) /\ AllSound(frames, m, AllHeld(frames))
  BY DEF Kept
<1>8. /\ Drawn(g)
      /\ \A in : Sound(in, m, AllHeld(frames)) => Sound(in, g, kept)
      /\ Sound(g.loop.nodes, g, kept)
      /\ \A u \in g.uses : Reach(u.def, u.at, g, kept)
      /\ \A x \in m.merges : x.from = PredsIn(g, x.at) /\ x.at \in 1..Len(g.term) /\ x.at \notin kept
  BY <1>3, <1>6, <1>7, EmitsKeeps
<1>9. Merged(g, kept)
  BY <1>3, <1>8 DEF Merged
<1>10. AllSound(fs, g, kept)
  <2>1. ASSUME NEW k \in 1..(n + 1)
        PROVE  Sound(fs[k].incoming, g, kept) /\ (IsLoop(fs[k]) => Sound(fs[k].outer.nodes, g, kept))
    <3>1. CASE k = n + 1
      <4>1. ~IsLoop(fs[k]) /\ Sound(<<>>, g, kept)
        BY <1>2, <3>1 DEF IsLoop, Sound
      <4> QED
        BY <1>2, <3>1, <4>1
    <3>2. CASE k = n
      <4>1. Sound(f.incoming, m, AllHeld(frames))
        BY DEF Moves
      <4>2. IsLoop(f) => f.outer = IF IsLoop(top) THEN top.outer ELSE m.loop
        BY DEF Moves
      <4>3. /\ Sound(m.loop.nodes, m, AllHeld(frames))
            /\ IsLoop(top) => Sound(top.outer.nodes, m, AllHeld(frames))
        <5>1. n \in 1..n
          BY <1>2
        <5> QED
          BY <1>1, <1>2, <1>7, <5>1 DEF AllSound
      <4> QED
        BY <1>2, <1>8, <3>2, <4>1, <4>2, <4>3
    <3>3. CASE k \in 1..(n - 1)
      <4>1. k \in 1..n /\ fs[k] = frames[k]
        BY <1>2, <3>3
      <4>2. /\ Sound(frames[k].incoming, m, AllHeld(frames))
            /\ IsLoop(frames[k]) => Sound(frames[k].outer.nodes, m, AllHeld(frames))
        BY <1>1, <1>7, <4>1 DEF AllSound
      <4> QED
        BY <1>8, <4>1, <4>2
    <3> QED
      BY <1>2, <3>1, <3>2, <3>3
  <2> QED
    BY <1>2, <1>8, <2>1 DEF AllSound
<1>11. Delivered(fs, g, result)
  BY <1>2 DEF Delivered, Last
<1>12. Faultless(g)
  BY <1>3 DEF Emits
<1> QED
  BY <1>4, <1>5, <1>8, <1>9, <1>10, <1>11, <1>12 DEF Kept

-----------------------------------------------------------------------------
(* The innermost call returns.                                             *)

(* Nothing is emitted between the condition of a loop's end and its value. *)
LEMMA CalledAgain ==
  ASSUME TypeInv, NodesInv, Chain(frames), NEW k \in 1..(Len(frames) - 1), frames[k].pc = "again"
  PROVE  KindOf(frames[k + 1]) = "call"
<1>1. k \in 1..Len(frames) /\ frames # <<>>
  <2>1. Len(frames) \in Nat
    BY LenProperties DEF TypeInv, Walk
  <2>2. Len(<<>>) = 0
    OBVIOUS
  <2> QED
    BY <2>1, <2>2
<1>2. Calling(frames[k], Len(m.term)) /\ frames[k + 1].node = OperandOf(frames[k])
  BY <1>1, FramesAre DEF Chain
<1>3. KindOf(frames[k]) = "loop" /\ frames[k].node \in 1..Len(nodes)
  <2>1. KindOf(frames[k]) \in {"break", "return", "block", "if", "switch", "loop"}
    BY <1>2, NodesTyped, PlaceIs
  <2>2. PICK kind : kind = KindOf(frames[k])
    OBVIOUS
  <2>3. frames[k].pc \in PlacesOf(kind) /\ frames[k].node \in 1..Len(nodes)
    BY <1>2, <2>2 DEF Calling, Placed
  <2> QED
    BY <2>1, <2>2, <2>3 DEF PlacesOf
<1>4. OperandOf(frames[k]) = nodes[frames[k].node].sub[1]
  BY <1>3 DEF OperandOf, PlaceOf
<1>5. nodes[frames[k].node].sub[1] = CallExpr
  BY <1>3, ShapedIs DEF Shaped, KindOf
<1> QED
  BY <1>2, <1>4, <1>5 DEF KindOf, NodesInv

LEMMA PoppedFramesAre ==
  ASSUME TypeInv, frames # <<>>, NEW fs, Popped(fs), NEW n, n = Len(frames)
  PROVE  /\ n \in Nat \ {0} /\ top = frames[n] /\ Len(fs) = n - 1
         /\ \A i \in 1..(n - 1) : fs[i] = frames[i] /\ i \in 1..n /\ i # n
         /\ \A h \in AllHeld(fs) : h \in AllHeld(frames)
<1>1. /\ n \in Nat \ {0} /\ top = frames[n] /\ Len(fs) = n - 1
      /\ \A i \in 1..(n - 1) : fs[i] = frames[i]
  BY FramesAre DEF Popped, OthersKept
<1>2. \A i \in 1..(n - 1) : i \in 1..n /\ i # n
  BY <1>1
<1>3. \A h \in AllHeld(fs) : h \in AllHeld(frames)
  BY <1>1, <1>2 DEF AllHeld
<1> QED
  BY <1>1, <1>2, <1>3

LEMMA GivenNested ==
  ASSUME TypeInv, frames # <<>>, Chain(frames), Broken(frames), Empties(frames), Apart(frames),
         NEW fs, Popped(fs)
  PROVE  Chain(fs) /\ Broken(fs) /\ Empties(fs) /\ Apart(fs)
<1>1. PICK n : n = Len(frames)
  OBVIOUS
<1>2. /\ n \in Nat \ {0} /\ Len(fs) = n - 1
      /\ \A i \in 1..(n - 1) : fs[i] = frames[i] /\ i \in 1..n /\ i # n
      /\ \A h \in AllHeld(fs) : h \in AllHeld(frames)
  BY <1>1, PoppedFramesAre
<1>3. Chain(fs)
  <2>1. \A k \in 1..((n - 1) - 1) : k \in 1..(n - 1) /\ k + 1 \in 1..(n - 1)
    BY <1>2
  <2> QED
    BY <1>1, <1>2, <2>1 DEF Chain
<1>4. Broken(fs)
  <2>1. ASSUME NEW j \in 1..(n - 1), nodes[fs[j].node].breaks # {}
        PROVE  \E k \in 1..(n - 1) : /\ Encloses(fs, k, j)
                                     /\ nodes[fs[j].node].breaks \subseteq GivenTo(nodes[fs[k].node])
    <3>1. PICK k \in 1..n : /\ Encloses(frames, k, j)
                            /\ nodes[frames[j].node].breaks \subseteq GivenTo(nodes[frames[k].node])
      BY <1>1, <1>2, <2>1 DEF Broken
    <3>2. k \in 1..(n - 1) /\ k \in Nat \ {0} /\ j \in 1..n
      BY <1>2, <3>1 DEF Encloses
    <3>3. Encloses(fs, k, j)
      BY <1>2, <3>1, <3>2, EnclosesSame
    <3> QED
      BY <1>2, <3>1, <3>2, <3>3
  <2> QED
    BY <1>2, <2>1 DEF Broken
<1>5. Empties(fs)
  BY <1>1, <1>2 DEF Empties
<1>6. Apart(fs)
  BY <1>1, <1>2 DEF Apart
<1> QED
  BY <1>3, <1>4, <1>5, <1>6

LEMMA GivenStill ==
  ASSUME TypeInv, NodesInv, frames # <<>>, Chain(frames), Still(frames, m),
         NEW v, NEW g, NEW T, Finishes(v, g, T), NEW fs, Popped(fs)
  PROVE  Still(fs, g)
<1>1. PICK n : n = Len(frames)
  OBVIOUS
<1>2. /\ n \in Nat \ {0} /\ top = frames[n] /\ Len(fs) = n - 1
      /\ \A i \in 1..(n - 1) : fs[i] = frames[i] /\ i \in 1..n /\ i # n
  BY <1>1, PoppedFramesAre
<1>3. ASSUME NEW k \in 1..(n - 1)
      PROVE  /\ Abandoned(fs[k]) => OnTop(fs, k) /\ g.insert = 0
             /\ fs[k].pc = "again" => OnTop(fs, k) /\ g.insert # 0 /\ g.insert = fs[k].incoming[1].b
             /\ fs[k].pc # "visit"
  <2>1. frames[k].pc # "visit"
    BY <1>1, <1>2 DEF Chain
  <2>2. OnTop(frames, k) => k = n - 1 /\ frames[k + 1] = top /\ top.pc = "visit"
    BY <1>1, <1>2 DEF OnTop
  <2>3. Abandoned(fs[k]) => OnTop(fs, k) /\ g.insert = 0
    <3>1. Abandoned(frames[k]) => OnTop(frames, k) /\ m.insert = 0
      BY <1>1, <1>2 DEF Still
    <3> QED
      BY <1>2, <2>2, <3>1 DEF OnTop, Finishes
  <2>4. ASSUME fs[k].pc = "again"
        PROVE  OnTop(fs, k) /\ g.insert # 0 /\ g.insert = fs[k].incoming[1].b
    <3>1. OnTop(frames, k) /\ m.insert # 0 /\ m.insert = frames[k].incoming[1].b
      BY <1>1, <1>2, <2>4 DEF Still
    <3>2. KindOf(frames[k + 1]) = "call"
      BY <1>1, <1>2, <2>4, CalledAgain
    <3>3. node.kind = "call" /\ top.pc = "visit"
      BY <2>2, <3>1, <3>2 DEF KindOf, node
    <3>4. g.insert = m.insert
      BY <3>3 DEF Finishes
    <3> QED
      BY <1>2, <2>2, <3>1, <3>4 DEF OnTop
  <2> QED
    BY <1>2, <2>1, <2>3, <2>4
<1> QED
  BY <1>2, <1>3 DEF Still

LEMMA GivenFed ==
  ASSUME TypeInv, frames # <<>>, Fed(frames, m), NEW v, NEW g, NEW T, Finishes(v, g, T),
         NEW fs, Popped(fs)
  PROVE  Fed(fs, g)
<1>1. PICK n : n = Len(frames)
  OBVIOUS
<1>2. /\ n \in Nat \ {0} /\ top = frames[n] /\ Len(fs) = n - 1
      /\ \A i \in 1..(n - 1) : fs[i] = frames[i] /\ i \in 1..n /\ i # n
  BY <1>1, PoppedFramesAre
<1>3. Emitting(g) /\ Links(m, g, T) /\ Emitting(m)
  BY FramesAre DEF Finishes, Emits
<1>4. ASSUME NEW k \in 1..(n - 1)
      PROVE  /\ ~IsLoop(frames[k]) => BranchFed(frames[k], g)
             /\ Encloses(frames, k, n) => LoopFed(frames[k], g, g.loop)
             /\ \A data : ~Encloses(frames, k, n) /\ IsLoop(frames[k]) /\ LoopFed(frames[k], m, data)
                            => LoopFed(frames[k], g, data)
  <2>1. Calling(frames[k], Len(m.term))
    BY <1>1, <1>2, FramesAre
  <2>2. T \cap Held(frames[k]) = {} \/ Encloses(frames, k, n)
    BY <1>1 DEF Finishes
  <2>3. Encloses(frames, k, n) => IsLoop(frames[k])
    BY DEF Encloses
  <2>4. ~IsLoop(frames[k]) => BranchFed(frames[k], m)
    BY <1>1, <1>2 DEF Fed
  <2>5. Encloses(frames, k, n) => LoopFed(frames[k], g, g.loop)
    BY <1>1 DEF Finishes
  <2> QED
    BY <1>3, <2>1, <2>2, <2>3, <2>4, <2>5, FedKept
<1>5. ASSUME NEW k \in 1..(n - 1), NEW j \in 1..n, Encloses(fs, k, j)
      PROVE  Encloses(frames, k, j)
  BY <1>2, <1>5, EnclosesSame
<1>6. \A k \in 1..(n - 1) : ~IsLoop(fs[k]) => BranchFed(fs[k], g)
  BY <1>2, <1>4
<1>7. ASSUME NEW k \in 1..(n - 1), Encloses(fs, k, n)
      PROVE  LoopFed(fs[k], g, g.loop)
  <2>1. n \in 1..n
    BY <1>2
  <2> QED
    BY <1>2, <1>4, <1>5, <1>7, <2>1
<1>8. ASSUME NEW k \in 1..(n - 1), NEW j \in 1..(n - 1), Encloses(fs, k, j), IsLoop(fs[j])
      PROVE  LoopFed(fs[k], g, fs[j].outer)
  <2>1. Encloses(frames, k, j) /\ IsLoop(frames[j]) /\ IsLoop(frames[k])
    BY <1>2, <1>5, <1>8 DEF Encloses
  <2>2. ~Encloses(frames, k, n)
    <3>1. j \in (k + 1)..(n - 1)
      BY <1>2, <2>1 DEF Encloses
    <3> QED
      BY <2>1, <3>1 DEF Encloses
  <2>3. LoopFed(frames[k], m, frames[j].outer)
    BY <1>1, <1>2, <2>1 DEF Fed
  <2> QED
    BY <1>2, <1>4, <2>1, <2>2, <2>3
<1>9. Len(fs) = n - 1 /\ (n - 1) + 1 = n
  BY <1>2
<1> QED
  BY <1>6, <1>7, <1>8, <1>9 DEF Fed

LEMMA GiveKeeps ==
  ASSUME TypeInv, NodesInv, frames # <<>>, Kept(frames, m, result),
         NEW v, NEW g, NEW T, Finishes(v, g, T), NEW fs, fs = Front(frames)
  PROVE  Kept(fs, g, v)
<1>1. PICK n : n = Len(frames)
  OBVIOUS
<1>2. Popped(fs)
  BY ReturnedIs
<1>3. /\ n \in Nat \ {0} /\ top = frames[n] /\ Len(fs) = n - 1
      /\ \A i \in 1..(n - 1) : fs[i] = frames[i] /\ i \in 1..n /\ i # n
      /\ \A h \in AllHeld(fs) : h \in AllHeld(frames)
  BY <1>1, <1>2, PoppedFramesAre
<1>4. Chain(fs) /\ Broken(fs) /\ Empties(fs) /\ Still(fs, g) /\ Apart(fs) /\ Fed(fs, g)
  BY <1>2, GivenNested, GivenStill, GivenFed DEF Kept
<1>5. PICK kept : kept = AllHeld(fs)
  OBVIOUS
<1>6. Emits(g, T)
  BY DEF Finishes
<1>7. Drawn(m) /\ Merged(m, AllHeld(frames)) /\ AllSound(frames, m, AllHeld(frames))
  BY DEF Kept
<1>8. /\ Drawn(g)
      /\ \A in : Sound(in, m, AllHeld(frames)) => Sound(in, g, kept)
      /\ Sound(g.loop.nodes, g, kept)
      /\ \A u \in g.uses : Reach(u.def, u.at, g, kept)
      /\ \A x \in m.merges : x.from = PredsIn(g, x.at) /\ x.at \in 1..Len(g.term) /\ x.at \notin kept
  BY <1>3, <1>5, <1>6, <1>7, EmitsKeeps
<1>9. Merged(g, kept)
  <2>1. \A x \in g.merges : \/ x \in m.merges
                            \/ x.from = PredsIn(g, x.at) /\ x.at \in 1..Len(g.term) /\ x.at \notin kept
    BY <1>5 DEF Finishes
  <2> QED
    BY <1>8, <2>1 DEF Merged
<1>10. AllSound(fs, g, kept)
  <2>1. ASSUME NEW k \in 1..(n - 1)
        PROVE  Sound(fs[k].incoming, g, kept) /\ (IsLoop(fs[k]) => Sound(fs[k].outer.nodes, g, kept))
    <3>1. /\ Sound(frames[k].incoming, m, AllHeld(frames))
          /\ IsLoop(frames[k]) => Sound(frames[k].outer.nodes, m, AllHeld(frames))
      BY <1>1, <1>3, <1>7 DEF AllSound
    <3> QED
      BY <1>3, <1>8, <3>1
  <2> QED
    BY <1>3, <1>8, <2>1 DEF AllSound
<1>11. Delivered(fs, g, v)
  <2>1. SUFFICES ASSUME fs # <<>>
                 PROVE  Delivers(nodes[OperandOf(Last(fs))], v, g, kept)
    BY <1>5 DEF Delivered
  <2>2. n - 1 \in 1..(n - 1)
    <3>1. Len(fs) # 0
      <4>1. fs \in Seq(Frame)
        BY FramesAre, FrontIs
      <4> QED
        BY <2>1, <4>1, EmptySeq
    <3> QED
      BY <1>3, <3>1
  <2>3. Last(fs) = frames[n - 1] /\ (n - 1) + 1 = n
    BY <1>3, <2>2 DEF Last
  <2>4. frames[n].node = OperandOf(frames[n - 1])
    BY <1>1, <2>2, <2>3 DEF Kept, Chain
  <2>5. node = nodes[OperandOf(Last(fs))]
    BY <1>3, <2>3, <2>4 DEF node
  <2> QED
    BY <1>5, <2>5 DEF Finishes
<1>12. Faultless(g)
  BY <1>6 DEF Emits
<1> QED
  BY <1>4, <1>5, <1>8, <1>9, <1>10, <1>11, <1>12 DEF Kept

(* A call that only branches to blocks of its own leaves the loops around  *)
(* it as they are.                                                         *)
LEMMA LoopsLeft ==
  ASSUME TypeInv, frames # <<>>, Fed(frames, m), Apart(frames), NEW g, NEW T, Links(m, g, T),
         \A t \in T : t \in Held(top) \/ t \notin 1..Len(m.term),
         g.loop = IF IsLoop(top) THEN top.outer ELSE m.loop,
         NEW k \in 1..(Len(frames) - 1)
  PROVE  /\ T \cap Held(frames[k]) = {}
         /\ Encloses(frames, k, Len(frames)) => LoopFed(frames[k], g, g.loop)
<1>1. PICK n : n = Len(frames)
  OBVIOUS
<1>2. n \in Nat \ {0} /\ top = frames[n] /\ Emitting(m) /\ k \in 1..n /\ k # n /\ n \in 1..n
  BY <1>1, FramesAre
<1>3. Calling(frames[k], Len(m.term))
  BY <1>1, <1>2, FramesAre
<1>4. T \cap Held(frames[k]) = {}
  <2>1. Held(frames[k]) \cap Held(top) = {}
    BY <1>1, <1>2 DEF Apart
  <2>2. Held(frames[k]) \subseteq 1..Len(m.term)
    BY <1>3, HeldIs
  <2> QED
    BY <2>1, <2>2
<1>5. ASSUME Encloses(frames, k, n)
      PROVE  LoopFed(frames[k], g, g.loop)
  <2>1. IsLoop(frames[k])
    BY <1>5 DEF Encloses
  <2>2. LoopFed(frames[k], m, g.loop)
    <3>1. CASE IsLoop(top)
      BY <1>1, <1>2, <1>5, <3>1 DEF Fed
    <3>2. CASE ~IsLoop(top)
      <4>1. Encloses(frames, k, n + 1)
        BY <1>2, <1>5, <3>2, EnclosesFurther
      <4> QED
        BY <1>1, <1>2, <3>2, <4>1 DEF Fed
    <3> QED
      BY <3>1, <3>2
  <2> QED
    BY <1>2, <1>3, <1>4, <2>1, <2>2, FedKept
<1> QED
  BY <1>1, <1>4, <1>5

-----------------------------------------------------------------------------
(* What a step of the walk may rely on, and has to show.                   *)

Stays == \E fs, g, v :
  /\ frames' = fs /\ m' = g /\ result' = v
  /\ nodes' = nodes /\ ret_type' = ret_type /\ open' = open /\ phase' = phase
  /\ Kept(fs, g, v) /\ (Rooted(frames, m) => Rooted(fs, g))

LEMMA MovesOn ==
  ASSUME TypeInv, NodesInv, frames # <<>>, Kept(frames, m, result),
         NEW f \in Frame, NEW g, NEW T, Moves(f, g, T), NEW e, e = OperandOf(f), Evaluate(e, f, g)
  PROVE  Stays
<1>1. PICK fs : fs = Append(Append(Front(frames), f), NewFrame(e, g))
  OBVIOUS
<1>2. /\ frames' = fs /\ m' = g /\ result' = result
      /\ nodes' = nodes /\ ret_type' = ret_type /\ open' = open /\ phase' = phase
  BY <1>1 DEF Evaluate
<1>3. Evaluated(fs, f)
  BY <1>1, EvaluatedIs
<1>4. Kept(fs, g, result)
  BY <1>3, EvaluateKeeps
<1>5. Rooted(frames, m) => Rooted(fs, g)
  <2>1. PICK n : n = Len(frames)
    OBVIOUS
  <2>2. /\ n \in Nat \ {0} /\ top = frames[n] /\ Len(fs) = n + 1 /\ fs[n] = f
        /\ \A i \in 1..(n - 1) : fs[i] = frames[i]
    BY <1>3, <2>1, FramesAre DEF Evaluated, OthersKept
  <2>3. f.node = top.node
    BY DEF Moves
  <2>4. fs[1].node = frames[1].node
    <3>1. n = 1 \/ 1 \in 1..(n - 1)
      BY <2>2
    <3> QED
      BY <2>2, <2>3, <3>1
  <2>5. fs # <<>>
    <3>1. Len(<<>>) = 0
      OBVIOUS
    <3> QED
      BY <2>2, <3>1
  <2> QED
    BY <2>4, <2>5 DEF Rooted
<1> QED
  BY <1>2, <1>4, <1>5 DEF Stays

LEMMA Finished ==
  ASSUME TypeInv, NodesInv, frames # <<>>, Kept(frames, m, result),
         NEW v, NEW g, NEW T, Finishes(v, g, T), Give(v, g)
  PROVE  Stays
<1>1. PICK fs : fs = Front(frames)
  OBVIOUS
<1>2. /\ frames' = fs /\ m' = g /\ result' = v
      /\ nodes' = nodes /\ ret_type' = ret_type /\ open' = open /\ phase' = phase
  BY <1>1 DEF Give
<1>3. Kept(fs, g, v)
  BY <1>1, GiveKeeps
<1>4. Rooted(frames, m) => Rooted(fs, g)
  <2>1. PICK n : n = Len(frames)
    OBVIOUS
  <2>2. /\ n \in Nat \ {0} /\ top = frames[n] /\ Len(fs) = n - 1
        /\ \A i \in 1..(n - 1) : fs[i] = frames[i]
    BY <1>1, <2>1, ReturnedIs, PoppedFramesAre
  <2>3. g.insert # 0 => ~node.leaves
    BY DEF Finishes, Delivers
  <2>4. CASE n = 1
    <3>1. fs = <<>>
      <4>1. fs \in Seq(Frame) /\ Len(fs) = 0
        BY <1>1, <2>2, <2>4, FramesAre, FrontIs
      <4> QED
        BY <4>1, EmptySeq
    <3> QED
      BY <2>2, <2>3, <2>4, <3>1 DEF Rooted, node
  <2>5. CASE n # 1
    <3>1. 1 \in 1..(n - 1) /\ fs # <<>>
      <4>1. Len(<<>>) = 0
        OBVIOUS
      <4> QED
        BY <2>2, <2>5, <4>1
    <3>2. fs[1] = frames[1]
      BY <2>2, <3>1
    <3> QED
      BY <3>1, <3>2 DEF Rooted
  <2> QED
    BY <2>4, <2>5
<1> QED
  BY <1>2, <1>3, <1>4 DEF Stays

(* What is known of the innermost call.                                    *)
LEMMA TopKept ==
  ASSUME TypeInv, NodesInv, frames # <<>>, Kept(frames, m, result)
  PROVE  /\ Emitting(m) /\ Drawn(m) /\ Calling(top, Len(m.term)) /\ Len(m.term) \in Nat
         /\ top \in Frame /\ top.node \in 1..Len(nodes) /\ Faultless(m)
         /\ Shaped(node, nodes, ret_type) /\ Fed(frames, m) /\ Apart(frames)
         /\ Held(top) \subseteq AllHeld(frames)
         /\ \A h \in Held(top) : h \in 2..Len(m.term) /\ h \notin AllHeld(Front(frames))
         /\ \A a, b \in Holds(top) : top.blocks[a] = top.blocks[b] => a = b
         /\ Sound(top.incoming, m, AllHeld(frames))
         /\ IsLoop(top) => Sound(top.outer.nodes, m, AllHeld(frames))
         /\ Sound(m.loop.nodes, m, AllHeld(frames))
         /\ \A u \in m.uses : Reach(u.def, u.at, m, AllHeld(frames))
         /\ IF IsLoop(top) THEN LoopFed(top, m, m.loop) ELSE BranchFed(top, m)
         /\ Fresher(top) => top.incoming = <<>>
         /\ top.pc = "again" => m.insert # 0 /\ m.insert = top.incoming[1].b
         /\ Abandoned(top) => m.insert = 0
         /\ top.pc = "visit" /\ ~DeadCode => m.insert # 0
<1>1. PICK n : n = Len(frames)
  OBVIOUS
<1>2. /\ n \in Nat \ {0} /\ top = frames[n] /\ n \in 1..n /\ Emitting(m) /\ Len(m.term) \in Nat
      /\ Calling(top, Len(m.term)) /\ frames \in Seq(Frame)
  BY <1>1, FramesAre
<1>3. /\ Drawn(m) /\ Faultless(m) /\ Fed(frames, m) /\ Apart(frames)
      /\ AllSound(frames, m, AllHeld(frames)) /\ Empties(frames) /\ Still(frames, m)
  BY DEF Kept
<1>4. top \in Frame /\ top.node \in 1..Len(nodes) /\ Shaped(node, nodes, ret_type)
  BY <1>2, CallingIs, ShapedIs DEF node
<1>5. Held(top) \subseteq AllHeld(frames)
  BY <1>1, <1>2, HeldBy
<1>6. ASSUME NEW h \in Held(top)
      PROVE  h \in 2..Len(m.term) /\ h \notin AllHeld(Front(frames))
  <2>1. h \in 1..Len(m.term) /\ h # 1
    BY <1>2, <1>3, <1>5, HeldIs DEF Apart
  <2>2. PICK fs : fs = Front(frames)
    OBVIOUS
  <2>3. Len(fs) = n - 1 /\ \A i \in 1..(n - 1) : fs[i] = frames[i] /\ i \in 1..n /\ i # n
    BY <1>1, <2>2, ReturnedIs, PoppedFramesAre
  <2>4. \A i \in 1..(n - 1) : h \notin Held(fs[i])
    BY <1>1, <1>2, <1>3, <2>3 DEF Apart
  <2>5. h \notin AllHeld(fs)
    BY <2>3, <2>4 DEF AllHeld
  <2> QED
    BY <1>2, <2>1, <2>2, <2>5
<1>7. \A a, b \in Holds(top) : top.blocks[a] = top.blocks[b] => a = b
  BY <1>1, <1>2, <1>3 DEF Apart
<1>8. /\ Sound(top.incoming, m, AllHeld(frames))
      /\ IsLoop(top) => Sound(top.outer.nodes, m, AllHeld(frames))
      /\ Sound(m.loop.nodes, m, AllHeld(frames))
      /\ \A u \in m.uses : Reach(u.def, u.at, m, AllHeld(frames))
  BY <1>1, <1>2, <1>3 DEF AllSound
<1>9. IF IsLoop(top) THEN LoopFed(top, m, m.loop) ELSE BranchFed(top, m)
  <2>1. CASE IsLoop(top)
    <3>1. Encloses(frames, n, n + 1)
      BY <1>2, <2>1, EnclosesFurther
    <3> QED
      BY <1>1, <1>2, <1>3, <2>1, <3>1 DEF Fed
  <2>2. CASE ~IsLoop(top)
    BY <1>1, <1>2, <1>3, <2>2 DEF Fed
  <2> QED
    BY <2>1, <2>2
<1>10. Fresher(top) => top.incoming = <<>>
  BY <1>1, <1>2, <1>3 DEF Empties
<1>11. /\ top.pc = "again" => m.insert # 0 /\ m.insert = top.incoming[1].b
       /\ Abandoned(top) => m.insert = 0
       /\ top.pc = "visit" /\ ~DeadCode => m.insert # 0
  BY <1>1, <1>2, <1>3 DEF Still
<1> QED
  BY <1>2, <1>3, <1>4, <1>5, <1>6, <1>7, <1>8, <1>9, <1>10, <1>11

(* What the innermost call has been given.                                 *)
LEMMA OperandKept ==
  ASSUME TypeInv, NodesInv, frames # <<>>, Kept(frames, m, result), top.pc # "visit",
         NEW e, e = nodes[OperandOf(top)]
  PROVE  /\ Delivers(e, result, m, AllHeld(frames)) /\ Shaped(e, nodes, ret_type)
         /\ e.odd # {} => DeadCode
         /\ result \in Value /\ OperandOf(top) \in 1..Len(nodes) /\ e \in Node
<1>1. Delivers(e, result, m, AllHeld(frames))
  BY DEF Kept, Delivered, top
<1>2. OperandOf(top) \in 1..Len(nodes)
  BY TopKept, PlaceIs, NodesTyped
<1>3. Shaped(e, nodes, ret_type)
  BY <1>2, ShapedIs
<1>4. e.odd # {} => DeadCode
  <2>1. DOMAIN nodes = 1..Len(nodes)
    BY NodesTyped, LenProperties DEF Expressions
  <2> QED
    BY <1>2, <1>3, <2>1 DEF Shaped, DeadCode
<1>5. result \in Value /\ e \in Node
  BY <1>2, NodesTyped, ElementOfSeq DEF TypeInv, Expressions
<1> QED
  BY <1>1, <1>2, <1>3, <1>4, <1>5

LEMMA ValueTypes ==
  ASSUME NEW v \in Value
  PROVE  v.ty \in {"none", "value"} /\ v.real \in BOOLEAN /\ v.def \in Nat
BY DEF Value

(* An operand that is to have a value has one where it is gone on from.    *)
LEMMA ValueOf ==
  ASSUME NEW e, NEW v \in Value, NEW g, NEW held, Delivers(e, v, g, held), Fits(e, "value"),
         Shaped(e, nodes, ret_type)
  PROVE  /\ g.insert # 0 => v.ty = "value" /\ (v.real \/ DeadCode)
                            /\ (v.real => Reach(v.def, g.insert, g, held))
         /\ g.insert = 0 => v = NoneConst
         /\ v.ty # "none" <=> g.insert # 0
<1>1. ASSUME g.insert # 0
      PROVE  v.ty = "value" /\ (v.real \/ DeadCode) /\ (v.real => Reach(v.def, g.insert, g, held))
  <2>1. ~e.leaves /\ (e.gives => v.ty = "value") /\ SoundAt(v, g.insert, g, held)
    BY <1>1 DEF Delivers
  <2>2. e.gives
    BY <2>1 DEF Fits, Shaped
  <2> QED
    BY <2>1, <2>2 DEF SoundAt
<1>2. g.insert = 0 => v = NoneConst
  BY DEF Delivers
<1> QED
  BY <1>1, <1>2 DEF NoneConst

LEMMA NoneOf ==
  ASSUME NEW e, NEW v, NEW g, NEW held, Delivers(e, v, g, held), e.ty = "none"
  PROVE  v = NoneConst /\ v.ty = "none" /\ v.real = FALSE
BY DEF Delivers, NoneConst

(* A value that is typed like one is only missing after dead code.         *)
LEMMA MissingIsDead ==
  ASSUME NEW e, NEW v \in Value, NEW g, NEW held, Delivers(e, v, g, held), e.ty = "value",
         Shaped(e, nodes, ret_type), e.odd # {} => DeadCode
  PROVE  g.insert = 0 \/ ~v.real => DeadCode
<1>1. Fits(e, "value")
  BY DEF Fits
<1>2. g.insert = 0 => DeadCode
  BY DEF Delivers, Shaped
<1> QED
  BY <1>1, <1>2, ValueOf

(* The value of a branch is sound where the branch ends.                   *)
LEMMA EndSound ==
  ASSUME NEW e, NEW v, NEW g, Drawn(g), NEW held, Delivers(e, v, g, held)
  PROVE  SoundAt(v, g.last, g, held)
<1>1. CASE g.insert = 0
  BY <1>1 DEF Delivers, NoneConst, SoundAt
<1>2. CASE g.insert # 0
  BY <1>2 DEF Delivers, Drawn
<1> QED
  BY <1>1, <1>2

-----------------------------------------------------------------------------
(* What is emitted, by the kinds of steps.                                 *)

LEMMA EmitsAs ==
  ASSUME TypeInv, NodesInv, frames # <<>>, Kept(frames, m, result),
         NEW g, Emitting(g), NEW T, Links(m, g, T), T \subseteq 2..Len(g.term),
         \A t \in T : t \in Held(top) \/ t \notin 1..Len(m.term),
         g.insert # 0 => g.last = g.insert, NEW v, Uses(m, g, v),
         v.real /\ m.insert # 0 => Reach(v.def, m.insert, m, AllHeld(frames)),
         ~DeadCode => g.faults = m.faults, Sound(g.loop.nodes, m, AllHeld(frames))
  PROVE  Emits(g, T)
<1>1. /\ Held(top) \subseteq AllHeld(frames) /\ Faultless(m)
      /\ \A u \in m.uses : Reach(u.def, u.at, m, AllHeld(frames))
  BY TopKept
<1>2. \A u \in g.uses : Reach(u.def, u.at, m, AllHeld(frames))
  BY <1>1 DEF Uses
<1> QED
  BY <1>1, <1>2 DEF Emits, Faultless

LEMMA EmitsNothing ==
  ASSUME TypeInv, NodesInv, frames # <<>>, Kept(frames, m, result),
         NEW g, Emitting(g), g.term = m.term, Quiet(m, g), g.insert = m.insert, g.last = m.last
  PROVE  Emits(g, {}) /\ Links(m, g, {})
<1>1. Emitting(m) /\ Drawn(m) /\ Sound(m.loop.nodes, m, AllHeld(frames))
  BY TopKept
<1>2. Links(m, g, {})
  BY <1>1, LinksSame
<1>3. PICK v : v = NoneConst
  OBVIOUS
<1>4. Uses(m, g, v) /\ ~v.real
  BY <1>3 DEF Uses, Quiet, NoneConst
<1> QED
  BY <1>1, <1>2, <1>4, EmitsAs DEF Drawn, Quiet

LEMMA PlainFinish ==
  ASSUME TypeInv, NodesInv, frames # <<>>, Kept(frames, m, result),
         NEW v, NEW g, NEW T, Emits(g, T), \A t \in T : t \in Held(top) \/ t \notin 1..Len(m.term),
         g.loop = IF IsLoop(top) THEN top.outer ELSE m.loop,
         \A x \in g.merges : \/ x \in m.merges
                             \/ /\ x.from = PredsIn(g, x.at) /\ x.at \in 1..Len(g.term)
                                /\ x.at \in Held(top),
         top.pc = "visit" /\ (m.insert = 0 \/ node.kind = "call") => g.insert = m.insert,
         Delivers(node, v, g, AllHeld(Front(frames))), Give(v, g)
  PROVE  Stays
<1>1. Fed(frames, m) /\ Apart(frames) /\ \A h \in Held(top) : h \notin AllHeld(Front(frames))
  BY TopKept
<1>2. Links(m, g, T)
  BY DEF Emits
<1>3. \A k \in 1..(Len(frames) - 1) :
        /\ T \cap Held(frames[k]) = {}
        /\ Encloses(frames, k, Len(frames)) => LoopFed(frames[k], g, g.loop)
  BY <1>1, <1>2, LoopsLeft
<1>4. Finishes(v, g, T)
  BY <1>1, <1>3 DEF Finishes
<1> QED
  BY <1>4, Finished

(* A call that has no blocks goes on without.                              *)
LEMMA PlainMove ==
  ASSUME TypeInv, NodesInv, frames # <<>>, Kept(frames, m, result), m.insert # 0 \/ top.pc # "visit",
         ~IsLoop(top), NEW f, f.node = top.node, f.pc # "visit", f.incoming = top.incoming,
         Calling(f, Len(m.term)), ~HasBlocks(KindOf(f), f.pc), ~IsLoop(f),
         Fresher(f) => Fresher(top), f.pc # "again",
         NEW g, Emitting(g), g.term = m.term, Quiet(m, g), g.insert = m.insert, g.last = m.last,
         Abandoned(f) => m.insert = 0, ~DeadCode => m.insert # 0,
         NEW e, e = OperandOf(f), Evaluate(e, f, g)
  PROVE  Stays
<1>1. Emits(g, {}) /\ Fed(frames, m)
  BY EmitsNothing, TopKept
<1>2. Holds(f) = {} /\ Held(f) = {} /\ f \in Frame
  <2>1. Holds(f) = {}
    BY HeldIs
  <2> QED
    BY <2>1, CallingIs DEF Held
<1>3. BranchFed(f, g)
  BY DEF BranchFed, KindOf
<1>4. Sound(top.incoming, m, AllHeld(frames)) /\ (Fresher(top) => top.incoming = <<>>)
  BY TopKept
<1>5. Moves(f, g, {})
  BY <1>1, <1>2, <1>3, <1>4 DEF Moves, Quiet
<1> QED
  BY <1>2, <1>5, MovesOn

-----------------------------------------------------------------------------
(* The steps without blocks of their own.                                  *)

Keeping == TypeInv /\ NodesInv /\ Kept(frames, m, result)

LEMMA FlatGive ==
  ASSUME Keeping, frames # <<>>, ~IsLoop(top), NEW v, NEW g, Emitting(g), g.term = m.term,
         Quiet(m, g), g.insert = m.insert, g.last = m.last,
         Delivers(node, v, g, AllHeld(Front(frames))), Give(v, g)
  PROVE  Stays
<1>1. Emits(g, {})
  BY EmitsNothing DEF Keeping
<1> QED
  BY <1>1, PlainFinish DEF Keeping, Quiet

LEMMA SkipKeeps == ASSUME Keeping, Skip PROVE Stays
<1>1. frames # <<>> /\ top.pc = "visit" /\ m.insert = 0 /\ Give(NoneConst, m)
  BY DEF Skip
<1>2. ~IsLoop(top) /\ Emitting(m)
  BY <1>1, TopKept DEF IsLoop, Keeping
<1>3. DeadCode
  BY <1>1, TopKept DEF Keeping
<1>4. Delivers(node, NoneConst, m, AllHeld(Front(frames)))
  BY <1>1, <1>3 DEF Delivers
<1> QED
  BY <1>1, <1>2, <1>4, FlatGive DEF Quiet

LEMMA CallKeeps == ASSUME Keeping, Call PROVE Stays
<1>1. PICK v : v = [ty |-> "value", real |-> TRUE, def |-> m.insert]
  OBVIOUS
<1>2. At("call", "visit") /\ m.insert # 0 /\ Give(v, m)
  BY <1>1 DEF Call, Visiting
<1>3. frames # <<>> /\ ~IsLoop(top) /\ node.kind = "call"
  BY <1>2, AtIs DEF Keeping
<1>4. Emitting(m) /\ Shaped(node, nodes, ret_type)
  BY <1>3, TopKept DEF Keeping
<1>5. m.insert \in 1..Len(m.term)
  BY <1>2, <1>4, InsertIs
<1>6. SoundAt(v, m.insert, m, AllHeld(Front(frames)))
  BY <1>1, <1>5, ReachSelf DEF SoundAt
<1>7. node.ty = "value" /\ ~node.leaves
  BY <1>3, <1>4 DEF Shaped
<1>8. Delivers(node, v, m, AllHeld(Front(frames)))
  BY <1>1, <1>2, <1>6, <1>7 DEF Delivers
<1> QED
  BY <1>2, <1>3, <1>4, <1>8, FlatGive DEF Quiet

LEMMA NoneLiteralKeeps == ASSUME Keeping, NoneLiteral PROVE Stays
<1>1. At("none", "visit") /\ m.insert # 0 /\ Give(NoneConst, m)
  BY DEF NoneLiteral, Visiting
<1>2. frames # <<>> /\ ~IsLoop(top) /\ node.kind = "none"
  BY <1>1, AtIs DEF Keeping
<1>3. Emitting(m) /\ Shaped(node, nodes, ret_type)
  BY <1>2, TopKept DEF Keeping
<1>4. node.ty = "none" /\ ~node.leaves /\ ~node.gives
  BY <1>2, <1>3 DEF Shaped
<1>5. Delivers(node, NoneConst, m, AllHeld(Front(frames)))
  BY <1>1, <1>4 DEF Delivers, SoundAt, NoneConst
<1> QED
  BY <1>1, <1>2, <1>3, <1>5, FlatGive DEF Quiet

(* A call enters its first operand, and has nothing but its place.         *)
LEMMA EnterFlat ==
  ASSUME Keeping, frames # <<>>, m.insert # 0, top.pc = "visit", NEW pc, pc # "visit", pc # "again",
         NEW f, f = [top EXCEPT !.pc = pc], Calling(f, Len(m.term)), ~HasBlocks(KindOf(f), pc),
         ~IsLoop(f), NEW g, Emitting(g), g.term = m.term, Quiet(m, g), g.insert = m.insert,
         g.last = m.last, f.case = 1, NEW e, e = OperandOf(f), Evaluate(e, f, g)
  PROVE  Stays
<1>1. top \in Frame
  BY TopKept DEF Keeping
<1>2. f.node = top.node /\ f.pc = pc /\ f.incoming = top.incoming
  BY <1>1 DEF Frame
<1>3. ~IsLoop(top) /\ Fresher(top) /\ ~Abandoned(f)
  BY DEF IsLoop, Fresher, Abandoned
<1> QED
  BY <1>2, <1>3, PlainMove DEF Keeping

LEMMA PushWhole ==
  ASSUME NEW g, Emitting(g), NEW r, r = PushLocalScope(g)
  PROVE  Emitting(r) /\ r.term = g.term /\ Quiet(g, r) /\ r.insert = g.insert /\ r.last = g.last
<1>1. g \in Generator
  BY DEF Emitting
<1>2. Quiet(g, r) /\ r.term = g.term /\ r.insert = g.insert /\ r.last = g.last
  BY <1>1, PushQuiet
<1>3. r \in Generator
  BY <1>1, PushIs
<1> QED
  BY <1>2, <1>3 DEF Emitting

LEMMA PopWhole ==
  ASSUME NEW g, Emitting(g), g.locals > 0, NEW r, r = PopLocals(g)
  PROVE  Emitting(r) /\ r.term = g.term /\ Quiet(g, r) /\ r.insert = g.insert /\ r.last = g.last
<1>1. g \in Generator
  BY DEF Emitting
<1>2. Quiet(g, r) /\ r.term = g.term /\ r.insert = g.insert /\ r.last = g.last
  BY <1>1, PopQuiet
<1>3. r \in Generator
  BY <1>1, PopIs
<1> QED
  BY <1>2, <1>3 DEF Emitting

LEMMA EnterBlockKeeps == ASSUME Keeping, EnterBlock PROVE Stays
<1>1. PICK pc : pc = "block"
  OBVIOUS
<1>2. PICK f : f = [top EXCEPT !.pc = pc]
  OBVIOUS
<1>3. PICK e, g : e = node.sub[1] /\ g = PushLocalScope(m)
  OBVIOUS
<1>4. At("block", "visit") /\ m.insert # 0 /\ Evaluate(e, f, g)
  BY <1>1, <1>2, <1>3 DEF EnterBlock, Visiting
<1>5. /\ frames # <<>> /\ KindOf(top) = "block" /\ top.pc = "visit" /\ node.kind = "block"
      /\ Placed(top, "block", Len(node.sub), Len(m.term)) /\ TypeInv
  BY <1>4, AtIs DEF Keeping
<1>6. pc \in Places
  BY <1>1 DEF Places
<1>7. /\ f.node = top.node /\ f.pc = pc /\ f.case = top.case /\ KindOf(f) = "block"
      /\ \A n : Placed(f, "block", Len(node.sub), n) => Calling(f, n)
  BY <1>2, <1>5, <1>6, MovedIs DEF node
<1>8. Calling(f, Len(m.term)) /\ f.case = 1
  BY <1>1, <1>5, <1>7 DEF Placed, PlacesOf, HasBlocks
<1>9. e = OperandOf(f)
  BY <1>3, <1>7, <1>8 DEF OperandOf, PlaceOf, node
<1>10. ~HasBlocks(KindOf(f), pc) /\ ~IsLoop(f)
  BY <1>1, <1>7 DEF HasBlocks, IsLoop
<1>11. Emitting(g) /\ g.term = m.term /\ Quiet(m, g) /\ g.insert = m.insert /\ g.last = m.last
  <2>1. Emitting(m) /\ m \in Generator
    BY <1>5, FramesAre DEF Emitting
  <2> QED
    BY <1>3, <2>1, PushWhole
<1> QED
  BY <1>1, <1>2, <1>4, <1>5, <1>8, <1>9, <1>10, <1>11, EnterFlat

LEMMA EnterReturnKeeps == ASSUME Keeping, EnterReturn PROVE Stays
<1>1. PICK pc : pc = "return"
  OBVIOUS
<1>2. PICK f : f = [top EXCEPT !.pc = pc]
  OBVIOUS
<1>3. PICK e : e = node.sub[1]
  OBVIOUS
<1>4. At("return", "visit") /\ m.insert # 0 /\ Evaluate(e, f, m)
  BY <1>1, <1>2, <1>3 DEF EnterReturn, Visiting
<1>5. /\ frames # <<>> /\ KindOf(top) = "return" /\ top.pc = "visit" /\ node.kind = "return"
      /\ Placed(top, "return", Len(node.sub), Len(m.term)) /\ TypeInv
  BY <1>4, AtIs DEF Keeping
<1>6. pc \in Places
  BY <1>1 DEF Places
<1>7. /\ f.node = top.node /\ f.pc = pc /\ f.case = top.case /\ KindOf(f) = "return"
      /\ \A n : Placed(f, "return", Len(node.sub), n) => Calling(f, n)
  BY <1>2, <1>5, <1>6, MovedIs DEF node
<1>8. Calling(f, Len(m.term)) /\ f.case = 1
  BY <1>1, <1>5, <1>7 DEF Placed, PlacesOf, HasBlocks
<1>9. e = OperandOf(f)
  BY <1>1, <1>3, <1>7 DEF OperandOf, PlaceOf, node
<1>10. ~HasBlocks(KindOf(f), pc) /\ ~IsLoop(f)
  BY <1>1, <1>7 DEF HasBlocks, IsLoop
<1>11. Emitting(m)
  BY <1>5, FramesAre
<1> QED
  BY <1>1, <1>2, <1>4, <1>5, <1>8, <1>9, <1>10, <1>11, EnterFlat DEF Quiet

LEMMA EnterIfKeeps == ASSUME Keeping, EnterIf PROVE Stays
<1>1. PICK pc : pc = "cond"
  OBVIOUS
<1>2. PICK f : f = [top EXCEPT !.pc = pc]
  OBVIOUS
<1>3. PICK e : e = node.sub[1]
  OBVIOUS
<1>4. At("if", "visit") /\ m.insert # 0 /\ Evaluate(e, f, m)
  BY <1>1, <1>2, <1>3 DEF EnterIf, Visiting
<1>5. /\ frames # <<>> /\ KindOf(top) = "if" /\ top.pc = "visit" /\ node.kind = "if"
      /\ Placed(top, "if", Len(node.sub), Len(m.term)) /\ TypeInv
  BY <1>4, AtIs DEF Keeping
<1>6. pc \in Places
  BY <1>1 DEF Places
<1>7. /\ f.node = top.node /\ f.pc = pc /\ f.case = top.case /\ KindOf(f) = "if"
      /\ \A n : Placed(f, "if", Len(node.sub), n) => Calling(f, n)
  BY <1>2, <1>5, <1>6, MovedIs DEF node
<1>8. Calling(f, Len(m.term)) /\ f.case = 1
  BY <1>1, <1>5, <1>7 DEF Placed, PlacesOf, HasBlocks
<1>9. e = OperandOf(f)
  BY <1>1, <1>3, <1>7 DEF OperandOf, PlaceOf, node
<1>10. ~HasBlocks(KindOf(f), pc) /\ ~IsLoop(f)
  BY <1>1, <1>7 DEF HasBlocks, IsLoop
<1>11. Emitting(m)
  BY <1>5, FramesAre
<1> QED
  BY <1>1, <1>2, <1>4, <1>5, <1>8, <1>9, <1>10, <1>11, EnterFlat DEF Quiet

(* What a call goes on as, and with, is typed.                             *)
LEMMA WentOn ==
  ASSUME TypeInv, frames # <<>>, Goes, NEW e, NEW f, NEW g, Evaluate(e, f, g)
  PROVE  Emitting(g) /\ Calling(f, Len(g.term)) /\ f \in Frame
<1>1. PICK n, hs, q : n = Len(frames) /\ hs = Front(frames) /\ q = NewFrame(e, g)
  OBVIOUS
<1>2. n \in Nat \ {0} /\ hs \in Seq(Frame) /\ Len(hs) = n - 1
  BY <1>1, FramesAre, FrontIs
<1>3. frames' = Append(Append(hs, f), q) /\ m' = g /\ nodes' = nodes
  BY <1>1 DEF Evaluate
<1>4. PICK S : S = Frame \cup {f, q}
  OBVIOUS
<1>5. hs \in Seq(S) /\ f \in S /\ q \in S
  <2>1. \A i \in 1..(n - 1) : hs[i] \in S
    BY <1>2, <1>4, ElementOfSeq
  <2>2. DOMAIN hs = 1..(n - 1) /\ hs = [i \in DOMAIN hs |-> hs[i]]
    BY <1>2, LenProperties
  <2>3. hs \in [1..(n - 1) -> S]
    BY <2>1, <2>2
  <2>4. n - 1 \in Nat
    BY <1>2
  <2> QED
    BY <1>4, <2>3, <2>4, SeqDef
<1>6. PICK h1, h2 : h1 = Append(hs, f) /\ h2 = Append(h1, q)
  OBVIOUS
<1>7. h1 \in Seq(S) /\ Len(h1) = n /\ h1[n] = f
  BY <1>2, <1>5, <1>6, AppendProperties
<1>8. Len(h2) = n + 1 /\ h2[n] = f
  <2>1. n \in 1..n
    BY <1>2
  <2> QED
    BY <1>5, <1>6, <1>7, <2>1, AppendProperties
<1>9. frames' = h2
  BY <1>3, <1>6
<1>10. TypeInv'
  BY DEF Goes
<1>11. Emitting(m')
  BY <1>10 DEF TypeInv, Walk
<1>12. n \in 1..Len(frames')
  BY <1>2, <1>8, <1>9
<1>13. Calling(frames'[n], Len(m'.term))
  <2>1. \A i \in 1..Len(frames') : Calling(frames[i], Len(m.term))'
    BY <1>10 DEF TypeInv, Walk
  <2> QED
    BY <1>3, <1>12, <2>1 DEF Calling, KindOf
<1> QED
  BY <1>3, <1>8, <1>9, <1>11, <1>13 DEF Calling

LEMMA WentBack ==
  ASSUME TypeInv, Goes, NEW v, NEW g, Give(v, g)
  PROVE  Emitting(g) /\ v \in Value
<1>1. m' = g /\ result' = v /\ TypeInv'
  BY DEF Give, Goes
<1> QED
  BY <1>1 DEF TypeInv, Walk

(* The calls but the innermost one hold less.                              *)
LEMMA RestHeld ==
  ASSUME TypeInv, frames # <<>>
  PROVE  \A h \in AllHeld(Front(frames)) : h \in AllHeld(frames)
BY ReturnedIs, PoppedFramesAre

LEMMA DeliversOn ==
  ASSUME TypeInv, frames # <<>>, NEW g, NEW T, Emits(g, T), g.insert = m.insert,
         NEW e, NEW v, Delivers(e, v, m, AllHeld(frames))
  PROVE  Delivers(e, v, g, AllHeld(Front(frames)))
<1>1. PICK held, rest : held = AllHeld(frames) /\ rest = AllHeld(Front(frames))
  OBVIOUS
<1>2. \A h \in rest : h \in held
  BY <1>1, RestHeld
<1>3. /\ Emitting(m) /\ Links(m, g, T)
      /\ \A t \in T : t \in held \/ t \notin 1..Len(m.term)
  BY <1>1, FramesAre DEF Emits
<1>4. \A d, b : Reach(d, b, m, held) => Reach(d, b, g, rest)
  BY <1>2, <1>3, ReachKept
<1> QED
  BY <1>1, <1>4 DEF Delivers, SoundAt

(* Odd shapes that are left are dead code.                                 *)
LEMMA NodeOdd ==
  ASSUME TypeInv, NodesInv, frames # <<>>
  PROVE  /\ node.odd # {} => DeadCode
         /\ node \in Node
<1>1. top.node \in 1..Len(nodes)
  BY FramesAre, TopIs, CallingIs DEF TypeInv
<1>2. DOMAIN nodes = 1..Len(nodes)
  BY NodesTyped, LenProperties DEF Expressions
<1>3. Shaped(node, nodes, ret_type)
  BY <1>1, ShapedIs DEF node
<1>4. node \in Node
  BY <1>1, NodesTyped, ElementOfSeq DEF node, Expressions
<1> QED
  BY <1>1, <1>2, <1>3, <1>4 DEF Shaped, DeadCode, node

LEMMA NextInBlockKeeps == ASSUME Keeping, NextInBlock PROVE Stays
<1>1. At("block", "block") /\ TypeInv /\ NodesInv /\ Kept(frames, m, result)
  BY DEF NextInBlock, Keeping
<1>2. /\ frames # <<>> /\ KindOf(top) = "block" /\ top.pc = "block" /\ node.kind = "block"
      /\ Placed(top, "block", Len(node.sub), Len(m.term)) /\ Len(node.sub) = 2
      /\ ~IsLoop(top) /\ top \in Frame
  BY <1>1, AtIs DEF Operands
<1>3. Goes
  BY <1>1, NextInBlockStep
<1>4. /\ Shaped(node, nodes, ret_type) /\ Emitting(m) /\ (Abandoned(top) => m.insert = 0)
      /\ node.odd # {} => DeadCode
  BY <1>1, <1>2, TopKept, NodeOdd
<1>5. OperandOf(top) = node.sub[top.case] /\ top.case \in 1..2
  BY <1>2 DEF OperandOf, PlaceOf, node, Placed
<1>6. PICK e : e = nodes[OperandOf(top)]
  OBVIOUS
<1>7. Delivers(e, result, m, AllHeld(frames)) /\ (e.odd # {} => DeadCode) /\ e \in Node
  BY <1>1, <1>2, <1>6, OperandKept
<1>8. CASE top.case < Len(node.sub)
  <2>1. PICK c : c = top.case + 1
    OBVIOUS
  <2>2. c = 2 /\ top.case = 1
    BY <1>2, <1>5, <1>8, <2>1
  <2>3. PICK f : f = [top EXCEPT !.case = c]
    OBVIOUS
  <2>4. PICK o : o = node.sub[c]
    OBVIOUS
  <2>5. Evaluate(o, f, m)
    BY <1>8, <2>1, <2>3, <2>4 DEF NextInBlock
  <2>6. Calling(f, Len(m.term))
    BY <1>1, <1>2, <1>3, <2>5, WentOn
  <2>7. f.node = top.node /\ f.pc = "block" /\ f.case = 2 /\ f.incoming = top.incoming
    BY <1>2, <2>2, <2>3 DEF Frame
  <2>8. KindOf(f) = "block"
    BY <1>2, <2>7 DEF KindOf
  <2>9. ~HasBlocks(KindOf(f), f.pc) /\ ~IsLoop(f) /\ ~Fresher(f)
    BY <2>7, <2>8 DEF HasBlocks, IsLoop, Fresher
  <2>10. o = OperandOf(f)
    BY <2>2, <2>4, <2>7, <2>8 DEF OperandOf, PlaceOf, node
  <2>11. e = nodes[node.sub[1]]
    BY <1>5, <1>6, <2>2
  <2>12. Abandoned(f) => m.insert = 0
    <3>1. Abandoned(f) => e.leaves
      BY <2>7, <2>11 DEF Abandoned, node
    <3> QED
      BY <1>7, <3>1 DEF Delivers
  <2>13. ~DeadCode => m.insert # 0
    <3>1. m.insert = 0 => e.leaves \/ DeadCode
      BY <1>7 DEF Delivers
    <3>2. e.leaves => node.odd # {}
      BY <1>2, <1>4, <2>11 DEF Shaped
    <3> QED
      BY <1>4, <3>1, <3>2
  <2> QED
    BY <1>1, <1>2, <1>4, <2>5, <2>6, <2>7, <2>9, <2>10, <2>12, <2>13, PlainMove DEF Quiet
<1>9. CASE ~(top.case < Len(node.sub))
  <2>1. PICK g : g = PopLocals(m)
    OBVIOUS
  <2>2. Give(result, g)
    BY <1>9, <2>1 DEF NextInBlock
  <2>3. Emitting(g)
    BY <1>1, <1>3, <2>2, WentBack
  <2>4. Quiet(m, g) /\ g.term = m.term /\ g.insert = m.insert /\ g.last = m.last
    BY <1>4, <2>1, PopQuiet DEF Emitting
  <2>5. top.case = 2 /\ e = nodes[node.sub[2]]
    BY <1>2, <1>5, <1>6, <1>9
  <2>6. Delivers(node, result, m, AllHeld(frames))
    <3>1. node.ty = e.ty /\ node.gives = e.gives
          /\ (node.leaves <=> nodes[node.sub[1]].leaves \/ e.leaves)
      BY <1>2, <1>4, <2>5 DEF Shaped
    <3>2. m.insert # 0 => ~nodes[node.sub[1]].leaves
      BY <1>2, <1>4, <2>5 DEF Abandoned, node
    <3> QED
      BY <1>7, <3>1, <3>2 DEF Delivers
  <2>7. Emits(g, {})
    BY <1>1, <1>2, <2>3, <2>4, EmitsNothing
  <2>8. Delivers(node, result, g, AllHeld(Front(frames)))
    BY <1>1, <1>2, <2>4, <2>6, <2>7, DeliversOn
  <2> QED
    BY <1>1, <1>2, <2>2, <2>3, <2>4, <2>8, FlatGive DEF Keeping
<1> QED
  BY <1>8, <1>9

-----------------------------------------------------------------------------
(* Values that come in where ways meet.                                    *)

LEMMA CountedAppend ==
  ASSUME NEW s \in Seq(Incoming), NEW x \in Incoming, NEW r, r = Append(s, x)
  PROVE  /\ CountedBlocks(r) = CountedBlocks(s) \cup IF x.v.ty # "none" THEN {x.b} ELSE {}
         /\ Counted(r) = {} <=> Counted(s) = {} /\ x.v.ty = "none"
         /\ \A g, held : Sound(s, g, held) /\ SoundAt(x.v, x.b, g, held) => Sound(r, g, held)
<1>1. PICK n : n = Len(s)
  OBVIOUS
<1>2. /\ n \in Nat /\ DOMAIN s = 1..n /\ DOMAIN r = 1..(n + 1) /\ Len(r) = n + 1
      /\ r[n + 1] = x /\ \A i \in 1..n : r[i] = s[i]
  <2>1. /\ r \in Seq(Incoming) /\ Len(r) = n + 1 /\ r[n + 1] = x /\ \A i \in 1..n : r[i] = s[i]
    BY <1>1, AppendProperties
  <2> QED
    BY <1>1, <2>1, LenProperties
<1>3. \A i \in 1..(n + 1) : i = n + 1 \/ i \in 1..n
  BY <1>2
<1>4. \A i \in 1..n : i \in 1..(n + 1)
  BY <1>2
<1>5. n + 1 \in 1..(n + 1)
  BY <1>2
<1>6. \A i : i \in Counted(r) <=> \/ i \in Counted(s)
                                  \/ i = n + 1 /\ x.v.ty # "none"
  BY <1>2, <1>3, <1>4, <1>5 DEF Counted
<1>7. \A i \in Counted(s) : r[i] = s[i]
  BY <1>2 DEF Counted
<1>8. CountedBlocks(r) = CountedBlocks(s) \cup IF x.v.ty # "none" THEN {x.b} ELSE {}
  BY <1>2, <1>6, <1>7 DEF CountedBlocks
<1>9. Counted(r) = {} <=> Counted(s) = {} /\ x.v.ty = "none"
  BY <1>6
<1>10. \A g, held : Sound(s, g, held) /\ SoundAt(x.v, x.b, g, held) => Sound(r, g, held)
  BY <1>1, <1>2, <1>3 DEF Sound
<1> QED
  BY <1>8, <1>9, <1>10

LEMMA CountedConcat ==
  ASSUME NEW s \in Seq(Incoming), NEW t \in Seq(Incoming), NEW r, r = s \o t
  PROVE  /\ r \in Seq(Incoming) /\ CountedBlocks(r) = CountedBlocks(s) \cup CountedBlocks(t)
         /\ Counted(r) = {} <=> Counted(s) = {} /\ Counted(t) = {}
         /\ \A g, held : Sound(s, g, held) /\ Sound(t, g, held) => Sound(r, g, held)
<1>1. PICK n, k : n = Len(s) /\ k = Len(t)
  OBVIOUS
<1>2. /\ n \in Nat /\ k \in Nat /\ DOMAIN s = 1..n /\ DOMAIN t = 1..k
      /\ DOMAIN r = 1..(n + k) /\ Len(r) = n + k /\ r \in Seq(Incoming)
      /\ \A i \in 1..n : r[i] = s[i]
      /\ \A i \in 1..k : r[n + i] = t[i]
  <2>1. /\ r \in Seq(Incoming) /\ Len(r) = n + k
        /\ \A i \in 1..(n + k) : r[i] = IF i <= n THEN s[i] ELSE t[i - n]
    BY <1>1, ConcatProperties
  <2>2. n \in Nat /\ k \in Nat /\ DOMAIN s = 1..n /\ DOMAIN t = 1..k /\ DOMAIN r = 1..(n + k)
    BY <1>1, <2>1, LenProperties
  <2>3. \A i \in 1..n : i \in 1..(n + k) /\ i <= n
    BY <2>2
  <2>4. ASSUME NEW i \in 1..k
        PROVE  r[n + i] = t[i]
    <3>1. PICK j : j = n + i
      OBVIOUS
    <3>2. j \in 1..(n + k) /\ ~(j <= n) /\ j - n = i
      BY <2>2, <3>1
    <3> QED
      BY <2>1, <3>1, <3>2
  <2> QED
    BY <2>1, <2>2, <2>3, <2>4
<1>3. \A i \in 1..(n + k) : i \in 1..n \/ (i - n \in 1..k /\ n + (i - n) = i)
  BY <1>2
<1>4. \A i \in 1..n : i \in 1..(n + k)
  BY <1>2
<1>5. \A i \in 1..k : n + i \in 1..(n + k)
  BY <1>2
<1>6. \A i \in Counted(s) : i \in Counted(r) /\ r[i] = s[i]
  BY <1>2, <1>4 DEF Counted
<1>7. \A i \in Counted(t) : n + i \in Counted(r) /\ r[n + i] = t[i]
  BY <1>2, <1>5 DEF Counted
<1>8. ASSUME NEW i \in Counted(r)
      PROVE  \/ i \in Counted(s) /\ r[i] = s[i]
             \/ i - n \in Counted(t) /\ r[i] = t[i - n]
  <2>1. i \in 1..(n + k) /\ r[i].v.ty # "none"
    BY <1>2 DEF Counted
  <2>2. CASE i \in 1..n
    BY <1>2, <2>1, <2>2 DEF Counted
  <2>3. CASE i - n \in 1..k /\ n + (i - n) = i
    <3>1. r[i] = t[i - n]
      BY <1>2, <2>3
    <3> QED
      BY <1>2, <2>1, <2>3, <3>1 DEF Counted
  <2> QED
    BY <1>3, <2>1, <2>2, <2>3
<1>9. CountedBlocks(r) = CountedBlocks(s) \cup CountedBlocks(t)
  <2>1. ASSUME NEW b \in CountedBlocks(r)
        PROVE  b \in CountedBlocks(s) \cup CountedBlocks(t)
    <3>1. PICK i \in Counted(r) : b = r[i].b
      BY DEF CountedBlocks
    <3> QED
      BY <1>8, <3>1 DEF CountedBlocks
  <2>2. \A b \in CountedBlocks(s) : b \in CountedBlocks(r)
    BY <1>6 DEF CountedBlocks
  <2>3. ASSUME NEW b \in CountedBlocks(t)
        PROVE  b \in CountedBlocks(r)
    <3>1. PICK i \in Counted(t) : b = t[i].b
      BY DEF CountedBlocks
    <3>2. n + i \in Counted(r) /\ r[n + i].b = b
      BY <1>7, <3>1
    <3> QED
      BY <3>2 DEF CountedBlocks
  <2> QED
    BY <2>1, <2>2, <2>3
<1>10. Counted(r) = {} <=> Counted(s) = {} /\ Counted(t) = {}
  BY <1>6, <1>7, <1>8
<1>11. ASSUME NEW g, NEW held, Sound(s, g, held), Sound(t, g, held)
       PROVE  Sound(r, g, held)
  <2>1. ASSUME NEW i \in 1..(n + k)
        PROVE  SoundAt(r[i].v, r[i].b, g, held)
    <3>1. CASE i \in 1..n
      BY <1>1, <1>2, <1>11, <3>1 DEF Sound
    <3>2. CASE i - n \in 1..k /\ n + (i - n) = i
      <4>1. r[i] = t[i - n]
        BY <1>2, <3>2
      <4> QED
        BY <1>1, <1>11, <3>2, <4>1 DEF Sound
    <3> QED
      BY <1>3, <3>1, <3>2
  <2> QED
    BY <1>2, <2>1 DEF Sound
<1> QED
  BY <1>2, <1>9, <1>10, <1>11

-----------------------------------------------------------------------------
(* Breaks and returns.                                                     *)

(* The loop that a break leaves.                                           *)
BreaksTo(k) ==
  LET n == Len(frames)
      l == nodes[frames[k].node]
  IN  /\ k \in 1..(n - 1) /\ Encloses(frames, k, n) /\ LoopFed(frames[k], m, m.loop)
      /\ l.kind = "loop" /\ l \in Node /\ Shaped(l, nodes, ret_type)
      /\ node.breaks \subseteq GivenTo(l)
      /\ m.loop.end = frames[k].blocks[3] /\ m.loop.end \in 2..Len(m.term)
      /\ m.loop.end \in AllHeld(frames)
      /\ \A i \in 1..(n - 1) : {m.loop.end} \cap Held(frames[i]) = {} \/ i = k

LEMMA LoopOfBreak ==
  ASSUME Keeping, frames # <<>>, node.kind = "break", ~IsLoop(top)
  PROVE  \E k \in Nat : BreaksTo(k)
<1>1. PICK n : n = Len(frames)
  OBVIOUS
<1>2. /\ n \in Nat \ {0} /\ top = frames[n] /\ n \in 1..n
      /\ \A k \in 1..n : Calling(frames[k], Len(m.term))
  BY <1>1, FramesAre DEF Keeping
<1>3. Shaped(node, nodes, ret_type) /\ Fed(frames, m) /\ Apart(frames)
  BY TopKept DEF Keeping
<1>4. node.breaks # {}
  BY <1>3 DEF Shaped
<1>5. PICK k \in 1..n : /\ Encloses(frames, k, n)
                        /\ node.breaks \subseteq GivenTo(nodes[frames[k].node])
  BY <1>1, <1>2, <1>4 DEF Keeping, Kept, Broken, node
<1>6. k \in 1..(n - 1) /\ k # n /\ IsLoop(frames[k])
  BY <1>2, <1>5 DEF Encloses
<1>7. LoopFed(frames[k], m, m.loop)
  <2>1. Encloses(frames, k, n + 1)
    BY <1>2, <1>5, EnclosesFurther
  <2> QED
    BY <1>1, <1>3, <2>1 DEF Fed
<1>8. PICK e : e = m.loop.end
  OBVIOUS
<1>9. e = frames[k].blocks[3] /\ e \in Held(frames[k])
  BY <1>2, <1>6, <1>7, <1>8, LoopHolds DEF LoopFed
<1>10. e \in AllHeld(frames)
  BY <1>1, <1>9, HeldBy
<1>11. e \in 2..Len(m.term)
  <2>1. e \in 1..Len(m.term) /\ e # 1
    BY <1>2, <1>3, <1>9, <1>10, HeldIs DEF Apart
  <2> QED
    BY <2>1
<1>12. \A i \in 1..(n - 1) : {e} \cap Held(frames[i]) = {} \/ i = k
  <2>1. \A i \in 1..(n - 1) : i \in 1..n
    BY <1>2
  <2> QED
    BY <1>1, <1>3, <1>9, <2>1 DEF Apart
<1>13. /\ nodes[frames[k].node].kind = "loop" /\ nodes[frames[k].node] \in Node
       /\ Shaped(nodes[frames[k].node], nodes, ret_type)
  <2>1. frames[k].node \in 1..Len(nodes)
    BY <1>2, CallingIs
  <2> QED
    BY <1>6, <2>1, ShapedIs, NodesTyped, ElementOfSeq DEF Keeping, IsLoop, KindOf, Expressions
<1> QED
  BY <1>1, <1>5, <1>6, <1>7, <1>8, <1>9, <1>10, <1>11, <1>12, <1>13 DEF BreaksTo

(* A break has emitted what it has to its loop, and goes there.            *)
LEMMA BreakFinish ==
  ASSUME Keeping, frames # <<>>, node.kind = "break", NEW k \in Nat, BreaksTo(k),
         NEW h, Emitting(h), h.term = m.term, h.insert = m.insert, h.uses = m.uses,
         h.merges = m.merges, h.faults = m.faults, h.loop.end = m.loop.end,
         Sound(h.loop.nodes, m, AllHeld(frames)),
         NEW g, g = Jump(h), Emitting(g), LoopFed(frames[k], g, h.loop),
         top.pc = "visit" => m.insert # 0, Give(NoneConst, g)
  PROVE  Stays
<1>1. PICK e : e = m.loop.end
  OBVIOUS
<1>2. /\ k \in 1..(Len(frames) - 1) /\ Encloses(frames, k, Len(frames))
      /\ e \in 2..Len(m.term) /\ e \in AllHeld(frames)
      /\ \A i \in 1..(Len(frames) - 1) : {e} \cap Held(frames[i]) = {} \/ i = k
  BY <1>1 DEF BreaksTo
<1>3. /\ Emitting(m) /\ Len(m.term) \in Nat /\ Faultless(m) /\ Shaped(node, nodes, ret_type)
      /\ \A u \in m.uses : Reach(u.def, u.at, m, AllHeld(frames))
  BY TopKept DEF Keeping
<1>4. e \in Nat /\ g = UnconditionalBranch(h, e)
  BY <1>1, <1>2, <1>3 DEF Jump
<1>5. Links(h, g, {e}) /\ Quiet(h, g) /\ g.insert = 0
  BY <1>4, JumpLinks
<1>6. Links(m, g, {e})
  BY <1>5 DEF Links
<1>7. Len(m.term) <= Len(g.term) /\ Len(g.term) \in Nat
  BY <1>6 DEF Links
<1>8. Emits(g, {e})
  BY <1>2, <1>3, <1>5, <1>6, <1>7 DEF Emits, Quiet, Faultless
<1>9. node.leaves /\ node.ty = "any"
  BY <1>3 DEF Shaped
<1>10. Delivers(node, NoneConst, g, AllHeld(Front(frames)))
  BY <1>5, <1>9 DEF Delivers
<1>11. \A i \in 1..(Len(frames) - 1) : Encloses(frames, i, Len(frames)) => i = k
  BY <1>2, FramesAre, EnclosesOne DEF Keeping
<1>12. Finishes(NoneConst, g, {e})
  BY <1>2, <1>5, <1>8, <1>10, <1>11 DEF Finishes, Quiet
<1> QED
  BY <1>12, Finished DEF Keeping

LEMMA EnterBreakKeeps == ASSUME Keeping, EnterBreak PROVE Stays
<1>1. At("break", "visit") /\ m.insert # 0 /\ TypeInv
  BY DEF EnterBreak, Visiting, Keeping
<1>2. /\ frames # <<>> /\ KindOf(top) = "break" /\ node.kind = "break" /\ top.pc = "visit"
      /\ Placed(top, "break", Len(node.sub), Len(m.term)) /\ ~IsLoop(top)
  BY <1>1, AtIs
<1>3. Goes
  BY <1>1, EnterBreakStep
<1>4. Emitting(m) /\ Sound(m.loop.nodes, m, AllHeld(frames))
  BY <1>2, TopKept DEF Keeping
<1>5. CASE m.loop.phi
  <2>1. PICK pc : pc = "break"
    OBVIOUS
  <2>2. PICK f : f = [top EXCEPT !.pc = pc]
    OBVIOUS
  <2>3. PICK e : e = node.sub[1]
    OBVIOUS
  <2>4. Evaluate(e, f, m)
    BY <1>5, <2>1, <2>2, <2>3 DEF EnterBreak
  <2>5. Calling(f, Len(m.term))
    BY <1>1, <1>2, <1>3, <2>4, WentOn
  <2>6. pc \in Places
    BY <2>1 DEF Places
  <2>7. f.node = top.node /\ f.pc = pc /\ f.case = top.case /\ KindOf(f) = "break"
    BY <1>1, <1>2, <2>2, <2>6, MovedIs
  <2>8. f.case = 1
    BY <1>2, <2>7 DEF Placed
  <2>9. e = OperandOf(f)
    BY <2>1, <2>3, <2>7 DEF OperandOf, PlaceOf, node
  <2>10. ~HasBlocks(KindOf(f), pc) /\ ~IsLoop(f)
    BY <2>1, <2>7 DEF HasBlocks, IsLoop
  <2> QED
    BY <1>1, <1>2, <1>4, <2>1, <2>2, <2>4, <2>5, <2>8, <2>9, <2>10, EnterFlat DEF Quiet
<1>6. CASE ~m.loop.phi
  <2>1. PICK g : g = Jump(m)
    OBVIOUS
  <2>2. Give(NoneConst, g)
    BY <1>6, <2>1 DEF EnterBreak
  <2>3. Emitting(g)
    BY <1>1, <1>3, <2>2, WentBack
  <2>4. PICK k \in Nat : BreaksTo(k)
    BY <1>2, LoopOfBreak
  <2>5. LoopFed(frames[k], g, m.loop)
    <3>1. LoopFed(frames[k], m, m.loop)
      BY <2>4 DEF BreaksTo
    <3>2. ~nodes[frames[k].node].phi
      BY <1>6, <3>1 DEF LoopFed
    <3> QED
      BY <3>1, <3>2 DEF LoopFed, Merges
  <2> QED
    BY <1>1, <1>2, <1>4, <2>1, <2>2, <2>3, <2>4, <2>5, BreakFinish
<1> QED
  BY <1>5, <1>6

(* The value of a break comes to the end of its loop.                      *)
LEMMA BreakFed ==
  ASSUME Keeping, frames # <<>>, node.kind = "break", top.pc = "break", NEW k \in Nat, BreaksTo(k),
         NEW in, in = [v |-> result, b |-> m.last],
         NEW data, data.end = m.loop.end, data.phi = m.loop.phi,
         data.nodes = Append(m.loop.nodes, in),
         NEW g, Links(m, g, {m.loop.end})
  PROVE  LoopFed(frames[k], g, data) /\ Sound(data.nodes, m, AllHeld(frames))
<1>1. PICK l : l = nodes[frames[k].node]
  OBVIOUS
<1>2. /\ LoopFed(frames[k], m, m.loop) /\ l.kind = "loop" /\ l \in Node
      /\ Shaped(l, nodes, ret_type) /\ node.breaks \subseteq GivenTo(l)
      /\ m.loop.end = frames[k].blocks[3]
  BY <1>1 DEF BreaksTo
<1>3. /\ Emitting(m) /\ Drawn(m) /\ Sound(m.loop.nodes, m, AllHeld(frames))
      /\ Shaped(node, nodes, ret_type)
  BY TopKept DEF Keeping
<1>4. PICK e : e = nodes[OperandOf(top)]
  OBVIOUS
<1>5. /\ Delivers(e, result, m, AllHeld(frames)) /\ Shaped(e, nodes, ret_type)
      /\ result \in Value /\ e \in Node
  BY <1>4, OperandKept DEF Keeping
<1>6. e = nodes[node.sub[1]]
  BY <1>4 DEF OperandOf, PlaceOf, KindOf, node
<1>7. SoundAt(result, m.last, m, AllHeld(frames))
  BY <1>3, <1>5, EndSound
<1>8. m.loop.nodes \in Seq(Incoming) /\ in \in Incoming
  <2>1. m.loop \in LoopData /\ m.last \in Nat
    BY <1>3, GeneratorIs DEF Emitting
  <2> QED
    BY <1>5, <2>1 DEF LoopData, Incoming
<1>9. /\ CountedBlocks(data.nodes) =
           CountedBlocks(m.loop.nodes) \cup IF result.ty # "none" THEN {m.last} ELSE {}
      /\ Counted(data.nodes) = {} <=> Counted(m.loop.nodes) = {} /\ result.ty = "none"
      /\ \A g1, held : Sound(m.loop.nodes, g1, held) /\ SoundAt(result, m.last, g1, held)
                         => Sound(data.nodes, g1, held)
  <2>1. in.v = result /\ in.b = m.last
    OBVIOUS
  <2>2. PICK r : r = data.nodes
    OBVIOUS
  <2>3. PICK s : s = m.loop.nodes
    OBVIOUS
  <2>4. /\ CountedBlocks(r) = CountedBlocks(s) \cup IF in.v.ty # "none" THEN {in.b} ELSE {}
        /\ Counted(r) = {} <=> Counted(s) = {} /\ in.v.ty = "none"
        /\ \A g1, held : Sound(s, g1, held) /\ SoundAt(in.v, in.b, g1, held) => Sound(r, g1, held)
    BY <1>8, <2>2, <2>3, CountedAppend
  <2> QED
    BY <2>1, <2>2, <2>3, <2>4
<1>10. Sound(data.nodes, m, AllHeld(frames))
  BY <1>3, <1>7, <1>9
<1>11. l.phi => GivenTo(l) \subseteq IF l.ty = "value" THEN {"value"} ELSE {"none", "void"}
  BY <1>2 DEF Shaped, GivenTo
<1>12. ASSUME Merges(l)
       PROVE  PredsIn(g, frames[k].blocks[3]) = CountedBlocks(data.nodes) \cup Gathered(frames[k])
  <2>1. l.phi /\ l.ty = "value"
    BY <1>2, <1>12 DEF Merges
  <2>2. e.ty = "value"
    BY <1>2, <1>3, <1>6, <1>11, <2>1 DEF Shaped
  <2>3. result.ty # "none" <=> m.insert # 0
    BY <1>5, <2>2, ValueOf DEF Fits
  <2>4. PredsIn(m, m.loop.end) = CountedBlocks(m.loop.nodes) \cup Gathered(frames[k])
    BY <1>1, <1>2, <1>12 DEF LoopFed
  <2>5. PredsIn(g, m.loop.end) = PredsIn(m, m.loop.end) \cup IF m.insert # 0 THEN {m.insert} ELSE {}
    BY <1>3, PredsLinked
  <2>6. m.insert # 0 => m.last = m.insert
    BY <1>3 DEF Drawn
  <2> QED
    BY <1>2, <1>9, <2>3, <2>4, <2>5, <2>6
<1>13. ASSUME l.phi, ~Merges(l)
       PROVE  /\ Counted(data.nodes) = {}
              /\ frames[k].pc = "else" => Counted(frames[k].incoming) = {}
  <2>1. l.ty # "value"
    BY <1>2, <1>13 DEF Merges
  <2>2. e.ty = "none"
    BY <1>2, <1>3, <1>6, <1>11, <1>13, <2>1 DEF Shaped
  <2>3. result.ty = "none"
    BY <1>5, <2>2, NoneOf
  <2>4. Counted(m.loop.nodes) = {} /\ (frames[k].pc = "else" => Counted(frames[k].incoming) = {})
    BY <1>1, <1>2, <1>13 DEF LoopFed
  <2> QED
    BY <1>9, <2>3, <2>4
<1>14. data.phi = l.phi /\ data.end = frames[k].blocks[3]
  BY <1>1, <1>2 DEF LoopFed
<1> QED
  BY <1>1, <1>10, <1>12, <1>13, <1>14 DEF LoopFed

LEMMA BreakKeeps == ASSUME Keeping, Break PROVE Stays
<1>1. PICK in : in = [v |-> result, b |-> m.last]
  OBVIOUS
<1>2. PICK r : r = Append(m.loop.nodes, in)
  OBVIOUS
<1>3. PICK h : h = [m EXCEPT !.loop.nodes = r]
  OBVIOUS
<1>4. PICK g : g = Jump(h)
  OBVIOUS
<1>5. h = [m EXCEPT !.loop.nodes = Append(@, in)]
  BY <1>2, <1>3
<1>6. At("break", "break") /\ Give(NoneConst, g) /\ TypeInv
  BY <1>1, <1>4, <1>5 DEF Break, Keeping
<1>7. frames # <<>> /\ ~IsLoop(top) /\ node.kind = "break" /\ top.pc = "break"
  BY <1>6, AtIs
<1>8. Goes
  BY <1>6, BreakStep
<1>9. Emitting(g)
  BY <1>6, <1>8, WentBack
<1>10. Emitting(m) /\ m \in Generator /\ m.loop \in LoopData /\ m.last \in Nat
  BY <1>6, <1>7, FramesAre, GeneratorIs DEF Emitting
<1>11. r \in Seq(Incoming)
  <2>1. m.loop.nodes \in Seq(Incoming) /\ in \in Incoming
    BY <1>1, <1>6, <1>10 DEF LoopData, Incoming, TypeInv
  <2> QED
    BY <1>2, <2>1, AppendProperties
<1>12. PICK l : l = [m.loop EXCEPT !.nodes = r]
  OBVIOUS
<1>13. l \in LoopData /\ l.end = m.loop.end /\ l.phi = m.loop.phi /\ l.nodes = r
  BY <1>10, <1>11, <1>12 DEF LoopData
<1>14. h = [m EXCEPT !.loop = l]
  BY <1>3, <1>12
<1>15. /\ h \in Generator /\ h.term = m.term /\ h.insert = m.insert /\ h.uses = m.uses
       /\ h.merges = m.merges /\ h.faults = m.faults /\ h.loop = l
  BY <1>10, <1>13, <1>14 DEF Generator
<1>16. Emitting(h)
  BY <1>10, <1>15 DEF Emitting
<1>17. PICK k \in Nat : BreaksTo(k)
  BY <1>7, LoopOfBreak
<1>18. Links(m, g, {m.loop.end})
  <2>1. m.loop.end \in Nat
    BY <1>10 DEF LoopData
  <2>2. Links(h, g, {m.loop.end})
    BY <1>4, <1>13, <1>15, <1>16, <2>1, JumpLinks DEF Jump
  <2> QED
    BY <1>15, <2>2 DEF Links
<1>19. LoopFed(frames[k], g, l) /\ Sound(l.nodes, m, AllHeld(frames))
  BY <1>1, <1>2, <1>7, <1>13, <1>17, <1>18, BreakFed
<1> QED
  BY <1>4, <1>6, <1>7, <1>9, <1>13, <1>15, <1>16, <1>17, <1>19, BreakFinish

-----------------------------------------------------------------------------
(* What a return leaves.                                                   *)

LEMMA BuildReturnLinks ==
  ASSUME NEW g, Emitting(g), NEW v \in Value, NEW r, r = BuildReturn(g, v)
  PROVE  /\ Links(g, r, {}) /\ Uses(g, r, v) /\ r.merges = g.merges /\ r.insert = 0
         /\ r.loop = g.loop
         /\ (g.insert # 0 => (IF v.ty = "value" /\ v.real THEN "value" ELSE "none") = ret_type)
              => r.faults = g.faults
<1>1. PICK wrong : wrong = (/\ g.insert # 0
                            /\ (IF v.ty = "value" /\ v.real THEN "value" ELSE "none") # ret_type)
  OBVIOUS
<1>2. PICK h : h = [g EXCEPT !.faults = @ \cup Flag("return", wrong)]
  OBVIOUS
<1>3. PICK u : u = Use(h, v)
  OBVIOUS
<1>4. r = Terminate(u, Ret)
  BY <1>1, <1>2, <1>3 DEF BuildReturn
<1>5. Records(g, h)
  <2>1. PICK w : w = "return"
    OBVIOUS
  <2>2. w \in {"store", "return"} /\ h = [g EXCEPT !.faults = @ \cup Flag(w, wrong)]
    BY <1>2, <2>1
  <2> QED
    BY <2>2, FaultIs DEF Emitting
<1>6. h \in Generator /\ Emitting(h)
  BY <1>5, RecordsIs DEF Emitting
<1>7. /\ h.term = g.term /\ h.insert = g.insert /\ h.merges = g.merges /\ h.loop = g.loop
      /\ h.uses = g.uses /\ (~wrong => h.faults = g.faults)
  BY <1>2 DEF Emitting, Generator, Flag
<1>8. /\ u.term = h.term /\ u.insert = h.insert /\ u.merges = h.merges
      /\ u.faults = h.faults /\ u.loop = h.loop /\ Uses(h, u, v)
  BY <1>3, <1>6, UseUses
<1>9. Emitting(u)
  BY <1>3, <1>6, UseIs, RecordsIs
<1>10. Ret \in Terminator /\ Ret.to = {}
  BY BranchTyped DEF Ret
<1>11. PICK t : t = Ret
  OBVIOUS
<1>12. Links(u, r, {}) /\ Quiet(u, r) /\ r.insert = 0
  BY <1>4, <1>9, <1>10, <1>11, TerminateLinks
<1> QED
  BY <1>1, <1>7, <1>8, <1>12 DEF Links, Quiet, Uses

LEMMA ReturnKeeps == ASSUME Keeping, Return PROVE Stays
<1>1. PICK g : g = BuildReturn(m, result)
  OBVIOUS
<1>2. At("return", "return") /\ Give(NoneConst, g) /\ TypeInv
  BY <1>1 DEF Return, Keeping
<1>3. frames # <<>> /\ ~IsLoop(top) /\ node.kind = "return" /\ top.pc = "return"
  BY <1>2, AtIs
<1>4. Goes
  BY <1>2, ReturnStep
<1>5. Emitting(g)
  BY <1>2, <1>4, WentBack
<1>6. /\ Emitting(m) /\ Sound(m.loop.nodes, m, AllHeld(frames)) /\ Faultless(m)
      /\ Shaped(node, nodes, ret_type)
  BY <1>3, TopKept DEF Keeping
<1>7. PICK e : e = nodes[OperandOf(top)]
  OBVIOUS
<1>8. /\ Delivers(e, result, m, AllHeld(frames)) /\ Shaped(e, nodes, ret_type)
      /\ result \in Value /\ e \in Node
  BY <1>3, <1>7, OperandKept DEF Keeping
<1>9. Fits(e, ret_type)
  <2>1. e = nodes[node.sub[1]]
    BY <1>3, <1>7 DEF OperandOf, PlaceOf, KindOf, node
  <2> QED
    BY <1>3, <1>6, <2>1 DEF Shaped
<1>10. /\ Links(m, g, {}) /\ Uses(m, g, result) /\ g.merges = m.merges /\ g.insert = 0
       /\ g.loop = m.loop
       /\ (m.insert # 0 => (IF result.ty = "value" /\ result.real THEN "value" ELSE "none") = ret_type)
             => g.faults = m.faults
  BY <1>1, <1>6, <1>8, BuildReturnLinks
<1>11. ret_type \in {"none", "value"}
  BY <1>2 DEF TypeInv
<1>12. ASSUME m.insert # 0
       PROVE  /\ result.real => Reach(result.def, m.insert, m, AllHeld(frames))
              /\ ~DeadCode => (IF result.ty = "value" /\ result.real THEN "value" ELSE "none") = ret_type
  <2>1. CASE ret_type = "value"
    BY <1>8, <1>9, <1>12, <2>1, ValueOf
  <2>2. CASE ret_type = "none"
    <3>1. ~e.leaves
      BY <1>8, <1>12 DEF Delivers
    <3>2. e.ty = "none"
      BY <1>9, <2>2, <3>1 DEF Fits
    <3> QED
      BY <1>8, <2>2, <3>2, NoneOf
  <2> QED
    BY <1>11, <2>1, <2>2
<1>13. Emits(g, {})
  BY <1>3, <1>5, <1>6, <1>10, <1>12, EmitsAs DEF Keeping
<1>14. Delivers(node, NoneConst, g, AllHeld(Front(frames)))
  <2>1. node.leaves
    BY <1>3, <1>6 DEF Shaped
  <2> QED
    BY <1>10, <2>1 DEF Delivers
<1> QED
  BY <1>2, <1>3, <1>10, <1>13, <1>14, PlainFinish DEF Keeping

-----------------------------------------------------------------------------
(* Branches and their ends.                                                *)

LEMMA EnterAt ==
  ASSUME NEW c \in Generator, NEW b \in Nat, NEW g, g = PushLocalScope(PositionAt(c, b))
  PROVE  g.term = c.term /\ Quiet(c, g) /\ g.insert = b /\ g.last = b
<1>1. PICK p : p = PositionAt(c, b)
  OBVIOUS
<1>2. Quiet(c, p) /\ p.term = c.term /\ p.insert = b /\ p.last = b
  BY <1>1, PositionQuiet
<1>3. p \in Generator
  BY <1>1 DEF PositionAt, Generator
<1>4. Quiet(p, g) /\ g.term = p.term /\ g.insert = p.insert /\ g.last = p.last
  BY <1>1, <1>3, PushQuiet
<1> QED
  BY <1>2, <1>4 DEF Quiet

LEMMA LeaveLinks ==
  ASSUME TypeInv, frames # <<>>, Depth(top) = 1, NEW b \in Nat, NEW l, l = LeaveBranch(m, b)
  PROVE  l \in Generator /\ Emitting(l) /\ Links(m, l, {b}) /\ Quiet(m, l) /\ l.insert = 0
<1>1. PICK p : p = PopLocals(m)
  OBVIOUS
<1>2. Emitting(m) /\ m \in Generator
  BY FramesAre DEF Emitting
<1>3. Emitting(p) /\ p.term = m.term /\ p.insert = m.insert
  BY <1>1, PoppedIs
<1>4. Quiet(m, p)
  BY <1>1, <1>2, PopQuiet
<1>5. l = UnconditionalBranch(p, b)
  BY <1>1 DEF LeaveBranch
<1>6. Links(p, l, {b}) /\ Quiet(p, l) /\ l.insert = 0
  BY <1>3, <1>5, JumpLinks
<1>7. l \in Generator /\ Emitting(l)
  BY <1>3, <1>5, UnconditionalBranchIs, ClosedIs
<1> QED
  BY <1>3, <1>4, <1>6, <1>7 DEF Links, Quiet

(* The block inserted into ends with a branch on the value.                *)
LEMMA BranchOn ==
  ASSUME NEW g, Emitting(g), NEW v \in Value, NEW a \in Nat, NEW b \in Nat,
         NEW c, c = ConditionalBranch(g, v, a, b)
  PROVE  /\ c \in Generator /\ Emitting(c) /\ Links(g, c, {a, b}) /\ Uses(g, c, v)
         /\ c.merges = g.merges /\ c.faults = g.faults /\ c.loop = g.loop
         /\ Len(c.term) = Len(g.term)
<1>1. Closes(g, c)
  BY ConditionalBranchIs
<1>2. Emitting(c) /\ Len(c.term) = Len(g.term) /\ c \in Generator
  BY <1>1, ClosedIs
<1>3. /\ Links(g, c, {a, b}) /\ Uses(g, c, v) /\ c.merges = g.merges
      /\ c.faults = g.faults /\ c.loop = g.loop
  BY ConditionalBranchLinks
<1> QED
  BY <1>2, <1>3

(* A call goes on in a block, with blocks that it had or that are new.     *)
LEMMA BlockMove ==
  ASSUME Keeping, frames # <<>>, Goes, NEW e, NEW f, NEW g, Evaluate(e, f, g), e = OperandOf(f),
         f.node = top.node, f.pc # "visit", NEW T, Links(m, g, T),
         \A t \in T : t \in Held(top) \/ (t \in 1..Len(g.term) /\ t \notin 1..Len(m.term)),
         g.insert # 0, g.last = g.insert, NEW v, Uses(m, g, v),
         v.real /\ m.insert # 0 => Reach(v.def, m.insert, m, AllHeld(frames)),
         ~DeadCode => g.faults = m.faults, g.merges = m.merges,
         Sound(g.loop.nodes, m, AllHeld(frames)),
         \A h \in Held(f) : h \in Held(top) \/ (h \in Nat /\ h > Len(m.term)),
         \A a, b \in Holds(f) : f.blocks[a] = f.blocks[b] => a = b,
         Fresher(f) => f.incoming = <<>>,
         IF IsLoop(f)
         THEN LoopFed(f, g, g.loop) /\ f.outer = IF IsLoop(top) THEN top.outer ELSE m.loop
         ELSE ~IsLoop(top) /\ g.loop = m.loop /\ BranchFed(f, g),
         Sound(f.incoming, m, AllHeld(frames)), top.pc = "visit" => m.insert # 0,
         ~Abandoned(f), f.pc = "again" => g.insert = f.incoming[1].b
  PROVE  Stays
<1>1. Emitting(g) /\ Calling(f, Len(g.term)) /\ f \in Frame
  BY WentOn DEF Keeping
<1>2. /\ Len(m.term) \in Nat /\ Emitting(m) /\ Drawn(m)
      /\ \A h \in Held(top) : h \in 2..Len(m.term)
  BY TopKept DEF Keeping
<1>3. Len(m.term) >= 1 /\ Len(m.term) <= Len(g.term) /\ Len(g.term) \in Nat
  BY <1>2 DEF Links, Drawn
<1>4. T \subseteq 2..Len(g.term)
  BY <1>2, <1>3
<1>5. \A t \in T : t \in Held(top) \/ t \notin 1..Len(m.term)
  OBVIOUS
<1>6. Emits(g, T)
  BY <1>1, <1>4, <1>5, EmitsAs DEF Keeping
<1>7. \A h \in Held(f) : h # 1 /\ (h \in Held(top) \/ h \notin 1..Len(m.term))
  BY <1>2, <1>3
<1>8. Moves(f, g, T)
  BY <1>1, <1>5, <1>6, <1>7 DEF Moves
<1> QED
  BY <1>1, <1>8, MovesOn DEF Keeping

(* Values that are used are computed.                                      *)
LEMMA ComputedReach ==
  ASSUME Keeping, frames # <<>>, top.pc # "visit", nodes[OperandOf(top)].ty = "value"
  PROVE  /\ result.real /\ m.insert # 0 => Reach(result.def, m.insert, m, AllHeld(frames))
         /\ result \in Value /\ (result.ty # "none" <=> m.insert # 0)
         /\ m.insert = 0 \/ ~result.real => DeadCode
<1>1. PICK e : e = nodes[OperandOf(top)]
  OBVIOUS
<1>2. /\ Delivers(e, result, m, AllHeld(frames)) /\ Shaped(e, nodes, ret_type)
      /\ e.odd # {} => DeadCode
      /\ result \in Value
  BY <1>1, OperandKept DEF Keeping
<1>3. Fits(e, "value")
  BY <1>1 DEF Fits
<1> QED
  BY <1>1, <1>2, <1>3, ValueOf, MissingIsDead

(* The value of a branch where it ends.                                    *)
LEMMA EndedKept ==
  ASSUME Keeping, frames # <<>>, top.pc # "visit", NEW in, in = Ended,
         NEW e, e = nodes[OperandOf(top)]
  PROVE  /\ in \in Incoming /\ in.v = result
         /\ SoundAt(in.v, in.b, m, AllHeld(frames))
         /\ m.insert # 0 => in.b = m.insert
         /\ Fits(e, "value") => (in.v.ty # "none" <=> m.insert # 0)
         /\ e.ty = "none" => in.v.ty = "none" /\ in.v = NoneConst
         /\ e.ty = "value" => in.v.ty # "none" \/ DeadCode
<1>1. /\ Delivers(e, result, m, AllHeld(frames)) /\ Shaped(e, nodes, ret_type)
      /\ e.odd # {} => DeadCode
      /\ result \in Value
  BY OperandKept DEF Keeping
<1>2. Drawn(m)
  BY TopKept DEF Keeping
<1>3. in \in Incoming /\ in.v = result /\ in.b = m.last
  BY EndedTyped DEF Keeping, Ended
<1>4. SoundAt(in.v, in.b, m, AllHeld(frames))
  BY <1>1, <1>2, <1>3, EndSound
<1>5. m.insert # 0 => in.b = m.insert
  BY <1>2, <1>3 DEF Drawn
<1>6. Fits(e, "value") => (in.v.ty # "none" <=> m.insert # 0)
  BY <1>1, <1>3, ValueOf
<1>7. e.ty = "none" => in.v.ty = "none" /\ in.v = NoneConst
  BY <1>1, <1>3, NoneOf
<1>8. e.ty = "value" => in.v.ty # "none" \/ DeadCode
  <2>1. e.ty = "value" => Fits(e, "value")
    BY DEF Fits
  <2>2. e.ty = "value" /\ m.insert = 0 => DeadCode
    BY <1>1, MissingIsDead
  <2> QED
    BY <1>6, <2>1, <2>2
<1> QED
  BY <1>3, <1>4, <1>5, <1>6, <1>7, <1>8

LEMMA SoundOne ==
  ASSUME NEW in \in Incoming, NEW g, NEW held, SoundAt(in.v, in.b, g, held)
  PROVE  /\ Sound(<<in>>, g, held) /\ Len(<<in>>) = 1 /\ <<in>>[1] = in
         /\ Counted(<<in>>) = {} <=> in.v.ty = "none"
         /\ CountedBlocks(<<in>>) = IF in.v.ty # "none" THEN {in.b} ELSE {}
<1>1. Len(<<in>>) = 1 /\ <<in>>[1] = in /\ DOMAIN <<in>> = 1..1
  OBVIOUS
<1>2. \A i \in 1..1 : i = 1
  OBVIOUS
<1>3. Sound(<<in>>, g, held)
  BY <1>1, <1>2 DEF Sound
<1>4. Counted(<<in>>) = IF in.v.ty # "none" THEN {1} ELSE {}
  BY <1>1, <1>2 DEF Counted
<1>5. CountedBlocks(<<in>>) = IF in.v.ty # "none" THEN {in.b} ELSE {}
  BY <1>1, <1>4 DEF CountedBlocks
<1> QED
  BY <1>1, <1>3, <1>4, <1>5

LEMMA SoundNone ==
  \A g, held : Sound(<<>>, g, held) /\ Counted(<<>>) = {} /\ CountedBlocks(<<>>) = {}
<1>1. Len(<<>>) = 0 /\ DOMAIN <<>> = {} /\ 1..0 = {}
  OBVIOUS
<1>2. Counted(<<>>) = {}
  BY <1>1 DEF Counted
<1> QED
  BY <1>1, <1>2 DEF Sound, CountedBlocks

-----------------------------------------------------------------------------
(* The steps of an if, but for its end.                                    *)

(* Nothing branches to blocks that are new, but what is said to.           *)
LEMMA FreshPreds ==
  ASSUME TypeInv, frames # <<>>, Drawn(m), NEW g, NEW T, Links(m, g, T), NEW b \in Nat,
         b > Len(m.term), b \notin T
  PROVE  PredsIn(g, b) = {}
<1>1. Emitting(m) /\ Len(m.term) \in Nat
  BY FramesAre
<1>2. PredsIn(g, b) = PredsIn(m, b) \cup IF m.insert # 0 /\ b \in T THEN {m.insert} ELSE {}
  BY <1>1, PredsLinked
<1>3. b \notin 2..Len(m.term)
  BY <1>1
<1>4. PredsIn(m, b) = {}
  BY <1>3, PredsNew
<1> QED
  BY <1>2, <1>4

LEMMA FreshAre ==
  ASSUME Len(m.term) \in Nat
  PROVE  /\ FreshBlocks[1] = Fresh(1) /\ FreshBlocks[2] = Fresh(2) /\ FreshBlocks[3] = Fresh(3)
         /\ Fresh(1) \in Nat /\ Fresh(2) \in Nat /\ Fresh(3) \in Nat
         /\ Fresh(1) > Len(m.term) /\ Fresh(2) > Len(m.term) /\ Fresh(3) > Len(m.term)
         /\ Fresh(1) \in 1..(Len(m.term) + 3) /\ Fresh(1) \notin 1..Len(m.term)
         /\ Fresh(2) \in 1..(Len(m.term) + 3) /\ Fresh(2) \notin 1..Len(m.term)
         /\ Fresh(3) \in 1..(Len(m.term) + 3) /\ Fresh(3) \notin 1..Len(m.term)
         /\ Fresh(1) # Fresh(2) /\ Fresh(1) # Fresh(3) /\ Fresh(2) # Fresh(3)
         /\ FreshBlocks \in Seq(Nat)
<1>1. 1 \in 1..3 /\ 2 \in 1..3 /\ 3 \in 1..3
  OBVIOUS
<1>2. \A i \in 1..3 : FreshBlocks[i] = Fresh(i) /\ Fresh(i) \in Nat /\ Fresh(i) > Len(m.term)
                      /\ Fresh(i) \in 1..(Len(m.term) + 3)
  BY FreshIs
<1>3. \A i \in 1..3 : Fresh(i) \notin 1..Len(m.term)
  BY <1>2
<1> QED
  BY <1>1, <1>2, <1>3, FreshIs

LEMMA AppendWhole ==
  ASSUME NEW g, Emitting(g), NEW k \in Nat, NEW r, r = AppendBlocks(g, k)
  PROVE  /\ Emitting(r) /\ r \in Generator /\ Len(r.term) = Len(g.term) + k /\ Links(g, r, {})
         /\ Quiet(g, r) /\ r.insert = g.insert /\ r.last = g.last
<1>1. Emitting(r) /\ Len(r.term) = Len(g.term) + k
  BY AppendBlocksIs
<1>2. Links(g, r, {}) /\ Quiet(g, r) /\ r.insert = g.insert /\ r.last = g.last
  BY AppendBlocksLinks
<1> QED
  BY <1>1, <1>2 DEF Emitting

LEMMA IfConditionKeeps == ASSUME Keeping, IfCondition PROVE Stays
<1>1. PICK f : f = [top EXCEPT !.pc = "then", !.blocks = FreshBlocks]
  OBVIOUS
<1>2. PICK e : e = node.sub[2]
  OBVIOUS
<1>3. PICK a : a = AppendBlocks(m, 3)
  OBVIOUS
<1>4. PICK f1, f2, f3 : f1 = Fresh(1) /\ f2 = Fresh(2) /\ f3 = Fresh(3)
  OBVIOUS
<1>5. PICK c : c = ConditionalBranch(a, result, f1, f2)
  OBVIOUS
<1>6. PICK g : g = PushLocalScope(PositionAt(c, f1))
  OBVIOUS
<1>7. At("if", "cond") /\ Evaluate(e, f, g) /\ TypeInv
  BY <1>1, <1>2, <1>3, <1>4, <1>5, <1>6 DEF IfCondition, Keeping
<1>8. /\ frames # <<>> /\ KindOf(top) = "if" /\ node.kind = "if" /\ top.pc = "cond"
      /\ ~IsLoop(top) /\ top \in Frame
  BY <1>7, AtIs
<1>9. Goes
  BY <1>7, IfConditionStep DEF Keeping
<1>10. /\ Emitting(m) /\ Drawn(m) /\ Len(m.term) \in Nat /\ Shaped(node, nodes, ret_type)
       /\ Sound(m.loop.nodes, m, AllHeld(frames)) /\ (Fresher(top) => top.incoming = <<>>)
  BY <1>8, TopKept DEF Keeping
<1>11. top.incoming = <<>>
  BY <1>8, <1>10 DEF Fresher
<1>12. /\ FreshBlocks[1] = f1 /\ FreshBlocks[2] = f2 /\ FreshBlocks[3] = f3
       /\ f1 \in Nat /\ f2 \in Nat /\ f3 \in Nat
       /\ f1 > Len(m.term) /\ f2 > Len(m.term) /\ f3 > Len(m.term)
       /\ f1 \in 1..(Len(m.term) + 3) /\ f1 \notin 1..Len(m.term)
       /\ f2 \in 1..(Len(m.term) + 3) /\ f2 \notin 1..Len(m.term)
       /\ f1 # f2 /\ f1 # f3 /\ f2 # f3
  BY <1>4, <1>10, FreshAre
<1>13. /\ nodes[OperandOf(top)].ty = "value"
  <2>1. OperandOf(top) = node.sub[1]
    BY <1>8 DEF OperandOf, PlaceOf, node
  <2> QED
    BY <1>8, <1>10, <2>1 DEF Shaped
<1>14. /\ result.real /\ m.insert # 0 => Reach(result.def, m.insert, m, AllHeld(frames))
       /\ result \in Value
  BY <1>8, <1>13, ComputedReach
<1>15. /\ Emitting(a) /\ Len(a.term) = Len(m.term) + 3 /\ Links(m, a, {}) /\ Quiet(m, a)
       /\ a.insert = m.insert
  <2>1. 3 \in Nat
    OBVIOUS
  <2> QED
    BY <1>3, <1>10, <2>1, AppendWhole
<1>16. /\ c \in Generator /\ Emitting(c) /\ Links(a, c, {f1, f2}) /\ Uses(a, c, result)
       /\ c.merges = a.merges /\ c.faults = a.faults /\ c.loop = a.loop
       /\ Len(c.term) = Len(a.term)
  BY <1>5, <1>12, <1>14, <1>15, BranchOn
<1>17. g.term = c.term /\ Quiet(c, g) /\ g.insert = f1 /\ g.last = f1
  BY <1>6, <1>12, <1>16, EnterAt
<1>18. Links(m, g, {f1, f2})
  <2>1. Links(m, c, {f1, f2})
    BY <1>10, <1>15, <1>16, LinksFurther
  <2> QED
    BY <1>17, <2>1, LinksAs
<1>19. /\ Uses(m, g, result) /\ g.merges = m.merges /\ g.faults = m.faults /\ g.loop = m.loop
       /\ Len(g.term) = Len(m.term) + 3
  BY <1>15, <1>16, <1>17 DEF Uses, Quiet
<1>20. /\ f.node = top.node /\ f.pc = "then" /\ f.blocks = FreshBlocks
       /\ f.incoming = <<>> /\ KindOf(f) = "if"
  BY <1>1, <1>8, <1>11 DEF Frame, KindOf
<1>21. Holds(f) = {2, 3} /\ Held(f) = {f2, f3} /\ ~IsLoop(f) /\ ~Abandoned(f)
  <2>1. Holds(f) = {2, 3} /\ ~IsLoop(f) /\ ~Abandoned(f)
    BY <1>20 DEF Holds, HeldAt, IsLoop, Abandoned
  <2> QED
    BY <1>12, <1>20, <2>1 DEF Held
<1>22. BranchFed(f, g)
  <2>1. PredsIn(g, f3) = {}
    BY <1>7, <1>8, <1>10, <1>12, <1>18, FreshPreds
  <2>2. EndBlock(f) = f3
    BY <1>12, <1>20 DEF EndBlock, EndPlace
  <2>3. Gathered(f) = {}
    BY <1>20, SoundNone DEF Gathered
  <2>4. nodes[f.node].kind = "if"
    BY <1>20 DEF KindOf
  <2> QED
    BY <1>20, <2>1, <2>2, <2>3, <2>4 DEF BranchFed
<1>23. e = OperandOf(f)
  BY <1>2, <1>20 DEF OperandOf, PlaceOf, node
<1>24. Sound(f.incoming, m, AllHeld(frames))
  BY <1>20, SoundNone
<1>25. /\ \A t \in {f1, f2} : t \in 1..Len(g.term) /\ t \notin 1..Len(m.term)
       /\ \A h \in Held(f) : h \in Nat /\ h > Len(m.term)
       /\ \A i, j \in Holds(f) : f.blocks[i] = f.blocks[j] => i = j
       /\ g.insert # 0 /\ g.last = g.insert /\ f.pc # "visit" /\ f.pc # "again" /\ top.pc # "visit"
  BY <1>8, <1>10, <1>12, <1>17, <1>19, <1>20, <1>21
<1> QED
  BY <1>7, <1>8, <1>9, <1>10, <1>14, <1>18, <1>19, <1>20, <1>21, <1>22, <1>23, <1>24, <1>25,
     BlockMove

LEMMA IfThenKeeps == ASSUME Keeping, IfThen PROVE Stays
<1>1. PICK x : x = Ended
  OBVIOUS
<1>2. PICK f : f = [top EXCEPT !.pc = "else", !.incoming = <<x>>]
  OBVIOUS
<1>3. PICK e : e = node.sub[3]
  OBVIOUS
<1>4. PICK b2, b3 : b2 = top.blocks[2] /\ b3 = top.blocks[3]
  OBVIOUS
<1>5. PICK l : l = LeaveBranch(m, b3)
  OBVIOUS
<1>6. PICK g : g = PushLocalScope(PositionAt(l, b2))
  OBVIOUS
<1>7. At("if", "then") /\ Evaluate(e, f, g) /\ TypeInv
  BY <1>1, <1>2, <1>3, <1>4, <1>5, <1>6 DEF IfThen, Keeping, Block
<1>8. /\ frames # <<>> /\ KindOf(top) = "if" /\ node.kind = "if" /\ top.pc = "then"
      /\ ~IsLoop(top) /\ top \in Frame /\ Depth(top) = 1
  BY <1>7, AtIs DEF DepthAt
<1>9. Goes
  BY <1>7, IfThenStep DEF Keeping
<1>10. /\ Emitting(m) /\ Drawn(m) /\ Len(m.term) \in Nat /\ Shaped(node, nodes, ret_type)
       /\ Sound(m.loop.nodes, m, AllHeld(frames)) /\ BranchFed(top, m)
       /\ \A h \in Held(top) : h \in 2..Len(m.term)
       /\ \A i, j \in Holds(top) : top.blocks[i] = top.blocks[j] => i = j
  BY <1>8, TopKept DEF Keeping
<1>11. Holds(top) = {2, 3} /\ Held(top) = {b2, b3} /\ b2 # b3
       /\ b2 \in 2..Len(m.term) /\ b3 \in 2..Len(m.term) /\ b2 \in Nat /\ b3 \in Nat
  <2>1. Holds(top) = {2, 3}
    BY <1>8 DEF Holds, HeldAt
  <2>2. Held(top) = {b2, b3}
    BY <1>4, <2>1 DEF Held
  <2> QED
    BY <1>4, <1>10, <2>1, <2>2
<1>12. PICK d : d = nodes[OperandOf(top)]
  OBVIOUS
<1>13. d = nodes[node.sub[2]]
  BY <1>8, <1>12 DEF OperandOf, PlaceOf, node
<1>14. /\ x \in Incoming
       /\ SoundAt(x.v, x.b, m, AllHeld(frames))
       /\ m.insert # 0 => x.b = m.insert
       /\ Fits(d, "value") => (x.v.ty # "none" <=> m.insert # 0)
       /\ d.ty = "none" => x.v.ty = "none"
       /\ d.ty = "value" => x.v.ty # "none" \/ DeadCode
  BY <1>1, <1>8, <1>12, EndedKept
<1>15. /\ Sound(<<x>>, m, AllHeld(frames)) /\ Len(<<x>>) = 1
       /\ Counted(<<x>>) = {} <=> x.v.ty = "none"
       /\ CountedBlocks(<<x>>) = IF x.v.ty # "none" THEN {x.b} ELSE {}
  BY <1>14, SoundOne
<1>16. l \in Generator /\ Emitting(l) /\ Links(m, l, {b3}) /\ Quiet(m, l) /\ l.insert = 0
  BY <1>5, <1>7, <1>8, <1>11, LeaveLinks
<1>17. g.term = l.term /\ Quiet(l, g) /\ g.insert = b2 /\ g.last = b2
  BY <1>6, <1>11, <1>16, EnterAt
<1>18. Links(m, g, {b3})
  BY <1>16, <1>17, LinksAs
<1>19. g.uses = m.uses /\ g.merges = m.merges /\ g.faults = m.faults /\ g.loop = m.loop
  BY <1>16, <1>17 DEF Quiet
<1>20. /\ f.node = top.node /\ f.pc = "else" /\ f.blocks = top.blocks
       /\ f.incoming = <<x>> /\ KindOf(f) = "if"
  BY <1>2, <1>8 DEF Frame, KindOf
<1>21. Holds(f) = {3} /\ Held(f) = {b3} /\ ~IsLoop(f) /\ ~Abandoned(f) /\ ~Fresher(f)
  <2>1. Holds(f) = {3} /\ ~IsLoop(f) /\ ~Abandoned(f) /\ ~Fresher(f)
    BY <1>20 DEF Holds, HeldAt, IsLoop, Abandoned, Fresher
  <2> QED
    BY <1>4, <1>20, <2>1 DEF Held
<1>22. BranchFed(f, g)
  <2>1. EndBlock(f) = b3 /\ EndBlock(top) = b3
    BY <1>4, <1>8, <1>20 DEF EndBlock, EndPlace
  <2>2. PredsIn(m, b3) = {}
    <3>1. node = nodes[top.node] /\ HasBlocks(node.kind, top.pc)
      BY <1>8 DEF node, HasBlocks
    <3> QED
      BY <1>8, <1>10, <2>1, <3>1 DEF BranchFed
  <2>3. PredsIn(g, b3) = IF m.insert # 0 THEN {m.insert} ELSE {}
    BY <1>10, <1>18, <2>2, PredsLinked
  <2>4. nodes[f.node] = node /\ Gathered(f) = CountedBlocks(<<x>>)
    BY <1>20 DEF node, Gathered
  <2>5. ASSUME Merges(node)
        PROVE  PredsIn(g, b3) = CountedBlocks(<<x>>) /\ (Counted(<<x>>) # {} \/ DeadCode)
    <3>1. d.ty = "value"
      BY <1>8, <1>13, <2>5 DEF Merges
    <3> QED
      BY <1>14, <1>15, <2>3, <3>1 DEF Fits
  <2>6. ASSUME node.phi, ~Merges(node)
        PROVE  Counted(<<x>>) = {}
    <3>1. d.ty # "value" /\ d.ty # "any"
      BY <1>8, <1>10, <1>13, <2>6 DEF Merges, Shaped
    <3>2. d \in Node
      BY <1>7, <1>8, <1>12, OperandKept DEF Keeping
    <3>3. d.ty = "none"
      BY <3>1, <3>2 DEF Node, Types
    <3> QED
      BY <1>14, <1>15, <3>3
  <2> QED
    BY <1>8, <1>15, <1>20, <2>1, <2>4, <2>5, <2>6 DEF BranchFed
<1>23. e = OperandOf(f)
  BY <1>3, <1>20 DEF OperandOf, PlaceOf, node
<1>24. PICK v : v = NoneConst
  OBVIOUS
<1>25. Uses(m, g, v) /\ ~v.real
  BY <1>19, <1>24 DEF Uses, NoneConst
<1>26. g.insert # 0 /\ g.last = g.insert /\ f.pc # "visit" /\ f.pc # "again" /\ top.pc # "visit"
  BY <1>8, <1>11, <1>17, <1>20
<1>27. /\ \A t \in {b3} : t \in Held(top)
       /\ \A h \in Held(f) : h \in Held(top)
       /\ \A i, j \in Holds(f) : f.blocks[i] = f.blocks[j] => i = j
  BY <1>11, <1>21
<1> QED
  BY <1>7, <1>8, <1>9, <1>10, <1>15, <1>18, <1>19, <1>20, <1>21, <1>22, <1>23, <1>25, <1>26, <1>27,
     BlockMove

-----------------------------------------------------------------------------
(* Where ways meet.                                                        *)

LEMMA ReachAs ==
  ASSUME NEW g, NEW r, r.term = g.term, NEW d, NEW b, NEW held, Reach(d, b, g, held)
  PROVE  Reach(d, b, r, held)
BY DEF Reach

(* What build_phi gives is computed on every way to where it is, be it the *)
(* only value or a phi.                                                    *)
LEMMA MergedValue ==
  ASSUME NEW g \in Generator, NEW held, NEW e, e = g.insert, e \in 2..Len(g.term), e \notin held,
         NEW in \in Seq(Incoming), Sound(in, g, held), PredsIn(g, e) = CountedBlocks(in),
         Counted(in) # {} \/ DeadCode, NEW ty, ty = "value",
         NEW v, v = From(PhiValue(g, in), ty)
  PROVE  v.ty = "value" /\ SoundAt(v, e, g, held)
<1>1. PICK kept : kept = Counted(in)
  OBVIOUS
<1>2. PICK p : p = PhiValue(g, in)
  OBVIOUS
<1>3. p \in Value /\ v = [p EXCEPT !.ty = "value"]
  BY <1>2, PhiValueTyped DEF From
<1>4. v.ty = "value" /\ v.real = p.real /\ v.def = p.def
  BY <1>3 DEF Value
<1>5. /\ Len(g.term) \in Nat /\ kept \subseteq 1..Len(in) /\ Len(in) \in Nat /\ IsFiniteSet(kept)
      /\ kept # {} => FirstCounted(in) \in Value
  BY <1>1, GeneratorIs, CountedIs
<1>6. CASE kept = {}
  <2>1. p = NoneConst
    <3>1. Cardinality(kept) # 1
      BY <1>6, FS_EmptySet
    <3> QED
      BY <1>1, <1>2, <1>6, <3>1 DEF PhiValue
  <2> QED
    BY <1>1, <1>4, <1>6, <2>1 DEF NoneConst, SoundAt
<1>7. CASE Cardinality(kept) = 1
  <2>1. PICK k : kept = {k}
    BY <1>5, <1>7, FS_Singleton
  <2>2. k \in 1..Len(in) /\ k <= k
    BY <1>5, <2>1
  <2>3. PICK c : c = CHOOSE i \in kept : \A j \in kept : i <= j
    OBVIOUS
  <2>4. c = k
    BY <2>1, <2>2, <2>3
  <2>5. FirstCounted(in) = in[k].v
    BY <1>1, <2>3, <2>4 DEF FirstCounted
  <2>6. p = in[k].v
    <3>1. kept # {}
      BY <2>1
    <3> QED
      BY <1>1, <1>2, <1>7, <2>5, <3>1 DEF PhiValue
  <2>7. in[k].v.ty # "none"
    BY <1>1, <2>1 DEF Counted
  <2>8. p.ty = "value"
    BY <1>3, <2>6, <2>7, ValueTypes
  <2>9. SoundAt(p, in[k].b, g, held)
    BY <2>2, <2>6 DEF Sound
  <2>10. PredsIn(g, e) \subseteq {in[k].b}
    BY <1>1, <2>1 DEF CountedBlocks
  <2>11. p.real \/ DeadCode
    BY <2>8, <2>9 DEF SoundAt
  <2>12. ASSUME p.real
         PROVE  Reach(p.def, e, g, held)
    <3>1. Reach(p.def, in[k].b, g, held)
      BY <2>8, <2>9, <2>12 DEF SoundAt
    <3> QED
      BY <1>5, <2>10, <3>1, ReachOn
  <2> QED
    BY <1>4, <2>11, <2>12 DEF SoundAt
<1>8. CASE kept # {} /\ Cardinality(kept) # 1
  <2>1. p = [ty |-> FirstCounted(in).ty, real |-> TRUE, def |-> g.insert]
    BY <1>1, <1>2, <1>8 DEF PhiValue
  <2>2. p.real /\ p.def = e
    BY <2>1
  <2>3. e \in 1..Len(g.term)
    BY <1>5
  <2>4. Reach(e, e, g, held)
    BY <2>3, ReachSelf
  <2> QED
    BY <1>4, <2>2, <2>4 DEF SoundAt
<1> QED
  BY <1>6, <1>7, <1>8

(* A phi uses the values where they come from.                             *)
LEMMA MergedUses ==
  ASSUME NEW g \in Generator, NEW in \in Seq(Incoming), NEW ty, NEW r, r = BuildPhi(g, in, ty)
  PROVE  /\ r.term = g.term /\ r.insert = g.insert /\ r.last = g.last /\ r.loop = g.loop
         /\ r.faults = g.faults /\ r \in Generator
         /\ \A x \in r.merges : \/ x \in g.merges
                                \/ x.at = g.insert /\ x.from = CountedBlocks(in)
         /\ \A u \in r.uses : \/ u \in g.uses
                              \/ \E i \in 1..Len(in) : /\ in[i].v.real /\ in[i].v.ty = "value"
                                                       /\ u.def = in[i].v.def /\ u.at = in[i].b
<1>1. PICK kept : kept = Counted(in)
  OBVIOUS
<1>2. PICK several : several = (Cardinality(kept) >= 2)
  OBVIOUS
<1>3. r \in Generator
  BY BuildPhiIs DEF Records
<1>4. CASE ty # "value" /\ ~several
  <2>1. r = g
    BY <1>1, <1>2, <1>4 DEF BuildPhi
  <2> QED
    BY <1>3, <2>1
<1>5. CASE ~(ty # "value" /\ ~several)
  <2>1. PICK used : used = {j \in kept : several /\ in[j].v.real}
    OBVIOUS
  <2>2. PICK ms : ms = g.merges \cup {[at |-> g.insert, from |-> {in[i].b : i \in kept}]}
    OBVIOUS
  <2>3. PICK us : us = g.uses \cup {[def |-> in[i].v.def, at |-> in[i].b] : i \in used}
    OBVIOUS
  <2>4. r = [g EXCEPT !.merges = ms, !.uses = us]
    BY <1>1, <1>2, <1>5, <2>1, <2>2, <2>3 DEF BuildPhi
  <2>5. /\ r.term = g.term /\ r.insert = g.insert /\ r.last = g.last /\ r.loop = g.loop
        /\ r.faults = g.faults /\ r.merges = ms /\ r.uses = us
    BY <2>4 DEF Generator
  <2>6. \A i \in kept : i \in 1..Len(in) /\ in[i].v.ty = "value"
    <3>1. \A i \in kept : i \in 1..Len(in) /\ in[i] \in Incoming /\ in[i].v.ty # "none"
      BY <1>1, CountedIs DEF Counted
    <3>2. \A i \in kept : in[i].v \in Value
      BY <3>1 DEF Incoming
    <3> QED
      BY <3>1, <3>2, ValueTypes
  <2>7. \A x \in ms : x \in g.merges \/ (x.at = g.insert /\ x.from = CountedBlocks(in))
    BY <1>1, <2>2 DEF CountedBlocks
  <2>8. \A u \in us : \/ u \in g.uses
                      \/ \E i \in 1..Len(in) : /\ in[i].v.real /\ in[i].v.ty = "value"
                                               /\ u.def = in[i].v.def /\ u.at = in[i].b
    BY <2>1, <2>3, <2>6
  <2> QED
    BY <1>3, <2>5, <2>7, <2>8
<1> QED
  BY <1>4, <1>5

(* The innermost call has come to its end block, e, where its ways meet.   *)
Meets(g, T, in) ==
  /\ Emits(g, T) /\ \A t \in T : t \in Held(top) \/ t \notin 1..Len(m.term)
  /\ g.merges = m.merges /\ g.insert \in Held(top)
  /\ g.loop = IF IsLoop(top) THEN top.outer ELSE m.loop
  /\ top.pc # "visit"
  /\ in \in Seq(Incoming) /\ Sound(in, m, AllHeld(frames))

LEMMA MeetsAt ==
  ASSUME Keeping, frames # <<>>, NEW g, NEW T, NEW in, Meets(g, T, in)
  PROVE  /\ g \in Generator /\ g.insert \in 2..Len(g.term) /\ g.insert \notin AllHeld(Front(frames))
         /\ Sound(in, g, AllHeld(Front(frames)))
<1>1. \A h \in Held(top) : h \in 2..Len(m.term) /\ h \notin AllHeld(Front(frames))
  BY TopKept DEF Keeping
<1>2. Len(m.term) <= Len(g.term) /\ Len(g.term) \in Nat /\ g \in Generator
  BY DEF Meets, Emits, Links, Emitting
<1>3. Len(m.term) \in Nat
  BY FramesAre DEF Keeping
<1>4. \A h \in AllHeld(Front(frames)) : h \in AllHeld(frames) \/ h \notin 1..Len(m.term)
  BY RestHeld DEF Keeping
<1>5. Sound(in, g, AllHeld(Front(frames)))
  BY <1>4, EmitsKeeps DEF Meets, Keeping
<1>6. g.insert \in 2..Len(m.term) /\ g.insert \notin AllHeld(Front(frames))
  BY <1>1 DEF Meets
<1> QED
  BY <1>2, <1>3, <1>5, <1>6

LEMMA MergeFinish ==
  ASSUME Keeping, frames # <<>>, NEW g, NEW T, NEW in, Meets(g, T, in),
         PredsIn(g, g.insert) = CountedBlocks(in), Counted(in) # {} \/ DeadCode,
         node.ty # "none", ~node.leaves, NEW ty, ty = "value",
         NEW v, v = From(PhiValue(g, in), ty), NEW want, NEW r, r = BuildPhi(g, in, want), Give(v, r)
  PROVE  Stays
<1>1. PICK e, rest : e = g.insert /\ rest = AllHeld(Front(frames))
  OBVIOUS
<1>2. /\ g \in Generator /\ e \in 2..Len(g.term) /\ e \notin rest /\ Sound(in, g, rest)
      /\ in \in Seq(Incoming) /\ Len(g.term) \in Nat
  BY <1>1, MeetsAt, GeneratorIs DEF Meets
<1>3. v.ty = "value" /\ SoundAt(v, e, g, rest)
  <2>1. PredsIn(g, e) = CountedBlocks(in) /\ e = g.insert
    BY <1>1
  <2>2. Counted(in) # {} \/ DeadCode
    OBVIOUS
  <2>3. ty = "value" /\ v = From(PhiValue(g, in), ty)
    OBVIOUS
  <2> QED
    BY ONLY <1>2, <2>1, <2>2, <2>3, MergedValue
<1>4. /\ r.term = g.term /\ r.insert = g.insert /\ r.last = g.last /\ r.loop = g.loop
      /\ r.faults = g.faults /\ r \in Generator
      /\ \A x \in r.merges : \/ x \in g.merges
                             \/ x.at = g.insert /\ x.from = CountedBlocks(in)
      /\ \A u \in r.uses : \/ u \in g.uses
                           \/ \E i \in 1..Len(in) : /\ in[i].v.real /\ in[i].v.ty = "value"
                                                    /\ u.def = in[i].v.def /\ u.at = in[i].b
  BY <1>2, MergedUses
<1>5. Emits(g, T)
  BY DEF Meets
<1>6. Emitting(r)
  BY <1>4, <1>5 DEF Emitting, Emits
<1>7. \A u \in r.uses : Reach(u.def, u.at, m, AllHeld(frames))
  BY <1>4, <1>5 DEF Emits, Meets, Sound, SoundAt
<1>8. Emits(r, T)
  BY <1>4, <1>5, <1>6, <1>7 DEF Emits, Links, Faultless
<1>9. PredsIn(r, e) = CountedBlocks(in)
  BY <1>1, <1>4 DEF PredsIn
<1>10. \A x \in r.merges : \/ x \in m.merges
                           \/ /\ x.from = PredsIn(r, x.at) /\ x.at \in 1..Len(r.term)
                              /\ x.at \in Held(top)
  <2>1. e \in 1..Len(r.term) /\ e \in Held(top) /\ g.merges = m.merges
    BY <1>1, <1>2, <1>4 DEF Meets
  <2> QED
    BY <1>1, <1>4, <1>9, <2>1
<1>11. SoundAt(v, e, r, rest)
  BY <1>3, <1>4, ReachAs DEF SoundAt
<1>12. Delivers(node, v, r, rest)
  <2>1. r.insert # 0
    BY <1>1, <1>2, <1>4
  <2> QED
    BY <1>1, <1>3, <1>4, <1>11, <2>1 DEF Delivers
<1>13. \A t \in T : t \in Held(top) \/ t \notin 1..Len(m.term)
  BY DEF Meets
<1>14. /\ r.loop = IF IsLoop(top) THEN top.outer ELSE m.loop
       /\ top.pc # "visit"
  BY <1>4 DEF Meets
<1> QED
  BY <1>1, <1>8, <1>10, <1>12, <1>13, <1>14, PlainFinish DEF Keeping

(* There is no value, or none that counts.                                 *)
LEMMA NothingFinish ==
  ASSUME Keeping, frames # <<>>, NEW g, NEW T, NEW in, Meets(g, T, in),
         ~node.gives, ~node.leaves, NEW v, v.ty # "value", node.ty = "none" => v = NoneConst,
         Give(v, g)
  PROVE  Stays
<1>1. g.insert \in 2..Len(g.term) /\ g \in Generator /\ Len(g.term) \in Nat
  BY MeetsAt, GeneratorIs
<1>2. g.insert # 0
  BY <1>1
<1>3. Delivers(node, v, g, AllHeld(Front(frames)))
  BY <1>2 DEF Delivers, SoundAt
<1> QED
  BY <1>3, PlainFinish DEF Keeping, Meets

NoValue(ty) == ty # "value"

LEMMA UncountedPhi ==
  ASSUME NEW g \in Generator, NEW in, Counted(in) = {}, NEW want, NoValue(want), NEW ty, NoValue(ty)
  PROVE  BuildPhi(g, in, ty) = g /\ From(PhiValue(g, in), want) = NoneConst
<1>1. Cardinality(Counted(in)) = 0
  BY FS_EmptySet
<1>2. BuildPhi(g, in, ty) = g
  BY <1>1 DEF BuildPhi, NoValue
<1>3. PhiValue(g, in) = NoneConst
  BY <1>1 DEF PhiValue
<1> QED
  BY <1>2, <1>3 DEF From, NoneConst, NoValue

(* In g the call has left its last branch, and is at its j-th block.       *)
Left(g, j) ==
  LET h == PositionAt(LeaveBranch(m, Block(j)), Block(j))
  IN  /\ g \in Generator
      /\ g.term = h.term /\ g.insert = h.insert /\ g.last = h.last
      /\ g.uses = h.uses /\ g.merges = h.merges /\ g.faults = h.faults
      /\ g.loop = IF IsLoop(top) THEN top.outer ELSE m.loop

(* A call leaves its last branch for the block where its ways meet.        *)
LEMMA LeaveMeets ==
  ASSUME Keeping, frames # <<>>, Depth(top) = 1, top.pc # "visit",
         NEW j \in Waiting(top), NEW b, b = top.blocks[j], b \in Held(top), NEW g, Left(g, j),
         NEW in \in Seq(Incoming), Sound(in, m, AllHeld(frames))
  PROVE  /\ Meets(g, {b}, in) /\ g.insert = b
         /\ PredsIn(g, b) = PredsIn(m, b) \cup IF m.insert # 0 THEN {m.insert} ELSE {}
<1>1. PICK h : h = PositionAt(LeaveBranch(m, b), Block(j))
  OBVIOUS
<1>2. /\ g \in Generator
      /\ g.term = h.term /\ g.insert = h.insert /\ g.last = h.last
      /\ g.uses = h.uses /\ g.merges = h.merges /\ g.faults = h.faults
      /\ g.loop = IF IsLoop(top) THEN top.outer ELSE m.loop
  BY <1>1 DEF Left, Block
<1>3. PICK l : l = LeaveBranch(m, b)
  OBVIOUS
<1>4. /\ Emitting(m) /\ Drawn(m) /\ Len(m.term) \in Nat /\ b \in 2..Len(m.term)
      /\ IsLoop(top) => Sound(top.outer.nodes, m, AllHeld(frames))
      /\ Sound(m.loop.nodes, m, AllHeld(frames))
  BY TopKept DEF Keeping
<1>5. b \in Nat
  BY <1>4
<1>6. l \in Generator /\ Emitting(l) /\ Links(m, l, {b}) /\ Quiet(m, l) /\ l.insert = 0
  BY <1>3, <1>5, LeaveLinks DEF Keeping
<1>7. Quiet(l, h) /\ h.term = l.term /\ h.insert = b /\ h.last = b
  <2>1. h = PositionAt(l, b)
    BY <1>1, <1>3 DEF Block
  <2> QED
    BY <1>6, <2>1, PositionQuiet
<1>8. Emitting(h) /\ h \in Generator
  BY <1>1, <1>5, LeaveToIs DEF Keeping
<1>9. Emitting(g)
  BY <1>2, <1>8 DEF Emitting
<1>10. g.uses = m.uses /\ g.merges = m.merges /\ g.faults = m.faults
  BY <1>2, <1>6, <1>7 DEF Quiet
<1>11. Links(m, g, {b})
  BY <1>2, <1>6, <1>7, LinksAs
<1>12. PICK v : v = NoneConst
  OBVIOUS
<1>13. Uses(m, g, v) /\ ~v.real
  BY <1>10, <1>12 DEF Uses, NoneConst
<1>14. {b} \subseteq 2..Len(g.term)
  BY <1>4, <1>11 DEF Links
<1>15. Sound(g.loop.nodes, m, AllHeld(frames))
  BY <1>2, <1>4
<1>16. Emits(g, {b})
  BY <1>2, <1>7, <1>9, <1>10, <1>11, <1>13, <1>14, <1>15, EmitsAs DEF Keeping
<1>17. Meets(g, {b}, in)
  BY <1>2, <1>7, <1>10, <1>16 DEF Meets
<1>18. PredsIn(g, b) = PredsIn(m, b) \cup IF m.insert # 0 THEN {m.insert} ELSE {}
  BY <1>4, <1>11, PredsLinked
<1> QED
  BY <1>2, <1>7, <1>17, <1>18

LEMMA LeftIs ==
  ASSUME Keeping, frames # <<>>, Depth(top) = 1, NEW j \in Waiting(top),
         NEW h, h = PositionAt(LeaveBranch(m, Block(j)), Block(j)),
         NEW g, g = IF IsLoop(top) THEN RestoreLoop(h) ELSE h
  PROVE  Left(g, j)
<1>1. PICK b : b = Block(j)
  OBVIOUS
<1>2. b \in Nat /\ top.outer \in LoopData
  <2>1. Calling(top, Len(m.term)) /\ Len(m.term) \in Nat
    BY TopKept DEF Keeping
  <2> QED
    BY <1>1, <2>1, WaitingHasBlocks, CallingIs DEF Block
<1>3. PICK l : l = LeaveBranch(m, b)
  OBVIOUS
<1>4. l \in Generator /\ Quiet(m, l)
  BY <1>2, <1>3, LeaveLinks DEF Keeping
<1>5. h = PositionAt(l, b)
  BY <1>1, <1>3
<1>6. h \in Generator /\ Quiet(l, h)
  BY <1>2, <1>4, <1>5, PositionQuiet DEF PositionAt, Generator
<1>7. CASE ~IsLoop(top)
  BY <1>4, <1>6, <1>7 DEF Left, Quiet
<1>8. CASE IsLoop(top)
  <2>1. PICK d : d = top.outer
    OBVIOUS
  <2>2. g = [h EXCEPT !.loop = d]
    BY <1>8, <2>1 DEF RestoreLoop
  <2>3. /\ g \in Generator /\ g.loop = d
        /\ g.term = h.term /\ g.insert = h.insert /\ g.last = h.last
        /\ g.uses = h.uses /\ g.merges = h.merges /\ g.faults = h.faults
    BY <1>2, <1>6, <2>1, <2>2 DEF Generator
  <2> QED
    BY <1>8, <2>1, <2>3 DEF Left
<1> QED
  BY <1>7, <1>8

OneMore(s, x, in) ==
  /\ s \in Seq(Incoming) /\ Len(s) = 1 /\ Counted(s) = {} /\ x \in Incoming
  /\ in = Append(s, x)

(* Of one value that does not count and another one, no phi is built.      *)
LEMMA OnePhi ==
  ASSUME NEW g \in Generator, NEW s, NEW x, NEW in, OneMore(s, x, in), NEW want, NoValue(want),
         NEW ty, NoValue(ty), NEW v, v = From(PhiValue(g, in), want)
  PROVE  /\ BuildPhi(g, in, ty) = g /\ NoValue(v.ty)
         /\ x.v.ty = "none" => v = NoneConst
<1>1. /\ s \in Seq(Incoming) /\ Len(s) = 1 /\ Counted(s) = {} /\ x \in Incoming
      /\ in = Append(s, x)
  BY DEF OneMore
<1>2. in \in Seq(Incoming) /\ Len(in) = 2 /\ in[1] = s[1] /\ in[2] = x
  <2>1. PICK n : n = Len(s)
    OBVIOUS
  <2>2. in \in Seq(Incoming) /\ Len(in) = n + 1 /\ in[n + 1] = x /\ \A i \in 1..n : in[i] = s[i]
    BY <1>1, <2>1, AppendProperties
  <2>3. n = 1 /\ 1 \in 1..n /\ n + 1 = 2
    BY <1>1, <2>1
  <2> QED
    BY <2>2, <2>3
<1>3. PICK kept : kept = Counted(in)
  OBVIOUS
<1>4. kept \subseteq 1..2
  BY <1>2, <1>3, CountedIs
<1>5. s[1].v.ty = "none"
  <2>1. DOMAIN s = 1..1
    BY <1>1, LenProperties
  <2> QED
    BY <1>1, <2>1 DEF Counted
<1>6. 1 \notin kept
  BY <1>2, <1>3, <1>5 DEF Counted
<1>7. kept = {} \/ kept = {2}
  <2>1. \A i \in 1..2 : i = 1 \/ i = 2
    OBVIOUS
  <2>2. \A i \in kept : i = 2
    BY <1>4, <1>6, <2>1
  <2> QED
    BY <2>2
<1>8. Cardinality(kept) = 0 \/ Cardinality(kept) = 1
  BY <1>7, FS_EmptySet, FS_Singleton
<1>9. BuildPhi(g, in, ty) = g
  BY <1>3, <1>8 DEF BuildPhi, NoValue
<1>10. NoValue(v.ty)
  <2>1. PICK p : p = PhiValue(g, in)
    OBVIOUS
  <2>2. p \in Value
    BY <1>2, <2>1, PhiValueTyped
  <2>3. v = [p EXCEPT !.ty = "none"]
    BY <2>1 DEF From, NoValue
  <2> QED
    BY <2>2, <2>3 DEF Value, NoValue
<1>11. ASSUME x.v.ty = "none"
       PROVE  v = NoneConst
  <2>1. Counted(in) = {}
    BY <1>1, <1>11, CountedAppend
  <2> QED
    BY <2>1, UncountedPhi
<1> QED
  BY <1>9, <1>10, <1>11

LEMMA IfElseKeeps == ASSUME Keeping, IfElse PROVE Stays
<1>1. PICK b : b = top.blocks[3]
  OBVIOUS
<1>2. PICK g : g = PositionAt(LeaveBranch(m, b), Block(3))
  OBVIOUS
<1>3. PICK x : x = Ended
  OBVIOUS
<1>4. PICK in : in = Append(top.incoming, x)
  OBVIOUS
<1>5. At("if", "else") /\ TypeInv
  BY DEF IfElse, Keeping
<1>6. /\ frames # <<>> /\ KindOf(top) = "if" /\ node.kind = "if" /\ top.pc = "else"
      /\ ~IsLoop(top) /\ top \in Frame /\ Depth(top) = 1 /\ Waiting(top) = {3}
      /\ node \in Node /\ Len(node.sub) = 3 /\ Within(node.sub, nodes)
  BY <1>5, AtIs DEF DepthAt, ToCome, Operands
<1>7. /\ Emitting(m) /\ Len(m.term) \in Nat /\ Shaped(node, nodes, ret_type)
      /\ BranchFed(top, m) /\ Sound(top.incoming, m, AllHeld(frames))
  BY <1>6, TopKept DEF Keeping
<1>8. b \in Held(top)
  <2>1. Holds(top) = {3}
    BY <1>6 DEF Holds, HeldAt
  <2> QED
    BY <1>1, <2>1 DEF Held
<1>9. PICK d : d = nodes[node.sub[3]]
  OBVIOUS
<1>10. /\ x \in Incoming
       /\ SoundAt(x.v, x.b, m, AllHeld(frames))
       /\ m.insert # 0 => x.b = m.insert
       /\ Fits(d, "value") => (x.v.ty # "none" <=> m.insert # 0)
       /\ d.ty = "none" => x.v.ty = "none"
  <2>1. d = nodes[OperandOf(top)]
    BY <1>6, <1>9 DEF OperandOf, PlaceOf, node
  <2> QED
    BY <1>3, <1>6, <2>1, EndedKept
<1>11. /\ in \in Seq(Incoming)
       /\ CountedBlocks(in) = CountedBlocks(top.incoming) \cup IF x.v.ty # "none" THEN {x.b} ELSE {}
       /\ Counted(in) = {} <=> Counted(top.incoming) = {} /\ x.v.ty = "none"
       /\ Sound(in, m, AllHeld(frames))
  <2>1. top.incoming \in Seq(Incoming)
    BY <1>6 DEF Frame
  <2>2. in \in Seq(Incoming)
    BY <1>4, <1>10, <2>1, AppendProperties
  <2> QED
    BY <1>4, <1>7, <1>10, <2>1, <2>2, CountedAppend
<1>12. Left(g, 3)
  <2>1. PICK j : j = 3
    OBVIOUS
  <2>2. j \in Waiting(top) /\ g = PositionAt(LeaveBranch(m, Block(j)), Block(j))
    BY <1>1, <1>2, <1>6, <2>1 DEF Block
  <2> QED
    BY <1>6, <2>1, <2>2, LeftIs
<1>13. g \in Generator
  BY <1>12 DEF Left
<1>14. /\ Meets(g, {b}, in) /\ g.insert = b
       /\ PredsIn(g, b) = PredsIn(m, b) \cup IF m.insert # 0 THEN {m.insert} ELSE {}
  <2>1. 3 \in Waiting(top) /\ top.pc # "visit"
    BY <1>6
  <2> QED
    BY <1>1, <1>6, <1>8, <1>11, <1>12, <2>1, LeaveMeets
<1>15. /\ Merges(node) => PredsIn(m, b) = CountedBlocks(top.incoming)
       /\ Len(top.incoming) = 1
       /\ node.phi => IF Merges(node) THEN Counted(top.incoming) # {} \/ DeadCode
                      ELSE Counted(top.incoming) = {}
  <2>1. EndBlock(top) = b /\ HasBlocks("if", "else")
    BY <1>1, <1>6 DEF EndBlock, EndPlace, HasBlocks
  <2>2. Gathered(top) = CountedBlocks(top.incoming)
    BY <1>6 DEF Gathered
  <2>3. nodes[top.node] = node
    BY DEF node
  <2> QED
    BY <1>6, <1>7, <2>1, <2>2, <2>3 DEF BranchFed
<1>16. ~node.leaves
  BY <1>6, <1>7 DEF Shaped
<1>17. PICK r : r = BuildPhi(g, in, node.ty)
  OBVIOUS
<1>18. PICK k : k = nodes[node.sub[2]]
  OBVIOUS
<1>19. PICK v : v = From(PhiValue(g, in), k.ty)
  OBVIOUS
<1>20. ASSUME node.phi
       PROVE  Give(v, r)
  BY <1>1, <1>2, <1>3, <1>4, <1>17, <1>18, <1>19, <1>20 DEF IfElse, Block, Ty
<1>21. CASE node.phi /\ Merges(node)
  <2>1. k.ty = "value" /\ Fits(d, "value")
    BY <1>6, <1>7, <1>9, <1>18, <1>21 DEF Merges, Shaped
  <2>2. PredsIn(g, g.insert) = CountedBlocks(in)
    BY <1>10, <1>11, <1>14, <1>15, <1>21, <2>1
  <2>3. Counted(in) # {} \/ DeadCode
    BY <1>11, <1>15, <1>21
  <2>4. node.ty # "none"
    <3>1. d.ty # "none"
      BY <2>1 DEF Fits
    <3> QED
      BY <1>6, <1>7, <1>9, <1>21, <3>1 DEF Shaped
  <2> QED
    BY <1>6, <1>14, <1>16, <1>17, <1>19, <1>20, <1>21, <2>1, <2>2, <2>3, <2>4, MergeFinish
<1>22. CASE node.phi /\ ~Merges(node)
  <2>1. k.ty # "value" /\ k.ty # "any"
    BY <1>6, <1>7, <1>18, <1>22 DEF Merges, Shaped
  <2>2. node.ty # "value"
    BY <1>6, <1>7, <1>18, <2>1 DEF Shaped
  <2>3. ~node.gives
    <3>1. k \in Node /\ Shaped(k, nodes, ret_type)
      <4>1. 2 \in 1..Len(node.sub)
        BY <1>6
      <4>2. node.sub[2] \in 1..Len(nodes)
        BY <1>6, <4>1 DEF Within
      <4> QED
        BY <1>18, <4>2, ShapedIs, NodesTyped, ElementOfSeq DEF Keeping, Expressions
    <3>2. k.ty = "none"
      BY <2>1, <3>1 DEF Node, Types
    <3>3. ~k.gives
      BY <3>1, <3>2 DEF Shaped
    <3> QED
      BY <1>6, <1>7, <1>18, <3>3 DEF Shaped
  <2>4. top.incoming \in Seq(Incoming) /\ Len(top.incoming) = 1 /\ Counted(top.incoming) = {}
    BY <1>6, <1>15, <1>22 DEF Frame
  <2>5. r = g /\ NoValue(v.ty) /\ (x.v.ty = "none" => v = NoneConst)
    <3>1. PICK s, want, ty : s = top.incoming /\ want = k.ty /\ ty = node.ty
      OBVIOUS
    <3>2. OneMore(s, x, in)
      BY <1>4, <1>10, <2>4, <3>1 DEF OneMore
    <3>3. /\ NoValue(want) /\ NoValue(ty) /\ v = From(PhiValue(g, in), want)
          /\ r = BuildPhi(g, in, ty)
      BY <1>17, <1>19, <2>1, <2>2, <3>1 DEF NoValue
    <3> QED
      BY ONLY <1>13, <3>2, <3>3, OnePhi
  <2>6. node.ty = "none" => x.v.ty = "none"
    BY <1>6, <1>7, <1>9, <1>10, <1>22 DEF Shaped
  <2> QED
    BY <1>6, <1>14, <1>16, <1>20, <1>22, <2>3, <2>5, <2>6, NothingFinish DEF NoValue
<1>23. CASE ~node.phi
  <2>1. Give(NoneConst, g)
    BY <1>1, <1>2, <1>23 DEF IfElse, Block
  <2>2. node.ty = "none" /\ ~node.gives
    BY <1>6, <1>7, <1>23 DEF Shaped
  <2>3. PICK z : z = NoneConst
    OBVIOUS
  <2>4. z.ty # "value" /\ Give(z, g)
    BY <2>1, <2>3 DEF NoneConst
  <2> QED
    BY <1>6, <1>14, <1>16, <2>2, <2>3, <2>4, NothingFinish
<1> QED
  BY <1>21, <1>22, <1>23

(* The value of the last branch comes in with the others.                  *)
LEMMA AddedIs ==
  ASSUME Keeping, frames # <<>>, top.pc # "visit", NEW d, d = nodes[OperandOf(top)],
         NEW x, x = Ended, NEW in, in = Append(top.incoming, x)
  PROVE  /\ in \in Seq(Incoming) /\ Sound(in, m, AllHeld(frames))
         /\ CountedBlocks(in) = CountedBlocks(top.incoming) \cup IF x.v.ty # "none" THEN {x.b} ELSE {}
         /\ Counted(in) = {} <=> Counted(top.incoming) = {} /\ x.v.ty = "none"
         /\ m.insert # 0 => x.b = m.insert
         /\ Fits(d, "value") => (x.v.ty # "none" <=> m.insert # 0)
         /\ d.ty = "none" => x.v.ty = "none"
         /\ d.ty = "value" => x.v.ty # "none" \/ DeadCode
<1>1. /\ x \in Incoming /\ SoundAt(x.v, x.b, m, AllHeld(frames))
      /\ m.insert # 0 => x.b = m.insert
      /\ Fits(d, "value") => (x.v.ty # "none" <=> m.insert # 0)
      /\ d.ty = "none" => x.v.ty = "none"
      /\ d.ty = "value" => x.v.ty # "none" \/ DeadCode
  BY EndedKept
<1>2. top.incoming \in Seq(Incoming) /\ Sound(top.incoming, m, AllHeld(frames))
  <2>1. Calling(top, Len(m.term)) /\ Sound(top.incoming, m, AllHeld(frames))
    BY TopKept DEF Keeping
  <2> QED
    BY <2>1, CallingIs
<1>3. in \in Seq(Incoming)
  BY <1>1, <1>2, AppendProperties
<1>4. /\ CountedBlocks(in) = CountedBlocks(top.incoming) \cup IF x.v.ty # "none" THEN {x.b} ELSE {}
      /\ Counted(in) = {} <=> Counted(top.incoming) = {} /\ x.v.ty = "none"
      /\ Sound(in, m, AllHeld(frames))
  BY <1>1, <1>2, CountedAppend
<1> QED
  BY <1>1, <1>3, <1>4

LEMMA SwitchElseKeeps == ASSUME Keeping, SwitchElse PROVE Stays
<1>1. PICK b : b = top.blocks[1]
  OBVIOUS
<1>2. PICK g : g = PositionAt(LeaveBranch(m, b), Block(1))
  OBVIOUS
<1>3. PICK x : x = Ended
  OBVIOUS
<1>4. PICK in : in = Append(top.incoming, x)
  OBVIOUS
<1>5. At("switch", "else") /\ TypeInv
  BY DEF SwitchElse, Keeping
<1>6. /\ frames # <<>> /\ KindOf(top) = "switch" /\ node.kind = "switch" /\ top.pc = "else"
      /\ ~IsLoop(top) /\ top \in Frame /\ Depth(top) = 1 /\ Waiting(top) = {1}
      /\ node \in Node
  BY <1>5, AtIs DEF DepthAt, ToCome
<1>7. Shaped(node, nodes, ret_type) /\ BranchFed(top, m)
  BY <1>6, TopKept DEF Keeping
<1>8. b \in Held(top)
  <2>1. Holds(top) = {1}
    BY <1>6 DEF Holds, HeldAt
  <2> QED
    BY <1>1, <2>1 DEF Held
<1>9. PICK d : d = nodes[node.sub[Len(node.sub)]]
  OBVIOUS
<1>10. d = nodes[OperandOf(top)]
  BY <1>6, <1>9 DEF OperandOf, PlaceOf, node
<1>11. /\ in \in Seq(Incoming) /\ Sound(in, m, AllHeld(frames))
       /\ CountedBlocks(in) = CountedBlocks(top.incoming) \cup IF x.v.ty # "none" THEN {x.b} ELSE {}
       /\ Counted(in) = {} <=> Counted(top.incoming) = {} /\ x.v.ty = "none"
       /\ m.insert # 0 => x.b = m.insert
       /\ Fits(d, "value") => (x.v.ty # "none" <=> m.insert # 0)
       /\ d.ty = "value" => x.v.ty # "none" \/ DeadCode
  <2>1. top.pc # "visit"
    BY <1>6
  <2> QED
    BY <1>3, <1>4, <1>6, <1>10, <2>1, AddedIs
<1>12. Left(g, 1)
  <2>1. PICK j : j = 1
    OBVIOUS
  <2>2. j \in Waiting(top) /\ g = PositionAt(LeaveBranch(m, Block(j)), Block(j))
    BY <1>1, <1>2, <1>6, <2>1 DEF Block
  <2> QED
    BY <1>6, <2>1, <2>2, LeftIs
<1>13. /\ Meets(g, {b}, in) /\ g.insert = b
       /\ PredsIn(g, b) = PredsIn(m, b) \cup IF m.insert # 0 THEN {m.insert} ELSE {}
  <2>1. 1 \in Waiting(top) /\ top.pc # "visit"
    BY <1>6
  <2> QED
    BY <1>1, <1>6, <1>8, <1>11, <1>12, <2>1, LeaveMeets
<1>14. ~node.leaves
  BY <1>6, <1>7 DEF Shaped
<1>15. CASE node.phi
  <2>1. PICK r : r = BuildPhi(g, in, node.ty)
    OBVIOUS
  <2>2. PICK v : v = From(PhiValue(g, in), d.ty)
    OBVIOUS
  <2>3. Give(v, r)
    BY <1>1, <1>2, <1>3, <1>4, <1>9, <1>15, <2>1, <2>2 DEF SwitchElse, Block, Ty, Last
  <2>4. node.ty = "value" /\ d.ty = "value" /\ Fits(d, "value") /\ Merges(node)
    BY <1>6, <1>7, <1>9, <1>15 DEF Shaped, Fits, Merges
  <2>5. PredsIn(m, b) = CountedBlocks(top.incoming)
    <3>1. EndBlock(top) = b /\ HasBlocks("switch", "else")
      BY <1>1, <1>6 DEF EndBlock, EndPlace, HasBlocks
    <3>2. Gathered(top) = CountedBlocks(top.incoming)
      BY <1>6 DEF Gathered
    <3>3. nodes[top.node] = node
      BY DEF node
    <3> QED
      BY <1>6, <1>7, <2>4, <3>1, <3>2, <3>3 DEF BranchFed
  <2>6. PredsIn(g, g.insert) = CountedBlocks(in)
    BY <1>11, <1>13, <2>4, <2>5
  <2>7. Counted(in) # {} \/ DeadCode
    BY <1>11, <2>4
  <2> QED
    BY <1>6, <1>13, <1>14, <2>1, <2>2, <2>3, <2>4, <2>6, <2>7, MergeFinish
<1>16. CASE ~node.phi
  <2>1. Give(NoneConst, g)
    BY <1>1, <1>2, <1>16 DEF SwitchElse, Block
  <2>2. node.ty = "none" /\ ~node.gives
    <3>1. node.ty = "none"
      BY <1>6, <1>7, <1>16 DEF Shaped, Node, Types
    <3> QED
      BY <1>7, <3>1 DEF Shaped
  <2>3. PICK z : z = NoneConst
    OBVIOUS
  <2>4. z.ty # "value" /\ Give(z, g)
    BY <2>1, <2>3 DEF NoneConst
  <2> QED
    BY <1>6, <1>13, <1>14, <2>2, <2>3, <2>4, NothingFinish
<1> QED
  BY <1>15, <1>16

LEMMA LoopEndKeeps == ASSUME Keeping, LoopEnd PROVE Stays
<1>1. PICK b : b = top.blocks[3]
  OBVIOUS
<1>2. PICK h, g : h = PositionAt(LeaveBranch(m, b), Block(3)) /\ g = RestoreLoop(h)
  OBVIOUS
<1>3. PICK x : x = Ended
  OBVIOUS
<1>4. PICK given, s, in : given = m.loop.nodes /\ s = Append(top.incoming, x) /\ in = given \o s
  OBVIOUS
<1>5. At("loop", "else") /\ TypeInv
  BY DEF LoopEnd, Keeping
<1>6. /\ frames # <<>> /\ KindOf(top) = "loop" /\ node.kind = "loop" /\ top.pc = "else"
      /\ IsLoop(top) /\ top \in Frame /\ Depth(top) = 1 /\ Waiting(top) = {3}
      /\ node \in Node
  BY <1>5, AtIs DEF DepthAt, ToCome
<1>7. /\ Shaped(node, nodes, ret_type) /\ LoopFed(top, m, m.loop) /\ Emitting(m)
      /\ Sound(given, m, AllHeld(frames))
  BY <1>4, <1>6, TopKept DEF Keeping
<1>8. b \in Held(top)
  <2>1. Holds(top) = {3}
    BY <1>6 DEF Holds, HeldAt
  <2> QED
    BY <1>1, <2>1 DEF Held
<1>9. PICK d : d = nodes[node.sub[3]]
  OBVIOUS
<1>10. d = nodes[OperandOf(top)]
  BY <1>6, <1>9 DEF OperandOf, PlaceOf, node
<1>11. /\ s \in Seq(Incoming) /\ Sound(s, m, AllHeld(frames))
       /\ CountedBlocks(s) = CountedBlocks(top.incoming) \cup IF x.v.ty # "none" THEN {x.b} ELSE {}
       /\ Counted(s) = {} <=> Counted(top.incoming) = {} /\ x.v.ty = "none"
       /\ m.insert # 0 => x.b = m.insert
       /\ Fits(d, "value") => (x.v.ty # "none" <=> m.insert # 0)
       /\ d.ty = "none" => x.v.ty = "none"
       /\ d.ty = "value" => x.v.ty # "none" \/ DeadCode
  <2>1. top.pc # "visit"
    BY <1>6
  <2> QED
    BY <1>3, <1>4, <1>6, <1>10, <2>1, AddedIs
<1>12. /\ in \in Seq(Incoming) /\ Sound(in, m, AllHeld(frames))
       /\ CountedBlocks(in) = CountedBlocks(given) \cup CountedBlocks(s)
       /\ Counted(in) = {} <=> Counted(given) = {} /\ Counted(s) = {}
  <2>1. given \in Seq(Incoming)
    <3>1. m.loop \in LoopData
      BY <1>7, GeneratorIs DEF Emitting
    <3> QED
      BY <1>4, <3>1 DEF LoopData
  <2> QED
    BY <1>4, <1>7, <1>11, <2>1, CountedConcat
<1>13. Left(g, 3)
  <2>1. PICK j : j = 3
    OBVIOUS
  <2>2. /\ j \in Waiting(top) /\ h = PositionAt(LeaveBranch(m, Block(j)), Block(j))
        /\ g = IF IsLoop(top) THEN RestoreLoop(h) ELSE h
    BY <1>1, <1>2, <1>6, <2>1 DEF Block
  <2> QED
    BY <1>6, <2>1, <2>2, LeftIs
<1>14. /\ Meets(g, {b}, in) /\ g.insert = b
       /\ PredsIn(g, b) = PredsIn(m, b) \cup IF m.insert # 0 THEN {m.insert} ELSE {}
  <2>1. 3 \in Waiting(top) /\ top.pc # "visit"
    BY <1>6
  <2> QED
    BY <1>1, <1>6, <1>8, <1>12, <1>13, <2>1, LeaveMeets
<1>15. ~node.leaves
  BY <1>6, <1>7 DEF Shaped
<1>16. PICK k : k = node.ty
  OBVIOUS
<1>17. PICK r : r = BuildPhi(g, in, k)
  OBVIOUS
<1>18. PICK v : v = From(PhiValue(g, in), k)
  OBVIOUS
<1>19. ASSUME node.phi
       PROVE  Give(v, r)
  BY <1>1, <1>2, <1>3, <1>4, <1>16, <1>17, <1>18, <1>19 DEF LoopEnd, Block
<1>20. /\ Merges(node) => PredsIn(m, b) = CountedBlocks(given) \cup CountedBlocks(top.incoming)
       /\ node.phi /\ ~Merges(node) => Counted(given) = {} /\ Counted(top.incoming) = {}
  <2>1. Gathered(top) = CountedBlocks(top.incoming)
    BY <1>6 DEF Gathered
  <2>2. nodes[top.node] = node
    BY DEF node
  <2> QED
    BY <1>1, <1>4, <1>6, <1>7, <2>1, <2>2 DEF LoopFed
<1>21. CASE node.phi /\ Merges(node)
  <2>1. k = "value" /\ d.ty = "value" /\ Fits(d, "value")
    BY <1>6, <1>7, <1>9, <1>16, <1>21 DEF Shaped, Fits, Merges
  <2>2. PredsIn(g, g.insert) = CountedBlocks(in)
    BY <1>11, <1>12, <1>14, <1>20, <1>21, <2>1
  <2>3. Counted(in) # {} \/ DeadCode
    BY <1>11, <1>12, <2>1
  <2>4. node.ty # "none"
    BY <1>16, <2>1
  <2> QED
    BY <1>6, <1>14, <1>15, <1>17, <1>18, <1>19, <1>21, <2>1, <2>2, <2>3, <2>4, MergeFinish
<1>22. CASE node.phi /\ ~Merges(node)
  <2>1. node.ty = "none" /\ ~node.gives /\ d.ty = "none"
    <3>1. node.ty = "none"
      BY <1>6, <1>7, <1>22 DEF Shaped, Node, Types, Merges
    <3> QED
      BY <1>6, <1>7, <1>9, <1>22, <3>1 DEF Shaped
  <2>2. Counted(in) = {} /\ NoValue(k)
    BY <1>11, <1>12, <1>16, <1>20, <1>22, <2>1 DEF NoValue
  <2>3. g \in Generator
    BY <1>13 DEF Left
  <2>4. r = g /\ v = NoneConst
    BY <1>17, <1>18, <2>2, <2>3, UncountedPhi
  <2>5. v.ty # "value"
    BY <2>4 DEF NoneConst
  <2> QED
    BY <1>6, <1>14, <1>15, <1>19, <1>22, <2>1, <2>4, <2>5, NothingFinish
<1>23. CASE ~node.phi
  <2>1. Give(NoneConst, g)
    BY <1>1, <1>2, <1>23 DEF LoopEnd, Block
  <2>2. node.ty = "none" /\ ~node.gives
    BY <1>6, <1>7, <1>23 DEF Shaped
  <2>3. PICK z : z = NoneConst
    OBVIOUS
  <2>4. z.ty # "value" /\ Give(z, g)
    BY <2>1, <2>3 DEF NoneConst
  <2> QED
    BY <1>6, <1>14, <1>15, <2>2, <2>3, <2>4, NothingFinish
<1> QED
  BY <1>21, <1>22, <1>23

-----------------------------------------------------------------------------
(* The steps of a when, but for its end.                                   *)

LEMMA EnterSwitchKeeps == ASSUME Keeping, EnterSwitch PROVE Stays
<1>1. PICK f : f = [top EXCEPT !.pc = "cond", !.blocks = FreshBlocks]
  OBVIOUS
<1>2. PICK e : e = node.sub[1]
  OBVIOUS
<1>3. PICK a : a = AppendBlocks(m, 3)
  OBVIOUS
<1>4. PICK f1, f2, f3 : f1 = Fresh(1) /\ f2 = Fresh(2) /\ f3 = Fresh(3)
  OBVIOUS
<1>5. PICK g : g = PushLocalScope(a)
  OBVIOUS
<1>6. At("switch", "visit") /\ m.insert # 0 /\ Evaluate(e, f, g) /\ TypeInv
  BY <1>1, <1>2, <1>3, <1>5 DEF EnterSwitch, Visiting, Keeping
<1>7. /\ frames # <<>> /\ KindOf(top) = "switch" /\ node.kind = "switch" /\ top.pc = "visit"
      /\ ~IsLoop(top) /\ top \in Frame /\ Placed(top, "switch", Len(node.sub), Len(m.term))
  BY <1>6, AtIs
<1>8. Goes
  BY <1>6, EnterSwitchStep DEF Keeping
<1>9. /\ Emitting(m) /\ Drawn(m) /\ Len(m.term) \in Nat
      /\ Sound(m.loop.nodes, m, AllHeld(frames)) /\ (Fresher(top) => top.incoming = <<>>)
  BY <1>7, TopKept DEF Keeping
<1>10. top.incoming = <<>> /\ top.case = 1
  BY <1>7, <1>9 DEF Fresher, Placed
<1>11. /\ FreshBlocks[1] = f1 /\ FreshBlocks[2] = f2 /\ FreshBlocks[3] = f3
       /\ f1 \in Nat /\ f2 \in Nat /\ f3 \in Nat
       /\ f1 > Len(m.term) /\ f2 > Len(m.term) /\ f3 > Len(m.term)
       /\ f1 # f2 /\ f1 # f3 /\ f2 # f3
  BY <1>4, <1>9, FreshAre
<1>12. /\ Emitting(a) /\ Links(m, a, {}) /\ Quiet(m, a) /\ a.insert = m.insert /\ a.last = m.last
  <2>1. 3 \in Nat
    OBVIOUS
  <2> QED
    BY <1>3, <1>9, <2>1, AppendWhole
<1>13. Emitting(g) /\ g.term = a.term /\ Quiet(a, g) /\ g.insert = a.insert /\ g.last = a.last
  BY <1>5, <1>12, PushWhole
<1>14. Links(m, g, {})
  BY <1>12, <1>13, LinksAs
<1>15. /\ g.uses = m.uses /\ g.merges = m.merges /\ g.faults = m.faults /\ g.loop = m.loop
       /\ g.insert = m.insert /\ g.last = m.last
  BY <1>12, <1>13 DEF Quiet
<1>16. /\ f.node = top.node /\ f.pc = "cond" /\ f.blocks = FreshBlocks
       /\ f.incoming = <<>> /\ f.case = 1 /\ KindOf(f) = "switch"
  BY <1>1, <1>7, <1>10 DEF Frame, KindOf
<1>17. Holds(f) = {1, 2, 3} /\ Held(f) = {f1, f2, f3} /\ ~IsLoop(f) /\ ~Abandoned(f)
  <2>1. Holds(f) = {1, 2, 3} /\ ~IsLoop(f) /\ ~Abandoned(f)
    BY <1>16 DEF Holds, HeldAt, IsLoop, Abandoned
  <2> QED
    BY <1>11, <1>16, <2>1 DEF Held
<1>18. BranchFed(f, g)
  <2>1. PredsIn(g, f1) = {}
    BY <1>6, <1>7, <1>9, <1>11, <1>14, FreshPreds
  <2>2. EndBlock(f) = f1
    BY <1>11, <1>16 DEF EndBlock, EndPlace
  <2>3. Gathered(f) = {}
    BY <1>16, SoundNone DEF Gathered
  <2>4. nodes[f.node].kind = "switch"
    BY <1>16 DEF KindOf
  <2> QED
    BY <1>16, <2>1, <2>2, <2>3, <2>4 DEF BranchFed
<1>19. e = OperandOf(f)
  <2>1. 2 * 1 - 1 = 1
    OBVIOUS
  <2> QED
    BY <1>2, <1>16, <2>1 DEF OperandOf, PlaceOf, node
<1>20. Sound(f.incoming, m, AllHeld(frames))
  BY <1>16, SoundNone
<1>21. PICK v : v = NoneConst
  OBVIOUS
<1>22. Uses(m, g, v) /\ ~v.real
  BY <1>15, <1>21 DEF Uses, NoneConst
<1>23. /\ \A h \in Held(f) : h \in Nat /\ h > Len(m.term)
       /\ \A i, j \in Holds(f) : f.blocks[i] = f.blocks[j] => i = j
       /\ g.insert # 0 /\ g.last = g.insert /\ f.pc # "visit" /\ f.pc # "again"
  BY <1>6, <1>9, <1>11, <1>15, <1>16, <1>17 DEF Drawn
<1>24. \A t \in {} : t \in Held(top)
  OBVIOUS
<1>25. ~Fresher(f) \/ f.incoming = <<>>
  BY <1>16
<1> QED
  BY <1>6, <1>7, <1>8, <1>9, <1>14, <1>15, <1>16, <1>17, <1>18, <1>19, <1>20, <1>22, <1>23,
     <1>24, <1>25, BlockMove

(* The block inserted into goes on in one of two blocks, by the condition. *)
LEMMA SwitchConditionKeeps == ASSUME Keeping, SwitchCondition PROVE Stays
<1>1. PICK f : f = [top EXCEPT !.pc = "case"]
  OBVIOUS
<1>2. PICK e : e = node.sub[2 * top.case]
  OBVIOUS
<1>3. PICK b1, b2, b3 : b1 = top.blocks[1] /\ b2 = top.blocks[2] /\ b3 = top.blocks[3]
  OBVIOUS
<1>4. PICK a : a = PopLocals(m)
  OBVIOUS
<1>5. PICK c : c = ConditionalBranch(a, result, b3, b2)
  OBVIOUS
<1>6. PICK g : g = PushLocalScope(PositionAt(c, b3))
  OBVIOUS
<1>7. At("switch", "cond") /\ Evaluate(e, f, g) /\ TypeInv
  BY <1>1, <1>2, <1>3, <1>4, <1>5, <1>6 DEF SwitchCondition, Keeping, Block
<1>8. /\ frames # <<>> /\ KindOf(top) = "switch" /\ node.kind = "switch" /\ top.pc = "cond"
      /\ ~IsLoop(top) /\ top \in Frame /\ Depth(top) = 1
      /\ Placed(top, "switch", Len(node.sub), Len(m.term)) /\ Operands("switch", Len(node.sub))
  BY <1>7, AtIs DEF DepthAt
<1>9. Goes
  BY <1>7, SwitchConditionStep DEF Keeping
<1>10. /\ Emitting(m) /\ Drawn(m) /\ Len(m.term) \in Nat /\ Shaped(node, nodes, ret_type)
       /\ Sound(m.loop.nodes, m, AllHeld(frames)) /\ BranchFed(top, m)
       /\ Sound(top.incoming, m, AllHeld(frames))
       /\ \A h \in Held(top) : h \in 2..Len(m.term)
       /\ \A i, j \in Holds(top) : top.blocks[i] = top.blocks[j] => i = j
  BY <1>8, TopKept DEF Keeping
<1>11. Holds(top) = {1, 2, 3} /\ Held(top) = {b1, b2, b3} /\ b1 # b2 /\ b1 # b3
       /\ b2 \in 2..Len(m.term) /\ b3 \in 2..Len(m.term) /\ b2 \in Nat /\ b3 \in Nat
  <2>1. Holds(top) = {1, 2, 3}
    BY <1>8 DEF Holds, HeldAt
  <2>2. Held(top) = {b1, b2, b3}
    BY <1>3, <2>1 DEF Held
  <2> QED
    BY <1>3, <1>10, <2>1, <2>2
<1>12. PICK k : k = top.case
  OBVIOUS
<1>13. PICK n : n = Len(node.sub)
  OBVIOUS
<1>14. k \in CasesOf(node)
  <2>1. k \in 1..3 /\ 2 * k + 1 <= n /\ n \in {3, 5}
    BY <1>8, <1>12, <1>13 DEF Placed, Operands
  <2>2. k \in 1..2 /\ 2 * k < n
    BY ONLY <2>1
  <2> QED
    BY <1>13, <2>2 DEF CasesOf
<1>15. nodes[OperandOf(top)].ty = "value"
  <2>1. OperandOf(top) = node.sub[2 * k - 1]
    BY <1>8, <1>12 DEF OperandOf, PlaceOf, node
  <2>2. nodes[node.sub[2 * k - 1]].ty = "value"
    BY <1>8, <1>10, <1>14 DEF Shaped
  <2> QED
    BY <2>1, <2>2
<1>16. /\ result.real /\ m.insert # 0 => Reach(result.def, m.insert, m, AllHeld(frames))
       /\ result \in Value
  BY <1>8, <1>15, ComputedReach
<1>17. Emitting(a) /\ a.term = m.term /\ Quiet(m, a) /\ a.insert = m.insert
  <2>1. m.locals > 0
    BY <1>7, <1>8, TopScope
  <2> QED
    BY <1>4, <1>10, <2>1, PopWhole
<1>18. /\ c \in Generator /\ Emitting(c) /\ Links(a, c, {b3, b2}) /\ Uses(a, c, result)
       /\ c.merges = a.merges /\ c.faults = a.faults /\ c.loop = a.loop
       /\ Len(c.term) = Len(a.term)
  BY <1>5, <1>11, <1>16, <1>17, BranchOn
<1>19. g.term = c.term /\ Quiet(c, g) /\ g.insert = b3 /\ g.last = b3
  BY <1>6, <1>11, <1>18, EnterAt
<1>20. Links(m, g, {b3, b2})
  <2>1. Links(m, c, {b3, b2})
    BY <1>17, <1>18 DEF Links
  <2> QED
    BY <1>19, <2>1, LinksAs
<1>21. /\ Uses(m, g, result) /\ g.merges = m.merges /\ g.faults = m.faults /\ g.loop = m.loop
  BY <1>17, <1>18, <1>19 DEF Uses, Quiet
<1>22. /\ f.node = top.node /\ f.pc = "case" /\ f.blocks = top.blocks
       /\ f.incoming = top.incoming /\ f.case = k /\ KindOf(f) = "switch"
  BY <1>1, <1>8, <1>12 DEF Frame, KindOf
<1>23. Holds(f) = {1, 2} /\ Held(f) = {b1, b2} /\ ~IsLoop(f) /\ ~Abandoned(f) /\ ~Fresher(f)
  <2>1. Holds(f) = {1, 2} /\ ~IsLoop(f) /\ ~Abandoned(f) /\ ~Fresher(f)
    BY <1>22 DEF Holds, HeldAt, IsLoop, Abandoned, Fresher
  <2> QED
    BY <1>3, <1>22, <2>1 DEF Held
<1>24. BranchFed(f, g)
  <2>1. EndBlock(f) = b1 /\ EndBlock(top) = b1
    BY <1>3, <1>8, <1>22 DEF EndBlock, EndPlace
  <2>2. PredsIn(g, b1) = PredsIn(m, b1)
    <3>1. PICK T : T = {b3, b2}
      OBVIOUS
    <3>2. b1 \notin T /\ Links(m, g, T) /\ Emitting(m)
      BY <1>10, <1>11, <1>20, <3>1
    <3> QED
      BY ONLY <3>2, PredsLinked
  <2>3. Gathered(f) = CountedBlocks(top.incoming) /\ Gathered(top) = CountedBlocks(top.incoming)
    BY <1>8, <1>22 DEF Gathered
  <2>4. nodes[f.node] = node /\ nodes[top.node] = node /\ HasBlocks("switch", "cond")
    BY <1>22 DEF node, HasBlocks
  <2>5. Merges(node) => PredsIn(m, b1) = CountedBlocks(top.incoming)
    BY <1>8, <1>10, <2>1, <2>3, <2>4 DEF BranchFed
  <2> QED
    BY <1>8, <2>1, <2>2, <2>3, <2>4, <2>5 DEF BranchFed
<1>25. e = OperandOf(f)
  BY <1>2, <1>12, <1>22 DEF OperandOf, PlaceOf, node
<1>26. Sound(f.incoming, m, AllHeld(frames))
  BY <1>10, <1>22
<1>27. /\ \A t \in {b3, b2} : t \in Held(top)
       /\ \A h \in Held(f) : h \in Held(top)
       /\ \A i, j \in Holds(f) : f.blocks[i] = f.blocks[j] => i = j
       /\ g.insert # 0 /\ g.last = g.insert /\ f.pc # "visit" /\ f.pc # "again" /\ top.pc # "visit"
  BY <1>8, <1>10, <1>11, <1>19, <1>22, <1>23
<1> QED
  BY <1>7, <1>8, <1>9, <1>10, <1>16, <1>20, <1>21, <1>22, <1>23, <1>24, <1>25, <1>26, <1>27,
     BlockMove

(* Blocks may be made after what was inserted into has ended.              *)
LEMMA LinksWithBlocks ==
  ASSUME NEW g, Emitting(g), NEW p, Emitting(p), NEW T, Links(g, p, T),
         NEW k \in Nat, NEW r, r = AppendBlocks(p, k)
  PROVE  Links(g, r, T)
<1>1. /\ Len(g.term) \in Nat /\ Len(p.term) \in Nat /\ Len(g.term) <= Len(p.term)
      /\ g.insert # 0 => g.insert \in 1..Len(g.term)
  BY InsertIs DEF Links
<1>2. /\ Len(r.term) = Len(p.term) + k
      /\ \A b \in 1..Len(p.term) : r.term[b] = p.term[b]
      /\ \A i \in 1..k : r.term[Len(p.term) + i] = Open
  BY AppendBlocksIs
<1>3. \A b \in 1..Len(g.term) : b \in 1..Len(p.term)
  BY <1>1
<1>4. ASSUME NEW b \in (Len(g.term) + 1)..Len(r.term)
      PROVE  r.term[b].to = {}
  <2>1. CASE b \in 1..Len(p.term)
    <3>1. b \in (Len(g.term) + 1)..Len(p.term)
      BY <1>1, <2>1
    <3> QED
      BY <1>2, <2>1, <3>1 DEF Links
  <2>2. CASE b \notin 1..Len(p.term)
    <3>1. b - Len(p.term) \in 1..k /\ Len(p.term) + (b - Len(p.term)) = b
      BY <1>1, <1>2, <2>2
    <3>2. r.term[b] = Open
      BY <1>2, <3>1
    <3> QED
      BY <3>2 DEF Open
  <2> QED
    BY <2>1, <2>2
<1>5. /\ \A b \in 1..Len(g.term) : b # g.insert => r.term[b].to = g.term[b].to
      /\ g.insert # 0 => r.term[g.insert].to = T
  BY <1>1, <1>2, <1>3 DEF Links
<1>6. Len(g.term) <= Len(r.term) /\ Len(r.term) \in Nat
  BY <1>1, <1>2
<1> QED
  BY <1>4, <1>5, <1>6 DEF Links

(* The end of a case: what comes in at the end of the when is complete.    *)
CaseEnded(h, in, b1, b2) ==
  /\ Emitting(h) /\ Links(m, h, {b1}) /\ Quiet(m, h) /\ h.insert = b2 /\ h.last = b2
  /\ Sound(in, m, AllHeld(frames))
  /\ Merges(node) => \A r : Links(m, r, {b1}) => PredsIn(r, b1) = CountedBlocks(in)
  /\ b1 \in Held(top) /\ b1 \in 2..Len(m.term) /\ b2 \in 2..Len(m.term) /\ Len(m.term) \in Nat
  /\ Sound(m.loop.nodes, m, AllHeld(frames))

LEMMA CaseEnds ==
  ASSUME Keeping, At("switch", "case"), NEW in, in = Append(top.incoming, Ended),
         NEW b1, NEW b2, b1 = top.blocks[1], b2 = top.blocks[2],
         NEW h, h = PositionAt(LeaveBranch(m, b1), b2)
  PROVE  CaseEnded(h, in, b1, b2)
<1>1. /\ frames # <<>> /\ KindOf(top) = "switch" /\ node.kind = "switch" /\ top.pc = "case"
      /\ ~IsLoop(top) /\ top \in Frame /\ Depth(top) = 1 /\ TypeInv
      /\ Placed(top, "switch", Len(node.sub), Len(m.term)) /\ Operands("switch", Len(node.sub))
  BY AtIs DEF DepthAt, Keeping
<1>2. /\ Emitting(m) /\ Drawn(m) /\ Len(m.term) \in Nat /\ Shaped(node, nodes, ret_type)
      /\ Sound(m.loop.nodes, m, AllHeld(frames)) /\ BranchFed(top, m)
      /\ \A i \in Held(top) : i \in 2..Len(m.term)
  BY <1>1, TopKept DEF Keeping
<1>3. Held(top) = {b1, b2} /\ b1 \in Held(top) /\ b1 \in Nat /\ b2 \in Nat
      /\ b1 \in 2..Len(m.term) /\ b2 \in 2..Len(m.term)
  <2>1. Holds(top) = {1, 2}
    BY <1>1 DEF Holds, HeldAt
  <2>2. Held(top) = {b1, b2}
    BY <2>1 DEF Held
  <2> QED
    BY <1>2, <2>2
<1>4. PICK x : x = Ended
  OBVIOUS
<1>5. PICK k : k = top.case
  OBVIOUS
<1>6. PICK n : n = Len(node.sub)
  OBVIOUS
<1>7. k \in CasesOf(node)
  <2>1. k \in 1..3 /\ 2 * k + 1 <= n /\ n \in {3, 5}
    BY <1>1, <1>5, <1>6 DEF Placed, Operands
  <2>2. k \in 1..2 /\ 2 * k < n
    BY ONLY <2>1
  <2> QED
    BY <1>6, <2>2 DEF CasesOf
<1>8. PICK d : d = nodes[OperandOf(top)]
  OBVIOUS
<1>9. d = nodes[node.sub[2 * k]]
  BY <1>1, <1>5, <1>8 DEF OperandOf, PlaceOf, node
<1>10. /\ Sound(in, m, AllHeld(frames))
       /\ CountedBlocks(in) = CountedBlocks(top.incoming) \cup IF x.v.ty # "none" THEN {x.b} ELSE {}
       /\ m.insert # 0 => x.b = m.insert
       /\ Fits(d, "value") => (x.v.ty # "none" <=> m.insert # 0)
  <2>1. top.pc # "visit" /\ in = Append(top.incoming, x)
    BY <1>1, <1>4
  <2> QED
    BY <1>1, <1>4, <1>8, <2>1, AddedIs
<1>11. PICK l : l = LeaveBranch(m, b1)
  OBVIOUS
<1>12. l \in Generator /\ Emitting(l) /\ Links(m, l, {b1}) /\ Quiet(m, l) /\ l.insert = 0
  BY <1>1, <1>3, <1>11, LeaveLinks
<1>13. Quiet(l, h) /\ h.term = l.term /\ h.insert = b2 /\ h.last = b2
  BY <1>11, <1>12, PositionQuiet
<1>14. Links(m, h, {b1}) /\ Quiet(m, h)
  BY <1>12, <1>13, LinksAs DEF Quiet
<1>15. Emitting(h)
  <2>1. PICK j : j = 2
    OBVIOUS
  <2>2. j \in Waiting(top) /\ h = PositionAt(LeaveBranch(m, b1), Block(j))
    <3>1. Waiting(top) = {1, 2}
      BY <1>1 DEF Waiting, ToCome
    <3> QED
      BY <2>1, <3>1 DEF Block
  <2> QED
    BY <1>1, <1>3, <2>2, LeaveToIs
<1>16. ASSUME Merges(node), NEW r, Links(m, r, {b1})
       PROVE  PredsIn(r, b1) = CountedBlocks(in)
  <2>1. Fits(d, "value")
    BY <1>1, <1>2, <1>7, <1>9, <1>16 DEF Shaped, Merges
  <2>2. PredsIn(m, b1) = CountedBlocks(top.incoming)
    <3>1. EndBlock(top) = b1 /\ HasBlocks("switch", "case")
      BY <1>1 DEF EndBlock, EndPlace, HasBlocks
    <3>2. Gathered(top) = CountedBlocks(top.incoming)
      BY <1>1 DEF Gathered
    <3>3. nodes[top.node] = node
      BY DEF node
    <3> QED
      BY <1>1, <1>2, <1>16, <3>1, <3>2, <3>3 DEF BranchFed
  <2>3. PredsIn(r, b1) = PredsIn(m, b1) \cup IF m.insert # 0 THEN {m.insert} ELSE {}
    <3>1. PICK T : T = {b1}
      OBVIOUS
    <3>2. PredsIn(r, b1) = PredsIn(m, b1) \cup IF m.insert # 0 /\ b1 \in T THEN {m.insert} ELSE {}
      BY <1>2, <1>16, <3>1, PredsLinked
    <3> QED
      BY <3>1, <3>2
  <2> QED
    BY <1>10, <2>1, <2>2, <2>3
<1> QED
  BY <1>2, <1>3, <1>10, <1>13, <1>14, <1>15, <1>16 DEF CaseEnded

LEMMA CaseFrameIs ==
  ASSUME Keeping, frames # <<>>, NEW pc, NEW f, f = [CaseDone EXCEPT !.pc = pc]
  PROVE  /\ f.node = top.node /\ f.pc = pc /\ f.blocks = top.blocks /\ f.case = top.case + 1
         /\ f.incoming = Append(top.incoming, Ended)
<1>1. top \in Frame
  BY TopKept DEF Keeping
<1>2. PICK c, in : c = top.case + 1 /\ in = Append(top.incoming, Ended)
  OBVIOUS
<1>3. CaseDone = [top EXCEPT !.case = c, !.incoming = in]
  BY <1>2 DEF CaseDone
<1> QED
  BY <1>1, <1>2, <1>3 DEF Frame

LEMMA LastCaseKeeps ==
  ASSUME Keeping, SwitchCase, 2 * top.case + 1 = Len(node.sub)
  PROVE  Stays
<1>1. PICK b1, b2 : b1 = top.blocks[1] /\ b2 = top.blocks[2]
  OBVIOUS
<1>2. PICK h : h = PositionAt(LeaveBranch(m, b1), b2)
  OBVIOUS
<1>3. PICK g : g = PushLocalScope(h)
  OBVIOUS
<1>4. PICK pc : pc = "else"
  OBVIOUS
<1>5. PICK f : f = [CaseDone EXCEPT !.pc = pc]
  OBVIOUS
<1>6. PICK e : e = Last(node.sub)
  OBVIOUS
<1>7. PICK in : in = Append(top.incoming, Ended)
  OBVIOUS
<1>8. At("switch", "case") /\ Evaluate(e, f, g) /\ TypeInv
  BY <1>1, <1>2, <1>3, <1>4, <1>5, <1>6 DEF SwitchCase, Keeping, Block
<1>9. /\ frames # <<>> /\ KindOf(top) = "switch" /\ node.kind = "switch" /\ top.pc = "case"
      /\ ~IsLoop(top) /\ top \in Frame
  BY <1>8, AtIs
<1>10. Goes
  BY <1>8, SwitchCaseStep DEF Keeping
<1>11. CaseEnded(h, in, b1, b2)
  BY <1>1, <1>2, <1>7, <1>8, CaseEnds
<1>12. Emitting(g) /\ g.term = h.term /\ Quiet(h, g) /\ g.insert = h.insert /\ g.last = h.last
  BY <1>3, <1>11, PushWhole DEF CaseEnded
<1>13. Links(m, g, {b1})
  BY <1>11, <1>12, LinksAs DEF CaseEnded
<1>14. /\ g.uses = m.uses /\ g.merges = m.merges /\ g.faults = m.faults /\ g.loop = m.loop
       /\ g.insert = b2 /\ g.last = b2 /\ b2 # 0
  BY <1>11, <1>12 DEF CaseEnded, Quiet
<1>15. /\ f.node = top.node /\ f.pc = "else" /\ f.blocks = top.blocks
       /\ f.incoming = in /\ KindOf(f) = "switch"
  <2>1. /\ f.node = top.node /\ f.pc = pc /\ f.blocks = top.blocks
        /\ f.incoming = Append(top.incoming, Ended)
    BY <1>5, <1>9, CaseFrameIs
  <2>2. KindOf(f) = KindOf(top)
    BY <2>1 DEF KindOf
  <2> QED
    BY <1>4, <1>7, <1>9, <2>1, <2>2
<1>16. Holds(f) = {1} /\ Held(f) = {b1} /\ ~IsLoop(f) /\ ~Abandoned(f) /\ ~Fresher(f)
  <2>1. Holds(f) = {1} /\ ~IsLoop(f) /\ ~Abandoned(f) /\ ~Fresher(f)
    BY <1>15 DEF Holds, HeldAt, IsLoop, Abandoned, Fresher
  <2> QED
    BY <1>1, <1>15, <2>1 DEF Held
<1>17. BranchFed(f, g)
  <2>1. EndBlock(f) = b1 /\ Gathered(f) = CountedBlocks(in)
    BY <1>1, <1>15 DEF EndBlock, EndPlace, Gathered
  <2>2. nodes[f.node] = node
    BY <1>15 DEF node
  <2>3. Merges(node) => PredsIn(g, b1) = CountedBlocks(in)
    BY <1>11, <1>13 DEF CaseEnded
  <2> QED
    BY <1>9, <2>1, <2>2, <2>3 DEF BranchFed
<1>18. e = OperandOf(f)
  BY <1>6, <1>15 DEF OperandOf, PlaceOf, node, Last
<1>19. Sound(f.incoming, m, AllHeld(frames)) /\ Sound(m.loop.nodes, m, AllHeld(frames))
  BY <1>11, <1>15 DEF CaseEnded
<1>20. PICK v : v = NoneConst
  OBVIOUS
<1>21. Uses(m, g, v) /\ ~v.real
  BY <1>14, <1>20 DEF Uses, NoneConst
<1>22. /\ \A t \in {b1} : t \in Held(top)
       /\ \A i \in Held(f) : i \in Held(top)
       /\ \A i, j \in Holds(f) : f.blocks[i] = f.blocks[j] => i = j
       /\ f.pc # "visit" /\ f.pc # "again" /\ top.pc # "visit"
  BY <1>9, <1>11, <1>15, <1>16 DEF CaseEnded
<1> QED
  BY <1>8, <1>9, <1>10, <1>13, <1>14, <1>15, <1>16, <1>17, <1>18, <1>19, <1>21, <1>22, BlockMove

LEMMA NextCaseKeeps ==
  ASSUME Keeping, SwitchCase, 2 * top.case + 1 # Len(node.sub)
  PROVE  Stays
<1>1. PICK b1, b2 : b1 = top.blocks[1] /\ b2 = top.blocks[2]
  OBVIOUS
<1>2. PICK h : h = PositionAt(LeaveBranch(m, b1), b2)
  OBVIOUS
<1>3. PICK a : a = AppendBlocks(h, 2)
  OBVIOUS
<1>4. PICK g : g = PushLocalScope(a)
  OBVIOUS
<1>5. PICK pc : pc = "cond"
  OBVIOUS
<1>6. PICK d : d = [CaseDone EXCEPT !.pc = pc]
  OBVIOUS
<1>7. PICK x, y : x = Fresh(1) /\ y = Fresh(2)
  OBVIOUS
<1>8. PICK f : f = [CaseDone EXCEPT !.pc = "cond", !.blocks = <<@[1], Fresh(1), Fresh(2)>>]
  OBVIOUS
<1>9. PICK e : e = node.sub[2 * top.case + 1]
  OBVIOUS
<1>10. PICK in : in = Append(top.incoming, Ended)
  OBVIOUS
<1>11. At("switch", "case") /\ Evaluate(e, f, g) /\ TypeInv
  BY <1>1, <1>2, <1>3, <1>4, <1>8, <1>9 DEF SwitchCase, Keeping, Block
<1>12. /\ frames # <<>> /\ KindOf(top) = "switch" /\ node.kind = "switch" /\ top.pc = "case"
       /\ ~IsLoop(top) /\ top \in Frame /\ top.case \in Nat
       /\ Placed(top, "switch", Len(node.sub), Len(m.term)) /\ Operands("switch", Len(node.sub))
  BY <1>11, AtIs DEF Frame
<1>13. top.case = 1
  <2>1. PICK k, n : k = top.case /\ n = Len(node.sub)
    OBVIOUS
  <2>2. k \in 1..3 /\ 2 * k + 1 <= n /\ 2 * k + 1 # n /\ n \in {3, 5}
    BY <1>12, <2>1 DEF Placed, Operands
  <2>3. k = 1
    BY ONLY <2>2
  <2> QED
    BY <2>1, <2>3
<1>14. Goes
  BY <1>11, SwitchCaseStep DEF Keeping
<1>15. CaseEnded(h, in, b1, b2)
  BY <1>1, <1>2, <1>10, <1>11, CaseEnds
<1>16. /\ Emitting(a) /\ Links(m, a, {b1}) /\ Quiet(h, a) /\ a.insert = h.insert /\ a.last = h.last
  <2>1. PICK k \in Nat : k = 2
    OBVIOUS
  <2>2. a = AppendBlocks(h, k) /\ Emitting(h)
    BY <1>3, <1>15, <2>1 DEF CaseEnded
  <2>3. Emitting(m)
    BY <1>12, TopKept DEF Keeping
  <2>4. Emitting(a) /\ Quiet(h, a) /\ a.insert = h.insert /\ a.last = h.last
    BY <2>2, AppendWhole
  <2>5. PICK T : T = {b1}
    OBVIOUS
  <2>6. Links(m, h, T)
    BY <1>15, <2>5 DEF CaseEnded
  <2>7. Links(m, a, T)
    BY <2>2, <2>3, <2>6, LinksWithBlocks
  <2> QED
    BY <2>4, <2>5, <2>7
<1>17. Emitting(g) /\ g.term = a.term /\ Quiet(a, g) /\ g.insert = a.insert /\ g.last = a.last
  BY <1>4, <1>16, PushWhole
<1>18. Links(m, g, {b1})
  BY <1>16, <1>17, LinksAs
<1>19. /\ g.uses = m.uses /\ g.merges = m.merges /\ g.faults = m.faults /\ g.loop = m.loop
       /\ g.insert = b2 /\ g.last = b2 /\ b2 # 0
  BY <1>15, <1>16, <1>17 DEF CaseEnded, Quiet
<1>20. /\ x \in Nat /\ y \in Nat /\ x > Len(m.term) /\ y > Len(m.term) /\ x # y
       /\ b1 \in 2..Len(m.term) /\ b1 # x /\ b1 # y
  <2>1. Len(m.term) \in Nat /\ b1 \in 2..Len(m.term)
    BY <1>15 DEF CaseEnded
  <2>2. x \in Nat /\ y \in Nat /\ x > Len(m.term) /\ y > Len(m.term) /\ x # y
    BY <1>7, <2>1, FreshAre
  <2> QED
    BY <2>1, <2>2
<1>21. /\ d.node = top.node /\ d.pc = "cond" /\ d.blocks = top.blocks /\ d.case = 2
       /\ d.incoming = in /\ d \in Frame
  <2>1. pc \in Places
    BY <1>5 DEF Places
  <2>2. d \in Frame
    BY <1>6, <1>11, <1>12, <2>1, CaseDoneIs
  <2>3. 1 + 1 = 2
    OBVIOUS
  <2>4. /\ d.node = top.node /\ d.pc = pc /\ d.blocks = top.blocks /\ d.case = top.case + 1
        /\ d.incoming = Append(top.incoming, Ended)
    BY <1>6, <1>12, CaseFrameIs
  <2> QED
    BY <1>5, <1>10, <1>13, <2>2, <2>3, <2>4
<1>22. PICK bs : bs = <<b1, x, y>>
  OBVIOUS
<1>23. f = [d EXCEPT !.blocks = bs]
  BY <1>1, <1>5, <1>6, <1>7, <1>8, <1>12, <1>21, <1>22 DEF Frame, CaseDone
<1>24. /\ f.node = top.node /\ f.pc = "cond" /\ f.blocks = bs /\ f.case = 2
       /\ f.incoming = in /\ KindOf(f) = "switch"
       /\ bs[1] = b1 /\ bs[2] = x /\ bs[3] = y
  BY <1>12, <1>21, <1>22, <1>23 DEF Frame, KindOf
<1>25. Holds(f) = {1, 2, 3} /\ Held(f) = {b1, x, y} /\ ~IsLoop(f) /\ ~Abandoned(f) /\ ~Fresher(f)
  <2>1. Holds(f) = {1, 2, 3} /\ ~IsLoop(f) /\ ~Abandoned(f) /\ ~Fresher(f)
    BY <1>24 DEF Holds, HeldAt, IsLoop, Abandoned, Fresher
  <2> QED
    BY <1>24, <2>1 DEF Held
<1>26. BranchFed(f, g)
  <2>1. EndBlock(f) = b1 /\ Gathered(f) = CountedBlocks(in)
    BY <1>24 DEF EndBlock, EndPlace, Gathered
  <2>2. nodes[f.node] = node
    BY <1>24 DEF node
  <2>3. Merges(node) => PredsIn(g, b1) = CountedBlocks(in)
    BY <1>15, <1>18 DEF CaseEnded
  <2> QED
    BY <1>12, <2>1, <2>2, <2>3 DEF BranchFed
<1>27. e = OperandOf(f)
  <2>1. 2 * 1 + 1 = 2 * 2 - 1
    OBVIOUS
  <2> QED
    BY <1>9, <1>13, <1>24, <2>1 DEF OperandOf, PlaceOf, node
<1>28. Sound(f.incoming, m, AllHeld(frames)) /\ Sound(m.loop.nodes, m, AllHeld(frames))
  BY <1>15, <1>24 DEF CaseEnded
<1>29. PICK v : v = NoneConst
  OBVIOUS
<1>30. Uses(m, g, v) /\ ~v.real
  BY <1>19, <1>29 DEF Uses, NoneConst
<1>31. /\ \A t \in {b1} : t \in Held(top)
       /\ \A i \in Held(f) : i \in Held(top) \/ (i \in Nat /\ i > Len(m.term))
       /\ \A i, j \in Holds(f) : f.blocks[i] = f.blocks[j] => i = j
       /\ f.pc # "visit" /\ f.pc # "again" /\ top.pc # "visit"
  BY <1>12, <1>15, <1>20, <1>24, <1>25 DEF CaseEnded
<1> QED
  BY <1>11, <1>12, <1>14, <1>18, <1>19, <1>24, <1>25, <1>26, <1>27, <1>28, <1>30, <1>31, BlockMove

LEMMA SwitchCaseKeeps == ASSUME Keeping, SwitchCase PROVE Stays
BY LastCaseKeeps, NextCaseKeeps

-----------------------------------------------------------------------------
(* The steps of a loop, but for its end.                                   *)

LEMMA EnterLoopKeeps == ASSUME Keeping, EnterLoop PROVE Stays
<1>1. PICK f : f = [top EXCEPT !.pc = "cond", !.outer = m.loop, !.blocks = FreshBlocks]
  OBVIOUS
<1>2. PICK e : e = node.sub[1]
  OBVIOUS
<1>3. PICK a : a = AppendBlocks(m, 3)
  OBVIOUS
<1>4. PICK f1, f2, f3 : f1 = Fresh(1) /\ f2 = Fresh(2) /\ f3 = Fresh(3)
  OBVIOUS
<1>5. PICK l : l = [end |-> f3, phi |-> node.phi, nodes |-> <<>>]
  OBVIOUS
<1>6. PICK g : g = [a EXCEPT !.loop = l]
  OBVIOUS
<1>7. At("loop", "visit") /\ m.insert # 0 /\ Evaluate(e, f, g) /\ TypeInv
  BY <1>1, <1>2, <1>3, <1>4, <1>5, <1>6 DEF EnterLoop, Visiting, Keeping
<1>8. /\ frames # <<>> /\ KindOf(top) = "loop" /\ node.kind = "loop" /\ top.pc = "visit"
      /\ ~IsLoop(top) /\ top \in Frame
  BY <1>7, AtIs
<1>9. Goes
  BY <1>7, EnterLoopStep DEF Keeping
<1>10. /\ Emitting(m) /\ Drawn(m) /\ Len(m.term) \in Nat
       /\ (Fresher(top) => top.incoming = <<>>)
  BY <1>8, TopKept DEF Keeping
<1>11. top.incoming = <<>>
  BY <1>8, <1>10 DEF Fresher
<1>12. /\ FreshBlocks[1] = f1 /\ FreshBlocks[2] = f2 /\ FreshBlocks[3] = f3
       /\ f1 \in Nat /\ f2 \in Nat /\ f3 \in Nat
       /\ f1 > Len(m.term) /\ f2 > Len(m.term) /\ f3 > Len(m.term)
       /\ f1 # f2 /\ f1 # f3 /\ f2 # f3
  BY <1>4, <1>10, FreshAre
<1>13. /\ Emitting(a) /\ Links(m, a, {}) /\ Quiet(m, a) /\ a.insert = m.insert /\ a.last = m.last
  <2>1. 3 \in Nat
    OBVIOUS
  <2> QED
    BY <1>3, <1>10, <2>1, AppendWhole
<1>14. /\ g.term = a.term /\ g.insert = a.insert /\ g.last = a.last /\ g.uses = a.uses
       /\ g.merges = a.merges /\ g.faults = a.faults /\ g.loop = l
  BY <1>6, <1>13 DEF Emitting, Generator
<1>15. Links(m, g, {})
  BY <1>13, <1>14, LinksAs
<1>16. /\ g.uses = m.uses /\ g.merges = m.merges /\ g.faults = m.faults /\ g.loop = l
       /\ g.insert = m.insert /\ g.last = m.last
  BY <1>13, <1>14 DEF Quiet
<1>17. /\ f.node = top.node /\ f.pc = "cond" /\ f.blocks = FreshBlocks
       /\ f.incoming = <<>> /\ f.outer = m.loop /\ KindOf(f) = "loop"
  BY <1>1, <1>8, <1>11 DEF Frame, KindOf
<1>18. Holds(f) = {1, 2, 3} /\ Held(f) = {f1, f2, f3} /\ IsLoop(f) /\ ~Abandoned(f)
  <2>1. Holds(f) = {1, 2, 3} /\ IsLoop(f) /\ ~Abandoned(f)
    BY <1>17 DEF Holds, HeldAt, IsLoop, KindOf, Abandoned
  <2> QED
    BY <1>12, <1>17, <2>1 DEF Held
<1>19. l.end = f3 /\ l.phi = node.phi /\ l.nodes = <<>>
  BY <1>5
<1>20. LoopFed(f, g, g.loop)
  <2>1. PredsIn(g, f3) = {}
    BY <1>7, <1>8, <1>10, <1>12, <1>15, FreshPreds
  <2>2. f.blocks[3] = f3 /\ nodes[f.node] = node
    BY <1>12, <1>17 DEF node
  <2>3. Gathered(f) = {} /\ CountedBlocks(<<>>) = {} /\ Counted(<<>>) = {}
    BY <1>17, SoundNone DEF Gathered
  <2> QED
    BY <1>16, <1>17, <1>19, <2>1, <2>2, <2>3 DEF LoopFed
<1>21. e = OperandOf(f)
  BY <1>2, <1>17 DEF OperandOf, PlaceOf, node
<1>22. Sound(f.incoming, m, AllHeld(frames)) /\ Sound(g.loop.nodes, m, AllHeld(frames))
  BY <1>16, <1>17, <1>19, SoundNone
<1>23. PICK v : v = NoneConst
  OBVIOUS
<1>24. Uses(m, g, v) /\ ~v.real
  BY <1>16, <1>23 DEF Uses, NoneConst
<1>25. /\ \A h \in Held(f) : h \in Nat /\ h > Len(m.term)
       /\ \A i, j \in Holds(f) : f.blocks[i] = f.blocks[j] => i = j
       /\ g.insert # 0 /\ g.last = g.insert /\ f.pc # "visit" /\ f.pc # "again"
  BY <1>7, <1>10, <1>12, <1>16, <1>17, <1>18 DEF Drawn
<1>26. \A t \in {} : t \in Held(top)
  OBVIOUS
<1> QED
  BY <1>7, <1>8, <1>9, <1>15, <1>16, <1>17, <1>18, <1>20, <1>21, <1>22, <1>24, <1>25,
     <1>26, BlockMove

(* The condition of a loop has a value.                                    *)
LEMMA ConditionReach ==
  ASSUME Keeping, NEW pc \in {"cond", "again"}, At("loop", pc)
  PROVE  /\ result.real /\ m.insert # 0 => Reach(result.def, m.insert, m, AllHeld(frames))
         /\ result \in Value
         /\ m.insert = 0 \/ ~result.real => DeadCode
<1>1. /\ frames # <<>> /\ KindOf(top) = "loop" /\ node.kind = "loop" /\ top.pc = pc
      /\ top.pc # "visit"
  <2>1. TypeInv
    BY DEF Keeping
  <2> QED
    BY <2>1, AtIs
<1>2. Shaped(node, nodes, ret_type)
  BY <1>1, TopKept DEF Keeping
<1>3. OperandOf(top) = CallExpr
  <2>1. OperandOf(top) = node.sub[1]
    BY <1>1 DEF OperandOf, PlaceOf, node
  <2> QED
    BY <1>1, <1>2, <2>1 DEF Shaped
<1>4. PICK e : e = nodes[OperandOf(top)]
  OBVIOUS
<1>5. Shaped(e, nodes, ret_type)
  BY <1>1, <1>4, OperandKept DEF Keeping
<1>6. e.kind = "call"
  BY <1>3, <1>4 DEF Keeping, NodesInv
<1>7. e.ty = "value"
  BY <1>5, <1>6 DEF Shaped
<1> QED
  BY <1>1, <1>4, <1>7, ComputedReach

LEMMA LoopConditionKeeps == ASSUME Keeping, LoopCondition PROVE Stays
<1>1. PICK f : f = [top EXCEPT !.pc = "body"]
  OBVIOUS
<1>2. PICK e : e = node.sub[2]
  OBVIOUS
<1>3. PICK b1, b2, b3 : b1 = top.blocks[1] /\ b2 = top.blocks[2] /\ b3 = top.blocks[3]
  OBVIOUS
<1>4. PICK c : c = ConditionalBranch(m, result, b1, b2)
  OBVIOUS
<1>5. PICK g : g = PushLocalScope(PositionAt(c, b1))
  OBVIOUS
<1>6. At("loop", "cond") /\ Evaluate(e, f, g) /\ TypeInv
  BY <1>1, <1>2, <1>3, <1>4, <1>5 DEF LoopCondition, Keeping, Block
<1>7. /\ frames # <<>> /\ KindOf(top) = "loop" /\ node.kind = "loop" /\ top.pc = "cond"
      /\ IsLoop(top) /\ top \in Frame
  BY <1>6, AtIs
<1>8. Goes
  BY <1>6, LoopConditionStep DEF Keeping
<1>9. /\ Emitting(m) /\ Drawn(m) /\ Len(m.term) \in Nat
      /\ Sound(m.loop.nodes, m, AllHeld(frames)) /\ LoopFed(top, m, m.loop)
      /\ \A h \in Held(top) : h \in 2..Len(m.term)
      /\ \A i, j \in Holds(top) : top.blocks[i] = top.blocks[j] => i = j
      /\ (Fresher(top) => top.incoming = <<>>)
  BY <1>7, TopKept DEF Keeping
<1>10. Holds(top) = {1, 2, 3} /\ Held(top) = {b1, b2, b3} /\ b3 # b1 /\ b3 # b2
       /\ b1 \in 2..Len(m.term) /\ b2 \in 2..Len(m.term) /\ b1 \in Nat /\ b2 \in Nat
  <2>1. Holds(top) = {1, 2, 3}
    BY <1>7 DEF Holds, HeldAt
  <2>2. Held(top) = {b1, b2, b3}
    BY <1>3, <2>1 DEF Held
  <2> QED
    BY <1>3, <1>9, <2>1, <2>2
<1>11. /\ result.real /\ m.insert # 0 => Reach(result.def, m.insert, m, AllHeld(frames))
       /\ result \in Value
  <2>1. PICK pc \in {"cond", "again"} : pc = "cond"
    OBVIOUS
  <2>2. At("loop", pc)
    BY <1>6, <2>1
  <2> QED
    BY <2>2, ConditionReach
<1>12. /\ c \in Generator /\ Emitting(c) /\ Links(m, c, {b1, b2}) /\ Uses(m, c, result)
       /\ c.merges = m.merges /\ c.faults = m.faults /\ c.loop = m.loop
       /\ Len(c.term) = Len(m.term)
  <2>1. /\ Emitting(m) /\ result \in Value /\ b1 \in Nat /\ b2 \in Nat
        /\ c = ConditionalBranch(m, result, b1, b2)
    BY <1>4, <1>9, <1>10, <1>11
  <2> QED
    BY ONLY <2>1, BranchOn
<1>13. g.term = c.term /\ Quiet(c, g) /\ g.insert = b1 /\ g.last = b1
  BY <1>5, <1>10, <1>12, EnterAt
<1>14. Links(m, g, {b1, b2})
  BY <1>12, <1>13, LinksAs
<1>15. /\ Uses(m, g, result) /\ g.merges = m.merges /\ g.faults = m.faults /\ g.loop = m.loop
  BY <1>12, <1>13 DEF Uses, Quiet
<1>16. /\ f.node = top.node /\ f.pc = "body" /\ f.blocks = top.blocks /\ f.outer = top.outer
       /\ f.incoming = <<>> /\ top.incoming = <<>> /\ KindOf(f) = "loop"
  BY <1>1, <1>7, <1>9 DEF Frame, KindOf, Fresher
<1>17. Holds(f) = {1, 2, 3} /\ Held(f) = {b1, b2, b3} /\ IsLoop(f) /\ ~Abandoned(f)
  <2>1. Holds(f) = {1, 2, 3} /\ IsLoop(f) /\ ~Abandoned(f)
    BY <1>16 DEF Holds, HeldAt, IsLoop, KindOf, Abandoned
  <2> QED
    BY <1>3, <1>16, <2>1 DEF Held
<1>18. LoopFed(f, g, g.loop)
  <2>1. PICK T : T = {b1, b2}
    OBVIOUS
  <2>2. b3 \notin T /\ Links(m, g, T) /\ Emitting(m)
    BY <1>9, <1>10, <1>14, <2>1
  <2>3. PredsIn(g, b3) = PredsIn(m, b3)
    BY ONLY <2>2, PredsLinked
  <2>4. Gathered(f) = {} /\ Gathered(top) = {}
    BY <1>7, <1>16, SoundNone DEF Gathered
  <2>5. nodes[f.node] = nodes[top.node] /\ f.blocks[3] = b3 /\ top.blocks[3] = b3
    BY <1>3, <1>16
  <2> QED
    BY <1>9, <1>15, <1>16, <2>3, <2>4, <2>5 DEF LoopFed
<1>19. e = OperandOf(f)
  BY <1>2, <1>16 DEF OperandOf, PlaceOf, node
<1>20. Sound(f.incoming, m, AllHeld(frames)) /\ Sound(g.loop.nodes, m, AllHeld(frames))
  BY <1>9, <1>15, <1>16, SoundNone
<1>21. /\ \A t \in {b1, b2} : t \in Held(top)
       /\ \A h \in Held(f) : h \in Held(top)
       /\ \A i, j \in Holds(f) : f.blocks[i] = f.blocks[j] => i = j
       /\ g.insert # 0 /\ g.last = g.insert /\ f.pc # "visit" /\ f.pc # "again" /\ top.pc # "visit"
  BY <1>7, <1>9, <1>10, <1>13, <1>16, <1>17
<1> QED
  BY <1>6, <1>7, <1>8, <1>11, <1>14, <1>15, <1>16, <1>17, <1>18, <1>19, <1>20, <1>21, BlockMove

(* The else branch of a loop is entered from the end of its body.          *)
LEMMA ElseEnters ==
  ASSUME Keeping, NEW pc \in {"body", "again"}, At("loop", pc), Goes,
         NEW f \in Frame, f.node = top.node, f.blocks = top.blocks, f.outer = top.outer,
         Sound(f.incoming, m, AllHeld(frames)),
         NEW l \in Generator, NEW T, Links(m, l, T), \A t \in T : t \in Held(top),
         NEW v, Uses(m, l, v),
         v.real /\ m.insert # 0 => Reach(v.def, m.insert, m, AllHeld(frames)),
         l.merges = m.merges, l.faults = m.faults, l.loop = m.loop,
         Merges(node) => PredsIn(l, top.blocks[3])
                           = CountedBlocks(m.loop.nodes) \cup CountedBlocks(f.incoming),
         node.phi /\ ~Merges(node) => Counted(f.incoming) = {},
         LoopElse(f, l)
  PROVE  Stays
<1>1. PICK k : k = "else"
  OBVIOUS
<1>2. PICK d : d = [f EXCEPT !.pc = k]
  OBVIOUS
<1>3. PICK e : e = node.sub[3]
  OBVIOUS
<1>4. PICK b2, b3 : b2 = top.blocks[2] /\ b3 = top.blocks[3]
  OBVIOUS
<1>5. PICK g : g = PushLocalScope(PositionAt(l, b2))
  OBVIOUS
<1>6. Evaluate(e, d, g)
  BY <1>1, <1>2, <1>3, <1>4, <1>5 DEF LoopElse, Block
<1>7. /\ frames # <<>> /\ KindOf(top) = "loop" /\ node.kind = "loop" /\ top.pc = pc
      /\ IsLoop(top) /\ top \in Frame
  <2>1. TypeInv
    BY DEF Keeping
  <2> QED
    BY <2>1, AtIs
<1>8. /\ Len(m.term) \in Nat
      /\ Sound(m.loop.nodes, m, AllHeld(frames)) /\ LoopFed(top, m, m.loop)
      /\ \A h \in Held(top) : h \in 2..Len(m.term)
      /\ \A i, j \in Holds(top) : top.blocks[i] = top.blocks[j] => i = j
  BY <1>7, TopKept DEF Keeping
<1>9. Holds(top) = {1, 2, 3} /\ b2 \in Held(top) /\ b3 \in Held(top) /\ b2 \in 2..Len(m.term)
      /\ b2 \in Nat
  <2>1. Holds(top) = {1, 2, 3}
    BY <1>7 DEF Holds, HeldAt
  <2>2. b2 \in Held(top) /\ b3 \in Held(top)
    BY <1>4, <2>1 DEF Held
  <2>3. b2 \in 2..Len(m.term)
    BY <1>8, <2>2
  <2> QED
    BY <1>8, <2>1, <2>2, <2>3
<1>10. g.term = l.term /\ Quiet(l, g) /\ g.insert = b2 /\ g.last = b2
  BY <1>5, <1>9, EnterAt
<1>11. Links(m, g, T)
  BY <1>10, LinksAs
<1>12. Uses(m, g, v) /\ g.merges = m.merges /\ g.faults = m.faults /\ g.loop = m.loop
  BY <1>10 DEF Uses, Quiet
<1>13. /\ d.node = top.node /\ d.pc = "else" /\ d.blocks = top.blocks /\ d.outer = top.outer
       /\ d.incoming = f.incoming /\ KindOf(d) = "loop"
  BY <1>1, <1>2, <1>7 DEF Frame, KindOf
<1>14. Holds(d) = {3} /\ Held(d) = {b3} /\ IsLoop(d) /\ ~Abandoned(d) /\ ~Fresher(d)
  <2>1. Holds(d) = {3} /\ IsLoop(d) /\ ~Abandoned(d) /\ ~Fresher(d)
    BY <1>13 DEF Holds, HeldAt, IsLoop, KindOf, Abandoned, Fresher
  <2> QED
    BY <1>4, <1>13, <2>1 DEF Held
<1>15. LoopFed(d, g, g.loop)
  <2>1. PredsIn(g, b3) = PredsIn(l, b3)
    BY <1>10 DEF PredsIn
  <2>2. Gathered(d) = CountedBlocks(f.incoming) /\ d.blocks[3] = b3 /\ top.blocks[3] = b3
    BY <1>4, <1>13 DEF Gathered
  <2>3. nodes[d.node] = node /\ nodes[top.node] = node
    BY <1>13 DEF node
  <2> QED
    BY <1>8, <1>12, <1>13, <2>1, <2>2, <2>3 DEF LoopFed
<1>16. e = OperandOf(d)
  BY <1>3, <1>13 DEF OperandOf, PlaceOf, node
<1>17. Sound(d.incoming, m, AllHeld(frames)) /\ Sound(g.loop.nodes, m, AllHeld(frames))
  BY <1>8, <1>12, <1>13
<1>18. /\ \A h \in Held(d) : h \in Held(top)
       /\ \A i, j \in Holds(d) : d.blocks[i] = d.blocks[j] => i = j
       /\ g.insert # 0 /\ g.last = g.insert /\ d.pc # "visit" /\ d.pc # "again" /\ top.pc # "visit"
  BY <1>7, <1>9, <1>10, <1>13, <1>14
<1> QED
  BY <1>6, <1>7, <1>11, <1>12, <1>13, <1>14, <1>15, <1>16, <1>17, <1>18, BlockMove

(* What is stored for the loop's value is there, and of its type.          *)
LEMMA StoreKeeps ==
  ASSUME Keeping, At("loop", "body"), m.insert # 0, NEW s, s = StoreResult(m, result)
  PROVE  /\ s \in Generator /\ Emitting(s) /\ s.term = m.term /\ s.insert = m.insert
         /\ s.last = m.last /\ s.merges = m.merges /\ s.loop = m.loop /\ s.locals = m.locals
         /\ ~DeadCode => s.faults = m.faults
         /\ \E v : /\ Uses(m, s, v)
                   /\ v.real => Reach(v.def, m.insert, m, AllHeld(frames))
<1>1. /\ frames # <<>> /\ KindOf(top) = "loop" /\ node.kind = "loop" /\ top.pc = "body"
      /\ node \in Node
  <2>1. TypeInv
    BY DEF Keeping
  <2> QED
    BY <2>1, AtIs
<1>2. Emitting(m) /\ Shaped(node, nodes, ret_type) /\ m \in Generator /\ result \in Value
  BY <1>1, TopKept DEF Keeping, TypeInv, Emitting
<1>3. Records(m, s)
  BY <1>2, StoreResultIs
<1>4. /\ s \in Generator /\ Emitting(s) /\ s.term = m.term /\ s.insert = m.insert
      /\ s.loop = m.loop /\ s.locals = m.locals
  BY <1>2, <1>3 DEF Records, Alike, Emitting
<1>5. PICK z : z = NoneConst
  OBVIOUS
<1>6. CASE ~node.phi
  <2>1. s = m
    BY <1>6 DEF StoreResult
  <2>2. Uses(m, s, z) /\ ~z.real
    BY <1>5, <2>1 DEF Uses, NoneConst
  <2> QED
    BY <1>4, <2>1, <2>2
<1>7. CASE node.phi
  <2>1. PICK wrong : wrong = (result.real # (node.ty = "value"))
    OBVIOUS
  <2>2. PICK h : h = [m EXCEPT !.faults = @ \cup Flag("store", wrong)]
    OBVIOUS
  <2>3. s = Use(h, result)
    BY <1>7, <2>1, <2>2 DEF StoreResult
  <2>4. /\ h.term = m.term /\ h.insert = m.insert /\ h.last = m.last /\ h.uses = m.uses
        /\ h.merges = m.merges /\ h.loop = m.loop /\ h.faults = m.faults \cup Flag("store", wrong)
        /\ h \in Generator
    BY <1>2, <2>2 DEF Generator, Flag
  <2>5. /\ s.last = h.last /\ s.merges = h.merges /\ s.faults = h.faults /\ Uses(h, s, result)
    BY <2>3, <2>4, UseUses
  <2>6. Uses(m, s, result)
    BY <2>4, <2>5 DEF Uses
  <2>7. PICK d : d = nodes[OperandOf(top)]
    OBVIOUS
  <2>8. d = nodes[node.sub[2]]
    BY <1>1, <2>7 DEF OperandOf, PlaceOf, node
  <2>9. Fits(d, node.ty) /\ node.ty \in {"none", "value"}
    BY <1>1, <1>2, <1>7, <2>8 DEF Shaped, Node, Types
  <2>10. Delivers(d, result, m, AllHeld(frames)) /\ Shaped(d, nodes, ret_type)
    BY <1>1, <2>7, OperandKept DEF Keeping
  <2>11. CASE node.ty = "value"
    <3>1. d.gives
      BY <2>9, <2>10, <2>11 DEF Fits, Delivers, Shaped
    <3>2. result.ty = "value" /\ SoundAt(result, m.insert, m, AllHeld(frames))
      BY <2>10, <3>1 DEF Delivers
    <3>3. /\ result.real \/ DeadCode
          /\ result.real => Reach(result.def, m.insert, m, AllHeld(frames))
      BY <3>2 DEF SoundAt
    <3>4. ~DeadCode => ~wrong
      BY <2>1, <2>11, <3>3
    <3> QED
      BY <1>4, <2>4, <2>5, <2>6, <3>3, <3>4 DEF Flag
  <2>12. CASE node.ty = "none"
    <3>1. result = NoneConst
      BY <2>9, <2>10, <2>12 DEF Fits, Delivers
    <3>2. ~result.real /\ ~wrong
      BY <2>1, <2>12, <3>1 DEF NoneConst
    <3> QED
      BY <1>4, <2>4, <2>5, <2>6, <3>2 DEF Flag
  <2> QED
    BY <2>9, <2>11, <2>12
<1> QED
  BY <1>6, <1>7

LEMMA BodyLeavesKeeps ==
  ASSUME Keeping, LoopBody, m.insert = 0
  PROVE  Stays
<1>1. PICK pc \in {"body", "again"} : pc = "body"
  OBVIOUS
<1>2. At("loop", pc) /\ TypeInv /\ Goes
  BY <1>1, LoopBodyStep DEF LoopBody, Keeping
<1>3. /\ frames # <<>> /\ KindOf(top) = "loop" /\ node.kind = "loop" /\ top.pc = "body"
      /\ top \in Frame /\ IsLoop(top)
  BY <1>1, <1>2, AtIs
<1>4. /\ Emitting(m) /\ LoopFed(top, m, m.loop) /\ m \in Generator
      /\ Sound(top.incoming, m, AllHeld(frames)) /\ (Fresher(top) => top.incoming = <<>>)
  BY <1>3, TopKept DEF Keeping, Emitting
<1>5. PICK u : u = m.unclosed + 1
  OBVIOUS
<1>6. PICK l : l = [m EXCEPT !.unclosed = u]
  OBVIOUS
<1>7. PICK f : f = top
  OBVIOUS
<1>8. LoopElse(f, l)
  BY <1>5, <1>6, <1>7 DEF LoopBody
<1>9. u \in Nat
  BY <1>3, <1>2, <1>5, TopScope
<1>10. /\ l \in Generator /\ l.term = m.term /\ l.uses = m.uses /\ l.merges = m.merges
       /\ l.faults = m.faults /\ l.loop = m.loop
  BY <1>4, <1>6, <1>9 DEF Generator
<1>11. PICK v, T : v = NoneConst /\ T = {}
  OBVIOUS
<1>12. Links(m, l, T) /\ Uses(m, l, v) /\ ~v.real /\ \A t \in T : t \in Held(top)
  BY <1>4, <1>10, <1>11, LinksSame DEF Uses, NoneConst
<1>13. top.incoming = <<>>
  BY <1>3, <1>4 DEF Fresher
<1>14. CountedBlocks(top.incoming) = {} /\ Counted(top.incoming) = {} /\ Gathered(top) = {}
  BY <1>3, <1>13, SoundNone DEF Gathered
<1>15. Merges(node) => PredsIn(l, top.blocks[3])
                         = CountedBlocks(m.loop.nodes) \cup CountedBlocks(f.incoming)
  <2>1. PredsIn(l, top.blocks[3]) = PredsIn(m, top.blocks[3]) /\ nodes[top.node] = node
    BY <1>10 DEF PredsIn, node
  <2> QED
    BY <1>4, <1>7, <1>14, <2>1 DEF LoopFed
<1>16. /\ f \in Frame /\ f.node = top.node /\ f.blocks = top.blocks /\ f.outer = top.outer
       /\ Sound(f.incoming, m, AllHeld(frames)) /\ Counted(f.incoming) = {}
  BY <1>3, <1>4, <1>7, <1>14
<1> QED
  BY <1>2, <1>8, <1>10, <1>12, <1>15, <1>16, ElseEnters

LEMMA BodyEndsKeeps ==
  ASSUME Keeping, LoopBody, m.insert # 0
  PROVE  Stays
<1>1. At("loop", "body") /\ TypeInv /\ Goes
  BY LoopBodyStep DEF LoopBody, Keeping
<1>2. /\ frames # <<>> /\ KindOf(top) = "loop" /\ node.kind = "loop" /\ top.pc = "body"
      /\ IsLoop(top) /\ top \in Frame /\ Depth(top) = 1
  BY <1>1, AtIs DEF DepthAt
<1>3. PICK x : x = Ended
  OBVIOUS
<1>4. PICK f : f = [top EXCEPT !.pc = "again", !.incoming = <<x>>]
  OBVIOUS
<1>5. PICK s : s = StoreResult(m, result)
  OBVIOUS
<1>6. PICK g : g = PopLocals(s)
  OBVIOUS
<1>7. PICK e : e = node.sub[1]
  OBVIOUS
<1>8. Evaluate(e, f, g)
  BY <1>3, <1>4, <1>5, <1>6, <1>7 DEF LoopBody
<1>9. /\ Emitting(m) /\ Drawn(m) /\ LoopFed(top, m, m.loop)
      /\ Sound(m.loop.nodes, m, AllHeld(frames))
      /\ \A i, j \in Holds(top) : top.blocks[i] = top.blocks[j] => i = j
      /\ (Fresher(top) => top.incoming = <<>>)
  BY <1>2, TopKept DEF Keeping
<1>10. PICK d : d = nodes[OperandOf(top)]
  OBVIOUS
<1>11. /\ x \in Incoming /\ SoundAt(x.v, x.b, m, AllHeld(frames)) /\ x.b = m.insert
  <2>1. top.pc # "visit"
    BY <1>2
  <2> QED
    BY <1>2, <1>3, <1>10, <2>1, EndedKept
<1>12. Sound(<<x>>, m, AllHeld(frames)) /\ <<x>>[1] = x
  BY <1>11, SoundOne
<1>13. /\ s \in Generator /\ Emitting(s) /\ s.term = m.term /\ s.insert = m.insert
       /\ s.last = m.last /\ s.merges = m.merges /\ s.loop = m.loop /\ s.locals = m.locals
       /\ ~DeadCode => s.faults = m.faults
       /\ \E v : /\ Uses(m, s, v)
                 /\ v.real => Reach(v.def, m.insert, m, AllHeld(frames))
  BY <1>1, <1>5, StoreKeeps
<1>14. PICK v : /\ Uses(m, s, v)
                /\ v.real => Reach(v.def, m.insert, m, AllHeld(frames))
  BY <1>13
<1>15. g.term = s.term /\ Quiet(s, g) /\ g.insert = s.insert /\ g.last = s.last
  BY <1>6, <1>13, PopQuiet
<1>16. /\ Uses(m, g, v) /\ g.merges = m.merges /\ g.loop = m.loop /\ (~DeadCode => g.faults = m.faults)
       /\ g.insert = m.insert /\ g.last = m.last /\ g.term = m.term
  BY <1>13, <1>14, <1>15 DEF Uses, Quiet
<1>17. PICK T : T = {}
  OBVIOUS
<1>18. Links(m, g, T) /\ \A t \in T : t \in Held(top)
  BY <1>9, <1>16, <1>17, LinksSame
<1>19. /\ f.node = top.node /\ f.pc = "again" /\ f.blocks = top.blocks /\ f.outer = top.outer
       /\ f.incoming = <<x>> /\ KindOf(f) = "loop"
  BY <1>2, <1>4 DEF Frame, KindOf
<1>20. top.incoming = <<>>
  BY <1>2, <1>9 DEF Fresher
<1>21. Holds(f) = {1, 2, 3} /\ Holds(top) = {1, 2, 3} /\ Held(f) = Held(top)
       /\ IsLoop(f) /\ ~Abandoned(f) /\ ~Fresher(f)
  <2>1. Holds(f) = {1, 2, 3} /\ Holds(top) = {1, 2, 3} /\ IsLoop(f) /\ ~Abandoned(f) /\ ~Fresher(f)
    BY <1>2, <1>19 DEF Holds, HeldAt, IsLoop, KindOf, Abandoned, Fresher
  <2> QED
    BY <1>19, <2>1 DEF Held
<1>22. LoopFed(f, g, g.loop)
  <2>1. PredsIn(g, top.blocks[3]) = PredsIn(m, top.blocks[3])
    BY <1>16 DEF PredsIn
  <2>2. Gathered(f) = {} /\ Gathered(top) = {}
    BY <1>2, <1>19, <1>20, SoundNone DEF Gathered
  <2>3. nodes[f.node] = nodes[top.node]
    BY <1>19
  <2> QED
    BY <1>9, <1>16, <1>19, <2>1, <2>2, <2>3 DEF LoopFed
<1>23. e = OperandOf(f)
  BY <1>7, <1>19 DEF OperandOf, PlaceOf, node
<1>24. Sound(f.incoming, m, AllHeld(frames)) /\ Sound(g.loop.nodes, m, AllHeld(frames))
  BY <1>9, <1>12, <1>16, <1>19
<1>25. g.insert = f.incoming[1].b
  BY <1>11, <1>12, <1>16, <1>19
<1>26. /\ \A h \in Held(f) : h \in Held(top)
       /\ \A i, j \in Holds(f) : f.blocks[i] = f.blocks[j] => i = j
       /\ g.insert # 0 /\ g.last = g.insert /\ f.pc # "visit" /\ top.pc # "visit"
  BY <1>2, <1>9, <1>16, <1>19, <1>21 DEF Drawn
<1> QED
  BY <1>1, <1>2, <1>8, <1>14, <1>16, <1>18, <1>19, <1>21, <1>22, <1>23, <1>24, <1>25, <1>26, BlockMove

LEMMA LoopBodyKeeps == ASSUME Keeping, LoopBody PROVE Stays
BY BodyLeavesKeeps, BodyEndsKeeps

(* The value that is loaded at the end of the second condition.            *)
LEMMA ReloadedIs ==
  ASSUME NEW i \in Incoming, NEW r, r = Reloaded(i), node.ty \in {"none", "value"}
  PROVE  /\ r.b = i.b /\ r.v.real /\ r.v.def = m.insert
         /\ r.v.ty = IF node.ty = "value" THEN "value" ELSE "none"
<1>1. PICK v : v = [i.v EXCEPT !.real = TRUE, !.def = m.insert]
  OBVIOUS
<1>2. PICK w : w = From(v, node.ty)
  OBVIOUS
<1>3. r = [i EXCEPT !.v = w]
  BY <1>1, <1>2 DEF Reloaded
<1>4. i.v \in Value
  BY DEF Incoming
<1>5. v.real /\ v.def = m.insert
  BY <1>1, <1>4 DEF Value
<1>6. w.real /\ w.def = m.insert /\ w.ty = IF node.ty = "value" THEN "value" ELSE "none"
  BY <1>1, <1>2, <1>4, <1>5 DEF From, Value
<1>7. r.b = i.b /\ r.v = w
  BY <1>3 DEF Incoming
<1> QED
  BY <1>6, <1>7

LEMMA LoopAgainKeeps == ASSUME Keeping, LoopAgain PROVE Stays
<1>1. PICK pc \in {"body", "again"} : pc = "again"
  OBVIOUS
<1>2. At("loop", pc) /\ At("loop", "again") /\ TypeInv /\ Goes
  BY <1>1, LoopAgainStep DEF LoopAgain, Keeping
<1>3. /\ frames # <<>> /\ KindOf(top) = "loop" /\ node.kind = "loop" /\ top.pc = "again"
      /\ top \in Frame /\ node \in Node /\ Placed(top, "loop", Len(node.sub), Len(m.term))
      /\ IsLoop(top)
  BY <1>2, AtIs
<1>4. PICK b1, b3 : b1 = top.blocks[1] /\ b3 = top.blocks[3]
  OBVIOUS
<1>5. PICK i : i = top.incoming[1]
  OBVIOUS
<1>6. PICK x : x = Reloaded(i)
  OBVIOUS
<1>7. PICK in : in = <<x>>
  OBVIOUS
<1>8. PICK f : f = [top EXCEPT !.incoming = in]
  OBVIOUS
<1>9. PICK l : l = ConditionalBranch(m, result, b1, b3)
  OBVIOUS
<1>10. LoopElse(f, l)
  BY <1>4, <1>5, <1>6, <1>7, <1>8, <1>9 DEF LoopAgain, Block
<1>11. /\ Emitting(m) /\ LoopFed(top, m, m.loop) /\ Len(m.term) \in Nat
       /\ \A h \in Held(top) : h \in 2..Len(m.term)
       /\ m.insert # 0 /\ m.insert = i.b /\ Shaped(node, nodes, ret_type)
  BY <1>3, <1>5, TopKept DEF Keeping
<1>12. Held(top) = {b1, top.blocks[2], b3} /\ b1 \in Nat /\ b3 \in Nat
  <2>1. Holds(top) = {1, 2, 3}
    BY <1>3 DEF Holds, HeldAt
  <2>2. Held(top) = {b1, top.blocks[2], b3}
    BY <1>4, <2>1 DEF Held
  <2>3. b1 \in 2..Len(m.term) /\ b3 \in 2..Len(m.term)
    BY <1>11, <2>2
  <2> QED
    BY <2>2, <2>3
<1>13. result.real => Reach(result.def, m.insert, m, AllHeld(frames))
  <2>1. PICK k \in {"cond", "again"} : k = "again"
    OBVIOUS
  <2>2. At("loop", k)
    BY <1>2, <2>1
  <2> QED
    BY <1>11, <2>2, ConditionReach
<1>14. PICK T : T = {b1, b3}
  OBVIOUS
<1>15. /\ l \in Generator /\ Links(m, l, T) /\ Uses(m, l, result)
       /\ l.merges = m.merges /\ l.faults = m.faults /\ l.loop = m.loop
  <2>1. Emitting(m) /\ b1 \in Nat /\ b3 \in Nat /\ result \in Value
    BY <1>2, <1>11, <1>12 DEF TypeInv
  <2>2. /\ l \in Generator /\ Links(m, l, {b1, b3}) /\ Uses(m, l, result)
        /\ l.merges = m.merges /\ l.faults = m.faults /\ l.loop = m.loop
    BY ONLY <1>9, <2>1, BranchOn
  <2> QED
    BY <1>14, <2>2
<1>16. node.ty \in {"none", "value"}
  BY <1>3, <1>11 DEF Shaped, Node, Types
<1>17. i \in Incoming
  <2>1. top.incoming \in Seq(Incoming) /\ Len(top.incoming) = 1 /\ 1 \in 1..1
    BY <1>3 DEF Frame, Placed
  <2> QED
    BY <1>5, <2>1, ElementOfSeq
<1>18. /\ x.b = m.insert /\ x.v.real /\ x.v.def = m.insert
       /\ x.v.ty = IF node.ty = "value" THEN "value" ELSE "none"
  BY <1>6, <1>11, <1>16, <1>17, ReloadedIs
<1>19. SoundAt(x.v, x.b, m, AllHeld(frames))
  <2>1. m.insert \in 1..Len(m.term)
    BY <1>11, InsertIs
  <2>2. Reach(m.insert, m.insert, m, AllHeld(frames))
    BY <2>1, ReachSelf
  <2> QED
    BY <1>18, <2>2 DEF SoundAt
<1>20. x \in Incoming
  <2>1. PICK v : v = [i.v EXCEPT !.real = TRUE, !.def = m.insert]
    OBVIOUS
  <2>2. PICK w : w = From(v, node.ty)
    OBVIOUS
  <2>3. i.v \in Value /\ m.insert \in Nat
    BY <1>11, <1>17, GeneratorIs DEF Incoming, Emitting
  <2>4. v \in Value
    BY <2>1, <2>3 DEF Value
  <2>5. w \in Value
    BY <2>2, <2>4, FromTyped
  <2>6. x = [i EXCEPT !.v = w]
    BY <1>6, <2>1, <2>2 DEF Reloaded
  <2> QED
    BY <1>17, <2>5, <2>6 DEF Incoming
<1>21. /\ Sound(in, m, AllHeld(frames)) /\ in \in Seq(Incoming)
       /\ Counted(in) = {} <=> x.v.ty = "none"
       /\ CountedBlocks(in) = IF x.v.ty # "none" THEN {x.b} ELSE {}
  BY <1>7, <1>19, <1>20, SoundOne
<1>22. /\ f \in Frame /\ f.node = top.node /\ f.blocks = top.blocks /\ f.outer = top.outer
       /\ f.incoming = in
  BY <1>3, <1>8, <1>21 DEF Frame
<1>23. Merges(node) => PredsIn(l, b3) = CountedBlocks(m.loop.nodes) \cup CountedBlocks(in)
  <2>1. PredsIn(l, b3) = PredsIn(m, b3) \cup {m.insert}
    <3>1. b3 \in T
      BY <1>14
    <3> QED
      BY <1>11, <1>15, <3>1, PredsLinked
  <2>2. Gathered(top) = {} /\ nodes[top.node] = node
    BY <1>3 DEF Gathered, node
  <2>3. Merges(node) => node.ty = "value"
    BY <1>3 DEF Merges
  <2> QED
    BY <1>4, <1>11, <1>18, <1>21, <2>1, <2>2, <2>3 DEF LoopFed
<1>24. node.phi /\ ~Merges(node) => Counted(in) = {}
  BY <1>3, <1>18, <1>21 DEF Merges
<1>25. \A t \in T : t \in Held(top)
  BY <1>12, <1>14
<1>26. PICK v : v = result
  OBVIOUS
<1>27. Uses(m, l, v) /\ (v.real => Reach(v.def, m.insert, m, AllHeld(frames)))
  BY <1>13, <1>15, <1>26
<1>28. Sound(f.incoming, m, AllHeld(frames))
  BY <1>21, <1>22
<1>29. Merges(node) => PredsIn(l, top.blocks[3])
                         = CountedBlocks(m.loop.nodes) \cup CountedBlocks(f.incoming)
  BY <1>4, <1>22, <1>23
<1>30. node.phi /\ ~Merges(node) => Counted(f.incoming) = {}
  BY <1>22, <1>24
<1> QED
  BY <1>2, <1>10, <1>15, <1>22, <1>25, <1>27, <1>28, <1>29, <1>30, ElseEnters

-----------------------------------------------------------------------------
(* Every step keeps it.                                                    *)

LEMMA KeptNext ==
  ASSUME NEW fs, NEW g, NEW v, Kept(fs, g, v), frames' = fs, m' = g, result' = v, nodes' = nodes
  PROVE  Kept(frames, m, result)'
<1>1. /\ Chain(fs) /\ Broken(fs) /\ Empties(fs) /\ Still(fs, g) /\ Apart(fs) /\ Drawn(g)
      /\ Fed(fs, g) /\ Merged(g, AllHeld(fs)) /\ AllSound(fs, g, AllHeld(fs))
      /\ Delivered(fs, g, v) /\ Faultless(g)
  BY DEF Kept
<1>2. DeadCode' <=> DeadCode
  BY DEF DeadCode
<1>3. Chain(frames)'
  BY <1>1 DEF Chain, OperandOf, PlaceOf, KindOf
<1>4. Broken(frames)'
  BY <1>1 DEF Broken, Encloses, IsLoop, KindOf, GivenTo
<1>5. Empties(frames)'
  BY <1>1 DEF Empties, Fresher, KindOf
<1>6. Still(frames, m)'
  BY <1>1, <1>2 DEF Still, Abandoned, OnTop, KindOf
<1>8. Drawn(m)'
  BY <1>1 DEF Drawn
<1>9. PICK held : held = AllHeld(fs)
  OBVIOUS
<1>10. AllHeld(frames)' = held
  BY <1>9 DEF AllHeld, Held, Holds, HeldAt, KindOf
<1>7. Apart(frames)'
  <2>1. \A f : Holds(f)' = Holds(f) /\ Held(f)' = Held(f)
    BY DEF Held, Holds, HeldAt, KindOf
  <2>2. 1 \notin held
    BY <1>1, <1>9 DEF Apart
  <2> QED
    BY <1>1, <1>10, <2>1, <2>2 DEF Apart
<1>11. Merged(m, AllHeld(frames))'
  BY <1>1, <1>9, <1>10 DEF Merged, PredsIn
<1>12. \A x, b : SoundAt(x, b, m, AllHeld(frames))' <=> SoundAt(x, b, g, held)
  BY <1>2, <1>10 DEF SoundAt, Reach
<1>13. AllSound(frames, m, AllHeld(frames))'
  <2>1. \A in : Sound(in, m, AllHeld(frames))' <=> Sound(in, g, held)
    BY <1>12 DEF Sound
  <2>2. \A d, b : Reach(d, b, m, AllHeld(frames))' <=> Reach(d, b, g, held)
    BY <1>10 DEF Reach
  <2> QED
    BY <1>1, <1>9, <2>1, <2>2 DEF AllSound, IsLoop, KindOf
<1>14. Delivered(frames, m, result)'
  BY <1>1, <1>2, <1>9, <1>10, <1>12 DEF Delivered, Delivers, OperandOf, PlaceOf, KindOf
<1>15. Faultless(m)'
  BY <1>1, <1>2 DEF Faultless
<1>16. Fed(frames, m)'
  <2>1. \A f : BranchFed(f, m)' <=> BranchFed(f, g)
    BY <1>2 DEF BranchFed, Merges, EndBlock, EndPlace, KindOf, Gathered, CountedBlocks, PredsIn
  <2>2. \A f, d : LoopFed(f, m, d)' <=> LoopFed(f, g, d)
    BY DEF LoopFed, Merges, Gathered, CountedBlocks, PredsIn
  <2> QED
    BY <1>1, <2>1, <2>2 DEF Fed, Encloses, IsLoop, KindOf
<1> QED
  BY <1>3, <1>4, <1>5, <1>6, <1>7, <1>8, <1>11, <1>13, <1>14, <1>15, <1>16 DEF Kept

LEMMA RootedNext ==
  ASSUME NEW fs, NEW g, Rooted(fs, g), frames' = fs, m' = g, nodes' = nodes, ret_type' = ret_type
  PROVE  Rooted(frames, m)'
BY DEF Rooted

-----------------------------------------------------------------------------
(* The steps that are not of a call.                                       *)

(* What is kept to when no call is left.                                   *)
LEMMA KeptAtEnd ==
  ASSUME NEW fs, Len(fs) = 0, fs = <<>>, NEW g, NEW v, Drawn(g), Merged(g, {}), Sound(g.loop.nodes, g, {}),
         \A u \in g.uses : Reach(u.def, u.at, g, {}), Faultless(g)
  PROVE  Kept(fs, g, v)
<1>1. 1..0 = {} /\ 1..(0 - 1) = {}
  OBVIOUS
<1>2. AllHeld(fs) = {}
  BY <1>1 DEF AllHeld
<1>3. Chain(fs) /\ Broken(fs) /\ Empties(fs) /\ Still(fs, g)
  BY <1>1 DEF Chain, Broken, Empties, Still
<1>4. Apart(fs)
  BY <1>1, <1>2 DEF Apart
<1>5. Fed(fs, g)
  BY <1>1 DEF Fed
<1>6. AllSound(fs, g, AllHeld(fs))
  BY <1>1, <1>2 DEF AllSound
<1>7. Delivered(fs, g, v)
  BY DEF Delivered
<1> QED
  BY <1>2, <1>3, <1>4, <1>5, <1>6, <1>7 DEF Kept

LEMMA EndFunctionKeeps ==
  ASSUME TypeInv, Kept(frames, m, result), Rooted(frames, m), EndFunction
  PROVE  Kept(frames, m, result)'
<1>1. PICK g : g = BuildReturn(m, NoneConst)
  OBVIOUS
<1>2. PICK fs, w : fs = frames /\ w = result
  OBVIOUS
<1>3. /\ fs = <<>> /\ Len(fs) = 0 /\ frames' = fs /\ m' = g /\ result' = w /\ nodes' = nodes
  BY <1>1, <1>2 DEF EndFunction
<1>4. Emitting(m)
  BY DEF TypeInv, Walk
<1>5. AllHeld(fs) = {}
  <2>1. 1..0 = {}
    OBVIOUS
  <2> QED
    BY <1>3, <2>1 DEF AllHeld
<1>6. /\ Drawn(m) /\ Merged(m, {}) /\ Sound(m.loop.nodes, m, {})
      /\ \A u \in m.uses : Reach(u.def, u.at, m, {})
      /\ Faultless(m)
  BY <1>2, <1>5 DEF Kept, AllSound
<1>7. NoneConst.ty = "none" /\ ~NoneConst.real
  BY DEF NoneConst
<1>8. PICK v : v = NoneConst
  OBVIOUS
<1>9. /\ Links(m, g, {}) /\ Uses(m, g, v) /\ g.merges = m.merges /\ g.insert = 0
      /\ g.loop = m.loop
      /\ (m.insert # 0 => (IF v.ty = "value" /\ v.real THEN "value" ELSE "none") = ret_type)
           => g.faults = m.faults
  <2>1. v \in Value /\ g = BuildReturn(m, v)
    BY <1>1, <1>8, NoneConstTyped
  <2> QED
    BY ONLY <1>4, <2>1, BuildReturnLinks
<1>10. g.uses = m.uses
  BY <1>7, <1>8, <1>9 DEF Uses
<1>11. g.faults = m.faults
  <2>1. m.insert # 0 => ret_type = "none"
    BY <1>2, <1>3 DEF Rooted, TypeInv
  <2> QED
    BY <1>7, <1>8, <1>9, <2>1
<1>12. Drawn(g)
  BY <1>4, <1>6, <1>9, DrawnKept
<1>13. Merged(g, {})
  <2>1. \A b : PredsIn(g, b) = PredsIn(m, b)
    <3>1. \A b : PredsIn(g, b) = PredsIn(m, b) \cup IF m.insert # 0 /\ b \in {} THEN {m.insert} ELSE {}
      BY <1>4, <1>9, PredsLinked
    <3> QED
      BY <3>1
  <2>2. Len(m.term) <= Len(g.term) /\ Len(g.term) \in Nat /\ Len(m.term) \in Nat
    BY <1>4, <1>9, InsertIs DEF Links
  <2> QED
    BY <1>6, <1>9, <2>1, <2>2 DEF Merged
<1>14. \A d, b : Reach(d, b, m, {}) => Reach(d, b, g, {})
  <2> SUFFICES ASSUME NEW d, NEW b, Reach(d, b, m, {})
               PROVE  Reach(d, b, g, {})
    OBVIOUS
  <2>1. PICK T : T = {}
    OBVIOUS
  <2>2. /\ Links(m, g, T) /\ \A t \in T : t \in T \/ t \notin 1..Len(m.term)
        /\ Reach(d, b, m, T)
    BY <1>9, <2>1
  <2>3. Reach(d, b, g, T)
    BY ONLY <1>4, <2>2, ReachKept
  <2> QED
    BY <2>1, <2>3
<1>15. Sound(g.loop.nodes, g, {})
  BY <1>6, <1>9, <1>14 DEF Sound, SoundAt
<1>16. \A u \in g.uses : Reach(u.def, u.at, g, {})
  BY <1>6, <1>10, <1>14
<1>17. Faultless(g)
  BY <1>6, <1>11 DEF Faultless
<1>18. Kept(fs, g, w)
  BY <1>3, <1>12, <1>13, <1>15, <1>16, <1>17, KeptAtEnd
<1> QED
  BY <1>3, <1>18, KeptNext

(* No condition is computed only after dead code.                          *)
LEMMA PanicIsDead == ASSUME Keeping, Panic PROVE DeadCode
<1>1. /\ frames # <<>> /\ top.pc \in {"cond", "again"} /\ ~result.real /\ phase = "ir"
  BY DEF Panic, Computed
<1>2. PICK k : k = KindOf(top)
  OBVIOUS
<1>3. /\ node.kind = k /\ top \in Frame /\ k \in Kinds
      /\ Placed(top, k, Len(node.sub), Len(m.term)) /\ Operands(k, Len(node.sub))
  <2>1. At(k, top.pc) /\ TypeInv
    BY <1>1, <1>2 DEF At, node, KindOf, Keeping
  <2>2. PICK pc : pc = top.pc
    OBVIOUS
  <2>3. /\ node \in Node /\ node.kind = k /\ top \in Frame
        /\ Placed(top, k, Len(node.sub), Len(m.term)) /\ Operands(k, Len(node.sub))
    <3>1. At(k, pc) /\ TypeInv
      BY <2>1, <2>2
    <3> QED
      BY ONLY <3>1, AtIs
  <2> QED
    BY <2>3 DEF Node
<1>4. Shaped(node, nodes, ret_type)
  BY <1>1, TopKept DEF Keeping
<1>5. top.pc \in PlacesOf(k)
  BY <1>3 DEF Placed
<1>6. k \in {"if", "switch", "loop"}
  BY <1>1, <1>3, <1>5 DEF PlacesOf, Kinds
<1>7. CASE k = "if"
  <2>1. OperandOf(top) = node.sub[1]
    <3>1. top.pc = "cond"
      BY <1>1, <1>5, <1>7 DEF PlacesOf
    <3> QED
      BY <1>2, <1>7, <3>1 DEF OperandOf, PlaceOf, node
  <2>2. nodes[node.sub[1]].ty = "value"
    BY <1>3, <1>4, <1>7 DEF Shaped
  <2>3. top.pc # "visit"
    BY <1>1
  <2> QED
    BY <1>1, <2>1, <2>2, <2>3, ComputedReach
<1>8. CASE k = "switch"
  <2>1. PICK c : c = top.case
    OBVIOUS
  <2>2. PICK n : n = Len(node.sub)
    OBVIOUS
  <2>3. top.pc = "cond"
    BY <1>1, <1>5, <1>8 DEF PlacesOf
  <2>4. c \in CasesOf(node)
    <3>1. c \in 1..3 /\ 2 * c + 1 <= n /\ n \in {3, 5}
      BY <1>3, <1>8, <2>1, <2>2, <2>3 DEF Placed, Operands
    <3>2. c \in 1..2 /\ 2 * c < n
      BY ONLY <3>1
    <3> QED
      BY <2>2, <3>2 DEF CasesOf
  <2>5. OperandOf(top) = node.sub[2 * c - 1]
    BY <1>2, <1>8, <2>1, <2>3 DEF OperandOf, PlaceOf, node
  <2>6. nodes[node.sub[2 * c - 1]].ty = "value"
    BY <1>3, <1>4, <1>8, <2>4 DEF Shaped
  <2>7. top.pc # "visit"
    BY <1>1
  <2> QED
    BY <1>1, <2>5, <2>6, <2>7, ComputedReach
<1>9. CASE k = "loop"
  <2>1. PICK pc \in {"cond", "again"} : pc = top.pc
    BY <1>1
  <2>2. At("loop", pc)
    BY <1>1, <1>3, <1>9, <2>1 DEF At
  <2> QED
    BY <1>1, <2>2, ConditionReach
<1> QED
  BY <1>6, <1>7, <1>8, <1>9

(* The value of the body is returned: no break is left in it.              *)
LEMMA ReturnedBreaks ==
  ASSUME NEW body \in Nat \ {0}, NEW s, s = <<body>>, nodes[body].breaks = {},
         NEW x, x = Returned(s)
  PROVE  x.breaks = {}
<1>1. s \in Seq(Nat \ {0}) /\ Len(s) = 1 /\ s[1] = body
  OBVIOUS
<1>2. Elems(s) = {body}
  <2>1. Elems(s) = {s[j] : j \in 1..Len(s)}
    <3>1. PICK S : S = Nat \ {0}
      OBVIOUS
    <3>2. s \in Seq(S)
      BY <1>1, <3>1
    <3> QED
      BY ONLY <3>2, ElemsAre
  <2>2. \A j \in 1..1 : j = 1
    OBVIOUS
  <2> QED
    BY <1>1, <2>1, <2>2
<1>3. PICK odd : odd = Flag("any_value", Misfit(s[1], ret_type))
  OBVIOUS
<1>4. PICK kind : kind = "return"
  OBVIOUS
<1>5. x = MakeNode(kind, s, "any", FALSE, odd)
  BY <1>3, <1>4 DEF Returned
<1>6. kind # "loop" /\ kind # "break"
  BY <1>4
<1>7. {nodes[i] : i \in Elems(s)} = {nodes[body]}
  BY <1>2
<1>8. UNION {n.breaks : n \in {nodes[body]}} = {}
  OBVIOUS
<1> QED
  BY <1>5, <1>6, <1>7, <1>8 DEF MakeNode

(* The first call.                                                         *)
LEMMA StartFunctionFrame ==
  ASSUME TypeInv, TypeInv', Regular, Shapely, Shapely', StartFunction
  PROVE  \E n : /\ frames' = <<NewFrame(n, m)>> /\ n \in 1..Len(nodes') /\ nodes'[n].breaks = {}
                /\ ret_type' = "value" => nodes'[n].leaves
<1>1. PICK body : body = Inner.sub[1]
  OBVIOUS
<1>2. /\ Inner.kind = "function" /\ Len(Inner.sub) = 1 /\ ret_type' = ret_type
      /\ nodes[body].breaks = {}
  BY <1>1 DEF StartFunction
<1>3. body \in 1..Len(nodes) /\ body \in Nat \ {0}
  <2>1. Within(Inner.sub, nodes) /\ 1 \in 1..Len(Inner.sub)
    BY <1>2, InnerIs
  <2>2. body \in 1..Len(nodes) /\ Len(nodes) \in Nat
    BY <1>1, <2>1, NodesTyped DEF Within
  <2> QED
    BY <2>2
<1>4. CASE ret_type = "none"
  <2>1. nodes' = nodes /\ frames' = <<NewFrame(body, m)>>
    BY <1>1, <1>4 DEF StartFunction
  <2> QED
    BY <1>2, <1>3, <1>4, <2>1
<1>5. CASE ret_type # "none"
  <2>1. PICK s : s = <<body>>
    OBVIOUS
  <2>2. PICK x : x = Returned(s)
    OBVIOUS
  <2>3. PICK n : n = Len(nodes) + 1
    OBVIOUS
  <2>4. PICK ns : ns = Append(nodes, x)
    OBVIOUS
  <2>5. /\ nodes' = ns /\ Unifies(Ty(body), ret_type) /\ x.odd \subseteq Odd
        /\ frames' = <<NewFrame(n, m)>>
    BY <1>1, <1>5, <2>1, <2>2, <2>3, <2>4 DEF StartFunction
  <2>6. x.breaks = {}
    BY <1>2, <1>3, <2>1, <2>2, ReturnedBreaks
  <2>7. s \in Seq(Nat \ {0}) /\ Len(s) = 1 /\ s[1] = body /\ Within(s, nodes)
    <3>1. s \in Seq(Nat \ {0}) /\ Len(s) = 1 /\ s[1] = body
      BY <1>3, <2>1
    <3>2. \A j \in 1..1 : j = 1
      OBVIOUS
    <3> QED
      BY <1>3, <3>1, <3>2 DEF Within
  <2>8. x.odd \subseteq {"dead_code"} /\ NodesInv
    BY <2>5 DEF Regular, Shapely
  <2>9. Shaped(x, nodes, ret_type) /\ x.kind = "return" /\ x.sub = s
    BY <2>2, <2>5, <2>7, <2>8, ReturnedShaped
  <2>10. x.leaves
    BY <2>9 DEF Shaped
  <2>11. Len(nodes) \in Nat /\ Len(ns) = n /\ ns[n] = x
    <3>1. x \in Node
      BY <2>2, <2>7, ReturnedTyped
    <3>2. nodes \in Seq(Node)
      BY DEF TypeInv, Forming, Expressions
    <3> QED
      BY <2>3, <2>4, <3>1, <3>2, Appended
  <2>12. n \in 1..Len(ns)
    BY <2>3, <2>11
  <2> QED
    BY <2>5, <2>6, <2>10, <2>11, <2>12
<1> QED
  BY <1>4, <1>5

LEMMA StartFunctionKeeps ==
  ASSUME TypeInv, TypeInv', Regular, Shapely, Shapely', StartFunction
  PROVE  Kept(frames, m, result)' /\ Rooted(frames, m)'
<1>1. PICK n : /\ frames' = <<NewFrame(n, m)>> /\ n \in 1..Len(nodes') /\ nodes'[n].breaks = {}
               /\ ret_type' = "value" => nodes'[n].leaves
  BY StartFunctionFrame
<1>2. PICK q : q = NewFrame(n, m)
  OBVIOUS
<1>3. q.node = n /\ q.pc = "visit" /\ q.incoming = <<>>
  BY <1>2 DEF NewFrame
<1>4. /\ Len(frames') = 1 /\ frames'[1] = q /\ frames' # <<>> /\ Last(frames') = q
  BY <1>1, <1>2 DEF Last
<1>5. /\ \A i \in 1..1 : i = 1
      /\ 1..(1 - 1) = {} /\ Len(<<>>) = 0 /\ 1..0 = {}
  OBVIOUS
<1>6. m' = Prepared
  BY DEF StartFunction, TypeInv
<1>7. /\ m'.insert = 1 /\ m'.last = 1 /\ m'.term = <<Open>> /\ m'.loop.nodes = <<>>
      /\ m'.uses = {} /\ m'.merges = {} /\ m'.faults = {}
  BY <1>6 DEF Prepared, NoLoop
<1>8. Len(m'.term) = 1 /\ m'.term[1].to = {}
  BY <1>7 DEF Open
<1>9. Held(q)' = {} /\ IsLoop(q)' = FALSE /\ BranchFed(q, m)' /\ Abandoned(q)' = FALSE
  <2>1. Holds(q)' = {}
    BY <1>3 DEF Holds, HeldAt
  <2>2. ~HasBlocks(nodes'[n].kind, q.pc)
    BY <1>3 DEF HasBlocks
  <2> QED
    BY <1>3, <2>1, <2>2 DEF Held, IsLoop, BranchFed, Abandoned
<1>10. AllHeld(frames)' = {}
  BY <1>4, <1>5, <1>9 DEF AllHeld
<1>11. Chain(frames)'
  BY <1>4, <1>5 DEF Chain
<1>12. Broken(frames)'
  BY <1>1, <1>3, <1>4, <1>5 DEF Broken
<1>13. Empties(frames)'
  BY <1>3, <1>4, <1>5 DEF Empties
<1>14. Still(frames, m)'
  BY <1>3, <1>4, <1>5, <1>7, <1>9 DEF Still
<1>15. Apart(frames)'
  <2>1. Holds(q)' = {}
    BY <1>3 DEF Holds, HeldAt
  <2> QED
    BY <1>4, <1>5, <1>9, <1>10, <2>1 DEF Apart
<1>16. Drawn(m)'
  BY <1>5, <1>7, <1>8 DEF Drawn
<1>17. Fed(frames, m)'
  BY <1>4, <1>5, <1>9 DEF Fed, Encloses
<1>18. Merged(m, AllHeld(frames))'
  BY <1>7 DEF Merged
<1>19. AllSound(frames, m, AllHeld(frames))'
  BY <1>3, <1>4, <1>5, <1>7, <1>9 DEF AllSound, Sound
<1>20. Delivered(frames, m, result)'
  BY <1>3, <1>4 DEF Delivered
<1>21. Faultless(m)'
  BY <1>7 DEF Faultless
<1>22. Rooted(frames, m)'
  BY <1>1, <1>3, <1>4 DEF Rooted
<1>23. Kept(frames, m, result)'
  BY <1>11, <1>12, <1>13, <1>14, <1>15, <1>16, <1>17, <1>18, <1>19, <1>20, <1>21 DEF Kept
<1> QED
  BY <1>22, <1>23

-----------------------------------------------------------------------------
(* Every step.                                                             *)

Merging ==
  /\ TypeInv /\ Shapely
  /\ phase # "gir" => Kept(frames, m, result)
  /\ phase = "ir" => Rooted(frames, m)
  /\ phase = "panicked" => DeadCode

LEMMA InitMerging == ASSUME Init PROVE Merging
BY InitTyped, InitShaped DEF Merging, Init

LEMMA ShapingMerging == ASSUME Merging, Regular, Shaping, TypeInv' PROVE Merging'
<1>1. phase = "gir" /\ phase' = phase
  BY DEF Shaping, PushLeaf, Descend, MakeBreak, MakeReturn, MakeBlock, MakeIf,
         MakeSwitch, MakeLoop, Make
<1>2. Shapely'
  BY ShapingShaped DEF Merging
<1> QED
  BY <1>1, <1>2 DEF Merging

LEMMA StartFunctionMerging == ASSUME Merging, Regular, StartFunction, TypeInv' PROVE Merging'
<1>1. Shapely'
  BY StartFunctionShaped DEF Merging
<1>2. phase' = "ir"
  BY DEF StartFunction
<1> QED
  BY <1>1, <1>2, StartFunctionKeeps DEF Merging

LEMMA NodesStay ==
  ASSUME Shapely, phase # "gir", nodes' = nodes, ret_type' = ret_type, phase' # "gir"
  PROVE  Shapely'
BY DEF Shapely, NodesInv

(* A step of a call.                                                       *)
Walking == \/ Skip \/ Call \/ NoneLiteral \/ EnterBlock \/ NextInBlock
           \/ EnterBreak \/ Break \/ EnterReturn \/ Return
           \/ EnterIf \/ IfCondition \/ IfThen \/ IfElse
           \/ EnterSwitch \/ SwitchCondition \/ SwitchCase \/ SwitchElse
           \/ EnterLoop \/ LoopCondition \/ LoopBody \/ LoopAgain \/ LoopEnd

LEMMA WalkingKeeps == ASSUME Keeping, Walking PROVE Stays
<1>1. CASE Skip \/ Call \/ NoneLiteral \/ EnterBlock \/ NextInBlock
  BY <1>1, SkipKeeps, CallKeeps, NoneLiteralKeeps, EnterBlockKeeps, NextInBlockKeeps
<1>2. CASE EnterBreak \/ Break \/ EnterReturn \/ Return
  BY <1>2, EnterBreakKeeps, BreakKeeps, EnterReturnKeeps, ReturnKeeps
<1>3. CASE EnterIf \/ IfCondition \/ IfThen \/ IfElse
  BY <1>3, EnterIfKeeps, IfConditionKeeps, IfThenKeeps, IfElseKeeps
<1>4. CASE EnterSwitch \/ SwitchCondition \/ SwitchCase \/ SwitchElse
  BY <1>4, EnterSwitchKeeps, SwitchConditionKeeps, SwitchCaseKeeps, SwitchElseKeeps
<1>5. CASE EnterLoop \/ LoopCondition \/ LoopBody \/ LoopAgain \/ LoopEnd
  BY <1>5, EnterLoopKeeps, LoopConditionKeeps, LoopBodyKeeps, LoopAgainKeeps, LoopEndKeeps
<1> QED
  BY <1>1, <1>2, <1>3, <1>4, <1>5 DEF Walking

LEMMA WalkingMerging == ASSUME Merging, Walking, TypeInv' PROVE Merging'
<1>1. phase = "ir"
  BY DEF Walking, Skip, Call, NoneLiteral, EnterBlock, NextInBlock, EnterBreak, Break, EnterReturn,
         Return, EnterIf, IfCondition, IfThen, IfElse, EnterSwitch, SwitchCondition, SwitchCase,
         SwitchElse, EnterLoop, LoopCondition, LoopBody, LoopAgain, LoopEnd, Visiting, At
<1>2. Keeping
  BY <1>1 DEF Merging, Keeping, Shapely
<1>3. PICK fs, g, v :
        /\ frames' = fs /\ m' = g /\ result' = v
        /\ nodes' = nodes /\ ret_type' = ret_type /\ open' = open /\ phase' = phase
        /\ Kept(fs, g, v) /\ (Rooted(frames, m) => Rooted(fs, g))
  BY <1>2, WalkingKeeps DEF Stays
<1>4. Kept(frames, m, result)'
  BY <1>3, KeptNext
<1>5. Rooted(frames, m)'
  <2>1. Rooted(fs, g)
    BY <1>1, <1>3 DEF Merging
  <2> QED
    BY <1>3, <2>1, RootedNext
<1>6. Shapely'
  <2>1. Shapely
    BY DEF Merging
  <2> QED
    BY <1>1, <1>3, <2>1, NodesStay
<1> QED
  BY <1>1, <1>3, <1>4, <1>5, <1>6 DEF Merging

LEMMA EndMerging == ASSUME Merging, Panic \/ EndFunction, TypeInv' PROVE Merging'
<1>1. /\ phase = "ir" /\ phase' \in {"panicked", "done"} /\ nodes' = nodes /\ ret_type' = ret_type
      /\ Kept(frames, m, result) /\ Rooted(frames, m)
  BY DEF Panic, EndFunction, Merging
<1>2. Shapely'
  <2>1. Shapely
    BY DEF Merging
  <2> QED
    BY <1>1, <2>1, NodesStay
<1>3. CASE Panic
  <2>1. Keeping
    BY <1>1 DEF Merging, Keeping, Shapely
  <2>2. DeadCode
    BY <1>3, <2>1, PanicIsDead
  <2>3. DeadCode'
    BY <1>1, <2>2 DEF DeadCode
  <2>4. PICK fs, g, v : fs = frames /\ g = m /\ v = result
    OBVIOUS
  <2>5. frames' = fs /\ m' = g /\ result' = v /\ Kept(fs, g, v)
    BY <1>1, <1>3, <2>4 DEF Panic
  <2>6. Kept(frames, m, result)'
    BY <1>1, <2>5, KeptNext
  <2> QED
    BY <1>1, <1>2, <2>3, <2>6 DEF Merging
<1>4. CASE EndFunction
  <2>1. TypeInv
    BY DEF Merging
  <2>2. Kept(frames, m, result)'
    BY <1>1, <1>4, <2>1, EndFunctionKeeps
  <2>3. phase' = "done"
    BY <1>4 DEF EndFunction
  <2> QED
    BY <1>2, <2>2, <2>3 DEF Merging
<1> QED
  BY <1>3, <1>4

LEMMA MergingStep == ASSUME Regular, Merging, [Next]_vars PROVE Merging'
<1>1. TypeInv'
  <2>1. TypeInv
    BY DEF Merging
  <2> QED
    BY <2>1, StepGoes DEF Goes
<1>2. CASE Shaping
  BY <1>1, <1>2, ShapingMerging
<1>3. CASE StartFunction
  BY <1>1, <1>3, StartFunctionMerging
<1>4. CASE Walking
  BY <1>1, <1>4, WalkingMerging
<1>5. CASE Panic \/ EndFunction
  BY <1>1, <1>5, EndMerging
<1>6. CASE UNCHANGED vars
  <2>1. UNCHANGED <<left, ret_type, phase, nodes, open, frames, result, m>>
    BY <1>6 DEF vars
  <2>2. PICK fs, g, v : fs = frames /\ g = m /\ v = result
    OBVIOUS
  <2>3. Kept(fs, g, v) => Kept(frames, m, result)'
    BY <2>1, <2>2, KeptNext
  <2>4. Rooted(frames, m) => Rooted(frames, m)'
    BY <2>1 DEF Rooted
  <2>5. Shapely'
    BY <2>1 DEF Merging, Shapely, NodesInv, Conditions
  <2>6. DeadCode => DeadCode'
    BY <2>1 DEF DeadCode
  <2> QED
    BY <1>1, <2>1, <2>2, <2>3, <2>4, <2>5, <2>6 DEF Merging
<1> QED
  BY <1>2, <1>3, <1>4, <1>5, <1>6 DEF Next, Shaping, Walking

LEMMA MergingHolds == ASSUME Regular PROVE Spec => []Merging
<1>1. Init => Merging
  BY InitMerging
<1>2. Merging /\ [Next]_vars => Merging'
  BY MergingStep
<1> QED
  BY <1>1, <1>2, PTL DEF Spec

(* When the function is complete, what its blocks branch to is settled.    *)
LEMMA Completed ==
  ASSUME Merging, phase # "gir"
  PROVE  /\ Drawn(m) /\ Merged(m, AllHeld(frames)) /\ Faultless(m)
         /\ \A u \in m.uses : Reach(u.def, u.at, m, AllHeld(frames))
         /\ Len(m.term) \in Nat /\ DOMAIN m.term = 1..Len(m.term)
<1>1. Emitting(m)
  BY DEF Merging, TypeInv, Walk
<1>2. m.term \in Seq(Terminator)
  BY <1>1, GeneratorIs DEF Emitting
<1>3. Len(m.term) \in Nat /\ DOMAIN m.term = 1..Len(m.term)
  BY <1>2, LenProperties
<1> QED
  BY <1>3 DEF Merging, Kept, AllSound

-----------------------------------------------------------------------------
(* Dominance.  ReachedWithout is defined by recursion over the number of   *)
(* branches taken; facts about it are proved by induction in the form of a *)
(* set that contains 0 and k + 1 with every k.                             *)

(* A set of natural numbers that is not empty has a least element.         *)
LEMMA LeastElement ==
  ASSUME NEW T, T \subseteq Nat, T # {}
  PROVE  \E x \in T : \A y \in T : x <= y
<1> DEFINE F == {0..n : n \in T}
<1>1. F \subseteq FiniteSubsetsOf(Nat)
  <2> SUFFICES ASSUME NEW n \in T PROVE 0..n \subseteq Nat /\ IsFiniteSet(0..n)
    BY DEF FiniteSubsetsOf
  <2> QED BY FS_Interval
<1>2. PICK X \in F : \A Y \in F : ~(<<Y, X>> \in StrictSubsetOrdering(Nat))
  <2> HIDE DEF F
  <2>1. F # {} BY DEF F
  <2> QED BY <1>1, <2>1, FS_StrictSubsetOrderingWellFounded, WFMin, Zenon
<1>3. PICK x \in T : X = 0..x OBVIOUS
<1>4. ASSUME NEW y \in T, y < x PROVE FALSE
  <2>1. 0..y \in F /\ 0..y \subseteq 0..x /\ x \in 0..x /\ x \notin 0..y BY <1>4
  <2>2. <<0..y, 0..x>> \in StrictSubsetOrdering(Nat)
    BY <2>1 DEF StrictSubsetOrdering
  <2> QED BY <2>1, <2>2, <1>2, <1>3
<1> QED BY <1>4

LEMMA SetInduction ==
  ASSUME NEW S, 0 \in S, \A n \in Nat : n \in S => n + 1 \in S
  PROVE  Nat \subseteq S
<1> DEFINE T == Nat \ S
<1> SUFFICES ASSUME T # {} PROVE FALSE OBVIOUS
<1> HIDE DEF T
<1>1. PICK x \in T : \A y \in T : x <= y BY LeastElement DEF T
<1>2. x # 0 /\ x - 1 \in Nat /\ x - 1 \notin T /\ x - 1 \in S BY <1>1 DEF T
<1> QED BY <1>1, <1>2 DEF T

(* The blocks reached by one branch more, and those reached by up to k.    *)
Further(reached, b) == reached \cup ((UNION {m.term[p].to : p \in reached}) \ {b})
ReachedAt(f, b, k) == f[k] = IF k = 0 THEN {1} \ {b} ELSE Further(f[k - 1], b)
Reaches(f, b, n) ==
  f = [k \in 0..n |-> IF k = 0 THEN {1} \ {b}
                      ELSE f[k - 1] \cup ((UNION {m.term[p].to : p \in f[k - 1]}) \ {b})]

LEMMA ReachesAt ==
  ASSUME NEW f, NEW b, NEW n
  PROVE  Reaches(f, b, n) <=> /\ f = [k \in 0..n |-> f[k]]
                              /\ \A k \in 0..n : ReachedAt(f, b, k)
<1> DEFINE h == [k \in 0..n |-> IF k = 0 THEN {1} \ {b} ELSE Further(f[k - 1], b)]
<1>1. \A k \in 0..n : h[k] = IF k = 0 THEN {1} \ {b} ELSE Further(f[k - 1], b)
  OBVIOUS
<1>2. h = [k \in 0..n |-> h[k]]
  OBVIOUS
<1>3. Reaches(f, b, n) <=> f = h
  BY Zenon DEF Reaches, Further
<1> HIDE DEF h
<1>4. ASSUME f = h
      PROVE  \A k \in 0..n : ReachedAt(f, b, k)
  BY <1>1, <1>4, Zenon DEF ReachedAt
<1>5. ASSUME f = [k \in 0..n |-> f[k]], \A k \in 0..n : ReachedAt(f, b, k)
      PROVE  f = h
  <2>1. \A k \in 0..n : f[k] = h[k]
    BY <1>1, <1>5, Zenon DEF ReachedAt
  <2>2. [k \in 0..n |-> f[k]] = [k \in 0..n |-> h[k]]
    BY <2>1
  <2> QED
    BY <2>2, <1>2, <1>5, Zenon
<1> QED
  BY <1>2, <1>3, <1>4, <1>5, Zenon

LEMMA ReachesExists ==
  ASSUME NEW b, NEW n \in Nat
  PROVE  \E f : Reaches(f, b, n)
<1> DEFINE I == {k \in Nat : \E f : Reaches(f, b, k)}
<1>1. 0 \in I
  <2> DEFINE f == [k \in 0..0 |-> {1} \ {b}]
  <2>1. f = [k \in 0..0 |-> f[k]] /\ \A k \in 0..0 : k = 0 /\ f[k] = {1} \ {b}
    OBVIOUS
  <2> HIDE DEF f
  <2>2. \A k \in 0..0 : ReachedAt(f, b, k)
    BY <2>1 DEF ReachedAt
  <2>3. Reaches(f, b, 0)
    BY <2>1, <2>2, ReachesAt, Zenon
  <2> QED
    BY <2>3
<1>2. ASSUME NEW j \in Nat, j \in I
      PROVE  j + 1 \in I
  <2>1. PICK f : Reaches(f, b, j)
    BY <1>2
  <2>2. \A k \in 0..j : ReachedAt(f, b, k)
    BY <2>1, ReachesAt, Zenon
  <2>3. PICK x : x = Further(f[j], b)
    OBVIOUS
  <2> DEFINE g == [k \in 0..(j + 1) |-> IF k = j + 1 THEN x ELSE f[k]]
  <2>4. /\ g = [k \in 0..(j + 1) |-> g[k]] /\ g[j + 1] = x
        /\ \A k \in 0..j : g[k] = f[k]
    OBVIOUS
  <2> HIDE DEF g
  <2>5. ASSUME NEW k \in 0..(j + 1)
        PROVE  ReachedAt(g, b, k)
    <3>1. CASE k = j + 1
      <4>1. k # 0 /\ k - 1 = j /\ j \in 0..j
        BY <3>1
      <4>2. g[k] = x /\ g[k - 1] = f[j]
        BY <2>4, <3>1, <4>1
      <4> QED
        BY <2>3, <4>1, <4>2 DEF ReachedAt
    <3>2. CASE k # j + 1
      <4>1. k \in 0..j /\ (k # 0 => k - 1 \in 0..j)
        BY <3>2
      <4>2. g[k] = f[k] /\ (k # 0 => g[k - 1] = f[k - 1]) /\ ReachedAt(f, b, k)
        BY <2>2, <2>4, <4>1
      <4> QED
        BY <4>2 DEF ReachedAt
    <3> QED
      BY <3>1, <3>2
  <2>6. Reaches(g, b, j + 1)
    BY <2>4, <2>5, ReachesAt, Zenon
  <2> QED
    BY <2>6
<1> HIDE DEF I
<1>3. n \in I
  BY <1>1, <1>2, SetInduction
<1> QED
  BY <1>3 DEF I

LEMMA ReachedIs ==
  ASSUME NEW b, Len(m.term) \in Nat
  PROVE  \E f : Reaches(f, b, Len(m.term)) /\ ReachedWithout(b) = f[Len(m.term)]
<1> DEFINE f == CHOOSE f : Reaches(f, b, Len(m.term))
<1>1. Reaches(f, b, Len(m.term))
  BY ReachesExists, Zenon
<1>2. ReachedWithout(b) = f[Len(m.term)]
  BY Zenon DEF ReachedWithout, Reaches
<1> QED
  BY <1>1, <1>2

(* A set of blocks that is only entered at d is not entered without d.     *)
LEMMA ReachDominates ==
  ASSUME Drawn(m), Len(m.term) \in Nat, NEW d, NEW b, NEW held, Reach(d, b, m, held)
  PROVE  Dominates(d, b)
<1>1. PICK D \in SUBSET (1..Len(m.term)) :
        /\ d \in D /\ b \in D /\ (1 \in D => d = 1)
        /\ \A p \in 1..Len(m.term) : \A x \in m.term[p].to : x \in D \ {d} => p \in D
  BY DEF Reach
<1>2. PICK n : n = Len(m.term)
  OBVIOUS
<1>3. PICK f : Reaches(f, d, n) /\ ReachedWithout(d) = f[n]
  BY <1>2, ReachedIs
<1>4. \A k \in 0..n : ReachedAt(f, d, k)
  BY <1>3, ReachesAt, Zenon
<1>5. n \in Nat /\ 1 \in 1..n /\ \A p \in 1..n : m.term[p].to \subseteq 2..n
  BY <1>2 DEF Drawn
<1> DEFINE I == {k \in Nat : k <= n => f[k] \subseteq 1..n /\ f[k] \cap D = {}}
<1>6. 0 \in I
  <2>1. f[0] = {1} \ {d}
    BY <1>4, <1>5 DEF ReachedAt
  <2> QED
    BY <1>1, <1>5, <2>1
<1>7. ASSUME NEW k \in Nat, k \in I
      PROVE  k + 1 \in I
  <2> SUFFICES ASSUME k + 1 <= n
               PROVE  f[k + 1] \subseteq 1..n /\ f[k + 1] \cap D = {}
    OBVIOUS
  <2>1. PICK r : r = f[k]
    OBVIOUS
  <2>2. r \subseteq 1..n /\ r \cap D = {}
    BY <1>5, <1>7, <2>1
  <2>3. f[k + 1] = Further(r, d)
    <3>1. k + 1 \in 0..n /\ k + 1 # 0 /\ k + 1 - 1 = k
      BY <1>5
    <3> QED
      BY <1>4, <2>1, <3>1 DEF ReachedAt
  <2>4. ASSUME NEW x \in Further(r, d)
        PROVE  x \in 1..n /\ x \notin D
    <3>1. CASE x \in r
      BY <2>2, <3>1
    <3>2. CASE x \notin r
      <4>1. PICK p \in r : x \in m.term[p].to /\ x # d
        BY <2>4, <3>2 DEF Further
      <4>2. p \in 1..n /\ p \notin D
        BY <2>2
      <4>3. x \in 2..n
        BY <1>5, <4>1, <4>2
      <4> QED
        BY <1>1, <1>2, <1>5, <4>1, <4>2, <4>3
    <3> QED
      BY <3>1, <3>2
  <2> QED
    BY <2>3, <2>4
<1> HIDE DEF I
<1>8. n \in I
  BY <1>5, <1>6, <1>7, SetInduction
<1>9. f[n] \cap D = {}
  BY <1>5, <1>8 DEF I
<1> QED
  BY <1>1, <1>3, <1>9 DEF Dominates

-----------------------------------------------------------------------------
(* Theorems.                                                               *)

(* Where the value of an if, a when or a loop is merged, build_phi has a   *)
(* value for each block that control comes from, and for no other, however *)
(* the branches branch themselves and wherever breaks and returns leave    *)
(* them: last_block is the block in which a branch ends (expr.rs if_,      *)
(* switch, loop_; values.rs build_phi).                                    *)
THEOREM MergesMatch == ASSUME Regular PROVE Spec => []MergesMatchPredecessors
<1>1. Merging => MergesMatchPredecessors
  <2> SUFFICES ASSUME Merging, phase = "done", NEW x \in m.merges
               PROVE  x.from = Preds(x.at)
    BY DEF MergesMatchPredecessors
  <2>1. DOMAIN m.term = 1..Len(m.term) /\ Merged(m, AllHeld(frames))
    BY Completed
  <2> QED
    BY <2>1 DEF Merged, PredsIn, Preds
<1> QED
  BY <1>1, MergingHolds, PTL

(* A value is computed on every way to where it is used, also when what    *)
(* build_phi gives is not a phi but the only value, and when a loop's value*)
(* is loaded after the second condition (expr.rs loop_, values.rs          *)
(* build_phi).                                                             *)
THEOREM ValuesReach == ASSUME Regular PROVE Spec => []ValuesReachUses
<1>1. Merging => ValuesReachUses
  <2> SUFFICES ASSUME Merging, phase = "done", NEW u \in m.uses
               PROVE  Dominates(u.def, u.at)
    BY DEF ValuesReachUses
  <2>1. Drawn(m) /\ Len(m.term) \in Nat /\ Reach(u.def, u.at, m, AllHeld(frames))
    BY Completed
  <2> QED
    BY <2>1, ReachDominates
<1> QED
  BY <1>1, MergingHolds, PTL

(* No condition is without a value, and what is stored and returned has the*)
(* type it needs, unless the body has code after a break or return:        *)
(* Any, which unifies with everything (try_unify_type), never stands for a *)
(* missing value (expr.rs if_, switch, loop_, expression_ for a return).    *)
THEOREM NothingMissingHolds == ASSUME Regular PROVE Spec => []NothingMissing
<1>1. Merging => NothingMissing
  <2> SUFFICES ASSUME Merging, ~DeadCode
               PROVE  phase # "panicked" /\ m.faults = {}
    BY DEF NothingMissing
  <2>1. phase # "panicked"
    BY DEF Merging
  <2>2. CASE phase = "gir"
    BY <2>1, <2>2 DEF Merging, TypeInv, Prepared
  <2>3. CASE phase # "gir"
    BY <2>1, <2>3, Completed DEF Faultless
  <2> QED
    BY <2>2, <2>3
<1> QED
  BY <1>1, MergingHolds, PTL
=============================================================================
