--------------------------- MODULE Parser_proofs ---------------------------
(***************************************************************************)
(* The parser keeps its tree whole, for every file (module Parser).        *)
(*                                                                         *)
(* The invariant has to say of what the productions still have to do that  *)
(* it fits the tree under construction: that nodes are closed that were    *)
(* opened, and that a checkpoint is there when it is used.  The shape of a *)
(* builder is its depth and the nodes of its checkpoints; Typed(p, s, t)   *)
(* says that program p makes shape t of shape s, whichever branches it     *)
(* takes.  Programs call each other by name and loop, so Typed is not      *)
(* defined by recursion: it holds if some set W of such triples contains   *)
(* this one and every triple in W is justified by others in W, as in a     *)
(* bisimulation.  The productions of Grammar are shown one by one to keep  *)
(* every shape (Keeps), those that use the checkpoint of their caller to   *)
(* keep the shapes that have one (KeepsM), and closure() to close one node *)
(* (Shrinks).                                                              *)
(*                                                                         *)
(* That the tree stays whole where they do is a matter of NodeBuilder      *)
(* (module TreeBuilder), and comes first.  Builder(ns, ms) says of the open*)
(* nodes and the checkpoints of the active productions that spans fit the  *)
(* text below them and that checkpoints are in the order they were taken.  *)
(* Each operation preserves it and leaves the leaves of the tree alone, or *)
(* adds the tokens it is given at their end.                               *)
(*                                                                         *)
(* FlattenSeq is defined by recursion over a sequence.  Facts about it are *)
(* proved by induction in the form of a set that contains 0 and k + 1 with *)
(* every k (SetInduction).                                                 *)
(***************************************************************************)
EXTENDS Parser, Integers, Sequences, SequencesExt, FiniteSetsExt,
        FiniteSetTheorems, SequenceTheorems, TLAPS

-----------------------------------------------------------------------------
(* What the operations of NodeBuilder preserve, for every tree.            *)

(* A set of natural numbers that is not empty has a least element.         *)
LEMMA LeastElement ==
  ASSUME NEW T, T \subseteq Nat, T # {}
  PROVE  \E x \in T : \A y \in T : x <= y
<1> DEFINE F == {0..n : n \in T}
<1>1. F \subseteq FiniteSubsetsOf(Nat)
  <2> SUFFICES ASSUME NEW n \in T PROVE 0..n \subseteq Nat /\ IsFiniteSet(0..n)
    BY DEF FiniteSubsetsOf
  <2> QED BY FS_Interval
<1>2. PICK X \in F : \A Y \in F : ~(<<Y, X>> \in StrictSubsetOrdering(Nat))
  <2> HIDE DEF F
  <2>1. F # {} BY DEF F
  <2> QED BY <1>1, <2>1, FS_StrictSubsetOrderingWellFounded, WFMin, Zenon
<1>3. PICK x \in T : X = 0..x OBVIOUS
<1>4. ASSUME NEW y \in T, y < x PROVE FALSE
  <2>1. 0..y \in F /\ 0..y \subseteq 0..x /\ x \in 0..x /\ x \notin 0..y BY <1>4
  <2>2. <<0..y, 0..x>> \in StrictSubsetOrdering(Nat)
    BY <2>1 DEF StrictSubsetOrdering
  <2> QED BY <2>1, <2>2, <1>2, <1>3
<1> QED BY <1>4

(* Induction over the natural numbers, about a set of them.                *)
LEMMA SetInduction ==
  ASSUME NEW S, 0 \in S, \A n \in Nat : n \in S => n + 1 \in S
  PROVE  Nat \subseteq S
<1> DEFINE T == Nat \ S
<1> SUFFICES ASSUME T # {} PROVE FALSE OBVIOUS
<1> HIDE DEF T
<1>1. PICK x \in T : \A y \in T : x <= y BY LeastElement DEF T
<1>2. x # 0 /\ x - 1 \in Nat /\ x - 1 \notin T /\ x - 1 \in S BY <1>1 DEF T
<1> QED BY <1>1, <1>2 DEF T

-----------------------------------------------------------------------------
(* FlattenSeq, through the sequence of what it has after each element.     *)
Flattens(f, ss, n) ==
  f = [i \in 1..n |-> IF i = 1 THEN ss[i] ELSE f[i - 1] \o ss[i]]
FlattenAt(f, ss, i) == f[i] = IF i = 1 THEN ss[i] ELSE f[i - 1] \o ss[i]

(* What it means that f holds the flattened prefixes of ss.                *)
LEMMA FlattensAt ==
  ASSUME NEW f, NEW ss, NEW n
  PROVE  Flattens(f, ss, n)
         <=> /\ f = [i \in 1..n |-> f[i]]
             /\ \A i \in 1..n : FlattenAt(f, ss, i)
<1> DEFINE h == [i \in 1..n |-> IF i = 1 THEN ss[i] ELSE f[i - 1] \o ss[i]]
<1>1. \A i \in 1..n : h[i] = IF i = 1 THEN ss[i] ELSE f[i - 1] \o ss[i] OBVIOUS
<1>2. h = [i \in 1..n |-> h[i]] OBVIOUS
<1>3. Flattens(f, ss, n) <=> f = h BY Zenon DEF Flattens
<1> HIDE DEF h
<1>4. ASSUME f = h PROVE \A i \in 1..n : FlattenAt(f, ss, i)
  BY <1>1, <1>4, Zenon DEF FlattenAt
<1>5. ASSUME f = [i \in 1..n |-> f[i]], \A i \in 1..n : FlattenAt(f, ss, i) PROVE f = h
  <2>1. \A i \in 1..n : f[i] = h[i] BY <1>1, <1>5, Zenon DEF FlattenAt
  <2>2. [i \in 1..n |-> f[i]] = [i \in 1..n |-> h[i]] BY <2>1
  <2> QED BY <2>2, <1>2, <1>5, Zenon
<1> QED BY <1>2, <1>3, <1>4, <1>5, Zenon

(* FlattenSeq is recursive through a function: the function exists ...     *)
LEMMA FlattensExists ==
  ASSUME NEW S, NEW ss \in Seq(Seq(S)), NEW n \in Nat, n <= Len(ss)
  PROVE  \E f \in [1..n -> Seq(S)] : Flattens(f, ss, n)
<1> DEFINE I == {k \in Nat : k <= Len(ss) =>
                    \E f \in [1..k -> Seq(S)] : Flattens(f, ss, k)}
<1>1. 0 \in I
  <2> DEFINE e == [i \in 1..0 |-> <<>>]
  <2>1. e \in [1..0 -> Seq(S)] /\ e = [i \in 1..0 |-> e[i]] OBVIOUS
  <2> HIDE DEF e
  <2>2. \A i \in 1..0 : FlattenAt(e, ss, i) OBVIOUS
  <2>3. Flattens(e, ss, 0) BY <2>1, <2>2, FlattensAt, Zenon
  <2> QED BY <2>1, <2>3
<1>2. ASSUME NEW k \in Nat, k \in I PROVE k + 1 \in I
  <2> SUFFICES ASSUME k + 1 <= Len(ss)
               PROVE  \E f \in [1..(k + 1) -> Seq(S)] : Flattens(f, ss, k + 1)
    OBVIOUS
  <2>1. PICK f \in [1..k -> Seq(S)] : Flattens(f, ss, k) BY <1>2
  <2> DEFINE x == IF k = 0 THEN ss[1] ELSE f[k] \o ss[k + 1]
             g == [i \in 1..(k + 1) |-> IF i = k + 1 THEN x ELSE f[i]]
  <2>2. ss[k + 1] \in Seq(S) OBVIOUS
  <2>3. x \in Seq(S)
    <3>1. CASE k = 0 BY <2>2, <3>1
    <3>2. CASE k # 0
      <4>1. f[k] \in Seq(S) BY <3>2
      <4> QED BY <4>1, <2>2, <3>2, ConcatProperties
    <3> QED BY <3>1, <3>2
  <2>4. g \in [1..(k + 1) -> Seq(S)]
    <3> HIDE DEF x
    <3> QED BY <2>3
  <2>5. Flattens(g, ss, k + 1)
    <3>1. ASSUME NEW i \in 1..k PROVE FlattenAt(g, ss, i)
      <4>1. i \in 1..(k + 1) /\ i # k + 1 /\ i - 1 # k + 1
            /\ (i # 1 => i - 1 \in 1..k /\ i - 1 \in 1..(k + 1)) OBVIOUS
      <4>2. g[i] = f[i] /\ (i # 1 => g[i - 1] = f[i - 1])
        <5> HIDE DEF x
        <5> QED BY <4>1
      <4>3. FlattenAt(f, ss, i) BY <2>1, FlattensAt
      <4> HIDE DEF g
      <4> QED BY <4>2, <4>3 DEF FlattenAt
    <3>2. FlattenAt(g, ss, k + 1)
      <4>1. g[k + 1] = x /\ (k # 0 => g[k] = f[k])
        <5> HIDE DEF x
        <5> QED OBVIOUS
      <4>2. k + 1 - 1 = k /\ (k = 0 <=> k + 1 = 1) OBVIOUS
      <4> HIDE DEF g
      <4> QED BY <4>1, <4>2 DEF FlattenAt
    <3>3. g = [i \in 1..(k + 1) |-> g[i]] OBVIOUS
    <3> HIDE DEF g
    <3>4. ASSUME NEW i \in 1..(k + 1) PROVE FlattenAt(g, ss, i)
      <4>1. i \in 1..k \/ i = k + 1 OBVIOUS
      <4> QED BY <4>1, <3>1, <3>2
    <3> QED BY <3>3, <3>4, FlattensAt
  <2> HIDE DEF g
  <2> QED BY <2>4, <2>5
<1> HIDE DEF I
<1>3. n \in I BY <1>1, <1>2, SetInduction
<1> QED BY <1>3 DEF I

(* ... and there is one only, so that CHOOSE finds it.                     *)
LEMMA FlattensUnique ==
  ASSUME NEW ss, NEW f, NEW g, NEW n \in Nat,
         Flattens(f, ss, n), Flattens(g, ss, n)
  PROVE  f = g
<1> DEFINE I == {k \in Nat : k \in 1..n => f[k] = g[k]}
<1>1. 0 \in I OBVIOUS
<1>2. ASSUME NEW k \in Nat, k \in I PROVE k + 1 \in I
  <2> SUFFICES ASSUME k + 1 \in 1..n PROVE f[k + 1] = g[k + 1] OBVIOUS
  <2>1. FlattenAt(f, ss, k + 1) /\ FlattenAt(g, ss, k + 1) BY FlattensAt
  <2>2. k + 1 - 1 = k /\ (k + 1 # 1 => f[k] = g[k]) BY <1>2
  <2> QED BY <2>1, <2>2 DEF FlattenAt
<1> HIDE DEF I
<1>3. \A k \in 1..n : k \in I BY <1>1, <1>2, SetInduction
<1>4. \A k \in 1..n : f[k] = g[k] BY <1>3 DEF I
<1>5. /\ f = [i \in 1..n |-> f[i]]
      /\ g = [i \in 1..n |-> g[i]]
  BY FlattensAt
<1>6. [i \in 1..n |-> f[i]] = [i \in 1..n |-> g[i]] BY <1>4
<1> QED BY <1>5, <1>6, Zenon

(* The function FlattenSeq defines is the one that satisfies its equation. *)
LEMMA FlattenIs ==
  ASSUME NEW ss, NEW f, Len(ss) \in Nat, Len(ss) # 0, Flattens(f, ss, Len(ss))
  PROVE  FlattenSeq(ss) = f[Len(ss)]
<1> DEFINE g == CHOOSE g : Flattens(g, ss, Len(ss))
<1>1. Flattens(g, ss, Len(ss)) BY Zenon
<1>2. g = f BY <1>1, FlattensUnique, Zenon
<1>3. FlattenSeq(ss) = g[Len(ss)] BY Zenon DEF FlattenSeq, Flattens
<1> QED BY <1>2, <1>3, Zenon

(* Flattening nothing.                                                     *)
LEMMA FlattenEmpty == FlattenSeq(<<>>) = <<>>
BY DEF FlattenSeq

(* Flattening sequences over S gives one over S.                           *)
LEMMA FlattenType ==
  ASSUME NEW S, NEW ss \in Seq(Seq(S))
  PROVE  FlattenSeq(ss) \in Seq(S)
<1>1. CASE Len(ss) = 0
  <2>1. ss = <<>> BY <1>1
  <2>2. <<>> \in Seq(S) OBVIOUS
  <2> QED BY <2>1, <2>2, FlattenEmpty, Zenon
<1>2. CASE Len(ss) # 0
  <2>0. Len(ss) \in 1..Len(ss) /\ Len(ss) \in Nat BY <1>2
  <2>1. PICK f \in [1..Len(ss) -> Seq(S)] : Flattens(f, ss, Len(ss))
    BY <2>0, FlattensExists
  <2>2. FlattenSeq(ss) = f[Len(ss)] BY <2>0, <2>1, <1>2, FlattenIs, Zenon
  <2>3. f[Len(ss)] \in Seq(S) BY <2>0, Zenon
  <2> QED BY <2>2, <2>3, Zenon
<1> QED BY <1>1, <1>2

(* Flattening, one sequence at a time.                                     *)
LEMMA FlattenAppend ==
  ASSUME NEW S, NEW ss \in Seq(Seq(S)), NEW x \in Seq(S)
  PROVE  FlattenSeq(Append(ss, x)) = FlattenSeq(ss) \o x
<1> DEFINE tt == Append(ss, x)
           n == Len(ss)
<1>0. tt \in Seq(Seq(S)) /\ Len(tt) = n + 1 /\ tt[n + 1] = x
      /\ n \in Nat /\ n + 1 \in Nat /\ n + 1 <= Len(tt) /\ (\A i \in 1..n : tt[i] = ss[i])
  OBVIOUS
<1> HIDE DEF tt, n
<1>1. PICK f \in [1..(n + 1) -> Seq(S)] : Flattens(f, tt, n + 1)
  BY <1>0, FlattensExists
<1>2. FlattenSeq(tt) = f[n + 1]
  <2>1. Len(tt) \in Nat /\ Len(tt) # 0 /\ Flattens(f, tt, Len(tt)) BY <1>0, <1>1
  <2>2. FlattenSeq(tt) = f[Len(tt)] BY <2>1, FlattenIs, Zenon
  <2> QED BY <2>2, <1>0
<1>3. \A i \in 1..(n + 1) : FlattenAt(f, tt, i) BY <1>1, FlattensAt, Zenon
<1>6. f[n + 1] = IF n = 0 THEN x ELSE f[n] \o x
  <2>1. n + 1 \in 1..(n + 1) /\ n + 1 - 1 = n /\ (n + 1 = 1 <=> n = 0) BY <1>0
  <2>2. FlattenAt(f, tt, n + 1) BY <2>1, <1>3
  <2> QED BY <2>1, <2>2, <1>0 DEF FlattenAt
<1>4. CASE n = 0
  <2>1. ss = <<>> BY <1>4 DEF n
  <2>2. <<>> \o x = x OBVIOUS
  <2> QED BY <2>1, <2>2, <1>4, <1>6, <1>2, FlattenEmpty DEF tt
<1>5. CASE n # 0
  <2> DEFINE g == [i \in 1..n |-> f[i]]
  <2>1. ASSUME NEW i \in 1..n PROVE FlattenAt(g, ss, i)
    <3>1. FlattenAt(f, tt, i) BY <1>0, <1>3
    <3>2. g[i] = f[i] /\ (i # 1 => g[i - 1] = f[i - 1]) BY <1>0
    <3>3. tt[i] = ss[i] BY <1>0
    <3> HIDE DEF g
    <3> QED BY <3>1, <3>2, <3>3 DEF FlattenAt
  <2>2. Flattens(g, ss, n)
    <3>1. g = [i \in 1..n |-> g[i]] OBVIOUS
    <3> HIDE DEF g
    <3> QED BY <2>1, <3>1, FlattensAt
  <2>3. FlattenSeq(ss) = g[n] 
    <3> HIDE DEF g
    <3> QED BY <2>2, <1>0, <1>5, FlattenIs DEF n
  <2>4. g[n] = f[n] BY <1>0, <1>5
  <2> QED BY <1>2, <1>6, <2>3, <2>4, <1>5 DEF tt
<1> QED BY <1>4, <1>5

LEMMA FlattenOne ==
  ASSUME NEW S, NEW x \in Seq(S)
  PROVE  FlattenSeq(<<x>>) = x
<1>1. <<>> \in Seq(Seq(S)) /\ Append(<<>>, x) = <<x>> /\ <<>> \o x = x OBVIOUS
<1>2. FlattenSeq(Append(<<>>, x)) = FlattenSeq(<<>>) \o x BY <1>1, FlattenAppend, Zenon
<1> QED BY <1>1, <1>2, FlattenEmpty, Zenon

(* Flattening is a homomorphism.                                           *)
LEMMA FlattenConcat ==
  ASSUME NEW S, NEW a \in Seq(Seq(S)), NEW b \in Seq(Seq(S))
  PROVE  FlattenSeq(a \o b) = FlattenSeq(a) \o FlattenSeq(b)
<1> DEFINE pre(k) == SubSeq(b, 1, k)
           I == {k \in Nat : k <= Len(b) =>
                    FlattenSeq(a \o pre(k)) = FlattenSeq(a) \o FlattenSeq(pre(k))}
<1>1. 0 \in I
  <2>1. pre(0) = <<>> /\ a \o <<>> = a OBVIOUS
  <2>2. FlattenSeq(a) \in Seq(S) BY FlattenType
  <2>3. FlattenSeq(a) \o <<>> = FlattenSeq(a) BY <2>2
  <2> HIDE DEF pre
  <2> QED BY <2>1, <2>3, FlattenEmpty
<1>2. ASSUME NEW k \in Nat, k \in I PROVE k + 1 \in I
  <2> SUFFICES ASSUME k + 1 <= Len(b)
               PROVE  FlattenSeq(a \o pre(k + 1)) = FlattenSeq(a) \o FlattenSeq(pre(k + 1))
    OBVIOUS
  <2>1. /\ pre(k) \in Seq(Seq(S)) /\ b[k + 1] \in Seq(S)
        /\ pre(k + 1) = Append(pre(k), b[k + 1])
    OBVIOUS
  <2>5. FlattenSeq(a \o pre(k)) = FlattenSeq(a) \o FlattenSeq(pre(k)) BY <1>2
  <2> HIDE DEF pre, I
  <2>2. a \o Append(pre(k), b[k + 1]) = Append(a \o pre(k), b[k + 1]) /\ a \o pre(k) \in Seq(Seq(S))
    BY <2>1, SMTT(30)
  <2>3. FlattenSeq(Append(a \o pre(k), b[k + 1])) = FlattenSeq(a \o pre(k)) \o b[k + 1]
    BY <2>2, <2>1, FlattenAppend
  <2>4. FlattenSeq(Append(pre(k), b[k + 1])) = FlattenSeq(pre(k)) \o b[k + 1]
    BY <2>1, FlattenAppend
  <2>6. FlattenSeq(a) \in Seq(S) /\ FlattenSeq(pre(k)) \in Seq(S) BY <2>1, FlattenType
  <2>7. \A u, v, w \in Seq(S) : (u \o v) \o w = u \o (v \o w)
    BY ConcatAssociative
  <2>8. (FlattenSeq(a) \o FlattenSeq(pre(k))) \o b[k + 1]
        = FlattenSeq(a) \o (FlattenSeq(pre(k)) \o b[k + 1])
    BY <2>1, <2>6, <2>7, Zenon
  <2> QED BY <2>1, <2>2, <2>3, <2>4, <2>5, <2>8, Zenon
<1>3. pre(Len(b)) = b /\ Len(b) \in Nat OBVIOUS
<1> HIDE DEF I
<1>4. Len(b) \in I BY <1>1, <1>2, <1>3, SetInduction
<1> HIDE DEF pre
<1> QED BY <1>3, <1>4 DEF I

-----------------------------------------------------------------------------
(* What the sequence f of sequences has, f being a function of an index.   *)
LEMMA FlattenLen ==
  ASSUME NEW S, NEW ss \in Seq(Seq(S)), \A i \in DOMAIN ss : Len(ss[i]) = 1
  PROVE  Len(FlattenSeq(ss)) = Len(ss)
<1> DEFINE pre(k) == SubSeq(ss, 1, k)
           I == {k \in Nat : k <= Len(ss) => Len(FlattenSeq(pre(k))) = k}
<1>1. 0 \in I
  <2>1. pre(0) = <<>> /\ Len(<<>>) = 0 OBVIOUS
  <2> HIDE DEF pre
  <2> QED BY <2>1, FlattenEmpty
<1>2. ASSUME NEW k \in Nat, k \in I PROVE k + 1 \in I
  <2> SUFFICES ASSUME k + 1 <= Len(ss) PROVE Len(FlattenSeq(pre(k + 1))) = k + 1
    OBVIOUS
  <2>1. /\ pre(k) \in Seq(Seq(S)) /\ ss[k + 1] \in Seq(S) /\ Len(ss[k + 1]) = 1
        /\ pre(k + 1) = Append(pre(k), ss[k + 1])
    OBVIOUS
  <2>2. Len(FlattenSeq(pre(k))) = k BY <1>2
  <2> HIDE DEF pre, I
  <2>3. FlattenSeq(Append(pre(k), ss[k + 1])) = FlattenSeq(pre(k)) \o ss[k + 1]
    BY <2>1, FlattenAppend
  <2>4. FlattenSeq(pre(k)) \in Seq(S) BY <2>1, FlattenType
  <2>5. Len(FlattenSeq(pre(k)) \o ss[k + 1]) = Len(FlattenSeq(pre(k))) + Len(ss[k + 1])
    BY <2>1, <2>4, ConcatProperties, ZenonT(40)
  <2> QED BY <2>1, <2>2, <2>3, <2>5
<1>3. pre(Len(ss)) = ss /\ Len(ss) \in Nat OBVIOUS
<1> HIDE DEF I
<1>4. Len(ss) \in I BY <1>1, <1>2, <1>3, SetInduction
<1> HIDE DEF pre
<1> QED BY <1>3, <1>4 DEF I

(* Empty sequences leave no trace.                                         *)
LEMMA FlattenNone ==
  ASSUME NEW S, NEW ss \in Seq(Seq(S)), \A i \in DOMAIN ss : ss[i] = <<>>
  PROVE  FlattenSeq(ss) = <<>>
<1> DEFINE pre(k) == SubSeq(ss, 1, k)
           I == {k \in Nat : k <= Len(ss) => FlattenSeq(pre(k)) = <<>>}
<1>1. 0 \in I
  <2>1. pre(0) = <<>> OBVIOUS
  <2> HIDE DEF pre
  <2> QED BY <2>1, FlattenEmpty
<1>2. ASSUME NEW k \in Nat, k \in I PROVE k + 1 \in I
  <2> SUFFICES ASSUME k + 1 <= Len(ss) PROVE FlattenSeq(pre(k + 1)) = <<>>
    OBVIOUS
  <2>1. /\ pre(k) \in Seq(Seq(S)) /\ ss[k + 1] \in Seq(S) /\ ss[k + 1] = <<>>
        /\ pre(k + 1) = Append(pre(k), ss[k + 1])
    BY SMTT(30)
  <2>2. FlattenSeq(pre(k)) = <<>> BY <1>2
  <2> HIDE DEF pre, I
  <2>3. FlattenSeq(Append(pre(k), ss[k + 1])) = FlattenSeq(pre(k)) \o ss[k + 1]
    BY <2>1, FlattenAppend
  <2>4. <<>> \o <<>> = <<>> OBVIOUS
  <2> QED BY <2>1, <2>2, <2>3, <2>4
<1>3. pre(Len(ss)) = ss /\ Len(ss) \in Nat OBVIOUS
<1> HIDE DEF I
<1>4. Len(ss) \in I BY <1>1, <1>2, <1>3, SetInduction
<1> HIDE DEF pre
<1> QED BY <1>3, <1>4 DEF I

(* FlattenConcat, for a sequence that is given element by element.         *)
LEMMA FlattenJoin ==
  ASSUME NEW S, NEW a \in Seq(Seq(S)), NEW b \in Seq(Seq(S)), NEW c \in Seq(Seq(S)),
         Len(c) = Len(a) + Len(b),
         \A i \in 1..Len(a) : c[i] = a[i],
         \A i \in 1..Len(b) : c[Len(a) + i] = b[i]
  PROVE  FlattenSeq(c) = FlattenSeq(a) \o FlattenSeq(b)
<1>1. a \o b \in Seq(Seq(S)) /\ Len(a \o b) = Len(a) + Len(b)
      /\ \A i \in 1..(Len(a) + Len(b)) :
            (a \o b)[i] = IF i <= Len(a) THEN a[i] ELSE b[i - Len(a)]
  BY ConcatProperties
<1>2. ASSUME NEW i \in 1..Len(c) PROVE c[i] = (a \o b)[i]
  <2>1. CASE i <= Len(a)
    <3>1. i \in 1..Len(a) /\ i \in 1..(Len(a) + Len(b)) BY <2>1
    <3> QED BY <3>1, <2>1, <1>1
  <2>2. CASE ~(i <= Len(a))
    <3>1. i - Len(a) \in 1..Len(b) /\ Len(a) + (i - Len(a)) = i
          /\ i \in 1..(Len(a) + Len(b))
      BY <2>2
    <3>2. c[Len(a) + (i - Len(a))] = b[i - Len(a)] BY <3>1
    <3> QED BY <3>1, <3>2, <2>2, <1>1
  <2> QED BY <2>1, <2>2
<1>3. c = a \o b BY <1>1, <1>2, SeqEqual
<1> QED BY <1>3, FlattenConcat

(* The same sequences, taken apart.                                        *)
LEMMA ConcatAt ==
  ASSUME NEW S, NEW a \in Seq(S), NEW b \in Seq(S)
  PROVE  /\ a \o b \in Seq(S) /\ Len(a \o b) = Len(a) + Len(b)
         /\ \A i \in 1..Len(a) : (a \o b)[i] = a[i] /\ i \in 1..Len(a \o b)
         /\ \A i \in 1..Len(b) : (a \o b)[Len(a) + i] = b[i] /\ Len(a) + i \in 1..Len(a \o b)
         /\ Len(a) \in Nat /\ Len(b) \in Nat
OBVIOUS

-----------------------------------------------------------------------------
(* The sequences of the builder.                                           *)
NodeKinds == {
    "Root", "AdtDecl", "AdtMember", "BinaryExpr", "Block", "BreakExpr",
    "CallArgument", "CallExpr", "Callee", "ClosureLiteral", "Constructor",
    "EnumCase", "ExprBody", "ExprCondition", "ExprElse", "ForExpr",
    "ForIterCond", "FunctionBody", "FunctionDecl", "FunctionSignature",
    "GetExpr", "GetNullableExpr", "GetStaticExpr", "Grouping", "Ident",
    "IfExpr", "ImplDecl", "Implementing", "Implementor", "ImportDecl",
    "Initializer", "Literal", "Method", "Modifier", "Operator",
    "Parameter", "PrefixExpr", "ReturnExpr", "Type", "TypeParameter",
    "Variable", "WhenBranch", "WhenExpr"}
Child == [kind : NodeKinds \cup {"token"}, start : Nat, end : Nat, leaves : Seq(Nat)]
Work  == [kind : NodeKinds, start : Nat, end : Nat, children : Seq(Child)]
Mark_ == [node : Nat, child_count : Nat, start : Nat]

LeavesSeq(children) == [i \in DOMAIN children |-> children[i].leaves]
LeavesOf(children) == FlattenSeq(LeavesSeq(children))
Size(children) == Len(LeavesOf(children))

LEMMA NoTokenNode == "token" \notin NodeKinds /\ "Root" \in NodeKinds
BY DEF NodeKinds

LEMMA ChildType ==
  ASSUME NEW a \in Seq(Child)
  PROVE  \A i \in 1..Len(a) : /\ a[i] \in Child /\ a[i].leaves \in Seq(Nat)
                              /\ a[i].start \in Nat /\ a[i].end \in Nat
<1>1. \A i \in 1..Len(a) : a[i] \in Child BY ElementOfSeq
<1>2. \A c \in Child : c.leaves \in Seq(Nat) /\ c.start \in Nat /\ c.end \in Nat
  BY DEF Child
<1> QED BY <1>1, <1>2

LEMMA WorkType ==
  ASSUME NEW a \in Seq(Work)
  PROVE  \A i \in 1..Len(a) : /\ a[i] \in Work /\ a[i].children \in Seq(Child)
                              /\ a[i].start \in Nat /\ a[i].end \in Nat
                              /\ a[i].kind \in NodeKinds
<1>1. \A i \in 1..Len(a) : a[i] \in Work BY ElementOfSeq
<1>2. \A c \in Work : c.children \in Seq(Child) /\ c.start \in Nat /\ c.end \in Nat
                      /\ c.kind \in NodeKinds BY DEF Work
<1> QED BY <1>1, <1>2

LEMMA LeavesSeqType ==
  ASSUME NEW a \in Seq(Child)
  PROVE  /\ LeavesSeq(a) \in Seq(Seq(Nat)) /\ Len(LeavesSeq(a)) = Len(a)
         /\ \A i \in 1..Len(a) : LeavesSeq(a)[i] = a[i].leaves
         /\ DOMAIN LeavesSeq(a) = 1..Len(a)
<1>1. DOMAIN a = 1..Len(a) /\ Len(a) \in Nat OBVIOUS
<1>2. \A i \in 1..Len(a) : a[i].leaves \in Seq(Nat) BY ChildType
<1> QED BY <1>1, <1>2 DEF LeavesSeq

LEMMA LeavesOfType ==
  ASSUME NEW a \in Seq(Child)
  PROVE  LeavesOf(a) \in Seq(Nat) /\ Size(a) \in Nat
<1>1. LeavesOf(a) \in Seq(Nat) BY LeavesSeqType, FlattenType DEF LeavesOf
<1> QED BY <1>1, LenProperties DEF Size

(* The leaves of children are those of the first ones, then of the         *)
(* others.                                                                 *)
LEMMA LeavesOfConcat ==
  ASSUME NEW a \in Seq(Child), NEW b \in Seq(Child)
  PROVE  /\ LeavesOf(a \o b) = LeavesOf(a) \o LeavesOf(b)
         /\ Size(a \o b) = Size(a) + Size(b)
<1>1. /\ a \o b \in Seq(Child) /\ Len(a \o b) = Len(a) + Len(b)
      /\ \A i \in 1..Len(a) : (a \o b)[i] = a[i] /\ i \in 1..Len(a \o b)
      /\ \A i \in 1..Len(b) : (a \o b)[Len(a) + i] = b[i] /\ Len(a) + i \in 1..Len(a \o b)
  BY ConcatAt
<1> DEFINE ab == a \o b
<1> HIDE DEF ab
<1>2. /\ LeavesSeq(a) \in Seq(Seq(Nat)) /\ Len(LeavesSeq(a)) = Len(a)
      /\ LeavesSeq(b) \in Seq(Seq(Nat)) /\ Len(LeavesSeq(b)) = Len(b)
      /\ LeavesSeq(ab) \in Seq(Seq(Nat)) /\ Len(LeavesSeq(ab)) = Len(a) + Len(b)
      /\ \A i \in 1..Len(a) : LeavesSeq(ab)[i] = LeavesSeq(a)[i]
      /\ \A i \in 1..Len(b) : LeavesSeq(ab)[Len(a) + i] = LeavesSeq(b)[i]
  BY <1>1, LeavesSeqType, ZenonT(40) DEF ab
<1>3. FlattenSeq(LeavesSeq(ab)) = FlattenSeq(LeavesSeq(a)) \o FlattenSeq(LeavesSeq(b))
  <2>1. /\ Len(LeavesSeq(ab)) = Len(LeavesSeq(a)) + Len(LeavesSeq(b))
        /\ \A i \in 1..Len(LeavesSeq(a)) : LeavesSeq(ab)[i] = LeavesSeq(a)[i]
        /\ \A i \in 1..Len(LeavesSeq(b)) : LeavesSeq(ab)[Len(LeavesSeq(a)) + i] = LeavesSeq(b)[i]
    BY <1>2
  <2> QED BY <1>2, <2>1, FlattenJoin, Zenon
<1>4. LeavesOf(ab) = LeavesOf(a) \o LeavesOf(b) BY <1>3 DEF LeavesOf
<1>5. Len(LeavesOf(a) \o LeavesOf(b)) = Len(LeavesOf(a)) + Len(LeavesOf(b))
  BY LeavesOfType, ConcatProperties
<1> QED BY <1>4, <1>5 DEF Size, ab

LEMMA LeavesOfOne ==
  ASSUME NEW c \in Child
  PROVE  LeavesOf(<<c>>) = c.leaves /\ Size(<<c>>) = Len(c.leaves)
<1>1. c.leaves \in Seq(Nat) BY DEF Child
<1>2. LeavesSeq(<<c>>) = <<c.leaves>> BY DEF LeavesSeq
<1>4. FlattenSeq(<<c.leaves>>) = c.leaves BY <1>1, FlattenOne
<1> QED BY <1>2, <1>4 DEF Size, LeavesOf

LEMMA LeavesOfNone == LeavesOf(<<>>) = <<>> /\ Size(<<>>) = 0
<1>1. LeavesSeq(<<>>) = <<>> BY DEF LeavesSeq
<1>2. LeavesOf(<<>>) = <<>> BY <1>1, FlattenEmpty DEF LeavesOf
<1>3. Len(<<>>) = 0 OBVIOUS
<1> QED BY <1>2, <1>3 DEF Size

LEMMA LeavesOfEach ==
  ASSUME NEW a \in Seq(Child), \A i \in 1..Len(a) : Len(a[i].leaves) = 1
  PROVE  Size(a) = Len(a)
<1>1. \A i \in DOMAIN LeavesSeq(a) : Len(LeavesSeq(a)[i]) = 1 BY LeavesSeqType, SMTT(30)
<1>2. Len(FlattenSeq(LeavesSeq(a))) = Len(LeavesSeq(a))
  BY <1>1, LeavesSeqType, FlattenLen
<1> QED BY <1>2, LeavesSeqType DEF Size, LeavesOf

(* The leaves of the open nodes.                                           *)
NodeLeaves(ns) == [n \in DOMAIN ns |-> IntoNode(ns[n]).leaves]

LEMMA NodeLeavesType ==
  ASSUME NEW a \in Seq(Work)
  PROVE  /\ NodeLeaves(a) \in Seq(Seq(Nat)) /\ Len(NodeLeaves(a)) = Len(a)
         /\ \A i \in 1..Len(a) : NodeLeaves(a)[i] = LeavesOf(a[i].children)
<1>1. DOMAIN a = 1..Len(a) /\ Len(a) \in Nat OBVIOUS
<1>2. \A i \in 1..Len(a) : LeavesOf(a[i].children) \in Seq(Nat)
  BY WorkType, LeavesOfType
<1>3. \A i \in 1..Len(a) : IntoNode(a[i]).leaves = LeavesOf(a[i].children)
  BY DEF IntoNode, LeavesOf, LeavesSeq
<1> QED BY <1>1, <1>2, <1>3 DEF NodeLeaves

LEMMA LeavesType ==
  ASSUME NEW a \in Seq(Work) PROVE Leaves(a) \in Seq(Nat)
<1>1. Leaves(a) = FlattenSeq(NodeLeaves(a)) BY DEF Leaves, NodeLeaves
<1> QED BY <1>1, NodeLeavesType, FlattenType

(* The leaves of a tree are those of its lower nodes, then of the upper    *)
(* ones.                                                                   *)
LEMMA LeavesConcat ==
  ASSUME NEW a \in Seq(Work), NEW b \in Seq(Work)
  PROVE  Leaves(a \o b) = Leaves(a) \o Leaves(b)
<1>1. /\ a \o b \in Seq(Work) /\ Len(a \o b) = Len(a) + Len(b)
      /\ \A i \in 1..Len(a) : (a \o b)[i] = a[i] /\ i \in 1..Len(a \o b)
      /\ \A i \in 1..Len(b) : (a \o b)[Len(a) + i] = b[i] /\ Len(a) + i \in 1..Len(a \o b)
  BY ConcatAt
<1> DEFINE ab == a \o b
<1> HIDE DEF ab
<1>2. /\ NodeLeaves(a) \in Seq(Seq(Nat)) /\ Len(NodeLeaves(a)) = Len(a)
      /\ NodeLeaves(b) \in Seq(Seq(Nat)) /\ Len(NodeLeaves(b)) = Len(b)
      /\ NodeLeaves(ab) \in Seq(Seq(Nat)) /\ Len(NodeLeaves(ab)) = Len(a) + Len(b)
      /\ \A i \in 1..Len(a) : NodeLeaves(ab)[i] = NodeLeaves(a)[i]
      /\ \A i \in 1..Len(b) : NodeLeaves(ab)[Len(a) + i] = NodeLeaves(b)[i]
  BY <1>1, NodeLeavesType, ZenonT(40) DEF ab
<1>3. FlattenSeq(NodeLeaves(ab)) = FlattenSeq(NodeLeaves(a)) \o FlattenSeq(NodeLeaves(b))
  <2>1. /\ Len(NodeLeaves(ab)) = Len(NodeLeaves(a)) + Len(NodeLeaves(b))
        /\ \A i \in 1..Len(NodeLeaves(a)) : NodeLeaves(ab)[i] = NodeLeaves(a)[i]
        /\ \A i \in 1..Len(NodeLeaves(b)) : NodeLeaves(ab)[Len(NodeLeaves(a)) + i] = NodeLeaves(b)[i]
    BY <1>2
  <2> QED BY <1>2, <2>1, FlattenJoin, Zenon
<1>4. \A x : Leaves(x) = FlattenSeq(NodeLeaves(x)) BY DEF Leaves, NodeLeaves
<1> QED BY <1>3, <1>4 DEF ab

LEMMA LeavesOne ==
  ASSUME NEW w \in Work PROVE Leaves(<<w>>) = LeavesOf(w.children)
<1>0. w.children \in Seq(Child) BY DEF Work
<1>1. LeavesOf(w.children) \in Seq(Nat) BY <1>0, LeavesOfType
<1>2. IntoNode(w).leaves = LeavesOf(w.children) BY DEF IntoNode, LeavesOf, LeavesSeq
<1>3. [n \in DOMAIN <<w>> |-> IntoNode(<<w>>[n]).leaves] = <<IntoNode(w).leaves>> OBVIOUS
<1>4. Leaves(<<w>>) = FlattenSeq(<<LeavesOf(w.children)>>) BY <1>2, <1>3 DEF Leaves
<1> QED BY <1>1, <1>4, FlattenOne

(* A sequence is a prefix and the rest.                                    *)
LEMMA SplitAt ==
  ASSUME NEW S, NEW a \in Seq(S), NEW k \in 0..Len(a)
  PROVE  /\ SubSeq(a, 1, k) \in Seq(S) /\ SubSeq(a, k + 1, Len(a)) \in Seq(S)
         /\ Len(SubSeq(a, 1, k)) = k /\ Len(SubSeq(a, k + 1, Len(a))) = Len(a) - k
         /\ a = SubSeq(a, 1, k) \o SubSeq(a, k + 1, Len(a))
<1>1. SubSeq(a, 1, k) \in Seq(S) /\ Len(SubSeq(a, 1, k)) = k 
      /\ \A i \in 1..k : SubSeq(a, 1, k)[i] = a[i]
  OBVIOUS
<1>2. SubSeq(a, k + 1, Len(a)) \in Seq(S) /\ Len(SubSeq(a, k + 1, Len(a))) = Len(a) - k
      /\ \A i \in 1..(Len(a) - k) : SubSeq(a, k + 1, Len(a))[i] = a[k + i]
  OBVIOUS
<1> DEFINE l == SubSeq(a, 1, k)
           r == SubSeq(a, k + 1, Len(a))
<1> HIDE DEF l, r
<1>6. /\ l \in Seq(S) /\ Len(l) = k /\ \A i \in 1..k : l[i] = a[i]
      /\ r \in Seq(S) /\ Len(r) = Len(a) - k /\ \A i \in 1..(Len(a) - k) : r[i] = a[k + i]
      /\ k \in Nat /\ Len(a) \in Nat /\ k <= Len(a)
  BY <1>1, <1>2 DEF l, r
<1>3. l \o r \in Seq(S) /\ Len(l \o r) = Len(a)
      /\ \A i \in 1..Len(a) : (l \o r)[i] = IF i <= k THEN l[i] ELSE r[i - k]
  <2>1. l \o r \in Seq(S) /\ Len(l \o r) = Len(l) + Len(r)
        /\ \A i \in 1..(Len(l) + Len(r)) :
              (l \o r)[i] = IF i <= Len(l) THEN l[i] ELSE r[i - Len(l)]
    BY <1>6, ConcatProperties
  <2>2. Len(l) + Len(r) = Len(a) BY <1>6
  <2> QED BY <2>1, <2>2, <1>6
<1>4. ASSUME NEW i \in 1..Len(a) PROVE a[i] = (l \o r)[i]
  <2>1. CASE i <= k BY <2>1, <1>3, <1>6
  <2>2. CASE ~(i <= k)
    <3>1. i - k \in 1..(Len(a) - k) /\ k + (i - k) = i BY <2>2, <1>6
    <3>2. r[i - k] = a[k + (i - k)] BY <3>1, <1>6
    <3> QED BY <3>1, <3>2, <2>2, <1>3
  <2> QED BY <2>1, <2>2
<1>5. a = l \o r BY <1>3, <1>4, SeqEqual
<1> QED BY <1>1, <1>2, <1>5 DEF l, r

(* So are its leaves.                                                      *)
LEMMA LeavesOfPrefix ==
  ASSUME NEW a \in Seq(Child), NEW k \in 0..Len(a)
  PROVE  /\ LeavesOf(a) = LeavesOf(SubSeq(a, 1, k)) \o LeavesOf(SubSeq(a, k + 1, Len(a)))
         /\ Size(a) = Size(SubSeq(a, 1, k)) + Size(SubSeq(a, k + 1, Len(a)))
<1> DEFINE l == SubSeq(a, 1, k)
           r == SubSeq(a, k + 1, Len(a))
<1>2. l \in Seq(Child) /\ r \in Seq(Child) /\ a = l \o r BY SplitAt
<1> HIDE DEF l, r
<1>3. LeavesOf(a) = LeavesOf(l) \o LeavesOf(r) /\ Size(a) = Size(l) + Size(r)
  BY <1>2, LeavesOfConcat, Zenon
<1> QED BY <1>3 DEF l, r

-----------------------------------------------------------------------------
(* The spans of the tree under construction.                               *)
(* Where the text of the first k children of a node ends.                  *)
Upto(w, k) == w.start + Size(SubSeq(w.children, 1, k))

ChildFits(w, c) ==
  LET child == w.children[c] IN
  IF child.kind = "token" THEN Len(child.leaves) = 1
  ELSE child.end = Upto(w, c) /\ child.end - child.start = Len(child.leaves)
NodeFits(w) == \A c \in 1..Len(w.children) : ChildFits(w, c)

TreeFits(ns) ==
  /\ \A n \in 1..Len(ns) : NodeFits(ns[n])
  /\ \A n \in 1..(Len(ns) - 1) : ns[n + 1].start = ns[n].start + Size(ns[n].children)
(* Only the end of the node on top is up to date.                          *)
TopFits(ns) == ns[Len(ns)].end = ns[Len(ns)].start + Size(ns[Len(ns)].children)

MarkFits(ns, m) ==
  /\ m.node \in 1..Len(ns) /\ m.child_count \in 0..Len(ns[m.node].children)
  /\ m.start = Upto(ns[m.node], m.child_count)
Sooner(m, o) ==
  \/ m.node < o.node
  \/ m.node = o.node /\ m.child_count <= o.child_count

Stack(ns, ms) ==
  /\ ns \in Seq(Work) /\ ns # <<>> /\ ns[1].kind = "Root"
  /\ TreeFits(ns)
  /\ ms \in Seq(Mark_)
  /\ \A i \in 1..Len(ms) : MarkFits(ns, ms[i])
  /\ \A i, j \in 1..Len(ms) : i <= j => Sooner(ms[i], ms[j])
Builder(ns, ms) == Stack(ns, ms) /\ TopFits(ns)

LEMMA UptoType ==
  ASSUME NEW w \in Work, NEW k \in 0..Len(w.children) PROVE Upto(w, k) \in Nat
<1>1. w.children \in Seq(Child) /\ w.start \in Nat BY DEF Work
<1>2. Size(SubSeq(w.children, 1, k)) \in Nat BY <1>1, SplitAt, LeavesOfType
<1> QED BY <1>1, <1>2 DEF Upto

LEMMA UptoAll ==
  ASSUME NEW w \in Work
  PROVE  Upto(w, Len(w.children)) = w.start + Size(w.children) /\ Upto(w, 0) = w.start
<1>1. w.children \in Seq(Child) /\ w.start \in Nat BY DEF Work
<1>2. SubSeq(w.children, 1, Len(w.children)) = w.children
      /\ SubSeq(w.children, 1, 0) = <<>> BY <1>1
<1>3. Upto(w, 0) = w.start + 0 BY <1>2, LeavesOfNone DEF Upto
<1>4. Upto(w, Len(w.children)) = w.start + Size(w.children) BY <1>2 DEF Upto
<1>5. w.start + 0 = w.start BY <1>1
<1> QED BY <1>3, <1>4, <1>5

(* A node that gets more children: what was there keeps its place.         *)
LEMMA NodeGrows ==
  ASSUME NEW w \in Work, NEW v \in Work, NEW more \in Seq(Child),
         v.start = w.start, v.children = w.children \o more, NodeFits(w)
  PROVE  /\ Len(v.children) = Len(w.children) + Len(more)
         /\ \A k \in 0..Len(w.children) : Upto(v, k) = Upto(w, k)
         /\ \A c \in 1..Len(w.children) : ChildFits(v, c)
         /\ Size(v.children) = Size(w.children) + Size(more)
         /\ \A c \in 1..Len(more) : v.children[Len(w.children) + c] = more[c]
<1> DEFINE wc == w.children
           vc == v.children
<1>1. wc \in Seq(Child) /\ vc \in Seq(Child) BY DEF Work
<1> HIDE DEF wc, vc
<1>2. vc = wc \o more BY DEF wc, vc
<1>3. /\ Len(vc) = Len(wc) + Len(more)
      /\ \A i \in 1..Len(wc) : vc[i] = wc[i]
      /\ \A i \in 1..Len(more) : vc[Len(wc) + i] = more[i]
      /\ Len(wc) \in Nat /\ Len(more) \in Nat
  BY <1>1, <1>2, ConcatAt
<1>4. ASSUME NEW k \in 0..Len(wc) PROVE SubSeq(vc, 1, k) = SubSeq(wc, 1, k)
  <2>1. k \in 0..Len(vc) BY <1>3
  <2>2. /\ SubSeq(vc, 1, k) \in Seq(Child) /\ Len(SubSeq(vc, 1, k)) = k
        /\ SubSeq(wc, 1, k) \in Seq(Child) /\ Len(SubSeq(wc, 1, k)) = k
    BY <1>1, <2>1, SplitAt
  <2>3. \A i \in 1..k : SubSeq(vc, 1, k)[i] = vc[i] /\ SubSeq(wc, 1, k)[i] = wc[i]
                        /\ i \in 1..Len(wc)
    BY <1>1, <2>1
  <2>4. \A i \in 1..k : SubSeq(vc, 1, k)[i] = SubSeq(wc, 1, k)[i] BY <2>3, <1>3
  <2> QED BY <2>2, <2>4, SeqEqual
<1>5. ASSUME NEW k \in 0..Len(wc) PROVE Upto(v, k) = Upto(w, k)
  BY <1>4 DEF Upto, wc, vc
<1>6. ASSUME NEW c \in 1..Len(wc) PROVE ChildFits(v, c)
  <2>1. c \in 0..Len(wc) BY <1>3
  <2>2. ChildFits(w, c) BY DEF NodeFits, wc
  <2>3. v.children[c] = w.children[c] BY <1>3 DEF wc, vc
  <2>4. Upto(v, c) = Upto(w, c) BY <2>1, <1>5
  <2> QED BY <2>2, <2>3, <2>4 DEF ChildFits
<1>7. Size(vc) = Size(wc) + Size(more) BY <1>1, <1>2, LeavesOfConcat
<1> QED BY <1>3, <1>5, <1>6, <1>7 DEF wc, vc

(* A node that keeps its first k children.                                 *)
LEMMA NodeCut ==
  ASSUME NEW w \in Work, NEW v \in Work, NEW k \in 0..Len(w.children),
         v.start = w.start, v.children = SubSeq(w.children, 1, k), NodeFits(w)
  PROVE  /\ Len(v.children) = k
         /\ \A i \in 0..k : Upto(v, i) = Upto(w, i)
         /\ NodeFits(v)
<1> DEFINE wc == w.children
           vc == v.children
<1>1. wc \in Seq(Child) /\ vc \in Seq(Child) BY DEF Work
<1> HIDE DEF wc, vc
<1>2. vc = SubSeq(wc, 1, k) /\ Len(wc) \in Nat /\ k \in Nat /\ k <= Len(wc)
  BY <1>1 DEF wc, vc
<1>3. Len(vc) = k /\ \A i \in 1..k : vc[i] = wc[i] BY <1>1, <1>2
<1>4. ASSUME NEW i \in 0..k PROVE SubSeq(vc, 1, i) = SubSeq(wc, 1, i)
  <2>1. i \in 0..Len(wc) /\ i \in 0..Len(vc) BY <1>2, <1>3
  <2>2. /\ SubSeq(vc, 1, i) \in Seq(Child) /\ Len(SubSeq(vc, 1, i)) = i
        /\ SubSeq(wc, 1, i) \in Seq(Child) /\ Len(SubSeq(wc, 1, i)) = i
    BY <1>1, <2>1, SplitAt
  <2>3. \A j \in 1..i : SubSeq(vc, 1, i)[j] = vc[j] /\ SubSeq(wc, 1, i)[j] = wc[j]
                        /\ j \in 1..k
    BY <1>1, <2>1
  <2>4. \A j \in 1..i : SubSeq(vc, 1, i)[j] = SubSeq(wc, 1, i)[j] BY <2>3, <1>3
  <2> QED BY <2>2, <2>4, SeqEqual
<1>5. ASSUME NEW i \in 0..k PROVE Upto(v, i) = Upto(w, i)
  BY <1>4 DEF Upto, wc, vc
<1>6. ASSUME NEW c \in 1..Len(vc) PROVE ChildFits(v, c)
  <2>1. c \in 1..k /\ c \in 0..k /\ c \in 1..Len(wc) BY <1>2, <1>3
  <2>2. ChildFits(w, c) BY <2>1 DEF NodeFits, wc
  <2>3. v.children[c] = w.children[c] BY <1>3, <2>1 DEF wc, vc
  <2>4. Upto(v, c) = Upto(w, c) BY <2>1, <1>5
  <2> QED BY <2>2, <2>3, <2>4 DEF ChildFits
<1> QED BY <1>3, <1>5, <1>6 DEF NodeFits, vc

(* A node that has the other children of w, and starts where they do.      *)
LEMMA NodeRest ==
  ASSUME NEW w \in Work, NEW v \in Work, NEW k \in 0..Len(w.children),
         v.start = Upto(w, k), v.children = SubSeq(w.children, k + 1, Len(w.children)),
         NodeFits(w)
  PROVE  /\ NodeFits(v)
         /\ v.start + Size(v.children) = w.start + Size(w.children)
<1> DEFINE wc == w.children
           vc == v.children
<1>1. wc \in Seq(Child) /\ vc \in Seq(Child) /\ w.start \in Nat /\ v.start \in Nat
  BY DEF Work
<1> HIDE DEF wc, vc
<1>2. vc = SubSeq(wc, k + 1, Len(wc)) /\ Len(wc) \in Nat /\ k \in Nat /\ k <= Len(wc)
      /\ k \in 0..Len(wc)
  BY <1>1 DEF wc, vc
<1>3. Len(vc) = Len(wc) - k /\ \A i \in 1..Len(vc) : vc[i] = wc[k + i] BY <1>1, <1>2
<1> DEFINE pre == SubSeq(wc, 1, k)
<1>p. pre \in Seq(Child) /\ Len(pre) = k /\ \A i \in 1..k : pre[i] = wc[i]
  BY <1>1, <1>2
<1> HIDE DEF pre
<1>4. ASSUME NEW i \in 0..Len(vc)
      PROVE  SubSeq(wc, 1, k + i) = pre \o SubSeq(vc, 1, i)
             /\ SubSeq(vc, 1, i) \in Seq(Child)
  <2>1. k + i \in 0..Len(wc) /\ i \in Nat BY <1>2, <1>3
  <2>2. /\ SubSeq(vc, 1, i) \in Seq(Child) /\ Len(SubSeq(vc, 1, i)) = i
        /\ SubSeq(wc, 1, k + i) \in Seq(Child) /\ Len(SubSeq(wc, 1, k + i)) = k + i
    BY <1>1, <2>1, SplitAt
  <2>3. \A j \in 1..(k + i) : SubSeq(wc, 1, k + i)[j] = wc[j]
    BY <1>1, <2>1
  <2>4. \A j \in 1..i : SubSeq(vc, 1, i)[j] = vc[j] BY <1>1, <2>1
  <2> DEFINE s == SubSeq(vc, 1, i)
             t == SubSeq(wc, 1, k + i)
  <2> HIDE DEF s, t
  <2>5. pre \o s \in Seq(Child) /\ Len(pre \o s) = k + i
        /\ \A j \in 1..(k + i) : (pre \o s)[j] = IF j <= k THEN pre[j] ELSE s[j - k]
    <3>1. s \in Seq(Child) /\ Len(s) = i BY <2>2 DEF s
    <3> QED BY <3>1, <1>p, ConcatProperties
  <2>6. ASSUME NEW j \in 1..(k + i) PROVE t[j] = (pre \o s)[j]
    <3>1. CASE j <= k
      <4>1. j \in 1..k BY <3>1
      <4> QED BY <4>1, <3>1, <1>p, <2>3, <2>5 DEF t
    <3>2. CASE ~(j <= k)
      <4>1. j - k \in 1..i /\ j - k \in 1..Len(vc) /\ k + (j - k) = j
        BY <3>2, <1>2, <2>1
      <4>2. s[j - k] = vc[j - k] BY <4>1, <2>4 DEF s
      <4>3. vc[j - k] = wc[k + (j - k)] BY <4>1, <1>3
      <4> QED BY <4>1, <4>2, <4>3, <3>2, <2>3, <2>5 DEF t
    <3> QED BY <3>1, <3>2
  <2>7. t = pre \o s
    <3>1. t \in Seq(Child) /\ Len(t) = k + i BY <2>2 DEF t
    <3> QED BY <3>1, <2>5, <2>6, SeqEqual
  <2> QED BY <2>2, <2>7 DEF s, t
<1>5. ASSUME NEW i \in 0..Len(vc) PROVE Upto(w, k + i) = Upto(v, i)
  <2>1. Size(SubSeq(wc, 1, k + i)) = Size(pre) + Size(SubSeq(vc, 1, i))
    BY <1>4, <1>p, LeavesOfConcat
  <2>2. Size(pre) \in Nat /\ Size(SubSeq(vc, 1, i)) \in Nat BY <1>4, <1>p, LeavesOfType
  <2>3. v.start = w.start + Size(pre) BY DEF Upto, pre, wc
  <2>4. Upto(w, k + i) = w.start + Size(SubSeq(wc, 1, k + i))
        /\ Upto(v, i) = v.start + Size(SubSeq(vc, 1, i)) BY DEF Upto, wc, vc
  <2> QED BY <2>1, <2>2, <2>3, <2>4, <1>1
<1>6. ASSUME NEW c \in 1..Len(vc) PROVE ChildFits(v, c)
  <2>1. c \in 0..Len(vc) /\ k + c \in 1..Len(wc) BY <1>2, <1>3
  <2>2. ChildFits(w, k + c) BY <2>1 DEF NodeFits, wc
  <2>3. v.children[c] = w.children[k + c] BY <1>3 DEF wc, vc
  <2>4. Upto(v, c) = Upto(w, k + c) BY <2>1, <1>5
  <2> QED BY <2>2, <2>3, <2>4 DEF ChildFits
<1>7. v.start + Size(vc) = w.start + Size(wc)
  <2>1. Len(vc) \in 0..Len(vc) /\ k + Len(vc) = Len(wc) BY <1>2, <1>3
  <2>2. Upto(w, Len(wc)) = Upto(v, Len(vc)) BY <2>1, <1>5
  <2> QED BY <2>2, UptoAll DEF wc, vc
<1> QED BY <1>6, <1>7 DEF NodeFits, vc, wc

(* EndOf finds the end of the text of a node's children.                   *)
LEMMA EndOfIs ==
  ASSUME NEW w \in Work, NodeFits(w)
  PROVE  EndOf(w.children, w.start) = w.start + Size(w.children)
<1> DEFINE wc == w.children
           I == {i \in 1..Len(wc) : wc[i].kind # "token"}
           last == IF I # {} THEN Max(I) ELSE 0
<1>1. wc \in Seq(Child) /\ w.start \in Nat /\ Len(wc) \in Nat BY DEF Work
<1>2. EndOf(wc, w.start) = (IF last = 0 THEN w.start ELSE wc[last].end) + (Len(wc) - last)
  BY DEF EndOf, SelectLastInSeq
<1> HIDE DEF wc
<1>3. last \in 0..Len(wc) /\ (last # 0 => last \in I)
      /\ \A i \in 1..Len(wc) : i > last => wc[i].kind = "token"
  <2>1. CASE I = {} BY <2>1, <1>1
  <2>2. CASE I # {}
    <3> DEFINE T == {Len(wc) - i : i \in I}
    <3>1. T \subseteq Nat /\ T # {} BY <2>2, <1>1
    <3>2. PICK x \in T : \A y \in T : x <= y BY <3>1, LeastElement
    <3>3. PICK m \in I : x = Len(wc) - m OBVIOUS
    <3>4. \A i \in I : m >= i
      <4> SUFFICES ASSUME NEW i \in I PROVE m >= i OBVIOUS
      <4>1. Len(wc) - i \in T OBVIOUS
      <4>2. x <= Len(wc) - i BY <4>1, <3>2
      <4> QED BY <4>2, <3>3, <1>1
    <3>5. Max(I) \in I /\ \A i \in I : Max(I) >= i
      <4> HIDE DEF I
      <4> QED BY <3>4 DEF Max
    <3>6. last = Max(I) BY <2>2
    <3> HIDE DEF last
    <3>7. last \in 1..Len(wc) /\ last \in I BY <3>5, <3>6
    <3>8. ASSUME NEW i \in 1..Len(wc), i > last, wc[i].kind # "token" PROVE FALSE
      <4>1. i \in I BY <3>8
      <4> QED BY <4>1, <3>8, <3>5, <3>6, <1>1, <3>7
    <3> QED BY <3>7, <3>8, <1>1
  <2> QED BY <2>1, <2>2
<1> HIDE DEF last
<1> DEFINE r == SubSeq(wc, last + 1, Len(wc))
<1>4. Size(r) = Len(wc) - last
  <2>1. r \in Seq(Child) /\ Len(r) = Len(wc) - last BY <1>1, <1>3, SplitAt
  <2>2. ASSUME NEW i \in 1..Len(r) PROVE Len(r[i].leaves) = 1
    <3>1. r[i] = wc[last + i] /\ last + i \in 1..Len(wc) /\ last + i > last
      BY <1>1, <1>3, <2>1
    <3>2. ChildFits(w, last + i) BY <3>1 DEF NodeFits, wc
    <3>3. wc[last + i].kind = "token" BY <3>1, <1>3
    <3> QED BY <3>1, <3>2, <3>3 DEF ChildFits, wc
  <2> HIDE DEF r
  <2> QED BY <2>1, <2>2, LeavesOfEach
<1>5. Size(wc) = Size(SubSeq(wc, 1, last)) + Size(r) BY <1>1, <1>3, LeavesOfPrefix
<1>6. (IF last = 0 THEN w.start ELSE wc[last].end) = w.start + Size(SubSeq(wc, 1, last))
  <2>1. CASE last = 0
    <3>1. SubSeq(wc, 1, 0) = <<>> BY <1>1
    <3>2. Size(SubSeq(wc, 1, last)) = 0 BY <2>1, <3>1, LeavesOfNone
    <3> HIDE DEF r, I
    <3> QED BY <2>1, <3>2, <1>1
  <2>2. CASE last # 0
    <3>1. last \in 1..Len(wc) /\ wc[last].kind # "token" BY <2>2, <1>3
    <3>2. ChildFits(w, last) BY <3>1 DEF NodeFits, wc
    <3>3. wc[last].end = Upto(w, last) BY <3>1, <3>2 DEF ChildFits, wc
    <3> QED BY <3>3, <2>2 DEF Upto, wc
  <2> QED BY <2>1, <2>2
<1> HIDE DEF r, I
<1>7. Size(SubSeq(wc, 1, last)) \in Nat /\ last \in Nat
  <2>1. SubSeq(wc, 1, last) \in Seq(Child) BY <1>1, <1>3, SplitAt
  <2>2. Size(SubSeq(wc, 1, last)) \in Nat BY <2>1, LeavesOfType
  <2>3. last \in Nat BY <1>1, <1>3
  <2> QED BY <2>2, <2>3
<1> QED BY <1>1, <1>2, <1>4, <1>5, <1>6, <1>7 DEF wc

-----------------------------------------------------------------------------
(* The operations of the builder.                                          *)

LEMMA Indices ==
  ASSUME NEW n \in Nat, n # 0
  PROVE  /\ n \in 1..n /\ n - 1 \in 0..n /\ n - 1 \in Nat
         /\ n # 1 => 1 \in 1..(n - 1)
         /\ \A i \in 1..n : i \in 1..(n - 1) \/ i = n
OBVIOUS

(* A sequence and its last element, also when that is replaced.            *)
LEMMA LastSplit ==
  ASSUME NEW S, NEW s \in Seq(S), s # <<>>, NEW x \in S
  PROVE  /\ Len(s) \in Nat /\ Len(s) # 0 /\ Len(s) \in 1..Len(s) /\ s[Len(s)] \in S
         /\ SubSeq(s, 1, Len(s) - 1) \in Seq(S) /\ Len(SubSeq(s, 1, Len(s) - 1)) = Len(s) - 1
         /\ s = SubSeq(s, 1, Len(s) - 1) \o <<s[Len(s)]>>
         /\ [s EXCEPT ![Len(s)] = x] = SubSeq(s, 1, Len(s) - 1) \o <<x>>
         /\ [s EXCEPT ![Len(s)] = x] \in Seq(S) /\ Len([s EXCEPT ![Len(s)] = x]) = Len(s)
         /\ \A i \in 1..Len(s) :
               [s EXCEPT ![Len(s)] = x][i] = IF i = Len(s) THEN x ELSE s[i]
<1> DEFINE n == Len(s)
           pre == SubSeq(s, 1, n - 1)
           t == [s EXCEPT ![n] = x]
<1>1. n \in Nat /\ n # 0 /\ n \in 1..n /\ s[n] \in S OBVIOUS
<1>2. pre \in Seq(S) /\ Len(pre) = n - 1 /\ \A i \in 1..(n - 1) : pre[i] = s[i]
  <2>1. n - 1 \in Int /\ 1 \in Int /\ \A i \in 1..(n - 1) : s[i] \in S /\ 1 + i - 1 = i
    BY <1>1
  <2>2. n - 1 \in 0..n /\ n - 1 - 1 + 1 = n - 1 BY <1>1
  <2>3. \A i \in 1..(n - 1) : pre[i] = s[i]
    <3>1. pre = [i \in 1..(n - 1 - 1 + 1) |-> s[1 + i - 1]] BY <1>1
    <3> HIDE DEF n, pre
    <3> QED BY <3>1, <2>1, <2>2
  <2> QED BY <2>2, <2>3, SplitAt
<1>3. t \in Seq(S) /\ Len(t) = n /\ \A i \in 1..n : t[i] = IF i = n THEN x ELSE s[i]
  BY <1>1, ExceptSeq
<1> HIDE DEF pre, t
<1>4. \A y \in S : /\ pre \o <<y>> \in Seq(S) /\ Len(pre \o <<y>>) = n
                   /\ \A i \in 1..n : (pre \o <<y>>)[i] = IF i = n THEN y ELSE pre[i]
  <2> SUFFICES ASSUME NEW y \in S
               PROVE  /\ pre \o <<y>> \in Seq(S) /\ Len(pre \o <<y>>) = n
                      /\ \A i \in 1..n : (pre \o <<y>>)[i] = IF i = n THEN y ELSE pre[i]
    OBVIOUS
  <2>1. <<y>> \in Seq(S) /\ Len(<<y>>) = 1 /\ <<y>>[1] = y OBVIOUS
  <2> HIDE DEF n
  <2>2. /\ pre \o <<y>> \in Seq(S) /\ Len(pre \o <<y>>) = Len(pre) + 1
        /\ \A i \in 1..(Len(pre) + 1) :
              (pre \o <<y>>)[i] = IF i <= Len(pre) THEN pre[i] ELSE <<y>>[i - Len(pre)]
    BY <2>1, <1>2, ConcatProperties
  <2> QED BY <2>1, <2>2, <1>1, <1>2
<1> HIDE DEF n
<1>5. \A i \in 1..n : s[i] = (pre \o <<s[n]>>)[i]
  <2>1. \A i \in 1..n : i = n \/ i \in 1..(n - 1) BY <1>1
  <2> QED BY <2>1, <1>1, <1>2, <1>4
<1>6. s = pre \o <<s[n]>>
  <2>1. Len(s) = n BY DEF n
  <2> QED BY <2>1, <1>1, <1>4, <1>5, SeqEqual
<1>7. \A i \in 1..n : t[i] = (pre \o <<x>>)[i]
  <2>1. \A i \in 1..n : i = n \/ i \in 1..(n - 1) BY <1>1
  <2> QED BY <2>1, <1>1, <1>2, <1>3, <1>4
<1>8. t = pre \o <<x>> BY <1>3, <1>4, <1>7, SeqEqual
<1> QED BY <1>1, <1>2, <1>3, <1>6, <1>8 DEF n, pre, t

(* The node on top is replaced.                                            *)
ReplacesTop(v, ns, w) == v = [ns EXCEPT ![Len(ns)] = w]

LEMMA OnTop ==
  ASSUME NEW ns \in Seq(Work), ns # <<>>, NEW w \in Work,
         NEW v, ReplacesTop(v, ns, w)
  PROVE  /\ v \in Seq(Work) /\ Len(v) = Len(ns) /\ Len(ns) \in Nat /\ Len(ns) # 0
         /\ v[Len(ns)] = w /\ \A n \in 1..(Len(ns) - 1) : v[n] = ns[n] /\ n \in 1..Len(ns)
         /\ Leaves(v) = Leaves(SubSeq(ns, 1, Len(ns) - 1)) \o LeavesOf(w.children)
         /\ Leaves(ns) = Leaves(SubSeq(ns, 1, Len(ns) - 1)) \o LeavesOf(ns[Len(ns)].children)
<1> DEFINE pre == SubSeq(ns, 1, Len(ns) - 1)
<1>1. /\ Len(ns) \in Nat /\ Len(ns) # 0 /\ Len(ns) \in 1..Len(ns) /\ ns[Len(ns)] \in Work
      /\ pre \in Seq(Work) /\ ns = pre \o <<ns[Len(ns)]>> /\ v = pre \o <<w>>
  BY LastSplit DEF ReplacesTop
<1>2. /\ v \in Seq(Work) /\ Len(v) = Len(ns)
      /\ \A n \in 1..Len(ns) : v[n] = IF n = Len(ns) THEN w ELSE ns[n]
  <2> DEFINE t == [ns EXCEPT ![Len(ns)] = w]
  <2>1. /\ t \in Seq(Work) /\ Len(t) = Len(ns)
        /\ \A n \in 1..Len(ns) : t[n] = IF n = Len(ns) THEN w ELSE ns[n]
    BY LastSplit
  <2>2. v = t BY DEF ReplacesTop
  <2> QED BY <2>1, <2>2, Zenon
<1> HIDE DEF pre
<1>3. \A n \in 1..(Len(ns) - 1) : n # Len(ns) /\ n \in 1..Len(ns) BY <1>1
<1>4. v[Len(ns)] = w /\ \A n \in 1..(Len(ns) - 1) : v[n] = ns[n] BY <1>1, <1>2, <1>3
<1>9. <<w>> \in Seq(Work) /\ <<ns[Len(ns)]>> \in Seq(Work) BY <1>1
<1>10. Leaves(pre \o <<w>>) = Leaves(pre) \o LeavesOf(w.children)
  BY <1>1, <1>9, LeavesConcat, LeavesOne
<1>11. Leaves(pre \o <<ns[Len(ns)]>>) = Leaves(pre) \o LeavesOf(ns[Len(ns)].children)
  BY <1>1, <1>9, LeavesConcat, LeavesOne
<1> QED BY <1>1, <1>2, <1>3, <1>4, <1>10, <1>11 DEF pre

Extends(w, u, more) ==
  /\ w.kind = u.kind /\ w.start = u.start /\ w.children = u.children \o more
  /\ NodeFits(w) /\ w.end = w.start + Size(w.children)

(* The node on top gets more children that are tokens.                     *)
LEMMA BuilderGrows ==
  ASSUME NEW ns, NEW ms, Stack(ns, ms), NEW w \in Work, NEW more \in Seq(Child),
         NEW v, ReplacesTop(v, ns, w), Extends(w, ns[Len(ns)], more)
  PROVE  Builder(v, ms) /\ Leaves(v) = Leaves(ns) \o LeavesOf(more)
<1>0. ns \in Seq(Work) /\ ns # <<>> /\ ns[1].kind = "Root" /\ TreeFits(ns)
      /\ ms \in Seq(Mark_) /\ (\A i \in 1..Len(ms) : MarkFits(ns, ms[i]))
      /\ \A i, j \in 1..Len(ms) : i <= j => Sooner(ms[i], ms[j])
  BY DEF Stack
<1>2. /\ v \in Seq(Work) /\ Len(v) = Len(ns) /\ Len(ns) \in Nat /\ Len(ns) # 0
      /\ v[Len(ns)] = w /\ \A n \in 1..(Len(ns) - 1) : v[n] = ns[n] /\ n \in 1..Len(ns)
      /\ Leaves(v) = Leaves(SubSeq(ns, 1, Len(ns) - 1)) \o LeavesOf(w.children)
      /\ Leaves(ns) = Leaves(SubSeq(ns, 1, Len(ns) - 1)) \o LeavesOf(ns[Len(ns)].children)
  BY <1>0, OnTop, Zenon
<1>1. Len(ns) \in 1..Len(ns) BY <1>2
<1> DEFINE top == ns[Len(ns)]
           pre == SubSeq(ns, 1, Len(ns) - 1)
<1>3. top \in Work /\ top.children \in Seq(Child) BY <1>0, <1>1, WorkType
<1>4. pre \in Seq(Work)
  <2>1. Len(ns) - 1 \in 0..Len(ns) BY <1>2
  <2> QED BY <2>1, <1>0, SplitAt
<1> HIDE DEF top, pre
<1>x. w.kind = top.kind /\ w.start = top.start /\ w.children = top.children \o more
      /\ NodeFits(w) /\ w.end = w.start + Size(w.children)
  BY DEF Extends, top
<1>5. Leaves(v) = Leaves(ns) \o LeavesOf(more)
  <2>1. LeavesOf(w.children) = LeavesOf(top.children) \o LeavesOf(more)
    BY <1>3, <1>x, LeavesOfConcat
  <2>2. Leaves(pre) \in Seq(Nat) /\ LeavesOf(top.children) \in Seq(Nat)
        /\ LeavesOf(more) \in Seq(Nat)
    BY <1>3, <1>4, LeavesType, LeavesOfType
  <2>3. Leaves(pre) \o (LeavesOf(top.children) \o LeavesOf(more))
        = (Leaves(pre) \o LeavesOf(top.children)) \o LeavesOf(more)
    BY <2>2, ConcatAssociative, SMTT(30)
  <2> QED BY <2>1, <2>3, <1>2 DEF top, pre
<1>6. v[1].kind = "Root"
  <2>1. CASE Len(ns) = 1 BY <2>1, <1>0, <1>2, <1>x DEF top
  <2>2. CASE Len(ns) # 1
    <3>0. Len(ns) \in Nat /\ Len(ns) # 0 BY <1>2
    <3>1. 1 \in 1..(Len(ns) - 1) BY <2>2, <3>0, Indices, Zenon
    <3> QED BY <3>1, <1>0, <1>2
  <2> QED BY <2>1, <2>2
<1>7. TreeFits(v)
  <2>1. ASSUME NEW n \in 1..Len(v) PROVE NodeFits(v[n])
    <3>0. Len(v) = Len(ns) /\ Len(ns) \in Nat BY <1>2
    <3>1. n \in 1..(Len(ns) - 1) \/ n = Len(ns) BY <3>0
    <3> QED BY <3>1, <1>0, <1>2, <1>x DEF TreeFits
  <2>2. ASSUME NEW n \in 1..(Len(v) - 1)
        PROVE  v[n + 1].start = v[n].start + Size(v[n].children)
    <3>0. Len(v) = Len(ns) /\ Len(ns) \in Nat BY <1>2
    <3>1. n \in 1..(Len(ns) - 1) /\ (n + 1 \in 1..(Len(ns) - 1) \/ n + 1 = Len(ns))
      BY <3>0
    <3>2. v[n] = ns[n] /\ v[n + 1].start = ns[n + 1].start BY <3>1, <1>2, <1>x DEF top
    <3> QED BY <3>1, <3>2, <1>0 DEF TreeFits
  <2> QED BY <2>1, <2>2 DEF TreeFits
<1>8. ASSUME NEW i \in 1..Len(ms) PROVE MarkFits(v, ms[i])
  <2>1. MarkFits(ns, ms[i]) BY <1>0
  <2>2. CASE ms[i].node \in 1..(Len(ns) - 1)
    <3>1. v[ms[i].node] = ns[ms[i].node] BY <2>2, <1>2
    <3> QED BY <2>1, <3>1, <1>2 DEF MarkFits
  <2>3. CASE ms[i].node = Len(ns)
    <3>1. /\ Len(w.children) = Len(top.children) + Len(more)
          /\ \A k \in 0..Len(top.children) : Upto(w, k) = Upto(top, k)
      <4>1. NodeFits(top) BY <1>0, <1>1 DEF TreeFits, top
      <4> QED BY <4>1, <1>3, <1>x, NodeGrows
    <3>2. ms[i].child_count \in 0..Len(top.children) BY <2>1, <2>3 DEF MarkFits, top
    <3>3. Len(more) \in Nat /\ Len(top.children) \in Nat BY <1>3
    <3>4. ms[i].child_count \in 0..Len(w.children) BY <3>1, <3>2, <3>3
    <3> QED BY <2>1, <2>3, <3>1, <3>2, <3>4, <1>2 DEF MarkFits, top
  <2>4. ms[i].node \in 1..(Len(ns) - 1) \/ ms[i].node = Len(ns)
    <3>1. ms[i].node \in 1..Len(ns) /\ Len(ns) \in Nat BY <2>1, <1>2 DEF MarkFits
    <3> QED BY <3>1
  <2> QED BY <2>2, <2>3, <2>4
<1>9. v # <<>> BY <1>1, <1>2
<1>10. Stack(v, ms) BY <1>0, <1>2, <1>6, <1>7, <1>8, <1>9, Zenon DEF Stack
<1>11. Builder(v, ms) BY <1>2, <1>10, <1>x DEF Builder, TopFits
<1> QED BY <1>5, <1>11

(* Tokens are added to the node on top.                                    *)
LEMMA BuilderTokens ==
  ASSUME NEW ns, NEW ms, Builder(ns, ms), NEW more \in Seq(Child),
         \A i \in 1..Len(more) : more[i].kind = "token" /\ Len(more[i].leaves) = 1,
         NEW v, v = [ns EXCEPT ![Len(ns)] = WithTokens(@, more)]
  PROVE  /\ Builder(v, ms) /\ Len(v) = Len(ns)
         /\ Leaves(v) = Leaves(ns) \o LeavesOf(more)
<1>0. ns \in Seq(Work) /\ ns # <<>> /\ TreeFits(ns) /\ TopFits(ns) /\ Stack(ns, ms)
  BY DEF Builder, Stack
<1>1. Len(ns) \in 1..Len(ns) /\ Len(ns) \in Nat /\ Len(more) \in Nat BY <1>0
<1> DEFINE top == ns[Len(ns)]
           w == WithTokens(top, more)
<1>2. top \in Work /\ NodeFits(top) /\ top.end = top.start + Size(top.children)
      /\ top.children \in Seq(Child) /\ top.start \in Nat /\ top.end \in Nat
  BY <1>0, <1>1, WorkType DEF TreeFits, TopFits
<1>3. v = [ns EXCEPT ![Len(ns)] = w] BY Zenon
<1> HIDE DEF top
<1>4. w \in Work /\ w.kind = top.kind /\ w.start = top.start
      /\ w.children = top.children \o more /\ w.end = top.end + Len(more)
  <2>1. top.children \o more \in Seq(Child) /\ top.end + Len(more) \in Nat
    BY <1>1, <1>2, ConcatProperties
  <2> QED BY <1>2, <2>1 DEF Work, WithTokens
<1> HIDE DEF w
<1>5. /\ Len(w.children) = Len(top.children) + Len(more)
      /\ \A c \in 1..Len(top.children) : ChildFits(w, c)
      /\ Size(w.children) = Size(top.children) + Size(more)
      /\ \A c \in 1..Len(more) : w.children[Len(top.children) + c] = more[c]
  BY <1>2, <1>4, NodeGrows
<1>6. NodeFits(w)
  <2> SUFFICES ASSUME NEW c \in 1..Len(w.children) PROVE ChildFits(w, c) BY DEF NodeFits
  <2>0. Len(top.children) \in Nat BY <1>2
  <2>1. CASE c \in 1..Len(top.children) BY <2>1, <1>5
  <2>2. CASE c \notin 1..Len(top.children)
    <3>1. c - Len(top.children) \in 1..Len(more)
          /\ Len(top.children) + (c - Len(top.children)) = c
      BY <2>0, <2>2, <1>5, <1>1
    <3>2. w.children[c] = more[c - Len(top.children)] BY <3>1, <1>5
    <3> QED BY <3>1, <3>2 DEF ChildFits
  <2> QED BY <2>1, <2>2
<1>7. Size(more) = Len(more) BY LeavesOfEach
<1>8. w.end = w.start + Size(w.children)
  <2>1. Size(top.children) \in Nat BY <1>2, LeavesOfType
  <2> QED BY <2>1, <1>1, <1>2, <1>4, <1>5, <1>7
<1>9. Builder(v, ms) /\ Leaves(v) = Leaves(ns) \o LeavesOf(more)
  BY <1>0, <1>3, <1>4, <1>6, <1>8, BuilderGrows, ZenonT(40) DEF top, ReplacesTop, Extends
<1>10. Len(v) = Len(ns) BY <1>3, <1>0, <1>1, <1>4, ExceptSeq
<1> QED BY <1>9, <1>10

Iota(first, last) == [i \in 1..(last - first + 1) |-> first + i - 1]

LEMMA TokenType == \A i \in Nat : Token(i) \in Child
<1> TAKE i \in Nat
<1>1. <<i>> \in Seq(Nat) /\ 0 \in Nat /\ "token" \in NodeKinds \cup {"token"} OBVIOUS
<1> DEFINE l == <<i>>
           k == "token"
<1> HIDE DEF l, k
<1>2. [kind |-> k, start |-> 0, end |-> 0, leaves |-> l] \in Child
  BY <1>1 DEF l, k, Child
<1> QED BY <1>2 DEF l, k, Token

(* Tokens are read: token() for each of them.                              *)
LEMMA BuilderFeed ==
  ASSUME NEW ns, NEW ms, Builder(ns, ms), NEW first \in Nat, NEW last \in Int,
         last >= first - 1
  PROVE  /\ Builder(Feed(ns, first, last), ms) /\ Len(Feed(ns, first, last)) = Len(ns)
         /\ Leaves(Feed(ns, first, last)) = Leaves(ns) \o Iota(first, last)
<1> DEFINE n == last - first + 1
           tokens == [i \in 1..n |-> Token(first + i - 1)]
<1>1. n \in Nat OBVIOUS
<1>2. Feed(ns, first, last) = [ns EXCEPT ![Len(ns)] =
            WithTokens(@, tokens)]
  BY Zenon DEF Feed
<1>3. Iota(first, last) = [i \in 1..n |-> first + i - 1] BY DEF Iota
<1>0. \A i \in 1..n : first + i - 1 \in Nat BY <1>1
<1> HIDE DEF n
<1>4. \A i \in 1..n : Token(first + i - 1) \in Child
  <2> SUFFICES ASSUME NEW i \in 1..n PROVE Token(first + i - 1) \in Child OBVIOUS
  <2>1. first + i - 1 \in Nat BY <1>0
  <2> QED BY <2>1, TokenType
<1>5. tokens \in Seq(Child) /\ Len(tokens) = n /\ DOMAIN tokens = 1..n
      /\ \A i \in 1..n : tokens[i] = Token(first + i - 1)
  BY <1>1, <1>4
<1> HIDE DEF tokens
<1>6. \A i \in 1..Len(tokens) : tokens[i].kind = "token" /\ Len(tokens[i].leaves) = 1
      /\ tokens[i].leaves = <<first + i - 1>>
  BY <1>5 DEF Token
<1>7. LeavesOf(tokens) = Iota(first, last)
  <2> DEFINE s == LeavesSeq(tokens)
             iota == Iota(first, last)
             pre(k) == SubSeq(s, 1, k)
             I == {k \in Nat : k <= n => FlattenSeq(pre(k)) = SubSeq(iota, 1, k)}
  <2>1. s \in Seq(Seq(Nat)) /\ Len(s) = n /\ \A i \in 1..n : s[i] = <<first + i - 1>>
    BY <1>5, <1>6, LeavesSeqType
  <2>2. iota \in Seq(Nat) /\ Len(iota) = n /\ \A i \in 1..n : iota[i] = first + i - 1
    BY <1>0, <1>1, <1>3
  <2> HIDE DEF s, iota
  <2>3. 0 \in I
    <3>1. pre(0) = <<>> /\ SubSeq(iota, 1, 0) = <<>> BY <2>1, <2>2
    <3> HIDE DEF pre
    <3> QED BY <3>1, FlattenEmpty
  <2>4. ASSUME NEW k \in Nat, k \in I PROVE k + 1 \in I
    <3> SUFFICES ASSUME k + 1 <= n PROVE FlattenSeq(pre(k + 1)) = SubSeq(iota, 1, k + 1)
      OBVIOUS
    <3>1. FlattenSeq(pre(k)) = SubSeq(iota, 1, k) BY <2>4, <1>1
    <3>2. pre(k) \in Seq(Seq(Nat)) /\ s[k + 1] \in Seq(Nat)
          /\ pre(k + 1) = Append(pre(k), s[k + 1])
      BY <2>1, <1>1
    <3>3. SubSeq(iota, 1, k + 1) = Append(SubSeq(iota, 1, k), iota[k + 1])
          /\ SubSeq(iota, 1, k) \in Seq(Nat) /\ k + 1 \in 1..n
      BY <2>2, <1>1
    <3> HIDE DEF pre, I
    <3>4. FlattenSeq(Append(pre(k), s[k + 1])) = FlattenSeq(pre(k)) \o s[k + 1]
      BY <3>2, FlattenAppend
    <3>5. s[k + 1] = <<iota[k + 1]>> /\ iota[k + 1] \in Nat BY <2>1, <2>2, <3>3
    <3>6. SubSeq(iota, 1, k) \o <<iota[k + 1]>> = Append(SubSeq(iota, 1, k), iota[k + 1])
      <4>1. \A x \in Seq(Nat) : \A y \in Nat : x \o <<y>> = Append(x, y) OBVIOUS
      <4> QED BY <4>1, <3>3, <3>5, Zenon
    <3> QED BY <3>1, <3>2, <3>3, <3>4, <3>5, <3>6
  <2>5. pre(n) = s /\ SubSeq(iota, 1, n) = iota BY <2>1, <2>2
  <2> HIDE DEF I
  <2>6. n \in I BY <1>1, <2>3, <2>4, SetInduction
  <2> HIDE DEF pre
  <2> QED BY <2>5, <2>6, <1>1 DEF I, s, iota, LeavesOf
<1> DEFINE v == [ns EXCEPT ![Len(ns)] =
            WithTokens(@, tokens)]
<1>8. Builder(v, ms) /\ Len(v) = Len(ns) /\ Leaves(v) = Leaves(ns) \o LeavesOf(tokens)
  BY <1>5, <1>6, BuilderTokens
<1> QED BY <1>2, <1>7, <1>8

(* start_node.                                                             *)
LEMMA BuilderStart ==
  ASSUME NEW ns, NEW ms, Builder(ns, ms), NEW kind \in NodeKinds
  PROVE  /\ Builder(StartNode(ns, kind), ms)
         /\ Len(StartNode(ns, kind)) = Len(ns) + 1
         /\ Leaves(StartNode(ns, kind)) = Leaves(ns)
<1>0. ns \in Seq(Work) /\ ns # <<>> /\ ns[1].kind = "Root" /\ TreeFits(ns) /\ TopFits(ns)
      /\ ms \in Seq(Mark_) /\ (\A i \in 1..Len(ms) : MarkFits(ns, ms[i]))
      /\ \A i, j \in 1..Len(ms) : i <= j => Sooner(ms[i], ms[j])
  BY Zenon DEF Builder, Stack
<1> DEFINE top == ns[Len(ns)]
           w == WorkNode(kind, top.end, top.end, <<>>)
           v == StartNode(ns, kind)
<1>1. Len(ns) \in Nat /\ Len(ns) # 0 /\ Len(ns) \in 1..Len(ns) BY <1>0
<1>2. top.end \in Nat /\ top.start \in Nat /\ top.children \in Seq(Child)
  BY <1>0, <1>1, WorkType
<1>3. v = Append(ns, w) BY DEF StartNode, Last
<1> HIDE DEF top
<1>4. w \in Work /\ w.start = top.end /\ w.end = top.end /\ w.children = <<>>
      /\ w.kind = kind
  <2>1. <<>> \in Seq(Child) OBVIOUS
  <2> QED BY <1>2, <2>1 DEF WorkNode, Work
<1> HIDE DEF w, v
<1>5. /\ v \in Seq(Work) /\ Len(v) = Len(ns) + 1 /\ v[Len(ns) + 1] = w
      /\ \A n \in 1..Len(ns) : v[n] = ns[n]
      /\ v = ns \o <<w>> /\ <<w>> \in Seq(Work)
  <2>1. <<w>> \in Seq(Work) /\ Len(<<w>>) = 1 /\ <<w>>[1] = w BY <1>4
  <2>2. Append(ns, w) = ns \o <<w>> BY <1>0, <1>4, AppendIsConcat
  <2>3. /\ v \in Seq(Work) /\ Len(v) = Len(ns) + 1 /\ v[Len(ns) + 1] = w
        /\ \A n \in 1..Len(ns) : v[n] = ns[n]
    BY <1>0, <1>3, <1>4, AppendProperties
  <2> QED BY <1>3, <2>1, <2>2, <2>3
<1>6. Leaves(v) = Leaves(ns)
  <2>1. Leaves(v) = Leaves(ns) \o LeavesOf(w.children)
    BY <1>0, <1>4, <1>5, LeavesConcat, LeavesOne
  <2>2. Leaves(ns) \in Seq(Nat) BY <1>0, LeavesType
  <2> QED BY <2>1, <2>2, <1>4, LeavesOfNone, ConcatEmptySeq
<1>7. v # <<>> BY <1>1, <1>5
<1>8. v[1].kind = "Root"
  <2>1. 1 \in 1..Len(ns) BY <1>1
  <2> QED BY <2>1, <1>0, <1>5
<1>9. TreeFits(v) /\ TopFits(v)
  <2>0. Len(<<>>) = 0 OBVIOUS
  <2>1. NodeFits(w) BY <1>4, <2>0 DEF NodeFits
  <2>2. ASSUME NEW n \in 1..Len(v) PROVE NodeFits(v[n])
    <3>1. n \in 1..Len(ns) \/ n = Len(ns) + 1 BY <1>1, <1>5
    <3> QED BY <3>1, <2>1, <1>0, <1>5 DEF TreeFits
  <2>3. ASSUME NEW n \in 1..(Len(v) - 1)
        PROVE  v[n + 1].start = v[n].start + Size(v[n].children)
    <3>1. n \in 1..Len(ns) /\ ((n \in 1..(Len(ns) - 1) /\ n + 1 \in 1..Len(ns)) \/ n = Len(ns))
      BY <1>1, <1>5
    <3>2. CASE n \in 1..(Len(ns) - 1) /\ n + 1 \in 1..Len(ns)
      BY <3>2, <3>1, <1>0, <1>5 DEF TreeFits
    <3>3. CASE n = Len(ns)
      BY <3>3, <3>1, <1>0, <1>4, <1>5 DEF TopFits, top
    <3> QED BY <3>1, <3>2, <3>3
  <2>4. w.end = w.start + Size(w.children)
    <3>1. w.start + 0 = w.start BY <1>2, <1>4
    <3> QED BY <3>1, <1>4, LeavesOfNone
  <2> QED BY <2>2, <2>3, <2>4, <1>5 DEF TreeFits, TopFits
<1>10. ASSUME NEW i \in 1..Len(ms) PROVE MarkFits(v, ms[i])
  <2>1. MarkFits(ns, ms[i]) BY <1>0
  <2>2. ms[i].node \in 1..Len(ns) BY <2>1 DEF MarkFits
  <2>3. v[ms[i].node] = ns[ms[i].node] BY <2>2, <1>5
  <2>4. ms[i].node \in 1..Len(v) BY <2>2, <1>1, <1>5
  <2> QED BY <2>1, <2>3, <2>4 DEF MarkFits
<1>11. Builder(v, ms) BY <1>0, <1>5, <1>7, <1>8, <1>9, <1>10, Zenon DEF Builder, Stack
<1> QED BY <1>5, <1>6, <1>11 DEF v

(* checkpoint, and the end of its scope.                                   *)
LEMMA BuilderMark ==
  ASSUME NEW ns, NEW ms, Builder(ns, ms)
  PROVE  /\ Builder(ns, Append(ms, Checkpoint(ns)))
         /\ Checkpoint(ns).node = Len(ns) /\ Checkpoint(ns) \in Mark_
<1>0. ns \in Seq(Work) /\ ns # <<>> /\ ns[1].kind = "Root" /\ TreeFits(ns) /\ TopFits(ns)
      /\ ms \in Seq(Mark_) /\ (\A i \in 1..Len(ms) : MarkFits(ns, ms[i]))
      /\ \A i, j \in 1..Len(ms) : i <= j => Sooner(ms[i], ms[j])
  BY Zenon DEF Builder, Stack
<1> DEFINE top == ns[Len(ns)]
           m == Checkpoint(ns)
           all == Append(ms, m)
<1>1. Len(ns) \in Nat /\ Len(ns) # 0 /\ Len(ns) \in 1..Len(ns) BY <1>0
<1>2. top.end \in Nat /\ top.start \in Nat /\ top.children \in Seq(Child)
      /\ Len(top.children) \in Nat /\ top \in Work
  BY <1>0, <1>1, WorkType
<1>3. m.node = Len(ns) /\ m.child_count = Len(top.children) /\ m.start = top.end
      /\ m \in Mark_
  BY <1>1, <1>2 DEF Checkpoint, Last, Mark_
<1> HIDE DEF m
<1>4. MarkFits(ns, m)
  <2>1. top.end = Upto(top, Len(top.children)) BY <1>0, <1>2, UptoAll DEF TopFits
  <2> QED BY <2>1, <1>1, <1>2, <1>3 DEF MarkFits
<1>5. /\ all \in Seq(Mark_) /\ Len(all) = Len(ms) + 1 /\ all[Len(ms) + 1] = m
      /\ \A i \in 1..Len(ms) : all[i] = ms[i]
      /\ Len(ms) \in Nat
  BY <1>0, <1>3
<1>6. \A i \in 1..Len(all) : i \in 1..Len(ms) \/ i = Len(ms) + 1 BY <1>5
<1> HIDE DEF all
<1>7. ASSUME NEW i \in 1..Len(ms) PROVE Sooner(ms[i], m)
  <2>1. MarkFits(ns, ms[i]) BY <1>0
  <2>2. ms[i].node \in 1..Len(ns) BY <2>1 DEF MarkFits
  <2>3. CASE ms[i].node = Len(ns)
    <3>1. ms[i].child_count \in 0..Len(top.children) BY <2>1, <2>3 DEF MarkFits
    <3> QED BY <3>1, <2>3, <1>2, <1>3 DEF Sooner
  <2>4. CASE ms[i].node # Len(ns) BY <2>2, <2>4, <1>1, <1>3 DEF Sooner
  <2> QED BY <2>3, <2>4
<1>8. Sooner(m, m) BY <1>2, <1>3 DEF Sooner
<1>9. ASSUME NEW i \in 1..Len(all), NEW j \in 1..Len(all), i <= j
      PROVE  Sooner(all[i], all[j])
  <2>1. CASE j \in 1..Len(ms)
    <3>1. i \in 1..Len(ms) BY <2>1, <1>9
    <3> QED BY <3>1, <2>1, <1>0, <1>5, <1>9
  <2>2. CASE j = Len(ms) + 1
    BY <2>2, <1>5, <1>6, <1>7, <1>8
  <2> QED BY <1>6, <2>1, <2>2
<1>10. ASSUME NEW i \in 1..Len(all) PROVE MarkFits(ns, all[i])
  BY <1>0, <1>4, <1>5, <1>6
<1>11. Builder(ns, all) BY <1>0, <1>5, <1>9, <1>10, Zenon DEF Builder, Stack
<1> QED BY <1>3, <1>11 DEF m, all

(* A checkpoint is forgotten.                                              *)
LEMMA BuilderUnmark ==
  ASSUME NEW ns, NEW ms, Builder(ns, ms), ms # <<>>
  PROVE  Builder(ns, Front(ms)) /\ Len(Front(ms)) = Len(ms) - 1
         /\ \A i \in 1..(Len(ms) - 1) : Front(ms)[i] = ms[i]
<1>0. ns \in Seq(Work) /\ ns # <<>> /\ ns[1].kind = "Root" /\ TreeFits(ns) /\ TopFits(ns)
      /\ ms \in Seq(Mark_) /\ (\A i \in 1..Len(ms) : MarkFits(ns, ms[i]))
      /\ \A i, j \in 1..Len(ms) : i <= j => Sooner(ms[i], ms[j])
  BY Zenon DEF Builder, Stack
<1>1. Len(ms) \in Nat /\ Len(ms) # 0 BY <1>0
<1>2. /\ Front(ms) \in Seq(Mark_) /\ Len(Front(ms)) = Len(ms) - 1
      /\ \A i \in 1..(Len(ms) - 1) : Front(ms)[i] = ms[i] /\ i \in 1..Len(ms)
  <2>1. Len(ms) - 1 \in 0..Len(ms) BY <1>1
  <2>2. \A i \in 1..(Len(ms) - 1) :
            SubSeq(ms, 1, Len(ms) - 1)[i] = ms[i] /\ i \in 1..Len(ms)
    BY <1>0, <1>1
  <2>3. /\ SubSeq(ms, 1, Len(ms) - 1) \in Seq(Mark_)
        /\ Len(SubSeq(ms, 1, Len(ms) - 1)) = Len(ms) - 1
    BY <2>1, <1>0, SplitAt
  <2> QED BY <2>2, <2>3, Zenon DEF Front
<1>3. Builder(ns, Front(ms))
  <2> DEFINE f == Front(ms)
  <2> HIDE DEF f
  <2>1. /\ f \in Seq(Mark_)
        /\ \A i \in 1..Len(f) : f[i] = ms[i] /\ i \in 1..Len(ms)
    BY <1>2 DEF f
  <2>2. \A i \in 1..Len(f) : MarkFits(ns, f[i]) BY <2>1, <1>0
  <2>3. \A i, j \in 1..Len(f) : i <= j => Sooner(f[i], f[j]) BY <2>1, <1>0
  <2>4. Builder(ns, f) BY <2>1, <2>2, <2>3, <1>0, Zenon DEF Builder, Stack
  <2> QED BY <2>4 DEF f
<1> QED BY <1>2, <1>3

(* end_node: the node on top becomes a child of the node below it.         *)
LEMMA BuilderEnd ==
  ASSUME NEW ns, NEW ms, Builder(ns, ms), Len(ns) > 1,
         \A i \in 1..Len(ms) : ms[i].node < Len(ns)
  PROVE  /\ Builder(EndNode(ns), ms)
         /\ Len(EndNode(ns)) = Len(ns) - 1
         /\ Leaves(EndNode(ns)) = Leaves(ns)
<1>0. ns \in Seq(Work) /\ ns # <<>> /\ ns[1].kind = "Root" /\ TreeFits(ns) /\ TopFits(ns)
      /\ ms \in Seq(Mark_) /\ (\A i \in 1..Len(ms) : MarkFits(ns, ms[i]))
      /\ \A i, j \in 1..Len(ms) : i <= j => Sooner(ms[i], ms[j])
  BY Zenon DEF Builder, Stack
<1> DEFINE n == Len(ns)
           top == ns[n]
           node == IntoNode(top)
           below == Front(ns)
           under == ns[n - 1]
           w == Pushed(under, node, node.end)
           v == EndNode(ns)
<1>1. n \in Nat /\ n > 1 /\ n \in 1..n /\ n - 1 \in 1..n /\ n - 1 \in Nat /\ n - 1 # 0
      /\ n - 1 \in 1..(n - 1) /\ n - 1 + 1 = n
  <2>1. \A x \in Nat : x > 1 =>
           /\ x \in 1..x /\ x - 1 \in 1..x /\ x - 1 \in Nat /\ x - 1 # 0
           /\ x - 1 \in 1..(x - 1) /\ x - 1 + 1 = x
    OBVIOUS
  <2>2. Len(ns) \in Nat BY <1>0
  <2> QED BY <2>1, <2>2, Zenon
<1>2. /\ top.end \in Nat /\ top.start \in Nat /\ top.children \in Seq(Child) /\ top \in Work
      /\ under.end \in Nat /\ under.start \in Nat /\ under.children \in Seq(Child)
      /\ under \in Work /\ top.kind \in NodeKinds
  BY <1>0, <1>1, WorkType
<1>3. /\ below \in Seq(Work) /\ Len(below) = n - 1 /\ ns = below \o <<top>>
      /\ \A i \in 1..(n - 1) : below[i] = ns[i] /\ i \in 1..n
  <2>1. /\ SubSeq(ns, 1, n - 1) \in Seq(Work) /\ Len(SubSeq(ns, 1, n - 1)) = n - 1
        /\ ns = SubSeq(ns, 1, n - 1) \o <<top>>
    BY <1>0, <1>2, LastSplit
  <2>2. \A i \in 1..(n - 1) : SubSeq(ns, 1, n - 1)[i] = ns[i] /\ i \in 1..n
    BY <1>0, <1>1
  <2> QED BY <2>1, <2>2, Zenon DEF Front
<1>v. v = [below EXCEPT ![Len(below)] = Pushed(@, node, node.end)]
  BY Zenon DEF EndNode, Last
<1>t. top.end = top.start + Size(top.children) BY <1>0 DEF TopFits
<1>u. top.start = under.start + Size(under.children) BY <1>0, <1>1 DEF TreeFits
<1>f. NodeFits(top) /\ NodeFits(under) BY <1>0, <1>1 DEF TreeFits
<1> HIDE DEF n, top, under, below
<1>4. /\ node \in Child /\ node.kind # "token" /\ node.end = top.end /\ node.start = top.start
      /\ node.leaves = LeavesOf(top.children) /\ Len(node.leaves) = Size(top.children)
  <2>1. node = [kind |-> top.kind, start |-> top.start, end |-> top.end,
                leaves |-> LeavesOf(top.children)]
    BY DEF IntoNode, LeavesOf, LeavesSeq
  <2>2. LeavesOf(top.children) \in Seq(Nat) BY <1>2, LeavesOfType
  <2> HIDE DEF node
  <2>3. node \in Child BY <1>2, <2>1, <2>2 DEF Child
  <2>4. node.kind # "token" BY <1>2, <2>1, NoTokenNode
  <2> QED BY <2>1, <2>3, <2>4 DEF Size
<1> HIDE DEF node
<1>5. w \in Work /\ w.kind = under.kind /\ w.start = under.start /\ w.end = node.end
      /\ w.children = under.children \o <<node>>
  <2>1. Append(under.children, node) \in Seq(Child)
        /\ Append(under.children, node) = under.children \o <<node>>
    BY <1>2, <1>4, AppendProperties, AppendIsConcat
  <2>2. node.end \in Nat BY <1>2, <1>4
  <2> QED BY <1>2, <2>1, <2>2 DEF Pushed, Work
<1>6. ReplacesTop(v, below, w)
  <2>1. below[Len(below)] = under BY <1>1, <1>3 DEF under
  <2> QED BY <1>v, <2>1, Zenon DEF ReplacesTop
<1> HIDE DEF w, v
<1>s. <<node>> \in Seq(Child) /\ Len(<<node>>) = 1 /\ <<node>>[1] = node BY <1>4
<1>z. Size(top.children) \in Nat /\ Size(under.children) \in Nat BY <1>2, LeavesOfType
<1>7. /\ Len(w.children) = Len(under.children) + 1
      /\ \A c \in 1..Len(under.children) : ChildFits(w, c)
      /\ Size(w.children) = Size(under.children) + Size(top.children)
      /\ w.children[Len(under.children) + 1] = node
      /\ Len(under.children) \in Nat
  <2>1. /\ Len(w.children) = Len(under.children) + Len(<<node>>)
        /\ \A c \in 1..Len(under.children) : ChildFits(w, c)
        /\ Size(w.children) = Size(under.children) + Size(<<node>>)
        /\ \A c \in 1..Len(<<node>>) : w.children[Len(under.children) + c] = <<node>>[c]
    BY <1>2, <1>5, <1>s, <1>f, NodeGrows, ZenonT(40)
  <2>2. 1 \in 1..Len(<<node>>) BY <1>s
  <2>3. Size(<<node>>) = Size(top.children) BY <1>4, LeavesOfOne
  <2>4. Len(under.children) \in Nat BY <1>2
  <2> QED BY <2>1, <2>2, <2>3, <2>4, <1>s
<1>8. w.end = w.start + Size(w.children)
  BY <1>t, <1>u, <1>z, <1>2, <1>4, <1>5, <1>7
<1>9. NodeFits(w)
  <2> SUFFICES ASSUME NEW c \in 1..Len(w.children) PROVE ChildFits(w, c) BY DEF NodeFits
  <2>1. c \in 1..Len(under.children) \/ c = Len(under.children) + 1 BY <1>7
  <2>2. CASE c = Len(under.children) + 1
    <3>1. c = Len(w.children) /\ w.children[c] = node BY <2>2, <1>7
    <3>2. Upto(w, c) = w.start + Size(w.children) BY <3>1, <1>5, UptoAll
    <3>3. node.end = Upto(w, c) BY <3>2, <1>5, <1>8
    <3>4. node.end - node.start = Len(node.leaves) BY <1>t, <1>z, <1>2, <1>4
    <3> QED BY <3>1, <3>3, <3>4, <1>4 DEF ChildFits
  <2> QED BY <2>1, <2>2, <1>7
<1>10. Extends(w, below[Len(below)], <<node>>)
  <2>1. below[Len(below)] = under BY <1>1, <1>3 DEF under
  <2> QED BY <2>1, <1>5, <1>8, <1>9 DEF Extends
<1>11. Stack(below, ms)
  <2>1. below # <<>> BY <1>1, <1>3
  <2>2. 1 \in 1..(n - 1) BY <1>1
  <2>3. below[1].kind = "Root" BY <2>2, <1>0, <1>3
  <2>4. TreeFits(below)
    <3>1. \A i \in 1..Len(below) : NodeFits(below[i]) BY <1>0, <1>3 DEF TreeFits, n
    <3>2. ASSUME NEW i \in 1..(Len(below) - 1)
          PROVE  below[i + 1].start = below[i].start + Size(below[i].children)
      <4>1. i \in 1..(n - 1) /\ i + 1 \in 1..(n - 1) BY <1>1, <1>3
      <4>2. ns[i + 1].start = ns[i].start + Size(ns[i].children)
        BY <4>1, <1>0 DEF TreeFits, n
      <4> QED BY <4>1, <4>2, <1>3
    <3> QED BY <3>1, <3>2 DEF TreeFits
  <2>5. ASSUME NEW i \in 1..Len(ms) PROVE MarkFits(below, ms[i])
    <3>1. MarkFits(ns, ms[i]) /\ ms[i].node < n BY <1>0 DEF n
    <3>2. ms[i].node \in 1..(n - 1) BY <3>1, <1>1 DEF MarkFits, n
    <3>3. below[ms[i].node] = ns[ms[i].node] BY <3>2, <1>3
    <3> QED BY <3>1, <3>2, <3>3, <1>3 DEF MarkFits
  <2> QED BY <2>1, <2>3, <2>4, <2>5, <1>0, <1>3, Zenon DEF Stack
<1>12. Builder(v, ms) /\ Leaves(v) = Leaves(below) \o LeavesOf(<<node>>)
  BY <1>5, <1>6, <1>10, <1>11, <1>s, BuilderGrows
<1>13. Len(v) = n - 1
  <2>1. below # <<>> BY <1>1, <1>3
  <2> QED BY <2>1, <1>3, <1>5, <1>6, OnTop
<1>14. Leaves(below) \o LeavesOf(<<node>>) = Leaves(ns)
  <2>1. <<top>> \in Seq(Work) BY <1>2
  <2>2. Leaves(below \o <<top>>) = Leaves(below) \o Leaves(<<top>>)
    BY <2>1, <1>3, LeavesConcat
  <2>3. Leaves(<<top>>) = LeavesOf(top.children) BY <1>2, LeavesOne
  <2>4. LeavesOf(<<node>>) = LeavesOf(top.children) BY <1>4, LeavesOfOne
  <2>5. below \o <<top>> = ns BY <1>3
  <2> QED BY <2>2, <2>3, <2>4, <2>5
<1> QED BY <1>12, <1>13, <1>14 DEF n, v

Puts(v, s, m, w)  == v = InsertAt(s, m, w)
Cuts(l, s, a, b)  == l = SubSeq(s, a, b)
Joins(v, l, w, r) == v = (l \o <<w>>) \o r

(* A sequence with an element put between its two parts.                   *)
LEMMA PutBetween ==
  ASSUME NEW S, NEW l \in Seq(S), NEW w \in S, NEW r \in Seq(S),
         NEW v, Joins(v, l, w, r)
  PROVE  /\ v \in Seq(S) /\ Len(v) = Len(l) + 1 + Len(r)
         /\ \A n \in 1..Len(l) : v[n] = l[n]
         /\ v[Len(l) + 1] = w
         /\ \A n \in 1..Len(r) : v[Len(l) + 1 + n] = r[n]
<1>1. <<w>> \in Seq(S) /\ Len(<<w>>) = 1 /\ <<w>>[1] = w /\ 1 \in 1..1 OBVIOUS
<1> DEFINE one == <<w>>
           lw == l \o one
<1>2. one \in Seq(S) /\ Len(one) = 1 /\ one[1] = w /\ 1 \in 1..Len(one) BY <1>1
<1> HIDE DEF one
<1>3. /\ lw \in Seq(S) /\ Len(lw) = Len(l) + 1 /\ Len(l) \in Nat
      /\ \A n \in 1..Len(l) : lw[n] = l[n] /\ n \in 1..Len(lw)
      /\ lw[Len(l) + 1] = w /\ Len(l) + 1 \in 1..Len(lw)
  <2>1. /\ lw \in Seq(S) /\ Len(lw) = Len(l) + Len(one) /\ Len(l) \in Nat
        /\ \A n \in 1..Len(l) : lw[n] = l[n] /\ n \in 1..Len(lw)
        /\ \A n \in 1..Len(one) : lw[Len(l) + n] = one[n] /\ Len(l) + n \in 1..Len(lw)
    BY <1>2, ConcatAt
  <2> HIDE DEF lw
  <2> QED BY <2>1, <1>2
<1>4. v = lw \o r BY DEF one, Joins
<1> HIDE DEF lw
<1>5. /\ v \in Seq(S) /\ Len(v) = Len(lw) + Len(r) /\ Len(r) \in Nat
      /\ \A n \in 1..Len(lw) : v[n] = lw[n]
      /\ \A n \in 1..Len(r) : v[Len(lw) + n] = r[n]
  <2> DEFINE u == lw \o r
  <2>1. /\ u \in Seq(S) /\ Len(u) = Len(lw) + Len(r) /\ Len(r) \in Nat
        /\ \A n \in 1..Len(lw) : u[n] = lw[n]
        /\ \A n \in 1..Len(r) : u[Len(lw) + n] = r[n]
    BY <1>3, ConcatAt, ZenonT(40)
  <2>2. u = v BY <1>4
  <2> QED BY ONLY <2>1, <2>2
<1>6. \A n \in 1..Len(l) : v[n] = l[n] BY <1>3, <1>5
<1>7. v[Len(l) + 1] = w BY <1>3, <1>5
<1> QED BY <1>3, <1>5, <1>6, <1>7

(* InsertAt, as a joint of three parts.                                    *)
LEMMA PutAt ==
  ASSUME NEW s, NEW m, NEW w, NEW v, NEW k, m - 1 = k, NEW l, NEW r,
         Cuts(l, s, 1, k), Cuts(r, s, m, Len(s)), Puts(v, s, m, w)
  PROVE  Joins(v, l, w, r)
<1>1. InsertAt(s, m, w) = (SubSeq(s, 1, m - 1) \o <<w>>) \o SubSeq(s, m, Len(s))
  BY Zenon DEF InsertAt
<1>2. InsertAt(s, m, w) = (SubSeq(s, 1, k) \o <<w>>) \o SubSeq(s, m, Len(s))
  BY <1>1, Zenon
<1>3. v = InsertAt(s, m, w) BY DEF Puts
<1>4. l = SubSeq(s, 1, k) /\ r = SubSeq(s, m, Len(s)) BY DEF Cuts
<1>5. v = (l \o <<w>>) \o r BY <1>2, <1>3, <1>4, Zenon
<1> QED BY <1>5 DEF Joins

(* start_node_at: a node below the nodes opened since the checkpoint.      *)
LEMMA BuilderStartAt ==
  ASSUME NEW ns, NEW ms, Builder(ns, ms), ms # <<>>, NEW kind \in NodeKinds
  PROVE  /\ Builder(StartNodeAt(ns, kind, Last(ms)), ms)
         /\ Len(StartNodeAt(ns, kind, Last(ms))) = Len(ns) + 1
         /\ Leaves(StartNodeAt(ns, kind, Last(ms))) = Leaves(ns)
<1>0. ns \in Seq(Work) /\ ns # <<>> /\ ns[1].kind = "Root" /\ TreeFits(ns) /\ TopFits(ns)
      /\ ms \in Seq(Mark_) /\ (\A i \in 1..Len(ms) : MarkFits(ns, ms[i]))
      /\ \A i, j \in 1..Len(ms) : i <= j => Sooner(ms[i], ms[j])
  BY Zenon DEF Builder, Stack
<1> DEFINE loc == Last(ms)
           k == loc.node
           cc == loc.child_count
           parent == ns[k]
           adopted == SubSeq(parent.children, cc + 1, Len(parent.children))
           kept == SubSeq(parent.children, 1, cc)
           p == [parent EXCEPT !.children = kept]
           w == WorkNode(kind, loc.start, EndOf(adopted, loc.start), adopted)
           rest == [ns EXCEPT ![k] = p]
           v == StartNodeAt(ns, kind, loc)
<1>1. Len(ms) \in 1..Len(ms) /\ Len(ms) \in Nat /\ Len(ns) \in Nat /\ Len(ns) # 0
      /\ loc = ms[Len(ms)]
  BY <1>0 DEF Last
<1>2. loc \in Mark_ /\ MarkFits(ns, loc) /\ \A i \in 1..Len(ms) : Sooner(ms[i], loc)
  <2>1. loc \in Mark_ BY <1>0, <1>1, ElementOfSeq
  <2>2. \A i \in 1..Len(ms) : i <= Len(ms) BY <1>1
  <2> HIDE DEF loc
  <2> QED BY <2>1, <2>2, <1>0, <1>1
<1>3. v = InsertAt(rest, k + 1, w) BY Zenon DEF StartNodeAt
<1> HIDE DEF loc, v
<1>4. /\ k \in 1..Len(ns) /\ cc \in 0..Len(parent.children) /\ loc.start = Upto(parent, cc)
      /\ k \in Nat /\ cc \in Nat
  BY <1>2 DEF MarkFits, Mark_
<1>5. /\ parent \in Work /\ parent.children \in Seq(Child) /\ parent.start \in Nat
      /\ parent.end \in Nat /\ NodeFits(parent)
  BY <1>0, <1>4, WorkType DEF TreeFits
<1> HIDE DEF k, cc, parent
<1>6. adopted \in Seq(Child) /\ kept \in Seq(Child) /\ Len(kept) = cc
  BY <1>4, <1>5, SplitAt
<1>7. /\ p \in Work /\ p.children = kept /\ p.start = parent.start /\ p.kind = parent.kind
      /\ p.end = parent.end
  <2> HIDE DEF kept
  <2> QED BY <1>5, <1>6 DEF Work
<1>8. NodeFits(p) /\ Len(p.children) = cc /\ \A i \in 0..cc : Upto(p, i) = Upto(parent, i)
  <2> HIDE DEF p
  <2> QED BY <1>4, <1>5, <1>7, NodeCut
<1>9. loc.start \in Nat BY <1>4, <1>5, UptoType
(* The new node.                                                           *)
<1> DEFINE u == WorkNode(kind, loc.start, loc.start, adopted)
<1>10. u \in Work /\ u.start = loc.start /\ u.children = adopted
  <2> HIDE DEF adopted
  <2> QED BY <1>6, <1>9 DEF WorkNode, Work
<1>11. NodeFits(u) /\ loc.start + Size(adopted) = parent.start + Size(parent.children)
  <2>1. u.children = SubSeq(parent.children, cc + 1, Len(parent.children)) BY <1>10
  <2>2. u.start = Upto(parent, cc) BY <1>4, <1>10
  <2>3. NodeFits(u) /\ u.start + Size(u.children) = parent.start + Size(parent.children)
    <3> HIDE DEF u
    <3> QED BY <2>1, <2>2, <1>4, <1>5, <1>10, NodeRest
  <2> HIDE DEF u, adopted
  <2> QED BY <2>3, <1>10
<1>12. EndOf(adopted, loc.start) = loc.start + Size(adopted)
  <2> HIDE DEF u, adopted
  <2>1. EndOf(u.children, u.start) = u.start + Size(u.children) BY <1>10, <1>11, EndOfIs
  <2> QED BY <2>1, <1>10
<1>13. /\ w \in Work /\ w.start = loc.start /\ w.children = adopted /\ NodeFits(w)
       /\ w.end = w.start + Size(w.children)
  <2>0. Size(adopted) \in Nat BY <1>6, LeavesOfType
  <2> HIDE DEF adopted
  <2>1. EndOf(adopted, loc.start) \in Nat BY <2>0, <1>9, <1>12
  <2> DEFINE e == EndOf(adopted, loc.start)
  <2> HIDE DEF e
  <2>2. /\ w = [kind |-> kind, start |-> loc.start, end |-> e, children |-> adopted]
        /\ u = [kind |-> kind, start |-> loc.start, end |-> loc.start, children |-> adopted]
    BY DEF WorkNode, e
  <2> HIDE DEF w, u
  <2>3. w \in Work BY <2>1, <2>2, <1>6, <1>9 DEF Work, e
  <2>4. w.start = u.start /\ w.children = u.children BY <2>2
  <2>5. NodeFits(w) BY <2>4, <1>11 DEF NodeFits, ChildFits, Upto
  <2> QED BY <2>2, <2>3, <2>5, <1>12 DEF e
<1> HIDE DEF u, w, p, adopted, kept
<1>14. /\ rest \in Seq(Work) /\ Len(rest) = Len(ns)
       /\ \A n \in 1..Len(ns) : rest[n] = IF n = k THEN p ELSE ns[n]
  BY <1>0, <1>4, <1>7, ExceptSeq
<1> HIDE DEF rest
<1> DEFINE l == SubSeq(rest, 1, k)
           r == SubSeq(rest, k + 1, Len(rest))
           lns == SubSeq(ns, 1, k)
<1>15. /\ l \in Seq(Work) /\ Len(l) = k /\ r \in Seq(Work) /\ Len(r) = Len(ns) - k
       /\ lns \in Seq(Work) /\ Len(lns) = k
       /\ r = SubSeq(ns, k + 1, Len(ns)) /\ ns = lns \o r
       /\ \A n \in 1..k : l[n] = rest[n] /\ lns[n] = ns[n]
       /\ \A n \in 1..(Len(ns) - k) : r[n] = ns[k + n]
  <2>0. k \in 0..Len(ns) BY <1>1, <1>4
  <2>1. /\ l \in Seq(Work) /\ Len(l) = k /\ r \in Seq(Work) /\ Len(r) = Len(ns) - k
        /\ lns \in Seq(Work) /\ Len(lns) = k
        /\ SubSeq(ns, k + 1, Len(ns)) \in Seq(Work)
        /\ Len(SubSeq(ns, k + 1, Len(ns))) = Len(ns) - k
        /\ ns = lns \o SubSeq(ns, k + 1, Len(ns))
    <3>1. /\ lns \in Seq(Work) /\ Len(lns) = k
          /\ SubSeq(ns, k + 1, Len(ns)) \in Seq(Work)
          /\ Len(SubSeq(ns, k + 1, Len(ns))) = Len(ns) - k
          /\ ns = lns \o SubSeq(ns, k + 1, Len(ns))
      BY <2>0, <1>0, SplitAt
    <3>2. k \in 0..Len(rest) BY <2>0, <1>14
    <3>3. l \in Seq(Work) /\ Len(l) = k /\ r \in Seq(Work) /\ Len(r) = Len(rest) - k
      BY <3>2, <1>14, SplitAt
    <3> HIDE DEF l, r, lns
    <3> QED BY <3>1, <3>3, <1>14
  <2>2. \A n \in 1..k : l[n] = rest[n] /\ lns[n] = ns[n] BY <2>0, <1>0, <1>14
  <2>3. \A n \in 1..(Len(ns) - k) :
           r[n] = rest[k + n] /\ SubSeq(ns, k + 1, Len(ns))[n] = ns[k + n]
           /\ k + n \in 1..Len(ns) /\ k + n # k
    BY <2>0, <1>0, <1>14, <1>4
  <2>4. \A n \in 1..(Len(ns) - k) : r[n] = ns[k + n] BY <2>3, <1>14
  <2>5. r = SubSeq(ns, k + 1, Len(ns))
    <3> DEFINE q == SubSeq(ns, k + 1, Len(ns))
    <3>1. q \in Seq(Work) /\ Len(q) = Len(r) /\ \A n \in 1..Len(r) : r[n] = q[n]
      BY <2>1, <2>3, <2>4
    <3> HIDE DEF q, r
    <3>2. r = q BY <3>1, <2>1, SeqEqual
    <3> QED BY <3>2 DEF q
  <2> QED BY <2>1, <2>2, <2>4, <2>5
<1>16. Joins(v, l, w, r)
  <2>1. (k + 1) - 1 = k BY <1>4
  <2>2. Cuts(l, rest, 1, k) /\ Cuts(r, rest, k + 1, Len(rest)) BY DEF Cuts
  <2>3. Puts(v, rest, k + 1, w) BY <1>3 DEF Puts
  <2> HIDE DEF l, r, lns
  <2> QED BY <2>1, <2>2, <2>3, PutAt, Zenon
<1>17. ReplacesTop(l, lns, p) /\ lns # <<>>
  <2>1. lns # <<>> BY <1>4, <1>15
  <2> DEFINE t == [lns EXCEPT ![Len(lns)] = p]
  <2>2. /\ t \in Seq(Work) /\ Len(t) = k
        /\ \A n \in 1..k : t[n] = IF n = k THEN p ELSE lns[n]
    <3>1. lns \in Seq(Work) /\ Len(lns) = k BY <1>15
    <3> HIDE DEF lns, l, r
    <3>2. /\ t \in Seq(Work) /\ Len(t) = Len(lns)
          /\ \A n \in 1..Len(lns) : t[n] = IF n = Len(lns) THEN p ELSE lns[n]
      BY <2>1, <3>1, <1>7, LastSplit
    <3> HIDE DEF t
    <3> QED BY <3>1, <3>2
  <2> HIDE DEF t, l, lns
  <2>3. \A n \in 1..k : n \in 1..Len(ns) BY <1>1, <1>4
  <2>4. \A n \in 1..k : l[n] = t[n] BY <2>2, <2>3, <1>14, <1>15
  <2>5. l = t BY <2>2, <2>4, <1>15, SeqEqual
  <2> QED BY <2>1, <2>5 DEF t, ReplacesTop
<1> HIDE DEF l, r, lns
<1>w. <<w>> \in Seq(Work) /\ Len(<<w>>) = 1 /\ <<w>>[1] = w BY <1>13
<1>18. Leaves(v) = Leaves(ns)
  <2> DEFINE a == SubSeq(lns, 1, Len(lns) - 1)
  <2>1. /\ Leaves(l) = Leaves(a) \o LeavesOf(p.children)
        /\ Leaves(lns) = Leaves(a) \o LeavesOf(lns[Len(lns)].children)
    BY <1>7, <1>15, <1>17, OnTop, ZenonT(40)
  <2>2. lns[Len(lns)] = parent BY <1>4, <1>15 DEF parent
  <2>3. LeavesOf(parent.children) = LeavesOf(kept) \o LeavesOf(adopted)
    BY <1>4, <1>5, LeavesOfPrefix DEF kept, adopted
  <2>4. l \o <<w>> \in Seq(Work) BY <1>15, <1>w, ConcatProperties
  <2>5. Leaves(v) = (Leaves(l) \o LeavesOf(adopted)) \o Leaves(r)
    BY <2>4, <1>13, <1>15, <1>16, <1>w, LeavesConcat, LeavesOne, ZenonT(40) DEF Joins
  <2>6. Leaves(ns) = Leaves(lns) \o Leaves(r) BY <1>15, LeavesConcat
  <2>7. a \in Seq(Work) BY <1>15, <1>17, <1>7, LastSplit
  <2> HIDE DEF a
  <2>8. Leaves(a) \in Seq(Nat) /\ LeavesOf(kept) \in Seq(Nat) /\ LeavesOf(adopted) \in Seq(Nat)
    BY <2>7, <1>6, LeavesType, LeavesOfType
  <2>9. (Leaves(a) \o LeavesOf(kept)) \o LeavesOf(adopted)
        = Leaves(a) \o (LeavesOf(kept) \o LeavesOf(adopted))
    BY <2>8, ConcatAssociative
  <2> QED BY <2>1, <2>2, <2>3, <2>5, <2>6, <2>9, <1>7
(* The nodes of the new stack, one by one.                                 *)
<1>19. /\ v \in Seq(Work) /\ Len(v) = Len(ns) + 1
       /\ \A n \in 1..k : v[n] = IF n = k THEN p ELSE ns[n]
       /\ v[k + 1] = w
       /\ \A n \in (k + 2)..(Len(ns) + 1) : v[n] = ns[n - 1]
  <2>1. /\ v \in Seq(Work) /\ Len(v) = Len(l) + 1 + Len(r)
        /\ \A n \in 1..Len(l) : v[n] = l[n]
        /\ v[Len(l) + 1] = w
        /\ \A n \in 1..Len(r) : v[Len(l) + 1 + n] = r[n]
    <3>1. w \in Work /\ l \in Seq(Work) /\ r \in Seq(Work) BY <1>13, <1>15
    <3> QED BY ONLY <3>1, <1>16, PutBetween
  <2>2. Len(l) = k /\ Len(r) = Len(ns) - k BY <1>15
  <2>3. Len(v) = Len(ns) + 1 /\ v[k + 1] = w BY <2>1, <2>2, <1>1, <1>4
  <2>4. ASSUME NEW n \in 1..k PROVE v[n] = IF n = k THEN p ELSE ns[n]
    <3>1. n \in 1..Len(ns) BY <1>1, <1>4
    <3>2. v[n] = rest[n] BY <2>1, <2>2, <1>15
    <3> QED BY <3>1, <3>2, <1>14
  <2>5. ASSUME NEW n \in (k + 2)..(Len(ns) + 1) PROVE v[n] = ns[n - 1]
    <3>1. /\ n - (k + 1) \in 1..(Len(ns) - k) /\ k + 1 + (n - (k + 1)) = n
          /\ k + (n - (k + 1)) = n - 1
      BY <1>1, <1>4
    <3>2. v[k + 1 + (n - (k + 1))] = r[n - (k + 1)] BY <3>1, <2>1, <2>2
    <3>3. r[n - (k + 1)] = ns[k + (n - (k + 1))] BY <3>1, <1>15
    <3> QED BY <3>1, <3>2, <3>3
  <2> QED BY <2>1, <2>3, <2>4, <2>5
<1>20. \A n \in 1..(Len(ns) + 1) : n \in 1..k \/ n = k + 1 \/ n \in (k + 2)..(Len(ns) + 1)
  BY <1>1, <1>4
<1>21. v # <<>> /\ v[1].kind = "Root"
  <2>1. v # <<>> BY <1>1, <1>19
  <2>2. 1 \in 1..k BY <1>4
  <2>3. v[1].kind = ns[1].kind BY <2>2, <1>7, <1>19 DEF parent
  <2> QED BY <2>1, <2>3, <1>0
<1>22. TreeFits(v)
  <2>1. ASSUME NEW n \in 1..Len(v) PROVE NodeFits(v[n])
    <3>1. CASE n \in 1..k
      <4>1. n \in 1..Len(ns) BY <3>1, <1>1, <1>4
      <4> QED BY <4>1, <3>1, <1>0, <1>8, <1>19 DEF TreeFits
    <3>2. CASE n = k + 1 BY <3>2, <1>13, <1>19
    <3>3. CASE n \in (k + 2)..(Len(ns) + 1)
      <4>1. n - 1 \in 1..Len(ns) BY <3>3, <1>1, <1>4
      <4> QED BY <4>1, <3>3, <1>0, <1>19 DEF TreeFits
    <3> QED BY <3>1, <3>2, <3>3, <1>19, <1>20
  <2>2. ASSUME NEW n \in 1..(Len(v) - 1)
        PROVE  v[n + 1].start = v[n].start + Size(v[n].children)
    <3>1. CASE n \in 1..k /\ n # k
      <4>1. n + 1 \in 1..k /\ n \in 1..(Len(ns) - 1) BY <3>1, <1>1, <1>4
      <4>2. v[n + 1].start = ns[n + 1].start BY <4>1, <1>7, <1>19 DEF parent
      <4>3. ns[n + 1].start = ns[n].start + Size(ns[n].children)
        BY <4>1, <1>0 DEF TreeFits
      <4>4. v[n] = ns[n] BY <3>1, <1>19
      <4> QED BY <4>2, <4>3, <4>4
    <3>2. CASE n = k
      <4>1. k \in 1..k BY <1>4
      <4>2. v[n] = p /\ v[n + 1] = w BY <4>1, <3>2, <1>19
      <4>3. loc.start = parent.start + Size(kept) BY <1>4 DEF Upto, kept
      <4> QED BY <4>2, <4>3, <1>7, <1>13
    <3>3. CASE n = k + 1
      <4>1. k \in 1..(Len(ns) - 1) /\ n + 1 \in (k + 2)..(Len(ns) + 1) /\ n + 1 - 1 = k + 1
        BY <3>3, <1>1, <1>4, <1>19
      <4>2. v[n + 1] = ns[k + 1] BY <4>1, <1>19
      <4>3. ns[k + 1].start = ns[k].start + Size(ns[k].children)
        BY <4>1, <1>0 DEF TreeFits
      <4> QED BY <3>3, <4>2, <4>3, <1>11, <1>13, <1>19 DEF parent
    <3>4. CASE n \in (k + 2)..(Len(ns) + 1)
      <4>1. n - 1 \in 1..(Len(ns) - 1) /\ n + 1 \in (k + 2)..(Len(ns) + 1)
            /\ n + 1 - 1 = n - 1 + 1
        BY <3>4, <1>1, <1>4, <1>19
      <4>2. v[n + 1] = ns[n - 1 + 1] /\ v[n] = ns[n - 1] BY <4>1, <3>4, <1>19
      <4>3. ns[n - 1 + 1].start = ns[n - 1].start + Size(ns[n - 1].children)
        BY <4>1, <1>0 DEF TreeFits
      <4> QED BY <4>2, <4>3
    <3>5. n \in 1..(Len(ns) + 1) BY <1>1, <1>19
    <3> QED BY <3>1, <3>2, <3>3, <3>4, <3>5, <1>20
  <2> QED BY <2>1, <2>2 DEF TreeFits
<1>23. TopFits(v)
  <2>1. CASE k = Len(ns)
    <3>1. v[Len(v)] = w BY <2>1, <1>19
    <3> QED BY <3>1, <1>13 DEF TopFits
  <2>2. CASE k # Len(ns)
    <3>1. Len(v) \in (k + 2)..(Len(ns) + 1) /\ Len(v) - 1 = Len(ns)
      BY <2>2, <1>1, <1>4, <1>19
    <3>2. v[Len(v)] = ns[Len(ns)] BY <3>1, <1>19
    <3> QED BY <3>2, <1>0 DEF TopFits
  <2> QED BY <2>1, <2>2
<1>24. ASSUME NEW i \in 1..Len(ms) PROVE MarkFits(v, ms[i])
  <2>1. MarkFits(ns, ms[i]) /\ Sooner(ms[i], loc) BY <1>0, <1>2
  <2>2. ms[i].node \in 1..Len(ns) BY <2>1 DEF MarkFits
  <2>3. CASE ms[i].node < k
    <3>1. ms[i].node \in 1..k /\ ms[i].node # k BY <2>2, <2>3, <1>1, <1>4
    <3>2. v[ms[i].node] = ns[ms[i].node] BY <3>1, <1>19
    <3>3. ms[i].node \in 1..Len(v) BY <2>2, <1>1, <1>19
    <3> QED BY <2>1, <3>2, <3>3 DEF MarkFits
  <2>4. CASE ms[i].node = k /\ ms[i].child_count <= cc
    <3>1. k \in 1..k /\ k \in 1..Len(v) BY <1>1, <1>4, <1>19
    <3>2. v[ms[i].node] = p BY <2>4, <3>1, <1>19
    <3>3. ms[i].child_count \in 0..Len(parent.children)
      BY <2>1, <2>4 DEF MarkFits, parent
    <3>4. ms[i].child_count \in 0..cc BY <3>3, <2>4, <1>4, <1>5
    <3>5. ms[i].start = Upto(parent, ms[i].child_count)
      BY <2>1, <2>4 DEF MarkFits, parent
    <3> QED BY <2>4, <3>1, <3>2, <3>4, <3>5, <1>8 DEF MarkFits
  <2> QED BY <2>1, <2>3, <2>4 DEF Sooner, k, cc
<1>25. Builder(v, ms)
  BY <1>0, <1>19, <1>21, <1>22, <1>23, <1>24, Zenon DEF Builder, Stack
<1> QED BY <1>18, <1>19, <1>25 DEF v, loc

-----------------------------------------------------------------------------
(* The tokens of the source that are not skipped.                          *)
RawOf(in, i) == IF i \in DOMAIN in THEN in[i] ELSE "EndOfFile"
SigSeq(in, tokens) ==
  [i \in DOMAIN tokens |-> IF RawOf(in, tokens[i]) = "ws" THEN <<>> ELSE <<tokens[i]>>]
Sig(in, tokens) == FlattenSeq(SigSeq(in, tokens))

LEMMA SignificantIs == \A t : Significant(t) = Sig(input, t)
BY DEF Significant, Sig, SigSeq, Raw, RawOf

LEMMA SigSeqType ==
  ASSUME NEW in, NEW t \in Seq(Nat)
  PROVE  /\ SigSeq(in, t) \in Seq(Seq(Nat)) /\ Len(SigSeq(in, t)) = Len(t)
         /\ DOMAIN SigSeq(in, t) = 1..Len(t)
         /\ \A i \in 1..Len(t) :
               SigSeq(in, t)[i] = IF RawOf(in, t[i]) = "ws" THEN <<>> ELSE <<t[i]>>
<1>1. Len(t) \in Nat /\ DOMAIN t = 1..Len(t) OBVIOUS
<1>2. \A i \in 1..Len(t) : t[i] \in Nat OBVIOUS
<1>3. \A i \in 1..Len(t) :
         (IF RawOf(in, t[i]) = "ws" THEN <<>> ELSE <<t[i]>>) \in Seq(Nat)
  BY <1>2
<1> DEFINE F(i) == IF RawOf(in, t[i]) = "ws" THEN <<>> ELSE <<t[i]>>
           s == SigSeq(in, t)
<1>4. s = [i \in 1..Len(t) |-> F(i)] BY <1>1 DEF SigSeq
<1>5. \A i \in 1..Len(t) : F(i) \in Seq(Nat) BY <1>3
<1> HIDE DEF F, s
<1>6. s \in Seq(Seq(Nat)) /\ Len(s) = Len(t) /\ DOMAIN s = 1..Len(t)
      /\ \A i \in 1..Len(t) : s[i] = F(i)
  BY <1>1, <1>4, <1>5
<1> QED BY <1>6 DEF s, F

(* The significant tokens of a concatenation.                              *)
LEMMA SigConcat ==
  ASSUME NEW in, NEW a \in Seq(Nat), NEW b \in Seq(Nat)
  PROVE  Sig(in, a \o b) = Sig(in, a) \o Sig(in, b)
<1> DEFINE ab == a \o b
<1>1. /\ ab \in Seq(Nat) /\ Len(ab) = Len(a) + Len(b)
      /\ \A i \in 1..Len(a) : ab[i] = a[i] /\ i \in 1..Len(ab)
      /\ \A i \in 1..Len(b) : ab[Len(a) + i] = b[i] /\ Len(a) + i \in 1..Len(ab)
  BY ConcatAt
<1> HIDE DEF ab
<1>2. /\ SigSeq(in, a) \in Seq(Seq(Nat)) /\ Len(SigSeq(in, a)) = Len(a)
      /\ SigSeq(in, b) \in Seq(Seq(Nat)) /\ Len(SigSeq(in, b)) = Len(b)
      /\ SigSeq(in, ab) \in Seq(Seq(Nat)) /\ Len(SigSeq(in, ab)) = Len(a) + Len(b)
  BY <1>1, SigSeqType
<1> DEFINE S(x) == IF RawOf(in, x) = "ws" THEN <<>> ELSE <<x>>
<1>s. /\ \A i \in 1..Len(ab) : SigSeq(in, ab)[i] = S(ab[i])
      /\ \A i \in 1..Len(a) : SigSeq(in, a)[i] = S(a[i])
      /\ \A i \in 1..Len(b) : SigSeq(in, b)[i] = S(b[i])
  BY <1>1, SigSeqType
<1> HIDE DEF S
<1>3. ASSUME NEW i \in 1..Len(a) PROVE SigSeq(in, ab)[i] = SigSeq(in, a)[i]
  <2>1. i \in 1..Len(ab) /\ ab[i] = a[i] BY <1>1
  <2> QED BY <2>1, <1>s
<1>4. ASSUME NEW i \in 1..Len(b) PROVE SigSeq(in, ab)[Len(a) + i] = SigSeq(in, b)[i]
  <2>1. Len(a) + i \in 1..Len(ab) /\ ab[Len(a) + i] = b[i] BY <1>1
  <2> QED BY <2>1, <1>s
<1>5. /\ \A i \in 1..Len(SigSeq(in, a)) : SigSeq(in, ab)[i] = SigSeq(in, a)[i]
      /\ \A i \in 1..Len(SigSeq(in, b)) :
            SigSeq(in, ab)[Len(SigSeq(in, a)) + i] = SigSeq(in, b)[i]
  BY <1>2, <1>3, <1>4
<1>6. FlattenSeq(SigSeq(in, ab)) = FlattenSeq(SigSeq(in, a)) \o FlattenSeq(SigSeq(in, b))
  <2> DEFINE x == SigSeq(in, a)
             y == SigSeq(in, b)
             z == SigSeq(in, ab)
  <2>1. /\ x \in Seq(Seq(Nat)) /\ y \in Seq(Seq(Nat)) /\ z \in Seq(Seq(Nat))
        /\ Len(z) = Len(x) + Len(y)
        /\ \A i \in 1..Len(x) : z[i] = x[i]
        /\ \A i \in 1..Len(y) : z[Len(x) + i] = y[i]
    BY <1>2, <1>5
  <2> HIDE DEF x, y, z
  <2>2. FlattenSeq(z) = FlattenSeq(x) \o FlattenSeq(y) BY ONLY <2>1, FlattenJoin
  <2> QED BY <2>2 DEF x, y, z
<1> QED BY <1>6 DEF Sig, ab

LEMMA SigType ==
  ASSUME NEW in, NEW a \in Seq(Nat) PROVE Sig(in, a) \in Seq(Nat)
BY SigSeqType, FlattenType DEF Sig

(* Skipped tokens leave no trace.                                          *)
LEMMA SigSkipped ==
  ASSUME NEW in, NEW a \in Seq(Nat), \A i \in 1..Len(a) : RawOf(in, a[i]) = "ws"
  PROVE  Sig(in, a) = <<>>
<1>1. \A i \in DOMAIN SigSeq(in, a) : SigSeq(in, a)[i] = <<>> BY SigSeqType
<1>2. SigSeq(in, a) \in Seq(Seq(Nat)) BY SigSeqType
<1> QED BY <1>1, <1>2, FlattenNone DEF Sig

LEMMA IotaIs ==
  ASSUME NEW first \in Nat, NEW last \in Int, last >= first - 1
  PROVE  /\ Iota(first, last) \in Seq(Nat) /\ Len(Iota(first, last)) = last - first + 1
         /\ \A i \in 1..(last - first + 1) : Iota(first, last)[i] = first + i - 1
<1> DEFINE n == last - first + 1
           s == Iota(first, last)
<1>1. n \in Nat /\ \A i \in 1..n : first + i - 1 \in Nat OBVIOUS
<1>2. s = [i \in 1..n |-> first + i - 1] BY DEF Iota
<1> HIDE DEF n, s
<1>3. s \in Seq(Nat) /\ Len(s) = n /\ \A i \in 1..n : s[i] = first + i - 1
  BY <1>1, <1>2
<1> QED BY <1>3 DEF n, s

LEMMA IotaFromOne ==
  ASSUME NEW n \in Nat
  PROVE  Iota(1, n) \in Seq(Nat) /\ Len(Iota(1, n)) = n /\ \A i \in 1..n : Iota(1, n)[i] = i
<1>1. n >= 1 - 1 /\ n \in Int /\ 1 \in Nat OBVIOUS
<1>2. /\ Iota(1, n) \in Seq(Nat) /\ Len(Iota(1, n)) = n - 1 + 1
      /\ \A i \in 1..(n - 1 + 1) : Iota(1, n)[i] = 1 + i - 1
  BY <1>1, IotaIs
<1> QED BY <1>2

(* Tokens read up to a position, and from there on.                        *)
LEMMA IotaJoin ==
  ASSUME NEW c \in Nat \ {0}, NEW n \in Int, n >= c - 1
  PROVE  Iota(1, n) = Iota(1, c - 1) \o Iota(c, n)
<1> DEFINE a == Iota(1, c - 1)
           b == Iota(c, n)
           t == Iota(1, n)
<1>1. /\ a \in Seq(Nat) /\ Len(a) = c - 1 /\ \A i \in 1..(c - 1) : a[i] = i
      /\ b \in Seq(Nat) /\ Len(b) = n - c + 1 /\ \A i \in 1..(n - c + 1) : b[i] = c + i - 1
      /\ t \in Seq(Nat) /\ Len(t) = n /\ \A i \in 1..n : t[i] = i
  <2>1. c - 1 \in Nat /\ n \in Nat OBVIOUS
  <2>2. a \in Seq(Nat) /\ Len(a) = c - 1 /\ \A i \in 1..(c - 1) : a[i] = i
    BY <2>1, IotaFromOne
  <2>3. b \in Seq(Nat) /\ Len(b) = n - c + 1 /\ \A i \in 1..(n - c + 1) : b[i] = c + i - 1
    BY IotaIs
  <2>4. t \in Seq(Nat) /\ Len(t) = n /\ \A i \in 1..n : t[i] = i
    BY <2>1, IotaFromOne
  <2> QED BY <2>2, <2>3, <2>4
<1> HIDE DEF a, b, t
<1>2. a \o b \in Seq(Nat) /\ Len(a \o b) = n
      /\ \A i \in 1..n : (a \o b)[i] = IF i <= Len(a) THEN a[i] ELSE b[i - Len(a)]
  BY <1>1
<1>3. \A i \in 1..n : (a \o b)[i] = t[i]
  <2> TAKE i \in 1..n
  <2>1. CASE i <= c - 1 BY <2>1, <1>1, <1>2
  <2>2. CASE ~(i <= c - 1)
    <3>1. i - (c - 1) \in 1..(n - c + 1) /\ c + (i - (c - 1)) - 1 = i BY <2>2
    <3> QED BY <3>1, <2>2, <1>1, <1>2
  <2> QED BY <2>1, <2>2
<1>4. a \o b = t BY <1>1, <1>2, <1>3, SeqEqual
<1> QED BY <1>4 DEF a, b, t

LEMMA SigRead ==
  ASSUME NEW in, NEW c \in Nat \ {0}, NEW n \in Int, n >= c - 1, NEW ls \in Seq(Nat),
         Sig(in, ls) = Sig(in, Iota(1, c - 1))
  PROVE  Sig(in, ls \o Iota(c, n)) = Sig(in, Iota(1, n))
<1>1. c - 1 >= 1 - 1 /\ c - 1 \in Int OBVIOUS
<1>2. Iota(1, c - 1) \in Seq(Nat) /\ Iota(c, n) \in Seq(Nat) BY <1>1, IotaIs
<1>3. Sig(in, ls \o Iota(c, n)) = Sig(in, ls) \o Sig(in, Iota(c, n)) BY <1>2, SigConcat
<1>4. Sig(in, Iota(1, c - 1) \o Iota(c, n)) = Sig(in, Iota(1, c - 1)) \o Sig(in, Iota(c, n))
  BY <1>2, SigConcat
<1> QED BY <1>3, <1>4, IotaJoin

LEMMA SigSkip ==
  ASSUME NEW in, NEW ls \in Seq(Nat), NEW more \in Seq(Nat),
         \A i \in 1..Len(more) : RawOf(in, more[i]) = "ws"
  PROVE  Sig(in, ls \o more) = Sig(in, ls)
<1>0. Sig(in, more) = <<>> BY SigSkipped
<1>1. Sig(in, ls \o more) = Sig(in, ls) \o <<>> BY <1>0, SigConcat
<1>2. Sig(in, ls) \in Seq(Nat) BY SigType
<1> QED BY <1>1, <1>2

-----------------------------------------------------------------------------
(* The cursor.                                                             *)
LEMMA SkipIs ==
  ASSUME Len(input) \in Nat, DOMAIN input = 1..Len(input), NEW i \in 1..(Len(input) + 1)
  PROVE  /\ Skip(i) \in i..(Len(input) + 1) /\ Raw(Skip(i)) # "ws"
         /\ \A k \in i..(Skip(i) - 1) : Raw(k) = "ws"
<1> DEFINE n == Len(input)
           T == {j \in i..(n + 1) : Raw(j) # "ws"}
<1>1. n + 1 \in T BY DEF Raw
<1>2. T \subseteq Nat /\ T # {} BY <1>1
<1>3. PICK x \in T : \A y \in T : x <= y
  <2> HIDE DEF T
  <2> QED BY <1>2, LeastElement
<1>4. x \in i..(n + 1) /\ Raw(x) # "ws" BY <1>3
<1>5. \A k \in i..(x - 1) : Raw(k) = "ws"
  <2> TAKE k \in i..(x - 1)
  <2>1. k \in i..(n + 1) /\ ~(x <= k) BY <1>4
  <2> QED BY <2>1, <1>3
<1> DEFINE Q(j) == Raw(j) # "ws" /\ \A k \in i..(j - 1) : Raw(k) = "ws"
<1>6. \E j \in i..(n + 2) : Q(j)
  <2>1. x \in i..(n + 2) BY <1>4
  <2> QED BY <2>1, <1>4, <1>5
<1>7. Skip(i) = CHOOSE j \in i..(n + 2) : Q(j) BY DEF Skip
<1>8. Skip(i) \in i..(n + 2) /\ Q(Skip(i))
  <2> HIDE DEF Q
  <2> QED BY <1>6, <1>7
<1>9. Skip(i) <= x
  <2>1. ~(x \in i..(Skip(i) - 1)) BY <1>4, <1>8
  <2> QED BY <2>1, <1>4, <1>8
<1> QED BY <1>4, <1>8, <1>9

(* peek_past_modifiers stops inside the file or at its end.                *)
LEMMA PastModsIs ==
  ASSUME Len(input) \in Nat, DOMAIN input = 1..Len(input), current \in 1..(Len(input) + 1)
  PROVE  PastMods \in current..(Len(input) + 1)
<1>1. Skip(current) \in current..(Len(input) + 1) BY SkipIs
<1> DEFINE T == {j \in Skip(current)..(Len(input) + 1) :
                    Raw(j) # "ws" /\ Raw(j) \notin MODIFIERS}
<1>2. Len(input) + 1 \in T
  <2>1. Raw(Len(input) + 1) = "EndOfFile" BY DEF Raw
  <2>2. Len(input) + 1 \in Skip(current)..(Len(input) + 1) BY <1>1
  <2> QED BY <2>1, <2>2 DEF MODIFIERS
<1>3. T \subseteq Nat /\ T # {} BY <1>1, <1>2
<1>4. PastMods = CHOOSE x \in T : \A y \in T : x <= y BY DEF PastMods, Min
<1>5. PastMods \in T
  <2> HIDE DEF T
  <2> QED BY <1>3, <1>4, LeastElement
<1> QED BY <1>1, <1>5

LEMMA FrontOf ==
  ASSUME NEW S, NEW s \in Seq(S), s # <<>>
  PROVE  /\ Front(s) \in Seq(S) /\ Len(Front(s)) = Len(s) - 1
         /\ \A i \in 1..(Len(s) - 1) : Front(s)[i] = s[i]
<1>1. Front(s) = SubSeq(s, 1, Len(s) - 1) BY DEF Front
<1>2. Len(s) \in Nat /\ Len(s) # 0 BY EmptySeq
<1>3. Len(s) - 1 \in 0..Len(s) BY <1>2
<1>4. SubSeq(s, 1, Len(s) - 1) \in Seq(S) /\ Len(SubSeq(s, 1, Len(s) - 1)) = Len(s) - 1
  BY <1>3, SplitAt
<1>5. \A i \in 1..(Len(s) - 1) : SubSeq(s, 1, Len(s) - 1)[i] = s[i] BY <1>2
<1> QED BY <1>1, <1>4, <1>5

LEMMA FrontAppend ==
  ASSUME NEW S, NEW s \in Seq(S), NEW x \in S
  PROVE  Front(Append(s, x)) = s
<1> DEFINE t == Append(s, x)
<1>1. /\ t \in Seq(S) /\ t # <<>> /\ Len(t) = Len(s) + 1 /\ Len(s) \in Nat
      /\ \A i \in 1..Len(s) : t[i] = s[i]
  BY AppendProperties
<1> HIDE DEF t
<1>2. /\ Front(t) \in Seq(S) /\ Len(Front(t)) = Len(s)
      /\ \A i \in 1..Len(s) : Front(t)[i] = t[i]
  BY <1>1, FrontOf
<1>3. \A i \in 1..Len(s) : Front(t)[i] = s[i] BY <1>1, <1>2
<1> HIDE DEF t
<1>4. Front(t) = s BY <1>2, <1>3, SeqEqual
<1> QED BY <1>4 DEF t

-----------------------------------------------------------------------------
(* What a program does to the builder: how many nodes are open, and at     *)
(* which of them the checkpoints are.                                      *)
Depth == Nat \ {0}
Shape == [depth : Depth, marks : Seq(Depth)]
State == {s \in Shape : \A i \in 1..Len(s.marks) : s.marks[i] <= s.depth}

Deeper(s)    == [depth |-> s.depth + 1, marks |-> s.marks]
Shallower(s) == [depth |-> s.depth - 1, marks |-> s.marks]
Marked(s)    == [depth |-> s.depth, marks |-> Append(s.marks, s.depth)]
Unmarked(s)  == [depth |-> s.depth, marks |-> Front(s.marks)]
CanEnd(s) == s.depth > 1 /\ \A i \in 1..Len(s.marks) : s.marks[i] < s.depth

(* The parts of a shape.                                                   *)
LEMMA StateType ==
  ASSUME NEW s \in State
  PROVE  /\ s.depth \in Nat /\ s.depth # 0 /\ s.marks \in Seq(Depth) /\ Len(s.marks) \in Nat
         /\ \A i \in 1..Len(s.marks) : s.marks[i] \in Nat /\ s.marks[i] # 0
                                       /\ s.marks[i] <= s.depth
         /\ s = [depth |-> s.depth, marks |-> s.marks]
<1>1. s.depth \in Depth /\ s.marks \in Seq(Depth) /\ s = [depth |-> s.depth, marks |-> s.marks]
      /\ \A i \in 1..Len(s.marks) : s.marks[i] <= s.depth
  BY DEF State, Shape
<1>2. \A i \in 1..Len(s.marks) : s.marks[i] \in Depth BY <1>1
<1> QED BY <1>1, <1>2 DEF Depth

(* Opening a node.                                                         *)
LEMMA DeeperState ==
  ASSUME NEW s \in State
  PROVE  /\ Deeper(s) \in State /\ CanEnd(Deeper(s)) /\ Shallower(Deeper(s)) = s
         /\ Deeper(s).marks = s.marks /\ Deeper(s).depth = s.depth + 1
<1>1. /\ s.depth \in Nat /\ s.depth # 0 /\ s.marks \in Seq(Depth)
      /\ \A i \in 1..Len(s.marks) : s.marks[i] \in Nat /\ s.marks[i] <= s.depth
      /\ s = [depth |-> s.depth, marks |-> s.marks]
  BY StateType
<1>2. Deeper(s).marks = s.marks /\ Deeper(s).depth = s.depth + 1 BY DEF Deeper
<1>3. s.depth + 1 \in Depth /\ s.depth + 1 - 1 = s.depth /\ s.depth + 1 > 1
      /\ (s.depth + 1) - 1 = s.depth
      /\ \A i \in 1..Len(s.marks) : s.marks[i] < s.depth + 1 /\ s.marks[i] <= s.depth + 1
  BY <1>1 DEF Depth
<1>4. Deeper(s) \in State BY <1>1, <1>3 DEF Deeper, State, Shape
<1>5. CanEnd(Deeper(s)) BY <1>2, <1>3 DEF CanEnd
<1>6. Shallower(Deeper(s)) = s BY <1>1, <1>2, <1>3 DEF Shallower
<1> QED BY <1>2, <1>4, <1>5, <1>6

(* Closing one.                                                            *)
LEMMA ShallowerState ==
  ASSUME NEW s \in State, CanEnd(s)
  PROVE  /\ Shallower(s) \in State /\ Shallower(s).marks = s.marks
         /\ Shallower(s).depth = s.depth - 1
<1>1. /\ s.depth \in Nat /\ s.depth # 0 /\ s.marks \in Seq(Depth)
      /\ \A i \in 1..Len(s.marks) : s.marks[i] \in Nat
  BY StateType
<1>2. s.depth - 1 \in Depth /\ \A i \in 1..Len(s.marks) : s.marks[i] <= s.depth - 1
  BY <1>1 DEF CanEnd, Depth
<1>3. Shallower(s) \in State BY <1>1, <1>2 DEF Shallower, State, Shape
<1> QED BY <1>3 DEF Shallower

(* Taking a checkpoint.                                                    *)
LEMMA MarkedState ==
  ASSUME NEW s \in State
  PROVE  /\ Marked(s) \in State /\ Marked(s).marks # <<>> /\ Unmarked(Marked(s)) = s
         /\ Marked(s).marks = Append(s.marks, s.depth) /\ Marked(s).depth = s.depth
<1>1. /\ s.depth \in Depth /\ s.depth \in Nat /\ s.marks \in Seq(Depth) /\ Len(s.marks) \in Nat
      /\ \A i \in 1..Len(s.marks) : s.marks[i] <= s.depth
      /\ s = [depth |-> s.depth, marks |-> s.marks]
  BY StateType DEF Depth
<1> DEFINE d == s.depth
           ms == s.marks
           all == Append(ms, d)
<1>2. Marked(s).marks = all /\ Marked(s).depth = d /\ Marked(s) = [depth |-> d, marks |-> all]
  BY DEF Marked
<1>3. d \in Depth /\ d \in Nat /\ ms \in Seq(Depth) /\ Len(ms) \in Nat
      /\ (\A i \in 1..Len(ms) : ms[i] <= d) /\ s = [depth |-> d, marks |-> ms]
  BY <1>1
<1> HIDE DEF d, ms
<1>4. /\ all \in Seq(Depth) /\ all # <<>> /\ Len(all) = Len(ms) + 1
      /\ \A i \in 1..Len(ms) : all[i] = ms[i]
      /\ all[Len(ms) + 1] = d /\ Front(all) = ms
  BY <1>3, AppendProperties, FrontAppend
<1> HIDE DEF all
<1>5. \A i \in 1..Len(all) : all[i] <= d
  <2> TAKE i \in 1..Len(all)
  <2>1. i \in 1..Len(ms) \/ i = Len(ms) + 1 BY <1>3, <1>4
  <2> QED BY <2>1, <1>3, <1>4
<1>6. Marked(s) \in State BY <1>2, <1>3, <1>4, <1>5 DEF State, Shape
<1>7. Unmarked(Marked(s)) = s BY <1>2, <1>3, <1>4 DEF Unmarked
<1> QED BY <1>2, <1>4, <1>6, <1>7 DEF all, d, ms

(* Forgetting one.                                                         *)
LEMMA UnmarkedState ==
  ASSUME NEW s \in State, s.marks # <<>>
  PROVE  Unmarked(s) \in State /\ Unmarked(s).marks = Front(s.marks)
         /\ Unmarked(s).depth = s.depth
<1>1. /\ s.depth \in Depth /\ s.depth \in Nat /\ s.marks \in Seq(Depth) /\ Len(s.marks) \in Nat
      /\ \A i \in 1..Len(s.marks) : s.marks[i] <= s.depth
  BY StateType DEF Depth
<1> DEFINE ms == s.marks
           f == Front(ms)
<1>2. ms \in Seq(Depth) /\ ms # <<>> BY <1>1
<1> HIDE DEF ms
<1>3. /\ f \in Seq(Depth) /\ Len(f) = Len(ms) - 1
      /\ \A i \in 1..(Len(ms) - 1) : f[i] = ms[i]
  BY <1>2, FrontOf
<1>4. \A i \in 1..Len(f) : f[i] = ms[i] /\ i \in 1..Len(ms) BY <1>2, <1>3
<1> HIDE DEF f
<1>5. \A i \in 1..Len(f) : f[i] <= s.depth BY <1>1, <1>4 DEF ms
<1>6. Unmarked(s) = [depth |-> s.depth, marks |-> f] BY DEF Unmarked, f, ms
<1>7. Unmarked(s) \in State BY <1>1, <1>3, <1>5, <1>6 DEF State, Shape
<1> QED BY <1>6, <1>7 DEF f, ms

(* W says of programs which shape each makes of which: what one            *)
(* instruction does, if W is right about the programs in it ...            *)
SimpleOps == {"consume", "either", "fail", "modifiers", "modifier", "check_mods",
              "function", "depoison"}
BranchOps == {"peek", "advance", "checked", "next", "past"}
(* A declaration closes the nodes it opened, and forgets its checkpoints.  *)
Done == [depth |-> 1, marks |-> <<>>]
Moves(W, o, s, u) ==
  \/ o.op \in SimpleOps /\ u = s
  \/ o.op = "file" /\ s = Done /\ u = Done
  \/ o.op = "start" /\ o.kind \in NodeKinds /\ u = Deeper(s)
  \/ o.op = "start_at" /\ o.kind \in NodeKinds /\ s.marks # <<>> /\ u = Deeper(s)
  \/ o.op = "end" /\ CanEnd(s) /\ u = Shallower(s)
  \/ o.op = "mark" /\ u = Marked(s)
  \/ o.op = "unmark" /\ s.marks # <<>> /\ u = Unmarked(s)
  \/ o.op = "do" /\ o.name \in DOMAIN Body /\ o.name # "closure" /\ u = s
  \/ o.op = "do" /\ o.name = "closure" /\ CanEnd(s) /\ u = Shallower(s)
  \/ o.op \in {"infix", "postfix"} /\ s.marks # <<>> /\ u = s
  \/ /\ o.op \in BranchOps /\ <<o.other, s, u>> \in W
     /\ \A k \in DOMAIN o.arms : <<o.arms[k], s, u>> \in W
  \/ o.op = "match" /\ <<o.yes, s, u>> \in W /\ <<o.no, s, u>> \in W
  \/ o.op = "until" /\ u = s /\ <<o.body, s, s>> \in W
  \/ o.op = "separated" /\ u = s /\ <<o.item, s, s>> \in W

(* ... and W is right about them.                                          *)
IsProgram(p) == \E O : p \in Seq(O)
Link(W, p, s, t) ==
  /\ IsProgram(p) /\ s \in State /\ t \in State
  /\ p = <<>> => s = t
  /\ p # <<>> => \E u \in State : Moves(W, Head(p), s, u) /\ <<Tail(p), u, t>> \in W
Closed(W) == \A w \in W : \E p, s, t : w = <<p, s, t>> /\ Link(W, p, s, t)

Good(o, s, u)  == \E W : Closed(W) /\ Moves(W, o, s, u)
Typed(p, s, t) == \E W : Closed(W) /\ <<p, s, t>> \in W

(* Moves and Link are monotonic ...                                        *)
LEMMA MovesWider ==
  ASSUME NEW W, NEW V, W \subseteq V, NEW o, NEW s, NEW u, Moves(W, o, s, u)
  PROVE  Moves(V, o, s, u)
BY DEF Moves

LEMMA LinkWider ==
  ASSUME NEW W, NEW V, W \subseteq V, NEW p, NEW s, NEW t, Link(W, p, s, t)
  PROVE  Link(V, p, s, t)
<1>1. CASE p = <<>> BY <1>1 DEF Link
<1>2. CASE p # <<>>
  <2>1. PICK u \in State : Moves(W, Head(p), s, u) /\ <<Tail(p), u, t>> \in W
    BY <1>2 DEF Link
  <2>2. Moves(V, Head(p), s, u) BY <2>1, MovesWider
  <2>3. <<Tail(p), u, t>> \in V BY <2>1
  <2>4. IsProgram(p) /\ s \in State /\ t \in State BY DEF Link
  <2> QED BY <1>2, <2>2, <2>3, <2>4, Zenon DEF Link
<1> QED BY <1>1, <1>2

LEMMA ClosedAt ==
  ASSUME NEW W, Closed(W), NEW p, NEW s, NEW t, <<p, s, t>> \in W
  PROVE  Link(W, p, s, t)
<1>1. PICK q, a, b : <<p, s, t>> = <<q, a, b>> /\ Link(W, q, a, b) BY Zenon DEF Closed
<1>2. p = q /\ s = a /\ t = b BY <1>1
<1> QED BY <1>1, <1>2, Zenon

(* ... so closed sets may be joined.                                       *)
LEMMA ClosedUnion ==
  ASSUME NEW C, \A W \in C : Closed(W)
  PROVE  Closed(UNION C)
<1> SUFFICES ASSUME NEW w \in UNION C
             PROVE  \E p, s, t : w = <<p, s, t>> /\ Link(UNION C, p, s, t)
  BY Zenon DEF Closed
<1>1. PICK W \in C : w \in W OBVIOUS
<1>2. PICK p, s, t : w = <<p, s, t>> /\ Link(W, p, s, t) BY <1>1, Zenon DEF Closed
<1>3. W \subseteq UNION C BY <1>1
<1>4. Link(UNION C, p, s, t) BY <1>2, <1>3, LinkWider
<1> QED BY <1>2, <1>4, Zenon

LEMMA ClosedBoth ==
  ASSUME NEW A, NEW B, Closed(A), Closed(B)
  PROVE  Closed(A \cup B)
<1>1. \A W \in {A, B} : Closed(W) OBVIOUS
<1>2. UNION {A, B} = A \cup B OBVIOUS
<1> QED BY <1>1, <1>2, ClosedUnion

LEMMA TypedEmpty == ASSUME NEW s \in State PROVE Typed(<<>>, s, s)
<1> DEFINE W == {<<<<>>, s, s>>}
<1>1. IsProgram(<<>>)
  <2>1. <<>> \in Seq({}) OBVIOUS
  <2> QED BY <2>1, Zenon DEF IsProgram
<1>2. Link(W, <<>>, s, s) BY <1>1 DEF Link
<1>3. Closed(W) BY <1>2, Zenon DEF Closed
<1> QED BY <1>3, Zenon DEF Typed

(* A program of one instruction.                                           *)
LEMMA TypedOne ==
  ASSUME NEW s \in State, NEW u \in State, NEW o, Good(o, s, u)
  PROVE  Typed(<<o>>, s, u)
<1>1. PICK V : Closed(V) /\ Moves(V, o, s, u) BY Zenon DEF Good
<1>2. PICK E : Closed(E) /\ <<<<>>, u, u>> \in E BY TypedEmpty, Zenon DEF Typed
<1> DEFINE B == V \cup E
           W == B \cup {<<<<o>>, s, u>>}
<1>3. Closed(B) BY <1>1, <1>2, ClosedBoth
<1>4. Link(W, <<o>>, s, u)
  <2>1. <<o>> \in Seq({o}) /\ <<o>> # <<>> /\ Head(<<o>>) = o /\ Tail(<<o>>) = <<>>
    OBVIOUS
  <2>2. IsProgram(<<o>>) BY <2>1, Zenon DEF IsProgram
  <2>3. Moves(W, o, s, u)
    <3>1. V \subseteq W OBVIOUS
    <3> HIDE DEF W
    <3> QED BY <3>1, <1>1, MovesWider
  <2>4. <<<<>>, u, u>> \in W BY <1>2
  <2>5. <<Tail(<<o>>), u, u>> \in W BY <2>1, <2>4
  <2>6. Moves(W, Head(<<o>>), s, u) BY <2>1, <2>3
  <2> HIDE DEF W
  <2> QED BY <2>1, <2>2, <2>5, <2>6, Zenon DEF Link
<1>5. Closed(W)
  <2> SUFFICES ASSUME NEW w \in W
               PROVE  \E p, a, b : w = <<p, a, b>> /\ Link(W, p, a, b)
    BY Zenon DEF Closed
  <2>1. CASE w \in B
    <3>1. PICK p, a, b : w = <<p, a, b>> /\ Link(B, p, a, b)
      BY <1>3, <2>1, Zenon DEF Closed
    <3>2. B \subseteq W OBVIOUS
    <3>3. Link(W, p, a, b)
      <4> HIDE DEF W, B
      <4> QED BY <3>1, <3>2, LinkWider
    <3> QED BY <3>1, <3>3, Zenon
  <2>2. CASE w = <<<<o>>, s, u>> BY <2>2, <1>4, Zenon
  <2> QED BY <2>1, <2>2
<1>6. <<<<o>>, s, u>> \in W OBVIOUS
<1> HIDE DEF W
<1> QED BY <1>5, <1>6, Zenon DEF Typed

(* The first instruction of a concatenation.                               *)
LEMMA ConcatHeadTail ==
  ASSUME NEW x, NEW q, IsProgram(x), IsProgram(q)
  PROVE  /\ IsProgram(x \o q) /\ <<>> \o q = q
         /\ x # <<>> => /\ x \o q # <<>> /\ Head(x \o q) = Head(x)
                        /\ Tail(x \o q) = Tail(x) \o q
                        /\ IsProgram(Tail(x))
<1>1. PICK O : x \in Seq(O) BY Zenon DEF IsProgram
<1>2. PICK U : q \in Seq(U) BY Zenon DEF IsProgram
<1> DEFINE S == O \cup U
<1>3. x \in Seq(S) /\ q \in Seq(S)
  <2>1. \A i \in 1..Len(x) : x[i] \in O BY <1>1
  <2>2. \A i \in 1..Len(q) : q[i] \in U BY <1>2
  <2>3. x \in Seq(S) BY <1>1, <2>1
  <2>4. q \in Seq(S) BY <1>2, <2>2
  <2> QED BY <2>3, <2>4
<1> HIDE DEF S
<1>4. x \o q \in Seq(S) BY <1>3, ConcatProperties
<1>5. <<>> \o q = q BY <1>3
<1>6. ASSUME x # <<>>
      PROVE  /\ x \o q # <<>> /\ Head(x \o q) = Head(x) /\ Tail(x \o q) = Tail(x) \o q
             /\ Tail(x) \in Seq(S)
  <2>1. /\ Len(x) \in Nat /\ Len(x) # 0 /\ Len(q) \in Nat
        /\ Tail(x) \in Seq(S) /\ Len(Tail(x)) = Len(x) - 1
        /\ \A i \in 1..(Len(x) - 1) : Tail(x)[i] = x[i + 1]
        /\ Head(x) = x[1]
    BY <1>3, <1>6
  <2> DEFINE c == x \o q
             t == Tail(x)
  <2>2. /\ c \in Seq(S) /\ Len(c) = Len(x) + Len(q)
        /\ \A i \in 1..(Len(x) + Len(q)) : c[i] = IF i <= Len(x) THEN x[i] ELSE q[i - Len(x)]
    BY <1>3
  <2>3. t \in Seq(S) /\ Len(t) = Len(x) - 1 /\ \A i \in 1..(Len(x) - 1) : t[i] = x[i + 1]
    BY <2>1
  <2> HIDE DEF c, t
  <2>4. c # <<>> /\ Head(c) = x[1] /\ 1 \in 1..(Len(x) + Len(q))
        /\ Tail(c) \in Seq(S) /\ Len(Tail(c)) = Len(x) + Len(q) - 1
        /\ \A i \in 1..(Len(x) + Len(q) - 1) : Tail(c)[i] = c[i + 1]
    BY <2>1, <2>2
  <2> DEFINE d == t \o q
             e == Tail(c)
  <2>5. /\ d \in Seq(S) /\ Len(d) = Len(x) - 1 + Len(q)
        /\ \A i \in 1..(Len(x) - 1 + Len(q)) :
              d[i] = IF i <= Len(x) - 1 THEN t[i] ELSE q[i - (Len(x) - 1)]
    BY <1>3, <2>1, <2>3, SMTT(30)
  <2>6. e \in Seq(S) /\ Len(e) = Len(x) + Len(q) - 1
        /\ \A i \in 1..(Len(x) + Len(q) - 1) : e[i] = c[i + 1]
    BY <2>4
  <2> HIDE DEF d, e
  <2>7. Len(e) = Len(d) BY <2>1, <2>5, <2>6
  <2>8. \A i \in 1..Len(e) : e[i] = d[i]
    <3> TAKE i \in 1..Len(e)
    <3>1. i \in Nat /\ i # 0 /\ i <= Len(x) + Len(q) - 1 BY <2>1, <2>6
    <3>2. CASE i <= Len(x) - 1
      <4>1. i \in 1..(Len(x) - 1) /\ i + 1 <= Len(x) /\ i + 1 \in 1..(Len(x) + Len(q))
            /\ i \in 1..(Len(x) - 1 + Len(q)) /\ i \in 1..(Len(x) + Len(q) - 1)
        BY <3>1, <3>2, <2>1
      <4>2. e[i] = c[i + 1] /\ c[i + 1] = x[i + 1] BY <4>1, <2>2, <2>6
      <4>3. d[i] = t[i] /\ t[i] = x[i + 1] BY <4>1, <3>2, <2>3, <2>5
      <4> QED BY <4>2, <4>3
    <3>3. CASE ~(i <= Len(x) - 1)
      <4>1. ~(i + 1 <= Len(x)) /\ i + 1 \in 1..(Len(x) + Len(q))
            /\ i \in 1..(Len(x) - 1 + Len(q)) /\ i \in 1..(Len(x) + Len(q) - 1)
            /\ (i + 1) - Len(x) = i - (Len(x) - 1)
        BY <3>1, <3>3, <2>1
      <4>2. e[i] = c[i + 1] /\ c[i + 1] = q[(i + 1) - Len(x)] BY <4>1, <2>2, <2>6
      <4>3. d[i] = q[i - (Len(x) - 1)] BY <4>1, <3>3, <2>5
      <4> QED BY <4>1, <4>2, <4>3
    <3> QED BY <3>2, <3>3
  <2>9. e = d BY <2>5, <2>6, <2>7, <2>8, SeqEqual
  <2> QED BY <2>1, <2>4, <2>9 DEF c, t, d, e
<1> QED BY <1>4, <1>5, <1>6, Zenon DEF IsProgram

(* One program after another.                                              *)
LEMMA TypedConcat ==
  ASSUME NEW p, NEW q, NEW s, NEW u, NEW t, Typed(p, s, u), Typed(q, u, t)
  PROVE  Typed(p \o q, s, t)
<1>1. PICK A : Closed(A) /\ <<p, s, u>> \in A BY Zenon DEF Typed
<1>2. PICK B : Closed(B) /\ <<q, u, t>> \in B BY Zenon DEF Typed
<1> DEFINE X == {<<w[1] \o q, w[2], t>> : w \in {v \in A : v[3] = u}}
           AB == A \cup B
           W == AB \cup X
<1>3. Closed(AB) BY <1>1, <1>2, ClosedBoth
<1>4. IsProgram(q) BY <1>2, ClosedAt DEF Link
<1>5. ASSUME NEW x, NEW a, <<x, a, u>> \in A PROVE <<x \o q, a, t>> \in X
  <2> DEFINE w == <<x, a, u>>
  <2>1. w \in A /\ w[1] = x /\ w[2] = a /\ w[3] = u BY <1>5
  <2> HIDE DEF w
  <2>2. <<w[1] \o q, w[2], t>> \in X BY <2>1
  <2> QED BY <2>1, <2>2
<1>6. ASSUME NEW y \in X
      PROVE  \E x, a : y = <<x \o q, a, t>> /\ <<x, a, u>> \in A
  <2>1. PICK w \in A : w[3] = u /\ y = <<w[1] \o q, w[2], t>> BY <1>6
  <2>2. PICK x, a, b : w = <<x, a, b>> BY <1>1, <2>1, Zenon, SMTT(30) DEF Closed
  <2>3. w[1] = x /\ w[2] = a /\ b = u BY <2>1, <2>2
  <2>4. y = <<x \o q, a, t>> /\ <<x, a, u>> \in A BY <2>1, <2>2, <2>3
  <2> QED BY <2>4, Zenon
<1> HIDE DEF X
<1>7. AB \subseteq W /\ X \subseteq W /\ A \subseteq W /\ B \subseteq W OBVIOUS
<1> HIDE DEF AB, W
<1>8. ASSUME NEW x, NEW a, <<x, a, u>> \in A PROVE Link(W, x \o q, a, t)
  <2>1. Link(A, x, a, u) BY <1>1, <1>8, ClosedAt
  <2>2. IsProgram(x) /\ a \in State BY <2>1 DEF Link
  <2>3. CASE x = <<>>
    <3>1. a = u BY <2>1, <2>3 DEF Link
    <3>2. x \o q = q BY <2>2, <2>3, <1>4, ConcatHeadTail
    <3>3. Link(B, q, u, t) BY <1>2, ClosedAt
    <3>4. Link(W, q, u, t) BY <3>3, <1>7, LinkWider
    <3> QED BY <3>1, <3>2, <3>4
  <2>4. CASE x # <<>>
    <3>1. PICK b \in State : Moves(A, Head(x), a, b) /\ <<Tail(x), b, u>> \in A
      BY <2>1, <2>4 DEF Link
    <3>2. Moves(W, Head(x), a, b) BY <3>1, <1>7, MovesWider
    <3>3. <<Tail(x) \o q, b, t>> \in W BY <3>1, <1>5, <1>7
    <3>4. /\ x \o q # <<>> /\ Head(x \o q) = Head(x) /\ Tail(x \o q) = Tail(x) \o q
          /\ IsProgram(x \o q)
      BY <2>2, <2>4, <1>4, ConcatHeadTail
    <3>5. t \in State
      <4>1. Link(B, q, u, t) BY <1>2, ClosedAt
      <4> QED BY <4>1 DEF Link
    <3>6. Moves(W, Head(x \o q), a, b) BY <3>2, <3>4
    <3>7. <<Tail(x \o q), b, t>> \in W BY <3>3, <3>4
    <3> QED BY <2>2, <3>4, <3>5, <3>6, <3>7, Zenon DEF Link
  <2> QED BY <2>3, <2>4
<1>9. Closed(W)
  <2> SUFFICES ASSUME NEW w \in W
               PROVE  \E x, a, b : w = <<x, a, b>> /\ Link(W, x, a, b)
    BY Zenon DEF Closed
  <2>1. CASE w \in AB
    <3>1. PICK x, a, b : w = <<x, a, b>> /\ Link(AB, x, a, b)
      BY <1>3, <2>1, Zenon DEF Closed
    <3>2. Link(W, x, a, b) BY <3>1, <1>7, LinkWider
    <3> QED BY <3>1, <3>2, Zenon
  <2>2. CASE w \in X
    <3>1. PICK x, a : w = <<x \o q, a, t>> /\ <<x, a, u>> \in A BY <2>2, <1>6
    <3>2. Link(W, x \o q, a, t) BY <3>1, <1>8
    <3> QED BY <3>1, <3>2, Zenon
  <2> QED BY <2>1, <2>2 DEF W
<1>10. <<p \o q, s, t>> \in W BY <1>1, <1>5, <1>7
<1> QED BY <1>9, <1>10, Zenon DEF Typed

(* A program that is not empty: its first instruction, and the others.     *)
LEMMA TypedFirst ==
  ASSUME NEW p, NEW s, NEW t, Typed(p, s, t)
  PROVE  /\ IsProgram(p) /\ s \in State /\ t \in State
         /\ p = <<>> => s = t
         /\ p # <<>> => \E u \in State : Good(Head(p), s, u) /\ Typed(Tail(p), u, t)
<1>1. PICK W : Closed(W) /\ <<p, s, t>> \in W BY Zenon DEF Typed
<1>2. Link(W, p, s, t) BY <1>1, ClosedAt
<1>3. ASSUME p # <<>>
      PROVE  \E u \in State : Good(Head(p), s, u) /\ Typed(Tail(p), u, t)
  <2>1. PICK u \in State : Moves(W, Head(p), s, u) /\ <<Tail(p), u, t>> \in W
    BY <1>2, <1>3, Zenon DEF Link
  <2>2. Good(Head(p), s, u) BY <1>1, <2>1, Zenon DEF Good
  <2>3. Typed(Tail(p), u, t) BY <1>1, <2>1, Zenon DEF Typed
  <2> QED BY <2>2, <2>3, Zenon
<1> QED BY <1>2, <1>3, Zenon DEF Link

(* The instructions, one by one.                                           *)
LEMMA EmptyClosed == Closed({})
BY DEF Closed

LEMMA GoodPlain ==
  ASSUME NEW o, NEW s, NEW u, Moves({}, o, s, u)
  PROVE  Good(o, s, u)
BY EmptyClosed, Zenon DEF Good

LEMMA TypedPlain ==
  ASSUME NEW o, NEW s \in State, NEW u \in State, Moves({}, o, s, u)
  PROVE  Typed(<<o>>, s, u)
BY GoodPlain, TypedOne

LEMMA TypedSimple ==
  ASSUME NEW o, o.op \in SimpleOps, NEW s \in State
  PROVE  Good(o, s, s) /\ Typed(<<o>>, s, s)
<1>1. Moves({}, o, s, s) BY DEF Moves
<1> QED BY <1>1, GoodPlain, TypedPlain

(* The instructions that open and close nodes, take and forget             *)
(* checkpoints.                                                            *)
LEMMA TypedStart ==
  ASSUME NEW kind \in NodeKinds, NEW s \in State
  PROVE  Typed(Start(kind), s, Deeper(s))
<1> DEFINE o == [op |-> "start", kind |-> kind]
<1>1. Moves({}, o, s, Deeper(s)) BY DEF Moves
<1>2. Deeper(s) \in State BY DeeperState
<1> HIDE DEF o
<1>3. Typed(<<o>>, s, Deeper(s)) BY <1>1, <1>2, TypedPlain
<1> QED BY <1>3 DEF Start, o

LEMMA TypedStartAt ==
  ASSUME NEW kind \in NodeKinds, NEW s \in State, s.marks # <<>>
  PROVE  Typed(StartAt(kind), s, Deeper(s))
<1> DEFINE o == [op |-> "start_at", kind |-> kind]
<1>1. Moves({}, o, s, Deeper(s)) BY DEF Moves
<1>2. Deeper(s) \in State BY DeeperState
<1> HIDE DEF o
<1>3. Typed(<<o>>, s, Deeper(s)) BY <1>1, <1>2, TypedPlain
<1> QED BY <1>3 DEF StartAt, o

LEMMA TypedEnd ==
  ASSUME NEW s \in State, CanEnd(s)
  PROVE  Typed(End, s, Shallower(s))
<1> DEFINE o == [op |-> "end"]
<1>1. Moves({}, o, s, Shallower(s)) BY DEF Moves
<1>2. Shallower(s) \in State BY ShallowerState
<1> HIDE DEF o
<1>3. Typed(<<o>>, s, Shallower(s)) BY <1>1, <1>2, TypedPlain
<1> QED BY <1>3 DEF End, o

LEMMA TypedMark ==
  ASSUME NEW s \in State PROVE Typed(Mark, s, Marked(s))
<1> DEFINE o == [op |-> "mark"]
<1>1. Moves({}, o, s, Marked(s)) BY DEF Moves
<1>2. Marked(s) \in State BY MarkedState
<1> HIDE DEF o
<1>3. Typed(<<o>>, s, Marked(s)) BY <1>1, <1>2, TypedPlain
<1> QED BY <1>3 DEF Mark, o

LEMMA TypedUnmark ==
  ASSUME NEW s \in State PROVE Typed(Unmark, Marked(s), s)
<1> DEFINE o == [op |-> "unmark"]
<1>1. Marked(s) \in State /\ Marked(s).marks # <<>> /\ Unmarked(Marked(s)) = s
  BY MarkedState
<1>2. Moves({}, o, Marked(s), s) BY <1>1 DEF Moves
<1> HIDE DEF o
<1>3. Typed(<<o>>, Marked(s), s) BY <1>1, <1>2, TypedPlain
<1> QED BY <1>3 DEF Unmark, o

(* A call of a production.                                                 *)
LEMMA TypedDo ==
  ASSUME NEW name \in DOMAIN Body, name # "closure", NEW s \in State
  PROVE  Typed(Do(name), s, s)
<1> DEFINE o == [op |-> "do", name |-> name]
<1>1. Moves({}, o, s, s) BY Zenon DEF Moves
<1> HIDE DEF o
<1>2. Typed(<<o>>, s, s) BY <1>1, TypedPlain
<1> QED BY <1>2 DEF Do, o

LEMMA TypedDoClosure ==
  ASSUME NEW s \in State, CanEnd(s)
  PROVE  Typed(Do("closure"), s, Shallower(s))
<1> DEFINE o == [op |-> "do", name |-> "closure"]
<1>1. Moves({}, o, s, Shallower(s)) BY DEF Moves
<1>2. Shallower(s) \in State BY ShallowerState
<1> HIDE DEF o
<1>3. Typed(<<o>>, s, Shallower(s)) BY <1>1, <1>2, TypedPlain
<1> QED BY <1>3 DEF Do, o

(* The loops over operators.                                               *)
LEMMA TypedFix ==
  ASSUME NEW o, o.op \in {"infix", "postfix"}, NEW s \in State, s.marks # <<>>
  PROVE  Good(o, s, s) /\ Typed(<<o>>, s, s)
<1>1. Moves({}, o, s, s) BY DEF Moves
<1> QED BY <1>1, GoodPlain, TypedPlain

(* Branches.                                                               *)
LEMMA GoodBranch ==
  ASSUME NEW o, o.op \in BranchOps, NEW s, NEW u, Typed(o.other, s, u),
         \A k \in DOMAIN o.arms : Typed(o.arms[k], s, u)
  PROVE  Good(o, s, u)
<1>1. PICK E : Closed(E) /\ <<o.other, s, u>> \in E BY Zenon DEF Typed
<1> DEFINE P(k, W) == Closed(W) /\ <<o.arms[k], s, u>> \in W
           F(k) == CHOOSE W : P(k, W)
           C == {E} \cup {F(k) : k \in DOMAIN o.arms}
<1>2. ASSUME NEW k \in DOMAIN o.arms PROVE P(k, F(k))
  <2>1. \E W : P(k, W) BY Zenon DEF Typed
  <2> HIDE DEF P
  <2> QED BY <2>1, Zenon
<1> HIDE DEF F
<1>3. \A W \in C : Closed(W) BY <1>1, <1>2
<1>4. Closed(UNION C)
  <2> HIDE DEF C
  <2> QED BY <1>3, ClosedUnion
<1>5. \A k \in DOMAIN o.arms : <<o.arms[k], s, u>> \in UNION C
  <2> TAKE k \in DOMAIN o.arms
  <2>1. <<o.arms[k], s, u>> \in F(k) BY <1>2
  <2>2. F(k) \in C OBVIOUS
  <2> HIDE DEF C
  <2> QED BY <2>1, <2>2
<1>6. <<o.other, s, u>> \in UNION C
  <2>1. E \in C OBVIOUS
  <2> HIDE DEF C
  <2> QED BY <2>1, <1>1
<1> HIDE DEF C
<1>7. Moves(UNION C, o, s, u) BY <1>5, <1>6 DEF Moves
<1> QED BY <1>4, <1>7, Zenon DEF Good

LEMMA TypedBranch ==
  ASSUME NEW op \in BranchOps, NEW arms, NEW other,
         NEW s \in State, NEW u \in State, Typed(other, s, u),
         \A k \in DOMAIN arms : Typed(arms[k], s, u)
  PROVE  Typed(<<[op |-> op, arms |-> arms, other |-> other]>>, s, u)
<1> DEFINE o == [op |-> op, arms |-> arms, other |-> other]
<1>1. o.op = op /\ o.arms = arms /\ o.other = other OBVIOUS
<1> HIDE DEF o
<1>2. \A k \in DOMAIN o.arms : Typed(o.arms[k], s, u) BY <1>1, Zenon
<1>3. Good(o, s, u) BY <1>1, <1>2, GoodBranch
<1>4. Typed(<<o>>, s, u) BY <1>3, TypedOne
<1> QED BY <1>4 DEF o

(* A conditional.                                                          *)
LEMMA TypedMatch ==
  ASSUME NEW kind, NEW yes, NEW no, NEW s \in State, NEW u \in State,
         Typed(yes, s, u), Typed(no, s, u)
  PROVE  Typed(OnMatch(kind, yes, no), s, u)
<1> DEFINE o == [op |-> "match", kind |-> kind, yes |-> yes, no |-> no]
<1>1. PICK A : Closed(A) /\ <<yes, s, u>> \in A BY Zenon DEF Typed
<1>2. PICK B : Closed(B) /\ <<no, s, u>> \in B BY Zenon DEF Typed
<1>3. Closed(A \cup B) BY <1>1, <1>2, ClosedBoth
<1>4. Moves(A \cup B, o, s, u) BY <1>1, <1>2 DEF Moves
<1> HIDE DEF o
<1>5. Good(o, s, u) BY <1>3, <1>4, Zenon DEF Good
<1>6. Typed(<<o>>, s, u) BY <1>5, TypedOne
<1> QED BY <1>6 DEF OnMatch, o

(* The loops of the parser.                                                *)
LEMMA TypedUntil ==
  ASSUME NEW kind, NEW body, NEW s \in State, Typed(body, s, s)
  PROVE  Typed(Until(kind, body), s, s)
<1> DEFINE o == [op |-> "until", kind |-> kind, body |-> body]
<1>1. PICK A : Closed(A) /\ <<body, s, s>> \in A BY Zenon DEF Typed
<1>2. Moves(A, o, s, s) BY <1>1 DEF Moves
<1> HIDE DEF o
<1>3. Good(o, s, s) BY <1>1, <1>2, Zenon DEF Good
<1>4. Typed(<<o>>, s, s) BY <1>3, TypedOne
<1> QED BY <1>4 DEF Until, o

LEMMA TypedSeparated ==
  ASSUME NEW item, NEW s \in State, Typed(item, s, s)
  PROVE  Typed(Separated(item), s, s)
<1> DEFINE o == [op |-> "separated", item |-> item]
<1>1. PICK A : Closed(A) /\ <<item, s, s>> \in A BY Zenon DEF Typed
<1>2. Moves(A, o, s, s) BY <1>1 DEF Moves
<1> HIDE DEF o
<1>3. Good(o, s, s) BY <1>1, <1>2, Zenon DEF Good
<1>4. Typed(<<o>>, s, s) BY <1>3, TypedOne
<1> QED BY <1>4 DEF Separated, o

(* A sequence of instructions that leave the builder's shape alone.        *)
LEMMA TypedSimples ==
  ASSUME NEW O, \A o \in O : o.op \in SimpleOps, NEW p \in Seq(O), NEW s \in State
  PROVE  Typed(p, s, s)
<1> DEFINE W == {<<q, s, s>> : q \in Seq(O)}
<1>1. ASSUME NEW q \in Seq(O) PROVE Link(W, q, s, s)
  <2>1. IsProgram(q) BY Zenon DEF IsProgram
  <2>2. ASSUME q # <<>> PROVE Moves(W, Head(q), s, s) /\ <<Tail(q), s, s>> \in W
    <3>1. Head(q) \in O /\ Tail(q) \in Seq(O) BY <2>2
    <3>2. Moves(W, Head(q), s, s)
      <4> HIDE DEF W
      <4> QED BY <3>1 DEF Moves
    <3> QED BY <3>1, <3>2
  <2> HIDE DEF W
  <2> QED BY <2>1, <2>2, Zenon DEF Link
<1>2. Closed(W)
  <2> SUFFICES ASSUME NEW w \in W
               PROVE  \E x, a, b : w = <<x, a, b>> /\ Link(W, x, a, b)
    BY Zenon DEF Closed
  <2>1. PICK q \in Seq(O) : w = <<q, s, s>> OBVIOUS
  <2>2. Link(W, q, s, s) BY <2>1, <1>1
  <2> HIDE DEF W
  <2> QED BY <2>1, <2>2, Zenon
<1>3. <<p, s, s>> \in W OBVIOUS
<1> HIDE DEF W
<1> QED BY <1>2, <1>3, Zenon DEF Typed

-----------------------------------------------------------------------------
(* Programs that leave the builder's shape as it was: always, where there  *)
(* is a checkpoint; and one that closes the node that is open.             *)
Keeps(p)   == \A s \in State : Typed(p, s, s)
KeepsM(p)  == \A s \in State : s.marks # <<>> => Typed(p, s, s)
Shrinks(p) == \A s \in State : CanEnd(s) => Typed(p, s, Shallower(s))

LEMMA KeepsIsKeepsM == \A p : Keeps(p) => KeepsM(p)
BY DEF Keeps, KeepsM

LEMMA KeepsEmpty == Keeps(<<>>)
BY TypedEmpty DEF Keeps

LEMMA KeepsSimple ==
  ASSUME NEW o, o.op \in SimpleOps PROVE Keeps(<<o>>)
BY TypedSimple DEF Keeps

(* Programs that keep the shape, one after another.                        *)
LEMMA KeepsConcat ==
  ASSUME NEW p, NEW q, Keeps(p), Keeps(q) PROVE Keeps(p \o q)
BY TypedConcat DEF Keeps

LEMMA KeepsMConcat ==
  ASSUME NEW p, NEW q, KeepsM(p), KeepsM(q) PROVE KeepsM(p \o q)
BY TypedConcat DEF KeepsM

LEMMA TypedNode ==
  ASSUME NEW kind \in NodeKinds, NEW c, NEW s \in State, Typed(c, Deeper(s), Deeper(s))
  PROVE  Typed(Node(kind, c), s, s)
<1>1. Deeper(s) \in State /\ CanEnd(Deeper(s)) /\ Shallower(Deeper(s)) = s
  BY DeeperState
<1>2. Typed(Start(kind), s, Deeper(s)) BY TypedStart
<1>3. Typed(Start(kind) \o c, s, Deeper(s)) BY <1>2, TypedConcat
<1>4. Typed(End, Deeper(s), s)
  <2>1. Typed(End, Deeper(s), Shallower(Deeper(s))) BY <1>1, TypedEnd
  <2> QED BY <1>1, <2>1
<1>5. Typed((Start(kind) \o c) \o End, s, s) BY <1>3, <1>4, TypedConcat
<1> QED BY <1>5 DEF Node

(* A node around one.                                                      *)
LEMMA KeepsNode ==
  ASSUME NEW kind \in NodeKinds, NEW c, Keeps(c) PROVE Keeps(Node(kind, c))
BY TypedNode, DeeperState DEF Keeps

LEMMA KeepsMNode ==
  ASSUME NEW kind \in NodeKinds, NEW c, KeepsM(c) PROVE KeepsM(Node(kind, c))
BY TypedNode, DeeperState DEF KeepsM

(* A checkpoint around one that needs it.                                  *)
LEMMA KeepsMark ==
  ASSUME NEW p, KeepsM(p) PROVE Keeps((Mark \o p) \o Unmark)
<1> SUFFICES ASSUME NEW s \in State PROVE Typed((Mark \o p) \o Unmark, s, s)
  BY DEF Keeps
<1>1. Marked(s) \in State /\ Marked(s).marks # <<>> BY MarkedState
<1>2. Typed(Mark, s, Marked(s)) BY TypedMark
<1>3. Typed(p, Marked(s), Marked(s)) BY <1>1 DEF KeepsM
<1>4. Typed(Mark \o p, s, Marked(s)) BY <1>2, <1>3, TypedConcat
<1>5. Typed(Unmark, Marked(s), s) BY TypedUnmark
<1> QED BY <1>4, <1>5, TypedConcat

LEMMA KeepsDo ==
  ASSUME NEW name \in DOMAIN Body, name # "closure" PROVE Keeps(Do(name))
BY TypedDo DEF Keeps

LEMMA KeepsMatch ==
  ASSUME NEW kind, NEW yes, NEW no, Keeps(yes), Keeps(no)
  PROVE  Keeps(OnMatch(kind, yes, no))
BY TypedMatch DEF Keeps

LEMMA KeepsIf ==
  ASSUME NEW kind, NEW yes, Keeps(yes) PROVE Keeps(If(kind, yes))
BY KeepsMatch, KeepsEmpty DEF If

LEMMA KeepsUntil ==
  ASSUME NEW kind, NEW body, Keeps(body) PROVE Keeps(Until(kind, body))
BY TypedUntil DEF Keeps

LEMMA KeepsSeparated ==
  ASSUME NEW item, Keeps(item) PROVE Keeps(Separated(item))
BY TypedSeparated DEF Keeps

LEMMA KeepsBranch ==
  ASSUME NEW op \in BranchOps, NEW arms, NEW other, Keeps(other),
         \A k \in DOMAIN arms : Keeps(arms[k])
  PROVE  Keeps(<<[op |-> op, arms |-> arms, other |-> other]>>)
<1> SUFFICES ASSUME NEW s \in State
             PROVE  Typed(<<[op |-> op, arms |-> arms, other |-> other]>>, s, s)
  BY Zenon DEF Keeps
<1>1. Typed(other, s, s) BY DEF Keeps
<1>2. \A k \in DOMAIN arms : Typed(arms[k], s, s) BY Zenon DEF Keeps
<1> QED BY <1>1, <1>2, TypedBranch

(* Branches into such programs.                                            *)
LEMMA KeepsBranches ==
  ASSUME NEW arms, NEW other, Keeps(other), \A k \in DOMAIN arms : Keeps(arms[k])
  PROVE  /\ Keeps(OnPeek(arms, other)) /\ Keeps(OnAdvance(arms, other))
         /\ Keeps(OnChecked(arms, other)) /\ Keeps(OnNext(arms, other))
         /\ Keeps(PastModifiers(arms, other))
<1>1. \A op \in BranchOps : Keeps(<<[op |-> op, arms |-> arms, other |-> other]>>)
  BY KeepsBranch
<1>2. {"peek", "advance", "checked", "next", "past"} \subseteq BranchOps
  BY DEF BranchOps
<1> QED BY <1>1, <1>2 DEF OnPeek, OnAdvance, OnChecked, OnNext, PastModifiers

LEMMA KeepsAdvance == Keeps(Advance)
<1>1. \A k \in DOMAIN <<>> : Keeps(<<>>[k]) OBVIOUS
<1> QED BY <1>1, KeepsEmpty, KeepsBranches DEF Advance

(* The simple instructions, as programs.                                   *)
LEMMA KeepsInstructions ==
  /\ \A kind : Keeps(Consume(kind))
  /\ \A kinds : Keeps(Either(kinds))
  /\ Keeps(Fail) /\ Keeps(ConsumeModifiers)
  /\ \A allowed : Keeps(CheckMods(allowed))
  /\ \A mods, ext : Keeps(Function(mods, ext))
<1>1. \A kind : Keeps(Consume(kind))
  <2> TAKE kind
  <2> DEFINE o == [op |-> "consume", kind |-> kind]
  <2>1. o.op \in SimpleOps BY DEF SimpleOps
  <2> HIDE DEF o
  <2>2. Keeps(<<o>>) BY <2>1, KeepsSimple
  <2> QED BY <2>2 DEF Consume, o
<1>2. \A kinds : Keeps(Either(kinds))
  <2> TAKE kinds
  <2> DEFINE o == [op |-> "either", kinds |-> kinds]
  <2>1. o.op \in SimpleOps BY DEF SimpleOps
  <2> HIDE DEF o
  <2>2. Keeps(<<o>>) BY <2>1, KeepsSimple
  <2> QED BY <2>2 DEF Either, o
<1>3. Keeps(Fail)
  <2> DEFINE o == [op |-> "fail"]
  <2>1. o.op \in SimpleOps BY DEF SimpleOps
  <2> HIDE DEF o
  <2>2. Keeps(<<o>>) BY <2>1, KeepsSimple
  <2> QED BY <2>2 DEF Fail, o
<1>4. Keeps(ConsumeModifiers)
  <2> DEFINE o == [op |-> "modifiers"]
  <2>1. o.op \in SimpleOps BY DEF SimpleOps
  <2> HIDE DEF o
  <2>2. Keeps(<<o>>) BY <2>1, KeepsSimple
  <2> QED BY <2>2 DEF ConsumeModifiers, o
<1>5. \A allowed : Keeps(CheckMods(allowed))
  <2> TAKE allowed
  <2> DEFINE o == [op |-> "check_mods", allowed |-> allowed]
  <2>1. o.op \in SimpleOps BY DEF SimpleOps
  <2> HIDE DEF o
  <2>2. Keeps(<<o>>) BY <2>1, KeepsSimple
  <2> QED BY <2>2 DEF CheckMods, o
<1>6. \A mods, ext : Keeps(Function(mods, ext))
  <2> TAKE mods, ext
  <2> DEFINE o == [op |-> "function", mods |-> mods, ext |-> ext]
  <2>1. o.op \in SimpleOps BY DEF SimpleOps
  <2> HIDE DEF o
  <2>2. Keeps(<<o>>) BY <2>1, KeepsSimple
  <2> QED BY <2>2 DEF Function, o
<1> QED BY <1>1, <1>2, <1>3, <1>4, <1>5, <1>6

(* The calls of productions by name.                                       *)
LEMMA KeepsCalls ==
  \A name \in {"class", "interface", "enum", "case", "declaration", "type_parameters",
        "func_parameters", "adt_member", "constructor", "maybe_fn_body",
        "enum_case", "case_members", "import_declaration", "import_path",
        "iface_impl", "type_", "higher_expression", "variable", "expression",
        "block", "if_expression", "for_expression", "return_expr", "break_expr",
        "when_expression", "when_branches", "when_branches_after_else", "unary",
        "call", "primary", "identifier", "grouping_or_closure"} : Keeps(Do(name))
<1> TAKE name \in {"class", "interface", "enum", "case", "declaration", "type_parameters",
        "func_parameters", "adt_member", "constructor", "maybe_fn_body",
        "enum_case", "case_members", "import_declaration", "import_path",
        "iface_impl", "type_", "higher_expression", "variable", "expression",
        "block", "if_expression", "for_expression", "return_expr", "break_expr",
        "when_expression", "when_branches", "when_branches_after_else", "unary",
        "call", "primary", "identifier", "grouping_or_closure"}
<1>1. name \in DOMAIN Body BY DEF Body
<1>2. name # "closure" OBVIOUS
<1> QED BY <1>1, <1>2, KeepsDo

(* The loops over operators need a checkpoint only.                        *)
LEMMA KeepsFix ==
  (\A minimum : KeepsM(Infix(minimum))) /\ KeepsM(Postfix)
<1>1. \A minimum : KeepsM(Infix(minimum))
  <2> TAKE minimum
  <2> DEFINE o == [op |-> "infix", minimum |-> minimum]
  <2>1. o.op \in {"infix", "postfix"} OBVIOUS
  <2> HIDE DEF o
  <2>2. KeepsM(<<o>>) BY <2>1, TypedFix DEF KeepsM
  <2> QED BY <2>2 DEF Infix, o
<1>2. KeepsM(Postfix)
  <2> DEFINE o == [op |-> "postfix"]
  <2>1. o.op \in {"infix", "postfix"} OBVIOUS
  <2> HIDE DEF o
  <2>2. KeepsM(<<o>>) BY <2>1, TypedFix DEF KeepsM
  <2> QED BY <2>2 DEF Postfix, o
<1> QED BY <1>1, <1>2

(* Longer programs.                                                        *)
LEMMA Keeps3 ==
  ASSUME NEW p1, NEW p2, NEW p3, Keeps(p1), Keeps(p2), Keeps(p3)
  PROVE  Keeps(p1 \o p2 \o p3)
<1>1. Keeps(p1 \o p2) BY KeepsConcat
<1> QED BY <1>1, KeepsConcat

LEMMA Keeps4 ==
  ASSUME NEW p1, NEW p2, NEW p3, NEW p4, Keeps(p1), Keeps(p2), Keeps(p3), Keeps(p4)
  PROVE  Keeps(p1 \o p2 \o p3 \o p4)
<1>1. Keeps(p1 \o p2 \o p3) BY Keeps3
<1> QED BY <1>1, KeepsConcat

LEMMA Keeps5 ==
  ASSUME NEW p1, NEW p2, NEW p3, NEW p4, NEW p5, Keeps(p1), Keeps(p2), Keeps(p3),
         Keeps(p4), Keeps(p5)
  PROVE  Keeps(p1 \o p2 \o p3 \o p4 \o p5)
<1>1. Keeps(p1 \o p2 \o p3 \o p4) BY Keeps4
<1> QED BY <1>1, KeepsConcat

LEMMA Keeps6 ==
  ASSUME NEW p1, NEW p2, NEW p3, NEW p4, NEW p5, NEW p6, Keeps(p1), Keeps(p2),
         Keeps(p3), Keeps(p4), Keeps(p5), Keeps(p6)
  PROVE  Keeps(p1 \o p2 \o p3 \o p4 \o p5 \o p6)
<1>1. Keeps(p1 \o p2 \o p3 \o p4 \o p5) BY Keeps5
<1> QED BY <1>1, KeepsConcat

LEMMA Keeps7 ==
  ASSUME NEW p1, NEW p2, NEW p3, NEW p4, NEW p5, NEW p6, NEW p7, Keeps(p1),
         Keeps(p2), Keeps(p3), Keeps(p4), Keeps(p5), Keeps(p6), Keeps(p7)
  PROVE  Keeps(p1 \o p2 \o p3 \o p4 \o p5 \o p6 \o p7)
<1>1. Keeps(p1 \o p2 \o p3 \o p4 \o p5 \o p6) BY Keeps6
<1> QED BY <1>1, KeepsConcat

LEMMA Keeps8 ==
  ASSUME NEW p1, NEW p2, NEW p3, NEW p4, NEW p5, NEW p6, NEW p7, NEW p8, Keeps(p1),
         Keeps(p2), Keeps(p3), Keeps(p4), Keeps(p5), Keeps(p6), Keeps(p7), Keeps(p8)
  PROVE  Keeps(p1 \o p2 \o p3 \o p4 \o p5 \o p6 \o p7 \o p8)
<1>1. Keeps(p1 \o p2 \o p3 \o p4 \o p5 \o p6 \o p7) BY Keeps7
<1> QED BY <1>1, KeepsConcat

LEMMA Keeps9 ==
  ASSUME NEW p1, NEW p2, NEW p3, NEW p4, NEW p5, NEW p6, NEW p7, NEW p8, NEW p9,
         Keeps(p1), Keeps(p2), Keeps(p3), Keeps(p4), Keeps(p5), Keeps(p6),
         Keeps(p7), Keeps(p8), Keeps(p9)
  PROVE  Keeps(p1 \o p2 \o p3 \o p4 \o p5 \o p6 \o p7 \o p8 \o p9)
<1>1. Keeps(p1 \o p2 \o p3 \o p4 \o p5 \o p6 \o p7 \o p8) BY Keeps8
<1> QED BY <1>1, KeepsConcat

(* The shape is kept by: type expr.                                        *)
LEMMA KeepsTypeExpr == Keeps(Type) /\ Keeps(Expr)
BY KeepsCalls DEF Type, Expr

-----------------------------------------------------------------------------
(* Declarations.                                                           *)

(* The shape is kept by: generic ident.                                    *)
LEMMA KeepsGenericIdent == Keeps(GenericIdent)
<1>0. Keeps(Consume("Identifier")) /\ Keeps(Do("type_parameters")) /\
      Keeps(Consume("RightBracket"))
  BY KeepsInstructions, KeepsCalls
<1>k. {"Ident"} \subseteq NodeKinds BY DEF NodeKinds
<1>1. Keeps(Do("type_parameters") \o Consume("RightBracket"))
  BY <1>0, KeepsConcat, Zenon
<1>2. Keeps(If("LeftBracket", Do("type_parameters") \o Consume("RightBracket")))
  BY <1>1, KeepsIf, Zenon
<1>3. Keeps(Consume("Identifier") \o If("LeftBracket", Do("type_parameters") \o
        Consume("RightBracket")))
  BY <1>0, <1>2, KeepsConcat, Zenon
<1>4. Keeps(Node("Ident", Consume("Identifier") \o If("LeftBracket",
        Do("type_parameters") \o Consume("RightBracket"))))
  BY <1>3, <1>k, KeepsNode, Zenon
<1> QED BY <1>4 DEF GenericIdent

(* The shape is kept by: type parameters.                                  *)
LEMMA KeepsTypeParameters == Keeps(TypeParameters)
<1>0. Keeps(Advance) /\ Keeps(Type) /\ Keeps(Do("type_parameters")) /\ Keeps(<<>>)
  BY KeepsAdvance, KeepsTypeExpr, KeepsCalls, KeepsEmpty
<1>k. {"TypeParameter"} \subseteq NodeKinds BY DEF NodeKinds
<1>1. Keeps(If("Colon", Type))
  BY <1>0, KeepsIf, Zenon
<1>2. Keeps(Advance \o If("Colon", Type))
  BY <1>0, <1>1, KeepsConcat, Zenon
<1>3. Keeps(Node("TypeParameter", Advance \o If("Colon", Type)))
  BY <1>2, <1>k, KeepsNode, Zenon
<1>4. Keeps(If("Comma", Do("type_parameters")))
  BY <1>0, KeepsIf, Zenon
<1>5. Keeps(Node("TypeParameter", Advance \o If("Colon", Type)) \o If("Comma",
        Do("type_parameters")))
  BY <1>3, <1>4, KeepsConcat, Zenon
<1>6. \A k \in DOMAIN [Identifier |-> Node("TypeParameter", Advance \o If("Colon",
        Type)) \o If("Comma", Do("type_parameters"))] :
        Keeps([Identifier |-> Node("TypeParameter", Advance \o If("Colon", Type)) \o
          If("Comma", Do("type_parameters"))][k])
  <2> DEFINE a == Node("TypeParameter", Advance \o If("Colon", Type)) \o If("Comma",
                  Do("type_parameters"))
  <2>1. Keeps(a) BY <1>5, <1>0
  <2> HIDE DEF a
  <2>2. \A k \in DOMAIN [Identifier |-> a] : Keeps([Identifier |-> a][k]) BY <2>1
  <2> QED BY <2>2, Zenon DEF a
<1>7. Keeps(OnPeek([Identifier |-> Node("TypeParameter", Advance \o If("Colon", Type))
        \o If("Comma", Do("type_parameters"))], <<>>))
  BY <1>6, <1>0, KeepsBranches, Zenon
<1> QED BY <1>7 DEF TypeParameters

(* The shape is kept by: func signature.                                   *)
LEMMA KeepsFuncSignature == \A mods : Keeps(FuncSignature(mods))
<1> TAKE mods
<1>0. Keeps(CheckMods(mods)) /\ Keeps(GenericIdent) /\
      Keeps(Consume("LeftParen")) /\ Keeps(Do("func_parameters")) /\ Keeps(Type)
  BY KeepsInstructions, KeepsGenericIdent, KeepsCalls, KeepsTypeExpr
<1>k. {"FunctionSignature"} \subseteq NodeKinds BY DEF NodeKinds
<1>1. Keeps(If("Arrow", Type))
  BY <1>0, KeepsIf, Zenon
<1>2. Keeps(CheckMods(mods) \o GenericIdent \o Consume("LeftParen") \o
        Do("func_parameters") \o If("Arrow", Type))
  BY <1>0, <1>1, Keeps5, Zenon
<1>3. Keeps(Node("FunctionSignature", CheckMods(mods) \o GenericIdent \o
        Consume("LeftParen") \o Do("func_parameters") \o If("Arrow", Type)))
  BY <1>2, <1>k, KeepsNode, Zenon
<1> QED BY <1>3 DEF FuncSignature

(* The shape is kept by: start of body.                                    *)
LEMMA KeepsStartOfBody == Keeps(StartOfBody)
<1>0. Keeps(<<>>) /\ Keeps(Consume("Equal"))
  BY KeepsEmpty, KeepsInstructions
<1>1. \A k \in DOMAIN [LeftBrace |-> <<>>] :
        Keeps([LeftBrace |-> <<>>][k])
  BY <1>0
<1>2. Keeps(OnPeek([LeftBrace |-> <<>>], Consume("Equal")))
  BY <1>1, <1>0, KeepsBranches, Zenon
<1> QED BY <1>2 DEF StartOfBody

(* The shape is kept by: function body.                                    *)
LEMMA KeepsFunctionBody == Keeps(FunctionBody)
<1>0. Keeps(StartOfBody) /\ Keeps(Expr)
  BY KeepsStartOfBody, KeepsTypeExpr
<1>k. {"FunctionBody"} \subseteq NodeKinds BY DEF NodeKinds
<1>1. Keeps(StartOfBody \o Expr)
  BY <1>0, KeepsConcat, Zenon
<1>2. Keeps(Node("FunctionBody", StartOfBody \o Expr))
  BY <1>1, <1>k, KeepsNode, Zenon
<1> QED BY <1>2 DEF FunctionBody

(* The shape is kept by: func parameters.                                  *)
LEMMA KeepsFuncParameters == Keeps(FuncParameters)
<1>0. Keeps(<<>>) /\ Keeps(Consume("Identifier")) /\ Keeps(Consume("Colon")) /\
      Keeps(Type) /\ Keeps(Consume("RightParen"))
  BY KeepsEmpty, KeepsInstructions, KeepsTypeExpr
<1>k. {"Parameter"} \subseteq NodeKinds BY DEF NodeKinds
<1>1. Keeps(Consume("Identifier") \o Consume("Colon") \o Type)
  BY <1>0, Keeps3, Zenon
<1>2. Keeps(Node("Parameter", Consume("Identifier") \o Consume("Colon") \o Type))
  BY <1>1, <1>k, KeepsNode, Zenon
<1>3. Keeps(Separated(Node("Parameter", Consume("Identifier") \o Consume("Colon") \o
        Type)))
  BY <1>2, KeepsSeparated, Zenon
<1>4. \A k \in DOMAIN [RightParen |-> <<>>] :
        Keeps([RightParen |-> <<>>][k])
  BY <1>0, <1>3
<1>5. Keeps(OnPeek([RightParen |-> <<>>], Separated(Node("Parameter",
        Consume("Identifier") \o Consume("Colon") \o Type))))
  BY <1>4, <1>3, KeepsBranches, Zenon
<1>6. Keeps(OnPeek([RightParen |-> <<>>], Separated(Node("Parameter",
        Consume("Identifier") \o Consume("Colon") \o Type))) \o Consume("RightParen"))
  BY <1>5, <1>0, KeepsConcat, Zenon
<1> QED BY <1>6 DEF FuncParameters

(* The shape is kept by: method.                                           *)
LEMMA KeepsMethod == \A ext : Keeps(Method(ext))
<1> TAKE ext
<1>0. Keeps(ConsumeModifiers) /\ Keeps(Advance) /\ Keeps(Function({}, ext))
  BY KeepsInstructions, KeepsAdvance
<1>k. {"Method"} \subseteq NodeKinds BY DEF NodeKinds
<1>1. Keeps(ConsumeModifiers \o Advance \o Function({}, ext))
  BY <1>0, Keeps3, Zenon
<1>2. Keeps(Node("Method", ConsumeModifiers \o Advance \o Function({}, ext)))
  BY <1>1, <1>k, KeepsNode, Zenon
<1> QED BY <1>2 DEF Method

(* The shape is kept by: adt member.                                       *)
LEMMA KeepsAdtMember == Keeps(AdtMember)
<1>0. Keeps(ConsumeModifiers) /\ Keeps(CheckMods({})) /\ Keeps(Advance) /\
      Keeps(Consume("Identifier")) /\ Keeps(Expr) /\ Keeps(Type) /\ Keeps(Fail)
  BY KeepsInstructions, KeepsAdvance, KeepsTypeExpr
<1>k. {"AdtMember", "Initializer"} \subseteq NodeKinds BY DEF NodeKinds
<1>1. Keeps(Node("Initializer", Expr))
  BY <1>0, <1>k, KeepsNode, Zenon
<1>2. Keeps(If("Equal", Node("Initializer", Expr)))
  BY <1>1, KeepsIf, Zenon
<1>3. Keeps(Type \o If("Equal", Node("Initializer", Expr)))
  BY <1>0, <1>2, KeepsConcat, Zenon
<1>4. \A k \in DOMAIN [Equal |-> Node("Initializer", Expr), Colon |-> Type \o
        If("Equal", Node("Initializer", Expr))] :
        Keeps([Equal |-> Node("Initializer", Expr), Colon |-> Type \o If("Equal",
          Node("Initializer", Expr))][k])
  <2> DEFINE a == Node("Initializer", Expr)
             b == Type \o If("Equal", Node("Initializer", Expr))
  <2>1. Keeps(a) /\ Keeps(b) BY <1>1, <1>3, <1>0
  <2> HIDE DEF a, b
  <2>2. \A k \in DOMAIN [Equal |-> a, Colon |-> b] : Keeps([Equal |-> a, Colon |-> b][k])
    BY <2>1
  <2> QED BY <2>2, Zenon DEF a, b
<1>5. Keeps(OnChecked([Equal |-> Node("Initializer", Expr), Colon |-> Type \o
        If("Equal", Node("Initializer", Expr))], Fail))
  BY <1>4, <1>0, KeepsBranches, Zenon
<1>6. Keeps(ConsumeModifiers \o CheckMods({}) \o Advance \o Consume("Identifier") \o
        (OnChecked([Equal |-> Node("Initializer", Expr), Colon |-> Type \o If("Equal",
        Node("Initializer", Expr))], Fail)))
  BY <1>0, <1>5, Keeps5, Zenon
<1>7. Keeps(Node("AdtMember", ConsumeModifiers \o CheckMods({}) \o Advance \o
        Consume("Identifier") \o (OnChecked([Equal |-> Node("Initializer", Expr),
        Colon |-> Type \o If("Equal", Node("Initializer", Expr))], Fail))))
  BY <1>6, <1>k, KeepsNode, Zenon
<1> QED BY <1>7 DEF AdtMember

(* The shape is kept by: constructor.                                      *)
LEMMA KeepsConstructor == Keeps(Constructor)
<1>0. Keeps(ConsumeModifiers) /\ Keeps(CheckMods({})) /\ Keeps(Advance) /\
      Keeps(Consume("LeftParen")) /\ Keeps(<<>>) /\ Keeps(Consume("Identifier")) /\
      Keeps(Type) /\ Keeps(Consume("RightParen")) /\ Keeps(Do("maybe_fn_body"))
  BY KeepsInstructions, KeepsAdvance, KeepsEmpty, KeepsTypeExpr, KeepsCalls
<1>k. {"Constructor", "FunctionSignature", "Parameter"} \subseteq NodeKinds
  BY DEF NodeKinds
<1>1. Keeps(If("Colon", Type))
  BY <1>0, KeepsIf, Zenon
<1>2. Keeps(Consume("Identifier") \o If("Colon", Type))
  BY <1>0, <1>1, KeepsConcat, Zenon
<1>3. Keeps(Node("Parameter", Consume("Identifier") \o If("Colon", Type)))
  BY <1>2, <1>k, KeepsNode, Zenon
<1>4. Keeps(Separated(Node("Parameter", Consume("Identifier") \o If("Colon", Type))))
  BY <1>3, KeepsSeparated, Zenon
<1>5. \A k \in DOMAIN [RightParen |-> <<>>] :
        Keeps([RightParen |-> <<>>][k])
  BY <1>0, <1>4
<1>6. Keeps(OnPeek([RightParen |-> <<>>], Separated(Node("Parameter",
        Consume("Identifier") \o If("Colon", Type)))))
  BY <1>5, <1>4, KeepsBranches, Zenon
<1>7. Keeps(Advance \o Consume("LeftParen") \o OnPeek([RightParen |-> <<>>],
        Separated(Node("Parameter", Consume("Identifier") \o If("Colon", Type)))) \o
        Consume("RightParen"))
  BY <1>0, <1>6, Keeps4, Zenon
<1>8. Keeps(Node("FunctionSignature", Advance \o Consume("LeftParen") \o
        OnPeek([RightParen |-> <<>>], Separated(Node("Parameter",
        Consume("Identifier") \o If("Colon", Type)))) \o Consume("RightParen")))
  BY <1>7, <1>k, KeepsNode, Zenon
<1>9. Keeps(ConsumeModifiers \o CheckMods({}) \o (Node("FunctionSignature", Advance \o
        Consume("LeftParen") \o OnPeek([RightParen |-> <<>>],
        Separated(Node("Parameter", Consume("Identifier") \o If("Colon", Type)))) \o
        Consume("RightParen"))) \o Do("maybe_fn_body"))
  BY <1>0, <1>8, Keeps4, Zenon
<1>10. Keeps(Node("Constructor", ConsumeModifiers \o CheckMods({}) \o
        (Node("FunctionSignature", Advance \o Consume("LeftParen") \o
        OnPeek([RightParen |-> <<>>], Separated(Node("Parameter",
        Consume("Identifier") \o If("Colon", Type)))) \o Consume("RightParen"))) \o
        Do("maybe_fn_body")))
  BY <1>9, <1>k, KeepsNode, Zenon
<1> QED BY <1>10 DEF Constructor

(* The shape is kept by: maybe fn body.                                    *)
LEMMA KeepsMaybeFnBody == Keeps(MaybeFnBody)
<1>0. Keeps(StartOfBody) /\ Keeps(Expr) /\ Keeps(<<>>)
  BY KeepsStartOfBody, KeepsTypeExpr, KeepsEmpty
<1>k. {"FunctionBody"} \subseteq NodeKinds BY DEF NodeKinds
<1>1. Keeps(Node("FunctionBody", Expr))
  BY <1>0, <1>k, KeepsNode, Zenon
<1>2. Keeps(StartOfBody \o Node("FunctionBody", Expr))
  BY <1>0, <1>1, KeepsConcat, Zenon
<1>3. \A k \in DOMAIN [LeftBrace |-> StartOfBody \o Node("FunctionBody", Expr), Equal
        |-> StartOfBody \o Node("FunctionBody", Expr)] :
        Keeps([LeftBrace |-> StartOfBody \o Node("FunctionBody", Expr), Equal |->
          StartOfBody \o Node("FunctionBody", Expr)][k])
  <2> DEFINE a == StartOfBody \o Node("FunctionBody", Expr)
  <2>1. Keeps(a) BY <1>2, <1>0
  <2> HIDE DEF a
  <2>2. \A k \in DOMAIN [LeftBrace |-> a, Equal |-> a] : Keeps([LeftBrace |-> a, Equal |-> a][k])
    BY <2>1
  <2> QED BY <2>2, Zenon DEF a
<1>4. Keeps(OnPeek([LeftBrace |-> StartOfBody \o Node("FunctionBody", Expr), Equal |->
        StartOfBody \o Node("FunctionBody", Expr)], <<>>))
  BY <1>3, <1>0, KeepsBranches, Zenon
<1> QED BY <1>4 DEF MaybeFnBody

(* The shape is kept by: member of.                                        *)
LEMMA KeepsMemberOf ==
  ASSUME NEW kind \in {"Var", "Val", "Construct", "Func", "Identifier"}, NEW conf
  PROVE  Keeps(MemberOf(kind, conf))
<1>1. Keeps(Do("adt_member")) /\ Keeps(Do("constructor")) /\ Keeps(Do("enum_case"))
  BY KeepsCalls
<1>2. Keeps(Method(conf.ext)) BY KeepsMethod
<1> QED BY <1>1, <1>2 DEF MemberOf

(* The shape is kept by: generic adt.                                      *)
LEMMA KeepsGenericAdt ==
  ASSUME NEW conf, conf.members \subseteq {"Var", "Val", "Construct", "Func", "Identifier"}
  PROVE  Keeps(GenericAdt(conf))
<1> DEFINE arms == [k \in conf.members |-> MemberOf(k, conf)]
<1>1. \A k \in DOMAIN arms : Keeps(arms[k])
  <2>1. \A k \in conf.members : Keeps(MemberOf(k, conf)) BY KeepsMemberOf
  <2> QED BY <2>1, Zenon
<1> HIDE DEF arms
<1>2. Keeps(Consume("LeftBrace")) /\ Keeps(Consume("RightBrace")) /\ Keeps(Fail)
      /\ Keeps(CheckMods(conf.mods)) /\ Keeps(GenericIdent)
  BY KeepsInstructions, KeepsGenericIdent
<1>3. Keeps(PastModifiers(arms, Fail)) BY <1>1, <1>2, KeepsBranches, Zenon
<1>4. Keeps(Until("RightBrace", PastModifiers(arms, Fail))) BY <1>3, KeepsUntil, Zenon
<1>5. Keeps(CheckMods(conf.mods) \o GenericIdent \o Consume("LeftBrace")
            \o Until("RightBrace", PastModifiers(arms, Fail)) \o Consume("RightBrace"))
  BY <1>2, <1>4, Keeps5, Zenon
<1> QED BY <1>5, Zenon DEF GenericAdt, arms

(* The shape is kept by: adts.                                             *)
LEMMA KeepsAdts ==
  /\ Keeps(GenericAdt(CLASS_CONF)) /\ Keeps(GenericAdt(IFACE_CONF))
  /\ Keeps(GenericAdt(ENUM_CONF)) /\ Keeps(GenericAdt(CASE_CONF))
<1> DEFINE M == {"Var", "Val", "Construct", "Func", "Identifier"}
<1>1. CLASS_CONF.members \subseteq M BY DEF CLASS_CONF
<1>2. IFACE_CONF.members \subseteq M BY DEF IFACE_CONF
<1>3. ENUM_CONF.members \subseteq M BY DEF ENUM_CONF
<1>4. CASE_CONF.members \subseteq M BY DEF CASE_CONF
<1> QED BY <1>1, <1>2, <1>3, <1>4, KeepsGenericAdt, Zenon

(* The shape is kept by: enum case.                                        *)
LEMMA KeepsEnumCase == Keeps(EnumCase)
<1>0. Keeps(Do("case")) /\ Keeps(GenericIdent) /\ Keeps(Do("case_members")) /\
      Keeps(Consume("RightParen"))
  BY KeepsCalls, KeepsGenericIdent, KeepsInstructions
<1>k. {"EnumCase"} \subseteq NodeKinds BY DEF NodeKinds
<1>1. Keeps(Do("case_members") \o Consume("RightParen"))
  BY <1>0, KeepsConcat, Zenon
<1>2. Keeps(If("LeftParen", Do("case_members") \o Consume("RightParen")))
  BY <1>1, KeepsIf, Zenon
<1>3. Keeps(GenericIdent \o If("LeftParen", Do("case_members") \o
        Consume("RightParen")))
  BY <1>0, <1>2, KeepsConcat, Zenon
<1>4. \A k \in DOMAIN [LeftBrace |-> Do("case")] :
        Keeps([LeftBrace |-> Do("case")][k])
  BY <1>0, <1>3
<1>5. Keeps(OnNext([LeftBrace |-> Do("case")], GenericIdent \o If("LeftParen",
        Do("case_members") \o Consume("RightParen"))))
  BY <1>4, <1>3, KeepsBranches, Zenon
<1>6. Keeps(Node("EnumCase", OnNext([LeftBrace |-> Do("case")], GenericIdent \o
        If("LeftParen", Do("case_members") \o Consume("RightParen")))))
  BY <1>5, <1>k, KeepsNode, Zenon
<1> QED BY <1>6 DEF EnumCase

(* The shape is kept by: case members.                                     *)
LEMMA KeepsCaseMembers == Keeps(CaseMembers)
<1>0. Keeps(<<>>) /\ Keeps(ConsumeModifiers) /\ Keeps(Either({"Val", "Var"})) /\
      Keeps(Consume("Identifier")) /\ Keeps(Consume("Colon")) /\ Keeps(Type) /\
      Keeps(Do("case_members"))
  BY KeepsEmpty, KeepsInstructions, KeepsTypeExpr, KeepsCalls
<1>k. {"Variable"} \subseteq NodeKinds BY DEF NodeKinds
<1>1. Keeps(Either({"Val", "Var"}) \o Consume("Identifier") \o Consume("Colon") \o
        Type)
  BY <1>0, Keeps4, Zenon
<1>2. Keeps(Node("Variable", Either({"Val", "Var"}) \o Consume("Identifier") \o
        Consume("Colon") \o Type))
  BY <1>1, <1>k, KeepsNode, Zenon
<1>3. Keeps(If("Comma", Do("case_members")))
  BY <1>0, KeepsIf, Zenon
<1>4. Keeps(ConsumeModifiers \o Node("Variable", Either({"Val", "Var"}) \o
        Consume("Identifier") \o Consume("Colon") \o Type) \o If("Comma",
        Do("case_members")))
  BY <1>0, <1>2, <1>3, Keeps3, Zenon
<1>5. \A k \in DOMAIN [RightParen |-> <<>>, EndOfFile |-> <<>>] :
        Keeps([RightParen |-> <<>>, EndOfFile |-> <<>>][k])
  BY <1>0, <1>4
<1>6. Keeps(OnPeek([RightParen |-> <<>>, EndOfFile |-> <<>>], ConsumeModifiers \o
        Node("Variable", Either({"Val", "Var"}) \o Consume("Identifier") \o
        Consume("Colon") \o Type) \o If("Comma", Do("case_members"))))
  BY <1>5, <1>4, KeepsBranches, Zenon
<1> QED BY <1>6 DEF CaseMembers

(* The shape is kept by: import declaration.                               *)
LEMMA KeepsImportDeclaration == Keeps(ImportDeclaration)
<1>0. Keeps(CheckMods({})) /\ Keeps(Consume("Identifier")) /\
      Keeps(Do("import_path"))
  BY KeepsInstructions, KeepsCalls
<1>1. Keeps(CheckMods({}) \o Consume("Identifier") \o Do("import_path"))
  BY <1>0, Keeps3, Zenon
<1> QED BY <1>1 DEF ImportDeclaration

(* The shape is kept by: import path.                                      *)
LEMMA KeepsImportPath == Keeps(ImportPath)
<1>0. Keeps(Either({"Identifier", "Plus"})) /\ Keeps(Do("import_path"))
  BY KeepsInstructions, KeepsCalls
<1>1. Keeps(Either({"Identifier", "Plus"}) \o Do("import_path"))
  BY <1>0, KeepsConcat, Zenon
<1>2. Keeps(If("Slash", Either({"Identifier", "Plus"}) \o Do("import_path")))
  BY <1>1, KeepsIf, Zenon
<1> QED BY <1>2 DEF ImportPath

(* The shape is kept by: iface impl.                                       *)
LEMMA KeepsIfaceImpl == Keeps(IfaceImpl)
<1>0. Keeps(Type) /\ Keeps(Consume("For")) /\ Keeps(Consume("LeftBrace")) /\
      Keeps(Method(FALSE)) /\ Keeps(Fail) /\ Keeps(Consume("RightBrace"))
  BY KeepsTypeExpr, KeepsInstructions, KeepsMethod
<1>k. {"Implementing", "Implementor"} \subseteq NodeKinds BY DEF NodeKinds
<1>1. Keeps(Node("Implementing", Type))
  BY <1>0, <1>k, KeepsNode, Zenon
<1>2. Keeps(Node("Implementor", Type))
  BY <1>0, <1>k, KeepsNode, Zenon
<1>3. \A k \in DOMAIN [Func |-> Method(FALSE)] :
        Keeps([Func |-> Method(FALSE)][k])
  <2> DEFINE a == Method(FALSE)
  <2>1. Keeps(a) BY <1>0
  <2> HIDE DEF a
  <2>2. \A k \in DOMAIN [Func |-> a] : Keeps([Func |-> a][k]) BY <2>1
  <2> QED BY <2>2, Zenon DEF a
<1>4. Keeps(OnPeek([Func |-> Method(FALSE)], Fail))
  BY <1>3, <1>0, KeepsBranches, Zenon
<1>5. Keeps(Until("RightBrace", OnPeek([Func |-> Method(FALSE)], Fail)))
  BY <1>4, KeepsUntil, Zenon
<1>6. Keeps(Node("Implementing", Type) \o Consume("For") \o Node("Implementor", Type)
        \o Consume("LeftBrace") \o Until("RightBrace", OnPeek([Func |->
        Method(FALSE)], Fail)) \o Consume("RightBrace"))
  BY <1>1, <1>0, <1>2, <1>5, Keeps6, Zenon
<1> QED BY <1>6 DEF IfaceImpl

(* The shape is kept by: type arguments.                                   *)
LEMMA KeepsTypeArguments == Keeps(TypeArguments)
<1>0. Keeps(Type) /\ Keeps(Consume("RightBracket"))
  BY KeepsTypeExpr, KeepsInstructions
<1>1. Keeps(Separated(Type))
  BY <1>0, KeepsSeparated, Zenon
<1>2. Keeps(Separated(Type) \o Consume("RightBracket"))
  BY <1>1, <1>0, KeepsConcat, Zenon
<1> QED BY <1>2 DEF TypeArguments

-----------------------------------------------------------------------------
(* Expressions.                                                            *)

(* The shape is kept by: higher expression.                                *)
LEMMA KeepsHigherExpression == Keeps(HigherExpression)
<1>0. Keeps(Do("variable")) /\ Keeps(Expr)
  BY KeepsCalls, KeepsTypeExpr
<1>1. \A k \in DOMAIN [Var |-> Do("variable"), Val |-> Do("variable")] :
        Keeps([Var |-> Do("variable"), Val |-> Do("variable")][k])
  BY <1>0
<1>2. Keeps(OnPeek([Var |-> Do("variable"), Val |-> Do("variable")], Expr))
  BY <1>1, <1>0, KeepsBranches, Zenon
<1> QED BY <1>2 DEF HigherExpression

(* The shape is kept by: variable.                                         *)
LEMMA KeepsVariable == Keeps(Variable)
<1>0. Keeps(Advance) /\ Keeps(Consume("Identifier")) /\ Keeps(Consume("Equal")) /\
      Keeps(Expr)
  BY KeepsAdvance, KeepsInstructions, KeepsTypeExpr
<1>k. {"Variable", "Initializer"} \subseteq NodeKinds BY DEF NodeKinds
<1>1. Keeps(Node("Initializer", Expr))
  BY <1>0, <1>k, KeepsNode, Zenon
<1>2. Keeps(Advance \o Consume("Identifier") \o Consume("Equal") \o
        Node("Initializer", Expr))
  BY <1>0, <1>1, Keeps4, Zenon
<1>3. Keeps(Node("Variable", Advance \o Consume("Identifier") \o Consume("Equal") \o
        Node("Initializer", Expr)))
  BY <1>2, <1>k, KeepsNode, Zenon
<1> QED BY <1>3 DEF Variable

(* The shape is kept by: binary.                                           *)
LEMMA KeepsBinary == \A minimum : Keeps(Binary(minimum))
<1> TAKE minimum
<1> SUFFICES ASSUME NEW s \in State PROVE Typed(Binary(minimum), s, s) BY DEF Keeps
<1>1. Marked(s) \in State /\ Marked(s).marks # <<>> BY MarkedState
<1>2. Typed(Mark, s, Marked(s)) BY TypedMark
<1>3. Typed(Do("unary"), Marked(s), Marked(s)) BY <1>1, KeepsCalls DEF Keeps
<1>4. Typed(Infix(minimum), Marked(s), Marked(s)) BY <1>1, KeepsFix DEF KeepsM
<1>5. Typed(Unmark, Marked(s), s) BY TypedUnmark
<1>6. Typed(Mark \o Do("unary"), s, Marked(s)) BY <1>2, <1>3, TypedConcat
<1>7. Typed(Mark \o Do("unary") \o Infix(minimum), s, Marked(s))
  BY <1>4, <1>6, TypedConcat
<1>8. Typed(Mark \o Do("unary") \o Infix(minimum) \o Unmark, s, s)
  BY <1>5, <1>7, TypedConcat
<1> QED BY <1>8 DEF Binary

(* The shape is kept by: call.                                             *)
LEMMA KeepsCall == Keeps(Call)
<1> SUFFICES ASSUME NEW s \in State PROVE Typed(Call, s, s) BY DEF Keeps
<1>1. Marked(s) \in State /\ Marked(s).marks # <<>> BY MarkedState
<1>2. Typed(Mark, s, Marked(s)) BY TypedMark
<1>3. Typed(Do("primary"), Marked(s), Marked(s)) BY <1>1, KeepsCalls DEF Keeps
<1>4. Typed(Postfix, Marked(s), Marked(s)) BY <1>1, KeepsFix DEF KeepsM
<1>5. Typed(Unmark, Marked(s), s) BY TypedUnmark
<1>6. Typed(Mark \o Do("primary"), s, Marked(s)) BY <1>2, <1>3, TypedConcat
<1>7. Typed(Mark \o Do("primary") \o Postfix, s, Marked(s)) BY <1>4, <1>6, TypedConcat
<1>8. Typed(Mark \o Do("primary") \o Postfix \o Unmark, s, s) BY <1>5, <1>7, TypedConcat
<1> QED BY <1>8 DEF Call

(* The shape is kept by: expression.                                       *)
LEMMA KeepsExpression == Keeps(Expression)
<1>0. Keeps(Do("block")) /\ Keeps(Do("if_expression")) /\
      Keeps(Do("for_expression")) /\ Keeps(Do("return_expr")) /\
      Keeps(Do("break_expr")) /\ Keeps(Do("when_expression")) /\ Keeps(Binary(0))
  BY KeepsCalls, KeepsBinary
<1>1. \A k \in DOMAIN [LeftBrace |-> Do("block"), If |-> Do("if_expression"), For |->
        Do("for_expression"), Return |-> Do("return_expr"), Break |->
        Do("break_expr"), When |-> Do("when_expression")] :
        Keeps([LeftBrace |-> Do("block"), If |-> Do("if_expression"), For |->
          Do("for_expression"), Return |-> Do("return_expr"), Break |->
          Do("break_expr"), When |-> Do("when_expression")][k])
  BY <1>0
<1>2. Keeps(OnPeek([LeftBrace |-> Do("block"), If |-> Do("if_expression"), For |->
        Do("for_expression"), Return |-> Do("return_expr"), Break |->
        Do("break_expr"), When |-> Do("when_expression")], Binary(0)))
  BY <1>1, <1>0, KeepsBranches, Zenon
<1> QED BY <1>2 DEF Expression

(* The shape is kept by: block.                                            *)
LEMMA KeepsBlock == Keeps(Block)
<1>0. Keeps(Advance) /\ Keeps(Do("higher_expression")) /\
      Keeps(Consume("RightBrace"))
  BY KeepsAdvance, KeepsCalls, KeepsInstructions
<1>k. {"Block"} \subseteq NodeKinds BY DEF NodeKinds
<1>1. Keeps(Until("RightBrace", Do("higher_expression")))
  BY <1>0, KeepsUntil, Zenon
<1>2. Keeps(Advance \o Until("RightBrace", Do("higher_expression")) \o
        Consume("RightBrace"))
  BY <1>0, <1>1, Keeps3, Zenon
<1>3. Keeps(Node("Block", Advance \o Until("RightBrace", Do("higher_expression")) \o
        Consume("RightBrace")))
  BY <1>2, <1>k, KeepsNode, Zenon
<1> QED BY <1>3 DEF Block

(* The shape is kept by: body and else.                                    *)
LEMMA KeepsBodyAndElse == Keeps(BodyAndElse)
<1>0. Keeps(Expr)
  BY KeepsTypeExpr
<1>k. {"ExprBody", "ExprElse"} \subseteq NodeKinds BY DEF NodeKinds
<1>1. Keeps(Node("ExprBody", Expr))
  BY <1>0, <1>k, KeepsNode, Zenon
<1>2. Keeps(Node("ExprElse", Expr))
  BY <1>0, <1>k, KeepsNode, Zenon
<1>3. Keeps(If("Else", Node("ExprElse", Expr)))
  BY <1>2, KeepsIf, Zenon
<1>4. Keeps(Node("ExprBody", Expr) \o If("Else", Node("ExprElse", Expr)))
  BY <1>1, <1>3, KeepsConcat, Zenon
<1> QED BY <1>4 DEF BodyAndElse

(* The shape is kept by: if expression.                                    *)
LEMMA KeepsIfExpression == Keeps(IfExpression)
<1>0. Keeps(Advance) /\ Keeps(Consume("LeftParen")) /\ Keeps(Expr) /\
      Keeps(Consume("RightParen")) /\ Keeps(BodyAndElse)
  BY KeepsAdvance, KeepsInstructions, KeepsTypeExpr, KeepsBodyAndElse
<1>k. {"IfExpr", "ExprCondition"} \subseteq NodeKinds BY DEF NodeKinds
<1>1. Keeps(Node("ExprCondition", Expr))
  BY <1>0, <1>k, KeepsNode, Zenon
<1>2. Keeps(Advance \o Consume("LeftParen") \o Node("ExprCondition", Expr) \o
        Consume("RightParen") \o BodyAndElse)
  BY <1>0, <1>1, Keeps5, Zenon
<1>3. Keeps(Node("IfExpr", Advance \o Consume("LeftParen") \o Node("ExprCondition",
        Expr) \o Consume("RightParen") \o BodyAndElse))
  BY <1>2, <1>k, KeepsNode, Zenon
<1> QED BY <1>3 DEF IfExpression

(* The shape is kept by: for expression.                                   *)
LEMMA KeepsForExpression == Keeps(ForExpression)
<1>0. Keeps(Advance) /\ Keeps(Consume("LeftParen")) /\
      Keeps(Consume("Identifier")) /\ Keeps(Expr) /\ Keeps(Consume("RightParen")) /\
      Keeps(BodyAndElse)
  BY KeepsAdvance, KeepsInstructions, KeepsTypeExpr, KeepsBodyAndElse
<1>k. {"ForExpr", "ForIterCond", "ExprCondition"} \subseteq NodeKinds BY DEF NodeKinds
<1>1. Keeps(Consume("Identifier") \o Advance \o Expr)
  BY <1>0, Keeps3, Zenon
<1>2. Keeps(Node("ForIterCond", Consume("Identifier") \o Advance \o Expr))
  BY <1>1, <1>k, KeepsNode, Zenon
<1>3. Keeps(Node("ExprCondition", Expr))
  BY <1>0, <1>k, KeepsNode, Zenon
<1>4. \A k \in DOMAIN [In |-> Node("ForIterCond", Consume("Identifier") \o Advance \o
        Expr)] :
        Keeps([In |-> Node("ForIterCond", Consume("Identifier") \o Advance \o
          Expr)][k])
  BY <1>2, <1>3
<1>5. Keeps(OnNext([In |-> Node("ForIterCond", Consume("Identifier") \o Advance \o
        Expr)], Node("ExprCondition", Expr)))
  BY <1>4, <1>3, KeepsBranches, Zenon
<1>6. Keeps(Advance \o Consume("LeftParen") \o OnNext([In |-> Node("ForIterCond",
        Consume("Identifier") \o Advance \o Expr)], Node("ExprCondition", Expr)) \o
        Consume("RightParen") \o BodyAndElse)
  BY <1>0, <1>5, Keeps5, Zenon
<1>7. Keeps(Node("ForExpr", Advance \o Consume("LeftParen") \o OnNext([In |->
        Node("ForIterCond", Consume("Identifier") \o Advance \o Expr)],
        Node("ExprCondition", Expr)) \o Consume("RightParen") \o BodyAndElse))
  BY <1>6, <1>k, KeepsNode, Zenon
<1> QED BY <1>7 DEF ForExpression

(* The shape is kept by: ret or break.                                     *)
LEMMA KeepsRetOrBreak ==
  ASSUME NEW kind \in NodeKinds PROVE Keeps(RetOrBreakExpr(kind))
<1>1. Keeps(Expr) /\ Keeps(<<>>) /\ Keeps(Advance)
  BY KeepsTypeExpr, KeepsEmpty, KeepsAdvance
<1>2. Keeps(OnMatch("Semicolon", <<>>, Expr)) BY <1>1, KeepsMatch, Zenon
<1>3. Keeps(Advance \o OnMatch("Semicolon", <<>>, Expr))
  BY <1>1, <1>2, KeepsConcat, Zenon
<1>4. Keeps(Node(kind, Advance \o OnMatch("Semicolon", <<>>, Expr)))
  BY <1>3, KeepsNode, Zenon
<1> QED BY <1>4, Zenon DEF RetOrBreakExpr

(* The shape is kept by: when expression.                                  *)
LEMMA KeepsWhenExpression == Keeps(WhenExpression)
<1>0. Keeps(Advance) /\ Keeps(Consume("LeftParen")) /\ Keeps(Expr) /\
      Keeps(Consume("RightParen")) /\ Keeps(Consume("LeftBrace")) /\
      Keeps(Do("when_branches"))
  BY KeepsAdvance, KeepsInstructions, KeepsTypeExpr, KeepsCalls
<1>k. {"WhenExpr", "ExprCondition"} \subseteq NodeKinds BY DEF NodeKinds
<1>1. Keeps(Node("ExprCondition", Expr))
  BY <1>0, <1>k, KeepsNode, Zenon
<1>2. Keeps(Advance \o Consume("LeftParen") \o Node("ExprCondition", Expr) \o
        Consume("RightParen") \o Consume("LeftBrace") \o Do("when_branches"))
  BY <1>0, <1>1, Keeps6, Zenon
<1>3. Keeps(Node("WhenExpr", Advance \o Consume("LeftParen") \o Node("ExprCondition",
        Expr) \o Consume("RightParen") \o Consume("LeftBrace") \o
        Do("when_branches")))
  BY <1>2, <1>k, KeepsNode, Zenon
<1> QED BY <1>3 DEF WhenExpression

(* The shape is kept by: unary.                                            *)
LEMMA KeepsUnary == Keeps(Unary)
<1>0. Keeps(Advance) /\ Keeps(Binary(30)) /\ Keeps(Do("call"))
  BY KeepsAdvance, KeepsBinary, KeepsCalls
<1>k. {"PrefixExpr", "Operator"} \subseteq NodeKinds BY DEF NodeKinds
<1>1. Keeps(Node("Operator", Advance))
  BY <1>0, <1>k, KeepsNode, Zenon
<1>2. Keeps(Node("Operator", Advance) \o Binary(30))
  BY <1>1, <1>0, KeepsConcat, Zenon
<1>3. Keeps(Node("PrefixExpr", Node("Operator", Advance) \o Binary(30)))
  BY <1>2, <1>k, KeepsNode, Zenon
<1>4. \A k \in DOMAIN [Minus |-> Node("PrefixExpr", Node("Operator", Advance) \o
        Binary(30)), Bang |-> Node("PrefixExpr", Node("Operator", Advance) \o
        Binary(30))] :
        Keeps([Minus |-> Node("PrefixExpr", Node("Operator", Advance) \o Binary(30)),
          Bang |-> Node("PrefixExpr", Node("Operator", Advance) \o Binary(30))][k])
  BY <1>3, <1>0
<1>5. Keeps(OnPeek([Minus |-> Node("PrefixExpr", Node("Operator", Advance) \o
        Binary(30)), Bang |-> Node("PrefixExpr", Node("Operator", Advance) \o
        Binary(30))], Do("call")))
  BY <1>4, <1>0, KeepsBranches, Zenon
<1> QED BY <1>5 DEF Unary

(* The shape is kept by: identifier.                                       *)
LEMMA KeepsIdentifier == Keeps(Identifier)
<1>0. Keeps(Advance) /\ Keeps(TypeArguments)
  BY KeepsAdvance, KeepsTypeArguments
<1>k. {"Ident"} \subseteq NodeKinds BY DEF NodeKinds
<1>1. Keeps(If("LeftBracket", TypeArguments))
  BY <1>0, KeepsIf, Zenon
<1>2. Keeps(Advance \o If("LeftBracket", TypeArguments))
  BY <1>0, <1>1, KeepsConcat, Zenon
<1>3. Keeps(Node("Ident", Advance \o If("LeftBracket", TypeArguments)))
  BY <1>2, <1>k, KeepsNode, Zenon
<1> QED BY <1>3 DEF Identifier

(* A program that opens a node below what there is since the checkpoint.   *)
LEMMA TypedOpened ==
  ASSUME NEW s \in State, NEW w, Typed(w, s, Deeper(s)), NEW p, Keeps(p)
  PROVE  Typed(w \o p, s, Deeper(s))
BY TypedConcat, DeeperState DEF Keeps

(* A node that is opened at a checkpoint, and closed.                      *)
LEMMA TypedClosed ==
  ASSUME NEW s \in State, NEW w, Typed(w, s, Deeper(s))
  PROVE  Typed(w \o End, s, s)
<1>1. Deeper(s) \in State /\ CanEnd(Deeper(s)) /\ Shallower(Deeper(s)) = s
  BY DeeperState
<1>2. Typed(End, Deeper(s), Shallower(Deeper(s))) BY <1>1, TypedEnd
<1>3. Typed(End, Deeper(s), s) BY <1>1, <1>2
<1> QED BY <1>3, TypedConcat

(* What call() does to its callee.                                         *)
LEMMA TypedWrap ==
  ASSUME NEW kind \in NodeKinds, NEW s \in State, s.marks # <<>>
  PROVE  Typed(Wrap(kind), s, Deeper(s))
<1>1. "Callee" \in NodeKinds BY DEF NodeKinds
<1>2. Typed(StartAt("Callee"), s, Deeper(s)) BY <1>1, TypedStartAt
<1>3. Deeper(s) \in State /\ Deeper(s).marks # <<>> BY DeeperState
<1>4. Typed(StartAt(kind) \o End, Deeper(s), Deeper(s))
  <2>1. Typed(StartAt(kind), Deeper(s), Deeper(Deeper(s))) BY <1>3, TypedStartAt
  <2> QED BY <2>1, <1>3, TypedClosed
<1>5. Typed(StartAt("Callee") \o StartAt(kind), s, Deeper(Deeper(s)))
  <2>1. Typed(StartAt(kind), Deeper(s), Deeper(Deeper(s))) BY <1>3, TypedStartAt
  <2> QED BY <2>1, <1>2, TypedConcat
<1>6. Typed(End, Deeper(Deeper(s)), Deeper(s))
  <2> DEFINE d == Deeper(s)
  <2>1. Deeper(d) \in State /\ CanEnd(Deeper(d)) /\ Shallower(Deeper(d)) = d
    BY <1>3, DeeperState
  <2>2. Typed(End, Deeper(d), Shallower(Deeper(d))) BY <2>1, TypedEnd
  <2> QED BY <2>1, <2>2
<1> QED BY <1>5, <1>6, TypedConcat DEF Wrap

(* Every form of a call keeps the shape, given the checkpoint of call().   *)
LEMMA KeepsMPostfixForms ==
  \A k \in DOMAIN PostfixForms : KeepsM(PostfixForms[k])
<1> SUFFICES ASSUME NEW s \in State, s.marks # <<>>, NEW k \in DOMAIN PostfixForms
             PROVE  Typed(PostfixForms[k], s, s)
  BY DEF KeepsM
<1>1. Typed(Wrap("CallExpr"), s, Deeper(s)) /\ Typed(Wrap("GetExpr"), s, Deeper(s))
      /\ Typed(Wrap("GetNullableExpr"), s, Deeper(s))
      /\ Typed(Wrap("GetStaticExpr"), s, Deeper(s))
  <2>1. {"CallExpr", "GetExpr", "GetNullableExpr", "GetStaticExpr"} \subseteq NodeKinds
    BY DEF NodeKinds
  <2> QED BY <2>1, TypedWrap
<1>2. Keeps(Advance) /\ Keeps(Do("identifier")) /\ Keeps(Consume("Identifier"))
      /\ Keeps(Consume("RightParen")) /\ Keeps(Expr) /\ Keeps(<<>>)
  BY KeepsAdvance, KeepsCalls, KeepsInstructions, KeepsTypeExpr, KeepsEmpty
<1> DEFINE args == OnPeek([RightParen |-> <<>>], Separated(Node("CallArgument", Expr)))
<1>3. Keeps(args)
  <2>1. "CallArgument" \in NodeKinds BY DEF NodeKinds
  <2>2. Keeps(Node("CallArgument", Expr)) BY <2>1, <1>2, KeepsNode, Zenon
  <2>3. Keeps(Separated(Node("CallArgument", Expr))) BY <2>2, KeepsSeparated, Zenon
  <2>4. \A n \in DOMAIN [RightParen |-> <<>>] : Keeps([RightParen |-> <<>>][n]) BY <1>2
  <2> QED BY <2>3, <2>4, KeepsBranches, Zenon
<1> HIDE DEF args
<1> DEFINE call   == Wrap("CallExpr") \o Advance \o args \o Consume("RightParen") \o End
           get    == Wrap("GetExpr") \o Advance \o Do("identifier") \o End
           safe   == Wrap("GetNullableExpr") \o Advance \o Do("identifier") \o End
           static == Wrap("GetStaticExpr") \o Advance \o Consume("Identifier") \o End
<1>4. Typed(call, s, s)
  <2>1. Typed(Wrap("CallExpr") \o Advance, s, Deeper(s)) BY <1>1, <1>2, TypedOpened
  <2>2. Typed(Wrap("CallExpr") \o Advance \o args, s, Deeper(s))
    BY <2>1, <1>3, TypedOpened
  <2>3. Typed(Wrap("CallExpr") \o Advance \o args \o Consume("RightParen"), s, Deeper(s))
    BY <2>2, <1>2, TypedOpened
  <2> QED BY <2>3, TypedClosed
<1>5. Typed(get, s, s)
  <2>1. Typed(Wrap("GetExpr") \o Advance, s, Deeper(s)) BY <1>1, <1>2, TypedOpened
  <2>2. Typed(Wrap("GetExpr") \o Advance \o Do("identifier"), s, Deeper(s))
    BY <2>1, <1>2, TypedOpened
  <2> QED BY <2>2, TypedClosed
<1>6. Typed(safe, s, s)
  <2>1. Typed(Wrap("GetNullableExpr") \o Advance, s, Deeper(s))
    BY <1>1, <1>2, TypedOpened
  <2>2. Typed(Wrap("GetNullableExpr") \o Advance \o Do("identifier"), s, Deeper(s))
    BY <2>1, <1>2, TypedOpened
  <2> QED BY <2>2, TypedClosed
<1>7. Typed(static, s, s)
  <2>1. Typed(Wrap("GetStaticExpr") \o Advance, s, Deeper(s)) BY <1>1, <1>2, TypedOpened
  <2>2. Typed(Wrap("GetStaticExpr") \o Advance \o Consume("Identifier"), s, Deeper(s))
    BY <2>1, <1>2, TypedOpened
  <2> QED BY <2>2, TypedClosed
<1>8. PostfixForms = [LeftParen |-> call, Dot |-> get, QuestionDot |-> safe, Colon |-> static]
  BY Zenon DEF PostfixForms, args
<1> HIDE DEF call, get, safe, static
<1> QED BY <1>4, <1>5, <1>6, <1>7, <1>8

(* What infix() goes on to do.                                             *)
LEMMA TypedInfix ==
  ASSUME NEW s \in State, s.marks # <<>>, NEW right, NEW p, Typed(p, s, s)
  PROVE  Typed(Node("Operator", Advance) \o StartAt("BinaryExpr") \o Binary(right)
               \o End \o p, s, s)
<1>1. "Operator" \in NodeKinds /\ "BinaryExpr" \in NodeKinds BY DEF NodeKinds
<1> DEFINE a == Node("Operator", Advance)
           b == StartAt("BinaryExpr")
<1>2. Typed(a, s, s)
  <2>1. Keeps(a) BY <1>1, KeepsAdvance, KeepsNode, Zenon
  <2> QED BY <2>1 DEF Keeps
<1>3. Typed(b, s, Deeper(s)) BY <1>1, TypedStartAt
<1> HIDE DEF a, b
<1>4. Typed(a \o b, s, Deeper(s)) BY <1>2, <1>3, TypedConcat
<1>5. Keeps(Binary(right)) BY KeepsBinary
<1>6. Typed(a \o b \o Binary(right), s, Deeper(s)) BY <1>4, <1>5, TypedOpened
<1>7. Typed(a \o b \o Binary(right) \o End, s, s) BY <1>6, TypedClosed
<1>8. Typed(a \o b \o Binary(right) \o End \o p, s, s) BY <1>7, TypedConcat
<1> QED BY <1>8 DEF a, b


(* The forms of a type.                                                    *)
TypeForms == OnAdvance([Identifier |-> OnMatch("LeftBracket", TypeArguments, If("Colon",
    Consume("Identifier"))), Tilde |-> Type, Star |-> Type, LeftParen |->
    OnPeek([RightParen |-> <<>>], Separated(Type)) \o Consume("RightParen") \o
    If("Colon", Type)], Fail)

(* The shape is kept by: type forms.                                       *)
LEMMA KeepsTypeForms == Keeps(TypeForms)
<1>0. Keeps(TypeArguments) /\ Keeps(Consume("Identifier")) /\ Keeps(Type) /\
      Keeps(<<>>) /\ Keeps(Consume("RightParen")) /\ Keeps(Fail)
  BY KeepsTypeArguments, KeepsInstructions, KeepsTypeExpr, KeepsEmpty
<1>1. Keeps(If("Colon", Consume("Identifier")))
  BY <1>0, KeepsIf, Zenon
<1>2. Keeps(OnMatch("LeftBracket", TypeArguments, If("Colon", Consume("Identifier"))))
  BY <1>0, <1>1, KeepsMatch, Zenon
<1>3. Keeps(Separated(Type))
  BY <1>0, KeepsSeparated, Zenon
<1>4. \A k \in DOMAIN [RightParen |-> <<>>] :
        Keeps([RightParen |-> <<>>][k])
  BY <1>0, <1>3
<1>5. Keeps(OnPeek([RightParen |-> <<>>], Separated(Type)))
  BY <1>4, <1>3, KeepsBranches, Zenon
<1>6. Keeps(If("Colon", Type))
  BY <1>0, KeepsIf, Zenon
<1>7. Keeps(OnPeek([RightParen |-> <<>>], Separated(Type)) \o Consume("RightParen") \o
        If("Colon", Type))
  BY <1>5, <1>0, <1>6, Keeps3, Zenon
<1>8. \A k \in DOMAIN [Identifier |-> OnMatch("LeftBracket", TypeArguments,
        If("Colon", Consume("Identifier"))), Tilde |-> Type, Star |-> Type, LeftParen
        |-> OnPeek([RightParen |-> <<>>], Separated(Type)) \o Consume("RightParen") \o
        If("Colon", Type)] :
        Keeps([Identifier |-> OnMatch("LeftBracket", TypeArguments, If("Colon",
          Consume("Identifier"))), Tilde |-> Type, Star |-> Type, LeftParen |->
          OnPeek([RightParen |-> <<>>], Separated(Type)) \o Consume("RightParen") \o
          If("Colon", Type)][k])
  <2> DEFINE a == OnMatch("LeftBracket", TypeArguments, If("Colon",
                  Consume("Identifier")))
             b == Type
             c == OnPeek([RightParen |-> <<>>], Separated(Type)) \o
                  Consume("RightParen") \o If("Colon", Type)
  <2>1. Keeps(a) /\ Keeps(b) /\ Keeps(c) BY <1>2, <1>0, <1>7
  <2> HIDE DEF a, b, c
  <2>2. \A k \in DOMAIN [Identifier |-> a, Tilde |-> b, Star |-> b, LeftParen |-> c] : Keeps([Identifier |-> a, Tilde |-> b, Star |-> b, LeftParen |-> c][k])
    BY <2>1
  <2> QED BY <2>2, Zenon DEF a, b, c
<1>9. Keeps(OnAdvance([Identifier |-> OnMatch("LeftBracket", TypeArguments,
        If("Colon", Consume("Identifier"))), Tilde |-> Type, Star |-> Type, LeftParen
        |-> OnPeek([RightParen |-> <<>>], Separated(Type)) \o Consume("RightParen") \o
        If("Colon", Type)], Fail))
  BY <1>8, <1>0, KeepsBranches, Zenon
<1> QED BY <1>9 DEF TypeForms

(* The shape is kept by: type.                                             *)
LEMMA KeepsType == Keeps(Type_)
<1> SUFFICES ASSUME NEW s \in State PROVE Typed(Type_, s, s) BY DEF Keeps
<1> DEFINE m == Marked(s)
           nullable == OnPeek([QuestionMark |-> StartAt("Type") \o End \o Advance], <<>>)
<1>1. m \in State /\ m.marks # <<>> BY MarkedState
<1>2. Typed(Mark, s, m) BY TypedMark
<1>3. Typed(Unmark, m, s) BY TypedUnmark
<1> HIDE DEF m
<1>4. Deeper(m) \in State /\ Deeper(m).marks # <<>> BY <1>1, DeeperState
<1>k. "Type" \in NodeKinds BY DEF NodeKinds
<1>5. Typed(Start("Type"), m, Deeper(m)) BY <1>1, <1>k, TypedStart
<1>6. Typed(TypeForms, Deeper(m), Deeper(m)) BY <1>4, KeepsTypeForms DEF Keeps
<1>7. Typed(nullable, Deeper(m), Deeper(m))
  <2> DEFINE d == Deeper(m)
             a == StartAt("Type") \o End \o Advance
  <2>1. d \in State /\ d.marks # <<>> BY <1>4
  <2> HIDE DEF d
  <2>2. Typed(StartAt("Type"), d, Deeper(d)) BY <2>1, <1>k, TypedStartAt
  <2>3. Typed(StartAt("Type") \o End, d, d) BY <2>1, <2>2, TypedClosed
  <2>4. Typed(Advance, d, d) /\ Typed(<<>>, d, d)
    BY <2>1, KeepsAdvance, TypedEmpty DEF Keeps
  <2>5. Typed(a, d, d) BY <2>3, <2>4, TypedConcat
  <2> HIDE DEF a
  <2>6. \A k \in DOMAIN [QuestionMark |-> a] : Typed([QuestionMark |-> a][k], d, d)
    BY <2>5
  <2>7. "peek" \in BranchOps BY DEF BranchOps
  <2>8. Typed(<<[op |-> "peek", arms |-> [QuestionMark |-> a], other |-> <<>>]>>, d, d)
    BY <2>1, <2>4, <2>6, <2>7, TypedBranch
  <2> QED BY <2>8, Zenon DEF OnPeek, a, d
<1> HIDE DEF nullable
<1>8. Typed(Mark \o Start("Type"), s, Deeper(m)) BY <1>2, <1>5, TypedConcat
<1>9. Typed(Mark \o Start("Type") \o TypeForms, s, Deeper(m)) BY <1>6, <1>8, TypedConcat
<1>10. Typed(Mark \o Start("Type") \o TypeForms \o nullable, s, Deeper(m))
  BY <1>7, <1>9, TypedConcat
<1>11. Typed(End, Deeper(m), m)
  <2>1. CanEnd(Deeper(m)) /\ Shallower(Deeper(m)) = m BY <1>1, DeeperState
  <2>2. Typed(End, Deeper(m), Shallower(Deeper(m))) BY <2>1, <1>4, TypedEnd
  <2> QED BY <2>1, <2>2
<1>12. Typed(Mark \o Start("Type") \o TypeForms \o nullable \o End, s, m)
  BY <1>10, <1>11, TypedConcat
<1>13. Typed(Mark \o Start("Type") \o TypeForms \o nullable \o End \o Unmark, s, s)
  BY <1>3, <1>12, TypedConcat
<1> QED BY <1>13, Zenon DEF Type_, TypeForms, nullable

(* The shape is kept by: primary.                                          *)
LEMMA KeepsPrimary == Keeps(Primary)
<1> DEFINE K == LITERALS \cup {"LeftParen", "Identifier"}
           arms == [k \in K |->
              CASE k \in LITERALS   -> Node("Literal", Advance)
                [] k = "LeftParen"  -> Do("grouping_or_closure")
                [] k = "Identifier" -> Do("identifier")]
           lit == Node("Literal", Advance)
<1>1. Keeps(lit)
  <2>1. "Literal" \in NodeKinds BY DEF NodeKinds
  <2> QED BY <2>1, KeepsAdvance, KeepsNode, Zenon
<1>2. Keeps(Do("grouping_or_closure")) /\ Keeps(Do("identifier")) BY KeepsCalls
<1>3. \A k \in DOMAIN arms : Keeps(arms[k])
  <2> TAKE k \in DOMAIN arms
  <2>1. k \in K OBVIOUS
  <2> DEFINE v == CASE k \in LITERALS   -> lit
                    [] k = "LeftParen"  -> Do("grouping_or_closure")
                    [] k = "Identifier" -> Do("identifier")
  <2>2. arms[k] = v BY <2>1
  <2> HIDE DEF lit, arms
  <2>3. Keeps(v) BY <2>1, <1>1, <1>2 DEF LITERALS
  <2> QED BY <2>2, <2>3
<1>4. Keeps(Fail) BY KeepsInstructions
<1> HIDE DEF arms
<1>5. Keeps(OnPeek(arms, Fail)) BY <1>3, <1>4, KeepsBranches, Zenon
<1> QED BY <1>5, Zenon DEF Primary, arms

(* The shape is kept by: grouping or closure.                              *)
LEMMA KeepsGroupingOrClosure == Keeps(GroupingOrClosure)
<1> SUFFICES ASSUME NEW s \in State PROVE Typed(GroupingOrClosure, s, s) BY DEF Keeps
<1> DEFINE m == Marked(s)
           closure  == StartAt("ClosureLiteral") \o Do("closure")
           grouping == StartAt("Grouping") \o Expr \o Consume("RightParen") \o End
<1>1. m \in State /\ m.marks # <<>> BY MarkedState
<1>2. Typed(Mark, s, m) BY TypedMark
<1>3. Typed(Unmark, m, s) BY TypedUnmark
<1> HIDE DEF m
<1>k. "ClosureLiteral" \in NodeKinds /\ "Grouping" \in NodeKinds BY DEF NodeKinds
<1>4. Typed(closure, m, m)
  <2>1. Typed(StartAt("ClosureLiteral"), m, Deeper(m)) BY <1>1, <1>k, TypedStartAt
  <2>2. Deeper(m) \in State /\ CanEnd(Deeper(m)) /\ Shallower(Deeper(m)) = m
    BY <1>1, DeeperState
  <2>3. Typed(Do("closure"), Deeper(m), Shallower(Deeper(m))) BY <2>2, TypedDoClosure
  <2>4. Typed(Do("closure"), Deeper(m), m) BY <2>2, <2>3
  <2> QED BY <2>1, <2>4, TypedConcat
<1>5. Typed(grouping, m, m)
  <2>1. Typed(StartAt("Grouping"), m, Deeper(m)) BY <1>1, <1>k, TypedStartAt
  <2>2. Keeps(Expr) /\ Keeps(Consume("RightParen")) BY KeepsTypeExpr, KeepsInstructions
  <2>3. Typed(StartAt("Grouping") \o Expr, m, Deeper(m))
    BY <2>1, <2>2, <1>1, TypedOpened
  <2>4. Typed(StartAt("Grouping") \o Expr \o Consume("RightParen"), m, Deeper(m))
    BY <2>2, <2>3, <1>1, TypedOpened
  <2> QED BY <2>4, <1>1, TypedClosed
<1> HIDE DEF closure, grouping
<1> DEFINE next == [Colon |-> closure, Comma |-> closure]
<1>6. Typed(OnNext(next, grouping), m, m)
  <2>1. \A k \in DOMAIN next : Typed(next[k], m, m) BY <1>4
  <2> HIDE DEF next
  <2>2. "next" \in BranchOps BY DEF BranchOps
  <2>3. Typed(<<[op |-> "next", arms |-> next, other |-> grouping]>>, m, m)
    BY <2>1, <2>2, <1>1, <1>5, TypedBranch
  <2> QED BY <2>3, Zenon DEF OnNext
<1> DEFINE ident == OnNext(next, grouping)
<1> HIDE DEF ident
<1> DEFINE arms == [Identifier |-> ident, RightParen |-> closure]
<1>7. Typed(OnPeek(arms, grouping), m, m)
  <2>0. Typed(ident, m, m) BY <1>6 DEF ident
  <2>1. \A k \in DOMAIN arms : Typed(arms[k], m, m) BY <2>0, <1>4
  <2> HIDE DEF arms
  <2>2. "peek" \in BranchOps BY DEF BranchOps
  <2>3. Typed(<<[op |-> "peek", arms |-> arms, other |-> grouping]>>, m, m)
    BY <2>1, <2>2, <1>1, <1>5, TypedBranch
  <2> QED BY <2>3, Zenon DEF OnPeek
<1> HIDE DEF arms
<1>8. Typed(Advance, m, m) BY <1>1, KeepsAdvance DEF Keeps
<1>9. Typed(Mark \o Advance, s, m) BY <1>2, <1>8, TypedConcat
<1>10. Typed(Mark \o Advance \o OnPeek(arms, grouping), s, m) BY <1>7, <1>9, TypedConcat
<1>11. Typed(Mark \o Advance \o OnPeek(arms, grouping) \o Unmark, s, s)
  BY <1>3, <1>10, TypedConcat
<1> QED BY <1>11, Zenon DEF GroupingOrClosure, arms, ident, next, closure, grouping

(* closure() closes the node its caller has opened.                        *)
LEMMA ShrinksClosure == Shrinks(Closure)
<1> DEFINE sig  == Node("FunctionSignature", Do("func_parameters") \o If("Colon", Type))
           body == Node("FunctionBody", Expr)
           all  == sig \o Consume("Arrow") \o body
<1>1. Keeps(Do("func_parameters")) /\ Keeps(Type) /\ Keeps(Expr) /\ Keeps(Consume("Arrow"))
  BY KeepsCalls, KeepsTypeExpr, KeepsInstructions
<1>k. "FunctionSignature" \in NodeKinds /\ "FunctionBody" \in NodeKinds BY DEF NodeKinds
<1>2. Keeps(If("Colon", Type)) BY <1>1, KeepsIf, Zenon
<1>3. Keeps(Do("func_parameters") \o If("Colon", Type))
  BY <1>1, <1>2, KeepsConcat, Zenon
<1>4. Keeps(sig) BY <1>3, <1>k, KeepsNode, Zenon
<1>5. Keeps(body) BY <1>1, <1>k, KeepsNode, Zenon
<1>6. Keeps(all) BY <1>1, <1>4, <1>5, Keeps3, Zenon
<1> HIDE DEF all
<1> SUFFICES ASSUME NEW s \in State, CanEnd(s) PROVE Typed(Closure, s, Shallower(s))
  BY Zenon DEF Shrinks
<1>7. Typed(all, s, s) BY <1>6, Zenon DEF Keeps
<1>8. Typed(End, s, Shallower(s)) BY TypedEnd
<1>9. Typed(all \o End, s, Shallower(s)) BY <1>7, <1>8, TypedConcat
<1> QED BY <1>9, Zenon DEF Closure, all

(* The shape is kept by: declaration.                                      *)
LEMMA KeepsDeclaration == Keeps(Declaration)
<1> SUFFICES ASSUME NEW s \in State PROVE Typed(Declaration, s, s) BY DEF Keeps
<1> DEFINE m == Marked(s)
           f == StartAt("FunctionDecl")
           i == StartAt("ImportDecl")
           p == StartAt("ImplDecl")
           a == StartAt("AdtDecl")
           open == [Func |-> f, Import |-> i, Export |-> i, Impl |-> p]
           func == Function(FUNC_MODIFIERS, FALSE)
           kinds == [Func |-> func, Class |-> Do("class"),
                     Export |-> Do("import_declaration"),
                     Import |-> Do("import_declaration"), Interface |-> Do("interface"),
                     Impl |-> Do("iface_impl"), Enum |-> Do("enum")]
<1>1. m \in State /\ m.marks # <<>> BY MarkedState
<1>2. Typed(Mark, s, m) BY TypedMark
<1>3. Typed(ConsumeModifiers, m, m) BY <1>1, KeepsInstructions DEF Keeps
<1>4. Deeper(s) \in State /\ Deeper(m) \in State BY <1>1, DeeperState
<1>5. Typed(Unmark, Deeper(m), Deeper(s))
  <2>1. Deeper(m).marks # <<>> /\ Deeper(m).marks = m.marks /\ Deeper(m).depth = m.depth + 1
    BY <1>1, DeeperState
  <2>2. Unmarked(m) = s /\ m.depth = s.depth BY MarkedState
  <2>3. Unmarked(Deeper(m)) = [depth |-> m.depth + 1, marks |-> Front(m.marks)]
    BY <2>1, Zenon DEF Unmarked
  <2>4. s.marks = Front(m.marks)
    <3> HIDE DEF m
    <3>1. Unmarked(m).marks = Front(m.marks) BY DEF Unmarked
    <3> QED BY <3>1, <2>2
  <2>5. Unmarked(Deeper(m)) = Deeper(s) BY <2>2, <2>3, <2>4, Zenon DEF Deeper
  <2> DEFINE o == [op |-> "unmark"]
             d == Deeper(m)
  <2> HIDE DEF m
  <2>6. Moves({}, o, Deeper(m), Deeper(s)) BY <2>1, <2>5 DEF Moves
  <2> HIDE DEF o
  <2>7. Typed(<<o>>, Deeper(m), Deeper(s)) BY <2>6, <1>4, TypedPlain
  <2> QED BY <2>7 DEF Unmark, o
<1> HIDE DEF m
<1>6. Typed(OnPeek(open, a), m, Deeper(m))
  <2>1. {"FunctionDecl", "ImportDecl", "ImplDecl", "AdtDecl"} \subseteq NodeKinds
    BY DEF NodeKinds
  <2>2. Typed(f, m, Deeper(m)) /\ Typed(i, m, Deeper(m)) /\ Typed(p, m, Deeper(m))
        /\ Typed(a, m, Deeper(m))
    BY <2>1, <1>1, TypedStartAt
  <2> HIDE DEF f, i, p, a
  <2>3. \A k \in DOMAIN open : Typed(open[k], m, Deeper(m)) BY <2>2
  <2> HIDE DEF open
  <2>4. "peek" \in BranchOps BY DEF BranchOps
  <2>5. Typed(<<[op |-> "peek", arms |-> open, other |-> a]>>, m, Deeper(m))
    BY <2>2, <2>3, <2>4, <1>1, <1>4, TypedBranch
  <2> QED BY <2>5, Zenon DEF OnPeek
<1>7. Keeps(OnChecked(kinds, Fail))
  <2>1. Keeps(func) /\ Keeps(Fail) BY KeepsInstructions
  <2>2. Keeps(Do("class")) /\ Keeps(Do("import_declaration")) /\ Keeps(Do("interface"))
        /\ Keeps(Do("iface_impl")) /\ Keeps(Do("enum"))
    BY KeepsCalls
  <2> HIDE DEF func
  <2>3. \A k \in DOMAIN kinds : Keeps(kinds[k]) BY <2>1, <2>2
  <2> HIDE DEF kinds
  <2> QED BY <2>1, <2>3, KeepsBranches, Zenon
<1> HIDE DEF open, kinds, a
<1>8. Typed(Mark \o ConsumeModifiers, s, m) BY <1>2, <1>3, TypedConcat
<1>9. Typed(Mark \o ConsumeModifiers \o OnPeek(open, a), s, Deeper(m))
  BY <1>6, <1>8, TypedConcat
<1>10. Typed(Mark \o ConsumeModifiers \o OnPeek(open, a) \o Unmark, s, Deeper(s))
  BY <1>5, <1>9, TypedConcat
<1>11. Typed(Mark \o ConsumeModifiers \o OnPeek(open, a) \o Unmark
             \o OnChecked(kinds, Fail), s, Deeper(s))
  BY <1>7, <1>10, TypedOpened
<1>12. Typed(Mark \o ConsumeModifiers \o OnPeek(open, a) \o Unmark
             \o OnChecked(kinds, Fail) \o End, s, s)
  BY <1>11, TypedClosed
<1> QED BY <1>12, Zenon DEF Declaration, open, kinds, func, f, i, p, a

(* The shape is kept by: when branches.                                    *)
LEMMA KeepsWhenBranches == \A found \in BOOLEAN : Keeps(WhenBranches(found))
<1> TAKE found \in BOOLEAN
<1> DEFINE warn == IF found THEN Fail ELSE <<>>
           more == IF found THEN "when_branches_after_else" ELSE "when_branches"
           else == warn \o Consume("Arrow") \o Start("ExprElse") \o Expr \o End
                   \o Do("when_branches_after_else")
           cond == Node("ExprCondition", Expr)
           body == Node("ExprBody", Expr)
           branch == Start("WhenBranch") \o cond \o Consume("Arrow") \o body \o End
<1>1. /\ Keeps(Expr) /\ Keeps(Fail) /\ Keeps(<<>>) /\ Keeps(Consume("Arrow"))
      /\ Keeps(Do("when_branches_after_else")) /\ Keeps(Do("when_branches"))
  BY KeepsTypeExpr, KeepsInstructions, KeepsEmpty, KeepsCalls
<1>k. {"ExprElse", "ExprCondition", "ExprBody", "WhenBranch"} \subseteq NodeKinds
  BY DEF NodeKinds
<1>2. Keeps(warn) BY <1>1
<1>3. Keeps(Do(more)) BY <1>1
<1>4. Keeps(cond) /\ Keeps(body) BY <1>1, <1>k, KeepsNode, Zenon
<1> HIDE DEF cond, body, warn, more
<1>5. Keeps(else)
  <2> SUFFICES ASSUME NEW s \in State PROVE Typed(else, s, s) BY Zenon DEF Keeps
  <2>1. Typed(warn, s, s) /\ Typed(Consume("Arrow"), s, s)
        /\ Typed(Do("when_branches_after_else"), s, s)
    BY <1>1, <1>2, Zenon DEF Keeps
  <2>2. Typed(warn \o Consume("Arrow"), s, s) BY <2>1, TypedConcat
  <2>3. Typed(Start("ExprElse"), s, Deeper(s)) BY <1>k, TypedStart
  <2>4. Typed(warn \o Consume("Arrow") \o Start("ExprElse"), s, Deeper(s))
    BY <2>2, <2>3, TypedConcat
  <2>5. Typed(warn \o Consume("Arrow") \o Start("ExprElse") \o Expr, s, Deeper(s))
    BY <2>4, <1>1, TypedOpened
  <2>6. Typed(warn \o Consume("Arrow") \o Start("ExprElse") \o Expr \o End, s, s)
    BY <2>5, TypedClosed
  <2> QED BY <2>1, <2>6, TypedConcat
<1> HIDE DEF else
<1>6. Keeps(branch)
  <2> SUFFICES ASSUME NEW s \in State PROVE Typed(branch, s, s) BY Zenon DEF Keeps
  <2>1. Typed(Start("WhenBranch"), s, Deeper(s)) BY <1>k, TypedStart
  <2>2. Typed(Start("WhenBranch") \o cond, s, Deeper(s)) BY <2>1, <1>4, TypedOpened
  <2>3. Typed(Start("WhenBranch") \o cond \o Consume("Arrow"), s, Deeper(s))
    BY <2>2, <1>1, TypedOpened
  <2>4. Typed(Start("WhenBranch") \o cond \o Consume("Arrow") \o body, s, Deeper(s))
    BY <2>3, <1>4, TypedOpened
  <2> QED BY <2>4, TypedClosed
<1> DEFINE next == branch \o Do(more)
<1>7. Keeps(next) BY <1>3, <1>6, KeepsConcat, Zenon
<1> HIDE DEF next
<1>8. Keeps(OnMatch("Else", else, next)) BY <1>5, <1>7, KeepsMatch, Zenon
<1>9. Keeps(OnMatch("RightBrace", <<>>, OnMatch("Else", else, next)))
  BY <1>1, <1>8, KeepsMatch, Zenon
<1> QED BY <1>9, Zenon DEF WhenBranches, else, next, branch, cond, body, warn, more

(* Every production leaves the builder's shape as it was; only the one of  *)
(* a closure closes the node its caller has opened.                        *)
LEMMA BodyTyped ==
  \A name \in DOMAIN Body :
     /\ name # "closure" => Keeps(Body[name])
     /\ name = "closure" => Shrinks(Body[name])
<1>1. DOMAIN Body = {"declaration", "class", "interface", "enum", "case",
       "type_parameters", "func_parameters", "adt_member", "constructor",
       "maybe_fn_body", "enum_case", "case_members", "import_declaration",
       "import_path", "iface_impl", "type_", "higher_expression", "variable",
       "expression", "block", "if_expression", "for_expression", "return_expr",
       "break_expr", "when_expression", "when_branches",
       "when_branches_after_else", "unary", "call", "primary", "identifier",
       "grouping_or_closure", "closure"}
  BY DEF Body
<1>k. "ReturnExpr" \in NodeKinds /\ "BreakExpr" \in NodeKinds BY DEF NodeKinds
<1>2. Keeps(Body["declaration"])
  <2>1. Body["declaration"] = Declaration BY DEF Body
  <2> QED BY <2>1, KeepsDeclaration
<1>3. Keeps(Body["class"])
  <2>1. Body["class"] = GenericAdt(CLASS_CONF) BY DEF Body
  <2> QED BY <2>1, KeepsAdts
<1>4. Keeps(Body["interface"])
  <2>1. Body["interface"] = GenericAdt(IFACE_CONF) BY DEF Body
  <2> QED BY <2>1, KeepsAdts
<1>5. Keeps(Body["enum"])
  <2>1. Body["enum"] = GenericAdt(ENUM_CONF) BY DEF Body
  <2> QED BY <2>1, KeepsAdts
<1>6. Keeps(Body["case"])
  <2>1. Body["case"] = GenericAdt(CASE_CONF) BY DEF Body
  <2> QED BY <2>1, KeepsAdts
<1>7. Keeps(Body["type_parameters"])
  <2>1. Body["type_parameters"] = TypeParameters BY DEF Body
  <2> QED BY <2>1, KeepsTypeParameters
<1>8. Keeps(Body["func_parameters"])
  <2>1. Body["func_parameters"] = FuncParameters BY DEF Body
  <2> QED BY <2>1, KeepsFuncParameters
<1>9. Keeps(Body["adt_member"])
  <2>1. Body["adt_member"] = AdtMember BY DEF Body
  <2> QED BY <2>1, KeepsAdtMember
<1>10. Keeps(Body["constructor"])
  <2>1. Body["constructor"] = Constructor BY DEF Body
  <2> QED BY <2>1, KeepsConstructor
<1>11. Keeps(Body["maybe_fn_body"])
  <2>1. Body["maybe_fn_body"] = MaybeFnBody BY DEF Body
  <2> QED BY <2>1, KeepsMaybeFnBody
<1>12. Keeps(Body["enum_case"])
  <2>1. Body["enum_case"] = EnumCase BY DEF Body
  <2> QED BY <2>1, KeepsEnumCase
<1>13. Keeps(Body["case_members"])
  <2>1. Body["case_members"] = CaseMembers BY DEF Body
  <2> QED BY <2>1, KeepsCaseMembers
<1>14. Keeps(Body["import_declaration"])
  <2>1. Body["import_declaration"] = ImportDeclaration BY DEF Body
  <2> QED BY <2>1, KeepsImportDeclaration
<1>15. Keeps(Body["import_path"])
  <2>1. Body["import_path"] = ImportPath BY DEF Body
  <2> QED BY <2>1, KeepsImportPath
<1>16. Keeps(Body["iface_impl"])
  <2>1. Body["iface_impl"] = IfaceImpl BY DEF Body
  <2> QED BY <2>1, KeepsIfaceImpl
<1>17. Keeps(Body["type_"])
  <2>1. Body["type_"] = Type_ BY DEF Body
  <2> QED BY <2>1, KeepsType
<1>18. Keeps(Body["higher_expression"])
  <2>1. Body["higher_expression"] = HigherExpression BY DEF Body
  <2> QED BY <2>1, KeepsHigherExpression
<1>19. Keeps(Body["variable"])
  <2>1. Body["variable"] = Variable BY DEF Body
  <2> QED BY <2>1, KeepsVariable
<1>20. Keeps(Body["expression"])
  <2>1. Body["expression"] = Expression BY DEF Body
  <2> QED BY <2>1, KeepsExpression
<1>21. Keeps(Body["block"])
  <2>1. Body["block"] = Block BY DEF Body
  <2> QED BY <2>1, KeepsBlock
<1>22. Keeps(Body["if_expression"])
  <2>1. Body["if_expression"] = IfExpression BY DEF Body
  <2> QED BY <2>1, KeepsIfExpression
<1>23. Keeps(Body["for_expression"])
  <2>1. Body["for_expression"] = ForExpression BY DEF Body
  <2> QED BY <2>1, KeepsForExpression
<1>24. Keeps(Body["return_expr"])
  <2>1. Body["return_expr"] = RetOrBreakExpr("ReturnExpr") BY DEF Body
  <2> QED BY <2>1, KeepsRetOrBreak, <1>k
<1>25. Keeps(Body["break_expr"])
  <2>1. Body["break_expr"] = RetOrBreakExpr("BreakExpr") BY DEF Body
  <2> QED BY <2>1, KeepsRetOrBreak, <1>k
<1>26. Keeps(Body["when_expression"])
  <2>1. Body["when_expression"] = WhenExpression BY DEF Body
  <2> QED BY <2>1, KeepsWhenExpression
<1>27. Keeps(Body["when_branches"])
  <2>1. Body["when_branches"] = WhenBranches(FALSE) BY DEF Body
  <2> QED BY <2>1, KeepsWhenBranches
<1>28. Keeps(Body["when_branches_after_else"])
  <2>1. Body["when_branches_after_else"] = WhenBranches(TRUE) BY DEF Body
  <2> QED BY <2>1, KeepsWhenBranches
<1>29. Keeps(Body["unary"])
  <2>1. Body["unary"] = Unary BY DEF Body
  <2> QED BY <2>1, KeepsUnary
<1>30. Keeps(Body["call"])
  <2>1. Body["call"] = Call BY DEF Body
  <2> QED BY <2>1, KeepsCall
<1>31. Keeps(Body["primary"])
  <2>1. Body["primary"] = Primary BY DEF Body
  <2> QED BY <2>1, KeepsPrimary
<1>32. Keeps(Body["identifier"])
  <2>1. Body["identifier"] = Identifier BY DEF Body
  <2> QED BY <2>1, KeepsIdentifier
<1>33. Keeps(Body["grouping_or_closure"])
  <2>1. Body["grouping_or_closure"] = GroupingOrClosure BY DEF Body
  <2> QED BY <2>1, KeepsGroupingOrClosure
<1>34. Shrinks(Body["closure"])
  <2>1. Body["closure"] = Closure BY DEF Body
  <2> QED BY <2>1, ShrinksClosure
<1> QED BY <1>1, <1>2, <1>3, <1>4, <1>5, <1>6, <1>7, <1>8, <1>9, <1>10, <1>11,
          <1>12, <1>13, <1>14, <1>15, <1>16, <1>17, <1>18, <1>19, <1>20, <1>21,
          <1>22, <1>23, <1>24, <1>25, <1>26, <1>27, <1>28, <1>29, <1>30, <1>31,
          <1>32, <1>33, <1>34

-----------------------------------------------------------------------------
(* What an instruction that is good makes of a shape.                      *)
LEMMA GoodOf ==
  ASSUME NEW o, NEW s, NEW u, Good(o, s, u)
  PROVE  /\ o.op \in SimpleOps => u = s
         /\ o.op = "file" => s = Done /\ u = Done
         /\ o.op = "start" => o.kind \in NodeKinds /\ u = Deeper(s)
         /\ o.op = "start_at" => o.kind \in NodeKinds /\ s.marks # <<>> /\ u = Deeper(s)
         /\ o.op = "end" => CanEnd(s) /\ u = Shallower(s)
         /\ o.op = "mark" => u = Marked(s)
         /\ o.op = "unmark" => s.marks # <<>> /\ u = Unmarked(s)
         /\ o.op = "do" => \/ o.name \in DOMAIN Body /\ o.name # "closure" /\ u = s
                           \/ o.name = "closure" /\ CanEnd(s) /\ u = Shallower(s)
         /\ o.op \in {"infix", "postfix"} => s.marks # <<>> /\ u = s
         /\ o.op \in BranchOps =>
               Typed(o.other, s, u) /\ \A k \in DOMAIN o.arms : Typed(o.arms[k], s, u)
         /\ o.op = "match" => Typed(o.yes, s, u) /\ Typed(o.no, s, u)
         /\ o.op = "until" => u = s /\ Typed(o.body, s, s)
         /\ o.op = "separated" => u = s /\ Typed(o.item, s, s)
<1>1. PICK W : Closed(W) /\ Moves(W, o, s, u) BY Zenon DEF Good
<1>2. \A p, a, b : <<p, a, b>> \in W => Typed(p, a, b) BY <1>1, Zenon DEF Typed
<1>3. ASSUME o.op \in SimpleOps PROVE u = s
  BY <1>1, <1>3 DEF Moves, SimpleOps, BranchOps
<1>15. ASSUME o.op = "file" PROVE s = Done /\ u = Done
  BY <1>1, <1>15 DEF Moves, SimpleOps, BranchOps
<1>4. ASSUME o.op = "start" PROVE o.kind \in NodeKinds /\ u = Deeper(s)
  BY <1>1, <1>4 DEF Moves, SimpleOps, BranchOps
<1>5. ASSUME o.op = "start_at" PROVE o.kind \in NodeKinds /\ s.marks # <<>> /\ u = Deeper(s)
  BY <1>1, <1>5 DEF Moves, SimpleOps, BranchOps
<1>6. ASSUME o.op = "end" PROVE CanEnd(s) /\ u = Shallower(s)
  BY <1>1, <1>6 DEF Moves, SimpleOps, BranchOps
<1>7. ASSUME o.op = "mark" PROVE u = Marked(s)
  BY <1>1, <1>7 DEF Moves, SimpleOps, BranchOps
<1>8. ASSUME o.op = "unmark" PROVE s.marks # <<>> /\ u = Unmarked(s)
  BY <1>1, <1>8 DEF Moves, SimpleOps, BranchOps
<1>9. ASSUME o.op = "do"
      PROVE  \/ o.name \in DOMAIN Body /\ o.name # "closure" /\ u = s
             \/ o.name = "closure" /\ CanEnd(s) /\ u = Shallower(s)
  BY <1>1, <1>9 DEF Moves, SimpleOps, BranchOps
<1>10. ASSUME o.op \in {"infix", "postfix"} PROVE s.marks # <<>> /\ u = s
  BY <1>1, <1>10 DEF Moves, SimpleOps, BranchOps
<1>11. ASSUME o.op \in BranchOps
       PROVE  Typed(o.other, s, u) /\ \A k \in DOMAIN o.arms : Typed(o.arms[k], s, u)
  <2>1. <<o.other, s, u>> \in W /\ \A k \in DOMAIN o.arms : <<o.arms[k], s, u>> \in W
    BY <1>1, <1>11 DEF Moves, SimpleOps, BranchOps
  <2> QED BY <2>1, <1>2
<1>12. ASSUME o.op = "match" PROVE Typed(o.yes, s, u) /\ Typed(o.no, s, u)
  <2>1. <<o.yes, s, u>> \in W /\ <<o.no, s, u>> \in W
    BY <1>1, <1>12 DEF Moves, SimpleOps, BranchOps
  <2> QED BY <2>1, <1>2
<1>13. ASSUME o.op = "until" PROVE u = s /\ Typed(o.body, s, s)
  <2>1. u = s /\ <<o.body, s, s>> \in W
    BY <1>1, <1>13 DEF Moves, SimpleOps, BranchOps
  <2> QED BY <2>1, <1>2
<1>14. ASSUME o.op = "separated" PROVE u = s /\ Typed(o.item, s, s)
  <2>1. u = s /\ <<o.item, s, s>> \in W
    BY <1>1, <1>14 DEF Moves, SimpleOps, BranchOps
  <2> QED BY <2>1, <1>2
<1> QED

    BY <1>3, <1>4, <1>5, <1>6, <1>7, <1>8, <1>9, <1>10, <1>11, <1>12, <1>13, <1>14, <1>15, Zenon

(* Whichever arm a branch takes.                                           *)
LEMMA TypedArm ==
  ASSUME NEW o, o.op \in BranchOps, NEW s, NEW u, Good(o, s, u), NEW kind
  PROVE  Typed(Arm(o.arms, o.other, kind), s, u)
<1>1. Typed(o.other, s, u) /\ \A k \in DOMAIN o.arms : Typed(o.arms[k], s, u)
  BY GoodOf
<1> QED BY <1>1, Zenon DEF Arm

-----------------------------------------------------------------------------
(* The shape of the builder.                                               *)
Nodes(ms) == [i \in 1..Len(ms) |-> ms[i].node]
Abs(ns, ms) == [depth |-> Len(ns), marks |-> Nodes(ms)]

(* The shape of the builder is one: its checkpoints are of open nodes.     *)
LEMMA NodesType ==
  ASSUME NEW ns, NEW ms, Builder(ns, ms)
  PROVE  /\ Nodes(ms) \in Seq(Depth) /\ Len(Nodes(ms)) = Len(ms) /\ Len(ms) \in Nat
         /\ \A i \in 1..Len(ms) : Nodes(ms)[i] = ms[i].node /\ ms[i].node \in 1..Len(ns)
         /\ Len(ns) \in Depth /\ Len(ns) \in Nat /\ ms \in Seq(Mark_)
<1>1. /\ ns \in Seq(Work) /\ ns # <<>> /\ ms \in Seq(Mark_)
      /\ \A i \in 1..Len(ms) : MarkFits(ns, ms[i])
  BY Zenon DEF Builder, Stack
<1>2. Len(ns) \in Nat /\ Len(ns) # 0 /\ Len(ms) \in Nat BY <1>1
<1>3. \A i \in 1..Len(ms) : ms[i].node \in 1..Len(ns) BY <1>1, Zenon DEF MarkFits
<1>4. \A i \in 1..Len(ms) : ms[i].node \in Depth BY <1>2, <1>3 DEF Depth
<1> DEFINE t == Nodes(ms)
           F(i) == ms[i].node
<1>5. t = [i \in 1..Len(ms) |-> F(i)] /\ \A i \in 1..Len(ms) : F(i) \in Depth
  BY <1>4 DEF Nodes
<1> HIDE DEF t, F
<1>6. t \in Seq(Depth) /\ Len(t) = Len(ms) /\ \A i \in 1..Len(ms) : t[i] = F(i)
  BY <1>2, <1>5
<1> QED BY <1>1, <1>2, <1>3, <1>6 DEF t, F, Depth

LEMMA AbsState ==
  ASSUME NEW ns, NEW ms, Builder(ns, ms)
  PROVE  Abs(ns, ms) \in State
<1>1. /\ Nodes(ms) \in Seq(Depth) /\ Len(Nodes(ms)) = Len(ms) /\ Len(ns) \in Depth
      /\ \A i \in 1..Len(ms) : Nodes(ms)[i] = ms[i].node /\ ms[i].node \in 1..Len(ns)
  BY NodesType
<1>2. \A i \in 1..Len(Nodes(ms)) : Nodes(ms)[i] <= Len(ns) BY <1>1 DEF Depth
<1> QED BY <1>1, <1>2 DEF Abs, State, Shape

(* What the operations of the builder do to its shape.                     *)
LEMMA AbsStart ==
  ASSUME NEW ns, NEW ms, NEW v, Len(v) = Len(ns) + 1
  PROVE  Abs(v, ms) = Deeper(Abs(ns, ms))
BY DEF Abs, Deeper

LEMMA AbsSame ==
  ASSUME NEW ns, NEW ms, NEW v, Len(v) = Len(ns)
  PROVE  Abs(v, ms) = Abs(ns, ms)
BY DEF Abs

LEMMA AbsEnd ==
  ASSUME NEW ns, NEW ms, NEW v, Len(v) = Len(ns) - 1
  PROVE  Abs(v, ms) = Shallower(Abs(ns, ms))
BY DEF Abs, Shallower

LEMMA AbsMarks ==
  ASSUME NEW ns, NEW ms, Builder(ns, ms), Abs(ns, ms).marks # <<>>
  PROVE  ms # <<>>
<1>1. Nodes(ms) \in Seq(Depth) /\ Len(Nodes(ms)) = Len(ms) /\ Nodes(ms) # <<>>
  BY NodesType DEF Abs
<1> QED BY <1>1

LEMMA AbsCanEnd ==
  ASSUME NEW ns, NEW ms, Builder(ns, ms), CanEnd(Abs(ns, ms))
  PROVE  Len(ns) > 1 /\ \A i \in 1..Len(ms) : ms[i].node < Len(ns)
<1>1. Abs(ns, ms).depth = Len(ns) /\ Abs(ns, ms).marks = Nodes(ms) BY DEF Abs
<1>2. /\ Len(Nodes(ms)) = Len(ms)
      /\ \A i \in 1..Len(ms) : Nodes(ms)[i] = ms[i].node
  BY NodesType
<1> QED BY <1>1, <1>2 DEF CanEnd

LEMMA AbsMark ==
  ASSUME NEW ns, NEW ms, Builder(ns, ms)
  PROVE  Abs(ns, Append(ms, Checkpoint(ns))) = Marked(Abs(ns, ms))
<1> DEFINE c == Checkpoint(ns)
           all == Append(ms, c)
           old == Nodes(ms)
           new == Nodes(all)
           want == Append(old, Len(ns))
<1>1. /\ Builder(ns, all) /\ c.node = Len(ns) /\ c \in Mark_ BY BuilderMark
<1>2. /\ old \in Seq(Depth) /\ Len(old) = Len(ms) /\ Len(ms) \in Nat /\ Len(ns) \in Depth
      /\ ms \in Seq(Mark_) /\ \A i \in 1..Len(ms) : old[i] = ms[i].node
  BY NodesType
<1> HIDE DEF c
<1>3. Len(all) = Len(ms) + 1 /\ all[Len(ms) + 1] = c /\ \A i \in 1..Len(ms) : all[i] = ms[i]
  BY <1>1, <1>2, AppendProperties
<1>4. new \in Seq(Depth) /\ Len(new) = Len(all) /\ \A i \in 1..Len(all) : new[i] = all[i].node
  <2> HIDE DEF all
  <2> QED BY <1>1, NodesType
<1>5. /\ want \in Seq(Depth) /\ Len(want) = Len(ms) + 1
      /\ want[Len(ms) + 1] = Len(ns) /\ \A i \in 1..Len(ms) : want[i] = old[i]
  <2> HIDE DEF old
  <2> QED BY <1>2, AppendProperties
<1> HIDE DEF all, old, new, want
<1>6. \A i \in 1..Len(new) : new[i] = want[i]
  <2> TAKE i \in 1..Len(new)
  <2>1. i \in 1..Len(all) /\ (i \in 1..Len(ms) \/ i = Len(ms) + 1) BY <1>2, <1>3, <1>4
  <2> QED BY <2>1, <1>1, <1>2, <1>3, <1>4, <1>5
<1>7. new = want BY <1>3, <1>4, <1>5, <1>6, SeqEqual
<1> QED BY <1>7, Zenon DEF Abs, Marked, new, want, old, all, c

LEMMA AbsUnmark ==
  ASSUME NEW ns, NEW ms, Builder(ns, ms), ms # <<>>
  PROVE  Abs(ns, Front(ms)) = Unmarked(Abs(ns, ms))
<1> DEFINE f == Front(ms)
           old == Nodes(ms)
           new == Nodes(f)
           want == Front(old)
<1>1. /\ Builder(ns, f) /\ Len(f) = Len(ms) - 1
      /\ \A i \in 1..(Len(ms) - 1) : f[i] = ms[i]
  BY BuilderUnmark
<1>2. /\ old \in Seq(Depth) /\ Len(old) = Len(ms) /\ Len(ms) \in Nat /\ ms \in Seq(Mark_)
      /\ \A i \in 1..Len(ms) : old[i] = ms[i].node
  BY NodesType
<1> HIDE DEF f
<1>3. new \in Seq(Depth) /\ Len(new) = Len(f) /\ \A i \in 1..Len(f) : new[i] = f[i].node
  BY <1>1, NodesType
<1>4. old # <<>> /\ Len(ms) # 0 BY <1>2
<1>5. /\ want \in Seq(Depth) /\ Len(want) = Len(ms) - 1
      /\ \A i \in 1..(Len(ms) - 1) : want[i] = old[i]
  <2> HIDE DEF old
  <2> QED BY <1>2, <1>4, FrontOf
<1> HIDE DEF old, new, want
<1>6. \A i \in 1..Len(new) : new[i] = want[i]
  <2> TAKE i \in 1..Len(new)
  <2>1. i \in 1..(Len(ms) - 1) /\ i \in 1..Len(f) /\ i \in 1..Len(ms)
    BY <1>1, <1>2, <1>3
  <2> QED BY <2>1, <1>1, <1>2, <1>3, <1>5
<1>7. new = want BY <1>1, <1>3, <1>5, <1>6, SeqEqual
<1>8. Abs(ns, f) = [depth |-> Len(ns), marks |-> new] BY DEF Abs, new
<1>9. Abs(ns, ms).depth = Len(ns) /\ Abs(ns, ms).marks = old BY DEF Abs, old
<1>10. Unmarked(Abs(ns, ms)) = [depth |-> Len(ns), marks |-> want]
  BY <1>9, Zenon DEF Unmarked, want
<1> QED BY <1>7, <1>8, <1>10 DEF f

-----------------------------------------------------------------------------
(* The invariant.                                                          *)
(* What the lexer makes of a text: no token has the kind of the end.       *)
Kinds == STRING \ {"EndOfFile"}
CursorOK(in, c) == in \in Seq(Kinds) /\ c \in 1..(Len(in) + 1)
TreeOK(in, c, ns, ms) ==
  Builder(ns, ms) /\ Sig(in, Leaves(ns)) = Sig(in, Iota(1, c - 1))
TodoOK(p, ns, ms) == \E t : Typed(p, Abs(ns, ms), t)
ReportOK(in, es, ps, mods, st) ==
  /\ es \in Seq(1..(Len(in) + 1)) /\ ps \in BOOLEAN /\ mods \in Seq(MODIFIERS)
  /\ st \in {"running", "parsed", "crashed"}
IInv ==
  /\ CursorOK(input, current)
  /\ TreeOK(input, current, nodes, marks)
  /\ TodoOK(todo, nodes, marks)
  /\ ReportOK(input, errors, poisoned, modifiers, status)

(* Where the cursor can be.                                                *)
LEMMA CursorIs ==
  ASSUME NEW in, NEW c, CursorOK(in, c)
  PROVE  /\ Len(in) \in Nat /\ DOMAIN in = 1..Len(in) /\ c \in 1..(Len(in) + 1)
         /\ c \in Nat \ {0} /\ c \in Nat /\ c \in Int
BY DEF CursorOK

(* What the tree under construction is.                                    *)
LEMMA TreeType ==
  ASSUME NEW ns, NEW ms, Builder(ns, ms)
  PROVE  Leaves(ns) \in Seq(Nat) /\ ns \in Seq(Work)
<1>1. ns \in Seq(Work) BY Zenon DEF Builder, Stack
<1> QED BY <1>1, LeavesType

(* The tokens from the cursor on are read.                                 *)
LEMMA TreeRead ==
  ASSUME NEW in, NEW c, NEW ns, NEW ms, CursorOK(in, c), TreeOK(in, c, ns, ms),
         NEW n \in Int, n >= c - 1
  PROVE  /\ TreeOK(in, n + 1, Feed(ns, c, n), ms)
         /\ Len(Feed(ns, c, n)) = Len(ns)
<1>1. Builder(ns, ms) /\ Sig(in, Leaves(ns)) = Sig(in, Iota(1, c - 1)) BY DEF TreeOK
<1>2. c \in Nat \ {0} /\ c \in Nat BY CursorIs
<1>3. /\ Builder(Feed(ns, c, n), ms) /\ Len(Feed(ns, c, n)) = Len(ns)
      /\ Leaves(Feed(ns, c, n)) = Leaves(ns) \o Iota(c, n)
  BY <1>1, <1>2, BuilderFeed
<1>4. Leaves(ns) \in Seq(Nat) BY <1>1, TreeType
<1>5. Sig(in, Leaves(ns) \o Iota(c, n)) = Sig(in, Iota(1, n))
  BY <1>1, <1>2, <1>4, SigRead
<1>6. (n + 1) - 1 = n OBVIOUS
<1> QED BY <1>3, <1>5, <1>6 DEF TreeOK

(* Skipped tokens are put into the tree once more.                         *)
LEMMA TreeSkip ==
  ASSUME NEW in, NEW c, NEW ns, NEW ms, TreeOK(in, c, ns, ms), NEW v, Builder(v, ms),
         NEW more \in Seq(Nat), \A i \in 1..Len(more) : RawOf(in, more[i]) = "ws",
         Leaves(v) = Leaves(ns) \o more
  PROVE  TreeOK(in, c, v, ms)
<1>1. Builder(ns, ms) /\ Sig(in, Leaves(ns)) = Sig(in, Iota(1, c - 1)) BY DEF TreeOK
<1>2. Leaves(ns) \in Seq(Nat) BY <1>1, TreeType
<1>3. Sig(in, Leaves(ns) \o more) = Sig(in, Leaves(ns)) BY <1>2, SigSkip
<1> QED BY <1>1, <1>3 DEF TreeOK

(* The same leaves.                                                        *)
LEMMA TreeSame ==
  ASSUME NEW in, NEW c, NEW ns, NEW ms, TreeOK(in, c, ns, ms), NEW v, NEW vm,
         Builder(v, vm), Leaves(v) = Leaves(ns)
  PROVE  TreeOK(in, c, v, vm)
BY DEF TreeOK

(* Skipped tokens are moved to the tree.                                   *)
LEMMA SkippedOK ==
  ASSUME CursorOK(input, current), TreeOK(input, current, nodes, marks)
  PROVE  /\ CursorOK(input, Skip(current))
         /\ TreeOK(input, Skip(current), Skipped, marks)
         /\ TreeOK(input, current, Skipped, marks)
         /\ Len(Skipped) = Len(nodes) /\ Abs(Skipped, marks) = Abs(nodes, marks)
<1> DEFINE k == Skip(current)
<1>1. /\ Len(input) \in Nat /\ DOMAIN input = 1..Len(input)
      /\ current \in 1..(Len(input) + 1) /\ current \in Nat
  BY CursorIs
<1>2. k \in current..(Len(input) + 1) /\ \A i \in current..(k - 1) : Raw(i) = "ws"
  BY <1>1, SkipIs
<1> HIDE DEF k
<1>3. k - 1 \in Int /\ k - 1 >= current - 1 /\ (k - 1) + 1 = k /\ k \in 1..(Len(input) + 1)
  BY <1>1, <1>2
<1>4. Skipped = Feed(nodes, current, k - 1) BY DEF Skipped, k
<1>5. TreeOK(input, (k - 1) + 1, Skipped, marks) /\ Len(Skipped) = Len(nodes)
  BY <1>3, <1>4, TreeRead
<1>6. CursorOK(input, k) BY <1>3 DEF CursorOK
<1>7. TreeOK(input, current, Skipped, marks)
  <2>1. Builder(nodes, marks) BY DEF TreeOK
  <2>2. /\ Builder(Skipped, marks)
        /\ Leaves(Skipped) = Leaves(nodes) \o Iota(current, k - 1)
    BY <2>1, <1>1, <1>3, <1>4, BuilderFeed
  <2> DEFINE more == Iota(current, k - 1)
  <2>3. /\ more \in Seq(Nat) /\ Len(more) = k - 1 - current + 1
        /\ \A i \in 1..(k - 1 - current + 1) : more[i] = current + i - 1
    BY <1>1, <1>3, IotaIs
  <2> HIDE DEF more
  <2>4. \A i \in 1..Len(more) : RawOf(input, more[i]) = "ws"
    <3> TAKE i \in 1..Len(more)
    <3>1. i \in 1..(k - 1 - current + 1) BY <2>3
    <3>2. more[i] = current + i - 1 BY <2>3, <3>1
    <3>3. current + i - 1 \in current..(k - 1) BY <3>1, <1>1, <1>3
    <3>4. Raw(more[i]) = "ws" BY <3>2, <3>3, <1>2
    <3> QED BY <3>4 DEF Raw, RawOf
  <2> QED BY <2>2, <2>3, <2>4, TreeSkip DEF more
<1>8. Abs(Skipped, marks) = Abs(nodes, marks) BY <1>5, AbsSame
<1> QED BY <1>3, <1>5, <1>6, <1>7, <1>8 DEF k

(* advance(), when it does not panic.                                      *)
LEMMA ReadTokenOK ==
  ASSUME CursorOK(input, current), TreeOK(input, current, nodes, marks), ReadToken
  PROVE  /\ CursorOK(input, current') /\ TreeOK(input, current', nodes', marks)
         /\ Abs(nodes', marks) = Abs(nodes, marks)
<1> DEFINE k == Skip(current)
<1>1. /\ Len(input) \in Nat /\ DOMAIN input = 1..Len(input)
      /\ current \in 1..(Len(input) + 1) /\ current \in Nat
  BY CursorIs
<1>2. k \in current..(Len(input) + 1) BY <1>1, SkipIs
<1>3. Raw(k) # "EndOfFile" /\ current' = k + 1 /\ nodes' = Feed(nodes, current, k)
  BY DEF ReadToken, NothingLeft, Peek
<1> HIDE DEF k
<1>4. k \in DOMAIN input BY <1>3 DEF Raw
<1>5. k \in Int /\ k >= current - 1 /\ k + 1 \in 1..(Len(input) + 1) BY <1>1, <1>2, <1>4
<1>6. TreeOK(input, k + 1, nodes', marks) /\ Len(nodes') = Len(nodes)
  BY <1>3, <1>5, TreeRead
<1>7. CursorOK(input, k + 1) BY <1>5 DEF CursorOK
<1> QED BY <1>3, <1>6, <1>7, AbsSame

(* skip_whitespace().                                                      *)
LEMMA SkipWhitespaceOK ==
  ASSUME CursorOK(input, current), TreeOK(input, current, nodes, marks), SkipWhitespace
  PROVE  /\ CursorOK(input, current') /\ TreeOK(input, current', nodes', marks)
         /\ Abs(nodes', marks) = Abs(nodes, marks)
BY SkippedOK DEF SkipWhitespace

-----------------------------------------------------------------------------
(* What is left to do.                                                     *)
LEMMA TodoFirst ==
  ASSUME TodoOK(todo, nodes, marks), todo # <<>>
  PROVE  \E u, t : /\ u \in State /\ Good(Head(todo), Abs(nodes, marks), u)
                    /\ Typed(Tail(todo), u, t) /\ Abs(nodes, marks) \in State
<1>1. PICK t : Typed(todo, Abs(nodes, marks), t) BY Zenon DEF TodoOK
<1>2. \E u \in State : Good(Head(todo), Abs(nodes, marks), u) /\ Typed(Tail(todo), u, t)
  BY <1>1, TypedFirst
<1>3. Abs(nodes, marks) \in State BY <1>1, TypedFirst
<1> QED BY <1>2, <1>3, Zenon

(* A program, and then what was left to do.                                *)
LEMMA TodoNext ==
  ASSUME NEW ns, NEW ms, NEW q, NEW rest, NEW s, NEW u, NEW t, Typed(q, s, u),
         Typed(rest, u, t), Abs(ns, ms) = s
  PROVE  TodoOK(q \o rest, ns, ms)
<1>1. Typed(q \o rest, s, t) BY TypedConcat
<1> QED BY <1>1, Zenon DEF TodoOK

(* Nothing, and then that.                                                 *)
LEMMA TodoTail ==
  ASSUME NEW ns, NEW ms, NEW rest, NEW u, NEW t, Typed(rest, u, t), Abs(ns, ms) = u
  PROVE  TodoOK(<<>> \o rest, ns, ms)
<1>1. u \in State BY TypedFirst
<1>2. Typed(<<>>, u, u) BY <1>1, TypedEmpty
<1> QED BY <1>2, TodoNext

LEMMA GoesOn ==
  ASSUME NEW program, Goto(program)
  PROVE  todo' = program \o Tail(todo)
BY DEF Goto

LEMMA RunningIs ==
  ASSUME NEW op, Running(op)
  PROVE  todo # <<>> /\ Head(todo).op = op
BY DEF Running

-----------------------------------------------------------------------------
(* Tree nodes.                                                             *)
LEMMA StartNodeInv == ASSUME IInv, StartNodeStep PROVE IInv'
<1>1. CursorOK(input, current) /\ TreeOK(input, current, nodes, marks)
      /\ TodoOK(todo, nodes, marks) /\ ReportOK(input, errors, poisoned, modifiers, status)
  BY DEF IInv
<1>2. /\ Running("start") /\ Goto(<<>>) /\ current' = Skip(current)
      /\ nodes' = StartNode(Skipped, Head(todo).kind)
      /\ input' = input /\ marks' = marks /\ errors' = errors /\ poisoned' = poisoned
      /\ modifiers' = modifiers /\ status' = status
  BY DEF StartNodeStep
<1>3. todo # <<>> /\ Head(todo).op = "start" /\ todo' = <<>> \o Tail(todo)
  BY <1>2, RunningIs, GoesOn
<1>4. PICK u, t : u \in State /\ Good(Head(todo), Abs(nodes, marks), u) /\ Typed(Tail(todo), u, t)
  BY <1>1, <1>3, TodoFirst
<1>5. Head(todo).kind \in NodeKinds /\ u = Deeper(Abs(nodes, marks))
  BY <1>3, <1>4, GoodOf
<1>6. /\ CursorOK(input, Skip(current)) /\ TreeOK(input, Skip(current), Skipped, marks)
      /\ Abs(Skipped, marks) = Abs(nodes, marks)
  BY <1>1, SkippedOK
<1>7. Builder(Skipped, marks) BY <1>6 DEF TreeOK
<1>8. /\ Builder(nodes', marks) /\ Len(nodes') = Len(Skipped) + 1
      /\ Leaves(nodes') = Leaves(Skipped)
  BY <1>2, <1>5, <1>7, BuilderStart
<1>9. TreeOK(input', current', nodes', marks') BY <1>2, <1>6, <1>8, TreeSame
<1>10. Abs(nodes', marks') = u BY <1>2, <1>5, <1>6, <1>8, AbsStart
<1>11. TodoOK(todo', nodes', marks') BY <1>3, <1>4, <1>10, TodoTail
<1> QED BY <1>1, <1>2, <1>6, <1>9, <1>11 DEF IInv

(* What holds before an instruction is executed.                           *)
LEMMA Begins ==
  ASSUME IInv, NEW op, Running(op)
  PROVE  /\ CursorOK(input, current) /\ TreeOK(input, current, nodes, marks)
         /\ ReportOK(input, errors, poisoned, modifiers, status) /\ Builder(nodes, marks)
         /\ todo # <<>> /\ Head(todo).op = op /\ Abs(nodes, marks) \in State
         /\ \E u, t : u \in State /\
               Good(Head(todo), Abs(nodes, marks), u) /\ Typed(Tail(todo), u, t)
<1>1. CursorOK(input, current) /\ TreeOK(input, current, nodes, marks)
      /\ TodoOK(todo, nodes, marks) /\ ReportOK(input, errors, poisoned, modifiers, status)
  BY DEF IInv
<1>2. Builder(nodes, marks) BY <1>1 DEF TreeOK
<1>3. todo # <<>> /\ Head(todo).op = op BY RunningIs
<1>4. Abs(nodes, marks) \in State BY <1>2, AbsState
<1>5. \E u, t : u \in State /\ Good(Head(todo), Abs(nodes, marks), u) /\ Typed(Tail(todo), u, t)
  BY <1>1, <1>3, TodoFirst, Zenon
<1> QED BY <1>1, <1>2, <1>3, <1>4, <1>5, Zenon

(* What an action leaves alone that only reads tokens.                     *)
Quiet == /\ input' = input /\ errors' = errors /\ poisoned' = poisoned
         /\ modifiers' = modifiers /\ status' = status

(* An action that reads tokens, and goes on with a program that fits.      *)
LEMMA Continues ==
  ASSUME CursorOK(input, current'), TreeOK(input, current', nodes', marks'),
         input' = input, ReportOK(input, errors', poisoned', modifiers', status'),
         TodoOK(todo', nodes', marks')
  PROVE  IInv'
BY DEF IInv

LEMMA StartNodeAtInv == ASSUME IInv, StartNodeAtStep PROVE IInv'
<1>0. Running("start_at") BY DEF StartNodeAtStep
<1> DEFINE opened == StartNodeAt(nodes, Head(todo).kind, Last(marks))
<1>1. /\ CursorOK(input, current) /\ TreeOK(input, current, nodes, marks)
      /\ ReportOK(input, errors, poisoned, modifiers, status) /\ Builder(nodes, marks)
      /\ todo # <<>> /\ Head(todo).op = "start_at"
  BY <1>0, Begins
<1>2. PICK u, t : u \in State /\ Good(Head(todo), Abs(nodes, marks), u) /\ Typed(Tail(todo), u, t)
  BY <1>0, Begins, Zenon
<1>3. /\ Goto(<<>>) /\ current' = Skip(current)
      /\ nodes' = Feed(opened, current, Skip(current) - 1)
      /\ marks' = marks /\ Quiet
  BY DEF StartNodeAtStep, Quiet
<1>4. /\ Head(todo).kind \in NodeKinds /\ Abs(nodes, marks).marks # <<>>
      /\ u = Deeper(Abs(nodes, marks))
  BY <1>1, <1>2, GoodOf
<1>5. marks # <<>> BY <1>1, <1>4, AbsMarks
<1>6. Builder(opened, marks) /\ Len(opened) = Len(nodes) + 1 /\ Leaves(opened) = Leaves(nodes)
  BY <1>1, <1>4, <1>5, BuilderStartAt
<1> HIDE DEF opened
<1>7. TreeOK(input, current, opened, marks) BY <1>1, <1>6, TreeSame
<1>8. /\ Skip(current) - 1 \in Int /\ Skip(current) - 1 >= current - 1
      /\ (Skip(current) - 1) + 1 = Skip(current)
  <2>1. /\ Len(input) \in Nat /\ DOMAIN input = 1..Len(input)
        /\ current \in 1..(Len(input) + 1)
    BY <1>1, CursorIs
  <2>2. Skip(current) \in current..(Len(input) + 1) BY <2>1, SkipIs
  <2> QED BY <2>1, <2>2
<1>9. TreeOK(input, Skip(current), nodes', marks) /\ Len(nodes') = Len(opened)
  <2>1. TreeOK(input, (Skip(current) - 1) + 1, nodes', marks) /\ Len(nodes') = Len(opened)
    BY <1>1, <1>3, <1>7, <1>8, TreeRead
  <2> QED BY <2>1, <1>8
<1>10. CursorOK(input, Skip(current)) BY <1>1, SkippedOK
<1>11. Abs(nodes', marks') = u BY <1>3, <1>4, <1>6, <1>9, AbsStart
<1>12. todo' = <<>> \o Tail(todo) BY <1>3, GoesOn
<1>13. TodoOK(todo', nodes', marks') BY <1>2, <1>11, <1>12, TodoTail
<1>14. ReportOK(input, errors', poisoned', modifiers', status') BY <1>1, <1>3 DEF Quiet
<1> QED BY <1>3, <1>9, <1>10, <1>13, <1>14, Continues DEF Quiet

LEMMA EndNodeInv == ASSUME IInv, EndNodeStep PROVE IInv'
<1>0. Running("end") BY DEF EndNodeStep
<1>1. /\ CursorOK(input, current) /\ TreeOK(input, current, nodes, marks)
      /\ ReportOK(input, errors, poisoned, modifiers, status) /\ Builder(nodes, marks)
      /\ todo # <<>> /\ Head(todo).op = "end"
  BY <1>0, Begins
<1>2. PICK u, t : u \in State /\ Good(Head(todo), Abs(nodes, marks), u) /\ Typed(Tail(todo), u, t)
  BY <1>0, Begins, Zenon
<1>3. /\ Goto(<<>>) /\ nodes' = EndNode(nodes) /\ current' = current
      /\ marks' = marks /\ Quiet
  BY DEF EndNodeStep, Quiet
<1>4. CanEnd(Abs(nodes, marks)) /\ u = Shallower(Abs(nodes, marks))
  BY <1>1, <1>2, GoodOf
<1>5. Len(nodes) > 1 /\ \A i \in 1..Len(marks) : marks[i].node < Len(nodes)
  BY <1>1, <1>4, AbsCanEnd
<1>6. /\ Builder(nodes', marks) /\ Len(nodes') = Len(nodes) - 1
      /\ Leaves(nodes') = Leaves(nodes)
  BY <1>1, <1>3, <1>5, BuilderEnd
<1>7. TreeOK(input, current', nodes', marks') BY <1>1, <1>3, <1>6, TreeSame
<1>8. Abs(nodes', marks') = u BY <1>3, <1>4, <1>6, AbsEnd
<1>9. todo' = <<>> \o Tail(todo) BY <1>3, GoesOn
<1>10. TodoOK(todo', nodes', marks') BY <1>2, <1>8, <1>9, TodoTail
<1>11. ReportOK(input, errors', poisoned', modifiers', status') BY <1>1, <1>3 DEF Quiet
<1> QED BY <1>1, <1>3, <1>7, <1>10, <1>11, Continues DEF Quiet

LEMMA MarkInv == ASSUME IInv, MarkStep PROVE IInv'
<1>0. Running("mark") BY DEF MarkStep
<1>1. /\ CursorOK(input, current) /\ TreeOK(input, current, nodes, marks)
      /\ ReportOK(input, errors, poisoned, modifiers, status) /\ Builder(nodes, marks)
      /\ todo # <<>> /\ Head(todo).op = "mark"
  BY <1>0, Begins
<1>2. PICK u, t : u \in State /\ Good(Head(todo), Abs(nodes, marks), u) /\ Typed(Tail(todo), u, t)
  BY <1>0, Begins, Zenon
<1>3. /\ Goto(<<>>) /\ marks' = Append(marks, Checkpoint(nodes)) /\ current' = current
      /\ nodes' = nodes /\ Quiet
  BY DEF MarkStep, Quiet
<1>4. u = Marked(Abs(nodes, marks)) BY <1>1, <1>2, GoodOf
<1>5. Builder(nodes, marks') BY <1>1, <1>3, BuilderMark
<1>6. TreeOK(input, current', nodes', marks') BY <1>1, <1>3, <1>5, TreeSame
<1>7. Abs(nodes', marks') = u BY <1>1, <1>3, <1>4, AbsMark
<1>8. todo' = <<>> \o Tail(todo) BY <1>3, GoesOn
<1>9. TodoOK(todo', nodes', marks') BY <1>2, <1>7, <1>8, TodoTail
<1>10. ReportOK(input, errors', poisoned', modifiers', status') BY <1>1, <1>3 DEF Quiet
<1> QED BY <1>1, <1>3, <1>6, <1>9, <1>10, Continues DEF Quiet

LEMMA UnmarkInv == ASSUME IInv, UnmarkStep PROVE IInv'
<1>0. Running("unmark") BY DEF UnmarkStep
<1>1. /\ CursorOK(input, current) /\ TreeOK(input, current, nodes, marks)
      /\ ReportOK(input, errors, poisoned, modifiers, status) /\ Builder(nodes, marks)
      /\ todo # <<>> /\ Head(todo).op = "unmark"
  BY <1>0, Begins
<1>2. PICK u, t : u \in State /\ Good(Head(todo), Abs(nodes, marks), u) /\ Typed(Tail(todo), u, t)
  BY <1>0, Begins, Zenon
<1>3. /\ Goto(<<>>) /\ marks' = Front(marks) /\ current' = current
      /\ nodes' = nodes /\ Quiet
  BY DEF UnmarkStep, Quiet
<1>4. Abs(nodes, marks).marks # <<>> /\ u = Unmarked(Abs(nodes, marks))
  BY <1>1, <1>2, GoodOf
<1>5. marks # <<>> BY <1>1, <1>4, AbsMarks
<1>6. Builder(nodes, marks') BY <1>1, <1>3, <1>5, BuilderUnmark
<1>7. TreeOK(input, current', nodes', marks') BY <1>1, <1>3, <1>6, TreeSame
<1>8. Abs(nodes', marks') = u BY <1>1, <1>3, <1>4, <1>5, AbsUnmark
<1>9. todo' = <<>> \o Tail(todo) BY <1>3, GoesOn
<1>10. TodoOK(todo', nodes', marks') BY <1>2, <1>8, <1>9, TodoTail
<1>11. ReportOK(input, errors', poisoned', modifiers', status') BY <1>1, <1>3 DEF Quiet
<1> QED BY <1>1, <1>3, <1>7, <1>10, <1>11, Continues DEF Quiet

-----------------------------------------------------------------------------
(* Reading tokens.                                                         *)
LEMMA CrashInv == ASSUME IInv, Crash PROVE IInv'
<1>1. CursorOK(input, current) /\ TreeOK(input, current, nodes, marks)
      /\ TodoOK(todo, nodes, marks) /\ ReportOK(input, errors, poisoned, modifiers, status)
  BY DEF IInv
<1>2. /\ input' = input /\ current' = current /\ nodes' = nodes /\ marks' = marks
      /\ todo' = todo /\ errors' = errors /\ poisoned' = poisoned
      /\ modifiers' = modifiers /\ status' = "crashed"
  BY DEF Crash
<1>3. ReportOK(input, errors', poisoned', modifiers', status')
  BY <1>1, <1>2 DEF ReportOK
<1>4. TodoOK(todo', nodes', marks') BY <1>1, <1>2
<1> QED BY <1>1, <1>2, <1>3, <1>4, Continues

(* What the cursor may do in an action that moves it.                      *)
Moved == /\ CursorOK(input, current') /\ TreeOK(input, current', nodes', marks)
         /\ Abs(nodes', marks) = Abs(nodes, marks)

(* The ways an action moves the cursor.                                    *)
LEMMA MovedRead ==
  ASSUME CursorOK(input, current), TreeOK(input, current, nodes, marks),
         ReadToken \/ SkipWhitespace \/ (current' = current /\ nodes' = nodes)
         \/ (current' = current /\ nodes' = Skipped)
  PROVE  Moved
<1>1. CASE ReadToken BY <1>1, ReadTokenOK DEF Moved
<1>2. CASE SkipWhitespace BY <1>2, SkipWhitespaceOK DEF Moved
<1>3. CASE current' = current /\ nodes' = nodes BY <1>3 DEF Moved
<1>4. CASE current' = current /\ nodes' = Skipped BY <1>4, SkippedOK DEF Moved
<1> QED BY <1>1, <1>2, <1>3, <1>4

(* An action that goes on with a program of the right type keeps the       *)
(* invariant.                                                              *)
LEMMA Advances ==
  ASSUME Moved, marks' = marks, input' = input,
         ReportOK(input, errors', poisoned', modifiers', status'),
         NEW q, NEW u, NEW t, Typed(q, Abs(nodes, marks), u), Typed(Tail(todo), u, t),
         Goto(q)
  PROVE  IInv'
<1>1. todo' = q \o Tail(todo) BY GoesOn
<1>2. Abs(nodes', marks') = Abs(nodes, marks) BY DEF Moved
<1>3. TodoOK(todo', nodes', marks') BY <1>1, <1>2, TodoNext
<1> QED BY <1>3, Continues DEF Moved

(* An instruction that branches.                                           *)
LEMMA BranchInv ==
  ASSUME IInv, NEW op \in BranchOps, Running(op), Moved, marks' = marks, input' = input,
         ReportOK(input, errors', poisoned', modifiers', status'),
         NEW kind, Goto(Arm(Head(todo).arms, Head(todo).other, kind))
  PROVE  IInv'
<1>1. Head(todo).op = op BY Begins
<1>2. PICK u, t : u \in State /\ Good(Head(todo), Abs(nodes, marks), u) /\ Typed(Tail(todo), u, t)
  BY Begins, Zenon
<1>3. Typed(Arm(Head(todo).arms, Head(todo).other, kind), Abs(nodes, marks), u)
  BY <1>1, <1>2, TypedArm
<1> QED BY <1>2, <1>3, Advances

LEMMA AdvanceInv == ASSUME IInv, AdvanceStep PROVE IInv'
<1>0. Running("advance") BY DEF AdvanceStep
<1>1. CASE Crash BY <1>1, CrashInv
<1>2. CASE /\ ReadToken /\ Goto(Arm(Head(todo).arms, Head(todo).other, Peek))
           /\ UNCHANGED <<input, marks, errors, poisoned, modifiers, status>>
  <2>1. /\ CursorOK(input, current) /\ TreeOK(input, current, nodes, marks)
        /\ ReportOK(input, errors, poisoned, modifiers, status)
    BY <1>0, Begins
  <2>2. Moved BY <1>2, <2>1, MovedRead
  <2>3. "advance" \in BranchOps BY DEF BranchOps
  <2>4. ReportOK(input, errors', poisoned', modifiers', status') BY <1>2, <2>1
  <2> QED BY <1>0, <1>2, <2>2, <2>3, <2>4, BranchInv
<1> QED BY <1>1, <1>2 DEF AdvanceStep

LEMMA AdvanceCheckedInv == ASSUME IInv, AdvanceCheckedStep PROVE IInv'
<1>0. /\ Running("checked") /\ Goto(Arm(Head(todo).arms, Head(todo).other, Peek))
      /\ input' = input /\ marks' = marks /\ errors' = errors /\ poisoned' = poisoned
      /\ modifiers' = modifiers /\ status' = status
      /\ ReadToken \/ (current' = current /\ nodes' = nodes)
  BY DEF AdvanceCheckedStep
<1>1. /\ CursorOK(input, current) /\ TreeOK(input, current, nodes, marks)
      /\ ReportOK(input, errors, poisoned, modifiers, status)
  BY <1>0, Begins
<1>2. Moved BY <1>0, <1>1, MovedRead
<1>3. "checked" \in BranchOps BY DEF BranchOps
<1>4. ReportOK(input, errors', poisoned', modifiers', status') BY <1>0, <1>1
<1> QED BY <1>0, <1>2, <1>3, <1>4, BranchInv

(* An instruction that leaves the shape alone, and goes on with a program  *)
(* that does.                                                              *)
LEMMA SimpleInv ==
  ASSUME IInv, NEW op \in SimpleOps, Running(op), Moved, marks' = marks, input' = input,
         ReportOK(input, errors', poisoned', modifiers', status'),
         NEW q, Goto(q), Typed(q, Abs(nodes, marks), Abs(nodes, marks))
  PROVE  IInv'
<1>1. Head(todo).op = op BY Begins
<1>2. PICK u, t : u \in State /\ Good(Head(todo), Abs(nodes, marks), u) /\ Typed(Tail(todo), u, t)
  BY Begins, Zenon
<1>3. u = Abs(nodes, marks) BY <1>1, <1>2, GoodOf
<1> QED BY <1>2, <1>3, Advances

LEMMA ConsumeInv == ASSUME IInv, ConsumeStep PROVE IInv'
<1> DEFINE q == IF Peek = Head(todo).kind THEN <<>> ELSE Fail
<1>0. /\ Running("consume") /\ Goto(q)
      /\ input' = input /\ marks' = marks /\ errors' = errors /\ poisoned' = poisoned
      /\ modifiers' = modifiers /\ status' = status
      /\ ReadToken \/ (current' = current /\ nodes' = nodes)
  BY DEF ConsumeStep
<1>1. /\ CursorOK(input, current) /\ TreeOK(input, current, nodes, marks)
      /\ ReportOK(input, errors, poisoned, modifiers, status) /\ Abs(nodes, marks) \in State
  BY <1>0, Begins
<1>2. Moved BY <1>0, <1>1, MovedRead
<1>3. "consume" \in SimpleOps BY DEF SimpleOps
<1>4. Typed(q, Abs(nodes, marks), Abs(nodes, marks))
  <2>1. Keeps(<<>>) /\ Keeps(Fail) BY KeepsEmpty, KeepsInstructions
  <2> QED BY <2>1, <1>1 DEF Keeps
<1>5. ReportOK(input, errors', poisoned', modifiers', status') BY <1>0, <1>1
<1> HIDE DEF q
<1> QED BY <1>0, <1>2, <1>3, <1>4, <1>5, SimpleInv

LEMMA ConsumeEitherInv == ASSUME IInv, ConsumeEitherStep PROVE IInv'
<1> DEFINE q == IF Peek \in Head(todo).kinds THEN Advance ELSE Fail
<1>0. /\ Running("either") /\ Goto(q)
      /\ input' = input /\ marks' = marks /\ errors' = errors /\ poisoned' = poisoned
      /\ modifiers' = modifiers /\ status' = status /\ SkipWhitespace
  BY DEF ConsumeEitherStep
<1>1. /\ CursorOK(input, current) /\ TreeOK(input, current, nodes, marks)
      /\ ReportOK(input, errors, poisoned, modifiers, status) /\ Abs(nodes, marks) \in State
  BY <1>0, Begins
<1>2. Moved BY <1>0, <1>1, MovedRead
<1>3. "either" \in SimpleOps BY DEF SimpleOps
<1>4. Typed(q, Abs(nodes, marks), Abs(nodes, marks))
  <2>1. Keeps(Advance) /\ Keeps(Fail) BY KeepsAdvance, KeepsInstructions
  <2> QED BY <2>1, <1>1 DEF Keeps
<1>5. ReportOK(input, errors', poisoned', modifiers', status') BY <1>0, <1>1
<1> HIDE DEF q
<1> QED BY <1>0, <1>2, <1>3, <1>4, <1>5, SimpleInv

LEMMA ErrorAtCurrentInv == ASSUME IInv, ErrorAtCurrent PROVE IInv'
<1>0. /\ Running("fail") /\ Goto(<<>>)
      /\ input' = input /\ marks' = marks /\ modifiers' = modifiers /\ status' = status
  BY DEF ErrorAtCurrent
<1>1. /\ CursorOK(input, current) /\ TreeOK(input, current, nodes, marks)
      /\ ReportOK(input, errors, poisoned, modifiers, status) /\ Abs(nodes, marks) \in State
  BY <1>0, Begins
<1>2. \/ /\ ReadToken \/ (current' = current /\ nodes' = nodes)
         /\ errors' = errors /\ poisoned' = poisoned
      \/ /\ current' = current /\ nodes' = nodes
         /\ errors' = Append(errors, current) /\ poisoned' = TRUE
  BY DEF ErrorAtCurrent, Report
<1>3. Moved BY <1>1, <1>2, MovedRead
<1>4. "fail" \in SimpleOps BY DEF SimpleOps
<1>5. Typed(<<>>, Abs(nodes, marks), Abs(nodes, marks)) BY <1>1, TypedEmpty
<1>6. ReportOK(input, errors', poisoned', modifiers', status')
  <2>1. current \in 1..(Len(input) + 1) BY <1>1 DEF CursorOK
  <2>2. /\ errors \in Seq(1..(Len(input) + 1)) /\ poisoned \in BOOLEAN
        /\ modifiers \in Seq(MODIFIERS) /\ status \in {"running", "parsed", "crashed"}
    BY <1>1, Zenon DEF ReportOK
  <2>3. errors' \in Seq(1..(Len(input) + 1))
    <3>1. Append(errors, current) \in Seq(1..(Len(input) + 1))
      BY <2>1, <2>2, AppendProperties
    <3> QED BY <3>1, <2>2, <1>2, Zenon
  <2>4. poisoned' \in BOOLEAN BY <2>2, <1>2, Zenon
  <2> QED BY <2>2, <2>3, <2>4, <1>0, Zenon DEF ReportOK
<1> QED BY <1>0, <1>3, <1>4, <1>5, <1>6, SimpleInv

-----------------------------------------------------------------------------
(* Looking at tokens.                                                      *)
LEMMA PeekInv == ASSUME IInv, PeekStep PROVE IInv'
<1>0. /\ Running("peek") /\ Goto(Arm(Head(todo).arms, Head(todo).other, Peek))
      /\ input' = input /\ marks' = marks /\ errors' = errors /\ poisoned' = poisoned
      /\ modifiers' = modifiers /\ status' = status /\ SkipWhitespace
  BY DEF PeekStep
<1>1. /\ CursorOK(input, current) /\ TreeOK(input, current, nodes, marks)
      /\ ReportOK(input, errors, poisoned, modifiers, status)
  BY <1>0, Begins
<1>2. Moved BY <1>0, <1>1, MovedRead
<1>3. "peek" \in BranchOps BY DEF BranchOps
<1>4. ReportOK(input, errors', poisoned', modifiers', status') BY <1>0, <1>1
<1> QED BY <1>0, <1>2, <1>3, <1>4, BranchInv

LEMMA PeekNextInv == ASSUME IInv, PeekNextStep PROVE IInv'
<1>0. /\ Running("next") /\ Goto(Arm(Head(todo).arms, Head(todo).other, PeekNext))
      /\ input' = input /\ marks' = marks /\ errors' = errors /\ poisoned' = poisoned
      /\ modifiers' = modifiers /\ status' = status
      /\ current' = current /\ nodes' = Skipped
  BY DEF PeekNextStep
<1>1. /\ CursorOK(input, current) /\ TreeOK(input, current, nodes, marks)
      /\ ReportOK(input, errors, poisoned, modifiers, status)
  BY <1>0, Begins
<1>2. Moved BY <1>0, <1>1, MovedRead
<1>3. "next" \in BranchOps BY DEF BranchOps
<1>4. ReportOK(input, errors', poisoned', modifiers', status') BY <1>0, <1>1
<1> QED BY <1>0, <1>2, <1>3, <1>4, BranchInv

LEMMA MatchesInv == ASSUME IInv, MatchesStep PROVE IInv'
<1> DEFINE q == IF Peek = Head(todo).kind THEN Head(todo).yes ELSE Head(todo).no
<1>0. /\ Running("match") /\ Goto(q)
      /\ input' = input /\ marks' = marks /\ errors' = errors /\ poisoned' = poisoned
      /\ modifiers' = modifiers /\ status' = status
      /\ (ReadToken \/ SkipWhitespace)
  BY DEF MatchesStep
<1>1. /\ CursorOK(input, current) /\ TreeOK(input, current, nodes, marks)
      /\ ReportOK(input, errors, poisoned, modifiers, status) /\ Head(todo).op = "match"
  BY <1>0, Begins
<1>2. PICK u, t : u \in State /\ Good(Head(todo), Abs(nodes, marks), u) /\ Typed(Tail(todo), u, t)
  BY <1>0, Begins, Zenon
<1>3. Moved BY <1>0, <1>1, MovedRead
<1>4. Typed(q, Abs(nodes, marks), u)
  <2>1. Typed(Head(todo).yes, Abs(nodes, marks), u) /\ Typed(Head(todo).no, Abs(nodes, marks), u)
    BY <1>1, <1>2, GoodOf
  <2> QED BY <2>1
<1> HIDE DEF q
<1>5. ReportOK(input, errors', poisoned', modifiers', status') BY <1>0, <1>1
<1> QED BY <1>0, <1>2, <1>3, <1>4, <1>5, Advances

(* An instruction that reads nothing.                                      *)
LEMMA Unmoved ==
  ASSUME IInv, current' = current, nodes' = nodes
  PROVE  Moved
<1>1. CursorOK(input, current) /\ TreeOK(input, current, nodes, marks) BY DEF IInv
<1> QED BY <1>1, MovedRead

(* A panic of advance_checked.                                             *)
LEMMA CrashInAdvanceCheckedInv == ASSUME IInv, CrashInAdvanceChecked PROVE IInv'
BY CrashInv DEF CrashInAdvanceChecked

(* The skipped tokens before a position, as children of a node.            *)
Spaces == {i \in Nat : Raw(i) = "ws"}
SpaceTokens == {Token(i) : i \in Spaces}

(* Skipped tokens, as children of a node.                                  *)
LEMMA SpaceTokensAre ==
  ASSUME NEW tokens \in Seq(SpaceTokens)
  PROVE  /\ tokens \in Seq(Child)
         /\ \A i \in 1..Len(tokens) : tokens[i].kind = "token" /\ Len(tokens[i].leaves) = 1
         /\ LeavesOf(tokens) \in Seq(Spaces)
<1>1. \A i \in 1..Len(tokens) : \E j \in Spaces : tokens[i] = Token(j)
  BY DEF SpaceTokens
<1>2. \A j \in Spaces : /\ Token(j) \in Child /\ Token(j).kind = "token"
                        /\ Len(Token(j).leaves) = 1 /\ Token(j).leaves \in Seq(Spaces)
  <2> TAKE j \in Spaces
  <2>1. j \in Nat BY DEF Spaces
  <2>2. Token(j) \in Child BY <2>1, TokenType
  <2>3. Token(j).kind = "token" /\ Token(j).leaves = <<j>> BY DEF Token
  <2> HIDE DEF Spaces
  <2>4. <<j>> \in Seq(Spaces) /\ Len(<<j>>) = 1 OBVIOUS
  <2> QED BY <2>2, <2>3, <2>4
<1> HIDE DEF Spaces
<1>3. \A i \in 1..Len(tokens) : /\ tokens[i] \in Child /\ tokens[i].kind = "token"
                                /\ Len(tokens[i].leaves) = 1 /\ tokens[i].leaves \in Seq(Spaces)
  BY <1>1, <1>2
<1>4. tokens \in Seq(Child)
  <2>1. Len(tokens) \in Nat /\ tokens = [i \in 1..Len(tokens) |-> tokens[i]] OBVIOUS
  <2> QED BY <2>1, <1>3
<1>5. LeavesSeq(tokens) \in Seq(Seq(Spaces))
  <2>1. /\ Len(LeavesSeq(tokens)) = Len(tokens) /\ Len(tokens) \in Nat
        /\ \A i \in 1..Len(tokens) : LeavesSeq(tokens)[i] = tokens[i].leaves
        /\ LeavesSeq(tokens) \in Seq(Seq(Nat))
    BY <1>4, LeavesSeqType
  <2> DEFINE s == LeavesSeq(tokens)
  <2>2. s = [i \in 1..Len(s) |-> s[i]]
    <3> HIDE DEF s
    <3> QED BY <2>1 DEF s
  <2>3. \A i \in 1..Len(s) : s[i] \in Seq(Spaces) BY <2>1, <1>3
  <2>4. Len(s) \in Nat BY <2>1
  <2> HIDE DEF s
  <2>5. s \in Seq(Seq(Spaces)) BY <2>2, <2>3, <2>4
  <2> QED BY <2>5 DEF s
<1>6. LeavesOf(tokens) \in Seq(Spaces) BY <1>5, FlattenType DEF LeavesOf
<1> QED BY <1>3, <1>4, <1>6

(* peek_past_modifiers.                                                    *)
LEMMA PeekPastInv == ASSUME IInv, PeekPastModifiers PROVE IInv'
<1> DEFINE skipped(i) == IF Raw(i) = "ws" THEN <<Token(i)>> ELSE <<>>
           n == PastMods - current
           ss == [i \in 1..n |-> skipped(current + i - 1)]
           tokens == FlattenSeq(ss)
<1>0. /\ Running("past") /\ Goto(Arm(Head(todo).arms, Head(todo).other, Raw(PastMods)))
      /\ modifiers' = <<>> /\ nodes' = [nodes EXCEPT ![Len(nodes)] = WithTokens(@, tokens)]
      /\ input' = input /\ current' = current /\ marks' = marks /\ errors' = errors
      /\ poisoned' = poisoned /\ status' = status
  BY DEF PeekPastModifiers
<1>1. /\ CursorOK(input, current) /\ TreeOK(input, current, nodes, marks)
      /\ ReportOK(input, errors, poisoned, modifiers, status) /\ Builder(nodes, marks)
  BY <1>0, Begins
<1>2. /\ Len(input) \in Nat /\ DOMAIN input = 1..Len(input)
      /\ current \in 1..(Len(input) + 1) /\ current \in Nat
  BY <1>1, CursorIs
<1>3. n \in Nat BY <1>2, PastModsIs
<1>4. ss \in Seq(Seq(SpaceTokens))
  <2>1. \A i \in 1..n : skipped(current + i - 1) \in Seq(SpaceTokens)
    <3> TAKE i \in 1..n
    <3> DEFINE j == current + i - 1
    <3>1. j \in Nat BY <1>2, <1>3
    <3> HIDE DEF j
    <3>2. CASE Raw(j) = "ws"
      <4>1. Token(j) \in SpaceTokens BY <3>1, <3>2 DEF SpaceTokens, Spaces
      <4> HIDE DEF SpaceTokens
      <4>2. <<Token(j)>> \in Seq(SpaceTokens) BY <4>1
      <4> QED BY <4>2, <3>2 DEF j
    <3>3. CASE Raw(j) # "ws"
      <4>1. <<>> \in Seq(SpaceTokens) OBVIOUS
      <4> QED BY <4>1, <3>3 DEF j
    <3> QED BY <3>2, <3>3
  <2> DEFINE F(i) == skipped(current + i - 1)
  <2>2. ss = [i \in 1..n |-> F(i)] /\ \A i \in 1..n : F(i) \in Seq(SpaceTokens)
    BY <2>1
  <2> HIDE DEF ss, F, n
  <2> QED BY <2>2, <1>3
<1> HIDE DEF ss
<1>5. tokens \in Seq(SpaceTokens) BY <1>4, FlattenType
<1> HIDE DEF tokens
<1>6. /\ tokens \in Seq(Child)
      /\ \A i \in 1..Len(tokens) : tokens[i].kind = "token" /\ Len(tokens[i].leaves) = 1
      /\ LeavesOf(tokens) \in Seq(Spaces)
  BY <1>5, SpaceTokensAre
<1>7. /\ Builder(nodes', marks) /\ Len(nodes') = Len(nodes)
      /\ Leaves(nodes') = Leaves(nodes) \o LeavesOf(tokens)
  BY <1>0, <1>1, <1>6, BuilderTokens
<1>8. TreeOK(input, current, nodes', marks)
  <2> DEFINE more == LeavesOf(tokens)
  <2>0. Leaves(nodes') = Leaves(nodes) \o more BY <1>7
  <2>1. more \in Seq(Spaces) BY <1>6
  <2> HIDE DEF more
  <2>2. \A i \in 1..Len(more) : more[i] \in Spaces BY <2>1
  <2>3. more \in Seq(Nat)
    <3>1. Spaces \subseteq Nat BY DEF Spaces
    <3>2. Len(more) \in Nat /\ more = [i \in 1..Len(more) |-> more[i]] BY <2>1
    <3>3. \A i \in 1..Len(more) : more[i] \in Nat BY <2>2, <3>1
    <3> QED BY <3>2, <3>3
  <2>4. \A i \in 1..Len(more) : RawOf(input, more[i]) = "ws"
    BY <2>2 DEF Spaces, Raw, RawOf
  <2> QED BY <2>0, <2>3, <2>4, <1>1, <1>7, TreeSkip
<1>9. Abs(nodes', marks) = Abs(nodes, marks) BY <1>7, AbsSame
<1>10. Moved BY <1>0, <1>1, <1>8, <1>9 DEF Moved
<1>11. "past" \in BranchOps BY DEF BranchOps
<1>12. ReportOK(input, errors', poisoned', modifiers', status')
  <2>1. <<>> \in Seq(MODIFIERS) OBVIOUS
  <2> QED BY <2>1, <1>0, <1>1 DEF ReportOK
<1> QED BY <1>0, <1>10, <1>11, <1>12, BranchInv

-----------------------------------------------------------------------------
(* Loops.                                                                  *)
(* An instruction that keeps the shape, and goes on with a program that    *)
(* keeps it and perhaps the same instruction again.                        *)
LEMMA AgainInv ==
  ASSUME IInv, NEW op, Running(op), Moved, marks' = marks, input' = input,
         ReportOK(input, errors', poisoned', modifiers', status'),
         NEW q, Goto(q),
         \A s \in State : Good(Head(todo), s, s) => Typed(q, s, s),
         \A s, u : Good(Head(todo), s, u) => u = s
  PROVE  IInv'
<1>0. Abs(nodes, marks) \in State BY Begins
<1>1. PICK u, t : u \in State /\ Good(Head(todo), Abs(nodes, marks), u) /\ Typed(Tail(todo), u, t)
  BY Begins, Zenon
<1>2. u = Abs(nodes, marks) BY <1>1
<1>3. Typed(q, Abs(nodes, marks), u) BY <1>0, <1>1, <1>2
<1> QED BY <1>1, <1>3, Advances

LEMMA UntilInv == ASSUME IInv, UntilStep PROVE IInv'
<1> DEFINE q == IF Peek \in {Head(todo).kind, "EndOfFile"}
                THEN <<>> ELSE Head(todo).body \o <<Head(todo)>>
<1>0. /\ Running("until") /\ Goto(q)
      /\ input' = input /\ marks' = marks /\ errors' = errors /\ poisoned' = poisoned
      /\ modifiers' = modifiers /\ status' = status /\ SkipWhitespace
  BY DEF UntilStep
<1>1. /\ CursorOK(input, current) /\ TreeOK(input, current, nodes, marks)
      /\ ReportOK(input, errors, poisoned, modifiers, status) /\ Head(todo).op = "until"
  BY <1>0, Begins
<1>2. Moved BY <1>0, <1>1, MovedRead
<1>3. \A s, u : Good(Head(todo), s, u) => u = s /\ Typed(Head(todo).body, s, s)
  BY <1>1, GoodOf
<1>4. \A s \in State : Good(Head(todo), s, s) => Typed(q, s, s)
  <2> SUFFICES ASSUME NEW s \in State, Good(Head(todo), s, s) PROVE Typed(q, s, s) OBVIOUS
  <2>1. Typed(<<>>, s, s) BY TypedEmpty
  <2>2. Typed(<<Head(todo)>>, s, s) BY TypedOne
  <2>3. Typed(Head(todo).body \o <<Head(todo)>>, s, s) BY <1>3, <2>2, TypedConcat
  <2> QED BY <2>1, <2>3
<1> HIDE DEF q
<1>5. ReportOK(input, errors', poisoned', modifiers', status') BY <1>0, <1>1
<1> QED BY <1>0, <1>2, <1>3, <1>4, <1>5, AgainInv

LEMMA SeparatedInv == ASSUME IInv, SeparatedStep PROVE IInv'
<1> DEFINE q == Head(todo).item \o If("Comma", <<Head(todo)>>)
<1>0. /\ Running("separated") /\ Goto(q)
      /\ input' = input /\ marks' = marks /\ errors' = errors /\ poisoned' = poisoned
      /\ modifiers' = modifiers /\ status' = status /\ current' = current /\ nodes' = nodes
  BY DEF SeparatedStep
<1>1. ReportOK(input, errors, poisoned, modifiers, status) /\ Head(todo).op = "separated"
  BY <1>0, Begins
<1>2. Moved BY <1>0, Unmoved
<1>3. \A s, u : Good(Head(todo), s, u) => u = s /\ Typed(Head(todo).item, s, s)
  BY <1>1, GoodOf
<1>4. \A s \in State : Good(Head(todo), s, s) => Typed(q, s, s)
  <2> SUFFICES ASSUME NEW s \in State, Good(Head(todo), s, s) PROVE Typed(q, s, s) OBVIOUS
  <2>1. Typed(<<>>, s, s) BY TypedEmpty
  <2>2. Typed(<<Head(todo)>>, s, s) BY TypedOne
  <2>3. Typed(If("Comma", <<Head(todo)>>), s, s) BY <2>1, <2>2, TypedMatch, Zenon DEF If
  <2> QED BY <1>3, <2>3, TypedConcat
<1> HIDE DEF q
<1>5. ReportOK(input, errors', poisoned', modifiers', status') BY <1>0, <1>1
<1> QED BY <1>0, <1>2, <1>3, <1>4, <1>5, AgainInv

-----------------------------------------------------------------------------
(* Modifiers.                                                              *)
LEMMA ConsumeModifiersInv == ASSUME IInv, ConsumeModifiersStep PROVE IInv'
<1> DEFINE o == [op |-> "modifier"]
<1>0. /\ Running("modifiers") /\ Goto(<<o>>) /\ modifiers' = <<>>
      /\ input' = input /\ marks' = marks /\ errors' = errors /\ poisoned' = poisoned
      /\ status' = status /\ current' = current /\ nodes' = nodes
  BY DEF ConsumeModifiersStep
<1>1. ReportOK(input, errors, poisoned, modifiers, status) /\ Abs(nodes, marks) \in State
  BY <1>0, Begins
<1>2. Moved BY <1>0, Unmoved
<1>3. "modifiers" \in SimpleOps /\ o.op \in SimpleOps BY DEF SimpleOps
<1> HIDE DEF o
<1>4. Typed(<<o>>, Abs(nodes, marks), Abs(nodes, marks)) BY <1>1, <1>3, TypedSimple
<1>5. ReportOK(input, errors', poisoned', modifiers', status')
  <2>1. <<>> \in Seq(MODIFIERS) OBVIOUS
  <2> QED BY <2>1, <1>0, <1>1 DEF ReportOK
<1> QED BY <1>0, <1>2, <1>3, <1>4, <1>5, SimpleInv

(* One step of consume_modifiers.                                          *)
LEMMA ConsumeModifierInv == ASSUME IInv, ConsumeModifier PROVE IInv'
<1> DEFINE more == Node("Modifier", Advance) \o <<Head(todo)>>
           q == IF Peek \in MODIFIERS THEN more ELSE <<>>
<1>0. /\ Running("modifier") /\ Goto(q)
      /\ input' = input /\ marks' = marks /\ errors' = errors /\ poisoned' = poisoned
      /\ status' = status /\ SkipWhitespace
      /\ \/ Peek \in MODIFIERS /\ modifiers' = Append(modifiers, Peek)
         \/ Peek \notin MODIFIERS /\ modifiers' = modifiers
  BY DEF ConsumeModifier
<1>1. /\ CursorOK(input, current) /\ TreeOK(input, current, nodes, marks)
      /\ ReportOK(input, errors, poisoned, modifiers, status) /\ Abs(nodes, marks) \in State
      /\ Head(todo).op = "modifier"
  BY <1>0, Begins
<1>2. Moved BY <1>0, <1>1, MovedRead
<1>3. "modifier" \in SimpleOps BY DEF SimpleOps
<1>4. Typed(q, Abs(nodes, marks), Abs(nodes, marks))
  <2> DEFINE s == Abs(nodes, marks)
  <2>1. Typed(<<>>, s, s) BY <1>1, TypedEmpty
  <2>2. Typed(<<Head(todo)>>, s, s) BY <1>1, <1>3, TypedSimple
  <2>3. "Modifier" \in NodeKinds BY DEF NodeKinds
  <2>4. Typed(Node("Modifier", Advance), s, s)
    BY <2>3, KeepsNode, KeepsAdvance, <1>1, Zenon DEF Keeps
  <2>5. Typed(more, s, s) BY <2>2, <2>4, TypedConcat
  <2> QED BY <2>1, <2>5
<1> HIDE DEF q
<1>5. ReportOK(input, errors', poisoned', modifiers', status')
  <2>1. modifiers \in Seq(MODIFIERS) BY <1>1 DEF ReportOK
  <2>2. Peek \in MODIFIERS => Append(modifiers, Peek) \in Seq(MODIFIERS)
    BY <2>1, AppendProperties
  <2>3. modifiers' \in Seq(MODIFIERS) BY <1>0, <2>1, <2>2
  <2> QED BY <2>3, <1>0, <1>1, Zenon DEF ReportOK
<1> QED BY <1>0, <1>2, <1>3, <1>4, <1>5, SimpleInv

(* check_mods: an error for each modifier that is not allowed.             *)
LEMMA CheckModsInv == ASSUME IInv, CheckModsStep PROVE IInv'
<1> DEFINE bad == {m \in DOMAIN modifiers :
                      modifiers[m] \notin Head(todo).allowed \cup GLOBAL_MODIFIERS}
           q == [i \in 1..Cardinality(bad) |-> Fail[1]]
<1>0. /\ Running("check_mods") /\ Goto(q)
      /\ input' = input /\ marks' = marks /\ errors' = errors /\ poisoned' = poisoned
      /\ modifiers' = modifiers /\ status' = status /\ current' = current /\ nodes' = nodes
  BY DEF CheckModsStep
<1>1. ReportOK(input, errors, poisoned, modifiers, status) /\ Abs(nodes, marks) \in State
  BY <1>0, Begins
<1>2. Moved BY <1>0, Unmoved
<1>3. "check_mods" \in SimpleOps BY DEF SimpleOps
<1>4. Typed(q, Abs(nodes, marks), Abs(nodes, marks))
  <2>1. modifiers \in Seq(MODIFIERS) BY <1>1 DEF ReportOK
  <2>2. Len(modifiers) \in Nat /\ DOMAIN modifiers = 1..Len(modifiers) BY <2>1
  <2>3. IsFiniteSet(DOMAIN modifiers) BY <2>2, FS_Interval
  <2>4. bad \subseteq DOMAIN modifiers OBVIOUS
  <2> HIDE DEF bad
  <2>5. IsFiniteSet(bad) BY <2>3, <2>4, FS_Subset
  <2>6. Cardinality(bad) \in Nat BY <2>5, FS_CardinalityType
  <2>7. Fail[1] = [op |-> "fail"] BY DEF Fail
  <2> DEFINE o == [op |-> "fail"]
             n == Cardinality(bad)
             p == [i \in 1..n |-> o]
  <2>8. o.op \in SimpleOps BY DEF SimpleOps
  <2>9. q = p BY <2>7
  <2>10. n \in Nat BY <2>6
  <2> HIDE DEF o, n
  <2>11. p \in Seq({o}) /\ \A x \in {o} : x.op \in SimpleOps BY <2>8, <2>10
  <2> HIDE DEF p
  <2>12. Typed(p, Abs(nodes, marks), Abs(nodes, marks)) BY <1>1, <2>11, TypedSimples
  <2> QED BY <2>9, <2>12
<1> HIDE DEF q
<1>5. ReportOK(input, errors', poisoned', modifiers', status') BY <1>0, <1>1
<1> QED BY <1>0, <1>2, <1>3, <1>4, <1>5, SimpleInv

-----------------------------------------------------------------------------
(* Productions.                                                            *)
LEMMA CallProductionInv == ASSUME IInv, CallProduction PROVE IInv'
<1> DEFINE q == Body[Head(todo).name]
<1>0. /\ Running("do") /\ Goto(q)
      /\ input' = input /\ marks' = marks /\ errors' = errors /\ poisoned' = poisoned
      /\ modifiers' = modifiers /\ status' = status /\ current' = current /\ nodes' = nodes
  BY DEF CallProduction
<1>1. /\ ReportOK(input, errors, poisoned, modifiers, status) /\ Abs(nodes, marks) \in State
      /\ Head(todo).op = "do"
  BY <1>0, Begins
<1>2. Moved BY <1>0, Unmoved
<1>3. PICK u, t : u \in State /\ Good(Head(todo), Abs(nodes, marks), u) /\ Typed(Tail(todo), u, t)
  BY <1>0, Begins, Zenon
<1>4. Typed(q, Abs(nodes, marks), u)
  <2>1. \/ /\ Head(todo).name \in DOMAIN Body /\ Head(todo).name # "closure"
           /\ u = Abs(nodes, marks)
        \/ /\ Head(todo).name = "closure" /\ CanEnd(Abs(nodes, marks))
           /\ u = Shallower(Abs(nodes, marks))
    BY <1>1, <1>3, GoodOf
  <2>2. CASE /\ Head(todo).name \in DOMAIN Body /\ Head(todo).name # "closure"
             /\ u = Abs(nodes, marks)
    <3>1. Keeps(q) BY <2>2, BodyTyped, Zenon
    <3> QED BY <3>1, <2>2, <1>1, Zenon DEF Keeps
  <2>3. CASE /\ Head(todo).name = "closure" /\ CanEnd(Abs(nodes, marks))
             /\ u = Shallower(Abs(nodes, marks))
    <3>1. "closure" \in DOMAIN Body BY DEF Body
    <3>2. Shrinks(q) BY <3>1, <2>3, BodyTyped, Zenon
    <3> QED BY <3>2, <2>3, <1>1, Zenon DEF Shrinks
  <2> QED BY <2>1, <2>2, <2>3, Zenon
<1> HIDE DEF q
<1>5. ReportOK(input, errors', poisoned', modifiers', status') BY <1>0, <1>1
<1> QED BY <1>0, <1>2, <1>3, <1>4, <1>5, Advances

(* function: a signature, and a body unless it is extern.                  *)
LEMMA FunctionInv == ASSUME IInv, FunctionStep PROVE IInv'
<1>0. /\ Running("function")
      /\ \/ Goto(FuncSignature(Head(todo).mods) \o <<>>)
         \/ Goto(FuncSignature(Head(todo).mods) \o FunctionBody)
      /\ input' = input /\ marks' = marks /\ errors' = errors /\ poisoned' = poisoned
      /\ modifiers' = modifiers /\ status' = status /\ current' = current /\ nodes' = nodes
  BY Zenon DEF FunctionStep
<1>1. ReportOK(input, errors, poisoned, modifiers, status) /\ Abs(nodes, marks) \in State
  BY <1>0, Begins
<1>2. Moved BY <1>0, Unmoved
<1>3. "function" \in SimpleOps BY DEF SimpleOps
<1> DEFINE s == Abs(nodes, marks)
           sig == FuncSignature(Head(todo).mods)
<1>4. Keeps(sig \o <<>>) /\ Keeps(sig \o FunctionBody)
  BY KeepsFuncSignature, KeepsFunctionBody, KeepsEmpty, KeepsConcat, Zenon
<1>5. Typed(sig \o <<>>, s, s) /\ Typed(sig \o FunctionBody, s, s)
  BY <1>1, <1>4, Zenon DEF Keeps
<1>6. ReportOK(input, errors', poisoned', modifiers', status') BY <1>0, <1>1
<1>7. PICK q : Goto(q) /\ Typed(q, s, s) BY <1>0, <1>5, Zenon
<1> QED BY <1>0, <1>2, <1>3, <1>6, <1>7, SimpleInv

(* binary: the loop over infix operators.                                  *)
LEMMA InfixInv == ASSUME IInv, InfixStep PROVE IInv'
<1> DEFINE more(right) == Node("Operator", Advance) \o StartAt("BinaryExpr")
                          \o Binary(right) \o End \o <<Head(todo)>>
           right == InfixBindingPower[Peek].right
<1>0. /\ Running("infix") /\ (Goto(<<>>) \/ Goto(more(right)))
      /\ input' = input /\ marks' = marks /\ errors' = errors /\ poisoned' = poisoned
      /\ modifiers' = modifiers /\ status' = status /\ SkipWhitespace
  BY Zenon DEF InfixStep
<1>1. /\ CursorOK(input, current) /\ TreeOK(input, current, nodes, marks)
      /\ ReportOK(input, errors, poisoned, modifiers, status) /\ Head(todo).op = "infix"
  BY <1>0, Begins
<1>2. Moved BY <1>0, <1>1, MovedRead
<1>3. \A s, u : Good(Head(todo), s, u) => u = s /\ s.marks # <<>> BY <1>1, GoodOf
<1> HIDE DEF right
<1>4. ASSUME NEW s \in State, Good(Head(todo), s, s)
      PROVE  Typed(<<>>, s, s) /\ Typed(more(right), s, s)
  <2>1. Typed(<<>>, s, s) BY TypedEmpty
  <2>2. Typed(<<Head(todo)>>, s, s) BY <1>4, TypedOne
  <2>3. s.marks # <<>> BY <1>3, <1>4
  <2>4. Typed(more(right), s, s) BY <2>2, <2>3, TypedInfix
  <2> QED BY <2>1, <2>4
<1> HIDE DEF more
<1>5. ReportOK(input, errors', poisoned', modifiers', status') BY <1>0, <1>1
<1>6. PICK q : Goto(q) /\ \A s \in State : Good(Head(todo), s, s) => Typed(q, s, s)
  BY <1>0, <1>4, Zenon
<1> QED BY <1>0, <1>2, <1>3, <1>5, <1>6, AgainInv

(* call: the loop over what follows a callee.                              *)
LEMMA PostfixInv == ASSUME IInv, PostfixStep PROVE IInv'
<1> DEFINE form == PostfixForms[Peek]
           more == form \o <<Head(todo)>>
<1>0. /\ Running("postfix")
      /\ Goto(<<>>) \/ (Peek \in DOMAIN PostfixForms /\ Goto(more))
      /\ input' = input /\ marks' = marks /\ errors' = errors /\ poisoned' = poisoned
      /\ modifiers' = modifiers /\ status' = status /\ SkipWhitespace
  BY Zenon DEF PostfixStep
<1>1. /\ CursorOK(input, current) /\ TreeOK(input, current, nodes, marks)
      /\ ReportOK(input, errors, poisoned, modifiers, status) /\ Head(todo).op = "postfix"
  BY <1>0, Begins
<1>2. Moved BY <1>0, <1>1, MovedRead
<1>3. \A s, u : Good(Head(todo), s, u) => u = s /\ s.marks # <<>> BY <1>1, GoodOf
<1>4. Peek \in DOMAIN PostfixForms => KeepsM(form) BY KeepsMPostfixForms, Zenon
<1> HIDE DEF form
<1>5. ASSUME NEW s \in State, Good(Head(todo), s, s)
      PROVE  /\ Typed(<<>>, s, s)
             /\ Peek \in DOMAIN PostfixForms => Typed(more, s, s)
  <2>1. Typed(<<>>, s, s) BY TypedEmpty
  <2>2. Typed(<<Head(todo)>>, s, s) BY <1>5, TypedOne
  <2>3. s.marks # <<>> BY <1>3, <1>5
  <2>4. ASSUME Peek \in DOMAIN PostfixForms PROVE Typed(more, s, s)
    <3>1. Typed(form, s, s) BY <2>3, <2>4, <1>4, Zenon DEF KeepsM
    <3> QED BY <3>1, <2>2, TypedConcat, Zenon
  <2> QED BY <2>1, <2>4
<1> HIDE DEF more
<1>6. ReportOK(input, errors', poisoned', modifiers', status') BY <1>0, <1>1
<1>7. PICK q : Goto(q) /\ \A s \in State : Good(Head(todo), s, s) => Typed(q, s, s)
  BY <1>0, <1>5, Zenon
<1> QED BY <1>0, <1>2, <1>3, <1>6, <1>7, AgainInv

-----------------------------------------------------------------------------
(* The file.                                                               *)
(* "file" is what is left to do at the bottom only.                        *)
LEMMA TypedFile ==
  ASSUME NEW o, o.op = "file"
  PROVE  Typed(<<o>>, Done, Done)
<1>1. Moves({}, o, Done, Done) BY DEF Moves
<1>2. Done \in State
  <2>1. <<>> \in Seq(Depth) /\ Len(<<>>) = 0 OBVIOUS
  <2> QED BY <2>1 DEF Done, State, Shape, Depth
<1> QED BY <1>1, <1>2, TypedPlain

(* Two instructions are a program.                                         *)
LEMMA TwoInstructions == \A a, b : <<a>> \o <<b>> = <<a, b>>
<1> TAKE a, b
<1> DEFINE S == {a, b}
           l == <<a>> \o <<b>>
           r == <<a, b>>
<1>1. <<a>> \in Seq(S) /\ <<b>> \in Seq(S) /\ Len(<<a>>) = 1 /\ Len(<<b>>) = 1 OBVIOUS
<1>2. l \in Seq(S) /\ Len(l) = 2 /\ l[1] = a /\ l[2] = b
  <2>1. /\ Len(l) = 1 + 1 /\ l[1] = <<a>>[1] /\ l[1 + 1] = <<b>>[1] /\ l \in Seq(S)
    <3> HIDE DEF S
    <3> QED BY <1>1, ConcatAt
  <2> QED BY <2>1
<1>3. r \in Seq(S) /\ Len(r) = 2 /\ r[1] = a /\ r[2] = b OBVIOUS
<1> HIDE DEF l, r
<1>4. \A i \in 1..2 : l[i] = r[i] BY <1>2, <1>3
<1> QED BY <1>2, <1>3, <1>4, SeqEqual DEF l, r

(* The loop of parse().                                                    *)
LEMMA ParseDeclarationInv == ASSUME IInv, ParseDeclaration PROVE IInv'
<1> DEFINE o == [op |-> "depoison"]
           q == Do("declaration") \o <<o, Head(todo)>>
<1>0. /\ Running("file") /\ Goto(q)
      /\ input' = input /\ marks' = marks /\ errors' = errors /\ poisoned' = poisoned
      /\ modifiers' = modifiers /\ status' = status /\ SkipWhitespace
  BY DEF ParseDeclaration
<1>1. /\ CursorOK(input, current) /\ TreeOK(input, current, nodes, marks)
      /\ ReportOK(input, errors, poisoned, modifiers, status) /\ Abs(nodes, marks) \in State
      /\ Head(todo).op = "file"
  BY <1>0, Begins
<1>2. Moved BY <1>0, <1>1, MovedRead
<1>3. o.op \in SimpleOps BY DEF SimpleOps
<1> HIDE DEF o
<1>4. PICK u, t : u \in State /\ Good(Head(todo), Abs(nodes, marks), u) /\ Typed(Tail(todo), u, t)
  BY <1>0, Begins, Zenon
<1>5. Abs(nodes, marks) = Done /\ u = Done BY <1>1, <1>4, GoodOf
<1>6. Typed(q, Abs(nodes, marks), u)
  <2> DEFINE s == Abs(nodes, marks)
             h == Head(todo)
  <2>1. Keeps(Do("declaration")) BY KeepsCalls
  <2>2. Typed(Do("declaration"), s, s) BY <2>1, <1>1, Zenon DEF Keeps
  <2>3. Typed(<<o>>, s, s) BY <1>1, <1>3, TypedSimple
  <2>4. Typed(<<h>>, s, s) BY <1>1, <1>5, TypedFile
  <2>5. <<o>> \o <<h>> = <<o, h>> BY TwoInstructions
  <2> HIDE DEF h
  <2>6. Typed(<<o>> \o <<h>>, s, s) BY <2>3, <2>4, TypedConcat
  <2>7. Typed(<<o, h>>, s, s) BY <2>5, <2>6
  <2>8. Typed(Do("declaration") \o <<o, h>>, s, s) BY <2>2, <2>7, TypedConcat
  <2> QED BY <2>8, <1>5 DEF h
<1> HIDE DEF q
<1>7. ReportOK(input, errors', poisoned', modifiers', status') BY <1>0, <1>1
<1> QED BY <1>0, <1>2, <1>4, <1>6, <1>7, Advances

(* At the end of the file nothing is open, and everything is read.         *)
LEMMA FinishFileInv ==
  ASSUME IInv, FinishFile
  PROVE  IInv' /\ Abs(nodes', marks') = Done /\ current' = Len(input') + 1
<1>0. /\ Running("file") /\ Goto(<<>>) /\ Peek = "EndOfFile"
      /\ input' = input /\ marks' = marks /\ errors' = errors /\ poisoned' = poisoned
      /\ modifiers' = modifiers /\ status' = "parsed" /\ SkipWhitespace
  BY DEF FinishFile
<1>1. /\ CursorOK(input, current) /\ TreeOK(input, current, nodes, marks)
      /\ ReportOK(input, errors, poisoned, modifiers, status) /\ Abs(nodes, marks) \in State
      /\ Head(todo).op = "file"
  BY <1>0, Begins
<1>2. Moved BY <1>0, <1>1, MovedRead
<1>3. PICK u, t : u \in State /\ Good(Head(todo), Abs(nodes, marks), u) /\ Typed(Tail(todo), u, t)
  BY <1>0, Begins, Zenon
<1>4. Abs(nodes, marks) = Done /\ u = Done BY <1>1, <1>3, GoodOf
<1>5. Typed(<<>>, Abs(nodes, marks), u) BY <1>1, <1>4, TypedEmpty
<1>6. ReportOK(input, errors', poisoned', modifiers', status')
  BY <1>0, <1>1 DEF ReportOK
<1>7. IInv' BY <1>0, <1>2, <1>3, <1>5, <1>6, Advances
<1>8. Abs(nodes', marks') = Done BY <1>0, <1>2, <1>4 DEF Moved
<1>9. current' = Len(input) + 1
  <2> DEFINE k == Skip(current)
  <2>1. /\ Len(input) \in Nat /\ DOMAIN input = 1..Len(input)
        /\ current \in 1..(Len(input) + 1)
    BY <1>1, CursorIs
  <2>2. k \in current..(Len(input) + 1) BY <2>1, SkipIs
  <2>3. current' = k /\ Raw(k) = "EndOfFile" BY <1>0 DEF SkipWhitespace, Peek
  <2> HIDE DEF k
  <2>4. \A i \in DOMAIN input : input[i] # "EndOfFile"
    <3>1. input \in Seq(Kinds) BY <1>1 DEF CursorOK
    <3>2. \A i \in DOMAIN input : input[i] \in Kinds BY <3>1
    <3> QED BY <3>2 DEF Kinds
  <2>5. k \notin DOMAIN input BY <2>3, <2>4 DEF Raw
  <2> QED BY <2>1, <2>2, <2>3, <2>5
<1> QED BY <1>0, <1>7, <1>8, <1>9

(* try_depoison.                                                           *)
LEMMA TryDepoisonInv == ASSUME IInv, TryDepoison PROVE IInv'
<1>0. /\ Running("depoison") /\ input' = input /\ marks' = marks /\ errors' = errors
      /\ modifiers' = modifiers /\ status' = status
      /\ poisoned' = poisoned \/ poisoned' = FALSE
      /\ \/ Goto(<<>>) /\ current' = current /\ nodes' = nodes
         \/ Goto(<<>>) /\ SkipWhitespace
         \/ todo' = todo /\ ReadToken
  BY DEF TryDepoison
<1>1. /\ CursorOK(input, current) /\ TreeOK(input, current, nodes, marks)
      /\ ReportOK(input, errors, poisoned, modifiers, status) /\ Abs(nodes, marks) \in State
  BY <1>0, Begins
<1>2. Moved BY <1>0, <1>1, MovedRead
<1>3. "depoison" \in SimpleOps BY DEF SimpleOps
<1>4. Typed(<<>>, Abs(nodes, marks), Abs(nodes, marks)) BY <1>1, TypedEmpty
<1>5. ReportOK(input, errors', poisoned', modifiers', status')
  <2>1. poisoned' \in BOOLEAN BY <1>0, <1>1, Zenon DEF ReportOK
  <2> QED BY <2>1, <1>0, <1>1, Zenon DEF ReportOK
<1>6. CASE Goto(<<>>) BY <1>0, <1>2, <1>3, <1>4, <1>5, <1>6, SimpleInv
<1>7. CASE todo' = todo
  <2>1. Abs(nodes', marks') = Abs(nodes, marks) BY <1>0, <1>2 DEF Moved
  <2>2. TodoOK(todo, nodes, marks) BY DEF IInv
  <2>3. TodoOK(todo', nodes', marks') BY <1>7, <2>1, <2>2 DEF TodoOK
  <2> QED BY <1>0, <1>2, <1>5, <2>3, Continues DEF Moved
<1> QED BY <1>0, <1>6, <1>7

-----------------------------------------------------------------------------
(* The beginning.                                                          *)
LEMMA NewBuilderOK == Builder(NewBuilder, <<>>) /\ Leaves(NewBuilder) = <<>>
<1> DEFINE w == WorkNode("Root", 0, 0, <<>>)
<1>1. /\ w.kind = "Root" /\ w.start = 0 /\ w.end = 0 /\ w.children = <<>> /\ w \in Work
  <2>1. <<>> \in Seq(Child) OBVIOUS
  <2> QED BY <2>1, NoTokenNode DEF WorkNode, Work
<1> HIDE DEF w
<1>2. NewBuilder = <<w>> BY DEF NewBuilder, w
<1>3. /\ NewBuilder \in Seq(Work) /\ Len(NewBuilder) = 1 /\ NewBuilder[1] = w
      /\ NewBuilder # <<>>
  BY <1>1, <1>2
<1>4. Leaves(NewBuilder) = <<>> /\ Size(w.children) = 0
  BY <1>1, <1>2, LeavesOne, LeavesOfNone
<1>5. NodeFits(w) BY <1>1 DEF NodeFits
<1>6. TreeFits(NewBuilder) BY <1>3, <1>5 DEF TreeFits
<1>7. TopFits(NewBuilder) BY <1>1, <1>3, <1>4 DEF TopFits
<1>8. <<>> \in Seq(Mark_) /\ Len(<<>>) = 0 OBVIOUS
<1>9. Stack(NewBuilder, <<>>) BY <1>1, <1>3, <1>6, <1>8 DEF Stack
<1> QED BY <1>4, <1>7, <1>9 DEF Builder

(* parse() begins.                                                         *)
LEMMA InitInv == ASSUME Init PROVE IInv
<1>1. /\ input \in Inputs /\ current = 1 /\ nodes = NewBuilder /\ marks = <<>>
      /\ todo = <<[op |-> "file"]>> /\ errors = <<>> /\ poisoned = FALSE
      /\ modifiers = <<>> /\ status = "running"
  BY DEF Init
<1>2. CursorOK(input, current)
  <2>1. input \in Seq(Kinds) BY <1>1, InputsAreTokens DEF Kinds
  <2>2. Len(input) \in Nat BY <2>1
  <2> QED BY <2>1, <2>2, <1>1 DEF CursorOK
<1>3. Builder(nodes, marks) /\ Leaves(nodes) = <<>> BY <1>1, NewBuilderOK
<1>4. TreeOK(input, current, nodes, marks)
  <2>1. Iota(1, current - 1) = <<>>
    <3>1. current - 1 = 0 BY <1>1
    <3>2. Iota(1, 0) \in Seq(Nat) /\ Len(Iota(1, 0)) = 0 BY IotaFromOne
    <3>3. Iota(1, 0) = <<>>
      <4> DEFINE i == Iota(1, 0)
      <4>1. i \in Seq(Nat) /\ Len(i) = 0 BY <3>2
      <4> HIDE DEF i
      <4> QED BY <4>1 DEF i
    <3> QED BY <3>1, <3>3
  <2> QED BY <2>1, <1>3 DEF TreeOK
<1>5. TodoOK(todo, nodes, marks)
  <2> DEFINE o == [op |-> "file"]
  <2>1. o.op = "file" OBVIOUS
  <2> HIDE DEF o
  <2>2. Abs(nodes, marks) = Done
    <3>1. Len(NewBuilder) = 1 BY DEF NewBuilder
    <3>2. Nodes(<<>>) = <<>> BY DEF Nodes
    <3> QED BY <3>1, <3>2, <1>1 DEF Abs, Done
  <2>3. Typed(<<o>>, Done, Done) BY <2>1, TypedFile
  <2>4. todo = <<o>> BY <1>1 DEF o
  <2> QED BY <2>2, <2>3, <2>4, Zenon DEF TodoOK
<1>6. ReportOK(input, errors, poisoned, modifiers, status)
  <2>1. \A S : <<>> \in Seq(S) OBVIOUS
  <2>2. errors \in Seq(1..(Len(input) + 1)) /\ modifiers \in Seq(MODIFIERS)
    BY <1>1, <2>1, Zenon
  <2>3. poisoned \in BOOLEAN /\ status \in {"running", "parsed", "crashed"} BY <1>1
  <2> QED BY <2>2, <2>3, Zenon DEF ReportOK
<1> QED BY <1>2, <1>4, <1>5, <1>6 DEF IInv

(* Every step keeps the invariant.                                         *)
LEMMA NextInv == ASSUME IInv, Next PROVE IInv'
BY StartNodeInv, StartNodeAtInv, EndNodeInv, MarkInv, UnmarkInv, AdvanceInv,
   AdvanceCheckedInv, ConsumeInv, ConsumeEitherInv, ErrorAtCurrentInv,
   CrashInAdvanceCheckedInv, PeekInv, MatchesInv, PeekNextInv, PeekPastInv, UntilInv,
   SeparatedInv, ConsumeModifiersInv, ConsumeModifierInv, CheckModsInv,
   CallProductionInv, FunctionInv, InfixInv, PostfixInv, ParseDeclarationInv,
   FinishFileInv, TryDepoisonInv, Zenon
   DEF Next

(* Nothing happens after the end.                                          *)
Finished ==
  status = "parsed" => Abs(nodes, marks) = Done /\ current = Len(input) + 1
(* Only the end of the loop of parse() ends the parse.                     *)
LEMMA NextFinished == ASSUME IInv, Next PROVE Finished'
<1>1. CASE FinishFile BY <1>1, FinishFileInv DEF Finished
<1>2. ASSUME ~FinishFile PROVE status' # "parsed"
  BY <1>2 DEF Next, Running, Crash,
     StartNodeStep, StartNodeAtStep, EndNodeStep, MarkStep, UnmarkStep, AdvanceStep,
     AdvanceCheckedStep, ConsumeStep, ConsumeEitherStep, ErrorAtCurrent,
     CrashInAdvanceChecked, PeekStep, MatchesStep, PeekNextStep, PeekPastModifiers,
     UntilStep, SeparatedStep, ConsumeModifiersStep, ConsumeModifier, CheckModsStep,
     CallProduction, FunctionStep, InfixStep, PostfixStep, ParseDeclaration, TryDepoison
<1> QED BY <1>1, <1>2 DEF Finished

(* Nothing changes.                                                        *)
LEMMA StutterInv ==
  ASSUME IInv, Finished, UNCHANGED vars PROVE IInv' /\ Finished'
<1>1. /\ input' = input /\ current' = current /\ nodes' = nodes /\ marks' = marks
      /\ todo' = todo /\ errors' = errors /\ poisoned' = poisoned
      /\ modifiers' = modifiers /\ status' = status
  BY DEF vars
<1>2. IInv' BY <1>1 DEF IInv
<1>3. Finished' BY <1>1 DEF Finished
<1> QED BY <1>2, <1>3

(* Whatever the file, the parser keeps its invariant: the cursor, the tree *)
(* and what is left to do fit each other.                                  *)
THEOREM Invariant == Spec => [](IInv /\ Finished)
<1>1. Init => IInv /\ Finished
  <2>1. Init => IInv BY InitInv
  <2>2. Init => Finished BY DEF Init, Finished
  <2> QED BY <2>1, <2>2
<1>2. IInv /\ Finished /\ [Next]_vars => IInv' /\ Finished'
  BY NextInv, NextFinished, StutterInv
<1> QED BY <1>1, <1>2, PTL DEF Spec

-----------------------------------------------------------------------------
(* What the invariant says.                                                *)
LEMMA InvTypeOK == IInv => TypeOK
<1> SUFFICES ASSUME IInv PROVE TypeOK OBVIOUS
<1>1. /\ CursorOK(input, current) /\ Builder(nodes, marks)
      /\ ReportOK(input, errors, poisoned, modifiers, status)
  BY DEF IInv, TreeOK
<1>2. current \in 1..(Len(input) + 1) BY <1>1 DEF CursorOK
<1>3. nodes # <<>> /\ nodes[1].kind = "Root" BY <1>1 DEF Builder, Stack
<1>4. \A m \in DOMAIN marks :
         /\ marks[m].node \in 1..Len(nodes)
         /\ marks[m].child_count <= Len(nodes[marks[m].node].children)
  <2>1. /\ marks \in Seq(Mark_) /\ nodes \in Seq(Work)
        /\ \A i \in 1..Len(marks) : MarkFits(nodes, marks[i])
    BY <1>1, Zenon DEF Builder, Stack
  <2>2. DOMAIN marks = 1..Len(marks) BY <2>1
  <2>3. ASSUME NEW m \in 1..Len(marks)
        PROVE  /\ marks[m].node \in 1..Len(nodes)
               /\ marks[m].child_count <= Len(nodes[marks[m].node].children)
    <3>1. /\ marks[m].node \in 1..Len(nodes)
          /\ marks[m].child_count \in 0..Len(nodes[marks[m].node].children)
      BY <2>1 DEF MarkFits
    <3>2. nodes[marks[m].node].children \in Seq(Child) BY <2>1, <3>1, WorkType
    <3>3. Len(nodes[marks[m].node].children) \in Nat BY <3>2
    <3> QED BY <3>1, <3>3
  <2> QED BY <2>2, <2>3
<1>5. /\ errors \in Seq(1..(Len(input) + 1)) /\ poisoned \in BOOLEAN
      /\ modifiers \in Seq(MODIFIERS) /\ status \in {"running", "parsed", "crashed"}
  BY <1>1, Zenon DEF ReportOK
<1>6. \A e \in DOMAIN errors : errors[e] \in 1..(Len(input) + 1) BY <1>5
<1>7. \A m \in DOMAIN modifiers : modifiers[m] \in MODIFIERS BY <1>5
<1> QED BY <1>2, <1>3, <1>4, <1>5, <1>6, <1>7, Zenon DEF TypeOK

(* For every set of files: the cursor stays in the file, the root open,    *)
(* and every checkpoint of a live production refers to an open node and    *)
(* to children it has, so that start_node_at never drains out of range.    *)
THEOREM TypeCorrect == Spec => []TypeOK
BY Invariant, InvTypeOK, PTL

(* The leaves of the tree are the tokens read.                             *)
LEMMA InvTokens == IInv /\ Finished => TokensOnceInOrder
<1> SUFFICES ASSUME IInv, Finished PROVE TokensOnceInOrder OBVIOUS
<1>1. CursorOK(input, current) /\ Sig(input, Leaves(nodes)) = Sig(input, Iota(1, current - 1))
  BY DEF IInv, TreeOK
<1>2. Iota(1, current - 1) = [i \in 1..(current - 1) |-> i]
  <2> DEFINE n == current - 1
  <2>1. n \in Nat BY <1>1, CursorIs
  <2>2. \A i \in 1..(n - 1 + 1) : 1 + i - 1 = i OBVIOUS
  <2>3. n - 1 + 1 = n BY <2>1
  <2> HIDE DEF n
  <2>4. Iota(1, n) = [i \in 1..n |-> i] BY <2>2, <2>3 DEF Iota
  <2> QED BY <2>4 DEF n
<1>3. /\ Significant(Leaves(nodes)) = Sig(input, Leaves(nodes))
      /\ Significant(Iota(1, current - 1)) = Sig(input, Iota(1, current - 1))
  BY SignificantIs
<1>4. ASSUME status = "parsed"
      PROVE  Len(nodes) = 1 /\ marks = <<>> /\ current = Len(input) + 1
  <2>1. Abs(nodes, marks) = Done /\ current = Len(input) + 1 BY <1>4 DEF Finished
  <2>2. Len(nodes) = 1 /\ Nodes(marks) = <<>> BY <2>1 DEF Abs, Done
  <2>3. marks \in Seq(Mark_) /\ Len(Nodes(marks)) = Len(marks)
    <3>1. Builder(nodes, marks) BY DEF IInv, TreeOK
    <3> QED BY <3>1, NodesType
  <2>4. marks = <<>> BY <2>2, <2>3
  <2> QED BY <2>1, <2>2, <2>4
<1> QED BY <1>1, <1>2, <1>3, <1>4 DEF TokensOnceInOrder

(* For every set of files: however productions look ahead, open nodes      *)
(* below others, fail and recover, the tree holds every token that was     *)
(* read once and in order; and when parse() is done, it is the root that   *)
(* finish() takes.                                                         *)
THEOREM TokensOnce == Spec => []TokensOnceInOrder
BY Invariant, InvTokens, PTL

(* Every call the productions make of the builder is one it can serve:     *)
(* end_node never pops the root, and start_node_at has a checkpoint.       *)
BuilderServes ==
  /\ Running("end") => /\ Len(nodes) > 1
                       /\ \A m \in DOMAIN marks : marks[m].node < Len(nodes)
  /\ Running("start_at") \/ Running("unmark") => marks # <<>>
(* The next instruction fits the shape of the builder.                     *)
LEMMA InvServes == IInv => BuilderServes
<1> SUFFICES ASSUME IInv PROVE BuilderServes OBVIOUS
<1>1. ASSUME Running("end")
      PROVE  Len(nodes) > 1 /\ \A m \in DOMAIN marks : marks[m].node < Len(nodes)
  <2>1. Builder(nodes, marks) /\ Head(todo).op = "end" BY <1>1, Begins
  <2>2. PICK u, t : Good(Head(todo), Abs(nodes, marks), u) BY <1>1, Begins, Zenon
  <2>3. CanEnd(Abs(nodes, marks)) BY <2>1, <2>2, GoodOf
  <2>4. Len(nodes) > 1 /\ \A i \in 1..Len(marks) : marks[i].node < Len(nodes)
    BY <2>1, <2>3, AbsCanEnd
  <2>5. DOMAIN marks = 1..Len(marks)
    <3>1. marks \in Seq(Mark_) BY <2>1, NodesType
    <3> QED BY <3>1
  <2> QED BY <2>4, <2>5
<1>2. ASSUME NEW op \in {"start_at", "unmark"}, Running(op) PROVE marks # <<>>
  <2>1. Builder(nodes, marks) /\ Head(todo).op = op BY <1>2, Begins
  <2>2. PICK u, t : Good(Head(todo), Abs(nodes, marks), u) BY <1>2, Begins, Zenon
  <2>3. Abs(nodes, marks).marks # <<>> BY <2>1, <2>2, GoodOf
  <2> QED BY <2>1, <2>3, AbsMarks
<1> QED BY <1>1, <1>2 DEF BuilderServes

(* For every set of files: no production closes a node it has not opened   *)
(* or uses a checkpoint it does not have.                                  *)
THEOREM BuilderIsServed == Spec => []BuilderServes
BY Invariant, InvServes, PTL

(* The children of every node fit its text.                                *)
LEMMA InvSpans == IInv => SpansCoverText
<1> SUFFICES ASSUME IInv PROVE SpansCoverText OBVIOUS
<1>1. nodes \in Seq(Work) /\ nodes # <<>> /\ TreeFits(nodes) /\ TopFits(nodes)
  BY DEF IInv, TreeOK, Builder, Stack
<1>2. Len(nodes) \in 1..Len(nodes) /\ DOMAIN nodes = 1..Len(nodes) BY <1>1
<1>3. Last(nodes) = nodes[Len(nodes)] BY DEF Last
<1>4. \A n \in 1..Len(nodes) : /\ nodes[n].children \in Seq(Child) /\ NodeFits(nodes[n])
                               /\ nodes[n].start \in Nat /\ nodes[n].end \in Nat
  BY <1>1, WorkType DEF TreeFits
<1>5. Last(nodes).end - Last(nodes).start = Len(IntoNode(Last(nodes)).leaves)
  <2> DEFINE top == nodes[Len(nodes)]
  <2>1. top.children \in Seq(Child) /\ top.start \in Nat /\ top.end \in Nat
    BY <1>2, <1>4
  <2>2. top.end = top.start + Size(top.children) BY <1>1 DEF TopFits
  <2>3. Size(top.children) \in Nat BY <2>1, LeavesOfType
  <2>4. IntoNode(top).leaves = LeavesOf(top.children)
    BY DEF IntoNode, LeavesOf, LeavesSeq
  <2> HIDE DEF top
  <2>5. top.end - top.start = Size(top.children) BY <2>1, <2>2, <2>3
  <2> QED BY <1>3, <2>4, <2>5 DEF Size, top
<1>6. ASSUME NEW n \in DOMAIN nodes, NEW c \in DOMAIN nodes[n].children,
             nodes[n].children[c].kind # "token"
      PROVE  nodes[n].children[c].end - nodes[n].children[c].start
                = Len(nodes[n].children[c].leaves)
  <2>1. nodes[n].children \in Seq(Child) /\ NodeFits(nodes[n]) BY <1>2, <1>4
  <2>2. c \in 1..Len(nodes[n].children) BY <2>1
  <2>3. ChildFits(nodes[n], c) BY <2>1, <2>2 DEF NodeFits
  <2> QED BY <2>3, <1>6 DEF ChildFits
<1> QED BY <1>5, <1>6, Zenon DEF SpansCoverText

(* For every set of files: the span of a finished node, and of the one on  *)
(* top, is as long as the text below it.                                   *)
THEOREM SpansCover == Spec => []SpansCoverText
BY Invariant, InvSpans, PTL
=============================================================================
