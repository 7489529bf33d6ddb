------------------------- MODULE IfaceImpls_proofs -------------------------
(***************************************************************************)
(* Proofs about IfaceImpls: type correctness, that the impls of a type a   *)
(* program declares are its own, that what a compilation without errors    *)
(* generates is complete, that it generates its own modules only, that one *)
(* with a cached std comes to what one that compiles std anew comes to,    *)
(* and that the method tables have what its impl blocks define.            *)
(***************************************************************************)
EXTENDS IfaceImpls, SequenceTheorems, FiniteSetTheorems, TLAPS

-----------------------------------------------------------------------------
(* The inductive invariant.                                                *)

(* fill_impls_ works on impls that exist, in the fill pass only.           *)
FillingExisting ==
  /\ filling # None => /\ phase = "fill"
                       /\ \A i \in left : cells[filling].interfaces[i] # None

(* The running compilation is not marked compiled, earlier ones that are   *)
(* have declared their lifecycle methods.                                  *)
Ages ==
  /\ cached /\ std_impls = None => past = <<>>
  /\ compiled \subseteq lifecycle
  /\ lifecycle \subseteq 0..cur
  /\ phase # "idle" => cur \notin compiled
  /\ phase = "generate" => cur \in lifecycle

MethodsRequired ==
  \A k \in DOMAIN cells, i \in Interface :
    LET impl == cells[k].interfaces[i]
    IN  impl # None => impl.methods \subseteq Required[i.name]

(* The running compilation's impl of i in cell k, if any, is complete.     *)
OwnFilled(k, i) ==
  LET impl == cells[k].interfaces[i]
  IN  (impl # None /\ impl.module = cur) => impl.methods = Required[i.name]

FilledSoFar ==
  errors = {} =>
    /\ phase = "fill" =>
         \A k \in Registered \ todo, i \in Interface :
           OwnFilled(k, i) \/ (filling = k /\ i \in left)
    /\ phase = "generate" =>
         \A k \in Registered, i \in Interface : OwnFilled(k, i)

IInv == TypeOK /\ FillingExisting /\ OwnTypesIsolated /\ Ages
               /\ MethodsRequired /\ FilledSoFar

-----------------------------------------------------------------------------
(* Cells and types.                                                        *)

LEMMA RegistryTyped ==
  ASSUME TypeOK
  PROVE  /\ Registered \subseteq 1..Len(cells)
         /\ \A t \in Type : iface_impls[t] # None =>
              /\ iface_impls[t] \in 1..Len(cells)
              /\ cells[iface_impls[t]].implementor = t
BY DEF TypeOK, Registered, PointsTo

LEMMA CurTyped ==
  TypeOK => cur \in Compilations /\ cur \in Nat
BY LenProperties, SessionBound DEF TypeOK, cur, Compilations

LEMMA TypeOfTyped ==
  ASSUME TypeOK, NEW c \in Compilations, NEW n \in Names
  PROVE  /\ TypeOf(c, n) \in Type
         /\ n \in IfaceNames => TypeOf(c, n) \in Interface
         /\ TypeOf(c, n).of \in {0, c}
         /\ TypeOf(c, n).name = n
<1>1. 0 \in Compilations
  BY SessionBound DEF Compilations
<1> QED
  BY <1>1 DEF TypeOf, Type, Interface

LEMMA InterfacesAreTypes == Interface \subseteq Type
BY NamesAreSplit DEF Interface, Type

LEMMA CellAt ==
  ASSUME TypeOK, NEW k \in 1..Len(cells)
  PROVE  cells[k] \in IFaceImpls
BY ElementOfSeq DEF TypeOK

LEMMA CellFields ==
  ASSUME NEW c \in IFaceImpls
  PROVE  /\ c.implementor \in Type
         /\ c.interfaces \in [Interface -> Impl \cup {None}]
         /\ c.methods \in [Methods -> Fn \cup {None}]
BY DEF IFaceImpls

LEMMA ImplFields ==
  ASSUME NEW im \in Impl
  PROVE  /\ im.module \in Compilations
         /\ im.wants \in Seq(Methods)
         /\ im.methods \subseteq Methods
         /\ im # None
BY NoneIsNothing DEF Impl

WithImpl(s, k, i, im) == [s EXCEPT ![k].interfaces[i] = im]

(* A cell with one impl, or its table, replaced.                           *)
LEMMA ReplaceImpl ==
  ASSUME NEW s \in Seq(IFaceImpls), NEW k \in 1..Len(s),
         NEW i \in Interface, NEW im \in Impl,
         NEW new, new = WithImpl(s, k, i, im)
  PROVE  /\ new \in Seq(IFaceImpls)
         /\ Len(new) = Len(s)
         /\ \A l \in 1..Len(s) :
              /\ new[l].implementor = s[l].implementor
              /\ new[l].methods = s[l].methods
              /\ \A j \in Interface :
                   new[l].interfaces[j] =
                     IF l = k /\ j = i THEN im ELSE s[l].interfaces[j]
<1>1. s[k] \in IFaceImpls
  BY ElementOfSeq
<1> DEFINE c == [s[k] EXCEPT !.interfaces =
                   [s[k].interfaces EXCEPT ![i] = im]]
<1>2. /\ c \in IFaceImpls
      /\ c.implementor = s[k].implementor
      /\ c.methods = s[k].methods
      /\ \A j \in Interface : c.interfaces[j] =
           IF j = i THEN im ELSE s[k].interfaces[j]
  BY <1>1 DEF IFaceImpls
<1>3. new = [s EXCEPT ![k] = c]
  BY DEF WithImpl
<1> HIDE DEF c
<1>4. /\ new \in Seq(IFaceImpls)
      /\ Len(new) = Len(s)
      /\ \A l \in 1..Len(s) : new[l] = IF l = k THEN c ELSE s[l]
  BY ONLY <1>2, <1>3, s \in Seq(IFaceImpls), k \in 1..Len(s), ExceptSeq
<1> QED
  BY ONLY <1>2, <1>4, k \in 1..Len(s)

LEMMA ReplaceMethods ==
  ASSUME NEW s \in Seq(IFaceImpls), NEW k \in 1..Len(s),
         NEW ms \in [Methods -> Fn \cup {None}],
         NEW new, new = [s EXCEPT ![k].methods = ms]
  PROVE  /\ new \in Seq(IFaceImpls)
         /\ Len(new) = Len(s)
         /\ \A l \in 1..Len(s) :
              /\ new[l].implementor = s[l].implementor
              /\ new[l].interfaces = s[l].interfaces
              /\ new[l].methods = IF l = k THEN ms ELSE s[l].methods
<1>1. s[k] \in IFaceImpls
  BY ElementOfSeq
<1> DEFINE c == [s[k] EXCEPT !.methods = ms]
<1>2. /\ c \in IFaceImpls
      /\ c.implementor = s[k].implementor
      /\ c.interfaces = s[k].interfaces
      /\ c.methods = ms
  BY <1>1 DEF IFaceImpls
<1>3. new = [s EXCEPT ![k] = c]
  OBVIOUS
<1> HIDE DEF c
<1>4. /\ new \in Seq(IFaceImpls)
      /\ Len(new) = Len(s)
      /\ \A l \in 1..Len(s) : new[l] = IF l = k THEN c ELSE s[l]
  BY ONLY <1>2, <1>3, s \in Seq(IFaceImpls), k \in 1..Len(s), ExceptSeq
<1> QED
  BY ONLY <1>2, <1>4, k \in 1..Len(s)

(* get_iface_impls: the cell is the type's, others are as before, and a    *)
(* new cell is empty.                                                      *)
LEMMA NoImplsTyped ==
  /\ NoImpls \in [Interface -> Impl \cup {None}]
  /\ NoMethods \in [Methods -> Fn \cup {None}]
  /\ NoTypes \in Registry
BY DEF NoImpls, NoMethods, NoTypes, Registry

LEMMA WithCellTyped ==
  ASSUME TypeOK, NEW t \in Type
  PROVE  /\ WithCell(t) \in Seq(IFaceImpls)
         /\ Len(cells) <= Len(WithCell(t))
         /\ CellOf(t) \in 1..Len(WithCell(t))
         /\ WithCell(t)[CellOf(t)].implementor = t
         /\ \A k \in 1..Len(cells) : WithCell(t)[k] = cells[k]
         /\ \A k \in 1..Len(WithCell(t)) :
              \/ k \in 1..Len(cells)
              \/ WithCell(t)[k].interfaces = NoImpls /\ WithCell(t)[k].methods = NoMethods
         /\ \A k \in 1..Len(WithCell(t)) :
              k \in 1..Len(cells) \/ k = CellOf(t)
<1>1. cells \in Seq(IFaceImpls)
  BY DEF TypeOK
<1>2. CASE iface_impls[t] # None
  BY <1>1, <1>2, RegistryTyped DEF WithCell, CellOf
<1>3. CASE iface_impls[t] = None
  <2> DEFINE c == [implementor |-> t, interfaces |-> NoImpls,
                   methods |-> NoMethods]
  <2>1. /\ c \in IFaceImpls /\ c.implementor = t
        /\ c.interfaces = NoImpls /\ c.methods = NoMethods
    BY NoImplsTyped DEF IFaceImpls
  <2>2. WithCell(t) = Append(cells, c) /\ CellOf(t) = Len(cells) + 1
    BY <1>3 DEF WithCell, CellOf
  <2> HIDE DEF c
  <2>3. /\ Append(cells, c) \in Seq(IFaceImpls)
        /\ Len(Append(cells, c)) = Len(cells) + 1
        /\ \A k \in 1..Len(cells) : Append(cells, c)[k] = cells[k]
        /\ Append(cells, c)[Len(cells) + 1] = c
    BY <1>1, <2>1, AppendProperties
  <2>4. Len(cells) \in Nat
    BY <1>1, LenProperties
  <2> QED
    BY <2>1, <2>2, <2>3, <2>4
<1> QED
  BY <1>2, <1>3

LEMMA CurImplsTyped ==
  ASSUME TypeOK, NEW j \in 1..Len(CurImpls)
  PROVE  CurImpls[j] \in ImplAst
<1>1. ASSUME NEW p \in 1..Len(past)
      PROVE  past[p].impls \in Seq(ImplAst)
  <2>1. past[p] \in Program
    BY <1>1, ElementOfSeq DEF TypeOK
  <2> QED
    BY <2>1 DEF Program
<1>2. cur # 0 => cur \in 1..Len(past)
  BY LenProperties DEF TypeOK, cur
<1>3. CurImpls \in Seq(ImplAst)
  BY <1>1, <1>2, ImplsAreAsts, ConcatProperties DEF CurImpls
<1> QED
  BY <1>3, ElementOfSeq

LEMMA ErrTyped ==
  ASSUME NEW code \in {"E306", "E307", "E313", "E314"}, NEW t \in Type,
         NEW i \in Type, NEW m \in Methods \cup {None}
  PROVE  Err(code, t, i, m) \in GirError
BY DEF Err, GirError

-----------------------------------------------------------------------------
(* What the actions do to the cells.                                       *)

(* Cells are added, never removed, and stay those of their types.          *)
Extended ==
  /\ cells' \in Seq(IFaceImpls)
  /\ Len(cells) <= Len(cells')
  /\ \A k \in 1..Len(cells) : cells'[k].implementor = cells[k].implementor

LEMMA ExtendedPointsTo ==
  ASSUME TypeOK, Extended, NEW registry, PointsTo(registry)
  PROVE  \A t \in Type : registry[t] # None =>
           /\ registry[t] \in 1..Len(cells')
           /\ cells'[registry[t]].implementor = t
<1>1. Len(cells) \in Nat /\ Len(cells') \in Nat
  BY LenProperties DEF TypeOK, Extended
<1> QED
  BY <1>1 DEF Extended, PointsTo

(* The impl that declare_impl puts into a cell.                            *)
NewImpl(ast) == [module |-> cur, wants |-> ast.methods, methods |-> {}]

LEMMA InsertImplCells ==
  ASSUME TypeOK, NEW ast \in ImplAst, InsertImpl(ast)
  PROVE  LET t == TypeOf(cur, ast.type)
             i == TypeOf(cur, ast.iface)
         IN  /\ Extended
             /\ CellOf(t) \in 1..Len(cells')
             /\ cells'[CellOf(t)].implementor = t
             /\ NewImpl(ast) \in Impl
             /\ \A k \in 1..Len(cells'), j \in Interface :
                  \/ /\ k = CellOf(t) /\ j = i
                     /\ cells'[k].interfaces[j] = NewImpl(ast)
                  \/ /\ k \in 1..Len(cells)
                     /\ cells'[k].interfaces[j] = cells[k].interfaces[j]
                  \/ cells'[k].interfaces[j] = None
<1> DEFINE t == TypeOf(cur, ast.type)
           i == TypeOf(cur, ast.iface)
<1>1. /\ ast.type \in Names /\ ast.iface \in Names
      /\ ast.methods \in Seq(Methods)
  BY DEF ImplAst
<1>2. ast.iface \in IfaceNames
  BY DEF InsertImpl
<1>3. t \in Type /\ i \in Interface
  BY <1>1, <1>2, CurTyped, TypeOfTyped
<1>4. NewImpl(ast) \in Impl
  BY <1>1, CurTyped DEF NewImpl, Impl
<1>5. cells' = WithImpl(WithCell(t), CellOf(t), i, NewImpl(ast))
  BY DEF InsertImpl, NewImpl, WithImpl
<1> HIDE DEF t, i
<1>6. /\ cells' \in Seq(IFaceImpls)
      /\ Len(cells') = Len(WithCell(t))
      /\ \A l \in 1..Len(WithCell(t)) :
           /\ cells'[l].implementor = WithCell(t)[l].implementor
           /\ \A j \in Interface : cells'[l].interfaces[j] =
                IF l = CellOf(t) /\ j = i THEN NewImpl(ast)
                ELSE WithCell(t)[l].interfaces[j]
  BY <1>3, <1>4, <1>5, WithCellTyped, ReplaceImpl
<1>7. Len(cells) \in Nat /\ Len(cells') \in Nat
  BY <1>6, LenProperties DEF TypeOK
<1>8. Extended
  BY <1>3, <1>6, <1>7, WithCellTyped DEF Extended
<1>9. /\ CellOf(t) \in 1..Len(cells')
      /\ cells'[CellOf(t)].implementor = t
  BY <1>3, <1>6, WithCellTyped
<1>10. ASSUME NEW k \in 1..Len(cells'), NEW j \in Interface,
              ~(k = CellOf(t) /\ j = i)
       PROVE  \/ /\ k \in 1..Len(cells)
                 /\ cells'[k].interfaces[j] = cells[k].interfaces[j]
              \/ cells'[k].interfaces[j] = None
  <2>1. cells'[k].interfaces[j] = WithCell(t)[k].interfaces[j]
    BY <1>6, <1>10
  <2>2. k \in 1..Len(cells) \/ WithCell(t)[k].interfaces = NoImpls
    BY <1>3, <1>6, <1>10, WithCellTyped
  <2>3. k \in 1..Len(cells) => WithCell(t)[k] = cells[k]
    BY <1>3, WithCellTyped
  <2> QED
    BY <2>1, <2>2, <2>3 DEF NoImpls
<1>11. \A k \in 1..Len(cells'), j \in Interface :
         k = CellOf(t) /\ j = i => cells'[k].interfaces[j] = NewImpl(ast)
  BY <1>6
<1> QED
  BY <1>4, <1>8, <1>9, <1>10, <1>11 DEF t, i

LEMMA FillImplCells ==
  ASSUME TypeOK, FillingExisting, NEW i \in left, FillImpl(i)
  PROVE  LET impl == cells[filling].interfaces[i]
             new  == cells'[filling].interfaces[i]
         IN  /\ Extended
             /\ Len(cells') = Len(cells)
             /\ filling \in 1..Len(cells)
             /\ i \in Interface
             /\ impl \in Impl /\ new \in Impl
             /\ new.module = impl.module /\ new.wants = impl.wants
             /\ new.methods = impl.methods \cup
                  ({m \in Methods : Occurrences(impl.wants, m) > 0}
                     \cap Required[i.name])
             /\ \A k \in 1..Len(cells), j \in Interface :
                  (k = filling /\ j = i)
                    \/ cells'[k].interfaces[j] = cells[k].interfaces[j]
             /\ \A k \in 1..Len(cells) : cells'[k].methods = cells[k].methods
<1> DEFINE impl  == cells[filling].interfaces[i]
           known == {m \in Methods : Occurrences(impl.wants, m) > 0}
                      \cap Required[i.name]
           im    == [impl EXCEPT !.methods = @ \cup known]
<1>1. filling \in 1..Len(cells) /\ i \in Interface
  BY DEF TypeOK, FillImpl
<1>2. impl \in Impl
  BY <1>1, CellAt, CellFields DEF FillingExisting, FillImpl
<1>3. cells' = [cells EXCEPT ![filling].interfaces[i].methods = @ \cup known]
  BY DEF FillImpl
<1>4. cells' = WithImpl(cells, filling, i, im)
  BY <1>3 DEF WithImpl
<1>5. /\ im \in Impl /\ im.module = impl.module /\ im.wants = impl.wants
      /\ im.methods = impl.methods \cup known
  BY <1>2 DEF Impl
<1> HIDE DEF im, known
<1>6. cells \in Seq(IFaceImpls) /\ Len(cells) \in Nat
  BY LenProperties DEF TypeOK
<1>7. /\ cells' \in Seq(IFaceImpls)
      /\ Len(cells') = Len(cells)
      /\ \A l \in 1..Len(cells) :
           /\ cells'[l].implementor = cells[l].implementor
           /\ cells'[l].methods = cells[l].methods
           /\ \A j \in Interface : cells'[l].interfaces[j] =
                IF l = filling /\ j = i THEN im ELSE cells[l].interfaces[j]
  <2>1. im \in Impl /\ cells' = WithImpl(cells, filling, i, im)
    BY <1>4, <1>5
  <2> QED
    BY ONLY <1>1, <1>6, <2>1, ReplaceImpl
<1>8. Extended
  BY <1>6, <1>7 DEF Extended
<1>9. cells'[filling].interfaces[i] = im
  BY <1>1, <1>7
<1> QED
  BY <1>1, <1>2, <1>5, <1>7, <1>8, <1>9 DEF known

LEMMA FilledImplsCells ==
  ASSUME TypeOK, FilledImpls
  PROVE  /\ Extended
         /\ Len(cells') = Len(cells)
         /\ \A k \in 1..Len(cells) :
              /\ cells'[k].interfaces = cells[k].interfaces
              /\ cells'[k].methods = IF k = filling THEN methods ELSE cells[k].methods
<1>1. /\ cells \in Seq(IFaceImpls) /\ Len(cells) \in Nat
      /\ filling \in 1..Len(cells)
      /\ methods \in [Methods -> Fn \cup {None}]
  BY LenProperties DEF TypeOK, FilledImpls
<1>2. cells' = [cells EXCEPT ![filling].methods = methods]
  BY DEF FilledImpls
<1> QED
  BY <1>1, <1>2, ReplaceMethods DEF Extended

LEMMA LookupCells ==
  ASSUME TypeOK, NEW t \in Type, Lookup(t)
  PROVE  /\ Extended
         /\ CellOf(t) \in 1..Len(cells')
         /\ cells'[CellOf(t)].implementor = t
         /\ \A k \in 1..Len(cells') :
              \/ k \in 1..Len(cells) /\ cells'[k] = cells[k]
              \/ cells'[k].interfaces = NoImpls
<1>1. cells' = WithCell(t) /\ Len(cells) \in Nat
  BY LenProperties DEF Lookup, TypeOK
<1> QED
  BY <1>1, WithCellTyped DEF Extended

-----------------------------------------------------------------------------
(* Type correctness.                                                       *)

(* The part of TypeOK that is about the heap and the registries.           *)
HeapOK ==
  /\ cells \in Seq(IFaceImpls)
  /\ iface_impls \in Registry /\ PointsTo(iface_impls)
  /\ std_impls \in Registry \cup {None}
  /\ std_impls # None => PointsTo(std_impls)
  /\ todo \subseteq 1..Len(cells)
  /\ filling \in 1..Len(cells) \cup {None}

RestOK ==
  /\ cached \in BOOLEAN
  /\ past \in Seq(Program) /\ Len(past) <= MaxCompilations
  /\ phase \in Phases
  /\ item \in Nat \ {0}
  /\ compiled \subseteq Compilations
  /\ lifecycle \subseteq Compilations
  /\ left \subseteq Interface
  /\ methods \in [Methods -> Fn \cup {None}]
  /\ generated \subseteq Compilations
  /\ errors \subseteq GirError

(* A heap that grew, with the registries pointing where they did, or one   *)
(* of them at a cell of its own for one more type.                         *)
LEMMA ExtendedHeap ==
  ASSUME TypeOK, Extended, UNCHANGED std_impls,
         todo' \subseteq todo, filling' \in {filling, None},
         \/ UNCHANGED iface_impls
         \/ \E t \in Type, k \in 1..Len(cells') :
              /\ cells'[k].implementor = t
              /\ iface_impls' = [iface_impls EXCEPT ![t] = k]
  PROVE  HeapOK'
<1>1. Len(cells) \in Nat /\ Len(cells') \in Nat /\ Len(cells) <= Len(cells')
  BY LenProperties DEF TypeOK, Extended
<1>2. (std_impls # None => PointsTo(std_impls))'
  BY ExtendedPointsTo DEF TypeOK, PointsTo
<1>3. iface_impls' \in Registry /\ PointsTo(iface_impls)'
  <2>1. CASE UNCHANGED iface_impls
    BY <2>1, ExtendedPointsTo DEF TypeOK, PointsTo
  <2>2. ASSUME NEW t \in Type, NEW k \in 1..Len(cells'),
               cells'[k].implementor = t,
               iface_impls' = [iface_impls EXCEPT ![t] = k]
        PROVE  iface_impls' \in Registry /\ PointsTo(iface_impls)'
    <3>1. \A u \in Type : iface_impls[u] # None =>
            /\ iface_impls[u] \in 1..Len(cells')
            /\ cells'[iface_impls[u]].implementor = u
      BY ExtendedPointsTo DEF TypeOK
    <3>2. iface_impls' \in Registry
      BY <1>1, <2>2 DEF TypeOK, Registry
    <3>3. \A u \in Type : iface_impls'[u] = IF u = t THEN k ELSE iface_impls[u]
      BY <2>2 DEF TypeOK, Registry
    <3> QED
      BY <2>2, <3>1, <3>2, <3>3 DEF PointsTo
  <2> QED
    BY <2>1, <2>2
<1> QED
  BY <1>1, <1>2, <1>3 DEF TypeOK, HeapOK, Extended

LEMMA SameHeap ==
  ASSUME TypeOK, UNCHANGED <<cells, std_impls>>,
         iface_impls' \in Registry /\ PointsTo(iface_impls'),
         todo' \subseteq 1..Len(cells),
         filling' \in 1..Len(cells) \cup {None}
  PROVE  HeapOK'
BY DEF TypeOK, HeapOK, PointsTo

LEMMA VisibleTyped ==
  TypeOK => Visible \subseteq Type
BY CurTyped, TypeOfTyped DEF Visible, Names

LEMMA FillImplErrors ==
  ASSUME TypeOK, FillingExisting, NEW i \in left, FillImpl(i)
  PROVE  errors' \subseteq GirError /\ methods' \in [Methods -> Fn \cup {None}]
<1> DEFINE impl  == cells[filling].interfaces[i]
           has   == {m \in Methods : Occurrences(impl.wants, m) > 0}
           type  == cells[filling].implementor
<1>1. filling \in 1..Len(cells) /\ i \in Interface /\ impl \in Impl
  BY FillImplCells
<1>2. type \in Type /\ i \in Type
  BY <1>1, CellAt, CellFields, InterfacesAreTypes
<1>3. impl.module \in Compilations
  BY <1>1, ImplFields
<1>4. [module |-> impl.module, iface |-> i] \in Fn
  BY <1>1, <1>3 DEF Fn
<1>5. methods' = [m \in Methods |->
           IF m \notin has \cap Required[i.name] THEN methods[m]
           ELSE IF Toggled(impl, m)
           THEN [module |-> impl.module, iface |-> i]
           ELSE None]
  BY DEF FillImpl
<1>6. methods' \in [Methods -> Fn \cup {None}]
  BY <1>4, <1>5 DEF TypeOK
<1>7. errors' \subseteq errors
         \cup {Err("E313", type, i, m) : m \in has \ Required[i.name]}
         \cup {Err("E314", type, i, None)}
  BY DEF FillImpl
<1>8. \A m \in Methods : Err("E313", type, i, m) \in GirError
  BY <1>2, ErrTyped
<1>9. Err("E314", type, i, None) \in GirError
  BY <1>2, ErrTyped
<1> HIDE DEF type, impl
<1>10. errors \subseteq GirError
  BY DEF TypeOK
<1> QED
  BY <1>6, <1>7, <1>8, <1>9, <1>10

LEMMA DeclareImplTyped ==
  ASSUME TypeOK, DeclareImpl
  PROVE  TypeOK'
<1> DEFINE ast == CurImpls[item]
           t == TypeOf(cur, ast.type)
           i == TypeOf(cur, ast.iface)
<1>1. item \in 1..Len(CurImpls)
  BY DEF TypeOK, DeclareImpl
<1>2. ast \in ImplAst
  BY <1>1, CurImplsTyped
<1>3. ast.type \in Names /\ ast.iface \in Names
  BY <1>2 DEF ImplAst
<1>4. t \in Type /\ i \in Type
  BY <1>3, CurTyped, TypeOfTyped
<1>5. Err("E307", t, i, None) \in GirError /\ Err("E306", t, i, None) \in GirError
  BY <1>4, ErrTyped
<1>6. UNCHANGED <<std_impls, todo, filling>>
  BY DEF DeclareImpl, fill
<1>7. CASE NotAnInterface(ast)
  <2>1. UNCHANGED <<cells, iface_impls>> /\ errors' \subseteq GirError
    BY <1>5, <1>7 DEF NotAnInterface, TypeOK
  <2>2. HeapOK'
    BY <1>6, <2>1, SameHeap DEF TypeOK
  <2>3. RestOK'
    BY <2>1 DEF DeclareImpl, fill, TypeOK, RestOK
  <2> QED
    BY <2>2, <2>3 DEF TypeOK, HeapOK, RestOK
<1>8. CASE InsertImpl(ast)
  <2>1. errors' \subseteq GirError
    BY <1>5, <1>8 DEF InsertImpl, TypeOK
  <2>2. iface_impls' = [iface_impls EXCEPT ![t] = CellOf(t)]
    BY <1>8 DEF InsertImpl
  <2>3. /\ Extended /\ CellOf(t) \in 1..Len(cells')
        /\ cells'[CellOf(t)].implementor = t
    BY <1>2, <1>8, InsertImplCells
  <2> HIDE DEF t
  <2>4. HeapOK'
    BY <1>4, <1>6, <2>2, <2>3, ExtendedHeap
  <2>5. RestOK'
    BY <2>1 DEF DeclareImpl, fill, TypeOK, RestOK
  <2> QED
    BY <2>4, <2>5 DEF TypeOK, HeapOK, RestOK
<1> QED
  BY <1>7, <1>8 DEF DeclareImpl

LEMMA StartTyped ==
  ASSUME TypeOK, NEW registry \in Registry, PointsTo(registry), Start(registry),
         \/ UNCHANGED past
         \/ \E p \in Programs : past' = Append(past, p) /\ cur < MaxCompilations
  PROVE  TypeOK'
<1>1. HeapOK'
  BY SameHeap DEF Start, fill, TypeOK
<1>2. past' \in Seq(Program) /\ Len(past') <= MaxCompilations
  <2>1. CASE UNCHANGED past
    BY <2>1 DEF TypeOK
  <2>2. ASSUME NEW p \in Programs, past' = Append(past, p), cur < MaxCompilations
        PROVE  past' \in Seq(Program) /\ Len(past') <= MaxCompilations
    <3>1. p \in Program /\ past \in Seq(Program) /\ Len(past) \in Nat
      BY ImplsAreAsts, LenProperties DEF TypeOK
    <3>2. past' \in Seq(Program) /\ Len(past') = Len(past) + 1
      BY <2>2, <3>1, AppendProperties
    <3> QED
      BY <2>2, <3>1, <3>2, SessionBound DEF cur
  <2> QED
    BY <2>1, <2>2
<1>3. RestOK'
  BY <1>2 DEF Start, fill, TypeOK, RestOK, Phases
<1> QED
  BY <1>1, <1>3 DEF TypeOK, HeapOK, RestOK

LEMMA GenerateImplTyped ==
  ASSUME TypeOK, NEW k \in DOMAIN cells, GenerateImpl(k)
  PROVE  generated' \subseteq Compilations
<1>1. k \in 1..Len(cells)
  BY LenProperties DEF TypeOK
<1>2. \A i \in Uncompiled(k) : cells[k].interfaces[i].module \in Compilations
  BY <1>1, CellAt, CellFields, ImplFields DEF Uncompiled
<1> QED
  BY <1>2 DEF GenerateImpl, TypeOK

LEMMA TypeOKStep ==
  ASSUME TypeOK, FillingExisting, [Next]_vars
  PROVE  TypeOK'
<1>1. CASE CompileStd
  <2>1. NoTypes \in Registry /\ PointsTo(NoTypes)
    BY NoImplsTyped DEF NoTypes, PointsTo
  <2> QED
    BY <1>1, <2>1, StartTyped DEF CompileStd
<1>2. ASSUME NEW p \in Programs, Compile(p) PROVE TypeOK'
  <2>1. FirstRegistry \in Registry /\ PointsTo(FirstRegistry)
    BY <1>2, NoImplsTyped DEF Compile, FirstRegistry, TypeOK, PointsTo, NoTypes
  <2> QED
    BY <1>2, <2>1, StartTyped DEF Compile
<1>3. CASE DeclareImpl
  BY <1>3, DeclareImplTyped
<1>4. CASE DeclareImpls
  <2>1. HeapOK'
    BY <1>4, RegistryTyped, SameHeap DEF DeclareImpls, session, fill, TypeOK
  <2>2. RestOK'
    BY <1>4 DEF DeclareImpls, session, fill, TypeOK, RestOK, Phases
  <2> QED
    BY <2>1, <2>2 DEF TypeOK, HeapOK, RestOK
<1>5. ASSUME NEW k \in DOMAIN cells, FillImpls(k) PROVE TypeOK'
  <2>1. HeapOK'
    BY <1>5, SameHeap DEF FillImpls, session, TypeOK
  <2>2. RestOK'
    BY <1>5, NoImplsTyped
       DEF FillImpls, Uncompiled, session, TypeOK, RestOK, Phases
  <2> QED
    BY <2>1, <2>2 DEF TypeOK, HeapOK, RestOK
<1>6. ASSUME NEW i \in left, FillImpl(i) PROVE TypeOK'
  <2>1. HeapOK'
    BY <1>6, FillImplCells, ExtendedHeap DEF FillImpl
  <2>2. RestOK'
    BY <1>6, FillImplErrors DEF FillImpl, TypeOK, RestOK
  <2> QED
    BY <2>1, <2>2 DEF TypeOK, HeapOK, RestOK
<1>7. CASE FilledImpls
  <2>1. HeapOK'
    BY <1>7, FilledImplsCells, ExtendedHeap DEF FilledImpls
  <2>2. RestOK'
    BY <1>7 DEF FilledImpls, TypeOK, RestOK
  <2> QED
    BY <2>1, <2>2 DEF TypeOK, HeapOK, RestOK
<1>8. CASE EndFill
  <2>1. HeapOK'
    BY <1>8, RegistryTyped, SameHeap DEF EndFill, fill, TypeOK
  <2>2. RestOK'
    BY <1>8, CurTyped DEF EndFill, fill, TypeOK, RestOK, Phases
  <2> QED
    BY <2>1, <2>2 DEF TypeOK, HeapOK, RestOK
<1>9. ASSUME NEW k \in DOMAIN cells, GenerateImpl(k) PROVE TypeOK'
  <2>1. HeapOK'
    BY <1>9, SameHeap DEF GenerateImpl, session, fill, TypeOK
  <2>2. RestOK'
    BY <1>9, GenerateImplTyped DEF GenerateImpl, session, fill, TypeOK, RestOK
  <2> QED
    BY <2>1, <2>2 DEF TypeOK, HeapOK, RestOK
<1>10. ASSUME NEW t \in Visible, Lookup(t) PROVE TypeOK'
  <2>1. t \in Type
    BY VisibleTyped
  <2>2. HeapOK'
    BY <1>10, <2>1, LookupCells, ExtendedHeap DEF Lookup, fill
  <2>3. RestOK'
    BY <1>10 DEF Lookup, fill, TypeOK, RestOK
  <2> QED
    BY <2>2, <2>3 DEF TypeOK, HeapOK, RestOK
<1>11. CASE Consume
  <2>1. HeapOK'
    BY <1>11 DEF Consume, fill, TypeOK, HeapOK, PointsTo
  <2>2. RestOK'
    BY <1>11, CurTyped DEF Consume, fill, TypeOK, RestOK, Phases
  <2> QED
    BY <2>1, <2>2 DEF TypeOK, HeapOK, RestOK
<1>12. CASE Panic
  <2>1. HeapOK'
    BY <1>12, SameHeap DEF Panic, session, fill, TypeOK
  <2>2. RestOK'
    BY <1>12 DEF Panic, session, fill, TypeOK, RestOK, Phases
  <2> QED
    BY <2>1, <2>2 DEF TypeOK, HeapOK, RestOK
<1>13. CASE UNCHANGED vars
  BY <1>13 DEF vars, fill, TypeOK, PointsTo
<1> QED
  BY <1>1, <1>2, <1>3, <1>4, <1>5, <1>6, <1>7, <1>8, <1>9, <1>10, <1>11,
     <1>12, <1>13 DEF Next

-----------------------------------------------------------------------------
(* The rest of the invariant.                                              *)

(* Only these actions change the heap.                                     *)
LEMMA HeapChanges ==
  ASSUME [Next]_vars
  PROVE  \/ UNCHANGED cells
         \/ DeclareImpl /\ InsertImpl(CurImpls[item])
         \/ \E i \in left : FillImpl(i)
         \/ FilledImpls
         \/ \E t \in Visible : Lookup(t)
BY DEF Next, vars, session, CompileStd, Compile, Start, DeclareImpl,
       NotAnInterface, DeclareImpls, FillImpls, EndFill, GenerateImpl, Consume,
       Panic

LEMMA CurImplTyped ==
  ASSUME TypeOK, DeclareImpl
  PROVE  CurImpls[item] \in ImplAst
BY CurImplsTyped DEF TypeOK, DeclareImpl

LEMMA CellsDomain ==
  TypeOK => DOMAIN cells = 1..Len(cells)
BY LenProperties DEF TypeOK

LEMMA FillingStep ==
  ASSUME TypeOK, FillingExisting, [Next]_vars
  PROVE  FillingExisting'
<1>1. ASSUME NEW i \in left, FillImpl(i) PROVE FillingExisting'
  <2>1. /\ UNCHANGED <<filling, phase>> /\ left' \subseteq left
        /\ filling # None /\ filling \in 1..Len(cells) /\ left \subseteq Interface
    BY <1>1 DEF FillImpl, TypeOK
  <2>2. cells'[filling].interfaces[i] # None
    BY <1>1, FillImplCells, ImplFields
  <2>3. \A j \in left' : j # i =>
          cells'[filling].interfaces[j] = cells[filling].interfaces[j]
    BY <1>1, <2>1, FillImplCells
  <2> QED
    BY <2>1, <2>2, <2>3 DEF FillingExisting
<1>2. ASSUME NEW k \in DOMAIN cells, FillImpls(k) PROVE FillingExisting'
  BY <1>2 DEF FillImpls, FillingExisting, Uncompiled, session
<1>3. CASE \/ CompileStd \/ (\E p \in Programs : Compile(p)) \/ DeclareImpl
           \/ DeclareImpls \/ FilledImpls \/ EndFill
           \/ (\E k \in DOMAIN cells : GenerateImpl(k))
           \/ (\E t \in Visible : Lookup(t)) \/ Consume \/ Panic
  <2>1. filling' = None
    BY <1>3 DEF CompileStd, Compile, Start, DeclareImpl, DeclareImpls,
                FilledImpls, EndFill, GenerateImpl, Lookup, Consume, Panic, fill,
                FillingExisting
  <2> QED
    BY <2>1 DEF FillingExisting
<1>4. CASE UNCHANGED vars
  BY <1>4 DEF vars, fill, FillingExisting
<1> QED
  BY <1>1, <1>2, <1>3, <1>4 DEF Next

LEMMA IsolatedStep ==
  ASSUME TypeOK, FillingExisting, OwnTypesIsolated, [Next]_vars
  PROVE  OwnTypesIsolated'
<1>1. CASE UNCHANGED cells
  BY <1>1 DEF OwnTypesIsolated, Isolated
<1>2. CASE DeclareImpl /\ InsertImpl(CurImpls[item])
  <2> DEFINE ast == CurImpls[item]
             t == TypeOf(cur, ast.type)
             i == TypeOf(cur, ast.iface)
  <2>1. ast \in ImplAst
    BY <1>2, CurImplTyped
  <2>2. ast.type \in Names /\ ast.iface \in Names
    BY <2>1 DEF ImplAst
  <2>3. t.of \in {0, cur} /\ i.of \in {0, cur}
    BY <2>2, CurTyped, TypeOfTyped
  <2>4. /\ Extended
        /\ cells'[CellOf(t)].implementor = t
        /\ \A k \in 1..Len(cells'), j \in Interface :
             \/ /\ k = CellOf(t) /\ j = i
                /\ cells'[k].interfaces[j] = NewImpl(ast)
             \/ /\ k \in 1..Len(cells)
                /\ cells'[k].interfaces[j] = cells[k].interfaces[j]
             \/ cells'[k].interfaces[j] = None
    BY <1>2, <2>1, InsertImplCells
  <2>5. NewImpl(ast).module = cur
    BY DEF NewImpl
  <2> HIDE DEF t, i, ast
  <2>6. ASSUME NEW k \in DOMAIN cells', NEW j \in Interface,
               cells'[k].interfaces[j] # None
        PROVE  /\ cells'[k].implementor.of \in {0, cells'[k].interfaces[j].module}
               /\ j.of \in {0, cells'[k].interfaces[j].module}
    <3>1. k \in 1..Len(cells')
      BY <2>4, LenProperties DEF Extended
    <3>2. CASE k = CellOf(t) /\ j = i /\ cells'[k].interfaces[j] = NewImpl(ast)
      BY <2>3, <2>4, <2>5, <3>2
    <3>3. CASE /\ k \in 1..Len(cells)
               /\ cells'[k].interfaces[j] = cells[k].interfaces[j]
      <4>1. cells'[k].implementor = cells[k].implementor
        BY <2>4, <3>3 DEF Extended
      <4> QED
        BY <2>6, <3>3, <4>1, CellsDomain DEF OwnTypesIsolated, Isolated
    <3> QED
      BY <2>4, <2>6, <3>1, <3>2, <3>3
  <2> QED
    BY <2>6 DEF OwnTypesIsolated, Isolated
<1>3. ASSUME NEW i \in left, FillImpl(i) PROVE OwnTypesIsolated'
  <2>1. /\ Extended /\ Len(cells') = Len(cells)
        /\ cells[filling].interfaces[i] \in Impl
        /\ cells'[filling].interfaces[i].module
             = cells[filling].interfaces[i].module
        /\ \A k \in 1..Len(cells), j \in Interface :
             (k = filling /\ j = i)
               \/ cells'[k].interfaces[j] = cells[k].interfaces[j]
    BY <1>3, FillImplCells
  <2>2. DOMAIN cells' = 1..Len(cells) /\ DOMAIN cells = 1..Len(cells)
    BY <2>1, CellsDomain, LenProperties DEF Extended
  <2>3. cells[filling].interfaces[i] # None
    BY <2>1, ImplFields
  <2>4. ASSUME NEW k \in 1..Len(cells), NEW j \in Interface,
               cells'[k].interfaces[j] # None
        PROVE  /\ cells[k].interfaces[j] # None
               /\ cells'[k].interfaces[j].module = cells[k].interfaces[j].module
    BY <2>1, <2>3, <2>4
  <2>5. \A k \in 1..Len(cells) : cells'[k].implementor = cells[k].implementor
    BY <2>1 DEF Extended
  <2> QED
    BY <2>2, <2>4, <2>5 DEF OwnTypesIsolated, Isolated
<1>4. CASE FilledImpls
  BY <1>4, FilledImplsCells, CellsDomain, LenProperties
     DEF OwnTypesIsolated, Isolated, Extended
<1>5. ASSUME NEW t \in Visible, Lookup(t) PROVE OwnTypesIsolated'
  <2>1. /\ Extended
        /\ \A k \in 1..Len(cells') :
             \/ k \in 1..Len(cells) /\ cells'[k] = cells[k]
             \/ cells'[k].interfaces = NoImpls
    BY <1>5, LookupCells, VisibleTyped
  <2>2. DOMAIN cells' = 1..Len(cells')
    BY <2>1, LenProperties DEF Extended
  <2> QED
    BY <2>1, <2>2, CellsDomain DEF OwnTypesIsolated, Isolated, NoImpls
<1> QED
  BY <1>1, <1>2, <1>3, <1>4, <1>5, HeapChanges

LEMMA MethodsRequiredStep ==
  ASSUME TypeOK, FillingExisting, MethodsRequired, [Next]_vars
  PROVE  MethodsRequired'
<1>1. CASE UNCHANGED cells
  BY <1>1 DEF MethodsRequired
<1>2. CASE DeclareImpl /\ InsertImpl(CurImpls[item])
  <2> DEFINE ast == CurImpls[item]
  <2>1. ast \in ImplAst
    BY <1>2, CurImplTyped
  <2>2. /\ Extended
        /\ \A k \in 1..Len(cells'), j \in Interface :
             \/ cells'[k].interfaces[j] = NewImpl(ast)
             \/ /\ k \in 1..Len(cells)
                /\ cells'[k].interfaces[j] = cells[k].interfaces[j]
             \/ cells'[k].interfaces[j] = None
    BY <1>2, <2>1, InsertImplCells
  <2>3. NewImpl(ast).methods = {}
    BY DEF NewImpl
  <2>4. DOMAIN cells' = 1..Len(cells')
    BY <2>2, LenProperties DEF Extended
  <2> HIDE DEF ast
  <2> QED
    BY <2>2, <2>3, <2>4, CellsDomain DEF MethodsRequired
<1>3. ASSUME NEW i \in left, FillImpl(i) PROVE MethodsRequired'
  <2>1. /\ Extended /\ Len(cells') = Len(cells)
        /\ filling \in 1..Len(cells) /\ i \in Interface
        /\ cells[filling].interfaces[i] \in Impl
        /\ cells'[filling].interfaces[i].methods \subseteq
             cells[filling].interfaces[i].methods \cup Required[i.name]
        /\ \A k \in 1..Len(cells), j \in Interface :
             (k = filling /\ j = i)
               \/ cells'[k].interfaces[j] = cells[k].interfaces[j]
    BY <1>3, FillImplCells
  <2>2. DOMAIN cells' = 1..Len(cells) /\ DOMAIN cells = 1..Len(cells)
    BY <2>1, CellsDomain, LenProperties DEF Extended
  <2>3. cells[filling].interfaces[i].methods \subseteq Required[i.name]
    BY <2>1, <2>2, ImplFields DEF MethodsRequired
  <2> QED
    BY <2>1, <2>2, <2>3 DEF MethodsRequired
<1>4. CASE FilledImpls
  BY <1>4, FilledImplsCells, CellsDomain, LenProperties
     DEF MethodsRequired, Extended
<1>5. ASSUME NEW t \in Visible, Lookup(t) PROVE MethodsRequired'
  <2>1. /\ Extended
        /\ \A k \in 1..Len(cells') :
             \/ k \in 1..Len(cells) /\ cells'[k] = cells[k]
             \/ cells'[k].interfaces = NoImpls
    BY <1>5, LookupCells, VisibleTyped
  <2>2. DOMAIN cells' = 1..Len(cells')
    BY <2>1, LenProperties DEF Extended
  <2> QED
    BY <2>1, <2>2, CellsDomain DEF MethodsRequired, NoImpls
<1> QED
  BY <1>1, <1>2, <1>3, <1>4, <1>5, HeapChanges

LEMMA AgesStep ==
  ASSUME TypeOK, Ages, [Next]_vars
  PROVE  Ages'
<1>1. cur \in Nat /\ past \in Seq(Program) /\ (cur = 0 => past = <<>>)
      /\ (past = <<>> => cur = 0)
  BY CurTyped, EmptySeq DEF TypeOK, cur
<1>2. CASE CompileStd
  BY <1>1, <1>2 DEF CompileStd, Start, Ages, cur
<1>3. ASSUME NEW p \in Programs, Compile(p) PROVE Ages'
  <2>1. cur' = cur + 1
    BY <1>1, <1>3, ImplsAreAsts, AppendProperties DEF Compile, cur
  <2>2. cur' \notin compiled
    BY <1>1, <2>1 DEF Ages
  <2>3. UNCHANGED <<cached, std_impls, compiled, lifecycle>>
        /\ phase' = "declare" /\ (cached => std_impls # None)
    BY <1>3 DEF Compile, Start
  <2> QED
    BY <1>1, <2>1, <2>2, <2>3 DEF Ages
<1>4. CASE EndFill
  <2>1. /\ UNCHANGED <<cached, past, std_impls, compiled>> /\ cur' = cur
        /\ phase = "fill" /\ lifecycle' = lifecycle \cup {cur}
    BY <1>4 DEF EndFill, cur
  <2> QED
    BY <1>1, <2>1 DEF Ages
<1>5. CASE Consume
  BY <1>1, <1>5 DEF Consume, Ages, cur
<1>6. CASE \/ DeclareImpl \/ DeclareImpls
           \/ (\E k \in DOMAIN cells : FillImpls(k))
           \/ (\E i \in left : FillImpl(i)) \/ FilledImpls
           \/ (\E k \in DOMAIN cells : GenerateImpl(k))
           \/ (\E t \in Visible : Lookup(t)) \/ Panic \/ UNCHANGED vars
  <2>1. /\ UNCHANGED <<cached, past, std_impls, compiled, lifecycle>>
        /\ phase' # "idle" => phase # "idle"
        /\ phase' = "generate" => phase = "generate"
    BY <1>6 DEF DeclareImpl, DeclareImpls, FillImpls, FillImpl, FilledImpls,
                GenerateImpl, Lookup, Panic, vars, session
  <2> QED
    BY <2>1 DEF Ages, cur
<1> QED
  BY <1>2, <1>3, <1>4, <1>5, <1>6 DEF Next

-----------------------------------------------------------------------------
(* What fill_impls_ accepts is complete.                                   *)

LEMMA RequiredFinite ==
  ASSUME NEW i \in Interface
  PROVE  /\ Required[i.name] \subseteq Methods
         /\ IsFiniteSet(Required[i.name])
         /\ Cardinality(Required[i.name]) \in Nat
<1>1. i.name \in IfaceNames
  BY DEF Interface
<1>2. Required[i.name] \subseteq Methods
  BY <1>1, NamesAreSplit
<1> QED
  BY <1>2, NamesAreSplit, FS_Subset, FS_CardinalityType

(* The correction for lifecycle methods never makes the code ask for       *)
(* fewer methods than the interface has.                                   *)
LEMMA WantedEnough ==
  ASSUME Ages, NEW i \in Interface
  PROVE  WantedLen(i) \in Int /\ WantedLen(i) >= Cardinality(Required[i.name])
<1>1. Cardinality(Required[i.name]) \in Nat
  BY RequiredFinite
<1>2. i.of \in compiled => i.of \in lifecycle
  BY DEF Ages
<1> DEFINE c == Cardinality(Required[i.name])
<1>3. WantedLen(i) \in {c, c + 3}
  <2> HIDE DEF c
  <2>1. IfaceMethodLen(i) = c + (IF i.of \in lifecycle THEN 3 ELSE 0)
    BY DEF IfaceMethodLen, c
  <2>2. WantedLen(i) = IfaceMethodLen(i) - (IF i.of \in compiled THEN 3 ELSE 0)
    BY DEF WantedLen
  <2>3. c \in Nat
    BY <1>1 DEF c
  <2> QED
    BY <1>2, <2>1, <2>2, <2>3
<1> QED
  BY <1>1, <1>3

LEMMA AcceptedIsComplete ==
  ASSUME Ages, NEW i \in Interface, NEW S \in SUBSET Required[i.name],
         ~(WantedLen(i) > Cardinality(S))
  PROVE  S = Required[i.name]
<1>1. Cardinality(S) \in Nat /\ Cardinality(S) <= Cardinality(Required[i.name])
  BY RequiredFinite, FS_Subset, FS_CardinalityType
<1>2. Cardinality(S) = Cardinality(Required[i.name])
  BY <1>1, RequiredFinite, WantedEnough
<1> QED
  BY <1>2, RequiredFinite, FS_Subset

LEMMA FilledStep ==
  ASSUME IInv, [Next]_vars
  PROVE  FilledSoFar'
<1> SUFFICES ASSUME errors' = {}
             PROVE  /\ phase' = "fill" =>
                         \A k \in Registered' \ todo', i \in Interface :
                           OwnFilled(k, i)' \/ (filling' = k /\ i \in left')
                    /\ phase' = "generate" =>
                         \A k \in Registered', i \in Interface : OwnFilled(k, i)'
  BY DEF FilledSoFar
<1>0. /\ TypeOK /\ FillingExisting /\ Ages /\ MethodsRequired
      /\ Registered \subseteq 1..Len(cells)
  BY RegistryTyped DEF IInv
<1>1. CASE DeclareImpls
  BY <1>1 DEF DeclareImpls, session, Registered
<1>2. ASSUME NEW c \in DOMAIN cells, FillImpls(c), phase' = "fill"
      PROVE  \A k \in Registered' \ todo', i \in Interface :
               OwnFilled(k, i)' \/ (filling' = k /\ i \in left')
  <2>1. /\ UNCHANGED <<cells, iface_impls, past, compiled, errors>>
        /\ phase = "fill" /\ filling = None /\ todo' = todo \ {c}
        /\ filling' = c /\ left' = Uncompiled(c)
    BY <1>2 DEF FillImpls, session
  <2>2. cur' = cur /\ Registered' = Registered /\ cur \notin compiled
    BY <1>0, <2>1 DEF cur, Registered, Ages
  <2>3. \A k \in Registered \ todo, i \in Interface : OwnFilled(k, i)
    BY <1>0, <2>1, NoneIsNothing DEF IInv, FilledSoFar
  <2>4. \A k \in Registered, i \in Interface : OwnFilled(k, i)' <=> OwnFilled(k, i)
    BY <2>1, <2>2 DEF OwnFilled
  <2>5. \A i \in Interface : OwnFilled(c, i) \/ i \in left'
    BY <2>1, <2>2 DEF OwnFilled, Uncompiled
  <2> QED
    BY <2>1, <2>2, <2>3, <2>4, <2>5
<1>3. ASSUME NEW n \in left, FillImpl(n)
      PROVE  \A k \in Registered' \ todo', i \in Interface :
               OwnFilled(k, i)' \/ (filling' = k /\ i \in left')
  <2> DEFINE impl == cells[filling].interfaces[n]
             new  == cells'[filling].interfaces[n]
             known == {m \in Methods : Occurrences(impl.wants, m) > 0}
                        \cap Required[n.name]
  <2>1. /\ UNCHANGED <<iface_impls, past, filling, todo>>
        /\ filling # None /\ left' = left \ {n}
        /\ errors = {} /\ ~(WantedLen(n) > Cardinality(impl.methods \cup known))
    BY <1>3 DEF FillImpl
  <2>2. cur' = cur /\ Registered' = Registered
    BY <2>1 DEF cur, Registered
  <2>3. phase = "fill"
    BY <1>0, <2>1 DEF FillingExisting
  <2>4. /\ Len(cells') = Len(cells)
        /\ filling \in 1..Len(cells)
        /\ n \in Interface
        /\ impl \in Impl
        /\ new.module = impl.module
        /\ new.methods = impl.methods \cup known
        /\ \A k \in 1..Len(cells), j \in Interface :
             (k = filling /\ j = n)
               \/ cells'[k].interfaces[j] = cells[k].interfaces[j]
    BY <1>0, <1>3, FillImplCells
  <2>5. impl.methods \subseteq Required[n.name]
    BY <1>0, <2>4, ImplFields, CellsDomain DEF MethodsRequired
  <2>6. impl.methods \cup known = Required[n.name]
    BY <1>0, <2>1, <2>4, <2>5, AcceptedIsComplete
  <2>7. OwnFilled(filling, n)'
    BY <2>1, <2>4, <2>6 DEF OwnFilled
  <2> HIDE DEF impl, new, known
  <2>8. ASSUME NEW k \in Registered \ todo, NEW i \in Interface,
               ~(k = filling /\ i = n)
        PROVE  OwnFilled(k, i)' \/ (filling' = k /\ i \in left')
    <3>1. OwnFilled(k, i) \/ (filling = k /\ i \in left)
      BY <2>1, <2>3 DEF IInv, FilledSoFar
    <3>2. cells'[k].interfaces[i] = cells[k].interfaces[i]
      BY <1>0, <2>4, <2>8
    <3>3. OwnFilled(k, i) => OwnFilled(k, i)'
      BY <2>2, <3>2 DEF OwnFilled
    <3> QED
      BY <2>1, <2>8, <3>1, <3>3
  <2> QED
    BY <2>1, <2>2, <2>7, <2>8
<1>4. CASE FilledImpls
  <2>1. /\ UNCHANGED <<iface_impls, past, phase, todo, errors>>
        /\ filling # None /\ left = {}
    BY <1>4 DEF FilledImpls
  <2>2. cur' = cur /\ Registered' = Registered
    BY <2>1 DEF cur, Registered
  <2>3. \A k \in 1..Len(cells) : cells'[k].interfaces = cells[k].interfaces
    BY <1>0, <1>4, FilledImplsCells
  <2>4. phase = "fill"
    BY <1>0, <2>1 DEF FillingExisting
  <2>5. \A k \in Registered \ todo, i \in Interface : OwnFilled(k, i)
    BY <2>1, <2>4 DEF IInv, FilledSoFar
  <2>6. \A k \in Registered, i \in Interface : OwnFilled(k, i) => OwnFilled(k, i)'
    BY <1>0, <2>2, <2>3 DEF OwnFilled
  <2> QED
    BY <2>1, <2>2, <2>4, <2>5, <2>6
<1>5. CASE EndFill
  <2>1. /\ UNCHANGED <<iface_impls, past, cells, errors>>
        /\ phase = "fill" /\ filling = None /\ todo = {} /\ phase' = "generate"
    BY <1>5 DEF EndFill
  <2>2. cur' = cur /\ Registered' = Registered
    BY <2>1 DEF cur, Registered
  <2>3. \A k \in Registered, i \in Interface : OwnFilled(k, i)
    BY <1>0, <2>1, NoneIsNothing DEF IInv, FilledSoFar
  <2>4. \A k \in Registered, i \in Interface : OwnFilled(k, i) => OwnFilled(k, i)'
    BY <2>1, <2>2 DEF OwnFilled
  <2> QED
    BY <2>1, <2>2, <2>3, <2>4
<1>6. ASSUME NEW t \in Visible, Lookup(t)
      PROVE  \A k \in Registered', i \in Interface : OwnFilled(k, i)'
  <2>1. UNCHANGED <<past, errors>> /\ phase = "generate"
    BY <1>6 DEF Lookup
  <2>2. t \in Type
    BY <1>0, VisibleTyped
  <2>3. \A k \in 1..Len(cells') :
          \/ k \in 1..Len(cells) /\ cells'[k] = cells[k]
          \/ cells'[k].interfaces = NoImpls
    BY <1>0, <1>6, <2>2, LookupCells
  <2>4. iface_impls' = [iface_impls EXCEPT ![t] = CellOf(t)]
        /\ iface_impls \in Registry
    BY <1>0, <1>6 DEF Lookup, TypeOK
  <2>5. Registered' \subseteq Registered \cup {CellOf(t)}
    BY <2>2, <2>4 DEF Registered, Registry
  <2>6. CellOf(t) \in 1..Len(cells') /\ Extended
    BY <1>0, <1>6, <2>2, LookupCells
  <2>7. CellOf(t) \notin 1..Len(cells)
    BY <1>0, <1>6, LenProperties DEF TypeOK, Lookup, CellOf
  <2>8. Registered \subseteq 1..Len(cells')
    BY <1>0, <2>6, LenProperties DEF Extended, TypeOK
  <2>9. \A k \in Registered, i \in Interface : OwnFilled(k, i)
    BY <2>1 DEF IInv, FilledSoFar
  <2>10. ASSUME NEW k \in Registered', NEW i \in Interface
         PROVE  OwnFilled(k, i)'
    <3>1. CASE cells'[k].interfaces = NoImpls
      BY <3>1 DEF OwnFilled, NoImpls
    <3>2. CASE k \in 1..Len(cells) /\ cells'[k] = cells[k]
      BY <2>1, <2>5, <2>7, <2>9, <3>2 DEF OwnFilled, cur
    <3> QED
      BY <2>3, <2>5, <2>6, <2>8, <3>1, <3>2
  <2> QED
    BY <2>10
<1>7. ASSUME NEW k \in DOMAIN cells, GenerateImpl(k) PROVE
        /\ UNCHANGED <<cells, iface_impls, past, errors>>
        /\ phase = "generate"
  BY <1>7 DEF GenerateImpl, session
<1>8. CASE \/ CompileStd \/ (\E p \in Programs : Compile(p)) \/ DeclareImpl
           \/ Consume \/ Panic
  BY <1>8 DEF CompileStd, Compile, Start, DeclareImpl, Consume, Panic
<1>9. CASE UNCHANGED vars
  BY <1>9 DEF vars, fill, IInv, FilledSoFar, Registered, OwnFilled, cur
<1> QED
  <2>1. ASSUME NEW k \in DOMAIN cells, GenerateImpl(k)
        PROVE  phase' = "generate" =>
                 \A c \in Registered', i \in Interface : OwnFilled(c, i)'
    BY <1>7, <2>1 DEF IInv, FilledSoFar, Registered, OwnFilled, cur
  <2>2. /\ \A k \in DOMAIN cells : GenerateImpl(k) => phase' = "generate"
        /\ \A k \in DOMAIN cells : FillImpls(k) => phase' = "fill"
        /\ \A t \in Visible : Lookup(t) => phase' = "generate"
    BY DEF GenerateImpl, FillImpls, Lookup
  <2>3. \A n \in left : FillImpl(n) => phase' = "fill"
    BY <1>0 DEF FillImpl, FillingExisting
  <2> QED
    BY <1>1, <1>2, <1>3, <1>4, <1>5, <1>6, <1>8, <1>9, <2>1, <2>2, <2>3 DEF Next

-----------------------------------------------------------------------------
(* The theorems.                                                           *)

LEMMA InitIInv == Init => IInv
<1> SUFFICES ASSUME Init PROVE IInv
  OBVIOUS
<1>1. TypeOK
  BY NoImplsTyped, EmptySeq, SessionBound
     DEF Init, TypeOK, Phases, PointsTo, NoTypes
<1>2. FillingExisting /\ Ages /\ FilledSoFar
  BY DEF Init, FillingExisting, Ages, FilledSoFar
<1>3. OwnTypesIsolated /\ MethodsRequired
  BY DEF Init, OwnTypesIsolated, MethodsRequired
<1> QED
  BY <1>1, <1>2, <1>3 DEF IInv

LEMMA IInvStep == IInv /\ [Next]_vars => IInv'
BY TypeOKStep, FillingStep, IsolatedStep, AgesStep, MethodsRequiredStep,
   FilledStep DEF IInv

LEMMA IInvHolds == Spec => []IInv
BY InitIInv, IInvStep, PTL DEF Spec

(* Every variable has its type and no registry holds a dangling or foreign *)
(* cell: get_iface_impls (resolver.rs) always returns the type's own.      *)
THEOREM TypeCorrect == Spec => []TypeOK
<1>1. IInv => TypeOK
  BY DEF IInv
<1> QED
  BY <1>1, IInvHolds, PTL

(* Whatever the programs of a session are, types a program declares never  *)
(* carry another's impls, although with_cached_std (lib.rs) shares cells.  *)
THEOREM OwnTypesIsolatedHolds == Spec => []OwnTypesIsolated
<1>1. IInv => OwnTypesIsolated
  BY DEF IInv
<1> QED
  BY <1>1, IInvHolds, PTL

(* The count that fill_impls_ (methods.rs) compares, corrected for the     *)
(* lifecycle methods of compiled interfaces, accepts no impl that lacks a  *)
(* method: what a compilation without errors generates is complete.        *)
THEOREM ImplsCompleteHolds == Spec => []ImplsComplete
<1>1. IInv => ImplsComplete
  BY DEF IInv, FilledSoFar, OwnFilled, ImplsComplete
<1> QED
  BY <1>1, IInvHolds, PTL
-----------------------------------------------------------------------------
(* A compilation generates its own modules.                                *)

(* Compilation c of a program is over.                                     *)
Ran(c) == c < cur \/ phase = "idle"

(* Modules are marked compiled unless the compilation panicked.            *)
RunsAreMarked ==
  /\ cached /\ std_impls # None => 0 \in compiled
  /\ \A c \in 1..cur : Ran(c) => past[c].panics \/ c \in compiled

ImplementsForStd(p) == \E j \in DOMAIN p.impls : p.impls[j].type \in StdNames

(* c is one of the n compilations of the programs ps; if it has an impl    *)
(* for a type of std, its program declared one.                            *)
HasOrigin(c, of, ps, n) ==
  /\ c \in 0..n
  /\ (of = 0 /\ c # 0) => ImplementsForStd(ps[c])

ImplsHaveOrigin ==
  \A k \in DOMAIN cells, i \in Interface :
    LET impl == cells[k].interfaces[i]
    IN  impl # None =>
          HasOrigin(impl.module, cells[k].implementor.of, past, cur)

(* The registry knows types of std and of the running compilation only.    *)
RegistryIsCurrent ==
  /\ \A t \in Type : iface_impls[t] # None =>
       t.of = cur \/ (cached /\ t.of = 0)
  /\ std_impls # None => \A t \in Type : std_impls[t] # None => t.of = 0

TodoRegistered == /\ todo \subseteq Registered
                  /\ phase = "idle" => todo = {}

OriginInv == /\ RunsAreMarked
             /\ ImplsHaveOrigin
             /\ RegistryIsCurrent
             /\ TodoRegistered
             /\ OnlyOwnModulesGenerated

LEMMA PastChanges ==
  ASSUME [Next]_vars
  PROVE  UNCHANGED past \/ \E p \in Programs : Compile(p)
BY DEF Next, vars, session, CompileStd, Start, DeclareImpl, DeclareImpls,
       FillImpls, FillImpl, FilledImpls, EndFill, GenerateImpl, Lookup,
       Consume, Panic

LEMMA PastGrows ==
  ASSUME TypeOK, NEW p \in Programs, Compile(p)
  PROVE  /\ cur \in Nat /\ cur' = cur + 1
         /\ \A c \in 1..cur : past'[c] = past[c]
         /\ UNCHANGED <<cached, cells, std_impls, compiled>>
         /\ phase = "idle" /\ phase' = "declare"
         /\ iface_impls' = FirstRegistry /\ todo' = todo /\ generated' = {}
         /\ cached => std_impls # None
<1>1. past \in Seq(Program) /\ p \in Program /\ past' = Append(past, p)
  BY ImplsAreAsts DEF TypeOK, Compile
<1>2. /\ Len(past') = Len(past) + 1
      /\ \A c \in 1..Len(past) : past'[c] = past[c]
  BY <1>1, AppendProperties
<1> QED
  BY <1>1, <1>2, LenProperties DEF Compile, Start, cur

LEMMA MarkedStep ==
  ASSUME TypeOK, RunsAreMarked, [Next]_vars
  PROVE  RunsAreMarked'
<1>1. cur \in Nat
  BY CurTyped
<1>2. ASSUME NEW p \in Programs, Compile(p) PROVE RunsAreMarked'
  <2>1. /\ cur' = cur + 1 /\ \A c \in 1..cur : past'[c] = past[c]
        /\ UNCHANGED <<cached, std_impls, compiled>>
        /\ phase = "idle" /\ phase' = "declare"
    BY <1>2, PastGrows
  <2>2. ASSUME NEW c \in 1..cur', Ran(c)'
        PROVE  past'[c].panics \/ c \in compiled'
    <3>1. c \in 1..cur
      BY <1>1, <2>1, <2>2 DEF Ran
    <3> QED
      BY <2>1, <3>1 DEF RunsAreMarked, Ran
  <2> QED
    BY <2>1, <2>2 DEF RunsAreMarked
<1>3. CASE Consume
  <2>1. /\ UNCHANGED <<cached, past>> /\ cur' = cur
        /\ compiled' = compiled \cup {cur}
        /\ std_impls' # None => cur = 0 \/ std_impls # None
    BY <1>3 DEF Consume, cur
  <2>2. ASSUME NEW c \in 1..cur, c # cur
        PROVE  past[c].panics \/ c \in compiled
    BY <1>1, <2>2 DEF RunsAreMarked, Ran
  <2> QED
    BY <2>1, <2>2 DEF RunsAreMarked
<1>4. CASE Panic
  <2>1. UNCHANGED <<cached, past, std_impls, compiled>> /\ cur' = cur
    BY <1>4 DEF Panic, session, cur
  <2>2. cur \in 1..cur => past[cur].panics
    BY <1>1, <1>4 DEF Panic, Panics
  <2>3. ASSUME NEW c \in 1..cur, c # cur
        PROVE  past[c].panics \/ c \in compiled
    BY <1>1, <2>3 DEF RunsAreMarked, Ran
  <2> QED
    BY <2>1, <2>2, <2>3 DEF RunsAreMarked
<1>5. CASE \/ CompileStd \/ DeclareImpl \/ DeclareImpls
           \/ (\E k \in DOMAIN cells : FillImpls(k))
           \/ (\E i \in left : FillImpl(i)) \/ FilledImpls \/ EndFill
           \/ (\E k \in DOMAIN cells : GenerateImpl(k))
           \/ (\E t \in Visible : Lookup(t)) \/ UNCHANGED vars
  <2>1. /\ UNCHANGED <<cached, past, std_impls, compiled>>
        /\ phase' = "idle" => phase = "idle"
    BY <1>5 DEF CompileStd, Start, DeclareImpl, DeclareImpls, FillImpls,
                FillImpl, FilledImpls, EndFill, GenerateImpl, Lookup, vars, session
  <2> QED
    BY <2>1 DEF RunsAreMarked, Ran, cur
<1> QED
  BY <1>2, <1>3, <1>4, <1>5 DEF Next

LEMMA NewImplHasOrigin ==
  ASSUME TypeOK, DeclareImpl
  PROVE  (TypeOf(cur, CurImpls[item].type).of = 0 /\ cur # 0)
           => ImplementsForStd(past[cur])
<1> DEFINE ast == CurImpls[item]
<1>1. SUFFICES ASSUME TypeOf(cur, ast.type).of = 0, cur # 0
               PROVE  ImplementsForStd(past[cur])
  OBVIOUS
<1>2. cached /\ ast.type \in StdNames
  BY <1>1 DEF TypeOf
<1>3. CurImpls = past[cur].impls
  BY <1>1, <1>2 DEF CurImpls
<1>4. past[cur].impls \in Seq(ImplAst)
  <2>1. cur \in 1..Len(past)
    BY <1>1, CurTyped DEF cur
  <2>2. past[cur] \in Program
    BY <2>1, ElementOfSeq DEF TypeOK
  <2> QED
    BY <2>2 DEF Program
<1>5. item \in DOMAIN past[cur].impls
  BY <1>3, <1>4, LenProperties DEF TypeOK, DeclareImpl
<1> QED
  BY <1>2, <1>3, <1>5 DEF ImplementsForStd

LEMMA OriginStep ==
  ASSUME TypeOK, FillingExisting, ImplsHaveOrigin, [Next]_vars
  PROVE  ImplsHaveOrigin'
<1>0. cur \in Nat
  BY CurTyped
<1>1. ASSUME NEW p \in Programs, Compile(p) PROVE ImplsHaveOrigin'
  <2>1. /\ cur' = cur + 1 /\ \A c \in 1..cur : past'[c] = past[c]
        /\ UNCHANGED cells
    BY <1>1, PastGrows
  <2>2. ASSUME NEW c, NEW of, HasOrigin(c, of, past, cur)
        PROVE  HasOrigin(c, of, past', cur')
    <3>1. c \in 0..cur /\ ((of = 0 /\ c # 0) => ImplementsForStd(past[c]))
      BY <2>2 DEF HasOrigin
    <3>2. c \in 0..cur' /\ (c # 0 => past'[c] = past[c])
      BY <1>0, <2>1, <3>1
    <3> QED
      BY <3>1, <3>2 DEF HasOrigin
  <2> QED
    BY <2>1, <2>2 DEF ImplsHaveOrigin
<1>2. CASE UNCHANGED past /\ UNCHANGED cells
  BY <1>2 DEF ImplsHaveOrigin, cur
<1>3. CASE UNCHANGED past /\ DeclareImpl /\ InsertImpl(CurImpls[item])
  <2> DEFINE ast == CurImpls[item]
             t == TypeOf(cur, ast.type)
             i == TypeOf(cur, ast.iface)
  <2>1. ast \in ImplAst
    BY <1>3, CurImplTyped
  <2>2. /\ Extended
        /\ cells'[CellOf(t)].implementor = t
        /\ \A k \in 1..Len(cells'), j \in Interface :
             \/ /\ k = CellOf(t) /\ j = i
                /\ cells'[k].interfaces[j] = NewImpl(ast)
             \/ /\ k \in 1..Len(cells)
                /\ cells'[k].interfaces[j] = cells[k].interfaces[j]
             \/ cells'[k].interfaces[j] = None
    BY <1>3, <2>1, InsertImplCells
  <2>3. NewImpl(ast).module = cur
    BY DEF NewImpl
  <2>4. (t.of = 0 /\ cur # 0) => ImplementsForStd(past[cur])
    BY <1>3, NewImplHasOrigin
  <2>5. cur' = cur /\ past' = past
    BY <1>3 DEF cur
  <2> HIDE DEF t, i, ast
  <2>6. ASSUME NEW k \in DOMAIN cells', NEW j \in Interface,
               cells'[k].interfaces[j] # None
        PROVE  HasOrigin(cells'[k].interfaces[j].module,
                         cells'[k].implementor.of, past', cur')
    <3>1. k \in 1..Len(cells')
      BY <2>2, LenProperties DEF Extended
    <3>2. CASE k = CellOf(t) /\ j = i /\ cells'[k].interfaces[j] = NewImpl(ast)
      <4>1. cells'[k].interfaces[j].module = cur /\ cells'[k].implementor = t
        BY <2>2, <2>3, <3>2
      <4> QED
        BY <1>0, <2>4, <2>5, <4>1 DEF HasOrigin
    <3>3. CASE /\ k \in 1..Len(cells)
               /\ cells'[k].interfaces[j] = cells[k].interfaces[j]
      <4>1. k \in DOMAIN cells /\ cells'[k].implementor = cells[k].implementor
        BY <2>2, <3>3, CellsDomain DEF Extended
      <4>2. /\ cells[k].interfaces[j] # None
            /\ cells'[k].interfaces[j].module = cells[k].interfaces[j].module
        BY <2>6, <3>3
      <4> QED
        BY <2>5, <4>1, <4>2 DEF ImplsHaveOrigin
    <3> QED
      BY <2>2, <2>6, <3>1, <3>2, <3>3
  <2> QED
    BY <2>6 DEF ImplsHaveOrigin
<1>4. ASSUME UNCHANGED past, NEW i \in left, FillImpl(i) PROVE ImplsHaveOrigin'
  <2>1. /\ Extended /\ Len(cells') = Len(cells)
        /\ cells[filling].interfaces[i] \in Impl
        /\ cells'[filling].interfaces[i].module
             = cells[filling].interfaces[i].module
        /\ \A k \in 1..Len(cells), j \in Interface :
             (k = filling /\ j = i)
               \/ cells'[k].interfaces[j] = cells[k].interfaces[j]
    BY <1>4, FillImplCells
  <2>2. DOMAIN cells' = DOMAIN cells /\ DOMAIN cells = 1..Len(cells)
    BY <2>1, CellsDomain, LenProperties DEF Extended
  <2>3. cells[filling].interfaces[i] # None
    BY <2>1, ImplFields
  <2>4. ASSUME NEW k \in 1..Len(cells), NEW j \in Interface,
               cells'[k].interfaces[j] # None
        PROVE  /\ cells[k].interfaces[j] # None
               /\ cells'[k].interfaces[j].module = cells[k].interfaces[j].module
               /\ cells'[k].implementor = cells[k].implementor
    BY <2>1, <2>3, <2>4 DEF Extended
  <2>5. ASSUME NEW k \in DOMAIN cells', NEW j \in Interface,
               cells'[k].interfaces[j] # None
        PROVE  HasOrigin(cells'[k].interfaces[j].module,
                         cells'[k].implementor.of, past', cur')
    <3>1. k \in DOMAIN cells /\ k \in 1..Len(cells)
      BY <2>2, <2>5
    <3>2. /\ cells[k].interfaces[j] # None
          /\ cells'[k].interfaces[j].module = cells[k].interfaces[j].module
          /\ cells'[k].implementor = cells[k].implementor
      BY <2>4, <2>5, <3>1
    <3> QED
      BY <1>4, <3>1, <3>2 DEF ImplsHaveOrigin, cur
  <2> QED
    BY <2>5 DEF ImplsHaveOrigin
<1>5. CASE UNCHANGED past /\ FilledImpls
  <2>1. /\ Extended /\ Len(cells') = Len(cells)
        /\ \A k \in 1..Len(cells) : cells'[k].interfaces = cells[k].interfaces
    BY <1>5, FilledImplsCells
  <2>2. DOMAIN cells' = 1..Len(cells) /\ DOMAIN cells = 1..Len(cells)
    BY <2>1, CellsDomain, LenProperties DEF Extended
  <2>3. \A k \in DOMAIN cells' : /\ k \in DOMAIN cells
                                 /\ cells'[k].interfaces = cells[k].interfaces
                                 /\ cells'[k].implementor = cells[k].implementor
    BY <2>1, <2>2 DEF Extended
  <2>4. cur' = cur /\ past' = past
    BY <1>5 DEF cur
  <2> QED
    BY <2>3, <2>4 DEF ImplsHaveOrigin
<1>6. ASSUME UNCHANGED past, NEW t \in Visible, Lookup(t) PROVE ImplsHaveOrigin'
  <2>1. /\ Extended
        /\ \A k \in 1..Len(cells') :
             \/ k \in 1..Len(cells) /\ cells'[k] = cells[k]
             \/ cells'[k].interfaces = NoImpls
    BY <1>6, LookupCells, VisibleTyped
  <2>2. DOMAIN cells' = 1..Len(cells')
    BY <2>1, LenProperties DEF Extended
  <2>3. \A k \in DOMAIN cells' :
          \/ k \in DOMAIN cells /\ cells'[k] = cells[k]
          \/ \A j \in Interface : cells'[k].interfaces[j] = None
    BY <2>1, <2>2, CellsDomain DEF NoImpls
  <2>4. cur' = cur /\ past' = past
    BY <1>6 DEF cur
  <2> QED
    BY <2>3, <2>4 DEF ImplsHaveOrigin
<1> QED
  BY <1>1, <1>2, <1>3, <1>4, <1>5, <1>6, PastChanges, HeapChanges

(* A registry with the cell of one more type.                              *)
LEMMA OneMoreType ==
  ASSUME TypeOK, RegistryIsCurrent, TodoRegistered, NEW t \in Type,
         t.of = cur \/ (cached /\ t.of = 0), phase # "idle",
         iface_impls' = [iface_impls EXCEPT ![t] = CellOf(t)],
         UNCHANGED <<cached, past, phase, std_impls, todo>>
  PROVE  RegistryIsCurrent' /\ TodoRegistered'
<1>1. cur' = cur
  BY DEF cur
<1>2. \A u \in Type : iface_impls'[u] =
        IF u = t THEN CellOf(t) ELSE iface_impls[u]
  BY DEF TypeOK, Registry
<1>3. RegistryIsCurrent'
  BY <1>1, <1>2 DEF RegistryIsCurrent
<1>4. \A u \in Type : iface_impls[u] # None => iface_impls'[u] = iface_impls[u]
  BY <1>2 DEF CellOf
<1>5. Registered \subseteq Registered'
  BY <1>4 DEF Registered
<1> QED
  BY <1>3, <1>5 DEF TodoRegistered

LEMMA CurrentTypes ==
  ASSUME TypeOK, NEW n \in Names
  PROVE  /\ TypeOf(cur, n) \in Type
         /\ TypeOf(cur, n).of = cur \/ (cached /\ TypeOf(cur, n).of = 0)
BY CurTyped, TypeOfTyped DEF TypeOf

LEMMA RegistryStep ==
  ASSUME TypeOK, RegistryIsCurrent, TodoRegistered, [Next]_vars
  PROVE  RegistryIsCurrent' /\ TodoRegistered'
<1>1. CASE CompileStd
  <2>1. /\ UNCHANGED <<std_impls, todo>> /\ phase = "idle" /\ phase' = "declare"
        /\ iface_impls' = NoTypes
    BY <1>1 DEF CompileStd, Start
  <2> QED
    BY <2>1 DEF RegistryIsCurrent, TodoRegistered, NoTypes
<1>2. ASSUME NEW p \in Programs, Compile(p)
      PROVE  RegistryIsCurrent' /\ TodoRegistered'
  <2>1. /\ UNCHANGED <<cached, std_impls, todo>>
        /\ phase = "idle" /\ phase' = "declare"
        /\ iface_impls' = FirstRegistry /\ (cached => std_impls # None)
    BY <1>2, PastGrows
  <2>2. \A t \in Type : iface_impls'[t] # None => cached /\ t.of = 0
    BY <2>1 DEF FirstRegistry, RegistryIsCurrent, NoTypes
  <2> QED
    BY <2>1, <2>2 DEF RegistryIsCurrent, TodoRegistered
<1>3. CASE DeclareImpl
  <2> DEFINE ast == CurImpls[item]
  <2>1. /\ UNCHANGED <<cached, past, phase, std_impls, todo>>
        /\ phase = "declare"
    BY <1>3 DEF DeclareImpl
  <2>2. CASE NotAnInterface(ast)
    BY <2>1, <2>2 DEF NotAnInterface, RegistryIsCurrent, TodoRegistered,
                      Registered, cur
  <2>3. CASE InsertImpl(ast)
    <3>1. PICK t : t = TypeOf(cur, ast.type)
      OBVIOUS
    <3>2. t \in Type /\ (t.of = cur \/ (cached /\ t.of = 0))
      BY <1>3, <3>1, CurImplTyped, CurrentTypes DEF ImplAst
    <3>3. iface_impls' = [iface_impls EXCEPT ![t] = CellOf(t)]
      BY <2>3, <3>1 DEF InsertImpl
    <3> QED
      BY <2>1, <3>2, <3>3, OneMoreType
  <2> QED
    BY <1>3, <2>2, <2>3 DEF DeclareImpl
<1>4. ASSUME NEW t \in Visible, Lookup(t)
      PROVE  RegistryIsCurrent' /\ TodoRegistered'
  <2>1. t \in Type /\ (t.of = cur \/ (cached /\ t.of = 0))
    BY CurrentTypes DEF Visible, Names
  <2>2. /\ UNCHANGED <<cached, past, phase, std_impls, todo>>
        /\ phase = "generate"
        /\ iface_impls' = [iface_impls EXCEPT ![t] = CellOf(t)]
    BY <1>4 DEF Lookup
  <2> QED
    BY <2>1, <2>2, OneMoreType
<1>5. CASE Consume
  <2>1. /\ UNCHANGED <<cached, past, iface_impls, todo>> /\ cur' = cur
        /\ todo = {}
        /\ \/ std_impls' = std_impls
           \/ cur = 0 /\ std_impls' = iface_impls
    BY <1>5 DEF Consume, cur
  <2> QED
    BY <2>1 DEF RegistryIsCurrent, TodoRegistered
<1>6. CASE \/ DeclareImpls \/ (\E k \in DOMAIN cells : FillImpls(k))
           \/ (\E i \in left : FillImpl(i)) \/ FilledImpls \/ EndFill
           \/ (\E k \in DOMAIN cells : GenerateImpl(k))
           \/ Panic \/ UNCHANGED vars
  <2>1. /\ UNCHANGED <<cached, past, iface_impls, std_impls>>
        /\ cur' = cur /\ Registered' = Registered
    BY <1>6 DEF DeclareImpls, FillImpls, FillImpl, FilledImpls, EndFill,
                GenerateImpl, Panic, vars, session, cur, Registered
  <2>2. /\ todo' \subseteq todo \cup Registered
        /\ phase' = "idle" => todo' = {} \/ (phase = "idle" /\ todo' = todo)
    BY <1>6 DEF DeclareImpls, FillImpls, FillImpl, FilledImpls, EndFill,
                GenerateImpl, Panic, vars, session
  <2> QED
    BY <2>1, <2>2 DEF RegistryIsCurrent, TodoRegistered
<1> QED
  BY <1>1, <1>2, <1>3, <1>4, <1>5, <1>6 DEF Next

(* What is not compiled yet is of the running compilation: the modules of  *)
(* an earlier one are compiled unless it panicked, and one that panicked   *)
(* left nothing with the types that the registry knows.                    *)
LEMMA UncompiledIsOwn ==
  ASSUME IInv, OriginInv, cached => Unbroken, phase # "idle",
         NEW k \in Registered, NEW i \in Uncompiled(k)
  PROVE  cells[k].interfaces[i].module = cur
<1>0. /\ TypeOK /\ Ages /\ OwnTypesIsolated /\ RunsAreMarked
      /\ ImplsHaveOrigin /\ RegistryIsCurrent
      /\ cur \in Nat
  BY CurTyped DEF IInv, OriginInv
<1>1. PICK t \in Type : iface_impls[t] = k /\ k # None
  BY DEF Registered
<1>2. k \in DOMAIN cells /\ cells[k].implementor = t
  BY <1>0, <1>1, RegistryTyped, CellsDomain
<1>3. PICK c : c = cells[k].interfaces[i].module
  OBVIOUS
<1>4. i \in Interface /\ cells[k].interfaces[i] # None /\ c \notin compiled
  BY <1>3 DEF Uncompiled
<1>5. t.of \in {0, c}
  BY <1>0, <1>2, <1>3, <1>4 DEF OwnTypesIsolated, Isolated
<1>6. c \in 0..cur /\ ((t.of = 0 /\ c # 0) => ImplementsForStd(past[c]))
  BY <1>0, <1>2, <1>3, <1>4 DEF ImplsHaveOrigin, HasOrigin
<1>7. t.of = cur \/ (cached /\ t.of = 0)
  BY <1>0, <1>1 DEF RegistryIsCurrent
<1>8. c = 0 => cur = 0
  <2>1. SUFFICES ASSUME c = 0, cur # 0 PROVE FALSE
    OBVIOUS
  <2>2. cached
    BY <1>5, <1>7, <2>1
  <2>3. past # <<>>
    BY <2>1, EmptySeq DEF cur
  <2>4. 0 \in compiled
    BY <1>0, <2>2, <2>3 DEF Ages, RunsAreMarked
  <2> QED
    BY <1>4, <2>1, <2>4
<1>9. ~(c # 0 /\ c # cur)
  <2>1. SUFFICES ASSUME c # 0, c # cur PROVE FALSE
    OBVIOUS
  <2>2. c \in 1..(cur - 1) /\ c \in 1..cur /\ c < cur
    BY <1>0, <1>6, <2>1
  <2>3. past[c].panics
    BY <1>0, <1>4, <2>2 DEF RunsAreMarked, Ran
  <2>4. cached /\ t.of = 0
    BY <1>0, <1>5, <1>7, <2>1, <2>2
  <2>5. PICK j \in DOMAIN past[c].impls : past[c].impls[j].type \in StdNames
    BY <1>6, <2>1, <2>4 DEF ImplementsForStd
  <2>6. Unbroken
    BY <2>4
  <2> QED
    BY <2>2, <2>3, <2>5, <2>6 DEF Unbroken
<1> QED
  BY <1>3, <1>8, <1>9

LEMMA GeneratedStep ==
  ASSUME IInv, OriginInv, [Next]_vars
  PROVE  OnlyOwnModulesGenerated'
<1>1. CASE CompileStd \/ \E p \in Programs : Compile(p)
  <2>1. generated' = {}
    BY <1>1 DEF CompileStd, Compile, Start
  <2> QED
    BY <2>1 DEF OnlyOwnModulesGenerated
<1>2. ASSUME NEW k \in DOMAIN cells, GenerateImpl(k)
      PROVE  OnlyOwnModulesGenerated'
  <2>1. /\ UNCHANGED <<cached, past>> /\ cur' = cur
        /\ phase = "generate" /\ k \in todo
        /\ generated' = generated \cup {cells[k].interfaces[i].module : i \in
             {u \in Uncompiled(k) : cells[k].interfaces[u].methods # {}}}
    BY <1>2 DEF GenerateImpl, session, cur
  <2>2. Unbroken' <=> Unbroken
    BY <2>1 DEF Unbroken
  <2>3. k \in Registered
    BY <2>1 DEF OriginInv, TodoRegistered
  <2>4. ASSUME cached => Unbroken
        PROVE  \A i \in Uncompiled(k) : cells[k].interfaces[i].module = cur
    BY <2>1, <2>3, <2>4, UncompiledIsOwn
  <2> QED
    BY <2>1, <2>2, <2>4 DEF OriginInv, OnlyOwnModulesGenerated
<1>3. CASE \/ DeclareImpl \/ DeclareImpls
           \/ (\E k \in DOMAIN cells : FillImpls(k))
           \/ (\E i \in left : FillImpl(i)) \/ FilledImpls \/ EndFill
           \/ (\E t \in Visible : Lookup(t)) \/ Consume \/ Panic \/ UNCHANGED vars
  <2>1. UNCHANGED <<cached, past, generated>>
    BY <1>3 DEF DeclareImpl, DeclareImpls, FillImpls, FillImpl, FilledImpls,
                EndFill, Lookup, Consume, Panic, vars, session
  <2> QED
    BY <2>1 DEF OriginInv, OnlyOwnModulesGenerated, Unbroken, cur
<1> QED
  BY <1>1, <1>2, <1>3 DEF Next

LEMMA OriginInvHolds == Spec => []OriginInv
<1>1. Init => OriginInv
  <2> SUFFICES ASSUME Init PROVE OriginInv
    OBVIOUS
  <2>1. cur = 0
    BY EmptySeq DEF Init, cur
  <2>2. RunsAreMarked /\ ImplsHaveOrigin
    BY <2>1 DEF Init, RunsAreMarked, ImplsHaveOrigin
  <2>3. RegistryIsCurrent /\ TodoRegistered /\ OnlyOwnModulesGenerated
    BY DEF Init, RegistryIsCurrent, NoTypes, TodoRegistered,
           OnlyOwnModulesGenerated
  <2> QED
    BY <2>2, <2>3 DEF OriginInv
<1>2. IInv /\ OriginInv /\ [Next]_vars => OriginInv'
  BY MarkedStep, OriginStep, RegistryStep, GeneratedStep DEF IInv, OriginInv
<1> QED
  BY <1>1, <1>2, IInvHolds, PTL DEF Spec

(* The impls that a compilation generates code for are those of its own    *)
(* modules, for any std, programs and number of compilations, whatever     *)
(* earlier programs implemented for std's types, unless one of them        *)
(* panicked that had an impl block for such a type (generate_impls in      *)
(* passes/generate.rs, consume in lib.rs).                                 *)
THEOREM OnlyOwnGenerated == Spec => []OnlyOwnModulesGenerated
<1>1. OriginInv => OnlyOwnModulesGenerated
  BY DEF OriginInv
<1> QED
  BY <1>1, OriginInvHolds, PTL

-----------------------------------------------------------------------------
(* What a compilation comes to, and what compiling std and the program     *)
(* together comes to, is compared block by block.  Blocks up to Base are   *)
(* those of a std compiled before; those up to n are declared next.        *)

TypeAt(j) == TypeOf(cur, AllImpls[j].type)
IfaceAt(j) == TypeOf(cur, AllImpls[j].iface)

Base == IF cached /\ cur # 0 THEN Len(StdImpls) ELSE 0

BlocksTo(n) == {j \in Blocks : j <= n}

(* The last block of each pair counts.                                     *)
Latest(n) == {j \in BlocksTo(n) : \A k \in BlocksTo(n) : SamePair(j, k) => k <= j}

Front == IF phase = "declare" THEN Base + item - 1 ELSE Len(AllImpls)

Found(t, i) == IF iface_impls[t] = None THEN None
               ELSE cells[iface_impls[t]].interfaces[i]

ImplAt(j) == Found(TypeAt(j), IfaceAt(j))

RegistryAgrees(n) ==
  /\ \A j \in BlocksTo(n) : ImplAt(j) # None
  /\ \A j \in Latest(n) :
       /\ ImplAt(j).module = ModuleOf(j)
       /\ j > Base => ImplAt(j).wants = AllImpls[j].methods
  /\ \A t \in Visible, i \in Visible \cap Interface :
       Found(t, i) # None => \E j \in Latest(n) : TypeAt(j) = t /\ IfaceAt(j) = i

DeclErrors(n) ==
  {ErrOf("E307", j, None) : j \in {k \in DOMAIN AllImpls \ Blocks : k <= n}}
  \cup {ErrOf("E306", j, None) : j \in BlocksTo(n) \ Latest(n)}

FillErrors(S) ==
  {ErrOf("E313", jm[1], jm[2]) :
     jm \in {x \in S \X Methods : x[2] \in Has(x[1]) \ Needs(x[1])}}
  \cup {ErrOf("E314", j, None) : j \in {x \in S : ~(Needs(x) \subseteq Has(x))}}

(* fill_impls_ has yet to come to the impl of block j.                     *)
Pending(j) == \/ iface_impls[TypeAt(j)] \in todo
              \/ filling # None /\ filling = iface_impls[TypeAt(j)] /\ IfaceAt(j) \in left

Own(n) == {j \in Latest(n) : j > Base}

Filled == {j \in Own(Len(AllImpls)) : ~Pending(j)}

Comparable == phase # "idle" /\ (cached => Undisturbed)

FreshInv ==
  Comparable =>
    /\ RegistryAgrees(Front)
    /\ phase = "declare" =>
         /\ errors = DeclErrors(Front)
         /\ \A j \in Own(Front) : ImplAt(j).methods = {}
    /\ phase = "fill" =>
         /\ errors = DeclErrors(Front) \cup FillErrors(Filled)
         /\ \A j \in Own(Front) \ Filled : ImplAt(j).methods = {}
    /\ phase = "generate" => errors = FreshErrors

(* The types that compilation c knows.                                     *)
VisibleTo(c) == {TypeOf(c, n) : n \in IF c = 0 THEN StdNames ELSE Names}

(* Registries hold visible types, impls are of visible interfaces.         *)
VisibleInv ==
  /\ phase # "idle" => \A t \in Type : iface_impls[t] # None => t \in Visible
  /\ std_impls # None => \A t \in Type : std_impls[t] # None => t.of = 0 /\ t.name \in StdNames
  /\ \A k \in DOMAIN cells, i \in Interface :
       LET impl == cells[k].interfaces[i]
       IN  impl # None => i \in VisibleTo(impl.module)

(* The lifecycle methods of a compilation are declared when the fill pass  *)
(* is over, those of a std that was compiled before are there and marked.  *)
AgesInv ==
  /\ phase \in {"declare", "fill"} => cur \notin lifecycle
  /\ phase = "idle" /\ cur = 0 /\ 0 \notin compiled => 0 \notin lifecycle
  /\ phase # "idle" /\ cur = 0 => cached
  /\ phase # "idle" /\ cur # 0 /\ cached => std_impls # None
  /\ std_impls # None => cached

FillingInv == filling # None => /\ filling \in Registered \ todo
                                /\ left \subseteq Uncompiled(filling)

(* What the cached std is like.                                            *)
StdClean ==
  \A j \in DOMAIN StdImpls :
    /\ StdImpls[j].iface \in IfaceNames
    /\ Required[StdImpls[j].iface] =
         {StdImpls[j].methods[x] : x \in DOMAIN StdImpls[j].methods}
    /\ \A k \in DOMAIN StdImpls :
         StdImpls[k].type = StdImpls[j].type /\ StdImpls[k].iface = StdImpls[j].iface => k = j

StdType(n) == [name |-> n, of |-> 0]

StdFound(n, i) == IF std_impls[StdType(n)] = None THEN None
                  ELSE cells[std_impls[StdType(n)]].interfaces[StdType(i)]

StdAgrees ==
  /\ \A j \in DOMAIN StdImpls :
       LET impl == StdFound(StdImpls[j].type, StdImpls[j].iface)
       IN  impl # None /\ impl.module = 0
  /\ \A n \in StdNames, i \in StdNames \cap IfaceNames : StdFound(n, i) # None =>
       \E j \in DOMAIN StdImpls : StdImpls[j].type = n /\ StdImpls[j].iface = i

(* No program so far implemented one of std's interfaces for one of std's  *)
(* types.                                                                  *)
StdKept ==
  \A c \in 1..cur : \A j \in DOMAIN past[c].impls :
    past[c].impls[j].type \in StdNames =>
      past[c].impls[j].iface \notin StdNames \cap IfaceNames

StdInv ==
  std_impls # None =>
    /\ StdClean
    /\ StdKept => StdAgrees

-----------------------------------------------------------------------------
(* What the registry and the cells can hold, and what is marked when.      *)

LEMMA VisibleToTyped ==
  ASSUME NEW c \in Compilations, cached \in BOOLEAN
  PROVE  VisibleTo(c) \subseteq Type
<1>1. 0 \in Compilations BY SessionBound DEF Compilations
<1> QED BY <1>1 DEF VisibleTo, TypeOf, Type, Names

LEMMA VisibleIs == Visible = VisibleTo(cur)
BY DEF Visible, VisibleTo

(* The names of an impl block are visible.                                 *)
LEMMA CurNamesVisible ==
  ASSUME TypeOK, NEW j \in 1..Len(CurImpls)
  PROVE  TypeOf(cur, CurImpls[j].type) \in Visible /\ TypeOf(cur, CurImpls[j].iface) \in Visible
<1>1. CurImpls[j].type \in Names /\ CurImpls[j].iface \in Names
  BY CurImplsTyped DEF ImplAst
<1>2. cur = 0 => CurImpls[j].type \in StdNames /\ CurImpls[j].iface \in StdNames
  <2>1. SUFFICES ASSUME cur = 0 PROVE j \in DOMAIN StdImpls /\ CurImpls = StdImpls
    BY StdIsClosed
  <2>2. CurImpls = StdImpls BY <2>1 DEF CurImpls
  <2> QED BY <2>2, ImplsAreAsts, LenProperties
<1> QED BY <1>1, <1>2 DEF Visible

LEMMA AgesInvHolds == Spec => []AgesInv
<1>1. Init => AgesInv
  <2> SUFFICES ASSUME Init PROVE AgesInv OBVIOUS
  <2> QED BY DEF Init, AgesInv
<1>2. TypeOK /\ Ages /\ AgesInv /\ RunsAreMarked /\ [Next]_vars => AgesInv'
  <2> SUFFICES ASSUME TypeOK, Ages, AgesInv, RunsAreMarked, [Next]_vars PROVE AgesInv'
    OBVIOUS
  <2>0. cur \in Nat BY CurTyped
  <2>1. CASE CompileStd
    <3>1. /\ UNCHANGED <<past, cached, lifecycle, compiled, std_impls>> /\ phase' = "declare"
          /\ cached /\ std_impls = None /\ 0 \notin compiled /\ phase = "idle"
      BY <2>1 DEF CompileStd, Start
    <3>2. cur = 0 /\ cur' = cur BY <3>1, EmptySeq DEF Ages, cur
    <3> QED BY <3>1, <3>2 DEF AgesInv
  <2>2. ASSUME NEW p \in Programs, Compile(p) PROVE AgesInv'
    <3>1. /\ cur' = cur + 1 /\ UNCHANGED <<cached, std_impls, compiled>>
          /\ phase' = "declare" /\ (cached => std_impls # None)
      BY <2>2, PastGrows
    <3>2. lifecycle' = lifecycle BY <2>2 DEF Compile, Start
    <3>3. cur' \notin lifecycle BY <2>0, <3>1 DEF Ages
    <3> QED BY <2>0, <3>1, <3>2, <3>3 DEF AgesInv
  <2>3. CASE EndFill
    <3>1. /\ UNCHANGED <<cached, past, std_impls, compiled>> /\ cur' = cur
          /\ phase = "fill" /\ phase' = "generate"
      BY <2>3 DEF EndFill, cur
    <3> QED BY <3>1 DEF AgesInv
  <2>4. CASE Consume
    <3>1. /\ UNCHANGED <<cached, past, lifecycle>> /\ cur' = cur
          /\ phase = "generate" /\ phase' = "idle" /\ compiled' = compiled \cup {cur}
          /\ std_impls' # None => cur = 0 \/ std_impls # None
      BY <2>4 DEF Consume, cur
    <3> QED BY <3>1 DEF AgesInv
  <2>5. CASE Panic
    <3>1. /\ UNCHANGED session /\ cur' = cur /\ phase' = "idle" /\ cur # 0
      BY <2>5 DEF Panic, Panics, session, cur
    <3> QED BY <3>1 DEF AgesInv, session
  <2>6. CASE \/ DeclareImpl \/ DeclareImpls
             \/ (\E k \in DOMAIN cells : FillImpls(k))
             \/ (\E i \in left : FillImpl(i)) \/ FilledImpls
             \/ (\E k \in DOMAIN cells : GenerateImpl(k))
             \/ (\E t \in Visible : Lookup(t)) \/ UNCHANGED vars
    <3>1. /\ UNCHANGED <<cached, past, std_impls, compiled, lifecycle>>
          /\ phase' = phase \/ (phase = "declare" /\ phase' = "fill")
      BY <2>6 DEF DeclareImpl, DeclareImpls, FillImpls, FillImpl, FilledImpls,
                  GenerateImpl, Lookup, vars, session
    <3> QED BY <3>1 DEF AgesInv, cur
  <2> QED BY <2>1, <2>2, <2>3, <2>4, <2>5, <2>6 DEF Next
<1> QED BY <1>1, <1>2, IInvHolds, OriginInvHolds, PTL DEF Spec, IInv, OriginInv

(* An impl is there already, or the one that is being declared.            *)
OldImpl(k, i) ==
  /\ k \in DOMAIN cells /\ cells[k].interfaces[i] # None
  /\ cells'[k].implementor = cells[k].implementor
  /\ cells'[k].interfaces[i].module = cells[k].interfaces[i].module
  /\ cells'[k].interfaces[i].wants = cells[k].interfaces[i].wants

BeingDeclared(k, i) ==
  /\ DeclareImpl /\ InsertImpl(CurImpls[item])
  /\ k = CellOf(TypeOf(cur, CurImpls[item].type))
  /\ cells'[k].implementor = TypeOf(cur, CurImpls[item].type)
  /\ i = TypeOf(cur, CurImpls[item].iface)
  /\ cells'[k].interfaces[i] = NewImpl(CurImpls[item])

LEMMA ImplsChange ==
  ASSUME TypeOK, FillingExisting, [Next]_vars,
         NEW k \in DOMAIN cells', NEW i \in Interface, cells'[k].interfaces[i] # None
  PROVE  OldImpl(k, i) \/ BeingDeclared(k, i)
<1>0. DOMAIN cells = 1..Len(cells) BY CellsDomain
<1>1. CASE UNCHANGED cells
  BY <1>1 DEF OldImpl
<1>2. CASE DeclareImpl /\ InsertImpl(CurImpls[item])
  <2>1. PICK ast : ast = CurImpls[item] OBVIOUS
  <2>2. ast \in ImplAst /\ InsertImpl(ast) BY <1>2, <2>1, CurImplTyped
  <2>3. /\ Extended
        /\ cells'[CellOf(TypeOf(cur, ast.type))].implementor = TypeOf(cur, ast.type)
        /\ \A l \in 1..Len(cells'), j \in Interface :
             \/ /\ l = CellOf(TypeOf(cur, ast.type)) /\ j = TypeOf(cur, ast.iface)
                /\ cells'[l].interfaces[j] = NewImpl(ast)
             \/ /\ l \in 1..Len(cells)
                /\ cells'[l].interfaces[j] = cells[l].interfaces[j]
             \/ cells'[l].interfaces[j] = None
    BY <2>2, InsertImplCells
  <2>4. k \in 1..Len(cells') BY <2>3, LenProperties DEF Extended
  <2>5. CASE k \in 1..Len(cells) /\ cells'[k].interfaces[i] = cells[k].interfaces[i]
    BY <1>0, <2>3, <2>5 DEF Extended, OldImpl
  <2>6. CASE /\ k = CellOf(TypeOf(cur, ast.type)) /\ i = TypeOf(cur, ast.iface)
             /\ cells'[k].interfaces[i] = NewImpl(ast)
    BY <1>2, <2>1, <2>3, <2>6 DEF BeingDeclared
  <2> QED BY <2>3, <2>4, <2>5, <2>6
<1>3. ASSUME NEW n \in left, FillImpl(n) PROVE OldImpl(k, i)
  <2>1. /\ Extended /\ Len(cells') = Len(cells) /\ filling \in 1..Len(cells)
        /\ cells[filling].interfaces[n] \in Impl
        /\ cells'[filling].interfaces[n].module = cells[filling].interfaces[n].module
        /\ cells'[filling].interfaces[n].wants = cells[filling].interfaces[n].wants
        /\ \A l \in 1..Len(cells), j \in Interface :
             (l = filling /\ j = n) \/ cells'[l].interfaces[j] = cells[l].interfaces[j]
    BY <1>3, FillImplCells
  <2>2. k \in 1..Len(cells) BY <2>1, LenProperties DEF Extended
  <2>3. cells[filling].interfaces[n] # None BY <2>1, ImplFields
  <2>4. cells'[k].implementor = cells[k].implementor BY <2>1, <2>2 DEF Extended
  <2> QED BY <1>0, <2>1, <2>2, <2>3, <2>4 DEF OldImpl
<1>4. CASE FilledImpls
  BY <1>0, <1>4, FilledImplsCells, LenProperties DEF Extended, OldImpl
<1>5. ASSUME NEW t \in Visible, Lookup(t) PROVE OldImpl(k, i)
  <2>1. /\ Extended
        /\ \A l \in 1..Len(cells') :
             \/ l \in 1..Len(cells) /\ cells'[l] = cells[l]
             \/ cells'[l].interfaces = NoImpls
    BY <1>5, LookupCells, VisibleTyped
  <2>2. k \in 1..Len(cells') BY <2>1, LenProperties DEF Extended
  <2>3. cells'[k].interfaces # NoImpls BY DEF NoImpls
  <2> QED BY <1>0, <2>1, <2>2, <2>3 DEF OldImpl
<1> QED BY <1>1, <1>2, <1>3, <1>4, <1>5, HeapChanges

(* The registry of the running compilation grows by visible types.         *)
LEMMA RegistryGrows ==
  ASSUME TypeOK, [Next]_vars
  PROVE  \/ UNCHANGED iface_impls
         \/ phase = "idle" /\ (CompileStd \/ \E p \in Programs : Compile(p))
         \/ /\ phase # "idle" /\ UNCHANGED <<past, cached, phase, std_impls, compiled>>
            /\ \E t \in Visible : t \in Type /\ iface_impls' = [iface_impls EXCEPT ![t] = CellOf(t)]
<1>1. ASSUME DeclareImpl, InsertImpl(CurImpls[item])
      PROVE  \E t \in Visible : t \in Type /\ iface_impls' = [iface_impls EXCEPT ![t] = CellOf(t)]
  <2>1. item \in 1..Len(CurImpls) BY <1>1 DEF DeclareImpl, TypeOK
  <2>2. TypeOf(cur, CurImpls[item].type) \in Visible BY <2>1, CurNamesVisible
  <2>3. TypeOf(cur, CurImpls[item].type) \in Type BY <2>2, VisibleTyped
  <2> QED BY <1>1, <2>2, <2>3 DEF InsertImpl
<1>2. CASE DeclareImpl
  BY <1>1, <1>2 DEF DeclareImpl, NotAnInterface
<1>3. ASSUME NEW t \in Visible, Lookup(t)
      PROVE  /\ phase # "idle" /\ UNCHANGED <<past, cached, phase, std_impls, compiled>>
             /\ t \in Type /\ iface_impls' = [iface_impls EXCEPT ![t] = CellOf(t)]
  BY <1>3, VisibleTyped DEF Lookup
<1> QED
  BY <1>2, <1>3 DEF Next, vars, session, CompileStd, Compile, Start, DeclareImpls,
     FillImpls, FillImpl, FilledImpls, EndFill, GenerateImpl, Consume, Panic

LEMMA VisibleInvHolds == Spec => []VisibleInv
<1>1. Init => VisibleInv
  <2> SUFFICES ASSUME Init PROVE VisibleInv OBVIOUS
  <2> QED BY DEF Init, VisibleInv
<1>2. IInv /\ OriginInv /\ AgesInv /\ VisibleInv /\ [Next]_vars => VisibleInv'
  <2> SUFFICES ASSUME IInv, OriginInv, AgesInv, VisibleInv, [Next]_vars PROVE VisibleInv'
    OBVIOUS
  <2>0. TypeOK /\ FillingExisting /\ cur \in Nat /\ cached' = cached
    BY CurTyped DEF IInv, Next, vars, session, CompileStd, Compile, Start, DeclareImpl, DeclareImpls,
     FillImpls, FillImpl, FilledImpls, EndFill, GenerateImpl, Consume, Panic, Lookup
  <2>1. \A c : VisibleTo(c)' = VisibleTo(c) BY <2>0 DEF VisibleTo, TypeOf
  <2>2. ASSUME NEW k \in DOMAIN cells', NEW i \in Interface, cells'[k].interfaces[i] # None
        PROVE  i \in VisibleTo(cells'[k].interfaces[i].module)
    <3>1. CASE OldImpl(k, i)
      BY <3>1 DEF OldImpl, VisibleInv
    <3>2. CASE BeingDeclared(k, i)
      <4>1. item \in 1..Len(CurImpls) BY <2>0, <3>2 DEF BeingDeclared, DeclareImpl, TypeOK
      <4>2. i \in Visible BY <2>0, <3>2, <4>1, CurNamesVisible DEF BeingDeclared
      <4>3. cells'[k].interfaces[i].module = cur BY <3>2 DEF BeingDeclared, NewImpl
      <4> QED BY <4>2, <4>3, VisibleIs
    <3> QED BY <2>0, <2>2, <3>1, <3>2, ImplsChange
  <2>3. std_impls' # None => \A t \in Type : std_impls'[t] # None => t.of = 0 /\ t.name \in StdNames
    <3>1. CASE UNCHANGED std_impls BY <3>1 DEF VisibleInv
    <3>2. CASE Consume /\ cur = 0 /\ std_impls' = iface_impls
      <4>1. \A t \in Type : iface_impls[t] # None => t \in VisibleTo(0)
        BY <3>2, VisibleIs DEF VisibleInv, Consume
      <4>2. \A t \in VisibleTo(0) : t.of = 0 /\ t.name \in StdNames
        BY DEF VisibleTo, TypeOf
      <4> QED BY <3>2, <4>1, <4>2
    <3>3. UNCHANGED std_impls \/ (Consume /\ cur = 0 /\ std_impls' = iface_impls)
      BY DEF Next, vars, session, CompileStd, Compile, Start, DeclareImpl, DeclareImpls,
     FillImpls, FillImpl, FilledImpls, EndFill, GenerateImpl, Consume, Panic, Lookup
    <3> QED BY <3>1, <3>2, <3>3
  <2>4. phase' # "idle" => \A t \in Type : iface_impls'[t] # None => t \in Visible'
    <3>1. CASE CompileStd
      <4>1. iface_impls' = NoTypes BY <3>1 DEF CompileStd, Start
      <4> QED BY <4>1 DEF NoTypes
    <3>2. ASSUME NEW p \in Programs, Compile(p)
          PROVE  \A t \in Type : iface_impls'[t] # None => t \in Visible'
      <4>1. cur' = cur + 1 /\ iface_impls' = FirstRegistry /\ (cached => std_impls # None)
        BY <2>0, <3>2, PastGrows
      <4>2. ASSUME NEW t \in Type, iface_impls'[t] # None PROVE t \in Visible'
        <5>1. cached /\ t.of = 0 /\ t.name \in StdNames
          BY <4>1, <4>2 DEF FirstRegistry, NoTypes, VisibleInv
        <5>2. t = [name |-> t.name, of |-> 0] BY <5>1 DEF Type
        <5>3. t = TypeOf(cur, t.name)' BY <2>0, <5>1, <5>2 DEF TypeOf
        <5>4. t.name \in (IF cur' = 0 THEN StdNames ELSE Names) BY <5>1 DEF Names
        <5> QED BY <5>3, <5>4 DEF Visible
      <4> QED BY <4>2
    <3>3. CASE /\ phase # "idle" /\ UNCHANGED <<past, cached, phase, std_impls, compiled>>
               /\ \E t \in Visible : t \in Type /\ iface_impls' = [iface_impls EXCEPT ![t] = CellOf(t)]
      <4>1. PICK u \in Visible : u \in Type /\ iface_impls' = [iface_impls EXCEPT ![u] = CellOf(u)]
        BY <3>3
      <4>2. \A t \in Type : iface_impls'[t] = IF t = u THEN CellOf(u) ELSE iface_impls[t]
        BY <2>0, <4>1 DEF TypeOK, Registry
      <4>3. Visible' = Visible BY <3>3 DEF Visible, TypeOf, cur
      <4> QED BY <3>3, <4>1, <4>2, <4>3 DEF VisibleInv
    <3>4. CASE UNCHANGED <<iface_impls, past>> /\ (phase' # "idle" => phase # "idle")
      <4>1. Visible' = Visible BY <2>0, <3>4 DEF Visible, TypeOf, cur
      <4> QED BY <3>4, <4>1 DEF VisibleInv
    <3>5. \/ UNCHANGED <<iface_impls, past>> /\ (phase' # "idle" => phase # "idle")
          \/ CompileStd \/ (\E p \in Programs : Compile(p))
          \/ DeclareImpl \/ \E t \in Visible : Lookup(t)
      BY DEF Next, vars, session, DeclareImpls,
             FillImpls, FillImpl, FilledImpls, EndFill, GenerateImpl, Consume, Panic
    <3>6. DeclareImpl => UNCHANGED <<phase, past>> BY DEF DeclareImpl
    <3>7. \A t \in Visible : Lookup(t) => UNCHANGED <<phase, past>> BY DEF Lookup
    <3> QED BY <2>0, <3>1, <3>2, <3>3, <3>4, <3>5, <3>6, <3>7, RegistryGrows
  <2> QED BY <2>1, <2>2, <2>3, <2>4 DEF VisibleInv
<1> QED BY <1>1, <1>2, IInvHolds, OriginInvHolds, AgesInvHolds, PTL DEF Spec

LEMMA FillingInvHolds == Spec => []FillingInv
<1>1. Init => FillingInv BY DEF Init, FillingInv
<1>2. IInv /\ OriginInv /\ FillingInv /\ [Next]_vars => FillingInv'
  <2> SUFFICES ASSUME IInv, OriginInv, FillingInv, [Next]_vars PROVE FillingInv'
    OBVIOUS
  <2>0. TypeOK /\ FillingExisting BY DEF IInv
  <2>1. ASSUME NEW n \in left, FillImpl(n) PROVE FillingInv'
    <3>1. /\ UNCHANGED <<filling, iface_impls, compiled, todo>> /\ left' \subseteq left
          /\ filling # None
          /\ left \subseteq Interface
      BY <2>0, <2>1 DEF FillImpl, TypeOK
    <3>2. filling \in Registered' \ todo' BY <3>1 DEF FillingInv, Registered
    <3>3. /\ filling \in 1..Len(cells)
          /\ cells[filling].interfaces[n] \in Impl
          /\ cells'[filling].interfaces[n] \in Impl
          /\ cells'[filling].interfaces[n].module = cells[filling].interfaces[n].module
          /\ \A j \in Interface :
               j = n \/ cells'[filling].interfaces[j] = cells[filling].interfaces[j]
      BY <2>0, <2>1, FillImplCells
    <3>4. ASSUME NEW i \in left' PROVE i \in Uncompiled(filling)'
      <4>1. i \in Uncompiled(filling) /\ i \in Interface BY <3>1 DEF FillingInv
      <4>2. cells'[filling].interfaces[n] # None BY <3>3, ImplFields
      <4> QED BY <3>1, <3>3, <4>1, <4>2 DEF Uncompiled
    <3> QED BY <3>1, <3>2, <3>4 DEF FillingInv
  <2>2. ASSUME NEW k \in DOMAIN cells, FillImpls(k) PROVE FillingInv'
    <3>1. /\ UNCHANGED <<cells, iface_impls, compiled>> /\ k \in todo /\ filling' = k
          /\ left' = Uncompiled(k) /\ todo' = todo \ {k}
      BY <2>2 DEF FillImpls, session
    <3>2. k \in Registered' BY <3>1 DEF OriginInv, TodoRegistered, Registered
    <3> QED BY <3>1, <3>2 DEF FillingInv, Uncompiled
  <2>3. CASE \/ CompileStd \/ (\E p \in Programs : Compile(p)) \/ DeclareImpl
             \/ DeclareImpls \/ FilledImpls \/ EndFill
             \/ (\E k \in DOMAIN cells : GenerateImpl(k))
             \/ (\E t \in Visible : Lookup(t)) \/ Consume \/ Panic
    <3>1. filling' = None
      BY <2>0, <2>3 DEF CompileStd, Compile, Start, DeclareImpl, DeclareImpls,
                  FilledImpls, EndFill, GenerateImpl, Lookup, Consume, Panic, fill,
                  FillingExisting
    <3> QED BY <3>1 DEF FillingInv
  <2>4. CASE UNCHANGED vars
    BY <2>4 DEF vars, fill, FillingInv, Registered, Uncompiled
  <2> QED BY <2>1, <2>2, <2>3, <2>4 DEF Next
<1> QED BY <1>1, <1>2, IInvHolds, OriginInvHolds, PTL DEF Spec

-----------------------------------------------------------------------------
(* The impl blocks of a compilation.                                       *)

LEMMA BlocksSame ==
  ASSUME UNCHANGED <<cached, past>>
  PROVE  /\ cur' = cur /\ AllImpls' = AllImpls /\ CurImpls' = CurImpls /\ Blocks' = Blocks
         /\ Base' = Base /\ Visible' = Visible /\ Effective' = Effective
         /\ \A j : TypeAt(j)' = TypeAt(j) /\ IfaceAt(j)' = IfaceAt(j) /\ ModuleOf(j)' = ModuleOf(j)
         /\ \A n : BlocksTo(n)' = BlocksTo(n) /\ Latest(n)' = Latest(n) /\ Own(n)' = Own(n)
         /\ \A n : DeclErrors(n)' = DeclErrors(n)
         /\ \A S : FillErrors(S)' = FillErrors(S)
         /\ FreshErrors' = FreshErrors
         /\ Undisturbed' = Undisturbed /\ StdKept' = StdKept /\ Unbroken' = Unbroken
<1>1. cur' = cur BY DEF cur
<1>2. CurImpls' = CurImpls BY <1>1 DEF CurImpls
<1>3. AllImpls' = AllImpls BY <1>1, <1>2 DEF AllImpls
<1>4. Blocks' = Blocks BY <1>3 DEF Blocks, Valid
<1>5. Base' = Base BY <1>1 DEF Base
<1>6. \A c, n : TypeOf(c, n)' = TypeOf(c, n) BY DEF TypeOf
<1>7. Visible' = Visible BY <1>1 DEF Visible, TypeOf
<1>8. \A j : TypeAt(j)' = TypeAt(j) /\ IfaceAt(j)' = IfaceAt(j) /\ ModuleOf(j)' = ModuleOf(j)
  BY <1>1, <1>3 DEF TypeAt, IfaceAt, TypeOf, ModuleOf
<1>9. \A j, k : SamePair(j, k)' = SamePair(j, k) BY <1>3 DEF SamePair
<1>10. \A n : BlocksTo(n)' = BlocksTo(n) BY <1>4 DEF BlocksTo
<1>11. \A n : Latest(n)' = Latest(n) BY <1>9, <1>10 DEF Latest
<1>12. \A n : Own(n)' = Own(n) BY <1>5, <1>11 DEF Own
<1>13. \A code, j, m : ErrOf(code, j, m)' = ErrOf(code, j, m)
  BY <1>1, <1>3 DEF ErrOf, Err, TypeOf
<1>14. \A n : DeclErrors(n)' = DeclErrors(n)
  BY <1>3, <1>4, <1>10, <1>11, <1>13 DEF DeclErrors
<1>15. \A j : Has(j)' = Has(j) /\ Needs(j)' = Needs(j) BY <1>3 DEF Has, Needs
<1>16. \A S : FillErrors(S)' = FillErrors(S) BY <1>13, <1>15 DEF FillErrors
<1>17. Effective' = Effective BY <1>4, <1>9 DEF Effective
<1>18. FreshErrors' = FreshErrors
  BY <1>3, <1>4, <1>13, <1>15, <1>17 DEF FreshErrors
<1>19. Undisturbed' = Undisturbed /\ StdKept' = StdKept /\ Unbroken' = Unbroken
  BY <1>1 DEF Undisturbed, StdKept, Unbroken
<1> QED BY <1>1, <1>2, <1>3, <1>4, <1>5, <1>7, <1>8, <1>10, <1>11, <1>12, <1>14, <1>16, <1>17,
           <1>18, <1>19

LEMMA CurImplsAre ==
  ASSUME TypeOK
  PROVE  CurImpls \in Seq(ImplAst) /\ (cur # 0 => past[cur].impls \in Seq(ImplAst))
<1>1. cur # 0 => past[cur].impls \in Seq(ImplAst)
  <2>1. SUFFICES ASSUME cur # 0 PROVE past[cur].impls \in Seq(ImplAst) OBVIOUS
  <2>2. cur \in 1..Len(past) BY <2>1, CurTyped DEF cur
  <2>3. past[cur] \in Program BY <2>2, ElementOfSeq DEF TypeOK
  <2> QED BY <2>3 DEF Program
<1> QED BY <1>1, ImplsAreAsts, ConcatProperties DEF CurImpls

(* Those of std, if it is compiled before, and the compilation's own.      *)
LEMMA AllImplsAre ==
  ASSUME TypeOK
  PROVE  /\ AllImpls \in Seq(ImplAst) /\ Base \in Nat /\ Len(CurImpls) \in Nat
         /\ Len(AllImpls) = Base + Len(CurImpls)
         /\ DOMAIN AllImpls = 1..Len(AllImpls)
         /\ \A j \in 1..Base : j \in DOMAIN StdImpls /\ AllImpls[j] = StdImpls[j]
         /\ \A j \in 1..Len(CurImpls) : AllImpls[Base + j] = CurImpls[j]
         /\ \A j \in DOMAIN AllImpls : ModuleOf(j) = IF j <= Base THEN 0 ELSE cur
<1>1. /\ StdImpls \in Seq(ImplAst) /\ Len(StdImpls) \in Nat
      /\ DOMAIN StdImpls = 1..Len(StdImpls)
      /\ CurImpls \in Seq(ImplAst) /\ Len(CurImpls) \in Nat
      /\ DOMAIN CurImpls = 1..Len(CurImpls)
      /\ cur \in Nat
  BY ImplsAreAsts, CurImplsAre, LenProperties, CurTyped
<1>2. CASE cached /\ cur # 0
  <2>1. /\ AllImpls = StdImpls \o CurImpls /\ Base = Len(StdImpls)
    BY <1>2 DEF AllImpls, CurImpls, Base
  <2>2. /\ AllImpls \in Seq(ImplAst)
        /\ Len(AllImpls) = Len(StdImpls) + Len(CurImpls)
        /\ \A j \in 1..(Len(StdImpls) + Len(CurImpls)) : AllImpls[j] =
             IF j <= Len(StdImpls) THEN StdImpls[j] ELSE CurImpls[j - Len(StdImpls)]
    BY <1>1, <2>1, ConcatProperties
  <2>3. DOMAIN AllImpls = 1..Len(AllImpls) BY <2>2, LenProperties
  <2>4. \A j \in 1..Base : j \in DOMAIN StdImpls /\ AllImpls[j] = StdImpls[j]
    BY <1>1, <2>1, <2>2
  <2>5. \A j \in 1..Len(CurImpls) : AllImpls[Base + j] = CurImpls[j]
    BY <1>1, <2>1, <2>2
  <2> QED BY <1>1, <1>2, <2>1, <2>2, <2>3, <2>4, <2>5 DEF ModuleOf
<1>3. CASE ~cached \/ cur = 0
  <2>1. AllImpls = CurImpls /\ Base = 0 BY <1>3 DEF AllImpls, Base
  <2>2. \A j \in DOMAIN AllImpls : ModuleOf(j) = cur BY <1>3 DEF ModuleOf
  <2> QED BY <1>1, <2>1, <2>2
<1> QED BY <1>2, <1>3

LEMMA BlockTyped ==
  ASSUME TypeOK, NEW j \in DOMAIN AllImpls
  PROVE  /\ j \in Nat /\ j >= 1 /\ j <= Len(AllImpls)
         /\ AllImpls[j] \in ImplAst
         /\ TypeAt(j) \in Visible /\ TypeAt(j) \in Type
         /\ IfaceAt(j) \in Visible /\ IfaceAt(j) \in Type
         /\ j \in Blocks <=> IfaceAt(j) \in Interface
         /\ TypeAt(j).name = AllImpls[j].type /\ IfaceAt(j).name = AllImpls[j].iface
<1>1. /\ j \in 1..Len(AllImpls) /\ AllImpls[j] \in ImplAst
  BY AllImplsAre, ElementOfSeq
<1>2. AllImpls[j].type \in Names /\ AllImpls[j].iface \in Names BY <1>1 DEF ImplAst
<1>3. cur = 0 => AllImpls[j].type \in StdNames /\ AllImpls[j].iface \in StdNames
  <2>1. SUFFICES ASSUME cur = 0 PROVE j \in DOMAIN StdImpls /\ AllImpls = StdImpls
    BY StdIsClosed
  <2>2. AllImpls = StdImpls BY <2>1 DEF AllImpls, CurImpls
  <2> QED BY <2>2
<1>4. TypeAt(j) \in Visible /\ IfaceAt(j) \in Visible
  BY <1>2, <1>3 DEF Visible, TypeAt, IfaceAt
<1>5. TypeAt(j).name = AllImpls[j].type /\ IfaceAt(j).name = AllImpls[j].iface
  BY DEF TypeAt, IfaceAt, TypeOf
<1>6. j \in Blocks <=> IfaceAt(j).name \in IfaceNames BY <1>5 DEF Blocks, Valid
<1>7. TypeAt(j) \in Type /\ IfaceAt(j) \in Type BY <1>4, VisibleTyped
<1>8. Len(AllImpls) \in Nat BY AllImplsAre
<1> QED BY <1>1, <1>4, <1>5, <1>6, <1>7, <1>8 DEF Type, Interface

LEMMA SamePairIs ==
  ASSUME NEW j, NEW k
  PROVE  SamePair(j, k) <=> TypeAt(j) = TypeAt(k) /\ IfaceAt(j) = IfaceAt(k)
<1>1. \A a, b : TypeOf(cur, a) = TypeOf(cur, b) <=> a = b BY DEF TypeOf
<1> QED BY <1>1 DEF SamePair, TypeAt, IfaceAt

LEMMA LatestIs ==
  ASSUME TypeOK, NEW n
  PROVE  /\ Latest(n) \subseteq BlocksTo(n) /\ BlocksTo(n) \subseteq Blocks
         /\ Blocks \subseteq DOMAIN AllImpls
         /\ \A j \in BlocksTo(n) : j <= n
         /\ \A j, k \in Latest(n) : TypeAt(j) = TypeAt(k) /\ IfaceAt(j) = IfaceAt(k) => j = k
<1>1. \A j \in Blocks : j \in Nat BY BlockTyped DEF Blocks
<1>2. ASSUME NEW j \in Latest(n), NEW k \in Latest(n), TypeAt(j) = TypeAt(k), IfaceAt(j) = IfaceAt(k)
      PROVE  j = k
  <2>1. SamePair(j, k) /\ SamePair(k, j) BY <1>2, SamePairIs
  <2>2. j \in Nat /\ k \in Nat BY <1>1 DEF Latest, BlocksTo
  <2> QED BY <2>1, <2>2 DEF Latest
<1> QED BY <1>2 DEF Latest, BlocksTo, Blocks

LEMMA EffectiveIs ==
  ASSUME TypeOK, NEW n \in Nat, n >= Len(AllImpls)
  PROVE  /\ BlocksTo(n) = Blocks /\ Latest(n) = Effective
         /\ \A j \in DOMAIN AllImpls : j <= n
<1>1. \A j \in DOMAIN AllImpls : j <= n
  <2>1. Len(AllImpls) \in Nat BY AllImplsAre
  <2>2. \A j \in DOMAIN AllImpls : j \in Nat /\ j <= Len(AllImpls) BY BlockTyped
  <2> QED BY <2>1, <2>2
<1>2. BlocksTo(n) = Blocks BY <1>1 DEF BlocksTo, Blocks
<1>3. Latest(n) = Effective BY <1>2 DEF Latest, Effective
<1> QED BY <1>1, <1>2, <1>3

(* One more block.                                                         *)
LEMMA NextNotValid ==
  ASSUME TypeOK, NEW n \in Nat, n + 1 \in DOMAIN AllImpls, n + 1 \notin Blocks
  PROVE  /\ BlocksTo(n + 1) = BlocksTo(n) /\ Latest(n + 1) = Latest(n)
         /\ Own(n + 1) = Own(n)
         /\ DeclErrors(n + 1) = DeclErrors(n) \cup {ErrOf("E307", n + 1, None)}
<1>0. \A j \in DOMAIN AllImpls : j \in Nat BY BlockTyped
<1>1. \A j \in DOMAIN AllImpls : j <= n + 1 <=> (j <= n \/ j = n + 1) BY <1>0
<1>2. BlocksTo(n + 1) = BlocksTo(n) BY <1>1 DEF BlocksTo, Blocks
<1>3. Latest(n + 1) = Latest(n) BY <1>2 DEF Latest
<1>4. {k \in DOMAIN AllImpls \ Blocks : k <= n + 1} =
        {k \in DOMAIN AllImpls \ Blocks : k <= n} \cup {n + 1}
  BY <1>1
<1> QED BY <1>2, <1>3, <1>4 DEF Own, DeclErrors

LEMMA NextBlock ==
  ASSUME TypeOK, NEW n \in Nat, n + 1 \in Blocks
  PROVE  /\ BlocksTo(n + 1) = BlocksTo(n) \cup {n + 1}
         /\ Latest(n + 1) = {j \in Latest(n) : ~SamePair(j, n + 1)} \cup {n + 1}
         /\ DeclErrors(n + 1) = DeclErrors(n) \cup
              IF \E k \in BlocksTo(n) : SamePair(k, n + 1)
              THEN {ErrOf("E306", n + 1, None)} ELSE {}
<1>0. (\A j \in DOMAIN AllImpls : j \in Nat) /\ Blocks \subseteq DOMAIN AllImpls
  BY BlockTyped DEF Blocks
<1>1. \A j \in DOMAIN AllImpls : j <= n + 1 <=> (j <= n \/ j = n + 1) BY <1>0
<1>2. BlocksTo(n + 1) = BlocksTo(n) \cup {n + 1} BY <1>0, <1>1 DEF BlocksTo
<1>3. \A j \in BlocksTo(n) : j \in Nat /\ j <= n /\ ~(n + 1 <= j) /\ j <= n + 1
  BY <1>0 DEF BlocksTo
<1>4. SamePair(n + 1, n + 1) BY DEF SamePair
<1>5. Latest(n + 1) = {j \in Latest(n) : ~SamePair(j, n + 1)} \cup {n + 1}
  <2>1. ASSUME NEW j \in BlocksTo(n)
        PROVE  j \in Latest(n + 1) <=> j \in Latest(n) /\ ~SamePair(j, n + 1)
    BY <1>2, <1>3 DEF Latest
  <2>2. n + 1 \in Latest(n + 1)
    <3>1. n + 1 \in BlocksTo(n + 1) BY <1>2
    <3>2. \A k \in BlocksTo(n + 1) : k <= n + 1 BY <1>2, <1>3
    <3> QED BY <3>1, <3>2 DEF Latest
  <2>3. Latest(n + 1) \subseteq BlocksTo(n) \cup {n + 1} BY <1>2 DEF Latest
  <2>4. Latest(n) \subseteq BlocksTo(n) BY DEF Latest
  <2> QED BY <2>1, <2>2, <2>3, <2>4
<1>6. {k \in DOMAIN AllImpls \ Blocks : k <= n + 1} = {k \in DOMAIN AllImpls \ Blocks : k <= n}
  BY <1>1
<1>7. BlocksTo(n + 1) \ Latest(n + 1) =
        (BlocksTo(n) \ Latest(n)) \cup {k \in BlocksTo(n) : SamePair(k, n + 1)}
  BY <1>2, <1>3, <1>5
<1>8. \A k : SamePair(k, n + 1) => ErrOf("E306", k, None) = ErrOf("E306", n + 1, None)
  BY DEF SamePair, ErrOf
<1>9. {ErrOf("E306", j, None) : j \in BlocksTo(n + 1) \ Latest(n + 1)} =
        {ErrOf("E306", j, None) : j \in BlocksTo(n) \ Latest(n)} \cup
        IF \E k \in BlocksTo(n) : SamePair(k, n + 1)
        THEN {ErrOf("E306", n + 1, None)} ELSE {}
  <2> DEFINE E(j) == ErrOf("E306", j, None)
             D == {k \in BlocksTo(n) : SamePair(k, n + 1)}
  <2>1. \A k \in D : E(k) = E(n + 1) BY <1>8
  <2>2. {E(j) : j \in BlocksTo(n + 1) \ Latest(n + 1)} =
          {E(j) : j \in BlocksTo(n) \ Latest(n)} \cup {E(j) : j \in D}
    BY <1>7
  <2>3. {E(j) : j \in D} = IF D # {} THEN {E(n + 1)} ELSE {}
    <3> HIDE DEF E, D
    <3> QED BY <2>1
  <2> QED BY <2>2, <2>3
<1> QED BY <1>2, <1>5, <1>6, <1>9 DEF DeclErrors

-----------------------------------------------------------------------------
(* What the steps do to what is found in the registry.                     *)

LEMMA CellsApart ==
  ASSUME TypeOK, NEW t \in Type, NEW u \in Type, t # u, iface_impls[t] # None
  PROVE  iface_impls[t] # CellOf(u)
<1>1. iface_impls[t] \in 1..Len(cells) /\ cells[iface_impls[t]].implementor = t
  BY RegistryTyped
<1>2. CASE iface_impls[u] = None
  <2>1. CellOf(u) = Len(cells) + 1 /\ Len(cells) \in Nat
    BY <1>2, LenProperties DEF CellOf, TypeOK
  <2> QED BY <1>1, <2>1
<1>3. CASE iface_impls[u] # None
  <2>1. cells[iface_impls[u]].implementor = u BY <1>3, RegistryTyped
  <2> QED BY <1>1, <1>3, <2>1 DEF CellOf
<1> QED BY <1>2, <1>3

LEMMA WithCellFinds ==
  ASSUME TypeOK, NEW t \in Type, NEW i \in Interface
  PROVE  WithCell(t)[CellOf(t)].interfaces[i] = Found(t, i)
<1>1. CASE iface_impls[t] # None BY <1>1 DEF WithCell, CellOf, Found
<1>2. CASE iface_impls[t] = None
  <2>1. Found(t, i) = None /\ CellOf(t) = Len(cells) + 1 /\ Len(cells) \in Nat
    BY <1>2, LenProperties DEF Found, CellOf, TypeOK
  <2>2. WithCell(t)[CellOf(t)].interfaces = NoImpls BY <2>1, WithCellTyped
  <2> QED BY <2>1, <2>2 DEF NoImpls
<1> QED BY <1>1, <1>2

LEMMA WithImplFinds ==
  ASSUME TypeOK, NEW u \in Type, NEW j \in Interface, NEW im \in Impl,
         cells' = WithImpl(WithCell(u), CellOf(u), j, im)
  PROVE  /\ Len(cells') = Len(WithCell(u))
         /\ \A l \in 1..Len(WithCell(u)) : \A i \in Interface : cells'[l].interfaces[i] =
              IF l = CellOf(u) /\ i = j THEN im ELSE WithCell(u)[l].interfaces[i]
<1>1. PICK s : s = WithCell(u) OBVIOUS
<1>2. PICK k : k = CellOf(u) OBVIOUS
<1>3. PICK new : new = cells' OBVIOUS
<1>4. s \in Seq(IFaceImpls) /\ k \in 1..Len(s) BY <1>1, <1>2, WithCellTyped
<1>5. new = WithImpl(s, k, j, im) BY <1>1, <1>2, <1>3
<1>6. /\ Len(new) = Len(s)
      /\ \A l \in 1..Len(s) : \A i \in Interface : new[l].interfaces[i] =
              IF l = k /\ i = j THEN im ELSE s[l].interfaces[i]
  BY ONLY <1>4, <1>5, j \in Interface, im \in Impl, ReplaceImpl
<1> QED BY <1>1, <1>2, <1>3, <1>6

LEMMA InsertFound ==
  ASSUME TypeOK, NEW ast \in ImplAst, InsertImpl(ast), NEW t \in Type, NEW i \in Interface
  PROVE  Found(t, i)' = IF t = TypeOf(cur, ast.type) /\ i = TypeOf(cur, ast.iface)
                        THEN NewImpl(ast) ELSE Found(t, i)
<1>1. PICK u : u = TypeOf(cur, ast.type) OBVIOUS
<1>2. PICK j : j = TypeOf(cur, ast.iface) OBVIOUS
<1>3. u \in Type /\ j \in Interface
  BY <1>1, <1>2, CurTyped, TypeOfTyped DEF InsertImpl, ImplAst
<1>4. NewImpl(ast) \in Impl BY CurTyped DEF NewImpl, Impl, ImplAst
<1>5. cells' = WithImpl(WithCell(u), CellOf(u), j, NewImpl(ast))
      /\ iface_impls' = [iface_impls EXCEPT ![u] = CellOf(u)]
  BY <1>1, <1>2 DEF InsertImpl, NewImpl, WithImpl
<1>6. /\ Len(cells') = Len(WithCell(u))
      /\ \A l \in 1..Len(WithCell(u)) : \A i2 \in Interface : cells'[l].interfaces[i2] =
            IF l = CellOf(u) /\ i2 = j THEN NewImpl(ast) ELSE WithCell(u)[l].interfaces[i2]
  BY <1>3, <1>4, <1>5, WithImplFinds
<1>7. \A v \in Type : iface_impls'[v] = IF v = u THEN CellOf(u) ELSE iface_impls[v]
  BY <1>5 DEF TypeOK, Registry
<1>8. CellOf(u) \in 1..Len(WithCell(u)) /\ CellOf(u) # None
  <2>1. CellOf(u) \in 1..Len(WithCell(u)) /\ Len(WithCell(u)) \in Nat
    BY <1>3, WithCellTyped, LenProperties
  <2>2. None \notin Nat BY NoneIsNothing
  <2> QED BY <2>1, <2>2
<1>9. CASE t = u
  <2>1. Found(t, i)' = cells'[CellOf(u)].interfaces[i] BY <1>7, <1>8, <1>9 DEF Found
  <2>2. WithCell(u)[CellOf(u)].interfaces[i] = Found(u, i) BY <1>3, WithCellFinds
  <2> QED BY <1>1, <1>2, <1>6, <1>8, <1>9, <2>1, <2>2
<1>10. CASE t # u /\ iface_impls[t] = None
  <2>1. Found(t, i)' = None /\ Found(t, i) = None BY <1>7, <1>10 DEF Found
  <2> QED BY <1>1, <1>10, <2>1
<1>11. CASE t # u /\ iface_impls[t] # None
  <2>1. iface_impls[t] # CellOf(u) BY <1>3, <1>11, CellsApart
  <2>2. iface_impls[t] \in 1..Len(cells) BY <1>11, RegistryTyped
  <2>3. /\ Len(cells) <= Len(WithCell(u)) /\ Len(cells) \in Nat /\ Len(WithCell(u)) \in Nat
        /\ WithCell(u)[iface_impls[t]] = cells[iface_impls[t]]
    BY <1>3, <2>2, WithCellTyped, LenProperties DEF TypeOK
  <2>4. iface_impls[t] \in 1..Len(WithCell(u)) BY <2>2, <2>3
  <2>5. cells'[iface_impls[t]].interfaces[i] = cells[iface_impls[t]].interfaces[i]
    BY <1>6, <2>1, <2>3, <2>4
  <2>6. iface_impls'[t] = iface_impls[t] BY <1>7, <1>11
  <2> QED BY <1>1, <1>11, <2>5, <2>6 DEF Found
<1> QED BY <1>9, <1>10, <1>11

LEMMA LookupFound ==
  ASSUME TypeOK, NEW u \in Visible, Lookup(u), NEW t \in Type, NEW i \in Interface
  PROVE  Found(t, i)' = Found(t, i)
<1>1. /\ u \in Type /\ cells' = WithCell(u) /\ iface_impls[u] = None
      /\ iface_impls' = [iface_impls EXCEPT ![u] = CellOf(u)]
  BY VisibleTyped DEF Lookup
<1>2. \A v \in Type : iface_impls'[v] = IF v = u THEN CellOf(u) ELSE iface_impls[v]
  BY <1>1 DEF TypeOK, Registry
<1>3. CASE t = u
  <2>1. CellOf(u) # None
    <3>1. CellOf(u) = Len(cells) + 1 /\ Len(cells) \in Nat
      BY <1>1, LenProperties DEF CellOf, TypeOK
    <3> QED BY <3>1, NoneIsNothing
  <2>2. Found(t, i)' = WithCell(u)[CellOf(u)].interfaces[i] BY <1>1, <1>2, <1>3, <2>1 DEF Found
  <2> QED BY <1>1, <1>3, <2>2, WithCellFinds
<1>4. CASE t # u /\ iface_impls[t] = None
  BY <1>2, <1>4 DEF Found
<1>5. CASE t # u /\ iface_impls[t] # None
  <2>1. iface_impls[t] \in 1..Len(cells) BY <1>5, RegistryTyped
  <2>2. WithCell(u)[iface_impls[t]] = cells[iface_impls[t]] BY <1>1, <2>1, WithCellTyped
  <2> QED BY <1>1, <1>2, <1>5, <2>2 DEF Found
<1> QED BY <1>3, <1>4, <1>5

LEMMA FilledFound ==
  ASSUME TypeOK, FilledImpls, NEW t \in Type, NEW i \in Interface
  PROVE  Found(t, i)' = Found(t, i)
<1>1. \A k \in 1..Len(cells) : cells'[k].interfaces = cells[k].interfaces BY FilledImplsCells
<1>2. UNCHANGED iface_impls BY DEF FilledImpls
<1> QED BY <1>1, <1>2, RegistryTyped DEF Found

LEMMA FillFound ==
  ASSUME TypeOK, FillingExisting, NEW n \in left, FillImpl(n), NEW t \in Type, NEW i \in Interface
  PROVE  /\ iface_impls[t] = filling /\ i = n =>
              /\ Found(t, i)' # None /\ Found(t, i) # None
              /\ Found(t, i)'.module = Found(t, i).module
              /\ Found(t, i)'.wants = Found(t, i).wants
         /\ ~(iface_impls[t] = filling /\ i = n) => Found(t, i)' = Found(t, i)
<1>1. UNCHANGED iface_impls /\ filling # None BY DEF FillImpl
<1>2. /\ cells[filling].interfaces[n] \in Impl /\ cells'[filling].interfaces[n] \in Impl
      /\ cells'[filling].interfaces[n].module = cells[filling].interfaces[n].module
      /\ cells'[filling].interfaces[n].wants = cells[filling].interfaces[n].wants
      /\ \A k \in 1..Len(cells), j \in Interface :
           (k = filling /\ j = n) \/ cells'[k].interfaces[j] = cells[k].interfaces[j]
  BY FillImplCells
<1>3. cells[filling].interfaces[n] # None /\ cells'[filling].interfaces[n] # None
  BY <1>2, ImplFields
<1>4. CASE iface_impls[t] = None BY <1>1, <1>4 DEF Found
<1>5. CASE iface_impls[t] # None
  <2>1. iface_impls[t] \in 1..Len(cells) BY <1>5, RegistryTyped
  <2> QED BY <1>1, <1>2, <1>3, <1>5, <2>1 DEF Found
<1> QED BY <1>4, <1>5

LEMMA FoundTyped ==
  ASSUME TypeOK, NEW t \in Type, NEW i \in Interface, Found(t, i) # None
  PROVE  Found(t, i) \in Impl
<1>1. iface_impls[t] # None BY DEF Found
<1>2. iface_impls[t] \in 1..Len(cells) BY <1>1, RegistryTyped
<1> QED BY <1>1, <1>2, CellAt, CellFields DEF Found

(* The impl of a block, in a step that leaves the program alone.           *)
LEMMA ImplAtNext ==
  ASSUME TypeOK, UNCHANGED <<cached, past>>, NEW j, NEW t, NEW i, t = TypeAt(j), i = IfaceAt(j)
  PROVE  ImplAt(j)' = Found(t, i)' /\ ImplAt(j) = Found(t, i)
<1>1. TypeAt(j)' = t /\ IfaceAt(j)' = i BY BlocksSame
<1> QED BY <1>1 DEF ImplAt, Found

LEMMA SameImpls ==
  ASSUME TypeOK, UNCHANGED <<cached, past>>,
         \A t \in Type, i \in Interface : Found(t, i)' = Found(t, i)
  PROVE  /\ \A j \in Blocks : ImplAt(j)' = ImplAt(j)
         /\ \A n : RegistryAgrees(n) => RegistryAgrees(n)'
<1>1. ASSUME NEW j \in Blocks PROVE ImplAt(j)' = ImplAt(j)
  <2>1. j \in DOMAIN AllImpls BY DEF Blocks
  <2>2. PICK t \in Type : t = TypeAt(j) BY <2>1, BlockTyped
  <2>3. PICK i \in Interface : i = IfaceAt(j) BY <1>1, <2>1, BlockTyped
  <2>4. ImplAt(j)' = Found(t, i)' /\ ImplAt(j) = Found(t, i) BY <2>2, <2>3, ImplAtNext
  <2> QED BY <2>4
<1>2. ASSUME NEW n, RegistryAgrees(n) PROVE RegistryAgrees(n)'
  <2>1. /\ BlocksTo(n)' = BlocksTo(n) /\ Latest(n)' = Latest(n) /\ Base' = Base
        /\ AllImpls' = AllImpls /\ Visible' = Visible
        /\ \A j : ModuleOf(j)' = ModuleOf(j) /\ TypeAt(j)' = TypeAt(j) /\ IfaceAt(j)' = IfaceAt(j)
    BY BlocksSame
  <2>2. Latest(n) \subseteq Blocks /\ BlocksTo(n) \subseteq Blocks BY LatestIs
  <2>3. Visible \subseteq Type BY VisibleTyped
  <2> QED BY <1>1, <1>2, <2>1, <2>2, <2>3 DEF RegistryAgrees
<1> QED BY <1>1, <1>2

(* declare_impl enters block m, the next one.                              *)
LEMMA DeclareFound ==
  ASSUME TypeOK, NEW n \in Nat, DeclareImpl, InsertImpl(CurImpls[item]),
         n = Base + item - 1, NEW m, m = n + 1, NEW new, new = NewImpl(CurImpls[item])
  PROVE  /\ m \in Blocks /\ m > Base /\ m \in DOMAIN AllImpls /\ ModuleOf(m) = cur
         /\ TypeAt(m) \in Type /\ TypeAt(m) \in Visible
         /\ IfaceAt(m) \in Interface /\ IfaceAt(m) \in Visible
         /\ new.module = cur /\ new.wants = AllImpls[m].methods /\ new.methods = {}
         /\ new # None
         /\ \A u \in Type, k \in Interface :
              Found(u, k)' = IF u = TypeAt(m) /\ k = IfaceAt(m) THEN new ELSE Found(u, k)
         /\ \A j \in Blocks : ImplAt(j)' = IF SamePair(j, m) THEN new ELSE ImplAt(j)
         /\ BlocksTo(m) = BlocksTo(n) \cup {m}
         /\ Latest(m) = {j \in Latest(n) : ~SamePair(j, m)} \cup {m}
         /\ UNCHANGED <<cached, past>>
<1>0. UNCHANGED <<cached, past>> BY DEF DeclareImpl
<1>1. item \in 1..Len(CurImpls) /\ item \in Nat /\ item <= Len(CurImpls)
  BY AllImplsAre DEF TypeOK, DeclareImpl
<1>2. PICK ast : ast = CurImpls[item] OBVIOUS
<1>4. ast \in ImplAst BY <1>1, <1>2, CurImplsTyped
<1>5. m = Base + item /\ m > Base /\ m \in DOMAIN AllImpls BY <1>1, AllImplsAre
<1>6. AllImpls[m] = ast BY <1>1, <1>2, <1>5, AllImplsAre
<1>7. TypeAt(m) = TypeOf(cur, ast.type) /\ IfaceAt(m) = TypeOf(cur, ast.iface)
  BY <1>6 DEF TypeAt, IfaceAt
<1>8. m \in Blocks BY <1>2, <1>5, <1>6 DEF Blocks, Valid, InsertImpl
<1>9. PICK t \in Type : t = TypeAt(m) /\ t \in Visible BY <1>5, BlockTyped
<1>10. PICK i \in Interface : i = IfaceAt(m) /\ i \in Visible BY <1>5, <1>8, BlockTyped
<1>12. new.module = cur /\ new.wants = ast.methods /\ new.methods = {} /\ new # None
  <2>1. new \in Impl BY <1>2, <1>4, CurTyped DEF NewImpl, Impl, ImplAst
  <2> QED BY <1>2, <2>1, ImplFields DEF NewImpl
<1>13. \A u \in Type, k \in Interface :
         Found(u, k)' = IF u = t /\ k = i THEN new ELSE Found(u, k)
  BY <1>2, <1>4, <1>7, <1>9, <1>10, InsertFound
<1>14. ASSUME NEW j \in Blocks
       PROVE  ImplAt(j)' = IF SamePair(j, m) THEN new ELSE ImplAt(j)
  <2>1. j \in DOMAIN AllImpls BY DEF Blocks
  <2>2. PICK u \in Type : u = TypeAt(j) BY <2>1, BlockTyped
  <2>3. PICK k \in Interface : k = IfaceAt(j) BY <1>14, <2>1, BlockTyped
  <2>4. ImplAt(j)' = Found(u, k)' /\ ImplAt(j) = Found(u, k) BY <1>0, <2>2, <2>3, ImplAtNext
  <2>5. SamePair(j, m) <=> u = t /\ k = i BY <1>9, <1>10, <2>2, <2>3, SamePairIs
  <2> QED BY <1>13, <2>4, <2>5
<1>15. /\ BlocksTo(m) = BlocksTo(n) \cup {m}
       /\ Latest(m) = {j \in Latest(n) : ~SamePair(j, m)} \cup {m}
  BY <1>8, NextBlock
<1>21. ModuleOf(m) = cur
  BY <1>5, AllImplsAre
<1> QED BY <1>0, <1>5, <1>6, <1>8, <1>9, <1>10, <1>12, <1>13, <1>14, <1>15, <1>21

LEMMA DeclareAgrees ==
  ASSUME TypeOK, NEW n \in Nat, RegistryAgrees(n), DeclareImpl, InsertImpl(CurImpls[item]),
         n = Base + item - 1
  PROVE  /\ n + 1 \in Blocks
         /\ RegistryAgrees(n + 1)'
         /\ \A j \in Own(n + 1) : \/ ImplAt(j)'.methods = {}
                                  \/ j \in Own(n) /\ ImplAt(j)' = ImplAt(j)
         /\ AlreadyDefined(TypeAt(n + 1), IfaceAt(n + 1))
              <=> \E k \in BlocksTo(n) : SamePair(k, n + 1)
<1>3. PICK m : m = n + 1 OBVIOUS
<1>11. PICK new : new = NewImpl(CurImpls[item]) OBVIOUS
<1>12. /\ new.module = cur /\ new.wants = AllImpls[m].methods /\ new.methods = {}
       /\ new # None /\ ModuleOf(m) = cur /\ m \in Blocks /\ UNCHANGED <<cached, past>>
  BY <1>3, <1>11, DeclareFound
<1>9. PICK t \in Type : t = TypeAt(m) /\ t \in Visible BY <1>3, <1>11, DeclareFound
<1>10. PICK i \in Interface : i = IfaceAt(m) /\ i \in Visible
  BY <1>3, <1>11, DeclareFound
<1>13. \A u \in Type, k \in Interface :
         Found(u, k)' = IF u = t /\ k = i THEN new ELSE Found(u, k)
  BY <1>3, <1>9, <1>10, <1>11, DeclareFound
<1>14. \A j \in Blocks : ImplAt(j)' = IF SamePair(j, m) THEN new ELSE ImplAt(j)
  BY <1>3, <1>11, DeclareFound
<1>15. /\ BlocksTo(m) = BlocksTo(n) \cup {m}
       /\ Latest(m) = {j \in Latest(n) : ~SamePair(j, m)} \cup {m}
  BY <1>3, <1>11, DeclareFound
<1>16. SamePair(m, m) BY DEF SamePair
<1>17. Latest(n) \subseteq Blocks /\ BlocksTo(n) \subseteq Blocks /\ Latest(n) \subseteq BlocksTo(n)
  BY LatestIs
<1>18. ImplAt(m)' = new BY <1>12, <1>14, <1>16
<1>19. /\ BlocksTo(m)' = BlocksTo(m) /\ Latest(m)' = Latest(m) /\ Base' = Base
       /\ AllImpls' = AllImpls /\ Visible' = Visible
       /\ \A j : ModuleOf(j)' = ModuleOf(j) /\ TypeAt(j)' = TypeAt(j) /\ IfaceAt(j)' = IfaceAt(j)
  BY <1>12, BlocksSame
<1>20. \A j \in BlocksTo(m) : ImplAt(j)' # None
  BY <1>12, <1>14, <1>15, <1>17, <1>18 DEF RegistryAgrees
<1>22. ASSUME NEW j \in Latest(m)
       PROVE  /\ ImplAt(j)'.module = ModuleOf(j)
              /\ j > Base => ImplAt(j)'.wants = AllImpls[j].methods
  <2>1. CASE j = m BY <1>12, <1>18, <2>1
  <2>2. CASE j \in Latest(n) /\ ~SamePair(j, m)
    BY <1>14, <1>17, <2>2 DEF RegistryAgrees
  <2> QED BY <1>15, <2>1, <2>2
<1>23. ASSUME NEW u \in Visible, NEW k \in Visible \cap Interface, Found(u, k)' # None
       PROVE  \E j \in Latest(m) : TypeAt(j) = u /\ IfaceAt(j) = k
  <2>1. CASE u = t /\ k = i BY <1>9, <1>10, <1>15, <2>1
  <2>2. CASE ~(u = t /\ k = i)
    <3>1. Found(u, k) # None BY <1>13, <1>23, <2>2, VisibleTyped
    <3>2. PICK j \in Latest(n) : TypeAt(j) = u /\ IfaceAt(j) = k BY <3>1 DEF RegistryAgrees
    <3>3. ~SamePair(j, m) BY <1>9, <1>10, <2>2, <3>2, SamePairIs
    <3> QED BY <1>15, <3>2, <3>3
  <2> QED BY <2>1, <2>2
<1>24. RegistryAgrees(m)'
  BY <1>19, <1>20, <1>22, <1>23 DEF RegistryAgrees
<1>25. ASSUME NEW j \in Own(m)
       PROVE  ImplAt(j)'.methods = {} \/ (j \in Own(n) /\ ImplAt(j)' = ImplAt(j))
  <2>1. j \in Latest(m) /\ j > Base BY DEF Own
  <2>2. CASE j = m BY <1>12, <1>18, <2>2
  <2>3. CASE j \in Latest(n) /\ ~SamePair(j, m) BY <1>14, <1>17, <2>1, <2>3 DEF Own
  <2> QED BY <1>15, <2>1, <2>2, <2>3
<1>26. AlreadyDefined(t, i) <=> Found(t, i) # None BY WithCellFinds DEF AlreadyDefined
<1>27. Found(t, i) # None <=> \E k \in BlocksTo(n) : SamePair(k, m)
  <2>1. ASSUME Found(t, i) # None PROVE \E k \in BlocksTo(n) : SamePair(k, m)
    <3>1. PICK j \in Latest(n) : TypeAt(j) = t /\ IfaceAt(j) = i
      BY <1>9, <1>10, <2>1 DEF RegistryAgrees
    <3> QED BY <1>9, <1>10, <1>17, <3>1, SamePairIs
  <2>2. ASSUME NEW k \in BlocksTo(n), SamePair(k, m) PROVE Found(t, i) # None
    <3>1. ImplAt(k) # None BY DEF RegistryAgrees
    <3>2. TypeAt(k) = t /\ IfaceAt(k) = i BY <1>9, <1>10, <2>2, SamePairIs
    <3> QED BY <3>1, <3>2 DEF ImplAt
  <2> QED BY <2>1, <2>2
<1> QED BY <1>3, <1>9, <1>10, <1>12, <1>24, <1>25, <1>26, <1>27

LEMMA DeclareFresh ==
  ASSUME TypeOK, FreshInv, DeclareImpl, Comparable
  PROVE  FreshInv'
<1>1. UNCHANGED <<cached, past>> /\ phase = "declare" /\ phase' = "declare" /\ item' = item + 1
  BY DEF DeclareImpl
<1>2. item \in 1..Len(CurImpls) /\ item \in Nat /\ item >= 1 /\ item <= Len(CurImpls)
  BY AllImplsAre DEF TypeOK, DeclareImpl
<1>3. PICK n : n = Front OBVIOUS
<1>4. n = Base + item - 1 /\ n \in Nat /\ Front' = n + 1
  BY <1>1, <1>2, <1>3, AllImplsAre, BlocksSame DEF Front
<1>5. /\ RegistryAgrees(n) /\ errors = DeclErrors(n)
      /\ \A j \in Own(n) : ImplAt(j).methods = {}
  BY <1>1, <1>3 DEF FreshInv
<1>6. n + 1 \in DOMAIN AllImpls /\ AllImpls[n + 1] = CurImpls[item] BY <1>2, <1>4, AllImplsAre
<1>7. PICK ast : ast = CurImpls[item] OBVIOUS
<1>8. \A code : ErrOf(code, n + 1, None) =
                  Err(code, TypeOf(cur, ast.type), TypeOf(cur, ast.iface), None)
  BY <1>6, <1>7 DEF ErrOf
<1>9. CASE NotAnInterface(ast)
  <2>1. n + 1 \notin Blocks BY <1>6, <1>7, <1>9 DEF Blocks, Valid, NotAnInterface
  <2>2. /\ BlocksTo(n + 1) = BlocksTo(n) /\ Latest(n + 1) = Latest(n)
        /\ Own(n + 1) = Own(n)
        /\ DeclErrors(n + 1) = DeclErrors(n) \cup {ErrOf("E307", n + 1, None)}
    BY <1>4, <1>6, <2>1, NextNotValid
  <2>3. UNCHANGED <<cells, iface_impls>> /\ errors' = DeclErrors(n + 1)
    BY <1>5, <1>8, <1>9, <2>2 DEF NotAnInterface
  <2>4. \A t \in Type, i \in Interface : Found(t, i)' = Found(t, i)
    BY <2>3 DEF Found
  <2>5. RegistryAgrees(n)' /\ \A j \in Blocks : ImplAt(j)' = ImplAt(j)
    BY <1>1, <1>5, <2>4, SameImpls
  <2>6. RegistryAgrees(n + 1)'
    <3>1. RegistryAgrees(n + 1) BY <1>5, <2>2 DEF RegistryAgrees
    <3> QED BY <1>1, <2>4, <3>1, SameImpls
  <2>7. \A j \in Own(n + 1) : ImplAt(j)'.methods = {}
    BY <1>5, <2>2, <2>5, LatestIs DEF Own
  <2>8. /\ Own(n + 1)' = Own(n + 1) /\ DeclErrors(n + 1)' = DeclErrors(n + 1)
    BY <1>1, BlocksSame
  <2> QED BY <1>1, <1>4, <2>3, <2>6, <2>7, <2>8 DEF FreshInv
<1>10. CASE InsertImpl(ast)
  <2>1. /\ n + 1 \in Blocks
        /\ RegistryAgrees(n + 1)'
        /\ \A j \in Own(n + 1) : \/ ImplAt(j)'.methods = {}
                                 \/ j \in Own(n) /\ ImplAt(j)' = ImplAt(j)
        /\ AlreadyDefined(TypeAt(n + 1), IfaceAt(n + 1))
              <=> \E k \in BlocksTo(n) : SamePair(k, n + 1)
    BY <1>4, <1>5, <1>7, <1>10, DeclareAgrees
  <2>2. DeclErrors(n + 1) = DeclErrors(n) \cup
              IF \E k \in BlocksTo(n) : SamePair(k, n + 1)
              THEN {ErrOf("E306", n + 1, None)} ELSE {}
    BY <1>4, <2>1, NextBlock
  <2>3. TypeAt(n + 1) = TypeOf(cur, ast.type) /\ IfaceAt(n + 1) = TypeOf(cur, ast.iface)
    BY <1>6, <1>7 DEF TypeAt, IfaceAt
  <2>4. errors' = errors \cup
           IF AlreadyDefined(TypeAt(n + 1), IfaceAt(n + 1))
           THEN {Err("E306", TypeAt(n + 1), IfaceAt(n + 1), None)} ELSE {}
    BY <1>10, <2>3 DEF InsertImpl
  <2>5. errors' = DeclErrors(n + 1) BY <1>5, <1>8, <2>1, <2>2, <2>3, <2>4
  <2>6. \A j \in Own(n + 1) : ImplAt(j)'.methods = {} BY <1>5, <2>1
  <2>7. /\ Own(n + 1)' = Own(n + 1) /\ DeclErrors(n + 1)' = DeclErrors(n + 1)
    BY <1>1, BlocksSame
  <2> QED BY <1>1, <1>4, <2>1, <2>5, <2>6, <2>7 DEF FreshInv
<1> QED BY <1>7, <1>9, <1>10 DEF DeclareImpl

-----------------------------------------------------------------------------
(* The fill pass.                                                          *)

Alike(t, i) ==
  \/ Found(t, i)' = Found(t, i)
  \/ /\ Found(t, i)' # None /\ Found(t, i) # None
     /\ Found(t, i)'.module = Found(t, i).module
     /\ Found(t, i)'.wants = Found(t, i).wants

LEMMA AlikeAgrees ==
  ASSUME TypeOK, UNCHANGED <<cached, past>>,
         \A t \in Type, i \in Interface : Alike(t, i)
  PROVE  \A n : RegistryAgrees(n) => RegistryAgrees(n)'
<1>1. ASSUME NEW j \in Blocks
      PROVE  \/ ImplAt(j)' = ImplAt(j)
             \/ /\ ImplAt(j)' # None /\ ImplAt(j) # None
                /\ ImplAt(j)'.module = ImplAt(j).module /\ ImplAt(j)'.wants = ImplAt(j).wants
  <2>1. j \in DOMAIN AllImpls BY DEF Blocks
  <2>2. PICK t \in Type : t = TypeAt(j) BY <2>1, BlockTyped
  <2>3. PICK i \in Interface : i = IfaceAt(j) BY <1>1, <2>1, BlockTyped
  <2>4. ImplAt(j)' = Found(t, i)' /\ ImplAt(j) = Found(t, i) BY <2>2, <2>3, ImplAtNext
  <2> QED BY <2>4 DEF Alike
<1>2. ASSUME NEW n, RegistryAgrees(n) PROVE RegistryAgrees(n)'
  <2>1. /\ BlocksTo(n)' = BlocksTo(n) /\ Latest(n)' = Latest(n) /\ Base' = Base
        /\ AllImpls' = AllImpls /\ Visible' = Visible
        /\ \A j : ModuleOf(j)' = ModuleOf(j) /\ TypeAt(j)' = TypeAt(j) /\ IfaceAt(j)' = IfaceAt(j)
    BY BlocksSame
  <2>2. Latest(n) \subseteq Blocks /\ BlocksTo(n) \subseteq Blocks /\ Latest(n) \subseteq BlocksTo(n)
    BY LatestIs
  <2>3. Visible \subseteq Type BY VisibleTyped
  <2>4. \A j \in BlocksTo(n) : ImplAt(j)' # None BY <1>1, <1>2, <2>2 DEF RegistryAgrees
  <2>5. \A j \in Latest(n) : /\ ImplAt(j)'.module = ModuleOf(j)
                             /\ j > Base => ImplAt(j)'.wants = AllImpls[j].methods
    BY <1>1, <1>2, <2>2 DEF RegistryAgrees
  <2>6. \A t \in Visible, i \in Visible \cap Interface : Found(t, i)' # None => Found(t, i) # None
    BY <2>3 DEF Alike
  <2> QED BY <1>2, <2>1, <2>4, <2>5, <2>6 DEF RegistryAgrees
<1> QED BY <1>2

LEMMA UndisturbedIsUnbroken == Undisturbed => Unbroken
BY DEF Undisturbed, Unbroken

-----------------------------------------------------------------------------
(* What the compilation's own blocks come to, whatever earlier programs    *)
(* did: each is found, and nothing else of this compilation is.            *)

OwnAgrees(n) ==
  /\ \A j \in Own(n) : /\ ImplAt(j) # None /\ ImplAt(j).module = cur
                       /\ ImplAt(j).wants = AllImpls[j].methods
  /\ \A t \in Visible, i \in Visible \cap Interface :
       Found(t, i) # None /\ Found(t, i).module = cur
         => \E j \in Own(n) : TypeAt(j) = t /\ IfaceAt(j) = i

OwnInv == phase # "idle" => OwnAgrees(Front)

LEMMA AlikeOwn ==
  ASSUME TypeOK, UNCHANGED <<cached, past>>,
         \A t \in Type, i \in Interface : Alike(t, i),
         NEW n, OwnAgrees(n)
  PROVE  OwnAgrees(n)'
<1>1. ASSUME NEW j \in Own(n)
      PROVE  /\ ImplAt(j)' # None /\ ImplAt(j)'.module = cur
             /\ ImplAt(j)'.wants = AllImpls[j].methods
  <2>1. j \in Blocks /\ j \in DOMAIN AllImpls BY LatestIs DEF Own
  <2>2. PICK t \in Type : t = TypeAt(j) BY <2>1, BlockTyped
  <2>3. PICK i \in Interface : i = IfaceAt(j) BY <2>1, BlockTyped
  <2>4. ImplAt(j)' = Found(t, i)' /\ ImplAt(j) = Found(t, i) BY <2>2, <2>3, ImplAtNext
  <2> QED BY <2>4 DEF Alike, OwnAgrees
<1>2. ASSUME NEW t \in Visible, NEW i \in Visible \cap Interface,
             Found(t, i)' # None, Found(t, i)'.module = cur
      PROVE  \E j \in Own(n) : TypeAt(j) = t /\ IfaceAt(j) = i
  <2>1. t \in Type BY VisibleTyped
  <2>2. Found(t, i) # None /\ Found(t, i).module = cur BY <1>2, <2>1 DEF Alike
  <2> QED BY <2>2 DEF OwnAgrees
<1>3. /\ Own(n)' = Own(n) /\ AllImpls' = AllImpls /\ Visible' = Visible /\ cur' = cur
      /\ \A j : TypeAt(j)' = TypeAt(j) /\ IfaceAt(j)' = IfaceAt(j)
  BY BlocksSame
<1> QED BY <1>1, <1>2, <1>3 DEF OwnAgrees

LEMMA DeclareOwn ==
  ASSUME TypeOK, NEW n \in Nat, OwnAgrees(n), DeclareImpl, InsertImpl(CurImpls[item]),
         n = Base + item - 1
  PROVE  OwnAgrees(n + 1)'
<1>1. PICK m : m = n + 1 OBVIOUS
<1>2. PICK new : new = NewImpl(CurImpls[item]) OBVIOUS
<1>3. /\ new.module = cur /\ new.wants = AllImpls[m].methods /\ new # None
      /\ m \in Blocks /\ m > Base /\ UNCHANGED <<cached, past>>
  BY <1>1, <1>2, DeclareFound
<1>4. PICK t : t = TypeAt(m) OBVIOUS
<1>5. PICK i : i = IfaceAt(m) OBVIOUS
<1>6. \A u \in Type, k \in Interface :
        Found(u, k)' = IF u = t /\ k = i THEN new ELSE Found(u, k)
  BY <1>1, <1>2, <1>4, <1>5, DeclareFound
<1>7. \A j \in Blocks : ImplAt(j)' = IF SamePair(j, m) THEN new ELSE ImplAt(j)
  BY <1>1, <1>2, DeclareFound
<1>8. Latest(m) = {j \in Latest(n) : ~SamePair(j, m)} \cup {m}
  BY <1>1, <1>2, DeclareFound
<1>9. Own(m) = {j \in Own(n) : ~SamePair(j, m)} \cup {m} BY <1>3, <1>8 DEF Own
<1>10. SamePair(m, m) BY DEF SamePair
<1>11. Own(n) \subseteq Blocks BY LatestIs DEF Own
<1>12. ASSUME NEW j \in Own(m)
       PROVE  /\ ImplAt(j)' # None /\ ImplAt(j)'.module = cur
              /\ ImplAt(j)'.wants = AllImpls[j].methods
  <2>1. CASE j = m BY <1>3, <1>7, <1>10, <2>1
  <2>2. CASE j \in Own(n) /\ ~SamePair(j, m) BY <1>7, <1>11, <2>2 DEF OwnAgrees
  <2> QED BY <1>9, <2>1, <2>2
<1>13. ASSUME NEW u \in Visible, NEW k \in Visible \cap Interface,
              Found(u, k)' # None, Found(u, k)'.module = cur
       PROVE  \E j \in Own(m) : TypeAt(j) = u /\ IfaceAt(j) = k
  <2>1. CASE u = t /\ k = i BY <1>4, <1>5, <1>9, <2>1
  <2>2. CASE ~(u = t /\ k = i)
    <3>1. Found(u, k) # None /\ Found(u, k).module = cur
      BY <1>6, <1>13, <2>2, VisibleTyped
    <3>2. PICK j \in Own(n) : TypeAt(j) = u /\ IfaceAt(j) = k BY <3>1 DEF OwnAgrees
    <3>3. ~SamePair(j, m) BY <1>4, <1>5, <2>2, <3>2, SamePairIs
    <3> QED BY <1>9, <3>2, <3>3
  <2> QED BY <2>1, <2>2
<1>14. /\ Own(m)' = Own(m) /\ AllImpls' = AllImpls /\ Visible' = Visible /\ cur' = cur
       /\ \A j : TypeAt(j)' = TypeAt(j) /\ IfaceAt(j)' = IfaceAt(j)
  BY <1>3, BlocksSame
<1>15. OwnAgrees(m)' BY <1>12, <1>13, <1>14 DEF OwnAgrees
<1> QED BY <1>1, <1>15

LEMMA DeclareImplOwn ==
  ASSUME TypeOK, OwnInv, DeclareImpl
  PROVE  OwnInv'
<1>1. UNCHANGED <<cached, past>> /\ phase = "declare" /\ phase' = "declare" /\ item' = item + 1
  BY DEF DeclareImpl
<1>2. item \in 1..Len(CurImpls) /\ item \in Nat /\ item >= 1 /\ item <= Len(CurImpls)
  BY AllImplsAre DEF TypeOK, DeclareImpl
<1>3. PICK n : n = Front OBVIOUS
<1>4. n = Base + item - 1 /\ n \in Nat /\ Front' = n + 1
  BY <1>1, <1>2, <1>3, AllImplsAre, BlocksSame DEF Front
<1>5. OwnAgrees(n) BY <1>1, <1>3 DEF OwnInv
<1>6. n + 1 \in DOMAIN AllImpls /\ AllImpls[n + 1] = CurImpls[item] BY <1>2, <1>4, AllImplsAre
<1>7. CASE NotAnInterface(CurImpls[item])
  <2>1. n + 1 \notin Blocks BY <1>6, <1>7 DEF Blocks, Valid, NotAnInterface
  <2>2. Own(n + 1) = Own(n) BY <1>4, <1>6, <2>1, NextNotValid
  <2>3. OwnAgrees(n + 1) BY <1>5, <2>2 DEF OwnAgrees
  <2>4. \A t \in Type, i \in Interface : Alike(t, i)
    BY <1>7 DEF NotAnInterface, Found, Alike
  <2>5. OwnAgrees(n + 1)' BY <1>1, <2>3, <2>4, AlikeOwn
  <2> QED BY <1>4, <2>5 DEF OwnInv
<1>8. CASE InsertImpl(CurImpls[item])
  <2>1. OwnAgrees(n + 1)' BY <1>4, <1>5, <1>8, DeclareOwn
  <2> QED BY <1>4, <2>1 DEF OwnInv
<1> QED BY <1>7, <1>8 DEF DeclareImpl

(* A compilation starts without impls of its own.                          *)
LEMMA StartOwn ==
  ASSUME TypeOK, phase = "declare", item = 1,
         \A t \in Visible, i \in Interface : Found(t, i) # None => Found(t, i).module # cur
  PROVE  OwnInv
<1>1. Front = Base + 1 - 1 BY DEF Front
<1>2. Front = Base BY <1>1, AllImplsAre
<1>3. ASSUME NEW j \in Own(Base) PROVE FALSE
  <2>1. j \in DOMAIN AllImpls /\ j <= Base /\ j > Base BY LatestIs DEF Own
  <2>2. j \in Nat /\ Base \in Nat BY <2>1, BlockTyped, AllImplsAre
  <2> QED BY <2>1, <2>2
<1>4. OwnAgrees(Base) BY <1>3 DEF OwnAgrees
<1> QED BY <1>2, <1>4 DEF OwnInv

Starting ==
  /\ phase = "declare" /\ item = 1
  /\ \A t \in Visible, i \in Interface : Found(t, i) # None => Found(t, i).module # cur

LEMMA StartingOwn == (TypeOK /\ Starting => OwnInv)'
<1>1. TypeOK /\ Starting => OwnInv BY StartOwn DEF Starting
<1> QED BY <1>1, PTL

(* The types of the next state are types.                                 *)
LEMMA VisibleNext == (TypeOK => Visible \subseteq Type)'
<1>1. TypeOK => Visible \subseteq Type BY VisibleTyped
<1> QED BY <1>1, PTL

LEMMA CompileStdOwn ==
  ASSUME TypeOK', CompileStd
  PROVE  OwnInv'
<1>1. phase' = "declare" /\ item' = 1 /\ iface_impls' = NoTypes
  BY DEF CompileStd, Start
<1>2. ASSUME NEW t \in Visible', NEW i \in Interface PROVE Found(t, i)' = None
  <2>1. t \in Type BY VisibleNext
  <2> QED BY <1>1, <2>1 DEF Found, NoTypes
<1> QED BY <1>1, <1>2, StartingOwn DEF Starting

LEMMA CompileOwn ==
  ASSUME TypeOK, ImplsHaveOrigin, TypeOK', NEW p \in Programs, Compile(p)
  PROVE  OwnInv'
<1>1. /\ cur \in Nat /\ cur' = cur + 1 /\ UNCHANGED cells
      /\ phase' = "declare" /\ item' = 1
  BY PastGrows DEF Compile, Start
<1>2. ASSUME NEW t \in Visible', NEW i \in Interface, Found(t, i)' # None
      PROVE  Found(t, i)'.module # cur'
  <2>1. t \in Type BY VisibleNext
  <2>2. t \in Type /\ iface_impls'[t] # None BY <1>2, <2>1 DEF Found
  <2>3. iface_impls'[t] \in 1..Len(cells) BY <1>1, <2>2 DEF TypeOK, PointsTo
  <2>4. PICK k \in DOMAIN cells : k = iface_impls'[t] BY <2>3, CellsDomain
  <2>5. Found(t, i)' = cells[k].interfaces[i] BY <1>1, <2>2, <2>4 DEF Found
  <2>6. Found(t, i)'.module \in 0..cur BY <1>2, <2>5 DEF ImplsHaveOrigin, HasOrigin
  <2> QED BY <1>1, <2>6
<1> QED BY <1>1, <1>2, StartingOwn DEF Starting

LEMMA OwnStep ==
  ASSUME IInv, OriginInv, OwnInv, TypeOK', [Next]_vars
  PROVE  OwnInv'
<1>0. TypeOK /\ FillingExisting /\ ImplsHaveOrigin BY DEF IInv, OriginInv
<1>1. CASE CompileStd BY <1>1, CompileStdOwn
<1>2. ASSUME NEW p \in Programs, Compile(p) PROVE OwnInv' BY <1>0, <1>2, CompileOwn
<1>3. CASE Consume \/ Panic BY <1>3 DEF Consume, Panic, OwnInv
<1>4. CASE DeclareImpl BY <1>0, <1>4, DeclareImplOwn
<1>5. ASSUME UNCHANGED <<cached, past>>, phase # "idle", phase' # "declare",
             \A t \in Type, i \in Interface : Alike(t, i),
             phase = "declare" => item > Len(CurImpls)
      PROVE  OwnInv'
  <2>1. PICK n : n = Front OBVIOUS
  <2>2. PICK N : N = Len(AllImpls) OBVIOUS
  <2>3. n \in Nat /\ N \in Nat /\ n >= N
    BY <1>0, <1>5, <2>1, <2>2, AllImplsAre DEF Front, TypeOK
  <2>4. Front' = N BY <1>5, <2>2, BlocksSame DEF Front
  <2>5. Latest(n) = Latest(N) BY <1>0, <2>2, <2>3, EffectiveIs
  <2>6. OwnAgrees(n) BY <1>5, <2>1 DEF OwnInv
  <2>7. OwnAgrees(N) BY <2>5, <2>6 DEF OwnAgrees, Own
  <2>8. OwnAgrees(N)' BY <1>0, <1>5, <2>7, AlikeOwn
  <2> QED BY <2>4, <2>8 DEF OwnInv
<1>6. CASE DeclareImpls
  <2>1. \A t \in Type, i \in Interface : Alike(t, i)
    BY <1>6 DEF DeclareImpls, session, Found, Alike
  <2> QED BY <1>5, <1>6, <2>1 DEF DeclareImpls, session
<1>7. CASE (\E k \in DOMAIN cells : FillImpls(k)) \/ EndFill
           \/ (\E k \in DOMAIN cells : GenerateImpl(k))
  <2>1. \A t \in Type, i \in Interface : Alike(t, i)
    BY <1>7 DEF FillImpls, EndFill, GenerateImpl, session, Found, Alike
  <2> QED BY <1>5, <1>7, <2>1 DEF FillImpls, EndFill, GenerateImpl, session
<1>8. ASSUME NEW n \in left, FillImpl(n) PROVE OwnInv'
  <2>1. \A t \in Type, i \in Interface : Alike(t, i) BY <1>0, <1>8, FillFound DEF Alike
  <2> QED BY <1>0, <1>5, <1>8, <2>1 DEF FillImpl, FillingExisting
<1>9. CASE FilledImpls
  <2>1. \A t \in Type, i \in Interface : Alike(t, i) BY <1>0, <1>9, FilledFound DEF Alike
  <2> QED BY <1>0, <1>5, <1>9, <2>1 DEF FilledImpls, FillingExisting
<1>10. ASSUME NEW u \in Visible, Lookup(u) PROVE OwnInv'
  <2>1. \A t \in Type, i \in Interface : Alike(t, i) BY <1>0, <1>10, LookupFound DEF Alike
  <2> QED BY <1>5, <1>10, <2>1 DEF Lookup
<1>11. CASE UNCHANGED vars
  <2>1. UNCHANGED <<cached, past, phase, item, cells, iface_impls>> BY <1>11 DEF vars
  <2>2. PICK n : n = Front OBVIOUS
  <2>3. Front' = n BY <2>1, <2>2, BlocksSame DEF Front
  <2>4. \A t \in Type, i \in Interface : Alike(t, i) BY <2>1 DEF Found, Alike
  <2>5. phase # "idle" => OwnAgrees(n)' BY <1>0, <2>1, <2>2, <2>4, AlikeOwn DEF OwnInv
  <2> QED BY <2>1, <2>3, <2>5 DEF OwnInv
<1> QED
  BY <1>1, <1>2, <1>3, <1>4, <1>6, <1>7, <1>8, <1>9, <1>10, <1>11 DEF Next

LEMMA OwnInvHolds == Spec => []OwnInv
<1>1. Init => OwnInv
  BY DEF Init, OwnInv
<1>2. IInv /\ OriginInv /\ OwnInv /\ IInv' /\ [Next]_vars => OwnInv'
  BY OwnStep DEF IInv
<1> QED
  BY <1>1, <1>2, IInvHolds, OriginInvHolds, PTL DEF Spec

LEMMA DeclareImplsFresh ==
  ASSUME TypeOK, FillingExisting, FreshInv, DeclareImpls, Comparable
  PROVE  FreshInv'
<1>1. /\ UNCHANGED <<cached, past, cells, iface_impls, errors, filling>>
      /\ phase = "declare" /\ phase' = "fill" /\ todo' = Registered /\ item > Len(CurImpls)
  BY DEF DeclareImpls, session, fill
<1>2. PICK N : N = Len(AllImpls) OBVIOUS
<1>3. PICK n : n = Front OBVIOUS
<1>4. n \in Nat /\ n >= Len(AllImpls) /\ N \in Nat /\ Front' = N
  BY <1>1, <1>2, <1>3, AllImplsAre, BlocksSame DEF Front, TypeOK
<1>5. RegistryAgrees(n) /\ errors = DeclErrors(n)
      /\ \A j \in Own(n) : ImplAt(j).methods = {}
  BY <1>1, <1>3 DEF FreshInv
<1>6. BlocksTo(n) = BlocksTo(N) /\ Latest(n) = Latest(N) /\ Own(n) = Own(N)
      /\ DeclErrors(n) = DeclErrors(N)
  <2>1. BlocksTo(n) = BlocksTo(N) /\ Latest(n) = Latest(N) BY <1>2, <1>4, EffectiveIs
  <2>2. \A j \in DOMAIN AllImpls : j <= n <=> j <= N BY <1>2, <1>4, EffectiveIs
  <2> QED BY <2>1, <2>2 DEF Own, DeclErrors
<1>7. \A t \in Type, i \in Interface : Found(t, i)' = Found(t, i) BY <1>1 DEF Found
<1>8. RegistryAgrees(N)'
  <2>1. RegistryAgrees(N) BY <1>5, <1>6 DEF RegistryAgrees
  <2> QED BY <1>1, <1>7, <2>1, SameImpls
<1>9. /\ Own(N)' = Own(N) /\ DeclErrors(N)' = DeclErrors(N) /\ AllImpls' = AllImpls
      /\ \A j : TypeAt(j)' = TypeAt(j)
      /\ \A S : FillErrors(S)' = FillErrors(S)
  BY <1>1, BlocksSame
<1>10. Filled' = {}
  <2>1. ASSUME NEW j \in Own(N) PROVE iface_impls[TypeAt(j)] \in Registered
    <3>1. j \in BlocksTo(N) /\ j \in DOMAIN AllImpls BY LatestIs DEF Own
    <3>2. ImplAt(j) # None BY <1>5, <1>6, <3>1 DEF RegistryAgrees
    <3>3. iface_impls[TypeAt(j)] # None BY <3>2 DEF ImplAt, Found
    <3> QED BY <3>1, <3>3, BlockTyped DEF Registered
  <2> QED BY <1>1, <1>2, <1>9, <2>1 DEF Filled, Pending
<1>11. FillErrors({}) = {} BY DEF FillErrors
<1>12. \A j \in Own(N) : ImplAt(j)' = ImplAt(j)
  BY <1>1, <1>7, SameImpls, LatestIs DEF Own
<1>13. errors' = DeclErrors(N) \cup FillErrors({}) BY <1>1, <1>5, <1>6, <1>11
<1> QED BY <1>1, <1>2, <1>4, <1>5, <1>6, <1>8, <1>9, <1>10, <1>12, <1>13 DEF FreshInv

LEMMA FillImplsFresh ==
  ASSUME TypeOK, FillingExisting, Ages, FreshInv, Comparable, NEW k \in DOMAIN cells, FillImpls(k)
  PROVE  FreshInv'
<1>1. /\ UNCHANGED <<cached, past, cells, iface_impls, errors, compiled>>
      /\ phase = "fill" /\ phase' = "fill" /\ todo' = todo \ {k} /\ k \in todo
      /\ filling = None /\ filling' = k /\ left' = Uncompiled(k)
  BY DEF FillImpls, session
<1>2. PICK N : N = Len(AllImpls) OBVIOUS
<1>3. Front = N /\ Front' = N BY <1>1, <1>2, BlocksSame DEF Front
<1>4. /\ RegistryAgrees(N) /\ errors = DeclErrors(N) \cup FillErrors(Filled)
      /\ \A j \in Own(N) \ Filled : ImplAt(j).methods = {}
  BY <1>1, <1>3 DEF FreshInv
<1>5. \A t \in Type, i \in Interface : Found(t, i)' = Found(t, i) BY <1>1 DEF Found
<1>6. RegistryAgrees(N)' BY <1>1, <1>4, <1>5, SameImpls
<1>7. /\ Own(N)' = Own(N) /\ DeclErrors(N)' = DeclErrors(N) /\ AllImpls' = AllImpls
      /\ \A j : TypeAt(j)' = TypeAt(j) /\ IfaceAt(j)' = IfaceAt(j)
      /\ \A S : FillErrors(S)' = FillErrors(S)
  BY <1>1, BlocksSame
<1>8. ASSUME NEW j \in Own(N) PROVE Pending(j)' <=> Pending(j)
  <2>1. j \in Latest(N) /\ j \in BlocksTo(N) /\ j \in Blocks /\ j \in DOMAIN AllImpls /\ j > Base
    BY LatestIs DEF Own
  <2>2. ImplAt(j) # None /\ ImplAt(j).module = ModuleOf(j) BY <1>4, <2>1 DEF RegistryAgrees
  <2>3. ModuleOf(j) = cur
    <3>1. j \in Nat /\ Base \in Nat BY <2>1, BlockTyped, AllImplsAre
    <3> QED BY <2>1, <3>1, AllImplsAre
  <2>4. cur \notin compiled BY <1>1 DEF Ages
  <2>5. ASSUME iface_impls[TypeAt(j)] = k PROVE IfaceAt(j) \in Uncompiled(k)
    <3>1. IfaceAt(j) \in Interface BY <2>1, BlockTyped
    <3>2. ImplAt(j) = cells[k].interfaces[IfaceAt(j)] BY <2>2, <2>5 DEF ImplAt, Found
    <3> QED BY <2>2, <2>3, <2>4, <3>1, <3>2 DEF Uncompiled
  <2>6. k # None BY <1>1, NoneIsNothing, CellsDomain
  <2>7. Pending(j) <=> iface_impls[TypeAt(j)] \in todo BY <1>1 DEF Pending
  <2>8. Pending(j)' <=> \/ iface_impls[TypeAt(j)] \in todo \ {k}
                        \/ k = iface_impls[TypeAt(j)] /\ IfaceAt(j) \in Uncompiled(k)
    BY <1>1, <1>7, <2>6 DEF Pending
  <2> QED BY <1>1, <2>5, <2>7, <2>8
<1>9. Filled' = Filled
  BY <1>2, <1>7, <1>8 DEF Filled
<1>10. \A j \in Own(N) : ImplAt(j)' = ImplAt(j)
  BY <1>1, <1>5, SameImpls, LatestIs DEF Own
<1> QED BY <1>1, <1>2, <1>3, <1>4, <1>6, <1>7, <1>9, <1>10 DEF FreshInv

LEMMA FilledImplsFresh ==
  ASSUME TypeOK, FillingExisting, FreshInv, Comparable, FilledImpls
  PROVE  FreshInv'
<1>1. /\ UNCHANGED <<cached, past, iface_impls, errors, todo, phase>>
      /\ phase = "fill" /\ filling # None /\ filling' = None /\ left = {}
  BY DEF FilledImpls, FillingExisting
<1>2. PICK N : N = Len(AllImpls) OBVIOUS
<1>3. Front = N /\ Front' = N BY <1>1, <1>2, BlocksSame DEF Front
<1>4. /\ RegistryAgrees(N) /\ errors = DeclErrors(N) \cup FillErrors(Filled)
      /\ \A j \in Own(N) \ Filled : ImplAt(j).methods = {}
  BY <1>1, <1>3 DEF FreshInv
<1>5. \A t \in Type, i \in Interface : Found(t, i)' = Found(t, i) BY FilledFound
<1>6. RegistryAgrees(N)' BY <1>1, <1>4, <1>5, SameImpls
<1>7. /\ Own(N)' = Own(N) /\ DeclErrors(N)' = DeclErrors(N) /\ AllImpls' = AllImpls
      /\ \A j : TypeAt(j)' = TypeAt(j) /\ IfaceAt(j)' = IfaceAt(j)
      /\ \A S : FillErrors(S)' = FillErrors(S)
  BY <1>1, BlocksSame
<1>8. \A j \in Own(N) : Pending(j)' <=> Pending(j) BY <1>1, <1>7 DEF Pending
<1>9. Filled' = Filled BY <1>2, <1>7, <1>8 DEF Filled
<1>10. \A j \in Own(N) : ImplAt(j)' = ImplAt(j)
  BY <1>1, <1>5, SameImpls, LatestIs DEF Own
<1> QED BY <1>1, <1>2, <1>3, <1>4, <1>6, <1>7, <1>9, <1>10 DEF FreshInv

LEMMA OccursIff ==
  ASSUME NEW seq \in Seq(Methods), NEW m
  PROVE  Occurrences(seq, m) > 0 <=> \E x \in DOMAIN seq : seq[x] = m
<1>1. PICK S : S = {j \in DOMAIN seq : seq[j] = m} OBVIOUS
<1>2. Len(seq) \in Nat /\ DOMAIN seq = 1..Len(seq) BY LenProperties
<1>3. IsFiniteSet(S)
  <2>1. IsFiniteSet(1..Len(seq)) BY <1>2, FS_Interval
  <2> QED BY <1>1, <1>2, <2>1, FS_Subset
<1>4. Cardinality(S) \in Nat /\ (Cardinality(S) = 0 <=> S = {})
  BY <1>3, FS_CardinalityType, FS_EmptySet
<1>5. Occurrences(seq, m) = Cardinality(S) BY <1>1 DEF Occurrences
<1> QED BY <1>1, <1>4, <1>5

(* The interface's own methods are asked for, whether or not its lifecycle *)
(* methods are there.                                                      *)
LEMMA WantedIsRequired ==
  ASSUME IInv, OriginInv, AgesInv, phase = "fill", NEW i \in Interface, i \in Visible
  PROVE  WantedLen(i) = Cardinality(Required[i.name])
<1>0. TypeOK /\ Ages /\ RunsAreMarked /\ cur \in Nat BY CurTyped DEF IInv, OriginInv
<1>1. i.of = cur \/ (i.of = 0 /\ cached /\ cur # 0)
  BY DEF Visible, TypeOf
<1>2. PICK c : c = Cardinality(Required[i.name]) OBVIOUS
<1>3. c \in Nat BY <1>2, RequiredFinite
<1>4. CASE i.of = cur
  <2>1. i.of \notin lifecycle /\ i.of \notin compiled
    BY <1>0, <1>4 DEF AgesInv, Ages
  <2>2. IfaceMethodLen(i) = c + (IF i.of \in lifecycle THEN 3 ELSE 0) BY <1>2 DEF IfaceMethodLen
  <2>3. WantedLen(i) = IfaceMethodLen(i) - (IF i.of \in compiled THEN 3 ELSE 0) BY DEF WantedLen
  <2> QED BY ONLY <1>2, <1>3, <2>1, <2>2, <2>3
<1>5. CASE i.of = 0 /\ cached /\ cur # 0
  <2>1. 0 \in compiled BY <1>0, <1>5 DEF AgesInv, RunsAreMarked
  <2>2. i.of \in lifecycle /\ i.of \in compiled BY <1>0, <1>5, <2>1 DEF Ages
  <2>3. IfaceMethodLen(i) = c + (IF i.of \in lifecycle THEN 3 ELSE 0) BY <1>2 DEF IfaceMethodLen
  <2>4. WantedLen(i) = IfaceMethodLen(i) - (IF i.of \in compiled THEN 3 ELSE 0) BY DEF WantedLen
  <2> QED BY ONLY <1>2, <1>3, <2>2, <2>3, <2>4
<1> QED BY <1>1, <1>4, <1>5

(* The impl fill_impls_ works on is that of one of the compilation's own   *)
(* blocks.                                                                 *)
LEMMA FillingBlock ==
  ASSUME IInv, OriginInv, VisibleInv, FillingInv, OwnInv, cached => Unbroken,
         NEW n \in left, filling # None
  PROVE  \E j \in Own(Len(AllImpls)) :
           /\ j \notin Filled /\ n = IfaceAt(j) /\ n \in Visible
           /\ iface_impls[TypeAt(j)] = filling /\ TypeAt(j) \in Type
           /\ cells[filling].implementor = TypeAt(j)
           /\ cells[filling].interfaces[n] = ImplAt(j)
<1>0. TypeOK /\ FillingExisting /\ phase = "fill" BY DEF IInv, FillingExisting
<1>1. /\ filling \in Registered /\ n \in Uncompiled(filling) /\ n \in Interface
  BY DEF FillingInv, Uncompiled
<1>2. PICK t \in Type : iface_impls[t] = filling BY <1>1 DEF Registered
<1>3. cells[filling].implementor = t /\ filling \in DOMAIN cells
  BY <1>0, <1>2, RegistryTyped, CellsDomain
<1>4. t \in Visible BY <1>0, <1>2 DEF VisibleInv
<1>5. cells[filling].interfaces[n].module = cur
  BY <1>0, <1>1, UncompiledIsOwn
<1>6. cells[filling].interfaces[n] # None BY <1>1 DEF Uncompiled
<1>7. n \in Visible BY <1>1, <1>3, <1>5, <1>6, VisibleIs DEF VisibleInv
<1>8. Found(t, n) = cells[filling].interfaces[n] BY <1>2 DEF Found
<1>9. PICK N : N = Len(AllImpls) OBVIOUS
<1>10. Front = N BY <1>0, <1>9 DEF Front
<1>11. OwnAgrees(N) BY <1>0, <1>10 DEF OwnInv
<1>12. PICK j \in Own(N) : TypeAt(j) = t /\ IfaceAt(j) = n
  BY <1>1, <1>4, <1>5, <1>6, <1>7, <1>8, <1>11 DEF OwnAgrees
<1>13. ImplAt(j) = Found(t, n) BY <1>12 DEF ImplAt
<1>18. Pending(j) BY <1>2, <1>12 DEF Pending
<1> QED BY <1>2, <1>3, <1>7, <1>8, <1>9, <1>12, <1>13, <1>18 DEF Filled

LEMMA FillErrorsOne ==
  ASSUME NEW S, NEW j
  PROVE  FillErrors(S \cup {j}) = FillErrors(S)
           \cup {ErrOf("E313", j, m) : m \in {x \in Methods : x \in Has(j) \ Needs(j)}}
           \cup IF ~(Needs(j) \subseteq Has(j)) THEN {ErrOf("E314", j, None)} ELSE {}
<1> DEFINE D(T) == {x \in T \X Methods : x[2] \in Has(x[1]) \ Needs(x[1])}
           U(T) == {x \in T : ~(Needs(x) \subseteq Has(x))}
           M == {x \in Methods : x \in Has(j) \ Needs(j)}
<1>1. {ErrOf("E313", jm[1], jm[2]) : jm \in D(S \cup {j})} =
        {ErrOf("E313", jm[1], jm[2]) : jm \in D(S)} \cup {ErrOf("E313", j, m) : m \in M}
  <2>1. ASSUME NEW e \in {ErrOf("E313", jm[1], jm[2]) : jm \in D(S \cup {j})}
        PROVE  e \in {ErrOf("E313", jm[1], jm[2]) : jm \in D(S)} \cup {ErrOf("E313", j, m) : m \in M}
    <3>1. PICK jm \in D(S \cup {j}) : e = ErrOf("E313", jm[1], jm[2]) BY <2>1
    <3>2. CASE jm[1] \in S
      <4>1. jm \in D(S) BY <3>1, <3>2
      <4> QED BY <3>1, <4>1
    <3>3. CASE jm[1] = j
      <4>1. jm[2] \in M BY <3>1, <3>3
      <4> QED BY <3>1, <3>3, <4>1
    <3>4. jm[1] \in S \cup {j} BY <3>1
    <3> QED BY <3>2, <3>3, <3>4
  <2>2. ASSUME NEW e \in {ErrOf("E313", jm[1], jm[2]) : jm \in D(S)}
        PROVE  e \in {ErrOf("E313", jm[1], jm[2]) : jm \in D(S \cup {j})}
    <3>1. D(S) \subseteq D(S \cup {j}) OBVIOUS
    <3> HIDE DEF D
    <3> QED BY <2>2, <3>1
  <2>3. ASSUME NEW m \in M
        PROVE  ErrOf("E313", j, m) \in {ErrOf("E313", jm[1], jm[2]) : jm \in D(S \cup {j})}
    <3>1. <<j, m>> \in D(S \cup {j}) /\ <<j, m>>[1] = j /\ <<j, m>>[2] = m BY <2>3
    <3> HIDE DEF D
    <3> QED BY <3>1
  <2> HIDE DEF D, M
  <2> QED BY <2>1, <2>2, <2>3
<1>2. {ErrOf("E314", x, None) : x \in U(S \cup {j})} =
        {ErrOf("E314", x, None) : x \in U(S)} \cup
          IF ~(Needs(j) \subseteq Has(j)) THEN {ErrOf("E314", j, None)} ELSE {}
  <2>1. U(S \cup {j}) = U(S) \cup IF ~(Needs(j) \subseteq Has(j)) THEN {j} ELSE {} OBVIOUS
  <2> HIDE DEF U
  <2> QED BY <2>1
<1> QED BY <1>1, <1>2 DEF FillErrors

(* The errors fill_impls_ reports are those of the block.                  *)
LEMMA BlockErrors ==
  ASSUME IInv, OriginInv, AgesInv, phase = "fill", NEW n \in left, FillImpl(n), n \in Interface,
         n \in Visible, NEW j \in Blocks, n = IfaceAt(j),
         cells[filling].implementor = TypeAt(j), cells[filling].interfaces[n] = ImplAt(j),
         ImplAt(j).wants = AllImpls[j].methods, ImplAt(j).methods = {}
  PROVE  errors' = errors
           \cup {ErrOf("E313", j, m) : m \in {x \in Methods : x \in Has(j) \ Needs(j)}}
           \cup IF ~(Needs(j) \subseteq Has(j)) THEN {ErrOf("E314", j, None)} ELSE {}
<1>0. TypeOK BY DEF IInv
<1>1. j \in DOMAIN AllImpls BY DEF Blocks
<1>2. AllImpls[j] \in ImplAst /\ n.name = AllImpls[j].iface BY <1>0, <1>1, BlockTyped
<1>3. PICK w : w = AllImpls[j].methods OBVIOUS
<1>4. w \in Seq(Methods) BY <1>2, <1>3 DEF ImplAst
<1>5. PICK has : has = {m \in Methods : Occurrences(w, m) > 0} OBVIOUS
<1>6. has = Has(j)
  <2>1. \A x \in DOMAIN w : w[x] \in Methods BY <1>4, LenProperties, ElementOfSeq
  <2> QED BY <1>3, <1>4, <1>5, <2>1, OccursIff DEF Has
<1>7. PICK req : req = Required[n.name] OBVIOUS
<1>8. Needs(j) = req BY <1>2, <1>7 DEF Needs
<1>9. \A code, m : ErrOf(code, j, m) = Err(code, cells[filling].implementor, n, m)
  BY DEF ErrOf, TypeAt, IfaceAt
<1>10. errors' = errors
         \cup {Err("E313", cells[filling].implementor, n, m) : m \in has \ req}
         \cup IF WantedLen(n) > Cardinality({} \cup (has \cap req))
              THEN {Err("E314", cells[filling].implementor, n, None)} ELSE {}
  <2>1. cells[filling].interfaces[n].wants = w /\ cells[filling].interfaces[n].methods = {}
    BY <1>3
  <2>2. errors' = errors
         \cup {Err("E313", cells[filling].implementor, n, m) :
                 m \in {m \in Methods : Occurrences(cells[filling].interfaces[n].wants, m) > 0} \ Required[n.name]}
         \cup IF WantedLen(n) > Cardinality(cells[filling].interfaces[n].methods \cup
                   ({m \in Methods : Occurrences(cells[filling].interfaces[n].wants, m) > 0}
                      \cap Required[n.name]))
              THEN {Err("E314", cells[filling].implementor, n, None)} ELSE {}
    BY DEF FillImpl
  <2> QED BY ONLY <1>5, <1>7, <2>1, <2>2
<1>11. WantedLen(n) > Cardinality({} \cup (has \cap req)) <=> ~(req \subseteq has)
  <2>1. WantedLen(n) = Cardinality(req) BY <1>7, WantedIsRequired
  <2>2. IsFiniteSet(req) /\ Cardinality(req) \in Nat BY <1>7, RequiredFinite
  <2>3. /\ Cardinality(has \cap req) \in Nat /\ Cardinality(has \cap req) <= Cardinality(req)
        /\ Cardinality(has \cap req) = Cardinality(req) => has \cap req = req
    BY <2>2, FS_Subset, FS_CardinalityType
  <2>4. {} \cup (has \cap req) = has \cap req OBVIOUS
  <2>5. has \cap req = req <=> req \subseteq has OBVIOUS
  <2>6. has \cap req = req => Cardinality(has \cap req) = Cardinality(req) OBVIOUS
  <2> QED BY ONLY <2>1, <2>2, <2>3, <2>4, <2>5, <2>6
<1>12. {x \in Methods : x \in Has(j) \ Needs(j)} = has \ req BY <1>5, <1>6, <1>8
<1> QED BY <1>6, <1>8, <1>9, <1>10, <1>11, <1>12

LEMMA FillImplFresh ==
  ASSUME IInv, OriginInv, AgesInv, VisibleInv, FillingInv, OwnInv, FreshInv, Comparable,
         NEW n \in left, FillImpl(n)
  PROVE  FreshInv'
<1>1. /\ UNCHANGED <<cached, past, phase, iface_impls, todo, filling>>
      /\ filling # None /\ left' = left \ {n}
  BY DEF FillImpl
<1>2. TypeOK /\ FillingExisting /\ phase = "fill" BY <1>1 DEF IInv, FillingExisting
<1>3. PICK N : N = Len(AllImpls) OBVIOUS
<1>4. Front = N /\ Front' = N BY <1>1, <1>2, <1>3, BlocksSame DEF Front
<1>5. /\ RegistryAgrees(N) /\ errors = DeclErrors(N) \cup FillErrors(Filled)
      /\ \A j \in Own(N) \ Filled : ImplAt(j).methods = {}
  BY <1>2, <1>4 DEF FreshInv
<1>6. PICK j \in Own(N) :
           /\ j \notin Filled /\ n = IfaceAt(j) /\ n \in Visible
           /\ iface_impls[TypeAt(j)] = filling /\ TypeAt(j) \in Type
           /\ cells[filling].implementor = TypeAt(j)
           /\ cells[filling].interfaces[n] = ImplAt(j)
  BY <1>1, <1>3, FillingBlock, UndisturbedIsUnbroken DEF Comparable
<1>7. /\ Own(N) \subseteq Blocks /\ Own(N) \subseteq Latest(N) /\ n \in Interface
      /\ j \in Latest(N) /\ j > Base /\ j \in Blocks
  BY <1>2, LatestIs DEF Own, TypeOK
<1>8. ImplAt(j).wants = AllImpls[j].methods /\ ImplAt(j).methods = {}
  BY <1>5, <1>6, <1>7 DEF RegistryAgrees
<1>9. errors' = errors
           \cup {ErrOf("E313", j, m) : m \in {x \in Methods : x \in Has(j) \ Needs(j)}}
           \cup IF ~(Needs(j) \subseteq Has(j)) THEN {ErrOf("E314", j, None)} ELSE {}
  BY <1>2, <1>6, <1>7, <1>8, BlockErrors
<1>10. errors' = DeclErrors(N) \cup FillErrors(Filled \cup {j})
  <2>1. FillErrors(Filled \cup {j}) = FillErrors(Filled)
           \cup {ErrOf("E313", j, m) : m \in {x \in Methods : x \in Has(j) \ Needs(j)}}
           \cup IF ~(Needs(j) \subseteq Has(j)) THEN {ErrOf("E314", j, None)} ELSE {}
    BY FillErrorsOne
  <2> QED BY ONLY <1>5, <1>9, <2>1
<1>11. \A t \in Type, i \in Interface :
         /\ iface_impls[t] = filling /\ i = n =>
              /\ Found(t, i)' # None /\ Found(t, i) # None
              /\ Found(t, i)'.module = Found(t, i).module
              /\ Found(t, i)'.wants = Found(t, i).wants
         /\ ~(iface_impls[t] = filling /\ i = n) => Found(t, i)' = Found(t, i)
  BY <1>2, FillFound
<1>12. RegistryAgrees(N)'
  <2>1. \A t \in Type, i \in Interface : Alike(t, i) BY <1>11 DEF Alike
  <2> QED BY <1>1, <1>2, <1>5, <2>1, AlikeAgrees
<1>13. /\ Own(N)' = Own(N) /\ DeclErrors(N)' = DeclErrors(N) /\ AllImpls' = AllImpls
       /\ \A x : TypeAt(x)' = TypeAt(x) /\ IfaceAt(x)' = IfaceAt(x)
       /\ \A S : FillErrors(S)' = FillErrors(S)
  BY <1>1, BlocksSame
<1>14. ASSUME NEW x \in Own(N), x # j
       PROVE  ~(iface_impls[TypeAt(x)] = filling /\ IfaceAt(x) = n)
  <2>1. SUFFICES ASSUME iface_impls[TypeAt(x)] = filling, IfaceAt(x) = n PROVE FALSE OBVIOUS
  <2>2. TypeAt(x) \in Type BY <1>2, <1>7, BlockTyped DEF Blocks
  <2>3. TypeAt(x) = TypeAt(j) BY <1>1, <1>2, <1>6, <2>1, <2>2, RegistryTyped
  <2> QED BY <1>2, <1>6, <1>7, <1>14, <2>1, <2>3, LatestIs
<1>15. ASSUME NEW x \in Own(N) PROVE Pending(x)' <=> Pending(x) /\ x # j
  <2>1. Pending(x)' <=> \/ iface_impls[TypeAt(x)] \in todo
                        \/ filling = iface_impls[TypeAt(x)] /\ IfaceAt(x) \in left \ {n}
    BY <1>1, <1>13 DEF Pending
  <2>2. CASE x # j BY <1>1, <1>14, <2>1, <2>2 DEF Pending
  <2>3. CASE x = j BY <1>1, <1>6, <2>1, <2>3 DEF FillingInv
  <2> QED BY <2>2, <2>3
<1>16. Filled' = Filled \cup {j} BY <1>3, <1>6, <1>13, <1>15 DEF Filled
<1>17. ASSUME NEW x \in Own(N), x # j PROVE ImplAt(x)' = ImplAt(x)
  <2>1. x \in DOMAIN AllImpls /\ x \in Blocks BY <1>7 DEF Blocks
  <2>2. PICK t \in Type : t = TypeAt(x) BY <1>2, <2>1, BlockTyped
  <2>3. PICK i \in Interface : i = IfaceAt(x) BY <1>2, <2>1, BlockTyped
  <2>4. ImplAt(x)' = Found(t, i)' /\ ImplAt(x) = Found(t, i) BY <1>1, <1>2, <2>2, <2>3, ImplAtNext
  <2> QED BY <1>11, <1>14, <1>17, <2>2, <2>3, <2>4
<1>18. \A x \in Own(N)' \ Filled' : ImplAt(x)'.methods = {}
  BY <1>5, <1>13, <1>16, <1>17
<1>19. PICK S : S = Filled \cup {j} OBVIOUS
<1>20. errors' = DeclErrors(N)' \cup FillErrors(Filled)'
  <2>1. Filled' = S BY <1>16, <1>19
  <2>2. FillErrors(S)' = FillErrors(S) BY <1>13
  <2>3. FillErrors(Filled)' = FillErrors(S)' BY <2>1
  <2> QED BY <1>10, <1>13, <1>19, <2>2, <2>3
<1> QED BY <1>1, <1>2, <1>3, <1>4, <1>12, <1>13, <1>18, <1>20 DEF FreshInv

(* Blocks of a std that was compiled before report nothing.                *)
LEMMA StdBlocksClean ==
  ASSUME TypeOK, AgesInv, StdInv, phase # "idle", NEW j \in DOMAIN AllImpls, j <= Base
  PROVE  /\ j \in DOMAIN StdImpls /\ AllImpls[j] = StdImpls[j]
         /\ j \in Blocks /\ Has(j) = Needs(j)
<1>1. j \in 1..Base BY BlockTyped, AllImplsAre
<1>2. j \in DOMAIN StdImpls /\ AllImpls[j] = StdImpls[j] BY <1>1, AllImplsAre
<1>3. cached /\ cur # 0 BY <1>1 DEF Base
<1>4. StdClean BY <1>3 DEF AgesInv, StdInv
<1> QED BY <1>2, <1>4 DEF StdClean, Blocks, Valid, Has, Needs

LEMMA FreshErrorsAre ==
  ASSUME TypeOK, NEW N, N = Len(AllImpls)
  PROVE  FreshErrors = DeclErrors(N) \cup FillErrors(Effective)
<1>1. N \in Nat /\ N >= Len(AllImpls) BY AllImplsAre
<1>2. /\ BlocksTo(N) = Blocks /\ Latest(N) = Effective
      /\ \A j \in DOMAIN AllImpls : j <= N
  BY <1>1, EffectiveIs
<1>3. {k \in DOMAIN AllImpls \ Blocks : k <= N} = DOMAIN AllImpls \ Blocks BY <1>2
<1> QED BY <1>2, <1>3 DEF FreshErrors, DeclErrors, FillErrors

LEMMA EndFillFresh ==
  ASSUME IInv, AgesInv, StdInv, FreshInv, Comparable, EndFill
  PROVE  FreshInv'
<1>1. /\ UNCHANGED <<cached, past, cells, iface_impls, errors>>
      /\ phase = "fill" /\ phase' = "generate" /\ todo = {} /\ filling = None
  BY DEF EndFill
<1>2. TypeOK BY DEF IInv
<1>3. PICK N : N = Len(AllImpls) OBVIOUS
<1>4. Front = N /\ Front' = N BY <1>1, <1>3, BlocksSame DEF Front
<1>5. /\ RegistryAgrees(N) /\ errors = DeclErrors(N) \cup FillErrors(Filled)
  BY <1>1, <1>4 DEF FreshInv
<1>6. Filled = Own(N) BY <1>1, <1>3 DEF Filled, Pending
<1>7. N \in Nat /\ N >= Len(AllImpls) BY <1>2, <1>3, AllImplsAre
<1>8. Latest(N) = Effective /\ Effective \subseteq DOMAIN AllImpls
  BY <1>2, <1>7, EffectiveIs DEF Effective, Blocks
<1>9. \A j \in Effective \ Own(N) : Has(j) = Needs(j)
  <2>1. ASSUME NEW j \in Effective, ~(j > Base) PROVE Has(j) = Needs(j)
    <3>1. j \in Nat /\ Base \in Nat BY <1>2, <1>8, BlockTyped, AllImplsAre
    <3> QED BY <1>1, <1>2, <1>8, <2>1, <3>1, StdBlocksClean
  <2> QED BY <1>8, <2>1 DEF Own
<1>10. FillErrors(Effective) = FillErrors(Own(N))
  <2>1. PICK O : O = Own(N) OBVIOUS
  <2>2. O \subseteq Effective BY <1>8, <2>1 DEF Own
  <2>3. \A j \in Effective \ O : Has(j) = Needs(j) BY <1>9, <2>1
  <2>4. {x \in Effective \X Methods : x[2] \in Has(x[1]) \ Needs(x[1])}
          = {x \in O \X Methods : x[2] \in Has(x[1]) \ Needs(x[1])}
    <3>1. ASSUME NEW x \in Effective \X Methods, x[2] \in Has(x[1]) \ Needs(x[1])
          PROVE  x \in O \X Methods
      BY <2>3, <3>1
    <3>2. O \X Methods \subseteq Effective \X Methods BY <2>2
    <3> QED BY <3>1, <3>2
  <2>5. {x \in Effective : ~(Needs(x) \subseteq Has(x))} = {x \in O : ~(Needs(x) \subseteq Has(x))}
    BY <2>2, <2>3
  <2> QED BY <2>1, <2>4, <2>5 DEF FillErrors
<1>11. errors' = FreshErrors'
  <2>1. FreshErrors = DeclErrors(N) \cup FillErrors(Effective) BY <1>2, <1>3, FreshErrorsAre
  <2>2. FillErrors(Filled) = FillErrors(Own(N)) BY <1>6
  <2>3. FreshErrors' = FreshErrors BY <1>1, BlocksSame
  <2> QED BY <1>1, <1>5, <1>10, <2>1, <2>2, <2>3
<1>12. \A t \in Type, i \in Interface : Found(t, i)' = Found(t, i) BY <1>1 DEF Found
<1>13. RegistryAgrees(N)' BY <1>1, <1>2, <1>5, <1>12, SameImpls
<1> QED BY <1>1, <1>4, <1>11, <1>13 DEF FreshInv

LEMMA GenerateFresh ==
  ASSUME TypeOK, FreshInv, Comparable,
         (\E k \in DOMAIN cells : GenerateImpl(k)) \/ (\E t \in Visible : Lookup(t))
  PROVE  FreshInv'
<1>1. UNCHANGED <<cached, past, phase, errors>> /\ phase = "generate"
  BY DEF GenerateImpl, Lookup, session
<1>2. \A t \in Type, i \in Interface : Found(t, i)' = Found(t, i)
  <2>1. CASE \E k \in DOMAIN cells : GenerateImpl(k)
    BY <2>1 DEF GenerateImpl, session, Found
  <2>2. CASE \E t \in Visible : Lookup(t)
    BY <2>2, LookupFound
  <2> QED BY <2>1, <2>2
<1>3. PICK N : N = Len(AllImpls) OBVIOUS
<1>4. Front = N /\ Front' = N BY <1>1, <1>3, BlocksSame DEF Front
<1>5. RegistryAgrees(N) /\ errors = FreshErrors BY <1>1, <1>4 DEF FreshInv
<1>6. RegistryAgrees(N)' BY <1>1, <1>2, <1>5, SameImpls
<1>7. FreshErrors' = FreshErrors BY <1>1, BlocksSame
<1> QED BY <1>1, <1>4, <1>5, <1>6, <1>7 DEF FreshInv

-----------------------------------------------------------------------------
(* The start of a compilation.                                             *)

StartedEmpty ==
  phase = "declare" /\ item = 1 /\ iface_impls = NoTypes /\ errors = {} /\ Base = 0

LEMMA EmptyFresh == TypeOK /\ StartedEmpty => FreshInv
<1> SUFFICES ASSUME TypeOK, StartedEmpty PROVE FreshInv OBVIOUS
<1>1. Front = 0 BY DEF StartedEmpty, Front
<1>2. \A j \in DOMAIN AllImpls : ~(j <= 0) BY BlockTyped
<1>3. BlocksTo(0) = {} /\ Latest(0) = {} /\ Own(0) = {}
  BY <1>2 DEF BlocksTo, Latest, Blocks, Own
<1>4. DeclErrors(0) = {} BY <1>2, <1>3 DEF DeclErrors
<1>5. \A t \in Visible : \A i : Found(t, i) = None
  BY VisibleTyped DEF StartedEmpty, NoTypes, Found
<1>6. RegistryAgrees(0) BY <1>3, <1>5 DEF RegistryAgrees
<1> QED BY <1>1, <1>3, <1>4, <1>6 DEF FreshInv, StartedEmpty

(* No impl is of the compilation that starts.                              *)
NoneYet == \A k \in DOMAIN cells, i \in Interface :
             cells[k].interfaces[i] # None => cells[k].interfaces[i].module # cur

StartedFromStd ==
  /\ phase = "declare" /\ item = 1 /\ iface_impls = std_impls /\ errors = {}
  /\ cached /\ cur # 0 /\ std_impls # None /\ StdClean /\ StdAgrees /\ NoneYet

LEMMA StdTypes ==
  ASSUME NEW n \in StdNames, cached \/ cur = 0
  PROVE  TypeOf(cur, n) = StdType(n)
BY DEF TypeOf, StdType

LEMMA StdFresh == TypeOK /\ VisibleInv /\ StartedFromStd => FreshInv
<1> SUFFICES ASSUME TypeOK, VisibleInv, StartedFromStd PROVE FreshInv OBVIOUS
<1>0. cached /\ cur # 0 /\ std_impls # None /\ StdClean /\ StdAgrees /\ NoneYet
      /\ iface_impls = std_impls
  BY DEF StartedFromStd
<1>1. PICK n : n = Base OBVIOUS
<1>2. n \in Nat /\ Front = n /\ n = Len(StdImpls)
  BY <1>0, <1>1, AllImplsAre DEF StartedFromStd, Front, Base
<1>3. DOMAIN StdImpls = 1..n BY <1>2, ImplsAreAsts, LenProperties
<1>4. \A j \in DOMAIN StdImpls : j \in DOMAIN AllImpls /\ AllImpls[j] = StdImpls[j]
  <2>1. /\ DOMAIN AllImpls = 1..Len(AllImpls) /\ Len(AllImpls) = n + Len(CurImpls)
        /\ Len(CurImpls) \in Nat /\ \A j \in 1..n : AllImpls[j] = StdImpls[j]
    BY <1>1, AllImplsAre
  <2> QED BY <1>2, <1>3, <2>1
<1>5. \A j \in DOMAIN AllImpls : j <= n <=> j \in DOMAIN StdImpls
  BY <1>2, <1>3, BlockTyped
<1>6. DOMAIN StdImpls \subseteq Blocks BY <1>0, <1>4 DEF StdClean, Blocks, Valid
<1>7. BlocksTo(n) = DOMAIN StdImpls BY <1>4, <1>5, <1>6 DEF BlocksTo, Blocks
<1>8. \A j, k \in DOMAIN StdImpls : SamePair(j, k) => j = k
  BY <1>0, <1>4 DEF StdClean, SamePair
<1>9. Latest(n) = DOMAIN StdImpls
  <2>1. \A j \in DOMAIN StdImpls : j <= j BY <1>3
  <2> QED BY <1>7, <1>8, <2>1 DEF Latest
<1>10. Own(n) = {}
  <2>1. \A j \in DOMAIN StdImpls : ~(j > n) BY <1>2, <1>3
  <2> QED BY <1>1, <1>9, <2>1 DEF Own
<1>11. DeclErrors(n) = {}
  <2>1. {k \in DOMAIN AllImpls \ Blocks : k <= n} = {} BY <1>5, <1>6
  <2> QED BY <1>7, <1>9, <2>1 DEF DeclErrors
<1>12. ASSUME NEW j \in DOMAIN StdImpls
       PROVE  /\ TypeAt(j) = StdType(StdImpls[j].type)
              /\ IfaceAt(j) = StdType(StdImpls[j].iface)
  <2>1. StdImpls[j].type \in StdNames /\ StdImpls[j].iface \in StdNames
    BY <1>12, StdIsClosed
  <2> QED BY <1>0, <1>4, <2>1, StdTypes DEF TypeAt, IfaceAt
<1>13. \A a, b : Found(StdType(a), StdType(b)) = StdFound(a, b)
  BY <1>0 DEF Found, StdFound
<1>14. ASSUME NEW j \in DOMAIN StdImpls
       PROVE  ImplAt(j) # None /\ ImplAt(j).module = ModuleOf(j) /\ ~(j > n)
  <2>1. ImplAt(j) = StdFound(StdImpls[j].type, StdImpls[j].iface)
    BY <1>12, <1>13 DEF ImplAt
  <2>2. ModuleOf(j) = 0 BY <1>1, <1>4, <1>5, AllImplsAre
  <2>3. ~(j > n) BY <1>2, <1>3
  <2> QED BY <1>0, <2>1, <2>2, <2>3 DEF StdAgrees
<1>15. ASSUME NEW t \in Visible, NEW i \in Visible \cap Interface, Found(t, i) # None
       PROVE  \E j \in Latest(n) : TypeAt(j) = t /\ IfaceAt(j) = i
  <2>1. t \in Type BY VisibleTyped
  <2>2. std_impls[t] # None /\ Found(t, i) = cells[std_impls[t]].interfaces[i]
    BY <1>0, <1>15 DEF Found
  <2>3. t.of = 0 /\ t.name \in StdNames BY <1>0, <2>1, <2>2 DEF VisibleInv
  <2>4. t = StdType(t.name) BY <2>1, <2>3 DEF Type, StdType
  <2>5. std_impls[t] \in DOMAIN cells BY <1>0, <2>1, <2>2, RegistryTyped, CellsDomain
  <2>6. PICK c : c = Found(t, i).module OBVIOUS
  <2>7. i \in VisibleTo(c) /\ c # cur
    BY <1>0, <1>15, <2>2, <2>5, <2>6 DEF VisibleInv, NoneYet
  <2>8. i.of \in {0, c} /\ i.of \in {0, cur} /\ (i.of = 0 => i.name \in StdNames)
    BY <1>0, <2>7 DEF VisibleTo, Visible, TypeOf
  <2>9. i.of = 0 /\ i.name \in StdNames \cap IfaceNames BY <1>0, <2>7, <2>8 DEF Interface
  <2>10. i = StdType(i.name) BY <2>9 DEF Interface, StdType
  <2>11. StdFound(t.name, i.name) # None BY <1>13, <1>15, <2>4, <2>10
  <2>12. PICK j \in DOMAIN StdImpls : StdImpls[j].type = t.name /\ StdImpls[j].iface = i.name
    BY <1>0, <2>3, <2>9, <2>11 DEF StdAgrees
  <2> QED BY <1>9, <1>12, <2>4, <2>10, <2>12
<1>16. RegistryAgrees(n) BY <1>1, <1>7, <1>9, <1>14, <1>15 DEF RegistryAgrees
<1> QED BY <1>2, <1>10, <1>11, <1>16 DEF FreshInv, StartedFromStd

LEMMA StartedFresh ==
  /\ (TypeOK /\ StartedEmpty => FreshInv)'
  /\ (TypeOK /\ VisibleInv /\ StartedFromStd => FreshInv)'
BY EmptyFresh, StdFresh, PTL

LEMMA CompileStdFresh ==
  ASSUME IInv, TypeOK', CompileStd
  PROVE  FreshInv'
<1>1. past = <<>> /\ past' = past BY DEF IInv, Ages, CompileStd
<1>2. cur' = 0 BY <1>1, EmptySeq DEF cur
<1>3. StartedEmpty' BY <1>2 DEF CompileStd, Start, StartedEmpty, Base
<1> QED BY <1>3, StartedFresh

LEMMA CompileFresh ==
  ASSUME IInv, OriginInv, StdInv, TypeOK', VisibleInv', Comparable',
         NEW p \in Programs, Compile(p)
  PROVE  FreshInv'
<1>0. TypeOK BY DEF IInv
<1>1. /\ cur \in Nat /\ cur' = cur + 1
      /\ \A c \in 1..cur : past'[c] = past[c]
      /\ UNCHANGED <<cached, cells, std_impls>>
      /\ iface_impls' = FirstRegistry
      /\ cached => std_impls # None
      /\ phase' = "declare" /\ item' = 1 /\ errors' = {}
  BY <1>0, PastGrows DEF Compile, Start
<1>2. CASE ~cached
  <2>1. StartedEmpty' BY <1>1, <1>2 DEF StartedEmpty, Base, FirstRegistry
  <2> QED BY <2>1, StartedFresh
<1>3. CASE cached
  <2>1. ASSUME NEW c \in 1..cur, NEW j \in DOMAIN past[c].impls, past[c].impls[j].type \in StdNames
        PROVE  past[c].impls[j].iface \notin StdNames \cap IfaceNames
    <3>1. c \in 1..(cur' - 1) /\ past'[c] = past[c] BY <1>1
    <3>2. Undisturbed' BY <1>1, <1>3 DEF Comparable
    <3> QED BY <2>1, <3>1, <3>2 DEF Undisturbed
  <2>2. StdKept BY <2>1 DEF StdKept
  <2>3. StdClean /\ StdAgrees BY <1>1, <1>3, <2>2 DEF StdInv
  <2>4. StdClean' BY <2>3 DEF StdClean
  <2>5. StdAgrees' BY <1>1, <2>3 DEF StdAgrees, StdFound
  <2>6. NoneYet'
    <3>1. \A k \in DOMAIN cells, i \in Interface : cells[k].interfaces[i] # None =>
            cells[k].interfaces[i].module \in 0..cur
      BY DEF OriginInv, ImplsHaveOrigin, HasOrigin
    <3>2. cur' \notin 0..cur BY <1>1
    <3> QED BY <1>1, <3>1, <3>2 DEF NoneYet
  <2>7. cur' # 0 BY <1>1
  <2>8. StartedFromStd'
    BY <1>1, <1>3, <2>3, <2>4, <2>5, <2>6, <2>7 DEF StartedFromStd, FirstRegistry
  <2> QED BY <2>8, StartedFresh
<1> QED BY <1>2, <1>3

LEMMA SameFresh ==
  ASSUME TypeOK, FreshInv, UNCHANGED vars
  PROVE  FreshInv'
<1>1. UNCHANGED <<cached, past, phase, item, cells, iface_impls, errors, todo, filling, left>>
  BY DEF vars, fill
<1>2. SUFFICES ASSUME Comparable' PROVE FreshInv' BY DEF FreshInv
<1>3. Comparable BY <1>1, <1>2, BlocksSame DEF Comparable
<1>4. PICK n : n = Front OBVIOUS
<1>5. Front' = n BY <1>1, <1>4, BlocksSame DEF Front
<1>6. \A t \in Type, i \in Interface : Found(t, i)' = Found(t, i) BY <1>1 DEF Found
<1>7. RegistryAgrees(n)' BY <1>1, <1>3, <1>4, <1>6, SameImpls DEF FreshInv
<1>8. \A j \in Blocks : ImplAt(j)' = ImplAt(j) BY <1>1, <1>6, SameImpls
<1>9. /\ Own(n)' = Own(n) /\ DeclErrors(n)' = DeclErrors(n) /\ AllImpls' = AllImpls
      /\ \A S : FillErrors(S)' = FillErrors(S)
      /\ \A N : Own(N)' = Own(N)
      /\ \A j : TypeAt(j)' = TypeAt(j) /\ IfaceAt(j)' = IfaceAt(j)
      /\ FreshErrors' = FreshErrors
  BY <1>1, BlocksSame
<1>10. \A j : Pending(j)' <=> Pending(j) BY <1>1, <1>9 DEF Pending
<1>11. Filled' = Filled BY <1>9, <1>10 DEF Filled
<1>12. Own(n) \subseteq Blocks BY LatestIs DEF Own
<1> QED BY <1>1, <1>3, <1>4, <1>5, <1>7, <1>8, <1>9, <1>11, <1>12 DEF FreshInv

LEMMA FreshStep ==
  ASSUME IInv, OriginInv, AgesInv, VisibleInv, FillingInv, OwnInv, StdInv, FreshInv,
         TypeOK', VisibleInv', [Next]_vars
  PROVE  FreshInv'
<1>0. TypeOK /\ FillingExisting /\ Ages BY DEF IInv
<1>1. SUFFICES ASSUME Comparable' PROVE FreshInv' BY DEF FreshInv
<1>2. CASE CompileStd BY <1>2, CompileStdFresh
<1>3. ASSUME NEW p \in Programs, Compile(p) PROVE FreshInv'
  BY <1>1, <1>3, CompileFresh
<1>4. CASE Consume \/ Panic
  BY <1>1, <1>4 DEF Consume, Panic, Comparable
<1>5. CASE UNCHANGED vars BY <1>0, <1>5, SameFresh
<1>6. ASSUME UNCHANGED <<cached, past>>, phase # "idle" PROVE Comparable
  BY <1>1, <1>6, BlocksSame DEF Comparable
<1>7. CASE DeclareImpl
  <2>1. Comparable BY <1>6, <1>7 DEF DeclareImpl
  <2> QED BY <1>0, <1>7, <2>1, DeclareFresh
<1>8. CASE DeclareImpls
  <2>1. Comparable BY <1>6, <1>8 DEF DeclareImpls, session
  <2> QED BY <1>0, <1>8, <2>1, DeclareImplsFresh
<1>9. ASSUME NEW k \in DOMAIN cells, FillImpls(k) PROVE FreshInv'
  <2>1. Comparable BY <1>6, <1>9 DEF FillImpls, session
  <2> QED BY <1>0, <1>9, <2>1, FillImplsFresh
<1>10. ASSUME NEW n \in left, FillImpl(n) PROVE FreshInv'
  <2>1. Comparable BY <1>0, <1>6, <1>10 DEF FillImpl, FillingExisting
  <2> QED BY <1>10, <2>1, FillImplFresh
<1>11. CASE FilledImpls
  <2>1. Comparable BY <1>0, <1>6, <1>11 DEF FilledImpls, FillingExisting
  <2> QED BY <1>0, <1>11, <2>1, FilledImplsFresh
<1>12. CASE EndFill
  <2>1. Comparable BY <1>6, <1>12 DEF EndFill
  <2> QED BY <1>12, <2>1, EndFillFresh
<1>13. CASE (\E k \in DOMAIN cells : GenerateImpl(k)) \/ (\E t \in Visible : Lookup(t))
  <2>1. Comparable BY <1>6, <1>13 DEF GenerateImpl, Lookup, session
  <2> QED BY <1>0, <1>13, <2>1, GenerateFresh
<1> QED
  BY <1>2, <1>3, <1>4, <1>5, <1>7, <1>8, <1>9, <1>10, <1>11, <1>12, <1>13 DEF Next

-----------------------------------------------------------------------------
(* The cached std stays as it was, unless a program implements one of its  *)
(* interfaces for one of its types.                                        *)

(* No step takes an impl out of a cell.                                    *)
LEMMA ImplsStay ==
  ASSUME TypeOK, FillingExisting, [Next]_vars,
         NEW k \in 1..Len(cells), NEW i \in Interface, cells[k].interfaces[i] # None
  PROVE  cells'[k].interfaces[i] # None /\ k \in 1..Len(cells')
<1>1. CASE UNCHANGED cells BY <1>1
<1>2. CASE DeclareImpl /\ InsertImpl(CurImpls[item])
  <2>1. PICK ast \in ImplAst : ast = CurImpls[item] BY <1>2, CurImplTyped
  <2>2. InsertImpl(ast) BY <1>2, <2>1
  <2>3. PICK u : u = TypeOf(cur, ast.type) OBVIOUS
  <2>4. PICK j : j = TypeOf(cur, ast.iface) OBVIOUS
  <2>5. u \in Type /\ j \in Interface
    BY <2>2, <2>3, <2>4, CurTyped, TypeOfTyped DEF InsertImpl, ImplAst
  <2>6. NewImpl(ast) \in Impl BY CurTyped DEF NewImpl, Impl, ImplAst
  <2>7. cells' = WithImpl(WithCell(u), CellOf(u), j, NewImpl(ast))
    BY <2>2, <2>3, <2>4 DEF InsertImpl, NewImpl, WithImpl
  <2>8. /\ Len(cells') = Len(WithCell(u))
        /\ \A l \in 1..Len(WithCell(u)) : \A i2 \in Interface : cells'[l].interfaces[i2] =
            IF l = CellOf(u) /\ i2 = j THEN NewImpl(ast) ELSE WithCell(u)[l].interfaces[i2]
    BY <2>5, <2>6, <2>7, WithImplFinds
  <2>9. WithCell(u)[k] = cells[k] /\ k \in 1..Len(WithCell(u))
    BY <2>5, WithCellTyped, LenProperties DEF TypeOK
  <2> QED BY <2>6, <2>8, <2>9, ImplFields
<1>3. ASSUME NEW n \in left, FillImpl(n) PROVE cells'[k].interfaces[i] # None /\ k \in 1..Len(cells')
  <2>1. /\ Len(cells') = Len(cells)
        /\ cells'[filling].interfaces[n] \in Impl
        /\ \A l \in 1..Len(cells), j \in Interface :
             (l = filling /\ j = n) \/ cells'[l].interfaces[j] = cells[l].interfaces[j]
    BY <1>3, FillImplCells
  <2>2. cells'[filling].interfaces[n] # None BY <2>1, ImplFields
  <2> QED BY <2>1, <2>2
<1>4. CASE FilledImpls BY <1>4, FilledImplsCells
<1>5. ASSUME NEW t \in Visible, Lookup(t) PROVE cells'[k].interfaces[i] # None /\ k \in 1..Len(cells')
  <2>1. t \in Type /\ cells' = WithCell(t) BY <1>5, VisibleTyped DEF Lookup
  <2> QED BY <2>1, WithCellTyped, LenProperties DEF TypeOK
<1> QED BY <1>1, <1>2, <1>3, <1>4, <1>5, HeapChanges

LEMMA StdAgreesStep ==
  ASSUME IInv, OriginInv, AgesInv, StdClean, StdAgrees, UNCHANGED <<cached, std_impls>>, std_impls # None,
         TypeOK', StdKept', [Next]_vars
  PROVE  StdAgrees'
<1>0. TypeOK /\ FillingExisting /\ Ages /\ RunsAreMarked /\ cached /\ cur \in Nat
  BY CurTyped DEF IInv, OriginInv, AgesInv
<1>1. ASSUME NEW n \in StdNames, NEW i \in StdNames \cap IfaceNames
      PROVE  /\ StdFound(n, i)' # None <=> StdFound(n, i) # None
             /\ StdFound(n, i) # None => StdFound(n, i)'.module = StdFound(n, i).module
  <2>1. StdType(n) \in Type /\ StdType(i) \in Interface
    BY SessionBound DEF StdType, Type, Interface, Names, Compilations
  <2>2. PICK k : k = std_impls[StdType(n)] OBVIOUS
  <2>3. CASE k = None BY <2>2, <2>3 DEF StdFound
  <2>4. CASE k # None
    <3>1. /\ k \in 1..Len(cells) /\ k \in DOMAIN cells
      BY <1>0, <2>1, <2>2, <2>4, CellsDomain DEF TypeOK, PointsTo
    <3>2. k \in DOMAIN cells' /\ cells'[k].implementor = StdType(n)
      <4>1. std_impls' # None /\ std_impls'[StdType(n)] = k /\ cells' \in Seq(IFaceImpls)
        BY <2>2 DEF TypeOK
      <4>2. DOMAIN cells' = 1..Len(cells') BY <4>1, LenProperties
      <4> QED BY <2>1, <2>4, <4>1, <4>2 DEF TypeOK, PointsTo
    <3>3. StdFound(n, i) = cells[k].interfaces[StdType(i)]
          /\ StdFound(n, i)' = cells'[k].interfaces[StdType(i)]
      BY <2>2, <2>4 DEF StdFound
    <3>4. ~BeingDeclared(k, StdType(i))
      <4>1. SUFFICES ASSUME BeingDeclared(k, StdType(i)) PROVE FALSE OBVIOUS
      <4>2. PICK ast : ast = CurImpls[item] OBVIOUS
      <4>3. /\ UNCHANGED <<cached, past>> /\ phase = "declare"
            /\ item \in Nat /\ item >= 1 /\ item <= Len(CurImpls)
        BY <1>0, <4>1 DEF BeingDeclared, DeclareImpl, TypeOK
      <4>4. ast.type = n /\ ast.iface = i
        BY <3>2, <4>1, <4>2 DEF BeingDeclared, TypeOf, StdType
      <4>5. cur # 0 BY <1>0, <4>3 DEF RunsAreMarked, Ages
      <4>6. CurImpls = past[cur].impls BY <1>0, <4>5 DEF CurImpls
      <4>7. item \in DOMAIN past[cur].impls
        BY <1>0, <4>3, <4>5, <4>6, CurImplsAre, LenProperties
      <4>8. cur \in 1..cur BY <1>0, <4>5
      <4>9. StdKept BY <4>3, BlocksSame
      <4> QED BY <4>2, <4>4, <4>6, <4>7, <4>8, <4>9 DEF StdKept
    <3>5. cells'[k].interfaces[StdType(i)] # None => OldImpl(k, StdType(i))
      BY <1>0, <2>1, <3>2, <3>4, ImplsChange
    <3>6. cells[k].interfaces[StdType(i)] # None => cells'[k].interfaces[StdType(i)] # None
      BY <1>0, <2>1, <3>1, ImplsStay
    <3> QED BY <3>3, <3>5, <3>6 DEF OldImpl
  <2> QED BY <2>3, <2>4
<1>2. ASSUME NEW j \in DOMAIN StdImpls
      PROVE  StdFound(StdImpls[j].type, StdImpls[j].iface)' # None
             /\ StdFound(StdImpls[j].type, StdImpls[j].iface)'.module = 0
  <2>1. PICK n : n = StdImpls[j].type OBVIOUS
  <2>2. PICK i : i = StdImpls[j].iface OBVIOUS
  <2>3. StdFound(n, i) # None /\ StdFound(n, i).module = 0 BY <2>1, <2>2 DEF StdAgrees
  <2>4. n \in StdNames /\ i \in StdNames BY <2>1, <2>2, StdIsClosed
  <2>5. i \in IfaceNames BY <2>2 DEF StdClean
  <2>6. StdFound(n, i)' # None /\ StdFound(n, i)'.module = 0 BY <1>1, <2>3, <2>4, <2>5
  <2> QED BY <2>1, <2>2, <2>6
<1>3. \A n \in StdNames, i \in StdNames \cap IfaceNames : StdFound(n, i)' # None =>
        \E j \in DOMAIN StdImpls : StdImpls[j].type = n /\ StdImpls[j].iface = i
  BY <1>1 DEF StdAgrees
<1> QED BY <1>2, <1>3 DEF StdAgrees

(* What Consume keeps of a compilation of std alone.                       *)
LEMMA StdKeptStart ==
  ASSUME TypeOK, FreshInv, phase = "generate", cur = 0, errors = {}
  PROVE  /\ StdClean
         /\ \A j \in DOMAIN StdImpls : ImplAt(j) # None /\ ImplAt(j).module = 0
               /\ TypeAt(j) = StdType(StdImpls[j].type) /\ IfaceAt(j) = StdType(StdImpls[j].iface)
         /\ \A n \in StdNames, i \in StdNames \cap IfaceNames :
              Found(StdType(n), StdType(i)) # None =>
                \E j \in DOMAIN StdImpls : StdImpls[j].type = n /\ StdImpls[j].iface = i
<1>1. AllImpls = StdImpls BY DEF AllImpls, CurImpls
<1>2. Comparable BY DEF Comparable, Undisturbed
<1>3. PICK N : N = Len(AllImpls) OBVIOUS
<1>4. RegistryAgrees(N) /\ FreshErrors = {} BY <1>2, <1>3 DEF FreshInv, Front
<1>5. N \in Nat /\ N >= Len(AllImpls) BY <1>3, AllImplsAre
<1>6. BlocksTo(N) = Blocks /\ Latest(N) = Effective BY <1>5, EffectiveIs
<1>7. DOMAIN StdImpls = Blocks
  <2>1. Blocks \subseteq DOMAIN AllImpls BY DEF Blocks
  <2>2. ASSUME NEW j \in DOMAIN AllImpls \ Blocks PROVE FALSE
    <3>1. ErrOf("E307", j, None) \in FreshErrors BY <2>2 DEF FreshErrors
    <3> QED BY <1>4, <3>1
  <2> QED BY <1>1, <2>1, <2>2
<1>8. Effective = Blocks
  <2>1. ASSUME NEW j \in Blocks \ Effective PROVE FALSE
    <3>1. ErrOf("E306", j, None) \in FreshErrors BY <2>1 DEF FreshErrors
    <3> QED BY <1>4, <3>1
  <2> QED BY <2>1 DEF Effective
<1>9. ASSUME NEW j \in Blocks PROVE Has(j) = Needs(j)
  <2>1. j \in Effective /\ j \in DOMAIN AllImpls BY <1>8, <1>9 DEF Blocks
  <2>2. Has(j) \subseteq Methods
    <3>1. AllImpls[j] \in ImplAst BY <2>1, BlockTyped
    <3>2. AllImpls[j].methods \in Seq(Methods) BY <3>1 DEF ImplAst
    <3> QED BY <3>2, LenProperties, ElementOfSeq DEF Has
  <2>3. ASSUME NEW m \in Has(j) \ Needs(j) PROVE FALSE
    <3>1. PICK x : x = <<j, m>> OBVIOUS
    <3>2. x \in {y \in Effective \X Methods : y[2] \in Has(y[1]) \ Needs(y[1])}
      BY <2>1, <2>2, <2>3, <3>1
    <3>3. ErrOf("E313", x[1], x[2]) \in FreshErrors BY <3>2 DEF FreshErrors
    <3> QED BY <1>4, <3>3
  <2>4. ASSUME ~(Needs(j) \subseteq Has(j)) PROVE FALSE
    <3>1. ErrOf("E314", j, None) \in FreshErrors BY <2>1, <2>4 DEF FreshErrors
    <3> QED BY <1>4, <3>1
  <2> QED BY <2>3, <2>4
<1>10. ASSUME NEW j \in Blocks, NEW k \in Blocks, SamePair(j, k) PROVE k = j
  <2>1. SamePair(k, j) /\ j \in Effective /\ k \in Effective BY <1>8, <1>10 DEF SamePair
  <2>2. j \in Nat /\ k \in Nat BY BlockTyped DEF Blocks
  <2> QED BY <1>10, <2>1, <2>2 DEF Effective
<1>11. StdClean
  <2>1. ASSUME NEW j \in DOMAIN StdImpls
        PROVE  /\ StdImpls[j].iface \in IfaceNames
               /\ Required[StdImpls[j].iface] =
                    {StdImpls[j].methods[x] : x \in DOMAIN StdImpls[j].methods}
    BY <1>1, <1>7, <1>9, <2>1 DEF Has, Needs, Blocks, Valid
  <2>2. \A j, k \in DOMAIN StdImpls :
          StdImpls[k].type = StdImpls[j].type /\ StdImpls[k].iface = StdImpls[j].iface => k = j
    BY <1>1, <1>7, <1>10 DEF SamePair
  <2> QED BY <2>1, <2>2 DEF StdClean
<1>12. ASSUME NEW j \in DOMAIN StdImpls
       PROVE  /\ ImplAt(j) # None /\ ImplAt(j).module = 0
              /\ TypeAt(j) = StdType(StdImpls[j].type) /\ IfaceAt(j) = StdType(StdImpls[j].iface)
  <2>1. j \in Latest(N) /\ j \in BlocksTo(N) /\ j \in DOMAIN AllImpls BY <1>1, <1>6, <1>7, <1>8
  <2>2. ModuleOf(j) = 0 BY DEF ModuleOf
  <2>3. StdImpls[j].type \in StdNames /\ StdImpls[j].iface \in StdNames BY StdIsClosed
  <2> QED BY <1>1, <1>4, <2>1, <2>2, <2>3, StdTypes DEF RegistryAgrees, TypeAt, IfaceAt
<1>13. ASSUME NEW n \in StdNames, NEW i \in StdNames \cap IfaceNames,
              Found(StdType(n), StdType(i)) # None
       PROVE  \E j \in DOMAIN StdImpls : StdImpls[j].type = n /\ StdImpls[j].iface = i
  <2>1. StdType(n) \in Visible /\ StdType(i) \in Visible BY StdTypes DEF Visible
  <2>2. StdType(i) \in Interface
    BY SessionBound DEF StdType, Interface, Compilations
  <2>3. PICK j \in Latest(N) : TypeAt(j) = StdType(n) /\ IfaceAt(j) = StdType(i)
    BY <1>4, <1>13, <2>1, <2>2 DEF RegistryAgrees
  <2>4. j \in DOMAIN StdImpls BY <1>6, <1>7, <1>8, <2>3
  <2>5. StdImpls[j].type = n /\ StdImpls[j].iface = i
    BY <1>12, <2>3, <2>4 DEF StdType
  <2> QED BY <2>4, <2>5
<1> QED BY <1>11, <1>12, <1>13

LEMMA StdStep ==
  ASSUME IInv, OriginInv, AgesInv, StdInv, FreshInv, TypeOK', [Next]_vars
  PROVE  StdInv'
<1>0. TypeOK /\ cur \in Nat /\ UNCHANGED cached
  BY CurTyped DEF IInv, Next, vars, session, CompileStd, Compile, Start, DeclareImpl, DeclareImpls,
     FillImpls, FillImpl, FilledImpls, EndFill, GenerateImpl, Consume, Panic, Lookup
<1>1. SUFFICES ASSUME std_impls' # None PROVE StdClean' /\ (StdKept' => StdAgrees')
  BY DEF StdInv
<1>2. StdClean' <=> StdClean BY DEF StdClean
<1>3. CASE UNCHANGED std_impls
  <2>1. StdClean /\ (StdKept => StdAgrees) BY <1>1, <1>3 DEF StdInv
  <2>2. StdKept' => StdKept
    <3>1. CASE UNCHANGED past BY <1>0, <3>1, BlocksSame
    <3>2. ASSUME NEW p \in Programs, Compile(p) PROVE StdKept' => StdKept
      <4>1. cur' = cur + 1 /\ \A c \in 1..cur : past'[c] = past[c] /\ c \in 1..cur'
        BY <1>0, <3>2, PastGrows
      <4> QED BY <4>1 DEF StdKept
    <3> QED BY <3>1, <3>2, PastChanges
  <2> QED BY <1>0, <1>1, <1>2, <1>3, <2>1, <2>2, StdAgreesStep
<1>4. CASE Consume /\ cur = 0 /\ errors = {} /\ std_impls' = iface_impls
  <2>1. phase = "generate" /\ UNCHANGED cells BY <1>4 DEF Consume
  <2>2. /\ StdClean
        /\ \A j \in DOMAIN StdImpls : ImplAt(j) # None /\ ImplAt(j).module = 0
              /\ TypeAt(j) = StdType(StdImpls[j].type) /\ IfaceAt(j) = StdType(StdImpls[j].iface)
        /\ \A n \in StdNames, i \in StdNames \cap IfaceNames :
             Found(StdType(n), StdType(i)) # None =>
               \E j \in DOMAIN StdImpls : StdImpls[j].type = n /\ StdImpls[j].iface = i
    BY <1>0, <1>4, <2>1, StdKeptStart
  <2>3. \A n, i : StdFound(n, i)' = Found(StdType(n), StdType(i))
    BY <1>4, <2>1 DEF StdFound, Found
  <2>4. \A j \in DOMAIN StdImpls :
          ImplAt(j) = StdFound(StdImpls[j].type, StdImpls[j].iface)'
    BY <2>2, <2>3 DEF ImplAt
  <2>5. StdAgrees' BY <2>2, <2>3, <2>4 DEF StdAgrees
  <2> QED BY <1>2, <2>2, <2>5
<1>5. UNCHANGED std_impls \/ (Consume /\ cur = 0 /\ errors = {} /\ std_impls' = iface_impls)
  BY DEF Next, vars, session, CompileStd, Compile, Start, DeclareImpl, DeclareImpls,
     FillImpls, FillImpl, FilledImpls, EndFill, GenerateImpl, Consume, Panic, Lookup
<1> QED BY <1>3, <1>4, <1>5

-----------------------------------------------------------------------------
(* The cached std saves work and nothing else.                             *)

LEMMA FreshInvHolds == Spec => [](FreshInv /\ StdInv)
<1>1. Init => FreshInv /\ StdInv
  BY DEF Init, FreshInv, Comparable, StdInv
<1>2. /\ IInv /\ OriginInv /\ AgesInv /\ VisibleInv /\ FillingInv /\ OwnInv /\ IInv' /\ VisibleInv'
      /\ FreshInv /\ StdInv /\ [Next]_vars
      => (FreshInv /\ StdInv)'
  <2> SUFFICES ASSUME IInv, OriginInv, AgesInv, VisibleInv, FillingInv, OwnInv, IInv', VisibleInv',
                      FreshInv, StdInv, [Next]_vars
               PROVE  (FreshInv /\ StdInv)'
    OBVIOUS
  <2>1. TypeOK' BY DEF IInv
  <2>2. FreshInv' BY <2>1, FreshStep
  <2>3. StdInv' BY <2>1, StdStep
  <2> QED BY <2>2, <2>3
<1> QED
  BY <1>1, <1>2, IInvHolds, OriginInvHolds, AgesInvHolds, VisibleInvHolds, FillingInvHolds,
     OwnInvHolds,      PTL DEF Spec

LEMMA FoundIsFresh ==
  ASSUME TypeOK, NEW N, N = Len(AllImpls), RegistryAgrees(N),
         NEW t \in Visible, NEW i \in Visible \cap Interface
  PROVE  FoundModule(t, i) = FreshModule(t, i)
<1>0. t \in Type BY VisibleTyped
<1>1. N \in Nat /\ N >= Len(AllImpls) BY AllImplsAre
<1>2. BlocksTo(N) = Blocks /\ Latest(N) = Effective /\ Effective \subseteq Blocks
  BY <1>1, EffectiveIs DEF Effective
<1>3. PICK js : js = {j \in Effective : TypeAt(j) = t /\ IfaceAt(j) = i} OBVIOUS
<1>4. FreshModule(t, i) = IF js = {} THEN None ELSE ModuleOf(CHOOSE j \in js : TRUE)
  BY <1>3 DEF FreshModule, TypeAt, IfaceAt
<1>5. FoundModule(t, i) = IF Found(t, i) = None THEN None ELSE Found(t, i).module
  BY DEF FoundModule, Found
<1>6. CASE Found(t, i) = None
  <2>1. ASSUME NEW j \in js PROVE FALSE
    <3>1. ImplAt(j) # None BY <1>2, <1>3 DEF RegistryAgrees
    <3>2. ImplAt(j) = Found(t, i) BY <1>3 DEF ImplAt
    <3> QED BY <1>6, <3>1, <3>2
  <2> QED BY <1>4, <1>5, <1>6, <2>1
<1>7. CASE Found(t, i) # None
  <2>1. js # {} BY <1>2, <1>3, <1>7 DEF RegistryAgrees
  <2>2. PICK j : j = CHOOSE x \in js : TRUE OBVIOUS
  <2>3. j \in js BY <2>1, <2>2
  <2>4. ImplAt(j) = Found(t, i) BY <1>3, <2>3 DEF ImplAt
  <2>5. Found(t, i).module = ModuleOf(j) BY <1>2, <1>3, <2>3, <2>4 DEF RegistryAgrees
  <2> QED BY <1>4, <1>5, <1>7, <2>1, <2>2, <2>5
<1> QED BY <1>6, <1>7

(* For any std, programs and number of compilations: unless an earlier     *)
(* program disturbed it, a compilation that uses the cached std reports    *)
(* the same errors and finds the same impls as one that compiles std       *)
(* together with the program (with_cached_std and consume in lib.rs,       *)
(* declare_impl in passes/declare.rs, fill_impls in passes/methods.rs).    *)
THEOREM CachedCompilesLikeFreshHolds == Spec => []CachedCompilesLikeFresh
<1>1. TypeOK /\ FreshInv => CachedCompilesLikeFresh
  <2> SUFFICES ASSUME TypeOK, FreshInv, phase = "generate", cached => Undisturbed
               PROVE  /\ errors = FreshErrors
                      /\ \A t \in Visible, i \in Visible \cap Interface :
                           FoundModule(t, i) = FreshModule(t, i)
    BY DEF CachedCompilesLikeFresh
  <2>1. PICK N : N = Len(AllImpls) OBVIOUS
  <2>2. Comparable /\ Front = N BY <2>1 DEF Comparable, Front
  <2>3. errors = FreshErrors /\ RegistryAgrees(N) BY <2>2 DEF FreshInv
  <2> QED BY <2>1, <2>3, FoundIsFresh
<1> QED BY <1>1, TypeCorrect, FreshInvHolds, PTL

-----------------------------------------------------------------------------
(* The method tables.                                                      *)

Odd(S) == Cardinality(S) % 2 = 1

(* The definitions that are compiled now, and those among them that        *)
(* fill_impls_ has come to.                                                *)
OwnClaims(t, m) == {c \in Claims(t, m) : ModuleOf(c[1]) = cur}
Handled(t, m) == {c \in OwnClaims(t, m) : IfaceAt(c[1]) \notin left}

(* A table has a name if the number of its definitions is odd.             *)
TableAgrees(t, m) ==
  /\ (phase = "fill" /\ iface_impls[t] \notin todo /\ filling # iface_impls[t])
       \/ phase = "generate"
     => (cells[iface_impls[t]].methods[m] # None <=> Odd(OwnClaims(t, m)))
  /\ filling = iface_impls[t] => (methods[m] # None <=> Odd(Handled(t, m)))

Running == phase # "idle" /\ (cached => Unbroken)

MethodsInv ==
  Running =>
    \A t \in Visible, m \in Methods : iface_impls[t] # None => TableAgrees(t, m)

LEMMA ClaimsAre ==
  ASSUME TypeOK, NEW t, NEW m, NEW N, N = Len(AllImpls)
  PROVE  /\ IsFiniteSet(OwnClaims(t, m))
         /\ \A j, x : <<j, x>> \in OwnClaims(t, m) <=>
              /\ j \in Own(N) /\ TypeAt(j) = t /\ m \in Needs(j)
              /\ x \in DOMAIN AllImpls[j].methods /\ AllImpls[j].methods[x] = m
         /\ \A c \in OwnClaims(t, m) : c = <<c[1], c[2]>>
<1>1. N \in Nat /\ N >= Len(AllImpls) /\ DOMAIN AllImpls = 1..N BY AllImplsAre
<1>2. Latest(N) = Effective /\ Effective \subseteq Blocks /\ Blocks \subseteq 1..N
  BY <1>1, EffectiveIs DEF Effective, Blocks
<1>3. ASSUME NEW j \in Effective PROVE ModuleOf(j) = cur <=> j > Base
  <2>1. /\ j \in DOMAIN AllImpls /\ j \in Nat /\ j >= 1 /\ Base \in Nat
        /\ ModuleOf(j) = IF j <= Base THEN 0 ELSE cur
        /\ Base # 0 => cur # 0
    BY <1>1, <1>2, AllImplsAre, BlockTyped DEF Base
  <2> QED BY ONLY <2>1
<1>4. ASSUME NEW j, NEW x
      PROVE  Claim(t, m, j, x) /\ ModuleOf(j) = cur <=>
              /\ j \in Own(N) /\ TypeAt(j) = t /\ m \in Needs(j)
              /\ x \in DOMAIN AllImpls[j].methods /\ AllImpls[j].methods[x] = m
  BY <1>2, <1>3 DEF Claim, Own, TypeAt
<1>5. PICK P : P = [j \in Blocks |-> {j} \X DOMAIN AllImpls[j].methods] OBVIOUS
<1>6. PICK G : G = {{j} \X DOMAIN AllImpls[j].methods : j \in Blocks} OBVIOUS
<1>7. OwnClaims(t, m) = {c \in UNION G : Claim(t, m, c[1], c[2]) /\ ModuleOf(c[1]) = cur}
  BY <1>6 DEF OwnClaims, Claims
<1>8. IsFiniteSet(UNION G)
  <2>1. IsFiniteSet(Blocks)
    <3>1. N \in Int /\ 1 \in Int BY <1>1
    <3>2. IsFiniteSet(1..N) BY <3>1, FS_Interval
    <3> QED BY <1>2, <3>2, FS_Subset
  <2>2. P \in Surjection(Blocks, G) BY <1>5, <1>6 DEF Surjection
  <2>3. IsFiniteSet(G) BY <2>1, <2>2, FS_Surjection
  <2>4. ASSUME NEW j \in Blocks PROVE IsFiniteSet({j} \X DOMAIN AllImpls[j].methods)
    <3>1. AllImpls[j] \in ImplAst BY <1>1, <1>2, BlockTyped
    <3>2. AllImpls[j].methods \in Seq(Methods) BY <3>1 DEF ImplAst
    <3>3. Len(AllImpls[j].methods) \in Nat
          /\ DOMAIN AllImpls[j].methods = 1..Len(AllImpls[j].methods)
      BY <3>2, LenProperties
    <3>4. IsFiniteSet(DOMAIN AllImpls[j].methods)
      <4>1. PICK n \in Nat : n = Len(AllImpls[j].methods) BY <3>3
      <4>2. IsFiniteSet(1..n) BY FS_Interval
      <4> QED BY <3>3, <4>1, <4>2
    <3> QED BY <3>4, FS_Singleton, FS_Product
  <2> QED BY <1>6, <2>3, <2>4, FS_UNION
<1>9. IsFiniteSet(OwnClaims(t, m)) BY <1>7, <1>8, FS_Subset
<1>10. ASSUME NEW c \in UNION G
       PROVE  c = <<c[1], c[2]>> /\ c[1] \in Blocks
  BY <1>6
<1>11. ASSUME NEW j, NEW x
       PROVE  <<j, x>> \in OwnClaims(t, m) <=> Claim(t, m, j, x) /\ ModuleOf(j) = cur
  <2>1. ASSUME Claim(t, m, j, x) PROVE <<j, x>> \in UNION G
    <3>1. j \in Blocks /\ x \in DOMAIN AllImpls[j].methods BY <1>2, <2>1 DEF Claim
    <3> QED BY <1>6, <3>1
  <2>2. <<j, x>>[1] = j /\ <<j, x>>[2] = x OBVIOUS
  <2> QED BY <1>7, <2>1, <2>2
<1> QED BY <1>4, <1>7, <1>9, <1>10, <1>11

(* The definitions of a name in one block.                                 *)
LEMMA BlockClaims ==
  ASSUME NEW w \in Seq(Methods), NEW m, NEW j,
         NEW D, D = {c \in {j} \X DOMAIN w : w[c[2]] = m}
  PROVE  IsFiniteSet(D) /\ Cardinality(D) = Occurrences(w, m)
<1>1. PICK S : S = {x \in DOMAIN w : w[x] = m} OBVIOUS
<1>2. IsFiniteSet(S)
  <2>1. Len(w) \in Nat /\ DOMAIN w = 1..Len(w) BY LenProperties
  <2>2. IsFiniteSet(DOMAIN w) BY <2>1, FS_Interval
  <2> QED BY <1>1, <2>2, FS_Subset
<1>3. ExistsBijection(S, D)
  <2>1. PICK f : f = [x \in S |-> <<j, x>>] OBVIOUS
  <2>2. f \in [S -> D] BY <1>1, <2>1
  <2>3. \A a, b \in S : f[a] = f[b] => a = b BY <2>1
  <2>4. \A c \in D : \E x \in S : f[x] = c
    <3>1. SUFFICES ASSUME NEW c \in D PROVE \E x \in S : f[x] = c OBVIOUS
    <3>2. c[2] \in S /\ c = <<j, c[2]>> BY <1>1
    <3> QED BY <2>1, <3>2
  <2>5. f \in Bijection(S, D) BY <2>2, <2>3, <2>4 DEF Bijection, Injection, Surjection, IsInjective
  <2> QED BY <2>5 DEF ExistsBijection
<1> QED BY <1>1, <1>2, <1>3, FS_Bijection DEF Occurrences

LEMMA OddUnion ==
  ASSUME NEW S, NEW T, IsFiniteSet(S), IsFiniteSet(T), S \cap T = {}
  PROVE  Odd(S \cup T) <=> ~(Odd(S) <=> Cardinality(T) % 2 = 1)
<1>1. Cardinality(S \cup T) = Cardinality(S) + Cardinality(T) - 0
  BY FS_Union, FS_EmptySet
<1>2. PICK a, b \in Nat : a = Cardinality(S) /\ b = Cardinality(T) BY FS_CardinalityType
<1>3. (a + b) % 2 = 1 <=> ~(a % 2 = 1 <=> b % 2 = 1)
  OBVIOUS
<1>4. Cardinality(S \cup T) = a + b BY <1>1, <1>2
<1> QED BY <1>2, <1>3, <1>4 DEF Odd

LEMMA OddEmpty == ~Odd({})
BY FS_EmptySet DEF Odd

LEMMA ClaimsSame ==
  ASSUME UNCHANGED <<cached, past>>
  PROVE  \A t, m : OwnClaims(t, m)' = OwnClaims(t, m)
<1>1. AllImpls' = AllImpls /\ Effective' = Effective /\ Blocks' = Blocks /\ cur' = cur
      /\ \A j : ModuleOf(j)' = ModuleOf(j)
  BY BlocksSame
<1> QED BY <1>1 DEF OwnClaims, Claims, Claim, TypeOf, Needs

(* fill_impls_ goes on with the impl of one more block.                    *)
LEMMA FillToggles ==
  ASSUME IInv, OriginInv, AgesInv, VisibleInv, FillingInv, OwnInv, Running,
         NEW n \in left, FillImpl(n), NEW t \in Type, iface_impls[t] = filling,
         NEW m \in Methods, methods[m] # None <=> Odd(Handled(t, m))
  PROVE  methods'[m] # None <=> Odd(Handled(t, m))'
<1>1. /\ UNCHANGED <<cached, past, phase>>
      /\ filling # None /\ left' = left \ {n}
  BY DEF FillImpl
<1>2. TypeOK /\ FillingExisting /\ phase = "fill" BY <1>1 DEF IInv, FillingExisting
<1>3. PICK N : N = Len(AllImpls) OBVIOUS
<1>4. OwnAgrees(N) BY <1>2, <1>3 DEF OwnInv, Front
<1>5. PICK j \in Own(N) :
           /\ n = IfaceAt(j) /\ n \in Visible
           /\ iface_impls[TypeAt(j)] = filling /\ TypeAt(j) \in Type
           /\ cells[filling].implementor = TypeAt(j)
           /\ cells[filling].interfaces[n] = ImplAt(j)
  BY <1>1, <1>3, FillingBlock DEF Running
<1>6. /\ Own(N) \subseteq Latest(N) /\ j \in Latest(N) /\ j > Base /\ j \in Blocks
      /\ j \in DOMAIN AllImpls
  BY <1>2, LatestIs DEF Own
<1>7. t = TypeAt(j) BY <1>1, <1>2, <1>5, RegistryTyped
<1>8. PICK w : w = AllImpls[j].methods OBVIOUS
<1>9. w \in Seq(Methods) /\ n.name = AllImpls[j].iface
  <2>1. AllImpls[j] \in ImplAst /\ n.name = AllImpls[j].iface BY <1>2, <1>5, <1>6, BlockTyped
  <2> QED BY <1>8, <2>1 DEF ImplAst
<1>10. cells[filling].interfaces[n].wants = w
  BY <1>4, <1>5, <1>8 DEF OwnAgrees
<1>11. Needs(j) = Required[n.name] BY <1>9 DEF Needs
<1>12. PICK o : o = Occurrences(w, m) OBVIOUS
<1>13. PICK D : D = {c \in {j} \X DOMAIN w : w[c[2]] = m} OBVIOUS
<1>14. IsFiniteSet(D) /\ Cardinality(D) = o BY <1>9, <1>12, <1>13, BlockClaims
<1>15. o \in Nat BY <1>14, FS_CardinalityType
<1>16. methods'[m] # None <=>
         IF o > 0 /\ m \in Needs(j) THEN ~(methods[m] # None <=> o % 2 = 1) ELSE methods[m] # None
  <2>1. cells[filling].interfaces[n] \in Impl /\ n \in Interface BY <1>2, FillImplCells
  <2>2. PICK im : im = cells[filling].interfaces[n] OBVIOUS
  <2>3. im.module \in Compilations /\ im.wants = w BY <1>10, <2>1, <2>2, ImplFields
  <2>4. PICK f : f = [module |-> im.module, iface |-> n] OBVIOUS
  <2>5. f # None
    <3>1. f \in Fn BY <2>1, <2>3, <2>4 DEF Fn
    <3> QED BY <3>1, NoneIsNothing
  <2>6. methods'[m] = IF m \notin {x \in Methods : Occurrences(w, x) > 0} \cap Required[n.name]
                      THEN methods[m] ELSE IF Toggled(im, m) THEN f ELSE None
    BY <2>2, <2>3, <2>4 DEF FillImpl
  <2>7. Toggled(im, m) <=> ~(methods[m] # None <=> o % 2 = 1) BY <1>12, <2>3 DEF Toggled
  <2>8. m \notin {x \in Methods : Occurrences(w, x) > 0} \cap Required[n.name]
          <=> ~(o > 0 /\ m \in Needs(j))
    BY <1>11, <1>12
  <2> QED BY ONLY <2>5, <2>6, <2>7, <2>8
<1>17. PICK DD : DD = IF m \in Needs(j) THEN D ELSE {} OBVIOUS
<1>18. PICK H : H = Handled(t, m) OBVIOUS
<1>19. IsFiniteSet(H) /\ IsFiniteSet(DD)
  BY <1>2, <1>3, <1>14, <1>17, <1>18, ClaimsAre, FS_Subset, FS_EmptySet DEF Handled
<1>20. ASSUME NEW c \in OwnClaims(t, m), IfaceAt(c[1]) = n PROVE c[1] = j
  <2>1. c = <<c[1], c[2]>> BY <1>2, <1>3, ClaimsAre
  <2>2. c[1] \in Own(N) /\ TypeAt(c[1]) = t BY <1>2, <1>3, <2>1, ClaimsAre
  <2> QED BY <1>2, <1>5, <1>6, <1>7, <1>20, <2>2, LatestIs
<1>21. ASSUME NEW c PROVE c \in DD <=> c \in OwnClaims(t, m) /\ c[1] = j
  <2>1. ASSUME c \in DD PROVE c \in OwnClaims(t, m) /\ c[1] = j
    <3>1. c \in D /\ m \in Needs(j) BY <1>17, <2>1
    <3>2. c = <<j, c[2]>> /\ c[2] \in DOMAIN w /\ w[c[2]] = m /\ c[1] = j BY <1>13, <3>1
    <3>3. <<j, c[2]>> \in OwnClaims(t, m)
      BY <1>2, <1>3, <1>5, <1>7, <1>8, <3>1, <3>2, ClaimsAre
    <3> QED BY <3>2, <3>3
  <2>2. ASSUME c \in OwnClaims(t, m), c[1] = j PROVE c \in DD
    <3>1. c = <<c[1], c[2]>> BY <1>2, <1>3, <2>2, ClaimsAre
    <3>2. <<j, c[2]>> \in OwnClaims(t, m) BY <2>2, <3>1
    <3>3. m \in Needs(j) /\ c[2] \in DOMAIN w /\ w[c[2]] = m
      BY <1>2, <1>3, <1>8, <3>2, ClaimsAre
    <3>4. c \in D BY <1>13, <2>2, <3>1, <3>3
    <3> QED BY <1>17, <3>3, <3>4
  <2> QED BY <2>1, <2>2
<1>22. Handled(t, m)' = H \cup DD /\ H \cap DD = {}
  <2>1. /\ OwnClaims(t, m)' = OwnClaims(t, m)
        /\ \A x : IfaceAt(x)' = IfaceAt(x)
    BY <1>1, ClaimsSame, BlocksSame
  <2>2. Handled(t, m)' = {c \in OwnClaims(t, m) : IfaceAt(c[1]) \notin left \ {n}}
    BY <1>1, <2>1 DEF Handled
  <2>3. \A c \in OwnClaims(t, m) : IfaceAt(c[1]) = n <=> c \in DD
    BY <1>5, <1>20, <1>21
  <2>4. DD \subseteq OwnClaims(t, m) BY <1>21
  <2>5. H = {c \in OwnClaims(t, m) : IfaceAt(c[1]) \notin left} BY <1>18 DEF Handled
  <2> QED BY <2>2, <2>3, <2>4, <2>5
<1>23. Odd(H \cup DD) <=> ~(Odd(H) <=> Cardinality(DD) % 2 = 1)
  BY <1>19, <1>22, OddUnion
<1>24. methods[m] # None <=> Odd(H) BY <1>18
<1>25. methods'[m] # None <=> Odd(H \cup DD)
  <2>1. CASE m \in Needs(j)
    <3>1. Cardinality(DD) = o BY <1>14, <1>17, <2>1
    <3>2. ~(o > 0) => ~(o % 2 = 1) BY <1>15
    <3> QED BY ONLY <1>16, <1>23, <1>24, <2>1, <3>1, <3>2
  <2>2. CASE m \notin Needs(j)
    <3>1. Cardinality(DD) = 0 /\ ~(0 % 2 = 1) BY <1>17, <2>2, FS_EmptySet
    <3> QED BY ONLY <1>16, <1>23, <1>24, <2>2, <3>1
  <2> QED BY <2>1, <2>2
<1>26. Odd(Handled(t, m))' <=> Odd(H \cup DD) BY <1>22 DEF Odd
<1> QED BY <1>25, <1>26

LEMMA OwnIsFound ==
  ASSUME TypeOK, NEW N, N = Len(AllImpls), OwnAgrees(N), NEW t, NEW m,
         NEW c \in OwnClaims(t, m)
  PROVE  /\ ImplAt(c[1]) # None /\ ImplAt(c[1]).module = cur
         /\ TypeAt(c[1]) = t /\ IfaceAt(c[1]) \in Interface
         /\ iface_impls[t] # None
         /\ ImplAt(c[1]) = cells[iface_impls[t]].interfaces[IfaceAt(c[1])]
<1>1. PICK j : j = c[1] OBVIOUS
<1>2. j \in Own(N) /\ TypeAt(j) = t
  <2>1. c = <<c[1], c[2]>> BY ClaimsAre
  <2> QED BY <1>1, <2>1, ClaimsAre
<1>3. j \in Latest(N) /\ j > Base /\ j \in Blocks /\ j \in BlocksTo(N) /\ j \in DOMAIN AllImpls
  BY <1>2, LatestIs DEF Own
<1>5. ImplAt(j) # None /\ ImplAt(j).module = cur BY <1>2 DEF OwnAgrees
<1>6. IfaceAt(j) \in Interface BY <1>3, BlockTyped
<1> QED BY <1>1, <1>2, <1>5, <1>6 DEF ImplAt, Found

LEMMA MethodsStep ==
  ASSUME IInv, OriginInv, AgesInv, VisibleInv, FillingInv, OwnInv, MethodsInv, [Next]_vars
  PROVE  MethodsInv'
<1>0. TypeOK /\ FillingExisting /\ Ages BY DEF IInv
<1>1. SUFFICES ASSUME Running', NEW t \in Visible', NEW m \in Methods, iface_impls'[t] # None
               PROVE  TableAgrees(t, m)'
  BY DEF MethodsInv
<1>2. CASE CompileStd \/ (\E p \in Programs : Compile(p)) \/ DeclareImpl
  <2>1. phase' = "declare" /\ filling' = filling /\ phase # "fill"
    BY <1>2 DEF CompileStd, Compile, Start, DeclareImpl, fill
  <2>2. filling' = None BY <1>0, <2>1 DEF FillingExisting
  <2> QED BY <1>1, <2>1, <2>2 DEF TableAgrees
<1>3. CASE Consume \/ Panic
  BY <1>1, <1>3 DEF Consume, Panic, Running
<1>4. SUFFICES ASSUME UNCHANGED <<cached, past>>, phase # "idle"
               PROVE  TableAgrees(t, m)'
  <2>1. CASE UNCHANGED <<cached, past>> /\ phase = "idle"
    <3>1. phase' # "idle" BY <1>1 DEF Running
    <3>2. CompileStd \/ \E p \in Programs : Compile(p)
      BY <1>0, <2>1, <3>1 DEF Next, vars, DeclareImpl, DeclareImpls, FillImpls, FillImpl,
         FilledImpls, EndFill, GenerateImpl, Lookup, Consume, Panic, FillingExisting
    <3> QED BY <1>2, <3>2
  <2>2. UNCHANGED <<cached, past>> \/ \E p \in Programs : Compile(p)
    BY DEF Next, vars, session, CompileStd, Start, DeclareImpl, DeclareImpls,
       FillImpls, FillImpl, FilledImpls, EndFill, GenerateImpl, Lookup, Consume, Panic
  <2> QED BY <1>2, <1>4, <2>1, <2>2
<1>5. t \in Visible /\ t \in Type /\ Running
  BY <1>0, <1>1, <1>4, BlocksSame, VisibleTyped DEF Running
<1>6. PICK C : C = OwnClaims(t, m) OBVIOUS
<1>7. OwnClaims(t, m)' = C BY <1>4, <1>6, ClaimsSame
<1>8. PICK N : N = Len(AllImpls) OBVIOUS
<1>9. iface_impls[t] # None =>
      /\ (phase = "fill" /\ iface_impls[t] \notin todo /\ filling # iface_impls[t])
           \/ phase = "generate"
         => (cells[iface_impls[t]].methods[m] # None <=> Odd(C))
      /\ filling = iface_impls[t] => (methods[m] # None <=> Odd(Handled(t, m)))
  BY <1>5, <1>6 DEF MethodsInv, TableAgrees
<1>10. iface_impls[t] # None => iface_impls[t] \in 1..Len(cells)
  BY <1>0, <1>5, RegistryTyped
<1>11. CASE DeclareImpls
  <2>1. /\ UNCHANGED <<filling, iface_impls>> /\ phase' = "fill" /\ todo' = Registered
        /\ phase = "declare"
    BY <1>11 DEF DeclareImpls, session, fill
  <2>2. filling' = None BY <1>0, <2>1 DEF FillingExisting
  <2>3. iface_impls'[t] \in todo' BY <1>1, <1>5, <2>1 DEF Registered
  <2> QED BY <1>1, <2>1, <2>2, <2>3 DEF TableAgrees
<1>12. ASSUME NEW k \in DOMAIN cells, FillImpls(k)
       PROVE  TableAgrees(t, m)'
  <2>1. /\ UNCHANGED <<cells, iface_impls, compiled, phase>> /\ phase = "fill"
        /\ filling = None /\ filling' = k /\ todo' = todo \ {k} /\ k \in todo
        /\ left' = Uncompiled(k) /\ methods' = NoMethods
    BY <1>12 DEF FillImpls, session
  <2>2. OwnAgrees(N) BY <1>8, <2>1 DEF OwnInv, Front
  <2>3. ASSUME iface_impls[t] = k PROVE methods'[m] = None /\ Handled(t, m)' = {}
    <3>1. ASSUME NEW c \in C PROVE IfaceAt(c[1]) \in Uncompiled(k)
      <4>1. /\ IfaceAt(c[1]) \in Interface
            /\ cells[k].interfaces[IfaceAt(c[1])] # None
            /\ cells[k].interfaces[IfaceAt(c[1])].module = cur
        BY <1>0, <1>6, <1>8, <2>2, <2>3, OwnIsFound
      <4>2. cur \notin compiled BY <1>0, <2>1 DEF Ages
      <4> QED BY <4>1, <4>2 DEF Uncompiled
    <3>2. \A x : IfaceAt(x)' = IfaceAt(x) BY <1>4, BlocksSame
    <3>3. Handled(t, m)' = {c \in C : IfaceAt(c[1]) \notin Uncompiled(k)}
      BY <1>7, <2>1, <3>2 DEF Handled
    <3> QED BY <2>1, <3>1, <3>3 DEF NoMethods
  <2>4. filling' = iface_impls'[t] => (methods'[m] # None <=> Odd(Handled(t, m)'))
    BY <2>1, <2>3, OddEmpty
  <2>5. CASE iface_impls[t] \notin todo
    BY <1>1, <1>7, <1>9, <2>1, <2>4, <2>5 DEF TableAgrees
  <2>6. CASE iface_impls[t] \in todo
    BY <2>1, <2>4, <2>6 DEF TableAgrees
  <2> QED BY <2>5, <2>6
<1>13. ASSUME NEW n \in left, FillImpl(n)
       PROVE  TableAgrees(t, m)'
  <2>1. UNCHANGED <<phase, iface_impls, todo, filling>> BY <1>13 DEF FillImpl
  <2>2. cells'[iface_impls[t]].methods = cells[iface_impls[t]].methods
    BY <1>0, <1>1, <1>10, <1>13, <2>1, FillImplCells
  <2>3. filling = iface_impls[t] => (methods'[m] # None <=> Odd(Handled(t, m))')
    BY <1>1, <1>5, <1>9, <1>13, <2>1, FillToggles
  <2>4. Odd(Handled(t, m))' <=> Odd(Handled(t, m)') BY DEF Odd
  <2> QED BY <1>1, <1>7, <1>9, <2>1, <2>2, <2>3, <2>4 DEF TableAgrees
<1>14. CASE FilledImpls
  <2>1. /\ UNCHANGED <<phase, iface_impls, todo>> /\ filling' = None /\ left = {}
        /\ filling # None
    BY <1>14 DEF FilledImpls
  <2>2. phase = "fill" BY <1>0, <2>1 DEF FillingExisting
  <2>3. cells'[iface_impls[t]].methods =
          IF iface_impls[t] = filling THEN methods ELSE cells[iface_impls[t]].methods
    BY <1>0, <1>1, <1>10, <1>14, <2>1, FilledImplsCells
  <2>4. Handled(t, m) = C BY <1>6, <2>1 DEF Handled
  <2> QED BY <1>1, <1>7, <1>9, <2>1, <2>2, <2>3, <2>4 DEF TableAgrees
<1>15. CASE EndFill
  <2>1. /\ UNCHANGED <<cells, iface_impls>> /\ filling' = None /\ filling = None /\ todo = {}
        /\ phase = "fill"
    BY <1>15 DEF EndFill, fill
  <2> QED BY <1>1, <1>7, <1>9, <2>1 DEF TableAgrees
<1>16. CASE \E k \in DOMAIN cells : GenerateImpl(k)
  <2>1. /\ UNCHANGED <<cells, iface_impls, filling, phase>> /\ phase = "generate"
    BY <1>16 DEF GenerateImpl, session, fill
  <2>2. filling' = None BY <1>0, <2>1 DEF FillingExisting
  <2> QED BY <1>1, <1>7, <1>9, <2>1, <2>2 DEF TableAgrees
<1>17. ASSUME NEW u \in Visible, Lookup(u)
       PROVE  TableAgrees(t, m)'
  <2>1. /\ UNCHANGED <<filling, phase>> /\ phase = "generate" /\ u \in Type
        /\ cells' = WithCell(u) /\ iface_impls[u] = None
        /\ iface_impls' = [iface_impls EXCEPT ![u] = CellOf(u)]
    BY <1>0, <1>17, VisibleTyped DEF Lookup, fill
  <2>2. filling' = None BY <1>0, <2>1 DEF FillingExisting
  <2>3. iface_impls'[t] = IF t = u THEN CellOf(u) ELSE iface_impls[t]
    BY <1>0, <1>5, <2>1 DEF TypeOK, Registry
  <2>4. CASE t = u
    <3>1. OwnAgrees(N) BY <1>8, <2>1 DEF OwnInv, Front
    <3>2. C = {} BY <1>0, <1>6, <1>8, <2>1, <2>4, <3>1, OwnIsFound
    <3>3. CellOf(u) = Len(cells) + 1 /\ Len(cells) \in Nat
      BY <1>0, <2>1, LenProperties DEF CellOf, TypeOK
    <3>4. CellOf(u) \in 1..Len(WithCell(u)) /\ CellOf(u) \notin 1..Len(cells)
      BY <1>0, <2>1, <3>3, WithCellTyped
    <3>5. WithCell(u)[CellOf(u)].methods = NoMethods
      BY <1>0, <2>1, <3>4, WithCellTyped
    <3>6. cells'[iface_impls'[t]].methods[m] = None
      BY <2>1, <2>3, <2>4, <3>5 DEF NoMethods
    <3> QED BY <1>1, <1>7, <2>2, <3>2, <3>6, OddEmpty DEF TableAgrees
  <2>5. CASE t # u
    <3>1. iface_impls'[t] = iface_impls[t] /\ iface_impls[t] \in 1..Len(cells)
      BY <1>1, <1>10, <2>3, <2>5
    <3>2. cells'[iface_impls[t]] = cells[iface_impls[t]]
      BY <1>0, <2>1, <3>1, WithCellTyped
    <3> QED BY <1>1, <1>7, <1>9, <2>1, <2>2, <3>1, <3>2 DEF TableAgrees
  <2> QED BY <2>4, <2>5
<1>18. CASE UNCHANGED vars
  <2>1. UNCHANGED <<cells, iface_impls, todo, filling, left, methods, phase>>
    BY <1>18 DEF vars, fill
  <2>2. \A x : IfaceAt(x)' = IfaceAt(x) BY <1>4, BlocksSame
  <2>3. Handled(t, m)' = Handled(t, m) BY <1>6, <1>7, <2>1, <2>2 DEF Handled
  <2> QED BY <1>1, <1>7, <1>9, <2>1, <2>3 DEF TableAgrees
<1> QED
  BY <1>2, <1>3, <1>11, <1>12, <1>13, <1>14, <1>15, <1>16, <1>17, <1>18 DEF Next

(* For any std, programs and number of compilations, whatever earlier      *)
(* programs implemented for std's types: of the names that at most two     *)
(* definitions, all compiled now, give a type, its table has exactly those *)
(* defined once (fill_impls_ in passes/methods.rs).  Excluded are sessions *)
(* with a cached std in which an earlier program panicked that had an impl *)
(* block for a type of std.                                                *)
THEOREM MethodsCompleteHolds == Spec => []MethodsComplete
<1>1. Init => MethodsInv
  BY DEF Init, MethodsInv, Running
<1>2. IInv /\ OriginInv /\ AgesInv /\ VisibleInv /\ FillingInv /\ OwnInv /\ MethodsInv
        /\ [Next]_vars => MethodsInv'
  <2> SUFFICES ASSUME IInv, OriginInv, AgesInv, VisibleInv, FillingInv, OwnInv,
                      MethodsInv, [Next]_vars
               PROVE  MethodsInv'
    OBVIOUS
  <2> QED BY MethodsStep
<1>3. TypeOK /\ MethodsInv => MethodsComplete
  <2> SUFFICES ASSUME TypeOK, MethodsInv, phase = "generate", cached => Unbroken,
                      NEW t \in Visible, NEW m \in Methods, iface_impls[t] # None,
                      CompiledNow(t, m), Cardinality(Claims(t, m)) <= 2
               PROVE  (cells[iface_impls[t]].methods[m] # None)
                         <=> Cardinality(Claims(t, m)) = 1
    BY DEF MethodsComplete
  <2>1. OwnClaims(t, m) = Claims(t, m) BY DEF OwnClaims, CompiledNow
  <2>2. PICK n : n = Cardinality(Claims(t, m)) OBVIOUS
  <2>3. n \in Nat /\ n <= 2
    <3>1. PICK N : N = Len(AllImpls) OBVIOUS
    <3> QED BY <2>1, <2>2, <3>1, ClaimsAre, FS_CardinalityType
  <2>4. cells[iface_impls[t]].methods[m] # None <=> n % 2 = 1
    BY <2>1, <2>2 DEF MethodsInv, TableAgrees, Running, Odd
  <2>5. n % 2 = 1 <=> n = 1
    <3>1. n = 0 \/ n = 1 \/ n = 2 BY <2>3
    <3> QED BY <3>1
  <2> QED BY <2>2, <2>4, <2>5
<1> QED
  BY <1>1, <1>2, <1>3, TypeCorrect, IInvHolds, OriginInvHolds, AgesInvHolds, VisibleInvHolds,
     FillingInvHolds, OwnInvHolds, PTL DEF Spec
=============================================================================
