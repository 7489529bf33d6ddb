----------------------------- MODULE MCWorklist -----------------------------
(* A small standard library and the user programs that use it in different *)
(* ways: f and g are generic, main and g have bodies that vary.            *)
EXTENDS Worklist

I64  == Base("int")
TP   == Var(1)
A   == Adt("A", <<>>)
List == Adt("List", <<>>)
Box(t) == Adt("Box", <<t>>)

(* class Box[T] { val v: T }   class A {}   class List { val next: List }  *)
MCLayout == [Box |-> <<TP>>, A |-> <<I64>>, List |-> <<List>>]

MCTypes == {NoneType, I64, TP, RawPtr(TP), A, List, Box(I64), Box(TP), Box(A),
            Adt("Box", <<>>)}
MCSignature == [
    main |-> <<>>, malloc |-> <<I64>>, sizeof |-> <<I64>>, free_type |-> <<TP>>,
    allocate |-> <<RawPtr(TP)>>, drop |-> <<TP>>, box |-> <<Box(TP)>>,
    free_box |-> <<Adt("Box", <<>>)>>, free_a |-> <<A>>, free_list |-> <<List>>,
    f |-> <<>>, g |-> <<TP>>, int_show |-> <<I64>>]
MCFunctions == DOMAIN MCSignature
MCGeneric == {"sizeof", "free_type", "allocate", "drop", "box", "free_box",
              "f", "g", "Box"}
MCFreeInstance == [Box |-> "free_box", A |-> "free_a", List |-> "free_list"]
MCRequired == <<"malloc", "main">>
MCImpls == (I64 :> "int_show")

Call(f, t) == Callee(f, <<t>>)
Fixed == [
    main |-> <<>>, malloc |-> <<>>, sizeof |-> <<>>, free_type |-> <<>>,
    allocate |-> <<Call("sizeof", TP), Callee("malloc", <<>>)>>,
    drop |-> <<Call("free_type", TP)>>,
    box |-> <<TypeOf(Box(TP)), Call("allocate", TP)>>,
    free_box |-> <<TypeOf(TP)>>, free_a |-> <<>>, free_list |-> <<>>,
    f |-> <<>>, g |-> <<>>, int_show |-> <<Callee("main", <<>>)>>]

MainBodies == {
    <<>>, <<TypeOf(List)>>, <<TypeOf(Box(I64)), Callee("free_box", <<>>)>>,
    <<Call("g", I64), Call("f", A)>>, <<Call("g", A), Call("g", I64)>>,
    <<Call("f", Box(I64)), Call("box", I64)>>, <<Call("drop", A)>>,
    <<Callee("free_a", <<>>), Call("drop", A), Call("f", I64)>>,
    <<TypeOf(Box(I64)), Call("free_box", I64)>>, <<Call("drop", I64), Call("g", Box(A))>>}
GBodies == {<<>>, <<Call("f", TP)>>, <<Call("f", Box(TP)), Call("f", TP)>>,
            <<Call("f", RawPtr(TP))>>, <<TypeOf(Box(TP)), Call("free_box", TP)>>, <<Call("g", TP), Call("drop", TP)>>,
            <<Call("box", Box(I64)), Call("g", I64)>>}
FBodies == {<<>>, <<Call("allocate", TP)>>, <<BoundMethod(1)>>,
            <<TypeOf(Box(TP))>>, <<Call("g", TP)>>}

MCPrograms ==
    {[Fixed EXCEPT !.main = m, !.g = g, !.f = f] :
        m \in MainBodies, g \in GBodies, f \in FBodies}
=============================================================================
