--------------------------- MODULE MCConstructors ---------------------------
(* Classes with a val field "a" and a var field "b".                       *)
EXTENDS Constructors

A0 == Assign("this", "a", NoField)
B0 == Assign("this", "b", NoField)
Simple == {A0, B0, Assign("this", "b", "a"), Assign("this", "a", "a"),
           Assign("nested", "b", NoField), Assign("other", "a", "b"),
           Read("this", "a"), Read("other", "b"), Mark("method"), Mark("return")}
Few == {A0, B0, Read("this", "a"), Mark("return")}
Straight == UNION {[1..n -> Simple] : n \in 0..3}
Branched == {<<s, Mark("if"), t, Mark("else"), u, Mark("end"), v>> :
                 s \in Few, t \in Few, u \in Few, v \in Simple}
Looped == {<<s, Mark("for"), t, u, Mark("again"), v>> :
                 s \in Few, t \in Few, u \in Simple, v \in Few}
Nested == {<<Mark("for"), Mark("if"), s, Mark("else"), Mark("end"), t,
             Mark("again"), u>> : s \in Few, t \in Few, u \in Simple}

Construct(setters, body) == [setters |-> setters, body |-> body]
Class(initialized, cons) ==
    [fields |-> {"a", "b"}, mutable |-> {"b"}, initialized |-> initialized,
     constructors |-> cons,
     method |-> <<Read("this", "a"), Mark("method"), B0>>]

BranchClasses == {Class({}, <<Construct(<<>>, body)>>) : body \in Branched}
MCClasses ==
    {Class(i, <<Construct(<<>>, body)>>) : i \in SUBSET {"a", "b"},
        body \in Straight \cup Branched \cup Looped \cup Nested}
    \cup {Class({}, <<Construct(<<"a">>, b1), Construct(<<"b">>, b2)>>) :
              b1 \in {<<>>, <<B0>>, <<A0, B0>>, <<Read("this", "a"), B0>>},
              b2 \in Straight}
    \cup {Class({"a"}, <<Construct(<<"a">>, b)>>) : b \in Straight}
=============================================================================
