-------------------------- MODULE Monomorphisation --------------------------
(***************************************************************************)
(* What the IR generator promises: starting from the required functions,   *)
(* every function instance that generated code refers to is generated, and *)
(* each once; nothing else is; and it ends, with a module in which every   *)
(* instance that is referred to has its code.  A program may be refused.   *)
(***************************************************************************)
EXTENDS Instances

VARIABLES program, generated, status

absVars == <<program, generated, status>>

Wanted == RequiredInstances
          \cup UNION {References(program, i) : i \in generated}

AbsInit ==
    /\ program \in Programs
    /\ generated = {}
    /\ status = "running"

Generate ==
    /\ status = "running"
    /\ \E i \in Wanted \ generated : generated' = generated \cup {i}
    /\ UNCHANGED <<program, status>>

Complete ==
    /\ status = "running" /\ Wanted \subseteq generated
    /\ status' = "done"
    /\ UNCHANGED <<program, generated>>

Refuse ==
    /\ status = "running"
    /\ status' = "crashed"
    /\ UNCHANGED <<program, generated>>

(* Another program is compiled with the same standard library.             *)
Again ==
    /\ status # "running"
    /\ program' \in Programs
    /\ generated' = {} /\ status' = "running"

AbsNext == Generate \/ Complete \/ Refuse \/ Again

AbsSpec == AbsInit /\ [][AbsNext]_absVars
                   /\ WF_absVars(Generate \/ Complete \/ Refuse)
=============================================================================
