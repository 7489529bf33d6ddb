----------------------------- MODULE MCCodegen -----------------------------
(* Function bodies of up to MaxSize expressions with operands and cases.   *)
EXTENDS Codegen
=============================================================================
