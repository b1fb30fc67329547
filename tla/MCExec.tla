------------------------------- MODULE MCExec -------------------------------
(* Lifting and execution, on the types and bodies of MCBodies: the glue     *)
(* knows what Rust goes by, which is the hypothesis of the theorems of      *)
(* TypedExec_proofs.                                                        *)
EXTENDS TypedExec, MCBodies

ASSUME GlueKnowsBodies == DropsKnown
=============================================================================
