----------------------------- MODULE MCExecOwed -----------------------------
(* Lifting and execution of a drop whose glue goes by something else than   *)
(* Rust does: DropsKnown is false of these constants.                       *)
EXTENDS TypedExec, MCBodies
=============================================================================
