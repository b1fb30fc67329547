------------------------------- MODULE MCLift -------------------------------
(* The lifting pass alone, on the types and bodies of MCBodies.             *)
EXTENDS LiftTypedMIR, MCBodies
=============================================================================
