----------------------------- MODULE RustArith -----------------------------
(* The promise made to a MIR operation: it is evaluated at most once, and what *)
(* it yields is what MIR says it means.  An operation the compiler cannot      *)
(* lower is never evaluated.                                                   *)
CONSTANTS
    Operation(_),   \* whether it is an operation, with its operands
    Meaning(_),     \* what MIR says an operation yields
    Pending         \* the outcome of an operation that was not evaluated

VARIABLES op, outcome

vars == <<op, outcome>>

Init == Operation(op) /\ outcome = Pending

Evaluate ==
    /\ outcome = Pending /\ outcome' # Pending
    /\ outcome' = Meaning(op)
    /\ UNCHANGED op

Spec == Init /\ [][Evaluate]_vars
=============================================================================
