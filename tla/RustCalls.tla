----------------------------- MODULE RustCalls -----------------------------
(* When the functions of a program fit together: the promise made to a caller, *)
(* whichever of two functions the compiler comes to first.                     *)
EXTENDS Integers, Sequences

CONSTANT Represented       \* the type a Rust type is represented by

VARIABLES program, verdict

vars == <<program, verdict>>

(* A program has functions [name, locals, ret, returns, uses] and other symbols.*)
(* Local _i is argument i; returns says whether the body has a return;         *)
(* a use is a call of a symbol, or the taking of its address, with the types   *)
(* [ins, dest] the caller expects.                                             *)
Range(s)  == {s[i] : i \in DOMAIN s}
Funcs     == Range(program.funcs)
Uses      == UNION {Range(f.uses) : f \in Funcs}
Args(f)   == {l \in Range(f.locals) : l.role = "arg"}
Seen(ts)  == [i \in DOMAIN ts |-> Represented[ts[i]]]

(* What a function yields: nothing for () and !, nor when it has no return.    *)
Results(t) == IF t \in {"unit", "never"} THEN <<>> ELSE <<Represented[t]>>

Signature(f) ==
    [ins  |-> [i \in {l.index : l \in Args(f)} |->
                  Represented[(CHOOSE l \in Args(f) : l.index = i).type]],
     outs |-> IF f.returns THEN Results(f.ret) ELSE <<>>]
Expected(u) == [ins |-> Seen(u.ins), outs |-> Results(u.dest)]

(* Every use of a function of the program agrees with its signature; uses of   *)
(* one from elsewhere agree with each other, and one of them is a call, which  *)
(* declares it; no other symbol is used as a function.                         *)
Agree ==
    /\ \A u \in Uses : u.callee \notin program.others
    /\ \A u \in Uses, f \in Funcs : u.callee = f.name => Expected(u) = Signature(f)
    /\ \A u \in Uses : u.callee \notin {f.name : f \in Funcs} =>
         /\ \A v \in Uses : v.callee = u.callee => Expected(v) = Expected(u)
         /\ \E v \in Uses : v.callee = u.callee /\ v.kind = "call"

Init == verdict = "pending"

Decide ==
    /\ verdict = "pending"
    /\ verdict' = IF Agree THEN "linked" ELSE "refused"
    /\ UNCHANGED program

Spec == Init /\ [][Decide]_vars /\ WF_vars(Decide)
=============================================================================
