------------------------------ MODULE MirMemory ------------------------------
(* The statements of a MIR function, one after the other, on its locals: what  *)
(* the slots, addresses and loads and stores of the compiler must add up to.   *)
EXTENDS MirPlaces

CONSTANTS Types,      \* the type of each local
          Arguments   \* the values of those that are arguments

VARIABLES program, pc, store

vars == <<program, pc, store>>

Entry == [l \in DOMAIN Types |->
             IF l \in DOMAIN Arguments THEN Arguments[l] ELSE Blank(Types[l])]

Init == pc = 1 /\ store = Entry

Step ==
    /\ pc <= Len(program)
    /\ Defined(store, program[pc])
    /\ store' = Execute(store, program[pc])
    /\ pc' = pc + 1
    /\ UNCHANGED program

Spec == Init /\ [][Step]_vars
=============================================================================
