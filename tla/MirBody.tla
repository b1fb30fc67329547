------------------------------- MODULE MirBody ------------------------------
(***************************************************************************)
(* A function in the rust.mir dialect, as far as control flow and drops go: *)
(* a sequence of blocks, each with an index, the fact whether its           *)
(* statements can be lifted, and a terminator.  Several operations of the   *)
(* dialect share one terminator here:                                       *)
(*   "goto"         goto, inline_asm, core::panicking::...::from_str calls  *)
(*   "unreachable"  unreachable, resume, abort                              *)
(*   "unliftable"   unsupported_terminator, a missing terminator, or one    *)
(*                  whose operands cannot be materialized                   *)
(* A call has a target unless its destination has the never type.           *)
(***************************************************************************)
EXTENDS MirTypes

CONSTANT Funcs   \* the function bodies under consideration

PlainTerminator ==
  [op : {"goto", "return", "unreachable", "switch_int", "assert", "call",
         "unliftable"},
   targets : SUBSET Nat]
DropTerminator == [op : {"drop"}, targets : SUBSET Nat,
                   place : Place, bridge : BOOLEAN]

MirBlock == [index : Nat, liftable : BOOLEAN,
             term : PlainTerminator \cup DropTerminator]

MirIndices(f) == {f[i].index : i \in DOMAIN f}

(* What rustc guarantees of a MIR body: block indices are distinct, every   *)
(* target is a block, and a terminator has the targets its kind calls for.  *)
ASSUME Bodies ==
  /\ Funcs \subseteq Seq(MirBlock) \ {<< >>}
  /\ \A f \in Funcs :
       /\ \A i, j \in DOMAIN f : f[i].index = f[j].index => i = j
       /\ \A i \in DOMAIN f : f[i].term.targets \subseteq MirIndices(f)

(* The only target of a goto, an assert, a drop or a returning call.        *)
TargetOf(term) == CHOOSE b \in term.targets : TRUE

ASSUME SingleTargets ==
  \A f \in Funcs : \A i \in DOMAIN f :
    LET term == f[i].term IN
    /\ term.op \in {"goto", "assert", "drop"} => \E b \in MirIndices(f) : term.targets = {b}
    /\ term.op = "call" => term.targets = {} \/ \E b \in MirIndices(f) : term.targets = {b}
    /\ term.op \in {"return", "unreachable"} => term.targets = {}
    /\ term.op = "switch_int" => term.targets # {}

BlockAt(f, b) == f[CHOOSE i \in DOMAIN f : f[i].index = b]

=============================================================================
