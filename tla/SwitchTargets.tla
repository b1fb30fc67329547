---------------------------- MODULE SwitchTargets ---------------------------
(***************************************************************************)
(* The way of the values of a SwitchInt from rustc to the compiled switch.  *)
(* rustc gives each branch the bit pattern of its value as a u128; the      *)
(* extractor passes it on as an i64; the C API writes it into the name of   *)
(* the target; the conversion to cf reads it back from the name, at the     *)
(* width of the discriminator.                                              *)
(***************************************************************************)
EXTENDS Integers

CONSTANTS
  WordBits, \* the width of the integers the C API passes, 64 in the code
  Widths,   \* the widths a discriminator can have, up to 128 in Rust
  Modulus,  \* Modulus[w]: 2^w
  Target,   \* the blocks a switch can go to
  Switches  \* the switches under consideration

(* branches maps bit patterns to blocks.                                    *)
IsSwitch(s) ==
  /\ s = [width |-> s.width, branches |-> s.branches, otherwise |-> s.otherwise]
  /\ s.width \in Widths
  /\ DOMAIN s.branches \subseteq 0..(Modulus[s.width] - 1)
  /\ s.branches \in [DOMAIN s.branches -> Target]
  /\ s.otherwise \in Target

ASSUME Words ==
  /\ WordBits \in Nat \ {0}
  /\ Widths \subseteq Nat \ {0}
  /\ Modulus \in [Widths \cup {WordBits, WordBits - 1} -> Nat \ {0}]
  /\ \A v, w \in DOMAIN Modulus : v <= w => Modulus[v] <= Modulus[w]

ASSUME RustcSwitches == \A s \in Switches : IsSwitch(s)

VARIABLES
  switch, \* the SwitchInt of the MIR body
  stage,  \* "rustc", "mir", "cf", "ran" or "rejected"
  cases,  \* the branches as this stage has them
  value,  \* the value of the discriminator when the switch runs
  taken   \* the block the compiled switch goes to

vars == <<switch, stage, cases, value, taken>>

-----------------------------------------------------------------------------
MaxI64 == Modulus[WordBits - 1] - 1
NotANumber == -1

\* Mutants of Extracted: the bound is off by one; the value is truncated.
ExtractedBelowMax(branches) ==
  [v \in {u \in DOMAIN branches : u < MaxI64} |-> branches[v]]
ExtractedTruncated(branches) ==
  [v \in {u % Modulus[WordBits - 1] : u \in DOMAIN branches} |->
     branches[CHOOSE u \in DOMAIN branches : u % Modulus[WordBits - 1] = v]]

(* MirTerminator::from_public: i64::try_from(value).ok() in a filter_map.   *)
Extracted(branches) ==
  [v \in {u \in DOMAIN branches : u <= MaxI64} |-> branches[v]]

(* parseSwitchCaseName: the digits of the name as a 64-bit number, at the   *)
(* width of the discriminator.                                              *)
ParseCase(v, width) ==
  IF v < Modulus[WordBits] THEN v % Modulus[width] ELSE NotANumber

Init ==
  /\ switch \in Switches
  /\ stage = "rustc"
  /\ cases = switch.branches
  /\ value = 0
  /\ taken = switch.otherwise

(* The extractor and rustMirSwitchTargetsAttrGet; lifting copies the names. *)
Extract ==
  /\ stage = "rustc"
  /\ stage' = "mir"
  /\ cases' = Extracted(cases)
  /\ UNCHANGED <<switch, value, taken>>

(* lowerTypedTerminator.                                                    *)
LowerSwitch ==
  /\ stage = "mir"
  /\ IF \E v \in DOMAIN cases : ParseCase(v, switch.width) = NotANumber
       THEN stage' = "rejected" /\ UNCHANGED cases
       ELSE /\ stage' = "cf"
            /\ cases' = [u \in {ParseCase(v, switch.width) : v \in DOMAIN cases} |->
                 cases[CHOOSE v \in DOMAIN cases : ParseCase(v, switch.width) = u]]
  /\ UNCHANGED <<switch, value, taken>>

(* cf.switch.                                                               *)
Run(v) ==
  /\ stage = "cf"
  /\ stage' = "ran"
  /\ value' = v
  /\ taken' = IF v \in DOMAIN cases THEN cases[v] ELSE switch.otherwise
  /\ UNCHANGED <<switch, cases>>

Next ==
  \/ Extract
  \/ LowerSwitch
  \/ \E v \in 0..(Modulus[switch.width] - 1) : Run(v)

Spec == Init /\ [][Next]_vars

-----------------------------------------------------------------------------
(* The block a switch of the MIR body goes to.                              *)
MirTarget(s, v) ==
  IF v \in DOMAIN s.branches THEN s.branches[v] ELSE s.otherwise

(* A switch on an integer of fewer bits than the C API passes goes where    *)
(* the MIR says, for every value and every set of branches.                 *)
NarrowSwitchAgrees ==
  stage = "ran" /\ switch.width < WordBits => taken = MirTarget(switch, value)

(* However wide the discriminator, the compiled switch never takes a branch *)
(* that belongs to another value, and it is never rejected.                 *)
NoForeignBranch ==
  /\ stage # "rejected"
  /\ stage = "ran" => taken \in {MirTarget(switch, value), switch.otherwise}

(* test/Conversion/rust-typed-to-cf-rs-match.mlir:5-9 of a match on an i32, *)
(* for a match on any integer: each value has its own destination.  Fails   *)
(* for i64, u64, isize, usize and 128-bit values above i64::MAX, the        *)
(* negative ones included: from_public leaves their branches out.           *)
SwitchAgrees == stage = "ran" => taken = MirTarget(switch, value)

=============================================================================
