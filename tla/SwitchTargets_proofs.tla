------------------------ MODULE SwitchTargets_proofs ------------------------
(***************************************************************************)
(* The values of a switch on an integer narrower than the words the C API   *)
(* passes survive their way from rustc to the compiled switch, whatever the *)
(* widths, the branches and the value; those of a wider one either survive  *)
(* or are left out.                                                         *)
(***************************************************************************)
EXTENDS SwitchTargets, TLAPS

(* What every stage knows of the branches: the extractor leaves out those   *)
(* above i64::MAX, and nothing after it changes any.                        *)
ExtractionInv ==
  /\ switch \in Switches
  /\ stage \in {"rustc", "mir", "cf", "ran"}
  /\ stage = "rustc" => cases = switch.branches
  /\ stage # "rustc" => cases = Extracted(switch.branches)
  /\ stage = "ran" =>
       /\ value \in 0..(Modulus[switch.width] - 1)
       /\ taken = IF value \in DOMAIN cases THEN cases[value] ELSE switch.otherwise

(* A number below its modulus is its own remainder.                         *)
LEMMA SmallRemainder ==
  ASSUME NEW a \in Nat, NEW m \in Nat \ {0}, a < m
  PROVE  a % m = a
  OBVIOUS

(* The branches of a switch and what the extractor keeps of them.           *)
LEMMA ExtractedFacts ==
  ASSUME NEW s \in Switches
  PROVE  /\ s.width \in Widths
         /\ Modulus[s.width] \in Nat \ {0}
         /\ DOMAIN Extracted(s.branches) \subseteq DOMAIN s.branches
         /\ \A v \in DOMAIN s.branches : v \in Nat /\ v < Modulus[s.width]
         /\ \A v \in DOMAIN Extracted(s.branches) :
              v \in Nat /\ v < Modulus[s.width] /\ v < Modulus[WordBits - 1]
<1>1. s.width \in Widths /\ DOMAIN s.branches \subseteq 0..(Modulus[s.width] - 1)
  BY RustcSwitches DEF IsSwitch
<1>2. Modulus[s.width] \in Nat \ {0} /\ Modulus[WordBits - 1] \in Nat \ {0}
  BY <1>1, Words
<1>3. \A v \in DOMAIN s.branches : v \in Nat /\ v < Modulus[s.width]
  BY <1>1, <1>2
<1>4. DOMAIN Extracted(s.branches) = {u \in DOMAIN s.branches : u <= MaxI64}
  BY DEF Extracted
<1> QED BY <1>1, <1>2, <1>3, <1>4 DEF MaxI64

(* Reading a case back from its name gives the value that was written, if   *)
(* the extractor passed it on.                                              *)
LEMMA ParseIsIdentity ==
  ASSUME NEW s \in Switches, NEW v \in DOMAIN Extracted(s.branches)
  PROVE  ParseCase(v, s.width) = v
<1>1. v \in Nat /\ v < Modulus[s.width] /\ v < Modulus[WordBits - 1]
  BY ExtractedFacts
<1>2. Modulus[s.width] \in Nat \ {0}
  BY ExtractedFacts
<1>3. Modulus[WordBits - 1] <= Modulus[WordBits] /\ Modulus[WordBits] \in Nat
      /\ Modulus[WordBits - 1] \in Nat
  BY Words
<1>4. v < Modulus[WordBits]
  BY <1>1, <1>3
<1>5. v % Modulus[s.width] = v
  BY <1>1, <1>2, SmallRemainder
<1> QED BY <1>4, <1>5 DEF ParseCase

(* LowerSwitch leaves the cases as they are.                                *)
LEMMA LowerSwitchStep == ExtractionInv /\ LowerSwitch => ExtractionInv'
<1> SUFFICES ASSUME ExtractionInv, LowerSwitch
             PROVE  ExtractionInv'
  OBVIOUS
<1>1. stage = "mir" /\ switch \in Switches /\ cases = Extracted(switch.branches)
  BY DEF ExtractionInv, LowerSwitch
<1>2. \A v \in DOMAIN cases : ParseCase(v, switch.width) = v
  BY <1>1, ParseIsIdentity
<1>3. \A v \in DOMAIN cases : v \in Nat
  BY <1>1, ExtractedFacts
<1>4. ~\E v \in DOMAIN cases : ParseCase(v, switch.width) = NotANumber
  BY <1>2, <1>3 DEF NotANumber
<1>5. /\ stage' = "cf"
      /\ cases' = [u \in {ParseCase(v, switch.width) : v \in DOMAIN cases} |->
                 cases[CHOOSE v \in DOMAIN cases : ParseCase(v, switch.width) = u]]
      /\ UNCHANGED <<switch, value, taken>>
  BY <1>4 DEF LowerSwitch
<1>6. {ParseCase(v, switch.width) : v \in DOMAIN cases} = DOMAIN cases
  BY <1>2
<1>7. \A u \in DOMAIN cases :
        (CHOOSE v \in DOMAIN cases : ParseCase(v, switch.width) = u) = u
  BY <1>2
<1>8. cases = [u \in DOMAIN cases |-> cases[u]]
  BY <1>1 DEF Extracted
<1>9. cases' = cases
  BY <1>5, <1>6, <1>7, <1>8
<1> QED BY <1>1, <1>5, <1>9 DEF ExtractionInv

(* Every state of a switch on its way satisfies ExtractionInv.              *)
THEOREM ExtractionInvariant == Spec => []ExtractionInv
<1>1. Init => ExtractionInv
  BY DEF Init, ExtractionInv
<1>2. ExtractionInv /\ [Next]_vars => ExtractionInv'
  <2> SUFFICES ASSUME ExtractionInv, [Next]_vars
               PROVE  ExtractionInv'
    OBVIOUS
  <2>1. CASE Extract
    BY <2>1 DEF Extract, ExtractionInv
  <2>2. CASE LowerSwitch
    BY <2>2, LowerSwitchStep
  <2>3. ASSUME NEW v \in 0..(Modulus[switch.width] - 1), Run(v)
        PROVE  ExtractionInv'
    BY <2>3 DEF Run, ExtractionInv
  <2>4. CASE UNCHANGED vars
    BY <2>4 DEF vars, ExtractionInv
  <2> QED BY <2>1, <2>2, <2>3, <2>4 DEF Next
<1> QED BY <1>1, <1>2, PTL DEF Spec

(* A compiled switch on fewer bits than the C API passes goes where the MIR *)
(* body says (from_public, parseSwitchCaseName).                            *)
THEOREM NarrowSwitches == Spec => []NarrowSwitchAgrees
<1>1. ExtractionInv => NarrowSwitchAgrees
  <2> SUFFICES ASSUME ExtractionInv, stage = "ran", switch.width < WordBits
               PROVE  taken = MirTarget(switch, value)
    BY DEF NarrowSwitchAgrees
  <2>1. switch \in Switches /\ cases = Extracted(switch.branches)
    BY DEF ExtractionInv
  <2>2. taken = IF value \in DOMAIN cases THEN cases[value] ELSE switch.otherwise
    BY DEF ExtractionInv
  <2>3. switch.width \in Nat /\ WordBits \in Nat
    <3>1. switch.width \in Widths
      BY <2>1, ExtractedFacts
    <3> QED BY <3>1, Words
  <2>4. switch.width <= WordBits - 1
    BY <2>3
  <2>5. Modulus[switch.width] <= Modulus[WordBits - 1]
    BY <2>1, <2>3, <2>4, ExtractedFacts, Words
  <2>6. Modulus[WordBits - 1] \in Nat /\ Modulus[switch.width] \in Nat
    BY <2>1, ExtractedFacts, Words
  <2>7. \A v \in DOMAIN switch.branches : v <= MaxI64
    BY <2>1, <2>5, <2>6, ExtractedFacts DEF MaxI64
  <2>8. DOMAIN cases = DOMAIN switch.branches
    BY <2>1, <2>7 DEF Extracted
  <2>9. \A v \in DOMAIN cases : cases[v] = switch.branches[v]
    BY <2>1 DEF Extracted
  <2> QED BY <2>2, <2>8, <2>9 DEF MirTarget
<1> QED BY <1>1, ExtractionInvariant, PTL

(* Whatever its width, a compiled switch takes no branch of another value   *)
(* than the one it was given (from_public drops branches, it changes none). *)
THEOREM NoForeignBranches == Spec => []NoForeignBranch
<1>1. ExtractionInv => NoForeignBranch
  <2> SUFFICES ASSUME ExtractionInv
               PROVE  NoForeignBranch
    OBVIOUS
  <2>1. stage # "rejected"
    BY DEF ExtractionInv
  <2>2. CASE stage = "ran"
    <3>1. cases = Extracted(switch.branches)
      BY <2>2 DEF ExtractionInv
    <3>2. \A v \in DOMAIN cases : v \in DOMAIN switch.branches
                                  /\ cases[v] = switch.branches[v]
      BY <3>1 DEF Extracted
    <3>3. taken = IF value \in DOMAIN cases THEN cases[value] ELSE switch.otherwise
      BY <2>2 DEF ExtractionInv
    <3> QED BY <2>1, <3>2, <3>3 DEF NoForeignBranch, MirTarget
  <2> QED BY <2>1, <2>2 DEF NoForeignBranch
<1> QED BY <1>1, ExtractionInvariant, PTL

=============================================================================
