-------------------------- MODULE TypedToCf_proofs --------------------------
(***************************************************************************)
(* Theorems about convert-rust-typed-to-cf for every function: the worklist *)
(* computes the least set of blocks that holds the first one and is closed  *)
(* under successors, a block without a terminator falls through to the      *)
(* block written after it, no branch of the result leaves the function, and *)
(* the result, called, does what the typed blocks say, step by step.        *)
(***************************************************************************)
EXTENDS TypedToCf, TLAPS

-----------------------------------------------------------------------------
(* What the assumptions say of a function.                                  *)
LEMMA ProgramFacts ==
  ASSUME NEW f \in Programs
  PROVE  /\ Len(f) \in Nat \ {0}
         /\ DOMAIN f = 1..Len(f)
         /\ 1 \in DOMAIN f
         /\ f[1].index \in Indices(f)
         /\ \A i \in DOMAIN f : f[i].index \in Indices(f)
<1>1. Len(f) \in Nat \ {0} /\ DOMAIN f = 1..Len(f)
  BY Functions
<1>2. 1 \in DOMAIN f
  BY <1>1
<1> QED BY <1>1, <1>2 DEF Indices

(* The successors of a block are blocks.                                    *)
LEMMA SuccessorsKnown ==
  ASSUME NEW f, NEW i
  PROVE  Successors(f, i) \subseteq Indices(f)
  BY DEF Successors

(* CanRun is itself closed, and it is below every closed set.               *)
LEMMA CanRunLeast ==
  ASSUME NEW f \in Programs
  PROVE  /\ CanRun(f) \subseteq Indices(f)
         /\ ClosedFromFirst(f, CanRun(f))
         /\ \A S \in SUBSET Indices(f) :
              ClosedFromFirst(f, S) => CanRun(f) \subseteq S
<1>1. CanRun(f) \subseteq Indices(f)
  BY DEF CanRun
<1>2. ASSUME NEW S \in SUBSET Indices(f), ClosedFromFirst(f, S)
      PROVE  CanRun(f) \subseteq S
  BY <1>2 DEF CanRun
<1>3. f[1].index \in CanRun(f)
  BY ProgramFacts DEF CanRun, ClosedFromFirst
<1>4. ASSUME NEW i \in DOMAIN f, f[i].index \in CanRun(f),
             NEW b \in Successors(f, i)
      PROVE  b \in CanRun(f)
  <2>1. b \in Indices(f)
    BY SuccessorsKnown
  <2>2. ASSUME NEW S \in SUBSET Indices(f), ClosedFromFirst(f, S)
        PROVE  b \in S
    <3>1. f[i].index \in S
      BY <1>4, <2>2, <1>2
    <3> QED BY <1>4, <2>2, <3>1 DEF ClosedFromFirst
  <2> QED BY <2>1, <2>2 DEF CanRun
<1>5. ClosedFromFirst(f, CanRun(f))
  BY <1>3, <1>4 DEF ClosedFromFirst
<1> QED BY <1>1, <1>2, <1>5

(* The successors the worklist visits are those of TypedBlocks.             *)
LEMMA SuccessorsAgree ==
  ASSUME prog \in Programs, NEW i \in DOMAIN prog, Distinct
  PROVE  SuccessorsOf(prog[i].index) = Successors(prog, i)
<1>1. PositionOf(prog[i].index) = i
  BY DEF Distinct, PositionOf
<1>2. Len(prog) \in Nat /\ DOMAIN prog = 1..Len(prog)
  BY ProgramFacts
<1>3. i + 1 \in DOMAIN prog <=> i < Len(prog)
  BY <1>2
<1> QED BY <1>1, <1>3 DEF SuccessorsOf, Successors

(* A step that leaves what the invariant is about alone.                    *)
LEMMA SameFunction ==
  ASSUME PassInv, UNCHANGED <<prog, phase, worklist, reachable, kept, cf>>
  PROVE  PassInv'
  BY DEF PassInv, Distinct, Untouched, Traversal, KeptExact, Branches, Seen,
         Filtered, KeptIndices

-----------------------------------------------------------------------------
(* One lemma for each action of the pass.                                   *)

(* Nothing is seen, kept or branched to before the pass starts.             *)
LEMMA InitPassInv == Init => PassInv
  BY DEF Init, PassInv, Untouched, Traversal, KeptExact, Branches, Seen,
         Filtered, KeptIndices, NoTargets

(* The check of the indices makes them distinct for the rest of the pass.   *)
LEMMA CheckIndicesStep == PassInv /\ CheckIndices => PassInv'
  BY DEF PassInv, CheckIndices, Distinct, Untouched, Traversal, KeptExact,
         Branches, Seen, Filtered, KeptIndices

(* The worklist starts with the first block, which every closed set holds.  *)
LEMMA InferReturnTypesStep == PassInv /\ InferReturnTypes => PassInv'
<1> SUFFICES ASSUME PassInv, InferReturnTypes
             PROVE  PassInv'
  OBVIOUS
<1>1. prog \in Programs /\ prog' = prog /\ Distinct
  BY DEF PassInv, InferReturnTypes
<1>2. prog[1].index \in Indices(prog)
  BY <1>1, ProgramFacts
<1>3. reachable = {} /\ kept = {} /\ worklist = {} /\ DOMAIN cf \subseteq {}
  BY DEF PassInv, Untouched, InferReturnTypes, Branches, KeptIndices
<1>4. reachable' = {} /\ kept' = {} /\ cf' = cf
  BY <1>3 DEF InferReturnTypes
<1>5. CASE phase' = "failed" /\ worklist' = worklist
  BY <1>1, <1>3, <1>4, <1>5 DEF PassInv, Untouched, Traversal, KeptExact,
     Branches, Filtered, KeptIndices
<1>6. CASE phase' = "reach" /\ worklist' = {prog[1].index}
  <2>1. Traversal'
    BY <1>1, <1>4, <1>6 DEF Traversal, Seen, ClosedFromFirst
  <2>2. Distinct'
    BY <1>1 DEF Distinct
  <2> QED BY <1>1, <1>2, <1>3, <1>4, <1>6, <2>1, <2>2 DEF PassInv, Untouched,
     KeptExact, Branches, Filtered, KeptIndices
<1> QED BY <1>5, <1>6 DEF InferReturnTypes

(* A visit adds the successors of the block visited to what was seen, and   *)
(* every closed set that holds the block holds them.                        *)
LEMMA VisitStep ==
  ASSUME PassInv, NEW b \in worklist, Visit(b)
  PROVE  PassInv'
<1>1. prog \in Programs /\ prog' = prog /\ Distinct /\ phase = "reach" /\ phase' = "reach"
      /\ kept' = kept /\ cf' = cf
  BY DEF PassInv, Visit
<1>2. PICK i \in DOMAIN prog : prog[i].index = b
  BY DEF PassInv, Indices
<1>3. SuccessorsOf(b) = Successors(prog, i)
  BY <1>1, <1>2, SuccessorsAgree
<1>4. SuccessorsOf(b) \subseteq Indices(prog)
  BY <1>3, SuccessorsKnown
<1>5. /\ reachable' = reachable \cup {b}
      /\ worklist' = (worklist \ {b}) \cup (IF b \in reachable THEN {} ELSE SuccessorsOf(b))
  BY DEF Visit
<1>6. Seen' = Seen \cup (IF b \in reachable THEN {} ELSE SuccessorsOf(b))
  BY <1>5 DEF Seen
<1>7. SuccessorsOf(b) \subseteq Seen'
  BY <1>1, <1>2, <1>3, <1>6 DEF PassInv, Traversal
<1>8. ASSUME NEW j \in DOMAIN prog, prog[j].index \in reachable'
      PROVE  Successors(prog, j) \subseteq Seen'
  <2>1. CASE prog[j].index = b
    <3>1. j = i
      BY <1>1, <1>2, <2>1 DEF Distinct
    <3> QED BY <1>3, <1>7, <3>1
  <2>2. CASE prog[j].index \in reachable
    BY <1>1, <1>6, <2>2 DEF PassInv, Traversal
  <2> QED BY <1>5, <1>8, <2>1, <2>2
<1>9. ASSUME NEW S \in SUBSET Indices(prog), ClosedFromFirst(prog, S)
      PROVE  Seen' \subseteq S
  <2>1. Seen \subseteq S
    BY <1>1, <1>9 DEF PassInv, Traversal
  <2>2. b \in S
    BY <2>1 DEF Seen
  <2>3. Successors(prog, i) \subseteq S
    BY <1>2, <1>9, <2>2 DEF ClosedFromFirst
  <2> QED BY <1>3, <1>6, <2>1, <2>3
<1>10. Traversal'
  BY <1>1, <1>6, <1>8, <1>9 DEF PassInv, Traversal
<1>11. reachable' \subseteq Indices(prog) /\ worklist' \subseteq Indices(prog)
  BY <1>4, <1>5 DEF PassInv
<1>12. Distinct'
  BY <1>1 DEF Distinct
<1>13. Branches'
  BY <1>1 DEF PassInv, Branches, KeptIndices
<1> QED BY <1>1, <1>10, <1>11, <1>12, <1>13 DEF PassInv, Untouched, KeptExact, Filtered

(* With nothing left to visit, what is reachable is closed, so it is the    *)
(* least closed set.                                                        *)
LEMMA KeepReachableStep == PassInv /\ KeepReachable => PassInv'
<1> SUFFICES ASSUME PassInv, KeepReachable
             PROVE  PassInv'
  OBVIOUS
<1>1. prog \in Programs /\ prog' = prog /\ reachable' = reachable /\ cf' = cf
      /\ worklist = {} /\ worklist' = {} /\ phase = "reach" /\ phase' = "lower"
      /\ reachable \subseteq Indices(prog) /\ Distinct
  BY DEF PassInv, KeepReachable
<1>2. Seen = reachable
  BY <1>1 DEF Seen
<1>3. ClosedFromFirst(prog, reachable)
  BY <1>1, <1>2 DEF PassInv, Traversal, ClosedFromFirst
<1>4. \A S \in SUBSET Indices(prog) : ClosedFromFirst(prog, S) => reachable \subseteq S
  BY <1>1, <1>2 DEF PassInv, Traversal
<1>5. reachable = CanRun(prog)
  BY <1>1, <1>3, <1>4, CanRunLeast
<1>6. kept' = {i \in DOMAIN prog : prog[i].index \in reachable}
  BY DEF KeepReachable
<1>7. DOMAIN cf = {}
  BY <1>1 DEF PassInv, Traversal, Branches, KeptIndices
<1>8. Branches'
  BY <1>1, <1>7 DEF Branches
<1>9. Distinct'
  BY <1>1 DEF Distinct
<1> QED BY <1>1, <1>5, <1>6, <1>8, <1>9 DEF PassInv, Untouched, Traversal, KeptExact

(* The branch a block gets goes to blocks that were kept.                   *)
LEMMA LoweredKnown ==
  ASSUME PassInv, NEW i \in kept, Lowers(prog[i])
  PROVE  TargetsOf(Lowered(i)) \subseteq KeptIndices
<1> DEFINE term == prog[i].term
<1>1. term.op \in {"none", "goto", "return", "unreachable", "switch_int"}
  BY Functions DEF PassInv, IsBlock
<1>2. CASE term.op = "goto"
  <2>1. term.targets["target"] \in KeptIndices
    BY <1>2 DEF Lowers, BlockKnown
  <2> QED BY <1>2, <2>1 DEF Lowered, Br, Only, TargetsOf
<1>3. CASE term.op \in {"return", "unreachable"}
  BY <1>3 DEF Lowered, FuncReturn, LLVMUnreachable, NoTargets, TargetsOf
<1>4. CASE term.op = "none"
  <2>1. CASE NextKept(i) = {}
    BY <1>4, <2>1 DEF Lowered, FuncReturn, NoTargets, TargetsOf
  <2>2. CASE NextKept(i) # {}
    <3>1. (CHOOSE j \in NextKept(i) : TRUE) \in kept
      BY <2>2 DEF NextKept
    <3>2. prog[CHOOSE j \in NextKept(i) : TRUE].index \in KeptIndices
      BY <3>1 DEF KeptIndices
    <3> QED BY <1>4, <2>2, <3>2 DEF Lowered, Br, Only, TargetsOf
  <2> QED BY <2>1, <2>2
<1>5. CASE term.op = "switch_int"
  <2>1. SwitchLowers(term)
    BY <1>5 DEF Lowers
  <2>2. Lowered(i) = LoweredSwitch(term)
    BY <1>5 DEF Lowered
  <2>3. CASE IsBoolean(term)
    BY <2>1, <2>2, <2>3 DEF SwitchLowers, BlockKnown, LoweredSwitch, CondBr, TargetsOf
  <2>4. CASE ~IsBoolean(term)
    <3>1. term.targets[DefaultLabel(term)] \in KeptIndices
      BY <2>1, <2>4 DEF SwitchLowers, BlockKnown
    <3>2. \A l \in SwitchCases(term) : term.targets[l] \in KeptIndices
      BY <2>1, <2>4 DEF SwitchLowers, BlockKnown
    <3>3. CASE SwitchCases(term) = {}
      BY <2>2, <2>4, <3>1, <3>3 DEF LoweredSwitch, Br, Only, TargetsOf
    <3>4. CASE SwitchCases(term) # {}
      <4> DEFINE arms == [l \in SwitchCases(term) \cup {"default"} |->
                           IF l = "default" THEN term.targets[DefaultLabel(term)]
                           ELSE term.targets[l]]
      <4>1. Lowered(i).targets = arms
        BY <2>2, <2>4, <3>4 DEF LoweredSwitch, CfSwitch
      <4>2. \A l \in DOMAIN arms : arms[l] \in KeptIndices
        BY <3>1, <3>2
      <4> HIDE DEF arms
      <4> QED BY <4>1, <4>2 DEF TargetsOf
    <3> QED BY <3>3, <3>4
  <2> QED BY <2>3, <2>4
<1> QED BY <1>1, <1>2, <1>3, <1>4, <1>5

(* A block's branch joins the others, and all of them go to kept blocks.    *)
LEMMA LowerBlockStep ==
  ASSUME PassInv, NEW i \in kept, LowerBlock(i)
  PROVE  PassInv'
<1>1. /\ phase = "lower"
      /\ UNCHANGED <<prog, phase, worklist, reachable, kept>>
      /\ KeptIndices' = KeptIndices
  BY DEF LowerBlock, NextToLower, KeptIndices
<1>2. cf' = [b \in DOMAIN cf \cup {prog[i].index} |->
              IF b = prog[i].index THEN Lowered(i) ELSE cf[b]]
  BY DEF LowerBlock
<1>3. prog[i].index \in KeptIndices
  BY DEF KeptIndices
<1>4. TargetsOf(Lowered(i)) \subseteq KeptIndices
  BY LoweredKnown DEF LowerBlock
<1>5. DOMAIN cf' \subseteq KeptIndices
  BY <1>2, <1>3 DEF PassInv, Branches
<1>6. ASSUME NEW b \in DOMAIN cf'
      PROVE  TargetsOf(cf'[b]) \subseteq KeptIndices
  <2>1. cf'[b] = IF b = prog[i].index THEN Lowered(i) ELSE cf[b]
    BY <1>2
  <2>2. b # prog[i].index => b \in DOMAIN cf
    BY <1>2
  <2> QED BY <1>4, <2>1, <2>2 DEF PassInv, Branches
<1>7. Branches'
  BY <1>1, <1>5, <1>6 DEF Branches
<1> QED BY <1>1, <1>7 DEF PassInv, Distinct, Untouched, Traversal, KeptExact,
     Seen, Filtered

(* The steps that only move on to another phase.                            *)
LEMMA PhaseStep ==
  ASSUME PassInv, UNCHANGED <<prog, worklist, reachable, kept, cf>>,
         \/ phase' = "failed"
         \/ phase = "lower" /\ phase' = "verify" /\ KeptIndices \subseteq DOMAIN cf
         \/ phase = "verify" /\ phase' = "done"
  PROVE  PassInv'
<1>1. KeptIndices' = KeptIndices
  BY DEF KeptIndices
<1>2. Branches'
  BY <1>1 DEF PassInv, Branches
<1> QED BY <1>2 DEF PassInv, Distinct, Untouched, Traversal, KeptExact, Seen,
     Filtered

(* Every step of the pass and of the function it makes.                     *)
LEMMA NextPassInv ==
  ASSUME PassInv, [Next]_vars
  PROVE  PassInv'
<1>1. CASE CheckIndices
  BY <1>1, CheckIndicesStep
<1>2. CASE InferReturnTypes
  BY <1>2, InferReturnTypesStep
<1>3. ASSUME NEW b \in worklist, Visit(b)
      PROVE  PassInv'
  BY <1>3, VisitStep
<1>4. CASE KeepReachable
  BY <1>4, KeepReachableStep
<1>5. ASSUME NEW i \in kept, LowerBlock(i) \/ RefuseBlock(i)
      PROVE  PassInv'
  <2>1. CASE LowerBlock(i)
    BY <2>1, LowerBlockStep
  <2>2. CASE RefuseBlock(i)
    BY <2>2, PhaseStep DEF RefuseBlock
  <2> QED BY <1>5, <2>1, <2>2
<1>6. CASE FinishFunction
  BY <1>6, PhaseStep DEF FinishFunction
<1>7. CASE VerifyFunction
  BY <1>7, PhaseStep DEF VerifyFunction
<1>8. CASE ExecNext
  <2>1. UNCHANGED <<prog, phase, worklist, reachable, kept, cf>>
    BY <1>8 DEF ExecNext, Start, ExecBranch, ExecReturn, ExecUnreachable, passVars
  <2> QED BY <2>1, SameFunction
<1>9. CASE UNCHANGED vars
  <2>1. UNCHANGED <<prog, phase, worklist, reachable, kept, cf>>
    BY <1>9 DEF vars, passVars
  <2> QED BY <2>1, SameFunction
<1> QED BY <1>1, <1>2, <1>3, <1>4, <1>5, <1>6, <1>7, <1>8, <1>9 DEF Next, PassNext

-----------------------------------------------------------------------------
(* The worklist, the kept blocks and the branches made so far are           *)
(* consistent in every state of the pass (filterReachableTypedBlocks,       *)
(* matchAndRewrite).                                                        *)
THEOREM PassInvariant == Spec => []PassInv
<1> QED BY InitPassInv, NextPassInv, PTL DEF Spec

(* The invariant says what is kept.                                         *)
LEMMA KeptIsCanRun == PassInv => KeptCanRun
<1> SUFFICES ASSUME PassInv, Filtered
             PROVE  KeptIndices = CanRun(prog)
  BY DEF KeptCanRun
<1>1. reachable = CanRun(prog) /\ reachable \subseteq Indices(prog)
      /\ kept = {i \in DOMAIN prog : prog[i].index \in reachable}
  BY DEF PassInv, KeptExact
<1> QED BY <1>1 DEF KeptIndices, Indices

(* The blocks that are lowered are exactly those control can get to, for    *)
(* every function (filterReachableTypedBlocks).                             *)
THEOREM KeepsWhatCanRun == Spec => []KeptCanRun
BY KeptIsCanRun, PassInvariant, PTL

(* The next kept block is the next one: it can run if this one can.         *)
LEMMA NextKeptIsNext == PassInv => FallThroughAgrees
<1> SUFFICES ASSUME PassInv, Filtered
             PROVE  /\ 1 \in kept
                    /\ \A i \in kept : prog[i].term.op = "none" =>
                         NextKept(i) = IF i = Len(prog) THEN {} ELSE {i + 1}
  BY DEF FallThroughAgrees
<1>1. /\ prog \in Programs
      /\ kept = {i \in DOMAIN prog : prog[i].index \in CanRun(prog)}
  BY DEF PassInv, KeptExact
<1>2. ClosedFromFirst(prog, CanRun(prog))
  BY <1>1, CanRunLeast
<1>3. Len(prog) \in Nat \ {0} /\ DOMAIN prog = 1..Len(prog) /\ 1 \in DOMAIN prog
  BY <1>1, ProgramFacts
<1>4. 1 \in kept
  BY <1>1, <1>2, <1>3 DEF ClosedFromFirst
<1>5. ASSUME NEW i \in kept, prog[i].term.op = "none"
      PROVE  NextKept(i) = IF i = Len(prog) THEN {} ELSE {i + 1}
  <2> DEFINE n == Len(prog)
  <2>1. n \in Nat /\ 1..n = DOMAIN prog
    BY <1>3
  <2>2. \A k \in kept : k \in 1..n
    BY <1>1, <2>1
  <2> HIDE DEF n
  <2>3. i \in Int /\ \A k \in kept : k \in Int /\ k <= n
    BY <2>1, <2>2
  <2>4. CASE i = n
    <3>1. \A j \in kept : ~(i < j)
      BY <2>1, <2>3, <2>4
    <3>2. NextKept(i) = {}
      BY <3>1 DEF NextKept
    <3> QED BY <2>4, <3>2 DEF n
  <2>5. CASE i # n
    <3>1. i + 1 \in 1..n /\ i < n
      BY <2>1, <2>2, <2>3, <2>5
    <3>2. prog[i + 1].index \in Successors(prog, i)
      BY <1>5, <2>1, <3>1 DEF Successors, Indices, n
    <3>3. i + 1 \in kept
      BY <1>1, <1>2, <2>1, <3>1, <3>2 DEF ClosedFromFirst
    <3>4. \A j \in kept : i < j => i + 1 <= j
      BY <2>3
    <3>5. \A j \in kept : j <= i + 1 /\ i < j => j = i + 1
      BY <2>3
    <3>6. i < i + 1
      BY <2>3
    <3>7. NextKept(i) = {i + 1}
      BY <3>3, <3>4, <3>5, <3>6 DEF NextKept
    <3> QED BY <2>5, <3>7 DEF n
  <2> QED BY <2>4, <2>5
<1> QED BY <1>4, <1>5

(* Falling through means the same to the worklist and to the lowering, for  *)
(* every function, and the first block is always kept.                      *)
THEOREM FallThroughIsNext == Spec => []FallThroughAgrees
BY NextKeptIsNext, PassInvariant, PTL

(* No branch of a finished function leaves it, for every function           *)
(* (lowerTypedTerminator).                                                  *)
THEOREM NoBranchLeaves == Spec => []BranchesKnown
<1>1. PassInv => BranchesKnown
  BY DEF PassInv, Branches, BranchesKnown
<1> QED BY <1>1, PassInvariant, PTL

-----------------------------------------------------------------------------
(* The lowering of a block, and what the assumptions say of its terminator. *)

(* Once the blocks are kept, what a block is lowered to does not change.    *)
LEMMA LoweringFixed ==
  ASSUME UNCHANGED <<prog, kept>>
  PROVE  /\ KeptIndices' = KeptIndices
         /\ \A b : Lowers(b)' <=> Lowers(b)
         /\ \A i : Lowered(i)' = Lowered(i)
<1>1. KeptIndices' = KeptIndices
  BY DEF KeptIndices
<1>2. \A b : Lowers(b)' <=> Lowers(b)
  BY <1>1 DEF Lowers, SwitchLowers, BlockKnown
<1>3. \A i : NextKept(i)' = NextKept(i)
  BY DEF NextKept
<1>4. \A i : Lowered(i)' = Lowered(i)
  BY <1>3 DEF Lowered
<1> QED BY <1>1, <1>2, <1>4

LEMMA TermFacts ==
  ASSUME NEW f \in Programs, NEW i \in DOMAIN f
  PROVE  /\ f[i].index \in Nat
         /\ f[i].term.op \in {"none", "goto", "return", "unreachable", "switch_int"}
         /\ IsTargets(f[i].term.targets)
         /\ f[i].term.type \in Types
         /\ f[i].term.op = "goto" => DOMAIN f[i].term.targets = {"target"}
         /\ f[i].term.op = "switch_int" => "target" \notin DOMAIN f[i].term.targets
         /\ f[i].term.op \in {"none", "return", "unreachable"} =>
              DOMAIN f[i].term.targets = {}
BY Functions DEF IsBlock

(* A block that is lowered gets an operation of cf, func or llvm.           *)
LEMMA LoweredTyped ==
  ASSUME prog \in Programs, kept \subseteq DOMAIN prog, NEW i \in kept, Lowers(prog[i])
  PROVE  IsBranch(Lowered(i))
<1> DEFINE term == prog[i].term
<1>1. /\ term.op \in {"none", "goto", "return", "unreachable", "switch_int"}
      /\ IsTargets(term.targets) /\ term.type \in Types
      /\ \A l \in DOMAIN term.targets : l \in Labels /\ term.targets[l] \in Nat
      /\ \A j \in kept : prog[j].index \in Nat
  BY TermFacts DEF IsTargets
<1>2. ASSUME NEW b \in Nat
      PROVE  IsBranch(Br(b))
  <2> DEFINE g == Only("target", b)
             o == [op |-> "br", targets |-> g, type |-> "unit"]
  <2>1. IsTargets(g)
    BY DEF IsTargets, Only, Labels, Fixed
  <2> HIDE DEF g
  <2>2. IsBranch(o)
    BY <2>1, KnownTypes DEF IsBranch
  <2> QED BY <2>2 DEF Br, g
<1>3. ASSUME NEW type \in Types
      PROVE  IsBranch(FuncReturn(type))
  BY DEF IsBranch, FuncReturn, IsTargets, NoTargets
<1>4. CASE term.op = "goto"
  <2>1. "target" \in DOMAIN term.targets
    BY <1>4 DEF Lowers, BlockKnown
  <2> QED BY <1>1, <1>2, <1>4, <2>1 DEF Lowered
<1>5. CASE term.op = "return"
  BY <1>1, <1>3, <1>5 DEF Lowered
<1>6. CASE term.op = "unreachable"
  BY <1>6, KnownTypes DEF Lowered, LLVMUnreachable, IsBranch, IsTargets, NoTargets
<1>7. CASE term.op = "none"
  <2>1. CASE NextKept(i) = {}
    BY <1>3, <1>7, <2>1, KnownTypes DEF Lowered
  <2>2. CASE NextKept(i) # {}
    <3>1. (CHOOSE j \in NextKept(i) : TRUE) \in kept
      BY <2>2 DEF NextKept
    <3>2. prog[CHOOSE j \in NextKept(i) : TRUE].index \in Nat
      BY <1>1, <3>1
    <3> QED BY <1>2, <1>7, <2>2, <3>2 DEF Lowered
  <2> QED BY <2>1, <2>2
<1>8. CASE term.op = "switch_int"
  <2>1. SwitchLowers(term) /\ Lowered(i) = LoweredSwitch(term)
    BY <1>8 DEF Lowers, Lowered
  <2>2. CASE IsBoolean(term)
    <3>1. term.targets["true"] \in Nat /\ term.targets["false"] \in Nat
      BY <1>1, <2>1, <2>2 DEF SwitchLowers, BlockKnown
    <3> DEFINE arms == [l \in {"true", "false"} |->
                          IF l = "true" THEN term.targets["true"] ELSE term.targets["false"]]
               o == [op |-> "cond_br", type |-> "i1", targets |-> arms]
    <3>2. Lowered(i) = o
      BY <2>1, <2>2 DEF LoweredSwitch, CondBr
    <3>3. IsTargets(arms)
      BY <3>1 DEF IsTargets, Labels, Fixed
    <3> HIDE DEF arms
    <3>4. IsBranch(o)
      BY <3>3, KnownTypes DEF IsBranch
    <3> QED BY <3>2, <3>4
  <2>3. CASE ~IsBoolean(term)
    <3>1. term.targets[DefaultLabel(term)] \in Nat
      BY <1>1, <2>1, <2>3 DEF SwitchLowers, BlockKnown
    <3>2. CASE SwitchCases(term) = {}
      BY <1>2, <2>1, <2>3, <3>1, <3>2 DEF LoweredSwitch
    <3>3. CASE SwitchCases(term) # {}
      <4> DEFINE arms == [l \in SwitchCases(term) \cup {"default"} |->
                            IF l = "default" THEN term.targets[DefaultLabel(term)]
                            ELSE term.targets[l]]
                 o == [op |-> "switch", targets |-> arms, type |-> term.type]
      <4>1. Lowered(i) = o
        BY <2>1, <2>3, <3>3 DEF LoweredSwitch, CfSwitch
      <4>2. \A l \in SwitchCases(term) : l \in Labels /\ term.targets[l] \in Nat
        BY <1>1 DEF SwitchCases
      <4>3. IsTargets(arms)
        BY <3>1, <4>2 DEF IsTargets, Labels, Fixed
      <4> HIDE DEF arms
      <4>4. IsBranch(o)
        BY <1>1, <4>3 DEF IsBranch
      <4> QED BY <4>1, <4>4
    <3> QED BY <3>2, <3>3
  <2> QED BY <2>2, <2>3
<1> QED BY <1>1, <1>4, <1>5, <1>6, <1>7, <1>8

-----------------------------------------------------------------------------
(* CfInv: what the branches, the result type and the status have to do with *)
(* the function.                                                            *)

LEMMA InitCfInv == Init => CfInv
<1> SUFFICES ASSUME Init PROVE CfInv
  OBVIOUS
<1>1. PassInv
  BY InitPassInv
<1>2. Results /\ Translated /\ Verified /\ Statuses
  BY KnownTypes DEF Init, Results, Translated, Verified, Statuses, Phases
<1> QED BY <1>1, <1>2 DEF CfInv

(* A step of the pass that makes no branch.                                 *)
LEMMA PhaseCfInv ==
  ASSUME CfInv, PassInv', Results', UNCHANGED <<prog, cf, at>>,
         phase \notin {"done", "failed"}, phase' \in Phases \ {"done"},
         status' = IF phase' = "failed" THEN "rejected" ELSE status,
         kept' = kept \/ DOMAIN cf = {}
  PROVE  CfInv'
<1>1. status = "new"
  BY DEF CfInv, Statuses
<1>2. Translated'
  <2>1. CASE kept' = kept
    BY <2>1, LoweringFixed DEF CfInv, Translated
  <2>2. CASE DOMAIN cf = {}
    BY <2>2 DEF Translated
  <2> QED BY <2>1, <2>2
<1>3. Verified' /\ Statuses'
  BY <1>1 DEF Verified, Statuses
<1> QED BY <1>2, <1>3 DEF CfInv

(* A step of the function that was made.                                    *)
LEMMA ExecCfInv ==
  ASSUME CfInv, UNCHANGED passVars, phase = "done",
         status' \in {"running", "returned", "trapped"},
         status' = "running" => at' \in KeptIndices
  PROVE  CfInv'
<1>1. UNCHANGED <<prog, phase, worklist, reachable, kept, cf, resultType>>
  BY DEF passVars
<1>2. PassInv'
  BY <1>1, SameFunction DEF CfInv
<1>3. Translated' /\ KeptIndices' = KeptIndices
  BY <1>1, LoweringFixed DEF CfInv, Translated
<1>4. Results' /\ Verified'
  BY <1>1 DEF CfInv, Results, Verified
<1>5. Statuses'
  BY <1>1, <1>3 DEF CfInv, Statuses
<1> QED BY <1>2, <1>3, <1>4, <1>5 DEF CfInv

(* inferNestedReturnTypes: the type of the returns is the function's.       *)
LEMMA InferResults ==
  ASSUME CfInv, InferReturnTypes
  PROVE  Results'
<1> DEFINE returns == Returns(prog)
<1>1. prog \in Programs /\ prog' = prog /\ resultType \in Types
  BY DEF CfInv, PassInv, Results, InferReturnTypes
<1>2. \A i \in returns : prog[i].term.type \in Types
  BY <1>1, TermFacts DEF Returns
<1>3. CASE \A i, j \in returns : prog[i].term.type = prog[j].term.type
  <2>1. CASE returns = {}
    BY <1>1, <1>3, <2>1, KnownTypes DEF InferReturnTypes, Results
  <2>2. CASE returns # {}
    <3>1. (CHOOSE i \in returns : TRUE) \in returns
      BY <2>2
    <3>2. resultType' = prog[CHOOSE i \in returns : TRUE].term.type
      BY <1>3, <2>2 DEF InferReturnTypes
    <3> QED BY <1>1, <1>2, <1>3, <2>2, <3>1, <3>2 DEF Results
  <2> QED BY <2>1, <2>2
<1>4. CASE ~\A i, j \in returns : prog[i].term.type = prog[j].term.type
  BY <1>1, <1>4 DEF InferReturnTypes, Results
<1> QED BY <1>3, <1>4

(* A block gets the branch it is lowered to.                                *)
LEMMA LowerCfInv ==
  ASSUME CfInv, NEW i \in kept, LowerBlock(i)
  PROVE  CfInv'
<1>1. /\ phase = "lower" /\ Lowers(prog[i])
      /\ UNCHANGED <<prog, phase, worklist, reachable, kept, resultType, status, at, discr>>
      /\ cf' = [b \in DOMAIN cf \cup {prog[i].index} |->
                  IF b = prog[i].index THEN Lowered(i) ELSE cf[b]]
  BY DEF LowerBlock, NextToLower, execVars
<1>2. PassInv'
  BY LowerBlockStep DEF CfInv
<1>3. Results' /\ Verified' /\ Statuses'
  BY <1>1, LoweringFixed DEF CfInv, Results, Verified, Statuses
<1>4. ASSUME NEW j \in kept, prog[j].index \in DOMAIN cf'
      PROVE  Lowers(prog[j]) /\ cf'[prog[j].index] = Lowered(j)
  <2>1. CASE prog[j].index = prog[i].index
    <3>1. j = i
      BY <1>1, <2>1 DEF CfInv, PassInv, Distinct
    <3> QED BY <1>1, <3>1
  <2>2. CASE prog[j].index # prog[i].index
    BY <1>1, <1>4, <2>2 DEF CfInv, Translated
  <2> QED BY <2>1, <2>2
<1>5. Translated'
  BY <1>1, <1>4, LoweringFixed DEF Translated
<1> QED BY <1>2, <1>3, <1>5 DEF CfInv

(* The branches a block was lowered to, when the pass is done.              *)
LEMMA DoneBlock ==
  ASSUME CfInv, phase \in {"verify", "done"}, NEW b \in KeptIndices
  PROVE  /\ b \in DOMAIN cf /\ TargetsOf(cf[b]) \subseteq KeptIndices
         /\ \E i \in kept : /\ prog[i].index = b /\ Lowers(prog[i]) /\ cf[b] = Lowered(i)
                            /\ IsBranch(cf[b])
<1>1. b \in DOMAIN cf /\ TargetsOf(cf[b]) \subseteq KeptIndices
  BY DEF CfInv, PassInv, Branches
<1>2. PICK i \in kept : prog[i].index = b
  BY DEF KeptIndices
<1>3. Lowers(prog[i]) /\ cf[b] = Lowered(i)
  BY <1>1, <1>2 DEF CfInv, Translated
<1>4. IsBranch(cf[b])
  BY <1>3, LoweredTyped DEF CfInv, PassInv
<1> QED BY <1>1, <1>2, <1>3, <1>4

-----------------------------------------------------------------------------
(* The branch that is taken.                                                *)

(* TypedBlocks has its own copy of the operators of TypedBody.              *)
LEMMA SameOperators ==
  /\ \A f : /\ Typed!Indices(f) = Indices(f) /\ Typed!Returns(f) = Returns(f)
            /\ Typed!CanRun(f) = CanRun(f)
  /\ \A term : /\ Typed!IsBoolean(term) <=> IsBoolean(term)
               /\ Typed!DefaultLabel(term) = DefaultLabel(term)
               /\ Typed!SwitchCases(term) = SwitchCases(term)
  /\ Typed!NotANumber = NotANumber
<1>1. \A f : Typed!Indices(f) = Indices(f) /\ Typed!Returns(f) = Returns(f)
  BY DEF Indices, Typed!Indices, Returns, Typed!Returns
<1>2. \A term : Typed!TargetsOf(term) = TargetsOf(term)
  BY DEF TargetsOf, Typed!TargetsOf
<1>3. \A f, i : Typed!Successors(f, i) = Successors(f, i)
  BY <1>1, <1>2 DEF Successors, Typed!Successors
<1>4. \A f, S : Typed!ClosedFromFirst(f, S) <=> ClosedFromFirst(f, S)
  BY <1>3 DEF ClosedFromFirst, Typed!ClosedFromFirst
<1>5. \A f : Typed!CanRun(f) = CanRun(f)
  BY <1>1, <1>4 DEF CanRun, Typed!CanRun
<1>6. \A term : /\ Typed!IsBoolean(term) <=> IsBoolean(term)
                /\ Typed!DefaultLabel(term) = DefaultLabel(term)
                /\ Typed!SwitchCases(term) = SwitchCases(term)
  BY DEF IsBoolean, Typed!IsBoolean, DefaultLabel, Typed!DefaultLabel, SwitchCases,
         Typed!SwitchCases
<1> QED BY <1>1, <1>5, <1>6 DEF NotANumber, Typed!NotANumber

(* The value of the discriminator leaves a switch by the same target before *)
(* and after it is lowered: cf.switch compares with the values of the cases, *)
(* cond_br with 1, and the rest goes to the default (lowerSwitchInt).        *)
LEMMA SwitchTaken ==
  ASSUME NEW term, IsTargets(term.targets), "target" \notin DOMAIN term.targets,
         SwitchLowers(term), cf[at] = LoweredSwitch(term)
  PROVE  /\ cf[at].op \in {"br", "cond_br", "switch"}
         /\ Taken \in DOMAIN cf[at].targets
         /\ cf[at].targets[Taken] = term.targets[Typed!Arm(term, discr)]
<1> DEFINE cases == SwitchCases(term)
           dft == term.targets[DefaultLabel(term)]
<1>1. CASE IsBoolean(term)
  <2>1. cf[at] = CondBr(term.targets["true"], term.targets["false"])
    BY <1>1 DEF LoweredSwitch
  <2>2. /\ cf[at].op = "cond_br" /\ DOMAIN cf[at].targets = {"true", "false"}
        /\ cf[at].targets["true"] = term.targets["true"]
        /\ cf[at].targets["false"] = term.targets["false"]
    BY <2>1 DEF CondBr
  <2>3. Taken = IF discr = 1 THEN "true" ELSE "false"
    BY <2>2 DEF Taken
  <2>4. Typed!Arm(term, discr) = IF discr = 1 THEN "true" ELSE "false"
    BY <1>1, SameOperators DEF Typed!Arm
  <2> QED BY <2>2, <2>3, <2>4
<1>2. CASE ~IsBoolean(term) /\ cases = {}
  <2>1. cf[at] = Br(dft)
    BY <1>2 DEF LoweredSwitch
  <2>2. cf[at].op = "br" /\ DOMAIN cf[at].targets = {"target"} /\ cf[at].targets["target"] = dft
    BY <2>1 DEF Br, Only
  <2>3. Taken = "target"
    BY <2>2 DEF Taken
  <2>4. Typed!Arm(term, discr) = DefaultLabel(term)
    BY <1>2, SameOperators DEF Typed!Arm
  <2> QED BY <2>2, <2>3, <2>4
<1>3. CASE ~IsBoolean(term) /\ cases # {}
  <2> DEFINE arms == [l \in cases \cup {"default"} |->
                        IF l = "default" THEN dft ELSE term.targets[l]]
             hits == {l \in DOMAIN arms \ {"default"} : CaseValue[l] = discr}
             arm == Typed!Arm(term, discr)
  <2>1. cf[at] = CfSwitch(arms, term.type)
    BY <1>3 DEF LoweredSwitch
  <2>2. cf[at].op = "switch" /\ cf[at].targets = arms
    BY <2>1 DEF CfSwitch
  <2>3. Taken = IF hits = {} THEN "default" ELSE CHOOSE l \in hits : TRUE
    BY <2>2 DEF Taken
  <2>4. "default" \notin cases /\ \A l \in cases : l \in CaseLabels /\ CaseValue[l] # NotANumber
    BY <1>3 DEF SwitchLowers, SwitchCases, IsTargets, Labels, Fixed, IsBoolean
  <2>5. hits = {l \in cases : CaseValue[l] = discr}
    BY <2>4
  <2>6. CASE hits = {}
    <3>1. arm = DefaultLabel(term)
      BY <1>3, <2>5, <2>6, SameOperators DEF Typed!Arm
    <3> QED BY <2>2, <2>3, <2>6, <3>1
  <2>7. CASE hits # {}
    <3> DEFINE x == CHOOSE l \in hits : TRUE
    <3>1. x \in cases /\ CaseValue[x] = discr
      BY <2>5, <2>7
    <3>2. arm \in cases /\ CaseValue[arm] = discr
      <4>1. \E l \in cases : CaseValue[l] = discr
        BY <3>1
      <4>2. arm = CHOOSE l \in cases : CaseValue[l] = discr
        BY <1>3, <4>1, SameOperators DEF Typed!Arm
      <4> HIDE DEF arm, cases
      <4> QED BY <4>1, <4>2
    <3>3. x = arm
      BY <2>4, <3>1, <3>2, Cases
    <3>4. Taken = x
      BY <2>3, <2>7
    <3> HIDE DEF x, arm, cases
    <3>5. arms[x] = term.targets[x] /\ x \in DOMAIN arms
      BY <2>4, <3>1
    <3> QED BY <2>2, <3>3, <3>4, <3>5 DEF arm
  <2> QED BY <2>6, <2>7
<1> QED BY <1>1, <1>2, <1>3

(* Where a branch of the function leads is where its block hands control    *)
(* on.                                                                      *)
LEMMA BranchTaken ==
  ASSUME CfInv, phase = "done", NEW i \in kept, at = prog[i].index,
         cf[at].op \in {"br", "cond_br", "switch"}
  PROVE  /\ cf[at].targets[Taken] \in KeptIndices
         /\ \/ /\ prog[i].term.op = "goto"
               /\ cf[at].targets[Taken] = prog[i].term.targets["target"]
            \/ /\ prog[i].term.op = "switch_int"
               /\ cf[at].targets[Taken] = prog[i].term.targets[Typed!Arm(prog[i].term, discr)]
            \/ /\ prog[i].term.op = "none" /\ i < Len(prog)
               /\ cf[at].targets[Taken] = prog[i + 1].index
<1> DEFINE term == prog[i].term
<1>1. PassInv /\ prog \in Programs /\ i \in DOMAIN prog /\ Distinct /\ Filtered
  BY DEF CfInv, PassInv, Filtered
<1>2. at \in KeptIndices
  BY DEF KeptIndices
<1>3. /\ at \in DOMAIN cf /\ TargetsOf(cf[at]) \subseteq KeptIndices
      /\ Lowers(prog[i]) /\ cf[at] = Lowered(i)
  BY <1>1, <1>2, DoneBlock DEF CfInv, PassInv, Distinct, Translated
<1>4. /\ term.op \in {"none", "goto", "return", "unreachable", "switch_int"}
      /\ IsTargets(term.targets)
      /\ term.op = "switch_int" => "target" \notin DOMAIN term.targets
  BY <1>1, TermFacts
<1>5. ASSUME NEW b, cf[at] = Br(b)
      PROVE  Taken \in DOMAIN cf[at].targets /\ cf[at].targets[Taken] = b
  <2>1. cf[at].op = "br" /\ DOMAIN cf[at].targets = {"target"} /\ cf[at].targets["target"] = b
    BY <1>5 DEF Br, Only
  <2>2. Taken = "target"
    BY <2>1 DEF Taken
  <2> QED BY <2>1, <2>2
<1>6. Taken \in DOMAIN cf[at].targets => cf[at].targets[Taken] \in KeptIndices
  BY <1>3 DEF TargetsOf
<1>7. CASE term.op = "goto"
  <2>1. cf[at] = Br(term.targets["target"])
    BY <1>3, <1>7 DEF Lowered
  <2> QED BY <1>5, <1>6, <1>7, <2>1
<1>8. CASE term.op = "switch_int"
  <2>1. cf[at] = LoweredSwitch(term) /\ SwitchLowers(term)
    BY <1>3, <1>8 DEF Lowered, Lowers
  <2>2. /\ Taken \in DOMAIN cf[at].targets
        /\ cf[at].targets[Taken] = term.targets[Typed!Arm(term, discr)]
    BY <1>4, <1>8, <2>1, SwitchTaken
  <2> QED BY <1>6, <1>8, <2>2
<1>9. CASE term.op = "none"
  <2>1. NextKept(i) = IF i = Len(prog) THEN {} ELSE {i + 1}
    BY <1>1, <1>9, NextKeptIsNext DEF FallThroughAgrees
  <2>2. Lowered(i) = IF NextKept(i) = {} THEN FuncReturn("unit")
                     ELSE Br(prog[CHOOSE j \in NextKept(i) : TRUE].index)
    BY <1>9 DEF Lowered
  <2>3. NextKept(i) # {}
    BY <1>3, <2>2 DEF FuncReturn
  <2>4. i # Len(prog) /\ NextKept(i) = {i + 1}
    BY <2>1, <2>3
  <2>5. cf[at] = Br(prog[i + 1].index)
    BY <1>3, <2>2, <2>4
  <2>6. i < Len(prog)
    BY <1>1, <2>4, ProgramFacts
  <2> QED BY <1>5, <1>6, <1>9, <2>5, <2>6
<1>10. CASE term.op = "return"
  BY <1>3, <1>10 DEF Lowered, FuncReturn
<1>11. CASE term.op = "unreachable"
  BY <1>3, <1>11 DEF Lowered, LLVMUnreachable
<1> QED BY <1>4, <1>7, <1>8, <1>9, <1>10, <1>11

(* The function starts with its first block.                                *)
LEMMA StartsAtFirst ==
  ASSUME PassInv, phase = "done"
  PROVE  FirstKept = 1 /\ prog[1].index \in KeptIndices
<1>1. 1 \in kept
  BY NextKeptIsNext DEF FallThroughAgrees, Filtered
<1>2. \A j \in kept : j \in Nat /\ 1 <= j
  BY ProgramFacts DEF PassInv
<1>3. /\ FirstKept \in kept /\ \A j \in kept : FirstKept <= j
  BY <1>1, <1>2 DEF FirstKept
<1>4. FirstKept = 1
  BY <1>1, <1>2, <1>3
<1> QED BY <1>1, <1>4 DEF KeptIndices

LEMMA NextCfInv ==
  ASSUME CfInv, [Next]_vars
  PROVE  CfInv'
<1>1. PassInv'
  BY NextPassInv DEF CfInv
<1>2. status = "running" \/ status = "returned" \/ status = "trapped" => phase = "done"
  BY DEF CfInv, Statuses
<1>3. CASE CheckIndices
  <2>1. Results'
    BY <1>3 DEF CheckIndices, CfInv, Results
  <2> QED BY <1>1, <1>3, <2>1, PhaseCfInv DEF CheckIndices, Outcome, Phases
<1>4. CASE InferReturnTypes
  <2>1. Results'
    BY <1>4, InferResults
  <2> QED BY <1>1, <1>4, <2>1, PhaseCfInv DEF InferReturnTypes, Outcome, Phases
<1>5. ASSUME NEW b \in worklist, Visit(b)
      PROVE  CfInv'
  <2>1. Results'
    BY <1>5 DEF Visit, CfInv, Results
  <2> QED BY <1>1, <1>5, <2>1, PhaseCfInv DEF Visit, execVars, Phases
<1>6. CASE KeepReachable
  <2>1. Results'
    BY <1>6 DEF KeepReachable, CfInv, Results
  <2>2. DOMAIN cf = {}
    BY <1>6 DEF KeepReachable, CfInv, PassInv, Traversal, Branches, KeptIndices
  <2> QED BY <1>1, <1>6, <2>1, <2>2, PhaseCfInv DEF KeepReachable, execVars, Phases
<1>7. ASSUME NEW i \in kept, LowerBlock(i)
      PROVE  CfInv'
  BY <1>7, LowerCfInv
<1>8. ASSUME NEW i \in kept, RefuseBlock(i)
      PROVE  CfInv'
  <2>1. Results'
    BY <1>8 DEF RefuseBlock, CfInv, Results
  <2> QED BY <1>1, <1>8, <2>1, PhaseCfInv DEF RefuseBlock, NextToLower, Outcome, Phases
<1>9. CASE FinishFunction
  <2>1. Results'
    BY <1>9 DEF FinishFunction, CfInv, Results
  <2> QED BY <1>1, <1>9, <2>1, PhaseCfInv DEF FinishFunction, execVars, Phases
<1>10. CASE VerifyFunction
  <2>1. Results'
    BY <1>10 DEF VerifyFunction, CfInv, Results
  <2>2. CASE phase' = "failed"
    BY <1>1, <1>10, <2>1, <2>2, PhaseCfInv DEF VerifyFunction, Outcome, Phases
  <2>3. CASE phase' # "failed"
    <3>1. /\ \A b \in DOMAIN cf : cf[b].op = "return" => cf[b].type = resultType
          /\ phase = "verify" /\ phase' = "done" /\ status' = status
          /\ UNCHANGED <<prog, kept, cf, resultType, at>>
      BY <1>10, <2>3 DEF VerifyFunction, Outcome
    <3>2. Translated'
      BY <3>1, LoweringFixed DEF CfInv, Translated
    <3>3. Verified' /\ Statuses'
      BY <3>1 DEF CfInv, Verified, Statuses, Phases
    <3> QED BY <1>1, <2>1, <3>2, <3>3 DEF CfInv
  <2> QED BY <2>2, <2>3
<1>11. CASE Start
  <2>1. prog[FirstKept].index \in KeptIndices
    BY <1>11, StartsAtFirst DEF Start, CfInv
  <2> QED BY <1>11, <2>1, ExecCfInv DEF Start, Enter
<1>12. CASE ExecBranch
  <2>1. PICK i \in kept : at = prog[i].index
    BY <1>12 DEF ExecBranch, CfInv, Statuses, KeptIndices
  <2>2. cf[at].targets[Taken] \in KeptIndices
    BY <1>2, <1>12, <2>1, BranchTaken DEF ExecBranch
  <2> QED BY <1>2, <1>12, <2>2, ExecCfInv DEF ExecBranch, Enter
<1>13. CASE ExecReturn \/ ExecUnreachable
  BY <1>2, <1>13, ExecCfInv DEF ExecReturn, ExecUnreachable
<1>14. CASE UNCHANGED vars
  <2>1. UNCHANGED <<prog, phase, kept, cf, resultType, status, at>>
    BY <1>14 DEF vars, passVars, execVars
  <2>2. Translated' /\ KeptIndices' = KeptIndices
    BY <2>1, LoweringFixed DEF CfInv, Translated
  <2> QED BY <1>1, <2>1, <2>2 DEF CfInv, Results, Verified, Statuses
<1> QED BY <1>3, <1>4, <1>5, <1>6, <1>7, <1>8, <1>9, <1>10, <1>11, <1>12, <1>13, <1>14
     DEF Next, PassNext, ExecNext

(* Every branch is the lowering of a block that could be lowered, the       *)
(* result type is that of the returns, and a function that runs is in one   *)
(* of its blocks (TypedBlockConversion).                                    *)
THEOREM CfInvariant == Spec => []CfInv
BY InitCfInv, NextCfInv, PTL DEF Spec

(* What the pass makes are operations of cf, func and llvm that are well    *)
(* formed.                                                                  *)
THEOREM BranchesTyped == Spec => []TypeOK
<1>1. CfInv => TypeOK
  <2> SUFFICES ASSUME CfInv PROVE TypeOK
    OBVIOUS
  <2>1. ASSUME NEW b \in DOMAIN cf
        PROVE  IsBranch(cf[b])
    <3>1. PICK i \in kept : prog[i].index = b
      BY DEF CfInv, PassInv, Branches, KeptIndices
    <3>2. Lowers(prog[i]) /\ cf[b] = Lowered(i)
      BY <3>1 DEF CfInv, Translated
    <3> QED BY <3>2, LoweredTyped DEF CfInv, PassInv
  <2> QED BY <2>1 DEF CfInv, PassInv, Branches, Results, Statuses, TypeOK
<1> QED BY CfInvariant, <1>1, PTL

-----------------------------------------------------------------------------
(* The refinement: the function runs the typed blocks, and is rejected when *)
(* they make no sense.                                                      *)

(* A block that can run is lowered exactly when it makes sense: a target    *)
(* among the blocks is a target among those that were kept.                 *)
LEMMA LowersWhatMakesSense ==
  ASSUME PassInv, Filtered, NEW i \in kept
  PROVE  Lowers(prog[i]) <=> Typed!MakesSense(prog, prog[i])
<1> DEFINE term == prog[i].term
<1>1. prog \in Programs /\ i \in DOMAIN prog /\ KeptIndices = CanRun(prog)
  BY KeptIsCanRun DEF PassInv, KeptCanRun
<1>2. Successors(prog, i) \subseteq KeptIndices /\ KeptIndices \subseteq Indices(prog)
  <2>1. prog[i].index \in CanRun(prog)
    BY <1>1 DEF KeptIndices
  <2> QED BY <1>1, <2>1, CanRunLeast DEF ClosedFromFirst
<1>3. \A l \in DOMAIN term.targets :
        term.targets[l] \in KeptIndices <=> term.targets[l] \in Indices(prog)
  BY <1>2 DEF Successors, TargetsOf
<1>4. \A l : BlockKnown(term, l) <=>
               l \in DOMAIN term.targets /\ term.targets[l] \in Typed!Indices(prog)
  BY <1>3, SameOperators DEF BlockKnown
<1>5. SwitchLowers(term) <=> Typed!SwitchMakesSense(prog, term)
  BY <1>4, SameOperators DEF SwitchLowers, Typed!SwitchMakesSense
<1>6. term.op = "goto" => "target" \in DOMAIN term.targets
  BY <1>1, TermFacts
<1> QED BY <1>4, <1>5, <1>6 DEF Lowers, Typed!MakesSense

(* When the pass is done, the function is well formed.                      *)
LEMMA DoneWellFormed ==
  ASSUME CfInv, phase = "done"
  PROVE  Typed!WellFormed(prog)
<1> DEFINE n == Len(prog)
<1>1. /\ PassInv /\ prog \in Programs /\ Distinct /\ Filtered /\ KeptIndices = CanRun(prog)
      /\ \A i \in Returns(prog) : resultType = prog[i].term.type
  BY KeptIsCanRun DEF CfInv, PassInv, KeptCanRun, Filtered, Results
<1>2. n \in DOMAIN prog
  BY <1>1, ProgramFacts
<1>3. Typed!FallsOffTheEnd(prog) => resultType = "unit"
  <2> SUFFICES ASSUME prog[n].term.op = "none", prog[n].index \in CanRun(prog)
               PROVE  resultType = "unit"
    BY SameOperators DEF Typed!FallsOffTheEnd
  <2>1. n \in kept
    BY <1>1, <1>2 DEF PassInv, KeptExact
  <2>2. NextKept(n) = {}
    BY <1>1, <2>1, NextKeptIsNext DEF FallThroughAgrees
  <2>3. prog[n].index \in DOMAIN cf /\ cf[prog[n].index] = Lowered(n)
    BY <1>1, <2>1 DEF CfInv, PassInv, Branches, Translated
  <2>4. Lowered(n) = FuncReturn("unit")
    BY <2>2 DEF Lowered
  <2> QED BY <2>3, <2>4 DEF CfInv, Verified, FuncReturn
<1>4. ASSUME NEW i \in DOMAIN prog, prog[i].index \in CanRun(prog)
      PROVE  Typed!MakesSense(prog, prog[i])
  <2>1. i \in kept
    BY <1>1, <1>4 DEF PassInv, KeptExact
  <2>2. Lowers(prog[i])
    BY <1>1, <2>1 DEF CfInv, PassInv, Branches, Translated, KeptIndices
  <2> QED BY <1>1, <2>1, <2>2, LowersWhatMakesSense
<1> QED BY <1>1, <1>3, <1>4, SameOperators DEF Distinct, Typed!WellFormed

(* When the pass fails, it is not.                                          *)
LEMMA FailsIllFormed ==
  ASSUME CfInv, phase \notin {"done", "failed"}, phase' = "failed",
         \/ CheckIndices \/ InferReturnTypes \/ VerifyFunction
         \/ \E i \in kept : RefuseBlock(i)
  PROVE  ~Typed!WellFormed(prog)
<1>1. CASE CheckIndices
  BY <1>1 DEF CheckIndices, Typed!WellFormed
<1>2. CASE InferReturnTypes
  BY <1>2, SameOperators DEF InferReturnTypes, Typed!WellFormed
<1>3. ASSUME NEW i \in kept, RefuseBlock(i)
      PROVE  ~Typed!WellFormed(prog)
  <2>1. PassInv /\ Filtered /\ KeptIndices = CanRun(prog)
    BY <1>3, KeptIsCanRun DEF RefuseBlock, NextToLower, CfInv, KeptCanRun, Filtered
  <2>2. ~Typed!MakesSense(prog, prog[i])
    BY <1>3, <2>1, LowersWhatMakesSense DEF RefuseBlock
  <2>3. i \in DOMAIN prog /\ prog[i].index \in CanRun(prog)
    BY <2>1 DEF PassInv, KeptIndices
  <2> QED BY <2>2, <2>3, SameOperators DEF Typed!WellFormed
<1>4. CASE VerifyFunction
  <2>1. /\ PassInv /\ prog \in Programs /\ Filtered /\ KeptIndices = CanRun(prog)
        /\ \A i \in Returns(prog) : resultType = prog[i].term.type
        /\ Returns(prog) = {} => resultType = "unit"
    BY <1>4, KeptIsCanRun DEF VerifyFunction, CfInv, PassInv, KeptCanRun, Filtered, Results
  <2>2. PICK b \in DOMAIN cf : cf[b].op = "return" /\ cf[b].type # resultType
    BY <1>4 DEF VerifyFunction
  <2>3. PICK i \in kept : prog[i].index = b
    BY <2>1 DEF PassInv, Branches, KeptIndices
  <2>4. cf[b] = Lowered(i) /\ i \in DOMAIN prog
    BY <2>1, <2>3 DEF CfInv, PassInv, Translated
  <2>5. prog[i].term.op \in {"none", "goto", "return", "unreachable", "switch_int"}
    BY <2>1, <2>4, TermFacts
  <2>6. prog[i].term.op # "return"
    BY <2>1, <2>2, <2>4 DEF Lowered, FuncReturn, Returns
  <2>7. prog[i].term.op = "none" /\ NextKept(i) = {}
    <3>1. CASE prog[i].term.op = "goto"
      BY <2>2, <2>4, <3>1 DEF Lowered, Br
    <3>2. CASE prog[i].term.op = "unreachable"
      BY <2>2, <2>4, <3>2 DEF Lowered, LLVMUnreachable
    <3>3. CASE prog[i].term.op = "switch_int"
      BY <2>2, <2>4, <3>3 DEF Lowered, LoweredSwitch, Br, CondBr, CfSwitch
    <3>4. CASE prog[i].term.op = "none" /\ NextKept(i) # {}
      BY <2>2, <2>4, <3>4 DEF Lowered, Br
    <3> QED BY <2>5, <2>6, <3>1, <3>2, <3>3, <3>4
  <2>8. resultType # "unit"
    BY <2>2, <2>4, <2>7 DEF Lowered, FuncReturn
  <2>9. i = Len(prog)
    BY <2>1, <2>7, NextKeptIsNext DEF FallThroughAgrees
  <2>10. prog[i].index \in CanRun(prog)
    BY <2>1 DEF KeptIndices
  <2>11. Typed!FallsOffTheEnd(prog)
    BY <2>7, <2>9, <2>10, SameOperators DEF Typed!FallsOffTheEnd
  <2> QED BY <2>1, <2>8, <2>11, SameOperators DEF Typed!WellFormed
<1> QED BY <1>1, <1>2, <1>3, <1>4

(* A step of the pass is none of the abstract function, or its rejection.   *)
LEMMA PassRefines ==
  ASSUME CfInv, PassNext
  PROVE  [Typed!Next]_(Typed!vars)
<1>1. /\ prog' = prog /\ at' = at /\ discr' = discr
      /\ phase \notin {"done", "failed"}
      /\ \/ status' = status
         \/ /\ phase' = "failed" /\ status' = "rejected"
            /\ \/ CheckIndices \/ InferReturnTypes \/ VerifyFunction
               \/ \E i \in kept : RefuseBlock(i)
  BY DEF PassNext, CheckIndices, InferReturnTypes, Visit, KeepReachable, LowerBlock,
         RefuseBlock, NextToLower, FinishFunction, VerifyFunction, Outcome, execVars
<1>2. CASE status' = status
  BY <1>1, <1>2 DEF Typed!vars
<1>3. CASE status' # status
  <2>1. status = "new" /\ status' = "rejected" /\ ~Typed!WellFormed(prog)
    BY <1>1, <1>3, FailsIllFormed DEF CfInv, Statuses
  <2>2. Typed!Reject
    BY <1>1, <2>1 DEF Typed!Reject
  <2> QED BY <2>2 DEF Typed!Next
<1> QED BY <1>2, <1>3

(* A step of the compiled function is the step of the typed block it is in. *)
LEMMA ExecRefines ==
  ASSUME CfInv, ExecNext
  PROVE  [Typed!Next]_(Typed!vars)
<1>1. PassInv /\ prog' = prog
  BY DEF CfInv, ExecNext, Start, ExecBranch, ExecReturn, ExecUnreachable, passVars
<1>2. CASE Start
  <2>1. Typed!WellFormed(prog) /\ FirstKept = 1
    BY <1>1, <1>2, DoneWellFormed, StartsAtFirst DEF Start
  <2>2. Typed!Call
    BY <1>1, <1>2, <2>1 DEF Start, Enter, Typed!Call, Typed!Enter
  <2> QED BY <2>2 DEF Typed!Next
<1>3. CASE status = "running"
  <2>1. phase = "done" /\ at \in KeptIndices
    BY <1>3 DEF CfInv, Statuses
  <2>2. PICK i \in kept : at = prog[i].index
    BY <2>1 DEF KeptIndices
  <2>3. /\ i \in DOMAIN prog /\ Distinct /\ at \in DOMAIN cf /\ cf[at] = Lowered(i)
        /\ prog[i].term.op \in {"none", "goto", "return", "unreachable", "switch_int"}
    BY <1>1, <2>1, <2>2, TermFacts DEF CfInv, PassInv, Branches, Translated
  <2>4. Typed!Position(at) = i
    BY <2>2, <2>3 DEF Distinct, Typed!Position
  <2>5. Typed!Term = prog[i].term
    BY <2>4 DEF Typed!Term
  <2>6. CASE ExecBranch
    <3>1. /\ cf[at].op \in {"br", "cond_br", "switch"} /\ status' = status
          /\ at' = cf[at].targets[Taken] /\ discr' \in Discr
      BY <2>6 DEF ExecBranch, Enter
    <3>2. \/ /\ prog[i].term.op = "goto"
             /\ at' = prog[i].term.targets["target"]
          \/ /\ prog[i].term.op = "switch_int"
             /\ at' = prog[i].term.targets[Typed!Arm(prog[i].term, discr)]
          \/ /\ prog[i].term.op = "none" /\ i < Len(prog)
             /\ at' = prog[i + 1].index
      BY <2>1, <2>2, <3>1, BranchTaken
    <3>3. Typed!Goto \/ Typed!Switch \/ Typed!FallThrough
      BY <1>1, <1>3, <2>4, <2>5, <3>1, <3>2
         DEF Typed!Goto, Typed!Switch, Typed!FallThrough, Typed!Enter
    <3> QED BY <3>3 DEF Typed!Next
  <2>7. CASE ExecReturn
    <3>1. prog[i].term.op = "return" \/ (prog[i].term.op = "none" /\ NextKept(i) = {})
      BY <2>3, <2>7 DEF ExecReturn, Lowered, Br, LoweredSwitch, CondBr, CfSwitch,
                        LLVMUnreachable
    <3>2. prog[i].term.op = "none" => i = Len(prog)
      BY <1>1, <2>1, <3>1, NextKeptIsNext DEF FallThroughAgrees, Filtered
    <3>3. Typed!Return
      BY <1>1, <2>4, <2>5, <2>7, <3>1, <3>2 DEF ExecReturn, Typed!Return
    <3> QED BY <3>3 DEF Typed!Next
  <2>8. CASE ExecUnreachable
    <3>1. prog[i].term.op = "unreachable"
      BY <2>3, <2>8 DEF ExecUnreachable, Lowered, Br, LoweredSwitch, CondBr, CfSwitch,
                        FuncReturn
    <3>2. Typed!Trap
      BY <1>1, <2>5, <2>8, <3>1 DEF ExecUnreachable, Typed!Trap
    <3> QED BY <3>2 DEF Typed!Next
  <2> QED BY <1>3, <2>6, <2>7, <2>8 DEF ExecNext, Start
<1> QED BY <1>2, <1>3 DEF ExecNext, ExecBranch, ExecReturn, ExecUnreachable

(* For every function: the compiled code goes through the typed blocks in   *)
(* the order of the source, takes the same arms, returns and traps where    *)
(* they do, and a function is refused only if a part of it that can run     *)
(* makes no sense.  The safety half of ImplementsTypedBlocks.               *)
THEOREM RunsTypedBlocks == Spec => Typed!Init /\ [][Typed!Next]_(Typed!vars)
<1>1. Init => Typed!Init
  BY Cases DEF Init, Typed!Init
<1>2. CfInv /\ [Next]_vars => [Typed!Next]_(Typed!vars)
  <2>1. ASSUME UNCHANGED vars PROVE UNCHANGED Typed!vars
    BY <2>1 DEF vars, passVars, execVars, Typed!vars
  <2> QED BY <2>1, PassRefines, ExecRefines DEF Next
<1> QED BY <1>1, <1>2, CfInvariant, PTL DEF Spec

=============================================================================
