------------------------------ MODULE TypedToCf -----------------------------
(***************************************************************************)
(* The pass convert-rust-typed-to-cf on one function (TypedBlockConversion),*)
(* and the func.func it produces, called and run.  The pass refuses         *)
(* duplicate indices and returns of different types, finds the blocks that  *)
(* can run with a worklist, lowers the terminator of each of them in the    *)
(* order they are written, and sets the function type.  The verifier of the *)
(* pass manager looks at the result.                                        *)
(*                                                                          *)
(* The worklist is a set here: the order in which the code pops it decides  *)
(* nothing but the order of visits, and an index pushed twice is skipped    *)
(* the second time.                                                         *)
(***************************************************************************)
EXTENDS TypedBody

VARIABLES
  prog,       \* the typed blocks of the function
  phase,      \* "indices", "returns", "reach", "lower", "verify", "done"
              \* or "failed"
  worklist,   \* indices to visit
  reachable,  \* indices visited
  kept,       \* the positions of the blocks that are lowered
  cf,         \* cf[b]: the branch that ends the block made for typed block b
  resultType, \* the result type of the func.func
  status,     \* as in TypedBlocks
  at,         \* the typed block whose code is running
  discr       \* the value of the discriminator in that block

passVars == <<prog, phase, worklist, reachable, kept, cf, resultType>>
execVars == <<status, at, discr>>
vars == <<passVars, execVars>>

Typed == INSTANCE TypedBlocks

-----------------------------------------------------------------------------
(* Operations of cf, func and llvm that end a block.                        *)

IsBranch(o) ==
  /\ o = [op |-> o.op, targets |-> o.targets, type |-> o.type]
  /\ o.op \in {"br", "cond_br", "switch", "return", "unreachable"}
  /\ IsTargets(o.targets)
  /\ o.type \in Types

Only(l, b) == [m \in {l} |-> b]
NoTargets  == [m \in {} |-> 0]

Br(b)        == [op |-> "br", targets |-> Only("target", b), type |-> "unit"]
CondBr(t, f) == [op |-> "cond_br", type |-> "i1",
                 targets |-> [l \in {"true", "false"} |-> IF l = "true" THEN t ELSE f]]
CfSwitch(targets, type) == [op |-> "switch", targets |-> targets, type |-> type]
FuncReturn(type) == [op |-> "return", targets |-> NoTargets, type |-> type]
LLVMUnreachable  == [op |-> "unreachable", targets |-> NoTargets, type |-> "unit"]

-----------------------------------------------------------------------------
Init ==
  /\ prog \in Programs
  /\ phase = "indices"
  /\ worklist = {}
  /\ reachable = {}
  /\ kept = {}
  /\ cf = NoTargets
  /\ resultType = "unit"
  /\ status = "new"
  /\ at = prog[1].index
  /\ discr = CHOOSE v \in Discr : TRUE

(* A pass that fails ends the compilation.                                  *)
Outcome(p) == status' = IF p = "failed" THEN "rejected" ELSE status

CheckIndices ==
  /\ phase = "indices"
  /\ phase' = IF \A i, j \in DOMAIN prog : prog[i].index = prog[j].index => i = j
                THEN "returns" ELSE "failed"
  /\ Outcome(phase')
  /\ UNCHANGED <<prog, worklist, reachable, kept, cf, resultType, at, discr>>

(* inferNestedReturnTypes looks at the returns of blocks that cannot run    *)
(* too.  Then the worklist is set up.                                       *)
InferReturnTypes ==
  LET returns == Returns(prog) IN
  /\ phase = "returns"
  /\ IF \A i, j \in returns : prog[i].term.type = prog[j].term.type
       THEN /\ resultType' = IF returns = {} THEN "unit"
                             ELSE prog[CHOOSE i \in returns : TRUE].term.type
            /\ phase' = "reach"
            /\ worklist' = {prog[1].index}
       ELSE /\ phase' = "failed"
            /\ UNCHANGED <<resultType, worklist>>
  /\ Outcome(phase')
  /\ UNCHANGED <<prog, reachable, kept, cf, at, discr>>

-----------------------------------------------------------------------------
(* filterReachableTypedBlocks.                                              *)

PositionOf(b) == CHOOSE i \in DOMAIN prog : prog[i].index = b

\* Mutant: a block with a terminator is followed by the one written after it.
SuccessorsAlwaysFallThrough(b) ==
  LET i == PositionOf(b)
  IN  (TargetsOf(prog[i].term) \cap Indices(prog))
        \cup (IF i < Len(prog) THEN {prog[i + 1].index} ELSE {})

SuccessorsOf(b) ==
  LET i == PositionOf(b)
      fallThrough == IF prog[i].term.op = "none" /\ i + 1 \in DOMAIN prog
                       THEN {prog[i + 1].index} ELSE {}
  IN  (TargetsOf(prog[i].term) \cup fallThrough) \cap Indices(prog)

Visit(b) ==
  /\ phase = "reach"
  /\ b \in worklist
  /\ reachable' = reachable \cup {b}
  /\ worklist' = (worklist \ {b})
                   \cup (IF b \in reachable THEN {} ELSE SuccessorsOf(b))
  /\ UNCHANGED <<prog, phase, kept, cf, resultType, execVars>>

KeepReachable ==
  /\ phase = "reach"
  /\ worklist = {}
  /\ kept' = {i \in DOMAIN prog : prog[i].index \in reachable}
  /\ phase' = "lower"
  /\ UNCHANGED <<prog, worklist, reachable, cf, resultType, execVars>>

-----------------------------------------------------------------------------
(* The loop over the kept blocks, and lowerTypedTerminator.                 *)

KeptIndices == {prog[i].index : i \in kept}

NextToLower(i) ==
  /\ phase = "lower"
  /\ i \in kept
  /\ prog[i].index \notin DOMAIN cf
  /\ \A j \in kept : j < i => prog[j].index \in DOMAIN cf

\* Mutant: the last kept block follows every other.
NextKeptLast(i) == {j \in kept : i < j /\ \A k \in kept : k <= j}

(* The kept block after the one at i, if there is one.                      *)
NextKept(i) == {j \in kept : i < j /\ \A k \in kept : i < k => j <= k}

\* Mutant: a target is taken for known without looking it up.
BlockKnownUnchecked(term, l) == l \in DOMAIN term.targets

BlockKnown(term, l) == l \in DOMAIN term.targets /\ term.targets[l] \in KeptIndices

SwitchLowers(term) ==
  IF IsBoolean(term)
    THEN BlockKnown(term, "true") /\ BlockKnown(term, "false") /\ term.type = "i1"
    ELSE /\ BlockKnown(term, DefaultLabel(term))
         /\ term.type \in {"i1", "int"}
         /\ \A l \in SwitchCases(term) :
              CaseValue[l] # NotANumber /\ BlockKnown(term, l)

Lowers(b) ==
  /\ ~b.trailing
  /\ b.term.op = "goto" => BlockKnown(b.term, "target")
  /\ b.term.op = "switch_int" => SwitchLowers(b.term)

\* Mutant: a switch with a single case takes the case for the default.
LoweredSwitchOneArm(term) ==
  LET cases == SwitchCases(term)
  IN  IF IsBoolean(term)
        THEN CondBr(term.targets["true"], term.targets["false"])
      ELSE Br(term.targets[IF cases = {} THEN DefaultLabel(term)
                                         ELSE CHOOSE l \in cases : TRUE])

LoweredSwitch(term) ==
  LET default == term.targets[DefaultLabel(term)]
      cases   == SwitchCases(term)
  IN  IF IsBoolean(term)
        THEN CondBr(term.targets["true"], term.targets["false"])
      ELSE IF cases = {} THEN Br(default)
      ELSE CfSwitch([l \in cases \cup {"default"} |->
                       IF l = "default" THEN default ELSE term.targets[l]],
                    term.type)

Lowered(i) ==
  LET term == prog[i].term IN
  CASE term.op = "goto"        -> Br(term.targets["target"])
    [] term.op = "return"      -> FuncReturn(term.type)
    [] term.op = "unreachable" -> LLVMUnreachable
    [] term.op = "switch_int"  -> LoweredSwitch(term)
    [] term.op = "none"        ->
         IF NextKept(i) = {} THEN FuncReturn("unit")
         ELSE Br(prog[CHOOSE j \in NextKept(i) : TRUE].index)

LowerBlock(i) ==
  /\ NextToLower(i)
  /\ Lowers(prog[i])
  /\ cf' = [b \in DOMAIN cf \cup {prog[i].index} |->
              IF b = prog[i].index THEN Lowered(i) ELSE cf[b]]
  /\ UNCHANGED <<prog, phase, worklist, reachable, kept, resultType, execVars>>

RefuseBlock(i) ==
  /\ NextToLower(i)
  /\ ~Lowers(prog[i])
  /\ phase' = "failed"
  /\ Outcome(phase')
  /\ UNCHANGED <<prog, worklist, reachable, kept, cf, resultType, at, discr>>

(* The typed blocks are erased, the entry block branches to the first kept  *)
(* one, and the function type is set.                                       *)
FinishFunction ==
  /\ phase = "lower"
  /\ KeptIndices \subseteq DOMAIN cf
  /\ phase' = "verify"
  /\ UNCHANGED <<prog, worklist, reachable, kept, cf, resultType, execVars>>

\* Mutant: nobody verifies the result.
VerifyFunctionOff ==
  /\ phase = "verify"
  /\ phase' = "done"
  /\ Outcome(phase')
  /\ UNCHANGED <<prog, worklist, reachable, kept, cf, resultType, at, discr>>

(* The verifier of func.return: operands match the function's results.      *)
VerifyFunction ==
  /\ phase = "verify"
  /\ phase' = IF \A b \in DOMAIN cf : cf[b].op = "return" => cf[b].type = resultType
                THEN "done" ELSE "failed"
  /\ Outcome(phase')
  /\ UNCHANGED <<prog, worklist, reachable, kept, cf, resultType, at, discr>>

PassNext ==
  \/ CheckIndices \/ InferReturnTypes
  \/ \E b \in worklist : Visit(b)
  \/ KeepReachable
  \/ \E i \in kept : LowerBlock(i) \/ RefuseBlock(i)
  \/ FinishFunction \/ VerifyFunction

-----------------------------------------------------------------------------
(* The func.func, called and run.                                           *)

Enter(b) == at' = b /\ discr' \in Discr

FirstKept == CHOOSE i \in kept : \A j \in kept : i <= j

Start ==
  /\ phase = "done"
  /\ status = "new"
  /\ status' = "running"
  /\ Enter(prog[FirstKept].index)
  /\ UNCHANGED passVars

Taken ==
  CASE cf[at].op = "br"      -> "target"
    [] cf[at].op = "cond_br" -> IF discr = 1 THEN "true" ELSE "false"
    [] cf[at].op = "switch"  ->
         LET hits == {l \in DOMAIN cf[at].targets \ {"default"} :
                        CaseValue[l] = discr}
         IN  IF hits = {} THEN "default" ELSE CHOOSE l \in hits : TRUE

ExecBranch ==
  /\ status = "running"
  /\ cf[at].op \in {"br", "cond_br", "switch"}
  /\ Enter(cf[at].targets[Taken])
  /\ UNCHANGED <<passVars, status>>

ExecReturn ==
  /\ status = "running"
  /\ cf[at].op = "return"
  /\ status' = "returned"
  /\ UNCHANGED <<passVars, at, discr>>

ExecUnreachable ==
  /\ status = "running"
  /\ cf[at].op = "unreachable"
  /\ status' = "trapped"
  /\ UNCHANGED <<passVars, at, discr>>

ExecNext == Start \/ ExecBranch \/ ExecReturn \/ ExecUnreachable

Next == PassNext \/ ExecNext

Spec == Init /\ [][Next]_vars /\ WF_vars(PassNext) /\ WF_vars(ExecNext)

-----------------------------------------------------------------------------
(* Properties.                                                              *)

Phases == {"indices", "returns", "reach", "lower", "verify", "done", "failed"}

(* The shapes of the pass's state and of what it produces.                  *)
TypeOK ==
  /\ prog \in Programs
  /\ phase \in Phases
  /\ worklist \subseteq Indices(prog)
  /\ reachable \subseteq Indices(prog)
  /\ kept \subseteq DOMAIN prog
  /\ DOMAIN cf \subseteq KeptIndices
  /\ \A b \in DOMAIN cf : IsBranch(cf[b])
  /\ resultType \in Types

Filtered == phase \in {"lower", "verify", "done"}

(* The blocks that are lowered are exactly those control can get to: the    *)
(* worklist of filterReachableTypedBlocks drops no block that runs and      *)
(* keeps none that cannot.                                                  *)
KeptCanRun == Filtered => KeptIndices = CanRun(prog)

(* A block without a terminator falls through to the block written after it *)
(* in the function when reachability is computed, and to the next kept one  *)
(* when it is lowered: the two are the same block, and the function starts  *)
(* with its first block (filterReachableTypedBlocks, matchAndRewrite).      *)
FallThroughAgrees ==
  Filtered =>
    /\ 1 \in kept
    /\ \A i \in kept : prog[i].term.op = "none" =>
         NextKept(i) = IF i = Len(prog) THEN {} ELSE {i + 1}

(* Every branch of a function the pass is done with goes to a block that    *)
(* was made, and every block that was made has its branch.                  *)
BranchesKnown ==
  phase \in {"verify", "done"} =>
    /\ DOMAIN cf = KeptIndices
    /\ \A b \in DOMAIN cf : TargetsOf(cf[b]) \subseteq DOMAIN cf

(* The compiled function runs the typed blocks the source's order and       *)
(* terminators call for, to its return or for ever; a function is refused   *)
(* exactly when its indices or returns clash or a block that can run makes  *)
(* no sense, whatever the blocks that cannot run look like.                 *)
ImplementsTypedBlocks == Typed!Spec

-----------------------------------------------------------------------------
(* The inductive invariant behind the safety properties and the refinement. *)

Distinct == \A i, j \in DOMAIN prog : prog[i].index = prog[j].index => i = j

Seen == reachable \cup worklist

(* Nothing has happened before the worklist is set up.                      *)
Untouched ==
  phase \in {"indices", "returns"} => worklist = {} /\ reachable = {} /\ kept = {}

(* The worklist algorithm: what was visited has its successors seen, and    *)
(* nothing is seen that a closed set could do without.                      *)
Traversal ==
  phase = "reach" =>
    /\ prog[1].index \in Seen
    /\ kept = {}
    /\ \A i \in DOMAIN prog :
         prog[i].index \in reachable => Successors(prog, i) \subseteq Seen
    /\ \A S \in SUBSET Indices(prog) : ClosedFromFirst(prog, S) => Seen \subseteq S

KeptExact ==
  Filtered =>
    /\ reachable = CanRun(prog)
    /\ kept = {i \in DOMAIN prog : prog[i].index \in reachable}

Branches ==
  /\ DOMAIN cf \subseteq KeptIndices
  /\ \A b \in DOMAIN cf : TargetsOf(cf[b]) \subseteq KeptIndices
  /\ phase \in {"verify", "done"} => KeptIndices \subseteq DOMAIN cf

PassInv ==
  /\ prog \in Programs
  /\ worklist \subseteq Indices(prog)
  /\ reachable \subseteq Indices(prog)
  /\ kept \subseteq DOMAIN prog
  /\ phase \in {"returns", "reach", "lower", "verify", "done"} => Distinct
  /\ Untouched
  /\ Traversal
  /\ KeptExact
  /\ Branches

(* The result type is that of the returns.                                  *)
Results ==
  /\ resultType \in Types
  /\ phase \in {"reach", "lower", "verify", "done"} =>
       /\ \A i \in Returns(prog) : resultType = prog[i].term.type
       /\ Returns(prog) = {} => resultType = "unit"

(* A block that has its branch could be lowered, and was.                   *)
Translated ==
  \A i \in kept : prog[i].index \in DOMAIN cf =>
    Lowers(prog[i]) /\ cf[prog[i].index] = Lowered(i)

Verified ==
  phase = "done" => \A b \in DOMAIN cf : cf[b].op = "return" => cf[b].type = resultType

(* The function is rejected by a failure and runs when the pass is done, in *)
(* a block that was made.                                                   *)
Statuses ==
  /\ phase \in Phases
  /\ status \in {"new", "rejected", "running", "returned", "trapped"}
  /\ phase = "failed" <=> status = "rejected"
  /\ phase \notin {"done", "failed"} => status = "new"
  /\ status = "running" => at \in KeptIndices

CfInv == PassInv /\ Results /\ Translated /\ Verified /\ Statuses

=============================================================================
