----------------------------- MODULE TypedBlocks ----------------------------
(***************************************************************************)
(* What a function made of rust.typed.block operations means, with no trace *)
(* of how it is lowered: the blocks run one after another from the first,   *)
(* each handing control on by its terminator, or to the block written after *)
(* it when it has none.  A function is rejected at compile time when a part *)
(* of it that can run makes no sense, and never otherwise.                  *)
(***************************************************************************)
EXTENDS TypedBody

(* A switch by truth values needs both of them and a boolean; any other one *)
(* needs a default, an integer, and cases that are numbers.                 *)
SwitchMakesSense(f, term) ==
  LET known(l) == l \in DOMAIN term.targets /\ term.targets[l] \in Indices(f)
  IN  IF IsBoolean(term)
        THEN known("true") /\ known("false") /\ term.type = "i1"
        ELSE /\ known(DefaultLabel(term))
             /\ term.type \in {"i1", "int"}
             /\ \A l \in SwitchCases(term) :
                  known(l) /\ CaseValue[l] # NotANumber

MakesSense(f, b) ==
  /\ ~b.trailing
  /\ b.term.op = "goto" => b.term.targets["target"] \in Indices(f)
  /\ b.term.op = "switch_int" => SwitchMakesSense(f, b.term)

(* A function whose end can be reached without a return returns nothing.    *)
FallsOffTheEnd(f) ==
  f[Len(f)].term.op = "none" /\ f[Len(f)].index \in CanRun(f)

WellFormed(f) ==
  /\ \A i, j \in DOMAIN f : f[i].index = f[j].index => i = j
  /\ \A i, j \in Returns(f) : f[i].term.type = f[j].term.type
  /\ FallsOffTheEnd(f) => \A i \in Returns(f) : f[i].term.type = "unit"
  /\ \A i \in DOMAIN f : f[i].index \in CanRun(f) => MakesSense(f, f[i])

(* The label of a switch by which value v leaves.                           *)
Arm(term, v) ==
  IF IsBoolean(term) THEN IF v = 1 THEN "true" ELSE "false"
  ELSE IF \E l \in SwitchCases(term) : CaseValue[l] = v
    THEN CHOOSE l \in SwitchCases(term) : CaseValue[l] = v
    ELSE DefaultLabel(term)

-----------------------------------------------------------------------------
VARIABLES
  prog,   \* the function, one of Programs
  status, \* "new", "rejected", "running", "returned" or "trapped"
  at,     \* the index of the block control is in
  discr   \* the value of the discriminator in that block

vars == <<prog, status, at, discr>>

Position(b) == CHOOSE i \in DOMAIN prog : prog[i].index = b
Term == prog[Position(at)].term

Enter(b) == at' = b /\ discr' \in Discr

Init ==
  /\ prog \in Programs
  /\ status = "new"
  /\ at = prog[1].index
  /\ discr \in Discr

Reject ==
  /\ status = "new"
  /\ ~WellFormed(prog)
  /\ status' = "rejected"
  /\ UNCHANGED <<prog, at, discr>>

Call ==
  /\ status = "new"
  /\ WellFormed(prog)
  /\ status' = "running"
  /\ Enter(prog[1].index)
  /\ UNCHANGED prog

Goto ==
  /\ status = "running"
  /\ Term.op = "goto"
  /\ Enter(Term.targets["target"])
  /\ UNCHANGED <<prog, status>>

Switch ==
  /\ status = "running"
  /\ Term.op = "switch_int"
  /\ Enter(Term.targets[Arm(Term, discr)])
  /\ UNCHANGED <<prog, status>>

FallThrough ==
  /\ status = "running"
  /\ Term.op = "none"
  /\ Position(at) < Len(prog)
  /\ Enter(prog[Position(at) + 1].index)
  /\ UNCHANGED <<prog, status>>

Return ==
  /\ status = "running"
  /\ Term.op = "return" \/ (Term.op = "none" /\ Position(at) = Len(prog))
  /\ status' = "returned"
  /\ UNCHANGED <<prog, at, discr>>

Trap ==
  /\ status = "running"
  /\ Term.op = "unreachable"
  /\ status' = "trapped"
  /\ UNCHANGED <<prog, at, discr>>

Next == Reject \/ Call \/ Goto \/ Switch \/ FallThrough \/ Return \/ Trap

Spec == Init /\ [][Next]_vars /\ WF_vars(Next)

=============================================================================
