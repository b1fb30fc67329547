----------------------------- MODULE TypedBody ------------------------------
(***************************************************************************)
(* A function in the rust.typed dialect, as far as control flow goes: a     *)
(* sequence of rust.typed.block operations, each with an index and, unless  *)
(* it falls through to the block written after it, a terminator.            *)
(***************************************************************************)
EXTENDS Integers, Sequences, FiniteSets

CONSTANTS
  Programs,   \* the functions under consideration
  CaseLabels, \* the target names of a switch other than those of Fixed
  CaseValue,  \* CaseValue[l]: the value case l stands for, or NotANumber
  Discr,      \* the values a discriminator can have
  Types       \* the types a function returns or a switch looks at

NotANumber == -1

(* The target names with a meaning of their own; a goto has only "target".  *)
Fixed == {"target", "true", "false", "default", "otherwise"}
Labels == Fixed \cup CaseLabels

(* A map from target names to block indices.                                *)
IsTargets(g) == DOMAIN g \subseteq Labels /\ g \in [DOMAIN g -> Nat]

(* A block: its index, its terminator, or "none" if it lacks one, the       *)
(* blocks that names, the type it returns or switches on, and whether       *)
(* operations follow the terminator.                                        *)
IsBlock(b) ==
  /\ b = [index |-> b.index, term |-> b.term, trailing |-> b.trailing]
  /\ b.term = [op |-> b.term.op, targets |-> b.term.targets, type |-> b.term.type]
  /\ b.index \in Nat
  /\ b.term.op \in {"none", "goto", "return", "unreachable", "switch_int"}
  /\ IsTargets(b.term.targets)
  /\ b.term.type \in Types
  /\ b.trailing \in BOOLEAN

ASSUME Cases ==
  /\ Discr # {}
  /\ CaseLabels \cap Fixed = {}
  /\ CaseValue \in [CaseLabels -> Nat \cup {NotANumber}]
  /\ \A l, m \in CaseLabels :
       CaseValue[l] = CaseValue[m] /\ CaseValue[l] # NotANumber => l = m

\* No result, a truth value, and a wider integer.
ASSUME KnownTypes == {"unit", "i1", "int"} \subseteq Types

ASSUME Functions ==
  \A f \in Programs :
    /\ Len(f) \in Nat \ {0}
    /\ DOMAIN f = 1..Len(f)
    /\ \A i \in DOMAIN f :
       LET term == f[i].term IN
       /\ IsBlock(f[i])
       /\ term.op = "goto" => DOMAIN term.targets = {"target"}
       /\ term.op = "switch_int" => "target" \notin DOMAIN term.targets
       /\ term.op \in {"none", "return", "unreachable"} => DOMAIN term.targets = {}

-----------------------------------------------------------------------------
Indices(f) == {f[i].index : i \in DOMAIN f}

TargetsOf(term) == {term.targets[l] : l \in DOMAIN term.targets}

IsBoolean(term) == {"true", "false"} \cap DOMAIN term.targets # {}

DefaultLabel(term) ==
  IF "default" \in DOMAIN term.targets THEN "default" ELSE "otherwise"

SwitchCases(term) == DOMAIN term.targets \ {"default", "otherwise"}

Returns(f) == {i \in DOMAIN f : f[i].term.op = "return"}

(* Where control can go from the block at position i.                       *)
Successors(f, i) ==
  (TargetsOf(f[i].term)
     \cup (IF f[i].term.op = "none" /\ i < Len(f) THEN {f[i + 1].index} ELSE {}))
  \cap Indices(f)

(* S holds the first block and every successor of a block it holds.         *)
ClosedFromFirst(f, S) ==
  /\ f[1].index \in S
  /\ \A i \in DOMAIN f : f[i].index \in S => Successors(f, i) \subseteq S

(* The least such set.                                                      *)
CanRun(f) ==
  {b \in Indices(f) : \A S \in SUBSET Indices(f) : ClosedFromFirst(f, S) => b \in S}

=============================================================================
