----------------------------- MODULE MCTypedToCf ----------------------------
(***************************************************************************)
(* Every function of three blocks whose terminators come from a list that   *)
(* has each way a terminator can be right or wrong.                         *)
(***************************************************************************)
EXTENDS TypedToCf

MCCaseLabels == {"case_0", "case_1", "case_x"}
MCCaseValue ==
  [l \in MCCaseLabels |-> CASE l = "case_0" -> 0 [] l = "case_1" -> 1
                             [] l = "case_x" -> NotANumber]
MCDiscr == 0..2
MCTypes == {"unit", "i1", "i32", "int", "other"}

-----------------------------------------------------------------------------
Plain(op, type) == [op |-> op, targets |-> NoTargets, type |-> type]
GotoTo(b) == [op |-> "goto", targets |-> Only("target", b), type |-> "unit"]
SwitchTo(targets, type) == [op |-> "switch_int", targets |-> targets, type |-> type]
Two(l, b, m, c) == [x \in {l, m} |-> IF x = l THEN b ELSE c]

\* Block indices of the functions, and one that no block has.
Index == <<4, 0, 2>>
Unknown == 9

Terms ==
  {Plain("none", "unit"), Plain("unreachable", "unit"),
   Plain("return", "unit"), Plain("return", "i32")}
    \cup {GotoTo(b) : b \in {4, 0, 2, Unknown}}
    \cup {SwitchTo(Two("true", b, "false", c), "i1") : b \in {0, 2}, c \in {2, Unknown}}
    \cup {SwitchTo(Two("default", b, "case_1", c), "int") :
             b \in {4, 2}, c \in {0, Unknown}}
    \cup {SwitchTo(Two("otherwise", 2, "case_0", 4), "int"),
          SwitchTo(Two("case_0", 0, "case_1", 2), "int"),
          SwitchTo(Two("default", 0, "case_x", 2), "int"),
          SwitchTo(Two("default", 0, "case_0", 2), "other"),
          SwitchTo(Two("default", 0, "case_0", 2), "i1"),
          SwitchTo(Two("true", 0, "false", 2), "int"),
          SwitchTo(Two("true", 0, "case_0", 2), "i1"),
          SwitchTo(Only("default", 2), "int")}

BlockOf(i, term) == [index |-> i, term |-> term, trailing |-> FALSE]

\* The last block matters by what it is to those before it.
LastTerms ==
  {Plain("none", "unit"), Plain("return", "unit"), Plain("return", "i32"),
   GotoTo(4), GotoTo(Unknown), SwitchTo(Two("default", 4, "case_1", 0), "int")}

ThreeBlocks ==
  {<<BlockOf(Index[1], t), BlockOf(Index[2], u), BlockOf(Index[3], v)>> :
     t, u \in Terms, v \in LastTerms}

\* A terminator with something after it, repeated indices, a single block.
Odd ==
  {<<BlockOf(4, t), [BlockOf(0, u) EXCEPT !.trailing = TRUE]>> :
      t \in {GotoTo(0), Plain("return", "unit")},
      u \in {GotoTo(4), Plain("return", "unit")}}
    \cup {<<BlockOf(4, t), BlockOf(0, t), BlockOf(0, t)>> :
            t \in {GotoTo(0), Plain("return", "unit")}}
    \cup {<<BlockOf(4, t)>> : t \in Terms}

MCPrograms == ThreeBlocks \cup Odd

=============================================================================
