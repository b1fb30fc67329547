--------------------------- MODULE MCSwitchTargets --------------------------
(* Words of three bits, discriminators up to two bits wider, and every      *)
(* switch with at most two branches.                                        *)
EXTENDS SwitchTargets, FiniteSets

MCWordBits == 3
MCWidths == {1, 2, 3, 5}
MCModulus == [w \in MCWidths |-> 2^w]
MCTarget == {"a", "b", "c"}

MCSwitches ==
  UNION {
    {[width |-> w, otherwise |-> "c",
      branches |-> [v \in {u, x} |-> IF v = u THEN "a" ELSE "b"]] :
        u, x \in 0..(MCModulus[w] - 1)} : w \in MCWidths}
  \cup {[width |-> w, otherwise |-> "c", branches |-> [v \in {} |-> "a"]] :
          w \in MCWidths}

=============================================================================
