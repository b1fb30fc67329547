------------------------------ MODULE MCArith ------------------------------
(* Every well-formed operation on every operand of the two- and three-bit      *)
(* integer types of both signs, on bool, and on floats (in halves, NaN among   *)
(* them) from below the lowest value of each type to above the highest.  A     *)
(* constant's attribute has two bits, so that the three-bit types play the part*)
(* of i128 and the signs of the others.                                        *)
EXTENDS Arith

CONSTANTS Halves, MaxFloat     \* the halves of the types; the floats' bound

IntTypes == [class : {"int"}, signed : BOOLEAN, half : Halves]
F == [class |-> "float", signed |-> TRUE, half |-> 64]
Usize == [class |-> "int", signed |-> FALSE,
          half |-> CHOOSE h \in Halves : \A g \in Halves : g <= h]
Of(t) == Lowest(t)..Highest(t)
FloatValues == [nan : {FALSE}, n : -MaxFloat..MaxFloat] \cup {[nan |-> TRUE, n |-> 0]}
SomeFloats == {f \in FloatValues : f.n \in -2..2}

Op(kind, l, r, u, a, b) ==
    [kind |-> kind, lhs |-> l, rhs |-> r, res |-> u, a |-> a, b |-> b]
FloatOp(kind, r, f, g) ==      \* a field more, so that TLC never orders f and an integer
    [kind |-> kind, lhs |-> F, rhs |-> F, res |-> r, a |-> f, b |-> g, ieee |-> TRUE]
Binary(kinds, l, r, u) ==
    {Op(k, l, r, u, a, b) : k \in kinds, a \in Of(l), b \in Of(r)}

MCOperations == {o \in UNION
    {UNION {Binary(Arithmetic \cup CheckedKinds \cup {"Div", "Rem"}, t, t, t)
            : t \in IntTypes},
     Binary({"BitAnd", "BitOr", "BitXor"}, Bool, Bool, Bool),
     UNION {Binary(Shifts, s, t, s) : s \in IntTypes, t \in IntTypes},
     UNION {Binary(Orders, t, t, Bool) : t \in IntTypes \cup {Bool}},
     {FloatOp(k, Bool, f, g) : k \in Orders, f \in SomeFloats, g \in SomeFloats},
     UNION {{Op(k, t, t, t, a, 0) : k \in {"Neg", "Not", "Const"}, a \in Of(t)}
            : t \in IntTypes \cup {Bool}},
     {FloatOp("Neg", F, f, f) : f \in SomeFloats},
     UNION {{Op("IntToInt", s, s, t, a, 0) : a \in Of(s)}
            : s \in IntTypes \cup {Bool}, t \in IntTypes},
     {FloatOp("FloatToInt", t, f, f) : f \in FloatValues, t \in IntTypes},
     UNION {{Op("IntToFloat", s, s, F, a, 0) : a \in Of(s)} : s \in IntTypes},
     [kind : {"Range"}, lhs : {Usize}, rhs : {Usize}, res : {Usize},
      a : Of(Usize), b : Of(Usize), form : RangeForms, len : Of(Usize)],
     {Op(k, Usize, Usize, Usize, 0, 0) : k \in Refused}} : WellFormed(o)}
=============================================================================
