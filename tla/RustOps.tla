------------------------------ MODULE RustOps ------------------------------
(* What MIR promises of a scalar operation, in mathematical integers: the      *)
(* wrapping of integer types, truncating division, saturating casts, NaN in    *)
(* comparisons, the panics of overflow checks and of slice ranges.  Nothing    *)
(* here mentions a register; ArithOps has the lowering, Arith relates the two. *)
EXTENDS Integers

(* A type is [class, signed, half]: an integer, bool or char of w bits has     *)
(* class "int" and half = 2^(w-1) (bool: 1, unsigned); a float has class       *)
(* "float" and its width in half.                                              *)
Bool == [class |-> "int", signed |-> FALSE, half |-> 1]

Lowest(t)  == IF t.signed THEN -t.half ELSE 0
Highest(t) == IF t.signed THEN t.half - 1 ELSE 2 * t.half - 1

(* The value of t congruent to n. *)
Wrapped(n, t) == ((n - Lowest(t)) % (2 * t.half)) + Lowest(t)

Fits(n, t) == Lowest(t) <= n /\ n <= Highest(t)

(* Division that truncates towards zero, and the remainder with the sign of    *)
(* the dividend.                                                               *)
Magnitude(n) == IF n < 0 THEN -n ELSE n
Quotient(a, b) ==
    IF (a < 0) = (b < 0) THEN Magnitude(a) \div Magnitude(b)
    ELSE -(Magnitude(a) \div Magnitude(b))
Remainder(a, b) == a - b * Quotient(a, b)

(* The bits of a value, each the power of two it stands for: half's divisors.  *)
(* A signed value stands for its two's complement.                             *)
Unsigned(n, half) == n % (2 * half)
OfUnsigned(n, t)  == IF t.signed /\ ~(n < t.half) THEN n - 2 * t.half ELSE n
Bits(n, half) == {p \in 1..half : half % p = 0 /\ (n \div p) % 2 = 1}
OfBits(B, half) == CHOOSE n \in 0..(2 * half - 1) : Bits(n, half) = B
Bitwise(kind, m, n, half) ==
    LET X == Bits(m, half)
        Y == Bits(n, half)
    IN  OfBits(CASE kind = "BitAnd" -> X \cap Y
                 [] kind = "BitOr"  -> X \cup Y
                 [] OTHER           -> (X \cup Y) \ (X \cap Y), half)

(* A float is [nan, n]: n counts halves, so that casts have a fraction to cut. *)
FromInt(n) == [nan |-> FALSE, n |-> 2 * n]

Orders == {"Eq", "Ne", "Lt", "Le", "Gt", "Ge"}
Ordered(kind, a, b) ==
    CASE kind = "Eq" -> a = b  [] kind = "Ne" -> a # b
      [] kind = "Lt" -> a < b  [] kind = "Le" -> a <= b
      [] kind = "Gt" -> a > b  [] kind = "Ge" -> a >= b
FloatOrdered(kind, a, b) ==
    IF a.nan \/ b.nan THEN kind = "Ne" ELSE Ordered(kind, a.n, b.n)

Truth(p) == IF p THEN 1 ELSE 0

(* An outcome is a value, a subslice (first element and length), or a panic.   *)
Value(v)    == [ends |-> "value", v |-> v]
Slice(s, n) == [ends |-> "slice", start |-> s, len |-> n]
Panic       == [ends |-> "panic"]

(* A float cast to an integer type: NaN is 0, what does not fit saturates.     *)
Saturated(f, t) ==
    LET n == Quotient(f.n, 2)
    IN  IF f.nan THEN 0
        ELSE IF n < Lowest(t) THEN Lowest(t)
        ELSE IF n > Highest(t) THEN Highest(t) ELSE n

Exact(kind, a, b) ==
    CASE kind = "CheckedAdd" -> a + b
      [] kind = "CheckedSub" -> a - b
      [] kind = "CheckedMul" -> a * b

(* Indexing a slice of o.len elements by a range from o.a to o.b: the bounds   *)
(* core::slice::index checks.  The one departure from core is the empty        *)
(* inclusive range s[n+1..=n], which core accepts and the lowering refuses:    *)
(* Ranged follows the lowering there, and README says so.                      *)
RangeForms == {"Full", "FromTo", "From", "To", "FromToInclusive", "ToInclusive"}
Ranged(o) ==
    LET first == IF o.form \in {"FromTo", "From", "FromToInclusive"} THEN o.a ELSE 0
        past  == CASE o.form \in {"FromTo", "To"} -> o.b
                   [] o.form \in {"FromToInclusive", "ToInclusive"} -> o.b + 1
                   [] OTHER -> o.len
        empty == o.form = "FromToInclusive" /\ first = past
    IN  IF first > past \/ past > o.len \/ empty THEN Panic
        ELSE Slice(first, past - first)

(* An operation is [kind, lhs, rhs, res, a, b]: the types of its operands and  *)
(* of its result, and the operands.  A checked operation is the pair of        *)
(* rustc's checked operation and the assertion that follows it.                *)
CheckedKinds == {"CheckedAdd", "CheckedSub", "CheckedMul"}
Meaning(o) ==
    CASE o.kind \in {"Add", "AddUnchecked"} -> Value(Wrapped(o.a + o.b, o.res))
      [] o.kind \in {"Sub", "SubUnchecked"} -> Value(Wrapped(o.a - o.b, o.res))
      [] o.kind \in {"Mul", "MulUnchecked"} -> Value(Wrapped(o.a * o.b, o.res))
      [] o.kind = "Div" -> Value(Quotient(o.a, o.b))
      [] o.kind = "Rem" -> Value(Remainder(o.a, o.b))
      [] o.kind \in {"BitAnd", "BitOr", "BitXor"} ->
            Value(OfUnsigned(Bitwise(o.kind, Unsigned(o.a, o.lhs.half),
                                     Unsigned(o.b, o.lhs.half), o.lhs.half), o.res))
      [] o.kind \in {"Shl", "ShlUnchecked"} -> Value(Wrapped(o.a * 2^o.b, o.res))
      [] o.kind \in {"Shr", "ShrUnchecked"} -> Value(o.a \div 2^o.b)
      [] o.kind \in Orders ->
            Value(Truth(IF o.lhs.class = "float" THEN FloatOrdered(o.kind, o.a, o.b)
                        ELSE Ordered(o.kind, o.a, o.b)))
      [] o.kind \in CheckedKinds ->
            (IF Fits(Exact(o.kind, o.a, o.b), o.res)
             THEN Value(Exact(o.kind, o.a, o.b)) ELSE Panic)
      [] o.kind = "Neg" ->
            Value(IF o.lhs.class = "float" THEN [o.a EXCEPT !.n = -@]
                  ELSE Wrapped(-o.a, o.res))
      [] o.kind = "Not" -> Value(Wrapped(-1 - o.a, o.res))
      [] o.kind = "Const" -> Value(o.a)
      [] o.kind = "IntToInt" -> Value(Wrapped(o.a, o.res))
      [] o.kind = "FloatToInt" -> Value(Saturated(o.a, o.res))
      [] o.kind = "IntToFloat" -> Value(FromInt(o.a))
      [] o.kind = "Range" -> Ranged(o)

(* The operations rustc writes: well typed, with their operands in range, and  *)
(* after the assertions rustc puts before them (a divisor that is not zero, a  *)
(* shift amount below the width: 2^b <= half).  An operation built without     *)
(* overflow checks may shift by more: MIR then masks the amount, which the     *)
(* lowering does not do, and nothing is said of it here.                       *)
PowerOfTwo(n) == \A d \in 2..n : n % d = 0 => d % 2 = 0
IntType(t)    == /\ t.class = "int" /\ t.signed \in BOOLEAN
                 /\ t.half \in Nat \ {0} /\ PowerOfTwo(t.half)
InType(v, t)  == v \in Int /\ Fits(v, t)
FloatType(t)  == t.class = "float"
IsFloat(f)    == f.nan \in BOOLEAN /\ f.n \in Int
Ints(o)       == /\ IntType(o.lhs) /\ o.rhs = o.lhs
                 /\ InType(o.a, o.lhs) /\ InType(o.b, o.lhs)
Floats(o)     == FloatType(o.lhs) /\ o.rhs = o.lhs /\ IsFloat(o.a) /\ IsFloat(o.b)
Arithmetic    == {"Add", "AddUnchecked", "Sub", "SubUnchecked", "Mul",
                  "MulUnchecked", "BitAnd", "BitOr", "BitXor"}
Shifts        == {"Shl", "ShlUnchecked", "Shr", "ShrUnchecked"}
Refused       == {"Offset", "Cmp"}       \* binary operations lifting has no case for

WellFormed(o) ==
    \/ o.kind \in Arithmetic \cup CheckedKinds /\ Ints(o) /\ o.res = o.lhs
    \/ /\ o.kind \in {"Div", "Rem"} /\ Ints(o) /\ o.res = o.lhs
       /\ o.b # 0
       /\ ~(o.lhs.signed /\ o.a = Lowest(o.lhs) /\ o.b = -1)
    \/ /\ o.kind \in Shifts /\ IntType(o.lhs) /\ IntType(o.rhs) /\ o.res = o.lhs
       /\ InType(o.a, o.lhs) /\ InType(o.b, o.rhs)
       /\ o.b >= 0 /\ 2^o.b \in 1..o.lhs.half
    \/ o.kind \in Orders /\ (Ints(o) \/ Floats(o)) /\ o.res = Bool
    \/ /\ o.kind \in {"Neg", "Not"} /\ o.res = o.lhs
       /\ \/ IntType(o.lhs) /\ InType(o.a, o.lhs)
          \/ o.kind = "Neg" /\ FloatType(o.lhs) /\ IsFloat(o.a)
    \/ o.kind = "Const" /\ IntType(o.res) /\ InType(o.a, o.res)
    \/ /\ o.kind = "IntToInt" /\ IntType(o.lhs) /\ IntType(o.res)
       /\ InType(o.a, o.lhs)
    \/ /\ o.kind = "FloatToInt" /\ FloatType(o.lhs) /\ IntType(o.res)
       /\ IsFloat(o.a)
    \/ /\ o.kind = "IntToFloat" /\ IntType(o.lhs) /\ FloatType(o.res)
       /\ InType(o.a, o.lhs)
    \/ /\ o.kind = "Range" /\ Ints(o) /\ ~o.lhs.signed /\ o.form \in RangeForms
       /\ InType(o.len, o.lhs)
    \/ o.kind \in Refused
=============================================================================
