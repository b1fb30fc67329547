------------------------------ MODULE ArithOps ------------------------------
(* The registers of the arith dialect and the sequences RustTypedToArith emits *)
(* on them.  A register of w bits holds 0..2^w-1 and has no sign; h is its     *)
(* half, 2^(w-1), so that every definition is about every width at once.       *)
EXTENDS RustOps

CONSTANT AttrHalf     \* the half of the attribute a constant's value is kept in: i64's

Sgn(x, h) == IF x < h THEN x ELSE x - 2 * h     \* the register read as signed
Reg(n, h) == n % (2 * h)                        \* an integer truncated to it

Encode(v, t) == IF t.class = "float" THEN v ELSE Reg(v, t.half)
Decode(x, t) == IF t.class = "int" /\ t.signed THEN Sgn(x, t.half) ELSE x

Negative(x, h) == Sgn(x, h) < 0                                 \* cmpi slt, 0
(* The sign of ((x ^ v) & (y ^ v)): v's sign differs from both.                *)
SignsDiffer(x, v, y, w, h) ==
    Negative(x, h) # Negative(v, h) /\ Negative(y, h) # Negative(w, h)

(* cmpi with the predicate of a sign; cmpf, ordered but for une.               *)
CmpI(kind, signed, x, y, h) ==
    IF signed THEN Ordered(kind, Sgn(x, h), Sgn(y, h)) ELSE Ordered(kind, x, y)
CmpF(kind, f, g) ==
    IF kind = "Ne" THEN f.nan \/ g.nan \/ f.n # g.n
    ELSE ~f.nan /\ ~g.nan /\ Ordered(kind, f.n, g.n)

(* replaceCheckedAdd, replaceCheckedSub, replaceCheckedMul: the value and the  *)
(* flag; the flag feeds a cf.assert, so that a set one aborts.                 *)
CheckedAdd(signed, x, y, h) ==
    LET v == Reg(x + y, h)
    IN  [v |-> v, overflow |-> IF signed THEN SignsDiffer(x, v, y, v, h)
                               ELSE x + y >= 2 * h]

\* Mutant: the overflow of a subtraction tested with the signs of an addition.
CheckedSubBySumSigns(signed, x, y, h) ==
    LET v == Reg(x - y, h)
    IN  [v |-> v, overflow |-> IF signed THEN SignsDiffer(x, v, y, v, h) ELSE x < y]

CheckedSub(signed, x, y, h) ==
    LET v == Reg(x - y, h)
    IN  [v |-> v, overflow |-> IF signed THEN SignsDiffer(x, y, x, v, h)
                               ELSE x < y]
CheckedMul(signed, x, y, h) ==
    LET product == IF signed THEN Sgn(x, h) * Sgn(y, h) ELSE x * y
        low     == Reg(product, h)
        high    == Reg(product \div (2 * h), h)
        fill    == IF Negative(low, h) THEN 2 * h - 1 ELSE 0  \* low >>s (w-1)
    IN  [v |-> low, overflow |-> high # (IF signed THEN fill ELSE 0)]

Asserted(checked) == IF checked.overflow THEN Panic ELSE Value(checked.v)

(* createSaturatingFloatToIntCast: two thresholds, a safe input, three selects.*)
FloatToInt(signed, f, h) ==
    LET lowest  == IF signed THEN -h ELSE 0
        bound   == IF signed THEN h ELSE 2 * h
        tooLow  == ~f.nan /\ f.n <= 2 * lowest
        tooHigh == ~f.nan /\ f.n >= 2 * bound
        safe    == IF f.nan \/ tooLow \/ tooHigh THEN 0 ELSE f.n
        cast    == Reg(Quotient(safe, 2), h)          \* fptosi, fptoui
    IN  IF f.nan THEN 0
        ELSE IF tooHigh THEN Reg(bound - 1, h)
        ELSE IF tooLow THEN Reg(lowest, h) ELSE cast

(* castIntegerToType and IntCast: the sign that extends is the input's.        *)
CastInt(signed, x, h, out) ==
    IF h < out THEN Reg(IF signed THEN Sgn(x, h) ELSE x, out) ELSE Reg(x, out)

InAttr(n) == -AttrHalf <= n /\ n < AttrHalf

\* Mutant: the negated literal keeps the sign that its width has no bit for.
LiteralNotCut(n, h) ==
    LET size == Reg(Magnitude(n), h)
    IN  IF InAttr(n) THEN Reg(Reg(n, AttrHalf), h)
        ELSE IF n < 0 THEN -size ELSE size

(* buildIntegerAttr: the attribute, where the extractor could make one, is     *)
(* extended with zeros or cut; a literal is read without its sign, cut to the  *)
(* width, and then negated in it.                                              *)
Literal(n, h) ==
    LET size == Reg(Magnitude(n), h)
    IN  IF InAttr(n) THEN Reg(Reg(n, AttrHalf), h)
        ELSE IF n < 0 THEN Reg(-size, h) ELSE size

\* Mutant: an inclusive range made exclusive first, with an end + 1 that wraps.
RangeCodeMadeExclusive(form, x, y, len, h) ==
    LET Le(p, q) == CmpI("Le", FALSE, p, q, h)
        Sub(p, q) == Reg(p - q, h)
        end == IF form \in {"FromToInclusive", "ToInclusive"} THEN Reg(y + 1, h) ELSE y
        Checked(ok, s, n) == IF ok THEN Slice(s, n) ELSE Panic
    IN  CASE form = "Full" -> Slice(0, len)
          [] form \in {"FromTo", "FromToInclusive"} ->
                Checked(Le(x, y) /\ Le(end, len), x, Sub(end, x))
          [] form = "From" -> Checked(Le(x, len), x, Sub(len, x))
          [] OTHER         -> Checked(Le(end, len), 0, end)

(* lowerRangeIndexCall on usize registers: the comparisons it asserts, then    *)
(* the first element and the length that slice_range builds its pointer from.  *)
RangeCode(form, x, y, len, h) ==
    LET Le(p, q) == CmpI("Le", FALSE, p, q, h)
        Lt(p, q) == CmpI("Lt", FALSE, p, q, h)
        Sub(p, q) == Reg(p - q, h)
        Inc(p) == Reg(p + 1, h)
        Checked(ok, s, n) == IF ok THEN Slice(s, n) ELSE Panic
    IN  CASE form = "Full"   -> Slice(0, len)
          [] form = "FromTo" -> Checked(Le(x, y) /\ Le(y, len), x, Sub(y, x))
          [] form = "From"   -> Checked(Le(x, len), x, Sub(len, x))
          [] form = "To"     -> Checked(Le(y, len), 0, y)
          [] form = "FromToInclusive" ->
                Checked(Le(x, y) /\ Lt(y, len), x, Inc(Sub(y, x)))
          [] form = "ToInclusive" -> Checked(Lt(y, len), 0, Inc(y))

(* One instruction, or the sequence a pattern emits, on the registers x and y. *)
(* c.half is the width it works at, c.out the width of its result.             *)
Run(c, x, y) ==
    LET h == c.half
    IN  CASE c.ins = "addi"  -> Value(Reg(x + y, h))
          [] c.ins = "subi"  -> Value(Reg(x - y, h))
          [] c.ins = "muli"  -> Value(Reg(x * y, h))
          [] c.ins = "bits"  -> Value(Bitwise(c.kind, x, y, h))
          [] c.ins = "shli"  -> Value(Reg(x * 2^y, h))
          [] c.ins = "div"   -> Value(IF c.signed
                                      THEN Reg(Quotient(Sgn(x, h), Sgn(y, h)), h)
                                      ELSE x \div y)
          [] c.ins = "rem"   -> Value(IF c.signed
                                      THEN Reg(Remainder(Sgn(x, h), Sgn(y, h)), h)
                                      ELSE x % y)
          [] c.ins = "shr"   -> Value(IF c.signed THEN Reg(Sgn(x, h) \div 2^y, h)
                                      ELSE x \div 2^y)
          [] c.ins = "cmpi"  -> Value(Truth(CmpI(c.kind, c.signed, x, y, h)))
          [] c.ins = "cmpf"  -> Value(Truth(CmpF(c.kind, x, y)))
          [] c.ins = "add checked" -> Asserted(CheckedAdd(c.signed, x, y, h))
          [] c.ins = "sub checked" -> Asserted(CheckedSub(c.signed, x, y, h))
          [] c.ins = "mul checked" -> Asserted(CheckedMul(c.signed, x, y, h))
          [] c.ins = "neg"   -> Value(Reg(0 - x, h))
          [] c.ins = "negf"  -> Value([x EXCEPT !.n = -@])
          [] c.ins = "not"   -> Value((2 * h - 1) - x)      \* xori, all ones
          [] c.ins = "const" -> Value(Literal(c.literal, h))
          [] c.ins = "cast"  -> Value(CastInt(c.signed, x, h, c.out))
          [] c.ins = "fptoi" -> Value(FloatToInt(c.signed, x, h))
          [] c.ins = "itofp" -> Value(FromInt(IF c.signed THEN Sgn(x, h) ELSE x))
          [] c.ins = "range" -> RangeCode(c.form, x, y, c.len, h)
=============================================================================
