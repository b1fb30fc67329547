------------------------------- MODULE Arith -------------------------------
(* One scalar operation on its way through the compiler: LiftTypedMIR gives it *)
(* a typed operation, RustTypedToArith matches a pattern on the converted      *)
(* types and emits arith code, and the code runs on registers.  The converted  *)
(* types have lost their signs, so each pattern asks a Rust type for it; which *)
(* type it asks, and when the pattern matches, is what this module follows.    *)
EXTENDS ArithOps

CONSTANT Operations

(* The operations are those rustc writes. *)
ASSUME OperationsAssumption == \A o \in Operations : WellFormed(o)

(* The attribute has a width as the integer types do. *)
ASSUME AttributeAssumption == AttrHalf \in Nat \ {0} /\ PowerOfTwo(AttrHalf)

VARIABLES
    op,       \* the MIR operation, with its operands
    stage,    \* "mir", "typed", "arith", "done"; "refused" (lifting) or "left"
    code,     \* what was emitted for it
    result    \* what the code yielded

vars == <<op, stage, code, result>>

NoCode == [ins |-> "none"]
Pending == [ends |-> "pending"]

Init ==
    /\ op \in Operations
    /\ stage = "mir" /\ code = NoCode /\ result = Pending

(* createTypedBinaryOp, createTypedUnaryOp and the casts of lowerAssign. *)
Lift ==
    /\ stage = "mir"
    /\ stage' = IF op.kind \in Refused THEN "refused" ELSE "typed"
    /\ UNCHANGED <<op, code, result>>

(* The converted types: a sign is not part of them. *)
SameInt(s, t)   == s.class = "int" /\ t.class = "int" /\ s.half = t.half
SameFloat(s, t) == s.class = "float" /\ t.class = "float" /\ s.half = t.half

LowerableBinary == SameInt(op.lhs, op.rhs) /\ SameInt(op.lhs, op.res)

\* Mutant: a comparison asked for a result of its operands' type.
LowerableCompareOfOneType == SameInt(op.lhs, op.rhs) /\ SameInt(op.lhs, op.res)

LowerableCompare == SameInt(op.lhs, op.rhs) /\ SameInt(op.res, Bool)
LowerableFloatCompare == SameFloat(op.lhs, op.rhs) /\ SameInt(op.res, Bool)

Emit(c) ==
    /\ stage = "typed"
    /\ code' = c
    /\ stage' = "arith"
    /\ UNCHANGED <<op, result>>

Plain(ins) == [ins |-> ins, half |-> op.lhs.half]
BySign(ins, t) == [ins |-> ins, half |-> op.lhs.half, signed |-> t.signed]

SimpleBinary ==
    [Add |-> "addi", AddUnchecked |-> "addi", Sub |-> "subi", SubUnchecked |-> "subi",
     Mul |-> "muli", MulUnchecked |-> "muli", Shl |-> "shli", ShlUnchecked |-> "shli"]

(* The amount of a shift reaches shli as it is: SimpleBinaryOpConversion does  *)
(* not mask it.                                                                *)
ConvertSimpleBinary ==
    /\ LowerableBinary
    /\ \/ op.kind \in DOMAIN SimpleBinary /\ Emit(Plain(SimpleBinary[op.kind]))
       \/ /\ op.kind \in {"BitAnd", "BitOr", "BitXor"}
          /\ Emit([ins |-> "bits", half |-> op.lhs.half, kind |-> op.kind])

ConvertDiv == op.kind = "Div" /\ LowerableBinary /\ Emit(BySign("div", op.lhs))
ConvertRem == op.kind = "Rem" /\ LowerableBinary /\ Emit(BySign("rem", op.lhs))
ConvertShr ==
    /\ op.kind \in {"Shr", "ShrUnchecked"}
    /\ LowerableBinary
    /\ Emit(BySign("shr", op.lhs))

ConvertCompare ==
    /\ op.kind \in Orders
    /\ LowerableCompare
    /\ Emit([ins |-> "cmpi", half |-> op.lhs.half, signed |-> op.lhs.signed,
             kind |-> op.kind])

ConvertFloatCompare ==
    /\ op.kind \in Orders
    /\ LowerableFloatCompare
    /\ Emit([ins |-> "cmpf", half |-> op.lhs.half, kind |-> op.kind])

CheckedName ==
    [CheckedAdd |-> "add checked", CheckedSub |-> "sub checked",
     CheckedMul |-> "mul checked"]
ConvertChecked ==
    /\ op.kind \in CheckedKinds
    /\ LowerableBinary
    /\ Emit(BySign(CheckedName[op.kind], op.lhs))

ConvertNeg == op.kind = "Neg" /\ SameInt(op.lhs, op.res) /\ Emit(Plain("neg"))
ConvertFloatNeg == op.kind = "Neg" /\ SameFloat(op.lhs, op.res) /\ Emit(Plain("negf"))
ConvertNot == op.kind = "Not" /\ SameInt(op.lhs, op.res) /\ Emit(Plain("not"))

ConvertConst ==
    /\ op.kind = "Const" /\ op.res.class = "int"
    /\ Emit([ins |-> "const", half |-> op.res.half, literal |-> op.a])

\* Mutant: the sign that extends is the one of the type that is cast to.
ConvertIntCastByResult ==
    /\ op.kind = "IntToInt" /\ op.lhs.class = "int" /\ op.res.class = "int"
    /\ Emit([ins |-> "cast", half |-> op.lhs.half, out |-> op.res.half,
             signed |-> op.res.signed])

ConvertIntCast ==
    /\ op.kind = "IntToInt" /\ op.lhs.class = "int" /\ op.res.class = "int"
    /\ Emit([ins |-> "cast", half |-> op.lhs.half, out |-> op.res.half,
             signed |-> op.lhs.signed])

ConvertFloatToInt ==
    /\ op.kind = "FloatToInt" /\ op.lhs.class = "float" /\ op.res.class = "int"
    /\ Emit([ins |-> "fptoi", half |-> op.res.half, signed |-> op.res.signed])

ConvertIntToFloat ==
    /\ op.kind = "IntToFloat" /\ op.lhs.class = "int" /\ op.res.class = "float"
    /\ Emit(BySign("itofp", op.lhs))

(* The operations lowerRangeIndexCall creates, each by the patterns above. *)
ConvertRange ==
    /\ op.kind = "Range"
    /\ Emit([ins |-> "range", half |-> op.lhs.half, form |-> op.form, len |-> op.len])

Convert ==
    \/ ConvertSimpleBinary \/ ConvertDiv \/ ConvertRem \/ ConvertShr
    \/ ConvertCompare \/ ConvertFloatCompare \/ ConvertChecked
    \/ ConvertNeg \/ ConvertFloatNeg \/ ConvertNot \/ ConvertConst
    \/ ConvertIntCast \/ ConvertFloatToInt \/ ConvertIntToFloat \/ ConvertRange

(* No pattern matches: the operation stays legal and goes on unlowered. *)
Matched ==
    \/ /\ op.kind \in Arithmetic \cup Shifts \cup CheckedKinds \cup {"Div", "Rem"}
       /\ LowerableBinary
    \/ op.kind \in Orders /\ (LowerableCompare \/ LowerableFloatCompare)
    \/ op.kind \in {"Neg", "Not"} /\ SameInt(op.lhs, op.res)
    \/ op.kind = "Neg" /\ SameFloat(op.lhs, op.res)
    \/ op.kind = "Const" /\ op.res.class = "int"
    \/ <<op.kind, op.lhs.class, op.res.class>> \in
           {<<"IntToInt", "int", "int">>, <<"FloatToInt", "float", "int">>,
            <<"IntToFloat", "int", "float">>}
    \/ op.kind = "Range"
Leave ==
    /\ stage = "typed" /\ ~Matched
    /\ stage' = "left"
    /\ UNCHANGED <<op, code, result>>

Execute ==
    /\ stage = "arith"
    /\ result' = Run(code, Encode(op.a, op.lhs), Encode(op.b, op.rhs))
    /\ stage' = "done"
    /\ UNCHANGED <<op, code>>

Next == Lift \/ Convert \/ Leave \/ Execute

Spec == Init /\ [][Next]_vars

(***************************************************************************)
(* Properties *)

(* What the code yields, read as a value of the operation's result type. *)
Read(r, t) == IF r.ends = "value" THEN Value(Decode(r.v, t)) ELSE r
Seen == Read(result, op.res)

(* A negative constant of a type wider than the attribute that holds it: the   *)
(* attribute is extended with zeros, and -1i128 becomes 2^64 - 1.              *)
Misread(o) ==
    o.kind = "Const" /\ o.a < 0 /\ InAttr(o.a) /\ AttrHalf < o.res.half

Outcome == IF stage = "done" /\ ~Misread(op) THEN Seen ELSE Pending

R == INSTANCE RustArith
        WITH Operation <- WellFormed, Meaning <- Meaning, Pending <- Pending,
             op <- op, outcome <- Outcome

(* Every operation that gets through the patterns yields, at its width and     *)
(* with its signs lost on the way, exactly what MIR says it means: the lowering*)
(* implements RustArith.  Misread constants, which do not, are left out.       *)
KeepsRustMeaning == R!Spec

(* The stages, and registers that hold what their width can. *)
TypeOK ==
    /\ WellFormed(op)
    /\ stage \in {"mir", "refused", "typed", "left", "arith", "done"}
    /\ (code = NoCode) <=> stage \notin {"arith", "done"}
    /\ (result = Pending) <=> stage # "done"
    /\ result.ends = "value" /\ op.res.class = "int" =>
           result.v \in 0..(2 * op.res.half - 1)

(* A checked operation aborts exactly when the mathematical result does not    *)
(* fit the type, and otherwise yields it: the sign tests, the carry, and the   *)
(* comparison of the high half with the fill of the low half's sign.           *)
CheckedExact ==
    stage = "done" /\ op.kind \in CheckedKinds =>
        IF Fits(Exact(op.kind, op.a, op.b), op.res)
        THEN result.ends = "value"
                /\ Decode(result.v, op.res) = Exact(op.kind, op.a, op.b)
        ELSE result = Panic

(* A slice made by range indexing never reaches past its receiver: no bound    *)
(* wraps and no length is computed from bounds that were not compared first,   *)
(* not at 0, at the length or at the largest usize.                            *)
SliceInside ==
    stage = "done" /\ result.ends = "slice" =>
        /\ result.start >= 0 /\ result.len >= 0
        /\ result.start + result.len <= op.len

(* The only well-typed operation the patterns leave behind is a shift whose    *)
(* amount has another width than the value it shifts.                          *)
OnlyMixedShiftsLeft ==
    stage = "left" => op.kind \in Shifts /\ op.rhs.half # op.lhs.half
=============================================================================
