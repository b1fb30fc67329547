----------------------------- MODULE MCFuncDecls -----------------------------
(* Two functions that use each other, one from elsewhere and a symbol that is  *)
(* no function, rightly or wrongly; signatures with arguments out of order,    *)
(* with no result, with a result that is never reached.                        *)
EXTENDS FuncDecls

MCRepresented ==
    [i32 |-> "i32", u32 |-> "i32", i64 |-> "i64", unit |-> "struct", never |-> "struct"]

Local(i, role, t) == [index |-> i, role |-> role, type |-> t]
Signatures ==
    {[locals |-> <<Local(0, "ret", "i32")>>, ret |-> "i32", returns |-> TRUE],
     [locals |-> <<Local(0, "ret", "i32")>>, ret |-> "i32", returns |-> FALSE],
     [locals |-> <<Local(0, "ret", "never"), Local(1, "arg", "u32")>>,
      ret |-> "never", returns |-> FALSE],
     [locals |-> <<Local(2, "arg", "i64"), Local(0, "ret", "i32"), Local(3, "tmp", "i32"),
                   Local(1, "arg", "i32")>>, ret |-> "i32", returns |-> TRUE]}
Expectations ==
    {[ins |-> <<>>, dest |-> "u32"], [ins |-> <<"i32">>, dest |-> "unit"],
     [ins |-> <<"i32", "i64">>, dest |-> "i32"]}
MCUses ==
    {[kind |-> "call", callee |-> c, ins |-> e.ins, dest |-> e.dest] :
        c \in {"f", "g", "ext"}, e \in Expectations}
    \cup {[kind |-> "call", callee |-> "global", ins |-> <<>>, dest |-> "unit"]}
    \cup {[kind |-> "addr", callee |-> c, ins |-> <<"i32">>, dest |-> "unit"] : c \in {"g", "ext"}}

Func(name, s, uses) ==
    [name |-> name, locals |-> s.locals, ret |-> s.ret, returns |-> s.returns, uses |-> uses]
MCPrograms ==
    {[funcs |-> <<Func("f", s, a), Func("g", t, b)>>, others |-> {"global"}] :
        s \in Signatures, t \in Signatures, a \in SeqOf(MCUses, 2), b \in SeqOf(MCUses, 1)}
=============================================================================
