------------------------------ MODULE MCPlaces ------------------------------
(* Five-statement functions over a tuple, a nested tuple, an array, an enum, a *)
(* struct, an enum with one variant, and pointers to them: something is built, *)
(* borrowed or copied, written through, reborrowed, and read.  All those MIR   *)
(* gives a meaning to.                                                         *)
EXTENDS TypedMemory

Pair  == Tuple(<<Scalar, Scalar>>)
Three == Array(Scalar, 3)
Enum  == Adt(<<<<Scalar>>, <<Scalar, Scalar>>>>, <<3, 7>>)
Struct == Adt(<<<<Scalar, Scalar>>>>, <<0>>)
Single == Adt(<<<<Scalar, Pair>>>>, <<5>>)          \* enum Single { A(i32, (i32, i32)) = 5 }

MCTypes ==
    [x |-> Scalar, i |-> Scalar, y |-> Scalar, t |-> Pair, t2 |-> Pair,
     u |-> Tuple(<<Scalar, Pair>>), a |-> Three, e |-> Enum, e2 |-> Enum,
     q |-> Struct, q2 |-> Struct, o |-> Single, r |-> Ref(Scalar), rt |-> Ref(Pair),
     w |-> Raw(Scalar), p |-> Ref(Three), s |-> Ref(SliceOf(Scalar)), s2 |-> Ref(SliceOf(Scalar))]
MCArguments == [x |-> [n |-> 1], i |-> [n |-> 1]]

P(l)    == [local |-> l, proj |-> <<>>]
With(pl, e) == [pl EXCEPT !.proj = Append(@, e)]
F(pl, i) == With(pl, [e |-> "field", i |-> i])
V(pl, v) == With(pl, [e |-> "downcast", v |-> v])
D(pl)   == With(pl, [e |-> "deref"])
X(pl)   == With(pl, [e |-> "index", local |-> "i"])
C(pl, i, end) == With(pl, [e |-> "const", i |-> i, end |-> end])
B(pl, from, to, end) == With(pl, [e |-> "sub", from |-> from, to |-> to, end |-> end])
K(n)    == [n |-> n]

TypeOf(pl) == Materialize(MCTypes, pl).type
TagsOf(t) == IF t.k = "adt" THEN t.tags ELSE <<>>
Set(dest, rv) ==
    [dest |-> dest, rv |-> rv, ty |-> TypeOf(dest),
     tags |-> TagsOf(TypeOf(IF rv.rv = "discriminant" THEN rv.of ELSE dest))]
Rv(kind, of)  == [rv |-> kind, of |-> of]
Use(o)  == Rv("use", o)
Agg(v, os) == [rv |-> "aggregate", variant |-> v, of |-> os]
Repeat(o) == [rv |-> "repeat", of |-> o, n |-> 3]
Sets(l, v) == [dest |-> P(l), sets |-> v, ty |-> MCTypes[l], tags |-> TagsOf(MCTypes[l])]
Move(l, pl) == Set(P(l), Use(pl))
Borrow(l, pl) == Set(P(l), Rv("ref", pl))
Address(l, pl) == Set(P(l), Rv("address_of", pl))

Built == {Set(P("t"), Agg(0, <<P("x"), K(8)>>)), Set(P("a"), Agg(0, <<P("x"), K(8), K(9)>>)),
          Set(P("a"), Repeat(P("x"))), Set(P("e"), Agg(1, <<P("x"), K(8)>>)),
          Set(P("e"), Agg(0, <<K(8)>>)), Set(P("q"), Agg(0, <<P("x"), K(8)>>))}
Taken == {Borrow("r", F(P("t"), 1)), Borrow("rt", P("t")), Borrow("r", X(P("a"))),
          Borrow("r", C(P("a"), 1, TRUE)), Address("w", F(P("t"), 0)),
          Address("w", C(P("a"), 1, FALSE)), Borrow("p", P("a")),
          Borrow("r", F(V(P("e"), 1), 1)), Move("t2", P("t")), Move("e2", P("e")),
          Move("q2", P("q")), Set(F(P("u"), 1), Use(P("t"))),
          Set(P("u"), Agg(0, <<P("x"), P("t")>>)), Borrow("r", F(V(P("q"), 0), 1)),
          Set(F(V(P("e"), 1), 0), Use(K(4))), Sets("e", 0), Sets("e", 1),
          Set(P("o"), Agg(0, <<P("x"), P("t")>>))}
Through == {Set(D(P("r")), Use(K(5))), Set(F(D(P("rt")), 0), Use(K(5))),
            Set(X(D(P("p"))), Use(K(5))), Set(P("s"), Rv("unsize", P("p"))),
            Borrow("s", B(D(P("p")), 1, 3, FALSE)), Set(P("t"), Use(F(P("u"), 1))),
            Move("t2", P("t")), Set(F(P("t"), 0), Use(K(6))), Move("q", P("q2")),
            Set(F(P("q2"), 1), Use(K(6))), Borrow("r", F(D(P("rt")), 1)), Borrow("r", D(P("w"))),
            Set(D(P("w")), Use(K(5))), Address("w", D(P("r"))),
            Set(P("y"), Rv("discriminant", P("e"))), Set(F(V(P("o"), 0), 0), Use(K(5))),
            Borrow("r", F(V(P("o"), 0), 0)), Set(P("t"), Use(F(V(P("o"), 0), 1))), Sets("o", 0)}
Again == {Borrow("s2", B(D(P("s")), 1, 0, TRUE)), Borrow("s2", B(D(P("s")), 0, 1, TRUE)),
          Borrow("s2", B(D(P("s")), 2, 2, FALSE)), Borrow("r", X(D(P("s")))),
          Set(X(D(P("s"))), Use(K(2))), Set(D(P("r")), Use(P("y"))),
          Set(P("y"), Rv("metadata", P("p"))), Move("t", P("t2")), Move("e", P("e2")),
          Set(P("y"), Use(F(P("q"), 1)))}
Reads == {Set(P("y"), Use(D(P("r")))), Set(P("y"), Use(D(P("w")))), Set(P("y"), Use(F(P("t"), 1))),
          Set(P("y"), Rv("len", D(P("s2")))), Set(P("y"), Use(X(D(P("s2"))))),
          Set(P("y"), Use(C(D(P("s")), 0, FALSE))),
          Set(P("y"), Rv("metadata", P("s2"))), Set(P("y"), Rv("discriminant", P("e"))),
          Set(P("y"), Rv("len", P("a"))), Set(P("y"), Use(C(P("a"), 3, TRUE))),
          Set(P("y"), Rv("discriminant", P("q"))), Set(P("y"), Rv("discriminant", P("o"))),
          Set(P("y"), Use(F(V(P("o"), 0), 0)))}

HasMeaning(p) ==
    LET Entry == [l \in DOMAIN MCTypes |->
                     IF l \in DOMAIN MCArguments THEN MCArguments[l] ELSE Blank(MCTypes[l])]
        After(state, st) ==
            IF state # Nowhere /\ Defined(state, st) THEN Execute(state, st) ELSE Nowhere
    IN  FoldLeft(After, Entry, p) # Nowhere

(* Programs of one statement of each set, in order, that MIR gives a meaning to *)
(* and whose every statement works on what an earlier one set.                 *)
Locals(s) == {s.dest.local} \cup
             (IF "rv" \in DOMAIN s THEN {o.local : o \in PlacesOf(s.rv)} ELSE {})
Begun == [code |-> <<>>, set |-> {},
          store |-> [l \in DOMAIN MCTypes |->
               IF l \in DOMAIN MCArguments THEN MCArguments[l] ELSE Blank(MCTypes[l])]]
Extend(ps, ss) ==
    {[code |-> Append(q[1].code, q[2]), set |-> q[1].set \cup ({q[2].dest.local} \ {"y"}),
      store |-> Execute(q[1].store, q[2])] :
        q \in {q \in ps \X ss : /\ q[1].code # <<>> => Locals(q[2]) \cap q[1].set # {}
                                /\ Defined(q[1].store, q[2])}}
MCPrograms ==
    {q.code : q \in Extend(Extend(Extend(Extend(Extend({Begun}, Built),
                        Taken), Taken \cup Through), Through \cup Again), Reads)}
MCPipelines == SUBSET {"sroa", "mem2reg"}
=============================================================================
