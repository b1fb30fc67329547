------------------------------ MODULE MirPlaces ------------------------------
(* MIR's places and rvalues on structured values: what a statement does to the *)
(* locals of a function, with no notion of slot, address or layout.            *)
EXTENDS Integers, Sequences, SequencesExt

(* Types.  An adt lists, per variant, its field types and its discriminant.    *)
Scalar         == [k |-> "int"]
Tuple(ts)      == [k |-> "tuple", elems |-> ts]
Array(t, n)    == [k |-> "array", elem |-> t, n |-> n]
Adt(vs, ds)    == [k |-> "adt", variants |-> vs, tags |-> ds]
Ref(t)         == [k |-> "ref", to |-> t]
Raw(t)         == [k |-> "raw", to |-> t]
SliceOf(t)     == [k |-> "slice", elem |-> t]
NoType         == [k |-> "none"]

(* Values.  An aggregate keeps, for each of its variants, the fields written   *)
(* there; a path is a sequence of <<variant, field>> steps into one.           *)
N(n)           == [n |-> n]
Uninit         == [uninit |-> TRUE]
Aggregate(v, parts) == [variant |-> v, parts |-> parts]
RECURSIVE Blank(_)
Fields(ts)     == [i \in DOMAIN ts |-> Blank(ts[i])]
Blank(t) ==
    CASE t.k = "tuple" -> Aggregate(0, <<Fields(t.elems)>>)
      [] t.k = "array" -> Aggregate(0, <<[i \in 1..t.n |-> Blank(t.elem)]>>)
      [] t.k = "adt"   -> Aggregate(IF Len(t.variants) = 1 THEN 0 ELSE -1,
                                    [v \in DOMAIN t.variants |-> Fields(t.variants[v])])
      [] OTHER         -> Uninit

RECURSIVE At(_, _), Put(_, _, _)
At(value, path) ==
    IF path = <<>> THEN value
    ELSE At(value.parts[Head(path)[1] + 1][Head(path)[2] + 1], Tail(path))
Put(value, path, new) ==
    IF path = <<>> THEN new
    ELSE LET v == Head(path)[1] + 1
             f == Head(path)[2] + 1
         IN  [value EXCEPT !.parts[v][f] = Put(@, Tail(path), new)]

(* A location is a path into a local; a slice is a run of elements of the      *)
(* array at its path.  Nowhere is what an undefined place denotes.             *)
Location(l, p)        == [local |-> l, path |-> p]
Elems(l, p, first, len) == [local |-> l, path |-> p, first |-> first, len |-> len]
Nowhere               == [nowhere |-> TRUE]
IsRun(loc)            == "len" \in DOMAIN loc

Elements(store, loc) ==       \* how many elements an indexed location has
    IF IsRun(loc) THEN loc.len ELSE Len(At(store[loc.local], loc.path).parts[1])
Element(store, loc, i) ==
    IF i \notin 0..(Elements(store, loc) - 1) THEN Nowhere
    ELSE Location(loc.local,
                  Append(loc.path, <<0, i + (IF IsRun(loc) THEN loc.first ELSE 0)>>))

(* One projection element: here.at is a location, here.variant the variant the *)
(* last downcast selected.                                                     *)
Project(store, here, e) ==
    LET loc == here.at
        To(l) == [at |-> l, variant |-> 0]
    IN  IF loc = Nowhere THEN here
        ELSE CASE e.e = "downcast" -> [here EXCEPT !.variant = e.v]
               [] e.e = "field" ->
                    To(Location(loc.local, Append(loc.path, <<here.variant, e.i>>)))
               [] e.e = "deref" ->
                    LET p == At(store[loc.local], loc.path)
                    IN  To(IF p = Uninit THEN Nowhere ELSE p)
               [] e.e = "index" ->
                    To(IF store[e.local] = Uninit THEN Nowhere
                       ELSE Element(store, loc, store[e.local].n))
               [] e.e = "const" ->
                    To(Element(store, loc,
                               IF e.end THEN Elements(store, loc) - e.i ELSE e.i))
               [] e.e = "sub" ->
                    LET all  == Elements(store, loc)
                        last == IF e.end THEN all - e.to ELSE e.to
                        base == IF IsRun(loc) THEN loc.first ELSE 0
                    IN  To(IF e.from > last \/ last > all THEN Nowhere
                           ELSE Elems(loc.local, loc.path, base + e.from, last - e.from))

Locate(store, place) ==
    FoldLeft(LAMBDA here, e : Project(store, here, e),
             [at |-> Location(place.local, <<>>), variant |-> 0], place.proj).at

Read(store, place) ==
    LET loc == Locate(store, place) IN At(store[loc.local], loc.path)
Operand(store, o) == IF "n" \in DOMAIN o THEN N(o.n) ELSE Read(store, o)

PlacesOf(rv) ==
    LET Of(o) == IF "n" \in DOMAIN o THEN {} ELSE {o}
    IN  IF rv.rv = "aggregate" THEN UNION {Of(rv.of[i]) : i \in DOMAIN rv.of}
        ELSE IF rv.rv \in {"use", "repeat", "unsize", "metadata"} THEN Of(rv.of)
        ELSE {rv.of}

(* What an rvalue yields for a destination of type t.                          *)
Evaluate(store, rv, t, tags) ==
    CASE rv.rv = "use"       -> Operand(store, rv.of)
      [] rv.rv = "aggregate" ->
            LET fields == [i \in DOMAIN rv.of |-> Operand(store, rv.of[i])]
            IN  IF t.k = "adt"
                THEN Aggregate(rv.variant, [Blank(t).parts EXCEPT ![rv.variant + 1] = fields])
                ELSE Aggregate(0, <<fields>>)
      [] rv.rv = "repeat"    ->
            Aggregate(0, <<[i \in 1..rv.n |-> Operand(store, rv.of)]>>)
      [] rv.rv \in {"ref", "address_of"} -> Locate(store, rv.of)
      [] rv.rv = "unsize"    ->            \* &[T; n] as &[T]
            LET p == Operand(store, rv.of)
            IN  Elems(p.local, p.path, 0, Elements(store, p))
      [] rv.rv = "metadata"  -> N(Elements(store, Operand(store, rv.of)))
      [] rv.rv = "len"       -> N(Elements(store, Locate(store, rv.of)))
      [] rv.rv = "discriminant" -> N(tags[Read(store, rv.of).variant + 1])

(* A statement is [dest, rv] or [dest, sets], with dest's type in ty and the   *)
(* discriminants of the enum it reads or sets in tags.  MIR gives it a meaning *)
(* when every place it names exists and what it looks through is initialised.  *)
Defined(store, s) ==
    /\ Locate(store, s.dest) # Nowhere
    /\ "rv" \in DOMAIN s =>
         /\ \A p \in PlacesOf(s.rv) : Locate(store, p) # Nowhere
         /\ s.rv.rv \in {"unsize", "metadata"} => Operand(store, s.rv.of) # Uninit
         /\ s.rv.rv = "discriminant" => Read(store, s.rv.of).variant >= 0

Execute(store, s) ==
    LET loc == Locate(store, s.dest)
        old == At(store[loc.local], loc.path)
        new == IF "rv" \in DOMAIN s THEN Evaluate(store, s.rv, s.ty, s.tags)
               ELSE [old EXCEPT !.variant = s.sets]
    IN  [store EXCEPT ![loc.local] = Put(@, loc.path, new)]
=============================================================================
