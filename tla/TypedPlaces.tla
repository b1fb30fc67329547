----------------------------- MODULE TypedPlaces -----------------------------
(* The typed operations LiftTypedMIR emits for a statement, as expressions over*)
(* slots: addresses (slot, field_addr, index_addr, subslice, a loaded pointer),*)
(* values, and the stores they end in.  What it cannot emit is NotLowered, and *)
(* then the whole function is refused.                                         *)
EXTENDS MirPlaces, FiniteSetsExt

NotLowered == [op |-> "none"]
NoVariant  == -1

Slot(s)    == [op |-> "slot", slot |-> s]       \* s: a local, then subslot indices
LoadOf(a)  == [op |-> "load", from |-> a]
StoreOp(to, value) == [op |-> "store", to |-> to, value |-> value]

SingleVariant(t) == t.k = "adt" /\ Len(t.variants) = 1

(* The element types a type destructures into: an enum's variants are not its  *)
(* elements (getSubelementIndexMap).                                           *)
SubelementTypes(t) ==
    CASE t.k = "tuple"    -> t.elems
      [] t.k = "array"    -> [i \in 1..t.n |-> t.elem]
      [] SingleVariant(t) -> t.variants[1]
      [] OTHER            -> <<>>

(* getIndexedElementType, for the variant the last downcast remembered. *)
IndexedType(t, i, variant) ==
    LET elems == IF variant = NoVariant THEN SubelementTypes(t)
                 ELSE IF t.k = "adt" /\ variant < Len(t.variants)
                      THEN t.variants[variant + 1] ELSE <<>>
    IN  IF i + 1 \in DOMAIN elems THEN elems[i + 1] ELSE NoType

(* getStaticProjectionIndexAttr: from the end only where the length is static. *)
StaticIndex(e, t) ==
    IF e.e = "field" \/ ~e.end THEN e.i
    ELSE IF t.k = "array" /\ e.i <= t.n THEN t.n - e.i ELSE -1

Indexable(t) == t.k \in {"array", "slice"}
Pointer(t)   == t.k \in {"ref", "raw"}             \* getPointeeType

(* One projection element of materializePlaceAddress and of inferPlaceType,    *)
(* which walk a place alike: the address so far, its element type, and the     *)
(* variant that the next field is looked up in.                                *)
Materialize1(here, e) ==
    LET base == here.addr
        t    == here.type
        To(a, type) == [addr |-> a, type |-> type, variant |-> here.variant]
        None == To(NotLowered, NoType)
        i    == StaticIndex(e, t)
        type == IndexedType(t, i, here.variant)
    IN  CASE t = NoType        -> None
          [] e.e = "downcast"  -> [here EXCEPT !.variant = e.v]
          [] e.e = "deref"     -> IF Pointer(t) THEN To(LoadOf(base), t.to) ELSE None
          [] e.e = "index"     ->
                IF Indexable(t)
                THEN To([op |-> "index_addr", base |-> base, slice |-> t.k = "slice",
                         index |-> LoadOf(Slot(<<e.local>>))], t.elem)
                ELSE None
          [] e.e = "sub"       ->
                IF Indexable(t)
                THEN To([op |-> "subslice", base |-> base, slice |-> t.k = "slice",
                         n |-> IF t.k = "slice" THEN 0 ELSE t.n,
                         from |-> e.from, to |-> e.to, end |-> e.end],
                        SliceOf(t.elem))
                ELSE None
          [] OTHER             ->
                IF i < 0 \/ type = NoType THEN None
                ELSE [addr |-> [op |-> "field_addr", base |-> base, i |-> i,
                                variant |-> here.variant, of |-> t],
                      type |-> type, variant |-> NoVariant]

Materialize(types, place) ==
    FoldLeft(Materialize1,
             [addr |-> Slot(<<place.local>>), type |-> types[place.local],
              variant |-> NoVariant], place.proj)

(* materializeOperand: a constant, or the load of a place. *)
OperandValue(types, o) ==
    IF "n" \in DOMAIN o THEN [op |-> "const", n |-> o.n]
    ELSE LET a == Materialize(types, o)
         IN  IF a.type = NoType THEN NotLowered ELSE LoadOf(a.addr)

AggregateOf(t, values, variant, tag) ==
    [op |-> "aggregate", type |-> t, of |-> values, variant |-> variant, tag |-> tag]

(* lowerAssign, by rvalue: the value stored to a destination of type t, where  *)
(* source is the place the rvalue names, materialized.                         *)
Enumerated(t) == t.k = "adt" /\ ~SingleVariant(t)

(* copy_for_deref is a use of a place. *)
UseValue(types, rv) == OperandValue(types, rv.of)

AggregateValue(types, rv, t, tags) ==
    LET values == [i \in DOMAIN rv.of |-> OperandValue(types, rv.of[i])]
        fields == IF Enumerated(t) THEN t.variants[rv.variant + 1] ELSE SubelementTypes(t)
    IN  IF Len(values) # Len(fields) \/ \E i \in DOMAIN values : values[i] = NotLowered
        THEN NotLowered
        ELSE IF Enumerated(t) THEN AggregateOf(t, values, rv.variant, tags[rv.variant + 1])
        ELSE AggregateOf(t, values, NoVariant, 0)

RepeatValue(types, rv, t) ==
    LET v == OperandValue(types, rv.of)
    IN  IF t.k = "array" /\ t.n = rv.n /\ v # NotLowered
        THEN AggregateOf(t, [i \in 1..rv.n |-> v], NoVariant, 0) ELSE NotLowered

DiscriminantValue(source) ==
    IF source.type = NoType THEN NotLowered
    ELSE [op |-> "discriminant", of |-> LoadOf(source.addr), type |-> source.type]

RefValue(source, t) ==
    IF source.type # NoType /\ t.k = "ref" /\ t.to = source.type
    THEN [op |-> "borrow", of |-> source.addr] ELSE NotLowered

AddressOfValue(source, t) ==
    IF source.type # NoType /\ t.k = "raw" /\ t.to = source.type
    THEN [op |-> "raw_address", of |-> source.addr] ELSE NotLowered

(* The unsizing cast, of a pointer to an array. *)
UnsizeValue(source, t) ==
    IF Pointer(source.type) /\ source.type.to.k = "array" /\ Pointer(t)
          /\ t.to = SliceOf(source.type.to.elem)
    THEN [op |-> "slice_from_array", of |-> LoadOf(source.addr), n |-> source.type.to.n]
    ELSE NotLowered

(* PtrMetadata is a unary operator; PtrMetadataOp takes arrays and slices.      *)
PtrMetadata(a, pointee) == [op |-> "ptr_metadata", of |-> a, type |-> pointee]
MetadataValue(source) ==
    IF Pointer(source.type) /\ Indexable(source.type.to)
    THEN PtrMetadata(LoadOf(source.addr), source.type.to) ELSE NotLowered

LenValue(source) ==
    CASE source.type.k = "array" -> [op |-> "const", n |-> source.type.n]
      [] source.type.k = "slice" -> PtrMetadata(source.addr, source.type)
      [] OTHER                   -> NotLowered

RvalueOf(types, rv, t, tags) ==
    LET source == Materialize(types, rv.of)
    IN  CASE rv.rv = "use"          -> UseValue(types, rv)
          [] rv.rv = "aggregate"    -> AggregateValue(types, rv, t, tags)
          [] rv.rv = "repeat"       -> RepeatValue(types, rv, t)
          [] rv.rv = "discriminant" -> DiscriminantValue(source)
          [] rv.rv = "ref"          -> RefValue(source, t)
          [] rv.rv = "address_of"   -> AddressOfValue(source, t)
          [] rv.rv = "unsize"       -> UnsizeValue(source, t)
          [] rv.rv = "metadata"     -> MetadataValue(source)
          [] rv.rv = "len"          -> LenValue(source)

(* lowerSetDiscriminant: an enum with one variant has no tag to write. *)
LowerSetDiscriminant(dest, s) ==
    IF dest.type.k # "adt" \/ s.sets >= Len(dest.type.variants) THEN <<NotLowered>>
    ELSE IF SingleVariant(dest.type) THEN <<>>
    ELSE <<[op |-> "set_discriminant", base |-> dest.addr, tag |-> s.tags[s.sets + 1]]>>

(* A statement becomes the sequence of the operations that write.              *)
Lower(types, s) ==
    LET dest == Materialize(types, s.dest)
        v    == RvalueOf(types, s.rv, dest.type, s.tags)
    IN  IF dest.type = NoType THEN <<NotLowered>>
        ELSE IF "rv" \notin DOMAIN s THEN LowerSetDiscriminant(dest, s)
        ELSE IF v = NotLowered THEN <<v>> ELSE <<StoreOp(dest.addr, v)>>

(* collectAddressTakenLocals (a drop takes an address too; no statement here   *)
(* drops).                                                                     *)
AddressTaken(program) ==
    {program[i].rv.of.local :
        i \in {i \in DOMAIN program :
                  "rv" \in DOMAIN program[i] /\ program[i].rv.rv \in {"ref", "address_of"}}}

(***************************************************************************)
(* sroa and mem2reg, through the interfaces of RustTypedOps *)

(* The slots an expression holds other than as the address of a load. *)
RECURSIVE Held(_)
Held(e) ==
    CASE e.op = "slot"  -> {e.slot}
      [] e.op = "const" -> {}
      [] e.op = "load"  -> IF e.from.op = "slot" THEN {} ELSE Held(e.from)
      [] e.op \in {"field_addr", "index_addr", "subslice"} -> Held(e.base)
      [] e.op = "aggregate" -> UNION {Held(e.of[i]) : i \in DOMAIN e.of}
      [] OTHER          -> Held(e.of)
HeldBy(o) ==
    IF o.op = "store"
    THEN Held(o.value) \cup (IF o.to.op = "slot" THEN {} ELSE Held(o.to))
    ELSE Held(o.base)

RECURSIVE Loaded(_)
Loaded(e) ==         \* the slots an expression loads as a whole
    CASE e.op \in {"slot", "const"} -> {}
      [] e.op = "load"  -> IF e.from.op = "slot" THEN {e.from.slot} ELSE Loaded(e.from)
      [] e.op = "index_addr" -> Loaded(e.base) \cup Loaded(e.index)
      [] e.op \in {"field_addr", "subslice"} -> Loaded(e.base)
      [] e.op = "aggregate" -> UNION {Loaded(e.of[i]) : i \in DOMAIN e.of}
      [] OTHER          -> Loaded(e.of)
WholeUses(o) ==
    IF o.op = "store"
    THEN Loaded(o.value) \cup (IF o.to.op = "slot" THEN {o.to.slot} ELSE Loaded(o.to))
    ELSE Loaded(o.base)

(* getPromotableSlots, getDestructurableSlots; MLIR adds that every user must  *)
(* implement the accessor interfaces, and only LoadOp and StoreOp do.          *)
Promotable(s, taken, args) == s[1] \notin taken /\ s[1] \notin args
MaxDestructurableArrayLength == 1024
Destructurable(s, type, taken, args) ==
    /\ s[1] \notin taken /\ s[1] \notin args
    /\ SubelementTypes(type) # <<>>
    /\ type.k = "array" => type.n <= MaxDestructurableArrayLength

(* LoadOp::rewire: an aggregate of the loads of the subslots, in index order.  *)
Subslot(s, i) == Append(s, i - 1)
RECURSIVE RewireLoads(_, _, _)
RewireLoads(e, s, t) ==
    LET Go(x) == RewireLoads(x, s, t)
    IN  CASE e = LoadOf(Slot(s)) ->
               AggregateOf(t, [i \in DOMAIN SubelementTypes(t) |->
                                   LoadOf(Slot(Subslot(s, i)))], NoVariant, 0)
          [] e.op \in {"slot", "const"} -> e
          [] e.op = "load" -> [e EXCEPT !.from = Go(@)]
          [] e.op = "index_addr" -> [e EXCEPT !.base = Go(@), !.index = Go(@)]
          [] e.op \in {"field_addr", "subslice"} -> [e EXCEPT !.base = Go(@)]
          [] e.op = "aggregate" -> [e EXCEPT !.of = [i \in DOMAIN e.of |-> Go(e.of[i])]]
          [] OTHER -> [e EXCEPT !.of = Go(@)]

\* Mutant: every subslot is given the whole stored value.
RewireWholeValue(o, s, t) ==
    IF o.op = "store"
    THEN LET value == RewireLoads(o.value, s, t)
         IN  IF o.to = Slot(s)
             THEN [i \in DOMAIN SubelementTypes(t) |-> StoreOp(Slot(Subslot(s, i)), value)]
             ELSE <<StoreOp(RewireLoads(o.to, s, t), value)>>
    ELSE <<[o EXCEPT !.base = RewireLoads(@, s, t)]>>

(* StoreOp::rewire: one store per subslot, of the field of the stored value.   *)
Rewire(o, s, t) ==
    IF o.op = "store"
    THEN LET value == RewireLoads(o.value, s, t)
         IN  IF o.to = Slot(s)
             THEN [i \in DOMAIN SubelementTypes(t) |->
                      StoreOp(Slot(Subslot(s, i)),
                              [op |-> "field", of |-> value, i |-> i - 1])]
             ELSE <<StoreOp(RewireLoads(o.to, s, t), value)>>
    ELSE <<[o EXCEPT !.base = RewireLoads(@, s, t)]>>
=============================================================================
