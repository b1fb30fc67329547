----------------------------- MODULE TypedMemory -----------------------------
(* A function's statements through the memory half of the compiler: lifted to  *)
(* typed loads and stores, taken apart by sroa and mem2reg if the pipeline     *)
(* runs them, laid out by RustTypedMemoryToLLVM, and run on slots.  The locals *)
(* read back from the slots must be those MIR's own semantics would have.      *)
EXTENDS TypedPlaces

CONSTANTS
    Types,        \* the type of each local
    Arguments,    \* the values of those that are arguments
    Programs,     \* statement sequences
    Pipelines     \* the sets of optional passes ("sroa", "mem2reg") to run

VARIABLES
    program, pipeline,
    stage,        \* "mir", "typed", "run", or "refused"
    ops,          \* per statement, the operations that write
    slots,        \* the slots: a local, then the indices sroa split it by
    pc,
    mem, regs     \* the contents of the slots, and of those mem2reg promoted

vars == <<program, pipeline, stage, ops, slots, pc, mem, regs>>

(* Layout: a node has the elements of a struct or an array; an enum is its tag *)
(* and then one struct per variant.                                            *)
Poison     == [poison |-> TRUE]
Node(es)   == [elems |-> es]
Ptr(s, p)  == [slot |-> s, path |-> p]
Fat(p, n)  == [data |-> p, len |-> n]

RECURSIVE Undef(_)
Undef(t) ==
    LET Each(ts) == Node([i \in DOMAIN ts |-> Undef(ts[i])])
    IN  IF t.k = "adt" /\ ~SingleVariant(t)
        THEN Node(<<Poison>> \o [v \in DOMAIN t.variants |-> Each(t.variants[v])])
        ELSE IF t.k \in {"tuple", "array", "adt"} THEN Each(SubelementTypes(t))
        ELSE Poison

RECURSIVE Sub(_, _), Replace(_, _, _), Has(_, _)
Sub(tree, path) ==
    IF path = <<>> THEN tree ELSE Sub(tree.elems[Head(path) + 1], Tail(path))
Replace(tree, path, new) ==
    IF path = <<>> THEN new
    ELSE [tree EXCEPT !.elems[Head(path) + 1] = Replace(@, Tail(path), new)]
Has(tree, path) ==
    \/ path = <<>>
    \/ /\ "elems" \in DOMAIN tree /\ Head(path) + 1 \in DOMAIN tree.elems
       /\ Has(tree.elems[Head(path) + 1], Tail(path))

RECURSIVE SlotType(_)
SlotType(s) ==
    IF Len(s) = 1 THEN Types[s[1]]
    ELSE SubelementTypes(SlotType(Front(s)))[Last(s) + 1]

(* The path of field_addr and of field: a variant's payload follows the tag.   *)
FieldPath(i, variant) == IF variant = NoVariant THEN <<i>> ELSE <<variant + 1, i>>
Gep(p, path) == [p EXCEPT !.path = @ \o path]

\* Mutant: a gep that forgets where in the array the pointer already is.
MovedFromFirst(p, n) == [p EXCEPT !.path = Append(Front(@), n)]

Moved(p, n) ==                                   \* gep by n elements
    [p EXCEPT !.path = Append(Front(@), Last(@) + n)]

\* Mutant: a length that forgets what is cut off in front.
SubsliceLengthToEnd(a, n) == IF a.end THEN n - a.to ELSE a.to - a.from

SubsliceLength(a, n) == IF a.end THEN (n - a.from) - a.to ELSE a.to - a.from

(* index_addr and subslice, by what they start from: an array's address, or the *)
(* fat pointer of a slice.                                                     *)
IndexAddr(base, slice, n) ==
    IF slice THEN Moved(base.data, n) ELSE Gep(base, <<n>>)
Subslice(a, base) ==
    Fat(IndexAddr(base, a.slice, a.from),
        SubsliceLength(a, IF a.slice THEN base.len ELSE a.n))

(* make_aggregate: the fields, of an enum behind its tag, at its variant.      *)
MakeAggregate(e, fields) ==
    IF e.variant = NoVariant THEN fields
    ELSE [Undef(e.type) EXCEPT !.elems[1] = [n |-> e.tag], !.elems[e.variant + 2] = fields]

SliceFromArray(p, n) == Fat(Gep(p, <<0>>), n)

(* ptr_metadata: the length an array has by its type, a slice in its pointer.  *)
Metadata(t, p) == [n |-> IF t.k = "array" THEN t.n ELSE p.len]

(* discriminant: an enum with one variant has no tag, and reads 0. *)
Discriminant(t, value) == IF SingleVariant(t) THEN [n |-> 0] ELSE value.elems[1]

RECURSIVE AddressOf(_), ValueOf(_)
AddressOf(a) ==
    CASE a.op = "slot"       -> Ptr(a.slot, <<>>)
      [] a.op = "load"       -> ValueOf(a)
      [] a.op = "field_addr" -> Gep(AddressOf(a.base), FieldPath(a.i, a.variant))
      [] a.op = "index_addr" -> IndexAddr(AddressOf(a.base), a.slice, ValueOf(a.index).n)
      [] a.op = "subslice"   -> Subslice(a, AddressOf(a.base))

Load(p) == IF p.slot \in DOMAIN mem THEN Sub(mem[p.slot], p.path) ELSE Poison

ValueOf(e) ==
    CASE e.op = "const"     -> [n |-> e.n]
      [] e.op = "load"      ->
            IF e.from.op = "slot" /\ e.from.slot \in DOMAIN regs THEN regs[e.from.slot]
            ELSE Load(AddressOf(e.from))
      [] e.op = "aggregate" ->
            MakeAggregate(e, Node([i \in DOMAIN e.of |-> ValueOf(e.of[i])]))
      [] e.op = "field"     -> Sub(ValueOf(e.of), FieldPath(e.i, NoVariant))
      [] e.op \in {"borrow", "raw_address"} -> AddressOf(e.of)
      [] e.op = "slice_from_array" -> SliceFromArray(ValueOf(e.of), e.n)
      [] e.op = "ptr_metadata"     -> Metadata(e.type, AddressOf(e.of))
      [] e.op = "discriminant"     -> Discriminant(e.type, ValueOf(e.of))

(***************************************************************************)
(* The passes *)

Args == DOMAIN Arguments
NoMemory == [s \in {} |-> Poison]

Init ==
    /\ program \in Programs /\ pipeline \in Pipelines
    /\ stage = "mir" /\ ops = <<>> /\ slots = {} /\ pc = 1
    /\ mem = NoMemory /\ regs = NoMemory

(* The field addresses in an operation. *)
RECURSIVE FieldAddrs(_)
FieldAddrs(o) ==
    CASE o.op = "store"      -> FieldAddrs(o.to) \cup FieldAddrs(o.value)
      [] o.op = "field_addr" -> {o} \cup FieldAddrs(o.base)
      [] o.op \in {"set_discriminant", "index_addr", "subslice"} -> FieldAddrs(o.base)
      [] o.op = "load"       -> FieldAddrs(o.from)
      [] o.op = "aggregate"  -> UNION {FieldAddrs(o.of[i]) : i \in DOMAIN o.of}
      [] o.op \in {"slot", "const", "none"} -> {}
      [] OTHER               -> FieldAddrs(o.of)

(* isLLVMCompatibleAggregateType of what a type converts to: references stay,  *)
(* and with them the tuples they are in.                                       *)
RECURSIVE Compatible(_)
Compatible(t) ==
    CASE t.k = "int"   -> TRUE
      [] t.k = "array" -> Compatible(t.elem)
      [] t.k = "tuple" -> \A i \in DOMAIN t.elems : Compatible(t.elems[i])
      [] t.k = "adt"   -> \A v \in DOMAIN t.variants : \A i \in DOMAIN t.variants[v] :
                              Compatible(t.variants[v][i])
      [] OTHER         -> FALSE

StepsOverTag(a) == a.variant # NoVariant /\ SingleVariant(a.of)

(* FieldAddrOp's verifier, on the types convert-rust-typed-to-arith leaves: a  *)
(* struct for an adt of compatible types.  A variant is then looked up behind  *)
(* a tag, which an enum with one variant does not have: the path is taken      *)
(* where its second field is a struct with a field of the type looked for at   *)
(* the index, and refused elsewhere.                                           *)
AddressFits(a) ==
    LET fields  == SubelementTypes(a.of)
        payload == fields[a.variant + 2]
    IN  StepsOverTag(a) =>
          /\ Compatible(a.of)
          /\ a.variant + 2 \in DOMAIN fields
          /\ payload.k \in {"tuple", "adt"}
          /\ Has(Undef(payload), <<a.i>>)
          /\ Sub(Undef(payload), <<a.i>>) = Undef(fields[a.i + 1])

(* runOnOperation: a slot per local, and every statement in order; one that    *)
(* does not lower fails the pass, one that does not verify the next.           *)
Lift ==
    LET lowered == [i \in DOMAIN program |-> Lower(Types, program[i])]
        Fits(o) == o # NotLowered /\ \A a \in FieldAddrs(o) : AddressFits(a)
    IN  /\ stage = "mir"
        /\ IF \A i \in DOMAIN lowered : \A j \in DOMAIN lowered[i] : Fits(lowered[i][j])
           THEN /\ stage' = "typed" /\ ops' = lowered
                /\ slots' = {<<l>> : l \in DOMAIN Types}
           ELSE stage' = "refused" /\ UNCHANGED <<ops, slots>>
        /\ UNCHANGED <<program, pipeline, pc, mem, regs>>

HeldSlots == UNION {UNION {HeldBy(ops[i][j]) : j \in DOMAIN ops[i]} : i \in DOMAIN ops}
UsedSlots == UNION {UNION {WholeUses(ops[i][j]) : j \in DOMAIN ops[i]} : i \in DOMAIN ops}

CanDestructure(s) ==
    /\ Destructurable(s, SlotType(s), AddressTaken(program), Args)
    /\ s \in UsedSlots \ HeldSlots

\* Mutant: only the address-taken marks are asked, not the users.
CanPromoteUnmarked(s) == Promotable(s, AddressTaken(program), Args)

CanPromote(s) ==
    /\ Promotable(s, AddressTaken(program), Args)
    /\ s \notin HeldSlots

(* LocalSlotOp::destructure, with the rewiring of every load and store. *)
Destructure(s) ==
    /\ stage = "typed" /\ "sroa" \in pipeline
    /\ CanDestructure(s)
    /\ ops' = [i \in DOMAIN ops |->
                  FlattenSeq([j \in DOMAIN ops[i] |-> Rewire(ops[i][j], s, SlotType(s))])]
    /\ slots' = (slots \ {s}) \cup {Subslot(s, i) : i \in DOMAIN SubelementTypes(SlotType(s))}
    /\ UNCHANGED <<program, pipeline, stage, pc, mem, regs>>

(* What an argument holds at entry, laid out. *)
Entered(s) == IF s[1] \in Args THEN Arguments[s[1]] ELSE Undef(SlotType(s))

(* mem2reg's promotions, at once, and the entry into the function.            *)
Start ==
    LET promoted == IF "mem2reg" \in pipeline THEN {s \in slots : CanPromote(s)} ELSE {}
    IN  /\ stage = "typed"
        /\ "sroa" \in pipeline => \A s \in slots : ~CanDestructure(s)
        /\ stage' = "run"
        /\ regs' = [s \in promoted |-> Entered(s)]
        /\ mem' = [s \in slots \ promoted |-> Entered(s)]
        /\ UNCHANGED <<program, pipeline, ops, slots, pc>>

(***************************************************************************)
(* The locals, read back: whole slots, then the layout undone *)

RECURSIVE MirPath(_, _), Decoded(_, _)
MirPath(t, path) ==
    IF path = <<>> THEN <<>>
    ELSE IF t.k = "adt" /\ ~SingleVariant(t)
         THEN <<<<path[1] - 1, path[2]>>>>
                 \o MirPath(t.variants[path[1]][path[2] + 1], SubSeq(path, 3, Len(path)))
    ELSE <<<<0, path[1]>>>>
            \o MirPath(SubelementTypes(t)[path[1] + 1], Tail(path))

Decoded(t, tree) ==
    LET Each(ts, node) == [i \in DOMAIN ts |-> Decoded(ts[i], node.elems[i])]
    IN  IF t.k = "adt" /\ ~SingleVariant(t)
        THEN LET tag == tree.elems[1]
             IN  Aggregate(IF tag = Poison THEN -1
                           ELSE (CHOOSE v \in DOMAIN t.tags : t.tags[v] = tag.n) - 1,
                           [v \in DOMAIN t.variants |->
                               Each(t.variants[v], tree.elems[v + 1])])
        ELSE IF t.k \in {"tuple", "array", "adt"}
             THEN Aggregate(0, <<Each(SubelementTypes(t), tree)>>)
        ELSE IF tree = Poison THEN Uninit
        ELSE IF "data" \in DOMAIN tree
             THEN LET p == tree.data
                  IN  Elems(p.slot[1], MirPath(Types[p.slot[1]], Front(p.path)),
                            Last(p.path), tree.len)
        ELSE IF "slot" \in DOMAIN tree
             THEN Location(tree.slot[1], MirPath(Types[tree.slot[1]], tree.path))
        ELSE tree

RECURSIVE Whole(_)
Whole(s) ==
    IF s \in DOMAIN regs THEN regs[s]
    ELSE IF s \in DOMAIN mem THEN mem[s]
    ELSE Node([i \in DOMAIN SubelementTypes(SlotType(s)) |-> Whole(Subslot(s, i))])

Decode(l) == Decoded(Types[l], IF stage = "run" THEN Whole(<<l>>) ELSE Entered(<<l>>))
Store == [l \in DOMAIN Types |-> Decode(l)]

(***************************************************************************)
(* Running a statement: addresses and values first, then the writes *)

Written(m, writes) ==
    [s \in DOMAIN m |->
        FoldLeft(LAMBDA tree, w :
                    IF w.to.slot = s THEN Replace(tree, w.to.path, w.value) ELSE tree,
                 m[s], writes)]

StoreWrite(o) == [to |-> AddressOf(o.to), value |-> ValueOf(o.value)]
TagWrite(o)   == [to |-> Gep(AddressOf(o.base), <<0>>), value |-> [n |-> o.tag]]

(* MIR gives no meaning to a statement that looks through what does not exist: *)
(* its bounds checks and its borrow checker have excluded that.                *)
Step ==
    /\ stage = "run" /\ pc <= Len(program)
    /\ Defined(Store, program[pc])
    /\ LET Write(o) == IF o.op = "store" THEN StoreWrite(o) ELSE TagWrite(o)
           Direct(o) == o.op = "store" /\ o.to.op = "slot"
       IN  /\ mem' = Written(mem, [j \in DOMAIN ops[pc] |-> Write(ops[pc][j])])
           /\ regs' = Written(regs, LET d == SelectSeq(ops[pc], Direct)
                                    IN  [j \in DOMAIN d |-> Write(d[j])])
    /\ pc' = pc + 1
    /\ UNCHANGED <<program, pipeline, stage, ops, slots>>

DestructureSome == \E s \in slots : Destructure(s)

Next == Lift \/ DestructureSome \/ Start \/ Step

Spec == Init /\ [][Next]_vars

(***************************************************************************)
(* Properties *)

M == INSTANCE MirMemory
        WITH Types <- Types, program <- program, pc <- pc, store <- Store,
             Arguments <- [l \in Args |-> Decoded(Types[l], Arguments[l])]

(* What the lowering of an enum with one variant gets wrong: a field looked up  *)
(* by a downcast, where the verifier takes the path, is one of the second       *)
(* field's; and the discriminant reads 0, whatever the source declares.         *)
MisreadsEnum ==
    /\ stage = "run" /\ pc <= Len(program) /\ pc' = pc + 1 /\ UNCHANGED program
    /\ \/ \E j \in DOMAIN ops[pc] : \E a \in FieldAddrs(ops[pc][j]) : StepsOverTag(a)
       \/ /\ "rv" \in DOMAIN program[pc] /\ program[pc].rv.rv = "discriminant"
          /\ Len(program[pc].tags) = 1 /\ program[pc].tags[1] # 0

(* Whatever passes ran, the locals read back from the slots go through the     *)
(* values MIR gives them, statement by statement: through pointers into a      *)
(* field, an element or a variant, through slices of slices, through whole     *)
(* copies of a slot that was split, and through promoted slots.  Left out are  *)
(* the statements of MisreadsEnum, and only they: what follows one is held to  *)
(* the memory it left.                                                         *)
KeepsMirMemory == M!Init /\ [][M!Step \/ MisreadsEnum]_(M!vars)

(* The leaves of everything stored. *)
RECURSIVE Leaves(_)
Leaves(tree) ==
    IF "elems" \in DOMAIN tree THEN UNION {Leaves(tree.elems[i]) : i \in DOMAIN tree.elems}
    ELSE {tree}
Stored == UNION {Leaves(mem[s]) : s \in DOMAIN mem} \cup UNION {Leaves(regs[s]) : s \in DOMAIN regs}

(* The slots of a running function are each in memory or promoted, and hold    *)
(* the shape of their types.                                                   *)
TypeOK ==
    /\ stage \in {"mir", "typed", "run", "refused"}
    /\ stage = "run" =>
         /\ DOMAIN mem \cup DOMAIN regs = slots /\ DOMAIN mem \cap DOMAIN regs = {}
         /\ \A s \in slots : "elems" \in DOMAIN Undef(SlotType(s))
                <=> "elems" \in DOMAIN Whole(s)

(* A pointer in memory points into a slot that is still there, whole: sroa and *)
(* mem2reg never take away a slot whose address was stored.                    *)
PointersIntoMemory ==
    \A leaf \in Stored :
        LET Into(p) == p.slot \in DOMAIN mem /\ Len(p.slot) = 1
        IN  /\ "slot" \in DOMAIN leaf => Into(leaf) /\ Has(mem[leaf.slot], leaf.path)
            /\ "data" \in DOMAIN leaf => Into(leaf.data)

(* A fat pointer stays inside the array it was made from: the lengths that     *)
(* subslices subtract never run past its end, nor below 0.                     *)
SlicesInside ==
    \A leaf \in Stored : "data" \in DOMAIN leaf =>
        LET array == Sub(mem[leaf.data.slot], Front(leaf.data.path))
        IN  leaf.len >= 0 /\ Last(leaf.data.path) + leaf.len <= Len(array.elems)
=============================================================================
