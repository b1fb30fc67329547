---------------------------- MODULE LiftTypedMIR ----------------------------
(***************************************************************************)
(* The pass rust-lift-typed-mir on one function: it walks the MIR blocks,   *)
(* creates a typed block for each, and lowers its terminator.  Lowering a   *)
(* drop expands the drop glue of the dropped type in place, which splits    *)
(* the block: the glue creates synthetic typed blocks at the end of the     *)
(* typed function, numbered from a counter all drops of the function share, *)
(* and moves the builder's insertion point from block to block.             *)
(*                                                                          *)
(* The mutually recursive emit functions are run here with their call stack *)
(* made explicit: work is that stack, and every entry remembers the block   *)
(* at whose end it emits.  Head(work).at is the builder's insertion point.  *)
(***************************************************************************)
EXTENDS MirBody

VARIABLES
  func,          \* the rust.mir.func being lifted
  pos,           \* the number of MIR blocks scanned, then of those whose
                 \* lifting has begun
  typed,         \* the blocks of the rust.typed.func in creation order
  nextSynthetic, \* nextSyntheticBlock
  work,          \* the pending emissions, the innermost call first
  failed,        \* sawFailure
  phase,         \* "scanning", "lifting", "done" or "failed"
  sourceKept     \* whether the rust.mir.func is still in the module

liftVars ==
  <<func, pos, typed, nextSynthetic, work, failed, phase, sourceKept>>

-----------------------------------------------------------------------------
(* Typed operations.  switch_tag is the load, rust.typed.discriminant and   *)
(* rust.typed.switch_int the glue of an enum emits; its arms are the        *)
(* case_<n> targets and default is where every other tag goes.              *)

Goto(b)        == [op |-> "goto", targets |-> {b}]
Return         == [op |-> "return", targets |-> {}]
Unreachable    == [op |-> "unreachable", targets |-> {}]
SwitchInt(bs)  == [op |-> "switch_int", targets |-> bs]
Assert         == [op |-> "assert", targets |-> {}]
CallFunction   == [op |-> "call", targets |-> {}]
CallDropImpl(p)   == [op |-> "drop_impl", targets |-> {}, place |-> p]
CallDropBridge(p) == [op |-> "drop_bridge", targets |-> {}, place |-> p]
SwitchTag(p, arms, b) ==
  [op |-> "switch_tag", place |-> p, arms |-> arms, default |-> b,
   targets |-> {b} \cup {arms[i].index : i \in DOMAIN arms}]

IsTerminator(o) ==
  o.op \in {"goto", "return", "unreachable", "switch_int", "switch_tag"}

(* Append the operations os at the end of the block at position k.          *)
Emit(blocks, k, os) == [blocks EXCEPT ![k].ops = @ \o os]

(* createSyntheticTypedBlock, after the emissions already made in blocks.   *)
Synthetic(blocks) == Append(blocks, [index |-> nextSynthetic, ops |-> << >>])

-----------------------------------------------------------------------------
(* Pending emissions: all of them start at the end of block at and leave    *)
(* control at target.                                                       *)

Pending(kind, k, ps, arms, next, b) ==
  [kind |-> kind, at |-> k, places |-> ps, arms |-> arms, next |-> next,
   target |-> b]

\* emitDropGlueTo(p, b)
Glue(k, p, b) == Pending("glue", k, <<p>>, << >>, 1, b)
\* emitDropSequenceTo(ps, b)
Sequence(k, ps, b) == Pending("sequence", k, ps, << >>, 1, b)
\* emitMultiVariantAdtDropGlueTo(p, b), about to look at variant v with the
\* variant blocks arms already created
Dispatch(k, p, arms, v, b) == Pending("variants", k, <<p>>, arms, v, b)

(* The first place of ps that needs drop glue is at i.                      *)
FirstNeeding(ps, i) ==
  /\ i \in DOMAIN ps
  /\ MayNeedDropGlue[ps[i].type]
  /\ \A j \in 1..(i - 1) : ~MayNeedDropGlue[ps[j].type]

NoneNeeds(ps) == \A i \in DOMAIN ps : ~MayNeedDropGlue[ps[i].type]

-----------------------------------------------------------------------------
Init ==
  /\ func \in Funcs
  /\ pos = 0
  /\ typed = << >>
  /\ nextSynthetic = 0
  /\ work = << >>
  /\ failed = FALSE
  /\ phase = "scanning"
  /\ sourceKept = TRUE

-----------------------------------------------------------------------------
\* Mutant: the counter stops at the largest MIR block index.
ScanOffByOne ==
  /\ phase = "scanning"
  /\ pos < Len(func)
  /\ pos' = pos + 1
  /\ nextSynthetic' = IF func[pos'].index > nextSynthetic
                        THEN func[pos'].index ELSE nextSynthetic
  /\ UNCHANGED <<func, typed, work, failed, phase, sourceKept>>

(* The pre-scan of runOnOperation that puts the counter above every MIR     *)
(* block index.                                                             *)
Scan ==
  /\ phase = "scanning"
  /\ pos < Len(func)
  /\ pos' = pos + 1
  /\ nextSynthetic' = IF func[pos'].index >= nextSynthetic
                        THEN func[pos'].index + 1 ELSE nextSynthetic
  /\ UNCHANGED <<func, typed, work, failed, phase, sourceKept>>

ScanDone ==
  /\ phase = "scanning"
  /\ pos = Len(func)
  /\ pos' = 0
  /\ phase' = "lifting"
  /\ UNCHANGED <<func, typed, nextSynthetic, work, failed, sourceKept>>

-----------------------------------------------------------------------------
(* Lifting of one MIR block: create the typed block, lower the statements,  *)
(* lower the terminator.                                                    *)

(* The operations a terminator other than an unbridged drop becomes.        *)
Lowered(term) ==
  CASE term.op = "goto"        -> <<Goto(TargetOf(term))>>
    [] term.op = "return"      -> <<Return>>
    [] term.op = "unreachable" -> <<Unreachable>>
    [] term.op = "switch_int"  -> <<SwitchInt(term.targets)>>
    [] term.op = "assert"      -> <<Assert, Goto(TargetOf(term))>>
    [] term.op = "call"        ->
         <<CallFunction, IF term.targets = {} THEN Unreachable
                                              ELSE Goto(TargetOf(term))>>
    [] term.op = "drop"        ->
         <<CallDropBridge(term.place), Goto(TargetOf(term))>>
    [] term.op = "unliftable"  -> << >>

BeginBlock ==
  /\ phase = "lifting"
  /\ work = << >>
  /\ pos < Len(func)
  /\ pos' = pos + 1
  /\ UNCHANGED <<func, nextSynthetic, phase, sourceKept>>

LiftBlock ==
  LET mir == func[pos + 1] IN
  /\ BeginBlock
  /\ mir.term.op = "drop" => mir.term.bridge
  /\ typed' = Append(typed, [index |-> mir.index, ops |-> Lowered(mir.term)])
  /\ failed' = (failed \/ ~mir.liftable \/ mir.term.op = "unliftable")
  /\ UNCHANGED work

(* lowerDrop without a bridge symbol calls emitDropGlueTo.                  *)
LiftDrop ==
  LET mir == func[pos + 1] IN
  /\ BeginBlock
  /\ mir.term.op = "drop"
  /\ ~mir.term.bridge
  /\ typed' = Append(typed, [index |-> mir.index, ops |-> << >>])
  /\ failed' = (failed \/ ~mir.liftable)
  /\ work' = <<Glue(Len(typed) + 1, mir.term.place, TargetOf(mir.term))>>

Finish ==
  /\ phase = "lifting"
  /\ work = << >>
  /\ pos = Len(func)
  /\ phase' = IF failed THEN "failed" ELSE "done"
  /\ sourceKept' = failed
  /\ UNCHANGED <<func, pos, typed, nextSynthetic, work, failed>>

-----------------------------------------------------------------------------
(* Drop glue.  Every action is one call (or one loop iteration) of an emit  *)
(* function: it pops the pending emission t and pushes the calls t makes.   *)

Running(kind, t) ==
  /\ phase = "lifting"
  /\ work # << >>
  /\ t = Head(work)
  /\ t.kind = kind
  /\ UNCHANGED <<func, pos, phase, sourceKept>>

(* emitDropGlueTo: nothing to drop.                                         *)
GlueNotNeeded ==
  LET t == Head(work) IN
  /\ Running("glue", t)
  /\ ~MayNeedDropGlue[t.places[1].type]
  /\ typed' = Emit(typed, t.at, <<Goto(t.target)>>)
  /\ work' = Tail(work)
  /\ UNCHANGED <<nextSynthetic, failed>>

(* The call of the Drop impl that comes before the components.              *)
OwnDrop(p) == IF HasDropImpl[p.type] THEN <<CallDropImpl(p)>> ELSE << >>

(* emitDropGlueTo of a tuple, an array, or an ADT with one variant.         *)
GlueOneShape ==
  LET t == Head(work)
      p == t.places[1] IN
  /\ Running("glue", t)
  /\ MayNeedDropGlue[p.type]
  /\ Kind[p.type] \in {"tuple", "array", "adt"}
  /\ Len(Variants[p.type]) = 1
  /\ typed' = Emit(typed, t.at, OwnDrop(p))
  /\ work' = <<Sequence(t.at, FieldPlaces(p, 1), t.target)>> \o Tail(work)
  /\ UNCHANGED <<nextSynthetic, failed>>

\* Mutant: the Drop impl of an enum is not called.
GlueEnumWithoutImpl ==
  LET t == Head(work)
      p == t.places[1] IN
  /\ Running("glue", t)
  /\ MayNeedDropGlue[p.type]
  /\ Kind[p.type] = "adt"
  /\ Len(Variants[p.type]) > 1
  /\ work' = <<Dispatch(t.at, p, << >>, 1, t.target)>> \o Tail(work)
  /\ UNCHANGED <<typed, nextSynthetic, failed>>

(* emitDropGlueTo of an enum.                                               *)
GlueEnum ==
  LET t == Head(work)
      p == t.places[1] IN
  /\ Running("glue", t)
  /\ MayNeedDropGlue[p.type]
  /\ Kind[p.type] = "adt"
  /\ Len(Variants[p.type]) > 1
  /\ typed' = Emit(typed, t.at, OwnDrop(p))
  /\ work' = <<Dispatch(t.at, p, << >>, 1, t.target)>> \o Tail(work)
  /\ UNCHANGED <<nextSynthetic, failed>>

(* emitUnsupportedDropGlue: every caller returns failure at once, so the    *)
(* whole expansion is abandoned where it stands; the pass goes on with the  *)
(* next MIR block and fails at the end.                                     *)
GlueUnsupported ==
  LET t == Head(work)
      p == t.places[1] IN
  /\ Running("glue", t)
  /\ MayNeedDropGlue[p.type]
  /\ Kind[p.type] \in {"opaque", "uninit"} \/ Variants[p.type] = << >>
  /\ typed' = Emit(typed, t.at, OwnDrop(p))
  /\ work' = << >>
  /\ failed' = TRUE
  /\ UNCHANGED nextSynthetic

(* emitDropSequenceTo when no field needs drop glue.                        *)
SequenceEmpty ==
  LET t == Head(work) IN
  /\ Running("sequence", t)
  /\ NoneNeeds(t.places)
  /\ typed' = Emit(typed, t.at, <<Goto(t.target)>>)
  /\ work' = Tail(work)
  /\ UNCHANGED <<nextSynthetic, failed>>

(* emitDropSequenceTo, the last field that needs glue: it goes on to the    *)
(* target of the sequence.                                                  *)
SequenceLast ==
  LET t == Head(work) IN
  /\ Running("sequence", t)
  /\ \E i \in DOMAIN t.places :
       /\ FirstNeeding(t.places, i)
       /\ NoneNeeds(SubSeq(t.places, i + 1, Len(t.places)))
       /\ work' = <<Glue(t.at, t.places[i], t.target)>> \o Tail(work)
  /\ UNCHANGED <<typed, nextSynthetic, failed>>

\* Mutants of SequenceNext: the sequence continues in block k instead of the
\* new block, or the glue goes on to b instead of it.
SequenceNextVia(k, b) ==
  LET t == Head(work) IN
  /\ Running("sequence", t)
  /\ \E i \in DOMAIN t.places :
       LET rest == SubSeq(t.places, i + 1, Len(t.places)) IN
       /\ FirstNeeding(t.places, i)
       /\ ~NoneNeeds(rest)
       /\ work' = <<Glue(t.at, t.places[i], b), Sequence(k, rest, t.target)>>
                    \o Tail(work)
  /\ typed' = Synthetic(typed)
  /\ nextSynthetic' = nextSynthetic + 1
  /\ UNCHANGED failed

\* The insertion point is not moved.
SequenceNextInPlace == SequenceNextVia(Head(work).at, nextSynthetic)
\* The counter is read after it was incremented.
SequenceNextPreIncrement == SequenceNextVia(Len(typed) + 1, nextSynthetic + 1)
\* The glue of the field goes straight on to the target of the sequence.
SequenceNextSkips == SequenceNextVia(Len(typed) + 1, Head(work).target)

(* emitDropSequenceTo, any other field: a synthetic block continues the     *)
(* sequence, and the insertion point moves to it when the glue is emitted.  *)
SequenceNext ==
  LET t == Head(work) IN
  /\ Running("sequence", t)
  /\ \E i \in DOMAIN t.places :
       LET rest == SubSeq(t.places, i + 1, Len(t.places)) IN
       /\ FirstNeeding(t.places, i)
       /\ ~NoneNeeds(rest)
       /\ work' = <<Glue(t.at, t.places[i], nextSynthetic),
                    Sequence(Len(typed) + 1, rest, t.target)>> \o Tail(work)
  /\ typed' = Synthetic(typed)
  /\ nextSynthetic' = nextSynthetic + 1
  /\ UNCHANGED failed

\* Mutant: the counter is not incremented.
VariantBlockSameIndex ==
  LET t == Head(work)
      p == t.places[1] IN
  /\ Running("variants", t)
  /\ t.next <= Len(Variants[p.type])
  /\ VariantNeedsDrop(p.type, t.next)
  /\ typed' = Synthetic(typed)
  /\ LET arm == [case |-> t.next - 1, index |-> nextSynthetic,
                 at |-> Len(typed) + 1]
     IN  work' = <<Dispatch(t.at, p, Append(t.arms, arm), t.next + 1, t.target)>>
                   \o Tail(work)
  /\ UNCHANGED <<nextSynthetic, failed>>

(* emitMultiVariantAdtDropGlueTo, first loop: a block for each variant that *)
(* has something to drop.  The case is the 0-based variant index.           *)
VariantBlock ==
  LET t == Head(work)
      p == t.places[1] IN
  /\ Running("variants", t)
  /\ t.next <= Len(Variants[p.type])
  /\ VariantNeedsDrop(p.type, t.next)
  /\ typed' = Synthetic(typed)
  /\ nextSynthetic' = nextSynthetic + 1
  /\ LET arm == [case |-> t.next - 1, index |-> nextSynthetic,
                 at |-> Len(typed) + 1]
     IN  work' = <<Dispatch(t.at, p, Append(t.arms, arm), t.next + 1, t.target)>>
                   \o Tail(work)
  /\ UNCHANGED failed

VariantSkipped ==
  LET t == Head(work)
      p == t.places[1] IN
  /\ Running("variants", t)
  /\ t.next <= Len(Variants[p.type])
  /\ ~VariantNeedsDrop(p.type, t.next)
  /\ work' = <<Dispatch(t.at, p, t.arms, t.next + 1, t.target)>> \o Tail(work)
  /\ UNCHANGED <<typed, nextSynthetic, failed>>

(* No variant has anything to drop.                                         *)
NoVariantBlocks ==
  LET t == Head(work) IN
  /\ Running("variants", t)
  /\ t.next > Len(Variants[t.places[1].type])
  /\ t.arms = << >>
  /\ typed' = Emit(typed, t.at, <<Goto(t.target)>>)
  /\ work' = Tail(work)
  /\ UNCHANGED <<nextSynthetic, failed>>

\* Mutant: the fields of every variant are dropped where the switch is.
SwitchOnVariantInPlace ==
  LET t == Head(work)
      p == t.places[1] IN
  /\ Running("variants", t)
  /\ t.next > Len(Variants[p.type])
  /\ t.arms # << >>
  /\ typed' = Emit(typed, t.at, <<SwitchTag(p, t.arms, t.target)>>)
  /\ work' = [k \in DOMAIN t.arms |->
                Sequence(t.at, FieldPlaces(p, t.arms[k].case + 1),
                         t.target)] \o Tail(work)
  /\ UNCHANGED <<nextSynthetic, failed>>

(* Switch on the tag, then emitEnumVariantFieldsTo for every variant block. *)
SwitchOnVariant ==
  LET t == Head(work)
      p == t.places[1] IN
  /\ Running("variants", t)
  /\ t.next > Len(Variants[p.type])
  /\ t.arms # << >>
  /\ typed' = Emit(typed, t.at, <<SwitchTag(p, t.arms, t.target)>>)
  /\ work' = [k \in DOMAIN t.arms |->
                Sequence(t.arms[k].at, FieldPlaces(p, t.arms[k].case + 1),
                         t.target)] \o Tail(work)
  /\ UNCHANGED <<nextSynthetic, failed>>

EmitDropGlue ==
  \/ GlueNotNeeded \/ GlueOneShape \/ GlueEnum \/ GlueUnsupported
  \/ SequenceEmpty \/ SequenceLast \/ SequenceNext
  \/ VariantBlock \/ VariantSkipped \/ NoVariantBlocks \/ SwitchOnVariant

Next == Scan \/ ScanDone \/ LiftBlock \/ LiftDrop \/ EmitDropGlue \/ Finish

Spec == Init /\ [][Next]_liftVars /\ WF_liftVars(Next)

-----------------------------------------------------------------------------
(* Properties of the pass.                                                  *)

Arm == [case : Nat, index : Nat, at : Nat]

TypedOp ==
  [op : {"goto", "return", "unreachable", "switch_int", "assert", "call"},
   targets : SUBSET Nat]
    \cup [op : {"drop_impl", "drop_bridge"}, targets : SUBSET Nat,
          place : Place]
    \cup [op : {"switch_tag"}, targets : SUBSET Nat, place : Place,
          arms : Seq(Arm), default : Nat]

TypedBlock == [index : Nat, ops : Seq(TypedOp)]

PendingEmission ==
  [kind : {"glue", "sequence", "variants"}, at : Nat, places : Seq(Place),
   arms : Seq(Arm), next : Nat \ {0}, target : Nat]

(* The shapes of the pass's state.                                          *)
TypeOK ==
  /\ func \in Funcs
  /\ pos \in 0..Len(func)
  /\ typed \in Seq(TypedBlock)
  /\ nextSynthetic \in Nat
  /\ work \in Seq(PendingEmission)
  /\ failed \in BOOLEAN
  /\ phase \in {"scanning", "lifting", "done", "failed"}
  /\ sourceKept \in BOOLEAN

Lifted == IF phase = "scanning" THEN {} ELSE {func[i].index : i \in 1..pos}

(* No two typed blocks have the same index, and no synthetic block has the  *)
(* index of a MIR block, lifted already or still to come: the counter of    *)
(* createSyntheticTypedBlock and the pre-scan of runOnOperation that sets   *)
(* it keep all drops of a function apart.  TypedBlockConversion refuses a   *)
(* function with a repeated index.                                          *)
FreshIndices ==
  /\ \A j, k \in DOMAIN typed : typed[j].index = typed[k].index => j = k
  /\ \A k \in DOMAIN typed :
       typed[k].index \in MirIndices(func) => typed[k].index \in Lifted

(* When the pass is done every branch of the typed function goes to one of  *)
(* its blocks (lowerTypedTerminator refuses an unknown target).             *)
TargetsKnown ==
  phase = "done" =>
    \A k \in DOMAIN typed : \A i \in DOMAIN typed[k].ops :
      typed[k].ops[i].targets \subseteq {typed[j].index : j \in DOMAIN typed}

(* The operations os end with a terminator; none but the last of them is    *)
(* one.                                                                     *)
Ends(os) == os # << >> /\ IsTerminator(os[Len(os)])
LastOnly(os) == \A i \in 1..(Len(os) - 1) : ~IsTerminator(os[i])

Closed(k) == Ends(typed[k].ops)

(* The blocks the pending emission t is to end: its own and, once an enum's *)
(* variant blocks exist, those.                                             *)
Owns(t) == {t.at} \cup {t.arms[i].at : i \in DOMAIN t.arms}

OwnersApart ==
  \A i, j \in DOMAIN work : i # j => Owns(work[i]) \cap Owns(work[j]) = {}

OwnedOpen == \A i \in DOMAIN work : \A k \in Owns(work[i]) : ~Closed(k)

OthersClosed ==
  ~failed => \A k \in DOMAIN typed :
               Closed(k) \/ \E i \in DOMAIN work : k \in Owns(work[i])

(* The insertion point is handed from emission to emission so that every    *)
(* block is ended by exactly one of them: nothing follows a terminator, two *)
(* pending emissions never share a block, a block somebody is still to end  *)
(* has no terminator, and unless the pass has failed every other block has  *)
(* one (findTypedTerminator takes the first, lowerTypedTerminator refuses   *)
(* one that is not last).                                                   *)
BlockDiscipline ==
  /\ \A k \in DOMAIN typed : LastOnly(typed[k].ops)
  /\ OwnersApart
  /\ OwnedOpen
  /\ OthersClosed

(* The block b is a MIR block, or an operation goes to it.                  *)
Entered(b) ==
  \/ b \in MirIndices(func)
  \/ \E j \in DOMAIN typed : \E i \in DOMAIN typed[j].ops :
       b \in typed[j].ops[i].targets

(* No synthetic block is left behind without a way in: continuations are    *)
(* entered from the glue of the field before, variant blocks from the       *)
(* switch (emitDropSequenceTo, emitMultiVariantAdtDropGlueTo).              *)
SyntheticEntered ==
  phase = "done" => \A k \in DOMAIN typed : Entered(typed[k].index)

(* A block that has its terminator is never touched again, whatever drop is *)
(* expanded after it.                                                       *)
ClosedBlocksAreFinal ==
  [][\A k \in DOMAIN typed : Closed(k) => typed'[k] = typed[k]]_liftVars

-----------------------------------------------------------------------------
(* The inductive invariant behind FreshIndices and TargetsKnown.            *)

IndicesOf(blocks) == {blocks[k].index : k \in DOMAIN blocks}

(* Where a branch may go: a block that exists or a MIR block to be lifted.  *)
Targetable(blocks) == MirIndices(func) \cup IndicesOf(blocks)

EmissionOK(t, blocks) ==
  /\ t.at \in DOMAIN blocks
  /\ t.target \in Targetable(blocks)
  /\ t.kind \in {"glue", "variants"} => Len(t.places) = 1
  /\ t.kind # "variants" => t.arms = << >>
  /\ \A i \in DOMAIN t.arms :
       /\ t.arms[i].at \in DOMAIN blocks
       /\ t.arms[i].index \in IndicesOf(blocks)
       /\ t.arms[i].case + 1 \in DOMAIN Variants[t.places[1].type]

Phases ==
  /\ phase = "scanning" => typed = << >> /\ work = << >>
  /\ phase = "done" => work = << >> /\ pos = Len(func)

(* The counter is above every MIR block scanned and every typed block.      *)
CounterAbove ==
  /\ \A k \in DOMAIN typed : typed[k].index < nextSynthetic
  /\ \A i \in 1..(IF phase = "scanning" THEN pos ELSE Len(func)) :
       func[i].index < nextSynthetic

LiftedExist == Lifted \subseteq IndicesOf(typed)

TargetsExist ==
  \A k \in DOMAIN typed : \A i \in DOMAIN typed[k].ops :
    typed[k].ops[i].targets \subseteq Targetable(typed)

EmissionsOK == \A i \in DOMAIN work : EmissionOK(work[i], typed)

IndexInv ==
  /\ TypeOK
  /\ Phases
  /\ FreshIndices
  /\ CounterAbove
  /\ LiftedExist
  /\ TargetsExist
  /\ EmissionsOK

-----------------------------------------------------------------------------
(* The inductive invariant behind BlockDiscipline and SyntheticEntered.     *)

(* The variant blocks of an enum are apart from each other and from the     *)
(* block of the switch that will go to them.                                *)
ArmsApart(t) ==
  /\ \A a \in DOMAIN t.arms : t.arms[a].at # t.at
  /\ \A a, b \in DOMAIN t.arms : t.arms[a].at = t.arms[b].at => a = b

(* The blocks the pending emission t is to go to.                           *)
Awaits(t) == {t.target} \cup {t.arms[i].index : i \in DOMAIN t.arms}

(* Every block is entered already or by an emission still pending.          *)
NoneForgotten ==
  ~failed => \A k \in DOMAIN typed :
    \/ Entered(typed[k].index)
    \/ \E i \in DOMAIN work : typed[k].index \in Awaits(work[i])

(* Together with IndexInv: BlockDiscipline, and the three facts that carry  *)
(* it and SyntheticEntered from one emission to the next (the walk of       *)
(* emitDropGlueTo, emitDropSequenceTo and emitMultiVariantAdtDropGlueTo     *)
(* over the blocks of a function).                                          *)
BlockInv ==
  /\ BlockDiscipline
  /\ \A i \in DOMAIN work : ArmsApart(work[i])
  /\ NoneForgotten
  /\ phase = "done" => ~failed

=============================================================================
