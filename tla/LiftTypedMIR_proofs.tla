------------------------ MODULE LiftTypedMIR_proofs -------------------------
(***************************************************************************)
(* Theorems about rust-lift-typed-mir for every type table and every body:  *)
(* the counter of synthetic blocks never produces an index twice, and every *)
(* branch the pass leaves behind goes to a block of the function (the       *)
(* inductive invariant is IndexInv of LiftTypedMIR); every block is ended   *)
(* by exactly one emission, a block that was ended is final, and no         *)
(* synthetic block is left without a way in (BlockInv, next to IndexInv).   *)
(*                                                                          *)
(* The lemmas of the first part treat the three things an action does (emit *)
(* operations, create a block, push and pop pending emissions) once, and    *)
(* then each action.  In the second part every action of the glue but the   *)
(* one that gives up does the same thing: it pops the emission t on top of  *)
(* the stack, appends operations os to the block of t, perhaps creates a    *)
(* block, and pushes emissions f that share what t owned, the new block     *)
(* included.  Handover says what that keeps; the lemmas after it check of   *)
(* each action that it is such a handover.                                  *)
(***************************************************************************)
EXTENDS LiftTypedMIR, TLAPS

-----------------------------------------------------------------------------
(* Sequence facts.                                                          *)

(* Popping the head of w and pushing f.                                     *)
LEMMA PopPush ==
  ASSUME NEW S, NEW w \in Seq(S), w # << >>, NEW f \in Seq(S),
         NEW s, s = f \o Tail(w)
  PROVE  /\ s \in Seq(S)
         /\ Len(s) = Len(f) + Len(w) - 1
         /\ \A i \in 1..Len(f) : s[i] = f[i]
         /\ \A i \in DOMAIN s : i > Len(f) => /\ i - Len(f) + 1 \in DOMAIN w
                                              /\ i - Len(f) + 1 > 1
                                              /\ s[i] = w[i - Len(f) + 1]
  OBVIOUS

(* Popping the head of w.                                                   *)
LEMMA Pop ==
  ASSUME NEW S, NEW w \in Seq(S), w # << >>
  PROVE  /\ Tail(w) \in Seq(S)
         /\ Len(Tail(w)) = Len(w) - 1
         /\ \A i \in DOMAIN Tail(w) : i + 1 \in DOMAIN w /\ Tail(w)[i] = w[i + 1]
  OBVIOUS

(* Emit changes the operations of one block.                                *)
LEMMA EmitFacts ==
  ASSUME NEW blocks \in Seq(TypedBlock), NEW k \in DOMAIN blocks,
         NEW os \in Seq(TypedOp)
  PROVE  /\ Emit(blocks, k, os) \in Seq(TypedBlock)
         /\ DOMAIN Emit(blocks, k, os) = DOMAIN blocks
         /\ Len(Emit(blocks, k, os)) = Len(blocks)
         /\ \A j \in DOMAIN blocks :
              Emit(blocks, k, os)[j].index = blocks[j].index
         /\ \A j \in DOMAIN blocks \ {k} :
              Emit(blocks, k, os)[j] = blocks[j]
         /\ Emit(blocks, k, os)[k].ops = blocks[k].ops \o os
<1>1. blocks[k] \in TypedBlock
  OBVIOUS
<1>2. blocks[k].ops \in Seq(TypedOp) /\ blocks[k].index \in Nat
  BY <1>1 DEF TypedBlock
<1>3. blocks[k].ops \o os \in Seq(TypedOp)
  BY <1>2
<1> DEFINE b == [blocks[k] EXCEPT !.ops = @ \o os]
<1>4. b = [index |-> blocks[k].index, ops |-> blocks[k].ops \o os]
  <2>1. ASSUME NEW r \in [index : Nat, ops : Seq(TypedOp)], NEW o
        PROVE  [r EXCEPT !.ops = o] = [index |-> r.index, ops |-> o]
    OBVIOUS
  <2> QED BY <1>1, <2>1 DEF TypedBlock
<1>5. b \in TypedBlock
  BY <1>2, <1>3, <1>4 DEF TypedBlock
<1>6. Emit(blocks, k, os) = [blocks EXCEPT ![k] = b]
  BY DEF Emit
<1>7. b.index = blocks[k].index /\ b.ops = blocks[k].ops \o os
  BY <1>4
<1> HIDE DEF b
<1> QED
  BY <1>5, <1>6, <1>7

(* Appending a block keeps the blocks there were, and adds its index.       *)
LEMMA AppendBlock ==
  ASSUME NEW blocks \in Seq(TypedBlock), NEW n \in Nat, NEW os \in Seq(TypedOp)
  PROVE  LET s == Append(blocks, [index |-> n, ops |-> os]) IN
         /\ s \in Seq(TypedBlock)
         /\ Len(s) = Len(blocks) + 1
         /\ DOMAIN s = DOMAIN blocks \cup {Len(blocks) + 1}
         /\ \A j \in DOMAIN blocks : s[j] = blocks[j]
         /\ s[Len(blocks) + 1].index = n
         /\ s[Len(blocks) + 1].ops = os
<1>1. [index |-> n, ops |-> os] \in TypedBlock
  BY DEF TypedBlock
<1> QED BY <1>1

(* The components of a place are places.                                    *)
LEMMA FieldPlacesType ==
  ASSUME NEW p \in Place, NEW v \in DOMAIN Variants[p.type]
  PROVE  FieldPlaces(p, v) \in Seq(Place)
<1> DEFINE shape == Variants[p.type][v]
           tag   == IF Len(Variants[p.type]) = 1 THEN 0 ELSE v
           n     == IF Kind[p.type] = "array" THEN ArrayLength[p.type]
                                              ELSE Len(shape)
           part  == [i \in 1..n |-> IF Kind[p.type] = "array" THEN shape[1]
                                                              ELSE shape[i]]
<1>1. p.type \in Type /\ p.addr \in Seq(Step)
  BY DEF Place, Address
<1>2. Variants[p.type] \in Seq(Seq(Type)) /\ shape \in Seq(Type) /\ v \in Nat
  <2>1. Variants[p.type] \in Seq(Seq(Type))
    BY <1>1, TypeTable
  <2> QED BY <2>1
<1>3. n \in Nat
  <2>1. ArrayLength[p.type] \in Nat
    BY <1>1, TypeTable
  <2>2. Len(shape) \in Nat
    BY <1>2
  <2> QED BY <2>1, <2>2
<1>4. ASSUME NEW i \in 1..n PROVE part[i] \in Type
  <2>1. CASE Kind[p.type] = "array"
    <3>1. v = 1 /\ Len(shape) = 1
      BY <1>1, <1>2, <2>1, RustcTypes
    <3> QED BY <2>1, <3>1, <1>2
  <2>2. CASE Kind[p.type] # "array"
    BY <2>2, <1>2
  <2> QED BY <2>1, <2>2
<1>5. tag \in Nat
  BY <1>2
<1>6. ASSUME NEW i \in 1..n
      PROVE [type |-> part[i], addr |-> Append(p.addr, <<tag, i>>)] \in Place
  <2>1. <<tag, i>> \in Step
    BY <1>5, <1>3 DEF Step
  <2>2. Append(p.addr, <<tag, i>>) \in Address
    BY <2>1, <1>1 DEF Address
  <2> QED BY <2>2, <1>4 DEF Place
<1> DEFINE fields ==
      [i \in 1..n |-> [type |-> part[i], addr |-> Append(p.addr, <<tag, i>>)]]
<1>7. FieldPlaces(p, v) = fields
  BY DEF FieldPlaces
<1>8. fields \in [1..n -> Place]
  BY <1>6
<1> HIDE DEF n, part, tag, shape, fields
<1> QED BY <1>3, <1>7, <1>8

-----------------------------------------------------------------------------
(* What the assumptions say of a body.                                      *)

(* What the assumptions on bodies say of one MIR block.                     *)
LEMMA BodyFacts ==
  ASSUME NEW f \in Funcs
  PROVE  /\ f \in Seq(MirBlock)
         /\ f # << >>
         /\ Len(f) \in Nat
         /\ MirIndices(f) \subseteq Nat
         /\ \A i, j \in DOMAIN f : f[i].index = f[j].index => i = j
         /\ \A i \in DOMAIN f :
              /\ f[i].index \in MirIndices(f)
              /\ f[i].liftable \in BOOLEAN
              /\ f[i].term \in PlainTerminator \cup DropTerminator
              /\ f[i].term.targets \subseteq MirIndices(f)
<1>1. f \in Seq(MirBlock) /\ f # << >>
  BY Bodies
<1>2. \A i \in DOMAIN f : f[i] \in MirBlock
  BY <1>1
<1>3. \A i \in DOMAIN f : /\ f[i].index \in Nat
                         /\ f[i].liftable \in BOOLEAN
                         /\ f[i].term \in PlainTerminator \cup DropTerminator
  BY <1>2 DEF MirBlock
<1> QED BY <1>1, <1>3, Bodies DEF MirIndices

(* The only target of a terminator is a block of the body.                  *)
LEMMA TargetOfType ==
  ASSUME NEW f \in Funcs, NEW i \in DOMAIN f,
         \/ f[i].term.op \in {"goto", "assert", "drop"}
         \/ f[i].term.op = "call" /\ f[i].term.targets # {}
  PROVE  TargetOf(f[i].term) \in MirIndices(f)
<1>1. \E b \in MirIndices(f) : f[i].term.targets = {b}
  BY SingleTargets
<1> QED BY <1>1 DEF TargetOf

(* The operations of the pass are typed operations.                         *)
LEMMA OpTypes ==
  /\ \A b \in Nat : Goto(b) \in TypedOp
  /\ Return \in TypedOp /\ Unreachable \in TypedOp
  /\ Assert \in TypedOp /\ CallFunction \in TypedOp
  /\ \A bs \in SUBSET Nat : SwitchInt(bs) \in TypedOp
  /\ \A p \in Place : CallDropImpl(p) \in TypedOp /\ CallDropBridge(p) \in TypedOp
  BY DEF TypedOp, Goto, Return, Unreachable, Assert, CallFunction, SwitchInt,
         CallDropImpl, CallDropBridge

(* A terminator lowers to typed operations whose targets are blocks of the  *)
(* body.                                                                    *)
LEMMA LoweredFacts ==
  ASSUME NEW f \in Funcs, NEW i \in DOMAIN f,
         f[i].term.op = "drop" => f[i].term.bridge
  PROVE  /\ Lowered(f[i].term) \in Seq(TypedOp)
         /\ \A j \in DOMAIN Lowered(f[i].term) :
              Lowered(f[i].term)[j].targets \subseteq MirIndices(f)
<1> DEFINE term == f[i].term
<1>1. /\ term \in PlainTerminator \cup DropTerminator
      /\ term.targets \subseteq MirIndices(f)
      /\ MirIndices(f) \subseteq Nat
  BY BodyFacts
<1> HIDE DEF term
<1>2. ASSUME NEW b \in MirIndices(f)
      PROVE  Goto(b) \in TypedOp /\ Goto(b).targets \subseteq MirIndices(f)
  BY <1>1, OpTypes DEF Goto
<1>3. \/ term.op \in {"goto", "assert", "drop"}
      \/ term.op = "call" /\ term.targets # {}
      => TargetOf(term) \in MirIndices(f)
  BY TargetOfType DEF term
<1> DEFINE Good(os) == /\ os \in Seq(TypedOp)
                       /\ \A j \in DOMAIN os :
                            os[j].targets \subseteq MirIndices(f)
<1>a. CASE term.op = "goto"
  <2>1. Lowered(term) = <<Goto(TargetOf(term))>>
    BY <1>a DEF Lowered
  <2> QED BY <1>a, <2>1, <1>2, <1>3 DEF term
<1>b. CASE term.op = "return"
  <2>1. Lowered(term) = <<Return>>
    BY <1>b DEF Lowered
  <2> QED BY <2>1, OpTypes DEF Return, term
<1>c. CASE term.op = "unreachable"
  <2>1. Lowered(term) = <<Unreachable>>
    BY <1>c DEF Lowered
  <2> QED BY <2>1, OpTypes DEF Unreachable, term
<1>d. CASE term.op = "switch_int"
  <2>1. Lowered(term) = <<SwitchInt(term.targets)>>
    BY <1>d DEF Lowered
  <2>2. SwitchInt(term.targets) \in TypedOp
    BY <1>1, OpTypes
  <2> QED BY <1>1, <2>1, <2>2 DEF SwitchInt, term
<1>e. CASE term.op = "assert"
  <2>1. Lowered(term) = <<Assert, Goto(TargetOf(term))>>
    BY <1>e DEF Lowered
  <2>2. Assert \in TypedOp /\ Assert.targets = {}
    BY OpTypes DEF Assert
  <2> QED BY <1>e, <2>1, <2>2, <1>2, <1>3 DEF term
<1>f. CASE term.op = "call"
  <2>1. Lowered(term) = <<CallFunction, IF term.targets = {} THEN Unreachable
                                        ELSE Goto(TargetOf(term))>>
    BY <1>f DEF Lowered
  <2>2. CallFunction \in TypedOp /\ CallFunction.targets = {}
    BY OpTypes DEF CallFunction
  <2>3. Unreachable \in TypedOp /\ Unreachable.targets = {}
    BY OpTypes DEF Unreachable
  <2>4. CASE term.targets = {}
    BY <2>1, <2>2, <2>3, <2>4 DEF term
  <2>5. CASE term.targets # {}
    BY <1>f, <2>1, <2>2, <2>5, <1>2, <1>3 DEF term
  <2> QED BY <2>4, <2>5
<1>g. CASE term.op = "drop"
  <2>1. Lowered(term) = <<CallDropBridge(term.place), Goto(TargetOf(term))>>
    BY <1>g DEF Lowered
  <2>2. term.place \in Place
    BY <1>1, <1>g DEF PlainTerminator, DropTerminator
  <2>3. /\ CallDropBridge(term.place) \in TypedOp
        /\ CallDropBridge(term.place).targets = {}
    BY <2>2, OpTypes DEF CallDropBridge
  <2> QED BY <1>g, <2>1, <2>3, <1>2, <1>3 DEF term
<1>h. CASE term.op = "unliftable"
  <2>1. Lowered(term) = << >>
    BY <1>h DEF Lowered
  <2> QED BY <2>1 DEF term
<1>9. term.op \in {"goto", "return", "unreachable", "switch_int", "assert",
                   "call", "drop", "unliftable"}
  BY <1>1 DEF PlainTerminator, DropTerminator
<1> QED BY <1>9, <1>a, <1>b, <1>c, <1>d, <1>e, <1>f, <1>g, <1>h

-----------------------------------------------------------------------------
(* The three ways the typed function changes, and the way work does, each   *)
(* with what it keeps of IndexInv.                                          *)

(* Operations are emitted into block k.                                     *)
LEMMA EmitKeeps ==
  ASSUME IndexInv, NEW k \in DOMAIN typed, NEW os \in Seq(TypedOp),
         \A i \in DOMAIN os : os[i].targets \subseteq Targetable(typed),
         typed' = Emit(typed, k, os),
         UNCHANGED <<func, pos, nextSynthetic, phase>>
  PROVE  /\ typed' \in Seq(TypedBlock)
         /\ DOMAIN typed' = DOMAIN typed
         /\ IndicesOf(typed') = IndicesOf(typed)
         /\ FreshIndices' /\ CounterAbove' /\ LiftedExist' /\ TargetsExist'
<1>1. typed \in Seq(TypedBlock)
  BY DEF IndexInv, TypeOK
<1>2. /\ typed' \in Seq(TypedBlock)
      /\ DOMAIN typed' = DOMAIN typed
      /\ \A j \in DOMAIN typed : typed'[j].index = typed[j].index
      /\ \A j \in DOMAIN typed \ {k} : typed'[j] = typed[j]
      /\ typed'[k].ops = typed[k].ops \o os
  BY <1>1, EmitFacts
<1>3. IndicesOf(typed') = IndicesOf(typed)
  BY <1>2 DEF IndicesOf
<1>4. FreshIndices'
  <2>1. Lifted' = Lifted /\ MirIndices(func)' = MirIndices(func)
    BY DEF Lifted
  <2> QED BY <1>2, <2>1 DEF IndexInv, FreshIndices
<1>5. CounterAbove'
  BY <1>2 DEF IndexInv, CounterAbove
<1>6. LiftedExist'
  BY <1>3 DEF IndexInv, LiftedExist, Lifted
<1>7. TargetsExist'
  <2> SUFFICES ASSUME NEW j \in DOMAIN typed', NEW i \in DOMAIN typed'[j].ops
               PROVE  typed'[j].ops[i].targets \subseteq Targetable(typed)
    BY <1>3 DEF TargetsExist, Targetable
  <2>1. CASE j # k
    BY <2>1, <1>2 DEF IndexInv, TargetsExist
  <2>2. CASE j = k
    <3>1. typed[k].ops \in Seq(TypedOp)
      <4>1. typed[k] \in TypedBlock
        BY <1>1
      <4> QED BY <4>1 DEF TypedBlock
    <3>2. \/ i \in DOMAIN typed[k].ops /\ typed'[j].ops[i] = typed[k].ops[i]
          \/ \E n \in DOMAIN os : typed'[j].ops[i] = os[n]
      <4>1. typed'[j].ops = typed[k].ops \o os
        BY <2>2, <1>2
      <4>2. CASE i <= Len(typed[k].ops)
        BY <3>1, <4>1, <4>2
      <4>3. CASE i > Len(typed[k].ops)
        <5>1. i - Len(typed[k].ops) \in DOMAIN os
          BY <3>1, <4>1, <4>3
        <5>2. typed'[j].ops[i] = os[i - Len(typed[k].ops)]
          BY <3>1, <4>1, <4>3
        <5> QED BY <5>1, <5>2
      <4> QED BY <3>1, <4>1, <4>2, <4>3
    <3> QED BY <3>2 DEF IndexInv, TargetsExist
  <2> QED BY <2>1, <2>2
<1> QED BY <1>2, <1>3, <1>4, <1>5, <1>6, <1>7

(* A synthetic block is created.                                            *)
LEMMA SyntheticKeeps ==
  ASSUME IndexInv, phase = "lifting", typed' = Synthetic(typed),
         nextSynthetic' = nextSynthetic + 1,
         UNCHANGED <<func, pos, phase>>
  PROVE  /\ typed' \in Seq(TypedBlock)
         /\ nextSynthetic' \in Nat
         /\ Len(typed') = Len(typed) + 1
         /\ Len(typed) \in Nat
         /\ DOMAIN typed' = DOMAIN typed \cup {Len(typed) + 1}
         /\ IndicesOf(typed') = IndicesOf(typed) \cup {nextSynthetic}
         /\ FreshIndices' /\ CounterAbove' /\ LiftedExist' /\ TargetsExist'
<1>1. typed \in Seq(TypedBlock) /\ nextSynthetic \in Nat /\ func \in Funcs
  BY DEF IndexInv, TypeOK
<1>2. /\ typed' \in Seq(TypedBlock)
      /\ Len(typed') = Len(typed) + 1
      /\ DOMAIN typed' = DOMAIN typed \cup {Len(typed) + 1}
      /\ \A j \in DOMAIN typed : typed'[j] = typed[j]
      /\ typed'[Len(typed) + 1].index = nextSynthetic
      /\ typed'[Len(typed) + 1].ops = << >>
  <2>1. << >> \in Seq(TypedOp)
    OBVIOUS
  <2>2. typed' = Append(typed, [index |-> nextSynthetic, ops |-> << >>])
    BY DEF Synthetic
  <2> DEFINE s == Append(typed, [index |-> nextSynthetic, ops |-> << >>])
  <2>3. /\ s \in Seq(TypedBlock)
        /\ Len(s) = Len(typed) + 1
        /\ DOMAIN s = DOMAIN typed \cup {Len(typed) + 1}
        /\ \A j \in DOMAIN typed : s[j] = typed[j]
        /\ s[Len(typed) + 1].index = nextSynthetic
        /\ s[Len(typed) + 1].ops = << >>
    BY <1>1, <2>1, AppendBlock
  <2> HIDE DEF s
  <2>4. typed' = s
    BY <2>2 DEF s
  <2> QED BY <2>3, <2>4
<1>3. IndicesOf(typed') = IndicesOf(typed) \cup {nextSynthetic}
  BY <1>2 DEF IndicesOf
<1>4. \A j \in DOMAIN typed : typed[j].index < nextSynthetic
  BY DEF IndexInv, CounterAbove
<1>5. \A j \in DOMAIN typed : typed[j].index \in Nat
  <2>1. \A j \in DOMAIN typed : typed[j] \in TypedBlock
    BY <1>1
  <2> QED BY <2>1 DEF TypedBlock
<1>6. \A i \in DOMAIN func : func[i].index < nextSynthetic
  BY <1>1, BodyFacts DEF IndexInv, CounterAbove
<1>7. nextSynthetic \notin MirIndices(func)
  <2>1. \A i \in DOMAIN func : func[i].index \in Nat
    BY <1>1, BodyFacts
  <2> QED BY <1>1, <1>6, <2>1 DEF MirIndices
<1>8. FreshIndices'
  <2>1. ASSUME NEW j \in DOMAIN typed', NEW k \in DOMAIN typed',
               typed'[j].index = typed'[k].index
        PROVE  j = k
    <3>1. CASE j \in DOMAIN typed /\ k \in DOMAIN typed
      BY <2>1, <3>1, <1>2 DEF IndexInv, FreshIndices
    <3>2. CASE j = Len(typed) + 1 /\ k = Len(typed) + 1
      BY <3>2
    <3>3. CASE j \in DOMAIN typed /\ k = Len(typed) + 1
      BY <2>1, <3>3, <1>1, <1>2, <1>4, <1>5
    <3>4. CASE k \in DOMAIN typed /\ j = Len(typed) + 1
      BY <2>1, <3>4, <1>1, <1>2, <1>4, <1>5
    <3> QED BY <1>2, <3>1, <3>2, <3>3, <3>4
  <2>2. ASSUME NEW j \in DOMAIN typed', typed'[j].index \in MirIndices(func)
        PROVE  typed'[j].index \in Lifted
    BY <2>2, <1>2, <1>7 DEF IndexInv, FreshIndices
  <2>3. Lifted' = Lifted /\ MirIndices(func)' = MirIndices(func)
    BY DEF Lifted
  <2> QED BY <2>1, <2>2, <2>3 DEF FreshIndices
<1>9. CounterAbove'
  <2>1. \A j \in DOMAIN typed' : typed'[j].index < nextSynthetic'
    BY <1>1, <1>2, <1>4, <1>5
  <2>2. \A i \in 1..Len(func) : func[i].index < nextSynthetic'
    <3>1. \A i \in 1..Len(func) : func[i].index \in Nat
      BY <1>1, BodyFacts
    <3> QED BY <1>1, <1>6, <3>1, BodyFacts
  <2> QED BY <2>1, <2>2 DEF CounterAbove
<1>10. LiftedExist'
  BY <1>3 DEF IndexInv, LiftedExist, Lifted
<1>11. TargetsExist'
  <2>1. Targetable(typed) \subseteq Targetable(typed')
    BY <1>3 DEF Targetable
  <2>2. ASSUME NEW j \in DOMAIN typed', NEW i \in DOMAIN typed'[j].ops
        PROVE  typed'[j].ops[i].targets \subseteq Targetable(typed')
    <3>1. j \in DOMAIN typed
      BY <1>2
    <3> QED BY <3>1, <1>2, <2>1 DEF IndexInv, TargetsExist
  <2> QED BY <2>2 DEF TargetsExist, Targetable
<1> QED BY <1>1, <1>2, <1>3, <1>8, <1>9, <1>10, <1>11

(* The head of work is popped and f pushed, while blocks only get added.    *)
LEMMA WorkKeeps ==
  ASSUME IndexInv, work # << >>, NEW f \in Seq(PendingEmission),
         \A i \in DOMAIN f : EmissionOK(f[i], typed'),
         DOMAIN typed \subseteq DOMAIN typed',
         IndicesOf(typed) \subseteq IndicesOf(typed'),
         work' = f \o Tail(work), UNCHANGED func
  PROVE  work' \in Seq(PendingEmission) /\ EmissionsOK'
<1>1. work \in Seq(PendingEmission)
  BY DEF IndexInv, TypeOK
<1>2. /\ work' \in Seq(PendingEmission)
      /\ \A i \in 1..Len(f) : work'[i] = f[i]
      /\ \A i \in DOMAIN work' :
           i > Len(f) => /\ i - Len(f) + 1 \in DOMAIN work
                         /\ work'[i] = work[i - Len(f) + 1]
  BY <1>1, PopPush
<1>3. \A i \in DOMAIN work : EmissionOK(work[i], typed')
  BY DEF IndexInv, EmissionsOK, EmissionOK, Targetable
<1>4. ASSUME NEW i \in DOMAIN work' PROVE EmissionOK(work'[i], typed')
  <2>1. CASE i > Len(f)
    BY <2>1, <1>2, <1>3
  <2>2. CASE i <= Len(f)
    <3>1. i \in 1..Len(f) /\ i \in DOMAIN f
      BY <2>2, <1>2
    <3> QED BY <3>1, <1>2
  <2> QED BY <1>2, <2>1, <2>2
<1>5. EmissionsOK'
  BY <1>4 DEF EmissionsOK, EmissionOK, Targetable
<1> QED BY <1>2, <1>5

(* The emission on top of the stack.                                        *)
LEMMA HeadFacts ==
  ASSUME IndexInv, work # << >>, NEW t, t = Head(work)
  PROVE  /\ t \in PendingEmission
         /\ EmissionOK(t, typed)
         /\ t.at \in Nat /\ t.at \in DOMAIN typed
         /\ t.places \in Seq(Place)
         /\ t.arms \in Seq(Arm)
         /\ t.next \in Nat \ {0}
         /\ t.target \in Nat /\ t.target \in Targetable(typed)
         /\ t.kind \in {"glue", "variants"} => t.places[1] \in Place
         /\ Tail(work) = << >> \o Tail(work)
<1>1. work \in Seq(PendingEmission)
  BY DEF IndexInv, TypeOK
<1>2. t \in PendingEmission /\ t = work[1] /\ 1 \in DOMAIN work
  BY <1>1
<1>3. EmissionOK(t, typed)
  BY <1>2 DEF IndexInv, EmissionsOK
<1>4. /\ t.at \in Nat /\ t.places \in Seq(Place) /\ t.arms \in Seq(Arm)
      /\ t.next \in Nat \ {0} /\ t.target \in Nat
  BY <1>2 DEF PendingEmission
<1>5. t.kind \in {"glue", "variants"} => t.places[1] \in Place
  BY <1>3, <1>4 DEF EmissionOK
<1> QED BY <1>1, <1>2, <1>3, <1>4, <1>5 DEF EmissionOK

(* The emissions an action pushes are well formed.                          *)
LEMMA NewEmissions ==
  ASSUME NEW k \in Nat, NEW b \in Nat
  PROVE  /\ \A p \in Place : Glue(k, p, b) \in PendingEmission
         /\ \A ps \in Seq(Place) : Sequence(k, ps, b) \in PendingEmission
         /\ \A p \in Place : \A arms \in Seq(Arm) : \A v \in Nat \ {0} :
              Dispatch(k, p, arms, v, b) \in PendingEmission
  BY DEF Glue, Sequence, Dispatch, Pending, PendingEmission

(* The emissions an action pushes keep the invariant's shape when the       *)
(* blocks grow.                                                             *)
LEMMA NewEmissionsOK ==
  ASSUME NEW blocks, NEW k \in DOMAIN blocks, NEW b \in Targetable(blocks)
  PROVE  /\ \A p : EmissionOK(Glue(k, p, b), blocks)
         /\ \A ps : EmissionOK(Sequence(k, ps, b), blocks)
         /\ \A p, v : EmissionOK(Dispatch(k, p, << >>, v, b), blocks)
  BY DEF Glue, Sequence, Dispatch, Pending, EmissionOK

(* A pending emission stays well formed when blocks are only added.         *)
LEMMA EmissionMonotone ==
  ASSUME NEW a, NEW b, DOMAIN a \subseteq DOMAIN b,
         IndicesOf(a) \subseteq IndicesOf(b), NEW t, EmissionOK(t, a)
  PROVE  EmissionOK(t, b)
  BY DEF EmissionOK, Targetable

(* What remains to be shown of an emit action.                              *)
LEMMA RunningKeeps ==
  ASSUME IndexInv, phase = "lifting", UNCHANGED <<func, pos, phase, sourceKept>>,
         typed' \in Seq(TypedBlock), nextSynthetic' \in Nat,
         work' \in Seq(PendingEmission), failed' \in BOOLEAN,
         FreshIndices', CounterAbove', LiftedExist', TargetsExist', EmissionsOK'
  PROVE  IndexInv'
<1>1. TypeOK'
  BY DEF IndexInv, TypeOK
<1>2. Phases'
  BY DEF Phases
<1> QED BY <1>1, <1>2 DEF IndexInv

(* An emit action that appends os to its block and makes the calls f.       *)
LEMMA EmitStep ==
  ASSUME IndexInv, work # << >>, phase = "lifting",
         NEW os \in Seq(TypedOp),
         \A i \in DOMAIN os : os[i].targets \subseteq Targetable(typed),
         NEW f \in Seq(PendingEmission),
         \A i \in DOMAIN f : EmissionOK(f[i], typed),
         typed' = Emit(typed, Head(work).at, os),
         work' = f \o Tail(work),
         UNCHANGED <<func, pos, phase, sourceKept, nextSynthetic, failed>>
  PROVE  IndexInv'
<1>1. Head(work).at \in DOMAIN typed
  BY HeadFacts
<1>2. /\ typed' \in Seq(TypedBlock)
      /\ DOMAIN typed' = DOMAIN typed
      /\ IndicesOf(typed') = IndicesOf(typed)
      /\ FreshIndices' /\ CounterAbove' /\ LiftedExist' /\ TargetsExist'
  BY <1>1, EmitKeeps
<1>3. \A i \in DOMAIN f : EmissionOK(f[i], typed')
  BY <1>2, EmissionMonotone
<1>4. work' \in Seq(PendingEmission) /\ EmissionsOK'
  BY <1>2, <1>3, WorkKeeps
<1>5. nextSynthetic' \in Nat /\ failed' \in BOOLEAN
  BY DEF IndexInv, TypeOK
<1> QED BY <1>2, <1>4, <1>5, RunningKeeps

(* An emit action that only makes the calls f.                              *)
LEMMA CallStep ==
  ASSUME IndexInv, work # << >>, phase = "lifting",
         NEW f \in Seq(PendingEmission),
         \A i \in DOMAIN f : EmissionOK(f[i], typed),
         work' = f \o Tail(work),
         UNCHANGED <<func, pos, phase, sourceKept, typed, nextSynthetic, failed>>
  PROVE  IndexInv'
<1>1. work' \in Seq(PendingEmission) /\ EmissionsOK'
  BY WorkKeeps
<1>2. /\ typed' \in Seq(TypedBlock) /\ nextSynthetic' \in Nat
      /\ failed' \in BOOLEAN
  BY DEF IndexInv, TypeOK
<1>3. Lifted' = Lifted
  BY DEF Lifted
<1>4. FreshIndices' /\ LiftedExist'
  BY <1>3 DEF IndexInv, FreshIndices, LiftedExist
<1>5. CounterAbove'
  BY DEF IndexInv, CounterAbove
<1>6. TargetsExist'
  BY DEF IndexInv, TargetsExist, Targetable
<1> QED BY <1>1, <1>2, <1>4, <1>5, <1>6, RunningKeeps

(* An emit action that creates a synthetic block and makes the calls f.     *)
LEMMA SyntheticStep ==
  ASSUME IndexInv, work # << >>, phase = "lifting",
         NEW f \in Seq(PendingEmission),
         \A i \in DOMAIN f : EmissionOK(f[i], Synthetic(typed)),
         typed' = Synthetic(typed),
         nextSynthetic' = nextSynthetic + 1,
         work' = f \o Tail(work),
         UNCHANGED <<func, pos, phase, sourceKept, failed>>
  PROVE  IndexInv'
<1>1. /\ typed' \in Seq(TypedBlock)
      /\ nextSynthetic' \in Nat
      /\ DOMAIN typed \subseteq DOMAIN typed'
      /\ IndicesOf(typed) \subseteq IndicesOf(typed')
      /\ FreshIndices' /\ CounterAbove' /\ LiftedExist' /\ TargetsExist'
  BY SyntheticKeeps
<1>2. \A i \in DOMAIN f : EmissionOK(f[i], typed')
  OBVIOUS
<1>3. work' \in Seq(PendingEmission) /\ EmissionsOK'
  BY <1>1, <1>2, WorkKeeps
<1>4. failed' \in BOOLEAN
  BY DEF IndexInv, TypeOK
<1> QED BY <1>1, <1>3, <1>4, RunningKeeps

-----------------------------------------------------------------------------
(* The emit actions.                                                        *)

(* A goto to the target of a pending emission is a typed operation with a   *)
(* target that exists.                                                      *)
LEMMA GotoTarget ==
  ASSUME IndexInv, work # << >>
  PROVE  LET os == <<Goto(Head(work).target)>> IN
         /\ os \in Seq(TypedOp)
         /\ \A i \in DOMAIN os : os[i].targets \subseteq Targetable(typed)
<1>1. Head(work).target \in Nat /\ Head(work).target \in Targetable(typed)
  BY HeadFacts
<1>2. Goto(Head(work).target) \in TypedOp
  BY <1>1, OpTypes
<1> QED BY <1>1, <1>2 DEF Goto

(* The call of a Drop impl is a typed operation without targets.            *)
LEMMA OwnDropFacts ==
  ASSUME NEW p \in Place
  PROVE  /\ OwnDrop(p) \in Seq(TypedOp)
         /\ \A i \in DOMAIN OwnDrop(p) :
              OwnDrop(p)[i].targets \subseteq Targetable(typed)
<1>1. CallDropImpl(p) \in TypedOp /\ CallDropImpl(p).targets = {}
  BY OpTypes DEF CallDropImpl
<1> QED BY <1>1 DEF OwnDrop

(* An action that ends the emission on top of the stack with a goto.        *)
LEMMA EndOfEmission ==
  ASSUME IndexInv, work # << >>, phase = "lifting",
         typed' = Emit(typed, Head(work).at, <<Goto(Head(work).target)>>),
         work' = Tail(work),
         UNCHANGED <<func, pos, phase, sourceKept, nextSynthetic, failed>>
  PROVE  IndexInv'
<1> DEFINE f == << >>
<1>1. f \in Seq(PendingEmission) /\ \A i \in DOMAIN f : EmissionOK(f[i], typed)
  OBVIOUS
<1>2. work' = f \o Tail(work)
  BY HeadFacts
<1> HIDE DEF f
<1> QED BY <1>1, <1>2, GotoTarget, EmitStep

(* A tuple, an array or a struct becomes the sequence of its components.    *)
LEMMA GlueOneShapeStep == IndexInv /\ GlueOneShape => IndexInv'
<1> SUFFICES ASSUME IndexInv, GlueOneShape PROVE IndexInv'
  OBVIOUS
<1> DEFINE t == Head(work)
           p == t.places[1]
           f == <<Sequence(t.at, FieldPlaces(p, 1), t.target)>>
<1>1. /\ work # << >> /\ phase = "lifting" /\ t.kind = "glue"
      /\ Len(Variants[p.type]) = 1
      /\ typed' = Emit(typed, t.at, OwnDrop(p))
      /\ work' = f \o Tail(work)
      /\ UNCHANGED <<func, pos, phase, sourceKept, nextSynthetic, failed>>
  BY DEF GlueOneShape, Running
<1>2. /\ p \in Place /\ t.at \in Nat /\ t.at \in DOMAIN typed
      /\ t.target \in Nat /\ t.target \in Targetable(typed)
  BY <1>1, HeadFacts
<1>3. FieldPlaces(p, 1) \in Seq(Place)
  <2>1. 1 \in DOMAIN Variants[p.type]
    <3>1. Variants[p.type] \in Seq(Seq(Type))
      BY <1>2, TypeTable DEF Place
    <3> QED BY <1>1, <3>1
  <2> QED BY <1>2, <2>1, FieldPlacesType
<1>4. f \in Seq(PendingEmission) /\ \A i \in DOMAIN f : EmissionOK(f[i], typed)
  <2>1. Sequence(t.at, FieldPlaces(p, 1), t.target) \in PendingEmission
    BY <1>2, <1>3, NewEmissions
  <2>2. EmissionOK(Sequence(t.at, FieldPlaces(p, 1), t.target), typed)
    BY <1>2, NewEmissionsOK
  <2> QED BY <2>1, <2>2
<1> HIDE DEF f, p
<1> QED BY <1>1, <1>2, <1>4, OwnDropFacts, EmitStep

(* An enum becomes a dispatch over its variants, from the first.            *)
LEMMA GlueEnumStep == IndexInv /\ GlueEnum => IndexInv'
<1> SUFFICES ASSUME IndexInv, GlueEnum PROVE IndexInv'
  OBVIOUS
<1> DEFINE t == Head(work)
           p == t.places[1]
           f == <<Dispatch(t.at, p, << >>, 1, t.target)>>
<1>1. /\ work # << >> /\ phase = "lifting" /\ t.kind = "glue"
      /\ typed' = Emit(typed, t.at, OwnDrop(p))
      /\ work' = f \o Tail(work)
      /\ UNCHANGED <<func, pos, phase, sourceKept, nextSynthetic, failed>>
  BY DEF GlueEnum, Running
<1>2. /\ p \in Place /\ t.at \in Nat /\ t.at \in DOMAIN typed
      /\ t.target \in Nat /\ t.target \in Targetable(typed)
  BY <1>1, HeadFacts
<1>3. f \in Seq(PendingEmission) /\ \A i \in DOMAIN f : EmissionOK(f[i], typed)
  <2>1. << >> \in Seq(Arm) /\ 1 \in Nat \ {0}
    OBVIOUS
  <2>2. Dispatch(t.at, p, << >>, 1, t.target) \in PendingEmission
    BY <1>2, <2>1, NewEmissions
  <2>3. EmissionOK(Dispatch(t.at, p, << >>, 1, t.target), typed)
    BY <1>2, NewEmissionsOK
  <2> QED BY <2>2, <2>3
<1> HIDE DEF f, p
<1> QED BY <1>1, <1>2, <1>3, OwnDropFacts, EmitStep

(* Abandoning an expansion empties the stack.                               *)
LEMMA GlueUnsupportedStep == IndexInv /\ GlueUnsupported => IndexInv'
<1> SUFFICES ASSUME IndexInv, GlueUnsupported PROVE IndexInv'
  OBVIOUS
<1> DEFINE t == Head(work)
           p == t.places[1]
<1>1. /\ work # << >> /\ phase = "lifting" /\ t.kind = "glue"
      /\ typed' = Emit(typed, t.at, OwnDrop(p))
      /\ work' = << >> /\ failed' = TRUE
      /\ UNCHANGED <<func, pos, phase, sourceKept, nextSynthetic>>
  BY DEF GlueUnsupported, Running
<1>2. p \in Place /\ t.at \in DOMAIN typed
  BY <1>1, HeadFacts
<1>3. /\ typed' \in Seq(TypedBlock)
      /\ FreshIndices' /\ CounterAbove' /\ LiftedExist' /\ TargetsExist'
  <2> HIDE DEF t, p
  <2> QED BY <1>1, <1>2, OwnDropFacts, EmitKeeps
<1>4. work' \in Seq(PendingEmission) /\ EmissionsOK'
  BY <1>1 DEF EmissionsOK
<1>5. nextSynthetic' \in Nat /\ failed' \in BOOLEAN
  BY <1>1 DEF IndexInv, TypeOK
<1> QED BY <1>1, <1>3, <1>4, <1>5, RunningKeeps

(* The last field that needs glue inherits the target of the sequence.      *)
LEMMA SequenceLastStep == IndexInv /\ SequenceLast => IndexInv'
<1> SUFFICES ASSUME IndexInv, SequenceLast PROVE IndexInv'
  OBVIOUS
<1> DEFINE t == Head(work)
<1>1. /\ work # << >> /\ phase = "lifting"
      /\ UNCHANGED <<func, pos, phase, sourceKept, typed, nextSynthetic, failed>>
  BY DEF SequenceLast, Running
<1>2. PICK i \in DOMAIN t.places :
        work' = <<Glue(t.at, t.places[i], t.target)>> \o Tail(work)
  BY DEF SequenceLast
<1> DEFINE f == <<Glue(t.at, t.places[i], t.target)>>
<1>3. /\ t.places[i] \in Place /\ t.at \in Nat /\ t.at \in DOMAIN typed
      /\ t.target \in Nat /\ t.target \in Targetable(typed)
  <2>1. t.places \in Seq(Place)
    BY <1>1, HeadFacts
  <2> QED BY <1>1, <2>1, HeadFacts
<1>4. f \in Seq(PendingEmission) /\ \A j \in DOMAIN f : EmissionOK(f[j], typed)
  <2>1. Glue(t.at, t.places[i], t.target) \in PendingEmission
    BY <1>3, NewEmissions
  <2>2. EmissionOK(Glue(t.at, t.places[i], t.target), typed)
    BY <1>3, NewEmissionsOK
  <2> QED BY <2>1, <2>2
<1>5. work' = f \o Tail(work)
  BY <1>2
<1> HIDE DEF f, t
<1> QED BY <1>1, <1>4, <1>5, CallStep

(* A field before the last one goes on to a new block, whose index is above *)
(* every other.                                                             *)
LEMMA SequenceNextStep == IndexInv /\ SequenceNext => IndexInv'
<1> SUFFICES ASSUME IndexInv, SequenceNext PROVE IndexInv'
  OBVIOUS
<1> DEFINE t == Head(work)
           rest(i) == SubSeq(t.places, i + 1, Len(t.places))
<1>1. /\ work # << >> /\ phase = "lifting"
      /\ typed' = Synthetic(typed) /\ nextSynthetic' = nextSynthetic + 1
      /\ UNCHANGED <<func, pos, phase, sourceKept, failed>>
  BY DEF SequenceNext, Running
<1>2. PICK i \in DOMAIN t.places :
        work' = <<Glue(t.at, t.places[i], nextSynthetic),
                  Sequence(Len(typed) + 1, rest(i), t.target)>> \o Tail(work)
  BY DEF SequenceNext
<1> DEFINE f == <<Glue(t.at, t.places[i], nextSynthetic),
                  Sequence(Len(typed) + 1, rest(i), t.target)>>
<1>3. /\ t.places \in Seq(Place) /\ t.at \in Nat /\ t.at \in DOMAIN typed
      /\ t.target \in Nat /\ t.target \in Targetable(typed)
  BY <1>1, HeadFacts
<1>4. t.places[i] \in Place /\ rest(i) \in Seq(Place)
  BY <1>3
<1>5. /\ typed' \in Seq(TypedBlock) /\ nextSynthetic \in Nat
      /\ Len(typed) \in Nat
      /\ DOMAIN typed' = DOMAIN typed \cup {Len(typed) + 1}
      /\ IndicesOf(typed') = IndicesOf(typed) \cup {nextSynthetic}
  BY <1>1, SyntheticKeeps DEF IndexInv, TypeOK
<1>6. f \in Seq(PendingEmission) /\ \A j \in DOMAIN f : EmissionOK(f[j], typed')
  <2>1. Glue(t.at, t.places[i], nextSynthetic) \in PendingEmission
    BY <1>3, <1>4, <1>5, NewEmissions
  <2>2. Sequence(Len(typed) + 1, rest(i), t.target) \in PendingEmission
    <3> HIDE DEF rest, t
    <3>1. Len(typed) + 1 \in Nat
      BY <1>5
    <3> QED BY <3>1, <1>3, <1>4, NewEmissions
  <2>3. /\ t.at \in DOMAIN typed' /\ Len(typed) + 1 \in DOMAIN typed'
        /\ nextSynthetic \in Targetable(typed')
        /\ t.target \in Targetable(typed')
    BY <1>3, <1>5 DEF Targetable
  <2>4. EmissionOK(Glue(t.at, t.places[i], nextSynthetic), typed')
    BY <2>3, NewEmissionsOK
  <2>5. EmissionOK(Sequence(Len(typed) + 1, rest(i), t.target), typed')
    BY <2>3, NewEmissionsOK
  <2> HIDE DEF rest
  <2> QED BY <2>1, <2>2, <2>4, <2>5
<1>7. work' = f \o Tail(work)
  BY <1>2
<1> HIDE DEF f, t
<1> QED BY <1>1, <1>6, <1>7, SyntheticStep

(* The variant an arm was created for is a variant of the enum.             *)
LEMMA VariantBlockStep == IndexInv /\ VariantBlock => IndexInv'
<1> SUFFICES ASSUME IndexInv, VariantBlock PROVE IndexInv'
  OBVIOUS
<1> DEFINE t   == Head(work)
           p   == t.places[1]
           arm == [case |-> t.next - 1, index |-> nextSynthetic,
                   at |-> Len(typed) + 1]
           d   == Dispatch(t.at, p, Append(t.arms, arm), t.next + 1, t.target)
           f   == <<d>>
<1>1. /\ work # << >> /\ phase = "lifting" /\ t.kind = "variants"
      /\ t.next <= Len(Variants[p.type])
      /\ typed' = Synthetic(typed) /\ nextSynthetic' = nextSynthetic + 1
      /\ work' = f \o Tail(work)
      /\ UNCHANGED <<func, pos, phase, sourceKept, failed>>
  BY DEF VariantBlock, Running
<1>2. /\ p \in Place /\ t.at \in Nat /\ t.at \in DOMAIN typed
      /\ t.target \in Nat /\ t.target \in Targetable(typed)
      /\ t.next \in Nat \ {0} /\ t.arms \in Seq(Arm)
      /\ EmissionOK(t, typed)
  BY <1>1, HeadFacts
<1>3. /\ typed' \in Seq(TypedBlock) /\ nextSynthetic \in Nat
      /\ Len(typed) \in Nat
      /\ DOMAIN typed' = DOMAIN typed \cup {Len(typed) + 1}
      /\ IndicesOf(typed') = IndicesOf(typed) \cup {nextSynthetic}
  BY <1>1, SyntheticKeeps DEF IndexInv, TypeOK
<1>4. t.next \in DOMAIN Variants[p.type]
  <2>1. Variants[p.type] \in Seq(Seq(Type))
    BY <1>2, TypeTable DEF Place
  <2> QED BY <1>1, <1>2, <2>1
<1>5. arm \in Arm
  BY <1>2, <1>3 DEF Arm
<1>6. Append(t.arms, arm) \in Seq(Arm) /\ t.next + 1 \in Nat \ {0}
  <2> HIDE DEF arm
  <2> QED BY <1>2, <1>5
<1>7. d \in PendingEmission
  <2> HIDE DEF arm
  <2> QED BY <1>2, <1>6, NewEmissions
<1>8. EmissionOK(d, typed')
  <2> DEFINE arms == Append(t.arms, arm)
  <2>1. /\ d.at = t.at /\ d.target = t.target /\ d.kind = "variants"
        /\ d.places = <<p>> /\ d.arms = arms
    BY DEF Dispatch, Pending
  <2>2. /\ arm.at = Len(typed) + 1 /\ arm.index = nextSynthetic
        /\ arm.case + 1 = t.next
    BY <1>2
  <2>3. /\ DOMAIN arms = DOMAIN t.arms \cup {Len(t.arms) + 1}
        /\ \A i \in DOMAIN t.arms : arms[i] = t.arms[i]
        /\ arms[Len(t.arms) + 1] = arm
    <3>1. t.arms \in Seq(Arm)
      BY <1>2
    <3> HIDE DEF t, arm
    <3> QED BY <1>5, <3>1
  <2> HIDE DEF d, arm, arms, t
  <2>4. ASSUME NEW i \in DOMAIN d.arms
        PROVE  /\ d.arms[i].at \in DOMAIN typed'
               /\ d.arms[i].index \in IndicesOf(typed')
               /\ d.arms[i].case + 1 \in DOMAIN Variants[p.type]
    <3>1. CASE i \in DOMAIN t.arms
      <4>1. d.arms[i] = t.arms[i]
        BY <2>1, <2>3, <3>1
      <4> QED BY <1>2, <1>3, <3>1, <4>1 DEF EmissionOK, t
    <3>2. CASE i = Len(t.arms) + 1
      <4>1. d.arms[i] = arm
        BY <2>1, <2>3, <3>2
      <4> QED BY <1>3, <1>4, <2>2, <4>1
    <3> QED BY <2>1, <2>3, <3>1, <3>2
  <2> QED BY <1>2, <1>3, <2>1, <2>4 DEF EmissionOK, Targetable
<1>9. f \in Seq(PendingEmission) /\ \A j \in DOMAIN f : EmissionOK(f[j], typed')
  <2> HIDE DEF d
  <2> QED BY <1>7, <1>8
<1> HIDE DEF f
<1> QED BY <1>1, <1>9, SyntheticStep

(* A variant without anything to drop gets no block.                        *)
LEMMA VariantSkippedStep == IndexInv /\ VariantSkipped => IndexInv'
<1> SUFFICES ASSUME IndexInv, VariantSkipped PROVE IndexInv'
  OBVIOUS
<1> DEFINE t == Head(work)
           p == t.places[1]
           d == Dispatch(t.at, p, t.arms, t.next + 1, t.target)
           f == <<d>>
<1>1. /\ work # << >> /\ phase = "lifting" /\ t.kind = "variants"
      /\ work' = f \o Tail(work)
      /\ UNCHANGED <<func, pos, phase, sourceKept, typed, nextSynthetic, failed>>
  BY DEF VariantSkipped, Running
<1>2. /\ p \in Place /\ t.at \in Nat /\ t.at \in DOMAIN typed
      /\ t.target \in Nat /\ t.target \in Targetable(typed)
      /\ t.next \in Nat \ {0} /\ t.arms \in Seq(Arm)
      /\ EmissionOK(t, typed)
  BY <1>1, HeadFacts
<1>3. d \in PendingEmission
  <2>1. t.next + 1 \in Nat \ {0}
    BY <1>2
  <2> QED BY <1>2, <2>1, NewEmissions
<1>4. EmissionOK(d, typed)
  <2>1. /\ d.at = t.at /\ d.target = t.target /\ d.kind = "variants"
        /\ d.places = <<p>> /\ d.arms = t.arms
    BY DEF Dispatch, Pending
  <2> HIDE DEF d
  <2> QED BY <1>2, <2>1 DEF EmissionOK
<1>5. f \in Seq(PendingEmission) /\ \A j \in DOMAIN f : EmissionOK(f[j], typed)
  <2> HIDE DEF d
  <2> QED BY <1>3, <1>4
<1> HIDE DEF f
<1> QED BY <1>1, <1>5, CallStep

(* The switch of an enum's glue goes to the variant blocks made for it or   *)
(* to its target.                                                           *)
LEMMA SwitchOnVariantStep == IndexInv /\ SwitchOnVariant => IndexInv'
<1> SUFFICES ASSUME IndexInv, SwitchOnVariant PROVE IndexInv'
  OBVIOUS
<1> DEFINE t == Head(work)
           p == t.places[1]
           s == SwitchTag(p, t.arms, t.target)
           e(k) == Sequence(t.arms[k].at, FieldPlaces(p, t.arms[k].case + 1),
                            t.target)
           f == [k \in DOMAIN t.arms |-> e(k)]
<1>1. /\ work # << >> /\ phase = "lifting" /\ t.kind = "variants"
      /\ typed' = Emit(typed, t.at, <<s>>)
      /\ work' = f \o Tail(work)
      /\ UNCHANGED <<func, pos, phase, sourceKept, nextSynthetic, failed>>
  BY DEF SwitchOnVariant, Running
<1>2. /\ p \in Place /\ t.at \in Nat /\ t.at \in DOMAIN typed
      /\ t.target \in Nat /\ t.target \in Targetable(typed)
      /\ t.arms \in Seq(Arm)
      /\ EmissionOK(t, typed)
  BY <1>1, HeadFacts
<1>3. \A k \in DOMAIN t.arms :
        /\ t.arms[k].case \in Nat /\ t.arms[k].index \in Nat
        /\ t.arms[k].at \in Nat /\ t.arms[k].at \in DOMAIN typed
        /\ t.arms[k].index \in Targetable(typed)
        /\ t.arms[k].case + 1 \in DOMAIN Variants[p.type]
  <2>1. \A k \in DOMAIN t.arms : t.arms[k] \in Arm
    BY <1>2
  <2> QED BY <1>2, <2>1 DEF Arm, EmissionOK, Targetable
<1>4. s \in TypedOp /\ s.targets \subseteq Targetable(typed)
  <2>1. s = [op |-> "switch_tag", place |-> p, arms |-> t.arms,
             default |-> t.target,
             targets |-> {t.target} \cup {t.arms[k].index : k \in DOMAIN t.arms}]
    BY DEF SwitchTag
  <2>2. s.targets \in SUBSET Nat /\ s.targets \subseteq Targetable(typed)
    BY <1>2, <1>3, <2>1
  <2> QED BY <1>2, <2>1, <2>2 DEF TypedOp
<1>5. ASSUME NEW k \in DOMAIN t.arms
      PROVE  e(k) \in PendingEmission /\ EmissionOK(e(k), typed)
  <2>1. FieldPlaces(p, t.arms[k].case + 1) \in Seq(Place)
    BY <1>2, <1>3, FieldPlacesType
  <2> HIDE DEF t
  <2> QED BY <1>2, <1>3, <2>1, NewEmissions, NewEmissionsOK
<1>6. f \in Seq(PendingEmission) /\ \A k \in DOMAIN f : EmissionOK(f[k], typed)
  <2>1. f \in [1..Len(t.arms) -> PendingEmission] /\ Len(t.arms) \in Nat
    <3> HIDE DEF e, t
    <3> QED BY <1>2, <1>5
  <2>2. f \in Seq(PendingEmission)
    <3> HIDE DEF f
    <3> QED BY <2>1
  <2> HIDE DEF e, t
  <2> QED BY <1>5, <2>2
<1>7. <<s>> \in Seq(TypedOp) /\ \A i \in DOMAIN <<s>> :
                                  <<s>>[i].targets \subseteq Targetable(typed)
  <2> HIDE DEF s
  <2> QED BY <1>4
<1> DEFINE os == <<s>>
<1>8. os \in Seq(TypedOp) /\ \A i \in DOMAIN os : os[i].targets \subseteq Targetable(typed)
  BY <1>7
<1>9. typed' = Emit(typed, Head(work).at, os)
  BY <1>1
<1> HIDE DEF f, os
<1> QED BY <1>1, <1>6, <1>8, <1>9, EmitStep

(* Every action of the drop-glue expansion keeps the invariant.             *)
LEMMA EmitDropGlueStep == IndexInv /\ EmitDropGlue => IndexInv'
<1> SUFFICES ASSUME IndexInv, EmitDropGlue PROVE IndexInv'
  OBVIOUS
<1>1. CASE GlueNotNeeded
  BY <1>1, EndOfEmission DEF GlueNotNeeded, Running
<1>2. CASE SequenceEmpty
  BY <1>2, EndOfEmission DEF SequenceEmpty, Running
<1>3. CASE NoVariantBlocks
  BY <1>3, EndOfEmission DEF NoVariantBlocks, Running
<1> QED
  BY <1>1, <1>2, <1>3, GlueOneShapeStep, GlueEnumStep, GlueUnsupportedStep,
     SequenceLastStep, SequenceNextStep, VariantBlockStep, VariantSkippedStep,
     SwitchOnVariantStep
     DEF EmitDropGlue

-----------------------------------------------------------------------------
(* The steps of the pass outside the glue.                                  *)

(* BeginBlock with its typed block holding the operations os keeps the      *)
(* indices apart: the block lifted next is none of the earlier ones, and no *)
(* synthetic block took its index.                                          *)
LEMMA BlockLifted ==
  ASSUME IndexInv, BeginBlock, NEW os \in Seq(TypedOp),
         \A i \in DOMAIN os : os[i].targets \subseteq MirIndices(func),
         typed' = Append(typed, [index |-> func[pos + 1].index, ops |-> os])
  PROVE  /\ typed' \in Seq(TypedBlock)
         /\ Len(typed) + 1 \in Nat
         /\ Len(typed) + 1 \in DOMAIN typed'
         /\ pos' \in 0..Len(func)
         /\ FreshIndices' /\ CounterAbove' /\ LiftedExist' /\ TargetsExist'
<1> DEFINE n == func[pos + 1].index
<1>1. /\ typed \in Seq(TypedBlock) /\ nextSynthetic \in Nat /\ func \in Funcs
      /\ pos \in 0..Len(func)
  BY DEF IndexInv, TypeOK
<1>2. /\ phase = "lifting" /\ pos < Len(func) /\ pos' = pos + 1
      /\ func' = func /\ phase' = phase /\ nextSynthetic' = nextSynthetic
  BY DEF BeginBlock
<1>3. /\ pos + 1 \in DOMAIN func /\ pos' \in 0..Len(func) /\ pos \in Nat
      /\ n \in MirIndices(func) /\ n \in Nat
  <2>1. func \in Seq(MirBlock) /\ Len(func) \in Nat
    BY <1>1, BodyFacts
  <2>2. pos + 1 \in DOMAIN func /\ pos' \in 0..Len(func) /\ pos \in Nat
    BY <1>1, <1>2, <2>1
  <2> QED BY <1>1, <2>2, BodyFacts
<1>4. /\ typed' \in Seq(TypedBlock)
      /\ Len(typed') = Len(typed) + 1
      /\ DOMAIN typed' = DOMAIN typed \cup {Len(typed) + 1}
      /\ \A j \in DOMAIN typed : typed'[j] = typed[j]
      /\ typed'[Len(typed) + 1].index = n
      /\ typed'[Len(typed) + 1].ops = os
  <2> DEFINE s == Append(typed, [index |-> n, ops |-> os])
  <2>1. typed' = s
    OBVIOUS
  <2>2. /\ s \in Seq(TypedBlock)
        /\ Len(s) = Len(typed) + 1
        /\ DOMAIN s = DOMAIN typed \cup {Len(typed) + 1}
        /\ \A j \in DOMAIN typed : s[j] = typed[j]
        /\ s[Len(typed) + 1].index = n
        /\ s[Len(typed) + 1].ops = os
    BY <1>1, <1>3, AppendBlock
  <2> HIDE DEF s, n
  <2> QED BY <2>1, <2>2
<1> HIDE DEF n
<1>5. IndicesOf(typed') = IndicesOf(typed) \cup {n}
  BY <1>4 DEF IndicesOf
<1>6. Lifted = {func[i].index : i \in 1..pos}
  BY <1>2 DEF Lifted
<1>7. Lifted' = Lifted \cup {n}
  <2>1. Lifted' = {func[i].index : i \in 1..(pos + 1)}
    BY <1>2 DEF Lifted
  <2>2. 1..(pos + 1) = 1..pos \cup {pos + 1}
    BY <1>3
  <2> QED BY <1>6, <2>1, <2>2 DEF n
<1>8. n \notin Lifted
  <2>1. ASSUME NEW i \in 1..pos PROVE func[i].index # n
    <3>1. i \in DOMAIN func /\ i # pos + 1
      <4>1. func \in Seq(MirBlock)
        BY <1>1, BodyFacts
      <4> QED BY <1>1, <1>3, <4>1
    <3> QED BY <1>1, <1>3, <3>1, BodyFacts DEF n
  <2> QED BY <1>6, <2>1
<1>9. \A j \in DOMAIN typed : typed[j].index # n
  BY <1>3, <1>8 DEF IndexInv, FreshIndices
<1>10. FreshIndices'
  <2>1. ASSUME NEW j \in DOMAIN typed', NEW k \in DOMAIN typed',
               typed'[j].index = typed'[k].index
        PROVE  j = k
    <3>1. CASE j \in DOMAIN typed /\ k \in DOMAIN typed
      BY <2>1, <3>1, <1>4 DEF IndexInv, FreshIndices
    <3>2. CASE j = Len(typed) + 1 /\ k = Len(typed) + 1
      BY <3>2
    <3>3. CASE j \in DOMAIN typed /\ k = Len(typed) + 1
      BY <2>1, <3>3, <1>4, <1>9
    <3>4. CASE k \in DOMAIN typed /\ j = Len(typed) + 1
      BY <2>1, <3>4, <1>4, <1>9
    <3> QED BY <1>4, <3>1, <3>2, <3>3, <3>4
  <2>2. ASSUME NEW j \in DOMAIN typed', typed'[j].index \in MirIndices(func)
        PROVE  typed'[j].index \in Lifted'
    <3>1. CASE j \in DOMAIN typed
      BY <2>2, <3>1, <1>4, <1>7 DEF IndexInv, FreshIndices
    <3>2. CASE j = Len(typed) + 1
      BY <3>2, <1>4, <1>7
    <3> QED BY <1>4, <3>1, <3>2
  <2>3. MirIndices(func)' = MirIndices(func)
    BY <1>2
  <2> QED BY <2>1, <2>2, <2>3 DEF FreshIndices
<1>11. CounterAbove'
  <2>1. \A i \in 1..Len(func) : func[i].index < nextSynthetic
    BY <1>2 DEF IndexInv, CounterAbove
  <2>2. n < nextSynthetic
    <3>1. pos + 1 \in 1..Len(func)
      BY <1>3, <1>1, <1>2
    <3> QED BY <2>1, <3>1 DEF n
  <2>3. \A j \in DOMAIN typed' : typed'[j].index < nextSynthetic
    <3>1. \A j \in DOMAIN typed : typed[j].index < nextSynthetic
      BY DEF IndexInv, CounterAbove
    <3> QED BY <1>4, <2>2, <3>1
  <2> QED BY <1>2, <2>1, <2>3 DEF CounterAbove
<1>12. LiftedExist'
  BY <1>5, <1>7 DEF IndexInv, LiftedExist
<1>13. TargetsExist'
  <2>1. Targetable(typed) \subseteq Targetable(typed')
    BY <1>5 DEF Targetable
  <2>2. ASSUME NEW j \in DOMAIN typed', NEW i \in DOMAIN typed'[j].ops
        PROVE  typed'[j].ops[i].targets \subseteq Targetable(typed')
    <3>1. CASE j \in DOMAIN typed
      BY <3>1, <1>4, <2>1 DEF IndexInv, TargetsExist
    <3>2. CASE j = Len(typed) + 1
      BY <3>2, <1>4 DEF Targetable
    <3> QED BY <1>4, <3>1, <3>2
  <2>3. Targetable(typed)' = Targetable(typed')
    BY <1>2 DEF Targetable
  <2> QED BY <2>2, <2>3 DEF TargetsExist
<1>14. Len(typed) + 1 \in Nat
  BY <1>1
<1> QED BY <1>3, <1>4, <1>10, <1>11, <1>12, <1>13, <1>14

(* A block whose terminator is not an unbridged drop.                       *)
LEMMA LiftBlockStep == IndexInv /\ LiftBlock => IndexInv'
<1> SUFFICES ASSUME IndexInv, LiftBlock PROVE IndexInv'
  OBVIOUS
<1> DEFINE os == Lowered(func[pos + 1].term)
<1>1. /\ BeginBlock /\ work = << >> /\ work' = work
      /\ func' = func /\ nextSynthetic' = nextSynthetic /\ phase' = phase
      /\ phase = "lifting" /\ sourceKept' = sourceKept
      /\ typed' = Append(typed, [index |-> func[pos + 1].index, ops |-> os])
      /\ func[pos + 1].term.op = "drop" => func[pos + 1].term.bridge
      /\ pos < Len(func)
      /\ failed' = (failed \/ ~func[pos + 1].liftable
                       \/ func[pos + 1].term.op = "unliftable")
  BY DEF LiftBlock, BeginBlock
<1>2. /\ func \in Funcs /\ pos \in 0..Len(func) /\ nextSynthetic \in Nat
      /\ sourceKept \in BOOLEAN /\ failed \in BOOLEAN
      /\ pos + 1 \in DOMAIN func
  <2>1. /\ func \in Funcs /\ pos \in 0..Len(func) /\ nextSynthetic \in Nat
        /\ sourceKept \in BOOLEAN /\ failed \in BOOLEAN
    BY DEF IndexInv, TypeOK
  <2>2. func \in Seq(MirBlock)
    BY <2>1, BodyFacts
  <2> QED BY <1>1, <2>1, <2>2
<1>3. /\ os \in Seq(TypedOp)
      /\ \A i \in DOMAIN os : os[i].targets \subseteq MirIndices(func)
  BY <1>1, <1>2, LoweredFacts
<1> HIDE DEF os
<1>4. /\ typed' \in Seq(TypedBlock) /\ pos' \in 0..Len(func)
      /\ FreshIndices' /\ CounterAbove' /\ LiftedExist' /\ TargetsExist'
  BY <1>1, <1>3, BlockLifted
<1>5. work' \in Seq(PendingEmission) /\ EmissionsOK'
  BY <1>1 DEF EmissionsOK
<1>6. TypeOK'
  <2>1. failed' \in BOOLEAN
    BY <1>1
  <2> QED BY <1>1, <1>2, <1>4, <1>5, <2>1 DEF TypeOK
<1>7. Phases'
  BY <1>1 DEF Phases
<1> QED BY <1>4, <1>5, <1>6, <1>7 DEF IndexInv

(* A block that ends in a drop lowered to glue.                             *)
LEMMA LiftDropStep == IndexInv /\ LiftDrop => IndexInv'
<1> SUFFICES ASSUME IndexInv, LiftDrop PROVE IndexInv'
  OBVIOUS
<1> DEFINE term == func[pos + 1].term
           g    == Glue(Len(typed) + 1, term.place, TargetOf(term))
           os   == << >>
<1>1. /\ BeginBlock /\ work' = <<g>>
      /\ func' = func /\ nextSynthetic' = nextSynthetic /\ phase' = phase
      /\ phase = "lifting" /\ sourceKept' = sourceKept
      /\ typed' = Append(typed, [index |-> func[pos + 1].index, ops |-> os])
      /\ term.op = "drop"
      /\ pos < Len(func)
      /\ failed' = (failed \/ ~func[pos + 1].liftable)
  BY DEF LiftDrop, BeginBlock
<1>2. /\ func \in Funcs /\ pos \in 0..Len(func) /\ nextSynthetic \in Nat
      /\ sourceKept \in BOOLEAN /\ failed \in BOOLEAN
      /\ pos + 1 \in DOMAIN func
  <2>1. /\ func \in Funcs /\ pos \in 0..Len(func) /\ nextSynthetic \in Nat
        /\ sourceKept \in BOOLEAN /\ failed \in BOOLEAN
    BY DEF IndexInv, TypeOK
  <2>2. func \in Seq(MirBlock)
    BY <2>1, BodyFacts
  <2> QED BY <1>1, <2>1, <2>2
<1>3. /\ os \in Seq(TypedOp)
      /\ \A i \in DOMAIN os : os[i].targets \subseteq MirIndices(func)
  OBVIOUS
<1>4. /\ typed' \in Seq(TypedBlock) /\ pos' \in 0..Len(func)
      /\ Len(typed) + 1 \in Nat /\ Len(typed) + 1 \in DOMAIN typed'
      /\ FreshIndices' /\ CounterAbove' /\ LiftedExist' /\ TargetsExist'
  <2> HIDE DEF os
  <2> QED BY <1>1, <1>3, BlockLifted
<1>5. /\ term.place \in Place /\ TargetOf(term) \in MirIndices(func)
      /\ TargetOf(term) \in Nat
  <2>1. term \in PlainTerminator \cup DropTerminator /\ MirIndices(func) \subseteq Nat
    BY <1>2, BodyFacts
  <2>2. term.place \in Place
    BY <1>1, <2>1 DEF PlainTerminator, DropTerminator
  <2>3. TargetOf(term) \in MirIndices(func)
    BY <1>1, <1>2, TargetOfType
  <2> QED BY <2>1, <2>2, <2>3
<1>6. g \in PendingEmission
  <2> HIDE DEF term
  <2> QED BY <1>4, <1>5, NewEmissions
<1>7. EmissionOK(g, typed')
  <2> HIDE DEF term
  <2>1. TargetOf(term) \in Targetable(typed')
    BY <1>5 DEF Targetable
  <2> QED BY <1>4, <2>1, NewEmissionsOK
<1> HIDE DEF g
<1>8. work' \in Seq(PendingEmission) /\ EmissionsOK'
  <2>1. \A i \in DOMAIN work' : work'[i] = g
    BY <1>1
  <2>2. \A i \in DOMAIN work' : EmissionOK(work'[i], typed')
    BY <1>7, <2>1
  <2>3. EmissionsOK'
    BY <1>1, <2>2 DEF EmissionsOK, EmissionOK, Targetable
  <2> QED BY <1>1, <1>6, <2>3
<1>9. TypeOK'
  <2>1. failed' \in BOOLEAN
    BY <1>1
  <2> QED BY <1>1, <1>2, <1>4, <1>8, <2>1 DEF TypeOK
<1>10. Phases'
  BY <1>1 DEF Phases
<1> QED BY <1>4, <1>8, <1>9, <1>10 DEF IndexInv

(* The pre-scan raises the counter above the block it looks at.             *)
LEMMA ScanStep == IndexInv /\ Scan => IndexInv'
<1> SUFFICES ASSUME IndexInv, Scan PROVE IndexInv'
  OBVIOUS
<1>1. /\ phase = "scanning" /\ pos < Len(func) /\ pos' = pos + 1
      /\ nextSynthetic' = IF func[pos + 1].index >= nextSynthetic
                            THEN func[pos + 1].index + 1 ELSE nextSynthetic
      /\ UNCHANGED <<func, typed, work, failed, phase, sourceKept>>
  BY DEF Scan
<1>2. func \in Funcs /\ pos \in 0..Len(func) /\ nextSynthetic \in Nat
  BY DEF IndexInv, TypeOK
<1>3. typed = << >> /\ work = << >>
  BY <1>1 DEF IndexInv, Phases
<1>4. Len(func) \in Nat /\ \A i \in 1..Len(func) : func[i].index \in Nat
  BY <1>2, BodyFacts
<1>5. pos' \in 0..Len(func) /\ pos + 1 \in 1..Len(func)
  BY <1>1, <1>2, <1>4
<1>6. nextSynthetic' \in Nat /\ nextSynthetic' >= nextSynthetic
      /\ func[pos + 1].index < nextSynthetic'
  BY <1>1, <1>2, <1>4, <1>5
<1>7. TypeOK'
  BY <1>1, <1>5, <1>6 DEF IndexInv, TypeOK
<1>8. CounterAbove'
  <2>1. \A i \in 1..pos : func[i].index < nextSynthetic
    BY <1>1 DEF IndexInv, CounterAbove
  <2>2. \A i \in 1..(pos + 1) : func[i].index < nextSynthetic'
    BY <1>2, <1>4, <1>5, <1>6, <2>1
  <2> QED BY <1>1, <1>3, <2>2 DEF CounterAbove
<1>9. Phases' /\ EmissionsOK' /\ TargetsExist' /\ FreshIndices' /\ LiftedExist'
  BY <1>1, <1>3 DEF Phases, EmissionsOK, TargetsExist, FreshIndices,
                    LiftedExist, Lifted
<1> QED BY <1>7, <1>8, <1>9 DEF IndexInv

(* From scanning to lifting: every MIR block has been scanned.              *)
LEMMA ScanDoneStep == IndexInv /\ ScanDone => IndexInv'
<1> SUFFICES ASSUME IndexInv, ScanDone PROVE IndexInv'
  OBVIOUS
<1>1. /\ phase = "scanning" /\ pos = Len(func) /\ pos' = 0
      /\ phase' = "lifting"
      /\ UNCHANGED <<func, typed, nextSynthetic, work, failed, sourceKept>>
  BY DEF ScanDone
<1>2. typed = << >> /\ work = << >> /\ func \in Funcs
  BY <1>1 DEF IndexInv, Phases, TypeOK
<1>3. Len(func) \in Nat
  BY <1>2, BodyFacts
<1>4. TypeOK'
  BY <1>1, <1>3 DEF IndexInv, TypeOK
<1>5. CounterAbove'
  BY <1>1, <1>2 DEF IndexInv, CounterAbove
<1>6. Phases' /\ EmissionsOK' /\ TargetsExist' /\ FreshIndices'
  BY <1>1, <1>2 DEF Phases, EmissionsOK, TargetsExist, FreshIndices
<1>7. LiftedExist'
  BY <1>1 DEF LiftedExist, Lifted
<1> QED BY <1>4, <1>5, <1>6, <1>7 DEF IndexInv

(* The end of the pass.                                                     *)
LEMMA FinishStep == IndexInv /\ Finish => IndexInv'
<1> SUFFICES ASSUME IndexInv, Finish PROVE IndexInv'
  OBVIOUS
<1>1. /\ phase = "lifting" /\ work = << >> /\ pos = Len(func)
      /\ phase' = IF failed THEN "failed" ELSE "done"
      /\ sourceKept' = failed
      /\ UNCHANGED <<func, pos, typed, nextSynthetic, work, failed>>
  BY DEF Finish
<1>2. TypeOK'
  BY <1>1 DEF IndexInv, TypeOK
<1>3. Lifted' = Lifted
  BY <1>1 DEF Lifted
<1>4. FreshIndices' /\ LiftedExist'
  BY <1>1, <1>3 DEF IndexInv, FreshIndices, LiftedExist
<1>5. CounterAbove' /\ TargetsExist' /\ EmissionsOK' /\ Phases'
  BY <1>1 DEF IndexInv, CounterAbove, TargetsExist, Targetable, EmissionsOK,
              EmissionOK, Phases
<1> QED BY <1>2, <1>4, <1>5 DEF IndexInv

(* A stuttering step.                                                       *)
LEMMA StutterStep == IndexInv /\ UNCHANGED liftVars => IndexInv'
<1> SUFFICES ASSUME IndexInv, UNCHANGED liftVars PROVE IndexInv'
  OBVIOUS
<1>1. UNCHANGED <<func, pos, typed, nextSynthetic, work, failed, phase, sourceKept>>
  BY DEF liftVars
<1>2. TypeOK' /\ Phases'
  BY <1>1 DEF IndexInv, TypeOK, Phases
<1>3. FreshIndices' /\ LiftedExist' /\ CounterAbove'
  BY <1>1 DEF IndexInv, FreshIndices, LiftedExist, Lifted, CounterAbove
<1>4. TargetsExist' /\ EmissionsOK'
  BY <1>1 DEF IndexInv, TargetsExist, Targetable, EmissionsOK, EmissionOK
<1> QED BY <1>2, <1>3, <1>4 DEF IndexInv

(* The pass starts with nothing lifted and a counter of 0.                  *)
LEMMA InitIndexInv == Init => IndexInv
<1> SUFFICES ASSUME Init PROVE IndexInv
  OBVIOUS
<1>1. /\ func \in Funcs /\ pos = 0 /\ typed = << >> /\ nextSynthetic = 0
      /\ work = << >> /\ failed = FALSE /\ phase = "scanning"
      /\ sourceKept = TRUE
  BY DEF Init
<1>2. Len(func) \in Nat
  BY <1>1, BodyFacts
<1>3. TypeOK
  <2>1. << >> \in Seq(TypedBlock) /\ << >> \in Seq(PendingEmission)
    OBVIOUS
  <2>2. typed \in Seq(TypedBlock) /\ work \in Seq(PendingEmission)
    BY <1>1, <2>1
  <2>3. func \in Funcs /\ pos \in 0..Len(func) /\ nextSynthetic \in Nat
    BY <1>1, <1>2
  <2>4. /\ failed \in BOOLEAN /\ sourceKept \in BOOLEAN
        /\ phase \in {"scanning", "lifting", "done", "failed"}
    BY <1>1
  <2> QED BY <2>2, <2>3, <2>4 DEF TypeOK
<1>4. Phases /\ FreshIndices /\ CounterAbove /\ LiftedExist /\ TargetsExist
      /\ EmissionsOK
  BY <1>1 DEF Phases, FreshIndices, CounterAbove, LiftedExist, Lifted,
              TargetsExist, EmissionsOK
<1> QED BY <1>3, <1>4 DEF IndexInv

-----------------------------------------------------------------------------
(* IndexInv is an invariant of the pass, on every type table and every      *)
(* body: block indices are never handed out twice, no branch and no pending *)
(* emission names a block that will not exist, and the synthetic counter    *)
(* stays above everything (createSyntheticTypedBlock, emitDropGlueTo).      *)
THEOREM IndexInvariant == Spec => []IndexInv
<1>1. Init => IndexInv
  BY InitIndexInv
<1>2. IndexInv /\ [Next]_liftVars => IndexInv'
  BY ScanStep, ScanDoneStep, LiftBlockStep, LiftDropStep, EmitDropGlueStep,
     FinishStep, StutterStep DEF Next
<1> QED BY <1>1, <1>2, PTL DEF Spec

(* The pass's state keeps its shapes, for every type table and body.        *)
THEOREM TypeCorrect == Spec => []TypeOK
<1>1. IndexInv => TypeOK
  BY DEF IndexInv
<1> QED BY <1>1, IndexInvariant, PTL

(* No two typed blocks share an index and no synthetic block takes the      *)
(* index of a MIR block, however the drops of a function nest.              *)
THEOREM IndicesAreFresh == Spec => []FreshIndices
<1>1. IndexInv => FreshIndices
  BY DEF IndexInv
<1> QED BY <1>1, IndexInvariant, PTL

(* The typed function of a pass that succeeds is closed under its branches: *)
(* every MIR block has been lifted by then, and every other target is a     *)
(* synthetic block that was created before a branch to it was emitted.      *)
THEOREM NoDanglingTargets == Spec => []TargetsKnown
<1>1. IndexInv => TargetsKnown
  <2> SUFFICES ASSUME IndexInv, phase = "done"
               PROVE  \A k \in DOMAIN typed : \A i \in DOMAIN typed[k].ops :
                        typed[k].ops[i].targets \subseteq IndicesOf(typed)
    BY DEF TargetsKnown, IndicesOf
  <2>1. pos = Len(func) /\ func \in Funcs
    BY DEF IndexInv, Phases, TypeOK
  <2>2. MirIndices(func) = Lifted
    <3>1. DOMAIN func = 1..Len(func)
      BY <2>1, BodyFacts
    <3> QED BY <2>1, <3>1 DEF Lifted, MirIndices
  <2>3. Targetable(typed) \subseteq IndicesOf(typed)
    BY <2>2 DEF IndexInv, LiftedExist, Targetable
  <2> QED BY <2>3 DEF IndexInv, TargetsExist
<1> QED BY <1>1, IndexInvariant, PTL

-----------------------------------------------------------------------------
(* Sequences of operations.                                                 *)

(* Operations after a sequence without a terminator: the whole ends as they *)
(* do.                                                                      *)
LEMMA EndsConcat ==
  ASSUME NEW a \in Seq(TypedOp), NEW b \in Seq(TypedOp),
         LastOnly(a), ~Ends(a), LastOnly(b)
  PROVE  LastOnly(a \o b) /\ (Ends(a \o b) <=> Ends(b))
<1> DEFINE c == a \o b
<1>1. /\ c \in Seq(TypedOp) /\ Len(a) \in Nat /\ Len(b) \in Nat
      /\ Len(c) = Len(a) + Len(b)
      /\ \A i \in 1..Len(a) : c[i] = a[i]
      /\ \A i \in 1..Len(c) : i > Len(a) => c[i] = b[i - Len(a)]
  OBVIOUS
<1>2. \A i \in 1..Len(a) : ~IsTerminator(a[i])
  <2>1. ASSUME NEW i \in 1..Len(a) PROVE ~IsTerminator(a[i])
    <3>1. CASE i = Len(a)
      <4>1. a # << >>
        BY <3>1
      <4> QED BY <3>1, <4>1 DEF Ends
    <3>2. CASE i # Len(a)
      BY <3>2, <1>1 DEF LastOnly
    <3> QED BY <3>1, <3>2
  <2> QED BY <2>1
<1>3. \A i \in 1..(Len(b) - 1) : ~IsTerminator(b[i])
  BY DEF LastOnly
<1>4. LastOnly(c)
  <2> SUFFICES ASSUME NEW i \in 1..(Len(c) - 1) PROVE ~IsTerminator(c[i])
    BY DEF LastOnly
  <2>1. CASE i <= Len(a)
    BY <2>1, <1>1, <1>2
  <2>2. CASE i > Len(a)
    <3>1. i - Len(a) \in 1..(Len(b) - 1) /\ c[i] = b[i - Len(a)]
      BY <2>2, <1>1
    <3> QED BY <3>1, <1>3
  <2> QED BY <2>1, <2>2, <1>1
<1>5. CASE b = << >>
  <2>1. c = a
    BY <1>5
  <2> QED BY <1>4, <1>5, <2>1 DEF Ends
<1>6. CASE b # << >>
  <2>1. c # << >> /\ c[Len(c)] = b[Len(b)]
    <3>1. Len(b) > 0
      BY <1>6
    <3>2. Len(c) - Len(a) = Len(b) /\ Len(c) > Len(a) /\ Len(c) \in 1..Len(c)
      BY <1>1, <3>1
    <3> QED BY <1>1, <3>2
  <2> QED BY <1>4, <1>6, <2>1 DEF Ends
<1> HIDE DEF c
<1> QED BY <1>5, <1>6 DEF c

(* What a sequence of one operation and the empty sequence are.             *)
LEMMA OneOp ==
  /\ LastOnly(<< >>) /\ ~Ends(<< >>)
  /\ \A o : LastOnly(<<o>>) /\ (Ends(<<o>>) <=> IsTerminator(o))
  BY DEF LastOnly, Ends

(* The call of a Drop impl ends no block.                                   *)
LEMMA OwnDropEndsNothing ==
  ASSUME NEW p
  PROVE  LastOnly(OwnDrop(p)) /\ ~Ends(OwnDrop(p))
<1>1. ~IsTerminator(CallDropImpl(p))
  BY DEF CallDropImpl, IsTerminator
<1> QED BY <1>1, OneOp DEF OwnDrop

(* The operations of an MIR terminator end the block, unless the terminator *)
(* cannot be lifted.                                                        *)
LEMMA LoweredEnds ==
  ASSUME NEW f \in Funcs, NEW i \in DOMAIN f
  PROVE  /\ LastOnly(Lowered(f[i].term))
         /\ f[i].term.op # "unliftable" => Ends(Lowered(f[i].term))
<1> DEFINE term == f[i].term
<1>1. term.op \in {"goto", "return", "unreachable", "switch_int", "assert",
                   "call", "drop", "unliftable"}
  BY BodyFacts DEF PlainTerminator, DropTerminator
<1>2. /\ \A b : IsTerminator(Goto(b)) /\ IsTerminator(SwitchInt(b))
      /\ IsTerminator(Return) /\ IsTerminator(Unreachable)
      /\ ~IsTerminator(Assert) /\ ~IsTerminator(CallFunction)
      /\ \A p : ~IsTerminator(CallDropBridge(p))
  BY DEF IsTerminator, Goto, SwitchInt, Return, Unreachable, Assert,
         CallFunction, CallDropBridge
<1>3. \A a, b : ~IsTerminator(a) /\ IsTerminator(b)
                  => LastOnly(<<a, b>>) /\ Ends(<<a, b>>)
  BY DEF LastOnly, Ends
<1> HIDE DEF term
<1>a. CASE term.op \in {"goto", "return", "unreachable", "switch_int"}
  <2>1. \E o : IsTerminator(o) /\ Lowered(term) = <<o>>
    BY <1>a, <1>2 DEF Lowered
  <2> QED BY <2>1, OneOp DEF term
<1>b. CASE term.op \in {"assert", "call", "drop"}
  <2>1. \E a, b : /\ ~IsTerminator(a) /\ IsTerminator(b)
                  /\ Lowered(term) = <<a, b>>
    BY <1>b, <1>2 DEF Lowered
  <2> QED BY <2>1, <1>3 DEF term
<1>c. CASE term.op = "unliftable"
  <2>1. Lowered(term) = << >>
    BY <1>c DEF Lowered
  <2> QED BY <1>c, <2>1, OneOp DEF term
<1> QED BY <1>1, <1>a, <1>b, <1>c

-----------------------------------------------------------------------------
(* The stack of pending emissions.                                          *)

(* What remains to be ended of the blocks of t once os is appended to its   *)
(* own.                                                                     *)
Left(t, os) == IF Ends(os) THEN Owns(t) \ {t.at} ELSE Owns(t)

(* The emissions f own the blocks ks, each block one of them.               *)
Shares(f, ks) ==
  /\ \A i \in DOMAIN f : ArmsApart(f[i]) /\ Owns(f[i]) \subseteq ks
  /\ \A i, j \in DOMAIN f : i # j => Owns(f[i]) \cap Owns(f[j]) = {}
  /\ \A k \in ks : \E i \in DOMAIN f : k \in Owns(f[i])

(* Each of the blocks bs is a target of an operation of os or awaited by an *)
(* emission of f.                                                           *)
GoesOn(bs, os, f) ==
  \A b \in bs : \/ \E i \in DOMAIN os : b \in os[i].targets
                \/ \E i \in DOMAIN f : b \in Awaits(f[i])

(* The emission t is popped: os is appended to its block, the blocks new    *)
(* are created, and the emissions f are pushed, which own what is left of t *)
(* and the new blocks, and go where t was to go unless os does.             *)
Handover(t, os, new, f) ==
  /\ LastOnly(os)
  /\ typed' \in Seq(TypedBlock)
  /\ DOMAIN typed' = DOMAIN typed \cup new
  /\ \A k \in DOMAIN typed \ {t.at} : typed'[k] = typed[k]
  /\ typed'[t.at].index = typed[t.at].index
  /\ typed'[t.at].ops = typed[t.at].ops \o os
  /\ \A k \in new : typed'[k].ops = << >>
  /\ work' = f \o Tail(work)
  /\ Shares(f, Left(t, os) \cup new)
  /\ GoesOn(Awaits(t) \cup {typed'[k].index : k \in new}, os, f)
  /\ UNCHANGED <<func, phase, failed>>

(* Pending emissions own blocks of the typed function.                      *)
LEMMA OwnedBlocks ==
  ASSUME IndexInv
  PROVE  \A i \in DOMAIN work : Owns(work[i]) \subseteq DOMAIN typed
  BY DEF IndexInv, EmissionsOK, EmissionOK, Owns

(* After popping the head of w and pushing f the stack holds f and the rest *)
(* of w, at these places.                                                   *)
LEMMA StackAfter ==
  ASSUME NEW S, NEW w \in Seq(S), w # << >>, NEW f \in Seq(S),
         NEW s, s = f \o Tail(w)
  PROVE  /\ \A i \in DOMAIN s :
              \/ i \in DOMAIN f /\ s[i] = f[i]
              \/ /\ i \in Int /\ i > Len(f)
                 /\ i - Len(f) + 1 \in DOMAIN w \ {1}
                 /\ s[i] = w[i - Len(f) + 1]
         /\ \A i \in DOMAIN f : i \in DOMAIN s /\ s[i] = f[i]
         /\ \A i \in DOMAIN w \ {1} : /\ i - 1 + Len(f) \in DOMAIN s
                                      /\ s[i - 1 + Len(f)] = w[i]
<1>1. /\ s \in Seq(S) /\ Len(f) \in Nat /\ Len(w) \in Nat
      /\ Len(s) = Len(f) + Len(w) - 1
      /\ \A i \in 1..Len(f) : s[i] = f[i]
      /\ \A i \in DOMAIN s : i > Len(f) => /\ i - Len(f) + 1 \in DOMAIN w
                                           /\ i - Len(f) + 1 > 1
                                           /\ s[i] = w[i - Len(f) + 1]
  BY PopPush
<1>2. ASSUME NEW i \in DOMAIN s
      PROVE  \/ i \in DOMAIN f /\ s[i] = f[i]
             \/ /\ i \in Int /\ i > Len(f)
                /\ i - Len(f) + 1 \in DOMAIN w \ {1}
                /\ s[i] = w[i - Len(f) + 1]
  <2>1. CASE i <= Len(f)
    BY <2>1, <1>1
  <2>2. CASE i > Len(f)
    BY <2>2, <1>1
  <2> QED BY <2>1, <2>2, <1>1
<1>3. ASSUME NEW i \in DOMAIN f PROVE i \in DOMAIN s /\ s[i] = f[i]
  <2>1. Len(w) >= 1
    BY <1>1
  <2> QED BY <1>1, <2>1
<1>4. ASSUME NEW i \in DOMAIN w \ {1}
      PROVE  i - 1 + Len(f) \in DOMAIN s /\ s[i - 1 + Len(f)] = w[i]
  <2> DEFINE n == i - 1 + Len(f)
  <2>1. i \in 1..Len(w) /\ i > 1
    OBVIOUS
  <2>2. n \in 1..Len(s) /\ n > Len(f) /\ n - Len(f) + 1 = i
    BY <2>1, <1>1
  <2> HIDE DEF n
  <2>3. n \in DOMAIN s
    BY <1>1, <2>2
  <2>4. s[n] = w[i]
    BY <1>1, <2>2, <2>3
  <2> QED BY <2>3, <2>4 DEF n
<1> QED BY <1>2, <1>3, <1>4

(* Nothing pushed and nothing below the head is lost.                       *)
LEMMA StackHolds ==
  ASSUME NEW w \in Seq(PendingEmission), w # << >>,
         NEW f \in Seq(PendingEmission)
  PROVE  LET s == f \o Tail(w) IN
         /\ \A i \in DOMAIN f : \E j \in DOMAIN s : s[j] = f[i]
         /\ \A i \in DOMAIN w \ {1} : \E j \in DOMAIN s : s[j] = w[i]
<1> DEFINE s == f \o Tail(w)
<1>1. ASSUME NEW i \in DOMAIN f PROVE \E j \in DOMAIN s : s[j] = f[i]
  <2>1. i \in DOMAIN s /\ s[i] = f[i]
    BY StackAfter
  <2> QED BY <2>1
<1>2. ASSUME NEW i \in DOMAIN w \ {1} PROVE \E j \in DOMAIN s : s[j] = w[i]
  <2>1. i - 1 + Len(f) \in DOMAIN s /\ s[i - 1 + Len(f)] = w[i]
    BY StackAfter
  <2> QED BY <2>1
<1> QED BY <1>1, <1>2

(* After a handover no two pending emissions share a block.                 *)
LEMMA HandoverApart ==
  ASSUME IndexInv, BlockInv, work # << >>, NEW t, t = Head(work),
         NEW os \in Seq(TypedOp), NEW new, new \cap DOMAIN typed = {},
         NEW f \in Seq(PendingEmission), Handover(t, os, new, f)
  PROVE  /\ OwnersApart'
         /\ \A i \in DOMAIN work' : ArmsApart(work'[i])
<1> DEFINE n == Len(f)
<1>1. work \in Seq(PendingEmission) /\ 1 \in DOMAIN work /\ t = work[1]
  BY DEF IndexInv, TypeOK
<1>2. \A i \in DOMAIN work' :
        \/ i \in DOMAIN f /\ work'[i] = f[i]
        \/ /\ i \in Int /\ i > n
           /\ i - n + 1 \in DOMAIN work \ {1}
           /\ work'[i] = work[i - n + 1]
  BY <1>1, StackAfter DEF Handover
<1>3. \A i \in DOMAIN work \ {1} : \A j \in DOMAIN f :
        Owns(work[i]) \cap Owns(f[j]) = {}
  <2> SUFFICES ASSUME NEW i \in DOMAIN work \ {1}, NEW j \in DOMAIN f
               PROVE  Owns(work[i]) \cap Owns(f[j]) = {}
    OBVIOUS
  <2>1. Owns(work[i]) \subseteq DOMAIN typed
    BY OwnedBlocks
  <2>2. Owns(work[i]) \cap Owns(t) = {}
    BY <1>1 DEF BlockInv, BlockDiscipline, OwnersApart
  <2>3. Owns(f[j]) \subseteq Owns(t) \cup new
    BY DEF Handover, Shares, Left
  <2> QED BY <2>1, <2>2, <2>3
<1>4. \A i, j \in DOMAIN work : i # j => Owns(work[i]) \cap Owns(work[j]) = {}
  BY DEF BlockInv, BlockDiscipline, OwnersApart
<1>5. \A i, j \in DOMAIN f : i # j => Owns(f[i]) \cap Owns(f[j]) = {}
  BY DEF Handover, Shares
<1>6. ASSUME NEW i \in DOMAIN work', NEW j \in DOMAIN work', i # j
      PROVE  Owns(work'[i]) \cap Owns(work'[j]) = {}
  <2>1. CASE i \in DOMAIN f /\ work'[i] = f[i] /\ j \in DOMAIN f /\ work'[j] = f[j]
    BY <2>1, <1>5, <1>6
  <2>2. CASE i \in DOMAIN f /\ work'[i] = f[i] /\ ~(j \in DOMAIN f /\ work'[j] = f[j])
    BY <2>2, <1>2, <1>3
  <2>3. CASE ~(i \in DOMAIN f /\ work'[i] = f[i]) /\ j \in DOMAIN f /\ work'[j] = f[j]
    BY <2>3, <1>2, <1>3
  <2>4. CASE /\ ~(i \in DOMAIN f /\ work'[i] = f[i])
             /\ ~(j \in DOMAIN f /\ work'[j] = f[j])
    <3>1. /\ i \in Int /\ i - n + 1 \in DOMAIN work /\ work'[i] = work[i - n + 1]
          /\ j \in Int /\ j - n + 1 \in DOMAIN work /\ work'[j] = work[j - n + 1]
      BY <2>4, <1>2
    <3>2. i - n + 1 # j - n + 1
      BY <3>1, <1>6
    <3> QED BY <3>1, <3>2, <1>4
  <2> QED BY <2>1, <2>2, <2>3, <2>4
<1>7. OwnersApart'
  BY <1>6 DEF OwnersApart
<1>8. \A i \in DOMAIN work' : ArmsApart(work'[i])
  <2>1. \A i \in DOMAIN work : ArmsApart(work[i])
    BY DEF BlockInv
  <2>2. \A i \in DOMAIN f : ArmsApart(f[i])
    BY DEF Handover, Shares
  <2> QED BY <2>1, <2>2, <1>2
<1> QED BY <1>7, <1>8

(* After a handover every block is either ended or owned.                   *)
LEMMA HandoverBlocks ==
  ASSUME IndexInv, BlockInv, work # << >>, NEW t, t = Head(work),
         NEW os \in Seq(TypedOp), NEW new, new \cap DOMAIN typed = {},
         NEW f \in Seq(PendingEmission), Handover(t, os, new, f)
  PROVE  /\ \A k \in DOMAIN typed' : LastOnly(typed'[k].ops)
         /\ OwnedOpen' /\ OthersClosed'
<1>1. /\ work \in Seq(PendingEmission) /\ 1 \in DOMAIN work /\ t = work[1]
      /\ typed \in Seq(TypedBlock)
  BY DEF IndexInv, TypeOK
<1>2. \A i \in DOMAIN work' :
        \/ i \in DOMAIN f /\ work'[i] = f[i]
        \/ \E j \in DOMAIN work \ {1} : work'[i] = work[j]
  BY <1>1, StackAfter DEF Handover
<1>3. /\ \A i \in DOMAIN f : \E j \in DOMAIN work' : work'[j] = f[i]
      /\ \A i \in DOMAIN work \ {1} : \E j \in DOMAIN work' : work'[j] = work[i]
  <2>1. work' = f \o Tail(work)
    BY DEF Handover
  <2>2. work \in Seq(PendingEmission) /\ f \in Seq(PendingEmission)
    BY <1>1
  <2> DEFINE s == f \o Tail(work)
  <2>3. /\ \A i \in DOMAIN f : \E j \in DOMAIN s : s[j] = f[i]
        /\ \A i \in DOMAIN work \ {1} : \E j \in DOMAIN s : s[j] = work[i]
    BY <2>2, StackHolds
  <2> HIDE DEF s
  <2>4. work' = s
    BY <2>1 DEF s
  <2> QED BY <2>3, <2>4
<1>4. t.at \in DOMAIN typed /\ t.at \in Owns(t) /\ ~Ends(typed[t.at].ops)
  <2>1. t.at \in DOMAIN typed
    BY HeadFacts
  <2>2. t.at \in Owns(t)
    BY DEF Owns
  <2> QED BY <2>1, <2>2, <1>1 DEF BlockInv, BlockDiscipline, OwnedOpen, Closed
<1>5. /\ LastOnly(typed'[t.at].ops)
      /\ Ends(typed'[t.at].ops) <=> Ends(os)
  <2>1. typed[t.at].ops \in Seq(TypedOp)
    <3>1. typed[t.at] \in TypedBlock
      BY <1>1, <1>4
    <3> QED BY <3>1 DEF TypedBlock
  <2>2. LastOnly(typed[t.at].ops) /\ LastOnly(os)
    BY <1>4 DEF BlockInv, BlockDiscipline, Handover
  <2>3. typed'[t.at].ops = typed[t.at].ops \o os
    BY DEF Handover
  <2> QED BY <1>4, <2>1, <2>2, <2>3, EndsConcat
<1>6. \A k \in new : LastOnly(typed'[k].ops) /\ ~Ends(typed'[k].ops)
  BY OneOp DEF Handover
<1>7. \A k \in DOMAIN typed \ {t.at} : typed'[k] = typed[k]
  BY DEF Handover
<1>8. DOMAIN typed' = DOMAIN typed \cup new
  BY DEF Handover
<1>9. \A k \in DOMAIN typed' : LastOnly(typed'[k].ops)
  BY <1>5, <1>6, <1>7, <1>8 DEF BlockInv, BlockDiscipline
<1>10. OwnedOpen'
  <2> SUFFICES ASSUME NEW i \in DOMAIN work', NEW k \in Owns(work'[i])
               PROVE  ~Ends(typed'[k].ops)
    BY DEF OwnedOpen, Closed
  <2>1. CASE i \in DOMAIN f /\ work'[i] = f[i]
    <3>1. k \in Left(t, os) \cup new
      BY <2>1 DEF Handover, Shares
    <3>2. CASE k \in new
      BY <3>2, <1>6
    <3>3. CASE k \in Left(t, os) /\ k = t.at
      BY <3>3, <1>5 DEF Left
    <3>4. CASE k \in Left(t, os) /\ k # t.at
      <4>1. k \in Owns(t) /\ k \in DOMAIN typed
        BY <3>4, <1>1, OwnedBlocks DEF Left
      <4>2. ~Ends(typed[k].ops)
        BY <4>1, <1>1 DEF BlockInv, BlockDiscipline, OwnedOpen, Closed
      <4> QED BY <3>4, <4>1, <4>2, <1>7
    <3> QED BY <3>1, <3>2, <3>3, <3>4
  <2>2. CASE ~(i \in DOMAIN f /\ work'[i] = f[i])
    <3>1. PICK j \in DOMAIN work \ {1} : work'[i] = work[j]
      BY <2>2, <1>2
    <3>2. k \in DOMAIN typed
      BY <3>1, OwnedBlocks
    <3>3. k # t.at
      BY <3>1, <1>1, <1>4 DEF BlockInv, BlockDiscipline, OwnersApart
    <3>4. ~Ends(typed[k].ops)
      BY <3>1 DEF BlockInv, BlockDiscipline, OwnedOpen, Closed
    <3> QED BY <3>2, <3>3, <3>4, <1>7
  <2> QED BY <2>1, <2>2
<1>11. OthersClosed'
  <2> SUFFICES ASSUME ~failed', NEW k \in DOMAIN typed', ~Ends(typed'[k].ops)
               PROVE  \E i \in DOMAIN work' : k \in Owns(work'[i])
    BY DEF OthersClosed, Closed
  <2>1. ~failed
    BY DEF Handover
  <2>2. CASE k \in Left(t, os) \cup new
    <3>1. \E i \in DOMAIN f : k \in Owns(f[i])
      BY <2>2 DEF Handover, Shares
    <3> QED BY <3>1, <1>3
  <2>3. CASE k \notin Left(t, os) \cup new
    <3>1. k \in DOMAIN typed
      BY <2>3, <1>8
    <3>2. k # t.at
      BY <2>3, <1>4, <1>5 DEF Left
    <3>3. k \notin Owns(t)
      BY <2>3, <3>2 DEF Left
    <3>4. \E i \in DOMAIN work : k \in Owns(work[i])
      BY <2>1, <3>1, <3>2, <1>7 DEF BlockInv, BlockDiscipline, OthersClosed, Closed
    <3>5. PICK i \in DOMAIN work : k \in Owns(work[i])
      BY <3>4
    <3>6. i # 1
      BY <3>3, <3>5, <1>1
    <3> QED BY <3>5, <3>6, <1>3
  <2> QED BY <2>2, <2>3
<1> QED BY <1>9, <1>10, <1>11

(* After a handover no block is forgotten.                                  *)
LEMMA HandoverEntered ==
  ASSUME IndexInv, BlockInv, work # << >>, NEW t, t = Head(work),
         NEW os \in Seq(TypedOp), NEW new, new \cap DOMAIN typed = {},
         NEW f \in Seq(PendingEmission), Handover(t, os, new, f)
  PROVE  NoneForgotten'
<1> DEFINE After(b) == \/ b \in MirIndices(func)
                       \/ \E j \in DOMAIN typed' : \E i \in DOMAIN typed'[j].ops :
                            b \in typed'[j].ops[i].targets
<1>1. /\ work \in Seq(PendingEmission) /\ 1 \in DOMAIN work /\ t = work[1]
      /\ typed \in Seq(TypedBlock)
  BY DEF IndexInv, TypeOK
<1>2. /\ \A i \in DOMAIN f : \E j \in DOMAIN work' : work'[j] = f[i]
      /\ \A i \in DOMAIN work \ {1} : \E j \in DOMAIN work' : work'[j] = work[i]
  <2>1. work' = f \o Tail(work)
    BY DEF Handover
  <2>2. work \in Seq(PendingEmission) /\ f \in Seq(PendingEmission)
    BY <1>1
  <2> DEFINE s == f \o Tail(work)
  <2>3. /\ \A i \in DOMAIN f : \E j \in DOMAIN s : s[j] = f[i]
        /\ \A i \in DOMAIN work \ {1} : \E j \in DOMAIN s : s[j] = work[i]
    BY <2>2, StackHolds
  <2> HIDE DEF s
  <2>4. work' = s
    BY <2>1 DEF s
  <2> QED BY <2>3, <2>4
<1>3. t.at \in DOMAIN typed
  BY HeadFacts
<1>4. /\ DOMAIN typed' = DOMAIN typed \cup new
      /\ \A k \in DOMAIN typed : typed'[k].index = typed[k].index
      /\ \A k \in DOMAIN typed : k # t.at => typed'[k].ops = typed[k].ops
      /\ typed'[t.at].ops = typed[t.at].ops \o os
      /\ func' = func /\ failed' = failed
  BY <1>3 DEF Handover
<1>5. /\ \A i \in DOMAIN typed[t.at].ops :
           /\ i \in DOMAIN typed'[t.at].ops
           /\ typed'[t.at].ops[i] = typed[t.at].ops[i]
      /\ \A i \in DOMAIN os : \E j \in DOMAIN typed'[t.at].ops :
           typed'[t.at].ops[j] = os[i]
  <2>1. typed[t.at].ops \in Seq(TypedOp)
    <3>1. typed[t.at] \in TypedBlock
      BY <1>1, <1>3
    <3> QED BY <3>1 DEF TypedBlock
  <2>2. ASSUME NEW a \in Seq(TypedOp), NEW b \in Seq(TypedOp)
        PROVE  /\ \A i \in DOMAIN a : i \in DOMAIN (a \o b) /\ (a \o b)[i] = a[i]
               /\ \A i \in DOMAIN b : /\ Len(a) + i \in DOMAIN (a \o b)
                                      /\ (a \o b)[Len(a) + i] = b[i]
    OBVIOUS
  <2> DEFINE a == typed[t.at].ops
  <2>3. /\ \A i \in DOMAIN a : i \in DOMAIN (a \o os) /\ (a \o os)[i] = a[i]
        /\ \A i \in DOMAIN os : \E j \in DOMAIN (a \o os) : (a \o os)[j] = os[i]
    <3>1. a \in Seq(TypedOp)
      BY <2>1
    <3> HIDE DEF a
    <3>2. /\ \A i \in DOMAIN a : i \in DOMAIN (a \o os) /\ (a \o os)[i] = a[i]
          /\ \A i \in DOMAIN os : /\ Len(a) + i \in DOMAIN (a \o os)
                                  /\ (a \o os)[Len(a) + i] = os[i]
      BY <3>1, <2>2
    <3> QED BY <3>2
  <2> QED BY <1>4, <2>3
<1>6. \A b : Entered(b) => After(b)
  <2> SUFFICES ASSUME NEW b, Entered(b) PROVE After(b)
    OBVIOUS
  <2>1. CASE b \in MirIndices(func)
    BY <2>1, <1>4 DEF Entered
  <2>2. CASE \E j \in DOMAIN typed : \E i \in DOMAIN typed[j].ops :
               b \in typed[j].ops[i].targets
    <3>1. PICK j \in DOMAIN typed : \E i \in DOMAIN typed[j].ops :
                 b \in typed[j].ops[i].targets
      BY <2>2
    <3>2. \E i \in DOMAIN typed'[j].ops : b \in typed'[j].ops[i].targets
      <4>1. CASE j = t.at
        BY <3>1, <4>1, <1>5
      <4>2. CASE j # t.at
        BY <3>1, <4>2, <1>4
      <4> QED BY <4>1, <4>2
    <3>3. j \in DOMAIN typed'
      BY <1>4
    <3> QED BY <3>2, <3>3 DEF Entered
  <2> QED BY <2>1, <2>2 DEF Entered
<1>7. \A b : (\E i \in DOMAIN os : b \in os[i].targets) => After(b)
  <2>1. t.at \in DOMAIN typed'
    BY <1>3, <1>4
  <2> QED BY <2>1, <1>5 DEF Entered
<1>8. \A b \in Awaits(t) \cup {typed'[k].index : k \in new} :
        After(b) \/ \E i \in DOMAIN work' : b \in Awaits(work'[i])
  <2> SUFFICES ASSUME NEW b \in Awaits(t) \cup {typed'[k].index : k \in new}
               PROVE  After(b) \/ \E i \in DOMAIN work' : b \in Awaits(work'[i])
    OBVIOUS
  <2>1. \/ \E i \in DOMAIN os : b \in os[i].targets
        \/ \E i \in DOMAIN f : b \in Awaits(f[i])
    BY DEF Handover, GoesOn
  <2>2. CASE \E i \in DOMAIN os : b \in os[i].targets
    BY <2>2, <1>7
  <2>3. CASE \E i \in DOMAIN f : b \in Awaits(f[i])
    BY <2>3, <1>2
  <2> QED BY <2>1, <2>2, <2>3
<1> HIDE DEF After
<1>9. ASSUME ~failed', NEW k \in DOMAIN typed'
      PROVE  \/ After(typed'[k].index)
             \/ \E i \in DOMAIN work' : typed'[k].index \in Awaits(work'[i])
  <2>1. CASE k \in new
    BY <2>1, <1>8
  <2>2. CASE k \in DOMAIN typed
    <3> DEFINE b == typed[k].index
    <3>1. typed'[k].index = b
      BY <2>2, <1>4
    <3>2. Entered(b) \/ \E i \in DOMAIN work : b \in Awaits(work[i])
      BY <2>2, <1>4, <1>9 DEF BlockInv, NoneForgotten
    <3> HIDE DEF b
    <3>3. CASE Entered(b)
      BY <3>1, <3>3, <1>6
    <3>4. CASE \E i \in DOMAIN work : b \in Awaits(work[i])
      <4>1. PICK i \in DOMAIN work : b \in Awaits(work[i])
        BY <3>4
      <4>2. CASE i = 1
        BY <3>1, <4>1, <4>2, <1>1, <1>8
      <4>3. CASE i # 1
        BY <3>1, <4>1, <4>3, <1>2
      <4> QED BY <4>2, <4>3
    <3> QED BY <3>2, <3>3, <3>4
  <2> QED BY <2>1, <2>2, <1>4
<1> QED BY <1>4, <1>9 DEF NoneForgotten, Entered, After

(* A handover keeps the invariant of the blocks.                            *)
LEMMA HandoverKeeps ==
  ASSUME IndexInv, BlockInv, work # << >>, NEW t, t = Head(work),
         NEW os \in Seq(TypedOp), NEW new, new \cap DOMAIN typed = {},
         NEW f \in Seq(PendingEmission), Handover(t, os, new, f)
  PROVE  BlockInv'
<1>1. (phase = "done" => ~failed)'
  BY DEF BlockInv, Handover
<1>2. BlockDiscipline'
  BY HandoverApart, HandoverBlocks DEF BlockDiscipline
<1> QED BY <1>1, <1>2, HandoverApart, HandoverEntered DEF BlockInv

-----------------------------------------------------------------------------
(* The three ways an action hands over.                                     *)

(* The action appends os to the block of t.                                 *)
LEMMA EmitHandover ==
  ASSUME IndexInv, BlockInv, work # << >>, NEW t, t = Head(work),
         NEW os \in Seq(TypedOp), LastOnly(os), NEW f \in Seq(PendingEmission),
         typed' = Emit(typed, t.at, os), work' = f \o Tail(work),
         UNCHANGED <<func, phase, failed>>,
         Shares(f, Left(t, os)), GoesOn(Awaits(t), os, f)
  PROVE  BlockInv'
<1>1. typed \in Seq(TypedBlock) /\ t.at \in DOMAIN typed
  BY HeadFacts DEF IndexInv, TypeOK
<1>2. /\ typed' \in Seq(TypedBlock)
      /\ DOMAIN typed' = DOMAIN typed
      /\ \A j \in DOMAIN typed : typed'[j].index = typed[j].index
      /\ \A j \in DOMAIN typed \ {t.at} : typed'[j] = typed[j]
      /\ typed'[t.at].ops = typed[t.at].ops \o os
  <2> DEFINE k == t.at
             e == Emit(typed, k, os)
  <2>1. typed' = e /\ k \in DOMAIN typed
    BY <1>1
  <2> HIDE DEF k
  <2>2. /\ e \in Seq(TypedBlock)
        /\ DOMAIN e = DOMAIN typed
        /\ \A j \in DOMAIN typed : e[j].index = typed[j].index
        /\ \A j \in DOMAIN typed \ {k} : e[j] = typed[j]
        /\ e[k].ops = typed[k].ops \o os
    BY <1>1, <2>1, EmitFacts
  <2> HIDE DEF e
  <2>3. t.at = k
    BY DEF k
  <2> QED BY <2>1, <2>2, <2>3
<1>3. Handover(t, os, {}, f)
  <2>1. /\ Left(t, os) \cup {} = Left(t, os)
        /\ Awaits(t) \cup {typed'[k].index : k \in {}} = Awaits(t)
    OBVIOUS
  <2> QED BY <1>1, <1>2, <2>1 DEF Handover
<1> QED BY <1>3, HandoverKeeps

(* The action only makes the calls f.                                       *)
LEMMA CallHandover ==
  ASSUME IndexInv, BlockInv, work # << >>, NEW t, t = Head(work),
         NEW f \in Seq(PendingEmission), work' = f \o Tail(work),
         UNCHANGED <<func, typed, phase, failed>>,
         Shares(f, Owns(t)), GoesOn(Awaits(t), << >>, f)
  PROVE  BlockInv'
<1> DEFINE os == << >>
<1>1. typed \in Seq(TypedBlock) /\ t.at \in DOMAIN typed
  BY HeadFacts DEF IndexInv, TypeOK
<1>2. typed[t.at].ops \in Seq(TypedOp)
  <2>1. typed[t.at] \in TypedBlock
    BY <1>1
  <2> QED BY <2>1 DEF TypedBlock
<1>3. typed[t.at].ops \o os = typed[t.at].ops
  BY <1>2
<1>4. os \in Seq(TypedOp) /\ LastOnly(os) /\ Left(t, os) = Owns(t)
  BY OneOp DEF Left
<1>5. Handover(t, os, {}, f)
  <2>1. /\ Owns(t) \cup {} = Owns(t)
        /\ Awaits(t) \cup {typed'[k].index : k \in {}} = Awaits(t)
    OBVIOUS
  <2> HIDE DEF os
  <2>2. GoesOn(Awaits(t), os, f)
    BY DEF os
  <2> QED BY <1>1, <1>3, <1>4, <2>1, <2>2 DEF Handover
<1> HIDE DEF os
<1> QED BY <1>4, <1>5, HandoverKeeps

(* A synthetic block comes after the blocks there are and has no operation. *)
LEMMA SyntheticBlock ==
  ASSUME typed \in Seq(TypedBlock), nextSynthetic \in Nat,
         typed' = Synthetic(typed)
  PROVE  /\ typed' \in Seq(TypedBlock)
         /\ DOMAIN typed' = DOMAIN typed \cup {Len(typed) + 1}
         /\ \A j \in DOMAIN typed : typed'[j] = typed[j]
         /\ typed'[Len(typed) + 1].index = nextSynthetic
         /\ typed'[Len(typed) + 1].ops = << >>
<1>1. PICK b : b = [index |-> nextSynthetic, ops |-> << >>]
  OBVIOUS
<1>2. b \in TypedBlock /\ b.index = nextSynthetic /\ b.ops = << >>
  BY <1>1 DEF TypedBlock
<1>3. typed' = Append(typed, b)
  BY <1>1 DEF Synthetic
<1> QED BY <1>2, <1>3

(* The action creates a synthetic block, which the calls f know.            *)
LEMMA SyntheticHandover ==
  ASSUME IndexInv, BlockInv, work # << >>, phase = "lifting",
         NEW t, t = Head(work),
         NEW f \in Seq(PendingEmission), work' = f \o Tail(work),
         typed' = Synthetic(typed), nextSynthetic' = nextSynthetic + 1,
         UNCHANGED <<func, pos, phase, failed>>,
         Shares(f, Owns(t) \cup {Len(typed) + 1}),
         GoesOn(Awaits(t) \cup {nextSynthetic}, << >>, f)
  PROVE  BlockInv'
<1> DEFINE os == << >>
           new == {Len(typed) + 1}
<1>1. /\ typed \in Seq(TypedBlock) /\ t.at \in DOMAIN typed
      /\ nextSynthetic \in Nat
  BY HeadFacts DEF IndexInv, TypeOK
<1>2. /\ typed' \in Seq(TypedBlock)
      /\ DOMAIN typed' = DOMAIN typed \cup new
      /\ \A j \in DOMAIN typed : typed'[j] = typed[j]
      /\ typed'[Len(typed) + 1].index = nextSynthetic
      /\ typed'[Len(typed) + 1].ops = << >>
  BY <1>1, SyntheticBlock
<1>3. typed[t.at].ops \o os = typed[t.at].ops
  <2>1. typed[t.at] \in TypedBlock
    BY <1>1
  <2>2. typed[t.at].ops \in Seq(TypedOp)
    BY <2>1 DEF TypedBlock
  <2> QED BY <2>2
<1>4. /\ os \in Seq(TypedOp) /\ LastOnly(os) /\ Left(t, os) = Owns(t)
      /\ new \cap DOMAIN typed = {}
  <2>1. Len(typed) + 1 \notin DOMAIN typed
    BY <1>1
  <2> QED BY <2>1, OneOp DEF Left
<1>5. Handover(t, os, new, f)
  <2>1. {typed'[k].index : k \in new} = {nextSynthetic}
    BY <1>2
  <2>2. \A k \in new : typed'[k].ops = << >>
    BY <1>2
  <2>3. Shares(f, Owns(t) \cup new) /\ GoesOn(Awaits(t) \cup {nextSynthetic}, os, f)
    OBVIOUS
  <2> HIDE DEF os, new
  <2> QED BY <1>1, <1>2, <1>3, <1>4, <2>1, <2>2, <2>3 DEF Handover
<1> HIDE DEF os, new
<1> QED BY <1>4, <1>5, HandoverKeeps

-----------------------------------------------------------------------------
(* What the emissions an action pops and pushes own and await.              *)

(* An emission without variant blocks has its own block and its target.     *)
LEMMA NoArms ==
  ASSUME NEW t, t.arms = << >>
  PROVE  Owns(t) = {t.at} /\ Awaits(t) = {t.target} /\ ArmsApart(t)
  BY DEF Owns, Awaits, ArmsApart

(* The emission on top of the stack.                                        *)
LEMMA HeadArms ==
  ASSUME IndexInv, BlockInv, work # << >>, NEW t, t = Head(work)
  PROVE  /\ t.kind # "variants" => t.arms = << >>
         /\ ArmsApart(t)
         /\ t.arms \in Seq(Arm)
         /\ \A i \in DOMAIN t.arms : t.arms[i].at \in DOMAIN typed
<1>1. work \in Seq(PendingEmission) /\ 1 \in DOMAIN work /\ t = work[1]
  BY DEF IndexInv, TypeOK
<1> QED BY <1>1, HeadFacts DEF BlockInv, EmissionOK

(* One emission that takes over everything.                                 *)
LEMMA OneEmission ==
  ASSUME NEW g, ArmsApart(g), NEW os
  PROVE  /\ \A ks : Owns(g) = ks => Shares(<<g>>, ks)
         /\ \A bs : bs \subseteq Awaits(g) => GoesOn(bs, os, <<g>>)
<1>1. DOMAIN <<g>> = {1} /\ <<g>>[1] = g
  OBVIOUS
<1> QED BY <1>1 DEF Shares, GoesOn

-----------------------------------------------------------------------------
(* The emit actions.                                                        *)

(* An action that ends the emission on top of the stack with a goto.        *)
LEMMA EndHandover ==
  ASSUME IndexInv, BlockInv, work # << >>, Head(work).arms = << >>,
         typed' = Emit(typed, Head(work).at, <<Goto(Head(work).target)>>),
         work' = Tail(work), UNCHANGED <<func, phase, failed>>
  PROVE  BlockInv'
<1> DEFINE t  == Head(work)
           o  == Goto(t.target)
           os == <<o>>
           f  == << >>
<1>1. /\ os \in Seq(TypedOp) /\ f \in Seq(PendingEmission)
      /\ LastOnly(os) /\ Ends(os)
      /\ o.targets = {t.target}
  <2>1. IsTerminator(o) /\ o.targets = {t.target}
    BY DEF IsTerminator, Goto
  <2> QED BY <2>1, OneOp, GotoTarget
<1>2. work' = f \o Tail(work)
  BY HeadFacts
<1>3. Left(t, os) = {} /\ Awaits(t) = {t.target}
  BY <1>1, NoArms DEF Left
<1>4. Shares(f, {}) /\ GoesOn({t.target}, os, f)
  <2>1. 1 \in DOMAIN os /\ t.target \in os[1].targets
    BY <1>1
  <2> QED BY <2>1 DEF Shares, GoesOn
<1>5. typed' = Emit(typed, t.at, os)
  OBVIOUS
<1> HIDE DEF os, f, t
<1>6. Shares(f, Left(t, os)) /\ GoesOn(Awaits(t), os, f)
  BY <1>3, <1>4
<1>7. t = Head(work)
  BY DEF t
<1> QED BY <1>1, <1>2, <1>5, <1>6, <1>7, EmitHandover

(* The sequence of a struct's components takes over from its glue.          *)
LEMMA GlueOneShapeHandover == IndexInv /\ BlockInv /\ GlueOneShape => BlockInv'
<1> SUFFICES ASSUME IndexInv, BlockInv, GlueOneShape PROVE BlockInv'
  OBVIOUS
<1> DEFINE t  == Head(work)
           p  == t.places[1]
           g  == Sequence(t.at, FieldPlaces(p, 1), t.target)
           f  == <<g>>
           os == OwnDrop(p)
<1>1. /\ work # << >> /\ phase = "lifting" /\ t.kind = "glue"
      /\ Len(Variants[p.type]) = 1
      /\ typed' = Emit(typed, t.at, os)
      /\ work' = f \o Tail(work)
      /\ UNCHANGED <<func, phase, failed>>
  BY DEF GlueOneShape, Running
<1>2. p \in Place /\ t.at \in Nat /\ t.target \in Nat
  BY <1>1, HeadFacts
<1>3. f \in Seq(PendingEmission)
  <2>1. 1 \in DOMAIN Variants[p.type]
    <3>1. Variants[p.type] \in Seq(Seq(Type))
      BY <1>2, TypeTable DEF Place
    <3> QED BY <1>1, <3>1
  <2>2. FieldPlaces(p, 1) \in Seq(Place)
    BY <1>2, <2>1, FieldPlacesType
  <2>3. g \in PendingEmission
    BY <1>2, <2>2, NewEmissions
  <2> HIDE DEF g
  <2> QED BY <2>3
<1>4. os \in Seq(TypedOp) /\ LastOnly(os) /\ ~Ends(os)
  BY <1>2, OwnDropFacts, OwnDropEndsNothing
<1>5. Left(t, os) = {t.at} /\ Awaits(t) = {t.target}
  BY <1>1, <1>4, HeadArms, NoArms DEF Left
<1>6. Owns(g) = {t.at} /\ Awaits(g) = {t.target} /\ ArmsApart(g)
  <2> HIDE DEF t, p
  <2> QED BY DEF Owns, Awaits, ArmsApart, Sequence, Pending
<1>7. Shares(f, Left(t, os)) /\ GoesOn(Awaits(t), os, f)
  <2> HIDE DEF g, os, t
  <2> QED BY <1>5, <1>6, OneEmission
<1> HIDE DEF f, os
<1> QED BY <1>1, <1>3, <1>4, <1>7, EmitHandover

(* The dispatch over an enum's variants takes over from its glue.           *)
LEMMA GlueEnumHandover == IndexInv /\ BlockInv /\ GlueEnum => BlockInv'
<1> SUFFICES ASSUME IndexInv, BlockInv, GlueEnum PROVE BlockInv'
  OBVIOUS
<1> DEFINE t  == Head(work)
           p  == t.places[1]
           g  == Dispatch(t.at, p, << >>, 1, t.target)
           f  == <<g>>
           os == OwnDrop(p)
<1>1. /\ work # << >> /\ phase = "lifting" /\ t.kind = "glue"
      /\ typed' = Emit(typed, t.at, os)
      /\ work' = f \o Tail(work)
      /\ UNCHANGED <<func, phase, failed>>
  BY DEF GlueEnum, Running
<1>2. p \in Place /\ t.at \in Nat /\ t.target \in Nat
  BY <1>1, HeadFacts
<1>3. f \in Seq(PendingEmission)
  <2>1. << >> \in Seq(Arm) /\ 1 \in Nat \ {0}
    OBVIOUS
  <2>2. g \in PendingEmission
    BY <1>2, <2>1, NewEmissions
  <2> HIDE DEF g
  <2> QED BY <2>2
<1>4. os \in Seq(TypedOp) /\ LastOnly(os) /\ ~Ends(os)
  BY <1>2, OwnDropFacts, OwnDropEndsNothing
<1>5. Left(t, os) = {t.at} /\ Awaits(t) = {t.target}
  BY <1>1, <1>4, HeadArms, NoArms DEF Left
<1>6. Owns(g) = {t.at} /\ Awaits(g) = {t.target} /\ ArmsApart(g)
  <2>1. g.at = t.at /\ g.arms = << >> /\ g.target = t.target
    BY DEF Dispatch, Pending
  <2> HIDE DEF g
  <2> QED BY <2>1, NoArms
<1>7. Shares(f, Left(t, os)) /\ GoesOn(Awaits(t), os, f)
  <2> HIDE DEF g, os, t
  <2> QED BY <1>5, <1>6, OneEmission
<1> HIDE DEF f, os
<1> QED BY <1>1, <1>3, <1>4, <1>7, EmitHandover

(* Giving up leaves blocks open, and the pass failed.                       *)
LEMMA GlueUnsupportedKeeps == IndexInv /\ BlockInv /\ GlueUnsupported => BlockInv'
<1> SUFFICES ASSUME IndexInv, BlockInv, GlueUnsupported PROVE BlockInv'
  OBVIOUS
<1> DEFINE t  == Head(work)
           os == OwnDrop(t.places[1])
<1>1. /\ work # << >> /\ phase = "lifting" /\ t.kind = "glue"
      /\ typed' = Emit(typed, t.at, os)
      /\ work' = << >> /\ failed' = TRUE /\ phase' = phase
  BY DEF GlueUnsupported, Running
<1>2. typed \in Seq(TypedBlock) /\ t.at \in DOMAIN typed /\ t.places[1] \in Place
  BY <1>1, HeadFacts DEF IndexInv, TypeOK
<1>3. os \in Seq(TypedOp) /\ LastOnly(os)
  BY <1>2, OwnDropFacts, OwnDropEndsNothing
<1>4. \A k \in DOMAIN typed' : LastOnly(typed'[k].ops)
  <2> DEFINE m == t.at
             e == Emit(typed, m, os)
  <2>1. typed' = e /\ m \in DOMAIN typed
    BY <1>1, <1>2
  <2>2. ~Ends(typed[m].ops) /\ LastOnly(typed[m].ops)
    <3>1. 1 \in DOMAIN work /\ t = work[1]
      BY <1>1 DEF IndexInv, TypeOK
    <3>2. m \in Owns(work[1])
      BY <3>1 DEF Owns
    <3> QED BY <1>2, <3>1, <3>2 DEF BlockInv, BlockDiscipline, OwnedOpen, Closed
  <2>3. typed[m].ops \in Seq(TypedOp)
    <3>1. typed[m] \in TypedBlock
      BY <1>2
    <3> QED BY <3>1 DEF TypedBlock
  <2> HIDE DEF m, os
  <2>4. /\ DOMAIN e = DOMAIN typed
        /\ \A j \in DOMAIN typed \ {m} : e[j] = typed[j]
        /\ e[m].ops = typed[m].ops \o os
    BY <1>2, <1>3, <2>1, EmitFacts
  <2>5. LastOnly(e[m].ops)
    BY <1>3, <2>2, <2>3, <2>4, EndsConcat
  <2> HIDE DEF e
  <2> QED BY <2>1, <2>4, <2>5 DEF BlockInv, BlockDiscipline
<1>5. BlockDiscipline'
  BY <1>1, <1>4 DEF BlockDiscipline, OwnersApart, OwnedOpen, OthersClosed
<1> QED BY <1>1, <1>5 DEF BlockInv, NoneForgotten

(* The glue of the last field takes over from the sequence.                 *)
LEMMA SequenceLastHandover == IndexInv /\ BlockInv /\ SequenceLast => BlockInv'
<1> SUFFICES ASSUME IndexInv, BlockInv, SequenceLast PROVE BlockInv'
  OBVIOUS
<1> DEFINE t == Head(work)
<1>1. /\ work # << >> /\ phase = "lifting" /\ t.kind = "sequence"
      /\ UNCHANGED <<func, typed, phase, failed>>
  BY DEF SequenceLast, Running
<1>2. PICK i \in DOMAIN t.places :
        work' = <<Glue(t.at, t.places[i], t.target)>> \o Tail(work)
  BY DEF SequenceLast
<1> DEFINE g == Glue(t.at, t.places[i], t.target)
           f == <<g>>
<1>3. f \in Seq(PendingEmission)
  <2>1. t.places \in Seq(Place) /\ t.at \in Nat /\ t.target \in Nat
    BY <1>1, HeadFacts
  <2>2. t.places[i] \in Place
    BY <2>1
  <2>3. g \in PendingEmission
    BY <2>1, <2>2, NewEmissions
  <2> HIDE DEF g
  <2> QED BY <2>3
<1>4. Owns(t) = {t.at} /\ Awaits(t) = {t.target}
  BY <1>1, HeadArms, NoArms
<1>5. Owns(g) = {t.at} /\ Awaits(g) = {t.target} /\ ArmsApart(g)
  <2> HIDE DEF t
  <2> QED BY DEF Owns, Awaits, ArmsApart, Glue, Pending
<1>6. Shares(f, Owns(t)) /\ GoesOn(Awaits(t), << >>, f)
  <2> HIDE DEF g, t
  <2> QED BY <1>4, <1>5, OneEmission
<1>7. work' = f \o Tail(work) /\ t = Head(work)
  BY <1>2
<1> HIDE DEF f, t
<1> QED BY <1>1, <1>3, <1>6, <1>7, CallHandover

(* The glue of an earlier field ends the block of the sequence, whose rest  *)
(* ends the new block the glue goes to.                                     *)
LEMMA SequenceNextHandover == IndexInv /\ BlockInv /\ SequenceNext => BlockInv'
<1> SUFFICES ASSUME IndexInv, BlockInv, SequenceNext PROVE BlockInv'
  OBVIOUS
<1> DEFINE t == Head(work)
           m == Len(typed) + 1
           rest(i) == SubSeq(t.places, i + 1, Len(t.places))
<1>1. /\ work # << >> /\ phase = "lifting" /\ t.kind = "sequence"
      /\ typed' = Synthetic(typed) /\ nextSynthetic' = nextSynthetic + 1
      /\ UNCHANGED <<func, pos, phase, failed>>
  BY DEF SequenceNext, Running
<1>2. PICK i \in DOMAIN t.places :
        work' = <<Glue(t.at, t.places[i], nextSynthetic),
                  Sequence(m, rest(i), t.target)>> \o Tail(work)
  BY DEF SequenceNext
<1> DEFINE g == Glue(t.at, t.places[i], nextSynthetic)
           h == Sequence(m, rest(i), t.target)
           f == <<g, h>>
<1>3. /\ t.places \in Seq(Place) /\ t.at \in Nat /\ t.at \in DOMAIN typed
      /\ t.target \in Nat
      /\ typed \in Seq(TypedBlock) /\ nextSynthetic \in Nat
  BY <1>1, HeadFacts DEF IndexInv, TypeOK
<1>4. t.at # m /\ m \in Nat
  BY <1>3
<1>5. f \in Seq(PendingEmission)
  <2>1. t.places[i] \in Place /\ rest(i) \in Seq(Place)
    BY <1>3
  <2>2. g \in PendingEmission
    BY <1>3, <2>1, NewEmissions
  <2>3. h \in PendingEmission
    <3> HIDE DEF rest, t, m
    <3> QED BY <1>3, <1>4, <2>1, NewEmissions
  <2> HIDE DEF g, h
  <2> QED BY <2>2, <2>3
<1>6. Owns(t) = {t.at} /\ Awaits(t) = {t.target}
  BY <1>1, HeadArms, NoArms
<1>7. /\ Owns(g) = {t.at} /\ Awaits(g) = {nextSynthetic} /\ ArmsApart(g)
      /\ Owns(h) = {m} /\ Awaits(h) = {t.target} /\ ArmsApart(h)
  <2> HIDE DEF t, m, rest
  <2> QED BY DEF Owns, Awaits, ArmsApart, Glue, Sequence, Pending
<1>8. /\ Shares(f, Owns(t) \cup {m})
      /\ GoesOn(Awaits(t) \cup {nextSynthetic}, << >>, f)
  <2> HIDE DEF g, h, t, m
  <2>1. DOMAIN f = {1, 2} /\ f[1] = g /\ f[2] = h
    OBVIOUS
  <2> HIDE DEF f
  <2>2. Shares(f, Owns(t) \cup {m})
    BY <1>4, <1>6, <1>7, <2>1 DEF Shares
  <2>3. GoesOn(Awaits(t) \cup {nextSynthetic}, << >>, f)
    BY <1>6, <1>7, <2>1 DEF GoesOn
  <2> QED BY <2>2, <2>3
<1>9. work' = f \o Tail(work) /\ t = Head(work) /\ m = Len(typed) + 1
  BY <1>2
<1> HIDE DEF f, t, m
<1> QED BY <1>1, <1>5, <1>8, <1>9, SyntheticHandover

(* The dispatch owns the variant block it creates.                          *)
LEMMA VariantBlockHandover == IndexInv /\ BlockInv /\ VariantBlock => BlockInv'
<1> SUFFICES ASSUME IndexInv, BlockInv, VariantBlock PROVE BlockInv'
  OBVIOUS
<1> DEFINE t    == Head(work)
           p    == t.places[1]
           m    == Len(typed) + 1
           arm  == [case |-> t.next - 1, index |-> nextSynthetic, at |-> m]
           arms == Append(t.arms, arm)
           g    == Dispatch(t.at, p, arms, t.next + 1, t.target)
           f    == <<g>>
<1>1. /\ work # << >> /\ phase = "lifting" /\ t.kind = "variants"
      /\ typed' = Synthetic(typed) /\ nextSynthetic' = nextSynthetic + 1
      /\ work' = f \o Tail(work)
      /\ UNCHANGED <<func, pos, phase, failed>>
  BY DEF VariantBlock, Running
<1>2. /\ p \in Place /\ t.at \in Nat /\ t.at \in DOMAIN typed
      /\ t.target \in Nat /\ t.next \in Nat \ {0} /\ t.arms \in Seq(Arm)
      /\ typed \in Seq(TypedBlock) /\ nextSynthetic \in Nat
      /\ ArmsApart(t)
      /\ \A i \in DOMAIN t.arms : t.arms[i].at \in DOMAIN typed
  BY <1>1, HeadFacts, HeadArms DEF IndexInv, TypeOK
<1>3. m \notin DOMAIN typed /\ m \in Nat
  BY <1>2
<1>4. arm \in Arm /\ arm.at = m /\ arm.index = nextSynthetic
  <2>1. t.next - 1 \in Nat
    BY <1>2
  <2> HIDE DEF t, m
  <2> QED BY <1>2, <1>3, <2>1 DEF Arm
<1>5. /\ arms \in Seq(Arm)
      /\ DOMAIN arms = DOMAIN t.arms \cup {Len(t.arms) + 1}
      /\ \A i \in DOMAIN t.arms : arms[i] = t.arms[i]
      /\ arms[Len(t.arms) + 1] = arm
  <2> HIDE DEF arm, t
  <2> QED BY <1>2, <1>4
<1>6. f \in Seq(PendingEmission)
  <2>1. t.next + 1 \in Nat \ {0}
    BY <1>2
  <2>2. g \in PendingEmission
    <3> HIDE DEF arms, t, p
    <3> QED BY <1>2, <1>5, <2>1, NewEmissions
  <2> HIDE DEF g
  <2> QED BY <2>2
<1>7. g.at = t.at /\ g.arms = arms /\ g.target = t.target
  BY DEF Dispatch, Pending
<1> HIDE DEF g, arms, arm, m, t
<1>8. /\ Owns(g) = Owns(t) \cup {m}
      /\ Awaits(g) = Awaits(t) \cup {nextSynthetic}
  BY <1>4, <1>5, <1>7 DEF Owns, Awaits
<1>9. ArmsApart(g)
  BY <1>2, <1>3, <1>4, <1>5, <1>7 DEF ArmsApart
<1>10. /\ Shares(f, Owns(t) \cup {m})
       /\ GoesOn(Awaits(t) \cup {nextSynthetic}, << >>, f)
  BY <1>8, <1>9, OneEmission
<1>11. t = Head(work) /\ m = Len(typed) + 1
  BY DEF t, m
<1> HIDE DEF f
<1> QED BY <1>1, <1>6, <1>10, <1>11, SyntheticHandover

(* A variant without a block changes nothing of what the dispatch owns.     *)
LEMMA VariantSkippedHandover == IndexInv /\ BlockInv /\ VariantSkipped => BlockInv'
<1> SUFFICES ASSUME IndexInv, BlockInv, VariantSkipped PROVE BlockInv'
  OBVIOUS
<1> DEFINE t == Head(work)
           p == t.places[1]
           g == Dispatch(t.at, p, t.arms, t.next + 1, t.target)
           f == <<g>>
<1>1. /\ work # << >> /\ phase = "lifting" /\ t.kind = "variants"
      /\ work' = f \o Tail(work)
      /\ UNCHANGED <<func, typed, phase, failed>>
  BY DEF VariantSkipped, Running
<1>2. /\ p \in Place /\ t.at \in Nat
      /\ t.target \in Nat /\ t.next \in Nat \ {0} /\ t.arms \in Seq(Arm)
      /\ ArmsApart(t)
  BY <1>1, HeadFacts, HeadArms
<1>3. f \in Seq(PendingEmission)
  <2>1. t.next + 1 \in Nat \ {0}
    BY <1>2
  <2>2. g \in PendingEmission
    BY <1>2, <2>1, NewEmissions
  <2> HIDE DEF g
  <2> QED BY <2>2
<1>4. g.at = t.at /\ g.arms = t.arms /\ g.target = t.target
  BY DEF Dispatch, Pending
<1> HIDE DEF g, t
<1>5. Owns(g) = Owns(t) /\ Awaits(g) = Awaits(t) /\ ArmsApart(g)
  BY <1>2, <1>4 DEF Owns, Awaits, ArmsApart
<1>6. Shares(f, Owns(t)) /\ GoesOn(Awaits(t), << >>, f)
  BY <1>5, OneEmission
<1>7. t = Head(work)
  BY DEF t
<1> HIDE DEF f
<1> QED BY <1>1, <1>3, <1>6, <1>7, CallHandover

(* The switch ends the block of the dispatch and hands each variant block   *)
(* to the sequence of that variant's fields.                                *)
LEMMA SwitchOnVariantHandover == IndexInv /\ BlockInv /\ SwitchOnVariant => BlockInv'
<1> SUFFICES ASSUME IndexInv, BlockInv, SwitchOnVariant PROVE BlockInv'
  OBVIOUS
<1> DEFINE t    == Head(work)
           p    == t.places[1]
           o    == SwitchTag(p, t.arms, t.target)
           os   == <<o>>
           e(k) == Sequence(t.arms[k].at, FieldPlaces(p, t.arms[k].case + 1),
                            t.target)
           f    == [k \in DOMAIN t.arms |-> e(k)]
<1>1. /\ work # << >> /\ phase = "lifting" /\ t.kind = "variants"
      /\ t.arms # << >>
      /\ typed' = Emit(typed, t.at, os)
      /\ work' = f \o Tail(work)
      /\ UNCHANGED <<func, phase, failed>>
  BY DEF SwitchOnVariant, Running
<1>2. /\ p \in Place /\ t.target \in Nat /\ t.arms \in Seq(Arm)
      /\ EmissionOK(t, typed) /\ ArmsApart(t)
  BY <1>1, HeadFacts, HeadArms
<1>3. \A k \in DOMAIN t.arms :
        /\ t.arms[k].index \in Nat /\ t.arms[k].at \in Nat
        /\ t.arms[k].case + 1 \in DOMAIN Variants[p.type]
  <2>1. \A k \in DOMAIN t.arms : t.arms[k] \in Arm
    BY <1>2
  <2> QED BY <1>2, <2>1 DEF Arm, EmissionOK
<1>4. /\ o = [op |-> "switch_tag", place |-> p, arms |-> t.arms,
              default |-> t.target,
              targets |-> {t.target} \cup {t.arms[k].index : k \in DOMAIN t.arms}]
      /\ o.targets = Awaits(t)
      /\ IsTerminator(o)
  BY DEF SwitchTag, Awaits, IsTerminator
<1>5. o \in TypedOp
  <2>1. o.targets \in SUBSET Nat
    BY <1>2, <1>3, <1>4
  <2> QED BY <1>2, <1>4, <2>1 DEF TypedOp
<1>6. ASSUME NEW k \in DOMAIN t.arms
      PROVE  /\ e(k) \in PendingEmission /\ ArmsApart(e(k))
             /\ Owns(e(k)) = {t.arms[k].at}
  <2>1. FieldPlaces(p, t.arms[k].case + 1) \in Seq(Place)
    BY <1>2, <1>3, FieldPlacesType
  <2> HIDE DEF t
  <2>2. e(k) \in PendingEmission
    BY <1>2, <1>3, <2>1, NewEmissions
  <2>3. e(k).at = t.arms[k].at /\ e(k).arms = << >>
    BY DEF Sequence, Pending
  <2> HIDE DEF e
  <2> QED BY <2>2, <2>3, NoArms
<1> HIDE DEF e, o
<1>7. os \in Seq(TypedOp) /\ LastOnly(os) /\ Ends(os)
  <2>1. os \in Seq(TypedOp)
    BY <1>5
  <2>2. LastOnly(<<o>>) /\ (Ends(<<o>>) <=> IsTerminator(o))
    BY OneOp
  <2> QED BY <1>4, <2>1, <2>2
<1>8. f \in Seq(PendingEmission)
  <2>1. f \in [1..Len(t.arms) -> PendingEmission] /\ Len(t.arms) \in Nat
    <3> HIDE DEF t
    <3> QED BY <1>2, <1>6
  <2> HIDE DEF f
  <2> QED BY <2>1
<1>9. Left(t, os) = {t.arms[k].at : k \in DOMAIN t.arms}
  <2> HIDE DEF t, os
  <2> QED BY <1>2, <1>7 DEF Left, Owns, ArmsApart
<1>10. Shares(f, Left(t, os))
  <2>1. DOMAIN f = DOMAIN t.arms /\ \A k \in DOMAIN t.arms : f[k] = e(k)
    OBVIOUS
  <2> HIDE DEF f, t, os
  <2> QED BY <1>2, <1>6, <1>9, <2>1 DEF Shares, ArmsApart
<1>11. GoesOn(Awaits(t), os, f)
  <2>1. 1 \in DOMAIN os /\ os[1] = o
    OBVIOUS
  <2> HIDE DEF f, t, os
  <2> QED BY <1>4, <2>1 DEF GoesOn
<1>12. t = Head(work)
  OBVIOUS
<1> HIDE DEF f, os, t
<1> QED BY <1>1, <1>7, <1>8, <1>10, <1>11, <1>12, EmitHandover

(* Every action of the drop-glue expansion keeps the invariant.             *)
LEMMA EmitDropGlueHandover == IndexInv /\ BlockInv /\ EmitDropGlue => BlockInv'
<1> SUFFICES ASSUME IndexInv, BlockInv, EmitDropGlue PROVE BlockInv'
  OBVIOUS
<1>1. CASE GlueNotNeeded
  <2>1. work # << >> /\ Head(work).kind = "glue"
    BY <1>1 DEF GlueNotNeeded, Running
  <2> QED BY <1>1, <2>1, HeadArms, EndHandover DEF GlueNotNeeded, Running
<1>2. CASE SequenceEmpty
  <2>1. work # << >> /\ Head(work).kind = "sequence"
    BY <1>2 DEF SequenceEmpty, Running
  <2> QED BY <1>2, <2>1, HeadArms, EndHandover DEF SequenceEmpty, Running
<1>3. CASE NoVariantBlocks
  BY <1>3, EndHandover DEF NoVariantBlocks, Running
<1> QED
  BY <1>1, <1>2, <1>3, GlueOneShapeHandover, GlueEnumHandover,
     GlueUnsupportedKeeps, SequenceLastHandover, SequenceNextHandover,
     VariantBlockHandover, VariantSkippedHandover, SwitchOnVariantHandover
     DEF EmitDropGlue

-----------------------------------------------------------------------------
(* The steps of the pass outside the glue.                                  *)

(* A block is lifted while nothing is pending: it is ended at once, or an   *)
(* emission is pushed that owns it, or the pass has failed.                 *)
LEMMA BlockBegun ==
  ASSUME IndexInv, BlockInv, work = << >>, phase' = "lifting", func' = func,
         NEW os \in Seq(TypedOp), LastOnly(os), NEW n \in MirIndices(func),
         typed' = Append(typed, [index |-> n, ops |-> os]),
         failed => failed',
         \/ work' = << >> /\ (failed' \/ Ends(os))
         \/ \E g : /\ work' = <<g>> /\ g.at = Len(typed) + 1 /\ g.arms = << >>
                   /\ ~Ends(os)
  PROVE  BlockInv'
<1> DEFINE m == Len(typed) + 1
<1>1. typed \in Seq(TypedBlock) /\ n \in Nat /\ m \notin DOMAIN typed
  <2>1. typed \in Seq(TypedBlock) /\ func \in Funcs
    BY DEF IndexInv, TypeOK
  <2> QED BY <2>1, BodyFacts
<1>2. /\ DOMAIN typed' = DOMAIN typed \cup {m}
      /\ \A j \in DOMAIN typed : typed'[j] = typed[j]
      /\ typed'[m].index = n
      /\ typed'[m].ops = os
  <2> DEFINE s == Append(typed, [index |-> n, ops |-> os])
  <2>1. typed' = s
    OBVIOUS
  <2>2. /\ s \in Seq(TypedBlock)
        /\ Len(s) = Len(typed) + 1
        /\ DOMAIN s = DOMAIN typed \cup {Len(typed) + 1}
        /\ \A j \in DOMAIN typed : s[j] = typed[j]
        /\ s[Len(typed) + 1].index = n
        /\ s[Len(typed) + 1].ops = os
    BY <1>1, AppendBlock
  <2> HIDE DEF s
  <2> QED BY <2>1, <2>2
<1>3. \A k \in DOMAIN typed' : LastOnly(typed'[k].ops)
  BY <1>2 DEF BlockInv, BlockDiscipline
<1>4. \A k \in DOMAIN typed : ~failed => Ends(typed[k].ops)
  BY DEF BlockInv, BlockDiscipline, OthersClosed, Closed
<1>5. BlockDiscipline' /\ \A i \in DOMAIN work' : ArmsApart(work'[i])
  <2>1. CASE work' = << >> /\ (failed' \/ Ends(os))
    <3>1. OthersClosed'
      BY <1>2, <1>4, <2>1 DEF OthersClosed, Closed
    <3>2. OwnersApart' /\ OwnedOpen'
      BY <2>1 DEF OwnersApart, OwnedOpen
    <3> QED BY <1>3, <2>1, <3>1, <3>2 DEF BlockDiscipline
  <2>2. ASSUME NEW g, work' = <<g>>, g.at = m, g.arms = << >>, ~Ends(os)
        PROVE  BlockDiscipline' /\ \A i \in DOMAIN work' : ArmsApart(work'[i])
    <3>1. Owns(g) = {m} /\ ArmsApart(g)
      BY <2>2, NoArms
    <3>2. DOMAIN work' = {1} /\ work'[1] = g
      BY <2>2
    <3> HIDE DEF m
    <3>3. OthersClosed'
      <4> SUFFICES ASSUME ~failed', NEW k \in DOMAIN typed'
                   PROVE  Ends(typed'[k].ops) \/ \E i \in DOMAIN work' : k \in Owns(work'[i])
        BY DEF OthersClosed, Closed
      <4>1. CASE k = m
        BY <3>1, <3>2, <4>1
      <4>2. CASE k \in DOMAIN typed
        BY <1>2, <1>4, <4>2
      <4> QED BY <1>2, <4>1, <4>2
    <3>4. OwnersApart'
      BY <3>2 DEF OwnersApart
    <3>5. OwnedOpen'
      BY <1>2, <2>2, <3>1, <3>2 DEF OwnedOpen, Closed
    <3> QED BY <1>3, <3>1, <3>2, <3>3, <3>4, <3>5 DEF BlockDiscipline
  <2> QED BY <2>1, <2>2
<1>6. NoneForgotten'
  <2> SUFFICES ASSUME ~failed', NEW k \in DOMAIN typed'
               PROVE  \/ typed'[k].index \in MirIndices(func)
                      \/ \E j \in DOMAIN typed' : \E i \in DOMAIN typed'[j].ops :
                           typed'[k].index \in typed'[j].ops[i].targets
    BY DEF NoneForgotten, Entered
  <2>1. CASE k = m
    BY <2>1, <1>2
  <2>2. CASE k \in DOMAIN typed
    <3>1. Entered(typed[k].index)
      BY <2>2 DEF BlockInv, NoneForgotten
    <3>2. typed'[k].index = typed[k].index
      BY <2>2, <1>2
    <3> HIDE DEF m
    <3> QED BY <1>2, <3>1, <3>2 DEF Entered
  <2> QED BY <2>1, <2>2, <1>2
<1> QED BY <1>5, <1>6 DEF BlockInv

(* A block whose terminator is not an unbridged drop is ended at once.      *)
LEMMA LiftBlockKeeps == IndexInv /\ BlockInv /\ LiftBlock => BlockInv'
<1> SUFFICES ASSUME IndexInv, BlockInv, LiftBlock PROVE BlockInv'
  OBVIOUS
<1> DEFINE b  == func[pos + 1]
           os == Lowered(b.term)
<1>1. /\ work = << >> /\ work' = work /\ func' = func /\ phase' = "lifting"
      /\ typed' = Append(typed, [index |-> b.index, ops |-> os])
      /\ b.term.op = "drop" => b.term.bridge
      /\ pos < Len(func)
      /\ failed' = (failed \/ ~b.liftable \/ b.term.op = "unliftable")
  BY DEF LiftBlock, BeginBlock
<1>2. func \in Funcs /\ pos + 1 \in DOMAIN func
  <2>1. func \in Funcs /\ pos \in 0..Len(func)
    BY DEF IndexInv, TypeOK
  <2>2. func \in Seq(MirBlock)
    BY <2>1, BodyFacts
  <2> QED BY <1>1, <2>1, <2>2
<1>3. /\ os \in Seq(TypedOp) /\ LastOnly(os)
      /\ b.term.op # "unliftable" => Ends(os)
      /\ b.index \in MirIndices(func)
  BY <1>1, <1>2, LoweredFacts, LoweredEnds, BodyFacts
<1> HIDE DEF os, b
<1> QED BY <1>1, <1>3, BlockBegun

(* A block that ends in a drop lowered to glue is owned by that glue.       *)
LEMMA LiftDropKeeps == IndexInv /\ BlockInv /\ LiftDrop => BlockInv'
<1> SUFFICES ASSUME IndexInv, BlockInv, LiftDrop PROVE BlockInv'
  OBVIOUS
<1> DEFINE b  == func[pos + 1]
           os == << >>
           g  == Glue(Len(typed) + 1, b.term.place, TargetOf(b.term))
<1>1. /\ work = << >> /\ work' = <<g>> /\ func' = func /\ phase' = "lifting"
      /\ typed' = Append(typed, [index |-> b.index, ops |-> os])
      /\ pos < Len(func)
      /\ failed' = (failed \/ ~b.liftable)
  BY DEF LiftDrop, BeginBlock
<1>2. func \in Funcs /\ pos + 1 \in DOMAIN func
  <2>1. func \in Funcs /\ pos \in 0..Len(func)
    BY DEF IndexInv, TypeOK
  <2>2. func \in Seq(MirBlock)
    BY <2>1, BodyFacts
  <2> QED BY <1>1, <2>1, <2>2
<1>3. /\ os \in Seq(TypedOp) /\ LastOnly(os) /\ ~Ends(os)
      /\ b.index \in MirIndices(func)
  BY <1>2, OneOp, BodyFacts
<1>4. g.at = Len(typed) + 1 /\ g.arms = << >>
  BY DEF Glue, Pending
<1> HIDE DEF os, b, g
<1> QED BY <1>1, <1>3, <1>4, BlockBegun

(* The scan, the end of the pass and stuttering touch no block.             *)
LEMMA OtherStepsKeep ==
  BlockInv /\ (Scan \/ ScanDone \/ Finish \/ UNCHANGED liftVars) => BlockInv'
<1> SUFFICES ASSUME BlockInv, Scan \/ ScanDone \/ Finish \/ UNCHANGED liftVars
             PROVE  BlockInv'
  OBVIOUS
<1>1. UNCHANGED <<func, typed, work, failed>>
  BY DEF Scan, ScanDone, Finish, liftVars
<1>2. (phase = "done" => ~failed)'
  BY DEF Scan, ScanDone, Finish, liftVars, BlockInv
<1> QED
  BY <1>1, <1>2 DEF BlockInv, BlockDiscipline, OwnersApart, OwnedOpen,
                    OthersClosed, Closed, NoneForgotten, Entered

-----------------------------------------------------------------------------
(* The theorems.                                                            *)

(* BlockInv holds of every state of the pass.                               *)
THEOREM BlockInvariant == Spec => []BlockInv
<1>1. Init => BlockInv
  BY DEF Init, BlockInv, BlockDiscipline, OwnersApart, OwnedOpen,
         OthersClosed, NoneForgotten
<1>2. IndexInv /\ BlockInv /\ [Next]_liftVars => BlockInv'
  BY LiftBlockKeeps, LiftDropKeeps, EmitDropGlueHandover, OtherStepsKeep
     DEF Next
<1> QED BY <1>1, <1>2, IndexInvariant, PTL DEF Spec

(* However drops nest, every block of the typed function is ended once:     *)
(* nothing follows a terminator, and no block is left open unless the pass  *)
(* has failed (emitDropGlueTo and the functions it calls).                  *)
THEOREM BlocksEndOnce == Spec => []BlockDiscipline
<1>1. BlockInv => BlockDiscipline
  BY DEF BlockInv
<1> QED BY <1>1, BlockInvariant, PTL

(* When the pass succeeds every synthetic block is the target of a branch:  *)
(* createSyntheticTypedBlock leaves no block without a way in.              *)
THEOREM SyntheticBlocksEntered == Spec => []SyntheticEntered
<1>1. IndexInv /\ BlockInv => SyntheticEntered
  <2> SUFFICES ASSUME IndexInv, BlockInv, phase = "done", NEW k \in DOMAIN typed
               PROVE  Entered(typed[k].index)
    BY DEF SyntheticEntered
  <2>1. work = << >> /\ ~failed
    BY DEF IndexInv, Phases, BlockInv
  <2> QED BY <2>1 DEF BlockInv, NoneForgotten
<1> QED BY <1>1, BlockInvariant, IndexInvariant, PTL

-----------------------------------------------------------------------------
(* Blocks that are ended are final.                                         *)

(* Operations are only emitted into the block of the emission on top of the *)
(* stack, which is open.                                                    *)
LEMMA EmitTouchesOpen ==
  ASSUME IndexInv, BlockInv, work # << >>, NEW os \in Seq(TypedOp),
         typed' = Emit(typed, Head(work).at, os)
  PROVE  \A k \in DOMAIN typed : Closed(k) => typed'[k] = typed[k]
<1> DEFINE m == Head(work).at
           e == Emit(typed, m, os)
<1>1. typed \in Seq(TypedBlock) /\ m \in DOMAIN typed
  BY HeadFacts DEF IndexInv, TypeOK
<1>2. ~Closed(m)
  <2>1. work \in Seq(PendingEmission)
    BY DEF IndexInv, TypeOK
  <2>2. 1 \in DOMAIN work /\ m = work[1].at
    BY <2>1
  <2>3. m \in Owns(work[1])
    BY <2>2 DEF Owns
  <2> QED BY <2>2, <2>3 DEF BlockInv, BlockDiscipline, OwnedOpen
<1>3. typed' = e
  OBVIOUS
<1> HIDE DEF m
<1>4. \A j \in DOMAIN typed \ {m} : e[j] = typed[j]
  BY <1>1, EmitFacts
<1> HIDE DEF e
<1> QED BY <1>2, <1>3, <1>4

(* A block appended changes no other.                                       *)
LEMMA AppendTouchesNone ==
  ASSUME IndexInv, NEW b, typed' = Append(typed, b)
  PROVE  \A k \in DOMAIN typed : typed'[k] = typed[k]
<1>1. typed \in Seq(TypedBlock)
  BY DEF IndexInv, TypeOK
<1> QED BY <1>1

(* An emit action emits operations, creates a block, or touches none.       *)
LEMMA EmitDropGlueTyped ==
  ASSUME IndexInv, EmitDropGlue
  PROVE  /\ work # << >>
         /\ \/ \E os \in Seq(TypedOp) : typed' = Emit(typed, Head(work).at, os)
            \/ \E b : typed' = Append(typed, b)
            \/ typed' = typed
<1> DEFINE t == Head(work)
<1>1. work # << >>
  BY DEF EmitDropGlue, Running, GlueNotNeeded, GlueOneShape, GlueEnum,
         GlueUnsupported, SequenceEmpty, SequenceLast, SequenceNext,
         VariantBlock, VariantSkipped, NoVariantBlocks, SwitchOnVariant
<1>2. CASE GlueNotNeeded \/ SequenceEmpty \/ NoVariantBlocks
  <2>1. typed' = Emit(typed, t.at, <<Goto(t.target)>>)
    BY <1>2 DEF GlueNotNeeded, SequenceEmpty, NoVariantBlocks
  <2> QED BY <1>1, <2>1, GotoTarget
<1>3. CASE GlueOneShape \/ GlueEnum \/ GlueUnsupported
  <2>1. t.kind = "glue" /\ typed' = Emit(typed, t.at, OwnDrop(t.places[1]))
    BY <1>3 DEF GlueOneShape, GlueEnum, GlueUnsupported, Running
  <2>2. t.places[1] \in Place
    BY <1>1, <2>1, HeadFacts
  <2> QED BY <1>1, <2>1, <2>2, OwnDropFacts
<1>4. CASE SequenceLast \/ VariantSkipped
  BY <1>1, <1>4 DEF SequenceLast, VariantSkipped
<1>5. CASE SequenceNext \/ VariantBlock
  BY <1>1, <1>5 DEF SequenceNext, VariantBlock, Synthetic
<1>6. CASE SwitchOnVariant
  <2> DEFINE o == SwitchTag(t.places[1], t.arms, t.target)
  <2>1. /\ t.kind = "variants" /\ typed' = Emit(typed, t.at, <<o>>)
    BY <1>6 DEF SwitchOnVariant, Running
  <2>2. /\ t.places[1] \in Place /\ t.target \in Nat /\ t.arms \in Seq(Arm)
    BY <1>1, <2>1, HeadFacts
  <2>3. o = [op |-> "switch_tag", place |-> t.places[1], arms |-> t.arms,
             default |-> t.target,
             targets |-> {t.target} \cup {t.arms[k].index : k \in DOMAIN t.arms}]
    BY DEF SwitchTag
  <2>4. o.targets \in SUBSET Nat
    <3>1. \A k \in DOMAIN t.arms : t.arms[k] \in Arm
      BY <2>2
    <3>2. \A k \in DOMAIN t.arms : t.arms[k].index \in Nat
      BY <3>1 DEF Arm
    <3> HIDE DEF t
    <3> QED BY <2>2, <2>3, <3>2
  <2>5. o \in TypedOp
    BY <2>2, <2>3, <2>4 DEF TypedOp
  <2> HIDE DEF o
  <2>6. <<o>> \in Seq(TypedOp)
    BY <2>5
  <2> QED BY <1>1, <2>1, <2>6
<1> QED BY <1>2, <1>3, <1>4, <1>5, <1>6 DEF EmitDropGlue

(* A block that was ended is never written to again, whatever drop is       *)
(* expanded after it (the insertion point only moves to open blocks).       *)
THEOREM EndedBlocksAreFinal == Spec => ClosedBlocksAreFinal
<1>1. IndexInv /\ BlockInv /\ [Next]_liftVars
        => [\A k \in DOMAIN typed : Closed(k) => typed'[k] = typed[k]]_liftVars
  <2> SUFFICES ASSUME IndexInv, BlockInv, Next
               PROVE  \A k \in DOMAIN typed : Closed(k) => typed'[k] = typed[k]
    OBVIOUS
  <2>1. CASE Scan \/ ScanDone \/ Finish
    BY <2>1 DEF Scan, ScanDone, Finish
  <2>2. CASE LiftBlock \/ LiftDrop
    BY <2>2, AppendTouchesNone DEF LiftBlock, LiftDrop
  <2>3. CASE EmitDropGlue
    <3>1. CASE \E os \in Seq(TypedOp) : typed' = Emit(typed, Head(work).at, os)
      BY <2>3, <3>1, EmitDropGlueTyped, EmitTouchesOpen
    <3>2. CASE \E b : typed' = Append(typed, b)
      BY <3>2, AppendTouchesNone
    <3>3. CASE typed' = typed
      BY <3>3
    <3> QED BY <2>3, <3>1, <3>2, <3>3, EmitDropGlueTyped
  <2> QED BY <2>1, <2>2, <2>3 DEF Next
<1> QED
  BY <1>1, IndexInvariant, BlockInvariant, PTL DEF Spec, ClosedBlocksAreFinal

=============================================================================
