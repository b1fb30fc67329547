--------------------------- MODULE Collect_proofs ---------------------------
(***************************************************************************)
(* Proofs about MirProgram::collect, for every set of crates: its type      *)
(* invariant, and that it collects the required bodies, each once, so that  *)
(* the plain uses find what they resolve to; and that it ends only if these *)
(* are finitely many, which polymorphic recursion breaks.                   *)
(*                                                                          *)
(* Required is the least closed set.  The invariant says from below that    *)
(* what is collected or pending is in every closed set (Reached), and from  *)
(* above that what is collected is closed up to what is pending and, among  *)
(* the items, up to what has not been looked at (Followed, ItemsDone).      *)
(***************************************************************************)
EXTENDS Collect, FiniteSetTheorems, WellFoundedInduction, TLAPS

\* A function of the module is the body of an item or of an instance, under
\* the symbol that collect gives it.
Named ==
  \A f \in Functions :
    \/ f.body \in crate.items \ crate.parametric /\ f.symbol = crate.path[f.body]
    \/ f.body \in crate.instances /\ f.symbol = crate.mangled[f.body]

\* emitted holds no symbol but those of the functions.
Noted == \A s \in emitted : \E f \in Functions : f.symbol = s

\* What is collected or pending is in every closed set.
Reached ==
  \A S \in SUBSET (crate.items \cup crate.instances) :
    Closed(S) => Bodies \cup pending \subseteq S

\* Every item that was looked at and has no generic types is collected.
ItemsDone ==
  DistinctNames(crate) =>
    \A i \in (crate.items \ crate.parametric) \ todo : i \in Bodies

\* Every instance a collected body calls is collected or pending.
Followed ==
  DistinctNames(crate) =>
    \A b \in Bodies : LocalInstances(b) \subseteq Bodies \cup pending

\* The inductive invariant.
IInv ==
  /\ TypeOK
  /\ Named
  /\ Noted
  /\ DefinedOnce
  /\ Reached
  /\ ItemsDone
  /\ Followed

-----------------------------------------------------------------------------
\* What the assumption on the constants says of the crate at hand: the shapes
\* of its fields that the steps below use.
LEMMA CrateFacts ==
  ASSUME crate \in Crates
  PROVE  /\ crate.items \cap crate.instances = {}
         /\ crate.parametric \subseteq crate.items
         /\ Foreign \notin crate.items \cup crate.instances
         /\ \A b \in crate.items \cup crate.instances :
              \A u \in crate.uses[b] : u.target \in crate.items \cup crate.instances \cup {Foreign}
  BY CratesOK DEF IsCrate

\* A function of the module is a record of its symbol, which is noted, and a
\* body of the crate.
LEMMA FunctionShape ==
  ASSUME TypeOK, NEW f \in Functions
  PROVE  /\ f.symbol \in emitted
         /\ f.body \in crate.items \cup crate.instances
         /\ f = [symbol |-> f.symbol, body |-> f.body]
<1> DEFINE B == crate.items \cup crate.instances
           R == [symbol : emitted, body : B]
<1>1. functions \in Seq(R)
  BY DEF TypeOK
<1> HIDE DEF R
<1>2. \A k \in DOMAIN functions : functions[k] \in R
  BY <1>1
<1>3. f \in R
  BY <1>2 DEF Functions
<1> HIDE DEF B
<1> QED BY <1>3 DEF R, B

\* Emitting appends one function: the functions, their bodies and their
\* symbols grow by that one.
LEMMA EmitGrows ==
  ASSUME NEW s, NEW b \in crate.items \cup crate.instances,
         TypeOK, crate' = crate, Emit(s, b)
  PROVE  /\ functions' \in Seq([symbol : emitted', body : crate'.items \cup crate'.instances])
         /\ Functions' = Functions \cup {[symbol |-> s, body |-> b]}
         /\ Bodies' = Bodies \cup {b}
         /\ Len(functions') = Len(functions) + 1
         /\ functions'[Len(functions) + 1] = [symbol |-> s, body |-> b]
         /\ \A k \in 1..Len(functions) : functions'[k] = functions[k]
<1> DEFINE R == [symbol : emitted, body : crate.items \cup crate.instances]
           Rn == [symbol : emitted', body : crate'.items \cup crate'.instances]
           r == [symbol |-> s, body |-> b]
<1>1. functions \in Seq(R) /\ functions' = Append(functions, r) /\ emitted' = emitted \cup {s}
  BY DEF TypeOK, Emit
<1>2. R \subseteq Rn /\ r \in Rn
  BY <1>1
<1> HIDE DEF R, Rn, r
<1>3. functions \in Seq(Rn)
  BY <1>1, <1>2
<1>4. functions' \in Seq(Rn)
  BY <1>1, <1>2, <1>3
<1>5. Len(functions') = Len(functions) + 1 /\ functions'[Len(functions) + 1] = r
      /\ \A k \in 1..Len(functions) : functions'[k] = functions[k]
  BY <1>1, <1>2, <1>3
<1>6. DOMAIN functions = 1..Len(functions) /\ Len(functions) \in Nat
      /\ DOMAIN functions' = 1..(Len(functions) + 1)
  BY <1>3, <1>4, <1>5
<1>7. Functions' = Functions \cup {r}
  <2> DEFINE n == Len(functions)
  <2>1. n \in Nat /\ DOMAIN functions = 1..n /\ DOMAIN functions' = 1..(n + 1)
    BY <1>6
  <2>2. functions'[n + 1] = r /\ \A k \in 1..n : functions'[k] = functions[k]
    BY <1>5
  <2> HIDE DEF n
  <2>3. ASSUME NEW k \in DOMAIN functions' PROVE functions'[k] \in Functions \cup {r}
    <3>1. CASE k = n + 1
      BY <3>1, <2>2
    <3>2. CASE k # n + 1
      <4>1. k \in 1..n
        BY <3>2, <2>1, <2>3
      <4> QED BY <4>1, <2>1, <2>2 DEF Functions
    <3> QED BY <3>1, <3>2
  <2>4. ASSUME NEW k \in DOMAIN functions PROVE functions[k] \in Functions'
    <3>1. k \in DOMAIN functions' /\ functions'[k] = functions[k]
      BY <2>1, <2>2, <2>4
    <3> QED BY <3>1 DEF Functions
  <2>5. r \in Functions'
    <3>1. n + 1 \in DOMAIN functions'
      BY <2>1
    <3> QED BY <3>1, <2>2 DEF Functions
  <2> QED BY <2>3, <2>4, <2>5 DEF Functions
<1>8. r.body = b
  BY DEF r
<1>9. Bodies' = Bodies \cup {b}
  BY <1>7, <1>8 DEF Bodies
<1> QED BY <1>4, <1>5, <1>7, <1>9 DEF Rn, r

\* What is emitted under its own symbol, when that symbol is new, keeps the
\* invariants about names, whatever happens to the two lists.
LEMMA EmitNames ==
  ASSUME NEW s, NEW b \in crate.items \cup crate.instances,
         IInv, crate' = crate, Emit(s, b), s \notin emitted,
         \/ b \in crate.items \ crate.parametric /\ s = crate.path[b]
         \/ b \in crate.instances /\ s = crate.mangled[b]
  PROVE  Named' /\ Noted' /\ DefinedOnce'
<1> DEFINE r == [symbol |-> s, body |-> b]
<1>1. Functions' = Functions \cup {r} /\ emitted' = emitted \cup {s}
  BY EmitGrows DEF IInv, Emit
<1>2. r.symbol = s /\ r.body = b
  OBVIOUS
<1>3. crate \in Crates
  BY DEF IInv, TypeOK
<1>4. crate.items \cap crate.instances = {}
  BY <1>3, CrateFacts
<1> HIDE DEF r
<1>5. Named'
  BY <1>1, <1>2 DEF IInv, Named
<1>6. Noted'
  BY <1>1, <1>2 DEF IInv, Noted
<1>7. DefinedOnce'
  <2> DEFINE n == Len(functions)
  <2>1. n \in Nat /\ DOMAIN functions = 1..n /\ DOMAIN functions' = 1..(n + 1)
        /\ functions'[n + 1] = r /\ \A k \in 1..n : functions'[k] = functions[k]
    <3>1. Len(functions') = n + 1 /\ functions'[n + 1] = r
          /\ \A k \in 1..n : functions'[k] = functions[k]
      BY EmitGrows DEF IInv, r
    <3>2. functions' \in Seq([symbol : emitted', body : crate'.items \cup crate'.instances])
      BY EmitGrows DEF IInv
    <3>3. functions \in Seq([symbol : emitted, body : crate.items \cup crate.instances])
      BY DEF IInv, TypeOK
    <3> QED BY <3>1, <3>2, <3>3
  <2> HIDE DEF n
  <2>2. ASSUME NEW k \in 1..n PROVE functions[k].symbol # s /\ functions[k].body # b
    <3>1. functions[k] \in Functions
      BY <2>1 DEF Functions
    <3>2. functions[k].symbol \in emitted
      BY <3>1, FunctionShape DEF IInv
    <3>3. functions[k].symbol # s
      BY <3>2
    <3>4. ASSUME functions[k].body = b PROVE functions[k].symbol = s
      BY <3>1, <3>4, <1>4 DEF IInv, Named
    <3> QED BY <3>3, <3>4
  <2>3. ASSUME NEW k \in 1..(n + 1), NEW l \in 1..(n + 1),
               \/ functions'[k].symbol = functions'[l].symbol
               \/ functions'[k].body = functions'[l].body
        PROVE  k = l
    <3>1. CASE k \in 1..n /\ l \in 1..n
      BY <3>1, <2>1, <2>3 DEF IInv, DefinedOnce
    <3>2. CASE k = n + 1 /\ l \in 1..n
      BY <3>2, <2>1, <2>2, <2>3, <1>2
    <3>3. CASE k \in 1..n /\ l = n + 1
      BY <3>3, <2>1, <2>2, <2>3, <1>2
    <3>4. k \in 1..n \/ k = n + 1
      BY <2>1
    <3>5. l \in 1..n \/ l = n + 1
      BY <2>1
    <3> QED BY <3>1, <3>2, <3>3, <3>4, <3>5
  <2> QED BY <2>1, <2>3 DEF DefinedOnce
<1> QED BY <1>5, <1>6, <1>7

\* An instance that a body calls belongs to every closed set the body is in.
LEMMA ClosedCalls ==
  ASSUME NEW S, Closed(S), NEW b \in S
  PROVE  LocalInstances(b) \subseteq S
  BY DEF Closed, LocalInstances

\* Under distinct names a symbol that is emitted is that of its own body: the
\* body is collected.
LEMMA EmittedIsCollected ==
  ASSUME IInv, DistinctNames(crate)
  PROVE  /\ \A i \in crate.items : crate.path[i] \in emitted => i \in Bodies
         /\ \A n \in crate.instances : crate.mangled[n] \in emitted => n \in Bodies
<1>1. \A s \in emitted : \E f \in Functions : f.symbol = s /\ f.body \in Bodies
  BY DEF IInv, Noted, Bodies
<1> QED BY <1>1 DEF IInv, Named, DistinctNames

-----------------------------------------------------------------------------
\* Before the first step nothing is collected.
LEMMA InitInv == Init => IInv
<1> SUFFICES ASSUME Init PROVE IInv
  OBVIOUS
<1>1. functions = <<>> /\ Functions = {} /\ Bodies = {} /\ pending = {}
  BY DEF Init, Functions, Bodies
<1>2. TypeOK
  BY <1>1 DEF Init, TypeOK
<1>3. Named /\ Noted /\ DefinedOnce
  BY <1>1 DEF Init, Named, Noted, DefinedOnce
<1>4. Reached /\ ItemsDone /\ Followed
  BY <1>1 DEF Init, Reached, ItemsDone, Followed
<1> QED BY <1>2, <1>3, <1>4 DEF IInv

\* An item: skipped for its generic types, skipped for its name, or emitted.
LEMMA ItemInv ==
  ASSUME IInv, NEW i \in todo, CollectItem(i)
  PROVE  IInv'
<1>1. crate' = crate /\ i \in crate.items /\ todo' = todo \ {i}
      /\ todo \subseteq crate.items /\ crate \in Crates /\ pending \subseteq crate.instances
  BY DEF CollectItem, IInv, TypeOK
<1>2. CASE i \in crate.parametric \/ crate.path[i] \in emitted
  <2>1. UNCHANGED <<pending, emitted, functions>>
    BY <1>2 DEF CollectItem
  <2>2. Functions' = Functions /\ Bodies' = Bodies
    BY <2>1 DEF Functions, Bodies
  <2>3. TypeOK'
    BY <1>1, <2>1 DEF IInv, TypeOK
  <2>4. Named' /\ Noted' /\ DefinedOnce'
    BY <1>1, <2>1, <2>2 DEF IInv, Named, Noted, DefinedOnce
  <2>5. Reached'
    BY <1>1, <2>1, <2>2 DEF IInv, Reached, Closed
  <2>6. Followed'
    BY <1>1, <2>1, <2>2 DEF IInv, Followed, DistinctNames, LocalInstances
  <2>7. ItemsDone'
    <3> SUFFICES ASSUME DistinctNames(crate), NEW j \in (crate.items \ crate.parametric) \ todo'
                 PROVE  j \in Bodies
      BY <1>1, <2>2 DEF ItemsDone, DistinctNames
    <3>1. CASE j = i
      BY <3>1, <1>1, <1>2, EmittedIsCollected
    <3>2. CASE j # i
      BY <3>2, <1>1 DEF IInv, ItemsDone
    <3> QED BY <3>1, <3>2
  <2> QED BY <2>3, <2>4, <2>5, <2>6, <2>7 DEF IInv
<1>3. CASE i \notin crate.parametric /\ crate.path[i] \notin emitted
  <2>1. Emit(crate.path[i], i) /\ pending' = pending \cup LocalInstances(i)
    BY <1>3 DEF CollectItem
  <2>2. Bodies' = Bodies \cup {i}
        /\ functions' \in Seq([symbol : emitted', body : crate'.items \cup crate'.instances])
    BY <1>1, <2>1, EmitGrows DEF IInv
  <2>3. TypeOK'
    BY <1>1, <2>1, <2>2 DEF TypeOK, LocalInstances
  <2>4. Named' /\ Noted' /\ DefinedOnce'
    BY <1>1, <1>3, <2>1, EmitNames
  <2>5. Reached'
    <3> SUFFICES ASSUME NEW S \in SUBSET (crate.items \cup crate.instances), Closed(S)
                 PROVE  Bodies' \cup pending' \subseteq S
      BY <1>1 DEF Reached, Closed
    <3>1. i \in S
      BY <1>1, <1>3 DEF Closed
    <3>2. LocalInstances(i) \subseteq S
      BY <3>1, ClosedCalls
    <3> QED BY <2>1, <2>2, <3>1, <3>2 DEF IInv, Reached
  <2>6. ItemsDone'
    BY <1>1, <2>2 DEF IInv, ItemsDone, DistinctNames
  <2>7. Followed'
    <3> SUFFICES ASSUME DistinctNames(crate), NEW b \in Bodies'
                 PROVE  LocalInstances(b) \subseteq Bodies' \cup pending'
      BY <1>1 DEF Followed, DistinctNames, LocalInstances
    <3> QED BY <2>1, <2>2 DEF IInv, Followed
  <2> QED BY <2>3, <2>4, <2>5, <2>6, <2>7 DEF IInv
<1> QED BY <1>2, <1>3

\* An instance: found emitted, or emitted and what it calls queued.
LEMMA InstanceInv ==
  ASSUME IInv, NEW n \in pending, CollectInstance(n)
  PROVE  IInv'
<1>1. crate' = crate /\ todo' = todo /\ n \in crate.instances
      /\ crate \in Crates /\ pending \subseteq crate.instances /\ todo \subseteq crate.items
  BY DEF CollectInstance, IInv, TypeOK
<1>2. CASE crate.mangled[n] \in emitted
  <2>1. pending' = pending \ {n} /\ UNCHANGED <<emitted, functions>>
    BY <1>2 DEF CollectInstance
  <2>2. Functions' = Functions /\ Bodies' = Bodies
    BY <2>1 DEF Functions, Bodies
  <2>3. TypeOK'
    BY <1>1, <2>1 DEF IInv, TypeOK
  <2>4. Named' /\ Noted' /\ DefinedOnce'
    BY <1>1, <2>1, <2>2 DEF IInv, Named, Noted, DefinedOnce
  <2>5. Reached'
    BY <1>1, <2>1, <2>2 DEF IInv, Reached, Closed
  <2>6. ItemsDone'
    BY <1>1, <2>2 DEF IInv, ItemsDone, DistinctNames
  <2>7. Followed'
    <3> SUFFICES ASSUME DistinctNames(crate), NEW b \in Bodies
                 PROVE  LocalInstances(b) \subseteq Bodies \cup (pending \ {n})
      BY <1>1, <2>1, <2>2 DEF Followed, DistinctNames, LocalInstances
    <3>1. n \in Bodies
      BY <1>1, <1>2, EmittedIsCollected
    <3>2. LocalInstances(b) \subseteq Bodies \cup pending
      BY DEF IInv, Followed
    <3> QED BY <3>1, <3>2
  <2> QED BY <2>3, <2>4, <2>5, <2>6, <2>7 DEF IInv
<1>3. CASE crate.mangled[n] \notin emitted
  <2>1. Emit(crate.mangled[n], n) /\ pending' = (pending \ {n}) \cup LocalInstances(n)
    BY <1>3 DEF CollectInstance
  <2>2. Bodies' = Bodies \cup {n}
        /\ functions' \in Seq([symbol : emitted', body : crate'.items \cup crate'.instances])
    BY <1>1, <2>1, EmitGrows DEF IInv
  <2>3. TypeOK'
    BY <1>1, <2>1, <2>2 DEF TypeOK, LocalInstances
  <2>4. Named' /\ Noted' /\ DefinedOnce'
    BY <1>1, <1>3, <2>1, EmitNames
  <2>5. Reached'
    <3> SUFFICES ASSUME NEW S \in SUBSET (crate.items \cup crate.instances), Closed(S)
                 PROVE  Bodies' \cup pending' \subseteq S
      BY <1>1 DEF Reached, Closed
    <3>1. Bodies \cup pending \subseteq S
      BY DEF IInv, Reached
    <3>2. LocalInstances(n) \subseteq S
      BY <3>1, ClosedCalls
    <3> QED BY <2>1, <2>2, <3>1, <3>2
  <2>6. ItemsDone'
    BY <1>1, <2>2 DEF IInv, ItemsDone, DistinctNames
  <2>7. Followed'
    <3> SUFFICES ASSUME DistinctNames(crate), NEW b \in Bodies'
                 PROVE  LocalInstances(b) \subseteq Bodies' \cup pending'
      BY <1>1 DEF Followed, DistinctNames, LocalInstances
    <3>1. CASE b = n
      BY <3>1, <2>1
    <3>2. CASE b # n
      BY <3>2, <2>1, <2>2 DEF IInv, Followed
    <3> QED BY <3>1, <3>2
  <2> QED BY <2>3, <2>4, <2>5, <2>6, <2>7 DEF IInv
<1> QED BY <1>2, <1>3

\* The inductive invariant holds throughout.
THEOREM CollectInvariant == Spec => []IInv
<1>1. ASSUME IInv, [Next]_vars PROVE IInv'
  <2>1. CASE \E i \in todo : CollectItem(i)
    BY <1>1, <2>1, ItemInv
  <2>2. CASE \E n \in pending : CollectInstance(n)
    BY <1>1, <2>2, InstanceInv
  <2>3. CASE UNCHANGED vars
    <3>1. /\ crate' = crate /\ todo' = todo /\ pending' = pending
          /\ emitted' = emitted /\ functions' = functions
      BY <2>3 DEF vars
    <3>2. Functions' = Functions /\ Bodies' = Bodies
      BY <3>1 DEF Functions, Bodies
    <3>3. TypeOK' /\ Named' /\ Noted' /\ DefinedOnce'
      BY <1>1, <3>1, <3>2 DEF IInv, TypeOK, Named, Noted, DefinedOnce
    <3>4. Reached' /\ ItemsDone' /\ Followed'
      BY <1>1, <3>1, <3>2 DEF IInv, Reached, ItemsDone, Followed, Closed, DistinctNames,
         LocalInstances
    <3> QED BY <3>3, <3>4 DEF IInv
  <2> QED BY <1>1, <2>1, <2>2, <2>3 DEF Next
<1> QED BY InitInv, <1>1, PTL DEF Spec

-----------------------------------------------------------------------------
\* What the invariant says once both lists are empty: the bodies collected are
\* a closed set, and in every other.
LEMMA RequiredOfInv == IInv => CollectsRequired
<1> SUFFICES ASSUME IInv, Collected, DistinctNames(crate) PROVE Bodies = Required
  BY DEF CollectsRequired
<1> DEFINE All == crate.items \cup crate.instances
<1>1. Bodies \subseteq All
  BY DEF IInv, Named, Bodies
<1>2. Closed(Bodies)
  <2>1. crate.items \ crate.parametric \subseteq Bodies
    BY DEF IInv, ItemsDone, Collected
  <2>2. \A b \in Bodies : LocalInstances(b) \subseteq Bodies
    BY DEF IInv, Followed, Collected
  <2> QED BY <2>1, <2>2 DEF Closed, LocalInstances
<1>3. Required \subseteq Bodies
  BY <1>1, <1>2 DEF Required
<1>4. Bodies \subseteq Required
  BY <1>1 DEF IInv, Reached, Required
<1> QED BY <1>3, <1>4

\* Collection takes the items without generic types and the instances that
\* what it takes calls, directly or not, and nothing else.
THEOREM Collection == Spec => []CollectsRequired
  BY CollectInvariant, RequiredOfInv, PTL

\* No function is defined twice.
THEOREM NoDuplicates == Spec => []DefinedOnce
<1>1. IInv => DefinedOnce
  BY DEF IInv
<1> QED BY <1>1, CollectInvariant, PTL

\* The symbol of a collected body is the one its uses are lowered to.
LEMMA LandsOfInv == IInv => PlainUsesLand
<1> SUFFICES ASSUME IInv, Collected, DistinctNames(crate),
                    NEW b \in Bodies, NEW u \in crate.uses[b], Plain(u)
             PROVE  Lands(u)
  BY DEF PlainUsesLand
<1>1. crate.items \cap crate.instances = {}
  BY CrateFacts DEF IInv, TypeOK
<1>2. u.target \in Bodies
  <2>1. CASE u.kind = "call" /\ u.target \in crate.instances
    BY <2>1 DEF IInv, Followed, Collected, LocalInstances
  <2>2. CASE u.target \in crate.items \ crate.parametric
    BY <2>2 DEF IInv, ItemsDone, Collected
  <2> QED BY <2>1, <2>2 DEF Plain
<1>3. PICK f \in Functions : f.body = u.target
  BY <1>2 DEF Bodies
<1>4. f.symbol = SymbolOf(u)
  BY <1>1, <1>3 DEF IInv, Named, Plain, SymbolOf
<1>5. f = [symbol |-> f.symbol, body |-> f.body]
  BY <1>3, FunctionShape DEF IInv
<1> QED BY <1>3, <1>4, <1>5 DEF Lands

\* Every plain use finds the function it resolves to, under its symbol.
THEOREM PlainUses == Spec => []PlainUsesLand
  BY CollectInvariant, LandsOfInv, PTL

-----------------------------------------------------------------------------
\* Whatever has been collected is finitely many bodies.
LEMMA BodiesFinite == TypeOK => IsFiniteSet(Bodies)
<1> SUFFICES ASSUME TypeOK PROVE IsFiniteSet(Bodies)
  OBVIOUS
<1> DEFINE body == [k \in DOMAIN functions |-> functions[k].body]
<1>1. DOMAIN functions = 1..Len(functions) /\ Len(functions) \in Nat
  BY DEF TypeOK
<1>2. IsFiniteSet(DOMAIN functions)
  BY <1>1, FS_Interval
<1>3. body \in Surjection(DOMAIN functions, Bodies)
  BY DEF Surjection, Bodies, Functions
<1> QED BY <1>2, <1>3, FS_Surjection

\* The worklist of collect has no bound: when the bodies the module must hold
\* are infinitely many it is never empty, and the extractor never goes on.
THEOREM EndsOnlyIfFinite ==
  Spec => [](DistinctNames(crate) /\ ~IsFiniteSet(Required) => ~Collected)
<1>1. IInv => (DistinctNames(crate) /\ ~IsFiniteSet(Required) => ~Collected)
  BY RequiredOfInv, BodiesFinite DEF IInv, CollectsRequired
<1> QED BY <1>1, CollectInvariant, PTL

\* A crate of two items, main (-1) and a generic function f (-2).  main calls
\* f::<u8>, the instance 0; f::<T> calls f::<Option<T>>, so the instance that
\* has wrapped u8 n times calls the one that has wrapped it once more.
Polymorphic ==
  [items |-> {-1, -2}, parametric |-> {-2}, instances |-> Nat,
   path |-> [i \in {-1, -2} |-> i], mangled |-> [n \in Nat |-> n],
   uses |-> [b \in {-1, -2} \cup Nat |->
               IF b = -2 THEN {}
               ELSE {[kind |-> "call", def |-> -2, target |-> b + 1]}]]

\* The naturals have no end.
LEMMA NatInfinite == ~IsFiniteSet(Nat)
<1> SUFFICES ASSUME IsFiniteSet(Nat) PROVE FALSE
  OBVIOUS
<1> DEFINE n == Cardinality(Nat)
<1>1. n \in Nat
  BY FS_CardinalityType
<1>2. 1..(n + 1) \in SUBSET Nat
  BY <1>1
<1>3. Cardinality(1..(n + 1)) <= n
  BY <1>2, FS_Subset
<1>4. Cardinality(1..(n + 1)) = n + 1
  BY <1>1, FS_Interval
<1> QED BY <1>1, <1>3, <1>4

\* A set that has 0 and with every number the next is all of Nat: the least
\* number it lacked would follow one that it has.
LEMMA AllFollow ==
  ASSUME NEW S, 0 \in S, \A n \in Nat : n \in S => n + 1 \in S
  PROVE  Nat \subseteq S
<1> SUFFICES ASSUME Nat \ S # {} PROVE FALSE
  OBVIOUS
<1> DEFINE Less == OpToRel(<, Nat)
           T == Nat \ S
<1>1. IsWellFoundedOn(Less, Nat)
  BY NatLessThanWellFounded
<1>2. \A m, n \in Nat : m < n => <<m, n>> \in Less
  BY DEF OpToRel
<1> HIDE DEF Less
<1>3. T \subseteq Nat /\ T # {}
  OBVIOUS
<1>4. \E n \in T : \A m \in T : <<m, n>> \notin Less
  BY <1>1, <1>3, WFMin
<1>5. PICK n \in T : \A m \in T : <<m, n>> \notin Less
  BY <1>4
<1>6. n \in Nat /\ n \notin S /\ n # 0
  OBVIOUS
<1>7. n - 1 \in Nat /\ n - 1 < n /\ (n - 1) + 1 = n
  BY <1>6
<1>8. n - 1 \in S
  BY <1>2, <1>5, <1>6, <1>7
<1> QED BY <1>6, <1>7, <1>8

\* Such a crate is one of those the model is about, its names are distinct, and
\* it requires infinitely many bodies: with EndsOnlyIfFinite, collecting it
\* never ends.
THEOREM PolymorphicRecursion ==
  ASSUME Foreign \notin Int, crate = Polymorphic
  PROVE  IsCrate(crate) /\ DistinctNames(crate) /\ ~IsFiniteSet(Required)
<1> DEFINE All == crate.items \cup crate.instances
<1>1. /\ crate.items = {-1, -2} /\ crate.parametric = {-2} /\ crate.instances = Nat
      /\ crate.path = [i \in {-1, -2} |-> i] /\ crate.mangled = [n \in Nat |-> n]
      /\ DOMAIN crate.uses = {-1, -2} \cup Nat
  BY DEF Polymorphic
<1>2. crate.uses[-2] = {}
  BY DEF Polymorphic
<1>3. \A b \in {-1} \cup Nat :
        crate.uses[b] = {[kind |-> "call", def |-> -2, target |-> b + 1]}
  BY DEF Polymorphic
<1>4. IsCrate(crate)
  <2>1. IsFiniteSet({-1, -2})
    <3>1. IsFiniteSet({-1})
      BY FS_Singleton
    <3>2. IsFiniteSet({-1} \cup {-2})
      BY <3>1, FS_AddElement
    <3>3. {-1} \cup {-2} = {-1, -2}
      OBVIOUS
    <3> QED BY <3>2, <3>3
  <2>2. \A b \in {-1, -2} \cup Nat : \A u \in crate.uses[b] :
          u.kind = "call" /\ u.target \in Nat
    BY <1>2, <1>3
  <2> QED BY <1>1, <2>1, <2>2 DEF IsCrate
<1>5. DistinctNames(crate)
  BY <1>1 DEF DistinctNames
<1>6. ASSUME NEW S \in SUBSET All, Closed(S) PROVE Nat \subseteq S
  <2>1. ASSUME NEW b \in S, b \in {-1} \cup Nat PROVE b + 1 \in S
    <3> DEFINE u == [kind |-> "call", def |-> -2, target |-> b + 1]
    <3>1. u \in crate.uses[b]
      BY <1>3, <2>1
    <3>2. u.kind = "call" /\ u.target = b + 1 /\ b + 1 \in Nat
      BY <2>1
    <3> HIDE DEF u
    <3> QED BY <1>1, <1>6, <2>1, <3>1, <3>2 DEF Closed
  <2>2. -1 \in S
    BY <1>1, <1>6 DEF Closed
  <2>3. 0 \in S
    BY <2>1, <2>2
  <2> QED BY <2>1, <2>3, AllFollow
<1>7. Nat \in SUBSET Required
  BY <1>1, <1>6 DEF Required
<1> QED BY <1>4, <1>5, <1>7, NatInfinite, FS_Subset

\* Type correctness.
THEOREM TypeCorrect == Spec => []TypeOK
<1>1. IInv => TypeOK
  BY DEF IInv
<1> QED BY <1>1, CollectInvariant, PTL

=============================================================================
