-------------------------- MODULE TypedExec_proofs --------------------------
(***************************************************************************)
(* Theorems about what rust-lift-typed-mir leaves behind when it is run, for *)
(* every type table and every body: the pass fails exactly for what it does *)
(* not support, and executing the blocks it made takes the steps of RustDrop, *)
(* so that each drop destroys what its place owes, once and in Rust's order. *)
(* The hypothesis is DropsKnown: what the glue goes by is what Rust goes by. *)
(*                                                                          *)
(* The glue is a recursion of the pass over types, unrolled into a stack of *)
(* emissions that add blocks.  The invariant therefore speaks of a plan: for *)
(* each value h the dropped place can have, a function rest from the blocks *)
(* of the drop made so far to what each has left to destroy.  Telling says  *)
(* that every block that has been ended does what rest says of it (its calls *)
(* destroy a prefix, its branch leaves the remainder, on the arm the tag of h *)
(* selects), and that every emission on the stack will do it for the block  *)
(* it has open.  An action of the glue hands the emission on top over to    *)
(* others (Hand) and may add a new block to the plan.  When the stack is    *)
(* empty the plan is Settled, and execution follows it: what has been logged *)
(* and what rest has left always add up to what is owed (Halfway).          *)
(*                                                                          *)
(* rest exists for each h, but which one depends on the blocks the pass will *)
(* still create, so the invariant quantifies it existentially and TLC cannot *)
(* evaluate it; the runs of MCExec check the properties themselves.         *)
(***************************************************************************)
EXTENDS TypedExec, LiftTypedMIR_proofs, SequenceTheorems, WellFoundedInduction

-----------------------------------------------------------------------------
(* Recursive functions.                                                     *)

(* A set of naturals has a least element.                                   *)
LEMMA Least ==
  ASSUME NEW T, T \subseteq Nat, T # {}
  PROVE  \E n \in T : \A m \in T : n <= m
<1> DEFINE R == OpToRel(<, Nat)
<1>1. IsWellFoundedOn(R, Nat)
  BY NatLessThanWellFounded
<1>2. \A m, n \in Nat : m < n => <<m, n>> \in R
  BY DEF OpToRel
<1> HIDE DEF R
<1>3. \E x \in T : \A y \in T : ~ (<<y, x>> \in R)
  BY <1>1, WFMin
<1>4. PICK x \in T : \A y \in T : ~ (<<y, x>> \in R)
  BY <1>3
<1>5. ASSUME NEW y \in T PROVE x <= y
  <2>1. x \in Nat /\ y \in Nat /\ ~(y < x)
    BY <1>2, <1>4
  <2> QED BY <2>1
<1> QED BY <1>5

(* What F makes of x depends on smaller arguments only. *)
DependsBelow(S, V, size, F) ==
  \A g, k \in [S -> V], x \in S :
    (\A y \in S : size[y] < size[x] => g[y] = k[y]) => F[g][x] = F[k][x]

(* F has a fixed point. *)
HasFixedPoint(S, V, F) == \E f \in [S -> V] : f = F[f]

(* A definition by recursion has a solution: it is the function that is     *)
(* built up to each size. CHOOSE defines a recursive function, and this is  *)
(* what makes its equation true of it.                                      *)
LEMMA Recursion ==
  ASSUME NEW S, NEW V, V # {}, NEW size \in [S -> Nat],
         NEW F \in [[S -> V] -> [S -> V]], DependsBelow(S, V, size, F)
  PROVE  HasFixedPoint(S, V, F)
<1>0. \A g, k \in [S -> V], x \in S :
        (\A y \in S : size[y] < size[x] => g[y] = k[y]) => F[g][x] = F[k][x]
  BY DEF DependsBelow
<1> DEFINE Upto(n) ==
      {f \in [S -> V] : \A x \in S : size[x] < n => f[x] = F[f][x]}
<1>1. ASSUME NEW n \in Nat PROVE Upto(n) # {}
  <2> DEFINE T == {m \in Nat : Upto(m) = {}}
  <2> SUFFICES ASSUME n \in T PROVE FALSE
    OBVIOUS
  <2>1. PICK m \in T : \A k \in T : m <= k
    <3> HIDE DEF T
    <3>1. T \subseteq Nat
      BY DEF T
    <3> QED BY <3>1, Least
  <2>2. m \in Nat /\ Upto(m) = {}
    OBVIOUS
  <2>3. m # 0
    <3> SUFFICES ASSUME m = 0 PROVE FALSE
      OBVIOUS
    <3>1. PICK v \in V : TRUE
      OBVIOUS
    <3>2. [x \in S |-> v] \in Upto(0)
      OBVIOUS
    <3> QED BY <2>2, <3>2
  <2>4. m - 1 \in Nat /\ m - 1 \notin T
    <3>1. m - 1 \in Nat /\ ~(m <= m - 1)
      BY <2>2, <2>3
    <3> QED BY <2>1, <3>1
  <2>5. PICK f : f \in Upto(m - 1)
    BY <2>4
  <2> DEFINE g == [x \in S |-> F[f][x]]
  <2>6. f \in [S -> V] /\ g \in [S -> V]
    BY <2>5
  <2>7. ASSUME NEW x \in S, size[x] < m PROVE g[x] = F[g][x]
    <3>1. ASSUME NEW y \in S, size[y] < size[x] PROVE f[y] = g[y]
      <4>1. size[y] < m - 1
        <5>1. size[y] \in Nat /\ size[x] \in Nat
          OBVIOUS
        <5> QED BY <2>2, <2>7, <3>1, <5>1
      <4>2. f[y] = F[f][y]
        BY <2>5, <4>1
      <4> QED BY <4>2
    <3>2. F[f][x] = F[g][x]
      <4> HIDE DEF g
      <4> QED BY <2>6, <1>0, <3>1
    <3> QED BY <3>2
  <2>8. g \in Upto(m)
    <3> HIDE DEF g
    <3> QED BY <2>6, <2>7
  <2> QED BY <2>2, <2>8
<1>2. ASSUME NEW n \in Nat, NEW f \in Upto(n), NEW g \in Upto(n), NEW x \in S, size[x] < n
      PROVE  f[x] = g[x]
  <2> DEFINE D == {y \in S : size[y] < n /\ f[y] # g[y]}
             T == {size[y] : y \in D}
  <2> SUFFICES ASSUME x \in D PROVE FALSE
    BY <1>2
  <2>1. PICK m \in T : \A k \in T : m <= k
    <3>1. T \subseteq Nat /\ size[x] \in T
      OBVIOUS
    <3> HIDE DEF T
    <3> QED BY <3>1, Least
  <2>2. PICK z \in D : m = size[z]
    OBVIOUS
  <2>3. \A y \in S : size[y] < size[z] => f[y] = g[y]
    <3> SUFFICES ASSUME NEW y \in S, size[y] < size[z], f[y] # g[y] PROVE FALSE
      OBVIOUS
    <3>1. size[y] \in Nat /\ size[z] \in Nat /\ size[z] < n
      OBVIOUS
    <3>2. size[y] < n
      BY <3>1
    <3>3. size[y] \in T
      BY <3>2
    <3>4. size[z] <= size[y]
      <4> HIDE DEF T
      <4> QED BY <2>1, <2>2, <3>3
    <3> QED BY <3>1, <3>4
  <2>4. F[f][z] = F[g][z]
    BY <1>0, <2>3
  <2>5. f[z] = F[f][z] /\ g[z] = F[g][z] /\ f[z] # g[z]
    OBVIOUS
  <2> QED BY <2>4, <2>5
<1> DEFINE P(n) == CHOOSE f : f \in Upto(n)
           h == [x \in S |-> P(size[x] + 1)[x]]
<1>3. ASSUME NEW n \in Nat PROVE P(n) \in Upto(n)
  <2> HIDE DEF Upto
  <2> QED BY <1>1
<1>4. ASSUME NEW n \in Nat PROVE P(n) \in [S -> V]
  <2> HIDE DEF P
  <2> QED BY <1>3
<1>5. \A x \in S : size[x] \in Nat /\ size[x] + 1 \in Nat /\ size[x] < size[x] + 1
  OBVIOUS
<1>6. h \in [S -> V]
  <2> HIDE DEF P
  <2> QED BY <1>4, <1>5
<1>7. ASSUME NEW x \in S PROVE h[x] = F[h][x]
  <2> DEFINE f == P(size[x] + 1)
  <2>1. f \in [S -> V] /\ f \in Upto(size[x] + 1)
    <3> HIDE DEF P, Upto
    <3> QED BY <1>3, <1>4, <1>5
  <2>2. ASSUME NEW y \in S, size[y] < size[x] PROVE h[y] = f[y]
    <3> DEFINE g == P(size[y] + 1)
    <3>1. g \in Upto(size[y] + 1)
      <4> HIDE DEF P, Upto
      <4> QED BY <1>3, <1>5
    <3>2. f \in Upto(size[y] + 1)
      <4>1. \A z \in S : size[z] < size[y] + 1 => size[z] < size[x] + 1
        BY <1>5, <2>2
      <4> HIDE DEF f
      <4> QED BY <2>1, <4>1
    <3>3. f[y] = g[y]
      <4> HIDE DEF f, g, Upto
      <4> QED BY <1>2, <1>5, <3>1, <3>2
    <3>4. h[y] = g[y]
      BY DEF h, g
    <3> QED BY <3>3, <3>4
  <2>3. F[h][x] = F[f][x]
    <3> HIDE DEF h, f
    <3> QED BY <1>0, <1>6, <2>1, <2>2
  <2>4. f[x] = F[f][x]
    <3> HIDE DEF f
    <3> QED BY <1>5, <2>1
  <2>5. h[x] = f[x]
    BY DEF h, f
  <2> QED BY <2>3, <2>4, <2>5
<1> QED
  <2> HIDE DEF h
  <2>1. F[h] \in [S -> V]
    BY <1>6
  <2>2. h = F[h]
    BY <1>6, <1>7, <2>1
  <2> QED BY <1>6, <2>2 DEF HasFixedPoint

(* The component types of a type come before it in the type table.          *)
LEMMA PartsSmaller ==
  \A t \in Type : \A u \in Parts(t) : u \in Type /\ u < t
<1> SUFFICES ASSUME NEW t \in Type, NEW v \in DOMAIN Variants[t],
                    NEW i \in DOMAIN Variants[t][v]
             PROVE  Variants[t][v][i] \in Type /\ Variants[t][v][i] < t
  BY DEF Parts
<1>1. Variants[t] \in Seq(Seq(Type))
  BY TypeTable
<1>2. Variants[t][v] \in Seq(Type)
  BY <1>1
<1> QED BY <1>2, TypeTable

(* The equation of triviallyDroppable, which TypedBody defines by           *)
(* recursion.                                                               *)
LEMMA TriviallyDroppableIs ==
  /\ TriviallyDroppable \in [Type -> BOOLEAN]
  /\ \A t \in Type :
       TriviallyDroppable[t] <=>
         \/ Kind[t] = "trivial"
         \/ /\ Kind[t] \in {"tuple", "array"}
            /\ \A u \in Parts(t) : TriviallyDroppable[u]
<1> DEFINE B(g, t) == \/ Kind[t] = "trivial"
                      \/ /\ Kind[t] \in {"tuple", "array"}
                         /\ \A u \in Parts(t) : g[u]
           S == [Type -> BOOLEAN]
           F == [g \in S |-> [t \in Type |-> B(g, t)]]
           size == [t \in Type |-> t]
<1>1. /\ F \in [S -> S] /\ size \in [Type -> Nat]
      /\ \A g \in S, t \in Type : F[g][t] <=> B(g, t)
      /\ \A t \in Type : size[t] = t
  BY TypeTable
<1>2. DependsBelow(Type, BOOLEAN, size, F)
  <2> SUFFICES ASSUME NEW g \in S, NEW k \in S, NEW t \in Type,
                      \A u \in Type : size[u] < size[t] => g[u] = k[u]
               PROVE  F[g][t] = F[k][t]
    BY DEF DependsBelow
  <2>1. \A u \in Parts(t) : g[u] = k[u]
    BY <1>1, PartsSmaller
  <2>2. B(g, t) <=> B(k, t)
    BY <2>1
  <2>3. F[g] \in S /\ F[k] \in S
    BY <1>1
  <2> HIDE DEF F, B
  <2> QED BY <1>1, <2>2, <2>3
<1>3. HasFixedPoint(Type, BOOLEAN, F)
  <2>1. PICK V : V = BOOLEAN
    OBVIOUS
  <2>2. /\ V # {} /\ F \in [[Type -> V] -> [Type -> V]] /\ size \in [Type -> Nat]
        /\ DependsBelow(Type, V, size, F)
    BY <1>1, <1>2, <2>1
  <2> HIDE DEF F, size
  <2>3. HasFixedPoint(Type, V, F)
    BY <2>2, Recursion
  <2> QED BY <2>1, <2>3
<1>4. \E f : f = [t \in Type |-> B(f, t)]
  BY <1>3 DEF HasFixedPoint
<1>5. TriviallyDroppable = [t \in Type |-> B(TriviallyDroppable, t)]
  BY <1>4 DEF TriviallyDroppable
<1>6. \A t \in Type : B(TriviallyDroppable, t) \in BOOLEAN
  OBVIOUS
<1> QED
  BY <1>5

(* The same equation for mayNeedDropGlue. *)
LEMMA MayNeedDropGlueIs ==
  /\ MayNeedDropGlue \in [Type -> BOOLEAN]
  /\ \A t \in Type :
       MayNeedDropGlue[t] <=>
         /\ ~TriviallyDroppable[t]
         /\ \/ Kind[t] \in {"opaque", "uninit"}
            \/ HasDropImpl[t]
            \/ \E u \in Parts(t) : MayNeedDropGlue[u]
<1> DEFINE B(g, t) == /\ ~TriviallyDroppable[t]
                      /\ \/ Kind[t] \in {"opaque", "uninit"}
                         \/ HasDropImpl[t]
                         \/ \E u \in Parts(t) : g[u]
           S == [Type -> BOOLEAN]
           F == [g \in S |-> [t \in Type |-> B(g, t)]]
           size == [t \in Type |-> t]
<1>1. /\ F \in [S -> S] /\ size \in [Type -> Nat]
      /\ \A g \in S, t \in Type : F[g][t] <=> B(g, t)
      /\ \A t \in Type : size[t] = t
  BY TypeTable
<1>2. DependsBelow(Type, BOOLEAN, size, F)
  <2> SUFFICES ASSUME NEW g \in S, NEW k \in S, NEW t \in Type,
                      \A u \in Type : size[u] < size[t] => g[u] = k[u]
               PROVE  F[g][t] = F[k][t]
    BY DEF DependsBelow
  <2>1. \A u \in Parts(t) : g[u] = k[u]
    BY <1>1, PartsSmaller
  <2>2. B(g, t) <=> B(k, t)
    BY <2>1
  <2>3. F[g] \in S /\ F[k] \in S
    BY <1>1
  <2> HIDE DEF F, B
  <2> QED BY <1>1, <2>2, <2>3
<1>3. HasFixedPoint(Type, BOOLEAN, F)
  <2>1. PICK V : V = BOOLEAN
    OBVIOUS
  <2>2. /\ V # {} /\ F \in [[Type -> V] -> [Type -> V]] /\ size \in [Type -> Nat]
        /\ DependsBelow(Type, V, size, F)
    BY <1>1, <1>2, <2>1
  <2> HIDE DEF F, size
  <2>3. HasFixedPoint(Type, V, F)
    BY <2>2, Recursion
  <2> QED BY <2>1, <2>3
<1>4. \E f : f = [t \in Type |-> B(f, t)]
  BY <1>3 DEF HasFixedPoint
<1>5. MayNeedDropGlue = [t \in Type |-> B(MayNeedDropGlue, t)]
  BY <1>4 DEF MayNeedDropGlue
<1> QED
  BY <1>5

-----------------------------------------------------------------------------
(* Flattening sequences.                                                    *)

(* What FlattenSeq accumulates, from left to right. *)
Accumulates(g, ss) ==
  /\ g[1] = ss[1]
  /\ \A i \in DOMAIN ss : i > 1 => g[i] = g[i - 1] \o ss[i]

(* FlattenSeq is the last of what it accumulates.                           *)
LEMMA FlattenIs ==
  ASSUME NEW T, NEW ss \in Seq(Seq(T)), ss # << >>
  PROVE  \E g \in [DOMAIN ss -> Seq(T)] :
           Accumulates(g, ss) /\ Rust!FlattenSeq(ss) = g[Len(ss)]
<1> DEFINE n == Len(ss)
           V == Seq(T)
           B(g, i) == IF i = 1 THEN ss[i] ELSE g[i - 1] \o ss[i]
           S == [1..n -> V]
           F == [g \in S |-> [i \in 1..n |-> B(g, i)]]
           size == [i \in 1..n |-> i]
<1>0. n \in Nat /\ n >= 1 /\ \A i \in 1..n : ss[i] \in V
  OBVIOUS
<1>1. ASSUME NEW g \in S, NEW i \in 1..n PROVE B(g, i) \in V
  <2> HIDE DEF n
  <2>1. CASE i = 1
    BY <1>0, <2>1
  <2>2. CASE i # 1
    <3>1. i - 1 \in 1..n
      BY <1>0, <2>2
    <3>2. g[i - 1] \in Seq(T) /\ ss[i] \in Seq(T)
      BY <1>0, <3>1
    <3> QED BY <2>2, <3>2
  <2> QED BY <2>1, <2>2
<1>2. /\ F \in [S -> S] /\ size \in [1..n -> Nat]
      /\ \A g \in S, i \in 1..n : F[g][i] = B(g, i)
      /\ \A i \in 1..n : size[i] = i
  <2> HIDE DEF B, n, V
  <2> QED BY <1>0, <1>1
<1>3. DependsBelow(1..n, V, size, F)
  <2> SUFFICES ASSUME NEW g \in S, NEW k \in S, NEW i \in 1..n,
                      \A j \in 1..n : size[j] < size[i] => g[j] = k[j]
               PROVE  F[g][i] = F[k][i]
    BY DEF DependsBelow
  <2>1. i # 1 => g[i - 1] = k[i - 1]
    <3> HIDE DEF n
    <3>1. i # 1 => i - 1 \in 1..n /\ i - 1 < i
      BY <1>0
    <3> HIDE DEF size
    <3> QED BY <1>2, <3>1
  <2>2. B(g, i) = B(k, i)
    BY <2>1
  <2> HIDE DEF F, B
  <2> QED BY <1>2, <2>2
<1>4. HasFixedPoint(1..n, V, F)
  <2>1. V # {}
    <3>1. << >> \in V
      OBVIOUS
    <3> QED BY <3>1
  <2> HIDE DEF F, size, n, V
  <2> QED BY <1>2, <1>3, <2>1, Recursion
<1>5. PICK f \in S : f = F[f]
  <2> HIDE DEF F, V, n
  <2> QED BY <1>4 DEF HasFixedPoint
<1>6. f = [i \in 1..n |-> B(f, i)]
  <2> HIDE DEF B
  <2> QED BY <1>5
<1> DEFINE g == CHOOSE h : h = [i \in 1..n |-> B(h, i)]
<1>7. g = [i \in 1..n |-> B(g, i)]
  <2> HIDE DEF B
  <2> QED BY <1>6
<1>8. Rust!FlattenSeq(ss) = g[n]
  BY <1>0 DEF Rust!FlattenSeq
<1> HIDE DEF g
<1>9. g \in [1..n -> V]
  <2> DEFINE D == {i \in 1..n : g[i] \notin V}
  <2> SUFFICES ASSUME D # {} PROVE FALSE
    <3> HIDE DEF n, V, B
    <3> QED BY <1>7
  <2>1. PICK i \in D : \A j \in D : i <= j
    <3> HIDE DEF n, V
    <3>1. D \subseteq Nat
      OBVIOUS
    <3> HIDE DEF D
    <3> QED BY <3>1, Least
  <2>2. i \in 1..n /\ g[i] \notin V
    OBVIOUS
  <2>3. g[i] = B(g, i)
    <3> HIDE DEF B, n, V, D
    <3> QED BY <1>7, <2>2
  <2>4. i # 1
    BY <1>0, <2>2, <2>3
  <2>5. i - 1 \in 1..n /\ i - 1 \notin D
    <3> HIDE DEF n, V
    <3>1. i - 1 \in 1..n /\ ~(i <= i - 1)
      BY <1>0, <2>2, <2>4
    <3> HIDE DEF D
    <3> QED BY <2>1, <3>1
  <2>6. g[i - 1] \in Seq(T) /\ ss[i] \in Seq(T)
    <3> HIDE DEF n
    <3> QED BY <1>0, <2>2, <2>5
  <2>7. g[i] \in Seq(T)
    <3> HIDE DEF n, D
    <3> QED BY <2>3, <2>4, <2>6
  <2> QED BY <2>2, <2>7
<1>10. \A i \in 1..n : g[i] = B(g, i)
  <2> HIDE DEF B, n, V
  <2> QED BY <1>7
<1>11. DOMAIN ss = 1..n
  OBVIOUS
<1>12. Accumulates(g, ss)
  <2>1. 1 \in 1..n /\ g[1] = ss[1]
    <3> HIDE DEF n
    <3> QED BY <1>0, <1>10
  <2>2. ASSUME NEW i \in 1..n, i > 1 PROVE g[i] = g[i - 1] \o ss[i]
    <3> HIDE DEF n
    <3>1. i # 1
      BY <2>2
    <3> QED BY <1>10, <3>1
  <2> HIDE DEF B, n
  <2> QED BY <1>11, <2>1, <2>2 DEF Accumulates
<1> QED
  <2> HIDE DEF n
  <2> QED BY <1>8, <1>9, <1>11, <1>12 DEF n

(* Concatenation of sequences over T is associative.                        *)
Associates(T) == \A a, b, c \in Seq(T) : (a \o b) \o c = a \o (b \o c)

(* It is, whatever T.                                                       *)
LEMMA ConcatAssociates == \A T : Associates(T)
  BY ConcatAssociative DEF Associates

(* No sequences flatten to the empty one.                                   *)
LEMMA FlattenNothing == Rust!FlattenSeq(<< >>) = << >>
  BY DEF Rust!FlattenSeq

(* Flattening stays within the elements of the sequences.                   *)
LEMMA FlattenType ==
  ASSUME NEW T, NEW ss \in Seq(Seq(T))
  PROVE  Rust!FlattenSeq(ss) \in Seq(T)
<1>1. CASE ss = << >>
  <2>1. Rust!FlattenSeq(ss) = << >>
    BY <1>1, FlattenNothing
  <2> QED BY <2>1
<1>2. CASE ss # << >>
  <2>1. PICK g \in [DOMAIN ss -> Seq(T)] :
          Accumulates(g, ss) /\ Rust!FlattenSeq(ss) = g[Len(ss)]
    BY <1>2, FlattenIs
  <2>2. Len(ss) \in DOMAIN ss
    BY <1>2
  <2> QED BY <2>1, <2>2
<1> QED BY <1>1, <1>2

(* Flattening skips empty sequences. *)
LEMMA FlattenSkips ==
  ASSUME NEW T, NEW ss \in Seq(Seq(T)), NEW i \in DOMAIN ss,
         \A j \in 1..(i - 1) : ss[j] = << >>
  PROVE  Rust!FlattenSeq(ss)
           = ss[i] \o Rust!FlattenSeq(SubSeq(ss, i + 1, Len(ss)))
<1>a. Associates(T)
  BY ConcatAssociates, Zenon
<1> DEFINE n == Len(ss)
           rs == SubSeq(ss, i + 1, n)
<1>0. /\ n \in Nat /\ i \in 1..n /\ DOMAIN ss = 1..n
      /\ \A j \in 1..n : ss[j] \in Seq(T)
      /\ ss # << >>
  OBVIOUS
<1>1. /\ rs \in Seq(Seq(T)) /\ Len(rs) = n - i
      /\ \A j \in 1..(n - i) : rs[j] = ss[i + j]
  <2>1. \A j \in (i + 1)..n : ss[j] \in Seq(T)
    BY <1>0
  <2> HIDE DEF n
  <2>2. i + 1 \in Int /\ n \in Int
    BY <1>0
  <2>3. /\ rs \in Seq(Seq(T))
        /\ Len(rs) = IF i + 1 <= n THEN n - (i + 1) + 1 ELSE 0
        /\ \A j \in 1..(n - (i + 1) + 1) : rs[j] = ss[(i + 1) + j - 1]
    BY <2>1, <2>2, SubSeqProperties
  <2> HIDE DEF rs
  <2>4. n - (i + 1) + 1 = n - i /\ (~(i + 1 <= n) => n - i = 0)
    BY <1>0
  <2>5. \A j \in 1..(n - i) : (i + 1) + j - 1 = i + j
    BY <1>0
  <2> QED BY <2>3, <2>4, <2>5
<1>2. PICK g \in [DOMAIN ss -> Seq(T)] :
        Accumulates(g, ss) /\ Rust!FlattenSeq(ss) = g[n]
  BY <1>0, FlattenIs
<1> HIDE DEF n, rs
<1>3. g[1] = ss[1] /\ \A j \in 1..n : j > 1 => g[j] = g[j - 1] \o ss[j]
  BY <1>0, <1>2 DEF Accumulates
<1>4. \A j \in 1..n : g[j] \in Seq(T)
  BY <1>0, <1>2
<1>5. ASSUME NEW j \in 1..(i - 1) PROVE g[j] = << >>
  <2> DEFINE D == {k \in 1..(i - 1) : g[k] # << >>}
  <2> SUFFICES ASSUME D # {} PROVE FALSE
    OBVIOUS
  <2>1. PICK k \in D : \A m \in D : k <= m
    <3>1. D \subseteq Nat
      BY <1>0
    <3> HIDE DEF D
    <3> QED BY <3>1, Least
  <2>2. k \in 1..(i - 1) /\ k \in 1..n /\ g[k] # << >> /\ ss[k] = << >>
    BY <1>0
  <2>3. k > 1
    BY <2>2, <1>3
  <2>4. k - 1 \in 1..(i - 1) /\ ~(k <= k - 1)
    BY <1>0, <2>2, <2>3
  <2>5. g[k - 1] = << >>
    BY <2>1, <2>4
  <2>6. g[k] = << >> \o << >>
    BY <1>3, <2>2, <2>3, <2>5
  <2> QED BY <2>2, <2>6
<1>6. g[i] = ss[i]
  <2>1. CASE i = 1
    BY <2>1, <1>3
  <2>2. CASE i # 1
    <3>1. i \in Int /\ i >= 1 /\ i > 1 /\ i - 1 \in 1..(i - 1)
      <4>1. i \in Int /\ i >= 1
        BY <1>0
      <4> QED BY <4>1, <2>2
    <3>2. g[i] = << >> \o ss[i]
      BY <3>1, <1>0, <1>3, <1>5
    <3> QED BY <3>2, <1>0, ConcatEmptySeq
  <2> QED BY <2>1, <2>2
<1>7. CASE i = n
  <2>1. rs = << >>
    <3>1. Len(rs) = 0
      BY <1>7, <1>1, <1>0
    <3> QED BY <3>1, <1>1
  <2>2. ss[i] \o << >> = ss[i]
    BY <1>0, ConcatEmptySeq
  <2> QED BY <1>7, <1>2, <1>6, <2>1, <2>2, FlattenNothing DEF n, rs
<1>8. CASE i # n
  <2>1. n - i \in Nat /\ n - i >= 1
    BY <1>8, <1>0
  <2>2. rs # << >> /\ DOMAIN rs = 1..(n - i)
    BY <1>1, <2>1
  <2>3. PICK k \in [DOMAIN rs -> Seq(T)] :
          Accumulates(k, rs) /\ Rust!FlattenSeq(rs) = k[Len(rs)]
    BY <1>1, <2>2, FlattenIs
  <2>4. k[1] = rs[1] /\ \A j \in 1..(n - i) : j > 1 => k[j] = k[j - 1] \o rs[j]
    BY <2>2, <2>3 DEF Accumulates
  <2>5. \A j \in 1..(n - i) : k[j] \in Seq(T) /\ rs[j] \in Seq(T) /\ rs[j] = ss[i + j]
    <3>1. \A j \in 1..(n - i) : k[j] \in Seq(T)
      BY <2>2, <2>3
    <3>2. \A j \in 1..(n - i) : rs[j] \in Seq(T)
      BY <1>1, <2>2
    <3> QED BY <3>1, <3>2, <1>1
  <2>6. ASSUME NEW j \in 1..(n - i) PROVE g[i + j] = ss[i] \o k[j]
    <3> DEFINE D == {m \in 1..(n - i) : g[i + m] # ss[i] \o k[m]}
    <3> SUFFICES ASSUME D # {} PROVE FALSE
      OBVIOUS
    <3>1. PICK m \in D : \A l \in D : m <= l
      <4>1. D \subseteq Nat
        BY <1>0
      <4> HIDE DEF D
      <4> QED BY <4>1, Least
    <3>2. m \in 1..(n - i) /\ g[i + m] # ss[i] \o k[m]
      OBVIOUS
    <3> HIDE DEF D
    <3>3. i + m \in 1..n /\ i + m > 1 /\ (i + m) - 1 = i + (m - 1)
      <4>1. /\ i \in Int /\ n \in Int /\ i >= 1 /\ i <= n
            /\ m \in Int /\ m >= 1 /\ m <= n - i
        BY <1>0, <3>2
      <4> QED BY <4>1
    <3>4. g[i + m] = g[i + (m - 1)] \o rs[m]
      BY <1>3, <2>5, <3>2, <3>3
    <3>5. CASE m = 1
      <4>1. i + (m - 1) = i
        BY <3>5, <1>0
      <4> QED BY <4>1, <3>2, <3>4, <3>5, <1>6, <2>4
    <3>6. CASE m # 1
      <4>1. m - 1 \in 1..(n - i) /\ m > 1 /\ ~(m <= m - 1)
        <5>1. m \in Int /\ n - i \in Int /\ m >= 1 /\ m <= n - i
          BY <2>1, <3>2
        <5> QED BY <5>1, <3>6
      <4>2. g[i + (m - 1)] = ss[i] \o k[m - 1]
        BY <3>1, <4>1 DEF D
      <4>3. k[m] = k[m - 1] \o rs[m]
        BY <2>4, <3>2, <4>1
      <4>4. (ss[i] \o k[m - 1]) \o rs[m] = ss[i] \o (k[m - 1] \o rs[m])
        <5>1. ss[i] \in Seq(T) /\ k[m - 1] \in Seq(T) /\ rs[m] \in Seq(T)
          BY <1>0, <2>5, <3>2, <4>1
        <5> QED BY <5>1, <1>a DEF Associates
      <4> QED BY <3>2, <3>4, <4>2, <4>3, <4>4
    <3> QED BY <3>5, <3>6
  <2>7. g[n] = ss[i] \o k[n - i]
    <3>1. n - i \in 1..(n - i) /\ i + (n - i) = n
      BY <1>0, <2>1
    <3> QED BY <3>1, <2>6
  <2> QED BY <1>1, <1>2, <2>3, <2>7 DEF n, rs
<1> QED BY <1>7, <1>8

(* Empty sequences flatten to the empty one.                                *)
LEMMA FlattenEmpties ==
  ASSUME NEW T, NEW ss \in Seq(Seq(T)), \A j \in DOMAIN ss : ss[j] = << >>
  PROVE  Rust!FlattenSeq(ss) = << >>
<1>1. CASE ss = << >>
  BY <1>1, FlattenNothing
<1>2. CASE ss # << >>
  <2> DEFINE n == Len(ss)
  <2>1. n \in DOMAIN ss /\ n \in Nat /\ DOMAIN ss = 1..n
    BY <1>2
  <2>2. \A j \in 1..(n - 1) : ss[j] = << >>
    <3> HIDE DEF n
    <3>1. \A j \in 1..(n - 1) : j \in 1..n
      BY <2>1
    <3> QED BY <2>1, <3>1
  <2>3. SubSeq(ss, n + 1, n) = << >>
    <3> HIDE DEF n
    <3>1. n + 1 \in Int /\ n \in Int /\ n < n + 1
      BY <2>1
    <3> QED BY <3>1, SubSeqEmpty
  <2>4. Rust!FlattenSeq(ss) = ss[n] \o Rust!FlattenSeq(SubSeq(ss, n + 1, n))
    BY <2>1, <2>2, FlattenSkips
  <2>5. Rust!FlattenSeq(ss) = << >> \o << >>
    BY <2>1, <2>3, <2>4, FlattenNothing
  <2> QED BY <2>5
<1> QED BY <1>1, <1>2

-----------------------------------------------------------------------------
(* Places and what they owe.                                                *)

(* Below q: the components of q in any of its variants.                     *)
Components(q) == UNION {Range(FieldPlaces(q, v)) : v \in DOMAIN Variants[q.type]}

(* The fields Rust drops are those the glue drops.                          *)
LEMMA FieldPlacesSame == \A q, v : Rust!FieldPlaces(q, v) = FieldPlaces(q, v)
  BY DEF Rust!FieldPlaces, FieldPlaces

(* Both speak of the same places.                                           *)
LEMMA PlaceSame == Rust!Place = Place
  BY DEF Rust!Place, Place, Rust!Address, Address, Rust!Step, Step

(* The fields of a place are places of the types the variant lists.         *)
LEMMA FieldTypes ==
  ASSUME NEW p \in Place, NEW v \in DOMAIN Variants[p.type],
         NEW i \in DOMAIN FieldPlaces(p, v)
  PROVE  /\ FieldPlaces(p, v)[i] \in Place
         /\ \E j \in DOMAIN Variants[p.type][v] :
              FieldPlaces(p, v)[i].type = Variants[p.type][v][j]
<1> DEFINE shape == Variants[p.type][v]
           n     == IF Kind[p.type] = "array" THEN ArrayLength[p.type]
                                              ELSE Len(shape)
<1>1. FieldPlaces(p, v) \in Seq(Place)
  BY FieldPlacesType
<1>2. p.type \in Type
  BY DEF Place
<1>3. Variants[p.type] \in Seq(Seq(Type)) /\ shape \in Seq(Type) /\ v \in Nat
  <2>1. Variants[p.type] \in Seq(Seq(Type))
    BY <1>2, TypeTable
  <2> QED BY <2>1
<1>4. i \in 1..n
  BY DEF FieldPlaces
<1>5. FieldPlaces(p, v)[i].type = IF Kind[p.type] = "array" THEN shape[1] ELSE shape[i]
  BY <1>4 DEF FieldPlaces
<1>6. \E j \in DOMAIN shape : FieldPlaces(p, v)[i].type = shape[j]
  <2>1. CASE Kind[p.type] = "array"
    <3>1. v = 1 /\ Len(shape) = 1
      BY <1>2, <1>3, <2>1, RustcTypes
    <3> QED BY <2>1, <3>1, <1>3, <1>5
  <2>2. CASE Kind[p.type] # "array"
    <3>1. i \in DOMAIN shape
      BY <2>2, <1>3, <1>4
    <3> QED BY <3>1, <2>2, <1>5
  <2> QED BY <2>1, <2>2
<1> QED BY <1>1, <1>6

(* The components of a place are places of smaller types.                   *)
LEMMA ComponentsSmaller ==
  ASSUME NEW q \in Place
  PROVE  /\ q.type \in Nat
         /\ Components(q) \subseteq Place
         /\ \A r \in Components(q) : /\ r.type \in Parts(q.type)
                                     /\ r.type \in Nat
                                     /\ r.type < q.type
<1>1. q.type \in Type /\ q.type \in Nat
  BY TypeTable DEF Place
<1>2. ASSUME NEW r \in Components(q)
      PROVE  r \in Place /\ r.type \in Parts(q.type)
  <2>1. PICK v \in DOMAIN Variants[q.type] : r \in Range(FieldPlaces(q, v))
    BY DEF Components
  <2>2. PICK i \in DOMAIN FieldPlaces(q, v) : r = FieldPlaces(q, v)[i]
    BY <2>1 DEF Range
  <2> QED BY <2>2, FieldTypes DEF Parts
<1>3. ASSUME NEW r \in Components(q)
      PROVE  r.type \in Nat /\ r.type < q.type
  BY <1>1, <1>2, PartsSmaller, TypeTable DEF Place
<1> QED BY <1>1, <1>2, <1>3

(* The equation of PlacesIn: a place, and what is inside its components.    *)
LEMMA PlacesInIs ==
  \A q \in Place :
    /\ Rust!PlacesIn(q) \subseteq Place
    /\ Rust!PlacesIn(q) = {q} \cup UNION {Rust!PlacesIn(r) : r \in Components(q)}
<1> DEFINE B(g, q) == {q} \cup UNION {UNION {g[r] : r \in Range(FieldPlaces(q, v))} :
                                        v \in DOMAIN Variants[q.type]}
           V == SUBSET Place
           S == [Place -> V]
           F == [g \in S |-> [q \in Place |-> B(g, q)]]
           size == [q \in Place |-> q.type]
<1>1. ASSUME NEW g, NEW q \in Place
      PROVE  B(g, q) = {q} \cup UNION {g[r] : r \in Components(q)}
  BY DEF Components
<1>2. ASSUME NEW g \in S, NEW q \in Place PROVE B(g, q) \in V
  <2>1. \A r \in Components(q) : g[r] \in V
    BY ComponentsSmaller
  <2> HIDE DEF B
  <2> QED BY <1>1, <2>1
<1>3. /\ F \in [S -> S] /\ size \in [Place -> Nat]
      /\ \A g \in S, q \in Place : F[g][q] = B(g, q)
      /\ \A q \in Place : size[q] = q.type
  <2>1. size \in [Place -> Nat]
    BY ComponentsSmaller
  <2> HIDE DEF B, V
  <2> QED BY <1>2, <2>1
<1>4. DependsBelow(Place, V, size, F)
  <2> SUFFICES ASSUME NEW g \in S, NEW k \in S, NEW q \in Place,
                      \A r \in Place : size[r] < size[q] => g[r] = k[r]
               PROVE  F[g][q] = F[k][q]
    BY DEF DependsBelow
  <2>1. \A r \in Components(q) : g[r] = k[r]
    BY <1>3, ComponentsSmaller
  <2>2. B(g, q) = B(k, q)
    <3> HIDE DEF B, S
    <3>1. UNION {g[r] : r \in Components(q)} = UNION {k[r] : r \in Components(q)}
      BY <2>1
    <3> QED BY <1>1, <3>1
  <2> HIDE DEF F, B, S
  <2> QED BY <1>3, <2>2
<1>5. HasFixedPoint(Place, V, F)
  <2>1. V # {}
    OBVIOUS
  <2> HIDE DEF F, size, V
  <2> QED BY <1>3, <1>4, <2>1, Recursion
<1>6. \E f : f = [q \in Place |-> B(f, q)]
  <2> HIDE DEF B, V
  <2> QED BY <1>5 DEF HasFixedPoint
<1> DEFINE h == CHOOSE f : f = [q \in Place |-> B(f, q)]
<1>7. h = [q \in Place |-> B(h, q)]
  <2> HIDE DEF B
  <2> QED BY <1>6
<1>8. \A q : Rust!PlacesIn(q) = h[q]
  BY DEF Rust!PlacesIn, Rust!Range, Range, Rust!FieldPlaces, FieldPlaces,
         Rust!Place, Place, Rust!Address, Address, Rust!Step, Step
<1> HIDE DEF h
<1>9. \A q \in Place : h[q] = {q} \cup UNION {h[r] : r \in Components(q)}
  <2> HIDE DEF B
  <2> QED BY <1>1, <1>7
<1>10. ASSUME NEW q \in Place, h[q] \notin V PROVE FALSE
  <2> DEFINE D == {r \in Place : h[r] \notin V}
             T == {r.type : r \in D}
  <2> HIDE DEF V
  <2>1. PICK n \in T : \A m \in T : n <= m
    <3>1. T \subseteq Nat /\ T # {}
      BY <1>10, ComponentsSmaller
    <3> HIDE DEF T
    <3> QED BY <3>1, Least
  <2>2. PICK r \in D : n = r.type
    OBVIOUS
  <2>3. \A s \in Components(r) : s \notin D
    <3> SUFFICES ASSUME NEW s \in Components(r), s \in D PROVE FALSE
      OBVIOUS
    <3>1. s.type \in T
      OBVIOUS
    <3>2. r.type <= s.type
      <4> HIDE DEF T
      <4> QED BY <2>1, <2>2, <3>1
    <3>3. s.type < r.type /\ s.type \in Nat /\ r.type \in Nat
      BY ComponentsSmaller
    <3> QED BY <3>2, <3>3
  <2>4. \A s \in Components(r) : h[s] \in V
    BY <2>3, ComponentsSmaller
  <2>5. h[r] \in V
    <3>1. r \in Place
      OBVIOUS
    <3> HIDE DEF D
    <3> QED BY <1>9, <2>4, <3>1 DEF V
  <2> QED BY <2>5
<1>11. \A q \in Place : Rust!PlacesIn(q) \subseteq Place
  BY <1>8, <1>10
<1> HIDE DEF B
<1> QED BY <1>8, <1>9, <1>11

(* What dropping the places ps, one after the other, runs.                  *)
OwedAll(ps, h) == Rust!FlattenSeq([j \in DOMAIN ps |-> Rust!Owed(ps[j], h)])

(* The components of q that count when q has value h.                       *)
HeldParts(q, h) ==
  LET v == IF Len(Variants[q.type]) > 1 THEN h[q.addr] ELSE 1
  IN  IF v \in DOMAIN Variants[q.type] THEN FieldPlaces(q, v) ELSE << >>

(* The destructor of q itself.                                              *)
OwnCall(q) == IF ImplementsDrop[q.type] THEN <<q.addr>> ELSE << >>

(* What counts of a place is components of it.                              *)
LEMMA HeldPartsType ==
  ASSUME NEW q \in Place, NEW h
  PROVE  HeldParts(q, h) \in Seq(Place) /\ Range(HeldParts(q, h)) \subseteq Components(q)
<1> DEFINE v == IF Len(Variants[q.type]) > 1 THEN h[q.addr] ELSE 1
<1>1. HeldParts(q, h) = IF v \in DOMAIN Variants[q.type] THEN FieldPlaces(q, v) ELSE << >>
  BY DEF HeldParts
<1> HIDE DEF v
<1>2. CASE v \in DOMAIN Variants[q.type]
  BY <1>1, <1>2, FieldPlacesType DEF Components
<1>3. CASE v \notin DOMAIN Variants[q.type]
  <2>1. HeldParts(q, h) = << >> /\ Range(<< >>) = {}
    BY <1>1, <1>3 DEF Range
  <2> QED BY <2>1
<1> QED BY <1>2, <1>3

(* The equation of Owed: a place owes its own destructor, then what its     *)
(* components owe, in order; a union and a ManuallyDrop owe nothing.        *)
LEMMA OwedIs ==
  ASSUME NEW h
  PROVE  \A q \in Place :
           /\ Rust!Owed(q, h) \in Seq(Address)
           /\ Rust!Owed(q, h) = IF NeverDrops[q.type] THEN << >>
                                ELSE OwnCall(q) \o OwedAll(HeldParts(q, h), h)
<1> DEFINE V == Seq(Address)
           All(g, ps) == Rust!FlattenSeq([j \in DOMAIN ps |-> g[ps[j]]])
           B(g, q) == IF NeverDrops[q.type] THEN << >>
                      ELSE OwnCall(q) \o All(g, HeldParts(q, h))
           S == [Place -> V]
           F == [g \in S |-> [q \in Place |-> B(g, q)]]
           size == [q \in Place |-> q.type]
<1>1. ASSUME NEW g, NEW ps \in Seq(Place), \A p \in Range(ps) : g[p] \in V
      PROVE  All(g, ps) \in V
  <2> DEFINE gs == [j \in DOMAIN ps |-> g[ps[j]]]
  <2>1. \A j \in DOMAIN ps : g[ps[j]] \in V
    BY <1>1 DEF Range
  <2> HIDE DEF V
  <2>2. gs \in Seq(V)
    <3>1. DOMAIN ps = 1..Len(ps) /\ Len(ps) \in Nat
      OBVIOUS
    <3> QED BY <2>1, <3>1
  <2> HIDE DEF gs
  <2>3. Rust!FlattenSeq(gs) \in Seq(Address)
    BY <2>2, FlattenType DEF V
  <2> QED BY <2>3 DEF V, gs
<1>2. ASSUME NEW g, NEW q \in Place, \A r \in Components(q) : g[r] \in V
      PROVE  B(g, q) \in V
  <2>1. OwnCall(q) \in V
    BY DEF OwnCall, Place
  <2>2. All(g, HeldParts(q, h)) \in V
    <3>1. \A r \in Range(HeldParts(q, h)) : g[r] \in V
      BY <1>2, HeldPartsType
    <3> HIDE DEF All, V
    <3> QED BY <1>1, <3>1, HeldPartsType
  <2>3. << >> \in V
    OBVIOUS
  <2>4. \A a, b \in V : a \o b \in V
    OBVIOUS
  <2> HIDE DEF All, V
  <2> QED BY <2>1, <2>2, <2>3, <2>4
<1>3. /\ F \in [S -> S] /\ size \in [Place -> Nat]
      /\ \A g \in S, q \in Place : F[g][q] = B(g, q)
      /\ \A q \in Place : size[q] = q.type
  <2>1. size \in [Place -> Nat]
    BY ComponentsSmaller
  <2>2. ASSUME NEW g \in S, NEW q \in Place PROVE B(g, q) \in V
    <3>1. \A r \in Components(q) : g[r] \in V
      BY ComponentsSmaller
    <3> HIDE DEF B, V
    <3> QED BY <1>2, <3>1
  <2> HIDE DEF B, V
  <2> QED BY <2>1, <2>2
<1>4. ASSUME NEW g, NEW k, NEW q \in Place,
             \A r \in Components(q) : g[r] = k[r]
      PROVE  B(g, q) = B(k, q)
  <2> DEFINE ps == HeldParts(q, h)
  <2>1. \A j \in DOMAIN ps : g[ps[j]] = k[ps[j]]
    <3>1. \A j \in DOMAIN ps : ps[j] \in Components(q)
      BY HeldPartsType DEF Range
    <3> HIDE DEF ps
    <3> QED BY <1>4, <3>1
  <2> HIDE DEF ps
  <2>2. [j \in DOMAIN ps |-> g[ps[j]]] = [j \in DOMAIN ps |-> k[ps[j]]]
    BY <2>1
  <2> QED BY <2>2 DEF ps
<1>5. DependsBelow(Place, V, size, F)
  <2> SUFFICES ASSUME NEW g \in S, NEW k \in S, NEW q \in Place,
                      \A r \in Place : size[r] < size[q] => g[r] = k[r]
               PROVE  F[g][q] = F[k][q]
    BY DEF DependsBelow
  <2>1. \A r \in Components(q) : g[r] = k[r]
    BY <1>3, ComponentsSmaller
  <2> HIDE DEF F, B, S
  <2>2. B(g, q) = B(k, q)
    BY <2>1, <1>4
  <2> QED BY <1>3, <2>2
<1>6. HasFixedPoint(Place, V, F)
  <2>1. V # {}
    <3>1. << >> \in V
      OBVIOUS
    <3> QED BY <3>1
  <2> HIDE DEF F, size, V
  <2> QED BY <1>3, <1>5, <2>1, Recursion
<1>7. \E f : f = [q \in Place |-> B(f, q)]
  <2> HIDE DEF B, V
  <2> QED BY <1>6 DEF HasFixedPoint
<1> DEFINE w == CHOOSE f : f = [q \in Place |-> B(f, q)]
<1>8. w = [q \in Place |-> B(w, q)]
  <2> HIDE DEF B
  <2> QED BY <1>7
<1>9. \A q : Rust!Owed(q, h) = w[q]
  BY DEF Rust!Owed, Rust!FieldPlaces, FieldPlaces, OwnCall, HeldParts,
         Rust!Place, Place, Rust!Address, Address, Rust!Step, Step
<1> HIDE DEF w
<1>10. \A q \in Place : w[q] = B(w, q)
  <2> HIDE DEF B
  <2> QED BY <1>8
<1>11. ASSUME NEW q \in Place, w[q] \notin V PROVE FALSE
  <2> DEFINE D == {r \in Place : w[r] \notin V}
             T == {r.type : r \in D}
  <2> HIDE DEF V, B
  <2>1. PICK n \in T : \A m \in T : n <= m
    <3>1. T \subseteq Nat /\ T # {}
      BY <1>11, ComponentsSmaller
    <3> HIDE DEF T
    <3> QED BY <3>1, Least
  <2>2. PICK r \in D : n = r.type
    OBVIOUS
  <2>3. \A s \in Components(r) : s \notin D
    <3> SUFFICES ASSUME NEW s \in Components(r), s \in D PROVE FALSE
      OBVIOUS
    <3>1. s.type \in T
      OBVIOUS
    <3>2. r.type <= s.type
      <4> HIDE DEF T
      <4> QED BY <2>1, <2>2, <3>1
    <3>3. s.type < r.type /\ s.type \in Nat /\ r.type \in Nat
      BY ComponentsSmaller
    <3> QED BY <3>2, <3>3
  <2>4. \A s \in Components(r) : w[s] \in V
    BY <2>3, ComponentsSmaller
  <2>5. r \in Place /\ B(w, r) \in V
    BY <1>2, <2>4
  <2> QED BY <1>10, <2>5
<1>12. \A q \in Place : Rust!Owed(q, h) \in Seq(Address)
  BY <1>9, <1>11
<1>13. \A ps : All(w, ps) = OwedAll(ps, h)
  BY <1>9 DEF OwedAll
<1>14. \A q \in Place : Rust!Owed(q, h) = B(w, q)
  <2> HIDE DEF B
  <2> QED BY <1>9, <1>10
<1>15. \A q \in Place : B(w, q) = IF NeverDrops[q.type] THEN << >>
                                  ELSE OwnCall(q) \o OwedAll(HeldParts(q, h), h)
  <2> HIDE DEF All
  <2> QED BY <1>13
<1> HIDE DEF B
<1> QED BY <1>12, <1>14, <1>15

(* What places owe is addresses.                                            *)
LEMMA OwedAllType ==
  ASSUME NEW ps \in Seq(Place), NEW h
  PROVE  /\ OwedAll(ps, h) \in Seq(Address)
         /\ [j \in DOMAIN ps |-> Rust!Owed(ps[j], h)] \in Seq(Seq(Address))
<1> DEFINE gs == [j \in DOMAIN ps |-> Rust!Owed(ps[j], h)]
<1>1. \A j \in DOMAIN ps : Rust!Owed(ps[j], h) \in Seq(Address)
  BY OwedIs
<1>2. gs \in Seq(Seq(Address))
  <2>1. DOMAIN ps = 1..Len(ps) /\ Len(ps) \in Nat
    OBVIOUS
  <2> QED BY <1>1, <2>1
<1> HIDE DEF gs
<1>3. Rust!FlattenSeq(gs) \in Seq(Address)
  BY <1>2, FlattenType
<1> QED BY <1>2, <1>3 DEF OwedAll, gs

(* The places before i owe nothing: those after i come after what i owes.   *)
LEMMA OwedAllSkips ==
  ASSUME NEW ps \in Seq(Place), NEW h, NEW i \in DOMAIN ps,
         \A j \in 1..(i - 1) : Rust!Owed(ps[j], h) = << >>
  PROVE  OwedAll(ps, h) = Rust!Owed(ps[i], h)
                            \o OwedAll(SubSeq(ps, i + 1, Len(ps)), h)
<1> DEFINE gs == [j \in DOMAIN ps |-> Rust!Owed(ps[j], h)]
           n  == Len(ps)
           rs == SubSeq(ps, i + 1, n)
<1>1. gs \in Seq(Seq(Address)) /\ DOMAIN gs = DOMAIN ps /\ Len(gs) = n
  BY OwedAllType
<1>2. n \in Nat /\ i \in 1..n /\ DOMAIN ps = 1..n
  OBVIOUS
<1>3. \A j \in DOMAIN ps : gs[j] = Rust!Owed(ps[j], h)
  OBVIOUS
<1> HIDE DEF gs, n
<1>4. \A j \in 1..(i - 1) : gs[j] = << >>
  <2>1. \A j \in 1..(i - 1) : j \in DOMAIN ps
    BY <1>2
  <2> QED BY <1>3, <2>1
<1>5. Rust!FlattenSeq(gs) = gs[i] \o Rust!FlattenSeq(SubSeq(gs, i + 1, n))
  <2>1. i \in DOMAIN gs
    BY <1>1
  <2> QED BY <1>1, <1>4, <2>1, FlattenSkips
<1>6. SubSeq(gs, i + 1, n) = [j \in DOMAIN rs |-> Rust!Owed(rs[j], h)]
  <2> DEFINE qs == SubSeq(gs, i + 1, n)
  <2>1. \A T : \A s \in Seq(T) : Len(s) = n =>
          /\ SubSeq(s, i + 1, n) \in Seq(T)
          /\ Len(SubSeq(s, i + 1, n)) = n - i
          /\ \A j \in 1..(n - i) : SubSeq(s, i + 1, n)[j] = s[i + j]
    <3> SUFFICES ASSUME NEW T, NEW s \in Seq(T), Len(s) = n
                 PROVE  /\ SubSeq(s, i + 1, n) \in Seq(T)
                        /\ Len(SubSeq(s, i + 1, n)) = n - i
                        /\ \A j \in 1..(n - i) : SubSeq(s, i + 1, n)[j] = s[i + j]
      OBVIOUS
    <3>1. \A j \in (i + 1)..n : s[j] \in T
      BY <1>2
    <3>2. i + 1 \in Int /\ n \in Int
      BY <1>2
    <3>3. /\ SubSeq(s, i + 1, n) \in Seq(T)
          /\ Len(SubSeq(s, i + 1, n)) = IF i + 1 <= n THEN n - (i + 1) + 1 ELSE 0
          /\ \A j \in 1..(n - (i + 1) + 1) : SubSeq(s, i + 1, n)[j] = s[(i + 1) + j - 1]
      BY <3>1, <3>2, SubSeqProperties
    <3>4. n - (i + 1) + 1 = n - i /\ (~(i + 1 <= n) => n - i = 0)
      BY <1>2
    <3>5. \A j \in 1..(n - i) : (i + 1) + j - 1 = i + j
      BY <1>2
    <3> QED BY <3>3, <3>4, <3>5
  <2>2. /\ qs \in Seq(Seq(Address)) /\ Len(qs) = n - i
        /\ \A j \in 1..(n - i) : qs[j] = gs[i + j]
    BY <1>1, <2>1
  <2>3. /\ rs \in Seq(Place) /\ Len(rs) = n - i
        /\ \A j \in 1..(n - i) : rs[j] = ps[i + j]
    BY <2>1 DEF n
  <2>4. \A j \in 1..(n - i) : i + j \in DOMAIN ps
    BY <1>2
  <2> HIDE DEF rs, qs
  <2>5. DOMAIN qs = 1..(n - i) /\ DOMAIN rs = 1..(n - i)
    BY <2>2, <2>3
  <2>6. \A j \in 1..(n - i) : qs[j] = Rust!Owed(rs[j], h)
    BY <1>3, <2>2, <2>3, <2>4
  <2>7. qs = [j \in 1..(n - i) |-> qs[j]]
    BY <2>2, <2>5
  <2>8. qs = [j \in DOMAIN rs |-> Rust!Owed(rs[j], h)]
    BY <2>5, <2>6, <2>7
  <2> QED BY <2>8 DEF qs
<1> QED BY <1>2, <1>3, <1>5, <1>6 DEF OwedAll, gs, n

(* Places that owe nothing owe nothing together.                            *)
LEMMA OwedAllNothing ==
  ASSUME NEW ps \in Seq(Place), NEW h,
         \A j \in DOMAIN ps : Rust!Owed(ps[j], h) = << >>
  PROVE  OwedAll(ps, h) = << >>
<1> DEFINE gs == [j \in DOMAIN ps |-> Rust!Owed(ps[j], h)]
<1>1. gs \in Seq(Seq(Address)) /\ \A j \in DOMAIN gs : gs[j] = << >>
  BY OwedAllType
<1> HIDE DEF gs
<1>2. Rust!FlattenSeq(gs) = << >>
  BY <1>1, FlattenEmpties
<1> QED BY <1>2 DEF OwedAll, gs

-----------------------------------------------------------------------------
(* What the glue leaves out.                                                *)

(* A place is inside itself, and so is what is inside its components; what  *)
(* is known of it is known of them.                                         *)
LEMMA InsideOf ==
  ASSUME NEW q \in Place
  PROVE  /\ q \in Rust!PlacesIn(q)
         /\ \A r \in Components(q) :
              /\ r \in Place
              /\ Rust!PlacesIn(r) \subseteq Rust!PlacesIn(q)
              /\ Known(q) => Known(r)
<1>1. Rust!PlacesIn(q) = {q} \cup UNION {Rust!PlacesIn(r) : r \in Components(q)}
  BY PlacesInIs
<1>2. \A r \in Components(q) : r \in Place /\ Rust!PlacesIn(r) \subseteq Rust!PlacesIn(q)
  BY <1>1, ComponentsSmaller
<1> QED BY <1>1, <1>2 DEF Known

(* A field of any variant is a component.                                   *)
LEMMA FieldsInside ==
  ASSUME NEW q \in Place, NEW v \in DOMAIN Variants[q.type],
         NEW i \in DOMAIN FieldPlaces(q, v)
  PROVE  FieldPlaces(q, v)[i] \in Components(q)
<1>1. FieldPlaces(q, v)[i] \in Range(FieldPlaces(q, v))
  BY DEF Range
<1> QED BY <1>1 DEF Components

(* What the lowering has to know of q alone. *)
Fine(q) ==
  /\ Kind[q.type] \notin {"opaque", "uninit"}
  /\ ImplementsDrop[q.type] => Variants[q.type] # << >>

(* The equation of Droppable: the lowering has the glue for a place when it *)
(* can deal with the place itself and has the glue for every component.     *)
LEMMA DroppableIs ==
  ASSUME NEW q \in Place
  PROVE  Rust!Droppable(q) <=> /\ Fine(q)
                               /\ \A r \in Components(q) : Rust!Droppable(r)
<1>1. Rust!PlacesIn(q) = {q} \cup UNION {Rust!PlacesIn(r) : r \in Components(q)}
  BY PlacesInIs
<1>2. \A p : Rust!Droppable(p) <=> \A r \in Rust!PlacesIn(p) : Fine(r)
  BY DEF Rust!Droppable, Fine
<1> QED BY <1>1, <1>2

(* A type that needs no drop glue has no Drop impl, and none of its parts   *)
(* needs glue.                                                              *)
LEMMA NotNeededType ==
  ASSUME NEW t \in Type, ~MayNeedDropGlue[t]
  PROVE  /\ Kind[t] \notin {"opaque", "uninit"}
         /\ ~HasDropImpl[t]
         /\ \A u \in Parts(t) : ~MayNeedDropGlue[u]
<1>1. CASE TriviallyDroppable[t]
  <2>1. Kind[t] \in {"trivial", "tuple", "array"}
    BY <1>1, TriviallyDroppableIs
  <2>2. ~HasDropImpl[t]
    BY <2>1, RustcTypes
  <2>3. CASE Kind[t] = "trivial"
    <3>1. Variants[t] = << >>
      BY <2>3, RustcTypes
    <3>2. Parts(t) = {}
      BY <3>1 DEF Parts
    <3> QED BY <2>1, <2>2, <3>2
  <2>4. CASE Kind[t] # "trivial"
    <3>1. \A u \in Parts(t) : u \in Type /\ TriviallyDroppable[u]
      BY <1>1, <2>4, TriviallyDroppableIs, PartsSmaller
    <3>2. \A u \in Parts(t) : ~MayNeedDropGlue[u]
      BY <3>1, MayNeedDropGlueIs
    <3> QED BY <2>1, <2>2, <3>2
  <2> QED BY <2>3, <2>4
<1>2. CASE ~TriviallyDroppable[t]
  BY <1>2, MayNeedDropGlueIs
<1> QED BY <1>1, <1>2

(* What mayNeedDropGlue rules out owes nothing, and needs no glue the       *)
(* lowering might not have.                                                 *)
LEMMA NotNeeded ==
  ASSUME NEW q \in Place, Known(q), ~MayNeedDropGlue[q.type]
  PROVE  /\ Rust!Droppable(q)
         /\ \A h : Rust!Owed(q, h) = << >>
<1> DEFINE Good(r) == Rust!Droppable(r) /\ \A h : Rust!Owed(r, h) = << >>
           D == {r \in Place : Known(r) /\ ~MayNeedDropGlue[r.type] /\ ~Good(r)}
           T == {r.type : r \in D}
<1> SUFFICES ASSUME q \in D PROVE FALSE
  OBVIOUS
<1>1. PICK n \in T : \A m \in T : n <= m
  <2>1. T \subseteq Nat /\ T # {}
    BY ComponentsSmaller
  <2> HIDE DEF T
  <2> QED BY <2>1, Least
<1>2. PICK r \in D : n = r.type
  OBVIOUS
<1>3. r \in Place /\ Known(r) /\ ~MayNeedDropGlue[r.type] /\ ~Good(r)
  OBVIOUS
<1>4. \A s \in Components(r) : s \notin D
  <2> SUFFICES ASSUME NEW s \in Components(r), s \in D PROVE FALSE
    OBVIOUS
  <2>1. s.type \in T
    OBVIOUS
  <2>2. r.type <= s.type
    <3> HIDE DEF T
    <3> QED BY <1>1, <1>2, <2>1
  <2>3. s.type < r.type /\ s.type \in Nat /\ r.type \in Nat
    BY <1>3, ComponentsSmaller
  <2> QED BY <2>2, <2>3
<1>5. /\ r.type \in Type
      /\ Kind[r.type] \notin {"opaque", "uninit"} /\ ~HasDropImpl[r.type]
      /\ \A u \in Parts(r.type) : ~MayNeedDropGlue[u]
  <2>1. r.type \in Type
    BY <1>3 DEF Place
  <2> HIDE DEF D
  <2> QED BY <1>3, <2>1, NotNeededType
<1>6. ~ImplementsDrop[r.type]
  <2>1. GlueKnows(r.type)
    BY <1>3, InsideOf DEF Known
  <2> QED BY <1>5, <2>1 DEF GlueKnows
<1>7. \A s \in Components(r) : Good(s)
  <2> SUFFICES ASSUME NEW s \in Components(r) PROVE Good(s)
    OBVIOUS
  <2>1. s \in Place /\ Known(s) /\ ~MayNeedDropGlue[s.type]
    BY <1>3, <1>5, InsideOf, ComponentsSmaller
  <2>2. s \notin D
    BY <1>4
  <2> HIDE DEF Good
  <2> QED BY <2>1, <2>2
<1> HIDE DEF D
<1>8. Rust!Droppable(r)
  BY <1>3, <1>5, <1>6, <1>7, DroppableIs DEF Fine
<1>9. ASSUME NEW h PROVE Rust!Owed(r, h) = << >>
  <2> DEFINE ps == HeldParts(r, h)
  <2>1. ps \in Seq(Place) /\ \A j \in DOMAIN ps : ps[j] \in Components(r)
    BY <1>3, HeldPartsType DEF Range
  <2> HIDE DEF ps
  <2>2. OwedAll(ps, h) = << >>
    BY <1>7, <2>1, OwedAllNothing
  <2>3. OwnCall(r) = << >>
    BY <1>6 DEF OwnCall
  <2>4. << >> \o << >> = << >>
    OBVIOUS
  <2>5. Rust!Owed(r, h) = IF NeverDrops[r.type] THEN << >>
                          ELSE OwnCall(r) \o OwedAll(ps, h)
    BY <1>3, OwedIs DEF ps
  <2> QED BY <2>2, <2>3, <2>4, <2>5
<1> QED BY <1>3, <1>8, <1>9

(* A variant that is skipped has no field that needs glue.                  *)
LEMMA VariantNotNeeded ==
  ASSUME NEW q \in Place, NEW v \in DOMAIN Variants[q.type],
         ~VariantNeedsDrop(q.type, v)
  PROVE  \A i \in DOMAIN FieldPlaces(q, v) :
           ~MayNeedDropGlue[FieldPlaces(q, v)[i].type]
  BY FieldTypes DEF VariantNeedsDrop

(* A place that needs glue owes its own destructor and those of the         *)
(* components of the variant it holds.                                      *)
LEMMA NeededOwes ==
  ASSUME NEW q \in Place, Known(q), MayNeedDropGlue[q.type], NEW h
  PROVE  /\ OwnCall(q) = IF HasDropImpl[q.type] THEN <<q.addr>> ELSE << >>
         /\ Rust!Owed(q, h) = OwnCall(q) \o OwedAll(HeldParts(q, h), h)
<1>1. GlueKnows(q.type) /\ q.type \in Type
  BY InsideOf DEF Known, Place
<1>2. ImplementsDrop[q.type] <=> HasDropImpl[q.type]
  BY <1>1, RustcTypes DEF GlueKnows
<1>3. ~NeverDrops[q.type]
  BY <1>1 DEF GlueKnows
<1> QED BY <1>2, <1>3, OwedIs DEF OwnCall

-----------------------------------------------------------------------------
(* Plans: what the blocks of a drop have left to destroy.                   *)

(* The place the drop of block i destroys.                                  *)
Root(f, i) == f[i].term.place

(* The MIR block the drop goes to when it is done.                          *)
Out(f, i) == TargetOf(f[i].term)

(* Control that goes to b has s left to destroy. *)
Goes(f, i, rest, b, s) ==
  \/ b = Out(f, i) /\ s = << >>
  \/ b \in DOMAIN rest \ MirIndices(f) /\ rest[b] = s

(* The calls of destructors of their own.                                   *)
OwnCalls == {CallDropImpl(p) : p \in Place}

(* What a run of such calls destroys.                                       *)
Destroyed(os) == [j \in DOMAIN os |-> os[j].place.addr]

(* The tag in memory when the enum at p has the value h.                    *)
TagOf(p, h) == Discriminant[p.type][h[p.addr]]

(* The terminator o leaves s to destroy where it goes. *)
Ending(f, i, h, rest, o, s) ==
  \/ o.op = "goto" /\ \A b \in o.targets : Goes(f, i, rest, b, s)
  \/ /\ o.op = "switch_tag"
     /\ \A a \in DOMAIN o.arms :
          o.arms[a].case = TagOf(o.place, h) => Goes(f, i, rest, o.arms[a].index, s)
     /\ (\A a \in DOMAIN o.arms : o.arms[a].case # TagOf(o.place, h))
          => Goes(f, i, rest, o.default, s)

(* The block b destroys what rest says it has left. *)
Explained(f, i, h, rest, b) ==
  \E os \in Seq(OwnCalls), s \in Seq(Address), o \in TypedOp :
    /\ b.ops = os \o <<o>>
    /\ rest[b.index] = Destroyed(os) \o s
    /\ Ending(f, i, h, rest, o, s)

(* rest says of some blocks, of the block of the drop first, what they have *)
(* left to destroy.                                                         *)
Plan(f, i, h, rest) ==
  /\ rest \in [DOMAIN rest -> Seq(Address)]
  /\ f[i].index \in DOMAIN rest
  /\ DOMAIN rest \cap MirIndices(f) \subseteq {f[i].index}
  /\ rest[f[i].index] = Rust!Owed(Root(f, i), h)

(* The drop of block i is expanded: for the value h every block of the plan *)
(* is there and destroys what the plan says.                                *)
Settled(f, i, h, rest, blocks) ==
  /\ Plan(f, i, h, rest)
  /\ \A b \in DOMAIN rest : \E k \in DOMAIN blocks :
       blocks[k].index = b /\ Explained(f, i, h, rest, blocks[k])

(* What an emission on the stack still has to destroy.                      *)
Promised(t, h) ==
  CASE t.kind = "glue"     -> Rust!Owed(t.places[1], h)
    [] t.kind = "sequence" -> OwedAll(t.places, h)
    [] t.kind = "variants" -> OwedAll(HeldParts(t.places[1], h), h)

(* The block made for the arm m is empty, and the plan says of it what the  *)
(* fields of the variant owe, and then s.                                   *)
ArmTold(f, h, rest, blocks, p, m, s) ==
  /\ blocks[m.at].index = m.index
  /\ blocks[m.at].ops = << >>
  /\ m.index \in DOMAIN rest \ MirIndices(f)
  /\ rest[m.index] = OwedAll(FieldPlaces(p, m.case + 1), h) \o s

(* The plan says of the block of t what it destroys so far, then what t     *)
(* promises, then s, which is what is left at the target of t.              *)
ToldOf(f, i, h, rest, blocks, t, s) ==
  /\ Goes(f, i, rest, t.target, s)
  /\ rest[blocks[t.at].index] = Destroyed(blocks[t.at].ops) \o (Promised(t, h) \o s)
  /\ \A a \in DOMAIN t.arms :
       ArmTold(f, h, rest, blocks, t.places[1], t.arms[a], s)

(* So it does, for some s.                                                  *)
Told(f, i, h, rest, blocks, t) ==
  /\ blocks[t.at].ops \in Seq(OwnCalls)
  /\ blocks[t.at].index \in DOMAIN rest
  /\ \E s \in Seq(Address) : ToldOf(f, i, h, rest, blocks, t, s)

(* The drop is being expanded: every block of the plan that has been ended  *)
(* destroys what the plan says, and the emissions on the stack are to do it *)
(* for the others.                                                          *)
Telling(f, i, h, rest, blocks, w) ==
  /\ Plan(f, i, h, rest)
  /\ DOMAIN rest \subseteq IndicesOf(blocks)
  /\ \A k \in DOMAIN blocks :
       blocks[k].index \in DOMAIN rest /\ Ends(blocks[k].ops)
         => Explained(f, i, h, rest, blocks[k])
  /\ \A j \in DOMAIN w : Told(f, i, h, rest, blocks, w[j])

(* The emission t is about places inside the dropped one; of an enum it has *)
(* treated every variant before t.next.                                     *)
Within(f, i, t) ==
  /\ \A j \in DOMAIN t.places :
       Rust!PlacesIn(t.places[j]) \subseteq Rust!PlacesIn(Root(f, i))
  /\ t.kind = "variants" =>
       /\ Len(Variants[t.places[1].type]) > 1
       /\ \A v \in DOMAIN Variants[t.places[1].type] :
            v < t.next /\ VariantNeedsDrop(t.places[1].type, v)
              => \E a \in DOMAIN t.arms : t.arms[a].case + 1 = v

(* The lowering has the glue for every field of variant v.                  *)
FieldsDroppable(p, v) ==
  \A j \in DOMAIN FieldPlaces(p, v) : Rust!Droppable(FieldPlaces(p, v)[j])

(* The lowering has the glue for all t still has to emit.                   *)
Ahead(t) ==
  /\ t.kind \in {"glue", "sequence"} =>
       \A j \in DOMAIN t.places : Rust!Droppable(t.places[j])
  /\ t.kind = "variants" =>
       \A v \in DOMAIN Variants[t.places[1].type] :
         (v >= t.next \/ \E a \in DOMAIN t.arms : t.arms[a].case + 1 = v)
           => FieldsDroppable(t.places[1], v)

(* The plan has been extended: nothing it said has changed.                 *)
Extends(rest, more) ==
  /\ DOMAIN rest \subseteq DOMAIN more
  /\ \A b \in DOMAIN rest : more[b] = rest[b]

(* What is left at a block is still left there in an extended plan.         *)
LEMMA GoesOnTo ==
  ASSUME NEW f, NEW i, NEW rest, NEW more, Extends(rest, more)
  PROVE  \A b, s : Goes(f, i, rest, b, s) => Goes(f, i, more, b, s)
  BY DEF Extends, Goes

(* A terminator still leaves what it left.                                  *)
LEMMA EndingStill ==
  ASSUME NEW f, NEW i, NEW h, NEW rest, NEW more, Extends(rest, more),
         NEW o, NEW s, Ending(f, i, h, rest, o, s)
  PROVE  Ending(f, i, h, more, o, s)
  BY GoesOnTo DEF Ending

(* A block that did what the plan said still does.                          *)
LEMMA ExplainedStill ==
  ASSUME NEW f, NEW i, NEW h, NEW rest, NEW more, Extends(rest, more),
         NEW b, b.index \in DOMAIN rest, Explained(f, i, h, rest, b)
  PROVE  Explained(f, i, h, more, b)
<1>1. PICK os \in Seq(OwnCalls), s \in Seq(Address), o \in TypedOp :
        /\ b.ops = os \o <<o>>
        /\ rest[b.index] = Destroyed(os) \o s
        /\ Ending(f, i, h, rest, o, s)
  BY DEF Explained
<1>2. Ending(f, i, h, more, o, s) /\ more[b.index] = rest[b.index]
  BY <1>1, EndingStill DEF Extends
<1>3. more[b.index] = Destroyed(os) \o s
  BY <1>1, <1>2
<1> QED BY <1>1, <1>2, <1>3 DEF Explained

(* The blocks of t are not touched. *)
Untouched(t, blocks, new) ==
  /\ new[t.at] = blocks[t.at]
  /\ \A a \in DOMAIN t.arms : new[t.arms[a].at] = blocks[t.arms[a].at]

(* An emission whose blocks are not touched still does what it promised.    *)
LEMMA ToldStill ==
  ASSUME NEW f, NEW i, NEW h, NEW rest, NEW more, Extends(rest, more),
         NEW blocks, NEW new, NEW t, Untouched(t, blocks, new),
         Told(f, i, h, rest, blocks, t)
  PROVE  Told(f, i, h, more, new, t)
<1>1. PICK s \in Seq(Address) : ToldOf(f, i, h, rest, blocks, t, s)
  BY DEF Told
<1>2. /\ Goes(f, i, rest, t.target, s)
      /\ rest[blocks[t.at].index] = Destroyed(blocks[t.at].ops) \o (Promised(t, h) \o s)
      /\ blocks[t.at].index \in DOMAIN rest
  BY <1>1 DEF ToldOf, Told
<1>3. Goes(f, i, more, t.target, s)
  BY <1>2, GoesOnTo
<1>4. more[blocks[t.at].index] = Destroyed(blocks[t.at].ops) \o (Promised(t, h) \o s)
  BY <1>2 DEF Extends
<1>5. ASSUME NEW a \in DOMAIN t.arms
      PROVE  ArmTold(f, h, more, new, t.places[1], t.arms[a], s)
  <2>1. ArmTold(f, h, rest, blocks, t.places[1], t.arms[a], s)
    BY <1>1 DEF ToldOf
  <2>2. new[t.arms[a].at] = blocks[t.arms[a].at]
    BY DEF Untouched
  <2> QED BY <2>1, <2>2 DEF ArmTold, Extends
<1>6. new[t.at] = blocks[t.at]
  BY DEF Untouched
<1>7. ToldOf(f, i, h, more, new, t, s)
  BY <1>3, <1>4, <1>5, <1>6 DEF ToldOf
<1>8. new[t.at].ops \in Seq(OwnCalls) /\ new[t.at].index \in DOMAIN more
  BY <1>2, <1>6 DEF Told, Extends
<1> QED BY <1>7, <1>8 DEF Told

(* Between the blocks of the emission on top and those of one below. *)
LEMMA BelowUntouched ==
  ASSUME IndexInv, BlockInv, NEW k \in DOMAIN work \ {1}, work # << >>,
         NEW new,
         \A j \in DOMAIN typed \ {Head(work).at} : new[j] = typed[j]
  PROVE  Untouched(work[k], typed, new)
<1>1. Head(work) = work[1] /\ 1 \in DOMAIN work
  BY DEF IndexInv, TypeOK
<1>2. Owns(work[k]) \cap Owns(work[1]) = {}
  BY <1>1 DEF BlockInv, BlockDiscipline, OwnersApart
<1>3. Owns(work[k]) \subseteq DOMAIN typed
  BY OwnedBlocks
<1>4. \A j \in Owns(work[k]) : new[j] = typed[j]
  <2>1. Head(work).at \in Owns(work[1])
    BY <1>1 DEF Owns
  <2> QED BY <1>2, <1>3, <2>1
<1> QED BY <1>4 DEF Untouched, Owns

(* Everything Telling says when the emission on top hands over to g. *)
LEMMA HandsOver ==
  ASSUME IndexInv, BlockInv, work # << >>, NEW t, t = Head(work),
         NEW h, NEW rest, NEW more, Extends(rest, more),
         Telling(func, pos, h, rest, typed, work),
         NEW new, NEW w, NEW g \in Seq(PendingEmission), w = g \o Tail(work),
         DOMAIN typed \subseteq DOMAIN new,
         \A j \in DOMAIN typed \ {t.at} : new[j] = typed[j],
         new[t.at].index = typed[t.at].index,
         Plan(func, pos, h, more),
         DOMAIN more \subseteq IndicesOf(new),
         \A k \in DOMAIN typed : typed[k].index \notin DOMAIN more \ DOMAIN rest,
         \A k \in DOMAIN new \ DOMAIN typed : ~Ends(new[k].ops),
         Ends(new[t.at].ops) => Explained(func, pos, h, more, new[t.at]),
         \A j \in DOMAIN g : Told(func, pos, h, more, new, g[j])
  PROVE  Telling(func, pos, h, more, new, w)
<1>1. work \in Seq(PendingEmission) /\ t.at \in DOMAIN typed
  BY HeadFacts DEF IndexInv, TypeOK
<1>2. ASSUME NEW k \in DOMAIN new, new[k].index \in DOMAIN more, Ends(new[k].ops)
      PROVE  Explained(func, pos, h, more, new[k])
  <2>1. k \in DOMAIN typed
    BY <1>2
  <2>2. CASE k = t.at
    BY <1>2, <2>2
  <2>3. CASE k # t.at
    <3>1. new[k] = typed[k] /\ typed[k].index \in DOMAIN rest
      BY <1>2, <2>1, <2>3
    <3>2. Explained(func, pos, h, rest, typed[k])
      BY <1>2, <2>1, <3>1 DEF Telling
    <3>3. Explained(func, pos, h, more, typed[k])
      BY <3>1, <3>2, ExplainedStill
    <3> QED BY <3>1, <3>3
  <2> QED BY <2>2, <2>3
<1>3. ASSUME NEW j \in DOMAIN w PROVE Told(func, pos, h, more, new, w[j])
  <2>1. \/ j \in DOMAIN g /\ w[j] = g[j]
        \/ /\ j \in Int /\ j > Len(g)
           /\ j - Len(g) + 1 \in DOMAIN work \ {1}
           /\ w[j] = work[j - Len(g) + 1]
    BY <1>1, StackAfter
  <2>2. ASSUME NEW k \in DOMAIN work \ {1}
        PROVE  Told(func, pos, h, more, new, work[k])
    <3>1. Untouched(work[k], typed, new)
      BY BelowUntouched
    <3>2. Told(func, pos, h, rest, typed, work[k])
      BY DEF Telling
    <3> QED BY <3>1, <3>2, ToldStill
  <2>3. CASE j \in DOMAIN g /\ w[j] = g[j]
    BY <2>3
  <2>4. CASE ~(j \in DOMAIN g /\ w[j] = g[j])
    BY <2>1, <2>2, <2>4
  <2> QED BY <2>3, <2>4
<1> QED BY <1>2, <1>3 DEF Telling

-----------------------------------------------------------------------------
(* Emissions keep what they promise.                                        *)

(* Destroying distributes over concatenation.                               *)
LEMMA DestroyedFacts ==
  /\ << >> \in Seq(OwnCalls) /\ Destroyed(<< >>) = << >>
  /\ \A os \in Seq(OwnCalls) : /\ Destroyed(os) \in Seq(Address)
                               /\ Len(Destroyed(os)) = Len(os)
  /\ \A os, pp \in Seq(OwnCalls) :
       /\ os \o pp \in Seq(OwnCalls)
       /\ Destroyed(os \o pp) = Destroyed(os) \o Destroyed(pp)
<1>1. << >> \in Seq(OwnCalls) /\ Destroyed(<< >>) = << >>
  BY DEF Destroyed
<1>2. \A o \in OwnCalls : o.place.addr \in Address
  BY DEF OwnCalls, CallDropImpl, Place
<1>3. ASSUME NEW os \in Seq(OwnCalls)
      PROVE  /\ Destroyed(os) \in Seq(Address) /\ Len(Destroyed(os)) = Len(os)
             /\ \A j \in 1..Len(os) : Destroyed(os)[j] = os[j].place.addr
  <2>1. \A j \in 1..Len(os) : os[j].place.addr \in Address
    BY <1>2
  <2>2. Destroyed(os) = [j \in 1..Len(os) |-> os[j].place.addr]
    BY DEF Destroyed
  <2>3. Len(os) \in Nat
    OBVIOUS
  <2>4. Destroyed(os) \in Seq(Address)
    BY <2>1, <2>2, <2>3
  <2> QED BY <2>2, <2>3, <2>4
<1>4. ASSUME NEW os \in Seq(OwnCalls), NEW pp \in Seq(OwnCalls)
      PROVE  /\ os \o pp \in Seq(OwnCalls)
             /\ Destroyed(os \o pp) = Destroyed(os) \o Destroyed(pp)
  <2> DEFINE m == Len(os)
             n == Len(pp)
             c == os \o pp
             a == Destroyed(c)
             d == Destroyed(os)
             e == Destroyed(pp)
             b == d \o e
  <2>1. /\ c \in Seq(OwnCalls) /\ m \in Nat /\ n \in Nat /\ Len(c) = m + n
        /\ \A j \in 1..(m + n) : c[j] = IF j <= m THEN os[j] ELSE pp[j - m]
    BY ConcatProperties
  <2>2. /\ a \in Seq(Address) /\ Len(a) = Len(c)
        /\ \A j \in 1..Len(c) : a[j] = c[j].place.addr
    <3> HIDE DEF c
    <3> QED BY <1>3, <2>1
  <2>3. /\ d \in Seq(Address) /\ Len(d) = m /\ \A j \in 1..m : d[j] = os[j].place.addr
        /\ e \in Seq(Address) /\ Len(e) = n /\ \A j \in 1..n : e[j] = pp[j].place.addr
    BY <1>3
  <2> HIDE DEF a, c, d, e, m, n
  <2>4. /\ b \in Seq(Address) /\ Len(b) = m + n
        /\ \A j \in 1..(m + n) : b[j] = IF j <= m THEN d[j] ELSE e[j - m]
    BY <2>3, ConcatProperties
  <2> HIDE DEF b
  <2>5. ASSUME NEW j \in 1..(m + n) PROVE a[j] = b[j]
    <3>1. CASE j <= m
      <4>1. j \in 1..m
        BY <2>1, <3>1
      <4> QED BY <2>1, <2>2, <2>3, <2>4, <3>1, <4>1
    <3>2. CASE ~(j <= m)
      <4>1. j - m \in 1..n
        BY <2>1, <3>2
      <4> QED BY <2>1, <2>2, <2>3, <2>4, <3>2, <4>1
    <3> QED BY <3>1, <3>2
  <2>6. a = b
    BY <2>1, <2>2, <2>4, <2>5, SeqEqual
  <2> QED BY <2>1, <2>6 DEF a, b, c, d, e
<1> QED BY <1>1, <1>3, <1>4

(* emitOwnDrop calls the destructor of p when p has one.                    *)
LEMMA OwnDropDestroys ==
  ASSUME NEW p \in Place
  PROVE  /\ OwnDrop(p) \in Seq(OwnCalls)
         /\ Destroyed(OwnDrop(p)) = IF HasDropImpl[p.type] THEN <<p.addr>> ELSE << >>
<1>1. CallDropImpl(p) \in OwnCalls /\ CallDropImpl(p).place = p
  BY DEF OwnCalls, CallDropImpl
<1>2. <<CallDropImpl(p)>> \in Seq(OwnCalls) /\ << >> \in Seq(OwnCalls)
  BY <1>1
<1>3. Destroyed(<<CallDropImpl(p)>>) = <<p.addr>>
  BY <1>1 DEF Destroyed
<1> QED BY <1>2, <1>3, DestroyedFacts DEF OwnDrop

(* The fields of the three kinds of emissions.                              *)
LEMMA PendingIs ==
  /\ \A k, p, b : LET e == Glue(k, p, b) IN
       /\ e.kind = "glue" /\ e.at = k /\ e.places = <<p>> /\ e.arms = << >>
       /\ e.target = b /\ e.places[1] = p
  /\ \A k, ps, b : LET e == Sequence(k, ps, b) IN
       /\ e.kind = "sequence" /\ e.at = k /\ e.places = ps /\ e.arms = << >>
       /\ e.target = b
  /\ \A k, p, arms, v, b : LET e == Dispatch(k, p, arms, v, b) IN
       /\ e.kind = "variants" /\ e.at = k /\ e.places = <<p>> /\ e.arms = arms
       /\ e.next = v /\ e.target = b /\ e.places[1] = p
  BY DEF Glue, Sequence, Dispatch, Pending

(* What is promised, kind by kind.                                          *)
LEMMA PromisedIs ==
  ASSUME NEW t, NEW h
  PROVE  /\ t.kind = "glue" => Promised(t, h) = Rust!Owed(t.places[1], h)
         /\ t.kind = "sequence" => Promised(t, h) = OwedAll(t.places, h)
         /\ t.kind = "variants" => Promised(t, h) = OwedAll(HeldParts(t.places[1], h), h)
  BY DEF Promised

(* What is promised is addresses.                                           *)
LEMMA PromisedType ==
  ASSUME IndexInv, work # << >>, NEW t, t = Head(work), NEW h
  PROVE  Promised(t, h) \in Seq(Address)
<1>1. /\ t.kind \in {"glue", "sequence", "variants"}
      /\ t.places \in Seq(Place)
      /\ t.kind \in {"glue", "variants"} => t.places[1] \in Place
  BY HeadFacts DEF PendingEmission
<1>2. CASE t.kind = "glue"
  BY <1>1, <1>2, PromisedIs, OwedIs
<1>3. CASE t.kind = "sequence"
  BY <1>1, <1>3, PromisedIs, OwedAllType
<1>4. CASE t.kind = "variants"
  <2>1. HeldParts(t.places[1], h) \in Seq(Place)
    BY <1>1, <1>4, HeldPartsType
  <2> QED BY <1>4, <2>1, PromisedIs, OwedAllType
<1> QED BY <1>1, <1>2, <1>3, <1>4

(* The emission on top is told. *)
LEMMA HeadTold ==
  ASSUME IndexInv, work # << >>, NEW h, NEW rest, NEW b,
         Telling(func, pos, h, rest, b, work)
  PROVE  Told(func, pos, h, rest, b, Head(work))
<1>1. Head(work) = work[1] /\ 1 \in DOMAIN work
  BY DEF IndexInv, TypeOK
<1> QED BY <1>1 DEF Telling

(* The emission e goes on where t is, os having been appended. *)
Succeeds(e, t, blocks, new, os, h) ==
  /\ e.at = t.at /\ e.target = t.target /\ e.arms = t.arms
  /\ \A a \in DOMAIN t.arms : new[t.arms[a].at] = blocks[t.arms[a].at]
  /\ \A a \in DOMAIN t.arms : e.places[1] = t.places[1]
  /\ new[t.at].index = blocks[t.at].index
  /\ new[t.at].ops = blocks[t.at].ops \o os
  /\ Promised(e, h) \in Seq(Address)
  /\ Promised(t, h) = Destroyed(os) \o Promised(e, h)

(* The emission e takes over from t where t is. *)
LEMMA TakesOver ==
  ASSUME NEW f, NEW i, NEW h, NEW rest, NEW blocks, NEW new, NEW t, NEW e,
         Told(f, i, h, rest, blocks, t),
         NEW os \in Seq(OwnCalls), Succeeds(e, t, blocks, new, os, h)
  PROVE  Told(f, i, h, rest, new, e)
<1>1. PICK s \in Seq(Address) : ToldOf(f, i, h, rest, blocks, t, s)
  BY DEF Told
<1>a. /\ e.at = t.at /\ e.target = t.target /\ e.arms = t.arms
      /\ \A a \in DOMAIN t.arms : new[t.arms[a].at] = blocks[t.arms[a].at]
      /\ \A a \in DOMAIN t.arms : e.places[1] = t.places[1]
      /\ new[t.at].index = blocks[t.at].index
      /\ new[t.at].ops = blocks[t.at].ops \o os
      /\ Promised(e, h) \in Seq(Address)
      /\ Promised(t, h) = Destroyed(os) \o Promised(e, h)
  BY DEF Succeeds
<1> DEFINE ops == blocks[t.at].ops
<1>2. ops \in Seq(OwnCalls) /\ blocks[t.at].index \in DOMAIN rest
  BY DEF Told
<1>3. /\ Goes(f, i, rest, t.target, s)
      /\ rest[blocks[t.at].index] = Destroyed(ops) \o (Promised(t, h) \o s)
  BY <1>1 DEF ToldOf
<1>4. new[e.at].ops \in Seq(OwnCalls) /\ new[e.at].index \in DOMAIN rest
  <2>1. new[e.at].ops = ops \o os
    BY <1>a
  <2> HIDE DEF ops
  <2> QED BY <1>a, <1>2, <2>1, DestroyedFacts
<1>5. rest[new[e.at].index] = Destroyed(new[e.at].ops) \o (Promised(e, h) \o s)
  <2> DEFINE A == Destroyed(ops)
             B == Destroyed(os)
             C == Promised(e, h)
  <2>1. A \in Seq(Address) /\ B \in Seq(Address) /\ C \in Seq(Address)
    BY <1>a, <1>2, DestroyedFacts
  <2>2. Destroyed(new[e.at].ops) = A \o B
    <3>1. \A pp, qq \in Seq(OwnCalls) : Destroyed(pp \o qq) = Destroyed(pp) \o Destroyed(qq)
      BY DestroyedFacts
    <3>2. new[e.at].ops = ops \o os
      BY <1>a
    <3> HIDE DEF ops
    <3> QED BY <1>2, <3>1, <3>2
  <2>3. rest[new[e.at].index] = A \o ((B \o C) \o s)
    BY <1>a, <1>3
  <2> HIDE DEF A, B, C
  <2>4. A \o ((B \o C) \o s) = (A \o B) \o (C \o s)
    <3>1. Associates(Address)
      BY ConcatAssociates, Zenon
    <3>2. (B \o C) \o s = B \o (C \o s)
      BY <2>1, <3>1 DEF Associates
    <3>3. C \o s \in Seq(Address)
      BY <2>1
    <3>4. (A \o B) \o (C \o s) = A \o (B \o (C \o s))
      BY <2>1, <3>1, <3>3 DEF Associates
    <3> QED BY <3>2, <3>4
  <2> QED BY <2>2, <2>3, <2>4 DEF C
<1>6. ASSUME NEW a \in DOMAIN e.arms
      PROVE  ArmTold(f, h, rest, new, e.places[1], e.arms[a], s)
  <2>1. a \in DOMAIN t.arms
    BY <1>a, <1>6
  <2>2. ArmTold(f, h, rest, blocks, t.places[1], t.arms[a], s)
    BY <1>1, <2>1 DEF ToldOf
  <2>3. new[t.arms[a].at] = blocks[t.arms[a].at] /\ e.places[1] = t.places[1]
    BY <1>a, <2>1
  <2> QED BY <1>a, <2>1, <2>2, <2>3 DEF ArmTold
<1>7. ToldOf(f, i, h, rest, new, e, s)
  BY <1>a, <1>3, <1>5, <1>6 DEF ToldOf
<1> QED BY <1>4, <1>7 DEF Told

(* An emission that has nothing to destroy ends its block with a goto. *)
LEMMA EndsWithGoto ==
  ASSUME NEW f, NEW i, NEW h, NEW rest, NEW blocks, NEW new, NEW t,
         Told(f, i, h, rest, blocks, t), t.target \in Nat,
         new[t.at].index = blocks[t.at].index,
         new[t.at].ops = blocks[t.at].ops \o <<Goto(t.target)>>,
         Promised(t, h) = << >>
  PROVE  Explained(f, i, h, rest, new[t.at])
<1>1. PICK s \in Seq(Address) : ToldOf(f, i, h, rest, blocks, t, s)
  BY DEF Told
<1> DEFINE ops == blocks[t.at].ops
<1>2. ops \in Seq(OwnCalls)
  BY DEF Told
<1>3. /\ Goes(f, i, rest, t.target, s)
      /\ rest[blocks[t.at].index] = Destroyed(ops) \o (<< >> \o s)
  BY <1>1 DEF ToldOf
<1>4. << >> \o s = s
  BY ConcatEmptySeq
<1>5. Ending(f, i, h, rest, Goto(t.target), s)
  BY <1>3 DEF Ending, Goto
<1>6. Goto(t.target) \in TypedOp
  BY OpTypes
<1>7. /\ new[t.at].ops = ops \o <<Goto(t.target)>>
      /\ rest[new[t.at].index] = Destroyed(ops) \o s
  BY <1>3, <1>4
<1> QED BY <1>2, <1>5, <1>6, <1>7 DEF Explained

-----------------------------------------------------------------------------
(* Handing over.                                                            *)

(* While a drop is expanded, the block being lifted ends in a drop without  *)
(* a bridge, and the emissions on the stack are about it.                   *)
Underway ==
  work # << >> =>
    /\ pos \in DOMAIN func /\ ExpandsDrop(func, pos)
    /\ \A j \in DOMAIN work : Within(func, pos, work[j])

(* The emission on top is replaced by g, in keeping with what it promised. *)
Hand(g) ==
  /\ g \in Seq(PendingEmission)
  /\ work' = g \o Tail(work)
  /\ \A j \in DOMAIN g : Within(func, pos, g[j])
  /\ (\A j \in DOMAIN g : Ahead(g[j])) => Ahead(Head(work))
  /\ \A h \in Rust!Values(Root(func, pos)) : \A rest :
       Telling(func, pos, h, rest, typed, work)
         => \E more : Telling(func, pos, h, more, typed', work')

(* A drop without a bridge: its place, the block it goes to, and what       *)
(* DropsKnown says of the place.                                            *)
LEMMA RootFacts ==
  ASSUME NEW f \in Funcs, NEW i \in DOMAIN f, ExpandsDrop(f, i)
  PROVE  /\ Root(f, i) \in Place
         /\ Out(f, i) \in MirIndices(f)
         /\ f[i].term.targets = {Out(f, i)}
         /\ DropsKnown => Known(Root(f, i))
<1>1. f[i].term.op = "drop" /\ ~f[i].term.bridge
  BY DEF ExpandsDrop
<1>2. f[i].term \in DropTerminator
  BY <1>1, BodyFacts DEF PlainTerminator
<1>3. \E b \in MirIndices(f) : f[i].term.targets = {b}
  BY <1>1, SingleTargets
<1> QED BY <1>2, <1>3 DEF DropTerminator, Root, Out, TargetOf, DropsKnown

(* The emission on top is about the drop of the block being lifted, and     *)
(* about places of which the lowering knows.                                *)
LEMMA HeadWithin ==
  ASSUME IndexInv, Underway, DropsKnown, work # << >>, NEW t, t = Head(work)
  PROVE  /\ func \in Funcs /\ pos \in DOMAIN func /\ ExpandsDrop(func, pos)
         /\ Root(func, pos) \in Place
         /\ Within(func, pos, t)
         /\ \A j \in DOMAIN t.places : /\ t.places[j] \in Place
                                       /\ Known(t.places[j])
<1>1. /\ func \in Funcs /\ pos \in DOMAIN func /\ ExpandsDrop(func, pos)
      /\ Within(func, pos, t)
  BY DEF Underway, IndexInv, TypeOK
<1>2. Root(func, pos) \in Place /\ Known(Root(func, pos))
  BY <1>1, RootFacts
<1>3. t.places \in Seq(Place)
  BY HeadFacts
<1> QED BY <1>1, <1>2, <1>3 DEF Within, Known

(* The place of glue, and of a dispatch, is one of them.                    *)
LEMMA OwnPlaceIs ==
  ASSUME IndexInv, Underway, DropsKnown, work # << >>, NEW t, t = Head(work),
         t.kind \in {"glue", "variants"}, NEW p, p = t.places[1]
  PROVE  /\ p \in Place /\ Known(p) /\ p.type \in Type
         /\ Variants[p.type] \in Seq(Seq(Type))
         /\ Rust!PlacesIn(p) \subseteq Rust!PlacesIn(Root(func, pos))
         /\ DOMAIN t.places = {1}
<1>1. Len(t.places) = 1 /\ t.places \in Seq(Place)
  BY HeadFacts DEF EmissionOK
<1>2. DOMAIN t.places = {1}
  BY <1>1
<1>3. p \in Place /\ Known(p) /\ Rust!PlacesIn(p) \subseteq Rust!PlacesIn(Root(func, pos))
  BY <1>2, HeadWithin DEF Within
<1>4. p.type \in Type
  BY <1>3 DEF Place
<1> QED BY <1>2, <1>3, <1>4, TypeTable

(* The block at k gets the operations os, no other changes. *)
SameBut(k, blocks, new, os) ==
  /\ DOMAIN new = DOMAIN blocks
  /\ \A j \in DOMAIN blocks \ {k} : new[j] = blocks[j]
  /\ new[k].index = blocks[k].index
  /\ new[k].ops = blocks[k].ops \o os

(* Emitting appends to one block and changes no other.                      *)
LEMMA EmitSame ==
  ASSUME IndexInv, work # << >>, NEW t, t = Head(work), NEW os \in Seq(TypedOp)
  PROVE  SameBut(t.at, typed, Emit(typed, t.at, os), os)
<1>1. t.at \in DOMAIN typed /\ typed \in Seq(TypedBlock)
  BY HeadFacts DEF IndexInv, TypeOK
<1> QED BY <1>1, EmitFacts DEF SameBut

(* Emitting nothing does not either.                                        *)
LEMMA NothingSame ==
  ASSUME IndexInv, work # << >>, NEW t, t = Head(work)
  PROVE  SameBut(t.at, typed, typed, << >>)
<1>1. t.at \in DOMAIN typed /\ typed \in Seq(TypedBlock)
  BY HeadFacts DEF IndexInv, TypeOK
<1>2. typed[t.at] \in TypedBlock
  BY <1>1
<1>3. typed[t.at].ops \in Seq(TypedOp)
  BY <1>2 DEF TypedBlock
<1>4. typed[t.at].ops = typed[t.at].ops \o << >>
  BY <1>3, ConcatEmptySeq
<1> QED BY <1>4 DEF SameBut

(* Destructor calls do not end a block.                                     *)
LEMMA OwnCallsEndNothing ==
  ASSUME NEW os \in Seq(OwnCalls) PROVE ~Ends(os)
<1>1. CASE os # << >>
  <2>1. os[Len(os)] \in OwnCalls
    BY <1>1
  <2>2. ~IsTerminator(os[Len(os)])
    BY <2>1 DEF OwnCalls, CallDropImpl, IsTerminator
  <2> QED BY <2>2 DEF Ends
<1> QED BY <1>1 DEF Ends

(* An action that creates no block keeps the plan: the block of the         *)
(* emission on top is ended as the plan says, or the emissions that take    *)
(* over tell it.                                                            *)
LEMMA InPlace ==
  ASSUME IndexInv, BlockInv, work # << >>, NEW t, t = Head(work),
         NEW h, NEW rest, Telling(func, pos, h, rest, typed, work),
         NEW new, NEW os, SameBut(t.at, typed, new, os),
         NEW w, NEW g \in Seq(PendingEmission), w = g \o Tail(work),
         Ends(new[t.at].ops) => Explained(func, pos, h, rest, new[t.at]),
         \A j \in DOMAIN g : Told(func, pos, h, rest, new, g[j])
  PROVE  Telling(func, pos, h, rest, new, w)
<1>1. Extends(rest, rest)
  BY DEF Extends
<1>2. t.at \in DOMAIN typed
  BY HeadFacts
<1>3. DOMAIN rest \subseteq IndicesOf(new)
  <2>1. IndicesOf(new) = IndicesOf(typed)
    BY <1>2 DEF SameBut, IndicesOf
  <2> QED BY <2>1 DEF Telling
<1>4. Plan(func, pos, h, rest)
  BY DEF Telling
<1>5. /\ DOMAIN typed \subseteq DOMAIN new
      /\ \A j \in DOMAIN typed \ {t.at} : new[j] = typed[j]
      /\ new[t.at].index = typed[t.at].index
      /\ \A k \in DOMAIN typed : typed[k].index \notin DOMAIN rest \ DOMAIN rest
      /\ \A k \in DOMAIN new \ DOMAIN typed : ~Ends(new[k].ops)
  BY DEF SameBut
<1> QED BY <1>1, <1>3, <1>4, <1>5, HandsOver

(* The head is done: its block ends with a goto. *)
LEMMA GotoTells ==
  ASSUME IndexInv, BlockInv, work # << >>, NEW t, t = Head(work),
         NEW h, NEW rest, Telling(func, pos, h, rest, typed, work),
         Promised(t, h) = << >>
  PROVE  Telling(func, pos, h, rest, Emit(typed, t.at, <<Goto(t.target)>>), Tail(work))
<1> DEFINE new == Emit(typed, t.at, <<Goto(t.target)>>)
           g == << >>
           w == Tail(work)
<1>1. SameBut(t.at, typed, new, <<Goto(t.target)>>)
  BY GotoTarget, EmitSame
<1>2. t.target \in Nat /\ w = g \o Tail(work) /\ g \in Seq(PendingEmission)
      /\ DOMAIN g = {}
  BY HeadFacts
<1>3. Told(func, pos, h, rest, typed, t)
  BY HeadTold
<1>4. /\ new[t.at].index = typed[t.at].index
      /\ new[t.at].ops = typed[t.at].ops \o <<Goto(t.target)>>
  BY <1>1 DEF SameBut
<1>5. Explained(func, pos, h, rest, new[t.at])
  <2> HIDE DEF new
  <2> QED BY <1>2, <1>3, <1>4, EndsWithGoto
<1> HIDE DEF new, w, g
<1>6. Telling(func, pos, h, rest, new, w)
  BY <1>1, <1>2, <1>5, InPlace
<1> QED BY <1>6 DEF new, w

(* The head is replaced by e, which keeps what the head promised. *)
LEMMA GoesOnTells ==
  ASSUME IndexInv, BlockInv, work # << >>, NEW t, t = Head(work),
         NEW h, NEW rest, Telling(func, pos, h, rest, typed, work),
         NEW os \in Seq(OwnCalls), NEW new, SameBut(t.at, typed, new, os),
         NEW e \in PendingEmission,
         e.at = t.at, e.target = t.target, e.arms = t.arms,
         t.arms # << >> => e.places[1] = t.places[1],
         Promised(e, h) \in Seq(Address),
         Promised(t, h) = Destroyed(os) \o Promised(e, h)
  PROVE  Telling(func, pos, h, rest, new, <<e>> \o Tail(work))
<1>1. Told(func, pos, h, rest, typed, t)
  BY HeadTold
<1>2. ArmsApart(t) /\ t.arms \in Seq(Arm)
  <2>1. t = work[1] /\ 1 \in DOMAIN work
    BY DEF IndexInv, TypeOK
  <2> QED BY <2>1, HeadFacts DEF BlockInv
<1>3. \A a \in DOMAIN t.arms : new[t.arms[a].at] = typed[t.arms[a].at]
  <2>1. \A a \in DOMAIN t.arms : t.arms[a].at \in DOMAIN typed
    BY HeadFacts DEF EmissionOK
  <2> QED BY <1>2, <2>1 DEF ArmsApart, SameBut
<1>4. t.arms = << >> => DOMAIN t.arms = {}
  OBVIOUS
<1>5. /\ new[t.at].index = typed[t.at].index
      /\ new[t.at].ops = typed[t.at].ops \o os
  BY DEF SameBut
<1>6. Told(func, pos, h, rest, new, e)
  <2>1. \A a \in DOMAIN t.arms : e.places[1] = t.places[1]
    BY <1>4
  <2>2. Succeeds(e, t, typed, new, os, h)
    BY <1>3, <1>5, <2>1 DEF Succeeds
  <2> QED BY <1>1, <2>2, TakesOver
<1>7. ~Ends(new[t.at].ops)
  <2>1. new[t.at].ops \in Seq(OwnCalls)
    BY <1>6 DEF Told
  <2> QED BY <2>1, OwnCallsEndNothing
<1> DEFINE g == <<e>>
           w == <<e>> \o Tail(work)
<1>8. /\ g \in Seq(PendingEmission) /\ w = g \o Tail(work)
      /\ \A j \in DOMAIN g : g[j] = e
  OBVIOUS
<1> HIDE DEF g, w
<1>9. Telling(func, pos, h, rest, new, w)
  BY <1>6, <1>7, <1>8, InPlace
<1> QED BY <1>9 DEF w

-----------------------------------------------------------------------------
(* The actions of the glue.                                                 *)

(* The value of an enum is one of its variants; what it owes is what the    *)
(* fields of that variant owe.                                              *)
LEMMA HeldVariant ==
  ASSUME NEW r, NEW h \in Rust!Values(r), NEW q \in Rust!PlacesIn(r), q \in Place
  PROVE  /\ Len(Variants[q.type]) > 1 =>
              /\ h[q.addr] \in DOMAIN Variants[q.type]
              /\ HeldParts(q, h) = FieldPlaces(q, h[q.addr])
         /\ Len(Variants[q.type]) = 1 => HeldParts(q, h) = FieldPlaces(q, 1)
<1>1. ASSUME Len(Variants[q.type]) > 1
      PROVE  h[q.addr] \in DOMAIN Variants[q.type]
  BY <1>1 DEF Rust!Values, Rust!EnumPlaces
<1>2. Len(Variants[q.type]) = 1 => 1 \in DOMAIN Variants[q.type]
  <2>1. q.type \in Type
    BY DEF Place
  <2>2. Variants[q.type] \in Seq(Seq(Type))
    BY <2>1, TypeTable
  <2> QED BY <2>2
<1> QED BY <1>1, <1>2 DEF HeldParts

(* The fields of a place of the drop belong to the drop. *)
LEMMA FieldsWithin ==
  ASSUME NEW f, NEW i, NEW p \in Place, NEW v \in DOMAIN Variants[p.type],
         Rust!PlacesIn(p) \subseteq Rust!PlacesIn(Root(f, i)), Known(p)
  PROVE  /\ FieldPlaces(p, v) \in Seq(Place)
         /\ \A j \in DOMAIN FieldPlaces(p, v) :
              /\ FieldPlaces(p, v)[j] \in Place
              /\ Known(FieldPlaces(p, v)[j])
              /\ Rust!PlacesIn(FieldPlaces(p, v)[j]) \subseteq Rust!PlacesIn(Root(f, i))
         /\ \A k, b : Within(f, i, Sequence(k, FieldPlaces(p, v), b))
<1>1. FieldPlaces(p, v) \in Seq(Place)
  BY FieldPlacesType
<1>2. \A j \in DOMAIN FieldPlaces(p, v) :
        /\ FieldPlaces(p, v)[j] \in Place
        /\ Known(FieldPlaces(p, v)[j])
        /\ Rust!PlacesIn(FieldPlaces(p, v)[j]) \subseteq Rust!PlacesIn(Root(f, i))
  BY FieldsInside, InsideOf
<1>3. \A k, b : Within(f, i, Sequence(k, FieldPlaces(p, v), b))
  <2> SUFFICES ASSUME NEW k, NEW b
               PROVE  Within(f, i, Sequence(k, FieldPlaces(p, v), b))
    OBVIOUS
  <2>1. /\ Sequence(k, FieldPlaces(p, v), b).kind = "sequence"
        /\ Sequence(k, FieldPlaces(p, v), b).places = FieldPlaces(p, v)
    BY PendingIs
  <2> QED BY <1>2, <2>1 DEF Within
<1> QED BY <1>1, <1>2, <1>3

(* Glue for a type that needs none: a goto, and nothing was owed.           *)
LEMMA GlueNotNeededHands ==
  ASSUME IndexInv, BlockInv, Underway, DropsKnown, GlueNotNeeded
  PROVE  Hand(<< >>)
<1> DEFINE t == Head(work)
           p == t.places[1]
           g == << >>
<1>1. /\ work # << >> /\ phase = "lifting" /\ t.kind = "glue"
      /\ ~MayNeedDropGlue[p.type]
      /\ typed' = Emit(typed, t.at, <<Goto(t.target)>>)
      /\ work' = Tail(work)
  BY DEF GlueNotNeeded, Running
<1>2. p \in Place /\ Known(p) /\ DOMAIN t.places = {1}
  BY <1>1, OwnPlaceIs
<1>3. Rust!Droppable(p) /\ \A h : Rust!Owed(p, h) = << >>
  BY <1>1, <1>2, NotNeeded
<1>4. Ahead(t)
  BY <1>1, <1>2, <1>3 DEF Ahead
<1>5. \A h : Promised(t, h) = << >>
  BY <1>1, <1>3, PromisedIs
<1>6. /\ g \in Seq(PendingEmission) /\ work' = g \o Tail(work)
      /\ DOMAIN g = {}
  BY <1>1, HeadFacts
<1> HIDE DEF t, p, g
<1>7. ASSUME NEW h, NEW rest, Telling(func, pos, h, rest, typed, work)
      PROVE  Telling(func, pos, h, rest, typed', work')
  BY <1>1, <1>5, <1>7, GotoTells DEF t
<1>8. Hand(g)
  BY <1>4, <1>6, <1>7 DEF Hand, t
<1> QED BY <1>8 DEF g

(* The end of a sequence: a goto, and nothing is left to destroy.           *)
LEMMA SequenceEmptyHands ==
  ASSUME IndexInv, BlockInv, Underway, DropsKnown, SequenceEmpty
  PROVE  Hand(<< >>)
<1> DEFINE t == Head(work)
           g == << >>
<1>1. /\ work # << >> /\ phase = "lifting" /\ t.kind = "sequence"
      /\ NoneNeeds(t.places)
      /\ typed' = Emit(typed, t.at, <<Goto(t.target)>>)
      /\ work' = Tail(work)
  BY DEF SequenceEmpty, Running
<1>2. t.places \in Seq(Place) /\ \A j \in DOMAIN t.places : t.places[j] \in Place /\ Known(t.places[j])
  BY <1>1, HeadFacts, HeadWithin
<1>3. \A j \in DOMAIN t.places :
        Rust!Droppable(t.places[j]) /\ \A h : Rust!Owed(t.places[j], h) = << >>
  BY <1>1, <1>2, NotNeeded DEF NoneNeeds
<1>4. Ahead(t)
  BY <1>1, <1>3 DEF Ahead
<1>5. ASSUME NEW h PROVE Promised(t, h) = << >>
  <2>1. \A j \in DOMAIN t.places : Rust!Owed(t.places[j], h) = << >>
    BY <1>3
  <2>2. OwedAll(t.places, h) = << >>
    BY <1>2, <2>1, OwedAllNothing
  <2> QED BY <1>1, <2>2, PromisedIs
<1>6. /\ g \in Seq(PendingEmission) /\ work' = g \o Tail(work)
      /\ DOMAIN g = {}
  BY <1>1, HeadFacts
<1> HIDE DEF t, g
<1>7. ASSUME NEW h, NEW rest, Telling(func, pos, h, rest, typed, work)
      PROVE  Telling(func, pos, h, rest, typed', work')
  BY <1>1, <1>5, <1>7, GotoTells DEF t
<1>8. Hand(g)
  BY <1>4, <1>6, <1>7 DEF Hand, t
<1> QED BY <1>8 DEF g

(* An enum none of whose variants needs glue: a goto.                       *)
LEMMA NoVariantBlocksHands ==
  ASSUME IndexInv, BlockInv, Underway, DropsKnown, NoVariantBlocks
  PROVE  Hand(<< >>)
<1> DEFINE t == Head(work)
           p == t.places[1]
           g == << >>
<1>1. /\ work # << >> /\ phase = "lifting" /\ t.kind = "variants"
      /\ t.next > Len(Variants[p.type]) /\ t.arms = << >>
      /\ typed' = Emit(typed, t.at, <<Goto(t.target)>>)
      /\ work' = Tail(work)
  BY DEF NoVariantBlocks, Running
<1>2. /\ p \in Place /\ Known(p) /\ DOMAIN t.places = {1}
      /\ Variants[p.type] \in Seq(Seq(Type))
      /\ Rust!PlacesIn(p) \subseteq Rust!PlacesIn(Root(func, pos))
      /\ t.next \in Nat
  BY <1>1, OwnPlaceIs, HeadFacts
<1>3. /\ Len(Variants[p.type]) > 1
      /\ \A v \in DOMAIN Variants[p.type] : v < t.next => ~VariantNeedsDrop(p.type, v)
  <2>1. DOMAIN t.arms = {}
    BY <1>1
  <2>2. Within(func, pos, t)
    BY <1>1, HeadWithin
  <2> QED BY <1>1, <2>1, <2>2 DEF Within
<1>4. \A v \in DOMAIN Variants[p.type] : v < t.next /\ ~(v >= t.next)
  <2>1. DOMAIN Variants[p.type] = 1..Len(Variants[p.type]) /\ Len(Variants[p.type]) \in Nat
    BY <1>2
  <2> QED BY <1>1, <1>2, <2>1
<1>5. Ahead(t)
  <2>1. DOMAIN t.arms = {}
    BY <1>1
  <2> QED BY <1>1, <1>4, <2>1 DEF Ahead
<1>6. ASSUME NEW h \in Rust!Values(Root(func, pos)) PROVE Promised(t, h) = << >>
  <2>1. p \in Rust!PlacesIn(Root(func, pos))
    BY <1>2, InsideOf
  <2> DEFINE v == h[p.addr]
  <2>2. v \in DOMAIN Variants[p.type] /\ HeldParts(p, h) = FieldPlaces(p, v)
    BY <1>2, <1>3, <2>1, HeldVariant
  <2> HIDE DEF v, p, t
  <2>3. \A j \in DOMAIN FieldPlaces(p, v) : ~MayNeedDropGlue[FieldPlaces(p, v)[j].type]
    BY <1>2, <1>3, <1>4, <2>2, VariantNotNeeded
  <2>4. /\ FieldPlaces(p, v) \in Seq(Place)
        /\ \A j \in DOMAIN FieldPlaces(p, v) :
             FieldPlaces(p, v)[j] \in Place /\ Known(FieldPlaces(p, v)[j])
    BY <1>2, <2>2, FieldsWithin
  <2>5. \A j \in DOMAIN FieldPlaces(p, v) : Rust!Owed(FieldPlaces(p, v)[j], h) = << >>
    BY <2>3, <2>4, NotNeeded
  <2>6. OwedAll(FieldPlaces(p, v), h) = << >>
    BY <2>4, <2>5, OwedAllNothing
  <2> QED BY <1>1, <2>2, <2>6, PromisedIs DEF p
<1>7. /\ g \in Seq(PendingEmission) /\ work' = g \o Tail(work)
      /\ DOMAIN g = {}
  BY <1>1, HeadFacts
<1> HIDE DEF t, p, g
<1>8. ASSUME NEW h \in Rust!Values(Root(func, pos)), NEW rest,
             Telling(func, pos, h, rest, typed, work)
      PROVE  Telling(func, pos, h, rest, typed', work')
  BY <1>1, <1>6, <1>8, GotoTells DEF t
<1>9. Hand(g)
  BY <1>5, <1>7, <1>8 DEF Hand, t
<1> QED BY <1>9 DEF g

(* Glue for a struct or a tuple: its own destructor, then its fields.       *)
LEMMA GlueOneShapeHands ==
  ASSUME IndexInv, BlockInv, Underway, DropsKnown, GlueOneShape
  PROVE  \E g : Hand(g)
<1> DEFINE t == Head(work)
           p == t.places[1]
           ps == FieldPlaces(p, 1)
           e == Sequence(t.at, ps, t.target)
           g == <<e>>
<1>1. /\ work # << >> /\ phase = "lifting" /\ t.kind = "glue"
      /\ MayNeedDropGlue[p.type]
      /\ Kind[p.type] \in {"tuple", "array", "adt"}
      /\ Len(Variants[p.type]) = 1
      /\ typed' = Emit(typed, t.at, OwnDrop(p))
      /\ work' = <<e>> \o Tail(work)
  BY DEF GlueOneShape, Running
<1>2. /\ p \in Place /\ Known(p) /\ DOMAIN t.places = {1}
      /\ Variants[p.type] \in Seq(Seq(Type))
      /\ Rust!PlacesIn(p) \subseteq Rust!PlacesIn(Root(func, pos))
  BY <1>1, OwnPlaceIs
<1>3. DOMAIN Variants[p.type] = {1}
  BY <1>1, <1>2
<1>4. /\ t.at \in Nat /\ t.target \in Nat /\ t.arms = << >>
  BY <1>1, HeadFacts DEF EmissionOK
<1>5. ps \in Seq(Place) /\ Within(func, pos, e)
  BY <1>2, <1>3, FieldsWithin
<1>6. /\ e \in PendingEmission /\ e.kind = "sequence" /\ e.at = t.at
      /\ e.places = ps /\ e.arms = << >> /\ e.target = t.target
  BY <1>4, <1>5, NewEmissions, PendingIs
<1> HIDE DEF e
<1>7. Ahead(e) => Ahead(t)
  <2> SUFFICES ASSUME Ahead(e) PROVE Rust!Droppable(p)
    BY <1>1, <1>2 DEF Ahead
  <2>1. \A j \in DOMAIN ps : Rust!Droppable(ps[j])
    BY <1>6 DEF Ahead
  <2>2. \A r \in Components(p) : Rust!Droppable(r)
    BY <1>3, <2>1 DEF Components, Range
  <2>3. Fine(p)
    <3>1. Kind[p.type] \notin {"opaque", "uninit"}
      BY <1>1
    <3>2. Variants[p.type] # << >>
      <4>1. Len(Variants[p.type]) # 0
        BY <1>1
      <4> QED BY <4>1
    <3> QED BY <3>1, <3>2 DEF Fine
  <2> QED BY <1>2, <2>2, <2>3, DroppableIs
<1>8. ASSUME NEW h \in Rust!Values(Root(func, pos)), NEW rest,
             Telling(func, pos, h, rest, typed, work)
      PROVE  Telling(func, pos, h, rest, typed', work')
  <2> DEFINE os == OwnDrop(p)
  <2>1. p \in Rust!PlacesIn(Root(func, pos))
    BY <1>2, InsideOf
  <2>2. HeldParts(p, h) = ps
    BY <1>1, <1>2, <2>1, HeldVariant
  <2>3. Rust!Owed(p, h) = OwnCall(p) \o OwedAll(ps, h)
    BY <1>1, <1>2, <2>2, NeededOwes
  <2>4. os \in Seq(OwnCalls) /\ os \in Seq(TypedOp) /\ Destroyed(os) = OwnCall(p)
    BY <1>1, <1>2, OwnDropDestroys, OwnDropFacts, NeededOwes
  <2> HIDE DEF os, t, p, ps
  <2>5. SameBut(t.at, typed, typed', os)
    BY <1>1, <2>4, EmitSame DEF t, os
  <2>6. Promised(t, h) = Destroyed(os) \o Promised(e, h) /\ Promised(e, h) \in Seq(Address)
    BY <1>1, <1>5, <1>6, <2>3, <2>4, PromisedIs, OwedAllType DEF p
  <2> QED BY <1>1, <1>4, <1>6, <1>8, <2>4, <2>5, <2>6, GoesOnTells DEF t
<1>9. /\ g \in Seq(PendingEmission) /\ work' = g \o Tail(work)
      /\ DOMAIN g = {1} /\ g[1] = e
  BY <1>1, <1>6
<1> HIDE DEF t, p, g, ps
<1>10. Hand(g)
  BY <1>5, <1>7, <1>8, <1>9 DEF Hand, t
<1> QED BY <1>10

(* Glue for an enum: its own destructor, then the dispatch over its         *)
(* variants.                                                                *)
LEMMA GlueEnumHands ==
  ASSUME IndexInv, BlockInv, Underway, DropsKnown, GlueEnum
  PROVE  \E g : Hand(g)
<1> DEFINE t == Head(work)
           p == t.places[1]
           e == Dispatch(t.at, p, << >>, 1, t.target)
           g == <<e>>
<1>1. /\ work # << >> /\ phase = "lifting" /\ t.kind = "glue"
      /\ MayNeedDropGlue[p.type]
      /\ Kind[p.type] = "adt"
      /\ Len(Variants[p.type]) > 1
      /\ typed' = Emit(typed, t.at, OwnDrop(p))
      /\ work' = <<e>> \o Tail(work)
  BY DEF GlueEnum, Running
<1>2. /\ p \in Place /\ Known(p) /\ DOMAIN t.places = {1}
      /\ Variants[p.type] \in Seq(Seq(Type))
      /\ Rust!PlacesIn(p) \subseteq Rust!PlacesIn(Root(func, pos))
  BY <1>1, OwnPlaceIs
<1>4. /\ t.at \in Nat /\ t.target \in Nat /\ t.arms = << >>
  BY <1>1, HeadFacts DEF EmissionOK
<1>6. /\ e \in PendingEmission /\ e.kind = "variants" /\ e.at = t.at
      /\ e.places = <<p>> /\ e.places[1] = p
      /\ e.arms = << >> /\ e.next = 1 /\ e.target = t.target
  <2>1. << >> \in Seq(Arm) /\ 1 \in Nat \ {0}
    OBVIOUS
  <2>2. e \in PendingEmission
    <3> HIDE DEF t, p
    <3> QED BY <1>2, <1>4, <2>1, NewEmissions
  <2> HIDE DEF t, p
  <2>3. /\ e.kind = "variants" /\ e.at = t.at
        /\ e.places = <<p>> /\ e.places[1] = p
        /\ e.arms = << >> /\ e.next = 1 /\ e.target = t.target
    BY PendingIs
  <2> QED BY <2>2, <2>3
<1> HIDE DEF e
<1>3. \A v \in DOMAIN Variants[p.type] : v >= 1 /\ ~(v < 1)
  BY <1>2
<1>5. Within(func, pos, e)
  <2>1. \A j \in DOMAIN e.places : Rust!PlacesIn(e.places[j]) \subseteq Rust!PlacesIn(Root(func, pos))
    BY <1>2, <1>6
  <2> HIDE DEF p
  <2> QED BY <1>1, <1>3, <1>6, <2>1 DEF Within
<1>7. Ahead(e) => Ahead(t)
  <2> SUFFICES ASSUME Ahead(e) PROVE Rust!Droppable(p)
    BY <1>1, <1>2 DEF Ahead
  <2>1. \A v \in DOMAIN Variants[p.type] : FieldsDroppable(p, v)
    <3> HIDE DEF p
    <3> QED BY <1>3, <1>6 DEF Ahead
  <2>2. \A r \in Components(p) : Rust!Droppable(r)
    BY <2>1 DEF Components, Range, FieldsDroppable
  <2>3. Fine(p)
    <3>1. Kind[p.type] \notin {"opaque", "uninit"}
      BY <1>1
    <3>2. Variants[p.type] # << >>
      <4>1. Len(Variants[p.type]) # 0
        BY <1>1
      <4> QED BY <4>1
    <3> QED BY <3>1, <3>2 DEF Fine
  <2> QED BY <1>2, <2>2, <2>3, DroppableIs
<1>8. ASSUME NEW h \in Rust!Values(Root(func, pos)), NEW rest,
             Telling(func, pos, h, rest, typed, work)
      PROVE  Telling(func, pos, h, rest, typed', work')
  <2> DEFINE os == OwnDrop(p)
             ps == HeldParts(p, h)
  <2>1. ps \in Seq(Place)
    BY <1>2, HeldPartsType
  <2>3. Rust!Owed(p, h) = OwnCall(p) \o OwedAll(ps, h)
    BY <1>1, <1>2, NeededOwes
  <2>4. os \in Seq(OwnCalls) /\ os \in Seq(TypedOp) /\ Destroyed(os) = OwnCall(p)
    BY <1>1, <1>2, OwnDropDestroys, OwnDropFacts, NeededOwes
  <2> HIDE DEF os, t, p
  <2>5. SameBut(t.at, typed, typed', os)
    BY <1>1, <2>4, EmitSame DEF t, os
  <2>7. Promised(e, h) = OwedAll(ps, h)
    BY <1>6, PromisedIs
  <2>8. Promised(t, h) = Rust!Owed(p, h)
    BY <1>1, PromisedIs DEF p
  <2> HIDE DEF ps
  <2>6. Promised(t, h) = Destroyed(os) \o Promised(e, h) /\ Promised(e, h) \in Seq(Address)
    BY <2>1, <2>3, <2>4, <2>7, <2>8, OwedAllType
  <2> QED BY <1>1, <1>4, <1>6, <1>8, <2>4, <2>5, <2>6, GoesOnTells DEF t
<1>9. /\ g \in Seq(PendingEmission) /\ work' = g \o Tail(work)
      /\ DOMAIN g = {1} /\ g[1] = e
  BY <1>1, <1>6
<1> HIDE DEF t, p, g
<1>10. Hand(g)
  BY <1>5, <1>7, <1>8, <1>9 DEF Hand, t
<1> QED BY <1>10

(* The first place of a sequence that needs glue: those before it owe       *)
(* nothing, so it comes first and the rest after it.                        *)
LEMMA FirstOf ==
  ASSUME NEW ps \in Seq(Place), \A j \in DOMAIN ps : Known(ps[j]),
         NEW i \in DOMAIN ps, FirstNeeding(ps, i),
         NEW rs, rs = SubSeq(ps, i + 1, Len(ps))
  PROVE  /\ rs \in Seq(Place)
         /\ \A j \in DOMAIN rs : \E k \in DOMAIN ps : rs[j] = ps[k]
         /\ \A h : OwedAll(ps, h) = Rust!Owed(ps[i], h) \o OwedAll(rs, h)
         /\ (\A j \in DOMAIN rs : Rust!Droppable(rs[j])) /\ Rust!Droppable(ps[i])
              => \A j \in DOMAIN ps : Rust!Droppable(ps[j])
<1> DEFINE n == Len(ps)
<1>1. /\ n \in Nat /\ i \in 1..n /\ DOMAIN ps = 1..n
      /\ \A j \in 1..n : ps[j] \in Place
  OBVIOUS
<1>2. /\ rs \in Seq(Place) /\ Len(rs) = n - i
      /\ \A j \in 1..(n - i) : rs[j] = ps[i + j]
  <2>1. \A j \in (i + 1)..n : ps[j] \in Place
    BY <1>1
  <2>2. i + 1 \in Int /\ n \in Int /\ rs = SubSeq(ps, i + 1, n)
    BY <1>1
  <2> HIDE DEF n
  <2>3. /\ rs \in Seq(Place)
        /\ Len(rs) = IF i + 1 <= n THEN n - (i + 1) + 1 ELSE 0
        /\ \A j \in 1..(n - (i + 1) + 1) : rs[j] = ps[(i + 1) + j - 1]
    BY <2>1, <2>2, SubSeqProperties
  <2>4. n - (i + 1) + 1 = n - i /\ (~(i + 1 <= n) => n - i = 0)
    BY <1>1
  <2>5. \A j \in 1..(n - i) : (i + 1) + j - 1 = i + j
    BY <1>1
  <2> QED BY <2>3, <2>4, <2>5
<1>3. \A j \in 1..(i - 1) : /\ j \in DOMAIN ps
                            /\ ~MayNeedDropGlue[ps[j].type]
  BY <1>1 DEF FirstNeeding
<1>4. \A j \in 1..(i - 1) : Rust!Droppable(ps[j]) /\ \A h : Rust!Owed(ps[j], h) = << >>
  <2>1. \A j \in 1..(i - 1) : ps[j] \in Place /\ Known(ps[j]) /\ ~MayNeedDropGlue[ps[j].type]
    BY <1>1, <1>3
  <2> QED BY <2>1, NotNeeded
<1>5. ASSUME NEW h PROVE OwedAll(ps, h) = Rust!Owed(ps[i], h) \o OwedAll(rs, h)
  <2>1. \A j \in 1..(i - 1) : Rust!Owed(ps[j], h) = << >>
    BY <1>4
  <2> QED BY <2>1, OwedAllSkips
<1> HIDE DEF n
<1>6. DOMAIN rs = 1..(n - i)
  <2>1. n - i \in Nat
    BY <1>1
  <2> QED BY <1>2, <2>1
<1>7. \A j \in DOMAIN rs : i + j \in DOMAIN ps
  BY <1>1, <1>6
<1>8. \A j \in DOMAIN rs : \E k \in DOMAIN ps : rs[j] = ps[k]
  BY <1>2, <1>6, <1>7
<1>9. ASSUME \A j \in DOMAIN rs : Rust!Droppable(rs[j]), Rust!Droppable(ps[i]),
             NEW j \in DOMAIN ps
      PROVE  Rust!Droppable(ps[j])
  <2>1. CASE j < i
    <3>1. j \in 1..(i - 1)
      BY <1>1, <2>1
    <3> QED BY <1>4, <3>1
  <2>2. CASE j = i
    BY <1>9, <2>2
  <2>3. CASE j > i
    <3>1. j - i \in 1..(n - i) /\ i + (j - i) = j
      BY <1>1, <2>3
    <3>2. rs[j - i] = ps[j]
      BY <1>2, <3>1
    <3> QED BY <1>6, <1>9, <3>1, <3>2
  <2>4. j \in Int /\ i \in Int
    BY <1>1
  <2> QED BY <2>1, <2>2, <2>3, <2>4
<1> QED BY <1>2, <1>5, <1>8, <1>9

(* The last place of a sequence that needs glue gets the target of the      *)
(* sequence for its own.                                                    *)
LEMMA SequenceLastHands ==
  ASSUME IndexInv, BlockInv, Underway, DropsKnown, SequenceLast
  PROVE  \E g : Hand(g)
<1> DEFINE t == Head(work)
<1>1. /\ work # << >> /\ phase = "lifting" /\ t.kind = "sequence"
      /\ UNCHANGED typed
  BY DEF SequenceLast, Running
<1>2. PICK i \in DOMAIN t.places :
        /\ FirstNeeding(t.places, i)
        /\ NoneNeeds(SubSeq(t.places, i + 1, Len(t.places)))
        /\ work' = <<Glue(t.at, t.places[i], t.target)>> \o Tail(work)
  BY DEF SequenceLast
<1> DEFINE ps == t.places
           p == ps[i]
           rs == SubSeq(ps, i + 1, Len(ps))
           e == Glue(t.at, p, t.target)
           g == <<e>>
<1>3. /\ ps \in Seq(Place) /\ \A j \in DOMAIN ps : ps[j] \in Place /\ Known(ps[j])
      /\ Within(func, pos, t)
  BY <1>1, HeadFacts, HeadWithin
<1>4. /\ t.at \in Nat /\ t.target \in Nat /\ t.arms = << >>
  BY <1>1, HeadFacts DEF EmissionOK
<1> HIDE DEF t
<1>5. /\ e \in PendingEmission /\ e.kind = "glue" /\ e.at = t.at
      /\ e.places = <<p>> /\ e.places[1] = p /\ e.arms = << >> /\ e.target = t.target
  <2>1. p \in Place
    BY <1>3
  <2> HIDE DEF p
  <2> QED BY <1>4, <2>1, NewEmissions, PendingIs
<1> HIDE DEF e, rs
<1>6. /\ rs \in Seq(Place)
      /\ \A j \in DOMAIN rs : \E k \in DOMAIN ps : rs[j] = ps[k]
      /\ \A h : OwedAll(ps, h) = Rust!Owed(p, h) \o OwedAll(rs, h)
      /\ (\A j \in DOMAIN rs : Rust!Droppable(rs[j])) /\ Rust!Droppable(p)
           => \A j \in DOMAIN ps : Rust!Droppable(ps[j])
  BY <1>2, <1>3, FirstOf DEF rs
<1>7. \A j \in DOMAIN rs : Rust!Droppable(rs[j]) /\ \A h : Rust!Owed(rs[j], h) = << >>
  <2>1. \A j \in DOMAIN rs : rs[j] \in Place /\ Known(rs[j]) /\ ~MayNeedDropGlue[rs[j].type]
    BY <1>2, <1>3, <1>6 DEF NoneNeeds, rs
  <2> QED BY <2>1, NotNeeded
<1>8. Within(func, pos, e)
  <2>1. \A j \in DOMAIN e.places : Rust!PlacesIn(e.places[j]) \subseteq Rust!PlacesIn(Root(func, pos))
    <3>1. Rust!PlacesIn(p) \subseteq Rust!PlacesIn(Root(func, pos))
      BY <1>3 DEF Within
    <3> HIDE DEF p
    <3> QED BY <1>5, <3>1
  <2> QED BY <1>5, <2>1 DEF Within
<1>9. Ahead(e) => Ahead(t)
  <2> SUFFICES ASSUME Ahead(e) PROVE \A j \in DOMAIN ps : Rust!Droppable(ps[j])
    BY <1>1 DEF Ahead
  <2>1. Rust!Droppable(p)
    <3> HIDE DEF p
    <3>1. 1 \in DOMAIN e.places
      BY <1>5
    <3> QED BY <1>5, <3>1 DEF Ahead
  <2> HIDE DEF p, ps
  <2> QED BY <1>6, <1>7, <2>1
<1>10. ASSUME NEW h \in Rust!Values(Root(func, pos)), NEW rest,
              Telling(func, pos, h, rest, typed, work)
       PROVE  Telling(func, pos, h, rest, typed', work')
  <2>1. OwedAll(rs, h) = << >>
    BY <1>6, <1>7, OwedAllNothing
  <2>2. Rust!Owed(p, h) \in Seq(Address)
    BY <1>3, OwedIs
  <2> HIDE DEF p, ps
  <2>3. OwedAll(ps, h) = Rust!Owed(p, h)
    <3>1. OwedAll(ps, h) = Rust!Owed(p, h) \o << >>
      BY <1>6, <2>1
    <3> QED BY <2>2, <3>1, ConcatEmptySeq
  <2>4. Promised(t, h) = OwedAll(ps, h) /\ Promised(e, h) = Rust!Owed(p, h)
    BY <1>1, <1>5, PromisedIs DEF ps
  <2>5. Promised(t, h) = Destroyed(<< >>) \o Promised(e, h) /\ Promised(e, h) \in Seq(Address)
    BY <2>2, <2>3, <2>4, DestroyedFacts, ConcatEmptySeq
  <2>6. SameBut(t.at, typed, typed', << >>)
    BY <1>1, NothingSame DEF t
  <2>7. << >> \in Seq(OwnCalls)
    BY DestroyedFacts
  <2>8. work' = <<e>> \o Tail(work)
    BY <1>2 DEF e, p, ps
  <2> QED BY <1>1, <1>4, <1>5, <1>10, <2>5, <2>6, <2>7, <2>8, GoesOnTells DEF t
<1>11. /\ g \in Seq(PendingEmission) /\ work' = g \o Tail(work)
       /\ DOMAIN g = {1} /\ g[1] = e
  BY <1>2, <1>5 DEF e
<1> HIDE DEF p, g, ps
<1>12. Hand(g)
  BY <1>8, <1>9, <1>10, <1>11 DEF Hand, t
<1> QED BY <1>12

(* A variant that needs no glue gets no block: the switch goes to the       *)
(* target by default, and nothing was owed.                                 *)
LEMMA VariantSkippedHands ==
  ASSUME IndexInv, BlockInv, Underway, DropsKnown, VariantSkipped
  PROVE  \E g : Hand(g)
<1> DEFINE t == Head(work)
           p == t.places[1]
           e == Dispatch(t.at, p, t.arms, t.next + 1, t.target)
           g == <<e>>
<1>1. /\ work # << >> /\ phase = "lifting" /\ t.kind = "variants"
      /\ t.next <= Len(Variants[p.type])
      /\ ~VariantNeedsDrop(p.type, t.next)
      /\ UNCHANGED typed
      /\ work' = <<e>> \o Tail(work)
  BY DEF VariantSkipped, Running
<1>2. /\ p \in Place /\ Known(p) /\ DOMAIN t.places = {1}
      /\ Variants[p.type] \in Seq(Seq(Type))
      /\ Rust!PlacesIn(p) \subseteq Rust!PlacesIn(Root(func, pos))
  BY <1>1, OwnPlaceIs
<1>3. /\ t.at \in Nat /\ t.target \in Nat /\ t.next \in Nat \ {0}
      /\ t.arms \in Seq(Arm) /\ Within(func, pos, t)
  BY <1>1, HeadFacts, HeadWithin
<1>4. t.next \in DOMAIN Variants[p.type]
  <2> HIDE DEF p, t
  <2> QED BY <1>1, <1>2, <1>3
<1>5. /\ e \in PendingEmission /\ e.kind = "variants" /\ e.at = t.at
      /\ e.places = <<p>> /\ e.places[1] = p
      /\ e.arms = t.arms /\ e.next = t.next + 1 /\ e.target = t.target
  <2> HIDE DEF t, p
  <2>1. t.next + 1 \in Nat \ {0}
    BY <1>3
  <2>2. e \in PendingEmission
    BY <1>2, <1>3, <2>1, NewEmissions
  <2>3. /\ e.kind = "variants" /\ e.at = t.at
        /\ e.places = <<p>> /\ e.places[1] = p
        /\ e.arms = t.arms /\ e.next = t.next + 1 /\ e.target = t.target
    BY PendingIs
  <2> QED BY <2>2, <2>3
<1> HIDE DEF e
<1>6. \A v \in DOMAIN Variants[p.type] :
        /\ v < t.next + 1 => v < t.next \/ v = t.next
        /\ v >= t.next => v >= t.next + 1 \/ v = t.next
  <2>1. \A v \in DOMAIN Variants[p.type] : v \in Nat
    BY <1>2
  <2> HIDE DEF p, t
  <2> QED BY <1>3, <2>1
<1>7. Within(func, pos, e)
  <2>1. \A j \in DOMAIN e.places : Rust!PlacesIn(e.places[j]) \subseteq Rust!PlacesIn(Root(func, pos))
    BY <1>2, <1>5
  <2>2. /\ Len(Variants[p.type]) > 1
        /\ \A v \in DOMAIN Variants[p.type] :
             v < t.next /\ VariantNeedsDrop(p.type, v)
               => \E a \in DOMAIN t.arms : t.arms[a].case + 1 = v
    BY <1>1, <1>3 DEF Within
  <2> HIDE DEF p, t
  <2> QED BY <1>1, <1>5, <1>6, <2>1, <2>2 DEF Within
<1>8. Ahead(e) => Ahead(t)
  <2> SUFFICES ASSUME Ahead(e) PROVE Ahead(t)
    OBVIOUS
  <2>1. FieldsDroppable(p, t.next)
    <3>1. \A j \in DOMAIN FieldPlaces(p, t.next) : ~MayNeedDropGlue[FieldPlaces(p, t.next)[j].type]
      BY <1>1, <1>2, <1>4, VariantNotNeeded
    <3>2. \A j \in DOMAIN FieldPlaces(p, t.next) :
            FieldPlaces(p, t.next)[j] \in Place /\ Known(FieldPlaces(p, t.next)[j])
      BY <1>2, <1>4, FieldsWithin
    <3> QED BY <3>1, <3>2, NotNeeded DEF FieldsDroppable
  <2>2. \A v \in DOMAIN Variants[p.type] :
          (v >= t.next + 1 \/ \E a \in DOMAIN t.arms : t.arms[a].case + 1 = v)
            => FieldsDroppable(p, v)
    BY <1>5 DEF Ahead
  <2>3. \A v \in DOMAIN Variants[p.type] :
          (v >= t.next \/ \E a \in DOMAIN t.arms : t.arms[a].case + 1 = v)
            => FieldsDroppable(p, v)
    <3> HIDE DEF p, t
    <3> QED BY <1>6, <2>1, <2>2
  <2> QED BY <1>1, <2>3 DEF Ahead
<1>9. ASSUME NEW h \in Rust!Values(Root(func, pos)), NEW rest,
             Telling(func, pos, h, rest, typed, work)
      PROVE  Telling(func, pos, h, rest, typed', work')
  <2>1. HeldParts(p, h) \in Seq(Place)
    BY <1>2, HeldPartsType
  <2> DEFINE x == OwedAll(HeldParts(p, h), h)
  <2>2. x \in Seq(Address)
    BY <2>1, OwedAllType
  <2>3. Promised(t, h) = x /\ Promised(e, h) = x
    BY <1>1, <1>5, PromisedIs
  <2> HIDE DEF x
  <2>4. Promised(t, h) = Destroyed(<< >>) \o Promised(e, h) /\ Promised(e, h) \in Seq(Address)
    BY <2>2, <2>3, DestroyedFacts, ConcatEmptySeq
  <2>5. SameBut(t.at, typed, typed', << >>)
    BY <1>1, NothingSame
  <2>6. << >> \in Seq(OwnCalls)
    BY DestroyedFacts
  <2>7. e.places[1] = t.places[1]
    BY <1>5
  <2> HIDE DEF p, t
  <2> QED BY <1>1, <1>3, <1>5, <1>9, <2>4, <2>5, <2>6, <2>7, GoesOnTells DEF t
<1>10. /\ g \in Seq(PendingEmission) /\ work' = g \o Tail(work)
       /\ DOMAIN g = {1} /\ g[1] = e
  BY <1>1, <1>5
<1> HIDE DEF t, p, g
<1>11. Hand(g)
  BY <1>7, <1>8, <1>9, <1>10 DEF Hand, t
<1> QED BY <1>11

(* The switch: the tag of the value the enum holds selects the block made   *)
(* for its variant, because the tags are the variant indices, and the       *)
(* default goes to the target when that variant has no block.               *)
LEMMA SwitchOnVariantHands ==
  ASSUME IndexInv, BlockInv, Underway, DropsKnown, SwitchOnVariant
  PROVE  \E g : Hand(g)
<1> DEFINE t == Head(work)
           p == t.places[1]
           o == SwitchTag(p, t.arms, t.target)
           fs(k) == FieldPlaces(p, t.arms[k].case + 1)
           e(k) == Sequence(t.arms[k].at, fs(k), t.target)
           g == [k \in DOMAIN t.arms |-> e(k)]
<1>1. /\ work # << >> /\ phase = "lifting" /\ t.kind = "variants"
      /\ t.next > Len(Variants[p.type])
      /\ typed' = Emit(typed, t.at, <<o>>)
      /\ work' = g \o Tail(work)
  BY DEF SwitchOnVariant, Running
<1>2. /\ p \in Place /\ Known(p) /\ DOMAIN t.places = {1}
      /\ Variants[p.type] \in Seq(Seq(Type))
      /\ Rust!PlacesIn(p) \subseteq Rust!PlacesIn(Root(func, pos))
  BY <1>1, OwnPlaceIs
<1>3. /\ t.at \in DOMAIN typed /\ t.target \in Nat /\ t.next \in Nat \ {0}
      /\ t.arms \in Seq(Arm) /\ Within(func, pos, t)
      /\ \A a \in DOMAIN t.arms : /\ t.arms[a].at \in DOMAIN typed
                                  /\ t.arms[a].case + 1 \in DOMAIN Variants[p.type]
  BY <1>1, HeadFacts, HeadWithin DEF EmissionOK
<1>4. \A a \in DOMAIN t.arms : t.arms[a] \in Arm
  BY <1>3
<1>5. \A a \in DOMAIN t.arms : /\ t.arms[a].at \in Nat /\ t.arms[a].index \in Nat
                               /\ t.arms[a].case \in Nat
  BY <1>4 DEF Arm
<1>6. /\ o.op = "switch_tag" /\ o.place = p /\ o.arms = t.arms /\ o.default = t.target
      /\ o \in TypedOp
  <2> HIDE DEF p, t
  <2>1. {t.target} \cup {t.arms[a].index : a \in DOMAIN t.arms} \in SUBSET Nat
    BY <1>3, <1>5
  <2> QED BY <1>2, <1>3, <2>1 DEF TypedOp, SwitchTag
<1> HIDE DEF o
<1>7. \A v \in DOMAIN Variants[p.type] : v \in Nat /\ v < t.next
  <2>1. DOMAIN Variants[p.type] = 1..Len(Variants[p.type]) /\ Len(Variants[p.type]) \in Nat
    BY <1>2
  <2>2. t.next > Len(Variants[p.type]) /\ t.next \in Nat
    BY <1>1, <1>3
  <2> HIDE DEF p, t
  <2> QED BY <2>1, <2>2
<1>8. /\ Len(Variants[p.type]) > 1
      /\ \A v \in DOMAIN Variants[p.type] :
           VariantNeedsDrop(p.type, v) => \E a \in DOMAIN t.arms : t.arms[a].case + 1 = v
  <2>1. /\ Len(Variants[p.type]) > 1
        /\ \A v \in DOMAIN Variants[p.type] :
             v < t.next /\ VariantNeedsDrop(p.type, v)
               => \E a \in DOMAIN t.arms : t.arms[a].case + 1 = v
    BY <1>1, <1>3 DEF Within
  <2> QED BY <1>7, <2>1
<1>9. ASSUME NEW k \in DOMAIN t.arms
      PROVE  /\ e(k) \in PendingEmission /\ Within(func, pos, e(k))
             /\ e(k).kind = "sequence" /\ e(k).at = t.arms[k].at
             /\ e(k).places = fs(k) /\ e(k).arms = << >> /\ e(k).target = t.target
             /\ fs(k) \in Seq(Place)
             /\ \A j \in DOMAIN fs(k) : fs(k)[j] \in Place /\ Known(fs(k)[j])
  <2> DEFINE v == t.arms[k].case + 1
  <2>1. v \in DOMAIN Variants[p.type] /\ t.arms[k].at \in Nat
    BY <1>3, <1>5
  <2>2. /\ FieldPlaces(p, v) \in Seq(Place)
        /\ \A j \in DOMAIN FieldPlaces(p, v) :
             FieldPlaces(p, v)[j] \in Place /\ Known(FieldPlaces(p, v)[j])
        /\ Within(func, pos, Sequence(t.arms[k].at, FieldPlaces(p, v), t.target))
    <3> HIDE DEF v, p, t
    <3> QED BY <1>2, <2>1, FieldsWithin
  <2>3. e(k) \in PendingEmission
    <3> HIDE DEF p, t
    <3> QED BY <1>3, <2>1, <2>2, NewEmissions
  <2> HIDE DEF p, t
  <2>4. /\ e(k).kind = "sequence" /\ e(k).at = t.arms[k].at
        /\ e(k).places = fs(k) /\ e(k).arms = << >> /\ e(k).target = t.target
    BY PendingIs
  <2> QED BY <2>2, <2>3, <2>4
<1>10. g \in Seq(PendingEmission) /\ DOMAIN g = DOMAIN t.arms
       /\ \A k \in DOMAIN g : g[k] = e(k)
  <2> HIDE DEF e, p, t
  <2>1. DOMAIN t.arms = 1..Len(t.arms) /\ Len(t.arms) \in Nat
    BY <1>3
  <2> QED BY <1>9, <2>1
<1> HIDE DEF g, fs, e
<1>11. (\A k \in DOMAIN g : Ahead(g[k])) => Ahead(t)
  <2> SUFFICES ASSUME \A k \in DOMAIN g : Ahead(g[k]),
                      NEW v \in DOMAIN Variants[p.type],
                      v >= t.next \/ \E a \in DOMAIN t.arms : t.arms[a].case + 1 = v
               PROVE  FieldsDroppable(p, v)
    BY <1>1 DEF Ahead
  <2>1. PICK a \in DOMAIN t.arms : t.arms[a].case + 1 = v
    BY <1>3, <1>7
  <2>2. Ahead(e(a)) /\ e(a).kind = "sequence" /\ e(a).places = FieldPlaces(p, v)
    BY <1>9, <1>10, <2>1 DEF fs
  <2> QED BY <2>2 DEF Ahead, FieldsDroppable
<1>12. ASSUME NEW h \in Rust!Values(Root(func, pos)), NEW rest,
              Telling(func, pos, h, rest, typed, work)
       PROVE  Telling(func, pos, h, rest, typed', work')
  <2> DEFINE v == h[p.addr]
             x == OwedAll(FieldPlaces(p, v), h)
  <2>1. p \in Rust!PlacesIn(Root(func, pos))
    BY <1>2, InsideOf
  <2>2. v \in DOMAIN Variants[p.type] /\ HeldParts(p, h) = FieldPlaces(p, v)
    BY <1>2, <1>8, <2>1, HeldVariant
  <2>3. TagOf(p, h) = v - 1
    <3>1. GlueKnows(p.type)
      BY <1>2, InsideOf DEF Known
    <3> QED BY <1>8, <2>2, <3>1 DEF GlueKnows, TagOf
  <2> HIDE DEF v
  <2>4. FieldPlaces(p, v) \in Seq(Place)
    BY <1>2, <2>2, FieldPlacesType
  <2>5. x \in Seq(Address) /\ Promised(t, h) = x
    <3>1. x \in Seq(Address)
      BY <2>4, OwedAllType
    <3>2. Promised(t, h) = x
      BY <1>1, <2>2, PromisedIs
    <3> QED BY <3>1, <3>2
  <2>6. Told(func, pos, h, rest, typed, t)
    BY <1>1, <1>12, HeadTold
  <2>7. ArmsApart(t)
    <3>1. t = work[1] /\ 1 \in DOMAIN work
      BY <1>1 DEF IndexInv, TypeOK
    <3> QED BY <3>1 DEF BlockInv
  <2>8. SameBut(t.at, typed, typed', <<o>>)
    <3>1. <<o>> \in Seq(TypedOp)
      BY <1>6
    <3> QED BY <1>1, <3>1, EmitSame
  <2> HIDE DEF p, t, x
  <2>9. PICK s \in Seq(Address) : ToldOf(func, pos, h, rest, typed, t, s)
    BY <2>6 DEF Told
  <2> DEFINE ops == typed[t.at].ops
  <2>10. /\ ops \in Seq(OwnCalls) /\ typed[t.at].index \in DOMAIN rest
         /\ Goes(func, pos, rest, t.target, s)
         /\ rest[typed[t.at].index] = Destroyed(ops) \o (x \o s)
    BY <2>5, <2>6, <2>9 DEF Told, ToldOf
  <2>11. ASSUME NEW a \in DOMAIN t.arms
         PROVE  /\ typed[t.arms[a].at].index = t.arms[a].index
                /\ typed[t.arms[a].at].ops = << >>
                /\ typed'[t.arms[a].at] = typed[t.arms[a].at]
                /\ t.arms[a].index \in DOMAIN rest \ MirIndices(func)
                /\ rest[t.arms[a].index] = OwedAll(fs(a), h) \o s
    <3>1. ArmTold(func, h, rest, typed, p, t.arms[a], s)
      BY <2>9 DEF ToldOf, p
    <3>2. t.arms[a].at \in DOMAIN typed /\ t.arms[a].at # t.at
      BY <1>3, <2>7 DEF ArmsApart
    <3>3. typed'[t.arms[a].at] = typed[t.arms[a].at]
      BY <2>8, <3>2 DEF SameBut
    <3> QED BY <3>1, <3>3 DEF ArmTold, fs
  <2>12. Explained(func, pos, h, rest, typed'[t.at])
    <3>1. typed'[t.at].ops = ops \o <<o>> /\ typed'[t.at].index = typed[t.at].index
      BY <2>8 DEF SameBut
    <3>2. ASSUME NEW a \in DOMAIN t.arms, t.arms[a].case = v - 1
          PROVE  Goes(func, pos, rest, t.arms[a].index, x \o s)
      <4>1. t.arms[a].case + 1 = v
        <5>1. v \in Nat /\ t.arms[a].case \in Nat
          BY <1>5, <1>7, <2>2
        <5> QED BY <3>2, <5>1
      <4>2. rest[t.arms[a].index] = x \o s
        BY <2>11, <4>1 DEF fs, x
      <4> QED BY <2>11, <4>2 DEF Goes
    <3>3. ASSUME \A a \in DOMAIN t.arms : t.arms[a].case # v - 1
          PROVE  Goes(func, pos, rest, t.target, x \o s)
      <4>1. \A a \in DOMAIN t.arms : t.arms[a].case + 1 # v
        <5>1. v \in Nat /\ \A a \in DOMAIN t.arms : t.arms[a].case \in Nat
          BY <1>5, <1>7, <2>2
        <5> QED BY <3>3, <5>1
      <4>2. ~VariantNeedsDrop(p.type, v)
        BY <1>8, <2>2, <4>1
      <4>3. \A j \in DOMAIN FieldPlaces(p, v) : ~MayNeedDropGlue[FieldPlaces(p, v)[j].type]
        BY <1>2, <2>2, <4>2, VariantNotNeeded
      <4>4. \A j \in DOMAIN FieldPlaces(p, v) :
              FieldPlaces(p, v)[j] \in Place /\ Known(FieldPlaces(p, v)[j])
        BY <1>2, <2>2, FieldsWithin
      <4>5. \A j \in DOMAIN FieldPlaces(p, v) : Rust!Owed(FieldPlaces(p, v)[j], h) = << >>
        BY <4>3, <4>4, NotNeeded
      <4>6. x = << >>
        BY <2>4, <4>5, OwedAllNothing DEF x
      <4>7. x \o s = s
        BY <4>6, ConcatEmptySeq
      <4> QED BY <2>10, <4>7
    <3>4. Ending(func, pos, h, rest, o, x \o s)
      BY <1>6, <2>3, <3>2, <3>3 DEF Ending
    <3>5. x \o s \in Seq(Address)
      BY <2>5
    <3>6. rest[typed'[t.at].index] = Destroyed(ops) \o (x \o s)
      BY <2>10, <3>1
    <3> QED BY <1>6, <2>10, <3>1, <3>4, <3>5, <3>6 DEF Explained
  <2>13. ASSUME NEW k \in DOMAIN g
         PROVE  Told(func, pos, h, rest, typed', g[k])
    <3>1. k \in DOMAIN t.arms /\ g[k] = e(k)
      BY <1>10
    <3> DEFINE b == typed'[e(k).at]
               y == OwedAll(fs(k), h)
    <3>2. /\ e(k).kind = "sequence" /\ e(k).at = t.arms[k].at
          /\ e(k).places = fs(k) /\ e(k).arms = << >> /\ e(k).target = t.target
          /\ fs(k) \in Seq(Place)
      BY <1>9, <3>1
    <3>3. /\ b.index = t.arms[k].index /\ b.ops = << >>
          /\ t.arms[k].index \in DOMAIN rest
          /\ rest[t.arms[k].index] = y \o s
      BY <2>11, <3>1, <3>2
    <3>4. Promised(e(k), h) = y /\ y \in Seq(Address)
      BY <3>2, PromisedIs, OwedAllType
    <3> HIDE DEF b, y
    <3>5. Destroyed(b.ops) \o (Promised(e(k), h) \o s) = y \o s
      <4>1. y \o s \in Seq(Address)
        BY <3>4
      <4>2. Destroyed(b.ops) = << >>
        BY <3>3, DestroyedFacts
      <4> QED BY <3>4, <4>1, <4>2, ConcatEmptySeq
    <3>6. \A a \in DOMAIN e(k).arms :
            ArmTold(func, h, rest, typed', e(k).places[1], e(k).arms[a], s)
      <4>1. DOMAIN e(k).arms = {}
        BY <3>2
      <4> QED BY <4>1
    <3>7. ToldOf(func, pos, h, rest, typed', e(k), s)
      BY <2>10, <3>2, <3>3, <3>5, <3>6 DEF ToldOf, b
    <3>8. b.ops \in Seq(OwnCalls) /\ b.index \in DOMAIN rest
      BY <3>3, DestroyedFacts
    <3>9. Told(func, pos, h, rest, typed', e(k))
      BY <3>7, <3>8 DEF Told, b
    <3> QED BY <3>1, <3>9
  <2> QED BY <1>1, <1>10, <1>12, <2>8, <2>12, <2>13, InPlace DEF t
<1>13. \A k \in DOMAIN g : Within(func, pos, g[k])
  BY <1>9, <1>10
<1> HIDE DEF t, p
<1>14. Hand(g)
  BY <1>1, <1>10, <1>11, <1>12, <1>13 DEF Hand, t
<1> QED BY <1>14

-----------------------------------------------------------------------------
(* The actions that create a block.                                         *)

(* The plan rest, and x for the new block n.                                *)
Grown(rest, n, x) ==
  [b \in DOMAIN rest \cup {n} |-> IF b = n THEN x ELSE rest[b]]

(* A new synthetic block is in nobody's plan, so what it is to destroy can  *)
(* be added to the plan.                                                    *)
LEMMA GrownTells ==
  ASSUME IndexInv, work # << >>, phase = "lifting", typed' = Synthetic(typed),
         pos \in DOMAIN func, NEW h, NEW rest,
         Telling(func, pos, h, rest, typed, work), NEW x \in Seq(Address),
         NEW n, n = nextSynthetic, NEW more, more = Grown(rest, n, x)
  PROVE  /\ n \in DOMAIN more \ MirIndices(func) /\ more[n] = x
         /\ \A k \in DOMAIN typed : typed[k].index # n
         /\ Extends(rest, more)
         /\ Plan(func, pos, h, more)
         /\ DOMAIN more \subseteq IndicesOf(typed')
         /\ \A k \in DOMAIN typed : typed[k].index \notin DOMAIN more \ DOMAIN rest
<1>1. /\ DOMAIN more = DOMAIN rest \cup {n}
      /\ \A b \in DOMAIN more : more[b] = IF b = n THEN x ELSE rest[b]
  BY DEF Grown
<1>2. /\ typed \in Seq(TypedBlock) /\ nextSynthetic \in Nat
      /\ func \in Funcs
  BY DEF IndexInv, TypeOK
<1>3. \A k \in DOMAIN typed : typed[k].index # n
  <2>1. \A k \in DOMAIN typed : typed[k] \in TypedBlock
    BY <1>2
  <2>2. \A k \in DOMAIN typed : typed[k].index \in Nat
    BY <2>1 DEF TypedBlock
  <2>3. \A k \in DOMAIN typed : typed[k].index < nextSynthetic
    BY DEF IndexInv, CounterAbove
  <2> QED BY <1>2, <2>2, <2>3
<1>4. n \notin MirIndices(func)
  <2>1. \A i \in DOMAIN func : func[i].index \in Nat /\ func[i].index < nextSynthetic
    <3>1. DOMAIN func = 1..Len(func)
      BY <1>2, BodyFacts
    <3>2. \A i \in 1..Len(func) : func[i].index < nextSynthetic
      BY DEF IndexInv, CounterAbove
    <3>3. \A i \in DOMAIN func : func[i].index \in Nat
      BY <1>2, BodyFacts
    <3> QED BY <3>1, <3>2, <3>3
  <2> QED BY <1>2, <2>1 DEF MirIndices
<1>5. DOMAIN rest \subseteq IndicesOf(typed) /\ Plan(func, pos, h, rest)
  BY DEF Telling
<1>6. n \notin DOMAIN rest
  BY <1>3, <1>5 DEF IndicesOf
<1>7. Extends(rest, more)
  BY <1>1, <1>6 DEF Extends
<1>8. Plan(func, pos, h, more)
  <2>1. more \in [DOMAIN more -> Seq(Address)]
    <3>1. \A b \in DOMAIN rest : rest[b] \in Seq(Address)
      BY <1>5 DEF Plan
    <3>2. \A b \in DOMAIN more : more[b] \in Seq(Address)
      BY <1>1, <3>1
    <3> QED BY <3>2 DEF Grown
  <2>2. /\ func[pos].index \in DOMAIN rest
        /\ rest[func[pos].index] = Rust!Owed(Root(func, pos), h)
        /\ DOMAIN rest \cap MirIndices(func) \subseteq {func[pos].index}
    BY <1>5 DEF Plan
  <2> QED BY <1>1, <1>4, <1>6, <2>1, <2>2 DEF Plan
<1>9. DOMAIN more \subseteq IndicesOf(typed')
  <2>1. /\ DOMAIN typed' = DOMAIN typed \cup {Len(typed) + 1}
        /\ \A j \in DOMAIN typed : typed'[j] = typed[j]
        /\ typed'[Len(typed) + 1].index = nextSynthetic
    BY <1>2, SyntheticBlock
  <2>2. IndicesOf(typed) \cup {n} \subseteq IndicesOf(typed')
    BY <2>1 DEF IndicesOf
  <2> QED BY <1>1, <1>5, <2>2
<1>10. \A k \in DOMAIN typed : typed[k].index \notin DOMAIN more \ DOMAIN rest
  BY <1>1, <1>3
<1> QED BY <1>1, <1>3, <1>4, <1>7, <1>8, <1>9, <1>10

(* A place of a sequence with places after it that need glue: it goes on to *)
(* a new block, which destroys those.                                       *)
LEMMA SequenceNextHands ==
  ASSUME IndexInv, BlockInv, Underway, DropsKnown, SequenceNext
  PROVE  \E g : Hand(g)
<1> DEFINE t == Head(work)
           n == nextSynthetic
           m == Len(typed) + 1
<1>1. /\ work # << >> /\ phase = "lifting" /\ t.kind = "sequence"
      /\ typed' = Synthetic(typed)
  BY DEF SequenceNext, Running
<1>2. PICK i \in DOMAIN t.places :
        /\ FirstNeeding(t.places, i)
        /\ work' = <<Glue(t.at, t.places[i], n),
                     Sequence(m, SubSeq(t.places, i + 1, Len(t.places)), t.target)>>
                     \o Tail(work)
  BY DEF SequenceNext
<1> DEFINE ps == t.places
           p == ps[i]
           rs == SubSeq(ps, i + 1, Len(ps))
           e == Glue(t.at, p, n)
           d == Sequence(m, rs, t.target)
           g == <<e, d>>
<1>3. /\ ps \in Seq(Place) /\ \A j \in DOMAIN ps : ps[j] \in Place /\ Known(ps[j])
      /\ Within(func, pos, t) /\ pos \in DOMAIN func
  BY <1>1, HeadFacts, HeadWithin
<1>4. /\ t.at \in Nat /\ t.at \in DOMAIN typed /\ t.target \in Nat /\ t.arms = << >>
  BY <1>1, HeadFacts DEF EmissionOK
<1>a. n \in Nat /\ m \in Nat /\ m \notin DOMAIN typed /\ typed \in Seq(TypedBlock)
  <2>1. n \in Nat /\ typed \in Seq(TypedBlock)
    BY DEF IndexInv, TypeOK
  <2>2. DOMAIN typed = 1..Len(typed) /\ Len(typed) \in Nat
    BY <2>1
  <2> QED BY <2>1, <2>2
<1>b. /\ DOMAIN typed' = DOMAIN typed \cup {m}
      /\ \A j \in DOMAIN typed : typed'[j] = typed[j]
      /\ typed'[m].index = n /\ typed'[m].ops = << >>
  BY <1>1, <1>a, SyntheticBlock
<1> HIDE DEF t, n, m, rs
<1>6. /\ rs \in Seq(Place)
      /\ \A j \in DOMAIN rs : \E k \in DOMAIN ps : rs[j] = ps[k]
      /\ \A h : OwedAll(ps, h) = Rust!Owed(p, h) \o OwedAll(rs, h)
      /\ (\A j \in DOMAIN rs : Rust!Droppable(rs[j])) /\ Rust!Droppable(p)
           => \A j \in DOMAIN ps : Rust!Droppable(ps[j])
  BY <1>2, <1>3, FirstOf DEF rs
<1>5. /\ e \in PendingEmission /\ e.kind = "glue" /\ e.at = t.at
      /\ e.places = <<p>> /\ e.places[1] = p /\ e.arms = << >> /\ e.target = n
  <2>1. p \in Place
    BY <1>3
  <2> HIDE DEF p
  <2> QED BY <1>4, <1>a, <2>1, NewEmissions, PendingIs
<1>7. /\ d \in PendingEmission /\ d.kind = "sequence" /\ d.at = m
      /\ d.places = rs /\ d.arms = << >> /\ d.target = t.target
  BY <1>4, <1>6, <1>a, NewEmissions, PendingIs
<1> HIDE DEF e, d
<1>8. Within(func, pos, e)
  <2>1. \A j \in DOMAIN e.places : Rust!PlacesIn(e.places[j]) \subseteq Rust!PlacesIn(Root(func, pos))
    <3>1. Rust!PlacesIn(p) \subseteq Rust!PlacesIn(Root(func, pos))
      BY <1>3 DEF Within
    <3> HIDE DEF p
    <3> QED BY <1>5, <3>1
  <2> QED BY <1>5, <2>1 DEF Within
<1>9. Within(func, pos, d)
  <2>1. \A j \in DOMAIN d.places : Rust!PlacesIn(d.places[j]) \subseteq Rust!PlacesIn(Root(func, pos))
    BY <1>3, <1>6, <1>7 DEF Within
  <2> QED BY <1>7, <2>1 DEF Within
<1>10. Ahead(e) /\ Ahead(d) => Ahead(t)
  <2> SUFFICES ASSUME Ahead(e), Ahead(d) PROVE \A j \in DOMAIN ps : Rust!Droppable(ps[j])
    BY <1>1 DEF Ahead
  <2>1. Rust!Droppable(p)
    <3> HIDE DEF p
    <3>1. 1 \in DOMAIN e.places
      BY <1>5
    <3> QED BY <1>5, <3>1 DEF Ahead
  <2>2. \A j \in DOMAIN rs : Rust!Droppable(rs[j])
    BY <1>7 DEF Ahead
  <2> HIDE DEF p, ps
  <2> QED BY <1>6, <2>1, <2>2
<1>11. /\ g \in Seq(PendingEmission) /\ work' = g \o Tail(work)
       /\ DOMAIN g = {1, 2} /\ g[1] = e /\ g[2] = d
  BY <1>2, <1>5, <1>7 DEF e, d, rs
<1> HIDE DEF g
<1>12. ASSUME NEW h \in Rust!Values(Root(func, pos)), NEW rest,
              Telling(func, pos, h, rest, typed, work)
       PROVE  \E more : Telling(func, pos, h, more, typed', work')
  <2>1. Told(func, pos, h, rest, typed, t)
    BY <1>1, <1>12, HeadTold DEF t
  <2>2. PICK s \in Seq(Address) : ToldOf(func, pos, h, rest, typed, t, s)
    BY <2>1 DEF Told
  <2> DEFINE x == OwedAll(rs, h) \o s
             more == Grown(rest, n, x)
             ops == typed[t.at].ops
  <2>3. /\ OwedAll(rs, h) \in Seq(Address) /\ Rust!Owed(p, h) \in Seq(Address)
        /\ x \in Seq(Address)
    <3>1. OwedAll(rs, h) \in Seq(Address)
      BY <1>6, OwedAllType
    <3>2. p \in Place
      BY <1>3
    <3>3. Rust!Owed(p, h) \in Seq(Address)
      <4> HIDE DEF p
      <4> QED BY <3>2, OwedIs
    <3> QED BY <2>2, <3>1, <3>3
  <2>4. /\ Goes(func, pos, rest, t.target, s)
        /\ rest[typed[t.at].index] = Destroyed(ops) \o (OwedAll(ps, h) \o s)
        /\ ops \in Seq(OwnCalls) /\ typed[t.at].index \in DOMAIN rest
    <3>1. Promised(t, h) = OwedAll(ps, h)
      BY <1>1, PromisedIs
    <3> QED BY <2>1, <2>2, <3>1 DEF Told, ToldOf
  <2>5. OwedAll(ps, h) \o s = Rust!Owed(p, h) \o x
    <3>1. Associates(Address)
      BY ConcatAssociates, Zenon
    <3>2. OwedAll(ps, h) = Rust!Owed(p, h) \o OwedAll(rs, h)
      BY <1>6
    <3> HIDE DEF p, ps
    <3> QED BY <2>2, <2>3, <3>1, <3>2 DEF Associates
  <2> HIDE DEF x, more, ops
  <2>6. /\ n \in DOMAIN more \ MirIndices(func) /\ more[n] = x
        /\ Extends(rest, more)
        /\ Plan(func, pos, h, more)
        /\ DOMAIN more \subseteq IndicesOf(typed')
        /\ \A k \in DOMAIN typed : typed[k].index \notin DOMAIN more \ DOMAIN rest
    BY <1>1, <1>3, <1>12, <2>3, GrownTells DEF more, n
  <2>7. Told(func, pos, h, more, typed', e)
    <3>1. Goes(func, pos, more, e.target, x)
      BY <1>5, <2>6 DEF Goes
    <3>2. Promised(e, h) = Rust!Owed(p, h)
      BY <1>5, PromisedIs
    <3>3. typed'[e.at] = typed[t.at]
      BY <1>4, <1>5, <1>b
    <3> HIDE DEF p, ps
    <3>4. more[typed[t.at].index] = Destroyed(ops) \o (Promised(e, h) \o x)
      BY <2>4, <2>5, <2>6, <3>2 DEF Extends
    <3>5. DOMAIN e.arms = {}
      BY <1>5
    <3>6. ToldOf(func, pos, h, more, typed', e, x)
      BY <3>1, <3>3, <3>4, <3>5 DEF ToldOf, ops
    <3>7. typed'[e.at].ops \in Seq(OwnCalls) /\ typed'[e.at].index \in DOMAIN more
      BY <2>4, <2>6, <3>3 DEF ops, Extends
    <3> QED BY <2>3, <3>6, <3>7 DEF Told
  <2>8. Told(func, pos, h, more, typed', d)
    <3>1. Goes(func, pos, more, d.target, s)
      BY <1>7, <2>4, <2>6, GoesOnTo
    <3>2. Promised(d, h) = OwedAll(rs, h)
      BY <1>7, PromisedIs
    <3>3. typed'[d.at].index = n /\ typed'[d.at].ops = << >>
      BY <1>7, <1>b
    <3>4. more[n] = Destroyed(<< >>) \o (Promised(d, h) \o s)
      BY <2>3, <2>6, <3>2, DestroyedFacts, ConcatEmptySeq DEF x
    <3>5. DOMAIN d.arms = {}
      BY <1>7
    <3>6. ToldOf(func, pos, h, more, typed', d, s)
      BY <3>1, <3>3, <3>4, <3>5 DEF ToldOf
    <3>7. typed'[d.at].ops \in Seq(OwnCalls) /\ typed'[d.at].index \in DOMAIN more
      BY <2>6, <3>3, DestroyedFacts
    <3> QED BY <3>6, <3>7 DEF Told
  <2>9. \A j \in DOMAIN g : Told(func, pos, h, more, typed', g[j])
    BY <1>11, <2>7, <2>8
  <2>10. ~Ends(typed'[t.at].ops)
    <3>1. typed'[t.at].ops = ops
      BY <1>4, <1>b DEF ops
    <3> QED BY <2>4, <3>1, OwnCallsEndNothing
  <2>11. \A k \in DOMAIN typed' \ DOMAIN typed : ~Ends(typed'[k].ops)
    <3>1. typed'[m].ops \in Seq(OwnCalls)
      BY <1>b, DestroyedFacts
    <3> QED BY <1>b, <3>1, OwnCallsEndNothing
  <2>12. Telling(func, pos, h, more, typed', work')
    <3>1. typed'[t.at].index = typed[t.at].index
      BY <1>4, <1>b
    <3>2. \A j \in DOMAIN typed \ {t.at} : typed'[j] = typed[j]
      BY <1>b
    <3>3. DOMAIN typed \subseteq DOMAIN typed'
      BY <1>b
    <3>4. t = Head(work)
      BY DEF t
    <3> QED BY <1>1, <1>11, <1>12, <2>6, <2>9, <2>10, <2>11, <3>1, <3>2, <3>3, <3>4, HandsOver
  <2> QED BY <2>12
<1>13. Hand(g)
  <2>1. \A j \in DOMAIN g : Within(func, pos, g[j])
    BY <1>8, <1>9, <1>11
  <2>2. (\A j \in DOMAIN g : Ahead(g[j])) => Ahead(t)
    BY <1>10, <1>11
  <2> HIDE DEF p, ps
  <2> QED BY <1>11, <1>12, <2>1, <2>2 DEF Hand, t
<1> QED BY <1>13

(* A variant that needs glue gets a new block, which destroys its fields.   *)
LEMMA VariantBlockHands ==
  ASSUME IndexInv, BlockInv, Underway, DropsKnown, VariantBlock
  PROVE  \E g : Hand(g)
<1> DEFINE t == Head(work)
           p == t.places[1]
           n == nextSynthetic
           m == Len(typed) + 1
           arm == [case |-> t.next - 1, index |-> n, at |-> m]
           arms == Append(t.arms, arm)
           e == Dispatch(t.at, p, arms, t.next + 1, t.target)
           g == <<e>>
<1>1. /\ work # << >> /\ phase = "lifting" /\ t.kind = "variants"
      /\ t.next <= Len(Variants[p.type])
      /\ typed' = Synthetic(typed)
      /\ work' = <<e>> \o Tail(work)
  BY DEF VariantBlock, Running
<1>2. /\ p \in Place /\ Known(p) /\ DOMAIN t.places = {1}
      /\ Variants[p.type] \in Seq(Seq(Type))
      /\ Rust!PlacesIn(p) \subseteq Rust!PlacesIn(Root(func, pos))
  BY <1>1, OwnPlaceIs
<1>3. /\ t.at \in Nat /\ t.at \in DOMAIN typed /\ t.target \in Nat /\ t.next \in Nat \ {0}
      /\ t.arms \in Seq(Arm) /\ Within(func, pos, t) /\ pos \in DOMAIN func
      /\ \A a \in DOMAIN t.arms : t.arms[a].at \in DOMAIN typed
  BY <1>1, HeadFacts, HeadWithin DEF EmissionOK
<1>4. t.next \in DOMAIN Variants[p.type]
  <2> HIDE DEF p, t
  <2> QED BY <1>1, <1>2, <1>3
<1>a. n \in Nat /\ m \in Nat /\ m \notin DOMAIN typed /\ typed \in Seq(TypedBlock)
  <2>1. n \in Nat /\ typed \in Seq(TypedBlock)
    BY DEF IndexInv, TypeOK
  <2>2. DOMAIN typed = 1..Len(typed) /\ Len(typed) \in Nat
    BY <2>1
  <2> QED BY <2>1, <2>2
<1>b. /\ DOMAIN typed' = DOMAIN typed \cup {m}
      /\ \A j \in DOMAIN typed : typed'[j] = typed[j]
      /\ typed'[m].index = n /\ typed'[m].ops = << >>
  BY <1>1, <1>a, SyntheticBlock
<1>c. arm \in Arm /\ arm.case = t.next - 1 /\ arm.index = n /\ arm.at = m
      /\ arm.case + 1 = t.next
  <2> HIDE DEF t, n, m
  <2>1. t.next - 1 \in Nat /\ (t.next - 1) + 1 = t.next
    BY <1>3
  <2> QED BY <1>a, <2>1 DEF Arm
<1> HIDE DEF arm, m
<1>d. /\ arms \in Seq(Arm) /\ DOMAIN arms = DOMAIN t.arms \cup {Len(t.arms) + 1}
      /\ \A a \in DOMAIN t.arms : arms[a] = t.arms[a]
      /\ arms[Len(t.arms) + 1] = arm
  <2> HIDE DEF t
  <2>1. t.arms \in Seq(Arm)
    BY <1>3
  <2> QED BY <1>c, <2>1
<1> HIDE DEF arms
<1>5. /\ e \in PendingEmission /\ e.kind = "variants" /\ e.at = t.at
      /\ e.places = <<p>> /\ e.places[1] = p
      /\ e.arms = arms /\ e.next = t.next + 1 /\ e.target = t.target
  <2> HIDE DEF t, p
  <2>1. t.next + 1 \in Nat \ {0}
    BY <1>3
  <2>2. e \in PendingEmission
    BY <1>2, <1>3, <1>d, <2>1, NewEmissions
  <2>3. /\ e.kind = "variants" /\ e.at = t.at
        /\ e.places = <<p>> /\ e.places[1] = p
        /\ e.arms = arms /\ e.next = t.next + 1 /\ e.target = t.target
    BY PendingIs
  <2> QED BY <2>2, <2>3
<1> HIDE DEF e
<1>6. \A v \in DOMAIN Variants[p.type] :
        v < t.next + 1 => v < t.next \/ v = t.next
  <2>1. \A v \in DOMAIN Variants[p.type] : v \in Nat
    BY <1>2
  <2> HIDE DEF p, t
  <2> QED BY <1>3, <2>1
<1>e. \A v : (\E a \in DOMAIN arms : arms[a].case + 1 = v)
               <=> v = t.next \/ \E a \in DOMAIN t.arms : t.arms[a].case + 1 = v
  <2> HIDE DEF t
  <2> QED BY <1>c, <1>d
<1>7. Within(func, pos, e)
  <2>1. \A j \in DOMAIN e.places : Rust!PlacesIn(e.places[j]) \subseteq Rust!PlacesIn(Root(func, pos))
    BY <1>2, <1>5
  <2>2. /\ Len(Variants[p.type]) > 1
        /\ \A v \in DOMAIN Variants[p.type] :
             v < t.next /\ VariantNeedsDrop(p.type, v)
               => \E a \in DOMAIN t.arms : t.arms[a].case + 1 = v
    BY <1>1, <1>3 DEF Within
  <2> HIDE DEF p, t
  <2> QED BY <1>5, <1>6, <1>e, <2>1, <2>2 DEF Within
<1>8. Ahead(e) => Ahead(t)
  <2> SUFFICES ASSUME Ahead(e) PROVE Ahead(t)
    OBVIOUS
  <2>1. \A v \in DOMAIN Variants[p.type] :
          (v >= t.next + 1 \/ \E a \in DOMAIN arms : arms[a].case + 1 = v)
            => FieldsDroppable(p, v)
    BY <1>5 DEF Ahead
  <2>2. \A v \in DOMAIN Variants[p.type] : v >= t.next => v >= t.next + 1 \/ v = t.next
    <3>1. \A v \in DOMAIN Variants[p.type] : v \in Nat
      BY <1>2
    <3> HIDE DEF p, t
    <3> QED BY <1>3, <3>1
  <2>3. \A v \in DOMAIN Variants[p.type] :
          (v >= t.next \/ \E a \in DOMAIN t.arms : t.arms[a].case + 1 = v)
            => FieldsDroppable(p, v)
    <3> HIDE DEF p, t
    <3> QED BY <1>e, <2>1, <2>2
  <2> QED BY <1>1, <2>3 DEF Ahead
<1>9. ASSUME NEW h \in Rust!Values(Root(func, pos)), NEW rest,
             Telling(func, pos, h, rest, typed, work)
      PROVE  \E more : Telling(func, pos, h, more, typed', work')
  <2>1. Told(func, pos, h, rest, typed, t)
    BY <1>1, <1>9, HeadTold
  <2>2. PICK s \in Seq(Address) : ToldOf(func, pos, h, rest, typed, t, s)
    BY <2>1 DEF Told
  <2>3. FieldPlaces(p, t.next) \in Seq(Place)
    BY <1>2, <1>4, FieldPlacesType
  <2> DEFINE x == OwedAll(FieldPlaces(p, t.next), h) \o s
             more == Grown(rest, n, x)
  <2>4. x \in Seq(Address)
    <3>1. OwedAll(FieldPlaces(p, t.next), h) \in Seq(Address)
      BY <2>3, OwedAllType
    <3> QED BY <2>2, <3>1
  <2> HIDE DEF x, more
  <2>5. /\ n \in DOMAIN more \ MirIndices(func) /\ more[n] = x
        /\ Extends(rest, more)
        /\ Plan(func, pos, h, more)
        /\ DOMAIN more \subseteq IndicesOf(typed')
        /\ \A k \in DOMAIN typed : typed[k].index \notin DOMAIN more \ DOMAIN rest
    BY <1>1, <1>3, <1>9, <2>4, GrownTells DEF more
  <2>6. Promised(e, h) = Promised(t, h)
    BY <1>1, <1>5, PromisedIs
  <2> DEFINE ops == typed[t.at].ops
  <2>7. /\ Goes(func, pos, rest, t.target, s)
        /\ rest[typed[t.at].index] = Destroyed(ops) \o (Promised(t, h) \o s)
        /\ ops \in Seq(OwnCalls) /\ typed[t.at].index \in DOMAIN rest
    BY <2>1, <2>2 DEF Told, ToldOf
  <2>8. typed'[e.at] = typed[t.at]
    BY <1>3, <1>5, <1>b
  <2> HIDE DEF ops, n
  <2>9. ASSUME NEW a \in DOMAIN arms
        PROVE  ArmTold(func, h, more, typed', p, arms[a], s)
    <3>1. CASE a \in DOMAIN t.arms
      <4>1. ArmTold(func, h, rest, typed, p, t.arms[a], s)
        BY <2>2, <3>1 DEF ToldOf
      <4>2. arms[a] = t.arms[a] /\ typed'[t.arms[a].at] = typed[t.arms[a].at]
        BY <1>3, <1>b, <1>d, <3>1
      <4> HIDE DEF p, t
      <4> QED BY <2>5, <4>1, <4>2 DEF ArmTold, Extends
    <3>2. CASE a \notin DOMAIN t.arms
      <4>1. arms[a] = arm
        BY <1>d, <3>2
      <4> HIDE DEF t, p
      <4> QED BY <1>b, <1>c, <2>5, <4>1 DEF ArmTold, x
    <3> QED BY <3>1, <3>2
  <2>10. Told(func, pos, h, more, typed', e)
    <3>1. Goes(func, pos, more, e.target, s)
      BY <1>5, <2>5, <2>7, GoesOnTo
    <3>2. more[typed[t.at].index] = Destroyed(ops) \o (Promised(e, h) \o s)
      BY <2>5, <2>6, <2>7 DEF Extends
    <3> HIDE DEF t, p
    <3>3. ToldOf(func, pos, h, more, typed', e, s)
      BY <1>5, <2>8, <2>9, <3>1, <3>2 DEF ToldOf, ops
    <3>4. typed'[e.at].ops \in Seq(OwnCalls) /\ typed'[e.at].index \in DOMAIN more
      BY <2>5, <2>7, <2>8 DEF Extends, ops
    <3> QED BY <3>3, <3>4 DEF Told
  <2>11. ~Ends(typed'[t.at].ops)
    <3>1. typed'[t.at].ops = ops
      BY <1>3, <1>b DEF ops
    <3> QED BY <2>7, <3>1, OwnCallsEndNothing
  <2>12. \A k \in DOMAIN typed' \ DOMAIN typed : ~Ends(typed'[k].ops)
    <3>1. typed'[m].ops \in Seq(OwnCalls)
      BY <1>b, DestroyedFacts
    <3> QED BY <1>b, <3>1, OwnCallsEndNothing
  <2>13. /\ g \in Seq(PendingEmission) /\ work' = g \o Tail(work)
         /\ \A j \in DOMAIN g : g[j] = e
    BY <1>1, <1>5
  <2> HIDE DEF g
  <2>14. Telling(func, pos, h, more, typed', work')
    <3>1. typed'[t.at].index = typed[t.at].index
      BY <1>3, <1>b
    <3>2. \A j \in DOMAIN typed \ {t.at} : typed'[j] = typed[j]
      BY <1>b
    <3>3. DOMAIN typed \subseteq DOMAIN typed'
      BY <1>b
    <3>4. t = Head(work)
      OBVIOUS
    <3>5. \A j \in DOMAIN g : Told(func, pos, h, more, typed', g[j])
      BY <2>10, <2>13
    <3> HIDE DEF t, p
    <3> QED BY <1>1, <1>9, <2>5, <2>11, <2>12, <2>13, <3>1, <3>2, <3>3, <3>4, <3>5, HandsOver
  <2> QED BY <2>14
<1>10. /\ g \in Seq(PendingEmission) /\ work' = g \o Tail(work)
       /\ DOMAIN g = {1} /\ g[1] = e
  BY <1>1, <1>5
<1> HIDE DEF t, p, g, n
<1>11. Hand(g)
  BY <1>7, <1>8, <1>9, <1>10 DEF Hand, t
<1> QED BY <1>11

-----------------------------------------------------------------------------
(* The invariant of lifting.                                                *)

(* No block goes away, and those that are ended do not change.              *)
Kept(blocks, new) ==
  \A k \in DOMAIN blocks :
    /\ k \in DOMAIN new
    /\ new[k].index = blocks[k].index
    /\ Ends(blocks[k].ops) => new[k] = blocks[k]

(* Block i has been lifted: a drop is expanded for every value its place    *)
(* can have, any other terminator is lowered as it stands.                  *)
Lifts(f, i, blocks) ==
  IF ExpandsDrop(f, i)
    THEN \A h \in Rust!Values(Root(f, i)) : \E rest : Settled(f, i, h, rest, blocks)
    ELSE \E k \in DOMAIN blocks : /\ blocks[k].index = f[i].index
                                  /\ blocks[k].ops = Lowered(f[i].term)

(* The blocks the pass has begun to lift.                                   *)
Begun == IF phase = "scanning" THEN {} ELSE 1..pos

(* The drop of block i is being expanded.                                   *)
Expanding(i) == i = pos /\ work # << >>

(* The lowering has what it needs of block i, its glue apart.               *)
Accepted(f, i) == f[i].liftable /\ f[i].term.op # "unliftable"

(* The pass fails only for what it does not support; what it has accepted,  *)
(* or will have when nothing on the stack fails, it supports.               *)
Judged ==
  /\ failed => ~Rust!Supported(func)
  /\ phase = "failed" => failed
  /\ ~failed => \A i \in Begun :
       /\ Accepted(func, i)
       /\ ExpandsDrop(func, i) /\ ~Expanding(i) => Rust!Droppable(Root(func, i))
  /\ work # << >> /\ (\A j \in DOMAIN work : Ahead(work[j]))
       => Rust!Droppable(Root(func, pos))

(* Every block that was begun is lifted, except that the drop of the last   *)
(* one may be in the middle of its expansion.                               *)
Explaining ==
  ~failed => \A i \in Begun :
    IF Expanding(i)
      THEN \A h \in Rust!Values(Root(func, i)) : \E rest :
             Telling(func, i, h, rest, typed, work)
      ELSE Lifts(func, i, typed)

(* The entry block is the first block.                                      *)
FirstBlock ==
  IF Begun = {} THEN typed = << >>
                ELSE typed # << >> /\ typed[1].index = func[1].index

(* The invariant of lifting that speaks of destruction.                     *)
DropInv == Underway /\ Judged /\ Explaining /\ FirstBlock

(* A block that does what the plan says has its terminator.                 *)
LEMMA ExplainedEnds ==
  ASSUME NEW f, NEW i, NEW h, NEW rest, NEW b, Explained(f, i, h, rest, b)
  PROVE  Ends(b.ops)
<1>1. PICK os \in Seq(OwnCalls), s \in Seq(Address), o \in TypedOp :
        /\ b.ops = os \o <<o>>
        /\ rest[b.index] = Destroyed(os) \o s
        /\ Ending(f, i, h, rest, o, s)
  BY DEF Explained
<1>2. IsTerminator(o)
  BY <1>1 DEF Ending, IsTerminator
<1>3. /\ Len(os) \in Nat
      /\ Len(b.ops) = Len(os) + 1 /\ b.ops[Len(os) + 1] = o /\ b.ops # << >>
  BY <1>1
<1> QED BY <1>2, <1>3 DEF Ends

(* What has been lifted stays lifted, as the blocks of it are final.        *)
LEMMA LiftsStill ==
  ASSUME NEW f \in Funcs, NEW i \in DOMAIN f, Accepted(f, i),
         NEW blocks, NEW new, Kept(blocks, new), Lifts(f, i, blocks)
  PROVE  Lifts(f, i, new)
<1>1. CASE ExpandsDrop(f, i)
  <2> SUFFICES ASSUME NEW h \in Rust!Values(Root(f, i))
               PROVE  \E rest : Settled(f, i, h, rest, new)
    BY <1>1 DEF Lifts
  <2>1. PICK rest : Settled(f, i, h, rest, blocks)
    BY <1>1 DEF Lifts
  <2>2. ASSUME NEW b \in DOMAIN rest
        PROVE  \E k \in DOMAIN new : new[k].index = b /\ Explained(f, i, h, rest, new[k])
    <3>1. PICK k \in DOMAIN blocks : blocks[k].index = b /\ Explained(f, i, h, rest, blocks[k])
      BY <2>1 DEF Settled
    <3>2. Ends(blocks[k].ops)
      BY <3>1, ExplainedEnds
    <3> QED BY <3>1, <3>2 DEF Kept
  <2>3. Settled(f, i, h, rest, new)
    BY <2>1, <2>2 DEF Settled
  <2> QED BY <2>3
<1>2. CASE ~ExpandsDrop(f, i)
  <2>1. PICK k \in DOMAIN blocks : /\ blocks[k].index = f[i].index
                                   /\ blocks[k].ops = Lowered(f[i].term)
    BY <1>2 DEF Lifts
  <2>2. Ends(blocks[k].ops)
    BY <2>1, LoweredEnds DEF Accepted
  <2> QED BY <1>2, <2>1, <2>2 DEF Kept, Lifts
<1> QED BY <1>1, <1>2

(* An emission keeps the blocks that are ended.                             *)
LEMMA EmitKept ==
  ASSUME IndexInv, BlockInv, EmitDropGlue
  PROVE  Kept(typed, typed')
<1>1. CASE \E os \in Seq(TypedOp) : typed' = Emit(typed, Head(work).at, os)
  <2>1. PICK os \in Seq(TypedOp) : typed' = Emit(typed, Head(work).at, os)
    BY <1>1
  <2>2. work # << >> /\ Head(work).at \in DOMAIN typed /\ typed \in Seq(TypedBlock)
    <3>1. work # << >>
      BY EmitDropGlueTyped
    <3> QED BY <3>1, HeadFacts DEF IndexInv, TypeOK
  <2>3. \A k \in DOMAIN typed : Closed(k) => typed'[k] = typed[k]
    BY <2>1, <2>2, EmitTouchesOpen
  <2>4. DOMAIN typed' = DOMAIN typed /\ \A k \in DOMAIN typed : typed'[k].index = typed[k].index
    BY <2>1, <2>2, EmitFacts
  <2> QED BY <2>3, <2>4 DEF Kept, Closed
<1>2. CASE \E b : typed' = Append(typed, b)
  <2>1. PICK b : typed' = Append(typed, b)
    BY <1>2
  <2>2. typed \in Seq(TypedBlock)
    BY DEF IndexInv, TypeOK
  <2> QED BY <2>1, <2>2 DEF Kept
<1>3. CASE typed' = typed
  BY <1>3 DEF Kept
<1> QED BY <1>1, <1>2, <1>3, EmitDropGlueTyped

(* So does appending a block.                                               *)
LEMMA AppendKept ==
  ASSUME IndexInv, NEW b, typed' = Append(typed, b)
  PROVE  /\ Kept(typed, typed')
         /\ DOMAIN typed' = DOMAIN typed \cup {Len(typed) + 1}
         /\ typed'[Len(typed) + 1] = b
         /\ Len(typed) + 1 \notin DOMAIN typed
         /\ typed = << >> => typed'[1] = b
         /\ typed' # << >>
<1>1. typed \in Seq(TypedBlock)
  BY DEF IndexInv, TypeOK
<1> QED BY <1>1 DEF Kept

(* The first block stays the first.                                         *)
LEMMA FirstStays ==
  ASSUME IndexInv, Kept(typed, typed'), typed # << >>
  PROVE  typed' # << >> /\ typed'[1].index = typed[1].index
<1>1. 1 \in DOMAIN typed
  BY DEF IndexInv, TypeOK
<1>2. 1 \in DOMAIN typed'
  BY <1>1 DEF Kept
<1> QED BY <1>1, <1>2 DEF Kept

(* The blocks begun are blocks of the function.                             *)
LEMMA BegunIn ==
  ASSUME IndexInv
  PROVE  /\ Begun \subseteq DOMAIN func /\ func \in Funcs
         /\ DOMAIN func = 1..Len(func) /\ Len(func) \in Nat /\ pos \in Nat
         /\ phase # "scanning" /\ pos \in DOMAIN func => pos \in Begun
<1>1. func \in Funcs /\ pos \in 0..Len(func)
  BY DEF IndexInv, TypeOK
<1>2. DOMAIN func = 1..Len(func) /\ Len(func) \in Nat
  BY <1>1, BodyFacts
<1> QED BY <1>1, <1>2 DEF Begun

(* Every action of the glue but the one that gives up hands over.           *)
LEMMA GlueHands ==
  ASSUME IndexInv, BlockInv, Underway, DropsKnown, EmitDropGlue, ~GlueUnsupported
  PROVE  \E g : Hand(g)
BY GlueNotNeededHands, SequenceEmptyHands, NoVariantBlocksHands, GlueOneShapeHands,
   GlueEnumHands, SequenceLastHands, VariantSkippedHands, SwitchOnVariantHands,
   SequenceNextHands, VariantBlockHands DEF EmitDropGlue

(* What the actions of the glue leave alone.                                *)
LEMMA GlueFrame ==
  ASSUME EmitDropGlue
  PROVE  /\ phase = "lifting" /\ work # << >> /\ UNCHANGED <<func, pos, phase>>
         /\ ~GlueUnsupported => failed' = failed
BY DEF EmitDropGlue, Running, GlueNotNeeded, GlueOneShape, GlueEnum,
         GlueUnsupported, SequenceEmpty, SequenceLast, SequenceNext,
         VariantBlock, VariantSkipped, NoVariantBlocks, SwitchOnVariant

(* Handing over keeps the invariant; when the last emission is popped the   *)
(* drop is expanded.                                                        *)
LEMMA HandKeeps ==
  ASSUME IndexInv, BlockInv, DropInv, DropsKnown, EmitDropGlue, ~GlueUnsupported
  PROVE  DropInv'
<1>1. /\ phase = "lifting" /\ work # << >> /\ UNCHANGED <<func, pos, phase, failed>>
  BY GlueFrame
<1>2. PICK g : Hand(g)
  BY GlueHands DEF DropInv
<1>3. IndexInv' /\ BlockInv' /\ Kept(typed, typed')
  BY EmitDropGlueStep, EmitDropGlueHandover, EmitKept
<1>4. /\ g \in Seq(PendingEmission) /\ work \in Seq(PendingEmission)
      /\ work' = g \o Tail(work)
  BY <1>2 DEF Hand, IndexInv, TypeOK
<1>5. /\ \A j \in DOMAIN work' :
           \/ j \in DOMAIN g /\ work'[j] = g[j]
           \/ \E k \in DOMAIN work : work'[j] = work[k]
      /\ \A j \in DOMAIN g : \E k \in DOMAIN work' : work'[k] = g[j]
      /\ \A j \in DOMAIN work \ {1} : \E k \in DOMAIN work' : work'[k] = work[j]
  <2>1. work # << >>
    BY <1>1
  <2>3. PICK s : s = work'
    OBVIOUS
  <2>2. /\ \A j \in DOMAIN s :
             \/ j \in DOMAIN g /\ s[j] = g[j]
             \/ \E k \in DOMAIN work : s[j] = work[k]
        /\ \A j \in DOMAIN g : \E k \in DOMAIN s : s[k] = g[j]
        /\ \A j \in DOMAIN work \ {1} : \E k \in DOMAIN s : s[k] = work[j]
    <3>1. /\ \A i \in DOMAIN s :
                \/ i \in DOMAIN g /\ s[i] = g[i]
                \/ /\ i \in Int /\ i > Len(g)
                   /\ i - Len(g) + 1 \in DOMAIN work \ {1}
                   /\ s[i] = work[i - Len(g) + 1]
          /\ \A i \in DOMAIN g : i \in DOMAIN s /\ s[i] = g[i]
          /\ \A i \in DOMAIN work \ {1} : /\ i - 1 + Len(g) \in DOMAIN s
                                          /\ s[i - 1 + Len(g)] = work[i]
      BY <1>4, <2>1, <2>3, StackAfter
    <3>2. \A j \in DOMAIN s : \/ j \in DOMAIN g /\ s[j] = g[j]
                             \/ \E k \in DOMAIN work : s[j] = work[k]
      BY <3>1, Zenon
    <3>3. \A j \in DOMAIN g : \E k \in DOMAIN s : s[k] = g[j]
      BY <3>1, Zenon
    <3>4. \A j \in DOMAIN work \ {1} : \E k \in DOMAIN s : s[k] = work[j]
      BY <3>1, Zenon
    <3> QED BY <3>2, <3>3, <3>4
  <2> QED BY <2>2, <2>3
<1>6. Head(work) = work[1] /\ 1 \in DOMAIN work
  BY <1>1, <1>4
<1>7. /\ pos \in DOMAIN func /\ ExpandsDrop(func, pos)
      /\ \A j \in DOMAIN work : Within(func, pos, work[j])
      /\ pos \in Begun /\ Begun \subseteq DOMAIN func /\ func \in Funcs
  BY <1>1, BegunIn DEF DropInv, Underway
<1>8. Underway'
  <2>1. \A j \in DOMAIN work' : Within(func, pos, work'[j])
    BY <1>2, <1>5, <1>7 DEF Hand
  <2> QED BY <1>1, <1>7, <2>1 DEF Underway, ExpandsDrop
<1>9. (\A j \in DOMAIN work' : Ahead(work'[j])) => Rust!Droppable(Root(func, pos))
  <2> SUFFICES ASSUME \A j \in DOMAIN work' : Ahead(work'[j])
               PROVE  Rust!Droppable(Root(func, pos))
    OBVIOUS
  <2>1. \A j \in DOMAIN g : Ahead(g[j])
    BY <1>5
  <2>2. Ahead(work[1])
    BY <1>2, <1>6, <2>1 DEF Hand
  <2>3. \A j \in DOMAIN work : Ahead(work[j])
    BY <1>5, <2>2
  <2> QED BY <1>1, <2>3 DEF DropInv, Judged
<1>10. Begun' = Begun /\ \A i : i # pos => ~Expanding(i) /\ ~Expanding(i)'
  BY <1>1 DEF Begun, Expanding
<1>11. Judged'
  <2>1. failed' => ~Rust!Supported(func)'
    BY <1>1 DEF DropInv, Judged, Rust!Supported, Rust!Droppable
  <2>2. ASSUME ~failed', NEW i \in Begun'
        PROVE  /\ Accepted(func, i)'
               /\ (ExpandsDrop(func, i) /\ ~Expanding(i))' => Rust!Droppable(Root(func, i))'
    <3>1. /\ i \in Begun /\ ~failed /\ Accepted(func, i)
          /\ ExpandsDrop(func, i) /\ ~Expanding(i) => Rust!Droppable(Root(func, i))
      BY <1>1, <1>10, <2>2 DEF DropInv, Judged
    <3>2. CASE i # pos
      BY <1>1, <1>10, <3>1, <3>2 DEF Accepted, ExpandsDrop, Root, Rust!Droppable
    <3>3. CASE i = pos
      <4>1. ~Expanding(i)' => DOMAIN work' = {}
        BY <1>1, <3>3 DEF Expanding
      <4>2. ~Expanding(i)' => Rust!Droppable(Root(func, i))
        BY <1>9, <3>3, <4>1
      <4> QED BY <1>1, <3>1, <4>2 DEF Accepted, ExpandsDrop, Root, Rust!Droppable
    <3> QED BY <3>2, <3>3
  <2>3. work' # << >> /\ (\A j \in DOMAIN work' : Ahead(work'[j]))
          => Rust!Droppable(Root(func, pos))'
    BY <1>1, <1>9 DEF Root, Rust!Droppable
  <2> QED BY <1>1, <2>1, <2>2, <2>3 DEF Judged
<1>12. Explaining'
  <2> SUFFICES ASSUME ~failed, NEW i \in Begun
               PROVE  IF Expanding(i)'
                        THEN \A h \in Rust!Values(Root(func, i)) : \E rest :
                               Telling(func, i, h, rest, typed', work')
                        ELSE Lifts(func, i, typed')
    BY <1>1, <1>10 DEF Explaining
  <2>1. Accepted(func, i)
    BY DEF DropInv, Judged
  <2>2. CASE i # pos
    <3>1. Lifts(func, i, typed)
      BY <1>10, <2>2 DEF DropInv, Explaining
    <3>2. Lifts(func, i, typed')
      BY <1>3, <1>7, <2>1, <3>1, LiftsStill
    <3> QED BY <1>10, <2>2, <3>2
  <2>3. CASE i = pos
    <3>1. ASSUME NEW h \in Rust!Values(Root(func, i))
          PROVE  \E rest : Telling(func, i, h, rest, typed', work')
      <4>1. \E rest : Telling(func, i, h, rest, typed, work)
        BY <1>1, <2>3 DEF DropInv, Explaining, Expanding
      <4> QED BY <1>2, <2>3, <4>1 DEF Hand
    <3>2. CASE work' # << >>
      BY <1>1, <2>3, <3>1, <3>2 DEF Expanding
    <3>3. CASE work' = << >>
      <4>1. \A k \in DOMAIN typed' : Ends(typed'[k].ops)
        <5>1. DOMAIN work' = {}
          BY <3>3
        <5> QED BY <1>1, <1>3, <5>1 DEF BlockInv, BlockDiscipline, OthersClosed, Closed
      <4>2. ASSUME NEW h \in Rust!Values(Root(func, i))
            PROVE  \E rest : Settled(func, i, h, rest, typed')
        <5>1. PICK rest : Telling(func, i, h, rest, typed', work')
          BY <3>1
        <5>2. ASSUME NEW b \in DOMAIN rest
              PROVE  \E k \in DOMAIN typed' :
                       typed'[k].index = b /\ Explained(func, i, h, rest, typed'[k])
          <6>1. PICK k \in DOMAIN typed' : typed'[k].index = b
            BY <5>1 DEF Telling, IndicesOf
          <6> QED BY <4>1, <5>1, <6>1 DEF Telling
        <5>3. Settled(func, i, h, rest, typed')
          BY <5>1, <5>2 DEF Settled, Telling
        <5> QED BY <5>3
      <4>3. Lifts(func, i, typed')
        BY <1>7, <2>3, <4>2 DEF Lifts
      <4> QED BY <3>3, <4>3 DEF Expanding
    <3> QED BY <3>2, <3>3
  <2> QED BY <2>2, <2>3
<1>13. FirstBlock'
  <2>1. Begun # {}
    BY <1>7
  <2>2. typed # << >> /\ typed[1].index = func[1].index
    BY <2>1 DEF DropInv, FirstBlock
  <2>3. typed' # << >> /\ typed'[1].index = typed[1].index
    BY <1>3, <2>2, FirstStays
  <2> QED BY <1>1, <1>10, <2>1, <2>2, <2>3 DEF FirstBlock
<1> QED BY <1>8, <1>11, <1>12, <1>13 DEF DropInv

-----------------------------------------------------------------------------
(* Its steps.                                                               *)

(* Glue that is needed for a type without fields is that of a Drop impl.    *)
LEMMA UnsupportedGlueIs ==
  ASSUME NEW q \in Place, MayNeedDropGlue[q.type], Variants[q.type] = << >>,
         Kind[q.type] \notin {"opaque", "uninit"}
  PROVE  ImplementsDrop[q.type]
<1>1. q.type \in Type
  BY DEF Place
<1>2. Parts(q.type) = {}
  BY DEF Parts
<1>3. HasDropImpl[q.type]
  BY <1>1, <1>2, MayNeedDropGlueIs
<1> QED BY <1>1, <1>3, RustcTypes

(* The action that gives up does so only for a place the lowering has no    *)
(* glue for.                                                                *)
LEMMA UnsupportedKeeps ==
  ASSUME IndexInv, BlockInv, DropInv, DropsKnown, GlueUnsupported
  PROVE  DropInv'
<1> DEFINE t == Head(work)
           p == t.places[1]
<1>1. /\ phase = "lifting" /\ work # << >> /\ UNCHANGED <<func, pos, phase>>
      /\ t.kind = "glue" /\ MayNeedDropGlue[p.type]
      /\ Kind[p.type] \in {"opaque", "uninit"} \/ Variants[p.type] = << >>
      /\ work' = << >> /\ failed'
  BY DEF GlueUnsupported, Running
<1>2. IndexInv' /\ BlockInv' /\ Kept(typed, typed')
  BY EmitDropGlueStep, EmitDropGlueHandover, EmitKept DEF EmitDropGlue
<1>3. /\ p \in Place /\ Rust!PlacesIn(p) \subseteq Rust!PlacesIn(Root(func, pos))
  BY <1>1, OwnPlaceIs DEF DropInv
<1>4. p \in Rust!PlacesIn(Root(func, pos))
  BY <1>3, InsideOf
<1>5. ~Rust!Droppable(Root(func, pos))
  <2>1. Kind[p.type] \in {"opaque", "uninit"}
        \/ (ImplementsDrop[p.type] /\ Variants[p.type] = << >>)
    <3> HIDE DEF p
    <3> QED BY <1>1, <1>3, UnsupportedGlueIs
  <2> HIDE DEF p
  <2> QED BY <1>4, <2>1 DEF Rust!Droppable
<1>6. pos \in DOMAIN func /\ ExpandsDrop(func, pos) /\ pos \in Begun
  BY <1>1, BegunIn DEF DropInv, Underway
<1>7. ~Rust!Supported(func)
  BY <1>5, <1>6 DEF Rust!Supported, ExpandsDrop, Root
<1>8. Begun' = Begun
  BY <1>1 DEF Begun
<1>9. FirstBlock'
  <2>1. Begun # {}
    BY <1>6
  <2>2. typed # << >> /\ typed[1].index = func[1].index
    BY <2>1 DEF DropInv, FirstBlock
  <2>3. typed' # << >> /\ typed'[1].index = typed[1].index
    BY <1>2, <2>2, FirstStays
  <2> QED BY <1>1, <1>8, <2>1, <2>2, <2>3 DEF FirstBlock
<1>10. Underway' /\ Explaining'
  BY <1>1 DEF Underway, Explaining
<1>11. Judged'
  <2>1. ~Rust!Supported(func)'
    BY <1>1, <1>7 DEF Rust!Supported, Rust!Droppable
  <2> HIDE DEF t, p
  <2> QED BY <1>1, <2>1 DEF Judged
<1> QED BY <1>9, <1>10, <1>11 DEF DropInv

(* The next block is begun once nothing is left of the last one.            *)
LEMMA BeginFacts ==
  ASSUME IndexInv, BeginBlock
  PROVE  /\ pos' = pos + 1 /\ pos + 1 \in DOMAIN func /\ func \in Funcs
         /\ phase = "lifting" /\ phase' = phase /\ func' = func /\ work = << >>
         /\ Begun' = Begun \cup {pos + 1} /\ pos + 1 \notin Begun
         /\ Begun \subseteq DOMAIN func
         /\ Begun = {} => pos + 1 = 1
<1>1. /\ pos' = pos + 1 /\ pos < Len(func) /\ phase = "lifting" /\ phase' = phase
      /\ func' = func /\ work = << >>
  BY DEF BeginBlock
<1>2. pos \in Nat /\ DOMAIN func = 1..Len(func) /\ Len(func) \in Nat /\ func \in Funcs
      /\ Begun \subseteq DOMAIN func
  BY BegunIn
<1> QED BY <1>1, <1>2 DEF Begun

(* The first block begun is the entry block.                                *)
LEMMA FirstBegun ==
  ASSUME IndexInv, BeginBlock, DropInv, NEW b, b.index = func[pos + 1].index,
         typed' = Append(typed, b)
  PROVE  FirstBlock'
<1>1. Begun' # {} /\ func' = func
  BY BeginFacts
<1>2. CASE Begun = {}
  <2>1. typed = << >> /\ pos + 1 = 1
    BY <1>2, BeginFacts DEF DropInv, FirstBlock
  <2> QED BY <1>1, <2>1, AppendKept DEF FirstBlock
<1>3. CASE Begun # {}
  <2>1. typed # << >> /\ typed[1].index = func[1].index
    BY <1>3 DEF DropInv, FirstBlock
  <2>2. Kept(typed, typed')
    BY AppendKept
  <2> QED BY <1>1, <2>1, <2>2, FirstStays DEF FirstBlock
<1> QED BY <1>2, <1>3

(* Lowering a terminator that needs no glue, or giving up on one it does    *)
(* not support.                                                             *)
LEMMA LiftBlockExplains ==
  ASSUME IndexInv, BlockInv, DropInv, DropsKnown, LiftBlock
  PROVE  DropInv'
<1> DEFINE i == pos + 1
           b == [index |-> func[i].index, ops |-> Lowered(func[i].term)]
<1>1. /\ BeginBlock /\ typed' = Append(typed, b) /\ work' = work
      /\ func[i].term.op = "drop" => func[i].term.bridge
      /\ failed' = (failed \/ ~func[i].liftable \/ func[i].term.op = "unliftable")
      /\ b.index = func[i].index /\ b.ops = Lowered(func[i].term)
  BY DEF LiftBlock
<1>2. /\ pos' = i /\ i \in DOMAIN func /\ func \in Funcs
      /\ phase = "lifting" /\ phase' = phase /\ func' = func /\ work = << >>
      /\ Begun' = Begun \cup {i} /\ i \notin Begun /\ Begun \subseteq DOMAIN func
  BY <1>1, BeginFacts
<1> HIDE DEF b
<1>3. FirstBlock'
  BY <1>1, FirstBegun
<1>4. /\ Kept(typed, typed') /\ DOMAIN typed' = DOMAIN typed \cup {Len(typed) + 1}
      /\ typed'[Len(typed) + 1] = b
  BY <1>1, AppendKept
<1> HIDE DEF i
<1>5. ~ExpandsDrop(func, i)
  BY <1>1 DEF ExpandsDrop
<1>6. \A j : ~Expanding(j) /\ ~Expanding(j)'
  BY <1>1, <1>2 DEF Expanding
<1>7. Underway'
  BY <1>1, <1>2 DEF Underway
<1>8. Judged'
  <2>1. failed' => ~Rust!Supported(func)
    <3>1. CASE failed
      BY <3>1 DEF DropInv, Judged
    <3>2. CASE ~func[i].liftable \/ func[i].term.op = "unliftable"
      BY <1>2, <3>2 DEF Rust!Supported
    <3> QED BY <1>1, <3>1, <3>2
  <2>2. ASSUME ~failed', NEW j \in Begun'
        PROVE  /\ Accepted(func, j)
               /\ ExpandsDrop(func, j) => Rust!Droppable(Root(func, j))
    <3>1. CASE j = i
      BY <1>1, <1>5, <2>2, <3>1 DEF Accepted
    <3>2. CASE j \in Begun
      BY <1>1, <1>6, <2>2, <3>2 DEF DropInv, Judged
    <3> QED BY <1>2, <3>1, <3>2
  <2>3. (failed => ~Rust!Supported(func))' /\ (phase = "failed" => failed)'
    <3>1. (failed => ~Rust!Supported(func))'
      BY <1>2, <2>1 DEF Rust!Supported, Rust!Droppable
    <3> QED BY <1>2, <3>1
  <2>4. (~failed => \A j \in Begun :
           /\ Accepted(func, j)
           /\ ExpandsDrop(func, j) /\ ~Expanding(j) => Rust!Droppable(Root(func, j)))'
    BY <1>2, <2>2 DEF Accepted, ExpandsDrop, Root, Rust!Droppable
  <2> QED BY <1>1, <1>2, <2>3, <2>4 DEF Judged
<1>9. Explaining'
  <2> SUFFICES ASSUME ~failed', NEW j \in Begun' PROVE Lifts(func, j, typed')
    BY <1>2, <1>6 DEF Explaining
  <2>1. CASE j = i
    BY <1>1, <1>4, <1>5, <2>1 DEF Lifts
  <2>2. CASE j \in Begun
    <3>1. ~failed
      BY <1>1
    <3>2. Lifts(func, j, typed) /\ Accepted(func, j) /\ j \in DOMAIN func
      BY <1>2, <1>6, <2>2, <3>1 DEF DropInv, Explaining, Judged
    <3> QED BY <1>2, <1>4, <3>2, LiftsStill
  <2> QED BY <1>2, <2>1, <2>2
<1> QED BY <1>3, <1>7, <1>8, <1>9 DEF DropInv

(* The plan a drop begins with: its own block is to destroy all that is     *)
(* owed.                                                                    *)
LEMMA DropBegun ==
  ASSUME NEW f \in Funcs, NEW i \in DOMAIN f, ExpandsDrop(f, i),
         NEW h, NEW blocks, NEW new, NEW m, NEW b,
         DOMAIN new = DOMAIN blocks \cup {m}, new[m] = b,
         b.index = f[i].index, b.ops = << >>,
         \A k \in DOMAIN blocks : new[k].index # f[i].index,
         NEW e, e.kind = "glue", e.at = m, e.places[1] = Root(f, i), e.arms = << >>,
         e.target = Out(f, i)
  PROVE  \E rest : Telling(f, i, h, rest, new, <<e>>)
<1> DEFINE n == f[i].index
           x == Rust!Owed(Root(f, i), h)
           rest == [a \in {n} |-> x]
<1>1. Root(f, i) \in Place
  BY RootFacts
<1>2. x \in Seq(Address)
  BY <1>1, OwedIs
<1> HIDE DEF x
<1>3. /\ DOMAIN rest = {n} /\ rest[n] = x /\ rest \in [DOMAIN rest -> Seq(Address)]
  BY <1>2
<1> HIDE DEF rest
<1>4. Plan(f, i, h, rest)
  BY <1>3 DEF Plan, x
<1>5. DOMAIN rest \subseteq IndicesOf(new)
  BY <1>3 DEF IndicesOf
<1>6. ~Ends(new[m].ops)
  BY OneOp
<1>7. \A k \in DOMAIN new : new[k].index \in DOMAIN rest /\ Ends(new[k].ops)
        => Explained(f, i, h, rest, new[k])
  BY <1>3, <1>6
<1>8. Told(f, i, h, rest, new, e)
  <2>1. << >> \in Seq(Address)
    OBVIOUS
  <2>2. Goes(f, i, rest, e.target, << >>)
    BY DEF Goes
  <2>3. Promised(e, h) = x
    BY PromisedIs DEF x
  <2>4. rest[new[m].index] = Destroyed(<< >>) \o (Promised(e, h) \o << >>)
    BY <1>2, <1>3, <2>3, DestroyedFacts, ConcatEmptySeq
  <2>5. DOMAIN e.arms = {}
    OBVIOUS
  <2>6. ToldOf(f, i, h, rest, new, e, << >>)
    BY <2>2, <2>4, <2>5 DEF ToldOf
  <2>7. new[e.at].ops \in Seq(OwnCalls) /\ new[e.at].index \in DOMAIN rest
    BY <1>3, DestroyedFacts
  <2> QED BY <2>1, <2>6, <2>7 DEF Told
<1>9. DOMAIN <<e>> = {1} /\ <<e>>[1] = e
  OBVIOUS
<1>10. Telling(f, i, h, rest, new, <<e>>)
  BY <1>4, <1>5, <1>7, <1>8, <1>9 DEF Telling
<1> QED BY <1>10

(* Beginning to expand a drop.                                              *)
LEMMA LiftDropExplains ==
  ASSUME IndexInv, BlockInv, DropInv, DropsKnown, LiftDrop
  PROVE  DropInv'
<1> DEFINE i == pos + 1
           b == [index |-> func[i].index, ops |-> << >>]
           m == Len(typed) + 1
           e == Glue(m, Root(func, i), Out(func, i))
<1>1. /\ BeginBlock /\ typed' = Append(typed, b) /\ work' = <<e>>
      /\ ExpandsDrop(func, i)
      /\ failed' = (failed \/ ~func[i].liftable)
      /\ b.index = func[i].index /\ b.ops = << >>
  BY DEF LiftDrop, ExpandsDrop, Root, Out
<1>2. /\ pos' = i /\ i \in DOMAIN func /\ func \in Funcs
      /\ phase = "lifting" /\ phase' = phase /\ func' = func /\ work = << >>
      /\ Begun' = Begun \cup {i} /\ i \notin Begun /\ Begun \subseteq DOMAIN func
  BY <1>1, BeginFacts
<1> HIDE DEF b
<1>3. FirstBlock'
  BY <1>1, FirstBegun
<1>4. /\ Kept(typed, typed') /\ DOMAIN typed' = DOMAIN typed \cup {m}
      /\ typed'[m] = b /\ m \notin DOMAIN typed
  BY <1>1, AppendKept
<1>a. IndexInv'
  BY LiftDropStep
<1>b. \A k \in DOMAIN typed : typed'[k].index # func[i].index
  BY <1>1, <1>4, <1>a DEF IndexInv, FreshIndices
<1> HIDE DEF m
<1>5. /\ e.kind = "glue" /\ e.at = m /\ e.places = <<Root(func, i)>>
      /\ e.places[1] = Root(func, i) /\ e.arms = << >> /\ e.target = Out(func, i)
  <2> HIDE DEF i
  <2> QED BY PendingIs
<1> HIDE DEF i, e
<1>c. /\ DOMAIN work' = {1} /\ work'[1] = e /\ work' # << >>
      /\ DOMAIN e.places = {1}
  BY <1>1, <1>5
<1>6. \A j : ~Expanding(j) /\ (Expanding(j)' <=> j = i)
  BY <1>1, <1>2, <1>c DEF Expanding
<1>7. Underway'
  <2>1. Within(func, i, e)
    BY <1>5, <1>c DEF Within
  <2> QED BY <1>1, <1>2, <1>c, <2>1 DEF Underway, ExpandsDrop
<1>8. Judged'
  <2>1. failed' => ~Rust!Supported(func)
    <3>1. CASE failed
      BY <3>1 DEF DropInv, Judged
    <3>2. CASE ~func[i].liftable
      BY <1>2, <3>2 DEF Rust!Supported
    <3> QED BY <1>1, <3>1, <3>2
  <2>2. ASSUME ~failed', NEW j \in Begun'
        PROVE  /\ Accepted(func, j)
               /\ (ExpandsDrop(func, j) /\ j # i => Rust!Droppable(Root(func, j)))
    <3>1. CASE j = i
      BY <1>1, <2>2, <3>1 DEF Accepted, ExpandsDrop
    <3>2. CASE j \in Begun
      BY <1>1, <1>6, <2>2, <3>2 DEF DropInv, Judged
    <3> QED BY <1>2, <3>1, <3>2
  <2>3. (failed => ~Rust!Supported(func))' /\ (phase = "failed" => failed)'
    <3>1. (failed => ~Rust!Supported(func))'
      BY <1>2, <2>1 DEF Rust!Supported, Rust!Droppable
    <3> QED BY <1>2, <3>1
  <2>4. (~failed => \A j \in Begun :
           /\ Accepted(func, j)
           /\ ExpandsDrop(func, j) /\ ~Expanding(j) => Rust!Droppable(Root(func, j)))'
    BY <1>2, <1>6, <2>2 DEF Accepted, ExpandsDrop, Root, Rust!Droppable
  <2>5. (\A j \in DOMAIN work' : Ahead(work'[j])) => Rust!Droppable(Root(func, pos))'
    <3>1. Ahead(e) => Rust!Droppable(Root(func, i))
      BY <1>5, <1>c DEF Ahead
    <3> QED BY <1>2, <1>c, <3>1 DEF Root, Rust!Droppable
  <2> QED BY <1>1, <1>2, <2>3, <2>4, <2>5 DEF Judged
<1>9. Explaining'
  <2> SUFFICES ASSUME ~failed', NEW j \in Begun'
               PROVE IF j = i
                        THEN \A h \in Rust!Values(Root(func, j)) : \E rest :
                               Telling(func, j, h, rest, typed', work')
                        ELSE Lifts(func, j, typed')
    BY <1>2, <1>6 DEF Explaining
  <2>1. CASE j = i
    BY <1>1, <1>2, <1>4, <1>5, <1>b, <2>1, DropBegun
  <2>2. CASE j # i
    <3>1. ~failed /\ j \in Begun
      BY <1>1, <1>2, <2>2
    <3>2. Lifts(func, j, typed) /\ Accepted(func, j) /\ j \in DOMAIN func
      BY <1>2, <1>6, <2>2, <3>1 DEF DropInv, Explaining, Judged
    <3> QED BY <1>2, <1>4, <2>2, <3>2, LiftsStill
  <2> QED BY <2>1, <2>2
<1> QED BY <1>3, <1>7, <1>8, <1>9 DEF DropInv

(* Collecting indices and finishing do not change any block.                *)
LEMMA OtherStepsExplain ==
  ASSUME IndexInv, DropInv, Scan \/ ScanDone \/ Finish \/ UNCHANGED liftVars
  PROVE  DropInv'
<1>1. /\ UNCHANGED <<func, typed, work, failed>>
      /\ Begun' = Begun
      /\ work # << >> => pos' = pos
      /\ phase' = "failed" => failed
  <2>1. CASE Scan
    <3>1. phase = "scanning"
      BY <2>1 DEF Scan
    <3>2. work = << >>
      BY <3>1 DEF IndexInv, Phases
    <3> QED BY <2>1, <3>1, <3>2 DEF Scan, Begun
  <2>2. CASE ScanDone
    <3>1. phase = "scanning"
      BY <2>2 DEF ScanDone
    <3>2. work = << >>
      BY <3>1 DEF IndexInv, Phases
    <3> QED BY <2>2, <3>1, <3>2 DEF ScanDone, Begun
  <2>3. CASE Finish
    BY <2>3 DEF Finish, Begun
  <2>4. CASE UNCHANGED liftVars
    BY <2>4 DEF liftVars, Begun, DropInv, Judged
  <2> QED BY <2>1, <2>2, <2>3, <2>4
<1>2. \A j : Expanding(j)' <=> Expanding(j)
  BY <1>1 DEF Expanding
<1>3. Underway' /\ FirstBlock'
  BY <1>1 DEF DropInv, Underway, FirstBlock, ExpandsDrop
<1>4. Explaining'
  BY <1>1, <1>2 DEF DropInv, Explaining
<1>5. Judged'
  BY <1>1, <1>2 DEF DropInv, Judged, Rust!Supported, Rust!Droppable, Accepted,
                   ExpandsDrop, Root
<1> QED BY <1>3, <1>4, <1>5 DEF DropInv

(* DropInv is inductive, next to IndexInv and BlockInv.                     *)
LEMMA DropInvStep ==
  ASSUME DropsKnown, IndexInv, BlockInv, DropInv, [Next]_liftVars
  PROVE  DropInv'
BY HandKeeps, UnsupportedKeeps, LiftBlockExplains, LiftDropExplains,
   OtherStepsExplain DEF Next

(* It holds initially.                                                      *)
LEMMA InitDropInv == Init => DropInv
BY DEF Init, DropInv, Underway, Judged, Explaining, FirstBlock, Begun

-----------------------------------------------------------------------------
(* Where control is when the blocks are run.                                *)

(* The operations of the block b.                                           *)
OpsIn(blocks, b) == blocks[CHOOSE k \in DOMAIN blocks : blocks[k].index = b].ops

(* Control is at operation n of a block of the glue: with l destroyed, what *)
(* the calls from n on and the blocks after it destroy is what is owed.     *)
Halfway(f, i, blocks, h, rest, l, b, n) ==
  \E os \in Seq(OwnCalls), s \in Seq(Address), o \in TypedOp :
    /\ OpsIn(blocks, b) = os \o <<o>>
    /\ n \in 1..(Len(os) + 1)
    /\ Ending(f, i, h, rest, o, s)
    /\ Rust!Owed(Root(f, i), h) = l \o (Destroyed(SubSeq(os, n, Len(os))) \o s)
    /\ l \in Seq(Address)

(* Control is in the blocks of an expanded drop, for the value h.           *)
InGlue(f, i, blocks, h, l, b, n) ==
  /\ h \in Rust!Values(Root(f, i))
  /\ \E rest : /\ Settled(f, i, h, rest, blocks)
               /\ Halfway(f, i, blocks, h, rest, l, b, n)

(* Control is in a block that needed no glue; only a bridge has destroyed   *)
(* its place.                                                               *)
InPlain(f, i, blocks, l, b, n) ==
  /\ b = f[i].index
  /\ OpsIn(blocks, b) = Lowered(f[i].term)
  /\ n \in DOMAIN Lowered(f[i].term)
  /\ l = IF f[i].term.op = "drop" /\ n > 1 THEN <<f[i].term.place.addr>> ELSE << >>

(* Control is in the blocks that MIR block i was lifted to.                 *)
InBlock(f, i, blocks, h, l, b, n) ==
  /\ ExpandsDrop(f, i) => InGlue(f, i, blocks, h, l, b, n)
  /\ ~ExpandsDrop(f, i) => InPlain(f, i, blocks, l, b, n)

(* Control is in the blocks of MIR block a.                                 *)
Inside(f, blocks, a, h, l, b, n) ==
  \E i \in DOMAIN f : f[i].index = a /\ InBlock(f, i, blocks, h, l, b, n)

(* The program is run only after the pass is done with it, and is rejected  *)
(* when the pass has failed.                                                *)
ExecStatus ==
  /\ phase \in {"scanning", "lifting"} => status = "new"
  /\ phase = "failed" => status = "rejected"
  /\ phase = "done" => status # "rejected"
  /\ status = "new" => /\ at = func[1].index
                       /\ held = [a \in {} |-> 0]
                       /\ log = << >>

(* The invariant of execution.                                              *)
ExecInv ==
  /\ ExecStatus
  /\ status = "running" => Inside(func, typed, at, held, log, pc, ip)

(* The invariant of lifting.                                                *)
Complete == IndexInv /\ BlockInv /\ DropInv

(* When the pass is done every block is lifted, control starts at the entry *)
(* block and the function is supported.                                     *)
LEMMA DoneFacts ==
  ASSUME Complete, phase = "done"
  PROVE  /\ func \in Funcs /\ typed # << >> /\ typed[1].index = func[1].index
         /\ func[1].index \in MirIndices(func)
         /\ \A i \in DOMAIN func : Lifts(func, i, typed) /\ Accepted(func, i)
         /\ Rust!Supported(func)
<1>1. work = << >> /\ ~failed /\ pos = Len(func)
  BY DEF Complete, IndexInv, Phases, BlockInv
<1>2. /\ func \in Funcs /\ Begun = DOMAIN func /\ DOMAIN func = 1..Len(func)
      /\ 1 \in DOMAIN func
  <2>1. func \in Funcs /\ DOMAIN func = 1..Len(func) /\ Len(func) \in Nat
    BY BegunIn DEF Complete
  <2>2. func # << >> /\ func \in Seq(MirBlock)
    BY <2>1, BodyFacts
  <2> QED BY <1>1, <2>1, <2>2 DEF Begun
<1>3. typed # << >> /\ typed[1].index = func[1].index
  BY <1>2 DEF Complete, DropInv, FirstBlock
<1>4. \A i : ~Expanding(i)
  BY <1>1 DEF Expanding
<1>5. \A i \in DOMAIN func : /\ Lifts(func, i, typed) /\ Accepted(func, i)
                             /\ ExpandsDrop(func, i) => Rust!Droppable(Root(func, i))
  BY <1>1, <1>2, <1>4 DEF Complete, DropInv, Judged, Explaining
<1>6. Rust!Supported(func)
  BY <1>5 DEF Rust!Supported, Accepted, ExpandsDrop, Root
<1>7. func[1].index \in MirIndices(func)
  BY <1>2 DEF MirIndices
<1> QED BY <1>2, <1>3, <1>5, <1>6, <1>7

(* Indices are unique, so the block found by an index is the block.         *)
LEMMA OpsInIs ==
  ASSUME IndexInv, NEW k \in DOMAIN typed
  PROVE  OpsIn(typed, typed[k].index) = typed[k].ops
<1> DEFINE m == CHOOSE j \in DOMAIN typed : typed[j].index = typed[k].index
<1>1. m \in DOMAIN typed /\ typed[m].index = typed[k].index
  OBVIOUS
<1> HIDE DEF m
<1>2. m = k
  BY <1>1 DEF IndexInv, FreshIndices
<1> QED BY <1>2 DEF OpsIn, m

(* So are those of the MIR blocks.                                          *)
LEMMA MirBlockAt ==
  ASSUME NEW f \in Funcs, NEW i \in DOMAIN f
  PROVE  /\ BlockAt(f, f[i].index) = f[i]
         /\ Rust!BlockAt(f, f[i].index) = f[i]
<1> DEFINE m == CHOOSE j \in DOMAIN f : f[j].index = f[i].index
<1>1. m \in DOMAIN f /\ f[m].index = f[i].index
  OBVIOUS
<1> HIDE DEF m
<1>2. m = i
  BY <1>1, BodyFacts
<1> QED BY <1>2 DEF BlockAt, Rust!BlockAt, m

(* The terminator Rust is at.                                               *)
LEMMA RustTerm ==
  ASSUME func \in Funcs, NEW i \in DOMAIN func, func[i].index = at
  PROVE  Rust!Term = func[i].term
  BY MirBlockAt DEF Rust!Term

(* What the terminator of block i owes.                                     *)
LEMMA OwedByIs ==
  ASSUME NEW f, NEW i, NEW h
  PROVE  /\ f[i].term.op # "drop" => Rust!OwedBy(f[i].term, h) = << >>
         /\ f[i].term.op = "drop" /\ f[i].term.bridge
              => Rust!OwedBy(f[i].term, h) = <<f[i].term.place.addr>>
         /\ ExpandsDrop(f, i) => Rust!OwedBy(f[i].term, h) = Rust!Owed(Root(f, i), h)
<1>1. CASE f[i].term.op # "drop"
  BY <1>1 DEF Rust!OwedBy, ExpandsDrop
<1>2. CASE f[i].term.op = "drop" /\ f[i].term.bridge
  BY <1>2 DEF Rust!OwedBy, ExpandsDrop
<1>3. CASE f[i].term.op = "drop" /\ ~f[i].term.bridge
  BY <1>3 DEF Rust!OwedBy, ExpandsDrop, Root
<1> QED BY <1>1, <1>2, <1>3

(* The values a drop is run with are the values of its place.               *)
LEMMA HeldAt ==
  ASSUME NEW f \in Funcs, NEW i \in DOMAIN f, ExpandsDrop(f, i)
  PROVE  Rust!ValuesAt(f, f[i].index) = Rust!Values(Root(f, i))
  BY MirBlockAt DEF Rust!ValuesAt, ExpandsDrop, Root

(* Control enters a block of the plan with what the plan says left. *)
LEMMA EntersPlanned ==
  ASSUME IndexInv, NEW i, NEW h \in Rust!Values(Root(func, i)), NEW rest,
         Settled(func, i, h, rest, typed), NEW b \in DOMAIN rest,
         NEW l \in Seq(Address), Rust!Owed(Root(func, i), h) = l \o rest[b]
  PROVE  InGlue(func, i, typed, h, l, b, 1)
<1>1. PICK k \in DOMAIN typed : typed[k].index = b /\ Explained(func, i, h, rest, typed[k])
  BY DEF Settled
<1>2. PICK os \in Seq(OwnCalls), s \in Seq(Address), o \in TypedOp :
        /\ typed[k].ops = os \o <<o>>
        /\ rest[b] = Destroyed(os) \o s
        /\ Ending(func, i, h, rest, o, s)
  BY <1>1 DEF Explained
<1>3. OpsIn(typed, b) = os \o <<o>>
  BY <1>1, <1>2, OpsInIs
<1>4. 1 \in 1..(Len(os) + 1) /\ SubSeq(os, 1, Len(os)) = os
  OBVIOUS
<1>5. Halfway(func, i, typed, h, rest, l, b, 1)
  BY <1>2, <1>3, <1>4 DEF Halfway
<1> QED BY <1>5 DEF InGlue

(* Control enters a MIR block. *)
LEMMA EntersMir ==
  ASSUME Complete, phase = "done", NEW b \in MirIndices(func),
         NEW h \in Rust!ValuesAt(func, b)
  PROVE  Inside(func, typed, b, h, << >>, b, 1)
<1>1. PICK i \in DOMAIN func : func[i].index = b
  BY DEF MirIndices
<1>2. func \in Funcs /\ Lifts(func, i, typed) /\ Accepted(func, i) /\ IndexInv
  BY DoneFacts DEF Complete
<1>3. CASE ExpandsDrop(func, i)
  <2>1. h \in Rust!Values(Root(func, i))
    BY <1>1, <1>2, <1>3, HeldAt
  <2>2. PICK rest : Settled(func, i, h, rest, typed)
    BY <1>2, <1>3, <2>1 DEF Lifts
  <2>3. b \in DOMAIN rest /\ rest[b] = Rust!Owed(Root(func, i), h) /\ rest[b] \in Seq(Address)
    BY <1>1, <2>2 DEF Settled, Plan
  <2>4. << >> \in Seq(Address) /\ << >> \o rest[b] = rest[b]
    BY <2>3, ConcatEmptySeq
  <2>5. InGlue(func, i, typed, h, << >>, b, 1)
    BY <1>2, <2>1, <2>2, <2>3, <2>4, EntersPlanned
  <2> QED BY <1>1, <1>3, <2>5 DEF Inside, InBlock
<1>4. CASE ~ExpandsDrop(func, i)
  <2>1. PICK k \in DOMAIN typed : /\ typed[k].index = func[i].index
                                  /\ typed[k].ops = Lowered(func[i].term)
    BY <1>2, <1>4 DEF Lifts
  <2>2. OpsIn(typed, b) = Lowered(func[i].term)
    BY <1>1, <1>2, <2>1, OpsInIs
  <2>3. 1 \in DOMAIN Lowered(func[i].term)
    <3>1. Ends(Lowered(func[i].term))
      BY <1>2, LoweredEnds DEF Accepted
    <3>2. Lowered(func[i].term) \in Seq(TypedOp)
      BY <1>2, <1>4, LoweredFacts DEF ExpandsDrop
    <3> QED BY <3>1, <3>2 DEF Ends
  <2>4. InPlain(func, i, typed, << >>, b, 1)
    BY <1>1, <2>2, <2>3 DEF InPlain
  <2> QED BY <1>1, <1>4, <2>4 DEF Inside, InBlock
<1> QED BY <1>3, <1>4

(* The operations of a block that needs no glue. *)
LEMMA LoweredIs ==
  ASSUME NEW f \in Funcs, NEW i \in DOMAIN f, Accepted(f, i), ~ExpandsDrop(f, i),
         NEW term, term = f[i].term, NEW ops, ops = Lowered(term), NEW n \in DOMAIN ops
  PROVE  /\ n \in {1, 2}
         /\ ops[n].op \in {"goto", "switch_int"}
              => ops[n].targets = term.targets /\ (term.op = "drop" => n > 1)
         /\ ops[n].op = "return" => term.op = "return"
         /\ ops[n].op = "unreachable" => term.op \in {"unreachable", "call"}
         /\ ops[n].op \in {"call", "assert"}
              => term.op \in {"call", "assert"} /\ n + 1 \in DOMAIN ops
         /\ ops[n].op = "drop_bridge"
              => /\ term.op = "drop" /\ term.bridge /\ n = 1 /\ n + 1 \in DOMAIN ops
                 /\ ops[n].place = term.place
         /\ ops[n].op \notin {"drop_impl", "switch_tag"}
<1> DEFINE b == TargetOf(term)
<1>1. term.op \in {"goto", "return", "unreachable", "switch_int", "assert", "call",
                   "unliftable", "drop"}
  <2>1. term \in PlainTerminator \cup DropTerminator
    BY BodyFacts
  <2> QED BY <2>1 DEF PlainTerminator, DropTerminator
<1>2. \/ term.op \in {"goto", "assert", "drop"}
      \/ term.op = "call" /\ term.targets # {}
      => term.targets = {b}
  <2>1. /\ term.op \in {"goto", "assert", "drop"} => \E a \in MirIndices(f) : term.targets = {a}
        /\ term.op = "call" => term.targets = {} \/ \E a \in MirIndices(f) : term.targets = {a}
    BY SingleTargets
  <2> QED BY <2>1 DEF TargetOf
<1> HIDE DEF b
<1>3. CASE term.op = "goto"
  <2>1. ops = <<Goto(b)>>
    BY <1>3 DEF Lowered, b
  <2> QED BY <1>2, <1>3, <2>1 DEF Goto
<1>4. CASE term.op = "return"
  <2>1. ops = <<Return>>
    BY <1>4 DEF Lowered
  <2> QED BY <1>4, <2>1 DEF Return
<1>5. CASE term.op = "unreachable"
  <2>1. ops = <<Unreachable>>
    BY <1>5 DEF Lowered
  <2> QED BY <1>5, <2>1 DEF Unreachable
<1>6. CASE term.op = "switch_int"
  <2>1. ops = <<SwitchInt(term.targets)>>
    BY <1>6 DEF Lowered
  <2> QED BY <1>6, <2>1 DEF SwitchInt
<1>7. CASE term.op = "assert"
  <2>1. ops = <<Assert, Goto(b)>>
    BY <1>7 DEF Lowered, b
  <2>2. /\ DOMAIN ops = {1, 2} /\ ops[1].op = "assert"
        /\ ops[2].op = "goto" /\ ops[2].targets = {b}
    BY <2>1 DEF Assert, Goto
  <2>3. n = 1 \/ n = 2
    BY <2>2
  <2>4. term.targets = {b}
    BY <1>2, <1>7
  <2> QED BY <1>7, <2>1, <2>2, <2>3, <2>4
<1>8. CASE term.op = "call" /\ term.targets = {}
  <2>1. ops = <<CallFunction, Unreachable>>
    BY <1>8 DEF Lowered
  <2> QED BY <1>8, <2>1 DEF CallFunction, Unreachable
<1>9. CASE term.op = "call" /\ term.targets # {}
  <2>1. ops = <<CallFunction, Goto(b)>>
    BY <1>9 DEF Lowered, b
  <2>2. /\ DOMAIN ops = {1, 2} /\ ops[1].op = "call"
        /\ ops[2].op = "goto" /\ ops[2].targets = {b}
    BY <2>1 DEF CallFunction, Goto
  <2>3. n = 1 \/ n = 2
    BY <2>2
  <2>4. term.targets = {b}
    BY <1>2, <1>9
  <2> QED BY <1>9, <2>1, <2>2, <2>3, <2>4
<1>10. CASE term.op = "drop"
  <2>1. ops = <<CallDropBridge(term.place), Goto(b)>> /\ term.bridge
    BY <1>10 DEF Lowered, b, ExpandsDrop
  <2>2. /\ DOMAIN ops = {1, 2} /\ ops[1].op = "drop_bridge" /\ ops[1].place = term.place
        /\ ops[2].op = "goto" /\ ops[2].targets = {b}
    BY <2>1 DEF CallDropBridge, Goto
  <2>3. n = 1 \/ n = 2
    BY <2>2
  <2>4. term.targets = {b}
    BY <1>2, <1>10
  <2> QED BY <1>10, <2>1, <2>2, <2>3, <2>4
<1> QED BY <1>1, <1>3, <1>4, <1>5, <1>6, <1>7, <1>8, <1>9, <1>10 DEF Accepted

-----------------------------------------------------------------------------
(* Every operation is a step of Rust or a stutter.                          *)

(* The function is being run, control is in the MIR block i. *)
RunningIn(i) ==
  /\ Complete /\ phase = "done" /\ status = "running"
  /\ func \in Funcs
  /\ i \in DOMAIN func /\ func[i].index = at
  /\ InBlock(func, i, typed, held, log, pc, ip)

(* What a step that keeps running has to show. *)
Runs ==
  /\ Inside(func, typed, at', held', log', pc', ip')
  /\ [Rust!Next]_(Rust!vars)

(* While the program runs, control is in some MIR block.                    *)
LEMMA ExecFrame ==
  ASSUME Complete, ExecInv, status = "running"
  PROVE  \E i : RunningIn(i)
<1>1. phase = "done" /\ func \in Funcs
  BY DEF Complete, IndexInv, TypeOK, ExecInv, ExecStatus
<1> QED BY <1>1 DEF ExecInv, Inside, RunningIn

(* A step that goes on running keeps the invariant when control stays       *)
(* inside.                                                                  *)
LEMMA StaysRunning ==
  ASSUME phase = "done", UNCHANGED liftVars, status' = "running",
         Inside(func, typed, at', held', log', pc', ip')
  PROVE  ExecInv'
<1>1. UNCHANGED <<func, typed, phase>>
  BY DEF liftVars
<1>2. ExecStatus'
  BY <1>1 DEF ExecStatus
<1>3. Inside(func, typed, at, held, log, pc, ip)'
  BY <1>1
<1> QED BY <1>2, <1>3 DEF ExecInv

(* A step that stops keeps it.                                              *)
LEMMA StopsRunning ==
  ASSUME phase = "done", UNCHANGED liftVars, status' \in {"returned", "trapped"}
  PROVE  ExecInv'
<1>1. UNCHANGED <<func, typed, phase>>
  BY DEF liftVars
<1> QED BY <1>1 DEF ExecStatus, ExecInv

(* A step of execution leaves the function alone.                           *)
LEMMA FuncStays == ASSUME UNCHANGED liftVars PROVE func' = func /\ phase' = phase
  BY DEF liftVars

(* Control leaves the MIR block i for the block b. *)
LEMMA JumpsOut ==
  ASSUME NEW i, RunningIn(i), NEW b, b \in func[i].term.targets, Jump(b),
         log = Rust!OwedBy(func[i].term, held),
         func' = func, status' = status
  PROVE  Runs
<1>1. b \in MirIndices(func)
  BY BodyFacts DEF RunningIn
<1>2. at' = b /\ held' \in Rust!ValuesAt(func, b) /\ log' = << >> /\ pc' = b /\ ip' = 1
  BY <1>1 DEF Jump
<1>3. Inside(func, typed, b, held', << >>, b, 1)
  <2>1. PICK h : h = held'
    OBVIOUS
  <2>2. Inside(func, typed, b, h, << >>, b, 1)
    BY <1>1, <1>2, <2>1, EntersMir DEF RunningIn
  <2> QED BY <2>1, <2>2
<1>4. Rust!Term = func[i].term
  BY RustTerm DEF RunningIn
<1>5. Rust!EnterBlock(b)
  BY <1>2 DEF Rust!EnterBlock
<1>6. Rust!Leave
  BY <1>4, <1>5 DEF Rust!Leave, RunningIn
<1> QED BY <1>2, <1>3, <1>6 DEF Runs, Rust!Next

(* Control goes from one block of the glue to where s is left to destroy. *)
LEMMA JumpsOn ==
  ASSUME NEW i, RunningIn(i), ExpandsDrop(func, i),
         held \in Rust!Values(Root(func, i)),
         NEW rest, Settled(func, i, held, rest, typed),
         NEW s \in Seq(Address), log \in Seq(Address),
         Rust!Owed(Root(func, i), held) = log \o s,
         NEW b, Goes(func, i, rest, b, s), Jump(b),
         func' = func, status' = status
  PROVE  Runs
<1>1. CASE b = Out(func, i) /\ s = << >>
  <2>1. b \in func[i].term.targets
    BY <1>1, RootFacts DEF RunningIn
  <2>2. log = Rust!OwedBy(func[i].term, held)
    BY <1>1, OwedByIs, ConcatEmptySeq
  <2> QED BY <2>1, <2>2, JumpsOut
<1>2. CASE b \in DOMAIN rest \ MirIndices(func) /\ rest[b] = s
  <2>1. pc' = b /\ ip' = 1 /\ UNCHANGED <<at, held, log>>
    BY <1>2 DEF Jump
  <2>2. InGlue(func, i, typed, held, log, b, 1)
    BY <1>2, EntersPlanned DEF RunningIn, Complete
  <2>3. Inside(func, typed, at, held, log, b, 1)
    BY <2>2 DEF Inside, InBlock, RunningIn
  <2> QED BY <2>1, <2>3 DEF Runs, Rust!vars
<1> QED BY <1>1, <1>2 DEF Goes

(* The operations of a block of the glue: destructor calls, and the branch. *)
LEMMA GlueOps ==
  ASSUME NEW os \in Seq(OwnCalls), NEW o, NEW n \in 1..(Len(os) + 1),
         NEW ops, ops = os \o <<o>>
  PROVE  /\ n \in DOMAIN ops
         /\ \/ /\ ops[n] \in OwnCalls
               /\ n + 1 \in 1..(Len(os) + 1)
               /\ Destroyed(SubSeq(os, n, Len(os)))
                    = <<ops[n].place.addr>> \o Destroyed(SubSeq(os, n + 1, Len(os)))
               /\ SubSeq(os, n + 1, Len(os)) \in Seq(OwnCalls)
            \/ /\ ops[n] = o
               /\ Destroyed(SubSeq(os, n, Len(os))) = << >>
<1> DEFINE m == Len(os)
<1>1. /\ m \in Nat /\ DOMAIN os = 1..m /\ Len(ops) = m + 1 /\ DOMAIN ops = 1..(m + 1)
      /\ \A j \in 1..m : ops[j] = os[j]
      /\ ops[m + 1] = o
  OBVIOUS
<1>2. n \in DOMAIN ops
  BY <1>1
<1>3. CASE n = m + 1
  <2>1. SubSeq(os, n, m) = << >>
    BY <1>1, <1>3
  <2> QED BY <1>1, <1>2, <1>3, <2>1, DestroyedFacts
<1>4. CASE n # m + 1
  <2> DEFINE a == SubSeq(os, n, m)
             c == SubSeq(os, n + 1, m)
  <2>1. n \in 1..m /\ n + 1 \in 1..(m + 1)
    BY <1>1, <1>4
  <2>2. ops[n] = os[n] /\ os[n] \in OwnCalls
    BY <1>1, <2>1
  <2>3. a \in Seq(OwnCalls) /\ c \in Seq(OwnCalls) /\ a = <<os[n]>> \o c
    BY <1>1, <2>1
  <2>4. Destroyed(<<os[n]>>) = <<os[n].place.addr>> /\ <<os[n]>> \in Seq(OwnCalls)
    BY <2>2 DEF Destroyed
  <2> HIDE DEF a, c
  <2>5. Destroyed(a) = <<os[n].place.addr>> \o Destroyed(c)
    <3>1. \A pp, qq \in Seq(OwnCalls) : Destroyed(pp \o qq) = Destroyed(pp) \o Destroyed(qq)
      BY DestroyedFacts
    <3> QED BY <2>3, <2>4, <3>1
  <2> QED BY <1>2, <2>1, <2>2, <2>3, <2>5 DEF a, c
<1> QED BY <1>3, <1>4

(* An own call is a destructor call of a place.                             *)
LEMMA OwnCallIs ==
  ASSUME NEW o \in OwnCalls
  PROVE  o.op = "drop_impl" /\ o.place \in Place /\ o.place.addr \in Address
  BY DEF OwnCalls, CallDropImpl, Place

(* The operation at the program counter.                                    *)
LEMMA OpIs == Ops(pc) = OpsIn(typed, pc) /\ Op = OpsIn(typed, pc)[ip]
  BY DEF Ops, Op, OpsIn

(* A destructor call inside the glue is Rust's next destruction.            *)
LEMMA GlueDrops ==
  ASSUME NEW i, RunningIn(i), ExpandsDrop(func, i), ExecDrop
  PROVE  Runs
<1>1. PICK rest : /\ held \in Rust!Values(Root(func, i))
                  /\ Settled(func, i, held, rest, typed)
                  /\ Halfway(func, i, typed, held, rest, log, pc, ip)
  BY DEF RunningIn, InBlock, InGlue
<1>2. PICK os \in Seq(OwnCalls), s \in Seq(Address), o \in TypedOp :
        /\ OpsIn(typed, pc) = os \o <<o>>
        /\ ip \in 1..(Len(os) + 1)
        /\ Ending(func, i, held, rest, o, s)
        /\ Rust!Owed(Root(func, i), held)
             = log \o (Destroyed(SubSeq(os, ip, Len(os))) \o s)
        /\ log \in Seq(Address)
  BY <1>1 DEF Halfway
<1>3. /\ Op.op \in {"drop_impl", "drop_bridge"}
      /\ log' = Append(log, Op.place.addr)
      /\ ip' = ip + 1 /\ UNCHANGED <<pc, at, status, held>> /\ func' = func
  BY FuncStays DEF ExecDrop, Exec, Continue
<1> DEFINE a == Op.place.addr
           d == Destroyed(SubSeq(os, ip + 1, Len(os)))
           r == d \o s
<1>4. /\ Op \in OwnCalls
      /\ ip + 1 \in 1..(Len(os) + 1)
      /\ Destroyed(SubSeq(os, ip, Len(os))) = <<a>> \o d
      /\ SubSeq(os, ip + 1, Len(os)) \in Seq(OwnCalls)
  <2>1. Op # o
    BY <1>2, <1>3 DEF Ending
  <2>2. Op = (os \o <<o>>)[ip]
    BY <1>2, OpIs
  <2> HIDE DEF a, d
  <2> QED BY <1>2, <2>1, <2>2, GlueOps DEF a, d
<1>5. a \in Address /\ d \in Seq(Address)
  BY <1>4, OwnCallIs, DestroyedFacts
<1> HIDE DEF a, d
<1>6. r \in Seq(Address)
  BY <1>2, <1>5
<1>7. Rust!Owed(Root(func, i), held) = log \o (<<a>> \o r)
  <2>1. <<a>> \in Seq(Address) /\ Associates(Address)
    <3>1. Associates(Address)
      BY ConcatAssociates, Zenon
    <3> QED BY <1>5, <3>1
  <2>2. (<<a>> \o d) \o s = <<a>> \o (d \o s)
    BY <1>2, <1>5, <2>1 DEF Associates
  <2> QED BY <1>2, <1>4, <2>2
<1> HIDE DEF r
<1>8. /\ log \o (<<a>> \o r) = Append(log, a) \o r
      /\ Append(log, a) \in Seq(Address)
      /\ Len(log \o (<<a>> \o r)) > Len(log)
      /\ (log \o (<<a>> \o r))[Len(log) + 1] = a
  BY <1>2, <1>5, <1>6
<1>9. Rust!OwedBy(Rust!Term, held) = Rust!Owed(Root(func, i), held)
  BY RustTerm, OwedByIs DEF RunningIn
<1>10. Rust!DropNext
  BY <1>3, <1>7, <1>8, <1>9 DEF Rust!DropNext, RunningIn, a
<1>11. Rust!Owed(Root(func, i), held)
         = Append(log, a) \o (Destroyed(SubSeq(os, ip + 1, Len(os))) \o s)
  BY <1>7, <1>8 DEF d, r
<1>12. Halfway(func, i, typed, held, rest, Append(log, a), pc, ip + 1)
  BY <1>2, <1>4, <1>8, <1>11 DEF Halfway
<1>13. InGlue(func, i, typed, held, Append(log, a), pc, ip + 1)
  BY <1>1, <1>12 DEF InGlue
<1>14. Inside(func, typed, at, held, Append(log, a), pc, ip + 1)
  BY <1>13 DEF Inside, InBlock, RunningIn
<1>15. Inside(func, typed, at', held', log', pc', ip')
  BY <1>3, <1>14 DEF a
<1> QED BY <1>10, <1>15 DEF Runs, Rust!Next

(* A branch inside the glue: a stutter for Rust, unless it leaves the drop, *)
(* when Rust goes on to the target.                                         *)
LEMMA GlueGoes ==
  ASSUME NEW i, RunningIn(i), ExpandsDrop(func, i), ExecGoto \/ ExecSwitchTag
  PROVE  Runs
<1>1. PICK rest : /\ held \in Rust!Values(Root(func, i))
                  /\ Settled(func, i, held, rest, typed)
                  /\ Halfway(func, i, typed, held, rest, log, pc, ip)
  BY DEF RunningIn, InBlock, InGlue
<1>2. PICK os \in Seq(OwnCalls), s \in Seq(Address), o \in TypedOp :
        /\ OpsIn(typed, pc) = os \o <<o>>
        /\ ip \in 1..(Len(os) + 1)
        /\ Ending(func, i, held, rest, o, s)
        /\ Rust!Owed(Root(func, i), held)
             = log \o (Destroyed(SubSeq(os, ip, Len(os))) \o s)
        /\ log \in Seq(Address)
  BY <1>1 DEF Halfway
<1>3. Op.op \in {"goto", "switch_int", "switch_tag"} /\ status' = status /\ func' = func
  BY FuncStays DEF ExecGoto, ExecSwitchTag, Exec
<1>4. Op = o /\ Destroyed(SubSeq(os, ip, Len(os))) = << >>
  <2>1. Op \notin OwnCalls
    BY <1>3, OwnCallIs
  <2>2. Op = (os \o <<o>>)[ip]
    BY <1>2, OpIs
  <2> QED BY <1>2, <2>1, <2>2, GlueOps
<1>5. Rust!Owed(Root(func, i), held) = log \o s
  <2>1. << >> \o s = s
    BY <1>2, ConcatEmptySeq
  <2> QED BY <1>2, <1>4, <2>1
<1>6. \E b : Goes(func, i, rest, b, s) /\ Jump(b)
  <2>1. CASE ExecGoto
    <3>1. PICK b \in o.targets : Jump(b)
      BY <1>4, <2>1 DEF ExecGoto
    <3>2. o.op = "goto"
      <4>1. o.op \in {"goto", "switch_int"}
        BY <1>4, <2>1 DEF ExecGoto, Exec
      <4> QED BY <1>2, <4>1 DEF Ending
    <3> QED BY <1>2, <3>1, <3>2 DEF Ending
  <2>2. CASE ExecSwitchTag
    <3>1. o.op = "switch_tag"
      BY <1>4, <2>2 DEF ExecSwitchTag, Exec
    <3>2. Tag(o.place) = TagOf(o.place, held)
      BY DEF Tag, TagOf
    <3>3. CASE \E j \in DOMAIN o.arms : o.arms[j].case = Tag(o.place) /\ Jump(o.arms[j].index)
      BY <1>2, <3>1, <3>2, <3>3 DEF Ending
    <3>4. CASE (\A j \in DOMAIN o.arms : o.arms[j].case # Tag(o.place)) /\ Jump(o.default)
      BY <1>2, <3>1, <3>2, <3>4 DEF Ending
    <3> QED BY <1>4, <2>2, <3>3, <3>4 DEF ExecSwitchTag
  <2> QED BY <2>1, <2>2
<1> QED BY <1>1, <1>2, <1>3, <1>5, <1>6, JumpsOn

(* The glue has no other operations.                                        *)
LEMMA GlueDoesNoOther ==
  ASSUME NEW i, RunningIn(i), ExpandsDrop(func, i)
  PROVE  ~ExecCall /\ ~ExecReturn /\ ~ExecUnreachable
<1>1. PICK rest : Halfway(func, i, typed, held, rest, log, pc, ip)
  BY DEF RunningIn, InBlock, InGlue
<1>2. PICK os \in Seq(OwnCalls), s \in Seq(Address), o \in TypedOp :
        /\ OpsIn(typed, pc) = os \o <<o>>
        /\ ip \in 1..(Len(os) + 1)
        /\ Ending(func, i, held, rest, o, s)
  BY <1>1 DEF Halfway
<1>3. Op \in OwnCalls \/ Op = o
  <2>1. Op = (os \o <<o>>)[ip]
    BY <1>2, OpIs
  <2> QED BY <1>2, <2>1, GlueOps
<1>4. Op.op \in {"drop_impl", "goto", "switch_tag"}
  BY <1>2, <1>3, OwnCallIs DEF Ending
<1> QED BY <1>4 DEF ExecCall, ExecReturn, ExecUnreachable, Exec

(* The operation run in a block without glue. *)
LEMMA PlainOp ==
  ASSUME NEW i, RunningIn(i), ~ExpandsDrop(func, i)
  PROVE  LET term == func[i].term IN
         /\ InPlain(func, i, typed, log, pc, ip)
         /\ ip \in {1, 2}
         /\ Op.op \in {"goto", "switch_int"}
              => Op.targets = term.targets /\ (term.op = "drop" => ip > 1)
         /\ Op.op = "return" => term.op = "return"
         /\ Op.op = "unreachable" => term.op \in {"unreachable", "call"}
         /\ Op.op \in {"call", "assert"}
              => term.op \in {"call", "assert"} /\ ip + 1 \in DOMAIN Lowered(term)
         /\ Op.op = "drop_bridge"
              => /\ term.op = "drop" /\ term.bridge /\ ip = 1
                 /\ ip + 1 \in DOMAIN Lowered(term)
                 /\ Op.place = term.place
         /\ Op.op \notin {"drop_impl", "switch_tag"}
<1>1. InPlain(func, i, typed, log, pc, ip)
  BY DEF RunningIn, InBlock
<1>2. /\ func \in Funcs /\ i \in DOMAIN func /\ Accepted(func, i)
  BY DoneFacts DEF RunningIn
<1>3. Op = Lowered(func[i].term)[ip] /\ ip \in DOMAIN Lowered(func[i].term)
  BY <1>1, OpIs DEF InPlain
<1> QED BY <1>1, <1>2, <1>3, LoweredIs

(* A bridge destroys its place.                                             *)
LEMMA PlainDrops ==
  ASSUME NEW i, RunningIn(i), ~ExpandsDrop(func, i), ExecDrop
  PROVE  Runs
<1> DEFINE term == func[i].term
           a == term.place.addr
<1>1. /\ Op.op \in {"drop_impl", "drop_bridge"}
      /\ log' = Append(log, Op.place.addr)
      /\ ip' = ip + 1 /\ UNCHANGED <<pc, at, status, held>> /\ func' = func
  BY FuncStays DEF ExecDrop, Exec, Continue
<1>2. /\ InPlain(func, i, typed, log, pc, ip)
      /\ term.op = "drop" /\ term.bridge /\ ip = 1
      /\ ip + 1 \in DOMAIN Lowered(term)
      /\ Op.place = term.place
  BY <1>1, PlainOp
<1>3. log = << >>
  BY <1>2 DEF InPlain
<1>4. Rust!OwedBy(Rust!Term, held) = <<a>>
  BY <1>2, RustTerm, OwedByIs DEF RunningIn
<1>5. log' = <<a>>
  BY <1>1, <1>2, <1>3
<1>6. Rust!DropNext
  <2>1. Len(log) = 0 /\ Len(<<a>>) = 1 /\ <<a>>[1] = a /\ Append(log, a) = <<a>>
    BY <1>3
  <2>2. Len(log) < Len(<<a>>) /\ <<a>>[Len(log) + 1] = a
    BY <2>1
  <2> HIDE DEF a, term
  <2> QED BY <1>1, <1>4, <1>5, <2>1, <2>2 DEF Rust!DropNext, RunningIn
<1>7. InPlain(func, i, typed, <<a>>, pc, ip + 1)
  <2>1. ip + 1 > 1
    BY <1>2
  <2> QED BY <1>2, <2>1 DEF InPlain
<1>8. Inside(func, typed, at, held, <<a>>, pc, ip + 1)
  BY <1>7 DEF Inside, InBlock, RunningIn
<1>9. Inside(func, typed, at', held', log', pc', ip')
  BY <1>1, <1>5, <1>8
<1> QED BY <1>6, <1>9 DEF Runs, Rust!Next

(* A branch of a block that needed no glue is the branch of its terminator. *)
LEMMA PlainGoes ==
  ASSUME NEW i, RunningIn(i), ~ExpandsDrop(func, i), ExecGoto
  PROVE  Runs
<1>1. /\ Op.op \in {"goto", "switch_int"} /\ status' = status /\ func' = func
      /\ \E b \in Op.targets : Jump(b)
  BY FuncStays DEF ExecGoto, Exec
<1>2. /\ InPlain(func, i, typed, log, pc, ip)
      /\ Op.targets = func[i].term.targets
      /\ func[i].term.op = "drop" => ip > 1
  BY <1>1, PlainOp
<1>3. log = Rust!OwedBy(func[i].term, held)
  <2>1. CASE func[i].term.op = "drop"
    <3>1. func[i].term.bridge
      BY <2>1 DEF ExpandsDrop
    <3> QED BY <1>2, <2>1, <3>1, OwedByIs DEF InPlain
  <2>2. CASE func[i].term.op # "drop"
    BY <1>2, <2>2, OwedByIs DEF InPlain
  <2> QED BY <2>1, <2>2
<1> QED BY <1>1, <1>2, <1>3, JumpsOut

(* Such a block has no switch on a tag.                                     *)
LEMMA PlainSwitches ==
  ASSUME NEW i, RunningIn(i), ~ExpandsDrop(func, i)
  PROVE  ~ExecSwitchTag
<1>1. Op.op # "switch_tag"
  BY PlainOp
<1> QED BY <1>1 DEF ExecSwitchTag, Exec

(* A call returns, and control goes on to the branch after it, or the       *)
(* program traps, as Rust's may.                                            *)
LEMMA PlainCalls ==
  ASSUME NEW i, RunningIn(i), ~ExpandsDrop(func, i), ExecCall
  PROVE  \/ status' = status /\ Runs
         \/ status' = "trapped" /\ Rust!Next
<1>1. Op.op \in {"call", "assert"} /\ func' = func /\ UNCHANGED <<held, log, at>>
  BY FuncStays DEF ExecCall, Exec, Continue
<1>2. /\ InPlain(func, i, typed, log, pc, ip)
      /\ func[i].term.op \in {"call", "assert"}
      /\ ip + 1 \in DOMAIN Lowered(func[i].term)
  BY <1>1, PlainOp
<1>3. CASE Continue /\ UNCHANGED status
  <2>1. InPlain(func, i, typed, log, pc, ip + 1)
    BY <1>2 DEF InPlain
  <2>2. Inside(func, typed, at, held, log, pc, ip + 1)
    BY <2>1 DEF Inside, InBlock, RunningIn
  <2>3. Inside(func, typed, at', held', log', pc', ip')
    BY <1>1, <1>3, <2>2 DEF Continue
  <2>4. UNCHANGED Rust!vars
    BY <1>1, <1>3 DEF Rust!vars
  <2> QED BY <1>3, <2>3, <2>4 DEF Runs
<1>4. CASE status' = "trapped"
  <2>1. Rust!Trap
    BY <1>1, <1>2, <1>4, RustTerm DEF Rust!Trap, RunningIn
  <2> QED BY <1>4, <2>1 DEF Rust!Next
<1> QED BY <1>3, <1>4 DEF ExecCall

(* A return is Rust's return.                                               *)
LEMMA PlainReturns ==
  ASSUME NEW i, RunningIn(i), ~ExpandsDrop(func, i), ExecReturn
  PROVE  status' = "returned" /\ Rust!Next
<1>1. /\ Op.op = "return" /\ func' = func /\ UNCHANGED <<held, log, at>>
      /\ status' = "returned"
  BY FuncStays DEF ExecReturn, Exec
<1>2. func[i].term.op = "return"
  BY <1>1, PlainOp
<1>3. Rust!Return
  BY <1>1, <1>2, RustTerm DEF Rust!Return, RunningIn
<1> QED BY <1>1, <1>3 DEF Rust!Next

(* unreachable is that of the terminator, or that after a call that does    *)
(* not return.                                                              *)
LEMMA PlainTraps ==
  ASSUME NEW i, RunningIn(i), ~ExpandsDrop(func, i), ExecUnreachable
  PROVE  status' = "trapped" /\ Rust!Next
<1>1. /\ Op.op = "unreachable" /\ func' = func /\ UNCHANGED <<held, log, at>>
      /\ status' = "trapped"
  BY FuncStays DEF ExecUnreachable, Exec
<1>2. func[i].term.op \in {"unreachable", "call"}
  BY <1>1, PlainOp
<1>3. Rust!Trap
  BY <1>1, <1>2, RustTerm DEF Rust!Trap, RunningIn
<1> QED BY <1>1, <1>3 DEF Rust!Next

-----------------------------------------------------------------------------
(* The theorems.                                                            *)

(* The invariant of lifting and running.                                    *)
ExecSafe == Complete /\ ExecInv

(* Starting: control is in the entry block, nothing destroyed.              *)
LEMMA StartSteps ==
  ASSUME ExecSafe, Start
  PROVE  ExecInv' /\ Rust!Next
<1>1. /\ phase = "done" /\ status = "new" /\ status' = "running"
      /\ Jump(typed[1].index) /\ UNCHANGED liftVars /\ func' = func
  BY FuncStays DEF Start
<1>2. /\ func \in Funcs /\ typed[1].index = func[1].index
      /\ func[1].index \in MirIndices(func)
      /\ Rust!Supported(func)
  BY <1>1, DoneFacts DEF ExecSafe
<1> DEFINE b == func[1].index
<1>3. at' = b /\ held' \in Rust!ValuesAt(func, b) /\ log' = << >> /\ pc' = b /\ ip' = 1
  BY <1>1, <1>2 DEF Jump
<1>4. Inside(func, typed, b, held', << >>, b, 1)
  <2>1. PICK h : h = held'
    OBVIOUS
  <2>2. Inside(func, typed, b, h, << >>, b, 1)
    BY <1>1, <1>2, <1>3, <2>1, EntersMir DEF ExecSafe
  <2> QED BY <2>1, <2>2
<1>5. ExecInv'
  BY <1>1, <1>3, <1>4, StaysRunning
<1>6. Rust!Call
  BY <1>1, <1>2, <1>3 DEF Rust!Call, Rust!EnterBlock
<1> QED BY <1>5, <1>6 DEF Rust!Next

(* A step of lifting is a stutter for Rust, or the rejection.               *)
LEMMA LiftStepsMap ==
  ASSUME ExecSafe, Complete', LiftNext
  PROVE  ExecInv' /\ [Rust!Next]_(Rust!vars)
<1>1. /\ Next /\ status' = IF phase' = "failed" THEN "rejected" ELSE status
      /\ UNCHANGED <<at, held, log, pc, ip>>
  BY DEF LiftNext
<1>2. phase \in {"scanning", "lifting"} /\ func' = func
  <2>1. CASE EmitDropGlue
    BY <2>1, GlueFrame
  <2>2. CASE Scan \/ ScanDone \/ LiftBlock \/ LiftDrop \/ Finish
    BY <2>2 DEF Scan, ScanDone, LiftBlock, LiftDrop, BeginBlock, Finish
  <2> QED BY <1>1, <2>1, <2>2 DEF Next
<1>3. status = "new" /\ at = func[1].index /\ held = [a \in {} |-> 0] /\ log = << >>
  BY <1>2 DEF ExecSafe, ExecInv, ExecStatus
<1>4. ExecInv'
  BY <1>1, <1>2, <1>3 DEF ExecInv, ExecStatus
<1>5. CASE phase' = "failed"
  <2>1. ~Rust!Supported(func)'
    BY <1>5 DEF Complete, DropInv, Judged
  <2>2. ~Rust!Supported(func)
    BY <1>2, <2>1 DEF Rust!Supported, Rust!Droppable
  <2>3. Rust!Reject
    BY <1>1, <1>2, <1>3, <1>5, <2>2 DEF Rust!Reject
  <2> QED BY <1>4, <2>3 DEF Rust!Next
<1>6. CASE phase' # "failed"
  <2>1. UNCHANGED Rust!vars
    BY <1>1, <1>2, <1>6 DEF Rust!vars
  <2> QED BY <1>4, <2>1
<1> QED BY <1>5, <1>6

(* A step of execution is a step of Rust or a stutter.                      *)
LEMMA ExecStepsMap ==
  ASSUME ExecSafe, ExecNext, ~Start
  PROVE  ExecInv' /\ [Rust!Next]_(Rust!vars)
<1>1. /\ status = "running" /\ UNCHANGED liftVars
      /\ ExecDrop \/ ExecCall \/ ExecGoto \/ ExecSwitchTag \/ ExecReturn \/ ExecUnreachable
  BY DEF ExecNext, ExecDrop, ExecCall, ExecGoto, ExecSwitchTag, ExecReturn,
         ExecUnreachable, Exec
<1>2. PICK i : RunningIn(i)
  BY <1>1, ExecFrame DEF ExecSafe
<1>3. phase = "done"
  BY <1>2 DEF RunningIn
<1>4. CASE ExecDrop \/ ExecGoto \/ ExecSwitchTag
  <2>1. status' = "running"
    BY <1>1, <1>4 DEF ExecDrop, ExecGoto, ExecSwitchTag
  <2>2. Runs
    BY <1>2, <1>4, GlueDrops, GlueGoes, PlainDrops, PlainGoes, PlainSwitches
  <2> QED BY <1>1, <1>3, <2>1, <2>2, StaysRunning DEF Runs
<1>5. CASE ExecCall
  <2>1. ~ExpandsDrop(func, i)
    BY <1>2, <1>5, GlueDoesNoOther
  <2>2. CASE status' = status /\ Runs
    BY <1>1, <1>3, <2>2, StaysRunning DEF Runs
  <2>3. CASE status' = "trapped" /\ Rust!Next
    BY <1>1, <1>3, <2>3, StopsRunning
  <2> QED BY <1>2, <1>5, <2>1, <2>2, <2>3, PlainCalls
<1>6. CASE ExecReturn \/ ExecUnreachable
  <2>1. status' \in {"returned", "trapped"} /\ Rust!Next
    BY <1>2, <1>6, GlueDoesNoOther, PlainReturns, PlainTraps
  <2> QED BY <1>1, <1>3, <2>1, StopsRunning
<1> QED BY <1>1, <1>4, <1>5, <1>6

(* The invariant of lifting is inductive.                                   *)
LEMMA CompleteStep ==
  ASSUME DropsKnown, Complete, [LiftNext \/ ExecNext]_vars
  PROVE  Complete'
<1>1. [Next]_liftVars
  <2>1. CASE LiftNext
    BY <2>1 DEF LiftNext
  <2>2. CASE ExecNext
    BY <2>2 DEF ExecNext, Start, ExecDrop, ExecCall, ExecGoto, ExecSwitchTag,
                ExecReturn, ExecUnreachable, Exec
  <2>3. CASE UNCHANGED vars
    BY <2>3 DEF vars
  <2> QED BY <2>1, <2>2, <2>3
<1>2. IndexInv'
  BY <1>1, ScanStep, ScanDoneStep, LiftBlockStep, LiftDropStep, EmitDropGlueStep,
     FinishStep, StutterStep DEF Next, Complete
<1>3. BlockInv'
  BY <1>1, LiftBlockKeeps, LiftDropKeeps, EmitDropGlueHandover, OtherStepsKeep
     DEF Next, Complete
<1>4. DropInv'
  BY <1>1, DropInvStep DEF Complete
<1> QED BY <1>2, <1>3, <1>4 DEF Complete

(* It holds initially.                                                      *)
LEMMA InitComplete ==
  ASSUME Init
  PROVE  Complete
<1>1. BlockInv
  BY DEF Init, BlockInv, BlockDiscipline, OwnersApart, OwnedOpen,
         OthersClosed, NoneForgotten
<1> QED BY <1>1, InitIndexInv, InitDropInv DEF Complete

(* ExecSafe is inductive, and every step maps to a step or a stutter of     *)
(* RustDrop.                                                                *)
LEMMA ExecSafeStep ==
  ASSUME DropsKnown, ExecSafe, [LiftNext \/ ExecNext]_vars
  PROVE  ExecSafe' /\ [Rust!Next]_(Rust!vars)
<1>1. Complete'
  BY CompleteStep DEF ExecSafe
<1>2. ExecInv' /\ [Rust!Next]_(Rust!vars)
  <2>1. CASE LiftNext
    BY <1>1, <2>1, LiftStepsMap
  <2>2. CASE Start
    BY <2>2, StartSteps
  <2>3. CASE ExecNext /\ ~Start
    BY <2>3, ExecStepsMap
  <2>4. CASE UNCHANGED vars
    <3>1. UNCHANGED <<func, typed, phase, status, at, held, log, pc, ip>>
      BY <2>4 DEF vars, liftVars, execVars
    <3>2. UNCHANGED Rust!vars
      BY <3>1 DEF Rust!vars
    <3>3. ExecStatus'
      BY <3>1 DEF ExecSafe, ExecInv, ExecStatus
    <3>4. Inside(func, typed, at, held, log, pc, ip)'
            <=> Inside(func, typed, at, held, log, pc, ip)
      BY <3>1
    <3> QED BY <3>1, <3>2, <3>3, <3>4 DEF ExecSafe, ExecInv
  <2> QED BY <2>1, <2>2, <2>3, <2>4
<1> QED BY <1>1, <1>2 DEF ExecSafe

(* The initial states map to those of RustDrop.                             *)
LEMMA InitExecSafe ==
  ASSUME Init, InitExec
  PROVE  ExecSafe /\ Rust!Init
<1>1. Complete
  BY InitComplete
<1>2. ExecInv
  BY DEF Init, InitExec, ExecInv, ExecStatus
<1>3. Rust!Init
  BY DEF Init, InitExec, Rust!Init
<1> QED BY <1>1, <1>2, <1>3 DEF ExecSafe

(* The pass fails exactly for the functions it does not support: when it is *)
(* done every drop it expanded is of a place it has all the glue for, and   *)
(* when it has failed there is a terminator, or a place inside a dropped    *)
(* one, that the lowering has nothing for (lowerBody, lowerDrop,            *)
(* emitDropGlueTo).                                                         *)
THEOREM LiftingJudgesDrops ==
  ASSUME DropsKnown
  PROVE  Spec => [](/\ phase = "done" => Rust!Supported(func)
                    /\ phase = "failed" => ~Rust!Supported(func))
<1>1. Init => Complete
  BY InitComplete
<1>2. Complete /\ [Next]_liftVars => Complete'
  <2> SUFFICES ASSUME Complete, [Next]_liftVars PROVE Complete'
    OBVIOUS
  <2>1. IndexInv'
    BY ScanStep, ScanDoneStep, LiftBlockStep, LiftDropStep, EmitDropGlueStep,
       FinishStep, StutterStep DEF Next, Complete
  <2>2. BlockInv'
    BY LiftBlockKeeps, LiftDropKeeps, EmitDropGlueHandover, OtherStepsKeep
       DEF Next, Complete
  <2>3. DropInv'
    BY DropInvStep DEF Complete
  <2> QED BY <2>1, <2>2, <2>3 DEF Complete
<1>3. Complete => /\ phase = "done" => Rust!Supported(func)
                  /\ phase = "failed" => ~Rust!Supported(func)
  BY DoneFacts DEF Complete, DropInv, Judged
<1> QED BY <1>1, <1>2, <1>3, PTL DEF Spec

(* ImplementsRustDrop but for its fairness, for every type table and every  *)
(* body: the initial states of a lifted program are initial states of       *)
(* RustDrop, and every step of lifting and of running the blocks it leaves  *)
(* behind is a step of RustDrop or a stutter. So every destructor a drop    *)
(* owes is called once and in Rust's order, and control goes on to the      *)
(* target after the last of them.                                           *)
THEOREM ExecutionStepsAsRust ==
  ASSUME DropsKnown
  PROVE  ExecSpec => Rust!Init /\ [][Rust!Next]_(Rust!vars)
<1>1. Init /\ InitExec => ExecSafe /\ Rust!Init
  BY InitExecSafe
<1>2. ExecSafe /\ [LiftNext \/ ExecNext]_vars => ExecSafe' /\ [Rust!Next]_(Rust!vars)
  BY ExecSafeStep
<1> QED BY <1>1, <1>2, PTL DEF ExecSpec

(* What test/Runner/drop-structural-rs.mlir:4-9 checks of its types, for    *)
(* every type the hypothesis covers: before control goes on to the next MIR *)
(* block, exactly the destructors owed have been called. The run of         *)
(* MCExecOwed shows what happens outside it.                                *)
THEOREM DropsAreWhatIsOwed ==
  ASSUME DropsKnown
  PROVE  ExecSpec => DropsWhatIsOwed
<1>1. Init /\ InitExec => ExecSafe
  BY InitExecSafe
<1>2. ExecSafe /\ [LiftNext \/ ExecNext]_vars => ExecSafe'
  BY ExecSafeStep
<1>3. ExecSafe /\ [LiftNext \/ ExecNext]_vars
        => [at' # at /\ status = "running" =>
              log = Rust!OwedBy(BlockAt(func, at).term, held)]_vars
  <2> SUFFICES ASSUME ExecSafe, [LiftNext \/ ExecNext]_vars,
                      at' # at, status = "running"
               PROVE  log = Rust!OwedBy(BlockAt(func, at).term, held)
    OBVIOUS
  <2>1. [Rust!Next]_(Rust!vars)
    BY ExecSafeStep
  <2>2. Rust!Leave
    BY <2>1 DEF Rust!vars, Rust!Next, Rust!Reject, Rust!Call, Rust!DropNext,
                Rust!Return, Rust!Trap
  <2>3. Rust!Term = BlockAt(func, at).term
    BY DEF Rust!Term, Rust!BlockAt, BlockAt
  <2> QED BY <2>2, <2>3 DEF Rust!Leave
<1> QED BY <1>1, <1>2, <1>3, PTL DEF ExecSpec, DropsWhatIsOwed

=============================================================================
