-------------------------- MODULE FuncDecls_proofs --------------------------
(***************************************************************************)
(* Theorems about function types, for every program rustc can hand over:    *)
(* the operand of a call lands in the slot of its argument, and a module    *)
(* comes out exactly when its functions fit together.  The second is the    *)
(* safety half of DecidesAgreement, shown step by step: the verdict is the  *)
(* abstract one, and every step of the two passes is Decide or leaves the   *)
(* program and the verdict alone.  That a verdict is reached is a liveness  *)
(* property, which the run of this module checks.                           *)
(***************************************************************************)
EXTENDS FuncDecls, FiniteSetTheorems, TLAPS

(* What rustc guarantees of one function. *)
RustcFunction(fn) ==
    /\ IsSequence(fn.uses) /\ IsSequence(fn.locals)
    /\ \A j, k \in DOMAIN fn.locals :
         fn.locals[j].index = fn.locals[k].index => j = k
    /\ {l.index : l \in Arguments(fn)} = 1..Cardinality(Arguments(fn))

-----------------------------------------------------------------------------
(* The slots of a function's arguments.                                     *)

(* The arguments of a function are counted by their indices.                *)
LEMMA ArgumentFacts ==
  ASSUME NEW fn, RustcFunction(fn)
  PROVE  /\ IsFiniteSet(Arguments(fn))
         /\ Cardinality(Arguments(fn)) \in Nat
         /\ \A l \in Arguments(fn) : l.index \in 1..Cardinality(Arguments(fn))
         /\ \A l, m \in Arguments(fn) : l.index = m.index => l = m
         /\ \A i \in 1..Cardinality(Arguments(fn)) :
              \E l \in Arguments(fn) : l.index = i
<1> DEFINE A == Arguments(fn)
           D == {j \in DOMAIN fn.locals : fn.locals[j].role = "arg"}
           g == [k \in D |-> fn.locals[k]]
<1>1. IsFiniteSet(D)
  <2>1. Len(fn.locals) \in Nat /\ DOMAIN fn.locals = 1..Len(fn.locals)
    BY DEF RustcFunction, IsSequence
  <2>2. IsFiniteSet(1..Len(fn.locals))
    BY <2>1, FS_Interval
  <2>3. D \in SUBSET (1..Len(fn.locals))
    BY <2>1
  <2> HIDE DEF D
  <2> QED BY <2>2, <2>3, FS_Subset
<1>2. g \in Surjection(D, A)
  <2>1. A = {fn.locals[k] : k \in D}
    BY DEF Arguments
  <2> HIDE DEF D, A
  <2>2. g \in [D -> A]
    BY <2>1
  <2>3. \A a \in A : \E k \in D : g[k] = a
    BY <2>1
  <2> HIDE DEF g
  <2> QED BY <2>2, <2>3 DEF Surjection
<1>3. IsFiniteSet(A)
  <2> HIDE DEF g, D, A
  <2> QED BY <1>1, <1>2, FS_Surjection
<1>4. Cardinality(A) \in Nat
  <2> HIDE DEF A
  <2> QED BY <1>3, FS_CardinalityType
<1>5. {l.index : l \in A} = 1..Cardinality(A)
  BY DEF RustcFunction
<1>6. \A l, m \in A : l.index = m.index => l = m
  BY DEF RustcFunction, Arguments
<1> HIDE DEF A
<1>7. (\A l \in A : l.index \in 1..Cardinality(A))
      /\ \A i \in 1..Cardinality(A) : \E l \in A : l.index = i
  BY <1>5
<1> QED BY <1>3, <1>4, <1>6, <1>7 DEF A

(* As many arguments stand before an argument as its index says.            *)
LEMMA Rank ==
  ASSUME NEW fn, RustcFunction(fn), NEW l \in Arguments(fn)
  PROVE  Cardinality({m \in Arguments(fn) : m.index < l.index}) = l.index - 1
<1> DEFINE A == Arguments(fn)
           B == {m \in A : m.index < l.index}
           I == 1..(l.index - 1)
           g == [m \in B |-> m.index]
<1>1. /\ \A m \in A : m.index \in 1..Cardinality(A)
      /\ \A m, k \in A : m.index = k.index => m = k
      /\ \A i \in 1..Cardinality(A) : \E m \in A : m.index = i
      /\ Cardinality(A) \in Nat /\ IsFiniteSet(A)
  BY ArgumentFacts
<1>2. l \in A
  OBVIOUS
<1> HIDE DEF A
<1>3. l.index \in Nat /\ l.index >= 1 /\ l.index <= Cardinality(A)
  BY <1>1, <1>2
<1>4. g \in Bijection(B, I)
  <2>1. g \in [B -> I]
    BY <1>1, <1>3
  <2>2. \A m, k \in B : g[m] = g[k] => m = k
    BY <1>1
  <2>3. \A i \in I : \E m \in B : g[m] = i
    <3> SUFFICES ASSUME NEW i \in I PROVE \E m \in B : g[m] = i
      OBVIOUS
    <3>1. i \in 1..Cardinality(A) /\ i < l.index
      BY <1>1, <1>3
    <3>2. PICK m \in A : m.index = i
      BY <1>1, <3>1
    <3> QED BY <3>1, <3>2
  <2> HIDE DEF g, B, I
  <2>4. g \in Injection(B, I)
    BY <2>1, <2>2 DEF Injection, IsInjective
  <2>5. g \in Surjection(B, I)
    BY <2>1, <2>3 DEF Surjection
  <2> QED BY <2>4, <2>5 DEF Bijection
<1>5. IsFiniteSet(B)
  <2>1. B \in SUBSET A
    OBVIOUS
  <2> HIDE DEF B
  <2> QED BY <1>1, <2>1, FS_Subset
<1>6. Cardinality(I) = Cardinality(B)
  <2> HIDE DEF g, B, I
  <2> QED BY <1>4, <1>5, FS_Bijection DEF ExistsBijection
<1>7. Cardinality(I) = l.index - 1
  <2>1. l.index - 1 \in Int /\ 1 \in Int
    BY <1>3
  <2>2. Cardinality(I) = IF 1 > l.index - 1 THEN 0 ELSE l.index - 1 - 1 + 1
    BY <2>1, FS_Interval
  <2> QED BY <1>3, <2>2
<1> QED BY <1>6, <1>7 DEF A

(* collectArgumentSlots puts the slot of local _k at position k.            *)
LEMMA SlotFacts ==
  ASSUME NEW fn, RustcFunction(fn)
  PROVE  /\ DOMAIN ArgumentSlots(fn) = 1..Cardinality(Arguments(fn))
         /\ \A k \in 1..Cardinality(Arguments(fn)) :
              /\ ArgumentSlots(fn)[k] \in Arguments(fn)
              /\ ArgumentSlots(fn)[k].index = k
<1> DEFINE A == Arguments(fn)
           before(l) == Cardinality({m \in A : m.index < l.index})
<1>1. /\ \A l \in A : l.index \in 1..Cardinality(A)
      /\ \A i \in 1..Cardinality(A) : \E l \in A : l.index = i
      /\ Cardinality(A) \in Nat
  BY ArgumentFacts
<1>2. \A l \in A : before(l) = l.index - 1
  BY Rank
<1>3. ArgumentSlots(fn) =
        [k \in 1..Cardinality(A) |-> CHOOSE l \in A : before(l) = k - 1]
  BY DEF ArgumentSlots
<1> HIDE DEF A, before
<1>4. ASSUME NEW k \in 1..Cardinality(A)
      PROVE  ArgumentSlots(fn)[k] \in A /\ ArgumentSlots(fn)[k].index = k
  <2> DEFINE s == CHOOSE l \in A : before(l) = k - 1
  <2>1. PICK l \in A : l.index = k
    BY <1>1
  <2>2. s \in A /\ before(s) = k - 1
    BY <1>2, <2>1
  <2>3. ArgumentSlots(fn)[k] = s
    BY <1>3
  <2> HIDE DEF s
  <2>4. s.index \in Int /\ s.index - 1 = k - 1 /\ k \in Int
    BY <1>1, <1>2, <2>2
  <2>5. s.index = k
    BY <2>4
  <2> QED BY <2>2, <2>3, <2>5
<1> QED BY <1>3, <1>4 DEF A

(* The types and the entry stores of a function converted from its slots    *)
(* are those of its signature (blockArgsByLocalIndex).                      *)
LEMMA SignatureFacts ==
  ASSUME NEW fn, RustcFunction(fn)
  PROVE  /\ C!Args(fn) = Arguments(fn)
         /\ [i \in DOMAIN ArgumentSlots(fn) |-> Represented[ArgumentSlots(fn)[i].type]]
              = C!Signature(fn).ins
         /\ EntryStores(ArgumentSlots(fn)) = [k \in 1..Cardinality(Arguments(fn)) |-> k]
         /\ C!Signature(fn).outs = IF fn.returns THEN ResultTypes(fn.ret) ELSE <<>>
         /\ \A l \in Arguments(fn) :
              /\ l.index \in 1..Cardinality(Arguments(fn))
              /\ C!Signature(fn).ins[l.index] = Represented[l.type]
<1> DEFINE A == Arguments(fn)
           n == Cardinality(A)
           slots == ArgumentSlots(fn)
           at(i) == CHOOSE l \in C!Args(fn) : l.index = i
<1>1. C!Args(fn) = A
  BY DEF C!Args, C!Range, Arguments
<1>2. /\ \A l \in A : l.index \in 1..n
      /\ \A l, m \in A : l.index = m.index => l = m
  BY ArgumentFacts
<1>3. /\ DOMAIN slots = 1..n
      /\ \A k \in 1..n : slots[k] \in A /\ slots[k].index = k
  BY SlotFacts
<1>4. C!Signature(fn).ins = [i \in 1..n |-> Represented[at(i).type]]
  BY <1>1 DEF C!Signature, RustcFunction
<1>5. C!Signature(fn).outs = IF fn.returns THEN ResultTypes(fn.ret) ELSE <<>>
  BY DEF C!Signature, C!Results, ResultTypes
<1>6. EntryStores(slots)
        = [i \in {slots[k].index : k \in DOMAIN slots} |->
             CHOOSE k \in DOMAIN slots : slots[k].index = i]
  BY DEF EntryStores
<1> HIDE DEF A, n, slots
<1>7. \A i \in 1..n : at(i) = slots[i]
  <2> SUFFICES ASSUME NEW i \in 1..n PROVE at(i) = slots[i]
    OBVIOUS
  <2>1. slots[i] \in A /\ slots[i].index = i
    BY <1>3
  <2>2. at(i) \in A /\ at(i).index = i
    BY <1>1, <2>1
  <2> HIDE DEF at
  <2> QED BY <1>2, <2>1, <2>2
<1>8. \A l \in A : at(l.index) = l
  <2> SUFFICES ASSUME NEW l \in A PROVE at(l.index) = l
    OBVIOUS
  <2>1. at(l.index) \in A /\ at(l.index).index = l.index
    BY <1>1
  <2> HIDE DEF at
  <2> QED BY <1>2, <2>1
<1> HIDE DEF at
<1>9. [i \in DOMAIN slots |-> Represented[slots[i].type]] = C!Signature(fn).ins
  BY <1>3, <1>4, <1>7
<1>10. EntryStores(slots) = [k \in 1..n |-> k]
  <2>1. {slots[k].index : k \in DOMAIN slots} = 1..n
    BY <1>3
  <2>2. ASSUME NEW i \in 1..n
        PROVE  (CHOOSE k \in DOMAIN slots : slots[k].index = i) = i
    <3> DEFINE c == CHOOSE k \in DOMAIN slots : slots[k].index = i
    <3>1. c \in DOMAIN slots /\ slots[c].index = i
      BY <1>3
    <3> HIDE DEF c
    <3>2. c = i
      BY <1>3, <3>1
    <3> QED BY <3>2 DEF c
  <2> QED BY <1>6, <2>1, <2>2
<1>11. \A l \in A : l.index \in 1..n /\ C!Signature(fn).ins[l.index] = Represented[l.type]
  BY <1>2, <1>4, <1>8
<1> QED BY <1>1, <1>5, <1>9, <1>10, <1>11 DEF A, n, slots

(* What the converted callers want is what their calls expect.              *)
LEMMA WantedIsExpected ==
  ASSUME NEW use
  PROVE  C!Expected(use) = Wanted(use)
BY DEF C!Expected, C!Seen, C!Results, Wanted, ResultTypes

(* The functions of a program and their uses.                               *)
LEMMA ProgramFacts ==
  ASSUME RustcProgram(program)
  PROVE  /\ Len(program.funcs) \in Nat /\ DOMAIN program.funcs = 1..Len(program.funcs)
         /\ 1 \in DOMAIN program.funcs
         /\ \A i \in DOMAIN program.funcs :
              /\ RustcFunction(program.funcs[i])
              /\ program.funcs[i].name \notin program.others
              /\ Len(program.funcs[i].uses) \in Nat
              /\ DOMAIN program.funcs[i].uses = 1..Len(program.funcs[i].uses)
         /\ \A i, j \in DOMAIN program.funcs :
              program.funcs[i].name = program.funcs[j].name => i = j
         /\ \A x : x \in C!Uses <=>
              \E i \in DOMAIN program.funcs : \E j \in DOMAIN program.funcs[i].uses :
                x = program.funcs[i].uses[j]
         /\ Names = {fn.name : fn \in C!Funcs}
         /\ \A x : x \in C!Funcs <=> \E i \in DOMAIN program.funcs : x = program.funcs[i]
<1>1. \A i \in DOMAIN program.funcs :
        /\ RustcFunction(program.funcs[i])
        /\ program.funcs[i].name \notin program.others
        /\ Len(program.funcs[i].uses) \in Nat
        /\ DOMAIN program.funcs[i].uses = 1..Len(program.funcs[i].uses)
  BY DEF RustcProgram, RustcFunction, IsSequence
<1>2. /\ Len(program.funcs) \in Nat /\ DOMAIN program.funcs = 1..Len(program.funcs)
      /\ 1 \in DOMAIN program.funcs
  BY DEF RustcProgram, IsSequence
<1>3. \A i, j \in DOMAIN program.funcs :
        program.funcs[i].name = program.funcs[j].name => i = j
  BY DEF RustcProgram
<1>4. \A x : x \in C!Uses <=>
        \E i \in DOMAIN program.funcs : \E j \in DOMAIN program.funcs[i].uses :
          x = program.funcs[i].uses[j]
  BY DEF C!Uses, C!Funcs, C!Range
<1>5. \A x : x \in C!Funcs <=> \E i \in DOMAIN program.funcs : x = program.funcs[i]
  BY DEF C!Funcs, C!Range
<1>6. Names = {fn.name : fn \in C!Funcs}
  BY <1>5 DEF Names
<1> QED BY <1>1, <1>2, <1>3, <1>4, <1>5, <1>6

-----------------------------------------------------------------------------
(* The initial states, and every step of the two passes.                    *)

LEMMA InitDeclInv == Init => DeclInv
<1> SUFFICES ASSUME Init PROVE DeclInv
  OBVIOUS
<1>1. RustcProgram(program)
  BY RustcPrograms DEF Init
<1>2. /\ 1 \in DOMAIN program.funcs /\ Len(program.funcs[1].uses) \in Nat
      /\ \A i \in DOMAIN program.funcs : i >= 1
  BY <1>1, ProgramFacts
<1>3. stage = "typed" /\ Symbols = {} /\ f = 1 /\ u = 0
  BY DEF Init, Symbols
<1>4. FunctionsDeclared /\ OthersDeclared /\ CalleesDeclared
  BY <1>2, <1>3 DEF FunctionsDeclared, OthersDeclared, CalleesDeclared, Converted
<1> QED BY <1>1, <1>2, <1>3, <1>4 DEF DeclInv

(* Declaring a symbol leaves the other entries alone.                       *)
LEMMA DeclareFacts ==
  ASSUME NEW name, NEW entry, table' = Declare(name, entry)
  PROVE  /\ Symbols' = Symbols \cup {name}
         /\ table'[name] = entry
         /\ \A n \in Symbols : n # name => table'[n] = table[n]
BY DEF Declare, Symbols

(* convert-rust-typed-to-func gives one function its arguments.             *)
LEMMA ConvertFuncStep ==
  ASSUME DeclInv, ConvertFunc
  PROVE  DeclInv'
<1> DEFINE fn == program.funcs[f]
           slots == ArgumentSlots(fn)
           entry == [ins |-> [i \in DOMAIN slots |-> Represented[slots[i].type]],
                     outs |-> <<>>, stores |-> EntryStores(slots)]
<1>1. /\ RustcProgram(program) /\ stage = "typed" /\ f \in DOMAIN program.funcs /\ u = 0
      /\ Symbols \cap program.others = {}
      /\ program' = program /\ u' = u /\ table' = Declare(fn.name, entry)
      /\ IF f = Len(program.funcs) THEN stage' = "func" /\ f' = 1
         ELSE f' = f + 1 /\ stage' = stage
  BY DEF DeclInv, ConvertFunc
<1>2. /\ Len(program.funcs) \in Nat /\ DOMAIN program.funcs = 1..Len(program.funcs)
      /\ 1 \in DOMAIN program.funcs
      /\ \A i \in DOMAIN program.funcs :
           /\ RustcFunction(program.funcs[i])
           /\ program.funcs[i].name \notin program.others
           /\ Len(program.funcs[i].uses) \in Nat
           /\ DOMAIN program.funcs[i].uses = 1..Len(program.funcs[i].uses)
      /\ \A i, j \in DOMAIN program.funcs :
           program.funcs[i].name = program.funcs[j].name => i = j
  BY <1>1, ProgramFacts
<1>3. /\ Symbols' = Symbols \cup {fn.name} /\ table'[fn.name] = entry
      /\ \A n \in Symbols : n # fn.name => table'[n] = table[n]
  BY <1>1, DeclareFacts
<1>4. entry = [ins    |-> C!Signature(fn).ins, outs |-> <<>>,
               stores |-> [k \in 1..Cardinality(Arguments(fn)) |-> k]]
  BY <1>1, <1>2, SignatureFacts
<1> HIDE DEF entry
<1>5. f' \in DOMAIN program.funcs /\ stage' \in {"typed", "func"}
  BY <1>1, <1>2
<1>6. FunctionsDeclared'
  <2> DEFINE g(i) == program.funcs[i]
             ready(i) == stage' # "typed" /\ (i < f' \/ (i = f' /\ stage' # "func"))
  <2>1. SUFFICES ASSUME NEW i \in DOMAIN program.funcs
                 PROVE  IF stage' = "typed" /\ i >= f' THEN g(i).name \notin Symbols'
                        ELSE /\ g(i).name \in Symbols'
                             /\ table'[g(i).name] =
                                  [ins    |-> C!Signature(g(i)).ins,
                                   outs   |-> IF ready(i) THEN C!Signature(g(i)).outs ELSE <<>>,
                                   stores |-> [k \in 1..Cardinality(Arguments(g(i))) |-> k]]
    BY <1>1 DEF FunctionsDeclared, ResultsGiven
  <2>2. i \in Int /\ f \in Int /\ 1 <= i /\ i <= Len(program.funcs) /\ ~ready(i)
    BY <1>1, <1>2
  <2>3. IF i >= f THEN g(i).name \notin Symbols
        ELSE /\ g(i).name \in Symbols
             /\ table[g(i).name] =
                  [ins    |-> C!Signature(g(i)).ins, outs |-> <<>>,
                   stores |-> [k \in 1..Cardinality(Arguments(g(i))) |-> k]]
    BY <1>1 DEF DeclInv, FunctionsDeclared, ResultsGiven
  <2> HIDE DEF ready
  <2>4. CASE i = f
    <3>1. ~(stage' = "typed" /\ i >= f')
      BY <1>1, <2>2, <2>4
    <3> QED BY <1>3, <1>4, <2>2, <2>4, <3>1
  <2>5. CASE i < f
    <3>1. ~(stage' = "typed" /\ i >= f') /\ ~(i >= f)
      BY <1>1, <2>2, <2>5
    <3>2. g(i).name # fn.name
      BY <1>1, <1>2, <2>2, <2>5
    <3> QED BY <1>3, <2>2, <2>3, <3>1, <3>2
  <2>6. CASE i > f
    <3>1. stage' = "typed" /\ i >= f' /\ i >= f
      BY <1>1, <2>2, <2>6
    <3>2. g(i).name # fn.name
      BY <1>1, <1>2, <2>2, <2>6
    <3> QED BY <1>3, <2>3, <3>1, <3>2
  <2> QED BY <2>2, <2>4, <2>5, <2>6
<1>7. OthersDeclared'
  <2>1. fn.name \in Names
    BY <1>1 DEF Names
  <2>2. \A n \in Symbols' \ Names : n \in Symbols \ Names /\ table'[n] = table[n]
    BY <1>3, <2>1
  <2>3. Names' = Names /\ \A use : Wanted(use)' = Wanted(use)
    BY <1>1 DEF Names, Wanted
  <2> QED BY <1>1, <2>2, <2>3 DEF DeclInv, OthersDeclared, Matches
<1>8. CalleesDeclared'
  <2>1. ASSUME NEW i \in DOMAIN program.funcs, NEW j \in DOMAIN program.funcs[i].uses
        PROVE  ~(stage' # "typed" /\ (i < f' \/ (i = f' /\ j <= u')))
    <3>1. i \in Int /\ i >= 1 /\ j \in Int /\ j >= 1
      BY <1>2
    <3> QED BY <1>1, <3>1
  <2> QED BY <1>1, <2>1 DEF CalleesDeclared, Converted
<1>9. Symbols' \cap program'.others = {}
  BY <1>1, <1>2, <1>3
<1>10. u' \in 0..Len(program.funcs[f'].uses)
  BY <1>1, <1>2, <1>5
<1> QED BY <1>1, <1>5, <1>6, <1>7, <1>8, <1>9, <1>10 DEF DeclInv

(* In the conversion to cf every function has its arguments, and has its    *)
(* results as far as the pass is.                                           *)
LEMMA InConversion ==
  ASSUME DeclInv, stage # "typed"
  PROVE  \A i \in DOMAIN program.funcs :
           /\ program.funcs[i].name \in Symbols
           /\ table[program.funcs[i].name] =
                [ins    |-> C!Signature(program.funcs[i]).ins,
                 outs   |-> IF i < f \/ (i = f /\ stage # "func")
                            THEN C!Signature(program.funcs[i]).outs ELSE <<>>,
                 stores |-> [k \in 1..Cardinality(Arguments(program.funcs[i])) |-> k]]
BY DEF DeclInv, FunctionsDeclared, ResultsGiven

(* The same, field by field.                                                *)
LEMMA EntryFields ==
  ASSUME DeclInv, NEW i \in DOMAIN program.funcs, program.funcs[i].name \in Symbols
  PROVE  /\ table[program.funcs[i].name].ins = C!Signature(program.funcs[i]).ins
         /\ table[program.funcs[i].name].outs =
              IF stage # "typed" /\ (i < f \/ (i = f /\ stage # "func"))
              THEN C!Signature(program.funcs[i]).outs ELSE <<>>
         /\ table[program.funcs[i].name].stores
              = [k \in 1..Cardinality(Arguments(program.funcs[i])) |-> k]
<1> DEFINE fn == program.funcs[i]
           ins == C!Signature(fn).ins
           outs == IF stage # "typed" /\ (i < f \/ (i = f /\ stage # "func"))
                   THEN C!Signature(fn).outs ELSE <<>>
           stores == [k \in 1..Cardinality(Arguments(fn)) |-> k]
<1>1. table[fn.name] = [ins |-> ins, outs |-> outs, stores |-> stores]
  BY DEF DeclInv, FunctionsDeclared, ResultsGiven
<1> HIDE DEF fn, ins, outs, stores
<1>2. table[fn.name].ins = ins /\ table[fn.name].outs = outs /\ table[fn.name].stores = stores
  BY <1>1
<1> QED BY <1>2 DEF fn, ins, outs, stores

(* A step that leaves the table alone keeps the invariant when it gives no  *)
(* function results and converts no call but of a declared callee.          *)
LEMMA TableKept ==
  ASSUME DeclInv, stage # "typed", stage' \in {"func", "cf", "linked", "refused"},
         UNCHANGED <<program, table>>,
         f' \in DOMAIN program.funcs, u' \in 0..Len(program.funcs[f'].uses),
         stage' = "func" => u' = 0,
         \A i \in DOMAIN program.funcs :
           (i < f' \/ (i = f' /\ stage' # "func")) <=> (i < f \/ (i = f /\ stage # "func")),
         \A i \in DOMAIN program.funcs : \A j \in DOMAIN program.funcs[i].uses :
           /\ i < f' \/ (i = f' /\ j <= u')
           /\ program.funcs[i].uses[j].kind = "call"
           => (i < f \/ (i = f /\ j <= u)) \/ program.funcs[i].uses[j].callee \in Symbols
  PROVE  DeclInv'
<1>1. program' = program /\ table' = table /\ Symbols' = Symbols /\ Names' = Names
  BY DEF Symbols, Names
<1>2. FunctionsDeclared'
  BY <1>1, InConversion DEF FunctionsDeclared, ResultsGiven
<1>3. OthersDeclared'
  <2>1. \A use : Wanted(use)' = Wanted(use)
    BY DEF Wanted
  <2> QED BY <1>1, <2>1 DEF DeclInv, OthersDeclared, Matches
<1>4. CalleesDeclared'
  BY <1>1 DEF DeclInv, CalleesDeclared, Converted
<1> QED BY <1>1, <1>2, <1>3, <1>4 DEF DeclInv

(* Converting the blocks of a function gives it its results.                *)
LEMMA ConvertBlocksStep ==
  ASSUME DeclInv, ConvertBlocks
  PROVE  DeclInv'
<1> DEFINE fn == program.funcs[f]
           outs == IF fn.returns THEN ResultTypes(fn.ret) ELSE <<>>
<1>1. /\ RustcProgram(program) /\ stage = "func" /\ f \in DOMAIN program.funcs /\ u = 0
      /\ Symbols \cap program.others = {} /\ u \in 0..Len(program.funcs[f].uses)
      /\ program' = program /\ u' = u /\ f' = f /\ stage' = "cf"
      /\ table' = [table EXCEPT ![fn.name].outs = outs]
  BY DEF DeclInv, ConvertBlocks
<1>2. /\ DOMAIN program.funcs = 1..Len(program.funcs) /\ Len(program.funcs) \in Nat
      /\ \A i \in DOMAIN program.funcs : RustcFunction(program.funcs[i])
      /\ \A i, j \in DOMAIN program.funcs :
           program.funcs[i].name = program.funcs[j].name => i = j
  BY <1>1, ProgramFacts
<1>3. outs = C!Signature(fn).outs
  BY <1>1, <1>2, SignatureFacts
<1> HIDE DEF outs
<1>4. /\ Symbols' = Symbols
      /\ \A n \in Symbols : n # fn.name => table'[n] = table[n]
      /\ fn.name \in Symbols => table'[fn.name] = [table[fn.name] EXCEPT !.outs = outs]
  BY <1>1 DEF Symbols
<1>5. FunctionsDeclared'
  <2> DEFINE g(i) == program.funcs[i]
  <2>1. SUFFICES ASSUME NEW i \in DOMAIN program.funcs
                 PROVE  /\ g(i).name \in Symbols'
                        /\ table'[g(i).name] =
                             [ins    |-> C!Signature(g(i)).ins,
                              outs   |-> IF i < f \/ i = f
                                         THEN C!Signature(g(i)).outs ELSE <<>>,
                              stores |-> [k \in 1..Cardinality(Arguments(g(i))) |-> k]]
    BY <1>1 DEF FunctionsDeclared, ResultsGiven
  <2>2. /\ g(i).name \in Symbols
        /\ table[g(i).name] =
             [ins    |-> C!Signature(g(i)).ins,
              outs   |-> IF i < f THEN C!Signature(g(i)).outs ELSE <<>>,
              stores |-> [k \in 1..Cardinality(Arguments(g(i))) |-> k]]
    BY <1>1, InConversion
  <2>3. CASE i = f
    <3> DEFINE ins == C!Signature(fn).ins
               stores == [k \in 1..Cardinality(Arguments(fn)) |-> k]
               old == IF i < f THEN C!Signature(g(i)).outs ELSE <<>>
    <3>1. table[fn.name] = [ins |-> ins, outs |-> old, stores |-> stores]
      BY <2>2, <2>3
    <3> HIDE DEF ins, stores, old
    <3>2. table'[fn.name] = [ins |-> ins, outs |-> outs, stores |-> stores]
      BY <1>4, <2>2, <2>3, <3>1
    <3> QED BY <1>3, <1>4, <2>2, <2>3, <3>2 DEF ins, stores
  <2>4. CASE i # f
    <3>1. g(i).name # fn.name
      BY <1>1, <1>2, <2>4
    <3> QED BY <1>4, <2>2, <2>4, <3>1
  <2> QED BY <2>3, <2>4
<1>6. OthersDeclared'
  <2>1. fn.name \in Names
    BY <1>1 DEF Names
  <2>2. \A n \in Symbols' \ Names : n \in Symbols \ Names /\ table'[n] = table[n]
    BY <1>4, <2>1
  <2>3. Names' = Names /\ \A use : Wanted(use)' = Wanted(use)
    BY <1>1 DEF Names, Wanted
  <2>4. \A n \in Symbols \ Names :
          \E i \in DOMAIN program.funcs : \E j \in DOMAIN program.funcs[i].uses :
            /\ program.funcs[i].uses[j].kind = "call"
            /\ program.funcs[i].uses[j].callee = n
            /\ table[n].ins = Wanted(program.funcs[i].uses[j]).ins
            /\ table[n].outs = Wanted(program.funcs[i].uses[j]).outs
    BY DEF DeclInv, OthersDeclared, Matches
  <2>5. \A n \in Symbols' \ Names :
          \E i \in DOMAIN program.funcs : \E j \in DOMAIN program.funcs[i].uses :
            /\ program.funcs[i].uses[j].kind = "call"
            /\ program.funcs[i].uses[j].callee = n
            /\ table'[n].ins = Wanted(program.funcs[i].uses[j]).ins
            /\ table'[n].outs = Wanted(program.funcs[i].uses[j]).outs
    BY <2>2, <2>4
  <2> QED BY <1>1, <2>3, <2>5 DEF OthersDeclared, Matches
<1>7. CalleesDeclared'
  BY <1>1, <1>4 DEF DeclInv, CalleesDeclared, Converted
<1> QED BY <1>1, <1>4, <1>5, <1>6, <1>7 DEF DeclInv

(* ensureFuncDeclaration declares a callee at its first call, as the call   *)
(* wants it, or refuses.                                                    *)
LEMMA ConvertCallStep ==
  ASSUME DeclInv, ConvertCall
  PROVE  DeclInv'
<1> DEFINE wanted == Wanted(Use)
           n0 == Use.callee
<1>1. /\ RustcProgram(program) /\ stage = "cf" /\ f \in DOMAIN program.funcs
      /\ Symbols \cap program.others = {} /\ u \in 0..Len(program.funcs[f].uses)
      /\ u < Len(program.funcs[f].uses) /\ Use.kind = "call"
      /\ program' = program /\ f' = f
  BY DEF DeclInv, ConvertCall, MoreUses
<1>2. /\ DOMAIN program.funcs = 1..Len(program.funcs) /\ Len(program.funcs) \in Nat
      /\ \A i \in DOMAIN program.funcs :
           /\ Len(program.funcs[i].uses) \in Nat
           /\ DOMAIN program.funcs[i].uses = 1..Len(program.funcs[i].uses)
  BY <1>1, ProgramFacts
<1>3. /\ u + 1 \in DOMAIN program.funcs[f].uses /\ u + 1 \in 0..Len(program.funcs[f].uses)
      /\ Use = program.funcs[f].uses[u + 1]
  BY <1>1, <1>2 DEF Use
<1>4. CASE stage' = "refused" /\ UNCHANGED <<table, u>>
  BY <1>1, <1>4, TableKept
<1>5. CASE n0 \in Symbols /\ table' = table /\ u' = u + 1 /\ stage' = stage
  <2>1. \A i \in DOMAIN program.funcs : \A j \in DOMAIN program.funcs[i].uses :
          i = f /\ j <= u + 1 => j <= u \/ program.funcs[i].uses[j].callee \in Symbols
    <3> SUFFICES ASSUME NEW j \in DOMAIN program.funcs[f].uses, j <= u + 1, ~(j <= u)
                 PROVE  program.funcs[f].uses[j].callee \in Symbols
      OBVIOUS
    <3>1. j = u + 1
      BY <1>1, <1>2
    <3> QED BY <1>3, <1>5, <3>1
  <2> QED BY <1>1, <1>3, <1>5, <2>1, TableKept
<1>6. CASE /\ n0 \notin Symbols /\ n0 \notin program.others
           /\ table' = Declare(n0, [ins |-> wanted.ins, outs |-> wanted.outs, stores |-> <<>>])
           /\ u' = u + 1 /\ stage' = stage
  <2>1. /\ Symbols' = Symbols \cup {n0}
        /\ table'[n0] = [ins |-> wanted.ins, outs |-> wanted.outs, stores |-> <<>>]
        /\ \A n \in Symbols : table'[n] = table[n]
    BY <1>6, DeclareFacts
  <2>2. FunctionsDeclared'
    BY <1>1, <1>6, <2>1, InConversion DEF FunctionsDeclared, ResultsGiven
  <2>3. OthersDeclared'
    <3>1. Names' = Names /\ \A use : Wanted(use)' = Wanted(use)
      BY <1>1 DEF Names, Wanted
    <3>2. SUFFICES ASSUME NEW n \in Symbols' \ Names
                   PROVE  \E i \in DOMAIN program.funcs : \E j \in DOMAIN program.funcs[i].uses :
                            /\ program.funcs[i].uses[j].kind = "call"
                            /\ program.funcs[i].uses[j].callee = n
                            /\ table'[n].ins = Wanted(program.funcs[i].uses[j]).ins
                            /\ table'[n].outs = Wanted(program.funcs[i].uses[j]).outs
      BY <1>1, <3>1 DEF OthersDeclared, Matches
    <3>3. CASE n = n0
      <4>1. table'[n].ins = Wanted(Use).ins /\ table'[n].outs = Wanted(Use).outs
        BY <2>1, <3>3
      <4> QED BY <1>1, <1>3, <3>3, <4>1
    <3>4. CASE n # n0
      <4>1. n \in Symbols \ Names /\ table'[n] = table[n]
        BY <2>1, <3>4
      <4> QED BY <4>1 DEF DeclInv, OthersDeclared, Matches
    <3> QED BY <3>3, <3>4
  <2>4. CalleesDeclared'
    <3>1. SUFFICES ASSUME NEW i \in DOMAIN program.funcs,
                          NEW j \in DOMAIN program.funcs[i].uses,
                          i < f \/ (i = f /\ j <= u + 1),
                          program.funcs[i].uses[j].kind = "call"
                   PROVE  program.funcs[i].uses[j].callee \in Symbols \cup {n0}
      BY <1>1, <1>6, <2>1 DEF CalleesDeclared, Converted
    <3>2. CASE i < f \/ (i = f /\ j <= u)
      BY <1>1, <3>1, <3>2 DEF DeclInv, CalleesDeclared, Converted
    <3>3. CASE i = f /\ ~(j <= u)
      <4>1. j = u + 1
        BY <1>1, <1>2, <3>1, <3>3
      <4> QED BY <1>3, <3>3, <4>1
    <3> QED BY <3>1, <3>2, <3>3
  <2> QED BY <1>1, <1>3, <1>6, <2>1, <2>2, <2>3, <2>4 DEF DeclInv
<1> QED BY <1>4, <1>5, <1>6 DEF ConvertCall, CalleeAccepted

(* Taking an address declares nothing.                                      *)
LEMMA ConvertAddressStep ==
  ASSUME DeclInv, ConvertAddress
  PROVE  DeclInv'
<1>1. /\ RustcProgram(program) /\ stage = "cf" /\ f \in DOMAIN program.funcs
      /\ u \in 0..Len(program.funcs[f].uses)
      /\ u < Len(program.funcs[f].uses) /\ Use.kind = "addr"
      /\ program' = program /\ f' = f /\ u' = u + 1 /\ stage' = stage /\ table' = table
  BY DEF DeclInv, ConvertAddress, MoreUses
<1>2. /\ Len(program.funcs[f].uses) \in Nat
      /\ DOMAIN program.funcs[f].uses = 1..Len(program.funcs[f].uses)
  BY <1>1, ProgramFacts
<1>3. \A j \in DOMAIN program.funcs[f].uses :
        j <= u + 1 /\ program.funcs[f].uses[j].kind = "call" => j <= u
  <2> SUFFICES ASSUME NEW j \in DOMAIN program.funcs[f].uses, j <= u + 1,
                      program.funcs[f].uses[j].kind = "call", ~(j <= u)
               PROVE  FALSE
    OBVIOUS
  <2>1. j = u + 1
    BY <1>1, <1>2
  <2> QED BY <1>1, <2>1 DEF Use
<1>4. u + 1 \in 0..Len(program.funcs[f].uses)
  BY <1>1, <1>2
<1> QED BY <1>1, <1>3, <1>4, TableKept

(* The pass goes on with the next function.                                 *)
LEMMA NextFunctionStep ==
  ASSUME DeclInv, NextFunction
  PROVE  DeclInv'
<1>1. /\ RustcProgram(program) /\ stage = "cf" /\ f \in DOMAIN program.funcs
      /\ u \in 0..Len(program.funcs[f].uses) /\ ~(u < Len(program.funcs[f].uses))
      /\ f < Len(program.funcs)
      /\ program' = program /\ f' = f + 1 /\ u' = 0 /\ stage' = "func" /\ table' = table
  BY DEF DeclInv, NextFunction, MoreUses
<1>2. /\ DOMAIN program.funcs = 1..Len(program.funcs) /\ Len(program.funcs) \in Nat
      /\ \A i \in DOMAIN program.funcs :
           /\ Len(program.funcs[i].uses) \in Nat
           /\ DOMAIN program.funcs[i].uses = 1..Len(program.funcs[i].uses)
  BY <1>1, ProgramFacts
<1>3. f + 1 \in DOMAIN program.funcs /\ 0 \in 0..Len(program.funcs[f + 1].uses)
  BY <1>1, <1>2
<1>4. \A i \in DOMAIN program.funcs : i < f + 1 <=> (i < f \/ i = f)
  BY <1>1, <1>2
<1>5. \A i \in DOMAIN program.funcs : \A j \in DOMAIN program.funcs[i].uses :
        i < f + 1 \/ (i = f + 1 /\ j <= 0) => i < f \/ (i = f /\ j <= u)
  <2> SUFFICES ASSUME NEW i \in DOMAIN program.funcs, NEW j \in DOMAIN program.funcs[i].uses,
                      i < f + 1 \/ (i = f + 1 /\ j <= 0)
               PROVE  i < f \/ (i = f /\ j <= u)
    OBVIOUS
  <2>1. j \in Int /\ 1 <= j /\ j <= Len(program.funcs[i].uses)
    BY <1>2
  <2>2. i < f \/ i = f
    BY <1>2, <1>4, <2>1
  <2>3. i = f => j <= u
    BY <1>1, <2>1
  <2> QED BY <2>2, <2>3
<1> QED BY <1>1, <1>3, <1>4, <1>5, TableKept

(* The verifiers change nothing but the verdict.                            *)
LEMMA VerifyStep ==
  ASSUME DeclInv, Verify
  PROVE  DeclInv'
<1>1. /\ stage = "cf" /\ f \in DOMAIN program.funcs /\ u \in 0..Len(program.funcs[f].uses)
      /\ stage' \in {"linked", "refused"} /\ UNCHANGED <<program, table, f, u>>
  BY DEF DeclInv, Verify
<1> QED BY <1>1, TableKept

(* Nothing changes.                                                         *)
LEMMA DeclStutter ==
  ASSUME DeclInv, UNCHANGED vars
  PROVE  DeclInv'
BY DEF vars, DeclInv, FunctionsDeclared, OthersDeclared, CalleesDeclared, Symbols, Names,
       ResultsGiven, Converted, Matches, Wanted

-----------------------------------------------------------------------------
(* The symbol table is, at every step of the two passes, what the functions *)
(* converted so far and the calls seen so far make it                       *)
(* (ensureFuncDeclaration, collectArgumentSlots).                           *)
THEOREM DeclInvariant == Spec => []DeclInv
<1>1. DeclInv /\ [Next]_vars => DeclInv'
  <2> SUFFICES ASSUME DeclInv, [Next]_vars
               PROVE  DeclInv'
    OBVIOUS
  <2>1. CASE ConvertFunc
    BY <2>1, ConvertFuncStep
  <2>2. CASE ConvertBlocks
    BY <2>2, ConvertBlocksStep
  <2>3. CASE ConvertCall
    BY <2>3, ConvertCallStep
  <2>4. CASE ConvertAddress
    BY <2>4, ConvertAddressStep
  <2>5. CASE NextFunction
    BY <2>5, NextFunctionStep
  <2>6. CASE Verify
    BY <2>6, VerifyStep
  <2>7. CASE UNCHANGED vars
    BY <2>7, DeclStutter
  <2> QED BY <2>1, <2>2, <2>3, <2>4, <2>5, <2>6, <2>7 DEF Next
<1> QED BY <1>1, InitDeclInv, PTL DEF Spec

(* No symbol that is something else becomes a function, and a function that *)
(* has got its results keeps them (matchAndRewrite of the function).        *)
THEOREM ResultsStay == Spec => []TypeOK
<1>1. DeclInv => TypeOK
  <2> SUFFICES ASSUME DeclInv PROVE TypeOK
    OBVIOUS
  <2>1. ASSUME stage \in {"cf", "linked"}, NEW i \in 1..f, program.funcs[i].returns
        PROVE  table[program.funcs[i].name].outs = ResultTypes(program.funcs[i].ret)
    <3>1. /\ DOMAIN program.funcs = 1..Len(program.funcs) /\ Len(program.funcs) \in Nat
          /\ \A k \in DOMAIN program.funcs : RustcFunction(program.funcs[k])
      BY ProgramFacts DEF DeclInv
    <3>2. i \in DOMAIN program.funcs /\ (i < f \/ i = f)
      BY <3>1 DEF DeclInv
    <3>3. table[program.funcs[i].name].outs = C!Signature(program.funcs[i]).outs
      BY <2>1, <3>2, InConversion, EntryFields
    <3> QED BY <2>1, <3>1, <3>2, <3>3, SignatureFacts
  <2> QED BY <2>1 DEF DeclInv, TypeOK
<1> QED BY <1>1, DeclInvariant, PTL

(* The i-th operand of a call lands in the slot of local _i, for every      *)
(* program and in whatever order the slots stand (collectArgumentSlots).    *)
THEOREM OperandsLand == Spec => []ArgumentsLand
<1>1. DeclInv => ArgumentsLand
  <2> SUFFICES ASSUME DeclInv, NEW i \in DOMAIN program.funcs,
                      program.funcs[i].name \in Symbols,
                      NEW l \in C!Args(program.funcs[i])
               PROVE  /\ l.index \in DOMAIN table[program.funcs[i].name].stores
                      /\ table[program.funcs[i].name].stores[l.index] = l.index
                      /\ table[program.funcs[i].name].ins[l.index] = Represented[l.type]
    BY DEF ArgumentsLand
  <2> DEFINE fn == program.funcs[i]
             n == Cardinality(Arguments(fn))
  <2>1. RustcFunction(fn)
    BY ProgramFacts DEF DeclInv
  <2>2. /\ table[fn.name].ins = C!Signature(fn).ins
        /\ table[fn.name].stores = [k \in 1..n |-> k]
    BY EntryFields
  <2>3. l.index \in 1..n /\ C!Signature(fn).ins[l.index] = Represented[l.type]
    <3>1. l \in Arguments(fn)
      BY <2>1, SignatureFacts
    <3> QED BY <2>1, <3>1, SignatureFacts
  <2> HIDE DEF n, fn
  <2>4. DOMAIN table[fn.name].stores = 1..n /\ table[fn.name].stores[l.index] = l.index
    BY <2>2, <2>3
  <2> QED BY <2>2, <2>3, <2>4 DEF fn
<1> QED BY <1>1, DeclInvariant, PTL

-----------------------------------------------------------------------------
(* The verdict is the abstract one.                                         *)

(* A call is refused only in a program that does not fit together.          *)
LEMMA RefusalIsRight ==
  ASSUME DeclInv, MoreUses, Use.kind = "call", ~CalleeAccepted(Use.callee, Wanted(Use))
  PROVE  ~C!Agree
<1> DEFINE w == Wanted(Use)
           n == Use.callee
<1> SUFFICES ASSUME C!Agree PROVE FALSE
  OBVIOUS
<1>1. /\ RustcProgram(program) /\ stage = "cf" /\ f \in DOMAIN program.funcs
      /\ u \in 0..Len(program.funcs[f].uses) /\ u < Len(program.funcs[f].uses)
  BY DEF DeclInv, MoreUses
<1>2. /\ \A i \in DOMAIN program.funcs :
           /\ RustcFunction(program.funcs[i])
           /\ Len(program.funcs[i].uses) \in Nat
           /\ DOMAIN program.funcs[i].uses = 1..Len(program.funcs[i].uses)
      /\ \A x : x \in C!Uses <=>
           \E i \in DOMAIN program.funcs : \E j \in DOMAIN program.funcs[i].uses :
             x = program.funcs[i].uses[j]
      /\ Names = {fn.name : fn \in C!Funcs}
      /\ \A x : x \in C!Funcs <=> \E i \in DOMAIN program.funcs : x = program.funcs[i]
  BY <1>1, ProgramFacts
<1>3. Use \in C!Uses
  <2>1. u + 1 \in DOMAIN program.funcs[f].uses
    BY <1>1, <1>2
  <2> QED BY <1>1, <1>2, <2>1 DEF Use
<1>4. n \notin program.others
  BY <1>3 DEF C!Agree
<1>5. n \in Symbols /\ ~Matches(table[n], w) /\ ~PendingResults(table[n], w)
  BY <1>4 DEF CalleeAccepted
<1>6. CASE n \in Names
  <2>1. PICK i \in DOMAIN program.funcs : n = program.funcs[i].name
    BY <1>6 DEF Names
  <2>2. C!Expected(Use) = C!Signature(program.funcs[i])
    BY <1>2, <1>3, <2>1 DEF C!Agree
  <2>3. w = C!Signature(program.funcs[i])
    BY <2>2, WantedIsExpected
  <2>4. /\ table[n].ins = w.ins
        /\ table[n].outs = w.outs \/ table[n].outs = <<>>
    BY <1>5, <2>1, <2>3, EntryFields
  <2> QED BY <1>5, <2>4 DEF Matches, PendingResults
<1>7. CASE n \notin Names
  <2>0. PICK i \in DOMAIN program.funcs : \E j \in DOMAIN program.funcs[i].uses :
          /\ program.funcs[i].uses[j].callee = n
          /\ Matches(table[n], Wanted(program.funcs[i].uses[j]))
    BY <1>5, <1>7 DEF DeclInv, OthersDeclared
  <2>1. PICK j \in DOMAIN program.funcs[i].uses :
          /\ program.funcs[i].uses[j].callee = n
          /\ Matches(table[n], Wanted(program.funcs[i].uses[j]))
    BY <2>0
  <2>2. program.funcs[i].uses[j] \in C!Uses
    BY <1>2
  <2>3. C!Expected(program.funcs[i].uses[j]) = C!Expected(Use)
    BY <1>2, <1>3, <1>7, <2>1, <2>2 DEF C!Agree
  <2>4. Wanted(program.funcs[i].uses[j]) = w
    BY <2>3, WantedIsExpected
  <2> QED BY <1>5, <2>1, <2>4
<1> QED BY <1>6, <1>7

(* The verifiers find exactly the programs that fit together.               *)
LEMMA VerifiersDecide ==
  ASSUME DeclInv, stage = "cf", ~MoreUses, f = Len(program.funcs)
  PROVE  C!Agree <=> \A i \in DOMAIN program.funcs :
                       \A j \in DOMAIN program.funcs[i].uses :
                         Verified(program.funcs[i].uses[j])
<1>1. RustcProgram(program) /\ f \in DOMAIN program.funcs
      /\ u \in 0..Len(program.funcs[f].uses) /\ ~(u < Len(program.funcs[f].uses))
      /\ Symbols \cap program.others = {}
  BY DEF DeclInv, MoreUses
<1>2. /\ DOMAIN program.funcs = 1..Len(program.funcs) /\ Len(program.funcs) \in Nat
      /\ \A i \in DOMAIN program.funcs :
           /\ RustcFunction(program.funcs[i])
           /\ Len(program.funcs[i].uses) \in Nat
           /\ DOMAIN program.funcs[i].uses = 1..Len(program.funcs[i].uses)
      /\ \A x : x \in C!Uses <=>
           \E i \in DOMAIN program.funcs : \E j \in DOMAIN program.funcs[i].uses :
             x = program.funcs[i].uses[j]
      /\ Names = {fn.name : fn \in C!Funcs}
      /\ \A x : x \in C!Funcs <=> \E i \in DOMAIN program.funcs : x = program.funcs[i]
  BY <1>1, ProgramFacts
<1>3. \A i \in DOMAIN program.funcs :
        /\ program.funcs[i].name \in Symbols
        /\ table[program.funcs[i].name].ins = C!Signature(program.funcs[i]).ins
        /\ table[program.funcs[i].name].outs = C!Signature(program.funcs[i]).outs
  <2> SUFFICES ASSUME NEW i \in DOMAIN program.funcs
               PROVE  /\ program.funcs[i].name \in Symbols
                      /\ table[program.funcs[i].name].ins = C!Signature(program.funcs[i]).ins
                      /\ table[program.funcs[i].name].outs = C!Signature(program.funcs[i]).outs
    OBVIOUS
  <2>1. i < f \/ i = f
    BY <1>2
  <2>2. program.funcs[i].name \in Symbols
    BY InConversion
  <2> QED BY <2>1, <2>2, EntryFields
<1>4. \A n \in Symbols \ Names :
        \E v \in C!Uses : /\ v.kind = "call" /\ v.callee = n
                         /\ Matches(table[n], Wanted(v))
  <2> SUFFICES ASSUME NEW n \in Symbols \ Names
               PROVE  \E v \in C!Uses : /\ v.kind = "call" /\ v.callee = n
                                       /\ Matches(table[n], Wanted(v))
    OBVIOUS
  <2>1. \E i \in DOMAIN program.funcs : \E j \in DOMAIN program.funcs[i].uses :
          /\ program.funcs[i].uses[j].kind = "call" /\ program.funcs[i].uses[j].callee = n
          /\ Matches(table[n], Wanted(program.funcs[i].uses[j]))
    BY DEF DeclInv, OthersDeclared
  <2> QED BY <1>2, <2>1
<1>5. \A v \in C!Uses : v.kind = "call" => v.callee \in Symbols
  <2> SUFFICES ASSUME NEW i \in DOMAIN program.funcs, NEW j \in DOMAIN program.funcs[i].uses,
                      program.funcs[i].uses[j].kind = "call"
               PROVE  program.funcs[i].uses[j].callee \in Symbols
    BY <1>2
  <2>1. j \in Int /\ j <= Len(program.funcs[i].uses) /\ (i < f \/ i = f)
    BY <1>2
  <2>2. i = f => j <= u
    BY <1>1, <1>2, <2>1
  <2> QED BY <2>1, <2>2 DEF DeclInv, CalleesDeclared, Converted
<1>6. ASSUME \A i \in DOMAIN program.funcs : \A j \in DOMAIN program.funcs[i].uses :
               Verified(program.funcs[i].uses[j])
      PROVE  C!Agree
  <2>1. \A v \in C!Uses : v.callee \in Symbols /\ Matches(table[v.callee], Wanted(v))
    BY <1>2, <1>6 DEF Verified
  <2>2. \A v \in C!Uses : v.callee \notin program.others
    BY <1>1, <2>1
  <2>3. ASSUME NEW v \in C!Uses, NEW fn \in C!Funcs, v.callee = fn.name
        PROVE  C!Expected(v) = C!Signature(fn)
    <3>1. Wanted(v).ins = C!Signature(fn).ins /\ Wanted(v).outs = C!Signature(fn).outs
      BY <1>2, <1>3, <2>1, <2>3 DEF Matches
    <3>2. Wanted(v) = [ins |-> Wanted(v).ins, outs |-> Wanted(v).outs]
      BY DEF Wanted
    <3>3. C!Signature(fn) = [ins |-> C!Signature(fn).ins, outs |-> C!Signature(fn).outs]
      BY DEF C!Signature
    <3> QED BY <3>1, <3>2, <3>3, WantedIsExpected
  <2>4. ASSUME NEW v \in C!Uses, v.callee \notin {fn.name : fn \in C!Funcs}
        PROVE  /\ \A x \in C!Uses : x.callee = v.callee => C!Expected(x) = C!Expected(v)
               /\ \E x \in C!Uses : x.callee = v.callee /\ x.kind = "call"
    <3>1. ASSUME NEW x \in C!Uses, x.callee = v.callee
          PROVE  C!Expected(x) = C!Expected(v)
      <4>1. Wanted(x).ins = Wanted(v).ins /\ Wanted(x).outs = Wanted(v).outs
        BY <2>1, <3>1 DEF Matches
      <4>2. /\ Wanted(x) = [ins |-> Wanted(x).ins, outs |-> Wanted(x).outs]
            /\ Wanted(v) = [ins |-> Wanted(v).ins, outs |-> Wanted(v).outs]
        BY DEF Wanted
      <4> QED BY <4>1, <4>2, WantedIsExpected
    <3>2. v.callee \in Symbols \ Names
      BY <1>2, <2>1, <2>4
    <3> QED BY <1>4, <3>1, <3>2
  <2> QED BY <2>2, <2>3, <2>4 DEF C!Agree
<1>7. ASSUME C!Agree, NEW v \in C!Uses
      PROVE  Verified(v)
  <2>1. CASE v.callee \in Names
    <3>1. PICK i \in DOMAIN program.funcs : v.callee = program.funcs[i].name
      BY <2>1 DEF Names
    <3>2. C!Expected(v) = C!Signature(program.funcs[i])
      BY <1>2, <1>7, <3>1 DEF C!Agree
    <3>3. Wanted(v) = C!Signature(program.funcs[i])
      BY <3>2, WantedIsExpected
    <3> QED BY <1>3, <3>1, <3>3 DEF Verified, Matches
  <2>2. CASE v.callee \notin Names
    <3>1. /\ \A x \in C!Uses : x.callee = v.callee => C!Expected(x) = C!Expected(v)
          /\ \E x \in C!Uses : x.callee = v.callee /\ x.kind = "call"
      BY <1>2, <1>7, <2>2 DEF C!Agree
    <3>2. v.callee \in Symbols \ Names
      BY <1>5, <2>2, <3>1
    <3>3. PICK x \in C!Uses : x.callee = v.callee /\ Matches(table[v.callee], Wanted(x))
      BY <1>4, <3>2
    <3>4. Wanted(x) = Wanted(v)
      BY <3>1, <3>3, WantedIsExpected
    <3> QED BY <3>2, <3>3, <3>4 DEF Verified
  <2> QED BY <2>1, <2>2
<1> QED BY <1>2, <1>6, <1>7

(* The two passes implement the abstract decision, step by step: no step    *)
(* but the last touches the verdict, and the last gives the one that        *)
(* DecidesAgreement asks for (ensureFuncDeclaration and the verifiers of    *)
(* func.call and func.constant).                                            *)
THEOREM VerdictIsAgreement == Spec => C!Init /\ [][C!Decide]_(C!vars)
<1>1. Init => C!Init
  BY DEF Init, C!Init, Verdict
<1>2. DeclInv /\ [Next]_vars => [C!Decide]_(C!vars)
  <2> SUFFICES ASSUME DeclInv, [Next]_vars
               PROVE  C!Decide \/ UNCHANGED <<program, Verdict>>
    BY DEF C!vars
  <2>1. CASE ConvertFunc
    BY <2>1 DEF ConvertFunc, Verdict
  <2>2. CASE ConvertBlocks
    BY <2>2 DEF ConvertBlocks, Verdict
  <2>3. CASE ConvertCall
    <3>1. stage = "cf" /\ Verdict = "pending" /\ program' = program
      BY <2>3 DEF ConvertCall, MoreUses, Verdict
    <3>2. CASE CalleeAccepted(Use.callee, Wanted(Use))
      BY <2>3, <3>1, <3>2 DEF ConvertCall, Verdict
    <3>3. CASE ~CalleeAccepted(Use.callee, Wanted(Use))
      <4>1. ~C!Agree
        BY <2>3, <3>3, RefusalIsRight DEF ConvertCall
      <4>2. Verdict' = "refused"
        BY <2>3, <3>3 DEF ConvertCall, Verdict
      <4> QED BY <3>1, <4>1, <4>2 DEF C!Decide
    <3> QED BY <3>2, <3>3
  <2>4. CASE ConvertAddress
    BY <2>4 DEF ConvertAddress, Verdict
  <2>5. CASE NextFunction
    BY <2>5 DEF NextFunction, Verdict
  <2>6. CASE Verify
    <3>1. stage = "cf" /\ Verdict = "pending" /\ program' = program
      BY <2>6 DEF Verify, Verdict
    <3>2. Verdict' = IF C!Agree THEN "linked" ELSE "refused"
      <4>1. stage' = IF C!Agree THEN "linked" ELSE "refused"
        BY <2>6, VerifiersDecide DEF Verify
      <4> QED BY <4>1 DEF Verdict
    <3> QED BY <3>1, <3>2 DEF C!Decide
  <2>7. CASE UNCHANGED vars
    BY <2>7 DEF vars, Verdict
  <2> QED BY <2>1, <2>2, <2>3, <2>4, <2>5, <2>6, <2>7 DEF Next
<1> QED BY <1>1, <1>2, DeclInvariant, PTL DEF Spec

=============================================================================
