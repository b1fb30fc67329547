------------------------------- MODULE Collect ------------------------------
(***************************************************************************)
(* MirProgram::collect: which bodies of a crate the extractor puts in the   *)
(* module, under which symbols.  First every local item whose body has no   *)
(* generic types in it, under its readable path; then, from a worklist, the *)
(* instances of generic functions that the bodies already taken call, under *)
(* their mangled names.                                                     *)
(*                                                                          *)
(* Sets stand for the list of items and for the worklist, in any order: the *)
(* order of visits decides that of the functions in the module, and which   *)
(* of two items with the same path is kept.                                 *)
(***************************************************************************)
EXTENDS FiniteSets, Sequences, Naturals

CONSTANTS
  Crates,  \* the crates under consideration
  Foreign  \* stands for every callee without a body in the crate

(* items: the local items with a body, generic ones and closures included;  *)
(* parametric: those with a generic type among their locals; instances: the *)
(* instances of generic functions; path: what DefId::name prints for an     *)
(* item; mangled: the mangled name of an instance; uses[b]: the functions   *)
(* body b names.  A use of kind "call" is a call of a function, "closure" a *)
(* call through Fn, FnMut or FnOnce on a closure, "address" a function      *)
(* coerced to a pointer.  Its def is what rustc prints for the function it  *)
(* names, its target what that resolves to.                                 *)
(* The items are those in the source.  The instances may be infinitely      *)
(* many: a generic function can call itself at a type it has wrapped.       *)
IsCrate(c) ==
  LET bodies == c.items \cup c.instances IN
  /\ IsFiniteSet(c.items)
  /\ c.items \cap c.instances = {}
  /\ Foreign \notin bodies
  /\ c.parametric \subseteq c.items
  /\ DOMAIN c.path = c.items
  /\ DOMAIN c.mangled = c.instances
  /\ DOMAIN c.uses = bodies
  /\ \A b \in bodies : \A u \in c.uses[b] :
       /\ u.kind \in {"call", "closure", "address"}
       /\ u.target \in bodies \cup {Foreign}

(* No two items print the same path, no two instances have the same mangled *)
(* name, and a mangled name is not a path.  Mangled names are rustc's identity of *)
(* an instance; paths are only for reading, and two functions nested in     *)
(* sibling blocks of one function have the same.                            *)
DistinctNames(c) ==
  /\ \A i, j \in c.items : c.path[i] = c.path[j] => i = j
  /\ \A m, n \in c.instances : c.mangled[m] = c.mangled[n] => m = n
  /\ \A i \in c.items, n \in c.instances : c.path[i] # c.mangled[n]

ASSUME CratesOK == \A c \in Crates : IsCrate(c)

VARIABLES
  crate,     \* the crate being compiled
  todo,      \* the items not yet looked at
  pending,   \* pending_instances
  emitted,   \* the symbols taken
  functions  \* the functions collected, in order, each a symbol and a body

vars == <<crate, todo, pending, emitted, functions>>

-----------------------------------------------------------------------------
\* Mutant: the address of an instance is queued, a call of it is not.
LocalInstancesOfAddresses(b) ==
  {n \in crate.instances :
     \E u \in crate.uses[b] : u.kind = "address" /\ u.target = n}

(* MirCallMetadata::from_call: a call that resolves to an instance of a     *)
(* generic function of the crate has local_instance.                        *)
LocalInstances(b) ==
  {n \in crate.instances :
     \E u \in crate.uses[b] : u.kind = "call" /\ u.target = n}

(* The symbol a use is lowered to: the name from_call makes, or for an      *)
(* address the one extractConstantRustName reads off the constant.          *)
SymbolOf(u) ==
  IF u.kind = "call" /\ u.target \in crate.instances
    THEN crate.mangled[u.target] ELSE u.def

Init ==
  /\ crate \in Crates
  /\ todo = crate.items
  /\ pending = {}
  /\ emitted = {}
  /\ functions = <<>>

\* Mutant: the symbol is not noted.
EmitUnnoted(symbol, b) ==
  /\ functions' = Append(functions, [symbol |-> symbol, body |-> b])
  /\ UNCHANGED emitted

Emit(symbol, b) ==
  /\ emitted' = emitted \cup {symbol}
  /\ functions' = Append(functions, [symbol |-> symbol, body |-> b])

(* One round of the loop over all_local_items.                              *)
CollectItem(i) ==
  /\ i \in todo
  /\ todo' = todo \ {i}
  /\ IF i \in crate.parametric \/ crate.path[i] \in emitted
       THEN UNCHANGED <<pending, emitted, functions>>
       ELSE /\ Emit(crate.path[i], i)
            /\ pending' = pending \cup LocalInstances(i)
  /\ UNCHANGED crate

\* Mutants: the symbol of an instance is not looked up before it is emitted; an
\* instance found emitted stays on the worklist; the instances an instance
\* calls are not queued.
CollectInstanceAgain(n) ==
  /\ todo = {}
  /\ n \in pending
  /\ Emit(crate.mangled[n], n)
  /\ pending' = (pending \ {n}) \cup LocalInstances(n)
  /\ UNCHANGED <<crate, todo>>

CollectInstanceLeft(n) ==
  /\ todo = {}
  /\ n \in pending
  /\ IF crate.mangled[n] \in emitted
       THEN UNCHANGED <<pending, emitted, functions>>
       ELSE /\ Emit(crate.mangled[n], n)
            /\ pending' = pending \cup LocalInstances(n)
  /\ UNCHANGED <<crate, todo>>

CollectInstanceOnly(n) ==
  /\ todo = {}
  /\ n \in pending
  /\ IF crate.mangled[n] \in emitted
       THEN UNCHANGED <<emitted, functions>>
       ELSE Emit(crate.mangled[n], n)
  /\ pending' = pending \ {n}
  /\ UNCHANGED <<crate, todo>>

(* One round of the worklist.  An instance in it has a body:                *)
(* CrateItem::try_from in from_call fails for those without.                *)
CollectInstance(n) ==
  /\ todo = {}
  /\ n \in pending
  /\ IF crate.mangled[n] \in emitted
       THEN pending' = pending \ {n} /\ UNCHANGED <<emitted, functions>>
       ELSE /\ Emit(crate.mangled[n], n)
            /\ pending' = (pending \ {n}) \cup LocalInstances(n)
  /\ UNCHANGED <<crate, todo>>

Next ==
  \/ \E i \in todo : CollectItem(i)
  \/ \E n \in pending : CollectInstance(n)

Spec == Init /\ [][Next]_vars /\ WF_vars(Next)

-----------------------------------------------------------------------------
(* Properties.                                                              *)

Collected == todo = {} /\ pending = {}

Functions == {functions[k] : k \in DOMAIN functions}

Bodies == {f.body : f \in Functions}

TypeOK ==
  /\ crate \in Crates
  /\ todo \subseteq crate.items
  /\ pending \subseteq crate.instances
  /\ functions \in Seq([symbol : emitted, body : crate.items \cup crate.instances])

(* What must be in the module, with no trace of the worklist: the least set *)
(* of bodies that holds every item without generic types and every instance *)
(* a body in it calls.                                                      *)
Closed(S) ==
  /\ crate.items \ crate.parametric \subseteq S
  /\ \A b \in S : \A u \in crate.uses[b] :
       u.kind = "call" /\ u.target \in crate.instances => u.target \in S

Required ==
  {b \in crate.items \cup crate.instances :
     \A S \in SUBSET (crate.items \cup crate.instances) : Closed(S) => b \in S}

(* The worklist of collect reaches every instance that is called, through   *)
(* other instances and through recursion, and no other.                     *)
CollectsRequired == Collected /\ DistinctNames(crate) => Bodies = Required

(* No symbol is defined twice, nor a body under two symbols: an instance    *)
(* called from many bodies, or from itself, is emitted once (the symbol     *)
(* table of the module's verifier).                                         *)
DefinedOnce ==
  \A k, l \in DOMAIN functions :
    functions[k].symbol = functions[l].symbol \/ functions[k].body = functions[l].body
      => k = l

(* Collection ends if the bodies it must take are finitely many, whatever   *)
(* calls itself: every instance is popped and found emitted in the end.     *)
(* The loop has no bound of its own.  Where f::<T> calls f::<Option<T>> the *)
(* hypothesis fails, and collection does not end (EndsOnlyIfFinite in       *)
(* Collect_proofs).                                                         *)
TerminatesIfFinite == IsFiniteSet(Required) => <>Collected

Lands(u) ==
  u.target = Foreign
    \/ [symbol |-> SymbolOf(u), body |-> u.target] \in Functions

(* The uses whose symbol is that of the function they resolve to: calls of  *)
(* instances, and uses that name the item itself, one without generic types *)
(* in its body.                                                             *)
Plain(u) ==
  \/ u.kind = "call" /\ u.target \in crate.instances
  \/ u.target \in crate.items \ crate.parametric /\ u.def = crate.path[u.target]

(* Every plain use in a collected body finds the function it resolves to in *)
(* the module, under the symbol the use is lowered to.                      *)
PlainUsesLand ==
  Collected /\ DistinctNames(crate) =>
    \A b \in Bodies : \A u \in crate.uses[b] : Plain(u) => Lands(u)

(* What the comments at lib.rs:1200 (local generic instances must be        *)
(* emitted) and lib.rs:1276 (the mangled name is the identity of the        *)
(* resolved callee) promise of every use.  Fails for calls of trait methods *)
(* (their def is the method of the trait, which has no body or another      *)
(* one), closures of generic functions (the closure's instance is never     *)
(* queued), addresses of generic functions (only calls are looked at) and   *)
(* functions that share a path (the second is left out).                    *)
UsesLand ==
  Collected => \A b \in Bodies : \A u \in crate.uses[b] : Lands(u)

=============================================================================
