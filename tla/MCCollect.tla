------------------------------ MODULE MCCollect -----------------------------
(***************************************************************************)
(* Crates with a plain function k, a generic function G, a generic function *)
(* H that has no generic type among its locals, and a closure in main.      *)
(***************************************************************************)
EXTENDS Collect

Use(kind, def, target) == [kind |-> kind, def |-> def, target |-> target]
Call(def, target) == Use("call", def, target)

MCForeign == "foreign"
MCItems == {"main", "k", "G", "H", "cl"}
MCInstances == {"g1", "g2", "h1"}
MCPath ==
  [i \in MCItems |-> CASE i = "cl" -> "p::main::closure" [] i = "main" -> "p::main"
                       [] i = "k" -> "p::k" [] i = "G" -> "p::G" [] i = "H" -> "p::H"]
MCMangled ==
  [n \in MCInstances |-> CASE n = "g1" -> "_RG1" [] n = "g2" -> "_RG2" [] n = "h1" -> "_RH1"]

CallG1 == Call("p::G", "g1")
CallG2 == Call("p::G", "g2")
CallH1 == Call("p::H", "h1")
CallK  == Call("p::k", "k")

Base == [items |-> MCItems, instances |-> MCInstances, parametric |-> {"G"},
         path |-> MCPath, mangled |-> MCMangled]

WithUses(uses) ==
  [items |-> Base.items, instances |-> Base.instances, path |-> Base.path,
   parametric |-> Base.parametric, mangled |-> Base.mangled, uses |-> uses]

\* Instances that call each other and themselves, in every combination.
MCCrates ==
  {WithUses([b \in MCItems \cup MCInstances |->
      CASE b = "main" -> m \cup {CallK, Use("closure", "p::main::closure", "cl"),
                                   Use("address", "p::k", "k"), Call("puts", "foreign")}
        [] b = "k"  -> k
        [] b = "cl" -> {CallH1}
        [] b = "G"  -> {Call("p::T::t", "foreign")}
        [] b = "H"  -> {}
        [] b = "g1" -> g
        [] b = "g2" -> h
        [] b = "h1" -> {CallK}]) :
     m \in SUBSET {CallG1},
     k \in SUBSET {CallG2, CallH1}, g \in SUBSET {CallG1, CallG2},
     h \in SUBSET {CallG1, CallH1}}

\* main calls a method of a trait on a type that implements it, where the trait
\* has a default body; an instance of G, which calls a closure of G; and two
\* functions p::main::f, each nested in a block of main.  It takes the address
\* of another instance of G.
MCUseItems == {"main", "impl", "default", "G", "cl", "f1", "f2"}
MCUsePath ==
  [i \in MCUseItems |->
     CASE i = "impl" -> "<p::A as p::T>::t" [] i = "default" -> "p::T::t"
       [] i = "cl" -> "p::G::closure" [] i \in {"f1", "f2"} -> "p::main::f"
       [] i = "main" -> "p::main" [] i = "G" -> "p::G"]
MCUseCrates ==
  {[items |-> MCUseItems, instances |-> {"g1", "g2", "cl1"}, parametric |-> {"G", "cl"},
    path |-> MCUsePath,
    mangled |-> [n \in {"g1", "g2", "cl1"} |->
                   CASE n = "g1" -> "_RG1" [] n = "g2" -> "_RG2" [] n = "cl1" -> "_RC1"],
    uses |-> [b \in MCUseItems \cup {"g1", "g2", "cl1"} |->
                CASE b = "main" -> {Call("p::T::t", "impl"), CallG1,
                                    Call("p::main::f", "f1"), Call("p::main::f", "f2"),
                                    Use("address", "p::G", "g2")}
                  [] b = "g1" -> {Use("closure", "p::G::closure", "cl1")}
                  [] OTHER -> {}]]}

=============================================================================
