--------------------------- MODULE MCCargoExtract ---------------------------
(***************************************************************************)
(* A package with a build script, a library and a binary of one crate name, *)
(* and a dependency, built by one driver next to an extractor that executes *)
(* a crate.                                                                 *)
(***************************************************************************)
EXTENDS CargoExtract

MCUnits == {"build", "dep", "lib", "bin", "util", "one", "two"}
MCDrivers == {"d", "e", "x"}
MCExecutes == {"x"}

\* Two targets of one crate name that clash in no symbol; a build script and a
\* target that clashes with another; two extractors that drive Cargo; one that
\* drives Cargo and one that executes.
MCPlans ==
  {[d |-> {"build", "lib", "bin"}],
   [d |-> {"dep", "lib", "util"}],
   [d |-> {"one"}, e |-> {"two"}],
   [d |-> {"one"}, x |-> {}]}

MCCrateName ==
  [u \in MCUnits |-> CASE u = "build" -> "build_script_build"
                       [] u \in {"dep", "one", "two"} -> u
                       [] OTHER -> "p"]
MCPrimary == MCUnits \ {"dep"}
MCNeeds ==
  [u \in MCUnits |-> CASE u = "bin" -> {"build"} [] u = "lib" -> {"dep"} [] OTHER -> {}]
MCSymbols == [u \in MCUnits |-> IF u = "util" THEN {"util", "lib"} ELSE {u}]
MCPids == 1..3

=============================================================================
