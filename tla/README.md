# A formal model of rust-to-mlir

rust-to-mlir compiles Rust to LLVM through MLIR. A driver built on
`rustc_public` (the *extractor*) writes each crate's MIR as a module in the
`rust.mir` dialect; the pass `rust-lift-typed-mir` turns it into the
`rust.typed` dialect, whose functions are lists of indexed blocks over typed
operations; conversion passes take that to `arith`, `func`, `cf` and LLVM.

This directory models the parts of the system where control flow, values, memory or
symbols are made or changed, states what must be true of them, checks it with TLC on small
instances and proves the central parts with TLAPS for every instance. Paths
below are relative to the repository.

## Inventory

| Part | Code | State | Operations | Modelled by |
|---|---|---|---|---|
| Lifting of a function | `lib/Dialect/RustMIR/Transforms/LiftTypedMIR.cpp` | typed blocks so far, `nextSyntheticBlock`, insertion point, call stack of the emit functions, `sawFailure` | `runOnOperation`, one `lower*` per terminator, `emitDropGlueTo` and its helpers | `MirTypes`, `MirBody`, `LiftTypedMIR` |
| Drops at run time | the same, and the conversions of what it emits | program counter, destructors run, enum tags | drop calls, switch on a tag, goto, return | `RustDrop` (what is promised), `TypedExec` |
| Typed blocks to `cf` | `lib/Conversion/RustTypedToControlFlow` | worklist, reachable set, block map, function type | `filterReachableTypedBlocks`, `lowerTypedTerminator`, `TypedBlockConversion` | `TypedBody`, `TypedBlocks` (what is promised), `TypedToCf` |
| Switch values | `tools/rust-mir-extract/src/lib.rs`, `lib/CAPI/Rust.cpp`, the `cf` conversion | the branches of one switch as each stage has them | `from_public`, `rustMirSwitchTargetsAttrGet`, `parseSwitchCaseName` | `SwitchTargets` |
| Calls and declarations | `RustTypedToFunc`, `RustTypedToControlFlow` | the module's symbol table | `ensureFuncDeclaration`, `TypedFuncOpConversion` | `RustCalls` (what is promised), `FuncDecls` |
| Collection of a crate | `lib.rs` 1255-1330, 1757-1974 | items, worklist of instances, symbols and functions emitted | `MirProgram::collect`, `from_call` | `Collect` |
| Cargo driver | `lib.rs` 546-580, 3267-3303, 3552-3895, `lib/CAPI/Rust.cpp` 349-419 | work directories, fragments, driver and wrapper processes, the output | `run_cargo`, `run_rustc_wrapper`, merge, clean-up | `CargoExtract` |
| Scalar operations | `LiftTypedMIR.cpp` 738-1124, `lib/Conversion/RustTypedToArith` | one operation, its code, what it yields | the typed operation, the pattern that matches, the emitted sequence | `RustOps`, `RustArith` (what is promised), `ArithOps`, `Arith` |
| Statements and memory | `LiftTypedMIR.cpp` 271-728, 1158-1647, 2392-2425, `lib/Conversion/RustTypedMemoryToLLVM`, the aggregates of `RustTypedToArith` | the operations of each statement, slots, memory | `lowerAssign`, `materializePlaceAddress`, layouts, loads and stores | `MirPlaces`, `MirMemory` (what is promised), `TypedPlaces`, `TypedMemory` |
| Local slots | `lib/Dialect/RustMIR/IR/RustTypedOps.cpp` 451-657 | slots and their users | SROA and mem2reg interfaces | the same two |
| Runtime allocator | `runtime/src/lib.rs` 150-206 | the heap | `__rtl_alloc`, `__rtl_dealloc`, `__rtl_realloc` | not modelled |
| Glue and I/O | dialect registration, C API wrappers, `rust-run`, `rust-cpu-runner`, toolchain lookup, wheel | none of their own | | not modelled |

How the parts meet. The extractor calls the C API once per MIR construct. The
pipeline of `lib/Support/Toolchain.cpp` then runs the passes one after another
on one module: lift, SROA, arith, func, cf, mem2reg, memory-to-LLVM. Nothing
runs concurrently inside a pass, so what is hard there is not interleaving but
*protocol*: nested emit functions that share a counter and an insertion point;
two parts of one pass that must agree on what "the next block" is; a number that
four stages represent in four ways; a function that fails half-way. Concurrency
proper exists only in the Cargo driver, where Cargo runs the wrapper in parallel
processes.

What makes each part correct:

* **Lifting.** Block indices never clash, whatever nests; every branch goes to a
  block; every block is ended exactly once; no created block is left unentered;
  a function fails if and only if part of it cannot be lifted.
* **Drops.** A drop terminator runs the destructors Rust's rules call for, each
  once and in order, then control moves on, always.
* **Typed to cf.** The blocks lowered are those control can get to; a block
  without a terminator falls through to the same block in both halves of the
  pass; what cannot run never makes a function fail; the result does what the
  typed blocks say.
* **Switch values.** A switch goes where the MIR says.
* **Collection.** The module holds the items and the instances its bodies call,
  each once, under the symbol their uses are lowered to.
* **Cargo driver.** The output has every crate of this invocation that is to be
  extracted and no other, or there is none; nothing is left behind.
* **Calls and declarations.** A module comes out exactly when every use agrees
  with the function it names, whatever the order of conversion, and the i-th
  operand of a call lands in local `_i`.
* **Scalar operations.** What the code yields is what MIR says, at the edges of
  every width and with the signs the registers have lost; no range reaches past
  its slice.
* **Statements, memory and slots.** The locals go through the values MIR gives
  them, whichever of sroa and mem2reg ran; a pointer never outlives its slot's
  place in memory.

`PROJECT.json` lists the hazards line by line with the properties that cover
them.

## Modules

```
MirTypes <- MirBody <- RustDrop                 (abstract: what a drop owes)
                    <- LiftTypedMIR <- TypedExec (implements RustDrop)
                                    <- LiftTypedMIR_proofs
TypedExec, LiftTypedMIR_proofs <- TypedExec_proofs
TypedBody <- TypedBlocks                        (abstract: what typed blocks mean)
          <- TypedToCf (implements TypedBlocks) <- TypedToCf_proofs
SwitchTargets <- SwitchTargets_proofs
RustCalls                                       (abstract: when functions fit)
  <- FuncDecls (implements RustCalls) <- FuncDecls_proofs
RustArith                                       (abstract: evaluated once, as MIR says)
RustOps <- ArithOps <- Arith (implements RustArith) <- Arith_proofs
MirPlaces <- MirMemory                          (abstract: statements on locals)
          <- TypedPlaces <- TypedMemory (implements MirMemory)
Collect <- Collect_proofs
CargoExtract <- CargoExtract_proofs
```

`MC*` modules give the constants values for TLC.

**MirTypes, MirBody.** A type table: kinds are those the drop lowering tells
apart, the parts of a type are smaller numbers (a Rust type contains itself
only behind a pointer, and pointers are leaves). `MayNeedDropGlue` is
`mayNeedDropGlue`, `FieldPlaces` the address computations. A body is a sequence
of blocks with a terminator; statements are one flag, "every statement of this
block can be lifted". The named assumptions say what rustc guarantees.

**LiftTypedMIR.** One action per step of the pass: `Scan`/`ScanDone` the
pre-scan that puts the counter above every MIR index, `LiftBlock`/`LiftDrop`
one MIR block, and one action per call (or loop iteration) of an emit function.
The C++ recursion is made explicit: `work` is the call stack, `Head(work)` the
call that is running and its `at` the builder's insertion point. A failing emit
empties the stack, because every caller returns at once; the pass goes on with
the next block and fails at the end. `Finish` erases the source function, which
is what the pass does with `erase-source-mir` set.

**TypedExec.** The lifted blocks run, one operation at a time. Operands the
model does not follow are nondeterministic; the variant each enum holds is
chosen when control enters the MIR block that drops it. `RustDrop` is the
abstract specification, and `ImplementsRustDrop` says `TypedExec` implements it,
the identity on the shared variables being the refinement mapping.

**TypedBody, TypedBlocks, TypedToCf.** A function as the pass meets it: blocks
with an index, at most one terminator, and the flag that operations follow it.
Indices may repeat, targets may be unknown, returns may differ, because the pass
is what refuses these. `TypedToCf` takes the pass apart: the index check, return
types, the worklist visit by visit, the lowering block by block, the verifier,
and then runs the `func.func`. The worklist is a set: the order of visits
decides nothing else, and an index pushed twice is skipped the second time. The
verifier of `func.return` is not in the repository; it is modelled as an
external step because a function with returns of the wrong type is refused
there. `TypedBlocks` says what the function means without any of that. `Types`
are the value types a return or a discriminant can have; the conversion compares
them and looks for `unit` only, so three stand for all.

**SwitchTargets.** One switch on its way from rustc (bit patterns as `u128`)
through the extractor (`i64`), the C API (a name with digits) and the `cf`
conversion (the digits at the discriminator's width). Word width and
discriminator widths are constants.

**RustCalls, FuncDecls.** A program is its functions in module order, each with
the locals of its body, its result type, whether it has a return, and its uses
of other functions; `others` are symbols that are no functions. `ConvertFunc`
is `convert-rust-typed-to-func`, which gives arguments and entry stores but no
results; `ConvertBlocks`, `ConvertCall`, `ConvertAddress` and `NextFunction` are
one function after another through `convert-rust-typed-to-cf`; `Verify` is the
external verifier of `func.call` and `func.constant`. Types are compared as that
pass sees them, after signs were lost (`Represented`). `RustCalls` says when a
program fits without any order, and `DecidesAgreement` is the refinement
(`INSTANCE RustCalls WITH verdict <- Verdict`), a verdict always reached
included.

**RustOps, RustArith, ArithOps, Arith.** `RustOps` is what MIR promises of an
operation in mathematical integers; a type is its class, its sign and half of
its number of values. `ArithOps` has registers without signs and the sequences
the patterns emit, written at a half `h` so that every definition is about every
width. `Arith` takes one operation through `Lift`, one `Convert*` per pattern
with the pattern's own condition on the converted types, or `Leave` if none
matches, and `Execute`. A checked operation is rustc's pair of operation and
assertion: the lowering aborts itself. Floats are NaN or a number of halves,
which is what casts and comparisons can tell apart. `KeepsRustMeaning` is the
refinement of `RustArith`.

**MirPlaces, MirMemory, TypedPlaces, TypedMemory.** `MirPlaces` gives places and
rvalues a meaning on structured values, with locations as paths;
`MirMemory` runs a function's statements with it. `TypedPlaces` is the lifting
of a statement, as expressions over slots, and the interfaces by which sroa and
mem2reg take slots apart; `TypedMemory` runs them: `Lift` (refused if a
statement does not lower or `FieldAddrOp`'s verifier rejects a field path), `DestructureSome`
(any slot, in any order), `Start` (mem2reg's promotions and the entry), `Step`
(one statement: addresses and values, then its writes). A layout is a tree of
elements, an enum its tag and then every variant side by side. The mapping of
`KeepsMirMemory` puts split slots together and undoes the layout, uninitialised
parts included. It holds but for the statements of `MisreadsEnum`, which are named
below.

**Collect.** The crate is a constant record: its items, those with generic types
in their bodies, the instances rustc can resolve calls to, and for each body the
functions it names and what rustc resolves them to. `CollectItem` and
`CollectInstance` are one round of the two loops of `collect`; `SymbolOf` is
the name `from_call` gives a call, or the lifting pass an address. The
specification is `Required`, the least closed set of bodies, which mentions no
worklist.

**CargoExtract.** One record per driver process and per rustc invocation, the
directories and fragments on the disk, and a clock. A wrapper's path through the
code is `StartJob`, `NameFragment` (the name is made, `create_dir_all`),
`OpenFragment`, `CloseFragment`, `FinishJob`, with `FailJob` possible at every
point; a driver's is `CreateDir` (one attempt each), `RunCargo`,
`ListFragments`, `Merge`, `CleanUp`. A fragment is its unit and whether it is
whole. What Cargo and the kernel decide (which invocation next, which process
number, who is killed) is left open. The plans of a run say who runs beside
whom.

## Runs

| Run | Module | Checks | Instance |
|---|---|---|---|
| `lift` | `MCLift` | `FreshIndices`, `TargetsKnown`, `BlockDiscipline`, `SyntheticEntered`, `IndexInv`, `BlockInv`, `ClosedBlocksAreFinal` | every ordered pair of 19 types dropped in one function with a branch, a call and an assertion, plus loops, divergence and failing bodies |
| `exec` | `MCExec` | `ImplementsRustDrop` | each of the 19 types dropped, four mixed bodies, loops, failures; implicit discriminants |
| `exec_owed` | `MCExecOwed` | `DropsWhatIsOwed`, violated | one drop of a tuple with findings 1 to 3 side by side |
| `typed_to_cf` | `MCTypedToCf` | `KeptCanRun`, `FallThroughAgrees`, `BranchesKnown`, `CfInv`, `ImplementsTypedBlocks` | every function of up to three blocks from a set of terminators, ill-formed ones included |
| `switch_targets` | `MCSwitchTargets` | `NarrowSwitchAgrees`, `NoForeignBranch` | every switch of at most two branches, 3-bit words, discriminators of 1, 2, 3 and 5 bits |
| `switch_wide` | `MCSwitchTargets` | `SwitchAgrees`, violated | the same |
| `collect` | `MCCollect` | `TypeOK`, `CollectsRequired`, `DefinedOnce`, `PlainUsesLand`, `TerminatesIfFinite` | 128 crates with five items and three instances of two generic functions |
| `cargo_extract` | `MCCargoExtract` | `MergesThisBuild`, `CodeTells`, `DirsHeld`, `NothingLeft`, `ExtractInv`, `FragmentsKept`, `DriversEnd` | four plans: a build script with two targets of one crate name; a dependency with targets that clash; two drivers; a driver beside an executing extractor. Three process numbers, two readings of the clock, one kill |
| `arith` | `MCArith` | `TypeOK`, `CheckedExact`, `SliceInside`, `OnlyMixedShiftsLeft`, `KeepsRustMeaning` | every operation on every operand of the signed and unsigned types of 2 and 3 bits and of bool; floats in halves from below the lowest value to above the highest, and NaN; every range form on every bound and length |
| `places` | `MCPlaces` | `TypeOK`, `PointersIntoMemory`, `SlicesInside`, `KeepsMirMemory` | 3,365 programs of five statements that MIR gives a meaning to, over tuples, an array, an enum with declared discriminants, a struct, an enum of one variant, references and raw pointers to them, under every combination of sroa and mem2reg |
| `func_decls` | `MCFuncDecls` | `TypeOK`, `ArgumentsLand`, `DeclInv`, `DecidesAgreement` | two functions of four signatures, with up to two and one uses of each other, of themselves, of a function from elsewhere and of a symbol that is no function, rightly or wrongly typed |
| `collect_uses` | `MCCollect` | `UsesLand`, violated | one crate with findings 5 to 8 side by side |

`IndexInv`, `BlockInv`, `CfInv`, `DeclInv` and `ExtractInv` are the inductive
invariants of the proofs below; the runs say that every reachable state has them. The `TypeOK` of `LiftTypedMIR`,
`TypedToCf` and `CargoExtract` is not run by itself, being part of `IndexInv` and
proved to follow from `CfInv` and `ExtractInv`.

*Why the bounds are enough.* The emit functions distinguish a type by its kind,
by which of its fields need glue and by how many do; the 19 types have one of
each shape, with nesting to depth three, so every action fires with every
neighbour on the stack. Two drops per function are needed to see the shared
counter, and a MIR index that is larger than its successors to see the
pre-scan. Reachability in `TypedToCf` needs a block that is skipped over, a loop
and a fall-through across an unreachable block, which three blocks have. With
words of three bits, 2 is the largest width below a word, 3 is the word and 5
is wider than a word, as 32, 64 and 128 are in the code. The crates of `collect` have self-calls, mutual recursion, an instance reached
only through another, one that no body calls, and a generic function without a
generic type among its locals, whose item is collected beside its instance.
The code at a width depends on the sign, the half and the operands only, and the
two widths give every cast both directions; a two-bit attribute makes the types
of three bits what i128 is to the i64 attribute of constants. The programs of
`places` make, borrow, copy, change and read: five statements are what it takes
to read through a slice of a slice that something wrote under. The enum of one
variant is `enum Single { A(i32, (i32, i32)) = 5 }`: downcasts to its first field
pass the verifier, those to its second do not, nor do those into the struct of two
scalars. Two functions
show a callee before and after its caller, and two uses a declaration and a
later disagreement with it. Arrays of more than 1024 elements, which sroa leaves
whole, are in the model but not in the instance.
In `cargo_extract`, three process numbers for up to four processes make numbers
come again, two readings of the clock put some processes at one reading and
others at two, and two attempts (1024 in the code) are what the two directories
of one process need.

*Deadlock* is not checked: a pass ends and a function returns.

*Fairness.* `WF(LiftNext)`, `WF(PassNext)`, `WF(ExecNext)`, and the
`WF(Next)` of `Collect` and `FuncDecls` say the compiler does not stop in the middle of a pass and a running program does not stop
between two operations; both are single-threaded sequential code with nothing to
wait for. That a sequential pass goes on does not say that it ends: for `Collect` the
property has a hypothesis of its own (below, *Polymorphic recursion*). In `CargoExtract`, drivers, Cargo's end and every started invocation
go on (`WF` on each), which is what the operating system's scheduler gives a
process that does not wait; nothing is assumed of the clock, of new drivers or
of kills. Nothing is assumed of which branch a switch takes.

Each property of a passing run has a mutant in its module (the definitions
under the comment *Mutant*): the model with that plausible slip violates it.

## Proofs

TLAPS checks these for every type table, body, function, program, crate, build
plan and width. The invariant each argument rests on is in the module of the
component, and the run of that module checks it too; `DropInv`, which TLC cannot
evaluate, is beside its proof in `TypedExec_proofs`.

* **`LiftTypedMIR_proofs`.** `FreshIndices` and `TargetsKnown` are not
  inductive: that a new index is fresh depends on the counter being above all
  others, and that a target exists depends on what the pending emissions will
  branch to. `IndexInv` adds exactly these: `CounterAbove`, `EmissionsOK`
  (every pending emission has an existing block to write to, a target that
  exists or is a MIR block to be lifted, and arms whose blocks exist),
  `TargetsExist`, `LiftedExist` and `Phases`. The lemmas prove what the three
  things an action can do (emit operations, create a synthetic block, pop and
  push emissions) preserve, then each action is one short lemma. From
  `IndexInvariant` follow `TypeCorrect`, `IndicesAreFresh` and
  `NoDanglingTargets`. Assumptions used: `TypeTable`, `RustcTypes`, `Bodies`,
  `SingleTargets`.
  The second part is about who owns which open block. `BlockInv` says that a block
  is open only while one pending emission will end it, that an enum's variant
  blocks are apart (`ArmsApart`), and that a block nothing branches to yet is the
  target of an emission still to come (`NoneForgotten`). Every action of the glue
  but the failing one is a `Handover`: it pops an emission, writes to the block it
  owned, and pushes emissions that share what it owned, the created block
  included. One lemma says what a handover keeps; the others say that each action
  is one. Results: `BlocksEndOnce` (`BlockDiscipline`), `SyntheticBlocksEntered`
  (`SyntheticEntered`), and the action property `EndedBlocksAreFinal`
  (`ClosedBlocksAreFinal`). Assumptions as above.
* **`TypedExec_proofs`.** What the lifted blocks do when they run. The
  hypothesis is `DropsKnown`: inside every place a function drops by glue, the
  module has the Drop impls the source has, `mayNeedDropGlue` does not ask for glue
  in a union or a `ManuallyDrop`, and the tags of an enum are its variant indices. It
  leaves out the kinds of types findings 1 to 3 are about (an enum with other tags
  also when none of its variants needs glue); TLC evaluates it on the constants of
  `exec` (an `ASSUME` of `MCExec`), and it is false of those of `exec_owed`. Three
  theorems:
  - `ExecutionStepsAsRust`, the safety half of `ImplementsRustDrop`: every step of the
    pass and of the compiled function is a step of `RustDrop` or a stutter, so a drop
    calls each destructor it owes once, in Rust's order, before control goes on;
  - `LiftingJudgesDrops`: the pass fails exactly for what it does not support;
  - `DropsAreWhatIsOwed` (`DropsWhatIsOwed`): what `exec_owed` refutes in general
    holds of every type the hypothesis covers.

  The glue is a recursion over types whose results are blocks, so an invariant of
  `typed` and `work` alone cannot say that a block is right: what it must destroy
  depends on who will continue it. `DropInv` therefore speaks of a *plan*: for each
  value the dropped place can have there is a function `rest` from the blocks of the
  drop to what each has still to destroy. A block that is ended does what `rest` says
  of it (`Explained`: its calls destroy a prefix, its branch goes where the remainder
  is left, on the arm the tag selects); an emission on the stack promises it of the
  block it has open (`Told`). `Hand` is what an action of the glue does to a plan:
  the emission on top hands its promise over, and a new block may enter the plan
  (`GrownTells`). `Judged` ties failure to `Supported`. When the stack is empty
  the plan is `Settled`, and `Halfway` says of the running program that what is
  logged and what `rest` has left add up to what is owed.
  What a place owes, `mayNeedDropGlue` and `PlacesIn` are recursive functions of a
  type; `Recursion` proves once that such a definition has a solution (the least
  size at which it would not is excluded by the well-foundedness of `<`), and their
  equations follow, as does that of `FlattenSeq`. TLC cannot evaluate the quantifier
  over plans, so `DropInv` is an invariant of no run; `exec` checks the refinement it
  was found for. Assumptions used: as above.
* **`TypedToCf_proofs`.** `PassInv` says of the worklist that whatever was
  visited has its successors seen, and that every closed set holds what was
  seen; so when the worklist is empty, what was visited is the least closed set
  (`KeepsWhatCanRun`). Because that set is closed under fall-through, the
  next block of the full list and of the filtered list agree
  (`FallThroughIsNext`). A branch is only made to a kept block
  (`NoBranchLeaves`). `CfInv` adds what the lowering has made: each branch is the
  lowering of a block that could be lowered (`Translated`), the result type is
  that of the returns (`Results`, `Verified`), and a function runs in a block that
  was made (`Statuses`). From it follow `BranchesTyped` (`TypeOK`) and
  `RunsTypedBlocks`, the safety half of `ImplementsTypedBlocks`: every step of
  the pass and of the compiled function is a step of `TypedBlocks` or a stutter.
  A function the pass finishes has no flaw in a part that can run, one it
  refuses has one, and an arm the compiled switch takes is one the typed switch
  may take. Assumptions used: `Functions`, `Cases`, `KnownTypes`.
* **`SwitchTargets_proofs`.** `ExtractionInv` relates the branches each stage
  has to those of rustc; `NarrowSwitches` and `NoForeignBranches` follow.
  Assumptions used: `Words`, `RustcSwitches`.
* **`FuncDecls_proofs`.** `DeclInv` says what the symbol table is after any number
  of functions and uses: a function of the module has its arguments once its turn
  has come and its results once its blocks are converted
  (`FunctionsDeclared`), any other symbol has the type of a call that wanted
  it (`OthersDeclared`), and a call converted has its callee in the table
  (`CalleesDeclared`). It gives `ResultsStay` (`TypeOK`), `OperandsLand`
  (`ArgumentsLand`; the slot of an argument is the one whose number has that
  rank, which takes an argument about cardinalities) and `VerdictIsAgreement`, the safety
  half of `DecidesAgreement`: the passes refuse a program exactly if two of its
  uses, or a use and a definition, disagree, in whatever order the passes meet
  them. Assumption used: `RustcPrograms`.
* **`Collect_proofs`.** The same argument as for reachability, over two kinds of
  bodies: `Reached` (what is collected or pending is in every closed set) and
  `ItemsDone` and `Followed` (what is collected is closed but for what is
  pending or not looked at). `Named` and `Noted` tie symbols to bodies, and
  carry `NoDuplicates` and `PlainUses`. The items of a crate are finite, its instances
  need not be. What has been collected is finite at any time, so if the required
  bodies are not, the worklist is never empty (`EndsOnlyIfFinite`, the safety half of
  what `TerminatesIfFinite` says from the other side), and a crate with polymorphic
  recursion is of this kind (`PolymorphicRecursion`). Assumption used: `CratesOK`; that names
  are distinct is a hypothesis of the properties that need it, because nested
  functions break it.
* **`CargoExtract_proofs`.** For any number of drivers, invocations, process
  numbers, readings of the clock and kills. A directory and a fragment are named by a
  process number and a reading of the clock, and neither alone is unique; the heart of
  `ExtractInv` is that together they are (`NoncesApart`, `JobsApart`,
  `NamesFresh`), as long as a number is not given out again within one reading.
  That is an assumption of the model (`recent`), stated of the operating system.
  From it follow who owns a directory (`Owned`), which
  invocations can be alive at a stage of their driver (`Stages`, `Parentage`),
  and that the directory of a driver whose Cargo succeeded has the whole
  fragments of its own build, each once (`FragmentsFound`). For each part a
  lemma says when a step cannot disturb it; for each action a lemma goes
  through the parts. Results: `OutputIsThisBuild` (`MergesThisBuild`),
  `CodeTellsOutput`, `DirectoriesHeld`, `NoDirectoryLeft`, `StatesTyped` and the
  action property `WholeFragmentsKept` (`FragmentsKept`). Assumption used:
  `Constants`, among others that `None` is neither a state of Cargo nor a set
  of units.
* **`Arith_proofs`.** First powers of two: the bits of a register are the divisors
  of its half, and `BitsExist` says that every set of them is that of a register
  (each bit is twice the one below; the induction is over the least width that
  would break it, from the well-foundedness of `<` in the library). It makes the
  bitwise operations total. Then what registers do to integers (`RegUnique`: an
  integer has one quotient and one register; from it, that truncation commutes
  with addition, subtraction and multiplication, and that a register read with
  the type's sign is the wrapped value), then one lemma per group of operations
  that the emitted code is `Correct`, the three overflow tests among them. The
  products of two variables are kept out of the solver's sight: each lemma names
  quotient and remainder and works on those. `CheckedExact`, `SliceInside` and
  `KeepsRustMeaning` speak of the end of the pipeline only, and nothing there
  tells which pattern made the code; `Inv` carries that: the operation is well
  formed, from stage `arith` on its code is the one of its kind (`Emits`), and at
  the end the outcome fits its register and is the operation's meaning unless its
  constant was misread. From it follow `TypeCorrect`, `MixedShiftsTheorem`, `CheckedTheorem`,
  `SliceTheorem` and `RefinementTheorem`, the implementation of `RustArith`.
  Assumptions used: `OperationsAssumption`, `AttributeAssumption`.

Only model-checked, and why:

* liveness: `TerminatesIfFinite`, `DriversEnd`, and the fairness halves of
  `ImplementsTypedBlocks`, `DecidesAgreement` and `ImplementsRustDrop`. Fairness
  and `ENABLED` are out of the prover's reach;
* the properties of `TypedMemory` (`TypeOK`, `PointersIntoMemory`, `SlicesInside`)
  and its refinement of `MirMemory`: values, places and layouts are recursive
  operators, which the prover cannot use.

## Findings

1. **Explicit discriminants** (`exec_owed`). The switch of an enum's drop
   glue compares the stored tag, which is the declared discriminant, with the
   variant index. An enum declared with other discriminants has the wrong
   fields dropped or none.
2. **Generic Drop impls** (`exec_owed`). The Drop impl of a generic local
   type is never extracted, and the glue takes its absence for "no impl".
3. **ManuallyDrop** (`exec_owed`). The structural glue drops what a
   `ManuallyDrop` component holds.
4. **Wide switch values** (`switch_wide`). A branch whose bit pattern exceeds
   `i64::MAX` (any negative case of an `i64` match) is left out by the
   extractor without an error and its value goes to the default.
5. **Trait methods** (`collect_uses`). A call of a local trait's method is
   lowered to the path of the trait's method, not to the implementation rustc
   resolved it to: the symbol is undefined, or that of the default body.
6. **Closures of generic functions** (`collect_uses`). Their bodies are left
   out as generic and their instances are never queued.
7. **Addresses of generic functions** (`collect_uses`). Only calls queue
   instances.
8. **One path, two functions** (`collect_uses`). Functions nested in sibling
   blocks share a path; the second is left out silently and calls of it go to
   the first.

Each is quoted with the test or comment it disagrees with in `PROJECT.json`.

## What the models say of the code besides

Remarks met while modelling that no document, comment or test of the repository
contradicts, so that they are not findings:

* **Negative 128-bit constants.** The extractor gives a constant that fits in 64
  bits as a 64-bit attribute (`lib.rs` 2246), and `buildIntegerAttr`
  (`RustTypedToArith.cpp` 537) extends it with zeros: `-1i128` becomes
  2^64 - 1. `Misread` names these constants and `KeepsRustMeaning` leaves them
  out; with them it fails.
* **Shifts.** A shift whose amount has another width than the value
  (`i64 << i32`) matches no pattern and stays unlowered (`OnlyMixedShiftsLeft`).
  Amounts are not masked, so that nothing is said of amounts of the width or
  more, which only builds without overflow checks reach.
* **Ranges.** core accepts the empty inclusive range `s[n+1..=n]`; the assertion
  start <= end that lifting emits refuses it. `RustOps` follows the lowering.
* **Checked operations** abort in their own code. This differs from MIR only
  where a checked operation is not followed by its assertion.
* **Single-variant enums.** They are laid out without a tag, but `field_addr`
  with a variant steps over one (`RustTypedMemoryToLLVM.cpp` 558). Mostly the
  operation's verifier refuses the path once types are converted
  (`RustTypedOps.cpp` 108). It takes it where the second field is a struct with a
  field of the same type at the index: of `enum E { A(i32, (i32, i32)) }`, the place
  `(_1 as A).0` is lowered to `.1.0`, and is read, written and borrowed there. And
  the discriminant of such an enum always reads 0, a declared one included.
  `MisreadsEnum` names these statements and `KeepsMirMemory` leaves them, and no
  others, out; with either kind left in, it fails.
* **Projections.** Constant indices on slices, and subslices of arrays typed as
  arrays, are refused by lifting.
* **Polymorphic recursion.** The worklist of `collect` (`lib.rs` 1779) has no bound.
  Of a generic function that calls itself at a type it has wrapped (`f::<T>` calls
  `f::<Option<T>>`) there is always another instance, and the extractor does not
  end; rustc itself stops such a program at its recursion limit.
  `TerminatesIfFinite` has the finiteness of what is required as its hypothesis.
* **A failed merge** may leave a truncated output file behind its exit code of 1
  (`Rust.cpp` 405-418). `output` in `CargoExtract` is what a driver has written
  when it reports success; `Merge` is one step, the file being written by one
  process that nothing else reads from.
* **Diverging functions.** A function with a value type that never returns gets
  no results, so calls that expect its value are refused; the address of a
  function from elsewhere that nothing calls is refused, for nothing declares
  it; `u32` and `i32` are one type to the check.

## Not modelled, and the plan

Left out for good: parsing and printing, dialect registration, C API wrappers,
toolchain lookup, packaging, the allocator shims, `rust-run`'s and
`rust-cpu-runner`'s process and JIT set-up. They keep no state of their own.
Float arithmetic, float constants and float math calls are one instruction each
whose meaning is IEEE's. Unions (laid out as structs), casts between pointer types,
vtables and bridge calls that take the address of a slot are not in the statement
models; function types and calls through values are not in `FuncDecls`.

Next, in order of what can go wrong in them:

1. `PointersIntoMemory` and `SlicesInside` proved, which takes layouts that are no
   recursive operators.
2. The bridges to core and std that `collect` gathers after the functions.
3. Slots whose address is passed to a call in `TypedMemory`.
