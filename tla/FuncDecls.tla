----------------------------- MODULE FuncDecls -----------------------------
(* Function types through the pipeline: RustTypedToFunc gives every function   *)
(* its arguments and no results, for its returns are still inside blocks; the  *)
(* conversion to cf then goes through the module in order, gives each function *)
(* its results as it converts its blocks, and declares or checks the callees   *)
(* of its calls, some of which it has not come to yet.                         *)
EXTENDS Integers, Sequences, SequencesExt

CONSTANTS
    Programs,        \* modules of lifted functions
    Represented      \* RustScalarTypeConverter: signs are lost, i32 is u32

(* The locals of a function that rustc made for its arguments. *)
Arguments(fn) ==
    {fn.locals[k] : k \in {j \in DOMAIN fn.locals : fn.locals[j].role = "arg"}}

IsSequence(s) == Len(s) \in Nat /\ DOMAIN s = 1..Len(s)

(* What rustc guarantees: symbols are unique, so are the locals of a function, *)
(* and local _i is its i-th argument.                                          *)
RustcProgram(p) ==
    /\ IsSequence(p.funcs) /\ Len(p.funcs) > 0
    /\ \A i, j \in DOMAIN p.funcs : p.funcs[i].name = p.funcs[j].name => i = j
    /\ \A i \in DOMAIN p.funcs :
         LET fn == p.funcs[i]
         IN  /\ fn.name \notin p.others
             /\ IsSequence(fn.uses) /\ IsSequence(fn.locals)
             /\ \A j, k \in DOMAIN fn.locals :
                  fn.locals[j].index = fn.locals[k].index => j = k
             /\ {l.index : l \in Arguments(fn)} = 1..Cardinality(Arguments(fn))

ASSUME RustcPrograms == \A p \in Programs : RustcProgram(p)

VARIABLES
    program,
    stage,           \* "typed", "func", "cf", then "linked" or "refused"
    table,           \* the func.func symbols: [ins, outs, stores]
    f, u             \* the function under conversion, its uses converted so far

vars == <<program, stage, table, f, u>>

Symbols == DOMAIN table
Declare(name, entry) == [n \in Symbols \cup {name} |-> IF n = name THEN entry ELSE table[n]]

Init ==
    /\ program \in Programs
    /\ stage = "typed" /\ table = [n \in {} |-> {}] /\ f = 1 /\ u = 0

(***************************************************************************)
(* convert-rust-typed-to-func *)

\* Mutant: the arguments in the order of the body.
ArgumentSlotsUnsorted(fn) == SelectSeq(fn.locals, LAMBDA l : l.role = "arg")

(* collectArgumentSlots: in the order of their indices, not of the body. *)
ArgumentSlots(fn) ==
    [k \in 1..Cardinality(Arguments(fn)) |->
        CHOOSE l \in Arguments(fn) :
            Cardinality({m \in Arguments(fn) : m.index < l.index}) = k - 1]

(* blockArgsByLocalIndex and the stores at the entry: which operand of a call  *)
(* an argument's slot gets.                                                    *)
EntryStores(slots) ==
    [i \in {slots[k].index : k \in DOMAIN slots} |->
        CHOOSE k \in DOMAIN slots : slots[k].index = i]

ConvertFunc ==
    /\ stage = "typed"
    /\ LET fn == program.funcs[f]
           slots == ArgumentSlots(fn)
       IN  table' = Declare(fn.name, [ins |-> [i \in DOMAIN slots |-> Represented[slots[i].type]],
                                      outs |-> <<>>, stores |-> EntryStores(slots)])
    /\ IF f = Len(program.funcs) THEN stage' = "func" /\ f' = 1
       ELSE f' = f + 1 /\ UNCHANGED stage
    /\ UNCHANGED <<program, u>>

(***************************************************************************)
(* convert-rust-typed-to-cf *)

(* lowerReturn, and lowerCall for a destination: () and ! are no results. *)
ResultTypes(t) == IF t \in {"unit", "never"} THEN <<>> ELSE <<Represented[t]>>

(* inferNestedReturnTypes reads the operand types off the returns of every     *)
(* typed block, before the unreachable ones are left out; fn.returns says that  *)
(* there is one.  All are of the function's type.                              *)
ConvertBlocks ==
    /\ stage = "func"
    /\ LET fn == program.funcs[f]
       IN  table' = [table EXCEPT ![fn.name].outs =
                        IF fn.returns THEN ResultTypes(fn.ret) ELSE <<>>]
    /\ stage' = "cf"
    /\ UNCHANGED <<program, f, u>>

Use == program.funcs[f].uses[u + 1]
Wanted(use) ==
    [ins  |-> [i \in DOMAIN use.ins |-> Represented[use.ins[i]]],
     outs |-> ResultTypes(use.dest)]
MoreUses == stage = "cf" /\ u < Len(program.funcs[f].uses)

\* Mutant: a callee the pass has not come to yet must have its results.
PendingResultsNever(entry, wanted) == FALSE

(* A callee that has no results yet may still get those that are expected. *)
PendingResults(entry, wanted) ==
    entry.ins = wanted.ins /\ entry.outs = <<>> /\ wanted.outs # <<>>

Matches(entry, wanted) == entry.ins = wanted.ins /\ entry.outs = wanted.outs

\* Mutant: a symbol that is no function is not told from one not declared.
CalleeAcceptedUnlessFunction(name, wanted) ==
    name \in Symbols => Matches(table[name], wanted) \/ PendingResults(table[name], wanted)

CalleeAccepted(name, wanted) ==
    /\ name \notin program.others
    /\ name \in Symbols =>
         Matches(table[name], wanted) \/ PendingResults(table[name], wanted)

(* ensureFuncDeclaration: the first call declares a callee nothing defines. *)
ConvertCall ==
    /\ MoreUses /\ Use.kind = "call"
    /\ LET wanted == Wanted(Use)
       IN  IF CalleeAccepted(Use.callee, wanted)
           THEN /\ table' = IF Use.callee \in Symbols THEN table
                            ELSE Declare(Use.callee, [ins |-> wanted.ins, outs |-> wanted.outs,
                                                      stores |-> <<>>])
                /\ u' = u + 1 /\ UNCHANGED stage
           ELSE stage' = "refused" /\ UNCHANGED <<table, u>>
    /\ UNCHANGED <<program, f>>

(* fn_addr becomes a func.constant; nothing is declared for it. *)
ConvertAddress ==
    /\ MoreUses /\ Use.kind = "addr"
    /\ u' = u + 1
    /\ UNCHANGED <<program, stage, table, f>>

NextFunction ==
    /\ stage = "cf" /\ ~MoreUses /\ f < Len(program.funcs)
    /\ stage' = "func" /\ f' = f + 1 /\ u' = 0
    /\ UNCHANGED <<program, table>>

(* The verifiers of func.call and func.constant, once the pass is over. *)
Verified(use) ==
    use.callee \in Symbols /\ Matches(table[use.callee], Wanted(use))
Verify ==
    /\ stage = "cf" /\ ~MoreUses /\ f = Len(program.funcs)
    /\ stage' = IF \A i \in DOMAIN program.funcs :
                      \A j \in DOMAIN program.funcs[i].uses : Verified(program.funcs[i].uses[j])
                THEN "linked" ELSE "refused"
    /\ UNCHANGED <<program, table, f, u>>

Next ==
    ConvertFunc \/ ConvertBlocks \/ ConvertCall \/ ConvertAddress \/ NextFunction \/ Verify

Spec == Init /\ [][Next]_vars /\ WF_vars(Next)

(***************************************************************************)
(* Properties *)

Verdict == IF stage \in {"linked", "refused"} THEN stage ELSE "pending"
C == INSTANCE RustCalls
        WITH Represented <- Represented, program <- program, verdict <- Verdict

(* A module comes out exactly when every use agrees with the function it names,*)
(* in whatever order functions call each other: accepting a callee whose       *)
(* results are pending lets nothing through, and declaring a callee at its     *)
(* first call refuses nothing that fits; and a verdict is always reached.      *)
DecidesAgreement == C!Spec

(* The i-th operand of a call lands in the slot of local _i, and has its type, *)
(* in whatever order the slots stand in the body.                              *)
ArgumentsLand ==
    \A i \in DOMAIN program.funcs :
        LET fn == program.funcs[i]
        IN  fn.name \in Symbols =>
            \A l \in C!Args(fn) :
                /\ l.index \in DOMAIN table[fn.name].stores
                /\ table[fn.name].stores[l.index] = l.index
                /\ table[fn.name].ins[l.index] = Represented[l.type]

(* Only functions of the program have entry stores, of arguments they have;    *)
(* what converting a block gives a function is never taken away again.         *)
TypeOK ==
    /\ stage \in {"typed", "func", "cf", "linked", "refused"}
    /\ f \in DOMAIN program.funcs /\ u \in 0..Len(program.funcs[f].uses)
    /\ Symbols \cap program.others = {}
    /\ stage \in {"cf", "linked"} =>
         \A i \in 1..f : LET fn == program.funcs[i]
                         IN  fn.returns => table[fn.name].outs = ResultTypes(fn.ret)

(***************************************************************************)
(* The inductive invariant behind the three. *)

Names == {program.funcs[i].name : i \in DOMAIN program.funcs}

(* Function i has got its results; use j of it has been converted. *)
ResultsGiven(i) == stage # "typed" /\ (i < f \/ (i = f /\ stage # "func"))
Converted(i, j) == stage # "typed" /\ (i < f \/ (i = f /\ j <= u))

(* Every function comes to have its signature, the results last. *)
FunctionsDeclared ==
    \A i \in DOMAIN program.funcs :
        LET fn == program.funcs[i]
        IN  IF stage = "typed" /\ i >= f THEN fn.name \notin Symbols
            ELSE /\ fn.name \in Symbols
                 /\ table[fn.name] =
                      [ins    |-> C!Signature(fn).ins,
                       outs   |-> IF ResultsGiven(i) THEN C!Signature(fn).outs ELSE <<>>,
                       stores |-> [k \in 1..Cardinality(Arguments(fn)) |-> k]]

(* Every other symbol of the table is there as some call wanted it. *)
OthersDeclared ==
    \A n \in Symbols \ Names :
        \E i \in DOMAIN program.funcs : \E j \in DOMAIN program.funcs[i].uses :
            LET use == program.funcs[i].uses[j]
            IN  use.kind = "call" /\ use.callee = n /\ Matches(table[n], Wanted(use))

CalleesDeclared ==
    \A i \in DOMAIN program.funcs : \A j \in DOMAIN program.funcs[i].uses :
        Converted(i, j) /\ program.funcs[i].uses[j].kind = "call"
            => program.funcs[i].uses[j].callee \in Symbols

(* How far the passes are, and what ensureFuncDeclaration has made of the      *)
(* symbol table by then.                                                       *)
DeclInv ==
    /\ RustcProgram(program)
    /\ stage \in {"typed", "func", "cf", "linked", "refused"}
    /\ f \in DOMAIN program.funcs /\ u \in 0..Len(program.funcs[f].uses)
    /\ stage \in {"typed", "func"} => u = 0
    /\ Symbols \cap program.others = {}
    /\ FunctionsDeclared /\ OthersDeclared /\ CalleesDeclared
=============================================================================
