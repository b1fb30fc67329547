----------------------------- MODULE TypedExec ------------------------------
(***************************************************************************)
(* Lifting composed with the execution of what it produced: once the pass   *)
(* is done the typed blocks are run one operation at a time, as the later   *)
(* passes lower them (a goto, switch or return leaves the block, a drop     *)
(* call destroys the object at its address, rust.typed.discriminant reads   *)
(* the stored tag).  Values of enums are chosen when control enters the MIR *)
(* block that drops them, every operand the model does not follow is a      *)
(* nondeterministic choice.                                                 *)
(***************************************************************************)
EXTENDS LiftTypedMIR

VARIABLES
  status,  \* as in RustDrop
  at,      \* the MIR block entered last
  held,    \* the variant every enum of the place dropped in at holds
  log,     \* the addresses destroyed since at was entered
  pc,      \* the index of the typed block being run
  ip       \* the operation to run next in it

execVars == <<status, at, held, log, pc, ip>>
vars == <<liftVars, execVars>>

Rust == INSTANCE RustDrop

-----------------------------------------------------------------------------
InitExec ==
  /\ status = "new"
  /\ at = func[1].index
  /\ held = [a \in {} |-> 0]
  /\ log = << >>
  /\ pc = func[1].index
  /\ ip = 1

(* The tag stored in the enum at p: make_aggregate and set_discriminant     *)
(* store the declared discriminant of the variant.                          *)
Tag(p) == Discriminant[p.type][held[p.addr]]

Ops(b) == typed[CHOOSE k \in DOMAIN typed : typed[k].index = b].ops
Op == Ops(pc)[ip]

Exec(op) ==
  /\ status = "running"
  /\ ip \in DOMAIN Ops(pc)
  /\ Op.op = op
  /\ UNCHANGED liftVars

Continue ==
  /\ ip' = ip + 1
  /\ UNCHANGED <<pc, at>>

Jump(b) ==
  /\ pc' = b
  /\ ip' = 1
  /\ IF b \in MirIndices(func)
       THEN /\ at' = b
            /\ held' \in Rust!ValuesAt(func, b)
            /\ log' = << >>
       ELSE UNCHANGED <<at, held, log>>

(* The compiled function is called.                                         *)
Start ==
  /\ phase = "done"
  /\ status = "new"
  /\ status' = "running"
  /\ Jump(typed[1].index)
  /\ UNCHANGED liftVars

(* The call of a Drop impl or of the drop_in_place bridge.                  *)
ExecDrop ==
  /\ Exec("drop_impl") \/ Exec("drop_bridge")
  /\ log' = Append(log, Op.place.addr)
  /\ Continue
  /\ UNCHANGED <<status, held>>

(* A call or an assertion that goes on, or does not.                        *)
ExecCall ==
  /\ Exec("call") \/ Exec("assert")
  /\ \/ Continue /\ UNCHANGED status
     \/ status' = "trapped" /\ UNCHANGED <<pc, ip, at>>
  /\ UNCHANGED <<held, log>>

ExecGoto ==
  /\ Exec("goto") \/ Exec("switch_int")
  /\ \E b \in Op.targets : Jump(b)
  /\ UNCHANGED status

(* switch_int on the discriminant of the aggregate at the place.            *)
ExecSwitchTag ==
  /\ Exec("switch_tag")
  /\ \/ \E i \in DOMAIN Op.arms :
          /\ Op.arms[i].case = Tag(Op.place)
          /\ Jump(Op.arms[i].index)
     \/ /\ \A i \in DOMAIN Op.arms : Op.arms[i].case # Tag(Op.place)
        /\ Jump(Op.default)
  /\ UNCHANGED status

ExecReturn ==
  /\ Exec("return")
  /\ status' = "returned"
  /\ UNCHANGED <<at, held, log, pc, ip>>

ExecUnreachable ==
  /\ Exec("unreachable")
  /\ status' = "trapped"
  /\ UNCHANGED <<at, held, log, pc, ip>>

ExecNext ==
  \/ Start \/ ExecDrop \/ ExecCall \/ ExecGoto \/ ExecSwitchTag
  \/ ExecReturn \/ ExecUnreachable

(* A failed pass fails the compilation: the function is never called.       *)
LiftNext ==
  /\ Next
  /\ status' = IF phase' = "failed" THEN "rejected" ELSE status
  /\ UNCHANGED <<at, held, log, pc, ip>>

ExecSpec ==
  /\ Init /\ InitExec
  /\ [][LiftNext \/ ExecNext]_vars
  /\ WF_vars(LiftNext) /\ WF_vars(ExecNext)

-----------------------------------------------------------------------------
(* A program behaves as its MIR says: a drop terminator destroys what its   *)
(* place owns, each object once and in Rust's order, before control moves   *)
(* on, always gets there, and the pass rejects a function exactly when it   *)
(* needs glue the lowering does not have (lowerDrop, emitDropGlueTo).       *)
ImplementsRustDrop == Rust!Spec

(* What the glue of the type t goes by is what Rust goes by: the module has *)
(* the Drop impl the source has, nothing inside a union or a ManuallyDrop   *)
(* is thought to need dropping, and the tags of an enum are its variant     *)
(* indices.                                                                 *)
GlueKnows(t) ==
  /\ ImplementsDrop[t] => HasDropImpl[t]
  /\ NeverDrops[t] => ~MayNeedDropGlue[t]
  /\ Len(Variants[t]) > 1 =>
       \A v \in DOMAIN Variants[t] : Discriminant[t][v] = v - 1

(* The glue knows the type of everything inside the place p.                *)
Known(p) == \A q \in Rust!PlacesIn(p) : GlueKnows(q.type)

(* Block i of f drops its place by glue, not by a bridge to core.           *)
ExpandsDrop(f, i) == f[i].term.op = "drop" /\ ~f[i].term.bridge

(* The glue knows every place a function drops by it.  The theorems about   *)
(* drops have this hypothesis, which leaves out the three kinds of types on *)
(* which DropsWhatIsOwed can fail.                                          *)
DropsKnown ==
  \A f \in Funcs : \A i \in DOMAIN f :
    ExpandsDrop(f, i) => Known(f[i].term.place)

(* What test/Runner/drop-structural-rs.mlir:4-9 and                         *)
(* drop-enum-structural-rs.mlir:4-7 check of the types they declare, for    *)
(* every type: before the function goes on to the next MIR block, exactly   *)
(* the destructors the dropped value owes have run, in Rust's order.        *)
(* Fails for enums with explicit discriminants (the switch of the drop glue *)
(* names its cases by variant index, the tag it reads is the declared       *)
(* discriminant), for Drop impls the module does not define (of generic     *)
(* types: MirProgram::collect skips their bodies and no call names the      *)
(* instance; lowerDrop does not notice), and for ManuallyDrop, whose field  *)
(* the structural glue drops like any other.                                *)
DropsWhatIsOwed ==
  [][at' # at /\ status = "running" =>
       log = Rust!OwedBy(BlockAt(func, at).term, held)]_vars

=============================================================================
