------------------------------ MODULE RustDrop ------------------------------
(***************************************************************************)
(* What a MIR function promises about drops, with no trace of how they are  *)
(* lowered.  A drop terminator runs the destructors its place owes, each    *)
(* once and in Rust's order: the Drop impl of the owner, then its           *)
(* components in declaration order, of an enum the components of the        *)
(* variant it holds, of a union or a ManuallyDrop nothing.  Only then does   *)
(* control reach the target.  A function                                    *)
(* is rejected at compile time when it needs what the lowering does not     *)
(* support, and never otherwise.                                            *)
(***************************************************************************)
EXTENDS MirBody, SequencesExt

VARIABLES
  func,    \* the function, one of Funcs
  status,  \* "new", "rejected", "running", "returned" or "trapped"
  at,      \* the MIR block control is in
  held,    \* the variant held by every enum the dropped place contains
  log      \* the addresses destroyed since control entered block at

vars == <<func, status, at, held, log>>

-----------------------------------------------------------------------------
(* Every place inside p, in any variant.                                    *)
PlacesIn(p) ==
  LET inside[q \in Place] ==
        {q} \cup UNION {UNION {inside[r] : r \in Range(FieldPlaces(q, v))} :
                          v \in DOMAIN Variants[q.type]}
  IN  inside[p]

(* The enums inside p, the places whose value has a variant to hold.        *)
EnumPlaces(p) == {q \in PlacesIn(p) : Len(Variants[q.type]) > 1}

(* The values a place can have, as far as drops can tell them apart.        *)
Values(p) ==
  LET enums == EnumPlaces(p)
      most  == UNION {DOMAIN Variants[q.type] : q \in enums}
  IN  {h \in [{q.addr : q \in enums} -> most] :
         \A q \in enums : h[q.addr] \in DOMAIN Variants[q.type]}

(* The destructors that dropping p runs when p has value h.                 *)
Owed(p, h) ==
  LET owed[q \in Place] ==
        LET v    == IF Len(Variants[q.type]) > 1 THEN h[q.addr] ELSE 1
            own  == IF ImplementsDrop[q.type] THEN <<q.addr>> ELSE << >>
            rest == IF v \in DOMAIN Variants[q.type] THEN FieldPlaces(q, v)
                                                     ELSE << >>
        IN  IF NeverDrops[q.type] THEN << >>
            ELSE own \o FlattenSeq([i \in DOMAIN rest |-> owed[rest[i]]])
  IN  owed[p]

(* A drop through a bridge is one call of core::ptr::drop_in_place.         *)
OwedBy(term, h) ==
  CASE term.op # "drop" -> << >>
    [] term.op = "drop" /\ term.bridge -> <<term.place.addr>>
    [] term.op = "drop" /\ ~term.bridge -> Owed(term.place, h)

ValuesAt(f, b) ==
  LET term == BlockAt(f, b).term
  IN  IF term.op = "drop" /\ ~term.bridge THEN Values(term.place)
                                          ELSE {[a \in {} |-> 0]}

(* The lowering supports a drop when it knows the components of every place *)
(* that needs dropping.                                                     *)
Droppable(p) ==
  \A q \in PlacesIn(p) :
    /\ Kind[q.type] \notin {"opaque", "uninit"}
    /\ ImplementsDrop[q.type] => Variants[q.type] # << >>

Supported(f) ==
  \A i \in DOMAIN f :
    /\ f[i].liftable
    /\ f[i].term.op # "unliftable"
    /\ f[i].term.op = "drop" /\ ~f[i].term.bridge => Droppable(f[i].term.place)

-----------------------------------------------------------------------------
Term == BlockAt(func, at).term

EnterBlock(b) ==
  /\ at' = b
  /\ held' \in ValuesAt(func, b)
  /\ log' = << >>

Init ==
  /\ func \in Funcs
  /\ status = "new"
  /\ at = func[1].index
  /\ held = [a \in {} |-> 0]
  /\ log = << >>

Reject ==
  /\ status = "new"
  /\ ~Supported(func)
  /\ status' = "rejected"
  /\ UNCHANGED <<func, at, held, log>>

Call ==
  /\ status = "new"
  /\ Supported(func)
  /\ status' = "running"
  /\ EnterBlock(func[1].index)
  /\ UNCHANGED func

DropNext ==
  /\ status = "running"
  /\ Len(log) < Len(OwedBy(Term, held))
  /\ log' = Append(log, OwedBy(Term, held)[Len(log) + 1])
  /\ UNCHANGED <<func, status, at, held>>

Leave ==
  /\ status = "running"
  /\ log = OwedBy(Term, held)
  /\ \E b \in Term.targets : EnterBlock(b)
  /\ UNCHANGED <<func, status>>

Return ==
  /\ status = "running"
  /\ Term.op = "return"
  /\ status' = "returned"
  /\ UNCHANGED <<func, at, held, log>>

(* A failed assertion, a call that does not return, unreachable code.       *)
Trap ==
  /\ status = "running"
  /\ Term.op \in {"assert", "call", "unreachable"}
  /\ status' = "trapped"
  /\ UNCHANGED <<func, at, held, log>>

Next == Reject \/ Call \/ DropNext \/ Leave \/ Return \/ Trap

Spec == Init /\ [][Next]_vars /\ WF_vars(Next)

=============================================================================
