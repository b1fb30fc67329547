------------------------------ MODULE MirTypes ------------------------------
(***************************************************************************)
(* The Rust types the lowering pipeline distinguishes, as a table.          *)
(*                                                                          *)
(* A type is a natural number and the parts of a type have smaller numbers: *)
(* a Rust type contains itself only behind a reference or a raw pointer,    *)
(* and those are leaves here.  Kind separates what the drop lowering of     *)
(* LiftTypedMIR.cpp separates:                                              *)
(*   "trivial"  unit, never, bool, char, int, float, reference, raw pointer *)
(*   "tuple"    TypedTupleType                                              *)
(*   "array"    TypedArrayType                                              *)
(*   "adt"      an AdtType whose variants are known                         *)
(*   "uninit"   an AdtType that only has a name (isInitialized is false)    *)
(*   "opaque"   everything else (slice, str, function type, ...)            *)
(***************************************************************************)
EXTENDS Integers, Sequences, FiniteSets

CONSTANTS
  Type,        \* the types of the program, a set of naturals
  Kind,        \* Kind[t]: the kind of t
  Variants,    \* Variants[t][v]: the field types of variant v (a unit
               \* variant has none); a tuple is one variant, an array is one
               \* variant whose only field is the element type
  ArrayLength, \* ArrayLength[t]: the length of array t
  Discriminant,\* Discriminant[t][v]: the discriminant variant v was declared
               \* with, the tag make_aggregate and set_discriminant store
  HasDropImpl, \* HasDropImpl[t]: the module defines <t as Drop>::drop
  ImplementsDrop, \* ImplementsDrop[t]: the source says impl Drop for t
  NeverDrops   \* NeverDrops[t]: t is a union or core::mem::ManuallyDrop,
               \* whose contents Rust never drops on its own

Kinds == {"trivial", "tuple", "array", "adt", "uninit", "opaque"}

ASSUME TypeTable ==
  /\ Type \subseteq Nat
  /\ Kind \in [Type -> Kinds]
  /\ DOMAIN Variants = Type
  /\ \A t \in Type :
       /\ Variants[t] \in Seq(Seq(Type))
       /\ \A v \in DOMAIN Variants[t] : \A i \in DOMAIN Variants[t][v] :
            Variants[t][v][i] < t
  /\ ArrayLength \in [Type -> Nat]
  /\ HasDropImpl \in [Type -> BOOLEAN]
  /\ ImplementsDrop \in [Type -> BOOLEAN]
  /\ NeverDrops \in [Type -> BOOLEAN]

(* A tuple and an array have one shape; only an ADT can implement Drop, and *)
(* the module defines no impl the source does not have; two variants of an  *)
(* enum never share a discriminant (rustc rejects it).                      *)
ASSUME RustcTypes ==
  \A t \in Type :
    /\ Kind[t] \in {"tuple", "array"} => Len(Variants[t]) = 1
    /\ Kind[t] = "array" => Len(Variants[t][1]) = 1
    /\ Kind[t] \in {"trivial", "uninit", "opaque"} => Variants[t] = << >>
    /\ HasDropImpl[t] => Kind[t] \in {"adt", "uninit"} /\ ImplementsDrop[t]
    /\ DOMAIN Discriminant[t] = DOMAIN Variants[t]
    /\ \A v, w \in DOMAIN Variants[t] :
         v # w => Discriminant[t][v] # Discriminant[t][w]

Parts(t) == UNION {{Variants[t][v][i] : i \in DOMAIN Variants[t][v]} :
                     v \in DOMAIN Variants[t]}

-----------------------------------------------------------------------------
(* Places.  An address is the path a DropAddress materializes: the local,   *)
(* then one step <<variant, field>> per field_addr or index_addr.  The      *)
(* variant is 0 where the lowering passes no variant index.                 *)

Step    == Nat \X Nat
Address == Seq(Step)
Place   == [type : Type, addr : Address]

(* The components of variant v of place p, addressed as                     *)
(* appendTupleFieldDropAddresses and makeArrayElementDropAddress do.        *)
FieldPlaces(p, v) ==
  LET shape == Variants[p.type][v]
      tag   == IF Len(Variants[p.type]) = 1 THEN 0 ELSE v
      part  == [i \in 1..(IF Kind[p.type] = "array" THEN ArrayLength[p.type]
                                                    ELSE Len(shape)) |->
                  IF Kind[p.type] = "array" THEN shape[1] ELSE shape[i]]
  IN  [i \in DOMAIN part |->
         [type |-> part[i], addr |-> Append(p.addr, <<tag, i>>)]]

-----------------------------------------------------------------------------
(* isTriviallyDroppableType: scalars, and tuples and arrays of such.        *)
TriviallyDroppable[t \in Type] ==
  \/ Kind[t] = "trivial"
  \/ Kind[t] \in {"tuple", "array"} /\ \A u \in Parts(t) : TriviallyDroppable[u]

(* mayNeedDropGlue.                                                         *)
MayNeedDropGlue[t \in Type] ==
  /\ ~TriviallyDroppable[t]
  /\ \/ Kind[t] \in {"opaque", "uninit"}
     \/ HasDropImpl[t]
     \/ \E u \in Parts(t) : MayNeedDropGlue[u]

VariantNeedsDrop(t, v) ==
  \E i \in DOMAIN Variants[t][v] : MayNeedDropGlue[Variants[t][v][i]]

=============================================================================
