------------------------------ MODULE MCBodies ------------------------------
(***************************************************************************)
(* A type table with one type per shape the drop lowering distinguishes,    *)
(* nested combinations of them, and function bodies that drop them.         *)
(***************************************************************************)
EXTENDS Integers, Sequences

\* 0 i32            1 Leaf(i32) with Drop     2 (Leaf, i32, Leaf)
\* 3 [Leaf; 2]      4 Owner { i32, Leaf } with Drop
\* 5 enum E { A(Leaf), B(Leaf, Leaf), C }     6 (E, i32, Owner)
\* 7 enum F { P(i32), Q(E), R((Leaf, i32, Leaf)) } with Drop
\* 8 enum { X(i32), Y }                       9 [enum E; 2]
\* 10 slice (opaque)  11 (Leaf, slice)       12 an ADT without a body
\* 13 [slice; 0]     14 enum { M(Leaf), N(ADT without a body) }
\* 15 (Leaf, [slice; 0])                     16 [enum { X(i32), Y }; 3]
\* 17 (i32, [enum { X(i32), Y }; 3])         18 enum { X(i32), Y } with Drop
\* 19 Wrapper<i32>(i32) with impl<T> Drop for Wrapper<T>
\* 20 ManuallyDrop<Leaf>
\* 21 (E, Wrapper<i32>, ManuallyDrop<Leaf>)
MCType == 0..21
MCVariants ==
  [t \in MCType |->
    CASE t = 1  -> <<<<0>>>>
      [] t = 2  -> <<<<1, 0, 1>>>>
      [] t = 3  -> <<<<1>>>>
      [] t = 4  -> <<<<0, 1>>>>
      [] t = 5  -> <<<<1>>, <<1, 1>>, << >>>>
      [] t = 6  -> <<<<5, 0, 4>>>>
      [] t = 7  -> <<<<0>>, <<5>>, <<2>>>>
      [] t \in {8, 18} -> <<<<0>>, << >>>>
      [] t = 9  -> <<<<5>>>>
      [] t = 11 -> <<<<1, 10>>>>
      [] t = 13 -> <<<<10>>>>
      [] t = 14 -> <<<<1>>, <<12>>>>
      [] t = 15 -> <<<<1, 13>>>>
      [] t = 16 -> <<<<8>>>>
      [] t = 17 -> <<<<0, 16>>>>
      [] t = 19 -> <<<<0>>>>
      [] t = 20 -> <<<<1>>>>
      [] t = 21 -> <<<<5, 19, 20>>>>
      [] OTHER  -> << >>]
MCKind ==
  [t \in MCType |->
    CASE t = 0 -> "trivial"
      [] t \in {2, 6, 11, 15, 17, 21} -> "tuple"
      [] t \in {3, 9, 13, 16} -> "array"
      [] t = 10 -> "opaque"
      [] t = 12 -> "uninit"
      [] OTHER -> "adt"]
MCArrayLength ==
  [t \in MCType |-> CASE t \in {3, 9} -> 2 [] t = 16 -> 3 [] OTHER -> 0]
MCHasDropImpl == [t \in MCType |-> t \in {1, 4, 7, 18}]
MCImplementsDrop == [t \in MCType |-> t \in {1, 4, 7, 18, 19}]
MCNeverDrops == [t \in MCType |-> t = 20]
\* The types whose Drop impls, discriminants and fields the glue gets right
\* when enums number their variants from 0.
MCPlainType == 0..18
\* No variant names a discriminant, so rustc numbers them from 0.
MCImplicit == [t \in MCType |-> [v \in DOMAIN MCVariants[t] |-> v - 1]]
\* The first variant is declared with the largest discriminant.
MCExplicit ==
  [t \in MCType |-> [v \in DOMAIN MCVariants[t] |->
                       Len(MCVariants[t]) + 1 - v]]

-----------------------------------------------------------------------------
Plain(op, bs)   == [op |-> op, targets |-> bs]
Local(l, t)     == [type |-> t, addr |-> <<<<0, l>>>>]
Drop(l, t, b)   == [op |-> "drop", targets |-> {b}, place |-> Local(l, t),
                    bridge |-> FALSE]
Bridged(l, t, b) == [Drop(l, t, b) EXCEPT !.bridge = TRUE]
Block(i, term)  == [index |-> i, liftable |-> TRUE, term |-> term]

\* One drop, then return.
OneDrop(t) == <<Block(0, Drop(1, t, 1)), Block(1, Plain("return", {}))>>

\* A branch, two drops that meet, a call and an assertion between them.  The
\* MIR indices are not in order, so that the synthetic counter starts above
\* a block that is lifted last.
Diamond(t, u) ==
  <<Block(0, Plain("switch_int", {1, 7})),
    Block(7, Drop(1, t, 2)),
    Block(1, Plain("call", {3})),
    Block(3, Drop(2, u, 2)),
    Block(2, Plain("assert", {4})),
    Block(4, Bridged(3, 10, 5)),
    Block(5, Plain("return", {})),
    Block(8, Plain("unreachable", {}))>>

\* A drop in a loop, a new value in every iteration.
Loop(t) ==
  <<Block(0, Plain("goto", {1})),
    Block(1, Plain("switch_int", {2, 3})),
    Block(2, Drop(1, t, 1)),
    Block(3, Plain("return", {}))>>

\* A function that diverges, one with a statement that cannot be lifted, one
\* with a terminator that cannot.
Diverging == <<Block(0, Drop(1, 2, 1)), Block(1, Plain("call", {}))>>
BadStatement ==
  <<[Block(0, Drop(1, 2, 1)) EXCEPT !.liftable = FALSE],
    Block(1, Plain("return", {}))>>
BadTerminator == <<Block(0, Plain("goto", {1})), Block(1, Plain("unliftable", {}))>>

MCFuncs ==
  {OneDrop(t) : t \in MCPlainType}
    \cup {Diamond(2, 5), Diamond(7, 3), Diamond(9, 14), Diamond(6, 7)}
    \cup {Loop(5), Loop(2), Diverging, BadStatement, BadTerminator}
\* Every pair of types dropped in one function.
MCPairs == {Diamond(t, u) : t, u \in MCPlainType} \cup MCFuncs
\* A tuple of an enum, a value with a generic Drop impl and a ManuallyDrop.
MCOwedFuncs == {OneDrop(21)}

=============================================================================
