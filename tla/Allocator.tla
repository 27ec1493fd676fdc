------------------------------ MODULE Allocator ------------------------------
(***************************************************************************)
(* What users of the hypervisor's heap rely on (the contract of            *)
(* core::alloc::GlobalAlloc): a block that alloc hands out lies inside the *)
(* heap, has the alignment of its layout, and overlaps no block somebody   *)
(* else still holds, until its owner gives it back.                        *)
(***************************************************************************)
EXTENDS Integers

CONSTANTS
  Heap,   \* the addresses blocks may occupy
  Sizes,  \* sizes that layouts ask for
  Aligns  \* alignments that layouts ask for

VARIABLE live \* the blocks handed out

Apart(a, b) == a.ptr + a.size <= b.ptr \/ b.ptr + b.size <= a.ptr

\* b may join the blocks in `others`.
Placeable(b, others) ==
  /\ b.ptr \in Heap
  /\ b.ptr + b.size - 1 \in Heap
  /\ b.ptr % b.align = 0
  /\ \A a \in others : Apart(a, b)

Blocks == [ptr : Heap, size : Sizes, align : Aligns]

Init == live = {}

Alloc ==
  \E b \in Blocks :
    /\ Placeable(b, live)
    /\ live' = live \cup {b}

Dealloc == \E b \in live : live' = live \ {b}

\* The block keeps its alignment; it may move.
Realloc ==
  \E b \in live, new \in Blocks :
    /\ new.align = b.align
    /\ Placeable(new, live \ {b})
    /\ live' = (live \ {b}) \cup {new}

Next == Alloc \/ Dealloc \/ Realloc

Spec == Init /\ [][Next]_live
=============================================================================
