----------------------------- MODULE MCListHeap -----------------------------
(***************************************************************************)
(* A heap of a few 8-byte units.  A link is two units long and two-unit    *)
(* aligned, as Link is 16 bytes long and 16-byte aligned; the heap starts  *)
(* at an address that is not a multiple of the largest alignment.          *)
(***************************************************************************)
EXTENDS ListHeap, TLC

MCSizes == {1, 2, 3}
MCAligns == {1, 4}
Symmetry == Permutations(Cpus)
=============================================================================
