------------------------------ MODULE ListHeap ------------------------------
(***************************************************************************)
(* The global allocator of the hypervisor (allocator.rs): a list of links  *)
(* threaded through the heap itself, in address order, each link followed  *)
(* by the block it heads and by free space up to the next link.            *)
(*                                                                         *)
(* All logical processors share the heap behind the spin lock              *)
(* ALLOCATOR_MUTEX.  A call is one action, and what it does under the lock *)
(* another; in between it spins.                                           *)
(***************************************************************************)
EXTENDS Integers

CONSTANTS
  Cpus,
  Base,       \* address of HEAP
  HEAP_SIZE,  \* ListHeap's SIZE
  LINK_SIZE,  \* Link::SIZE
  LINK_ALIGN, \* Link::ALIGN
  Sizes,      \* layout sizes, and new sizes of realloc
  Aligns,     \* layout alignments
  None

VARIABLES
  next,  \* next[l], for every link l on the list
  size,  \* size[l]: bytes of the block that l heads
  mutex, \* holder of ALLOCATOR_MUTEX between two actions
  op,    \* per CPU: the call in progress
  live   \* the blocks callers hold

vars == <<next, size, mutex, op, live>>

Heap == Base .. Base + HEAP_SIZE - 1

ASSUME HeapAssumption ==
  /\ Base \in Nat
  /\ HEAP_SIZE \in Nat
  /\ LINK_SIZE \in Nat \ {0}
  /\ LINK_ALIGN \in Nat \ {0}
  /\ 2 * LINK_SIZE <= HEAP_SIZE
ASSUME LayoutAssumption ==
  /\ Sizes \subseteq Nat \ {0}
  /\ Aligns \subseteq Nat \ {0}
  \* alignments are powers of two
  /\ \A a \in Aligns, p \in Heap : a <= LINK_ALIGN /\ p % LINK_ALIGN = 0 => p % a = 0
ASSUME NoneAssumption == None \notin Cpus \cup [ptr : Heap, size : Sizes, align : Aligns]

first_link == Base
last_link == Base + HEAP_SIZE - LINK_SIZE

Links == DOMAIN next

Blocks == [ptr : Heap, size : Sizes, align : Aligns]

Idle == [pc |-> "idle", blk |-> None, size |-> 0, align |-> 1]

Ops ==
  [pc : {"idle", "dealloc"}, blk : Blocks \cup {None}, size : {0}, align : {1}] \cup
  [pc : {"alloc", "realloc"}, blk : Blocks \cup {None}, size : Sizes, align : Aligns]

\* Types of the list and of the calls in progress.
TypeOK ==
  /\ Links \subseteq Heap
  /\ next \in [Links -> Links]
  /\ size \in [Links -> Nat]
  /\ mutex \in Cpus \cup {None}
  /\ op \in [Cpus -> Ops]
  /\ live \subseteq Blocks

-----------------------------------------------------------------------------
(* Link                                                                    *)

position(l) == l + LINK_SIZE

is_last(l) == next[l] = l

max_size(l) == next[l] - position(l)

free_space(l) == max_size(l) - size[l]

free_space_start(l) == position(l) + size[l]

\* `(x + mask) & !mask`, the first multiple of align from x on.
AlignedUp(p, x, align) == p % align = 0 /\ x <= p /\ p < x + align

-----------------------------------------------------------------------------
(* alloc                                                                   *)

\* Mutant: the alignment of the layout is ignored.
link_align(align) == LINK_ALIGN

\* Blocks are aligned at least as links are.
required_align(align) == IF align > LINK_ALIGN THEN align ELSE LINK_ALIGN

\* Mutant: the room for the new link is not taken off the free space.
FitsWithoutLink(l, sz, align, p) ==
  LET effective_start == free_space_start(l) + LINK_SIZE
  IN  /\ ~is_last(l)
      /\ free_space(l) > sz
      /\ AlignedUp(p, effective_start, required_align(align))
      /\ sz < free_space(l) - (p - effective_start)

\* Mutant: the new link is counted twice.
FitsWithTwoLinks(l, sz, align, p) ==
  LET effective_start == free_space_start(l) + LINK_SIZE
      effective_size == free_space(l) - 2 * LINK_SIZE
  IN  /\ ~is_last(l)
      /\ free_space(l) > sz
      /\ AlignedUp(p, effective_start, required_align(align))
      /\ sz < effective_size - (p - effective_start)

\* The free space behind l has room for a link, then sz bytes at p.
Fits(l, sz, align, p) ==
  LET effective_start == free_space_start(l) + LINK_SIZE
      effective_size == free_space(l) - LINK_SIZE
  IN  /\ ~is_last(l)
      /\ free_space(l) > sz
      /\ AlignedUp(p, effective_start, required_align(align))
      /\ sz < effective_size - (p - effective_start)

\* The walk stops at the first link that fits; the list is in address order
\* (ListOrdered).
FirstFit(l, sz, align, p) ==
  /\ Fits(l, sz, align, p)
  /\ \A m \in Links, q \in Heap : m < l => ~Fits(m, sz, align, q)

\* A new link at p - LINK_SIZE, behind l.
InsertLink(l, sz, p) ==
  LET new == p - LINK_SIZE IN
  /\ next' = [k \in Links \cup {new} |->
                IF k = new THEN next[l] ELSE IF k = l THEN new ELSE next[k]]
  /\ size' = [k \in Links \cup {new} |-> IF k = new THEN sz ELSE size[k]]

Return(c) == op' = [op EXCEPT ![c] = Idle]

CallAlloc(c) ==
  /\ op[c].pc = "idle"
  /\ \E sz \in Sizes, align \in Aligns :
       op' = [op EXCEPT ![c] = [pc |-> "alloc", blk |-> None, size |-> sz, align |-> align]]
  /\ UNCHANGED <<next, size, mutex, live>>

\* alloc, from the lock on: a block, or null when the walk reaches the end.
Alloc(c) ==
  /\ op[c].pc = "alloc"
  /\ mutex = None
  /\ Return(c)
  /\ \/ \E l \in Links, p \in Heap :
          /\ FirstFit(l, op[c].size, op[c].align, p)
          /\ InsertLink(l, op[c].size, p)
          /\ live' = live \cup {[ptr |-> p, size |-> op[c].size, align |-> op[c].align]}
     \/ /\ \A l \in Links, p \in Heap : ~Fits(l, op[c].size, op[c].align, p)
        /\ UNCHANGED <<next, size, live>>
  /\ UNCHANGED mutex

-----------------------------------------------------------------------------
(* dealloc and realloc; a block is passed by its one owner                 *)

Owned == {op[d].blk : d \in Cpus}

CallDealloc(c) ==
  /\ op[c].pc = "idle"
  /\ \E b \in live \ Owned : op' = [op EXCEPT ![c] = [Idle EXCEPT !.pc = "dealloc", !.blk = b]]
  /\ UNCHANGED <<next, size, mutex, live>>

\* Mutant: the links behind the removed one are lost.
CutAt(l, prev) ==
  /\ next' = [k \in {m \in Links : m < l} \cup {last_link} |-> IF k = prev THEN last_link ELSE next[k]]
  /\ size' = [k \in {m \in Links : m < l} \cup {last_link} |-> size[k]]

\* prev now points past l.
RemoveLink(l, prev) ==
  /\ next' = [k \in Links \ {l} |-> IF k = prev THEN next[l] ELSE next[k]]
  /\ size' = [k \in Links \ {l} |-> size[k]]

\* dealloc, from the lock on.  The search for the previous link has no other
\* end than finding it.
Dealloc(c) ==
  LET l == op[c].blk.ptr - LINK_SIZE IN
  /\ op[c].pc = "dealloc"
  /\ mutex = None
  /\ IF is_last(l) THEN UNCHANGED <<next, size>>
     ELSE \E prev \in Links : next[prev] = l /\ RemoveLink(l, prev)
  /\ live' = live \ {op[c].blk}
  /\ Return(c)
  /\ UNCHANGED mutex

CallRealloc(c) ==
  /\ op[c].pc = "idle"
  /\ \E b \in live \ Owned, sz \in Sizes :
       op' = [op EXCEPT ![c] = [pc |-> "realloc", blk |-> b, size |-> sz, align |-> b.align]]
  /\ UNCHANGED <<next, size, mutex, live>>

\* Mutant: the block may grow over the next link.
grow_limit_past_link(l) == max_size(l) + LINK_SIZE

grow_limit(l) == max_size(l)

\* realloc, from the lock on: in place; or a call of alloc that finds the
\* lock taken.  (What follows that call, copy and dealloc, is never reached.)
Realloc(c) ==
  LET b == op[c].blk
      l == b.ptr - LINK_SIZE
      sz == op[c].size
  IN
  /\ op[c].pc = "realloc"
  /\ mutex = None
  /\ \/ /\ grow_limit(l) > sz
        /\ size' = [size EXCEPT ![l] = sz]
        /\ live' = (live \ {b}) \cup {[b EXCEPT !.size = sz]}
        /\ Return(c)
        /\ UNCHANGED <<next, mutex>>
     \/ /\ grow_limit(l) <= sz
        /\ mutex' = c
        /\ op' = [op EXCEPT ![c].pc = "alloc"]
        /\ UNCHANGED <<next, size, live>>

-----------------------------------------------------------------------------

\* reset: the first link, the last link, nothing in between.
Init ==
  /\ next = [l \in {first_link, last_link} |-> last_link]
  /\ size = [l \in {first_link, last_link} |-> 0]
  /\ mutex = None
  /\ op = [c \in Cpus |-> Idle]
  /\ live = {}

Call(c) == CallAlloc(c) \/ CallDealloc(c) \/ CallRealloc(c)

Serve(c) == Alloc(c) \/ Dealloc(c) \/ Realloc(c)

Next == \E c \in Cpus : Call(c) \/ Serve(c)

Spec == Init /\ [][Next]_vars

\* A processor whose call can go on goes on.
FairSpec == Spec /\ \A c \in Cpus : WF_vars(Serve(c))

-----------------------------------------------------------------------------
(* Properties                                                              *)

\* The list runs through the heap in address order from the first link to
\* the last; no block reaches into the next link; no link is skipped.
ListOrdered ==
  /\ {first_link, last_link} \subseteq Links
  /\ next[last_link] = last_link
  /\ \A l \in Links \ {last_link} :
       /\ position(l) + size[l] <= next[l]
       /\ \A m \in Links : m <= l \/ next[l] <= m

\* The list heads exactly the blocks that callers hold, with their sizes:
\* nothing leaks, nothing is freed early.
LiveIsLinked ==
  /\ \A b \in live :
       /\ b.ptr - LINK_SIZE \in Links \ {first_link, last_link}
       /\ size[b.ptr - LINK_SIZE] = b.size
  /\ \A l \in Links \ {first_link, last_link} : \E b \in live : b.ptr = position(l)
  /\ \A a, b \in live : a.ptr = b.ptr => a = b

\* No block overlaps another block or the header of any link.
NoOverlap ==
  /\ \A a, b \in live : a # b => a.ptr + a.size <= b.ptr \/ b.ptr + b.size <= a.ptr
  /\ \A b \in live, l \in Links : position(l) <= b.ptr \/ b.ptr + b.size <= l

\* A block passed to dealloc or realloc is held, and by that caller alone.
OwnedIsLive ==
  /\ \A c \in Cpus : op[c].blk # None => op[c].blk \in live
  /\ \A c \in Cpus : op[c].pc \in {"dealloc", "realloc"} => op[c].blk # None
  /\ \A c, d \in Cpus : op[c].blk # None /\ op[c].blk = op[d].blk => c = d

\* Every block has the alignment its layout asked for.
LiveAligned == \A b \in live : b.ptr % b.align = 0

\* What every operation preserves.
IndInv == TypeOK /\ ListOrdered /\ LiveIsLinked /\ LiveAligned /\ OwnedIsLive

\* alloc returns null only when no address of the heap offers an aligned
\* place for link and block that is free of links and blocks (with one byte
\* to spare: the comparison is strict).
NullMeansNoRoom ==
  [][\A c \in Cpus, p \in Heap :
       /\ op[c].pc = "alloc" /\ op'[c].pc = "idle" /\ live' = live
       /\ p % required_align(op[c].align) = 0
       /\ p - LINK_SIZE \in Heap /\ p + op[c].size \in Heap
       => \/ \E l \in Links : l <= p + op[c].size /\ p - LINK_SIZE < position(l)
          \/ \E b \in live : b.ptr <= p + op[c].size /\ p - LINK_SIZE < b.ptr + b.size]_vars

\* The list heap behaves as the allocator its callers assume.
Abstract == INSTANCE Allocator WITH Heap <- Heap, Sizes <- Sizes, Aligns <- Aligns, live <- live
ImplementsAllocator == Abstract!Spec

\* allocator.rs, realloc: "Tries to grow the current allocator if it can, if
\* not just reallocates and copies the buffer to the new allocation".  A call
\* of realloc returns.
ReallocReturns == \A c \in Cpus : op[c].pc = "realloc" ~> op[c].pc = "idle"
=============================================================================
