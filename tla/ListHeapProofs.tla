--------------------------- MODULE ListHeapProofs ---------------------------
(***************************************************************************)
(* The list heap keeps its list in order and implements the abstract       *)
(* allocator, for every heap size, link size, set of layouts and number of *)
(* processors.                                                             *)
(***************************************************************************)
EXTENDS ListHeap, WellFoundedInduction, TLAPS

\* The heap after reset satisfies the invariant: two links, no block.
LEMMA InitInd == Init => IndInv
<1> SUFFICES ASSUME Init PROVE IndInv
  OBVIOUS
<1>1. /\ first_link \in Heap /\ last_link \in Heap
      /\ first_link \in Int /\ last_link \in Int /\ position(first_link) <= last_link
  BY HeapAssumption DEF first_link, last_link, Heap, position
<1>2. Links = {first_link, last_link}
  BY DEF Init, Links
<1>3. TypeOK
  <2>1. Idle \in Ops
    BY DEF Idle, Ops
  <2> QED BY <1>1, <1>2, <2>1 DEF Init, TypeOK
<1>4. ListOrdered
  <2>1. /\ next[first_link] = last_link /\ next[last_link] = last_link
        /\ size[first_link] = 0 /\ LINK_SIZE \in Nat
    BY HeapAssumption DEF Init
  <2> QED BY <1>1, <1>2, <2>1 DEF ListOrdered, position
<1>5. LiveIsLinked
  BY <1>2 DEF Init, LiveIsLinked
<1>6. OwnedIsLive /\ LiveAligned
  BY DEF Init, OwnedIsLive, LiveAligned, Idle
<1> QED BY <1>3, <1>4, <1>5, <1>6 DEF IndInv

\* The list and the sizes in arithmetic form.
LEMMA ListFacts ==
  ASSUME IndInv
  PROVE  /\ \A l \in Links : l \in Int /\ l \in Heap /\ next[l] \in Links /\ size[l] \in Nat
         /\ first_link \in Links /\ last_link \in Links /\ next[last_link] = last_link
         /\ \A l \in Links \ {last_link} : l + LINK_SIZE + size[l] <= next[l]
         /\ \A l \in Links \ {last_link}, m \in Links : m <= l \/ next[l] <= m
         /\ \A l \in Links : l <= last_link
         /\ LINK_SIZE \in Nat \ {0}
<1>1. \A l \in Links : l \in Int /\ l \in Heap /\ next[l] \in Links /\ size[l] \in Nat
  BY HeapAssumption DEF IndInv, TypeOK, Heap
<1>2. /\ first_link \in Links /\ last_link \in Links /\ next[last_link] = last_link
      /\ \A l \in Links \ {last_link} : l + LINK_SIZE + size[l] <= next[l]
      /\ \A l \in Links \ {last_link}, m \in Links : m <= l \/ next[l] <= m
      /\ LINK_SIZE \in Nat \ {0}
  BY HeapAssumption DEF IndInv, ListOrdered, position
<1>3. ASSUME NEW l \in Links PROVE l <= last_link
  <2>1. CASE l = last_link
    BY <2>1, <1>1
  <2>2. CASE l # last_link
    <3>1. l + LINK_SIZE + size[l] <= next[l] /\ next[l] \in Heap /\ l \in Int /\ size[l] \in Nat
      BY <1>1, <1>2, <2>2
    <3> QED BY <3>1, HeapAssumption DEF Heap, last_link
  <2> QED BY <2>1, <2>2
<1> QED BY <1>1, <1>2, <1>3

\* What the conditions of alloc say about the place it found.
LEMMA FitsRoom ==
  ASSUME IndInv, NEW l \in Links, NEW p \in Heap, NEW sz \in Sizes, NEW align \in Aligns,
         Fits(l, sz, align, p)
  PROVE  /\ l # last_link
         /\ l + LINK_SIZE + size[l] <= p - LINK_SIZE
         /\ p + sz < next[l]
         /\ p % align = 0
<1>1. l \in Int /\ next[l] \in Int /\ size[l] \in Nat /\ next[last_link] = last_link
  BY ListFacts
<1>2. p \in Int /\ sz \in Nat /\ LINK_SIZE \in Nat
  BY HeapAssumption, LayoutAssumption DEF Heap
<1>3. l # last_link
  BY <1>1 DEF Fits, is_last
<1>4. /\ l + LINK_SIZE + size[l] <= p - LINK_SIZE
      /\ p + sz < next[l]
  BY <1>1, <1>2 DEF Fits, AlignedUp, free_space, free_space_start, max_size, position
<1>5. p % align = 0
  <2>1. p % required_align(align) = 0
    BY DEF Fits, AlignedUp
  <2> QED BY <2>1, LayoutAssumption, HeapAssumption DEF required_align
<1> QED BY <1>3, <1>4, <1>5

\* A block that alloc placed is apart from every header and every block.
LEMMA BlocksApart ==
  ASSUME IndInv
  PROVE  NoOverlap
<1>1. /\ \A b \in live : /\ b.ptr \in Int /\ b.size \in Int
                         /\ b.ptr - LINK_SIZE \in Links \ {last_link}
                         /\ size[b.ptr - LINK_SIZE] = b.size
      /\ \A a, b \in live : a.ptr = b.ptr => a = b
  BY LayoutAssumption, HeapAssumption DEF IndInv, TypeOK, LiveIsLinked, Blocks, Heap
<1>2. \A b \in live, m \in Links : m <= b.ptr - LINK_SIZE \/ b.ptr + b.size <= m
  BY <1>1, ListFacts
<1>3. \A b \in live, l \in Links : position(l) <= b.ptr \/ b.ptr + b.size <= l
  BY <1>1, <1>2, ListFacts DEF position
<1>4. ASSUME NEW a \in live, NEW b \in live, a # b
      PROVE  a.ptr + a.size <= b.ptr \/ b.ptr + b.size <= a.ptr
  <2>1. a.ptr # b.ptr
    BY <1>1, <1>4
  <2>2. /\ a.ptr - LINK_SIZE \in Links /\ b.ptr - LINK_SIZE \in Links
        /\ a.ptr \in Int /\ b.ptr \in Int /\ a.size \in Int /\ b.size \in Int
        /\ LINK_SIZE \in Nat
    BY <1>1, ListFacts
  <2>3. \/ a.ptr - LINK_SIZE <= b.ptr - LINK_SIZE
        \/ b.ptr + b.size <= a.ptr - LINK_SIZE
    BY <1>2, <2>2
  <2>4. \/ b.ptr - LINK_SIZE <= a.ptr - LINK_SIZE
        \/ a.ptr + a.size <= b.ptr - LINK_SIZE
    BY <1>2, <2>2
  <2> QED BY <2>1, <2>2, <2>3, <2>4
<1> QED BY <1>3, <1>4 DEF NoOverlap

\* A call changes nothing but the caller's own record.
LEMMA CallInd == ASSUME IndInv, NEW c \in Cpus, Call(c) PROVE IndInv'
<1>1. /\ UNCHANGED <<next, size, mutex, live>>
      /\ op[c].pc = "idle"
      /\ \E o \in Ops : /\ op' = [op EXCEPT ![c] = o]
                        /\ o.blk # None => o.blk \in live \ Owned
                        /\ o.pc \in {"dealloc", "realloc"} => o.blk # None
  <2> USE LayoutAssumption, NoneAssumption
  <2>1. live \subseteq Blocks /\ None \notin Blocks
    BY DEF IndInv, TypeOK, Blocks
  <2>2. CASE CallAlloc(c)
    <3>1. PICK sz \in Sizes, align \in Aligns :
            op' = [op EXCEPT ![c] = [pc |-> "alloc", blk |-> None, size |-> sz, align |-> align]]
      BY <2>2 DEF CallAlloc
    <3>2. [pc |-> "alloc", blk |-> None, size |-> sz, align |-> align] \in Ops
      BY DEF Ops
    <3> QED BY <2>2, <3>1, <3>2 DEF CallAlloc
  <2>3. CASE CallDealloc(c)
    <3>1. PICK b \in live \ Owned :
            op' = [op EXCEPT ![c] = [Idle EXCEPT !.pc = "dealloc", !.blk = b]]
      BY <2>3 DEF CallDealloc
    <3> DEFINE o == [Idle EXCEPT !.pc = "dealloc", !.blk = b]
    <3>2. o \in Ops /\ o.blk = b
      BY <2>1 DEF Ops, Idle
    <3> HIDE DEF o
    <3> QED BY <2>1, <2>3, <3>1, <3>2 DEF CallDealloc, o
  <2>4. CASE CallRealloc(c)
    <3>1. PICK b \in live \ Owned, sz \in Sizes :
            op' = [op EXCEPT ![c] = [pc |-> "realloc", blk |-> b, size |-> sz, align |-> b.align]]
      BY <2>4 DEF CallRealloc
    <3>2. [pc |-> "realloc", blk |-> b, size |-> sz, align |-> b.align] \in Ops
      BY <2>1 DEF Ops, Blocks
    <3> QED BY <2>1, <2>4, <3>1, <3>2 DEF CallRealloc
  <2> QED BY <2>2, <2>3, <2>4 DEF Call
<1>2. TypeOK'
  BY <1>1 DEF IndInv, TypeOK, Links
<1>3. ListOrdered' /\ LiveIsLinked' /\ LiveAligned'
  BY <1>1 DEF IndInv, ListOrdered, LiveIsLinked, LiveAligned, Links, position
<1>4. OwnedIsLive'
  BY <1>1 DEF IndInv, TypeOK, OwnedIsLive, Owned
<1> QED BY <1>2, <1>3, <1>4 DEF IndInv

\* What alloc leaves of the other calls: they keep blocks that are still live.
LEMMA ReturnOwned ==
  ASSUME IndInv, NEW c \in Cpus, Return(c),
         \A d \in Cpus \ {c} : op[d].blk # None => op[d].blk \in live'
  PROVE  OwnedIsLive' /\ op' \in [Cpus -> Ops]
<1>1. op \in [Cpus -> Ops] /\ OwnedIsLive
  BY DEF IndInv, TypeOK
<1>2. Idle \in Ops /\ Idle.blk = None /\ Idle.pc = "idle"
  BY DEF Idle, Ops
<1> QED BY <1>1, <1>2 DEF Return, OwnedIsLive

\* A new link keeps the list in order and heads the new block.
LEMMA InsertInd ==
  ASSUME IndInv, NEW c \in Cpus, NEW l \in Links, NEW p \in Heap,
         NEW sz \in Sizes, NEW align \in Aligns,
         Fits(l, sz, align, p), InsertLink(l, sz, p), Return(c), UNCHANGED mutex,
         live' = live \cup {[ptr |-> p, size |-> sz, align |-> align]}
  PROVE  IndInv'
<1> DEFINE new == p - LINK_SIZE
           b == [ptr |-> p, size |-> sz, align |-> align]
<1>1. /\ l # last_link /\ l + LINK_SIZE + size[l] <= new /\ p + sz < next[l]
      /\ p = new + LINK_SIZE /\ p \in Int /\ new \in Int /\ sz \in Nat
  BY FitsRoom, HeapAssumption, LayoutAssumption DEF Heap
<1>2. /\ \A k \in Links : k \in Int /\ k \in Heap /\ next[k] \in Links /\ size[k] \in Nat
      /\ first_link \in Links /\ last_link \in Links /\ next[last_link] = last_link
      /\ \A k \in Links \ {last_link} : k + LINK_SIZE + size[k] <= next[k]
      /\ \A k \in Links \ {last_link}, m \in Links : m <= k \/ next[k] <= m
      /\ LINK_SIZE \in Nat \ {0}
  BY ListFacts
<1>3. new \notin Links /\ new \in Heap
  <2>1. l \in Int /\ l \in Heap /\ next[l] \in Int /\ size[l] \in Nat
    BY <1>2
  <2>2. \A m \in Links : m <= l \/ next[l] <= m
    BY <1>1, <1>2
  <2>3. l < new /\ new < next[l]
    BY <1>1, <1>2, <2>1
  <2>4. Base <= l
    BY <2>1, HeapAssumption DEF Heap
  <2>5. p <= Base + HEAP_SIZE - 1
    BY HeapAssumption DEF Heap
  <2>6. new \notin Links
    BY <1>1, <1>2, <2>1, <2>2, <2>3
  <2> QED BY <1>1, <1>2, <2>1, <2>3, <2>4, <2>5, <2>6, HeapAssumption DEF Heap
<1>4. /\ Links' = Links \cup {new}
      /\ next' = [k \in Links \cup {new} |->
                    IF k = new THEN next[l] ELSE IF k = l THEN new ELSE next[k]]
      /\ size' = [k \in Links \cup {new} |-> IF k = new THEN sz ELSE size[k]]
  BY DEF InsertLink, Links
<1> HIDE DEF new
<1>5. TypeOK'
  <2>1. Links' \subseteq Heap /\ next' \in [Links' -> Links'] /\ size' \in [Links' -> Nat]
    BY <1>1, <1>2, <1>3, <1>4
  <2>2. b \in Blocks
    BY DEF Blocks
  <2>3. \A d \in Cpus \ {c} : op[d].blk # None => op[d].blk \in live'
    BY DEF IndInv, OwnedIsLive
  <2> QED BY <2>1, <2>2, <2>3, ReturnOwned DEF IndInv, TypeOK
<1>6. ListOrdered'
  <2>1. {first_link, last_link} \subseteq Links' /\ next'[last_link] = last_link
    BY <1>1, <1>2, <1>3, <1>4
  <2>2. ASSUME NEW k \in Links' \ {last_link}
        PROVE  /\ k + LINK_SIZE + size'[k] <= next'[k]
               /\ \A m \in Links' : m <= k \/ next'[k] <= m
    <3>1. CASE k = new
      <4>1. next'[k] = next[l] /\ size'[k] = sz
        BY <1>4, <3>1
      <4>2. next[l] \in Int
        BY <1>2
      <4> QED BY <1>1, <1>2, <1>4, <3>1, <4>1, <4>2
    <3>2. CASE k = l
      <4>1. next'[k] = new /\ size'[k] = size[l] /\ k # new
        BY <1>3, <1>4, <3>2
      <4>2. \A m \in Links : m <= l \/ next[l] <= m
        BY <1>1, <1>2
      <4>3. next[l] \in Int /\ l \in Int /\ size[l] \in Nat
        BY <1>2
      <4> QED BY <1>1, <1>2, <1>4, <3>2, <4>1, <4>2, <4>3
    <3>3. CASE k # new /\ k # l
      <4>1. k \in Links \ {last_link} /\ next'[k] = next[k] /\ size'[k] = size[k]
        BY <1>4, <3>3
      <4>2. \A m \in Links : m <= k \/ next[k] <= m
        BY <1>2, <4>1
      <4>3. new <= k \/ next[k] <= new
        <5>1. l <= k \/ next[k] <= l
          BY <4>2
        <5>2. k <= l \/ next[l] <= k
          BY <1>1, <1>2, <4>1
        <5>3. k \in Int /\ l \in Int /\ next[l] \in Int /\ next[k] \in Int /\ size[l] \in Nat
          BY <1>2, <4>1
        <5> QED BY <1>1, <1>2, <3>3, <5>1, <5>2, <5>3
      <4> QED BY <1>2, <1>4, <4>1, <4>2, <4>3
    <3> QED BY <3>1, <3>2, <3>3
  <2> QED BY <2>1, <2>2 DEF ListOrdered, position
<1>7. LiveIsLinked'
  <2>1. /\ \A a \in live : a.ptr - LINK_SIZE \in Links \ {first_link, last_link}
                          /\ size[a.ptr - LINK_SIZE] = a.size /\ a.ptr \in Int
        /\ \A k \in Links \ {first_link, last_link} : \E a \in live : a.ptr = k + LINK_SIZE
        /\ \A a, d \in live : a.ptr = d.ptr => a = d
    BY HeapAssumption DEF IndInv, TypeOK, LiveIsLinked, position, Blocks, Heap
  <2>2. b.ptr = p /\ b.size = sz /\ b.ptr - LINK_SIZE = new
    BY <1>1, <1>2
  <2>3. \A a \in live : a.ptr # p
    BY <1>1, <1>2, <1>3, <2>1
  <2> HIDE DEF b
  <2>4. live' = live \cup {b}
    BY DEF b
  <2>5. \A a \in live' : a.ptr - LINK_SIZE \in Links' \ {first_link, last_link}
                        /\ size'[a.ptr - LINK_SIZE] = a.size
    BY <1>2, <1>3, <1>4, <2>1, <2>2, <2>4
  <2>6. \A k \in Links' \ {first_link, last_link} : \E a \in live' : a.ptr = k + LINK_SIZE
    BY <1>1, <1>4, <2>1, <2>2, <2>4
  <2>7. \A a, d \in live' : a.ptr = d.ptr => a = d
    BY <2>1, <2>2, <2>3, <2>4
  <2> QED BY <2>5, <2>6, <2>7 DEF LiveIsLinked, position
<1>8. OwnedIsLive'
  BY ReturnOwned DEF IndInv, OwnedIsLive
<1>9. LiveAligned'
  BY FitsRoom DEF IndInv, LiveAligned
<1> QED BY <1>5, <1>6, <1>7, <1>8, <1>9 DEF IndInv

\* alloc preserves the invariant, with a block or with null.
LEMMA AllocInd == ASSUME IndInv, NEW c \in Cpus, Alloc(c) PROVE IndInv'
<1>1. op[c].size \in Sizes /\ op[c].align \in Aligns
  <2>1. op[c] \in Ops /\ op[c].pc = "alloc"
    BY DEF Alloc, IndInv, TypeOK
  <2> QED BY <2>1 DEF Ops
<1>2. CASE UNCHANGED <<next, size, live>>
  <2>1. OwnedIsLive' /\ op' \in [Cpus -> Ops]
    BY <1>2, ReturnOwned DEF Alloc, IndInv, OwnedIsLive
  <2>2. Links' = Links /\ UNCHANGED <<next, size, live, mutex>>
    BY <1>2 DEF Alloc, Links
  <2> QED BY <2>1, <2>2 DEF IndInv, TypeOK, ListOrdered, LiveIsLinked, LiveAligned, position
<1>3. CASE ~ UNCHANGED <<next, size, live>>
  <2>1. PICK l \in Links, p \in Heap :
          /\ Fits(l, op[c].size, op[c].align, p)
          /\ InsertLink(l, op[c].size, p)
          /\ live' = live \cup {[ptr |-> p, size |-> op[c].size, align |-> op[c].align]}
    BY <1>3 DEF Alloc, FirstFit
  <2> QED BY <1>1, <2>1, InsertInd DEF Alloc
<1> QED BY <1>2, <1>3

\* dealloc is given a block whose link is on the list, and takes it off.
LEMMA DeallocInd == ASSUME IndInv, NEW c \in Cpus, Dealloc(c) PROVE IndInv'
<1> DEFINE b == op[c].blk
           l == b.ptr - LINK_SIZE
<1>1. b \in live /\ \A d \in Cpus \ {c} : op[d].blk # b
  BY DEF Dealloc, IndInv, OwnedIsLive
<1>2. /\ \A k \in Links : k \in Int /\ k \in Heap /\ next[k] \in Links /\ size[k] \in Nat
      /\ first_link \in Links /\ last_link \in Links /\ next[last_link] = last_link
      /\ \A k \in Links \ {last_link} : k + LINK_SIZE + size[k] <= next[k]
      /\ \A k \in Links \ {last_link}, m \in Links : m <= k \/ next[k] <= m
      /\ LINK_SIZE \in Nat \ {0}
  BY ListFacts
<1>3. /\ \A a \in live : a.ptr - LINK_SIZE \in Links \ {first_link, last_link}
                        /\ size[a.ptr - LINK_SIZE] = a.size /\ a.ptr \in Int
      /\ \A k \in Links \ {first_link, last_link} : \E a \in live : a.ptr = k + LINK_SIZE
      /\ \A a, d \in live : a.ptr = d.ptr => a = d
  BY HeapAssumption DEF IndInv, TypeOK, LiveIsLinked, position, Blocks, Heap
<1>4. l \in Links \ {first_link, last_link} /\ b.ptr \in Int
  BY <1>1, <1>3
<1>5. ~is_last(l)
  BY <1>2, <1>4 DEF is_last
<1>6. PICK prev \in Links : next[prev] = l /\ RemoveLink(l, prev)
  BY <1>5 DEF Dealloc
<1>7. /\ Links' = Links \ {l}
      /\ next' = [k \in Links \ {l} |-> IF k = prev THEN next[l] ELSE next[k]]
      /\ size' = [k \in Links \ {l} |-> size[k]]
      /\ live' = live \ {b} /\ mutex' = mutex /\ Return(c)
  BY <1>6 DEF RemoveLink, Links, Dealloc
<1>8. prev # last_link /\ prev # l /\ next[l] # l
  BY <1>2, <1>4, <1>6
<1>9. OwnedIsLive' /\ op' \in [Cpus -> Ops]
  <2>1. \A d \in Cpus \ {c} : op[d].blk # None => op[d].blk \in live'
    BY <1>1, <1>7 DEF IndInv, OwnedIsLive
  <2> QED BY <1>7, <2>1, ReturnOwned
<1> HIDE DEF l, b
<1>10. TypeOK'
  <2>1. next' \in [Links' -> Links'] /\ size' \in [Links' -> Nat] /\ Links' \subseteq Heap
    <3>1. ASSUME NEW k \in Links \ {l} PROVE next'[k] \in Links \ {l}
      <4>1. CASE k = prev
        BY <1>2, <1>4, <1>7, <1>8, <3>1, <4>1
      <4>2. CASE k # prev
        <5>1. next'[k] = next[k] /\ next[k] \in Links
          BY <1>2, <1>7, <4>2
        <5>2. next[k] # l
          <6>1. CASE k = last_link
            BY <1>2, <1>4, <6>1
          <6>2. CASE k # last_link
            <7>1. /\ prev <= k \/ next[k] <= prev
                  /\ k <= prev \/ next[prev] <= k
                  /\ k + LINK_SIZE + size[k] <= next[k]
                  /\ prev + LINK_SIZE + size[prev] <= next[prev]
              BY <1>2, <1>8, <6>2
            <7>2. /\ k \in Int /\ prev \in Int /\ next[k] \in Int /\ next[prev] \in Int
                  /\ size[k] \in Nat /\ size[prev] \in Nat
              BY <1>2
            <7> QED BY <1>2, <1>6, <4>2, <7>1, <7>2
          <6> QED BY <6>1, <6>2
        <5> QED BY <5>1, <5>2
      <4> QED BY <4>1, <4>2
    <3> QED BY <1>2, <1>7, <3>1
  <2>2. live' \subseteq Blocks /\ mutex' \in Cpus \cup {None}
    BY <1>7 DEF IndInv, TypeOK
  <2> QED BY <1>9, <2>1, <2>2 DEF TypeOK
<1>11. ListOrdered'
  <2>1. {first_link, last_link} \subseteq Links' /\ next'[last_link] = last_link
    BY <1>2, <1>4, <1>7, <1>8
  <2>2. ASSUME NEW k \in Links' \ {last_link}
        PROVE  /\ k + LINK_SIZE + size'[k] <= next'[k]
               /\ \A m \in Links' : m <= k \/ next'[k] <= m
    <3>1. k \in Links \ {last_link} /\ k # l /\ size'[k] = size[k]
      BY <1>7
    <3>2. CASE k = prev
      <4>1. next'[k] = next[l]
        BY <1>7, <3>1, <3>2
      <4>2. /\ l + LINK_SIZE + size[l] <= next[l] /\ k + LINK_SIZE + size[k] <= l
            /\ \A m \in Links : m <= l \/ next[l] <= m
            /\ \A m \in Links : m <= k \/ l <= m
        BY <1>2, <1>4, <1>6, <3>1, <3>2
      <4>3. /\ l \in Int /\ k \in Int /\ next[l] \in Int /\ size[l] \in Nat /\ size[k] \in Nat
        BY <1>2, <1>4, <3>1
      <4>4. k + LINK_SIZE + size'[k] <= next'[k]
        BY <1>2, <3>1, <4>1, <4>2, <4>3
      <4>5. \A m \in Links' : m \in Int /\ m \in Links /\ m # l
        BY <1>2, <1>7
      <4>6. \A m \in Links' : m <= k \/ next'[k] <= m
        BY <4>1, <4>2, <4>3, <4>5
      <4> QED BY <4>4, <4>6
    <3>3. CASE k # prev
      <4>1. next'[k] = next[k]
        BY <1>7, <3>1, <3>3
      <4> QED BY <1>2, <1>7, <3>1, <4>1
    <3> QED BY <3>2, <3>3
  <2> QED BY <2>1, <2>2 DEF ListOrdered, position
<1>12. LiveIsLinked'
  <2>1. b.ptr = l + LINK_SIZE /\ l \in Int
    BY <1>2, <1>4 DEF l
  <2>2. ASSUME NEW a \in live' PROVE a.ptr - LINK_SIZE # l
    <3>1. a \in live /\ a # b /\ a.ptr # b.ptr /\ a.ptr \in Int
      BY <1>1, <1>3, <1>7
    <3> QED BY <1>2, <2>1, <3>1
  <2>3. \A a \in live' : a.ptr - LINK_SIZE \in Links' \ {first_link, last_link}
                        /\ size'[a.ptr - LINK_SIZE] = a.size
    BY <1>3, <1>7, <2>2
  <2>4. ASSUME NEW k \in Links' \ {first_link, last_link}
        PROVE  \E a \in live' : a.ptr = k + LINK_SIZE
    <3>1. k \in Links \ {first_link, last_link} /\ k # l /\ k \in Int
      BY <1>2, <1>7
    <3>2. PICK a \in live : a.ptr = k + LINK_SIZE
      BY <1>3, <3>1
    <3>3. a # b
      BY <1>2, <2>1, <3>1, <3>2
    <3> QED BY <1>7, <3>2, <3>3
  <2> QED BY <1>3, <1>7, <2>3, <2>4 DEF LiveIsLinked, position
<1>13. LiveAligned'
  BY <1>7 DEF IndInv, LiveAligned
<1> QED BY <1>9, <1>10, <1>11, <1>12, <1>13 DEF IndInv

\* What realloc knows about the block it resizes in place.
LEMMA ReallocBlock ==
  ASSUME IndInv, NEW c \in Cpus, op[c].pc = "realloc"
  PROVE  LET b == op[c].blk
             l == b.ptr - LINK_SIZE
         IN  /\ b \in live /\ b \in Blocks /\ b.ptr \in Int /\ op[c].size \in Sizes
             /\ l \in Links \ {first_link, last_link}
             /\ \A d \in Cpus \ {c} : op[d].blk # b
<1>1. op[c].blk \in live /\ \A d \in Cpus \ {c} : op[d].blk # op[c].blk
  BY DEF IndInv, OwnedIsLive
<1>2. op[c].blk \in Blocks /\ op[c].blk.ptr \in Int
  BY <1>1, HeapAssumption DEF IndInv, TypeOK, Blocks, Heap
<1>3. op[c].size \in Sizes
  <2>1. op[c] \in Ops
    BY DEF IndInv, TypeOK
  <2> QED BY <2>1 DEF Ops
<1> QED BY <1>1, <1>2, <1>3 DEF IndInv, LiveIsLinked

\* realloc keeps a block clear of the next link, or leaves the heap alone.
LEMMA ReallocInd == ASSUME IndInv, NEW c \in Cpus, Realloc(c) PROVE IndInv'
<1> DEFINE b == op[c].blk
           l == b.ptr - LINK_SIZE
           sz == op[c].size
           nb == [b EXCEPT !.size = sz]
<1>1. /\ b \in live /\ b \in Blocks /\ b.ptr \in Int /\ sz \in Sizes
      /\ l \in Links \ {first_link, last_link}
      /\ \A d \in Cpus \ {c} : op[d].blk # b
  BY ReallocBlock DEF Realloc
<1>2. CASE /\ max_size(l) > sz /\ size' = [size EXCEPT ![l] = sz]
           /\ live' = (live \ {b}) \cup {nb}
           /\ Return(c) /\ UNCHANGED <<next, mutex>>
  <2>1. Links' = Links /\ next' = next /\ sz \in Nat /\ next[l] \in Int
    BY <1>1, <1>2, ListFacts, LayoutAssumption DEF Links
  <2>2. nb \in Blocks /\ nb.ptr = b.ptr /\ nb.size = sz /\ nb.align = b.align
    BY <1>1 DEF Blocks
  <2>3. OwnedIsLive' /\ op' \in [Cpus -> Ops]
    <3>1. \A d \in Cpus \ {c} : op[d].blk # None => op[d].blk \in live'
      BY <1>1, <1>2 DEF IndInv, OwnedIsLive
    <3> QED BY <1>2, <3>1, ReturnOwned
  <2> HIDE DEF nb
  <2>4. TypeOK'
    BY <1>2, <2>1, <2>2, <2>3 DEF IndInv, TypeOK
  <2>5. l + LINK_SIZE + sz <= next[l]
    BY <1>1, <1>2, <2>1, HeapAssumption DEF max_size, position
  <2>6. \A k \in Links : size'[k] = IF k = l THEN sz ELSE size[k]
    BY <1>2, <2>1 DEF IndInv, TypeOK
  <2>7. ListOrdered'
    BY <2>1, <2>5, <2>6 DEF IndInv, ListOrdered, position
  <2>8. LiveIsLinked'
    <3>1. /\ \A a \in live : a.ptr - LINK_SIZE \in Links \ {first_link, last_link}
                            /\ size[a.ptr - LINK_SIZE] = a.size /\ a.ptr \in Int
          /\ \A k \in Links \ {first_link, last_link} : \E a \in live : a.ptr = k + LINK_SIZE
          /\ \A a, d \in live : a.ptr = d.ptr => a = d
      BY HeapAssumption DEF IndInv, TypeOK, LiveIsLinked, position, Blocks, Heap
    <3>2. \A a \in live \ {b} : a.ptr - LINK_SIZE # l
      BY <1>1, <3>1, HeapAssumption
    <3>3. \A a \in live' : a.ptr - LINK_SIZE \in Links' \ {first_link, last_link}
                          /\ size'[a.ptr - LINK_SIZE] = a.size
      BY <1>1, <1>2, <2>1, <2>2, <2>6, <3>1, <3>2
    <3>4. \A k \in Links' \ {first_link, last_link} : \E a \in live' : a.ptr = k + LINK_SIZE
      BY <1>2, <2>1, <2>2, <3>1
    <3>5. \A a, d \in live' : a.ptr = d.ptr => a = d
      BY <1>1, <1>2, <2>2, <3>1
    <3> QED BY <3>3, <3>4, <3>5 DEF LiveIsLinked, position
  <2>9. LiveAligned'
    BY <1>1, <1>2, <2>2 DEF IndInv, LiveAligned
  <2> QED BY <2>3, <2>4, <2>7, <2>8, <2>9 DEF IndInv
<1>3. CASE /\ mutex' = c /\ op' = [op EXCEPT ![c].pc = "alloc"]
           /\ UNCHANGED <<next, size, live>>
  <2>1. Links' = Links /\ UNCHANGED <<next, size, live>>
    BY <1>3 DEF Links
  <2>2. op \in [Cpus -> Ops] /\ op[c] \in Ops /\ op[c].pc = "realloc"
    BY DEF IndInv, TypeOK, Realloc
  <2>3. [op[c] EXCEPT !.pc = "alloc"] \in Ops
    BY <2>2 DEF Ops
  <2>4. /\ op' \in [Cpus -> Ops]
        /\ \A d \in Cpus : op'[d].blk = op[d].blk /\ (op'[d].pc = op[d].pc \/ op'[d].pc = "alloc")
    <3>1. op'[c].blk = op[c].blk /\ op'[c].pc = "alloc"
      BY <1>3, <2>2 DEF Ops
    <3> QED BY <1>3, <2>2, <2>3, <3>1
  <2>5. OwnedIsLive'
    BY <2>1, <2>4 DEF IndInv, OwnedIsLive
  <2>6. TypeOK'
    BY <1>3, <2>1, <2>4 DEF IndInv, TypeOK
  <2> QED BY <2>1, <2>5, <2>6 DEF IndInv, ListOrdered, LiveIsLinked, LiveAligned, position
<1> QED BY <1>2, <1>3 DEF Realloc, grow_limit

\* Every step preserves the invariant.
LEMMA NextInd == ASSUME IndInv, [Next]_vars PROVE IndInv'
<1>1. CASE UNCHANGED vars
  BY <1>1 DEF vars, IndInv, TypeOK, ListOrdered, LiveIsLinked, LiveAligned, OwnedIsLive, Links, position
<1>2. CASE Next
  BY <1>2, CallInd, AllocInd, DeallocInd, ReallocInd DEF Next, Serve
<1> QED BY <1>1, <1>2

\* The list, the blocks and the calls in progress agree with each other in
\* every reachable state of the heap.
THEOREM HeapInvariant == Spec => []IndInv
BY InitInd, NextInd, PTL DEF Spec

\* alloc, dealloc and realloc keep the list in address order and complete.
THEOREM ListStaysOrdered == Spec => []ListOrdered
<1>1. IndInv => ListOrdered
  BY DEF IndInv
<1> QED BY <1>1, HeapInvariant, PTL

\* No block leaks and none is freed early: the links are the blocks held.
THEOREM NoLeak == Spec => []LiveIsLinked
<1>1. IndInv => LiveIsLinked
  BY DEF IndInv
<1> QED BY <1>1, HeapInvariant, PTL

\* No two callers are ever given overlapping memory, and none is given the
\* memory of a link.
THEOREM NoTwoOwners == Spec => []NoOverlap
<1>1. IndInv => NoOverlap
  BY BlocksApart
<1> QED BY <1>1, HeapInvariant, PTL

\* A block alloc returns satisfies what the abstract allocator promises.
LEMMA AllocRefines == ASSUME IndInv, NEW c \in Cpus, Alloc(c) PROVE Abstract!Alloc \/ live' = live
<1> SUFFICES ASSUME live' # live PROVE Abstract!Alloc
  OBVIOUS
<1>1. op[c].size \in Sizes /\ op[c].align \in Aligns
  <2>1. op[c] \in Ops /\ op[c].pc = "alloc"
    BY DEF Alloc, IndInv, TypeOK
  <2> QED BY <2>1 DEF Ops
<1>2. PICK l \in Links, p \in Heap :
        /\ Fits(l, op[c].size, op[c].align, p)
        /\ live' = live \cup {[ptr |-> p, size |-> op[c].size, align |-> op[c].align]}
  BY DEF Alloc, FirstFit
<1> DEFINE sz == op[c].size
           b == [ptr |-> p, size |-> sz, align |-> op[c].align]
<1>3. /\ l # last_link /\ l + LINK_SIZE + size[l] <= p - LINK_SIZE
      /\ p + sz < next[l] /\ p % op[c].align = 0
  BY <1>1, <1>2, FitsRoom
<1>4. /\ l \in Int /\ next[l] \in Links /\ next[l] \in Int /\ next[l] \in Heap /\ size[l] \in Nat
      /\ p \in Int /\ sz \in Nat \ {0} /\ LINK_SIZE \in Nat \ {0}
  <2>1. l \in Int /\ next[l] \in Links /\ size[l] \in Nat /\ LINK_SIZE \in Nat \ {0}
    BY ListFacts
  <2>2. sz \in Nat \ {0}
    BY <1>1, LayoutAssumption
  <2>3. p \in Int
    BY HeapAssumption DEF Heap
  <2>4. next[l] \in Int /\ next[l] \in Heap
    BY <2>1, ListFacts
  <2> QED BY <2>1, <2>2, <2>3, <2>4
<1>5. p + sz - 1 \in Heap
  BY <1>3, <1>4, HeapAssumption DEF Heap
<1>6. ASSUME NEW a \in live PROVE a.ptr + a.size <= p \/ p + sz <= a.ptr
  <2> DEFINE m == a.ptr - LINK_SIZE
  <2>1. m \in Links \ {last_link} /\ size[m] = a.size /\ a.ptr \in Int
    BY HeapAssumption DEF IndInv, TypeOK, LiveIsLinked, Blocks, Heap
  <2>2. /\ m + LINK_SIZE + size[m] <= next[m] /\ next[m] \in Int /\ size[m] \in Nat /\ m \in Int
        /\ m <= l \/ next[l] <= m
        /\ l <= m \/ next[m] <= l
    BY <1>3, <2>1, ListFacts
  <2>3. a.ptr = m + LINK_SIZE
    BY <1>4, <2>1
  <2> HIDE DEF m
  <2>4. CASE m = l
    BY <1>3, <1>4, <2>1, <2>2, <2>3, <2>4
  <2>5. CASE m # l
    BY <1>3, <1>4, <2>1, <2>2, <2>3, <2>5
  <2> QED BY <2>4, <2>5
<1>7. b \in Blocks /\ b.ptr = p /\ b.size = sz /\ b.align = op[c].align
  BY <1>1 DEF Blocks
<1> HIDE DEF b
<1>8. Abstract!Placeable(b, live)
  BY <1>3, <1>5, <1>6, <1>7 DEF Abstract!Placeable, Abstract!Apart
<1>9. b \in Abstract!Blocks /\ live' = live \cup {b}
  BY <1>2, <1>7 DEF Abstract!Blocks, Blocks, b
<1> QED BY <1>8, <1>9 DEF Abstract!Alloc

\* Resizing in place is a step of the abstract allocator.
LEMMA ReallocRefines == ASSUME IndInv, NEW c \in Cpus, Realloc(c) PROVE Abstract!Realloc \/ live' = live
<1> DEFINE b == op[c].blk
           l == b.ptr - LINK_SIZE
           sz == op[c].size
           nb == [b EXCEPT !.size = sz]
<1> SUFFICES ASSUME live' # live PROVE Abstract!Realloc
  OBVIOUS
<1>1. /\ b \in live /\ b \in Blocks /\ b.ptr \in Int /\ sz \in Sizes
      /\ l \in Links \ {first_link, last_link}
  BY ReallocBlock DEF Realloc
<1>2. max_size(l) > sz /\ live' = (live \ {b}) \cup {nb}
  BY DEF Realloc, grow_limit
<1>3. /\ l \in Int /\ next[l] \in Links /\ next[l] \in Int /\ next[l] \in Heap
      /\ sz \in Nat \ {0} /\ LINK_SIZE \in Nat \ {0}
  <2>1. l \in Int /\ next[l] \in Links /\ LINK_SIZE \in Nat \ {0}
    BY <1>1, ListFacts
  <2>2. sz \in Nat \ {0}
    BY <1>1, LayoutAssumption
  <2> HIDE DEF l, sz
  <2> QED BY <2>1, <2>2, ListFacts
<1>4. b.ptr = l + LINK_SIZE /\ b.ptr + sz < next[l]
  BY <1>1, <1>2, <1>3 DEF max_size, position
<1>5. nb \in Blocks /\ nb.ptr = b.ptr /\ nb.size = sz /\ nb.align = b.align
  BY <1>1 DEF Blocks
<1>6. b.ptr \in Heap /\ b.ptr + sz - 1 \in Heap /\ b.ptr % b.align = 0
  <2>1. b.ptr \in Heap /\ b.ptr % b.align = 0
    BY <1>1 DEF IndInv, LiveAligned, Blocks
  <2> QED BY <1>1, <1>3, <1>4, <2>1, HeapAssumption DEF Heap
<1>7. ASSUME NEW a \in live \ {b} PROVE a.ptr + a.size <= b.ptr \/ b.ptr + sz <= a.ptr
  <2> DEFINE m == a.ptr - LINK_SIZE
  <2>1. m \in Links \ {last_link} /\ size[m] = a.size /\ a.ptr \in Int /\ a.ptr # b.ptr
    BY <1>1, HeapAssumption DEF IndInv, TypeOK, LiveIsLinked, Blocks, Heap
  <2>2. /\ m + LINK_SIZE + size[m] <= next[m] /\ next[m] \in Int /\ size[m] \in Nat /\ m \in Int
        /\ m <= l \/ next[l] <= m
        /\ l <= m \/ next[m] <= l
    BY <1>1, <2>1, ListFacts
  <2>3. a.ptr = m + LINK_SIZE
    BY <1>3, <2>1
  <2> HIDE DEF m
  <2> QED BY <1>1, <1>3, <1>4, <2>1, <2>2, <2>3
<1> HIDE DEF nb
<1>8. Abstract!Placeable(nb, live \ {b})
  BY <1>5, <1>6, <1>7 DEF Abstract!Placeable, Abstract!Apart
<1>9. nb \in Abstract!Blocks
  BY <1>5 DEF Abstract!Blocks, Blocks
<1> QED BY <1>1, <1>2, <1>5, <1>8, <1>9 DEF Abstract!Realloc

\* The list heap implements the contract of GlobalAlloc: every block it
\* hands out is in the heap, aligned, and apart from all others.
THEOREM HeapImplementsAllocator == Spec => ImplementsAllocator
<1>1. Init => Abstract!Init
  BY DEF Init, Abstract!Init
<1>2. IndInv /\ [Next]_vars => [Abstract!Next]_live
  <2> SUFFICES ASSUME IndInv, [Next]_vars, live' # live PROVE Abstract!Next
    OBVIOUS
  <2>1. PICK c \in Cpus : Call(c) \/ Serve(c)
    BY DEF Next, vars
  <2>2. Serve(c)
    BY <2>1 DEF Call, CallAlloc, CallDealloc, CallRealloc
  <2>3. CASE Alloc(c)
    BY <2>3, AllocRefines DEF Abstract!Next
  <2>4. CASE Dealloc(c)
    BY <2>4 DEF Dealloc, IndInv, OwnedIsLive, Abstract!Next, Abstract!Dealloc
  <2>5. CASE Realloc(c)
    BY <2>5, ReallocRefines DEF Abstract!Next
  <2> QED BY <2>2, <2>3, <2>4, <2>5 DEF Serve
<1> QED BY <1>1, <1>2, HeapInvariant, PTL DEF Spec, ImplementsAllocator, Abstract!Spec

-----------------------------------------------------------------------------
(* When alloc returns null                                                 *)

\* The first link heads no block.
FirstEmpty == size[first_link] = 0

\* No call writes the size of the first link: blocks are headed by others.
LEMMA FirstEmptyInd == ASSUME IndInv, FirstEmpty, [Next]_vars PROVE FirstEmpty'
<1>1. first_link \in Links /\ size \in [Links -> Nat]
  BY ListFacts DEF IndInv, TypeOK
<1>2. CASE size' = size
  BY <1>2 DEF FirstEmpty
<1>3. ASSUME NEW c \in Cpus, Alloc(c), size' # size PROVE FirstEmpty'
  <2>1. op[c].size \in Sizes /\ op[c].align \in Aligns
    <3>1. op[c] \in Ops /\ op[c].pc = "alloc"
      BY <1>3 DEF Alloc, IndInv, TypeOK
    <3> QED BY <3>1 DEF Ops
  <2>2. PICK l \in Links, p \in Heap :
          Fits(l, op[c].size, op[c].align, p) /\ InsertLink(l, op[c].size, p)
    BY <1>3 DEF Alloc, FirstFit
  <2>3. l + LINK_SIZE + size[l] <= p - LINK_SIZE
    BY <2>1, <2>2, FitsRoom
  <2>4. l \in Heap /\ size[l] \in Nat /\ LINK_SIZE \in Nat \ {0}
    BY ListFacts
  <2>5. p - LINK_SIZE # first_link
    BY <2>3, <2>4, HeapAssumption DEF Heap, first_link
  <2> QED BY <1>1, <2>2, <2>5 DEF InsertLink, FirstEmpty
<1>4. ASSUME NEW c \in Cpus, Dealloc(c), size' # size PROVE FirstEmpty'
  <2> DEFINE l == op[c].blk.ptr - LINK_SIZE
  <2>1. l # first_link
    BY <1>4 DEF Dealloc, IndInv, OwnedIsLive, LiveIsLinked
  <2>2. size' = [k \in Links \ {l} |-> size[k]]
    BY <1>4 DEF Dealloc, RemoveLink
  <2> QED BY <1>1, <2>1, <2>2 DEF FirstEmpty
<1>5. ASSUME NEW c \in Cpus, Realloc(c), size' # size PROVE FirstEmpty'
  <2> DEFINE l == op[c].blk.ptr - LINK_SIZE
  <2>1. l # first_link
    BY <1>5, ReallocBlock DEF Realloc
  <2>2. size' = [size EXCEPT ![l] = op[c].size]
    BY <1>5 DEF Realloc
  <2> QED BY <1>1, <2>1, <2>2 DEF FirstEmpty
<1> QED BY <1>2, <1>3, <1>4, <1>5
        DEF Next, vars, Call, Serve, CallAlloc, CallDealloc, CallRealloc

\* Below any bound that some element of a set meets there is a largest one.
LEMMA Largest ==
  ASSUME NEW S, S \subseteq Nat, NEW n \in Nat, \A s \in S : s <= n, S # {}
  PROVE  \E s \in S : \A t \in S : t <= s
<1> DEFINE T == {k \in 0 .. n : n - k \in S}
<1>1. T \subseteq Nat /\ T # {}
  <2>1. PICK s \in S : TRUE
    OBVIOUS
  <2>2. s \in Nat /\ s <= n
    OBVIOUS
  <2>3. n - s \in 0 .. n /\ n - (n - s) = s
    BY <2>2
  <2> QED BY <2>3
<1>2. PICK x \in T : \A y \in T : ~(<<y, x>> \in OpToRel(<, Nat))
  BY <1>1, NatLessThanWellFounded, WFMin
<1>3. n - x \in S /\ x \in 0 .. n
  OBVIOUS
<1>4. \A y \in T : ~(y < x)
  BY <1>1, <1>2 DEF OpToRel
<1>5. ASSUME NEW t \in S PROVE t <= n - x
  <2>1. t \in Nat /\ t <= n
    OBVIOUS
  <2>2. n - t \in 0 .. n /\ n - (n - t) = t
    BY <2>1
  <2>3. n - t \in T
    BY <2>2
  <2>4. ~(n - t < x)
    BY <1>4, <2>3
  <2> QED BY <1>3, <2>1, <2>4
<1> QED BY <1>3, <1>5

\* Rounding up to an alignment stops no later than any aligned address.
LEMMA RoundUp ==
  ASSUME NEW x \in Nat, NEW a \in Nat \ {0}, NEW p \in Nat, p % a = 0, x <= p
  PROVE  \E q \in x .. p : AlignedUp(q, x, a)
<1> DEFINE k == (p - x) \div a
           m == p \div a
           q == (m - k) * a
<1>1. k \in Nat /\ k * a <= p - x /\ p - x < k * a + a
  OBVIOUS
<1>2. m \in Nat /\ p = m * a
  OBVIOUS
<1> HIDE DEF k, m
<1>3. q = p - k * a
  BY <1>1, <1>2
<1>4. q % a = 0
  BY <1>1, <1>2
<1> HIDE DEF q
<1>5. q \in x .. p /\ q < x + a
  BY <1>1, <1>3
<1> QED BY <1>4, <1>5 DEF AlignedUp

\* A place that touches no link and no block lies in the free space behind
\* one link, and then the walk finds room behind that link.
LEMMA RoomIsFound ==
  ASSUME IndInv, FirstEmpty, NEW sz \in Sizes, NEW align \in Aligns, NEW p \in Heap,
         p % required_align(align) = 0, p - LINK_SIZE \in Heap, p + sz \in Heap,
         \A l \in Links : ~(l <= p + sz /\ p - LINK_SIZE < position(l)),
         \A b \in live : ~(b.ptr <= p + sz /\ p - LINK_SIZE < b.ptr + b.size)
  PROVE  \E l \in Links, q \in Heap : Fits(l, sz, align, q)
<1> DEFINE S == {m \in Links : m + LINK_SIZE <= p - LINK_SIZE}
           a == required_align(align)
<1>1. /\ p \in Nat /\ sz \in Nat \ {0} /\ LINK_SIZE \in Nat \ {0} /\ a \in Nat \ {0}
      /\ Base <= p - LINK_SIZE /\ p + sz < Base + HEAP_SIZE
      /\ Base \in Nat /\ HEAP_SIZE \in Nat
  BY HeapAssumption, LayoutAssumption DEF Heap, required_align
<1> HIDE DEF a
<1>2. \A l \in Links : p + sz < l \/ l + LINK_SIZE <= p - LINK_SIZE
  BY <1>1, ListFacts DEF position
<1>3. first_link \in S /\ last_link \notin S
  <2>1. first_link \in Links /\ last_link \in Links
    BY ListFacts
  <2> QED BY <1>1, <1>2, <2>1 DEF first_link, last_link
<1>4. PICK l \in S : \A m \in S : m <= l
  <2>1. \A m \in Links : m \in Nat
    BY HeapAssumption, ListFacts DEF Heap
  <2>2. S \subseteq Nat /\ \A m \in S : m <= p
    BY <1>1, <2>1
  <2> HIDE DEF S
  <2> QED BY <1>1, <1>3, <2>2, Largest
<1>5. /\ l \in Links \ {last_link} /\ l \in Nat /\ next[l] \in Links /\ next[l] \in Nat
      /\ size[l] \in Nat /\ l + LINK_SIZE <= p - LINK_SIZE
      /\ l + LINK_SIZE + size[l] <= next[l]
  <2>1. l \in Links \ {last_link} /\ l + LINK_SIZE <= p - LINK_SIZE
    BY <1>3
  <2>2. \A m \in Links : m \in Nat /\ next[m] \in Links
    BY HeapAssumption, ListFacts DEF Heap
  <2> QED BY <2>1, <2>2, ListFacts
<1>6. p + sz < next[l]
  <2>1. next[l] \notin S
    BY <1>1, <1>4, <1>5
  <2> QED BY <1>2, <1>5, <2>1
<1>7. l + LINK_SIZE + size[l] <= p - LINK_SIZE
  <2>1. CASE l = first_link
    BY <1>1, <1>5, <2>1 DEF FirstEmpty
  <2>2. CASE l # first_link
    <3>1. PICK b \in live : b.ptr = l + LINK_SIZE
      BY <1>5, <2>2 DEF IndInv, LiveIsLinked, position
    <3>2. size[b.ptr - LINK_SIZE] = b.size /\ b.ptr - LINK_SIZE = l
      BY <1>1, <1>5, <3>1 DEF IndInv, LiveIsLinked
    <3> QED BY <1>1, <1>5, <3>1, <3>2
  <2> QED BY <2>1, <2>2
<1> DEFINE x == l + LINK_SIZE + size[l] + LINK_SIZE
<1>8. x \in Nat /\ x <= p
  BY <1>1, <1>5, <1>7
<1> HIDE DEF S
<1>9. PICK q \in x .. p : AlignedUp(q, x, a)
  <2> HIDE DEF x
  <2> QED BY <1>1, <1>8, RoundUp DEF a
<1>10. q \in Heap /\ q \in Nat /\ x <= q /\ q <= p
  BY <1>1, <1>5, <1>8, <1>9, HeapAssumption, ListFacts DEF Heap
<1>11. /\ ~is_last(l) /\ free_space(l) > sz
       /\ free_space_start(l) + LINK_SIZE = x
       /\ sz < free_space(l) - LINK_SIZE - (q - x)
  BY <1>1, <1>5, <1>6, <1>7, <1>10
     DEF is_last, free_space, free_space_start, max_size, position
<1> HIDE DEF x
<1>12. Fits(l, sz, align, q)
  BY <1>9, <1>11 DEF Fits, a
<1> QED BY <1>5, <1>10, <1>12

\* A block that alloc adds was not held before.
LEMMA NewBlock ==
  ASSUME IndInv, NEW sz \in Sizes, NEW align \in Aligns, NEW l \in Links, NEW p \in Heap,
         Fits(l, sz, align, p)
  PROVE  [ptr |-> p, size |-> sz, align |-> align] \notin live
<1> DEFINE b == [ptr |-> p, size |-> sz, align |-> align]
<1>1. /\ l # last_link /\ l + LINK_SIZE + size[l] <= p - LINK_SIZE /\ p + sz < next[l]
      /\ p \in Int /\ sz \in Nat
  BY FitsRoom, HeapAssumption, LayoutAssumption DEF Heap
<1>2. /\ l \in Int /\ next[l] \in Int /\ size[l] \in Nat /\ LINK_SIZE \in Nat \ {0}
      /\ \A m \in Links : m <= l \/ next[l] <= m
  BY <1>1, ListFacts
<1>3. p - LINK_SIZE \notin Links
  BY <1>1, <1>2, ListFacts
<1> QED BY <1>3 DEF IndInv, LiveIsLinked

\* alloc gives up only when every aligned place in the heap overlaps a link
\* or a block: the walk misses no room, wherever it is.
THEOREM NullOnlyWhenFull == Spec => NullMeansNoRoom
<1> DEFINE NoRoom ==
      \A c \in Cpus, p \in Heap :
        /\ op[c].pc = "alloc" /\ op'[c].pc = "idle" /\ live' = live
        /\ p % required_align(op[c].align) = 0
        /\ p - LINK_SIZE \in Heap /\ p + op[c].size \in Heap
        => \/ \E l \in Links : l <= p + op[c].size /\ p - LINK_SIZE < position(l)
           \/ \E b \in live : b.ptr <= p + op[c].size /\ p - LINK_SIZE < b.ptr + b.size
<1>1. Init => FirstEmpty
  BY DEF Init, FirstEmpty
<1>2. IndInv /\ FirstEmpty /\ [Next]_vars => [NoRoom]_vars
  <2> SUFFICES ASSUME IndInv, FirstEmpty, Next, NEW c \in Cpus, NEW p \in Heap,
                      op[c].pc = "alloc", op'[c].pc = "idle", live' = live,
                      p % required_align(op[c].align) = 0,
                      p - LINK_SIZE \in Heap, p + op[c].size \in Heap,
                      \A l \in Links : ~(l <= p + op[c].size /\ p - LINK_SIZE < position(l)),
                      \A b \in live : ~(b.ptr <= p + op[c].size /\ p - LINK_SIZE < b.ptr + b.size)
               PROVE  FALSE
    OBVIOUS
  <2>1. op \in [Cpus -> Ops] /\ op[c] \in Ops
    BY DEF IndInv, TypeOK
  <2>2. op[c].size \in Sizes /\ op[c].align \in Aligns
    BY <2>1 DEF Ops
  <2>3. PICK d \in Cpus : Call(d) \/ Serve(d)
    BY DEF Next
  <2>4. d = c
    <3>1. \E o : op' = [op EXCEPT ![d] = o]
      <4>1. CASE Call(d)
        BY <4>1 DEF Call, CallAlloc, CallDealloc, CallRealloc
      <4>2. CASE Alloc(d) \/ Dealloc(d)
        BY <4>2 DEF Alloc, Dealloc, Return
      <4>3. CASE Realloc(d)
        BY <4>3 DEF Realloc, Return
      <4> QED BY <2>3, <4>1, <4>2, <4>3 DEF Serve
    <3> QED BY <2>1, <3>1
  <2>5. Alloc(c)
    BY <2>3, <2>4 DEF Call, Serve, CallAlloc, CallDealloc, CallRealloc, Dealloc, Realloc
  <2>6. PICK l \in Links, q \in Heap : Fits(l, op[c].size, op[c].align, q)
    BY <2>2, RoomIsFound
  <2>7. \E m \in Links, q2 \in Heap :
          /\ Fits(m, op[c].size, op[c].align, q2)
          /\ [ptr |-> q2, size |-> op[c].size, align |-> op[c].align] \in live'
    BY <2>5, <2>6 DEF Alloc, FirstFit
  <2> QED BY <2>2, <2>7, NewBlock
<1>3. IndInv /\ FirstEmpty /\ [Next]_vars => FirstEmpty'
  BY FirstEmptyInd
<1> QED BY <1>1, <1>2, <1>3, HeapInvariant, PTL DEF Spec, NullMeansNoRoom
=============================================================================
