--------------------------- MODULE EptHooksProofs ---------------------------
(***************************************************************************)
(* EptHooks keeps its page tables, its shadow bookkeeping and its page     *)
(* directories consistent, for any number of processors, frames and        *)
(* functions and any guest program.                                        *)
(***************************************************************************)
EXTENDS EptHooks, TLAPS

\* What the shared tables and the private page directories owe each other.
TableInv ==
  /\ TablesPresent
  /\ TablesFilled
  /\ ShadowsFromHeap
  /\ ShadowsDistinct
  /\ NoDanglingShadow

\* A guest may read or write the shadow page that p's entry maps.
Readable(p) == pt[p].hpa \in HeapPages \ {p} /\ pt[p].perm \cap READ_WRITE # {}

\* What the handlers rely on in the state of one processor.
GoodVm(s) ==
  /\ s \in VmStates
  /\ s.phase \in {"violation", "vmcall_lock", "mtf_lock"} => s.gpa \in Frames
  /\ s.phase = "mtf_lock" => ~s.mtf
  /\ s.mtf \/ s.phase \in {"mtf", "mtf_lock"} =>
       s.mtf_counter # None /\ s.old_rflags # None /\ ~s.rflags

\* TypeOK without vm.
TableTypes ==
  /\ pt \in [Frames -> Entry]
  /\ ptMapped \in SUBSET LargePages
  /\ guest_page_mappings \in [Frames -> Mapping]
  /\ content \in [Frames -> [page : Frames, detours : SUBSET Functions]]
  /\ pde \in [Cpus -> [LargePages -> [large : BOOLEAN, perm : SUBSET Access]]]
  /\ tlb \in [Cpus -> [Frames -> Entry]]
  /\ lock \in Cpus \cup {None}

\* A step leaves the entries of hidden pages as they are, hooks none of them,
\* and makes no region large again.
KeepsPinned ==
  \A p \in HiddenPages :
    /\ ~is_guest_page_processed(p)'
    /\ pt'[p].hpa = pt[p].hpa
    /\ \A d \in Cpus : ~is_large_page(d, p) => ~is_large_page(d, p)'

\* A step of c leaves large entries open, unless s, the state it goes to, is
\* that of a panic, and those of the other processors alone.
KeepsOpen(c, s) ==
  /\ \A d \in Cpus : d # c => pde'[d] = pde[d]
  /\ \A l \in LargePages :
       pde'[c][l].large /\ s.phase # "panic" => pde'[c][l].perm = READ_WRITE_EXECUTE

\* Init fills in every part of the invariant.
LEMMA InitInd == Init => IndInv
<1> SUFFICES ASSUME Init PROVE IndInv
  OBVIOUS
<1> USE FrameAssumption, RangeAssumption, CodeAssumption
<1>1. TypeOK
  <2>1. pt \in [Frames -> Entry] /\ tlb \in [Cpus -> [Frames -> Entry]]
    BY DEF Init, Entry, NoEntry, NoCache, Access
  <2>2. ptMapped \in SUBSET LargePages /\ lock \in Cpus \cup {None}
    BY DEF Init
  <2>3. guest_page_mappings \in [Frames -> Mapping]
    BY DEF Init, Mapping, NoMapping
  <2>4. content \in [Frames -> [page : Frames, detours : SUBSET Functions]]
    BY DEF Init
  <2>5. pde \in [Cpus -> [LargePages -> [large : BOOLEAN, perm : SUBSET Access]]]
    BY DEF Init, LargeIdentity, READ_WRITE_EXECUTE, Access
  <2>6. vm \in [Cpus -> VmStates]
    <3> DEFINE Off(l) ==
          [phase |-> "off", rip |-> l, gpa |-> None, qual |-> {}, insn |-> "none",
           fn |-> None, rax |-> "none", event |-> "none", mtf |-> FALSE,
           mtf_counter |-> None, old_rflags |-> None, rflags |-> TRUE]
    <3>1. \A l \in Code : Off(l) \in VmStates
      BY DEF VmStates, Phases
    <3>2. vm \in [Cpus -> {Off(l) : l \in Code}]
      BY DEF Init, LargeIdentity
    <3> QED BY <3>1, <3>2
  <2> QED BY <2>1, <2>2, <2>3, <2>4, <2>5, <2>6 DEF TypeOK
<1>2. TablesPresent /\ TablesFilled /\ ShadowsFromHeap /\ ShadowsDistinct
  BY DEF Init, LargeIdentity, TablesPresent, TablesFilled, ShadowsFromHeap, ShadowsDistinct,
         is_guest_page_processed, get_shadow_page, NoMapping
<1>3. NoDanglingShadow /\ ShadowExecuteOnly
  BY DEF Init, LargeIdentity, NoDanglingShadow, ShadowExecuteOnly, NoEntry
<1>4. ExitHasFrame /\ FlagClearedFirst /\ SteppingIsPrepared /\ HiddenPagesPinned
  BY DEF Init, LargeIdentity, ExitHasFrame, FlagClearedFirst, SteppingIsPrepared,
         HiddenPagesPinned, NoMapping, is_guest_page_processed
<1>5. LargeEntriesOpen /\ LaunchInv
  BY DEF Init, LargeIdentity, LargeEntriesOpen, LaunchInv
<1>6. \A c \in Cpus : lock # c
  BY DEF Init
<1>7. HolderInv
  BY <1>6 DEF HolderInv, Midway, Swapping, Enabling
<1> QED BY <1>1, <1>2, <1>3, <1>4, <1>5, <1>7 DEF IndInv

\* Every processor's state is good.
LEMMA VmGood == ASSUME IndInv, NEW c \in Cpus PROVE GoodVm(vm[c])
  BY DEF IndInv, TypeOK, ExitHasFrame, FlagClearedFirst, SteppingIsPrepared, GoodVm

\* IndInv bundled the way the steps below use it.
LEMMA Unbundle == IndInv => TableTypes /\ TableInv /\ vm \in [Cpus -> VmStates]
  BY DEF IndInv, TypeOK, TableTypes, TableInv

\* With the lock free no shadow page is readable; with the lock held by c only
\* the one c is about to take out of use.
LEMMA ReadableIsMine ==
  ASSUME IndInv, NEW c \in Cpus, lock \in {None, c}, NEW q \in Frames, Readable(q)
  PROVE  lock = c /\ Reopening(c, q)
<1>1. PICK d \in Cpus : Reopening(d, q)
  BY DEF IndInv, ShadowExecuteOnly, Readable
<1>2. lock = d /\ d # None
  BY <1>1, FrameAssumption DEF Reopening
<1> QED BY <1>1, <1>2

\* A processor that holds no lock is not between two stores.
LEMMA NotHolder ==
  ASSUME NEW c \in Cpus, lock # c
  PROVE  Midway(c)
  BY DEF Midway, Swapping, Enabling

\* A step of c, while nobody else holds the lock, that leaves tables and its
\* own state in order preserves the invariant.
LEMMA Assemble ==
  ASSUME IndInv, NEW c \in Cpus, NEW s, GoodVm(s), vm' = [vm EXCEPT ![c] = s],
         lock \in {None, c}, lock' \in {None, c},
         TableTypes', TableInv', HiddenPagesPinned', KeepsOpen(c, s), Midway(c)',
         s.phase = "off" => s.gpa = None,
         s.phase = "hide" => lock' = c,
         s.phase = "hide" /\ s.gpa # None => s.gpa \in HiddenPages /\ ~pde'[c][LargeOf[s.gpa]].large,
         \A q \in Frames : Readable(q)' => Reopening(c, q)'
  PROVE  IndInv'
<1>0. None \notin Cpus
  BY FrameAssumption
<1>1. vm \in [Cpus -> VmStates] /\ \A d \in Cpus : GoodVm(vm[d])
  BY VmGood, Unbundle
<1>2. vm' \in [Cpus -> VmStates]
  BY <1>1 DEF GoodVm
<1>3. \A d \in Cpus : vm'[d] = IF d = c THEN s ELSE vm[d]
  BY <1>1
<1>4. \A d \in Cpus : GoodVm(vm'[d])
  BY <1>1, <1>3
<1>5. ExitHasFrame' /\ FlagClearedFirst' /\ SteppingIsPrepared'
  BY <1>4 DEF ExitHasFrame, FlagClearedFirst, SteppingIsPrepared, GoodVm
<1>6. LargeEntriesOpen'
  BY <1>3 DEF IndInv, LargeEntriesOpen, KeepsOpen
<1>7. LaunchInv'
  BY <1>0, <1>3 DEF IndInv, LaunchInv, KeepsOpen, is_large_page
<1>8. HolderInv'
  <2>1. ASSUME NEW d \in Cpus, d # c PROVE Midway(d)'
    <3>1. lock' # d
      BY <1>0, <2>1
    <3> QED BY <3>1 DEF Midway, Swapping, Enabling
  <2> QED BY <2>1 DEF HolderInv
<1>9. ShadowExecuteOnly'
  BY DEF ShadowExecuteOnly, Readable
<1> QED BY <1>2, <1>5, <1>6, <1>7, <1>8, <1>9 DEF IndInv, TypeOK, TableTypes, TableInv

\* Where no hidden page changes, the running processors keep them hidden.
LEMMA StaysPinned ==
  ASSUME IndInv, NEW c \in Cpus, vm[c].phase \notin {"off", "hide"},
         NEW s, vm' = [vm EXCEPT ![c] = s], KeepsPinned
  PROVE  HiddenPagesPinned'
<1>1. \A d \in Cpus : d # c => vm'[d] = vm[d]
  BY Unbundle
<1> SUFFICES ASSUME NEW p \in HiddenPages, NEW d \in Cpus, vm'[d].phase \notin {"off", "hide"}
             PROVE  /\ ~is_large_page(d, p)'
                    /\ pt'[p].hpa = DummyPage \/ \E e \in Cpus : Resplitting(e, p)'
  BY DEF HiddenPagesPinned, KeepsPinned
<1>2. vm[d].phase \notin {"off", "hide"}
  BY <1>1
<1>3. ~is_large_page(d, p) /\ (pt[p].hpa = DummyPage \/ \E e \in Cpus : Resplitting(e, p))
  BY <1>2 DEF IndInv, HiddenPagesPinned
<1>4. ASSUME NEW e \in Cpus, Resplitting(e, p) PROVE Resplitting(e, p)'
  BY <1>1, <1>4 DEF Resplitting, KeepsPinned
<1> QED BY <1>3, <1>4 DEF KeepsPinned

\* A step of a running processor inside a critical section.
LEMMA HostStepKeeps ==
  ASSUME IndInv, NEW c \in Cpus, vm[c].phase \notin {"off", "hide"},
         NEW s, GoodVm(s), s.phase \notin {"off", "hide"}, vm' = [vm EXCEPT ![c] = s],
         lock \in {None, c}, lock' \in {None, c},
         TableTypes', TableInv', KeepsPinned, KeepsOpen(c, s), Midway(c)',
         \A q \in Frames : Readable(q)' => Reopening(c, q)'
  PROVE  IndInv'
<1>1. HiddenPagesPinned'
  BY StaysPinned
<1> QED BY <1>1, Assemble

\* Tables that do not change stay consistent.
LEMMA SameTables ==
  ASSUME IndInv, UNCHANGED <<pt, ptMapped, guest_page_mappings, content, pde>>,
         tlb' \in [Cpus -> [Frames -> Entry]], lock' \in Cpus \cup {None}
  PROVE  TableTypes' /\ TableInv' /\ KeepsPinned
<1>1. TableTypes'
  BY DEF IndInv, TypeOK, TableTypes
<1>2. TableInv'
  BY DEF IndInv, TableInv, TablesPresent, TablesFilled, ShadowsFromHeap, ShadowsDistinct,
         NoDanglingShadow, is_guest_page_processed, get_shadow_page
<1>3. KeepsPinned
  BY DEF IndInv, HiddenPagesPinned, KeepsPinned, is_guest_page_processed, is_large_page
<1> QED BY <1>1, <1>2, <1>3

\* A step of a running processor outside the critical sections, whoever holds
\* the lock meanwhile.
LEMMA QuietStep ==
  ASSUME IndInv, NEW c \in Cpus, vm[c].phase \notin {"off", "hide", "panic"}, lock # c,
         NEW s, GoodVm(s), s.phase \notin {"off", "hide"}, vm' = [vm EXCEPT ![c] = s],
         UNCHANGED <<pt, ptMapped, guest_page_mappings, content, pde, lock>>,
         tlb' \in [Cpus -> [Frames -> Entry]]
  PROVE  IndInv'
<1>1. vm \in [Cpus -> VmStates] /\ lock \in Cpus \cup {None} /\ \A d \in Cpus : GoodVm(vm[d])
  BY VmGood, Unbundle DEF TableTypes
<1>2. TableTypes' /\ TableInv' /\ KeepsPinned
  BY <1>1, SameTables
<1>3. HiddenPagesPinned'
  BY <1>2, StaysPinned
<1>4. vm' \in [Cpus -> VmStates]
  BY <1>1 DEF GoodVm
<1>5. \A d \in Cpus : vm'[d] = IF d = c THEN s ELSE vm[d]
  BY <1>1
<1>6. \A d \in Cpus : GoodVm(vm'[d])
  BY <1>1, <1>5
<1>7. ExitHasFrame' /\ FlagClearedFirst' /\ SteppingIsPrepared'
  BY <1>6 DEF ExitHasFrame, FlagClearedFirst, SteppingIsPrepared, GoodVm
<1>8. LargeEntriesOpen' /\ LaunchInv'
  BY <1>5 DEF IndInv, LargeEntriesOpen, LaunchInv, is_large_page
<1>9. HolderInv'
  <2>1. Midway(c)'
    BY DEF Midway, Swapping, Enabling
  <2>2. ASSUME NEW d \in Cpus, d # c PROVE Midway(d)'
    <3>1. vm'[d] = vm[d] /\ Midway(d)
      BY <1>5, <2>2 DEF IndInv, HolderInv
    <3> QED BY <3>1 DEF Midway, Swapping, Enabling, Reopening, SwitchToShadow, SwitchToGuest,
               get_page_table_found, is_large_page, is_guest_page_processed, FreeHeapPages
  <2> QED BY <2>1, <2>2 DEF HolderInv
<1>10. ShadowExecuteOnly'
  <2>1. ASSUME NEW d \in Cpus, NEW p \in Frames, Reopening(d, p) PROVE Reopening(d, p)'
    BY <1>5, <2>1 DEF Reopening, SwitchToGuest
  <2> QED BY <2>1 DEF IndInv, ShadowExecuteOnly
<1> QED BY <1>2, <1>3, <1>4, <1>7, <1>8, <1>9, <1>10 DEF IndInv, TypeOK, TableTypes, TableInv

\* In these phases a processor does not hold the lock.
LEMMA LockNotMine ==
  ASSUME IndInv, NEW c \in Cpus, vm[c].phase \in {"guest", "vmcall", "mtf"}
  PROVE  lock # c
  BY DEF IndInv, HolderInv, Midway, Swapping, Enabling

\* A walk of the EPT, or a cached translation, yields an entry.
LEMMA TranslationTyped ==
  ASSUME IndInv, NEW c \in Cpus, NEW p \in Frames
  PROVE  EptEntry(c, p) \in Entry /\ Translation(c, p) \in Entry
<1>1. EptEntry(c, p) \in Entry
  BY FrameAssumption DEF IndInv, TypeOK, EptEntry, is_large_page, Entry
<1> QED BY <1>1 DEF IndInv, TypeOK, Translation

\* Translating a code address ends at the page itself or at the shadow page
\* it has now; in particular never at a hidden page and never at nothing.
LEMMA TranslateCode ==
  ASSUME IndInv, NEW c \in Cpus, NEW l \in Code
  PROVE  LET q == PageOf[l]
             p == translate_guest_pa_to_host_pa(c, q)
         IN  /\ p \in Frames \ HiddenPages
             /\ p = q \/ (is_guest_page_processed(q) /\ p = get_shadow_page(q))
<1> DEFINE q == PageOf[l]
           p == translate_guest_pa_to_host_pa(c, q)
<1>1. q \in Frames \ (HiddenPages \cup HeapPages) /\ LargeOf[q] \in LargePages
  BY CodeAssumption, FrameAssumption
<1>2. CASE is_large_page(c, q)
  BY <1>1, <1>2 DEF translate_guest_pa_to_host_pa, EptEntry
<1>3. CASE ~is_large_page(c, q)
  <2>1. p = pt[q].hpa
    BY <1>3 DEF translate_guest_pa_to_host_pa, EptEntry
  <2>2. p # None
    BY <1>1, <1>3, <2>1 DEF IndInv, TablesPresent, TablesFilled, is_large_page
  <2>3. p = q \/ (is_guest_page_processed(q) /\ p = get_shadow_page(q))
    BY <1>1, <2>1, <2>2 DEF IndInv, NoDanglingShadow
  <2>4. is_guest_page_processed(q) => get_shadow_page(q) \in HeapPages
    BY <1>1 DEF IndInv, ShadowsFromHeap
  <2> QED BY <1>1, <2>3, <2>4, FrameAssumption, RangeAssumption
<1> QED BY <1>2, <1>3

\* The first store of swap_page, on a page that is not hidden: it alone can make
\* a shadow page readable.
LEMMA StoreTables ==
  ASSUME IndInv, NEW c \in Cpus, NEW p \in Frames \ HiddenPages, NEW perm \in SUBSET Access,
         lock = None, modify_page_permissions(c, p, perm),
         UNCHANGED <<ptMapped, guest_page_mappings, content>>
  PROVE  /\ TableTypes' /\ TableInv' /\ KeepsPinned
         /\ \A q \in Frames : Readable(q)' => q = p /\ perm \cap READ_WRITE # {}
         /\ pt'[p].perm = perm /\ pde' = pde /\ lock' = c
         /\ get_page_table_found(p)' /\ ~is_large_page(c, p)'
<1> USE FrameAssumption
<1> DEFINE e == [pt[p] EXCEPT !.perm = perm]
<1>1. /\ pt \in [Frames -> Entry] /\ pt' = [pt EXCEPT ![p] = e]
      /\ tlb' = tlb /\ pde' = pde /\ lock' = c
      /\ get_page_table_found(p) /\ ~is_large_page(c, p)
  BY DEF IndInv, TypeOK, modify_page_permissions
<1>2. e \in Entry /\ e.hpa = pt[p].hpa /\ e.perm = perm
  <2>1. pt[p] \in Entry
    BY <1>1
  <2> QED BY <2>1 DEF Entry
<1> HIDE DEF e
<1>3. \A q \in Frames : pt'[q] = IF q = p THEN e ELSE pt[q]
  BY <1>1
<1>4. TableTypes'
  BY <1>1, <1>2 DEF IndInv, TypeOK, TableTypes
<1>5. \A q \in Frames : pt'[q].hpa = pt[q].hpa
  BY <1>2, <1>3
<1>6. TableInv'
  BY <1>1, <1>5 DEF IndInv, TableInv, TablesPresent, TablesFilled, ShadowsFromHeap,
         ShadowsDistinct, NoDanglingShadow, is_guest_page_processed, get_shadow_page
<1>7. KeepsPinned
  BY <1>1, <1>5, RangeAssumption
     DEF IndInv, HiddenPagesPinned, KeepsPinned, is_guest_page_processed, is_large_page
<1>8. ASSUME NEW q \in Frames, Readable(q)' PROVE q = p /\ perm \cap READ_WRITE # {}
  <2>1. CASE q = p
    BY <1>2, <1>3, <1>8, <2>1 DEF Readable
  <2>2. CASE q # p
    <3>1. Readable(q)
      BY <1>3, <1>8, <2>2 DEF Readable
    <3> QED BY <3>1, ReadableIsMine
  <2> QED BY <2>1, <2>2
<1> QED BY <1>1, <1>2, <1>3, <1>4, <1>6, <1>7, <1>8 DEF get_page_table_found, is_large_page

\* The second store of swap_page, back to the page itself or to the shadow page
\* recorded for it, keeps the tables consistent and no shadow page readable.
LEMMA RemapTables ==
  ASSUME IndInv, NEW c \in Cpus, NEW p \in Frames \ HiddenPages, NEW h,
         lock = c, p = vm[c].gpa, remap_gpa_to_hpa(c, p, h),
         UNCHANGED <<ptMapped, guest_page_mappings, content>>,
         h = p \/ (is_guest_page_processed(p) /\ h = get_shadow_page(p) /\ pt[p].perm = EXECUTE)
  PROVE  /\ TableTypes' /\ TableInv' /\ KeepsPinned
         /\ \A q \in Frames : ~Readable(q)'
         /\ pde' = pde /\ lock' = None
<1> USE FrameAssumption
<1> DEFINE e == [pt[p] EXCEPT !.hpa = h]
<1>1. /\ pt \in [Frames -> Entry] /\ guest_page_mappings \in [Frames -> Mapping]
      /\ pt' = [pt EXCEPT ![p] = e]
      /\ tlb' = [tlb EXCEPT ![c] = NoCache] /\ pde' = pde /\ lock' = None
  BY DEF IndInv, TypeOK, remap_gpa_to_hpa, FlushTlb
<1>2. h \in Frames
  BY <1>1 DEF IndInv, ShadowsFromHeap
<1>3. e \in Entry /\ e.hpa = h /\ e.perm = pt[p].perm
  <2>1. pt[p] \in Entry
    BY <1>1
  <2> QED BY <1>2, <2>1 DEF Entry
<1> HIDE DEF e
<1>4. NoCache \in [Frames -> Entry]
  BY DEF Entry, NoCache, NoEntry
<1>5. TableTypes'
  BY <1>1, <1>3, <1>4 DEF IndInv, TypeOK, TableTypes
<1>6. \A q \in Frames : pt'[q] = IF q = p THEN e ELSE pt[q]
  BY <1>1
<1>7. TablesPresent' /\ ShadowsFromHeap' /\ ShadowsDistinct'
  BY <1>1 DEF IndInv, TablesPresent, ShadowsFromHeap, ShadowsDistinct,
              is_guest_page_processed, get_shadow_page
<1>8. TablesFilled'
  BY <1>2, <1>3, <1>6 DEF IndInv, TablesFilled
<1>9. NoDanglingShadow'
  BY <1>3, <1>6 DEF IndInv, NoDanglingShadow, is_guest_page_processed, get_shadow_page
<1>10. KeepsPinned
  BY <1>1, <1>6, RangeAssumption
     DEF IndInv, HiddenPagesPinned, KeepsPinned, is_guest_page_processed, is_large_page
<1>11. ASSUME NEW q \in Frames, Readable(q)' PROVE FALSE
  <2>1. CASE q = p
    BY <1>3, <1>6, <1>11, <2>1 DEF Readable, EXECUTE, READ_WRITE
  <2>2. CASE q # p
    <3>1. Readable(q)
      BY <1>6, <1>11, <2>2 DEF Readable
    <3>2. Reopening(c, q)
      BY <3>1, ReadableIsMine
    <3> QED BY <2>2, <3>2 DEF Reopening
  <2> QED BY <2>1, <2>2
<1> QED BY <1>1, <1>5, <1>7, <1>8, <1>9, <1>10, <1>11 DEF TableInv

\* A refused swap changes at most the permissions of a large entry of c.
LEMMA RefusedTables ==
  ASSUME IndInv, NEW c \in Cpus, NEW p \in Frames, NEW perm \in SUBSET Access,
         swap_page_refused(c, p, perm), UNCHANGED <<ptMapped, guest_page_mappings, content>>
  PROVE  /\ TableTypes' /\ TableInv' /\ KeepsPinned /\ pt' = pt /\ lock' = lock
         /\ \A d \in Cpus : d # c => pde'[d] = pde[d]
         /\ \A l \in LargePages : /\ pde'[c][l].large <=> pde[c][l].large
                                  /\ pde'[c][l].perm = pde[c][l].perm \/ pde'[c][l].perm = perm
<1> DEFINE Pdes == [LargePages -> [large : BOOLEAN, perm : SUBSET Access]]
<1>1. /\ pde \in [Cpus -> Pdes] /\ LargeOf[p] \in LargePages
      /\ \/ pde' = pde
         \/ pde' = [pde EXCEPT ![c][LargeOf[p]].perm = perm]
      /\ UNCHANGED <<pt, tlb, lock>>
  BY FrameAssumption DEF IndInv, TypeOK, swap_page_refused
<1>2. /\ pde' \in [Cpus -> Pdes]
      /\ \A d \in Cpus : d # c => pde'[d] = pde[d]
      /\ \A l \in LargePages : /\ pde'[c][l].large <=> pde[c][l].large
                               /\ pde'[c][l].perm = pde[c][l].perm \/ pde'[c][l].perm = perm
  <2>1. CASE pde' = pde
    BY <1>1, <2>1
  <2>2. CASE pde' = [pde EXCEPT ![c][LargeOf[p]].perm = perm]
    <3> DEFINE r == [pde[c][LargeOf[p]] EXCEPT !.perm = perm]
               row == [pde[c] EXCEPT ![LargeOf[p]] = r]
    <3>1. r \in [large : BOOLEAN, perm : SUBSET Access] /\ r.large = pde[c][LargeOf[p]].large
          /\ r.perm = perm
      <4>1. pde[c][LargeOf[p]] \in [large : BOOLEAN, perm : SUBSET Access]
        BY <1>1
      <4>2. r = [large |-> pde[c][LargeOf[p]].large, perm |-> perm]
        BY <4>1
      <4> QED BY <4>1, <4>2, Zenon
    <3> HIDE DEF r
    <3>2. row \in Pdes /\ \A l \in LargePages : row[l] = IF l = LargeOf[p] THEN r ELSE pde[c][l]
      BY <1>1, <3>1
    <3>3. pde' = [pde EXCEPT ![c] = row]
      BY <1>1, <2>2 DEF r
    <3> HIDE DEF row
    <3>4. pde'[c] = row /\ pde' \in [Cpus -> Pdes] /\ \A d \in Cpus : d # c => pde'[d] = pde[d]
      BY <1>1, <3>2, <3>3
    <3> QED BY <1>1, <3>1, <3>2, <3>4
  <2> QED BY <1>1, <2>1, <2>2
<1>3. \A d \in Cpus, l \in LargePages : pde'[d][l].large <=> pde[d][l].large
  BY <1>2
<1>4. TableTypes'
  BY <1>1, <1>2 DEF IndInv, TypeOK, TableTypes
<1>5. TableInv'
  BY <1>1, <1>3 DEF IndInv, TableInv, TablesPresent, TablesFilled, ShadowsFromHeap,
       ShadowsDistinct, NoDanglingShadow, is_guest_page_processed, get_shadow_page
<1>6. KeepsPinned
  BY <1>1, <1>3, FrameAssumption, RangeAssumption
     DEF IndInv, HiddenPagesPinned, KeepsPinned, is_guest_page_processed, is_large_page
<1> QED BY <1>1, <1>2, <1>4, <1>5, <1>6

\* A handler that ends after a refused swap, or without one.
LEMMA RefusedStep ==
  ASSUME IndInv, NEW c \in Cpus, vm[c].phase \notin {"off", "hide", "panic"}, lock = None,
         NEW s, GoodVm(s), s.phase \notin {"off", "hide"}, vm' = [vm EXCEPT ![c] = s],
         NEW p \in Frames, NEW perm \in SUBSET Access, swap_page_refused(c, p, perm),
         s.phase = "panic" \/ perm = READ_WRITE_EXECUTE,
         UNCHANGED <<ptMapped, guest_page_mappings, content>>
  PROVE  IndInv'
<1>1. /\ TableTypes' /\ TableInv' /\ KeepsPinned /\ pt' = pt /\ lock' = None
      /\ \A d \in Cpus : d # c => pde'[d] = pde[d]
      /\ \A l \in LargePages : /\ pde'[c][l].large <=> pde[c][l].large
                               /\ pde'[c][l].perm = pde[c][l].perm \/ pde'[c][l].perm = perm
  BY RefusedTables
<1>2. KeepsOpen(c, s)
  BY <1>1 DEF KeepsOpen, IndInv, LargeEntriesOpen
<1>3. Midway(c)'
  BY <1>1, FrameAssumption DEF Midway, Swapping, Enabling
<1>4. \A q \in Frames : ~Readable(q)'
  <2>1. \A q \in Frames : ~Readable(q)
    BY ReadableIsMine, FrameAssumption
  <2> QED BY <1>1, <2>1 DEF Readable
<1> QED BY <1>1, <1>2, <1>3, <1>4, HostStepKeeps

-----------------------------------------------------------------------------
(* Updates of one processor's state                                        *)

\* Leaving a handler, by resuming the guest or by a panic, keeps it good.
LEMMA ResumedGood ==
  ASSUME NEW s, GoodVm(s)
  PROVE  /\ GoodVm(Resumed(s)) /\ Resumed(s).phase = "guest"
         /\ Resumed(s).mtf = s.mtf
         /\ GoodVm(Panicked(s)) /\ Panicked(s).phase = "panic"
<1>1. Resumed(s) \in VmStates /\ Panicked(s) \in VmStates
  BY DEF GoodVm, Resumed, Panicked, VmStates, Phases
<1>2. /\ Resumed(s).phase = "guest" /\ Resumed(s).mtf = s.mtf /\ Resumed(s).rflags = s.rflags
      /\ Resumed(s).mtf_counter = s.mtf_counter /\ Resumed(s).old_rflags = s.old_rflags
  BY DEF GoodVm, Resumed, VmStates
<1>3. /\ Panicked(s).phase = "panic" /\ Panicked(s).mtf = s.mtf /\ Panicked(s).rflags = s.rflags
      /\ Panicked(s).mtf_counter = s.mtf_counter /\ Panicked(s).old_rflags = s.old_rflags
  BY DEF GoodVm, Panicked, Resumed, VmStates
<1> QED BY <1>1, <1>2, <1>3 DEF GoodVm

\* Arming single-stepping prepares it.
LEMMA SingleStepGood ==
  ASSUME NEW s, GoodVm(s), s.phase = "guest", NEW n \in Nat
  PROVE  GoodVm(SingleStep(s, n)) /\ SingleStep(s, n).phase = "guest"
<1>1. SingleStep(s, n) \in VmStates
  BY DEF GoodVm, SingleStep, VmStates
<1>2. /\ SingleStep(s, n).phase = "guest" /\ SingleStep(s, n).rflags = FALSE
      /\ SingleStep(s, n).mtf_counter = n /\ SingleStep(s, n).old_rflags = s.rflags
  BY DEF GoodVm, SingleStep, VmStates
<1>3. s.rflags \in BOOLEAN
  BY DEF GoodVm, VmStates
<1>4. n # None /\ s.rflags # None
  BY <1>3, FrameAssumption
<1> QED BY <1>1, <1>2, <1>4 DEF GoodVm

-----------------------------------------------------------------------------
(* Steps of the guest                                                      *)

\* A violation exit records a frame.
LEMMA ViolationExitInd ==
  ASSUME IndInv, NEW c \in Cpus, NEW p \in Frames, vm[c].phase = "guest", EptViolationExit(c, p),
         UNCHANGED <<pt, ptMapped, guest_page_mappings, content, pde, lock>>
  PROVE  IndInv'
<1> DEFINE s == [vm[c] EXCEPT !.phase = "violation", !.gpa = p,
                              !.qual = Translation(c, p).perm, !.rax = "none"]
<1>1. GoodVm(vm[c]) /\ vm \in [Cpus -> VmStates] /\ tlb \in [Cpus -> [Frames -> Entry]]
  BY VmGood, Unbundle DEF TableTypes
<1>2. Translation(c, p).perm \in SUBSET Access /\ NoEntry \in Entry
  BY TranslationTyped DEF Entry, NoEntry
<1>3. vm' = [vm EXCEPT ![c] = s] /\ tlb' = [tlb EXCEPT ![c][p] = NoEntry]
  BY <1>1 DEF EptViolationExit, VmStates
<1>4. s \in VmStates
  <2>1. vm[c] \in VmStates
    BY <1>1
  <2> QED BY <1>2, <2>1 DEF VmStates, Phases
<1>5. /\ s.phase = "violation" /\ s.gpa = p /\ s.mtf = vm[c].mtf /\ s.rflags = vm[c].rflags
      /\ s.mtf_counter = vm[c].mtf_counter /\ s.old_rflags = vm[c].old_rflags
  BY <1>1 DEF VmStates
<1> HIDE DEF s
<1>6. GoodVm(s)
  BY <1>1, <1>4, <1>5 DEF GoodVm
<1>7. tlb' \in [Cpus -> [Frames -> Entry]]
  BY <1>1, <1>2, <1>3
<1> QED BY <1>3, <1>5, <1>6, <1>7, LockNotMine, QuietStep

\* Caching translations keeps the cache well typed.
LEMMA CacheTyped ==
  ASSUME IndInv, NEW c \in Cpus, NEW data, CacheTranslations(c, data)
  PROVE  tlb' \in [Cpus -> [Frames -> Entry]]
<1>1. tlb \in [Cpus -> [Frames -> Entry]]
  BY Unbundle DEF TableTypes
<1>2. \A p \in Frames : Translation(c, p) \in Entry
  BY TranslationTyped
<1> QED BY <1>1, <1>2 DEF CacheTranslations

\* Every step of the guest preserves the invariant.
LEMMA GuestInd == ASSUME IndInv, NEW c \in Cpus, GuestStep(c) PROVE IndInv'
<1> USE FrameAssumption, CodeAssumption
<1>1. GoodVm(vm[c]) /\ vm \in [Cpus -> VmStates] /\ tlb \in [Cpus -> [Frames -> Entry]]
  BY VmGood, Unbundle DEF TableTypes
<1>0. vm[c] \in VmStates
  BY <1>1
<1>2. vm[c].rip \in Code /\ vm[c].phase \in Phases /\ VmcallInsn \in Instructions
  BY <1>1 DEF VmStates, GoodVm, VmcallInsn, Instructions
<1>3. FetchedInsns(c) \subseteq Instructions
  BY <1>2 DEF FetchedInsns
<1>4. CASE FetchFault(c)
  BY <1>2, <1>4, ViolationExitInd DEF FetchFault, Running
<1>5. CASE DataFault(c)
  <2>1. PICK i \in FetchedInsns(c) : \E a \in i.data : EptViolationExit(c, a[1])
    BY <1>5 DEF DataFault
  <2>2. PICK a \in i.data : EptViolationExit(c, a[1])
    BY <2>1
  <2>3. a[1] \in Frames
    BY <1>3 DEF Instructions
  <2> QED BY <1>5, <2>2, <2>3, ViolationExitInd DEF DataFault, Running
<1>6. CASE Retire(c)
  <2>1. PICK i \in FetchedInsns(c), next \in Code :
          /\ CacheTranslations(c, i.data)
          /\ vm' = [vm EXCEPT ![c].rip = next, ![c].rax = "none",
                              ![c].phase = IF vm[c].mtf THEN "mtf" ELSE "guest"]
    BY <1>6 DEF Retire
  <2> DEFINE ph == IF vm[c].mtf THEN "mtf" ELSE "guest"
             s == [vm[c] EXCEPT !.rip = next, !.rax = "none", !.phase = ph]
  <2>2. vm' = [vm EXCEPT ![c] = s]
    BY <1>1, <2>1 DEF VmStates
  <2>3. s \in VmStates
    <3>1. ph \in Phases
      BY DEF Phases
    <3> HIDE DEF ph
    <3> QED BY <1>0, <3>1 DEF VmStates
  <2>4. /\ s.phase = (IF vm[c].mtf THEN "mtf" ELSE "guest") /\ s.mtf = vm[c].mtf
        /\ s.rflags = vm[c].rflags
        /\ s.mtf_counter = vm[c].mtf_counter /\ s.old_rflags = vm[c].old_rflags
    BY <1>1 DEF VmStates
  <2> HIDE DEF s
  <2>5. GoodVm(s)
    BY <1>1, <2>3, <2>4 DEF GoodVm
  <2> QED BY <1>6, <2>1, <2>2, <2>4, <2>5, CacheTyped, LockNotMine, QuietStep DEF Retire, Running
<1>7. CASE CpuidExit(c)
  <2>1. PICK i \in FetchedInsns(c) :
          /\ i.op \in {"enable", "disable"}
          /\ vm' = [vm EXCEPT ![c].phase = "cpuid", ![c].insn = i.op, ![c].fn = i.fn,
                              ![c].rax = "none"]
    BY <1>7 DEF CpuidExit
  <2> DEFINE s == [vm[c] EXCEPT !.phase = "cpuid", !.insn = i.op, !.fn = i.fn, !.rax = "none"]
  <2>2. vm' = [vm EXCEPT ![c] = s]
    BY <1>1, <2>1 DEF VmStates
  <2>3. s \in VmStates
    BY <1>0, <1>3, <2>1 DEF VmStates, Phases, Instructions
  <2>4. /\ s.phase = "cpuid" /\ s.mtf = vm[c].mtf /\ s.rflags = vm[c].rflags
        /\ s.mtf_counter = vm[c].mtf_counter /\ s.old_rflags = vm[c].old_rflags
    BY <1>1 DEF VmStates
  <2> HIDE DEF s
  <2>5. GoodVm(s)
    BY <1>1, <2>3, <2>4 DEF GoodVm
  <2> QED BY <1>7, <2>2, <2>4, <2>5, CacheTyped, LockNotMine, QuietStep DEF CpuidExit, Running
<1>8. CASE VmcallExit(c)
  <2> DEFINE s == [vm[c] EXCEPT !.phase = "vmcall", !.rax = "none"]
  <2>2. vm' = [vm EXCEPT ![c] = s]
    BY <1>1, <1>8 DEF VmcallExit, VmStates
  <2>3. s \in VmStates
    BY <1>0 DEF VmStates, Phases
  <2>4. /\ s.phase = "vmcall" /\ s.mtf = vm[c].mtf /\ s.rflags = vm[c].rflags
        /\ s.mtf_counter = vm[c].mtf_counter /\ s.old_rflags = vm[c].old_rflags
    BY <1>1 DEF VmStates
  <2> HIDE DEF s
  <2>5. GoodVm(s)
    BY <1>1, <2>3, <2>4 DEF GoodVm
  <2> QED BY <1>8, <2>2, <2>4, <2>5, CacheTyped, LockNotMine, QuietStep DEF VmcallExit, Running
<1>9. CASE DeliverEvent(c)
  <2> DEFINE ph == IF vm[c].mtf THEN "mtf" ELSE "guest"
  <2>1. PICK next \in Code :
          vm' = [vm EXCEPT ![c].event = "none", ![c].rip = next, ![c].phase = ph]
    BY <1>9 DEF DeliverEvent
  <2> DEFINE s == [vm[c] EXCEPT !.event = "none", !.rip = next, !.phase = ph]
  <2>2. vm' = [vm EXCEPT ![c] = s]
    BY <1>1, <2>1 DEF VmStates
  <2>3. s \in VmStates
    <3>1. ph \in Phases
      BY DEF Phases
    <3> HIDE DEF ph
    <3> QED BY <1>0, <3>1 DEF VmStates
  <2>4. /\ s.phase = ph /\ s.mtf = vm[c].mtf /\ s.rflags = vm[c].rflags
        /\ s.mtf_counter = vm[c].mtf_counter /\ s.old_rflags = vm[c].old_rflags
    BY <1>1 DEF VmStates
  <2> HIDE DEF s
  <2>5. GoodVm(s)
    BY <1>1, <2>3, <2>4 DEF GoodVm
  <2> QED BY <1>1, <1>9, <2>2, <2>4, <2>5, LockNotMine, QuietStep DEF DeliverEvent
<1>10. ASSUME NEW p \in Frames, Evict(c, p) PROVE IndInv'
  <2>1. NoEntry \in Entry
    BY DEF NoEntry, Entry
  <2>2. tlb' \in [Cpus -> [Frames -> Entry]]
    BY <1>1, <1>10, <2>1 DEF Evict
  <2>3. vm' = [vm EXCEPT ![c] = vm[c]] /\ vm[c].phase = "guest"
    BY <1>1, <1>10 DEF Evict
  <2> QED BY <1>1, <1>10, <2>2, <2>3, LockNotMine, QuietStep DEF Evict
<1> QED BY <1>4, <1>5, <1>6, <1>7, <1>8, <1>9, <1>10 DEF GuestStep, GuestProgress

-----------------------------------------------------------------------------
(* VM exit handlers                                                        *)

\* A hooked frame is not a hidden one.
LEMMA HookedNotHidden ==
  ASSUME IndInv, NEW p \in Frames, is_guest_page_processed(p)
  PROVE  p \in Frames \ HiddenPages
  BY DEF IndInv, HiddenPagesPinned

\* The first store of swap_page, by a handler that found a hook on its page.
LEMMA StoreStep ==
  ASSUME IndInv, NEW c \in Cpus, vm[c].phase \in {"violation", "vmcall_lock", "mtf_lock"},
         lock = None, is_guest_page_processed(vm[c].gpa), NEW perm \in SUBSET Access,
         modify_page_permissions(c, vm[c].gpa, perm),
         UNCHANGED <<vm, ptMapped, guest_page_mappings, content>>,
         vm[c].phase = "violation" => SwitchToShadow(c) \/ SwitchToGuest(c),
         perm = IF vm[c].phase = "mtf_lock" \/ (vm[c].phase = "violation" /\ SwitchToShadow(c))
                THEN EXECUTE ELSE READ_WRITE_EXECUTE
  PROVE  IndInv'
<1>0. PICK p : p = vm[c].gpa
  OBVIOUS
<1>1. GoodVm(vm[c]) /\ vm' = [vm EXCEPT ![c] = vm[c]] /\ vm' = vm
  BY VmGood, Unbundle
<1>2. p \in Frames \ HiddenPages
  BY <1>0, <1>1, HookedNotHidden DEF GoodVm
<1>3. /\ TableTypes' /\ TableInv' /\ KeepsPinned
      /\ \A q \in Frames : Readable(q)' => q = p /\ perm \cap READ_WRITE # {}
      /\ pt'[p].perm = perm /\ pde' = pde /\ lock' = c
      /\ get_page_table_found(p)' /\ ~is_large_page(c, p)'
  BY <1>0, <1>2, StoreTables
<1>4. KeepsOpen(c, vm[c])
  BY <1>3 DEF KeepsOpen, IndInv, LargeEntriesOpen
<1>5. Reopening(c, p)' <=> perm = READ_WRITE_EXECUTE
  <2>1. EXECUTE # READ_WRITE_EXECUTE
    BY DEF EXECUTE, READ_WRITE_EXECUTE
  <2>2. SwitchToShadow(c)' <=> SwitchToShadow(c)
    BY <1>1 DEF SwitchToShadow
  <2>3. SwitchToGuest(c)' <=> SwitchToGuest(c)
    BY <1>1 DEF SwitchToGuest
  <2>4. ~(SwitchToShadow(c) /\ SwitchToGuest(c))
    BY DEF SwitchToShadow, SwitchToGuest
  <2> QED BY <1>0, <1>1, <1>3, <2>1, <2>2, <2>3, <2>4 DEF Reopening
<1>6. Midway(c)'
  <2>1. Swapping(c)' /\ ~Enabling(c)'
    BY <1>1, <1>3 DEF Swapping, Enabling
  <2>2. is_guest_page_processed(p)'
    BY <1>0 DEF is_guest_page_processed
  <2>3. vm'[c].phase = "violation" => SwitchToShadow(c)' \/ SwitchToGuest(c)'
    BY <1>1 DEF SwitchToShadow, SwitchToGuest
  <2>4. vm'[c].gpa = p /\ vm'[c].phase # "cpuid"
    BY <1>0, <1>1
  <2> QED BY <1>2, <1>3, <1>5, <2>1, <2>2, <2>3, <2>4 DEF Midway
<1>7. \A q \in Frames : Readable(q)' => Reopening(c, q)'
  <2>1. EXECUTE \cap READ_WRITE = {}
    BY DEF EXECUTE, READ_WRITE
  <2> QED BY <1>3, <1>5, <2>1
<1> QED BY <1>1, <1>3, <1>4, <1>6, <1>7, HostStepKeeps

\* The second store of swap_page, by a handler that then ends.
LEMMA RemapStep ==
  ASSUME IndInv, NEW c \in Cpus, vm[c].phase \in {"violation", "vmcall_lock", "mtf_lock"},
         lock = c, NEW h, remap_gpa_to_hpa(c, vm[c].gpa, h),
         UNCHANGED <<ptMapped, guest_page_mappings, content>>,
         h = vm[c].gpa \/ (h = get_shadow_page(vm[c].gpa) /\ ~Reopening(c, vm[c].gpa)),
         NEW s, GoodVm(s), s.phase \notin {"off", "hide"}, vm' = [vm EXCEPT ![c] = s]
  PROVE  IndInv'
<1> DEFINE p == vm[c].gpa
<1>1. /\ p \in Frames \ HiddenPages /\ is_guest_page_processed(p)
      /\ ~Reopening(c, p) => pt[p].perm = EXECUTE
  BY DEF IndInv, HolderInv, Midway, Swapping
<1>2. /\ TableTypes' /\ TableInv' /\ KeepsPinned
      /\ \A q \in Frames : ~Readable(q)'
      /\ pde' = pde /\ lock' = None
  BY <1>1, RemapTables
<1>3. KeepsOpen(c, s)
  BY <1>2 DEF KeepsOpen, IndInv, LargeEntriesOpen
<1>4. Midway(c)'
  BY <1>2, FrameAssumption DEF Midway, Swapping, Enabling
<1> QED BY <1>2, <1>3, <1>4, HostStepKeeps

\* A handler that ends without touching the tables.
LEMMA EndStep ==
  ASSUME IndInv, NEW c \in Cpus, vm[c].phase \notin {"off", "hide", "panic"}, lock = None,
         UNCHANGED <<pt, ptMapped, guest_page_mappings, content, pde, tlb, lock>>,
         NEW s, GoodVm(s), s.phase \notin {"off", "hide"}, vm' = [vm EXCEPT ![c] = s]
  PROVE  IndInv'
<1>1. tlb' \in [Cpus -> [Frames -> Entry]]
  BY DEF IndInv, TypeOK
<1>2. lock # c
  BY FrameAssumption
<1> QED BY <1>1, <1>2, QuietStep

\* handle_ept_violation preserves the invariant.
LEMMA ViolationInd ==
  ASSUME IndInv, NEW c \in Cpus, HandleEptViolation(c) \/ EptViolationSwapped(c)
  PROVE  IndInv'
<1> DEFINE p == vm[c].gpa
           perm == IF SwitchToShadow(c) THEN EXECUTE ELSE READ_WRITE_EXECUTE
<1>1. vm[c].phase = "violation" /\ UNCHANGED <<ptMapped, guest_page_mappings, content>>
  BY DEF HandleEptViolation, EptViolationSwapped
<1>2. GoodVm(vm[c]) /\ p \in Frames
  BY <1>1, VmGood DEF GoodVm
<1>3. /\ GoodVm(Resumed(vm[c])) /\ GoodVm(Panicked(vm[c]))
      /\ GoodVm(SingleStep(Resumed(vm[c]), 1)) /\ SingleStep(Resumed(vm[c]), 1).phase = "guest"
      /\ Resumed(vm[c]).phase = "guest" /\ Panicked(vm[c]).phase = "panic"
  BY <1>2, ResumedGood, SingleStepGood
<1>4. perm \in SUBSET Access
  BY DEF EXECUTE, READ_WRITE_EXECUTE, Access
<1>5. CASE HandleEptViolation(c)
  <2>1. /\ lock = None
        /\ \/ UNCHANGED <<pt, pde, tlb, lock>> /\ vm' = [vm EXCEPT ![c] = Panicked(@)]
           \/ /\ is_guest_page_processed(p) /\ (SwitchToShadow(c) \/ SwitchToGuest(c))
              /\ modify_page_permissions(c, p, perm) /\ UNCHANGED vm
           \/ swap_page_refused(c, p, perm) /\ vm' = [vm EXCEPT ![c] = Panicked(@)]
           \/ UNCHANGED <<pt, pde, tlb, lock>> /\ vm' = [vm EXCEPT ![c] = Resumed(@)]
    BY <1>5 DEF HandleEptViolation
  <2>2. CASE UNCHANGED <<pt, pde, tlb, lock>> /\ vm' = [vm EXCEPT ![c] = Panicked(@)]
    BY <1>1, <1>3, <2>1, <2>2, EndStep
  <2>3. CASE UNCHANGED <<pt, pde, tlb, lock>> /\ vm' = [vm EXCEPT ![c] = Resumed(@)]
    BY <1>1, <1>3, <2>1, <2>3, EndStep
  <2>4. CASE swap_page_refused(c, p, perm) /\ vm' = [vm EXCEPT ![c] = Panicked(@)]
    BY <1>1, <1>2, <1>3, <1>4, <2>1, <2>4, RefusedStep
  <2>5. CASE /\ is_guest_page_processed(p) /\ (SwitchToShadow(c) \/ SwitchToGuest(c))
             /\ modify_page_permissions(c, p, perm) /\ UNCHANGED vm
    BY <1>1, <1>4, <2>1, <2>5, StoreStep
  <2> QED BY <2>1, <2>2, <2>3, <2>4, <2>5
<1>6. CASE EptViolationSwapped(c)
  <2>1. CASE SwitchToShadow(c) /\ remap_gpa_to_hpa(c, p, get_shadow_page(p))
             /\ vm' = [vm EXCEPT ![c] = Resumed(@)]
    <3>1. lock = c /\ ~Reopening(c, p)
      BY <1>1, <1>6, <2>1 DEF EptViolationSwapped, Reopening, SwitchToShadow, SwitchToGuest
    <3> QED BY <1>1, <1>3, <2>1, <3>1, RemapStep
  <2>2. CASE remap_gpa_to_hpa(c, p, p) /\ vm' = [vm EXCEPT ![c] = SingleStep(Resumed(@), 1)]
    BY <1>1, <1>3, <1>6, <2>2, RemapStep DEF EptViolationSwapped
  <2> QED BY <1>6, <2>1, <2>2 DEF EptViolationSwapped
<1> QED BY <1>5, <1>6

\* handle_vmcall, before the lock: the translation is a frame.
LEMMA VmcallTranslateInd == ASSUME IndInv, NEW c \in Cpus, VmcallTranslate(c) PROVE IndInv'
<1> DEFINE p == translate_guest_pa_to_host_pa(c, PageOf[vm[c].rip])
           s == [vm[c] EXCEPT !.phase = "vmcall_lock", !.gpa = p]
<1>1. /\ GoodVm(vm[c]) /\ vm[c] \in VmStates /\ vm \in [Cpus -> VmStates]
      /\ TableTypes /\ vm[c].rip \in Code
  BY VmGood, Unbundle DEF GoodVm, VmStates
<1>2. p \in Frames
  BY <1>1, TranslateCode
<1>3. vm' = [vm EXCEPT ![c] = s] /\ vm[c].phase = "vmcall"
  BY <1>1 DEF VmcallTranslate, pa_from_va_with_current_cr3, VmStates
<1> HIDE DEF p
<1>4. s \in VmStates
  BY <1>1, <1>2 DEF VmStates, Phases
<1>5. /\ s.phase = "vmcall_lock" /\ s.gpa = p /\ s.mtf = vm[c].mtf /\ s.rflags = vm[c].rflags
      /\ s.mtf_counter = vm[c].mtf_counter /\ s.old_rflags = vm[c].old_rflags
  BY <1>1 DEF VmStates
<1> HIDE DEF s
<1>6. GoodVm(s)
  BY <1>1, <1>2, <1>4, <1>5 DEF GoodVm
<1>7. tlb' \in [Cpus -> [Frames -> Entry]]
  BY <1>1 DEF VmcallTranslate, TableTypes
<1> QED BY <1>3, <1>5, <1>6, <1>7, LockNotMine, QuietStep DEF VmcallTranslate

\* handle_vmcall, from the lock on.
LEMMA VmcallInd == ASSUME IndInv, NEW c \in Cpus, HandleVmcall(c) \/ VmcallSwapped(c) PROVE IndInv'
<1> DEFINE p == vm[c].gpa
           ud == [Resumed(vm[c]) EXCEPT !.event = "UD"]
           n == calculate_instruction_count(p, vm[c].rip)
<1>1. vm[c].phase = "vmcall_lock" /\ UNCHANGED <<ptMapped, guest_page_mappings, content>>
  BY DEF HandleVmcall, VmcallSwapped
<1>2. GoodVm(vm[c]) /\ TableTypes /\ vm[c].rip \in Code /\ p \in Frames
  BY <1>1, VmGood, Unbundle DEF GoodVm, VmStates
<1>3. /\ GoodVm(Resumed(vm[c])) /\ Resumed(vm[c]).phase = "guest"
      /\ GoodVm(Panicked(vm[c])) /\ Panicked(vm[c]).phase = "panic"
  BY <1>2, ResumedGood
<1>4. GoodVm(ud) /\ ud.phase = "guest"
  BY <1>3 DEF GoodVm, VmStates
<1>5. READ_WRITE_EXECUTE \in SUBSET Access
  BY DEF READ_WRITE_EXECUTE, Access
<1>6. guest_page_mappings[p].func = vm[c].rip =>
        GoodVm(SingleStep(Resumed(vm[c]), n)) /\ SingleStep(Resumed(vm[c]), n).phase = "guest"
  <2>1. guest_page_mappings[p].func \in Functions \cup {None}
    BY <1>2 DEF TableTypes, Mapping
  <2>2. guest_page_mappings[p].func = vm[c].rip => n \in Nat
    BY <1>2, <2>1, FrameAssumption, CodeAssumption DEF calculate_instruction_count
  <2> QED BY <1>3, <2>2, SingleStepGood
<1> HIDE DEF ud, n
<1>7. CASE HandleVmcall(c)
  <2>1. /\ lock = None
        /\ \/ UNCHANGED <<pt, pde, tlb, lock>> /\ vm' = [vm EXCEPT ![c] = ud]
           \/ swap_page_refused(c, p, READ_WRITE_EXECUTE) /\ vm' = [vm EXCEPT ![c] = Panicked(@)]
           \/ /\ is_guest_page_processed(p) /\ modify_page_permissions(c, p, READ_WRITE_EXECUTE)
              /\ UNCHANGED vm
    BY <1>7 DEF HandleVmcall, ud
  <2>2. CASE UNCHANGED <<pt, pde, tlb, lock>> /\ vm' = [vm EXCEPT ![c] = ud]
    BY <1>1, <1>4, <2>1, <2>2, EndStep
  <2>3. CASE swap_page_refused(c, p, READ_WRITE_EXECUTE) /\ vm' = [vm EXCEPT ![c] = Panicked(@)]
    BY <1>1, <1>2, <1>3, <1>5, <2>1, <2>3, RefusedStep
  <2>4. CASE /\ is_guest_page_processed(p) /\ modify_page_permissions(c, p, READ_WRITE_EXECUTE)
             /\ UNCHANGED vm
    BY <1>1, <1>5, <2>1, <2>4, StoreStep
  <2> QED BY <2>1, <2>2, <2>3, <2>4
<1>8. CASE VmcallSwapped(c)
  <2>1. lock = c /\ remap_gpa_to_hpa(c, p, p)
    BY <1>8 DEF VmcallSwapped
  <2>2. CASE vm' = [vm EXCEPT ![c] = Panicked(@)]
    BY <1>1, <1>3, <2>1, <2>2, RemapStep
  <2>3. CASE /\ guest_page_mappings[p].func = vm[c].rip
             /\ vm' = [vm EXCEPT ![c] = SingleStep(Resumed(@), n)]
    BY <1>1, <1>6, <2>1, <2>3, RemapStep
  <2> QED BY <1>8, <2>2, <2>3 DEF VmcallSwapped, n
<1> QED BY <1>7, <1>8

\* handle_monitor_trap_flag, up to the lock.
LEMMA MtfInd == ASSUME IndInv, NEW c \in Cpus, HandleMtf(c) PROVE IndInv'
<1> DEFINE n == vm[c].mtf_counter
           left == saturating_dec(n)
           p == translate_guest_pa_to_host_pa(c, PageOf[vm[c].rip])
           more == [vm[c] EXCEPT !.phase = "guest", !.mtf_counter = left]
           done == [vm[c] EXCEPT !.phase = "mtf_lock", !.mtf_counter = left, !.mtf = FALSE,
                                 !.gpa = p]
<1>1. /\ vm[c].phase = "mtf"
      /\ \/ vm' = [vm EXCEPT ![c] = Panicked(vm[c])]
         \/ vm' = [vm EXCEPT ![c] = more]
         \/ vm' = [vm EXCEPT ![c] = done]
  BY DEF HandleMtf, pa_from_va_with_current_cr3
<1>2. /\ GoodVm(vm[c]) /\ vm[c] \in VmStates /\ TableTypes /\ vm[c].phase # "off"
      /\ vm[c].rip \in Code /\ n \in Nat \cup {None}
  BY <1>1, VmGood, Unbundle DEF GoodVm, VmStates
<1>3. n \in Nat /\ vm[c].old_rflags # None /\ ~vm[c].rflags
  BY <1>1, <1>2 DEF GoodVm
<1>4. left \in Nat /\ left # None /\ p \in Frames
  BY <1>2, <1>3, TranslateCode, FrameAssumption DEF saturating_dec
<1> HIDE DEF n, left, p
<1>5. GoodVm(more) /\ more.phase = "guest"
  <2>1. more \in VmStates
    BY <1>2, <1>4 DEF VmStates, Phases
  <2>2. /\ more.phase = "guest" /\ more.mtf_counter = left
        /\ more.old_rflags = vm[c].old_rflags /\ more.rflags = vm[c].rflags
    BY <1>2 DEF VmStates
  <2> HIDE DEF more
  <2> QED BY <1>3, <1>4, <2>1, <2>2 DEF GoodVm
<1>6. GoodVm(done) /\ done.phase = "mtf_lock"
  <2>1. done \in VmStates
    BY <1>2, <1>4 DEF VmStates, Phases
  <2>2. /\ done.phase = "mtf_lock" /\ done.mtf_counter = left /\ done.mtf = FALSE /\ done.gpa = p
        /\ done.old_rflags = vm[c].old_rflags /\ done.rflags = vm[c].rflags
    BY <1>2 DEF VmStates
  <2> HIDE DEF done
  <2> QED BY <1>3, <1>4, <2>1, <2>2 DEF GoodVm
<1>7. GoodVm(Panicked(vm[c])) /\ Panicked(vm[c]).phase = "panic"
  BY <1>2, ResumedGood
<1>8. tlb' \in [Cpus -> [Frames -> Entry]]
      /\ UNCHANGED <<pt, ptMapped, guest_page_mappings, content, pde, lock>>
  BY <1>2 DEF HandleMtf, TableTypes
<1>9. lock # c
  BY <1>1, LockNotMine
<1> HIDE DEF more, done
<1> QED BY <1>1, <1>2, <1>5, <1>6, <1>7, <1>8, <1>9, QuietStep

\* handle_monitor_trap_flag, from the lock on.
LEMMA RestoreInd == ASSUME IndInv, NEW c \in Cpus, RestoreHook(c) \/ HookRestored(c) PROVE IndInv'
<1> DEFINE p == vm[c].gpa
           back == [Resumed(vm[c]) EXCEPT !.rflags = vm[c].old_rflags]
<1>1. vm[c].phase = "mtf_lock" /\ UNCHANGED <<ptMapped, guest_page_mappings, content>>
  BY DEF RestoreHook, HookRestored
<1>2. GoodVm(vm[c]) /\ TableTypes /\ vm[c].old_rflags \in BOOLEAN \cup {None}
  BY <1>1, VmGood, Unbundle DEF GoodVm, VmStates
<1>3. p \in Frames /\ vm[c].old_rflags \in BOOLEAN /\ vm[c].mtf = FALSE
  <2>1. p \in Frames /\ vm[c].old_rflags # None /\ ~vm[c].mtf
    BY <1>1, <1>2 DEF GoodVm
  <2>2. vm[c].mtf \in BOOLEAN
    BY <1>2 DEF GoodVm, VmStates
  <2> QED BY <1>2, <2>1, <2>2
<1>4. /\ GoodVm(Resumed(vm[c])) /\ Resumed(vm[c]).phase = "guest" /\ Resumed(vm[c]).mtf = FALSE
      /\ GoodVm(Panicked(vm[c])) /\ Panicked(vm[c]).phase = "panic"
  BY <1>2, <1>3, ResumedGood
<1>5. GoodVm(back) /\ back.phase = "guest"
  <2>1. Resumed(vm[c]) \in VmStates
    BY <1>4 DEF GoodVm
  <2>2. back \in VmStates /\ back.phase = "guest" /\ back.mtf = FALSE
    BY <1>3, <1>4, <2>1 DEF VmStates
  <2> QED BY <2>2 DEF GoodVm
<1>6. EXECUTE \in SUBSET Access
  BY DEF EXECUTE, Access
<1> HIDE DEF back
<1>7. CASE RestoreHook(c)
  <2>1. /\ lock = None
        /\ \/ UNCHANGED <<pt, pde, tlb, lock>> /\ vm' = [vm EXCEPT ![c] = Panicked(@)]
           \/ swap_page_refused(c, p, EXECUTE) /\ vm' = [vm EXCEPT ![c] = Panicked(@)]
           \/ is_guest_page_processed(p) /\ modify_page_permissions(c, p, EXECUTE) /\ UNCHANGED vm
    BY <1>7 DEF RestoreHook
  <2>2. CASE UNCHANGED <<pt, pde, tlb, lock>> /\ vm' = [vm EXCEPT ![c] = Panicked(@)]
    BY <1>1, <1>4, <2>1, <2>2, EndStep
  <2>3. CASE swap_page_refused(c, p, EXECUTE) /\ vm' = [vm EXCEPT ![c] = Panicked(@)]
    BY <1>1, <1>3, <1>4, <1>6, <2>1, <2>3, RefusedStep
  <2>4. CASE is_guest_page_processed(p) /\ modify_page_permissions(c, p, EXECUTE) /\ UNCHANGED vm
    BY <1>1, <1>6, <2>1, <2>4, StoreStep
  <2> QED BY <2>1, <2>2, <2>3, <2>4
<1>8. CASE HookRestored(c)
  <2>1. /\ lock = c /\ remap_gpa_to_hpa(c, p, get_shadow_page(p))
        /\ vm' = [vm EXCEPT ![c] = Panicked(@)] \/ vm' = [vm EXCEPT ![c] = back]
    BY <1>8 DEF HookRestored, restore_guest_interrupt_flag, back
  <2>2. ~Reopening(c, p)
    BY <1>1 DEF Reopening
  <2> QED BY <1>1, <1>4, <1>5, <2>1, <2>2, RemapStep
<1> QED BY <1>7, <1>8

\* A command ends in a good state of its processor.
LEMMA CommandState ==
  ASSUME IndInv, NEW c \in Cpus, NEW status \in {"Success", "Failure"}, CommandDone(c, status)
  PROVE  \E s : GoodVm(s) /\ s.phase = "guest" /\ vm' = [vm EXCEPT ![c] = s]
<1>1. PICK next \in Code :
        vm' = [vm EXCEPT ![c] = [Resumed(vm[c]) EXCEPT !.rax = status, !.rip = next]]
  BY DEF CommandDone
<1> DEFINE s == [Resumed(vm[c]) EXCEPT !.rax = status, !.rip = next]
<1>2. GoodVm(Resumed(vm[c])) /\ Resumed(vm[c]).phase = "guest"
  BY VmGood, ResumedGood
<1>3. Resumed(vm[c]) \in VmStates
  BY <1>2 DEF GoodVm
<1>4. s \in VmStates
  BY <1>3 DEF VmStates
<1>5. /\ s.phase = "guest" /\ s.mtf = Resumed(vm[c]).mtf /\ s.rflags = Resumed(vm[c]).rflags
      /\ s.mtf_counter = Resumed(vm[c]).mtf_counter /\ s.old_rflags = Resumed(vm[c]).old_rflags
  BY <1>2, <1>3 DEF VmStates
<1>6. vm' = [vm EXCEPT ![c] = s]
  BY <1>1
<1> HIDE DEF s
<1>7. GoodVm(s)
  BY <1>2, <1>4, <1>5 DEF GoodVm
<1> QED BY <1>5, <1>6, <1>7

\* A command that reports its status, leaves the tables consistent and releases
\* the lock.
LEMMA CommandInd ==
  ASSUME IndInv, NEW c \in Cpus, vm[c].phase = "cpuid", lock \in {None, c}, lock' = None,
         NEW status \in {"Success", "Failure"}, CommandDone(c, status),
         TableTypes', TableInv', KeepsPinned, pde' = pde, \A q \in Frames : ~Readable(q)'
  PROVE  IndInv'
<1>1. PICK s : GoodVm(s) /\ s.phase = "guest" /\ vm' = [vm EXCEPT ![c] = s]
  BY CommandState
<1>2. KeepsOpen(c, s)
  BY DEF KeepsOpen, IndInv, LargeEntriesOpen
<1>3. Midway(c)'
  BY FrameAssumption DEF Midway, Swapping, Enabling
<1> QED BY <1>1, <1>2, <1>3, HostStepKeeps

\* A command whose function nobody exports.
LEMMA UnresolvedInd == ASSUME IndInv, NEW c \in Cpus, CommandUnresolved(c) PROVE IndInv'
<1>1. PICK s : GoodVm(s) /\ s.phase = "guest" /\ vm' = [vm EXCEPT ![c] = s]
  BY CommandState DEF CommandUnresolved
<1> QED BY <1>1, EndStep DEF CommandUnresolved

\* The frame a command works on, once it is translated.
LEMMA FunctionFrame ==
  ASSUME IndInv, NEW c \in Cpus, vm[c].fn # None
  PROVE  LET p == pa_from_va_with_current_cr3(c, vm[c].fn)
         IN  p \in Frames \ HiddenPages /\ p \notin FreeHeapPages /\ vm[c].fn \in Functions
<1> DEFINE f == vm[c].fn
           p == translate_guest_pa_to_host_pa(c, PageOf[f])
<1>1. f \in Functions /\ f \in Code
  <2>1. f \in Functions \cup {None}
    BY VmGood DEF GoodVm, VmStates
  <2> QED BY <2>1, CodeAssumption
<1>2. /\ p \in Frames \ HiddenPages
      /\ p = PageOf[f] \/ (is_guest_page_processed(PageOf[f]) /\ p = get_shadow_page(PageOf[f]))
  BY <1>1, TranslateCode
<1>3. FreeHeapPages \subseteq HeapPages /\ \A q \in Frames : get_shadow_page(q) \notin FreeHeapPages
  BY DEF FreeHeapPages, get_shadow_page
<1>4. PageOf[f] \in Frames \ HeapPages
  BY <1>1, CodeAssumption
<1> QED BY <1>1, <1>2, <1>3, <1>4 DEF pa_from_va_with_current_cr3

\* A processor notes the frame it works on.
LEMMA NoteFrame ==
  ASSUME IndInv, NEW c \in Cpus, vm[c].phase \in {"cpuid", "hide"}, NEW p \in Frames \cup {None},
         vm' = [vm EXCEPT ![c].gpa = p]
  PROVE  \E s : /\ GoodVm(s) /\ vm' = [vm EXCEPT ![c] = s] /\ vm'[c] = s
                /\ s.phase = vm[c].phase /\ s.gpa = p /\ s.insn = vm[c].insn /\ s.fn = vm[c].fn
<1>0. PICK s : s = [vm[c] EXCEPT !.gpa = p]
  OBVIOUS
<1>1. GoodVm(vm[c]) /\ vm[c] \in VmStates /\ vm \in [Cpus -> VmStates]
  BY VmGood, Unbundle
<1>2. vm' = [vm EXCEPT ![c] = s] /\ vm'[c] = s
  BY <1>0, <1>1
<1>3. s \in VmStates
  BY <1>0, <1>1 DEF VmStates
<1>4. /\ s.phase = vm[c].phase /\ s.gpa = p /\ s.insn = vm[c].insn /\ s.fn = vm[c].fn
      /\ s.mtf = vm[c].mtf /\ s.rflags = vm[c].rflags
      /\ s.mtf_counter = vm[c].mtf_counter /\ s.old_rflags = vm[c].old_rflags
  BY <1>0, <1>1 DEF VmStates
<1>5. GoodVm(s)
  BY <1>1, <1>3, <1>4 DEF GoodVm
<1> QED BY <1>2, <1>4, <1>5

\* ept_unhook_function, to the first store of swap_page.
LEMMA DisableInd == ASSUME IndInv, NEW c \in Cpus, DisableHook(c) PROVE IndInv'
<1>0. PICK p : p = pa_from_va_with_current_cr3(c, vm[c].fn)
  OBVIOUS
<1>1. /\ vm[c].phase = "cpuid" /\ vm[c].insn = "disable" /\ vm[c].fn # None /\ lock = None
      /\ UNCHANGED <<ptMapped, guest_page_mappings, content>>
      /\ \/ swap_page_refused(c, p, READ_WRITE_EXECUTE) /\ CommandDone(c, "Failure")
         \/ modify_page_permissions(c, p, READ_WRITE_EXECUTE) /\ vm' = [vm EXCEPT ![c].gpa = p]
  BY <1>0 DEF DisableHook
<1>2. p \in Frames \ HiddenPages
  BY <1>0, <1>1, FunctionFrame
<1>3. READ_WRITE_EXECUTE \in SUBSET Access
  BY DEF READ_WRITE_EXECUTE, Access
<1>4. CASE swap_page_refused(c, p, READ_WRITE_EXECUTE) /\ CommandDone(c, "Failure")
  <2>1. PICK s : GoodVm(s) /\ s.phase = "guest" /\ vm' = [vm EXCEPT ![c] = s]
    BY <1>4, CommandState
  <2> QED BY <1>1, <1>2, <1>3, <1>4, <2>1, RefusedStep
<1>5. CASE modify_page_permissions(c, p, READ_WRITE_EXECUTE) /\ vm' = [vm EXCEPT ![c].gpa = p]
  <2>1. PICK s : /\ GoodVm(s) /\ vm' = [vm EXCEPT ![c] = s] /\ vm'[c] = s
                 /\ s.phase = "cpuid" /\ s.gpa = p /\ s.insn = "disable"
    <3>1. vm[c].phase \in {"cpuid", "hide"} /\ p \in Frames \cup {None}
      BY <1>1, <1>2
    <3>2. vm' = [vm EXCEPT ![c].gpa = p]
      BY <1>5
    <3>3. \E s : /\ GoodVm(s) /\ vm' = [vm EXCEPT ![c] = s] /\ vm'[c] = s
                 /\ s.phase = vm[c].phase /\ s.gpa = p /\ s.insn = vm[c].insn /\ s.fn = vm[c].fn
      BY ONLY <3>1, <3>2, IndInv, NoteFrame
    <3> QED BY <1>1, <3>3, Zenon
  <2>2. /\ TableTypes' /\ TableInv' /\ KeepsPinned
        /\ \A q \in Frames : Readable(q)' => q = p
        /\ pt'[p].perm = READ_WRITE_EXECUTE /\ pde' = pde /\ lock' = c
        /\ get_page_table_found(p)' /\ ~is_large_page(c, p)'
    BY <1>1, <1>2, <1>3, <1>5, StoreTables
  <2>3. KeepsOpen(c, s)
    BY <1>1, <2>2 DEF KeepsOpen, IndInv, LargeEntriesOpen
  <2>4. Reopening(c, p)' /\ Swapping(c)' /\ ~Enabling(c)'
    BY <2>1, <2>2 DEF Reopening, Swapping, Enabling
  <2>5. Midway(c)'
    BY <1>2, <2>1, <2>2, <2>4 DEF Midway
  <2> QED BY <1>1, <2>1, <2>2, <2>3, <2>4, <2>5, HostStepKeeps
<1> QED BY <1>1, <1>4, <1>5

\* ept_unhook_function, from the second store of swap_page on: the shadow page
\* is given up together with the entry that mapped it.
LEMMA RemovedInd == ASSUME IndInv, NEW c \in Cpus, HookRemoved(c) PROVE IndInv'
<1> DEFINE p == vm[c].gpa
           e == [pt[p] EXCEPT !.hpa = p]
<1> USE FrameAssumption
<1>1. /\ vm[c].phase = "cpuid" /\ vm[c].insn = "disable" /\ lock = c
      /\ lock' = None /\ UNCHANGED <<ptMapped, content, pde>>
      /\ guest_page_mappings' = [guest_page_mappings EXCEPT ![p] = NoMapping]
      /\ tlb' = [tlb EXCEPT ![c] = NoCache] /\ pt' = [pt EXCEPT ![p] = e]
      /\ \E status \in {"Success", "Failure"} : CommandDone(c, status)
  BY DEF HookRemoved, unmap_guest_from_shadow_page, remap_gpa_to_hpa, FlushTlb
<1>2. p \in Frames \ HiddenPages
  BY <1>1 DEF IndInv, HolderInv, Midway, Swapping
<1>3. e \in Entry /\ e.hpa = p
  <2>1. pt[p] \in Entry
    BY <1>2 DEF IndInv, TypeOK
  <2> QED BY <1>2, <2>1 DEF Entry
<1> HIDE DEF p, e
<1>4. NoMapping \in Mapping /\ NoCache \in [Frames -> Entry]
  BY DEF Entry, Mapping, NoMapping, NoCache, NoEntry
<1>5. TableTypes'
  BY <1>1, <1>2, <1>3, <1>4 DEF IndInv, TypeOK, TableTypes
<1>6. \A q \in Frames :
        /\ pt'[q] = IF q = p THEN e ELSE pt[q]
        /\ guest_page_mappings'[q] = IF q = p THEN NoMapping ELSE guest_page_mappings[q]
  BY <1>1, <1>2 DEF IndInv, TypeOK
<1>7. \A q \in Frames : is_guest_page_processed(q)' =>
        is_guest_page_processed(q) /\ q # p /\ get_shadow_page(q)' = get_shadow_page(q)
  BY <1>6 DEF is_guest_page_processed, get_shadow_page, NoMapping
<1>8. TablesPresent' /\ ShadowsFromHeap'
  BY <1>1, <1>7 DEF IndInv, TablesPresent, ShadowsFromHeap
<1>9. ShadowsDistinct'
  BY <1>6, <1>7 DEF IndInv, ShadowsDistinct, is_guest_page_processed, get_shadow_page, NoMapping
<1>10. TablesFilled'
  BY <1>1, <1>2, <1>3, <1>6 DEF IndInv, TablesFilled
<1>11. NoDanglingShadow'
  BY <1>3, <1>6 DEF IndInv, NoDanglingShadow, is_guest_page_processed, get_shadow_page
<1>12. KeepsPinned
  BY <1>1, <1>2, <1>6, <1>7, RangeAssumption
     DEF IndInv, HiddenPagesPinned, KeepsPinned, is_large_page
<1>13. ASSUME NEW q \in Frames, Readable(q)' PROVE FALSE
  <2>1. q # p
    BY <1>3, <1>6, <1>13 DEF Readable
  <2>2. Readable(q)
    BY <1>6, <1>13, <2>1 DEF Readable
  <2>3. Reopening(c, q)
    BY <1>1, <2>2, ReadableIsMine
  <2> QED BY <2>1, <2>3 DEF Reopening, p
<1> QED BY <1>1, <1>5, <1>8, <1>9, <1>10, <1>11, <1>12, <1>13, CommandInd DEF TableInv

\* The page directories after region l has been split.
SplitsRegion(c, l) == pde' = [pde EXCEPT ![c][l] = IF @.large THEN SplitPde ELSE @]

\* What the split of one region does to the tables.  A running processor has
\* split the regions of hidden pages before.
LEMMA SplitTables ==
  ASSUME IndInv, NEW c \in Cpus, NEW l \in LargePages, SplitsRegion(c, l),
         NEW ps, ps = PtAfterSplit(c, l)
  PROVE  /\ pde' \in [Cpus -> [LargePages -> [large : BOOLEAN, perm : SUBSET Access]]]
         /\ \A d \in Cpus, k \in LargePages :
              pde'[d][k].large <=> pde[d][k].large /\ ~(d = c /\ k = l)
         /\ \A d \in Cpus : d # c => pde'[d] = pde[d]
         /\ \A k \in LargePages : pde'[c][k].large => pde'[c][k].perm = pde[c][k].perm
         /\ ps \in [Frames -> Entry]
         /\ \A q \in Frames :
              ps[q] = IF LargeOf[q] = l /\ pde[c][l].large THEN Identity(q) ELSE pt[q]
         /\ \A q \in Frames : ps[q] = pt[q] \/ ps[q].hpa = q
         /\ \A q \in HiddenPages : vm[c].phase \notin {"off", "hide"} => ps[q] = pt[q]
         /\ \A q \in Frames : LargeOf[q] \in ptMapped \cup {l} => ps[q].hpa # None
<1> DEFINE Pde == [large : BOOLEAN, perm : SUBSET Access]
           r == IF pde[c][l].large THEN SplitPde ELSE pde[c][l]
           row == [pde[c] EXCEPT ![l] = r]
<1> USE FrameAssumption
<1>1. pde \in [Cpus -> [LargePages -> Pde]] /\ pt \in [Frames -> Entry]
  BY DEF IndInv, TypeOK
<1>2. SplitPde \in Pde /\ SplitPde.large = FALSE
  BY DEF SplitPde, READ_WRITE_EXECUTE, Access
<1>3. r \in Pde /\ ~r.large
  <2>1. pde[c][l] \in Pde
    BY <1>1
  <2> HIDE DEF Pde
  <2>2. CASE pde[c][l].large
    BY <1>2, <2>2
  <2>3. CASE ~pde[c][l].large
    BY <2>1, <2>3
  <2> QED BY <2>2, <2>3
<1>4. pde' = [pde EXCEPT ![c] = row]
  BY <1>1 DEF SplitsRegion
<1> HIDE DEF r, Pde
<1>5. row \in [LargePages -> Pde] /\ \A k \in LargePages : row[k] = IF k = l THEN r ELSE pde[c][k]
  BY <1>1, <1>3
<1> HIDE DEF row
<1>6. pde' \in [Cpus -> [LargePages -> Pde]] /\ \A d \in Cpus : d # c => pde'[d] = pde[d]
  BY <1>1, <1>4, <1>5
<1>7. /\ \A d \in Cpus, k \in LargePages :
           pde'[d][k].large <=> pde[d][k].large /\ ~(d = c /\ k = l)
      /\ \A k \in LargePages : pde'[c][k].large => pde'[c][k].perm = pde[c][k].perm
  <2>1. \A d \in Cpus, k \in LargePages : pde'[d][k] = IF d = c /\ k = l THEN r ELSE pde[d][k]
    BY <1>1, <1>4, <1>5
  <2> QED BY <1>3, <2>1
<1>8. \A q \in Frames : Identity(q) \in Entry /\ Identity(q).hpa = q
  BY DEF Identity, Entry, READ_WRITE_EXECUTE, Access
<1>9. \A q \in Frames : ps[q] = IF LargeOf[q] = l /\ pde[c][l].large THEN Identity(q) ELSE pt[q]
  BY DEF PtAfterSplit
<1>10. ps \in [Frames -> Entry]
  BY <1>1, <1>8 DEF PtAfterSplit
<1>11. \A q \in Frames : ps[q] = pt[q] \/ ps[q].hpa = q
  BY <1>8, <1>9
<1>12. \A q \in HiddenPages : vm[c].phase \notin {"off", "hide"} => ps[q] = pt[q]
  BY <1>9, RangeAssumption DEF IndInv, HiddenPagesPinned, is_large_page
<1>13. \A q \in Frames : LargeOf[q] \in ptMapped \cup {l} => ps[q].hpa # None
  BY <1>8, <1>9 DEF IndInv, TablesPresent, TablesFilled
<1> QED BY <1>6, <1>7, <1>9, <1>10, <1>11, <1>12, <1>13 DEF Pde

\* A split leaves the tables consistent; it makes no shadow page readable.
LEMMA SplitKeeps ==
  ASSUME IndInv, NEW c \in Cpus, NEW l \in LargePages, SplitsRegion(c, l),
         ptMapped' = ptMapped \cup {l}, UNCHANGED <<guest_page_mappings, content, tlb>>,
         lock \in {None, c}, lock' = c, pt' \in [Frames -> Entry],
         \A q \in Frames : pt'[q].hpa = PtAfterSplit(c, l)[q].hpa
  PROVE  TableTypes' /\ TableInv'
<1> DEFINE ps == PtAfterSplit(c, l)
<1>1. TableTypes /\ TableInv
  BY Unbundle
<1>2. /\ pde' \in [Cpus -> [LargePages -> [large : BOOLEAN, perm : SUBSET Access]]]
      /\ \A d \in Cpus, k \in LargePages :
           pde'[d][k].large <=> pde[d][k].large /\ ~(d = c /\ k = l)
      /\ \A q \in Frames : ps[q] = pt[q] \/ ps[q].hpa = q
      /\ \A q \in Frames : LargeOf[q] \in ptMapped \cup {l} => ps[q].hpa # None
  BY SplitTables
<1>3. \A q \in Frames : pt'[q].hpa = ps[q].hpa
  OBVIOUS
<1> HIDE DEF ps
<1>4. TableTypes'
  BY <1>1, <1>2 DEF TableTypes
<1>5. TablesPresent'
  BY <1>1, <1>2 DEF TableInv, TablesPresent, is_guest_page_processed
<1>6. TablesFilled'
  BY <1>2, <1>3 DEF TablesFilled
<1>7. ShadowsFromHeap' /\ ShadowsDistinct'
  BY <1>1 DEF TableInv, ShadowsFromHeap, ShadowsDistinct, is_guest_page_processed, get_shadow_page
<1>8. NoDanglingShadow'
  <2>1. \A q \in Frames : pt'[q].hpa = pt[q].hpa \/ pt'[q].hpa = q
    BY <1>2, <1>3
  <2> QED BY <1>1, <2>1 DEF TableInv, NoDanglingShadow, is_guest_page_processed, get_shadow_page
<1> QED BY <1>4, <1>5, <1>6, <1>7, <1>8 DEF TableInv

\* ept_hook_function, to the end of the split.
LEMMA EnableInd == ASSUME IndInv, NEW c \in Cpus, EnableHook(c) PROVE IndInv'
<1>0. PICK p : p = pa_from_va_with_current_cr3(c, vm[c].fn)
  OBVIOUS
<1> DEFINE l == LargeOf[p]
<1> USE FrameAssumption
<1>1. /\ vm[c].phase = "cpuid" /\ vm[c].insn = "enable" /\ vm[c].fn # None /\ lock = None
      /\ ptMapped' = ptMapped \cup {l} /\ pt' = PtAfterSplit(c, l) /\ SplitsRegion(c, l)
      /\ lock' = c /\ vm' = [vm EXCEPT ![c].gpa = p]
      /\ UNCHANGED <<guest_page_mappings, content, tlb>>
  BY <1>0 DEF EnableHook, map_large_page_to_pt, SplitsRegion
<1>2. p \in Frames \ HiddenPages /\ p \notin FreeHeapPages
  BY <1>0, <1>1, FunctionFrame
<1>3. l \in LargePages
  BY <1>2
<1>4. PICK s : /\ GoodVm(s) /\ vm' = [vm EXCEPT ![c] = s] /\ vm'[c] = s
               /\ s.phase = "cpuid" /\ s.gpa = p /\ s.insn = "enable" /\ s.fn # None
  <2>1. vm[c].phase \in {"cpuid", "hide"} /\ p \in Frames \cup {None}
    BY <1>1, <1>2
  <2>2. vm' = [vm EXCEPT ![c].gpa = p]
    BY <1>1
  <2>3. \E s : /\ GoodVm(s) /\ vm' = [vm EXCEPT ![c] = s] /\ vm'[c] = s
               /\ s.phase = vm[c].phase /\ s.gpa = p /\ s.insn = vm[c].insn /\ s.fn = vm[c].fn
    BY ONLY <2>1, <2>2, IndInv, NoteFrame
  <2> QED BY <1>1, <2>3, Zenon
<1>5. /\ \A d \in Cpus, k \in LargePages :
           pde'[d][k].large <=> pde[d][k].large /\ ~(d = c /\ k = l)
      /\ \A d \in Cpus : d # c => pde'[d] = pde[d]
      /\ \A k \in LargePages : pde'[c][k].large => pde'[c][k].perm = pde[c][k].perm
      /\ pt' \in [Frames -> Entry]
      /\ \A q \in Frames : pt'[q] = pt[q] \/ pt'[q].hpa = q
      /\ \A q \in HiddenPages : pt'[q] = pt[q]
  <2>1. PICK ps : ps = PtAfterSplit(c, l)
    OBVIOUS
  <2>2. vm[c].phase \notin {"off", "hide"} /\ pt' = ps /\ SplitsRegion(c, l)
    BY <1>1, <2>1
  <2> HIDE DEF l
  <2> QED BY <1>3, <2>1, <2>2, SplitTables
<1>6. TableTypes' /\ TableInv'
  <2> HIDE DEF l
  <2> QED BY <1>1, <1>3, <1>5, SplitKeeps
<1>7. KeepsPinned
  BY <1>1, <1>5, RangeAssumption
     DEF IndInv, HiddenPagesPinned, KeepsPinned, is_guest_page_processed, is_large_page
<1>8. KeepsOpen(c, s)
  BY <1>1, <1>5 DEF KeepsOpen, IndInv, LargeEntriesOpen
<1>9. Midway(c)'
  <2>1. Enabling(c)' /\ ~Swapping(c)'
    BY <1>1, <1>4 DEF Enabling, Swapping
  <2>2. get_page_table_found(p)' /\ ~is_large_page(c, p)'
    BY <1>1, <1>2, <1>3, <1>5 DEF get_page_table_found, is_large_page
  <2>3. p \notin FreeHeapPages'
    BY <1>1, <1>2 DEF FreeHeapPages
  <2> QED BY <1>2, <1>4, <2>1, <2>2, <2>3 DEF Midway
<1>10. \A q \in Frames : ~Readable(q)'
  <2>1. \A q \in Frames : ~Readable(q)
    BY <1>1, ReadableIsMine
  <2> QED BY <1>5, <2>1 DEF Readable
<1> QED BY <1>1, <1>4, <1>6, <1>7, <1>8, <1>9, <1>10, HostStepKeeps

\* ept_hook_function, after the split.  The fresh shadow page is not the page
\* it shadows: that is guest code, or a shadow page in use.
LEMMA InstallInd == ASSUME IndInv, NEW c \in Cpus, InstallHook(c) PROVE IndInv'
<1> DEFINE f == vm[c].fn
           p == vm[c].gpa
           skipped == /\ CommandDone(c, "Success") /\ lock' = None
                      /\ UNCHANGED <<pt, guest_page_mappings, content, tlb>>
           hooked == /\ ~is_guest_page_processed(p)
                     /\ \E s \in FreeHeapPages :
                          /\ guest_page_mappings' =
                               [guest_page_mappings EXCEPT ![p] = [shadow |-> s, func |-> f]]
                          /\ content' =
                               [content EXCEPT ![s] = [page |-> content[p].page,
                                                       detours |-> content[p].detours \cup {f}]]
                     /\ pt' = [pt EXCEPT ![p].perm = READ_WRITE]
                     /\ tlb' = [tlb EXCEPT ![c] = NoCache]
                     /\ CommandDone(c, "Success") /\ lock' = None
           failed == /\ vm' = [vm EXCEPT ![c] = Panicked(vm[c])]
                     /\ UNCHANGED <<pt, guest_page_mappings, content, tlb, lock>>
<1> USE FrameAssumption
<1>1. /\ vm[c].phase = "cpuid" /\ vm[c].insn = "enable" /\ lock = c
      /\ UNCHANGED <<ptMapped, pde>>
      /\ skipped \/ hooked \/ failed
  BY DEF InstallHook, FlushTlb
<1>2. /\ p \in Frames \ HiddenPages /\ get_page_table_found(p)
      /\ f # None /\ p \notin FreeHeapPages
  BY <1>1 DEF IndInv, HolderInv, Midway, Enabling
<1>3. f \in Functions
  BY <1>2, VmGood DEF GoodVm, VmStates
<1>4. TableTypes /\ TableInv
  BY Unbundle
<1>5. \A q \in Frames : ~Readable(q)
  <2>1. ASSUME NEW q \in Frames, Readable(q) PROVE FALSE
    <3>1. Reopening(c, q)
      BY <1>1, <2>1, ReadableIsMine
    <3> QED BY <1>1, <3>1 DEF Reopening
  <2> QED BY <2>1
<1> HIDE DEF f, p
<1>6. CASE UNCHANGED <<pt, guest_page_mappings, content, tlb>> /\ lock' \in {None, c}
  <2>1. TableTypes' /\ TableInv' /\ KeepsPinned
    BY <1>1, <1>4, <1>6, SameTables DEF TableTypes
  <2>2. \A q \in Frames : ~Readable(q)'
    BY <1>5, <1>6 DEF Readable
  <2>3. CASE CommandDone(c, "Success") /\ lock' = None
    BY <1>1, <2>1, <2>2, <2>3, CommandInd
  <2>4. CASE vm' = [vm EXCEPT ![c] = Panicked(vm[c])] /\ lock' = c
    <3>1. GoodVm(Panicked(vm[c])) /\ Panicked(vm[c]).phase = "panic"
      BY VmGood, ResumedGood
    <3>2. vm'[c] = Panicked(vm[c])
      BY <2>4, Unbundle
    <3>3. Midway(c)'
      BY <3>1, <3>2 DEF Midway, Swapping, Enabling
    <3>4. KeepsOpen(c, Panicked(vm[c]))
      BY <1>1, <3>1 DEF KeepsOpen
    <3> QED BY <1>1, <2>1, <2>2, <2>4, <3>1, <3>3, <3>4, HostStepKeeps
  <2> QED BY <1>1, <1>6, <2>3, <2>4
<1>7. CASE hooked
  <2>1. PICK s \in FreeHeapPages :
          /\ guest_page_mappings' = [guest_page_mappings EXCEPT ![p] = [shadow |-> s, func |-> f]]
          /\ content' = [content EXCEPT ![s] = [page |-> content[p].page,
                                                detours |-> content[p].detours \cup {f}]]
    BY <1>7
  <2>2. /\ \A q \in Frames : get_shadow_page(q) \notin FreeHeapPages
        /\ s \in HeapPages /\ s \in Frames /\ s # p /\ s # None
    BY <1>2 DEF FreeHeapPages, get_shadow_page
  <2> DEFINE e == [pt[p] EXCEPT !.perm = READ_WRITE]
  <2>3. /\ pt' = [pt EXCEPT ![p] = e] /\ tlb' = [tlb EXCEPT ![c] = NoCache]
        /\ CommandDone(c, "Success") /\ lock' = None /\ ~is_guest_page_processed(p)
    BY <1>7
  <2>4. pt[p] \in Entry /\ pt[p].hpa = p
    <3>1. pt[p].hpa \in {None, p}
      BY <1>2, <1>4, <2>3 DEF TableInv, NoDanglingShadow
    <3> QED BY <1>2, <1>4, <3>1 DEF TableInv, TablesFilled, TableTypes, get_page_table_found
  <2>5. e \in Entry /\ e.hpa = p
    BY <2>4 DEF Entry, READ_WRITE, Access
  <2> HIDE DEF e
  <2>6. /\ pt' \in [Frames -> Entry]
        /\ \A q \in Frames : pt'[q].hpa = pt[q].hpa
        /\ \A q \in Frames : q # p => pt'[q] = pt[q]
        /\ pt'[p].hpa = p
    BY <1>2, <1>4, <2>3, <2>4, <2>5 DEF TableTypes
  <2>7. TableTypes'
    <3>1. content[p].page \in Frames /\ content[p].detours \cup {f} \in SUBSET Functions
      BY <1>2, <1>3, <1>4 DEF TableTypes
    <3>2. content' \in [Frames -> [page : Frames, detours : SUBSET Functions]]
      BY <1>4, <2>1, <3>1 DEF TableTypes
    <3>3. guest_page_mappings' \in [Frames -> Mapping]
      BY <1>3, <1>4, <2>1, <2>2 DEF TableTypes, Mapping
    <3>4. tlb' \in [Cpus -> [Frames -> Entry]]
      BY <1>4, <2>3 DEF TableTypes, NoCache, NoEntry, Entry
    <3> QED BY <1>1, <1>4, <2>3, <2>6, <3>2, <3>3, <3>4 DEF TableTypes
  <2>8. \A q \in Frames :
          get_shadow_page(q)' = IF q = p THEN s ELSE get_shadow_page(q)
    BY <1>4, <2>1 DEF TableTypes, get_shadow_page
  <2>9. TablesPresent'
    <3>1. \A q \in Frames : is_guest_page_processed(q)' => q = p \/ is_guest_page_processed(q)
      BY <2>8 DEF is_guest_page_processed, get_shadow_page
    <3> QED BY <1>1, <1>2, <1>4, <3>1 DEF TableInv, TablesPresent, get_page_table_found
  <2>10. TablesFilled'
    BY <1>1, <1>4, <2>6 DEF TableInv, TablesFilled
  <2>11. ShadowsFromHeap' /\ ShadowsDistinct'
    BY <1>4, <2>2, <2>8
       DEF TableInv, ShadowsFromHeap, ShadowsDistinct, is_guest_page_processed, get_shadow_page
  <2>12. NoDanglingShadow'
    BY <1>4, <2>6, <2>8
       DEF TableInv, NoDanglingShadow, is_guest_page_processed, get_shadow_page
  <2>13. KeepsPinned
    <3>1. \A q \in HiddenPages : q # p /\ q \in Frames
      BY <1>2, RangeAssumption
    <3>2. \A q \in HiddenPages : ~is_guest_page_processed(q)'
      BY <2>8, <3>1 DEF IndInv, HiddenPagesPinned, is_guest_page_processed, get_shadow_page
    <3> QED BY <1>1, <2>6, <3>1, <3>2 DEF KeepsPinned, is_large_page
  <2>14. \A q \in Frames : ~Readable(q)'
    BY <1>5, <2>6 DEF Readable
  <2> QED BY <1>1, <2>3, <2>7, <2>9, <2>10, <2>11, <2>12, <2>13, <2>14, CommandInd DEF TableInv
<1> QED BY <1>1, <1>6, <1>7

-----------------------------------------------------------------------------
(* Launch                                                                  *)

\* What a step of a launching processor makes of its own state.
LEMMA NotePhase ==
  ASSUME IndInv, NEW c \in Cpus, vm[c].phase \in {"off", "hide"}, NEW ph \in {"hide", "guest"},
         vm' = [vm EXCEPT ![c].phase = ph]
  PROVE  \E s : /\ GoodVm(s) /\ vm' = [vm EXCEPT ![c] = s] /\ vm'[c] = s
                /\ s.phase = ph /\ s.gpa = vm[c].gpa
<1>0. PICK s : s = [vm[c] EXCEPT !.phase = ph]
  OBVIOUS
<1>1. GoodVm(vm[c]) /\ vm[c] \in VmStates /\ vm \in [Cpus -> VmStates]
  BY VmGood, Unbundle
<1>2. vm' = [vm EXCEPT ![c] = s] /\ vm'[c] = s
  BY <1>0, <1>1
<1>3. s \in VmStates
  BY <1>0, <1>1 DEF VmStates, Phases
<1>4. /\ s.phase = ph /\ s.gpa = vm[c].gpa /\ s.mtf = vm[c].mtf /\ s.rflags = vm[c].rflags
      /\ s.mtf_counter = vm[c].mtf_counter /\ s.old_rflags = vm[c].old_rflags
  BY <1>0, <1>1 DEF VmStates
<1>5. GoodVm(s)
  BY <1>1, <1>3, <1>4 DEF GoodVm
<1> QED BY <1>2, <1>4, <1>5

\* A launching processor that holds the lock keeps no shadow page readable.
LEMMA LaunchUnreadable ==
  ASSUME IndInv, NEW c \in Cpus, vm[c].phase \in {"off", "hide"}, lock \in {None, c}
  PROVE  \A q \in Frames : ~Readable(q)
<1> SUFFICES ASSUME NEW q \in Frames, Readable(q) PROVE FALSE
  OBVIOUS
<1>1. Reopening(c, q)
  BY ReadableIsMine
<1> QED BY <1>1 DEF Reopening

\* hide_hypervisor_memory on a processor that starts: the hidden pages it
\* pins stay pinned for those that run already, but for the region it has
\* just split.
LEMMA LaunchInd == ASSUME IndInv, NEW c \in Cpus, LaunchStep(c) PROVE IndInv'
<1> DEFINE g == vm[c].gpa
<1> USE FrameAssumption, RangeAssumption
<1>1. /\ vm[c] \in VmStates /\ vm \in [Cpus -> VmStates] /\ TableTypes /\ TableInv
      /\ vm[c].phase = "off" => g = None
      /\ vm[c].phase = "hide" => lock = c /\ (g # None => g \in HiddenPages /\ ~is_large_page(c, g))
  BY VmGood, Unbundle DEF GoodVm, IndInv, LaunchInv
<1>2. ASSUME NEW s, vm' = [vm EXCEPT ![c] = s]
      PROVE  vm'[c] = s /\ \A d \in Cpus : d # c => vm'[d] = vm[d]
  BY <1>1, <1>2
<1>3. CASE Launch(c)
  <2>1. /\ vm[c].phase = "off" /\ lock = None /\ lock' = c
        /\ UNCHANGED <<pt, ptMapped, guest_page_mappings, content, pde, tlb>>
    BY <1>3 DEF Launch
  <2>2. PICK s : /\ GoodVm(s) /\ vm' = [vm EXCEPT ![c] = s] /\ vm'[c] = s
                 /\ s.phase = "hide" /\ s.gpa = g
    BY <1>3, NotePhase DEF Launch
  <2>3. GoodVm(s) /\ s.phase = "hide" /\ s.gpa = g
    BY <2>2
  <2>4. vm'[c] = s /\ \A d \in Cpus : d # c => vm'[d] = vm[d]
    BY <1>2, <2>2
  <2>5. TableTypes' /\ TableInv'
    BY <1>1, <2>1, SameTables DEF TableTypes
  <2>6. HiddenPagesPinned'
    <3>1. \A e \in Cpus, p \in HiddenPages : Resplitting(e, p) => Resplitting(e, p)'
      BY <2>1, <2>4 DEF Resplitting, is_large_page
    <3>2. \A d \in Cpus : vm'[d].phase \notin {"off", "hide"} => vm[d].phase \notin {"off", "hide"}
      BY <2>3, <2>4
    <3> QED BY <2>1, <3>1, <3>2 DEF IndInv, HiddenPagesPinned, is_guest_page_processed, is_large_page
  <2>7. KeepsOpen(c, s)
    BY <2>1 DEF KeepsOpen, IndInv, LargeEntriesOpen
  <2>8. Midway(c)'
    BY <2>3, <2>4 DEF Midway, Swapping, Enabling
  <2>9. \A q \in Frames : ~Readable(q)'
    BY <2>1, LaunchUnreadable DEF Readable
  <2> QED BY <1>1, <2>1, <2>2, <2>3, <2>5, <2>6, <2>7, <2>8, <2>9, Assemble
<1>4. CASE HideSplit(c)
  <2>1. /\ vm[c].phase = "hide" /\ lock = c /\ lock' = c
        /\ UNCHANGED <<guest_page_mappings, content, tlb>>
    BY <1>1, <1>4 DEF HideSplit
  <2>2. PICK p \in PagesToHide(c) :
          /\ ptMapped' = ptMapped \cup {LargeOf[p]}
          /\ pt' = [PtAfterSplit(c, LargeOf[p]) EXCEPT ![p].perm = READ_WRITE_EXECUTE]
          /\ SplitsRegion(c, LargeOf[p])
          /\ vm' = [vm EXCEPT ![c].gpa = p]
    BY <1>4 DEF HideSplit, map_large_page_to_pt, SplitsRegion
  <2> DEFINE l == LargeOf[p]
             ps == PtAfterSplit(c, l)
             e == [ps[p] EXCEPT !.perm = READ_WRITE_EXECUTE]
  <2>3. p \in HiddenPages /\ p \in Frames /\ l \in LargePages
    BY DEF PagesToHide
  <2>4. PICK s : /\ GoodVm(s) /\ vm' = [vm EXCEPT ![c] = s] /\ vm'[c] = s
                 /\ s.phase = "hide" /\ s.gpa = p
    <3>1. vm[c].phase \in {"cpuid", "hide"} /\ p \in Frames \cup {None}
      BY <2>1, <2>3
    <3>2. vm' = [vm EXCEPT ![c].gpa = p]
      BY <2>2
    <3>3. \E s : /\ GoodVm(s) /\ vm' = [vm EXCEPT ![c] = s] /\ vm'[c] = s
                 /\ s.phase = vm[c].phase /\ s.gpa = p /\ s.insn = vm[c].insn /\ s.fn = vm[c].fn
      BY ONLY <3>1, <3>2, IndInv, NoteFrame
    <3> QED BY <2>1, <3>3, Zenon
  <2>5. GoodVm(s) /\ s.phase = "hide" /\ s.gpa = p
    BY <2>4
  <2>6. vm'[c] = s /\ \A d \in Cpus : d # c => vm'[d] = vm[d]
    BY <1>2, <2>4
  <2>7. /\ \A d \in Cpus, k \in LargePages :
             pde'[d][k].large <=> pde[d][k].large /\ ~(d = c /\ k = l)
        /\ \A d \in Cpus : d # c => pde'[d] = pde[d]
        /\ \A k \in LargePages : pde'[c][k].large => pde'[c][k].perm = pde[c][k].perm
        /\ ps \in [Frames -> Entry]
        /\ \A q \in Frames :
             ps[q] = IF LargeOf[q] = l /\ pde[c][l].large THEN Identity(q) ELSE pt[q]
        /\ \A q \in Frames : ps[q] = pt[q] \/ ps[q].hpa = q
    <3> HIDE DEF l
    <3> QED BY <2>2, <2>3, SplitTables DEF l
  <2>8. e \in Entry /\ e.hpa = ps[p].hpa
    <3>1. ps[p] \in Entry
      BY <2>3, <2>7
    <3> QED BY <3>1 DEF Entry, READ_WRITE_EXECUTE, Access
  <2>9. pt' = [ps EXCEPT ![p] = e]
    BY <2>2
  <2> HIDE DEF l, ps, e
  <2>10. /\ pt' \in [Frames -> Entry]
         /\ \A q \in Frames : pt'[q].hpa = ps[q].hpa
         /\ \A q \in Frames : q # p => pt'[q] = ps[q]
    BY <2>3, <2>7, <2>8, <2>9
  <2>11. TableTypes' /\ TableInv'
    <3>1. SplitsRegion(c, l) /\ ptMapped' = ptMapped \cup {l}
      BY <2>2 DEF l
    <3>2. \A q \in Frames : pt'[q].hpa = PtAfterSplit(c, l)[q].hpa
      BY <2>10 DEF ps
    <3> QED BY <2>1, <2>3, <2>10, <3>1, <3>2, SplitKeeps
  <2>12. HiddenPagesPinned'
    <3> SUFFICES ASSUME NEW q \in HiddenPages
                 PROVE  /\ ~is_guest_page_processed(q)'
                        /\ \A d \in Cpus :
                             vm'[d].phase \notin {"off", "hide"} =>
                               /\ ~is_large_page(d, q)'
                               /\ pt'[q].hpa = DummyPage \/ \E z \in Cpus : Resplitting(z, q)'
      BY DEF HiddenPagesPinned
    <3>1. ~is_guest_page_processed(q)' /\ q \in Frames /\ LargeOf[q] \in LargePages
      BY <2>1 DEF IndInv, HiddenPagesPinned, is_guest_page_processed
    <3> SUFFICES ASSUME NEW d \in Cpus, vm'[d].phase \notin {"off", "hide"}
                 PROVE  /\ ~is_large_page(d, q)'
                        /\ pt'[q].hpa = DummyPage \/ \E z \in Cpus : Resplitting(z, q)'
      BY <3>1
    <3>2. /\ ~is_large_page(d, q)
          /\ pt[q].hpa = DummyPage \/ \E z \in Cpus : Resplitting(z, q)
      BY <2>5, <2>6 DEF IndInv, HiddenPagesPinned
    <3>3. ~is_large_page(d, q)'
      BY <2>7, <3>1, <3>2 DEF is_large_page
    <3>4. ASSUME NEW z \in Cpus, Resplitting(z, q) PROVE Resplitting(z, q)'
      BY <2>5, <2>6, <2>7, <3>1, <3>4 DEF Resplitting, is_large_page
    <3>5. CASE LargeOf[q] = l
      BY <2>3, <2>5, <2>6, <2>7, <3>3, <3>5 DEF Resplitting, is_large_page
    <3>6. CASE LargeOf[q] # l
      <4>1. pt'[q].hpa = pt[q].hpa
        BY <2>7, <2>10, <3>1, <3>6
      <4> QED BY <3>2, <3>3, <3>4, <4>1
    <3> QED BY <3>5, <3>6
  <2>13. KeepsOpen(c, s)
    BY <2>1, <2>7 DEF KeepsOpen, IndInv, LargeEntriesOpen
  <2>14. Midway(c)'
    BY <2>5, <2>6 DEF Midway, Swapping, Enabling
  <2>15. ASSUME NEW q \in Frames, Readable(q)' PROVE FALSE
    <3>1. ~Readable(q)
      BY <2>1, LaunchUnreadable
    <3>2. q # p => pt'[q] = pt[q]
      BY <2>7, <2>10, <2>15 DEF Readable
    <3>3. q # p
      <4>1. pt[p].hpa \in {None, p, DummyPage} /\ pt'[p].hpa \in {None, p, DummyPage}
        BY <2>3, <2>7, <2>10 DEF IndInv, NoDanglingShadow, HiddenPagesPinned
      <4> QED BY <2>15, <4>1 DEF Readable
    <3> QED BY <2>15, <3>1, <3>2, <3>3 DEF Readable
  <2>16. ~pde'[c][LargeOf[s.gpa]].large
    BY <2>3, <2>5, <2>7 DEF l
  <2> QED BY <2>1, <2>3, <2>4, <2>5, <2>11, <2>12, <2>13, <2>14, <2>15, <2>16, Assemble
<1>5. CASE HideFrame(c)
  <2> DEFINE e == [pt[g] EXCEPT !.hpa = DummyPage]
  <2>1. /\ vm[c].phase = "hide" /\ lock = c /\ lock' = c /\ g # None
        /\ tlb' = [tlb EXCEPT ![c] = NoCache]
        /\ UNCHANGED <<ptMapped, guest_page_mappings, content, pde>>
        /\ pt' = [pt EXCEPT ![g] = e]
    BY <1>1, <1>5 DEF HideFrame, FlushTlb
  <2>2. g \in HiddenPages /\ g \in Frames
    BY <1>1, <2>1
  <2>3. PICK s : /\ GoodVm(s) /\ vm' = [vm EXCEPT ![c] = s] /\ vm'[c] = s
                 /\ s.phase = "hide" /\ s.gpa = None
    <3>1. vm[c].phase \in {"cpuid", "hide"} /\ None \in Frames \cup {None}
      BY <2>1
    <3>2. vm' = [vm EXCEPT ![c].gpa = None]
      BY <1>5 DEF HideFrame
    <3>3. \E s : /\ GoodVm(s) /\ vm' = [vm EXCEPT ![c] = s] /\ vm'[c] = s
                 /\ s.phase = vm[c].phase /\ s.gpa = None /\ s.insn = vm[c].insn /\ s.fn = vm[c].fn
      BY ONLY <3>1, <3>2, IndInv, NoteFrame
    <3> QED BY <2>1, <3>3, Zenon
  <2>4. GoodVm(s) /\ s.phase = "hide" /\ s.gpa = None
    BY <2>3
  <2>5. vm'[c] = s /\ \A d \in Cpus : d # c => vm'[d] = vm[d]
    BY <1>2, <2>3
  <2>6. e \in Entry /\ e.hpa = DummyPage
    <3>1. pt[g] \in Entry
      BY <1>1, <2>2 DEF TableTypes
    <3> QED BY <3>1 DEF Entry
  <2> HIDE DEF e, g
  <2>7. \A q \in Frames : pt'[q] = IF q = g THEN e ELSE pt[q]
    BY <1>1, <2>1 DEF TableTypes
  <2>8. TableTypes'
    <3>1. NoCache \in [Frames -> Entry]
      BY DEF NoCache, NoEntry, Entry
    <3> QED BY <1>1, <2>1, <2>6, <3>1 DEF TableTypes
  <2>9. TableInv'
    <3>1. TablesPresent' /\ ShadowsFromHeap' /\ ShadowsDistinct'
      BY <1>1, <2>1 DEF TableInv, TablesPresent, ShadowsFromHeap, ShadowsDistinct,
                        is_guest_page_processed, get_shadow_page
    <3>2. TablesFilled'
      BY <1>1, <2>1, <2>6, <2>7 DEF TableInv, TablesFilled
    <3>3. NoDanglingShadow'
      BY <1>1, <2>1, <2>2, <2>6, <2>7
         DEF TableInv, NoDanglingShadow, is_guest_page_processed, get_shadow_page
    <3> QED BY <3>1, <3>2, <3>3 DEF TableInv
  <2>10. HiddenPagesPinned'
    <3>1. \A z \in Cpus, p \in HiddenPages : Resplitting(z, p) => Resplitting(z, p)'
      BY <2>1, <2>4, <2>5 DEF Resplitting, is_large_page
    <3>2. \A d \in Cpus : vm'[d].phase \notin {"off", "hide"} => vm[d].phase \notin {"off", "hide"}
      BY <2>4, <2>5
    <3>3. \A p \in HiddenPages : pt'[p].hpa = DummyPage \/ pt'[p].hpa = pt[p].hpa
      BY <2>6, <2>7
    <3> QED BY <2>1, <3>1, <3>2, <3>3
            DEF IndInv, HiddenPagesPinned, is_guest_page_processed, is_large_page
  <2>11. KeepsOpen(c, s)
    BY <2>1 DEF KeepsOpen, IndInv, LargeEntriesOpen
  <2>12. Midway(c)'
    BY <2>4, <2>5 DEF Midway, Swapping, Enabling
  <2>13. \A q \in Frames : ~Readable(q)'
    BY <2>1, <2>6, <2>7, LaunchUnreadable DEF Readable
  <2> QED BY <2>1, <2>3, <2>4, <2>8, <2>9, <2>10, <2>11, <2>12, <2>13, Assemble
<1>6. CASE EnterGuest(c)
  <2>1. /\ vm[c].phase = "hide" /\ lock = c /\ lock' = None /\ PagesToHide(c) = {}
        /\ UNCHANGED <<pt, ptMapped, guest_page_mappings, content, pde, tlb>>
    BY <1>1, <1>6 DEF EnterGuest
  <2>2. PICK s : GoodVm(s) /\ vm' = [vm EXCEPT ![c] = s] /\ vm'[c] = s /\ s.phase = "guest"
    BY <1>6, NotePhase DEF EnterGuest
  <2>3. GoodVm(s) /\ s.phase = "guest"
    BY <2>2
  <2>4. vm'[c] = s /\ \A d \in Cpus : d # c => vm'[d] = vm[d]
    BY <1>2, <2>2
  <2>5. TableTypes' /\ TableInv'
    BY <1>1, <2>1, SameTables DEF TableTypes
  <2>6. HiddenPagesPinned'
    <3>1. \A p \in HiddenPages : ~is_large_page(c, p)' /\ pt'[p].hpa = DummyPage
      BY <2>1 DEF PagesToHide, is_large_page
    <3> QED BY <2>1, <2>4, <3>1
            DEF IndInv, HiddenPagesPinned, is_guest_page_processed, is_large_page
  <2>7. KeepsOpen(c, s)
    BY <2>1 DEF KeepsOpen, IndInv, LargeEntriesOpen
  <2>8. Midway(c)'
    BY <2>1 DEF Midway, Swapping, Enabling
  <2>9. \A q \in Frames : ~Readable(q)'
    BY <2>1, LaunchUnreadable DEF Readable
  <2> QED BY <2>1, <2>2, <2>3, <2>5, <2>6, <2>7, <2>8, <2>9, Assemble
<1> QED BY <1>3, <1>4, <1>5, <1>6 DEF LaunchStep

-----------------------------------------------------------------------------
(* The theorems                                                            *)

\* IndInv is inductive: every launch, guest step and handler preserves it.
LEMMA NextInd == IndInv /\ [Next]_vars => IndInv'
<1> SUFFICES ASSUME IndInv, [Next]_vars PROVE IndInv'
  OBVIOUS
<1>1. CASE UNCHANGED vars
  <2>1. TypeOK' /\ TablesPresent' /\ TablesFilled' /\ ShadowsFromHeap' /\ ShadowsDistinct'
        /\ NoDanglingShadow'
    BY <1>1 DEF vars, IndInv, TypeOK, TablesPresent, TablesFilled, ShadowsFromHeap,
                ShadowsDistinct, NoDanglingShadow, is_guest_page_processed, get_shadow_page
  <2>2. ExitHasFrame' /\ FlagClearedFirst' /\ SteppingIsPrepared' /\ LargeEntriesOpen' /\ LaunchInv'
    BY <1>1 DEF vars, IndInv, ExitHasFrame, FlagClearedFirst, SteppingIsPrepared,
                LargeEntriesOpen, LaunchInv, is_large_page
  <2>3. HiddenPagesPinned'
    BY <1>1 DEF vars, IndInv, HiddenPagesPinned, Resplitting, is_guest_page_processed, is_large_page
  <2>4. ShadowExecuteOnly'
    BY <1>1 DEF vars, IndInv, ShadowExecuteOnly, Reopening, SwitchToGuest
  <2>5. HolderInv'
    BY <1>1 DEF vars, IndInv, HolderInv, Midway, Swapping, Enabling, Reopening, SwitchToShadow,
                SwitchToGuest, get_page_table_found, is_large_page, is_guest_page_processed,
                FreeHeapPages
  <2> QED BY <2>1, <2>2, <2>3, <2>4, <2>5 DEF IndInv
<1>2. ASSUME NEW c \in Cpus, LaunchStep(c) PROVE IndInv'
  BY <1>2, LaunchInd
<1>3. ASSUME NEW c \in Cpus, GuestStep(c) PROVE IndInv'
  BY <1>3, GuestInd
<1>4. ASSUME NEW c \in Cpus, HostStep(c) PROVE IndInv'
  BY <1>4, ViolationInd, VmcallTranslateInd, VmcallInd, MtfInd, RestoreInd, UnresolvedInd,
     EnableInd, InstallInd, DisableInd, RemovedInd DEF HostStep
<1> QED BY <1>1, <1>2, <1>3, <1>4 DEF Next

\* The inductive invariant holds throughout every behaviour of the hook
\* engine.
THEOREM HookEngineInvariant == Spec => []IndInv
  BY InitInd, NextInd, PTL DEF Spec

\* The variables keep their types.
THEOREM HookEngineTypeOK == Spec => []TypeOK
<1>1. IndInv => TypeOK
  BY DEF IndInv
<1> QED BY <1>1, HookEngineInvariant, PTL

\* ept_unhook_function never leaves an entry that maps a released shadow
\* page, whatever the other processors are doing.
THEOREM NoShadowDangles == Spec => []NoDanglingShadow
<1>1. IndInv => NoDanglingShadow
  BY DEF IndInv
<1> QED BY <1>1, HookEngineInvariant, PTL

\* A page table lets the guest read or write a shadow page only between the two
\* stores of the swap_page that takes that page back to its original.
THEOREM ShadowsUnreadable == Spec => []ShadowExecuteOnly
<1>1. IndInv => ShadowExecuteOnly
  BY DEF IndInv
<1> QED BY <1>1, HookEngineInvariant, PTL

\* No two hooked pages share a shadow page.
THEOREM ShadowsUnshared == Spec => []ShadowsDistinct
<1>1. IndInv => ShadowsDistinct
  BY DEF IndInv
<1> QED BY <1>1, HookEngineInvariant, PTL

\* The page table a handler looks up is there.
THEOREM TablesAlwaysPresent == Spec => []TablesPresent
<1>1. IndInv => TablesPresent
  BY DEF IndInv
<1> QED BY <1>1, HookEngineInvariant, PTL

\* The pages that hide_hypervisor_memory hides are uncovered by no later split,
\* hook or single step, and by a launch only from its split of their region to
\* the end of that launch.
THEOREM HypervisorStaysHidden == Spec => []HiddenStaysHidden
<1>1. IndInv => HiddenStaysHidden
  BY DEF IndInv, HiddenPagesPinned, HiddenStaysHidden, EptEntry, is_large_page
<1> QED BY <1>1, HookEngineInvariant, PTL

\* The errors MtfCounterNotSet and OldRflagsNotSet are unreachable.
THEOREM SteppingAlwaysPrepared == Spec => []SteppingIsPrepared
<1>1. IndInv => SteppingIsPrepared
  BY DEF IndInv
<1> QED BY <1>1, HookEngineInvariant, PTL
=============================================================================
