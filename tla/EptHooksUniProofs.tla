------------------------- MODULE EptHooksUniProofs -------------------------
(***************************************************************************)
(* What the hook engine promises on a machine with one logical processor:  *)
(* no stale translation is ever used, every EPT violation finds its hook,  *)
(* and an enable command leaves earlier hooks alone.  TLC shows that each  *)
(* of these fails with two processors; here they are proved for one, for   *)
(* any frames, functions and guest program.                                *)
(***************************************************************************)
EXTENDS EptHooksProofs

\* There is at most one logical processor.
OneProcessor == \A c, d \in Cpus : c = d

\* The parts of UniInv that speak of the tables alone.
UniTables == OneView /\ ClosedIsHooked

\* Init fills in every part of the invariant.
LEMMA UniInit == Init => UniInv
<1> SUFFICES ASSUME Init PROVE UniInv
  OBVIOUS
<1>1. OneView /\ ClosedIsHooked
  BY DEF Init, OneView, ClosedIsHooked, LargeIdentity, NoEntry
<1>2. TlbCoherent
  BY DEF Init, TlbCoherent, NoCache
<1>3. ViolationIsHooked
  BY DEF Init, ViolationIsHooked
<1> QED BY <1>1, <1>2, <1>3, InitInd DEF UniInv

\* On one processor the translation an access uses is the one the EPT holds.
LEMMA TranslationIsWalk ==
  ASSUME UniInv, NEW c \in Cpus, vm[c].phase = "guest", NEW p \in Frames
  PROVE  Translation(c, p) = EptEntry(c, p)
<1>1. tlb[c][p].hpa # None => tlb[c][p] # NoEntry
  BY DEF NoEntry
<1>2. ~Swapping(c)
  BY DEF Swapping
<1> QED BY <1>1, <1>2 DEF UniInv, TlbCoherent, Translation

\* A step that leaves the tables alone keeps what UniInv says of them, and
\* every walk ends where it did.
LEMMA SameWalks ==
  ASSUME UniInv, UNCHANGED <<pt, ptMapped, guest_page_mappings, pde>>
  PROVE  /\ UniTables'
         /\ \A c \in Cpus, p \in Frames : EptEntry(c, p)' = EptEntry(c, p)
  BY DEF UniInv, UniTables, OneView, ClosedIsHooked, is_guest_page_processed, EptEntry,
         is_large_page

\* A translation the EPT refuses belongs to a hooked page.
LEMMA RefusedIsHooked ==
  ASSUME UniInv, NEW c \in Cpus, vm[c].phase = "guest", NEW p \in Frames, NEW a \in Access,
         a \notin Translation(c, p).perm
  PROVE  is_guest_page_processed(p)
<1>1. LargeOf[p] \in LargePages /\ a \in READ_WRITE_EXECUTE
  BY FrameAssumption DEF Access, READ_WRITE_EXECUTE
<1>2. a \notin EptEntry(c, p).perm
  BY TranslationIsWalk
<1>3. ~is_large_page(c, p)
  BY <1>1, <1>2 DEF UniInv, OneView, EptEntry, is_large_page
<1>4. pt[p].perm # READ_WRITE_EXECUTE
  BY <1>1, <1>2, <1>3 DEF EptEntry
<1>5. pt[p].hpa # None
  BY <1>1, <1>3 DEF UniInv, IndInv, TablesPresent, TablesFilled, is_large_page
<1> QED BY <1>4, <1>5 DEF UniInv, ClosedIsHooked

\* Where a region has a page table, the only processor has split it, so a
\* swap is refused only for want of a table, and then changes nothing.
LEMMA RefusedChangesNothing ==
  ASSUME UniInv, NEW c \in Cpus, NEW p \in Frames, NEW perm, swap_page_refused(c, p, perm)
  PROVE  ~get_page_table_found(p) /\ UNCHANGED <<pt, pde, tlb, lock>>
<1>1. LargeOf[p] \in LargePages
  BY FrameAssumption
<1>2. ~get_page_table_found(p)
  BY <1>1 DEF UniInv, OneView, swap_page_refused, get_page_table_found, is_large_page
<1> QED BY <1>2 DEF swap_page_refused

\* After invept_all_contexts the only processor holds no translation.
LEMMA FlushedCoherent ==
  ASSUME OneProcessor, UniInv, NEW c \in Cpus, FlushTlb(c)
  PROVE  TlbCoherent'
<1>1. tlb' = [tlb EXCEPT ![c] = NoCache] /\ tlb \in [Cpus -> [Frames -> Entry]]
  BY DEF FlushTlb, UniInv, IndInv, TypeOK
<1>2. \A d \in Cpus : tlb'[d] = NoCache
  BY <1>1 DEF OneProcessor
<1> QED BY <1>2 DEF TlbCoherent, NoCache

\* A step that changes neither the tables nor the cache keeps them coherent,
\* unless it leaves a swap_page halfway.
LEMMA SameUni ==
  ASSUME OneProcessor, UniInv, NEW c \in Cpus, ~Swapping(c),
         UNCHANGED <<pt, ptMapped, guest_page_mappings, pde, tlb>>
  PROVE  UniTables' /\ TlbCoherent'
<1>1. \A d \in Cpus : ~Swapping(d)
  BY DEF OneProcessor
<1> QED BY <1>1, SameWalks DEF UniInv, TlbCoherent

\* The first store of swap_page closes only a hooked page.  The cache is behind
\* the table from here to the invalidation.
LEMMA StoreUni ==
  ASSUME OneProcessor, UniInv, NEW c \in Cpus, NEW p \in Frames, NEW perm,
         modify_page_permissions(c, p, perm), UNCHANGED <<ptMapped, guest_page_mappings>>,
         is_guest_page_processed(p) \/ perm = READ_WRITE_EXECUTE, Swapping(c)'
  PROVE  UniTables' /\ TlbCoherent'
<1>1. pt' = [pt EXCEPT ![p].perm = perm] /\ pde' = pde /\ pt \in [Frames -> Entry]
  BY DEF modify_page_permissions, UniInv, IndInv, TypeOK
<1>2. OneView'
  BY <1>1 DEF UniInv, OneView
<1>3. /\ \A q \in Frames : q # p => pt'[q] = pt[q]
      /\ pt'[p].perm = perm
  <2>1. pt[p] \in Entry
    BY <1>1
  <2> QED BY <1>1, <2>1 DEF Entry
<1>4. ClosedIsHooked'
  BY <1>3 DEF UniInv, ClosedIsHooked, is_guest_page_processed
<1>5. TlbCoherent'
  BY DEF OneProcessor, TlbCoherent
<1> QED BY <1>2, <1>4, <1>5 DEF UniTables

\* The second store of swap_page, with its invalidation: a page that loses its
\* hook has been opened completely.
LEMMA RemapUni ==
  ASSUME OneProcessor, UniInv, NEW c \in Cpus, NEW p \in Frames, NEW h,
         remap_gpa_to_hpa(c, p, h), UNCHANGED ptMapped,
         \/ UNCHANGED guest_page_mappings /\ is_guest_page_processed(p)
         \/ /\ pt[p].perm = READ_WRITE_EXECUTE
            /\ \A q \in Frames : q # p => guest_page_mappings'[q] = guest_page_mappings[q]
  PROVE  UniTables' /\ TlbCoherent'
<1>1. pt' = [pt EXCEPT ![p].hpa = h] /\ FlushTlb(c) /\ pde' = pde /\ pt \in [Frames -> Entry]
  BY DEF remap_gpa_to_hpa, UniInv, IndInv, TypeOK
<1>2. OneView'
  BY <1>1 DEF UniInv, OneView
<1>3. /\ \A q \in Frames : q # p => pt'[q] = pt[q]
      /\ pt'[p].perm = pt[p].perm
  <2>1. pt[p] \in Entry
    BY <1>1
  <2> QED BY <1>1, <2>1 DEF Entry
<1>4. ClosedIsHooked'
  BY <1>3 DEF UniInv, ClosedIsHooked, is_guest_page_processed
<1> QED BY <1>1, <1>2, <1>4, FlushedCoherent DEF UniTables

-----------------------------------------------------------------------------
(* Steps of the guest                                                      *)

\* Caching translations of the current EPT keeps the cache coherent.
LEMMA CachedCoherent ==
  ASSUME OneProcessor, UniInv, NEW c \in Cpus, vm[c].phase = "guest",
         NEW data, CacheTranslations(c, data),
         UNCHANGED <<pt, ptMapped, guest_page_mappings, pde>>
  PROVE  TlbCoherent'
<1>1. tlb \in [Cpus -> [Frames -> Entry]]
  BY DEF UniInv, IndInv, TypeOK
<1>2. \A d \in Cpus, p \in Frames :
        tlb'[d][p] = tlb[d][p] \/ (d = c /\ tlb'[d][p] = Translation(c, p))
  BY <1>1 DEF CacheTranslations
<1>3. \A p \in Frames : Translation(c, p) = EptEntry(c, p)
  BY TranslationIsWalk
<1>4. \A d \in Cpus, p \in Frames : EptEntry(d, p)' = EptEntry(d, p)
  BY SameWalks
<1>5. \A d \in Cpus : ~Swapping(d)
  BY DEF OneProcessor, Swapping
<1> QED BY <1>2, <1>3, <1>4, <1>5 DEF UniInv, TlbCoherent

\* Dropping a translation keeps the cache coherent.
LEMMA DroppedCoherent ==
  ASSUME OneProcessor, UniInv, NEW c \in Cpus, vm[c].phase = "guest",
         NEW q \in Frames, tlb' = [tlb EXCEPT ![c][q] = NoEntry],
         UNCHANGED <<pt, ptMapped, guest_page_mappings, pde>>
  PROVE  TlbCoherent'
<1>1. tlb \in [Cpus -> [Frames -> Entry]]
  BY DEF UniInv, IndInv, TypeOK
<1>2. \A d \in Cpus, p \in Frames : tlb'[d][p] \in {tlb[d][p], NoEntry}
  BY <1>1
<1>3. \A d \in Cpus, p \in Frames : EptEntry(d, p)' = EptEntry(d, p)
  BY SameWalks
<1>4. \A d \in Cpus : ~Swapping(d)
  BY DEF OneProcessor, Swapping
<1> QED BY <1>2, <1>3, <1>4 DEF UniInv, TlbCoherent

\* The page of a violation exit is hooked, and stays hooked.
LEMMA ViolationExitUni ==
  ASSUME OneProcessor, UniInv, NEW c \in Cpus, vm[c].phase = "guest",
         NEW p \in Frames, NEW a \in Access, a \notin Translation(c, p).perm, EptViolationExit(c, p),
         UNCHANGED <<pt, ptMapped, guest_page_mappings, pde>>
  PROVE  ViolationIsHooked' /\ TlbCoherent'
<1>1. is_guest_page_processed(p)'
  BY RefusedIsHooked DEF is_guest_page_processed
<1>2. vm'[c].gpa = p
  <2>1. vm \in [Cpus -> VmStates]
    BY DEF UniInv, IndInv, TypeOK
  <2>2. vm[c] \in VmStates
    BY <2>1
  <2>3. vm'[c] = [vm[c] EXCEPT !.phase = "violation", !.gpa = p,
                               !.qual = Translation(c, p).perm, !.rax = "none"]
    BY <2>1 DEF EptViolationExit
  <2> QED BY <2>2, <2>3 DEF VmStates
<1>3. ViolationIsHooked'
  BY <1>1, <1>2 DEF ViolationIsHooked, OneProcessor
<1> QED BY <1>3, DroppedCoherent DEF EptViolationExit

\* A processor that is not handling a violation has none to find a hook for.
LEMMA NoViolation ==
  ASSUME OneProcessor, NEW c \in Cpus, vm'[c].phase # "violation"
  PROVE  ViolationIsHooked'
  BY DEF OneProcessor, ViolationIsHooked

\* Every step of the guest preserves the invariant.
LEMMA GuestUni == ASSUME OneProcessor, UniInv, NEW c \in Cpus, GuestStep(c) PROVE UniInv'
<1> USE FrameAssumption, CodeAssumption
<1>1. IndInv /\ IndInv'
  BY GuestInd DEF UniInv
<1>2. UNCHANGED <<pt, ptMapped, guest_page_mappings, pde>>
  BY DEF GuestStep, GuestProgress, FetchFault, DataFault, Retire, CpuidExit, VmcallExit,
         DeliverEvent, Evict
<1>3. UniTables'
  BY <1>2, SameWalks
<1>4. vm \in [Cpus -> VmStates] /\ vm[c] \in VmStates
  BY <1>1 DEF IndInv, TypeOK
<1>5. vm[c].rip \in Code /\ VmcallInsn \in Instructions
  BY <1>4 DEF VmStates, VmcallInsn, Instructions
<1>6. FetchedInsns(c) \subseteq Instructions
  BY <1>5 DEF FetchedInsns
<1>7. vm[c].phase = "guest"
  BY DEF GuestStep, GuestProgress, FetchFault, DataFault, Retire, CpuidExit, VmcallExit,
         DeliverEvent, Evict, Running
<1>8. ViolationIsHooked' /\ TlbCoherent'
  <2>1. CASE FetchFault(c)
    <3>1. PageOf[vm[c].rip] \in Frames /\ "X" \in Access
      BY <1>5 DEF Access
    <3>2. /\ "X" \notin Translation(c, PageOf[vm[c].rip]).perm
          /\ EptViolationExit(c, PageOf[vm[c].rip])
      BY <2>1 DEF FetchFault, Fetchable
    <3> QED BY <1>2, <1>7, <3>1, <3>2, ViolationExitUni
  <2>2. CASE DataFault(c)
    <3>1. PICK i \in FetchedInsns(c) : \E a \in i.data :
            a[2] \notin Translation(c, a[1]).perm /\ EptViolationExit(c, a[1])
      BY <2>2 DEF DataFault
    <3>2. PICK a \in i.data : a[2] \notin Translation(c, a[1]).perm /\ EptViolationExit(c, a[1])
      BY <3>1
    <3>3. a \in Frames \X READ_WRITE
      BY <1>6 DEF Instructions
    <3>4. a[1] \in Frames /\ a[2] \in Access
      BY <3>3 DEF READ_WRITE, Access
    <3> QED BY <1>2, <1>7, <3>2, <3>4, ViolationExitUni
  <2>3. CASE Retire(c)
    <3> DEFINE ph == IF vm[c].mtf THEN "mtf" ELSE "guest"
    <3>1. PICK i \in FetchedInsns(c), next \in Code :
            /\ CacheTranslations(c, i.data)
            /\ vm' = [vm EXCEPT ![c].rip = next, ![c].rax = "none", ![c].phase = ph]
      BY <2>3 DEF Retire
    <3>2. vm'[c].phase = ph
      BY <1>4, <3>1 DEF VmStates
    <3>3. vm'[c].phase # "violation"
      BY <3>2
    <3> QED BY <1>2, <1>7, <3>1, <3>3, CachedCoherent, NoViolation
  <2>4. CASE CpuidExit(c)
    <3>1. PICK i \in FetchedInsns(c) :
            vm' = [vm EXCEPT ![c].phase = "cpuid", ![c].insn = i.op, ![c].fn = i.fn,
                             ![c].rax = "none"]
      BY <2>4 DEF CpuidExit
    <3>2. vm'[c].phase = "cpuid" /\ CacheTranslations(c, {})
      BY <1>4, <2>4, <3>1 DEF CpuidExit, VmStates
    <3> QED BY <1>2, <1>7, <3>2, CachedCoherent, NoViolation
  <2>5. CASE VmcallExit(c)
    <3>1. vm'[c].phase = "vmcall" /\ CacheTranslations(c, {})
      BY <1>4, <2>5 DEF VmcallExit, VmStates
    <3> QED BY <1>2, <1>7, <3>1, CachedCoherent, NoViolation
  <2>6. CASE DeliverEvent(c)
    <3> DEFINE ph == IF vm[c].mtf THEN "mtf" ELSE "guest"
    <3>1. PICK next \in Code :
            vm' = [vm EXCEPT ![c].event = "none", ![c].rip = next, ![c].phase = ph]
      BY <2>6 DEF DeliverEvent
    <3>2. vm'[c].phase = ph
      BY <1>4, <3>1 DEF VmStates
    <3>3. vm'[c].phase # "violation" /\ tlb' = tlb
      BY <2>6, <3>2 DEF DeliverEvent
    <3>4. TlbCoherent'
      BY <1>2, <1>7, <3>3, SameUni DEF Swapping
    <3> QED BY <3>3, <3>4, NoViolation
  <2>7. ASSUME NEW p \in Frames, Evict(c, p) PROVE ViolationIsHooked' /\ TlbCoherent'
    <3>1. vm' = vm /\ tlb' = [tlb EXCEPT ![c][p] = NoEntry]
      BY <2>7 DEF Evict
    <3>2. vm'[c].phase # "violation"
      BY <2>7, <3>1 DEF Evict
    <3> QED BY <1>2, <1>7, <3>1, <3>2, DroppedCoherent, NoViolation
  <2> QED BY <2>1, <2>2, <2>3, <2>4, <2>5, <2>6, <2>7 DEF GuestStep, GuestProgress
<1> QED BY <1>1, <1>3, <1>8 DEF UniInv, UniTables

-----------------------------------------------------------------------------
(* VM exit handlers                                                        *)

\* A handler leaves the violation phase, or only makes a first store.
LEMMA HandlerEnds ==
  ASSUME IndInv, NEW c \in Cpus, HostStep(c)
  PROVE  vm'[c].phase # "violation" \/ UNCHANGED <<vm, guest_page_mappings>>
<1> DEFINE s == vm[c]
           n == saturating_dec(s.mtf_counter)
           m == calculate_instruction_count(s.gpa, s.rip)
           q == pa_from_va_with_current_cr3(c, s.rip)
<1>1. vm \in [Cpus -> VmStates] /\ s \in VmStates
  BY DEF IndInv, TypeOK
<1> HIDE DEF n, m, q
<1>2. \/ UNCHANGED <<vm, guest_page_mappings>>
      \/ vm'[c] = Panicked(s)
      \/ vm'[c] = Resumed(s)
      \/ vm'[c] = SingleStep(Resumed(s), 1)
      \/ vm'[c] = SingleStep(Resumed(s), m)
      \/ vm'[c] = [Resumed(s) EXCEPT !.event = "UD"]
      \/ vm'[c] = [Resumed(s) EXCEPT !.rflags = s.old_rflags]
      \/ vm'[c] = [s EXCEPT !.phase = "guest", !.mtf_counter = n]
      \/ vm'[c] = [s EXCEPT !.phase = "mtf_lock", !.mtf_counter = n, !.mtf = FALSE, !.gpa = q]
      \/ vm'[c] = [s EXCEPT !.phase = "vmcall_lock", !.gpa = q]
      \/ s.phase = "cpuid" /\ \E p : vm'[c] = [s EXCEPT !.gpa = p]
      \/ \E status, next : vm'[c] = [Resumed(s) EXCEPT !.rax = status, !.rip = next]
  <2>1. CASE HandleEptViolation(c) \/ EptViolationSwapped(c)
    BY <1>1, <2>1 DEF HandleEptViolation, EptViolationSwapped
  <2>2. CASE VmcallTranslate(c)
    BY <1>1, <2>2 DEF VmcallTranslate, q
  <2>3. CASE HandleVmcall(c) \/ VmcallSwapped(c)
    BY <1>1, <2>3 DEF HandleVmcall, VmcallSwapped, m
  <2>4. CASE HandleMtf(c)
    BY <1>1, <2>4 DEF HandleMtf, n, q
  <2>5. CASE RestoreHook(c) \/ HookRestored(c)
    BY <1>1, <2>5 DEF RestoreHook, HookRestored, restore_guest_interrupt_flag
  <2>6. CASE \/ CommandUnresolved(c) \/ EnableHook(c) \/ InstallHook(c)
             \/ DisableHook(c) \/ HookRemoved(c)
    <3>1. \/ vm' = [vm EXCEPT ![c] = Panicked(@)]
          \/ s.phase = "cpuid" /\ \E p : vm' = [vm EXCEPT ![c].gpa = p]
          \/ \E status : CommandDone(c, status)
      BY <2>6 DEF CommandUnresolved, EnableHook, InstallHook, DisableHook, HookRemoved
    <3>2. CASE vm' = [vm EXCEPT ![c] = Panicked(@)]
      BY <1>1, <3>2
    <3>3. ASSUME NEW p, vm' = [vm EXCEPT ![c].gpa = p]
          PROVE  vm'[c] = [s EXCEPT !.gpa = p]
      BY <1>1, <3>3
    <3>4. ASSUME NEW status, CommandDone(c, status)
          PROVE  \E next : vm'[c] = [Resumed(s) EXCEPT !.rax = status, !.rip = next]
      BY <1>1, <3>4 DEF CommandDone
    <3> QED BY <3>1, <3>2, <3>3, <3>4
  <2> QED BY <2>1, <2>2, <2>3, <2>4, <2>5, <2>6 DEF HostStep
<1>3. Resumed(s) \in VmStates /\ Resumed(s).phase = "guest" /\ Panicked(s).phase = "panic"
  BY <1>1 DEF Resumed, Panicked, VmStates, Phases
<1>4. \A k : SingleStep(Resumed(s), k).phase = "guest"
  BY <1>3 DEF SingleStep, VmStates
<1> QED BY <1>1, <1>2, <1>3, <1>4 DEF VmStates

\* What a hook command's split does on the only processor: no walk ends
\* elsewhere than before, and entries of regions with a table are kept.
LEMMA SplitUni ==
  ASSUME OneProcessor, UniInv, NEW c \in Cpus, NEW l \in LargePages, SplitsRegion(c, l),
         ptMapped' = ptMapped \cup {l}, NEW ps, ps = PtAfterSplit(c, l)
  PROVE  /\ OneView'
         /\ \A q \in Frames : LargeOf[q] \in ptMapped => ps[q] = pt[q]
         /\ \A q \in Frames : ps[q] = pt[q] \/ ps[q] = Identity(q)
         /\ pt' = ps => \A d \in Cpus, q \in Frames : EptEntry(d, q)' = EptEntry(d, q)
<1> USE FrameAssumption
<1>1. pde \in [Cpus -> [LargePages -> [large : BOOLEAN, perm : SUBSET Access]]]
  BY DEF UniInv, IndInv, TypeOK
<1>2. \A k \in LargePages :
        pde'[c][k] = IF k = l /\ pde[c][k].large THEN SplitPde ELSE pde[c][k]
  BY <1>1 DEF SplitsRegion
<1>3. ~SplitPde.large
  BY DEF SplitPde
<1>4. OneView'
  BY <1>2, <1>3 DEF UniInv, OneView, OneProcessor
<1>5. \A q \in Frames : ps[q] = IF LargeOf[q] = l /\ pde[c][l].large THEN Identity(q) ELSE pt[q]
  BY DEF PtAfterSplit
<1>6. \A q \in Frames : LargeOf[q] \in ptMapped => ps[q] = pt[q]
  BY <1>5 DEF UniInv, OneView
<1>7. ASSUME pt' = ps, NEW q \in Frames PROVE EptEntry(c, q)' = EptEntry(c, q)
  <2>1. LargeOf[q] \in LargePages
    OBVIOUS
  <2>2. CASE LargeOf[q] = l /\ pde[c][l].large
    <3>1. EptEntry(c, q) = Identity(q)
      BY <2>2 DEF UniInv, OneView, EptEntry, is_large_page, Identity
    <3>2. EptEntry(c, q)' = Identity(q)
      BY <1>2, <1>3, <1>5, <1>7, <2>2 DEF EptEntry, is_large_page
    <3> QED BY <3>1, <3>2
  <2>3. CASE ~(LargeOf[q] = l /\ pde[c][l].large)
    BY <1>2, <1>5, <1>7, <2>1, <2>3 DEF EptEntry, is_large_page
  <2> QED BY <2>2, <2>3
<1> QED BY <1>4, <1>5, <1>6, <1>7 DEF OneProcessor

\* ept_hook_function, to the end of the split, keeps the invariant and every
\* entry of a hooked page.
LEMMA EnableUni ==
  ASSUME OneProcessor, UniInv, NEW c \in Cpus, EnableHook(c)
  PROVE  /\ UniTables' /\ TlbCoherent'
         /\ \A q \in Frames : is_guest_page_processed(q) => pt'[q] = pt[q]
<1>1. PICK p : p = pa_from_va_with_current_cr3(c, vm[c].fn)
  OBVIOUS
<1>2. PICK l : l = LargeOf[p]
  OBVIOUS
<1>3. /\ vm[c].fn # None /\ lock = None /\ ptMapped' = ptMapped \cup {l} /\ SplitsRegion(c, l)
      /\ pt' = PtAfterSplit(c, l) /\ UNCHANGED <<guest_page_mappings, tlb>>
  BY <1>1, <1>2 DEF EnableHook, map_large_page_to_pt, SplitsRegion
<1>4. IndInv
  BY DEF UniInv
<1>5. l \in LargePages
  BY <1>1, <1>2, <1>3, <1>4, FunctionFrame, FrameAssumption
<1>6. \A q \in Frames : is_guest_page_processed(q) => LargeOf[q] \in ptMapped
  BY <1>4 DEF IndInv, TablesPresent
<1>7. /\ OneView'
      /\ \A q \in Frames : LargeOf[q] \in ptMapped => pt'[q] = pt[q]
      /\ \A q \in Frames : pt'[q] = pt[q] \/ pt'[q] = Identity(q)
      /\ \A d \in Cpus, q \in Frames : EptEntry(d, q)' = EptEntry(d, q)
  <2>1. PICK ps : ps = PtAfterSplit(c, l)
    OBVIOUS
  <2>2. pt' = ps
    BY <1>3, <2>1
  <2> QED BY <1>3, <1>5, <2>1, <2>2, SplitUni
<1>8. ClosedIsHooked'
  <2>0. \A q \in Frames : Identity(q).perm = READ_WRITE_EXECUTE
    BY DEF Identity
  <2>1. \A q \in Frames : pt'[q] = pt[q] \/ pt'[q].perm = READ_WRITE_EXECUTE
    BY <1>7, <2>0
  <2> QED BY <1>3, <2>1 DEF UniInv, ClosedIsHooked, is_guest_page_processed
<1>9. \A d \in Cpus : ~Swapping(d)
  BY <1>3, FrameAssumption DEF Swapping
<1>10. TlbCoherent'
  BY <1>3, <1>7, <1>9 DEF UniInv, TlbCoherent
<1> QED BY <1>6, <1>7, <1>8, <1>10 DEF UniTables

\* ept_hook_function, after the split.
LEMMA InstallUni ==
  ASSUME OneProcessor, UniInv, NEW c \in Cpus, InstallHook(c)
  PROVE  /\ UniTables' /\ TlbCoherent'
         /\ \A q \in Frames : is_guest_page_processed(q) => pt'[q] = pt[q]
<1> DEFINE f == vm[c].fn
           p == vm[c].gpa
           quiet == UNCHANGED <<pt, guest_page_mappings, tlb>>
           hooked == /\ ~is_guest_page_processed(p)
                     /\ \E s \in FreeHeapPages : guest_page_mappings' =
                          [guest_page_mappings EXCEPT ![p] = [shadow |-> s, func |-> f]]
                     /\ pt' = [pt EXCEPT ![p].perm = READ_WRITE]
                     /\ FlushTlb(c)
<1>1. /\ vm[c].phase = "cpuid" /\ vm[c].insn = "enable" /\ lock = c
      /\ UNCHANGED <<ptMapped, pde>> /\ (quiet \/ hooked)
  BY DEF InstallHook
<1>2. /\ pt \in [Frames -> Entry] /\ guest_page_mappings \in [Frames -> Mapping]
      /\ p \in Frames
  BY <1>1 DEF UniInv, IndInv, TypeOK, HolderInv, Midway, Enabling
<1> HIDE DEF f, p
<1>3. CASE quiet
  <2>1. ~Swapping(c)
    BY <1>1 DEF Swapping
  <2> QED BY <1>1, <1>3, <2>1, SameUni
<1>4. CASE hooked
  <2>1. \A q \in Frames : q # p => pt'[q] = pt[q] /\ guest_page_mappings'[q] = guest_page_mappings[q]
    BY <1>2, <1>4
  <2>2. guest_page_mappings'[p].shadow # None
    <3>1. PICK s \in FreeHeapPages : guest_page_mappings' =
                          [guest_page_mappings EXCEPT ![p] = [shadow |-> s, func |-> f]]
      BY <1>4
    <3>2. s # None
      BY FrameAssumption DEF FreeHeapPages
    <3> QED BY <1>2, <3>1, <3>2
  <2>3. ClosedIsHooked'
    BY <2>1, <2>2 DEF UniInv, ClosedIsHooked, is_guest_page_processed
  <2>4. TlbCoherent'
    BY <1>4, FlushedCoherent
  <2>5. OneView'
    BY <1>1 DEF UniInv, OneView
  <2>6. \A q \in Frames : is_guest_page_processed(q) => pt'[q] = pt[q]
    BY <1>4, <2>1
  <2> QED BY <2>3, <2>4, <2>5, <2>6 DEF UniTables
<1> QED BY <1>1, <1>3, <1>4

\* handle_ept_violation: the hook is there, its page table is there and the
\* region is split, so the handler ends in the guest.
LEMMA ViolationUni ==
  ASSUME OneProcessor, UniInv, NEW c \in Cpus, HandleEptViolation(c) \/ EptViolationSwapped(c)
  PROVE  UniTables' /\ TlbCoherent' /\ vm'[c].phase # "panic"
<1>0. PICK p : p = vm[c].gpa
  OBVIOUS
<1> DEFINE perm == IF SwitchToShadow(c) THEN EXECUTE ELSE READ_WRITE_EXECUTE
<1>1. IndInv /\ vm \in [Cpus -> VmStates] /\ GoodVm(vm[c]) /\ vm[c].phase = "violation"
  BY VmGood DEF UniInv, IndInv, TypeOK, HandleEptViolation, EptViolationSwapped
<1>2. p \in Frames /\ is_guest_page_processed(p)
  BY <1>0, <1>1 DEF UniInv, ViolationIsHooked, GoodVm
<1>3. get_page_table_found(p)
  BY <1>1, <1>2 DEF IndInv, TablesPresent, get_page_table_found
<1>4. Resumed(vm[c]) \in VmStates /\ Resumed(vm[c]).phase = "guest"
  BY <1>1, ResumedGood DEF GoodVm
<1>5. SingleStep(Resumed(vm[c]), 1).phase = "guest"
  BY <1>4 DEF SingleStep, VmStates
<1>6. CASE HandleEptViolation(c)
  <2>1. ~swap_page_refused(c, p, perm)
    BY <1>2, <1>3, RefusedChangesNothing
  <2>2. /\ lock = None /\ UNCHANGED <<ptMapped, guest_page_mappings>>
        /\ \/ modify_page_permissions(c, p, perm) /\ UNCHANGED vm
           \/ UNCHANGED <<pt, pde, tlb>> /\ vm' = [vm EXCEPT ![c] = Resumed(@)]
    BY <1>0, <1>2, <1>3, <1>6, <2>1 DEF HandleEptViolation
  <2>3. CASE modify_page_permissions(c, p, perm) /\ UNCHANGED vm
    <3>1. Swapping(c)'
      BY <1>1, <2>3 DEF Swapping, modify_page_permissions
    <3> QED BY <1>1, <1>2, <2>2, <2>3, <3>1, StoreUni
  <2>4. CASE UNCHANGED <<pt, pde, tlb>> /\ vm' = [vm EXCEPT ![c] = Resumed(@)]
    <3>1. ~Swapping(c)
      BY <2>2, FrameAssumption DEF Swapping
    <3> QED BY <1>1, <1>4, <2>2, <2>4, <3>1, SameUni
  <2> QED BY <2>2, <2>3, <2>4
<1>7. CASE EptViolationSwapped(c)
  <2>1. /\ UNCHANGED <<ptMapped, guest_page_mappings>>
        /\ \/ vm' = [vm EXCEPT ![c] = Resumed(@)]
           \/ vm' = [vm EXCEPT ![c] = SingleStep(Resumed(@), 1)]
        /\ \E h : remap_gpa_to_hpa(c, p, h)
    BY <1>0, <1>7 DEF EptViolationSwapped
  <2> QED BY <1>1, <1>2, <1>4, <1>5, <2>1, RemapUni
<1> QED BY <1>6, <1>7

\* The other handlers keep tables and cache in step.
LEMMA HandlerUni ==
  ASSUME OneProcessor, UniInv, NEW c \in Cpus,
         \/ VmcallTranslate(c) \/ HandleVmcall(c) \/ VmcallSwapped(c) \/ HandleMtf(c)
         \/ RestoreHook(c) \/ HookRestored(c) \/ CommandUnresolved(c)
         \/ DisableHook(c) \/ HookRemoved(c)
  PROVE  UniTables' /\ TlbCoherent'
<1>1. IndInv /\ GoodVm(vm[c]) /\ guest_page_mappings \in [Frames -> Mapping] /\ Midway(c)
  BY VmGood DEF UniInv, IndInv, TypeOK, HolderInv
<1>2. CASE VmcallTranslate(c) \/ HandleMtf(c) \/ CommandUnresolved(c)
  <2>1. ~Swapping(c)
    BY <1>2, FrameAssumption DEF VmcallTranslate, HandleMtf, CommandUnresolved, Swapping
  <2> QED BY <1>2, <2>1, SameUni DEF VmcallTranslate, HandleMtf, CommandUnresolved
<1>3. CASE HandleVmcall(c) \/ RestoreHook(c)
  <2>0. PICK p : p = vm[c].gpa
    OBVIOUS
  <2>1. p \in Frames /\ vm[c].phase \in {"vmcall_lock", "mtf_lock"} /\ lock = None
    BY <1>1, <1>3, <2>0 DEF GoodVm, HandleVmcall, RestoreHook
  <2>2. ~Swapping(c)
    BY <2>1, FrameAssumption DEF Swapping
  <2>3. /\ UNCHANGED <<ptMapped, guest_page_mappings>>
        /\ \/ UNCHANGED <<pt, pde, tlb>>
           \/ \E perm : swap_page_refused(c, p, perm)
           \/ /\ is_guest_page_processed(p) /\ UNCHANGED vm
              /\ \E perm : modify_page_permissions(c, p, perm)
    BY <1>3, <2>0 DEF HandleVmcall, RestoreHook
  <2>4. CASE /\ is_guest_page_processed(p) /\ UNCHANGED vm
             /\ \E perm : modify_page_permissions(c, p, perm)
    <3>1. Swapping(c)'
      BY <2>1, <2>4 DEF Swapping, modify_page_permissions
    <3> QED BY <2>1, <2>3, <2>4, <3>1, StoreUni
  <2> QED BY <2>1, <2>2, <2>3, <2>4, SameUni, RefusedChangesNothing
<1>4. CASE VmcallSwapped(c) \/ HookRestored(c)
  <2>0. PICK p : p = vm[c].gpa
    OBVIOUS
  <2>1. Swapping(c) /\ vm[c].phase # "cpuid"
    BY <1>4 DEF Swapping, VmcallSwapped, HookRestored
  <2>2. p \in Frames /\ is_guest_page_processed(p)
    BY <1>1, <2>0, <2>1 DEF Midway
  <2>3. UNCHANGED <<ptMapped, guest_page_mappings>> /\ \E h : remap_gpa_to_hpa(c, p, h)
    BY <1>4, <2>0 DEF VmcallSwapped, HookRestored
  <2> QED BY <2>2, <2>3, RemapUni
<1>5. CASE DisableHook(c)
  <2>0. PICK p : p = pa_from_va_with_current_cr3(c, vm[c].fn)
    OBVIOUS
  <2>1. /\ UNCHANGED <<ptMapped, guest_page_mappings>> /\ vm[c].fn # None /\ lock = None
        /\ vm[c].phase = "cpuid" /\ vm[c].insn = "disable"
        /\ \/ swap_page_refused(c, p, READ_WRITE_EXECUTE)
           \/ modify_page_permissions(c, p, READ_WRITE_EXECUTE) /\ vm' = [vm EXCEPT ![c].gpa = p]
    BY <1>5, <2>0 DEF DisableHook
  <2>2. p \in Frames
    BY <1>1, <2>0, <2>1, FunctionFrame
  <2>3. CASE swap_page_refused(c, p, READ_WRITE_EXECUTE)
    <3>1. ~Swapping(c)
      BY <2>1, FrameAssumption DEF Swapping
    <3> QED BY <2>1, <2>2, <2>3, <3>1, SameUni, RefusedChangesNothing
  <2>4. CASE modify_page_permissions(c, p, READ_WRITE_EXECUTE) /\ vm' = [vm EXCEPT ![c].gpa = p]
    <3>1. vm'[c] = [vm[c] EXCEPT !.gpa = p] /\ vm[c] \in VmStates
      BY <1>1, <2>4 DEF IndInv, TypeOK
    <3>2. vm'[c].phase = "cpuid" /\ vm'[c].insn = "disable"
      BY <2>1, <3>1 DEF VmStates
    <3>3. Swapping(c)'
      BY <2>4, <3>2 DEF Swapping, modify_page_permissions
    <3> QED BY <2>1, <2>2, <2>4, <3>3, StoreUni
  <2> QED BY <2>1, <2>3, <2>4
<1>6. CASE HookRemoved(c)
  <2>0. PICK p : p = vm[c].gpa
    OBVIOUS
  <2>1. /\ UNCHANGED ptMapped /\ remap_gpa_to_hpa(c, p, p)
        /\ guest_page_mappings' = [guest_page_mappings EXCEPT ![p] = NoMapping]
    BY <1>6, <2>0 DEF HookRemoved, unmap_guest_from_shadow_page
  <2>2. Swapping(c) /\ Reopening(c, p)
    BY <1>6, <2>0 DEF HookRemoved, Swapping, Reopening
  <2>3. p \in Frames /\ pt[p].perm = READ_WRITE_EXECUTE
    BY <1>1, <2>0, <2>2 DEF Midway
  <2>4. \A q \in Frames : q # p => guest_page_mappings'[q] = guest_page_mappings[q]
    BY <1>1, <2>1
  <2> QED BY <2>1, <2>3, <2>4, RemapUni
<1> QED BY <1>2, <1>3, <1>4, <1>5, <1>6

\* Every handler preserves the invariant.
LEMMA HostUni == ASSUME OneProcessor, UniInv, NEW c \in Cpus, HostStep(c) PROVE UniInv'
<1>1. IndInv /\ IndInv'
  BY ViolationInd, VmcallTranslateInd, VmcallInd, MtfInd, RestoreInd, UnresolvedInd, EnableInd,
     InstallInd, DisableInd, RemovedInd DEF HostStep, UniInv
<1>2. UniTables' /\ TlbCoherent'
  BY ViolationUni, HandlerUni, EnableUni, InstallUni DEF HostStep
<1>3. ViolationIsHooked'
  <2>1. CASE vm'[c].phase # "violation"
    BY <2>1, NoViolation
  <2>2. CASE UNCHANGED <<vm, guest_page_mappings>>
    BY <2>2 DEF UniInv, ViolationIsHooked, is_guest_page_processed
  <2> QED BY <1>1, <2>1, <2>2, HandlerEnds
<1> QED BY <1>1, <1>2, <1>3 DEF UniInv, UniTables

-----------------------------------------------------------------------------
(* Launch                                                                  *)

\* hide_hypervisor_memory splits a region and records its table together; until
\* it invalidates, no walk ends elsewhere than before.
LEMMA LaunchUni == ASSUME OneProcessor, UniInv, NEW c \in Cpus, LaunchStep(c) PROVE UniInv'
<1>1. /\ IndInv /\ IndInv' /\ vm \in [Cpus -> VmStates] /\ vm[c] \in VmStates
      /\ pt \in [Frames -> Entry]
  BY LaunchInd DEF UniInv, IndInv, TypeOK
<1>2. vm[c].phase \in {"off", "hide"} /\ ~Swapping(c)
  BY DEF LaunchStep, Launch, HideSplit, HideFrame, EnterGuest, Swapping
<1>3. vm'[c].phase # "violation"
  <2>1. \/ \E ph \in {"hide", "guest"} : vm' = [vm EXCEPT ![c].phase = ph]
        \/ \E p : vm' = [vm EXCEPT ![c].gpa = p]
    BY DEF LaunchStep, Launch, HideSplit, HideFrame, EnterGuest
  <2> QED BY <1>1, <1>2, <2>1 DEF VmStates
<1>4. UniTables' /\ TlbCoherent'
  <2>1. CASE Launch(c) \/ EnterGuest(c)
    BY <1>2, <2>1, SameUni DEF Launch, EnterGuest
  <2>2. CASE HideSplit(c)
    <3>1. PICK p \in PagesToHide(c) :
            /\ ptMapped' = ptMapped \cup {LargeOf[p]}
            /\ pt' = [PtAfterSplit(c, LargeOf[p]) EXCEPT ![p].perm = READ_WRITE_EXECUTE]
            /\ SplitsRegion(c, LargeOf[p])
      BY <2>2 DEF HideSplit, map_large_page_to_pt, SplitsRegion
    <3>2. PICK l, ps : l = LargeOf[p] /\ ps = PtAfterSplit(c, l)
      OBVIOUS
    <3>3. /\ UNCHANGED <<guest_page_mappings, tlb>>
          /\ p \in HiddenPages /\ p \in Frames /\ l \in LargePages
      BY <2>2, <3>2, FrameAssumption, RangeAssumption DEF HideSplit, PagesToHide
    <3>4. /\ OneView'
          /\ \A q \in Frames : ps[q] = pt[q] \/ ps[q] = Identity(q)
          /\ pt' = ps => \A d \in Cpus, q \in Frames : EptEntry(d, q)' = EptEntry(d, q)
      BY <3>1, <3>2, <3>3, SplitUni
    <3>5. ps \in [Frames -> Entry] /\ ps[p].hpa # None
      BY <1>1, <3>1, <3>2, <3>3, SplitTables
    <3>6. ps[p].perm = READ_WRITE_EXECUTE
      <4>1. ~is_guest_page_processed(p)
        BY <1>1, <3>3 DEF IndInv, HiddenPagesPinned
      <4>2. pt[p].hpa # None => pt[p].perm = READ_WRITE_EXECUTE
        BY <3>3, <4>1 DEF UniInv, ClosedIsHooked
      <4> QED BY <3>3, <3>4, <3>5, <4>2 DEF Identity
    <3>7. pt' = ps
      <4>1. pt' = [ps EXCEPT ![p].perm = READ_WRITE_EXECUTE]
        BY <3>1, <3>2
      <4>2. ps[p] \in Entry
        BY <3>3, <3>5
      <4>3. [ps[p] EXCEPT !.perm = READ_WRITE_EXECUTE] = ps[p]
        BY <3>6, <4>2 DEF Entry
      <4> QED BY <3>5, <4>1, <4>3
    <3>8. ClosedIsHooked'
      <4>0. \A q \in Frames : Identity(q).perm = READ_WRITE_EXECUTE
        BY DEF Identity
      <4>1. \A q \in Frames : pt'[q] = pt[q] \/ pt'[q].perm = READ_WRITE_EXECUTE
        BY <3>4, <3>7, <4>0
      <4> QED BY <3>3, <4>1 DEF UniInv, ClosedIsHooked, is_guest_page_processed
    <3>9. TlbCoherent'
      <4>1. \A d \in Cpus : ~Swapping(d)
        BY <1>2 DEF OneProcessor
      <4> QED BY <3>3, <3>4, <3>7, <4>1 DEF UniInv, TlbCoherent
    <3> QED BY <3>4, <3>8, <3>9 DEF UniTables
  <2>3. CASE HideFrame(c)
    <3>1. PICK g : g = vm[c].gpa
      OBVIOUS
    <3>2. /\ g \in Frames /\ FlushTlb(c) /\ pt' = [pt EXCEPT ![g].hpa = DummyPage]
          /\ UNCHANGED <<ptMapped, guest_page_mappings, pde>>
      BY <1>1, <1>2, <2>3, <3>1, RangeAssumption DEF HideFrame, IndInv, LaunchInv
    <3>3. \A q \in Frames : pt'[q].perm = pt[q].perm /\ (q # g => pt'[q] = pt[q])
      <4>1. \A q \in Frames : pt[q] \in Entry
        BY <1>1
      <4> QED BY <1>1, <3>2, <4>1 DEF Entry
    <3>4. pt[g].hpa # None
      <4>1. ~is_large_page(c, g)
        BY <1>1, <2>3, <3>1 DEF HideFrame, IndInv, LaunchInv
      <4> QED BY <1>1, <3>2, <4>1, FrameAssumption
              DEF IndInv, TablesPresent, TablesFilled, is_large_page
    <3>5. ClosedIsHooked'
      BY <3>2, <3>3, <3>4 DEF UniInv, ClosedIsHooked, is_guest_page_processed
    <3>6. OneView'
      BY <3>2 DEF UniInv, OneView
    <3> QED BY <3>2, <3>5, <3>6, FlushedCoherent DEF UniTables
  <2> QED BY <2>1, <2>2, <2>3 DEF LaunchStep
<1> QED BY <1>1, <1>3, <1>4, NoViolation DEF UniInv, UniTables

-----------------------------------------------------------------------------
(* The theorems                                                            *)

\* UniInv is inductive on a machine with one processor.
LEMMA UniNext == ASSUME OneProcessor PROVE UniInv /\ [Next]_vars => UniInv'
<1> SUFFICES ASSUME UniInv, [Next]_vars PROVE UniInv'
  OBVIOUS
<1>1. CASE UNCHANGED vars
  <2>1. IndInv'
    BY NextInd DEF UniInv
  <2>2. UniTables' /\ TlbCoherent'
    BY <1>1, SameWalks DEF vars, UniInv, TlbCoherent, Swapping
  <2>3. ViolationIsHooked'
    BY <1>1 DEF vars, UniInv, ViolationIsHooked, is_guest_page_processed
  <2> QED BY <2>1, <2>2, <2>3 DEF UniInv, UniTables
<1>2. CASE Next
  BY <1>2, LaunchUni, GuestUni, HostUni DEF Next
<1> QED BY <1>1, <1>2

\* The inductive invariant of a single processor holds throughout.
THEOREM UniInvariant == ASSUME OneProcessor PROVE Spec => []UniInv
  BY UniInit, UniNext, PTL DEF Spec

\* On one processor every change of the EPT is followed by the invalidation
\* it needs before the guest runs again: no access uses an older translation.
THEOREM CacheNeverStale == ASSUME OneProcessor PROVE Spec => []TlbCoherent
<1>1. UniInv => TlbCoherent
  BY DEF UniInv
<1> QED BY <1>1, UniInvariant, PTL

\* On one processor handle_ept_violation always finds the hook that caused the
\* violation, its page table and a split region: the expect in the dispatch
\* loop cannot fail there.
THEOREM ViolationsHandled == ASSUME OneProcessor PROVE Spec => ViolationIsHandled
<1> DEFINE Handled == \A c \in Cpus : vm[c].phase = "violation" => vm'[c].phase # "panic"
<1>1. UniInv /\ [Next]_vars => [Handled]_vars
  <2> SUFFICES ASSUME UniInv, Next, NEW d \in Cpus, vm[d].phase = "violation"
               PROVE  vm'[d].phase # "panic"
    OBVIOUS
  <2>1. PICK c \in Cpus : LaunchStep(c) \/ GuestStep(c) \/ HostStep(c)
    BY DEF Next
  <2>2. c = d
    BY DEF OneProcessor
  <2>3. HandleEptViolation(c) \/ EptViolationSwapped(c)
    BY <2>1, <2>2 DEF LaunchStep, Launch, HideSplit, HideFrame, EnterGuest,
       GuestStep, GuestProgress, FetchFault, DataFault, Retire, CpuidExit,
       VmcallExit, DeliverEvent, Evict, Running, HostStep, VmcallTranslate, HandleVmcall,
       VmcallSwapped, HandleMtf, RestoreHook, HookRestored, CommandUnresolved, EnableHook,
       InstallHook, DisableHook, HookRemoved
  <2> QED BY <2>2, <2>3, ViolationUni
<1> QED BY <1>1, UniInvariant, PTL DEF Spec, ViolationIsHandled

\* On one processor ept_hook_function never overwrites the entry of a page
\* that is hooked already.
THEOREM EnableKeepsOthers == ASSUME OneProcessor PROVE Spec => EnableKeepsHooks
<1> DEFINE Keeps == \A c \in Cpus, p \in Frames :
                      vm[c].phase = "cpuid" /\ vm[c].insn = "enable" /\ is_guest_page_processed(p)
                      => pt'[p] = pt[p]
<1>1. UniInv /\ [Next]_vars => [Keeps]_vars
  <2> SUFFICES ASSUME UniInv, Next, NEW d \in Cpus, NEW p \in Frames,
                      vm[d].phase = "cpuid", vm[d].insn = "enable", is_guest_page_processed(p)
               PROVE  pt'[p] = pt[p]
    OBVIOUS
  <2>1. PICK c \in Cpus : LaunchStep(c) \/ GuestStep(c) \/ HostStep(c)
    BY DEF Next
  <2>2. c = d
    BY DEF OneProcessor
  <2>3. CommandUnresolved(c) \/ EnableHook(c) \/ InstallHook(c)
    BY <2>1, <2>2 DEF LaunchStep, Launch, HideSplit, HideFrame, EnterGuest,
       GuestStep, GuestProgress, FetchFault, DataFault, Retire, CpuidExit,
       VmcallExit, DeliverEvent, Evict, Running, HostStep, VmcallTranslate, HandleVmcall,
       VmcallSwapped, HandleMtf, RestoreHook, HookRestored, DisableHook, HookRemoved,
       HandleEptViolation, EptViolationSwapped
  <2> QED BY <2>3, EnableUni, InstallUni DEF CommandUnresolved
<1> QED BY <1>1, UniInvariant, PTL DEF Spec, EnableKeepsHooks
=============================================================================
