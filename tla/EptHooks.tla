------------------------------ MODULE EptHooks ------------------------------
(***************************************************************************)
(* The EPT hook engine of the hypervisor: the shared HookManager (shadow   *)
(* pages and 4 KB page tables behind one spin lock), the private EPT page  *)
(* directories of the virtual CPUs, and the VM exits that move a hooked    *)
(* page between its original and its shadow frame: EPT violations, the     *)
(* VMCALL of a detour, monitor-trap-flag single steps, and the CPUID       *)
(* back-door that enables and disables hooks.                              *)
(*                                                                         *)
(* SHARED_HOOK_MANAGER keeps the handlers apart, but not the walks of the  *)
(* other CPUs' guests, which read the shared tables at any time.  So a     *)
(* critical section that stores twice into a table another CPU may be      *)
(* walking is two actions: the splitting of a region and what follows it,  *)
(* and the two stores of swap_page, first permissions, then frame; `lock`  *)
(* is held in between.  What a handler reads before it takes the lock (the *)
(* fields of the VM exit, the translation of RIP) is read by an earlier    *)
(* action.  The guest is an arbitrary program: Insn fixes the instruction  *)
(* at every code location, control flow between locations is free.         *)
(***************************************************************************)
EXTENDS Naturals, Sequences

CONSTANTS
  Cpus,            \* logical processors, one Vm each
  Frames,          \* 4 KB physical frames above the first 2 MB
  LargePages,      \* 2 MB regions
  LargeOf,         \* [Frames -> LargePages]: align_down_to_large_page
  HeapPages,       \* frames the allocator can hand out as shadow pages
  DummyPage,       \* the 0xFF page of uefi/src/setup.rs
  AllocatedRanges, \* allocated_memory_ranges: <<first frame, set of frames>>
  Code,            \* guest code locations
  Functions,       \* the locations that hook commands may name
  PageOf,          \* [Code -> Frames]: guest page tables, VA to GPA
  Insn,            \* [Code -> Instructions]: the guest program
  InstrCount,      \* [Functions -> Nat]: instructions a detour overwrites
  Cacheable,       \* frames whose cached translations are followed; leaving
                   \* out one that is never remapped changes nothing
  None

BASE_PAGE_SIZE == 4096

Access == {"R", "W", "X"}
READ_WRITE == {"R", "W"}
EXECUTE_AND_READ == {"R", "X"} \* mutant: the shadow stays readable
EXECUTE == {"X"}
READ_WRITE_EXECUTE == {"R", "W", "X"}

\* `iter().step_by(BASE_PAGE_SIZE)` steps over the recorded ranges, not over
\* the pages of a range.
HiddenPages ==
  {AllocatedRanges[i][1] : i \in {j \in DOMAIN AllocatedRanges : (j - 1) % BASE_PAGE_SIZE = 0}}

\* One guest instruction: a plain one with its data accesses, the CPUID that
\* carries a command of the client, or a VMCALL.
Instructions ==
  [op : {"data", "enable", "disable", "vmcall"},
   data : SUBSET (Frames \X READ_WRITE),
   fn : Functions \cup {None}]

VmcallInsn == [op |-> "vmcall", data |-> {}, fn |-> None]

ASSUME FrameAssumption ==
  /\ None \notin Frames \cup Code \cup Cpus \cup Nat \cup BOOLEAN
  /\ LargeOf \in [Frames -> LargePages]
  /\ HeapPages \subseteq Frames
  /\ DummyPage \in Frames \ HeapPages
ASSUME RangeAssumption ==
  /\ HiddenPages \subseteq Frames \ (HeapPages \cup {DummyPage})
  /\ \A i \in DOMAIN AllocatedRanges : AllocatedRanges[i][1] \in AllocatedRanges[i][2]
ASSUME CodeAssumption ==
  /\ Functions \subseteq Code
  /\ PageOf \in [Code -> Frames]
  \* guest kernel code is neither hypervisor image nor hypervisor heap
  /\ \A l \in Code : PageOf[l] \notin HiddenPages \cup HeapPages \cup {DummyPage}
  /\ Insn \in [Code -> Instructions]
  /\ InstrCount \in [Functions -> Nat]

VARIABLES
  pt,                  \* PTEs of large_page_table_mappings, shared by all CPUs
  ptMapped,            \* keys of large_page_table_mappings
  guest_page_mappings, \* hooked frame -> shadow page and its hook
  content,             \* what a frame holds: the page it copies, its detours
  pde,                 \* per CPU: the page-directory entries of primary_ept
  tlb,                 \* per CPU: cached guest-physical translations
  vm,                  \* per CPU: guest state and the exit being handled
  lock                 \* holder of SHARED_HOOK_MANAGER between two actions

vars == <<pt, ptMapped, guest_page_mappings, content, pde, tlb, vm, lock>>

Entry == [hpa : Frames \cup {None}, perm : SUBSET Access]
NoEntry == [hpa |-> None, perm |-> {}]
LargeIdentity == [large |-> TRUE, perm |-> READ_WRITE_EXECUTE]
Identity(p) == [hpa |-> p, perm |-> READ_WRITE_EXECUTE]

Mapping == [shadow : Frames \cup {None}, func : Functions \cup {None}]
NoMapping == [shadow |-> None, func |-> None]

Phases == {"off", "hide", "guest", "violation", "cpuid", "vmcall", "vmcall_lock",
           "mtf", "mtf_lock", "panic"}

VmStates ==
  [phase : Phases,
   rip : Code,
   gpa : Frames \cup {None},        \* frame the handler works on
   qual : SUBSET Access,            \* permissions in the exit qualification
   insn : {"none", "enable", "disable"}, \* command of the CPUID exit
   fn : Functions \cup {None},
   rax : {"none", "Success", "Failure"},
   event : {"none", "UD"},
   mtf : BOOLEAN,
   mtf_counter : Nat \cup {None},
   old_rflags : BOOLEAN \cup {None}, \* RFLAGS abstracted to its IF bit
   rflags : BOOLEAN]

\* Types of the shared tables and of every CPU's state.
TypeOK ==
  /\ pt \in [Frames -> Entry]
  /\ ptMapped \in SUBSET LargePages
  /\ guest_page_mappings \in [Frames -> Mapping]
  /\ content \in [Frames -> [page : Frames, detours : SUBSET Functions]]
  /\ pde \in [Cpus -> [LargePages -> [large : BOOLEAN, perm : SUBSET Access]]]
  /\ tlb \in [Cpus -> [Frames -> Entry]]
  /\ vm \in [Cpus -> VmStates]
  /\ lock \in Cpus \cup {None}

-----------------------------------------------------------------------------
(* EPT primitives (intel/ept.rs)                                           *)

is_large_page(c, p) == pde[c][LargeOf[p]].large

\* The entry a walk of c's EPT ends at.
EptEntry(c, p) ==
  IF is_large_page(c, p)
  THEN [hpa |-> p, perm |-> pde[c][LargeOf[p]].perm]
  ELSE pt[p]

\* GPA to HPA through the current EPT.  The permissions of a page-table entry
\* are not looked at; those of a large entry must include reading, which only
\* a CPU on its way into a panic takes away.
translate_guest_pa_to_host_pa(c, p) == EptEntry(c, p).hpa

\* Guest page tables first, then the EPT: the result is a host address.
pa_from_va_with_current_cr3(c, l) == translate_guest_pa_to_host_pa(c, PageOf[l])

\* Mutant: the region is rewritten although this CPU has already split it.
PtAfterResplit(c, l) ==
  [p \in Frames |-> IF LargeOf[p] = l THEN Identity(p) ELSE pt[p]]

\* The page tables after CPU c has split region l, if it still maps it large:
\* all 512 entries of the shared table are rewritten.
PtAfterSplit(c, l) ==
  [p \in Frames |-> IF LargeOf[p] = l /\ pde[c][l].large THEN Identity(p) ELSE pt[p]]

SplitPde == [large |-> FALSE, perm |-> READ_WRITE_EXECUTE]

NoCache == [p \in Frames |-> NoEntry]

\* Mutant: the invalidation is forgotten.
KeepTlb(c) == UNCHANGED tlb

\* invept_all_contexts and invvpid_all_contexts act on the executing CPU only.
FlushTlb(c) == tlb' = [tlb EXCEPT ![c] = NoCache]

-----------------------------------------------------------------------------
(* Bookkeeping (intel/hooks/memory_manager.rs)                             *)

is_guest_page_processed(p) == guest_page_mappings[p].shadow # None

get_shadow_page(p) == guest_page_mappings[p].shadow

get_page_table_found(p) == LargeOf[p] \in ptMapped

unmap_guest_from_shadow_page(p) ==
  guest_page_mappings' = [guest_page_mappings EXCEPT ![p] = NoMapping]

\* Mutant: the table is not recorded in large_page_table_mappings.
map_no_page_to_pt(regions) == UNCHANGED ptMapped

\* map_large_page_to_pt: a table is allocated unless the region has one.
map_large_page_to_pt(regions) == ptMapped' = ptMapped \cup regions

\* Mutant: the allocator hands out a page that is still in use.
AnyHeapPage == HeapPages

FreeHeapPages == HeapPages \ {guest_page_mappings[p].shadow : p \in Frames}

\* The first store of swap_page, on the table just looked up: from here on the
\* entry has the new permissions and the old frame, and the lock is held.
modify_page_permissions(c, p, perm) ==
  /\ get_page_table_found(p)
  /\ ~is_large_page(c, p)
  /\ pt' = [pt EXCEPT ![p].perm = perm]
  /\ lock' = c
  /\ UNCHANGED <<pde, tlb>>

\* The second store of swap_page, then invalidation and the end of the
\* critical section.
remap_gpa_to_hpa(c, p, h) ==
  /\ pt' = [pt EXCEPT ![p].hpa = h]
  /\ FlushTlb(c)
  /\ lock' = None
  /\ UNCHANGED pde

\* PageTableNotFound; or LargePageRemapError, after the permissions of the
\* large PDE have already been changed.
swap_page_refused(c, p, perm) ==
  /\ get_page_table_found(p) => is_large_page(c, p)
  /\ pde' = IF get_page_table_found(p) THEN [pde EXCEPT ![c][LargeOf[p]].perm = perm] ELSE pde
  /\ UNCHANGED <<pt, tlb, lock>>

-----------------------------------------------------------------------------
(* Launch (vmm.rs): every CPU hides the hypervisor before it enters the    *)
(* guest.                                                                  *)

\* hide_hypervisor_memory takes the lock for all of its pages.
Launch(c) ==
  /\ vm[c].phase = "off"
  /\ lock = None
  /\ lock' = c
  /\ vm' = [vm EXCEPT ![c].phase = "hide"]
  /\ UNCHANGED <<pt, ptMapped, guest_page_mappings, content, pde, tlb>>

\* The pages the loop of c has still to come to: their region is large on its
\* fresh EPT, or it has just been split.
PagesToHide(c) == {p \in HiddenPages : is_large_page(c, p) \/ pt[p].hpa # DummyPage}

\* ept_hide_hypervisor_memory up to the first store of swap_page: the region
\* is split unless c has done so, which rewrites the table that all CPUs use
\* to the identity.  The permissions stored are those a hidden page has.
HideSplit(c) ==
  /\ vm[c].phase = "hide"
  /\ vm[c].gpa = None
  /\ \E p \in PagesToHide(c) :
       LET l == LargeOf[p] IN
       /\ map_large_page_to_pt({l})
       /\ pt' = [PtAfterSplit(c, l) EXCEPT ![p].perm = READ_WRITE_EXECUTE]
       /\ pde' = [pde EXCEPT ![c][l] = IF @.large THEN SplitPde ELSE @]
       /\ vm' = [vm EXCEPT ![c].gpa = p]
  /\ UNCHANGED <<guest_page_mappings, content, tlb, lock>>

\* The second store of swap_page: the dummy page.
HideFrame(c) ==
  /\ vm[c].phase = "hide"
  /\ vm[c].gpa # None
  /\ pt' = [pt EXCEPT ![vm[c].gpa].hpa = DummyPage]
  /\ FlushTlb(c)
  /\ vm' = [vm EXCEPT ![c].gpa = None]
  /\ UNCHANGED <<ptMapped, guest_page_mappings, content, pde, lock>>

\* All pages are hidden: the lock is released and the guest entered.
EnterGuest(c) ==
  /\ vm[c].phase = "hide"
  /\ vm[c].gpa = None
  /\ PagesToHide(c) = {}
  /\ lock' = None
  /\ vm' = [vm EXCEPT ![c].phase = "guest"]
  /\ UNCHANGED <<pt, ptMapped, guest_page_mappings, content, pde, tlb>>

AllLaunched == \A c \in Cpus : vm[c].phase \notin {"off", "hide"}

-----------------------------------------------------------------------------
(* The guest and the processor (external)                                  *)

Running(c) == vm[c].phase = "guest" /\ vm[c].event = "none"

\* The translation an access of c uses: cached, or from a walk.
Translation(c, p) ==
  IF tlb[c][p].hpa # None THEN tlb[c][p] ELSE EptEntry(c, p)

Fetchable(c) == "X" \in Translation(c, PageOf[vm[c].rip]).perm

\* The instructions CPU c may find at RIP.  A frame that holds another page
\* than the one RIP is in (a reused shadow page) may hold any bytes.
FetchedInsns(c) ==
  LET l == vm[c].rip
      frame == Translation(c, PageOf[l]).hpa
  IN  IF content[frame].page # PageOf[l]
      THEN {Insn[k] : k \in Code} \cup {VmcallInsn}
      ELSE IF l \in content[frame].detours THEN {VmcallInsn} ELSE {Insn[l]}

\* An access without permission leaves the guest and drops the translation
\* it used; the exit qualification holds that translation's permissions.
EptViolationExit(c, p) ==
  /\ vm' = [vm EXCEPT ![c].phase = "violation", ![c].gpa = p,
                      ![c].qual = Translation(c, p).perm, ![c].rax = "none"]
  /\ tlb' = [tlb EXCEPT ![c][p] = NoEntry]

\* An instruction was fetched and touched the pages in `data`: their
\* translations are cached.
CacheTranslations(c, data) ==
  tlb' = [tlb EXCEPT ![c] = [p \in Frames |->
            IF p \in Cacheable /\ (p = PageOf[vm[c].rip] \/ \E a \in data : a[1] = p)
            THEN Translation(c, p) ELSE @[p]]]

FetchFault(c) ==
  /\ Running(c)
  /\ ~Fetchable(c)
  /\ EptViolationExit(c, PageOf[vm[c].rip])
  /\ UNCHANGED <<pt, ptMapped, guest_page_mappings, content, pde, lock>>

DataFault(c) ==
  /\ Running(c)
  /\ Fetchable(c)
  /\ \E i \in FetchedInsns(c) :
       /\ i.op = "data"
       /\ \E a \in i.data :
            /\ a[2] \notin Translation(c, a[1]).perm
            /\ EptViolationExit(c, a[1])
  /\ UNCHANGED <<pt, ptMapped, guest_page_mappings, content, pde, lock>>

\* An instruction completes: its translations are cached, control goes
\* anywhere, and with the monitor trap flag set a VM exit follows.
Retire(c) ==
  /\ Running(c)
  /\ Fetchable(c)
  /\ \E i \in FetchedInsns(c), next \in Code :
       /\ i.op = "data"
       /\ \A a \in i.data : a[2] \in Translation(c, a[1]).perm
       /\ CacheTranslations(c, i.data)
       /\ vm' = [vm EXCEPT ![c].rip = next, ![c].rax = "none",
                           ![c].phase = IF vm[c].mtf THEN "mtf" ELSE "guest"]
  /\ UNCHANGED <<pt, ptMapped, guest_page_mappings, content, pde, lock>>

\* The client's CPUID, sent once the system has booted on all processors.
CpuidExit(c) ==
  /\ Running(c)
  /\ Fetchable(c)
  /\ AllLaunched
  /\ \E i \in FetchedInsns(c) :
       /\ i.op \in {"enable", "disable"}
       /\ vm' = [vm EXCEPT ![c].phase = "cpuid", ![c].insn = i.op, ![c].fn = i.fn,
                           ![c].rax = "none"]
  /\ CacheTranslations(c, {})
  /\ UNCHANGED <<pt, ptMapped, guest_page_mappings, content, pde, lock>>

VmcallExit(c) ==
  /\ Running(c)
  /\ Fetchable(c)
  /\ \E i \in FetchedInsns(c) : i.op = "vmcall"
  /\ vm' = [vm EXCEPT ![c].phase = "vmcall", ![c].rax = "none"]
  /\ CacheTranslations(c, {})
  /\ UNCHANGED <<pt, ptMapped, guest_page_mappings, content, pde, lock>>

\* An injected #UD takes the guest to some handler; with the monitor trap
\* flag set, a VM exit comes before the handler's first instruction.
DeliverEvent(c) ==
  /\ vm[c].phase = "guest"
  /\ vm[c].event = "UD"
  /\ \E next \in Code :
       vm' = [vm EXCEPT ![c].event = "none", ![c].rip = next,
                        ![c].phase = IF vm[c].mtf THEN "mtf" ELSE "guest"]
  /\ UNCHANGED <<pt, ptMapped, guest_page_mappings, content, pde, tlb, lock>>

\* The processor may drop a cached translation at any time.
Evict(c, p) ==
  /\ vm[c].phase = "guest"
  /\ tlb[c][p] # NoEntry
  /\ tlb' = [tlb EXCEPT ![c][p] = NoEntry]
  /\ UNCHANGED <<pt, ptMapped, guest_page_mappings, content, pde, vm, lock>>

-----------------------------------------------------------------------------
(* VM exit handlers                                                        *)

\* Return to the guest; the exit's fields are dead from here on.
Resumed(s) == [s EXCEPT !.phase = "guest", !.gpa = None, !.qual = {}, !.insn = "none", !.fn = None]

\* `.expect(...)` in the dispatch loop: the panic handler spins forever.
Panicked(s) == [Resumed(s) EXCEPT !.phase = "panic"]

\* Mutant: interrupts stay enabled while single-stepping.
SingleStepWithInterrupts(s, n) ==
  [s EXCEPT !.mtf_counter = n, !.mtf = TRUE, !.old_rflags = s.rflags]

\* Arm single-stepping: counter, monitor trap flag, RFLAGS saved, IF cleared.
SingleStep(s, n) ==
  [s EXCEPT !.mtf_counter = n, !.mtf = TRUE, !.old_rflags = s.rflags, !.rflags = FALSE]

\* RFLAGS as it was saved; without a saved value, OldRflagsNotSet.
restore_guest_interrupt_flag(s) ==
  IF s.old_rflags = None THEN Panicked(s) ELSE [Resumed(s) EXCEPT !.rflags = s.old_rflags]

\* Read and write but no execution was allowed: an attempt to execute.
SwitchToShadow(c) == {"R", "W"} \subseteq vm[c].qual /\ "X" \notin vm[c].qual

\* Only execution was allowed: an attempt to read or write.
SwitchToGuest(c) == "X" \in vm[c].qual /\ vm[c].qual \cap READ_WRITE = {}

\* handle_ept_violation, from the lock to the first store of swap_page.
HandleEptViolation(c) ==
  LET p == vm[c].gpa
      found == is_guest_page_processed(p)
      perm == IF SwitchToShadow(c) THEN EXECUTE ELSE READ_WRITE_EXECUTE
  IN
  /\ vm[c].phase = "violation"
  /\ lock = None
  /\ \/ /\ ~found
        /\ vm' = [vm EXCEPT ![c] = Panicked(@)]
        /\ UNCHANGED <<pt, pde, tlb, lock>>
     \/ /\ found /\ (SwitchToShadow(c) \/ SwitchToGuest(c))
        /\ modify_page_permissions(c, p, perm)
        /\ UNCHANGED vm
     \/ /\ found /\ (SwitchToShadow(c) \/ SwitchToGuest(c))
        /\ swap_page_refused(c, p, perm)
        /\ vm' = [vm EXCEPT ![c] = Panicked(@)]
     \/ /\ found /\ ~SwitchToShadow(c) /\ ~SwitchToGuest(c)
        /\ vm' = [vm EXCEPT ![c] = IF get_page_table_found(p) THEN Resumed(@) ELSE Panicked(@)]
        /\ UNCHANGED <<pt, pde, tlb, lock>>
  /\ UNCHANGED <<ptMapped, guest_page_mappings, content>>

\* handle_ept_violation, from the second store of swap_page on.
EptViolationSwapped(c) ==
  LET p == vm[c].gpa IN
  /\ vm[c].phase = "violation"
  /\ lock = c
  /\ \/ /\ SwitchToShadow(c)
        /\ remap_gpa_to_hpa(c, p, get_shadow_page(p))
        /\ vm' = [vm EXCEPT ![c] = Resumed(@)]
     \/ /\ SwitchToGuest(c)
        /\ remap_gpa_to_hpa(c, p, p)
        /\ vm' = [vm EXCEPT ![c] = SingleStep(Resumed(@), 1)]
  /\ UNCHANGED <<ptMapped, guest_page_mappings, content>>

\* handle_vmcall translates RIP through the EPT before it takes the lock.
VmcallTranslate(c) ==
  /\ vm[c].phase = "vmcall"
  /\ vm' = [vm EXCEPT ![c].phase = "vmcall_lock",
                      ![c].gpa = pa_from_va_with_current_cr3(c, vm[c].rip)]
  /\ UNCHANGED <<pt, ptMapped, guest_page_mappings, content, pde, tlb, lock>>

\* The instructions under the first hook_size bytes of l in frame p: one, the
\* VMCALL itself, where the frame carries a detour already.
calculate_instruction_count(p, l) == IF l \in content[p].detours THEN 1 ELSE InstrCount[l]

\* handle_vmcall, from the lock to the first store of swap_page.
HandleVmcall(c) ==
  LET p == vm[c].gpa IN
  /\ vm[c].phase = "vmcall_lock"
  /\ lock = None
  /\ \/ /\ ~is_guest_page_processed(p)
        /\ vm' = [vm EXCEPT ![c] = [Resumed(@) EXCEPT !.event = "UD"]]
        /\ UNCHANGED <<pt, pde, tlb, lock>>
     \/ /\ is_guest_page_processed(p)
        /\ swap_page_refused(c, p, READ_WRITE_EXECUTE)
        /\ vm' = [vm EXCEPT ![c] = Panicked(@)]
     \/ /\ is_guest_page_processed(p)
        /\ modify_page_permissions(c, p, READ_WRITE_EXECUTE)
        /\ UNCHANGED vm
  /\ UNCHANGED <<ptMapped, guest_page_mappings, content>>

\* handle_vmcall, from the second store of swap_page on.
VmcallSwapped(c) ==
  LET p == vm[c].gpa IN
  /\ vm[c].phase = "vmcall_lock"
  /\ lock = c
  /\ remap_gpa_to_hpa(c, p, p)
  /\ vm' = [vm EXCEPT ![c] =
              IF guest_page_mappings[p].func = vm[c].rip
              THEN SingleStep(Resumed(@), calculate_instruction_count(p, vm[c].rip))
              ELSE Panicked(@)]
  /\ UNCHANGED <<ptMapped, guest_page_mappings, content>>

\* Mutant: the VM entry is counted as an instruction too, without saturation.
overshooting_dec(n) == n - 2

saturating_dec(n) == IF n = 0 THEN 0 ELSE n - 1

\* handle_monitor_trap_flag up to the lock: count down; at zero clear the
\* flag and translate RIP.
HandleMtf(c) ==
  LET n == vm[c].mtf_counter
      left == saturating_dec(n)
  IN
  /\ vm[c].phase = "mtf"
  /\ vm' = [vm EXCEPT ![c] =
       IF n = None THEN Panicked(@)
       ELSE IF left > 0 THEN [@ EXCEPT !.phase = "guest", !.mtf_counter = left]
       ELSE [@ EXCEPT !.phase = "mtf_lock", !.mtf_counter = left, !.mtf = FALSE,
                      !.gpa = pa_from_va_with_current_cr3(c, vm[c].rip)]]
  /\ UNCHANGED <<pt, ptMapped, guest_page_mappings, content, pde, tlb, lock>>

\* handle_monitor_trap_flag, from the lock to the first store of swap_page:
\* the page RIP is in now is switched to its shadow.
RestoreHook(c) ==
  LET p == vm[c].gpa IN
  /\ vm[c].phase = "mtf_lock"
  /\ lock = None
  /\ \/ /\ ~is_guest_page_processed(p)
        /\ vm' = [vm EXCEPT ![c] = Panicked(@)]
        /\ UNCHANGED <<pt, pde, tlb, lock>>
     \/ /\ is_guest_page_processed(p)
        /\ swap_page_refused(c, p, EXECUTE)
        /\ vm' = [vm EXCEPT ![c] = Panicked(@)]
     \/ /\ is_guest_page_processed(p)
        /\ modify_page_permissions(c, p, EXECUTE)
        /\ UNCHANGED vm
  /\ UNCHANGED <<ptMapped, guest_page_mappings, content>>

\* handle_monitor_trap_flag, from the second store of swap_page on: RFLAGS is
\* restored last.
HookRestored(c) ==
  LET p == vm[c].gpa IN
  /\ vm[c].phase = "mtf_lock"
  /\ lock = c
  /\ remap_gpa_to_hpa(c, p, get_shadow_page(p))
  /\ vm' = [vm EXCEPT ![c] = restore_guest_interrupt_flag(@)]
  /\ UNCHANGED <<ptMapped, guest_page_mappings, content>>

\* CPUID ends with IncrementRIP; where the guest goes next is its business.
CommandDone(c, status) ==
  \E next \in Code : vm' = [vm EXCEPT ![c] = [Resumed(@) EXCEPT !.rax = status, !.rip = next]]

\* Neither an export nor a system service carries the hash.
CommandUnresolved(c) ==
  /\ vm[c].phase = "cpuid"
  /\ vm[c].fn = None
  /\ lock = None
  /\ CommandDone(c, "Failure")
  /\ UNCHANGED <<pt, ptMapped, guest_page_mappings, content, pde, tlb, lock>>

\* ept_hook_function: the address is translated, and the region split unless
\* this CPU has done so.
EnableHook(c) ==
  LET f == vm[c].fn
      p == pa_from_va_with_current_cr3(c, f)
      l == LargeOf[p]
  IN
  /\ vm[c].phase = "cpuid"
  /\ vm[c].insn = "enable"
  /\ f # None
  /\ lock = None
  /\ map_large_page_to_pt({l})
  /\ pt' = PtAfterSplit(c, l)
  /\ pde' = [pde EXCEPT ![c][l] = IF @.large THEN SplitPde ELSE @]
  /\ lock' = c
  /\ vm' = [vm EXCEPT ![c].gpa = p]
  /\ UNCHANGED <<guest_page_mappings, content, tlb>>

\* ept_hook_function, after the split: the shadow page with its detour, then
\* the permissions of the page, then invalidation.
InstallHook(c) ==
  LET f == vm[c].fn
      p == vm[c].gpa
  IN
  /\ vm[c].phase = "cpuid"
  /\ vm[c].insn = "enable"
  /\ lock = c
  /\ \/ /\ is_guest_page_processed(p)      \* skipped, and reported as success
        /\ CommandDone(c, "Success")
        /\ lock' = None
        /\ UNCHANGED <<pt, guest_page_mappings, content, tlb>>
     \/ /\ ~is_guest_page_processed(p)
        /\ \E s \in FreeHeapPages :
             /\ guest_page_mappings' = [guest_page_mappings EXCEPT ![p] = [shadow |-> s, func |-> f]]
             /\ content' = [content EXCEPT ![s] = [page |-> content[p].page,
                                                   detours |-> content[p].detours \cup {f}]]
        /\ pt' = [pt EXCEPT ![p].perm = READ_WRITE]
        /\ FlushTlb(c)
        /\ CommandDone(c, "Success")
        /\ lock' = None
     \/ /\ ~is_guest_page_processed(p)     \* box_zeroed: out of memory
        /\ FreeHeapPages = {}
        /\ vm' = [vm EXCEPT ![c] = Panicked(@)]
        /\ UNCHANGED <<pt, guest_page_mappings, content, tlb, lock>>
  /\ UNCHANGED <<ptMapped, pde>>

\* Mutant: the shadow page is released before the page is swapped back.
DisableHookUnmapFirst(c) ==
  LET f == vm[c].fn
      p == pa_from_va_with_current_cr3(c, f)
  IN
  /\ vm[c].phase = "cpuid"
  /\ vm[c].insn = "disable"
  /\ f # None
  /\ lock = None
  /\ unmap_guest_from_shadow_page(p)
  /\ \/ swap_page_refused(c, p, READ_WRITE_EXECUTE) /\ CommandDone(c, "Failure")
     \/ /\ modify_page_permissions(c, p, READ_WRITE_EXECUTE)
        /\ vm' = [vm EXCEPT ![c].gpa = p]
  /\ UNCHANGED <<ptMapped, content>>

\* ept_unhook_function, to the first store of swap_page.
DisableHook(c) ==
  LET f == vm[c].fn
      p == pa_from_va_with_current_cr3(c, f)
  IN
  /\ vm[c].phase = "cpuid"
  /\ vm[c].insn = "disable"
  /\ f # None
  /\ lock = None
  /\ \/ /\ swap_page_refused(c, p, READ_WRITE_EXECUTE)
        /\ CommandDone(c, "Failure")
     \/ /\ modify_page_permissions(c, p, READ_WRITE_EXECUTE)
        /\ vm' = [vm EXCEPT ![c].gpa = p]
  /\ UNCHANGED <<ptMapped, guest_page_mappings, content>>

\* ept_unhook_function, from the second store of swap_page on: the shadow page
\* is released last.
HookRemoved(c) ==
  LET p == vm[c].gpa IN
  /\ vm[c].phase = "cpuid"
  /\ vm[c].insn = "disable"
  /\ lock = c
  /\ remap_gpa_to_hpa(c, p, p)
  /\ unmap_guest_from_shadow_page(p)
  /\ CommandDone(c, IF is_guest_page_processed(p) THEN "Success" ELSE "Failure")
  /\ UNCHANGED <<ptMapped, content>>

-----------------------------------------------------------------------------

Init ==
  /\ pt = [p \in Frames |-> NoEntry]
  /\ ptMapped = {}
  /\ guest_page_mappings = [p \in Frames |-> NoMapping]
  /\ content = [p \in Frames |-> [page |-> p, detours |-> {}]]
  /\ pde = [c \in Cpus |-> [l \in LargePages |-> LargeIdentity]]
  /\ tlb = [c \in Cpus |-> NoCache]
  /\ vm \in [Cpus -> {[phase |-> "off", rip |-> l, gpa |-> None, qual |-> {}, insn |-> "none",
                       fn |-> None, rax |-> "none", event |-> "none", mtf |-> FALSE,
                       mtf_counter |-> None, old_rflags |-> None, rflags |-> TRUE] : l \in Code}]
  /\ lock = None

GuestProgress(c) ==
  \/ FetchFault(c)
  \/ DataFault(c)
  \/ Retire(c)
  \/ CpuidExit(c)
  \/ VmcallExit(c)
  \/ DeliverEvent(c)

GuestStep(c) == GuestProgress(c) \/ \E p \in Frames : Evict(c, p)

HostStep(c) ==
  \/ HandleEptViolation(c) \/ EptViolationSwapped(c)
  \/ VmcallTranslate(c)
  \/ HandleVmcall(c) \/ VmcallSwapped(c)
  \/ HandleMtf(c)
  \/ RestoreHook(c) \/ HookRestored(c)
  \/ CommandUnresolved(c)
  \/ EnableHook(c) \/ InstallHook(c)
  \/ DisableHook(c) \/ HookRemoved(c)

LaunchStep(c) == Launch(c) \/ HideSplit(c) \/ HideFrame(c) \/ EnterGuest(c)

Next == \E c \in Cpus : LaunchStep(c) \/ GuestStep(c) \/ HostStep(c)

Spec == Init /\ [][Next]_vars

-----------------------------------------------------------------------------
(* Safety                                                                  *)

\* A page-table entry that does not map its own frame maps the dummy page of
\* a hidden page, or the shadow page that guest_page_mappings holds for it at
\* this moment: ept_unhook_function never frees a shadow page that an EPT
\* still reaches, and no handler installs a frame it looked up earlier.
NoDanglingShadow ==
  \A p \in Frames :
    pt[p].hpa \notin {None, p} =>
      \/ p \in HiddenPages /\ pt[p].hpa = DummyPage
      \/ is_guest_page_processed(p) /\ pt[p].hpa = get_shadow_page(p)

\* CPU c is between the two stores of a swap_page that takes page p back to its
\* original frame.
Reopening(c, p) ==
  /\ lock = c
  /\ vm[c].gpa = p
  /\ \/ vm[c].phase = "violation" /\ SwitchToGuest(c)
     \/ vm[c].phase = "vmcall_lock"
     \/ vm[c].phase = "cpuid" /\ vm[c].insn = "disable"

\* A page table maps a shadow page readable or writable only between the two
\* stores of swap_page by which the holder of the lock takes that very page
\* back to its original: whatever order CPUs enable, disable, fault and
\* single-step in, at rest a walk for a read ends at original bytes.  (In that
\* window a walk of another CPU may end at the detour, and cache it.)
ShadowExecuteOnly ==
  \A p \in Frames :
    pt[p].hpa \in HeapPages \ {p} /\ pt[p].perm \cap READ_WRITE # {} =>
      \E c \in Cpus : Reopening(c, p)

\* Two hooked pages never share a shadow page, and no hooked page is its own.
ShadowsDistinct ==
  \A p, q \in Frames :
    is_guest_page_processed(p) =>
      /\ get_shadow_page(p) # p
      /\ get_shadow_page(p) = get_shadow_page(q) => p = q

\* A region that some CPU has split, or that has a hooked page, has a page
\* table, so PageTableNotFound cannot end an exit handler.
TablesPresent ==
  /\ \A c \in Cpus, l \in LargePages : ~pde[c][l].large => l \in ptMapped
  /\ \A p \in Frames : is_guest_page_processed(p) => LargeOf[p] \in ptMapped

\* CPU d is launching and has rewritten the table of p's region.
Resplitting(d, p) == vm[d].phase = "hide" /\ ~is_large_page(d, p)

\* Once a CPU runs the guest, the hidden pages of the hypervisor image stay
\* behind the dummy page on that CPU, whatever regions are split later, except
\* while another CPU is launching and has split the region they share: that
\* split shows the page until the second store of its swap_page.
HiddenStaysHidden ==
  \A c \in Cpus, p \in HiddenPages :
    vm[c].phase \notin {"off", "hide"} =>
      EptEntry(c, p).hpa = DummyPage \/ \E d \in Cpus : Resplitting(d, p)

\* While the monitor trap flag is set, the counter and the saved RFLAGS the
\* MTF handler needs are there (MtfCounterNotSet and OldRflagsNotSet cannot
\* happen) and the guest takes no interrupt.
SteppingIsPrepared ==
  \A c \in Cpus :
    vm[c].mtf \/ vm[c].phase \in {"mtf", "mtf_lock"} =>
      vm[c].mtf_counter # None /\ vm[c].old_rflags # None /\ ~vm[c].rflags

\* Every shadow page comes from the heap.
ShadowsFromHeap ==
  \A p \in Frames : is_guest_page_processed(p) => get_shadow_page(p) \in HeapPages

\* A region with a page table has all its entries filled in, so translating
\* an address never meets the zeroes of box_zeroed.
TablesFilled ==
  \A p \in Frames : LargeOf[p] \in ptMapped => pt[p].hpa # None

\* A handler that waits for the lock has a frame to work on.
ExitHasFrame ==
  \A c \in Cpus : vm[c].phase \in {"violation", "vmcall_lock", "mtf_lock"} => vm[c].gpa \in Frames

\* The handler that waits to restore a hook has cleared the trap flag.
FlagClearedFirst ==
  \A c \in Cpus : vm[c].phase = "mtf_lock" => ~vm[c].mtf

\* HiddenStaysHidden, strengthened: every running CPU has split the region,
\* and no hidden page is ever hooked.
HiddenPagesPinned ==
  \A p \in HiddenPages :
    /\ ~is_guest_page_processed(p)
    /\ \A c \in Cpus :
         vm[c].phase \notin {"off", "hide"} =>
           ~is_large_page(c, p) /\ (pt[p].hpa = DummyPage \/ \E d \in Cpus : Resplitting(d, p))

\* A CPU hides pages under the lock, only hidden pages, and splits their region
\* first.
LaunchInv ==
  \A c \in Cpus :
    /\ vm[c].phase = "off" => vm[c].gpa = None
    /\ vm[c].phase = "hide" =>
         /\ lock = c
         /\ vm[c].gpa # None => vm[c].gpa \in HiddenPages /\ ~is_large_page(c, vm[c].gpa)

\* CPU c is between the two stores of swap_page.
Swapping(c) ==
  /\ lock = c
  /\ \/ vm[c].phase \in {"violation", "vmcall_lock", "mtf_lock"}
     \/ vm[c].phase = "cpuid" /\ vm[c].insn = "disable"

\* CPU c is between the split of a region and the installation of a hook.
Enabling(c) == lock = c /\ vm[c].phase = "cpuid" /\ vm[c].insn = "enable"

\* What CPU c found out before the first store of its critical section still
\* holds at the second one, and the entry has the permissions it stored.
Midway(c) ==
  LET p == vm[c].gpa IN
  /\ lock = c => Swapping(c) \/ Enabling(c) \/ vm[c].phase \in {"hide", "panic"}
  /\ Swapping(c) \/ Enabling(c) =>
       p \in Frames \ HiddenPages /\ get_page_table_found(p) /\ ~is_large_page(c, p)
  /\ Swapping(c) =>
       /\ vm[c].phase # "cpuid" => is_guest_page_processed(p)
       /\ vm[c].phase = "violation" => SwitchToShadow(c) \/ SwitchToGuest(c)
       /\ pt[p].perm = IF Reopening(c, p) THEN READ_WRITE_EXECUTE ELSE EXECUTE
  /\ Enabling(c) => vm[c].fn # None /\ p \notin FreeHeapPages

HolderInv == \A c \in Cpus : Midway(c)

\* A refused swap_page takes a permission from a whole 2 MB region only on its
\* way into a panic: no CPU runs on with such an entry.
LargeEntriesOpen ==
  \A c \in Cpus, l \in LargePages :
    pde[c][l].large /\ vm[c].phase # "panic" => pde[c][l].perm = READ_WRITE_EXECUTE

\* The inductive invariant: what the page tables, the shadow bookkeeping and
\* the page directories owe each other, and what a handler has made of them when
\* it is between two stores.
IndInv ==
  /\ TypeOK
  /\ TablesPresent
  /\ TablesFilled
  /\ ExitHasFrame
  /\ FlagClearedFirst
  /\ ShadowsFromHeap
  /\ ShadowsDistinct
  /\ NoDanglingShadow
  /\ ShadowExecuteOnly
  /\ HiddenPagesPinned
  /\ SteppingIsPrepared
  /\ LargeEntriesOpen
  /\ LaunchInv
  /\ HolderInv

\* Except between the two stores of its own swap_page, a CPU holds no
\* translation that its EPT does not give any more.  (Holds on a single
\* processor; invept does not reach the others.)
TlbCoherent ==
  \A c \in Cpus, p \in Frames :
    tlb[c][p] # NoEntry /\ ~Swapping(c) => tlb[c][p] = EptEntry(c, p)

\* On a single processor the page directory and the shared tables agree:
\* ptMapped holds exactly the regions the processor has split, and nothing
\* takes a permission away from a large entry.
OneView ==
  \A c \in Cpus, l \in LargePages :
    /\ l \in ptMapped => ~pde[c][l].large
    /\ pde[c][l].large => pde[c][l].perm = READ_WRITE_EXECUTE

\* A page that lacks a permission is hooked.
ClosedIsHooked ==
  \A p \in Frames :
    pt[p].hpa # None /\ pt[p].perm # READ_WRITE_EXECUTE => is_guest_page_processed(p)

\* The page of a pending violation is still hooked.
ViolationIsHooked ==
  \A c \in Cpus : vm[c].phase = "violation" => is_guest_page_processed(vm[c].gpa)

\* The inductive invariant of a single processor: IndInv, and what only an
\* EPT that nobody else changes keeps true.
UniInv ==
  /\ IndInv
  /\ OneView
  /\ ClosedIsHooked
  /\ ViolationIsHooked
  /\ TlbCoherent

\* With one processor, a violation that a hook caused always finds the hook:
\* `.expect("Failed to handle EPT violation")` in vmm.rs cannot fail.  (With
\* two, a hook may be disabled between the exit and the handler's lock.)
ViolationIsHandled ==
  [][\A c \in Cpus : vm[c].phase = "violation" => vm'[c].phase # "panic"]_vars

\* ept_hook_function: "These operations are performed only once per guest page
\* to avoid overwriting existing hooks on the same page".  With one processor,
\* an enable command leaves the entries of pages that are hooked already as
\* they are.  (With two it does not: whether the region is split is asked of
\* the processor's own EPT, and the first enable command on the second one
\* rewrites the page table that both use.)
EnableKeepsHooks ==
  [][\A c \in Cpus, p \in Frames :
       vm[c].phase = "cpuid" /\ vm[c].insn = "enable" /\ is_guest_page_processed(p)
       => pt'[p] = pt[p]]_vars

-----------------------------------------------------------------------------
(* What comments and documentation of the code say; TLC refutes each of    *)
(* these on the model.                                                     *)

\* mtf.rs: "ensures single stepping through overwritten instructions on a
\* hooked function".  A #UD answers only a VMCALL of the guest's own, never
\* the VMCALL that a detour put at the start of a hooked function.
DetourIsRecognised ==
  \A c \in Cpus : vm[c].event = "UD" => Insn[vm[c].rip].op = "vmcall"

\* ept_violation.rs: the page is opened "to allow the instruction performing a
\* read-write operation and then switch back to execute-only shadow page".
\* When the step is over, the page that was opened is switched back and the
\* guest goes on: a read of a hooked page does not stop the processor.
StepSwitchesBack ==
  [][\A c \in Cpus : vm[c].phase = "mtf_lock" => vm'[c].phase # "panic"]_vars
=============================================================================
