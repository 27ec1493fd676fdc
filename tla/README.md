# Verification of the illusion-rs hypervisor

illusion-rs is a type-1 hypervisor for Intel VT-x. A UEFI application starts it
on every logical processor before Windows boots; from then on it runs the
operating system as its guest, hides its own memory, and lets a program in the
guest (the client) install and remove hooks on kernel functions through a CPUID
back door. This directory holds TLA+ models of its core, the TLC configurations
that check them, and TLAPS proofs.

## 1. Inventory

### 1.1 Components

| Component | Code | State | Operations | Modelled in |
|---|---|---|---|---|
| Hook manager | `hypervisor/src/intel/hooks/*` | one `HookManager` behind `SHARED_HOOK_MANAGER` (spin lock): `guest_page_mappings` (hooked page → shadow page, hooks), `large_page_table_mappings` (2 MB region → page table), `allocated_memory_ranges`, MSR bitmap, kernel base | hide hypervisor memory, install and remove an EPT hook | `EptHooks` |
| Extended page tables | `intel/ept.rs`, `invept.rs`, `invvpid.rs` | per processor: PML4, PDPT, PDs; the page tables of split regions are the shared ones | build the identity map, translate, split, change permissions, remap, swap, invalidate | `IdentityMap` (building), `EptHooks` |
| Hook exits | `vmexit/ept_violation.rs`, `vmcall.rs`, `mtf.rs` | per `Vm`: `mtf_counter`, `old_rflags`, monitor trap flag | swap a page to shadow or original, single-step, restore | `EptHooks` |
| Back door | `vmexit/cpuid.rs`, `commands.rs`, `shared/`, `client/src/hvapi` | status in RAX; the client keeps the CR3 of the process it opened | enable and disable hooks; open a process, read and write its memory | `EptHooks` (hook commands), `GuestMemory` (the others) |
| Heap allocator | `hypervisor/src/allocator.rs` | a list of links threaded through a static 64 MB heap, `ALLOCATOR_MUTEX` | reset, alloc, dealloc, realloc | `ListHeap`, `Allocator` |
| Control registers, INIT, SIPI | `vmexit/cr.rs`, `xsetbv.rs`, `init.rs`, `sipi.rs`, `vmxon.rs`, `vmcs.rs` | guest CR0/CR4 and read shadows, masks, XCR0, 64-bit mode control, activity state, pending event | MOV to CR0/CR4, LMSW, XSETBV, VMX instructions, INIT, SIPI | `ControlRegs` |
| MSR exits | `vmexit/msr.rs`, `bitmap.rs` | shared MSR bitmap, kernel base | intercept the LSTAR write, find the kernel, mask IA32_FEATURE_CONTROL | `MsrExits` |
| MTRR | `intel/mtrr.rs` | list of ranges | read the ranges, look up the memory type of a region | `IdentityMap` |
| Guest memory | `addresses.rs`, `paging.rs`, `windows/eprocess` | the host page tables; nothing of its own about the guest | build the host map, walk the guest's page tables and process list, read and write guest memory | `GuestMemory`, `IdentityMap`; translation of code in `EptHooks` |
| Start | `uefi/`, `loader/`, `vmm.rs`, `vm.rs` | where the boot processor is, the stage of each processor, recorded ranges | start the hypervisor, record allocations, virtualize each processor, choose and start Windows | `Boot` |
| Windows introspection | `windows/nt`, `windows/ssdt` | none | parse PE exports and the SSDT | no (its result is an input) |
| Other exits | `halt.rs`, `invd.rs`, `rdtsc.rs`, `ept_misconfiguration.rs`, `exception.rs` | none | execute one instruction for the guest, or stop | `#UD` exits in `ControlRegs` |
| VMX set-up, logger, errors, client, build tasks | `vmxon.rs`, `controls.rs`, `logger.rs`, `client/`, `xtask/` | — | straight-line set-up, printing, a command line | no |

### 1.2 How the parts interact

Every logical processor runs its own `start_hypervisor` loop on its own `Vm`
(VMCS, private EPT page directories). They share exactly four things: the
`HookManager`, the page tables it owns (reached from all processors' page
directories), the heap, and the MSR bitmap. The first is protected by a spin
lock that handlers take *after* they have read the exit fields and translated
RIP; the heap has a lock of its own, taken inside the first. Page tables are
read by the processors' page walks without any lock, and cached in TLBs that
only the owning processor invalidates. A handler's error reaches `expect` in
`vmm.rs` and stops that processor for good; a lock held then stays taken.

### 1.3 What is hard here

* Four kinds of exit on several processors change one shared page-table entry,
  each from a value read before the lock (`ept_violation.rs:64`, `vmcall.rs:45`,
  `mtf.rs:41`).
* Whether a region is split is a fact of one processor, what the page table
  holds is a fact of all (`hook_manager.rs:346`).
* An entry of the shared tables changes in two stores, and a launching processor
  rewrites a whole shared table before it hides its page again, while the others'
  walks read it (`ept.rs:465`, `hook_manager.rs:275`).
* Shadow pages are freed while other processors may still have them cached
  (`ept.rs:472`).
* Single-stepping spans several exits, and any other exit can come in between.
* The allocator's correctness is arithmetic on addresses at the boundary
  between a block and the next link, and its list must survive any order of
  calls from all processors.
* A guest's view of CR0 and CR4 is put together from two registers, and an
  inconsistent combination makes VM entry fail, which stops the processor.
* Each of the seven stages of virtualizing a processor can fail, while others are
  guests already; and a processor's LSTAR write may be handled after another
  processor has ended the interception (`msr.rs:123`).
* A 2 MB region keeps permissions meant for one page when the second half of
  `swap_page` is refused.
* A memory command keeps host addresses across a copy while the guest's other
  processors move pages, hook them, and end and start processes
  (`addresses.rs:266`, `eprocess/mod.rs:214`); only the first page of a buffer is
  translated (`addresses.rs:175`); each read of a process structure may fail or find
  freed memory (`eprocess/mod.rs:201`), and CR3 is used with its low bits
  (`paging.rs:112`).
* Whether an MTRR covers a region is decided by an inclusive against an exclusive
  end (`mtrr.rs:82`).

`PROJECT.json` lists each of these under `hazards`, at its line.

### 1.4 What makes each component correct

* *Hook engine*: no page table maps a freed page; outside a swap nobody's walk for a
  read ends at a shadow page; hidden pages stay hidden once all processors run; single-stepping always finds what it saved; a hook,
  once installed, stays until it is removed; a hooked function still runs.
* *Heap*: blocks never overlap each other or a link, nothing leaks, null means
  no room, every call returns.
* *Control registers*: VM entry does not fail its checks; the host's own XSETBV does
  not fault; the guest reads what it wrote; a
  processor started by INIT and SIPI reaches protected mode.
* *MSR*: no LSTAR write is lost, the kernel is found, VMX looks disabled, every
  exit ends. *Start*: Windows runs on virtualized processors only, with the
  start of the hypervisor's image hidden, and the loader comes to an end.
* *MTRR and identity maps*: both maps are the identity; a region has the type the
  processor gives to its bytes. *Guest memory*: the walk finds what the processor
  finds, a command moves the bytes asked for and writes nowhere else, an opened
  process is the one asked for, and every command ends.

## 2. Modules

| Module | Models | Extends / instantiates |
|---|---|---|
| `EptHooks` | hook engine on several processors | |
| `MCEptHooks` | two instances for TLC | `EptHooks` |
| `EptHooksProofs` | invariants of the hook engine | `EptHooks` |
| `EptHooksUniProofs` | what holds with one processor only | `EptHooksProofs` |
| `Allocator` | what callers of `GlobalAlloc` may assume | |
| `ListHeap` | `allocator.rs` | instantiates `Allocator` |
| `MCListHeap` | an instance for TLC | `ListHeap` |
| `ListHeapProofs` | invariants and refinement | `ListHeap` |
| `ControlRegs` | control-register exits, INIT, SIPI | |
| `MCControlRegs` | an instance for TLC | `ControlRegs` |
| `ControlRegsProofs` | VM entry and read-back | `ControlRegs` |
| `MsrExits` | MSR exits, shared MSR bitmap (actions without a specification of its own) | |
| `Boot` | loader, start of the processors, and Windows using `MsrExits` | `MsrExits` |
| `MCBoot` | an instance for TLC | `Boot` |
| `BootProofs` | invariants of start and MSR exits | `Boot` |
| `IdentityMap` | host page tables, MTRRs, EPT at set-up | |
| `MCIdentityMap` | an instance for TLC | `IdentityMap` |
| `IdentityMapProofs` | both maps and the memory types | `IdentityMap` |
| `GuestMemory` | memory commands of the back door against a running guest | |
| `MCGuestMemory` | an instance for TLC | `GuestMemory` |
| `GuestMemoryProofs` | walk, transfers, confinement, open | `GuestMemory` |

`PROJECT.json` maps every definition to the lines it models. A definition with a
comment that starts with "Mutant:" is a plausible mistake in the definition that
follows it; the project checks that each property notices its mutant.

### 2.1 EptHooks

State: `pt` (the entries of the shared page tables, by frame), `ptMapped` (which
regions have one), `guest_page_mappings`, `content` (which page's bytes a frame
holds and which detours are in it), per processor `pde` (the entry of each 2 MB
region: large, or pointing to the shared table), `tlb`, and `vm` (RIP, the exit in
progress with the fields it read, trap flag, counter, saved RFLAGS), and `lock`.

A handler is cut where another processor can see or change something. What it
reads before the lock is an action of its own (`VmcallTranslate`/`HandleVmcall`,
`HandleMtf`/`RestoreHook`, and the exit itself, which stores the exit qualification,
before `HandleEptViolation`). Under the lock it is cut between two stores to the
shared tables, which the other processors' walks read without any lock:

* the two stores of `swap_page`, `modify_page_permissions` and `remap_gpa_to_hpa`:
  `HandleEptViolation`/`EptViolationSwapped`, `HandleVmcall`/`VmcallSwapped`,
  `RestoreHook`/`HookRestored`, `DisableHook`/`HookRemoved`;
* the split of a region and the installation of a hook in it:
  `EnableHook`/`InstallHook`;
* at launch, taking the lock (`Launch`), the split of the region of a hidden page
  (`HideSplit`), the dummy page (`HideFrame`), the release and the first entry
  (`EnterGuest`). The permissions that the first store of this `swap_page` writes are
  those the entry has already, so it is part of `HideSplit`.

One step are still: the 512 entries a split writes (the properties are about single
entries, and nothing relates two of them half way), the clearing and the bit
setters of one entry (consecutive plain changes of one word, without a call between them,
which the release build makes one store), and clearing and
rewriting the processor's own page-directory entry, which no other processor walks.

The windows this opens are in the properties. Between the stores of a swap that takes
a page back, the page table maps the shadow page readable (`Reopening`): a walk of
another processor can read the detour and cache that translation. While a processor
that launches has split the region of a hidden page, the others see that page
(`Resplitting`); APs launch one at a time while earlier processors already run the
firmware as guests, so this really happens.

The guest is an arbitrary program: `Insn` fixes what each code location does, control
flow between locations is unconstrained, translations are cached on use and dropped at
any time. A frame that has been freed and reused holds arbitrary bytes.

Left out, and why: guest page tables never fail for code that executes;
frames lie above the first 2 MB (the code maps those by 4 KB pages from the
start); page tables come from memory that is not counted against the shadow
pages; the guest does not change its own interrupt flag while single-stepping;
commands arrive once all processors are launched, because the client runs under
the booted system; a page has one `HookInfo`, because the branch that pushes a
second one (`memory_manager.rs:101`) is reached only for pages that
`ept_hook_function` has already skipped; `hide_hypervisor_memory` does not fail (its
errors are a missing table and unaligned addresses); `get_current_process_info`
(`vmm.rs:101`), which every exit calls for the log, changes nothing.

### 2.2 ListHeap and Allocator

`ListHeap` keeps the links (`next`, `size`), the lock, one call per processor and
the blocks the callers hold. Addresses are in units of 8 bytes, so a link (16
bytes, 16-byte aligned) is two units. A call and what it does under the lock are
separate actions. Callers own the blocks they pass, and pass neither null nor
zero sizes, as `GlobalAlloc` demands. The copy in `realloc` (lines 303–313) is not
modelled because it cannot be reached: the call of `alloc` before it never
returns. `FirstFit` takes the lowest link that fits, which is the first on the
list because the list is in address order (`ListOrdered`, an invariant).

`Allocator` is the contract: a set of blocks, where `alloc` adds an aligned block
that overlaps none, or nothing.

### 2.3 ControlRegs

A register is the set of its bits that are 1; bits the code treats alike are one
bit. A write exits when it would change a bit of the guest/host mask, as the
processor decides it, and otherwise the processor performs it with its own
checks. `handle_mov_to_cr0` and `handle_mov_to_cr4` are the fault checks, the
unimplemented case and the double write of shadow and real register, in the
order of the code. INIT and SIPI are actions; the registers they load with
constants that no later exit reads (segments, general and debug registers) are
left out. `EntryChecks` are the checks of VM entry on CR0, CR4 and the 64-bit mode
control, PCIDE outside 64-bit mode included; a guest whose registers fail them does not
run again (`VmEntryFails`, the error path of `vm.run()`). `XsetbvFaults` is what the
processor refuses when the host executes XSETBV with the guest's value, AMX included:
the supported features come from CPUID, and `is_valid_xcr0` knows no tile state.

### 2.4 MsrExits and Boot

`MsrExits` holds what an MSR access can change: the set of intercepted accesses,
the lock, the kernel's base and size (each as the image it belongs to), and per
processor LSTAR, `original_lstar`, `hook_lstar` and IA32_FEATURE_CONTROL. The
processor looks an access up in the bitmap without the lock (`WriteLstar`), so
several writes may have exited before the first handler ends the interception
(`LockAndUnhook`). `set_kernel_base_and_size` assigns after each of its three steps
and may fail at each (`FailLstar`).

`Boot` adds the place of the boot processor in the loader and the UEFI application,
the recorded ranges, what each processor has hidden, and the stages of
`start_hypervisor`, one action each, with every failure: before the lock is taken,
after it is released, or with the lock held (`HideMemory`). The APs go one at a
time because `startup_all_aps` is called single-threaded; it returns when all are
guests, so one that has panicked holds up the boot for good. `Cpus` are the enabled
processors. `hidden` holds the ranges whose first page is replaced: the hiding loop maps a
range to its start, so no other page is. `VmxHidden` is about VMX outside SMX, the bit
that the code clears. The firmware writes no LSTAR; Windows does, with non-zero values.

### 2.5 IdentityMap

What `Vm::init` does to memory on one processor before launch, loop by loop:
`PageTables::build_identity` (`HostPde`), `Mtrr::new` (`MtrrNew`) and
`Ept::build_identity` (`EptPte` for the page table of the first 2 MB, `EptPde` for
the large pages), each action one iteration. `Find` is `Mtrr::find` with its
immediate return for uncacheable ranges and its last match otherwise. The 512
page directories are one array, because they lie one behind the other. A pair of
MTRR registers is given by its base, type, enable bit and the size its mask
stands for (a mask of contiguous ones, as the manual demands). `unread` holds what the
code never reads: IA32_MTRR_DEF_TYPE with its default type and its two enable flags, and
the fixed ranges, one type for each of the `FixedPages` pages below 1 MB. The reference
`ProcessorType` reads them all: uncacheable when the MTRRs are off, the fixed range where
these are on and hold the byte, otherwise the manual's rule for overlapping variable
ranges. Addresses from 512 GB on are outside the model: the code maps nothing there.

### 2.6 GuestMemory

State: the guest's page tables `tables`, the contents of its frames `mem`, the
frame the EPT gives each frame `ept`, the EPROCESS structures `eproc` and which are
linked, the command and where its handler is (`pc`), and what the handler keeps
across steps: `cur`, `src`, `dst`, `copied`. The handler is split where it reads
the guest: finding the command, locking, finding `PsInitialSystemProcess`, each
identifier, each link, the directory table base (after the guard is dropped), each
translation, each copied word. Between any two of these the rest of the guest may
move a page, page it out or in, write memory, swap a hooked page, end a process or
start one, possibly in a structure that ended earlier; other processors' exits take
the hook manager's lock and give it back, or panic and keep it (`lock = "lost"`). `touched` (frames the
guest disturbed during the command, and the frames behind them), `ended`, `reused`,
`strayed` (the command has read a structure that was not in the list), `known`
(structures linked when the command was issued), `rank` (the order in which
structures were linked) and `wrote` are history variables that only the properties and
the invariant read.

What is assumed of the guest is named in the module: its page tables are proper
(`TablesAssumption`: every frame that is a table is one at a single level, so no table
maps itself, and an entry in use points to a table of the next level or to memory); no
buffer runs out of memory (`Roomy`); the process list is a list, each structure once
(`ProcsAssumption`, `InitList`); and no other process runs on the client's page tables.
The self-map of Windows, through which tables can be read as data, is left out.

A read of a structure that has left the list (`Stray`) fails, and with it the command
(`ReadFails`, the `?` at lines 201, 213 and 244 of `eprocess/mod.rs`), or gives any
identifier, any link or any CR3. The walk of the page tables takes the whole CR3 for the
address of the PML4 (`paging.rs:112`): from a CR3 with its low bits set (`Tagged`: PCID,
PWT, PCD), as from one that is no page table at all (a handle that was never filled in),
it may end anywhere or fail (`Translate`). A client whose own command is read that way, or
through a large page with its PAT bit set, may have anything taken for its command; such a
command is not followed further (`pc = "astray"`). The processor's walk is `Hardware`,
written independently of the code's `Walk`, and it is what the properties refer to.

Abstractions: memory is counted in words, tables have `Entries` entries; a page
walk is one step and the guest changes leaf entries and a process's top-level entry
only; `kernel` says at once that `ntoskrnl_base` is known and that the kernel's half of
memory is readable under the client's CR3, so reads of structures that are in the list do
not fail; the word the walk reads at `PsActiveProcessHead` as if it were an identifier is
nobody's (`None`); `copy_nonoverlapping` copies upwards. Guest-physical addresses are
below 512 GB, where the EPT is the identity but for hooked pages. The client issues one
command at a time and does not touch its own handle between them.

## 3. Runs

| Run | Instance | Checks | Result |
|---|---|---|---|
| `hooks_smp` | 2 processors, 1 hookable function, a reader, both commands, 2 shadow pages | invariants of tables, shadows, hidden pages, stepping, between any two stores (about 654,000 states) | hold |
| `hooks_uni` | 1 processor, 3 functions on 2 pages, loads from both, a VMCALL of the guest's own, an unresolved command, 3 shadow pages (about 344,000 states) | `TlbCoherent`, `ViolationIsHandled`, `EnableKeepsHooks` | hold |
| `hooks_detour` | as `hooks_uni` | `DetourIsRecognised` | violated |
| `hooks_step` | as `hooks_uni` | `StepSwitchesBack` | violated |
| `heap_smp` | 2 processors, heap of 20 units, sizes 1–3, alignments 1 and 4 | order, ownership, overlap, completeness of alloc, refinement of `Allocator` | hold |
| `heap_realloc` | as `heap_smp`, with fairness | `ReallocReturns` | violated |
| `regs_exits` | a processor with SMX and AMX, without LA57 and MPX | VM entry but for PCIDE, XSETBV but for AMX, read-back | hold |
| `regs_startup` | the same | `ProtectedModeReachable` | violated |
| `boot` | 3 processors, 2 LSTAR values in 2 images, 2 polls, VMware build, with fairness | order of start, LSTAR, kernel, hiding of the image's first page, and that boot and exits end | hold |
| `boot_hidden` | the same | `OwnMemoryHidden` | violated |
| `idmap` | 16 large pages of 4 pages of 2 bytes, every pair of 33 MTRR settings, both default types, fixed ranges on and off, MTRRs off | identity of both maps, memory types against the manual's rule | hold |
| `guest_mem` | 4 processes (one with a tagged CR3, one with a PAT bit set) and the list head, small, 2 MB and 1 GB pages, 2 commands, 2 steps of the rest of the guest at any point, with fairness | page walk against the processor's, exactness of transfers and of open, confinement of writes, end of commands | hold |

What the violated ones show (each quotes the line it contradicts in
`PROJECT.json`):

* `hooks_detour`: `handle_vmcall` translates RIP through the EPT, which maps the
  hooked page to its shadow, and looks the *shadow* address up; the VMCALL of
  every detour is answered with #UD.
* `hooks_step`: after a single step the page RIP is in is restored, not the page
  that was opened; when those differ and the former has no hook, the processor
  stops.
* `heap_realloc`: `realloc` calls `alloc` under the lock that `alloc` takes.
* `regs_startup`: a CR0 value without PG is refused even when PG is already
  clear, so a processor that starts through SIPI cannot set PE.
* `boot_hidden`: the hiding loop steps over ranges in place of pages, so only the
  first page of the first recorded range, the image, is hidden; a processor's own
  host stack is not.

Two properties of `hooks_uni` hold on one processor only, and `EptHooks` has the
behaviour that breaks them on two: invalidation reaches the executing processor
alone, so another one may keep executing a shadow page that has been freed
(`TlbCoherent`), and the first enable command on a second processor splits the
region again and rewrites the shared page table over existing hooks
(`EnableKeepsHooks`).

What passing properties except is what the code leaves open:

* `EntryFailsOnlyForPcide`: `handle_mov_to_cr4` refuses PCIDE for CR3[11:0] only, not
  outside 64-bit mode (`cr.rs:185`–`226`). On a processor out of INIT and SIPI a write of PAE,
  PCIDE and VMXE is accepted, and the next VM entry fails. No other step makes it fail.
* `OnlyTilesFault`: half of the AMX tile state passes `is_valid_xcr0` and faults in the
  host (`xsetbv.rs:68`). No other value does.
* `guest_mem`: a CR3 with low bits set, a large page with its PAT bit set (the walk is then
  4 KB off: a write to such a page goes to somebody else's), a buffer that crosses into a
  page that lies elsewhere, a page moved during the copy, a hooked page and a process that
  ended all end in a transfer of other bytes, reported as success, and a buffer of
  several pages may be written where its second page never was (`WritesConfined`
  therefore asks more of such a buffer than of one within a page). A recycled EPROCESS
  gives the CR3 of a process nobody asked for; one that left the list under the search may
  end it early or lead it in a circle for ever; a lock lost with a panicked processor
  stops every later open.
* `TypesRespectMtrrs`: the last page or large page of every MTRR range, a region that is
  cut by a range, the fixed ranges below 1 MB, memory outside all ranges with a
  default other than write-back, and MTRRs that are off get another type than the
  processor's.
* `ImagePageHidden` is about the first page of the image, because no other is hidden.

Seen while modelling, modelled as the code has it, without a run of its own: an
MSR outside the bitmap and the Hyper-V range is executed in the host by the
VMware build and faults there; a refused `startup_all_aps` ends the application
with the boot processor already its guest; enabling a hook on a page that
has one reports success and does nothing; on several processors a hook disabled
between a violation and its handler stops the faulting processor; out of memory
in `ept_hook_function` panics with the lock held; single-stepping armed twice
saves the already modified RFLAGS; SMXE is refused where SMX is supported; the
test for a changed CD bit compares the new value with itself.

### 3.1 Bounds, and why they are enough

Two processors give every interleaving of two handlers around the lock, and a
third party adds nothing to a pairwise conflict over one entry; two shadow pages
let a page be freed, reused and exhausted. Three functions on two pages give two
functions on one page, one function per page, and one instruction touching two
hooked pages. Twenty heap units hold the two sentinel links and up to three
blocks with gaps, so a block can be freed between two others, resized up to the
next link, and refused. Operands of MOV to CR0 are those within one bit of the
firmware's value and all combinations of PE, PG and CD; to CR4, within one bit
of the firmware's value, zero, and PAE, PCIDE and VMXE together; to XCR0, all supported
features but at most one, and one value for each other refusal.
Three processors are a boot processor and two APs, the least with which an AP
waits for another, and let two LSTAR exits queue behind a third; two polls stand
for the 500 of the menu. LSTAR values in two images make a mixture of them visible.
Two MTRRs are enough for every overlap, and the ranges include one inside the
first large page, equal to a large page, spanning several, and starting at 0; the fixed
ranges hold half of the first large page.
Two words a page and two entries a table give ranges within and across pages and
all three page sizes; two commands are an open followed by a read or write, or by
another open into the same handle; two steps of the guest are enough to end a process
and reuse its structure, or to move both ends of a transfer. The properties of a
command refer to that command alone, so longer sequences of commands add nothing
but the handle, which the second already has.

`CHECK_DEADLOCK FALSE` is stated because processors really stop: a panicked one
spins for ever, and so does one that waits for a lock that is never released.

### 3.2 Fairness

`heap_realloc` uses `WF_vars(Serve(c))`, a call whose critical
section can be entered is entered. A spin lock gives a waiting processor no more
than that. In the counterexample the call is never enabled again, so stronger
fairness would not help.

`boot` assumes weak fairness of each processor's stages and exits, of the two
programs' steps, and of a poll that finds no key (somebody who presses other keys
for ever is not followed). Weak fairness is enough for the spinning LSTAR handlers:
each processor takes the lock at most once, so it cannot be taken from a waiting
one again and again. Nothing is assumed about key presses or what the guests do.

`guest_mem` assumes weak fairness of the handler as a whole: it runs with its guest
processor stopped and interrupts off; and of an exit that holds the lock on another
processor, which gives it back unless it panics (`OtherUnlocks`). `CommandEnds` claims
nothing once the lock is lost. The rest of the guest may stop at any time; since its steps
and the other exits are bounded (`MaxGuest`) it cannot keep the list walk going by growing
the list for ever, nor keep the lock from a waiting command.

## 4. Proofs

All theorems hold for every value of the constants that satisfies the named
assumptions.

* `EptHooksProofs` (any number of processors, frames, regions, functions, any
  guest program; assumptions `FrameAssumption`, `RangeAssumption`,
  `CodeAssumption`: hidden pages, heap pages and guest code are disjoint). `IndInv`
  is inductive; `NoDanglingShadow`, `ShadowExecuteOnly`, `ShadowsDistinct`,
  `TablesPresent`, `HiddenStaysHidden` and `SteppingIsPrepared` follow. The
  strengthening is needed because `NoDanglingShadow` alone does not survive
  `HandleVmcall`, whose frame was translated earlier, nor the second store of a swap,
  whose frame was looked up at the first: one needs that a waiting handler has a frame
  (`ExitHasFrame`), that what the holder of the lock found out before its first store
  still holds at the second, and that the entry has the permissions it stored
  (`Midway`, `HolderInv`), that a launching processor holds the lock and has split what
  it hides (`LaunchInv`), that a table exists and is filled wherever a page is hooked or
  a region is split (`TablesPresent`, `TablesFilled`), that shadows come from the heap,
  that hidden pages are never hooked (`HiddenPagesPinned`), and that only a panicked
  processor has a large entry without all permissions (`LargeEntriesOpen`). The effect
  of a first store, a second store, a refused swap and a split on the tables are lemmas
  of their own (`StoreTables`, `RemapTables`, `RefusedTables`, `SplitTables`); then there
  is one lemma per handler, and under it one step per conjunct it can disturb.
* `ListHeapProofs` (any heap and link size, any sizes and alignments,
  `HeapAssumption`, `LayoutAssumption`, `NoneAssumption`). `IndInv` is inductive
  and gives `ListOrdered`, `LiveIsLinked` and `NoOverlap`; `NoOverlap` is not
  inductive without the order of the list and the link of every block. The
  refinement theorem maps the initial state to the empty heap, `Alloc`, `Dealloc`
  and in-place `Realloc` to the operations of `Allocator`, and calls and the stuck
  `realloc` to stuttering.
* `ControlRegsProofs` (any fixed-bit MSRs, any supported features and any operands within
  `FixedAssumption`, `FirmwareAssumption`, `OperandAssumption`, which say what the
  SDM says of these MSRs and that UEFI runs in long mode). `RegistersInvariant`:
  `RegistersOK`, every check of VM entry but PCIDE's, with `ShadowsAgree`: a handler
  decides from the shadows, VM entry looks at the real registers, and the two must agree
  on PE, PG, WP and CD. `EntryFailsOnlyAfterPcide` then needs only which steps can set
  PCIDE or end 64-bit mode (`PcideSteps`, `PcideMov`). `ReadBack` is proved from the same
  invariant, `HostXsetbvSafe` from what `is_valid_xcr0` lets through (`ValidIsAccepted`).
* `BootProofs` (any number of processors, LSTAR values and images,
  `MsrAssumption`, `BootAssumption`). `IndInv` is inductive. That no LSTAR write is
  lost (`LstarKept`) rests on `LstarOnce`: the handler drops a value that differs
  from `original_lstar`, but a processor that has an original value has had its
  exit, and the bit of the shared bitmap is never set again. `KernelKnown` needs
  that some handler is at work, has panicked or is through whenever the bit is off
  (`KernelAttempted`), `WindowsFullyVirtualized` who may have been started by the place of
  the boot processor (`StartedInOrder`), and `ImagePageHidden` and `VmxHidden` what set-up
  did before any processor was started (`SetUp`, `Stages`).

* `IdentityMapProofs` (tables and pages of any size, any number and any contents of
  MTRRs with the manual's shape, `SizesAssumption`, `MtrrAssumption`). `IndInv` says
  where the loops are (`LoopsAt`), that each entry made so far maps its own position
  with the type found for it (`HostBuilt`, `PtBuilt`, `PdBuilt`) and that the
  descriptors are those of the registers read (`DescriptorsAreRegisters`). That the
  walks are the identity is then arithmetic on quotient and remainder, and the types
  follow from what `Find` returns. `TypesRespectMtrrs` alone is not inductive: it says
  nothing of entries still to be made, nor of where the descriptors come from.
* `EptHooksUniProofs` (`OneProcessor`, the assumptions of `EptHooksProofs`, any guest
  program). `UniInv` adds to `IndInv` what only an EPT that nobody else changes keeps:
  the regions that have a table are those the processor has split, and a large entry
  has all permissions (`OneView`); a page that lacks a permission is hooked
  (`ClosedIsHooked`); the page of a pending violation is hooked (`ViolationIsHooked`);
  and `TlbCoherent`, which says nothing between the two stores of the processor's own
  swap (nobody runs on that processor then). They need each other: a split without invalidation is harmless
  because the large entry it replaces had all permissions; it has them because a swap
  is never refused halfway; a swap is not refused because of `OneView`; and a
  violation means a missing permission only if the cache is not stale.
  `ViolationIsHandled` and `EnableKeepsHooks` are action properties proved from it.
* `NullMeansNoRoom` (in `ListHeapProofs`): of an aligned place that touches no link and
  no block, take the last link below it; the free space behind that link contains the
  place, rounding its start up ends at or before the place, so the walk's test would
  have succeeded there. It needs, besides `IndInv`, that the first link heads no block
  (`FirstEmpty`).
* `GuestMemoryProofs` (page tables with any number of entries, pages and buffers of any
  length, any process list, any number of commands and guest steps; `SizesAssumption`,
  `FramesAssumption`, `TablesAssumption`, `ProcsAssumption`). `IndInv` has three parts.
  `MachineInv`: the guest's tables stay proper, frames are mapped to themselves or to
  their shadow pages, which handler a command can be in. `TransferInv`: a translated
  address still is what the walk finds, or both the page it points into and the page
  found now have been touched (`Tracks`); what has been copied is there, unless
  touched. `SearchInv`: the list is in the order of `rank` and skips no linked
  structure (`ListInv`); a structure that left the list during the command is not back
  in it unless recycled (`EndedInv`); as long as it has read no such structure the search has not passed the one it looks for
  (`WalkInv`); a failed open has a reason (`FailureInv`). `TransferExact`,
  `WritesConfined` and `OpenExact` follow from it; they are not inductive, because they
  speak of finished commands only. Because they refer to the processor's walk,
  `PlainWalk` and `RangeWalk` carry them over from the code's for plain addresses.
  `WalkAgrees` is a fact about each state: the code's
  walk, one level after the other, against the set of leaves the processor's rule gives,
  by cases on the level at which the walk ends.

`UniInv` and `GuestMemory`'s `IndInv` are not in a run, because the properties they imply
are; TLC finds them true on the instances of `hooks_uni` and `guest_mem` (add them to the
INVARIANTS of the cfg).

Only model-checked: the liveness properties `BootDecided`, `ExitEnds` and `CommandEnds`
(and the refuted `ReallocReturns`), since fairness is outside what TLAPS 1.4.5 proves.
Every invariant, every action property and the refinement that a passing run checks is
also a theorem.

## 5. Plan

1. `EptHooks`, `ListHeap`/`Allocator`, `ControlRegs`, `MsrExits`/`Boot`,
   `IdentityMap`, `GuestMemory` — done.
2. The theorems of section 4 — done.
3. A composition of single-stepping with INIT.
4. That the ranges `Boot` records are the constant ranges `EptHooks` assumes.

### Not modelled, and why

* Parsing of PE exports and the SSDT (`windows/nt`, `windows/ssdt`, `client/src/pemem`,
  `client/src/ssn`): reads at fixed offsets of structures whose layout is Windows's;
  the result, a function or none, is an input of the models.
* `halt.rs`, `invd.rs`, `rdtsc.rs`, `ept_misconfiguration.rs`: one instruction executed
  for the guest, or a stop; no state.
* VMX set-up (`vmxon.rs`, `controls.rs`, `capture.rs`, `vmlaunch.rs`, descriptors): VMCS
  fields and registers written once, and assembly, with no control flow of its own;
  `vmerror.rs` and `error.rs` are enumerations with their names.
* The logger, the client's command line and the build tasks.
