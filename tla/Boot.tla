-------------------------------- MODULE Boot --------------------------------
(***************************************************************************)
(* From the loader to Windows: loader/src/main.rs starts the hypervisor    *)
(* image, uefi/src/main.rs sets up the shared hook manager and virtualizes *)
(* the boot processor and then the others, one at a time, and the loader   *)
(* goes on, now as a guest, to choose and start the Windows boot manager.  *)
(* Windows then accesses MSRs as in MsrExits.                              *)
(***************************************************************************)
EXTENDS MsrExits, Sequences

CONSTANTS
  Bsp,            \* the boot processor
  image,          \* stands for the range of the hypervisor's own image
  BASE_PAGE_SIZE, \* 4096
  Polls           \* timeout_ms * 1000 / poll_interval_us, 500

ASSUME BootAssumption ==
  /\ Bsp \in Cpus
  /\ image \notin Cpus
  /\ BASE_PAGE_SIZE \in Nat \ {0, 1}
  /\ Polls \in Nat

VARIABLES
  pc,       \* where the boot processor is in the two programs
  ranges,   \* allocated_memory_ranges: the image, and the stacks by processor
  hidden,   \* ranges whose first page each EPT replaces by the dummy page
  launched, \* processors whose VM has been launched
  waited    \* waited_us / poll_interval_us, while the menu is shown

bootVars == <<pc, ranges, hidden, launched, waited>>
vars == <<msrVars, bootVars>>

Aps == Cpus \ {Bsp}

\* Where the hypervisor has not returned to the loader, and where it has.
InHypervisor == {"load", "setup", "mp", "bsp", "aps"}
InLoader == {"search", "menu", "start", "windows"}

BootTypeOK ==
  /\ pc \in InHypervisor \cup InLoader \cup {"aborted"}
  /\ ranges \in Seq(Cpus \cup {image})
  /\ hidden \in [Cpus -> SUBSET (Cpus \cup {image})]
  /\ launched \subseteq Cpus
  /\ waited \in 0..Polls

\* Types of all variables.
TypeOK == MsrTypeOK /\ BootTypeOK

-----------------------------------------------------------------------------
(* The loader, up to the start of the hypervisor, and the hypervisor's     *)
(* main                                                                    *)

\* find_hypervisor, load_image and start_image; each may fail.
LoadHypervisor ==
  /\ pc = "load"
  /\ pc' \in {"setup", "aborted"}
  /\ UNCHANGED <<msrVars, ranges, hidden, launched, waited>>

\* Mutant: the image is not recorded.
setup_without_record ==
  /\ pc = "setup" /\ lock = None
  /\ \/ pc' = "aborted" /\ UNCHANGED <<msr_bitmap, ranges>>
     \/ pc' = "mp" /\ initialize_shared_hook_manager /\ UNCHANGED ranges
  /\ UNCHANGED <<state, lock, ntoskrnl, lstar, original_lstar, hook_lstar, operand, feature_control, seen>>
  /\ UNCHANGED <<hidden, launched, waited>>

\* The image is recorded and the MSR accesses to intercept are chosen, before
\* any processor is virtualized.
setup ==
  /\ pc = "setup" /\ lock = None
  /\ \/ pc' = "aborted" /\ UNCHANGED <<msr_bitmap, ranges>>
     \/ /\ pc' = "mp"
        /\ ranges' = Append(ranges, image)
        /\ initialize_shared_hook_manager
  /\ UNCHANGED <<state, lock, ntoskrnl, lstar, original_lstar, hook_lstar, operand, feature_control, seen>>
  /\ UNCHANGED <<hidden, launched, waited>>

\* The MP services are found or not; start_hypervisor returns on the boot
\* processor as a guest; startup_all_aps is refused, or returns when the last
\* AP has.  With one processor enabled it is not called.
ApsDone == \A c \in Aps : state[c] = "guest"

\* Mutant: the APs are not waited for.
start_hypervisor_on_all_processors_no_wait ==
  /\ \/ pc = "mp" /\ pc' \in {"bsp", "aborted"}
     \/ pc = "bsp" /\ state[Bsp] = "guest" /\ pc' = IF Aps = {} THEN "search" ELSE "aps"
     \/ pc = "aps" /\ pc' \in {"search", "aborted"}
  /\ UNCHANGED <<msrVars, ranges, hidden, launched, waited>>

start_hypervisor_on_all_processors ==
  /\ \/ pc = "mp" /\ pc' \in {"bsp", "aborted"}
     \/ pc = "bsp" /\ state[Bsp] = "guest" /\ pc' = IF Aps = {} THEN "search" ELSE "aps"
     \/ pc = "aps" /\ (\A c \in Aps : state[c] = "native") /\ pc' = "aborted"
     \/ pc = "aps" /\ ApsDone /\ pc' = "search"
  /\ UNCHANGED <<msrVars, ranges, hidden, launched, waited>>

-----------------------------------------------------------------------------
(* start_hypervisor on one processor                                       *)

\* Single-threaded start-up: an AP begins when no other is under way.
Turn(c) ==
  \/ pc = "bsp" /\ c = Bsp
  \/ pc = "aps" /\ c \in Aps /\ \A d \in Aps \ {c} : state[d] \in {"native", "guest"}

Advance(c, s) == state' = [state EXCEPT ![c] = s]
OtherMsrVars == <<msr_bitmap, ntoskrnl, lstar, original_lstar, hook_lstar, operand, seen>>

\* The stack is recorded; a failed allocation returns before that.
allocate_host_stack(c, ok) == ranges' = IF ok THEN Append(ranges, c) ELSE ranges

\* capture_registers returned 0: allocate a host stack and switch to it.
\* Without one, virtualize_system zeroes through the null pointer (undefined)
\* and panics; the processor does not go on either way.
virtualize_system(c) ==
  /\ state[c] = "native" /\ Turn(c) /\ lock = None
  /\ \E ok \in BOOLEAN :
       allocate_host_stack(c, ok) /\ Advance(c, IF ok THEN "checks" ELSE "stopped")
  /\ UNCHANGED <<OtherMsrVars, lock, feature_control, pc, hidden, launched, waited>>

check_supported_cpu(c) ==
  /\ state[c] = "checks"
  /\ Advance(c, "init") \/ Advance(c, "stopped")
  /\ UNCHANGED <<OtherMsrVars, lock, feature_control, bootVars>>

\* Vm::init; mapping memory into the EPT may fail.
InitVm(c) ==
  /\ state[c] = "init"
  /\ Advance(c, "vmxon") \/ Advance(c, "stopped")
  /\ UNCHANGED <<OtherMsrVars, lock, feature_control, bootVars>>

\* The values adjust_feature_control_msr may leave; none is VMXBIOSLock.
adjust_feature_control_msr(bits) ==
  IF "lock" \notin bits THEN {bits \cup {"lock", "vmxon"}}
  ELSE IF "vmxon" \notin bits THEN {} ELSE {bits}

ActivateVmxon(c) ==
  LET adjusted == adjust_feature_control_msr(feature_control[c]) IN
  /\ state[c] = "vmxon"
  /\ \/ \E bits \in adjusted :
          /\ feature_control' = [feature_control EXCEPT ![c] = bits]
          /\ Advance(c, "vmcs")
     \/ adjusted = {} /\ Advance(c, "stopped") /\ UNCHANGED feature_control
  /\ UNCHANGED <<OtherMsrVars, lock, bootVars>>

\* setup_vmcs holds the hook manager's lock and has released it when an error
\* is returned.
ActivateVmcs(c) ==
  /\ state[c] = "vmcs" /\ lock = None
  /\ Advance(c, "hide") \/ Advance(c, "stopped")
  /\ UNCHANGED <<OtherMsrVars, lock, feature_control, bootVars>>

\* `iter().step_by(BASE_PAGE_SIZE)` over the recorded ranges, each then mapped
\* to its start: one page of every range that is taken.
HiddenRanges == {ranges[i] : i \in {j \in DOMAIN ranges : (j - 1) % BASE_PAGE_SIZE = 0}}

\* hide_hypervisor_memory under the lock, which a panic does not release.
HideMemory(c) ==
  /\ state[c] = "hide" /\ lock = None
  /\ \/ /\ Advance(c, "launch")
        /\ hidden' = [hidden EXCEPT ![c] = HiddenRanges]
        /\ UNCHANGED lock
     \/ Advance(c, "stopped") /\ lock' = c /\ UNCHANGED hidden
  /\ UNCHANGED <<OtherMsrVars, feature_control, pc, ranges, launched, waited>>

\* VMLAUNCH continues behind capture_registers with RAX = 1, or fails.
Launch(c) ==
  /\ state[c] = "launch"
  /\ \/ Advance(c, "guest") /\ launched' = launched \cup {c}
     \/ Advance(c, "stopped") /\ UNCHANGED launched
  /\ UNCHANGED <<OtherMsrVars, lock, feature_control, pc, ranges, hidden, waited>>

StartHypervisor(c) ==
  \/ virtualize_system(c)
  \/ check_supported_cpu(c)
  \/ InitVm(c)
  \/ ActivateVmxon(c)
  \/ ActivateVmcs(c)
  \/ HideMemory(c)
  \/ Launch(c)

-----------------------------------------------------------------------------
(* The loader, from the hypervisor's return on.  It runs on the boot       *)
(* processor, as a guest.                                                  *)

LoaderStep(next) ==
  /\ state[Bsp] = "guest"
  /\ pc' \in next
  /\ UNCHANGED <<msrVars, ranges, hidden, launched>>

\* find_all_windows_boot_managers: none, one or several.
SearchBootManagers == pc = "search" /\ LoaderStep({"aborted", "start", "menu"}) /\ UNCHANGED waited

\* Mutant: the wait is not counted.
PollNothingUncounted ==
  /\ pc = "menu"
  /\ \/ waited >= Polls /\ LoaderStep({"start"}) /\ waited' = 0
     \/ waited < Polls /\ LoaderStep({"menu"}) /\ UNCHANGED waited

\* Mutant: one poll too many.
PollNothingTooOften ==
  /\ pc = "menu"
  /\ \/ waited > Polls /\ LoaderStep({"start"}) /\ waited' = 0
     \/ waited <= Polls /\ LoaderStep({"menu"}) /\ waited' = waited + 1

\* No key: stall, or take the first entry when the time is over.
PollNothing ==
  /\ pc = "menu"
  /\ \/ waited >= Polls /\ LoaderStep({"start"}) /\ waited' = 0
     \/ waited < Polls /\ LoaderStep({"menu"}) /\ waited' = waited + 1

\* A digit, ENTER or a console error selects, ESC aborts.  Any other key
\* polls again and changes nothing.
PollKey == pc = "menu" /\ LoaderStep({"start", "aborted"}) /\ waited' = 0

\* load_image and start_image of the boot manager.
StartBootManager == pc = "start" /\ LoaderStep({"windows", "aborted"}) /\ UNCHANGED waited

\* Windows, and before it the firmware, run as guests (external).
GuestStep(c) ==
  /\ \/ ReadFeatureControl(c)
     \/ pc = "windows" /\ \E v \in LstarValues : WriteLstar(c, v)
     \/ pc = "windows" /\ \E msr \in {"hyperv", "reserved"} : AccessUncovered(c, msr)
  /\ UNCHANGED bootVars

-----------------------------------------------------------------------------
Init ==
  /\ state = [c \in Cpus |-> "native"]
  /\ lock = None
  /\ msr_bitmap = {}
  /\ ntoskrnl = [va |-> None, pa |-> None, size |-> None]
  /\ lstar = [c \in Cpus |-> None]
  /\ original_lstar = [c \in Cpus |-> None]
  /\ hook_lstar = [c \in Cpus |-> None]
  /\ operand = [c \in Cpus |-> None]
  /\ feature_control \in [Cpus -> SUBSET FeatureBits]
  /\ seen = {}
  /\ pc = "load"
  /\ ranges = << >>
  /\ hidden = [c \in Cpus |-> {}]
  /\ launched = {}
  /\ waited = 0

\* What the two programs do on the boot processor before it is a guest.
Setup == LoadHypervisor \/ setup \/ start_hypervisor_on_all_processors
Loader == SearchBootManagers \/ PollNothing \/ PollKey \/ StartBootManager
Exit(c) == HandleExit(c) /\ UNCHANGED bootVars

Next ==
  \/ Setup
  \/ Loader
  \/ \E c \in Cpus : StartHypervisor(c) \/ Exit(c) \/ GuestStep(c)

Spec == Init /\ [][Next]_vars

\* Processors execute; the console is not fed with keys for ever.
Fairness ==
  /\ WF_vars(Setup)
  /\ WF_vars(SearchBootManagers) /\ WF_vars(PollNothing) /\ WF_vars(StartBootManager)
  /\ \A c \in Cpus : WF_vars(StartHypervisor(c)) /\ WF_vars(Exit(c))

FairSpec == Spec /\ Fairness

-----------------------------------------------------------------------------
(* Properties                                                              *)

\* Windows, and the loader from the hypervisor's return on, run only when
\* every processor has been virtualized: an AP that fails keeps
\* startup_all_aps from returning.
WindowsFullyVirtualized == pc \in InLoader => launched = Cpus

\* Whatever a processor writes to IA32_LSTAR is in the register when the
\* handler returns to it, also when several processors' writes exit before
\* the first handler ends the interception.
LstarKept ==
  [][\A c \in Cpus : state[c] = "lstar" /\ state'[c] = "guest" => lstar'[c] = operand[c]]_vars

\* Once the interception has ended, the lock is free and no processor has
\* panicked, base, physical base and size of the kernel are known and are
\* those of one image.
KernelKnown ==
  pc = "windows" /\ LstarWrite \notin msr_bitmap /\ lock = None
    /\ (\A c \in Cpus : state[c] # "stopped")
  => /\ ntoskrnl.va # None
     /\ ntoskrnl.va = ntoskrnl.pa /\ ntoskrnl.pa = ntoskrnl.size

\* No guest has read VMX outside SMX as enabled in IA32_FEATURE_CONTROL, though
\* it is enabled on every virtualized processor.  (The bit for VMX inside SMX is
\* passed through as it is.)
VmxHidden ==
  /\ "vmxon" \notin seen
  /\ \A c \in launched : feature_control[c] = FeatureBits

\* The page at the start of the image is replaced in the EPT of every processor
\* that runs a guest: the image is the first range recorded, whichever processor
\* hides.  (Its other pages are in no EPT replaced: hide_hypervisor_memory maps a
\* range to its start.)
ImagePageHidden == \A c \in launched : image \in hidden[c]

\* Who has been started, by the place of the boot processor: all processors
\* are native up to the MP services, APs while the boot processor starts.
StartedInOrder ==
  /\ pc \in {"load", "setup", "mp"} => \A c \in Cpus : state[c] = "native"
  /\ pc = "bsp" => \A c \in Aps : state[c] = "native"
  /\ pc = "aps" => Bsp \in launched
  /\ WindowsFullyVirtualized

\* What set-up has left behind once a processor may be started.
SetUp ==
  /\ pc \in {"load", "setup"} => ranges = << >>
  /\ (\E c \in Cpus : state[c] # "native") \/ pc \in {"mp", "bsp", "aps"} \cup InLoader
     => FeatureRead \in msr_bitmap /\ ranges # << >> /\ ranges[1] = image
  /\ pc \in {"mp", "bsp", "aps", "search", "menu", "start"} => LstarWrite \in msr_bitmap

\* What a processor has been through by its state.
Stages ==
  \A c \in Cpus :
    /\ state[c] \in {"guest", "exit", "lstar", "gp"} => c \in launched
    /\ state[c] \in {"exit", "lstar", "gp"} => pc = "windows"
    /\ state[c] \in {"vmcs", "hide", "launch"} => feature_control[c] = FeatureBits
    /\ state[c] = "launch" => image \in hidden[c]

\* A processor that has an original value has been through its only LSTAR
\* exit; the bit is off from the first handler on.
LstarOnce ==
  \A c \in Cpus :
    /\ original_lstar[c] # None => state[c] \notin {"native", "exit", "lstar"} /\ LstarWrite \notin msr_bitmap
    /\ state[c] \in {"exit", "lstar"} => operand[c] # None
    /\ state[c] = "lstar" => lock = c /\ LstarWrite \notin msr_bitmap

\* Interception has ended: some handler is at it, has panicked, or is through.
KernelAttempted ==
  pc = "windows" /\ LstarWrite \notin msr_bitmap
  => \/ \E c \in Cpus : state[c] \in {"lstar", "stopped"}
     \/ /\ ntoskrnl.va # None
        /\ ntoskrnl.va = ntoskrnl.pa /\ ntoskrnl.pa = ntoskrnl.size

\* The inductive invariant.
IndInv ==
  /\ TypeOK /\ StartedInOrder /\ SetUp /\ Stages /\ LstarOnce /\ KernelAttempted
  /\ VmxHidden /\ ImagePageHidden

\* README.md: "Hide hypervisor memory from guest using EPT".  When a processor
\* launches its guest, the image and its own stack are hidden, at least the page
\* each starts with.
OwnMemoryHidden == \A c \in launched : {image, c} \subseteq hidden[c]

\* The loader ends: it starts Windows, aborts, or a processor has panicked.
BootDecided == <>(pc \in {"windows", "aborted"} \/ \E c \in Cpus : state[c] = "stopped")

\* An MSR exit ends in the guest or in a panic, also while other processors
\* contend for the hook manager's lock or have panicked in it.
ExitEnds ==
  \A c \in Cpus : state[c] \in {"exit", "lstar", "gp"} ~> state[c] \in {"guest", "stopped"}
=============================================================================
