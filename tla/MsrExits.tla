------------------------------ MODULE MsrExits ------------------------------
(***************************************************************************)
(* RDMSR and WRMSR of a virtualized processor (vmexit/msr.rs): which       *)
(* accesses exit through the MSR bitmap that all processors share          *)
(* (bitmap.rs, hook_manager.rs), how the first write of IA32_LSTAR locates *)
(* the Windows kernel and ends its own interception, and what the guest    *)
(* sees of IA32_FEATURE_CONTROL.                                           *)
(*                                                                         *)
(* An MSR is "LSTAR", "FEATURE_CONTROL", "hyperv" (40000000H-400000FFH) or *)
(* "reserved" (any other outside the two ranges the bitmap covers).        *)
(***************************************************************************)
EXTENDS Naturals

CONSTANTS
  Cpus,
  LstarValues, \* non-zero values the guest writes to IA32_LSTAR
  Images,      \* guest images that may hold such an address ...
  ImageOf,     \* ... and the one that holds it
  VMWARE,      \* the crate feature "vmware"; uefi/Cargo.toml turns it on
  None         \* no value, zero, or nobody

ASSUME MsrAssumption ==
  /\ ImageOf \in [LstarValues -> Images]
  /\ None \notin LstarValues \cup Images \cup Cpus
  /\ VMWARE \in BOOLEAN

VARIABLES
  state,           \* what each processor is doing
  lock,            \* owner of SHARED_HOOK_MANAGER
  msr_bitmap,      \* intercepted accesses
  ntoskrnl,        \* ntoskrnl_base_va, _base_pa and _size: the image they describe
  lstar,           \* IA32_LSTAR of each processor
  original_lstar, hook_lstar,
  operand,         \* EDX:EAX of an LSTAR write being handled
  feature_control, \* IA32_FEATURE_CONTROL of each processor
  seen             \* what a guest last read from it

msrVars ==
  <<state, lock, msr_bitmap, ntoskrnl, lstar, original_lstar, hook_lstar, operand, feature_control, seen>>

\* "native" before virtualization, then the stages of start_hypervisor, then
\* "guest" and the stages of an MSR exit: "exit" spins for the lock, "lstar"
\* holds it, "gp" is about to enter the guest with #GP.  "stopped" has panicked.
Starting == {"checks", "init", "vmxon", "vmcs", "hide", "launch"}
States == {"native", "guest", "exit", "lstar", "gp", "stopped"} \cup Starting

FeatureBits == {"lock", "vmxon"} \* bits 0 and 2

Lstars == LstarValues \cup {None}
LstarWrite == <<"LSTAR", "write">>
FeatureRead == <<"FEATURE_CONTROL", "read">>
Bitmaps == SUBSET {LstarWrite, FeatureRead, <<"LSTAR", "read">>, <<"FEATURE_CONTROL", "write">>}

modify_msr_interception(bitmap, msr, access, operation) ==
  IF operation = "Hook" THEN bitmap \cup {<<msr, access>>} ELSE bitmap \ {<<msr, access>>}

\* Mutant: the access types are swapped.
initialize_shared_hook_manager_swapped ==
  msr_bitmap' = modify_msr_interception(
                  modify_msr_interception(msr_bitmap, "LSTAR", "read", "Hook"),
                  "FEATURE_CONTROL", "write", "Hook")

initialize_shared_hook_manager ==
  msr_bitmap' = modify_msr_interception(
                  modify_msr_interception(msr_bitmap, "LSTAR", "write", "Hook"),
                  "FEATURE_CONTROL", "read", "Hook")

-----------------------------------------------------------------------------
(* Reads                                                                   *)

\* Simulated as locked with VMX off.
feature_control_value(bits) == (bits \cup {"lock"}) \ {"vmxon"}

\* RDMSR of IA32_FEATURE_CONTROL, with or without an exit.  A read of
\* IA32_LSTAR never exits, no code sets its bit; a write of
\* IA32_FEATURE_CONTROL does not exit and faults, the register is locked.
ReadFeatureControl(c) ==
  /\ state[c] = "guest"
  /\ seen' = IF FeatureRead \in msr_bitmap
             THEN feature_control_value(feature_control[c])
             ELSE feature_control[c]
  /\ UNCHANGED <<state, lock, msr_bitmap, ntoskrnl, lstar, original_lstar, hook_lstar, operand, feature_control>>

\* The MSRs answered with #GP.  In the VMware build these are the Hyper-V
\* ones only.
Rejected(msr) == msr = "hyperv" \/ (~VMWARE /\ msr = "reserved")

\* RDMSR or WRMSR of an MSR the bitmap does not cover always exits.  What is
\* not rejected the handler executes itself, and faults in the host.
AccessUncovered(c, msr) ==
  /\ state[c] = "guest"
  /\ state' = [state EXCEPT ![c] = IF Rejected(msr) THEN "gp" ELSE "stopped"]
  /\ UNCHANGED <<lock, msr_bitmap, ntoskrnl, lstar, original_lstar, hook_lstar, operand, feature_control, seen>>

\* VM entry delivers the #GP.
DeliverGp(c) ==
  /\ state[c] = "gp"
  /\ state' = [state EXCEPT ![c] = "guest"]
  /\ UNCHANGED <<lock, msr_bitmap, ntoskrnl, lstar, original_lstar, hook_lstar, operand, feature_control, seen>>

-----------------------------------------------------------------------------
(* Writes of IA32_LSTAR                                                    *)

\* The processor looks the access up in the bitmap, under no lock.
WriteLstar(c, v) ==
  /\ state[c] = "guest"
  /\ IF LstarWrite \in msr_bitmap
     THEN /\ state' = [state EXCEPT ![c] = "exit"]
          /\ operand' = [operand EXCEPT ![c] = v]
          /\ UNCHANGED lstar
     ELSE /\ lstar' = [lstar EXCEPT ![c] = v]
          /\ UNCHANGED <<state, operand>>
  /\ UNCHANGED <<lock, msr_bitmap, ntoskrnl, original_lstar, hook_lstar, feature_control, seen>>

\* Mutant: the interception goes on.
LockWithoutUnhook(c) ==
  /\ state[c] = "exit" /\ lock = None
  /\ lock' = c
  /\ state' = [state EXCEPT ![c] = "lstar"]
  /\ UNCHANGED <<msr_bitmap, ntoskrnl, lstar, original_lstar, hook_lstar, operand, feature_control, seen>>

\* The handler takes the lock and ends the interception for every processor.
LockAndUnhook(c) ==
  /\ state[c] = "exit" /\ lock = None
  /\ lock' = c
  /\ msr_bitmap' = modify_msr_interception(msr_bitmap, "LSTAR", "write", "Unhook")
  /\ state' = [state EXCEPT ![c] = "lstar"]
  /\ UNCHANGED <<ntoskrnl, lstar, original_lstar, hook_lstar, operand, feature_control, seen>>

\* set_kernel_base_and_size, having completed so many of its three steps.
set_kernel_base_and_size(v, steps) ==
  [va   |-> IF steps >= 1 THEN ImageOf[v] ELSE ntoskrnl.va,
   pa   |-> IF steps >= 2 THEN ImageOf[v] ELSE ntoskrnl.pa,
   size |-> IF steps >= 3 THEN ImageOf[v] ELSE ntoskrnl.size]

\* The kernel is located: the value becomes the original one unless there is
\* one, and is written through if it equals the original.
FinishLstar(c) ==
  LET v == operand[c]
      original == IF original_lstar[c] = None THEN v ELSE original_lstar[c]
      hook == IF original_lstar[c] = None THEN v ELSE hook_lstar[c] IN
  /\ state[c] = "lstar"
  /\ ntoskrnl' = set_kernel_base_and_size(v, 3)
  /\ original_lstar' = [original_lstar EXCEPT ![c] = original]
  /\ hook_lstar' = [hook_lstar EXCEPT ![c] = hook]
  /\ lstar' = IF v = original
              THEN [lstar EXCEPT ![c] = IF hook # None THEN hook ELSE original]
              ELSE lstar
  /\ lock' = None
  /\ state' = [state EXCEPT ![c] = "guest"]
  /\ operand' = [operand EXCEPT ![c] = None]
  /\ UNCHANGED <<msr_bitmap, feature_control, seen>>

\* Mutant: the guard outlives the failure.
FailLstarLocked(c, steps) ==
  /\ state[c] = "lstar"
  /\ ntoskrnl' = set_kernel_base_and_size(operand[c], steps)
  /\ state' = [state EXCEPT ![c] = "stopped"]
  /\ UNCHANGED <<lock, msr_bitmap, lstar, original_lstar, hook_lstar, operand, feature_control, seen>>

\* Mutant: the failure is ignored.
FailLstarIgnored(c, steps) ==
  /\ state[c] = "lstar"
  /\ ntoskrnl' = set_kernel_base_and_size(operand[c], steps)
  /\ lock' = None
  /\ state' = [state EXCEPT ![c] = "guest"]
  /\ UNCHANGED <<msr_bitmap, lstar, original_lstar, hook_lstar, operand, feature_control, seen>>

\* A step of set_kernel_base_and_size fails: `?` drops the guard, and the
\* error stops the processor in vmm.rs.
FailLstar(c, steps) ==
  /\ state[c] = "lstar"
  /\ ntoskrnl' = set_kernel_base_and_size(operand[c], steps)
  /\ lock' = None
  /\ state' = [state EXCEPT ![c] = "stopped"]
  /\ UNCHANGED <<msr_bitmap, lstar, original_lstar, hook_lstar, operand, feature_control, seen>>

\* The exits of c that are under way.
HandleExit(c) ==
  \/ DeliverGp(c)
  \/ LockAndUnhook(c)
  \/ FinishLstar(c)
  \/ \E steps \in 0..2 : FailLstar(c, steps)

-----------------------------------------------------------------------------
MsrTypeOK ==
  /\ state \in [Cpus -> States]
  /\ lock \in Cpus \cup {None}
  /\ msr_bitmap \in Bitmaps
  /\ ntoskrnl \in [va : Images \cup {None}, pa : Images \cup {None}, size : Images \cup {None}]
  /\ lstar \in [Cpus -> Lstars]
  /\ original_lstar \in [Cpus -> Lstars]
  /\ hook_lstar \in [Cpus -> Lstars]
  /\ operand \in [Cpus -> Lstars]
  /\ feature_control \in [Cpus -> SUBSET FeatureBits]
  /\ seen \subseteq FeatureBits
=============================================================================
