----------------------------- MODULE BootProofs -----------------------------
(***************************************************************************)
(* For any number of processors, any set of LSTAR values and any mapping   *)
(* of them to images, the start of the hypervisor and the MSR exits keep   *)
(* the invariant Boot!IndInv, and with it the properties of Boot.          *)
(***************************************************************************)
EXTENDS Boot, TLAPS

USE MsrAssumption, BootAssumption

\* The program starts in the invariant: nobody is started, nothing recorded.
LEMMA InitIndInv == Init => IndInv
  BY DEF Init, IndInv, TypeOK, MsrTypeOK, BootTypeOK, StartedInOrder, SetUp, Stages, LstarOnce,
      KernelAttempted, VmxHidden, ImagePageHidden, WindowsFullyVirtualized, States, Starting, Lstars,
      Bitmaps, FeatureBits, InHypervisor, InLoader, Aps

\* Loading the hypervisor image or failing to preserves the invariant.
LEMMA LoadIndInv ==
  ASSUME IndInv, LoadHypervisor
  PROVE  IndInv'
<1> USE DEF IndInv, LoadHypervisor, msrVars
<1>1. TypeOK'
  BY DEF TypeOK, MsrTypeOK, BootTypeOK, InHypervisor, InLoader
<1>2. StartedInOrder'
  BY DEF StartedInOrder, WindowsFullyVirtualized, InLoader, Aps
<1>3. SetUp'
  BY DEF SetUp, InLoader
<1>4. Stages'
  BY DEF Stages
<1>5. LstarOnce'
  BY DEF LstarOnce
<1>6. KernelAttempted'
  BY DEF KernelAttempted
<1>7. VmxHidden'
  BY DEF VmxHidden
<1>8. ImagePageHidden'
  BY DEF ImagePageHidden
<1> QED
  BY <1>1, <1>2, <1>3, <1>4, <1>5, <1>6, <1>7, <1>8

\* Recording the image and choosing the intercepted accesses preserves it.
LEMMA SetupIndInv ==
  ASSUME IndInv, setup
  PROVE  IndInv'
<1> USE DEF IndInv, setup, initialize_shared_hook_manager, modify_msr_interception, LstarWrite, FeatureRead
<1>1. TypeOK'
  <2>1. msr_bitmap' \in Bitmaps
    BY DEF TypeOK, MsrTypeOK, Bitmaps
  <2>2. ranges' \in Seq(Cpus \cup {image})
    BY DEF TypeOK, BootTypeOK
  <2> QED
    BY <2>1, <2>2 DEF TypeOK, MsrTypeOK, BootTypeOK, InHypervisor
<1>2. StartedInOrder'
  BY DEF StartedInOrder, WindowsFullyVirtualized, InLoader, Aps
<1>3. SetUp'
  BY DEF SetUp, InLoader, MsrTypeOK, TypeOK, BootTypeOK, StartedInOrder
<1>4. Stages'
  BY DEF Stages
<1>5. LstarOnce'
  BY DEF LstarOnce, StartedInOrder
<1>6. KernelAttempted'
  BY DEF KernelAttempted
<1>7. VmxHidden'
  BY DEF VmxHidden
<1>8. ImagePageHidden'
  BY DEF ImagePageHidden
<1> QED
  BY <1>1, <1>2, <1>3, <1>4, <1>5, <1>6, <1>7, <1>8

\* The boot processor's way from one processor to the next preserves it.
LEMMA AllProcessorsIndInv ==
  ASSUME IndInv, start_hypervisor_on_all_processors
  PROVE  IndInv'
<1> USE DEF IndInv, start_hypervisor_on_all_processors, ApsDone, msrVars
<1>1. TypeOK'
  BY DEF TypeOK, MsrTypeOK, BootTypeOK, InHypervisor, InLoader
<1>2. StartedInOrder'
  <2>1. CASE pc = "mp" /\ pc' \in {"bsp", "aborted"}
    BY <2>1 DEF StartedInOrder, WindowsFullyVirtualized, InLoader, Aps
  <2>2. CASE pc = "bsp" /\ state[Bsp] = "guest" /\ pc' = IF Aps = {} THEN "search" ELSE "aps"
    <3>1. Bsp \in launched /\ launched \subseteq Cpus
      BY <2>2 DEF Stages, TypeOK, BootTypeOK
    <3>2. Aps = {} => launched = Cpus
      BY <3>1 DEF Aps
    <3> QED
      BY <2>2, <3>1, <3>2 DEF StartedInOrder, WindowsFullyVirtualized, InLoader
  <2>3. CASE pc = "aps" /\ pc' = "aborted"
    BY <2>3 DEF StartedInOrder, WindowsFullyVirtualized, InLoader
  <2>4. CASE pc = "aps" /\ ApsDone /\ pc' = "search"
    <3>0. \A c \in Cpus : c \in launched
      BY <2>4 DEF StartedInOrder, Stages, Aps
    <3>1. launched = Cpus
      BY <3>0 DEF TypeOK, BootTypeOK
    <3> QED
      BY <2>4, <3>1 DEF StartedInOrder, WindowsFullyVirtualized, InLoader
  <2> QED
    BY <2>1, <2>2, <2>3, <2>4
<1>3. SetUp'
  BY DEF SetUp, InLoader
<1>4. Stages'
  BY DEF Stages
<1>5. LstarOnce'
  BY DEF LstarOnce
<1>6. KernelAttempted'
  BY DEF KernelAttempted
<1>7. VmxHidden'
  BY DEF VmxHidden
<1>8. ImagePageHidden'
  BY DEF ImagePageHidden
<1> QED
  BY <1>1, <1>2, <1>3, <1>4, <1>5, <1>6, <1>7, <1>8

\* Allocating and recording a stack, or failing to, preserves it.
LEMMA VirtualizeSystemIndInv ==
  ASSUME IndInv, NEW c \in Cpus, virtualize_system(c)
  PROVE  IndInv'
<1> USE DEF IndInv, virtualize_system, allocate_host_stack, Turn, Advance, OtherMsrVars, bootVars, States, Starting
<1>1. TypeOK'
  <2>1. ranges' \in Seq(Cpus \cup {image})
    BY DEF TypeOK, BootTypeOK
  <2> QED
    BY <2>1 DEF TypeOK, MsrTypeOK, BootTypeOK
<1>2. StartedInOrder'
  BY DEF StartedInOrder, WindowsFullyVirtualized, InLoader, Aps, MsrTypeOK, TypeOK, BootTypeOK
<1>3. SetUp'
  <2>1. /\ pc \in {"bsp", "aps"} /\ UNCHANGED <<pc, msr_bitmap>>
        /\ FeatureRead \in msr_bitmap /\ LstarWrite \in msr_bitmap
        /\ ranges \in Seq(Cpus \cup {image}) /\ ranges # << >> /\ ranges[1] = image
    BY DEF SetUp, TypeOK, BootTypeOK
  <2>2. ranges' # << >> /\ ranges'[1] = image
    BY <2>1
  <2> QED
    BY <2>1, <2>2 DEF SetUp
<1>4. Stages'
  BY DEF Stages, MsrTypeOK, TypeOK, BootTypeOK
<1>5. LstarOnce'
  BY DEF LstarOnce, MsrTypeOK, TypeOK, BootTypeOK
<1>6. KernelAttempted'
  BY DEF KernelAttempted, MsrTypeOK, TypeOK, BootTypeOK
<1>7. VmxHidden'
  BY DEF VmxHidden, MsrTypeOK, TypeOK, BootTypeOK
<1>8. ImagePageHidden'
  BY DEF ImagePageHidden, MsrTypeOK, TypeOK, BootTypeOK
<1> QED
  BY <1>1, <1>2, <1>3, <1>4, <1>5, <1>6, <1>7, <1>8

\* The support checks preserve it.
LEMMA CheckSupportedCpuIndInv ==
  ASSUME IndInv, NEW c \in Cpus, check_supported_cpu(c)
  PROVE  IndInv'
<1> USE DEF IndInv, check_supported_cpu, Advance, OtherMsrVars, bootVars, States, Starting
<1>1. TypeOK'
  BY DEF TypeOK, MsrTypeOK, BootTypeOK, InHypervisor, InLoader
<1>2. StartedInOrder'
  BY DEF StartedInOrder, WindowsFullyVirtualized, InLoader, Aps, MsrTypeOK, TypeOK, BootTypeOK
<1>3. SetUp'
  BY DEF SetUp, InLoader, MsrTypeOK, TypeOK, BootTypeOK
<1>4. Stages'
  BY DEF Stages, MsrTypeOK, TypeOK, BootTypeOK
<1>5. LstarOnce'
  BY DEF LstarOnce, MsrTypeOK, TypeOK, BootTypeOK
<1>6. KernelAttempted'
  BY DEF KernelAttempted, MsrTypeOK, TypeOK, BootTypeOK
<1>7. VmxHidden'
  BY DEF VmxHidden, MsrTypeOK, TypeOK, BootTypeOK
<1>8. ImagePageHidden'
  BY DEF ImagePageHidden, MsrTypeOK, TypeOK, BootTypeOK
<1> QED
  BY <1>1, <1>2, <1>3, <1>4, <1>5, <1>6, <1>7, <1>8

\* Initialising the Vm preserves it.
LEMMA InitVmIndInv ==
  ASSUME IndInv, NEW c \in Cpus, InitVm(c)
  PROVE  IndInv'
<1> USE DEF IndInv, InitVm, Advance, OtherMsrVars, bootVars, States, Starting
<1>1. TypeOK'
  BY DEF TypeOK, MsrTypeOK, BootTypeOK, InHypervisor, InLoader
<1>2. StartedInOrder'
  BY DEF StartedInOrder, WindowsFullyVirtualized, InLoader, Aps, MsrTypeOK, TypeOK, BootTypeOK
<1>3. SetUp'
  BY DEF SetUp, InLoader, MsrTypeOK, TypeOK, BootTypeOK
<1>4. Stages'
  BY DEF Stages, MsrTypeOK, TypeOK, BootTypeOK
<1>5. LstarOnce'
  BY DEF LstarOnce, MsrTypeOK, TypeOK, BootTypeOK
<1>6. KernelAttempted'
  BY DEF KernelAttempted, MsrTypeOK, TypeOK, BootTypeOK
<1>7. VmxHidden'
  BY DEF VmxHidden, MsrTypeOK, TypeOK, BootTypeOK
<1>8. ImagePageHidden'
  BY DEF ImagePageHidden, MsrTypeOK, TypeOK, BootTypeOK
<1> QED
  BY <1>1, <1>2, <1>3, <1>4, <1>5, <1>6, <1>7, <1>8

\* Enabling VMX, or finding it locked, preserves it.
LEMMA ActivateVmxonIndInv ==
  ASSUME IndInv, NEW c \in Cpus, ActivateVmxon(c)
  PROVE  IndInv'
<1> USE DEF IndInv, ActivateVmxon, adjust_feature_control_msr, FeatureBits, Advance, OtherMsrVars, bootVars, States, Starting
<1>1. TypeOK'
  BY DEF TypeOK, MsrTypeOK, BootTypeOK, InHypervisor, InLoader
<1>2. StartedInOrder'
  BY DEF StartedInOrder, WindowsFullyVirtualized, InLoader, Aps, MsrTypeOK, TypeOK, BootTypeOK
<1>3. SetUp'
  BY DEF SetUp, InLoader, MsrTypeOK, TypeOK, BootTypeOK
<1>4. Stages'
  BY DEF Stages, MsrTypeOK, TypeOK, BootTypeOK
<1>5. LstarOnce'
  BY DEF LstarOnce, MsrTypeOK, TypeOK, BootTypeOK
<1>6. KernelAttempted'
  BY DEF KernelAttempted, MsrTypeOK, TypeOK, BootTypeOK
<1>7. VmxHidden'
  BY DEF VmxHidden, MsrTypeOK, TypeOK, BootTypeOK
<1>8. ImagePageHidden'
  BY DEF ImagePageHidden, MsrTypeOK, TypeOK, BootTypeOK
<1> QED
  BY <1>1, <1>2, <1>3, <1>4, <1>5, <1>6, <1>7, <1>8

\* Setting up the VMCS preserves it.
LEMMA ActivateVmcsIndInv ==
  ASSUME IndInv, NEW c \in Cpus, ActivateVmcs(c)
  PROVE  IndInv'
<1> USE DEF IndInv, ActivateVmcs, Advance, OtherMsrVars, bootVars, States, Starting
<1>1. TypeOK'
  BY DEF TypeOK, MsrTypeOK, BootTypeOK, InHypervisor, InLoader
<1>2. StartedInOrder'
  BY DEF StartedInOrder, WindowsFullyVirtualized, InLoader, Aps, MsrTypeOK, TypeOK, BootTypeOK
<1>3. SetUp'
  BY DEF SetUp, InLoader, MsrTypeOK, TypeOK, BootTypeOK
<1>4. Stages'
  BY DEF Stages, MsrTypeOK, TypeOK, BootTypeOK
<1>5. LstarOnce'
  BY DEF LstarOnce, MsrTypeOK, TypeOK, BootTypeOK
<1>6. KernelAttempted'
  BY DEF KernelAttempted, MsrTypeOK, TypeOK, BootTypeOK
<1>7. VmxHidden'
  BY DEF VmxHidden, MsrTypeOK, TypeOK, BootTypeOK
<1>8. ImagePageHidden'
  BY DEF ImagePageHidden, MsrTypeOK, TypeOK, BootTypeOK
<1> QED
  BY <1>1, <1>2, <1>3, <1>4, <1>5, <1>6, <1>7, <1>8

\* Hiding memory, or panicking with the lock held, preserves it.
LEMMA HideMemoryIndInv ==
  ASSUME IndInv, NEW c \in Cpus, HideMemory(c)
  PROVE  IndInv'
<1> USE DEF IndInv, HideMemory, Advance, OtherMsrVars, bootVars, States, Starting
<1>1. TypeOK'
  <2>1. hidden' \in [Cpus -> SUBSET (Cpus \cup {image})]
    BY DEF TypeOK, BootTypeOK, HiddenRanges
  <2>2. state' \in [Cpus -> States] /\ lock' \in Cpus \cup {None}
    BY DEF TypeOK, MsrTypeOK
  <2> QED
    BY <2>1, <2>2 DEF TypeOK, MsrTypeOK, BootTypeOK
<1>2. StartedInOrder'
  BY DEF StartedInOrder, WindowsFullyVirtualized, InLoader, Aps, MsrTypeOK, TypeOK, BootTypeOK
<1>3. SetUp'
  BY DEF SetUp, InLoader, MsrTypeOK, TypeOK, BootTypeOK
<1>4. Stages'
  BY DEF Stages, MsrTypeOK, TypeOK, BootTypeOK, SetUp, HiddenRanges
<1>5. LstarOnce'
  BY DEF LstarOnce, MsrTypeOK, TypeOK, BootTypeOK, StartedInOrder
<1>6. KernelAttempted'
  BY DEF KernelAttempted, MsrTypeOK, TypeOK, BootTypeOK
<1>7. VmxHidden'
  BY DEF VmxHidden, MsrTypeOK, TypeOK, BootTypeOK
<1>8. ImagePageHidden'
  <2>1. image \in HiddenRanges
    BY DEF SetUp, TypeOK, BootTypeOK, HiddenRanges
  <2>2. hidden' \in {hidden, [hidden EXCEPT ![c] = HiddenRanges]} /\ launched' = launched
    OBVIOUS
  <2> QED
    BY <2>1, <2>2 DEF ImagePageHidden, TypeOK, BootTypeOK
<1> QED
  BY <1>1, <1>2, <1>3, <1>4, <1>5, <1>6, <1>7, <1>8

\* Launching the guest preserves it.
LEMMA LaunchIndInv ==
  ASSUME IndInv, NEW c \in Cpus, Launch(c)
  PROVE  IndInv'
<1> USE DEF IndInv, Launch, Advance, OtherMsrVars, bootVars, States, Starting
<1>1. TypeOK'
  BY DEF TypeOK, MsrTypeOK, BootTypeOK, InHypervisor, InLoader
<1>2. StartedInOrder'
  <2>1. launched \subseteq launched' /\ launched' \subseteq Cpus
    BY DEF TypeOK, BootTypeOK
  <2>2. state[c] = "launch" /\ UNCHANGED pc /\ \A d \in Cpus \ {c} : state'[d] = state[d]
    BY DEF TypeOK, MsrTypeOK
  <2>3. WindowsFullyVirtualized'
    BY <2>1, <2>2 DEF StartedInOrder, WindowsFullyVirtualized
  <2> QED
    BY <2>1, <2>2, <2>3 DEF StartedInOrder, Aps
<1>3. SetUp'
  BY DEF SetUp, InLoader, MsrTypeOK, TypeOK, BootTypeOK
<1>4. Stages'
  BY DEF Stages, MsrTypeOK, TypeOK, BootTypeOK
<1>5. LstarOnce'
  BY DEF LstarOnce, MsrTypeOK, TypeOK, BootTypeOK
<1>6. KernelAttempted'
  BY DEF KernelAttempted, MsrTypeOK, TypeOK, BootTypeOK
<1>7. VmxHidden'
  BY DEF VmxHidden, MsrTypeOK, TypeOK, BootTypeOK, Stages
<1>8. ImagePageHidden'
  BY DEF ImagePageHidden, MsrTypeOK, TypeOK, BootTypeOK, Stages
<1> QED
  BY <1>1, <1>2, <1>3, <1>4, <1>5, <1>6, <1>7, <1>8

\* The loader's search, menu and start of the boot manager preserve it.
LEMMA LoaderIndInv ==
  ASSUME IndInv, Loader
  PROVE  IndInv'
<1> USE DEF IndInv, Loader, SearchBootManagers, PollNothing, PollKey, StartBootManager, LoaderStep, msrVars
<1>1. TypeOK'
  BY DEF TypeOK, MsrTypeOK, BootTypeOK, InHypervisor, InLoader
<1>2. StartedInOrder'
  BY DEF StartedInOrder, WindowsFullyVirtualized, InLoader, Aps
<1>3. SetUp'
  BY DEF SetUp, InLoader
<1>4. Stages'
  BY DEF Stages
<1>5. LstarOnce'
  BY DEF LstarOnce
<1>6. KernelAttempted'
  BY DEF KernelAttempted, SetUp
<1>7. VmxHidden'
  BY DEF VmxHidden
<1>8. ImagePageHidden'
  BY DEF ImagePageHidden
<1> QED
  BY <1>1, <1>2, <1>3, <1>4, <1>5, <1>6, <1>7, <1>8

\* Delivering #GP preserves it.
LEMMA DeliverGpIndInv ==
  ASSUME IndInv, NEW c \in Cpus, DeliverGp(c), UNCHANGED bootVars
  PROVE  IndInv'
<1> USE DEF IndInv, DeliverGp, bootVars, States, Starting
<1>1. TypeOK'
  BY DEF TypeOK, MsrTypeOK, BootTypeOK, InHypervisor, InLoader
<1>2. StartedInOrder'
  BY DEF StartedInOrder, WindowsFullyVirtualized, InLoader, Aps, MsrTypeOK, TypeOK, BootTypeOK
<1>3. SetUp'
  BY DEF SetUp, InLoader, MsrTypeOK, TypeOK, BootTypeOK
<1>4. Stages'
  BY DEF Stages, MsrTypeOK, TypeOK, BootTypeOK
<1>5. LstarOnce'
  BY DEF LstarOnce, MsrTypeOK, TypeOK, BootTypeOK
<1>6. KernelAttempted'
  BY DEF KernelAttempted, MsrTypeOK, TypeOK, BootTypeOK
<1>7. VmxHidden'
  BY DEF VmxHidden, MsrTypeOK, TypeOK, BootTypeOK
<1>8. ImagePageHidden'
  BY DEF ImagePageHidden, MsrTypeOK, TypeOK, BootTypeOK
<1> QED
  BY <1>1, <1>2, <1>3, <1>4, <1>5, <1>6, <1>7, <1>8

\* Ending the interception preserves it.
LEMMA LockAndUnhookIndInv ==
  ASSUME IndInv, NEW c \in Cpus, LockAndUnhook(c), UNCHANGED bootVars
  PROVE  IndInv'
<1> USE DEF IndInv, LockAndUnhook, modify_msr_interception, LstarWrite, FeatureRead, bootVars, States, Starting
<1>1. TypeOK'
  BY DEF TypeOK, MsrTypeOK, BootTypeOK, InHypervisor, InLoader, Bitmaps
<1>2. StartedInOrder'
  BY DEF StartedInOrder, WindowsFullyVirtualized, InLoader, Aps, MsrTypeOK, TypeOK, BootTypeOK
<1>3. SetUp'
  BY DEF SetUp, InLoader, MsrTypeOK, TypeOK, BootTypeOK, Stages
<1>4. Stages'
  BY DEF Stages, MsrTypeOK, TypeOK, BootTypeOK
<1>5. LstarOnce'
  BY DEF LstarOnce, MsrTypeOK, TypeOK, BootTypeOK
<1>6. KernelAttempted'
  BY DEF KernelAttempted, MsrTypeOK, TypeOK, BootTypeOK
<1>7. VmxHidden'
  BY DEF VmxHidden, MsrTypeOK, TypeOK, BootTypeOK
<1>8. ImagePageHidden'
  BY DEF ImagePageHidden, MsrTypeOK, TypeOK, BootTypeOK
<1> QED
  BY <1>1, <1>2, <1>3, <1>4, <1>5, <1>6, <1>7, <1>8

\* Finishing an LSTAR write preserves it.
LEMMA FinishLstarIndInv ==
  ASSUME IndInv, NEW c \in Cpus, FinishLstar(c), UNCHANGED bootVars
  PROVE  IndInv'
<1> USE DEF IndInv, FinishLstar, set_kernel_base_and_size, Lstars, bootVars, States, Starting
<1>1. TypeOK'
  <2>1. operand[c] \in LstarValues /\ ImageOf[operand[c]] \in Images
    BY DEF TypeOK, MsrTypeOK, LstarOnce
  <2>2. ntoskrnl' \in [va : Images \cup {None}, pa : Images \cup {None}, size : Images \cup {None}]
    BY <2>1 DEF TypeOK, MsrTypeOK
  <2> QED
    BY <2>1, <2>2 DEF TypeOK, MsrTypeOK, BootTypeOK
<1>2. StartedInOrder'
  BY DEF StartedInOrder, WindowsFullyVirtualized, InLoader, Aps, MsrTypeOK, TypeOK, BootTypeOK, Stages
<1>3. SetUp'
  BY DEF SetUp, InLoader, MsrTypeOK, TypeOK, BootTypeOK
<1>4. Stages'
  BY DEF Stages, MsrTypeOK, TypeOK, BootTypeOK
<1>5. LstarOnce'
  BY DEF LstarOnce, MsrTypeOK, TypeOK, BootTypeOK
<1>6. KernelAttempted'
  BY DEF KernelAttempted, MsrTypeOK, TypeOK, BootTypeOK, LstarOnce
<1>7. VmxHidden'
  BY DEF VmxHidden, MsrTypeOK, TypeOK, BootTypeOK
<1>8. ImagePageHidden'
  BY DEF ImagePageHidden, MsrTypeOK, TypeOK, BootTypeOK
<1> QED
  BY <1>1, <1>2, <1>3, <1>4, <1>5, <1>6, <1>7, <1>8

\* Reading IA32_FEATURE_CONTROL preserves it.
LEMMA ReadFeatureControlIndInv ==
  ASSUME IndInv, NEW c \in Cpus, ReadFeatureControl(c), UNCHANGED bootVars
  PROVE  IndInv'
<1> USE DEF IndInv, ReadFeatureControl, feature_control_value, FeatureBits, bootVars, States, Starting
<1>1. TypeOK'
  BY DEF TypeOK, MsrTypeOK, BootTypeOK, InHypervisor, InLoader
<1>2. StartedInOrder'
  BY DEF StartedInOrder, WindowsFullyVirtualized, InLoader, Aps, MsrTypeOK, TypeOK, BootTypeOK
<1>3. SetUp'
  BY DEF SetUp, InLoader, MsrTypeOK, TypeOK, BootTypeOK
<1>4. Stages'
  BY DEF Stages, MsrTypeOK, TypeOK, BootTypeOK
<1>5. LstarOnce'
  BY DEF LstarOnce, MsrTypeOK, TypeOK, BootTypeOK
<1>6. KernelAttempted'
  BY DEF KernelAttempted, MsrTypeOK, TypeOK, BootTypeOK
<1>7. VmxHidden'
  BY DEF VmxHidden, MsrTypeOK, TypeOK, BootTypeOK, SetUp
<1>8. ImagePageHidden'
  BY DEF ImagePageHidden, MsrTypeOK, TypeOK, BootTypeOK
<1> QED
  BY <1>1, <1>2, <1>3, <1>4, <1>5, <1>6, <1>7, <1>8

\* A kernel that cannot be located preserves it.
LEMMA FailLstarIndInv ==
  ASSUME IndInv, NEW c \in Cpus, NEW steps \in 0..2, FailLstar(c, steps), UNCHANGED bootVars
  PROVE  IndInv'
<1> USE DEF IndInv, FailLstar, set_kernel_base_and_size, Lstars, bootVars, States, Starting
<1>1. TypeOK'
  <2>1. operand[c] \in LstarValues /\ ImageOf[operand[c]] \in Images
    BY DEF TypeOK, MsrTypeOK, LstarOnce
  <2>2. ntoskrnl' \in [va : Images \cup {None}, pa : Images \cup {None}, size : Images \cup {None}]
    BY <2>1 DEF TypeOK, MsrTypeOK
  <2> QED
    BY <2>1, <2>2 DEF TypeOK, MsrTypeOK, BootTypeOK
<1>2. StartedInOrder'
  BY DEF StartedInOrder, WindowsFullyVirtualized, InLoader, Aps, MsrTypeOK, TypeOK, BootTypeOK
<1>3. SetUp'
  BY DEF SetUp, InLoader, MsrTypeOK, TypeOK, BootTypeOK
<1>4. Stages'
  BY DEF Stages, MsrTypeOK, TypeOK, BootTypeOK
<1>5. LstarOnce'
  BY DEF LstarOnce, MsrTypeOK, TypeOK, BootTypeOK, StartedInOrder
<1>6. KernelAttempted'
  BY DEF KernelAttempted, MsrTypeOK, TypeOK, BootTypeOK
<1>7. VmxHidden'
  BY DEF VmxHidden, MsrTypeOK, TypeOK, BootTypeOK
<1>8. ImagePageHidden'
  BY DEF ImagePageHidden, MsrTypeOK, TypeOK, BootTypeOK
<1> QED
  BY <1>1, <1>2, <1>3, <1>4, <1>5, <1>6, <1>7, <1>8

\* A write of IA32_LSTAR, intercepted or not, preserves it.
LEMMA WriteLstarIndInv ==
  ASSUME IndInv, NEW c \in Cpus, NEW v \in LstarValues, pc = "windows", WriteLstar(c, v), UNCHANGED bootVars
  PROVE  IndInv'
<1> USE DEF IndInv, WriteLstar, Lstars, bootVars, States, Starting
<1>1. TypeOK'
  <2>1. state' \in [Cpus -> States]
    BY DEF TypeOK, MsrTypeOK
  <2>2. operand' \in [Cpus -> Lstars] /\ lstar' \in [Cpus -> Lstars]
    BY DEF TypeOK, MsrTypeOK
  <2> QED
    BY <2>1, <2>2 DEF TypeOK, MsrTypeOK, BootTypeOK
<1>2. StartedInOrder'
  BY DEF StartedInOrder, WindowsFullyVirtualized, InLoader, Aps, MsrTypeOK, TypeOK, BootTypeOK
<1>3. SetUp'
  BY DEF SetUp, InLoader, MsrTypeOK, TypeOK, BootTypeOK
<1>4. Stages'
  BY DEF Stages, MsrTypeOK, TypeOK, BootTypeOK
<1>5. LstarOnce'
  BY DEF LstarOnce, MsrTypeOK, TypeOK, BootTypeOK
<1>6. KernelAttempted'
  BY DEF KernelAttempted, MsrTypeOK, TypeOK, BootTypeOK
<1>7. VmxHidden'
  BY DEF VmxHidden, MsrTypeOK, TypeOK, BootTypeOK
<1>8. ImagePageHidden'
  BY DEF ImagePageHidden, MsrTypeOK, TypeOK, BootTypeOK
<1> QED
  BY <1>1, <1>2, <1>3, <1>4, <1>5, <1>6, <1>7, <1>8

\* An access outside the bitmap preserves it.
LEMMA AccessUncoveredIndInv ==
  ASSUME IndInv, NEW c \in Cpus, NEW msr \in {"hyperv", "reserved"}, pc = "windows", AccessUncovered(c, msr), UNCHANGED bootVars
  PROVE  IndInv'
<1> USE DEF IndInv, AccessUncovered, Rejected, bootVars, States, Starting
<1>1. TypeOK'
  BY DEF TypeOK, MsrTypeOK, BootTypeOK, InHypervisor, InLoader
<1>2. StartedInOrder'
  BY DEF StartedInOrder, WindowsFullyVirtualized, InLoader, Aps, MsrTypeOK, TypeOK, BootTypeOK
<1>3. SetUp'
  BY DEF SetUp, InLoader, MsrTypeOK, TypeOK, BootTypeOK
<1>4. Stages'
  BY DEF Stages, MsrTypeOK, TypeOK, BootTypeOK
<1>5. LstarOnce'
  BY DEF LstarOnce, MsrTypeOK, TypeOK, BootTypeOK
<1>6. KernelAttempted'
  BY DEF KernelAttempted, MsrTypeOK, TypeOK, BootTypeOK
<1>7. VmxHidden'
  BY DEF VmxHidden, MsrTypeOK, TypeOK, BootTypeOK
<1>8. ImagePageHidden'
  BY DEF ImagePageHidden, MsrTypeOK, TypeOK, BootTypeOK
<1> QED
  BY <1>1, <1>2, <1>3, <1>4, <1>5, <1>6, <1>7, <1>8

\* Every step of the system preserves the invariant.
LEMMA NextIndInv == IndInv /\ [Next]_vars => IndInv'
<1> SUFFICES ASSUME IndInv, [Next]_vars PROVE IndInv'
  OBVIOUS
<1>1. CASE Setup
  BY <1>1, LoadIndInv, SetupIndInv, AllProcessorsIndInv DEF Setup
<1>2. CASE Loader
  BY <1>2, LoaderIndInv
<1>3. ASSUME NEW c \in Cpus, StartHypervisor(c) PROVE IndInv'
  BY <1>3, VirtualizeSystemIndInv, CheckSupportedCpuIndInv, InitVmIndInv, ActivateVmxonIndInv, ActivateVmcsIndInv,
     HideMemoryIndInv, LaunchIndInv DEF StartHypervisor
<1>4. ASSUME NEW c \in Cpus, Exit(c) PROVE IndInv'
  BY <1>4, DeliverGpIndInv, LockAndUnhookIndInv, FinishLstarIndInv, FailLstarIndInv DEF Exit, HandleExit
<1>5. ASSUME NEW c \in Cpus, GuestStep(c) PROVE IndInv'
  BY <1>5, ReadFeatureControlIndInv, WriteLstarIndInv, AccessUncoveredIndInv DEF GuestStep
<1>6. CASE UNCHANGED vars
  BY <1>6 DEF vars, msrVars, bootVars, IndInv, TypeOK, MsrTypeOK, BootTypeOK, StartedInOrder, SetUp,
     Stages, LstarOnce, KernelAttempted, VmxHidden, ImagePageHidden, WindowsFullyVirtualized
<1> QED
  BY <1>1, <1>2, <1>3, <1>4, <1>5, <1>6 DEF Next

\* The inductive invariant, types included, holds throughout.
THEOREM BootInvariant == Spec => []IndInv
  BY InitIndInv, NextIndInv, PTL DEF Spec

\* The state of the start and of the MSR exits is well typed: among others the
\* menu never polls more often than its limit.
THEOREM BootTypeCorrect == Spec => []TypeOK
<1>1. IndInv => TypeOK
  BY DEF IndInv
<1> QED
  BY <1>1, BootInvariant, PTL

\* However many processors there are and whatever fails on the way, Windows
\* and the loader behind the hypervisor run only on virtualized processors.
THEOREM BootVirtualizesAll == Spec => []WindowsFullyVirtualized
<1>1. IndInv => WindowsFullyVirtualized
  BY DEF IndInv, StartedInOrder
<1> QED
  BY <1>1, BootInvariant, PTL

\* VMX is enabled wherever a guest runs, and no guest reads it as enabled.
THEOREM BootHidesVmx == Spec => []VmxHidden
<1>1. IndInv => VmxHidden
  BY DEF IndInv
<1> QED
  BY <1>1, BootInvariant, PTL

\* Every processor that runs a guest has hidden the first page of the
\* hypervisor's image.
THEOREM BootHidesImagePage == Spec => []ImagePageHidden
<1>1. IndInv => ImagePageHidden
  BY DEF IndInv
<1> QED
  BY <1>1, BootInvariant, PTL

\* The kernel is located when the interception of LSTAR has ended.
THEOREM BootFindsKernel == Spec => []KernelKnown
<1>1. IndInv => KernelKnown
  BY DEF IndInv, KernelAttempted, KernelKnown, LstarOnce
<1> QED
  BY <1>1, BootInvariant, PTL

\* No processor's LSTAR write is lost, in whatever order the processors'
\* exits and handlers interleave.
THEOREM LstarWritesReach == Spec => LstarKept
<1> DEFINE Kept == \A c \in Cpus : state[c] = "lstar" /\ state'[c] = "guest" => lstar'[c] = operand[c]
<1>1. IndInv /\ [Next]_vars => [Kept]_vars
  <2> SUFFICES ASSUME IndInv, Next, NEW c \in Cpus, state[c] = "lstar", state'[c] = "guest"
               PROVE  lstar'[c] = operand[c]
    BY DEF Kept
  <2>1. FinishLstar(c)
    <3> USE DEF IndInv, TypeOK, MsrTypeOK
    <3>1. CASE Setup \/ Loader
      BY <3>1 DEF Setup, Loader, LoadHypervisor, setup, start_hypervisor_on_all_processors,
         SearchBootManagers, PollNothing, PollKey, StartBootManager, LoaderStep, msrVars
    <3>2. ASSUME NEW d \in Cpus, StartHypervisor(d) PROVE FALSE
      BY <3>2 DEF StartHypervisor, virtualize_system, check_supported_cpu, InitVm, ActivateVmxon, ActivateVmcs,
         HideMemory, Launch, Advance
    <3>3. ASSUME NEW d \in Cpus, Exit(d) PROVE FinishLstar(c)
      BY <3>3 DEF Exit, HandleExit, DeliverGp, LockAndUnhook, FinishLstar, FailLstar
    <3>4. ASSUME NEW d \in Cpus, GuestStep(d) PROVE FALSE
      BY <3>4 DEF GuestStep, ReadFeatureControl, WriteLstar, AccessUncovered
    <3> QED
      BY <3>1, <3>2, <3>3, <3>4 DEF Next
  <2>2. original_lstar[c] = None /\ operand[c] # None
    BY DEF IndInv, LstarOnce
  <2> QED
    BY <2>1, <2>2 DEF FinishLstar, IndInv, TypeOK, MsrTypeOK
<1> QED
  BY <1>1, BootInvariant, PTL DEF Spec, LstarKept
=============================================================================
