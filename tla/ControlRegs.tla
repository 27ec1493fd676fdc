----------------------------- MODULE ControlRegs -----------------------------
(***************************************************************************)
(* The control registers of one virtual CPU: what the guest believes CR0,  *)
(* CR4 and XCR0 to be, what the VMCS really holds, and the exits that keep *)
(* the two together (vmexit/cr.rs, xsetbv.rs, vmxon.rs, init.rs, sipi.rs,  *)
(* and the masks and shadows set up in vmcs.rs).                           *)
(*                                                                         *)
(* A register is the set of its bits that are 1.  Bits that the code       *)
(* treats alike are one bit here: "TS" and "PGE" stand for the bits of CR0 *)
(* and CR4 that the guest owns and nothing depends on, "reserved" for      *)
(* CR0[15:6], [17] and [28:19], and for CR4[15] and CR4[63:32], "high" for *)
(* CR0[63:32].                                                             *)
(***************************************************************************)
EXTENDS Naturals

CONSTANTS
  CR0_FIXED0, CR0_FIXED1, \* IA32_VMX_CR0_FIXED0 and _FIXED1
  CR4_FIXED0, CR4_FIXED1, \* IA32_VMX_CR4_FIXED0 and _FIXED1
  has_smx,                \* cpuid_feature_info.has_smx()
  XFeatures,              \* CPUID leaf 0DH: the complement of xcr0_unsupported_mask
  FirmwareCr0, FirmwareCr4, \* control registers when the hypervisor starts
  Cr0Operands, Cr4Operands, Xcr0Operands \* what the guest may write

Cr0Bits == {"PE", "TS", "ET", "NE", "WP", "NW", "CD", "PG", "reserved", "high"}
Cr4Bits == {"PAE", "PGE", "PCIDE", "VMXE", "SMXE", "CET", "LA57", "reserved"}
Xcr0Bits == {"X87", "SSE", "AVX", "OPMASK", "ZMM_HI256", "HI16_ZMM", "BNDREG", "BNDCSR",
             "TILECFG", "TILEDATA"}

\* What the SDM says of the fixed-bit MSRs.
ASSUME FixedAssumption ==
  /\ CR0_FIXED0 \subseteq CR0_FIXED1 /\ CR0_FIXED1 \subseteq Cr0Bits
  /\ CR4_FIXED0 \subseteq CR4_FIXED1 /\ CR4_FIXED1 \subseteq Cr4Bits
  /\ {"PE", "NE", "PG"} \subseteq CR0_FIXED0
  /\ CR0_FIXED0 \cap {"TS", "ET", "WP", "NW", "CD", "reserved"} = {}
  /\ "high" \notin CR0_FIXED1
  /\ {"PE", "TS", "ET", "NE", "WP", "NW", "CD", "PG", "reserved"} \subseteq CR0_FIXED1
  /\ "VMXE" \in CR4_FIXED0
  /\ CR4_FIXED0 \cap {"CET", "PAE", "PCIDE"} = {}
  /\ "PAE" \in CR4_FIXED1
  /\ "reserved" \notin CR4_FIXED1
  /\ has_smx \in BOOLEAN /\ (has_smx <=> "SMXE" \in CR4_FIXED1)
ASSUME FirmwareAssumption ==
  /\ XFeatures \subseteq Xcr0Bits /\ "X87" \in XFeatures
  \* UEFI runs in long mode; set_cr0_bits and set_cr4_bits have been called
  /\ {"PE", "PG", "ET"} \cup CR0_FIXED0 \subseteq FirmwareCr0
  /\ FirmwareCr0 \subseteq CR0_FIXED1 \ {"reserved", "NW"}
  /\ {"PAE"} \cup CR4_FIXED0 \subseteq FirmwareCr4
  /\ FirmwareCr4 \subseteq CR4_FIXED1 \ {"CET"}
ASSUME OperandAssumption ==
  /\ Cr0Operands \subseteq SUBSET Cr0Bits
  /\ Cr4Operands \subseteq SUBSET Cr4Bits
  /\ Xcr0Operands \subseteq SUBSET Xcr0Bits

VARIABLES
  cr0, cr0_shadow, \* guest::CR0 and CR0_READ_SHADOW
  cr4, cr4_shadow, \* guest::CR4 and CR4_READ_SHADOW
  cr3_low,         \* CR3[11:0] # 0
  xcr0,
  ia32e,           \* IA32E_MODE_GUEST of the VM-entry controls
  activity,        \* guest activity state
  event,           \* event the next VM entry injects
  stopped          \* the handler has panicked, or faulted itself

vars == <<cr0, cr0_shadow, cr4, cr4_shadow, cr3_low, xcr0, ia32e, activity, event, stopped>>

\* Types of the registers.
TypeOK ==
  /\ cr0 \subseteq Cr0Bits /\ cr0_shadow \subseteq Cr0Bits
  /\ cr4 \subseteq Cr4Bits /\ cr4_shadow \subseteq Cr4Bits
  /\ cr3_low \in BOOLEAN
  /\ xcr0 \subseteq Xcr0Bits
  /\ ia32e \in BOOLEAN
  /\ activity \in {"Active", "WaitForSipi"}
  /\ event \in {"none", "GP", "UD"}
  /\ stopped \in BOOLEAN

-----------------------------------------------------------------------------
(* Masks, shadows and what the guest reads                                 *)

\* Mutant: the bits that must be 1 are left to the guest.
Cr0MaskWithoutFixed0 == (Cr0Bits \ CR0_FIXED1) \cup {"CD", "WP"}

\* CR0_GUEST_HOST_MASK and CR4_GUEST_HOST_MASK: the bits the hypervisor owns.
Cr0Mask == CR0_FIXED0 \cup (Cr0Bits \ CR0_FIXED1) \cup {"CD", "WP"}
Cr4Mask == CR4_FIXED0 \cup (Cr4Bits \ CR4_FIXED1)

read_effective_guest_cr0 == (cr0_shadow \cap Cr0Mask) \cup (cr0 \ Cr0Mask)
read_effective_guest_cr4 == (cr4_shadow \cap Cr4Mask) \cup (cr4 \ Cr4Mask)

\* Mutant: bits that must be 1 are forgotten.
Cr0WithinFixed1(new) == new \cap CR0_FIXED1

\* "account for VMX reserved bits when setting the real CR0", and CR4.
RealCr0(new) == (new \cup CR0_FIXED0) \cap CR0_FIXED1
RealCr4(new) == (new \cup CR4_FIXED0) \cap CR4_FIXED1

\* adjust_guest_cr0: an unrestricted guest gets PE and PG only if it asked.
adjust_guest_cr0(v) == (((v \cap CR0_FIXED1) \cup CR0_FIXED0) \ {"PE", "PG"}) \cup (v \cap {"PE", "PG"})

adjust_cr4 == CR4_FIXED0

-----------------------------------------------------------------------------
(* Exit handlers                                                           *)

RegsUnchanged == UNCHANGED <<cr0, cr0_shadow, cr4, cr4_shadow, cr3_low, xcr0, ia32e, activity>>

Inject(e) == event' = e /\ RegsUnchanged /\ UNCHANGED stopped

\* unimplemented!(), or an error that reaches `expect` in vmm.rs.
Panic == stopped' = TRUE /\ RegsUnchanged /\ UNCHANGED event

\* Reserved bits read as zero, ET as one.
NormalCr0(v) == (v \ {"reserved"}) \cup {"ET"}

\* The values handle_mov_to_cr0 answers with #GP(0).
Cr0Fault(new) ==
  \/ "high" \in new
  \/ "PG" \in new /\ "PE" \notin new
  \/ "CD" \notin new /\ "NW" \in new
  \/ "PG" \notin new
  \/ "WP" \notin new /\ "CET" \in read_effective_guest_cr4

\* The change of caching that is left unimplemented.  (The code compares
\* CACHE_DISABLE of the new value with itself.)
Cr0Unimplemented(new) ==
  \/ ("CD" \in new) # ("CD" \in new)
  \/ ("NW" \in new) # ("NW" \in read_effective_guest_cr0)

handle_mov_to_cr0(v) ==
  LET new == NormalCr0(v) IN
  \/ Cr0Fault(new) /\ Inject("GP")
  \/ ~Cr0Fault(new) /\ Cr0Unimplemented(new) /\ Panic
  \/ /\ ~Cr0Fault(new) /\ ~Cr0Unimplemented(new)
     /\ cr0_shadow' = new
     /\ cr0' = RealCr0(new)
     /\ UNCHANGED <<cr4, cr4_shadow, cr3_low, xcr0, ia32e, activity, event, stopped>>

\* The values handle_mov_to_cr4 answers with #GP(0).
Cr4Fault(new) ==
  \/ has_smx /\ "SMXE" \in new
  \/ "reserved" \in new
  \/ "PCIDE" \in new /\ "PCIDE" \notin read_effective_guest_cr4 /\ cr3_low
  \/ "PAE" \notin new
  \/ "LA57" \in new
  \/ "CET" \in new /\ "WP" \notin read_effective_guest_cr0

\* invvpid_single_context has no effect on the state kept here.
handle_mov_to_cr4(new) ==
  \/ Cr4Fault(new) /\ Inject("GP")
  \/ /\ ~Cr4Fault(new)
     /\ cr4_shadow' = new
     /\ cr4' = RealCr4(new)
     /\ UNCHANGED <<cr0, cr0_shadow, cr3_low, xcr0, ia32e, activity, event, stopped>>

\* Mutant: the AVX-512 features may be enabled one by one.
xcr0_features_alone(v) ==
  /\ "X87" \in v
  /\ "AVX" \in v => "SSE" \in v
  /\ "BNDREG" \in v <=> "BNDCSR" \in v

is_valid_xcr0(v) ==
  LET avx512 == {"OPMASK", "ZMM_HI256", "HI16_ZMM"} IN
  /\ "X87" \in v
  /\ "AVX" \in v => "SSE" \in v
  /\ v \cap avx512 # {} => "AVX" \in v
  /\ "BNDREG" \in v <=> "BNDCSR" \in v
  /\ ("OPMASK" \in v <=> "ZMM_HI256" \in v) /\ ("ZMM_HI256" \in v <=> "HI16_ZMM" \in v)

\* The features the processor wants with each one (external: the
\* description of XSETBV).
Needs == [f \in Xcr0Bits |->
  CASE f \in {"X87", "SSE"} -> {"X87"}
    [] f = "AVX" -> {"X87", "SSE"}
    [] f \in {"BNDREG", "BNDCSR"} -> {"X87", "BNDREG", "BNDCSR"}
    [] f \in {"TILECFG", "TILEDATA"} -> {"X87", "TILECFG", "TILEDATA"}
    [] OTHER -> {"X87", "SSE", "AVX", "OPMASK", "ZMM_HI256", "HI16_ZMM"}]
XsetbvFaults(v) == "X87" \notin v \/ ~(v \subseteq XFeatures) \/ \E f \in v : ~(Needs[f] \subseteq v)

\* XSETBV always exits; xcr is the register number in RCX.  What is accepted
\* the host executes itself, where a fault has no handler.
handle_xsetbv(xcr, v) ==
  \/ (xcr # 0 \/ ~(v \subseteq XFeatures) \/ ~is_valid_xcr0(v)) /\ Inject("GP")
  \/ xcr = 0 /\ v \subseteq XFeatures /\ is_valid_xcr0(v) /\ XsetbvFaults(v) /\ Panic
  \/ /\ xcr = 0 /\ v \subseteq XFeatures /\ is_valid_xcr0(v) /\ ~XsetbvFaults(v)
     /\ xcr0' = v
     /\ UNCHANGED <<cr0, cr0_shadow, cr4, cr4_shadow, cr3_low, ia32e, activity, event, stopped>>

\* VMXON and the other VMX instructions.
handle_vmxon == Inject(IF "VMXE" \in read_effective_guest_cr4 THEN "GP" ELSE "UD")
handle_undefined_opcode_exception == Inject("UD")

\* Mutant: the guest stays marked as a 64-bit one.
handle_init_signal_keeps_mode ==
  /\ cr0_shadow' = {} /\ cr0' = adjust_guest_cr0({"ET"})
  /\ cr4_shadow' = {} /\ cr4' = adjust_cr4
  /\ cr3_low' = FALSE
  /\ activity' = "WaitForSipi"
  /\ UNCHANGED <<ia32e, xcr0, event, stopped>>

handle_init_signal ==
  /\ cr0_shadow' = {} /\ cr0' = adjust_guest_cr0({"ET"})
  /\ cr4_shadow' = {} /\ cr4' = adjust_cr4
  /\ cr3_low' = FALSE
  /\ ia32e' = FALSE
  /\ activity' = "WaitForSipi"
  /\ UNCHANGED <<xcr0, event, stopped>>

handle_sipi_signal ==
  /\ activity' = "Active"
  /\ UNCHANGED <<cr0, cr0_shadow, cr4, cr4_shadow, cr3_low, xcr0, ia32e, event, stopped>>

-----------------------------------------------------------------------------
(* The guest and the processor (external): an instruction exits when it    *)
(* would change a bit the hypervisor owns; otherwise the processor checks  *)
(* and performs it.                                                        *)

\* The checks of VM entry on the guest's control registers: bits fixed by VMX
\* have their value (PE and PG aside, unrestricted guest), paging needs
\* protected mode, a 64-bit guest needs paging and PAE and only a 64-bit
\* guest may have PCIDE, CET needs WP.
EntryChecks ==
  /\ CR0_FIXED0 \ {"PE", "PG"} \subseteq cr0 /\ cr0 \subseteq CR0_FIXED1
  /\ CR4_FIXED0 \subseteq cr4 /\ cr4 \subseteq CR4_FIXED1
  /\ "PG" \in cr0 => "PE" \in cr0
  /\ ia32e => "PG" \in cr0 /\ "PAE" \in cr4
  /\ ~ia32e => "PCIDE" \notin cr4
  /\ "CET" \in cr4 => "WP" \in cr0

\* VM entry fails: "Failed to run the VM" in vmm.rs.
VmEntryFails == ~stopped /\ ~EntryChecks /\ Panic

Entered == ~stopped /\ EntryChecks
Executing == activity = "Active" /\ event = "none" /\ Entered

\* No exit: the owned bits keep their real value.  Reserved bits cannot be
\* set and ET cannot be cleared.
ProcessorMovToCr0(v) ==
  LET new == NormalCr0(v) IN
  \/ ("NW" \in new /\ "CD" \notin new) /\ Inject("GP")
  \/ /\ ~("NW" \in new /\ "CD" \notin new)
     /\ cr0' = (new \ Cr0Mask) \cup (cr0 \cap Cr0Mask)
     /\ UNCHANGED <<cr0_shadow, cr4, cr4_shadow, cr3_low, xcr0, ia32e, activity, event, stopped>>

MovToCr0(v) ==
  /\ Executing
  /\ IF v \cap Cr0Mask # cr0_shadow \cap Cr0Mask
     THEN handle_mov_to_cr0(v)
     ELSE ProcessorMovToCr0(v)

\* LMSW sets PE or leaves it, and writes guest-owned bits.  Setting PE exits,
\* with an access type that handle_cr_reg_access refuses.
Lmsw(v) ==
  /\ Executing
  /\ IF "PE" \in v /\ "PE" \notin cr0_shadow
     THEN Panic
     ELSE /\ cr0' = (cr0 \ {"TS"}) \cup (v \cap {"TS"})
          /\ UNCHANGED <<cr0_shadow, cr4, cr4_shadow, cr3_low, xcr0, ia32e, activity, event, stopped>>

ProcessorCr4Fault(v) ==
  \/ ia32e /\ "PAE" \notin v
  \/ "PCIDE" \in v \ read_effective_guest_cr4 /\ (~ia32e \/ cr3_low)
  \/ ia32e /\ ("LA57" \in v) # ("LA57" \in cr4)
  \/ "CET" \in v /\ "WP" \notin cr0

ProcessorMovToCr4(v) ==
  \/ ProcessorCr4Fault(v) /\ Inject("GP")
  \/ /\ ~ProcessorCr4Fault(v)
     /\ cr4' = (v \ Cr4Mask) \cup (cr4 \cap Cr4Mask)
     /\ UNCHANGED <<cr0, cr0_shadow, cr4_shadow, cr3_low, xcr0, ia32e, activity, event, stopped>>

MovToCr4(v) ==
  /\ Executing
  /\ IF v \cap Cr4Mask # cr4_shadow \cap Cr4Mask
     THEN handle_mov_to_cr4(v)
     ELSE ProcessorMovToCr4(v)

\* MOV to CR3 does not exit.
MovToCr3 ==
  /\ Executing
  /\ cr3_low' \in BOOLEAN
  /\ UNCHANGED <<cr0, cr0_shadow, cr4, cr4_shadow, xcr0, ia32e, activity, event, stopped>>

Xsetbv(xcr, v) == Executing /\ handle_xsetbv(xcr, v)

VmxInstruction == Executing /\ (handle_vmxon \/ handle_undefined_opcode_exception)

\* VM entry delivers the injected event.
DeliverEvent ==
  /\ event # "none" /\ Entered
  /\ event' = "none"
  /\ RegsUnchanged /\ UNCHANGED stopped

InitSignal == Executing /\ handle_init_signal

\* A start-up IPI exits only in the wait-for-SIPI state.
StartupIpi == activity = "WaitForSipi" /\ Entered /\ handle_sipi_signal

Init ==
  /\ cr0 = FirmwareCr0 /\ cr0_shadow = FirmwareCr0
  /\ cr4 = FirmwareCr4 /\ cr4_shadow = FirmwareCr4 \ {"VMXE"}
  /\ cr3_low = FALSE
  /\ xcr0 = {"X87"}
  /\ ia32e = TRUE
  /\ activity = "Active"
  /\ event = "none"
  /\ stopped = FALSE

Next ==
  \/ \E v \in Cr0Operands : MovToCr0(v)
  \/ \E v \in SUBSET {"PE", "TS"} : Lmsw(v)
  \/ \E v \in Cr4Operands : MovToCr4(v)
  \/ MovToCr3
  \/ \E xcr \in {0, 1}, v \in Xcr0Operands : Xsetbv(xcr, v)
  \/ VmxInstruction
  \/ VmEntryFails
  \/ DeliverEvent
  \/ InitSignal
  \/ StartupIpi

Spec == Init /\ [][Next]_vars

-----------------------------------------------------------------------------
(* Properties                                                              *)

\* What the handlers keep true of the real registers: every check of VM entry
\* but the one on PCIDE.
RegistersOK ==
  /\ CR0_FIXED0 \ {"PE", "PG"} \subseteq cr0 /\ cr0 \subseteq CR0_FIXED1
  /\ CR4_FIXED0 \subseteq cr4 /\ cr4 \subseteq CR4_FIXED1
  /\ "PG" \in cr0 => "PE" \in cr0
  /\ ia32e => "PG" \in cr0 /\ "PAE" \in cr4
  /\ "CET" \in cr4 => "WP" \in cr0

\* Shadow and real register agree on the bits the hypervisor owns and VMX
\* leaves free, and on paging and protected mode.
ShadowsAgree ==
  /\ cr0_shadow \cap {"WP", "CD", "PE", "PG"} = cr0 \cap {"WP", "CD", "PE", "PG"}
  /\ cr0 \cap {"reserved", "high"} = {} /\ "ET" \in cr0
  /\ "high" \notin cr0_shadow

\* The inductive invariant.
IndInv == TypeOK /\ RegistersOK /\ ShadowsAgree

\* A write to CR4 that exits, and asks for PCIDE outside 64-bit mode.
PcideOutside64(v) ==
  /\ ~ia32e /\ "PCIDE" \in v
  /\ v \cap Cr4Mask # cr4_shadow \cap Cr4Mask
  /\ MovToCr4(v)

\* No step of the guest and no exit handler turns registers that pass the
\* checks of VM entry into registers that fail them, with one exception:
\* handle_mov_to_cr4 does not test for 64-bit mode, so after INIT and SIPI a
\* write of PCIDE that exits is accepted and the next vm.run() ends in "Failed
\* to run the VM".
EntryFailsOnlyForPcide ==
  [][EntryChecks /\ ~EntryChecks' => \E v \in Cr4Operands : PcideOutside64(v)]_vars

\* The guest reads back what it wrote: a MOV to CR0 or CR4 that neither
\* faults nor stops leaves exactly the written bits (reserved ones aside) in
\* the register as the guest sees it, whichever of them VMX has fixed.
ReadBack ==
  [][event = "none" /\ event' = "none" /\ ~stopped' =>
       /\ \A v \in Cr0Operands : MovToCr0(v) => read_effective_guest_cr0' = NormalCr0(v)
       /\ \A v \in Cr4Operands : MovToCr4(v) => read_effective_guest_cr4' = v]_vars

\* The XSETBV that the host executes for the guest faults for one kind of value
\* only: is_valid_xcr0 has no rule for the AMX tile state, so it lets one of
\* TILECFG and TILEDATA through without the other where CPUID reports both.
\* Every other value that it lets through the processor accepts.
OnlyTilesFault ==
  [][\A v \in Xcr0Operands : Xsetbv(0, v) /\ stopped' =>
       ("TILECFG" \in v) # ("TILEDATA" \in v)]_vars

\* cr.rs: "#GP(0) if an attempt is made to clear CR0.PG".  Setting PE on top
\* of what CR0 holds, the first thing a processor started by INIT and SIPI
\* does, clears nothing and does not fault.
ProtectedModeReachable ==
  [][MovToCr0(read_effective_guest_cr0 \cup {"PE"}) => event' # "GP"]_vars
=============================================================================
