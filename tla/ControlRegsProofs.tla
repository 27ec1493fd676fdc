-------------------------- MODULE ControlRegsProofs --------------------------
(***************************************************************************)
(* Proofs about ControlRegs, for every set of fixed bits a processor may   *)
(* report and every set of operands the guest may write.                   *)
(***************************************************************************)
EXTENDS ControlRegs, TLAPS

USE FixedAssumption, FirmwareAssumption, OperandAssumption

\* Which bits the masks do and do not contain, whatever the processor reports.
LEMMA MaskFacts ==
  /\ {"PE", "PG", "WP", "CD", "NE", "high"} \subseteq Cr0Mask
  /\ {"ET", "TS", "NW", "reserved"} \cap Cr0Mask = {}
  /\ "VMXE" \in Cr4Mask /\ "reserved" \in Cr4Mask
  /\ "PAE" \notin Cr4Mask
  /\ "CET" \in CR4_FIXED1 => "CET" \notin Cr4Mask
  /\ CR0_FIXED0 \subseteq Cr0Mask /\ Cr0Bits \ Cr0Mask \subseteq CR0_FIXED1
  /\ CR4_FIXED0 \subseteq Cr4Mask /\ Cr4Bits \ Cr4Mask \subseteq CR4_FIXED1
BY DEF Cr0Mask, Cr4Mask, Cr0Bits, Cr4Bits

\* The initial state satisfies the invariant.
LEMMA InitIndInv == Init => IndInv
<1> SUFFICES ASSUME Init PROVE IndInv
  OBVIOUS
<1>1. TypeOK
  BY DEF Init, TypeOK, Xcr0Bits
<1>2. RegistersOK
  BY DEF Init, RegistersOK
<1>3. ShadowsAgree
  BY DEF Init, ShadowsAgree
<1> QED
  BY <1>1, <1>2, <1>3 DEF IndInv

\* A handler that only injects, stops, or delivers an event keeps the invariant.
LEMMA QuietIndInv ==
  ASSUME IndInv, RegsUnchanged, event' \in {"none", "GP", "UD"}, stopped' \in BOOLEAN
  PROVE  IndInv'
BY DEF IndInv, TypeOK, RegistersOK, ShadowsAgree, RegsUnchanged

\* A write to CR0 keeps the invariant, exit or not.
LEMMA MovToCr0IndInv ==
  ASSUME IndInv, NEW v \in Cr0Operands, MovToCr0(v)
  PROVE  IndInv'
<1> DEFINE new == NormalCr0(v)
<1>0. /\ v \subseteq Cr0Bits /\ new \subseteq Cr0Bits
      /\ "ET" \in new /\ "reserved" \notin new
  BY DEF NormalCr0, Cr0Bits
<1>1. CASE v \cap Cr0Mask # cr0_shadow \cap Cr0Mask
  <2>1. handle_mov_to_cr0(v)
    BY <1>1 DEF MovToCr0
  <2>2. CASE Inject("GP")
    BY <2>2, QuietIndInv DEF Inject, IndInv, TypeOK
  <2>3. CASE Panic
    BY <2>3, QuietIndInv DEF Panic, IndInv, TypeOK
  <2>4. CASE /\ ~Cr0Fault(new) /\ ~Cr0Unimplemented(new)
             /\ cr0_shadow' = new
             /\ cr0' = RealCr0(new)
             /\ UNCHANGED <<cr4, cr4_shadow, cr3_low, xcr0, ia32e, activity, event, stopped>>
    <3>1. /\ "PG" \in new /\ "PE" \in new /\ "high" \notin new
          /\ "CET" \in cr4 => "WP" \in new
      BY <2>4, MaskFacts DEF Cr0Fault, read_effective_guest_cr4, IndInv, RegistersOK
    <3>2. TypeOK'
      BY <1>0, <2>4 DEF IndInv, TypeOK, RealCr0, Cr0Bits
    <3>3. RegistersOK'
      BY <1>0, <2>4, <3>1 DEF IndInv, RegistersOK, RealCr0, Cr0Bits
    <3>4. ShadowsAgree'
      BY <1>0, <2>4, <3>1 DEF IndInv, ShadowsAgree, RealCr0, Cr0Bits
    <3> QED
      BY <3>2, <3>3, <3>4 DEF IndInv
  <2> QED
    BY <2>1, <2>2, <2>3, <2>4 DEF handle_mov_to_cr0
<1>2. CASE v \cap Cr0Mask = cr0_shadow \cap Cr0Mask
  <2>1. ProcessorMovToCr0(v)
    BY <1>2 DEF MovToCr0
  <2>2. CASE Inject("GP")
    BY <2>2, QuietIndInv DEF Inject, IndInv, TypeOK
  <2>3. CASE /\ cr0' = (new \ Cr0Mask) \cup (cr0 \cap Cr0Mask)
             /\ UNCHANGED <<cr0_shadow, cr4, cr4_shadow, cr3_low, xcr0, ia32e, activity, event, stopped>>
    <3>1. TypeOK'
      BY <1>0, <2>3 DEF IndInv, TypeOK
    <3>2. RegistersOK'
      BY <1>0, <2>3, MaskFacts DEF IndInv, TypeOK, RegistersOK
    <3>3. ShadowsAgree'
      BY <1>0, <2>3, MaskFacts DEF IndInv, ShadowsAgree
    <3> QED
      BY <3>1, <3>2, <3>3 DEF IndInv
  <2> QED
    BY <2>1, <2>2, <2>3 DEF ProcessorMovToCr0
<1> QED
  BY <1>1, <1>2

\* LMSW keeps the invariant.
LEMMA LmswIndInv ==
  ASSUME IndInv, NEW v \in SUBSET {"PE", "TS"}, Lmsw(v)
  PROVE  IndInv'
<1>1. CASE Panic
  BY <1>1, QuietIndInv DEF Panic, IndInv, TypeOK
<1>2. CASE /\ cr0' = (cr0 \ {"TS"}) \cup (v \cap {"TS"})
           /\ UNCHANGED <<cr0_shadow, cr4, cr4_shadow, cr3_low, xcr0, ia32e, activity, event, stopped>>
  BY <1>2 DEF IndInv, TypeOK, RegistersOK, ShadowsAgree, Cr0Bits
<1> QED
  BY <1>1, <1>2 DEF Lmsw

\* A write to CR4 keeps the invariant, exit or not.
LEMMA MovToCr4IndInv ==
  ASSUME IndInv, NEW v \in Cr4Operands, MovToCr4(v)
  PROVE  IndInv'
<1>0. v \subseteq Cr4Bits
  OBVIOUS
<1>1. CASE v \cap Cr4Mask # cr4_shadow \cap Cr4Mask
  <2>1. handle_mov_to_cr4(v)
    BY <1>1 DEF MovToCr4
  <2>2. CASE Inject("GP")
    BY <2>2, QuietIndInv DEF Inject, IndInv, TypeOK
  <2>3. CASE /\ ~Cr4Fault(v)
             /\ cr4_shadow' = v
             /\ cr4' = RealCr4(v)
             /\ UNCHANGED <<cr0, cr0_shadow, cr3_low, xcr0, ia32e, activity, event, stopped>>
    <3>1. "PAE" \in v /\ ("CET" \in v => "WP" \in cr0)
      BY <2>3, MaskFacts DEF Cr4Fault, read_effective_guest_cr0, IndInv, ShadowsAgree
    <3>2. TypeOK'
      BY <1>0, <2>3 DEF IndInv, TypeOK, RealCr4
    <3>3. RegistersOK'
      BY <2>3, <3>1 DEF IndInv, RegistersOK, RealCr4
    <3>4. ShadowsAgree'
      BY <2>3 DEF IndInv, ShadowsAgree
    <3> QED
      BY <3>2, <3>3, <3>4 DEF IndInv
  <2> QED
    BY <2>1, <2>2, <2>3 DEF handle_mov_to_cr4
<1>2. CASE v \cap Cr4Mask = cr4_shadow \cap Cr4Mask
  <2>1. ProcessorMovToCr4(v)
    BY <1>2 DEF MovToCr4
  <2>2. CASE Inject("GP")
    BY <2>2, QuietIndInv DEF Inject, IndInv, TypeOK
  <2>3. CASE /\ ~ProcessorCr4Fault(v)
             /\ cr4' = (v \ Cr4Mask) \cup (cr4 \cap Cr4Mask)
             /\ UNCHANGED <<cr0, cr0_shadow, cr4_shadow, cr3_low, xcr0, ia32e, activity, event, stopped>>
    <3>1. (ia32e => "PAE" \in v) /\ ("CET" \in v => "WP" \in cr0)
      BY <2>3 DEF ProcessorCr4Fault
    <3>2. TypeOK'
      BY <1>0, <2>3 DEF IndInv, TypeOK
    <3>3. RegistersOK'
      BY <1>0, <2>3, <3>1, MaskFacts DEF IndInv, TypeOK, RegistersOK
    <3>4. ShadowsAgree'
      BY <2>3 DEF IndInv, ShadowsAgree
    <3> QED
      BY <3>2, <3>3, <3>4 DEF IndInv
  <2> QED
    BY <2>1, <2>2, <2>3 DEF ProcessorMovToCr4
<1> QED
  BY <1>1, <1>2

\* An INIT signal keeps the invariant although PE and PG become 0.
LEMMA InitSignalIndInv ==
  ASSUME IndInv, InitSignal
  PROVE  IndInv'
<1>1. /\ cr0' = (CR0_FIXED0 \ {"PE", "PG"}) \cup {"ET"} /\ cr0_shadow' = {}
      /\ cr4' = CR4_FIXED0 /\ cr4_shadow' = {}
      /\ ia32e' = FALSE
  BY DEF InitSignal, handle_init_signal, adjust_guest_cr0, adjust_cr4
<1>2. TypeOK'
  BY <1>1 DEF InitSignal, handle_init_signal, IndInv, TypeOK
<1>3. RegistersOK'
  BY <1>1 DEF RegistersOK
<1>4. ShadowsAgree'
  BY <1>1 DEF ShadowsAgree
<1> QED
  BY <1>2, <1>3, <1>4 DEF IndInv

\* Every step keeps the invariant.
LEMMA NextIndInv ==
  ASSUME IndInv, [Next]_vars
  PROVE  IndInv'
<1>1. CASE \E v \in Cr0Operands : MovToCr0(v)
  BY <1>1, MovToCr0IndInv
<1>2. CASE \E v \in SUBSET {"PE", "TS"} : Lmsw(v)
  BY <1>2, LmswIndInv
<1>3. CASE \E v \in Cr4Operands : MovToCr4(v)
  BY <1>3, MovToCr4IndInv
<1>4. CASE MovToCr3
  BY <1>4 DEF MovToCr3, IndInv, TypeOK, RegistersOK, ShadowsAgree
<1>5. CASE \E xcr \in {0, 1}, v \in Xcr0Operands : Xsetbv(xcr, v)
  <2>1. PICK xcr \in {0, 1}, v \in Xcr0Operands : handle_xsetbv(xcr, v)
    BY <1>5 DEF Xsetbv
  <2>2. CASE Inject("GP")
    BY <2>2, QuietIndInv DEF Inject, IndInv, TypeOK
  <2>3. CASE /\ xcr0' = v
             /\ UNCHANGED <<cr0, cr0_shadow, cr4, cr4_shadow, cr3_low, ia32e, activity, event, stopped>>
    BY <2>3 DEF IndInv, TypeOK, RegistersOK, ShadowsAgree
  <2>4. CASE Panic
    BY <2>4, QuietIndInv DEF Panic, IndInv, TypeOK
  <2> QED
    BY <2>1, <2>2, <2>3, <2>4 DEF handle_xsetbv
<1>6. CASE VmxInstruction
  BY <1>6, QuietIndInv
  DEF VmxInstruction, handle_vmxon, handle_undefined_opcode_exception, Inject, IndInv, TypeOK
<1>7. CASE DeliverEvent
  BY <1>7, QuietIndInv DEF DeliverEvent, IndInv, TypeOK
<1>8. CASE InitSignal
  BY <1>8, InitSignalIndInv
<1>9. CASE StartupIpi
  BY <1>9 DEF StartupIpi, handle_sipi_signal, IndInv, TypeOK, RegistersOK, ShadowsAgree
<1>10. CASE UNCHANGED vars
  BY <1>10 DEF vars, IndInv, TypeOK, RegistersOK, ShadowsAgree
<1>11. CASE VmEntryFails
  BY <1>11, QuietIndInv DEF VmEntryFails, Panic, IndInv, TypeOK
<1> QED
  BY <1>1, <1>2, <1>3, <1>4, <1>5, <1>6, <1>7, <1>8, <1>9, <1>10, <1>11 DEF Next

\* In every reachable state the registers are well typed, pass the checks of
\* VM entry other than PCIDE's, and agree with the shadows the handlers decide
\* from.
THEOREM RegistersInvariant == Spec => []IndInv
<1>1. Init => IndInv
  BY InitIndInv
<1>2. IndInv /\ [Next]_vars => IndInv'
  BY NextIndInv
<1> QED
  BY <1>1, <1>2, PTL DEF Spec

\* No step other than a MOV to CR4 puts PCIDE into CR4, or leaves 64-bit mode
\* with PCIDE set.
LEMMA PcideSteps ==
  ASSUME Next, ~(\E v \in Cr4Operands : MovToCr4(v))
  PROVE  "PCIDE" \in cr4' /\ ~ia32e' => "PCIDE" \in cr4 /\ ~ia32e
<1>1. CASE InitSignal
  BY <1>1 DEF InitSignal, handle_init_signal, adjust_cr4
<1> QED
  BY <1>1 DEF Next, MovToCr0, handle_mov_to_cr0, ProcessorMovToCr0, Lmsw, MovToCr3,
     Xsetbv, handle_xsetbv, VmxInstruction, handle_vmxon, handle_undefined_opcode_exception,
     VmEntryFails, DeliverEvent, StartupIpi, handle_sipi_signal, Inject, Panic, RegsUnchanged

\* A MOV to CR4 that makes the checks fail is one that exits and asks for
\* PCIDE outside 64-bit mode.
LEMMA PcideMov ==
  ASSUME IndInv, NEW v \in Cr4Operands, MovToCr4(v), EntryChecks,
         "PCIDE" \in cr4', ~ia32e'
  PROVE  PcideOutside64(v)
<1>1. ~ia32e /\ "PCIDE" \notin cr4
  BY DEF EntryChecks, MovToCr4, handle_mov_to_cr4, ProcessorMovToCr4, Inject, RegsUnchanged
<1>2. CASE v \cap Cr4Mask # cr4_shadow \cap Cr4Mask
  <2>1. "PCIDE" \in v
    BY <1>1, <1>2 DEF MovToCr4, handle_mov_to_cr4, Inject, RegsUnchanged, RealCr4
  <2> QED
    BY <1>1, <1>2, <2>1 DEF PcideOutside64
<1>3. CASE v \cap Cr4Mask = cr4_shadow \cap Cr4Mask
  <2>1. ProcessorMovToCr4(v) /\ ~Inject("GP")
    BY <1>1, <1>3 DEF MovToCr4, Inject, RegsUnchanged
  <2>2. "PCIDE" \in v /\ "PCIDE" \notin Cr4Mask /\ ~ProcessorCr4Fault(v)
    BY <1>1, <2>1 DEF ProcessorMovToCr4
  <2>3. "PCIDE" \notin read_effective_guest_cr4
    BY <1>1, <2>2 DEF read_effective_guest_cr4
  <2> QED
    BY <1>1, <2>2, <2>3 DEF ProcessorCr4Fault
<1> QED
  BY <1>2, <1>3

\* Whatever the guest writes and whenever INIT arrives, the next VM entry
\* passes the processor's checks on CR0, CR4 and the 64-bit mode control,
\* unless the last write was one of PCIDE that exited outside 64-bit mode.
THEOREM EntryFailsOnlyAfterPcide == Spec => EntryFailsOnlyForPcide
<1>1. Init => IndInv
  BY InitIndInv
<1>2. IndInv /\ [Next]_vars => IndInv'
  BY NextIndInv
<1>3. IndInv /\ [Next]_vars =>
        [EntryChecks /\ ~EntryChecks' => \E v \in Cr4Operands : PcideOutside64(v)]_vars
  <2> SUFFICES ASSUME IndInv, Next, EntryChecks, ~EntryChecks'
               PROVE  \E v \in Cr4Operands : PcideOutside64(v)
    OBVIOUS
  <2>1. RegistersOK'
    BY <1>2 DEF IndInv
  <2>2. "PCIDE" \in cr4' /\ ~ia32e'
    BY <2>1 DEF EntryChecks, RegistersOK
  <2>3. PICK v \in Cr4Operands : MovToCr4(v)
    BY <2>2, PcideSteps DEF EntryChecks
  <2> QED
    BY <2>2, <2>3, PcideMov
<1> QED
  BY <1>1, <1>2, <1>3, PTL DEF Spec, EntryFailsOnlyForPcide

\* A supported value that is_valid_xcr0 accepts and that has both or none of
\* the tile features the processor accepts.
LEMMA ValidIsAccepted ==
  ASSUME NEW v \in SUBSET XFeatures, is_valid_xcr0(v),
         "TILECFG" \in v <=> "TILEDATA" \in v
  PROVE  ~XsetbvFaults(v)
<1>1. "X87" \in v
  BY DEF is_valid_xcr0
<1>2. ASSUME NEW f \in v PROVE Needs[f] \subseteq v
  <2>1. f \in Xcr0Bits
    OBVIOUS
  <2>2. CASE f \in {"X87", "SSE"}
    BY <2>1, <2>2, <1>1 DEF Needs
  <2>3. CASE f = "AVX"
    BY <2>1, <2>3, <1>1 DEF Needs, is_valid_xcr0
  <2>4. CASE f \in {"BNDREG", "BNDCSR"}
    BY <2>1, <2>4, <1>1 DEF Needs, is_valid_xcr0
  <2>5. CASE f \in {"OPMASK", "ZMM_HI256", "HI16_ZMM"}
    BY <2>1, <2>5, <1>1 DEF Needs, is_valid_xcr0
  <2>6. CASE f \in {"TILECFG", "TILEDATA"}
    BY <2>1, <2>6, <1>1 DEF Needs
  <2> QED
    BY <2>1, <2>2, <2>3, <2>4, <2>5, <2>6 DEF Xcr0Bits
<1> QED
  BY <1>1, <1>2 DEF XsetbvFaults

\* Whatever features the processor reports, the host's XSETBV faults on no
\* value but those with one tile feature and not the other.
THEOREM HostXsetbvSafe == Spec => OnlyTilesFault
<1>1. ASSUME NEW v \in Xcr0Operands, Xsetbv(0, v), stopped'
      PROVE  ("TILECFG" \in v) # ("TILEDATA" \in v)
  <2>1. ~stopped
    BY <1>1 DEF Xsetbv, Executing, Entered
  <2>2. v \subseteq XFeatures /\ is_valid_xcr0(v) /\ XsetbvFaults(v)
    BY <1>1, <2>1 DEF Xsetbv, handle_xsetbv, Inject
  <2> QED
    BY <2>2, ValidIsAccepted
<1>2. [Next]_vars =>
        [\A v \in Xcr0Operands : Xsetbv(0, v) /\ stopped' =>
           ("TILECFG" \in v) # ("TILEDATA" \in v)]_vars
  BY <1>1
<1> QED
  BY <1>2, PTL DEF OnlyTilesFault, Spec

\* An accepted write to CR0 is what the guest reads afterwards.
LEMMA Cr0ReadBack ==
  ASSUME IndInv, NEW v \in Cr0Operands, MovToCr0(v), event = "none", event' = "none", ~stopped'
  PROVE  read_effective_guest_cr0' = NormalCr0(v)
<1> DEFINE new == NormalCr0(v)
<1>0. new \subseteq Cr0Bits /\ new \cap Cr0Mask = v \cap Cr0Mask
  BY MaskFacts DEF NormalCr0, Cr0Bits
<1>1. Cr0Mask' = Cr0Mask
  BY DEF Cr0Mask
<1>2. CASE cr0_shadow' = new /\ cr0' = RealCr0(new)
  BY <1>0, <1>1, <1>2, MaskFacts DEF read_effective_guest_cr0, RealCr0
<1>3. CASE /\ v \cap Cr0Mask = cr0_shadow \cap Cr0Mask
           /\ cr0' = (new \ Cr0Mask) \cup (cr0 \cap Cr0Mask)
           /\ cr0_shadow' = cr0_shadow
  BY <1>0, <1>1, <1>3 DEF read_effective_guest_cr0
<1> QED
  BY <1>2, <1>3 DEF MovToCr0, handle_mov_to_cr0, ProcessorMovToCr0, Inject, Panic

\* An accepted write to CR4 is what the guest reads afterwards.
LEMMA Cr4ReadBack ==
  ASSUME IndInv, NEW v \in Cr4Operands, MovToCr4(v), event = "none", event' = "none"
  PROVE  read_effective_guest_cr4' = v
<1>0. v \subseteq Cr4Bits
  OBVIOUS
<1>1. Cr4Mask' = Cr4Mask
  BY DEF Cr4Mask
<1>2. CASE cr4_shadow' = v /\ cr4' = RealCr4(v)
  BY <1>0, <1>1, <1>2, MaskFacts DEF read_effective_guest_cr4, RealCr4
<1>3. CASE /\ v \cap Cr4Mask = cr4_shadow \cap Cr4Mask
           /\ cr4' = (v \ Cr4Mask) \cup (cr4 \cap Cr4Mask)
           /\ cr4_shadow' = cr4_shadow
  BY <1>0, <1>1, <1>3 DEF read_effective_guest_cr4
<1> QED
  BY <1>2, <1>3 DEF MovToCr4, handle_mov_to_cr4, ProcessorMovToCr4, Inject

\* The guest cannot tell the registers it is shown from real ones: what it
\* writes and is not refused, it reads back, whichever bits VMX has fixed.
THEOREM WritesReadBack == Spec => ReadBack
<1>1. Init => IndInv
  BY InitIndInv
<1>2. IndInv /\ [Next]_vars => IndInv'
  BY NextIndInv
<1>3. IndInv /\ [Next]_vars =>
        [event = "none" /\ event' = "none" /\ ~stopped' =>
           /\ \A v \in Cr0Operands : MovToCr0(v) => read_effective_guest_cr0' = NormalCr0(v)
           /\ \A v \in Cr4Operands : MovToCr4(v) => read_effective_guest_cr4' = v]_vars
  BY Cr0ReadBack, Cr4ReadBack
<1> QED
  BY <1>1, <1>2, <1>3, PTL DEF Spec, ReadBack
=============================================================================
