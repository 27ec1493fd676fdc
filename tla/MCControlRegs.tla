--------------------------- MODULE MCControlRegs ---------------------------
(* A processor with SMX, and AMX, without LA57 and MPX. *)
EXTENDS ControlRegs, FiniteSets

MCCr0Fixed0 == {"PE", "NE", "PG"}
MCCr0Fixed1 == Cr0Bits \ {"high"}
MCCr4Fixed0 == {"VMXE"}
MCCr4Fixed1 == Cr4Bits \ {"reserved", "LA57"}
MCXFeatures == Xcr0Bits \ {"BNDREG", "BNDCSR"}
MCFirmwareCr0 == {"PE", "NE", "PG", "ET", "WP"}
MCFirmwareCr4 == {"PAE", "PGE", "VMXE"}

\* Operands at most so many bits away from a register the guest may hold, and
\* the combinations that a processor fresh out of INIT writes.
Near(values, from, flips) == {v \in values : Cardinality((v \ from) \cup (from \ v)) <= flips}
MCCr0Operands == Near(SUBSET Cr0Bits, MCFirmwareCr0, 1) \cup SUBSET {"PE", "PG", "CD"}
MCCr4Operands == Near(SUBSET Cr4Bits, MCFirmwareCr4 \ {"VMXE"}, 1) \cup {{}, {"PAE", "PCIDE", "VMXE"}}
MCXcr0Operands ==
  Near(SUBSET MCXFeatures, MCXFeatures, 1) \cup {{"X87"}, {"X87", "BNDREG"}, {"X87", "BNDREG", "BNDCSR"}}
=============================================================================
