SPECIFICATION Spec
CONSTANTS
  CR0_FIXED0 <- MCCr0Fixed0
  CR0_FIXED1 <- MCCr0Fixed1
  CR4_FIXED0 <- MCCr4Fixed0
  CR4_FIXED1 <- MCCr4Fixed1
  has_smx = TRUE
  XFeatures <- MCXFeatures
  FirmwareCr0 <- MCFirmwareCr0
  FirmwareCr4 <- MCFirmwareCr4
  Cr0Operands <- MCCr0Operands
  Cr4Operands <- MCCr4Operands
  Xcr0Operands <- MCXcr0Operands
INVARIANT IndInv
PROPERTIES
  EntryFailsOnlyForPcide
  OnlyTilesFault
  ReadBack
CHECK_DEADLOCK FALSE
