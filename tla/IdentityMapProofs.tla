------------------------- MODULE IdentityMapProofs -------------------------
(***************************************************************************)
(* Proofs about the identity maps, for every page size, table size and set *)
(* of MTRRs.                                                               *)
(***************************************************************************)
EXTENDS IdentityMap, WellFoundedInduction, TLAPS

\* Sizes are positive.
LEMMA Sizes == LargePage \in Nat \ {0} /\ Entries * Entries \in Nat \ {0}
BY SizesAssumption DEF LargePage

\* Positions of consecutive pages.
LEMMA Positions ==
  ASSUME NEW n \in Nat
  PROVE  /\ n * LargePage \in Nat /\ (n + 1) * LargePage = n * LargePage + LargePage
         /\ n * BasePage \in Nat /\ (n + 1) * BasePage = n * BasePage + BasePage
         /\ n > 0 => n * LargePage > 0 /\ n * BasePage > 0
BY Sizes, SizesAssumption

LEMMA PageTableIsLarge == Entries * BasePage = LargePage
BY DEF LargePage

\* A page frame number is a natural number.
LEMMA DivNat == ASSUME NEW x \in Nat PROVE x \div BasePage \in Nat
BY SizesAssumption

LEMMA EntryType ==
  ASSUME NEW l \in BOOLEAN, NEW x \in Nat, NEW t \in MemoryType
  PROVE  Entry(l, x, t) \in EntrySet
BY DivNat DEF Entry, EntrySet

\* A set of indices has a last one.
LEMMA LastIndex ==
  ASSUME NEW n \in Nat, NEW M, M \subseteq 1..n, M # {}
  PROVE  \E i \in M : \A j \in M : j <= i
<1> DEFINE T == {k \in 0..n : n - k \in M}
<1>1. T \subseteq Nat /\ T # {}
  <2>1. PICK i \in M : TRUE
    OBVIOUS
  <2>2. i \in 1..n /\ n - i \in 0..n /\ n - (n - i) = i
    BY <2>1
  <2>3. n - i \in T
    BY <2>2
  <2>4. T # {}
    BY <2>3
  <2>5. T \subseteq Nat
    OBVIOUS
  <2> QED BY <2>4, <2>5
<1>2. PICK x \in T : \A y \in T : ~(<<y, x>> \in OpToRel(<, Nat))
  BY <1>1, NatLessThanWellFounded, WFMin
<1>3. PICK i \in M : x = n - i
  <2>1. x \in 0..n /\ n - x \in M
    BY <1>2
  <2>2. x = n - (n - x)
    BY <2>1
  <2> QED BY <2>1, <2>2
<1>4. \A y \in T : ~(y < x)
  BY <1>1, <1>2 DEF OpToRel
<1>5. ASSUME NEW j \in M PROVE j <= i
  <2>1. j \in 1..n /\ i \in 1..n /\ n - j \in 0..n /\ n - (n - j) = j
    BY <1>3
  <2>2. n - j \in T
    BY <2>1
  <2>3. ~(n - j < n - i)
    BY <2>2, <1>3, <1>4
  <2> QED BY <2>1, <2>3
<1> QED BY <1>5

\* The descriptor find settles on is one that matches.
LEMMA LastMatch ==
  ASSUME TypeOK, NEW s, NEW e, Matching(s, e) # {}
  PROVE  (CHOOSE i \in Matching(s, e) : \A j \in Matching(s, e) : j <= i) \in Matching(s, e)
<1>1. Len(descriptors) \in Nat /\ Matching(s, e) \subseteq 1..Len(descriptors)
  BY DEF TypeOK, Matching
<1> QED BY <1>1, LastIndex

\* Which types find can return, and where they come from.
LEMMA FindFrom ==
  ASSUME TypeOK, NEW s, NEW e
  PROVE  /\ \/ Find(s, e) = "WB" /\ Matching(s, e) = {}
            \/ \E i \in Matching(s, e) : Find(s, e) = descriptors[i].memory_type
         /\ (\E i \in Matching(s, e) : descriptors[i].memory_type = "UC") => Find(s, e) = "UC"
<1> DEFINE M == Matching(s, e)
<1>1. CASE \E i \in M : descriptors[i].memory_type = "UC"
  BY <1>1 DEF Find
<1>2. CASE M = {}
  BY <1>2 DEF Find
<1>3. CASE M # {} /\ ~\E i \in M : descriptors[i].memory_type = "UC"
  <2>1. Find(s, e) = descriptors[CHOOSE i \in M : \A j \in M : j <= i].memory_type
    BY <1>3 DEF Find
  <2> QED BY <1>3, <2>1, LastMatch
<1> QED BY <1>1, <1>2, <1>3

LEMMA FindType == ASSUME TypeOK, NEW s, NEW e PROVE Find(s, e) \in MemoryType
<1>1. \A i \in 1..Len(descriptors) :
        descriptors[i] \in [base_address : Nat, end_address : Nat, memory_type : MemoryType \ {"WB"}]
  <2> DEFINE D == [base_address : Nat, end_address : Nat, memory_type : MemoryType \ {"WB"}]
  <2>1. descriptors \in Seq(D)
    BY DEF TypeOK
  <2> HIDE DEF D
  <2>2. \A i \in 1..Len(descriptors) : descriptors[i] \in D
    BY <2>1
  <2> QED BY <2>2 DEF D
<1>2. \A i \in Matching(s, e) : descriptors[i].memory_type \in MemoryType
  BY <1>1 DEF Matching
<1> QED BY <1>2, FindFrom DEF MemoryType

LEMMA NoneBelowZero == (\A k \in Ptes : ~(k < 0)) /\ (\A n \in Pdes : ~(n < 0))
BY Sizes, SizesAssumption DEF Ptes, Pdes

\* A register holds a described range.
LEMMA RegisterType ==
  ASSUME TypeOK, NEW i \in 1..MtrrCount
  PROVE  /\ mtrrs[i] \in [is_enabled : BOOLEAN, base : Nat, size : Nat \ {0}, mem_type : MemoryType]
         /\ Described(mtrrs[i]) =>
              DescriptorOf(mtrrs[i]) \in
                [base_address : Nat, end_address : Nat, memory_type : MemoryType \ {"WB"}]
<1>1. mtrrs[i] \in [is_enabled : BOOLEAN, base : Nat, size : Nat \ {0}, mem_type : MemoryType]
  BY MtrrAssumption DEF TypeOK
<1> QED BY <1>1 DEF Described, DescriptorOf, CalculateEndAddress

\* Steps that leave the descriptors alone leave the result of find alone.
LEMMA FindUnchanged ==
  ASSUME descriptors' = descriptors, NEW s, NEW e
  PROVE  Find(s, e)' = Find(s, e)
BY DEF Find, Matching

LEMMA InitInv == Init => IndInv
<1> SUFFICES ASSUME Init PROVE IndInv
  OBVIOUS
<1> USE Sizes, SizesAssumption
<1>1. NoEntry \in EntrySet
  BY DEF NoEntry, EntrySet, MemoryType
<1>2. TypeOK
  BY <1>1 DEF Init, TypeOK
<1>3. LoopsAt
  BY Positions DEF Init, LoopsAt
<1>3a. HostBuilt
  BY DEF Init, HostBuilt, Pdes
<1>4. DescriptorsAreRegisters
  BY DEF Init, DescriptorsAreRegisters
<1>5. PtBuilt /\ PdBuilt
  BY DEF Init, PtBuilt, PdBuilt, Ptes, Pdes
<1> QED BY <1>2, <1>3, <1>3a, <1>4, <1>5 DEF IndInv

LEMMA HostPdeInv == IndInv /\ HostPde => IndInv'
<1> SUFFICES ASSUME IndInv, HostPde PROVE IndInv'
  OBVIOUS
<1> USE DEF IndInv
<1>1. index \in Nat /\ index < Entries * Entries /\ pa = index * LargePage /\ pc = "host"
  BY Sizes DEF HostPde, LoopsAt, Pdes
<1>2. /\ pa' = (index + 1) * LargePage /\ pa' \in Nat /\ index' = index + 1
      /\ index' \in 0..(Entries * Entries)
  BY <1>1, Positions, Sizes DEF HostPde
<1>3. Entry(TRUE, pa, "WB") \in EntrySet
  BY <1>1, EntryType, Positions DEF MemoryType
<1>4. TypeOK'
  <2>1. host' \in [Pdes -> EntrySet]
    BY <1>3 DEF HostPde, TypeOK
  <2>2. /\ index' \in Nat /\ pa' \in Nat
        /\ UNCHANGED <<mtrrs, unread, pc, pte, descriptors, pd, pt>>
    BY <1>1, <1>2 DEF HostPde
  <2> QED BY <2>1, <2>2 DEF TypeOK
<1>5. LoopsAt'
  BY <1>1, <1>2 DEF HostPde, LoopsAt
<1>6. ASSUME NEW n \in Pdes, n < index' PROVE host'[n] = Entry(TRUE, n * LargePage, "WB")
  <2>1. n \in Nat /\ (n < index \/ n = index)
    BY <1>1, <1>2, <1>6, Sizes DEF Pdes
  <2>2. CASE n = index
    BY <2>2, <1>1 DEF HostPde, TypeOK
  <2>3. CASE n < index
    BY <2>3, <1>1 DEF HostPde, HostBuilt, TypeOK
  <2> QED BY <2>1, <2>2, <2>3
<1>6a. HostBuilt'
  BY <1>1, <1>6 DEF HostPde, HostBuilt, Entry
<1>7. DescriptorsAreRegisters'
  BY <1>1 DEF HostPde, DescriptorsAreRegisters
<1>8. PtBuilt' /\ PdBuilt'
  BY <1>1, FindUnchanged DEF HostPde, PtBuilt, PdBuilt
<1> QED BY <1>4, <1>5, <1>6a, <1>7, <1>8

LEMMA HostDoneInv == IndInv /\ HostDone => IndInv'
<1> SUFFICES ASSUME IndInv, HostDone PROVE IndInv'
  OBVIOUS
<1> USE DEF IndInv
<1>1. index = Entries * Entries /\ pc = "host" /\ pc' = "mtrr" /\ index' = 1
  BY Sizes DEF HostDone, LoopsAt, Pdes
<1>2. TypeOK' /\ LoopsAt'
  BY <1>1, SizesAssumption DEF HostDone, TypeOK, LoopsAt
<1>3. HostBuilt'
  <2>1. \A n \in Pdes : n < index
    BY <1>1, Sizes DEF Pdes
  <2> QED BY <1>1, <2>1 DEF HostDone, HostBuilt
<1>4. DescriptorsAreRegisters'
  BY <1>1 DEF HostDone, DescriptorsAreRegisters
<1>5. PtBuilt' /\ PdBuilt'
  BY <1>1, FindUnchanged DEF HostDone, PtBuilt, PdBuilt, LoopsAt
<1> QED BY <1>2, <1>3, <1>4, <1>5

LEMMA MtrrNewInv == IndInv /\ MtrrNew => IndInv'
<1> SUFFICES ASSUME IndInv, MtrrNew PROVE IndInv'
  OBVIOUS
<1> USE DEF IndInv
<1> DEFINE Descriptor == [base_address : Nat, end_address : Nat, memory_type : MemoryType \ {"WB"}]
           reg == mtrrs[index]
<1>1. index \in 1..MtrrCount /\ index' = index + 1 /\ pc = "mtrr" /\ pc' = "mtrr" /\ pte = 0
  BY SizesAssumption DEF MtrrNew, LoopsAt
<1>2. UNCHANGED <<mtrrs, unread, pte, pa, host, pd, pt>>
  BY DEF MtrrNew
<1>3. descriptors \in Seq(Descriptor) /\ Len(descriptors) \in Nat
  BY DEF TypeOK
<1>4. CASE ~Described(reg)
  <2>1. descriptors' = descriptors
    BY <1>4 DEF MtrrNew
  <2>2. TypeOK' /\ LoopsAt'
    BY <1>1, <1>2, <2>1, SizesAssumption DEF TypeOK, LoopsAt
  <2>3. DescriptorsAreRegisters'
    <3>1. \A i \in 1..MtrrCount : i < index' => i < index \/ i = index
      BY <1>1, SizesAssumption
    <3> QED BY <1>1, <1>2, <1>4, <2>1, <3>1 DEF DescriptorsAreRegisters, Described, DescriptorOf, CalculateEndAddress
  <2>4. HostBuilt' /\ PtBuilt' /\ PdBuilt'
    BY <1>1, <1>2, <2>1, FindUnchanged DEF HostBuilt, PtBuilt, PdBuilt
  <2> QED BY <2>2, <2>3, <2>4
<1>5. CASE Described(reg)
  <2>1. descriptors' = Append(descriptors, DescriptorOf(reg))
    BY <1>5 DEF MtrrNew
  <2>2. DescriptorOf(reg) \in Descriptor
    BY <1>1, <1>5, RegisterType
  <2> HIDE DEF Descriptor
  <2>3. /\ descriptors' \in Seq(Descriptor) /\ Len(descriptors') = Len(descriptors) + 1
        /\ \A d \in 1..Len(descriptors) : descriptors'[d] = descriptors[d]
        /\ descriptors'[Len(descriptors) + 1] = DescriptorOf(reg)
    BY <1>3, <2>1, <2>2
  <2>4. TypeOK' /\ LoopsAt'
    BY <1>1, <1>2, <2>3, SizesAssumption DEF TypeOK, LoopsAt, Descriptor
  <2>5. ASSUME NEW d \in 1..Len(descriptors')
        PROVE  \E i \in 1..MtrrCount : Described(mtrrs[i]) /\ descriptors'[d] = DescriptorOf(mtrrs[i])
    <3>1. CASE d = Len(descriptors) + 1
      BY <1>1, <1>5, <2>3, <3>1
    <3>2. CASE d \in 1..Len(descriptors)
      BY <2>3, <3>2 DEF DescriptorsAreRegisters
    <3> QED BY <1>3, <2>3, <3>1, <3>2
  <2>6. ASSUME NEW i \in 1..MtrrCount, Described(mtrrs[i]), i < index'
        PROVE  \E d \in 1..Len(descriptors') : descriptors'[d] = DescriptorOf(mtrrs[i])
    <3>1. CASE i = index
      BY <1>3, <2>3, <3>1
    <3>2. CASE i < index
      <4>1. PICK d \in 1..Len(descriptors) : descriptors[d] = DescriptorOf(mtrrs[i])
        BY <1>1, <2>6, <3>2 DEF DescriptorsAreRegisters
      <4>2. d \in 1..Len(descriptors') /\ descriptors'[d] = DescriptorOf(mtrrs[i])
        BY <1>3, <2>3, <4>1
      <4> QED BY <4>2
    <3> QED BY <1>1, <2>6, <3>1, <3>2, SizesAssumption
  <2>7. DescriptorsAreRegisters'
    BY <1>1, <1>2, <2>5, <2>6 DEF DescriptorsAreRegisters, Described, DescriptorOf, CalculateEndAddress
  <2>8. HostBuilt'
    BY <1>1, <1>2 DEF HostBuilt
  <2>9. PtBuilt' /\ PdBuilt'
    BY <1>1, <1>2, NoneBelowZero DEF PtBuilt, PdBuilt
  <2> QED BY <2>4, <2>7, <2>8, <2>9
<1> QED BY <1>4, <1>5

LEMMA MtrrDoneInv == IndInv /\ MtrrDone => IndInv'
<1> SUFFICES ASSUME IndInv, MtrrDone PROVE IndInv'
  OBVIOUS
<1> USE DEF IndInv
<1>1. index = MtrrCount + 1 /\ pc = "mtrr" /\ pc' = "ept" /\ index' = 0 /\ pa' = 0 /\ pte = 0
  BY SizesAssumption DEF MtrrDone, LoopsAt
<1>2. UNCHANGED <<mtrrs, unread, pte, descriptors, host, pd, pt>>
  BY DEF MtrrDone
<1>3. TypeOK'
  BY <1>1, <1>2 DEF TypeOK
<1>4. LoopsAt'
  BY <1>1, <1>2, SizesAssumption DEF LoopsAt, Ptes
<1>5. HostBuilt'
  BY <1>1, <1>2 DEF HostBuilt
<1>6. DescriptorsAreRegisters'
  <2>1. \A i \in 1..MtrrCount : i < index
    BY <1>1, SizesAssumption
  <2> QED BY <1>1, <1>2, <2>1 DEF DescriptorsAreRegisters, Described, DescriptorOf, CalculateEndAddress
<1>7. PtBuilt'
  BY <1>1, <1>2, NoneBelowZero DEF PtBuilt
<1>8. PdBuilt'
  <2>1. \A n \in Pdes : ~(n < index')
    BY <1>1, Sizes DEF Pdes
  <2> QED BY <1>1, <1>2, <2>1 DEF PdBuilt
<1> QED BY <1>3, <1>4, <1>5, <1>6, <1>7, <1>8

\* What the two kinds of EPT step find when they start.
LEMMA WhereEptIs ==
  ASSUME IndInv, pc = "ept", index \in Pdes
  PROVE  IF InPageTable THEN index = 0 /\ pte \in Ptes /\ pa = pte * BasePage
         ELSE index \in 1..(Entries * Entries - 1) /\ pte = Entries /\ pa = index * LargePage
<1>1. CASE index = 0 /\ pte \in Ptes /\ pa = pte * BasePage
  <2>1. CASE pte = 0
    BY <1>1, <2>1, SizesAssumption DEF InPageTable
  <2>2. CASE pte # 0
    BY <1>1, <2>2 DEF InPageTable
  <2> QED BY <2>1, <2>2, <1>1
<1>2. CASE index \in 1..(Entries * Entries) /\ pte = Entries /\ pa = index * LargePage
  <2>1. index \in Nat /\ index > 0 /\ pte \notin Ptes
    BY <1>2, Sizes, SizesAssumption DEF Ptes
  <2>2. pa > 0 /\ pa \in Nat
    BY <1>2, <2>1, Positions
  <2>3. index \in 1..(Entries * Entries - 1)
    BY <1>2, Sizes DEF Pdes
  <2> QED BY <1>2, <2>1, <2>2, <2>3 DEF InPageTable
<1> QED BY <1>1, <1>2 DEF IndInv, LoopsAt

LEMMA EptPteInv == IndInv /\ EptPte => IndInv'
<1> SUFFICES ASSUME IndInv, EptPte PROVE IndInv'
  OBVIOUS
<1> USE DEF IndInv
<1>1. pc = "ept" /\ index = 0 /\ 0 \in Pdes /\ pte \in Ptes /\ pa = pte * BasePage
  BY WhereEptIs DEF EptPte
<1>2. UNCHANGED <<mtrrs, unread, pc, descriptors, host>>
  BY DEF EptPte
<1>3. pte \in Nat /\ pte < Entries /\ pte' = pte + 1 /\ pte' \in 0..Entries
  BY <1>1, SizesAssumption DEF EptPte, Ptes
<1>4. pa \in Nat /\ pa' = pa + BasePage /\ pa' = (pte + 1) * BasePage /\ pa' \in Nat
  BY <1>1, <1>3, Positions, SizesAssumption DEF EptPte
<1>5. index' = IF pte + 1 \in Ptes THEN 0 ELSE 1
  BY <1>1 DEF EptPte
<1>6. Entry(FALSE, pa, Find(pa, pa + BasePage)) \in EntrySet /\ Entry(FALSE, 0, "UC") \in EntrySet
  BY <1>4, FindType, EntryType DEF MemoryType
<1>7. pd' = [pd EXCEPT ![0] = Entry(FALSE, 0, "UC")]
  BY <1>1 DEF EptPte
<1>8. pt' = [pt EXCEPT ![pte] = Entry(FALSE, pa, Find(pa, pa + BasePage))]
  BY DEF EptPte
<1>9. TypeOK'
  <2>1. pd' \in [Pdes -> EntrySet]
    BY <1>1, <1>6, <1>7 DEF TypeOK
  <2>2. pt' \in [Ptes -> EntrySet]
    BY <1>1, <1>6, <1>8 DEF TypeOK
  <2>3. index' \in Nat
    BY <1>5
  <2> QED BY <1>2, <1>3, <1>4, <2>1, <2>2, <2>3 DEF TypeOK
<1>10. LoopsAt'
  <2>1. CASE pte + 1 \in Ptes
    BY <1>1, <1>2, <1>3, <1>4, <1>5, <2>1 DEF LoopsAt
  <2>2. CASE pte + 1 \notin Ptes
    <3>1. pte + 1 = Entries
      BY <1>3, <2>2, SizesAssumption DEF Ptes
    <3>2. pa' = 1 * LargePage
      BY <1>4, <3>1, PageTableIsLarge, Sizes
    <3> QED BY <1>1, <1>2, <1>3, <1>5, <2>2, <3>1, <3>2, Sizes DEF LoopsAt
  <2> QED BY <2>1, <2>2
<1>11. HostBuilt' /\ DescriptorsAreRegisters'
  BY <1>1, <1>2 DEF HostBuilt, DescriptorsAreRegisters, Described, DescriptorOf, CalculateEndAddress
<1>12. ASSUME NEW k \in Ptes
       PROVE  pt'[k] = IF k < pte'
                       THEN Entry(FALSE, k * BasePage, Find(k * BasePage, (k + 1) * BasePage)) ELSE NoEntry
  <2>1. k \in Nat
    BY SizesAssumption DEF Ptes
  <2>2. CASE k = pte
    <3>1. (k + 1) * BasePage = pa + BasePage /\ k * BasePage = pa
      BY <1>1, <1>4, <2>2
    <3>2. pt'[k] = Entry(FALSE, pa, Find(pa, pa + BasePage))
      BY <1>8, <2>2 DEF TypeOK
    <3>3. k < pte'
      BY <1>3, <2>2
    <3> QED BY <3>1, <3>2, <3>3
  <2>3. CASE k # pte
    <3>1. (k < pte') <=> (k < pte)
      BY <1>3, <2>1, <2>3
    <3>2. pt'[k] = pt[k]
      BY <1>8, <2>3 DEF TypeOK
    <3> QED BY <3>1, <3>2 DEF PtBuilt
  <2> QED BY <2>2, <2>3
<1>13. PtBuilt'
  BY <1>2, <1>12, FindUnchanged DEF PtBuilt
<1>14. PdBuilt'
  <2>1. \A n \in Pdes : n # 0 => ~(n < index) /\ ~(n < index')
    BY <1>1, <1>5, Sizes DEF Pdes
  <2>2. \A n \in Pdes : n # 0 => pd'[n] = NoEntry
    BY <1>7, <2>1 DEF PdBuilt, TypeOK
  <2>3. pd'[0] = Entry(FALSE, 0, "UC") /\ pte' # 0
    BY <1>1, <1>3, <1>7 DEF TypeOK
  <2> QED BY <2>1, <2>2, <2>3 DEF PdBuilt, Entry, NoEntry
<1> QED BY <1>9, <1>10, <1>11, <1>13, <1>14

LEMMA EptPdeInv == IndInv /\ EptPde => IndInv'
<1> SUFFICES ASSUME IndInv, EptPde PROVE IndInv'
  OBVIOUS
<1> USE DEF IndInv
<1>1. /\ pc = "ept" /\ index \in Pdes /\ index \in 1..(Entries * Entries - 1)
      /\ pte = Entries /\ pa = index * LargePage
  BY WhereEptIs DEF EptPde
<1>2. UNCHANGED <<mtrrs, unread, pc, pte, descriptors, host, pt>>
  BY DEF EptPde
<1>3. index \in Nat /\ index # 0 /\ index' = index + 1 /\ index' \in 1..(Entries * Entries)
  BY <1>1, Sizes DEF EptPde
<1>4. pa \in Nat /\ pa' = pa + LargePage /\ pa' = (index + 1) * LargePage /\ pa' \in Nat
  BY <1>1, <1>3, Positions, Sizes DEF EptPde
<1>5. Entry(TRUE, pa, Find(pa, pa + LargePage)) \in EntrySet
  BY <1>4, FindType, EntryType
<1>6. pd' = [pd EXCEPT ![index] = Entry(TRUE, pa, Find(pa, pa + LargePage))]
  BY DEF EptPde
<1>7. TypeOK'
  <2>1. pd' \in [Pdes -> EntrySet]
    BY <1>1, <1>5, <1>6 DEF TypeOK
  <2>2. index' \in Nat
    BY <1>3
  <2> QED BY <1>2, <1>4, <2>1, <2>2 DEF TypeOK
<1>8. LoopsAt'
  BY <1>1, <1>2, <1>3, <1>4 DEF LoopsAt
<1>9. HostBuilt' /\ DescriptorsAreRegisters'
  BY <1>1, <1>2 DEF HostBuilt, DescriptorsAreRegisters, Described, DescriptorOf, CalculateEndAddress
<1>10. PtBuilt'
  BY <1>2, FindUnchanged DEF PtBuilt
<1>11. ASSUME NEW n \in Pdes, n # 0
       PROVE  pd'[n] = IF n < index'
                       THEN Entry(TRUE, n * LargePage, Find(n * LargePage, (n + 1) * LargePage))
                       ELSE NoEntry
  <2>1. n \in Nat
    BY Sizes DEF Pdes
  <2>2. CASE n = index
    <3>1. (n + 1) * LargePage = pa + LargePage /\ n * LargePage = pa
      BY <1>1, <1>4, <2>2
    <3>2. pd'[n] = Entry(TRUE, pa, Find(pa, pa + LargePage))
      BY <1>6, <2>2 DEF TypeOK
    <3>3. n < index'
      BY <1>3, <2>2
    <3> QED BY <3>1, <3>2, <3>3
  <2>3. CASE n # index
    <3>1. (n < index') <=> (n < index)
      BY <1>3, <2>1, <2>3
    <3>2. pd'[n] = pd[n]
      BY <1>6, <2>3 DEF TypeOK
    <3> QED BY <1>1, <1>11, <3>1, <3>2 DEF PdBuilt
  <2> QED BY <2>2, <2>3
<1>12. 0 \in Pdes /\ pd'[0] = pd[0]
  <2>1. 0 \in Pdes
    BY Sizes DEF Pdes
  <2> QED BY <1>3, <1>6, <2>1 DEF TypeOK
<1>13. PdBuilt'
  BY <1>1, <1>2, <1>11, <1>12, FindUnchanged DEF PdBuilt, Entry, NoEntry
<1> QED BY <1>7, <1>8, <1>9, <1>10, <1>13

LEMMA EptDoneInv == IndInv /\ EptDone => IndInv'
<1> SUFFICES ASSUME IndInv, EptDone PROVE IndInv'
  OBVIOUS
<1> USE DEF IndInv
<1>1. pc = "ept" /\ index \notin Pdes /\ pc' = "done"
  BY DEF EptDone
<1>2. UNCHANGED <<mtrrs, unread, index, pte, pa, descriptors, host, pd, pt>>
  BY DEF EptDone
<1>3. index = Entries * Entries /\ pte = Entries
  BY <1>1, Sizes DEF LoopsAt, Pdes
<1>4. TypeOK' /\ LoopsAt'
  BY <1>1, <1>2, <1>3 DEF TypeOK, LoopsAt
<1>5. HostBuilt' /\ DescriptorsAreRegisters'
  BY <1>1, <1>2 DEF HostBuilt, DescriptorsAreRegisters, Described, DescriptorOf, CalculateEndAddress
<1>6. PtBuilt' /\ PdBuilt'
  BY <1>1, <1>2, FindUnchanged DEF PtBuilt, PdBuilt
<1> QED BY <1>4, <1>5, <1>6

\* The loops never leave the inductive invariant, so the tables hold exactly
\* the entries of the positions passed (vm.rs, init).
THEOREM SetUpInvariant == Spec => []IndInv
<1>1. IndInv /\ [Next]_vars => IndInv'
  <2> SUFFICES ASSUME IndInv, [Next]_vars PROVE IndInv'
    OBVIOUS
  <2>1. CASE UNCHANGED vars
    <3>1. UNCHANGED <<mtrrs, unread, pc, index, pte, pa, descriptors, host, pd, pt>>
      BY <2>1 DEF vars
    <3>2. TypeOK' /\ LoopsAt' /\ HostBuilt'
      BY <3>1 DEF IndInv, TypeOK, LoopsAt, HostBuilt
    <3>3. DescriptorsAreRegisters'
      BY <3>1 DEF IndInv, DescriptorsAreRegisters, Described, DescriptorOf, CalculateEndAddress
    <3>4. PtBuilt' /\ PdBuilt'
      BY <3>1, FindUnchanged DEF IndInv, PtBuilt, PdBuilt
    <3> QED BY <3>2, <3>3, <3>4 DEF IndInv
  <2>2. CASE Next
    BY <2>2, HostPdeInv, HostDoneInv, MtrrNewInv, MtrrDoneInv, EptPteInv, EptPdeInv, EptDoneInv DEF Next
  <2> QED BY <2>1, <2>2
<1> QED BY InitInv, <1>1, PTL DEF Spec

\* The variables keep their types (ept.rs, paging.rs, mtrr.rs).
THEOREM TypeCorrect == Spec => []TypeOK
<1>1. IndInv => TypeOK
  BY DEF IndInv
<1> QED BY <1>1, SetUpInvariant, PTL

\* Every region has the type that find returned for it.
LEMMA RegionsAreFound ==
  ASSUME IndInv, NEW r \in Regions
  PROVE  r.start \in Nat /\ r.end \in Nat /\ r.start < r.end /\ r.type = Find(r.start, r.end)
<1> USE DEF IndInv
<1>1. CASE \E k \in Ptes : /\ pt[k].present
                           /\ r = [start |-> k * BasePage, end |-> (k + 1) * BasePage, type |-> pt[k].memory_type]
  <2>1. PICK k \in Ptes : /\ pt[k].present
                          /\ r = [start |-> k * BasePage, end |-> (k + 1) * BasePage, type |-> pt[k].memory_type]
    BY <1>1
  <2>2. k \in Nat /\ r.start = k * BasePage /\ r.end = (k + 1) * BasePage /\ r.type = pt[k].memory_type
    BY <2>1, SizesAssumption DEF Ptes
  <2>3. pt[k] = Entry(FALSE, k * BasePage, Find(k * BasePage, (k + 1) * BasePage))
    <3>1. pt[k] # NoEntry
      BY <2>1 DEF NoEntry
    <3> QED BY <2>1, <3>1 DEF PtBuilt
  <2>4. pt[k].memory_type = Find(k * BasePage, (k + 1) * BasePage)
    BY <2>3 DEF Entry
  <2>5. r.start \in Nat /\ r.end \in Nat /\ r.start < r.end
    BY <2>2, Positions, SizesAssumption
  <2> QED BY <2>2, <2>4, <2>5
<1>2. CASE \E n \in Pdes : /\ pd[n].present /\ pd[n].large
                           /\ r = [start |-> n * LargePage, end |-> (n + 1) * LargePage, type |-> pd[n].memory_type]
  <2>1. PICK n \in Pdes : /\ pd[n].present /\ pd[n].large
                          /\ r = [start |-> n * LargePage, end |-> (n + 1) * LargePage, type |-> pd[n].memory_type]
    BY <1>2
  <2>2. n \in Nat /\ r.start = n * LargePage /\ r.end = (n + 1) * LargePage /\ r.type = pd[n].memory_type
    BY <2>1, Sizes DEF Pdes
  <2>3. pd[n] # NoEntry /\ pd[n] # Entry(FALSE, 0, "UC")
    BY <2>1 DEF NoEntry, Entry
  <2>4. pd[n] = Entry(TRUE, n * LargePage, Find(n * LargePage, (n + 1) * LargePage))
    BY <2>1, <2>3 DEF PdBuilt
  <2>5. pd[n].memory_type = Find(n * LargePage, (n + 1) * LargePage)
    BY <2>4 DEF Entry
  <2>6. r.start \in Nat /\ r.end \in Nat /\ r.start < r.end
    BY <2>2, Positions, Sizes
  <2> QED BY <2>2, <2>5, <2>6
<1> QED BY <1>1, <1>2 DEF Regions

\* A descriptor that matches is a described register that holds the region.
LEMMA MatchIsRegister ==
  ASSUME IndInv, NEW r, r.start \in Nat, r.end \in Nat, NEW d \in Matching(r.start, r.end)
  PROVE  \E i \in 1..MtrrCount : /\ Described(mtrrs[i]) /\ mtrrs[i].mem_type = descriptors[d].memory_type
                                 /\ mtrrs[i].base <= r.start /\ r.end < mtrrs[i].base + mtrrs[i].size
<1>1. /\ d \in 1..Len(descriptors)
      /\ r.start >= descriptors[d].base_address /\ r.end <= descriptors[d].end_address
  BY DEF Matching
<1>2. PICK i \in 1..MtrrCount : Described(mtrrs[i]) /\ descriptors[d] = DescriptorOf(mtrrs[i])
  BY <1>1 DEF IndInv, DescriptorsAreRegisters
<1>3. mtrrs[i].base \in Nat /\ mtrrs[i].size \in Nat
  BY RegisterType DEF IndInv
<1>4. /\ descriptors[d].memory_type = mtrrs[i].mem_type /\ descriptors[d].base_address = mtrrs[i].base
      /\ descriptors[d].end_address = mtrrs[i].base + mtrrs[i].size - 1
  BY <1>2 DEF DescriptorOf, CalculateEndAddress
<1> QED BY <1>1, <1>2, <1>3, <1>4

\* Conversely, once the registers are read, one that holds the region with a
\* byte to spare is matched.
LEMMA RegisterIsMatch ==
  ASSUME IndInv, pc \in {"ept", "done"}, NEW r, r.start \in Nat, r.end \in Nat,
         NEW i \in 1..MtrrCount, Described(mtrrs[i]),
         mtrrs[i].base <= r.start, r.end < mtrrs[i].base + mtrrs[i].size
  PROVE  \E d \in Matching(r.start, r.end) : descriptors[d].memory_type = mtrrs[i].mem_type
<1>1. PICK d \in 1..Len(descriptors) : descriptors[d] = DescriptorOf(mtrrs[i])
  BY DEF IndInv, DescriptorsAreRegisters
<1>2. mtrrs[i].base \in Nat /\ mtrrs[i].size \in Nat
  BY RegisterType DEF IndInv
<1>3. /\ descriptors[d].memory_type = mtrrs[i].mem_type /\ descriptors[d].base_address = mtrrs[i].base
      /\ descriptors[d].end_address = mtrrs[i].base + mtrrs[i].size - 1
  BY <1>1 DEF DescriptorOf, CalculateEndAddress
<1>4. r.start >= descriptors[d].base_address /\ r.end <= descriptors[d].end_address
  BY <1>2, <1>3
<1>5. d \in Matching(r.start, r.end)
  BY <1>4 DEF Matching
<1> QED BY <1>3, <1>5

\* A type other than write-back comes from a range that holds the region.
THEOREM StrictTypesBacked == Spec => []StrictTypesAreBacked
<1>1. IndInv => StrictTypesAreBacked
  <2> SUFFICES ASSUME IndInv, NEW r \in Regions, r.type # "WB"
               PROVE  \E i \in 1..MtrrCount :
                        /\ mtrrs[i].is_enabled /\ mtrrs[i].mem_type = r.type
                        /\ mtrrs[i].base <= r.start /\ r.end <= mtrrs[i].base + mtrrs[i].size
    BY DEF StrictTypesAreBacked
  <2>1. r.start \in Nat /\ r.end \in Nat /\ r.type = Find(r.start, r.end)
    BY RegionsAreFound
  <2>2. PICK d \in Matching(r.start, r.end) : r.type = descriptors[d].memory_type
    BY <2>1, FindFrom DEF IndInv
  <2>3. PICK i \in 1..MtrrCount : /\ Described(mtrrs[i]) /\ mtrrs[i].mem_type = descriptors[d].memory_type
                                  /\ mtrrs[i].base <= r.start /\ r.end < mtrrs[i].base + mtrrs[i].size
    BY <2>1, <2>2, MatchIsRegister
  <2>4. mtrrs[i].base \in Nat /\ mtrrs[i].size \in Nat
    BY RegisterType DEF IndInv
  <2> QED BY <2>1, <2>2, <2>3, <2>4 DEF Described
<1> QED BY <1>1, SetUpInvariant, PTL

\* Regions have types only once the registers are read.
LEMMA RegionsAfterMtrrs == ASSUME IndInv, NEW r \in Regions PROVE pc \in {"ept", "done"}
<1> SUFFICES ASSUME pc \in {"host", "mtrr"} PROVE FALSE
  BY DEF IndInv, TypeOK
<1>1. pte = 0
  BY DEF IndInv, LoopsAt
<1>2. \A k \in Ptes : pt[k] = NoEntry
  BY <1>1, NoneBelowZero DEF IndInv, PtBuilt
<1>3. \A n \in Pdes : pd[n] = NoEntry
  BY <1>1 DEF IndInv, PdBuilt
<1>4. ~NoEntry.present
  BY DEF NoEntry
<1> QED BY <1>2, <1>3, <1>4 DEF Regions

\* mtrr.rs, find: the type of a region is the processor's type of each of its
\* bytes, unless the MTRRs are off, a fixed range holds the byte, a variable
\* range ends with the region or cuts it, or memory outside the ranges is not
\* write-back.
THEOREM TypesRespected == Spec => []TypesRespectMtrrs
<1>1. IndInv => TypesRespectMtrrs
  <2> SUFFICES ASSUME IndInv, NEW r \in Regions, \A i \in 1..MtrrCount : ~Missed(r, mtrrs[i]),
                      NEW a \in r.start..(r.end - 1), Defined(a),
                      TypesAt(a) = {} => unread.def_type = "WB"
               PROVE  r.type = VariableType(a)
    BY DEF TypesRespectMtrrs, ProcessorType
  <2> DEFINE T == TypesAt(a)
             M == Matching(r.start, r.end)
  <2>1. r.start \in Nat /\ r.end \in Nat /\ r.type = Find(r.start, r.end) /\ pc \in {"ept", "done"}
    BY RegionsAreFound, RegionsAfterMtrrs
  <2>2. a \in Nat /\ r.start <= a /\ a < r.end
    BY <2>1
  <2>3. ASSUME NEW t \in T, t # "WB" PROVE \E d \in M : descriptors[d].memory_type = t
    <3>1. PICK i \in 1..MtrrCount : /\ mtrrs[i].is_enabled /\ mtrrs[i].base <= a
                                    /\ a < mtrrs[i].base + mtrrs[i].size /\ mtrrs[i].mem_type = t
      BY DEF TypesAt
    <3>2. mtrrs[i].base \in Nat /\ mtrrs[i].size \in Nat
      BY RegisterType DEF IndInv
    <3>3. Described(mtrrs[i])
      BY <2>3, <3>1 DEF Described
    <3>4. r.start < mtrrs[i].base + mtrrs[i].size /\ mtrrs[i].base < r.end
      BY <2>1, <2>2, <3>1, <3>2
    <3>5. mtrrs[i].base <= r.start /\ r.end < mtrrs[i].base + mtrrs[i].size
      BY <3>3, <3>4 DEF Missed
    <3> QED BY <2>1, <3>1, <3>3, <3>5, RegisterIsMatch
  <2>4. ASSUME NEW d \in M PROVE descriptors[d].memory_type \in T /\ descriptors[d].memory_type # "WB"
    <3>1. PICK i \in 1..MtrrCount : /\ Described(mtrrs[i]) /\ mtrrs[i].mem_type = descriptors[d].memory_type
                                    /\ mtrrs[i].base <= r.start /\ r.end < mtrrs[i].base + mtrrs[i].size
      BY <2>1, MatchIsRegister
    <3>2. mtrrs[i].base \in Nat /\ mtrrs[i].size \in Nat
      BY RegisterType DEF IndInv
    <3>3. mtrrs[i].base <= a /\ a < mtrrs[i].base + mtrrs[i].size
      BY <2>1, <2>2, <3>1, <3>2
    <3> QED BY <3>1, <3>3 DEF TypesAt, Described
  <2>5. CASE "UC" \in T
    <3>1. Find(r.start, r.end) = "UC"
      BY <2>3, <2>5, FindFrom DEF IndInv
    <3> QED BY <2>1, <2>5, <3>1 DEF VariableType
  <2>6. CASE "UC" \notin T /\ M = {}
    <3>1. r.type = "WB"
      BY <2>1, <2>6, FindFrom DEF IndInv
    <3>2. T \subseteq {"WB"}
      BY <2>3, <2>6
    <3>3. CASE T = {}
      BY <2>6, <3>1, <3>3 DEF VariableType
    <3>4. CASE T = {"WB"}
      <4>1. T # {} /\ T # {"WT", "WB"} /\ (CHOOSE t \in T : TRUE) = "WB"
        BY <3>4
      <4> QED BY <2>6, <3>1, <4>1 DEF VariableType
    <3> QED BY <3>2, <3>3, <3>4
  <2>7. CASE "UC" \notin T /\ M # {}
    <3>1. PICK d \in M : r.type = descriptors[d].memory_type
      BY <2>1, <2>7, FindFrom DEF IndInv
    <3>2. r.type \in T /\ r.type # "WB"
      BY <2>4, <3>1
    <3>3. CASE T \subseteq {"WT", "WB"}
      <4>1. r.type = "WT"
        BY <3>2, <3>3
      <4>2. T = {"WT", "WB"} \/ T = {"WT"}
        BY <3>2, <3>3, <4>1
      <4>3. CASE T = {"WT", "WB"}
        BY <2>7, <4>1, <4>3 DEF VariableType
      <4>4. CASE T = {"WT"}
        <5>1. T # {} /\ T # {"WT", "WB"} /\ (CHOOSE t \in T : TRUE) = "WT"
          BY <4>4
        <5> QED BY <2>7, <4>1, <5>1 DEF VariableType
      <4> QED BY <4>2, <4>3, <4>4
    <3>4. CASE \E t \in MemoryType : T = {t}
      <4>1. T = {r.type}
        BY <3>2, <3>4
      <4>2. T # {} /\ T # {"WT", "WB"} /\ (CHOOSE t \in T : TRUE) = r.type
        BY <3>2, <4>1
      <4> QED BY <2>7, <4>2 DEF VariableType
    <3> QED BY <2>7, <3>3, <3>4 DEF Defined
  <2> QED BY <2>5, <2>6, <2>7
<1> QED BY <1>1, SetUpInvariant, PTL

LEMMA PfnOfPage == ASSUME NEW m \in Nat PROVE (m * BasePage) \div BasePage = m
BY SizesAssumption

\* The page directory a byte belongs to.
LEMMA LargeIndex ==
  ASSUME NEW a \in 0..(Entries * Entries * LargePage - 1)
  PROVE  a \div LargePage \in Pdes /\ (a \div LargePage) * LargePage + (a % LargePage) = a
BY Sizes DEF Pdes

\* Inside a large page: the base page a byte belongs to.
LEMMA BaseIndex ==
  ASSUME NEW x \in Nat, x < LargePage
  PROVE  x \div BasePage \in Ptes /\ (x \div BasePage) * BasePage + (x % BasePage) = x
BY SizesAssumption, Sizes DEF Ptes, LargePage

\* The address a page frame number of an entry at n stands for.
LEMMA LargeFrame ==
  ASSUME NEW n \in Nat PROVE ((n * LargePage) \div BasePage) * BasePage = n * LargePage
<1>1. n * LargePage = (n * Entries) * BasePage /\ n * Entries \in Nat
  BY SizesAssumption DEF LargePage
<1> QED BY <1>1, PfnOfPage

\* paging.rs and ept.rs, build_identity: when the set-up is over both walks
\* lead every address back to itself, over 4 KB and 2 MB entries alike.
THEOREM MapsIdentity == Spec => []MapsAreIdentity
<1>1. IndInv => MapsAreIdentity
  <2> SUFFICES ASSUME IndInv, pc = "done", NEW a \in 0..(Entries * Entries * LargePage - 1)
               PROVE  HostWalk(a) = a /\ EptWalk(a) = a
    BY DEF MapsAreIdentity
  <2> DEFINE n == a \div LargePage
             x == a % LargePage
  <2>1. n \in Pdes /\ n * LargePage + x = a
    BY LargeIndex
  <2>2. a \in Nat /\ n \in Nat /\ x \in Nat /\ x < LargePage
    BY <2>1, Sizes DEF Pdes
  <2>3. index = Entries * Entries /\ pte = Entries /\ n < index
    BY <2>1, Sizes DEF IndInv, LoopsAt, Pdes
  <2>4. HostWalk(a) = a
    <3>1. host[n] = Entry(TRUE, n * LargePage, "WB")
      BY <2>1 DEF IndInv, HostBuilt
    <3>2. host[n].pfn * BasePage = n * LargePage
      BY <2>2, <3>1, LargeFrame DEF Entry
    <3> QED BY <2>1, <3>2 DEF HostWalk
  <2>5. CASE n # 0
    <3>1. pd[n] = Entry(TRUE, n * LargePage, Find(n * LargePage, (n + 1) * LargePage))
      BY <2>1, <2>3, <2>5 DEF IndInv, PdBuilt
    <3>2. pd[n].large /\ pd[n].pfn * BasePage = n * LargePage
      BY <2>2, <3>1, LargeFrame DEF Entry
    <3>3. EptWalk(a) = a
      BY <2>1, <3>2 DEF EptWalk
    <3> QED BY <2>4, <3>3
  <2>6. CASE n = 0
    <3> DEFINE k == x \div BasePage
    <3>1. pd[n] = Entry(FALSE, 0, "UC")
      BY <2>1, <2>3, <2>6, SizesAssumption DEF IndInv, PdBuilt
    <3>2. x = a
      BY <2>1, <2>2, <2>6, Sizes
    <3>3. k \in Ptes /\ k * BasePage + (x % BasePage) = x
      BY <2>2, BaseIndex
    <3>4. k \in Nat /\ k < pte
      BY <2>3, <3>3, SizesAssumption DEF Ptes
    <3>5. pt[k] = Entry(FALSE, k * BasePage, Find(k * BasePage, (k + 1) * BasePage))
      BY <3>3, <3>4 DEF IndInv, PtBuilt
    <3>6. pt[k].pfn * BasePage = k * BasePage /\ ~pd[n].large
      BY <3>1, <3>4, <3>5, PfnOfPage DEF Entry
    <3>7. EptWalk(a) = a
      BY <3>2, <3>3, <3>6 DEF EptWalk
    <3> QED BY <2>4, <3>7
  <2> QED BY <2>5, <2>6
<1> QED BY <1>1, SetUpInvariant, PTL
=============================================================================
