---------------------------- MODULE IdentityMap ----------------------------
(***************************************************************************)
(* The two identity maps a processor builds before it is virtualized       *)
(* (vm.rs, init): the host page tables the hypervisor runs on, and the EPT *)
(* behind the guest, whose entries carry the memory type that the MTRRs    *)
(* give to their region.  The page directories pd[0..511] lie one behind   *)
(* the other and are one array here: entry j of pd[i] is pd[i * 512 + j].  *)
(***************************************************************************)
EXTENDS Integers, Sequences

CONSTANTS
  BasePage,  \* BASE_PAGE_SIZE: bytes of a 4 KB page
  Entries,   \* entries of a table, 512 in the code
  MtrrRegs,  \* what a pair IA32_MTRR_PHYSBASEn, IA32_MTRR_PHYSMASKn may hold
  MtrrCount, \* IA32_MTRRCAP, bits 7:0
  FixedPages,  \* pages below 1 MB, for which there are fixed-range MTRRs
  UnreadMtrrs  \* what the MTRRs that the code never reads may hold

MemoryType == {"UC", "WC", "WT", "WP", "WB"}

ASSUME SizesAssumption ==
  BasePage \in Nat \ {0} /\ Entries \in Nat \ {0} /\ MtrrCount \in Nat /\ FixedPages \in Nat
ASSUME MtrrAssumption ==
  MtrrRegs \subseteq [is_enabled : BOOLEAN, base : Nat, size : Nat \ {0}, mem_type : MemoryType]
\* IA32_MTRR_DEF_TYPE with its two enable flags, and the fixed-range registers.
ASSUME UnreadAssumption ==
  UnreadMtrrs \subseteq [enabled : BOOLEAN, fixed_enabled : BOOLEAN, def_type : MemoryType,
                         fixed : [0..(FixedPages - 1) -> MemoryType]]

LargePage == Entries * BasePage   \* LARGE_PAGE_SIZE
Pdes == 0..(Entries * Entries - 1)
Ptes == 0..(Entries - 1)

VARIABLES
  mtrrs,       \* the variable MTRRs, read by Mtrr::get
  unread,      \* the MTRRs that the code never reads
  pc,          \* which loop runs: "host", "mtrr", "ept", or "done"
  index,       \* entries of this loop that are done
  pte,         \* entries of the first 2 MB's page table that are done
  pa,          \* the physical address the loop has reached
  descriptors, \* Mtrr.descriptors
  host,        \* entries of the host page directories
  pd,          \* entries of the EPT's page directories
  pt           \* entries of the EPT's only page table, for the first 2 MB

vars == <<mtrrs, unread, pc, index, pte, pa, descriptors, host, pd, pt>>

EntrySet == [present : BOOLEAN, large : BOOLEAN, pfn : Nat, memory_type : MemoryType]
NoEntry == [present |-> FALSE, large |-> FALSE, pfn |-> 0, memory_type |-> "UC"]
Entry(large, address, type) ==
  [present |-> TRUE, large |-> large, pfn |-> address \div BasePage, memory_type |-> type]

Init ==
  /\ mtrrs \in [1..MtrrCount -> MtrrRegs]
  /\ unread \in UnreadMtrrs
  /\ pc = "host" /\ index = 0 /\ pte = 0 /\ pa = 0
  /\ descriptors = <<>>
  /\ host = [n \in Pdes |-> NoEntry]
  /\ pd = [n \in Pdes |-> NoEntry]
  /\ pt = [n \in Ptes |-> NoEntry]

(***************************************************************************)
(* PageTables::build_identity: 2 MB pages throughout.                      *)
(***************************************************************************)
HostPde ==
  /\ pc = "host" /\ index \in Pdes
  /\ host' = [host EXCEPT ![index] = Entry(TRUE, pa, "WB")]
  /\ pa' = pa + LargePage
  /\ index' = index + 1
  /\ UNCHANGED <<mtrrs, unread, pc, pte, descriptors, pd, pt>>

HostDone ==
  /\ pc = "host" /\ index \notin Pdes
  /\ pc' = "mtrr" /\ index' = 1
  /\ UNCHANGED <<mtrrs, unread, pte, pa, descriptors, host, pd, pt>>

(***************************************************************************)
(* Mtrr::new: one descriptor for each enabled register that is not         *)
(* write-back.  The mask is given by the size of its range, the lowest bit *)
(* set in it (calculate_end_address).                                      *)
(***************************************************************************)
\* Mutant: one page too long.
CalculateEndAddressMutant(reg) == reg.base + reg.size + BasePage

CalculateEndAddress(reg) == reg.base + reg.size - 1

DescriptorOf(reg) ==
  [base_address |-> reg.base, end_address |-> CalculateEndAddress(reg), memory_type |-> reg.mem_type]

\* Mutant: write-back ranges are kept too.
DescribedMutant(reg) == reg.is_enabled

Described(reg) == reg.is_enabled /\ reg.mem_type # "WB"

MtrrNew ==
  /\ pc = "mtrr" /\ index <= MtrrCount
  /\ LET reg == mtrrs[index]
     IN descriptors' =
          IF Described(reg)
          THEN Append(descriptors, DescriptorOf(reg))
          ELSE descriptors
  /\ index' = index + 1
  /\ UNCHANGED <<mtrrs, unread, pc, pte, pa, host, pd, pt>>

MtrrDone ==
  /\ pc = "mtrr" /\ index > MtrrCount
  /\ pc' = "ept" /\ index' = 0 /\ pa' = 0
  /\ UNCHANGED <<mtrrs, unread, pte, descriptors, host, pd, pt>>

Matching(start, end) ==
  {i \in 1..Len(descriptors) : /\ start >= descriptors[i].base_address
                               /\ end <= descriptors[i].end_address}

\* Mutant: uncacheable ranges have no precedence.
FindMutant(start, end) ==
  LET M == Matching(start, end)
  IN IF M = {} THEN "WB" ELSE descriptors[CHOOSE i \in M : \A j \in M : j <= i].memory_type

\* Mtrr::find for the bytes start .. end - 1: the first uncacheable match
\* wins at once, otherwise the last match; write-back when there is none.
Find(start, end) ==
  LET M == Matching(start, end)
  IN CASE \E i \in M : descriptors[i].memory_type = "UC" -> "UC"
       [] M = {} -> "WB"
       [] OTHER -> descriptors[CHOOSE i \in M : \A j \in M : j <= i].memory_type

(***************************************************************************)
(* Ept::build_identity: the first entry of the first page directory points *)
(* to the page table, which maps 4 KB pages; the others map 2 MB pages.    *)
(***************************************************************************)
\* Inside the loop over the page table: it was entered because pa was 0.
InPageTable == pa = 0 \/ pte \in Ptes \ {0}

EptPte ==
  /\ pc = "ept" /\ index \in Pdes /\ InPageTable
  /\ pd' = [pd EXCEPT ![index] = Entry(FALSE, 0, "UC")]
  /\ pt' = [pt EXCEPT ![pte] = Entry(FALSE, pa, Find(pa, pa + BasePage))]
  /\ pa' = pa + BasePage
  /\ pte' = pte + 1
  /\ index' = IF pte + 1 \in Ptes THEN index ELSE index + 1
  /\ UNCHANGED <<mtrrs, unread, pc, descriptors, host>>

\* Mutant: the large pages start over at 0 behind the page table.
EptPdeMutant ==
  /\ pc = "ept" /\ index \in Pdes /\ ~InPageTable
  /\ pd' = [pd EXCEPT ![index] = Entry(TRUE, pa - LargePage, Find(pa, pa + LargePage))]
  /\ pa' = pa + LargePage
  /\ index' = index + 1
  /\ UNCHANGED <<mtrrs, unread, pc, pte, descriptors, host, pt>>

EptPde ==
  /\ pc = "ept" /\ index \in Pdes /\ ~InPageTable
  /\ pd' = [pd EXCEPT ![index] = Entry(TRUE, pa, Find(pa, pa + LargePage))]
  /\ pa' = pa + LargePage
  /\ index' = index + 1
  /\ UNCHANGED <<mtrrs, unread, pc, pte, descriptors, host, pt>>

EptDone ==
  /\ pc = "ept" /\ index \notin Pdes
  /\ pc' = "done"
  /\ UNCHANGED <<mtrrs, unread, index, pte, pa, descriptors, host, pd, pt>>

Next == HostPde \/ HostDone \/ MtrrNew \/ MtrrDone \/ EptPte \/ EptPde \/ EptDone

Spec == Init /\ [][Next]_vars

(***************************************************************************)
(* What the processor makes of the tables: the walk of the host and of the *)
(* EPT (Ept::translate_guest_pa_to_host_pa).                               *)
(***************************************************************************)
HostWalk(a) == host[a \div LargePage].pfn * BasePage + (a % LargePage)

EptWalk(a) ==
  LET pde == pd[a \div LargePage]
  IN IF pde.large
     THEN pde.pfn * BasePage + (a % LargePage)
     ELSE pt[(a % LargePage) \div BasePage].pfn * BasePage + (a % BasePage)

\* The regions that have got a memory type, with it.
Regions ==
  {[start |-> k * BasePage, end |-> (k + 1) * BasePage, type |-> pt[k].memory_type] :
     k \in {k \in Ptes : pt[k].present}}
  \cup {[start |-> n * LargePage, end |-> (n + 1) * LargePage, type |-> pd[n].memory_type] :
     n \in {n \in Pdes : pd[n].present /\ pd[n].large}}

\* The types of the enabled ranges that hold the byte a.
TypesAt(a) ==
  {mtrrs[i].mem_type : i \in {i \in 1..MtrrCount :
     mtrrs[i].is_enabled /\ mtrrs[i].base <= a /\ a < mtrrs[i].base + mtrrs[i].size}}

\* The type the variable ranges give to the byte a, where the types at a are
\* a combination that the manual (12.11.4.1) defines.
Defined(a) ==
  LET T == TypesAt(a)
  IN "UC" \in T \/ T \subseteq {"WT", "WB"} \/ \E t \in MemoryType : T = {t}
VariableType(a) ==
  LET T == TypesAt(a)
  IN CASE "UC" \in T -> "UC"
       [] T = {} -> unread.def_type
       [] T = {"WT", "WB"} -> "WT"
       [] OTHER -> CHOOSE t \in T : TRUE

\* The processor's own type of the byte a: below 1 MB the fixed ranges come
\* before the variable ones.
Fixed(a) == unread.fixed_enabled /\ a < FixedPages * BasePage
ProcessorType(a) ==
  CASE ~unread.enabled -> "UC"
    [] unread.enabled /\ Fixed(a) -> unread.fixed[a \div BasePage]
    [] OTHER -> VariableType(a)

\* A range that the lookup misses although it meets the region: it ends with
\* the region, or covers only a part of it.
Missed(r, reg) ==
  /\ Described(reg)
  /\ r.start < reg.base + reg.size /\ reg.base < r.end
  /\ ~(reg.base <= r.start /\ r.end < reg.base + reg.size)

\* Types; a descriptor is never write-back, and the page table's loop never
\* leaves the table.
TypeOK ==
  /\ mtrrs \in [1..MtrrCount -> MtrrRegs] /\ unread \in UnreadMtrrs
  /\ pc \in {"host", "mtrr", "ept", "done"}
  /\ index \in Nat /\ pte \in 0..Entries /\ pa \in Nat
  /\ descriptors \in Seq([base_address : Nat, end_address : Nat, memory_type : MemoryType \ {"WB"}])
  /\ host \in [Pdes -> EntrySet] /\ pd \in [Pdes -> EntrySet] /\ pt \in [Ptes -> EntrySet]

\* Where the loops are.
LoopsAt ==
  /\ pc = "host" => index \in 0..(Entries * Entries) /\ pa = index * LargePage
  /\ pc = "mtrr" => index \in 1..(MtrrCount + 1)
  /\ pc \in {"host", "mtrr"} => pte = 0
  /\ pc = "ept" => \/ index = 0 /\ pte \in Ptes /\ pa = pte * BasePage
                   \/ index \in 1..(Entries * Entries) /\ pte = Entries /\ pa = index * LargePage
  /\ pc = "done" => index = Entries * Entries /\ pte = Entries

\* What they leave behind: every entry made so far maps its own position,
\* with the type found for it.
HostBuilt ==
  \A n \in Pdes : pc # "host" \/ n < index => host[n] = Entry(TRUE, n * LargePage, "WB")
PtBuilt ==
  \A k \in Ptes :
    pt[k] = IF k < pte THEN Entry(FALSE, k * BasePage, Find(k * BasePage, (k + 1) * BasePage))
                       ELSE NoEntry
PdBuilt ==
  \A n \in Pdes :
    pd[n] = IF n = 0 THEN IF pte = 0 THEN NoEntry ELSE Entry(FALSE, 0, "UC")
            ELSE IF pc \in {"ept", "done"} /\ n < index
            THEN Entry(TRUE, n * LargePage, Find(n * LargePage, (n + 1) * LargePage))
            ELSE NoEntry

\* The descriptors are those of the registers read so far.
DescriptorsAreRegisters ==
  /\ \A d \in 1..Len(descriptors) : \E i \in 1..MtrrCount :
       Described(mtrrs[i]) /\ descriptors[d] = DescriptorOf(mtrrs[i])
  /\ \A i \in 1..MtrrCount :
       Described(mtrrs[i]) /\ pc # "host" /\ (pc = "mtrr" => i < index)
       => \E d \in 1..Len(descriptors) : descriptors[d] = DescriptorOf(mtrrs[i])

\* The inductive invariant: where the loops are decides what the tables hold.
IndInv == TypeOK /\ LoopsAt /\ HostBuilt /\ DescriptorsAreRegisters /\ PtBuilt /\ PdBuilt

\* paging.rs, build_identity: "each virtual address directly maps to the same
\* physical address"; ept.rs: "1:1 physical-to-virtual memory mapping".  Host
\* and EPT, 4 KB and 2 MB parts, agree on every address when set-up is over.
MapsAreIdentity ==
  pc = "done" => \A a \in 0..(Entries * Entries * LargePage - 1) : HostWalk(a) = a /\ EptWalk(a) = a

\* mtrr.rs, find: a region has the type the processor gives to each of its
\* bytes, under four conditions that the code takes for granted: the MTRRs are
\* on, no fixed range holds the byte, no variable range ends with the region or
\* cuts it, and memory outside the ranges is write-back.
TypesRespectMtrrs ==
  \A r \in Regions :
    (\A i \in 1..MtrrCount : ~Missed(r, mtrrs[i])) =>
      \A a \in r.start..(r.end - 1) :
        /\ unread.enabled /\ ~Fixed(a)
        /\ Defined(a) /\ (TypesAt(a) = {} => unread.def_type = "WB")
        => r.type = ProcessorType(a)

\* A type other than write-back is never made up: a range of that type holds
\* the whole region.
StrictTypesAreBacked ==
  \A r \in Regions : r.type # "WB" =>
    \E i \in 1..MtrrCount : /\ mtrrs[i].is_enabled /\ mtrrs[i].mem_type = r.type
                            /\ mtrrs[i].base <= r.start /\ r.end <= mtrrs[i].base + mtrrs[i].size
=============================================================================
