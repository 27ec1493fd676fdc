---------------------------- MODULE GuestMemory ----------------------------
(***************************************************************************)
(* The memory commands of the back door: a client program of the guest     *)
(* opens a process, reads its memory and writes it (commands.rs).  The     *)
(* hypervisor walks the guest's own page tables and process list           *)
(* (paging.rs, eprocess), and uses what it found some instructions later,  *)
(* while the guest's other processors run on: pages move, processes end,   *)
(* page hooks come and go.                                                 *)
(*                                                                         *)
(* Memory is counted in words.  A page has PageWords words, a table        *)
(* Entries entries, so a 2 MB page has Entries pages and a 1 GB page       *)
(* Entries * Entries.                                                      *)
(***************************************************************************)
EXTENDS Integers, Sequences

CONSTANTS
  PageWords,     \* words of a 4 KB page
  Entries,       \* entries of a table, 512 in the code
  Tables,        \* frames that hold the guest's page tables
  DataFrames,    \* the other frames
  SpareFrames,   \* of these, the ones a page may be moved to
  HookFrames,    \* of these, the ones a page hook is installed on
  ShadowOf,      \* HookFrames -> DataFrames: the shadow page of a hooked page
  Eprocs,        \* EPROCESS structures
  System,        \* PsInitialSystemProcess
  Client,        \* the client's process
  ListHead,      \* PsActiveProcessHead, which the walk takes for a structure
  Pids,          \* process identifiers
  Tagged,        \* the CR3 values, named by their PML4, whose bits 11:0 are not 0
  InitTables,    \* the page tables at the start
  LevelOf,       \* Tables -> 1..4: 4 for a PML4, 1 for a page table
  Leaves,        \* page-table entries the guest's memory manager changes
  InitProcs,     \* the EPROCESS structures at the start
  InitList,      \* the list then, from System to ListHead
  CommandVa,     \* client: address of the ClientCommand structure
  HandleVa,      \* client: address of HypervisorCommunicator.process_cr3
  Buffers,       \* client: addresses of data buffers
  Addresses,     \* addresses read and written in the opened process
  Lengths,       \* buffer sizes
  StoreWords,    \* words the guest itself writes
  MaxCommands,   \* bound on the commands of the client
  MaxGuest,      \* bound on the steps of the rest of the guest
  None           \* Option::None

LargePage == PageWords * Entries
HugePage == LargePage * Entries
Frame(a) == a \div PageWords
WordsOf(f) == f * PageWords .. f * PageWords + PageWords - 1
Words == UNION {WordsOf(f) : f \in DataFrames}
MaxLength == CHOOSE n \in Lengths : \A m \in Lengths : m <= n
\* Words that a buffer may start at without running out of memory.
Roomy == {w \in Words : \A n \in 0 .. MaxLength : w + n \in Words}
ClientCr3 == InitProcs[Client].dtb
Cr3s == {InitProcs[e].dtb : e \in Eprocs}
InitActive == {InitList[i] : i \in 1 .. Len(InitList) - 1}
InitRank(e) == IF \E i \in 1 .. Len(InitList) : InitList[i] = e
               THEN CHOOSE i \in 1 .. Len(InitList) : InitList[i] = e ELSE 0
Kinds == {"open", "read", "write", "mismatch"}
PtEntry == [present : BOOLEAN, large : BOOLEAN, pfn : Tables \cup DataFrames]
Eproc == [pid : Pids \cup {None}, dtb : Tables, flink : Eprocs]
SizeOf(level) == CASE level = 1 -> PageWords [] level = 2 -> LargePage [] level = 3 -> HugePage

ASSUME SizesAssumption ==
  /\ PageWords \in Nat \ {0} /\ Entries \in Nat \ {0}
  /\ Lengths \subseteq Nat \ {0}
  /\ \E n \in Lengths : \A m \in Lengths : m <= n
  /\ Addresses \cup Buffers \cup {CommandVa, HandleVa} \subseteq Nat

ASSUME FramesAssumption ==
  /\ Tables \cup DataFrames \subseteq Nat
  /\ SpareFrames \cup HookFrames \subseteq DataFrames
  /\ ShadowOf \in [HookFrames -> DataFrames]
  /\ \A f \in SpareFrames \cup {ShadowOf[h] : h \in HookFrames} : WordsOf(f) \subseteq Roomy
  /\ StoreWords \subseteq Words
  /\ None \notin Nat \cup Pids

\* An entry maps a page all of whose words can start a buffer, or points to
\* a table of the next level.
EntryFits(level, e) ==
  IF level = 1 \/ (level < 4 /\ e.large)
  THEN \A x \in 0 .. SizeOf(level) - 1 : e.pfn * PageWords + x \in Roomy
  ELSE e.pfn \in Tables /\ LevelOf[e.pfn] = level - 1

\* Entries that are in use, or may come into use.
Changeable == Leaves \cup {<<InitProcs[e].dtb, 0>> : e \in Eprocs \ {System, Client, ListHead}}
WellFormed(t) ==
  \A f \in Tables, i \in 0 .. Entries - 1 :
    t[f][i].present \/ <<f, i>> \in Changeable => EntryFits(LevelOf[f], t[f][i])

\* The guest builds proper page tables, each frame at one level.
ASSUME TablesAssumption ==
  /\ InitTables \in [Tables -> [0 .. Entries - 1 -> PtEntry]]
  /\ LevelOf \in [Tables -> 1 .. 4]
  /\ \A cr3 \in Cr3s : LevelOf[cr3] = 4
  /\ Leaves \subseteq {f \in Tables : LevelOf[f] = 1} \X (0 .. Entries - 1)
  /\ WellFormed(InitTables)

\* InitList is the list in the order of its links, every structure once; the
\* client has page tables of its own.
ASSUME ProcsAssumption ==
  /\ Tagged \subseteq Cr3s
  /\ InitProcs \in [Eprocs -> Eproc]
  /\ {System, Client, ListHead} \subseteq Eprocs /\ Client # System
  /\ \A e \in Eprocs \ {Client} : InitProcs[e].dtb # ClientCr3
  /\ InitList \in Seq(Eprocs) /\ Len(InitList) > 1
  /\ InitList[1] = System /\ InitList[Len(InitList)] = ListHead /\ Client \in InitActive
  /\ \A i, j \in 1 .. Len(InitList) : InitList[i] = InitList[j] => i = j
  /\ \A i \in 1 .. Len(InitList) - 1 : InitProcs[InitList[i]].flink = InitList[i + 1]
  /\ InitProcs[ListHead].flink = System /\ InitProcs[ListHead].pid = None

VARIABLES
  tables,       \* the guest's page tables
  mem,          \* contents of the data frames
  ept,          \* the frame the EPT maps a guest frame to
  eproc,        \* the EPROCESS structures: identifier, CR3, next in the list
  active,       \* the structures linked into the list
  kernel,       \* ntoskrnl_base is known and the kernel's half of memory is
                \* mapped under the client's CR3, without PAT bits
  lock,         \* SHARED_HOOK_MANAGER: free, held by the command or by another
                \* processor's exit, or lost with a processor that panicked
  communicator, \* client: open_process has returned a HypervisorCommunicator
  cmd,          \* the command in progress, or the last one
  pc,           \* where its handler is; "idle" when it is done
  cur,          \* get_process_by_process_id: current_process
  src,          \* host address the data are read from
  dst,          \* host address they are written to
  copied,       \* words copied
  status,       \* RAX after the command
  commands,     \* commands issued (bound)
  guestSteps,   \* steps of the rest of the guest (bound)
  \* History, for the properties: what happened since the command was issued.
  touched,      \* frames the guest wrote, moved, paged or hooked, and those behind them
  ended,        \* structures of processes that ended
  reused,       \* whether one of these became another process's
  strayed,      \* whether the command read a structure that was not in the list
  rank,         \* the order in which structures were linked, ListHead last
  known,        \* structures that were active when it was issued
  wrote         \* host words the command has written

guestVars == <<tables, mem, ept, eproc, active>>
transferVars == <<cur, src, dst, copied>>
clientVars == <<communicator, cmd, commands, known>>
historyVars == <<touched, ended, reused, rank, strayed>>
vars == <<guestVars, transferVars, clientVars, historyVars, kernel, lock, pc, status,
          wrote, guestSteps>>

(***************************************************************************)
(* PageTables::translate_guest_virtual_to_guest_physical.  pfn is the      *)
(* entry's bits 51:12, for a large page too.                               *)
(***************************************************************************)
Index(va, level) ==
  CASE level = 4 -> (va \div (HugePage * Entries)) % Entries
    [] level = 3 -> (va \div HugePage) % Entries
    [] level = 2 -> (va \div LargePage) % Entries
    [] level = 1 -> (va \div PageWords) % Entries

\* Mutant: the offset into a large page is taken modulo the next smaller size.
WalkMutant(t, cr3, va) ==
  LET pml4_entry == t[cr3][Index(va, 4)]
      pdpt_entry == t[pml4_entry.pfn][Index(va, 3)]
      pd_entry == t[pdpt_entry.pfn][Index(va, 2)]
      pt_entry == t[pd_entry.pfn][Index(va, 1)]
  IN CASE ~pml4_entry.present -> None
       [] ~pdpt_entry.present -> None
       [] pdpt_entry.large -> pdpt_entry.pfn * PageWords + (va % LargePage)
       [] ~pd_entry.present -> None
       [] pd_entry.large -> pd_entry.pfn * PageWords + (va % PageWords)
       [] ~pt_entry.present -> None
       [] OTHER -> pt_entry.pfn * PageWords + (va % PageWords)

Walk(t, cr3, va) ==
  LET pml4_entry == t[cr3][Index(va, 4)]
      pdpt_entry == t[pml4_entry.pfn][Index(va, 3)]
      pd_entry == t[pdpt_entry.pfn][Index(va, 2)]
      pt_entry == t[pd_entry.pfn][Index(va, 1)]
  IN IF ~pml4_entry.present THEN None
     ELSE IF ~pdpt_entry.present THEN None
     ELSE IF pdpt_entry.large THEN pdpt_entry.pfn * PageWords + (va % HugePage)
     ELSE IF ~pd_entry.present THEN None
     ELSE IF pd_entry.large THEN pd_entry.pfn * PageWords + (va % LargePage)
     ELSE IF ~pt_entry.present THEN None
     ELSE pt_entry.pfn * PageWords + (va % PageWords)

(***************************************************************************)
(* PhysicalAddress::pa_from_va: the guest's tables, then the current EPT   *)
(* of this processor.  The walk takes the whole CR3 for the address of the *)
(* PML4.  When its low bits are not 0 (PCID, PWT, PCD) every entry is read *)
(* out of place, and when it is no page table at all, such as the zero of  *)
(* a handle that was never filled in, other memory is taken for tables:    *)
(* any outcome is possible.                                                *)
(***************************************************************************)
Translate(t, cr3, va) ==
  IF cr3 \in Cr3s \ Tagged THEN {Walk(t, cr3, va)} ELSE {None} \cup Roomy

ToHost(gpa) == ept[Frame(gpa)] * PageWords + (gpa % PageWords)

PaFromVa(va, cr3) ==
  {IF gpa = None THEN None ELSE ToHost(gpa) : gpa \in Translate(tables, cr3, va)}

(***************************************************************************)
(* The processor, external to the program.                                 *)
(***************************************************************************)
\* What the processor's own page walk does: one rule for every level.  The
\* base of a large page has its low bits clear whatever its PAT bit is.
Below(t, frames, va, level) ==
  {t[f][Index(va, level)].pfn : f \in {g \in frames : /\ t[g][Index(va, level)].present
                                                      /\ t[g][Index(va, level)].large => level = 4}}

LeavesAt(t, frames, va, level) ==
  {<<f, level>> : f \in {g \in frames : /\ t[g][Index(va, level)].present
                                        /\ level = 1 \/ t[g][Index(va, level)].large}}

LeavesOf(t, cr3, va) ==
  LET pdpts == Below(t, {cr3}, va, 4)
      pds == Below(t, pdpts, va, 3)
      pts == Below(t, pds, va, 2)
  IN LeavesAt(t, pdpts, va, 3) \cup LeavesAt(t, pds, va, 2) \cup LeavesAt(t, pts, va, 1)

Hardware(t, cr3, va) ==
  {LET base == t[l[1]][Index(va, l[2])].pfn * PageWords
   IN base - (base % SizeOf(l[2])) + (va % SizeOf(l[2])) : l \in LeavesOf(t, cr3, va)}

\* va is not in a large page whose PAT bit, bit 12 of the entry, is set.
PatClear(t, cr3, va) ==
  \A l \in LeavesOf(t, cr3, va) :
    l[2] > 1 => (t[l[1]][Index(va, l[2])].pfn * PageWords) % SizeOf(l[2]) = 0

Init ==
  /\ tables = InitTables
  /\ mem = [w \in Words |-> w]
  /\ ept = [f \in DataFrames |-> f]
  /\ eproc = InitProcs
  /\ active = InitActive
  /\ kernel \in BOOLEAN
  /\ lock = "free"
  /\ communicator = FALSE
  /\ cmd = [kind |-> "mismatch", pid |-> None, cr3 |-> 0, va |-> 0, buf |-> HandleVa, len |-> 0]
  /\ pc = "idle"
  /\ cur = System
  /\ src = None /\ dst = None /\ copied = 0
  /\ status = "Failure"
  /\ commands = 0 /\ guestSteps = 0
  /\ touched = {} /\ ended = {} /\ reused = FALSE /\ strayed = FALSE /\ known = {} /\ wrote = {}
  /\ rank = [e \in Eprocs |-> InitRank(e)]

(***************************************************************************)
(* The client (hvapi): open_process, read_process_memory and               *)
(* write_process_memory build a command and execute CPUID.  Its own        *)
(* accesses to memory go through its page tables; a data access to a       *)
(* hooked page reaches the page itself.                                    *)
(***************************************************************************)
Issue(c) ==
  /\ pc = "idle"
  /\ commands < MaxCommands
  /\ commands' = commands + 1
  /\ cmd' = c
  /\ pc' = "fetch"
  /\ known' = active
  /\ touched' = {} /\ ended' = {} /\ reused' = FALSE /\ strayed' = FALSE /\ wrote' = {}
  /\ UNCHANGED rank
  /\ src' = None /\ dst' = None /\ copied' = 0
  /\ UNCHANGED <<tables, ept, eproc, active, kernel, lock, cur, status, guestSteps>>

\* Where the processor finds HypervisorCommunicator.process_cr3; the guest
\* maps only memory it has.
Handles == Hardware(tables, ClientCr3, HandleVa) \cap Words

OpenProcess(pid) ==
  \E handle \in Handles :
    /\ Issue([kind |-> "open", pid |-> pid, cr3 |-> 0, va |-> 0, buf |-> HandleVa, len |-> 1])
    /\ mem' = [mem EXCEPT ![handle] = 0]
    /\ communicator' = FALSE

ProcessMemory(kind, va, buf, len) ==
  \E handle \in Handles :
    /\ communicator
    /\ Issue([kind |-> kind, pid |-> None, cr3 |-> mem[handle], va |-> va, buf |-> buf, len |-> len])
    /\ UNCHANGED <<mem, communicator>>

\* Command::Invalid, a payload of the other kind, or a missing field.
MalformedCommand ==
  /\ Issue([kind |-> "mismatch", pid |-> None, cr3 |-> 0, va |-> 0, buf |-> HandleVa, len |-> 0])
  /\ UNCHANGED <<mem, communicator>>

ClientCommand ==
  \/ \E pid \in Pids : OpenProcess(pid)
  \/ \E kind \in {"read", "write"}, va \in Addresses, buf \in Buffers, len \in Lengths :
       ProcessMemory(kind, va, buf, len)
  \/ MalformedCommand

(***************************************************************************)
(* handle_cpuid: RAX becomes the status and the guest goes on; the client  *)
(* keeps the communicator of an open that succeeded.  The hook manager's   *)
(* guard is dropped on every return, if it was taken.                      *)
(***************************************************************************)
Release == lock' = IF lock = "command" THEN "free" ELSE lock

Finish(result) ==
  /\ status' = result
  /\ pc' = "idle"
  /\ Release
  /\ communicator' = (IF cmd.kind = "open" THEN result = "Success" ELSE communicator)

\* The client's command is found where the processor did not put it.
Misread == ClientCr3 \in Tagged \/ ~PatClear(tables, ClientCr3, CommandVa)

\* handle_guest_commands: find the command, then dispatch on it.  Bytes that
\* are not the client's can be any command; it is not followed further
\* ("astray").
HandleGuestCommands ==
  /\ pc = "fetch"
  /\ \E pa \in PaFromVa(CommandVa, ClientCr3) :
       IF pa = None \/ (cmd.kind = "mismatch" /\ ~Misread)
       THEN Finish("Failure")
       ELSE /\ pc' = (IF Misread THEN "astray" ELSE IF cmd.kind = "open" THEN "lock" ELSE "src")
            /\ UNCHANGED <<status, lock, communicator>>
  /\ UNCHANGED <<guestVars, transferVars, cmd, commands, known, historyVars, kernel, wrote, guestSteps>>

(***************************************************************************)
(* get_process_by_process_id, with the hook manager locked: the export     *)
(* PsInitialSystemProcess gives the first structure; each round reads one  *)
(* identifier and, if it is another's, the link to the next structure.     *)
(***************************************************************************)
LockHookManager ==
  /\ pc = "lock"
  /\ lock = "free"
  /\ lock' = "command"
  /\ pc' = "export"
  /\ UNCHANGED <<guestVars, transferVars, clientVars, historyVars, kernel, status, wrote, guestSteps>>

\* Mutant: the identifier of the first structure is never compared.
InitialSystemProcessMutant ==
  /\ pc = "export"
  /\ IF kernel
     THEN /\ cur' = System
          /\ pc' = "flink"
          /\ UNCHANGED <<status, lock, communicator>>
     ELSE Finish("Failure") /\ UNCHANGED cur
  /\ UNCHANGED <<guestVars, src, dst, copied, cmd, commands, known, historyVars, kernel, wrote, guestSteps>>

InitialSystemProcess ==
  /\ pc = "export"
  /\ IF kernel
     THEN /\ cur' = System
          /\ pc' = "pid"
          /\ UNCHANGED <<status, lock, communicator>>
     ELSE Finish("Failure") /\ UNCHANGED cur
  /\ UNCHANGED <<guestVars, src, dst, copied, cmd, commands, known, historyVars, kernel, wrote, guestSteps>>

(***************************************************************************)
(* Reads of a structure that is no longer in the list.  Nothing keeps its  *)
(* page mapped or its contents: the read fails and the command with it, or *)
(* gives anything (an address that is no structure counts as one that is   *)
(* not in the list).                                                       *)
(***************************************************************************)
Stray == cur \notin active \cup {ListHead}

ReadFails ==
  /\ pc \in {"pid", "flink", "dtb"}
  /\ Stray
  /\ strayed' = TRUE
  /\ Finish("Failure")
  /\ UNCHANGED <<guestVars, transferVars, cmd, commands, known, touched, ended, reused, rank, kernel, wrote,
                 guestSteps>>

\* Mutant: the guard outlives the search.
CheckProcessIdMutant ==
  /\ pc = "pid"
  /\ \E found \in IF Stray THEN BOOLEAN ELSE {eproc[cur].pid = cmd.pid} :
       pc' = (IF found THEN "dtb" ELSE "flink")
  /\ strayed' = (strayed \/ Stray)
  /\ UNCHANGED <<guestVars, transferVars, clientVars, touched, ended, reused, rank, kernel, lock, status,
                 wrote, guestSteps>>

\* Returning drops the guard: the directory table base is read unlocked.
CheckProcessId ==
  /\ pc = "pid"
  /\ \E found \in IF Stray THEN BOOLEAN ELSE {eproc[cur].pid = cmd.pid} :
       IF found
       THEN pc' = "dtb" /\ Release
       ELSE pc' = "flink" /\ UNCHANGED lock
  /\ strayed' = (strayed \/ Stray)
  /\ UNCHANGED <<guestVars, transferVars, clientVars, touched, ended, reused, rank, kernel, status, wrote,
                 guestSteps>>

\* Mutant: the walk does not recognise its starting point.
NextProcessMutant ==
  /\ pc = "flink"
  /\ \E next \in IF Stray THEN Eprocs ELSE {eproc[cur].flink} : cur' = next /\ pc' = "pid"
  /\ strayed' = (strayed \/ Stray)
  /\ UNCHANGED <<guestVars, src, dst, copied, clientVars, touched, ended, reused, rank, kernel, wrote,
                 guestSteps, status, lock>>

NextProcess ==
  /\ pc = "flink"
  /\ \E next \in IF Stray THEN Eprocs ELSE {eproc[cur].flink} :
       /\ cur' = next
       /\ IF next = System
          THEN Finish("Failure")
          ELSE pc' = "pid" /\ UNCHANGED <<status, lock, communicator>>
  /\ strayed' = (strayed \/ Stray)
  /\ UNCHANGED <<guestVars, src, dst, copied, cmd, commands, known, touched, ended, reused, rank, kernel,
                 wrote, guestSteps>>

(***************************************************************************)
(* The end of handle_open_process: read the directory table base of the    *)
(* structure found, translate the client's buffer, write.                  *)
(***************************************************************************)
ReadDirectoryTableBase ==
  /\ pc = "dtb"
  /\ src' \in IF Stray THEN Cr3s \cup {0} ELSE {eproc[cur].dtb}
  /\ pc' = "dst"
  /\ strayed' = (strayed \/ Stray)
  /\ UNCHANGED <<guestVars, cur, dst, copied, clientVars, touched, ended, reused, rank, kernel, lock,
                 status, wrote, guestSteps>>

(***************************************************************************)
(* The slice functions: translate the first address only, keep a host      *)
(* pointer.  Data come from the process and go to the client's buffer, or  *)
(* the other way round.                                                    *)
(***************************************************************************)
\* Mutant: the two addresses of the command are swapped.
SourceOfMutant(c) == IF c.kind = "read" THEN <<c.buf, c.cr3>> ELSE <<c.buf, ClientCr3>>

SourceOf(c) == IF c.kind = "read" THEN <<c.va, c.cr3>> ELSE <<c.buf, ClientCr3>>

TargetOf(c) == IF c.kind = "write" THEN <<c.va, c.cr3>> ELSE <<c.buf, ClientCr3>>

TranslateSource ==
  /\ pc = "src"
  /\ \E pa \in PaFromVa(SourceOf(cmd)[1], SourceOf(cmd)[2]) :
       /\ src' = pa
       /\ IF pa = None
          THEN Finish("Failure")
          ELSE pc' = "dst" /\ UNCHANGED <<status, lock, communicator>>
  /\ UNCHANGED <<guestVars, cur, dst, copied, cmd, commands, known, historyVars, kernel, wrote, guestSteps>>

TranslateTarget ==
  /\ pc = "dst"
  /\ \E pa \in PaFromVa(TargetOf(cmd)[1], TargetOf(cmd)[2]) :
       /\ dst' = pa
       /\ IF pa = None
          THEN Finish("Failure")
          ELSE pc' = "copy" /\ UNCHANGED <<status, lock, communicator>>
  /\ UNCHANGED <<guestVars, cur, src, copied, cmd, commands, known, historyVars, kernel, wrote, guestSteps>>

\* Mutant: off by one in the address stored to.
CopyWordMutant ==
  /\ pc = "copy"
  /\ copied < cmd.len
  /\ mem' = [mem EXCEPT ![dst + copied + 1] = IF cmd.kind = "open" THEN src ELSE mem[src + copied]]
  /\ wrote' = wrote \cup {dst + copied + 1}
  /\ copied' = copied + 1
  /\ UNCHANGED <<tables, ept, eproc, active, cur, src, dst, clientVars, historyVars, kernel,
                 lock, pc, status, guestSteps>>

\* copy_nonoverlapping, a word at a time; the value of an open is one word.
CopyWord ==
  /\ pc = "copy"
  /\ copied < cmd.len
  /\ mem' = [mem EXCEPT ![dst + copied] = IF cmd.kind = "open" THEN src ELSE mem[src + copied]]
  /\ wrote' = wrote \cup {dst + copied}
  /\ copied' = copied + 1
  /\ UNCHANGED <<tables, ept, eproc, active, cur, src, dst, clientVars, historyVars, kernel,
                 lock, pc, status, guestSteps>>

CommandSucceeds ==
  /\ pc = "copy"
  /\ copied = cmd.len
  /\ Finish("Success")
  /\ UNCHANGED <<guestVars, transferVars, cmd, commands, known, historyVars, kernel, wrote, guestSteps>>

Handler ==
  \/ HandleGuestCommands \/ LockHookManager \/ InitialSystemProcess \/ ReadFails \/ CheckProcessId
  \/ NextProcess \/ ReadDirectoryTableBase \/ TranslateSource \/ TranslateTarget
  \/ CopyWord \/ CommandSucceeds

(***************************************************************************)
(* The rest of the guest, on other processors: external to the program.    *)
(* A page moves to another frame, is paged out or in; memory is written;   *)
(* a process ends (its structure is unlinked and its user half torn down,  *)
(* see Stray) and a new one may get its structure and its tables.          *)
(***************************************************************************)
GuestStep(frames) ==
  /\ guestSteps < MaxGuest
  /\ guestSteps' = guestSteps + 1
  /\ touched' = touched \cup frames \cup {ept[f] : f \in frames}
  /\ UNCHANGED <<transferVars, clientVars, kernel, lock, pc, status, wrote, strayed>>

MovePage(leaf, f) ==
  LET old == tables[leaf[1]][leaf[2]].pfn
  IN /\ tables[leaf[1]][leaf[2]].present
     /\ \A l \in Leaves : tables[l[1]][l[2]].pfn # f
     /\ tables' = [tables EXCEPT ![leaf[1]][leaf[2]].pfn = f]
     /\ mem' = [w \in Words |-> IF Frame(w) = f THEN mem[old * PageWords + (w % PageWords)] ELSE mem[w]]
     /\ GuestStep({old, f})
     /\ UNCHANGED <<ept, eproc, active, ended, reused, rank>>

PageOutOrIn(leaf) ==
  /\ tables' = [tables EXCEPT ![leaf[1]][leaf[2]].present = ~@]
  /\ GuestStep({tables[leaf[1]][leaf[2]].pfn})
  /\ UNCHANGED <<mem, ept, eproc, active, ended, reused, rank>>

GuestStore(w) ==
  /\ mem' = [mem EXCEPT ![w] = 0]
  /\ GuestStep({Frame(w)})
  /\ UNCHANGED <<tables, ept, eproc, active, ended, reused, rank>>

\* Tables of a split region are shared, so this processor's EPT changes when
\* another one installs, removes, or single-steps past a hook.
SwapHookedPage(f) ==
  /\ lock \in {"free", "other"}
  /\ ept' = [ept EXCEPT ![f] = IF @ = f THEN ShadowOf[f] ELSE f]
  /\ GuestStep({f, ShadowOf[f]})
  /\ UNCHANGED <<tables, mem, eproc, active, ended, reused, rank>>

EndProcess(e) ==
  /\ e \in active \ {System, Client}
  /\ active' = active \ {e}
  /\ eproc' = [x \in Eprocs |-> IF x \in active \cup {ListHead} /\ x # e /\ eproc[x].flink = e
                                THEN [eproc[x] EXCEPT !.flink = eproc[e].flink] ELSE eproc[x]]
  /\ tables' = [tables EXCEPT ![eproc[e].dtb][0].present = FALSE]
  /\ ended' = ended \cup {e}
  /\ GuestStep({})
  /\ UNCHANGED <<mem, ept, reused, rank>>

NewProcess(e, pid) ==
  /\ e \in Eprocs \ (active \cup {ListHead})
  /\ \A x \in active : eproc[x].pid # pid
  /\ active' = active \cup {e}
  /\ eproc' = [x \in Eprocs |-> IF x = e THEN [pid |-> pid, dtb |-> eproc[e].dtb, flink |-> ListHead]
                                ELSE IF x \in active /\ eproc[x].flink = ListHead
                                     THEN [eproc[x] EXCEPT !.flink = e] ELSE eproc[x]]
  /\ tables' = [tables EXCEPT ![eproc[e].dtb][0].present = TRUE]
  /\ reused' = (reused \/ e \in ended)
  /\ rank' = [rank EXCEPT ![e] = rank[ListHead], ![ListHead] = @ + 1]
  /\ GuestStep({})
  /\ UNCHANGED <<mem, ept, ended>>

Guest ==
  \/ \E leaf \in Leaves, f \in SpareFrames : MovePage(leaf, f)
  \/ \E leaf \in Leaves : PageOutOrIn(leaf)
  \/ \E w \in StoreWords : GuestStore(w)
  \/ \E f \in HookFrames : SwapHookedPage(f)
  \/ \E e \in Eprocs : EndProcess(e)
  \/ \E e \in Eprocs, pid \in Pids : NewProcess(e, pid)

(***************************************************************************)
(* The hook manager's lock in the exits of other processors: handlers of   *)
(* hooks, MSRs and VMCALL take it and give it back, or panic and keep it.  *)
(***************************************************************************)
OtherLocks ==
  /\ lock = "free"
  /\ guestSteps < MaxGuest
  /\ guestSteps' = guestSteps + 1
  /\ lock' = "other"
  /\ UNCHANGED <<guestVars, transferVars, clientVars, historyVars, kernel, pc, status, wrote>>

OtherUnlocks ==
  /\ lock = "other"
  /\ lock' = "free"
  /\ UNCHANGED <<guestVars, transferVars, clientVars, historyVars, kernel, pc, status, wrote, guestSteps>>

OtherPanics ==
  /\ lock = "other"
  /\ lock' = "lost"
  /\ UNCHANGED <<guestVars, transferVars, clientVars, historyVars, kernel, pc, status, wrote, guestSteps>>

Next == ClientCommand \/ Handler \/ Guest \/ OtherLocks \/ OtherUnlocks \/ OtherPanics

\* A handler runs with the guest's processor stopped, so it goes on by
\* itself, and so does the exit that holds the lock on another processor.
Spec == Init /\ [][Next]_vars /\ WF_vars(Handler) /\ WF_vars(OtherUnlocks)

(***************************************************************************)
(* Properties                                                              *)
(***************************************************************************)
\* Types; the command holds the hook manager exactly while it searches the
\* process list, and a copy runs between two translated addresses.
TypeOK ==
  /\ tables \in [Tables -> [0 .. Entries - 1 -> PtEntry]]
  /\ mem \in [Words -> Words \cup Cr3s \cup {0}]
  /\ ept \in [DataFrames -> DataFrames]
  /\ eproc \in [Eprocs -> Eproc]
  /\ active \in SUBSET (Eprocs \ {ListHead})
  /\ lock \in {"free", "command", "other", "lost"} /\ (lock = "command" <=> pc \in {"export", "pid", "flink"})
  /\ communicator \in BOOLEAN
  /\ cmd.kind \in Kinds
  /\ cur \in Eprocs
  /\ src \in Words \cup Cr3s \cup {0, None}
  /\ dst \in Words \cup {None}
  /\ pc = "copy" => src # None /\ dst # None /\ wrote = dst .. dst + copied - 1
  /\ copied \in 0 .. cmd.len
  /\ status \in {"Success", "Failure"}

\* PageTables::translate_guest_virtual_to_guest_physical finds, for every
\* process whose CR3 has bits 11:0 clear and every address that is not in a
\* large page with its PAT bit set, what the processor itself would find.
\* Stated of the moment a command is issued: the commands change no tables, so
\* later steps of it meet none that a command does not also find then.
WalkAgrees ==
  pc = "fetch" =>
    \A cr3 \in Cr3s, va \in 0 .. HugePage * Entries * Entries - 1 :
      cr3 \notin Tagged /\ PatClear(tables, cr3, va) =>
        Translate(tables, cr3, va) \ {None} = Hardware(tables, cr3, va)

\* The guest's own view of a range: its guest-physical words, when these are
\* mapped and follow each other in memory, otherwise nothing.
Range(va, cr3, len) ==
  IF cr3 \in Cr3s
  THEN UNION {first .. first + len - 1 :
                first \in {w \in Hardware(tables, cr3, va) :
                            \A i \in 0 .. len - 1 : Hardware(tables, cr3, va + i) = {w + i}}}
  ELSE {}

\* Addresses for which the code's walk is the processor's, see WalkAgrees.
Plain(va, cr3, len) ==
  cr3 \in Cr3s \ Tagged /\ \A i \in 0 .. len - 1 : PatClear(tables, cr3, va + i)

\* A plain range the guest has left alone since the command was issued, in a
\* process that has not ended, on pages that are not hooked.
Settled(va, cr3, len) ==
  /\ Plain(va, cr3, len)
  /\ Range(va, cr3, len) # {}
  /\ \A w \in Range(va, cr3, len) : Frame(w) \notin touched /\ ept[Frame(w)] = Frame(w)
  /\ \A e \in ended : eproc[e].dtb # cr3

\* Where the command says the data are, and where they are to go.
Origin == IF cmd.kind = "read" THEN <<cmd.va, cmd.cr3>> ELSE <<cmd.buf, ClientCr3>>
Destination == IF cmd.kind = "write" THEN <<cmd.va, cmd.cr3>> ELSE <<cmd.buf, ClientCr3>>

\* A read or a write that reports success has moved exactly the bytes asked
\* for, between the addresses where the processor itself sees them, if both
\* ranges are plain, neither crosses into a page that lies elsewhere and the
\* guest left both alone meanwhile (handle_read_memory, handle_write_memory
\* and the slice functions).
TransferExact ==
  LET from == Origin
      to == Destination
  IN /\ pc = "idle" /\ status = "Success" /\ cmd.kind \in {"read", "write"}
     /\ Settled(from[1], from[2], cmd.len) /\ Settled(to[1], to[2], cmd.len)
     /\ Range(from[1], from[2], cmd.len) \cap Range(to[1], to[2], cmd.len) = {}
     => /\ wrote = Range(to[1], to[2], cmd.len)
        /\ \A source \in Hardware(tables, from[2], from[1]), target \in Hardware(tables, to[2], to[1]),
              i \in 0 .. cmd.len - 1 : mem[target + i] = mem[source + i]

\* Whatever the guest does meanwhile, a command writes only into frames that
\* hold for the processor, or during the command held, the page it was asked
\* to write (which must be plain, its process alive; several pages must be
\* adjacent and left alone), and a command that reports failure has written
\* nothing: the target is translated before the first word is stored
\* (commands.rs, copy_nonoverlapping).
WritesConfined ==
  LET to == Destination
      mapped == UNION {Hardware(tables, to[2], to[1] + i) : i \in 0 .. cmd.len - 1}
  IN /\ pc = "idle" /\ status = "Failure" => wrote = {}
     /\ \A w \in wrote :
          /\ Plain(to[1], to[2], cmd.len)
          /\ Frame(to[1]) = Frame(to[1] + cmd.len - 1) \/ Settled(to[1], to[2], cmd.len)
          /\ \A e \in ended : eproc[e].dtb # to[2]
          => Frame(w) \in touched \cup {ept[Frame(v)] : v \in mapped}

\* open_process on a guest whose kernel is found, its client plain and left in
\* place: unless a structure was recycled under the walk or the walk read one
\* that had left the list, success delivers the directory table base of a
\* process with the identifier asked for, and a process that was there all the
\* time is found, whatever other processes start and end
\* (get_process_by_process_id, which holds no guest lock).
OpenExact ==
  LET handle == Range(HandleVa, ClientCr3, 1)
  IN /\ pc = "idle" /\ cmd.kind = "open"
     /\ kernel /\ ~reused /\ ~strayed
     /\ Settled(HandleVa, ClientCr3, 1) /\ Settled(CommandVa, ClientCr3, 1)
     => /\ status = "Success" =>
             \A w \in handle : \E e \in Eprocs : eproc[e].pid = cmd.pid /\ eproc[e].dtb = mem[w]
        /\ status = "Failure" => \A e \in known \ ended : eproc[e].pid # cmd.pid

(***************************************************************************)
(* The inductive invariant, in three parts.                                *)
(***************************************************************************)
Pcs == {"idle", "fetch", "astray", "lock", "export", "pid", "flink", "dtb", "src", "dst", "copy"}

\* Fields of the command, and which handlers it can be in.
CommandOK ==
  /\ cmd \in [kind : Kinds, pid : Pids \cup {None}, cr3 : Words \cup Cr3s \cup {0},
              va : Addresses \cup {0}, buf : Buffers \cup {HandleVa}, len : 0 .. MaxLength]
  /\ cmd.kind = "open" => cmd.len = 1 /\ cmd.buf = HandleVa /\ cmd.pid \in Pids
  /\ cmd.kind \in {"read", "write"} => cmd.len \in Lengths
  /\ pc \in {"lock", "export", "pid", "flink", "dtb"} => cmd.kind = "open"
  /\ pc = "src" => cmd.kind \in {"read", "write"}
  /\ pc \in {"dst", "copy"} => cmd.kind # "mismatch"
  /\ pc = "idle" /\ status = "Success" => cmd.kind # "mismatch"

\* The guest's tables stay proper, a frame is mapped to itself or to its
\* shadow page, a structure keeps its page tables, the lock is the search's.
MachineInv ==
  /\ tables \in [Tables -> [0 .. Entries - 1 -> PtEntry]]
  /\ WellFormed(tables)
  /\ mem \in [Words -> Words \cup Cr3s \cup {0}]
  /\ ept \in [DataFrames -> DataFrames]
  /\ \A f \in DataFrames : ept[f] = f \/ (f \in HookFrames /\ ept[f] = ShadowOf[f])
  /\ eproc \in [Eprocs -> Eproc]
  /\ \A e \in Eprocs : eproc[e].dtb = InitProcs[e].dtb
  /\ active \in SUBSET (Eprocs \ {ListHead}) /\ {System, Client} \subseteq active
  /\ ended \in SUBSET (Eprocs \ {System, Client, ListHead})
  /\ touched \in SUBSET DataFrames
  /\ communicator \in BOOLEAN /\ reused \in BOOLEAN /\ strayed \in BOOLEAN
  /\ status \in {"Success", "Failure"}
  /\ pc \in Pcs
  /\ lock \in {"free", "command", "other", "lost"} /\ (lock = "command" <=> pc \in {"export", "pid", "flink"})
  /\ cur \in Eprocs
  /\ CommandOK

\* The command has succeeded.
Done == pc = "idle" /\ status = "Success"
HasSource == cmd.kind \in {"read", "write"} /\ (pc \in {"dst", "copy"} \/ Done)
HasTarget == pc = "copy" \/ Done
HasCr3 == cmd.kind = "open" /\ (pc \in {"dst", "copy"} \/ Done)

\* The host address h found for va is still right, or both the page it points
\* into and the page va is in now have been touched.
Tracks(h, va, cr3) ==
  LET w == Walk(tables, cr3, va)
  IN  cr3 \in Cr3s \ Tagged /\ (\A e \in ended : eproc[e].dtb # cr3) =>
        /\ tables[cr3][Index(va, 4)].present
        /\ h % PageWords = va % PageWords
        /\ \/ w # None /\ h = ToHost(w)
           \/ Frame(h) \in touched /\ (w # None => Frame(w) \in touched)

\* A copy works between two tracked addresses, and the words it has copied
\* are there unless somebody touched them.
TransferInv ==
  /\ copied \in 0 .. cmd.len
  /\ HasSource => src \in Roomy /\ Tracks(src, Origin[1], Origin[2])
  /\ HasCr3 => src \in Cr3s \cup {0} /\ (~strayed => src = eproc[cur].dtb)
  /\ ~HasSource /\ ~HasCr3 => src \in Roomy \cup Cr3s \cup {0, None}
  /\ HasTarget => /\ dst \in Roomy /\ Tracks(dst, Destination[1], Destination[2])
                  /\ wrote = dst .. dst + copied - 1
  /\ ~HasTarget => dst \in Roomy \cup {None} /\ wrote = {}
  /\ pc \notin {"copy", "idle"} => copied = 0
  /\ Done => copied = cmd.len
  /\ HasTarget /\ cmd.kind = "open" =>
       \A i \in 0 .. copied - 1 : Frame(dst + i) \in touched \/ mem[dst + i] = src
  /\ HasTarget /\ HasSource
     /\ (\A i, j \in 0 .. cmd.len - 1 : dst + i # src + j) =>
       \A i \in 0 .. copied - 1 :
         Frame(dst + i) \in touched \/ Frame(src + i) \in touched \/ mem[dst + i] = mem[src + i]

\* The list runs from System to ListHead in the order of rank and skips no
\* active structure.
ListInv ==
  /\ rank \in [Eprocs -> Nat]
  /\ eproc[ListHead].flink = System /\ eproc[ListHead].pid = None
  /\ \A x \in active :
       /\ eproc[x].flink \in (active \ {System}) \cup {ListHead}
       /\ rank[System] <= rank[x] /\ rank[x] < rank[ListHead] /\ rank[x] < rank[eproc[x].flink]
       /\ \A y \in active : rank[x] < rank[y] => rank[eproc[x].flink] <= rank[y]
       /\ \A y \in active : rank[x] = rank[y] => x = y

\* A structure that has left the list during the command is not back in it.
EndedInv == known \subseteq active \cup ended /\ active \cap ended = {}

Wanted == {t \in known \ ended : eproc[t].pid = cmd.pid}

\* The search has not passed what it is looking for.
WalkInv ==
  /\ pc \in {"pid", "flink"} => cur \in active \cup ended \cup {ListHead}
  /\ pc = "pid" => \A t \in Wanted : rank[cur] <= rank[t]
  /\ pc = "flink" => \A t \in Wanted : rank[cur] < rank[t]
  /\ pc = "dtb" \/ HasCr3 => cur \in active \cup ended /\ eproc[cur].pid = cmd.pid

\* The page of va is not mapped now, or has been touched.
Unsettled(va) ==
  LET w == Walk(tables, ClientCr3, va) IN w # None => Frame(w) \in touched

\* Why an open has failed.
FailureInv ==
  pc = "idle" /\ status = "Failure" /\ cmd.kind = "open" =>
    \/ ~kernel \/ reused \/ strayed \/ ClientCr3 \in Tagged
    \/ Unsettled(CommandVa) \/ Unsettled(HandleVa) \/ Wanted = {}

SearchInv == ListInv /\ (~reused => EndedInv) /\ (~reused /\ ~strayed => WalkInv) /\ FailureInv

IndInv == MachineInv /\ TransferInv /\ SearchInv

\* A command that is read right ends, whatever processes start and end and
\* however the lock is contended for (the starts and the other exits are
\* finitely many, MaxGuest), unless it has read a structure that had left the
\* list, whose link can lead in a circle for ever, or waits for a lock that was
\* lost with a processor that panicked (get_process_by_process_id).
CommandEnds == (pc # "idle") ~> (pc \in {"idle", "astray"} \/ strayed \/ lock = "lost")
=============================================================================
