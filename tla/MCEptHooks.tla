----------------------------- MODULE MCEptHooks -----------------------------
(***************************************************************************)
(* Small instances of EptHooks.  kern is a kernel page with the hookable   *)
(* functions fnA, fnB; user a page of the client that sends the commands  *)
(* and reads kern; s1 and s2 are heap pages, img the first page of the     *)
(* hypervisor image, stk the page of a host stack.                         *)
(***************************************************************************)
EXTENDS EptHooks, TLC

CONSTANTS kern, kern2, user, s1, s2, s3, img, stk, dum, \* frames
          Kernel, User, Hyper,                           \* 2 MB regions
          fnA, fnB, fnC, ld, ld2, en, en_g, en_h, di, vc, bad  \* code locations

MCFrames == {kern, user, s1, s2, img, stk, dum}
MCLargePages == {Kernel, User, Hyper}
MCLargeOf == [x \in MCFrames |-> CASE x = kern -> Kernel [] x = user -> User [] OTHER -> Hyper]
MCHeapPages == {s1, s2}
MCRanges == <<<<img, {img}>>, <<stk, {stk}>>>>

Plain(data) == [op |-> "data", data |-> data, fn |-> None]
Command(op, fn) == [op |-> op, data |-> {}, fn |-> fn]

\* The function fnA, and from the client's page: a load from kern, the commands.
MCCode == {fnA, ld, en, di}
MCFunctions == {fnA}
MCPageOf == [l \in MCCode |-> IF l = fnA THEN kern ELSE user]
MCInsn == [l \in MCCode |->
  CASE l = fnA -> Plain({})
    [] l = ld -> Plain({<<kern, "R">>})
    [] l = en -> Command("enable", fnA)
    [] l = di -> Command("disable", fnA)]
MCCacheable == {kern}
MCInstrCount == [l \in MCFunctions |-> 2]

\* One processor, a larger program: fnB shares its page with fnA, fnC is in a page
\* of its own and reads kern, ld2 reads both hooked pages at once, vc is a
\* VMCALL of the guest itself, bad a command for a function nobody exports.
UniFrames == MCFrames \cup {s3, kern2}
UniLargePages == MCLargePages
UniLargeOf == [x \in UniFrames |-> CASE x \in {kern, kern2} -> Kernel [] x = user -> User [] OTHER -> Hyper]
UniHeapPages == {s1, s2, s3}
UniCode == {fnA, fnB, fnC, ld, ld2, en, en_g, en_h, di, vc, bad}
UniFunctions == {fnA, fnB, fnC}
UniPageOf == [l \in UniCode |-> CASE l \in {fnA, fnB} -> kern [] l = fnC -> kern2 [] OTHER -> user]
UniInsn == [l \in UniCode |->
  CASE l \in {fnA, fnB} -> Plain({})
    [] l = fnC -> Plain({<<kern, "R">>})
    [] l = ld -> Plain({<<kern, "W">>})
    [] l = ld2 -> Plain({<<kern, "R">>, <<kern2, "R">>})
    [] l = en -> Command("enable", fnA)
    [] l = en_g -> Command("enable", fnB)
    [] l = en_h -> Command("enable", fnC)
    [] l = di -> Command("disable", fnA)
    [] l = vc -> Command("vmcall", None)
    [] l = bad -> Command("enable", None)]
UniCacheable == {kern, kern2}
UniInstrCount == [l \in UniFunctions |-> IF l = fnA THEN 2 ELSE 1]

Symmetry == Permutations(Cpus) \cup Permutations(MCHeapPages)
=============================================================================
