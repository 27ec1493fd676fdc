--------------------------- MODULE MCGuestMemory ---------------------------
(* A guest with two entries per table and two words per page: the client   *)
(* (tables 1-4), a target with small, 2 MB and 1 GB pages (tables 5-8), and *)
(* a process whose one page has its PAT bit set.                           *)
EXTENDS GuestMemory, TLC

No == [present |-> FALSE, large |-> FALSE, pfn |-> 1]
To(f) == [present |-> TRUE, large |-> FALSE, pfn |-> f]
Large(f) == [present |-> TRUE, large |-> TRUE, pfn |-> f]
Two(a, b) == 0 :> a @@ 1 :> b

\* The 1 GB page of process Other has its PAT bit set.
MCInitTables ==
  1 :> Two(To(2), No) @@ 2 :> Two(To(3), No) @@ 3 :> Two(To(4), No) @@ 4 :> Two(To(12), To(13))
  @@ 5 :> Two(To(6), No) @@ 6 :> Two(To(7), Large(16)) @@ 7 :> Two(To(8), Large(14))
  @@ 8 :> Two(To(16), To(18)) @@ 9 :> Two(No, No) @@ 10 :> Two(To(11), No) @@ 11 :> Two(No, Large(17))

MCLeaves == {<<4, 0>>, <<4, 1>>, <<8, 0>>}
MCShadowOf == 17 :> 20
Process(pid, dtb, flink) == [pid |-> pid, dtb |-> dtb, flink |-> flink]
MCInitProcs ==
  "System" :> Process(4, 9, "Client") @@ "Client" :> Process(8, 1, "Other")
  @@ "Other" :> Process(12, 10, "Target") @@ "Target" :> Process(16, 5, "Head")
  @@ "Head" :> Process(None, 9, "System")
MCLevelOf ==
  [f \in 1 .. 11 |-> CASE f \in {1, 5, 9, 10} -> 4 [] f \in {2, 6, 11} -> 3 [] f \in {3, 7} -> 2 [] OTHER -> 1]
MCInitList == <<"System", "Client", "Other", "Target", "Head">>
MCDataFrames == 12 .. 21
MCTableFrames == 1 .. 11
=============================================================================
