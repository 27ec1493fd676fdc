--------------------------- MODULE MCIdentityMap ---------------------------
(***************************************************************************)
(* A machine of 16 large pages of 4 base pages of 2 bytes: 128 bytes.      *)
(***************************************************************************)
EXTENDS IdentityMap

\* Naturally aligned ranges from one base page to half of memory: inside the
\* first large page, equal to large pages, and straddling nothing or all.
MCRanges == {<<0, 8>>, <<2, 2>>, <<4, 4>>, <<8, 8>>, <<12, 4>>, <<16, 16>>, <<0, 32>>, <<64, 64>>}
MCMtrrRegs ==
  {[is_enabled |-> TRUE, base |-> r[1], size |-> r[2], mem_type |-> t] :
     r \in MCRanges, t \in {"UC", "WC", "WT", "WB"}}
  \cup {[is_enabled |-> FALSE, base |-> 16, size |-> 16, mem_type |-> "UC"]}

\* The lower half of the first large page has fixed ranges: on and uncacheable
\* at one page, as for video memory, or off; the default type is either.
MCFixed == [k \in 0..1 |-> IF k = 1 THEN "UC" ELSE "WB"]
MCUnreadMtrrs ==
  {[enabled |-> TRUE, fixed_enabled |-> f, def_type |-> t, fixed |-> MCFixed] :
     f \in BOOLEAN, t \in {"UC", "WB"}}
  \cup {[enabled |-> FALSE, fixed_enabled |-> FALSE, def_type |-> "WB", fixed |-> MCFixed]}
=============================================================================
