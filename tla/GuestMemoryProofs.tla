------------------------ MODULE GuestMemoryProofs ------------------------
(***************************************************************************)
(* Proofs about the memory commands, for every guest: any page tables that *)
(* are well formed, any list of processes, and any number of commands and  *)
(* of steps of the rest of the guest.                                      *)
(***************************************************************************)
EXTENDS GuestMemory, TLAPS

(***************************************************************************)
(* Words, frames and sizes.                                                *)
(***************************************************************************)
LEMMA Sizes ==
  /\ PageWords \in Nat \ {0} /\ LargePage \in Nat \ {0} /\ HugePage \in Nat \ {0}
  /\ HugePage * Entries \in Nat \ {0}
<1>1. LargePage \in Nat \ {0}
  BY SizesAssumption DEF LargePage
<1>2. HugePage \in Nat \ {0}
  BY SizesAssumption, <1>1 DEF HugePage
<1> QED BY SizesAssumption, <1>1, <1>2

LEMMA SizeOfLevel == \A level \in 1 .. 3 : SizeOf(level) \in Nat \ {0}
BY Sizes DEF SizeOf

LEMMA LongestBuffer ==
  MaxLength \in Lengths /\ MaxLength \in Nat \ {0} /\ \A m \in Lengths : m <= MaxLength
<1>1. \E n \in Lengths : \A m \in Lengths : m <= n
  BY SizesAssumption
<1>2. MaxLength \in Lengths /\ \A m \in Lengths : m <= MaxLength
  BY <1>1 DEF MaxLength
<1> QED BY <1>2, SizesAssumption

\* An address is its frame and its offset, and these are unique.
LEMMA FrameOffset ==
  ASSUME NEW a \in Nat
  PROVE  /\ Frame(a) \in Nat /\ a % PageWords \in 0 .. PageWords - 1
         /\ a = Frame(a) * PageWords + (a % PageWords)
BY Sizes DEF Frame

LEMMA FrameOf ==
  ASSUME NEW f \in Nat, NEW x \in 0 .. PageWords - 1
  PROVE  /\ f * PageWords + x \in Nat
         /\ Frame(f * PageWords + x) = f /\ (f * PageWords + x) % PageWords = x
BY Sizes DEF Frame

LEMMA WordInFrame ==
  ASSUME NEW f \in Nat, NEW w \in WordsOf(f)
  PROVE  w \in Nat /\ Frame(w) = f
<1> DEFINE x == w - f * PageWords
<1>1. f * PageWords \in Nat
  BY Sizes
<1>2. x \in 0 .. PageWords - 1 /\ w = f * PageWords + x
  BY Sizes, <1>1 DEF WordsOf
<1> HIDE DEF x
<1> QED BY <1>2, FrameOf

LEMMA WordFrame ==
  ASSUME NEW w \in Words
  PROVE  w \in Nat /\ Frame(w) \in DataFrames
<1>1. PICK f \in DataFrames : w \in WordsOf(f)
  BY DEF Words
<1>2. f \in Nat
  BY FramesAssumption
<1> QED BY <1>1, <1>2, WordInFrame

LEMMA WordOfFrame ==
  ASSUME NEW f \in DataFrames, NEW x \in 0 .. PageWords - 1
  PROVE  f * PageWords + x \in WordsOf(f) /\ f * PageWords + x \in Words
<1>1. f \in Nat
  BY FramesAssumption
<1>2. f * PageWords \in Nat
  BY <1>1, Sizes
<1>3. f * PageWords + x \in WordsOf(f)
  BY <1>2, Sizes DEF WordsOf
<1> QED BY <1>3 DEF Words

LEMMA RoomyWord ==
  ASSUME NEW w \in Roomy
  PROVE  w \in Words /\ w \in Nat /\ Frame(w) \in DataFrames /\ \A n \in 0 .. MaxLength : w + n \in Words
BY WordFrame DEF Roomy

LEMMA NoneIsNoWord == None \notin Words /\ None \notin Roomy
BY FramesAssumption, WordFrame, RoomyWord

(***************************************************************************)
(* The walk.                                                               *)
(***************************************************************************)
LEMMA IndexType == ASSUME NEW va \in Nat, NEW level \in 1 .. 4 PROVE Index(va, level) \in 0 .. Entries - 1
<1>1. \A n \in Nat \ {0} : (va \div n) % Entries \in 0 .. Entries - 1
  BY SizesAssumption
<1>2. level = 1 \/ level = 2 \/ level = 3 \/ level = 4
  OBVIOUS
<1> QED BY <1>1, <1>2, Sizes DEF Index

TableSet == [Tables -> [0 .. Entries - 1 -> PtEntry]]

LEMMA EntryType ==
  ASSUME NEW t \in TableSet, NEW f \in Tables, NEW i \in 0 .. Entries - 1
  PROVE  /\ t[f][i] \in PtEntry /\ t[f][i].present \in BOOLEAN /\ t[f][i].large \in BOOLEAN
         /\ t[f][i].pfn \in Tables \cup DataFrames /\ t[f][i].pfn \in Nat
<1>1. t[f][i] \in PtEntry
  BY DEF TableSet
<1>2. /\ t[f][i].present \in BOOLEAN /\ t[f][i].large \in BOOLEAN
      /\ t[f][i].pfn \in Tables \cup DataFrames
  BY <1>1 DEF PtEntry
<1>3. t[f][i].pfn \in Nat
  BY <1>2, FramesAssumption
<1> QED BY <1>1, <1>2, <1>3

LEMMA Cr3Type == \A cr3 \in Cr3s : cr3 \in Tables /\ LevelOf[cr3] = 4
BY ProcsAssumption, TablesAssumption DEF Cr3s, Eproc

LEMMA ClientCr3Type == ClientCr3 \in Cr3s
BY ProcsAssumption DEF ClientCr3, Cr3s

LEMMA Fits ==
  ASSUME NEW e \in PtEntry
  PROVE  /\ EntryFits(4, e) <=> e.pfn \in Tables /\ LevelOf[e.pfn] = 3
         /\ e.large => (EntryFits(3, e) <=> \A x \in 0 .. HugePage - 1 : e.pfn * PageWords + x \in Roomy)
         /\ ~e.large => (EntryFits(3, e) <=> e.pfn \in Tables /\ LevelOf[e.pfn] = 2)
         /\ e.large => (EntryFits(2, e) <=> \A x \in 0 .. LargePage - 1 : e.pfn * PageWords + x \in Roomy)
         /\ ~e.large => (EntryFits(2, e) <=> e.pfn \in Tables /\ LevelOf[e.pfn] = 1)
         /\ EntryFits(1, e) <=> \A x \in 0 .. PageWords - 1 : e.pfn * PageWords + x \in Roomy
<1>1. SizeOf(3) = HugePage /\ SizeOf(2) = LargePage /\ SizeOf(1) = PageWords
  BY DEF SizeOf
<1> QED BY <1>1 DEF EntryFits, PtEntry

\* The entries a walk meets, each in a table of its level.
LEMMA WalkEntries ==
  ASSUME NEW t \in TableSet, WellFormed(t), NEW cr3 \in Cr3s, NEW va \in Nat
  PROVE  LET e4 == t[cr3][Index(va, 4)]
             e3 == t[e4.pfn][Index(va, 3)]
             e2 == t[e3.pfn][Index(va, 2)]
             e1 == t[e2.pfn][Index(va, 1)]
         IN /\ e4.present \in BOOLEAN
            /\ e4.present => /\ e4.pfn \in Tables /\ LevelOf[e4.pfn] = 3
                             /\ e3.present \in BOOLEAN /\ e3.large \in BOOLEAN
                             /\ e3.pfn \in Nat
            /\ e4.present /\ e3.present /\ ~e3.large =>
                 /\ e3.pfn \in Tables /\ LevelOf[e3.pfn] = 2
                 /\ e2.present \in BOOLEAN /\ e2.large \in BOOLEAN /\ e2.pfn \in Nat
            /\ e4.present /\ e3.present /\ ~e3.large /\ e2.present /\ ~e2.large =>
                 /\ e2.pfn \in Tables /\ LevelOf[e2.pfn] = 1
                 /\ e1.present \in BOOLEAN /\ e1.pfn \in Nat
            /\ e4.present /\ e3.present /\ e3.large => e3.pfn * PageWords + (va % HugePage) \in Roomy
            /\ e4.present /\ e3.present /\ ~e3.large /\ e2.present /\ e2.large =>
                 e2.pfn * PageWords + (va % LargePage) \in Roomy
            /\ e4.present /\ e3.present /\ ~e3.large /\ e2.present /\ ~e2.large /\ e1.present =>
                 e1.pfn * PageWords + (va % PageWords) \in Roomy
<1> DEFINE e4 == t[cr3][Index(va, 4)]
           e3 == t[e4.pfn][Index(va, 3)]
           e2 == t[e3.pfn][Index(va, 2)]
           e1 == t[e2.pfn][Index(va, 1)]
<1>0. /\ Index(va, 4) \in 0 .. Entries - 1 /\ Index(va, 3) \in 0 .. Entries - 1
      /\ Index(va, 2) \in 0 .. Entries - 1 /\ Index(va, 1) \in 0 .. Entries - 1
  BY IndexType
<1>1. \A f \in Tables, i \in 0 .. Entries - 1 : t[f][i].present => EntryFits(LevelOf[f], t[f][i])
  BY DEF WellFormed
<1>2. /\ va % HugePage \in 0 .. HugePage - 1 /\ va % LargePage \in 0 .. LargePage - 1
      /\ va % PageWords \in 0 .. PageWords - 1
  BY Sizes
<1>3. cr3 \in Tables /\ LevelOf[cr3] = 4
  BY Cr3Type
<1>4. e4.present \in BOOLEAN
  BY <1>0, <1>3, EntryType
<1>5. ASSUME e4.present
      PROVE  /\ e4.pfn \in Tables /\ LevelOf[e4.pfn] = 3
             /\ e3.present \in BOOLEAN /\ e3.large \in BOOLEAN /\ e3.pfn \in Nat /\ e3 \in PtEntry
  <2>1. EntryFits(4, e4)
    BY <1>0, <1>1, <1>3, <1>5
  <2>2. e4.pfn \in Tables /\ LevelOf[e4.pfn] = 3
    BY <2>1, <1>0, <1>3, EntryType, Fits
  <2> QED BY <2>2, <1>0, EntryType
<1>6. ASSUME e4.present, e3.present
      PROVE  EntryFits(3, e3)
  BY <1>0, <1>1, <1>5, <1>6
<1>7. ASSUME e4.present, e3.present, e3.large
      PROVE  e3.pfn * PageWords + (va % HugePage) \in Roomy
  BY <1>2, <1>5, <1>6, <1>7, Fits
<1>8. ASSUME e4.present, e3.present, ~e3.large
      PROVE  /\ e3.pfn \in Tables /\ LevelOf[e3.pfn] = 2
             /\ e2.present \in BOOLEAN /\ e2.large \in BOOLEAN /\ e2.pfn \in Nat /\ e2 \in PtEntry
  <2>1. e3.pfn \in Tables /\ LevelOf[e3.pfn] = 2
    BY <1>5, <1>6, <1>8, Fits
  <2> QED BY <2>1, <1>0, EntryType
<1>9. ASSUME e4.present, e3.present, ~e3.large, e2.present
      PROVE  EntryFits(2, e2)
  BY <1>0, <1>1, <1>8, <1>9
<1>10. ASSUME e4.present, e3.present, ~e3.large, e2.present, e2.large
       PROVE  e2.pfn * PageWords + (va % LargePage) \in Roomy
  BY <1>2, <1>8, <1>9, <1>10, Fits
<1>11. ASSUME e4.present, e3.present, ~e3.large, e2.present, ~e2.large
       PROVE  /\ e2.pfn \in Tables /\ LevelOf[e2.pfn] = 1
              /\ e1.present \in BOOLEAN /\ e1.pfn \in Nat /\ e1 \in PtEntry
  <2>1. e2.pfn \in Tables /\ LevelOf[e2.pfn] = 1
    BY <1>8, <1>9, <1>11, Fits
  <2> QED BY <2>1, <1>0, EntryType
<1>12. ASSUME e4.present, e3.present, ~e3.large, e2.present, ~e2.large, e1.present
       PROVE  e1.pfn * PageWords + (va % PageWords) \in Roomy
  <2>1. EntryFits(1, e1)
    BY <1>0, <1>1, <1>11, <1>12
  <2> QED BY <2>1, <1>2, <1>11, <1>12, Fits
<1> HIDE DEF e4, e3, e2, e1
<1>13. QED BY <1>4, <1>5, <1>7, <1>8, <1>10, <1>11, <1>12 DEF e4, e3, e2, e1

LEMMA WalkTyped ==
  ASSUME NEW t \in TableSet, WellFormed(t), NEW cr3 \in Cr3s, NEW va \in Nat
  PROVE  Walk(t, cr3, va) \in Roomy \cup {None}
BY WalkEntries DEF Walk

\* The walk keeps the offset into the page, on pages of every size.
LEMMA WalkOffset ==
  ASSUME NEW t \in TableSet, WellFormed(t), NEW cr3 \in Cr3s, NEW va \in Nat, Walk(t, cr3, va) # None
  PROVE  Walk(t, cr3, va) % PageWords = va % PageWords
<1> DEFINE Offset(f, n) == f * PageWords + (va % n)
<1>1. /\ PageWords \in Nat \ {0} /\ Entries \in Nat \ {0}
      /\ LargePage = PageWords * Entries /\ HugePage = PageWords * (Entries * Entries)
  BY SizesAssumption DEF LargePage, HugePage
<1>2. ASSUME NEW f \in Nat, NEW k \in Nat \ {0}
      PROVE  Offset(f, PageWords * k) % PageWords = va % PageWords
  <2> DEFINE n == PageWords * k
             q == va \div n
             r == va % n
  <2>1. n \in Nat \ {0}
    BY <1>1
  <2>2. q \in Nat /\ r \in Nat /\ va = q * n + r
    BY <2>1
  <2> HIDE DEF q, r
  <2>3. q * n = (q * k) * PageWords /\ q * k \in Nat
    BY <1>1, <2>2
  <2> HIDE DEF n
  <2>4. ASSUME NEW a \in Nat, NEW b \in Nat
        PROVE  (a * PageWords + b) % PageWords = b % PageWords
    <3> DEFINE d == Frame(b)
               x == b % PageWords
    <3>1. d \in Nat /\ x \in 0 .. PageWords - 1 /\ b = d * PageWords + x
      BY FrameOffset
    <3> HIDE DEF d, x
    <3>2. a + d \in Nat /\ a * PageWords + b = (a + d) * PageWords + x
      BY <1>1, <3>1
    <3>3. ((a + d) * PageWords + x) % PageWords = x
      BY <3>1, <3>2, FrameOf
    <3> QED BY <3>2, <3>3 DEF x
  <2>5. va % PageWords = r % PageWords
    BY <2>2, <2>3, <2>4
  <2>6. Offset(f, n) % PageWords = r % PageWords
    BY <2>2, <2>4 DEF r
  <2> QED BY <2>5, <2>6 DEF n
<1>3. ASSUME NEW f \in Nat
      PROVE  /\ Offset(f, HugePage) % PageWords = va % PageWords
             /\ Offset(f, LargePage) % PageWords = va % PageWords
             /\ Offset(f, PageWords) % PageWords = va % PageWords
  <2>1. Entries * Entries \in Nat \ {0} /\ PageWords * 1 = PageWords
    BY <1>1
  <2> HIDE DEF Offset
  <2>2. Offset(f, PageWords * 1) % PageWords = va % PageWords
    BY <1>2
  <2> QED BY <1>1, <1>2, <2>1, <2>2
<1>4. \E f \in Nat : Walk(t, cr3, va) \in {Offset(f, HugePage), Offset(f, LargePage), Offset(f, PageWords)}
  BY WalkEntries DEF Walk
<1> QED BY <1>3, <1>4

(***************************************************************************)
(* The processor's walk: the tables it reaches, level by level.            *)
(***************************************************************************)
\* What the processor finds through one leaf, on a page of n words.
LEMMA LeafAddress ==
  ASSUME NEW t, NEW cr3, NEW va \in Nat, NEW f, NEW level \in 1 .. 3,
         LeavesOf(t, cr3, va) = {<<f, level>>},
         t[f][Index(va, level)].pfn \in Nat,
         PatClear(t, cr3, va)
  PROVE  Hardware(t, cr3, va) = {t[f][Index(va, level)].pfn * PageWords + (va % SizeOf(level))}
<1> DEFINE n == SizeOf(level)
           base == t[f][Index(va, level)].pfn * PageWords
<1>1. n \in Nat \ {0} /\ base \in Nat
  BY SizeOfLevel, Sizes
<1>2. base % n = 0
  <2>1. CASE level > 1
    BY <2>1 DEF PatClear
  <2>2. CASE level = 1
    <3>1. n = PageWords
      BY <2>2 DEF SizeOf
    <3>2. (t[f][Index(va, level)].pfn * PageWords + 0) % PageWords = 0
      BY FrameOf, Sizes
    <3> QED BY <1>1, <3>1, <3>2
  <2> QED BY <2>1, <2>2
<1>3. Hardware(t, cr3, va) = {base - (base % n) + (va % n)}
  BY DEF Hardware
<1>4. base - (base % n) + (va % n) = base + (va % n)
  BY <1>1, <1>2
<1> QED BY <1>3, <1>4

LEMMA WalkIsHardware ==
  ASSUME NEW t \in TableSet, WellFormed(t), NEW cr3 \in Cr3s, NEW va \in Nat, PatClear(t, cr3, va)
  PROVE  Hardware(t, cr3, va) = {Walk(t, cr3, va)} \ {None}
<1> DEFINE e4 == t[cr3][Index(va, 4)]
           e3 == t[e4.pfn][Index(va, 3)]
           e2 == t[e3.pfn][Index(va, 2)]
           e1 == t[e2.pfn][Index(va, 1)]
           pdpts == Below(t, {cr3}, va, 4)
           pds == Below(t, pdpts, va, 3)
           pts == Below(t, pds, va, 2)
<1>0. LeavesOf(t, cr3, va) =
        LeavesAt(t, pdpts, va, 3) \cup LeavesAt(t, pds, va, 2) \cup LeavesAt(t, pts, va, 1)
  BY DEF LeavesOf
<1>1. Walk(t, cr3, va) =
        IF ~e4.present \/ ~e3.present THEN None
        ELSE IF e3.large THEN e3.pfn * PageWords + (va % HugePage)
        ELSE IF ~e2.present THEN None
        ELSE IF e2.large THEN e2.pfn * PageWords + (va % LargePage)
        ELSE IF ~e1.present THEN None
        ELSE e1.pfn * PageWords + (va % PageWords)
  BY DEF Walk
<1>2. /\ e4.present => e3.pfn \in Nat
      /\ e4.present /\ e3.present /\ ~e3.large => e2.pfn \in Nat
      /\ e4.present /\ e3.present /\ ~e3.large /\ e2.present /\ ~e2.large => e1.pfn \in Nat
  BY WalkEntries
<1> HIDE DEF e4, e3, e2, e1
<1>3. /\ \A level : Below(t, {}, va, level) = {} /\ LeavesAt(t, {}, va, level) = {}
      /\ e4.present => pdpts = {e4.pfn}
      /\ ~e4.present => pdpts = {}
  BY DEF Below, LeavesAt, e4
<1>4. /\ e3.present /\ ~e3.large => Below(t, {e4.pfn}, va, 3) = {e3.pfn}
      /\ ~e3.present \/ e3.large => Below(t, {e4.pfn}, va, 3) = {}
      /\ e3.present /\ e3.large => LeavesAt(t, {e4.pfn}, va, 3) = {<<e4.pfn, 3>>}
      /\ ~e3.present \/ ~e3.large => LeavesAt(t, {e4.pfn}, va, 3) = {}
  BY DEF Below, LeavesAt, e3
<1>5. /\ e2.present /\ ~e2.large => Below(t, {e3.pfn}, va, 2) = {e2.pfn}
      /\ ~e2.present \/ e2.large => Below(t, {e3.pfn}, va, 2) = {}
      /\ e2.present /\ e2.large => LeavesAt(t, {e3.pfn}, va, 2) = {<<e3.pfn, 2>>}
      /\ ~e2.present \/ ~e2.large => LeavesAt(t, {e3.pfn}, va, 2) = {}
  BY DEF Below, LeavesAt, e2
<1>6. /\ e1.present => LeavesAt(t, {e2.pfn}, va, 1) = {<<e2.pfn, 1>>}
      /\ ~e1.present => LeavesAt(t, {e2.pfn}, va, 1) = {}
  BY DEF Below, LeavesAt, e1
<1>7. SizeOf(3) = HugePage /\ SizeOf(2) = LargePage /\ SizeOf(1) = PageWords
  BY DEF SizeOf
<1>8. /\ LeavesOf(t, cr3, va) = {<<e4.pfn, 3>>} /\ e3.pfn \in Nat =>
           Hardware(t, cr3, va) = {e3.pfn * PageWords + (va % HugePage)}
      /\ LeavesOf(t, cr3, va) = {<<e3.pfn, 2>>} /\ e2.pfn \in Nat =>
           Hardware(t, cr3, va) = {e2.pfn * PageWords + (va % LargePage)}
      /\ LeavesOf(t, cr3, va) = {<<e2.pfn, 1>>} /\ e1.pfn \in Nat =>
           Hardware(t, cr3, va) = {e1.pfn * PageWords + (va % PageWords)}
  <2>1. ASSUME NEW f, NEW level \in 1 .. 3
        PROVE  LeavesOf(t, cr3, va) = {<<f, level>>} /\ t[f][Index(va, level)].pfn \in Nat =>
               Hardware(t, cr3, va) = {t[f][Index(va, level)].pfn * PageWords + (va % SizeOf(level))}
    BY LeafAddress
  <2>2. LeavesOf(t, cr3, va) = {<<e4.pfn, 3>>} /\ e3.pfn \in Nat =>
           Hardware(t, cr3, va) = {e3.pfn * PageWords + (va % SizeOf(3))}
    BY <2>1 DEF e3
  <2>3. LeavesOf(t, cr3, va) = {<<e3.pfn, 2>>} /\ e2.pfn \in Nat =>
           Hardware(t, cr3, va) = {e2.pfn * PageWords + (va % SizeOf(2))}
    BY <2>1 DEF e2
  <2>4. LeavesOf(t, cr3, va) = {<<e2.pfn, 1>>} /\ e1.pfn \in Nat =>
           Hardware(t, cr3, va) = {e1.pfn * PageWords + (va % SizeOf(1))}
    BY <2>1 DEF e1
  <2> QED BY <1>7, <2>2, <2>3, <2>4
<1>9. LeavesOf(t, cr3, va) = {} => Hardware(t, cr3, va) = {}
  BY DEF Hardware
<1>10. Walk(t, cr3, va) \in Roomy \cup {None} /\ \A n \in Nat, x \in Nat : n * PageWords + x # None
  <2>1. \A n \in Nat, x \in Nat : n * PageWords + x \in Nat
    BY Sizes
  <2> QED BY <2>1, WalkTyped, FramesAssumption
<1>11. va % HugePage \in Nat /\ va % LargePage \in Nat /\ va % PageWords \in Nat
  BY Sizes
<1>12. CASE ~e4.present \/ ~e3.present
  <2>1. pds = {} /\ LeavesAt(t, pdpts, va, 3) = {}
    BY <1>3, <1>4, <1>12
  <2>2. LeavesOf(t, cr3, va) = {}
    BY <1>0, <1>3, <2>1
  <2> QED BY <1>9, <1>1, <1>12, <2>2
<1>13. CASE e4.present /\ e3.present /\ e3.large
  <2>1. pds = {} /\ LeavesAt(t, pdpts, va, 3) = {<<e4.pfn, 3>>}
    BY <1>3, <1>4, <1>13
  <2>2. LeavesOf(t, cr3, va) = {<<e4.pfn, 3>>}
    BY <1>0, <1>3, <2>1
  <2>3. Walk(t, cr3, va) = e3.pfn * PageWords + (va % HugePage)
    BY <1>1, <1>13
  <2> QED BY <1>8, <1>2, <1>10, <1>11, <1>13, <2>2, <2>3
<1>14. CASE e4.present /\ e3.present /\ ~e3.large
  <2>0. pds = {e3.pfn} /\ LeavesAt(t, pdpts, va, 3) = {}
    BY <1>3, <1>4, <1>14
  <2>1. CASE ~e2.present
    <3>1. pts = {} /\ LeavesAt(t, pds, va, 2) = {}
      BY <1>5, <2>0, <2>1
    <3>2. LeavesOf(t, cr3, va) = {}
      BY <1>0, <1>3, <2>0, <3>1
    <3> QED BY <1>9, <1>1, <1>14, <2>1, <3>2
  <2>2. CASE e2.present /\ e2.large
    <3>1. pts = {} /\ LeavesAt(t, pds, va, 2) = {<<e3.pfn, 2>>}
      BY <1>5, <2>0, <2>2
    <3>2. LeavesOf(t, cr3, va) = {<<e3.pfn, 2>>}
      BY <1>0, <1>3, <2>0, <3>1
    <3>3. Walk(t, cr3, va) = e2.pfn * PageWords + (va % LargePage)
      BY <1>1, <1>14, <2>2
    <3> QED BY <1>8, <1>2, <1>10, <1>11, <1>14, <3>2, <3>3
  <2>3. CASE e2.present /\ ~e2.large
    <3>1. pts = {e2.pfn} /\ LeavesAt(t, pds, va, 2) = {}
      BY <1>5, <2>0, <2>3
    <3>2. CASE ~e1.present
      <4>1. LeavesOf(t, cr3, va) = {}
        BY <1>0, <1>6, <2>0, <3>1, <3>2
      <4> QED BY <1>9, <1>1, <1>14, <2>3, <3>2, <4>1
    <3>3. CASE e1.present
      <4>1. LeavesOf(t, cr3, va) = {<<e2.pfn, 1>>}
        BY <1>0, <1>6, <2>0, <3>1, <3>3
      <4>2. Walk(t, cr3, va) = e1.pfn * PageWords + (va % PageWords)
        BY <1>1, <1>14, <2>3, <3>3
      <4> QED BY <1>8, <1>2, <1>10, <1>11, <1>14, <2>3, <4>1, <4>2
    <3> QED BY <3>2, <3>3
  <2> QED BY <2>1, <2>2, <2>3
<1> QED BY <1>12, <1>13, <1>14

\* The tables t and u differ at most in entry i of table f.
SameBut(t, u, f, i) == \A g \in Tables, j \in 0 .. Entries - 1 : g # f \/ j # i => u[g][j] = t[g][j]

\* An entry of a page table changes: a walk either stays the same or ended
\* there before and ends there now.
LEMMA LeafChange ==
  ASSUME NEW t \in TableSet, WellFormed(t), NEW u \in TableSet,
         NEW f \in Tables, LevelOf[f] = 1, NEW i \in 0 .. Entries - 1, SameBut(t, u, f, i),
         NEW cr3 \in Cr3s, NEW va \in Nat
  PROVE  /\ u[cr3][Index(va, 4)] = t[cr3][Index(va, 4)]
         /\ \/ Walk(u, cr3, va) = Walk(t, cr3, va)
            \/ /\ Walk(t, cr3, va) \in {None, t[f][i].pfn * PageWords + (va % PageWords)}
               /\ Walk(u, cr3, va) \in {None, u[f][i].pfn * PageWords + (va % PageWords)}
<1> DEFINE e4 == t[cr3][Index(va, 4)]
           e3 == t[e4.pfn][Index(va, 3)]
           e2 == t[e3.pfn][Index(va, 2)]
           e1 == t[e2.pfn][Index(va, 1)]
           u1 == u[e2.pfn][Index(va, 1)]
<1>0. /\ Index(va, 4) \in 0 .. Entries - 1 /\ Index(va, 3) \in 0 .. Entries - 1
      /\ Index(va, 2) \in 0 .. Entries - 1 /\ Index(va, 1) \in 0 .. Entries - 1
  BY IndexType
<1>1. cr3 \in Tables /\ LevelOf[cr3] = 4
  BY Cr3Type
<1>e. /\ e4.present => e4.pfn \in Tables /\ LevelOf[e4.pfn] = 3
      /\ e4.present /\ e3.present /\ ~e3.large => e3.pfn \in Tables /\ LevelOf[e3.pfn] = 2
      /\ e4.present /\ e3.present /\ ~e3.large /\ e2.present /\ ~e2.large =>
           e2.pfn \in Tables /\ LevelOf[e2.pfn] = 1
  BY WalkEntries
<1>s. \A g \in Tables, j \in 0 .. Entries - 1 : LevelOf[g] \in {2, 3, 4} => u[g][j] = t[g][j]
  BY DEF SameBut
<1>t. \A g \in Tables, j \in 0 .. Entries - 1 : u[g][j] = t[g][j] \/ (g = f /\ j = i)
  BY DEF SameBut
<1>2. u[cr3][Index(va, 4)] = e4
  BY <1>0, <1>1, <1>s
<1>3. e4.present => u[e4.pfn][Index(va, 3)] = e3
  BY ONLY <1>0, <1>e, <1>s
<1>4. e4.present /\ e3.present /\ ~e3.large => u[e3.pfn][Index(va, 2)] = e2
  BY ONLY <1>0, <1>e, <1>s
<1>5. e4.present /\ e3.present /\ ~e3.large /\ e2.present /\ ~e2.large =>
        u1 = e1 \/ (e2.pfn = f /\ Index(va, 1) = i)
  BY ONLY <1>0, <1>e, <1>t
<1>6. CASE ~(e4.present /\ e3.present /\ ~e3.large /\ e2.present /\ ~e2.large)
  BY <1>2, <1>3, <1>4, <1>6 DEF Walk
<1>7. CASE e4.present /\ e3.present /\ ~e3.large /\ e2.present /\ ~e2.large
  <2>1. Walk(t, cr3, va) = IF ~e1.present THEN None ELSE e1.pfn * PageWords + (va % PageWords)
    BY <1>7 DEF Walk
  <2>2. Walk(u, cr3, va) = IF ~u1.present THEN None ELSE u1.pfn * PageWords + (va % PageWords)
    BY <1>2, <1>3, <1>4, <1>7 DEF Walk
  <2>3. u1 = e1 \/ (e1 = t[f][i] /\ u1 = u[f][i])
    BY <1>5, <1>7
  <2> HIDE DEF e1, u1
  <2> QED BY <1>2, <2>1, <2>2, <2>3
<1> QED BY <1>6, <1>7

\* An entry of a PML4 becomes present or absent: only walks that start there
\* can see it.
LEMMA RootChange ==
  ASSUME NEW t \in TableSet, WellFormed(t), NEW u \in TableSet,
         NEW f \in Tables, LevelOf[f] = 4, NEW i \in 0 .. Entries - 1, SameBut(t, u, f, i),
         u[f][i].pfn = t[f][i].pfn,
         NEW cr3 \in Cr3s, NEW va \in Nat,
         cr3 # f \/ Index(va, 4) # i \/ (u[f][i].present /\ t[f][i].present)
  PROVE  /\ u[cr3][Index(va, 4)].present <=> t[cr3][Index(va, 4)].present
         /\ Walk(u, cr3, va) = Walk(t, cr3, va)
<1> DEFINE e4 == t[cr3][Index(va, 4)]
           u4 == u[cr3][Index(va, 4)]
           e3 == t[e4.pfn][Index(va, 3)]
           e2 == t[e3.pfn][Index(va, 2)]
           e1 == t[e2.pfn][Index(va, 1)]
           u3 == u[u4.pfn][Index(va, 3)]
           u2 == u[u3.pfn][Index(va, 2)]
           u1 == u[u2.pfn][Index(va, 1)]
<1>0. /\ Index(va, 4) \in 0 .. Entries - 1 /\ Index(va, 3) \in 0 .. Entries - 1
      /\ Index(va, 2) \in 0 .. Entries - 1 /\ Index(va, 1) \in 0 .. Entries - 1
  BY IndexType
<1>1. cr3 \in Tables /\ LevelOf[cr3] = 4
  BY Cr3Type
<1>e. /\ e4.present => e4.pfn \in Tables /\ LevelOf[e4.pfn] = 3
      /\ e4.present /\ e3.present /\ ~e3.large => e3.pfn \in Tables /\ LevelOf[e3.pfn] = 2
      /\ e4.present /\ e3.present /\ ~e3.large /\ e2.present /\ ~e2.large =>
           e2.pfn \in Tables /\ LevelOf[e2.pfn] = 1
  BY WalkEntries
<1>s. \A g \in Tables, j \in 0 .. Entries - 1 : LevelOf[g] # 4 => u[g][j] = t[g][j]
  BY DEF SameBut
<1>2. u4.pfn = e4.pfn /\ (u4.present <=> e4.present)
  BY <1>0, <1>1 DEF SameBut
<1>d. /\ e3 = t[e4.pfn][Index(va, 3)] /\ u3 = u[u4.pfn][Index(va, 3)]
      /\ e2 = t[e3.pfn][Index(va, 2)] /\ u2 = u[u3.pfn][Index(va, 2)]
      /\ e1 = t[e2.pfn][Index(va, 1)] /\ u1 = u[u2.pfn][Index(va, 1)]
  OBVIOUS
<1>t. Walk(t, cr3, va) =
        IF ~e4.present THEN None
        ELSE IF ~e3.present THEN None
        ELSE IF e3.large THEN e3.pfn * PageWords + (va % HugePage)
        ELSE IF ~e2.present THEN None
        ELSE IF e2.large THEN e2.pfn * PageWords + (va % LargePage)
        ELSE IF ~e1.present THEN None
        ELSE e1.pfn * PageWords + (va % PageWords)
  BY Zenon DEF Walk
<1>u. Walk(u, cr3, va) =
        IF ~u4.present THEN None
        ELSE IF ~u3.present THEN None
        ELSE IF u3.large THEN u3.pfn * PageWords + (va % HugePage)
        ELSE IF ~u2.present THEN None
        ELSE IF u2.large THEN u2.pfn * PageWords + (va % LargePage)
        ELSE IF ~u1.present THEN None
        ELSE u1.pfn * PageWords + (va % PageWords)
  BY Zenon DEF Walk
<1>6. u4.present <=> e4.present
  BY <1>2
<1> HIDE DEF e4, u4, e3, u3, e2, u2, e1, u1
<1>3. ASSUME e4.present PROVE u3 = e3
  <2>1. e4.pfn \in Tables /\ LevelOf[e4.pfn] = 3
    BY <1>3, <1>e
  <2>2. u[e4.pfn][Index(va, 3)] = t[e4.pfn][Index(va, 3)]
    BY ONLY <2>1, <1>0, <1>s
  <2> QED BY ONLY <2>2, <1>2, <1>d
<1>4. ASSUME e4.present, e3.present, ~e3.large PROVE u2 = e2
  <2>1. e3.pfn \in Tables /\ LevelOf[e3.pfn] = 2
    BY <1>4, <1>e
  <2>2. u[e3.pfn][Index(va, 2)] = t[e3.pfn][Index(va, 2)]
    BY ONLY <2>1, <1>0, <1>s
  <2>3. u3 = e3
    BY <1>3, <1>4
  <2> QED BY ONLY <2>2, <2>3, <1>d
<1>5. ASSUME e4.present, e3.present, ~e3.large, e2.present, ~e2.large PROVE u1 = e1
  <2>1. e2.pfn \in Tables /\ LevelOf[e2.pfn] = 1
    BY <1>5, <1>e
  <2>2. u[e2.pfn][Index(va, 1)] = t[e2.pfn][Index(va, 1)]
    BY ONLY <2>1, <1>0, <1>s
  <2>3. u2 = e2
    BY <1>4, <1>5
  <2> QED BY ONLY <2>2, <2>3, <1>d
<1>7. Walk(u, cr3, va) = Walk(t, cr3, va)
  BY ONLY <1>t, <1>u, <1>6, <1>3, <1>4, <1>5
<1> QED BY <1>6, <1>7 DEF e4, u4

(***************************************************************************)
(* MachineInv.                                                             *)
(***************************************************************************)
LEMMA MachineInit == Init => MachineInv
<1> SUFFICES ASSUME Init PROVE MachineInv
  OBVIOUS
<1>1. tables \in [Tables -> [0 .. Entries - 1 -> PtEntry]] /\ WellFormed(tables)
  BY TablesAssumption DEF Init
<1>2. mem \in [Words -> Words \cup Cr3s \cup {0}]
  BY DEF Init
<1>3. ept \in [DataFrames -> DataFrames] /\ \A f \in DataFrames : ept[f] = f
  BY DEF Init
<1>4. eproc \in [Eprocs -> Eproc] /\ \A e \in Eprocs : eproc[e].dtb = InitProcs[e].dtb
  BY ProcsAssumption DEF Init
<1>5. active \in SUBSET (Eprocs \ {ListHead}) /\ {System, Client} \subseteq active
  <2>1. Len(InitList) \in Nat /\ \A i \in 1 .. Len(InitList) : InitList[i] \in Eprocs
    BY ProcsAssumption
  <2>2. \A i \in 1 .. Len(InitList) - 1 : InitList[i] \in Eprocs /\ InitList[i] # ListHead
    BY <2>1, ProcsAssumption
  <2>3. System \in InitActive
    BY <2>1, ProcsAssumption DEF InitActive
  <2> QED BY <2>2, <2>3, ProcsAssumption DEF Init, InitActive
<1>6. CommandOK
  BY LongestBuffer DEF Init, CommandOK, Kinds
<1> QED BY <1>1, <1>2, <1>3, <1>4, <1>5, <1>6, ProcsAssumption DEF Init, MachineInv, Pcs

Locks == {"free", "command", "other", "lost"}

LEMMA FinishType ==
  ASSUME communicator \in BOOLEAN, lock \in Locks, NEW r, Finish(r)
  PROVE  /\ communicator' \in BOOLEAN /\ lock' \in Locks /\ lock' # "command"
         /\ pc' = "idle" /\ status' = r
<1>1. cmd.kind = "open" => communicator' \in BOOLEAN
  BY Zenon DEF Finish
<1>2. cmd.kind # "open" => communicator' \in BOOLEAN
  BY Zenon DEF Finish
<1>3. lock' \in Locks /\ lock' # "command"
  BY DEF Finish, Release, Locks
<1> QED BY <1>1, <1>2, <1>3 DEF Finish

\* Steps of the handler that leave the guest's state alone.
LEMMA MachineHandler ==
  ASSUME MachineInv,
         \/ HandleGuestCommands \/ LockHookManager \/ InitialSystemProcess \/ ReadFails \/ CheckProcessId
         \/ NextProcess \/ ReadDirectoryTableBase \/ TranslateSource \/ TranslateTarget
         \/ CommandSucceeds
  PROVE  MachineInv'
<1>1. UNCHANGED <<guestVars, cmd, touched, ended, reused, rank>>
  BY DEF HandleGuestCommands, LockHookManager, InitialSystemProcess, ReadFails, CheckProcessId, NextProcess,
         ReadDirectoryTableBase, TranslateSource, TranslateTarget, CommandSucceeds,
         transferVars, clientVars, historyVars, guestVars
<1>2. /\ pc' \in Pcs /\ lock' \in Locks /\ (lock' = "command" <=> pc' \in {"export", "pid", "flink"})
      /\ status' \in {"Success", "Failure"} /\ communicator' \in BOOLEAN /\ cur' \in Eprocs
      /\ pc' \in {"lock", "export", "pid", "flink", "dtb"} => cmd.kind = "open"
      /\ pc' = "src" => cmd.kind \in {"read", "write"}
      /\ pc' \in {"dst", "copy"} => cmd.kind # "mismatch"
      /\ pc' = "idle" /\ status' = "Success" => cmd.kind # "mismatch"
  <2>0. /\ cmd.kind \in Kinds /\ communicator \in BOOLEAN /\ status \in {"Success", "Failure"}
        /\ lock \in Locks /\ (lock = "command" <=> pc \in {"export", "pid", "flink"}) /\ cur \in Eprocs
        /\ eproc[cur].flink \in Eprocs /\ System \in Eprocs
        /\ pc \in {"lock", "export", "pid", "flink", "dtb"} => cmd.kind = "open"
        /\ pc = "src" => cmd.kind \in {"read", "write"}
        /\ pc \in {"dst", "copy"} => cmd.kind # "mismatch"
    BY ProcsAssumption DEF MachineInv, CommandOK, Eproc, Locks
  <2>1. CASE HandleGuestCommands
    <3>1. \/ cmd.kind = "open" /\ pc' = "lock" /\ UNCHANGED <<status, lock, communicator>>
          \/ cmd.kind \in {"read", "write"} /\ pc' = "src" /\ UNCHANGED <<status, lock, communicator>>
          \/ pc' = "astray" /\ UNCHANGED <<status, lock, communicator>>
          \/ Finish("Failure")
      BY <2>0, <2>1 DEF HandleGuestCommands, Kinds
    <3>2. pc = "fetch" /\ UNCHANGED cur
      BY <2>1 DEF HandleGuestCommands, transferVars
    <3>3. CASE Finish("Failure")
      <4>1. communicator' \in BOOLEAN /\ lock' \in Locks /\ lock' # "command" /\ pc' = "idle" /\ status' = "Failure"
        BY FinishType, <2>0, <3>3
      <4> QED BY <2>0, <3>2, <4>1 DEF Pcs
    <3>4. CASE cmd.kind = "open" /\ pc' = "lock" /\ UNCHANGED <<status, lock, communicator>>
      BY <2>0, <3>2, <3>4 DEF Pcs
    <3>5. CASE cmd.kind \in {"read", "write"} /\ pc' = "src" /\ UNCHANGED <<status, lock, communicator>>
      BY <2>0, <3>2, <3>5 DEF Pcs
    <3>6. CASE pc' = "astray" /\ UNCHANGED <<status, lock, communicator>>
      BY <2>0, <3>2, <3>6 DEF Pcs
    <3> QED BY <3>1, <3>3, <3>4, <3>5, <3>6
  <2>2. CASE LockHookManager
    BY <2>0, <2>2 DEF LockHookManager, Pcs, Kinds, Locks, transferVars, clientVars
  <2>3. CASE InitialSystemProcess
    BY FinishType, <2>0, <2>3 DEF InitialSystemProcess, Pcs, Kinds
  <2>4. CASE CheckProcessId
    <3>1. /\ \/ pc' = "dtb" /\ Release
             \/ pc' = "flink" /\ UNCHANGED lock
          /\ pc = "pid" /\ UNCHANGED <<cur, communicator, status>>
      BY <2>4 DEF CheckProcessId, transferVars, clientVars
    <3> QED BY <2>0, <3>1 DEF Release, Locks, Pcs
  <2>5. CASE NextProcess
    <3>1. /\ cur' \in Eprocs /\ pc = "flink"
          /\ \/ Finish("Failure")
             \/ pc' = "pid" /\ UNCHANGED <<status, lock, communicator>>
      BY <2>0, <2>5 DEF NextProcess
    <3>2. CASE Finish("Failure")
      <4>1. communicator' \in BOOLEAN /\ lock' \in Locks /\ lock' # "command" /\ pc' = "idle" /\ status' = "Failure"
        BY FinishType, <2>0, <3>2
      <4> QED BY <2>0, <3>1, <4>1 DEF Pcs
    <3>3. CASE pc' = "pid" /\ UNCHANGED <<status, lock, communicator>>
      BY <2>0, <3>1, <3>3 DEF Pcs
    <3> QED BY <3>1, <3>2, <3>3
  <2>6. CASE ReadDirectoryTableBase
    BY <2>0, <2>6 DEF ReadDirectoryTableBase, Pcs, Kinds, clientVars
  <2>7. CASE TranslateSource
    BY FinishType, <2>0, <2>7 DEF TranslateSource, Pcs, Kinds
  <2>8. CASE TranslateTarget
    BY FinishType, <2>0, <2>8 DEF TranslateTarget, Pcs, Kinds
  <2>9. CASE CommandSucceeds
    BY FinishType, <2>0, <2>9 DEF CommandSucceeds, Pcs, Kinds, transferVars
  <2>10. CASE ReadFails
    BY FinishType, <2>0, <2>10 DEF ReadFails, Pcs, Kinds, transferVars
  <2> QED BY <2>1, <2>2, <2>3, <2>4, <2>5, <2>6, <2>7, <2>8, <2>9, <2>10
<1>3. CommandOK'
  BY <1>1, <1>2 DEF MachineInv, CommandOK
<1>4. WellFormed(tables')
  BY <1>1 DEF MachineInv, guestVars
<1>5. strayed' \in BOOLEAN
  <2>1. strayed \in BOOLEAN
    BY DEF MachineInv
  <2>2. strayed' = strayed \/ strayed' = TRUE \/ strayed' = (strayed \/ Stray)
    BY DEF HandleGuestCommands, LockHookManager, InitialSystemProcess, ReadFails, CheckProcessId, NextProcess,
           ReadDirectoryTableBase, TranslateSource, TranslateTarget, CommandSucceeds, historyVars
  <2>3. (strayed \/ Stray) \in BOOLEAN
    BY Zenon
  <2> QED BY <2>1, <2>2, <2>3
<1> QED BY <1>1, <1>2, <1>3, <1>4, <1>5 DEF MachineInv, guestVars, Locks

LEMMA HandleType ==
  ASSUME MachineInv, NEW cr3 \in Cr3s, NEW va \in Nat
  PROVE  Walk(tables, cr3, va) \in Roomy \cup {None}
BY WalkTyped DEF MachineInv, TableSet

LEMMA AddressTypes ==
  /\ CommandVa \in Nat /\ HandleVa \in Nat /\ Addresses \subseteq Nat /\ Buffers \subseteq Nat
BY SizesAssumption

LEMMA MachineClient ==
  ASSUME MachineInv, ClientCommand
  PROVE  MachineInv'
<1> DEFINE C == [kind : Kinds, pid : Pids \cup {None}, cr3 : Words \cup Cr3s \cup {0},
                 va : Addresses \cup {0}, buf : Buffers \cup {HandleVa}, len : 0 .. MaxLength]
<1>1. ASSUME NEW c \in C, Issue(c), mem' \in [Words -> Words \cup Cr3s \cup {0}],
             communicator' \in BOOLEAN,
             c.kind = "open" => c.len = 1 /\ c.buf = HandleVa /\ c.pid \in Pids,
             c.kind \in {"read", "write"} => c.len \in Lengths
      PROVE  MachineInv'
  <2>1. CommandOK'
    BY <1>1 DEF Issue, CommandOK
  <2>2. WellFormed(tables')
    BY <1>1 DEF Issue, MachineInv
  <2> QED BY <1>1, <2>1, <2>2 DEF Issue, MachineInv, Pcs
<1>2. ASSUME NEW pid \in Pids, OpenProcess(pid) PROVE MachineInv'
  <2> DEFINE c == [kind |-> "open", pid |-> pid, cr3 |-> 0, va |-> 0, buf |-> HandleVa, len |-> 1]
  <2>1. c \in C /\ c.len = 1 /\ c.buf = HandleVa /\ c.pid \in Pids /\ c.kind = "open"
    BY LongestBuffer DEF Kinds
  <2>2. Issue(c) /\ communicator' = FALSE
    BY <1>2 DEF OpenProcess
  <2>3. mem' \in [Words -> Words \cup Cr3s \cup {0}]
    <3>1. PICK handle \in Handles : mem' = [mem EXCEPT ![handle] = 0]
      BY <1>2 DEF OpenProcess
    <3> QED BY <3>1 DEF MachineInv
  <2> HIDE DEF c, C
  <2> QED BY <1>1, <2>1, <2>2, <2>3
<1>3. ASSUME NEW kind \in {"read", "write"}, NEW va \in Addresses, NEW buf \in Buffers, NEW len \in Lengths,
             ProcessMemory(kind, va, buf, len)
      PROVE  MachineInv'
  <2>0. PICK handle \in Handles :
          /\ Issue([kind |-> kind, pid |-> None, cr3 |-> mem[handle], va |-> va, buf |-> buf, len |-> len])
          /\ UNCHANGED <<mem, communicator>>
    BY <1>3 DEF ProcessMemory
  <2> DEFINE c == [kind |-> kind, pid |-> None, cr3 |-> mem[handle], va |-> va, buf |-> buf, len |-> len]
  <2>1. mem \in [Words -> Words \cup Cr3s \cup {0}] /\ communicator \in BOOLEAN
    BY DEF MachineInv
  <2>2. handle \in Words
    BY DEF Handles
  <2>3. len \in 0 .. MaxLength
    BY LongestBuffer, SizesAssumption
  <2>4. c \in C /\ c.len \in Lengths /\ c.kind # "open"
    BY <2>1, <2>2, <2>3 DEF Kinds
  <2>5. Issue(c) /\ UNCHANGED <<mem, communicator>>
    BY <2>0
  <2> HIDE DEF c, C
  <2> QED BY <1>1, <2>1, <2>4, <2>5
<1>4. ASSUME MalformedCommand PROVE MachineInv'
  <2> DEFINE c == [kind |-> "mismatch", pid |-> None, cr3 |-> 0, va |-> 0, buf |-> HandleVa, len |-> 0]
  <2>1. c \in C /\ c.kind = "mismatch"
    BY LongestBuffer DEF Kinds
  <2>2. Issue(c) /\ UNCHANGED <<mem, communicator>>
    BY <1>4 DEF MalformedCommand
  <2>3. mem \in [Words -> Words \cup Cr3s \cup {0}] /\ communicator \in BOOLEAN
    BY DEF MachineInv
  <2> HIDE DEF c, C
  <2> QED BY <1>1, <2>1, <2>2, <2>3
<1> QED BY <1>2, <1>3, <1>4 DEF ClientCommand

\* The words a copy has still to move are words of memory.
LEMMA CopyTypes ==
  ASSUME MachineInv, TransferInv, pc = "copy", copied < cmd.len
  PROVE  /\ cmd.len \in 0 .. MaxLength /\ copied \in Nat
         /\ dst \in Roomy /\ \A i \in 0 .. cmd.len : dst + i \in Words
         /\ cmd.kind # "open" => src \in Roomy /\ \A i \in 0 .. cmd.len : src + i \in Words
         /\ cmd.kind = "open" => src \in Cr3s \cup {0}
<1>1. cmd.kind \in {"open", "read", "write"} /\ cmd.len \in 0 .. MaxLength /\ MaxLength \in Nat
  BY LongestBuffer DEF MachineInv, CommandOK, Kinds
<1>2. copied \in 0 .. cmd.len /\ dst \in Roomy
  BY DEF TransferInv, HasTarget
<1>3. cmd.kind # "open" => src \in Roomy
  BY <1>1 DEF TransferInv, HasSource
<1>4. cmd.kind = "open" => src \in Cr3s \cup {0}
  BY DEF TransferInv, HasCr3
<1>5. \A i \in 0 .. cmd.len : i \in 0 .. MaxLength
  BY <1>1
<1> QED BY <1>1, <1>2, <1>3, <1>4, <1>5, RoomyWord

LEMMA MachineCopy ==
  ASSUME MachineInv, TransferInv, CopyWord
  PROVE  MachineInv'
<1>1. mem' \in [Words -> Words \cup Cr3s \cup {0}]
  <2> DEFINE v == IF cmd.kind = "open" THEN src ELSE mem[src + copied]
  <2>1. pc = "copy" /\ copied < cmd.len /\ mem' = [mem EXCEPT ![dst + copied] = v]
    BY DEF CopyWord
  <2>2. mem \in [Words -> Words \cup Cr3s \cup {0}]
    BY DEF MachineInv
  <2>3. v \in Words \cup Cr3s \cup {0}
    <3>1. cmd.len \in Nat /\ copied \in 0 .. cmd.len
      BY <2>1, CopyTypes
    <3> QED BY <2>1, <2>2, <3>1, CopyTypes
  <2> HIDE DEF v
  <2> QED BY <2>1, <2>2, <2>3
<1>2. CommandOK'
  BY DEF CopyWord, MachineInv, CommandOK, clientVars
<1>3. WellFormed(tables')
  BY DEF CopyWord, MachineInv
<1> QED BY <1>1, <1>2, <1>3 DEF CopyWord, MachineInv, clientVars, historyVars

\* An entry that fits its table is stored.
LEMMA EntryUpdate ==
  ASSUME NEW t \in TableSet, WellFormed(t), NEW u, NEW f \in Tables, NEW i \in 0 .. Entries - 1,
         SameBut(t, u, f, i), EntryFits(LevelOf[f], u[f][i])
  PROVE  WellFormed(u)
<1>1. ASSUME NEW g \in Tables, NEW j \in 0 .. Entries - 1, u[g][j].present \/ <<g, j>> \in Changeable
      PROVE  EntryFits(LevelOf[g], u[g][j])
  <2>1. CASE g = f /\ j = i
    BY <1>1, <2>1
  <2>2. CASE g # f \/ j # i
    BY <1>1, <2>2 DEF SameBut, WellFormed
  <2> QED BY <2>1, <2>2
<1> QED BY <1>1 DEF WellFormed

LEMMA LeafEntry ==
  ASSUME NEW t \in TableSet, WellFormed(t), NEW leaf \in Leaves
  PROVE  /\ leaf[1] \in Tables /\ LevelOf[leaf[1]] = 1 /\ leaf[2] \in 0 .. Entries - 1
         /\ t[leaf[1]][leaf[2]] \in PtEntry /\ t[leaf[1]][leaf[2]].pfn \in DataFrames
         /\ EntryFits(1, t[leaf[1]][leaf[2]])
<1>1. /\ leaf[1] \in Tables /\ LevelOf[leaf[1]] = 1 /\ leaf[2] \in 0 .. Entries - 1
      /\ leaf = <<leaf[1], leaf[2]>>
  BY TablesAssumption
<1>2. <<leaf[1], leaf[2]>> \in Changeable
  BY <1>1 DEF Changeable
<1>3. EntryFits(1, t[leaf[1]][leaf[2]])
  BY <1>1, <1>2 DEF WellFormed
<1>4. t[leaf[1]][leaf[2]] \in PtEntry /\ t[leaf[1]][leaf[2]].pfn \in Nat
  BY <1>1, EntryType
<1>5. t[leaf[1]][leaf[2]].pfn * PageWords + 0 \in Roomy
  BY <1>3, <1>4, Fits, Sizes
<1>6. Frame(t[leaf[1]][leaf[2]].pfn * PageWords + 0) = t[leaf[1]][leaf[2]].pfn
  BY <1>4, FrameOf, Sizes
<1> QED BY <1>1, <1>3, <1>4, <1>5, <1>6, RoomyWord

\* A frame all of whose words are roomy fits any page table.
LEMMA SpareFits ==
  ASSUME NEW e \in PtEntry, e.pfn \in SpareFrames
  PROVE  EntryFits(1, e)
<1>1. e.pfn \in DataFrames /\ WordsOf(e.pfn) \subseteq Roomy
  BY FramesAssumption
<1> QED BY <1>1, WordOfFrame, Fits

LEMMA MoveTables ==
  ASSUME MachineInv, NEW leaf \in Leaves, NEW f \in SpareFrames, MovePage(leaf, f)
  PROVE  /\ tables' \in TableSet /\ WellFormed(tables')
         /\ SameBut(tables, tables', leaf[1], leaf[2]) /\ tables'[leaf[1]][leaf[2]].pfn = f
<1> DEFINE e == [tables[leaf[1]][leaf[2]] EXCEPT !.pfn = f]
<1>0. tables \in TableSet /\ WellFormed(tables)
  BY DEF MachineInv, TableSet
<1>1. leaf[1] \in Tables /\ LevelOf[leaf[1]] = 1 /\ leaf[2] \in 0 .. Entries - 1
      /\ tables[leaf[1]][leaf[2]] \in PtEntry
  BY <1>0, LeafEntry
<1>2. e \in PtEntry /\ e.pfn = f
  BY <1>1, FramesAssumption DEF PtEntry
<1>3. EntryFits(LevelOf[leaf[1]], e)
  BY <1>1, <1>2, SpareFits
<1>4. tables' = [tables EXCEPT ![leaf[1]][leaf[2]] = e]
  BY DEF MovePage
<1> HIDE DEF e
<1>5. tables' \in TableSet /\ SameBut(tables, tables', leaf[1], leaf[2]) /\ tables'[leaf[1]][leaf[2]] = e
  BY <1>0, <1>1, <1>2, <1>4 DEF TableSet, SameBut
<1> QED BY <1>0, <1>1, <1>2, <1>3, <1>5, EntryUpdate

LEMMA PageTables ==
  ASSUME MachineInv, NEW leaf \in Leaves, PageOutOrIn(leaf)
  PROVE  /\ tables' \in TableSet /\ WellFormed(tables')
         /\ SameBut(tables, tables', leaf[1], leaf[2])
         /\ tables'[leaf[1]][leaf[2]].pfn = tables[leaf[1]][leaf[2]].pfn
<1> DEFINE o == tables[leaf[1]][leaf[2]]
           e == [o EXCEPT !.present = ~o.present]
<1>0. tables \in TableSet /\ WellFormed(tables)
  BY DEF MachineInv, TableSet
<1>1. leaf[1] \in Tables /\ LevelOf[leaf[1]] = 1 /\ leaf[2] \in 0 .. Entries - 1
      /\ o \in PtEntry /\ EntryFits(1, o)
  BY <1>0, LeafEntry
<1>2. e \in PtEntry /\ e.pfn = o.pfn
  BY <1>1 DEF PtEntry
<1>3. EntryFits(LevelOf[leaf[1]], e)
  BY <1>1, <1>2, Fits
<1>4. tables' = [tables EXCEPT ![leaf[1]][leaf[2]] = e]
  BY DEF PageOutOrIn
<1> HIDE DEF e
<1>5. tables' \in TableSet /\ SameBut(tables, tables', leaf[1], leaf[2]) /\ tables'[leaf[1]][leaf[2]] = e
  BY <1>0, <1>1, <1>2, <1>4 DEF TableSet, SameBut
<1> QED BY <1>0, <1>1, <1>2, <1>3, <1>5, EntryUpdate

\* A process's PML4 comes into or goes out of use.
LEMMA RootTables ==
  ASSUME MachineInv, NEW x \in Eprocs \ {System, Client, ListHead}, NEW b \in BOOLEAN,
         tables' = [tables EXCEPT ![eproc[x].dtb][0].present = b]
  PROVE  /\ eproc[x].dtb \in Tables /\ LevelOf[eproc[x].dtb] = 4 /\ 0 \in 0 .. Entries - 1
         /\ eproc[x].dtb # ClientCr3
         /\ tables' \in TableSet /\ WellFormed(tables')
         /\ SameBut(tables, tables', eproc[x].dtb, 0)
         /\ tables'[eproc[x].dtb][0].pfn = tables[eproc[x].dtb][0].pfn
         /\ tables'[eproc[x].dtb][0].present = b
<1> DEFINE d == eproc[x].dtb
           o == tables[d][0]
           e == [o EXCEPT !.present = b]
<1>0. tables \in TableSet /\ WellFormed(tables)
  BY DEF MachineInv, TableSet
<1>1. d = InitProcs[x].dtb /\ d \in Cr3s /\ d # ClientCr3
  BY ProcsAssumption DEF MachineInv, Cr3s
<1>2. d \in Tables /\ LevelOf[d] = 4 /\ 0 \in 0 .. Entries - 1
  BY <1>1, Cr3Type, SizesAssumption
<1>3. <<d, 0>> \in Changeable
  BY <1>1 DEF Changeable
<1>4. o \in PtEntry /\ EntryFits(4, o)
  BY <1>0, <1>2, <1>3, EntryType DEF WellFormed
<1>5. e \in PtEntry /\ e.pfn = o.pfn /\ e.present = b
  BY <1>4 DEF PtEntry
<1>6. EntryFits(LevelOf[d], e)
  BY <1>2, <1>4, <1>5, Fits
<1>7. tables' = [tables EXCEPT ![d][0] = e]
  OBVIOUS
<1> HIDE DEF d, e
<1>8. tables' \in TableSet /\ SameBut(tables, tables', d, 0) /\ tables'[d][0] = e
  BY ONLY <1>0, <1>2, <1>5, <1>7 DEF TableSet, SameBut
<1>9. WellFormed(tables')
  BY <1>0, <1>2, <1>6, <1>8, EntryUpdate
<1> QED BY <1>1, <1>2, <1>5, <1>8, <1>9 DEF d

LEMMA TouchedGrows ==
  ASSUME MachineInv, NEW F, F \subseteq DataFrames, GuestStep(F)
  PROVE  /\ touched' \in SUBSET DataFrames /\ touched \subseteq touched'
         /\ \A f \in F : f \in touched' /\ ept[f] \in touched'
         /\ UNCHANGED <<transferVars, clientVars, kernel, lock, pc, status, wrote, strayed>>
BY DEF GuestStep, MachineInv

\* The part of MachineInv no step of the guest disturbs.
LEMMA MachineRest ==
  ASSUME MachineInv, UNCHANGED <<transferVars, clientVars, kernel, lock, pc, status, wrote, strayed>>
  PROVE  /\ communicator' \in BOOLEAN /\ status' \in {"Success", "Failure"}
         /\ pc' \in Pcs /\ lock' \in {"free", "command", "other", "lost"}
         /\ (lock' = "command" <=> pc' \in {"export", "pid", "flink"})
         /\ cur' \in Eprocs /\ strayed' \in BOOLEAN /\ CommandOK'
<1>1. CommandOK'
  BY DEF MachineInv, CommandOK, clientVars
<1> QED BY <1>1 DEF MachineInv, clientVars, transferVars

LEMMA MachineGuest ==
  ASSUME MachineInv, Guest
  PROVE  MachineInv'
<1>1. ASSUME NEW leaf \in Leaves, NEW f \in SpareFrames, MovePage(leaf, f) PROVE MachineInv'
  <2> DEFINE old == tables[leaf[1]][leaf[2]].pfn
  <2>1. tables' \in [Tables -> [0 .. Entries - 1 -> PtEntry]] /\ WellFormed(tables')
    BY <1>1, MoveTables DEF TableSet
  <2>2. old \in DataFrames /\ f \in DataFrames
    BY LeafEntry, FramesAssumption DEF MachineInv, TableSet
  <2>3. \A w \in Words : old * PageWords + (w % PageWords) \in Words
    BY <2>2, WordFrame, FrameOffset, WordOfFrame
  <2>4. mem' \in [Words -> Words \cup Cr3s \cup {0}]
    <3>1. mem \in [Words -> Words \cup Cr3s \cup {0}]
      BY DEF MachineInv
    <3>2. mem' = [w \in Words |-> IF Frame(w) = f THEN mem[old * PageWords + (w % PageWords)] ELSE mem[w]]
      BY <1>1 DEF MovePage
    <3> QED BY <2>3, <3>1, <3>2
  <2>5. GuestStep({old, f}) /\ UNCHANGED <<ept, eproc, active, ended, reused, rank>>
    BY <1>1 DEF MovePage
  <2>6. /\ touched' \in SUBSET DataFrames
        /\ UNCHANGED <<transferVars, clientVars, kernel, lock, pc, status, wrote, strayed>>
    BY <2>2, <2>5, TouchedGrows
  <2> QED BY <2>1, <2>4, <2>5, <2>6, MachineRest DEF MachineInv
<1>2. ASSUME NEW leaf \in Leaves, PageOutOrIn(leaf) PROVE MachineInv'
  <2>1. tables' \in [Tables -> [0 .. Entries - 1 -> PtEntry]] /\ WellFormed(tables')
    BY <1>2, PageTables DEF TableSet
  <2>2. tables[leaf[1]][leaf[2]].pfn \in DataFrames
    BY LeafEntry DEF MachineInv, TableSet
  <2>3. GuestStep({tables[leaf[1]][leaf[2]].pfn}) /\ UNCHANGED <<mem, ept, eproc, active, ended, reused, rank>>
    BY <1>2 DEF PageOutOrIn
  <2>4. /\ touched' \in SUBSET DataFrames
        /\ UNCHANGED <<transferVars, clientVars, kernel, lock, pc, status, wrote, strayed>>
    BY <2>2, <2>3, TouchedGrows
  <2> QED BY <2>1, <2>3, <2>4, MachineRest DEF MachineInv
<1>3. ASSUME NEW w \in StoreWords, GuestStore(w) PROVE MachineInv'
  <2>1. GuestStep({Frame(w)}) /\ UNCHANGED <<tables, ept, eproc, active, ended, reused, rank>>
    BY <1>3 DEF GuestStore
  <2>2. Frame(w) \in DataFrames
    BY WordFrame, FramesAssumption
  <2>3. /\ touched' \in SUBSET DataFrames
        /\ UNCHANGED <<transferVars, clientVars, kernel, lock, pc, status, wrote, strayed>>
    BY <2>1, <2>2, TouchedGrows
  <2>4. mem' \in [Words -> Words \cup Cr3s \cup {0}]
    BY <1>3 DEF GuestStore, MachineInv
  <2>5. WellFormed(tables')
    BY <2>1 DEF MachineInv
  <2> QED BY <2>1, <2>3, <2>4, <2>5, MachineRest DEF MachineInv
<1>4. ASSUME NEW f \in HookFrames, SwapHookedPage(f) PROVE MachineInv'
  <2>1. GuestStep({f, ShadowOf[f]}) /\ UNCHANGED <<tables, mem, eproc, active, ended, reused, rank>>
    BY <1>4 DEF SwapHookedPage
  <2>2. f \in DataFrames /\ ShadowOf[f] \in DataFrames
    BY FramesAssumption
  <2>3. /\ touched' \in SUBSET DataFrames
        /\ UNCHANGED <<transferVars, clientVars, kernel, lock, pc, status, wrote, strayed>>
    BY <2>1, <2>2, TouchedGrows
  <2>4. /\ ept' \in [DataFrames -> DataFrames]
        /\ \A g \in DataFrames : ept'[g] = g \/ (g \in HookFrames /\ ept'[g] = ShadowOf[g])
    BY <1>4, <2>2 DEF SwapHookedPage, MachineInv
  <2>5. WellFormed(tables')
    BY <2>1 DEF MachineInv
  <2> QED BY <2>1, <2>3, <2>4, <2>5, MachineRest DEF MachineInv
<1>5. ASSUME NEW e \in Eprocs, EndProcess(e) PROVE MachineInv'
  <2>1. e \in Eprocs \ {System, Client, ListHead}
    BY <1>5 DEF EndProcess, MachineInv
  <2>2. tables' \in [Tables -> [0 .. Entries - 1 -> PtEntry]] /\ WellFormed(tables')
    BY <1>5, <2>1, RootTables DEF EndProcess, TableSet
  <2>3. GuestStep({}) /\ UNCHANGED <<mem, ept, reused, rank>>
    BY <1>5 DEF EndProcess
  <2>4. /\ touched' \in SUBSET DataFrames
        /\ UNCHANGED <<transferVars, clientVars, kernel, lock, pc, status, wrote, strayed>>
    BY <2>3, TouchedGrows
  <2>5. eproc' \in [Eprocs -> Eproc] /\ \A x \in Eprocs : eproc'[x].dtb = eproc[x].dtb
    <3>1. eproc \in [Eprocs -> Eproc] /\ eproc[e].flink \in Eprocs
      BY <2>1 DEF MachineInv, Eproc
    <3> QED BY <1>5, <3>1 DEF EndProcess, Eproc
  <2>6. /\ active' \in SUBSET (Eprocs \ {ListHead}) /\ {System, Client} \subseteq active'
        /\ ended' \in SUBSET (Eprocs \ {System, Client, ListHead})
    BY <1>5, <2>1 DEF EndProcess, MachineInv
  <2> QED BY <2>2, <2>3, <2>4, <2>5, <2>6, MachineRest DEF MachineInv
<1>6. ASSUME NEW e \in Eprocs, NEW pid \in Pids, NewProcess(e, pid) PROVE MachineInv'
  <2>1. e \in Eprocs \ {System, Client, ListHead}
    BY <1>6 DEF NewProcess, MachineInv
  <2>2. tables' \in [Tables -> [0 .. Entries - 1 -> PtEntry]] /\ WellFormed(tables')
    BY <1>6, <2>1, RootTables DEF NewProcess, TableSet
  <2>3. GuestStep({}) /\ UNCHANGED <<mem, ept, ended>>
    BY <1>6 DEF NewProcess
  <2>4. /\ touched' \in SUBSET DataFrames
        /\ UNCHANGED <<transferVars, clientVars, kernel, lock, pc, status, wrote, strayed>>
    BY <2>3, TouchedGrows
  <2>5. eproc' \in [Eprocs -> Eproc] /\ \A x \in Eprocs : eproc'[x].dtb = eproc[x].dtb
    <3>1. eproc \in [Eprocs -> Eproc] /\ ListHead \in Eprocs
      BY ProcsAssumption DEF MachineInv
    <3> QED BY <1>6, <3>1 DEF NewProcess, Eproc
  <2>6. active' \in SUBSET (Eprocs \ {ListHead}) /\ {System, Client} \subseteq active'
    BY <1>6, <2>1 DEF NewProcess, MachineInv
  <2>7. reused' \in BOOLEAN
    BY <1>6, Zenon DEF NewProcess
  <2> QED BY <2>2, <2>3, <2>4, <2>5, <2>6, <2>7, MachineRest DEF MachineInv
<1> QED BY <1>1, <1>2, <1>3, <1>4, <1>5, <1>6 DEF Guest

(***************************************************************************)
(* What a step of the guest does to a walk, to the EPT and to memory.      *)
(***************************************************************************)
LEMMA ToHostType ==
  ASSUME MachineInv, NEW gpa \in Roomy
  PROVE  /\ ToHost(gpa) \in Roomy /\ Frame(ToHost(gpa)) = ept[Frame(gpa)]
         /\ ToHost(gpa) % PageWords = gpa % PageWords
<1> DEFINE f == Frame(gpa)
           x == gpa % PageWords
<1>1. f \in DataFrames /\ x \in 0 .. PageWords - 1 /\ gpa = f * PageWords + x
  BY RoomyWord, FrameOffset
<1>2. ept[f] \in DataFrames /\ (ept[f] = f \/ (f \in HookFrames /\ ept[f] = ShadowOf[f]))
  BY <1>1 DEF MachineInv
<1>3. ToHost(gpa) = ept[f] * PageWords + x
  BY DEF ToHost
<1>4. Frame(ToHost(gpa)) = ept[f] /\ ToHost(gpa) % PageWords = x
  BY <1>1, <1>2, <1>3, FrameOf, FramesAssumption
<1>5. CASE ept[f] = f
  BY <1>1, <1>3, <1>4, <1>5
<1>6. CASE f \in HookFrames /\ ept[f] = ShadowOf[f]
  <2>1. WordsOf(ept[f]) \subseteq Roomy
    BY <1>6, FramesAssumption
  <2>2. ept[f] * PageWords + x \in WordsOf(ept[f])
    BY <1>1, <1>2, WordOfFrame
  <2> QED BY <2>1, <2>2, <1>3, <1>4
<1> QED BY <1>2, <1>5, <1>6

\* A walk gives what it gave, or both results lie in touched frames.
Followed(cr3, va) ==
  LET w == Walk(tables, cr3, va)
      v == Walk(tables', cr3, va)
  IN  \/ v = w
      \/ /\ w # None => Frame(w) \in touched' /\ ept[Frame(w)] \in touched'
         /\ v # None => Frame(v) \in touched'

LEMMA LeafFollowed ==
  ASSUME MachineInv, NEW leaf \in Leaves, NEW F, F \subseteq DataFrames, GuestStep(F),
         tables' \in TableSet, WellFormed(tables'), SameBut(tables, tables', leaf[1], leaf[2]),
         tables[leaf[1]][leaf[2]].pfn \in F, tables'[leaf[1]][leaf[2]].pfn \in F,
         NEW cr3 \in Cr3s, NEW va \in Nat
  PROVE  Followed(cr3, va) /\ tables'[cr3][Index(va, 4)] = tables[cr3][Index(va, 4)]
<1> DEFINE old == tables[leaf[1]][leaf[2]].pfn
           new == tables'[leaf[1]][leaf[2]].pfn
           x == va % PageWords
           w == Walk(tables, cr3, va)
           v == Walk(tables', cr3, va)
<1>0. tables \in TableSet /\ WellFormed(tables)
  BY DEF MachineInv, TableSet
<1>1. leaf[1] \in Tables /\ LevelOf[leaf[1]] = 1 /\ leaf[2] \in 0 .. Entries - 1
  BY <1>0, LeafEntry
<1>2. tables'[cr3][Index(va, 4)] = tables[cr3][Index(va, 4)]
  BY <1>0, <1>1, LeafChange
<1>3. v = w \/ (w \in {None, old * PageWords + x} /\ v \in {None, new * PageWords + x})
  BY <1>0, <1>1, LeafChange
<1>4. x \in 0 .. PageWords - 1 /\ old \in Nat /\ new \in Nat
  BY Sizes, FramesAssumption
<1>5. Frame(old * PageWords + x) = old /\ Frame(new * PageWords + x) = new
  BY <1>4, FrameOf
<1>6. old \in touched' /\ ept[old] \in touched' /\ new \in touched'
  BY TouchedGrows
<1> HIDE DEF old, new, w, v, x
<1>7. v = w \/ ((w # None => Frame(w) \in touched' /\ ept[Frame(w)] \in touched')
                 /\ (v # None => Frame(v) \in touched'))
  BY <1>3, <1>5, <1>6
<1> QED BY <1>2, <1>7 DEF Followed, w, v

LEMMA GuestWalk ==
  ASSUME MachineInv, Guest, NEW cr3 \in Cr3s, NEW va \in Nat,
         \/ cr3 = ClientCr3
         \/ (\A e \in ended' : eproc[e].dtb # cr3) /\ tables[cr3][Index(va, 4)].present
  PROVE  /\ Followed(cr3, va)
         /\ tables[cr3][Index(va, 4)].present => tables'[cr3][Index(va, 4)].present
<1>0. tables \in TableSet /\ WellFormed(tables)
  BY DEF MachineInv, TableSet
<1>1. ASSUME NEW leaf \in Leaves, NEW f \in SpareFrames, MovePage(leaf, f)
      PROVE  Followed(cr3, va) /\ tables'[cr3][Index(va, 4)] = tables[cr3][Index(va, 4)]
  <2> DEFINE F == {tables[leaf[1]][leaf[2]].pfn, f}
  <2>1. F \subseteq DataFrames
    BY <1>0, LeafEntry, FramesAssumption
  <2>2. GuestStep(F)
    BY <1>1 DEF MovePage
  <2> QED BY <1>1, <2>1, <2>2, MoveTables, LeafFollowed
<1>2. ASSUME NEW leaf \in Leaves, PageOutOrIn(leaf)
      PROVE  Followed(cr3, va) /\ tables'[cr3][Index(va, 4)] = tables[cr3][Index(va, 4)]
  <2> DEFINE F == {tables[leaf[1]][leaf[2]].pfn}
  <2>1. F \subseteq DataFrames
    BY <1>0, LeafEntry
  <2>2. GuestStep(F)
    BY <1>2 DEF PageOutOrIn
  <2> QED BY <1>2, <2>1, <2>2, PageTables, LeafFollowed
<1>3. ASSUME tables' = tables
      PROVE  Followed(cr3, va) /\ tables'[cr3][Index(va, 4)] = tables[cr3][Index(va, 4)]
  BY <1>3 DEF Followed
<1>4. ASSUME NEW e \in Eprocs, EndProcess(e)
      PROVE  /\ Followed(cr3, va)
             /\ tables'[cr3][Index(va, 4)].present <=> tables[cr3][Index(va, 4)].present
  <2>1. e \in Eprocs \ {System, Client, ListHead} /\ e \in ended'
    BY <1>4 DEF EndProcess, MachineInv
  <2>2. tables' = [tables EXCEPT ![eproc[e].dtb][0].present = FALSE]
    BY <1>4 DEF EndProcess
  <2> DEFINE d == eproc[e].dtb
  <2>3. /\ d \in Tables /\ LevelOf[d] = 4 /\ 0 \in 0 .. Entries - 1
        /\ d # ClientCr3
        /\ tables' \in TableSet /\ SameBut(tables, tables', d, 0)
        /\ tables'[d][0].pfn = tables[d][0].pfn
    BY <2>1, <2>2, RootTables
  <2>4. cr3 # d
    BY <2>1, <2>3
  <2> HIDE DEF d
  <2>5. /\ Walk(tables', cr3, va) = Walk(tables, cr3, va)
        /\ tables'[cr3][Index(va, 4)].present <=> tables[cr3][Index(va, 4)].present
    BY <1>0, <2>3, <2>4, RootChange
  <2> QED BY <2>5 DEF Followed
<1>5. ASSUME NEW e \in Eprocs, NEW pid \in Pids, NewProcess(e, pid)
      PROVE  /\ Followed(cr3, va)
             /\ tables'[cr3][Index(va, 4)].present <=> tables[cr3][Index(va, 4)].present
  <2>1. e \in Eprocs \ {System, Client, ListHead}
    BY <1>5 DEF NewProcess, MachineInv
  <2>2. tables' = [tables EXCEPT ![eproc[e].dtb][0].present = TRUE]
    BY <1>5 DEF NewProcess
  <2> DEFINE d == eproc[e].dtb
  <2>3. /\ d \in Tables /\ LevelOf[d] = 4 /\ 0 \in 0 .. Entries - 1
        /\ d # ClientCr3
        /\ tables' \in TableSet /\ SameBut(tables, tables', d, 0)
        /\ tables'[d][0].pfn = tables[d][0].pfn /\ tables'[d][0].present
    BY <2>1, <2>2, RootTables
  <2>4. cr3 # d \/ Index(va, 4) # 0 \/ (tables'[d][0].present /\ tables[d][0].present)
    BY <2>3
  <2> HIDE DEF d
  <2>5. /\ Walk(tables', cr3, va) = Walk(tables, cr3, va)
        /\ tables'[cr3][Index(va, 4)].present <=> tables[cr3][Index(va, 4)].present
    BY <1>0, <2>3, <2>4, RootChange
  <2> QED BY <2>5 DEF Followed
<1>6. (\/ \E w \in StoreWords : GuestStore(w)
       \/ \E f \in HookFrames : SwapHookedPage(f)) => tables' = tables
  BY DEF GuestStore, SwapHookedPage
<1> QED BY <1>1, <1>2, <1>3, <1>4, <1>5, <1>6 DEF Guest

LEMMA GuestState ==
  ASSUME MachineInv, Guest
  PROVE  /\ touched \subseteq touched' /\ ended \subseteq ended'
         /\ \A e \in Eprocs : eproc'[e].dtb = eproc[e].dtb
         /\ \A f \in DataFrames : ept'[f] = ept[f] \/ (f \in touched' /\ ept[f] \in touched')
         /\ \A w \in Words : mem'[w] = mem[w] \/ Frame(w) \in touched'
         /\ UNCHANGED <<transferVars, clientVars, kernel, lock, pc, status, wrote, strayed>>
<1>0. /\ ept \in [DataFrames -> DataFrames] /\ mem \in [Words -> Words \cup Cr3s \cup {0}]
      /\ tables \in TableSet /\ WellFormed(tables)
  BY DEF MachineInv, TableSet
<1>1. ASSUME NEW leaf \in Leaves, NEW f \in SpareFrames, MovePage(leaf, f)
      PROVE  /\ touched \subseteq touched' /\ UNCHANGED <<ended, ept>>
             /\ \A w \in Words : mem'[w] = mem[w] \/ Frame(w) \in touched'
             /\ UNCHANGED <<transferVars, clientVars, kernel, lock, pc, status, wrote, strayed>>
  <2> DEFINE F == {tables[leaf[1]][leaf[2]].pfn, f}
  <2>1. F \subseteq DataFrames
    BY <1>0, LeafEntry, FramesAssumption
  <2>2. GuestStep(F) /\ UNCHANGED <<ended, ept>>
    BY <1>1 DEF MovePage
  <2>3. \A w \in Words : mem'[w] = mem[w] \/ Frame(w) = f
    BY <1>1 DEF MovePage
  <2> QED BY <2>1, <2>2, <2>3, TouchedGrows
<1>2. ASSUME NEW leaf \in Leaves, PageOutOrIn(leaf)
      PROVE  /\ touched \subseteq touched' /\ UNCHANGED <<ended, ept, mem>>
             /\ UNCHANGED <<transferVars, clientVars, kernel, lock, pc, status, wrote, strayed>>
  <2> DEFINE F == {tables[leaf[1]][leaf[2]].pfn}
  <2>1. F \subseteq DataFrames
    BY <1>0, LeafEntry
  <2>2. GuestStep(F) /\ UNCHANGED <<ended, ept, mem>>
    BY <1>2 DEF PageOutOrIn
  <2> QED BY <2>1, <2>2, TouchedGrows
<1>3. ASSUME NEW w \in StoreWords, GuestStore(w)
      PROVE  /\ touched \subseteq touched' /\ UNCHANGED <<ended, ept>>
             /\ \A v \in Words : mem'[v] = mem[v] \/ Frame(v) \in touched'
             /\ UNCHANGED <<transferVars, clientVars, kernel, lock, pc, status, wrote, strayed>>
  <2>1. {Frame(w)} \subseteq DataFrames
    BY WordFrame, FramesAssumption
  <2>2. GuestStep({Frame(w)}) /\ UNCHANGED <<ended, ept>>
    BY <1>3 DEF GuestStore
  <2>3. \A v \in Words : mem'[v] = mem[v] \/ v = w
    BY <1>0, <1>3 DEF GuestStore
  <2> QED BY <2>1, <2>2, <2>3, TouchedGrows
<1>4. ASSUME NEW f \in HookFrames, SwapHookedPage(f)
      PROVE  /\ touched \subseteq touched' /\ UNCHANGED <<ended, mem>>
             /\ \A g \in DataFrames : ept'[g] = ept[g] \/ (g \in touched' /\ ept[g] \in touched')
             /\ UNCHANGED <<transferVars, clientVars, kernel, lock, pc, status, wrote, strayed>>
  <2>1. {f, ShadowOf[f]} \subseteq DataFrames
    BY FramesAssumption
  <2>2. GuestStep({f, ShadowOf[f]}) /\ UNCHANGED <<ended, mem>>
    BY <1>4 DEF SwapHookedPage
  <2>3. \A g \in DataFrames : ept'[g] = ept[g] \/ g = f
    BY <1>0, <1>4 DEF SwapHookedPage
  <2> QED BY <2>1, <2>2, <2>3, TouchedGrows
<1>5. ASSUME (\E e \in Eprocs : EndProcess(e)) \/ (\E e \in Eprocs, pid \in Pids : NewProcess(e, pid))
      PROVE  /\ touched \subseteq touched' /\ ended \subseteq ended' /\ UNCHANGED <<ept, mem>>
             /\ UNCHANGED <<transferVars, clientVars, kernel, lock, pc, status, wrote, strayed>>
  <2>1. GuestStep({}) /\ ended \subseteq ended' /\ UNCHANGED <<ept, mem>>
    BY <1>5 DEF EndProcess, NewProcess
  <2> QED BY <2>1, TouchedGrows
<1>6. \A e \in Eprocs : eproc'[e].dtb = eproc[e].dtb
  BY MachineGuest DEF MachineInv
<1>7. /\ touched \subseteq touched' /\ ended \subseteq ended'
      /\ \A f \in DataFrames : ept'[f] = ept[f] \/ (f \in touched' /\ ept[f] \in touched')
  BY <1>1, <1>2, <1>3, <1>4, <1>5 DEF Guest
<1>8. /\ \A w \in Words : mem'[w] = mem[w] \/ Frame(w) \in touched'
      /\ UNCHANGED <<transferVars, clientVars, kernel, lock, pc, status, wrote, strayed>>
  BY <1>1, <1>2, <1>3, <1>4, <1>5 DEF Guest
<1> QED BY <1>6, <1>7, <1>8

\* The command's addresses stay tracked whatever the guest does.
LEMMA TracksGuest ==
  ASSUME MachineInv, Guest, NEW h, NEW va \in Nat, NEW cr3, Tracks(h, va, cr3)
  PROVE  Tracks(h, va, cr3)'
<1> SUFFICES ASSUME cr3 \in Cr3s \ Tagged, \A e \in ended' : eproc'[e].dtb # cr3
             PROVE  LET w == Walk(tables', cr3, va)
                    IN  /\ tables'[cr3][Index(va, 4)].present
                        /\ h % PageWords = va % PageWords
                        /\ \/ w # None /\ h = ept'[Frame(w)] * PageWords + (w % PageWords)
                           \/ Frame(h) \in touched' /\ (w # None => Frame(w) \in touched')
  BY DEF Tracks, ToHost
<1> DEFINE w == Walk(tables, cr3, va)
           v == Walk(tables', cr3, va)
<1>1. /\ \A e \in ended' : e \in Eprocs /\ eproc[e].dtb # cr3
      /\ \A e \in ended : e \in Eprocs /\ eproc[e].dtb # cr3
  <2>1. \A e \in ended' : e \in Eprocs
    BY MachineGuest DEF MachineInv
  <2> QED BY <2>1, GuestState
<1>2. /\ tables[cr3][Index(va, 4)].present
      /\ h % PageWords = va % PageWords
      /\ \/ w # None /\ h = ToHost(w)
         \/ Frame(h) \in touched /\ (w # None => Frame(w) \in touched)
  BY <1>1 DEF Tracks
<1>3. Followed(cr3, va) /\ tables'[cr3][Index(va, 4)].present
  BY <1>1, <1>2, GuestWalk
<1>4. w # None => /\ w \in Roomy /\ Frame(w) \in DataFrames
                  /\ Frame(ToHost(w)) = ept[Frame(w)]
                  /\ ToHost(w) = ept[Frame(w)] * PageWords + (w % PageWords)
  BY HandleType, ToHostType, RoomyWord DEF ToHost
<1>5. /\ touched \subseteq touched'
      /\ w # None => \/ ept'[Frame(w)] = ept[Frame(w)]
                     \/ Frame(w) \in touched' /\ ept[Frame(w)] \in touched'
  BY <1>4, GuestState
<1>6. \/ v = w
      \/ /\ w # None => Frame(w) \in touched' /\ ept[Frame(w)] \in touched'
         /\ v # None => Frame(v) \in touched'
  BY <1>3 DEF Followed
<1> HIDE DEF w, v
<1>7. \/ v # None /\ h = ept'[Frame(v)] * PageWords + (v % PageWords)
      \/ Frame(h) \in touched' /\ (v # None => Frame(v) \in touched')
  <2>1. CASE Frame(h) \in touched /\ (w # None => Frame(w) \in touched)
    BY <1>5, <1>6, <2>1
  <2>2. CASE w # None /\ h = ToHost(w)
    BY <1>4, <1>5, <1>6, <2>2
  <2> QED BY <1>2, <2>1, <2>2
<1> QED BY <1>2, <1>3, <1>7 DEF v

(***************************************************************************)
(* TransferInv.                                                            *)
(***************************************************************************)
LEMMA TransferInit == Init => TransferInv
<1> SUFFICES ASSUME Init PROVE TransferInv
  OBVIOUS
<1>1. ~HasSource /\ ~HasTarget /\ ~HasCr3 /\ ~Done
  BY DEF Init, HasSource, HasTarget, HasCr3, Done
<1> QED BY <1>1 DEF Init, TransferInv

LEMMA TransferClient == ASSUME ClientCommand, MachineInv' PROVE TransferInv'
<1>1. /\ pc' = "fetch" /\ src' = None /\ dst' = None /\ copied' = 0 /\ wrote' = {}
  BY DEF ClientCommand, OpenProcess, ProcessMemory, MalformedCommand, Issue
<1>2. ~HasSource' /\ ~HasTarget' /\ ~HasCr3' /\ ~Done'
  BY <1>1 DEF HasSource, HasTarget, HasCr3, Done
<1>3. cmd'.len \in 0 .. MaxLength /\ MaxLength \in Nat
  BY LongestBuffer DEF MachineInv, CommandOK
<1> QED BY <1>1, <1>2, <1>3 DEF TransferInv

\* The addresses a command names.
LEMMA EndpointTypes ==
  ASSUME MachineInv
  PROVE  /\ Origin[1] \in Nat /\ Destination[1] \in Nat
         /\ Origin = SourceOf(cmd) /\ Destination = TargetOf(cmd)
<1>0. cmd.va \in Addresses \cup {0} /\ cmd.buf \in Buffers \cup {HandleVa}
  BY DEF MachineInv, CommandOK
<1>1. cmd.va \in Nat /\ cmd.buf \in Nat
  <2>1. Addresses \cup {0} \subseteq Nat /\ Buffers \cup {HandleVa} \subseteq Nat
    BY AddressTypes
  <2> QED BY <1>0, <2>1
<1> QED BY <1>1 DEF Origin, Destination, SourceOf, TargetOf

LEMMA TransferGuest ==
  ASSUME MachineInv, TransferInv, Guest
  PROVE  TransferInv'
<1>1. UNCHANGED <<cur, src, dst, copied, cmd, pc, status, wrote, strayed>>
  BY GuestState DEF transferVars, clientVars
<1>2. /\ (HasSource' <=> HasSource) /\ (HasTarget' <=> HasTarget)
      /\ (HasCr3' <=> HasCr3) /\ (Done' <=> Done)
      /\ Origin' = Origin /\ Destination' = Destination
  BY <1>1 DEF HasSource, HasTarget, HasCr3, Done, Origin, Destination
<1>3. HasSource => Tracks(src, Origin[1], Origin[2])'
  <2> SUFFICES ASSUME HasSource PROVE Tracks(src, Origin[1], Origin[2])'
    OBVIOUS
  <2>1. Tracks(src, Origin[1], Origin[2]) /\ Origin[1] \in Nat
    BY EndpointTypes DEF TransferInv
  <2> QED BY <1>1, <1>2, <2>1, TracksGuest
<1>4. HasTarget => Tracks(dst, Destination[1], Destination[2])'
  <2> SUFFICES ASSUME HasTarget PROVE Tracks(dst, Destination[1], Destination[2])'
    OBVIOUS
  <2>1. Tracks(dst, Destination[1], Destination[2]) /\ Destination[1] \in Nat
    BY EndpointTypes DEF TransferInv
  <2> QED BY <1>1, <1>2, <2>1, TracksGuest
<1>5. eproc'[cur].dtb = eproc[cur].dtb
  BY GuestState DEF MachineInv
<1>6. touched \subseteq touched' /\ \A w \in Words : mem'[w] = mem[w] \/ Frame(w) \in touched'
  BY GuestState
<1>7. cmd.len \in 0 .. MaxLength /\ MaxLength \in Nat
  BY LongestBuffer DEF MachineInv, CommandOK
<1>8. \A w \in Roomy : \A i \in 0 .. cmd.len - 1 : w + i \in Words
  BY <1>7, RoomyWord
<1>9. HasTarget /\ cmd.kind = "open" =>
       \A i \in 0 .. copied - 1 : Frame(dst + i) \in touched' \/ mem'[dst + i] = src
  BY <1>6, <1>7, <1>8 DEF TransferInv
<1>10. HasTarget /\ HasSource /\ (\A i, j \in 0 .. cmd.len - 1 : dst + i # src + j) =>
       \A i \in 0 .. copied - 1 :
         Frame(dst + i) \in touched' \/ Frame(src + i) \in touched' \/ mem'[dst + i] = mem'[src + i]
  BY <1>6, <1>7, <1>8 DEF TransferInv
<1> QED BY <1>1, <1>2, <1>3, <1>4, <1>5, <1>9, <1>10 DEF TransferInv

LEMMA TracksSame ==
  ASSUME UNCHANGED <<tables, ept, eproc, ended, touched>>, NEW h, NEW va, NEW cr3, Tracks(h, va, cr3)
  PROVE  Tracks(h, va, cr3)'
BY DEF Tracks, ToHost

\* pa_from_va: what is found is tracked.
LEMMA TracksFound ==
  ASSUME MachineInv, NEW va \in Nat, NEW cr3, NEW pa \in PaFromVa(va, cr3), pa # None
  PROVE  pa \in Roomy /\ Tracks(pa, va, cr3)
<1>1. CASE cr3 \in Cr3s \ Tagged
  <2> DEFINE w == Walk(tables, cr3, va)
  <2>1. pa = IF w = None THEN None ELSE ToHost(w)
    BY <1>1 DEF PaFromVa, Translate
  <2>2. w # None /\ pa = ToHost(w)
    BY <2>1
  <2>3. pa \in Roomy
    BY <1>1, <2>2, HandleType, ToHostType
  <2>4. tables[cr3][Index(va, 4)].present
    BY <2>2 DEF Walk
  <2>5. pa % PageWords = va % PageWords
    BY <1>1, <2>2, HandleType, ToHostType, WalkOffset DEF MachineInv, TableSet
  <2> QED BY <2>2, <2>3, <2>4, <2>5 DEF Tracks
<1>2. CASE cr3 \notin Cr3s \ Tagged
  <2>1. PICK gpa \in {None} \cup Roomy : pa = IF gpa = None THEN None ELSE ToHost(gpa)
    BY <1>2 DEF PaFromVa, Translate
  <2>2. gpa \in Roomy /\ pa = ToHost(gpa)
    BY <2>1
  <2>3. pa \in Roomy
    BY <2>2, ToHostType
  <2> QED BY <1>2, <2>3 DEF Tracks
<1> QED BY <1>1, <1>2

\* While a process is looked for nothing is transferred.
LEMMA TransferSearch ==
  ASSUME MachineInv, TransferInv,
         \/ HandleGuestCommands \/ LockHookManager \/ InitialSystemProcess \/ ReadFails \/ CheckProcessId
         \/ NextProcess
  PROVE  TransferInv'
<1>1. /\ pc \in {"fetch", "lock", "export", "pid", "flink", "dtb"}
      /\ UNCHANGED <<src, dst, copied, wrote, cmd>>
  BY DEF HandleGuestCommands, LockHookManager, InitialSystemProcess, ReadFails, CheckProcessId, NextProcess,
         transferVars, clientVars
<1>2. \/ pc' \in {"astray", "lock", "src", "export", "pid", "flink", "dtb"}
      \/ pc' = "idle" /\ status' = "Failure"
  BY DEF HandleGuestCommands, LockHookManager, InitialSystemProcess, ReadFails, CheckProcessId, NextProcess, Finish
<1>3. ~HasSource /\ ~HasTarget /\ ~HasCr3 /\ ~HasSource' /\ ~HasTarget' /\ ~HasCr3' /\ ~Done'
  BY <1>1, <1>2 DEF HasSource, HasTarget, HasCr3, Done
<1>4. copied = 0 /\ copied \in 0 .. cmd.len /\ src \in Roomy \cup Cr3s \cup {0, None}
      /\ dst \in Roomy \cup {None} /\ wrote = {}
  BY <1>1, <1>3 DEF TransferInv
<1> QED BY <1>1, <1>2, <1>3, <1>4 DEF TransferInv

LEMMA TransferDtb ==
  ASSUME MachineInv, TransferInv, ReadDirectoryTableBase
  PROVE  TransferInv'
<1>1. /\ pc = "dtb" /\ pc' = "dst" /\ src' \in Cr3s \cup {0}
      /\ ~strayed' => src' = eproc[cur].dtb
      /\ UNCHANGED <<eproc, cur, dst, copied, wrote, cmd>>
  <2>1. eproc[cur].dtb \in Cr3s
    BY DEF MachineInv, Cr3s
  <2> QED BY <2>1 DEF ReadDirectoryTableBase, clientVars, guestVars
<1>2. cmd.kind = "open"
  BY <1>1 DEF MachineInv, CommandOK
<1>3. ~HasTarget /\ ~HasTarget' /\ ~HasSource' /\ ~Done'
  BY <1>1, <1>2 DEF HasSource, HasTarget, Done
<1>4. copied = 0 /\ copied \in 0 .. cmd.len /\ dst \in Roomy \cup {None} /\ wrote = {}
  BY <1>1, <1>3 DEF TransferInv
<1>5. HasCr3'
  BY <1>1, <1>2 DEF HasCr3
<1> QED BY <1>1, <1>3, <1>4, <1>5 DEF TransferInv

LEMMA TransferSource ==
  ASSUME MachineInv, TransferInv, TranslateSource
  PROVE  TransferInv'
<1>1. pc = "src" /\ UNCHANGED <<tables, ept, eproc, ended, touched, cur, dst, copied, wrote, cmd>>
  BY DEF TranslateSource, guestVars, historyVars
<1>2. cmd.kind \in {"read", "write"}
  BY <1>1 DEF MachineInv, CommandOK
<1>3. \/ pc' = "idle" /\ status' = "Failure" /\ src' = None
      \/ pc' = "dst" /\ src' # None /\ src' \in PaFromVa(SourceOf(cmd)[1], SourceOf(cmd)[2])
  BY DEF TranslateSource, Finish
<1>4. ~HasTarget /\ ~HasTarget' /\ ~HasCr3' /\ ~Done'
  BY <1>1, <1>2, <1>3 DEF HasTarget, HasCr3, Done
<1>5. copied = 0 /\ copied \in 0 .. cmd.len /\ dst \in Roomy \cup {None} /\ wrote = {}
  BY <1>1, <1>4 DEF TransferInv
<1>6. CASE pc' = "idle" /\ status' = "Failure" /\ src' = None
  <2>1. ~HasSource'
    BY <1>6 DEF HasSource, Done
  <2> QED BY <1>1, <1>4, <1>5, <1>6, <2>1 DEF TransferInv
<1>7. CASE pc' = "dst" /\ src' # None /\ src' \in PaFromVa(SourceOf(cmd)[1], SourceOf(cmd)[2])
  <2>1. HasSource' /\ Origin' = Origin
    BY <1>1, <1>2, <1>7 DEF HasSource, Origin
  <2>2. src' \in Roomy /\ Tracks(src', Origin[1], Origin[2])
    BY <1>7, EndpointTypes, TracksFound
  <2>3. Tracks(src, Origin[1], Origin[2])'
    BY <1>1, <2>1, <2>2, TracksSame
  <2> QED BY <1>1, <1>4, <1>5, <1>7, <2>1, <2>2, <2>3 DEF TransferInv
<1> QED BY <1>3, <1>6, <1>7

LEMMA TransferTarget ==
  ASSUME MachineInv, TransferInv, TranslateTarget
  PROVE  TransferInv'
<1>1. pc = "dst" /\ UNCHANGED <<tables, ept, eproc, ended, touched, cur, src, copied, wrote, cmd, strayed>>
  BY DEF TranslateTarget, guestVars, historyVars
<1>2. cmd.kind \in Kinds /\ cmd.kind # "mismatch" /\ (HasSource \/ HasCr3) /\ ~HasTarget
  BY <1>1 DEF MachineInv, CommandOK, HasSource, HasCr3, Kinds, HasTarget, Done
<1>3. \/ pc' = "idle" /\ status' = "Failure" /\ dst' = None
      \/ pc' = "copy" /\ dst' # None /\ dst' \in PaFromVa(TargetOf(cmd)[1], TargetOf(cmd)[2])
  BY DEF TranslateTarget, Finish
<1>4. copied = 0 /\ copied \in 0 .. cmd.len /\ wrote = {}
  BY <1>1, <1>2 DEF TransferInv
<1>5. CASE pc' = "idle" /\ status' = "Failure" /\ dst' = None
  <2>1. ~HasSource' /\ ~HasTarget' /\ ~HasCr3' /\ ~Done'
    BY <1>5 DEF HasSource, HasTarget, HasCr3, Done
  <2>2. src \in Roomy \cup Cr3s \cup {0, None}
    <3>1. HasCr3 => src \in Cr3s \cup {0}
      BY DEF TransferInv
    <3> QED BY <1>2, <3>1 DEF TransferInv
  <2> QED BY <1>1, <1>4, <1>5, <2>1, <2>2 DEF TransferInv
<1>6. CASE pc' = "copy" /\ dst' # None /\ dst' \in PaFromVa(TargetOf(cmd)[1], TargetOf(cmd)[2])
  <2>1. /\ HasTarget' /\ (HasSource' <=> HasSource) /\ (HasCr3' <=> HasCr3) /\ ~Done'
        /\ Origin' = Origin /\ Destination' = Destination
    BY <1>1, <1>6 DEF HasSource, HasTarget, HasCr3, Done, Origin, Destination
  <2>2. dst' \in Roomy /\ Tracks(dst', Destination[1], Destination[2])
    BY <1>6, EndpointTypes, TracksFound
  <2>3. Tracks(dst, Destination[1], Destination[2])'
    BY <1>1, <2>1, <2>2, TracksSame
  <2>4. HasSource => src \in Roomy /\ Tracks(src, Origin[1], Origin[2])'
    BY <1>1, <2>1, TracksSame DEF TransferInv
  <2>5. wrote' = dst' .. dst' + copied' - 1
    BY <1>1, <1>4, <2>2, RoomyWord
  <2>6. \A i \in 0 .. copied' - 1 : FALSE
    BY <1>1, <1>4
  <2>7. HasCr3 => src' \in Cr3s \cup {0} /\ (~strayed' => src' = eproc'[cur'].dtb)
    BY <1>1 DEF TransferInv
  <2> QED BY <1>1, <1>2, <1>4, <1>6, <2>1, <2>2, <2>3, <2>4, <2>5, <2>6, <2>7 DEF TransferInv
<1> QED BY <1>3, <1>5, <1>6

LEMMA TransferSucceeds ==
  ASSUME MachineInv, TransferInv, CommandSucceeds
  PROVE  TransferInv'
<1>1. /\ pc = "copy" /\ copied = cmd.len /\ pc' = "idle" /\ status' = "Success"
      /\ UNCHANGED <<tables, ept, eproc, ended, touched, mem, cur, src, dst, copied, wrote, cmd, strayed>>
  BY DEF CommandSucceeds, Finish, guestVars, historyVars, transferVars
<1>2. /\ HasTarget /\ HasTarget' /\ (HasSource' <=> HasSource) /\ (HasCr3' <=> HasCr3) /\ Done'
      /\ Origin' = Origin /\ Destination' = Destination
  BY <1>1 DEF HasSource, HasTarget, HasCr3, Done, Origin, Destination
<1>3. Tracks(dst, Destination[1], Destination[2])'
  BY <1>1, <1>2, TracksSame DEF TransferInv
<1>4. HasSource => Tracks(src, Origin[1], Origin[2])'
  BY <1>1, <1>2, TracksSame DEF TransferInv
<1> QED BY <1>1, <1>2, <1>3, <1>4 DEF TransferInv

LEMMA TransferCopy ==
  ASSUME MachineInv, TransferInv, CopyWord
  PROVE  TransferInv'
<1> DEFINE value == IF cmd.kind = "open" THEN src ELSE mem[src + copied]
<1>1. /\ pc = "copy" /\ copied < cmd.len /\ copied' = copied + 1
      /\ mem' = [mem EXCEPT ![dst + copied] = value] /\ wrote' = wrote \cup {dst + copied}
      /\ UNCHANGED <<tables, ept, eproc, ended, touched, cur, src, dst, pc, status, cmd, strayed>>
  BY DEF CopyWord, historyVars, clientVars
<1>2. /\ HasTarget /\ HasTarget' /\ (HasSource' <=> HasSource) /\ (HasCr3' <=> HasCr3) /\ ~Done'
      /\ Origin' = Origin /\ Destination' = Destination
      /\ cmd.kind \in {"open", "read", "write"} /\ (HasSource <=> cmd.kind # "open")
  BY <1>1 DEF HasSource, HasTarget, HasCr3, Done, Origin, Destination, MachineInv, CommandOK, Kinds
<1>3. Tracks(dst, Destination[1], Destination[2])'
  BY <1>1, <1>2, TracksSame DEF TransferInv
<1>4. HasSource => Tracks(src, Origin[1], Origin[2])'
  BY <1>1, <1>2, TracksSame DEF TransferInv
<1>5. /\ cmd.len \in Nat /\ copied \in Nat /\ dst \in Nat /\ copied' \in 0 .. cmd.len
      /\ \A i \in 0 .. cmd.len : dst + i \in Words
      /\ cmd.kind # "open" => src \in Nat /\ \A i \in 0 .. cmd.len : src + i \in Words
  BY <1>1, CopyTypes, RoomyWord
<1>6. wrote' = dst' .. dst' + copied' - 1
  <2>1. wrote = dst .. dst + copied - 1
    BY <1>2 DEF TransferInv
  <2> QED BY <1>1, <1>5, <2>1
<1>7. /\ \A w \in Words : w # dst + copied => mem'[w] = mem[w]
      /\ mem'[dst + copied] = value
  BY <1>1, <1>5 DEF MachineInv
<1>8. cmd.kind = "open" =>
        \A i \in 0 .. copied' - 1 : Frame(dst + i) \in touched \/ mem'[dst + i] = src
  <2> SUFFICES ASSUME cmd.kind = "open", NEW i \in 0 .. copied' - 1
               PROVE  Frame(dst + i) \in touched \/ mem'[dst + i] = src
    OBVIOUS
  <2>1. CASE i = copied
    BY <1>7, <2>1
  <2>2. CASE i # copied
    <3>1. i \in 0 .. copied - 1 /\ i \in 0 .. cmd.len /\ dst + i # dst + copied
      BY <1>1, <1>5, <2>2
    <3>2. Frame(dst + i) \in touched \/ mem[dst + i] = src
      BY <1>2, <3>1 DEF TransferInv
    <3> QED BY <1>5, <1>7, <3>1, <3>2
  <2> QED BY <2>1, <2>2
<1>9. cmd.kind # "open" /\ (\A i, j \in 0 .. cmd.len - 1 : dst + i # src + j) =>
        \A i \in 0 .. copied' - 1 :
          Frame(dst + i) \in touched \/ Frame(src + i) \in touched \/ mem'[dst + i] = mem'[src + i]
  <2> SUFFICES ASSUME cmd.kind # "open", \A i, j \in 0 .. cmd.len - 1 : dst + i # src + j,
                      NEW i \in 0 .. copied' - 1
               PROVE  Frame(dst + i) \in touched \/ Frame(src + i) \in touched
                      \/ mem'[dst + i] = mem'[src + i]
    OBVIOUS
  <2>0. copied \in 0 .. cmd.len - 1 /\ i \in 0 .. cmd.len - 1 /\ i \in 0 .. cmd.len
    BY <1>1, <1>5
  <2>1. mem'[src + i] = mem[src + i]
    BY <2>0, <1>5, <1>7
  <2>2. CASE i = copied
    BY <1>7, <2>1, <2>2
  <2>3. CASE i # copied
    <3>1. i \in 0 .. copied - 1 /\ dst + i # dst + copied
      BY <1>1, <1>5, <2>3
    <3>2. Frame(dst + i) \in touched \/ Frame(src + i) \in touched \/ mem[dst + i] = mem[src + i]
      BY <1>2, <3>1 DEF TransferInv
    <3>3. mem'[dst + i] = mem[dst + i]
      BY <1>5, <1>7, <2>0, <3>1
    <3> QED BY <2>1, <3>2, <3>3
  <2> QED BY <2>2, <2>3
<1> HIDE DEF value
<1>10. /\ HasSource => src' \in Roomy
       /\ HasCr3 => src' \in Cr3s \cup {0} /\ (~strayed' => src' = eproc'[cur'].dtb)
       /\ ~HasSource /\ ~HasCr3 => src' \in Roomy \cup Cr3s \cup {0, None}
       /\ dst' \in Roomy /\ pc' = "copy"
  BY <1>1, <1>2 DEF TransferInv
<1> QED BY <1>1, <1>2, <1>3, <1>4, <1>5, <1>6, <1>8, <1>9, <1>10 DEF TransferInv

(***************************************************************************)
(* SearchInv: the list.                                                    *)
(***************************************************************************)
LEMMA ListInit == Init => ListInv
<1> SUFFICES ASSUME Init PROVE ListInv
  OBVIOUS
<1> DEFINE n == Len(InitList)
<1>1. n \in Nat /\ n > 1 /\ \A i \in 1 .. n : InitList[i] \in Eprocs
  BY ProcsAssumption
<1>2. ASSUME NEW i \in 1 .. n PROVE InitRank(InitList[i]) = i
  <2>1. \A j \in 1 .. n : InitList[j] = InitList[i] <=> j = i
    BY ProcsAssumption
  <2> QED BY <2>1 DEF InitRank
<1>3. rank \in [Eprocs -> Nat]
  <2>1. \A e \in Eprocs : InitRank(e) \in Nat
    <3> TAKE e \in Eprocs
    <3>1. CASE \E i \in 1 .. n : InitList[i] = e
      BY <1>1, <1>2, <3>1
    <3>2. CASE ~ \E i \in 1 .. n : InitList[i] = e
      BY <3>2 DEF InitRank
    <3> QED BY <3>1, <3>2
  <2> QED BY <2>1 DEF Init
<1>4. \A i \in 1 .. n : rank[InitList[i]] = i
  BY <1>1, <1>2 DEF Init
<1>5. rank[System] = 1 /\ rank[ListHead] = n
  <2>1. 1 \in 1 .. n /\ n \in 1 .. n /\ InitList[1] = System /\ InitList[n] = ListHead
    BY <1>1, ProcsAssumption
  <2> QED BY <1>4, <2>1
<1>6. ASSUME NEW x \in active
      PROVE  \E i \in 1 .. n - 1 : x = InitList[i] /\ i \in 1 .. n /\ i + 1 \in 1 .. n
                                   /\ eproc[x].flink = InitList[i + 1] /\ rank[x] = i
                                   /\ rank[InitList[i + 1]] = i + 1
  <2>1. PICK i \in 1 .. n - 1 : x = InitList[i]
    BY DEF Init, InitActive
  <2>2. i \in 1 .. n /\ i + 1 \in 1 .. n
    BY <1>1
  <2>3. eproc[x].flink = InitList[i + 1]
    BY <2>1, ProcsAssumption DEF Init
  <2> QED BY <1>4, <2>1, <2>2, <2>3
<1>7. \A i \in 1 .. n - 1 : InitList[i + 1] \in (active \ {System}) \cup {ListHead}
  <2> TAKE i \in 1 .. n - 1
  <2>1. i + 1 \in 2 .. n
    BY <1>1
  <2>2. InitList[i + 1] # System
    BY <1>1, <1>4, <1>5, <2>1
  <2>3. CASE i + 1 = n
    BY <2>3, ProcsAssumption
  <2>4. CASE i + 1 # n
    <3>1. i + 1 \in 1 .. n - 1
      BY <1>1, <2>1, <2>4
    <3> QED BY <2>2, <3>1 DEF Init, InitActive
  <2> QED BY <2>3, <2>4
<1> HIDE DEF n
<1>8. ASSUME NEW x \in active
      PROVE  /\ eproc[x].flink \in (active \ {System}) \cup {ListHead}
             /\ rank[System] <= rank[x] /\ rank[x] < rank[ListHead] /\ rank[x] < rank[eproc[x].flink]
             /\ \A y \in active : rank[x] < rank[y] => rank[eproc[x].flink] <= rank[y]
             /\ \A y \in active : rank[x] = rank[y] => x = y
  <2>1. PICK i \in 1 .. n - 1 : /\ x = InitList[i] /\ eproc[x].flink = InitList[i + 1]
                                /\ rank[x] = i /\ rank[InitList[i + 1]] = i + 1
    BY <1>6
  <2>2. ASSUME NEW y \in active
        PROVE  /\ rank[x] < rank[y] => rank[eproc[x].flink] <= rank[y]
               /\ rank[x] = rank[y] => x = y
    <3>1. PICK j \in 1 .. n - 1 : y = InitList[j] /\ rank[y] = j
      BY <1>6
    <3> QED BY <1>1, <2>1, <3>1
  <2>3. rank[System] <= rank[x] /\ rank[x] < rank[ListHead] /\ rank[x] < rank[eproc[x].flink]
    BY <1>1, <1>5, <2>1
  <2> QED BY <1>7, <2>1, <2>2, <2>3
<1>9. eproc[ListHead].flink = System /\ eproc[ListHead].pid = None
  BY ProcsAssumption DEF Init
<1> QED BY <1>3, <1>8, <1>9 DEF ListInv

\* The effect of the end and of the start of a process on the list.
LEMMA EndFacts ==
  ASSUME MachineInv, ListInv, NEW e \in Eprocs, EndProcess(e)
  PROVE  /\ e \in active \ {System, Client, ListHead}
         /\ active' = active \ {e} /\ ended' = ended \cup {e} /\ UNCHANGED <<rank, reused, known, cmd>>
         /\ \A x \in Eprocs : eproc'[x].pid = eproc[x].pid
         /\ \A x \in active \ {e} :
              eproc'[x].flink = IF eproc[x].flink = e THEN eproc[e].flink ELSE eproc[x].flink
         /\ \A x \in (Eprocs \ active) \cup {e, ListHead} : eproc'[x].flink = eproc[x].flink
<1>1. e \in active \ {System, Client, ListHead}
  BY DEF EndProcess, MachineInv
<1>2. active' = active \ {e} /\ ended' = ended \cup {e} /\ UNCHANGED <<rank, reused, known, cmd>>
  BY DEF EndProcess, GuestStep, clientVars
<1>3. eproc \in [Eprocs -> Eproc] /\ active \subseteq Eprocs /\ ListHead \in Eprocs /\ ListHead \notin active
  BY ProcsAssumption DEF MachineInv
<1>4. \A x \in Eprocs : eproc'[x] = IF x \in active \cup {ListHead} /\ x # e /\ eproc[x].flink = e
                                   THEN [eproc[x] EXCEPT !.flink = eproc[e].flink] ELSE eproc[x]
  BY DEF EndProcess
<1>5. \A x \in Eprocs : /\ [eproc[x] EXCEPT !.flink = eproc[e].flink].pid = eproc[x].pid
                        /\ [eproc[x] EXCEPT !.flink = eproc[e].flink].flink = eproc[e].flink
  BY <1>3 DEF Eproc
<1>6. eproc[ListHead].flink # e
  BY <1>1 DEF ListInv
<1>7. \A x \in Eprocs : eproc'[x].pid = eproc[x].pid
  BY <1>4, <1>5
<1>8. \A x \in active \ {e} :
        eproc'[x].flink = IF eproc[x].flink = e THEN eproc[e].flink ELSE eproc[x].flink
  BY <1>3, <1>4, <1>5
<1>9. \A x \in (Eprocs \ active) \cup {e, ListHead} : eproc'[x].flink = eproc[x].flink
  BY <1>3, <1>4, <1>6
<1> QED BY <1>1, <1>2, <1>7, <1>8, <1>9

LEMMA NewFacts ==
  ASSUME MachineInv, ListInv, NEW e \in Eprocs, NEW pid \in Pids, NewProcess(e, pid)
  PROVE  /\ e \notin active /\ e # ListHead
         /\ active' = active \cup {e} /\ UNCHANGED <<ended, known, cmd>>
         /\ reused' <=> (reused \/ e \in ended)
         /\ \A x \in Eprocs \ {e} : eproc'[x].pid = eproc[x].pid
         /\ eproc'[e].flink = ListHead
         /\ \A x \in active :
              eproc'[x].flink = IF eproc[x].flink = ListHead THEN e ELSE eproc[x].flink
         /\ \A x \in Eprocs \ (active \cup {e}) : eproc'[x].flink = eproc[x].flink
         /\ rank' \in [Eprocs -> Nat]
         /\ \A x \in Eprocs \ {e, ListHead} : rank'[x] = rank[x]
         /\ rank'[e] = rank[ListHead] /\ rank'[ListHead] = rank[ListHead] + 1
<1>1. e \notin active /\ e # ListHead
  BY DEF NewProcess
<1>2. active' = active \cup {e} /\ UNCHANGED <<ended, known, cmd>> /\ (reused' <=> (reused \/ e \in ended))
  BY DEF NewProcess, GuestStep, clientVars
<1>3. eproc \in [Eprocs -> Eproc] /\ active \subseteq Eprocs /\ ListHead \in Eprocs
  BY ProcsAssumption DEF MachineInv
<1>4. \A x \in Eprocs : eproc'[x] = IF x = e THEN [pid |-> pid, dtb |-> eproc[e].dtb, flink |-> ListHead]
                                   ELSE IF x \in active /\ eproc[x].flink = ListHead
                                        THEN [eproc[x] EXCEPT !.flink = e] ELSE eproc[x]
  BY DEF NewProcess
<1>5. \A x \in Eprocs : /\ [eproc[x] EXCEPT !.flink = e].pid = eproc[x].pid
                        /\ [eproc[x] EXCEPT !.flink = e].flink = e
  BY <1>3 DEF Eproc
<1>6. \A x \in Eprocs \ {e} : eproc'[x].pid = eproc[x].pid
  BY <1>4, <1>5
<1>7. \A x \in active :
        eproc'[x].flink = IF eproc[x].flink = ListHead THEN e ELSE eproc[x].flink
  BY <1>1, <1>3, <1>4, <1>5
<1>8. /\ \A x \in Eprocs \ (active \cup {e}) : eproc'[x].flink = eproc[x].flink
      /\ eproc'[e].flink = ListHead
  <2>1. eproc'[e] = [pid |-> pid, dtb |-> eproc[e].dtb, flink |-> ListHead]
    BY <1>4
  <2>2. \A x \in Eprocs \ (active \cup {e}) : eproc'[x] = eproc[x]
    BY <1>4
  <2> QED BY <2>1, <2>2
<1>9. rank \in [Eprocs -> Nat] /\ rank' = [rank EXCEPT ![e] = rank[ListHead], ![ListHead] = @ + 1]
  BY DEF NewProcess, ListInv
<1>10. /\ rank' \in [Eprocs -> Nat]
       /\ \A x \in Eprocs \ {e, ListHead} : rank'[x] = rank[x]
       /\ rank'[e] = rank[ListHead] /\ rank'[ListHead] = rank[ListHead] + 1
  BY <1>1, <1>3, <1>9
<1> QED BY <1>1, <1>2, <1>6, <1>7, <1>8, <1>10

LEMMA RankTypes ==
  ASSUME MachineInv, ListInv
  PROVE  \A x \in active \cup {ListHead} : rank[x] \in Nat /\ x \in Eprocs
BY ProcsAssumption DEF MachineInv, ListInv

LEMMA ListEnd ==
  ASSUME MachineInv, ListInv, NEW e \in Eprocs, EndProcess(e)
  PROVE  ListInv'
<1>1. ASSUME NEW x \in active'
      PROVE  /\ eproc'[x].flink \in (active' \ {System}) \cup {ListHead}
             /\ rank[x] < rank[eproc'[x].flink]
             /\ \A y \in active' : rank[x] < rank[y] => rank[eproc'[x].flink] <= rank[y]
  <2>0. x \in active \ {e} /\ x \in Eprocs /\ active' = active \ {e} /\ e \in active
    BY <1>1, EndFacts DEF MachineInv
  <2>1. /\ eproc[x].flink \in (active \ {System}) \cup {ListHead} /\ rank[x] < rank[eproc[x].flink]
        /\ \A y \in active : rank[x] < rank[y] => rank[eproc[x].flink] <= rank[y]
        /\ eproc[e].flink \in (active \ {System}) \cup {ListHead} /\ rank[e] < rank[eproc[e].flink]
        /\ \A y \in active : rank[e] < rank[y] => rank[eproc[e].flink] <= rank[y]
        /\ \A y \in active : rank[e] = rank[y] => e = y
    BY <2>0 DEF ListInv
  <2>2. /\ rank[x] \in Nat /\ rank[e] \in Nat /\ rank[eproc[e].flink] \in Nat
        /\ rank[eproc[x].flink] \in Nat /\ \A y \in active : rank[y] \in Nat
    BY <2>0, <2>1, RankTypes
  <2>3. CASE eproc[x].flink = e
    <3>1. eproc'[x].flink = eproc[e].flink
      BY <2>0, <2>3, EndFacts
    <3>2. eproc[e].flink # e
      BY <2>1, <2>2
    <3>3. \A y \in active' : rank[x] < rank[y] => rank[eproc[e].flink] <= rank[y]
      <4> SUFFICES ASSUME NEW y \in active', rank[x] < rank[y] PROVE rank[eproc[e].flink] <= rank[y]
        OBVIOUS
      <4>1. y \in active /\ y # e /\ rank[e] <= rank[y] /\ rank[e] # rank[y]
        BY <2>0, <2>1, <2>3
      <4> QED BY <2>1, <2>2, <4>1
    <3>4. rank[x] < rank[eproc[e].flink]
      BY <2>1, <2>2, <2>3
    <3> QED BY <2>0, <2>1, <3>1, <3>2, <3>3, <3>4
  <2>4. CASE eproc[x].flink # e
    <3>1. eproc'[x].flink = eproc[x].flink
      BY <2>0, <2>4, EndFacts
    <3> QED BY <2>0, <2>1, <2>4, <3>1
  <2> QED BY <2>3, <2>4
<1>2. /\ active' = active \ {e} /\ UNCHANGED rank
      /\ eproc'[ListHead].flink = eproc[ListHead].flink /\ eproc'[ListHead].pid = eproc[ListHead].pid
  BY EndFacts, ProcsAssumption
<1> QED BY <1>1, <1>2 DEF ListInv

LEMMA ListNew ==
  ASSUME MachineInv, ListInv, NEW e \in Eprocs, NEW pid \in Pids, NewProcess(e, pid)
  PROVE  ListInv'
<1>0. /\ e \notin active /\ e # ListHead /\ ListHead \notin active /\ System \in active /\ ListHead \in Eprocs
      /\ active' = active \cup {e} /\ active \subseteq Eprocs
  BY NewFacts, ProcsAssumption DEF MachineInv
<1>1. /\ \A x \in active : rank'[x] = rank[x] /\ rank[x] \in Nat
      /\ rank'[e] = rank[ListHead] /\ rank'[ListHead] = rank[ListHead] + 1 /\ rank[ListHead] \in Nat
  BY <1>0, NewFacts, RankTypes
<1>2. ASSUME NEW x \in active
      PROVE  /\ eproc'[x].flink \in (active' \ {System}) \cup {ListHead}
             /\ rank'[System] <= rank'[x] /\ rank'[x] < rank'[ListHead] /\ rank'[x] < rank'[eproc'[x].flink]
             /\ \A y \in active' : rank'[x] < rank'[y] => rank'[eproc'[x].flink] <= rank'[y]
             /\ \A y \in active' : rank'[x] = rank'[y] => x = y
  <2>1. /\ eproc[x].flink \in (active \ {System}) \cup {ListHead} /\ rank[x] < rank[eproc[x].flink]
        /\ rank[System] <= rank[x] /\ rank[x] < rank[ListHead]
        /\ \A y \in active : rank[x] < rank[y] => rank[eproc[x].flink] <= rank[y]
        /\ \A y \in active : rank[x] = rank[y] => x = y
        /\ \A y \in active : rank[y] < rank[ListHead]
    BY DEF ListInv
  <2>2. CASE eproc[x].flink = ListHead
    <3>1. eproc'[x].flink = e
      BY <2>2, NewFacts
    <3> QED BY <1>0, <1>1, <2>1, <2>2, <3>1
  <2>3. CASE eproc[x].flink # ListHead
    <3>1. eproc'[x].flink = eproc[x].flink /\ eproc[x].flink \in active \ {System}
      BY <2>1, <2>3, NewFacts
    <3> QED BY <1>0, <1>1, <2>1, <3>1
  <2> QED BY <2>2, <2>3
<1>3. /\ eproc'[e].flink = ListHead /\ rank'[System] <= rank'[e] /\ rank'[e] < rank'[ListHead]
      /\ \A y \in active' : ~(rank'[e] < rank'[y])
      /\ \A y \in active' : rank'[e] = rank'[y] => e = y
  BY <1>0, <1>1, NewFacts DEF ListInv
<1>4. /\ eproc'[ListHead].flink = System /\ eproc'[ListHead].pid = None
  BY <1>0, NewFacts DEF ListInv
<1>5. rank' \in [Eprocs -> Nat]
  BY NewFacts
<1> QED BY <1>0, <1>2, <1>3, <1>4, <1>5 DEF ListInv

LEMMA EndedEnd ==
  ASSUME MachineInv, ListInv, EndedInv, NEW e \in Eprocs, EndProcess(e)
  PROVE  EndedInv'
BY EndFacts DEF EndedInv

LEMMA EndedNew ==
  ASSUME MachineInv, ListInv, EndedInv, NEW e \in Eprocs, NEW pid \in Pids, NewProcess(e, pid),
         e \notin ended
  PROVE  EndedInv'
BY NewFacts DEF EndedInv

LEMMA WalkEnd ==
  ASSUME MachineInv, ListInv, EndedInv, NEW e \in Eprocs, EndProcess(e)
  PROVE  (WalkInv => WalkInv') /\ Wanted' \subseteq Wanted
<1>1. /\ active' \cup ended' = active \cup ended /\ ended \subseteq ended' /\ UNCHANGED <<rank, known, cmd>>
      /\ \A x \in Eprocs : eproc'[x].pid = eproc[x].pid
  BY EndFacts
<1>2. UNCHANGED <<pc, cur, status>>
  BY DEF EndProcess, GuestStep, transferVars
<1>3. known \subseteq Eprocs /\ cur \in Eprocs
  BY DEF EndedInv, MachineInv
<1>4. Wanted' \subseteq Wanted
  BY <1>1, <1>3 DEF Wanted
<1>5. HasCr3' <=> HasCr3
  BY <1>1, <1>2 DEF HasCr3, Done
<1> QED BY <1>1, <1>2, <1>3, <1>4, <1>5 DEF WalkInv

LEMMA WalkNew ==
  ASSUME MachineInv, ListInv, EndedInv, NEW e \in Eprocs, NEW pid \in Pids, NewProcess(e, pid),
         e \notin ended
  PROVE  (WalkInv => WalkInv') /\ Wanted' \subseteq Wanted
<1>0. /\ e \notin active /\ e # ListHead /\ ListHead \notin active /\ ListHead \notin ended /\ ListHead \in Eprocs
      /\ active' = active \cup {e} /\ UNCHANGED <<ended, known, cmd>>
      /\ active \subseteq Eprocs /\ ended \subseteq Eprocs /\ known \subseteq active \cup ended
  BY NewFacts, ProcsAssumption DEF EndedInv, MachineInv
<1>1. UNCHANGED <<pc, cur, status>>
  BY DEF NewProcess, GuestStep, transferVars
<1>2. \A x \in active \cup ended : eproc'[x].pid = eproc[x].pid
  BY <1>0, NewFacts
<1>3. Wanted' = Wanted /\ Wanted \subseteq active
  BY <1>0, <1>2 DEF Wanted
<1>4. /\ \A x \in active \cup ended : rank'[x] = rank[x] /\ rank[x] \in Nat
      /\ rank[ListHead] \in Nat /\ \A t \in Wanted : rank[t] < rank[ListHead]
  BY <1>0, <1>3, NewFacts DEF ListInv
<1>5. HasCr3' <=> HasCr3
  BY <1>0, <1>1 DEF HasCr3, Done
<1>6. WalkInv =>
        /\ pc' \in {"pid", "flink"} => cur' \in active' \cup ended' \cup {ListHead}
        /\ pc' = "dtb" \/ HasCr3' => cur' \in active' \cup ended' /\ eproc'[cur'].pid = cmd'.pid
  BY <1>0, <1>1, <1>2, <1>5 DEF WalkInv
<1>7. ASSUME WalkInv, NEW t \in Wanted, pc = "pid" PROVE rank'[cur] <= rank'[t]
  BY <1>3, <1>4, <1>7 DEF WalkInv
<1>8. ASSUME WalkInv, NEW t \in Wanted, pc = "flink" PROVE rank'[cur] < rank'[t]
  BY <1>3, <1>4, <1>8 DEF WalkInv
<1> QED BY <1>1, <1>3, <1>6, <1>7, <1>8 DEF WalkInv

LEMMA UnsettledGuest ==
  ASSUME MachineInv, Guest, NEW va \in Nat, Unsettled(va)
  PROVE  Unsettled(va)'
<1> DEFINE w == Walk(tables, ClientCr3, va)
           v == Walk(tables', ClientCr3, va)
<1>1. \/ v = w
      \/ v # None => Frame(v) \in touched'
  BY GuestWalk, ClientCr3Type DEF Followed
<1>2. w # None => Frame(w) \in touched
  BY DEF Unsettled
<1>3. touched \subseteq touched'
  BY GuestState
<1> HIDE DEF w, v
<1>4. v # None => Frame(v) \in touched'
  BY <1>1, <1>2, <1>3
<1> QED BY <1>4 DEF Unsettled, v

\* The steps of the guest that leave the list alone.
LEMMA SameList ==
  ASSUME SearchInv, UNCHANGED <<eproc, active, ended, reused, strayed, rank, known, cmd, pc, cur, status>>
  PROVE  ListInv' /\ (~reused' => EndedInv') /\ (~reused' /\ ~strayed' => WalkInv') /\ Wanted' = Wanted
<1>1. ListInv'
  BY DEF SearchInv, ListInv
<1>2. EndedInv => EndedInv'
  BY DEF EndedInv
<1>3. Wanted' = Wanted /\ (HasCr3' <=> HasCr3)
  BY DEF Wanted, HasCr3, Done
<1>4. WalkInv => WalkInv'
  BY <1>3 DEF WalkInv
<1> QED BY <1>1, <1>2, <1>3, <1>4 DEF SearchInv

LEMMA SearchGuest ==
  ASSUME MachineInv, SearchInv, Guest
  PROVE  SearchInv'
<1>1. UNCHANGED <<known, cmd, pc, cur, status, kernel, strayed>>
  BY GuestState DEF clientVars, transferVars
<1>2. ListInv' /\ (~reused' => EndedInv') /\ (~reused' /\ ~strayed' => WalkInv') /\ (reused => reused')
      /\ (~reused' => Wanted' \subseteq Wanted)
  <2>1. ASSUME UNCHANGED <<eproc, active, ended, reused, rank>>
        PROVE  ListInv' /\ (~reused' => EndedInv') /\ (~reused' /\ ~strayed' => WalkInv') /\ (reused => reused')
               /\ (~reused' => Wanted' \subseteq Wanted)
    BY <1>1, <2>1, SameList
  <2>2. \/ UNCHANGED <<eproc, active, ended, reused, rank>>
        \/ \E e \in Eprocs : EndProcess(e)
        \/ \E e \in Eprocs, pid \in Pids : NewProcess(e, pid)
    BY DEF Guest, MovePage, PageOutOrIn, GuestStore, SwapHookedPage
  <2>3. ASSUME NEW e \in Eprocs, EndProcess(e)
        PROVE  ListInv' /\ (~reused' => EndedInv') /\ (~reused' /\ ~strayed' => WalkInv') /\ (reused => reused')
               /\ (~reused' => Wanted' \subseteq Wanted)
    BY <1>1, <2>3, ListEnd, EndedEnd, WalkEnd, EndFacts DEF SearchInv
  <2>4. ASSUME NEW e \in Eprocs, NEW pid \in Pids, NewProcess(e, pid)
        PROVE  ListInv' /\ (~reused' => EndedInv') /\ (~reused' /\ ~strayed' => WalkInv') /\ (reused => reused')
               /\ (~reused' => Wanted' \subseteq Wanted)
    BY <1>1, <2>4, ListNew, EndedNew, WalkNew, NewFacts DEF SearchInv
  <2> QED BY <2>1, <2>2, <2>3, <2>4
<1>3. /\ Unsettled(CommandVa) => Unsettled(CommandVa)'
      /\ Unsettled(HandleVa) => Unsettled(HandleVa)'
  BY UnsettledGuest, AddressTypes
<1>4. FailureInv'
  BY <1>1, <1>2, <1>3 DEF SearchInv, FailureInv
<1> QED BY <1>2, <1>4 DEF SearchInv

LEMMA SearchInit == Init => SearchInv
<1> SUFFICES ASSUME Init PROVE SearchInv
  OBVIOUS
<1>1. ListInv
  BY ListInit
<1>2. EndedInv /\ WalkInv /\ FailureInv
  BY DEF Init, EndedInv, WalkInv, HasCr3, Done, FailureInv
<1> QED BY <1>1, <1>2 DEF SearchInv

LEMMA SearchClient ==
  ASSUME SearchInv, ClientCommand
  PROVE  SearchInv'
<1>1. /\ pc' = "fetch" /\ known' = active /\ ended' = {} /\ UNCHANGED <<eproc, active, rank>>
  BY DEF ClientCommand, OpenProcess, ProcessMemory, MalformedCommand, Issue
<1>2. ListInv'
  BY <1>1 DEF SearchInv, ListInv
<1>3. EndedInv' /\ WalkInv' /\ FailureInv'
  BY <1>1 DEF EndedInv, WalkInv, HasCr3, Done, FailureInv
<1> QED BY <1>2, <1>3 DEF SearchInv

\* What the search has still to find is active, and ranks are natural numbers.
LEMMA WantedActive ==
  ASSUME MachineInv, ListInv, EndedInv
  PROVE  /\ \A x \in active \cup ended \cup {ListHead} : rank[x] \in Nat
         /\ \A t \in Wanted : t \in active /\ eproc[t].pid = cmd.pid /\ rank[t] < rank[ListHead]
                              /\ rank[System] <= rank[t]
<1>1. active \cup ended \cup {ListHead} \subseteq Eprocs
  BY ProcsAssumption DEF MachineInv
<1>2. \A t \in Wanted : t \in active /\ eproc[t].pid = cmd.pid
  BY DEF Wanted, EndedInv
<1> QED BY <1>1, <1>2 DEF ListInv

\* A translation fails where nothing is mapped.
LEMMA NothingFound ==
  ASSUME MachineInv, NEW va \in Nat, None \in PaFromVa(va, ClientCr3)
  PROVE  Unsettled(va) \/ ClientCr3 \in Tagged
<1> SUFFICES ASSUME ClientCr3 \notin Tagged PROVE Unsettled(va)
  OBVIOUS
<1> DEFINE w == Walk(tables, ClientCr3, va)
<1>1. None = IF w = None THEN None ELSE ToHost(w)
  BY ClientCr3Type DEF PaFromVa, Translate
<1>2. w # None => ToHost(w) # None
  BY ClientCr3Type, HandleType, ToHostType, NoneIsNoWord
<1>3. w = None
  BY <1>1, <1>2
<1> QED BY <1>3 DEF Unsettled

LEMMA SearchHandler ==
  ASSUME MachineInv, SearchInv, Handler
  PROVE  SearchInv'
<1>1. UNCHANGED <<tables, eproc, active, ended, reused, rank, known, cmd, touched, kernel>>
  BY DEF Handler, HandleGuestCommands, LockHookManager, InitialSystemProcess, ReadFails, CheckProcessId, NextProcess,
         ReadDirectoryTableBase, TranslateSource, TranslateTarget, CopyWord, CommandSucceeds,
         clientVars, historyVars, guestVars
<1>2. ListInv' /\ (EndedInv => EndedInv') /\ Wanted' = Wanted
  BY <1>1 DEF SearchInv, ListInv, EndedInv, Wanted
<1>3. /\ Unsettled(CommandVa) => Unsettled(CommandVa)'
      /\ Unsettled(HandleVa) => Unsettled(HandleVa)'
  BY <1>1 DEF Unsettled
<1> DEFINE Failed == pc' = "idle" /\ status' = "Failure" /\ cmd.kind = "open"
           Why == \/ ~kernel \/ reused \/ strayed' \/ ClientCr3 \in Tagged
                  \/ Unsettled(CommandVa) \/ Unsettled(HandleVa) \/ Wanted = {}
<1>4. SUFFICES ASSUME TRUE
               PROVE  (~reused /\ ~strayed' => WalkInv') /\ (Failed => Why)
  <2>1. (Failed => Why) => FailureInv'
    BY <1>1, <1>2, <1>3 DEF FailureInv
  <2> QED BY <1>1, <1>2, <2>1 DEF SearchInv
<1>5. ListInv /\ (~reused => EndedInv) /\ (~reused /\ ~strayed => WalkInv)
  BY DEF SearchInv
<1>s. strayed => strayed'
  BY DEF Handler, HandleGuestCommands, LockHookManager, InitialSystemProcess, ReadFails, CheckProcessId, NextProcess,
         ReadDirectoryTableBase, TranslateSource, TranslateTarget, CopyWord, CommandSucceeds, historyVars
<1>r. CASE ReadFails
  <2>1. strayed'
    BY <1>r DEF ReadFails
  <2> QED BY <2>1
<1>6. CASE HandleGuestCommands
  <2>1. \/ pc' \in {"lock", "src", "astray"}
        \/ pc' = "idle" /\ status' = "Failure" /\ (cmd.kind = "mismatch" \/ None \in PaFromVa(CommandVa, ClientCr3))
    BY <1>6 DEF HandleGuestCommands, Finish
  <2>2. WalkInv'
    BY <2>1 DEF WalkInv, HasCr3, Done
  <2> QED BY <2>1, <2>2, NothingFound, AddressTypes
<1>7. CASE LockHookManager
  <2>1. pc' = "export"
    BY <1>7 DEF LockHookManager
  <2> QED BY <2>1 DEF WalkInv, HasCr3, Done
<1>8. CASE InitialSystemProcess
  <2>1. \/ pc' = "pid" /\ cur' = System
        \/ pc' = "idle" /\ status' = "Failure" /\ ~kernel
    BY <1>8 DEF InitialSystemProcess, Finish
  <2>2. System \in active
    BY DEF MachineInv
  <2>3. ~HasCr3' /\ pc' # "flink" /\ pc' # "dtb"
    BY <2>1 DEF HasCr3, Done
  <2>4. ~reused => WalkInv'
    BY <1>1, <1>2, <1>5, <2>1, <2>2, <2>3, WantedActive DEF WalkInv
  <2> QED BY <2>1, <2>4
<1>9. CASE CheckProcessId
  <2>1. /\ pc = "pid" /\ UNCHANGED cur /\ pc' \in {"dtb", "flink"}
        /\ ~strayed' => /\ cur \in active \cup {ListHead} /\ ~strayed
                        /\ \/ eproc[cur].pid = cmd.pid /\ pc' = "dtb"
                           \/ eproc[cur].pid # cmd.pid /\ pc' = "flink"
    BY <1>9 DEF CheckProcessId, transferVars, Stray
  <2>2. cmd.pid # None
    BY <2>1, FramesAssumption DEF MachineInv, CommandOK
  <2>3. ~HasCr3'
    BY <2>1 DEF HasCr3, Done
  <2>4. ASSUME ~reused, ~strayed' PROVE WalkInv'
    <3>1. cur \in active \cup {ListHead} /\ \A t \in Wanted : rank[cur] <= rank[t]
      BY <1>5, <2>1, <2>4 DEF WalkInv
    <3>2. CASE pc' = "dtb"
      <4>1. cur \in active /\ eproc[cur].pid = cmd.pid
        BY <1>5, <2>1, <2>2, <2>4, <3>1, <3>2 DEF ListInv
      <4> QED BY <1>1, <2>1, <2>3, <3>2, <4>1 DEF WalkInv
    <3>3. CASE pc' = "flink"
      <4>1. ASSUME NEW t \in Wanted PROVE rank[cur] < rank[t]
        <5>1. t \in active /\ eproc[t].pid = cmd.pid /\ rank[t] < rank[ListHead]
              /\ rank[cur] \in Nat /\ rank[t] \in Nat /\ rank[ListHead] \in Nat
          BY <1>5, <2>4, <3>1, WantedActive
        <5>2. rank[cur] # rank[t]
          BY <1>5, <2>1, <2>4, <3>1, <3>3, <5>1 DEF ListInv
        <5> QED BY <3>1, <5>1, <5>2
      <4> QED BY <1>1, <1>2, <2>1, <2>3, <3>1, <3>3, <4>1 DEF WalkInv
    <3> QED BY <2>1, <3>2, <3>3
  <2> QED BY <2>1, <2>4
<1>10. CASE NextProcess
  <2>1. /\ pc = "flink" /\ pc' \in {"idle", "pid"}
        /\ ~strayed' => /\ cur \in active \cup {ListHead} /\ ~strayed /\ cur' = eproc[cur].flink
                        /\ \/ eproc[cur].flink = System /\ pc' = "idle" /\ status' = "Failure"
                           \/ eproc[cur].flink # System /\ pc' = "pid"
    BY <1>10 DEF NextProcess, Finish, Stray
  <2>2. ASSUME ~reused, ~strayed' PROVE WalkInv' /\ (pc' = "idle" => Wanted = {})
    <3>0. ~HasCr3'
      BY <2>1, <2>2 DEF HasCr3, Done
    <3>1. cur \in active \cup {ListHead} /\ \A t \in Wanted : rank[cur] < rank[t]
      BY <1>5, <2>1, <2>2 DEF WalkInv
    <3>2. CASE pc' = "idle"
      <4>1. cur = ListHead
        <5>1. eproc[cur].flink = System /\ System # ListHead
          BY <2>1, <2>2, <3>2 DEF MachineInv
        <5>2. cur \notin active
          BY <1>5, <5>1 DEF ListInv
        <5> QED BY <3>1, <5>2
      <4>2. Wanted = {}
        BY <1>5, <2>2, <3>1, <4>1, WantedActive
      <4> QED BY <3>0, <3>2, <4>2 DEF WalkInv
    <3>3. CASE pc' = "pid"
      <4>1. cur \in active /\ cur' = eproc[cur].flink
        BY <1>5, <2>1, <2>2, <3>1, <3>3 DEF ListInv
      <4>2. cur' \in active \cup {ListHead}
        BY <1>5, <4>1 DEF ListInv
      <4>3. ASSUME NEW t \in Wanted PROVE rank[eproc[cur].flink] <= rank[t]
        <5>1. t \in active
          BY <1>5, <2>2, WantedActive
        <5> QED BY <1>5, <3>1, <4>1, <5>1 DEF ListInv
      <4> QED BY <1>1, <1>2, <3>0, <3>3, <4>1, <4>2, <4>3 DEF WalkInv
    <3> QED BY <2>1, <3>2, <3>3
  <2> QED BY <2>1, <2>2
<1>11. CASE ReadDirectoryTableBase
  <2>1. pc = "dtb" /\ pc' = "dst" /\ UNCHANGED cur
    BY <1>11 DEF ReadDirectoryTableBase
  <2> QED BY <1>1, <1>5, <1>s, <2>1 DEF WalkInv
<1>12. CASE TranslateSource
  <2>1. pc = "src" /\ UNCHANGED cur /\ (pc' = "dst" \/ (pc' = "idle" /\ status' = "Failure"))
    BY <1>12 DEF TranslateSource, Finish
  <2>2. cmd.kind # "open"
    BY <2>1 DEF MachineInv, CommandOK
  <2> QED BY <1>1, <2>1, <2>2 DEF WalkInv, HasCr3, Done
<1>13. CASE TranslateTarget
  <2>1. /\ pc = "dst" /\ UNCHANGED cur
        /\ \/ pc' = "copy"
           \/ pc' = "idle" /\ status' = "Failure" /\ None \in PaFromVa(TargetOf(cmd)[1], TargetOf(cmd)[2])
    BY <1>13 DEF TranslateTarget, Finish
  <2>2. HasCr3' => HasCr3
    BY <1>1, <2>1 DEF HasCr3, Done
  <2>3. ~reused /\ ~strayed' => WalkInv'
    BY <1>1, <1>5, <1>s, <2>1, <2>2 DEF WalkInv
  <2>4. cmd.kind = "open" => TargetOf(cmd) = <<HandleVa, ClientCr3>>
    BY DEF MachineInv, CommandOK, TargetOf
  <2> QED BY <2>1, <2>3, <2>4, NothingFound, AddressTypes
<1>14. CASE CopyWord \/ CommandSucceeds
  <2>1. /\ pc = "copy" /\ UNCHANGED cur
        /\ \/ pc' = "copy"
           \/ pc' = "idle" /\ status' = "Success"
    BY <1>14 DEF CopyWord, CommandSucceeds, Finish, transferVars
  <2>2. HasCr3' => HasCr3
    BY <1>1, <2>1 DEF HasCr3, Done
  <2> QED BY <1>1, <1>5, <1>s, <2>1, <2>2 DEF WalkInv
<1> QED BY <1>r, <1>6, <1>7, <1>8, <1>9, <1>10, <1>11, <1>12, <1>13, <1>14 DEF Handler

\* The lock changes hands between other processors.
LEMMA OtherSteps ==
  ASSUME IndInv, OtherLocks \/ OtherUnlocks \/ OtherPanics
  PROVE  IndInv'
<1>0. MachineInv /\ TransferInv /\ SearchInv
  BY DEF IndInv
<1>1. UNCHANGED <<tables, mem, ept, eproc, active, cur, src, dst, copied, communicator, cmd, commands,
                  known, touched, ended, reused, rank, strayed, kernel, pc, status, wrote>>
  BY DEF OtherLocks, OtherUnlocks, OtherPanics, guestVars, transferVars, clientVars, historyVars
<1>2. lock \in {"free", "other"} /\ lock' \in {"free", "other", "lost"}
  BY DEF OtherLocks, OtherUnlocks, OtherPanics
<1>3. MachineInv'
  <2>1. CommandOK'
    BY <1>0, <1>1 DEF MachineInv, CommandOK
  <2>2. WellFormed(tables')
    BY <1>0, <1>1 DEF MachineInv
  <2> QED BY <1>0, <1>1, <1>2, <2>1, <2>2 DEF MachineInv
<1>4. TransferInv'
  BY <1>0, <1>1 DEF TransferInv, Tracks, ToHost, HasSource, HasTarget, HasCr3, Done, Origin, Destination
<1>5. SearchInv'
  <2>1. FailureInv'
    BY <1>0, <1>1 DEF SearchInv, FailureInv, Unsettled, Wanted
  <2> QED BY <1>0, <1>1, <2>1, SameList DEF SearchInv
<1> QED BY <1>3, <1>4, <1>5 DEF IndInv

(***************************************************************************)
(* The inductive invariant and what follows from it.                       *)
(***************************************************************************)
\* The three parts together hold in every state: page tables, list and
\* transfer are what a command relies on, at every step of every actor.
THEOREM Inductive == Spec => []IndInv
<1>1. Init => IndInv
  BY MachineInit, TransferInit, SearchInit DEF IndInv
<1>2. IndInv /\ [Next]_vars => IndInv'
  <2> SUFFICES ASSUME IndInv, [Next]_vars PROVE IndInv'
    OBVIOUS
  <2>0. MachineInv /\ TransferInv /\ SearchInv
    BY DEF IndInv
  <2>1. CASE ClientCommand
    BY <2>0, <2>1, MachineClient, TransferClient, SearchClient DEF IndInv
  <2>2. CASE Guest
    BY <2>0, <2>2, MachineGuest, TransferGuest, SearchGuest DEF IndInv
  <2>3. CASE Handler
    <3>1. MachineInv'
      BY <2>0, <2>3, MachineHandler, MachineCopy DEF Handler
    <3>2. TransferInv'
      BY <2>0, <2>3, TransferSearch, TransferDtb, TransferSource, TransferTarget, TransferCopy,
         TransferSucceeds DEF Handler
    <3>3. SearchInv'
      BY <2>0, <2>3, SearchHandler
    <3> QED BY <3>1, <3>2, <3>3 DEF IndInv
  <2>4. CASE UNCHANGED vars
    <3>1. UNCHANGED <<tables, mem, ept, eproc, active, cur, src, dst, copied, communicator, cmd, commands,
                      known, touched, ended, reused, rank, strayed, kernel, lock, pc, status, wrote,
                      guestSteps>>
      BY <2>4 DEF vars, guestVars, transferVars, clientVars, historyVars
    <3>2. MachineInv'
      BY <2>0, <3>1 DEF MachineInv, CommandOK, WellFormed
    <3>3. TransferInv'
      BY <2>0, <3>1 DEF TransferInv, Tracks, ToHost, HasSource, HasTarget, HasCr3, Done, Origin, Destination
    <3>4. SearchInv'
      <4>1. FailureInv'
        BY <2>0, <3>1 DEF SearchInv, FailureInv, Unsettled, Wanted
      <4> QED BY <2>0, <3>1, <4>1, SameList DEF SearchInv
    <3> QED BY <3>2, <3>3, <3>4 DEF IndInv
  <2> QED BY <2>1, <2>2, <2>3, <2>4, OtherSteps DEF Next
<1> QED BY <1>1, <1>2, PTL DEF Spec

\* commands.rs: types hold, the hook manager is locked exactly while the list
\* is searched, and a copy runs between two addresses that were translated.
THEOREM Types == Spec => []TypeOK
<1>1. IndInv => TypeOK
  <2> SUFFICES ASSUME MachineInv, TransferInv PROVE TypeOK
    BY DEF IndInv
  <2>1. Cr3s \subseteq Nat
    BY Cr3Type, FramesAssumption
  <2>2. Roomy \subseteq Words /\ None \notin Roomy /\ None \notin Cr3s
    BY <2>1, NoneIsNoWord, FramesAssumption DEF Roomy
  <2>3. src \in Roomy \cup Cr3s \cup {0, None} /\ dst \in Roomy \cup {None}
    BY DEF TransferInv
  <2>4. pc = "copy" => /\ HasTarget /\ (HasSource \/ HasCr3)
    BY DEF HasTarget, HasSource, HasCr3, MachineInv, CommandOK, Kinds
  <2>5. pc = "copy" => src # None /\ dst # None /\ wrote = dst .. dst + copied - 1
    <3>1. None # 0
      BY FramesAssumption
    <3> QED BY <2>2, <2>4, <3>1 DEF TransferInv
  <2>6. copied \in 0 .. cmd.len /\ cmd.kind \in Kinds
    BY DEF TransferInv, MachineInv, CommandOK
  <2> QED BY <2>2, <2>3, <2>5, <2>6 DEF TypeOK, MachineInv
<1> QED BY <1>1, Inductive, PTL

\* On plain addresses the processor finds what the code's walk finds.
LEMMA PlainWalk ==
  ASSUME MachineInv, NEW va \in Nat, NEW cr3, NEW len \in Nat, Plain(va, cr3, len), NEW i \in 0 .. len - 1
  PROVE  /\ cr3 \in Cr3s \ Tagged
         /\ Hardware(tables, cr3, va + i) = {Walk(tables, cr3, va + i)} \ {None}
<1>1. cr3 \in Cr3s \ Tagged /\ PatClear(tables, cr3, va + i) /\ va + i \in Nat
  BY DEF Plain
<1>2. tables \in TableSet /\ WellFormed(tables)
  BY DEF MachineInv, TableSet
<1> QED BY <1>1, <1>2, WalkIsHardware

\* A range that is not empty starts at the one word the processor finds.
LEMMA RangeWalk ==
  ASSUME MachineInv, NEW va \in Nat, NEW cr3, NEW len \in Nat \ {0},
         Plain(va, cr3, len), Range(va, cr3, len) # {}
  PROVE  LET w == Walk(tables, cr3, va)
         IN /\ w # None /\ Hardware(tables, cr3, va) = {w} /\ Range(va, cr3, len) = w .. w + len - 1
            /\ \A i \in 0 .. len - 1 : Hardware(tables, cr3, va + i) = {w + i}
<1> DEFINE w == Walk(tables, cr3, va)
           Starts == {v \in Hardware(tables, cr3, va) :
                        \A i \in 0 .. len - 1 : Hardware(tables, cr3, va + i) = {v + i}}
<1>1. cr3 \in Cr3s /\ Hardware(tables, cr3, va) = {w} \ {None}
  <2>1. 0 \in 0 .. len - 1 /\ va + 0 = va /\ len \in Nat
    OBVIOUS
  <2>2. cr3 \in Cr3s /\ Hardware(tables, cr3, va + 0) = {Walk(tables, cr3, va + 0)} \ {None}
    BY ONLY <2>1, PlainWalk, MachineInv, va \in Nat, Plain(va, cr3, len)
  <2> QED BY <2>1, <2>2
<1> HIDE DEF w
<1>2. Range(va, cr3, len) = UNION {v .. v + len - 1 : v \in Starts}
  BY <1>1 DEF Range
<1>3. PICK v \in Starts : TRUE
  BY <1>2
<1>4. v = w /\ w # None /\ Hardware(tables, cr3, va) = {w} /\ Starts = {w}
  BY <1>1, <1>3
<1>5. Range(va, cr3, len) = w .. w + len - 1
  <2> HIDE DEF Starts
  <2> QED BY <1>2, <1>4
<1>6. \A i \in 0 .. len - 1 : Hardware(tables, cr3, va + i) = {w + i}
  BY <1>4
<1> QED BY <1>4, <1>5, <1>6 DEF w

\* A settled range is where its tracked host address points.
LEMMA SettledExact ==
  ASSUME MachineInv, NEW va \in Nat, NEW cr3, NEW len \in Nat \ {0}, NEW h,
         Settled(va, cr3, len), Tracks(h, va, cr3)
  PROVE  /\ h \in Nat /\ Hardware(tables, cr3, va) = {h} /\ Range(va, cr3, len) = h .. h + len - 1
         /\ \A i \in 0 .. len - 1 : /\ Hardware(tables, cr3, va + i) = {h + i}
                                    /\ h + i \in Range(va, cr3, len)
                                    /\ Frame(h + i) \notin touched /\ ept[Frame(h + i)] = Frame(h + i)
<1> DEFINE w == Walk(tables, cr3, va)
<1>0. cr3 \in Cr3s \ Tagged
  BY DEF Settled, Plain
<1>1. /\ w # None /\ Range(va, cr3, len) = w .. w + len - 1 /\ Hardware(tables, cr3, va) = {w}
      /\ \A i \in 0 .. len - 1 : Hardware(tables, cr3, va + i) = {w + i}
  BY RangeWalk DEF Settled
<1>2. w \in Roomy /\ w \in Nat
  BY <1>0, <1>1, HandleType, RoomyWord
<1> HIDE DEF w
<1>3. \A i \in 0 .. len - 1 : w + i \in Range(va, cr3, len)
  BY <1>1, <1>2
<1>4. \A i \in 0 .. len - 1 : Frame(w + i) \notin touched /\ ept[Frame(w + i)] = Frame(w + i)
  BY <1>3 DEF Settled
<1>5. Frame(w) \notin touched /\ ept[Frame(w)] = Frame(w)
  <2>1. 0 \in 0 .. len - 1 /\ w + 0 = w
    BY <1>2
  <2> QED BY <1>4, <2>1
<1>6. h = ToHost(w)
  BY <1>0, <1>1, <1>5 DEF Settled, Tracks, w
<1>7. h = w
  BY <1>2, <1>5, <1>6, FrameOffset DEF ToHost
<1> QED BY <1>1, <1>2, <1>3, <1>4, <1>7

\* handle_read_memory, handle_write_memory: a read or a write that reports
\* success has moved exactly the words asked for, between the places where the
\* processor sees the two ranges, when both are plain (no bits 11:0 in CR3, no
\* PAT bit in a large page) and the guest left them alone.
THEOREM TransfersExactly == Spec => []TransferExact
<1>1. IndInv => TransferExact
  <2> DEFINE from == Origin
             to == Destination
             len == cmd.len
  <2> SUFFICES ASSUME MachineInv, TransferInv,
                      pc = "idle", status = "Success", cmd.kind \in {"read", "write"},
                      Settled(from[1], from[2], len), Settled(to[1], to[2], len),
                      Range(from[1], from[2], len) \cap Range(to[1], to[2], len) = {}
               PROVE  /\ wrote = Range(to[1], to[2], len)
                      /\ \A source \in Hardware(tables, from[2], from[1]),
                            target \in Hardware(tables, to[2], to[1]), i \in 0 .. len - 1 :
                           mem[target + i] = mem[source + i]
    BY DEF IndInv, TransferExact
  <2>1. HasSource /\ HasTarget /\ Done
    BY DEF HasSource, HasTarget, Done
  <2>2. /\ Tracks(src, from[1], from[2]) /\ Tracks(dst, to[1], to[2])
        /\ copied = len /\ wrote = dst .. dst + copied - 1
    BY <2>1 DEF TransferInv
  <2>3. len \in Nat \ {0} /\ from[1] \in Nat /\ to[1] \in Nat
    BY EndpointTypes, SizesAssumption DEF MachineInv, CommandOK
  <2>4. /\ Hardware(tables, from[2], from[1]) = {src}
        /\ \A i \in 0 .. len - 1 : src + i \in Range(from[1], from[2], len) /\ Frame(src + i) \notin touched
    BY <2>2, <2>3, SettledExact
  <2>5. /\ Hardware(tables, to[2], to[1]) = {dst} /\ Range(to[1], to[2], len) = dst .. dst + len - 1
        /\ \A i \in 0 .. len - 1 : dst + i \in Range(to[1], to[2], len) /\ Frame(dst + i) \notin touched
    BY <2>2, <2>3, SettledExact
  <2>6. \A i, j \in 0 .. cmd.len - 1 : dst + i # src + j
    BY <2>4, <2>5
  <2>7. \A i \in 0 .. copied - 1 :
         Frame(dst + i) \in touched \/ Frame(src + i) \in touched \/ mem[dst + i] = mem[src + i]
    BY <2>1, <2>6 DEF TransferInv
  <2> QED BY <2>2, <2>4, <2>5, <2>7
<1> QED BY <1>1, Inductive, PTL

\* get_process_by_process_id, which takes no lock of the guest: unless a
\* structure was recycled under the walk or the walk read one that had left the
\* list, success delivers the directory table base of a process with the
\* identifier asked for, and a process that was there all the time is found.
THEOREM OpensExactly == Spec => []OpenExact
<1>1. IndInv => OpenExact
  <2> SUFFICES ASSUME MachineInv, TransferInv, SearchInv,
                      pc = "idle", cmd.kind = "open", kernel, ~reused, ~strayed,
                      Settled(HandleVa, ClientCr3, 1), Settled(CommandVa, ClientCr3, 1)
               PROVE  /\ status = "Success" =>
                           \A w \in Range(HandleVa, ClientCr3, 1) :
                             \E e \in Eprocs : eproc[e].pid = cmd.pid /\ eproc[e].dtb = mem[w]
                      /\ status = "Failure" => \A e \in known \ ended : eproc[e].pid # cmd.pid
    BY DEF IndInv, OpenExact
  <2>1. ASSUME NEW va \in Nat, Settled(va, ClientCr3, 1) PROVE ~Unsettled(va)
    <3> DEFINE w == Walk(tables, ClientCr3, va)
    <3>1. w # None /\ Range(va, ClientCr3, 1) = w .. w + 1 - 1
      BY <2>1, RangeWalk DEF Settled
    <3>2. w \in Nat
      BY <3>1, HandleType, ClientCr3Type, RoomyWord
    <3>3. w \in Range(va, ClientCr3, 1)
      <4> HIDE DEF w
      <4> QED BY <3>1, <3>2
    <3> QED BY <2>1, <3>1, <3>3 DEF Settled, Unsettled
  <2>2. ASSUME status = "Failure" PROVE \A e \in known \ ended : eproc[e].pid # cmd.pid
    <3>1. ~Unsettled(HandleVa) /\ ~Unsettled(CommandVa)
      BY <2>1, AddressTypes
    <3>2. Wanted = {}
      BY <2>2, <3>1 DEF SearchInv, FailureInv, Settled, Plain
    <3> QED BY <3>2 DEF Wanted
  <2>3. ASSUME status = "Success", NEW w \in Range(HandleVa, ClientCr3, 1)
        PROVE  \E e \in Eprocs : eproc[e].pid = cmd.pid /\ eproc[e].dtb = mem[w]
    <3>1. HasTarget /\ HasCr3 /\ Done
      BY <2>3 DEF HasTarget, HasCr3, Done
    <3>2. cur \in Eprocs /\ eproc[cur].pid = cmd.pid /\ src = eproc[cur].dtb
      BY <3>1 DEF SearchInv, WalkInv, TransferInv, MachineInv
    <3>3. cmd.len = 1 /\ copied = 1 /\ Destination = <<HandleVa, ClientCr3>>
      BY <3>1 DEF TransferInv, MachineInv, CommandOK, Destination
    <3>4. Tracks(dst, HandleVa, ClientCr3) /\ 0 \in 0 .. copied - 1
      BY <3>1, <3>3 DEF TransferInv
    <3>5. dst \in Nat /\ Range(HandleVa, ClientCr3, 1) = dst .. dst + 1 - 1 /\ Frame(dst + 0) \notin touched
      BY <3>4, SettledExact, AddressTypes
    <3>6. w = dst + 0
      BY <2>3, <3>5
    <3>7. Frame(dst + 0) \in touched \/ mem[dst + 0] = src
      BY <3>1, <3>4 DEF TransferInv
    <3> QED BY <3>2, <3>5, <3>6, <3>7
  <2> QED BY <2>2, <2>3
<1> QED BY <1>1, Inductive, PTL

\* Words that follow a host address stay in its page as long as the words
\* that follow the address it was translated from do.
LEMMA SamePage ==
  ASSUME NEW h \in Nat, NEW va \in Nat, NEW n \in Nat, NEW i \in 0 .. n,
         h % PageWords = va % PageWords, Frame(va) = Frame(va + n)
  PROVE  Frame(h + i) = Frame(h)
<1> DEFINE x == va % PageWords
           y == (va + n) % PageWords
           f == Frame(va)
           g == Frame(h)
<1>1. /\ f \in Nat /\ x \in 0 .. PageWords - 1 /\ va = f * PageWords + x
      /\ y \in 0 .. PageWords - 1 /\ va + n = f * PageWords + y
      /\ g \in Nat /\ h = g * PageWords + x
  BY FrameOffset
<1> HIDE DEF x, y, f, g
<1>2. f * PageWords \in Nat /\ g * PageWords \in Nat
  BY <1>1, Sizes
<1>3. \A p, q \in Nat : p = f * PageWords /\ q = g * PageWords =>
        y = x + n /\ x + i \in 0 .. PageWords - 1 /\ h + i = q + (x + i)
  BY <1>1, Sizes
<1>4. x + i \in 0 .. PageWords - 1 /\ h + i = g * PageWords + (x + i)
  BY <1>2, <1>3
<1> QED BY <1>1, <1>4, FrameOf DEF g

\* copy_nonoverlapping: whatever the guest does meanwhile, a command whose
\* target is plain (no bits 11:0 in CR3, no PAT bit in a large page) writes only
\* into frames that hold for the processor, or held, the page it was asked to
\* write, and one that fails has written nothing.
THEOREM ConfinesWrites == Spec => []WritesConfined
<1>1. IndInv => WritesConfined
  <2> DEFINE to == Destination
             len == cmd.len
             mapped == UNION {Hardware(tables, to[2], to[1] + i) : i \in 0 .. len - 1}
  <2>1. ASSUME TransferInv, pc = "idle", status = "Failure" PROVE wrote = {}
    BY <2>1 DEF TransferInv, HasTarget, Done
  <2>2. ASSUME MachineInv, TransferInv, Plain(to[1], to[2], len),
               Frame(to[1]) = Frame(to[1] + len - 1) \/ Settled(to[1], to[2], len),
               \A e \in ended : eproc[e].dtb # to[2],
               NEW w \in wrote
        PROVE  Frame(w) \in touched \cup {ept[Frame(v)] : v \in mapped}
    <3>1. HasTarget
      BY <2>2 DEF TransferInv
    <3>2. dst \in Roomy /\ Tracks(dst, to[1], to[2]) /\ wrote = dst .. dst + copied - 1 /\ copied \in 0 .. len
      BY <2>2, <3>1 DEF TransferInv
    <3>3. len \in Nat /\ dst \in Nat /\ to[1] \in Nat
      BY <2>2, <3>2, LongestBuffer, RoomyWord, EndpointTypes DEF MachineInv, CommandOK
    <3>4. PICK i \in 0 .. len - 1 : w = dst + i
      <4>1. w \in dst .. dst + copied - 1
        BY <2>2, <3>2
      <4>2. w - dst \in 0 .. len - 1 /\ w = dst + (w - dst)
        BY <3>2, <3>3, <4>1
      <4> QED BY <4>2
    <3>5. len \in Nat \ {0}
      BY <3>3, <3>4
    <3>p. to[2] \in Cr3s \ Tagged
      BY <2>2 DEF Plain
    <3>6. CASE Settled(to[1], to[2], len)
      <4>0. /\ MachineInv /\ Settled(to[1], to[2], len) /\ Tracks(dst, to[1], to[2])
            /\ to[1] \in Nat /\ len \in Nat \ {0}
        BY <2>2, <3>2, <3>3, <3>5, <3>6
      <4> HIDE DEF to, len
      <4>1. \A k \in 0 .. len - 1 :
               /\ Hardware(tables, to[2], to[1] + k) = {dst + k}
               /\ dst + k \in Range(to[1], to[2], len)
               /\ Frame(dst + k) \notin touched /\ ept[Frame(dst + k)] = Frame(dst + k)
        <5>1. \A k \in 0 .. len - 1 :
                 /\ Hardware(tables, to[2], to[1] + k) = {dst + k}
                 /\ dst + k \in Range(to[1], to[2], len)
                 /\ Frame(dst + k) \notin touched /\ ept[Frame(dst + k)] = Frame(dst + k)
          <6>1. ASSUME NEW va, NEW cr3, NEW n, NEW h,
                       MachineInv, va \in Nat, n \in Nat \ {0}, Settled(va, cr3, n), Tracks(h, va, cr3)
                PROVE  \A k \in 0 .. n - 1 :
                         /\ Hardware(tables, cr3, va + k) = {h + k}
                         /\ h + k \in Range(va, cr3, n)
                         /\ Frame(h + k) \notin touched /\ ept[Frame(h + k)] = Frame(h + k)
            BY ONLY <6>1, SettledExact
          <6> QED BY ONLY <4>0, <6>1
        <5> QED BY <5>1
      <4>2. w \in mapped
        BY <3>4, <4>1
      <4>3. ept[Frame(w)] = Frame(w)
        BY <3>4, <4>1
      <4> QED BY <4>2, <4>3
    <3>7. CASE Frame(to[1]) = Frame(to[1] + len - 1)
      <4> DEFINE g == Walk(tables, to[2], to[1])
      <4>1. /\ dst % PageWords = to[1] % PageWords
            /\ (g # None /\ dst = ToHost(g)) \/ Frame(dst) \in touched
        BY <2>2, <3>2, <3>p DEF Tracks
      <4>2. Frame(w) = Frame(dst)
        <5>1. len - 1 \in Nat /\ to[1] + len - 1 = to[1] + (len - 1)
          BY <3>3, <3>5
        <5> QED BY <3>3, <3>4, <3>7, <4>1, <5>1, SamePage
      <4>3. ASSUME g # None, dst = ToHost(g) PROVE Frame(w) \in {ept[Frame(v)] : v \in mapped}
        <5>1. g \in Roomy
          BY <2>2, <3>3, <3>p, <4>3, HandleType
        <5>2. Frame(dst) = ept[Frame(g)]
          BY <2>2, <4>3, <5>1, ToHostType
        <5>3. 0 \in 0 .. len - 1 /\ to[1] + 0 = to[1]
          BY <3>3, <3>5
        <5>4. g \in Hardware(tables, to[2], to[1] + 0)
          <6>1. /\ MachineInv /\ Plain(to[1], to[2], len) /\ to[1] \in Nat /\ len \in Nat
                /\ 0 \in 0 .. len - 1 /\ to[1] + 0 = to[1] /\ g # None
            BY <2>2, <3>3, <4>3, <5>3
          <6> HIDE DEF to, len
          <6>2. Hardware(tables, to[2], to[1] + 0) = {Walk(tables, to[2], to[1] + 0)} \ {None}
            BY ONLY <6>1, PlainWalk
          <6> QED BY <6>1, <6>2
        <5>5. g \in mapped
          <6> HIDE DEF to, len, g
          <6> QED BY <5>3, <5>4
        <5> QED BY <4>2, <5>2, <5>5
      <4> QED BY <4>1, <4>2, <4>3
    <3> QED BY <2>2, <3>6, <3>7
  <2> QED BY <2>1, <2>2 DEF IndInv, WritesConfined
<1> QED BY <1>1, Inductive, PTL

\* translate_guest_virtual_to_guest_physical finds what the processor finds,
\* for every process whose CR3 has bits 11:0 clear and every address that is
\* not in a large page whose PAT bit is set.
THEOREM WalksAgree == Spec => []WalkAgrees
<1>1. IndInv => WalkAgrees
  <2> SUFFICES ASSUME MachineInv, NEW cr3 \in Cr3s, NEW va \in 0 .. HugePage * Entries * Entries - 1,
                      cr3 \notin Tagged, PatClear(tables, cr3, va)
               PROVE  Translate(tables, cr3, va) \ {None} = Hardware(tables, cr3, va)
    BY DEF IndInv, WalkAgrees
  <2>1. va \in Nat /\ tables \in TableSet /\ WellFormed(tables)
    BY DEF MachineInv, TableSet
  <2>2. Hardware(tables, cr3, va) = {Walk(tables, cr3, va)} \ {None}
    BY <2>1, WalkIsHardware
  <2> QED BY <2>2 DEF Translate
<1> QED BY <1>1, Inductive, PTL
===========================================================================
