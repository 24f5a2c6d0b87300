---------------------------- MODULE RawDataProofs ----------------------------
(***************************************************************************)
(* Proofs about RawData, for any number of days and revisions and any      *)
(* unsound files: what reaches the interim file is every day that was      *)
(* listed, each whole, wherever either command was broken off.             *)
(***************************************************************************)
EXTENDS RawData, Integers, FiniteSetTheorems, WellFoundedInduction, TLAPS

---------------------------------------------------------------------------
\* Any nonempty set of days has a first one, which the loop reads next: among
\* the starts that end at its members one contains no other.
LEMMA FirstDay ==
    ASSUME NEW n \in Nat, NEW S, S \subseteq 1 .. n, S # {}
    PROVE  \E k \in S : \A j \in S : k <= j
<1> DEFINE P == {1 .. k : k \in S}
<1>1. IsWellFoundedOn(StrictSubsetOrdering(1 .. n), SUBSET (1 .. n))
  <2>1. IsFiniteSet(1 .. n)
    BY FS_Interval
  <2> QED BY <2>1, FS_StrictSubsetOrderingWellFounded, FS_FiniteSubsetsOfFinite
<1>2. P \subseteq SUBSET (1 .. n) /\ P # {}
  <2>1. \A k \in S : 1 .. k \in SUBSET (1 .. n)
    OBVIOUS
  <2> QED BY <2>1
<1>3. PICK s \in P : \A q \in P : ~ (<<q, s>> \in StrictSubsetOrdering(1 .. n))
  <2> HIDE DEF P
  <2> QED BY <1>1, <1>2, WFMin
<1>4. PICK k \in S : s = 1 .. k
  OBVIOUS
<1>5. ASSUME NEW j \in S, j < k
      PROVE  FALSE
  <2>1. 1 .. j \in P /\ 1 .. j \subseteq 1 .. k /\ 1 .. j # 1 .. k
    BY <1>5
  <2>2. <<1 .. j, 1 .. k>> \in StrictSubsetOrdering(1 .. n)
    BY <2>1 DEF StrictSubsetOrdering
  <2> QED BY <1>3, <1>4, <2>1, <2>2
<1>6. k \in Int /\ \A j \in S : j \in Int
  OBVIOUS
<1> QED BY <1>5, <1>6

\* The revisions upstream has published.
Revision == 1 .. Revisions

\* The types; a download has not passed its last day, and prepare lists only
\* files that are there.
Typed ==
    /\ main \in Revision
    /\ raw \in [1 .. Days -> Revision \cup {Absent, Torn}]
    /\ job \in [day : 1 .. Days, last : 1 .. Days] \cup {NoJob}
    /\ job # NoJob => job.day <= job.last
    /\ open \in BOOLEAN
    /\ open => job # NoJob
    /\ paths \subseteq 1 .. Days
    /\ listing \subseteq Loaded
    /\ errors \in Nat

\* The days of some rows.
DaysOf(S) == {x[1] : x \in S}

\* Midway through the files: those converted come before those still listed,
\* together they are the ones that were found, and each is one file.
Converted ==
    /\ rows \subseteq (1 .. Days) \X Revision \X (1 .. 2)
    /\ rows # {} \/ listing # {} => DaysOf(rows) \cup listing = paths
    /\ \A d \in DaysOf(rows), e \in listing : d < e
    /\ \A x, y \in rows : x[1] = y[1] => x[2] = y[2]
    /\ errors = 0 => \A x \in rows : RowsOf(x[1], x[2]) \subseteq rows

\* Together with the property itself, for the interim file that stays.
RInv == Typed /\ Converted /\ WholeDays

\* Nothing is downloaded and nothing converted.
LEMMA RawInit == Init => RInv
<1> SUFFICES ASSUME Init PROVE RInv
  OBVIOUS
<1>1. Loaded = {}
  BY DEF Init, Loaded
<1>2. Typed
  <2>1. main \in Revision
    BY RawAssumption DEF Init, Revision
  <2>2. raw \in [1 .. Days -> Revision \cup {Absent, Torn}]
    BY DEF Init
  <2> QED BY <1>1, <2>1, <2>2 DEF Init, Typed
<1>3. Converted /\ WholeDays
  BY DEF Init, Converted, DaysOf, WholeDays
<1> QED BY <1>2, <1>3 DEF RInv

\* The download, whatever prepare is doing.
LEMMA DownloadStep ==
    ASSUME RInv,
           \/ Publish \/ OpenDay \/ CloseDay \/ BreakOff
           \/ \E first, days \in 1 .. Days : Download(first, days)
    PROVE  RInv' /\ interim' = interim
<1>1. /\ paths' = paths /\ listing' = listing /\ rows' = rows /\ errors' = errors
      /\ interim' = interim
  BY DEF Publish, OpenDay, CloseDay, BreakOff, Download
<1>2. WholeDays' /\ Converted'
  BY <1>1 DEF RInv, WholeDays, Converted, DaysOf, RowsOf, Revision
<1>3. Typed'
  <2> USE RawAssumption DEF RInv, Typed, Loaded, Revision, NoJob
  <2>1. CASE Publish
    BY <2>1 DEF Publish
  <2>2. CASE OpenDay
    BY <2>2 DEF OpenDay
  <2>3. CASE CloseDay
    <3>1. job \in [day : 1 .. Days, last : 1 .. Days] /\ job.day <= job.last
      BY <2>3 DEF CloseDay
    <3>2. /\ raw' = [raw EXCEPT ![job.day] = main] /\ main' = main /\ open' = FALSE
          /\ job' = IF job.day = job.last THEN NoJob ELSE [job EXCEPT !.day = @ + 1]
      BY <2>3 DEF CloseDay
    <3>3. /\ main # Absent /\ raw' \in [1 .. Days -> Revision \cup {Absent, Torn}]
          /\ \A d \in 1 .. Days : raw[d] # Absent => raw'[d] # Absent
      BY <3>1, <3>2
    <3>4. listing' \subseteq Loaded'
      BY <1>1, <3>3 DEF Loaded
    <3>5. job.day # job.last =>
             /\ job' = [day |-> job.day + 1, last |-> job.last]
             /\ job.day + 1 \in 1 .. Days /\ job.day + 1 <= job.last
      BY <3>1, <3>2
    <3>6. /\ job' \in [day : 1 .. Days, last : 1 .. Days] \cup {NoJob}
          /\ job' # NoJob => job'.day <= job'.last
      BY <3>1, <3>2, <3>5
    <3> QED BY <1>1, <3>2, <3>3, <3>4, <3>6
  <2>4. CASE BreakOff
    BY <2>4 DEF BreakOff
  <2>5. ASSUME NEW first \in 1 .. Days, NEW days \in 1 .. Days, Download(first, days)
        PROVE  Typed'
    BY <2>5 DEF Download
  <2> QED BY <2>1, <2>2, <2>3, <2>4, <2>5
<1> QED BY <1>1, <1>2, <1>3 DEF RInv

\* Prepare lists the files that are there, or is killed and has nothing.
LEMMA ListStep ==
    ASSUME RInv, List \/ Kill
    PROVE  RInv' /\ interim' = interim
<1>1. /\ main' = main /\ raw' = raw /\ job' = job /\ open' = open /\ interim' = interim
      /\ rows' = {} /\ listing' \in {{}, paths'} /\ errors' \in {0, errors}
      /\ listing' \subseteq Loaded /\ paths' \in {paths, Loaded}
  BY DEF List, Kill
<1>2. Loaded' = Loaded /\ Loaded \subseteq 1 .. Days
  BY <1>1 DEF Loaded
<1>3. Typed'
  BY <1>1, <1>2 DEF RInv, Typed
<1>4. DaysOf(rows') = {}
  BY <1>1 DEF DaysOf
<1>5. Converted' /\ WholeDays'
  BY <1>1, <1>4 DEF RInv, Converted, WholeDays, DaysOf, RowsOf
<1> QED BY <1>1, <1>3, <1>5 DEF RInv

\* Reading the first file listed converts its day, or ends the command, or counts
\* an error that keeps the interim file from being written.
LEMMA ReadStep ==
    ASSUME RInv, ReadFile
    PROVE  RInv' /\ interim' = interim
<1> DEFINE d   == CHOOSE d \in listing : \A e \in listing : d <= e
           all == RowsOf(d, raw[d])
           bad == {x \in all : ~Converts(x)}
<1>1. d \in listing /\ \A e \in listing : d <= e
  <2>1. listing \subseteq 1 .. Days /\ listing # {} /\ Days \in Nat
    BY RawAssumption DEF RInv, Typed, Loaded, ReadFile
  <2>2. \E k \in listing : \A e \in listing : k <= e
    BY <2>1, FirstDay
  <2> QED BY <2>2
<1>2. /\ main' = main /\ raw' = raw /\ job' = job /\ open' = open /\ paths' = paths
      /\ interim' = interim
      /\ IF raw[d] = Torn
         THEN listing' = {} /\ rows' = {} /\ errors' = errors
         ELSE /\ listing' = listing \ {d}
              /\ rows' = rows \cup {x \in all : Converts(x)}
              /\ errors' = errors + Cardinality(bad)
  BY DEF ReadFile
<1> HIDE DEF d
<1>3. WholeDays'
  BY <1>2 DEF RInv, WholeDays, RowsOf
<1>4. CASE raw[d] = Torn
  <2>1. Typed'
    BY <1>2, <1>4 DEF RInv, Typed, Loaded
  <2>2. Converted'
    BY <1>2, <1>4 DEF Converted, DaysOf
  <2> QED BY <1>2, <1>3, <2>1, <2>2 DEF RInv
<1>5. CASE raw[d] # Torn
  <2>1. d \in 1 .. Days /\ raw[d] \in Revision
    BY <1>1, <1>5 DEF RInv, Typed, Loaded
  <2>2. IsFiniteSet(bad)
    <3>1. all = {<<d, raw[d], 1>>, <<d, raw[d], 2>>}
      BY DEF RowsOf
    <3>2. IsFiniteSet({<<d, raw[d], 1>>})
      BY FS_Singleton
    <3>3. IsFiniteSet({<<d, raw[d], 1>>} \cup {<<d, raw[d], 2>>})
      BY <3>2, FS_AddElement
    <3>4. all = {<<d, raw[d], 1>>} \cup {<<d, raw[d], 2>>} /\ bad \in SUBSET all
      BY <3>1
    <3> QED BY <3>3, <3>4, FS_Subset
  <2>3. Cardinality(bad) \in Nat /\ (Cardinality(bad) = 0 => bad = {})
    BY <2>2, FS_CardinalityType, FS_EmptySet
  <2>4. Typed'
    <3>1. errors' \in Nat /\ listing' \subseteq listing
      BY <1>2, <1>5, <2>3 DEF RInv, Typed
    <3> HIDE DEF bad, all
    <3> QED BY <1>2, <3>1 DEF RInv, Typed, Loaded
  <2>5. <<d, raw[d], 1>> \in rows' /\ <<d, raw[d], 1>>[1] = d
    <3>1. <<d, raw[d], 1>> \in all /\ Converts(<<d, raw[d], 1>>)
      BY DEF RowsOf, Converts
    <3> QED BY <1>2, <1>5, <3>1
  <2>6. /\ all \subseteq (1 .. Days) \X Revision \X (1 .. 2)
        /\ \A x \in all : x[1] = d /\ x[2] = raw[d]
    BY <2>1 DEF RowsOf
  <2>7. DaysOf(rows') = DaysOf(rows) \cup {d}
    BY <1>2, <1>5, <2>5, <2>6 DEF DaysOf
  <2>8. DaysOf(rows') \cup listing' = DaysOf(rows) \cup listing
    BY <1>1, <1>2, <1>5, <2>7
  <2>9. d \notin DaysOf(rows) /\ \A x \in rows : x[1] # d
    BY <1>1, <2>1 DEF RInv, Converted, DaysOf
  <2>10. \A b \in DaysOf(rows'), e \in listing' : b < e
    <3>1. \A e \in listing' : e \in listing /\ e # d /\ e \in Nat /\ d \in Nat
      <4>1. listing' = listing \ {d}
        BY <1>2, <1>5
      <4>2. listing \subseteq 1 .. Days
        BY DEF RInv, Typed, Loaded
      <4> QED BY <1>1, <2>1, <4>1, <4>2
    <3>2. \A b \in DaysOf(rows), e \in listing' : b < e
      BY <3>1 DEF RInv, Converted
    <3>3. \A e \in listing' : d < e
      BY <1>1, <3>1
    <3> QED BY <2>7, <3>2, <3>3
  <2>11. \A x, y \in rows' : x[1] = y[1] => x[2] = y[2]
    BY <1>2, <1>5, <2>6, <2>9 DEF RInv, Converted
  <2>12. errors' = 0 => \A x \in rows' : RowsOf(x[1], x[2]) \subseteq rows'
    <3> SUFFICES ASSUME errors' = 0, NEW x \in rows'
                 PROVE  RowsOf(x[1], x[2]) \subseteq rows'
      OBVIOUS
    <3>1. errors = 0 /\ bad = {}
      BY <1>2, <1>5, <2>3 DEF RInv, Typed
    <3>2. rows' = rows \cup all
      BY <1>2, <1>5, <3>1
    <3>3. CASE x \in rows
      BY <3>1, <3>2, <3>3 DEF RInv, Converted
    <3>4. CASE x \in all
      BY <2>6, <3>2, <3>4
    <3> QED BY <3>2, <3>3, <3>4
  <2>13. rows' \subseteq (1 .. Days) \X Revision \X (1 .. 2)
    BY <1>2, <1>5, <2>6 DEF RInv, Converted
  <2>14. Converted'
    <3>1. DaysOf(rows') \cup listing' = paths'
      BY <1>1, <1>2, <2>8 DEF RInv, Converted
    <3> HIDE DEF all
    <3> QED BY <2>10, <2>11, <2>12, <2>13, <3>1 DEF Converted, DaysOf, RowsOf, Revision
  <2> QED BY <1>2, <1>3, <2>4, <2>14 DEF RInv
<1> QED BY <1>4, <1>5

\* The interim file is written only once nothing is listed and no row was an
\* error: what was converted is then all that was found, each day whole.
LEMMA WriteStep ==
    ASSUME RInv, WriteInterim
    PROVE  RInv' /\ (interim' # interim => {x[1] : x \in interim'} = paths)
<1>1. /\ main' = main /\ raw' = raw /\ job' = job /\ open' = open
      /\ paths' = paths /\ listing' = listing /\ errors' = errors
      /\ listing = {} /\ rows # {} /\ rows' = {}
      /\ interim' = IF errors > 0 THEN interim ELSE rows
  BY DEF WriteInterim
<1>2. Typed' /\ Converted'
  BY <1>1 DEF RInv, Typed, Converted, DaysOf, Loaded
<1>3. CASE errors > 0
  BY <1>1, <1>2, <1>3 DEF RInv, WholeDays, RowsOf
<1>4. CASE errors = 0
  <2>1. interim' = rows
    BY <1>1, <1>4
  <2>2. DaysOf(rows) = paths
    BY <1>1 DEF RInv, Converted
  <2>3. ASSUME NEW x \in rows
        PROVE  RowsOf(x[1], x[2]) = {y \in rows : y[1] = x[1]}
    <3>1. RowsOf(x[1], x[2]) \subseteq rows
      BY <1>4 DEF RInv, Converted
    <3>2. \A y \in RowsOf(x[1], x[2]) : y[1] = x[1]
      BY DEF RowsOf
    <3>3. ASSUME NEW y \in rows, y[1] = x[1]
          PROVE  y \in RowsOf(x[1], x[2])
      <4>1. y[2] = x[2] /\ y[3] \in 1 .. 2 /\ y = <<y[1], y[2], y[3]>>
        BY <3>3 DEF RInv, Converted
      <4> QED BY <3>3, <4>1 DEF RowsOf
    <3> QED BY <3>1, <3>2, <3>3
  <2>4. WholeDays'
    BY <2>1, <2>3 DEF WholeDays, RowsOf
  <2> QED BY <1>2, <2>1, <2>2, <2>4 DEF RInv, DaysOf
<1> QED BY <1>3, <1>4 DEF RInv, Typed

\* Whatever the download, upstream and broken commands do meanwhile, the reader
\* (load_handbook_rows) has converted or still lists every file it found.
THEOREM InterimIsWhole == Spec => []RInv
<1>1. RInv /\ UNCHANGED vars => RInv'
  BY DEF vars, RInv, Typed, Converted, DaysOf, WholeDays, Loaded, RowsOf
<1>2. RInv /\ [Next]_vars => RInv'
  BY <1>1, DownloadStep, ListStep, ReadStep, WriteStep DEF Next
<1> QED BY RawInit, <1>2, PTL DEF Spec

\* Every day of the interim file is all rows of one revision of it.
THEOREM DaysAreWhole == Spec => []WholeDays
BY InterimIsWhole, PTL DEF RInv

\* No file that was found is missing from an interim file that is written.
THEOREM NoFileIsDropped == Spec => EveryFileListed
<1>1. RInv /\ [Next]_vars => [interim' # interim => {x[1] : x \in interim'} = paths]_vars
  BY DownloadStep, ListStep, ReadStep, WriteStep DEF Next, vars
<1> QED BY InterimIsWhole, <1>1, PTL DEF Spec, EveryFileListed
=============================================================================
