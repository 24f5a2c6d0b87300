---------------------------- MODULE BaselineProofs ----------------------------
(***************************************************************************)
(* Proofs about train_baseline once its models are fitted: the thresholds, *)
(* reports and gate of Threshold, for any finite set of rows, any labels,  *)
(* scores, orders of ties, models and limit, and the files and tracking    *)
(* runs of Training, for any number of runs and model types, overlapping   *)
(* and broken off in any way.                                              *)
(***************************************************************************)
EXTENDS Threshold, Training, FiniteSetTheorems, WellFoundedInduction, TLAPS

---------------------------------------------------------------------------
\* A set of places up to n that is not empty has a last one: among the tails
\* that start at its members one contains no other.
LEMMA LastOfInterval ==
    ASSUME NEW n \in Nat, NEW S, S \subseteq 1 .. n, S # {}
    PROVE  \E k \in S : \A j \in S : j <= k
<1> DEFINE P == {k .. n : k \in S}
<1>1. IsWellFoundedOn(StrictSubsetOrdering(1 .. n), SUBSET (1 .. n))
  <2>1. IsFiniteSet(1 .. n)
    BY FS_Interval
  <2> QED BY <2>1, FS_StrictSubsetOrderingWellFounded, FS_FiniteSubsetsOfFinite
<1>2. P \subseteq SUBSET (1 .. n) /\ P # {}
  <2>1. \A k \in S : k .. n \in SUBSET (1 .. n)
    OBVIOUS
  <2> QED BY <2>1
<1>3. PICK s \in P : \A q \in P : ~ (<<q, s>> \in StrictSubsetOrdering(1 .. n))
  <2> HIDE DEF P
  <2> QED BY <1>1, <1>2, WFMin
<1>4. PICK k \in S : s = k .. n
  OBVIOUS
<1>5. ASSUME NEW j \in S, k < j
      PROVE  FALSE
  <2>1. j .. n \in P /\ j .. n \subseteq k .. n /\ j .. n # k .. n
    BY <1>5
  <2>2. <<j .. n, k .. n>> \in StrictSubsetOrdering(1 .. n)
    BY <2>1 DEF StrictSubsetOrdering
  <2> QED BY <1>3, <1>4, <2>1, <2>2
<1>6. k \in Int /\ \A j \in S : j \in Int
  OBVIOUS
<1> QED BY <1>5, <1>6

\* Fractions of one denominator compare as their numerators do.
LEMMA Scaling ==
    ASSUME NEW a \in Nat, NEW c \in Nat, NEW p \in Nat \ {0}
    PROVE  a * p < c * p <=> a < c
OBVIOUS

---------------------------------------------------------------------------
\* The rows' labels and scores, and a listing of them for every model.
Data ==
    /\ label \in [Rows -> {0, 1}]
    /\ score \in [Models -> [Rows -> Scores]]
    /\ order \in [Models -> [1 .. N -> Rows]]
    /\ \A m \in Models : order[m] \in Sorted(score[m])

\* There is at least one row, and finitely many.
LEMMA NType == N \in Nat \ {0}
BY ThresholdAssumption, FS_CardinalityType, FS_EmptySet DEF N

\* A listing holds every row, with falling scores.
LEMMA Listing ==
    ASSUME Data, NEW m \in Models
    PROVE  /\ \A i \in 1 .. N : order[m][i] \in Rows
           /\ \A r \in Rows : score[m][r] \in Nat
           /\ \A r \in Rows : \E i \in 1 .. N : order[m][i] = r
           /\ \A i, j \in 1 .. N : i <= j => score[m][order[m][i]] >= score[m][order[m][j]]
<1> DEFINE o == order[m]
<1>1. o \in [1 .. N -> Rows]
      /\ \A i, j \in 1 .. N : i < j => o[i] # o[j] /\ score[m][o[i]] >= score[m][o[j]]
  BY DEF Data, Sorted
<1>2. score[m] \in [Rows -> Nat]
  BY ThresholdAssumption DEF Data
<1>3. o \in Injection(1 .. N, Rows)
  BY <1>1, NType DEF Injection, IsInjective
<1>4. IsFiniteSet(Rows) /\ Cardinality(1 .. N) = Cardinality(Rows)
  BY ThresholdAssumption, NType, FS_Interval DEF N
<1>5. o \in Surjection(1 .. N, Rows)
  BY <1>3, <1>4, FS_Injection
<1>6. \A r \in Rows : \E i \in 1 .. N : o[i] = r
  BY <1>5 DEF Surjection
<1>7. ASSUME NEW i \in 1 .. N, NEW j \in 1 .. N, i <= j
      PROVE  score[m][o[i]] >= score[m][o[j]]
  <2>1. CASE i < j
    BY <1>1, <2>1
  <2>2. CASE i = j
    <3>1. o[i] \in Rows
      BY <1>1
    <3>2. score[m][o[i]] \in Nat
      BY <1>2, <3>1
    <3> QED BY <2>2, <3>2
  <2> QED BY <1>7, <2>1, <2>2
<1> QED BY <1>1, <1>2, <1>6, <1>7

\* What a threshold flags is a prefix of the listing.
LEMMA FlaggedIsPrefix ==
    ASSUME Data, NEW m \in Models, NEW t \in Nat
    PROVE  Flagged(m, t) = {} \/ \E k \in 1 .. N : Flagged(m, t) = Prefix(m, k)
<1> DEFINE S == {i \in 1 .. N : score[m][order[m][i]] >= t}
<1>1. CASE S = {}
  <2>1. \A r \in Rows : ~ score[m][r] >= t
    BY <1>1, Listing
  <2> QED BY <2>1 DEF Flagged
<1>2. CASE S # {}
  <2>1. PICK k \in S : \A j \in S : j <= k
    BY <1>2, NType, LastOfInterval
  <2>2. k \in 1 .. N /\ score[m][order[m][k]] >= t
    OBVIOUS
  <2>3. ASSUME NEW i \in 1 .. N
        PROVE  score[m][order[m][i]] >= t <=> i <= k
    <3>1. i <= k => score[m][order[m][i]] >= score[m][order[m][k]]
      BY <2>2, Listing
    <3>2. score[m][order[m][i]] \in Nat /\ score[m][order[m][k]] \in Nat
      BY <2>2, Listing
    <3>3. i <= k => score[m][order[m][i]] >= t
      BY <2>2, <3>1, <3>2
    <3>4. score[m][order[m][i]] >= t => i <= k
      BY <2>1
    <3> QED BY <3>3, <3>4
  <2>4. Flagged(m, t) = Prefix(m, k)
    <3>1. ASSUME NEW r \in Flagged(m, t)
          PROVE  r \in Prefix(m, k)
      <4>1. PICK i \in 1 .. N : order[m][i] = r
        BY Listing DEF Flagged
      <4>2. i <= k
        BY <4>1, <2>3 DEF Flagged
      <4> QED BY <4>1, <4>2, <2>2 DEF Prefix
    <3>2. ASSUME NEW r \in Prefix(m, k)
          PROVE  r \in Flagged(m, t)
      <4>1. PICK i \in 1 .. k : order[m][i] = r
        BY DEF Prefix
      <4>2. i \in 1 .. N /\ i <= k
        BY <2>2, NType
      <4> QED BY <4>1, <4>2, <2>3, Listing DEF Flagged
    <3> QED BY <3>1, <3>2
  <2> QED BY <2>2, <2>4
<1> QED BY <1>1, <1>2

\* LastCut is the last of the valid cuts, where there is one.
LEMMA LastCutIsLast ==
    ASSUME NEW m \in Models, ValidCuts(m) # {}
    PROVE  /\ LastCut(m) \in ValidCuts(m) /\ LastCut(m) \in 1 .. N
           /\ \A k \in ValidCuts(m) : k <= LastCut(m)
<1>1. ValidCuts(m) \subseteq 1 .. N
  BY DEF ValidCuts
<1>2. \E k \in ValidCuts(m) : \A j \in ValidCuts(m) : j <= k
  BY <1>1, NType, LastOfInterval
<1> QED BY <1>1, <1>2 DEF LastCut

\* The threshold selected flags the prefix it was selected for, and where the
\* cut is clean nothing else.
LEMMA SelectedFlags ==
    ASSUME Data, NEW m \in Models, ValidCuts(m) # {}
    PROVE  /\ Selected(m) \in Nat
           /\ Prefix(m, LastCut(m)) \subseteq Flagged(m, Selected(m))
           /\ CleanCut(m) => Flagged(m, Selected(m)) = Prefix(m, LastCut(m))
<1> DEFINE k == LastCut(m)
           s(i) == score[m][order[m][i]]
<1>1. k \in 1 .. N /\ Selected(m) = s(k)
  BY LastCutIsLast DEF Selected
<1> HIDE DEF k
<1>2. \A i \in 1 .. N : s(i) \in Nat
  BY Listing
<1>3. ASSUME NEW r \in Prefix(m, k)
      PROVE  r \in Flagged(m, s(k))
  <2>1. PICK i \in 1 .. k : order[m][i] = r
    BY DEF Prefix
  <2>2. i \in 1 .. N /\ i <= k
    BY <1>1, NType
  <2> QED BY <1>1, <2>1, <2>2, Listing DEF Flagged
<1>4. ASSUME CleanCut(m), NEW r \in Flagged(m, s(k))
      PROVE  r \in Prefix(m, k)
  <2>1. PICK i \in 1 .. N : order[m][i] = r
    BY Listing DEF Flagged
  <2>2. s(i) >= s(k)
    BY <2>1 DEF Flagged
  <2>3. i > k => FALSE
    <3> SUFFICES ASSUME i > k PROVE FALSE
      OBVIOUS
    <3>1. k + 1 \in 1 .. N /\ k + 1 <= i /\ k < N
      BY <1>1, NType
    <3>2. s(k) > s(k + 1)
      BY <1>4, <3>1 DEF CleanCut, k
    <3>3. s(k + 1) >= s(i)
      BY <3>1, Listing
    <3> QED BY <1>1, <1>2, <2>2, <3>1, <3>2, <3>3
  <2>4. i \in 1 .. k
    BY <1>1, <2>3
  <2> QED BY <2>1, <2>4 DEF Prefix
<1> QED BY <1>1, <1>2, <1>3, <1>4 DEF k

\* Of fewer rows no more have a label.
LEMMA Counting ==
    ASSUME NEW S \in SUBSET Rows, NEW T \in SUBSET S, NEW l
    PROVE  /\ Labelled(S, l) \in Nat /\ Labelled(T, l) \in Nat
           /\ Labelled(T, l) <= Labelled(S, l)
<1> DEFINE s == {r \in S : label[r] = l}
           t == {r \in T : label[r] = l}
<1>1. IsFiniteSet(s) /\ t \in SUBSET s
  BY ThresholdAssumption, FS_Subset
<1>2. IsFiniteSet(t) /\ Cardinality(t) <= Cardinality(s)
  BY <1>1, FS_Subset
<1> QED BY <1>1, <1>2, FS_CardinalityType DEF Labelled

---------------------------------------------------------------------------
\* What train_baseline has in hand: thresholds are the ones select_threshold
\* gives for the data, reports are evaluations under them, the baseline's
\* comes first, and a gate that passed did so on the two reports.
ThresholdInv ==
    /\ Data
    /\ threshold \in [Models -> Nat \cup {-1}]
    /\ DOMAIN report = Models /\ DOMAIN gate = Models
    /\ \A m \in Models :
          /\ threshold[m] # -1 => threshold[m] = Selected(m)
          /\ threshold[m] # -1 /\ m # "logistic" => report["logistic"] # NoReport
          /\ report[m] # NoReport =>
                /\ threshold[m] # -1
                /\ \E g \in Grades : report[m] = Evaluation(m, threshold[m], g)
          /\ gate[m] = "passed" =>
                /\ report[m] # NoReport /\ report["logistic"] # NoReport
                /\ Passes(report[m], report["logistic"])

\* A threshold is the score of a row, whether or not a cut is valid.
LEMMA SelectedType ==
    ASSUME Data, NEW m \in Models
    PROVE  Selected(m) \in Nat
<1>1. 1 \in 1 .. N
  BY NType
<1>2. CASE ValidCuts(m) = {}
  BY <1>1, <1>2, Listing DEF Selected
<1>3. CASE ValidCuts(m) # {}
  BY <1>3, SelectedFlags
<1> QED BY <1>2, <1>3

\* Before the first threshold.
LEMMA GateInit == Init => ThresholdInv
BY DEF Init, ThresholdInv, Data

\* A step that leaves the data alone leaves what is computed from them alone.
LEMMA DataKept ==
    ASSUME ThresholdInv, label' = label, score' = score, order' = order
    PROVE  /\ Data'
           /\ \A m : Selected(m)' = Selected(m)
           /\ \A m, t, g : Evaluation(m, t, g)' = Evaluation(m, t, g)
<1>1. Data'
  BY DEF ThresholdInv, Data, Sorted, N
<1>2. \A m : Selected(m)' = Selected(m)
  BY DEF Selected, ValidCuts, LastCut, Rate, Labelled, Prefix, N
<1>3. \A m, t, g : Evaluation(m, t, g)' = Evaluation(m, t, g)
  BY DEF Evaluation, Recall, RecallAtFpr, ValidCuts, LastCut, Rate, Labelled, Prefix, Flagged, N
<1> QED BY <1>1, <1>2, <1>3

\* Every step of the pipeline keeps the invariant.
LEMMA GateStep == ThresholdInv /\ [Next]_vars => ThresholdInv'
<1> SUFFICES ASSUME ThresholdInv, [Next]_vars PROVE ThresholdInv'
  OBVIOUS
<1>1. ASSUME NEW m \in Models, Select(m)
      PROVE  ThresholdInv'
  <2>1. /\ label' = label /\ score' = score /\ order' = order
        /\ report' = report /\ gate' = gate
        /\ threshold[m] = -1 /\ Turn(m)
        /\ threshold' = [threshold EXCEPT ![m] = Selected(m)]
    BY <1>1 DEF Select
  <2>2. Selected(m) \in Nat
    BY SelectedType DEF ThresholdInv
  <2>3. /\ threshold' \in [Models -> Nat \cup {-1}]
        /\ threshold'[m] = Selected(m) /\ \A q \in Models \ {m} : threshold'[q] = threshold[q]
    BY <2>1, <2>2 DEF ThresholdInv
  <2>4. ASSUME NEW q \in Models
        PROVE  /\ threshold'[q] # -1 => threshold'[q] = Selected(q)
               /\ threshold'[q] # -1 /\ q # "logistic" => report["logistic"] # NoReport
               /\ report[q] # NoReport =>
                     /\ threshold'[q] # -1
                     /\ \E g \in Grades : report[q] = Evaluation(q, threshold'[q], g)
    <3>1. CASE q = m
      BY <3>1, <2>1, <2>2, <2>3 DEF ThresholdInv, Turn
    <3>2. CASE q # m
      BY <3>2, <2>3 DEF ThresholdInv
    <3> QED BY <3>1, <3>2
  <2> QED BY <2>1, <2>3, <2>4, DataKept DEF ThresholdInv
<1>2. ASSUME NEW m \in Models, Evaluate(m)
      PROVE  ThresholdInv'
  <2>1. /\ label' = label /\ score' = score /\ order' = order
        /\ threshold' = threshold /\ gate' = gate
        /\ threshold[m] # -1 /\ report[m] = NoReport
    BY <1>2 DEF Evaluate
  <2>2. PICK g \in Grades :
          report' = [report EXCEPT ![m] = Evaluation(m, threshold[m], g)]
    BY <1>2 DEF Evaluate
  <2>3. /\ DOMAIN report' = Models
        /\ report'[m] = Evaluation(m, threshold[m], g)
        /\ \A q \in Models \ {m} : report'[q] = report[q]
    BY <2>2 DEF ThresholdInv
  <2>4. report'[m] # NoReport
    BY <2>3, ThresholdAssumption DEF Evaluation, NoReport
  <2>5. ASSUME NEW q \in Models
        PROVE  /\ threshold[q] # -1 /\ q # "logistic" => report'["logistic"] # NoReport
               /\ report'[q] # NoReport =>
                     /\ threshold[q] # -1
                     /\ \E h \in Grades : report'[q] = Evaluation(q, threshold[q], h)
               /\ gate[q] = "passed" =>
                     /\ report'[q] # NoReport /\ report'["logistic"] # NoReport
                     /\ Passes(report'[q], report'["logistic"])
    <3>1. "logistic" \in Models
      BY ThresholdAssumption
    <3>2. report["logistic"] # NoReport => report'["logistic"] = report["logistic"]
      BY <2>1, <2>3, <3>1
    <3>3. report[q] # NoReport => report'[q] = report[q]
      BY <2>1, <2>3
    <3>4. CASE q = m
      BY <2>1, <2>3, <3>2, <3>4 DEF ThresholdInv
    <3>5. CASE q # m
      BY <2>3, <3>2, <3>3, <3>5 DEF ThresholdInv
    <3> QED BY <3>4, <3>5
  <2> QED BY <2>1, <2>3, <2>5, DataKept DEF ThresholdInv, Passes, Less, NoReport
<1>3. ASSUME NEW m \in Models, Compare(m)
      PROVE  ThresholdInv'
  <2>1. /\ label' = label /\ score' = score /\ order' = order
        /\ threshold' = threshold /\ report' = report
        /\ m # "logistic" /\ report[m] # NoReport
        /\ gate' = [gate EXCEPT ![m] =
                      IF Passes(report[m], report["logistic"]) THEN "passed" ELSE "refused"]
    BY <1>3 DEF Compare
  <2>2. /\ DOMAIN gate' = Models
        /\ gate'[m] = "passed" => Passes(report[m], report["logistic"])
        /\ \A q \in Models \ {m} : gate'[q] = gate[q]
    BY <2>1 DEF ThresholdInv
  <2>3. report["logistic"] # NoReport
    BY <2>1 DEF ThresholdInv
  <2>4. \A q \in Models : gate'[q] = "passed" =>
            /\ report[q] # NoReport /\ report["logistic"] # NoReport
            /\ Passes(report[q], report["logistic"])
    BY <2>1, <2>2, <2>3 DEF ThresholdInv
  <2> QED BY <2>1, <2>2, <2>4, DataKept DEF ThresholdInv, Passes, Less, NoReport
<1>4. CASE UNCHANGED vars
  BY <1>4, DataKept DEF ThresholdInv, vars, Passes, Less, NoReport
<1> QED BY <1>1, <1>2, <1>3, <1>4 DEF Next, vars

\* A threshold in use is what select_threshold returns for the data, and a
\* report what evaluate computes under it (train_baseline).
THEOREM ThresholdsAreSelected == Spec => []ThresholdInv
BY GateInit, GateStep, PTL DEF Spec

---------------------------------------------------------------------------
\* The fraudulent rows of the validation data: what a recall divides by.
Frauds == Labelled(Rows, 1)

\* The recall of a set of rows is a fraction of the frauds.
LEMMA RateTypes ==
    ASSUME NEW S \in SUBSET Rows
    PROVE  Labelled(S, 1) \in Nat /\ Frauds \in Nat /\ Rate(S, 1) = <<Labelled(S, 1), Frauds>>
BY Counting DEF Frauds, Rate

\* Flagging more rows never has a lower recall.
LEMMA RecallMonotone ==
    ASSUME NEW S \in SUBSET Rows, NEW T \in SUBSET S
    PROVE  ~ Less(Rate(S, 1), Rate(T, 1))
<1>1. /\ Labelled(S, 1) \in Nat /\ Labelled(T, 1) \in Nat /\ Labelled(T, 1) <= Labelled(S, 1)
      /\ Frauds \in Nat
  BY Counting, RateTypes
<1>2. Frauds # 0 => ~ (Labelled(S, 1) * Frauds < Labelled(T, 1) * Frauds)
  BY <1>1, Scaling
<1>3. Rate(S, 1) = <<Labelled(S, 1), Frauds>> /\ Rate(T, 1) = <<Labelled(T, 1), Frauds>>
  BY DEF Rate, Frauds
<1> QED BY <1>1, <1>2, <1>3 DEF Less

\* A shorter prefix of a listing is part of a longer one.
LEMMA PrefixesNest ==
    ASSUME Data, NEW m \in Models, NEW j \in 1 .. N, NEW k \in 1 .. N, k <= j
    PROVE  Prefix(m, k) \in SUBSET Prefix(m, j) /\ Prefix(m, j) \in SUBSET Rows
<1>1. 1 .. k \subseteq 1 .. j /\ 1 .. j \subseteq 1 .. N
  BY NType
<1> QED BY <1>1, Listing DEF Prefix

\* The threshold's prefix holds all that any threshold within the limit flags.
LEMMA LimitBoundsFlagged ==
    ASSUME Data, NEW m \in Models, ValidCuts(m) # {}, NEW t \in Nat,
           AtMost(Rate(Flagged(m, t), 0), Limit)
    PROVE  Flagged(m, t) \in SUBSET Prefix(m, LastCut(m))
<1>1. CASE Flagged(m, t) = {}
  BY <1>1
<1>2. ASSUME NEW k \in 1 .. N, Flagged(m, t) = Prefix(m, k)
      PROVE  Flagged(m, t) \in SUBSET Prefix(m, LastCut(m))
  <2>1. k \in ValidCuts(m)
    BY <1>2 DEF ValidCuts
  <2>2. LastCut(m) \in 1 .. N /\ k <= LastCut(m)
    BY <2>1, LastCutIsLast
  <2> QED BY <1>2, <2>2, PrefixesNest
<1> QED BY <1>1, <1>2, FlaggedIsPrefix

\* So where the cut is clean no threshold within the limit finds more.
LEMMA OptimalAtCut == ThresholdInv => CleanCutIsOptimal
<1> SUFFICES ASSUME ThresholdInv, NEW m \in Models, threshold[m] # -1, CleanCut(m)
             PROVE  /\ AtMost(Rate(Flagged(m, threshold[m]), 0), Limit)
                    /\ \A t \in Scores :
                          AtMost(Rate(Flagged(m, t), 0), Limit)
                            => ~ Less(Recall(m, threshold[m]), Recall(m, t))
  BY DEF CleanCutIsOptimal
<1>1. /\ Data /\ ValidCuts(m) # {} /\ threshold[m] = Selected(m)
  BY DEF ThresholdInv, CleanCut
<1>2. Flagged(m, threshold[m]) = Prefix(m, LastCut(m))
  BY <1>1, SelectedFlags
<1>3. AtMost(Rate(Prefix(m, LastCut(m)), 0), Limit)
  BY <1>1, LastCutIsLast DEF ValidCuts
<1>4. ASSUME NEW t \in Scores, AtMost(Rate(Flagged(m, t), 0), Limit)
      PROVE  ~ Less(Recall(m, threshold[m]), Recall(m, t))
  <2>1. Flagged(m, t) \in SUBSET Flagged(m, threshold[m])
        /\ Flagged(m, threshold[m]) \in SUBSET Rows
    BY <1>1, <1>2, <1>4, LimitBoundsFlagged, ThresholdAssumption DEF Flagged
  <2>2. ~ Less(Rate(Flagged(m, threshold[m]), 1), Rate(Flagged(m, t), 1))
    BY <2>1, RecallMonotone
  <2>3. ~ Less(<<0, 1>>, <<0, 1>>)
    BY DEF Less
  <2> QED BY <2>2, <2>3 DEF Recall
<1> QED BY <1>2, <1>3, <1>4

\* What evaluate reports, of the threshold in use.
LEMMA Reached ==
    ASSUME Data, NEW m \in Models
    PROVE  /\ ~ Less(Recall(m, Selected(m)), RecallAtFpr(m))
           /\ CleanCut(m) => ~ Less(RecallAtFpr(m), Recall(m, Selected(m)))
<1> DEFINE flagged == Flagged(m, Selected(m))
<1>1. flagged \in SUBSET Rows
  BY DEF Flagged
<1>2. /\ Labelled(flagged, 1) \in Nat /\ Frauds \in Nat
      /\ Rate(flagged, 1) = <<Labelled(flagged, 1), Frauds>>
  BY <1>1, RateTypes
<1>3. CASE ValidCuts(m) = {}
  <2>1. RecallAtFpr(m) = <<0, 1>> /\ ~ CleanCut(m)
    BY <1>3 DEF RecallAtFpr, CleanCut
  <2>2. Recall(m, Selected(m)) = <<0, 1>> \/ Recall(m, Selected(m)) = <<Labelled(flagged, 1), Frauds>>
    BY <1>2 DEF Recall
  <2>3. ~ Less(<<0, 1>>, <<0, 1>>) /\ ~ Less(<<Labelled(flagged, 1), Frauds>>, <<0, 1>>)
    BY <1>2 DEF Less
  <2> QED BY <2>1, <2>2, <2>3
<1>4. CASE ValidCuts(m) # {}
  <2> DEFINE cut == Prefix(m, LastCut(m))
  <2>1. RecallAtFpr(m) = Rate(cut, 1)
    BY <1>4 DEF RecallAtFpr
  <2>2. cut \in SUBSET flagged /\ cut \in SUBSET Rows /\ (CleanCut(m) => flagged = cut)
    BY <1>1, <1>4, SelectedFlags
  <2>3. ~ Less(Rate(flagged, 1), Rate(cut, 1)) /\ ~ Less(Rate(cut, 1), Rate(cut, 1))
    BY <1>1, <2>2, RecallMonotone
  <2>4. CASE Frauds = 0
    <3>1. \A p : ~ Less(p, Rate(cut, 1)) /\ ~ Less(Rate(cut, 1), p)
      BY <2>4 DEF Less, Rate, Frauds
    <3> QED BY <2>1, <3>1
  <2>5. CASE Frauds # 0
    <3>1. Recall(m, Selected(m)) = Rate(flagged, 1)
      BY <2>5 DEF Recall, Frauds
    <3> QED BY <2>1, <2>2, <2>3, <3>1
  <2> QED BY <2>4, <2>5
<1> QED BY <1>3, <1>4

\* The two recalls of an evaluation.
LEMMA EvaluationFields ==
    ASSUME NEW m, NEW t, NEW g
    PROVE  /\ Evaluation(m, t, g).recall = Recall(m, t)
           /\ Evaluation(m, t, g).recallAtLimit = RecallAtFpr(m)
BY DEF Evaluation

\* A report is an evaluation of the threshold selected.
LEMMA ReportReached == ThresholdInv => ReportedRecallIsReached
<1> SUFFICES ASSUME ThresholdInv, NEW m \in Models, report[m] # NoReport
             PROVE  /\ ~ Less(report[m].recall, report[m].recallAtLimit)
                    /\ CleanCut(m) => ~ Less(report[m].recallAtLimit, report[m].recall)
  BY DEF ReportedRecallIsReached
<1>1. Data /\ report[m].recall = Recall(m, Selected(m)) /\ report[m].recallAtLimit = RecallAtFpr(m)
  BY EvaluationFields DEF ThresholdInv
<1> QED BY <1>1, Reached

\* A recall as evaluate reports one: over the frauds, or the zero it starts
\* from when no cut is within the limit.
IsRecall(p) == p = <<0, 1>> \/ \E b \in Nat : p = <<b, Frauds>>

\* A recall that is the zero only where there are no frauds.
IsMeasured(p) == IF Frauds = 0 THEN p = <<0, 1>> ELSE \E a \in Nat : p = <<a, Frauds>>

\* The two recalls of a report are such fractions, the one of the threshold in
\* use a measured one.
LEMMA Fractions ==
    ASSUME Data, NEW m \in Models
    PROVE  IsRecall(RecallAtFpr(m)) /\ IsMeasured(Recall(m, Selected(m)))
<1>1. Flagged(m, Selected(m)) \in SUBSET Rows
  BY DEF Flagged
<1>2. ValidCuts(m) # {} => Prefix(m, LastCut(m)) \in SUBSET Rows
  BY <1>1, SelectedFlags
<1>3. ValidCuts(m) # {} => Labelled(Prefix(m, LastCut(m)), 1) \in Nat
  BY <1>2, RateTypes
<1>4. Labelled(Flagged(m, Selected(m)), 1) \in Nat
  BY <1>1, RateTypes
<1> QED BY <1>3, <1>4 DEF RecallAtFpr, Recall, Rate, Frauds, IsRecall, IsMeasured

\* "Not below" carries over such recalls, undefined ones included, when the
\* first is measured.
LEMMA NotLessTransitive ==
    ASSUME NEW p, NEW q, NEW r, IsMeasured(p), IsRecall(q), IsRecall(r),
           ~ Less(p, q), ~ Less(q, r)
    PROVE  ~ Less(p, r)
<1>1. Frauds \in Nat
  BY RateTypes
<1>2. CASE Frauds = 0
  BY <1>2 DEF Less, IsMeasured, IsRecall
<1>3. CASE Frauds # 0
  <2>1. PICK a \in Nat : p = <<a, Frauds>>
    BY <1>3 DEF IsMeasured
  <2>2. CASE r = <<0, 1>>
    BY <1>1, <2>1, <2>2 DEF Less
  <2>3. ASSUME NEW c \in Nat, r = <<c, Frauds>>, q = <<0, 1>>
        PROVE  ~ Less(p, r)
    <3>1. c = 0
      BY <1>1, <1>3, <2>3 DEF Less
    <3> QED BY <1>1, <2>1, <2>3, <3>1 DEF Less
  <2>4. ASSUME NEW c \in Nat, r = <<c, Frauds>>, NEW b \in Nat, q = <<b, Frauds>>
        PROVE  ~ Less(p, r)
    <3>1. ~ (a * Frauds < b * Frauds) /\ ~ (b * Frauds < c * Frauds)
      BY <1>3, <2>1, <2>4 DEF Less
    <3>2. ~ (a < b) /\ ~ (b < c)
      BY <1>1, <1>3, <3>1, Scaling
    <3>3. ~ (a < c)
      BY <3>2
    <3>4. ~ (a * Frauds < c * Frauds)
      BY <1>1, <1>3, <3>3, Scaling
    <3> QED BY <2>1, <2>4, <3>4 DEF Less
  <2> QED BY <2>2, <2>3, <2>4 DEF IsRecall
<1> QED BY <1>2, <1>3

\* The threshold in use reaches the recall the gate compared.
LEMMA GateFinds == ThresholdInv => PassedGateFindsNoLess
<1> SUFFICES ASSUME ThresholdInv, NEW m \in Models, gate[m] = "passed"
             PROVE  ~ Less(report[m].recall, report["logistic"].recallAtLimit)
  BY DEF PassedGateFindsNoLess
<1>1. /\ Data /\ "logistic" \in Models
      /\ report[m] # NoReport /\ report["logistic"] # NoReport
      /\ Passes(report[m], report["logistic"])
  BY ThresholdAssumption DEF ThresholdInv
<1>2. \A q \in Models : report[q] # NoReport =>
          /\ report[q].recall = Recall(q, Selected(q))
          /\ report[q].recallAtLimit = RecallAtFpr(q)
  BY EvaluationFields DEF ThresholdInv
<1>3. ~ Less(Recall(m, Selected(m)), RecallAtFpr(m))
  BY <1>1, Reached
<1>4. ~ Less(RecallAtFpr(m), RecallAtFpr("logistic"))
  BY <1>1, <1>2 DEF Passes
<1>6. ~ Less(Recall(m, Selected(m)), RecallAtFpr("logistic"))
  BY <1>1, <1>3, <1>4, Fractions, NotLessTransitive
<1> QED BY <1>1, <1>2, <1>6

\* Where the threshold splits no tie it stays within its limit, and no other
\* score within the limit finds more of the frauds (select_threshold).
THEOREM CleanCutsAreOptimal == Spec => []CleanCutIsOptimal
BY ThresholdsAreSelected, OptimalAtCut, PTL

\* The threshold in use reaches the recall that evaluate reports at the limit,
\* and where it splits no tie exactly that.
THEOREM ReportsAreReached == Spec => []ReportedRecallIsReached
BY ThresholdsAreSelected, ReportReached, PTL

\* A challenger that passed the gate finds, with the threshold it is stored
\* with, no less than the baseline was credited with (compare_to_baseline).
THEOREM GatesFindNoLess == Spec => []PassedGateFindsNoLess
BY ThresholdsAreSelected, GateFinds, PTL

---------------------------------------------------------------------------
\* How far a run is says what its tracking run has; while a run that nobody
\* disturbed still depends on the file, no other run is inside it.
Progress(r) ==
    /\ pc[r] \in {"fitting", "dumping", "dumped"} => logged[r] = 0 /\ status[r] = "none"
    /\ pc[r] = "tracking" => status[r] = "RUNNING"
    /\ status[r] = "FINISHED" => logged[r] = Items /\ pc[r] = "over"
Undisturbed(r) ==
    /\ pc[r] = "fitting" => ~alone[r]
    /\ Exposed(r) /\ alone[r] => \A p \in Rivals(r) : ~Dumping(p)
    /\ pc[r] \in {"dumped", "tracking"} /\ Exposed(r) /\ alone[r] => candidate[Type[r]] = r
    /\ logged[r] >= 4 /\ alone[r] => artifact[r] = r

\* The inductive invariant of overlapping runs.
TrainingInv ==
    /\ TrainingTypeOK
    /\ \A r \in Runs : Progress(r)
    /\ \A r \in Runs : Undisturbed(r)

\* What one run does.
TrainingStep(r) == Open(r) \/ Close(r) \/ StartRun(r) \/ Log(r) \/ Finish(r) \/ Abort(r)

---------------------------------------------------------------------------
\* Nothing has been dumped or logged yet.
LEMMA TrainingInitially == TrainingInit => TrainingInv
BY TrainingAssumption DEF TrainingInit, TrainingInv, TrainingTypeOK, Types, Content, Items, Progress, Undisturbed, Exposed, Dumping

\* Every step of a run keeps the types, and what is known of every run.
LEMMA TrainingTypeStep ==
    ASSUME TrainingInv, NEW r \in Runs, TrainingStep(r)
    PROVE  TrainingTypeOK'
<1> Type[r] \in Types
  BY DEF Types
<1> USE DEF TrainingInv, TrainingTypeOK, Items, Content
<1>1. CASE Open(r)
  BY <1>1 DEF Open
<1>2. CASE Close(r)
  BY <1>2 DEF Close, Rivals
<1>3. CASE StartRun(r)
  BY <1>3 DEF StartRun
<1>4. CASE Log(r)
  BY <1>4 DEF Log
<1>5. CASE Finish(r)
  BY <1>5 DEF Finish
<1>6. CASE Abort(r)
  BY <1>6 DEF Abort
<1> QED BY <1>1, <1>2, <1>3, <1>4, <1>5, <1>6 DEF TrainingStep

LEMMA ProgressStep ==
    ASSUME TrainingInv, NEW r \in Runs, TrainingStep(r), NEW q \in Runs
    PROVE  Progress(q)'
<1> USE DEF TrainingInv, TrainingTypeOK, Items, Progress
<1>1. CASE Open(r)
  BY <1>1 DEF Open
<1>2. CASE Close(r)
  BY <1>2 DEF Close, Dumping
<1>3. CASE StartRun(r)
  BY <1>3 DEF StartRun
<1>4. CASE Log(r)
  BY <1>4 DEF Log
<1>5. CASE Finish(r)
  BY <1>5 DEF Finish
<1>6. CASE Abort(r)
  BY <1>6 DEF Abort
<1> QED BY <1>1, <1>2, <1>3, <1>4, <1>5, <1>6 DEF TrainingStep

\* The dump of one run disturbs no other that counts as undisturbed.
LEMMA UndisturbedStep ==
    ASSUME TrainingInv, NEW r \in Runs, TrainingStep(r), NEW q \in Runs
    PROVE  Undisturbed(q)'
<1> Type[r] \in Types /\ Type[q] \in Types
  BY DEF Types
<1> USE DEF TrainingInv, TrainingTypeOK, Items, Progress, Undisturbed, Exposed, Dumping, Rivals
<1>1. CASE Open(r)
  <2>1. CASE q = r
    BY <1>1, <2>1 DEF Open
  <2>2. CASE q # r /\ Type[q] = Type[r]
    BY <1>1, <2>2 DEF Open
  <2>3. CASE q # r /\ Type[q] # Type[r]
    BY <1>1, <2>3 DEF Open
  <2> QED BY <2>1, <2>2, <2>3
<1>2. CASE Close(r)
  <2>1. CASE q = r
    BY <1>2, <2>1 DEF Close
  <2>2. CASE q # r /\ Type[q] = Type[r]
    <3>1. Exposed(q) => ~alone[q]
      BY <1>2, <2>2 DEF Close
    <3> QED BY <1>2, <2>2, <3>1 DEF Close
  <2>3. CASE q # r /\ Type[q] # Type[r]
    BY <1>2, <2>3 DEF Close
  <2> QED BY <2>1, <2>2, <2>3
<1>3. CASE StartRun(r)
  BY <1>3 DEF StartRun
<1>4. CASE Log(r)
  BY <1>4 DEF Log
<1>5. CASE Finish(r)
  BY <1>5 DEF Finish
<1>6. CASE Abort(r)
  BY <1>6 DEF Abort
<1> QED BY <1>1, <1>2, <1>3, <1>4, <1>5, <1>6 DEF TrainingStep

\* The inductive invariant of overlapping training runs (train_baseline).
THEOREM TrainingInvariant == TrainingSpec => []TrainingInv
<1>1. TrainingInv /\ [TrainingNext]_trainingVars => TrainingInv'
  <2> SUFFICES ASSUME TrainingInv, [TrainingNext]_trainingVars PROVE TrainingInv'
    OBVIOUS
  <2>1. CASE \E r \in Runs : TrainingStep(r)
    <3>1. PICK r \in Runs : TrainingStep(r)
      BY <2>1
    <3> QED BY <3>1, TrainingTypeStep, ProgressStep, UndisturbedStep DEF TrainingInv
  <2>2. CASE UNCHANGED trainingVars
    BY <2>2 DEF trainingVars, TrainingInv, TrainingTypeOK, Progress, Undisturbed, Exposed, Dumping
  <2> QED BY <2>1, <2>2 DEF TrainingNext, TrainingStep
<1> QED BY <1>1, TrainingInitially, PTL DEF TrainingSpec

\* The state of the runs, their tracking runs and the files keeps its type.
THEOREM TrainingTypes == TrainingSpec => []TrainingTypeOK
<1>1. TrainingInv => TrainingTypeOK
  BY DEF TrainingInv
<1> QED BY <1>1, TrainingInvariant, PTL

\* A finished tracking run has all its items, and its own candidate unless
\* another run wrote the file meanwhile.
THEOREM FinishedRunsAreCoherent == TrainingSpec => []FinishedRunIsCoherent
<1>1. TrainingInv => FinishedRunIsCoherent
  BY DEF TrainingInv, Progress, Undisturbed, FinishedRunIsCoherent, Items
<1> QED BY <1>1, TrainingInvariant, PTL

\* From the end of a dump until its upload the file is the run's own, unless
\* another run opened it.
THEOREM CandidateIsWhole == TrainingSpec => []WholeUnlessDisturbed
<1>1. TrainingInv => WholeUnlessDisturbed
  BY DEF TrainingInv, Undisturbed, WholeUnlessDisturbed
<1> QED BY <1>1, TrainingInvariant, PTL
=============================================================================
