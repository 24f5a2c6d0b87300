------------------------------ MODULE Threshold ------------------------------
(***************************************************************************)
(* How a trained model gets its operating threshold and passes, or fails,  *)
(* the quality gate: training/evaluation.py and training/quality_gate.py,  *)
(* called by train_baseline on the validation rows, first for the logistic *)
(* baseline and then for its challenger.                                   *)
(*                                                                         *)
(* A rate is a fraction <<numerator, denominator>>; a zero denominator is  *)
(* numpy's nan, for which every comparison is false.  scikit-learn's       *)
(* average precision is any value of Grades.                               *)
(***************************************************************************)
EXTENDS Integers, Sequences, FiniteSets

CONSTANTS
    Rows,   \* the validation rows
    Scores, \* what predict_proba may return for one
    Models, \* the models trained, "logistic" before any other
    Grades, \* values of pr_auc
    Limit   \* maximum_fpr, as a fraction

ASSUME ThresholdAssumption ==
    /\ IsFiniteSet(Rows) /\ Rows # {}
    /\ Scores \subseteq Nat /\ Grades \subseteq Nat
    /\ "logistic" \in Models
    /\ Limit \in Nat \X (Nat \ {0})

VARIABLES
    label,     \* fraud_label of each row, 0 or 1
    score,     \* per model, its scores
    order,     \* per model, the rows as argsort(scores)[::-1] lists them
    threshold, \* per model, the threshold selected, -1 before
    report,    \* per model, its Evaluation, NoReport before
    gate       \* per model, whether it passed: "none", "passed", "refused"
vars == <<label, score, order, threshold, report, gate>>

N == Cardinality(Rows)
NoReport == [recall |-> <<0, 0>>, recallAtLimit |-> <<0, 0>>, fpr |-> <<0, 0>>, prAuc |-> -1]

\* Listings with falling scores; argsort is not stable, so ties come in any
\* order, the same one whenever these scores are sorted.
Sorted(s) ==
    {o \in [1 .. N -> Rows] :
        /\ \A i, j \in 1 .. N : i < j => o[i] # o[j] /\ s[o[i]] >= s[o[j]]}

Init ==
    /\ label \in [Rows -> {0, 1}]
    /\ score \in [Models -> [Rows -> Scores]]
    /\ order \in {o \in [Models -> [1 .. N -> Rows]] : \A m \in Models : o[m] \in Sorted(score[m])}
    /\ threshold = [m \in Models |-> -1]
    /\ report = [m \in Models |-> NoReport]
    /\ gate = [m \in Models |-> "none"]

---------------------------------------------------------------------------
AtMost(p, q) == p[2] # 0 /\ q[2] # 0 /\ p[1] * q[2] <= q[1] * p[2]
Less(p, q)   == p[2] # 0 /\ q[2] # 0 /\ p[1] * q[2] < q[1] * p[2]

Labelled(S, l) == Cardinality({r \in S : label[r] = l})
Prefix(m, k) == {order[m][i] : i \in 1 .. k}
Rate(S, l) == <<Labelled(S, l), Labelled(Rows, l)>>

\* Prefixes of the listing whose false-positive rate is within the limit.
ValidCuts(m) == {k \in 1 .. N : AtMost(Rate(Prefix(m, k), 0), Limit)}
LastCut(m) == CHOOSE k \in ValidCuts(m) : \A j \in ValidCuts(m) : j <= k

\* mutant of Selected: the first row past the limit becomes the threshold
SelectedNext(m) ==
    IF ValidCuts(m) = {} THEN score[m][order[m][1]]
    ELSE score[m][order[m][IF LastCut(m) < N THEN LastCut(m) + 1 ELSE N]]

\* select_threshold: the score of the last row within the limit, the top
\* score when there is none.
Selected(m) ==
    IF ValidCuts(m) = {} THEN score[m][order[m][1]] ELSE score[m][order[m][LastCut(m)]]

\* mutant of RecallAtFpr: the first row within the limit, not the last
RecallAtFprFirst(m) ==
    IF ValidCuts(m) = {} THEN <<0, 1>>
    ELSE Rate(Prefix(m, CHOOSE k \in ValidCuts(m) : \A j \in ValidCuts(m) : k <= j), 1)

\* _recall_at_fpr
RecallAtFpr(m) == IF ValidCuts(m) = {} THEN <<0, 1>> ELSE Rate(Prefix(m, LastCut(m)), 1)

Flagged(m, t) == {r \in Rows : score[m][r] >= t}

\* recall_score has zero_division=0
Recall(m, t) == IF Labelled(Rows, 1) = 0 THEN <<0, 1>> ELSE Rate(Flagged(m, t), 1)

\* evaluate
Evaluation(m, t, grade) ==
    [recall        |-> Recall(m, t),
     recallAtLimit |-> RecallAtFpr(m),
     fpr           |-> Rate(Flagged(m, t), 0),
     prAuc         |-> grade]

\* The baseline is trained first; its evaluation is an argument of the
\* challenger's training.
Turn(m) == m = "logistic" \/ report["logistic"] # NoReport

Select(m) ==
    /\ Turn(m) /\ threshold[m] = -1
    /\ threshold' = [threshold EXCEPT ![m] = Selected(m)]
    /\ UNCHANGED <<label, score, order, report, gate>>

Evaluate(m) ==
    /\ threshold[m] # -1 /\ report[m] = NoReport
    /\ \E g \in Grades : report' = [report EXCEPT ![m] = Evaluation(m, threshold[m], g)]
    /\ UNCHANGED <<label, score, order, threshold, gate>>

\* mutant of Passes: the recall is not compared
PassesOnGrade(challenger, baseline) == ~ challenger.prAuc < baseline.prAuc

\* compare_to_baseline: no reason against it, which nan never is.
Passes(challenger, baseline) ==
    /\ ~ challenger.prAuc < baseline.prAuc
    /\ ~ Less(challenger.recallAtLimit, baseline.recallAtLimit)

Compare(m) ==
    /\ m # "logistic" /\ report[m] # NoReport /\ gate[m] = "none"
    /\ gate' = [gate EXCEPT ![m] =
                   IF Passes(report[m], report["logistic"]) THEN "passed" ELSE "refused"]
    /\ UNCHANGED <<label, score, order, threshold, report>>

Finished == \A m \in Models : report[m] # NoReport /\ (m # "logistic" => gate[m] # "none")

Next ==
    \/ \E m \in Models : Select(m) \/ Evaluate(m) \/ Compare(m)
    \/ Finished /\ UNCHANGED vars

Spec == Init /\ [][Next]_vars

---------------------------------------------------------------------------
\* The last row within the limit does not tie with the first one outside it.
CleanCut(m) ==
    /\ ValidCuts(m) # {}
    /\ LastCut(m) < N => score[m][order[m][LastCut(m)]] > score[m][order[m][LastCut(m) + 1]]

\* Where the cut is clean, the threshold select_threshold returns is within
\* the limit as evaluate applies it (score >= threshold), and no threshold
\* within the limit finds more fraud.
CleanCutIsOptimal ==
    \A m \in Models : threshold[m] # -1 /\ CleanCut(m) =>
        /\ AtMost(Rate(Flagged(m, threshold[m]), 0), Limit)
        /\ \A t \in Scores :
              AtMost(Rate(Flagged(m, t), 0), Limit)
                => ~ Less(Recall(m, threshold[m]), Recall(m, t))

\* The recall evaluate reports at the limit, by counting down the listing, is
\* reached by the threshold in use, and exactly where the cut is clean.
ReportedRecallIsReached ==
    \A m \in Models : report[m] # NoReport =>
        /\ ~ Less(report[m].recall, report[m].recallAtLimit)
        /\ CleanCut(m) => ~ Less(report[m].recallAtLimit, report[m].recall)

\* A challenger that passed the gate finds, at its own threshold, no less of
\* the fraud than the baseline was credited with at the limit.
PassedGateFindsNoLess ==
    \A m \in Models : gate[m] = "passed" =>
        ~ Less(report[m].recall, report["logistic"].recallAtLimit)

\* The threshold never exceeds the limit.  The code breaks this where scores
\* tie across the cut and where the top-scored row is already outside.
ThresholdWithinLimit ==
    \A m \in Models : threshold[m] # -1 =>
        ~ Less(Limit, Rate(Flagged(m, threshold[m]), 0))
=============================================================================
