----------------------------- MODULE MCScoring -----------------------------
(***************************************************************************)
(* Instances of Scoring for TLC.                                           *)
(*                                                                         *)
(*  - Foreign: one call, one backfill, and another writer that leaves a    *)
(*    value of each kind _parse rejects.                                   *)
(*  - Contract: two calls about the same customer and merchant, and one    *)
(*    backfill.                                                            *)
(***************************************************************************)
EXTENDS Scoring

CONSTANTS c1, m1, r1, r2, j1

\* Every entity has a row at time 0.
MCFirstSeen == [k \in Key |-> 0]

\* What a model may do: two usable answers on either side of the review
\* threshold, one at the block threshold, and one of each unusable kind.
Usable(x) == [ready |-> TRUE, raises |-> FALSE, score |-> x, version |-> ModelVersion]
MCModelAnswers ==
    {Usable(x) : x \in {0, 1, 2, Scale}}
      \cup {Usable(Scale + 1), Usable(-1),
            [Usable(0) EXCEPT !.ready = FALSE],
            [Usable(0) EXCEPT !.raises = TRUE],
            [Usable(0) EXCEPT !.version = "other"]}

\* One foreign value per check of _parse, for either side.
ForeignValue(valid, id, stamp, features) ==
    [valid |-> valid, entity |-> id, stamp |-> stamp, features |-> features]
MCForeign ==
    {ForeignValue(FALSE, c1, 0, {}),
     ForeignValue(TRUE, c1, 3, Side),
     ForeignValue(TRUE, m1, 3, {})}

MCNoForeign == {}

MCFewAnswers == {Usable(x) : x \in 0 .. 2} \cup {[Usable(0) EXCEPT !.ready = FALSE]}
MCEarlyCutoff == [j \in {j1} |-> 1]

\* One call about customer c1 and merchant m1.
MCOneTxn == [r \in {r1} |-> [customer |-> c1, merchant |-> m1]]
MCOneCutoff == [j \in {j1} |-> 2]

\* Two calls about the same customer and merchant.
MCSameTxn == [r \in {r1, r2} |-> [customer |-> c1, merchant |-> m1]]
=============================================================================
