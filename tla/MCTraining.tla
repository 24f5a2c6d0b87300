------------------------------ MODULE MCTraining ------------------------------
(* An instance of Training for TLC: two runs of one model type and one of    *)
(* the other, in one output directory.                                       *)
EXTENDS Training, TLC

CONSTANTS x1, x2, l1

MCType == (x1 :> "xgboost") @@ (x2 :> "xgboost") @@ (l1 :> "logistic")
=============================================================================
