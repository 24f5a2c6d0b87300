----------------------------- MODULE MCThreshold -----------------------------
(* Instances of Threshold for TLC: every labelling, every pair of scorings   *)
(* and every order of ties of three rows, for two models in the passing run. *)
(* At most half of the legitimate rows may be flagged.                       *)
EXTENDS Threshold

Half == <<1, 2>>
=============================================================================
