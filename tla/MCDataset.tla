------------------------------ MODULE MCDataset ------------------------------
(* An instance of Dataset for TLC: a good input of four rows and one of      *)
(* three, one with a duplicate id and one with an unsound row.  Boundaries   *)
(* fall on rows; both pairs split the longer good input, the first also the  *)
(* shorter one, of which the second leaves a part empty.                     *)
EXTENDS Dataset

Good(id, t) == [id |-> id, time |-> t, sound |-> TRUE]
MCFour == {Good(1, 0), Good(2, 1), Good(3, 2), Good(4, 3)}
MCThree == {Good(1, 0), Good(2, 1), Good(5, 4)}
MCDatasets ==
    {MCFour, MCThree, MCFour \cup {Good(1, 3)},
     MCFour \cup {[Good(6, 1) EXCEPT !.sound = FALSE]}}

Bounds(a, b) == [train_end |-> a, validation_end |-> b]
MCBoundaries == {Bounds(1, 3), Bounds(2, 3)}
=============================================================================
