----------------------------- MODULE MCSimulator -----------------------------
(* An instance of Simulator for TLC: one size that is not accepted, the      *)
(* smallest that is, and those up to five, and one whose currency is refused *)
(* by TransactionRequest.                                                    *)
EXTENDS Simulator

Sizes == {<<2, 5>>, <<3, 3>>, <<4, 3>>, <<5, 5>>}
MCConfigurations ==
    {[customers |-> x[1], merchants |-> x[2], typical_amount_max |-> 1000, valid |-> TRUE] :
        x \in Sizes}
    \cup {[customers |-> 5, merchants |-> 5, typical_amount_max |-> 1000, valid |-> FALSE]}
=============================================================================
