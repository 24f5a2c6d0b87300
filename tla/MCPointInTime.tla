---------------------------- MODULE MCPointInTime ----------------------------
(***************************************************************************)
(* Three transactions over three instants: every tie, every order, one or  *)
(* two customers and merchants.                                            *)
(***************************************************************************)
EXTENDS PointInTime

CONSTANTS c1, c2, m1, m2

\* The amount and the label go together to keep the histories few; the
\* larger amount may come first or last.
MCContents ==
    {[customer |-> c, merchant |-> m, time |-> t, amount |-> a, fraud |-> a - 1] :
        c \in {c1, c2}, m \in {m1, m2}, t \in 0 .. 2, a \in {1, 2}}
=============================================================================
