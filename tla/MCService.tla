------------------------------ MODULE MCService ------------------------------
(* Service for TLC: one request of either kind, on each backend, over a      *)
(* clock that lets a seeded snapshot age and expire while it is under way.   *)
EXTENDS Service
=============================================================================
