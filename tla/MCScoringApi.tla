---------------------------- MODULE MCScoringApi ----------------------------
(***************************************************************************)
(* The endpoint with two connections, a limit of 2, chunks of 0 to 3, and  *)
(* a declared length that is absent, malformed, at the limit or above it.  *)
(***************************************************************************)
EXTENDS ScoringApi

MCDeclarations == {NoLength, BadLength, MaxBytes, MaxBytes + 1}
=============================================================================
