------------------------------ MODULE MCRawData ------------------------------
(* An instance of RawData for TLC: three days, two revisions; the second day *)
(* of the second revision has a row that does not convert.                   *)
EXTENDS RawData

MCUnsound == {<<2, 2>>}
=============================================================================
