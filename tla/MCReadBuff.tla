----------------------------- MODULE MCReadBuff -----------------------------
(***************************************************************************)
(* A page of one unit is doubled twice before the stream ends.             *)
(***************************************************************************)
EXTENDS ReadBuff, TLC
=============================================================================
