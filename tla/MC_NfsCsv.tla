------------------------------ MODULE MC_NfsCsv ------------------------------
(* NfsCsv for TLC: the cfg files give the constants.                       *)
EXTENDS NfsCsv
=============================================================================
