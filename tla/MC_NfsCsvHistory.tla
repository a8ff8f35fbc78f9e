--------------------------- MODULE MC_NfsCsvHistory ---------------------------
(* NfsCsvHistory for TLC: the cfg files give the constants.                *)
EXTENDS NfsCsvHistory, TLC
=============================================================================
