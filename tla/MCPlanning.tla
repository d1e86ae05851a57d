----------------------------- MODULE MCPlanning -----------------------------
(* A directory with a subdirectory and a file in it; texts of two lines that  *)
(* merge and that overlap, one of a single line, and a binary.                *)
EXTENDS Planning

CONSTANTS d, s, f, bin

D == <<<<d>>>>
S == <<<<d>>, <<s>>>>
F == <<<<d>>, <<s>>, <<f>>>>

MCUniverse == {D, S, F}
MCBinary == {bin}
MCVersions == {<<0, 0>>, <<1, 0>>, <<0, 1>>, <<2, 0>>, <<1>>, bin}
=============================================================================
