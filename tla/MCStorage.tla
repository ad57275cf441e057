------------------------------ MODULE MCStorage ------------------------------
(* Small instances of Storage. A period of one second keeps one snapshot,  *)
(* one of two seconds keeps two: hours and days, brought together.         *)
EXTENDS Storage, TLC

HourAndDay == {<<1, 1>>, <<2, 2>>}

Names == Permutations(Runs)
=============================================================================
