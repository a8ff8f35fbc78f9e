---------------------------- MODULE MC_NfsParquet ----------------------------
(* NfsParquet for TLC: the cfg files give the other constants.             *)
EXTENDS NfsParquet, TLC

\* Data files of different sizes, so an attribute of the wrong file shows.
MC_FileSize == [f \in Files |-> IF f = CHOOSE g \in Files : TRUE THEN 7 ELSE 9]

\* read_dir lists the file of size 7 after the other one.
MC_DirOrder == [f \in Files |-> IF f = CHOOSE g \in Files : TRUE THEN 2 ELSE 1]

\* The tasks are interchangeable: no property names one.
MC_TaskSymmetry == Permutations(Tasks)
=============================================================================
