----------------------------- MODULE MCVideoFiles -----------------------------
(* Small instances of VideoFiles for TLC.  Workers are interchangeable, and *)
(* so are rows.                                                              *)
EXTENDS VideoFiles, TLC

Symmetry == Permutations(Workers) \cup Permutations(Rows)
===============================================================================
