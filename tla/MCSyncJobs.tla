------------------------------ MODULE MCSyncJobs ------------------------------
(* Small instances of SyncJobs for TLC.  Playlists, videos and tasks are    *)
(* interchangeable wherever the cfg gives them the same owner and sizes.    *)
EXTENDS SyncJobs, TLC

CONSTANTS u1, u2, p1, v1, v2, mp3

\* Every playlist belongs to the one user.
SoleOwner == [p \in Playlists |-> u1]

\* The first playlist belongs to u1 and the other to u2.
OneEach == [p \in Playlists |-> IF p = p1 THEN u1 ELSE u2]

\* Files of one unit in every format.
UnitSizes == [v \in Videos |-> [f \in Formats |-> 1]]

\* Files of two units in every format.
DoubleSizes == [v \in Videos |-> [f \in Formats |-> 2]]

\* Tasks may be exchanged; used only in runs without liveness properties.
TaskSymmetry == Permutations(Tasks)
===============================================================================
