----------------------------- MODULE MCPublication ----------------------------
(* Publication on one small instance; Publication_replay.cfg gives the constants. *)
EXTENDS Publication, TLC

CONSTANTS post, first, second, home, up1, up2

\* Both bodies go to the one group, for the replays of an upload to meet its photo.
TargetsDef == [x \in Bodies |-> {home}]
OrderDef == <<home>>

Interchangeable == Permutations(Requests)
=============================================================================
