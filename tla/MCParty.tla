------------------------------ MODULE MCParty ------------------------------
(* Party on small instances; the .cfg files give the constants. *)
EXTENDS Party, TLC

CONSTANTS ann, bob, r1, r2

\* Requests and players are interchangeable: no property names one.
Interchangeable == Permutations(Requests) \cup Permutations(Players)

\* Everything up to the end of the first windows; after that the starts and
\* status requests of those groups in which nobody plays.
Explored ==
  \/ now <= 2
  \/ posts = {} /\ guesses = {} /\ \A r \in Requests : req[r].op \in {"start", "status"}
=============================================================================
