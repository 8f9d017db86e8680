-------------------------- MODULE MCMediaLifecycle --------------------------
(* MediaLifecycle on one small instance; MediaLifecycle_account.cfg gives the constants. *)
EXTENDS MediaLifecycle, TLC

CONSTANTS k1, k2, k3, u1, w1

\* Keys are interchangeable: no property names one.
Interchangeable == Permutations(Keys)
=============================================================================
