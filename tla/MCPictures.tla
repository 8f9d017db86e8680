------------------------------ MODULE MCPictures ------------------------------
(* Pictures on one small instance; Pictures_first.cfg gives the constants. *)
EXTENDS Pictures, TLC

CONSTANTS first, second, old

Interchangeable == Permutations(Uploads)
=============================================================================
