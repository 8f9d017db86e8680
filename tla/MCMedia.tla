------------------------------ MODULE MCMedia ------------------------------
(***************************************************************************)
(* The media of an author under two sets of faults, side by side for TLC: a *)
(* behaviour is one of exactly one of them.  The module's own faults, those *)
(* of MediaLifecycle, include crashes and the account's deletion, of which   *)
(* no handler can clean up everything; `Orphans' has what the compensations *)
(* are made for, and commits of unknown outcome.                            *)
(***************************************************************************)
EXTENDS MediaLifecycle, TLC

CONSTANTS k1, k2, k3, k4, u1, w1, w2

VARIABLES
  service,
  store_, used_, photos_, attachments_, jobs_, obligations_, due_, act_, cleanup_, account_, results_, faults_

orphanVars == <<store_, used_, photos_, attachments_, jobs_, obligations_, due_, act_, cleanup_, account_, results_, faults_>>

\* Keys and workers are interchangeable: no property names one.
Interchangeable == Permutations(Keys) \cup Permutations(Workers)

Orphans == INSTANCE MediaLifecycle WITH
  Faults <- {"put", "delete", "slow", "unknown"}, AccountMayGo <- FALSE,
  store <- store_, used <- used_, photos <- photos_, attachments <- attachments_, jobs <- jobs_,
  obligations <- obligations_, due <- due_, act <- act_, cleanup <- cleanup_, account <- account_,
  results <- results_, faults <- faults_

Services == {"crashes", "orphans"}

MediaInit ==
  /\ service \in Services
  /\ Init
  /\ Orphans!Init

MediaNext ==
  /\ UNCHANGED service
  /\ IF service = "crashes" THEN Next ELSE UNCHANGED vars
  /\ IF service = "orphans" THEN Orphans!Next ELSE UNCHANGED orphanVars

allVars == <<service, vars, orphanVars>>

MediaSpec == MediaInit /\ [][MediaNext]_allVars

-----------------------------------------------------------------------------
(* The properties of the crashes' service are the module's own. *)

\* Every stored object is referenced by a row, is due for deletion, or is still in
\* the hands of the handler or worker that stored it (handlers/photo.go:
\* compensateMediaDeletes, mediaprocessing/worker.go: cleanupKeys).
NothingOrphaned_Orphans == Orphans!NothingOrphaned
=============================================================================
