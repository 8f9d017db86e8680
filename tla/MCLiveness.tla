------------------------------ MODULE MCLiveness ------------------------------
(***************************************************************************)
(* What must happen at last, for the services that wait for something, side *)
(* by side for TLC: a behaviour is one of exactly one service, under the    *)
(* fairness of that service.  The module's own publications are the uploads *)
(* of two bodies under one key, while the author deletes the post between   *)
(* them; its safety is checked here too.                                    *)
(***************************************************************************)
EXTENDS Publication, TLC

CONSTANTS ann, bob, post, home, trip, m1, m2

VARIABLES
  service,
  traffic, active, version, blocked, kicking, sock, queue, posting, used, channel, stored, hub, kicks, sweep,
  stopping, owed, handled, closes, overtaken,
  store, generated, rows, attachments, videos, obligations, due, act, cleanup, account, results, failures,
  ops, owner, muted, barred, note, jobs, worker, subscribe, depth, drops, halt, taken,
  rooms, members, invites, txn, hour

hubVars == <<traffic, active, version, blocked, kicking, sock, queue, posting, used, channel, stored, hub,
  kicks, sweep, stopping, owed, handled, closes, overtaken>>
mediaVars == <<store, generated, rows, attachments, videos, obligations, due, act, cleanup, account, results,
  failures>>
notifyVars == <<ops, owner, muted, barred, note, jobs, worker, subscribe, depth, drops, halt, taken>>
groupVars == <<rooms, members, invites, txn, hour>>

\* The one body goes to a part of the groups of the other.
TargetsDef == [b \in Bodies |-> IF b = ann THEN {home} ELSE {home, trip}]
OrderDef == <<home, trip>>

Mixes == {{"text", "stop"}, {"delete", "sweep"}, {"media", "invalid"}}

Hub == INSTANCE ChatHub WITH Users <- {ann, bob}, Rooms <- {home}, Sockets <- {post}, Messages <- {m1, m2},
  Buffer <- 1, SendBuffer <- 1, KickBuffer <- 1, MaxVersion <- 1, Traffic <- Mixes

Media == INSTANCE MediaLifecycle WITH Keys <- {ann, bob, home}, Uploads <- {post}, Workers <- {m1}, MaxGroups <- 1,
  Faults <- {"crash", "slow", "db", "delete"}, MaxFaults <- 1, AccountMayGo <- FALSE,
  used <- generated, photos <- rows, jobs <- videos, faults <- failures

Pusher == INSTANCE Push WITH Users <- {ann, bob}, Endpoints <- {home, trip}, HostOf <- [e \in {home, trip} |-> "push service"],
  Notices <- {m1, m2}, Senders <- {ann}, Workers <- {post}, Subscribers <- {}, QueueDepth <- 1, PerHost <- 1, MaxPerUser <- 1,
  Mix <- {{"stop"}}

Group == INSTANCE Groups WITH People <- {ann, bob}, Rooms <- 4..5, Codes <- 6..6, Invites <- 1..2, Calls <- {m1, m2},
  InviteTTL <- 1, MaxActive <- 1, MaxDaily <- 1, DayHours <- 1, MaxHour <- 0

Services == {"hub", "publication", "media", "push", "group"}

LivenessInit ==
  /\ service \in Services
  /\ Hub!Init /\ (service # "hub" => traffic = {"text", "stop"})
  /\ Init
  /\ Media!Init
  /\ Pusher!Init /\ (service # "push" => owner = [e \in {home, trip} |-> None])
  /\ Group!Init

LivenessNext ==
  /\ UNCHANGED service
  /\ IF service = "hub" THEN Hub!Next ELSE UNCHANGED hubVars
  /\ IF service = "publication" THEN Next ELSE UNCHANGED vars
  /\ IF service = "media" THEN Media!Next ELSE UNCHANGED mediaVars
  /\ IF service = "push" THEN Pusher!Next ELSE UNCHANGED notifyVars
  /\ IF service = "group" THEN Group!Next ELSE UNCHANGED groupVars

\* The fairness of a service that rests asks for nothing: its actions are
\* disabled in its initial state.  Only the cleanup of the media runs by itself.
MediaFairness ==
  /\ WF_mediaVars(service = "media" /\ (Media!WorkerSteps(m1) \/ Media!ActorSteps(m1)))
  /\ WF_mediaVars(service = "media" /\ Media!CleanupSteps)
  /\ \A k \in {ann, bob, home} : WF_mediaVars(service = "media" /\ Media!BackoffEnds(k))
  /\ WF_mediaVars(service = "media" /\ Media!ClaimGetsStale(post))

LivenessSpec ==
  LivenessInit /\ [][LivenessNext]_<<service, hubVars, vars, mediaVars, notifyVars, groupVars>>
    /\ Hub!Fairness /\ Fairness /\ MediaFairness /\ Pusher!Fairness /\ Group!Fairness

-----------------------------------------------------------------------------
(* The properties of the services, as their modules state them; those of Publication are the module's own. *)

\* The sockets of a deleted account are closed at last (hub.go: startRevalidation).
DeletedAccountsLeave == Hub!DeletedAccountsLeave
\* Who posts or sends is not held up for ever, and the pumps of a socket end (hub.go:
\* Run); a notification leaves its queue, and Stop returns (push/notifier.go); requests
\* never all wait for each other's rows (groups/invites.go).
NobodyWaitsForever == Hub!SendersServed /\ Hub!PumpsEnd /\ Pusher!QueueMoves /\ Group!CallsEnd

\* Every video is done with, and every deletion job of an upload or a publication is
\* completed (mediaprocessing/worker.go, cleanup.go).
ObligationsEnd == Media!ObligationsEnd /\ Media!JobsEnd /\ JobsDone
=============================================================================
