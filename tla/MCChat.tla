------------------------------- MODULE MCChat -------------------------------
(***************************************************************************)
(* Chat and what surrounds it, side by side for TLC: the module's own hub,  *)
(* the pages of the chat, a tab that reads them, notifications, rate limits *)
(* and the unlocking of map pins.  A behaviour is one of exactly one        *)
(* service, and the others stay in their initial states.  What may be       *)
(* interchanged in a service is taken from three pairs of values, so that   *)
(* one small group of permutations serves all of them.                      *)
(***************************************************************************)
EXTENDS ChatHub, Integers, TLC

CONSTANTS a1, a2, b1, b2, c1, c2, ann, bob, here, there

VARIABLES
  service,
  lines, apart, seen, first, cursor, more, boundary, reacted, loaded, moment, late,
  posted, group, turn, phase, timers, socks, wire, ref, anchor, synced, fetches, caught, stream, hints, cache, older,
  loading, visit, scrollable, confirmed, slips,
  ops, owner, muted, barred, note, jobs, worker, subscribe, depth, drops, halt, taken,
  time, store, check, grants, lost, asked, advice,
  scenario, log, clock, pinActive, shelf, unlocked, equipped, call, pinOwed, merits

syncVars == <<lines, apart, seen, first, cursor, more, boundary, reacted, loaded, moment, late>>
clientVars == <<posted, group, turn, phase, timers, socks, wire, ref, anchor, synced, fetches, caught, stream, hints,
  cache, older, loading, visit, scrollable, confirmed, slips>>
notifyVars == <<ops, owner, muted, barred, note, jobs, worker, subscribe, depth, drops, halt, taken>>
limiterVars == <<time, store, check, grants, lost, asked, advice>>
pinsVars == <<scenario, log, clock, pinActive, shelf, unlocked, equipped, call, pinOwed, merits>>

As == {a1, a2}
Bs == {b1, b2}
Cs == {c1, c2}
Interchangeable == Permutations(As) \cup Permutations(Bs) \cup Permutations(Cs)

Mixes == {{"text", "block"}, {"sweep", "stop"}, {"revoke", "stop"}, {"delete"}, {"media"}, {"challenge"}, {"update", "invalid"}}

\* Rows of the history of the map pins.
Row(who, source, score) == [act |-> "guess", who |-> who, source |-> source, score |-> score, late |-> FALSE,
  place |-> here, author |-> bob, audience |-> "public", country |-> here, near |-> TRUE, timed |-> "no", night |-> FALSE, weekend |-> FALSE]
TimedOutRow(row) == [row EXCEPT !.late = TRUE, !.score = 0]
Deed(act, who, author, place) == [act |-> act, who |-> who, author |-> author, place |-> place, audience |-> "public"]
Entry(pin, criteria) == [pin |-> pin, criteria |-> criteria]
Scenario(n, weeks, challenges, rows) == [calls |-> n, weeks |-> weeks, retires |-> FALSE, challenges |-> challenges, rows |-> rows]
\* The kinds of criteria, two or three in a catalog.
CatalogsPlayed == <<
  Scenario(1, <<1, 1, 2>>, <<Entry(here, [kind |-> "score_streak", minimum |-> 4, count |-> 2]), Entry(there, [kind |-> "total_points", points |-> 8])>>,
    {Row(ann, "group", 5), TimedOutRow(Row(ann, "group", 5))}),
  Scenario(2, <<1, 2>>, <<Entry(here, [kind |-> "score_count", score |-> 5, minimum |-> 0, source |-> "all", count |-> 1]),
                Entry(here, [kind |-> "source_score_count", minimum |-> 4, count |-> 1]),
                Entry(there, [kind |-> "unique_groups", count |-> 0])>>,
    {Row(ann, "group", 10), Row(ann, "public", 5)}),
  Scenario(1, <<1, 1, 2>>, <<Entry(here, [kind |-> "group_weekly_rank"]), Entry(here, [kind |-> "weekly_points", points |-> 4])>>,
    {Row(ann, "group", 5), [Row(bob, "group", 10) EXCEPT !.author = ann]}),
  Scenario(1, <<1, 2>>, <<Entry(here, [kind |-> "country_score_count", minimum |-> 4, count |-> 2]),
                Entry(there, [kind |-> "distance_count", near |-> FALSE, minimum |-> 3, count |-> 1]),
                Entry(there, [kind |-> "timed_public_count", quick |-> TRUE, count |-> 1])>>,
    {[Row(ann, "public", 4) EXCEPT !.timed = "quick"], [Row(ann, "group", 4) EXCEPT !.country = there, !.near = FALSE]}),
  Scenario(1, <<1, 2>>, <<Entry(here, [kind |-> "public_count", act |-> "reaction", received |-> FALSE, distinct |-> "posts", count |-> 2]),
                Entry(there, [kind |-> "public_count", act |-> "guess", received |-> TRUE, distinct |-> "players", count |-> 1]),
                Entry(there, [kind |-> "public_count", act |-> "comment", received |-> FALSE, distinct |-> "no", count |-> 1])>>,
    {Deed("reaction", ann, bob, here), Deed("reaction", ann, bob, there), Deed("comment", ann, bob, here), [Row(bob, "public", 1) EXCEPT !.author = ann]}),
  Scenario(1, <<1, 1, 2>>, <<Entry(here, [kind |-> "utc_hour_points", points |-> 4]), Entry(there, [kind |-> "weekend_points", points |-> 8]),
                Entry(there, [kind |-> "public_author_count", count |-> 1])>>,
    {[Row(ann, "public", 5) EXCEPT !.night = TRUE, !.audience = "friends"], [Row(ann, "public", 4) EXCEPT !.weekend = TRUE, !.place = there],
     [Row(ann, "group", 4) EXCEPT !.weekend = TRUE]})>>

\* Two routes to one pin, both of which may be retired.
CatalogsRetired == <<[Scenario(2, <<1, 2>>, <<Entry(here, [kind |-> "total_points", points |-> 5]), Entry(here, [kind |-> "total_points", points |-> 10])>>,
                  {Row(ann, "group", 5)}) EXCEPT !.retires = TRUE]>>

Catalogs == CatalogsPlayed \o CatalogsRetired

Sync == INSTANCE ChatSync WITH Chatters <- As, Liked <- {2}, Lines <- 1..3, PageLimit <- 1, MaxMoment <- 1

Tab == INSTANCE ChatClient WITH Groups <- Cs, PageSize <- 1, CatchUpLimit <- 1, MaxLines <- 3, MaxTurn <- 3,
  log <- stream, more <- scrollable

Pusher == INSTANCE Push WITH Users <- {ann, bob}, Endpoints <- Cs, HostOf <- [e \in Cs |-> "push service"], Notices <- Bs,
  Senders <- {ann, bob}, Workers <- As, Subscribers <- {here, there}, QueueDepth <- 1, PerHost <- 1, MaxPerUser <- 1,
  Mix <- {{"stop"}, {"block"}, {"mute"}, {"subscribe"}}

\* Two policies over the same buckets: two requests per address in two units
\* of time, one per account in four.
Limiter == INSTANCE RateLimiter WITH Policies <- {ann, bob}, Buckets <- [p \in {ann, bob} |-> <<here, there>>],
  Limit <- [b \in {here, there} |-> IF b = here THEN 2 ELSE 1],
  Window <- [b \in {here, there} |-> IF b = here THEN 2 ELSE 4],
  PerSecond <- 2, FailClosed <- {ann}, Clients <- As, Capacity <- 3, Sample <- 2, MaxNow <- 3, MaxGrants <- 3

Pins == INSTANCE MapPins WITH Me <- ann, Scenarios <- Catalogs, Calls <- As,
  active <- pinActive, owed <- pinOwed

Services == {"hub", "sync", "tab", "push", "limiter", "pins"}

ChatInit ==
  /\ service \in Services
  /\ Init /\ (service # "hub" => traffic = {"challenge"})
  /\ Sync!Init
  /\ Tab!Init /\ (service # "tab" => group = c1)
  /\ Pusher!Init /\ (service # "push" => ops = {"stop"} /\ owner = [e \in Cs |-> None])
  /\ Limiter!Init
  /\ Pins!Init /\ (service # "pins" => scenario = 1)

ChatNext ==
  /\ UNCHANGED service
  /\ IF service = "hub" THEN Next ELSE UNCHANGED vars
  /\ IF service = "sync" THEN Sync!Next ELSE UNCHANGED syncVars
  /\ IF service = "tab" THEN Tab!Next ELSE UNCHANGED clientVars
  /\ IF service = "push" THEN Pusher!Next ELSE UNCHANGED notifyVars
  /\ IF service = "limiter" THEN Limiter!Next ELSE UNCHANGED limiterVars
  /\ IF service = "pins" THEN Pins!Next ELSE UNCHANGED pinsVars

ChatSpec == ChatInit /\ [][ChatNext]_<<service, vars, syncVars, clientVars, notifyVars, limiterVars, pinsVars>>

\* The tab reconnects once with all its messages, or twice with fewer.
Explored == turn <= 2 \/ Len(posted) <= 2

-----------------------------------------------------------------------------
(* The properties of the services, as their modules state them; those of ChatHub are the module's own. *)

\* A reader that is told there is no next page is up to date, what was read stays
\* read, and no reaction reaches a message across a block (messages.go, reactions.go).
PagesAreTrue == Sync!EndIsTheEnd /\ Sync!ReadStaysRead /\ Sync!NoReactionAcrossBlock

\* What was stored while a client walked back is the only gap in its pages
\* (messages.go), and a tab misses nothing but in the ways its module names, stays
\* in its group and with one socket (chatSocketController.ts, useGroupMessages.ts).
NothingMissed ==
  /\ service = "sync" => Sync!NoGap
  /\ service = "tab" => Tab!CatchUpComplete /\ Tab!EndOfHistory /\ Tab!OneConnection /\ Tab!ViewBelongs

\* No notification is sent across a committed block (app.go: FilterDelivery).
NoPushAcrossBlock == Pusher!NoPushAcrossBlock

\* No window admits more than its limit, nor less because of what it refused, in a
\* bounded store (middleware/limiter.go: allow); no queue, host or user has more
\* than its share, and what does not fit is counted (push/notifier.go, store.go).
LimitsHold ==
  /\ service = "limiter" => Limiter!LimitsHold /\ Limiter!StoreBounded /\ Limiter!RefusedIsFree /\ Limiter!AdviceHonest
  /\ service = "push" => Pusher!QueueAccounted /\ Pusher!CapKept /\ Pusher!HostsSpared

\* A successful evaluation leaves nothing locked that was complete all the while, nothing is
\* unlocked that was not deserved while its call ran, and the pin in use is shown, though rows come
\* late and are deleted at any time (pins/progress.go, pins/progress_evaluators.go, pins/map_pins.go).
UnlocksRight == service = "pins" => Pins!EvaluationComplete /\ Pins!UnlocksEarned /\ Pins!SelectionShown
=============================================================================
