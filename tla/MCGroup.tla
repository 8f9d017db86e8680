------------------------------- MODULE MCGroup -------------------------------
(***************************************************************************)
(* What the members of a group do together, side by side for TLC: the       *)
(* module's own Party Time, the invites, and the ratings.  A behaviour is   *)
(* one of exactly one service, and the others stay in their initial states. *)
(***************************************************************************)
EXTENDS Party, Integers, TLC

CONSTANTS a1, a2, b1, b2, cat

VARIABLES
  service,
  rooms, members, invites, txn, hour,
  place, made, recent, marks, gone

groupVars == <<rooms, members, invites, txn, hour>>
ladderVars == <<place, made, recent, marks, gone>>

As == {a1, a2}
Bs == {b1, b2}
Interchangeable == Permutations(As) \cup Permutations(Bs)

Group == INSTANCE Groups WITH People <- As, Rooms <- 4..5, Codes <- 6..7, Invites <- 1..3, Calls <- Bs, None <- NoPlayer,
  InviteTTL <- 1, MaxActive <- 1, MaxDaily <- 1, DayHours <- 1, MaxHour <- 1

\* 1 / (1 + 10^(-x / 400)) in millionths, to the third order.
Bend(x) == 1439 * x - (4 * x * x * x) \div 1000
EloCurve == [x \in -200..200 |-> IF x >= 0 THEN 500000 + Bend(x) ELSE 500000 - Bend(-x)]

\* Two challenges, of one group, of two, or of a group and the feed; full points and a fifth.
Spots == {<<"north", "north">>, <<"north", "south">>, <<"north", NoPlayer>>}
Rating == INSTANCE Ladder WITH Players <- {a1, a2, cat}, Posts <- 1..2, Groups <- {"north", "south"}, Places <- Spots,
  Shots <- {[base |-> 5000, elapsed |-> 4], [base |-> 5000, elapsed |-> 11]}, Window <- 12, Grace <- 4,
  Expected <- EloCurve, Unit <- 1000000, None <- NoPlayer

Services == {"party", "group", "ladder"}

GroupInit ==
  /\ service \in Services
  /\ Init
  /\ Group!Init
  /\ Rating!Init /\ (service # "ladder" => place = <<"north", "north">>)

GroupNext ==
  /\ UNCHANGED service
  /\ IF service = "party" THEN Next ELSE UNCHANGED vars
  /\ IF service = "group" THEN Group!Next ELSE UNCHANGED groupVars
  /\ IF service = "ladder" THEN Rating!Next ELSE UNCHANGED ladderVars

GroupSpec == GroupInit /\ [][GroupNext]_<<service, vars, groupVars, ladderVars>>

\* Of a party everything up to the end of the first windows, as long as the first has not
\* been awaited too long; after that the starts and status requests of those groups in
\* which nobody plays.
Explored ==
  \/ now <= 2 /\ (now = 2 => windows # {})
  \/ posts = {} /\ guesses = {} /\ \A r \in Requests : req[r].op \in {"start", "status"}

-----------------------------------------------------------------------------
(* The properties of the services, as their modules state them; those of Party are the module's own. *)

\* The caps on a group's active invites and on a player's invites of a day (groups/invites.go: CreateInvite).
CapsHold == service = "group" => Group!ActiveCapped /\ Group!DailyCapped
\* No revocation lands between validation and membership (groups/invites.go).
JoinsByLiveInvites == Group!JoinsByLiveInvites

\* Who never scored less is rated no lower and placed no later, points move and are not
\* made, and a later guess is worth no more (elo.go, leaderboard.go, score.go).
RatingsFair ==
  service = "ladder" =>
    Rating!DominanceRewarded /\ Rating!PointsConserved /\ Rating!PlacesFair /\ Rating!FasterNoWorse

\* A timeout in a group moves no rating of any ladder (groups/leaderboard.go: loadChallenges).
TimeoutsUncompared == Rating!TimeoutsUncompared
=============================================================================
