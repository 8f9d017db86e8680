-------------------------------- MODULE MapPins -------------------------------
(***************************************************************************)
(* The map pins of one player: unlocked by challenges that are evaluated on *)
(* the recorded history, one statement after the other, while the player    *)
(* and the others play on and take back what they wrote, the picker is      *)
(* opened on another device, and a deployment retires a challenge or a pin. *)
(* Instants are the dates of the rows, one at most with each; a guess is    *)
(* dated when its request arrives and stored when it commits, so rows come  *)
(* late, into weeks that are over too.  Points are in thousands.            *)
(***************************************************************************)
EXTENDS Naturals, Sequences, FiniteSets

CONSTANTS
  Me,         \* the player; others appear in the rows
  Scenarios,  \* a sequence of catalogs of challenges, with the rows that may be recorded, the
              \* weeks of the instants, how many calls are made, and whether anything is retired
  Calls,      \* POST requests of the player's devices
  None

VARIABLES
  scenario,  \* which catalog there is
  log,       \* guesses, reactions, comments and posts, by created_at; or None
  clock,     \* the instant that has come
  active,    \* challenges that are active
  shelf,     \* pins that are active
  unlocked,  \* user_map_pin_unlocks: unlocked_at, or None
  equipped,  \* user_equipped_map_pins: the credited challenge, or None
  call,      \* progression calls
  owed,      \* history: what has been complete ever since a call began
  merits     \* history: what was deserved at some moment of a call

vars == <<scenario, log, clock, active, shelf, unlocked, equipped, call, owed, merits>>

Catalog == Scenarios[scenario]
Challenges == DOMAIN Catalog.challenges
Pin(i) == Catalog.challenges[i].pin
Criteria(i) == Catalog.challenges[i].criteria
Pins == {Pin(i) : i \in Challenges}

Instants == DOMAIN Catalog.weeks
Week(n) == Catalog.weeks[n]
Weeks == {Week(n) : n \in Instants}

Call == [pc: {"new", "judge", "award", "ok", "failed"}, now: {0} \cup Instants, left: SUBSET Challenges]

Init ==
  /\ scenario \in DOMAIN Scenarios
  /\ log = [n \in Instants |-> None] /\ clock = 1
  /\ active = Challenges /\ shelf = Pins
  /\ unlocked = [i \in Challenges |-> None] /\ equipped = None
  /\ call = [c \in Calls |-> [pc |-> "new", now |-> 0, left |-> {}]]
  /\ owed = [c \in Calls |-> Challenges] /\ merits = [c \in Calls |-> {}]

-----------------------------------------------------------------------------
(* The criteria, over the rows of the log.                                   *)

Recorded == {i \in Instants : log[i] # None}
Rows(act) == {i \in Recorded : log[i].act = act}
Attempts == {i \in Rows("guess") : log[i].who = Me}
\* NOT timed_out
Scored == {i \in Attempts : ~log[i].late}
From(source) == {i \in Scored : source = "all" \/ log[i].source = source}
\* Guesses, reactions and comments of others or of the player on public posts.
OnPublic(act) == {i \in Rows(act) : act = "guess" => log[i].source = "public" /\ ~log[i].late}
Open(act) == {i \in OnPublic(act) : log[i].audience = "public"}
Mine(act) == {i \in Open(act) : log[i].who = Me}
Received(act) == {i \in Open(act) : log[i].author = Me /\ log[i].who # Me}

Tally(points) ==
  LET sum[n \in 0..Len(points)] == IF n = 0 THEN 0 ELSE sum[n - 1] + points[n]
  IN sum[Len(points)]
Total(rows) == Tally([i \in Instants |-> IF i \in rows THEN log[i].score ELSE 0])
InWeek(rows, w) == {i \in rows : Week(i) = w}

\* A guess doubled by Party Time counts as the perfect score it was.
ScoreCount(k) ==
  Cardinality({i \in From(k.source) :
    IF k.score > 0 THEN \/ log[i].score = k.score
                        \/ k.score = 5 /\ k.source # "public" /\ log[i].score = 10 /\ log[i].source = "group"
    ELSE log[i].score >= k.minimum}) >= k.count

Breaks(i, k) == log[i].late \/ log[i].score < k.minimum

\* The loop over the attempts in the order of created_at; it ends when the goal is reached.
Streak(verdicts, goal) ==
  LET run[n \in 0..Len(verdicts)] ==
        IF n = 0 THEN 0
        ELSE IF verdicts[n] = "other" \/ run[n - 1] >= goal THEN run[n - 1]
        ELSE IF verdicts[n] = "breaks" THEN 0 ELSE run[n - 1] + 1
  IN run[Len(verdicts)]

Verdicts(k) == [n \in Instants |-> IF n \notin Attempts THEN "other" ELSE IF Breaks(n, k) THEN "breaks" ELSE "scores"]
HasScoreStreak(k) == Streak(Verdicts(k), k.count) >= k.count

DistanceCount(k) ==
  Cardinality({i \in Scored : /\ IF k.near THEN log[i].near ELSE ~log[i].near
                              /\ log[i].score >= k.minimum}) >= k.count

\* Inside the window of the player's session for the post, or its first seconds.
TimedPublicCount(k) ==
  Cardinality({i \in From("public") : log[i].timed \in (IF k.quick THEN {"quick"} ELSE {"quick", "slow"})}) >= k.count

SourceScoreCount(k) ==
  \A source \in {"group", "public"} : Cardinality({i \in From(source) : log[i].score >= k.minimum}) >= k.count

\* Locations in water or outside the boundaries have no country.
HasScoresInEnoughCountries(k) ==
  Cardinality({log[i].country : i \in {j \in Scored : log[j].score >= k.minimum /\ log[j].country # None}}) >= k.count

UniqueGroups(k) == Cardinality({log[i].place : i \in From("group")}) >= k.count
PublicAuthors(k) == Cardinality({log[i].author : i \in Mine("guess")}) >= k.count

\* Counts over rows of public posts: all of them, or the different players or posts.
PublicCount(k) ==
  LET rows == IF k.received THEN Received(k.act)
              ELSE IF k.act = "reaction" THEN {i \in Mine(k.act) : log[i].author # Me} ELSE Mine(k.act)
  IN (CASE k.distinct = "players" -> Cardinality({log[i].who : i \in rows})
        [] k.distinct = "posts" -> Cardinality({log[i].place : i \in rows})
        [] OTHER -> Cardinality(rows)) >= k.count

\* At night every guess on the feed counts, whatever the post's audience.
HourPoints(k) == Total({i \in From("public") : log[i].night}) > k.points
WeekendPoints(k) == \E w \in Weeks : LET rows == {i \in InWeek(Scored, w) : log[i].weekend} IN rows # {} /\ Total(rows) >= k.points
TotalPoints(k) == Total(Scored) >= k.points
WeeklyPoints(k, now) == \E w \in Weeks : LET rows == InWeek({i \in Scored : i < now}, w) IN rows # {} /\ Total(rows) > k.points

Over(w, now) == w < Week(now)

\* First of a group, or tied for it, in a week that is over.
GroupWeeklyRank(now) ==
  LET results(g, u, w) == {i \in InWeek(Rows("guess"), w) : /\ log[i].source = "group" /\ log[i].place = g
                                                            /\ log[i].who = u /\ ~log[i].late /\ i < now}
      rivals == {log[i].who : i \in Rows("guess")}
  IN \E w \in Weeks, g \in {log[i].place : i \in From("group")} :
       /\ Over(w, now) /\ results(g, Me, w) # {}
       /\ \A u \in rivals : Total(results(g, u, w)) <= Total(results(g, Me, w))

\* The criteria that the evaluators refuse.
Invalid(k) == "count" \in DOMAIN k /\ k.count = 0

Eligible(k, now) ==
  CASE k.kind = "score_count" -> ScoreCount(k)
    [] k.kind = "score_streak" -> HasScoreStreak(k)
    [] k.kind = "distance_count" -> DistanceCount(k)
    [] k.kind = "timed_public_count" -> TimedPublicCount(k)
    [] k.kind = "source_score_count" -> SourceScoreCount(k)
    [] k.kind = "country_score_count" -> HasScoresInEnoughCountries(k)
    [] k.kind = "unique_groups" -> UniqueGroups(k)
    [] k.kind = "public_author_count" -> PublicAuthors(k)
    [] k.kind = "public_count" -> PublicCount(k)
    [] k.kind = "utc_hour_points" -> HourPoints(k)
    [] k.kind = "weekend_points" -> WeekendPoints(k)
    [] k.kind = "total_points" -> TotalPoints(k)
    [] k.kind = "weekly_points" -> WeeklyPoints(k, now)
    [] k.kind = "group_weekly_rank" -> GroupWeeklyRank(now)
    [] OTHER -> FALSE

-----------------------------------------------------------------------------
(* Evaluation. *)

\* Mutant: a pin that is unlocked needs no second challenge.
Pending_ByPin(i) == \A j \in Challenges : Pin(j) = Pin(i) => unlocked[j] = None

Pending(i) == unlocked[i] = None

Listed == {i \in Challenges : i \in active /\ Pin(i) \in shelf /\ Pending(i)}

\* The challenges are numbered by display_order.
First(r) == CHOOSE i \in r.left : \A j \in r.left : i <= j

\* A call that has done with its first challenge.
Rest(r) == [r EXCEPT !.left = @ \ {First(r)}, !.pc = IF r.left = {First(r)} THEN "ok" ELSE "judge"]

EvaluateMapPinsForUser(c) ==
  /\ call[c].pc = "new" /\ Cardinality({d \in Calls : call[d].pc # "new"}) < Catalog.calls
  /\ call' = [call EXCEPT ![c] = [pc |-> IF Listed = {} THEN "ok" ELSE "judge", now |-> clock, left |-> Listed]]
  /\ UNCHANGED <<scenario, log, clock, active, shelf, unlocked, equipped>>

\* One criterion that is refused ends the call: the challenges after it wait.
ChallengeEligible(c) ==
  LET r == call[c]
      k == Criteria(First(r))
  IN /\ r.pc = "judge"
     /\ call' = [call EXCEPT ![c] =
          IF Invalid(k) THEN [r EXCEPT !.pc = "failed"]
          ELSE IF Eligible(k, r.now) THEN [r EXCEPT !.pc = "award"] ELSE Rest(r)]
     /\ UNCHANGED <<scenario, log, clock, active, shelf, unlocked, equipped>>

\* ON CONFLICT DO NOTHING
Inserted(i, at) == IF unlocked[i] = None THEN at ELSE unlocked[i]

AwardMapPinUnlock(c) ==
  LET r == call[c]
      i == First(r)
      held == i \in active /\ Pin(i) \in shelf
  IN /\ r.pc = "award"
     /\ unlocked' = IF held THEN [unlocked EXCEPT ![i] = Inserted(i, r.now)] ELSE unlocked
     /\ call' = [call EXCEPT ![c] = IF held \/ unlocked[i] # None THEN Rest(r) ELSE [r EXCEPT !.pc = "failed"]]
     /\ UNCHANGED <<scenario, log, clock, active, shelf, equipped>>

-----------------------------------------------------------------------------
(* The picker. *)

\* The first unlock of an active pin is credited.
EquipMapPin(p) ==
  LET routes == {i \in Challenges : Pin(i) = p /\ unlocked[i] # None}
  IN /\ p \in shelf /\ routes # {}
     /\ equipped' = CHOOSE i \in routes : \A j \in routes : unlocked[j] > unlocked[i] \/ (unlocked[j] = unlocked[i] /\ j >= i)
     /\ UNCHANGED <<scenario, log, clock, active, shelf, unlocked, call>>

ClearEquippedMapPin ==
  /\ equipped' = None
  /\ UNCHANGED <<scenario, log, clock, active, shelf, unlocked, call>>

\* The challenges a pin is shown with: active ones and those the player owns.
Route(i) == i \in active \/ unlocked[i] # None

Selected(p) == equipped # None /\ Pin(equipped) = p

\* Active pins, and the equipped one, if a challenge remains to show.
MapPinsForUser ==
  {[pin |-> p, unlocked |-> \E i \in Challenges : Pin(i) = p /\ Route(i) /\ unlocked[i] # None, selected |-> Selected(p)] :
     p \in {p \in Pins : (p \in shelf \/ Selected(p)) /\ \E i \in Challenges : Pin(i) = p /\ Route(i)}}

-----------------------------------------------------------------------------
(* The player and the others play, and take back; a migration retires. *)

OnFeed(row) == row.act = "guess" => row.source = "public"

\* One guess and one reaction of a player for a post.
Conflicts(row) ==
  /\ row.act # "comment" /\ OnFeed(row)
  /\ \E i \in Recorded : OnFeed(log[i]) /\ log[i].act = row.act /\ log[i].who = row.who /\ log[i].place = row.place

\* The row of a request that came at n is stored now.
Record(row, n) ==
  /\ n <= clock /\ log[n] = None /\ ~Conflicts(row)
  /\ log' = [log EXCEPT ![n] = row]
  /\ UNCHANGED <<scenario, clock, active, shelf, unlocked, equipped, call>>

Remove(rows) ==
  /\ rows # {}
  /\ log' = [i \in Instants |-> IF i \in rows THEN None ELSE log[i]]
  /\ UNCHANGED <<scenario, clock, active, shelf, unlocked, equipped, call>>

\* A reaction or a comment is taken back, or a comment removed by the post's author.
Withdraw(i) == log[i].act \in {"reaction", "comment"} /\ Remove({i})

\* A post takes what was done with it along.
DeletePost(p) == Remove({i \in Recorded : OnFeed(log[i]) /\ log[i].place = p})

\* An account takes its rows along, and its photos and posts.
DeleteUserCascade(u) == Remove({i \in Recorded : u \in {log[i].who, log[i].author}})

Tick ==
  /\ clock + 1 \in Instants
  /\ clock' = clock + 1
  /\ UNCHANGED <<scenario, log, active, shelf, unlocked, equipped, call>>

RetireChallenge(i) ==
  /\ Catalog.retires
  /\ active' = active \ {i}
  /\ UNCHANGED <<scenario, log, clock, shelf, unlocked, equipped, call>>

RetirePin(p) ==
  /\ Catalog.retires
  /\ shelf' = shelf \ {p}
  /\ UNCHANGED <<scenario, log, clock, active, unlocked, equipped, call>>

Places == {row.place : row \in Catalog.rows}
Others == UNION {{row.who, row.author} : row \in Catalog.rows} \ {Me}

Action ==
  \/ \E c \in Calls : EvaluateMapPinsForUser(c) \/ ChallengeEligible(c) \/ AwardMapPinUnlock(c)
  \/ \E p \in Pins : EquipMapPin(p) \/ RetirePin(p)
  \/ \E i \in Challenges : RetireChallenge(i)
  \/ \E row \in Catalog.rows, n \in Instants : Record(row, n)
  \/ \E i \in Recorded : Withdraw(i)
  \/ \E p \in Places : DeletePost(p)
  \/ \E u \in Others : DeleteUserCascade(u)
  \/ ClearEquippedMapPin \/ Tick

-----------------------------------------------------------------------------
(* What the properties remember of a call while it runs. *)

\* What a challenge promises (docs/map-pins.md), said without the queries.
Deserved(k) ==
  CASE k.kind = "score_streak" ->
         \E i, j \in Attempts :
           LET run == {n \in Attempts : i <= n /\ n <= j}
           IN Cardinality(run) = k.count /\ \A n \in run : ~log[n].late /\ log[n].score >= k.minimum
    [] k.kind = "group_weekly_rank" ->
         \E first \in Attempts : \A u \in {log[i].who : i \in Recorded} :
           LET round(v) == {i \in InWeek(Rows("guess"), Week(first)) :
                              log[i].who = v /\ log[i].place = log[first].place /\ log[i].source = "group"}
           IN Over(Week(first), clock) /\ first \in round(Me) /\ Total(round(u)) <= Total(round(Me))
    [] OTHER -> Eligible(k, clock + 1)

Complete(i, now) == i \in active /\ Pin(i) \in shelf /\ Eligible(Criteria(i), now)

Watched(c) == call'[c].pc # "new" /\ call[c].pc \notin {"ok", "failed"}

Remember ==
  /\ owed' = [c \in Calls |-> IF Watched(c) THEN {i \in owed[c] : Complete(i, call[c].now)'} ELSE owed[c]]
  /\ merits' = [c \in Calls |-> IF Watched(c) THEN merits[c] \cup {i \in Challenges : Deserved(Criteria(i))'} ELSE merits[c]]

Next == Action /\ Remember

Spec == Init /\ [][Next]_vars

-----------------------------------------------------------------------------
(* Properties. *)

TypeOK ==
  /\ scenario \in DOMAIN Scenarios /\ log \in [Instants -> Catalog.rows \cup {None}] /\ clock \in Instants
  /\ active \subseteq Challenges /\ shelf \subseteq Pins
  /\ unlocked \in [Challenges -> Instants \cup {None}] /\ equipped \in Challenges \cup {None}
  /\ call \in [Calls -> Call] /\ owed \in [Calls -> SUBSET Challenges] /\ merits \in [Calls -> SUBSET Challenges]

\* An unlock is dated by a call, and was deserved at some moment while that call
\* ran: a streak has no timeout in it, and nobody was ahead of who was first in a
\* week that was over, though rows come late and go at any time.
UnlocksEarned ==
  \A i \in Challenges : unlocked[i] # None => \E c \in Calls : unlocked[i] = call[c].now /\ i \in merits[c]

\* A call that succeeds leaves nothing locked that was complete from its beginning
\* to its end, whatever other calls, deletions and late rows did meanwhile.
EvaluationComplete == \A c \in Calls : call[c].pc = "ok" => \A i \in owed[c] : unlocked[i] # None

\* Whatever is retired, the pin that is equipped is shown, unlocked and selected.
SelectionShown == equipped # None => [pin |-> Pin(equipped), unlocked |-> TRUE, selected |-> TRUE] \in MapPinsForUser
=============================================================================
