-------------------------------- MODULE Ladder --------------------------------
(***************************************************************************)
(* Points and ratings of players who share groups and the public feed.      *)
(* Nothing is stored but the guesses: every board is computed again from    *)
(* them, so that a guess on an old challenge moves ratings made since.      *)
(* A group's ladders replay its own challenges, those behind profiles and   *)
(* results the challenges of all groups, or of the feed as well.            *)
(* Ratings are integers; a chance of winning is in Unit-ths.                *)
(***************************************************************************)
EXTENDS Integers, FiniteSets, Functions, TLC

CONSTANTS
  Players,    \* the members of every group (the challenges are an outsider's)
  Posts,      \* challenges 1..n, by created_at
  Groups,
  Places,     \* where they may be posted: each in a group, or in the feed (None)
  Shots,      \* guesses: points for the distance, seconds since the view ended
  Window,     \* GUESS_WINDOW, in seconds
  Grace,      \* ScoreGracePeriod, in seconds
  Expected,   \* chance of winning, by the difference of ratings
  Unit,
  None

VARIABLES
  place,   \* photos.group_id, or None for a public challenge
  made,    \* challenges that have been created
  recent,  \* those of the week that is running
  marks,   \* guesses and public_guesses: score and timed_out, or None
  gone     \* accounts that were deleted, and their guesses with them

vars == <<place, made, recent, marks, gone>>

Mark == [score: 0..5000, late: BOOLEAN]

Init ==
  /\ place \in Places /\ made = {} /\ recent = {} /\ gone = {}
  /\ marks = [c \in Posts |-> [p \in Players |-> None]]

-----------------------------------------------------------------------------
(* Points. *)

\* math.Round: half away from zero.
Round(x, unit) == IF x >= 0 THEN (2 * x + unit) \div (2 * unit) ELSE -((unit - 2 * x) \div (2 * unit))

\* In thousandths: all of it for Grace, then down to a fifth in the last second.
TimeMultiplier(elapsed) ==
  LET span == Window - Grace - 1
      offset == elapsed - Grace
  IN IF elapsed < Grace THEN 1000
     ELSE IF elapsed >= Window THEN 0
     ELSE IF span <= 0 THEN 1000
     ELSE IF offset >= span THEN 200
     ELSE 1000 - (800 * offset) \div span

CalculateScoreWithTime(shot) == Round(shot.base * TimeMultiplier(shot.elapsed), 1000)

Higher(m, n) == IF m > n THEN m ELSE n
Guessed(c) == {p \in Players : marks[c][p] # None}

-----------------------------------------------------------------------------
(* Ratings. *)

InitialRating == 1000

\* A group's, that of all groups, and that of everything there is.
Ladders == [scope: Groups \cup {"groups"}, week: BOOLEAN] \cup {[scope |-> "everything", week |-> FALSE]}
AllTime(s) == [scope |-> s, week |-> FALSE]
Factor(k) == IF k.week THEN 40 ELSE 8

\* The challenges a ladder replays.
History(k) ==
  {c \in (IF k.week THEN recent ELSE made) :
     k.scope = "everything" \/ (place[c] # None /\ k.scope \in {"groups", place[c]})}

\* Mutant: the loader keeps the rows of those whose time ran out.
Counted_Late(c) == Guessed(c)

\* The rows the loaders join: a private timeout is no result, a public one is.
Counted(c) == {p \in Guessed(c) : place[c] = None \/ ~marks[c][p].late}

\* The scores of each challenge by guesser, in the order of created_at; none for one the ladder leaves out.
LoadChallenges(k) == [c \in Posts |-> [p \in IF c \in History(k) THEN Counted(c) ELSE {} |-> marks[c][p].score]]

\* Twice the result of p against q.
Result(guesses, p, q) == IF guesses[p] > guesses[q] THEN 2 ELSE IF guesses[p] < guesses[q] THEN 0 ELSE 1

Rating(ratings, p) == IF ratings[p] = None THEN InitialRating ELSE ratings[p]

\* Every pair of guessers is compared by the ratings before the challenge.
Delta(guesses, factor, p, ratings) ==
  Round(SumFunction([q \in DOMAIN guesses \ {p} |->
          factor * ((Unit * Result(guesses, p, q)) \div 2 - Expected[Rating(ratings, p) - Rating(ratings, q)])]), Unit)

\* Mutant: each player's delta is applied before the next player's is computed.
Applied_InTurn(guesses, factor, ratings) ==
  LET order == CHOOSE f \in [Players -> 1..Cardinality(Players)] : \A p, q \in Players : p # q => f[p] # f[q]
      r[n \in 0..Cardinality(Players)] ==
        IF n = 0 THEN ratings
        ELSE [p \in Players |-> IF p \in DOMAIN guesses /\ order[p] = n
                                THEN Rating(r[n - 1], p) + Delta(guesses, factor, p, r[n - 1]) ELSE r[n - 1][p]]
  IN r[Cardinality(Players)]

\* The deltas of a challenge are applied together.
Applied(guesses, factor, ratings) ==
  [p \in DOMAIN guesses |-> Rating(ratings, p) + Delta(guesses, factor, p, ratings)] @@ ratings

\* The ratings after n challenges; None is unrated.
Replay(challenges, factor) ==
  LET compared == {c \in Posts : Cardinality(DOMAIN challenges[c]) >= 2}
      next[c \in Posts, ratings \in [Players -> Int \cup {None}]] ==
        IF c \in compared THEN Applied(challenges[c], factor, ratings) ELSE ratings
      after[n \in 0..Cardinality(Posts)] == IF n = 0 THEN [p \in Players |-> None] ELSE next[n, after[n - 1]]
  IN after

ComputeRatings(k) == Replay(LoadChallenges(k), Factor(k))[Cardinality(Posts)]

\* What each challenge changed; nothing for a challenge that was not compared.
ComputeChallengeDeltas(k) ==
  LET replay == Replay(LoadChallenges(k), Factor(k))
      change(before, after) == [p \in Players |-> Rating(after, p) - Rating(before, p)]
  IN [c \in Posts |-> change(replay[c - 1], replay[c])]

-----------------------------------------------------------------------------
(* Boards. *)

Sum(rows) == SumFunction([r \in rows |-> marks[r[1]][r[2]].score])

\* A player's guesses in some groups, timed out ones included.
Rows(p, groups) == {r \in Posts \X {p} : place[r[1]] \in groups /\ marks[r[1]][p] # None}

\* A group's board of all time; the total is of all groups.  (A week's points are
\* left out: they select guesses by their time, where ratings select challenges.)
LeaderboardForPeriod(g) ==
  LET ratings == ComputeRatings(AllTime(g))
  IN [p \in Players \ gone |->
       [score |-> Sum(Rows(p, {g})), count |-> Cardinality(Rows(p, {g})), total |-> Sum(Rows(p, Groups)),
        elo |-> IF ratings[p] = None THEN 0 ELSE ratings[p]]]

\* p is placed before q; what is left is decided by the name.
SortLeaderboard(board, metric, p, q) ==
  LET a == board[p]
      b == board[q]
      average(x, y) == x.score * Higher(y.count, 1)
      Ordered(x, y) == x > y \/ (x = y /\ a.total > b.total)
  IN CASE metric = "elo" -> Ordered(a.elo, b.elo)
       [] metric = "average" -> Ordered(average(a, b), average(b, a))
       [] OTHER -> Ordered(a.score, b.score)

\* RANK over the averages, in all groups, of those with a guess; 0 for the others.
GlobalAverageRank(p) ==
  LET ranked == {q \in Players \ gone : Rows(q, Groups) # {}}
      above(q) == Sum(Rows(q, Groups)) * Cardinality(Rows(p, Groups)) > Sum(Rows(p, Groups)) * Cardinality(Rows(q, Groups))
  IN IF p \in ranked THEN 1 + Cardinality({q \in ranked : above(q)}) ELSE 0

\* The player's place among those that the challenges of all groups rate; 0 for the unrated.
GlobalElo(ratings, p) ==
  IF ratings[p] = None THEN 0 ELSE 1 + Cardinality({q \in Players : ratings[q] # None /\ ratings[q] > ratings[p]})

-----------------------------------------------------------------------------

Post(c) ==
  /\ c \notin made /\ \A d \in Posts : d < c => d \in made
  /\ made' = made \cup {c} /\ recent' = recent \cup {c}
  /\ UNCHANGED <<place, marks, gone>>

Guess(c, p, shot) ==
  /\ c \in made /\ p \notin gone /\ marks[c][p] = None
  /\ marks' = [marks EXCEPT ![c][p] = [score |-> CalculateScoreWithTime(shot), late |-> FALSE]]
  /\ UNCHANGED <<place, made, recent, gone>>

TimedOut(c, p) ==
  /\ c \in made /\ p \notin gone /\ marks[c][p] = None
  /\ marks' = [marks EXCEPT ![c][p] = [score |-> 0, late |-> TRUE]]
  /\ UNCHANGED <<place, made, recent, gone>>

DeleteAccount(p) ==
  /\ p \in Players \ gone
  /\ gone' = gone \cup {p}
  /\ marks' = [c \in Posts |-> [marks[c] EXCEPT ![p] = None]]
  /\ UNCHANGED <<place, made, recent>>

\* Monday, 00:00 UTC.
NewWeek ==
  /\ recent' = {}
  /\ UNCHANGED <<place, made, marks, gone>>

Next ==
  \/ \E c \in Posts : Post(c)
  \/ \E c \in Posts, p \in Players : TimedOut(c, p) \/ \E shot \in Shots : Guess(c, p, shot)
  \/ \E p \in Players : DeleteAccount(p)
  \/ NewWeek

Spec == Init /\ [][Next]_vars

-----------------------------------------------------------------------------
(* Properties. *)

TypeOK ==
  /\ place \in Places /\ made \subseteq Posts /\ recent \subseteq made /\ gone \subseteq Players
  /\ marks \in [Posts -> [Players -> Mark \cup {None}]]

\* No points are made or lost but by rounding: what a challenge changes adds up
\* to nothing for two guessers, and to at most half a point per guesser.
PointsConserved ==
  \A k \in Ladders : LET deltas == ComputeChallengeDeltas(k) IN \A c \in Posts :
    LET sum == SumFunction(deltas[c])
        n == Cardinality(Counted(c))
    IN -n <= 2 * sum /\ 2 * sum <= n /\ (n <= 2 => sum = 0)

\* p has as many guesses and timeouts as q, on the same challenges, and never scored less.
NoWorse(p, q, challenges) ==
  \A c \in challenges :
    /\ marks[c][p] = None <=> marks[c][q] = None
    /\ marks[c][p] # None => marks[c][p].late = marks[c][q].late /\ marks[c][p].score >= marks[c][q].score

\* Two players with the same results have the same rating, and one who was no worse
\* is on no ladder behind: neither the order of a challenge's guessers nor their
\* names matter.  (With many guessers the summed deltas overshoot and the
\* comparison fails: README.)
DominanceRewarded ==
  \A k \in Ladders :
    LET ratings == ComputeRatings(k)
    IN \A p, q \in Players \ gone : NoWorse(p, q, History(k)) =>
         /\ ratings[p] = None <=> ratings[q] = None
         /\ ratings[p] # None => ratings[p] >= ratings[q]

\* Who was no worse in all the groups they share is placed behind the other on no
\* group's board, by points, average or rating and the total that breaks ties, and
\* has no later place in the profile, by average or by rating.
PlacesFair ==
  LET ratings == ComputeRatings(AllTime("groups"))
      behind == {pq \in (Players \ gone) \X (Players \ gone) : NoWorse(pq[1], pq[2], {c \in made : place[c] # None})}
  IN /\ \A g \in Groups : LET board == LeaderboardForPeriod(g)
           IN \A pq \in behind, m \in {"total", "average", "elo"} : ~SortLeaderboard(board, m, pq[2], pq[1])
     /\ \A pq \in behind :
          /\ GlobalAverageRank(pq[1]) <= GlobalAverageRank(pq[2])
          /\ GlobalElo(ratings, pq[1]) <= GlobalElo(ratings, pq[2])

\* Of two guesses as near, the earlier is worth no less, and as long as the
\* window is open a fifth of the points is left, rounded.
FasterNoWorse ==
  \A s \in Shots, e \in 0..(Window - 1) :
    LET points(elapsed) == CalculateScoreWithTime([s EXCEPT !.elapsed = elapsed])
    IN points(e) >= points(e + 1) /\ 10 * points(e) + 5 >= 2 * s.base

\* A player whose time ran out is not compared: no rating moves on any ladder, nor
\* does any other row of the groups' boards.
TimeoutsUncompared ==
  [][\A c \in Posts, p \in Players : place[c] # None /\ TimedOut(c, p) =>
       /\ \A k \in Ladders : ComputeRatings(k)' = ComputeRatings(k)
       /\ \A g \in Groups, q \in Players \ (gone \cup {p}) : LeaderboardForPeriod(g)[q]' = LeaderboardForPeriod(g)[q]]_vars
=============================================================================
