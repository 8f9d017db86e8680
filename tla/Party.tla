------------------------------- MODULE Party -------------------------------
(***************************************************************************)
(* Party Time in one group: members start a party, post challenges, guess, *)
(* and ask for the party's status.  Every handler reads the clock before   *)
(* its database steps, so two starts may take the group row's lock in the  *)
(* order opposite to that of their instants.  All windows have the same    *)
(* length and are named by their start, which no two of them share.        *)
(*                                                                         *)
(* The lock (FOR UPDATE on the group row) is held by the request whose pc  *)
(* is "locked"; it excludes the FOR KEY SHARE lock that the foreign keys   *)
(* of photos, guesses and messages take on every insert.                   *)
(***************************************************************************)
EXTENDS Naturals, FiniteSets

CONSTANTS
  Players,    \* the group's members
  NoPlayer,   \* the player of an idle request
  Requests,   \* handler goroutines that can be in flight at once
  Duration,   \* PARTY_TIME_DURATION
  Cooldown,   \* PARTY_TIME_COOLDOWN
  MaxPosts,   \* bound on the challenges posted
  MaxGuesses, \* bound on the guesses recorded
  MaxTime     \* bound on the clock

ASSUME PlayerAssumption == NoPlayer \notin Players

ASSUME DurationAssumption ==
  /\ Duration \in Nat \ {0}
  /\ Cooldown \in Nat
  /\ {MaxPosts, MaxGuesses, MaxTime} \subseteq Nat

VARIABLES
  now,        \* the wall clock
  windows,    \* group_party_times: started_at of each recorded party
  posts,      \* photos of the group: who posted, and created_at
  guesses,    \* guesses on the group's photos, with the factor they scored with
  announced,  \* windows whose system message is stored in the chat
  pushed,     \* windows the members were sent a push notification for
  req,        \* the requests in flight
  promised    \* history: the latest next_available_at any client was told

vars == <<now, windows, posts, guesses, announced, pushed, req, promised>>

Ops == {"start", "post", "guess", "status"}
Steps == {"idle", "ready", "locked", "announce", "push", "scored", "build", "replied"}
Statuses == {"none", "created", "internal_error", "party_active", "party_recharging"}

Post == [user : Players, at : Nat]
GuessRow == [user : Players, at : Nat, doubled : BOOLEAN, entitled : BOOLEAN]

\* "latest" is what the status query returned; "entitled" (of a guess) and
\* "told" (of a start) are history: what the database already said, and what a
\* client already knew, when the request arrived.
Request == [pc : Steps, op : Ops, user : Players \cup {NoPlayer}, at : Nat, doubled : BOOLEAN,
            latest : SUBSET Nat, entitled : BOOLEAN, told : Nat, status : Statuses]

Idle == [pc |-> "idle", op |-> "start", user |-> NoPlayer, at |-> 0, doubled |-> FALSE,
         latest |-> {}, entitled |-> FALSE, told |-> 0, status |-> "none"]

Init ==
  /\ now = 0
  /\ windows = {} /\ posts = {} /\ guesses = {} /\ announced = {} /\ pushed = {}
  /\ req = [r \in Requests |-> Idle]
  /\ promised = 0

-----------------------------------------------------------------------------
(* Windows. *)

Active(w, at) == w <= at /\ at < w + Duration

NextAvailableAt(w) == w + Duration + Cooldown

Latest(S) == CHOOSE w \in S : \A v \in S : v <= w

\* Mutant: the window that started first is taken for the latest.
LatestStarted_First(at) ==
  LET started == {w \in windows : w <= at}
  IN  IF started = {} THEN {} ELSE {CHOOSE w \in started : \A v \in started : w <= v}

\* The latest window that has started by "at" (a set of at most one).
LatestStarted(at) ==
  LET started == {w \in windows : w <= at}
  IN  IF started = {} THEN {} ELSE {Latest(started)}

StartRefusal(at) ==
  IF \E w \in LatestStarted(at) : Active(w, at) THEN "party_active"
  ELSE IF \E w \in LatestStarted(at) : at < NextAvailableAt(w) THEN "party_recharging"
  ELSE "none"

Posted(u, w) == \E p \in posts : p.user = u /\ p.at >= w

\* Mutant: any member's post unlocks the bonus.
Doubled_AnyPost(u, at) ==
  LET active == {w \in windows : Active(w, at)}
  IN  active # {} /\ \E p \in posts : p.at >= Latest(active)

\* ScoreMultiplier: the guess doubles when its player posted since the start
\* of the latest window active at its instant.
Doubled(u, at) ==
  LET active == {w \in windows : Active(w, at)}
  IN  active # {} /\ Posted(u, Latest(active))

-----------------------------------------------------------------------------
(* Requests. *)

At(r, step, op) == req[r].pc = step /\ req[r].op = op

Goto(r, step) == req' = [req EXCEPT ![r].pc = step]

\* The answer to a start is kept until the client leaves; the others tell
\* nothing more.
Answer(r, status) == req' = [req EXCEPT ![r].pc = "replied", ![r].status = status]

Done(r) == req' = [req EXCEPT ![r] = Idle]

GroupLocked == \E r \in Requests : req[r].pc = "locked"

\* A request arrives, its handler checks membership and reads the clock.
Arrive(r, u, op) ==
  /\ req[r].pc = "idle"
  /\ req' = [req EXCEPT ![r] =
       [Idle EXCEPT !.pc = "ready", !.op = op, !.user = u, !.at = now,
                    !.told = IF op = "start" THEN promised ELSE 0,
                    !.entitled = op = "guess" /\ \E w \in windows : Active(w, now) /\ Posted(u, w)]]
  /\ UNCHANGED <<now, windows, posts, guesses, announced, pushed, promised>>

\* The answer is read, or the client goes away or the server dies half-way: an
\* open transaction rolls back, what was committed stays.
Leave(r) ==
  /\ req[r].pc # "idle"
  /\ Done(r)
  /\ UNCHANGED <<now, windows, posts, guesses, announced, pushed, promised>>

-----------------------------------------------------------------------------
(* POST /group/party. *)

StartRefused(r) ==
  /\ At(r, "ready", "start") /\ ~GroupLocked
  /\ StartRefusal(req[r].at) # "none"
  /\ Answer(r, StartRefusal(req[r].at))
  /\ UNCHANGED <<now, windows, posts, guesses, announced, pushed, promised>>

\* Mutant: the group row is read without FOR UPDATE.
StartLocked_Unlocked(r) ==
  /\ At(r, "ready", "start")
  /\ StartRefusal(req[r].at) = "none"
  /\ Goto(r, "locked")
  /\ UNCHANGED <<now, windows, posts, guesses, announced, pushed, promised>>

\* The lock is taken, and the latest window read under it forbids nothing.
StartLocked(r) ==
  /\ At(r, "ready", "start") /\ ~GroupLocked
  /\ StartRefusal(req[r].at) = "none"
  /\ Goto(r, "locked")
  /\ UNCHANGED <<now, windows, posts, guesses, announced, pushed, promised>>

\* The window is inserted and committed.
StartInsert(r) ==
  /\ req[r].pc = "locked"
  /\ windows' = windows \cup {req[r].at}
  /\ Goto(r, "announce")
  /\ UNCHANGED <<now, posts, guesses, announced, pushed, promised>>

\* The system message cannot be stored: the first answer written is the error,
\* the handler goes on.
AnnounceFailed(r) ==
  /\ req[r].pc = "announce"
  /\ req' = [req EXCEPT ![r].pc = "push", ![r].status = "internal_error"]
  /\ UNCHANGED <<now, windows, posts, guesses, announced, pushed, promised>>

Announce(r) ==
  /\ req[r].pc = "announce" /\ ~GroupLocked
  /\ announced' = announced \cup {req[r].at}
  /\ Goto(r, "push")
  /\ UNCHANGED <<now, windows, posts, guesses, pushed, promised>>

\* NotifyPartyStarted, then the success answer, unless an error was written.
NotifyPartyStarted(r) ==
  /\ req[r].pc = "push"
  /\ pushed' = pushed \cup {req[r].at}
  /\ Answer(r, IF req[r].status = "none" THEN "created" ELSE req[r].status)
  /\ promised' = IF req[r].status = "none" /\ NextAvailableAt(req[r].at) > promised
                   THEN NextAvailableAt(req[r].at) ELSE promised
  /\ UNCHANGED <<now, windows, posts, guesses, announced>>

-----------------------------------------------------------------------------
(* GET /group/party: the query uses one clock reading, the answer another. *)

StatusRead(r) ==
  /\ At(r, "ready", "status")
  /\ req' = [req EXCEPT ![r].pc = "build", ![r].latest = LatestStarted(req[r].at)]
  /\ UNCHANGED <<now, windows, posts, guesses, announced, pushed, promised>>

\* next_available_at is in the answer while the party or the recharge lasts.
BuildStatus(r) ==
  /\ req[r].pc = "build"
  /\ Done(r)
  /\ promised' = IF \E w \in req[r].latest : now < NextAvailableAt(w) /\ promised < NextAvailableAt(w)
                   THEN NextAvailableAt(Latest(req[r].latest)) ELSE promised
  /\ UNCHANGED <<now, windows, posts, guesses, announced, pushed>>

-----------------------------------------------------------------------------
(* What makes a guess score double. *)

\* The challenge's row is committed; created_at is the handler's (or, for a
\* video, the processing worker's) instant.
CreatePhotos(r) ==
  /\ At(r, "ready", "post") /\ ~GroupLocked
  /\ Cardinality(posts) < MaxPosts
  /\ posts' = posts \cup {[user |-> req[r].user, at |-> req[r].at]}
  /\ Done(r)
  /\ UNCHANGED <<now, windows, guesses, announced, pushed, promised>>

\* submitGuessOnce reads the multiplier, then inserts the row.
ScoreMultiplier(r) ==
  /\ At(r, "ready", "guess")
  /\ req' = [req EXCEPT ![r].pc = "scored", ![r].doubled = Doubled(req[r].user, req[r].at)]
  /\ UNCHANGED <<now, windows, posts, guesses, announced, pushed, promised>>

InsertGuess(r) ==
  /\ req[r].pc = "scored" /\ ~GroupLocked
  /\ Cardinality(guesses) < MaxGuesses
  /\ guesses' = guesses \cup {[user |-> req[r].user, at |-> req[r].at,
                               doubled |-> req[r].doubled, entitled |-> req[r].entitled]}
  /\ Done(r)
  /\ UNCHANGED <<now, windows, posts, announced, pushed, promised>>

Tick ==
  /\ now < MaxTime
  /\ now' = now + 1
  /\ UNCHANGED <<windows, posts, guesses, announced, pushed, req, promised>>

Serve(r) ==
  \/ StartRefused(r) \/ StartLocked(r) \/ StartInsert(r)
  \/ Announce(r) \/ AnnounceFailed(r) \/ NotifyPartyStarted(r)
  \/ StatusRead(r) \/ BuildStatus(r)
  \/ CreatePhotos(r) \/ ScoreMultiplier(r) \/ InsertGuess(r)

Next ==
  \/ \E r \in Requests, u \in Players, op \in Ops : Arrive(r, u, op)
  \/ \E r \in Requests : Leave(r) \/ Serve(r)
  \/ Tick

Spec == Init /\ [][Next]_vars

\* The same system when members do not press the button at the same moment.
Starting(r) == req[r].op = "start" /\ req[r].pc \in {"ready", "locked"}
OneStarter == \A r, q \in Requests : Starting(r) /\ Starting(q) => r = q
SerialSpec == Init /\ [][Next /\ OneStarter']_vars

-----------------------------------------------------------------------------
(* Properties. *)

TypeOK ==
  /\ now \in Nat
  /\ windows \subseteq Nat
  /\ posts \subseteq Post
  /\ guesses \subseteq GuessRow
  /\ announced \subseteq Nat /\ pushed \subseteq Nat
  /\ req \in [Requests -> Request]
  /\ promised \in Nat

\* The recharge rule as the lock enforces it: a new window keeps its distance
\* from every window recorded before it that it does not precede - also from
\* one recorded between its own request's clock reading and its lock.
RechargeRespected ==
  [][\A w \in windows' \ windows : \A v \in windows :
       v <= w => NextAvailableAt(v) <= w]_vars

\* next_available_at is a promise: whoever presses the button after any client
\* was told it opens no earlier window.
StatusPromiseKept ==
  [][\A r \in Requests : StartInsert(r) => req[r].told <= req[r].at]_vars

\* A party reported as created is recorded, announced in the chat and pushed to
\* the members, and neither an announcement nor a push is about a party that
\* did not start.
AnnouncementsTrue ==
  /\ announced \cup pushed \subseteq windows
  /\ \A r \in Requests :
       At(r, "replied", "start") /\ req[r].status = "created"
         => req[r].at \in announced \cap pushed

\* Two windows active at one instant.
Overlap(at) == \E v, w \in windows : v < w /\ Active(v, at) /\ Active(w, at)

\* The doubling rule.  A doubled guess was sent in a party since whose start its
\* player had posted.  A player who had already posted in a running party loses
\* the bonus only when a second window overlaps the first.
DoublingDeserved ==
  \A g \in guesses :
    /\ g.doubled => \E w \in windows : Active(w, g.at) /\ Posted(g.user, w)
    /\ g.entitled /\ ~g.doubled => Overlap(g.at)

\* migrations/024_group_party_times.sql and the comment on Start: one window per
\* group per cooldown period, for any two starts.
StartsSpaced == \A v, w \in windows : v < w => NextAvailableAt(v) <= w

\* docs/gameplay.md:151-153: the guess of a player who posted since the party
\* started scores double.
EntitledGuessDoubles == \A g \in guesses : g.entitled => g.doubled

\* buildStatus relies on it: no window starts in the future, so the latest
\* started one decides; and whatever was promised follows from a window.
NoFutureWindow ==
  /\ \A w \in windows : w <= now
  /\ \A at \in 0 .. now : (\E w \in windows : w <= at) =>
       \E w \in windows : w <= at /\ \A v \in windows : v <= at => v <= w
  /\ promised # 0 => \E v \in windows : promised = NextAvailableAt(v)

\* What one request in flight knows.
Knows(r) ==
  LET at == req[r].at  u == req[r].user IN
  /\ at <= now
  /\ req[r].pc # "idle" => u \in Players
  /\ req[r].latest \subseteq windows /\ \A v, w \in req[r].latest : v = w
  /\ Starting(r) /\ req[r].told # 0 =>
       \E v \in windows : v <= at /\ req[r].told = NextAvailableAt(v)
  /\ req[r].pc \in {"locked", "announce", "push"} => req[r].op = "start"
  /\ req[r].pc \notin {"push", "replied"} => req[r].status = "none"
  /\ req[r].pc = "locked" => StartRefusal(at) = "none"
  /\ req[r].pc \in {"announce", "push"} => at \in windows
  /\ req[r].pc = "push" =>
       /\ req[r].status \in {"none", "internal_error"}
       /\ req[r].status = "none" => at \in announced
  /\ req[r].pc \in {"ready", "scored"} /\ req[r].entitled =>
       \E w \in windows : Active(w, at) /\ Posted(u, w)
  /\ req[r].pc = "scored" =>
       /\ req[r].doubled => \E w \in windows : Active(w, at) /\ Posted(u, w)
       /\ req[r].entitled /\ ~req[r].doubled => Overlap(at)

\* One request at a time holds the lock, and what every request read is still
\* true when it acts on it: the strengthening that makes the properties above
\* inductive.
RequestsKnow ==
  /\ \A r, q \in Requests : req[r].pc = "locked" /\ req[q].pc = "locked" => r = q
  /\ \A r \in Requests : Knows(r)
=============================================================================
