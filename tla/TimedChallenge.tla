--------------------------- MODULE TimedChallenge ---------------------------
(***************************************************************************)
(* One timed challenge posted to a group: the rows the database keeps for  *)
(* it (challenge_views, guesses, user_blocks, the photo's lifecycle) and   *)
(* the HTTP requests that race on them.  A request reads the clock once,   *)
(* in its handler, and carries that instant through every later database   *)
(* step, so by the time a step runs the instant may be old.                *)
(*                                                                         *)
(* A table is a partial function: its DOMAIN is the set of users that have *)
(* a row.  The photo is posted at time 0.  The photo row's FOR UPDATE lock *)
(* is held by the request whose pc is "insert"; it excludes the FOR KEY    *)
(* SHARE lock the foreign key of guesses takes for every other insert.     *)
(***************************************************************************)
EXTENDS Naturals

CONSTANTS
  Users,         \* accounts that send requests about this challenge
  Owner,         \* the account that posted it
  Blockable,     \* users that may come to have a block between them and the owner
  Members,       \* the group's members (the code never removes one)
  Requests,      \* handler goroutines that can be in flight at once
  Points,        \* coordinates a guess can carry
  NoPoint,       \* stands for the unset coordinates of a timed-out guess
  ViewWindow,    \* PHOTO_VIEW_WINDOW
  GuessWindow,   \* GUESS_WINDOW
  ExpiresAt,     \* CHALLENGE_TTL after posting
  RetentionAt,   \* PHOTO_RETENTION after posting
  TimeoutSkew,   \* timeoutSkew of TimeoutGuess
  WriteTimeout,  \* http.Server.WriteTimeout: the longest a stream can last
  RequestLatency, \* bound on the time between a handler's clock read and its last query
  AuditPeriod,   \* how long ExpireChallengeViews keeps a closed view row
  MaxAttempts,   \* maxAttempts of SubmitGuess
  MaxTime        \* bound on the clock

ASSUME PointAssumption == NoPoint \notin Points

ASSUME WindowAssumption ==
  /\ {ViewWindow, GuessWindow, ExpiresAt} \subseteq Nat \ {0}
  /\ {RetentionAt, TimeoutSkew, WriteTimeout, RequestLatency, AuditPeriod, MaxAttempts,
       MaxTime} \subseteq Nat
  /\ ViewWindow < ExpiresAt
  /\ ExpiresAt <= RetentionAt

VARIABLES
  now,        \* wall clock, shared by the server and the database
  removed,    \* photos.lifecycle_status = 'removed'
  blocked,    \* users with a block between them and the owner
  views,      \* challenge_views: user -> row
  guesses,    \* guesses: user -> row
  req,        \* the requests in flight
  firstWindow, \* history: user -> the view row their first delivery left
  sawResults  \* history: user -> instant at which they saw results unguessed

vars == <<now, removed, blocked, views, guesses, req, firstWindow, sawResults>>
history == <<firstWindow, sawResults>>
tables == <<views, guesses>>
world == <<now, removed, blocked>>

Ops == {"accept", "media", "result_media", "confirm", "guess", "timeout", "results"}
Steps == {"idle", "ready", "insert", "view", "record", "readback", "streaming", "replied"}
Statuses == {"none", "not_found", "forbidden", "challenge_expired", "accepted",
             "duplicate", "created", "viewing_window_open", "guess_time_expired",
             "internal_error", "media_expired", "media_removed", "served",
             "confirmed", "results", "results_not_available"}

ViewRow == [delivered: BOOLEAN, viewExp: Nat, guessExp: Nat]
GuessRow == [timedOut: BOOLEAN, at: Nat, point: Points \cup {NoPoint}]
Request == [pc: Steps, op: Ops, user: Users \cup {Owner}, at: Nat, point: Points \cup {NoPoint},
            late: BOOLEAN, tries: Nat, status: Statuses, shown: SUBSET GuessRow]

Idle == [pc |-> "idle", op |-> "accept", user |-> Owner, at |-> 0, point |-> NoPoint,
         late |-> FALSE, tries |-> 0, status |-> "none", shown |-> {}]

Init ==
  /\ now = 0
  /\ removed = FALSE
  /\ blocked = {}
  /\ views = [u \in {} |-> 0]
  /\ guesses = [u \in {} |-> 0]
  /\ req = [r \in Requests |-> Idle]
  /\ firstWindow = [u \in {} |-> 0]
  /\ sawResults = [u \in {} |-> 0]

-----------------------------------------------------------------------------
(* Rows and deadlines. *)

Earlier(a, b) == IF a <= b THEN a ELSE b

\* The table with one more row (or with the row of u replaced).
With(table, u, row) ==
  [x \in DOMAIN table \cup {u} |-> IF x = u THEN row ELSE table[x]]

\* INSERT ... ON CONFLICT (photo_id, user_id) DO NOTHING.
WithNew(table, u, row) == IF u \in DOMAIN table THEN table ELSE With(table, u, row)

\* The row AcceptChallenge inserts: both deadlines count from acceptance, the
\* guess deadline from the (capped) view deadline.
AcceptedRow(at) ==
  LET viewEnd == Earlier(at + ViewWindow, ExpiresAt)
  IN  [delivered |-> FALSE, viewExp |-> viewEnd,
       guessExp |-> Earlier(viewEnd + GuessWindow, ExpiresAt)]

\* The row MarkMediaDelivered's UPDATE leaves on a first delivery.
DeliveredRow(at) ==
  [delivered |-> TRUE, viewExp |-> Earlier(at + ViewWindow, ExpiresAt),
   guessExp |-> Earlier(at + ViewWindow + GuessWindow, ExpiresAt)]

TimedOutRow(at) == [timedOut |-> TRUE, at |-> at, point |-> NoPoint]

\* The visibility, membership and ownership refusals every play request starts with.
Gate(u) ==
  IF u \in blocked THEN "not_found"
  ELSE IF u \notin Members \/ u = Owner THEN "forbidden"
  ELSE "none"

Expired(at) == ExpiresAt < at

\* Mutant: results open one instant before the challenge closes.
MayViewResults_Early(u, at) ==
  u \in Members /\ (u = Owner \/ at + 1 >= ExpiresAt \/ u \in DOMAIN guesses)

MayViewResults(u, at) ==
  /\ u \in Members
  /\ u = Owner \/ at >= ExpiresAt \/ u \in DOMAIN guesses

-----------------------------------------------------------------------------
(* Requests. *)

At(r, step, op) == req[r].pc = step /\ req[r].op = op

Answer(r, status, rows) ==
  req' = [req EXCEPT ![r].pc = "replied", ![r].status = status, ![r].shown = rows]

Goto(r, step) == req' = [req EXCEPT ![r].pc = step]

RowLocked == \E r \in Requests : req[r].pc = "insert"

\* A request arrives and its handler reads the clock.
Arrive(r, u, op, p) ==
  /\ req[r].pc = "idle"
  /\ p \in (IF op = "guess" THEN Points ELSE {NoPoint})
  /\ req' = [req EXCEPT ![r] = [Idle EXCEPT !.pc = "ready", !.op = op, !.user = u,
                                            !.at = now, !.point = p]]
  /\ UNCHANGED <<world, tables, history>>

\* The answer reaches the client, or is lost with its connection.
Forget(r) ==
  /\ req[r].pc = "replied"
  /\ req' = [req EXCEPT ![r] = Idle]
  /\ UNCHANGED <<world, tables, history>>

\* The client disconnects or the process dies: the open transaction rolls back.
Abandon(r) ==
  /\ req[r].pc \notin {"idle", "replied"}
  /\ req' = [req EXCEPT ![r] = Idle]
  /\ UNCHANGED <<world, tables, history>>

-----------------------------------------------------------------------------
(* POST /challenges/{id}/accept: one transaction under the photo row's lock. *)

AcceptRefused(r, status) ==
  /\ At(r, "ready", "accept") /\ ~RowLocked
  /\ \/ Gate(req[r].user) = status /\ status # "none"
     \/ /\ Gate(req[r].user) = "none" /\ status = "challenge_expired"
        /\ Expired(req[r].at) \/ removed
  /\ Answer(r, status, {})
  /\ UNCHANGED <<world, tables, history>>

AcceptChallenge(r) ==
  /\ At(r, "ready", "accept") /\ ~RowLocked
  /\ Gate(req[r].user) = "none" /\ ~Expired(req[r].at) /\ ~removed
  /\ views' = WithNew(views, req[r].user, AcceptedRow(req[r].at))
  /\ Answer(r, "accepted", {})
  /\ UNCHANGED <<world, guesses, history>>

-----------------------------------------------------------------------------
(* Media delivery. *)

\* Mutant: the UPDATE does not look for a block again.
MarkMediaDelivered_Unblocked(u, at) ==
  IF u \in DOMAIN views /\ ~views[u].delivered
    THEN /\ views' = With(views, u, DeliveredRow(at))
         /\ firstWindow' = WithNew(firstWindow, u, DeliveredRow(at))
    ELSE UNCHANGED <<views, firstWindow>>

\* MarkMediaDelivered: a single UPDATE, effective once per view row.
MarkMediaDelivered(u, at) ==
  IF u \in DOMAIN views /\ u \notin blocked /\ ~views[u].delivered
    THEN /\ views' = With(views, u, DeliveredRow(at))
         /\ firstWindow' = WithNew(firstWindow, u, DeliveredRow(at))
    ELSE UNCHANGED <<views, firstWindow>>

\* The player's own view is over, or was never opened.
ViewOver(u, at) ==
  \/ u \notin DOMAIN views
  \/ views[u].delivered /\ at >= views[u].viewExp
  \/ ~views[u].delivered /\ at >= ExpiresAt

\* Why ServeChallengeMedia refuses, in the order of its checks.
StreamRefusal(r) ==
  LET u == req[r].user  at == req[r].at  result == req[r].op = "result_media"
  IN  IF u \in blocked THEN "not_found"
      ELSE IF result /\ ~MayViewResults(u, at) THEN "forbidden"
      ELSE IF ~result /\ u \notin Members THEN "forbidden"
      ELSE IF ~result /\ ViewOver(u, at) THEN "media_expired"
      ELSE IF removed THEN "media_removed"
      ELSE "none"

StreamRefused(r) ==
  /\ req[r].pc = "ready" /\ req[r].op \in {"media", "result_media"}
  /\ StreamRefusal(r) # "none"
  /\ Answer(r, StreamRefusal(r), {})
  /\ UNCHANGED <<world, tables, history>>

StreamStart(r) ==
  /\ req[r].pc = "ready" /\ req[r].op \in {"media", "result_media"}
  /\ StreamRefusal(r) = "none"
  /\ Goto(r, "streaming")
  /\ UNCHANGED <<world, tables, history>>

\* io.Copy wrote the whole object; the delivery is stamped with the instant
\* the request arrived, whichever variant was served.
StreamComplete(r) ==
  /\ req[r].pc = "streaming"
  /\ now <= req[r].at + WriteTimeout
  /\ MarkMediaDelivered(req[r].user, req[r].at)
  /\ Answer(r, "served", {})
  /\ UNCHANGED <<world, guesses, sawResults>>

ConfirmMediaDelivered(r) ==
  /\ At(r, "ready", "confirm")
  /\ MarkMediaDelivered(req[r].user, req[r].at)
  /\ Answer(r, IF req[r].user \in DOMAIN views \ blocked THEN "confirmed" ELSE "forbidden", {})
  /\ UNCHANGED <<world, guesses, sawResults>>

-----------------------------------------------------------------------------
(* POST /challenges/{id}/guess: reads under the photo row's lock, then the   *)
(* insert and the commit.  MarkMediaDelivered and the purge need no lock on  *)
(* the photo, TimeoutGuess only for its insert.                              *)

\* Mutant: a guess is taken while the media can still be viewed.
GuessRefusal_Eager(r) ==
  LET u == req[r].user
  IN  IF Gate(u) # "none" THEN Gate(u)
      ELSE IF u \in DOMAIN guesses THEN "duplicate"
      ELSE IF Expired(req[r].at) THEN "challenge_expired"
      ELSE IF u \notin DOMAIN views THEN "forbidden"
      ELSE IF ~views[u].delivered THEN "viewing_window_open"
      ELSE "none"

GuessRefusal(r) ==
  LET u == req[r].user  at == req[r].at
  IN  IF Gate(u) # "none" THEN Gate(u)
      ELSE IF u \in DOMAIN guesses THEN "duplicate"
      ELSE IF Expired(at) THEN "challenge_expired"
      ELSE IF u \notin DOMAIN views THEN "forbidden"
      ELSE IF ~views[u].delivered \/ at < views[u].viewExp THEN "viewing_window_open"
      ELSE "none"

SubmitAnswered(r) ==
  /\ At(r, "ready", "guess") /\ ~RowLocked
  /\ GuessRefusal(r) # "none"
  /\ Answer(r, GuessRefusal(r),
            IF GuessRefusal(r) = "duplicate" THEN {guesses[req[r].user]} ELSE {})
  /\ UNCHANGED <<world, tables, history>>

SubmitRead(r) ==
  /\ At(r, "ready", "guess") /\ ~RowLocked
  /\ GuessRefusal(r) = "none"
  /\ req' = [req EXCEPT ![r].pc = "insert",
                        ![r].late = req[r].at >= views[req[r].user].guessExp]
  /\ UNCHANGED <<world, tables, history>>

\* Past the deadline: ensureTimeoutGuess, commit, ErrGuessTimeExpired.
SubmitLate(r) ==
  /\ req[r].pc = "insert" /\ req[r].late
  /\ guesses' = WithNew(guesses, req[r].user, TimedOutRow(req[r].at))
  /\ Answer(r, "guess_time_expired", {})
  /\ UNCHANGED <<world, views, history>>

SubmitInsert(r) ==
  /\ req[r].pc = "insert" /\ ~req[r].late
  /\ req[r].user \notin DOMAIN guesses
  /\ LET row == [timedOut |-> FALSE, at |-> req[r].at, point |-> req[r].point]
     IN  /\ guesses' = With(guesses, req[r].user, row)
         /\ Answer(r, "created", {row})
  /\ UNCHANGED <<world, views, history>>

\* A serialization failure or deadlock: the attempt rolls back and is repeated
\* with the same instant, MaxAttempts times in all.
SubmitAborted(r) ==
  /\ At(r, "ready", "guess") \/ req[r].pc = "insert"
  /\ IF req[r].tries + 1 < MaxAttempts
       THEN req' = [req EXCEPT ![r].pc = "ready", ![r].late = FALSE, ![r].tries = @ + 1]
       ELSE Answer(r, "internal_error", {})
  /\ UNCHANGED <<world, tables, history>>

-----------------------------------------------------------------------------
(* POST /challenges/{id}/timeout: four statements outside any transaction.   *)

TimeoutAnswered(r) ==
  /\ At(r, "ready", "timeout")
  /\ LET u == req[r].user IN
     \/ Gate(u) # "none" /\ Answer(r, Gate(u), {})
     \/ Gate(u) = "none" /\ u \in DOMAIN guesses /\ Answer(r, "duplicate", {guesses[u]})
  /\ UNCHANGED <<world, tables, history>>

TimeoutUnguessed(r) ==
  /\ At(r, "ready", "timeout")
  /\ Gate(req[r].user) = "none" /\ req[r].user \notin DOMAIN guesses
  /\ Goto(r, "view")
  /\ UNCHANGED <<world, tables, history>>

\* Mutant: the client's countdown is trusted, whatever the deadline.
TimeoutRefusal_Trusting(r) ==
  LET u == req[r].user
  IN  IF u \notin DOMAIN views THEN "forbidden"
      ELSE IF ~views[u].delivered \/ req[r].at < views[u].viewExp THEN "viewing_window_open"
      ELSE IF Expired(req[r].at) THEN "challenge_expired"
      ELSE "none"

TimeoutRefusal(r) ==
  LET u == req[r].user  at == req[r].at
  IN  IF u \notin DOMAIN views THEN "forbidden"
      ELSE IF ~views[u].delivered \/ at < views[u].viewExp THEN "viewing_window_open"
      ELSE IF at + TimeoutSkew < views[u].guessExp THEN "viewing_window_open"
      ELSE IF Expired(at) THEN "challenge_expired"
      ELSE "none"

TimeoutReadView(r) ==
  /\ req[r].pc = "view"
  /\ IF TimeoutRefusal(r) = "none" THEN Goto(r, "record")
                                   ELSE Answer(r, TimeoutRefusal(r), {})
  /\ UNCHANGED <<world, tables, history>>

\* The foreign key makes a real insert wait for the photo row.
TimeoutInsert(r) ==
  /\ req[r].pc = "record"
  /\ RowLocked => req[r].user \in DOMAIN guesses
  /\ guesses' = WithNew(guesses, req[r].user, TimedOutRow(req[r].at))
  /\ Goto(r, "readback")
  /\ UNCHANGED <<world, views, history>>

\* The unique index entry is written before the foreign key is checked, so the
\* insert can deadlock with a guess of the same player: one of the two is aborted.
TimeoutDeadlocked(r) ==
  /\ req[r].pc = "record" /\ req[r].user \notin DOMAIN guesses
  /\ \E q \in Requests : req[q].pc = "insert" /\ req[q].user = req[r].user
  /\ Answer(r, "internal_error", {})
  /\ UNCHANGED <<world, tables, history>>

\* Mutant: the row the request tried to insert is reported without reading it.
TimeoutReadBack_Assumed(r) ==
  /\ req[r].pc = "readback"
  /\ Answer(r, "created", {TimedOutRow(req[r].at)})
  /\ UNCHANGED <<world, tables, history>>

TimeoutReadBack(r) ==
  /\ req[r].pc = "readback"
  /\ Answer(r, "created", {guesses[req[r].user]})
  /\ UNCHANGED <<world, tables, history>>

-----------------------------------------------------------------------------
(* GET /challenges/{id}/results. *)

GetResults(r) ==
  /\ At(r, "ready", "results")
  /\ LET u == req[r].user  at == req[r].at IN
     IF u \in blocked THEN Answer(r, "not_found", {}) /\ UNCHANGED sawResults
     ELSE IF u \notin Members THEN Answer(r, "forbidden", {}) /\ UNCHANGED sawResults
     ELSE IF ~MayViewResults(u, at) THEN Answer(r, "results_not_available", {}) /\ UNCHANGED sawResults
     ELSE /\ Answer(r, "results", {})
          /\ sawResults' = IF u = Owner \/ u \in DOMAIN guesses
                             THEN sawResults ELSE WithNew(sawResults, u, at)
  /\ UNCHANGED <<world, tables, firstWindow>>

-----------------------------------------------------------------------------
(* The rest of the system, as far as it touches this challenge. *)

Tick ==
  /\ now < MaxTime
  /\ now' = now + 1
  /\ UNCHANGED <<removed, blocked, tables, req, history>>

BlockUser(u) ==
  /\ blocked' = blocked \cup {u}
  /\ UNCHANGED <<now, removed, tables, req, history>>

UnblockUser(u) ==
  /\ blocked' = blocked \ {u}
  /\ UNCHANGED <<now, removed, tables, req, history>>

\* The cleanup worker: DELETE FROM challenge_views WHERE view_expires_at < now - 1 day.
ExpireChallengeViews ==
  LET kept == {u \in DOMAIN views : views[u].viewExp + AuditPeriod >= now}
  IN  /\ kept # DOMAIN views
      /\ views' = [u \in kept |-> views[u]]
      /\ UNCHANGED <<world, guesses, req, history>>

\* The cleanup worker retires the photo after its retention period.
RetireRetainedMedia ==
  /\ ~removed /\ RetentionAt < now /\ ~RowLocked
  /\ removed' = TRUE
  /\ UNCHANGED <<now, blocked, tables, req, history>>

\* The latency the server and the database are assumed to keep; a stream may
\* last longer, up to WriteTimeout.
Timely(r) == req[r].pc = "streaming" \/ now <= req[r].at + RequestLatency

Serve(r) ==
  \/ \E status \in Statuses : AcceptRefused(r, status)
  \/ AcceptChallenge(r)
  \/ StreamRefused(r) \/ StreamStart(r) \/ StreamComplete(r)
  \/ ConfirmMediaDelivered(r)
  \/ SubmitAnswered(r) \/ SubmitRead(r) \/ SubmitLate(r) \/ SubmitInsert(r)
  \/ SubmitAborted(r)
  \/ TimeoutAnswered(r) \/ TimeoutUnguessed(r) \/ TimeoutReadView(r)
  \/ TimeoutInsert(r) \/ TimeoutDeadlocked(r) \/ TimeoutReadBack(r)
  \/ GetResults(r)

Step(r) == Forget(r) \/ Abandon(r) \/ (Timely(r) /\ Serve(r))

Environment ==
  \/ Tick
  \/ \E u \in Blockable \ {Owner} : BlockUser(u) \/ UnblockUser(u)
  \/ ExpireChallengeViews
  \/ RetireRetainedMedia

Next ==
  \/ \E r \in Requests, u \in Users, op \in Ops, p \in Points \cup {NoPoint} : Arrive(r, u, op, p)
  \/ \E r \in Requests : Step(r)
  \/ Environment

Spec == Init /\ [][Next]_vars

-----------------------------------------------------------------------------
(* Properties. *)

\* Every table is keyed by users and holds rows of its columns' types.
TypeOK ==
  /\ now \in Nat /\ removed \in BOOLEAN /\ blocked \subseteq Blockable
  /\ DOMAIN views \subseteq Users /\ \A u \in DOMAIN views : views[u] \in ViewRow
  /\ DOMAIN guesses \subseteq Users /\ \A u \in DOMAIN guesses : guesses[u] \in GuessRow
  /\ req \in [Requests -> Request]
  /\ DOMAIN firstWindow \subseteq Users
  /\ \A u \in DOMAIN firstWindow : firstWindow[u] \in ViewRow
  /\ DOMAIN sawResults \subseteq Users /\ \A u \in DOMAIN sawResults : sawResults[u] \in Nat

\* Acceptance and delivery compute the two deadlines in different ways; the
\* guess window always is GuessWindow after the view window, and neither
\* outlives the challenge.
DeadlinesConsistent ==
  \A u \in DOMAIN views :
    /\ views[u].viewExp <= ExpiresAt
    /\ views[u].guessExp = Earlier(views[u].viewExp + GuessWindow, ExpiresAt)

\* A recorded guess was sent inside the window the player's first delivery
\* opened: never while the photo could still be looked at, never after the
\* deadline, and a timeout is never recorded early by more than the skew -
\* whichever of the racing requests recorded it.
GuessInsideFirstWindow ==
  \A u \in DOMAIN guesses :
    /\ u \in DOMAIN firstWindow
    /\ guesses[u].at >= firstWindow[u].viewExp
    /\ IF guesses[u].timedOut
         THEN guesses[u].at + TimeoutSkew >= firstWindow[u].guessExp
         ELSE guesses[u].at < firstWindow[u].guessExp

\* A player who was shown the results without having guessed sent no guess
\* afterwards that counts.
NoGuessAfterResults ==
  \A u \in DOMAIN guesses \cap DOMAIN sawResults :
    ~guesses[u].timedOut => guesses[u].at < sawResults[u]

\* Whatever SubmitGuess and TimeoutGuess report as recorded is the one row the
\* database holds, also for the request that came second; and "you did not
\* guess in time" is only said once a row exists.
RepliesTellStoredGuess ==
  \A r \in Requests :
    /\ \A row \in req[r].shown : req[r].user \in DOMAIN guesses /\ guesses[req[r].user] = row
    /\ req[r].status = "guess_time_expired" => req[r].user \in DOMAIN guesses

\* A block that lands while the media is being streamed stops the delivery
\* from opening the player's window.
BlockedPlayerGetsNoWindow ==
  [][\A u \in blocked : u \in DOMAIN firstWindow' => u \in DOMAIN firstWindow]_vars

\* The abstract promise, and the refinement that shows it kept.
Promise == INSTANCE OneAttempt WITH
  Slack <- TimeoutSkew,
  time <- now,
  window <- [u \in DOMAIN firstWindow |->
               [opens |-> firstWindow[u].viewExp, closes |-> firstWindow[u].guessExp]],
  attempt <- guesses

\* Each player gets one fixed window and at most one attempt, sent inside it
\* (OneAttempt), however the requests and the cleanup worker interleave.
KeepsPromise == Promise!Spec

\* The configuration that makes the purge of old view rows harmless: the rows
\* outlive every request that could open a new one.  The defaults (24h, 1 day)
\* satisfy it; the configuration's validation does not require it.
AuditCoversChallenge == ExpiresAt + RequestLatency <= AuditPeriod + ViewWindow

\* What the requests in flight, the view rows and the history know of each
\* other: the strengthening that makes the properties above inductive.
WindowsSound ==
  /\ \A u \in DOMAIN views :
       /\ ViewWindow <= views[u].viewExp
       /\ views[u].delivered => u \in DOMAIN firstWindow
  /\ \A u \in DOMAIN firstWindow :
       /\ firstWindow[u].delivered
       /\ firstWindow[u].viewExp <= firstWindow[u].guessExp
       /\ firstWindow[u].guessExp <= ExpiresAt
       /\ IF u \in DOMAIN views THEN views[u] = firstWindow[u]
                               ELSE AuditPeriod + ViewWindow < now
  /\ \A u \in DOMAIN sawResults : ExpiresAt <= sawResults[u]

RequestsSound ==
  \A r \in Requests :
    LET u == req[r].user  at == req[r].at IN
    /\ at <= now
    /\ req[r].pc # "idle" => u \in Users
    /\ req[r].op = "guess" /\ req[r].pc # "idle" => req[r].point \in Points
    /\ req[r].pc \in {"insert", "record"} =>
         /\ u \in DOMAIN firstWindow
         /\ firstWindow[u].viewExp <= at
    /\ req[r].pc = "insert" =>
         req[r].op = "guess" /\ (req[r].late <=> at >= firstWindow[u].guessExp)
    /\ req[r].pc = "record" => at + TimeoutSkew >= firstWindow[u].guessExp
    /\ req[r].pc = "readback" => u \in DOMAIN guesses

\* Between SubmitGuess's reads and its insert nobody else records an attempt of
\* that player, so its unique-violation branch (readExistingGuess, which asks
\* the pool for a second connection while holding one) never runs: every other
\* writer needs a lock on the photo row that FOR UPDATE excludes.
LockCoversInsert ==
  \A r \in Requests :
    req[r].pc = "insert" =>
      /\ req[r].user \notin DOMAIN guesses
      /\ \A q \in Requests \ {r} : req[q].pc # "insert"

\* One attempt: a recorded guess is never replaced or removed.
GuessIsFinal ==
  [][\A u \in DOMAIN guesses : u \in DOMAIN guesses' /\ guesses'[u] = guesses[u]]_vars

\* docs/gameplay.md:77: a re-acceptance does not extend access beyond the
\* original window.
ReacceptanceKeepsWindow ==
  [][\A u \in DOMAIN firstWindow \cap DOMAIN views' :
       /\ views'[u].viewExp <= firstWindow[u].viewExp
       /\ views'[u].guessExp <= firstWindow[u].guessExp]_vars
=============================================================================
