# GeoguessMe: verification project

GeoguessMe is a photo-guessing game.  A Go back end (PostgreSQL, an S3-like
object store, WebSockets, Web Push) serves a React front end: members of a group
post a photo with a hidden location, other members accept it, look at it for a
limited time, and then have a limited time to guess where it was taken.  This
directory models the parts of it whose correctness depends on the order in which
things happen, checks them with TLC on small instances, and proves the most
important results with TLAPS for every value of the constants.

Paths below are relative to `src/`; `backend/internal/` is abbreviated `internal/`.

## 1. Inventory

| Component | State | Operations | Interacts with |
|---|---|---|---|
| Timed challenges (`internal/repository/groups/challenges.go`, `backend/handlers/game.go`, `photo.go`) | `photos`, `challenge_views`, `guesses` | accept, serve media, confirm delivery, guess, time out, results | blocks, cleanup worker, Party Time (score factor), hub and push (notices) |
| Party Time (`internal/repository/party`, `backend/handlers/party`) | `group_party_times` | start, status, score multiplier | group row lock, chat (announcement), push, guesses |
| Blocking (`internal/repository/blocking`) | `user_blocks` | block, unblock | visibility of challenges, chat delivery |
| Media pipeline (`photo.go` upload, `internal/mediaprocessing`, `internal/repository/media_processing.go`, `media_jobs.go`, `cleanup.go`, `internal/storage`) | `photos`, `chat_media`, `media_processing_jobs`, `media_deletion_jobs`, the object store | upload, queue, claim, process, complete, fail, requeue, abandon, retire, delete | object store, hub, push |
| Public feed (`internal/repository/groups.go`, `internal/repository/feed`, `backend/handlers/feed`) | `public_challenges`, `public_guesses`, `public_challenge_views`, likes, follows | reserve, put, create, resolve, timed and untimed play | advisory locks, deletion queue |
| Chat (`internal/chat`, `internal/repository/chat`, `backend/handlers/chat.go`) | connected sockets, channels, `messages`, tickets | register, send, broadcast, disconnect, revalidate, stop | sessions, blocks, push |
| Sessions and identities (`internal/repository/users.go`, `identities.go`, `contact_claims.go`, `backend/handlers/auth`) | `users.auth_version`, `refresh_sessions`, one-time tokens, claims, OIDC identities | sign-up, login, refresh, logout, logout-all, verify, reset, link, delete | chat tickets and sockets, Keycloak |
| Groups (`internal/repository/groups/membership.go`, `invites.go`, `leaderboard.go`) | members, invites, read positions | join by invite, revoke, mark read | everything that asks for membership |
| Push (`internal/push`) | queue, workers, per-host slots, subscriptions | subscribe, notify, deliver, stop | chat, challenges, parties |
| HTTP middleware (`internal/middleware`) | the rate limiter's counter store | allow, sweep, evict | every route |
| Scoring (`internal/game`, `internal/elo`, `internal/progression`) | none (pure) | score, time factor, Elo, rank | guesses, leaderboards |
| Front end (`frontend/src/chat`, `components/game`, `hooks`) | socket controller, game reducer, message log | connect, catch up, play | chat and challenge API |

Handlers run in one goroutine per request.  The database runs at READ COMMITTED;
what serialises two requests is a row lock (`FOR UPDATE`), an advisory lock, a
unique index, or nothing.  A handler reads the clock once, near its start, and
carries that instant into later statements.  A client may disconnect and the
process may die between any two statements; open transactions then roll back.

### What makes each component correct, and what makes that hard

- **Timed challenges.**  A player has one window, fixed when the media first
  reaches the player, and one attempt: a guess sent inside the window or a
  timeout at its end; results never help a guess that counts.  Hard, because the
  guess runs under the photo row's lock while the timeout runs four statements
  outside any transaction, because every handler judges with an instant that may
  be old by the time its statement runs, and because a stream may outlast a
  block, a retry or another delivery.
- **Party Time.**  One window per group and recharge period; what a client was
  told about the next start holds; a guess scores double exactly when its player
  posted since the start.  Hard, because starts wait for the group row's lock
  with their clock already read.
- **Media pipeline.**  A row never points to a missing object, an object never
  lacks somebody who will delete it, a video job has one result, and every job
  and deletion ends.  Hard, because the object store and the database share no
  transaction, workers may be slow without being dead, and each of some ten
  calls may fail, half-fail or be cut off by a crash.
- **Public feed.**  A publication exists with its objects or not at all, even
  when its commit's outcome is unknown; the timed and the untimed game on one
  challenge do not help each other.  Hard: advisory locks, retries that derive
  the same keys, two answers for one player.
- **Chat.**  A revoked credential or a lost membership ends its sockets; every
  remaining client gets every message; nothing blocks forever at shutdown.  Hard:
  one goroutine with bounded channels in both directions, and commands that may
  overtake registrations.
- **Sessions and identities.**  After a revocation no token issued before it
  works; a one-time token is used once and for the address it was sent to; an
  external identity belongs to one account.  Hard: rotation and revocation are
  separate transactions, deletion spans two systems.
- **Groups, push, rate limits, scoring, front end.**  A revoked invite admits
  nobody; a stop loses no job half-way and no send meets a closed channel; a
  limit admits at most its budget even when the store is full; scores fall with
  time and stay in range; an answer of an earlier connection or challenge
  changes nothing.

The hazards behind these sentences are listed, each at its line, in
`PROJECT.json`.

## 2. Modules and plan

Order is the order in which the modules were written; the most important
behaviour of the game came first.

| Part | Modules | Proofs |
|---|---|---|
| Timed challenges | `TimedChallenge`, which implements `OneAttempt` | `TimedChallengeProofs` |
| Party Time | `Party`, `MCParty` | `PartyProofs` |
| Media, from upload to deletion | `MediaLifecycle`, `MCMediaLifecycle`, `MCMedia` | `MediaLifecycleProofs` |
| Accounts, credentials, identities | `Accounts`, `MCAccounts` | `AccountsProofs` |
| Chat: the hub and its sockets | `ChatHub` | `ChatHubProofs` |
| Chat: pages, read positions, reactions | `ChatSync` | `FeedPlayProofs` |
| Chat: the browser tab | `ChatClient`, `MCChatClient` | `FeedPlayProofs` |
| Feed: publishing | `Publication`, `MCPublication` | `PublicationProofs` |
| Feed: playing | `FeedPlay` | `FeedPlayProofs` |
| Feed: comments, leaderboard | `FeedThread`, `FeedBoard` | `FeedPlayProofs` |
| Push notifications | `Push` | `PushProofs` |
| Rate limits | `RateLimiter` | `PushProofs` |
| Groups, members, invites | `Groups` | `PartyProofs` |
| Pictures of groups and players | `Pictures`, `MCPictures` | `MediaLifecycleProofs` |
| Points, Elo, boards | `Ladder` | `PartyProofs` |
| Map pins | `MapPins` | `PushProofs` |

Five modules put services side by side for TLC: `MCChallenges` (timed challenges
twice, comments, the leaderboard, feed play, pictures), `MCGroup` (Party Time,
invites, ratings), `MCMedia` (media under two sets of faults), `MCChat` (hub, pages, tab,
push, rate limits, map pins) and `MCLiveness` (publications, hub, media, push, invites,
each with its fairness).
In each a behaviour is one of exactly one service, chosen in its initial state;
the others stay as they began.  The state space is thus the sum of the services',
one after the other, not their product: the services share no table that
one of them writes and another reads, except those named here, which each module
keeps for itself.  `user_blocks` and group membership are read by most modules,
and each has the operations that change them as actions of its own.

A proof module begins with the module it extends; the others it is about are
instances in sections of their own, with constants and variables declared there.

What is left of the plan: the abstract outbox that `ChatHub` and `ChatSync` together
implement, in which what a client has seen is a prefix of what it may see, but for the
gaps of section 6.

## 3. What the modules say

Each model keeps the code's guards, early returns and the order of its
statements; rows carry only the columns that decide something.  Coordinates,
messages and media are model values or left out.  A transaction is one action
where the rows it touches are locked throughout, and one action per statement
where another request can come between.

### `TimedChallenge`

One challenge of one group, posted at time 0.

| State | Code |
|---|---|
| `views` | the rows of `challenge_views`, with `media_delivered_at` reduced to "set or not" and the two deadlines |
| `guesses` | the rows of `guesses`: timed out or not, the instant they carry, the coordinates |
| `blocked` | users with a row of `user_blocks` between them and the owner, in either direction |
| `removed` | `photos.lifecycle_status = 'removed'` |
| `req` | handler goroutines: position, operation, user, the instant read, what was answered |
| `firstWindow`, `sawResults` | history: the row the first delivery left; when a player saw results without having guessed |

| Actions | Code |
|---|---|
| `Arrive`, `Forget`, `Abandon` | a request reads the clock; its answer is delivered or lost; the client leaves or the process dies and the transaction rolls back |
| `AcceptRefused`, `AcceptChallenge` | `AcceptChallenge`, one transaction under the photo row's lock |
| `StreamRefused`, `StreamStart`, `StreamComplete`, `ConfirmMediaDelivered` | serving the media and the result media, and both callers of `MarkMediaDelivered` |
| `SubmitAnswered`, `SubmitRead`, `SubmitLate`, `SubmitInsert`, `SubmitAborted` | `SubmitGuess` with its retry loop: the reads under `FOR UPDATE`, then the insert |
| `TimeoutAnswered`, `TimeoutUnguessed`, `TimeoutReadView`, `TimeoutInsert`, `TimeoutDeadlocked`, `TimeoutReadBack` | `TimeoutGuess`, one action per statement |
| `GetResults` | `GetResults` with the rule who may see them when |
| `BlockUser`, `UnblockUser`, `ExpireChallengeViews`, `RetireRetainedMedia`, `Tick` | the rest of the system |

The photo row's lock is held by the request at "insert".  It excludes the other
`FOR UPDATE` transactions, the retirement of the photo, and, through the foreign
key's `FOR KEY SHARE`, every insert of a guess; it does not exclude the
deliveries, the purge, or reads.

Two assumptions about time are constants of the model.  A request's statements
run at most `RequestLatency` after its clock reading, a stream at most
`WriteTimeout`.  `AuditCoversChallenge` says that a view row outlives every
request that could accept again; it is a hypothesis of the theorems, since the
configuration's defaults satisfy it and its validation does not require it.

`OneAttempt` is the promise, with no requests, locks or rows in it.  The
refinement maps a player's window to the deadlines of `firstWindow`, and the
attempt to the row of `guesses`.

### `Party`

The parties of one group.

| State | Code |
|---|---|
| `windows` | `group_party_times`, each window named by `started_at` |
| `posts`, `guesses` | the group's photos and guesses, the latter with the factor they scored with |
| `announced`, `pushed` | windows with a stored system message, and with a push |
| `req` | handlers |
| `promised`, and in requests `told` and `entitled` | history: the latest `next_available_at` a client was told; what was known when a request arrived |

`StartRefused`, `StartLocked` and `StartInsert` are `Start`'s transaction;
`Announce` or `AnnounceFailed` and `NotifyPartyStarted` the rest of the handler;
`StatusRead` and `BuildStatus` the two clock readings of the status handler;
`CreatePhotos` the commit of a challenge; `ScoreMultiplier` and `InsertGuess` the
two steps of a guess that matter here.  `Leave` ends any request at any step.
`SerialSpec` is the same system when no two starts are in flight at once.

### `MediaLifecycle`

The media of one author.

| State | Code |
|---|---|
| `store` | the objects in the object store |
| `photos`, `attachments`, `jobs`, `obligations` | the rows of `photos`, `chat_media`, `media_processing_jobs`, `media_deletion_jobs`, by the key they hold |
| `due` | deletion jobs whose `next_attempt_at` has come |
| `act` | upload handlers and workers: position and the keys stored so far |
| `cleanup` | the cleanup runner, one cycle after the other |
| `account` | the author's row, and the keys its deletion has read |
| `used`, `results`, `faults` | history: keys generated; how often a job's rows were created; failures so far |

| Actions | Code |
|---|---|
| `StartUpload`, `Put...`, `Create...` | `UploadPhoto`, `UploadChatMedia` and the queueing of videos: one object per group, then one transaction |
| `Undo...` | the compensations: delete the object or else queue its deletion, with the context of the request |
| `ClaimJob`, `Transcode`, `Put...`, `Complete...`, `FailJob` | the worker |
| `RetireRetainedMedia` ... `DeleteObject`, `StatementFails` | one cycle of the cleanup runner, statement by statement, with the two halves of `DeleteObjectIfUnreferenced` |
| `ReadPhotoKeys`, `DeleteUser` | `DeleteUserCascade`, whose statements each see what was committed before them |
| `BackoffEnds`, `ClaimGetsStale`, `WorkerIsSlow`, `JobGetsOld` | time |
| `Cancel`, `Crash`, and the failing variants | failures, each counted against `MaxFaults` |

Durations are replaced by the order they enforce: a claim gets stale on its own
when its worker has died or given up, and while the worker lives only by the
fault "slow".  A key is fresh because it is a UUID.

### `Accounts`

`users`, `sessions` (`refresh_sessions`), `tickets`, `vtokens`, `resets`,
`intents` and `identities` are the tables of `internal/repository/users.go`,
`contact_claims.go` and `identities.go`; `realm` is Keycloak,
whose own answers are modelled from how `backend/handlers/auth` uses them; `access`
holds the access tokens that have been handed out.  `req` are the handlers, with the
rows their transactions have locked; every row keeps the `auth_version` it was
issued under (`version`) and, as history, the version at its insertion (`at`).
The actions are grouped by what they are about: `Sessions` (sign-up, login,
rotation, logout, tickets), `Revocations` (logout-all, change and reset of the
password, all through `RevokeAllCredentials`), `Tokens` (mailed links and the
profile's address) and `Identities` (link, exchange, deletion and the legacy
migration).  `Leave` ends a request at any step, as a disconnect or an error does.

Two subtleties decide everything.  `FOR UPDATE` on a user row would exclude the
`FOR KEY SHARE` of a foreign key, but an `UPDATE` of other columns does not: so a
session or a ticket may be inserted for a user whose version is being raised.
And `RevokeAllCredentials` revokes the sessions its statement sees: a rotation in
flight has not inserted its replacement yet.

### `ChatHub`, `ChatSync`, `ChatClient`

`ChatHub` is `internal/chat`: each case of `Run`'s select is an action, and so is
each half of a pump.  `sock` is a client with its two pumps, `queue` its send
channel, `channel` the broadcast channel, `kicks` the disconnect channel, `sweep`
the revalidation with its `running` and `again` flags; the three channels have
their capacities.  Saving a message and calling `NotifyNewMessage` keep the loop busy, so
they are states of it.  A sender that finds the broadcast channel full waits, also
after the hub has stopped.  History: `owed` and `handled` (what a socket was sent
while live, what its pump has taken), `closes`, `overtaken` (sockets registered
after the kick that should have ended them).

`ChatSync` is the storage side: messages get their `created_at` when they are
received and are stored later, pages are cut by (`created_at`, id), a page also
answers whether there is a next one.  `ChatClient` is the browser: the
controller's generations and its reconnect timer, the hook's cursor, the stream
that merges pages and live messages, the cached page of a group, late answers of
an earlier generation or group.  Its server is what `ChatSync` and `ChatHub` promise.

### `Publication`, `FeedPlay`, `FeedThread`, `FeedBoard`

`Publication` is one idempotency key (or several) with several bodies: the
reservation, which takes the advisory locks of its storage keys in their order, a
Put per object, the creation, its resolution when the commit's outcome is unknown,
the compensation under the same locks, the deletion queue's worker with the lock it
takes on one key.  A failed enqueue, a crash or a conflict leaves a key in
`untracked`; nothing else may.  `Replay` says whether an author may delete a post while its key is
still used: that is the one constant on which the result depends (section 6).

`FeedPlay` has the timed session and the untimed routes of one post side by side:
`FOR UPDATE` for a timed guess or timeout, `FOR KEY SHARE` for an untimed guess, and each
request judging by an instant it read before it waited.  `shown` remembers everything
a player was shown of the post, by whichever route: `TimedMedia`, `Media`,
`TimedResults`, and the untimed `Play`, `Results`, `Result` and `Commit`.  It tells apart the place
and the photo as the feed shows it, which `PlaceKept` is about, from what is open: the original and
the scores, which `Play` and `Results` give to whoever sees the post (section 6).  `FeedThread` and `FeedBoard` walk
through comments and the leaderboard by cursor while others write.

### `Push`, `RateLimiter`, `Groups`, `Pictures`, `Ladder`, `MapPins`

`Push` is the notifier: the gauge that is raised before the bounded enqueue, the
workers, the gate per push service, the check of blocks just before a send, the
cap on subscriptions, `Stop`.  `RateLimiter` is the shared store of counters, bucket
by bucket under its lock, with eviction and sweep.  `Groups` has rooms, codes,
invites and the row locks their transactions take.  `Pictures` has group pictures (a new key
each) and avatars (one key, overwritten).  A group's row is locked only if there is one, so
of two first pictures the later finds no row to retire and overwrites the earlier all the
same: history `overwritten`, apart from `stray`, the keys that mishaps took.
`Ladder` computes every board and rating from the guesses alone, and so has no state but
them: a group's ladders from its own challenges, a profile's and a
result's from those of all groups or of the feed as well (`History`).

`MapPins` evaluates every kind of criterion over rows, under retirement and a second
device.  `log` has at most one row for each instant: what a row is dated is when its
request arrived, and `Record` stores it then or at any later time, so a guess may reach a week
that is over and was judged.  Rows go again, by `Withdraw`, `DeletePost` and
`DeleteUserCascade`, whatever was unlocked by them; a pin is never locked again.  A call reads
the clock once, lists what is locked, and judges and awards one challenge per statement.
History: `owed`, what was complete ever since a call began, and `merits`, what a challenge's
promise granted at some moment while the call ran.

## 4. What the runs check

| Run | Question | Instance |
|---|---|---|
| `challenges` | Do racing requests leave one window and one attempt, and tell the player the truth?  Was every recorded guess sent inside the first delivery's window (`GuessInsideFirstWindow`), and none of them after its player was shown the results (`NoGuessAfterResults`)?  Does the feed judge by the session's deadlines and tell the place to nobody who can still answer in time?  Do walks miss nothing, and do replaced pictures go? | timed: 1 player with 2 requests, 2 attempts, 2 points, time to 5; blocks: 3 users, 1 request, 3 attempts, time to 6; feed play: 2 requests, 1 post, time to 3; comments: 2 writers, 3 comments, pages of 1; board: 3 players; pictures: 2 uploads each, 2 failures |
| `group` | Are the recharge rule, the promises and the bonus kept?  Do caps and revocations hold?  Are ratings fair? | 2 players, 2 requests, time to 4; 2 rooms, 3 invites, 2 requests; 3 players, 2 challenges of one group, of two, or of a group and the feed |
| `chat` | What is delivered, paged, pushed, counted and unlocked? | 2 users, 2 sockets, 2 messages, channels of 1; 2 writers, 3 messages, pages of 1; 2 groups, 3 messages; 2 notifications, 2 workers; 2 policies over 2 buckets, room for 3 counters; 7 catalogs of pins, 2 or 3 instants in 2 weeks |
| `accounts` | Do credentials, addresses and identities belong to who proved them, and do revocations and deletions reach everything? | 2 accounts, addresses, subjects, row ids and requests; ten mixes of operations; versions to 2 |
| `media` | Do rows, objects, claims and results stay consistent through crashes, slow workers and the account's deletion?  Can failing puts and deletes, slow workers or commits of unknown outcome orphan an object? | 4 keys, 1 upload, 2 workers, 2 groups, 3 faults: of seven kinds with the account's deletion, or of put, delete, slow and unknown |
| `liveness` | Does everything that waits get served, and every job end?  Are published objects kept, and none left behind? | 2 bodies under 1 key, 2 groups, 2 faults; 1 socket, 2 messages; 3 keys, 1 worker, 1 fault; 2 notifications, 1 worker, a queue of 1; 2 requests, 2 invites |
| `party_overlap` | Does the lock space any two starts?  It does not. | 1 player, 2 requests, time to 4 |
| `media_account` | Does an account's deletion see to all its media?  It does not. | 3 keys, no fault |
| `accounts_revocation` | Does a revocation end every session?  Not one that is being rotated. | 1 mix: sign-up, refresh, logout-all |
| `picture_first` | Does a group's picture that is replaced find somebody who deletes it?  Not the first of two that race. | 2 uploads, no mishap |
| `publication_replay` | Is a repeated upload harmless after the post was deleted?  It is not. | 1 key, 2 uploads |
| `chat_lossless` | Does a tab that catches up see everything?  Not after an empty page. | 1 group, 3 messages, 3 connections |

**Bounds.**  In the timed challenges the clock's instants cover acceptance, the
view window (1), the guess window (2), the expiry (3) and what lies beyond it (to 5), with a
skew of 1 and a stream that may take 2: every comparison of two instants takes
all its outcomes, and the deadlines are also cut off by the expiry.  Two
requests are enough for a race of two writers; a third adds only another waiter
for the same lock.  Two attempts let `SubmitGuess` repeat its transaction after a
conflict, so that it reads a row which its first attempt did not find.  For Party Time a window lasts 2 and recharges for 1, so
that two windows fit, and two can overlap; the guesses and posts are one, since
the rule relates one guess to one post.  For media two groups are the
smallest upload that can fail half-way, two workers the smallest set with a
stale one, and four keys are a raw video and a result for each of two claims, or two photos and
a retry.  The service `orphans` of `media` leaves out what the code gives up on: a crash, a
cancelled request or a Put that was stored but reported as failed leaves an object of
which no record exists, and `UndoDropped`, where the delete fails and then the
statement that should queue it, logs the key and no more.  Section 5 has the
same result for any number of the other faults.

Channels, queues, pages, caps and the limiter's store have room for one (the
store for three counters of four), because what can go wrong there goes wrong when they are
full, and a second element shows only in what waits.  For accounts two of everything is the least with a
stranger, a stolen address and a second identity.  The mixes of operations
(`Traffic`, `Mix`) keep those together that touch the same rows: each mix is
explored in full, but a behaviour does not, say, both link an identity and reset a password.
The versions reach two revocations, so that a session may survive one and be
ended by the next.  The map pins have two or three instants in two weeks, so that a row may come
into either week before, during or after the call that judges it, and leave again; and two
calls in the catalogs in which the second matters.  Feed play has time for acceptance, both windows of one and an
instant after.  `Explored` leaves out the far ends of two services: third connections
of a tab with all its messages, and late instants of parties in which
somebody plays or whose first window is still awaited.

**Symmetry** is used for values that the properties do not name: requests, points,
players, keys, uploads, workers, sockets, accounts with their addresses.  The
composites take them from pairs of values, so that one small group of permutations
serves all services.  It is never used in the run with liveness.

**Fairness** is assumed in `liveness` only, for each service its own.  *Hub*: every
goroutine that can go on does; weak fairness is enough for the loop since a
behaviour has finitely many messages, and the write pump has strong fairness for finding its
closed `done` channel, because Go's `select` picks among ready cases at random.
*Publication*: a handler's next step and the deletion worker; not that anybody uploads.
*Media*: the worker loop and the cleanup ticker run as long as the process does, the backoff of a
deletion job and the stale interval of a claim are passing time, and a crash
empties the actors and the loops start again, as the supervisor restarts the process.
*Push*: handlers, workers and `Stop`, whose steps all have deadlines.  *Invites*: a
transaction that can go on does, and nothing is said of who gets a row for which several wait; so what holds is that
they never all wait.  Nothing is assumed about clients.

The runs allow deadlock, since every behaviour's traffic is finite and a service may
come to rest; that nobody is left waiting is what `NobodyWaitsForever`,
`UploadsEnd` and `ObligationsEnd` say.

## 5. What is proved

All theorems hold for every value of the constants that satisfies the modules'
assumptions: any number of requests, players, sockets, accounts, keys, uploads
and workers, any windows and capacities, and, but for the hypotheses named below, any number and any
kinds of faults.

**`TimedChallengeProofs`.**  The inductive invariant is

    TypeOK /\ DeadlinesConsistent /\ WindowsSound /\ RequestsSound
           /\ LockCoversInsert /\ GuessInsideFirstWindow /\ RepliesTellStoredGuess

`GuessInsideFirstWindow` alone is not inductive: a request may already have
passed its checks, so `RequestsSound` says what a request at "insert" or
"record" knows, and the view row it read may be purged, so `WindowsSound` ties
every surviving row to the first window and says that a missing row means the
challenge is long closed.  The last is where `AuditCoversChallenge` is used.
From the invariant follow the safety properties, the action properties
`GuessIsFinal` and `ReacceptanceKeepsWindow`, and `PromiseKept`: every step maps
to a step of `OneAttempt` or to a stutter.  `BlockStopsDelivery` needs no
invariant.  `LockCoversSubmit` shows that the unique-violation branch of
`SubmitGuess`, which would ask the pool for a second connection while holding
one, is never taken.

**`PartyProofs`.**  The inductive invariant is

    TypeOK /\ AnnouncementsTrue /\ NoFutureWindow /\ DoublingDeserved /\ RequestsKnow

where `RequestsKnow` says that the refusal tested under the lock is still the
answer at the insert, and that what a client was told comes from a window.
`RechargeKept` and `PromiseOfStatusKept` are action properties of `Spec`;
`SerialStartsSpaced` and `SerialBonus` are the documented rules, and hold for
`SerialSpec`.

Its second part is about `Groups`, with the inductive invariant

    TypeOK /\ CallsSound /\ LocksExclude /\ ActiveCapped /\ DailyCapped

and finitely many members.  The caps are kept although the count and the insert are two
statements: `CallsSound` says that what a creator counted still leaves room, in its group
and in its own day by the clock of the count, because both rows are locked (`LocksExclude`)
and everything else that happens to invites only takes away; and that a join between its
check and its insert holds the row of an invite that is live at its instant.  From it follow
`ActiveInvitesCapped`, `DailyInvitesCapped` and `JoinsAreInvited`.  `GroupSane`: finitely
many invites, natural numbers for the bounds, and names of different things that differ.

Its third part is about `Ladder`, for any players, groups, challenges, chances of winning, factors and
windows.  Ratings and boards depend on the guesses only through what `LoadChallenges` returns,
and a row that says "timed out" adds nothing to that (`TimeoutNotLoaded`); so `TimeoutsMoveNobody`
says of histories of any length that a timeout in a group moves no rating of any ladder, its own
or a global one, and no other row of any group's board.
`LaterIsNoBetter` is about the rounded points of `score.go` for any grace period, window and
distance: they do not grow with the time taken, and while the window is open a fifth of them is
left.  `ShareShrinks` and `Worth` are its two halves, the division by the span and the
rounding.  `LadderSane`: seconds are natural numbers, and a distance is worth at most 5000.

**`MediaLifecycleProofs`.**  The inductive invariant is

    TypeOK /\ ActorsSound /\ JobsSound /\ KeysUsed /\ KeysApart /\ OwnedStored /\ CleanupSafe

Its core is ownership: a key an actor has stored and not yet published is known
to nobody else (`KeysApart`) and in the store (`OwnedStored`), which holds
because keys are fresh (`KeysUsed`) and changes hands in one transaction; and
what the cleanup runner is about to delete has no reference (`CleanupSafe`),
which stays true although uploads take no lock, because a reference can only
appear to a key that its uploader still owns.  The proof goes through frames:
lemmas that say which part of the invariant a step of a given shape can disturb
(`CalmInv`, `MoveInv`, `QuietInv`, `RunnerInv`, `PublishInv`), one application
per action.  On it rest `PublishedOnce`, `ClaimsAreKept`, `DeletionsAreReal`, and
four results with a hypothesis of their own: `MediaIsPresent` and
`SourceIsPresent` when no commit has an unknown outcome, `RawSourceIsOwned` when
the account stays (both are needed: see section 6), and `NothingIsOrphaned`.

`NothingIsOrphaned` says that every object is referred to by a row, queued for deletion
or in the hands of an actor.  Its hypotheses are `AccountMayGo = FALSE`
(`media_account` shows why) and `Tame`: no crash, no cancelled request, no Put that
is stored though reported as failed, and not both a failing delete and a failing
statement.  Each of these loses the only trace of an object.  Commits of unknown
outcome, slow workers, failing puts and either half of a compensation are
within it, in any number.  The
argument is that an object can be lost only by the step that ends the last reference to it
(`LostReferences`) or lets go of it (`LetsGo`), and that each such step deletes
or queues it, or has committed a row.  It needs one more invariant, `AllTidy`:
no actor is cancelled, and the upload of a video commits with its one raw object in
hand.

Its second part is about `Pictures`.  The inductive invariant adds to its three
properties that whoever holds the row replaces the picture it has read, that a picture which
was replaced is not shown again (`CoversInv`), and for an avatar that the object of
the put in flight is apart from the one kept (`AvatarInv`).  `ReplacementIsOwned` says that a picture
which an upload found and replaced is that upload's or a job's to delete, and that what
else can be left behind are the first pictures of a group that were `overwritten`; `PictureIsOwned`
has no such exception, for a group that has a picture.  They, `PictureIsStored` and
`AvatarIsPreserved` hold when no COMMIT that took effect is reported as failed
(`PicturesSane`; section 6 says what happens otherwise), for any number of racing
replacements and any other mishaps.

**`AccountsProofs`.**  The inductive invariant is

    TypeOK /\ \A r : Sound(req[r]) /\ OneRevocation /\ RealmKnown /\ EmailActive /\ EmailProven
           /\ AddressUnique /\ ResetsReachOwner /\ TicketsOrdered /\ StaleSessionsRaced

`Sound` is what a request in flight may rely on, by its step: whose row it rotates,
that the sessions it is about to revoke are all there were when its statement
ran, that the identity it attaches still has the intent or the proven address
it was found with, that it has unlinked what it will delete.  `OneRevocation`
(the user row's lock) keeps two revocations of one account apart.  `EmailProven`
rests on `RealmKnown` (what Keycloak vouches for was proven to Keycloak) and on
tokens that carry their address.  From the invariant follow
`RevocationsEndSessions`, `AddressesProven`, `AddressesUnique`, `ResetsGoHome`
and the action properties `IdentitiesEarned`, `DeletionsUnlinkFirst` and
`TicketsAreCurrent`.  The last says why a ticket inserted after a revocation is harmless: it carries the
version that was read before, and a socket is opened only with the present one.

**`ChatHubProofs`.**  The inductive invariant is

    Typed /\ EventsUsed /\ Newcomers /\ DoneClosedOnce /\ NothingSkipped
          /\ WritersAuthorized /\ StaleAwaited

`Typed` contains the channels' capacities.  `DoneClosedOnce` is what keeps the process alive: five
places remove a socket and close its channel, and a second close would panic.
`NothingSkipped` says that a socket that is still registered has taken or will find in its
channel every message of its room.  `WritersAuthorized` says that a pump between
its check and its write holds back the blocks of its author, from which
`BlockStopsMessages` follows.  `StaleAwaited` follows a stale socket through the
revocation that has not called `DisconnectUser` yet, the full disconnect
channel, and the sweep that has or has not looked at it; the sockets of which it says
nothing are those of `overtaken`, registered after their kick.

**`PublicationProofs`.**  The inductive invariant is

    TypeOK /\ LocksHeld /\ LocksExclusive /\ WritesUnpublished /\ PutsStored
           /\ PublishedObjectsKept /\ EveryObjectTracked

Two uploads that write under one key have different bodies with a lock in common or
none (`LocksExclusive`, along `Order`); whoever writes or compensates found its key
unpublished and it is still so (`WritesUnpublished`).  The two theorems
about objects have the hypothesis `~Replay`: no author deletes a post whose key is uploaded
again.
`publication_replay` shows that they are false without it.

`NewsOnce` does without it: a group hears of a publication at most once, whatever is
deleted and used again.  Its invariant `NewsInv` rests on the token that every row
keeps of the attempt that wrote it: tokens are apart (`TokensApart`), so only one upload
can find that the row it looks up is its own, and what it has to tell has
not been told (`OneTeller`).

**`FeedPlayProofs`.**  The inductive invariant is

    TypeOK /\ RequestsSound /\ LocksSound /\ InsertsSound
           /\ AnswersTrue /\ JudgedByTheWindow /\ PlaceKept

`LocksSound` says that a request with `FOR UPDATE` on a post has it alone, while untimed
guesses share theirs.  `InsertsSound` is about the row between its insert and its
commit: it is the only one of its player, it suits the session, and a conflict means
that an answer is there to be read.  So all racing requests of a player
report one answer (`EveryAnswerIsTrue`), timed guesses and timeouts are judged by
deadlines that do not move (`WindowsDecide`), and nobody who may still answer in time has been
told the place or shown the photo in the feed, nor anybody a hidden place before its reveal, by any
route (`PlaceIsKept`).  `GuessesAreKept` is the action property that a recorded answer
changes only with its post.  The hypothesis `Sane` says that windows are natural
numbers, blocks are pairs of users, and `None` is no session and no answer.

The other parts are about what is read page by page.  A page is the first n of a set by a
strict order (`Leading`), and the lemmas about it say that it is closed towards the
front, that asking for one more than n and getting no more means that there is
no more, and that a set which is not empty has a first element.  The last would be an induction
over finite sets; it follows from the well-foundedness of the strict subset order
(`SomebodyLeads`).

- `CommentsAreAllShown`: a walk through the comments of a post ends with every comment that was
  readable all the while.  The invariant says that as long as the walk goes on, these were
  given or lie ahead of the cursor.
- `TheBoardIsAllShown`: likewise the leaderboard, for the players whose totals did not
  change, by the order of totals and names.
- `PagesHaveNoGap`, `TheEndIsTheEnd`, `WhatIsReadStaysRead`, `ReactionsStopAtBlocks`: what `ChatSync`
  promises.  The first three need that a client without a message has no cursor.
- `TheTabCatchesUp`, `TheTabKnowsTheEnd`, `OneConnectionOnly` and `TheViewBelongs`, about
  `ChatClient`.  The inductive invariant has a part that always holds (one socket of the present
  turn, or one timer, or neither; pages in flight are stretches of their group's messages; at
  most one of them is for the present turn) and a part `TabFresh` that holds as long
  as nothing slipped: a request that continues the stream has the stream's cursor;
  from the oldest message shown to the cursor nothing is missing (`Stretch`); what was posted
  since a last page was served is here or on its way (`Awaited`); an
  older page was asked for from the oldest message shown.  `slips` names what breaks the
  second part, so the theorem says that there is no other way to miss a message.

Their hypotheses (`ThreadSane`, `BoardSane`, `SyncSane`, `TabSane`) say that the bounds are natural
numbers, pages have room for one row at least, what can be listed is finite, and
`None` is none of the values.

**`PushProofs`.**  The inductive invariant is

    TypeOK /\ WorkersSound /\ QueueSound /\ SubscribersSound /\ StopSound
           /\ QueueAccounted /\ CapKept /\ HostsSpared

`WorkersSound` says that no block lies between sender and target from the authorization
of a delivery to its end, which rests on the sender not changing once a job is in the queue
(`QueueSound`) and on blocks that wait for deliveries.  `StopSound`, that no handler is between the
gauge and the channel once `Stop` has the lock, is what makes the last clause of
`QueueAccounted` true.  `SubscribersSound` is the cap with the endpoint that is about
to be written, for the one request that holds the user's row; meanwhile others can
only take endpoints away.  From it follow `NothingCrossesBlocks`, an action property,
`EveryJobAccounted`, `CapIsKept` and `HostsAreSpared`.  The hypothesis `Sane` says that
endpoints, workers and notifications are finite sets, the limits natural numbers, and
`None` no user.

Its second part is about `RateLimiter`, whose check takes the store's lock twice: once per
bucket to look, and once to count.  The invariant says that between the two a counter
found with room is still there with room, or was evicted in between (`CheckSound`), and that a
counter's count is what was granted in its window (`CountersTrue`).  So `WindowsHold` is true of
every counter that was not evicted, whatever the policies and however many clients; beside it
`StoreIsBounded`, `RefusalIsFree` and `AdviceIsHonest`.  `PoliciesSane` is what
`limiter.go` makes sure of: a bucket without a limit or a window is not looked at.

Its third part is about `MapPins`, for any catalog of the fourteen kinds of criteria and any rows,
which come late and go at any time.  Nothing is monotone here: what is complete at one
statement may be so no more at the next, and what a call awards may have been taken back
already.  So the properties speak of the call.  `UnlocksAreEarned`: an unlock was deserved at some moment
while the call that dates it ran, where "deserved" is what the challenge promises, said
without the queries (`Deserved`).  `EvaluationsComplete`: a call that succeeds leaves nothing locked
that was complete from its beginning to its end.

The argument is that what a query finds is deserved at the moment it is asked
(`EligibleEarned`): what the loop over the attempts finds is a run of `count` attempts without
a timeout or a low score (`StreakFound`), and a first place among the rows that a call reads is one
among all rows of that week that there are, since the call reads every row of a week that was
over at its instant, and what it leaves out (timed-out guesses) adds nothing (`RankEarned`).
The inductive invariant `PinsInv` adds what a call in progress may rely on (`CallKept`): what is
deserved while it runs is among its merits, the challenge it is about to award too,
and whatever remains complete is still in front of it or is unlocked.  Every step of the world, whatever it
does to the rows, keeps that by what the history remembers (`PinsPlayed`); the steps of the call keep it by
`EligibleEarned` (`PinsJudge`), or because a list made at the call's beginning has
everything that was locked then (`PinsEvaluate`).  `SelectionIsShown` follows from the invariant too.

Totals and streaks are recursive functions.  `Solved` proves that such a recursion has one
solution, with values that are numbers, and `Climb` is the induction over `1..N` it needs, from the
well-foundedness of the natural numbers.  The hypothesis `PinsSane` says that the challenges
are numbered, their counts and points natural numbers, and that a guess that
timed out scored 0, as every statement that records one does
(`internal/repository/groups/challenges.go:349,406`, `feed/timed.go:195`).  A count of 0 is
allowed: the evaluator refuses it, and the call fails.

**Only model-checked.**  `PointsConserved`, `DominanceRewarded` and `PlacesFair`, the parts of
`RatingsFair` about the ratings' values: they hold for the logistic curve and few players,
not for any `Expected`, and a proof would go by induction over nested sums of the replay.
`DeletedAccountsLeave`, `NobodyWaitsForever`, `UploadsEnd` and `ObligationsEnd` are liveness
under fairness, which the prover does not reach.

**Proved, and in no run.**  `TypeCorrect` of each module, `DoneClosedOnce`, `AddressUnique`,
`ResetsReachOwner`, `TicketsCurrent`, `RawSourceOwned`, `AnnouncedOnce`, `GuessKept`, `GuessIsFinal`,
`ReacceptanceKeepsWindow`, `StartsSpaced` and `EntitledGuessDoubles` (for
`SerialSpec`): the runs keep to the properties that say most.

**Proved, and checked of instances.**  The composites state the properties of the other
services of instances with constants of their own, under one name for each service or
group of services.  The theorems are about the properties themselves:

| Property of a run | Theorems |
|---|---|
| `MCGroup`: `CapsHold`, `JoinsByLiveInvites` | `ActiveInvitesCapped`, `DailyInvitesCapped`, `JoinsAreInvited` |
| `MCGroup`: `TimeoutsUncompared`, `RatingsFair` (its part `FasterNoWorse`) | `TimeoutsMoveNobody`, `LaterIsNoBetter` |
| `MCChat`: `LimitsHold` | `WindowsHold`, `StoreIsBounded`, `RefusalIsFree`, `AdviceIsHonest`, `EveryJobAccounted`, `CapIsKept`, `HostsAreSpared` |
| `MCChat`: `UnlocksRight` | `UnlocksAreEarned`, `EvaluationsComplete`, `SelectionIsShown` |
| `MCChat`: `NoPushAcrossBlock` | `NothingCrossesBlocks` |
| `MCChat`: `PagesAreTrue`, `NothingMissed` | `TheEndIsTheEnd`, `WhatIsReadStaysRead`, `ReactionsStopAtBlocks`, `PagesHaveNoGap`, `TheTabCatchesUp`, `TheTabKnowsTheEnd`, `OneConnectionOnly`, `TheViewBelongs` |
| `MCChallenges`: `PicturesKept` | `PictureIsStored`, `ReplacementIsOwned`, `PictureIsOwned`, `AvatarIsPreserved` |
| `MCChallenges`: `WalksComplete` | `CommentsAreAllShown`, `TheBoardIsAllShown` |
| `MCChallenges`: `JudgedByTheWindow`, `PlaceKept` | `WindowsDecide`, `PlaceIsKept`, `EveryAnswerIsTrue`, `GuessesAreKept` |
| `MCMedia`: `NothingOrphaned_Orphans` | `NothingIsOrphaned` |

## 6. Findings, and behaviour worth knowing

Shown by a run that is expected to fail:

- `party_overlap`: two starts that take the group row's lock in the order
  opposite to their clock readings both succeed, and their windows overlap
  (`internal/repository/party/party.go:86-91`).
- `media_account`: the deletion of an account queues the deletion of its photos'
  objects only; those of its chat attachments and unfinished videos stay
  (`internal/repository/users.go:445-455`).
- `accounts_revocation`: a rotation in flight while all sessions are revoked inserts
  its replacement after the revocation chose its rows; that session stays usable
  (`internal/repository/users.go:253`).  `StaleSessionsRaced` says that this, and a login in
  flight, are the only ways.
- `picture_first`: two first pictures of a group race, neither finds a row to lock, and
  the object of the one that is overwritten is neither deleted nor queued
  (`internal/repository/groups/groups.go:58-79`, against the comment at 55-57).
- `publication_replay`: an upload repeated under its idempotency key after the
  author deleted the post compensates by deleting the object of a group photo that
  is still there (`internal/repository/groups.go:109`).
- `chat_lossless`: a tab that caught up with an empty page has lost its cursor and
  misses messages after its next reconnect (`frontend/src/hooks/useGroupMessages.ts:163`).

Seen while modelling, and part of the models without a run of their own:

*Timed challenges, Party Time, media*

- A guess or a timeout that arrives after the challenge's expiry is refused
  before the statement that records a timed-out row
  (`internal/repository/groups/challenges.go:271,402`), so a player whose guess
  window ended at the expiry may have no row, where `docs/gameplay.md:107-119`
  has one.
- A delivery is stamped with the instant its request arrived
  (`backend/handlers/photo.go:375,439`), so a slow stream
  uses up the viewing time it takes; `docs/api.md:213-217` promises the full time
  to a slow connection.  A client whose confirmation overtakes the handler's own
  update gets it.  The refinement holds in both cases, because the window is
  whatever the first delivery recorded.
- `ExpireChallengeViews` (`internal/repository/cleanup.go:36`) keeps a closed row
  for one day.  With a `CHALLENGE_TTL` longer than that a player could accept
  again and get a second window (`docs/gameplay.md:77`); `AuditCoversChallenge`
  excludes it.
- Under overlapping windows a player who posted in the first and guesses in the
  second loses the bonus (`internal/repository/party/party.go:156`,
  `docs/gameplay.md:151-153`).  `DoublingDeserved` says that this is the only way
  to lose it.
- The compensation of an upload uses the context of the request, which a disconnect
  has just cancelled (`backend/handlers/photo.go:273`, against its comment at 25-28).
- When a commit is reported as failed but took effect, the compensation deletes
  the objects of rows that exist (`backend/handlers/photo.go:104-106`,
  `internal/mediaprocessing/worker.go:274-275`); `MediaPresent` and `SourcePresent`
  therefore assume such outcomes away.

*The hub, push, the tab*

- The periodic revalidation is called the backstop of a lost kick
  (`internal/chat/hub.go:247-249`), but the query it uses does not look at
  `auth_version` (`backend/main.go:138-147`): a socket that a kick missed
  stays until its account is deleted.
- The callback that "must be non-blocking" (`hub.go:15-18`) queries the database on
  the loop; a sender waits for ever when it finds the broadcast channel full after
  the hub has stopped.
- A refreshed subscription keeps its row's id, so the late failure of a delivery to the old
  one deletes it (`internal/push/notifier.go:351-352`, `store.go:104`); `Subscribe`
  answers with an id that was not stored on a conflict (`http.go:106`).
- A message stored late with an earlier `created_at` is skipped by a catch-up whose
  cursor has passed it (`internal/repository/chat/messages.go:75-79`).
- In the tab an answer of an earlier generation moves the cursor
  (`useGroupMessages.ts:163`), a failed page of the catch-up is not asked for again, and a message that is
  broadcast between the handshake and the registration (`client.go:127-133`) is lost
  until the next catch-up.  `CatchUpComplete` names each of these ways, and says
  that there is no other.

*The feed, groups, pictures*

- A publication whose commit was rolled back, and whose key another upload with other
  groups published meanwhile, is answered with a conflict and leaves the objects
  of its own groups in the store without a job (`backend/handlers/feed/media.go:165-167`).
- Of a post with a timed session the untimed routes are still served to whoever sees it, without
  a session or a guess: `GET .../play` gives the original (`docs/public-feed.md:42-43` calls it legacy),
  and `GET .../results` every player's score, and distance unless the place is hidden
  (`backend/handlers/feed/api.go:73,275-290`, `internal/repository/feed/results.go:26-75`).  So a player
  can look without the clock running and see how others scored before guessing; the timed routes
  prevent either.  The place is on no route before the answer, which is what
  `docs/public-feed.md:55-58` promises and `PlaceKept` says of all routes together.
- An untimed guess after the timed session has run out scores in full
  (`docs/public-feed.md:41-42`), and a request that read its clock before the deadline may
  commit after the results were shown to another tab.
- The owner of a post cannot delete comments of somebody they blocked
  (`internal/repository/feed/social.go`).
- The documented combined rating history (`docs/public-feed.md:59-61`) is not what
  `GlobalElo` replays; and with more than some seventeen guessers on one challenge
  the summed deltas overshoot, so that `DominanceRewarded` fails beyond the instance
  checked.
- The daily cap on invites compares the handler's clock with rows stamped by the
  database's; no operation removes a member.
- An unknown commit can lose a group's picture, and two uploads of an avatar race for
  one object; `UpdateProfile` accepts the marker of an uploaded avatar from the client
  (`backend/handlers/auth/account.go:485-495`).
- A map pin stays unlocked when what it was unlocked by is deleted, by its player (a reaction, a comment, a post)
  or by others (posts, accounts); and a rival's guess that was sent before the end of a
  week and stored after it may overtake a first place that was awarded already
  (`internal/repository/groups/challenges.go:331-332`, `internal/repository/pins/progress.go:246-271`).
- One invalid criterion ends the evaluation of all map pins; several criteria count rows of a
  smaller audience than `docs/map-pins.md` says.

## 7. What is not modelled, and why

- Distances, EXIF, transcoding and pixel work: functions of the bytes; their failure
  is a step.  The logistic curve of Elo is a table.
- Listings, map and profile queries that only read, beyond the pages and boards above.
- Moderation reports: one insert whose unique index is the rule.
- The front end beyond the chat: reducers of one tab whose late answers are guarded
  by an id; views and styles.
- Configuration, deployment, migrations as scripts, e-mail, geography.
- The database itself: a statement is atomic and sees what was committed before
  it, row and advisory locks and unique indexes work as documented, a
  transaction that ends early leaves nothing.  A lost database session releases advisory
  locks during a Put; that is not among the faults of `Publication`.

## 8. Running

    tlc -workers 2 -config MCChallenges.cfg MCChallenges.tla
    tlapm AccountsProofs.tla

`PROJECT.json` lists the runs with their properties, the lines every definition
stands for, and for every property a mutant of a definition that breaks it.  A
mutant is the operator named after the definition it changes
(`StartLocked_Unlocked` for `StartLocked`); no specification uses it.
