---------------------------- MODULE MCChallenges ----------------------------
(***************************************************************************)
(* Challenges, from publication to the last comment, side by side for TLC:  *)
(* a behaviour is one of exactly one service, and the others stay in their  *)
(* initial states.  What may be interchanged in a service is taken from two *)
(* pairs of values.  The module's own challenge, of TimedChallenge, is      *)
(* played by one member with two requests at a time.                        *)
(***************************************************************************)
EXTENDS TimedChallenge, Integers, Sequences, FiniteSets, TLC

CONSTANTS None, a1, a2, b1, b2, post, ann, bob, cat

VARIABLES
  service,
  now_, removed_, blocked_, views_, guesses_, req_, firstWindow_, sawResults_,
  thread, parted, visible, liked, walk, turn, given, steady,
  totals, left, reader, display, still,
  clock, feed, walls, sessions, answers, call, told, shown,
  picture, shelf, retired, up, custom, object, av, mishaps, stray, overwritten, kept, alone

blockVars == <<now_, removed_, blocked_, views_, guesses_, req_, firstWindow_, sawResults_>>
threadVars == <<thread, parted, visible, liked, walk, turn, given, steady>>
boardVars == <<totals, left, reader, display, still>>
playVars == <<clock, feed, walls, sessions, answers, call, told, shown>>
pictureVars == <<picture, shelf, retired, up, custom, object, av, mishaps, stray, overwritten, kept, alone>>

As == {a1, a2}
Bs == {b1, b2}
Interchangeable == Permutations(As) \cup Permutations(Bs)

\* The owner, a member whom the owner may block, and a stranger, with one request at a time.
Block == INSTANCE TimedChallenge WITH Users <- {ann, bob, cat}, Owner <- ann, Members <- {ann, bob}, Blockable <- {bob},
  Requests <- {post}, Points <- Bs, NoPoint <- None, ViewWindow <- 1, GuessWindow <- 2, ExpiresAt <- 4, RetentionAt <- 4,
  TimeoutSkew <- 1, WriteTimeout <- 2, RequestLatency <- 1, AuditPeriod <- 4, MaxAttempts <- 3, MaxTime <- 6,
  now <- now_, removed <- removed_, blocked <- blocked_, views <- views_, guesses <- guesses_, req <- req_,
  firstWindow <- firstWindow_, sawResults <- sawResults_

Thread == INSTANCE FeedThread WITH Authors <- {bob, cat}, Walker <- cat, Host <- ann, Entries <- 1..3, PageSize <- 1, MaxTurn <- 1

Board == INSTANCE FeedBoard WITH Players <- 1..3, PageSize <- 1, MaxTotal <- 2, shown <- display

Play == INSTANCE FeedPlay WITH Users <- {ann, bob}, Posts <- {post}, Owner <- [x \in {post} |-> ann], Calls <- As,
  Walls <- {<<bob, ann>>}, ViewWindow <- 1, GuessWindow <- 1, RevealAt <- [x \in {post} |-> 2], MaxTime <- 3

Picture == INSTANCE Pictures WITH Uploads <- As, Old <- post, Avatars <- Bs,
  Mishaps <- {"put", "db", "delete"}, MaxMishaps <- 2

Services == {"timed", "block", "thread", "board", "play", "pictures"}

ChallengesInit ==
  /\ service \in Services
  /\ Init
  /\ Block!Init
  /\ Thread!Init
  /\ Board!Init
  /\ Play!Init
  /\ Picture!Init /\ (service # "pictures" => picture = None)

ChallengesNext ==
  /\ UNCHANGED service
  /\ IF service = "timed" THEN Next ELSE UNCHANGED vars
  /\ IF service = "block" THEN Block!Next ELSE UNCHANGED blockVars
  /\ IF service = "thread" THEN Thread!Next ELSE UNCHANGED threadVars
  /\ IF service = "board" THEN Board!Next ELSE UNCHANGED boardVars
  /\ IF service = "play" THEN Play!Next ELSE UNCHANGED playVars
  /\ IF service = "pictures" THEN Picture!Next ELSE UNCHANGED pictureVars

allVars == <<service, vars, blockVars, threadVars, boardVars, playVars, pictureVars>>

ChallengesSpec == ChallengesInit /\ [][ChallengesNext]_allVars

-----------------------------------------------------------------------------
(* The properties of the services, as their modules state them; those of TimedChallenge are the module's own. *)

\* A delivery that completes after a block opens no window (groups/challenges.go).
BlockedPlayerGetsNoWindow_Block == Block!BlockedPlayerGetsNoWindow

\* Timed answers are judged by the session's final deadlines, and of requests that
\* race each is told the answer that counts (feed/timed.go, feed/guess.go).
JudgedByTheWindow == service = "play" => Play!JudgedByTheWindow /\ Play!AnswersTrue
\* Whoever knows a post's place cannot answer in time any more, and a hidden place is
\* told to nobody before its reveal (feed/timed.go, feed/guess.go, feed/results.go).
PlaceKept == service = "play" => Play!PlaceKept

\* A walk through the comments, or through the board of who stands still, misses
\* nothing (feed/social.go: Comments, feed/leaderboard.go).
WalksComplete ==
  /\ service = "thread" => Thread!WalkComplete
  /\ service = "board" => Board!BoardComplete

\* The picture a group shows is stored; one that an upload has found and replaced is that upload's or a job's to
\* delete; a failed upload leaves the avatar from before (handlers/group.go: uploadGroupPhoto, handlers/auth/avatar.go).
PicturesKept == service = "pictures" => Picture!ReplacementOwned /\ Picture!PictureStored /\ Picture!AvatarPreserved
=============================================================================
