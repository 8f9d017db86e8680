------------------------------ MODULE FeedPlay ------------------------------
(***************************************************************************)
(* Playing the posts of the public feed: the timed session with its two    *)
(* deadlines, the untimed routes that are still served, everything a player *)
(* is shown of a post, and the author's deletion.  A request reads the      *)
(* clock when it is called and may run its transaction at any time later:   *)
(* its reading is "at", at most the clock.                                  *)
(*                                                                          *)
(* The timed transactions lock the post FOR UPDATE, the untimed guess FOR   *)
(* KEY SHARE; a row inserted by an open transaction makes a second insert   *)
(* wait.                                                                    *)
(***************************************************************************)
EXTENDS Naturals, FiniteSets

CONSTANTS
  Users,
  Posts,
  Owner,        \* Owner[p]: the author of a post
  Calls,        \* requests in flight
  None,
  Walls,        \* blocks that users may set
  ViewWindow, GuessWindow,
  RevealAt,     \* RevealAt[p]: the instant until which p's place is hidden; 0 if it never is
  MaxTime       \* bound on the clock

VARIABLES
  clock,
  feed,      \* posts that exist
  walls,     \* user_blocks
  sessions,  \* public_challenge_views: <<post, user>> -> session or None
  answers,   \* public_guesses: <<post, user>> -> guess or None
  call,      \* the requests
  told,      \* history: <<post, user>> -> guesses reported to the user
  shown      \* history: <<post, user>> -> what the user was shown of the post

vars == <<clock, feed, walls, sessions, answers, call, told, shown>>
shows == <<told, shown>>

Entries == Posts \X Users
Session == [delivered: BOOLEAN, viewExpires: 0..(MaxTime + ViewWindow),
            guessExpires: 0..(MaxTime + ViewWindow + GuessWindow)]
Kinds == {"free", "timed", "late"}    \* untimed, in time, timed_out
Answer == [kind: Kinds, at: 0..MaxTime, call: Calls]
Request == [op: {None, "timed_guess", "timeout", "guess", "results"}, user: Users \cup {None},
            post: Posts \cup {None}, at: 0..MaxTime,
            pc: {"idle", "locked", "shared", "inserted", "visible"}, row: {None} \cup Answer]
\* The original for an attempt and who scored what, open to whoever sees the post; the
\* photo as the feed shows it, unblurred; the coordinates.
Things == {"open", "photo", "place"}
NoRequest == [op |-> None, user |-> None, post |-> None, at |-> 0, pc |-> "idle", row |-> None]

Init ==
  /\ clock = 0 /\ feed = Posts /\ walls = {}
  /\ sessions = [e \in Entries |-> None] /\ answers = [e \in Entries |-> None]
  /\ call = [r \in Calls |-> NoRequest]
  /\ told = [e \in Entries |-> {}] /\ shown = [e \in Entries |-> {}]

-----------------------------------------------------------------------------

Walled(u, v) == <<u, v>> \in walls \/ <<v, u>> \in walls

\* challengeVisibility, for posts whose audience is everybody.
Visible(p, u) == p \in feed /\ ~Walled(u, Owner[p])

\* Authors cannot play their posts; what they are shown is not modelled.
Plays(p, u) == Visible(p, u) /\ u # Owner[p]

Exclusive(p) == \E q \in Calls : call[q].post = p /\ call[q].op \in {"timed_guess", "timeout"}
Shared(p) == \E q \in Calls : call[q].post = p /\ call[q].op = "guess"

\* FOR UPDATE waits for every other lock, and KEY SHARE for FOR UPDATE.
Lockable(p) == ~Exclusive(p) /\ ~Shared(p)
Sharable(p) == ~Exclusive(p)

Begin(r, op, u, p, at, pc) ==
  /\ call[r].pc = "idle"
  /\ call' = [call EXCEPT ![r] = [op |-> op, user |-> u, post |-> p, at |-> at, pc |-> pc, row |-> None]]
  /\ UNCHANGED <<clock, feed, walls, sessions, answers, shows>>

Entry(r) == <<call[r].post, call[r].user>>
Done(r) == call' = [call EXCEPT ![r] = NoRequest]

Show(e, things) == shown' = [shown EXCEPT ![e] = @ \cup things]

\* The answer is an error, a statement fails or the connection is lost: the
\* transaction is rolled back.
Refuse(r) ==
  /\ call[r].pc # "idle"
  /\ Done(r)
  /\ UNCHANGED <<clock, feed, walls, sessions, answers, shows>>

-----------------------------------------------------------------------------
(* The timed session. *)

Opened(at, delivered) == [delivered |-> delivered, viewExpires |-> at + ViewWindow,
                          guessExpires |-> at + ViewWindow + GuessWindow]

\* A session that exists is kept.
AcceptTimed(u, p, at) ==
  /\ Plays(p, u) /\ Lockable(p) /\ sessions[<<p, u>>] = None
  /\ sessions' = [sessions EXCEPT ![<<p, u>>] = Opened(at, FALSE)]
  /\ UNCHANGED <<clock, feed, walls, answers, call, shows>>

\* Mutant: every acknowledgement sets the deadlines.
Delivered_Again(e, at) == Opened(at, TRUE)

\* The first acknowledgement starts the windows.
Delivered(e, at) == IF sessions[e].delivered THEN sessions[e] ELSE Opened(at, TRUE)

MediaDelivered(u, p, at) ==
  /\ Plays(p, u) /\ sessions[<<p, u>>] # None
  /\ sessions' = [sessions EXCEPT ![<<p, u>>] = Delivered(<<p, u>>, at)]
  /\ UNCHANGED <<clock, feed, walls, answers, call, shows>>

Over(e, at) == sessions[e] # None /\ sessions[e].delivered /\ sessions[e].guessExpires <= at

\* The original, until the view window is over, and again after the guess.
TimedMedia(u, p, at) ==
  /\ Plays(p, u)
  /\ LET e == <<p, u>> IN
     /\ sessions[e] # None
     /\ ~sessions[e].delivered \/ at < sessions[e].viewExpires \/ answers[e] # None
     /\ Show(e, {"open"})
  /\ UNCHANGED <<clock, feed, walls, sessions, answers, call, told>>

\* A guess or a timeout locks its post FOR UPDATE.
Lock(r, op, u, p, at) ==
  /\ Plays(p, u) /\ Lockable(p)
  /\ Begin(r, op, u, p, at, "locked")

\* What the transaction answers is what it read or wrote.
Tell(r, a) == told' = [told EXCEPT ![Entry(r)] = @ \cup {a}]
Written(r, kind) == [kind |-> kind, at |-> call[r].at, call |-> r]
\* ON CONFLICT DO NOTHING.
Record(r, a) == answers' = [answers EXCEPT ![Entry(r)] = IF @ = None THEN a ELSE @]

\* An answer given before is returned.
ExistingAnswer(r) ==
  /\ call[r].pc = "locked" /\ call[r].op \in {"timed_guess", "timeout"}
  /\ answers[Entry(r)] # None
  /\ Tell(r, answers[Entry(r)])
  /\ Done(r)
  /\ UNCHANGED <<clock, feed, walls, sessions, answers, shown>>

Playable(r, op) ==
  /\ call[r].pc = "locked" /\ call[r].op = op
  /\ answers[Entry(r)] = None /\ sessions[Entry(r)] # None /\ sessions[Entry(r)].delivered

TimedGuess(r) ==
  /\ Playable(r, "timed_guess")
  /\ sessions[Entry(r)].viewExpires <= call[r].at /\ call[r].at < sessions[Entry(r)].guessExpires
  /\ call' = [call EXCEPT ![r].pc = "inserted", ![r].row = Written(r, "timed")]
  /\ UNCHANGED <<clock, feed, walls, sessions, answers, shows>>

\* The answer says what was computed, whatever the insert did.
CommitTimed(r) ==
  /\ call[r].pc = "inserted" /\ call[r].op = "timed_guess"
  /\ Record(r, call[r].row)
  /\ Tell(r, call[r].row)
  /\ Done(r)
  /\ UNCHANGED <<clock, feed, walls, sessions, shown>>

\* A guess that comes late records the timeout and is answered with an error.
LateGuess(r) ==
  /\ Playable(r, "timed_guess") /\ Over(Entry(r), call[r].at)
  /\ Record(r, Written(r, "late"))
  /\ Done(r)
  /\ UNCHANGED <<clock, feed, walls, sessions, shows>>

\* Mutant: the client's countdown is believed.
TimeoutDue_Client(r) == TRUE

TimeoutDue(r) == Over(Entry(r), call[r].at)

\* The row is inserted and read back.
TimedTimeout(r) ==
  /\ Playable(r, "timeout") /\ TimeoutDue(r)
  /\ Record(r, Written(r, "late"))
  /\ Tell(r, answers'[Entry(r)])
  /\ Done(r)
  /\ UNCHANGED <<clock, feed, walls, sessions, shown>>

-----------------------------------------------------------------------------
(* The untimed routes. *)

\* The original, to whoever sees the post: no session and no guess is asked for.
Play(u, p) ==
  /\ Plays(p, u)
  /\ Show(<<p, u>>, {"open"})
  /\ UNCHANGED <<clock, feed, walls, sessions, answers, call, told>>

\* Every player's score, to whoever sees the post.
Results(u, p) ==
  /\ Plays(p, u)
  /\ Show(<<p, u>>, {"open"})
  /\ UNCHANGED <<clock, feed, walls, sessions, answers, call, told>>

\* The coordinates, unless they are hidden at the request's instant.
ResultCoordinates(p, at) == IF RevealAt[p] <= at THEN {"place"} ELSE {}

\* The guess given before, with the place.
Result(u, p, at) ==
  /\ Plays(p, u) /\ answers[<<p, u>>] # None
  /\ Show(<<p, u>>, ResultCoordinates(p, at))
  /\ UNCHANGED <<clock, feed, walls, sessions, answers, call, told>>

Share(r, u, p, at) ==
  /\ Plays(p, u) /\ Sharable(p)
  /\ Begin(r, "guess", u, p, at, "shared")

\* ON CONFLICT DO NOTHING.
Inserted(r) == IF answers[Entry(r)] = None THEN Written(r, "free") ELSE None

\* The insert waits for the row of an open transaction.
Insert(r) ==
  /\ call[r].pc = "shared"
  /\ \A q \in Calls \ {r} : ~(call[q].pc = "inserted" /\ call[q].row # None /\ Entry(q) = Entry(r))
  /\ call' = [call EXCEPT ![r].pc = "inserted", ![r].row = Inserted(r)]
  /\ UNCHANGED <<clock, feed, walls, sessions, answers, shows>>

\* What is told is the row that is there, with the place.
Commit(r) ==
  /\ call[r].pc = "inserted" /\ call[r].op = "guess"
  /\ answers' = IF call[r].row = None THEN answers ELSE [answers EXCEPT ![Entry(r)] = call[r].row]
  /\ Tell(r, answers'[Entry(r)])
  /\ Show(Entry(r), ResultCoordinates(call[r].post, call[r].at))
  /\ Done(r)
  /\ UNCHANGED <<clock, feed, walls, sessions>>

-----------------------------------------------------------------------------
(* The feed and the results of timed sessions. *)

Finished(e, at) == answers[e] # None \/ Over(e, at)

\* The post as the feed shows it, unblurred.
Media(u, p, at) ==
  /\ Plays(p, u) /\ Finished(<<p, u>>, at)
  /\ Show(<<p, u>>, {"photo"})
  /\ UNCHANGED <<clock, feed, walls, sessions, answers, call, told>>

\* The post is read first, and then who may see the results.
ReadPost(r, u, p, at) == Plays(p, u) /\ Begin(r, "results", u, p, at, "visible")

\* The scores and, unless it is hidden, the place.
TimedResults(r) ==
  /\ call[r].pc = "visible" /\ Finished(Entry(r), call[r].at)
  /\ Show(Entry(r), {"open"} \cup ResultCoordinates(call[r].post, call[r].at))
  /\ Done(r)
  /\ UNCHANGED <<clock, feed, walls, sessions, answers, told>>

-----------------------------------------------------------------------------
(* The author, blocks and time. *)

\* Sessions and guesses go with their post.
Delete(p) ==
  /\ p \in feed /\ Lockable(p)
  /\ feed' = feed \ {p}
  /\ sessions' = [e \in Entries |-> IF e[1] = p THEN None ELSE sessions[e]]
  /\ answers' = [e \in Entries |-> IF e[1] = p THEN None ELSE answers[e]]
  /\ UNCHANGED <<clock, walls, call, shows>>

Block(w) ==
  /\ w \notin walls
  /\ walls' = walls \cup {w}
  /\ UNCHANGED <<clock, feed, sessions, answers, call, shows>>

Tick ==
  /\ clock < MaxTime
  /\ clock' = clock + 1
  /\ UNCHANGED <<feed, walls, sessions, answers, call, shows>>

Next ==
  \/ \E u \in Users, p \in Posts : Play(u, p) \/ Results(u, p)
  \/ \E u \in Users, p \in Posts, at \in 0..clock :
       \/ AcceptTimed(u, p, at) \/ MediaDelivered(u, p, at) \/ TimedMedia(u, p, at)
       \/ Media(u, p, at) \/ Result(u, p, at)
       \/ \E r \in Calls : \/ \E op \in {"timed_guess", "timeout"} : Lock(r, op, u, p, at)
                           \/ Share(r, u, p, at) \/ ReadPost(r, u, p, at)
  \/ \E r \in Calls :
       \/ Refuse(r) \/ ExistingAnswer(r) \/ TimedGuess(r) \/ LateGuess(r) \/ TimedTimeout(r)
       \/ CommitTimed(r) \/ Insert(r) \/ Commit(r) \/ TimedResults(r)
  \/ \E p \in Posts : Delete(p)
  \/ \E w \in Walls : Block(w)
  \/ Tick

Spec == Init /\ [][Next]_vars

-----------------------------------------------------------------------------
(* Properties. *)

TypeOK ==
  /\ clock \in 0..MaxTime /\ feed \subseteq Posts /\ walls \subseteq Users \X Users
  /\ sessions \in [Entries -> {None} \cup Session] /\ answers \in [Entries -> {None} \cup Answer]
  /\ call \in [Calls -> Request]
  /\ told \in [Entries -> SUBSET Answer] /\ shown \in [Entries -> SUBSET Things]

\* A player who was told a result was told the guess that counts: when timed,
\* untimed and timeout requests of one player race, all of them get the row
\* that was recorded.
AnswersTrue == \A e \in Entries : e[1] \in feed => told[e] \subseteq {answers[e]}

\* A guess of a timed session was asked for inside the session's guess window,
\* and a timeout after it, by the deadlines as they stand for ever after.
JudgedByTheWindow ==
  \A e \in Entries : answers[e] # None /\ answers[e].kind # "free" =>
    /\ sessions[e] # None /\ sessions[e].delivered
    /\ IF answers[e].kind = "timed"
         THEN sessions[e].viewExpires <= answers[e].at /\ answers[e].at < sessions[e].guessExpires
         ELSE sessions[e].guessExpires <= answers[e].at

\* The place of a post is told, by whichever route, and the feed shows it unblurred,
\* only to a player who has answered or whose final deadline is over: nobody who
\* knows the place can still answer in time, whatever was acknowledged later.  A
\* hidden place is told to nobody before its reveal.
PlaceKept ==
  \A e \in Entries : e[1] \in feed =>
    /\ {"photo", "place"} \cap shown[e] # {} => Finished(e, clock)
    /\ "place" \in shown[e] => RevealAt[e[1]] <= clock

\* A recorded guess stays as it is as long as its post exists.
GuessKept == [][\A e \in Entries : answers[e] # None /\ e[1] \in feed' => answers'[e] = answers[e]]_vars
=============================================================================
