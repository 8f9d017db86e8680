--------------------------- MODULE FeedPlayProofs ---------------------------
(***************************************************************************)
(* Proofs about FeedPlay, for any users, posts, requests, blocks and        *)
(* windows; and about what is read page by page (FeedThread, FeedBoard,     *)
(* ChatSync, ChatClient), for any comments, players, messages, page sizes   *)
(* and connections.                                                         *)
(***************************************************************************)
EXTENDS FeedPlay, Integers, Sequences, FiniteSetTheorems, TLAPS

\* What the constants are: durations and instants, pairs of users, and a None that is neither a
\* session nor a guess.
Sane ==
  /\ MaxTime \in Nat /\ ViewWindow \in Nat /\ GuessWindow \in Nat /\ RevealAt \in [Posts -> Nat]
  /\ Walls \subseteq Users \X Users
  /\ None \notin Session \cup Answer

-----------------------------------------------------------------------------
(* The inductive invariant. *)

\* What the position of a request says of it.
RequestsSound ==
  \A r \in Calls : call[r].pc # "idle" =>
    /\ call[r].post \in Posts /\ call[r].user \in Users /\ call[r].at <= clock
    /\ call[r].pc = "locked" => call[r].op \in {"timed_guess", "timeout"}
    /\ call[r].pc = "shared" => call[r].op = "guess"
    /\ call[r].pc = "inserted" => call[r].op \in {"timed_guess", "guess"}

Locked(r) == call[r].pc \in {"locked", "shared", "inserted"}

\* A locked post exists, and only untimed guesses share it.
LocksSound ==
  \A r \in Calls : Locked(r) =>
    /\ call[r].post \in feed
    /\ \A q \in Calls \ {r} : Locked(q) /\ call[q].post = call[r].post =>
         call[q].op = "guess" /\ call[r].op = "guess"

\* A guess that counts as timed was asked for inside the window of the session, and a
\* timeout after it.
Suits(a, s) ==
  a.kind # "free" =>
    /\ s # None /\ s.delivered
    /\ IF a.kind = "timed" THEN s.viewExpires <= a.at /\ a.at < s.guessExpires
                           ELSE s.guessExpires <= a.at

\* A row that is not committed is the only one of its player; a conflict means that
\* there is an answer.
InsertsSound ==
  \A r \in Calls : call[r].pc = "inserted" =>
    /\ call[r].row = None => answers[Entry(r)] # None /\ call[r].op = "guess"
    /\ call[r].row # None => /\ answers[Entry(r)] = None
                             /\ Suits(call[r].row, sessions[Entry(r)])
    /\ \A q \in Calls \ {r} :
         call[q].pc = "inserted" /\ call[q].row # None /\ call[r].row # None => Entry(q) # Entry(r)

Inv ==
  /\ TypeOK /\ RequestsSound /\ LocksSound /\ InsertsSound
  /\ AnswersTrue /\ JudgedByTheWindow /\ PlaceKept

LEMMA NoRequestType == ASSUME Sane PROVE NoRequest \in Request
  BY DEF Sane, NoRequest, Request

LEMMA InitInv == ASSUME Sane, Init PROVE Inv
<1>1. \A r \in Calls : call[r] = NoRequest /\ call[r].pc = "idle"
  BY DEF Init, NoRequest
<1>2. \A e \in Entries : sessions[e] = None /\ answers[e] = None /\ told[e] = {}
  BY DEF Init
<1>3. TypeOK
  BY NoRequestType DEF Sane, Init, TypeOK
<1>4. RequestsSound /\ LocksSound /\ InsertsSound
  BY <1>1 DEF RequestsSound, LocksSound, InsertsSound, Locked
<1>5. AnswersTrue /\ JudgedByTheWindow /\ PlaceKept
  BY <1>2 DEF Init, AnswersTrue, JudgedByTheWindow, PlaceKept
<1> QED
  BY <1>3, <1>4, <1>5 DEF Inv

LEMMA EntryOf ==
  ASSUME Inv, NEW r \in Calls, call[r].pc # "idle"
  PROVE  /\ Entry(r) \in Entries /\ Entry(r)[1] = call[r].post
         /\ call[r] \in Request /\ call[r].at \in 0..MaxTime /\ call[r].at <= clock
  BY DEF Inv, TypeOK, RequestsSound, Entry, Entries, Request

-----------------------------------------------------------------------------
(* Requests. *)

\* The requests other than r stay; what they hold suits what r does.
LEMMA CallStep ==
  ASSUME Sane, Inv, NEW r \in Calls, NEW c \in Request, call' = [call EXCEPT ![r] = c],
         UNCHANGED <<clock, feed>>,
         c.pc # "idle" =>
           /\ c.post \in Posts /\ c.user \in Users /\ c.at <= clock
           /\ c.pc = "locked" => c.op \in {"timed_guess", "timeout"}
           /\ c.pc = "shared" => c.op = "guess"
           /\ c.pc = "inserted" => c.op \in {"timed_guess", "guess"},
         c.pc \in {"locked", "shared", "inserted"} =>
           /\ c.post \in feed
           /\ \A q \in Calls \ {r} : Locked(q) /\ call[q].post = c.post =>
                call[q].op = "guess" /\ c.op = "guess"
  PROVE  /\ call' \in [Calls -> Request] /\ call'[r] = c
         /\ \A q \in Calls \ {r} : call'[q] = call[q] /\ Entry(q)' = Entry(q)
         /\ RequestsSound' /\ LocksSound'
<1>1. /\ call' \in [Calls -> Request] /\ call'[r] = c
      /\ \A q \in Calls \ {r} : call'[q] = call[q]
  BY DEF Inv, TypeOK
<1>2. \A q \in Calls \ {r} : Entry(q)' = Entry(q)
  BY <1>1 DEF Entry
<1>3. RequestsSound'
  BY <1>1 DEF Inv, RequestsSound
<1>4. LocksSound'
  <2> SUFFICES ASSUME NEW p \in Calls, Locked(p)'
               PROVE  /\ call'[p].post \in feed
                      /\ \A q \in Calls \ {p} : Locked(q)' /\ call'[q].post = call'[p].post =>
                           call'[q].op = "guess" /\ call'[p].op = "guess"
    BY DEF LocksSound
  <2>1. CASE p = r
    BY <1>1, <2>1 DEF Locked
  <2>2. CASE p # r
    BY <1>1, <2>2 DEF Locked, Inv, LocksSound
  <2> QED
    BY <2>1, <2>2
<1> QED
  BY <1>1, <1>2, <1>3, <1>4

LEMMA DoneStep ==
  ASSUME Sane, Inv, NEW r \in Calls, Done(r), UNCHANGED <<clock, feed>>
  PROVE  /\ call' \in [Calls -> Request] /\ call'[r].pc = "idle"
         /\ \A q \in Calls \ {r} : call'[q] = call[q] /\ Entry(q)' = Entry(q)
         /\ RequestsSound' /\ LocksSound'
<1>1. NoRequest \in Request /\ NoRequest.pc = "idle"
  BY NoRequestType DEF NoRequest
<1> QED
  BY <1>1, CallStep DEF Done

\* What is shown stays right while answers and sessions stay as they are.
LEMMA CalmHistory ==
  ASSUME Inv, UNCHANGED <<clock, feed, sessions, answers, told, shown>>
  PROVE  AnswersTrue' /\ JudgedByTheWindow' /\ PlaceKept'
  BY DEF Inv, AnswersTrue, JudgedByTheWindow, PlaceKept, Finished, Over

\* Showing somebody what has been earned keeps what is shown right; answers stay and the
\* sessions do not change.
LEMMA ShowKeeps ==
  ASSUME Sane, Inv, NEW e \in Entries, NEW things \in SUBSET Things, Show(e, things),
         things = {"open"} \/ Finished(e, clock) \/ answers'[e] # None,
         "place" \in things => RevealAt[e[1]] <= clock,
         UNCHANGED <<clock, sessions, feed>>,
         \A x \in Entries : answers[x] # None => answers'[x] = answers[x]
  PROVE  PlaceKept' /\ shown' \in [Entries -> SUBSET Things]
<1>1. shown \in [Entries -> SUBSET Things]
  BY DEF Inv, TypeOK
<1>2. /\ shown' \in [Entries -> SUBSET Things] /\ shown'[e] = shown[e] \cup things
      /\ \A x \in Entries \ {e} : shown'[x] = shown[x]
  BY <1>1 DEF Show
<1>3. \A x \in Entries : Finished(x, clock) => Finished(x, clock)'
  BY DEF Finished, Over, Sane
<1>4. PlaceKept'
  <2> SUFFICES ASSUME NEW x \in Entries, x[1] \in feed'
               PROVE  /\ {"photo", "place"} \cap shown'[x] # {} => Finished(x, clock)'
                      /\ "place" \in shown'[x] => RevealAt[x[1]] <= clock'
    BY DEF PlaceKept
  <2>1. /\ {"photo", "place"} \cap shown[x] # {} => Finished(x, clock)
        /\ "place" \in shown[x] => RevealAt[x[1]] <= clock
    BY DEF Inv, PlaceKept
  <2>2. CASE x = e
    <3>1. Finished(e, clock) \/ answers'[e] # None => Finished(x, clock)'
      BY <1>3, <2>2 DEF Finished
    <3> QED
      BY <1>2, <1>3, <2>1, <2>2, <3>1
  <2>3. CASE x # e
    BY <1>2, <1>3, <2>1, <2>3
  <2> QED
    BY <2>2, <2>3
<1> QED
  BY <1>2, <1>4

\* What is over for a request is over: its instant has passed.
LEMMA OverNow ==
  ASSUME Sane, Inv, NEW e \in Entries, NEW at \in 0..clock, Finished(e, at)
  PROVE  Finished(e, clock)
<1>1. at <= clock /\ at \in Nat /\ clock \in Nat
  BY DEF Inv, TypeOK
<1>2. sessions[e] # None => sessions[e].guessExpires \in Nat
  BY DEF Sane, Inv, TypeOK, Session
<1> QED
  BY <1>1, <1>2 DEF Finished, Over

\* A place that is not hidden for a request has been revealed.
LEMMA RevealedNow ==
  ASSUME Sane, Inv, NEW p \in Posts, NEW at \in 0..clock
  PROVE  /\ ResultCoordinates(p, at) \in SUBSET Things
         /\ "place" \in ResultCoordinates(p, at) => RevealAt[p] <= clock
<1>1. RevealAt[p] \in Nat /\ at \in Nat /\ clock \in Nat /\ at <= clock
  BY DEF Sane, Inv, TypeOK
<1> QED
  BY <1>1 DEF ResultCoordinates, Things

\* A request that leaves, or has not inserted a row, leaves the rows of the others.
LEMMA CalmInserts ==
  ASSUME Inv, NEW r \in Calls, call'[r].pc # "inserted", UNCHANGED <<sessions, answers>>,
         \A q \in Calls \ {r} : call'[q] = call[q] /\ Entry(q)' = Entry(q)
  PROVE  InsertsSound'
  BY DEF Inv, InsertsSound

LEMMA RefuseInv ==
  ASSUME Sane, Inv, NEW r \in Calls, Refuse(r)
  PROVE  Inv'
<1>1. Done(r) /\ UNCHANGED <<clock, feed, walls, sessions, answers, told, shown>>
  BY DEF Refuse, shows
<1>2. InsertsSound'
  BY <1>1, DoneStep, CalmInserts
<1>3. TypeOK'
  BY <1>1, DoneStep DEF Inv, TypeOK
<1> QED
  BY <1>1, <1>2, <1>3, DoneStep, CalmHistory DEF Inv

\* A request begins.
LEMMA BeginInv ==
  ASSUME Sane, Inv, NEW r \in Calls, NEW u \in Users, NEW p \in Posts, NEW at \in 0..clock,
         \/ \E op \in {"timed_guess", "timeout"} : Lock(r, op, u, p, at)
         \/ Share(r, u, p, at)
         \/ ReadPost(r, u, p, at)
  PROVE  Inv'
<1>1. PICK op \in {"timed_guess", "timeout", "guess", "results"}, pc \in {"locked", "shared", "visible"} :
        /\ Begin(r, op, u, p, at, pc)
        /\ pc = "locked" => op \in {"timed_guess", "timeout"} /\ Lockable(p)
        /\ pc = "shared" => op = "guess" /\ Sharable(p)
  BY DEF Lock, Share, ReadPost
<1>2. p \in feed
  BY DEF Lock, Share, ReadPost, Plays, Visible
<1> DEFINE c == [op |-> op, user |-> u, post |-> p, at |-> at, pc |-> pc, row |-> None]
<1>3. /\ call' = [call EXCEPT ![r] = c]
      /\ UNCHANGED <<clock, feed, walls, sessions, answers, told, shown>>
  BY <1>1 DEF Begin, shows
<1>4. at \in 0..MaxTime /\ at <= clock
  BY DEF Sane, Inv, TypeOK
<1>5. c \in Request /\ c.op = op /\ c.user = u /\ c.post = p /\ c.at = at /\ c.pc = pc
  BY <1>4 DEF Request
<1>6. \A q \in Calls : Locked(q) => call[q].op \in {"timed_guess", "timeout", "guess"}
  BY DEF Inv, RequestsSound, Locked
<1>7. ASSUME NEW q \in Calls, Locked(q), call[q].post = p, pc \in {"locked", "shared"}
      PROVE  call[q].op = "guess" /\ op = "guess"
  BY <1>1, <1>6, <1>7 DEF Lockable, Sharable, Exclusive, Shared
<1> HIDE DEF c
<1>8. /\ call' \in [Calls -> Request] /\ call'[r] = c
      /\ \A q \in Calls \ {r} : call'[q] = call[q] /\ Entry(q)' = Entry(q)
      /\ RequestsSound' /\ LocksSound'
  BY <1>1, <1>2, <1>3, <1>4, <1>5, <1>7, CallStep
<1>9. InsertsSound'
  BY <1>3, <1>5, <1>8, CalmInserts
<1>10. TypeOK'
  BY <1>3, <1>8 DEF Inv, TypeOK
<1> QED
  BY <1>3, <1>8, <1>9, <1>10, CalmHistory DEF Inv

\* A request inserts its row; nobody else has one for the same player.
LEMMA InsertRowInv ==
  ASSUME Sane, Inv, NEW r \in Calls, call[r].pc \in {"locked", "shared"},
         NEW row \in {None} \cup Answer,
         call' = [call EXCEPT ![r].pc = "inserted", ![r].row = row],
         call[r].op \in {"timed_guess", "guess"},
         row = None => answers[Entry(r)] # None /\ call[r].op = "guess",
         row # None => answers[Entry(r)] = None /\ Suits(row, sessions[Entry(r)]),
         \A q \in Calls \ {r} : call[q].pc = "inserted" /\ call[q].row # None => Entry(q) # Entry(r),
         UNCHANGED <<clock, feed, walls, sessions, answers, told, shown>>
  PROVE  Inv'
<1> DEFINE c == [call[r] EXCEPT !.pc = "inserted", !.row = row]
<1>1. call[r] \in Request /\ call' = [call EXCEPT ![r] = c]
  BY DEF Inv, TypeOK
<1>2. /\ c \in Request /\ c.op = call[r].op /\ c.user = call[r].user /\ c.post = call[r].post
      /\ c.at = call[r].at /\ c.pc = "inserted" /\ c.row = row
  BY <1>1 DEF Request
<1>3. /\ call[r].post \in feed
      /\ \A q \in Calls \ {r} : Locked(q) /\ call[q].post = call[r].post =>
           call[q].op = "guess" /\ call[r].op = "guess"
  BY DEF Inv, LocksSound, Locked
<1> HIDE DEF c
<1>4. /\ call' \in [Calls -> Request] /\ call'[r] = c
      /\ \A q \in Calls \ {r} : call'[q] = call[q] /\ Entry(q)' = Entry(q)
      /\ RequestsSound' /\ LocksSound'
  <2>1. call[r].post \in Posts /\ call[r].user \in Users /\ call[r].at <= clock
    BY DEF Inv, RequestsSound
  <2>2. /\ c.post \in Posts /\ c.user \in Users /\ c.at <= clock /\ c.op \in {"timed_guess", "guess"}
        /\ c.post \in feed
        /\ \A q \in Calls \ {r} : Locked(q) /\ call[q].post = c.post =>
             call[q].op = "guess" /\ c.op = "guess"
    BY <1>2, <1>3, <2>1
  <2> QED
    BY <1>1, <1>2, <2>2, CallStep
<1>5. Entry(r)' = Entry(r)
  BY <1>2, <1>4 DEF Entry
<1>6. InsertsSound'
  <2> SUFFICES ASSUME NEW p \in Calls, call'[p].pc = "inserted"
               PROVE  /\ call'[p].row = None => answers[Entry(p)'] # None /\ call'[p].op = "guess"
                      /\ call'[p].row # None => /\ answers[Entry(p)'] = None
                                                /\ Suits(call'[p].row, sessions[Entry(p)'])
                      /\ \A q \in Calls \ {p} :
                           call'[q].pc = "inserted" /\ call'[q].row # None /\ call'[p].row # None =>
                             Entry(q)' # Entry(p)'
    BY DEF InsertsSound, Suits
  <2>1. CASE p = r
    BY <1>2, <1>4, <1>5, <2>1
  <2>2. CASE p # r
    BY <1>2, <1>4, <1>5, <2>2 DEF Inv, InsertsSound
  <2> QED
    BY <2>1, <2>2
<1>7. TypeOK'
  BY <1>4 DEF Inv, TypeOK
<1> QED
  BY <1>4, <1>6, <1>7, CalmHistory DEF Inv

LEMMA WrittenAnswer ==
  ASSUME Sane, Inv, NEW r \in Calls, call[r].pc # "idle", NEW kind \in Kinds
  PROVE  /\ Written(r, kind) \in Answer
         /\ Written(r, kind).kind = kind /\ Written(r, kind).at = call[r].at
  BY EntryOf DEF Written, Answer

LEMMA TimedGuessInv ==
  ASSUME Sane, Inv, NEW r \in Calls, TimedGuess(r)
  PROVE  Inv'
<1> DEFINE row == Written(r, "timed")
<1>1. /\ call[r].pc = "locked" /\ call[r].op = "timed_guess" /\ answers[Entry(r)] = None
      /\ sessions[Entry(r)] # None /\ sessions[Entry(r)].delivered
      /\ sessions[Entry(r)].viewExpires <= call[r].at /\ call[r].at < sessions[Entry(r)].guessExpires
      /\ call' = [call EXCEPT ![r].pc = "inserted", ![r].row = row]
      /\ UNCHANGED <<clock, feed, walls, sessions, answers, told, shown>>
  BY DEF TimedGuess, Playable, shows
<1>2. row \in Answer /\ row.kind = "timed" /\ row.at = call[r].at /\ row # None
  BY <1>1, WrittenAnswer DEF Kinds, Sane
<1>3. Suits(row, sessions[Entry(r)])
  BY <1>1, <1>2 DEF Suits
<1>4. ASSUME NEW q \in Calls \ {r}, call[q].pc = "inserted" PROVE Entry(q) # Entry(r)
  BY <1>1, <1>4 DEF Inv, LocksSound, Locked, Entry
<1> HIDE DEF row
<1> QED
  BY <1>1, <1>2, <1>3, <1>4, InsertRowInv

LEMMA InsertInv ==
  ASSUME Sane, Inv, NEW r \in Calls, Insert(r)
  PROVE  Inv'
<1> DEFINE row == Inserted(r)
<1>1. /\ call[r].pc = "shared" /\ call[r].op = "guess"
      /\ \A q \in Calls \ {r} : ~(call[q].pc = "inserted" /\ call[q].row # None /\ Entry(q) = Entry(r))
      /\ call' = [call EXCEPT ![r].pc = "inserted", ![r].row = row]
      /\ UNCHANGED <<clock, feed, walls, sessions, answers, told, shown>>
  BY DEF Insert, shows, Inv, RequestsSound
<1>2. CASE answers[Entry(r)] = None
  <2>1. row \in Answer /\ row.kind = "free" /\ row # None
    BY <1>1, <1>2, WrittenAnswer DEF Kinds, Sane, Inserted
  <2>2. Suits(row, sessions[Entry(r)])
    BY <2>1 DEF Suits
  <2> HIDE DEF row
  <2> QED
    BY <1>1, <1>2, <2>1, <2>2, InsertRowInv
<1>3. CASE answers[Entry(r)] # None
  <2>1. row = None
    BY <1>3 DEF Inserted
  <2> HIDE DEF row
  <2> QED
    BY <1>1, <1>3, <2>1, InsertRowInv
<1> QED
  BY <1>2, <1>3

-----------------------------------------------------------------------------
(* Answers. *)

\* A request ends with an answer: one that is there already, or one it records.
LEMMA AnswerInv ==
  ASSUME Sane, Inv, NEW r \in Calls, Locked(r), NEW a \in Answer,
         \/ answers[Entry(r)] = a /\ answers' = answers
         \/ /\ answers[Entry(r)] = None /\ answers' = [answers EXCEPT ![Entry(r)] = a]
            /\ Suits(a, sessions[Entry(r)])
            /\ \A q \in Calls \ {r} : call[q].pc = "inserted" => Entry(q) # Entry(r),
         told' = told \/ Tell(r, a),
         shown' = shown \/ Show(Entry(r), ResultCoordinates(call[r].post, call[r].at)),
         Done(r), UNCHANGED <<clock, feed, walls, sessions>>
  PROVE  Inv'
<1> DEFINE e == Entry(r)
<1>1. e \in Entries /\ call[r].pc # "idle"
  BY EntryOf DEF Locked
<1>2. answers'[e] = a /\ \A x \in Entries \ {e} : answers'[x] = answers[x]
  BY <1>1 DEF Inv, TypeOK
<1>3. \A x \in Entries : answers[x] # None => answers'[x] = answers[x]
  BY <1>1, <1>2 DEF Sane
<1>4. /\ told'[e] \subseteq told[e] \cup {a}
      /\ \A x \in Entries \ {e} : told'[x] = told[x]
      /\ told' \in [Entries -> SUBSET Answer]
  BY <1>1 DEF Inv, TypeOK, Tell
<1>9. PlaceKept' /\ shown' \in [Entries -> SUBSET Things]
  <2> HIDE DEF e
  <2>1. CASE shown' = shown
    <3>1. \A x \in Entries : Finished(x, clock) => Finished(x, clock)'
      BY <1>3 DEF Finished, Over
    <3> QED
      BY <1>3, <2>1, <3>1 DEF Inv, PlaceKept, TypeOK
  <2>2. CASE Show(e, ResultCoordinates(call[r].post, call[r].at))
    <3>1. call[r].post \in Posts /\ call[r].at \in 0..clock /\ e[1] = call[r].post
      BY <1>1, EntryOf DEF e, Inv, RequestsSound, TypeOK
    <3>2. answers'[e] # None
      BY <1>2 DEF Sane
    <3> DEFINE things == ResultCoordinates(call[r].post, call[r].at)
    <3>3. things \in SUBSET Things /\ ("place" \in things => RevealAt[e[1]] <= clock)
      BY <3>1, RevealedNow
    <3>4. Show(e, things)
      BY <2>2
    <3> HIDE DEF things
    <3> QED
      BY <1>1, <1>3, <3>2, <3>3, <3>4, ShowKeeps
  <2> QED
    BY <2>1, <2>2 DEF e
<1>5. TypeOK'
  BY <1>1, <1>4, <1>9, DoneStep DEF Inv, TypeOK
<1>6. InsertsSound'
  <2> SUFFICES ASSUME NEW p \in Calls, call'[p].pc = "inserted"
               PROVE  /\ call'[p].row = None => answers'[Entry(p)'] # None /\ call'[p].op = "guess"
                      /\ call'[p].row # None => /\ answers'[Entry(p)'] = None
                                                /\ Suits(call'[p].row, sessions[Entry(p)'])
                      /\ \A q \in Calls \ {p} :
                           call'[q].pc = "inserted" /\ call'[q].row # None /\ call'[p].row # None =>
                             Entry(q)' # Entry(p)'
    BY DEF InsertsSound, Suits
  <2>1. p # r /\ call'[p] = call[p] /\ Entry(p)' = Entry(p)
    BY DoneStep
  <2>2. Entry(p) \in Entries
    BY <2>1, EntryOf
  <2>3. Entry(p) # e \/ answers' = answers
    BY <2>1
  <2>4. answers'[Entry(p)] = answers[Entry(p)]
    BY <1>2, <2>2, <2>3
  <2> HIDE DEF e
  <2> QED
    BY <2>1, <2>4, DoneStep DEF Inv, InsertsSound
<1>7. AnswersTrue'
  <2> SUFFICES ASSUME NEW x \in Entries, x[1] \in feed PROVE told'[x] \subseteq {answers'[x]}
    BY DEF AnswersTrue
  <2>1. told[x] \subseteq {answers[x]} /\ told[x] \subseteq Answer
    BY DEF Inv, AnswersTrue, TypeOK
  <2>2. told[x] \subseteq {answers'[x]}
    BY <1>3, <2>1 DEF Sane
  <2> HIDE DEF e
  <2> QED
    BY <1>2, <1>4, <2>2
<1>8. JudgedByTheWindow'
  <2> SUFFICES ASSUME NEW x \in Entries, answers'[x] # None PROVE Suits(answers'[x], sessions[x])
    BY DEF JudgedByTheWindow, Suits
  <2>1. CASE answers[x] # None
    BY <1>3, <2>1 DEF Inv, JudgedByTheWindow, Suits
  <2>2. CASE answers[x] = None
    <3>1. x = e /\ answers' # answers
      BY <1>2, <2>2
    <3> QED
      BY <1>2, <3>1
  <2> QED
    BY <2>1, <2>2
<1> QED
  BY <1>5, <1>6, <1>7, <1>8, <1>9, DoneStep DEF Inv

\* The timed requests hold their post alone.
LEMMA Alone ==
  ASSUME Inv, NEW r \in Calls, Locked(r), call[r].op # "guess", NEW q \in Calls \ {r},
         call[q].pc = "inserted"
  PROVE  Entry(q) # Entry(r)
  BY DEF Inv, LocksSound, Locked, Entry

LEMMA ExistingAnswerInv ==
  ASSUME Sane, Inv, NEW r \in Calls, ExistingAnswer(r)
  PROVE  Inv'
<1>1. /\ Locked(r) /\ answers[Entry(r)] # None
      /\ Tell(r, answers[Entry(r)]) /\ Done(r)
      /\ UNCHANGED <<clock, feed, walls, sessions, answers, shown>>
  BY DEF ExistingAnswer, Locked
<1>2. answers[Entry(r)] \in Answer
  BY <1>1, EntryOf DEF Locked, Inv, TypeOK
<1> QED
  BY <1>1, <1>2, AnswerInv

LEMMA CommitTimedInv ==
  ASSUME Sane, Inv, NEW r \in Calls, CommitTimed(r)
  PROVE  Inv'
<1> DEFINE a == call[r].row
<1>1. /\ Locked(r) /\ call[r].pc = "inserted" /\ call[r].op = "timed_guess"
      /\ Record(r, a) /\ Tell(r, a) /\ Done(r)
      /\ UNCHANGED <<clock, feed, walls, sessions, shown>>
  BY DEF CommitTimed, Locked
<1>2. a # None /\ answers[Entry(r)] = None /\ Suits(a, sessions[Entry(r)])
  BY <1>1 DEF Inv, InsertsSound
<1>3. a \in Answer
  BY <1>1, <1>2, EntryOf DEF Request
<1>4. answers' = [answers EXCEPT ![Entry(r)] = a]
  BY <1>1, <1>2 DEF Record
<1>5. \A q \in Calls \ {r} : call[q].pc = "inserted" => Entry(q) # Entry(r)
  BY <1>1, Alone
<1> HIDE DEF a
<1> QED
  BY <1>1, <1>2, <1>3, <1>4, <1>5, AnswerInv

LEMMA TimeoutInv ==
  ASSUME Sane, Inv, NEW r \in Calls, LateGuess(r) \/ TimedTimeout(r)
  PROVE  Inv'
<1> DEFINE a == Written(r, "late")
<1>1. /\ Locked(r) /\ call[r].pc = "locked" /\ call[r].op # "guess"
      /\ answers[Entry(r)] = None /\ Over(Entry(r), call[r].at)
      /\ Record(r, a) /\ Done(r)
      /\ told' = told \/ Tell(r, answers'[Entry(r)])
      /\ UNCHANGED <<clock, feed, walls, sessions, shown>>
  BY DEF LateGuess, TimedTimeout, TimeoutDue, Playable, Locked, shows
<1>2. a \in Answer /\ a.kind = "late" /\ a.at = call[r].at
  BY <1>1, WrittenAnswer DEF Kinds
<1>3. Suits(a, sessions[Entry(r)])
  BY <1>1, <1>2 DEF Suits, Over
<1> HIDE DEF a
<1>4. answers' = [answers EXCEPT ![Entry(r)] = a]
  BY <1>1 DEF Record
<1>5. answers'[Entry(r)] = a
  BY <1>1, <1>4, EntryOf DEF Inv, TypeOK
<1>6. \A q \in Calls \ {r} : call[q].pc = "inserted" => Entry(q) # Entry(r)
  BY <1>1, Alone
<1> QED
  BY <1>1, <1>2, <1>3, <1>4, <1>5, <1>6, AnswerInv

LEMMA CommitInv ==
  ASSUME Sane, Inv, NEW r \in Calls, Commit(r)
  PROVE  Inv'
<1> DEFINE a == call[r].row
<1>1. /\ Locked(r) /\ call[r].pc = "inserted" /\ call[r].op = "guess"
      /\ answers' = IF a = None THEN answers ELSE [answers EXCEPT ![Entry(r)] = a]
      /\ Tell(r, answers'[Entry(r)]) /\ Done(r)
      /\ Show(Entry(r), ResultCoordinates(call[r].post, call[r].at))
      /\ UNCHANGED <<clock, feed, walls, sessions>>
  BY DEF Commit, Locked
<1>2. Entry(r) \in Entries /\ call[r] \in Request
  BY <1>1, EntryOf
<1>3. CASE a = None
  <2>1. answers[Entry(r)] # None
    BY <1>1, <1>3 DEF Inv, InsertsSound
  <2>2. answers[Entry(r)] \in Answer /\ answers' = answers
    BY <1>1, <1>2, <1>3, <2>1 DEF Inv, TypeOK
  <2> QED
    BY <1>1, <2>2, AnswerInv
<1>4. CASE a # None
  <2>1. answers[Entry(r)] = None /\ Suits(a, sessions[Entry(r)]) /\ a \in Answer
    BY <1>1, <1>2, <1>4 DEF Inv, InsertsSound, Request
  <2>2. ASSUME NEW q \in Calls \ {r}, call[q].pc = "inserted" PROVE Entry(q) # Entry(r)
    BY <1>1, <1>4, <2>1, <2>2 DEF Inv, InsertsSound
  <2> HIDE DEF a
  <2>3. answers' = [answers EXCEPT ![Entry(r)] = a]
    BY <1>1, <1>4
  <2>4. answers'[Entry(r)] = a
    BY <1>2, <2>3 DEF Inv, TypeOK
  <2> QED
    BY <1>1, <2>1, <2>2, <2>3, <2>4, AnswerInv
<1> QED
  BY <1>3, <1>4

-----------------------------------------------------------------------------
(* Sessions, results, the author and time. *)

\* A session appears, or starts its windows.
LEMMA SessionInv ==
  ASSUME Sane, Inv, NEW e \in Entries, NEW s \in Session, sessions' = [sessions EXCEPT ![e] = s],
         sessions[e] # None /\ sessions[e].delivered => s = sessions[e],
         UNCHANGED <<clock, feed, walls, answers, call, told, shown>>
  PROVE  Inv'
<1>1. /\ \A x \in Entries : sessions[x] # None => sessions'[x] # None
      /\ \A x \in Entries : sessions[x] # None /\ sessions[x].delivered => sessions'[x] = sessions[x]
  BY DEF Sane, Inv, TypeOK
<1>2. TypeOK'
  BY DEF Inv, TypeOK
<1>3. RequestsSound' /\ LocksSound'
  BY DEF Inv, RequestsSound, LocksSound, Locked
<1>4. InsertsSound'
  <2>1. \A r \in Calls : Entry(r)' = Entry(r) /\ (call[r].pc # "idle" => Entry(r) \in Entries)
    BY EntryOf DEF Entry
  <2>2. ASSUME NEW x \in Entries, NEW a, Suits(a, sessions[x]) PROVE Suits(a, sessions'[x])
    BY <1>1, <2>2 DEF Suits
  <2> QED
    BY <2>1, <2>2 DEF Inv, InsertsSound, Suits
<1>5. AnswersTrue'
  BY DEF Inv, AnswersTrue
<1>6. JudgedByTheWindow'
  BY <1>1 DEF Inv, JudgedByTheWindow
<1>7. PlaceKept'
  <2>1. \A x \in Entries : Finished(x, clock) => Finished(x, clock)'
    BY <1>1 DEF Finished, Over
  <2> QED
    BY <2>1 DEF Inv, PlaceKept
<1> QED
  BY <1>2, <1>3, <1>4, <1>5, <1>6, <1>7 DEF Inv

LEMMA OpenedSession ==
  ASSUME Sane, Inv, NEW at \in 0..clock, NEW delivered \in BOOLEAN
  PROVE  Opened(at, delivered) \in Session
  BY DEF Sane, Inv, TypeOK, Opened, Session

LEMMA SessionStepInv ==
  ASSUME Sane, Inv, NEW u \in Users, NEW p \in Posts, NEW at \in 0..clock,
         AcceptTimed(u, p, at) \/ MediaDelivered(u, p, at)
  PROVE  Inv'
<1> DEFINE e == <<p, u>>
<1>1. e \in Entries
  BY DEF Entries
<1>2. CASE AcceptTimed(u, p, at)
  <2>1. /\ sessions[e] = None /\ sessions' = [sessions EXCEPT ![e] = Opened(at, FALSE)]
        /\ UNCHANGED <<clock, feed, walls, answers, call, told, shown>>
    BY <1>2 DEF AcceptTimed, shows
  <2> QED
    BY <1>1, <2>1, OpenedSession, SessionInv
<1>3. CASE MediaDelivered(u, p, at)
  <2>1. /\ sessions[e] # None /\ sessions' = [sessions EXCEPT ![e] = Delivered(e, at)]
        /\ UNCHANGED <<clock, feed, walls, answers, call, told, shown>>
    BY <1>3 DEF MediaDelivered, shows
  <2>2. sessions[e] \in Session
    BY <1>1, <2>1 DEF Inv, TypeOK
  <2>3. Delivered(e, at) \in Session /\ (sessions[e].delivered => Delivered(e, at) = sessions[e])
    BY <2>2, OpenedSession DEF Delivered
  <2> QED
    BY <1>1, <2>1, <2>3, SessionInv
<1> QED
  BY <1>2, <1>3

\* Somebody is shown a post.
LEMMA ShowInv ==
  ASSUME Sane, Inv, NEW u \in Users, NEW p \in Posts, NEW at \in 0..clock,
         \/ TimedMedia(u, p, at) \/ Media(u, p, at) \/ Result(u, p, at)
         \/ Play(u, p) \/ Results(u, p)
  PROVE  Inv'
<1> DEFINE e == <<p, u>>
<1>1. /\ e \in Entries /\ e[1] = p
      /\ UNCHANGED <<clock, feed, walls, sessions, answers, call, told>>
  BY DEF Entries, TimedMedia, Media, Result, Play, Results
<1>2. \/ Show(e, {"open"})
      \/ Show(e, {"photo"}) /\ Finished(e, at)
      \/ Show(e, ResultCoordinates(p, at)) /\ answers[e] # None
  BY DEF TimedMedia, Media, Result, Play, Results
<1> HIDE DEF e
<1>3. PICK things \in SUBSET Things :
        /\ Show(e, things)
        /\ things = {"open"} \/ Finished(e, clock)
        /\ "place" \in things => RevealAt[e[1]] <= clock
  <2>1. CASE Show(e, {"open"})
    BY <2>1 DEF Things
  <2>2. CASE Show(e, {"photo"}) /\ Finished(e, at)
    BY <1>1, <2>2, OverNow DEF Things
  <2>3. CASE Show(e, ResultCoordinates(p, at)) /\ answers[e] # None
    <3>1. Finished(e, clock)
      BY <2>3 DEF Finished
    <3> QED
      BY <1>1, <2>3, <3>1, RevealedNow
  <2> QED
    BY <1>2, <2>1, <2>2, <2>3
<1>5. PlaceKept' /\ shown' \in [Entries -> SUBSET Things]
  BY <1>1, <1>3, ShowKeeps
<1>6. TypeOK'
  BY <1>1, <1>5 DEF Inv, TypeOK
<1>7. RequestsSound' /\ LocksSound' /\ InsertsSound'
  BY <1>1 DEF Inv, RequestsSound, LocksSound, InsertsSound, Locked, Entry, Suits
<1>8. AnswersTrue' /\ JudgedByTheWindow'
  BY <1>1 DEF Inv, AnswersTrue, JudgedByTheWindow
<1> QED
  BY <1>5, <1>6, <1>7, <1>8 DEF Inv

LEMMA TimedResultsInv ==
  ASSUME Sane, Inv, NEW r \in Calls, TimedResults(r)
  PROVE  Inv'
<1> DEFINE e == Entry(r)
           place == ResultCoordinates(call[r].post, call[r].at)
<1>1. /\ call[r].pc # "idle" /\ Done(r) /\ Show(e, {"open"} \cup place)
      /\ Finished(e, call[r].at)
      /\ UNCHANGED <<clock, feed, walls, sessions, answers, told>>
  BY DEF TimedResults
<1>2. /\ e \in Entries /\ e[1] = call[r].post /\ call[r].post \in Posts
      /\ call[r].at \in 0..clock
  BY <1>1, EntryOf DEF Inv, RequestsSound, TypeOK
<1>3. place \in SUBSET Things /\ ("place" \in place => RevealAt[e[1]] <= clock)
  BY <1>2, RevealedNow
<1> HIDE DEF e, place
<1>4. Finished(e, clock)
  BY <1>1, <1>2, OverNow
<1> DEFINE things == {"open"} \cup place
<1>6. things \in SUBSET Things /\ ("place" \in things => "place" \in place)
  BY <1>3 DEF Things
<1>7. Show(e, things)
  BY <1>1
<1> HIDE DEF things
<1>8. PlaceKept' /\ shown' \in [Entries -> SUBSET Things]
  BY <1>1, <1>2, <1>3, <1>4, <1>6, <1>7, ShowKeeps
<1>9. TypeOK'
  BY <1>1, <1>8, DoneStep DEF Inv, TypeOK
<1>10. InsertsSound'
  BY <1>1, DoneStep, CalmInserts
<1>11. AnswersTrue' /\ JudgedByTheWindow'
  BY <1>1 DEF Inv, AnswersTrue, JudgedByTheWindow
<1> QED
  BY <1>1, <1>8, <1>9, <1>10, <1>11, DoneStep DEF Inv

LEMMA DeleteInv ==
  ASSUME Sane, Inv, NEW p \in Posts, Delete(p)
  PROVE  Inv'
<1>1. /\ feed' = feed \ {p} /\ UNCHANGED <<clock, walls, call, told, shown>>
  BY DEF Delete, shows
<1>2. /\ sessions' = [e \in Entries |-> IF e[1] = p THEN None ELSE sessions[e]]
      /\ answers' = [e \in Entries |-> IF e[1] = p THEN None ELSE answers[e]]
  BY DEF Delete
<1>3. \A e \in Entries : e[1] # p => sessions'[e] = sessions[e] /\ answers'[e] = answers[e]
  BY <1>2
<1>4. \A e \in Entries : e[1] = p => answers'[e] = None
  BY <1>2
<1>5. TypeOK'
  <2>1. sessions' \in [Entries -> {None} \cup Session] /\ answers' \in [Entries -> {None} \cup Answer]
    BY <1>2 DEF Inv, TypeOK
  <2> QED
    BY <1>1, <2>1 DEF Inv, TypeOK
<1>6. ASSUME NEW r \in Calls, Locked(r) PROVE call[r].post # p
  <2>1. call[r].op \in {"timed_guess", "timeout", "guess"}
    BY <1>6 DEF Locked, Inv, RequestsSound
  <2> QED
    BY <2>1 DEF Delete, Lockable, Exclusive, Shared
<1>7. RequestsSound' /\ LocksSound'
  BY <1>1, <1>6 DEF Inv, RequestsSound, LocksSound, Locked
<1>8. InsertsSound'
  <2>1. ASSUME NEW r \in Calls, call[r].pc = "inserted"
        PROVE  /\ Entry(r)' = Entry(r)
               /\ sessions'[Entry(r)] = sessions[Entry(r)] /\ answers'[Entry(r)] = answers[Entry(r)]
    BY <1>1, <1>3, <1>6, <2>1, EntryOf DEF Entry, Locked
  <2>2. \A r \in Calls : Entry(r)' = Entry(r)
    BY <1>1 DEF Entry
  <2> QED
    BY <1>1, <2>1, <2>2 DEF Inv, InsertsSound, Suits
<1>9. AnswersTrue'
  BY <1>1, <1>3 DEF Inv, AnswersTrue
<1>10. JudgedByTheWindow'
  BY <1>3, <1>4 DEF Inv, JudgedByTheWindow
<1>11. PlaceKept'
  <2>1. \A e \in Entries : e[1] # p /\ Finished(e, clock) => Finished(e, clock)'
    BY <1>1, <1>3 DEF Finished, Over
  <2> QED
    BY <1>1, <2>1 DEF Inv, PlaceKept
<1> QED
  BY <1>5, <1>7, <1>8, <1>9, <1>10, <1>11 DEF Inv

LEMMA OutsideInv ==
  ASSUME Sane, Inv, Tick \/ UNCHANGED vars \/ \E w \in Walls : Block(w)
  PROVE  Inv'
<1>1. UNCHANGED <<feed, sessions, answers, call, told, shown>>
  BY DEF Tick, Block, vars, shows
<1>2. clock' \in 0..MaxTime /\ clock <= clock' /\ walls' \subseteq Users \X Users
  BY DEF Tick, Block, vars, Sane, Inv, TypeOK
<1>3. TypeOK'
  BY <1>1, <1>2 DEF Inv, TypeOK
<1>4. RequestsSound'
  <2>1. ASSUME NEW r \in Calls, call[r].at <= clock PROVE call[r].at <= clock'
    BY <1>2, <2>1 DEF Inv, TypeOK, Request
  <2> QED
    BY <1>1, <2>1 DEF Inv, RequestsSound
<1>5. LocksSound' /\ InsertsSound'
  BY <1>1 DEF Inv, LocksSound, InsertsSound, Locked, Entry, Suits
<1>6. AnswersTrue' /\ JudgedByTheWindow'
  BY <1>1 DEF Inv, AnswersTrue, JudgedByTheWindow
<1>7. PlaceKept'
  <2>1. clock \in Nat /\ clock' \in Nat /\ clock <= clock'
    BY <1>2 DEF Inv, TypeOK
  <2>2. ASSUME NEW e \in Entries, Finished(e, clock) PROVE Finished(e, clock)'
    <3>1. sessions[e] # None => sessions[e].guessExpires \in Nat
      BY DEF Sane, Inv, TypeOK, Session
    <3> QED
      BY <1>1, <2>1, <2>2, <3>1 DEF Finished, Over
  <2>3. ASSUME NEW e \in Entries, RevealAt[e[1]] <= clock PROVE RevealAt[e[1]] <= clock'
    <3>1. RevealAt[e[1]] \in Nat
      BY DEF Sane, Entries
    <3> QED
      BY <2>1, <2>3, <3>1
  <2> QED
    BY <1>1, <2>2, <2>3 DEF Inv, PlaceKept
<1> QED
  BY <1>3, <1>4, <1>5, <1>6, <1>7 DEF Inv

LEMMA OpenInv ==
  ASSUME Sane, Inv, NEW u \in Users, NEW p \in Posts, Play(u, p) \/ Results(u, p)
  PROVE  Inv'
<1>1. 0 \in 0..clock
  BY DEF Inv, TypeOK
<1> QED
  BY <1>1, ShowInv

LEMMA NextInv == ASSUME Sane, Inv, [Next]_vars PROVE Inv'
  BY OpenInv, RefuseInv, BeginInv, TimedGuessInv, InsertInv, ExistingAnswerInv, CommitTimedInv, TimeoutInv,
     CommitInv, SessionStepInv, ShowInv, TimedResultsInv, DeleteInv, OutsideInv
  DEF Next

-----------------------------------------------------------------------------
(* What the invariant gives. *)

\* The inductive invariant holds in every reachable state.
THEOREM InvHolds == ASSUME Sane PROVE Spec => []Inv
<1>1. Init => Inv
  BY InitInv
<1>2. Inv /\ [Next]_vars => Inv'
  BY NextInv
<1> QED
  BY <1>1, <1>2, PTL DEF Spec

\* When timed, untimed and timeout requests of one player race, all of them are told
\* the answer that was recorded (feed/guess.go, feed/timed.go).
THEOREM EveryAnswerIsTrue == ASSUME Sane PROVE Spec => []AnswersTrue
<1>1. Inv => AnswersTrue
  BY DEF Inv
<1> QED
  BY <1>1, InvHolds, PTL

\* A timed guess was asked for inside the window of its session, and a timeout after
\* it, by deadlines that never move again.
THEOREM WindowsDecide == ASSUME Sane PROVE Spec => []JudgedByTheWindow
<1>1. Inv => JudgedByTheWindow
  BY DEF Inv
<1> QED
  BY <1>1, InvHolds, PTL

\* By whichever route, the place of a post is told to nobody who may still answer in
\* time, and a hidden one to nobody before its reveal (feed/timed.go, feed/guess.go).
THEOREM PlaceIsKept == ASSUME Sane PROVE Spec => []PlaceKept
<1>1. Inv => PlaceKept
  BY DEF Inv
<1> QED
  BY <1>1, InvHolds, PTL

\* A request that ends with an answer leaves the answers there are.
LEMMA RecordKeeps ==
  ASSUME Inv, NEW r \in Calls, NEW a, Record(r, a), NEW e \in Entries, answers[e] # None
  PROVE  answers'[e] = answers[e]
  BY DEF Record, Inv, TypeOK

\* Whatever races, a recorded guess stays as it is as long as its post exists.
THEOREM GuessesAreKept == ASSUME Sane PROVE Spec => GuessKept
<1> DEFINE Kept == \A e \in Entries : answers[e] # None /\ e[1] \in feed' => answers'[e] = answers[e]
<1>1. ASSUME Inv, Next, NEW e \in Entries, answers[e] # None, e[1] \in feed' PROVE answers'[e] = answers[e]
  <2>1. ASSUME NEW r \in Calls, CommitTimed(r) \/ LateGuess(r) \/ TimedTimeout(r)
        PROVE  answers'[e] = answers[e]
    BY <1>1, <2>1, RecordKeeps DEF CommitTimed, LateGuess, TimedTimeout
  <2>2. ASSUME NEW r \in Calls, Commit(r) PROVE answers'[e] = answers[e]
    <3>1. call[r].pc = "inserted" /\ (call[r].row # None => answers[Entry(r)] = None)
      BY <1>1, <2>2 DEF Commit, Inv, InsertsSound
    <3> QED
      BY <1>1, <2>2, <3>1 DEF Commit, Inv, TypeOK
  <2>3. ASSUME NEW p \in Posts, Delete(p) PROVE answers'[e] = answers[e]
    BY <1>1, <2>3 DEF Delete
  <2>4. ASSUME NEW u \in Users, NEW p \in Posts, NEW at \in 0..clock,
               \/ AcceptTimed(u, p, at) \/ MediaDelivered(u, p, at) \/ TimedMedia(u, p, at)
               \/ Media(u, p, at) \/ Result(u, p, at)
        PROVE  answers'[e] = answers[e]
    BY <2>4 DEF AcceptTimed, MediaDelivered, TimedMedia, Media, Result
  <2>5. ASSUME NEW u \in Users, NEW p \in Posts, NEW at \in 0..clock, NEW r \in Calls, NEW op,
               Lock(r, op, u, p, at) \/ Share(r, u, p, at) \/ ReadPost(r, u, p, at)
        PROVE  answers'[e] = answers[e]
    BY <2>5 DEF Lock, Share, ReadPost, Begin
  <2>6. ASSUME NEW r \in Calls,
               Refuse(r) \/ ExistingAnswer(r) \/ TimedGuess(r) \/ Insert(r) \/ TimedResults(r)
        PROVE  answers'[e] = answers[e]
    BY <2>6 DEF Refuse, ExistingAnswer, TimedGuess, Insert, TimedResults
  <2>7. ASSUME Tick \/ \E w \in Walls : Block(w) PROVE answers'[e] = answers[e]
    BY <2>7 DEF Tick, Block
  <2>8. ASSUME NEW u \in Users, NEW p \in Posts, Play(u, p) \/ Results(u, p)
        PROVE  answers'[e] = answers[e]
    BY <2>8 DEF Play, Results
  <2> QED
    BY <1>1, <2>1, <2>2, <2>3, <2>4, <2>5, <2>6, <2>7, <2>8 DEF Next
<1>2. Inv /\ [Next]_vars => [Kept]_vars
  BY <1>1
<1> QED
  BY <1>2, InvHolds, PTL DEF Spec, GuessKept

-----------------------------------------------------------------------------
(* Pages: the first n by a strict order. *)

\* Who is in front of x, and the first n of a set, by a strict order.
Leaders(x, S, R) == {y \in S : <<y, x>> \in R}
Leading(S, R, n) == {x \in S : Cardinality(Leaders(x, S, R)) < n}

Ordered(S, R) ==
  /\ \A x \in S : <<x, x>> \notin R
  /\ \A x \in S, y \in S, z \in S : <<x, y>> \in R /\ <<y, z>> \in R => <<x, z>> \in R

\* A finite set has a first element.
LEMMA SomebodyLeads ==
  ASSUME NEW S, IsFiniteSet(S), NEW R, Ordered(S, R), NEW T \in SUBSET S, T # {}
  PROVE  \E x \in T : \A y \in T : <<y, x>> \notin R
<1> DEFINE Fronts == {Leaders(x, T, R) : x \in T}
<1>1. IsFiniteSet(T)
  BY FS_Subset
<1>2. Fronts \subseteq FiniteSubsetsOf(T) /\ Fronts # {}
  <2>1. ASSUME NEW x \in T PROVE Leaders(x, T, R) \in FiniteSubsetsOf(T)
    <3>1. Leaders(x, T, R) \in SUBSET T
      BY DEF Leaders
    <3>2. IsFiniteSet(Leaders(x, T, R))
      BY <1>1, <3>1, FS_Subset
    <3> QED
      BY <3>1, <3>2 DEF FiniteSubsetsOf
  <2> QED
    BY <2>1
<1>3. PICK F \in Fronts : \A G \in Fronts : <<G, F>> \notin StrictSubsetOrdering(T)
  <2> HIDE DEF Fronts
  <2> QED
    BY <1>2, FS_StrictSubsetOrderingWellFounded, WFMin
<1>4. PICK x \in T : F = Leaders(x, T, R)
  BY <1>3
<1>5. ASSUME NEW y \in T, <<y, x>> \in R PROVE FALSE
  <2>1. Leaders(y, T, R) \subseteq F /\ y \in F /\ y \notin Leaders(y, T, R)
    BY <1>4, <1>5 DEF Leaders, Ordered
  <2>2. F \subseteq T
    BY <1>4 DEF Leaders
  <2>3. <<Leaders(y, T, R), F>> \in StrictSubsetOrdering(T)
    BY <2>1, <2>2 DEF StrictSubsetOrdering
  <2> QED
    BY <1>3, <2>3
<1> QED
  BY <1>5

\* Who is in front of one of the first n is one of them.
LEMMA LeadingClosed ==
  ASSUME NEW S, IsFiniteSet(S), NEW R, Ordered(S, R), NEW n \in Nat,
         NEW x \in Leading(S, R, n), NEW y \in S, <<y, x>> \in R
  PROVE  y \in Leading(S, R, n)
<1>1. Leaders(y, S, R) \subseteq Leaders(x, S, R) /\ Leaders(x, S, R) \subseteq S
  BY DEF Leaders, Leading, Ordered
<1>2. IsFiniteSet(Leaders(x, S, R)) /\ IsFiniteSet(Leaders(y, S, R))
  BY <1>1, FS_Subset
<1>3. /\ Cardinality(Leaders(y, S, R)) <= Cardinality(Leaders(x, S, R))
      /\ Cardinality(Leaders(y, S, R)) \in Nat /\ Cardinality(Leaders(x, S, R)) \in Nat
  BY <1>1, <1>2, FS_Subset, FS_CardinalityType
<1>4. Cardinality(Leaders(x, S, R)) < n
  BY DEF Leading
<1> QED
  BY <1>3, <1>4 DEF Leading

\* When asking for one more than n gives at most n, nobody was left out, by either query.
LEMMA LeadingAll ==
  ASSUME NEW S, IsFiniteSet(S), NEW R, Ordered(S, R), NEW n \in Nat,
         ~(Cardinality(Leading(S, R, n + 1)) > n)
  PROVE  Leading(S, R, n + 1) = S /\ Leading(S, R, n) = S
<1> DEFINE H == Leading(S, R, n + 1)
<1>1. H \subseteq S /\ IsFiniteSet(H) /\ Cardinality(H) \in Nat /\ Cardinality(H) <= n
  <2>1. H \subseteq S
    BY DEF Leading
  <2>2. IsFiniteSet(H) /\ Cardinality(H) \in Nat
    BY <2>1, FS_Subset, FS_CardinalityType
  <2> QED
    BY <2>1, <2>2
<1>2. ASSUME NEW z \in S, z \notin H PROVE FALSE
  <2>1. PICK x \in S \ H : \A y \in S \ H : <<y, x>> \notin R
    BY <1>2, SomebodyLeads
  <2>2. Leaders(x, S, R) \subseteq H
    BY <2>1 DEF Leaders
  <2>3. Cardinality(Leaders(x, S, R)) <= Cardinality(H) /\ Cardinality(Leaders(x, S, R)) \in Nat
    BY <1>1, <2>2, FS_Subset, FS_CardinalityType
  <2>4. Cardinality(Leaders(x, S, R)) < n + 1
    BY <1>1, <2>3
  <2> QED
    BY <2>1, <2>4 DEF Leading
<1>3. H = S
  BY <1>1, <1>2
<1>4. ASSUME NEW x \in S PROVE Cardinality(Leaders(x, S, R)) < n
  <2>1. Leaders(x, S, R) \subseteq S \ {x}
    BY DEF Leaders, Ordered
  <2>2. IsFiniteSet(S \ {x}) /\ Cardinality(S \ {x}) = Cardinality(S) - 1
    BY FS_RemoveElement
  <2>3. Cardinality(Leaders(x, S, R)) <= Cardinality(S \ {x}) /\ Cardinality(Leaders(x, S, R)) \in Nat
    BY <2>1, <2>2, FS_Subset, FS_CardinalityType
  <2> QED
    BY <1>1, <1>3, <2>2, <2>3
<1> QED
  BY <1>3, <1>4 DEF Leading

\* Whoever asks for one at least is given somebody, if there is anybody.
LEMMA LeadingSome ==
  ASSUME NEW S, IsFiniteSet(S), NEW R, Ordered(S, R), NEW n \in Nat \ {0}, S # {}
  PROVE  Leading(S, R, n) # {}
<1>1. PICK x \in S : \A y \in S : <<y, x>> \notin R
  BY SomebodyLeads
<1>2. Leaders(x, S, R) = {}
  BY <1>1 DEF Leaders
<1> QED
  BY <1>1, <1>2, FS_EmptySet DEF Leading

-----------------------------------------------------------------------------
(* FeedThread: a walk through the comments of a post. *)

CONSTANTS Authors, Walker, Host, Comments, PageSize, MaxTurn
VARIABLES thread, parted, visible, liked, walk, turn, given, steady
Thread == INSTANCE FeedThread WITH Entries <- Comments

\* Comment ids are numbers, a page holds one comment at least, and None is no comment
\* and no cursor.
ThreadSane ==
  /\ IsFiniteSet(Comments) /\ Comments \subseteq Nat
  /\ PageSize \in Nat \ {0} /\ MaxTurn \in Nat
  /\ None \notin Thread!Comment_ \cup Thread!Position

\* Comments by age, the newest first.
Fresher == {p \in Thread!There \X Thread!There : Thread!Before(Thread!Pos(p[2]), Thread!Pos(p[1]))}

\* What could be read all along was on a page or is still ahead.
ThreadInv ==
  /\ Thread!TypeOK
  /\ steady \subseteq Thread!Readable
  /\ walk.pc = "new" => steady = {}
  /\ walk.pc = "open" => steady \subseteq given \cup Thread!Ahead
  /\ Thread!WalkComplete

\* The module's own count is the library's.
LEMMA ThreadCounts == \A S : Thread!Cardinality(S) = Cardinality(S)
  BY DEF Thread!Cardinality, Cardinality, Thread!IsFiniteSet, IsFiniteSet

\* A comment that is there has a position, and positions are in a total order.
LEMMA ThreadPositions ==
  ASSUME ThreadSane, Thread!TypeOK, NEW e \in Thread!There
  PROVE  /\ Thread!Pos(e) \in Thread!Position /\ Thread!Pos(e).id = e /\ Thread!Pos(e).at = thread[e].at
         /\ e \in Comments
<1>1. e \in Comments /\ thread[e] \in Thread!Comment_
  BY DEF Thread!There, Thread!TypeOK
<1> QED
  BY <1>1 DEF Thread!Pos, Thread!Position, Thread!Comment_

\* Positions are numbers, compared one after the other.
LEMMA ThreadOrder ==
  ASSUME ThreadSane
  PROVE  /\ \A p \in Thread!Position : p.at \in Int /\ p.id \in Int
         /\ \A p \in Thread!Position : ~Thread!Before(p, p)
         /\ \A p, q, r \in Thread!Position : Thread!Before(p, q) /\ Thread!Before(q, r) => Thread!Before(p, r)
         /\ \A p, q \in Thread!Position : p.id # q.id => Thread!Before(p, q) \/ Thread!Before(q, p)
<1>1. ASSUME NEW p \in Thread!Position PROVE p.at \in Int /\ p.id \in Int
  <2>1. p.at \in 0..MaxTurn /\ p.id \in Comments
    BY DEF Thread!Position, Thread!Turns
  <2>2. Comments \subseteq Nat /\ MaxTurn \in Nat
    BY DEF ThreadSane
  <2>3. p.at \in Int
    BY <2>1, <2>2
  <2>4. p.id \in Nat
    BY <2>1, <2>2
  <2> QED
    BY <2>3, <2>4
<1>2. ASSUME NEW p \in Thread!Position PROVE ~Thread!Before(p, p)
  BY <1>1 DEF Thread!Before
<1>3. ASSUME NEW p \in Thread!Position, NEW q \in Thread!Position, NEW r \in Thread!Position,
             Thread!Before(p, q), Thread!Before(q, r)
      PROVE  Thread!Before(p, r)
  BY <1>1, <1>3 DEF Thread!Before
<1>4. ASSUME NEW p \in Thread!Position, NEW q \in Thread!Position, p.id # q.id
      PROVE  Thread!Before(p, q) \/ Thread!Before(q, p)
  BY <1>1, <1>4 DEF Thread!Before
<1> QED
  BY <1>1, <1>2, <1>3, <1>4

\* Comments that are there can be put in order.
LEMMA ThreadOrdered ==
  ASSUME ThreadSane, Thread!TypeOK, NEW S \in SUBSET Thread!There
  PROVE  IsFiniteSet(S) /\ Ordered(S, Fresher)
<1>1. IsFiniteSet(S)
  <2>1. S \subseteq Comments
    BY DEF Thread!There
  <2> QED
    BY <2>1, FS_Subset DEF ThreadSane
<1>2. Ordered(S, Fresher)
  BY ThreadPositions, ThreadOrder DEF Ordered, Fresher
<1> QED
  BY <1>1, <1>2

\* The rows of a query are the newest ones, and its cursor is one that all others precede.
LEMMA ThreadPages ==
  ASSUME ThreadSane, Thread!TypeOK, NEW S \in SUBSET Thread!There
  PROVE  /\ \A n : Thread!First(S, n) = Leading(S, Fresher, n)
         /\ S # {} => \E e \in S : Thread!Last(S) = Thread!Pos(e) /\ \A o \in S : o # e => <<o, e>> \in Fresher
<1>1. ASSUME NEW e \in S, NEW o \in S
      PROVE  thread[o].at > thread[e].at \/ (thread[o].at = thread[e].at /\ o > e) <=> <<o, e>> \in Fresher
  <2>1. e \in Thread!There /\ o \in Thread!There
    BY <1>1
  <2>2. thread[o].at \in Int /\ thread[e].at \in Int /\ o \in Int /\ e \in Int
    BY <2>1, ThreadPositions, ThreadOrder
  <2>3. Thread!Before(Thread!Pos(e), Thread!Pos(o)) <=>
          thread[e].at < thread[o].at \/ (thread[e].at = thread[o].at /\ e < o)
    BY <2>1, ThreadPositions DEF Thread!Before
  <2> QED
    BY <2>1, <2>2, <2>3 DEF Fresher
<1>2. ASSUME NEW n PROVE Thread!First(S, n) = Leading(S, Fresher, n)
  <2>1. ASSUME NEW e \in S
        PROVE  {o \in S : thread[o].at > thread[e].at \/ (thread[o].at = thread[e].at /\ o > e)} = Leaders(e, S, Fresher)
    BY <1>1 DEF Leaders
  <2> QED
    BY <2>1, ThreadCounts DEF Thread!First, Leading
<1>3. ASSUME S # {} PROVE \E e \in S : Thread!Last(S) = Thread!Pos(e) /\ \A o \in S : o # e => <<o, e>> \in Fresher
  <2> DEFINE Staler == {p \in S \X S : <<p[2], p[1]>> \in Fresher}
             Hindmost(e) == \A o \in S : thread[o].at > thread[e].at \/ (thread[o].at = thread[e].at /\ o >= e)
  <2>1. IsFiniteSet(S) /\ Ordered(S, Fresher)
    BY ThreadOrdered
  <2>2. Ordered(S, Staler)
    BY <2>1 DEF Ordered
  <2>3. PICK e \in S : \A o \in S : <<o, e>> \notin Staler
    <3> HIDE DEF Staler
    <3> QED
      BY <1>3, <2>1, <2>2, SomebodyLeads
  <2>4. \A o \in S : <<e, o>> \notin Fresher
    BY <2>3
  <2>5. ASSUME NEW o \in S, o # e PROVE <<o, e>> \in Fresher
    <3>1. e \in Thread!There /\ o \in Thread!There
      BY <2>5
    <3>2. Thread!Before(Thread!Pos(e), Thread!Pos(o)) \/ Thread!Before(Thread!Pos(o), Thread!Pos(e))
      BY <2>5, <3>1, ThreadPositions, ThreadOrder
    <3> QED
      BY <2>4, <3>1, <3>2 DEF Fresher
  <2>6. ASSUME NEW x \in S, NEW o \in S
        PROVE  o = x \/ <<o, x>> \in Fresher <=>
                 thread[o].at > thread[x].at \/ (thread[o].at = thread[x].at /\ o >= x)
    <3>1. thread[o].at \in Int /\ thread[x].at \in Int /\ o \in Int /\ x \in Int
      BY ThreadPositions, ThreadOrder
    <3>2. thread[o].at > thread[x].at \/ (thread[o].at = thread[x].at /\ o > x) <=> <<o, x>> \in Fresher
      BY <1>1
    <3>3. CASE o = x
      BY <3>1, <3>3
    <3>4. CASE o # x
      <4>1. o >= x <=> o > x
        BY <3>1, <3>4
      <4> QED
        BY <3>2, <3>4, <4>1
    <3> QED
      BY <3>3, <3>4
  <2>7. Hindmost(e)
    BY <2>5, <2>6
  <2>8. PICK x : x = CHOOSE y \in S : Hindmost(y)
    OBVIOUS
  <2>9. x \in S /\ Hindmost(x)
    BY <2>7, <2>8
  <2>10. Thread!Last(S) = Thread!Pos(x)
    BY <2>8 DEF Thread!Last
  <2>11. \A o \in S : o # x => <<o, x>> \in Fresher
    BY <2>6, <2>9
  <2> QED
    BY <2>9, <2>10, <2>11
<1> QED
  BY <1>2, <1>3

\* Who writes, blocks or withdraws leaves what the walker could read all along where it was.
LEMMA ThreadWriters ==
  ASSUME ThreadInv, Thread!TypeOK', UNCHANGED walk,
         steady' \subseteq steady, steady' \subseteq Thread!Readable', given \cap steady' \subseteq given',
         \A e \in steady' : thread'[e] = thread[e]
  PROVE  ThreadInv'
<1>1. \A e \in steady' : Thread!Pos(e)' = Thread!Pos(e)
  BY DEF Thread!Pos
<1>2. walk'.pc = "open" => steady' \subseteq given' \cup Thread!Ahead'
  BY <1>1 DEF ThreadInv, Thread!Ahead
<1> QED
  BY <1>2 DEF ThreadInv, Thread!WalkComplete

\* A comment that stays as it is stays readable when nobody blocks and the post stays.
LEMMA ThreadReadable ==
  ASSUME UNCHANGED <<parted, visible>>, NEW e \in Thread!Readable, thread'[e] = thread[e]
  PROVE  e \in Thread!Readable'
<1>1. e \in Comments /\ thread'[e] # None
  BY DEF Thread!Readable, Thread!There
<1>2. Thread!Sees'
  BY DEF Thread!Readable, Thread!Sees, Thread!Together
<1>3. Thread!CommentVisible(e)'
  BY DEF Thread!Readable, Thread!CommentVisible, Thread!Together
<1> QED
  BY <1>1, <1>2, <1>3 DEF Thread!Readable, Thread!There

\* Comments that come and go are not those that could be read all along.
LEMMA ThreadCommentStep ==
  ASSUME ThreadSane, ThreadInv, NEW e \in Comments, NEW u \in Authors,
         Thread!DeleteComment(e, u) \/ \E at \in Thread!Turns : Thread!Comment(e, u, at)
  PROVE  ThreadInv'
<1>1. CASE Thread!DeleteComment(e, u)
  <2>1. /\ thread' = [thread EXCEPT ![e] = None] /\ steady' = steady \ {e} /\ given' = given \ {e}
        /\ UNCHANGED <<parted, visible, liked, walk, turn>>
    BY <1>1 DEF Thread!DeleteComment
  <2>2. Thread!TypeOK'
    BY <2>1 DEF ThreadInv, Thread!TypeOK
  <2>3. \A o \in steady' : thread'[o] = thread[o] /\ o \in Comments
    BY <2>1 DEF ThreadInv, Thread!TypeOK
  <2>4. steady' \subseteq Thread!Readable'
    BY <2>1, <2>3, ThreadReadable DEF ThreadInv
  <2> QED
    BY <2>1, <2>2, <2>3, <2>4, ThreadWriters
<1>2. ASSUME NEW at \in Thread!Turns, Thread!Comment(e, u, at) PROVE ThreadInv'
  <2>0. PICK n : n = [author |-> u, at |-> at]
    OBVIOUS
  <2>1. /\ thread[e] = None /\ thread' = [thread EXCEPT ![e] = n]
        /\ UNCHANGED <<parted, visible, liked, walk, given, steady, turn>>
    BY <1>2, <2>0 DEF Thread!Comment, Thread!walker
  <2>2. n \in Thread!Comment_
    BY <2>0 DEF Thread!Comment_
  <2>3. Thread!TypeOK'
    BY <2>1, <2>2 DEF ThreadInv, Thread!TypeOK
  <2>4. \A o \in steady' : thread'[o] = thread[o] /\ o \in Comments
    BY <2>1 DEF ThreadInv, Thread!TypeOK, Thread!Readable, Thread!There
  <2>5. steady' \subseteq Thread!Readable'
    BY <2>1, <2>4, ThreadReadable DEF ThreadInv
  <2> QED
    BY <2>1, <2>3, <2>4, <2>5, ThreadWriters
<1> QED
  BY <1>1, <1>2

\* A block takes from the walk what its author wrote, or everything.
LEMMA ThreadPartStep ==
  ASSUME ThreadSane, ThreadInv, NEW u \in Authors \cup {Host}, Thread!Part(u)
  PROVE  ThreadInv'
<1>1. /\ u # Walker /\ steady' = IF u = Host THEN {} ELSE {e \in steady : thread[e].author # u}
      /\ parted' = IF {u, Walker} \in parted THEN parted \ {{u, Walker}} ELSE parted \cup {{u, Walker}}
      /\ UNCHANGED <<thread, visible, liked, walk, turn, given>>
  BY DEF Thread!Part
<1>2. Thread!TypeOK'
  <2>1. parted' \subseteq SUBSET (Authors \cup {Host, Walker})
    BY <1>1 DEF ThreadInv, Thread!TypeOK
  <2>2. steady' \subseteq Comments
    BY <1>1 DEF ThreadInv, Thread!TypeOK
  <2> QED
    BY <1>1, <2>1, <2>2 DEF ThreadInv, Thread!TypeOK
<1>3. ASSUME NEW v, v # u, {v, Walker} \notin parted PROVE {v, Walker} \notin parted'
  <2>1. {v, Walker} # {u, Walker}
    BY <1>1, <1>3
  <2> QED
    BY <1>1, <1>3, <2>1
<1>4. ASSUME NEW e \in steady' PROVE e \in Thread!Readable'
  <2>1. e \in Thread!Readable /\ u # Host /\ thread[e].author # u
    BY <1>1, <1>4 DEF ThreadInv
  <2>2. {Host, Walker} \notin parted' /\ {thread[e].author, Walker} \notin parted'
    BY <1>3, <2>1 DEF Thread!Readable, Thread!Sees, Thread!CommentVisible, Thread!Together
  <2> QED
    BY <1>1, <2>1, <2>2 DEF Thread!Readable, Thread!There, Thread!Sees, Thread!CommentVisible, Thread!Together
<1> QED
  BY <1>1, <1>2, <1>4, ThreadWriters

\* What else takes the post out of sight, and what touches nothing.
LEMMA ThreadElse ==
  ASSUME ThreadSane, ThreadInv,
         (\E put \in BOOLEAN : Thread!React(put)) \/ Thread!Withdraw \/ Thread!Tick \/ UNCHANGED Thread!vars
  PROVE  ThreadInv'
<1>1. /\ UNCHANGED <<thread, parted, walk, given>> /\ steady' \subseteq steady
      /\ steady' = {} \/ UNCHANGED visible
  BY DEF Thread!React, Thread!Withdraw, Thread!Tick, Thread!vars, Thread!walker
<1>2. turn' \in Thread!Turns /\ liked' \in BOOLEAN /\ visible' \in BOOLEAN
  <2>1. turn \in Thread!Turns /\ liked \in BOOLEAN /\ visible \in BOOLEAN
    BY DEF ThreadInv, Thread!TypeOK
  <2>2. ASSUME Thread!Tick PROVE turn' \in Thread!Turns /\ liked' \in BOOLEAN /\ visible' \in BOOLEAN
    BY <2>1, <2>2 DEF Thread!Tick, Thread!Turns, ThreadSane
  <2> QED
    BY <2>1, <2>2 DEF Thread!React, Thread!Withdraw, Thread!vars
<1>3. Thread!TypeOK'
  BY <1>1, <1>2 DEF ThreadInv, Thread!TypeOK
<1>4. steady' \subseteq Thread!Readable'
  BY <1>1, ThreadReadable DEF ThreadInv
<1> QED
  BY <1>1, <1>3, <1>4, ThreadWriters

\* A new walk has everything ahead.
LEMMA ThreadBegin ==
  ASSUME ThreadSane, ThreadInv, Thread!Begin
  PROVE  ThreadInv'
<1>0. PICK w : w = [pc |-> "open", cursor |-> None]
  OBVIOUS
<1>1. /\ walk' = w /\ given' = {} /\ steady' = Thread!Readable /\ UNCHANGED <<thread, parted, visible, liked, turn>>
  BY <1>0 DEF Thread!Begin
<1>2. w \in Thread!Walk /\ w.pc = "open" /\ w.cursor = None
  BY <1>0 DEF Thread!Walk
<1>3. Thread!Readable' = Thread!Readable /\ Thread!Readable \subseteq Comments
  BY <1>1 DEF Thread!Readable, Thread!There, Thread!Sees, Thread!CommentVisible, Thread!Together
<1>4. Thread!TypeOK'
  BY <1>1, <1>2, <1>3 DEF ThreadInv, Thread!TypeOK
<1>5. Thread!Ahead' = Thread!Readable'
  BY <1>1, <1>2 DEF Thread!Ahead
<1> QED
  BY <1>1, <1>2, <1>3, <1>4, <1>5 DEF ThreadInv, Thread!WalkComplete

\* What a page leaves out is behind its last comment, and nothing when no more rows came.
LEMMA ThreadComments ==
  ASSUME ThreadSane, ThreadInv, Thread!Comments
  PROVE  ThreadInv'
<1> DEFINE rows == Thread!Rows(Thread!Ahead)
           items == Thread!First(rows, PageSize)
           open == [pc |-> "open", cursor |-> Thread!Last(items)]
           end == [pc |-> "end", cursor |-> None]
<1>1. /\ walk.pc = "open" /\ given' = given \cup items
      /\ walk' = (IF Thread!Cardinality(rows) > PageSize THEN open ELSE end)
      /\ UNCHANGED <<thread, parted, visible, liked, turn, steady>>
  BY DEF Thread!Comments
<1>2. Thread!Ahead \subseteq Thread!There /\ rows \subseteq Thread!Ahead /\ items \subseteq rows /\ Thread!There \subseteq Comments
  BY DEF Thread!Ahead, Thread!Readable, Thread!Rows, Thread!First, Thread!There
<1>3. Thread!TypeOK /\ PageSize \in Nat \ {0} /\ PageSize + 1 \in Nat
  BY DEF ThreadInv, ThreadSane
<1>4. rows = Leading(Thread!Ahead, Fresher, PageSize + 1)
  BY <1>2, <1>3, ThreadPages DEF Thread!Rows
<1> HIDE DEF rows
<1>5. items = Leading(rows, Fresher, PageSize) /\ rows \subseteq Thread!There
  BY <1>2, <1>3, ThreadPages
<1>6. /\ IsFiniteSet(Thread!Ahead) /\ Ordered(Thread!Ahead, Fresher)
      /\ IsFiniteSet(rows) /\ Ordered(rows, Fresher)
  BY <1>2, <1>3, <1>5, ThreadOrdered
<1> HIDE DEF items
<1>7. steady \subseteq given \cup Thread!Ahead /\ steady \subseteq Thread!Readable
  BY <1>1 DEF ThreadInv
<1>8. Thread!Readable' = Thread!Readable /\ \A e \in Comments : Thread!Pos(e)' = Thread!Pos(e)
  BY <1>1 DEF Thread!Readable, Thread!There, Thread!Sees, Thread!CommentVisible, Thread!Together, Thread!Pos
<1>9. CASE Thread!Cardinality(rows) > PageSize
  <2>1. rows # {}
    <3>1. Cardinality(rows) > PageSize
      BY <1>9, ThreadCounts
    <3> QED
      BY <1>3, <3>1, FS_EmptySet
  <2>2. items # {} /\ items \subseteq Thread!There
    BY <1>2, <1>3, <1>5, <1>6, <2>1, LeadingSome
  <2>3. PICK l \in items : Thread!Last(items) = Thread!Pos(l) /\ \A o \in items : o # l => <<o, l>> \in Fresher
    BY <1>3, <2>2, ThreadPages
  <2>4. walk'.pc = "open" /\ walk'.cursor = Thread!Pos(l) /\ walk' \in Thread!Walk
    <3>1. Thread!Pos(l) \in Thread!Position
      BY <1>3, <2>2, ThreadPositions
    <3> QED
      BY <1>1, <1>9, <2>3, <3>1 DEF Thread!Walk
  <2>5. ASSUME NEW e \in Thread!Ahead, e \notin items PROVE Thread!Before(Thread!Pos(e), Thread!Pos(l))
    <3>1. e \in Thread!There /\ l \in Thread!There /\ l \in rows /\ l \in Thread!Ahead
      BY <1>2, <2>2
    <3>2. Thread!Before(Thread!Pos(e), Thread!Pos(l)) \/ Thread!Before(Thread!Pos(l), Thread!Pos(e))
      BY <1>3, <2>5, <3>1, ThreadPositions, ThreadOrder
    <3>3. ASSUME Thread!Before(Thread!Pos(l), Thread!Pos(e)) PROVE FALSE
      <4>1. <<e, l>> \in Fresher
        BY <3>1, <3>3 DEF Fresher
      <4>2. e \in rows
        BY <1>3, <1>4, <1>6, <3>1, <4>1, LeadingClosed
      <4>3. e \in items
        BY <1>3, <1>5, <1>6, <4>1, <4>2, LeadingClosed
      <4> QED
        BY <2>5, <4>3
    <3> QED
      BY <3>2, <3>3
  <2>6. steady' \subseteq given' \cup Thread!Ahead'
    BY <1>1, <1>2, <1>7, <1>8, <2>4, <2>5 DEF Thread!Ahead
  <2>7. Thread!TypeOK'
    BY <1>1, <1>2, <1>3, <2>4 DEF Thread!TypeOK
  <2> QED
    BY <1>1, <1>7, <1>8, <2>4, <2>6, <2>7 DEF ThreadInv, Thread!WalkComplete
<1>10. CASE ~(Thread!Cardinality(rows) > PageSize)
  <2>1. items = Thread!Ahead
    <3>1. ~(Cardinality(rows) > PageSize)
      BY <1>10, ThreadCounts
    <3> QED
      BY <1>3, <1>4, <1>5, <1>6, <3>1, LeadingAll
  <2>2. walk' \in Thread!Walk /\ walk'.pc = "end"
    BY <1>1, <1>10 DEF Thread!Walk
  <2>3. Thread!TypeOK'
    BY <1>1, <1>2, <1>3, <2>2 DEF Thread!TypeOK
  <2>4. steady' \subseteq given'
    BY <1>1, <1>7, <2>1
  <2> QED
    BY <1>1, <1>7, <1>8, <2>2, <2>3, <2>4 DEF ThreadInv, Thread!WalkComplete
<1> QED
  BY <1>9, <1>10

\* A walk through the comments that has come to its end has shown every comment that
\* could be read all along, whoever commented, deleted and blocked meanwhile (feed/social.go).
THEOREM CommentsAreAllShown == ASSUME ThreadSane PROVE Thread!Spec => []Thread!WalkComplete
<1>1. Thread!Init => ThreadInv
  <2> SUFFICES ASSUME Thread!Init PROVE ThreadInv
    OBVIOUS
  <2>1. walk \in Thread!Walk /\ walk.pc = "new"
    BY DEF Thread!Init, Thread!NewWalk, Thread!Walk
  <2>2. turn \in Thread!Turns
    BY DEF Thread!Init, Thread!Turns, ThreadSane
  <2> QED
    BY <2>1, <2>2 DEF Thread!Init, ThreadInv, Thread!TypeOK, Thread!WalkComplete
<1>2. ThreadInv /\ [Thread!Next]_(Thread!vars) => ThreadInv'
  BY ThreadCommentStep, ThreadPartStep, ThreadElse, ThreadBegin, ThreadComments DEF Thread!Next
<1>3. ThreadInv => Thread!WalkComplete
  BY DEF ThreadInv
<1> QED
  BY <1>1, <1>2, <1>3, PTL DEF Thread!Spec

-----------------------------------------------------------------------------
(* FeedBoard: a walk through the leaderboard. *)

CONSTANTS Players, MaxTotal
VARIABLES totals, left, reader, listed, still
Board == INSTANCE FeedBoard WITH shown <- listed

\* Players are numbered as their names sort, a page holds one of them at least, and
\* None is no sum of points and no cursor.
BoardSane ==
  /\ IsFiniteSet(Players) /\ Players \subseteq Nat
  /\ PageSize \in Nat \ {0} /\ MaxTotal \in Nat
  /\ None \notin Nat \cup Board!Key

\* Players by points, the best first, and by name.
Better == {p \in Board!Ranked \X Board!Ranked :
             totals[p[1]] > totals[p[2]] \/ (totals[p[1]] = totals[p[2]] /\ p[1] < p[2])}

Listed(p) == \E row \in listed : row.player = p

\* Whose points stand still was on a page or is still ahead.
BoardInv ==
  /\ totals \in [Players -> {None} \cup 0..MaxTotal]
  /\ reader \in [pc: {"new", "open", "end"}, cursor: Board!Key \cup {None}]
  /\ still \subseteq Board!Ranked
  /\ reader.pc = "new" => still = {}
  /\ reader.pc = "open" => \A p \in still : Listed(p) \/ p \in Board!Ahead
  /\ Board!BoardComplete

\* The module's own count is the library's.
LEMMA BoardCounts == \A S : Board!Cardinality(S) = Cardinality(S)
  BY DEF Board!Cardinality, Cardinality, Board!IsFiniteSet, IsFiniteSet

\* Who is ranked has a sum and a number.
LEMMA BoardTypes ==
  ASSUME BoardSane, BoardInv, NEW p \in Board!Ranked
  PROVE  p \in Players /\ p \in Int /\ totals[p] \in Int /\ Board!KeyOf(p) \in Board!Key
<1>1. p \in Players /\ totals[p] \in 0..MaxTotal /\ MaxTotal \in Nat /\ Players \subseteq Nat
  BY DEF Board!Ranked, BoardInv, BoardSane
<1>2. p \in Int
  BY <1>1
<1>3. totals[p] \in Int
  BY <1>1
<1>4. Board!KeyOf(p) \in Board!Key
  BY <1>1 DEF Board!KeyOf, Board!Key
<1> QED
  BY <1>1, <1>2, <1>3, <1>4

\* The board is in order, and its cursor compares as it does.
LEMMA BoardOrdered ==
  ASSUME BoardSane, BoardInv, NEW S \in SUBSET Board!Ranked
  PROVE  /\ IsFiniteSet(S) /\ Ordered(S, Better)
         /\ \A p \in S, q \in S : p # q => <<p, q>> \in Better \/ <<q, p>> \in Better
         /\ \A p \in S, q \in S : <<q, p>> \in Better => Board!After(Board!KeyOf(p), Board!KeyOf(q))
<1>1. IsFiniteSet(S)
  <2>1. S \subseteq Players
    BY DEF Board!Ranked
  <2> QED
    BY <2>1, FS_Subset DEF BoardSane
<1>2. ASSUME NEW p \in S, NEW q \in S
      PROVE  /\ totals[p] \in Int /\ totals[q] \in Int /\ p \in Int /\ q \in Int
             /\ <<p, q>> \in Better <=> totals[p] > totals[q] \/ (totals[p] = totals[q] /\ p < q)
  BY BoardTypes DEF Better
<1>3. ASSUME NEW p \in S PROVE <<p, p>> \notin Better
  BY <1>2
<1>4. ASSUME NEW p \in S, NEW q \in S, NEW r \in S, <<p, q>> \in Better, <<q, r>> \in Better
      PROVE  <<p, r>> \in Better
  <2>1. /\ totals[p] \in Int /\ totals[q] \in Int /\ totals[r] \in Int /\ p \in Int /\ q \in Int /\ r \in Int
        /\ totals[p] > totals[q] \/ (totals[p] = totals[q] /\ p < q)
        /\ totals[q] > totals[r] \/ (totals[q] = totals[r] /\ q < r)
    BY <1>2, <1>4
  <2>2. totals[p] > totals[r] \/ (totals[p] = totals[r] /\ p < r)
    BY <2>1
  <2> QED
    BY <1>2, <2>2
<1>5. ASSUME NEW p \in S, NEW q \in S, p # q PROVE <<p, q>> \in Better \/ <<q, p>> \in Better
  <2>0. totals[p] \in Int /\ totals[q] \in Int /\ p \in Int /\ q \in Int
    BY <1>2
  <2>1. \/ totals[p] > totals[q] \/ (totals[p] = totals[q] /\ p < q)
        \/ totals[q] > totals[p] \/ (totals[q] = totals[p] /\ q < p)
    BY <1>5, <2>0
  <2> QED
    BY <1>2, <2>1
<1>6. ASSUME NEW p \in S, NEW q \in S, <<q, p>> \in Better PROVE Board!After(Board!KeyOf(p), Board!KeyOf(q))
  BY <1>2, <1>6 DEF Board!After, Board!KeyOf
<1> QED
  BY <1>1, <1>3, <1>4, <1>5, <1>6 DEF Ordered

\* The rows of a query are the best ones.
LEMMA BoardPages ==
  ASSUME NEW S \in SUBSET Board!Ranked, NEW n
  PROVE  Board!First(S, n) = Leading(S, Better, n)
<1>1. ASSUME NEW p \in S PROVE Board!InFront(p, S) = Leaders(p, S, Better)
  BY DEF Board!InFront, Leaders, Better
<1> QED
  BY <1>1, BoardCounts DEF Board!First, Leading

\* A player whose points change, or who leaves, is not one of those who stand still.
LEMMA BoardMoves ==
  ASSUME BoardSane, BoardInv, NEW p \in Players,
         Board!DeleteAccount(p) \/ \E points \in 0..MaxTotal : Board!Guess(p, points)
  PROVE  BoardInv'
<1>1. still' = still \ {p} /\ UNCHANGED <<reader, listed>> /\ left' \subseteq left \cup {p}
  BY DEF Board!DeleteAccount, Board!Guess
<1>2. totals' \in [Players -> {None} \cup 0..MaxTotal] /\ \A q \in Players : q # p => totals'[q] = totals[q]
  <2>1. ASSUME NEW points \in 0..MaxTotal, Board!Guess(p, points)
        PROVE  totals' \in [Players -> {None} \cup 0..MaxTotal] /\ \A q \in Players : q # p => totals'[q] = totals[q]
    <3>1. PICK total : /\ total = points + (IF totals[p] = None THEN 0 ELSE totals[p])
                       /\ total <= MaxTotal /\ totals' = [totals EXCEPT ![p] = total]
      BY <2>1 DEF Board!Guess
    <3>2. points \in Nat /\ (IF totals[p] = None THEN 0 ELSE totals[p]) \in Nat
      <4>1. totals[p] \in {None} \cup 0..MaxTotal /\ MaxTotal \in Nat
        BY DEF BoardInv, BoardSane
      <4>2. points \in Nat
        BY <4>1
      <4>3. totals[p] # None => totals[p] \in Nat
        BY <4>1
      <4> QED
        BY <4>2, <4>3
    <3>3. total \in 0..MaxTotal
      BY <3>1, <3>2 DEF BoardSane
    <3> QED
      BY <3>1, <3>3 DEF BoardInv
  <2>2. CASE Board!DeleteAccount(p)
    BY <2>2 DEF Board!DeleteAccount, BoardInv
  <2> QED
    BY <2>1, <2>2
<1>3. ASSUME NEW q \in still'
      PROVE  q \in still /\ q \in Board!Ranked' /\ (q \in Board!Ahead => q \in Board!Ahead')
  <2>1. q \in still /\ q # p /\ q \in Board!Ranked /\ q \in Players
    BY <1>1, <1>3 DEF BoardInv, Board!Ranked
  <2>2. q \in Board!Ranked' /\ Board!KeyOf(q)' = Board!KeyOf(q)
    BY <1>1, <1>2, <2>1 DEF Board!Ranked, Board!KeyOf
  <2> QED
    BY <1>1, <2>1, <2>2 DEF Board!Ahead
<1> QED
  BY <1>1, <1>2, <1>3 DEF BoardInv, Listed, Board!BoardComplete

\* A new walk has everybody ahead.
LEMMA BoardBegin ==
  ASSUME BoardSane, BoardInv, Board!Begin
  PROVE  BoardInv'
<1>0. PICK w : w = [pc |-> "open", cursor |-> None]
  OBVIOUS
<1>1. reader' = w /\ still' = Board!Ranked /\ UNCHANGED <<totals, left>>
  BY <1>0 DEF Board!Begin
<1>2. w.pc = "open" /\ w.cursor = None /\ w \in [pc: {"new", "open", "end"}, cursor: Board!Key \cup {None}]
  BY <1>0
<1>3. Board!Ranked' = Board!Ranked
  BY <1>1 DEF Board!Ranked
<1>4. Board!Ahead' = Board!Ranked
  BY <1>1, <1>2, <1>3 DEF Board!Ahead
<1> QED
  BY <1>1, <1>2, <1>3, <1>4 DEF BoardInv, Board!BoardComplete

\* Whom a page leaves out is behind its last row, and nobody when no more rows came.
LEMMA BoardPage ==
  ASSUME BoardSane, BoardInv, Board!Leaderboard
  PROVE  BoardInv'
<1> DEFINE rows == Board!First(Board!Ahead, PageSize + 1)
           items == Board!First(rows, PageSize)
           last == CHOOSE p \in items : \A q \in items \ {p} : q \in Board!InFront(p, items)
           new == {[player |-> p, rank |-> Board!Rank(p)] : p \in items}
           open == [pc |-> "open", cursor |-> Board!KeyOf(last)]
           end == [pc |-> "end", cursor |-> None]
<1>1. /\ reader.pc = "open" /\ listed' = listed \cup new
      /\ reader' = (IF Board!Cardinality(rows) > PageSize THEN open ELSE end)
      /\ UNCHANGED <<totals, left, still>>
  BY DEF Board!Leaderboard
<1>2. Board!Ahead \subseteq Board!Ranked /\ rows \subseteq Board!Ahead /\ items \subseteq rows
  BY DEF Board!Ahead, Board!First
<1>3. PageSize \in Nat \ {0} /\ PageSize + 1 \in Nat
  BY DEF BoardSane
<1>4. rows = Leading(Board!Ahead, Better, PageSize + 1)
  BY <1>2, BoardPages
<1>5. ASSUME NEW p \in items PROVE \E row \in new : row.player = p
  <2>1. [player |-> p, rank |-> Board!Rank(p)] \in new
    BY <1>5
  <2> HIDE DEF new
  <2> QED
    BY <2>1
<1>6. (CHOOSE p \in items : \A q \in items \ {p} : q \in Board!InFront(p, items)) = last
  OBVIOUS
<1> HIDE DEF rows, new
<1>7. items = Leading(rows, Better, PageSize) /\ rows \subseteq Board!Ranked
  BY <1>2, BoardPages
<1>8. /\ IsFiniteSet(Board!Ahead) /\ Ordered(Board!Ahead, Better)
      /\ IsFiniteSet(rows) /\ Ordered(rows, Better)
  BY <1>2, <1>7, BoardOrdered
<1> HIDE DEF items
<1>9. ASSUME NEW p \in still PROVE Listed(p) \/ p \in Board!Ahead
  BY <1>1 DEF BoardInv
<1>10. Board!Ranked' = Board!Ranked /\ \A p : Board!KeyOf(p)' = Board!KeyOf(p)
  BY <1>1 DEF Board!Ranked, Board!KeyOf
<1>11. \A p \in items : Listed(p)'
  BY <1>1, <1>5 DEF Listed
<1>12. \A p : Listed(p) => Listed(p)'
  BY <1>1 DEF Listed
<1>13. CASE Board!Cardinality(rows) > PageSize
  <2>1. rows # {}
    <3>1. Cardinality(rows) > PageSize
      BY <1>13, BoardCounts
    <3> QED
      BY <1>3, <3>1, FS_EmptySet
  <2>2. items # {} /\ items \subseteq Board!Ranked
    BY <1>2, <1>3, <1>7, <1>8, <2>1, LeadingSome
  <2>3. last \in items /\ \A q \in items : q # last => <<q, last>> \in Better
    <3> DEFINE Worse == {p \in items \X items : <<p[2], p[1]>> \in Better}
    <3>1. IsFiniteSet(items) /\ Ordered(items, Better) /\ \A p \in items, q \in items : p # q => <<p, q>> \in Better \/ <<q, p>> \in Better
      BY <2>2, BoardOrdered
    <3>2. Ordered(items, Worse)
      BY <3>1 DEF Ordered
    <3>3. PICK p \in items : \A q \in items : <<q, p>> \notin Worse
      <4> HIDE DEF Worse
      <4> QED
        BY <2>2, <3>1, <3>2, SomebodyLeads
    <3>4. \A q \in items : q # p => <<q, p>> \in Better
      BY <3>1, <3>3
    <3>5. \A x \in items, q \in items : q \in Board!InFront(x, items) <=> <<q, x>> \in Better
      BY <2>2 DEF Board!InFront, Better
    <3>6. \A q \in items \ {p} : q \in Board!InFront(p, items)
      BY <3>4, <3>5
    <3>7. last \in items /\ \A q \in items \ {last} : q \in Board!InFront(last, items)
      BY <3>6
    <3> QED
      BY <3>5, <3>7
  <2> HIDE DEF last
  <2>4. /\ reader'.pc = "open" /\ reader'.cursor = Board!KeyOf(last)
        /\ reader' \in [pc: {"new", "open", "end"}, cursor: Board!Key \cup {None}]
    <3>1. Board!KeyOf(last) \in Board!Key
      BY <2>2, <2>3, BoardTypes
    <3> QED
      BY <1>1, <1>13, <3>1
  <2>5. ASSUME NEW p \in Board!Ahead, p \notin items PROVE Board!After(Board!KeyOf(p), Board!KeyOf(last))
    <3>1. p # last /\ last \in Board!Ahead /\ last \in rows
      BY <1>2, <2>3, <2>5
    <3>2. <<p, last>> \in Better \/ <<last, p>> \in Better
      BY <1>2, <2>5, <3>1, BoardOrdered
    <3>3. ASSUME <<p, last>> \in Better PROVE FALSE
      <4>1. p \in rows
        BY <1>3, <1>4, <1>8, <3>1, <3>3, LeadingClosed
      <4>2. p \in items
        BY <1>3, <1>7, <1>8, <2>3, <3>3, <4>1, LeadingClosed
      <4> QED
        BY <2>5, <4>2
    <3>4. <<last, p>> \in Better
      BY <3>2, <3>3
    <3> QED
      BY <1>2, <3>1, <3>4, BoardOrdered
  <2>6. \A p \in still' : Listed(p)' \/ p \in Board!Ahead'
    BY <1>1, <1>2, <1>9, <1>10, <1>11, <1>12, <2>4, <2>5 DEF Board!Ahead
  <2> QED
    BY <1>1, <1>10, <2>4, <2>6 DEF BoardInv, Board!BoardComplete
<1>14. CASE ~(Board!Cardinality(rows) > PageSize)
  <2>1. items = Board!Ahead
    <3>1. ~(Cardinality(rows) > PageSize)
      BY <1>14, BoardCounts
    <3> QED
      BY <1>3, <1>4, <1>7, <1>8, <3>1, LeadingAll
  <2>2. reader' \in [pc: {"new", "open", "end"}, cursor: Board!Key \cup {None}] /\ reader'.pc = "end"
    BY <1>1, <1>14
  <2>3. \A p \in still' : Listed(p)'
    BY <1>1, <1>9, <1>11, <1>12, <2>1
  <2> QED
    BY <1>1, <1>10, <2>2, <2>3 DEF BoardInv, Board!BoardComplete, Listed
<1> QED
  BY <1>13, <1>14

\* A walk through the leaderboard that has come to its end has shown every player whose
\* points stood still, whoever passed or fell behind meanwhile (feed/leaderboard.go).
THEOREM TheBoardIsAllShown == ASSUME BoardSane PROVE Board!Spec => []Board!BoardComplete
<1>1. Board!Init => BoardInv
  BY DEF Board!Init, BoardInv, Board!BoardComplete, BoardSane
<1>2. BoardInv /\ [Board!Next]_(Board!vars) => BoardInv'
  <2> SUFFICES ASSUME BoardInv, [Board!Next]_(Board!vars) PROVE BoardInv'
    OBVIOUS
  <2>1. CASE Board!Next
    BY <2>1, BoardMoves, BoardBegin, BoardPage DEF Board!Next
  <2>2. CASE UNCHANGED Board!vars
    BY <2>2 DEF Board!vars, BoardInv, Board!BoardComplete, Listed, Board!Ranked, Board!Ahead, Board!KeyOf
  <2> QED
    BY <2>1, <2>2
<1>3. BoardInv => Board!BoardComplete
  BY DEF BoardInv
<1> QED
  BY <1>1, <1>2, <1>3, PTL DEF Board!Spec

-----------------------------------------------------------------------------
(* ChatSync: the pages of a chat, from the newest, after a cursor and before a message. *)

CONSTANTS Chatters, Liked, Lines, PageLimit, MaxMoment
VARIABLES lines, apart, seen, first, cursor, more, boundary, reacted, loaded, moment, late
Sync == INSTANCE ChatSync

\* Message ids are numbers, a page holds one message at least, and None is no row,
\* no position and no id.
SyncSane ==
  /\ IsFiniteSet(Lines) /\ Lines \subseteq Nat
  /\ PageLimit \in Nat \ {0} /\ MaxMoment \in Nat
  /\ None \notin Sync!Line \cup Sync!Position \cup Lines

\* Messages by age: <<x, y>> when x comes first, and the reverse.
Older == {p \in Sync!Stored \X Sync!Stored : Sync!After(Sync!Pos(p[2]), Sync!Pos(p[1]))}
Younger == {p \in Sync!Stored \X Sync!Stored : Sync!After(Sync!Pos(p[1]), Sync!Pos(p[2]))}

\* The module's own count is the library's.
LEMMA SyncCounts == \A S : Sync!Cardinality(S) = Cardinality(S)
  BY DEF Sync!Cardinality, Cardinality, Sync!IsFiniteSet, IsFiniteSet

\* What is stored has a position, and positions are in a total order.
LEMMA SyncPositions ==
  ASSUME SyncSane, Sync!TypeOK, NEW m \in Sync!Stored
  PROVE  Sync!Pos(m) \in Sync!Position /\ Sync!Pos(m).id = m /\ m \in Lines
<1>1. m \in Lines /\ lines[m] \in Sync!Line
  BY DEF Sync!Stored, Sync!TypeOK
<1> QED
  BY <1>1 DEF Sync!Pos, Sync!Position, Sync!Line

\* Positions are compared one number after the other.
LEMMA SyncOrder ==
  ASSUME SyncSane
  PROVE  /\ \A p \in Sync!Position : ~Sync!After(p, p)
         /\ \A p, q, r \in Sync!Position : Sync!After(p, q) /\ Sync!After(q, r) => Sync!After(p, r)
         /\ \A p, q \in Sync!Position : p.id # q.id => Sync!After(p, q) \/ Sync!After(q, p)
<1>1. ASSUME NEW p \in Sync!Position PROVE p.at \in Int /\ p.id \in Int
  <2>1. p.at \in 0..MaxMoment /\ p.id \in Lines
    BY DEF Sync!Position, Sync!Moments
  <2>2. Lines \subseteq Nat /\ MaxMoment \in Nat
    BY DEF SyncSane
  <2>3. p.at \in Int
    BY <2>1, <2>2
  <2>4. p.id \in Nat
    BY <2>1, <2>2
  <2> QED
    BY <2>3, <2>4
<1>2. ASSUME NEW p \in Sync!Position PROVE ~Sync!After(p, p)
  BY <1>1 DEF Sync!After
<1>3. ASSUME NEW p \in Sync!Position, NEW q \in Sync!Position, NEW r \in Sync!Position,
             Sync!After(p, q), Sync!After(q, r)
      PROVE  Sync!After(p, r)
  BY <1>1, <1>3 DEF Sync!After
<1>4. ASSUME NEW p \in Sync!Position, NEW q \in Sync!Position, p.id # q.id
      PROVE  Sync!After(p, q) \/ Sync!After(q, p)
  BY <1>1, <1>4 DEF Sync!After
<1> QED
  BY <1>2, <1>3, <1>4

\* Stored messages can be put in order, from either end.
LEMMA SyncOrdered ==
  ASSUME SyncSane, Sync!TypeOK, NEW S \in SUBSET Sync!Stored
  PROVE  IsFiniteSet(S) /\ Ordered(S, Older) /\ Ordered(S, Younger)
<1>1. IsFiniteSet(S)
  <2>1. S \subseteq Lines
    BY DEF Sync!Stored
  <2> QED
    BY <2>1, FS_Subset DEF SyncSane
<1>2. Ordered(S, Older)
  BY SyncPositions, SyncOrder DEF Ordered, Older
<1>3. Ordered(S, Younger)
  BY SyncPositions, SyncOrder DEF Ordered, Younger
<1> QED
  BY <1>1, <1>2, <1>3

\* The pages are the first ones by age, and the last.
LEMMA SyncPages ==
  ASSUME NEW S \in SUBSET Sync!Stored, NEW n
  PROVE  Sync!Oldest(S, n) = Leading(S, Older, n) /\ Sync!Newest(S, n) = Leading(S, Younger, n)
<1>1. ASSUME NEW m \in S
      PROVE  /\ {o \in S : Sync!After(Sync!Pos(m), Sync!Pos(o))} = Leaders(m, S, Older)
             /\ {o \in S : Sync!After(Sync!Pos(o), Sync!Pos(m))} = Leaders(m, S, Younger)
  BY DEF Leaders, Older, Younger
<1> QED
  BY <1>1, SyncCounts DEF Sync!Oldest, Sync!Newest, Leading

\* The ends of a page that is not empty.
LEMMA SyncEnds ==
  ASSUME SyncSane, Sync!TypeOK, NEW S \in SUBSET Sync!Stored, S # {}
  PROVE  /\ \E m \in S : Sync!Top(S) = Sync!Pos(m) /\ \A o \in S : ~Sync!After(Sync!Pos(o), Sync!Pos(m))
         /\ \E m \in S : Sync!Bottom(S) = Sync!Pos(m) /\ \A o \in S : ~Sync!After(Sync!Pos(m), Sync!Pos(o))
<1>1. \E m \in S : \A o \in S : ~Sync!After(Sync!Pos(o), Sync!Pos(m))
  <2>1. PICK m \in S : \A o \in S : <<o, m>> \notin Younger
    BY SyncOrdered, SomebodyLeads
  <2> QED
    BY <2>1 DEF Younger
<1>2. \E m \in S : \A o \in S : ~Sync!After(Sync!Pos(m), Sync!Pos(o))
  <2>1. PICK m \in S : \A o \in S : <<o, m>> \notin Older
    BY SyncOrdered, SomebodyLeads
  <2> QED
    BY <2>1 DEF Older
<1> QED
  BY <1>1, <1>2 DEF Sync!Top, Sync!Bottom

\* A client that has a window has both its ends.
SyncInv ==
  /\ Sync!TypeOK
  /\ Sync!NoGap
  /\ first = None <=> cursor = None

\* Nothing is read at first.
LEMMA SyncInitial ==
  ASSUME SyncSane, Sync!Init
  PROVE  SyncInv
<1>1. Sync!TypeOK
  BY DEF SyncSane, Sync!Init, Sync!TypeOK, Sync!Moments
<1> QED
  BY <1>1 DEF SyncInv, Sync!Init, Sync!NoGap, Sync!Passed

\* Writers: what is stored keeps its place, and what turns up in the window is late.
LEMMA SyncWriters ==
  ASSUME SyncSane, SyncInv, NEW m \in Lines, NEW u \in Chatters,
         Sync!Write(m, u) \/ Sync!Store(m) \/ Sync!Block(u) \/ Sync!Unblock(u)
  PROVE  SyncInv'
<1> USE DEF SyncInv
<1>1. CASE Sync!Write(m, u)
  <2>0. PICK n : n = [author |-> u, at |-> moment, stored |-> FALSE]
    OBVIOUS
  <2>1. /\ lines[m] = None /\ lines' = [lines EXCEPT ![m] = n]
        /\ UNCHANGED <<apart, seen, first, cursor, more, late, boundary, reacted, loaded, moment>>
    BY <1>1, <2>0 DEF Sync!Write, Sync!client, Sync!reaction
  <2>2. n \in Sync!Line /\ n.stored = FALSE
    BY <2>0 DEF Sync!Line, Sync!TypeOK
  <2>3. Sync!TypeOK'
    BY <2>1, <2>2 DEF Sync!TypeOK
  <2>4. Sync!Stored' = Sync!Stored /\ \A o \in Sync!Stored : lines'[o] = lines[o]
    BY <2>1, <2>2 DEF Sync!Stored, Sync!TypeOK
  <2>5. Sync!NoGap'
    BY <2>1, <2>4 DEF Sync!NoGap, Sync!Passed, Sync!Visible, Sync!Pos
  <2> QED
    BY <2>1, <2>3, <2>5
<1>2. CASE Sync!Store(m)
  <2>0. PICK n : n = [lines[m] EXCEPT !.stored = TRUE]
    OBVIOUS
  <2>1. /\ lines[m] # None /\ ~lines[m].stored /\ lines' = [lines EXCEPT ![m] = n]
        /\ late' = IF Sync!Passed(m) THEN late \cup {m} ELSE late
        /\ UNCHANGED <<apart, seen, first, cursor, more, boundary, reacted, loaded, moment>>
    BY <1>2, <2>0 DEF Sync!Store, Sync!reaction
  <2>2. n \in Sync!Line /\ n.stored /\ n.at = lines[m].at /\ n.author = lines[m].author
    <3>1. lines[m] \in Sync!Line
      BY <2>1 DEF Sync!TypeOK
    <3> QED
      BY <2>0, <3>1 DEF Sync!Line
  <2>3. Sync!TypeOK'
    BY <2>1, <2>2 DEF Sync!TypeOK
  <2>4. Sync!Stored' \subseteq Sync!Stored \cup {m} /\ \A o \in Lines : o # m => lines'[o] = lines[o]
    BY <2>1 DEF Sync!Stored, Sync!TypeOK
  <2>5. ASSUME NEW o \in Lines PROVE Sync!Pos(o)' = Sync!Pos(o)
    <3>1. CASE o = m
      BY <2>1, <2>2, <3>1 DEF Sync!Pos, Sync!TypeOK
    <3>2. CASE o # m
      BY <2>1, <3>2 DEF Sync!Pos, Sync!TypeOK
    <3> QED
      BY <3>1, <3>2
  <2>6. ASSUME NEW o \in Sync!Stored', Sync!Passed(o)', Sync!Visible(o)', o \notin late' PROVE o \in seen'
    <3>1. o \in Lines /\ Sync!Passed(o)
      BY <2>1, <2>5, <2>6 DEF Sync!Passed, Sync!Stored
    <3>2. o # m /\ o \in Sync!Stored
      BY <2>1, <2>4, <2>6, <3>1
    <3>3. Sync!Visible(o)
      BY <2>1, <2>4, <2>6, <3>1, <3>2 DEF Sync!Visible
    <3> QED
      BY <2>1, <2>6, <3>1, <3>2, <3>3 DEF Sync!NoGap
  <2> QED
    BY <2>1, <2>3, <2>6 DEF Sync!NoGap
<1>3. CASE Sync!Block(u)
  <2>1. apart' = apart \cup {u} /\ UNCHANGED <<lines, seen, first, cursor, more, late, boundary, reacted, loaded, moment>>
    BY <1>3 DEF Sync!Block, Sync!client, Sync!reaction
  <2>2. Sync!TypeOK'
    BY <2>1 DEF Sync!TypeOK
  <2>3. Sync!NoGap'
    BY <2>1 DEF Sync!NoGap, Sync!Stored, Sync!Passed, Sync!Visible, Sync!Pos
  <2> QED
    BY <2>1, <2>2, <2>3
<1>4. CASE Sync!Unblock(u)
  <2>1. /\ apart' = apart \ {u} /\ UNCHANGED <<lines, seen, first, cursor, more, boundary, reacted, loaded, moment>>
        /\ late' = late \cup {o \in Sync!Stored : lines[o].author = u /\ Sync!Passed(o)}
    BY <1>4 DEF Sync!Unblock, Sync!reaction
  <2>2. Sync!TypeOK'
    BY <2>1 DEF Sync!TypeOK, Sync!Stored
  <2>3. Sync!NoGap'
    BY <2>1 DEF Sync!NoGap, Sync!Stored, Sync!Passed, Sync!Visible, Sync!Pos
  <2> QED
    BY <2>1, <2>2, <2>3
<1> QED
  BY <1>1, <1>2, <1>3, <1>4

\* The newest page is all there is in its window.
LEMMA SyncLatest ==
  ASSUME SyncSane, SyncInv, Sync!Latest
  PROVE  SyncInv'
<1> DEFINE there == {m \in Sync!Stored : Sync!Visible(m)}
           page == Sync!Newest(there, PageLimit)
<1>1. /\ page # {} /\ seen' = page /\ first' = Sync!Bottom(page) /\ cursor' = Sync!Top(page)
      /\ more' = FALSE /\ late' = {} /\ UNCHANGED <<lines, apart, boundary, reacted, loaded, moment>>
  BY DEF Sync!Latest, Sync!Page, Sync!reaction
<1>2. there \subseteq Sync!Stored /\ page \subseteq there /\ Sync!Stored \subseteq Lines
  BY DEF Sync!Newest, Sync!Stored
<1> HIDE DEF page
<1>3. Sync!TypeOK
  BY DEF SyncInv
<1>4. PICK b \in page : Sync!Bottom(page) = Sync!Pos(b)
  BY <1>1, <1>2, <1>3, SyncEnds
<1>5. PICK t \in page : Sync!Top(page) = Sync!Pos(t)
  BY <1>1, <1>2, <1>3, SyncEnds
<1>6. first' \in Sync!Position /\ cursor' \in Sync!Position
  BY <1>1, <1>2, <1>3, <1>4, <1>5, SyncPositions
<1>7. Sync!TypeOK'
  BY <1>1, <1>2, <1>3, <1>6 DEF Sync!TypeOK
<1>8. ASSUME NEW m \in Sync!Stored, ~Sync!After(first', Sync!Pos(m)), Sync!Visible(m)
      PROVE  m \in page
  <2>1. CASE m = b
    BY <2>1
  <2>2. CASE m # b
    <3>1. Sync!After(Sync!Pos(m), Sync!Pos(b))
      BY <1>1, <1>2, <1>3, <1>4, <1>8, <2>2, SyncPositions, SyncOrder
    <3>2. <<m, b>> \in Younger
      BY <1>2, <1>8, <3>1 DEF Younger
    <3>3. page = Leading(there, Younger, PageLimit)
      BY <1>2, SyncPages DEF page
    <3>4. IsFiniteSet(there) /\ Ordered(there, Younger) /\ PageLimit \in Nat
      BY <1>2, <1>3, SyncOrdered DEF SyncSane
    <3>5. m \in there
      BY <1>8
    <3> QED
      BY <3>2, <3>3, <3>4, <3>5, LeadingClosed
  <2> QED
    BY <2>1, <2>2
<1>9. Sync!NoGap'
  <2>1. \A m \in Lines : Sync!Pos(m)' = Sync!Pos(m) /\ (Sync!Visible(m)' <=> Sync!Visible(m))
    BY <1>1 DEF Sync!Pos, Sync!Visible
  <2>2. Sync!Stored' = Sync!Stored
    BY <1>1 DEF Sync!Stored
  <2> QED
    BY <1>1, <1>2, <1>8, <2>1, <2>2 DEF Sync!NoGap, Sync!Passed
<1>10. first' # None /\ cursor' # None
  BY <1>6 DEF SyncSane
<1> QED
  BY <1>7, <1>9, <1>10 DEF SyncInv

\* A page of the catch-up is all there is between the cursor and its end, and all there
\* is beyond the cursor when the query found no more than it gives.
LEMMA SyncCatchUp ==
  ASSUME SyncSane, SyncInv, Sync!CatchUp
  PROVE  SyncInv' /\ (~more' => \A m \in Sync!Stored : Sync!Visible(m) /\ Sync!After(Sync!Pos(m), cursor) => m \in seen')
<1> DEFINE newer == {m \in {o \in Sync!Stored : Sync!Newer(o)} : Sync!Visible(m)}
           rows == Sync!Oldest(newer, PageLimit + 1)
           items == Sync!Oldest(rows, PageLimit)
<1>1. /\ cursor # None /\ seen' = seen \cup items
      /\ cursor' = (IF items = {} THEN cursor ELSE Sync!Top(items))
      /\ more' = (Sync!Cardinality(rows) > PageLimit)
      /\ UNCHANGED <<first, late, lines, apart, boundary, reacted, loaded, moment>>
  BY DEF Sync!CatchUp, Sync!Page, Sync!reaction
<1>2. newer \subseteq Sync!Stored /\ rows \subseteq newer /\ items \subseteq rows /\ Sync!Stored \subseteq Lines
  BY DEF Sync!Oldest, Sync!Stored
<1>3. rows = Leading(newer, Older, PageLimit + 1) /\ items = Leading(rows, Older, PageLimit)
  <2> HIDE DEF rows
  <2>1. items = Leading(rows, Older, PageLimit)
    BY <1>2, SyncPages
  <2>2. rows = Leading(newer, Older, PageLimit + 1)
    BY <1>2, SyncPages DEF rows
  <2> QED
    BY <2>1, <2>2
<1>4. \A m \in Sync!Stored : Sync!Visible(m) /\ Sync!After(Sync!Pos(m), cursor) => m \in newer
  BY DEF Sync!Newer
<1> HIDE DEF newer, rows, items
<1>5. Sync!TypeOK /\ PageLimit \in Nat /\ PageLimit + 1 \in Nat
  BY DEF SyncInv, SyncSane
<1>6. /\ IsFiniteSet(newer) /\ Ordered(newer, Older)
      /\ IsFiniteSet(rows) /\ Ordered(rows, Older)
  <2>1. rows \subseteq Sync!Stored
    BY <1>2
  <2> QED
    BY <1>2, <1>5, <2>1, SyncOrdered
<1>7. ASSUME ~more', NEW m \in newer PROVE m \in items
  <2>1. ~(Cardinality(rows) > PageLimit)
    BY <1>1, <1>7, SyncCounts
  <2>2. rows = newer /\ Leading(newer, Older, PageLimit) = newer
    BY <1>3, <1>5, <1>6, <2>1, LeadingAll
  <2> QED
    BY <1>3, <1>7, <2>2
<1>8. items # {} => \E t \in items : Sync!Top(items) = Sync!Pos(t)
  <2>1. items \subseteq Sync!Stored
    BY <1>2
  <2> QED
    BY <1>5, <2>1, SyncEnds
<1>9. cursor' \in Sync!Position /\ cursor' # None
  <2>1. cursor \in Sync!Position
    BY <1>1, <1>5 DEF Sync!TypeOK
  <2>2. items # {} => Sync!Top(items) \in Sync!Position
    BY <1>2, <1>5, <1>8, SyncPositions
  <2>3. cursor' \in Sync!Position
    BY <1>1, <2>1, <2>2
  <2> QED
    BY <2>3 DEF SyncSane
<1>10. Sync!TypeOK'
  <2>1. more' \in BOOLEAN
    BY <1>1
  <2>2. seen' \subseteq Lines
    BY <1>1, <1>2, <1>5 DEF Sync!TypeOK
  <2> QED
    BY <1>1, <1>5, <1>9, <2>1, <2>2 DEF Sync!TypeOK
<1>11. ASSUME NEW m \in newer, NEW t \in items, ~Sync!After(Sync!Pos(m), Sync!Pos(t))
       PROVE  m \in items
  <2>1. m \in Sync!Stored /\ t \in Sync!Stored /\ t \in newer /\ t \in rows
    BY <1>2
  <2>2. CASE m = t
    BY <2>2
  <2>3. CASE m # t
    <3>1. Sync!After(Sync!Pos(t), Sync!Pos(m))
      BY <1>5, <1>11, <2>1, <2>3, SyncPositions, SyncOrder
    <3>2. <<m, t>> \in Older
      BY <2>1, <3>1 DEF Older
    <3>3. m \in rows
      BY <1>3, <1>5, <1>6, <2>1, <3>2, LeadingClosed
    <3> QED
      BY <1>3, <1>5, <1>6, <3>2, <3>3, LeadingClosed
  <2> QED
    BY <2>2, <2>3
<1>12. ASSUME NEW m \in Sync!Stored, first # None, ~Sync!After(first, Sync!Pos(m)), ~Sync!After(Sync!Pos(m), cursor'),
              Sync!Visible(m), m \notin late
       PROVE  m \in seen'
  <2>1. CASE ~Sync!After(Sync!Pos(m), cursor)
    BY <1>1, <1>12, <2>1 DEF SyncInv, Sync!NoGap, Sync!Passed
  <2>2. CASE Sync!After(Sync!Pos(m), cursor)
    <3>1. m \in newer
      BY <1>4, <1>12, <2>2
    <3>2. items # {} /\ cursor' = Sync!Top(items)
      BY <1>1, <1>12, <2>2
    <3>3. PICK t \in items : cursor' = Sync!Pos(t)
      BY <1>8, <3>2
    <3> QED
      BY <1>1, <1>11, <1>12, <3>1, <3>3
  <2> QED
    BY <2>1, <2>2
<1>13. Sync!NoGap'
  <2>1. \A m \in Lines : Sync!Pos(m)' = Sync!Pos(m) /\ (Sync!Visible(m)' <=> Sync!Visible(m))
    BY <1>1 DEF Sync!Pos, Sync!Visible
  <2>2. Sync!Stored' = Sync!Stored
    BY <1>1 DEF Sync!Stored
  <2> QED
    BY <1>1, <1>2, <1>12, <2>1, <2>2 DEF Sync!NoGap, Sync!Passed
<1> QED
  BY <1>1, <1>4, <1>7, <1>9, <1>10, <1>13 DEF SyncInv

\* A page of the history is all there is between its beginning and the window.
LEMMA SyncBefore ==
  ASSUME SyncSane, SyncInv, Sync!Before
  PROVE  SyncInv'
<1> DEFINE older == {m \in {o \in Sync!Stored : Sync!After(first, Sync!Pos(o))} : Sync!Visible(m)}
           page == Sync!Newest(older, PageLimit)
<1>1. /\ first # None /\ page # {} /\ seen' = seen \cup page /\ first' = Sync!Bottom(page)
      /\ UNCHANGED <<lines, apart, cursor, more, late, boundary, reacted, loaded, moment>>
  BY DEF Sync!Before, Sync!Page, Sync!reaction
<1>2. older \subseteq Sync!Stored /\ page \subseteq older /\ Sync!Stored \subseteq Lines
  BY DEF Sync!Newest, Sync!Stored
<1>3. Sync!TypeOK /\ PageLimit \in Nat
  BY DEF SyncInv, SyncSane
<1>4. page = Leading(older, Younger, PageLimit) /\ IsFiniteSet(older) /\ Ordered(older, Younger)
  BY <1>2, <1>3, SyncPages, SyncOrdered
<1>5. \A m \in Sync!Stored : Sync!Visible(m) /\ Sync!After(first, Sync!Pos(m)) => m \in older
  OBVIOUS
<1> HIDE DEF older, page
<1>6. PICK b \in page : Sync!Bottom(page) = Sync!Pos(b)
  <2>1. page \subseteq Sync!Stored
    BY <1>2
  <2> QED
    BY <1>1, <1>3, <2>1, SyncEnds
<1>7. first' \in Sync!Position /\ first' # None
  <2>1. first' \in Sync!Position
    BY <1>1, <1>2, <1>3, <1>6, SyncPositions
  <2> QED
    BY <2>1 DEF SyncSane
<1>8. Sync!TypeOK'
  BY <1>1, <1>2, <1>3, <1>7 DEF Sync!TypeOK
<1>9. ASSUME NEW m \in older, ~Sync!After(Sync!Pos(b), Sync!Pos(m)) PROVE m \in page
  <2>1. CASE m = b
    BY <2>1
  <2>2. CASE m # b
    <3>1. m \in Sync!Stored /\ b \in Sync!Stored
      BY <1>2
    <3>2. Sync!After(Sync!Pos(m), Sync!Pos(b))
      BY <1>3, <1>9, <2>2, <3>1, SyncPositions, SyncOrder
    <3>3. <<m, b>> \in Younger
      BY <3>1, <3>2 DEF Younger
    <3> QED
      BY <1>3, <1>4, <3>3, LeadingClosed
  <2> QED
    BY <2>1, <2>2
<1>10. ASSUME NEW m \in Sync!Stored, ~Sync!After(first', Sync!Pos(m)), ~Sync!After(Sync!Pos(m), cursor),
              Sync!Visible(m), m \notin late
       PROVE  m \in seen'
  <2>1. CASE ~Sync!After(first, Sync!Pos(m))
    BY <1>1, <1>10, <2>1 DEF SyncInv, Sync!NoGap, Sync!Passed
  <2>2. CASE Sync!After(first, Sync!Pos(m))
    BY <1>1, <1>5, <1>6, <1>9, <1>10, <2>2
  <2> QED
    BY <2>1, <2>2
<1>11. Sync!NoGap'
  <2>1. \A m \in Lines : Sync!Pos(m)' = Sync!Pos(m) /\ (Sync!Visible(m)' <=> Sync!Visible(m))
    BY <1>1 DEF Sync!Pos, Sync!Visible
  <2>2. Sync!Stored' = Sync!Stored
    BY <1>1 DEF Sync!Stored
  <2> QED
    BY <1>1, <1>2, <1>10, <2>1, <2>2 DEF Sync!NoGap, Sync!Passed
<1> QED
  BY <1>1, <1>7, <1>8, <1>11 DEF SyncInv

\* The inbox, the reactions and the clock touch no window.
LEMMA SyncElse ==
  ASSUME SyncSane, SyncInv,
         \/ \E at \in Sync!Moments : Sync!MarkInboxRead(at)
         \/ \E m \in Lines : Sync!LoadMessage(m)
         \/ \E put \in BOOLEAN : Sync!React(put)
         \/ Sync!Tick
         \/ UNCHANGED Sync!vars
  PROVE  SyncInv'
<1>1. UNCHANGED <<lines, apart, seen, first, cursor, more, late>>
  BY DEF Sync!MarkInboxRead, Sync!LoadMessage, Sync!React, Sync!Tick, Sync!vars, Sync!client, Sync!reaction
<1>2. Sync!NoGap'
  BY <1>1 DEF SyncInv, Sync!NoGap, Sync!Stored, Sync!Passed, Sync!Visible, Sync!Pos
<1>3. boundary' \in Sync!Moments /\ moment' \in Sync!Moments
  <2>1. boundary \in Sync!Moments /\ moment \in Sync!Moments
    BY DEF SyncInv, Sync!TypeOK
  <2>2. ASSUME NEW at \in Sync!Moments, Sync!MarkInboxRead(at)
        PROVE  boundary' \in Sync!Moments /\ moment' \in Sync!Moments
    BY <2>1, <2>2 DEF Sync!MarkInboxRead, Sync!Advanced
  <2>3. ASSUME Sync!Tick PROVE boundary' \in Sync!Moments /\ moment' \in Sync!Moments
    BY <2>1, <2>3 DEF Sync!Tick, Sync!Moments, SyncSane
  <2>4. ASSUME (\E m \in Lines : Sync!LoadMessage(m)) \/ (\E put \in BOOLEAN : Sync!React(put)) \/ UNCHANGED Sync!vars
        PROVE  boundary' \in Sync!Moments /\ moment' \in Sync!Moments
    BY <2>1, <2>4 DEF Sync!LoadMessage, Sync!React, Sync!vars
  <2> QED
    BY <2>2, <2>3, <2>4
<1>4. reacted' \subseteq Lines /\ loaded' \in Lines \cup {None}
  <2>1. reacted \subseteq Lines /\ loaded \in Lines \cup {None}
    BY DEF SyncInv, Sync!TypeOK
  <2> QED
    BY <2>1 DEF Sync!MarkInboxRead, Sync!LoadMessage, Sync!React, Sync!Tick, Sync!vars, Sync!reaction
<1>5. Sync!TypeOK'
  BY <1>1, <1>3, <1>4 DEF SyncInv, Sync!TypeOK
<1> QED
  BY <1>1, <1>2, <1>5 DEF SyncInv

\* Every step keeps the invariant.
LEMMA SyncStep ==
  ASSUME SyncSane, SyncInv, [Sync!Next]_(Sync!vars)
  PROVE  SyncInv'
<1>1. ASSUME Sync!GetGroupMessages PROVE SyncInv'
  BY <1>1, SyncLatest, SyncCatchUp, SyncBefore DEF Sync!GetGroupMessages
<1>2. ASSUME NEW m \in Lines, NEW u \in Chatters,
             Sync!Write(m, u) \/ Sync!Store(m) \/ Sync!Block(u) \/ Sync!Unblock(u)
      PROVE  SyncInv'
  BY <1>2, SyncWriters
<1>3. ASSUME NEW m \in Lines, Sync!Store(m) PROVE SyncInv'
  <2>1. lines[m] \in Sync!Line
    BY <1>3 DEF Sync!Store, SyncInv, Sync!TypeOK
  <2>2. PICK u \in Chatters : TRUE
    BY <2>1 DEF Sync!Line
  <2> QED
    BY <1>2, <1>3, <2>2
<1>4. ASSUME NEW u \in Chatters, Sync!Block(u) \/ Sync!Unblock(u), Lines = {} PROVE SyncInv'
  BY <1>4 DEF Sync!Block, Sync!Unblock, SyncInv, Sync!TypeOK, Sync!NoGap, Sync!Stored, Sync!client, Sync!reaction
<1>5. ASSUME NEW m \in Lines, Sync!LoadMessage(m) PROVE SyncInv'
  BY <1>5, SyncElse
<1>6. CASE Sync!Tick \/ (\E at \in Sync!Moments : Sync!MarkInboxRead(at)) \/ (\E put \in BOOLEAN : Sync!React(put))
           \/ UNCHANGED Sync!vars
  BY <1>6, SyncElse
<1>7. ASSUME NEW u \in Chatters, Sync!Block(u) \/ Sync!Unblock(u) PROVE SyncInv'
  BY <1>2, <1>4, <1>7
<1> QED
  BY <1>1, <1>2, <1>3, <1>5, <1>6, <1>7 DEF Sync!Next

\* Whatever is written, hidden and there between two pages, the pages of a client have
\* no gap but for what was stored or there again behind it (messages.go).
THEOREM PagesHaveNoGap == ASSUME SyncSane PROVE Sync!Spec => []Sync!NoGap
<1>1. Sync!Init => SyncInv
  BY SyncInitial
<1>2. SyncInv /\ [Sync!Next]_(Sync!vars) => SyncInv'
  BY SyncStep
<1>3. SyncInv => Sync!NoGap
  BY DEF SyncInv
<1> QED
  BY <1>1, <1>2, <1>3, PTL DEF Sync!Spec

\* A client that is told that there is no next page has all there is (messages.go).
THEOREM TheEndIsTheEnd == ASSUME SyncSane PROVE Sync!Spec => Sync!EndIsTheEnd
<1> DEFINE End == Sync!CatchUp /\ ~more' => \A m \in Sync!Stored : Sync!Visible(m) /\ Sync!After(Sync!Pos(m), cursor) => m \in seen'
<1>1. Sync!Init => SyncInv
  BY SyncInitial
<1>2. SyncInv /\ [Sync!Next]_(Sync!vars) => SyncInv'
  BY SyncStep
<1>3. SyncInv /\ [Sync!Next]_(Sync!vars) => [End]_(Sync!vars)
  BY SyncCatchUp
<1> QED
  BY <1>1, <1>2, <1>3, PTL DEF Sync!Spec, Sync!EndIsTheEnd

\* What was read stays read, in whatever order the requests that mark it come
\* (groups/membership.go).
THEOREM WhatIsReadStaysRead == ASSUME SyncSane PROVE Sync!Spec => Sync!ReadStaysRead
<1> DEFINE Stays == \A m \in Sync!Unread' \ Sync!Unread : m \notin Sync!Stored \/ ~Sync!Visible(m)
<1>1. Sync!Init => SyncInv
  BY SyncInitial
<1>2. SyncInv /\ [Sync!Next]_(Sync!vars) => SyncInv'
  BY SyncStep
<1>3. ASSUME SyncInv, Sync!Next PROVE Stays
  <2>1. ASSUME NEW m \in Sync!Stored PROVE lines'[m].at = lines[m].at
    <3>1. m \in Lines /\ lines[m] \in Sync!Line /\ lines[m].stored
      BY <1>3 DEF Sync!Stored, SyncInv, Sync!TypeOK
    <3>2. \A o \in Lines, u \in Chatters : Sync!Write(o, u) => o # m
      BY <1>3, <3>1 DEF Sync!Write, SyncSane
    <3>3. \A o \in Lines : Sync!Store(o) => o # m
      BY <3>1 DEF Sync!Store
    <3>4. lines'[m] = lines[m]
      BY <1>3, <3>1, <3>2, <3>3
         DEF Sync!Next, Sync!Write, Sync!Store, Sync!LoadMessage, Sync!Block, Sync!Unblock, Sync!GetGroupMessages,
             Sync!Latest, Sync!CatchUp, Sync!Before, Sync!MarkInboxRead, Sync!React, Sync!Tick, SyncInv, Sync!TypeOK
    <3> QED
      BY <3>4
  <2>2. boundary' >= boundary
    <3>1. boundary \in Nat /\ Sync!Moments \subseteq Nat
      BY <1>3 DEF SyncInv, Sync!TypeOK, Sync!Moments, SyncSane
    <3>2. ASSUME NEW at \in Sync!Moments, Sync!MarkInboxRead(at) PROVE boundary' >= boundary
      BY <3>1, <3>2 DEF Sync!MarkInboxRead, Sync!Advanced
    <3>3. ASSUME ~ \E at \in Sync!Moments : Sync!MarkInboxRead(at) PROVE boundary' = boundary
      BY <1>3, <3>3
         DEF Sync!Next, Sync!Write, Sync!Store, Sync!LoadMessage, Sync!Block, Sync!Unblock, Sync!GetGroupMessages,
             Sync!Latest, Sync!CatchUp, Sync!Before, Sync!React, Sync!Tick
    <3> QED
      BY <3>1, <3>2, <3>3
  <2>3. ASSUME NEW m \in Sync!Stored, m \in Sync!Unread', Sync!Visible(m) PROVE m \in Sync!Unread
    <3>1. lines'[m].at > boundary'
      BY <2>3 DEF Sync!Unread
    <3>2. boundary \in Nat /\ boundary' \in Nat /\ lines[m].at \in Nat
      <4>1. Sync!Moments \subseteq Nat
        BY DEF Sync!Moments, SyncSane
      <4>2. boundary \in Sync!Moments /\ boundary' \in Sync!Moments
        BY <1>2, <1>3 DEF SyncInv, Sync!TypeOK
      <4>3. lines[m] \in Sync!Line
        BY <1>3 DEF Sync!Stored, SyncInv, Sync!TypeOK
      <4> QED
        BY <4>1, <4>2, <4>3 DEF Sync!Line
    <3>3. lines[m].at > boundary
      BY <2>1, <2>2, <3>1, <3>2
    <3> QED
      BY <2>3, <3>3 DEF Sync!Unread
  <2> QED
    BY <2>3
<1>4. SyncInv /\ [Sync!Next]_(Sync!vars) => [Stays]_(Sync!vars)
  BY <1>3
<1> QED
  BY <1>1, <1>2, <1>4, PTL DEF Sync!Spec, Sync!ReadStaysRead

\* A reaction that was authorised before a block changes nothing after it (reactions.go).
THEOREM ReactionsStopAtBlocks == Sync!Spec => Sync!NoReactionAcrossBlock
<1> DEFINE Stops == \A m \in (reacted' \ reacted) \cup (reacted \ reacted') : Sync!Visible(m)
<1>1. ASSUME Sync!Next PROVE Stops
  <2>1. ASSUME NEW put \in BOOLEAN, Sync!React(put) PROVE Stops
    BY <2>1 DEF Sync!React, Sync!Reactable
  <2>2. ASSUME ~ \E put \in BOOLEAN : Sync!React(put) PROVE reacted' = reacted
    BY <1>1, <2>2
       DEF Sync!Next, Sync!Write, Sync!Store, Sync!LoadMessage, Sync!Block, Sync!Unblock, Sync!GetGroupMessages,
           Sync!Latest, Sync!CatchUp, Sync!Before, Sync!MarkInboxRead, Sync!Tick, Sync!reaction
  <2> QED
    BY <2>1, <2>2
<1>2. [Sync!Next]_(Sync!vars) => [Stops]_(Sync!vars)
  BY <1>1
<1> QED
  BY <1>2, PTL DEF Sync!Spec, Sync!NoReactionAcrossBlock

-----------------------------------------------------------------------------
(* ChatClient: the chat of a tab, its socket, its catch-up and its older pages. *)

CONSTANTS Groups, CatchUpLimit, MaxLines
VARIABLES posted, group, generation, phase, timers, socks, wire, ref, anchor, synced, fetches, caught, log, hints,
  cache, scrollable, older, loading, visit, confirmed, slips
Tab == INSTANCE ChatClient WITH turn <- generation, more <- scrollable

\* A page holds one message at least, and None is no page.
TabSane ==
  /\ PageSize \in Nat \ {0} /\ CatchUpLimit \in Nat \ {0} /\ MaxLines \in Nat /\ MaxTurn \in Nat \ {0}
  /\ None \notin Tab!Page

TabTypes ==
  /\ posted \in Seq(Groups) /\ Len(posted) <= MaxLines /\ group \in Groups
  /\ generation \in 1..MaxTurn /\ visit \in 1..generation
  /\ phase \in {"connecting", "opening", "connected", "offline", "refused"}
  /\ wire \subseteq Tab!Turns \X Tab!Lines /\ ref \in 0..MaxLines /\ ref <= Len(posted) /\ anchor \in 0..MaxLines
  /\ fetches \subseteq Tab!Fetch /\ older \subseteq Tab!Older
  /\ cache \in [Groups -> SUBSET Tab!Lines]
  /\ synced \in BOOLEAN /\ caught \in BOOLEAN /\ scrollable \in BOOLEAN /\ loading \in BOOLEAN /\ confirmed \in BOOLEAN

\* One socket, of this generation, or one timer, or neither; what is on the wire is for it.
TabConnected ==
  /\ phase \in {"connecting", "refused"} => socks = {} /\ timers = 0
  /\ phase = "offline" => socks = {} /\ timers = 1
  /\ phase \in {"opening", "connected"} =>
       timers = 0 /\ \E s \in Tab!Sock : socks = {s} /\ s.turn = generation /\ s.group = group
  /\ phase \notin {"opening", "connected"} => wire = {}
  /\ \A w \in wire : w[1] = generation /\ w[2] \in Tab!Of(group)

\* What is shown and cached belongs to its group.
TabBelongs ==
  /\ log \subseteq Tab!Of(group) /\ hints \subseteq log
  /\ \A g \in Groups : cache[g] \subseteq Tab!Of(g)
  /\ confirmed => synced
  /\ \A o \in older : o.visit <= visit

\* A page is a stretch of its group's messages, after its cursor or up to the newest.
PageSound(f) ==
  LET p == f.page IN
  /\ p.items \subseteq Tab!Of(f.group) /\ p.stable = Tab!Top(p.items) /\ p.next \in {0, p.stable}
  /\ \A m \in Tab!Of(f.group) : m <= p.stable /\ (f.cursor # 0 => m > f.cursor) /\ (f.cursor = 0 => \E o \in p.items : o <= m)
       => m \in p.items
  /\ f.cursor # 0 => \A m \in p.items : m > f.cursor
  /\ f.first /\ ~Tab!Full(p.items) => \A m \in Tab!Of(f.group) : m <= p.stable => m \in p.items

Present(f) == f.turn = generation

TabFetches ==
  /\ \A f \in fetches :
       /\ f.turn <= generation
       /\ Present(f) => f.group = group /\ synced /\ phase \notin {"connecting", "opening"}
       /\ Present(f) /\ f.first => ~confirmed
       /\ f.first => f.cursor = 0 /\ f.limit = PageSize
       /\ f.page # None => PageSound(f)
  /\ \A e, f \in fetches : Present(e) /\ Present(f) => e = f

\* What was posted since a last page was served is here or on its way.
Awaited(f) ==
  phase = "connected" /\ Present(f) /\ f.page # None /\ f.page.next = 0 /\ f.page.stable # 0 =>
    \A m \in Tab!Of(group) : m > f.page.stable => m \in (log \ hints) \cup Tab!Wired(generation)

\* The stream has everything from its oldest message to the cursor, and what comes
\* beyond the cursor once the catch-up has drained.
Stretch ==
  /\ log # {} /\ hints = {} /\ Tab!Min(log) <= ref
  /\ \A m \in Tab!Of(group) : Tab!Min(log) <= m /\ m <= ref => m \in log
  /\ \A m \in Tab!Wired(generation) : Tab!Min(log) <= m
  /\ phase = "connected" /\ caught => \A m \in Tab!Of(group) : m > ref => m \in log \cup Tab!Wired(generation)
  /\ ~scrollable => \A m \in Tab!Of(group) : Tab!Min(log) <= m

TabFresh ==
  /\ synced /\ phase \in {"connecting", "opening"} => anchor = ref
  /\ \A f \in fetches : (Present(f) /\ ~f.first => f.cursor = ref) /\ Awaited(f)
  /\ scrollable => confirmed
  /\ \A o \in older : o.visit = visit => confirmed /\ o.group = group /\ o.before = Tab!Min(log)
  /\ confirmed => Stretch

\* A catch-up has not drained before it began.
TabBegun == phase \in {"connecting", "opening"} => ~caught

TabInv == TabTypes /\ TabConnected /\ TabBegun /\ TabBelongs /\ TabFetches /\ (slips = {} => TabFresh)

\* The module's own count is the library's.
LEMMA TabCounts == \A S : Tab!Cardinality(S) = Cardinality(S)
  BY DEF Tab!Cardinality, Cardinality, Tab!IsFiniteSet, IsFiniteSet

\* Numbers in their order, from either end.
Low == {p \in Nat \X Nat : p[1] < p[2]}
High == {p \in Nat \X Nat : p[1] > p[2]}

LEMMA TabOrdered ==
  ASSUME NEW S \in SUBSET Nat
  PROVE  Ordered(S, Low) /\ Ordered(S, High)
<1>1. Ordered(S, Low)
  BY DEF Ordered, Low
<1>2. Ordered(S, High)
  BY DEF Ordered, High
<1> QED
  BY <1>1, <1>2

\* What was posted in a group is a finite set of numbers.
LEMMA TabPosted ==
  ASSUME TabSane, TabTypes, NEW g
  PROVE  /\ Tab!Of(g) \subseteq Nat \ {0} /\ Tab!Of(g) \subseteq Tab!Lines /\ IsFiniteSet(Tab!Of(g))
         /\ \A m \in Tab!Of(g) : m <= Len(posted)
<1>1. Len(posted) \in Nat /\ Len(posted) <= MaxLines /\ MaxLines \in Nat
  BY DEF TabTypes, TabSane
<1>2. Tab!Of(g) \subseteq 1..Len(posted)
  BY DEF Tab!Of
<1>3. IsFiniteSet(1..Len(posted))
  BY <1>1, FS_Interval
<1>4. IsFiniteSet(Tab!Of(g))
  BY <1>2, <1>3, FS_Subset
<1>5. ASSUME NEW m \in Tab!Of(g) PROVE m \in Nat \ {0} /\ m \in 1..MaxLines /\ m <= Len(posted)
  BY <1>1, <1>2
<1> QED
  BY <1>4, <1>5 DEF Tab!Lines

\* The least and the greatest of a set of numbers.
LEMMA TabLeast ==
  ASSUME NEW S \in SUBSET Nat, IsFiniteSet(S), S # {}
  PROVE  /\ Tab!Min(S) \in S /\ \A m \in S : Tab!Min(S) <= m
         /\ Tab!Max(S) \in S /\ \A m \in S : m <= Tab!Max(S)
         /\ Tab!Top(S) = Tab!Max(S)
<1>1. \E x \in S : \A y \in S : x <= y
  <2>1. PICK x \in S : \A y \in S : <<y, x>> \notin Low
    BY TabOrdered, SomebodyLeads
  <2>2. ASSUME NEW y \in S PROVE x <= y
    <3>1. x \in Nat /\ y \in Nat /\ ~(y < x)
      BY <2>1 DEF Low
    <3> QED
      BY <3>1
  <2> QED
    BY <2>2
<1>2. \E x \in S : \A y \in S : x >= y
  <2>1. PICK x \in S : \A y \in S : <<y, x>> \notin High
    BY TabOrdered, SomebodyLeads
  <2>2. ASSUME NEW y \in S PROVE x >= y
    <3>1. x \in Nat /\ y \in Nat /\ ~(y > x)
      BY <2>1 DEF High
    <3> QED
      BY <3>1
  <2> QED
    BY <2>2
<1>3. Tab!Min(S) \in S /\ \A m \in S : Tab!Min(S) <= m
  BY <1>1 DEF Tab!Min
<1>4. Tab!Max(S) \in S /\ \A m \in S : Tab!Max(S) >= m
  BY <1>2 DEF Tab!Max
<1>5. \A m \in S : m <= Tab!Max(S)
  BY <1>4
<1>6. Tab!Top(S) = Tab!Max(S)
  BY DEF Tab!Top
<1> QED
  BY <1>3, <1>4, <1>5, <1>6

LEMMA TabLeastIs ==
  ASSUME NEW S \in SUBSET Nat, IsFiniteSet(S), NEW x \in S, \A m \in S : x <= m
  PROVE  Tab!Min(S) = x
<1>1. Tab!Min(S) \in S /\ Tab!Min(S) <= x /\ x <= Tab!Min(S)
  BY TabLeast
<1>2. Tab!Min(S) \in Nat /\ x \in Nat
  BY <1>1
<1> QED
  BY <1>1, <1>2

\* The rows of a query are the first ones from either end.
LEMMA TabRows ==
  ASSUME NEW S \in SUBSET Nat, NEW n
  PROVE  Tab!Oldest(S, n) = Leading(S, Low, n) /\ Tab!Newest(S, n) = Leading(S, High, n)
<1>1. ASSUME NEW m \in S
      PROVE  {o \in S : o < m} = Leaders(m, S, Low) /\ {o \in S : o > m} = Leaders(m, S, High)
  BY DEF Leaders, Low, High
<1> QED
  BY <1>1, TabCounts DEF Tab!Oldest, Tab!Newest, Leading

\* The newest n are everything from the oldest of them on, and everything there is when
\* they are fewer than n.
LEMMA TabNewest ==
  ASSUME NEW S \in SUBSET Nat, IsFiniteSet(S), NEW n \in Nat \ {0}
  PROVE  /\ Tab!Newest(S, n) \subseteq S
         /\ \A m \in S, o \in Tab!Newest(S, n) : o <= m => m \in Tab!Newest(S, n)
         /\ ~(Cardinality(Tab!Newest(S, n)) >= n) => Tab!Newest(S, n) = S
         /\ S # {} => Tab!Newest(S, n) # {}
<1>1. Tab!Newest(S, n) = Leading(S, High, n) /\ Ordered(S, High) /\ n \in Nat
  BY TabRows, TabOrdered
<1>2. ASSUME NEW m \in S, NEW o \in Tab!Newest(S, n), o <= m PROVE m \in Tab!Newest(S, n)
  <2>1. CASE m = o
    BY <1>2, <2>1
  <2>2. CASE m # o
    <3>1. o \in S
      BY DEF Tab!Newest
    <3>2. <<m, o>> \in High
      BY <1>2, <2>2, <3>1 DEF High
    <3> QED
      BY <1>1, <3>2, LeadingClosed
  <2> QED
    BY <2>1, <2>2
<1>3. ASSUME ~(Cardinality(Tab!Newest(S, n)) >= n) PROVE Tab!Newest(S, n) = S
  <2>1. PICK k \in Nat : n = k + 1
    <3>1. n - 1 \in Nat /\ n = (n - 1) + 1
      OBVIOUS
    <3> QED
      BY <3>1
  <2>2. IsFiniteSet(Tab!Newest(S, n))
    BY FS_Subset DEF Tab!Newest
  <2>3. ~(Cardinality(Leading(S, High, k + 1)) > k)
    BY <1>1, <1>3, <2>1, <2>2, FS_CardinalityType
  <2> QED
    BY <1>1, <2>1, <2>3, LeadingAll
<1>4. S # {} => Tab!Newest(S, n) # {}
  BY <1>1, LeadingSome
<1> QED
  BY <1>2, <1>3, <1>4 DEF Tab!Newest

\* The oldest n are everything up to the newest of them; and when a query for one more
\* found no more, they are everything.
LEMMA TabOldest ==
  ASSUME NEW S \in SUBSET Nat, IsFiniteSet(S), NEW n \in Nat \ {0},
         NEW rows, rows = Tab!Oldest(S, n + 1), NEW items, items = Tab!Oldest(rows, n)
  PROVE  /\ items \subseteq S
         /\ \A m \in S, o \in items : m <= o => m \in items
         /\ rows = items => items = S
<1>1. rows \subseteq S /\ items \subseteq rows
  BY DEF Tab!Oldest
<1>2. IsFiniteSet(rows) /\ rows \in SUBSET Nat
  BY <1>1, FS_Subset
<1>3. rows = Leading(S, Low, n + 1) /\ items = Leading(rows, Low, n) /\ Ordered(S, Low) /\ Ordered(rows, Low)
      /\ n \in Nat /\ n + 1 \in Nat
  BY <1>2, TabRows, TabOrdered
<1>4. ASSUME NEW m \in S, NEW o \in items, m <= o PROVE m \in items
  <2>1. CASE m = o
    BY <2>1
  <2>2. CASE m # o
    <3>1. o \in S /\ o \in rows
      BY <1>1
    <3>2. <<m, o>> \in Low
      BY <1>4, <2>2, <3>1 DEF Low
    <3>3. m \in rows
      BY <1>3, <3>1, <3>2, LeadingClosed
    <3> QED
      BY <1>2, <1>3, <3>2, <3>3, LeadingClosed
  <2> QED
    BY <2>1, <2>2
<1>5. ASSUME rows = items PROVE items = S
  <2>1. ~(Cardinality(rows) > n)
    <3>1. CASE rows = {}
      BY <1>3, <3>1, FS_EmptySet
    <3>2. CASE rows # {}
      <4>1. PICK x \in rows : \A y \in rows : y <= x
        BY <1>2, <3>2, TabLeast
      <4>2. Leaders(x, rows, Low) = rows \ {x}
        <5>1. ASSUME NEW y \in rows, y # x PROVE <<y, x>> \in Low
          <6>1. y \in Nat /\ x \in Nat /\ y <= x
            BY <1>2, <4>1
          <6> QED
            BY <5>1, <6>1 DEF Low
        <5>2. <<x, x>> \notin Low
          BY <1>3 DEF Ordered
        <5> QED
          BY <5>1, <5>2 DEF Leaders
      <4>3. Cardinality(rows \ {x}) = Cardinality(rows) - 1 /\ Cardinality(rows) \in Nat
        BY <1>2, <4>1, FS_RemoveElement, FS_CardinalityType
      <4>4. Cardinality(rows \ {x}) < n
        BY <1>3, <1>5, <4>1, <4>2 DEF Leading
      <4> QED
        BY <1>3, <4>3, <4>4
    <3> QED
      BY <3>1, <3>2
  <2> QED
    BY <1>3, <1>5, <2>1, LeadingAll
<1> QED
  BY <1>1, <1>4, <1>5

\* What the server answers is such a stretch, and a last page that is not empty reaches
\* to the end of the group's messages.
LEMMA PageIsSound ==
  ASSUME TabSane, TabTypes, NEW f \in Tab!Fetch, f.first => f.cursor = 0 /\ f.limit = PageSize,
         NEW page, page = Tab!PageAfter(f.group, f.cursor, f.limit)
  PROVE  /\ page \in Tab!Page /\ PageSound([f EXCEPT !.page = page])
         /\ page.next = 0 /\ page.stable # 0 => \A m \in Tab!Of(f.group) : m <= page.stable
<1> DEFINE S == Tab!Of(f.group)
           T == {m \in S : m > f.cursor}
           rows == IF f.cursor = 0 THEN Tab!Newest(S, f.limit) ELSE Tab!Oldest(T, f.limit + 1)
           items == IF f.cursor = 0 THEN rows ELSE Tab!Oldest(rows, f.limit)
<1>1. f.cursor \in Nat /\ f.limit \in Nat \ {0} /\ MaxLines \in Nat
  BY DEF Tab!Fetch, TabSane
<1>2. S \in SUBSET Nat /\ S \subseteq Nat \ {0} /\ S \subseteq Tab!Lines /\ IsFiniteSet(S)
  BY TabPosted
<1>3. T \in SUBSET Nat /\ T \subseteq S /\ IsFiniteSet(T)
  BY <1>2, FS_Subset
<1>4. page = [items |-> items, next |-> IF rows = items THEN 0 ELSE Tab!Top(items), stable |-> Tab!Top(items)]
  BY DEF Tab!PageAfter
<1>5. /\ items \subseteq S
      /\ \A m \in S, o \in items : (f.cursor = 0 /\ o <= m) \/ (f.cursor # 0 /\ m > f.cursor /\ m <= o) => m \in items
      /\ f.cursor # 0 => items \subseteq T
      /\ rows = items /\ f.cursor # 0 => items = T
      /\ f.cursor = 0 => rows = items /\ (S # {} => items # {})
      /\ f.cursor = 0 /\ ~(Cardinality(items) >= f.limit) => items = S
  <2>1. CASE f.cursor = 0
    <3>1. items = Tab!Newest(S, f.limit) /\ rows = items
      BY <2>1
    <3> HIDE DEF S, T, rows, items
    <3> QED
      BY <1>1, <1>2, <2>1, <3>1, TabNewest
  <2>2. CASE f.cursor # 0
    <3>1. rows = Tab!Oldest(T, f.limit + 1) /\ items = Tab!Oldest(rows, f.limit)
      BY <2>2
    <3>2. \A m \in S : m > f.cursor => m \in T
      OBVIOUS
    <3> HIDE DEF S, T, rows, items
    <3>3. /\ items \subseteq T
          /\ \A m \in T, o \in items : m <= o => m \in items
          /\ rows = items => items = T
      BY <1>1, <1>3, <3>1, TabOldest
    <3> QED
      BY <1>3, <2>2, <3>2, <3>3
  <2> QED
    BY <2>1, <2>2
<1>6. T = {m \in S : m > f.cursor}
  OBVIOUS
<1> HIDE DEF S, T, rows, items
<1>7. items \in SUBSET Nat /\ IsFiniteSet(items) /\ items \subseteq Tab!Lines /\ items \subseteq Nat \ {0}
  BY <1>2, <1>5, FS_Subset
<1>8. /\ items = {} => Tab!Top(items) = 0
      /\ items # {} => Tab!Top(items) \in items /\ \A m \in items : m <= Tab!Top(items)
  BY <1>7, TabLeast DEF Tab!Top
<1>9. Tab!Top(items) \in 0..MaxLines
  <2>1. CASE items = {}
    BY <1>1, <1>8, <2>1
  <2>2. CASE items # {}
    <3>1. Tab!Top(items) \in 1..MaxLines
      BY <1>7, <1>8, <2>2 DEF Tab!Lines
    <3> QED
      BY <1>1, <3>1
  <2> QED
    BY <2>1, <2>2
<1>10. page \in Tab!Page
  BY <1>1, <1>4, <1>7, <1>9 DEF Tab!Page
<1>11. page.items = items /\ page.stable = Tab!Top(items) /\ page.next \in {0, Tab!Top(items)}
       /\ (page.next = 0 /\ page.stable # 0 => rows = items)
  BY <1>4
<1>12. [f EXCEPT !.page = page].page = page /\ [f EXCEPT !.page = page].group = f.group
       /\ [f EXCEPT !.page = page].cursor = f.cursor /\ [f EXCEPT !.page = page].first = f.first
  BY DEF Tab!Fetch
<1>13. ASSUME NEW m \in S, m <= Tab!Top(items), f.cursor # 0 => m > f.cursor, f.cursor = 0 => \E o \in items : o <= m
       PROVE  m \in items
  <2>1. m \in Nat \ {0} /\ items # {}
    <3>1. m \in Nat \ {0}
      BY <1>2
    <3>2. CASE items = {}
      BY <1>8, <1>13, <3>1, <3>2
    <3> QED
      BY <3>1, <3>2
  <2>2. Tab!Top(items) \in items
    BY <1>8, <2>1
  <2> QED
    BY <1>5, <1>13, <2>2
<1>14. f.cursor # 0 => \A m \in items : m > f.cursor
  BY <1>5, <1>6
<1>15. f.first /\ ~Tab!Full(items) => \A m \in S : m <= Tab!Top(items) => m \in items
  BY <1>5, TabCounts DEF Tab!Full
<1>16. PageSound([f EXCEPT !.page = page])
  BY <1>5, <1>11, <1>12, <1>13, <1>14, <1>15 DEF PageSound, S
<1>17. ASSUME page.next = 0, page.stable # 0, NEW m \in S PROVE m <= page.stable
  <2>1. items # {} /\ rows = items
    BY <1>8, <1>11, <1>17
  <2>2. Tab!Top(items) \in items /\ \A o \in items : o <= Tab!Top(items)
    BY <1>8, <2>1
  <2>3. m \in Nat /\ Tab!Top(items) \in Nat
    BY <1>2, <1>7, <2>2
  <2>4. CASE m \in items
    BY <1>11, <2>2, <2>4
  <2>5. CASE m \notin items
    <3>1. m <= Tab!Top(items)
      <4>1. CASE f.cursor = 0
        BY <1>5, <2>2, <2>3, <2>5, <4>1
      <4>2. CASE f.cursor # 0
        <5>1. m \notin T /\ Tab!Top(items) > f.cursor
          BY <1>5, <1>14, <2>1, <2>2, <2>5, <4>2
        <5>2. ~(m > f.cursor)
          BY <1>6, <5>1
        <5> QED
          BY <1>1, <2>3, <5>1, <5>2
      <4> QED
        BY <4>1, <4>2
    <3> QED
      BY <1>11, <3>1
  <2> QED
    BY <2>4, <2>5
<1> QED
  BY <1>10, <1>16, <1>17 DEF S

\* As long as nothing is posted the groups and the pages stay what they are.
LEMMA TabSame ==
  ASSUME posted' = posted
  PROVE  (\A g : Tab!Of(g)' = Tab!Of(g)) /\ \A f : PageSound(f)' <=> PageSound(f)
<1>1. ASSUME NEW g PROVE Tab!Of(g)' = Tab!Of(g)
  BY DEF Tab!Of
<1>2. ASSUME NEW f PROVE PageSound(f)' <=> PageSound(f)
  BY <1>1 DEF PageSound
<1> QED
  BY <1>1, <1>2

\* Every socket is the present one.
LEMMA TabPresent ==
  ASSUME TabInv, NEW s \in socks
  PROVE  /\ s \in Tab!Sock /\ s.turn = generation /\ s.group = group /\ socks = {s} /\ timers = 0
         /\ phase \in {"opening", "connected"}
<1>1. TabConnected /\ phase \in {"connecting", "opening", "connected", "offline", "refused"}
  BY DEF TabInv, TabTypes
<1>2. phase \in {"opening", "connected"}
  BY <1>1 DEF TabConnected
<1> QED
  BY <1>1, <1>2 DEF TabConnected

\* Between a ticket and its socket nothing is fetched for the present turn, and the
\* reconnect timer is the only thing there is while the tab is offline.
LEMMA TabWaits ==
  ASSUME TabInv
  PROVE  /\ timers > 0 => phase = "offline" /\ timers = 1 /\ socks = {} /\ wire = {}
         /\ phase \in {"connecting", "opening"} => \A f \in fetches : ~Present(f)
         /\ \A f \in fetches : f.turn <= generation
<1>1. TabConnected /\ TabFetches /\ phase \in {"connecting", "opening", "connected", "offline", "refused"}
  BY DEF TabInv, TabTypes
<1>2. ASSUME timers > 0 PROVE phase = "offline" /\ timers = 1 /\ socks = {} /\ wire = {}
  <2>1. timers # 0
    BY <1>2
  <2> QED
    BY <1>1, <2>1 DEF TabConnected
<1> QED
  BY <1>1, <1>2 DEF TabFetches

LEMMA TabInitial == TabSane /\ Tab!Init => TabInv
<1> SUFFICES ASSUME TabSane, Tab!Init PROVE TabInv
  OBVIOUS
<1>1. TabTypes
  <2>1. posted = <<>> /\ Len(posted) = 0 /\ posted \in Seq(Groups) /\ MaxLines \in Nat /\ MaxTurn \in Nat \ {0}
    BY DEF Tab!Init, TabSane
  <2>2. 0 \in 0..MaxLines /\ 1 \in 1..MaxTurn /\ 1 \in 1..1 /\ 0 <= MaxLines /\ 0 <= 0
    BY <2>1
  <2>3. Len(posted) <= MaxLines /\ ref \in 0..MaxLines /\ ref <= Len(posted) /\ anchor \in 0..MaxLines
        /\ generation \in 1..MaxTurn /\ visit \in 1..generation
    BY <2>1, <2>2 DEF Tab!Init
  <2>4. cache \in [Groups -> SUBSET Tab!Lines] /\ wire = {} /\ fetches = {} /\ older = {} /\ phase = "connecting"
        /\ group \in Groups
    BY DEF Tab!Init
  <2>5. synced = FALSE /\ caught = FALSE /\ scrollable = FALSE /\ loading = FALSE /\ confirmed = FALSE
    BY DEF Tab!Init
  <2> QED
    BY <2>1, <2>3, <2>4, <2>5 DEF TabTypes
<1>2. TabConnected /\ TabBegun
  BY DEF Tab!Init, TabConnected, TabBegun
<1>3. TabBelongs /\ TabFetches
  BY DEF Tab!Init, TabBelongs, TabFetches
<1>4. TabFresh
  BY DEF Tab!Init, TabFresh
<1> QED
  BY <1>1, <1>2, <1>3, <1>4 DEF TabInv

\* A message that is posted while the hub knows the socket is on its way; one that it
\* misses is counted.
LEMMA TabPost ==
  ASSUME TabSane, TabInv, NEW g \in Groups, Tab!Post(g)
  PROVE  TabInv'
<1> DEFINE n == Len(posted) + 1
           N == {k \in socks : k.heard /\ k.group = g}
<1>1. TabTypes /\ TabConnected /\ TabBegun /\ TabBelongs /\ TabFetches /\ (slips = {} => TabFresh)
  BY DEF TabInv
<1>2. /\ posted' = Append(posted, g) /\ Len(posted) < MaxLines
      /\ wire' = wire \cup {<<s.turn, Len(posted')>> : s \in N}
      /\ slips' = IF g = group /\ phase = "connected" /\ ~Tab!Heard THEN slips \cup {"unheard"} ELSE slips
      /\ UNCHANGED <<socks, generation, phase, timers, anchor, synced, ref, fetches, caught, group, visit, log, hints,
                     cache, scrollable, older, loading, confirmed>>
  BY DEF Tab!Post, Tab!connection, Tab!paging, Tab!stream
<1>3. posted \in Seq(Groups) /\ Len(posted) \in Nat /\ MaxLines \in Nat /\ n \in 1..MaxLines
  BY <1>1, <1>2 DEF TabTypes, TabSane
<1>4. posted' \in Seq(Groups) /\ Len(posted') = n /\ posted'[n] = g /\ \A m \in 1..Len(posted) : posted'[m] = posted[m]
  BY <1>2, <1>3
<1>5. ASSUME NEW h PROVE Tab!Of(h)' = IF h = g THEN Tab!Of(h) \cup {n} ELSE Tab!Of(h)
  BY <1>3, <1>4 DEF Tab!Of
<1>6. wire' = wire \cup {<<s.turn, n>> : s \in N}
  BY <1>2, <1>4
<1>7. ASSUME NEW w \in wire', w \notin wire
      PROVE  w = <<generation, n>> /\ g = group /\ phase \in {"opening", "connected"}
  <2>1. PICK s \in N : w = <<s.turn, n>>
    BY <1>6, <1>7
  <2>2. s.turn = generation /\ s.group = group /\ phase \in {"opening", "connected"}
    BY TabPresent
  <2> QED
    BY <2>1, <2>2
<1> HIDE DEF n, N
<1>8. ASSUME NEW h PROVE /\ Tab!Of(h) \subseteq Tab!Of(h)' /\ \A m \in Tab!Of(h)' : m \in Tab!Of(h) \/ m = n
                         /\ \A m \in Tab!Of(h) : m \in Nat /\ m < n
  <2>1. \A m \in Tab!Of(h) : m \in Nat /\ m <= Len(posted)
    BY <1>1, TabPosted
  <2> QED
    BY <1>3, <1>5, <2>1 DEF n
<1>9. TabTypes'
  <2>1. wire' \subseteq Tab!Turns \X Tab!Lines
    <3>1. wire \subseteq Tab!Turns \X Tab!Lines /\ generation \in 1..MaxTurn
      BY <1>1 DEF TabTypes
    <3>2. <<generation, n>> \in Tab!Turns \X Tab!Lines
      BY <1>3, <3>1 DEF Tab!Turns, Tab!Lines
    <3> QED
      BY <1>7, <3>1, <3>2
  <2>2. Len(posted') <= MaxLines /\ ref <= Len(posted')
    <3>1. ref \in Nat /\ ref <= Len(posted)
      BY <1>1, <1>3 DEF TabTypes
    <3>2. n = Len(posted) + 1 /\ n <= MaxLines
      BY <1>3 DEF n
    <3> QED
      BY <1>3, <1>4, <3>1, <3>2
  <2> QED
    BY <1>1, <1>2, <1>4, <2>1, <2>2 DEF TabTypes
<1>10. TabConnected' /\ TabBegun'
  <2>1. ASSUME NEW w \in wire' PROVE w[1] = generation /\ w[2] \in Tab!Of(group)' /\ phase \in {"opening", "connected"}
    <3>1. CASE w \in wire
      <4>1. w[1] = generation /\ w[2] \in Tab!Of(group) /\ phase \in {"opening", "connected"}
        BY <1>1, <3>1 DEF TabConnected
      <4> QED
        BY <1>2, <1>8, <4>1
    <3>2. CASE w \notin wire
      BY <1>2, <1>5, <1>7, <2>1, <3>2
    <3> QED
      BY <3>1, <3>2
  <2>2. Tab!Of(group') = Tab!Of(group) /\ \A w \in wire' : w[2] \in Tab!Of(group)'
    BY <1>2, <2>1
  <2> QED
    BY <1>1, <1>2, <2>1 DEF TabConnected, TabBegun
<1>11. TabBelongs'
  <2>1. log \subseteq Tab!Of(group)' /\ \A h \in Groups : cache[h] \subseteq Tab!Of(h)'
    BY <1>1, <1>2, <1>8 DEF TabBelongs
  <2> QED
    BY <1>1, <1>2, <2>1 DEF TabBelongs
<1>12. ASSUME NEW f \in fetches, f.page # None PROVE PageSound(f)' /\ f.page.stable \in Nat /\ f.page.stable < n
  <2>1. PageSound(f)
    BY <1>1, <1>12 DEF TabFetches
  <2>2. f.page.items \subseteq Tab!Of(f.group) /\ f.page.stable = Tab!Top(f.page.items)
    BY <2>1 DEF PageSound
  <2>3. f.page.stable \in Nat /\ f.page.stable < n
    <3>1. CASE f.page.items = {}
      <4>1. f.page.stable = 0
        BY <2>2, <3>1 DEF Tab!Top
      <4> QED
        BY <1>3, <4>1
    <3>2. CASE f.page.items # {}
      <4>1. f.page.items \in SUBSET Nat /\ IsFiniteSet(f.page.items)
        BY <1>1, <2>2, TabPosted, FS_Subset
      <4>2. f.page.stable \in f.page.items
        BY <2>2, <3>2, <4>1, TabLeast
      <4> QED
        BY <1>8, <2>2, <4>2
    <3> QED
      BY <3>1, <3>2
  <2>4. \A m \in Tab!Of(f.group)' : m <= f.page.stable => m \in Tab!Of(f.group)
    <3>1. ~(n <= f.page.stable)
      BY <1>3, <2>3
    <3> QED
      BY <1>8, <3>1
  <2>5. PageSound(f)'
    BY <1>8, <2>1, <2>4 DEF PageSound
  <2> QED
    BY <2>3, <2>5
<1>13. TabFetches'
  BY <1>1, <1>2, <1>12 DEF TabFetches, Present
<1>14. ASSUME slips' = {} PROVE TabFresh'
  <2>1. slips = {} /\ ~(g = group /\ phase = "connected" /\ ~Tab!Heard)
    BY <1>2, <1>14
  <2>2. TabFresh
    BY <1>1, <2>1
  <2>3. ASSUME phase = "connected", NEW m \in Tab!Of(group)', m \notin Tab!Of(group)
        PROVE  m = n /\ m \in Tab!Wired(generation)'
    <3>1. m = n /\ g = group
      BY <1>2, <1>5, <2>3
    <3>2. PICK s \in socks : s.turn = generation /\ s.heard
      BY <2>1, <2>3, <3>1 DEF Tab!Heard, Tab!Current
    <3>3. s.group = group
      BY TabPresent
    <3>4. s \in N
      BY <3>1, <3>2, <3>3 DEF N
    <3>5. <<generation, n>> \in wire' /\ n \in Tab!Lines
      BY <1>3, <1>6, <3>2, <3>4 DEF Tab!Lines
    <3> QED
      BY <1>2, <3>1, <3>5 DEF Tab!Wired
  <2>4. Tab!Wired(generation) \subseteq Tab!Wired(generation)'
        /\ \A m \in Tab!Wired(generation)' : m \in Tab!Wired(generation) \/ m = n
    BY <1>2, <1>6, <1>7 DEF Tab!Wired
  <2>5. ASSUME NEW f \in fetches PROVE Awaited(f)'
    <3>1. Awaited(f)
      BY <2>2, <2>5 DEF TabFresh
    <3> QED
      BY <1>2, <2>3, <2>4, <3>1 DEF Awaited, Present
  <2>6. ASSUME confirmed PROVE Stretch'
    <3>1. Stretch
      BY <2>2, <2>6 DEF TabFresh
    <3>2. log \in SUBSET Nat /\ IsFiniteSet(log)
      BY <1>1, TabPosted, FS_Subset DEF TabBelongs
    <3>3. Tab!Min(log) \in log
      BY <3>1, <3>2, TabLeast DEF Stretch
    <3>4. Tab!Min(log) \in Nat /\ Tab!Min(log) <= n
      BY <1>1, <1>3, <1>8, <3>3 DEF TabBelongs
    <3>5. ref \in Nat /\ ~(n <= ref)
      <4>1. ref \in Nat /\ ref <= Len(posted)
        BY <1>1, <1>3 DEF TabTypes
      <4> QED
        BY <1>3, <4>1 DEF n
    <3>6. log # {} /\ hints = {} /\ Tab!Min(log) <= ref
      BY <3>1 DEF Stretch
    <3>7. \A m \in Tab!Of(group)' : Tab!Min(log) <= m /\ m <= ref => m \in log
      BY <1>2, <1>8, <3>1, <3>5 DEF Stretch
    <3>8. \A m \in Tab!Wired(generation)' : Tab!Min(log) <= m
      BY <1>2, <2>4, <3>1, <3>4 DEF Stretch
    <3>9. phase = "connected" /\ caught => \A m \in Tab!Of(group)' : m > ref => m \in log \cup Tab!Wired(generation)'
      BY <1>2, <2>3, <2>4, <3>1 DEF Stretch
    <3>10. ~scrollable => \A m \in Tab!Of(group)' : Tab!Min(log) <= m
      BY <1>2, <1>8, <3>1, <3>4 DEF Stretch
    <3> QED
      BY <1>2, <3>6, <3>7, <3>8, <3>9, <3>10 DEF Stretch
  <2> QED
    BY <1>2, <2>2, <2>5, <2>6 DEF TabFresh, Present
<1> QED
  BY <1>9, <1>10, <1>11, <1>13, <1>14 DEF TabInv

\* The hub comes to know the socket.
LEMMA TabServeWs ==
  ASSUME TabSane, TabInv, NEW s \in socks, Tab!ServeWs(s)
  PROVE  TabInv'
<1>1. TabTypes /\ TabConnected /\ TabBegun /\ TabBelongs /\ TabFetches /\ (slips = {} => TabFresh)
  BY DEF TabInv
<1>2. /\ socks' = (socks \ {s}) \cup {[s EXCEPT !.heard = TRUE]}
      /\ UNCHANGED <<posted, wire, generation, phase, timers, anchor, synced, ref, fetches, caught, group, visit, log,
                     hints, cache, scrollable, older, loading, confirmed, slips>>
  BY DEF Tab!ServeWs, Tab!connection, Tab!paging, Tab!stream
<1>3. s \in Tab!Sock /\ s.turn = generation /\ s.group = group /\ socks = {s} /\ timers = 0
      /\ phase \in {"opening", "connected"}
  BY TabPresent
<1>4. PICK k : k = [s EXCEPT !.heard = TRUE]
  OBVIOUS
<1>5. k \in Tab!Sock /\ k.turn = generation /\ k.group = group /\ socks' = {k}
  BY <1>2, <1>3, <1>4 DEF Tab!Sock
<1>6. (\A g : Tab!Of(g)' = Tab!Of(g)) /\ \A f : PageSound(f)' <=> PageSound(f)
  BY <1>2, TabSame
<1>7. TabTypes'
  BY <1>1, <1>2 DEF TabTypes
<1>8. TabConnected' /\ TabBegun'
  BY <1>1, <1>2, <1>3, <1>5, <1>6 DEF TabConnected, TabBegun
<1>9. TabBelongs'
  BY <1>1, <1>2, <1>6 DEF TabBelongs
<1>10. TabFetches'
  BY <1>1, <1>2, <1>6 DEF TabFetches, Present
<1>11. Tab!Wired(generation)' = Tab!Wired(generation)
  BY <1>2 DEF Tab!Wired
<1>12. ASSUME slips' = {} PROVE TabFresh'
  <2>1. TabFresh
    BY <1>1, <1>2, <1>12
  <2>2. \A f : Awaited(f) => Awaited(f)'
    BY <1>2, <1>6, <1>11 DEF Awaited, Present
  <2>3. Stretch => Stretch'
    BY <1>2, <1>6, <1>11 DEF Stretch
  <2> QED
    BY <1>2, <2>1, <2>2, <2>3 DEF TabFresh, Present
<1> QED
  BY <1>7, <1>8, <1>9, <1>10, <1>12 DEF TabInv

\* The server answers with a page as of now.
LEMMA TabServe ==
  ASSUME TabSane, TabInv, NEW f \in fetches, Tab!Serve(f)
  PROVE  TabInv'
<1>1. TabTypes /\ TabConnected /\ TabBegun /\ TabBelongs /\ TabFetches /\ (slips = {} => TabFresh)
  BY DEF TabInv
<1>2. /\ f.page = None /\ fetches' = (fetches \ {f}) \cup {[f EXCEPT !.page = Tab!PageAfter(f.group, f.cursor, f.limit)]}
      /\ UNCHANGED <<posted, socks, wire, generation, phase, timers, anchor, synced, ref, caught, group, visit, log,
                     hints, cache, scrollable, older, loading, confirmed, slips>>
  BY DEF Tab!Serve, Tab!server, Tab!connection, Tab!stream
<1>3. f \in Tab!Fetch /\ (f.first => f.cursor = 0 /\ f.limit = PageSize)
  BY <1>1 DEF TabTypes, TabFetches
<1>4. PICK page : page = Tab!PageAfter(f.group, f.cursor, f.limit)
  OBVIOUS
<1>5. /\ page \in Tab!Page /\ PageSound([f EXCEPT !.page = page])
      /\ page.next = 0 /\ page.stable # 0 => \A m \in Tab!Of(f.group) : m <= page.stable
  BY <1>1, <1>3, <1>4, PageIsSound
<1>6. PICK h : h = [f EXCEPT !.page = page]
  OBVIOUS
<1>7. h \in Tab!Fetch /\ h.turn = f.turn /\ h.group = f.group /\ h.cursor = f.cursor /\ h.limit = f.limit
      /\ h.first = f.first /\ h.page = page /\ PageSound(h)
  BY <1>3, <1>5, <1>6 DEF Tab!Fetch
<1>8. fetches' = (fetches \ {f}) \cup {h}
  BY <1>2, <1>4, <1>6
<1>9. (\A g : Tab!Of(g)' = Tab!Of(g)) /\ \A e : PageSound(e)' <=> PageSound(e)
  BY <1>2, TabSame
<1>10. TabTypes'
  <2>1. fetches' \subseteq Tab!Fetch
    BY <1>1, <1>7, <1>8 DEF TabTypes
  <2> QED
    BY <1>1, <1>2, <2>1 DEF TabTypes
<1>11. TabConnected' /\ TabBegun'
  BY <1>1, <1>2, <1>9 DEF TabConnected, TabBegun
<1>12. TabBelongs'
  BY <1>1, <1>2, <1>9 DEF TabBelongs
<1>13. \A e : Present(e)' <=> Present(e)
  BY <1>2 DEF Present
<1>14. Present(h) <=> Present(f)
  BY <1>7 DEF Present
<1>15. TabFetches'
  <2>1. ASSUME NEW e \in fetches'
        PROVE  /\ e.turn <= generation
               /\ Present(e) => e.group = group /\ synced /\ phase \notin {"connecting", "opening"}
               /\ Present(e) /\ e.first => ~confirmed
               /\ e.first => e.cursor = 0 /\ e.limit = PageSize
               /\ e.page # None => PageSound(e)
    <3>1. CASE e \in fetches
      BY <1>1, <3>1 DEF TabFetches
    <3>2. CASE e = h
      BY <1>1, <1>7, <1>14, <3>2 DEF TabFetches
    <3> QED
      BY <1>8, <2>1, <3>1, <3>2
  <2>2. ASSUME NEW d \in fetches', NEW e \in fetches', Present(d), Present(e) PROVE d = e
    BY <1>1, <1>8, <1>14, <2>2 DEF TabFetches
  <2> QED
    BY <1>2, <1>9, <1>13, <2>1, <2>2 DEF TabFetches
<1>16. Tab!Wired(generation)' = Tab!Wired(generation)
  BY <1>2 DEF Tab!Wired
<1>17. ASSUME slips' = {} PROVE TabFresh'
  <2>1. TabFresh
    BY <1>1, <1>2, <1>17
  <2>2. \A e : Awaited(e) => Awaited(e)'
    BY <1>2, <1>9, <1>13, <1>16 DEF Awaited
  <2>3. Stretch => Stretch'
    BY <1>2, <1>9, <1>16 DEF Stretch
  <2>4. Awaited(h)
    <3>1. ASSUME Present(h), page.next = 0, page.stable # 0, NEW m \in Tab!Of(group), m > page.stable PROVE FALSE
      <4>1. f.group = group
        BY <1>1, <1>14, <3>1 DEF TabFetches
      <4>2. m <= page.stable
        BY <1>5, <3>1, <4>1
      <4>3. m \in Nat /\ page.stable \in Nat
        BY <1>1, <1>5, TabPosted DEF Tab!Page
      <4> QED
        BY <3>1, <4>2, <4>3
    <3> QED
      BY <1>7, <3>1 DEF Awaited
  <2>5. ASSUME NEW e \in fetches' PROVE (Present(e) /\ ~e.first => e.cursor = ref) /\ Awaited(e)'
    <3>1. CASE e \in fetches
      BY <2>1, <2>2, <3>1 DEF TabFresh
    <3>2. CASE e = h
      BY <1>7, <1>14, <2>1, <2>2, <2>4, <3>2 DEF TabFresh
    <3> QED
      BY <1>8, <2>5, <3>1, <3>2
  <2> QED
    BY <1>2, <1>13, <2>1, <2>3, <2>5 DEF TabFresh
<1> QED
  BY <1>10, <1>11, <1>12, <1>15, <1>17 DEF TabInv

\* A timer begins the next generation: nothing in flight is for it.
LEMMA TabConnect ==
  ASSUME TabSane, TabInv, Tab!Connect
  PROVE  TabInv'
<1>1. TabTypes /\ TabConnected /\ TabBegun /\ TabBelongs /\ TabFetches /\ (slips = {} => TabFresh)
  BY DEF TabInv
<1>2. /\ timers > 0 /\ generation < MaxTurn /\ timers' = timers - 1 /\ generation' = generation + 1
      /\ phase' = "connecting" /\ anchor' = ref /\ caught' = FALSE
      /\ UNCHANGED <<posted, socks, wire, synced, ref, fetches, group, visit, log, hints, cache, scrollable, older,
                     loading, confirmed, slips>>
  BY DEF Tab!Connect, Tab!Snapshot, Tab!server, Tab!stream
<1>3. phase = "offline" /\ timers = 1 /\ socks = {} /\ wire = {} /\ \A f \in fetches : f.turn <= generation
  BY <1>2, TabWaits
<1>4. (\A g : Tab!Of(g)' = Tab!Of(g)) /\ \A f : PageSound(f)' <=> PageSound(f)
  BY <1>2, TabSame
<1>5. generation \in Nat /\ MaxTurn \in Nat /\ generation' \in 1..MaxTurn /\ visit \in 1..generation'
  BY <1>1, <1>2 DEF TabTypes, TabSane
<1>6. TabTypes'
  <2>1. anchor' \in 0..MaxLines
    BY <1>1, <1>2 DEF TabTypes
  <2> QED
    BY <1>1, <1>2, <1>5, <2>1 DEF TabTypes
<1>7. TabConnected' /\ TabBegun'
  <2>1. timers' = 0 /\ socks' = {} /\ wire' = {}
    BY <1>2, <1>3
  <2> QED
    BY <1>2, <2>1 DEF TabConnected, TabBegun
<1>8. TabBelongs'
  BY <1>1, <1>2, <1>4 DEF TabBelongs
<1>9. ASSUME NEW f \in fetches PROVE ~Present(f)' /\ f.turn <= generation'
  <2>1. f.turn \in Nat /\ f.turn <= generation
    BY <1>1, <1>3 DEF TabTypes, Tab!Fetch, Tab!Turns
  <2> QED
    BY <1>2, <1>5, <2>1 DEF Present
<1>10. TabFetches'
  BY <1>1, <1>2, <1>4, <1>9 DEF TabFetches
<1>11. ASSUME slips' = {} PROVE TabFresh'
  <2>1. TabFresh
    BY <1>1, <1>2, <1>11
  <2>2. \A f : Awaited(f)'
    BY <1>2 DEF Awaited
  <2>3. Tab!Wired(generation)' = {}
    BY <1>2, <1>3 DEF Tab!Wired
  <2>4. Stretch => Stretch'
    BY <1>2, <1>4, <2>3 DEF Stretch
  <2> QED
    BY <1>2, <1>9, <2>1, <2>2, <2>4 DEF TabFresh
<1> QED
  BY <1>6, <1>7, <1>8, <1>10, <1>11 DEF TabInv

\* A failed ticket leaves a timer, or nothing.
LEMMA TabTicketFails ==
  ASSUME TabSane, TabInv, NEW final \in BOOLEAN, Tab!TicketFails(final)
  PROVE  TabInv'
<1>1. TabTypes /\ TabConnected /\ TabBegun /\ TabBelongs /\ TabFetches /\ (slips = {} => TabFresh)
  BY DEF TabInv
<1>2. /\ phase = "connecting" /\ phase' = (IF final THEN "refused" ELSE "offline")
      /\ timers' = (IF final THEN timers ELSE timers + 1)
      /\ UNCHANGED <<posted, socks, wire, generation, anchor, synced, ref, fetches, caught, group, visit, log, hints,
                     cache, scrollable, older, loading, confirmed, slips>>
  BY DEF Tab!TicketFails, Tab!server, Tab!paging, Tab!stream
<1>3. timers = 0 /\ socks = {} /\ wire = {} /\ \A f \in fetches : ~Present(f)
  BY <1>1, <1>2, TabWaits DEF TabConnected
<1>4. (\A g : Tab!Of(g)' = Tab!Of(g)) /\ \A f : PageSound(f)' <=> PageSound(f)
  BY <1>2, TabSame
<1>5. (phase' = "refused" /\ timers' = 0) \/ (phase' = "offline" /\ timers' = 1)
  BY <1>2, <1>3
<1>6. TabTypes'
  BY <1>1, <1>2, <1>5 DEF TabTypes
<1>7. TabConnected' /\ TabBegun'
  BY <1>2, <1>3, <1>5 DEF TabConnected, TabBegun
<1>8. TabBelongs'
  BY <1>1, <1>2, <1>4 DEF TabBelongs
<1>9. \A f : Present(f)' <=> Present(f)
  BY <1>2 DEF Present
<1>10. TabFetches'
  BY <1>1, <1>2, <1>3, <1>4, <1>9 DEF TabFetches
<1>11. ASSUME slips' = {} PROVE TabFresh'
  <2>1. TabFresh
    BY <1>1, <1>2, <1>11
  <2>2. \A f : Awaited(f)'
    BY <1>5 DEF Awaited
  <2>3. Tab!Wired(generation)' = {}
    BY <1>2, <1>3 DEF Tab!Wired
  <2>4. Stretch => Stretch'
    BY <1>2, <1>4, <1>5, <2>3 DEF Stretch
  <2> QED
    BY <1>2, <1>3, <1>5, <1>9, <2>1, <2>2, <2>4 DEF TabFresh
<1> QED
  BY <1>6, <1>7, <1>8, <1>10, <1>11 DEF TabInv

\* The one socket of a generation.
LEMMA TabOpenSocket ==
  ASSUME TabSane, TabInv, Tab!OpenSocket
  PROVE  TabInv'
<1>1. TabTypes /\ TabConnected /\ TabBegun /\ TabBelongs /\ TabFetches /\ (slips = {} => TabFresh)
  BY DEF TabInv
<1>2. /\ phase = "connecting" /\ phase' = "opening"
      /\ socks' = socks \cup {[turn |-> generation, group |-> group, heard |-> FALSE]}
      /\ UNCHANGED <<posted, wire, generation, timers, anchor, synced, ref, fetches, caught, group, visit, log, hints,
                     cache, scrollable, older, loading, confirmed, slips>>
  BY DEF Tab!OpenSocket, Tab!paging, Tab!stream
<1>3. timers = 0 /\ socks = {} /\ wire = {} /\ \A f \in fetches : ~Present(f)
  BY <1>1, <1>2, TabWaits DEF TabConnected
<1>4. (\A g : Tab!Of(g)' = Tab!Of(g)) /\ \A f : PageSound(f)' <=> PageSound(f)
  BY <1>2, TabSame
<1>5. PICK k : k = [turn |-> generation, group |-> group, heard |-> FALSE]
  OBVIOUS
<1>6. k \in Tab!Sock /\ k.turn = generation /\ k.group = group /\ socks' = {k}
  BY <1>1, <1>2, <1>3, <1>5 DEF Tab!Sock, Tab!Turns, TabTypes
<1>7. TabTypes'
  BY <1>1, <1>2 DEF TabTypes
<1>8. TabConnected' /\ TabBegun'
  BY <1>1, <1>2, <1>3, <1>6 DEF TabConnected, TabBegun
<1>9. TabBelongs'
  BY <1>1, <1>2, <1>4 DEF TabBelongs
<1>10. \A f : Present(f)' <=> Present(f)
  BY <1>2 DEF Present
<1>11. TabFetches'
  BY <1>1, <1>2, <1>3, <1>4, <1>10 DEF TabFetches
<1>12. ASSUME slips' = {} PROVE TabFresh'
  <2>1. TabFresh
    BY <1>1, <1>2, <1>12
  <2>2. \A f : Awaited(f)'
    BY <1>2 DEF Awaited
  <2>3. Tab!Wired(generation)' = Tab!Wired(generation)
    BY <1>2 DEF Tab!Wired
  <2>4. Stretch => Stretch'
    BY <1>2, <1>4, <2>3 DEF Stretch
  <2> QED
    BY <1>2, <1>3, <1>10, <2>1, <2>2, <2>4 DEF TabFresh
<1> QED
  BY <1>7, <1>8, <1>9, <1>11, <1>12 DEF TabInv

\* The catch-up of a generation begins at the cursor, or with the newest page.
LEMMA TabOnOpen ==
  ASSUME TabSane, TabInv, Tab!OnOpen
  PROVE  TabInv'
<1>1. TabTypes /\ TabConnected /\ TabBegun /\ TabBelongs /\ TabFetches /\ (slips = {} => TabFresh)
  BY DEF TabInv
<1>2. /\ phase = "opening" /\ phase' = "connected" /\ synced' = TRUE
      /\ fetches' = fetches \cup {Tab!Request(IF synced THEN anchor ELSE 0, PageSize, ~synced)}
      /\ UNCHANGED <<posted, socks, wire, generation, timers, anchor, ref, caught, group, visit, log, hints,
                     cache, scrollable, older, loading, confirmed, slips>>
  BY DEF Tab!OnOpen, Tab!server, Tab!stream
<1>3. ~caught /\ (\A f \in fetches : ~Present(f) /\ f.turn <= generation) /\ (confirmed => synced)
  BY <1>1, <1>2, TabWaits DEF TabBegun, TabBelongs
<1>4. (\A g : Tab!Of(g)' = Tab!Of(g)) /\ \A f : PageSound(f)' <=> PageSound(f)
  BY <1>2, TabSame
<1>5. PICK h : h = Tab!Request(IF synced THEN anchor ELSE 0, PageSize, ~synced)
  OBVIOUS
<1>6. /\ h.turn = generation /\ h.group = group /\ h.cursor = (IF synced THEN anchor ELSE 0) /\ h.limit = PageSize
      /\ h.first = ~synced /\ h.page = None
  BY <1>5 DEF Tab!Request
<1>7. h \in Tab!Fetch
  <2>1. (IF synced THEN anchor ELSE 0) \in 0..MaxLines /\ generation \in Tab!Turns /\ group \in Groups
        /\ (~synced) \in BOOLEAN
    <3>1. generation \in Tab!Turns /\ group \in Groups
      BY <1>1 DEF TabTypes, Tab!Turns
    <3>3. (~synced) \in BOOLEAN
      OBVIOUS
    <3>2. anchor \in 0..MaxLines /\ 0 \in 0..MaxLines
      BY <1>1 DEF TabTypes, TabSane
    <3> QED
      BY <3>1, <3>2, <3>3
  <2> QED
    BY <1>5, <2>1 DEF Tab!Request, Tab!Fetch
<1>8. fetches' = fetches \cup {h}
  BY <1>2, <1>5
<1>9. TabTypes'
  BY <1>1, <1>2, <1>7, <1>8 DEF TabTypes
<1>10. TabConnected' /\ TabBegun'
  BY <1>1, <1>2, <1>4 DEF TabConnected, TabBegun
<1>11. TabBelongs'
  BY <1>1, <1>2, <1>4 DEF TabBelongs
<1>12. \A f : Present(f)' <=> Present(f)
  BY <1>2 DEF Present
<1>13. generation \in Nat
  BY <1>1 DEF TabTypes
<1>14. TabFetches'
  <2>1. ASSUME NEW e \in fetches'
        PROVE  /\ e.turn <= generation
               /\ Present(e) => e = h
               /\ e.first => e.cursor = 0 /\ e.limit = PageSize
               /\ e.page # None => PageSound(e)
    <3>1. CASE e \in fetches
      BY <1>1, <1>3, <3>1 DEF TabFetches
    <3>2. CASE e = h
      <4>1. h.turn <= generation
        BY <1>6, <1>13
      <4>2. h.first => h.cursor = 0 /\ h.limit = PageSize
        BY <1>6
      <4> QED
        BY <1>6, <3>2, <4>1, <4>2
    <3> QED
      BY <1>8, <2>1, <3>1, <3>2
  <2>2. h.group = group /\ (h.first => ~confirmed)
    BY <1>3, <1>6
  <2> QED
    BY <1>2, <1>4, <1>12, <2>1, <2>2 DEF TabFetches
<1>15. ASSUME slips' = {} PROVE TabFresh'
  <2>1. TabFresh
    BY <1>1, <1>2, <1>15
  <2>2. Tab!Wired(generation)' = Tab!Wired(generation)
    BY <1>2 DEF Tab!Wired
  <2>3. Stretch => Stretch'
    BY <1>2, <1>3, <1>4, <2>2 DEF Stretch
  <2>4. ASSUME NEW e \in fetches' PROVE (Present(e) /\ ~e.first => e.cursor = ref) /\ Awaited(e)'
    <3>1. CASE e \in fetches
      BY <1>3, <1>12, <3>1 DEF Awaited
    <3>2. CASE e = h
      <4>1. synced => h.cursor = ref
        BY <1>2, <1>6, <2>1 DEF TabFresh
      <4> QED
        BY <1>6, <3>2, <4>1 DEF Awaited
    <3> QED
      BY <1>8, <2>4, <3>1, <3>2
  <2> QED
    BY <1>2, <1>12, <2>1, <2>3, <2>4 DEF TabFresh
<1> QED
  BY <1>9, <1>10, <1>11, <1>14, <1>15 DEF TabInv

\* What was on the wire is lost with the socket; a timer takes its place.
LEMMA TabOnClose ==
  ASSUME TabSane, TabInv, NEW s \in socks, Tab!OnClose(s)
  PROVE  TabInv'
<1>1. TabTypes /\ TabConnected /\ TabBegun /\ TabBelongs /\ TabFetches /\ (slips = {} => TabFresh)
  BY DEF TabInv
<1>2. s.turn = generation /\ socks = {s} /\ timers = 0 /\ phase \in {"opening", "connected"}
  BY TabPresent
<1>3. /\ socks' = socks \ {s} /\ wire' = {w \in wire : w[1] # s.turn} /\ phase' = "offline" /\ timers' = timers + 1
      /\ UNCHANGED <<posted, generation, anchor, synced, ref, fetches, caught, group, visit, log, hints,
                     cache, scrollable, older, loading, confirmed, slips>>
  BY <1>2 DEF Tab!OnClose, Tab!Current, Tab!paging, Tab!stream
<1>4. socks' = {} /\ wire' = {} /\ timers' = 1
  BY <1>1, <1>2, <1>3 DEF TabConnected
<1>5. (\A g : Tab!Of(g)' = Tab!Of(g)) /\ \A f : PageSound(f)' <=> PageSound(f)
  BY <1>3, TabSame
<1>6. TabTypes'
  BY <1>1, <1>3, <1>4 DEF TabTypes
<1>7. TabConnected' /\ TabBegun'
  BY <1>3, <1>4 DEF TabConnected, TabBegun
<1>8. TabBelongs'
  BY <1>1, <1>3, <1>5 DEF TabBelongs
<1>9. \A f : Present(f)' <=> Present(f)
  BY <1>3 DEF Present
<1>10. TabFetches'
  BY <1>1, <1>3, <1>5, <1>9 DEF TabFetches
<1>11. ASSUME slips' = {} PROVE TabFresh'
  <2>1. TabFresh
    BY <1>1, <1>3, <1>11
  <2>2. \A f : Awaited(f)'
    BY <1>3 DEF Awaited
  <2>3. Tab!Wired(generation)' = {}
    BY <1>4 DEF Tab!Wired
  <2>4. Stretch => Stretch'
    BY <1>3, <1>5, <2>3 DEF Stretch
  <2> QED
    BY <1>3, <1>9, <2>1, <2>2, <2>4 DEF TabFresh
<1> QED
  BY <1>6, <1>7, <1>8, <1>10, <1>11 DEF TabInv

\* A failed page is no page.
LEMMA TabFetchFails ==
  ASSUME TabSane, TabInv, NEW f \in fetches, Tab!FetchFails(f)
  PROVE  TabInv'
<1>1. TabTypes /\ TabConnected /\ TabBegun /\ TabBelongs /\ TabFetches /\ (slips = {} => TabFresh)
  BY DEF TabInv
<1>2. /\ fetches' \subseteq fetches
      /\ UNCHANGED <<posted, socks, wire, generation, phase, timers, anchor, synced, ref, caught, group, visit, log,
                     hints, cache, scrollable, older, loading, confirmed, slips>>
  BY DEF Tab!FetchFails, Tab!server, Tab!connection, Tab!stream
<1>3. (\A g : Tab!Of(g)' = Tab!Of(g)) /\ \A e : PageSound(e)' <=> PageSound(e)
  BY <1>2, TabSame
<1>4. (\A e : Present(e)' <=> Present(e)) /\ Tab!Wired(generation)' = Tab!Wired(generation)
  BY <1>2 DEF Present, Tab!Wired
<1>5. TabTypes' /\ TabConnected' /\ TabBegun' /\ TabBelongs'
  BY <1>1, <1>2, <1>3 DEF TabTypes, TabConnected, TabBegun, TabBelongs
<1>6. TabFetches'
  BY <1>1, <1>2, <1>3, <1>4 DEF TabFetches
<1>7. ASSUME slips' = {} PROVE TabFresh'
  <2>1. TabFresh
    BY <1>1, <1>2, <1>7
  <2>2. (\A e : Awaited(e) => Awaited(e)') /\ (Stretch => Stretch')
    BY <1>2, <1>3, <1>4 DEF Awaited, Stretch
  <2> QED
    BY <1>2, <1>4, <2>1, <2>2 DEF TabFresh
<1> QED
  BY <1>5, <1>6, <1>7 DEF TabInv

\* What is shown is a finite set of numbers from 1 on, with a least one.
LEMMA TabShown ==
  ASSUME TabSane, TabInv
  PROVE  /\ log \in SUBSET Nat /\ log \subseteq Tab!Lines /\ log \subseteq Tab!Of(group) /\ IsFiniteSet(log)
         /\ \A m \in log : m >= 1
         /\ log # {} => Tab!Min(log) \in log /\ Tab!Min(log) \in Nat /\ \A m \in log : Tab!Min(log) <= m
         /\ \A m \in Tab!Of(group) : m \in Nat
<1>1. Tab!Of(group) \subseteq Nat \ {0} /\ Tab!Of(group) \subseteq Tab!Lines /\ IsFiniteSet(Tab!Of(group))
  BY TabPosted DEF TabInv
<1>2. log \subseteq Tab!Of(group)
  BY DEF TabInv, TabBelongs
<1>3. log \in SUBSET Nat /\ IsFiniteSet(log) /\ log \subseteq Tab!Lines
  BY <1>1, <1>2, FS_Subset
<1>4. \A m \in log : m >= 1
  <2>1. \A m \in log : m \in Nat \ {0}
    BY <1>1, <1>2
  <2> QED
    BY <2>1
<1> QED
  BY <1>1, <1>2, <1>3, <1>4, TabLeast

\* Messages above the least one shown leave it the least.
LEMMA TabJoined ==
  ASSUME TabSane, TabInv, NEW items \in SUBSET Nat, IsFiniteSet(items), log # {},
         \A m \in items : Tab!Min(log) <= m
  PROVE  Tab!Min(log \cup items) = Tab!Min(log)
<1>1. log \in SUBSET Nat /\ IsFiniteSet(log) /\ Tab!Min(log) \in log /\ \A m \in log : Tab!Min(log) <= m
  BY TabShown
<1>2. log \cup items \in SUBSET Nat /\ IsFiniteSet(log \cup items)
  BY <1>1, FS_Union
<1> QED
  BY <1>1, <1>2, TabLeastIs

\* A message that arrives is no longer on its way.
LEMMA TabOnMessage ==
  ASSUME TabSane, TabInv, NEW s \in socks, Tab!OnMessage(s)
  PROVE  TabInv'
<1>1. TabTypes /\ TabConnected /\ TabBegun /\ TabBelongs /\ TabFetches /\ (slips = {} => TabFresh)
  BY DEF TabInv
<1>2. s.turn = generation /\ socks = {s}
  BY TabPresent
<1>3. PICK m : m = Tab!Min(Tab!Wired(generation))
  OBVIOUS
<1>4. /\ Tab!Wired(generation) # {} /\ phase = "connected" /\ wire' = wire \ {<<generation, m>>}
      /\ log' = log \cup {m} /\ hints' = hints \ {m}
      /\ UNCHANGED <<posted, socks, generation, phase, timers, anchor, synced, ref, fetches, caught, group, visit, cache,
                     scrollable, older, loading, confirmed, slips>>
  BY <1>2, <1>3 DEF Tab!OnMessage, Tab!Current, Tab!Merged, Tab!connection, Tab!paging
<1>5. m \in Tab!Wired(generation)
  <2>1. Tab!Wired(generation) \in SUBSET Nat /\ IsFiniteSet(Tab!Wired(generation))
    <3>1. Tab!Wired(generation) \subseteq 1..MaxLines /\ MaxLines \in Nat
      BY DEF Tab!Wired, Tab!Lines, TabSane
    <3>2. IsFiniteSet(1..MaxLines)
      BY <3>1, FS_Interval
    <3> QED
      BY <3>1, <3>2, FS_Subset
  <2> QED
    BY <1>3, <1>4, <2>1, TabLeast
<1>6. <<generation, m>> \in wire /\ m \in Tab!Of(group) /\ m \in Nat
  <2>1. <<generation, m>> \in wire
    BY <1>5 DEF Tab!Wired
  <2>2. m \in Tab!Of(group)
    BY <1>1, <2>1 DEF TabConnected
  <2> QED
    BY <2>1, <2>2, TabShown
<1>7. (\A g : Tab!Of(g)' = Tab!Of(g)) /\ \A f : PageSound(f)' <=> PageSound(f)
  BY <1>4, TabSame
<1>8. wire' \subseteq wire /\ Tab!Wired(generation)' = Tab!Wired(generation) \ {m}
  BY <1>4 DEF Tab!Wired
<1>9. TabTypes'
  BY <1>1, <1>4 DEF TabTypes
<1>10. TabConnected' /\ TabBegun'
  BY <1>1, <1>4, <1>7 DEF TabConnected, TabBegun
<1>11. TabBelongs'
  BY <1>1, <1>4, <1>6, <1>7 DEF TabBelongs
<1>12. \A f : Present(f)' <=> Present(f)
  BY <1>4 DEF Present
<1>13. TabFetches'
  BY <1>1, <1>4, <1>7, <1>12 DEF TabFetches
<1>14. ASSUME slips' = {} PROVE TabFresh'
  <2>1. TabFresh
    BY <1>1, <1>4, <1>14
  <2>2. \A f : Awaited(f) => Awaited(f)'
    BY <1>4, <1>7, <1>8, <1>12 DEF Awaited
  <2>3. ASSUME confirmed PROVE Stretch /\ Tab!Min(log') = Tab!Min(log)
    <3>1. Stretch
      BY <2>1, <2>3 DEF TabFresh
    <3>2. \A o \in {m} : Tab!Min(log) <= o
      BY <1>5, <3>1 DEF Stretch
    <3>3. {m} \in SUBSET Nat /\ IsFiniteSet({m}) /\ log # {}
      BY <1>6, <3>1, FS_Singleton DEF Stretch
    <3> QED
      BY <1>4, <3>1, <3>2, <3>3, TabJoined
  <2>4. ASSUME confirmed PROVE Stretch'
    <3>1. Stretch /\ Tab!Min(log') = Tab!Min(log)
      BY <2>3, <2>4
    <3>2. log' # {} /\ hints' = {} /\ Tab!Min(log') <= ref'
      BY <1>4, <3>1 DEF Stretch
    <3>3. \A o \in Tab!Of(group)' : Tab!Min(log') <= o /\ o <= ref' => o \in log'
      BY <1>4, <1>7, <3>1 DEF Stretch
    <3>4. \A o \in Tab!Wired(generation)' : Tab!Min(log') <= o
      BY <1>8, <3>1 DEF Stretch
    <3>5. phase' = "connected" /\ caught' => \A o \in Tab!Of(group)' : o > ref' => o \in log' \cup Tab!Wired(generation)'
      BY <1>4, <1>7, <1>8, <3>1 DEF Stretch
    <3>6. ~scrollable' => \A o \in Tab!Of(group)' : Tab!Min(log') <= o
      BY <1>4, <1>7, <3>1 DEF Stretch
    <3> QED
      BY <3>2, <3>3, <3>4, <3>5, <3>6 DEF Stretch
  <2>5. \A o \in older : o.visit = visit => o.before = Tab!Min(log')
    BY <2>1, <2>3 DEF TabFresh
  <2> QED
    BY <1>4, <1>12, <2>1, <2>2, <2>4, <2>5 DEF TabFresh
<1> QED
  BY <1>9, <1>10, <1>11, <1>13, <1>14 DEF TabInv

\* An older page is asked for from the oldest message on.
LEMMA TabLoadOlder ==
  ASSUME TabSane, TabInv, Tab!LoadOlder
  PROVE  TabInv'
<1>1. TabTypes /\ TabConnected /\ TabBegun /\ TabBelongs /\ TabFetches /\ (slips = {} => TabFresh)
  BY DEF TabInv
<1>2. PICK o : o = [visit |-> visit, group |-> group, before |-> Tab!Min(log)]
  OBVIOUS
<1>3. /\ scrollable /\ log # {} /\ older' = older \cup {o} /\ loading' = TRUE
      /\ UNCHANGED <<posted, socks, wire, generation, phase, timers, anchor, synced, ref, fetches, caught, group, visit,
                     log, hints, cache, scrollable, confirmed, slips>>
  BY <1>2 DEF Tab!LoadOlder, Tab!server, Tab!connection, Tab!paging
<1>4. Tab!Min(log) \in Tab!Lines /\ visit \in Tab!Turns /\ visit \in Nat /\ group \in Groups
  <2>1. Tab!Min(log) \in Tab!Lines
    BY <1>3, TabShown
  <2>2. visit \in 1..generation /\ generation \in 1..MaxTurn /\ MaxTurn \in Nat /\ group \in Groups
    BY <1>1 DEF TabTypes, TabSane
  <2> QED
    BY <2>1, <2>2 DEF Tab!Turns
<1>5. o \in Tab!Older /\ o.visit = visit /\ o.group = group /\ o.before = Tab!Min(log)
  BY <1>2, <1>4 DEF Tab!Older
<1>6. (\A g : Tab!Of(g)' = Tab!Of(g)) /\ \A f : PageSound(f)' <=> PageSound(f)
  BY <1>3, TabSame
<1>7. TabTypes'
  BY <1>1, <1>3, <1>5 DEF TabTypes
<1>8. TabConnected' /\ TabBegun'
  BY <1>1, <1>3, <1>6 DEF TabConnected, TabBegun
<1>9. TabBelongs'
  <2>1. \A k \in older' : k.visit <= visit
    BY <1>1, <1>3, <1>4, <1>5 DEF TabBelongs
  <2> QED
    BY <1>1, <1>3, <1>6, <2>1 DEF TabBelongs
<1>10. (\A f : Present(f)' <=> Present(f)) /\ Tab!Wired(generation)' = Tab!Wired(generation)
  BY <1>3 DEF Present, Tab!Wired
<1>11. TabFetches'
  BY <1>1, <1>3, <1>6, <1>10 DEF TabFetches
<1>12. ASSUME slips' = {} PROVE TabFresh'
  <2>1. TabFresh
    BY <1>1, <1>3, <1>12
  <2>2. (\A f : Awaited(f) => Awaited(f)') /\ (Stretch => Stretch')
    BY <1>3, <1>6, <1>10 DEF Awaited, Stretch
  <2>3. \A k \in older' : k.visit = visit => confirmed /\ k.group = group /\ k.before = Tab!Min(log)
    BY <1>3, <1>5, <2>1 DEF TabFresh
  <2> QED
    BY <1>3, <1>10, <2>1, <2>2, <2>3 DEF TabFresh
<1> QED
  BY <1>7, <1>8, <1>9, <1>11, <1>12 DEF TabInv

LEMMA TabOlderFails ==
  ASSUME TabSane, TabInv, NEW o \in older, Tab!OlderFails(o)
  PROVE  TabInv'
<1>1. TabTypes /\ TabConnected /\ TabBegun /\ TabBelongs /\ TabFetches /\ (slips = {} => TabFresh)
  BY DEF TabInv
<1>2. /\ older' \subseteq older /\ loading' = FALSE
      /\ UNCHANGED <<posted, socks, wire, generation, phase, timers, anchor, synced, ref, fetches, caught, group, visit,
                     log, hints, cache, scrollable, confirmed, slips>>
  BY DEF Tab!OlderFails, Tab!server, Tab!connection, Tab!paging
<1>3. (\A g : Tab!Of(g)' = Tab!Of(g)) /\ \A f : PageSound(f)' <=> PageSound(f)
  BY <1>2, TabSame
<1>4. (\A f : Present(f)' <=> Present(f)) /\ Tab!Wired(generation)' = Tab!Wired(generation)
  BY <1>2 DEF Present, Tab!Wired
<1>5. TabTypes' /\ TabConnected' /\ TabBegun'
  BY <1>1, <1>2, <1>3 DEF TabTypes, TabConnected, TabBegun
<1>6. TabBelongs' /\ TabFetches'
  BY <1>1, <1>2, <1>3, <1>4 DEF TabBelongs, TabFetches
<1>7. ASSUME slips' = {} PROVE TabFresh'
  <2>1. TabFresh
    BY <1>1, <1>2, <1>7
  <2>2. (\A f : Awaited(f) => Awaited(f)') /\ (Stretch => Stretch')
    BY <1>2, <1>3, <1>4 DEF Awaited, Stretch
  <2> QED
    BY <1>2, <1>4, <2>1, <2>2 DEF TabFresh
<1> QED
  BY <1>5, <1>6, <1>7 DEF TabInv

\* Another group: nothing that is under way is for its first turn.
LEMMA TabSwitch ==
  ASSUME TabSane, TabInv, NEW g \in Groups, Tab!Switch(g)
  PROVE  TabInv'
<1>1. TabTypes /\ TabConnected /\ TabBegun /\ TabBelongs /\ TabFetches /\ (slips = {} => TabFresh)
  BY DEF TabInv
<1>2. /\ generation < MaxTurn /\ generation' = generation + 1 /\ phase' = "connecting" /\ timers' = 0 /\ anchor' = 0
      /\ synced' = FALSE /\ socks' = socks \ Tab!Closed /\ wire' = {w \in wire : \A s \in Tab!Closed : w[1] # s.turn}
      /\ ref' = 0 /\ caught' = FALSE /\ group' = g /\ visit' = generation' /\ cache' = [cache EXCEPT ![group] = log]
      /\ log' = cache[g] /\ hints' = cache[g] /\ scrollable' = FALSE /\ loading' = FALSE /\ confirmed' = FALSE
      /\ UNCHANGED <<posted, fetches, older>>
  BY DEF Tab!Switch
<1>3. socks' = {} /\ wire' = {}
  <2>1. Tab!Closed = socks
    BY TabPresent DEF Tab!Closed, Tab!Current
  <2>2. ASSUME NEW w \in wire' PROVE FALSE
    <3>1. w \in wire /\ w[1] = generation
      BY <1>1, <1>2, <2>2 DEF TabConnected
    <3>2. PICK s \in socks : s.turn = generation
      BY <1>1, <3>1 DEF TabConnected
    <3> QED
      BY <1>2, <2>1, <2>2, <3>1, <3>2
  <2> QED
    BY <1>2, <2>1, <2>2
<1>4. (\A h : Tab!Of(h)' = Tab!Of(h)) /\ \A f : PageSound(f)' <=> PageSound(f)
  BY <1>2, TabSame
<1>5. generation \in Nat /\ MaxTurn \in Nat /\ generation' \in 1..MaxTurn /\ visit \in Nat /\ visit <= generation
      /\ visit' \in 1..generation' /\ Len(posted) \in Nat /\ MaxLines \in Nat
  BY <1>1, <1>2 DEF TabTypes, TabSane
<1>6. cache' \in [Groups -> SUBSET Tab!Lines] /\ \A h \in Groups : cache'[h] \subseteq Tab!Of(h)
  <2>1. cache \in [Groups -> SUBSET Tab!Lines] /\ log \subseteq Tab!Lines /\ log \subseteq Tab!Of(group) /\ group \in Groups
    BY <1>1, TabShown DEF TabTypes
  <2>2. cache' = [cache EXCEPT ![group] = log]
    BY <1>2
  <2>3. cache' \in [Groups -> SUBSET Tab!Lines]
    BY <2>1, <2>2
  <2>4. ASSUME NEW h \in Groups PROVE cache'[h] \subseteq Tab!Of(h)
    BY <1>1, <2>1, <2>2 DEF TabBelongs
  <2> QED
    BY <2>3, <2>4
<1>7. TabTypes'
  <2>1. 0 \in 0..MaxLines /\ ref' = 0 /\ anchor' = 0 /\ ref' <= Len(posted)
    BY <1>2, <1>5
  <2>2. phase' \in {"connecting", "opening", "connected", "offline", "refused"} /\ synced' \in BOOLEAN
        /\ caught' \in BOOLEAN /\ scrollable' \in BOOLEAN /\ loading' \in BOOLEAN /\ confirmed' \in BOOLEAN
        /\ wire' \subseteq Tab!Turns \X Tab!Lines
    BY <1>2, <1>3
  <2> QED
    BY <1>1, <1>2, <1>5, <1>6, <2>1, <2>2 DEF TabTypes
<1>8. TabConnected' /\ TabBegun'
  BY <1>2, <1>3 DEF TabConnected, TabBegun
<1>9. TabBelongs'
  <2>1. log' \subseteq Tab!Of(g) /\ hints' \subseteq log' /\ Tab!Of(group)' = Tab!Of(g)
    BY <1>1, <1>2, <1>4 DEF TabBelongs
  <2>2. \A o \in older : o.visit <= visit'
    <3>1. \A o \in older : o.visit \in Nat /\ o.visit <= visit
      BY <1>1 DEF TabBelongs, TabTypes, Tab!Older, Tab!Turns
    <3> QED
      BY <1>2, <1>5, <3>1
  <2> QED
    BY <1>2, <1>4, <1>6, <2>1, <2>2 DEF TabBelongs
<1>10. ASSUME NEW f \in fetches PROVE ~Present(f)' /\ f.turn <= generation'
  <2>1. f.turn \in Nat /\ f.turn <= generation
    BY <1>1 DEF TabTypes, Tab!Fetch, Tab!Turns, TabFetches
  <2> QED
    BY <1>2, <1>5, <2>1 DEF Present
<1>11. TabFetches'
  BY <1>1, <1>2, <1>4, <1>10 DEF TabFetches
<1>12. TabFresh'
  <2>1. \A f : Awaited(f)'
    BY <1>2 DEF Awaited
  <2>2. \A o \in older : o.visit # visit'
    <3>1. \A o \in older : o.visit \in Nat /\ o.visit <= visit
      BY <1>1 DEF TabBelongs, TabTypes, Tab!Older, Tab!Turns
    <3> QED
      BY <1>2, <1>5, <3>1
  <2> QED
    BY <1>2, <1>10, <2>1, <2>2 DEF TabFresh
<1> QED
  BY <1>7, <1>8, <1>9, <1>11, <1>12 DEF TabInv

LEMMA TabStutter == TabInv /\ UNCHANGED Tab!vars => TabInv'
<1> SUFFICES ASSUME TabInv, UNCHANGED Tab!vars PROVE TabInv'
  OBVIOUS
<1>1. TabTypes /\ TabConnected /\ TabBegun /\ TabBelongs /\ TabFetches /\ (slips = {} => TabFresh)
  BY DEF TabInv
<1>2. UNCHANGED <<posted, socks, wire, generation, phase, timers, anchor, synced, ref, fetches, caught, group, visit,
                  log, hints, cache, scrollable, older, loading, confirmed, slips>>
  BY DEF Tab!vars, Tab!server, Tab!connection, Tab!paging, Tab!stream
<1>3. (\A g : Tab!Of(g)' = Tab!Of(g)) /\ \A f : PageSound(f)' <=> PageSound(f)
  BY <1>2, TabSame
<1>4. (\A f : Present(f)' <=> Present(f)) /\ Tab!Wired(generation)' = Tab!Wired(generation)
  BY <1>2 DEF Present, Tab!Wired
<1>5. TabTypes' /\ TabConnected' /\ TabBegun'
  BY <1>1, <1>2, <1>3 DEF TabTypes, TabConnected, TabBegun
<1>6. TabBelongs' /\ TabFetches'
  BY <1>1, <1>2, <1>3, <1>4 DEF TabBelongs, TabFetches
<1>7. (\A f : Awaited(f) => Awaited(f)') /\ (Stretch => Stretch')
  BY <1>2, <1>3, <1>4 DEF Awaited, Stretch
<1>8. slips' = {} => TabFresh'
  BY <1>1, <1>2, <1>4, <1>7 DEF TabFresh
<1> QED
  BY <1>5, <1>6, <1>8 DEF TabInv

\* A page has its newest message for a cursor.
LEMMA TabPage ==
  ASSUME TabSane, TabInv, NEW f \in fetches, f.page # None
  PROVE  /\ f \in Tab!Fetch /\ f.page \in Tab!Page /\ PageSound(f)
         /\ f.page.items \in SUBSET Nat /\ IsFiniteSet(f.page.items) /\ f.page.items \subseteq Tab!Of(f.group)
         /\ \A m \in Tab!Of(f.group) : m \in Nat
         /\ f.page.stable \in Nat /\ f.page.stable \in 0..MaxLines /\ f.page.stable <= Len(posted)
         /\ f.page.stable # 0 => f.page.stable \in f.page.items /\ \A m \in f.page.items : m <= f.page.stable
<1>1. f \in Tab!Fetch /\ f.page \in Tab!Page /\ PageSound(f)
  BY DEF TabInv, TabTypes, TabFetches, Tab!Fetch
<1>2. f.page.items \subseteq Tab!Of(f.group) /\ f.page.stable = Tab!Top(f.page.items)
  BY <1>1 DEF PageSound
<1>3. Tab!Of(f.group) \subseteq Nat /\ IsFiniteSet(Tab!Of(f.group)) /\ \A m \in Tab!Of(f.group) : m <= Len(posted)
  BY TabPosted DEF TabInv
<1>4. f.page.items \in SUBSET Nat /\ IsFiniteSet(f.page.items)
  BY <1>2, <1>3, FS_Subset
<1>5. f.page.stable \in 0..MaxLines /\ MaxLines \in Nat /\ f.page.stable \in Nat /\ Len(posted) \in Nat
  BY <1>1 DEF Tab!Page, TabSane, TabInv, TabTypes
<1>6. f.page.items = {} => f.page.stable = 0
  BY <1>2 DEF Tab!Top
<1>7. f.page.items # {} => f.page.stable \in f.page.items /\ \A m \in f.page.items : m <= f.page.stable
  BY <1>2, <1>4, TabLeast
<1>8. f.page.stable <= Len(posted)
  BY <1>2, <1>3, <1>5, <1>6, <1>7
<1> QED
  BY <1>1, <1>2, <1>3, <1>4, <1>5, <1>6, <1>7, <1>8

\* The first page of a visit: what stays of the stream joins it without a gap.
LEMMA TabFirst ==
  ASSUME TabSane, TabInv, NEW f \in fetches, Tab!Answer(f), Present(f), f.first, slips' = {}
  PROVE  Stretch'
<1> DEFINE items == f.page.items
<1>1. TabTypes /\ TabConnected /\ TabBegun /\ TabBelongs /\ TabFetches /\ (slips = {} => TabFresh)
  BY DEF TabInv
<1>2. /\ f.page # None /\ ref' = f.page.stable /\ f.page.stable # 0 /\ slips = {} /\ ~Tab!Overtaken(items)
      /\ caught' = ~Tab!Following(f) /\ Tab!FirstPage(items)
      /\ UNCHANGED <<posted, wire, phase, generation, group>>
  BY DEF Tab!Answer, Present, Tab!server, Tab!connection
<1>3. /\ f.page \in Tab!Page /\ PageSound(f) /\ items \in SUBSET Nat /\ IsFiniteSet(items)
      /\ items \subseteq Tab!Of(f.group) /\ (\A m \in Tab!Of(f.group) : m \in Nat)
      /\ f.page.stable \in Nat /\ f.page.stable \in items /\ \A m \in items : m <= f.page.stable
  BY <1>2, TabPage
<1>4. f.group = group /\ f.cursor = 0
  BY <1>1 DEF TabFetches
<1> HIDE DEF items
<1>5. PICK low : low = Tab!Min(items)
  OBVIOUS
<1>6. low \in items /\ low \in Nat /\ (\A m \in items : low <= m) /\ low <= f.page.stable
  BY <1>3, <1>5, TabLeast
<1>7. /\ log' = {m \in log \ hints : m >= low} \cup items /\ hints' = {} /\ scrollable' = Tab!Full(items)
  BY <1>2, <1>5, <1>6 DEF Tab!FirstPage
<1>8. Tab!Min(log') = low
  <2>1. log \in SUBSET Nat /\ IsFiniteSet(log)
    BY TabShown
  <2>2. {m \in log \ hints : m >= low} \in SUBSET Nat /\ IsFiniteSet({m \in log \ hints : m >= low})
    BY <2>1, FS_Subset
  <2>3. log' \in SUBSET Nat /\ IsFiniteSet(log')
    BY <1>3, <1>7, <2>2, FS_Union
  <2>4. low \in log' /\ \A m \in log' : low <= m
    BY <1>6, <1>7, <2>1
  <2> QED
    BY <2>3, <2>4, TabLeastIs
<1>9. (\A g : Tab!Of(g)' = Tab!Of(g)) /\ Tab!Wired(generation)' = Tab!Wired(generation)
  BY <1>2, TabSame DEF Tab!Wired
<1>10. \A m \in Tab!Of(group) : low <= m /\ m <= f.page.stable => m \in items
  BY <1>3, <1>4, <1>6 DEF PageSound, items
<1>11. \A m \in Tab!Wired(generation) : low <= m
  <2>1. ASSUME NEW m \in Tab!Wired(generation) PROVE low <= m
    <3>1. ~(m < low)
      BY <1>2, <1>5, <1>6 DEF Tab!Overtaken
    <3>2. m \in Tab!Of(group)
      BY <1>1 DEF TabConnected, Tab!Wired
    <3>3. m \in Nat
      BY <1>3, <1>4, <3>2
    <3> QED
      BY <1>6, <3>1, <3>3
  <2> QED
    BY <2>1
<1>12. ASSUME phase = "connected", caught', NEW m \in Tab!Of(group), m > f.page.stable
       PROVE  m \in log' \cup Tab!Wired(generation)
  <2>1. f.page.next = 0
    BY <1>2, <1>12 DEF Tab!Following
  <2>2. Awaited(f)
    BY <1>1, <1>2 DEF TabFresh
  <2>3. m \in (log \ hints) \cup Tab!Wired(generation)
    BY <1>2, <1>12, <2>1, <2>2 DEF Awaited
  <2>4. m \in Nat /\ m >= low
    BY <1>3, <1>4, <1>6, <1>12
  <2> QED
    BY <1>7, <2>3, <2>4
<1>13. ASSUME ~scrollable', NEW m \in Tab!Of(group) PROVE low <= m
  <2>1. ~Tab!Full(items) /\ m \in Nat
    BY <1>3, <1>4, <1>7, <1>13
  <2>2. m <= f.page.stable => m \in items
    BY <1>3, <1>4, <2>1 DEF PageSound, items
  <2> QED
    BY <1>3, <1>6, <2>1, <2>2
<1>14. log' # {} /\ hints' = {} /\ Tab!Min(log') <= ref'
  BY <1>2, <1>6, <1>7, <1>8
<1>15. \A m \in Tab!Of(group)' : Tab!Min(log') <= m /\ m <= ref' => m \in log'
  BY <1>2, <1>7, <1>8, <1>9, <1>10
<1>16. \A m \in Tab!Wired(generation)' : Tab!Min(log') <= m
  BY <1>8, <1>9, <1>11
<1>17. phase' = "connected" /\ caught' => \A m \in Tab!Of(group)' : m > ref' => m \in log' \cup Tab!Wired(generation)'
  BY <1>2, <1>9, <1>12
<1>18. ~scrollable' => \A m \in Tab!Of(group)' : Tab!Min(log') <= m
  BY <1>2, <1>8, <1>9, <1>13
<1> QED
  BY <1>14, <1>15, <1>16, <1>17, <1>18 DEF Stretch

\* A further page begins where the stream's stretch ends.
LEMMA TabFurther ==
  ASSUME TabSane, TabInv, NEW f \in fetches, Tab!Answer(f), Present(f), ~f.first, slips' = {}, confirmed
  PROVE  Stretch' /\ Tab!Min(log') = Tab!Min(log)
<1> DEFINE items == f.page.items
<1>1. TabTypes /\ TabConnected /\ TabBegun /\ TabBelongs /\ TabFetches /\ (slips = {} => TabFresh)
  BY DEF TabInv
<1>2. /\ f.page # None /\ ref' = f.page.stable /\ f.page.stable # 0 /\ slips = {}
      /\ caught' = ~Tab!Following(f) /\ log' = log \cup items /\ hints' = hints \ items
      /\ UNCHANGED <<posted, wire, phase, generation, group, scrollable>>
  BY DEF Tab!Answer, Present, Tab!Merged, Tab!server, Tab!connection
<1>3. /\ f.page \in Tab!Page /\ PageSound(f) /\ items \in SUBSET Nat /\ IsFiniteSet(items)
      /\ items \subseteq Tab!Of(f.group) /\ (\A m \in Tab!Of(f.group) : m \in Nat)
      /\ f.page.stable \in Nat /\ f.page.stable \in items /\ \A m \in items : m <= f.page.stable
  BY <1>2, TabPage
<1>4. TabFresh /\ Stretch
  BY <1>1, <1>2 DEF TabFresh
<1>5. f.group = group /\ f.cursor = ref
  BY <1>1, <1>4 DEF TabFetches, TabFresh
<1>6. log # {} /\ hints = {} /\ Tab!Min(log) <= ref /\ Tab!Min(log) \in log /\ Tab!Min(log) \in Nat /\ Tab!Min(log) >= 1
  BY <1>4, TabShown DEF Stretch
<1>7. ref \in Nat /\ ref # 0
  BY <1>1, <1>6 DEF TabTypes, TabSane
<1>8. (\A m \in items : m > ref) /\ \A m \in Tab!Of(group) : m <= f.page.stable /\ m > ref => m \in items
  BY <1>3, <1>5, <1>7 DEF PageSound
<1> HIDE DEF items
<1>9. Tab!Min(log') = Tab!Min(log)
  <2>1. \A m \in items : Tab!Min(log) <= m
    BY <1>3, <1>6, <1>7, <1>8
  <2> QED
    BY <1>2, <1>3, <1>6, <2>1, TabJoined
<1>10. (\A g : Tab!Of(g)' = Tab!Of(g)) /\ Tab!Wired(generation)' = Tab!Wired(generation)
  BY <1>2, TabSame DEF Tab!Wired
<1>11. ASSUME NEW m \in Tab!Of(group), Tab!Min(log) <= m, m <= f.page.stable PROVE m \in log'
  <2>1. m \in Nat
    BY <1>3, <1>5
  <2>2. CASE m <= ref
    BY <1>2, <1>4, <1>11, <2>2 DEF Stretch
  <2>3. CASE m > ref
    BY <1>2, <1>8, <1>11, <2>3
  <2> QED
    BY <1>7, <2>1, <2>2, <2>3
<1>12. ASSUME phase = "connected", caught', NEW m \in Tab!Of(group), m > f.page.stable
       PROVE  m \in log' \cup Tab!Wired(generation)
  <2>1. f.page.next = 0
    BY <1>2, <1>12 DEF Tab!Following
  <2>2. Awaited(f)
    BY <1>4 DEF TabFresh
  <2>3. m \in (log \ hints) \cup Tab!Wired(generation)
    BY <1>2, <1>12, <2>1, <2>2 DEF Awaited
  <2> QED
    BY <1>2, <2>3
<1>13. log' # {} /\ hints' = {} /\ Tab!Min(log') <= ref'
  <2>1. Tab!Min(log) <= f.page.stable
    BY <1>3, <1>6, <1>7, <1>8
  <2> QED
    BY <1>2, <1>6, <1>9, <2>1
<1>14. \A m \in Tab!Of(group)' : Tab!Min(log') <= m /\ m <= ref' => m \in log'
  BY <1>2, <1>9, <1>10, <1>11
<1>15. \A m \in Tab!Wired(generation)' : Tab!Min(log') <= m
  BY <1>4, <1>9, <1>10 DEF Stretch
<1>16. phase' = "connected" /\ caught' => \A m \in Tab!Of(group)' : m > ref' => m \in log' \cup Tab!Wired(generation)'
  BY <1>2, <1>10, <1>12
<1>17. ~scrollable' => \A m \in Tab!Of(group)' : Tab!Min(log') <= m
  BY <1>2, <1>4, <1>9, <1>10 DEF Stretch
<1> QED
  BY <1>9, <1>13, <1>14, <1>15, <1>16, <1>17 DEF Stretch

\* A page is merged, moves the cursor and may ask for the next one; a superseded one
\* only moves the cursor, which is counted.
LEMMA TabAnswer ==
  ASSUME TabSane, TabInv, NEW f \in fetches, Tab!Answer(f)
  PROVE  TabInv'
<1> DEFINE h == Tab!Request(f.page.next, CatchUpLimit, FALSE)
<1>1. TabTypes /\ TabConnected /\ TabBegun /\ TabBelongs /\ TabFetches /\ (slips = {} => TabFresh)
  BY DEF TabInv
<1>2. /\ f.page # None /\ ref' = f.page.stable
      /\ slips' = {} => slips = {} /\ f.page.stable # 0 /\ f.turn = generation
      /\ UNCHANGED <<posted, socks, wire, generation, phase, timers, anchor, synced, group, visit, cache, older, loading>>
  BY DEF Tab!Answer, Tab!server, Tab!connection
<1>3. /\ f \in Tab!Fetch /\ f.page \in Tab!Page /\ PageSound(f)
      /\ f.page.items \subseteq Tab!Of(f.group)
      /\ f.page.stable \in 0..MaxLines /\ f.page.stable <= Len(posted)
  BY <1>2, TabPage
<1>4. ~Present(f) => fetches' = fetches \ {f} /\ UNCHANGED <<caught, log, hints, scrollable, confirmed>>
  BY DEF Tab!Answer, Present
<1>5. Present(f) => /\ fetches' = (fetches \ {f}) \cup (IF Tab!Following(f) THEN {h} ELSE {})
                    /\ caught' = ~Tab!Following(f) /\ f.group = group /\ synced
                    /\ phase \notin {"connecting", "opening"}
  BY <1>1 DEF Tab!Answer, Present, TabFetches
<1>6. Present(f) /\ f.first => Tab!FirstPage(f.page.items)
  BY DEF Tab!Answer, Present
<1>7. Present(f) /\ ~f.first => log' = log \cup f.page.items /\ hints' = hints \ f.page.items
                                /\ UNCHANGED <<scrollable, confirmed>>
  BY DEF Tab!Answer, Present, Tab!Merged
<1>8. h.turn = generation /\ h.group = group /\ h.cursor = f.page.next /\ h.limit = CatchUpLimit /\ h.first = FALSE
      /\ h.page = None
  BY DEF Tab!Request
<1>9. h \in Tab!Fetch
  <2>1. f.page.next \in 0..MaxLines /\ generation \in Tab!Turns /\ group \in Groups
    BY <1>1, <1>3 DEF TabTypes, Tab!Turns, Tab!Page
  <2> QED
    BY <2>1 DEF Tab!Request, Tab!Fetch
<1>10. Tab!Following(f) => f.page.next = f.page.stable
  BY <1>3 DEF Tab!Following, PageSound
<1> HIDE DEF h
<1>11. (\A g : Tab!Of(g)' = Tab!Of(g)) /\ \A e : PageSound(e)' <=> PageSound(e)
  BY <1>2, TabSame
<1>12. (\A e : Present(e)' <=> Present(e)) /\ Tab!Wired(generation)' = Tab!Wired(generation)
  BY <1>2 DEF Present, Tab!Wired
<1>13. \A e \in fetches' : (e \in fetches /\ e # f) \/ (e = h /\ Present(f) /\ Tab!Following(f))
  BY <1>4, <1>5
<1>14. ASSUME NEW e \in fetches', Present(e) 
       PROVE  (e = h /\ Present(f) /\ Tab!Following(f)) \/ (e \in fetches /\ ~Present(f))
  <2>1. ASSUME e \in fetches, e # f PROVE ~Present(f)
    BY <1>1, <1>14, <2>1 DEF TabFetches
  <2> QED
    BY <1>13, <2>1
<1>15. TabTypes'
  <2>1. fetches' \subseteq Tab!Fetch
    BY <1>1, <1>9, <1>13 DEF TabTypes
  <2>2. caught' \in BOOLEAN /\ scrollable' \in BOOLEAN /\ confirmed' \in BOOLEAN
    <3>1. caught \in BOOLEAN /\ scrollable \in BOOLEAN /\ confirmed \in BOOLEAN
      BY <1>1 DEF TabTypes
    <3>2. CASE ~Present(f)
      BY <1>4, <3>1, <3>2
    <3>3. CASE Present(f) /\ f.first
      BY <1>5, <1>6, <3>3 DEF Tab!FirstPage, Tab!Full, Tab!Following
    <3>4. CASE Present(f) /\ ~f.first
      BY <1>5, <1>7, <3>1, <3>4 DEF Tab!Following
    <3> QED
      BY <3>2, <3>3, <3>4
  <2> QED
    BY <1>1, <1>2, <1>3, <2>1, <2>2 DEF TabTypes
<1>16. TabConnected' /\ TabBegun'
  <2>1. TabConnected'
    BY <1>1, <1>2, <1>11 DEF TabConnected
  <2>2. TabBegun'
    BY <1>1, <1>2, <1>4, <1>5 DEF TabBegun
  <2> QED
    BY <2>1, <2>2
<1>17. TabBelongs'
  <2>1. log' \subseteq Tab!Of(group) /\ hints' \subseteq log' /\ (confirmed' => synced)
    <3>1. log \subseteq Tab!Of(group) /\ hints \subseteq log /\ (confirmed => synced)
      BY <1>1 DEF TabBelongs
    <3>2. CASE ~Present(f)
      BY <1>4, <3>1, <3>2
    <3>3. CASE Present(f) /\ f.first
      <4>1. log' \subseteq log \cup f.page.items /\ hints' = {}
        BY <1>6, <3>3 DEF Tab!FirstPage
      <4> QED
        BY <1>3, <1>5, <3>1, <3>3, <4>1
    <3>4. CASE Present(f) /\ ~f.first
      BY <1>3, <1>5, <1>7, <3>1, <3>4
    <3> QED
      BY <3>2, <3>3, <3>4
  <2> QED
    BY <1>1, <1>2, <1>11, <2>1 DEF TabBelongs
<1>18. TabFetches'
  <2>1. generation \in Nat
    BY <1>1 DEF TabTypes
  <2>2. ASSUME NEW e \in fetches'
        PROVE  /\ e.turn <= generation
               /\ Present(e) => e.group = group /\ synced /\ phase \notin {"connecting", "opening"}
               /\ Present(e) /\ e.first => ~confirmed'
               /\ e.first => e.cursor = 0 /\ e.limit = PageSize
               /\ e.page # None => PageSound(e)
    <3>1. CASE e \in fetches
      BY <1>1, <1>4, <1>8, <1>14, <3>1 DEF TabFetches
    <3>2. CASE e = h /\ Present(f)
      <4>1. h.turn <= generation
        BY <1>8, <2>1
      <4> QED
        BY <1>5, <1>8, <3>2, <4>1
    <3> QED
      BY <1>13, <3>1, <3>2
  <2>3. ASSUME NEW d \in fetches', NEW e \in fetches', Present(d), Present(e) PROVE d = e
    BY <1>1, <1>14, <2>3 DEF TabFetches
  <2> QED
    BY <1>2, <1>11, <1>12, <2>2, <2>3 DEF TabFetches
<1>19. ASSUME slips' = {} PROVE TabFresh'
  <2>1. slips = {} /\ f.page.stable # 0 /\ Present(f) /\ TabFresh
    BY <1>1, <1>2, <1>19 DEF Present
  <2>2. phase \notin {"connecting", "opening"}
    BY <1>5, <2>1
  <2>3. ASSUME NEW e \in fetches' PROVE (Present(e) /\ ~e.first => e.cursor = ref') /\ Awaited(e)'
    <3>1. CASE ~Present(e)
      BY <1>12, <3>1 DEF Awaited
    <3>2. CASE Present(e)
      <4>1. e = h /\ Tab!Following(f)
        BY <1>14, <2>1, <3>2
      <4>2. e.cursor = ref' /\ e.page = None
        BY <1>2, <1>8, <1>10, <4>1
      <4> QED
        BY <4>2 DEF Awaited
    <3> QED
      BY <3>1, <3>2
  <2>4. (scrollable' => confirmed') /\ (confirmed' => Stretch')
        /\ \A o \in older : o.visit = visit => confirmed' /\ o.group = group /\ o.before = Tab!Min(log')
    <3>1. CASE f.first
      <4>1. ~confirmed /\ confirmed'
        BY <1>1, <1>6, <2>1, <3>1 DEF TabFetches, Tab!FirstPage
      <4>2. \A o \in older : o.visit # visit
        BY <2>1, <4>1 DEF TabFresh
      <4>3. Stretch'
        BY <1>19, <2>1, <3>1, TabFirst
      <4> QED
        BY <4>1, <4>2, <4>3
    <3>2. CASE ~f.first
      <4>1. UNCHANGED <<scrollable, confirmed>>
        BY <1>7, <2>1, <3>2
      <4>2. confirmed => Stretch' /\ Tab!Min(log') = Tab!Min(log)
        BY <1>19, <2>1, <3>2, TabFurther
      <4> QED
        BY <2>1, <4>1, <4>2 DEF TabFresh
    <3> QED
      BY <3>1, <3>2
  <2> QED
    BY <1>2, <1>12, <2>2, <2>3, <2>4 DEF TabFresh
<1> QED
  BY <1>15, <1>16, <1>17, <1>18, <1>19 DEF TabInv

\* An older page of this visit ends where the stream begins.
LEMMA TabOlderAnswer ==
  ASSUME TabSane, TabInv, NEW o \in older, Tab!OlderAnswer(o)
  PROVE  TabInv'
<1> DEFINE S == {m \in Tab!Of(o.group) : m < o.before}
           items == Tab!Newest(S, PageSize)
<1>1. TabTypes /\ TabConnected /\ TabBegun /\ TabBelongs /\ TabFetches /\ (slips = {} => TabFresh)
  BY DEF TabInv
<1>2. /\ older' = older \ {o} /\ loading' = (loading /\ o.visit # visit)
      /\ slips' = (IF o.group = group /\ o.visit # visit THEN slips \cup {"older"} ELSE slips)
      /\ UNCHANGED <<posted, socks, wire, generation, phase, timers, anchor, synced, ref, fetches, caught, group, visit,
                     hints, cache, confirmed>>
  BY DEF Tab!OlderAnswer, Tab!Taken, Tab!server, Tab!connection, Tab!paging
<1>3. IF o.group = group THEN log' = log \cup items /\ scrollable' = Tab!Full(items) ELSE UNCHANGED <<log, scrollable>>
  BY DEF Tab!OlderAnswer, Tab!Taken
<1>4. S \in SUBSET Nat /\ IsFiniteSet(S) /\ S \subseteq Tab!Of(o.group) /\ PageSize \in Nat \ {0}
  <2>1. Tab!Of(o.group) \subseteq Nat /\ IsFiniteSet(Tab!Of(o.group))
    BY <1>1, TabPosted
  <2> QED
    BY <2>1, FS_Subset DEF TabSane
<1>5. \A m \in Tab!Of(o.group) : m \in S <=> m < o.before
  OBVIOUS
<1> HIDE DEF S
<1>6. /\ items \subseteq S
      /\ \A m \in S, k \in items : k <= m => m \in items
      /\ ~(Cardinality(items) >= PageSize) => items = S
      /\ S # {} => items # {}
  BY <1>4, TabNewest
<1>7. items \in SUBSET Nat /\ IsFiniteSet(items) /\ items \subseteq Tab!Of(o.group)
  BY <1>4, <1>6, FS_Subset
<1> HIDE DEF items
<1>8. (\A g : Tab!Of(g)' = Tab!Of(g)) /\ \A f : PageSound(f)' <=> PageSound(f)
  BY <1>2, TabSame
<1>9. (\A f : Present(f)' <=> Present(f)) /\ Tab!Wired(generation)' = Tab!Wired(generation)
  BY <1>2 DEF Present, Tab!Wired
<1>10. log \subseteq log' /\ log' \subseteq Tab!Of(group)
  BY <1>1, <1>3, <1>7 DEF TabBelongs
<1>11. TabTypes'
  <2>1. scrollable' \in BOOLEAN
    <3>1. scrollable \in BOOLEAN /\ Tab!Full(items) \in BOOLEAN
      BY <1>1 DEF TabTypes, Tab!Full
    <3> QED
      BY <1>3, <3>1
  <2>2. loading' \in BOOLEAN
    BY <1>2
  <2> QED
    BY <1>1, <1>2, <2>1, <2>2 DEF TabTypes
<1>12. TabConnected' /\ TabBegun'
  BY <1>1, <1>2, <1>8 DEF TabConnected, TabBegun
<1>13. TabBelongs'
  BY <1>1, <1>2, <1>8, <1>10 DEF TabBelongs
<1>14. TabFetches'
  BY <1>1, <1>2, <1>8, <1>9 DEF TabFetches
<1>15. ASSUME slips' = {} PROVE TabFresh'
  <2>1. slips = {} /\ TabFresh /\ (o.group = group => o.visit = visit)
    BY <1>1, <1>2, <1>15
  <2>2. \A f : Awaited(f) => Awaited(f)'
    BY <1>2, <1>8, <1>9, <1>10 DEF Awaited
  <2>3. CASE o.group # group
    <3>1. UNCHANGED <<log, scrollable>>
      BY <1>3, <2>3
    <3>2. Stretch => Stretch'
      BY <1>2, <1>8, <1>9, <3>1 DEF Stretch
    <3> QED
      BY <1>2, <1>9, <2>1, <2>2, <3>1, <3>2 DEF TabFresh
  <2>4. CASE o.group = group
    <3>1. o.before = Tab!Min(log) /\ confirmed /\ Stretch /\ o.visit = visit
      BY <2>1, <2>4 DEF TabFresh
    <3>2. log' = log \cup items /\ scrollable' = Tab!Full(items)
      BY <1>3, <2>4
    <3>3. log # {} /\ hints = {} /\ Tab!Min(log) <= ref /\ Tab!Min(log) \in log /\ Tab!Min(log) \in Nat
          /\ (\A m \in log : m \in Nat /\ Tab!Min(log) <= m) /\ IsFiniteSet(log) /\ \A m \in Tab!Of(group) : m \in Nat
      BY <3>1, TabShown DEF Stretch
    <3>4. \A k \in older' : k.visit # visit
      <4>1. ASSUME NEW k \in older, k.visit = visit PROVE k = o
        <5>1. k \in Tab!Older /\ o \in Tab!Older
          BY <1>1 DEF TabTypes
        <5>2. k.group = o.group /\ k.before = o.before /\ k.visit = o.visit
          BY <2>1, <2>4, <3>1, <4>1 DEF TabFresh
        <5> QED
          BY <5>1, <5>2 DEF Tab!Older
      <4> QED
        BY <1>2, <4>1
    <3>5. PICK low : low = Tab!Min(log')
      OBVIOUS
    <3>6. log' \in SUBSET Nat /\ IsFiniteSet(log') /\ log' # {}
      BY <1>7, <3>2, <3>3, FS_Union
    <3>7. low \in log' /\ low \in Nat /\ (\A m \in log' : low <= m) /\ low <= Tab!Min(log)
      BY <3>2, <3>3, <3>5, <3>6, TabLeast
    <3>8. ASSUME NEW m \in Tab!Of(group), low <= m, m < Tab!Min(log) PROVE m \in items
      <4>1. m \in S
        BY <1>5, <2>4, <3>1, <3>8
      <4>2. low \in items
        <5>1. low \notin log
          BY <3>3, <3>7, <3>8
        <5> QED
          BY <3>2, <3>7, <5>1
      <4> QED
        BY <1>6, <3>8, <4>1, <4>2
    <3>9. hints' = {} /\ low <= ref'
      <4>1. ref \in Nat
        BY <1>1 DEF TabTypes, TabSane
      <4> QED
        BY <1>2, <3>3, <3>7, <4>1
    <3>10. \A m \in Tab!Of(group) : low <= m /\ m <= ref => m \in log'
      <4>1. ASSUME NEW m \in Tab!Of(group), low <= m, m <= ref PROVE m \in log'
        <5>1. CASE m < Tab!Min(log)
          BY <3>2, <3>8, <4>1, <5>1
        <5>2. CASE Tab!Min(log) <= m
          BY <3>1, <3>2, <4>1, <5>2 DEF Stretch
        <5> QED
          BY <3>3, <5>1, <5>2
      <4> QED
        BY <4>1
    <3>11. \A m \in Tab!Wired(generation) : low <= m
      <4>1. ASSUME NEW m \in Tab!Wired(generation) PROVE low <= m
        <5>1. Tab!Min(log) <= m
          BY <3>1 DEF Stretch
        <5>2. m \in Nat
          <6>1. m \in Tab!Of(group)
            BY <1>1 DEF TabConnected, Tab!Wired
          <6> QED
            BY <3>3, <6>1
        <5> QED
          BY <3>3, <3>7, <5>1, <5>2
      <4> QED
        BY <4>1
    <3>12. phase = "connected" /\ caught => \A m \in Tab!Of(group) : m > ref => m \in log' \cup Tab!Wired(generation)
      BY <1>10, <3>1 DEF Stretch
    <3>13. ASSUME ~scrollable', NEW m \in Tab!Of(group) PROVE low <= m
      <4>1. items = S
        BY <1>6, <3>2, <3>13, TabCounts DEF Tab!Full
      <4>2. CASE m < Tab!Min(log)
        <5>1. m \in log'
          BY <1>5, <2>4, <3>1, <3>2, <4>1, <4>2
        <5> QED
          BY <3>7, <5>1
      <4>3. CASE Tab!Min(log) <= m
        BY <3>3, <3>7, <4>3
      <4> QED
        BY <3>3, <4>2, <4>3
    <3>14. Stretch'
      BY <1>2, <1>8, <1>9, <3>5, <3>6, <3>9, <3>10, <3>11, <3>12, <3>13 DEF Stretch
    <3> QED
      BY <1>2, <1>9, <2>1, <2>2, <3>1, <3>4, <3>14 DEF TabFresh
  <2> QED
    BY <2>3, <2>4
<1> QED
  BY <1>11, <1>12, <1>13, <1>14, <1>15 DEF TabInv

LEMMA TabStep == TabSane /\ TabInv /\ [Tab!Next]_Tab!vars => TabInv'
<1> SUFFICES ASSUME TabSane, TabInv, [Tab!Next]_Tab!vars PROVE TabInv'
  OBVIOUS
<1>1. ASSUME NEW g \in Groups, Tab!Post(g) PROVE TabInv'
  BY <1>1, TabPost
<1>2. ASSUME NEW g \in Groups, Tab!Switch(g) PROVE TabInv'
  BY <1>2, TabSwitch
<1>3. ASSUME NEW s \in socks, Tab!ServeWs(s) \/ Tab!OnClose(s) \/ Tab!OnMessage(s) PROVE TabInv'
  BY <1>3, TabServeWs, TabOnClose, TabOnMessage
<1>4. ASSUME NEW f \in fetches, Tab!Serve(f) \/ Tab!Answer(f) \/ Tab!FetchFails(f) PROVE TabInv'
  BY <1>4, TabServe, TabAnswer, TabFetchFails
<1>5. ASSUME NEW final \in BOOLEAN, Tab!TicketFails(final) PROVE TabInv'
  BY <1>5, TabTicketFails
<1>6. ASSUME NEW o \in older, Tab!OlderAnswer(o) \/ Tab!OlderFails(o) PROVE TabInv'
  BY <1>6, TabOlderAnswer, TabOlderFails
<1> QED
  BY <1>1, <1>2, <1>3, <1>4, <1>5, <1>6, TabConnect, TabOpenSocket, TabOnOpen, TabLoadOlder, TabStutter DEF Tab!Next

LEMMA TabInvariant == TabSane => (Tab!Spec => []TabInv)
<1>1. CASE TabSane
  <2>1. Tab!Init => TabInv
    BY <1>1, TabInitial
  <2>2. TabInv /\ [Tab!Next]_Tab!vars => TabInv'
    BY <1>1, TabStep
  <2> QED
    BY <2>1, <2>2, PTL DEF Tab!Spec
<1> QED
  BY <1>1

\* Nothing is missing above the oldest message shown once a catch-up has drained, as
\* long as none of the four slips of useChatMessages and chatSocketController has
\* happened in this visit: however connections break, pages and live messages
\* interleave and older pages arrive.
THEOREM TheTabCatchesUp == TabSane => (Tab!Spec => []Tab!CatchUpComplete)
<1>1. TabSane /\ TabInv => Tab!CatchUpComplete
  <2> SUFFICES ASSUME TabSane, TabInv, confirmed, slips = {}, phase = "connected", caught, log # {},
                      NEW m \in Tab!Of(group), m \notin log \cup Tab!Wired(generation)
               PROVE  m < Tab!Min(log)
    BY DEF Tab!CatchUpComplete, Tab!Gapless, Tab!Missing
  <2>1. Stretch
    BY DEF TabInv, TabFresh
  <2>2. m \in Nat /\ ref \in Nat /\ Tab!Min(log) \in Nat
    BY TabShown DEF TabInv, TabTypes, TabSane
  <2>3. ~(m > ref) /\ ~(Tab!Min(log) <= m /\ m <= ref)
    BY <2>1 DEF Stretch
  <2> QED
    BY <2>2, <2>3
<1>2. CASE TabSane
  <2>1. TabInv => Tab!CatchUpComplete
    BY <1>1, <1>2
  <2> QED
    BY <1>2, <2>1, TabInvariant, PTL
<1> QED
  BY <1>2

\* When the stream of useChatMessages offers no older page, nothing older than its
\* first message exists, but for the slips.
THEOREM TheTabKnowsTheEnd == TabSane => (Tab!Spec => []Tab!EndOfHistory)
<1>1. TabSane /\ TabInv => Tab!EndOfHistory
  <2> SUFFICES ASSUME TabSane, TabInv, confirmed, slips = {}, ~scrollable, log # {},
                      NEW m \in Tab!Of(group), m \notin log
               PROVE  m > Tab!Min(log)
    BY DEF Tab!EndOfHistory, Tab!Missing
  <2>1. Tab!Min(log) <= m
    BY DEF TabInv, TabFresh, Stretch
  <2>2. m \in Nat /\ Tab!Min(log) \in Nat /\ Tab!Min(log) \in log
    BY TabShown
  <2> QED
    BY <2>1, <2>2
<1>2. CASE TabSane
  <2>1. TabInv => Tab!EndOfHistory
    BY <1>1, <1>2
  <2> QED
    BY <1>2, <2>1, TabInvariant, PTL
<1> QED
  BY <1>2

\* chatSocketController never has two sockets, two timers, or a timer and a socket,
\* however connects, closes, failures and switches of the group interleave.
THEOREM OneConnectionOnly == TabSane => (Tab!Spec => []Tab!OneConnection)
<1>1. TabInv => Tab!OneConnection
  <2> SUFFICES ASSUME TabInv PROVE Cardinality(socks) + timers <= 1
    BY TabCounts DEF Tab!OneConnection
  <2>1. TabConnected /\ phase \in {"connecting", "opening", "connected", "offline", "refused"}
    BY DEF TabInv, TabTypes
  <2>2. CASE socks = {}
    <3>1. timers \in 0..1
      BY <2>1, <2>2 DEF TabConnected
    <3> QED
      BY <2>2, <3>1, FS_EmptySet
  <2>3. CASE socks # {}
    <3>1. PICK s \in socks : socks = {s} /\ timers = 0
      BY <2>3, TabPresent
    <3>2. Cardinality(socks) = 1
      BY <3>1, FS_Singleton
    <3> QED
      BY <3>1, <3>2
  <2> QED
    BY <2>2, <2>3
<1> QED
  BY <1>1, TabInvariant, PTL

\* The stream shows messages of its own group only, however late the answers to a
\* group that was left arrive.
THEOREM TheViewBelongs == TabSane => (Tab!Spec => []Tab!ViewBelongs)
<1>1. TabInv => Tab!ViewBelongs
  BY DEF TabInv, TabBelongs, Tab!ViewBelongs
<1> QED
  BY <1>1, TabInvariant, PTL
=============================================================================
