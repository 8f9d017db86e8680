------------------------ MODULE TimedChallengeProofs ------------------------
(* Proofs about TimedChallenge, for any users, requests, windows and clock. *)
EXTENDS TimedChallenge, TLAPS

USE PointAssumption, WindowAssumption

\* The inductive invariant.
Inv ==
  /\ TypeOK
  /\ DeadlinesConsistent
  /\ WindowsSound
  /\ RequestsSound
  /\ LockCoversInsert
  /\ GuessInsideFirstWindow
  /\ RepliesTellStoredGuess

LEMMA WithNewFacts ==
  ASSUME NEW table, NEW u, NEW row
  PROVE  /\ DOMAIN WithNew(table, u, row) = DOMAIN table \cup {u}
         /\ \A x \in DOMAIN table : WithNew(table, u, row)[x] = table[x]
         /\ u \notin DOMAIN table => WithNew(table, u, row)[u] = row
BY DEF With, WithNew

LEMMA InitInv == Init => Inv
<1> SUFFICES ASSUME Init PROVE Inv
  OBVIOUS
<1>1. /\ DOMAIN views = {} /\ DOMAIN guesses = {}
      /\ DOMAIN firstWindow = {} /\ DOMAIN sawResults = {}
  BY DEF Init
<1>2. Idle \in Request /\ Idle.pc = "idle" /\ Idle.at = 0 /\ Idle.shown = {} /\ Idle.status = "none"
  BY DEF Idle, Request, Ops, Steps, Statuses
<1>3. req = [r \in Requests |-> Idle] /\ now = 0 /\ removed = FALSE /\ blocked = {}
  BY DEF Init
<1>4. TypeOK
  BY <1>1, <1>2, <1>3 DEF TypeOK
<1>5. DeadlinesConsistent /\ WindowsSound /\ GuessInsideFirstWindow
  BY <1>1 DEF DeadlinesConsistent, WindowsSound, GuessInsideFirstWindow
<1>6. RequestsSound /\ LockCoversInsert /\ RepliesTellStoredGuess
  BY <1>2, <1>3 DEF RequestsSound, LockCoversInsert, RepliesTellStoredGuess
<1> QED
  BY <1>4, <1>5, <1>6 DEF Inv

\* A step that only moves one request, and keeps what is known of it.
LEMMA RequestOnlyInv ==
  ASSUME Inv, NEW r \in Requests,
         UNCHANGED <<world, tables, history>>,
         req' \in [Requests -> Request],
         \A q \in Requests \ {r} : req'[q] = req[q],
         req'[r].at <= now,
         req'[r].pc # "idle" => req'[r].user \in Users,
         req'[r].op = "guess" /\ req'[r].pc # "idle" => req'[r].point \in Points,
         req'[r].pc \in {"insert", "record"} =>
           /\ req'[r].user \in DOMAIN firstWindow
           /\ firstWindow[req'[r].user].viewExp <= req'[r].at,
         req'[r].pc = "insert" =>
           req'[r].op = "guess" /\ (req'[r].late <=> req'[r].at >= firstWindow[req'[r].user].guessExp),
         req'[r].pc = "record" => req'[r].at + TimeoutSkew >= firstWindow[req'[r].user].guessExp,
         req'[r].pc = "readback" => req'[r].user \in DOMAIN guesses,
         req'[r].pc = "insert" => ~RowLocked /\ req'[r].user \notin DOMAIN guesses,
         \A row \in req'[r].shown : req'[r].user \in DOMAIN guesses /\ guesses[req'[r].user] = row,
         req'[r].status = "guess_time_expired" => req'[r].user \in DOMAIN guesses
  PROVE  Inv'
<1>1. UNCHANGED <<now, removed, blocked, views, guesses, firstWindow, sawResults>>
  BY DEF world, tables, history
<1>2. TypeOK'
  BY <1>1 DEF Inv, TypeOK
<1>3. DeadlinesConsistent'
  BY <1>1 DEF Inv, DeadlinesConsistent
<1>4. WindowsSound'
  BY <1>1 DEF Inv, WindowsSound
<1>5. RequestsSound'
  BY <1>1 DEF Inv, RequestsSound
<1>6. GuessInsideFirstWindow'
  BY <1>1 DEF Inv, GuessInsideFirstWindow
<1>7. RepliesTellStoredGuess'
  BY <1>1 DEF Inv, RepliesTellStoredGuess
<1>8. LockCoversInsert'
  BY <1>1 DEF Inv, LockCoversInsert, RowLocked
<1> QED
  BY <1>2, <1>3, <1>4, <1>5, <1>6, <1>7, <1>8 DEF Inv

LEMMA ArriveInv ==
  ASSUME Inv, NEW r \in Requests, NEW u \in Users, NEW op \in Ops,
         NEW p \in Points \cup {NoPoint}, Arrive(r, u, op, p)
  PROVE  Inv'
<1>1. req' \in [Requests -> Request]
  BY DEF Inv, TypeOK, Arrive, Idle, Request, Steps, Statuses
<1>2. /\ req'[r].pc = "ready" /\ req'[r].user = u /\ req'[r].at = now /\ req'[r].op = op
      /\ req'[r].point = p /\ req'[r].shown = {} /\ req'[r].status = "none"
  BY DEF Inv, TypeOK, Arrive, Idle
<1>3. op = "guess" => p \in Points
  BY DEF Arrive
<1>4. \A q \in Requests \ {r} : req'[q] = req[q]
  BY DEF Inv, TypeOK, Arrive
<1>5. UNCHANGED <<world, tables, history>> /\ now \in Nat
  BY DEF Arrive, Inv, TypeOK
<1> QED
  BY <1>1, <1>2, <1>3, <1>4, <1>5, RequestOnlyInv

\* What Answer does to the requests.
LEMMA AnswerFacts ==
  ASSUME TypeOK, NEW r \in Requests, NEW status \in Statuses, NEW rows \in SUBSET GuessRow,
         Answer(r, status, rows)
  PROVE  /\ req' \in [Requests -> Request]
         /\ req'[r].pc = "replied" /\ req'[r].user = req[r].user /\ req'[r].at = req[r].at
         /\ req'[r].op = req[r].op /\ req'[r].point = req[r].point
         /\ req'[r].shown = rows /\ req'[r].status = status
         /\ \A q \in Requests \ {r} : req'[q] = req[q]
<1> DEFINE answered == [req[r] EXCEPT !.pc = "replied", !.status = status, !.shown = rows]
<1>1. req \in [Requests -> Request] /\ req[r] \in Request
  BY DEF TypeOK
<1>2. "replied" \in Steps
  BY DEF Steps
<1>3. answered \in Request
  BY <1>1, <1>2 DEF Request
<1>4. req' = [req EXCEPT ![r] = answered]
  BY <1>1 DEF Answer
<1>5. req' \in [Requests -> Request] /\ req'[r] = answered
      /\ \A q \in Requests \ {r} : req'[q] = req[q]
  BY <1>1, <1>3, <1>4
<1>6. /\ answered.pc = "replied" /\ answered.user = req[r].user /\ answered.at = req[r].at
      /\ answered.op = req[r].op /\ answered.point = req[r].point
      /\ answered.shown = rows /\ answered.status = status
  BY <1>1 DEF Request
<1> QED
  BY <1>5, <1>6

\* An answer that tells the stored row, or none, changes nothing else.
LEMMA AnswerInv ==
  ASSUME Inv, NEW r \in Requests, NEW status \in Statuses, NEW rows,
         UNCHANGED <<world, tables, history>>,
         req[r].pc # "idle",
         Answer(r, status, rows),
         \A row \in rows : req[r].user \in DOMAIN guesses /\ guesses[req[r].user] = row,
         status # "guess_time_expired"
  PROVE  Inv'
<1>1. rows \in SUBSET GuessRow
  BY DEF Inv, TypeOK
<1>2. TypeOK
  BY DEF Inv
<1> QED
  BY <1>1, <1>2, AnswerFacts, RequestOnlyInv DEF Inv, RequestsSound

\* Moving on to a step that needs no more than the request already had.
LEMMA GotoInv ==
  ASSUME Inv, NEW r \in Requests, NEW step \in {"streaming", "view", "record"},
         UNCHANGED <<world, tables, history>>,
         req[r].pc # "idle",
         Goto(r, step),
         step = "record" =>
           /\ req[r].user \in DOMAIN firstWindow
           /\ firstWindow[req[r].user].viewExp <= req[r].at
           /\ req[r].at + TimeoutSkew >= firstWindow[req[r].user].guessExp
  PROVE  Inv'
<1>1. req' \in [Requests -> Request]
  BY DEF Inv, TypeOK, Goto, Request, Steps
<1>2. /\ req'[r].pc = step /\ req'[r].user = req[r].user /\ req'[r].at = req[r].at
      /\ req'[r].op = req[r].op /\ req'[r].point = req[r].point
      /\ req'[r].shown = req[r].shown /\ req'[r].status = req[r].status
  BY DEF Inv, TypeOK, Goto, Request
<1>3. \A q \in Requests \ {r} : req'[q] = req[q]
  BY DEF Inv, TypeOK, Goto
<1>4. /\ req[r].at <= now
      /\ req[r].pc # "idle" => req[r].user \in Users
      /\ req[r].op = "guess" /\ req[r].pc # "idle" => req[r].point \in Points
      /\ \A row \in req[r].shown : req[r].user \in DOMAIN guesses /\ guesses[req[r].user] = row
      /\ req[r].status = "guess_time_expired" => req[r].user \in DOMAIN guesses
  BY DEF Inv, RequestsSound, RepliesTellStoredGuess
<1> QED
  BY <1>1, <1>2, <1>3, <1>4, RequestOnlyInv

LEMMA ForgetInv ==
  ASSUME Inv, NEW r \in Requests, Forget(r) \/ Abandon(r)
  PROVE  Inv'
<1>1. Idle \in Request /\ Idle.pc = "idle" /\ Idle.at = 0 /\ Idle.shown = {} /\ Idle.status = "none"
  BY DEF Idle, Request, Ops, Steps, Statuses
<1>2. req' = [req EXCEPT ![r] = Idle] /\ UNCHANGED <<world, tables, history>>
  BY DEF Forget, Abandon
<1>3. req' \in [Requests -> Request] /\ req'[r] = Idle /\ now \in Nat
  BY <1>1, <1>2 DEF Inv, TypeOK
<1>4. \A q \in Requests \ {r} : req'[q] = req[q]
  BY <1>2 DEF Inv, TypeOK
<1> QED
  BY <1>1, <1>2, <1>3, <1>4, RequestOnlyInv

\* The steps that only read the tables.
LEMMA ReadInv ==
  ASSUME Inv, NEW r \in Requests,
         \/ \E status \in Statuses : AcceptRefused(r, status)
         \/ StreamRefused(r) \/ StreamStart(r) \/ SubmitAnswered(r) \/ SubmitRead(r)
         \/ SubmitAborted(r) \/ TimeoutAnswered(r) \/ TimeoutUnguessed(r) \/ TimeoutReadView(r)
         \/ TimeoutDeadlocked(r) \/ TimeoutReadBack(r)
  PROVE  Inv'
<1>0. now \in Nat /\ req \in [Requests -> Request]
  BY DEF Inv, TypeOK
<1>1. ASSUME NEW status \in Statuses, AcceptRefused(r, status) PROVE Inv'
  <2>1. status # "guess_time_expired"
    BY <1>1 DEF AcceptRefused, Gate
  <2> QED
    BY <1>1, <2>1, AnswerInv DEF AcceptRefused, At
<1>2. CASE StreamRefused(r)
  <2>1. StreamRefusal(r) \in Statuses \ {"guess_time_expired"}
    BY DEF StreamRefusal, Statuses
  <2> QED
    BY <1>2, <2>1, AnswerInv DEF StreamRefused
<1>3. CASE StreamStart(r)
  BY <1>3, GotoInv DEF StreamStart
<1>4. CASE SubmitAnswered(r)
  <2>1. GuessRefusal(r) \in Statuses \ {"guess_time_expired"}
    BY DEF GuessRefusal, Gate, Statuses
  <2>2. GuessRefusal(r) = "duplicate" => req[r].user \in DOMAIN guesses
    BY DEF GuessRefusal, Gate
  <2> DEFINE rows == IF GuessRefusal(r) = "duplicate" THEN {guesses[req[r].user]} ELSE {}
  <2>3. \A row \in rows : req[r].user \in DOMAIN guesses /\ guesses[req[r].user] = row
    BY <2>2
  <2> QED
    BY <1>4, <2>1, <2>3, AnswerInv DEF SubmitAnswered, At
<1>5. CASE SubmitRead(r)
  <2> DEFINE u == req[r].user
  <2>1. /\ u \in DOMAIN views /\ views[u].delivered /\ ~(req[r].at < views[u].viewExp)
    BY <1>5 DEF SubmitRead, GuessRefusal, Gate
  <2>2. u \in DOMAIN firstWindow /\ views[u] = firstWindow[u] /\ views[u] \in ViewRow
    BY <2>1 DEF Inv, WindowsSound, TypeOK
  <2>a. (req[r].at >= views[u].guessExp) \in BOOLEAN
    OBVIOUS
  <2>b. /\ req' = [req EXCEPT ![r].pc = "insert", ![r].late = (req[r].at >= views[u].guessExp)]
        /\ req[r].pc = "ready" /\ req[r].op = "guess"
    BY <1>5 DEF SubmitRead, At
  <2>3. PICK late \in BOOLEAN :
          /\ late <=> req[r].at >= views[u].guessExp
          /\ req' = [req EXCEPT ![r].pc = "insert", ![r].late = late]
          /\ req[r].pc = "ready" /\ req[r].op = "guess"
    BY <2>a, <2>b, Zenon
  <2>c. "insert" \in Steps /\ req[r] \in Request
    BY <1>0 DEF Steps
  <2>d. [req[r] EXCEPT !.pc = "insert", !.late = late] \in Request
    BY <2>c DEF Request
  <2>e. req' = [req EXCEPT ![r] = [req[r] EXCEPT !.pc = "insert", !.late = late]]
    BY <1>0, <2>3
  <2>4. req' \in [Requests -> Request]
    BY <1>0, <2>d, <2>e
  <2>5. /\ req'[r].pc = "insert" /\ req'[r].user = u /\ req'[r].at = req[r].at
        /\ req'[r].op = "guess" /\ req'[r].point = req[r].point /\ req'[r].late = late
        /\ req'[r].shown = req[r].shown /\ req'[r].status = req[r].status
    BY <1>0, <2>3 DEF Request
  <2>6. \A q \in Requests \ {r} : req'[q] = req[q]
    BY <1>0, <2>3
  <2>7. firstWindow[u].viewExp <= req[r].at
    BY <1>0, <2>1, <2>2 DEF Request, ViewRow
  <2>8. UNCHANGED <<world, tables, history>>
    BY <1>5 DEF SubmitRead
  <2>9. ~RowLocked /\ u \notin DOMAIN guesses
    BY <1>5 DEF SubmitRead, GuessRefusal, Gate
  <2>10. /\ req[r].at <= now /\ u \in Users /\ req[r].point \in Points
         /\ \A row \in req[r].shown : u \in DOMAIN guesses /\ guesses[u] = row
         /\ req[r].status = "guess_time_expired" => u \in DOMAIN guesses
    BY <2>b DEF Inv, RequestsSound, RepliesTellStoredGuess
  <2> HIDE DEF u
  <2> QED
    BY <2>2, <2>3, <2>4, <2>5, <2>6, <2>7, <2>8, <2>9, <2>10, RequestOnlyInv
<1>6. CASE TimeoutDeadlocked(r)
  BY <1>6, AnswerInv DEF TimeoutDeadlocked, Statuses
<1>8. CASE SubmitAborted(r)
  <2>1. CASE req[r].tries + 1 < MaxAttempts
    <3>1. req' = [req EXCEPT ![r].pc = "ready", ![r].late = FALSE, ![r].tries = @ + 1]
      BY <1>8, <2>1 DEF SubmitAborted
    <3>2. req' \in [Requests -> Request]
      BY <1>0, <3>1 DEF Request, Steps
    <3>3. /\ req'[r].pc = "ready" /\ req'[r].user = req[r].user /\ req'[r].at = req[r].at
          /\ req'[r].op = req[r].op /\ req'[r].point = req[r].point
          /\ req'[r].shown = req[r].shown /\ req'[r].status = req[r].status
      BY <1>0, <3>1 DEF Request
    <3>4. (\A q \in Requests \ {r} : req'[q] = req[q]) /\ req[r].pc # "idle"
      BY <1>0, <1>8, <3>1 DEF SubmitAborted, At
    <3>5. UNCHANGED <<world, tables, history>>
      BY <1>8 DEF SubmitAborted
    <3> QED
      BY <3>2, <3>3, <3>4, <3>5, RequestOnlyInv DEF Inv, RequestsSound, RepliesTellStoredGuess
  <2>2. CASE ~(req[r].tries + 1 < MaxAttempts)
    BY <1>8, <2>2, AnswerInv DEF SubmitAborted, At, Statuses
  <2> QED
    BY <2>1, <2>2
<1>9. CASE TimeoutAnswered(r)
  <2>1. Gate(req[r].user) \in Statuses \ {"guess_time_expired"}
    BY DEF Gate, Statuses
  <2>2. CASE Gate(req[r].user) # "none" /\ Answer(r, Gate(req[r].user), {})
    BY <1>9, <2>1, <2>2, AnswerInv DEF TimeoutAnswered, At
  <2>3. CASE req[r].user \in DOMAIN guesses /\ Answer(r, "duplicate", {guesses[req[r].user]})
    BY <1>9, <2>3, AnswerInv DEF TimeoutAnswered, At, Statuses
  <2> QED
    BY <1>9, <2>2, <2>3 DEF TimeoutAnswered
<1>10. CASE TimeoutUnguessed(r)
  BY <1>10, GotoInv DEF TimeoutUnguessed, At
<1>11. CASE TimeoutReadView(r)
  <2> DEFINE u == req[r].user
  <2>1. CASE TimeoutRefusal(r) = "none"
    <3>1. /\ u \in DOMAIN views /\ views[u].delivered /\ ~(req[r].at < views[u].viewExp)
          /\ ~(req[r].at + TimeoutSkew < views[u].guessExp)
      BY <2>1 DEF TimeoutRefusal
    <3>2. u \in DOMAIN firstWindow /\ views[u] = firstWindow[u] /\ views[u] \in ViewRow
      BY <3>1 DEF Inv, WindowsSound, TypeOK
    <3>3. /\ firstWindow[u].viewExp <= req[r].at
          /\ req[r].at + TimeoutSkew >= firstWindow[u].guessExp
      BY <1>0, <3>1, <3>2 DEF Request, ViewRow
    <3> QED
      BY <1>11, <2>1, <3>2, <3>3, GotoInv DEF TimeoutReadView
  <2>2. CASE TimeoutRefusal(r) # "none"
    <3>1. TimeoutRefusal(r) \in Statuses \ {"guess_time_expired"}
      BY DEF TimeoutRefusal, Statuses
    <3> QED
      BY <1>11, <2>2, <3>1, AnswerInv DEF TimeoutReadView
  <2> QED
    BY <2>1, <2>2
<1>12. CASE TimeoutReadBack(r)
  <2>1. req[r].user \in DOMAIN guesses
    BY <1>12 DEF TimeoutReadBack, Inv, RequestsSound
  <2> QED
    BY <1>12, <2>1, AnswerInv DEF TimeoutReadBack, Statuses
<1> QED
  BY <1>1, <1>2, <1>3, <1>4, <1>5, <1>6, <1>8, <1>9, <1>10, <1>11, <1>12

-----------------------------------------------------------------------------
(* The steps that write a table. *)

\* An attempt is recorded unless there is one, and the request that recorded
\* it moves on.
LEMMA RecordInv ==
  ASSUME Inv, NEW r \in Requests, NEW row \in GuessRow,
         UNCHANGED <<world, views, history>>,
         req[r].pc # "idle",
         guesses' = WithNew(guesses, req[r].user, row),
         req' \in [Requests -> Request],
         \A q \in Requests \ {r} : req'[q] = req[q],
         req'[r].pc \in {"replied", "readback"},
         req'[r].user = req[r].user, req'[r].at = req[r].at,
         req'[r].op = req[r].op, req'[r].point = req[r].point,
         \A shown \in req'[r].shown : guesses'[req[r].user] = shown,
         req[r].pc = "insert" \/ ~RowLocked \/ req[r].user \in DOMAIN guesses,
         req[r].user \in DOMAIN firstWindow,
         row.at >= firstWindow[req[r].user].viewExp,
         IF row.timedOut THEN row.at + TimeoutSkew >= firstWindow[req[r].user].guessExp
                         ELSE row.at < firstWindow[req[r].user].guessExp
  PROVE  Inv'
<1> DEFINE u == req[r].user
<1>1. UNCHANGED <<now, removed, blocked, views, firstWindow, sawResults>>
  BY DEF world, history
<1>2. /\ DOMAIN guesses' = DOMAIN guesses \cup {u}
      /\ \A x \in DOMAIN guesses : guesses'[x] = guesses[x]
      /\ u \notin DOMAIN guesses => guesses'[u] = row
  BY DEF With, WithNew
<1>3. u \in Users
  BY DEF Inv, TypeOK
<1>4. TypeOK'
  BY <1>1, <1>2, <1>3 DEF Inv, TypeOK
<1>5. DeadlinesConsistent'
  BY <1>1 DEF Inv, DeadlinesConsistent
<1>6. WindowsSound'
  BY <1>1 DEF Inv, WindowsSound
<1>7. RequestsSound'
  BY <1>1, <1>2, <1>3 DEF Inv, RequestsSound
<1>8. GuessInsideFirstWindow'
  BY <1>1, <1>2 DEF Inv, GuessInsideFirstWindow
<1>9. RepliesTellStoredGuess'
  <2> SUFFICES ASSUME NEW q \in Requests
               PROVE  /\ \A shown \in req'[q].shown :
                           req'[q].user \in DOMAIN guesses' /\ guesses'[req'[q].user] = shown
                      /\ req'[q].status = "guess_time_expired" => req'[q].user \in DOMAIN guesses'
    BY DEF RepliesTellStoredGuess
  <2>1. CASE q = r
    BY <1>2, <2>1
  <2>2. CASE q # r
    BY <1>2, <2>2 DEF Inv, RepliesTellStoredGuess
  <2> QED
    BY <2>1, <2>2
<1>10. LockCoversInsert'
  BY <1>2 DEF Inv, LockCoversInsert, RowLocked
<1> QED
  BY <1>4, <1>5, <1>6, <1>7, <1>8, <1>9, <1>10 DEF Inv

LEMMA SubmitLateInv ==
  ASSUME Inv, NEW r \in Requests, SubmitLate(r)
  PROVE  Inv'
<1> DEFINE row == TimedOutRow(req[r].at)
<1>1. /\ UNCHANGED <<world, views, history>> /\ req[r].pc = "insert" /\ req[r].late
      /\ guesses' = WithNew(guesses, req[r].user, row)
      /\ Answer(r, "guess_time_expired", {})
  BY DEF SubmitLate
<1>2. TypeOK /\ req[r] \in Request
  BY DEF Inv, TypeOK
<1>3. row \in GuessRow /\ row.timedOut /\ row.at = req[r].at
  BY <1>2 DEF TimedOutRow, GuessRow, Request
<1>4. "guess_time_expired" \in Statuses /\ {} \in SUBSET GuessRow
  BY DEF Statuses
<1>5. /\ req' \in [Requests -> Request]
      /\ req'[r].pc = "replied" /\ req'[r].user = req[r].user /\ req'[r].at = req[r].at
      /\ req'[r].op = req[r].op /\ req'[r].point = req[r].point /\ req'[r].shown = {}
      /\ \A q \in Requests \ {r} : req'[q] = req[q]
  BY <1>1, <1>2, <1>4, AnswerFacts
<1>6. /\ req[r].user \in DOMAIN firstWindow
      /\ firstWindow[req[r].user].viewExp <= req[r].at
      /\ req[r].at >= firstWindow[req[r].user].guessExp
      /\ firstWindow[req[r].user] \in ViewRow
  BY <1>1 DEF Inv, RequestsSound, TypeOK
<1>7. row.at >= firstWindow[req[r].user].viewExp
      /\ row.at + TimeoutSkew >= firstWindow[req[r].user].guessExp
  BY <1>2, <1>3, <1>6 DEF ViewRow, Request
<1> QED
  BY <1>1, <1>3, <1>5, <1>6, <1>7, RecordInv

LEMMA SubmitInsertInv ==
  ASSUME Inv, NEW r \in Requests, SubmitInsert(r)
  PROVE  Inv'
<1> DEFINE row == [timedOut |-> FALSE, at |-> req[r].at, point |-> req[r].point]
<1>1. /\ UNCHANGED <<world, views, history>> /\ req[r].pc = "insert" /\ ~req[r].late
      /\ req[r].user \notin DOMAIN guesses
      /\ guesses' = With(guesses, req[r].user, row)
      /\ Answer(r, "created", {row})
  BY DEF SubmitInsert
<1>2. guesses' = WithNew(guesses, req[r].user, row) /\ guesses'[req[r].user] = row
  <2>1. With(guesses, req[r].user, row)[req[r].user] = row
    BY DEF With
  <2>2. WithNew(guesses, req[r].user, row) = With(guesses, req[r].user, row)
    BY <1>1 DEF WithNew
  <2> QED
    BY <1>1, <2>1, <2>2, Zenon
<1>3. TypeOK /\ req[r] \in Request
  BY DEF Inv, TypeOK
<1>4. row \in GuessRow /\ ~row.timedOut /\ row.at = req[r].at
  BY <1>3 DEF GuessRow, Request
<1>5. "created" \in Statuses /\ {row} \in SUBSET GuessRow
  BY <1>4 DEF Statuses
<1>6. /\ req' \in [Requests -> Request]
      /\ req'[r].pc = "replied" /\ req'[r].user = req[r].user /\ req'[r].at = req[r].at
      /\ req'[r].op = req[r].op /\ req'[r].point = req[r].point /\ req'[r].shown = {row}
      /\ \A q \in Requests \ {r} : req'[q] = req[q]
  BY <1>1, <1>3, <1>5, AnswerFacts
<1>7. /\ req[r].user \in DOMAIN firstWindow
      /\ firstWindow[req[r].user].viewExp <= req[r].at
      /\ ~(req[r].at >= firstWindow[req[r].user].guessExp)
      /\ firstWindow[req[r].user] \in ViewRow
  BY <1>1 DEF Inv, RequestsSound, TypeOK
<1>8. row.at >= firstWindow[req[r].user].viewExp /\ row.at < firstWindow[req[r].user].guessExp
  BY <1>3, <1>4, <1>7 DEF ViewRow, Request
<1>9. /\ guesses' = WithNew(guesses, req[r].user, row) /\ UNCHANGED <<world, views, history>>
      /\ \A shown \in req'[r].shown : guesses'[req[r].user] = shown
  BY <1>1, <1>2, <1>6
<1>10. req[r].pc = "insert" /\ row \in GuessRow /\ ~row.timedOut
  BY <1>1, <1>4
<1> HIDE DEF row
<1> QED
  BY <1>6, <1>7, <1>8, <1>9, <1>10, RecordInv

LEMMA TimeoutInsertInv ==
  ASSUME Inv, NEW r \in Requests, TimeoutInsert(r)
  PROVE  Inv'
<1> DEFINE row == TimedOutRow(req[r].at)
<1>1. /\ UNCHANGED <<world, views, history>> /\ req[r].pc = "record"
      /\ guesses' = WithNew(guesses, req[r].user, row)
      /\ req' = [req EXCEPT ![r] = [req[r] EXCEPT !.pc = "readback"]]
      /\ ~RowLocked \/ req[r].user \in DOMAIN guesses
  BY DEF TimeoutInsert, Goto
<1>2. TypeOK /\ req \in [Requests -> Request] /\ req[r] \in Request
  BY DEF Inv, TypeOK
<1>3. row \in GuessRow /\ row.timedOut /\ row.at = req[r].at
  BY <1>2 DEF TimedOutRow, GuessRow, Request
<1>4. [req[r] EXCEPT !.pc = "readback"] \in Request
  BY <1>2 DEF Request, Steps
<1>5. /\ req' \in [Requests -> Request]
      /\ req'[r].pc = "readback" /\ req'[r].user = req[r].user /\ req'[r].at = req[r].at
      /\ req'[r].op = req[r].op /\ req'[r].point = req[r].point
      /\ req'[r].shown = req[r].shown /\ req'[r].status = req[r].status
      /\ \A q \in Requests \ {r} : req'[q] = req[q]
  BY <1>1, <1>2, <1>4 DEF Request
<1>6. /\ req[r].user \in DOMAIN firstWindow
      /\ firstWindow[req[r].user].viewExp <= req[r].at
      /\ req[r].at + TimeoutSkew >= firstWindow[req[r].user].guessExp
  BY <1>1 DEF Inv, RequestsSound
<1>7. \A shown \in req'[r].shown : guesses'[req[r].user] = shown
  <2> SUFFICES ASSUME NEW shown \in req[r].shown
               PROVE  guesses'[req[r].user] = shown
    BY <1>5
  <2>1. req[r].user \in DOMAIN guesses /\ guesses[req[r].user] = shown
    BY DEF Inv, RepliesTellStoredGuess
  <2>2. WithNew(guesses, req[r].user, row)[req[r].user] = guesses[req[r].user]
    BY <2>1 DEF With, WithNew
  <2> QED
    BY <1>1, <2>1, <2>2, Zenon
<1>8. row.at >= firstWindow[req[r].user].viewExp
      /\ row.at + TimeoutSkew >= firstWindow[req[r].user].guessExp
  BY <1>2, <1>3, <1>6 DEF TypeOK, ViewRow, Request
<1> QED
  BY <1>1, <1>3, <1>5, <1>6, <1>7, <1>8, RecordInv

LEMMA GetResultsInv ==
  ASSUME Inv, NEW r \in Requests, GetResults(r)
  PROVE  Inv'
<1> DEFINE u == req[r].user
<1>1. UNCHANGED <<world, tables, firstWindow>> /\ req[r].pc = "ready"
  BY DEF GetResults, At
<1>2. CASE UNCHANGED sawResults
  <2>1. UNCHANGED <<world, tables, history>>
    BY <1>1, <1>2 DEF history
  <2>2. PICK status \in {"not_found", "forbidden", "results_not_available", "results"} :
          Answer(r, status, {})
    BY DEF GetResults
  <2>3. status \in Statuses
    BY DEF Statuses
  <2> QED
    BY <1>1, <2>1, <2>2, <2>3, AnswerInv
<1>3. CASE ~UNCHANGED sawResults
  <2>1. /\ Answer(r, "results", {}) /\ MayViewResults(u, req[r].at)
        /\ u # Owner /\ u \notin DOMAIN guesses
        /\ sawResults' = WithNew(sawResults, u, req[r].at)
    BY <1>3 DEF GetResults
  <2>2. TypeOK /\ req \in [Requests -> Request] /\ req[r] \in Request /\ u \in Users
    BY <1>1 DEF Inv, TypeOK, RequestsSound
  <2>3. "results" \in Statuses /\ {} \in SUBSET GuessRow
    BY DEF Statuses
  <2>4. /\ req' \in [Requests -> Request]
        /\ req'[r].pc = "replied" /\ req'[r].user = u /\ req'[r].at = req[r].at
        /\ req'[r].op = req[r].op /\ req'[r].point = req[r].point
        /\ req'[r].shown = {} /\ req'[r].status = "results"
        /\ \A q \in Requests \ {r} : req'[q] = req[q]
    BY <2>1, <2>2, <2>3, AnswerFacts
  <2>5. ExpiresAt <= req[r].at /\ req[r].at \in Nat
    BY <2>1, <2>2 DEF MayViewResults, Request
  <2>6. /\ DOMAIN sawResults' = DOMAIN sawResults \cup {u}
        /\ \A x \in DOMAIN sawResults : sawResults'[x] = sawResults[x]
        /\ u \notin DOMAIN sawResults => sawResults'[u] = req[r].at
    <3>1. LET new == WithNew(sawResults, u, req[r].at) IN
          /\ DOMAIN new = DOMAIN sawResults \cup {u}
          /\ \A x \in DOMAIN sawResults : new[x] = sawResults[x]
          /\ u \notin DOMAIN sawResults => new[u] = req[r].at
      BY WithNewFacts, Zenon
    <3> QED
      BY <2>1, <3>1, Zenon
  <2>7. UNCHANGED <<now, removed, blocked, views, guesses, firstWindow>>
    BY <1>1 DEF world, tables
  <2>8. TypeOK'
    BY <2>2, <2>4, <2>5, <2>6, <2>7 DEF TypeOK
  <2>9. DeadlinesConsistent' /\ GuessInsideFirstWindow'
    BY <2>7 DEF Inv, DeadlinesConsistent, GuessInsideFirstWindow
  <2>10. WindowsSound'
    BY <2>5, <2>6, <2>7 DEF Inv, WindowsSound
  <2>11. RequestsSound'
    BY <1>1, <2>2, <2>4, <2>7 DEF Inv, RequestsSound
  <2>12. RepliesTellStoredGuess' /\ LockCoversInsert'
    BY <2>4, <2>7 DEF Inv, RepliesTellStoredGuess, LockCoversInsert
  <2> QED
    BY <2>8, <2>9, <2>10, <2>11, <2>12 DEF Inv
<1> QED
  BY <1>2, <1>3

\* A request that is still within its latency finds the view row of every
\* player whose window it could otherwise open a second time.
LEMMA AuditKeepsRow ==
  ASSUME Inv, AuditCoversChallenge, NEW r \in Requests,
         now <= req[r].at + RequestLatency, ~Expired(req[r].at),
         req[r].user \notin DOMAIN views
  PROVE  req[r].user \notin DOMAIN firstWindow
<1>1. now \in Nat /\ req[r].at \in Nat
  BY DEF Inv, TypeOK, Request
<1>2. now <= AuditPeriod + ViewWindow
  BY <1>1 DEF Expired, AuditCoversChallenge
<1>3. ~(AuditPeriod + ViewWindow < now)
  BY <1>1, <1>2
<1> QED
  BY <1>3 DEF Inv, WindowsSound

LEMMA AcceptChallengeInv ==
  ASSUME Inv, AuditCoversChallenge, NEW r \in Requests, Timely(r), AcceptChallenge(r)
  PROVE  Inv'
<1> DEFINE u == req[r].user
           at == req[r].at
           row == AcceptedRow(at)
<1>1. /\ req[r].pc = "ready" /\ ~Expired(at) /\ Answer(r, "accepted", {})
      /\ views' = WithNew(views, u, row) /\ UNCHANGED <<world, guesses, history>>
  BY DEF AcceptChallenge, At
<1>2. TypeOK /\ req \in [Requests -> Request] /\ req[r] \in Request /\ u \in Users /\ at \in Nat
  BY <1>1 DEF Inv, TypeOK, RequestsSound, Request
<1>3. "accepted" \in Statuses /\ {} \in SUBSET GuessRow
  BY DEF Statuses
<1>4. /\ req' \in [Requests -> Request]
      /\ req'[r].pc = "replied" /\ req'[r].user = u /\ req'[r].at = at
      /\ req'[r].op = req[r].op /\ req'[r].point = req[r].point
      /\ req'[r].shown = {} /\ req'[r].status = "accepted"
      /\ \A q \in Requests \ {r} : req'[q] = req[q]
  BY <1>1, <1>2, <1>3, AnswerFacts
<1>5. /\ row \in ViewRow /\ ~row.delivered /\ ViewWindow <= row.viewExp /\ row.viewExp <= ExpiresAt
      /\ row.guessExp = Earlier(row.viewExp + GuessWindow, ExpiresAt)
  BY <1>2 DEF AcceptedRow, Earlier, ViewRow
<1>6. /\ DOMAIN views' = DOMAIN views \cup {u}
      /\ \A x \in DOMAIN views : views'[x] = views[x]
      /\ u \notin DOMAIN views => views'[u] = row
  <2>1. LET new == WithNew(views, u, row) IN
        /\ DOMAIN new = DOMAIN views \cup {u}
        /\ \A x \in DOMAIN views : new[x] = views[x]
        /\ u \notin DOMAIN views => new[u] = row
    BY WithNewFacts, Zenon
  <2> QED
    BY <1>1, <2>1, Zenon
<1>7. UNCHANGED <<now, removed, blocked, guesses, firstWindow, sawResults>>
  BY <1>1 DEF world, history
<1>8. u \notin DOMAIN views => u \notin DOMAIN firstWindow
  BY <1>1, AuditKeepsRow DEF Timely
<1>9. TypeOK'
  BY <1>2, <1>4, <1>5, <1>6, <1>7 DEF TypeOK
<1>10. DeadlinesConsistent'
  BY <1>5, <1>6 DEF Inv, DeadlinesConsistent
<1>11. WindowsSound'
  BY <1>5, <1>6, <1>7, <1>8 DEF Inv, WindowsSound
<1>12. RequestsSound'
  BY <1>1, <1>2, <1>4, <1>7 DEF Inv, RequestsSound
<1>13. GuessInsideFirstWindow' /\ RepliesTellStoredGuess' /\ LockCoversInsert'
  BY <1>4, <1>7 DEF Inv, GuessInsideFirstWindow, RepliesTellStoredGuess, LockCoversInsert
<1> QED
  BY <1>9, <1>10, <1>11, <1>12, <1>13 DEF Inv

\* The first delivery opens the window; a later one changes nothing.
LEMMA DeliverInv ==
  ASSUME Inv, NEW r \in Requests, NEW status \in Statuses,
         req[r].pc # "idle", status # "guess_time_expired",
         MarkMediaDelivered(req[r].user, req[r].at), Answer(r, status, {}),
         UNCHANGED <<world, guesses, sawResults>>
  PROVE  Inv'
<1> DEFINE u == req[r].user
           at == req[r].at
           row == DeliveredRow(at)
<1>1. CASE UNCHANGED <<views, firstWindow>>
  <2>1. UNCHANGED <<world, tables, history>>
    BY <1>1 DEF tables, history
  <2> QED
    BY <2>1, AnswerInv
<1>2. CASE ~UNCHANGED <<views, firstWindow>>
  <2>1. /\ u \in DOMAIN views /\ ~views[u].delivered
        /\ views' = With(views, u, row) /\ firstWindow' = WithNew(firstWindow, u, row)
    BY <1>2 DEF MarkMediaDelivered
  <2>2. TypeOK /\ req \in [Requests -> Request] /\ req[r] \in Request /\ u \in Users /\ at \in Nat
    BY DEF Inv, TypeOK, RequestsSound, Request
  <2>3. u \notin DOMAIN firstWindow
    BY <2>1 DEF Inv, WindowsSound
  <2>4. /\ row \in ViewRow /\ row.delivered /\ ViewWindow <= row.viewExp
        /\ row.viewExp <= ExpiresAt /\ row.viewExp <= row.guessExp /\ row.guessExp <= ExpiresAt
        /\ row.guessExp = Earlier(row.viewExp + GuessWindow, ExpiresAt)
    BY <2>2 DEF DeliveredRow, Earlier, ViewRow
  <2>5. /\ DOMAIN views' = DOMAIN views
        /\ \A x \in DOMAIN views : x # u => views'[x] = views[x]
        /\ views'[u] = row
    BY <2>1 DEF With
  <2>6. /\ DOMAIN firstWindow' = DOMAIN firstWindow \cup {u}
        /\ \A x \in DOMAIN firstWindow : firstWindow'[x] = firstWindow[x]
        /\ firstWindow'[u] = row
    BY <2>1, <2>3 DEF With, WithNew
  <2>7. /\ req' \in [Requests -> Request]
        /\ req'[r].pc = "replied" /\ req'[r].user = u /\ req'[r].at = at
        /\ req'[r].op = req[r].op /\ req'[r].point = req[r].point
        /\ req'[r].shown = {} /\ req'[r].status = status
        /\ \A q \in Requests \ {r} : req'[q] = req[q]
    <3>1. {} \in SUBSET GuessRow
      OBVIOUS
    <3> QED
      BY <2>2, <3>1, AnswerFacts
  <2>8. UNCHANGED <<now, removed, blocked, guesses, sawResults>>
    BY DEF world
  <2>9. TypeOK'
    BY <2>2, <2>4, <2>5, <2>6, <2>7, <2>8 DEF TypeOK
  <2>10. DeadlinesConsistent'
    BY <2>4, <2>5 DEF Inv, DeadlinesConsistent
  <2>11. WindowsSound'
    <3>1. \A v \in DOMAIN views' :
            ViewWindow <= views'[v].viewExp /\ (views'[v].delivered => v \in DOMAIN firstWindow')
      BY <2>4, <2>5, <2>6 DEF Inv, WindowsSound
    <3>2. ASSUME NEW v \in DOMAIN firstWindow'
          PROVE  /\ firstWindow'[v].delivered
                 /\ firstWindow'[v].viewExp <= firstWindow'[v].guessExp
                 /\ firstWindow'[v].guessExp <= ExpiresAt
                 /\ IF v \in DOMAIN views' THEN views'[v] = firstWindow'[v]
                                            ELSE AuditPeriod + ViewWindow < now'
      <4>1. CASE v = u
        BY <2>1, <2>4, <2>5, <2>6, <4>1
      <4>2. CASE v # u
        <5>1. v \in DOMAIN firstWindow /\ firstWindow'[v] = firstWindow[v]
          BY <2>6, <4>2
        <5>2. v \in DOMAIN views => views'[v] = views[v]
          BY <2>5, <4>2
        <5> QED
          BY <2>5, <2>8, <5>1, <5>2 DEF Inv, WindowsSound
      <4> QED
        BY <4>1, <4>2
    <3> QED
      BY <2>8, <3>1, <3>2 DEF Inv, WindowsSound
  <2>12. RequestsSound'
    BY <2>2, <2>6, <2>7, <2>8 DEF Inv, RequestsSound
  <2>13. GuessInsideFirstWindow'
    BY <2>6, <2>8 DEF Inv, GuessInsideFirstWindow
  <2>14. RepliesTellStoredGuess' /\ LockCoversInsert'
    BY <2>7, <2>8 DEF Inv, RepliesTellStoredGuess, LockCoversInsert
  <2> QED
    BY <2>9, <2>10, <2>11, <2>12, <2>13, <2>14 DEF Inv
<1> QED
  BY <1>1, <1>2

LEMMA TickInv ==
  ASSUME Inv, Tick
  PROVE  Inv'
<1>1. /\ now' = now + 1 /\ now \in Nat
      /\ UNCHANGED <<removed, blocked, views, guesses, req, firstWindow, sawResults>>
  BY DEF Tick, tables, history, Inv, TypeOK
<1>2. TypeOK'
  BY <1>1 DEF Inv, TypeOK
<1>3. DeadlinesConsistent' /\ GuessInsideFirstWindow' /\ RepliesTellStoredGuess' /\ LockCoversInsert'
  BY <1>1 DEF Inv, DeadlinesConsistent, GuessInsideFirstWindow, RepliesTellStoredGuess, LockCoversInsert
<1>4. WindowsSound'
  BY <1>1 DEF Inv, WindowsSound
<1>5. RequestsSound'
  BY <1>1 DEF Inv, TypeOK, RequestsSound, Request
<1> QED
  BY <1>2, <1>3, <1>4, <1>5 DEF Inv

LEMMA ExpireChallengeViewsInv ==
  ASSUME Inv, ExpireChallengeViews
  PROVE  Inv'
<1> DEFINE kept == {u \in DOMAIN views : views[u].viewExp + AuditPeriod >= now}
<1>1. /\ views' = [u \in kept |-> views[u]]
      /\ UNCHANGED <<now, removed, blocked, guesses, req, firstWindow, sawResults>>
  BY DEF ExpireChallengeViews, world, history
<1>2. DOMAIN views' \subseteq DOMAIN views /\ \A u \in DOMAIN views' : views'[u] = views[u]
  BY <1>1
<1>3. TypeOK'
  BY <1>1, <1>2 DEF Inv, TypeOK
<1>4. /\ DeadlinesConsistent' /\ GuessInsideFirstWindow' /\ RepliesTellStoredGuess'
      /\ RequestsSound' /\ LockCoversInsert'
  BY <1>1, <1>2
     DEF Inv, DeadlinesConsistent, GuessInsideFirstWindow, RepliesTellStoredGuess, RequestsSound,
         LockCoversInsert
<1>5. \A u \in DOMAIN views \ DOMAIN views' : AuditPeriod + ViewWindow < now
  <2> SUFFICES ASSUME NEW u \in DOMAIN views, u \notin kept
               PROVE  AuditPeriod + ViewWindow < now
    BY <1>1
  <2>1. views[u].viewExp \in Nat /\ now \in Nat /\ ViewWindow <= views[u].viewExp
    BY DEF Inv, TypeOK, ViewRow, WindowsSound
  <2> QED
    BY <2>1
<1>6. WindowsSound'
  BY <1>1, <1>2, <1>5 DEF Inv, WindowsSound
<1> QED
  BY <1>3, <1>4, <1>6 DEF Inv

LEMMA EnvironmentInv ==
  ASSUME Inv, Environment
  PROVE  Inv'
<1>1. CASE \/ \E u \in Blockable \ {Owner} : BlockUser(u) \/ UnblockUser(u)
           \/ RetireRetainedMedia
  <2>1. UNCHANGED <<now, views, guesses, req, firstWindow, sawResults>>
    BY <1>1 DEF BlockUser, UnblockUser, RetireRetainedMedia, tables, history
  <2>2. TypeOK'
    BY <1>1, <2>1 DEF Inv, TypeOK, BlockUser, UnblockUser, RetireRetainedMedia
  <2>3. DeadlinesConsistent' /\ WindowsSound' /\ RequestsSound'
    BY <2>1 DEF Inv, DeadlinesConsistent, WindowsSound, RequestsSound
  <2>4. GuessInsideFirstWindow' /\ RepliesTellStoredGuess' /\ LockCoversInsert'
    BY <2>1 DEF Inv, GuessInsideFirstWindow, RepliesTellStoredGuess, LockCoversInsert
  <2> QED
    BY <2>2, <2>3, <2>4 DEF Inv
<1> QED
  BY <1>1, TickInv, ExpireChallengeViewsInv DEF Environment

LEMMA ServeInv ==
  ASSUME Inv, AuditCoversChallenge, NEW r \in Requests, Timely(r), Serve(r)
  PROVE  Inv'
<1>1. CASE StreamComplete(r)
  <2>1. "served" \in Statuses
    BY DEF Statuses
  <2> QED
    BY <1>1, <2>1, DeliverInv DEF StreamComplete
<1>2. CASE ConfirmMediaDelivered(r)
  <2> DEFINE status == IF req[r].user \in DOMAIN views \ blocked THEN "confirmed" ELSE "forbidden"
  <2>1. status \in Statuses \ {"guess_time_expired"}
    BY DEF Statuses
  <2> QED
    BY <1>2, <2>1, DeliverInv DEF ConfirmMediaDelivered, At
<1> QED
  BY <1>1, <1>2, ReadInv, AcceptChallengeInv, SubmitLateInv, SubmitInsertInv, TimeoutInsertInv,
     GetResultsInv DEF Serve

LEMMA NextInv ==
  ASSUME Inv, AuditCoversChallenge, [Next]_vars
  PROVE  Inv'
<1>1. CASE UNCHANGED vars
  BY <1>1 DEF vars, Inv, TypeOK, DeadlinesConsistent, WindowsSound, RequestsSound,
              GuessInsideFirstWindow, RepliesTellStoredGuess, LockCoversInsert
<1>2. CASE Next
  <2>1. ASSUME NEW r \in Requests, Step(r) PROVE Inv'
    BY <2>1, ServeInv, ForgetInv DEF Step
  <2> QED
    BY <1>2, <2>1, ArriveInv, EnvironmentInv DEF Next
<1> QED
  BY <1>1, <1>2

-----------------------------------------------------------------------------
(* The properties, for every value of the constants. *)

\* Every reachable state satisfies the inductive invariant.
THEOREM InvHolds ==
  ASSUME AuditCoversChallenge
  PROVE  Spec => []Inv
<1>1. Inv /\ [Next]_vars => Inv'
  BY NextInv
<1> QED
  BY <1>1, InitInv, PTL DEF Spec

\* The rows, the requests and the history keep their types.
THEOREM TypeCorrect ==
  ASSUME AuditCoversChallenge
  PROVE  Spec => []TypeOK
<1>1. Inv => TypeOK
  BY DEF Inv
<1> QED
  BY <1>1, InvHolds, PTL

\* Whatever requests race, an attempt was sent inside the window the player's
\* first delivery opened (TimeoutGuess, submitGuessOnce, MarkMediaDelivered).
THEOREM GuessesInsideWindow ==
  ASSUME AuditCoversChallenge
  PROVE  Spec => []GuessInsideFirstWindow
<1>1. Inv => GuessInsideFirstWindow
  BY DEF Inv
<1> QED
  BY <1>1, InvHolds, PTL

\* Nobody who saw the results first has a guess that counts: CanViewResults
\* opens them only when no window can still be open.
THEOREM ResultsAfterGuesses ==
  ASSUME AuditCoversChallenge
  PROVE  Spec => []NoGuessAfterResults
<1>1. Inv => NoGuessAfterResults
  <2> SUFFICES ASSUME Inv, NEW u \in DOMAIN guesses \cap DOMAIN sawResults, ~guesses[u].timedOut
               PROVE  guesses[u].at < sawResults[u]
    BY DEF NoGuessAfterResults
  <2>1. u \in DOMAIN firstWindow /\ guesses[u].at < firstWindow[u].guessExp
    BY DEF Inv, GuessInsideFirstWindow
  <2>2. firstWindow[u].guessExp <= ExpiresAt /\ ExpiresAt <= sawResults[u]
    BY <2>1 DEF Inv, WindowsSound
  <2>3. guesses[u].at \in Nat /\ firstWindow[u].guessExp \in Nat /\ sawResults[u] \in Nat
    BY <2>1 DEF Inv, TypeOK, GuessRow, ViewRow
  <2> QED
    BY <2>1, <2>2, <2>3
<1> QED
  BY <1>1, InvHolds, PTL

\* The request that came second reports the row of the one that came first
\* (the duplicate answers, the read-back of TimeoutGuess).
THEOREM RepliesAgree ==
  ASSUME AuditCoversChallenge
  PROVE  Spec => []RepliesTellStoredGuess
<1>1. Inv => RepliesTellStoredGuess
  BY DEF Inv
<1> QED
  BY <1>1, InvHolds, PTL

\* SubmitGuess's reads are still true when it inserts: the photo row's lock and
\* the foreign key of guesses serialize every writer of that player's attempt.
THEOREM LockCoversSubmit ==
  ASSUME AuditCoversChallenge
  PROVE  Spec => []LockCoversInsert
<1>1. Inv => LockCoversInsert
  BY DEF Inv
<1> QED
  BY <1>1, InvHolds, PTL

-----------------------------------------------------------------------------
(* The refinement: each step is a step of OneAttempt or a stutter. *)

Windows == [u \in DOMAIN firstWindow |->
              [opens |-> firstWindow[u].viewExp, closes |-> firstWindow[u].guessExp]]

LEMMA PromiseInit == Init => Promise!Init
BY DEF Init, Promise!Init

\* Recording an attempt inside the player's window is a step of the promise.
LEMMA RecordPromise ==
  ASSUME Inv, NEW u \in Users, NEW row \in GuessRow,
         UNCHANGED <<now, firstWindow>>,
         guesses' = WithNew(guesses, u, row),
         u \in DOMAIN firstWindow,
         row.at <= now,
         firstWindow[u].viewExp <= row.at,
         IF row.timedOut THEN row.at + TimeoutSkew >= firstWindow[u].guessExp /\ row.point = NoPoint
                         ELSE row.at < firstWindow[u].guessExp /\ row.point \in Points
  PROVE  [Promise!Next]_Promise!vars
<1>1. Windows' = Windows /\ now' = now
  BY DEF Windows
<1>2. CASE u \in DOMAIN guesses
  BY <1>1, <1>2 DEF WithNew, Promise!vars, Windows
<1>3. CASE u \notin DOMAIN guesses
  <2>1. guesses' = Promise!Add(guesses, u, row)
    BY <1>3 DEF WithNew, With, Promise!Add
  <2>2. u \in DOMAIN Windows /\ Windows[u].opens = firstWindow[u].viewExp
        /\ Windows[u].closes = firstWindow[u].guessExp
    BY DEF Windows
  <2>3. /\ row.at \in 0 .. now /\ row = [timedOut |-> row.timedOut, at |-> row.at, point |-> row.point]
        /\ row.timedOut \in BOOLEAN /\ row.at \in Nat /\ firstWindow[u] \in ViewRow
    BY DEF GuessRow, Inv, TypeOK
  <2>4. CASE row.timedOut
    <3>1. guesses' = Promise!Add(guesses, u, [timedOut |-> TRUE, at |-> row.at, point |-> NoPoint])
      BY <2>1, <2>3, <2>4
    <3>2. Windows[u].opens <= row.at /\ Windows[u].closes <= row.at + TimeoutSkew
      BY <2>2, <2>3, <2>4 DEF ViewRow
    <3>3. Promise!TimeOut(u)
      BY <1>1, <1>3, <2>2, <2>3, <3>1, <3>2 DEF Promise!TimeOut, Windows
    <3> QED
      BY <3>3 DEF Promise!Next
  <2>5. CASE ~row.timedOut
    <3>1. row.point \in Points
          /\ guesses' = Promise!Add(guesses, u, [timedOut |-> FALSE, at |-> row.at, point |-> row.point])
      BY <2>1, <2>3, <2>5
    <3>2. Windows[u].opens <= row.at /\ row.at < Windows[u].closes
      BY <2>2, <2>3, <2>5 DEF ViewRow
    <3>3. Promise!Guess(u)
      BY <1>1, <1>3, <2>2, <2>3, <3>1, <3>2 DEF Promise!Guess, Windows
    <3> QED
      BY <3>3 DEF Promise!Next
  <2> QED
    BY <2>4, <2>5
<1> QED
  BY <1>2, <1>3

\* A first delivery is the step that opens the window.
LEMMA DeliverPromise ==
  ASSUME Inv, NEW r \in Requests, req[r].pc # "idle",
         MarkMediaDelivered(req[r].user, req[r].at),
         UNCHANGED <<now, guesses>>
  PROVE  [Promise!Next]_Promise!vars
<1> DEFINE row == DeliveredRow(req[r].at)
<1>1. CASE UNCHANGED firstWindow
  BY <1>1 DEF Promise!vars
<1>2. CASE ~UNCHANGED firstWindow
  <2>0. PICK u \in Users : u = req[r].user
    BY DEF Inv, RequestsSound
  <2>1. u \in DOMAIN views /\ ~views[u].delivered /\ firstWindow' = WithNew(firstWindow, u, row)
    BY <1>2, <2>0 DEF MarkMediaDelivered
  <2>2. u \notin DOMAIN firstWindow /\ req[r].at \in Nat
    BY <2>1 DEF Inv, WindowsSound, TypeOK, Request
  <2>3. /\ row.viewExp \in 0 .. ExpiresAt /\ row.guessExp \in 0 .. ExpiresAt
        /\ row.viewExp <= row.guessExp
    BY <2>2 DEF DeliveredRow, Earlier
  <2> HIDE DEF row
  <2>4. Windows' = Promise!Add(Windows, u, [opens |-> row.viewExp, closes |-> row.guessExp])
    <3>1. firstWindow' = [x \in DOMAIN firstWindow \cup {u} |-> IF x = u THEN row ELSE firstWindow[x]]
      BY <2>1, <2>2 DEF WithNew, With
    <3> QED
      BY <2>2, <3>1 DEF Windows, Promise!Add
  <2>5. u \notin DOMAIN Windows
    BY <2>2 DEF Windows
  <2>6. \E opens, closes \in 0 .. ExpiresAt :
          opens <= closes /\ Windows' = Promise!Add(Windows, u, [opens |-> opens, closes |-> closes])
    BY <2>3, <2>4
  <2>7. Promise!Open(u)
    BY <2>5, <2>6, Zenon DEF Promise!Open, Windows
  <2> QED
    BY <2>7 DEF Promise!Next
<1> QED
  BY <1>1, <1>2

LEMMA ServePromise ==
  ASSUME Inv, NEW r \in Requests, Serve(r)
  PROVE  [Promise!Next]_Promise!vars
<1> DEFINE u == req[r].user
           at == req[r].at
<1>1. CASE StreamComplete(r) \/ ConfirmMediaDelivered(r)
  <2>1. req[r].pc # "idle" /\ MarkMediaDelivered(u, at) /\ UNCHANGED <<now, guesses>>
    BY <1>1 DEF StreamComplete, ConfirmMediaDelivered, At, world
  <2> QED
    BY <2>1, DeliverPromise
<1>2. CASE SubmitLate(r) \/ TimeoutInsert(r)
  <2>1. /\ guesses' = WithNew(guesses, u, TimedOutRow(at)) /\ UNCHANGED <<now, firstWindow>>
        /\ req[r].pc \in {"insert", "record"} /\ (req[r].pc = "insert" => req[r].late)
    BY <1>2 DEF SubmitLate, TimeoutInsert, world, history
  <2>2. /\ u \in Users /\ at \in Nat /\ at <= now /\ u \in DOMAIN firstWindow
        /\ firstWindow[u].viewExp <= at /\ firstWindow[u].guessExp \in Nat
    BY <2>1 DEF Inv, RequestsSound, TypeOK, Request, ViewRow
  <2>3. at + TimeoutSkew >= firstWindow[u].guessExp
    BY <2>1, <2>2 DEF Inv, RequestsSound
  <2>4. TimedOutRow(at) \in GuessRow /\ TimedOutRow(at).timedOut /\ TimedOutRow(at).at = at
        /\ TimedOutRow(at).point = NoPoint
    BY <2>2 DEF TimedOutRow, GuessRow
  <2> QED
    BY <2>1, <2>2, <2>3, <2>4, RecordPromise
<1>3. CASE SubmitInsert(r)
  <2> DEFINE row == [timedOut |-> FALSE, at |-> at, point |-> req[r].point]
  <2>1. /\ guesses' = WithNew(guesses, u, row) /\ UNCHANGED <<now, firstWindow>>
        /\ req[r].pc = "insert" /\ ~req[r].late
    BY <1>3 DEF SubmitInsert, WithNew, world, history
  <2>2. /\ u \in Users /\ at \in Nat /\ at <= now /\ u \in DOMAIN firstWindow
        /\ firstWindow[u].viewExp <= at /\ firstWindow[u].guessExp \in Nat
        /\ req[r].point \in Points /\ ~(at >= firstWindow[u].guessExp)
    BY <2>1 DEF Inv, RequestsSound, TypeOK, Request, ViewRow
  <2>3. row \in GuessRow /\ ~row.timedOut /\ row.at = at /\ row.point \in Points
    BY <2>2 DEF GuessRow
  <2>4. row.at < firstWindow[u].guessExp
    BY <2>2
  <2> QED
    BY <2>1, <2>2, <2>3, <2>4, RecordPromise
<1>4. CASE UNCHANGED <<now, guesses, firstWindow>>
  BY <1>4 DEF Promise!vars
<1> QED
  BY <1>1, <1>2, <1>3, <1>4
     DEF Serve, AcceptRefused, AcceptChallenge, StreamRefused, StreamStart, SubmitAnswered, SubmitRead,
         SubmitAborted, TimeoutAnswered, TimeoutUnguessed, TimeoutReadView, TimeoutDeadlocked,
         TimeoutReadBack, GetResults, world, tables, history

LEMMA PromiseStep ==
  ASSUME Inv, [Next]_vars
  PROVE  [Promise!Next]_Promise!vars
<1>1. CASE Tick
  <2>1. Promise!Pass
    BY <1>1 DEF Tick, Promise!Pass, tables, history
  <2> QED
    BY <2>1 DEF Promise!Next
<1>2. CASE \E r \in Requests : Serve(r)
  BY <1>2, ServePromise
<1>3. CASE UNCHANGED <<now, guesses, firstWindow>>
  BY <1>3 DEF Promise!vars
<1> QED
  BY <1>1, <1>2, <1>3
     DEF Next, Step, Environment, Arrive, Forget, Abandon, BlockUser, UnblockUser,
         ExpireChallengeViews, RetireRetainedMedia, vars, world, tables, history

\* The requests, interleaved in any order with the cleanup worker, keep the
\* one-window-one-attempt promise of OneAttempt.
THEOREM PromiseKept ==
  ASSUME AuditCoversChallenge
  PROVE  Spec => KeepsPromise
<1>1. Inv /\ [Next]_vars => [Promise!Next]_Promise!vars
  BY PromiseStep
<1> QED
  BY <1>1, PromiseInit, InvHolds, PTL DEF Spec, KeepsPromise, Promise!Spec

\* No step replaces or removes a recorded guess (ON CONFLICT DO NOTHING in
\* ensureTimeoutGuess, the unique index under submitGuessOnce).
THEOREM GuessesAreFinal ==
  ASSUME AuditCoversChallenge
  PROVE  Spec => GuessIsFinal
<1> DEFINE Kept == \A u \in DOMAIN guesses : u \in DOMAIN guesses' /\ guesses'[u] = guesses[u]
<1>1. ASSUME Inv, [Next]_vars PROVE [Kept]_vars
  <2>1. [Promise!Next]_Promise!vars
    BY <1>1, PromiseStep
  <2>2. ASSUME NEW u \in Users, Promise!Guess(u) \/ Promise!TimeOut(u) PROVE Kept
    BY <2>2 DEF Promise!Guess, Promise!TimeOut, Promise!Add
  <2> QED
    BY <2>1, <2>2 DEF Promise!Next, Promise!vars, Promise!Pass, Promise!Open
<1> QED
  BY <1>1, InvHolds, PTL DEF Spec, GuessIsFinal

\* Accepting again, downloading again or confirming again never moves the
\* deadlines of a window that has been opened (AcceptChallenge,
\* MarkMediaDelivered), as long as the view rows outlive the challenge.
THEOREM WindowsAreKept ==
  ASSUME AuditCoversChallenge
  PROVE  Spec => ReacceptanceKeepsWindow
<1> DEFINE Kept == \A u \in DOMAIN firstWindow \cap DOMAIN views' :
                     /\ views'[u].viewExp <= firstWindow[u].viewExp
                     /\ views'[u].guessExp <= firstWindow[u].guessExp
<1>1. ASSUME Inv, [Next]_vars PROVE Inv' /\ Kept
  <2>1. Inv'
    BY <1>1, NextInv
  <2>2. [Promise!Next]_Promise!vars
    BY <1>1, PromiseStep
  <2>3. \A u \in DOMAIN Windows : u \in DOMAIN Windows' /\ Windows'[u] = Windows[u]
    <3>1. ASSUME NEW u \in Users, Promise!Open(u)
          PROVE  \A x \in DOMAIN Windows : x \in DOMAIN Windows' /\ Windows'[x] = Windows[x]
      BY <3>1 DEF Promise!Open, Promise!Add, Windows
    <3> QED
      BY <2>2, <3>1 DEF Promise!Next, Promise!vars, Promise!Pass, Promise!Guess, Promise!TimeOut, Windows
  <2>4. ASSUME NEW u \in DOMAIN firstWindow \cap DOMAIN views'
        PROVE  /\ views'[u].viewExp <= firstWindow[u].viewExp
               /\ views'[u].guessExp <= firstWindow[u].guessExp
    <3>1. /\ u \in DOMAIN firstWindow' /\ firstWindow'[u].viewExp = firstWindow[u].viewExp
          /\ firstWindow'[u].guessExp = firstWindow[u].guessExp
      BY <2>3 DEF Windows
    <3>2. views'[u] = firstWindow'[u] /\ views'[u] \in ViewRow
      BY <2>1, <3>1 DEF Inv, WindowsSound, TypeOK
    <3> QED
      BY <3>1, <3>2 DEF ViewRow
  <2> QED
    BY <2>1, <2>4
<1> QED
  BY <1>1, InvHolds, PTL DEF Spec, ReacceptanceKeepsWindow

\* While a block stands, no delivery opens the blocked player's window, however
\* long before the block the stream started (MarkMediaDelivered looks again).
THEOREM BlockStopsDelivery == Spec => BlockedPlayerGetsNoWindow
<1> DEFINE Kept == \A u \in blocked : u \in DOMAIN firstWindow' => u \in DOMAIN firstWindow
<1>1. ASSUME Next PROVE Kept
  <2>1. CASE UNCHANGED firstWindow
    BY <2>1
  <2>2. ASSUME NEW r \in Requests, MarkMediaDelivered(req[r].user, req[r].at) PROVE Kept
    <3>1. CASE req[r].user \in blocked
      BY <2>2, <3>1 DEF MarkMediaDelivered
    <3>2. CASE req[r].user \notin blocked
      BY <2>2, <3>2 DEF MarkMediaDelivered, With, WithNew
    <3> QED
      BY <3>1, <3>2
  <2>3. ASSUME NEW r \in Requests, Serve(r) PROVE Kept
    BY <2>1, <2>2, <2>3
       DEF Serve, AcceptRefused, AcceptChallenge, StreamRefused, StreamStart, StreamComplete,
           ConfirmMediaDelivered, SubmitAnswered, SubmitRead, SubmitLate, SubmitInsert, SubmitAborted,
           TimeoutAnswered, TimeoutUnguessed, TimeoutReadView, TimeoutInsert, TimeoutDeadlocked,
           TimeoutReadBack, GetResults, history
  <2> QED
    BY <1>1, <2>1, <2>3
       DEF Next, Step, Environment, Arrive, Forget, Abandon, Tick, BlockUser, UnblockUser,
           ExpireChallengeViews, RetireRetainedMedia, history
<1>2. [Next]_vars => [Kept]_vars
  BY <1>1
<1> QED
  BY <1>2, PTL DEF Spec, BlockedPlayerGetsNoWindow

=============================================================================
