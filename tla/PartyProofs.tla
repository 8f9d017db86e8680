---------------------------- MODULE PartyProofs ----------------------------
(* Proofs about Party, for any players, requests, durations and clock, and    *)
(* about Groups, for any people, invites, transactions and caps, and about      *)
(* Ladder, for any players, challenges, chances of winning and windows.        *)
EXTENDS Integers, Party, FiniteSetTheorems, TLAPS

USE PlayerAssumption, DurationAssumption

\* The inductive invariant.
Inv ==
  /\ TypeOK
  /\ AnnouncementsTrue
  /\ NoFutureWindow
  /\ DoublingDeserved
  /\ RequestsKnow

-----------------------------------------------------------------------------
(* What the window queries return. *)

\* LatestStarted finds the window that started last, if any has started.
LEMMA LatestStartedFacts ==
  ASSUME TypeOK, NoFutureWindow, NEW at \in Nat, at <= now
  PROVE  /\ (\A w \in windows : ~(w <= at)) => LatestStarted(at) = {}
         /\ (\E w \in windows : w <= at) =>
              \E w \in windows : /\ LatestStarted(at) = {w} /\ w <= at
                                 /\ \A v \in windows : v <= at => v <= w
<1> DEFINE started == {w \in windows : w <= at}
<1>1. (\A w \in windows : ~(w <= at)) => LatestStarted(at) = {}
  BY DEF LatestStarted
<1>2. ASSUME \E w \in windows : w <= at
      PROVE  \E w \in windows : /\ LatestStarted(at) = {w} /\ w <= at
                                /\ \A v \in windows : v <= at => v <= w
  <2>0. at \in 0 .. now
    BY DEF TypeOK
  <2>1. PICK w \in windows : w <= at /\ \A v \in windows : v <= at => v <= w
    BY <1>2, <2>0 DEF NoFutureWindow
  <2>a. w \in started /\ \A v \in started : v <= w
    BY <2>1
  <2>2. Latest(started) \in started /\ \A v \in started : v <= Latest(started)
    BY <2>a, Zenon DEF Latest
  <2>3. LatestStarted(at) = {Latest(started)}
    BY <1>2 DEF LatestStarted
  <2> QED
    BY <2>2, <2>3
<1> QED
  BY <1>1, <1>2

\* When Start is not refused, every recorded window that had begun has ended
\* and been recharged.
LEMMA RefusalFacts ==
  ASSUME TypeOK, NoFutureWindow, NEW at \in Nat, at <= now,
         StartRefusal(at) = "none", NEW v \in windows, v <= at
  PROVE  NextAvailableAt(v) <= at
<1>1. PICK w \in windows : LatestStarted(at) = {w} /\ v <= w
  BY LatestStartedFacts
<1>2. ~(at < NextAvailableAt(w))
  BY <1>1 DEF StartRefusal
<1> QED
  BY <1>1, <1>2 DEF NextAvailableAt, TypeOK

\* A window that is active when the multiplier is read.
LEMMA DoubledFacts ==
  ASSUME TypeOK, NoFutureWindow, NEW at \in Nat, at <= now, NEW u
  PROVE  /\ Doubled(u, at) \in BOOLEAN
         /\ Doubled(u, at) => \E w \in windows : Active(w, at) /\ Posted(u, w)
         /\ (\E w \in windows : Active(w, at) /\ Posted(u, w)) /\ ~Doubled(u, at)
              => Overlap(at)
<1> DEFINE active == {w \in windows : Active(w, at)}
<1>1. Doubled(u, at) <=> active # {} /\ Posted(u, Latest(active))
  BY DEF Doubled
<1>2. Doubled(u, at) \in BOOLEAN
  BY DEF Doubled
<1>3. ASSUME active # {}
      PROVE  Latest(active) \in active /\ \A v \in active : v <= Latest(active)
  <2>1. at \in 0 .. now /\ windows \subseteq Nat
    BY DEF TypeOK
  <2>2. PICK x \in windows : Active(x, at)
    BY <1>3
  <2>3. PICK w \in windows : w <= at /\ \A v \in windows : v <= at => v <= w
    BY <2>1, <2>2 DEF NoFutureWindow, Active
  <2>4. Active(w, at)
    BY <2>1, <2>2, <2>3 DEF Active
  <2>5. w \in active /\ \A v \in active : v <= w
    BY <2>3, <2>4 DEF Active
  <2> QED
    BY <2>5, Zenon DEF Latest
<1>4. ASSUME NEW w \in windows, Active(w, at), Posted(u, w), ~Doubled(u, at)
      PROVE  Overlap(at)
  <2>1. active # {} /\ w \in active
    BY <1>4
  <2>2. Latest(active) # w
    BY <1>1, <1>4, <2>1
  <2>3. Latest(active) \in windows /\ Active(Latest(active), at) /\ w <= Latest(active)
    BY <1>3, <2>1
  <2>4. PICK m \in windows : m # w /\ Active(m, at) /\ w <= m
    BY <2>2, <2>3
  <2>5. w < m
    BY <2>4 DEF TypeOK
  <2> QED
    BY <1>4, <2>4, <2>5 DEF Overlap
<1> QED
  BY <1>1, <1>2, <1>3, <1>4

-----------------------------------------------------------------------------
(* The inductive invariant. *)

LEMMA InitInv == Init => Inv
<1> SUFFICES ASSUME Init PROVE Inv
  OBVIOUS
<1>1. /\ Idle \in Request /\ Idle.pc = "idle" /\ Idle.at = 0 /\ Idle.latest = {}
      /\ Idle.status = "none"
  BY DEF Idle, Request, Steps, Ops, Statuses
<1>2. TypeOK
  BY <1>1 DEF Init, TypeOK
<1>3. \A r \in Requests : Knows(r)
  BY <1>1 DEF Init, Knows, Starting
<1>4. AnnouncementsTrue /\ NoFutureWindow /\ DoublingDeserved
  BY <1>1 DEF Init, AnnouncementsTrue, NoFutureWindow, DoublingDeserved, At
<1> QED
  BY <1>1, <1>2, <1>3, <1>4 DEF Inv, RequestsKnow, Init

\* What a request knows stays true while others add rows, unless it holds the
\* lock and a window is added.
LEMMA KnowsFrame ==
  ASSUME TypeOK, NEW q \in Requests, Knows(q), req'[q] = req[q],
         windows \subseteq windows', posts \subseteq posts', announced \subseteq announced',
         now' \in Nat, now <= now',
         req[q].pc = "locked" => windows' = windows
  PROVE  Knows(q)'
<1> DEFINE at == req[q].at  u == req[q].user
<1>1. at \in Nat
  BY DEF TypeOK, Request
<1>2. \A w \in windows : Active(w, at) /\ Posted(u, w)
                           => w \in windows' /\ Active(w, at)' /\ Posted(u, w)'
  BY DEF Active, Posted
<1>3. Overlap(at) => Overlap(at)'
  BY DEF Overlap, Active
<1>4. req[q].pc = "locked" => StartRefusal(at)' = StartRefusal(at)
  BY DEF StartRefusal, LatestStarted, Latest, Active, NextAvailableAt
<1>5. Starting(q)' <=> Starting(q)
  BY DEF Starting
<1>6. (at <= now)'
  BY <1>1 DEF Knows, TypeOK
<1>7. \A v \in windows : NextAvailableAt(v)' = NextAvailableAt(v)
  BY DEF NextAvailableAt
<1> QED
  BY <1>1, <1>2, <1>3, <1>4, <1>5, <1>6, <1>7 DEF Knows

\* A step of one request.
LEMMA RequestStepInv ==
  ASSUME Inv, NEW r \in Requests, now' = now,
         req' \in [Requests -> Request],
         \A q \in Requests \ {r} : req'[q] = req[q],
         windows' \subseteq Nat, windows \subseteq windows',
         posts' \subseteq Post, posts \subseteq posts',
         announced' \subseteq windows', announced \subseteq announced',
         pushed' \subseteq windows', pushed \subseteq pushed',
         promised' \in Nat,
         NoFutureWindow', DoublingDeserved', guesses' \subseteq GuessRow,
         Knows(r)',
         windows' # windows => \A q \in Requests \ {r} : req[q].pc # "locked",
         req'[r].pc = "locked" => \A q \in Requests \ {r} : req[q].pc # "locked",
         req'[r].pc = "replied" /\ req'[r].op = "start" /\ req'[r].status = "created"
           => req'[r].at \in announced' \cap pushed'
  PROVE  Inv'
<1>1. TypeOK'
  BY DEF Inv, TypeOK
<1>2. \A q \in Requests \ {r} : Knows(q)'
  BY KnowsFrame DEF Inv, RequestsKnow, TypeOK
<1>3. \A p, q \in Requests : req'[p].pc = "locked" /\ req'[q].pc = "locked" => p = q
  BY DEF Inv, RequestsKnow
<1>4. AnnouncementsTrue'
  BY DEF Inv, AnnouncementsTrue, At
<1> QED
  BY <1>1, <1>2, <1>3, <1>4 DEF Inv, RequestsKnow

\* A step that only moves a request along.
LEMMA RequestOnlyInv ==
  ASSUME Inv, NEW r \in Requests,
         UNCHANGED <<now, windows, posts, guesses, announced, pushed, promised>>,
         req' \in [Requests -> Request],
         \A q \in Requests \ {r} : req'[q] = req[q],
         Knows(r)',
         req'[r].pc = "locked" => \A q \in Requests \ {r} : req[q].pc # "locked",
         req'[r].pc = "replied" => req'[r].status # "created"
  PROVE  Inv'
<1>1. NoFutureWindow'
  BY DEF Inv, NoFutureWindow, NextAvailableAt
<1>2. DoublingDeserved'
  BY DEF Inv, DoublingDeserved, Active, Posted, Overlap
<1> QED
  BY <1>1, <1>2, RequestStepInv DEF Inv, TypeOK, AnnouncementsTrue

\* The requests are only changed at r, by a typed record.
LEMMA ReqUpdate ==
  ASSUME TypeOK, NEW r \in Requests, NEW rec \in Request, req' = [req EXCEPT ![r] = rec]
  PROVE  /\ req' \in [Requests -> Request] /\ req'[r] = rec
         /\ \A q \in Requests \ {r} : req'[q] = req[q]
BY DEF TypeOK

LEMMA RequestTyped ==
  ASSUME TypeOK, NEW r \in Requests
  PROVE  /\ req[r] \in Request
         /\ req[r].pc \in Steps /\ req[r].op \in Ops /\ req[r].user \in Players \cup {NoPlayer}
         /\ req[r].at \in Nat /\ req[r].doubled \in BOOLEAN /\ req[r].latest \in SUBSET Nat
         /\ req[r].entitled \in BOOLEAN /\ req[r].told \in Nat /\ req[r].status \in Statuses
BY DEF TypeOK, Request

LEMMA IdleTyped ==
  /\ Idle \in Request /\ Idle.pc = "idle" /\ Idle.op = "start" /\ Idle.at = 0
  /\ Idle.latest = {} /\ Idle.status = "none" /\ Idle.user = NoPlayer
  /\ Idle.told = 0 /\ Idle.entitled = FALSE /\ Idle.doubled = FALSE
BY DEF Idle, Request, Steps, Ops, Statuses

\* Becoming idle again.
LEMMA IdleKnows ==
  ASSUME now' \in Nat, NEW r \in Requests, req'[r] = Idle
  PROVE  Knows(r)'
BY IdleTyped DEF Knows, Starting

LEMMA ArriveInv ==
  ASSUME Inv, NEW r \in Requests, NEW u \in Players, NEW op \in Ops, Arrive(r, u, op)
  PROVE  Inv'
<1> PICK told \in Nat : told = IF op = "start" THEN promised ELSE 0
  BY DEF Inv, TypeOK
<1> PICK entitled \in BOOLEAN :
      entitled <=> op = "guess" /\ \E w \in windows : Active(w, now) /\ Posted(u, w)
  BY Zenon
<1> DEFINE new == [Idle EXCEPT !.pc = "ready", !.op = op, !.user = u, !.at = now,
                              !.told = told, !.entitled = entitled]
<1>1. req' = [req EXCEPT ![r] = new]
  <2>1. entitled = (op = "guess" /\ \E w \in windows : Active(w, now) /\ Posted(u, w))
    BY Zenon
  <2> QED
    BY <2>1, Zenon DEF Arrive
<1>2. new \in Request
  <2>1. now \in Nat /\ "ready" \in Steps
    BY DEF Inv, TypeOK, Steps
  <2> QED
    BY <2>1, IdleTyped DEF Request
<1>3. PICK rec \in Request :
        /\ req' = [req EXCEPT ![r] = rec]
        /\ rec.pc = "ready" /\ rec.op = op /\ rec.user = u /\ rec.at = now /\ rec.told = told
        /\ rec.entitled = entitled /\ rec.latest = {} /\ rec.status = "none"
  <2>1. /\ new.pc = "ready" /\ new.op = op /\ new.user = u /\ new.at = now /\ new.told = told
        /\ new.entitled = entitled /\ new.latest = {} /\ new.status = "none"
    BY IdleTyped DEF Idle
  <2> HIDE DEF new
  <2> QED
    BY <1>1, <1>2, <2>1
<1>4. /\ req' \in [Requests -> Request] /\ req'[r] = rec
      /\ \A q \in Requests \ {r} : req'[q] = req[q]
  BY <1>3, ReqUpdate DEF Inv
<1>5. UNCHANGED <<now, windows, posts, guesses, announced, pushed, promised>>
  BY DEF Arrive
<1>6. rec.told # 0 => \E v \in windows : v <= rec.at /\ rec.told = NextAvailableAt(v)
  BY <1>3 DEF Inv, NoFutureWindow
<1>7. rec.entitled => \E w \in windows : Active(w, rec.at) /\ Posted(rec.user, w)
  <2>1. entitled => \E w \in windows : Active(w, rec.at) /\ Posted(rec.user, w)
    BY <1>3, Zenon
  <2> QED
    BY <1>3, <2>1, Zenon
<1>8. Knows(r)'
  <2>1. rec.entitled => \E w \in windows' : Active(w, rec.at)' /\ Posted(rec.user, w)'
    BY <1>5, <1>7 DEF Active, Posted
  <2>2. rec.told # 0 => \E v \in windows' : v <= rec.at /\ rec.told = NextAvailableAt(v)'
    BY <1>5, <1>6 DEF NextAvailableAt
  <2>3. rec.at <= now'
    BY <1>3, <1>5 DEF Inv, TypeOK
  <2> QED
    BY <1>3, <1>4, <2>1, <2>2, <2>3 DEF Knows, Starting
<1> QED
  BY <1>3, <1>4, <1>5, <1>8, RequestOnlyInv

LEMMA LeaveInv ==
  ASSUME Inv, NEW r \in Requests, Leave(r)
  PROVE  Inv'
<1>1. req' = [req EXCEPT ![r] = Idle]
  BY DEF Leave, Done
<1>2. /\ req' \in [Requests -> Request] /\ req'[r] = Idle
      /\ \A q \in Requests \ {r} : req'[q] = req[q]
  BY <1>1, ReqUpdate, IdleTyped DEF Inv
<1>3. UNCHANGED <<now, windows, posts, guesses, announced, pushed, promised>>
  BY DEF Leave
<1>4. Knows(r)'
  BY <1>2, <1>3, IdleKnows DEF Inv, TypeOK
<1> QED
  BY <1>2, <1>3, <1>4, IdleTyped, RequestOnlyInv

\* Moving a request to its next step, with or without an answer.
LEMMA MoveFacts ==
  ASSUME TypeOK, NEW r \in Requests, NEW step \in Steps, NEW status \in Statuses,
         \/ req' = [req EXCEPT ![r].pc = step] /\ status = req[r].status
         \/ req' = [req EXCEPT ![r].pc = step, ![r].status = status]
  PROVE  /\ req' \in [Requests -> Request]
         /\ \A q \in Requests \ {r} : req'[q] = req[q]
         /\ req'[r].pc = step /\ req'[r].status = status
         /\ req'[r].op = req[r].op /\ req'[r].user = req[r].user /\ req'[r].at = req[r].at
         /\ req'[r].doubled = req[r].doubled /\ req'[r].latest = req[r].latest
         /\ req'[r].entitled = req[r].entitled /\ req'[r].told = req[r].told
<1>1. req[r] \in Request
  BY DEF TypeOK
<1>2. PICK rec \in Request :
        /\ req' = [req EXCEPT ![r] = rec]
        /\ rec.pc = step /\ rec.status = status
        /\ rec.op = req[r].op /\ rec.user = req[r].user /\ rec.at = req[r].at
        /\ rec.doubled = req[r].doubled /\ rec.latest = req[r].latest
        /\ rec.entitled = req[r].entitled /\ rec.told = req[r].told
  <2> DEFINE new == [req[r] EXCEPT !.pc = step, !.status = status]
  <2>1. new \in Request
    BY <1>1 DEF Request
  <2>2. req' = [req EXCEPT ![r] = new]
    <3>1. CASE req' = [req EXCEPT ![r].pc = step] /\ status = req[r].status
      <4>1. [req[r] EXCEPT !.pc = step] = new
        BY <1>1, <3>1 DEF Request
      <4> QED
        BY <3>1, <4>1
    <3>2. CASE req' = [req EXCEPT ![r].pc = step, ![r].status = status]
      BY <3>2
    <3> QED
      BY <3>1, <3>2
  <2>3. /\ new.pc = step /\ new.status = status
        /\ new.op = req[r].op /\ new.user = req[r].user /\ new.at = req[r].at
        /\ new.doubled = req[r].doubled /\ new.latest = req[r].latest
        /\ new.entitled = req[r].entitled /\ new.told = req[r].told
    BY <1>1 DEF Request
  <2> HIDE DEF new
  <2> QED
    BY <2>1, <2>2, <2>3
<1> QED
  BY <1>2, ReqUpdate

LEMMA AnswerFacts ==
  ASSUME TypeOK, NEW r \in Requests, NEW status \in Statuses, Answer(r, status)
  PROVE  /\ req' \in [Requests -> Request]
         /\ \A q \in Requests \ {r} : req'[q] = req[q]
         /\ req'[r].pc = "replied" /\ req'[r].status = status
         /\ req'[r].op = req[r].op /\ req'[r].user = req[r].user /\ req'[r].at = req[r].at
         /\ req'[r].doubled = req[r].doubled /\ req'[r].latest = req[r].latest
         /\ req'[r].entitled = req[r].entitled /\ req'[r].told = req[r].told
<1>1. req' = [req EXCEPT ![r].pc = "replied", ![r].status = status] /\ "replied" \in Steps
  BY DEF Answer, Steps
<1> QED
  BY <1>1, MoveFacts, Zenon

LEMMA GotoFacts ==
  ASSUME TypeOK, NEW r \in Requests, NEW step \in Steps, Goto(r, step)
  PROVE  /\ req' \in [Requests -> Request]
         /\ \A q \in Requests \ {r} : req'[q] = req[q]
         /\ req'[r].pc = step /\ req'[r].status = req[r].status
         /\ req'[r].op = req[r].op /\ req'[r].user = req[r].user /\ req'[r].at = req[r].at
         /\ req'[r].doubled = req[r].doubled /\ req'[r].latest = req[r].latest
         /\ req'[r].entitled = req[r].entitled /\ req'[r].told = req[r].told
<1>1. req' = [req EXCEPT ![r].pc = step] /\ req[r].status \in Statuses
  BY RequestTyped DEF Goto
<1> QED
  BY <1>1, MoveFacts, Zenon

LEMMA StatusesTyped ==
  /\ {"none", "created", "internal_error"} \subseteq Statuses
  /\ \A at : StartRefusal(at) \in Statuses /\ StartRefusal(at) # "created"
BY DEF Statuses, StartRefusal

LEMMA StartRefusedInv ==
  ASSUME Inv, NEW r \in Requests, StartRefused(r)
  PROVE  Inv'
<1>1. PICK status \in Statuses :
        Answer(r, status) /\ status # "created"
  BY StatusesTyped DEF StartRefused
<1>2. UNCHANGED <<now, windows, posts, guesses, announced, pushed, promised>>
  BY DEF StartRefused
<1>3. /\ req' \in [Requests -> Request]
      /\ \A q \in Requests \ {r} : req'[q] = req[q]
      /\ req'[r].pc = "replied" /\ req'[r].status = status
      /\ req'[r].op = req[r].op /\ req'[r].user = req[r].user /\ req'[r].at = req[r].at
      /\ req'[r].latest = req[r].latest
  BY <1>1, AnswerFacts, Zenon DEF Inv
<1>4. req[r].pc = "ready" /\ Knows(r)
  BY DEF StartRefused, At, Inv, RequestsKnow
<1>5. Knows(r)'
  BY <1>2, <1>3, <1>4 DEF Knows, Starting
<1> QED
  BY <1>1, <1>2, <1>3, <1>5, RequestOnlyInv

LEMMA StartLockedInv ==
  ASSUME Inv, NEW r \in Requests, StartLocked(r)
  PROVE  Inv'
<1>1. Goto(r, "locked")
  BY DEF StartLocked
<1>2. UNCHANGED <<now, windows, posts, guesses, announced, pushed, promised>>
  BY DEF StartLocked
<1>3. /\ req' \in [Requests -> Request]
      /\ \A q \in Requests \ {r} : req'[q] = req[q]
      /\ req'[r].pc = "locked" /\ req'[r].status = req[r].status
      /\ req'[r].op = req[r].op /\ req'[r].user = req[r].user /\ req'[r].at = req[r].at
      /\ req'[r].latest = req[r].latest /\ req'[r].told = req[r].told
  <2>1. "locked" \in Steps /\ TypeOK
    BY DEF Steps, Inv
  <2> QED
    BY <1>1, <2>1, GotoFacts, Zenon
<1>4. req[r].pc = "ready" /\ req[r].op = "start" /\ Knows(r) /\ StartRefusal(req[r].at) = "none"
  BY DEF StartLocked, At, Inv, RequestsKnow
<1>5. \A q \in Requests : req[q].pc # "locked"
  BY DEF StartLocked, GroupLocked
<1>6. Knows(r)'
  <2>1. (StartRefusal(req[r].at) = "none")'
    BY <1>2, <1>3, <1>4 DEF StartRefusal, LatestStarted, Latest, Active, NextAvailableAt
  <2> QED
    BY <1>2, <1>3, <1>4, <2>1 DEF Knows, Starting, NextAvailableAt
<1> QED
  BY <1>2, <1>3, <1>5, <1>6, RequestOnlyInv

LEMMA AnnounceFailedInv ==
  ASSUME Inv, NEW r \in Requests, AnnounceFailed(r)
  PROVE  Inv'
<1>1. req' = [req EXCEPT ![r].pc = "push", ![r].status = "internal_error"]
  BY DEF AnnounceFailed
<1>2. UNCHANGED <<now, windows, posts, guesses, announced, pushed, promised>>
  BY DEF AnnounceFailed
<1>3. /\ req' \in [Requests -> Request]
      /\ \A q \in Requests \ {r} : req'[q] = req[q]
      /\ req'[r].pc = "push" /\ req'[r].status = "internal_error"
      /\ req'[r].op = req[r].op /\ req'[r].user = req[r].user /\ req'[r].at = req[r].at
      /\ req'[r].latest = req[r].latest
  <2>1. "push" \in Steps /\ "internal_error" \in Statuses
    BY StatusesTyped DEF Steps
  <2>2. req \in [Requests -> Request] /\ req[r] \in Request
    BY DEF Inv, TypeOK
  <2> QED
    BY ONLY <1>1, <2>1, <2>2, r \in Requests DEF Request
<1>4. req[r].pc = "announce" /\ Knows(r)
  BY DEF AnnounceFailed, Inv, RequestsKnow
<1>5. Knows(r)'
  BY <1>2, <1>3, <1>4 DEF Knows, Starting
<1> QED
  BY <1>2, <1>3, <1>5, RequestOnlyInv

LEMMA StatusReadInv ==
  ASSUME Inv, NEW r \in Requests, StatusRead(r)
  PROVE  Inv'
<1>1. /\ req[r].pc = "ready" /\ req[r].op = "status" /\ Knows(r) /\ req[r] \in Request
      /\ req[r].at \in Nat /\ TypeOK
  BY RequestTyped DEF StatusRead, At, Inv, RequestsKnow
<1>2. PICK latest \in SUBSET windows :
        latest = LatestStarted(req[r].at) /\ \A v, w \in latest : v = w
  BY <1>1, LatestStartedFacts DEF Inv, Knows
<1> DEFINE new == [req[r] EXCEPT !.pc = "build", !.latest = latest]
<1>3. new \in Request
  BY <1>1 DEF Request, Steps, TypeOK
<1>4. req' = [req EXCEPT ![r] = new]
  BY <1>2 DEF StatusRead
<1>5. /\ new.pc = "build" /\ new.latest = latest /\ new.status = req[r].status
      /\ new.op = req[r].op /\ new.user = req[r].user /\ new.at = req[r].at
  BY <1>1 DEF Request
<1> HIDE DEF new
<1>6. /\ req' \in [Requests -> Request] /\ req'[r] = new
      /\ \A q \in Requests \ {r} : req'[q] = req[q]
  BY <1>3, <1>4, ReqUpdate DEF Inv
<1>7. UNCHANGED <<now, windows, posts, guesses, announced, pushed, promised>>
  BY DEF StatusRead
<1>8. Knows(r)'
  BY <1>1, <1>2, <1>5, <1>6, <1>7 DEF Knows, Starting
<1> QED
  BY <1>5, <1>6, <1>7, <1>8, RequestOnlyInv

LEMMA ScoreMultiplierInv ==
  ASSUME Inv, NEW r \in Requests, ScoreMultiplier(r)
  PROVE  Inv'
<1>1. /\ req[r].pc = "ready" /\ req[r].op = "guess" /\ Knows(r) /\ req[r] \in Request
      /\ req[r].at \in Nat /\ TypeOK /\ req[r].entitled \in BOOLEAN
  BY RequestTyped DEF ScoreMultiplier, At, Inv, RequestsKnow
<1>2. PICK doubled \in BOOLEAN : doubled = Doubled(req[r].user, req[r].at)
  BY <1>1, DoubledFacts DEF Inv, Knows
<1> DEFINE new == [req[r] EXCEPT !.pc = "scored", !.doubled = doubled]
<1>3. new \in Request
  BY <1>1 DEF Request, Steps
<1>4. req' = [req EXCEPT ![r] = new]
  BY <1>2 DEF ScoreMultiplier
<1>5. PICK rec \in Request :
        /\ req' = [req EXCEPT ![r] = rec]
        /\ rec.pc = "scored" /\ rec.doubled = doubled /\ rec.status = req[r].status
        /\ rec.op = req[r].op /\ rec.user = req[r].user /\ rec.at = req[r].at
        /\ rec.latest = req[r].latest /\ rec.entitled = req[r].entitled
  <2>1. /\ new.pc = "scored" /\ new.doubled = doubled /\ new.status = req[r].status
        /\ new.op = req[r].op /\ new.user = req[r].user /\ new.at = req[r].at
        /\ new.latest = req[r].latest /\ new.entitled = req[r].entitled
    BY <1>1 DEF Request
  <2> HIDE DEF new
  <2> QED
    BY <1>3, <1>4, <2>1
<1>6. /\ req' \in [Requests -> Request] /\ req'[r] = rec
      /\ \A q \in Requests \ {r} : req'[q] = req[q]
  BY <1>5, ReqUpdate DEF Inv
<1>7. UNCHANGED <<now, windows, posts, guesses, announced, pushed, promised>>
  BY DEF ScoreMultiplier
<1>8. rec.at \in Nat /\ rec.at <= now
  BY <1>1, <1>5 DEF Knows
<1>9. /\ rec.doubled => \E w \in windows : Active(w, rec.at) /\ Posted(rec.user, w)
      /\ rec.entitled => \E w \in windows : Active(w, rec.at) /\ Posted(rec.user, w)
      /\ rec.entitled /\ ~rec.doubled => Overlap(rec.at)
  <2>1. rec.doubled = Doubled(rec.user, rec.at)
    BY <1>2, <1>5
  <2>2. /\ Doubled(rec.user, rec.at) => \E w \in windows : Active(w, rec.at) /\ Posted(rec.user, w)
        /\ (\E w \in windows : Active(w, rec.at) /\ Posted(rec.user, w)) /\ ~Doubled(rec.user, rec.at)
              => Overlap(rec.at)
    BY <1>1, <1>8, DoubledFacts DEF Inv
  <2>3. rec.entitled => \E w \in windows : Active(w, rec.at) /\ Posted(rec.user, w)
    <3>1. req[r].entitled => \E w \in windows : Active(w, req[r].at) /\ Posted(req[r].user, w)
      BY <1>1, Zenon DEF Knows
    <3> QED
      BY <1>5, <3>1, Zenon
  <2> QED
    BY <2>1, <2>2, <2>3, Zenon
<1>10. Knows(r)'
  <2>1. /\ rec.doubled => \E w \in windows' : Active(w, rec.at)' /\ Posted(rec.user, w)'
        /\ rec.entitled => \E w \in windows' : Active(w, rec.at)' /\ Posted(rec.user, w)'
        /\ rec.entitled /\ ~rec.doubled => Overlap(rec.at)'
    BY <1>7, <1>9 DEF Active, Posted, Overlap
  <2> QED
    BY <1>1, <1>5, <1>6, <1>7, <2>1 DEF Knows, Starting
<1> QED
  BY <1>5, <1>6, <1>7, <1>10, RequestOnlyInv

\* What was said about a recorded guess stays true.
LEMMA DoublingFrame ==
  ASSUME DoublingDeserved, windows \subseteq windows', posts \subseteq posts',
         NEW g \in guesses
  PROVE  /\ g.doubled => \E w \in windows' : Active(w, g.at)' /\ Posted(g.user, w)'
         /\ g.entitled /\ ~g.doubled => Overlap(g.at)'
BY DEF DoublingDeserved, Active, Posted, Overlap

LEMMA StartInsertInv ==
  ASSUME Inv, NEW r \in Requests, StartInsert(r)
  PROVE  Inv'
<1>1. /\ req[r].pc = "locked" /\ Goto(r, "announce") /\ Knows(r) /\ TypeOK
      /\ windows' = windows \cup {req[r].at}
      /\ UNCHANGED <<now, posts, guesses, announced, pushed, promised>>
  BY DEF StartInsert, Inv, RequestsKnow
<1>2. "announce" \in Steps /\ req[r].at \in Nat /\ req[r].at <= now
  BY <1>1, RequestTyped DEF Steps, Knows
<1>3. /\ req' \in [Requests -> Request]
      /\ \A q \in Requests \ {r} : req'[q] = req[q]
      /\ req'[r].pc = "announce" /\ req'[r].status = req[r].status
      /\ req'[r].op = req[r].op /\ req'[r].user = req[r].user /\ req'[r].at = req[r].at
      /\ req'[r].latest = req[r].latest
  BY <1>1, <1>2, GotoFacts, Zenon
<1>4. \A q \in Requests \ {r} : req[q].pc # "locked"
  BY <1>1 DEF Inv, RequestsKnow
<1>5. Knows(r)'
  BY <1>1, <1>2, <1>3 DEF Knows, Starting
<1>6. NoFutureWindow'
  <2>1. \A w \in windows' : w <= now'
    BY <1>1, <1>2 DEF Inv, NoFutureWindow
  <2>2. ASSUME NEW x \in 0 .. now, \E w \in windows' : w <= x
        PROVE  \E w \in windows' : w <= x /\ \A v \in windows' : v <= x => v <= w
    <3>1. CASE \E w \in windows : w <= x
      <4>1. PICK w \in windows : w <= x /\ \A v \in windows : v <= x => v <= w
        BY <3>1 DEF Inv, NoFutureWindow
      <4>2. CASE req[r].at <= x /\ w <= req[r].at
        <5>1. \A v \in windows' : v <= x => v <= req[r].at
          BY <1>1, <1>2, <4>1, <4>2 DEF TypeOK
        <5> QED
          BY <1>1, <4>2, <5>1
      <4>3. CASE ~(req[r].at <= x /\ w <= req[r].at)
        <5>1. \A v \in windows' : v <= x => v <= w
          BY <1>1, <1>2, <4>1, <4>3 DEF TypeOK
        <5> QED
          BY <1>1, <4>1, <5>1
      <4> QED
        BY <4>2, <4>3
    <3>2. CASE ~\E w \in windows : w <= x
      BY <1>1, <1>2, <2>2, <3>2
    <3> QED
      BY <3>1, <3>2
  <2>3. promised' # 0 => \E v \in windows' : promised' = NextAvailableAt(v)'
    BY <1>1 DEF Inv, NoFutureWindow, NextAvailableAt
  <2> QED
    BY <1>1, <2>1, <2>2, <2>3 DEF NoFutureWindow
<1>7. DoublingDeserved'
  BY <1>1, DoublingFrame DEF Inv, DoublingDeserved
<1>8. windows' \subseteq Nat /\ windows \subseteq windows'
  BY <1>1, <1>2 DEF TypeOK
<1> QED
  BY <1>1, <1>3, <1>4, <1>5, <1>6, <1>7, <1>8, RequestStepInv
     DEF Inv, TypeOK, AnnouncementsTrue

LEMMA AnnounceInv ==
  ASSUME Inv, NEW r \in Requests, Announce(r)
  PROVE  Inv'
<1>1. /\ req[r].pc = "announce" /\ Goto(r, "push") /\ Knows(r) /\ TypeOK
      /\ announced' = announced \cup {req[r].at}
      /\ UNCHANGED <<now, windows, posts, guesses, pushed, promised>>
  BY DEF Announce, Inv, RequestsKnow
<1>2. "push" \in Steps
  BY DEF Steps
<1>3. /\ req' \in [Requests -> Request]
      /\ \A q \in Requests \ {r} : req'[q] = req[q]
      /\ req'[r].pc = "push" /\ req'[r].status = req[r].status
      /\ req'[r].op = req[r].op /\ req'[r].user = req[r].user /\ req'[r].at = req[r].at
      /\ req'[r].latest = req[r].latest
  BY <1>1, <1>2, GotoFacts, Zenon
<1>4. Knows(r)'
  BY <1>1, <1>3 DEF Knows, Starting
<1>5. NoFutureWindow' /\ DoublingDeserved'
  BY <1>1, DoublingFrame DEF Inv, NoFutureWindow, NextAvailableAt, DoublingDeserved
<1> QED
  BY <1>1, <1>3, <1>4, <1>5, RequestStepInv DEF Inv, TypeOK, AnnouncementsTrue, Knows

LEMMA NotifyPartyStartedInv ==
  ASSUME Inv, NEW r \in Requests, NotifyPartyStarted(r)
  PROVE  Inv'
<1>1. /\ req[r].pc = "push" /\ Knows(r) /\ TypeOK /\ req[r].at \in windows
      /\ req[r].op = "start" /\ req[r].status \in {"none", "internal_error"}
      /\ req[r].status = "none" => req[r].at \in announced
      /\ pushed' = pushed \cup {req[r].at}
      /\ UNCHANGED <<now, windows, posts, guesses, announced>>
  BY DEF NotifyPartyStarted, Inv, RequestsKnow, Knows
<1>2. PICK status \in Statuses :
        Answer(r, status) /\ (status = "created" => req[r].status = "none")
  BY <1>1, StatusesTyped DEF NotifyPartyStarted
<1>3. /\ req' \in [Requests -> Request]
      /\ \A q \in Requests \ {r} : req'[q] = req[q]
      /\ req'[r].pc = "replied" /\ req'[r].status = status
      /\ req'[r].op = req[r].op /\ req'[r].user = req[r].user /\ req'[r].at = req[r].at
      /\ req'[r].latest = req[r].latest
  BY <1>1, <1>2, AnswerFacts, Zenon
<1>4. Knows(r)'
  BY <1>1, <1>3 DEF Knows, Starting
<1>5. /\ promised' \in {promised, NextAvailableAt(req[r].at)}
      /\ NextAvailableAt(req[r].at) \in Nat
  BY <1>1, RequestTyped DEF NotifyPartyStarted, NextAvailableAt
<1>6. NoFutureWindow' /\ DoublingDeserved'
  BY <1>1, <1>5, DoublingFrame DEF Inv, NoFutureWindow, NextAvailableAt, DoublingDeserved
<1>7. promised' \in Nat
  BY <1>5 DEF Inv, TypeOK
<1>8. req'[r].status = "created" => req'[r].at \in announced' \cap pushed'
  BY <1>1, <1>2, <1>3
<1> QED
  BY <1>1, <1>3, <1>4, <1>6, <1>7, <1>8, RequestStepInv DEF Inv, TypeOK, AnnouncementsTrue

LEMMA BuildStatusInv ==
  ASSUME Inv, NEW r \in Requests, BuildStatus(r)
  PROVE  Inv'
<1>1. /\ req[r].pc = "build" /\ Knows(r) /\ TypeOK
      /\ req' = [req EXCEPT ![r] = Idle]
      /\ UNCHANGED <<now, windows, posts, guesses, announced, pushed>>
  BY DEF BuildStatus, Inv, RequestsKnow, Done
<1>2. /\ req' \in [Requests -> Request] /\ req'[r] = Idle
      /\ \A q \in Requests \ {r} : req'[q] = req[q]
  BY <1>1, ReqUpdate, IdleTyped
<1>3. Knows(r)'
  BY <1>1, <1>2, IdleKnows DEF TypeOK
<1>4. promised' = promised \/ \E v \in windows : promised' = NextAvailableAt(v)
  <2>1. CASE req[r].latest = {}
    BY <2>1 DEF BuildStatus
  <2>2. CASE req[r].latest # {}
    <3>1. PICK v \in windows : req[r].latest = {v}
      BY <1>1, <2>2 DEF Knows
    <3>2. v \in {v} /\ \A w \in {v} : w <= v
      BY <1>1, <3>1 DEF TypeOK
    <3>3. Latest({v}) = v
      BY <3>2, Zenon DEF Latest
    <3> QED
      BY <3>1, <3>3 DEF BuildStatus
  <2> QED
    BY <2>1, <2>2
<1>5. promised' \in Nat
  BY <1>1, <1>4 DEF TypeOK, NextAvailableAt
<1>6. NoFutureWindow' /\ DoublingDeserved'
  BY <1>1, <1>4, DoublingFrame DEF Inv, NoFutureWindow, NextAvailableAt, DoublingDeserved
<1> QED
  BY <1>1, <1>2, <1>3, <1>5, <1>6, IdleTyped, RequestStepInv DEF Inv, TypeOK, AnnouncementsTrue

LEMMA CreatePhotosInv ==
  ASSUME Inv, NEW r \in Requests, CreatePhotos(r)
  PROVE  Inv'
<1>1. /\ req[r].pc = "ready" /\ Knows(r) /\ TypeOK
      /\ req' = [req EXCEPT ![r] = Idle]
      /\ posts' = posts \cup {[user |-> req[r].user, at |-> req[r].at]}
      /\ UNCHANGED <<now, windows, guesses, announced, pushed, promised>>
  BY DEF CreatePhotos, At, Inv, RequestsKnow, Done
<1>2. /\ req' \in [Requests -> Request] /\ req'[r] = Idle
      /\ \A q \in Requests \ {r} : req'[q] = req[q]
  BY <1>1, ReqUpdate, IdleTyped
<1>3. Knows(r)'
  BY <1>1, <1>2, IdleKnows DEF TypeOK
<1>4. posts' \subseteq Post /\ posts \subseteq posts'
  BY <1>1, RequestTyped DEF TypeOK, Post, Knows
<1>5. NoFutureWindow' /\ DoublingDeserved'
  BY <1>1, <1>4, DoublingFrame DEF Inv, NoFutureWindow, NextAvailableAt, DoublingDeserved
<1> QED
  BY <1>1, <1>2, <1>3, <1>4, <1>5, IdleTyped, RequestStepInv DEF Inv, TypeOK, AnnouncementsTrue

LEMMA InsertGuessInv ==
  ASSUME Inv, NEW r \in Requests, InsertGuess(r)
  PROVE  Inv'
<1> DEFINE row == [user |-> req[r].user, at |-> req[r].at,
                   doubled |-> req[r].doubled, entitled |-> req[r].entitled]
<1>1. /\ req[r].pc = "scored" /\ Knows(r) /\ TypeOK
      /\ req' = [req EXCEPT ![r] = Idle]
      /\ guesses' = guesses \cup {row}
      /\ UNCHANGED <<now, windows, posts, announced, pushed, promised>>
  BY DEF InsertGuess, Inv, RequestsKnow, Done
<1>2. /\ req' \in [Requests -> Request] /\ req'[r] = Idle
      /\ \A q \in Requests \ {r} : req'[q] = req[q]
  BY <1>1, ReqUpdate, IdleTyped
<1>3. Knows(r)'
  BY <1>1, <1>2, IdleKnows DEF TypeOK
<1>4. row \in GuessRow
  BY <1>1, RequestTyped DEF GuessRow, Knows
<1>5. /\ row.doubled => \E w \in windows : Active(w, row.at) /\ Posted(row.user, w)
      /\ row.entitled /\ ~row.doubled => Overlap(row.at)
  BY <1>1 DEF Knows
<1>6. DoublingDeserved'
  <2>1. PICK g \in GuessRow : g = row
    BY <1>4
  <2>2. /\ g.doubled => \E w \in windows : Active(w, g.at) /\ Posted(g.user, w)
        /\ g.entitled /\ ~g.doubled => Overlap(g.at)
    BY <1>5, <2>1
  <2>3. guesses' = guesses \cup {g}
    BY <1>1, <2>1
  <2>4. /\ g.doubled => \E w \in windows' : Active(w, g.at)' /\ Posted(g.user, w)'
        /\ g.entitled /\ ~g.doubled => Overlap(g.at)'
    BY <1>1, <2>2 DEF Active, Posted, Overlap
  <2> HIDE DEF row
  <2> QED
    BY <1>1, <2>3, <2>4, DoublingFrame DEF Inv, DoublingDeserved
<1>7. NoFutureWindow'
  BY <1>1 DEF Inv, NoFutureWindow, NextAvailableAt
<1>8. guesses' \subseteq GuessRow
  BY <1>1, <1>4 DEF TypeOK
<1> QED
  BY <1>1, <1>2, <1>3, <1>6, <1>7, <1>8, IdleTyped, RequestStepInv
     DEF Inv, TypeOK, AnnouncementsTrue

LEMMA TickInv ==
  ASSUME Inv, Tick
  PROVE  Inv'
<1>1. /\ now \in Nat /\ now' = now + 1 /\ now <= now' /\ now' \in Nat
      /\ UNCHANGED <<windows, posts, guesses, announced, pushed, req, promised>>
  BY DEF Tick, Inv, TypeOK
<1>2. TypeOK' /\ AnnouncementsTrue' /\ DoublingDeserved'
  BY <1>1, DoublingFrame DEF Inv, TypeOK, AnnouncementsTrue, At, DoublingDeserved
<1>3. NoFutureWindow'
  <2>1. ASSUME NEW x \in 0 .. now', \E w \in windows : w <= x
        PROVE  \E w \in windows : w <= x /\ \A v \in windows : v <= x => v <= w
    <3>1. CASE x \in 0 .. now
      BY <2>1, <3>1 DEF Inv, NoFutureWindow
    <3>2. CASE x = now + 1
      <4>1. now \in 0 .. now /\ \E w \in windows : w <= now
        BY <1>1, <2>1 DEF Inv, NoFutureWindow
      <4>2. PICK w \in windows : w <= now /\ \A v \in windows : v <= now => v <= w
        BY <4>1 DEF Inv, NoFutureWindow
      <4> QED
        BY <1>1, <3>2, <4>2 DEF Inv, NoFutureWindow, TypeOK
    <3> QED
      BY <1>1, <3>1, <3>2
  <2>2. \A w \in windows' : w <= now'
    BY <1>1 DEF Inv, NoFutureWindow, TypeOK
  <2>3. promised' # 0 => \E v \in windows' : promised' = NextAvailableAt(v)'
    BY <1>1 DEF Inv, NoFutureWindow, NextAvailableAt
  <2> QED
    BY <1>1, <2>1, <2>2, <2>3 DEF NoFutureWindow
<1>4. RequestsKnow'
  BY <1>1, KnowsFrame DEF Inv, RequestsKnow
<1> QED
  BY <1>2, <1>3, <1>4 DEF Inv

LEMMA StepInv == Inv /\ [Next]_vars => Inv'
<1> SUFFICES ASSUME Inv, [Next]_vars PROVE Inv'
  OBVIOUS
<1>1. ASSUME NEW r \in Requests, NEW u \in Players, NEW op \in Ops, Arrive(r, u, op)
      PROVE  Inv'
  BY <1>1, ArriveInv
<1>2. ASSUME NEW r \in Requests, Leave(r) PROVE Inv'
  BY <1>2, LeaveInv
<1>3. ASSUME NEW r \in Requests, Serve(r) PROVE Inv'
  BY <1>3, StartRefusedInv, StartLockedInv, StartInsertInv, AnnounceInv, AnnounceFailedInv,
     NotifyPartyStartedInv, StatusReadInv, BuildStatusInv, CreatePhotosInv,
     ScoreMultiplierInv, InsertGuessInv, Zenon DEF Serve
<1>4. ASSUME Tick PROVE Inv'
  BY <1>4, TickInv
<1>5. ASSUME UNCHANGED vars PROVE Inv'
  <2>1. UNCHANGED <<now, windows, posts, guesses, announced, pushed, req, promised>>
    BY <1>5 DEF vars
  <2>2. TypeOK' /\ AnnouncementsTrue' /\ DoublingDeserved'
    BY <2>1, DoublingFrame DEF Inv, TypeOK, AnnouncementsTrue, At, DoublingDeserved
  <2>3. NoFutureWindow'
    BY <2>1 DEF Inv, NoFutureWindow, NextAvailableAt
  <2>4. RequestsKnow'
    BY <2>1, KnowsFrame DEF Inv, RequestsKnow, TypeOK
  <2> QED
    BY <2>2, <2>3, <2>4 DEF Inv
<1> QED
  BY <1>1, <1>2, <1>3, <1>4, <1>5 DEF Next

-----------------------------------------------------------------------------
(* The theorems. *)

\* The inductive invariant holds in every run.
THEOREM InvHolds == Spec => []Inv
<1>1. Init => Inv
  BY InitInv
<1>2. Inv /\ [Next]_vars => Inv'
  BY StepInv
<1> QED
  BY <1>1, <1>2, PTL DEF Spec

\* Every table and request keeps its type.
THEOREM TypeCorrect == Spec => []TypeOK
<1>1. Inv => TypeOK
  BY DEF Inv
<1> QED
  BY <1>1, InvHolds, PTL

\* A party reported as created is stored, announced and pushed; nothing is
\* announced or pushed for a party that did not start.
THEOREM ReportsTrue == Spec => []AnnouncementsTrue
<1>1. Inv => AnnouncementsTrue
  BY DEF Inv
<1> QED
  BY <1>1, InvHolds, PTL

\* No window starts after the clock, so the latest started window determines
\* the status buildStatus derives.
THEOREM NoWindowAhead == Spec => []NoFutureWindow
<1>1. Inv => NoFutureWindow
  BY DEF Inv
<1> QED
  BY <1>1, InvHolds, PTL

\* Double points only for players who posted, and withheld from them only
\* under overlapping windows.
THEOREM BonusDeserved == Spec => []DoublingDeserved
<1>1. Inv => DoublingDeserved
  BY DEF Inv
<1> QED
  BY <1>1, InvHolds, PTL

\* One request holds the group's lock, and what a request read is true when it
\* acts on it.
THEOREM KnowledgeHolds == Spec => []RequestsKnow
<1>1. Inv => RequestsKnow
  BY DEF Inv
<1> QED
  BY <1>1, InvHolds, PTL

\* Only Start's insert adds a window, at the instant of its request.
LEMMA WindowsComeFromStarts ==
  ASSUME [Next]_vars, NEW w \in windows' \ windows
  PROVE  \E r \in Requests : StartInsert(r) /\ w = req[r].at
BY DEF Next, vars, Serve, Arrive, Leave, StartRefused, StartLocked, StartInsert, Announce,
       AnnounceFailed, NotifyPartyStarted, StatusRead, BuildStatus, CreatePhotos,
       ScoreMultiplier, InsertGuess, Tick

\* What the holder of the lock knows when it inserts.
LEMMA InsertFacts ==
  ASSUME Inv, NEW r \in Requests, StartInsert(r)
  PROVE  /\ Starting(r) /\ req[r].at \in Nat
         /\ \A v \in windows : v <= req[r].at => NextAvailableAt(v) <= req[r].at
<1>1. /\ req[r].pc = "locked" /\ req[r].op = "start" /\ StartRefusal(req[r].at) = "none"
      /\ req[r].at \in Nat /\ req[r].at <= now
  BY RequestTyped DEF StartInsert, Inv, RequestsKnow, Knows
<1>2. \A v \in windows : v <= req[r].at => NextAvailableAt(v) <= req[r].at
  BY <1>1, RefusalFacts DEF Inv
<1> QED
  BY <1>1, <1>2 DEF Starting

\* The recharge rule, as far as the lock can enforce it.
THEOREM RechargeKept == Spec => RechargeRespected
<1>1. Inv /\ [Next]_vars =>
        [\A w \in windows' \ windows : \A v \in windows :
            v <= w => NextAvailableAt(v) <= w]_vars
  BY WindowsComeFromStarts, InsertFacts
<1> QED
  BY <1>1, InvHolds, PTL DEF Spec, RechargeRespected

\* No party starts before the next_available_at that had been told to a client
\* when the button was pressed.
THEOREM PromiseOfStatusKept == Spec => StatusPromiseKept
<1>1. ASSUME Inv, NEW r \in Requests, StartInsert(r)
      PROVE  req[r].told <= req[r].at
  <2>1. req[r].told # 0 => \E v \in windows : v <= req[r].at /\ req[r].told = NextAvailableAt(v)
    BY <1>1, InsertFacts DEF Inv, RequestsKnow, Knows
  <2> QED
    BY <1>1, <2>1, InsertFacts
<1>2. Inv /\ [Next]_vars =>
        [\A r \in Requests : StartInsert(r) => req[r].told <= req[r].at]_vars
  BY <1>1
<1> QED
  BY <1>2, InvHolds, PTL DEF Spec, StatusPromiseKept

-----------------------------------------------------------------------------
(* Without concurrent starts, the rule holds as it is documented. *)

SerialInv ==
  /\ OneStarter
  /\ StartsSpaced
  /\ \A r \in Requests : Starting(r) => \A w \in windows : w <= req[r].at

LEMMA SerialInit == Init => SerialInv
<1> SUFFICES ASSUME Init PROVE SerialInv
  OBVIOUS
<1>1. windows = {} /\ \A r \in Requests : req[r].pc = "idle"
  BY IdleTyped DEF Init
<1> QED
  BY <1>1 DEF SerialInv, OneStarter, Starting, StartsSpaced

\* A request begins to start a party only when it arrives.
LEMMA StartersArrive ==
  ASSUME Inv, Next, NEW r \in Requests, Starting(r)'
  PROVE  \/ Starting(r) /\ req'[r].at = req[r].at
         \/ req'[r].at = now /\ windows' = windows
<1>0. TypeOK
  BY DEF Inv
<1>1. ASSUME NEW q \in Requests, NEW u \in Players, NEW op \in Ops, Arrive(q, u, op)
      PROVE  \/ Starting(r) /\ req'[r].at = req[r].at
             \/ req'[r].at = now /\ windows' = windows
  <2>1. CASE q = r
    <3>1. req'[r].at = now
      BY <1>0, <1>1, <2>1 DEF Arrive, TypeOK, Idle
    <3> QED
      BY <1>1, <3>1 DEF Arrive
  <2>2. CASE q # r
    <3>1. req'[r] = req[r]
      BY <1>0, <1>1, <2>2 DEF Arrive, TypeOK
    <3> QED
      BY <3>1 DEF Starting
  <2> QED
    BY <2>1, <2>2
<1>2. ASSUME NEW q \in Requests, Leave(q) \/ Serve(q), q # r
      PROVE  req'[r] = req[r]
  BY <1>0, <1>2 DEF Leave, Serve, StartRefused, StartLocked, StartInsert, Announce,
     AnnounceFailed, NotifyPartyStarted, StatusRead, BuildStatus, CreatePhotos,
     ScoreMultiplier, InsertGuess, Goto, Answer, Done, TypeOK
<1>3. ASSUME Leave(r) \/ Serve(r)
      PROVE  Starting(r) /\ req'[r].at = req[r].at
  <2>1. req[r] \in Request /\ Knows(r)
    BY <1>0 DEF TypeOK, Inv, RequestsKnow
  <2>2. CASE Leave(r) \/ BuildStatus(r) \/ CreatePhotos(r) \/ InsertGuess(r)
    <3>1. req'[r] = Idle
      BY <1>0, <2>2 DEF Leave, BuildStatus, CreatePhotos, InsertGuess, Done, TypeOK
    <3> QED
      BY <3>1, IdleTyped DEF Starting
  <2>3. CASE StartLocked(r)
    BY <1>0, <2>1, <2>3 DEF StartLocked, At, Goto, Starting, TypeOK, Request
  <2>4. CASE StartInsert(r) \/ Announce(r) \/ AnnounceFailed(r) \/ StatusRead(r)
             \/ ScoreMultiplier(r) \/ NotifyPartyStarted(r) \/ StartRefused(r)
    <3>1. req'[r].pc \in {"announce", "push", "build", "scored", "replied"}
      BY <1>0, <2>1, <2>4 DEF StartInsert, Announce, AnnounceFailed, StatusRead,
         ScoreMultiplier, NotifyPartyStarted, StartRefused, Goto, Answer, TypeOK, Request
    <3> QED
      BY <3>1 DEF Starting
  <2> QED
    BY <1>3, <2>2, <2>3, <2>4 DEF Serve
<1>4. ASSUME Tick PROVE Starting(r) /\ req'[r].at = req[r].at
  BY <1>4 DEF Tick, Starting
<1> QED
  <2>1. CASE \E q \in Requests, u \in Players, op \in Ops : Arrive(q, u, op)
    BY <1>1, <2>1
  <2>2. CASE \E q \in Requests : Leave(q) \/ Serve(q)
    BY <1>2, <1>3, <2>2 DEF Starting
  <2>3. CASE Tick
    BY <1>4, <2>3
  <2> QED
    BY <2>1, <2>2, <2>3 DEF Next

LEMMA SerialStep ==
  ASSUME Inv, SerialInv, [Next /\ OneStarter']_vars
  PROVE  SerialInv'
<1>1. CASE UNCHANGED vars
  BY <1>1 DEF vars, SerialInv, OneStarter, Starting, StartsSpaced, NextAvailableAt
<1>2. CASE Next /\ OneStarter'
  <2>1. \A w \in windows : w \in Nat /\ w <= now
    BY DEF Inv, TypeOK, NoFutureWindow
  <2>2. ASSUME NEW r \in Requests, StartInsert(r)
        PROVE  SerialInv'
    <3>1. /\ Starting(r) /\ windows' = windows \cup {req[r].at} /\ req[r].at \in Nat
          /\ \A v \in windows : v <= req[r].at /\ NextAvailableAt(v) <= req[r].at
      BY <2>2, InsertFacts DEF SerialInv, StartInsert
    <3>2. StartsSpaced'
      BY <2>1, <3>1 DEF StartsSpaced, SerialInv, NextAvailableAt
    <3>3. ASSUME NEW q \in Requests PROVE ~Starting(q)'
      <4>1. CASE q = r
        BY <2>2, <4>1 DEF StartInsert, Goto, Starting, Inv, TypeOK, Request
      <4>2. CASE q # r
        <5>1. ~Starting(q) /\ req'[q] = req[q]
          BY <2>2, <3>1, <4>2 DEF SerialInv, OneStarter, StartInsert, Goto, Inv, TypeOK
        <5> QED
          BY <5>1 DEF Starting
      <4> QED
        BY <4>1, <4>2
    <3> QED
      BY <1>2, <3>2, <3>3 DEF SerialInv
  <2>3. ASSUME windows' = windows
        PROVE  SerialInv'
    <3>1. StartsSpaced'
      BY <2>3 DEF StartsSpaced, SerialInv, NextAvailableAt
    <3>2. ASSUME NEW r \in Requests, Starting(r)', NEW w \in windows
          PROVE  w <= req'[r].at
      <4>1. (Starting(r) /\ req'[r].at = req[r].at) \/ req'[r].at = now
        BY <1>2, <3>2, StartersArrive
      <4> QED
        BY <2>1, <4>1 DEF SerialInv
    <3> QED
      BY <1>2, <2>3, <3>1, <3>2 DEF SerialInv
  <2>4. windows' = windows \/ \E r \in Requests : StartInsert(r)
    BY <1>2 DEF Next, Serve, Arrive, Leave, StartRefused, StartLocked, Announce,
       AnnounceFailed, NotifyPartyStarted, StatusRead, BuildStatus, CreatePhotos,
       ScoreMultiplier, InsertGuess, Tick
  <2> QED
    BY <2>2, <2>3, <2>4
<1> QED
  BY <1>1, <1>2

LEMMA SerialHolds == SerialSpec => [](Inv /\ SerialInv)
<1>1. Init => Inv /\ SerialInv
  BY InitInv, SerialInit
<1>2. Inv /\ SerialInv /\ [Next /\ OneStarter']_vars => (Inv /\ SerialInv)'
  BY SerialStep, StepInv
<1> QED
  BY <1>1, <1>2, PTL DEF SerialSpec

\* When no two starts are in flight at once, any two parties are a full party
\* and a full recharge apart.
THEOREM SerialStartsSpaced == SerialSpec => []StartsSpaced
<1>1. SerialInv => StartsSpaced
  BY DEF SerialInv
<1> QED
  BY <1>1, SerialHolds, PTL

\* ... and a guess of a player who had posted in the running party doubles.
THEOREM SerialBonus == SerialSpec => []EntitledGuessDoubles
<1>1. Inv /\ SerialInv => EntitledGuessDoubles
  <2> SUFFICES ASSUME Inv, SerialInv, NEW g \in guesses, g.entitled, ~g.doubled
               PROVE  FALSE
    BY DEF EntitledGuessDoubles
  <2>1. Overlap(g.at) /\ g.at \in Nat /\ windows \subseteq Nat
    BY DEF Inv, DoublingDeserved, TypeOK, GuessRow
  <2>2. PICK v \in windows, w \in windows : v < w /\ Active(v, g.at) /\ Active(w, g.at)
    BY <2>1 DEF Overlap
  <2>3. NextAvailableAt(v) <= w
    BY <2>2 DEF SerialInv, StartsSpaced
  <2> QED
    BY <2>1, <2>2, <2>3 DEF Active, NextAvailableAt
<1> QED
  BY <1>1, SerialHolds, PTL

-----------------------------------------------------------------------------
(* Groups and invites, for any people, groups, invites, transactions and caps. *)

CONSTANTS People, Rooms, Codes, Calls, None, Invites, InviteTTL, MaxActive, MaxDaily, DayHours, MaxHour

VARIABLES rooms, members, invites, txn, hour

Group == INSTANCE Groups

\* What the constants are: each table has keys of its own, the invites of a
\* behaviour are finitely many, and None is no value of a column.
GroupSane ==
  /\ IsFiniteSet(Invites)
  /\ {InviteTTL, MaxActive, MaxDaily, MaxHour} \subseteq Nat /\ DayHours \in Nat \ {0}
  /\ Rooms \cap People = {} /\ Rooms \cap Invites = {} /\ People \cap Invites = {}
  /\ None \notin Rooms \cup People \cup Codes \cup Nat \cup Group!Row

\* An invite that was counted still fits, in its group and in its creator's day,
\* by the clock of the count; the invite of a join is still what the join found.
CountedFits(r) ==
  /\ {r.room, r.user} \subseteq r.held
  /\ Cardinality(Group!Active(r.room, r.now)) < MaxActive
  /\ Cardinality(Group!CreatedToday(r.user, r.now)) < MaxDaily
JoinHolds(r) ==
  /\ r.invite \in Invites /\ r.held = {r.invite}
  /\ Group!Live(r.invite, r.at) /\ r.room = invites[r.invite].room
CallSound(r) ==
  /\ r.pc # "idle" => r.user \in People
  /\ r.pc \in {"idle", "founding"} => r.held = {}
  /\ r.pc \in {"inviting", "counted"} => r.room \in Rooms /\ r.held \subseteq {r.room, r.user} /\ r.now <= hour
  /\ r.pc = "counted" => CountedFits(r)
  /\ r.pc = "joining" => JoinHolds(r)
CallsSound == \A c \in Calls : \A r \in {txn[c]} : CallSound(r)

\* A row is locked by one transaction.
LocksExclude == \A c, d \in Calls : c # d => txn[c].held \cap txn[d].held = {}

GroupInv ==
  /\ Group!TypeOK /\ IsFiniteSet(members) /\ CallsSound /\ LocksExclude
  /\ Group!ActiveCapped /\ Group!DailyCapped

\* The module has its own instance of the cardinality.
LEMMA GroupCardinality == ASSUME NEW S PROVE Group!Cardinality(S) = Cardinality(S)
  BY DEF Group!Cardinality, Cardinality, Group!IsFiniteSet, IsFiniteSet

\* The beginnings of the days are in the order of the hours.
LEMMA MidnightMonotone ==
  ASSUME NEW a \in Nat, NEW b \in Nat, a <= b, DayHours \in Nat \ {0}
  PROVE  Group!Midnight(a) <= Group!Midnight(b) /\ Group!Midnight(a) \in Int /\ Group!Midnight(b) \in Int
<1> DEFINE qa == a \div DayHours
<1> DEFINE qb == b \div DayHours
<1>1. qa \in Nat /\ qb \in Nat
  OBVIOUS
<1>2. a = DayHours * qa + (a % DayHours) /\ a % DayHours \in 0..(DayHours - 1)
  OBVIOUS
<1>3. b = DayHours * qb + (b % DayHours) /\ b % DayHours \in 0..(DayHours - 1)
  OBVIOUS
<1> HIDE DEF qa, qb
<1>4. DayHours * qa \in Int /\ DayHours * qb \in Int
  BY <1>1
<1>5. qa <= qb
  <2> SUFFICES ASSUME qb + 1 <= qa PROVE FALSE
    BY <1>1
  <2>1. DayHours * (qb + 1) <= DayHours * qa
    <3>1. qa - (qb + 1) \in Nat
      BY <1>1
    <3>2. DayHours * (qa - (qb + 1)) \in Nat
      BY <3>1
    <3>3. DayHours * (qa - (qb + 1)) = DayHours * qa - DayHours * (qb + 1)
      BY <1>1
    <3> QED
      BY <1>1, <1>4, <3>2, <3>3
  <2>2. DayHours * (qb + 1) = DayHours * qb + DayHours
    BY <1>1
  <2> QED
    BY <1>2, <1>3, <1>4, <2>1, <2>2
<1>6. DayHours * qa <= DayHours * qb
  <2>1. qb - qa \in Nat
    BY <1>1, <1>5
  <2>2. DayHours * (qb - qa) \in Nat
    BY <2>1
  <2>3. DayHours * (qb - qa) = DayHours * qb - DayHours * qa
    BY <1>1
  <2> QED
    BY <1>4, <2>2, <2>3
<1>7. Group!Midnight(a) = DayHours * qa /\ Group!Midnight(b) = DayHours * qb
  BY <1>2, <1>3, <1>4 DEF Group!Midnight
<1> QED
  BY <1>4, <1>6, <1>7

\* Fewer of finitely many invites are no more.
LEMMA Fewer ==
  ASSUME GroupSane, NEW T \in SUBSET Invites, NEW S \in SUBSET T
  PROVE  /\ Cardinality(S) \in Nat /\ Cardinality(T) \in Nat /\ Cardinality(S) <= Cardinality(T)
         /\ \A i : Cardinality(S \cup {i}) \in Nat /\ Cardinality(S \cup {i}) <= Cardinality(T) + 1
<1>1. IsFiniteSet(T)
  BY FS_Subset DEF GroupSane
<1>2. IsFiniteSet(S)
  BY <1>1, FS_Subset
<1>3. Cardinality(S) \in Nat /\ Cardinality(T) \in Nat /\ Cardinality(S) <= Cardinality(T)
  BY <1>1, <1>2, FS_Subset, FS_CardinalityType
<1>4. ASSUME NEW i PROVE Cardinality(S \cup {i}) \in Nat /\ Cardinality(S \cup {i}) <= Cardinality(T) + 1
  <2>1. Cardinality(S \cup {i}) = Cardinality(S) \/ Cardinality(S \cup {i}) = Cardinality(S) + 1
    BY <1>2, FS_AddElement
  <2> QED
    BY <1>3, <2>1
<1> QED
  BY <1>3, <1>4

\* What counts against a cap at a time counted at every earlier time.
LEMMA CountsShrink ==
  ASSUME GroupSane, Group!TypeOK, NEW a \in Nat, NEW b \in Nat, a <= b, NEW g, NEW u
  PROVE  /\ Group!Active(g, b) \subseteq Group!Active(g, a) /\ Group!Active(g, a) \subseteq Invites
         /\ Group!CreatedToday(u, b) \subseteq Group!CreatedToday(u, a) /\ Group!CreatedToday(u, a) \subseteq Invites
<1>1. \A i \in Invites : Group!Stored(i) => invites[i].created \in Nat /\ invites[i].expires \in Nat
  BY DEF Group!TypeOK, Group!Stored, Group!Row, Group!Hours
<1>2. Group!Midnight(a) <= Group!Midnight(b) /\ Group!Midnight(a) \in Int /\ Group!Midnight(b) \in Int
  BY MidnightMonotone DEF GroupSane
<1>3. Group!Active(g, b) \subseteq Group!Active(g, a) /\ Group!Active(g, a) \subseteq Invites
  BY <1>1 DEF Group!Active, Group!Live
<1>4. Group!CreatedToday(u, b) \subseteq Group!CreatedToday(u, a) /\ Group!CreatedToday(u, a) \subseteq Invites
  BY <1>1, <1>2 DEF Group!CreatedToday
<1> QED
  BY <1>3, <1>4

\* A step that changes one transaction and no invite.
LEMMA TxnStep ==
  ASSUME GroupInv, NEW c \in Calls, NEW r \in Group!Call, CallSound(r),
         txn' = [txn EXCEPT ![c] = r],
         \A d \in Calls \ {c} : r.held \cap txn[d].held = {},
         rooms' \in [Rooms -> Codes \cup {None}],
         members' \subseteq [room: Rooms, user: People], IsFiniteSet(members'),
         UNCHANGED <<invites, hour>>
  PROVE  GroupInv'
<1>1. txn \in [Calls -> Group!Call]
  BY DEF GroupInv, Group!TypeOK
<1>2. txn' \in [Calls -> Group!Call] /\ txn'[c] = r /\ \A d \in Calls \ {c} : txn'[d] = txn[d]
  BY <1>1
<1>3. Group!TypeOK'
  BY <1>2 DEF GroupInv, Group!TypeOK
<1>4. ASSUME NEW q, CallSound(q) PROVE CallSound(q)'
  BY <1>4 DEF CallSound, CountedFits, JoinHolds, Group!Active, Group!CreatedToday, Group!Live, Group!Stored
<1>5. CallsSound'
  <2> SUFFICES ASSUME NEW d \in Calls, NEW q, q = txn'[d] PROVE CallSound(q)'
    BY DEF CallsSound
  <2>1. CallSound(q)
    BY <1>2 DEF GroupInv, CallsSound
  <2> QED
    BY <2>1, <1>4
<1>6. LocksExclude'
  <2> SUFFICES ASSUME NEW d \in Calls, NEW e \in Calls, d # e PROVE txn'[d].held \cap txn'[e].held = {}
    BY DEF LocksExclude
  <2>1. txn[d].held \cap txn[e].held = {}
    BY DEF GroupInv, LocksExclude
  <2> QED
    BY <1>2, <2>1
<1>7. Group!ActiveCapped'
  BY DEF GroupInv, Group!ActiveCapped, Group!Active, Group!Live, Group!Stored
<1>8. Group!DailyCapped'
  BY DEF GroupInv, Group!DailyCapped, Group!CreatedToday, Group!Stored
<1> QED
  BY <1>3, <1>5, <1>6, <1>7, <1>8 DEF GroupInv

\* A transaction that is none is sound.
LEMMA IdleCall == ASSUME GroupSane PROVE Group!Idle \in Group!Call /\ CallSound(Group!Idle) /\ Group!Idle.held = {}
<1>1. 0 \in Group!Hours
  BY DEF GroupSane, Group!Hours
<1>2. Group!Idle \in Group!Call
  BY <1>1 DEF Group!Idle, Group!Call
<1> QED
  BY <1>2 DEF Group!Idle, CallSound

\* A transaction that ends lets everything go.
LEMMA CloseStep ==
  ASSUME GroupSane, GroupInv, NEW c \in Calls, Group!Close(c),
         rooms' \in [Rooms -> Codes \cup {None}],
         members' \subseteq [room: Rooms, user: People], IsFiniteSet(members'),
         UNCHANGED <<invites, hour>>
  PROVE  GroupInv'
<1>1. PICK r : r = Group!Idle
  OBVIOUS
<1>2. txn' = [txn EXCEPT ![c] = r]
  BY <1>1 DEF Group!Close
<1>3. r \in Group!Call /\ CallSound(r) /\ r.held = {}
  BY <1>1, IdleCall DEF CallSound
<1> QED
  BY <1>2, <1>3, TxnStep

\* The facts of a transaction in progress.
LEMMA CallFacts ==
  ASSUME GroupInv, NEW c \in Calls
  PROVE  /\ txn[c] \in Group!Call /\ CallSound(txn[c]) /\ txn \in [Calls -> Group!Call]
         /\ rooms \in [Rooms -> Codes \cup {None}] /\ members \subseteq [room: Rooms, user: People]
         /\ invites \in [Invites -> {None} \cup Group!Row] /\ hour \in Nat /\ IsFiniteSet(members)
  BY DEF GroupInv, CallsSound, Group!TypeOK, Group!Hours

\* A group is founded with no row locked.
LEMMA CreateGroupStep ==
  ASSUME GroupSane, GroupInv, NEW c \in Calls, NEW u \in People, NEW code \in Codes, Group!CreateGroup(c, u, code)
  PROVE  GroupInv'
<1>1. PICK r : r = [Group!Idle EXCEPT !.pc = "founding", !.user = u, !.code = code]
  OBVIOUS
<1>2. r = [pc |-> "founding", user |-> u, room |-> None, invite |-> None, code |-> code, at |-> 0, now |-> 0, held |-> {}]
  BY <1>1 DEF Group!Idle
<1>3. 0 \in Group!Hours
  BY DEF GroupSane, Group!Hours
<1>4. r \in Group!Call
  BY ONLY <1>2, <1>3, u \in People, code \in Codes DEF Group!Call
<1>5. CallSound(r) /\ r.held = {}
  BY <1>2 DEF CallSound
<1>6. txn' = [txn EXCEPT ![c] = r] /\ UNCHANGED <<rooms, members, invites, hour>>
  BY <1>1 DEF Group!CreateGroup, Group!Open
<1> QED
  BY <1>4, <1>5, <1>6, CallFacts, TxnStep

\* The hour of its transaction is the hour in which it begins.
LEMMA InviteStep ==
  ASSUME GroupSane, GroupInv, NEW c \in Calls, NEW u \in People, NEW g \in Rooms, NEW at \in Group!Hours, Group!Invite(c, u, g, at)
  PROVE  GroupInv'
<1>1. PICK r : r = [Group!Idle EXCEPT !.pc = "inviting", !.user = u, !.room = g, !.at = at, !.now = hour]
  OBVIOUS
<1>2. r = [pc |-> "inviting", user |-> u, room |-> g, invite |-> None, code |-> None, at |-> at, now |-> hour, held |-> {}]
  BY <1>1 DEF Group!Idle
<1>3. hour \in Group!Hours /\ hour \in Nat
  BY DEF GroupInv, Group!TypeOK, Group!Hours
<1>4. r \in Group!Call
  BY ONLY <1>2, <1>3, u \in People, g \in Rooms, at \in Group!Hours DEF Group!Call
<1>5. CallSound(r) /\ r.held = {}
  BY <1>2, <1>3 DEF CallSound
<1>6. txn' = [txn EXCEPT ![c] = r] /\ UNCHANGED <<rooms, members, invites, hour>>
  BY <1>1 DEF Group!Invite, Group!Open
<1> QED
  BY <1>4, <1>5, <1>6, CallFacts, TxnStep

\* A join finds its invite alive and locks it.
LEMMA JoinGroupStep ==
  ASSUME GroupSane, GroupInv, NEW c \in Calls, NEW u \in People, NEW i \in Invites, NEW at \in Group!Hours, Group!JoinGroup(c, u, i, at)
  PROVE  GroupInv'
<1>1. PICK r : r = [Group!Idle EXCEPT !.pc = "joining", !.user = u, !.invite = i, !.room = invites[i].room, !.at = at, !.held = {i}]
  OBVIOUS
<1>2. r = [pc |-> "joining", user |-> u, room |-> invites[i].room, invite |-> i, code |-> None, at |-> at, now |-> 0, held |-> {i}]
  BY <1>1 DEF Group!Idle
<1>3. Group!Live(i, at) /\ Group!Free(i)
  BY DEF Group!JoinGroup
<1>4. invites[i].room \in Rooms
  BY <1>3, CallFacts DEF Group!Live, Group!Stored, Group!Row
<1>5. 0 \in Group!Hours /\ {i} \subseteq Group!Locks
  BY DEF GroupSane, Group!Hours, Group!Locks
<1>6. r \in Group!Call
  BY ONLY <1>2, <1>4, <1>5, u \in People, i \in Invites, at \in Group!Hours DEF Group!Call
<1>7. CallSound(r)
  BY <1>2, <1>3 DEF CallSound, JoinHolds
<1>8. \A d \in Calls \ {c} : r.held \cap txn[d].held = {}
  BY <1>2, <1>3 DEF Group!Free
<1>9. txn' = [txn EXCEPT ![c] = r] /\ UNCHANGED <<rooms, members, invites, hour>>
  BY <1>1 DEF Group!JoinGroup, Group!Open
<1> QED
  BY <1>6, <1>7, <1>8, <1>9, CallFacts, TxnStep

\* A row is locked that nobody holds.
LEMMA LockRowStep ==
  ASSUME GroupSane, GroupInv, NEW c \in Calls, NEW l \in Group!Locks, Group!LockRow(c, l)
  PROVE  GroupInv'
<1>1. PICK t, r : t = txn[c] /\ r = [t EXCEPT !.held = @ \cup {l}]
  OBVIOUS
<1>2. t \in Group!Call /\ CallSound(t) /\ t.pc = "inviting"
  BY <1>1, CallFacts DEF Group!LockRow
<1>3. txn' = [txn EXCEPT ![c] = r] /\ UNCHANGED <<rooms, members, invites, hour>>
  BY <1>1 DEF Group!LockRow
<1>4. l \in {t.room, t.user} /\ \A d \in Calls : l \notin txn[d].held
  BY <1>1 DEF Group!LockRow, Group!NextRow, Group!Free
<1>5. t.held \cup {l} \in SUBSET Group!Locks
  BY <1>2 DEF Group!Call
<1>6. r \in Group!Call
  BY ONLY <1>1, <1>2, <1>5 DEF Group!Call
<1>7. r.pc = t.pc /\ r.user = t.user /\ r.room = t.room /\ r.now = t.now /\ r.held = t.held \cup {l}
  BY ONLY <1>1, <1>2 DEF Group!Call
<1>8. CallSound(r)
  BY <1>2, <1>4, <1>7 DEF CallSound
<1>9. \A d \in Calls \ {c} : r.held \cap txn[d].held = {}
  BY <1>1, <1>4, <1>7 DEF GroupInv, LocksExclude
<1> QED
  BY <1>3, <1>6, <1>8, <1>9, CallFacts, TxnStep

\* With both rows locked, the counts are below the caps.
LEMMA CountInvitesStep ==
  ASSUME GroupSane, GroupInv, NEW c \in Calls, Group!CountInvites(c)
  PROVE  GroupInv'
<1>1. PICK t, r : t = txn[c] /\ r = [t EXCEPT !.pc = "counted"]
  OBVIOUS
<1>2. t \in Group!Call /\ CallSound(t) /\ t.pc = "inviting"
  BY <1>1, CallFacts DEF Group!CountInvites
<1>3. txn' = [txn EXCEPT ![c] = r] /\ UNCHANGED <<rooms, members, invites, hour>>
  BY <1>1 DEF Group!CountInvites
<1>4. {t.room, t.user} \subseteq t.held
  BY <1>1 DEF Group!CountInvites, Group!NextRow
<1>5. r \in Group!Call
  BY ONLY <1>1, <1>2 DEF Group!Call
<1>6. r.pc = "counted" /\ r.user = t.user /\ r.room = t.room /\ r.now = t.now /\ r.held = t.held
  BY ONLY <1>1, <1>2 DEF Group!Call
<1>7. /\ ~(Cardinality(Group!Active(t.room, t.now)) >= MaxActive)
      /\ ~(Cardinality(Group!CreatedToday(t.user, t.now)) >= MaxDaily)
  BY <1>1, GroupCardinality DEF Group!CountInvites, Group!TooMany
<1>8. /\ Cardinality(Group!Active(t.room, t.now)) \in Nat /\ Cardinality(Group!CreatedToday(t.user, t.now)) \in Nat
      /\ MaxActive \in Nat /\ MaxDaily \in Nat
  <2>1. Group!Active(t.room, t.now) \in SUBSET Invites /\ Group!CreatedToday(t.user, t.now) \in SUBSET Invites
    BY DEF Group!Active, Group!CreatedToday
  <2> QED
    BY <2>1, Fewer DEF GroupSane
<1>9. CountedFits(r)
  BY <1>4, <1>6, <1>7, <1>8 DEF CountedFits
<1>10. CallSound(r)
  BY <1>2, <1>6, <1>9 DEF CallSound
<1>11. \A d \in Calls \ {c} : r.held \cap txn[d].held = {}
  BY <1>1, <1>6 DEF GroupInv, LocksExclude
<1> QED
  BY <1>3, <1>5, <1>10, <1>11, CallFacts, TxnStep

\* A transaction that changes rooms, members or nothing comes to its end.
LEMMA EndStep ==
  ASSUME GroupSane, GroupInv, NEW c \in Calls,
         \/ Group!GroupExists(c) \/ Group!InviteRefused(c) \/ Group!Rollback(c) \/ Group!Join(c)
         \/ \E g \in Rooms : Group!Create(c, g)
  PROVE  GroupInv'
<1>1. txn[c] \in Group!Call /\ CallSound(txn[c]) /\ txn[c].code \in Codes \cup {None} /\ txn[c].room \in Rooms \cup {None}
  BY CallFacts DEF Group!Call
<1>2. CASE Group!GroupExists(c) \/ Group!InviteRefused(c) \/ Group!Rollback(c)
  BY <1>2, CallFacts, CloseStep DEF Group!GroupExists, Group!InviteRefused, Group!Rollback
<1>3. ASSUME NEW g \in Rooms, Group!Create(c, g) PROVE GroupInv'
  <2>1. /\ rooms' = [rooms EXCEPT ![g] = txn[c].code] /\ members' = members \cup {[room |-> g, user |-> txn[c].user]}
        /\ Group!Close(c) /\ UNCHANGED <<invites, hour>> /\ txn[c].pc = "founding"
    BY <1>3 DEF Group!Create
  <2>2. rooms' \in [Rooms -> Codes \cup {None}]
    BY <1>1, <2>1, CallFacts
  <2>3. members' \subseteq [room: Rooms, user: People]
    BY <1>1, <2>1, CallFacts DEF CallSound
  <2>4. IsFiniteSet(members')
    BY <2>1, CallFacts, FS_AddElement
  <2> QED
    BY <2>1, <2>2, <2>3, <2>4, CloseStep
<1>4. CASE Group!Join(c)
  <2>1. /\ members' = members \cup {[room |-> txn[c].room, user |-> txn[c].user]}
        /\ Group!Close(c) /\ UNCHANGED <<rooms, invites, hour>> /\ txn[c].pc = "joining"
    BY <1>4 DEF Group!Join
  <2>2. txn[c].room \in Rooms
    BY <1>1, <2>1, CallFacts DEF CallSound, JoinHolds, Group!Live, Group!Stored, Group!Row
  <2>3. members' \subseteq [room: Rooms, user: People]
    BY <1>1, <2>1, <2>2, CallFacts DEF CallSound
  <2>4. IsFiniteSet(members')
    BY <2>1, CallFacts, FS_AddElement
  <2> QED
    BY <2>1, <2>3, <2>4, CallFacts, CloseStep
<1> QED
  BY <1>2, <1>3, <1>4

\* The invites are the same and the clock goes on.
LEMMA HourStep ==
  ASSUME GroupSane, GroupInv, Group!Tick
  PROVE  GroupInv'
<1>1. hour' = hour + 1 /\ hour < MaxHour /\ UNCHANGED <<rooms, members, invites, txn>> /\ hour \in Nat /\ MaxHour \in Nat
  BY DEF Group!Tick, GroupInv, Group!TypeOK, Group!Hours, GroupSane
<1>2. Group!TypeOK'
  BY <1>1 DEF GroupInv, Group!TypeOK, Group!Hours
<1>3. CallsSound'
  <2> SUFFICES ASSUME NEW d \in Calls, NEW q, q = txn'[d] PROVE CallSound(q)'
    BY DEF CallsSound
  <2>1. CallSound(q) /\ q \in Group!Call
    BY <1>1, CallFacts
  <2>2. q.now \in Nat
    BY <2>1 DEF Group!Call, Group!Hours
  <2>3. CountedFits(q)' <=> CountedFits(q)
    BY <1>1 DEF CountedFits, Group!Active, Group!CreatedToday, Group!Live, Group!Stored
  <2>4. JoinHolds(q)' <=> JoinHolds(q)
    BY <1>1 DEF JoinHolds, Group!Live, Group!Stored
  <2> QED
    BY <1>1, <2>1, <2>2, <2>3, <2>4 DEF CallSound
<1>4. PICK h \in Nat : h = hour' /\ hour <= h
  BY <1>1
<1>5. Group!ActiveCapped'
  <2> SUFFICES ASSUME NEW g \in Rooms PROVE Cardinality(Group!Active(g, hour)') <= MaxActive
    BY GroupCardinality DEF Group!ActiveCapped
  <2>1. Group!Active(g, hour)' = Group!Active(g, h)
    BY <1>1, <1>4 DEF Group!Active, Group!Live, Group!Stored
  <2>2. Group!Active(g, h) \subseteq Group!Active(g, hour) /\ Group!Active(g, hour) \subseteq Invites
    BY <1>1, <1>4, CountsShrink DEF GroupInv
  <2>3. Cardinality(Group!Active(g, hour)) <= MaxActive
    BY GroupCardinality DEF GroupInv, Group!ActiveCapped
  <2>4. /\ Cardinality(Group!Active(g, h)) <= Cardinality(Group!Active(g, hour))
        /\ Cardinality(Group!Active(g, h)) \in Nat /\ Cardinality(Group!Active(g, hour)) \in Nat
    BY <2>2, Fewer
  <2> QED
    BY <2>1, <2>3, <2>4 DEF GroupSane
<1>6. Group!DailyCapped'
  <2> SUFFICES ASSUME NEW u \in People PROVE Cardinality(Group!CreatedToday(u, hour)') <= MaxDaily
    BY GroupCardinality DEF Group!DailyCapped
  <2>1. Group!CreatedToday(u, hour)' = Group!CreatedToday(u, h)
    BY <1>1, <1>4 DEF Group!CreatedToday, Group!Stored
  <2>2. Group!CreatedToday(u, h) \subseteq Group!CreatedToday(u, hour) /\ Group!CreatedToday(u, hour) \subseteq Invites
    BY <1>1, <1>4, CountsShrink DEF GroupInv
  <2>3. Cardinality(Group!CreatedToday(u, hour)) <= MaxDaily
    BY GroupCardinality DEF GroupInv, Group!DailyCapped
  <2>4. /\ Cardinality(Group!CreatedToday(u, h)) <= Cardinality(Group!CreatedToday(u, hour))
        /\ Cardinality(Group!CreatedToday(u, h)) \in Nat /\ Cardinality(Group!CreatedToday(u, hour)) \in Nat
    BY <2>2, Fewer
  <2> QED
    BY <2>1, <2>3, <2>4 DEF GroupSane
<1> QED
  BY <1>1, <1>2, <1>3, <1>5, <1>6 DEF GroupInv, LocksExclude

\* A revocation frees a place, and spares the invite of a join.
LEMMA RevokeStep ==
  ASSUME GroupSane, GroupInv, NEW u \in People, NEW i \in Invites, Group!RevokeInvite(u, i)
  PROVE  GroupInv'
<1>1. /\ invites' = [invites EXCEPT ![i].revoked = TRUE] /\ UNCHANGED <<rooms, members, txn, hour>>
      /\ invites[i] # None /\ \A d \in Calls : i \notin txn[d].held
  BY DEF Group!RevokeInvite, Group!Revocable, Group!Free, Group!Stored
<1>2. invites \in [Invites -> {None} \cup Group!Row] /\ invites[i] \in Group!Row
  BY <1>1, CallFacts DEF GroupInv, Group!TypeOK
<1>3. PICK n : n = [invites[i] EXCEPT !.revoked = TRUE]
  OBVIOUS
<1>4. /\ n \in Group!Row /\ n.revoked /\ n.room = invites[i].room /\ n.creator = invites[i].creator
      /\ n.created = invites[i].created /\ n # None
  <2>1. n \in Group!Row
    BY ONLY <1>2, <1>3 DEF Group!Row
  <2> QED
    BY <1>2, <1>3, <2>1 DEF Group!Row, GroupSane
<1>5. /\ invites' \in [Invites -> {None} \cup Group!Row] /\ invites'[i] = n
      /\ \A j \in Invites : j # i => invites'[j] = invites[j]
  BY <1>1, <1>2, <1>3, <1>4
<1>6. Group!TypeOK'
  BY <1>1, <1>5 DEF GroupInv, Group!TypeOK
<1>7. ASSUME NEW g, NEW at PROVE Group!Active(g, at)' \subseteq Group!Active(g, at) /\ Group!Active(g, at) \in SUBSET Invites
  BY <1>1, <1>4, <1>5 DEF Group!Active, Group!Live, Group!Stored
<1>8. ASSUME NEW x, NEW at PROVE Group!CreatedToday(x, at)' = Group!CreatedToday(x, at)
  <2>1. \A j \in Invites : /\ invites'[j] # None <=> invites[j] # None
                           /\ invites'[j].creator = invites[j].creator /\ invites'[j].created = invites[j].created
    BY <1>1, <1>4, <1>5
  <2> QED
    BY ONLY <2>1 DEF Group!CreatedToday, Group!Stored
<1>9. CallsSound'
  <2> SUFFICES ASSUME NEW d \in Calls, NEW q, q = txn'[d] PROVE CallSound(q)'
    BY DEF CallsSound
  <2>1. CallSound(q) /\ q \in Group!Call /\ q = txn[d]
    BY <1>1, CallFacts
  <2>2. CountedFits(q) => CountedFits(q)'
    <3>1. /\ Cardinality(Group!Active(q.room, q.now)') \in Nat /\ Cardinality(Group!Active(q.room, q.now)) \in Nat
          /\ Cardinality(Group!Active(q.room, q.now)') <= Cardinality(Group!Active(q.room, q.now))
      BY <1>7, Fewer
    <3>2. MaxActive \in Nat
      BY DEF GroupSane
    <3>3. CountedFits(q) => Cardinality(Group!Active(q.room, q.now)') < MaxActive
      BY <3>1, <3>2 DEF CountedFits
    <3> QED
      BY <1>8, <3>3 DEF CountedFits
  <2>3. ASSUME q.pc = "joining" PROVE JoinHolds(q)'
    <3>1. JoinHolds(q) /\ q.invite # i
      BY <1>1, <2>1, <2>3 DEF CallSound, JoinHolds
    <3>2. invites'[q.invite] = invites[q.invite]
      BY <1>5, <3>1 DEF JoinHolds
    <3> QED
      BY <3>1, <3>2 DEF JoinHolds, Group!Live, Group!Stored
  <2> QED
    BY <1>1, <2>1, <2>2, <2>3 DEF CallSound
<1>10. Group!ActiveCapped'
  <2> SUFFICES ASSUME NEW g \in Rooms PROVE Cardinality(Group!Active(g, hour)') <= MaxActive
    BY GroupCardinality DEF Group!ActiveCapped
  <2>1. PICK h : h = hour
    OBVIOUS
  <2>2. Group!Active(g, hour)' = Group!Active(g, h)' /\ Group!Active(g, hour) = Group!Active(g, h)
    BY <1>1, <2>1 DEF Group!Active, Group!Live, Group!Stored
  <2>3. /\ Cardinality(Group!Active(g, h)') \in Nat /\ Cardinality(Group!Active(g, h)) \in Nat
        /\ Cardinality(Group!Active(g, h)') <= Cardinality(Group!Active(g, h))
    BY <1>7, Fewer
  <2>4. Cardinality(Group!Active(g, hour)) <= MaxActive
    BY GroupCardinality DEF GroupInv, Group!ActiveCapped
  <2> QED
    BY <2>2, <2>3, <2>4 DEF GroupSane
<1>11. Group!DailyCapped'
  <2> SUFFICES ASSUME NEW x \in People PROVE Cardinality(Group!CreatedToday(x, hour)') <= MaxDaily
    BY GroupCardinality DEF Group!DailyCapped
  <2>1. PICK h : h = hour
    OBVIOUS
  <2>2. Group!CreatedToday(x, hour)' = Group!CreatedToday(x, h)' /\ Group!CreatedToday(x, hour) = Group!CreatedToday(x, h)
    BY <1>1, <2>1 DEF Group!CreatedToday, Group!Stored
  <2>3. Cardinality(Group!CreatedToday(x, hour)) <= MaxDaily
    BY GroupCardinality DEF GroupInv, Group!DailyCapped
  <2> QED
    BY <1>8, <2>2, <2>3
<1> QED
  BY <1>1, <1>6, <1>9, <1>10, <1>11 DEF GroupInv, LocksExclude

\* A new invite fits, and takes no place that another transaction has counted.
LEMMA CreateInviteStep ==
  ASSUME GroupSane, GroupInv, NEW c \in Calls, NEW i \in Invites, Group!CreateInvite(c, i)
  PROVE  GroupInv'
<1>1. PICK t, n, h : /\ t = txn[c] /\ h = hour
                     /\ n = [room |-> t.room, creator |-> t.user, created |-> t.at, expires |-> t.at + InviteTTL, revoked |-> FALSE]
  OBVIOUS
<1>2. /\ t.pc = "counted" /\ invites[i] = None /\ invites' = [invites EXCEPT ![i] = n]
      /\ txn' = [txn EXCEPT ![c] = Group!Idle] /\ UNCHANGED <<rooms, members, hour>>
  BY <1>1 DEF Group!CreateInvite, Group!Close, Group!Id, Group!Stored
<1>3. /\ t \in Group!Call /\ CallSound(t) /\ invites \in [Invites -> {None} \cup Group!Row]
      /\ txn \in [Calls -> Group!Call] /\ h \in Nat /\ Group!TypeOK
  BY <1>1, CallFacts DEF GroupInv
<1>4. t.room \in Rooms /\ t.user \in People /\ t.at \in Group!Hours /\ t.now \in Nat /\ t.now <= h /\ CountedFits(t)
  BY <1>1, <1>2, <1>3 DEF CallSound, Group!Call, Group!Hours
<1>5. n \in Group!Row /\ n # None
  <2>1. t.at + InviteTTL \in Nat
    BY <1>4 DEF Group!Hours, GroupSane
  <2>2. n \in Group!Row
    BY ONLY <1>1, <1>4, <2>1 DEF Group!Row
  <2> QED
    BY <2>2 DEF GroupSane
<1>6. /\ invites' \in [Invites -> {None} \cup Group!Row] /\ invites'[i] = n
      /\ \A j \in Invites : j # i => invites'[j] = invites[j]
  BY <1>2, <1>3, <1>5
<1>7. txn' \in [Calls -> Group!Call] /\ txn'[c] = Group!Idle /\ \A d \in Calls \ {c} : txn'[d] = txn[d]
  BY <1>2, <1>3, IdleCall
<1>8. Group!TypeOK'
  BY <1>2, <1>6, <1>7 DEF GroupInv, Group!TypeOK
<1>9. n.room = t.room /\ n.creator = t.user
  BY <1>1
<1>10. ASSUME NEW g, g # t.room, NEW at PROVE Group!Active(g, at)' = Group!Active(g, at)
  BY <1>2, <1>6, <1>9, <1>10 DEF Group!Active, Group!Live, Group!Stored
<1>11. ASSUME NEW x, x # t.user, NEW at PROVE Group!CreatedToday(x, at)' = Group!CreatedToday(x, at)
  <2>1. \A j \in Invites : invites'[j] # None /\ invites'[j].creator = x <=> invites[j] # None /\ invites[j].creator = x
    BY <1>2, <1>6, <1>9, <1>11
  <2>2. \A j \in Invites : invites[j] # None /\ invites[j].creator = x => invites'[j].created = invites[j].created
    BY <1>2, <1>6
  <2> QED
    BY ONLY <2>1, <2>2 DEF Group!CreatedToday, Group!Stored
<1>12. CallsSound'
  <2> SUFFICES ASSUME NEW d \in Calls, NEW q, q = txn'[d] PROVE CallSound(q)'
    BY DEF CallsSound
  <2>1. CASE d = c
    BY <2>1, <1>7 DEF CallSound, Group!Idle
  <2>2. CASE d # c
    <3>1. CallSound(q) /\ q \in Group!Call /\ q = txn[d]
      BY <2>2, <1>7, CallFacts
    <3>2. q.held \cap t.held = {}
      BY <2>2, <3>1, <1>1 DEF GroupInv, LocksExclude
    <3>3. ASSUME q.pc = "counted" PROVE CountedFits(q)'
      <4>1. CountedFits(q) /\ q.room # t.room /\ q.user # t.user
        BY <1>4, <3>1, <3>2, <3>3 DEF CallSound, CountedFits
      <4> QED
        BY <4>1, <1>10, <1>11 DEF CountedFits
    <3>4. ASSUME q.pc = "joining" PROVE JoinHolds(q)'
      <4>1. JoinHolds(q) /\ q.invite # i
        BY <1>2, <3>1, <3>4 DEF CallSound, JoinHolds, Group!Live, Group!Stored
      <4> QED
        BY <4>1, <1>6 DEF JoinHolds, Group!Live, Group!Stored
    <3> QED
      BY <1>2, <3>1, <3>3, <3>4 DEF CallSound
  <2> QED
    BY <2>1, <2>2
<1>13. LocksExclude'
  <2> SUFFICES ASSUME NEW d \in Calls, NEW e \in Calls, d # e PROVE txn'[d].held \cap txn'[e].held = {}
    BY DEF LocksExclude
  <2>1. txn[d].held \cap txn[e].held = {} /\ Group!Idle.held = {}
    BY IdleCall DEF GroupInv, LocksExclude
  <2> QED
    BY <1>7, <2>1
<1>14. Group!ActiveCapped'
  <2> SUFFICES ASSUME NEW g \in Rooms PROVE Cardinality(Group!Active(g, hour)') <= MaxActive
    BY GroupCardinality DEF Group!ActiveCapped
  <2>1. Group!Active(g, hour)' = Group!Active(g, h)' /\ Group!Active(g, hour) = Group!Active(g, h)
    BY <1>1, <1>2 DEF Group!Active, Group!Live, Group!Stored
  <2>2. CASE g # t.room
    BY <2>1, <2>2, <1>10, GroupCardinality DEF GroupInv, Group!ActiveCapped
  <2>3. CASE g = t.room
    <3>1. Group!Active(g, h) \subseteq Group!Active(g, t.now) /\ Group!Active(g, t.now) \in SUBSET Invites
      BY <1>3, <1>4, CountsShrink
    <3>2. Group!Active(g, h)' \subseteq Group!Active(g, h) \cup {i}
      BY <1>6 DEF Group!Active, Group!Live, Group!Stored
    <3>3. PICK S : S = Group!Active(g, h)' \ {i}
      OBVIOUS
    <3>4. S \in SUBSET Group!Active(g, t.now) /\ (Group!Active(g, h)' = S \/ Group!Active(g, h)' = S \cup {i})
      BY <3>1, <3>2, <3>3
    <3>5. /\ Cardinality(S) \in Nat /\ Cardinality(Group!Active(g, t.now)) \in Nat /\ Cardinality(S) <= Cardinality(Group!Active(g, t.now))
          /\ Cardinality(S \cup {i}) \in Nat /\ Cardinality(S \cup {i}) <= Cardinality(Group!Active(g, t.now)) + 1
      BY <3>1, <3>4, Fewer
    <3>6. Cardinality(Group!Active(g, t.now)) < MaxActive /\ MaxActive \in Nat
      BY <1>4, <2>3 DEF CountedFits, GroupSane
    <3>7. PICK W : W = Group!Active(g, h)'
      OBVIOUS
    <3>8. Cardinality(W) \in Nat /\ Cardinality(W) <= Cardinality(Group!Active(g, t.now)) + 1
      <4>1. CASE W = S
        BY ONLY <4>1, <3>5
      <4>2. CASE W = S \cup {i}
        BY ONLY <4>2, <3>5
      <4> QED
        BY <3>4, <3>7, <4>1, <4>2
    <3>9. Cardinality(W) <= MaxActive
      BY ONLY <3>5, <3>6, <3>8
    <3> QED
      BY <2>1, <3>7, <3>9
  <2> QED
    BY <2>2, <2>3
<1>15. Group!DailyCapped'
  <2> SUFFICES ASSUME NEW x \in People PROVE Cardinality(Group!CreatedToday(x, hour)') <= MaxDaily
    BY GroupCardinality DEF Group!DailyCapped
  <2>1. Group!CreatedToday(x, hour)' = Group!CreatedToday(x, h)' /\ Group!CreatedToday(x, hour) = Group!CreatedToday(x, h)
    BY <1>1, <1>2 DEF Group!CreatedToday, Group!Stored
  <2>2. CASE x # t.user
    BY <2>1, <2>2, <1>11, GroupCardinality DEF GroupInv, Group!DailyCapped
  <2>3. CASE x = t.user
    <3>1. Group!CreatedToday(x, h) \subseteq Group!CreatedToday(x, t.now) /\ Group!CreatedToday(x, t.now) \in SUBSET Invites
      BY <1>3, <1>4, CountsShrink
    <3>2. Group!CreatedToday(x, h)' \subseteq Group!CreatedToday(x, h) \cup {i}
      <4>1. \A j \in Invites : j # i => invites'[j] = invites[j]
        BY <1>6
      <4> QED
        BY ONLY <4>1 DEF Group!CreatedToday, Group!Stored
    <3>3. PICK S : S = Group!CreatedToday(x, h)' \ {i}
      OBVIOUS
    <3>4. S \in SUBSET Group!CreatedToday(x, t.now) /\ (Group!CreatedToday(x, h)' = S \/ Group!CreatedToday(x, h)' = S \cup {i})
      BY <3>1, <3>2, <3>3
    <3>5. /\ Cardinality(S) \in Nat /\ Cardinality(Group!CreatedToday(x, t.now)) \in Nat /\ Cardinality(S) <= Cardinality(Group!CreatedToday(x, t.now))
          /\ Cardinality(S \cup {i}) \in Nat /\ Cardinality(S \cup {i}) <= Cardinality(Group!CreatedToday(x, t.now)) + 1
      BY <3>1, <3>4, Fewer
    <3>6. Cardinality(Group!CreatedToday(x, t.now)) < MaxDaily /\ MaxDaily \in Nat
      BY <1>4, <2>3 DEF CountedFits, GroupSane
    <3>7. PICK W : W = Group!CreatedToday(x, h)'
      OBVIOUS
    <3>8. Cardinality(W) \in Nat /\ Cardinality(W) <= Cardinality(Group!CreatedToday(x, t.now)) + 1
      <4>1. CASE W = S
        BY ONLY <4>1, <3>5
      <4>2. CASE W = S \cup {i}
        BY ONLY <4>2, <3>5
      <4> QED
        BY <3>4, <3>7, <4>1, <4>2
    <3>9. Cardinality(W) <= MaxDaily
      BY ONLY <3>5, <3>6, <3>8
    <3> QED
      BY <2>1, <3>7, <3>9
  <2> QED
    BY <2>2, <2>3
<1> QED
  BY <1>2, <1>8, <1>12, <1>13, <1>14, <1>15 DEF GroupInv

\* Every step of the groups keeps the invariant.
LEMMA GroupStep ==
  ASSUME GroupSane, GroupInv, [Group!Next]_Group!vars
  PROVE  GroupInv'
<1>1. CASE UNCHANGED Group!vars
  <2>1. UNCHANGED <<rooms, members, invites, txn, hour>>
    BY <1>1 DEF Group!vars
  <2>2. CallsSound'
    <3>1. ASSUME NEW q, CallSound(q) PROVE CallSound(q)'
      <4>1. CountedFits(q)' <=> CountedFits(q)
        BY ONLY <2>1 DEF CountedFits, Group!Active, Group!CreatedToday, Group!Live, Group!Stored
      <4>2. JoinHolds(q)' <=> JoinHolds(q)
        BY ONLY <2>1 DEF JoinHolds, Group!Live, Group!Stored
      <4> QED
        BY ONLY <2>1, <3>1, <4>1, <4>2 DEF CallSound
    <3> QED
      BY <2>1, <3>1 DEF GroupInv, CallsSound
  <2>3. Group!ActiveCapped' /\ Group!DailyCapped'
    BY <2>1 DEF GroupInv, Group!ActiveCapped, Group!DailyCapped, Group!Active, Group!CreatedToday, Group!Live, Group!Stored
  <2> QED
    BY <2>1, <2>2, <2>3 DEF GroupInv, Group!TypeOK, LocksExclude
<1>2. ASSUME NEW c \in Calls, Group!Proceed(c) PROVE GroupInv'
  <2>1. CASE \E l \in Group!Locks : Group!LockRow(c, l)
    BY <2>1, LockRowStep
  <2>2. CASE \E i \in Invites : Group!CreateInvite(c, i)
    BY <2>2, CreateInviteStep
  <2> QED
    BY <1>2, <2>1, <2>2, CountInvitesStep, EndStep DEF Group!Proceed
<1>3. ASSUME NEW c \in Calls, Group!Arrive(c) PROVE GroupInv'
  BY <1>3, CreateGroupStep, InviteStep, JoinGroupStep DEF Group!Arrive
<1>4. ASSUME NEW c \in Calls, Group!Rollback(c) PROVE GroupInv'
  BY <1>4, EndStep
<1>5. ASSUME NEW u \in People, NEW i \in Invites, Group!RevokeInvite(u, i) PROVE GroupInv'
  BY <1>5, RevokeStep
<1> QED
  BY <1>1, <1>2, <1>3, <1>4, <1>5, HourStep DEF Group!Next

\* The invariant of the invites' transactions (groups/invites.go).
THEOREM GroupInvariant ==
  ASSUME GroupSane PROVE Group!Spec => []GroupInv
<1>1. Group!Init => GroupInv
  <2> SUFFICES ASSUME Group!Init PROVE GroupInv
    OBVIOUS
  <2>1. /\ rooms = [g \in Rooms |-> None] /\ members = {} /\ invites = [i \in Invites |-> None]
        /\ txn = [c \in Calls |-> Group!Idle] /\ hour = 0
    BY DEF Group!Init
  <2>2. Group!TypeOK
    BY <2>1, IdleCall DEF Group!TypeOK, Group!Hours, GroupSane
  <2>3. CallsSound
    BY <2>1, IdleCall DEF CallsSound
  <2>4. LocksExclude
    BY <2>1, IdleCall DEF LocksExclude
  <2>5. /\ \A g, at : Group!Active(g, at) = {}
        /\ \A u, at : Group!CreatedToday(u, at) = {}
    BY <2>1 DEF Group!Active, Group!CreatedToday, Group!Live, Group!Stored
  <2>6. Group!ActiveCapped /\ Group!DailyCapped
    BY <2>5, FS_EmptySet, GroupCardinality DEF Group!ActiveCapped, Group!DailyCapped, GroupSane
  <2> QED
    BY <2>1, <2>2, <2>3, <2>4, <2>6, FS_EmptySet DEF GroupInv
<1> QED
  BY <1>1, GroupStep, PTL DEF Group!Spec

\* However many of a group's members invite at a time, and whatever the clocks their
\* transactions count with, no cap is overshot (groups/invites.go: CreateInvite).
THEOREM ActiveInvitesCapped == ASSUME GroupSane PROVE Group!Spec => []Group!ActiveCapped
<1>1. GroupInv => Group!ActiveCapped
  BY DEF GroupInv
<1> QED
  BY <1>1, GroupInvariant, PTL

\* Nor the cap on what one player creates in a day, in whichever groups
\* (groups/invites.go: CreateInvite).
THEOREM DailyInvitesCapped == ASSUME GroupSane PROVE Group!Spec => []Group!DailyCapped
<1>1. GroupInv => Group!DailyCapped
  BY DEF GroupInv
<1> QED
  BY <1>1, GroupInvariant, PTL

\* Nobody becomes a member of a group through an invite that was revoked, or that had
\* expired by the join's clock (groups/invites.go, membership.go).
THEOREM JoinsAreInvited == ASSUME GroupSane PROVE Group!Spec => Group!JoinsByLiveInvites
<1> DEFINE Invited == \A m \in members' \ members : rooms[m.room] # None =>
                        \E c \in Calls : /\ txn[c].pc = "joining" /\ txn[c].user = m.user
                                         /\ Group!Preview(txn[c].invite, txn[c].at) # None
<1>1. ASSUME GroupSane, GroupInv, [Group!Next]_Group!vars PROVE Invited
  <2> SUFFICES ASSUME NEW m \in members' \ members, rooms[m.room] # None
               PROVE  \E c \in Calls : /\ txn[c].pc = "joining" /\ txn[c].user = m.user
                                       /\ Group!Preview(txn[c].invite, txn[c].at) # None
    OBVIOUS
  <2>1. (\E c \in Calls : Group!Join(c)) \/ (\E c \in Calls : \E g \in Rooms : Group!Create(c, g)) \/ members' = members
    <3>1. CASE Group!Next
      BY <3>1 DEF Group!Next, Group!Proceed, Group!Arrive, Group!GroupExists, Group!CountInvites, Group!InviteRefused,
         Group!LockRow, Group!CreateInvite, Group!CreateGroup, Group!Invite, Group!JoinGroup, Group!Rollback,
         Group!RevokeInvite, Group!Tick
    <3> QED
      BY <1>1, <3>1 DEF Group!vars
  <2>2. ASSUME NEW c \in Calls, NEW g \in Rooms, Group!Create(c, g) PROVE FALSE
    BY <2>2 DEF Group!Create
  <2>3. PICK c \in Calls : Group!Join(c)
    BY <2>1, <2>2
  <2>4. /\ txn[c].pc = "joining" /\ txn[c].user = m.user
    BY <2>3 DEF Group!Join
  <2>5. Group!Live(txn[c].invite, txn[c].at)
    BY <1>1, <2>4, CallFacts DEF CallSound, JoinHolds
  <2>6. Group!Preview(txn[c].invite, txn[c].at) # None
    <3>1. PICK S : S = {x \in members : x.room = invites[txn[c].invite].room}
      OBVIOUS
    <3>2. IsFiniteSet(S)
      BY <1>1, <3>1, FS_Subset DEF GroupInv
    <3>3. Cardinality(S) \in Nat
      BY <3>2, FS_CardinalityType
    <3>4. Group!Preview(txn[c].invite, txn[c].at) = Cardinality(S)
      BY <2>5, <3>1, GroupCardinality DEF Group!Preview
    <3> QED
      BY <1>1, <3>3, <3>4 DEF GroupSane
  <2> QED
    BY <2>4, <2>6
<1>2. GroupSane /\ GroupInv /\ [Group!Next]_Group!vars => [Invited]_Group!vars
  BY <1>1
<1> QED
  BY <1>2, GroupInvariant, PTL DEF Group!Spec, Group!JoinsByLiveInvites

-----------------------------------------------------------------------------
(* Ladder: boards computed from the guesses, for any players, challenges,     *)
(* chances of winning and guess windows.                                      *)

CONSTANTS Rated, Rounds, Clubs, Places, Shots, Window, Grace, Expected, Unit, Unset
VARIABLES spot, held, recent, marks, left
Boards == INSTANCE Ladder WITH Players <- Rated, Posts <- Rounds, Groups <- Clubs, None <- Unset,
                               place <- spot, made <- held, gone <- left

\* A row of a group's photo that says "timed out" adds nothing to what any ladder loads.
LEMMA TimeoutNotLoaded ==
  ASSUME NEW c \in Rounds, NEW p \in Rated, Boards!TypeOK, spot[c] # Unset, Boards!TimedOut(c, p), NEW k
  PROVE  Boards!LoadChallenges(k)' = Boards!LoadChallenges(k)
<1>1. /\ marks' = [marks EXCEPT ![c][p] = [score |-> 0, late |-> TRUE]] /\ UNCHANGED <<spot, held, recent, left>>
      /\ marks[c][p] = Unset /\ marks \in [Rounds -> [Rated -> Boards!Mark \cup {Unset}]]
  BY DEF Boards!TimedOut, Boards!TypeOK
<1>2. Boards!History(k)' = Boards!History(k)
  BY <1>1 DEF Boards!History
<1>3. ASSUME NEW d \in Rounds, NEW q \in Rated PROVE marks'[d][q] = IF d = c /\ q = p THEN [score |-> 0, late |-> TRUE] ELSE marks[d][q]
  BY <1>1
<1>4. ASSUME NEW d \in Rounds PROVE Boards!Counted(d)' = Boards!Counted(d)
  <2>1. ASSUME NEW q \in Rated PROVE q \in Boards!Counted(d)' <=> q \in Boards!Counted(d)
    <3>1. CASE d = c /\ q = p
      BY <1>1, <1>3, <3>1 DEF Boards!Counted, Boards!Guessed
    <3>2. CASE ~(d = c /\ q = p)
      BY <1>1, <1>3, <3>2 DEF Boards!Counted, Boards!Guessed
    <3> QED
      BY <3>1, <3>2
  <2>2. Boards!Counted(d)' \subseteq Rated /\ Boards!Counted(d) \subseteq Rated
    BY DEF Boards!Counted, Boards!Guessed
  <2> QED
    BY <2>1, <2>2
<1>5. ASSUME NEW d \in Rounds, NEW q \in Boards!Counted(d) PROVE marks'[d][q].score = marks[d][q].score
  <2>1. q \in Rated /\ marks[d][q] # Unset
    BY DEF Boards!Counted, Boards!Guessed
  <2> QED
    BY <1>1, <1>3, <2>1
<1> QED
  BY <1>2, <1>4, <1>5 DEF Boards!LoadChallenges

\* Quotients.
LEMMA Quotient ==
  ASSUME NEW a \in Nat, NEW s \in Nat \ {0}
  PROVE  a \div s \in Nat /\ (a \div s) * s <= a /\ a < (a \div s) * s + s
<1>1. a \div s \in Int /\ a = s * (a \div s) + (a % s) /\ a % s \in 0..(s - 1)
  OBVIOUS
<1>2. PICK q \in Int, m \in 0..(s - 1) : q = a \div s /\ m = a % s
  BY <1>1
<1>3. a = s * q + m
  BY <1>1, <1>2
<1>4. q >= 0
  <2>1. ASSUME q <= -1 PROVE FALSE
    <3>1. s * q <= s * (-1)
      BY <2>1
    <3> QED
      BY <1>3, <3>1
  <2> QED
    BY <2>1
<1>5. s * q = q * s
  OBVIOUS
<1> QED
  BY <1>2, <1>3, <1>4, <1>5

LEMMA QuotientGrows ==
  ASSUME NEW a \in Nat, NEW b \in Nat, NEW s \in Nat \ {0}, a <= b
  PROVE  a \div s <= b \div s
<1>1. PICK x \in Nat, y \in Nat : x = a \div s /\ y = b \div s /\ x * s <= a /\ b < y * s + s
  BY Quotient
<1>2. ASSUME y + 1 <= x PROVE FALSE
  <2>1. (y + 1) * s <= x * s
    BY <1>2
  <2>2. (y + 1) * s = y * s + s
    OBVIOUS
  <2>3. x * s \in Nat /\ y * s \in Nat
    OBVIOUS
  <2> QED
    BY <1>1, <2>1, <2>2, <2>3
<1> QED
  BY <1>1, <1>2

\* The range of the points.
LEMMA UpTo == ASSUME NEW x PROVE x \in 0..5000 <=> x \in Nat /\ x <= 5000
<1>1. PICK n \in Nat : n = 5000
  OBVIOUS
<1>2. x \in 0..n <=> x \in Nat /\ x <= n
  OBVIOUS
<1> QED
  BY <1>1, <1>2

\* The bounds are seconds, and no guess is nearer than the place itself.
LadderSane ==
  /\ Window \in Nat /\ Grace \in Nat
  /\ Shots \subseteq [base: Nat, elapsed: Nat] /\ \A shot \in Shots : shot.base <= 5000

\* The longer a guess takes, the smaller its share, and a fifth is the least.
LEMMA ShareShrinks ==
  ASSUME LadderSane, NEW e \in Nat
  PROVE  /\ Boards!TimeMultiplier(e) \in Nat /\ Boards!TimeMultiplier(e) <= 1000
         /\ Boards!TimeMultiplier(e + 1) \in Nat /\ Boards!TimeMultiplier(e + 1) <= 1000
         /\ Boards!TimeMultiplier(e + 1) <= Boards!TimeMultiplier(e)
         /\ e < Window => Boards!TimeMultiplier(e) >= 200
<1>1. Window \in Nat /\ Grace \in Nat
  BY DEF LadderSane
<1> DEFINE span == Window - Grace - 1
           Loss(o) == (800 * o) \div span
<1>2. ASSUME span > 0, NEW o \in Nat, o < span PROVE Loss(o) \in Nat /\ Loss(o) <= 800
  <2>1. span \in Nat \ {0} /\ 800 * o \in Nat
    BY <1>1, <1>2
  <2>2. PICK q \in Nat : q = Loss(o) /\ q * span <= 800 * o
    <3> HIDE DEF span
    <3>1. PICK a \in Nat : a = 800 * o
      BY <2>1
    <3>2. a \div span \in Nat /\ (a \div span) * span <= a
      BY <2>1, Quotient
    <3> QED
      BY <3>1, <3>2
  <2>3. ASSUME q >= 801 PROVE FALSE
    <3> HIDE DEF span
    <3>1. 801 * span <= q * span
      BY <2>1, <2>3
    <3>2. q * span \in Nat
      BY <2>1
    <3> QED
      BY <1>2, <2>1, <2>2, <3>1, <3>2
  <2> HIDE DEF Loss
  <2> QED
    BY <2>2, <2>3
<1>3. ASSUME span > 0, NEW o \in Nat, o + 1 < span PROVE Loss(o) <= Loss(o + 1)
  <2>1. span \in Nat \ {0} /\ 800 * o \in Nat /\ 800 * (o + 1) \in Nat /\ 800 * o <= 800 * (o + 1)
    BY <1>1, <1>3
  <2> HIDE DEF span
  <2> QED
    BY <2>1, QuotientGrows
<1>4. ASSUME NEW x \in Nat
      PROVE  Boards!TimeMultiplier(x) = IF x < Grace THEN 1000
                                        ELSE IF x >= Window THEN 0
                                        ELSE IF span <= 0 THEN 1000
                                        ELSE IF x - Grace >= span THEN 200
                                        ELSE 1000 - Loss(x - Grace)
  BY DEF Boards!TimeMultiplier
<1> HIDE DEF Loss
<1>5. ASSUME NEW x \in Nat
      PROVE  Boards!TimeMultiplier(x) \in Nat /\ Boards!TimeMultiplier(x) <= 1000 /\ (x < Window => Boards!TimeMultiplier(x) >= 200)
  <2>1. CASE x < Grace
    BY <1>4, <2>1
  <2>2. CASE x >= Grace
    <3>1. x - Grace \in Nat /\ span \in Int
      BY <1>1, <2>2
    <3> HIDE DEF span
    <3>2. span > 0 /\ x - Grace < span => Loss(x - Grace) \in Nat /\ Loss(x - Grace) <= 800
      BY <1>2, <3>1
    <3>3. CASE x >= Window
      BY <1>1, <1>4, <2>2, <3>3
    <3>4. CASE x < Window /\ (span <= 0 \/ x - Grace >= span)
      BY <1>1, <1>4, <2>2, <3>1, <3>4
    <3>5. CASE x < Window /\ span > 0 /\ x - Grace < span
      <4>1. PICK l \in Nat : l = Loss(x - Grace)
        BY <3>2, <3>5
      <4>2. Boards!TimeMultiplier(x) = 1000 - l
        BY <1>1, <1>4, <2>2, <3>1, <3>5, <4>1
      <4>3. l <= 800
        BY <3>2, <3>5, <4>1
      <4> QED
        BY <4>2, <4>3
    <3> QED
      BY <1>1, <3>1, <3>3, <3>4, <3>5
  <2> QED
    BY <1>1, <2>1, <2>2
<1>6. Boards!TimeMultiplier(e + 1) <= Boards!TimeMultiplier(e)
  <2>0. e + 1 \in Nat
    OBVIOUS
  <2>1. /\ e + 1 \in Nat /\ Boards!TimeMultiplier(e) \in Nat /\ Boards!TimeMultiplier(e) <= 1000
        /\ Boards!TimeMultiplier(e + 1) \in Nat /\ Boards!TimeMultiplier(e + 1) <= 1000
    BY <1>5, <2>0
  <2>2. CASE e < Grace
    BY <1>1, <1>4, <2>1, <2>2
  <2>3. CASE e + 1 >= Window
    BY <1>1, <1>4, <1>5, <2>1, <2>3
  <2>4. CASE e >= Grace /\ e + 1 < Window /\ span <= 0
    BY <1>1, <1>4, <2>1, <2>4
  <2>5. CASE e >= Grace /\ e + 1 < Window /\ span > 0
    <3>1. e - Grace \in Nat /\ (e + 1) - Grace = (e - Grace) + 1 /\ span \in Int
      BY <1>1, <2>5
    <3>2. CASE (e - Grace) + 1 < span
      <4>1. Loss(e - Grace) <= Loss((e - Grace) + 1) /\ Loss(e - Grace) \in Nat /\ Loss((e - Grace) + 1) \in Nat
        <5> HIDE DEF span
        <5>1. PICK o \in Nat : o = e - Grace
          BY <3>1
        <5>2. o + 1 \in Nat /\ o < span /\ o + 1 < span
          BY <3>1, <3>2, <5>1
        <5>3. Loss(o) <= Loss(o + 1)
          BY <1>3, <2>5, <5>2
        <5>4. Loss(o) \in Nat /\ Loss(o + 1) \in Nat
          BY <1>2, <2>5, <5>2
        <5> QED
          BY <5>1, <5>3, <5>4
      <4>2. PICK l \in Nat, n \in Nat : l = Loss(e - Grace) /\ n = Loss((e - Grace) + 1)
        BY <4>1
      <4>3. Boards!TimeMultiplier(e) = 1000 - l
        <5>1. ~(e < Grace) /\ ~(e >= Window) /\ ~(span <= 0) /\ ~(e - Grace >= span)
          BY <1>1, <2>5, <3>1, <3>2
        <5> HIDE DEF span
        <5> QED
          BY <1>4, <4>2, <5>1
      <4>4. Boards!TimeMultiplier(e + 1) = 1000 - n
        <5>1. ~(e + 1 < Grace) /\ ~(e + 1 >= Window) /\ ~(span <= 0) /\ ~((e + 1) - Grace >= span)
          BY <1>1, <2>5, <3>1, <3>2
        <5> HIDE DEF span
        <5> QED
          BY <1>4, <2>1, <3>1, <4>2, <5>1
      <4> QED
        BY <4>1, <4>2, <4>3, <4>4
    <3>3. CASE (e - Grace) + 1 >= span
      <4>1. Boards!TimeMultiplier(e + 1) = 200
        BY <1>1, <1>4, <2>1, <2>5, <3>1, <3>3
      <4>2. e < Window
        BY <1>1, <2>5
      <4> QED
        BY <1>5, <4>1, <4>2
    <3> QED
      BY <1>1, <3>1, <3>2, <3>3
  <2> QED
    BY <1>1, <2>2, <2>3, <2>4, <2>5
<1>7. e + 1 \in Nat
  OBVIOUS
<1> QED
  BY <1>5, <1>6, <1>7

\* What a share of the points is worth.
Price(b, m) == Boards!Round(b * m, 1000)

LEMMA Worth ==
  ASSUME NEW b \in Nat, NEW m \in Nat, NEW n \in Nat, n <= m, m <= 1000
  PROVE  /\ Price(b, m) \in Nat /\ Price(b, m) <= b /\ Price(b, n) \in Nat
         /\ Price(b, n) <= Price(b, m)
         /\ m >= 200 => 10 * Price(b, m) + 5 >= 2 * b
<1>1. b * m \in Nat /\ b * n \in Nat /\ b * m <= b * 1000 /\ b * n <= b * m
  OBVIOUS
<1>2. m >= 200 => b * 200 <= b * m
  OBVIOUS
<1>3. PICK x \in Nat, y \in Nat : x = b * m /\ y = b * n
  BY <1>1
<1>4. Boards!Round(x, 1000) = (2 * x + 1000) \div 2000 /\ Boards!Round(y, 1000) = (2 * y + 1000) \div 2000
  BY DEF Boards!Round
<1> DEFINE p == (2 * x + 1000) \div 2000
           q == (2 * y + 1000) \div 2000
<1>5. p \in Nat /\ p <= b /\ q \in Nat /\ q <= p
  <2>1. x <= 1000 * b /\ y <= x
    BY <1>1, <1>3
  <2>2. p \in Nat /\ p * 2000 <= 2 * x + 1000 /\ q \in Nat /\ q * 2000 <= 2 * y + 1000 /\ 2 * x + 1000 < p * 2000 + 2000
    OBVIOUS
  <2> HIDE DEF p, q
  <2> QED
    BY <2>1, <2>2
<1>6. m >= 200 => 10 * p + 5 >= 2 * b
  <2>1. m >= 200 => 200 * b <= x
    BY <1>2, <1>3
  <2>2. p \in Nat /\ 2 * x + 1000 < p * 2000 + 2000
    OBVIOUS
  <2> HIDE DEF p
  <2> QED
    BY <2>1, <2>2
<1> QED
  BY <1>3, <1>4, <1>5, <1>6 DEF Price

\* Scores are at most the points of the distance.
LEMMA ScoresAreBounded ==
  ASSUME LadderSane, NEW shot \in Shots
  PROVE  Boards!CalculateScoreWithTime(shot) \in Nat /\ Boards!CalculateScoreWithTime(shot) <= 5000
<1>1. shot.base \in Nat /\ shot.elapsed \in Nat /\ shot.base <= 5000
  BY DEF LadderSane
<1>2. PICK b \in Nat : b = shot.base
  BY <1>1
<1>3. PICK e \in Nat : e = shot.elapsed
  BY <1>1
<1>4. Boards!TimeMultiplier(e) \in Nat /\ Boards!TimeMultiplier(e) <= 1000
  BY ShareShrinks
<1>5. PICK m \in Nat : m = Boards!TimeMultiplier(e)
  BY <1>4
<1>6. m <= m /\ m <= 1000 /\ b <= 5000
  BY <1>1, <1>2, <1>4, <1>5
<1>7. Price(b, m) \in Nat /\ Price(b, m) <= b
  BY <1>6, Worth
<1>8. Boards!CalculateScoreWithTime(shot) = Price(b, m)
  BY <1>2, <1>3, <1>5 DEF Price, Boards!CalculateScoreWithTime
<1> QED
  BY <1>6, <1>7, <1>8

\* States are what TypeOK says.
LEMMA LadderTypes == Boards!Spec /\ LadderSane => []Boards!TypeOK
<1>1. Boards!Init /\ LadderSane => Boards!TypeOK
  BY DEF Boards!Init, Boards!TypeOK
<1>2. ASSUME LadderSane, Boards!TypeOK, [Boards!Next]_Boards!vars PROVE Boards!TypeOK'
  <2> USE DEF Boards!TypeOK
  <2>1. ASSUME NEW c \in Rounds, Boards!Post(c) PROVE Boards!TypeOK'
    BY <1>2, <2>1 DEF Boards!Post
  <2>2. ASSUME NEW c \in Rounds, NEW p \in Rated, NEW mark \in Boards!Mark, marks' = [marks EXCEPT ![c][p] = mark],
               UNCHANGED <<spot, held, recent, left>>
        PROVE  Boards!TypeOK'
    BY <1>2, <2>2
  <2>3. ASSUME NEW c \in Rounds, NEW p \in Rated, Boards!TimedOut(c, p) PROVE Boards!TypeOK'
    <3>1. [score |-> 0, late |-> TRUE] \in Boards!Mark
      BY DEF Boards!Mark
    <3> HIDE DEF Boards!TypeOK
    <3> QED
      BY <2>2, <2>3, <3>1 DEF Boards!TimedOut
  <2>4. ASSUME NEW c \in Rounds, NEW p \in Rated, NEW shot \in Shots, Boards!Guess(c, p, shot) PROVE Boards!TypeOK'
    <3>1. Boards!CalculateScoreWithTime(shot) \in Nat /\ Boards!CalculateScoreWithTime(shot) <= 5000
      BY <1>2, ScoresAreBounded
    <3>2. PICK v : v \in 0..5000 /\ v = Boards!CalculateScoreWithTime(shot)
      BY <3>1, UpTo
    <3>3. [score |-> v, late |-> FALSE] \in Boards!Mark
      BY <3>2 DEF Boards!Mark
    <3>4. marks' = [marks EXCEPT ![c][p] = [score |-> v, late |-> FALSE]] /\ UNCHANGED <<spot, held, recent, left>>
      BY <2>4, <3>2 DEF Boards!Guess
    <3> HIDE DEF Boards!TypeOK
    <3> QED
      BY <2>2, <3>3, <3>4
  <2>5. ASSUME NEW p \in Rated, Boards!DeleteAccount(p) PROVE Boards!TypeOK'
    <3>1. marks' = [c \in Rounds |-> [marks[c] EXCEPT ![p] = Unset]] /\ UNCHANGED <<spot, held, recent>> /\ left' = left \cup {p}
      BY <2>5 DEF Boards!DeleteAccount
    <3>2. marks' \in [Rounds -> [Rated -> Boards!Mark \cup {Unset}]]
      BY <1>2, <3>1 DEF Boards!TypeOK
    <3> QED
      BY <1>2, <3>1, <3>2 DEF Boards!TypeOK
  <2>6. ASSUME Boards!NewWeek PROVE Boards!TypeOK'
    BY <1>2, <2>6 DEF Boards!NewWeek
  <2>7. ASSUME UNCHANGED Boards!vars PROVE Boards!TypeOK'
    BY <1>2, <2>7 DEF Boards!vars
  <2> QED
    BY <1>2, <2>1, <2>3, <2>4, <2>5, <2>6, <2>7 DEF Boards!Next
<1>3. CASE LadderSane
  BY <1>1, <1>2, <1>3, PTL DEF Boards!Spec
<1> QED
  BY <1>3

\* Nor does it change any other row of the groups' boards.
LEMMA TimeoutMovesNothing ==
  ASSUME Boards!TypeOK, [Boards!Next]_Boards!vars
  PROVE  \A c \in Rounds, p \in Rated : spot[c] # Unset /\ Boards!TimedOut(c, p) =>
           /\ \A k \in Boards!Ladders : Boards!ComputeRatings(k)' = Boards!ComputeRatings(k)
           /\ \A g \in Clubs, q \in Rated \ (left \cup {p}) : Boards!LeaderboardForPeriod(g)[q]' = Boards!LeaderboardForPeriod(g)[q]
<1> SUFFICES ASSUME NEW c \in Rounds, NEW p \in Rated, spot[c] # Unset, Boards!TimedOut(c, p)
             PROVE  /\ \A k \in Boards!Ladders : Boards!ComputeRatings(k)' = Boards!ComputeRatings(k)
                    /\ \A g \in Clubs, q \in Rated \ (left \cup {p}) : Boards!LeaderboardForPeriod(g)[q]' = Boards!LeaderboardForPeriod(g)[q]
  OBVIOUS
<1>1. ASSUME NEW k PROVE Boards!ComputeRatings(k)' = Boards!ComputeRatings(k)
  BY TimeoutNotLoaded DEF Boards!ComputeRatings
<1>2. /\ marks' = [marks EXCEPT ![c][p] = [score |-> 0, late |-> TRUE]] /\ UNCHANGED <<spot, left>>
      /\ marks \in [Rounds -> [Rated -> Boards!Mark \cup {Unset}]]
  BY DEF Boards!TimedOut, Boards!TypeOK
<1>3. ASSUME NEW g \in Clubs, NEW q \in Rated \ (left \cup {p})
      PROVE  Boards!LeaderboardForPeriod(g)[q]' = Boards!LeaderboardForPeriod(g)[q]
  <2>1. \A d \in Rounds : marks'[d][q] = marks[d][q]
    BY <1>2
  <2>2. ASSUME NEW G
        PROVE  /\ Boards!Rows(q, G)' = Boards!Rows(q, G) /\ Boards!Sum(Boards!Rows(q, G))' = Boards!Sum(Boards!Rows(q, G))
    <3>1. Boards!Rows(q, G)' = Boards!Rows(q, G) /\ \A row \in Boards!Rows(q, G) : row[1] \in Rounds /\ row[2] = q
      BY <1>2, <2>1 DEF Boards!Rows
    <3> QED
      BY <2>1, <3>1 DEF Boards!Sum
  <2>3. PICK k : k = Boards!AllTime(g)
    OBVIOUS
  <2>4. /\ Boards!LeaderboardForPeriod(g)[q] =
             [score |-> Boards!Sum(Boards!Rows(q, {g})), count |-> Boards!Cardinality(Boards!Rows(q, {g})), total |-> Boards!Sum(Boards!Rows(q, Clubs)),
              elo |-> IF Boards!ComputeRatings(k)[q] = Unset THEN 0 ELSE Boards!ComputeRatings(k)[q]]
        /\ Boards!LeaderboardForPeriod(g)[q]' =
             [score |-> Boards!Sum(Boards!Rows(q, {g}))', count |-> Boards!Cardinality(Boards!Rows(q, {g})'), total |-> Boards!Sum(Boards!Rows(q, Clubs))',
              elo |-> IF Boards!ComputeRatings(k)'[q] = Unset THEN 0 ELSE Boards!ComputeRatings(k)'[q]]
    BY <1>2, <2>3 DEF Boards!LeaderboardForPeriod, Boards!AllTime
  <2>5. Boards!ComputeRatings(k)' = Boards!ComputeRatings(k)
    BY <1>1
  <2> QED
    BY <2>2, <2>4, <2>5
<1> QED
  BY <1>1, <1>3

\* A player whose time ran out is not compared: however many play, and in however
\* many groups, no rating of any ladder moves, nor does another row of a group's
\* board (groups/leaderboard.go: loadChallenges; feed/results.go; elo.go).
THEOREM TimeoutsMoveNobody == Boards!Spec /\ LadderSane => Boards!TimeoutsUncompared
<1>1. Boards!TypeOK /\ [Boards!Next]_Boards!vars =>
        [\A c \in Rounds, p \in Rated : spot[c] # Unset /\ Boards!TimedOut(c, p) =>
           /\ \A k \in Boards!Ladders : Boards!ComputeRatings(k)' = Boards!ComputeRatings(k)
           /\ \A g \in Clubs, q \in Rated \ (left \cup {p}) : Boards!LeaderboardForPeriod(g)[q]' = Boards!LeaderboardForPeriod(g)[q]]_Boards!vars
  BY TimeoutMovesNothing
<1> QED
  BY <1>1, LadderTypes, PTL DEF Boards!Spec, Boards!TimeoutsUncompared

\* For any window, grace period and distance: of two guesses as near the earlier is
\* worth no less, and in the last second a fifth is left (game/score.go).
THEOREM LaterIsNoBetter == LadderSane => Boards!FasterNoWorse
<1> SUFFICES ASSUME LadderSane PROVE Boards!FasterNoWorse
  OBVIOUS
<1>1. ASSUME NEW s \in Shots, NEW e \in 0..(Window - 1)
      PROVE  /\ Boards!CalculateScoreWithTime([s EXCEPT !.elapsed = e]) >= Boards!CalculateScoreWithTime([s EXCEPT !.elapsed = e + 1])
             /\ 10 * Boards!CalculateScoreWithTime([s EXCEPT !.elapsed = e]) + 5 >= 2 * s.base
  <2>1. s \in [base: Nat, elapsed: Nat] /\ s.base \in Nat
    BY DEF LadderSane
  <2>2. PICK b \in Nat : b = s.base
    BY <2>1
  <2>3. Window \in Nat
    BY DEF LadderSane
  <2>4. e \in Nat /\ e + 1 \in Nat /\ e < Window
    BY <2>3
  <2>5. /\ Boards!TimeMultiplier(e) \in Nat /\ Boards!TimeMultiplier(e + 1) \in Nat
        /\ Boards!TimeMultiplier(e + 1) <= Boards!TimeMultiplier(e)
        /\ Boards!TimeMultiplier(e) >= 200 /\ Boards!TimeMultiplier(e) <= 1000
    BY <2>4, ShareShrinks
  <2>6. PICK m \in Nat : m = Boards!TimeMultiplier(e)
    BY <2>5
  <2>7. PICK n \in Nat : n = Boards!TimeMultiplier(e + 1)
    BY <2>5
  <2>8. n <= m /\ m <= 1000 /\ m >= 200
    BY <2>5, <2>6, <2>7
  <2>9. Price(b, n) <= Price(b, m) /\ 10 * Price(b, m) + 5 >= 2 * b
    BY <2>8, Worth
  <2>10. \A x : [s EXCEPT !.elapsed = x].base = b /\ [s EXCEPT !.elapsed = x].elapsed = x
    BY <2>1, <2>2
  <2>11. /\ Boards!CalculateScoreWithTime([s EXCEPT !.elapsed = e]) = Price(b, m)
         /\ Boards!CalculateScoreWithTime([s EXCEPT !.elapsed = e + 1]) = Price(b, n)
    BY <2>6, <2>7, <2>10 DEF Price, Boards!CalculateScoreWithTime
  <2> QED
    BY <2>2, <2>9, <2>11
<1> QED
  BY <1>1 DEF Boards!FasterNoWorse
=============================================================================
