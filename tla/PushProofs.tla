----------------------------- MODULE PushProofs -----------------------------
(* Proofs about Push, for any users, endpoints, notifications, workers and      *)
(* limits, about the rate limiter, for any policies, buckets and keys, and      *)
(* about map pins, for any catalog, history and calls.                         *)
EXTENDS Push, FiniteSetTheorems, TLAPS

\* What the constants are: finitely many subscriptions, workers and notifications,
\* limits that are numbers, and a None that is no user.
Sane ==
  /\ IsFiniteSet(Endpoints) /\ IsFiniteSet(Workers) /\ IsFiniteSet(Notices)
  /\ QueueDepth \in Nat /\ PerHost \in Nat /\ MaxPerUser \in Nat
  /\ Senders \subseteq Users /\ None \notin Users
  /\ Mix \subseteq SUBSET Operations

-----------------------------------------------------------------------------
(* The inductive invariant. *)

\* The job of a worker has been let go by its handler.  From its authorization to
\* the end of its delivery no block lies between the sender and the target.
WorkerSound(r) ==
  /\ r.pc \notin {"idle", "gone"} => r.job \in Notices /\ note[r.job].pc = "done"
  /\ r.pc \in {"authorized", "sending", "sent"} => r.target \in Target /\ ~Blocked(r.target.user, note[r.job].sender)
WorkersSound == \A w \in Workers : WorkerSound(worker[w])

QueueSound == \A i \in 1..Len(jobs) : note[jobs[i]].pc = "done"

\* A user's row is locked by one request, and the subscription it writes fits.
Fits(u, e) == Cardinality(Owned(u) \cup {e}) <= MaxPerUser
Locked(s) == subscribe[s].pc = "locked"
SubscribersSound ==
  \A s \in Subscribers :
    /\ subscribe[s].pc # "idle" => subscribe[s].user \in Users /\ subscribe[s].endpoint \in Endpoints
    /\ Locked(s) => /\ Fits(subscribe[s].user, subscribe[s].endpoint)
                    /\ \A q \in Subscribers \ {s} : Locked(q) => subscribe[q].user # subscribe[s].user

\* Stop has waited for the handlers that were letting a job go.
StopSound == halt \in {"stopping", "stopped"} => NoEnqueue

Inv ==
  /\ TypeOK /\ WorkersSound /\ QueueSound /\ SubscribersSound /\ StopSound
  /\ QueueAccounted /\ CapKept /\ HostsSpared

-----------------------------------------------------------------------------
(* Types. *)

LEMMA IdleWorker == Idle \in WorkerState
  BY DEF Idle, WorkerState

LEMMA NextWorker ==
  ASSUME TypeOK, NEW w \in Workers, NEW t
  PROVE  Next_(w, t) \in WorkerState
<1>1. worker[w] \in WorkerState
  BY DEF TypeOK
<1>2. [worker[w] EXCEPT !.pc = "listed", !.todo = Remaining(w, t), !.target = None] \in WorkerState
  BY <1>1 DEF WorkerState, Remaining
<1> QED
  BY <1>2, IdleWorker DEF Next_

LEMMA InitType == ASSUME Sane, Init PROVE TypeOK
<1>1. NoNote \in Note /\ NoSubscription \in Subscription
  BY DEF NoNote, Note, NoSubscription, Subscription
<1>2. jobs \in Seq(Notices) /\ Len(jobs) = 0
  BY DEF Init
<1> QED
  BY <1>1, <1>2, IdleWorker DEF Sane, Init, TypeOK

\* Into the queue and out of it.
LEMMA TypeQueue ==
  ASSUME Sane, TypeOK, NEW n \in Notices
  PROVE  /\ Count(n) \/ Publish(n) => TypeOK'
         /\ \A u \in Senders : Notify(n, u) => TypeOK'
<1>1. note[n] \in Note /\ jobs \in Seq(Notices) /\ Len(jobs) \in Nat
  BY DEF TypeOK
<1>2. [note[n] EXCEPT !.pc = "done"] \in Note /\ [note[n] EXCEPT !.pc = "counted"] \in Note
  BY <1>1 DEF Note
<1>3. ASSUME Count(n) PROVE TypeOK'
  <2>1. PICK step \in {"done", "counted"} : note' = [note EXCEPT ![n].pc = step]
    BY <1>3 DEF Count, Countable, Enqueued
  <2>2. note' \in [Notices -> Note]
    BY <1>2, <2>1 DEF TypeOK
  <2>3. depth' \in Int /\ drops' \in Nat
    BY <1>3 DEF Count, Countable, TypeOK
  <2> QED
    BY <1>3, <2>2, <2>3 DEF Count, TypeOK
<1>4. ASSUME Publish(n) PROVE TypeOK'
  <2>1. note' = [note EXCEPT ![n].pc = "done"]
    BY <1>4 DEF Publish, Enqueued
  <2>3. note' \in [Notices -> Note]
    BY <1>2, <2>1 DEF TypeOK
  <2>2. jobs' \in Seq(Notices) /\ Len(jobs') <= QueueDepth /\ depth' \in Int /\ drops' \in Nat
    <3>1. Append(jobs, n) \in Seq(Notices) /\ Len(Append(jobs, n)) = Len(jobs) + 1
      BY <1>1
    <3>2. CASE Len(jobs) < QueueDepth
      <4>1. jobs' = Append(jobs, n) /\ depth' = depth /\ drops' = drops
        BY <1>4, <3>2 DEF Publish
      <4>2. Len(jobs) + 1 <= QueueDepth
        BY <1>1, <3>2 DEF Sane
      <4> QED
        BY <3>1, <4>1, <4>2 DEF TypeOK
    <3>3. CASE ~(Len(jobs) < QueueDepth)
      BY <1>1, <1>4, <3>3 DEF Publish, TypeOK
    <3> QED
      BY <3>2, <3>3
  <2> QED
    BY <1>4, <2>2, <2>3 DEF Publish, TypeOK
<1>5. ASSUME NEW u \in Senders, Notify(n, u) PROVE TypeOK'
  <2>1. [pc |-> "resolved", sender |-> u, to |-> Notified(u)] \in Note
    BY DEF Sane, Note, Notified
  <2> QED
    BY <1>5, <2>1 DEF Notify, TypeOK
<1> QED
  BY <1>3, <1>4, <1>5

LEMMA RecipientsType ==
  ASSUME TypeOK, NEW n \in Notices
  PROVE  Recipients(n) \subseteq Target
<1>1. note[n].to \subseteq Users
  BY DEF TypeOK, Note
<1>2. ASSUME NEW e \in Endpoints, owner[e] \in note[n].to \ muted
      PROVE  [endpoint |-> e, user |-> owner[e]] \in Target
  BY <1>1, <1>2 DEF Target
<1> QED
  BY <1>2 DEF Recipients

LEMMA TypeWorker ==
  ASSUME Sane, Inv, NEW w \in Workers, WorkerStep(w)
  PROVE  TypeOK'
<1>1. TypeOK /\ worker[w] \in WorkerState
  BY DEF Inv, TypeOK
<1>2. \A step \in {"listed", "authorized", "sending", "sent", "gone"} :
        /\ [worker[w] EXCEPT !.pc = step] \in WorkerState
        /\ \A todo \in SUBSET Target : [worker[w] EXCEPT !.pc = step, !.todo = todo] \in WorkerState
        /\ \A t \in Target : [worker[w] EXCEPT !.pc = step, !.target = t] \in WorkerState
  BY <1>1 DEF WorkerState
<1>3. ASSUME NEW r \in WorkerState, worker' = [worker EXCEPT ![w] = r],
             UNCHANGED <<ops, owner, muted, barred, subscribe, queue>>
      PROVE  TypeOK'
  BY <1>1, <1>3 DEF TypeOK, queue
<1>4. CASE Take(w)
  <2>1. /\ Head(jobs) \in Notices /\ Tail(jobs) \in Seq(Notices)
        /\ Len(jobs) \in Nat /\ Len(Tail(jobs)) = Len(jobs) - 1
    BY <1>1, <1>4 DEF Take, TypeOK
  <2>2. [worker[w] EXCEPT !.pc = "took", !.job = Head(jobs)] \in WorkerState
    BY <1>1, <2>1 DEF WorkerState
  <2>3. worker' = [worker EXCEPT ![w] = [worker[w] EXCEPT !.pc = "took", !.job = Head(jobs)]]
    BY <1>4, Zenon DEF Take
  <2>4. worker' \in [Workers -> WorkerState]
    BY <1>1, <2>2, <2>3 DEF TypeOK
  <2>5. depth' \in Int /\ taken' \in Nat /\ jobs' = Tail(jobs) /\ Len(jobs') <= QueueDepth
    BY <1>1, <1>4, <2>1 DEF Take, TypeOK, Sane
  <2>6. UNCHANGED <<ops, owner, muted, barred, note, subscribe, drops, halt>>
    BY <1>4 DEF Take
  <2> QED
    BY <1>1, <2>1, <2>4, <2>5, <2>6 DEF TypeOK
<1>5. CASE List(w)
  <2>1. Recipients(worker[w].job) \subseteq Target
    BY <1>1, <1>5, RecipientsType DEF Inv, WorkersSound, WorkerSound, List
  <2>2. PICK todo \in {Recipients(worker[w].job), {}} :
          worker' = [worker EXCEPT ![w] = IF todo = {} THEN Idle ELSE [worker[w] EXCEPT !.pc = "listed", !.todo = todo]]
    BY <1>5 DEF List
  <2>3. (IF todo = {} THEN Idle ELSE [worker[w] EXCEPT !.pc = "listed", !.todo = todo]) \in WorkerState
    BY <1>2, <2>1, IdleWorker
  <2> QED
    BY <1>3, <1>5, <2>2, <2>3 DEF List
<1>6. CASE Acquire(w) \/ Send(w) \/ WorkerEnds(w)
  <2>1. PICK step \in {"sending", "sent", "gone"} : worker' = [worker EXCEPT ![w] = [worker[w] EXCEPT !.pc = step]]
    BY <1>6 DEF Acquire, Send, WorkerEnds
  <2> QED
    BY <1>2, <1>3, <1>6, <2>1 DEF Acquire, Send, WorkerEnds
<1>7. CASE DeliveryTimeout(w)
  BY <1>1, <1>3, <1>7, NextWorker DEF DeliveryTimeout
<1>8. ASSUME NEW t \in Target, Authorize(w, t) PROVE TypeOK'
  <2>1. PICK r \in {Next_(w, t), [worker[w] EXCEPT !.pc = "authorized", !.target = t]} : worker' = [worker EXCEPT ![w] = r]
    BY <1>8 DEF Authorize
  <2>2. r \in WorkerState
    BY <1>1, <1>2, NextWorker
  <2> QED
    BY <1>3, <1>8, <2>1, <2>2 DEF Authorize
<1>9. ASSUME NEW gone \in BOOLEAN, Settle(w, gone) PROVE TypeOK'
  <2>1. worker' \in [Workers -> WorkerState]
    BY <1>1, <1>9, NextWorker DEF Settle, TypeOK
  <2>2. owner' \in [Endpoints -> Users \cup {None}]
    BY <1>1, <1>9 DEF Settle, TypeOK
  <2> QED
    BY <1>1, <1>9, <2>1, <2>2 DEF Settle, TypeOK, queue
<1> QED
  BY <1>4, <1>5, <1>6, <1>7, <1>8, <1>9 DEF WorkerStep

LEMMA StepType ==
  ASSUME Sane, Inv, Next
  PROVE  TypeOK'
<1>1. TypeOK /\ NoSubscription \in Subscription
  BY DEF Inv, NoSubscription, Subscription
<1>2. CASE Cancel \/ Stop
  BY <1>1, <1>2 DEF Cancel, Stop, TypeOK
<1>3. CASE StopReturns
  <2>1. /\ jobs' \in Seq(Notices) /\ Len(jobs') <= QueueDepth
        /\ Len(jobs) \in Nat /\ depth' \in Int /\ drops' \in Nat
    BY <1>1, <1>3 DEF StopReturns, TypeOK, Sane
  <2>2. UNCHANGED <<ops, owner, muted, barred, worker, subscribe, note, taken>> /\ halt' = "stopped"
    BY <1>3 DEF StopReturns
  <2> QED
    BY <1>1, <2>1, <2>2 DEF TypeOK
<1>4. ASSUME NEW u \in Users, Mute(u) \/ \E v \in Users : Block(u, v) PROVE TypeOK'
  <2>1. CASE Mute(u)
    BY <1>1, <2>1 DEF Mute, TypeOK, queue
  <2>2. ASSUME NEW v \in Users, Block(u, v) PROVE TypeOK'
    <3>1. barred' \subseteq Users \X Users
      BY <1>1, <2>2 DEF Block, TypeOK
    <3> QED
      BY <1>1, <2>2, <3>1 DEF Block, TypeOK, queue
  <2> QED
    BY <1>4, <2>1, <2>2
<1>5. ASSUME NEW u \in Users, NEW E \in SUBSET Endpoints, Unsubscribe(u, E) PROVE TypeOK'
  BY <1>1, <1>5 DEF Unsubscribe, TypeOK, queue
<1>6. ASSUME NEW s \in Subscribers, NEW u \in Users, NEW e \in Endpoints, Subscribe(s, u, e) PROVE TypeOK'
  <2>1. [pc |-> "checked", user |-> u, endpoint |-> e] \in Subscription
    BY DEF Subscription
  <2> QED
    BY <1>1, <1>6, <2>1 DEF Subscribe, TypeOK, queue
<1>7. ASSUME NEW s \in Subscribers, UpsertCounts(s) PROVE TypeOK'
  <2>1. [subscribe[s] EXCEPT !.pc = "locked"] \in Subscription
    BY <1>1 DEF TypeOK, Subscription
  <2>2. PICK r \in {NoSubscription, [subscribe[s] EXCEPT !.pc = "locked"]} : subscribe' = [subscribe EXCEPT ![s] = r]
    BY <1>7 DEF UpsertCounts
  <2> QED
    BY <1>1, <1>7, <2>1, <2>2 DEF UpsertCounts, TypeOK, queue
<1>8. ASSUME NEW s \in Subscribers, UpsertWrites(s) PROVE TypeOK'
  <2>1. subscribe[s].user \in Users
    BY <1>8 DEF UpsertWrites, Inv, SubscribersSound
  <2> QED
    BY <1>1, <1>8, <2>1 DEF UpsertWrites, TypeOK, queue
<1> QED
  BY <1>1, <1>2, <1>3, <1>4, <1>5, <1>6, <1>7, <1>8, TypeQueue, TypeWorker DEF Next

-----------------------------------------------------------------------------
(* The queue. *)

At(p) == {n \in Notices : note[n].pc = p}

\* How many notifications are at a step, when one of them moves.
LEMMA Tally ==
  ASSUME Sane, NEW n \in Notices, \A m \in Notices \ {n} : note'[m] = note[m], NEW p
  PROVE  /\ Cardinality(At(p)) \in Nat /\ Cardinality(At(p)') \in Nat
         /\ note[n].pc # p /\ note'[n].pc = p => Cardinality(At(p)') = Cardinality(At(p)) + 1
         /\ note[n].pc = p /\ note'[n].pc # p => Cardinality(At(p)') = Cardinality(At(p)) - 1
         /\ (note[n].pc = p <=> note'[n].pc = p) => Cardinality(At(p)') = Cardinality(At(p))
<1>1. IsFiniteSet(At(p)) /\ IsFiniteSet(At(p)')
  <2>1. At(p) \in SUBSET Notices /\ At(p)' \in SUBSET Notices
    BY DEF At
  <2> QED
    BY <2>1, FS_Subset DEF Sane
<1>2. /\ note[n].pc # p /\ note'[n].pc = p => At(p)' = At(p) \cup {n} /\ n \notin At(p)
      /\ note[n].pc = p /\ note'[n].pc # p => At(p)' = At(p) \ {n} /\ n \in At(p)
      /\ (note[n].pc = p <=> note'[n].pc = p) => At(p)' = At(p)
  BY DEF At
<1>3. Cardinality(At(p)) \in Nat /\ Cardinality(At(p)') \in Nat
  BY <1>1, FS_CardinalityType
<1>4. Cardinality(At(p) \cup {n}) = IF n \in At(p) THEN Cardinality(At(p)) ELSE Cardinality(At(p)) + 1
  BY <1>1, FS_AddElement
<1>5. Cardinality(At(p) \ {n}) = IF n \in At(p) THEN Cardinality(At(p)) - 1 ELSE Cardinality(At(p))
  BY <1>1, FS_RemoveElement
<1> QED
  BY <1>2, <1>3, <1>4, <1>5

\* A notification that was let go stays as it is.
LEMMA NotesStay ==
  ASSUME TypeOK, Next, NEW n \in Notices, note[n].pc = "done"
  PROVE  note'[n] = note[n]
<1>1. ASSUME NEW m \in Notices, Count(m) \/ Publish(m) \/ \E u \in Senders : Notify(m, u) PROVE note'[n] = note[n]
  BY <1>1 DEF TypeOK, Count, Countable, Publish, Notify, Enqueued
<1>2. ASSUME NEW w \in Workers, WorkerStep(w) PROVE note' = note
  BY <1>2 DEF WorkerStep, Take, List, Acquire, DeliveryTimeout, Send, WorkerEnds, Authorize, Settle, queue
<1>3. ASSUME Cancel \/ Stop \/ StopReturns PROVE note' = note
  BY <1>3 DEF Cancel, Stop, StopReturns
<1>4. ASSUME NEW u \in Users,
             Mute(u) \/ (\E v \in Users : Block(u, v)) \/ (\E E \in SUBSET Endpoints : Unsubscribe(u, E))
      PROVE  note' = note
  BY <1>4 DEF Mute, Block, Unsubscribe, queue
<1>5. ASSUME NEW s \in Subscribers,
             UpsertCounts(s) \/ UpsertWrites(s) \/ \E u \in Users, e \in Endpoints : Subscribe(s, u, e)
      PROVE  note' = note
  BY <1>5 DEF UpsertCounts, UpsertWrites, Subscribe, queue
<1> QED
  BY <1>1, <1>2, <1>3, <1>4, <1>5 DEF Next

LEMMA QueueSize ==
  ASSUME TypeOK
  PROVE  jobs \in Seq(Notices) /\ Len(jobs) \in Nat /\ depth \in Int /\ drops \in Nat /\ taken \in Nat
  BY DEF TypeOK

LEMMA NotifyCounts ==
  ASSUME Sane, Inv, NEW n \in Notices, NEW u \in Senders, Notify(n, u)
  PROVE  QueueSound' /\ StopSound' /\ QueueAccounted'
<1>1. /\ note[n].pc = "none" /\ note'[n].pc = "resolved" /\ \A m \in Notices \ {n} : note'[m] = note[m]
      /\ UNCHANGED <<jobs, depth, drops, halt, taken>>
  BY DEF Notify, Inv, TypeOK
<1>2. Cardinality(At("counted")') = Cardinality(At("counted")) /\ Cardinality(At("done")') = Cardinality(At("done"))
  BY <1>1, Tally
<1>3. QueueSound'
  <2>1. \A i \in 1..Len(jobs) : jobs[i] \in Notices /\ note[jobs[i]].pc = "done"
    BY DEF Inv, TypeOK, QueueSound
  <2> QED
    BY <1>1, <2>1 DEF QueueSound
<1>4. StopSound'
  BY <1>1 DEF Inv, StopSound, NoEnqueue
<1>5. QueueAccounted'
  BY <1>1, <1>2 DEF Inv, QueueAccounted, At
<1> QED
  BY <1>3, <1>4, <1>5

LEMMA CountCounts ==
  ASSUME Sane, Inv, NEW n \in Notices, Count(n)
  PROVE  QueueSound' /\ StopSound' /\ QueueAccounted'
<1>1. /\ note[n].pc = "resolved" /\ \A m \in Notices \ {n} : note'[m] = note[m]
      /\ UNCHANGED <<jobs, halt, taken>>
  BY DEF Count, Countable, Enqueued, Inv, TypeOK
<1>2. QueueSound'
  <2>1. \A i \in 1..Len(jobs) : jobs[i] \in Notices /\ note[jobs[i]].pc = "done"
    BY DEF Inv, TypeOK, QueueSound
  <2> QED
    BY <1>1, <2>1 DEF QueueSound
<1>3. CASE halt \in {"stopping", "stopped"}
  <2>1. note'[n].pc = "done" /\ drops' = drops + 1 /\ depth' = depth
    <3>1. note' = [note EXCEPT ![n].pc = "done"] /\ drops' = drops + 1 /\ depth' = depth
      BY <1>3 DEF Count, Countable, Enqueued
    <3> QED
      BY <3>1 DEF Inv, TypeOK, Note
  <2>2. /\ Cardinality(At("counted")') = Cardinality(At("counted"))
        /\ Cardinality(At("done")') = Cardinality(At("done")) + 1 /\ Cardinality(At("done")) \in Nat
    BY <1>1, <2>1, Tally
  <2>3. StopSound'
    BY <1>1, <2>1 DEF Inv, StopSound, NoEnqueue
  <2>4. QueueAccounted'
    BY <1>1, <2>1, <2>2, QueueSize DEF Inv, QueueAccounted, At
  <2> QED
    BY <1>2, <2>3, <2>4
<1>4. CASE halt \notin {"stopping", "stopped"}
  <2>1. note'[n].pc = "counted" /\ drops' = drops /\ depth' = depth + 1
    <3>1. note' = [note EXCEPT ![n].pc = "counted"] /\ drops' = drops /\ depth' = depth + 1
      BY <1>4 DEF Count, Countable
    <3> QED
      BY <3>1 DEF Inv, TypeOK, Note
  <2>2. /\ Cardinality(At("counted")') = Cardinality(At("counted")) + 1 /\ Cardinality(At("counted")) \in Nat
        /\ Cardinality(At("done")') = Cardinality(At("done"))
    BY <1>1, <2>1, Tally
  <2>3. StopSound'
    BY <1>1, <1>4 DEF StopSound
  <2>4. QueueAccounted'
    BY <1>1, <1>4, <2>1, <2>2, QueueSize DEF Inv, QueueAccounted, At
  <2> QED
    BY <1>2, <2>3, <2>4
<1> QED
  BY <1>3, <1>4

LEMMA PublishCounts ==
  ASSUME Sane, Inv, NEW n \in Notices, Publish(n)
  PROVE  QueueSound' /\ StopSound' /\ QueueAccounted'
<1>1. /\ note[n].pc = "counted" /\ note'[n].pc = "done" /\ \A m \in Notices \ {n} : note'[m] = note[m]
      /\ UNCHANGED <<halt, taken>>
  BY DEF Publish, Enqueued, Inv, TypeOK
<1>2. /\ Cardinality(At("counted")') = Cardinality(At("counted")) - 1 /\ Cardinality(At("counted")) \in Nat
      /\ Cardinality(At("done")') = Cardinality(At("done")) + 1 /\ Cardinality(At("done")) \in Nat
  BY <1>1, Tally
<1>3. halt \notin {"stopping", "stopped"}
  BY <1>1 DEF Inv, StopSound, NoEnqueue
<1>4. \A i \in 1..Len(jobs) : jobs[i] \in Notices /\ note'[jobs[i]].pc = "done"
  <2>1. \A i \in 1..Len(jobs) : jobs[i] \in Notices
    BY DEF Inv, TypeOK
  <2>2. \A i \in 1..Len(jobs) : note[jobs[i]].pc = "done"
    BY DEF Inv, QueueSound
  <2> QED
    BY <1>1, <2>1, <2>2
<1>5. CASE Len(jobs) < QueueDepth
  <2>1. jobs' = Append(jobs, n) /\ UNCHANGED <<depth, drops>>
    BY <1>5 DEF Publish
  <2>2. /\ Len(jobs') = Len(jobs) + 1 /\ jobs'[Len(jobs) + 1] = n
        /\ \A i \in 1..Len(jobs) : jobs'[i] = jobs[i]
    BY <2>1, QueueSize DEF Inv
  <2>3. QueueSound'
    BY <1>1, <1>4, <2>2, QueueSize DEF QueueSound, Inv
  <2>4. QueueAccounted'
    BY <1>1, <1>2, <1>3, <2>1, <2>2, QueueSize DEF Inv, QueueAccounted, At
  <2> QED
    BY <1>1, <1>3, <2>3, <2>4 DEF StopSound
<1>6. CASE ~(Len(jobs) < QueueDepth)
  <2>1. jobs' = jobs /\ depth' = depth - 1 /\ drops' = drops + 1
    BY <1>6 DEF Publish
  <2>2. QueueSound'
    BY <1>4, <2>1 DEF QueueSound
  <2>3. QueueAccounted'
    <3>1. /\ depth = Len(jobs) + Cardinality(At("counted"))
          /\ Cardinality(At("done")) = taken + Len(jobs) + drops
      BY DEF Inv, QueueAccounted, At
    <3>2. /\ depth' = Len(jobs') + Cardinality(At("counted")')
          /\ Cardinality(At("done")') = taken' + Len(jobs') + drops'
      <4>1. Len(jobs) \in Nat /\ depth \in Int /\ drops \in Nat /\ taken \in Nat /\ taken' = taken
        BY <1>1, QueueSize DEF Inv
      <4>2. depth' = Len(jobs') + Cardinality(At("counted")')
        BY <1>2, <2>1, <3>1, <4>1
      <4>3. Cardinality(At("done")') = taken' + Len(jobs') + drops'
        BY <1>2, <2>1, <3>1, <4>1
      <4> QED
        BY <4>2, <4>3
    <3> QED
      BY <1>1, <1>3, <3>2 DEF QueueAccounted, At
  <2> QED
    BY <1>1, <1>3, <2>2, <2>3 DEF StopSound
<1> QED
  BY <1>5, <1>6

LEMMA TakeCounts ==
  ASSUME Sane, Inv, NEW w \in Workers, Take(w)
  PROVE  QueueSound' /\ StopSound' /\ QueueAccounted'
<1>1. /\ jobs # <<>> /\ jobs' = Tail(jobs) /\ depth' = depth - 1 /\ taken' = taken + 1
      /\ UNCHANGED <<note, drops, halt>>
  BY DEF Take
<1>2. Len(jobs') = Len(jobs) - 1 /\ \A i \in 1..Len(jobs') : i + 1 \in 1..Len(jobs) /\ jobs'[i] = jobs[i + 1]
  BY <1>1, QueueSize DEF Inv
<1>3. QueueSound'
  BY <1>1, <1>2 DEF Inv, QueueSound
<1>4. StopSound'
  BY <1>1 DEF Inv, StopSound, NoEnqueue
<1>5. At("counted")' = At("counted") /\ At("done")' = At("done")
  BY <1>1 DEF At
<1>6. Cardinality(At("counted")) \in Nat /\ Cardinality(At("done")) \in Nat
  <2>1. At("counted") \in SUBSET Notices /\ At("done") \in SUBSET Notices
    BY DEF At
  <2> QED
    BY <2>1, FS_Subset, FS_CardinalityType DEF Sane
<1>7. QueueAccounted'
  <2>1. /\ depth = Len(jobs) + Cardinality(At("counted"))
        /\ Cardinality(At("done")) = taken + Len(jobs) + drops
        /\ halt # "stopped"
    BY <1>1 DEF Inv, QueueAccounted, At
  <2>2. /\ depth' = Len(jobs') + Cardinality(At("counted")')
        /\ Cardinality(At("done")') = taken' + Len(jobs') + drops'
    <3>1. Cardinality(At("counted")') = Cardinality(At("counted")) /\ Cardinality(At("done")') = Cardinality(At("done"))
      BY <1>5
    <3>2. Len(jobs') = Len(jobs) - 1 /\ depth' = depth - 1 /\ taken' = taken + 1 /\ drops' = drops
      BY <1>1, <1>2
    <3>3. Len(jobs) \in Nat /\ taken \in Nat /\ drops \in Nat
      BY QueueSize DEF Inv
    <3> QED
      BY <1>6, <2>1, <3>1, <3>2, <3>3
  <2> QED
    BY <1>1, <2>1, <2>2 DEF QueueAccounted, At
<1> QED
  BY <1>3, <1>4, <1>7

LEMMA StopCounts ==
  ASSUME Sane, Inv, Cancel \/ Stop \/ StopReturns
  PROVE  QueueSound' /\ StopSound' /\ QueueAccounted'
<1>1. CASE Cancel \/ Stop
  BY <1>1 DEF Cancel, Stop, Inv, QueueSound, StopSound, NoEnqueue, QueueAccounted
<1>2. CASE StopReturns
  <2>1. /\ halt = "stopping" /\ halt' = "stopped" /\ jobs' = <<>> /\ note' = note /\ taken' = taken
        /\ depth' = depth - Len(jobs) /\ drops' = drops + Len(jobs)
    BY <1>2 DEF StopReturns
  <2>2. NoEnqueue /\ NoEnqueue'
    BY <2>1 DEF Inv, StopSound, NoEnqueue
  <2>3. At("counted") = {} /\ Cardinality(At("counted")) = 0
    <3>1. At("counted") = {}
      BY <2>2 DEF NoEnqueue, At
    <3> QED
      BY <3>1, FS_EmptySet
  <2>4. At("counted")' = At("counted") /\ At("done")' = At("done") /\ Len(jobs') = 0
    BY <2>1 DEF At
  <2>5. QueueSound' /\ StopSound'
    BY <2>1, <2>2, <2>4 DEF QueueSound, StopSound
  <2>6. QueueAccounted'
    <3>1. depth = Len(jobs) /\ Cardinality(At("done")) = taken + Len(jobs) + drops
      BY <2>3, QueueSize DEF Inv, QueueAccounted, At
    <3>2. depth' = Len(jobs') + Cardinality(At("counted")') /\ depth' = 0
      BY <2>1, <2>3, <2>4, <3>1, QueueSize DEF Inv
    <3>3. Cardinality(At("done")') = taken' + Len(jobs') + drops'
      BY <2>1, <2>4, <3>1, QueueSize DEF Inv
    <3> QED
      BY <2>1, <3>2, <3>3 DEF QueueAccounted, At
  <2> QED
    BY <2>5, <2>6
<1> QED
  BY <1>1, <1>2

LEMMA StepQueue ==
  ASSUME Sane, Inv, Next
  PROVE  QueueSound' /\ StopSound' /\ QueueAccounted'
<1>1. ASSUME UNCHANGED queue PROVE QueueSound' /\ StopSound' /\ QueueAccounted'
  BY <1>1 DEF queue, Inv, QueueSound, StopSound, NoEnqueue, QueueAccounted
<1>2. ASSUME NEW w \in Workers, WorkerStep(w) PROVE Take(w) \/ UNCHANGED queue
  BY <1>2 DEF WorkerStep, List, Acquire, DeliveryTimeout, Send, WorkerEnds, Authorize, Settle
<1>3. ASSUME NEW u \in Users,
             Mute(u) \/ (\E v \in Users : Block(u, v)) \/ (\E E \in SUBSET Endpoints : Unsubscribe(u, E))
      PROVE  UNCHANGED queue
  BY <1>3 DEF Mute, Block, Unsubscribe
<1>4. ASSUME NEW s \in Subscribers,
             UpsertCounts(s) \/ UpsertWrites(s) \/ \E u \in Users, e \in Endpoints : Subscribe(s, u, e)
      PROVE  UNCHANGED queue
  BY <1>4 DEF UpsertCounts, UpsertWrites, Subscribe
<1> QED
  BY <1>1, <1>2, <1>3, <1>4, NotifyCounts, CountCounts, PublishCounts, TakeCounts, StopCounts DEF Next

-----------------------------------------------------------------------------
(* The deliveries. *)

\* What a worker relies on stays true while it stands still, unless a block comes.
LEMMA WorkerWaits ==
  ASSUME Inv, Next, barred' = barred, NEW r, WorkerSound(r)
  PROVE  WorkerSound(r)'
<1>1. r.pc \notin {"idle", "gone"} => note'[r.job] = note[r.job]
  BY NotesStay DEF Inv, WorkerSound
<1> QED
  BY <1>1 DEF WorkerSound, Blocked

LEMMA OneWorker ==
  ASSUME Inv, Next, barred' = barred, NEW w \in Workers,
         \A v \in Workers \ {w} : worker'[v] = worker[v], WorkerSound(worker[w])'
  PROVE  WorkersSound'
<1>1. ASSUME NEW v \in Workers \ {w} PROVE WorkerSound(worker[v])'
  BY WorkerWaits DEF Inv, WorkersSound, WorkerSound
<1> QED
  BY <1>1 DEF WorkersSound

LEMMA NextSound ==
  ASSUME Inv, Next, NEW w \in Workers, worker[w].pc \notin {"idle", "gone"}, NEW t, worker'[w] = Next_(w, t)
  PROVE  WorkerSound(worker[w])' /\ worker'[w].pc \in {"idle", "listed"}
<1>1. worker[w] \in WorkerState /\ worker[w].job \in Notices /\ note[worker[w].job].pc = "done"
  BY DEF Inv, TypeOK, WorkersSound, WorkerSound
<1>2. note'[worker[w].job] = note[worker[w].job]
  BY <1>1, NotesStay DEF Inv
<1>3. CASE worker'[w] = Idle
  BY <1>3 DEF Idle, WorkerSound
<1>4. CASE worker'[w] = [worker[w] EXCEPT !.pc = "listed", !.todo = Remaining(w, t), !.target = None]
  <2>1. worker'[w].pc = "listed" /\ worker'[w].job = worker[w].job
    BY <1>1, <1>4 DEF WorkerState
  <2> QED
    BY <1>1, <1>2, <2>1 DEF WorkerSound
<1> QED
  BY <1>3, <1>4 DEF Next_

LEMMA FewerSending ==
  ASSUME Sane, Inv, \A h : Sending(h)' \subseteq Sending(h)
  PROVE  HostsSpared'
<1> SUFFICES ASSUME NEW e \in Endpoints PROVE Cardinality(Sending(HostOf[e])') <= PerHost
  BY DEF HostsSpared, Sending
<1> DEFINE h == HostOf[e]
<1>1. Sending(h) \in SUBSET Workers /\ Sending(h)' \in SUBSET Sending(h)
  BY DEF Sending
<1>2. IsFiniteSet(Sending(h)) /\ Cardinality(Sending(h)) \in Nat
  BY <1>1, FS_Subset, FS_CardinalityType DEF Sane
<1>3. Cardinality(Sending(h)') <= Cardinality(Sending(h)) /\ Cardinality(Sending(h)') \in Nat
  BY <1>1, <1>2, FS_Subset, FS_CardinalityType
<1>4. Cardinality(Sending(h)) <= PerHost
  BY DEF Inv, HostsSpared
<1> QED
  BY <1>2, <1>3, <1>4 DEF Sane

\* A worker that does not come to send lets the gates be.
LEMMA Quieter ==
  ASSUME Sane, Inv, NEW w \in Workers, \A v \in Workers \ {w} : worker'[v] = worker[v],
         \/ worker'[w].pc \notin {"sending", "sent"}
         \/ worker[w].pc \in {"sending", "sent"} /\ worker'[w].target = worker[w].target
  PROVE  HostsSpared'
<1>1. \A h : Sending(h)' \subseteq Sending(h)
  BY DEF Sending
<1> QED
  BY <1>1, FewerSending

\* The gate is looked at when the send begins.
LEMMA AcquireSpares ==
  ASSUME Sane, Inv, NEW w \in Workers, Acquire(w)
  PROVE  HostsSpared'
<1> SUFFICES ASSUME NEW e \in Endpoints PROVE Cardinality(Sending(HostOf[e])') <= PerHost
  BY DEF HostsSpared, Sending
<1> DEFINE h == HostOf[e]
<1>1. /\ worker[w].pc = "authorized" /\ Gate(HostOf[worker[w].target.endpoint])
      /\ worker'[w].target = worker[w].target /\ \A v \in Workers \ {w} : worker'[v] = worker[v]
  BY DEF Acquire, Inv, TypeOK, WorkerState
<1>2. Sending(h) \in SUBSET Workers
  BY DEF Sending
<1>3. IsFiniteSet(Sending(h)) /\ Cardinality(Sending(h)) \in Nat
  BY <1>2, FS_Subset, FS_CardinalityType DEF Sane
<1>4. CASE HostOf[worker[w].target.endpoint] = h
  <2>1. Sending(h)' \in SUBSET (Sending(h) \cup {w})
    BY <1>1 DEF Sending
  <2>2. /\ IsFiniteSet(Sending(h) \cup {w}) /\ Cardinality(Sending(h) \cup {w}) \in Nat
        /\ Cardinality(Sending(h) \cup {w}) <= Cardinality(Sending(h)) + 1
    <3> HIDE DEF h
    <3>1. /\ IsFiniteSet(Sending(h) \cup {w})
          /\ Cardinality(Sending(h) \cup {w}) = IF w \in Sending(h) THEN Cardinality(Sending(h)) ELSE Cardinality(Sending(h)) + 1
      BY <1>3, FS_AddElement
    <3> QED
      BY <1>3, <3>1
  <2>3. Cardinality(Sending(h)') <= Cardinality(Sending(h) \cup {w}) /\ Cardinality(Sending(h)') \in Nat
    BY <2>1, <2>2, FS_Subset, FS_CardinalityType
  <2>4. Cardinality(Sending(h)) < PerHost
    BY <1>1, <1>4 DEF Gate
  <2> QED
    BY <1>3, <2>2, <2>3, <2>4 DEF Sane
<1>5. CASE HostOf[worker[w].target.endpoint] # h
  <2>1. Sending(h)' = Sending(h)
    BY <1>1, <1>5 DEF Sending
  <2> QED
    BY <2>1 DEF Inv, HostsSpared
<1> QED
  BY <1>4, <1>5

LEMMA WorkerDelivers ==
  ASSUME Sane, Inv, Next, NEW w \in Workers, WorkerStep(w)
  PROVE  WorkersSound' /\ HostsSpared'
<1>1. worker \in [Workers -> WorkerState] /\ worker[w] \in WorkerState /\ WorkerSound(worker[w])
  BY DEF Inv, TypeOK, WorkersSound
<1>2. barred' = barred
  BY DEF WorkerStep, Take, List, Acquire, DeliveryTimeout, Send, WorkerEnds, Authorize, Settle
<1>3. ASSUME worker[w].pc \notin {"idle", "gone"}
      PROVE  worker[w].job \in Notices /\ note[worker[w].job].pc = "done" /\ note'[worker[w].job] = note[worker[w].job]
  BY <1>1, <1>3, NotesStay DEF Inv, WorkerSound
<1>4. \A v \in Workers \ {w} : worker'[v] = worker[v]
  BY <1>1 DEF WorkerStep, Take, List, Acquire, DeliveryTimeout, Send, WorkerEnds, Authorize, Settle
<1>5. CASE Take(w)
  <2>1. jobs # <<>> /\ note' = note /\ worker'[w].pc = "took" /\ worker'[w].job = Head(jobs)
    BY <1>1, <1>5 DEF Take, WorkerState
  <2>2. Head(jobs) = jobs[1] /\ 1 \in 1..Len(jobs) /\ jobs[1] \in Notices
    BY <2>1, QueueSize DEF Inv
  <2>3. WorkerSound(worker[w])'
    BY <2>1, <2>2 DEF WorkerSound, Inv, QueueSound
  <2> QED
    BY <1>2, <1>4, <2>1, <2>3, OneWorker, Quieter
<1>6. CASE List(w)
  <2>1. worker[w].pc = "took" /\ (worker'[w] = Idle \/ (worker'[w].pc = "listed" /\ worker'[w].job = worker[w].job))
    <3>1. PICK todo :
            worker' = [worker EXCEPT ![w] = IF todo = {} THEN Idle ELSE [worker[w] EXCEPT !.pc = "listed", !.todo = todo]]
      BY <1>6 DEF List
    <3>2. worker'[w] = IF todo = {} THEN Idle ELSE [worker[w] EXCEPT !.pc = "listed", !.todo = todo]
      BY <1>1, <3>1
    <3>3. worker[w].pc = "took"
      BY <1>6 DEF List
    <3> QED
      BY <1>1, <3>2, <3>3 DEF WorkerState
  <2>2. WorkerSound(worker[w])' /\ worker'[w].pc \in {"idle", "listed"}
    BY <1>3, <2>1 DEF WorkerSound, Idle
  <2> QED
    BY <1>2, <1>4, <2>2, OneWorker, Quieter
<1>7. ASSUME NEW t \in Target, Authorize(w, t) PROVE WorkersSound' /\ HostsSpared'
  <2>1. CASE Blocked(t.user, note[worker[w].job].sender)
    <3>1. worker'[w] = Next_(w, t) /\ worker[w].pc = "listed"
      BY <1>1, <1>7, <2>1 DEF Authorize
    <3>2. WorkerSound(worker[w])' /\ worker'[w].pc \in {"idle", "listed"}
      BY <3>1, NextSound
    <3> QED
      BY <1>2, <1>4, <3>2, OneWorker, Quieter
  <2>2. CASE ~Blocked(t.user, note[worker[w].job].sender)
    <3>1. worker[w].pc = "listed" /\ worker' = [worker EXCEPT ![w] = [worker[w] EXCEPT !.pc = "authorized", !.target = t]]
      BY <1>7, <2>2 DEF Authorize
    <3>2. worker'[w].pc = "authorized" /\ worker'[w].job = worker[w].job /\ worker'[w].target = t
      BY <1>1, <3>1 DEF WorkerState
    <3>3. WorkerSound(worker[w])'
      BY <1>2, <1>3, <2>2, <3>1, <3>2 DEF WorkerSound, Blocked
    <3> QED
      BY <1>2, <1>4, <3>2, <3>3, OneWorker, Quieter
  <2> QED
    BY <2>1, <2>2
<1>8. CASE Acquire(w) \/ Send(w)
  <2>1. /\ worker[w].pc = IF Acquire(w) THEN "authorized" ELSE "sending"
        /\ worker'[w].pc = IF Acquire(w) THEN "sending" ELSE "sent"
        /\ worker'[w].job = worker[w].job /\ worker'[w].target = worker[w].target
    BY <1>1, <1>8 DEF Acquire, Send, WorkerState
  <2>2. WorkerSound(worker[w])'
    BY <1>1, <1>2, <1>3, <2>1 DEF WorkerSound, Blocked
  <2>3. HostsSpared'
    BY <1>4, <1>8, <2>1, AcquireSpares, Quieter
  <2> QED
    BY <1>2, <1>4, <2>2, <2>3, OneWorker
<1>9. CASE WorkerEnds(w)
  <2>1. worker'[w].pc = "gone"
    BY <1>1, <1>9 DEF WorkerEnds, WorkerState
  <2>2. WorkerSound(worker[w])'
    BY <2>1 DEF WorkerSound
  <2> QED
    BY <1>2, <1>4, <2>1, <2>2, OneWorker, Quieter
<1>10. CASE DeliveryTimeout(w) \/ \E gone \in BOOLEAN : Settle(w, gone)
  <2>1. worker'[w] = Next_(w, worker[w].target) /\ worker[w].pc \in {"authorized", "sending", "sent"}
    BY <1>1, <1>10 DEF DeliveryTimeout, Settle
  <2>2. WorkerSound(worker[w])' /\ worker'[w].pc \in {"idle", "listed"}
    BY <2>1, NextSound
  <2> QED
    BY <1>2, <1>4, <2>2, OneWorker, Quieter
<1> QED
  BY <1>5, <1>6, <1>7, <1>8, <1>9, <1>10 DEF WorkerStep

LEMMA StepDeliveries ==
  ASSUME Sane, Inv, Next
  PROVE  WorkersSound' /\ HostsSpared'
<1>1. ASSUME worker' = worker, barred' = barred PROVE WorkersSound' /\ HostsSpared'
  <2>1. ASSUME NEW w \in Workers PROVE WorkerSound(worker[w])'
    BY <1>1, WorkerWaits DEF Inv, WorkersSound, WorkerSound
  <2>2. \A h : Sending(h)' \subseteq Sending(h)
    BY <1>1 DEF Sending
  <2> QED
    BY <2>1, <2>2, FewerSending DEF WorkersSound
<1>2. ASSUME NEW u \in Users, NEW v \in Users, Block(u, v) PROVE WorkersSound' /\ HostsSpared'
  <2>1. worker' = worker /\ note' = note /\ \A w \in Workers : worker[w].pc \notin {"authorized", "sending", "sent"}
    BY <1>2 DEF Block, NoDelivery, queue
  <2>2. WorkersSound'
    BY <2>1 DEF Inv, WorkersSound, WorkerSound
  <2>3. \A h : Sending(h)' \subseteq Sending(h)
    BY <2>1 DEF Sending
  <2> QED
    BY <2>2, <2>3, FewerSending
<1>3. ASSUME NEW n \in Notices, Count(n) \/ Publish(n) \/ \E u \in Senders : Notify(n, u)
      PROVE  worker' = worker /\ barred' = barred
  BY <1>3 DEF Count, Publish, Notify
<1>4. ASSUME Cancel \/ Stop \/ StopReturns PROVE worker' = worker /\ barred' = barred
  BY <1>4 DEF Cancel, Stop, StopReturns
<1>5. ASSUME NEW u \in Users, Mute(u) \/ \E E \in SUBSET Endpoints : Unsubscribe(u, E)
      PROVE  worker' = worker /\ barred' = barred
  BY <1>5 DEF Mute, Unsubscribe
<1>6. ASSUME NEW s \in Subscribers,
             UpsertCounts(s) \/ UpsertWrites(s) \/ \E u \in Users, e \in Endpoints : Subscribe(s, u, e)
      PROVE  worker' = worker /\ barred' = barred
  BY <1>6 DEF UpsertCounts, UpsertWrites, Subscribe
<1> QED
  BY <1>1, <1>2, <1>3, <1>4, <1>5, <1>6, WorkerDelivers DEF Next

-----------------------------------------------------------------------------
(* The subscriptions. *)

LEMMA OwnedFinite ==
  ASSUME Sane, NEW u, NEW e \in Endpoints
  PROVE  /\ IsFiniteSet(Owned(u)) /\ Cardinality(Owned(u)) \in Nat
         /\ IsFiniteSet(Owned(u) \cup {e}) /\ Cardinality(Owned(u) \cup {e}) \in Nat
         /\ Cardinality(Owned(u)) <= Cardinality(Owned(u) \cup {e})
         /\ Cardinality(Owned(u) \cup {e}) = IF e \in Owned(u) THEN Cardinality(Owned(u)) ELSE Cardinality(Owned(u)) + 1
<1>1. Owned(u) \in SUBSET Endpoints /\ Owned(u) \in SUBSET (Owned(u) \cup {e})
  BY DEF Owned
<1>2. IsFiniteSet(Owned(u)) /\ Cardinality(Owned(u)) \in Nat
  BY <1>1, FS_Subset, FS_CardinalityType DEF Sane
<1>3. /\ IsFiniteSet(Owned(u) \cup {e})
      /\ Cardinality(Owned(u) \cup {e}) = IF e \in Owned(u) THEN Cardinality(Owned(u)) ELSE Cardinality(Owned(u)) + 1
  BY <1>2, FS_AddElement
<1> QED
  BY <1>2, <1>3

\* Who owns no more than before has room for what there was room for.
LEMMA Shrinks ==
  ASSUME Sane, Inv, NEW u \in Users, Owned(u)' \subseteq Owned(u)
  PROVE  /\ Cardinality(Owned(u)') <= MaxPerUser
         /\ \A e \in Endpoints : Fits(u, e) => Fits(u, e)'
<1>1. IsFiniteSet(Owned(u)) /\ Cardinality(Owned(u)) \in Nat /\ Cardinality(Owned(u)) <= MaxPerUser
  <2>1. Owned(u) \in SUBSET Endpoints
    BY DEF Owned
  <2> QED
    BY <2>1, FS_Subset, FS_CardinalityType DEF Sane, Inv, CapKept
<1>2. Cardinality(Owned(u)') <= Cardinality(Owned(u)) /\ Cardinality(Owned(u)') \in Nat
  BY <1>1, FS_Subset, FS_CardinalityType
<1>3. ASSUME NEW e \in Endpoints, Fits(u, e) PROVE Fits(u, e)'
  <2>1. IsFiniteSet(Owned(u) \cup {e}) /\ Cardinality(Owned(u) \cup {e}) \in Nat
    BY OwnedFinite
  <2>2. (Owned(u)' \cup {e}) \in SUBSET (Owned(u) \cup {e})
    OBVIOUS
  <2>3. Cardinality(Owned(u)' \cup {e}) <= Cardinality(Owned(u) \cup {e}) /\ Cardinality(Owned(u)' \cup {e}) \in Nat
    BY <2>1, <2>2, FS_Subset, FS_CardinalityType
  <2> QED
    BY <1>3, <2>1, <2>3 DEF Fits, Sane
<1> QED
  BY <1>1, <1>2, <1>3 DEF Sane

LEMMA AllShrink ==
  ASSUME Sane, Inv, subscribe' = subscribe, \A u \in Users : Owned(u)' \subseteq Owned(u)
  PROVE  SubscribersSound' /\ CapKept'
<1>1. CapKept'
  BY Shrinks DEF CapKept
<1>2. ASSUME NEW s \in Subscribers, Locked(s)
      PROVE  subscribe[s].user \in Users /\ subscribe[s].endpoint \in Endpoints /\ Fits(subscribe[s].user, subscribe[s].endpoint)
  BY <1>2 DEF Inv, SubscribersSound, Locked
<1>3. ASSUME NEW u \in Users, NEW e \in Endpoints, Fits(u, e) PROVE Cardinality(Owned(u)' \cup {e}) <= MaxPerUser
  BY <1>3, Shrinks DEF Fits
<1>4. ASSUME NEW s \in Subscribers, Locked(s)' PROVE Fits(subscribe[s].user, subscribe[s].endpoint)'
  BY <1>2, <1>3, <1>4 DEF Fits, Locked
<1> QED
  BY <1>1, <1>4 DEF Inv, SubscribersSound, Locked

LEMMA SubscribeKeeps ==
  ASSUME Sane, Inv, NEW s \in Subscribers, NEW u \in Users, NEW e \in Endpoints, Subscribe(s, u, e)
  PROVE  SubscribersSound' /\ CapKept'
<1>1. /\ owner' = owner /\ subscribe'[s] = [pc |-> "checked", user |-> u, endpoint |-> e]
      /\ \A q \in Subscribers \ {s} : subscribe'[q] = subscribe[q]
  BY DEF Subscribe, Inv, TypeOK
<1>2. CapKept'
  BY <1>1 DEF Inv, CapKept, Owned
<1>3. \A q \in Subscribers : Locked(q)' => q # s /\ Locked(q)
  BY <1>1 DEF Locked
<1>4. ASSUME NEW q \in Subscribers, Locked(q)' PROVE Fits(subscribe[q].user, subscribe[q].endpoint)'
  BY <1>1, <1>3, <1>4 DEF Inv, SubscribersSound, Fits, Owned
<1>5. ASSUME NEW q \in Subscribers, subscribe'[q].pc # "idle"
      PROVE  subscribe'[q].user \in Users /\ subscribe'[q].endpoint \in Endpoints
  BY <1>1, <1>5 DEF Inv, SubscribersSound
<1>6. ASSUME NEW q \in Subscribers, NEW p \in Subscribers \ {q}, Locked(q)', Locked(p)'
      PROVE  subscribe'[p].user # subscribe'[q].user
  BY <1>1, <1>3, <1>6 DEF Inv, SubscribersSound
<1> QED
  BY <1>2, <1>4, <1>5, <1>6 DEF SubscribersSound

LEMMA UpsertCountsKeeps ==
  ASSUME Sane, Inv, NEW s \in Subscribers, UpsertCounts(s)
  PROVE  SubscribersSound' /\ CapKept'
<1>0. PICK u \in Users, e \in Endpoints : subscribe[s].user = u /\ subscribe[s].endpoint = e /\ UserFree(u)
  BY DEF UpsertCounts, Inv, SubscribersSound
<1>1. owner' = owner /\ \A q \in Subscribers \ {s} : subscribe'[q] = subscribe[q]
  BY DEF UpsertCounts, Inv, TypeOK
<1>2. CapKept'
  BY <1>1 DEF Inv, CapKept, Owned
<1>3. CASE e \notin Owned(u) /\ Cardinality(Owned(u)) >= MaxPerUser
  <2>1. subscribe'[s] = NoSubscription
    BY <1>0, <1>3 DEF UpsertCounts, Inv, TypeOK
  <2>2. \A q \in Subscribers : Locked(q)' => q # s /\ Locked(q)
    BY <1>1, <2>1 DEF Locked, NoSubscription
  <2> QED
    BY <1>1, <1>2, <2>1, <2>2 DEF Inv, SubscribersSound, Fits, Owned, Locked, NoSubscription
<1>4. CASE ~(e \notin Owned(u) /\ Cardinality(Owned(u)) >= MaxPerUser)
  <2>1. subscribe'[s] = [subscribe[s] EXCEPT !.pc = "locked"]
    BY <1>0, <1>4 DEF UpsertCounts, Inv, TypeOK
  <2>2. subscribe'[s].pc = "locked" /\ subscribe'[s].user = u /\ subscribe'[s].endpoint = e
    BY <1>0, <2>1 DEF Inv, TypeOK, Subscription
  <2>3. Cardinality(Owned(u) \cup {e}) <= MaxPerUser
    <3>1. Cardinality(Owned(u)) <= MaxPerUser
      BY DEF Inv, CapKept
    <3>2. /\ Cardinality(Owned(u)) \in Nat
          /\ Cardinality(Owned(u) \cup {e}) = IF e \in Owned(u) THEN Cardinality(Owned(u)) ELSE Cardinality(Owned(u)) + 1
      BY OwnedFinite
    <3> QED
      BY <1>4, <3>1, <3>2 DEF Sane
  <2>4. \A q \in Subscribers : Locked(q)' => q = s \/ (Locked(q) /\ subscribe[q].user # u)
    BY <1>0, <1>1 DEF Locked, UserFree
  <2>5. \A v : Owned(v)' = Owned(v)
    BY <1>1 DEF Owned
  <2>6. ASSUME NEW q \in Subscribers, Locked(q)' PROVE Fits(subscribe[q].user, subscribe[q].endpoint)'
    <3>1. CASE q = s
      BY <1>1, <2>2, <2>3, <3>1 DEF Fits, Owned
    <3>2. CASE q # s
      BY <1>1, <2>4, <2>6, <3>2 DEF Inv, SubscribersSound, Fits, Owned
    <3> QED
      BY <3>1, <3>2
  <2>7. ASSUME NEW q \in Subscribers, NEW p \in Subscribers \ {q}, Locked(q)', Locked(p)'
        PROVE  subscribe'[p].user # subscribe'[q].user
    BY <1>1, <2>2, <2>4, <2>7 DEF Inv, SubscribersSound
  <2>8. ASSUME NEW q \in Subscribers, subscribe'[q].pc # "idle"
        PROVE  subscribe'[q].user \in Users /\ subscribe'[q].endpoint \in Endpoints
    BY <1>1, <2>2, <2>8 DEF Inv, SubscribersSound
  <2> QED
    BY <1>2, <2>6, <2>7, <2>8 DEF SubscribersSound
<1> QED
  BY <1>3, <1>4

\* The endpoint goes to the user, within the cap that was checked, and from whoever had it.
LEMMA UpsertWritesKeeps ==
  ASSUME Sane, Inv, NEW s \in Subscribers, UpsertWrites(s)
  PROVE  SubscribersSound' /\ CapKept'
<1>1. PICK u \in Users, e \in Endpoints : /\ subscribe[s].user = u /\ subscribe[s].endpoint = e
                                          /\ Locked(s) /\ Fits(u, e)
  BY DEF UpsertWrites, Inv, SubscribersSound, Locked
<1>2. /\ owner' = [owner EXCEPT ![e] = u] /\ subscribe'[s] = NoSubscription
      /\ \A q \in Subscribers \ {s} : subscribe'[q] = subscribe[q]
  BY <1>1 DEF UpsertWrites, Inv, TypeOK
<1>3. Owned(u)' = Owned(u) \cup {e} /\ \A v \in Users \ {u} : Owned(v)' \subseteq Owned(v)
  BY <1>2 DEF Owned, Inv, TypeOK
<1>4. CapKept'
  BY <1>1, <1>3, Shrinks DEF CapKept, Fits
<1>5. \A q \in Subscribers : Locked(q)' => q # s /\ Locked(q)
  BY <1>2 DEF Locked, NoSubscription
<1>6. ASSUME NEW q \in Subscribers, Locked(q)' PROVE Fits(subscribe[q].user, subscribe[q].endpoint)'
  <2>1. PICK v \in Users, x \in Endpoints : /\ subscribe[q].user = v /\ subscribe[q].endpoint = x
                                            /\ v # u /\ Fits(v, x)
    BY <1>1, <1>5, <1>6 DEF Inv, SubscribersSound, Locked
  <2>2. Fits(v, x)'
    BY <1>3, <2>1, Shrinks
  <2> QED
    BY <1>2, <1>5, <1>6, <2>1, <2>2 DEF Fits
<1> QED
  BY <1>2, <1>4, <1>5, <1>6 DEF Inv, SubscribersSound, Locked, NoSubscription

LEMMA StepSubscriptions ==
  ASSUME Sane, Inv, Next
  PROVE  SubscribersSound' /\ CapKept'
<1>1. ASSUME UNCHANGED <<owner, subscribe>> PROVE SubscribersSound' /\ CapKept'
  BY <1>1, AllShrink DEF Owned
<1>2. ASSUME NEW n \in Notices, Count(n) \/ Publish(n) \/ \E u \in Senders : Notify(n, u)
      PROVE  UNCHANGED <<owner, subscribe>>
  BY <1>2 DEF Count, Publish, Notify
<1>3. ASSUME Cancel \/ Stop \/ StopReturns PROVE UNCHANGED <<owner, subscribe>>
  BY <1>3 DEF Cancel, Stop, StopReturns
<1>4. ASSUME NEW u \in Users, Mute(u) \/ \E v \in Users : Block(u, v) PROVE UNCHANGED <<owner, subscribe>>
  BY <1>4 DEF Mute, Block
<1>5. ASSUME NEW u \in Users, NEW E \in SUBSET Endpoints, Unsubscribe(u, E) PROVE SubscribersSound' /\ CapKept'
  <2>1. subscribe' = subscribe /\ \A v \in Users : Owned(v)' \subseteq Owned(v)
    BY <1>5 DEF Unsubscribe, Owned, Sane
  <2> QED
    BY <2>1, AllShrink
<1>6. ASSUME NEW w \in Workers, NEW gone \in BOOLEAN, Settle(w, gone) PROVE SubscribersSound' /\ CapKept'
  <2>1. subscribe' = subscribe /\ \A v \in Users : Owned(v)' \subseteq Owned(v)
    BY <1>6 DEF Settle, Owned, Sane, Inv, TypeOK
  <2> QED
    BY <2>1, AllShrink
<1>7. ASSUME NEW w \in Workers, WorkerStep(w)
      PROVE  UNCHANGED <<owner, subscribe>> \/ \E gone \in BOOLEAN : Settle(w, gone)
  BY <1>7 DEF WorkerStep, Take, List, Acquire, DeliveryTimeout, Send, WorkerEnds, Authorize
<1> QED
  BY <1>1, <1>2, <1>3, <1>4, <1>5, <1>6, <1>7, SubscribeKeeps, UpsertCountsKeeps, UpsertWritesKeeps DEF Next

-----------------------------------------------------------------------------
(* What the invariant gives. *)

LEMMA InitInv == ASSUME Sane, Init PROVE Inv
<1>1. TypeOK
  BY InitType
<1>2. WorkersSound /\ SubscribersSound /\ StopSound
  BY DEF Init, Idle, NoSubscription, WorkersSound, WorkerSound, SubscribersSound, Locked, StopSound
<1>3. At("counted") = {} /\ At("done") = {} /\ Len(jobs) = 0
  BY DEF Init, At, NoNote
<1>4. QueueSound
  BY <1>3 DEF QueueSound
<1>5. QueueAccounted
  <2>1. Cardinality(At("counted")) = 0 /\ Cardinality(At("done")) = 0
    BY <1>3, FS_EmptySet
  <2>2. depth = 0 /\ drops = 0 /\ taken = 0 /\ halt = "no"
    BY DEF Init
  <2> QED
    BY <1>3, <2>1, <2>2 DEF QueueAccounted, At
<1>6. CapKept
  BY DEF Init, CapKept, Owned
<1>7. HostsSpared
  <2>1. \A h : Sending(h) = {}
    BY DEF Init, Idle, Sending
  <2> QED
    BY <2>1, FS_EmptySet DEF HostsSpared, Sane
<1> QED
  BY <1>1, <1>2, <1>4, <1>5, <1>6, <1>7 DEF Inv

LEMMA StepInv == ASSUME Sane, Inv, [Next]_vars PROVE Inv'
<1>1. CASE Next
  BY <1>1, StepType, StepQueue, StepDeliveries, StepSubscriptions DEF Inv
<1>2. CASE UNCHANGED vars
  <2>1. TypeOK' /\ WorkersSound' /\ QueueSound'
    BY <1>2 DEF vars, Inv, TypeOK, WorkersSound, WorkerSound, Blocked, QueueSound
  <2>2. SubscribersSound' /\ StopSound'
    BY <1>2 DEF vars, Inv, SubscribersSound, Fits, Owned, Locked, StopSound, NoEnqueue
  <2>3. QueueAccounted' /\ CapKept' /\ HostsSpared'
    BY <1>2 DEF vars, Inv, QueueAccounted, CapKept, Owned, HostsSpared, Sending
  <2> QED
    BY <2>1, <2>2, <2>3 DEF Inv
<1> QED
  BY <1>1, <1>2

\* The inductive invariant holds in every reachable state.
THEOREM InvHolds == ASSUME Sane PROVE Spec => []Inv
<1>1. Init => Inv
  BY InitInv
<1>2. Inv /\ [Next]_vars => Inv'
  BY StepInv
<1> QED
  BY <1>1, <1>2, PTL DEF Spec

\* Nothing about what a user did is sent across a block that has been committed, however
\* long it waited in the queue or at a gate (push/notifier.go: deliverSubscription).
THEOREM NothingCrossesBlocks == ASSUME Sane PROVE Spec => NoPushAcrossBlock
<1> DEFINE Apart == \A w \in Workers : Send(w) => ~Blocked(worker[w].target.user, note[worker[w].job].sender)
<1>1. Inv => Apart
  BY DEF Inv, WorkersSound, WorkerSound, Send
<1>2. Inv /\ [Next]_vars => [Apart]_vars
  BY <1>1
<1> QED
  BY <1>2, InvHolds, PTL DEF Spec, NoPushAcrossBlock

\* Every notification that was let go was taken by a worker, waits in the queue, or was
\* counted as a drop; the gauge tells how many wait, and none is left when Stop has
\* returned (push/notifier.go: enqueue, Stop).
THEOREM EveryJobAccounted == ASSUME Sane PROVE Spec => []QueueAccounted
<1>1. Inv => QueueAccounted
  BY DEF Inv
<1> QED
  BY <1>1, InvHolds, PTL

\* Racing subscriptions, endpoints that change their owner and deletions leave nobody
\* with more subscriptions than the cap (push/store.go: Upsert).
THEOREM CapIsKept == ASSUME Sane PROVE Spec => []CapKept
<1>1. Inv => CapKept
  BY DEF Inv
<1> QED
  BY <1>1, InvHolds, PTL

\* No push service gets more sends at a time than its gate lets through
\* (push/notifier.go: hostSem).
THEOREM HostsAreSpared == ASSUME Sane PROVE Spec => []HostsSpared
<1>1. Inv => HostsSpared
  BY DEF Inv
<1> QED
  BY <1>1, InvHolds, PTL

-----------------------------------------------------------------------------
(* The rate limiter, for any policies, buckets, limits and keys. *)

CONSTANTS Policies, Buckets, Limit, Window, PerSecond, FailClosed, Clients, Capacity, Sample, MaxNow, MaxGrants

VARIABLES time, store, check, grants, lost, asked, advice

Limiter == INSTANCE RateLimiter

\* What the policies are: every bucket admits something for some time.
PoliciesSane ==
  /\ {Capacity, MaxNow, MaxGrants} \subseteq Nat /\ PerSecond \in Nat \ {0}
  /\ \A p \in Policies : Len(Buckets[p]) \in Nat
  /\ \A k \in Limiter!Key : Limit[k.bucket] \in Nat \ {0} /\ Window[k.bucket] \in Nat \ {0}

KeysBrought == UNION {[{Buckets[p][i] : i \in 1..Len(Buckets[p])} -> Clients] : p \in Policies}
Check == [policy: Policies, keys: KeysBrought, next: Nat \ {0}, pending: SUBSET Limiter!Key, wait: Nat, full: SUBSET Nat]

\* A key is brought for every bucket of the policy; a counter that was found with
\* room, or made, is still there with room, or has been evicted.
CheckSound ==
  check # None =>
    /\ check \in Check
    /\ check.keys \in [{Buckets[check.policy][i] : i \in 1..Len(Buckets[check.policy])} -> Clients]
    /\ \A k \in check.pending : k \in lost \/ (Limiter!Live(k) /\ store[k].count < Limit[k.bucket])
    /\ \A reset \in check.full : reset <= time + check.wait

\* A counter that lives has counted what was admitted, and one that was evicted is not there.
CountersTrue ==
  /\ \A k \in DOMAIN store : store[k] \in [count: Nat, reset: Nat] /\ k \notin lost
  /\ \A k \in DOMAIN store : Limiter!Live(k) => store[k].count = grants[k]

LimiterInv ==
  /\ Limiter!TypeOK /\ IsFiniteSet(DOMAIN store) /\ CheckSound /\ CountersTrue
  /\ Limiter!StoreBounded /\ Limiter!LimitsHold /\ Limiter!AdviceHonest

\* The module has its own instance of the cardinality.
LEMMA SameCardinality == ASSUME NEW S PROVE Limiter!Cardinality(S) = Cardinality(S)
  BY DEF Limiter!Cardinality, Cardinality, Limiter!IsFiniteSet, IsFiniteSet

\* Whole seconds, rounded up, are not less.
LEMMA RoundedUp ==
  ASSUME NEW d \in Nat, NEW p \in Nat \ {0}
  PROVE  ((d + p - 1) \div p) * p \in Nat /\ d <= ((d + p - 1) \div p) * p
<1> DEFINE q == (d + p - 1) \div p
<1>1. q \in Nat
  OBVIOUS
<1>2. d + p - 1 = q * p + ((d + p - 1) % p) /\ (d + p - 1) % p \in 0..(p - 1)
  OBVIOUS
<1> HIDE DEF q
<1>3. q * p \in Nat
  BY <1>1
<1> QED
  BY <1>1, <1>2, <1>3 DEF q

\* The bucket a check is at has a key, of the client the request brought for it.
LEMMA KeyInHand ==
  ASSUME PoliciesSane, CheckSound, Limiter!MoreBuckets
  PROVE  /\ Limiter!KeyNow \in Limiter!Key /\ Limiter!KeyNow.bucket = Limiter!BucketNow
         /\ Limit[Limiter!BucketNow] \in Nat \ {0} /\ Window[Limiter!BucketNow] \in Nat \ {0}
<1> DEFINE p == check.policy
<1>1. p \in Policies /\ check.next \in 1..Len(Buckets[p])
  BY DEF CheckSound, Check, PoliciesSane, Limiter!MoreBuckets
<1>2. check.keys \in [{Buckets[p][i] : i \in 1..Len(Buckets[p])} -> Clients]
  BY DEF CheckSound, Limiter!MoreBuckets
<1>3. Limiter!BucketNow \in {Buckets[p][i] : i \in 1..Len(Buckets[p])}
  BY <1>1 DEF Limiter!BucketNow
<1>4. check.keys[Limiter!BucketNow] \in Clients
  BY <1>2, <1>3
<1>5. Limiter!KeyNow \in Limiter!Key /\ Limiter!KeyNow.bucket = Limiter!BucketNow
  BY <1>1, <1>3, <1>4 DEF Limiter!KeyNow, Limiter!KeyOf, Limiter!Key
<1> QED
  BY <1>5 DEF PoliciesSane

\* The next bucket of a check.
LEMMA CheckNext ==
  ASSUME CheckSound, check # None, NEW P \in SUBSET Limiter!Key, NEW w \in Nat, NEW F \in SUBSET Nat,
         check' = [policy |-> check.policy, keys |-> check.keys, next |-> check.next + 1,
                   pending |-> P, wait |-> w, full |-> F]
  PROVE  /\ check' \in Check /\ check'.policy = check.policy /\ check'.keys = check.keys
         /\ check'.pending = P /\ check'.wait = w /\ check'.full = F
<1>1. check \in Check
  BY DEF CheckSound
<1>2. PICK p \in Policies, b \in KeysBrought, i \in Nat \ {0}, Q \in SUBSET Limiter!Key, v \in Nat, G \in SUBSET Nat :
        check = [policy |-> p, keys |-> b, next |-> i, pending |-> Q, wait |-> v, full |-> G]
  BY ONLY <1>1 DEF Check
<1>3. check' = [policy |-> p, keys |-> b, next |-> i + 1, pending |-> P, wait |-> w, full |-> F]
  BY <1>2
<1>4. check' \in Check
  BY ONLY <1>3, P \in SUBSET Limiter!Key, w \in Nat, F \in SUBSET Nat DEF Check
<1> QED
  BY ONLY <1>2, <1>3, <1>4

\* A counter is made: what goes for it has expired, or is noted as lost.
LEMMA Made ==
  ASSUME PoliciesSane, LimiterInv, Limiter!MoreBuckets, ~Limiter!Live(Limiter!KeyNow),
         NEW K, NEW E \in SUBSET K, E \subseteq DOMAIN store,
         \A k \in K : Limiter!Live(k) => k \in E,
         store' = Limiter!With(Limiter!Without(store, K), Limiter!KeyNow, Limiter!Fresh),
         Cardinality(DOMAIN store') <= Capacity,
         check' = Limiter!Passed, grants' = Limiter!Began, lost' = (lost \cup E) \ {Limiter!KeyNow},
         UNCHANGED <<time, asked, advice>>
  PROVE  LimiterInv'
<1> DEFINE n == Limiter!KeyNow
<1>1. n \in Limiter!Key /\ Limit[n.bucket] \in Nat \ {0} /\ Window[Limiter!BucketNow] \in Nat \ {0}
  BY KeyInHand DEF LimiterInv
<1>2. check # None /\ Limiter!TypeOK /\ CheckSound /\ CountersTrue /\ Limiter!LimitsHold
  BY DEF LimiterInv, Limiter!MoreBuckets
<1> HIDE DEF n
<1>3. time \in Nat /\ time' = time /\ grants \in [Limiter!Key -> Nat] /\ lost \subseteq Limiter!Key /\ DOMAIN store \subseteq Limiter!Key
  BY <1>2 DEF Limiter!TypeOK
<1>4. /\ DOMAIN store' = (DOMAIN store \ K) \cup {n}
      /\ store'[n] = [count |-> 0, reset |-> time + Window[Limiter!BucketNow]]
      /\ \A k \in DOMAIN store \ K : k # n => store'[k] = store[k]
  BY DEF Limiter!With, Limiter!Without, Limiter!Fresh, n
<1>5. grants' = [grants EXCEPT ![n] = 0] /\ lost' = (lost \cup E) \ {n}
  BY DEF Limiter!Began, n
<1>6. /\ check \in Check
      /\ check.pending \cup {n} \in SUBSET Limiter!Key /\ check.wait \in Nat /\ check.full \in SUBSET Nat
  BY <1>1, <1>2 DEF CheckSound, Check
<1>7. check' = [policy |-> check.policy, keys |-> check.keys, next |-> check.next + 1,
                pending |-> check.pending \cup {n}, wait |-> check.wait, full |-> check.full]
  <2>1. PICK p \in Policies, b \in KeysBrought, i \in Nat \ {0}, Q \in SUBSET Limiter!Key, v \in Nat, G \in SUBSET Nat :
          check = [policy |-> p, keys |-> b, next |-> i, pending |-> Q, wait |-> v, full |-> G]
    BY ONLY <1>6 DEF Check
  <2>2. check' = [check EXCEPT !.next = @ + 1, !.pending = @ \cup {n}]
    BY DEF Limiter!Passed, n
  <2>3. check' = [policy |-> p, keys |-> b, next |-> i + 1, pending |-> Q \cup {n}, wait |-> v, full |-> G]
    BY ONLY <2>1, <2>2
  <2> QED
    BY ONLY <2>1, <2>3
<1>8. /\ check' \in Check /\ check'.policy = check.policy /\ check'.keys = check.keys
      /\ check'.pending = check.pending \cup {n} /\ check'.wait = check.wait /\ check'.full = check.full
  BY <1>2, <1>6, <1>7, CheckNext
<1>9. Limiter!TypeOK'
  <2>1. time' \in 0..MaxNow /\ asked' \in 0..MaxGrants
    BY <1>2 DEF Limiter!TypeOK
  <2>2. \A k \in DOMAIN store' : store'[k].count \in 0..Limit[k.bucket] /\ store'[k].reset \in Nat
    BY <1>1, <1>2, <1>3, <1>4 DEF Limiter!TypeOK
  <2> QED
    BY <1>1, <1>3, <1>4, <1>5, <2>1, <2>2 DEF Limiter!TypeOK
<1>10. IsFiniteSet(DOMAIN store)'
  <2>1. IsFiniteSet(DOMAIN store \ K)
    <3>1. IsFiniteSet(DOMAIN store) /\ DOMAIN store \ K \subseteq DOMAIN store
      BY DEF LimiterInv
    <3> QED
      BY <3>1, FS_Subset
  <2> QED
    BY <1>4, <2>1, FS_AddElement
<1>11. CheckSound'
  <2>1. \A k \in check'.pending : k \in lost' \/ (Limiter!Live(k)' /\ store'[k].count < Limit[k.bucket])
    <3> SUFFICES ASSUME NEW k \in check.pending \cup {n}
                 PROVE  k \in lost' \/ (k \in DOMAIN store' /\ time' < store'[k].reset /\ store'[k].count < Limit[k.bucket])
      BY <1>8 DEF Limiter!Live
    <3>1. CASE k = n
      BY <3>1, <1>1, <1>3, <1>4
    <3>2. CASE k # n /\ k \in lost
      BY <3>2, <1>5
    <3>3. CASE k # n /\ k \notin lost
      <4>1. Limiter!Live(k) /\ store[k].count < Limit[k.bucket]
        BY <3>3, <1>2 DEF CheckSound
      <4>2. CASE k \in K
        BY <4>1, <4>2, <3>3, <1>5
      <4>3. CASE k \notin K
        BY <4>1, <4>3, <3>3, <1>3, <1>4 DEF Limiter!Live
      <4> QED
        BY <4>2, <4>3
    <3> QED
      BY <3>1, <3>2, <3>3
  <2>2. \A reset \in check'.full : reset <= time' + check'.wait
    BY <1>2, <1>3, <1>8 DEF CheckSound
  <2> QED
    BY <1>2, <1>8, <2>1, <2>2 DEF CheckSound
<1>12. CountersTrue'
  <2> SUFFICES ASSUME NEW k \in DOMAIN store'
               PROVE  /\ store'[k] \in [count: Nat, reset: Nat] /\ k \notin lost'
                      /\ time' < store'[k].reset => store'[k].count = grants'[k]
    BY DEF CountersTrue, Limiter!Live
  <2>1. CASE k = n
    BY <2>1, <1>1, <1>3, <1>4, <1>5
  <2>2. CASE k # n
    <3>1. k \in DOMAIN store /\ k \notin K /\ store'[k] = store[k] /\ grants'[k] = grants[k]
      BY <2>2, <1>3, <1>4, <1>5
    <3>2. k \notin lost'
      BY <3>1, <1>2, <1>5 DEF CountersTrue
    <3> QED
      BY <3>1, <3>2, <1>2, <1>3 DEF CountersTrue, Limiter!Live
  <2> QED
    BY <2>1, <2>2
<1>13. Limiter!LimitsHold'
  <2> SUFFICES ASSUME NEW k \in Limiter!Key
               PROVE  grants'[k] <= Limit[k.bucket] \/ k \in lost'
    BY DEF Limiter!LimitsHold
  <2>1. CASE k = n
    BY <2>1, <1>1, <1>3, <1>5
  <2>2. CASE k # n
    BY <2>2, <1>2, <1>3, <1>5 DEF Limiter!LimitsHold
  <2> QED
    BY <2>1, <2>2
<1>14. Limiter!StoreBounded' /\ Limiter!AdviceHonest'
  BY SameCardinality DEF LimiterInv, Limiter!StoreBounded, Limiter!AdviceHonest
<1> QED
  BY <1>9, <1>10, <1>11, <1>12, <1>13, <1>14 DEF LimiterInv

\* What a step has to keep of the counters, when it makes none.
LEMMA Counted ==
  ASSUME PoliciesSane, LimiterInv, DOMAIN store' \subseteq DOMAIN store,
         \A k \in DOMAIN store' : store'[k] = store[k],
         UNCHANGED <<grants, lost, asked>>, time' \in time..MaxNow
  PROVE  /\ Limiter!TypeOK' /\ IsFiniteSet(DOMAIN store)' /\ CountersTrue'
         /\ Limiter!StoreBounded' /\ Limiter!LimitsHold'
<1>1. time \in Nat /\ MaxNow \in Nat /\ Capacity \in Nat /\ Limiter!TypeOK /\ IsFiniteSet(DOMAIN store)
  BY DEF PoliciesSane, LimiterInv, Limiter!TypeOK
<1>2. Limiter!TypeOK'
  BY <1>1 DEF Limiter!TypeOK
<1>3. IsFiniteSet(DOMAIN store')
  BY <1>1, FS_Subset
<1>4. CountersTrue'
  BY <1>1 DEF LimiterInv, CountersTrue, Limiter!Live, Limiter!TypeOK
<1>5. Limiter!LimitsHold'
  BY DEF LimiterInv, Limiter!LimitsHold
<1>6. Limiter!StoreBounded'
  <2>1. Cardinality(DOMAIN store') <= Cardinality(DOMAIN store)
    BY <1>1, FS_Subset
  <2>2. Cardinality(DOMAIN store) <= Capacity
    BY SameCardinality DEF LimiterInv, Limiter!StoreBounded
  <2>3. Cardinality(DOMAIN store') \in Nat /\ Cardinality(DOMAIN store) \in Nat
    BY <1>1, <1>3, FS_CardinalityType
  <2>4. Cardinality(DOMAIN store') <= Capacity
    BY <1>1, <2>1, <2>2, <2>3
  <2> QED
    BY ONLY <2>4, SameCardinality DEF Limiter!StoreBounded
<1> QED
  BY <1>2, <1>3, <1>4, <1>5, <1>6

\* A counter that lives is admitted to the request, or the request will wait.
LEMMA ExistingStep ==
  ASSUME PoliciesSane, LimiterInv, Limiter!Existing
  PROVE  LimiterInv'
<1> DEFINE n == Limiter!KeyNow
<1> DEFINE c == store[n]
<1>1. Limiter!MoreBuckets /\ check # None /\ Limiter!TypeOK /\ CheckSound /\ CountersTrue
  BY DEF Limiter!Existing, Limiter!MoreBuckets, LimiterInv
<1>2. n \in Limiter!Key /\ n.bucket = Limiter!BucketNow /\ Limit[Limiter!BucketNow] \in Nat
  BY <1>1, KeyInHand
<1>3. n \in DOMAIN store /\ time < c.reset /\ UNCHANGED <<time, grants, lost, asked, advice>>
  BY DEF Limiter!Existing, Limiter!Live
<1>4. time \in Nat /\ c.count \in Nat /\ c.reset \in Nat /\ MaxNow \in Nat /\ time <= MaxNow
  BY <1>1, <1>3 DEF Limiter!TypeOK, CountersTrue, PoliciesSane
<1>5. PICK p \in Policies, b \in KeysBrought, i \in Nat \ {0}, Q \in SUBSET Limiter!Key, v \in Nat, G \in SUBSET Nat :
        check = [policy |-> p, keys |-> b, next |-> i, pending |-> Q, wait |-> v, full |-> G]
  <2>1. check \in Check
    BY <1>1 DEF CheckSound
  <2> QED
    BY ONLY <2>1 DEF Check
<1> HIDE DEF n
<1>6. CASE c.count < Limit[n.bucket]
  <2>1. store' = Limiter!With(store, n, c) /\ check' = [check EXCEPT !.next = @ + 1, !.pending = @ \cup {n}]
    BY <1>2, <1>6 DEF Limiter!Existing, Limiter!HasRoom, Limiter!Admit, n
  <2>2. check' = [policy |-> p, keys |-> b, next |-> i + 1, pending |-> Q \cup {n}, wait |-> v, full |-> G]
    BY ONLY <1>5, <2>1
  <2>3. DOMAIN store' = DOMAIN store /\ \A k \in DOMAIN store' : store'[k] = store[k]
    BY <1>3, <2>1 DEF Limiter!With
  <2>4. /\ Limiter!TypeOK' /\ IsFiniteSet(DOMAIN store)' /\ CountersTrue'
        /\ Limiter!StoreBounded' /\ Limiter!LimitsHold'
    BY <1>3, <1>4, <2>3, Counted
  <2>5. CheckSound'
    <3>1. check' \in Check
      BY ONLY <2>2, <1>2, <1>5 DEF Check
    <3>2. check'.policy = check.policy /\ check'.keys = check.keys
      BY ONLY <1>5, <2>2
    <3>3. \A k \in check'.pending : k \in lost \/ (Limiter!Live(k)' /\ store'[k].count < Limit[k.bucket])
      BY <1>1, <1>3, <1>5, <1>6, <2>2, <2>3 DEF CheckSound, Limiter!Live
    <3>4. \A reset \in check'.full : reset <= time' + check'.wait
      BY <1>1, <1>3, <1>5, <2>2 DEF CheckSound
    <3> QED
      BY <1>1, <1>3, <3>1, <3>2, <3>3, <3>4 DEF CheckSound
  <2> QED
    BY <2>4, <2>5, <1>3 DEF LimiterInv, Limiter!AdviceHonest
<1>7. CASE ~(c.count < Limit[n.bucket])
  <2> DEFINE w == Limiter!Longest(v, Limiter!RetryAfter(c.reset))
  <2>1. store' = store /\ check' = [check EXCEPT !.next = @ + 1, !.wait = Limiter!Longest(@, Limiter!RetryAfter(c.reset)), !.full = @ \cup {c.reset}]
    BY <1>2, <1>7 DEF Limiter!Existing, Limiter!HasRoom, Limiter!Full, n
  <2>2. w \in Nat /\ v <= w /\ c.reset <= time + w
    <3>1. Limiter!RetryAfter(c.reset) \in Nat /\ c.reset - time <= Limiter!RetryAfter(c.reset)
      <4>1. c.reset - time \in Nat /\ PerSecond \in Nat \ {0}
        BY <1>3, <1>4 DEF PoliciesSane
      <4> QED
        BY <4>1, RoundedUp DEF Limiter!RetryAfter
    <3> HIDE DEF c
    <3> QED
      BY <3>1, <1>4, <1>5 DEF Limiter!Longest
  <2> HIDE DEF w, c
  <2>3. check' = [policy |-> p, keys |-> b, next |-> i + 1, pending |-> Q, wait |-> w, full |-> G \cup {c.reset}]
    BY ONLY <1>5, <2>1 DEF w
  <2>4. /\ Limiter!TypeOK' /\ IsFiniteSet(DOMAIN store)' /\ CountersTrue'
        /\ Limiter!StoreBounded' /\ Limiter!LimitsHold'
    BY <1>3, <1>4, <2>1, Counted
  <2>5. CheckSound'
    <3>1. check' \in Check
      <4>1. G \cup {c.reset} \in SUBSET Nat
        BY <1>4, <1>5
      <4> QED
        BY ONLY <2>2, <2>3, <1>5, <4>1 DEF Check
    <3>2. check'.policy = check.policy /\ check'.keys = check.keys
      BY ONLY <1>5, <2>3
    <3>3. \A k \in check'.pending : k \in lost \/ (Limiter!Live(k)' /\ store'[k].count < Limit[k.bucket])
      BY <1>1, <1>3, <1>5, <2>1, <2>3 DEF CheckSound, Limiter!Live
    <3>4. \A reset \in check'.full : reset <= time' + check'.wait
      <4>1. \A reset \in G : reset \in Nat /\ reset <= time + v
        BY <1>1, <1>5 DEF CheckSound
      <4> QED
        BY <1>3, <1>4, <1>5, <2>2, <2>3, <4>1
    <3> QED
      BY <1>1, <1>3, <3>1, <3>2, <3>3, <3>4 DEF CheckSound
  <2> QED
    BY <2>4, <2>5, <1>3 DEF LimiterInv, Limiter!AdviceHonest
<1> QED
  BY <1>6, <1>7

\* A new counter finds room, perhaps after a sweep.
LEMMA CreateStep ==
  ASSUME PoliciesSane, LimiterInv, Limiter!Create
  PROVE  LimiterInv'
<1> DEFINE n == Limiter!KeyNow
<1>1. /\ Limiter!MoreBuckets /\ ~Limiter!Live(n) /\ check' = Limiter!Passed /\ grants' = Limiter!Began
      /\ lost' = (lost \cup {}) \ {n} /\ UNCHANGED <<time, asked, advice>>
  BY DEF Limiter!Create
<1>2. PICK s : /\ s \in {Limiter!Without(store, {n}), Limiter!Without(Limiter!Without(store, {n}), Limiter!Expired)}
               /\ Limiter!Cardinality(DOMAIN s) < Capacity /\ store' = Limiter!With(s, n, Limiter!Fresh)
  BY DEF Limiter!Create
<1>3. PICK K : /\ K \in {{n}, {n} \cup Limiter!Expired}
               /\ s = Limiter!Without(store, K)
  BY <1>2 DEF Limiter!Without
<1>4. \A k \in K : ~Limiter!Live(k)
  <2>1. \A k \in Limiter!Expired : ~Limiter!Live(k)
    BY DEF LimiterInv, Limiter!TypeOK, Limiter!Expired, Limiter!Live
  <2> QED
    BY <1>1, <1>3, <2>1
<1>5. Cardinality(DOMAIN store') <= Capacity
  <2>1. DOMAIN store' = DOMAIN s \cup {n} /\ DOMAIN s = DOMAIN store \ K /\ n \notin DOMAIN s
    BY <1>2, <1>3 DEF Limiter!With, Limiter!Without
  <2>2. IsFiniteSet(DOMAIN s)
    <3>1. IsFiniteSet(DOMAIN store) /\ DOMAIN s \subseteq DOMAIN store
      BY <2>1 DEF LimiterInv
    <3> QED
      BY <3>1, FS_Subset
  <2>3. Cardinality(DOMAIN s \cup {n}) = Cardinality(DOMAIN s) + 1
    BY <2>1, <2>2, FS_AddElement
  <2>4. Cardinality(DOMAIN s) < Capacity
    BY <1>2, SameCardinality
  <2>5. Cardinality(DOMAIN s) \in Nat /\ Capacity \in Nat
    BY <2>2, FS_CardinalityType DEF PoliciesSane
  <2> QED
    BY <2>1, <2>3, <2>4, <2>5
<1>6. PICK E \in SUBSET K : E = {}
  OBVIOUS
<1>7. E \subseteq DOMAIN store /\ lost' = (lost \cup E) \ {n} /\ \A k \in K : Limiter!Live(k) => k \in E
  BY <1>1, <1>4, <1>6
<1>8. store' = Limiter!With(Limiter!Without(store, K), n, Limiter!Fresh)
  BY <1>2, <1>3
<1> QED
  BY <1>1, <1>5, <1>7, <1>8, Made

\* A new counter takes the place of another.
LEMMA CreateEvictingStep ==
  ASSUME PoliciesSane, LimiterInv, NEW k \in DOMAIN store, Limiter!CreateEvicting(k)
  PROVE  LimiterInv'
<1> DEFINE n == Limiter!KeyNow
<1>1. /\ Limiter!MoreBuckets /\ ~Limiter!Live(n) /\ check' = Limiter!Passed /\ grants' = Limiter!Began
      /\ lost' = (lost \cup {k}) \ {n} /\ UNCHANGED <<time, asked, advice>>
  BY DEF Limiter!CreateEvicting, Limiter!StoreFull
<1>2. PICK K : K = Limiter!Expired \cup {k}
  OBVIOUS
<1>3. store' = Limiter!With(Limiter!Without(store, K), n, Limiter!Fresh)
  BY <1>2 DEF Limiter!CreateEvicting, Limiter!Evicted
<1>4. \A x \in K : Limiter!Live(x) => x \in {k}
  BY <1>2 DEF LimiterInv, Limiter!TypeOK, Limiter!Expired, Limiter!Live
<1>5. Cardinality(DOMAIN store') <= Capacity
  <2>1. DOMAIN store' \subseteq (DOMAIN store \ {k}) \cup {n}
    BY <1>2, <1>3 DEF Limiter!With, Limiter!Without
  <2>2. IsFiniteSet(DOMAIN store) /\ Cardinality(DOMAIN store) <= Capacity
    BY SameCardinality DEF LimiterInv, Limiter!StoreBounded
  <2>3. IsFiniteSet(DOMAIN store \ {k}) /\ Cardinality(DOMAIN store \ {k}) = Cardinality(DOMAIN store) - 1
    BY <2>2, FS_RemoveElement
  <2>4. /\ IsFiniteSet((DOMAIN store \ {k}) \cup {n})
        /\ Cardinality((DOMAIN store \ {k}) \cup {n}) \in {Cardinality(DOMAIN store), Cardinality(DOMAIN store) - 1}
    <3>1. Cardinality(DOMAIN store) \in Nat
      BY <2>2, FS_CardinalityType
    <3> QED
      BY <2>3, <3>1, FS_AddElement
  <2>5. Cardinality(DOMAIN store') <= Cardinality((DOMAIN store \ {k}) \cup {n}) /\ IsFiniteSet(DOMAIN store')
    BY <2>1, <2>4, FS_Subset
  <2>6. Cardinality(DOMAIN store) \in Nat /\ Cardinality(DOMAIN store') \in Nat /\ Capacity \in Nat
    BY <2>2, <2>5, FS_CardinalityType DEF PoliciesSane
  <2> QED
    BY <2>2, <2>4, <2>5, <2>6
<1> QED
  BY <1>1, <1>2, <1>3, <1>4, <1>5, Made

\* A request that is let in is counted under every key it brings.
LEMMA GrantStep ==
  ASSUME PoliciesSane, LimiterInv, Limiter!Grant
  PROVE  LimiterInv'
<1>1. /\ check # None /\ check' = None /\ UNCHANGED <<time, lost, asked, advice>>
      /\ Limiter!TypeOK /\ CheckSound /\ CountersTrue /\ Limiter!LimitsHold
  BY DEF Limiter!Grant, LimiterInv
<1>2. /\ DOMAIN store' = DOMAIN store
      /\ \A k \in DOMAIN store : store'[k] = IF k \in check.pending THEN [store[k] EXCEPT !.count = @ + 1] ELSE store[k]
      /\ grants' = [k \in Limiter!Key |-> IF k \in check.pending THEN grants[k] + 1 ELSE grants[k]]
  BY DEF Limiter!Grant
<1>3. /\ grants \in [Limiter!Key -> Nat] /\ DOMAIN store \subseteq Limiter!Key
      /\ \A k \in DOMAIN store : store[k] \in [count: Nat, reset: Nat] /\ store[k].count <= Limit[k.bucket]
      /\ \A k \in Limiter!Key : Limit[k.bucket] \in Nat
  BY <1>1 DEF Limiter!TypeOK, CountersTrue, PoliciesSane
<1>4. /\ check.pending \subseteq Limiter!Key
      /\ \A k \in check.pending : k \in lost \/ (Limiter!Live(k) /\ store[k].count < Limit[k.bucket])
  BY <1>1 DEF CheckSound, Check
<1>5. /\ \A k \in DOMAIN store : k \notin lost
      /\ \A k \in DOMAIN store : Limiter!Live(k) => store[k].count = grants[k]
  BY <1>1 DEF CountersTrue
<1>6. \A k \in DOMAIN store \cap check.pending :
        /\ store'[k] = [count |-> store[k].count + 1, reset |-> store[k].reset]
        /\ store[k].count < Limit[k.bucket] /\ store[k].count = grants[k]
  BY <1>2, <1>3, <1>4, <1>5
<1>7. \A k \in DOMAIN store \ check.pending : store'[k] = store[k]
  BY <1>2
<1>8. \A k \in DOMAIN store' : /\ store'[k] \in [count: Nat, reset: Nat] /\ store'[k].count <= Limit[k.bucket]
                               /\ store'[k].reset = store[k].reset
  BY <1>2, <1>3, <1>6, <1>7
<1>9. Limiter!TypeOK'
  <2>1. time' \in 0..MaxNow /\ asked' \in 0..MaxGrants /\ lost' \subseteq Limiter!Key
    BY <1>1 DEF Limiter!TypeOK
  <2>2. grants' \in [Limiter!Key -> Nat]
    BY <1>2, <1>3
  <2> QED
    BY <1>2, <1>3, <1>8, <2>1, <2>2 DEF Limiter!TypeOK
<1>10. CountersTrue'
  <2> SUFFICES ASSUME NEW k \in DOMAIN store'
               PROVE  /\ store'[k] \in [count: Nat, reset: Nat] /\ k \notin lost'
                      /\ time' < store'[k].reset => store'[k].count = grants'[k]
    BY DEF CountersTrue, Limiter!Live
  <2>1. CASE k \in check.pending
    BY <2>1, <1>1, <1>2, <1>3, <1>5, <1>6, <1>8
  <2>2. CASE k \notin check.pending
    BY <2>2, <1>1, <1>2, <1>3, <1>5, <1>7, <1>8 DEF Limiter!Live
  <2> QED
    BY <2>1, <2>2
<1>11. Limiter!LimitsHold'
  <2> SUFFICES ASSUME NEW k \in Limiter!Key
               PROVE  grants'[k] <= Limit[k.bucket] \/ k \in lost'
    BY DEF Limiter!LimitsHold
  <2>1. CASE k \in check.pending /\ k \notin lost
    <3>1. k \in DOMAIN store \cap check.pending
      BY <2>1, <1>4 DEF Limiter!Live
    <3> QED
      BY <3>1, <1>2, <1>3, <1>6
  <2>2. CASE k \notin check.pending
    BY <2>2, <1>1, <1>2, <1>3 DEF Limiter!LimitsHold
  <2> QED
    BY <2>1, <2>2, <1>1
<1> QED
  BY <1>1, <1>2, <1>9, <1>10, <1>11 DEF LimiterInv, Limiter!StoreBounded, Limiter!AdviceHonest, CheckSound

\* A request takes the lock with nothing counted.
LEMMA BeginStep ==
  ASSUME PoliciesSane, LimiterInv, NEW p \in Policies,
         NEW keys \in [{Buckets[p][i] : i \in 1..Len(Buckets[p])} -> Clients], Limiter!Begin(p, keys)
  PROVE  LimiterInv'
<1>1. /\ check' = [policy |-> p, keys |-> keys, next |-> 1, pending |-> {}, wait |-> 0, full |-> {}]
      /\ UNCHANGED <<time, store, grants, lost, advice>> /\ asked < MaxGrants /\ asked' = asked + 1
  BY DEF Limiter!Begin
<1>2. CheckSound'
  <2>1. keys \in KeysBrought
    BY DEF KeysBrought
  <2>2. check' \in Check
    BY ONLY <1>1, <2>1, p \in Policies DEF Check
  <2> QED
    BY <1>1, <2>2 DEF CheckSound
<1>3. Limiter!TypeOK'
  BY <1>1 DEF LimiterInv, Limiter!TypeOK, PoliciesSane
<1>4. CountersTrue'
  BY <1>1 DEF LimiterInv, CountersTrue, Limiter!Live
<1> QED
  BY <1>1, <1>2, <1>3, <1>4 DEF LimiterInv, Limiter!StoreBounded, Limiter!LimitsHold, Limiter!AdviceHonest

\* The lock is let go, or nobody holds it, and counters that have expired may go.
LEMMA IdleStep ==
  ASSUME PoliciesSane, LimiterInv, Limiter!RefuseFull \/ Limiter!Reject \/ Limiter!Sweep \/ Limiter!Tick
  PROVE  LimiterInv'
<1>1. /\ check' = None /\ DOMAIN store' \subseteq DOMAIN store /\ \A k \in DOMAIN store' : store'[k] = store[k]
      /\ UNCHANGED <<grants, lost, asked>>
  BY DEF Limiter!RefuseFull, Limiter!Reject, Limiter!Sweep, Limiter!Tick, Limiter!Without
<1>2. time' \in time..MaxNow
  BY DEF LimiterInv, Limiter!TypeOK, PoliciesSane, Limiter!RefuseFull, Limiter!Reject, Limiter!Sweep, Limiter!Tick
<1>3. Limiter!AdviceHonest'
  <2>1. CASE Limiter!Reject
    <3>1. advice' = [resets |-> check.full, until |-> time + check.wait] /\ check # None
      BY <2>1 DEF Limiter!Reject
    <3>2. \A reset \in check.full : reset <= time + check.wait
      BY <3>1 DEF LimiterInv, CheckSound
    <3> QED
      BY <3>1, <3>2 DEF Limiter!AdviceHonest
  <2>2. CASE UNCHANGED advice
    BY <2>2 DEF LimiterInv, Limiter!AdviceHonest
  <2> QED
    BY <2>1, <2>2 DEF Limiter!RefuseFull, Limiter!Sweep, Limiter!Tick
<1> QED
  BY <1>1, <1>2, <1>3, Counted DEF LimiterInv, CheckSound

\* Every step of the limiter keeps the invariant.
LEMMA LimiterStep ==
  ASSUME PoliciesSane, LimiterInv, [Limiter!Next]_Limiter!vars
  PROVE  LimiterInv'
<1>1. CASE UNCHANGED Limiter!vars
  BY <1>1 DEF Limiter!vars, LimiterInv, Limiter!TypeOK, CheckSound, CountersTrue, Limiter!Live,
              Limiter!StoreBounded, Limiter!LimitsHold, Limiter!AdviceHonest
<1>2. CASE \E p \in Policies : \E keys \in [{Buckets[p][i] : i \in 1..Len(Buckets[p])} -> Clients] : Limiter!Begin(p, keys)
  BY <1>2, BeginStep
<1>3. CASE \E k \in DOMAIN store : Limiter!CreateEvicting(k)
  BY <1>3, CreateEvictingStep
<1> QED
  BY <1>1, <1>2, <1>3, ExistingStep, CreateStep, GrantStep, IdleStep DEF Limiter!Next

\* The invariant of the limiter's lock and counters (middleware/limiter.go: allow).
THEOREM LimiterInvariant ==
  ASSUME PoliciesSane PROVE Limiter!Spec => []LimiterInv
<1>1. Limiter!Init => LimiterInv
  <2> SUFFICES ASSUME Limiter!Init PROVE LimiterInv
    OBVIOUS
  <2>1. DOMAIN store = {} /\ check = None /\ advice = None /\ time = 0 /\ asked = 0 /\ lost = {}
    BY DEF Limiter!Init
  <2>2. grants = [k \in Limiter!Key |-> 0]
    BY DEF Limiter!Init
  <2>3. Limiter!TypeOK /\ Limiter!LimitsHold
    BY <2>1, <2>2 DEF Limiter!TypeOK, Limiter!LimitsHold, PoliciesSane
  <2>4. IsFiniteSet(DOMAIN store) /\ Cardinality(DOMAIN store) = 0
    BY <2>1, FS_EmptySet
  <2>5. Limiter!StoreBounded
    BY <2>4, SameCardinality DEF Limiter!StoreBounded, PoliciesSane
  <2> QED
    BY <2>1, <2>3, <2>4, <2>5 DEF LimiterInv, CheckSound, CountersTrue, Limiter!AdviceHonest
<1> QED
  BY <1>1, LimiterStep, PTL DEF Limiter!Spec

\* Whatever the requests of one check bring, and whichever counters make room for
\* others in the middle of it, a window admits no more than its limit, but for keys
\* whose counter was evicted (middleware/limiter.go: allow, evictExpiringLocked).
THEOREM WindowsHold == ASSUME PoliciesSane PROVE Limiter!Spec => []Limiter!LimitsHold
<1>1. LimiterInv => Limiter!LimitsHold
  BY DEF LimiterInv
<1> QED
  BY <1>1, LimiterInvariant, PTL

\* The store of counters never outgrows its capacity (middleware/limiter.go).
THEOREM StoreIsBounded == ASSUME PoliciesSane PROVE Limiter!Spec => []Limiter!StoreBounded
<1>1. LimiterInv => Limiter!StoreBounded
  BY DEF LimiterInv
<1> QED
  BY <1>1, LimiterInvariant, PTL

\* A request that one of its buckets refuses has used up nothing of the others
\* (middleware/limiter.go: the two phases of allow).
THEOREM RefusalIsFree == ASSUME PoliciesSane PROVE Limiter!Spec => []Limiter!RefusedIsFree
<1>1. LimiterInv => Limiter!RefusedIsFree
  BY DEF LimiterInv, CountersTrue, Limiter!RefusedIsFree
<1> QED
  BY <1>1, LimiterInvariant, PTL

\* The time a client is told to wait is over only when every window that refused it
\* is (middleware/limiter.go: retryAfterDuration).
THEOREM AdviceIsHonest == ASSUME PoliciesSane PROVE Limiter!Spec => []Limiter!AdviceHonest
<1>1. LimiterInv => Limiter!AdviceHonest
  BY DEF LimiterInv
<1> QED
  BY <1>1, LimiterInvariant, PTL

-----------------------------------------------------------------------------
(* MapPins: the unlocks of a player, for any catalog of sane criteria. *)

CONSTANTS Me, Scenarios, Calls
VARIABLES scenario, log, clock, enabled, shelf, unlocked, equipped, call, due, merits
Pins == INSTANCE MapPins WITH active <- enabled, owed <- due

Below == {p \in Nat \X Nat : p[1] < p[2]}

\* What holds of 0 and climbs holds up to N.
LEMMA Climb ==
  ASSUME NEW N \in Nat, NEW G, 0 \in G, \A n \in 0..(N - 1) : n \in G => n + 1 \in G
  PROVE  \A n \in 0..N : n \in G
<1> DEFINE T == {n \in 0..N : n \notin G}
<1>1. IsWellFoundedOn(Below, Nat)
  BY NatLessThanWellFounded DEF OpToRel, Below
<1>2. ASSUME T # {} PROVE FALSE
  <2>1. T \subseteq Nat
    OBVIOUS
  <2>2. PICK x \in T : \A y \in T : <<y, x>> \notin Below
    <3> HIDE DEF T
    <3> QED
      BY <1>1, <1>2, <2>1, WFMin
  <2>3. x \in Nat /\ x # 0 /\ x <= N
    BY <2>2
  <2>4. x - 1 \in 0..(N - 1) /\ <<x - 1, x>> \in Below
    BY <2>3 DEF Below
  <2>5. x - 1 \in G
    BY <2>2, <2>4
  <2> QED
    BY <2>2, <2>3, <2>4, <2>5
<1> QED
  BY <1>2

\* A recursion over 1..N has a solution, from 0, and one only.
LEMMA Solved ==
  ASSUME NEW N \in Nat, NEW h \in [1..N -> [Nat -> Nat]]
  PROVE  \E f \in [0..N -> Nat] :
           /\ f[0] = 0 /\ \A n \in 1..N : f[n] = h[n][f[n - 1]]
           /\ \A g : g[0] = 0 /\ (\A n \in 1..N : g[n - 1] \in Nat => g[n] = h[n][g[n - 1]]) => \A n \in 0..N : g[n] = f[n]
<1> DEFINE Sol(f, m) == f[0] = 0 /\ \A n \in 1..m : f[n] = h[n][f[n - 1]]
           G == {m \in 0..N : \E f \in [0..N -> Nat] : Sol(f, m)}
<1>1. 0 \in G
  <2> DEFINE f == [n \in 0..N |-> 0]
  <2>1. f \in [0..N -> Nat] /\ Sol(f, 0) /\ 0 \in 0..N
    OBVIOUS
  <2> QED
    BY <2>1
<1>2. ASSUME NEW m \in 0..(N - 1), m \in G PROVE m + 1 \in G
  <2>1. PICK f \in [0..N -> Nat] : Sol(f, m)
    BY <1>2
  <2> DEFINE v == h[m + 1][f[m]]
             g == [f EXCEPT ![m + 1] = v]
  <2>2. v \in Nat /\ m + 1 \in 1..N /\ m \in 0..N
    <3>1. m + 1 \in 1..N /\ m \in 0..N
      OBVIOUS
    <3>2. f[m] \in Nat /\ h[m + 1] \in [Nat -> Nat]
      BY <3>1
    <3> QED
      BY <3>1, <3>2
  <2>3. g \in [0..N -> Nat]
    BY <2>2
  <2>4. ASSUME NEW n \in 1..(m + 1) PROVE g[n] = h[n][g[n - 1]]
    <3>1. CASE n = m + 1
      <4>1. g[n] = v /\ n - 1 = m /\ g[m] = f[m]
        BY <2>2, <3>1
      <4> QED
        BY <3>1, <4>1
    <3>2. CASE n # m + 1
      <4>1. n \in 1..m /\ n \in 0..N /\ n - 1 \in 0..N /\ n - 1 # m + 1
        BY <3>2
      <4>2. g[n] = f[n] /\ g[n - 1] = f[n - 1]
        BY <2>2, <3>2, <4>1
      <4> QED
        BY <2>1, <4>1, <4>2
    <3> QED
      BY <3>1, <3>2
  <2>5. g[0] = 0
    BY <2>1, <2>2
  <2>6. Sol(g, m + 1) /\ m + 1 \in 0..N
    BY <2>2, <2>4, <2>5
  <2> HIDE DEF g, Sol
  <2> QED
    BY <2>3, <2>6
<1>3. N \in G
  <2> HIDE DEF G
  <2>1. \A m \in 0..(N - 1) : m \in G => m + 1 \in G
    BY <1>2
  <2>2. \A m \in 0..N : m \in G
    BY <1>1, <2>1, Climb
  <2> QED
    BY <2>2
<1>4. PICK f \in [0..N -> Nat] : Sol(f, N)
  BY <1>3
<1>5. ASSUME NEW g, g[0] = 0, \A n \in 1..N : g[n - 1] \in Nat => g[n] = h[n][g[n - 1]]
      PROVE  \A n \in 0..N : g[n] = f[n]
  <2> DEFINE H == {n \in 0..N : g[n] = f[n]}
  <2>1. 0 \in H
    BY <1>4, <1>5
  <2>2. ASSUME NEW n \in 0..(N - 1), n \in H PROVE n + 1 \in H
    <3>1. n + 1 \in 1..N /\ n \in 0..N /\ (n + 1) - 1 = n
      OBVIOUS
    <3>2. g[n] = f[n] /\ f[n] \in Nat
      BY <2>2, <3>1
    <3>3. g[n + 1] = h[n + 1][g[n]] /\ f[n + 1] = h[n + 1][f[n]]
      BY <1>4, <1>5, <3>1, <3>2
    <3> QED
      BY <3>1, <3>2, <3>3
  <2>3. \A n \in 0..N : n \in H
    <3> HIDE DEF H
    <3> QED
      BY <2>1, <2>2, Climb
  <2> QED
    BY <2>3
<1> QED
  BY <1>4, <1>5

\* What Tally adds up, place by place.
IsTally(sum, points) ==
  sum = [n \in 0..Len(points) |-> IF n = 0 THEN 0 ELSE sum[n - 1] + points[n]]

LEMMA TallyDefined ==
  ASSUME NEW points \in Seq(Nat)
  PROVE  \E sum \in [0..Len(points) -> Nat] :
           /\ Pins!Tally(points) = sum[Len(points)]
           /\ sum[0] = 0 /\ \A n \in 1..Len(points) : sum[n] = sum[n - 1] + points[n]
<1> DEFINE N == Len(points)
           h == [n \in 1..N |-> [a \in Nat |-> a + points[n]]]
           sum == CHOOSE s : IsTally(s, points)
<1>1. N \in Nat /\ \A n \in 1..N : points[n] \in Nat
  OBVIOUS
<1>2. h \in [1..N -> [Nat -> Nat]]
  BY <1>1
<1>3. PICK f \in [0..N -> Nat] :
           /\ f[0] = 0 /\ \A n \in 1..N : f[n] = h[n][f[n - 1]]
           /\ \A g : g[0] = 0 /\ (\A n \in 1..N : g[n - 1] \in Nat => g[n] = h[n][g[n - 1]]) => \A n \in 0..N : g[n] = f[n]
  <2> HIDE DEF N, h
  <2> QED
    BY <1>1, <1>2, Solved
<1>4. ASSUME NEW n \in 1..N PROVE f[n] = f[n - 1] + points[n]
  <2>1. n - 1 \in 0..N /\ f[n - 1] \in Nat
    <3> HIDE DEF h, sum, N
    <3>1. N \in Nat
      BY <1>1
    <3> QED
      BY <3>1
  <2>2. f[n] = h[n][f[n - 1]]
    BY <1>3
  <2> QED
    BY <2>1, <2>2
<1>5. IsTally(f, points)
  <2> HIDE DEF h
  <2>1. ASSUME NEW n \in 0..N PROVE f[n] = IF n = 0 THEN 0 ELSE f[n - 1] + points[n]
    BY <1>1, <1>3, <1>4
  <2> QED
    BY <2>1 DEF IsTally
<1>6. IsTally(sum, points)
  BY <1>5
<1>7. Pins!Tally(points) = sum[N]
  BY DEF Pins!Tally, IsTally
<1>8. \A n \in 0..N : sum[n] = f[n]
  <2> HIDE DEF sum
  <2>1. sum[0] = 0
    BY <1>1, <1>6 DEF IsTally
  <2>2. ASSUME NEW n \in 1..N, sum[n - 1] \in Nat PROVE sum[n] = h[n][sum[n - 1]]
    <3>1. h[n][sum[n - 1]] = sum[n - 1] + points[n]
      BY <2>2
    <3>2. sum[n] = sum[n - 1] + points[n]
      <4> HIDE DEF h
      <4> QED
        BY <1>1, <1>6 DEF IsTally
    <3> QED
      BY <3>1, <3>2
  <2>3. \A n \in 1..N : sum[n - 1] \in Nat => sum[n] = h[n][sum[n - 1]]
    BY <2>2
  <2> HIDE DEF h, N
  <2> QED
    BY <1>3, <2>1, <2>3
<1>9. Pins!Tally(points) = f[N]
  BY <1>1, <1>7, <1>8
<1> HIDE DEF h, sum
<1> QED
  BY <1>3, <1>4, <1>9

\* What the loop counts, place by place.
IsRun(run, verdicts, goal) ==
  run = [n \in 0..Len(verdicts) |->
          IF n = 0 THEN 0
          ELSE IF verdicts[n] = "other" \/ run[n - 1] >= goal THEN run[n - 1]
          ELSE IF verdicts[n] = "breaks" THEN 0 ELSE run[n - 1] + 1]

\* The count after a verdict.
Onward(count, verdict, goal) ==
  IF verdict = "other" \/ count >= goal THEN count ELSE IF verdict = "breaks" THEN 0 ELSE count + 1

LEMMA StreakDefined ==
  ASSUME NEW V, NEW verdicts \in Seq(V), NEW goal \in Nat
  PROVE  \E run \in [0..Len(verdicts) -> Nat] :
           /\ Pins!Streak(verdicts, goal) = run[Len(verdicts)]
           /\ run[0] = 0 /\ \A n \in 1..Len(verdicts) : run[n] = Onward(run[n - 1], verdicts[n], goal)
<1> DEFINE N == Len(verdicts)
           h == [n \in 1..N |-> [a \in Nat |-> Onward(a, verdicts[n], goal)]]
           run == CHOOSE s : IsRun(s, verdicts, goal)
<1>1. N \in Nat
  OBVIOUS
<1>2. h \in [1..N -> [Nat -> Nat]]
  BY <1>1 DEF Onward
<1>3. PICK f \in [0..N -> Nat] :
           /\ f[0] = 0 /\ \A n \in 1..N : f[n] = h[n][f[n - 1]]
           /\ \A g : g[0] = 0 /\ (\A n \in 1..N : g[n - 1] \in Nat => g[n] = h[n][g[n - 1]]) => \A n \in 0..N : g[n] = f[n]
  <2> HIDE DEF N, h
  <2> QED
    BY <1>1, <1>2, Solved
<1>4. ASSUME NEW n \in 1..N PROVE f[n] = Onward(f[n - 1], verdicts[n], goal)
  <2>1. n - 1 \in 0..N /\ f[n - 1] \in Nat
    BY <1>1
  <2>2. f[n] = h[n][f[n - 1]]
    BY <1>3
  <2> QED
    BY <2>1, <2>2
<1>5. IsRun(f, verdicts, goal)
  <2> HIDE DEF h
  <2>1. ASSUME NEW n \in 0..N
        PROVE  f[n] = IF n = 0 THEN 0
                      ELSE IF verdicts[n] = "other" \/ f[n - 1] >= goal THEN f[n - 1]
                      ELSE IF verdicts[n] = "breaks" THEN 0 ELSE f[n - 1] + 1
    BY <1>1, <1>3, <1>4 DEF Onward
  <2> QED
    BY <2>1 DEF IsRun
<1>6. IsRun(run, verdicts, goal)
  BY <1>5
<1>7. Pins!Streak(verdicts, goal) = run[N]
  BY DEF Pins!Streak, IsRun
<1>8. \A n \in 0..N : run[n] = f[n]
  <2> HIDE DEF run
  <2>1. run[0] = 0
    BY <1>1, <1>6 DEF IsRun
  <2>2. ASSUME NEW n \in 1..N, run[n - 1] \in Nat PROVE run[n] = h[n][run[n - 1]]
    <3>1. h[n][run[n - 1]] = Onward(run[n - 1], verdicts[n], goal)
      BY <2>2
    <3>2. run[n] = Onward(run[n - 1], verdicts[n], goal)
      <4> HIDE DEF h
      <4>1. n \in 0..N /\ n # 0
        BY <1>1
      <4> QED
        BY <1>6, <4>1 DEF IsRun, Onward
    <3> QED
      BY <3>1, <3>2
  <2>3. \A n \in 1..N : run[n - 1] \in Nat => run[n] = h[n][run[n - 1]]
    BY <2>2
  <2> HIDE DEF h, N
  <2> QED
    BY <1>3, <2>1, <2>3
<1>9. Pins!Streak(verdicts, goal) = f[N]
  BY <1>1, <1>7, <1>8
<1> HIDE DEF h, run
<1> QED
  BY <1>3, <1>4, <1>9

\* More points, or as many, make no less.
LEMMA TallyGrows ==
  ASSUME NEW p \in Seq(Nat), NEW q \in Seq(Nat),
         \A i \in 1..Len(p) : p[i] # 0 => i <= Len(q) /\ p[i] <= q[i]
  PROVE  Pins!Tally(p) \in Nat /\ Pins!Tally(q) \in Nat /\ Pins!Tally(p) <= Pins!Tally(q)
<1>1. PICK s \in [0..Len(p) -> Nat] :
        /\ Pins!Tally(p) = s[Len(p)]
        /\ s[0] = 0 /\ \A n \in 1..Len(p) : s[n] = s[n - 1] + p[n]
  BY TallyDefined
<1>2. PICK t \in [0..Len(q) -> Nat] :
        /\ Pins!Tally(q) = t[Len(q)]
        /\ t[0] = 0 /\ \A n \in 1..Len(q) : t[n] = t[n - 1] + q[n]
  BY TallyDefined
<1> DEFINE P == Len(p)
           Q == Len(q)
           Upto(n) == IF n <= Q THEN n ELSE Q
           G == {n \in 0..P : s[n] <= t[Upto(n)]}
           H == {n \in 0..Q : P <= n => s[P] <= t[n]}
<1>3. P \in Nat /\ Q \in Nat /\ (\A i \in 1..P : p[i] \in Nat) /\ (\A i \in 1..Q : q[i] \in Nat)
  OBVIOUS
<1>4. \A n \in 0..P : n \in G
  <2>1. 0 \in G
    BY <1>1, <1>2, <1>3
  <2>2. ASSUME NEW n \in 0..(P - 1), n \in G PROVE n + 1 \in G
    <3>1. n + 1 \in 1..P /\ n \in 0..P /\ (n + 1) - 1 = n /\ Upto(n) \in 0..Q /\ Upto(n + 1) \in 0..Q
      BY <1>3
    <3>2. s[n] \in Nat /\ t[Upto(n)] \in Nat /\ t[Upto(n + 1)] \in Nat /\ p[n + 1] \in Nat
      BY <1>3, <3>1
    <3>3. s[n] <= t[Upto(n)]
      BY <2>2
    <3>4. s[n + 1] = s[n] + p[n + 1]
      BY <1>1, <3>1
    <3>5. CASE n + 1 <= Q
      <4>1. n + 1 \in 1..Q /\ Upto(n) = n /\ Upto(n + 1) = n + 1 /\ q[n + 1] \in Nat
        BY <1>3, <3>1, <3>5
      <4>2. t[n + 1] = t[n] + q[n + 1]
        BY <1>2, <3>1, <4>1
      <4>3. p[n + 1] <= q[n + 1]
        BY <3>1, <3>2, <4>1
      <4>4. s[n + 1] <= t[Upto(n + 1)]
        <5>1. \A a, b, x, y \in Nat : a <= b /\ x <= y => a + x <= b + y
          OBVIOUS
        <5>2. s[n] \in Nat /\ t[n] \in Nat /\ s[n] <= t[n]
          BY <3>2, <3>3, <4>1
        <5>3. s[n] + p[n + 1] <= t[n] + q[n + 1]
          BY <3>2, <4>1, <4>3, <5>1, <5>2
        <5> HIDE DEF G, H
        <5> QED
          BY <3>4, <4>1, <4>2, <5>3
      <4> QED
        BY <3>1, <4>4
    <3>6. CASE ~(n + 1 <= Q)
      <4>1. Upto(n) = Q /\ Upto(n + 1) = Q
        BY <1>3, <3>1, <3>6
      <4>2. p[n + 1] = 0
        BY <3>1, <3>6
      <4>3. s[n + 1] <= t[Upto(n + 1)]
        BY <3>2, <3>3, <3>4, <4>1, <4>2
      <4> QED
        BY <3>1, <4>3
    <3> QED
      BY <3>5, <3>6
  <2> HIDE DEF G, P
  <2> QED
    BY <1>3, <2>1, <2>2, Climb
<1>5. s[P] <= t[Upto(P)]
  BY <1>3, <1>4
<1>6. ASSUME Q <= P PROVE s[P] <= t[Q]
  <2>1. Upto(P) = Q
    BY <1>3, <1>6
  <2> QED
    BY <1>5, <2>1
<1>7. ASSUME P <= Q PROVE s[P] <= t[Q]
  <2>1. 0 \in H
    BY <1>3, <1>5, <1>7
  <2>2. ASSUME NEW n \in 0..(Q - 1), n \in H PROVE n + 1 \in H
    <3>1. n + 1 \in 1..Q /\ n \in 0..Q /\ (n + 1) - 1 = n /\ P \in 0..P
      BY <1>3
    <3>2. t[n] \in Nat /\ q[n + 1] \in Nat /\ s[P] \in Nat /\ t[n + 1] = t[n] + q[n + 1]
      BY <1>2, <1>3, <3>1
    <3>3. CASE P = n + 1
      <4>1. Upto(P) = n + 1
        BY <1>3, <3>1, <3>3
      <4> QED
        BY <1>5, <3>1, <4>1
    <3>4. CASE P # n + 1
      <4>1. P <= n + 1 => s[P] <= t[n]
        BY <1>3, <2>2, <3>1, <3>4
      <4>2. P <= n + 1 => s[P] <= t[n + 1]
        BY <3>2, <4>1
      <4> QED
        BY <3>1, <4>2
    <3> QED
      BY <3>3, <3>4
  <2>3. \A n \in 0..Q : n \in H
    <3> HIDE DEF H, Q
    <3> QED
      BY <1>3, <2>1, <2>2, Climb
  <2>4. s[P] <= t[Q]
    BY <1>3, <1>7, <2>3
  <2> QED
    BY <2>4
<1>8. s[P] \in Nat /\ t[Q] \in Nat
  <2> HIDE DEF P, Q
  <2>1. P \in 0..P /\ Q \in 0..Q
    BY <1>3
  <2> USE DEF P, Q
  <2> QED
    BY <2>1
<1> QED
  BY <1>1, <1>2, <1>3, <1>6, <1>7, <1>8

\* A streak that reached its goal is one of attempts in a row that all score.
Judged == {"other", "breaks", "scores"}
Spell(v, i, j) == {n \in i..j : v[n] # "other"}

LEMMA StreakFound ==
  ASSUME NEW v \in Seq(Judged), NEW goal \in Nat \ {0}, Pins!Streak(v, goal) >= goal
  PROVE  \E i, j \in 1..Len(v) :
           /\ Cardinality(Spell(v, i, j)) = goal /\ \A n \in Spell(v, i, j) : v[n] = "scores"
           /\ i \in Spell(v, i, j) /\ j \in Spell(v, i, j)
<1>1. PICK t \in [0..Len(v) -> Nat] :
        /\ Pins!Streak(v, goal) = t[Len(v)]
        /\ t[0] = 0 /\ \A n \in 1..Len(v) : t[n] = Onward(t[n - 1], v[n], goal)
  BY StreakDefined
<1> DEFINE N == Len(v)
           Found(i, j, c) == /\ Cardinality(Spell(v, i, j)) = c /\ \A n \in Spell(v, i, j) : v[n] = "scores"
                             /\ i \in Spell(v, i, j) /\ j \in Spell(v, i, j)
           Quiet(n) == t[n] = 0 \/ \E i, j \in 1..n : Found(i, j, t[n]) /\ (t[n] < goal => \A m \in (j + 1)..n : v[m] = "other")
           G == {n \in 0..N : t[n] <= goal /\ Quiet(n)}
<1>2. N \in Nat /\ \A n \in 1..N : v[n] \in Judged
  OBVIOUS
<1>3. 0 \in G
  BY <1>1, <1>2
<1>4. ASSUME NEW n \in 0..(N - 1), n \in G PROVE n + 1 \in G
  <2>1. n + 1 \in 1..N /\ n \in 0..N /\ (n + 1) - 1 = n /\ n + 1 \in 0..N
    BY <1>2
  <2>2. t[n] \in Nat /\ t[n] <= goal /\ t[n + 1] = Onward(t[n], v[n + 1], goal) /\ v[n + 1] \in Judged
    BY <1>1, <1>2, <1>4, <2>1
  <2>3. CASE v[n + 1] = "other" \/ t[n] >= goal
    <3>1. t[n + 1] = t[n]
      BY <2>2, <2>3 DEF Onward
    <3>2. CASE t[n] = 0
      BY <2>1, <3>1, <3>2
    <3>3. CASE t[n] # 0
      <4>1. PICK i \in 1..n, j \in 1..n : Found(i, j, t[n]) /\ (t[n] < goal => \A m \in (j + 1)..n : v[m] = "other")
        BY <1>4, <3>3
      <4>2. t[n] < goal => \A m \in (j + 1)..(n + 1) : v[m] = "other"
        BY <2>1, <2>2, <2>3, <4>1
      <4>3. i \in 1..(n + 1) /\ j \in 1..(n + 1)
        BY <2>1
      <4>4. Quiet(n + 1)
        <5> HIDE DEF Found
        <5> QED
          BY <3>1, <4>1, <4>2, <4>3
      <4> QED
        BY <2>1, <2>2, <3>1, <4>4
    <3> QED
      BY <3>2, <3>3
  <2>4. CASE v[n + 1] = "breaks" /\ ~(t[n] >= goal)
    <3>1. t[n + 1] = 0
      BY <2>2, <2>4 DEF Onward
    <3> QED
      BY <2>1, <3>1
  <2>5. CASE v[n + 1] = "scores" /\ ~(t[n] >= goal)
    <3>1. t[n + 1] = t[n] + 1 /\ t[n + 1] <= goal
      BY <2>2, <2>5 DEF Onward
    <3>2. CASE t[n] = 0
      <4>1. Spell(v, n + 1, n + 1) = {n + 1}
        BY <2>1, <2>5 DEF Spell
      <4>2. Cardinality({n + 1}) = 1
        BY FS_Singleton
      <4>3. Found(n + 1, n + 1, t[n + 1])
        <5>1. t[n + 1] = 1 /\ v[n + 1] = "scores" /\ n + 1 \in {n + 1}
          BY <2>2, <2>5, <3>1, <3>2
        <5>2. \A m \in {n + 1} : v[m] = "scores"
          BY <5>1
        <5> QED
          BY <4>1, <4>2, <5>1, <5>2
      <4>4. n + 1 \in 1..(n + 1) /\ \A m \in ((n + 1) + 1)..(n + 1) : v[m] = "other"
        BY <2>1
      <4> HIDE DEF Found
      <4>5. Quiet(n + 1)
        BY <4>3, <4>4
      <4> QED
        BY <2>1, <3>1, <4>5
    <3>3. CASE t[n] # 0
      <4>1. PICK i \in 1..n, j \in 1..n : Found(i, j, t[n]) /\ (t[n] < goal => \A m \in (j + 1)..n : v[m] = "other")
        BY <1>4, <3>3
      <4>2. Spell(v, i, n + 1) = Spell(v, i, j) \cup {n + 1}
        <5>1. \A m \in (j + 1)..n : v[m] = "other"
          BY <2>2, <2>5, <4>1
        <5>2. ASSUME NEW m \in Spell(v, i, n + 1) PROVE m \in Spell(v, i, j) \cup {n + 1}
          <6>1. m \in Int /\ i <= m /\ m <= n + 1 /\ v[m] # "other"
            BY DEF Spell
          <6>2. m \in (j + 1)..n \/ m \in i..j \/ m = n + 1
            BY <2>1, <6>1
          <6> QED
            BY <5>1, <6>1, <6>2 DEF Spell
        <5>3. ASSUME NEW m \in Spell(v, i, j) \cup {n + 1} PROVE m \in Spell(v, i, n + 1)
          BY <2>1, <2>5 DEF Spell
        <5> QED
          BY <5>2, <5>3
      <4>3. IsFiniteSet(Spell(v, i, j)) /\ (n + 1) \notin Spell(v, i, j)
        <5>1. Spell(v, i, j) \subseteq i..j /\ IsFiniteSet(i..j)
          <6>1. i \in Int /\ j \in Int
            OBVIOUS
          <6> QED
            BY <6>1, FS_Interval DEF Spell
        <5> QED
          BY <2>1, <5>1, FS_Subset
      <4>4. Cardinality(Spell(v, i, n + 1)) = t[n] + 1
        BY <4>1, <4>2, <4>3, FS_AddElement
      <4>5. (\A m \in Spell(v, i, n + 1) : v[m] = "scores") /\ i \in Spell(v, i, n + 1) /\ n + 1 \in Spell(v, i, n + 1)
        BY <2>5, <4>1, <4>2
      <4>6. Found(i, n + 1, t[n + 1])
        BY <3>1, <4>4, <4>5
      <4>7. i \in 1..(n + 1) /\ n + 1 \in 1..(n + 1) /\ \A m \in ((n + 1) + 1)..(n + 1) : v[m] = "other"
        BY <2>1
      <4> HIDE DEF Found
      <4>8. Quiet(n + 1)
        BY <4>6, <4>7
      <4> QED
        BY <2>1, <3>1, <4>8
    <3> QED
      BY <3>2, <3>3
  <2> QED
    BY <2>2, <2>3, <2>4, <2>5 DEF Judged
<1>5. N \in G
  <2> HIDE DEF G, N
  <2>1. \A n \in 0..N : n \in G
    BY <1>2, <1>3, <1>4, Climb
  <2> QED
    BY <1>2, <2>1
<1>6. t[N] = goal
  BY <1>1, <1>2, <1>5
<1> QED
  BY <1>5, <1>6

\* The module's own count is the library's.
LEMMA PinsCounts == \A S : Pins!Cardinality(S) = Cardinality(S)
  BY DEF Pins!Cardinality, Cardinality, Pins!IsFiniteSet, IsFiniteSet

\* Instants in order, with weeks that do not go back; guesses have points, and none
\* of them when their time ran out.
Scoring ==
  /\ \E N \in Nat : Pins!Instants = 1..N
  /\ \A i \in Pins!Instants : Pins!Week(i) \in Nat /\ \A j \in Pins!Instants : i <= j => Pins!Week(i) <= Pins!Week(j)
  /\ \A i \in Pins!Rows("guess") : log[i].score \in Nat /\ log[i].late \in BOOLEAN /\ (log[i].late => log[i].score = 0)

\* The points of a set of rows, row by row.
Points(S) == [i \in Pins!Instants |-> IF i \in S THEN log[i].score ELSE 0]

LEMMA TotalGrows ==
  ASSUME Scoring, NEW S \in SUBSET Pins!Rows("guess"), NEW T \in SUBSET Pins!Rows("guess"),
         \A i \in S : log[i].score # 0 => i \in T
  PROVE  Pins!Total(S) \in Nat /\ Pins!Total(T) \in Nat /\ Pins!Total(S) <= Pins!Total(T)
<1>1. ASSUME NEW n \in Nat, NEW f \in [1..n -> Nat] PROVE f \in Seq(Nat) /\ Len(f) = n
  OBVIOUS
<1>2. PICK N \in Nat : Pins!Instants = 1..N
  BY DEF Scoring
<1>3. Pins!Rows("guess") \subseteq Pins!Instants /\ \A i \in Pins!Rows("guess") : log[i].score \in Nat
  BY DEF Scoring, Pins!Rows, Pins!Recorded
<1>4. Points(S) \in [1..N -> Nat] /\ Points(T) \in [1..N -> Nat]
  BY <1>2, <1>3 DEF Points
<1>5. Points(S) \in Seq(Nat) /\ Len(Points(S)) = N /\ Points(T) \in Seq(Nat) /\ Len(Points(T)) = N
  BY <1>1, <1>4
<1>6. ASSUME NEW i \in 1..N, Points(S)[i] # 0 PROVE i <= N /\ Points(S)[i] <= Points(T)[i]
  <2>1. i \in S /\ i \in T /\ Points(S)[i] = log[i].score /\ Points(T)[i] = log[i].score /\ log[i].score \in Nat
    BY <1>2, <1>3, <1>6 DEF Points
  <2> QED
    BY <2>1
<1>7. Pins!Total(S) = Pins!Tally(Points(S)) /\ Pins!Total(T) = Pins!Tally(Points(T))
  BY DEF Pins!Total, Points
<1> QED
  BY <1>5, <1>6, <1>7, TallyGrows

\* Criteria that count rows, and criteria that add up points.
Counting == {"score_count", "score_streak", "distance_count", "timed_public_count", "source_score_count",
             "country_score_count", "unique_groups", "public_author_count", "public_count"}
Summing == {"utc_hour_points", "weekend_points", "total_points", "weekly_points"}

SaneCriteria(k) ==
  /\ k.kind \in Counting => "count" \in DOMAIN k /\ k.count \in Nat
  /\ k.kind \in Summing => k.points \in Nat
  /\ k.kind = "score_streak" => k.minimum \in Nat

\* What the loop over the attempts sees.
LEMMA VerdictsGiven ==
  ASSUME NEW N \in Nat, Pins!Instants = 1..N, NEW k
  PROVE  Pins!Verdicts(k) \in Seq(Judged) /\ Len(Pins!Verdicts(k)) = N
<1>1. Pins!Verdicts(k) \in [1..N -> Judged]
  BY DEF Pins!Verdicts, Judged
<1>2. ASSUME NEW n \in Nat, NEW f \in [1..n -> Judged] PROVE f \in Seq(Judged) /\ Len(f) = n
  OBVIOUS
<1> QED
  BY <1>1, <1>2

\* A streak that the loop finds is deserved.
LEMMA StreakEarned ==
  ASSUME Scoring, NEW k, k.kind = "score_streak", SaneCriteria(k), ~Pins!Invalid(k), Pins!HasScoreStreak(k)
  PROVE  Pins!Deserved(k)
<1> DEFINE v == Pins!Verdicts(k)
<1>1. k.count \in Nat \ {0} /\ k.minimum \in Nat
  BY DEF SaneCriteria, Counting, Pins!Invalid
<1>2. PICK N \in Nat : Pins!Instants = 1..N
  BY DEF Scoring
<1>3. v \in Seq(Judged) /\ Len(v) = N /\ Pins!Streak(v, k.count) >= k.count
  BY <1>2, VerdictsGiven DEF Pins!HasScoreStreak
<1>4. PICK i \in 1..N, j \in 1..N :
        /\ Cardinality(Spell(v, i, j)) = k.count /\ \A n \in Spell(v, i, j) : v[n] = "scores"
        /\ i \in Spell(v, i, j) /\ j \in Spell(v, i, j)
  <2> HIDE DEF v
  <2> QED
    BY <1>1, <1>3, StreakFound
<1>5. \A n \in 1..N : v[n] = IF n \notin Pins!Attempts THEN "other" ELSE IF Pins!Breaks(n, k) THEN "breaks" ELSE "scores"
  BY <1>2 DEF Pins!Verdicts
<1>6. Pins!Attempts \subseteq 1..N /\ \A n \in Pins!Attempts : log[n].score \in Nat
  BY <1>2 DEF Pins!Attempts, Pins!Rows, Pins!Recorded, Scoring
<1>7. {n \in Pins!Attempts : i <= n /\ n <= j} = Spell(v, i, j)
  <2> HIDE DEF v
  <2>1. ASSUME NEW n \in Pins!Attempts, i <= n, n <= j PROVE n \in Spell(v, i, j)
    <3>1. v[n] # "other" /\ n \in i..j
      BY <1>5, <1>6, <2>1
    <3> QED
      BY <3>1 DEF Spell
  <2>2. ASSUME NEW n \in Spell(v, i, j) PROVE n \in Pins!Attempts /\ i <= n /\ n <= j
    <3>1. n \in i..j /\ v[n] # "other" /\ n \in 1..N
      BY DEF Spell
    <3> QED
      BY <1>5, <3>1
  <2> QED
    BY <2>1, <2>2
<1>8. ASSUME NEW n \in Spell(v, i, j) PROVE n \in Pins!Attempts /\ ~log[n].late /\ log[n].score >= k.minimum
  <2> HIDE DEF v
  <2>1. n \in Pins!Attempts /\ n \in 1..N /\ log[n].score \in Nat
    BY <1>6, <1>7
  <2>2. ~Pins!Breaks(n, k)
    BY <1>4, <1>5, <2>1
  <2> QED
    BY <1>1, <2>1, <2>2 DEF Pins!Breaks
<1>9. /\ i \in Pins!Attempts /\ j \in Pins!Attempts
      /\ Pins!Cardinality({n \in Pins!Attempts : i <= n /\ n <= j}) = k.count
      /\ \A n \in {m \in Pins!Attempts : i <= m /\ m <= j} : ~log[n].late /\ log[n].score >= k.minimum
  <2> HIDE DEF v
  <2> QED
    BY <1>4, <1>7, <1>8, PinsCounts
<1> QED
  BY <1>9 DEF Pins!Deserved

\* The results of a player in a group's week, as far as a call sees them, and all of them.
Results(g, u, w, now) ==
  {i \in Pins!InWeek(Pins!Rows("guess"), w) : /\ log[i].source = "group" /\ log[i].place = g
                                              /\ log[i].who = u /\ ~log[i].late /\ i < now}
Round(g, u, w) == {i \in Pins!InWeek(Pins!Rows("guess"), w) : log[i].who = u /\ log[i].place = g /\ log[i].source = "group"}

\* A rank is deserved: what the call does not read adds nothing to a week that was over.
LEMMA RankEarned ==
  ASSUME Scoring, clock \in Pins!Instants, NEW k, k.kind = "group_weekly_rank",
         NEW n \in Pins!Instants, n <= clock, Pins!GroupWeeklyRank(n)
  PROVE  Pins!Deserved(k)
<1>1. PICK w \in Pins!Weeks, g \in {log[i].place : i \in Pins!From("group")} :
        /\ w < Pins!Week(n) /\ Results(g, Me, w, n) # {}
        /\ \A u \in {log[i].who : i \in Pins!Rows("guess")} : Pins!Total(Results(g, u, w, n)) <= Pins!Total(Results(g, Me, w, n))
  BY DEF Pins!GroupWeeklyRank, Pins!Over, Results
<1>2. PICK f \in Results(g, Me, w, n) : TRUE
  BY <1>1
<1>3. f \in Pins!Attempts /\ f \in Pins!Instants /\ log[f].place = g /\ f \in Round(g, Me, w) /\ Pins!Week(f) = w
  BY <1>2 DEF Results, Round, Pins!Attempts, Pins!InWeek, Pins!Rows, Pins!Recorded
<1>4. Pins!Over(w, clock)
  <2>1. Pins!Week(n) <= Pins!Week(clock) /\ Pins!Week(n) \in Nat /\ Pins!Week(clock) \in Nat /\ w \in Nat
    BY <1>3 DEF Scoring
  <2> QED
    BY <1>1, <2>1 DEF Pins!Over
<1>5. ASSUME NEW u
      PROVE  /\ Results(g, u, w, n) \in SUBSET Pins!Rows("guess") /\ Round(g, u, w) \in SUBSET Pins!Rows("guess")
             /\ \A i \in Results(g, u, w, n) : i \in Round(g, u, w)
             /\ \A i \in Round(g, u, w) : log[i].score # 0 => i \in Results(g, u, w, n)
  <2>1. Results(g, u, w, n) \subseteq Round(g, u, w) /\ Round(g, u, w) \subseteq Pins!Rows("guess")
    BY DEF Results, Round, Pins!InWeek
  <2>2. ASSUME NEW i \in Round(g, u, w), log[i].score # 0 PROVE i \in Results(g, u, w, n)
    <3>1. i \in Pins!Instants /\ i \in Pins!Rows("guess") /\ Pins!Week(i) = w
      BY DEF Round, Pins!InWeek, Pins!Rows, Pins!Recorded
    <3>2. ~log[i].late
      BY <2>2, <3>1 DEF Scoring
    <3>3. i < n
      <4>1. n <= i => Pins!Week(n) <= Pins!Week(i)
        BY <3>1 DEF Scoring
      <4>2. i \in Nat /\ n \in Nat /\ Pins!Week(i) \in Nat /\ Pins!Week(n) \in Nat
        BY <3>1 DEF Scoring
      <4> QED
        BY <1>1, <3>1, <4>1, <4>2
    <3> QED
      BY <3>2, <3>3 DEF Results, Round
  <2> QED
    BY <2>1, <2>2
<1>6. /\ Pins!Total(Results(g, Me, w, n)) \in Nat /\ Pins!Total(Round(g, Me, w)) \in Nat
      /\ Pins!Total(Results(g, Me, w, n)) <= Pins!Total(Round(g, Me, w))
  BY <1>5, TotalGrows
<1>7. ASSUME NEW u \in {log[i].who : i \in Pins!Recorded}
      PROVE  Pins!Total(Round(g, u, w)) <= Pins!Total(Round(g, Me, w))
  <2>1. CASE u \in {log[i].who : i \in Pins!Rows("guess")}
    <3>1. /\ Pins!Total(Round(g, u, w)) \in Nat /\ Pins!Total(Results(g, u, w, n)) \in Nat
          /\ Pins!Total(Round(g, u, w)) <= Pins!Total(Results(g, u, w, n))
      BY <1>5, TotalGrows
    <3>2. Pins!Total(Results(g, u, w, n)) <= Pins!Total(Results(g, Me, w, n))
      BY <1>1, <2>1
    <3> QED
      BY <1>6, <3>1, <3>2
  <2>2. CASE u \notin {log[i].who : i \in Pins!Rows("guess")}
    <3>1. Round(g, u, w) = {}
      BY <2>2 DEF Round, Pins!InWeek
    <3>2. \A i \in {} : log[i].score # 0 => i \in Round(g, Me, w)
      OBVIOUS
    <3>3. Pins!Total({}) <= Pins!Total(Round(g, Me, w))
      BY <1>5, <3>2, TotalGrows
    <3> QED
      BY <3>1, <3>3
  <2> QED
    BY <2>1, <2>2
<1>8. \A u \in {log[i].who : i \in Pins!Recorded} :
        /\ Pins!Over(Pins!Week(f), clock) /\ f \in Round(log[f].place, Me, Pins!Week(f))
        /\ Pins!Total(Round(log[f].place, u, Pins!Week(f))) <= Pins!Total(Round(log[f].place, Me, Pins!Week(f)))
  BY <1>3, <1>4, <1>7
<1> QED
  BY <1>3, <1>8 DEF Round, Pins!Deserved

\* What a call finds complete is deserved as it finds it.
LEMMA EligibleEarned ==
  ASSUME Scoring, clock \in Pins!Instants, NEW k, SaneCriteria(k), ~Pins!Invalid(k),
         NEW n \in Pins!Instants, n <= clock, Pins!Eligible(k, n)
  PROVE  Pins!Deserved(k)
<1>1. CASE k.kind = "score_streak"
  <2>1. Pins!HasScoreStreak(k)
    BY <1>1 DEF Pins!Eligible
  <2> QED
    BY <1>1, <2>1, StreakEarned
<1>2. CASE k.kind = "group_weekly_rank"
  <2>1. Pins!GroupWeeklyRank(n)
    BY <1>2 DEF Pins!Eligible
  <2> QED
    BY <1>2, <2>1, RankEarned
<1>3. CASE k.kind = "weekly_points"
  <2>1. PICK w \in Pins!Weeks : LET rows == Pins!InWeek({i \in Pins!Scored : i < n}, w) IN rows # {} /\ Pins!Total(rows) > k.points
    BY <1>3 DEF Pins!Eligible, Pins!WeeklyPoints
  <2> DEFINE R == Pins!InWeek({i \in Pins!Scored : i < n}, w)
             Q == Pins!InWeek({i \in Pins!Scored : i < clock + 1}, w)
  <2>2. Pins!Scored \subseteq Pins!Rows("guess") /\ Pins!Rows("guess") \subseteq Nat /\ n \in Nat /\ clock \in Nat
    BY DEF Pins!Scored, Pins!Attempts, Pins!Rows, Pins!Recorded, Scoring
  <2>3. R \subseteq Q /\ Q \subseteq Pins!Rows("guess")
    <3>1. \A i \in Nat : i < n => i < clock + 1
      BY <2>2
    <3> QED
      BY <2>2, <3>1 DEF Pins!InWeek
  <2>4. R # {} /\ Pins!Total(R) > k.points /\ k.points \in Nat
    BY <1>3, <2>1 DEF SaneCriteria, Summing
  <2>5. Q # {} /\ Pins!Total(Q) > k.points
    <3> HIDE DEF R, Q
    <3>1. Pins!Total(R) \in Nat /\ Pins!Total(Q) \in Nat /\ Pins!Total(R) <= Pins!Total(Q)
      BY <2>3, TotalGrows
    <3> QED
      BY <2>3, <2>4, <3>1
  <2> QED
    BY <1>3, <2>5 DEF Pins!Deserved, Pins!Eligible, Pins!WeeklyPoints
<1>4. CASE k.kind \notin {"score_streak", "group_weekly_rank", "weekly_points"}
  BY <1>4 DEF Pins!Deserved, Pins!Eligible
<1> QED
  BY <1>1, <1>2, <1>3, <1>4

\* The challenges are numbered, their criteria count to naturals, the instants are
\* in weeks one after the other, and a guess that timed out scores nothing
\* (groups/challenges.go:349,406, feed/timed.go:195).
SaneRow(row) == row.act = "guess" => row.score \in Nat /\ row.late \in BOOLEAN /\ (row.late => row.score = 0)
SaneWeeks(w) ==
  /\ w \in Seq(Nat) /\ w # <<>>
  /\ \A i, j \in DOMAIN w : i <= j => w[i] <= w[j]
PinsSane ==
  /\ None \notin Nat
  /\ \A s \in DOMAIN Scenarios :
       /\ DOMAIN Scenarios[s].challenges \subseteq Nat /\ SaneWeeks(Scenarios[s].weeks)
       /\ \A i \in DOMAIN Scenarios[s].challenges : SaneCriteria(Scenarios[s].challenges[i].criteria)
       /\ \A row \in Scenarios[s].rows : SaneRow(row)

PinsCall == [pc: {"new", "judge", "award", "ok", "failed"}, now: {0} \cup Pins!Instants, left: SUBSET Pins!Challenges]
Running(r) == r.pc \in {"judge", "award"}

PinsTypes ==
  /\ scenario \in DOMAIN Scenarios /\ log \in [Pins!Instants -> Pins!Catalog.rows \cup {None}] /\ clock \in Pins!Instants
  /\ unlocked \in [Pins!Challenges -> Pins!Instants \cup {None}]
  /\ call \in [Calls -> PinsCall]
  /\ due \in [Calls -> SUBSET Pins!Challenges] /\ merits \in [Calls -> SUBSET Pins!Challenges]

\* A call remembers what it read of the clock, what remains complete waits in it or
\* is unlocked, and what is deserved while it runs is among its merits.
CallKept(r, D, M) ==
  /\ r.pc = "new" => M = {}
  /\ r.pc # "new" => r.now \in Pins!Instants /\ r.now <= clock
  /\ Running(r) => r.left # {}
  /\ Running(r) => \A i \in D : Pins!Complete(i, r.now) /\ (i \in r.left \/ unlocked[i] # None)
  /\ Running(r) => \A i \in Pins!Challenges : Pins!Deserved(Pins!Criteria(i)) => i \in M
  /\ r.pc = "award" => Pins!First(r) \in M
  /\ r.pc = "ok" => \A i \in D : unlocked[i] # None

PinsInv ==
  /\ PinsTypes
  /\ \A c \in Calls : CallKept(call[c], due[c], merits[c])
  /\ Pins!UnlocksEarned
  /\ equipped # None => equipped \in Pins!Challenges /\ unlocked[equipped] # None

\* Sets of numbers have a least one.
LEMMA LeastOf ==
  ASSUME NEW S \in SUBSET Nat, S # {}
  PROVE  \E i \in S : \A j \in S : i <= j
<1>1. IsWellFoundedOn(Below, Nat)
  BY NatLessThanWellFounded DEF OpToRel, Below
<1>2. PICK i \in S : \A j \in S : <<j, i>> \notin Below
  BY <1>1, WFMin
<1>3. ASSUME NEW j \in S PROVE i <= j
  <2>1. <<j, i>> \notin Below /\ i \in Nat /\ j \in Nat
    BY <1>2
  <2>2. ~(j < i)
    BY <2>1 DEF Below
  <2> QED
    BY <2>1, <2>2
<1> QED
  BY <1>3

LEMMA FirstLeft ==
  ASSUME NEW r, r.left \in SUBSET Nat, r.left # {}
  PROVE  Pins!First(r) \in r.left
<1>1. \E i \in r.left : \A j \in r.left : i <= j
  BY LeastOf
<1> QED
  BY <1>1 DEF Pins!First

\* The rows of a catalog of sane rows score, and its challenges are numbered.
LEMMA CatalogSane ==
  ASSUME PinsSane, PinsTypes
  PROVE  /\ Scoring /\ Pins!Instants \in SUBSET (Nat \ {0}) /\ 1 \in Pins!Instants /\ Pins!Challenges \in SUBSET Nat
         /\ \A i \in Pins!Challenges : SaneCriteria(Pins!Criteria(i))
<1> DEFINE s == Scenarios[scenario]
<1>1. /\ DOMAIN s.challenges \subseteq Nat /\ SaneWeeks(s.weeks) /\ \A i \in DOMAIN s.challenges : SaneCriteria(s.challenges[i].criteria)
      /\ \A row \in s.rows : SaneRow(row)
  BY DEF PinsSane, PinsTypes
<1>2. Pins!Challenges = DOMAIN s.challenges /\ Pins!Instants = DOMAIN s.weeks /\ Pins!Catalog.rows = s.rows
      /\ (\A i : Pins!Criteria(i) = s.challenges[i].criteria) /\ \A n : Pins!Week(n) = s.weeks[n]
  BY DEF Pins!Challenges, Pins!Instants, Pins!Catalog, Pins!Criteria, Pins!Week
<1> HIDE DEF s
<1>3. PICK w \in Seq(Nat) : w = s.weeks /\ w # <<>> /\ \A i, j \in DOMAIN w : i <= j => w[i] <= w[j]
  BY <1>1 DEF SaneWeeks
<1>4. Len(w) \in Nat /\ Len(w) # 0 /\ DOMAIN w = 1..Len(w) /\ \A n \in 1..Len(w) : w[n] \in Nat
  BY <1>3
<1>5. \A i \in Pins!Rows("guess") : log[i].score \in Nat /\ log[i].late \in BOOLEAN /\ (log[i].late => log[i].score = 0)
  <2>1. \A i \in Pins!Rows("guess") : log[i] \in s.rows /\ log[i].act = "guess"
    BY <1>2 DEF Pins!Rows, Pins!Recorded, PinsTypes
  <2> QED
    BY <1>1, <2>1 DEF SaneRow
<1>6. Scoring
  BY <1>2, <1>3, <1>4, <1>5 DEF Scoring
<1> QED
  BY <1>1, <1>2, <1>3, <1>4, <1>6

\* Criteria read the catalog, the rows and the clock only.
LEMMA EligibleSame ==
  ASSUME UNCHANGED <<scenario, log, clock>>
  PROVE  \A k, n : Pins!Eligible(k, n)' <=> Pins!Eligible(k, n)
  BY DEF Pins!Eligible, Pins!ScoreCount, Pins!HasScoreStreak, Pins!DistanceCount, Pins!TimedPublicCount, Pins!SourceScoreCount,
         Pins!HasScoresInEnoughCountries, Pins!UniqueGroups, Pins!PublicAuthors, Pins!PublicCount, Pins!HourPoints, Pins!WeekendPoints,
         Pins!TotalPoints, Pins!WeeklyPoints, Pins!GroupWeeklyRank, Pins!Verdicts, Pins!Breaks, Pins!Attempts, Pins!Scored, Pins!From,
         Pins!OnPublic, Pins!Open, Pins!Mine, Pins!Received, Pins!Total, Pins!InWeek, Pins!Over, Pins!Rows, Pins!Recorded,
         Pins!Instants, Pins!Weeks, Pins!Week, Pins!Catalog

LEMMA DeservedSame ==
  ASSUME UNCHANGED <<scenario, log, clock>>
  PROVE  \A k : Pins!Deserved(k)' <=> Pins!Deserved(k)
<1> SUFFICES ASSUME NEW k PROVE Pins!Deserved(k)' <=> Pins!Deserved(k)
  OBVIOUS
<1>1. \A n : Pins!Eligible(k, n)' <=> Pins!Eligible(k, n)
  BY EligibleSame
<1> QED
  BY <1>1 DEF Pins!Deserved, Pins!Attempts, Pins!Total, Pins!InWeek, Pins!Over, Pins!Rows, Pins!Recorded, Pins!Instants, Pins!Week, Pins!Catalog

\* What the history keeps of a call that is watched.
LEMMA Watching ==
  ASSUME PinsTypes, Pins!Remember, UNCHANGED scenario, NEW c \in Calls
  PROVE  /\ due' \in [Calls -> SUBSET Pins!Challenges] /\ merits' \in [Calls -> SUBSET Pins!Challenges]
         /\ due'[c] \subseteq due[c] /\ merits[c] \subseteq merits'[c]
         /\ ~Pins!Watched(c) => merits'[c] = merits[c]
         /\ Pins!Watched(c) => /\ \A i \in due'[c] : Pins!Complete(i, call[c].now)'
                               /\ \A i \in Pins!Challenges : Pins!Deserved(Pins!Criteria(i))' => i \in merits'[c]
<1>1. /\ due' = [d \in Calls |-> IF Pins!Watched(d) THEN {i \in due[d] : Pins!Complete(i, call[d].now)'} ELSE due[d]]
      /\ merits' = [d \in Calls |-> IF Pins!Watched(d) THEN merits[d] \cup {i \in Pins!Challenges : Pins!Deserved(Pins!Criteria(i))'} ELSE merits[d]]
  BY DEF Pins!Remember
<1>2. due \in [Calls -> SUBSET Pins!Challenges] /\ merits \in [Calls -> SUBSET Pins!Challenges]
  BY DEF PinsTypes
<1> QED
  BY <1>1, <1>2

\* The world moves, or nothing does: rows come and go, time passes, deployments
\* retire and the picker is used.
LEMMA PinsPlayed ==
  ASSUME PinsSane, PinsInv, Pins!Remember, UNCHANGED <<scenario, unlocked, call>>,
         log' \in [Pins!Instants -> Pins!Catalog.rows \cup {None}], clock' \in Pins!Instants, clock <= clock',
         equipped' # None => equipped' \in Pins!Challenges /\ unlocked[equipped'] # None
  PROVE  PinsInv'
<1>1. /\ Pins!Challenges' = Pins!Challenges /\ Pins!Instants' = Pins!Instants /\ Pins!Catalog' = Pins!Catalog
      /\ \A i : Pins!Criteria(i)' = Pins!Criteria(i)
  BY DEF Pins!Challenges, Pins!Instants, Pins!Catalog, Pins!Criteria
<1>2. PinsTypes /\ Pins!UnlocksEarned /\ \A c \in Calls : CallKept(call[c], due[c], merits[c])
  BY DEF PinsInv
<1>3. ASSUME NEW c \in Calls
      PROVE  /\ due' \in [Calls -> SUBSET Pins!Challenges] /\ merits' \in [Calls -> SUBSET Pins!Challenges]
             /\ due'[c] \subseteq due[c] /\ merits[c] \subseteq merits'[c]
             /\ ~Pins!Watched(c) => merits'[c] = merits[c]
             /\ Pins!Watched(c) => /\ \A i \in due'[c] : Pins!Complete(i, call[c].now)'
                                   /\ \A i \in Pins!Challenges : Pins!Deserved(Pins!Criteria(i))' => i \in merits'[c]
  BY <1>2, Watching
<1>4. due' \in [Calls -> SUBSET Pins!Challenges] /\ merits' \in [Calls -> SUBSET Pins!Challenges]
  BY <1>2 DEF Pins!Remember, PinsTypes
<1>5. PinsTypes'
  BY <1>1, <1>2, <1>4 DEF PinsTypes, PinsCall
<1>6. ASSUME NEW c \in Calls PROVE CallKept(call[c], due[c], merits[c])'
  <2>1. PICK r : r = call[c] /\ r = call'[c]
    OBVIOUS
  <2>2. CallKept(r, due[c], merits[c])
    BY <1>2, <2>1
  <2>3. r.pc # "new" => r.now \in Pins!Instants' /\ r.now <= clock'
    <3>1. Pins!Instants \in SUBSET Nat /\ clock \in Pins!Instants
      BY <1>2, CatalogSane DEF PinsTypes
    <3>2. r.pc # "new" => r.now \in Pins!Instants /\ r.now <= clock
      BY <2>2 DEF CallKept
    <3>3. clock \in Nat /\ clock' \in Nat /\ clock <= clock'
      BY <3>1
    <3>4. \A n \in Nat : n <= clock => n <= clock'
      BY <3>3
    <3> QED
      BY <1>1, <3>1, <3>2, <3>4
  <2>4. ASSUME Running(r)
        PROVE  /\ \A i \in due'[c] : Pins!Complete(i, r.now)' /\ (i \in r.left \/ unlocked[i] # None)
               /\ \A i \in Pins!Challenges : Pins!Deserved(Pins!Criteria(i))' => i \in merits'[c]
    <3>1. Pins!Watched(c)
      BY <2>1, <2>4 DEF Running, Pins!Watched
    <3>2. \A i \in due'[c] : Pins!Complete(i, r.now)'
      BY <1>3, <2>1, <3>1
    <3> QED
      BY <1>3, <2>2, <2>4, <3>1, <3>2 DEF CallKept
  <2>5. r.pc = "new" => merits'[c] = {}
    BY <1>3, <2>1, <2>2 DEF CallKept, Pins!Watched
  <2>6. CallKept(r, due[c], merits[c])'
    BY <1>1, <1>3, <2>2, <2>3, <2>4, <2>5 DEF CallKept, Pins!First, Running
  <2> QED
    BY <2>1, <2>6
<1>7. Pins!UnlocksEarned'
  BY <1>1, <1>2, <1>3 DEF Pins!UnlocksEarned
<1> QED
  BY <1>1, <1>5, <1>6, <1>7 DEF PinsInv

LEMMA PinsStutter ==
  ASSUME PinsInv, UNCHANGED Pins!vars
  PROVE  PinsInv'
<1>1. UNCHANGED <<scenario, log, clock, enabled, shelf, unlocked, equipped, call, due, merits>>
  BY DEF Pins!vars
<1>2. /\ Pins!Challenges' = Pins!Challenges /\ Pins!Instants' = Pins!Instants /\ Pins!Catalog' = Pins!Catalog
      /\ \A i : Pins!Criteria(i)' = Pins!Criteria(i) /\ Pins!Pin(i)' = Pins!Pin(i)
  BY <1>1 DEF Pins!Challenges, Pins!Instants, Pins!Catalog, Pins!Criteria, Pins!Pin
<1>3. PinsTypes'
  BY <1>1, <1>2 DEF PinsInv, PinsTypes, PinsCall
<1>4. ASSUME NEW c \in Calls PROVE CallKept(call[c], due[c], merits[c])'
  <2>1. PICK r, D, M : r = call[c] /\ r = call'[c] /\ D = due[c] /\ D = due'[c] /\ M = merits[c] /\ M = merits'[c]
    BY <1>1
  <2>2. CallKept(r, D, M)
    BY <2>1 DEF PinsInv
  <2>3. \A i, n : Pins!Complete(i, n)' <=> Pins!Complete(i, n)
    BY <1>1, <1>2, EligibleSame DEF Pins!Complete
  <2>4. \A i : Pins!Deserved(Pins!Criteria(i))' <=> Pins!Deserved(Pins!Criteria(i))
    BY <1>1, <1>2, DeservedSame
  <2>5. CallKept(r, D, M)'
    BY <1>1, <1>2, <2>2, <2>3, <2>4 DEF CallKept, Pins!First, Running
  <2> QED
    BY <2>1, <2>5
<1>5. Pins!UnlocksEarned'
  BY <1>1, <1>2 DEF PinsInv, Pins!UnlocksEarned
<1>6. equipped' # None => equipped' \in Pins!Challenges' /\ unlocked'[equipped'] # None
  BY <1>1, <1>2 DEF PinsInv
<1> QED
  BY <1>3, <1>4, <1>5, <1>6 DEF PinsInv

\* A step of a call.
LEMMA PinsCalled ==
  ASSUME PinsSane, PinsInv, Pins!Remember, UNCHANGED <<scenario, log, clock, enabled, shelf, equipped>>, NEW c \in Calls, NEW r \in PinsCall,
         call' = [call EXCEPT ![c] = r], call[c].pc \notin {"ok", "failed"}, r.pc # "new",
         call[c].pc # "new" => call[c].now = r.now,
         r.now \in Pins!Instants, r.now <= clock, Running(r) => r.left # {},
         unlocked' \in [Pins!Challenges -> Pins!Instants \cup {None}],
         \A i \in Pins!Challenges : unlocked[i] # None => unlocked'[i] = unlocked[i],
         \A i \in Pins!Challenges : unlocked[i] = None /\ unlocked'[i] # None => unlocked'[i] = r.now /\ i \in merits[c],
         r.pc = "award" => Pins!First(r) \in merits'[c],
         \A i \in due'[c] : /\ Running(r) => i \in r.left \/ unlocked'[i] # None
                            /\ r.pc = "ok" => unlocked'[i] # None
  PROVE  PinsInv'
<1>1. /\ Pins!Challenges' = Pins!Challenges /\ Pins!Instants' = Pins!Instants /\ Pins!Catalog' = Pins!Catalog
      /\ \A i : Pins!Criteria(i)' = Pins!Criteria(i) /\ Pins!Pin(i)' = Pins!Pin(i)
  BY DEF Pins!Challenges, Pins!Instants, Pins!Catalog, Pins!Criteria, Pins!Pin
<1>2. PinsTypes /\ Pins!UnlocksEarned /\ \A d \in Calls : CallKept(call[d], due[d], merits[d])
  BY DEF PinsInv
<1>3. ASSUME NEW d \in Calls
      PROVE  /\ due'[d] \subseteq due[d] /\ merits[d] \subseteq merits'[d]
             /\ ~Pins!Watched(d) => merits'[d] = merits[d]
             /\ Pins!Watched(d) => /\ \A i \in due'[d] : Pins!Complete(i, call[d].now)'
                                   /\ \A i \in Pins!Challenges : Pins!Deserved(Pins!Criteria(i))' => i \in merits'[d]
  BY <1>2, Watching
<1>4. due' \in [Calls -> SUBSET Pins!Challenges] /\ merits' \in [Calls -> SUBSET Pins!Challenges]
  BY <1>2 DEF Pins!Remember, PinsTypes
<1>5. /\ call \in [Calls -> PinsCall] /\ call' \in [Calls -> PinsCall] /\ call'[c] = r /\ PinsCall' = PinsCall
      /\ \A d \in Calls \ {c} : call'[d] = call[d]
  BY <1>1, <1>2 DEF PinsTypes, PinsCall
<1>6. PinsTypes'
  BY <1>1, <1>2, <1>4, <1>5 DEF PinsTypes
<1>7. CallKept(r, due[c], merits[c])'
  <2>1. Pins!Watched(c)
    BY <1>5 DEF Pins!Watched
  <2>2. \A i \in due'[c] : Pins!Complete(i, r.now)'
    BY <1>3, <1>5, <2>1
  <2>3. \A i \in Pins!Challenges : Pins!Deserved(Pins!Criteria(i))' => i \in merits'[c]
    BY <1>3, <2>1
  <2> QED
    BY <1>1, <2>2, <2>3 DEF CallKept, Pins!First, Running
<1>8. ASSUME NEW d \in Calls \ {c} PROVE CallKept(call[d], due[d], merits[d])'
  <2>1. PICK q : q = call[d] /\ q = call'[d]
    BY <1>5
  <2>2. CallKept(q, due[d], merits[d])
    BY <1>2, <2>1
  <2>3. due[d] \subseteq Pins!Challenges /\ due'[d] \subseteq due[d]
    BY <1>2, <1>3 DEF PinsTypes
  <2>4. \A i \in due'[d] : unlocked[i] # None => unlocked'[i] # None
    <3>1. None \notin Pins!Instants
      BY <1>2, CatalogSane DEF PinsSane
    <3> QED
      BY <1>2, <2>3, <3>1 DEF PinsTypes
  <2>5. ASSUME Running(q)
        PROVE  /\ \A i \in due'[d] : Pins!Complete(i, q.now)' /\ (i \in q.left \/ unlocked'[i] # None)
               /\ \A i \in Pins!Challenges : Pins!Deserved(Pins!Criteria(i))' => i \in merits'[d]
    <3>1. Pins!Watched(d)
      BY <2>1, <2>5 DEF Running, Pins!Watched
    <3>2. \A i \in due'[d] : Pins!Complete(i, q.now)'
      BY <1>3, <2>1, <3>1
    <3> QED
      BY <1>3, <2>2, <2>3, <2>4, <2>5, <3>1, <3>2 DEF CallKept
  <2>6. q.pc = "new" => merits'[d] = {}
    BY <1>3, <2>1, <2>2 DEF CallKept, Pins!Watched
  <2>7. CallKept(q, due[d], merits[d])'
    BY <1>1, <1>3, <2>2, <2>4, <2>5, <2>6 DEF CallKept, Pins!First, Running
  <2> QED
    BY <2>1, <2>7
<1>9. Pins!UnlocksEarned'
  <2> SUFFICES ASSUME NEW i \in Pins!Challenges, unlocked'[i] # None PROVE \E d \in Calls : unlocked'[i] = call'[d].now /\ i \in merits'[d]
    BY <1>1 DEF Pins!UnlocksEarned
  <2>1. CASE unlocked[i] = None
    BY <1>3, <1>5, <2>1
  <2>2. CASE unlocked[i] # None
    <3>1. unlocked'[i] = unlocked[i]
      BY <2>2
    <3>2. PICK d \in Calls : unlocked[i] = call[d].now /\ i \in merits[d]
      BY <1>2, <2>2 DEF Pins!UnlocksEarned
    <3>3. call[d].pc # "new"
      BY <1>2, <3>2 DEF CallKept
    <3>4. call'[d].now = call[d].now
      BY <1>5, <3>3
    <3> QED
      BY <1>3, <3>1, <3>2, <3>4
  <2> QED
    BY <2>1, <2>2
<1>10. equipped' # None => equipped' \in Pins!Challenges' /\ unlocked'[equipped'] # None
  BY <1>1 DEF PinsInv
<1> QED
  BY <1>5, <1>6, <1>7, <1>8, <1>9, <1>10 DEF PinsInv

\* What a call has left after its first challenge.
LEMMA RestOfCall ==
  ASSUME NEW q \in PinsCall
  PROVE  /\ Pins!Rest(q) \in PinsCall
         /\ Pins!Rest(q).now = q.now /\ Pins!Rest(q).left = q.left \ {Pins!First(q)}
         /\ Pins!Rest(q).pc \in {"ok", "judge"} /\ (Pins!Rest(q).pc = "judge" <=> q.left # {Pins!First(q)})
<1>1. PICK C, I : C = Pins!Challenges /\ I = {0} \cup Pins!Instants
  OBVIOUS
<1>2. PinsCall = [pc: {"new", "judge", "award", "ok", "failed"}, now: I, left: SUBSET C]
  BY <1>1 DEF PinsCall
<1> QED
  BY <1>2 DEF Pins!Rest

\* What remains complete while a call takes a step that reads the catalog and the
\* rows as they are.
LEMMA StillComplete ==
  ASSUME PinsInv, Pins!Remember, UNCHANGED <<scenario, log, clock, enabled, shelf>>, NEW c \in Calls, Pins!Watched(c)
  PROVE  /\ \A i \in due'[c] : i \in due[c] /\ i \in Pins!Challenges /\ Pins!Complete(i, call'[c].now)
         /\ \A i \in Pins!Challenges : i \in merits[c] \/ Pins!Deserved(Pins!Criteria(i)) => i \in merits'[c]
<1>1. PinsTypes
  BY DEF PinsInv
<1>2. /\ due'[c] \subseteq due[c] /\ merits[c] \subseteq merits'[c]
      /\ \A i \in due'[c] : Pins!Complete(i, call[c].now)'
      /\ \A i \in Pins!Challenges : Pins!Deserved(Pins!Criteria(i))' => i \in merits'[c]
  BY <1>1, Watching
<1>3. \A i : Pins!Criteria(i)' = Pins!Criteria(i) /\ Pins!Pin(i)' = Pins!Pin(i)
  BY DEF Pins!Catalog, Pins!Criteria, Pins!Pin
<1>4. \A i, n : Pins!Complete(i, n)' <=> Pins!Complete(i, n)
  BY <1>3, EligibleSame DEF Pins!Complete
<1>5. \A i : Pins!Deserved(Pins!Criteria(i))' <=> Pins!Deserved(Pins!Criteria(i))
  BY <1>3, DeservedSame
<1>6. PICK n : n = call'[c].now
  OBVIOUS
<1>7. \A i \in due'[c] : Pins!Complete(i, n)
  BY <1>2, <1>4, <1>6
<1>8. due[c] \subseteq Pins!Challenges
  BY <1>1 DEF PinsTypes
<1> QED
  BY <1>2, <1>5, <1>6, <1>7, <1>8

\* A call reads the clock and lists what is locked.
LEMMA PinsEvaluate ==
  ASSUME PinsSane, PinsInv, Pins!Remember, NEW c \in Calls, Pins!EvaluateMapPinsForUser(c)
  PROVE  PinsInv'
<1>1. PinsTypes /\ clock \in Pins!Instants
  BY DEF PinsInv, PinsTypes
<1>2. PICK r : r = [pc |-> IF Pins!Listed = {} THEN "ok" ELSE "judge", now |-> clock, left |-> Pins!Listed]
  OBVIOUS
<1>3. /\ call' = [call EXCEPT ![c] = r] /\ call[c].pc = "new"
      /\ UNCHANGED <<scenario, log, clock, enabled, shelf, unlocked, equipped>>
  BY <1>2 DEF Pins!EvaluateMapPinsForUser
<1>4. /\ r \in PinsCall /\ r.pc \in {"ok", "judge"} /\ r.now = clock /\ r.left = Pins!Listed
      /\ (r.pc = "judge" <=> Pins!Listed # {})
  BY <1>1, <1>2 DEF PinsCall, Pins!Listed
<1>5. call'[c] = r
  BY <1>1, <1>3 DEF PinsTypes
<1>6. \A i \in due'[c] : i \in Pins!Challenges /\ Pins!Complete(i, r.now)
  <2>1. Pins!Watched(c)
    BY <1>3, <1>4, <1>5 DEF Pins!Watched
  <2> QED
    BY <1>3, <1>5, <2>1, StillComplete
<1>7. \A i \in due'[c] : i \in Pins!Listed \/ unlocked[i] # None
  BY <1>6 DEF Pins!Listed, Pins!Pending, Pins!Complete
<1>8. unlocked' \in [Pins!Challenges -> Pins!Instants \cup {None}] /\ unlocked' = unlocked
  BY <1>1, <1>3 DEF PinsTypes
<1>9. r.now \in Pins!Instants /\ r.now <= clock
  <2>1. Pins!Instants \in SUBSET Nat
    BY <1>1, CatalogSane
  <2> QED
    BY <1>1, <1>4, <2>1
<1>10. \A i \in due'[c] : /\ Running(r) => i \in r.left \/ unlocked'[i] # None
                          /\ r.pc = "ok" => unlocked'[i] # None
  BY <1>4, <1>7, <1>8 DEF Running
<1>11. Running(r) => r.left # {}
  BY <1>4 DEF Running
<1> QED
  BY <1>3, <1>4, <1>8, <1>9, <1>10, <1>11, PinsCalled

\* A challenge is judged.
LEMMA PinsJudge ==
  ASSUME PinsSane, PinsInv, Pins!Remember, NEW c \in Calls, Pins!ChallengeEligible(c)
  PROVE  PinsInv'
<1>1. PinsTypes
  BY DEF PinsInv
<1>2. PICK q : q = call[c]
  OBVIOUS
<1>3. q \in PinsCall /\ CallKept(q, due[c], merits[c]) /\ q.pc = "judge"
  BY <1>1, <1>2 DEF PinsInv, PinsTypes, Pins!ChallengeEligible
<1>4. PICK f : f = Pins!First(q)
  OBVIOUS
<1>5. f \in q.left /\ f \in Pins!Challenges /\ q.left \subseteq Pins!Challenges
  <2>1. Pins!Challenges \in SUBSET Nat
    BY <1>1, CatalogSane
  <2>2. q.left # {} /\ q.left \subseteq Pins!Challenges
    BY <1>3 DEF CallKept, Running, PinsCall
  <2> QED
    BY <1>4, <2>1, <2>2, FirstLeft
<1>6. PICK k : k = Pins!Criteria(f)
  OBVIOUS
<1>7. PICK r : r = IF Pins!Invalid(k) THEN [q EXCEPT !.pc = "failed"]
                   ELSE IF Pins!Eligible(k, q.now) THEN [q EXCEPT !.pc = "award"] ELSE Pins!Rest(q)
  OBVIOUS
<1>8. call' = [call EXCEPT ![c] = r] /\ UNCHANGED <<scenario, log, clock, enabled, shelf, unlocked, equipped>>
  BY <1>2, <1>4, <1>6, <1>7 DEF Pins!ChallengeEligible
<1>9. /\ r \in PinsCall /\ r.now = q.now /\ r.pc \in {"failed", "award", "judge", "ok"}
      /\ r.pc = "award" => ~Pins!Invalid(k) /\ Pins!Eligible(k, q.now) /\ r.left = q.left
      /\ r.pc \in {"judge", "ok"} => ~Pins!Eligible(k, q.now) /\ r.left = q.left \ {f} /\ (r.pc = "judge" <=> q.left # {f})
  <2>1. CASE Pins!Invalid(k)
    BY <1>3, <1>7, <2>1 DEF PinsCall
  <2>2. CASE ~Pins!Invalid(k) /\ Pins!Eligible(k, q.now)
    BY <1>3, <1>7, <2>2 DEF PinsCall
  <2>3. CASE ~Pins!Invalid(k) /\ ~Pins!Eligible(k, q.now)
    BY <1>3, <1>4, <1>7, <2>3, RestOfCall
  <2> QED
    BY <2>1, <2>2, <2>3
<1>10. call'[c] = r
  BY <1>1, <1>8 DEF PinsTypes
<1>11. /\ \A i \in due'[c] : i \in due[c] /\ i \in Pins!Challenges /\ Pins!Complete(i, q.now)
       /\ \A i \in Pins!Challenges : i \in merits[c] \/ Pins!Deserved(Pins!Criteria(i)) => i \in merits'[c]
  <2>1. Pins!Watched(c)
    BY <1>2, <1>3, <1>9, <1>10 DEF Pins!Watched
  <2> QED
    BY <1>8, <1>9, <1>10, <2>1, StillComplete
<1>12. unlocked' \in [Pins!Challenges -> Pins!Instants \cup {None}] /\ unlocked' = unlocked
  BY <1>1, <1>8 DEF PinsTypes
<1>13. \A i \in due'[c] : /\ Running(r) => i \in r.left \/ unlocked'[i] # None
                          /\ r.pc = "ok" => unlocked'[i] # None
  <2> SUFFICES ASSUME NEW i \in due'[c]
               PROVE  /\ Running(r) => i \in r.left \/ unlocked[i] # None
                      /\ r.pc = "ok" => unlocked[i] # None
    BY <1>12
  <2>1. i \in q.left \/ unlocked[i] # None
    BY <1>3, <1>11 DEF CallKept, Running
  <2>2. i = f => Pins!Eligible(k, q.now)
    BY <1>6, <1>11 DEF Pins!Complete
  <2>3. q.left = {f} /\ i # f => unlocked[i] # None
    BY <2>1
  <2> QED
    BY <1>9, <2>1, <2>2, <2>3 DEF Running
<1>14. r.pc = "award" => Pins!First(r) \in merits'[c]
  <2> SUFFICES ASSUME r.pc = "award" PROVE f \in merits'[c]
    BY <1>4, <1>9 DEF Pins!First
  <2>1. PICK n \in Pins!Instants : n = q.now /\ n <= clock
    BY <1>3 DEF CallKept
  <2>2. Pins!Eligible(k, n) /\ ~Pins!Invalid(k)
    BY <1>9, <2>1
  <2>3. Pins!Deserved(k)
    BY <1>1, <1>5, <1>6, <2>1, <2>2, CatalogSane, EligibleEarned DEF PinsTypes
  <2> QED
    BY <1>5, <1>6, <1>11, <2>3
<1>15. r.now \in Pins!Instants /\ r.now <= clock /\ (Running(r) => r.left # {})
  BY <1>3, <1>5, <1>9 DEF CallKept, Running
<1>16. call[c].pc = "judge" /\ r.pc # "new" /\ call[c].now = r.now
  BY <1>2, <1>3, <1>9
<1> QED
  BY <1>8, <1>9, <1>12, <1>13, <1>14, <1>15, <1>16, PinsCalled

\* An unlock is awarded.
LEMMA PinsAward ==
  ASSUME PinsSane, PinsInv, Pins!Remember, NEW c \in Calls, Pins!AwardMapPinUnlock(c)
  PROVE  PinsInv'
<1>1. PinsTypes /\ None \notin Pins!Instants
  <2>1. PinsTypes
    BY DEF PinsInv
  <2> QED
    BY <2>1, CatalogSane DEF PinsSane
<1>2. PICK q : q = call[c]
  OBVIOUS
<1>3. q \in PinsCall /\ CallKept(q, due[c], merits[c]) /\ q.pc = "award"
  BY <1>1, <1>2 DEF PinsInv, PinsTypes, Pins!AwardMapPinUnlock
<1>4. PICK f : f = Pins!First(q)
  OBVIOUS
<1>5. f \in q.left /\ f \in Pins!Challenges /\ f \in merits[c] /\ q.now \in Pins!Instants /\ q.now <= clock
  <2>1. Pins!Challenges \in SUBSET Nat
    BY <1>1, CatalogSane
  <2>2. q.left # {} /\ q.left \subseteq Pins!Challenges
    BY <1>3 DEF CallKept, Running, PinsCall
  <2> QED
    BY <1>3, <1>4, <2>1, <2>2, FirstLeft DEF CallKept
<1>6. PICK held \in BOOLEAN : held <=> f \in enabled /\ Pins!Pin(f) \in shelf
  OBVIOUS
<1>7. PICK r : r = IF held \/ unlocked[f] # None THEN Pins!Rest(q) ELSE [q EXCEPT !.pc = "failed"]
  OBVIOUS
<1>8. /\ call' = [call EXCEPT ![c] = r]
      /\ unlocked' = IF held THEN [unlocked EXCEPT ![f] = IF unlocked[f] = None THEN q.now ELSE unlocked[f]] ELSE unlocked
      /\ UNCHANGED <<scenario, log, clock, enabled, shelf, equipped>>
  BY <1>2, <1>4, <1>6, <1>7 DEF Pins!AwardMapPinUnlock, Pins!Inserted
<1>9. /\ unlocked' \in [Pins!Challenges -> Pins!Instants \cup {None}]
      /\ \A i \in Pins!Challenges : unlocked[i] # None => unlocked'[i] = unlocked[i]
      /\ \A i \in Pins!Challenges : unlocked[i] = None /\ unlocked'[i] # None => i = f /\ unlocked'[i] = q.now
      /\ held => unlocked'[f] # None
  BY <1>1, <1>5, <1>8 DEF PinsTypes
<1>10. /\ r \in PinsCall /\ r.now = q.now /\ r.pc \in {"failed", "judge", "ok"}
       /\ r.pc \in {"judge", "ok"} => unlocked'[f] # None /\ r.left = q.left \ {f} /\ (r.pc = "judge" <=> q.left # {f})
  <2>1. CASE held \/ unlocked[f] # None
    <3>1. unlocked'[f] # None
      BY <1>5, <1>9, <2>1
    <3> QED
      BY <1>3, <1>4, <1>7, <2>1, <3>1, RestOfCall
  <2>2. CASE ~(held \/ unlocked[f] # None)
    BY <1>3, <1>7, <2>2 DEF PinsCall
  <2> QED
    BY <2>1, <2>2
<1>11. call'[c] = r
  BY <1>1, <1>8 DEF PinsTypes
<1>12. \A i \in due'[c] : i \in due[c] /\ i \in Pins!Challenges
  <2>1. Pins!Watched(c)
    BY <1>2, <1>3, <1>10, <1>11 DEF Pins!Watched
  <2> QED
    BY <1>8, <2>1, StillComplete
<1>13. \A i \in due'[c] : /\ Running(r) => i \in r.left \/ unlocked'[i] # None
                          /\ r.pc = "ok" => unlocked'[i] # None
  <2> SUFFICES ASSUME NEW i \in due'[c]
               PROVE  /\ Running(r) => i \in r.left \/ unlocked'[i] # None
                      /\ r.pc = "ok" => unlocked'[i] # None
    OBVIOUS
  <2>1. i \in q.left \/ unlocked[i] # None
    BY <1>3, <1>12 DEF CallKept, Running
  <2>2. i \in q.left \/ unlocked'[i] # None
    BY <1>9, <1>12, <2>1
  <2>3. q.left = {f} /\ i # f => unlocked'[i] # None
    BY <2>2
  <2> QED
    BY <1>10, <2>2, <2>3 DEF Running
<1>14. Running(r) => r.left # {}
  BY <1>5, <1>10 DEF Running
<1>15. \A i \in Pins!Challenges : unlocked[i] = None /\ unlocked'[i] # None => unlocked'[i] = r.now /\ i \in merits[c]
  BY <1>5, <1>9, <1>10
<1>16. call[c].pc = "award" /\ r.pc \notin {"new", "award"} /\ call[c].now = r.now /\ r.now \in Pins!Instants /\ r.now <= clock
  BY <1>2, <1>3, <1>5, <1>10
<1> QED
  BY <1>8, <1>9, <1>10, <1>13, <1>14, <1>15, <1>16, PinsCalled

\* The picker credits a challenge that the player completed.
LEMMA PinsEquip ==
  ASSUME PinsSane, PinsInv, NEW p \in Pins!Pins, Pins!EquipMapPin(p)
  PROVE  equipped' \in Pins!Challenges /\ unlocked[equipped'] # None
<1>1. PinsTypes /\ Pins!Challenges \in SUBSET Nat /\ Pins!Instants \in SUBSET Nat
  <2>1. PinsTypes
    BY DEF PinsInv
  <2> QED
    BY <2>1, CatalogSane
<1> DEFINE routes == {i \in Pins!Challenges : Pins!Pin(i) = p /\ unlocked[i] # None}
           Oldest(i) == \A j \in routes : unlocked[j] > unlocked[i] \/ (unlocked[j] = unlocked[i] /\ j >= i)
<1>2. routes # {} /\ equipped' = CHOOSE i \in routes : Oldest(i)
  BY DEF Pins!EquipMapPin
<1>3. \A i \in routes : i \in Nat /\ unlocked[i] \in Nat
  BY <1>1 DEF PinsTypes
<1>4. PICK t \in {unlocked[i] : i \in routes} : \A v \in {unlocked[i] : i \in routes} : t <= v
  <2> HIDE DEF routes
  <2> QED
    BY <1>2, <1>3, LeastOf
<1>5. PICK i \in {j \in routes : unlocked[j] = t} : \A j \in {n \in routes : unlocked[n] = t} : i <= j
  <2> HIDE DEF routes
  <2>1. {j \in routes : unlocked[j] = t} # {} /\ {j \in routes : unlocked[j] = t} \in SUBSET Nat
    BY <1>3, <1>4
  <2> QED
    BY <2>1, LeastOf
<1>6. i \in routes /\ Oldest(i)
  <2>1. ASSUME NEW j \in routes PROVE unlocked[j] > unlocked[i] \/ (unlocked[j] = unlocked[i] /\ j >= i)
    <3> HIDE DEF routes
    <3>1. t <= unlocked[j] /\ unlocked[i] = t /\ t \in Nat /\ unlocked[j] \in Nat /\ i \in Nat /\ j \in Nat
      BY <1>3, <1>4, <1>5
    <3>2. unlocked[j] = t => i <= j
      BY <1>5
    <3> QED
      BY <3>1, <3>2
  <2> QED
    BY <1>5, <2>1
<1>7. equipped' \in routes
  <2> HIDE DEF routes, Oldest
  <2> QED
    BY <1>2, <1>6
<1> QED
  BY <1>7

LEMMA PinsBegin ==
  ASSUME PinsSane, Pins!Init
  PROVE  PinsInv
<1>1. /\ scenario \in DOMAIN Scenarios /\ log = [n \in Pins!Instants |-> None] /\ clock = 1 /\ equipped = None
      /\ unlocked = [i \in Pins!Challenges |-> None]
      /\ call = [c \in Calls |-> [pc |-> "new", now |-> 0, left |-> {}]]
      /\ due = [c \in Calls |-> Pins!Challenges] /\ merits = [c \in Calls |-> {}]
  BY DEF Pins!Init
<1>2. 1 \in Pins!Instants
  <2>1. SaneWeeks(Pins!Catalog.weeks)
    BY <1>1 DEF PinsSane, Pins!Catalog
  <2> QED
    BY <2>1 DEF SaneWeeks, Pins!Instants
<1>3. PinsTypes
  BY <1>1, <1>2 DEF PinsTypes, PinsCall
<1>4. ASSUME NEW c \in Calls PROVE CallKept(call[c], due[c], merits[c])
  BY <1>1 DEF CallKept, Running
<1>5. Pins!UnlocksEarned
  BY <1>1 DEF Pins!UnlocksEarned
<1> QED
  BY <1>1, <1>3, <1>4, <1>5 DEF PinsInv

LEMMA PinsStep ==
  ASSUME PinsSane, PinsInv, [Pins!Next]_Pins!vars
  PROVE  PinsInv'
<1>1. /\ log \in [Pins!Instants -> Pins!Catalog.rows \cup {None}] /\ clock \in Pins!Instants
      /\ Pins!Instants \in SUBSET Nat /\ clock <= clock
  <2>1. PinsTypes
    BY DEF PinsInv
  <2>2. Pins!Instants \in SUBSET Nat
    BY <2>1, CatalogSane
  <2> QED
    BY <2>1, <2>2 DEF PinsTypes
<1>2. equipped # None => equipped \in Pins!Challenges /\ unlocked[equipped] # None
  BY DEF PinsInv
<1>3. ASSUME Pins!Remember, NEW c \in Calls,
             Pins!EvaluateMapPinsForUser(c) \/ Pins!ChallengeEligible(c) \/ Pins!AwardMapPinUnlock(c)
      PROVE  PinsInv'
  BY <1>3, PinsEvaluate, PinsJudge, PinsAward
<1>4. ASSUME Pins!Remember, NEW p \in Pins!Pins, Pins!EquipMapPin(p) PROVE PinsInv'
  <2>1. UNCHANGED <<scenario, unlocked, call, log, clock>>
    BY <1>4 DEF Pins!EquipMapPin
  <2>2. equipped' \in Pins!Challenges /\ unlocked[equipped'] # None
    BY <1>4, PinsEquip
  <2> QED
    BY <1>1, <1>4, <2>1, <2>2, PinsPlayed
<1>5. ASSUME Pins!Remember, NEW p \in Pins!Pins, Pins!RetirePin(p) PROVE PinsInv'
  <2>1. UNCHANGED <<scenario, unlocked, call, log, clock, equipped>>
    BY <1>5 DEF Pins!RetirePin
  <2> QED
    BY <1>1, <1>2, <1>5, <2>1, PinsPlayed
<1>6. ASSUME Pins!Remember, NEW x \in Pins!Challenges, Pins!RetireChallenge(x) PROVE PinsInv'
  <2>1. UNCHANGED <<scenario, unlocked, call, log, clock, equipped>>
    BY <1>6 DEF Pins!RetireChallenge
  <2> QED
    BY <1>1, <1>2, <1>6, <2>1, PinsPlayed
<1>7. ASSUME Pins!Remember, NEW row \in Pins!Catalog.rows, NEW n \in Pins!Instants, Pins!Record(row, n) PROVE PinsInv'
  <2>1. UNCHANGED <<scenario, unlocked, call, clock, equipped>> /\ log' = [log EXCEPT ![n] = row]
    BY <1>7 DEF Pins!Record
  <2>2. log' \in [Pins!Instants -> Pins!Catalog.rows \cup {None}]
    BY <1>1, <2>1
  <2> QED
    BY <1>1, <1>2, <1>7, <2>1, <2>2, PinsPlayed
<1>8. ASSUME Pins!Remember, NEW rows, Pins!Remove(rows) PROVE PinsInv'
  <2>1. UNCHANGED <<scenario, unlocked, call, clock, equipped>> /\ log' = [i \in Pins!Instants |-> IF i \in rows THEN None ELSE log[i]]
    BY <1>8 DEF Pins!Remove
  <2>2. log' \in [Pins!Instants -> Pins!Catalog.rows \cup {None}]
    BY <1>1, <2>1
  <2> QED
    BY <1>1, <1>2, <1>8, <2>1, <2>2, PinsPlayed
<1>9. ASSUME Pins!Remember, Pins!ClearEquippedMapPin PROVE PinsInv'
  <2>1. UNCHANGED <<scenario, unlocked, call, log, clock>> /\ equipped' = None
    BY <1>9 DEF Pins!ClearEquippedMapPin
  <2> QED
    BY <1>1, <1>9, <2>1, PinsPlayed
<1>10. ASSUME Pins!Remember, Pins!Tick PROVE PinsInv'
  <2>1. UNCHANGED <<scenario, unlocked, call, log, equipped>> /\ clock' = clock + 1 /\ clock' \in Pins!Instants
    BY <1>10 DEF Pins!Tick
  <2>2. clock <= clock'
    BY <1>1, <2>1
  <2> QED
    BY <1>1, <1>2, <1>10, <2>1, <2>2, PinsPlayed
<1>11. ASSUME Pins!Remember, Pins!Action PROVE PinsInv'
  <2>1. CASE \E i \in Pins!Recorded : Pins!Withdraw(i)
    BY <1>8, <1>11, <2>1 DEF Pins!Withdraw
  <2>2. CASE \E p \in Pins!Places : Pins!DeletePost(p)
    BY <1>8, <1>11, <2>2 DEF Pins!DeletePost
  <2>3. CASE \E u \in Pins!Others : Pins!DeleteUserCascade(u)
    BY <1>8, <1>11, <2>3 DEF Pins!DeleteUserCascade
  <2> QED
    BY <1>3, <1>4, <1>5, <1>6, <1>7, <1>9, <1>10, <1>11, <2>1, <2>2, <2>3 DEF Pins!Action
<1> QED
  BY <1>11, PinsStutter DEF Pins!Next

LEMMA PinsInvariant == Pins!Spec /\ PinsSane => []PinsInv
<1>1. Pins!Init /\ PinsSane => PinsInv
  BY PinsBegin
<1>2. PinsSane /\ PinsInv /\ [Pins!Next]_Pins!vars => PinsInv'
  BY PinsStep
<1>3. CASE PinsSane
  BY <1>1, <1>2, <1>3, PTL DEF Pins!Spec
<1> QED
  BY <1>3

\* For any catalog, rows and number of calls: a call that succeeds leaves nothing
\* locked that was complete from its beginning to its end, though other calls
\* award meanwhile, rows come late and go, and deployments retire
\* (pins/progress.go).
THEOREM EvaluationsComplete == Pins!Spec /\ PinsSane => []Pins!EvaluationComplete
<1>1. PinsInv => Pins!EvaluationComplete
  BY DEF PinsInv, CallKept, Pins!EvaluationComplete
<1> QED
  BY <1>1, PinsInvariant, PTL

\* For any catalog and rows, which come late and are deleted at any time: every
\* unlock was deserved at some moment while the call that dates it ran - a streak
\* without a timeout in it, a week that was over and in which nobody was ahead
\* (pins/progress_evaluators.go, progress.go).
THEOREM UnlocksAreEarned == Pins!Spec /\ PinsSane => []Pins!UnlocksEarned
<1>1. PinsInv => Pins!UnlocksEarned
  BY DEF PinsInv
<1> QED
  BY <1>1, PinsInvariant, PTL

\* Whatever is retired, and whichever of a pin's challenges is credited, the
\* equipped pin is shown, unlocked and selected (pins/map_pins.go).
THEOREM SelectionIsShown == Pins!Spec /\ PinsSane => []Pins!SelectionShown
<1>1. ASSUME PinsInv PROVE Pins!SelectionShown
  <2>1. SUFFICES ASSUME equipped # None PROVE [pin |-> Pins!Pin(equipped), unlocked |-> TRUE, selected |-> TRUE] \in Pins!MapPinsForUser
    BY DEF Pins!SelectionShown
  <2>2. equipped \in Pins!Challenges /\ unlocked[equipped] # None
    BY <1>1, <2>1 DEF PinsInv
  <2>3. PICK p \in Pins!Pins : p = Pins!Pin(equipped)
    BY <2>2 DEF Pins!Pins
  <2>4. Pins!Selected(p) /\ Pins!Route(equipped)
    BY <2>1, <2>2, <2>3 DEF Pins!Selected, Pins!Route
  <2>5. \E i \in Pins!Challenges : Pins!Pin(i) = p /\ Pins!Route(i) /\ unlocked[i] # None
    BY <2>2, <2>3, <2>4
  <2> QED
    BY <2>3, <2>4, <2>5 DEF Pins!MapPinsForUser
<1> QED
  BY <1>1, PinsInvariant, PTL
=============================================================================
