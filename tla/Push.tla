-------------------------------- MODULE Push --------------------------------
(***************************************************************************)
(* Push notifications: a queue of fan-out jobs with its gauge and its count *)
(* of drops, the workers that deliver a job to the subscriptions of its     *)
(* targets, the gate that limits the sends to one push service, the barrier *)
(* that keeps a delivery from overtaking a block, and the subscriptions     *)
(* with their cap.  All users are members of the group that is notified.    *)
(***************************************************************************)
EXTENDS Integers, Sequences, FiniteSets

CONSTANTS
  Users,
  Endpoints,      \* browser endpoints
  HostOf,         \* HostOf[e]: the push service of an endpoint
  Notices,        \* notifications of a behaviour
  Senders,        \* users who cause them
  Workers,
  Subscribers,    \* subscribe requests in flight
  None,
  QueueDepth,     \* PUSH_QUEUE_DEPTH
  PerHost,        \* PUSH_DELIVERY_PER_HOST
  MaxPerUser,     \* PUSH_MAX_SUBSCRIPTIONS_PER_USER
  Mix             \* sets of operations; a behaviour uses one of them

VARIABLES
  ops,       \* the operations of this behaviour
  owner,     \* push_subscriptions: endpoint -> user or None
  muted,     \* users whose group notifications are off
  barred,    \* user_blocks
  note,      \* the notifications on their way into the queue
  jobs,      \* the jobs channel
  worker,    \* the workers
  subscribe, \* the subscribe requests
  depth,     \* push_queue_depth
  drops,     \* push_drops_total
  halt,      \* the shutdown: "no", "cancelled", "stopping" or "stopped"
  taken      \* history: jobs that workers took

vars == <<ops, owner, muted, barred, note, jobs, worker, subscribe, depth, drops, halt, taken>>
queue == <<note, jobs, depth, drops, halt, taken>>

Operations == {"block", "stop", "mute", "subscribe"}
Target == [endpoint: Endpoints, user: Users]
Note == [pc: {"none", "resolved", "counted", "done"}, sender: Users \cup {None}, to: SUBSET Users]
NoNote == [pc |-> "none", sender |-> None, to |-> {}]
WorkerState == [pc: {"idle", "took", "listed", "authorized", "sending", "sent", "gone"},
                job: Notices \cup {None}, todo: SUBSET Target, target: {None} \cup Target]
Idle == [pc |-> "idle", job |-> None, todo |-> {}, target |-> None]
Subscription == [pc: {"idle", "checked", "locked"}, user: Users \cup {None}, endpoint: Endpoints \cup {None}]
NoSubscription == [pc |-> "idle", user |-> None, endpoint |-> None]

Init ==
  /\ ops \in Mix
  /\ owner \in [Endpoints -> Users \cup {None}]
  /\ \A u \in Users : Cardinality({e \in Endpoints : owner[e] = u}) <= MaxPerUser
  /\ muted = {} /\ barred = {}
  /\ note = [n \in Notices |-> NoNote] /\ jobs = <<>>
  /\ worker = [w \in Workers |-> Idle] /\ subscribe = [s \in Subscribers |-> NoSubscription]
  /\ depth = 0 /\ drops = 0 /\ halt = "no" /\ taken = 0

-----------------------------------------------------------------------------
(* Into the queue. *)

\* GroupTargets.
Notified(u) == Users \ (muted \cup {u})

\* NotifyNewMessage, NotifyNewChallenge, NotifyPartyStarted.
Notify(n, u) ==
  /\ note[n].pc = "none" /\ Notified(u) # {}
  /\ note' = [note EXCEPT ![n] = [pc |-> "resolved", sender |-> u, to |-> Notified(u)]]
  /\ UNCHANGED <<ops, owner, muted, barred, jobs, worker, subscribe, depth, drops, halt, taken>>

Enqueued(n) == [note EXCEPT ![n].pc = "done"]

\* enqueue: under enqueueMu for reading, which a counted notification holds.
Countable(n) ==
  IF halt \in {"stopping", "stopped"}
    THEN /\ drops' = drops + 1 /\ depth' = depth
         /\ note' = Enqueued(n)
    ELSE /\ depth' = depth + 1 /\ drops' = drops
         /\ note' = [note EXCEPT ![n].pc = "counted"]

Count(n) ==
  /\ note[n].pc = "resolved"
  /\ Countable(n)
  /\ UNCHANGED <<ops, owner, muted, barred, jobs, worker, subscribe, halt, taken>>

\* The job is sent or, when the queue is full, dropped.
Publish(n) ==
  /\ note[n].pc = "counted"
  /\ note' = Enqueued(n)
  /\ IF Len(jobs) < QueueDepth
       THEN jobs' = Append(jobs, n) /\ UNCHANGED <<depth, drops>>
       ELSE depth' = depth - 1 /\ drops' = drops + 1 /\ UNCHANGED jobs
  /\ UNCHANGED <<ops, owner, muted, barred, worker, subscribe, halt, taken>>

-----------------------------------------------------------------------------
(* The workers. *)

Take(w) ==
  /\ worker[w].pc = "idle" /\ jobs # <<>>
  /\ worker' = [worker EXCEPT ![w].pc = "took", ![w].job = Head(jobs)]
  /\ jobs' = Tail(jobs) /\ depth' = depth - 1 /\ taken' = taken + 1
  /\ UNCHANGED <<ops, owner, muted, barred, note, subscribe, drops, halt>>

\* ListForGroupUsers: who is a target still and wants to be.
Recipients(n) == {[endpoint |-> e, user |-> owner[e]] :
  e \in {x \in Endpoints : owner[x] \in note[n].to \ muted}}

\* A lookup that fails ends the job, too.
List(w) ==
  /\ worker[w].pc = "took"
  /\ \E todo \in {Recipients(worker[w].job), {}} :
       worker' = [worker EXCEPT ![w] = IF todo = {} THEN Idle ELSE [@ EXCEPT !.pc = "listed", !.todo = todo]]
  /\ UNCHANGED <<ops, owner, muted, barred, subscribe, queue>>

Blocked(u, v) == <<u, v>> \in barred \/ <<v, u>> \in barred
Remaining(w, t) == worker[w].todo \ {t}
Next_(w, t) == IF Remaining(w, t) = {} THEN Idle ELSE [worker[w] EXCEPT !.pc = "listed", !.todo = Remaining(w, t), !.target = None]

\* FilterDelivery: the check and the delivery are under the read lock of privacy.
Authorize(w, t) ==
  /\ worker[w].pc = "listed" /\ t \in worker[w].todo
  /\ worker' = [worker EXCEPT ![w] = IF Blocked(t.user, note[@.job].sender)
       THEN Next_(w, t) ELSE [@ EXCEPT !.pc = "authorized", !.target = t]]
  /\ UNCHANGED <<ops, owner, muted, barred, subscribe, queue>>

Sending(h) == {w \in Workers : worker[w].pc \in {"sending", "sent"} /\ HostOf[worker[w].target.endpoint] = h}

\* hostSem.
Gate(h) == Cardinality(Sending(h)) < PerHost

Acquire(w) ==
  /\ worker[w].pc = "authorized" /\ Gate(HostOf[worker[w].target.endpoint])
  /\ worker' = [worker EXCEPT ![w].pc = "sending"]
  /\ UNCHANGED <<ops, owner, muted, barred, subscribe, queue>>

\* The delivery's time is over, at the gate or later.
DeliveryTimeout(w) ==
  /\ worker[w].pc \in {"authorized", "sending", "sent"}
  /\ worker' = [worker EXCEPT ![w] = Next_(w, @.target)]
  /\ UNCHANGED <<ops, owner, muted, barred, subscribe, queue>>

Send(w) ==
  /\ worker[w].pc = "sending"
  /\ worker' = [worker EXCEPT ![w].pc = "sent"]
  /\ UNCHANGED <<ops, owner, muted, barred, subscribe, queue>>

\* A subscription that is gone is deleted by its id, which a refreshed
\* subscription of the same endpoint keeps.
Settle(w, gone) ==
  /\ worker[w].pc = "sent"
  /\ owner' = IF gone THEN [owner EXCEPT ![worker[w].target.endpoint] = None] ELSE owner
  /\ worker' = [worker EXCEPT ![w] = Next_(w, @.target)]
  /\ UNCHANGED <<ops, muted, barred, subscribe, queue>>

WorkerEnds(w) ==
  /\ worker[w].pc = "idle" /\ halt # "no"
  /\ worker' = [worker EXCEPT ![w].pc = "gone"]
  /\ UNCHANGED <<ops, owner, muted, barred, subscribe, queue>>

\* Stop's write lock waits for the readers.
NoEnqueue == \A n \in Notices : note[n].pc # "counted"

\* main cancels the workers' context and calls Stop.
Cancel ==
  /\ "stop" \in ops /\ halt = "no"
  /\ halt' = "cancelled"
  /\ UNCHANGED <<ops, owner, muted, barred, worker, subscribe, note, jobs, depth, drops, taken>>

Stop ==
  /\ halt = "cancelled" /\ NoEnqueue
  /\ halt' = "stopping"
  /\ UNCHANGED <<ops, owner, muted, barred, worker, subscribe, note, jobs, depth, drops, taken>>

\* What no worker took is dropped.
StopReturns ==
  /\ halt = "stopping" /\ \A w \in Workers : worker[w].pc = "gone"
  /\ halt' = "stopped"
  /\ jobs' = <<>> /\ depth' = depth - Len(jobs) /\ drops' = drops + Len(jobs)
  /\ UNCHANGED <<ops, owner, muted, barred, worker, subscribe, note, taken>>

-----------------------------------------------------------------------------
(* Preferences and subscriptions. *)

\* Mutant: a block does not wait for deliveries.
NoDelivery_Unchecked == TRUE

\* SerializePrivacyChange.
NoDelivery == \A w \in Workers : worker[w].pc \notin {"authorized", "sending", "sent"}

Block(u, v) ==
  /\ "block" \in ops /\ u # v /\ <<u, v>> \notin barred /\ NoDelivery
  /\ barred' = barred \cup {<<u, v>>}
  /\ UNCHANGED <<ops, owner, muted, worker, subscribe, queue>>

Mute(u) ==
  /\ "mute" \in ops /\ u \notin muted
  /\ muted' = muted \cup {u}
  /\ UNCHANGED <<ops, owner, barred, worker, subscribe, queue>>

Owned(u) == {e \in Endpoints : owner[e] = u}

\* Subscribe: a friendly check first,
Subscribe(s, u, e) ==
  /\ "subscribe" \in ops /\ subscribe[s].pc = "idle"
  /\ Cardinality(Owned(u)) >= MaxPerUser => e \in Owned(u)
  /\ subscribe' = [subscribe EXCEPT ![s] = [pc |-> "checked", user |-> u, endpoint |-> e]]
  /\ UNCHANGED <<ops, owner, muted, barred, worker, queue>>

UserFree(u) == \A s \in Subscribers : ~(subscribe[s].pc = "locked" /\ subscribe[s].user = u)

\* then, with the user's row locked, the check that counts,
UpsertCounts(s) ==
  /\ subscribe[s].pc = "checked" /\ UserFree(subscribe[s].user)
  /\ LET u == subscribe[s].user IN
     subscribe' = [subscribe EXCEPT ![s] =
       IF subscribe[s].endpoint \notin Owned(u) /\ Cardinality(Owned(u)) >= MaxPerUser
         THEN NoSubscription ELSE [@ EXCEPT !.pc = "locked"]]
  /\ UNCHANGED <<ops, owner, muted, barred, worker, queue>>

\* and the row, which an endpoint's former owner loses.
UpsertWrites(s) ==
  /\ subscribe[s].pc = "locked"
  /\ owner' = [owner EXCEPT ![subscribe[s].endpoint] = subscribe[s].user]
  /\ subscribe' = [subscribe EXCEPT ![s] = NoSubscription]
  /\ UNCHANGED <<ops, muted, barred, worker, queue>>

\* One endpoint, or all of them.
Unsubscribe(u, E) ==
  /\ "subscribe" \in ops /\ E # {} /\ E \subseteq Owned(u)
  /\ Cardinality(E) = 1 \/ E = Owned(u)
  /\ owner' = [e \in Endpoints |-> IF e \in E THEN None ELSE owner[e]]
  /\ UNCHANGED <<ops, muted, barred, worker, subscribe, queue>>

-----------------------------------------------------------------------------

WorkerStep(w) ==
  \/ Take(w) \/ List(w) \/ Acquire(w) \/ DeliveryTimeout(w) \/ Send(w) \/ WorkerEnds(w)
  \/ (\E t \in Target : Authorize(w, t)) \/ (\E gone \in BOOLEAN : Settle(w, gone))

Next ==
  \/ \E n \in Notices : Count(n) \/ Publish(n) \/ \E u \in Senders : Notify(n, u)
  \/ \E w \in Workers : WorkerStep(w)
  \/ Cancel \/ Stop \/ StopReturns
  \/ \E u \in Users : Mute(u) \/ (\E v \in Users : Block(u, v)) \/ (\E E \in SUBSET Endpoints : Unsubscribe(u, E))
  \/ \E s \in Subscribers :
       UpsertCounts(s) \/ UpsertWrites(s) \/ \E u \in Users, e \in Endpoints : Subscribe(s, u, e)

Spec == Init /\ [][Next]_vars

\* Handlers and workers go on; every step of a delivery has a deadline.
Fairness ==
  /\ \A n \in Notices : WF_vars(Count(n) \/ Publish(n))
  /\ \A w \in Workers : WF_vars(WorkerStep(w))
  /\ WF_vars(Stop) /\ WF_vars(StopReturns)

FairSpec == Spec /\ Fairness

-----------------------------------------------------------------------------
(* Properties. *)

TypeOK ==
  /\ ops \subseteq Operations
  /\ owner \in [Endpoints -> Users \cup {None}] /\ muted \subseteq Users /\ barred \subseteq Users \X Users
  /\ note \in [Notices -> Note] /\ jobs \in Seq(Notices) /\ Len(jobs) <= QueueDepth
  /\ worker \in [Workers -> WorkerState] /\ subscribe \in [Subscribers -> Subscription]
  /\ depth \in Int /\ drops \in Nat /\ halt \in {"no", "cancelled", "stopping", "stopped"} /\ taken \in Nat

\* The queue's gauge is never below what is queued, every notification that was
\* let go was taken by a worker, waits, or is counted as a drop, and nothing is
\* left in the queue when Stop has returned, however late a handler enqueues.
QueueAccounted ==
  /\ depth = Len(jobs) + Cardinality({n \in Notices : note[n].pc = "counted"})
  /\ Cardinality({n \in Notices : note[n].pc = "done"}) = taken + Len(jobs) + drops
  /\ halt = "stopped" => jobs = <<>> /\ depth = 0

\* No notification about what a user did is sent to somebody across a block
\* that has been committed, even if it was queued or authorized before.
NoPushAcrossBlock ==
  [][\A w \in Workers : Send(w) => ~Blocked(worker[w].target.user, note[worker[w].job].sender)]_vars

\* Nobody holds more subscriptions than the cap, whatever requests race and
\* whatever endpoints change their owner.
CapKept == \A u \in Users : Cardinality(Owned(u)) <= MaxPerUser

\* No more sends to a push service at a time than the gate lets through.
HostsSpared == \A e \in Endpoints : Cardinality(Sending(HostOf[e])) <= PerHost

\* Every job leaves the queue, and Stop returns.
QueueMoves ==
  /\ \A n \in Notices : (\E i \in 1..Len(jobs) : jobs[i] = n) ~> (\A i \in 1..Len(jobs) : jobs[i] # n)
  /\ (halt = "cancelled") ~> (halt = "stopped")
=============================================================================
