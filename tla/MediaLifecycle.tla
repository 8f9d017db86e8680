--------------------------- MODULE MediaLifecycle ---------------------------
(***************************************************************************)
(* Media of one author, from upload to deletion: the object store, the rows *)
(* that refer to objects (photos, chat_media), the processing jobs of       *)
(* videos and the durable deletion jobs, with everyone that works on them:  *)
(* upload handlers, media-processing workers, the cleanup runner and an     *)
(* account deletion.                                                        *)
(*                                                                          *)
(* The store and the database share no transaction.  Every call to either   *)
(* may fail; Faults names the ways considered and MaxFaults bounds how many *)
(* happen:                                                                  *)
(*   "put"     a Put fails, nothing is stored                               *)
(*   "lost"    a Put is reported failed, but the object is stored           *)
(*   "delete"  a Delete fails                                               *)
(*   "db"      a statement or transaction fails and leaves nothing          *)
(*   "unknown" a commit is reported failed, but took effect                 *)
(*   "cancel"  a request's (or, at shutdown, the worker's) context ends     *)
(*   "crash"   the process dies                                             *)
(*   "slow"    a live worker exceeds staleProcessingInterval                *)
(***************************************************************************)
EXTENDS Naturals, FiniteSets

CONSTANTS
  Keys,       \* object keys: every stored object gets one never used before
  Uploads,    \* upload requests; a video's processing job has its upload's name
  Workers,    \* media workers (two while an old process still shuts down)
  None,       \* no key, no job, no worker
  MaxGroups,  \* bound on the groups an upload is posted to
  Faults, MaxFaults,
  AccountMayGo \* whether the author may delete the account

ASSUME NamesAssumption ==
  /\ None \notin Keys \cup Uploads \cup Workers
  /\ Uploads \cap Workers = {}

ASSUME BoundsAssumption == MaxGroups \in Nat \ {0} /\ MaxFaults \in Nat /\ AccountMayGo \in BOOLEAN

VARIABLES
  store,       \* keys of the objects in the object store
  used,        \* history: every key generated so far
  photos,      \* photos rows not removed, by storage_key
  attachments, \* chat_media rows, by storage_key
  jobs,        \* media_processing_jobs
  obligations, \* media_deletion_jobs not completed, by storage_key
  due,         \* those of them whose next_attempt_at has come
  act,         \* upload handlers and workers
  cleanup,     \* the cleanup runner: its position and the keys it holds
  account,     \* the author's account, and the photo keys its deletion has read
  results,     \* history: how often each job's rows were created
  faults       \* faults so far

tables == <<photos, attachments, jobs, obligations, due>>
vars == <<store, used, tables, act, cleanup, account, results, faults>>

Actors == Uploads \cup Workers
Kinds == {"photo", "chat"}
Steps == {"idle", "read", "put", "commit", "undo", "fail", "done"}
Statuses == {"none", "queued", "processing", "ready", "failed", "purged"}

\* stale: started_at is older than staleProcessingInterval; old: queued_at is
\* older than abandonedProcessingInterval.
Job == [status : Statuses, key : Keys \cup {None}, kind : Kinds, groups : Nat,
        lease : Workers \cup {None}, stale : BOOLEAN, old : BOOLEAN]

Actor == [pc : Steps, kind : Kinds, video : BOOLEAN, groups : Nat, keys : SUBSET Keys,
          job : Uploads \cup {None}, lost : BOOLEAN, cancelled : BOOLEAN]

Idle == [pc |-> "idle", kind |-> "photo", video |-> FALSE, groups |-> 1, keys |-> {},
         job |-> None, lost |-> FALSE, cancelled |-> FALSE]

NoRow == [status |-> "none", key |-> None, kind |-> "photo", groups |-> 1,
          lease |-> None, stale |-> FALSE, old |-> FALSE]

Init ==
  /\ store = {} /\ used = {}
  /\ photos = {} /\ attachments = {} /\ obligations = {} /\ due = {}
  /\ jobs = [u \in Uploads |-> NoRow]
  /\ act = [a \in Actors |-> Idle]
  /\ cleanup = [pc |-> "rest", keys |-> {}, key |-> None]
  /\ account = [state |-> "present", read |-> {}]
  /\ results = [u \in Uploads |-> 0]
  /\ faults = 0

-----------------------------------------------------------------------------
(* Building blocks. *)

Fault(kind) == kind \in Faults /\ faults < MaxFaults /\ faults' = faults + 1
NoFault == UNCHANGED faults
TwoFaults(k1, k2) == {k1, k2} \subseteq Faults /\ faults + 2 <= MaxFaults /\ faults' = faults + 2

\* A call with a's context fails: by a fault, or because the context has ended.
Fails(a, kind) == IF act[a].cancelled THEN NoFault ELSE Fault(kind)
Works(a) == ~act[a].cancelled /\ NoFault

Goto(a, step) == act' = [act EXCEPT ![a].pc = step]

\* Mutant: a key is free again once its object is gone.
Fresh_NotStored(k) == k \notin store

\* uuid.NewString
Fresh(k) == k \notin used

\* INSERT ... ON CONFLICT (storage_key) WHERE completed_at IS NULL DO NOTHING.
Enqueue(S) ==
  /\ obligations' = obligations \cup S
  /\ due' = due \cup (S \ obligations)

InsertRows(kind, S) ==
  /\ photos' = IF kind = "photo" THEN photos \cup S ELSE photos
  /\ attachments' = IF kind = "chat" THEN attachments \cup S ELSE attachments

Unfinished(j) == jobs[j].status \in {"queued", "processing"}

\* The reference check of DeleteObjectIfUnreferenced.
Referenced(k) == k \in photos \cup attachments \/ \E j \in Uploads : Unfinished(j) /\ jobs[j].key = k

\* Mutant: a worker completes and fails its job without proof of the lease.
HoldsLease_Unchecked(w) == act[w].job # None

HoldsLease(w) ==
  LET j == jobs[act[w].job] IN j.status = "processing" /\ j.lease = w

-----------------------------------------------------------------------------
(* Storing objects: UploadPhoto, UploadChatMedia, queueVideoChallenge,       *)
(* queueVideoChatMessage, finishChallenge, finishChat.                       *)

StartUpload(u, kind, video, groups) ==
  /\ act[u].pc = "idle" /\ account.state # "gone"
  /\ kind = "chat" => groups = 1
  /\ act' = [act EXCEPT ![u] = [Idle EXCEPT !.pc = "put", !.kind = kind, !.video = video,
                                            !.groups = groups]]
  /\ UNCHANGED <<store, used, tables, cleanup, account, results, faults>>

\* One object per group; a raw video is one object.
Stored(a, S) ==
  IF Cardinality(S) = (IF act[a].video THEN 1 ELSE act[a].groups) THEN "commit" ELSE "put"

Put(a) ==
  /\ act[a].pc = "put" /\ Works(a)
  /\ \E k \in Keys :
       /\ Fresh(k)
       /\ store' = store \cup {k} /\ used' = used \cup {k}
       /\ act' = [act EXCEPT ![a].keys = @ \cup {k}, ![a].pc = Stored(a, act[a].keys \cup {k})]
  /\ UNCHANGED <<tables, cleanup, account, results>>

\* Only the keys whose Put succeeded are compensated.
PutFails(a) ==
  /\ act[a].pc = "put" /\ Fails(a, "put")
  /\ Goto(a, "undo")
  /\ UNCHANGED <<store, used, tables, cleanup, account, results>>

PutLost(a) ==
  /\ act[a].pc = "put" /\ Fault("lost")
  /\ \E k \in Keys : Fresh(k) /\ store' = store \cup {k} /\ used' = used \cup {k}
  /\ Goto(a, "undo")
  /\ UNCHANGED <<tables, cleanup, account, results>>

-----------------------------------------------------------------------------
(* Uploads: the rows. *)

\* The rows an upload commits: its photos, its attachment, or its job.
CommitUpload(u) ==
  LET a == act[u] IN
  IF a.video
    THEN /\ jobs' = [jobs EXCEPT ![u] = [NoRow EXCEPT !.status = "queued", !.kind = a.kind,
                       !.groups = a.groups, !.key = CHOOSE k \in a.keys : TRUE]]
         /\ UNCHANGED <<photos, attachments>>
    ELSE InsertRows(a.kind, a.keys) /\ UNCHANGED jobs

Create(u) ==
  /\ act[u].pc = "commit" /\ Works(u) /\ account.state # "gone"
  /\ CommitUpload(u)
  /\ act' = [act EXCEPT ![u] = [Idle EXCEPT !.pc = "done"]]
  /\ UNCHANGED <<store, used, obligations, due, cleanup, account, results>>

\* The insert fails, if only because the author's row is gone or (for a chat
\* message) the author has left the group.
CreateFails(u) ==
  /\ act[u].pc = "commit"
  /\ IF account.state = "gone" \/ (act[u].kind = "chat" /\ ~act[u].video)
       THEN NoFault ELSE Fails(u, "db")
  /\ Goto(u, "undo")
  /\ UNCHANGED <<store, used, tables, cleanup, account, results>>

CreateUnknown(u) ==
  /\ act[u].pc = "commit" /\ Fault("unknown") /\ account.state # "gone"
  /\ CommitUpload(u)
  /\ Goto(u, "undo")
  /\ UNCHANGED <<store, used, obligations, due, cleanup, account, results>>

-----------------------------------------------------------------------------
(* compensateMediaDeletes, compensateChatMediaDelete, cleanupKeys: delete the *)
(* object, or else queue its deletion - with the same context.                *)

\* Mutant: a failed delete is only logged.
UndoQueued_Logged(a) ==
  /\ act[a].pc = "undo" /\ Fault("delete") /\ ~act[a].cancelled
  /\ \E k \in act[a].keys : act' = [act EXCEPT ![a].keys = @ \ {k}]
  /\ UNCHANGED <<store, used, tables, cleanup, account, results>>

UndoDeleted(a) ==
  /\ act[a].pc = "undo" /\ Works(a)
  /\ \E k \in act[a].keys :
       /\ store' = store \ {k}
       /\ act' = [act EXCEPT ![a].keys = @ \ {k}]
  /\ UNCHANGED <<used, tables, cleanup, account, results>>

UndoQueued(a) ==
  /\ act[a].pc = "undo" /\ Fault("delete") /\ ~act[a].cancelled
  /\ \E k \in act[a].keys :
       /\ Enqueue({k})
       /\ act' = [act EXCEPT ![a].keys = @ \ {k}]
  /\ UNCHANGED <<store, used, photos, attachments, jobs, cleanup, account, results>>

\* Neither call works; the key is logged and forgotten.
UndoDropped(a) ==
  /\ act[a].pc = "undo"
  /\ IF act[a].cancelled THEN NoFault ELSE TwoFaults("delete", "db")
  /\ \E k \in act[a].keys : act' = [act EXCEPT ![a].keys = @ \ {k}]
  /\ UNCHANGED <<store, used, tables, cleanup, account, results>>

UndoDone(a) ==
  /\ act[a].pc = "undo" /\ act[a].keys = {}
  /\ act' = [act EXCEPT ![a] =
       IF a \in Uploads THEN [Idle EXCEPT !.pc = "done"]
       ELSE IF @.lost THEN Idle
       ELSE [@ EXCEPT !.pc = "fail"]]
  /\ UNCHANGED <<store, used, tables, cleanup, account, results, faults>>

-----------------------------------------------------------------------------
(* The media-processing worker. *)

ClaimJob(w, j) ==
  /\ act[w].pc = "idle" /\ jobs[j].status = "queued"
  /\ jobs' = [jobs EXCEPT ![j].status = "processing", ![j].lease = w, ![j].stale = FALSE]
  /\ act' = [act EXCEPT ![w] = [Idle EXCEPT !.pc = "read", !.job = j, !.kind = jobs[j].kind,
                                            !.groups = jobs[j].groups]]
  /\ UNCHANGED <<store, used, photos, attachments, obligations, due, cleanup, account, results, faults>>

\* Download, validate and transcode; without the source, or with one that is
\* rejected, the job is failed.
Transcode(w) ==
  /\ act[w].pc = "read"
  /\ \/ jobs[act[w].job].key \in store /\ Works(w) /\ Goto(w, "put")
     \/ Goto(w, "fail") /\ NoFault
  /\ UNCHANGED <<store, used, tables, cleanup, account, results>>

\* CompleteChallengeProcessing, CompleteChatProcessing.
CommitResult(w) ==
  LET j == act[w].job IN
  /\ InsertRows(act[w].kind, act[w].keys)
  /\ jobs' = [jobs EXCEPT ![j].status = "ready"]
  /\ results' = [results EXCEPT ![j] = @ + 1]
  /\ Enqueue({jobs[j].key})

Complete(w) ==
  /\ act[w].pc = "commit" /\ Works(w) /\ HoldsLease(w)
  /\ CommitResult(w)
  /\ act' = [act EXCEPT ![w] = Idle]
  /\ UNCHANGED <<store, used, cleanup, account>>

CompleteUnknown(w) ==
  /\ act[w].pc = "commit" /\ Fault("unknown") /\ HoldsLease(w)
  /\ CommitResult(w)
  /\ Goto(w, "undo")
  /\ UNCHANGED <<store, used, cleanup, account>>

\* The transaction is rolled back: the lease is lost, the author has left a
\* group, or an error.
CompleteFails(w) ==
  /\ act[w].pc = "commit"
  /\ \/ ~HoldsLease(w) /\ Works(w) /\ act' = [act EXCEPT ![w].pc = "undo", ![w].lost = TRUE]
     \/ (Works(w) \/ Fails(w, "db")) /\ Goto(w, "undo")
  /\ UNCHANGED <<store, used, tables, cleanup, account, results>>

\* FailClaimedProcessingJob; without the lease, or when it fails, nothing.
FailJob(w) ==
  /\ act[w].pc = "fail"
  /\ \/ /\ Works(w) /\ HoldsLease(w)
        /\ jobs' = [jobs EXCEPT ![act[w].job].status = "failed"]
        /\ Enqueue({jobs[act[w].job].key})
     \/ /\ \/ Works(w) /\ ~HoldsLease(w)
           \/ Fails(w, "db")
        /\ UNCHANGED <<jobs, obligations, due>>
  /\ act' = [act EXCEPT ![w] = Idle]
  /\ UNCHANGED <<store, used, photos, attachments, cleanup, account, results>>

-----------------------------------------------------------------------------
(* The cleanup runner: one goroutine, one cycle after the other. *)

At(step) == cleanup.pc = step
Then(step, S) == cleanup' = [pc |-> step, keys |-> S, key |-> None]

\* RetireRetainedMedia, for a photo past its retention time.
RetireRetainedMedia(k) ==
  /\ At("rest") /\ k \in photos
  /\ photos' = photos \ {k}
  /\ Enqueue({k})
  /\ UNCHANGED <<store, used, attachments, jobs, act, cleanup, account, results, faults>>

\* Mutant: stale jobs are recognised by their age alone, finished or not.
RequeueStaleProcessingJobs_AnyStatus ==
  /\ At("rest")
  /\ jobs' = [j \in Uploads |-> IF jobs[j].stale
       THEN [jobs[j] EXCEPT !.status = "queued", !.lease = None, !.stale = FALSE] ELSE jobs[j]]
  /\ Then("abandon", {})
  /\ UNCHANGED <<store, used, photos, attachments, obligations, due, act, account, results, faults>>

RequeueStaleProcessingJobs ==
  /\ At("rest")
  /\ jobs' = [j \in Uploads |-> IF jobs[j].status = "processing" /\ jobs[j].stale
       THEN [jobs[j] EXCEPT !.status = "queued", !.lease = None, !.stale = FALSE] ELSE jobs[j]]
  /\ Then("abandon", {})
  /\ UNCHANGED <<store, used, photos, attachments, obligations, due, act, account, results, faults>>

\* Mutant: claimed jobs are abandoned too.
Abandoned_Unfinished == {j \in Uploads : Unfinished(j) /\ jobs[j].old}

Abandoned == {j \in Uploads : jobs[j].status = "queued" /\ jobs[j].old}

AbandonQueuedProcessingJobs ==
  /\ At("abandon")
  /\ jobs' = [j \in Uploads |-> IF j \in Abandoned
       THEN [jobs[j] EXCEPT !.status = "failed"] ELSE jobs[j]]
  /\ Enqueue({jobs[j].key : j \in Abandoned})
  /\ Then("sweep", {jobs[j].key : j \in Abandoned})
  /\ UNCHANGED <<store, used, photos, attachments, act, account, results, faults>>

\* sweepAbandonedProcessing deletes at once what it can.
SweepAbandoned(k) ==
  /\ At("sweep") /\ k \in cleanup.keys
  /\ cleanup' = [cleanup EXCEPT !.keys = @ \ {k}]
  /\ \/ store' = store \ {k} /\ NoFault /\ UNCHANGED <<obligations, due>>
     \/ Fault("delete") /\ Enqueue({k}) /\ UNCHANGED store
  /\ UNCHANGED <<used, photos, attachments, jobs, act, account, results>>

PurgeExpiredProcessingJobs(S) ==
  /\ At("sweep") /\ cleanup.keys = {}
  /\ S \subseteq {j \in Uploads : jobs[j].status \in {"ready", "failed"}}
  /\ jobs' = [j \in Uploads |-> IF j \in S THEN [jobs[j] EXCEPT !.status = "purged"] ELSE jobs[j]]
  /\ Then("drain", {})
  /\ UNCHANGED <<store, used, photos, attachments, obligations, due, act, account, results, faults>>

\* One batch; the claimed jobs come back only after the backoff.
ClaimDeletionJobs ==
  /\ At("drain") /\ cleanup.keys = {}
  /\ Then(IF due = {} THEN "rest" ELSE "drain", due)
  /\ due' = {}
  /\ UNCHANGED <<store, used, photos, attachments, jobs, obligations, act, account, results, faults>>

\* Mutant: the deletion job of any object is completed without deleting it.
KeepReferenced_Any(k) ==
  /\ At("drain") /\ k \in cleanup.keys
  /\ obligations' = obligations \ {k} /\ due' = due \ {k}
  /\ cleanup' = [cleanup EXCEPT !.keys = @ \ {k}]
  /\ UNCHANGED <<store, used, photos, attachments, jobs, act, account, results, faults>>

\* DeleteObjectIfUnreferenced, first half: a referenced object is kept.
KeepReferenced(k) ==
  /\ At("drain") /\ k \in cleanup.keys /\ Referenced(k)
  /\ obligations' = obligations \ {k} /\ due' = due \ {k}
  /\ cleanup' = [cleanup EXCEPT !.keys = @ \ {k}]
  /\ UNCHANGED <<store, used, photos, attachments, jobs, act, account, results, faults>>

CheckReferences(k) ==
  /\ At("drain") /\ k \in cleanup.keys /\ ~Referenced(k)
  /\ cleanup' = [pc |-> "delete", keys |-> cleanup.keys \ {k}, key |-> k]
  /\ UNCHANGED <<store, used, tables, act, account, results, faults>>

\* Mutant: the deletion job is not completed.
DeleteObject_Pending ==
  /\ At("delete") /\ Then("drain", cleanup.keys) /\ NoFault
  /\ store' = store \ {cleanup.key}
  /\ UNCHANGED <<used, tables, act, account, results>>

\* Second half, under the key's advisory lock (which only feed publishers
\* take): delete, complete the job, commit.
DeleteObject ==
  /\ At("delete")
  /\ Then("drain", cleanup.keys)
  /\ \/ /\ NoFault /\ store' = store \ {cleanup.key}
        /\ obligations' = obligations \ {cleanup.key} /\ due' = due \ {cleanup.key}
     \/ Fault("delete") /\ UNCHANGED <<store, obligations, due>>
     \/ Fault("db") /\ store' = store \ {cleanup.key} /\ UNCHANGED <<obligations, due>>
  /\ UNCHANGED <<used, photos, attachments, jobs, act, account, results>>

\* A statement of the cycle fails: it is logged, and the next one follows.
StatementFails ==
  /\ Fault("db")
  /\ \/ At("rest") /\ Then("abandon", {})
     \/ At("abandon") /\ Then("sweep", {})
     \/ At("sweep") /\ cleanup.keys = {} /\ Then("drain", {})
     \/ At("drain") /\ cleanup.keys = {} /\ Then("rest", {})
     \/ At("drain") /\ \E k \in cleanup.keys : Then("drain", cleanup.keys \ {k})
  /\ UNCHANGED <<store, used, tables, act, account, results>>

-----------------------------------------------------------------------------
(* DeleteUserCascade: one transaction, whose statements see later commits. *)

ReadPhotoKeys ==
  /\ AccountMayGo /\ account.state = "present"
  /\ account' = [state |-> "going", read |-> photos]
  /\ UNCHANGED <<store, used, tables, act, cleanup, results, faults>>

\* The user's photos, attachments and processing jobs go with the user's row.
DeleteUser ==
  /\ account.state = "going"
  /\ account' = [state |-> "gone", read |-> {}]
  /\ photos' = {} /\ attachments' = {}
  /\ jobs' = [j \in Uploads |->
       IF jobs[j].status = "none" THEN jobs[j] ELSE [jobs[j] EXCEPT !.status = "purged"]]
  /\ Enqueue(account.read)
  /\ UNCHANGED <<store, used, act, cleanup, results, faults>>

-----------------------------------------------------------------------------
(* Time and failures. *)

\* The backoff of a claimed deletion job ends; it is longer than a batch takes.
BackoffEnds(k) ==
  /\ k \in obligations \ due
  /\ At("drain") \/ At("delete") => k \notin cleanup.keys \cup {cleanup.key}
  /\ due' = due \cup {k}
  /\ UNCHANGED <<store, used, photos, attachments, jobs, obligations, act, cleanup, account, results, faults>>

Working(w, j) == act[w].pc # "idle" /\ act[w].job = j /\ jobs[j].lease = w

\* staleProcessingInterval passes after the claim of a worker that died or gave
\* up without failing the job.
ClaimGetsStale(j) ==
  /\ jobs[j].status = "processing" /\ ~jobs[j].stale
  /\ \A w \in Workers : ~Working(w, j)
  /\ jobs' = [jobs EXCEPT ![j].stale = TRUE]
  /\ UNCHANGED <<store, used, photos, attachments, obligations, due, act, cleanup, account, results, faults>>

\* It passes while the worker is at work.
WorkerIsSlow(w, j) ==
  /\ jobs[j].status = "processing" /\ ~jobs[j].stale /\ Working(w, j)
  /\ Fault("slow")
  /\ jobs' = [jobs EXCEPT ![j].stale = TRUE]
  /\ UNCHANGED <<store, used, photos, attachments, obligations, due, act, cleanup, account, results>>

JobGetsOld(j) ==
  /\ Unfinished(j) /\ ~jobs[j].old
  /\ jobs' = [jobs EXCEPT ![j].old = TRUE]
  /\ UNCHANGED <<store, used, photos, attachments, obligations, due, act, cleanup, account, results, faults>>

\* A client disconnects, or the worker's process is told to shut down.
Cancel(a) ==
  /\ act[a].pc \notin {"idle", "done"} /\ ~act[a].cancelled
  /\ Fault("cancel")
  /\ act' = [act EXCEPT ![a].cancelled = TRUE]
  /\ UNCHANGED <<store, used, tables, cleanup, account, results>>

Crash ==
  /\ Fault("crash")
  /\ act' = [a \in Actors |-> IF a \in Workers THEN Idle
                              ELSE IF act[a].pc = "idle" THEN act[a]
                              ELSE [Idle EXCEPT !.pc = "done"]]
  /\ Then("rest", {})
  /\ UNCHANGED <<store, used, tables, account, results>>

-----------------------------------------------------------------------------

UploadSteps(u) == Create(u) \/ CreateFails(u) \/ CreateUnknown(u)

WorkerSteps(w) ==
  \/ \E j \in Uploads : ClaimJob(w, j)
  \/ Transcode(w) \/ Complete(w) \/ CompleteUnknown(w) \/ CompleteFails(w) \/ FailJob(w)

ActorSteps(a) ==
  \/ Put(a) \/ PutFails(a) \/ PutLost(a)
  \/ UndoDeleted(a) \/ UndoQueued(a) \/ UndoDropped(a) \/ UndoDone(a)

CleanupSteps ==
  \/ \E k \in Keys : RetireRetainedMedia(k)
  \/ RequeueStaleProcessingJobs
  \/ AbandonQueuedProcessingJobs
  \/ \E k \in Keys : SweepAbandoned(k)
  \/ \E S \in SUBSET Uploads : PurgeExpiredProcessingJobs(S)
  \/ ClaimDeletionJobs
  \/ \E k \in Keys : KeepReferenced(k) \/ CheckReferences(k)
  \/ DeleteObject
  \/ StatementFails

Next ==
  \/ \E u \in Uploads, kind \in Kinds, video \in BOOLEAN, n \in 1 .. MaxGroups :
       StartUpload(u, kind, video, n)
  \/ \E u \in Uploads : UploadSteps(u)
  \/ \E w \in Workers : WorkerSteps(w)
  \/ \E a \in Actors : ActorSteps(a) \/ Cancel(a)
  \/ CleanupSteps
  \/ ReadPhotoKeys \/ DeleteUser
  \/ \E k \in Keys : BackoffEnds(k)
  \/ \E j \in Uploads : ClaimGetsStale(j) \/ JobGetsOld(j) \/ \E w \in Workers : WorkerIsSlow(w, j)
  \/ Crash

Spec == Init /\ [][Next]_vars

\* The worker loop and the cleanup ticker keep running; time passes.
Fairness ==
  /\ \A w \in Workers : WF_vars(WorkerSteps(w) \/ ActorSteps(w))
  /\ WF_vars(CleanupSteps)
  /\ \A k \in Keys : WF_vars(BackoffEnds(k))
  /\ \A j \in Uploads : WF_vars(ClaimGetsStale(j))

FairSpec == Spec /\ Fairness

-----------------------------------------------------------------------------
(* Properties. *)

TypeOK ==
  /\ store \subseteq Keys /\ used \subseteq Keys
  /\ photos \subseteq Keys /\ attachments \subseteq Keys
  /\ jobs \in [Uploads -> Job]
  /\ \A j \in Uploads : /\ jobs[j].status = "queued" => jobs[j].lease = None
                        /\ jobs[j].status = "processing" => jobs[j].lease # None
  /\ obligations \subseteq Keys /\ due \subseteq obligations
  /\ act \in [Actors -> Actor]
  /\ cleanup \in [pc : {"rest", "abandon", "sweep", "drain", "delete"}, keys : SUBSET Keys,
                   key : Keys \cup {None}]
  /\ account \in [state : {"present", "going", "gone"}, read : SUBSET Keys]
  /\ results \in [Uploads -> Nat]
  /\ faults \in 0 .. MaxFaults

\* What a photo or a chat attachment refers to is in the object store: neither a
\* compensation nor a stale worker nor the cleanup deletes it under the row.
MediaPresent == photos \cup attachments \subseteq store

\* The raw source of a job that is yet to be processed is in the store.
SourcePresent == \A j \in Uploads : Unfinished(j) => jobs[j].key \in store

\* A raw video outlives its job only with a deletion job that will remove it,
\* whatever fails and whenever the process dies ("no raw bytes are ever orphaned").
RawSourceOwned ==
  \A j \in Uploads : jobs[j].key \in store => Unfinished(j) \/ jobs[j].key \in obligations

\* Every stored object is referenced by a row, is due for deletion, or is still
\* in the hands of the handler or worker that stored it.
NothingOrphaned ==
  \A k \in store : Referenced(k) \/ k \in obligations \/ \E a \in Actors : k \in act[a].keys

\* The result of a job is published exactly once if the job is ready, and never
\* otherwise, however often the job was claimed.
OneResult ==
  \A j \in Uploads :
    CASE jobs[j].status = "ready" -> results[j] = 1
      [] jobs[j].status = "purged" -> results[j] <= 1
      [] OTHER -> results[j] = 0

\* A claim that is not stale is ended by its own worker only (or with the account).
LiveClaimKept ==
  [][\A j \in Uploads, w \in Workers :
       /\ jobs[j].status = "processing" /\ ~jobs[j].stale /\ jobs[j].lease = w
       /\ ~(jobs'[j].status = "processing" /\ jobs'[j].lease = w)
       => (act[w].job = j /\ act'[w].pc # act[w].pc) \/ account'.state = "gone"]_vars

\* A deletion job is completed only when its object is gone or referenced.
ObligationsMet ==
  [][\A k \in obligations \ obligations' : k \notin store' \/ Referenced(k)']_vars

\* Every queued video is processed, failed or abandoned in the end.
JobsEnd == \A j \in Uploads : jobs[j].status = "queued" ~> ~Unfinished(j)

\* Every deletion job is completed in the end.
ObligationsEnd == \A k \in Keys : k \in obligations ~> k \notin obligations
=============================================================================
