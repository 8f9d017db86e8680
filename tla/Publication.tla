----------------------------- MODULE Publication -----------------------------
(***************************************************************************)
(* Publishing a photo to the feed and to groups: an idempotent upload that  *)
(* holds advisory locks on its storage keys from the reservation, over the  *)
(* object store's writes, to the commit; the resolution of a commit whose   *)
(* outcome is unknown; the compensation of a failure; and the worker that   *)
(* deletes the objects nobody refers to any more.                           *)
(*                                                                          *)
(* A publication key (the post's id) fixes the storage keys: one for the    *)
(* post, and one for every selected group.  A body stands for the rest of   *)
(* the upload: its author, its media and metadata, and its groups.          *)
(***************************************************************************)
EXTENDS Naturals, Sequences, FiniteSets

CONSTANTS
  Ids,          \* publication keys
  Bodies,
  Groups,
  Targets,      \* Targets[b]: the groups selected in body b
  Order,        \* the groups in the order in which their storage keys are sorted
  Requests,     \* uploads in flight
  None,
  Faults,       \* kinds of failures that happen
  MaxFaults,
  MaxAttempts,  \* bound on the uploads of a behaviour
  Replay        \* an author may delete a post while an upload of its key comes or goes on

VARIABLES
  posts,     \* public_challenges: id -> row or None
  photos,    \* storage keys of photos rows
  objects,   \* the object store
  doomed,    \* storage keys of open media_deletion_jobs
  pub,       \* the uploads
  cleaner,   \* the key the cleanup worker has locked, or None
  faults,    \* failures so far
  attempts,  \* uploads so far
  deleted,   \* history: posts deleted by their authors
  announced, \* history: how often each group photo was announced since its row exists
  untracked  \* history: keys a crash, a failed enqueue or a conflict left without an owner

vars == <<posts, photos, objects, doomed, pub, cleaner, faults, attempts, deleted, announced, untracked>>
history == <<deleted, announced, untracked>>

Key == [id: Ids, group: Groups \cup {None}]
PostKey(i) == [id |-> i, group |-> None]
PhotoKeys(i, b) == {[id |-> i, group |-> g] : g \in Targets[b]}
UploadKeys(i, b) == PhotoKeys(i, b) \cup {PostKey(i)}

Row == [body: Bodies, token: 1..MaxAttempts]

ASSUME NoneAssumption == None \notin Ids \cup Bodies \cup Groups \cup Key \cup Row
ASSUME TargetsAssumption == Targets \in [Bodies -> SUBSET Groups]
ASSUME BoundsAssumption == MaxFaults \in Nat /\ MaxAttempts \in Nat

Steps == {"idle", "reserving", "putting", "creating", "resolving", "compensating", "announcing"}
Upload == [pc: Steps, id: Ids \cup {None}, body: Bodies \cup {None}, token: 0..MaxAttempts,
           locked: SUBSET Key, todo: SUBSET Key]
Idle == [pc |-> "idle", id |-> None, body |-> None, token |-> 0, locked |-> {}, todo |-> {}]

Init ==
  /\ posts = [i \in Ids |-> None] /\ photos = {} /\ objects = {} /\ doomed = {}
  /\ pub = [r \in Requests |-> Idle] /\ cleaner = None
  /\ faults = 0 /\ attempts = 0 /\ deleted = {} /\ announced = [k \in Key |-> 0] /\ untracked = {}

-----------------------------------------------------------------------------
(* Requests and locks. *)

Goto(r, pc, todo) == pub' = [pub EXCEPT ![r].pc = pc, ![r].todo = todo]
\* The transaction ends, and with it its locks.
Unlocked(r, pc, todo) == pub' = [pub EXCEPT ![r].pc = pc, ![r].todo = todo, ![r].locked = {}]
Answer(r) == pub' = [pub EXCEPT ![r] = Idle]

RequestKeys(r) == UploadKeys(pub[r].id, pub[r].body)
Held(k) == cleaner = k \/ \E r \in Requests : k \in pub[r].locked
AllLocked(r) == pub[r].locked = RequestKeys(r)

Fault(kind) == kind \in Faults /\ faults < MaxFaults /\ faults' = faults + 1

\* The position of a storage key: "photos/..." sorts before "public-challenges/...".
Rank(k) == IF k.group = None THEN Len(Order) + 1 ELSE CHOOSE n \in 1..Len(Order) : Order[n] = k.group

\* Mutant: the locks are taken in the order of the request.
NextLock_Unsorted(r) == RequestKeys(r) \ pub[r].locked

NextLock(r) == {k \in RequestKeys(r) \ pub[r].locked :
  \A other \in RequestKeys(r) \ pub[r].locked : Rank(k) <= Rank(other)}

Lock(r, k) ==
  /\ pub[r].pc \in {"reserving", "resolving"}
  /\ k \in NextLock(r) /\ ~Held(k)
  /\ pub' = [pub EXCEPT ![r].locked = @ \cup {k}]
  /\ UNCHANGED <<posts, photos, objects, doomed, cleaner, faults, attempts, history>>

-----------------------------------------------------------------------------
(* The upload. *)

Upload_(r, i, b) ==
  /\ pub[r].pc = "idle" /\ attempts < MaxAttempts
  /\ Replay \/ i \notin deleted
  /\ attempts' = attempts + 1
  /\ pub' = [pub EXCEPT ![r] = [pc |-> "reserving", id |-> i, body |-> b, token |-> attempts + 1,
                                   locked |-> {}, todo |-> {}]]
  /\ UNCHANGED <<posts, photos, objects, doomed, cleaner, faults, history>>

\* ReserveFeedChallenge: nobody has published under this key, or the answer is
\* known.
Reserve(r) ==
  /\ pub[r].pc = "reserving" /\ AllLocked(r)
  /\ IF posts[pub[r].id] = None THEN Goto(r, "putting", RequestKeys(r)) ELSE Answer(r)
  /\ UNCHANGED <<posts, photos, objects, doomed, cleaner, faults, attempts, history>>

ReserveFails(r) ==
  /\ pub[r].pc = "reserving" /\ Fault("db")
  /\ Answer(r)
  /\ UNCHANGED <<posts, photos, objects, doomed, cleaner, attempts, history>>

\* The post's object is stored before those of the groups.
NextPut(r, k) == k \in pub[r].todo /\ (PostKey(pub[r].id) \in pub[r].todo => k = PostKey(pub[r].id))

Put(r, k) ==
  /\ pub[r].pc = "putting" /\ NextPut(r, k)
  /\ objects' = objects \cup {k}
  /\ pub' = [pub EXCEPT ![r].todo = @ \ {k}, ![r].pc = IF @ = "putting" /\ pub[r].todo = {k} THEN "creating" ELSE @]
  /\ UNCHANGED <<posts, photos, doomed, cleaner, faults, attempts, history>>

\* Mutant: only what is known to be stored is compensated.
Tried_Confirmed(r, k) == RequestKeys(r) \ pub[r].todo

Tried(r, k) == (RequestKeys(r) \ pub[r].todo) \cup {k}

\* A Put that fails may have stored its object; what was tried is compensated.
PutFails(r, k, written) ==
  /\ pub[r].pc = "putting" /\ NextPut(r, k) /\ Fault("put")
  /\ objects' = IF written THEN objects \cup {k} ELSE objects
  /\ Goto(r, "compensating", Tried(r, k))
  /\ UNCHANGED <<posts, photos, doomed, cleaner, attempts, history>>

\* Rows that a commit makes visible; the ids of group photos are derived from
\* the key, so that they may exist already.
Insertable(r) == PhotoKeys(pub[r].id, pub[r].body) \cap photos = {}
Inserted(r) ==
  /\ posts' = [posts EXCEPT ![pub[r].id] = [body |-> pub[r].body, token |-> pub[r].token]]
  /\ photos' = photos \cup PhotoKeys(pub[r].id, pub[r].body)
  /\ announced' = [k \in Key |-> IF k \in PhotoKeys(pub[r].id, pub[r].body) THEN 0 ELSE announced[k]]

Create(r) ==
  /\ pub[r].pc = "creating" /\ Insertable(r)
  /\ Inserted(r)
  /\ Unlocked(r, "announcing", PhotoKeys(pub[r].id, pub[r].body))
  /\ UNCHANGED <<objects, doomed, cleaner, faults, attempts, deleted, untracked>>

\* The rows exist, the author is not a member, or a statement fails; Resolve
\* knows that nothing was committed, and the locks are kept for the compensation.
CreateFails(r) ==
  /\ pub[r].pc = "creating"
  /\ \/ ~Insertable(r) /\ UNCHANGED faults
     \/ Fault("db")
  /\ Goto(r, "compensating", RequestKeys(r))
  /\ UNCHANGED <<posts, photos, objects, doomed, cleaner, attempts, history>>

\* COMMIT reports an error, whatever it did.
CommitUncertain(r, committed) ==
  /\ pub[r].pc = "creating" /\ Insertable(r) /\ Fault("unknown")
  /\ IF committed THEN Inserted(r) ELSE UNCHANGED <<posts, photos, announced>>
  /\ Unlocked(r, "resolving", {})
  /\ UNCHANGED <<objects, doomed, cleaner, attempts, deleted, untracked>>

OwnRow(r) == posts[pub[r].id] = [body |-> pub[r].body, token |-> pub[r].token]

\* Resolve: the row under the re-taken locks tells.  A row of somebody else's that
\* differs is a conflict, which is answered without a compensation.
Resolve(r) ==
  /\ pub[r].pc = "resolving" /\ AllLocked(r)
  /\ LET row == posts[pub[r].id] IN
     \/ row = None /\ Goto(r, "compensating", RequestKeys(r)) /\ UNCHANGED untracked
     \/ row # None /\ OwnRow(r) /\ Unlocked(r, "announcing", PhotoKeys(pub[r].id, pub[r].body)) /\ UNCHANGED untracked
     \/ /\ row # None /\ ~OwnRow(r) /\ Answer(r)
        /\ untracked' = IF row.body = pub[r].body THEN untracked ELSE untracked \cup RequestKeys(r)
  /\ UNCHANGED <<posts, photos, objects, doomed, cleaner, faults, attempts, deleted, announced>>

\* The resolution fails as well: the keys are left to the worker.
ResolveFails(r, queued) ==
  /\ pub[r].pc = "resolving" /\ Fault("db")
  /\ doomed' = IF queued THEN doomed \cup RequestKeys(r) ELSE doomed
  /\ untracked' = IF queued THEN untracked ELSE untracked \cup RequestKeys(r)
  /\ Answer(r)
  /\ UNCHANGED <<posts, photos, objects, cleaner, attempts, deleted, announced>>

\* compensateKeys, and the rollback when it is through.
AfterCompensation(r, k) ==
  pub' = [pub EXCEPT ![r] = IF pub[r].todo = {k} THEN Idle ELSE [pub[r] EXCEPT !.todo = @ \ {k}]]

Compensate(r, k) ==
  /\ pub[r].pc = "compensating" /\ k \in pub[r].todo
  /\ objects' = objects \ {k}
  /\ AfterCompensation(r, k)
  /\ UNCHANGED <<posts, photos, doomed, cleaner, faults, attempts, history>>

CompensateFails(r, k, queued) ==
  /\ pub[r].pc = "compensating" /\ k \in pub[r].todo /\ Fault("delete")
  /\ doomed' = IF queued THEN doomed \cup {k} ELSE doomed
  /\ untracked' = IF queued THEN untracked ELSE untracked \cup {k}
  /\ AfterCompensation(r, k)
  /\ UNCHANGED <<posts, photos, objects, cleaner, attempts, deleted, announced>>

\* broadcastPublication: a chat message and a notification for every group.
Broadcast(r, k) ==
  /\ pub[r].pc = "announcing" /\ k \in pub[r].todo
  /\ announced' = [announced EXCEPT ![k] = @ + 1]
  /\ Goto(r, "announcing", pub[r].todo \ {k})
  /\ UNCHANGED <<posts, photos, objects, doomed, cleaner, faults, attempts, deleted, untracked>>

Respond(r) ==
  /\ pub[r].pc = "announcing" /\ pub[r].todo = {}
  /\ Answer(r)
  /\ UNCHANGED <<posts, photos, objects, doomed, cleaner, faults, attempts, history>>

\* The process dies: the transactions are rolled back, the locks are free.
Crash ==
  /\ Fault("crash")
  /\ pub' = [r \in Requests |-> Idle] /\ cleaner' = None
  /\ untracked' = untracked \cup UNION {RequestKeys(r) : r \in
       {q \in Requests : pub[q].pc \in {"putting", "creating", "resolving", "compensating"}}}
  /\ UNCHANGED <<posts, photos, objects, doomed, attempts, deleted, announced>>

-----------------------------------------------------------------------------
(* Deletion. *)

\* Delete: a trigger queues the post's object; the group photos stay.
Delete(i) ==
  /\ posts[i] # None
  /\ Replay \/ \A r \in Requests : pub[r].id # i
  /\ posts' = [posts EXCEPT ![i] = None]
  /\ doomed' = doomed \cup {PostKey(i)}
  /\ deleted' = deleted \cup {i}
  /\ UNCHANGED <<photos, objects, pub, cleaner, faults, attempts, announced, untracked>>

\* The worker takes a job and the lock of its key.
Claim(k) ==
  /\ k \in doomed /\ cleaner = None /\ ~Held(k)
  /\ cleaner' = k
  /\ UNCHANGED <<posts, photos, objects, doomed, pub, faults, attempts, history>>

Referenced(k) == k \in photos \/ (k = PostKey(k.id) /\ posts[k.id] # None)

\* Mutant: the worker trusts the job.
Deletable_Queued(k) == TRUE

Deletable(k) == ~Referenced(k)

Completed(k) == doomed \ {k}

DeleteObjectIfUnreferenced ==
  /\ cleaner # None
  /\ objects' = IF Deletable(cleaner) THEN objects \ {cleaner} ELSE objects
  /\ doomed' = Completed(cleaner) /\ cleaner' = None
  /\ UNCHANGED <<posts, photos, pub, faults, attempts, history>>

\* The job is tried again later.
DeletionFails ==
  /\ cleaner # None /\ Fault("delete")
  /\ cleaner' = None
  /\ UNCHANGED <<posts, photos, objects, doomed, pub, attempts, history>>

-----------------------------------------------------------------------------

Step(r) ==
  \/ Reserve(r) \/ ReserveFails(r) \/ Create(r) \/ CreateFails(r) \/ Resolve(r) \/ Respond(r)
  \/ \E b \in BOOLEAN : CommitUncertain(r, b) \/ ResolveFails(r, b)
  \/ \E k \in Key : Lock(r, k) \/ Put(r, k) \/ Compensate(r, k) \/ Broadcast(r, k)
  \/ \E k \in Key, b \in BOOLEAN : PutFails(r, k, b) \/ CompensateFails(r, k, b)

Worker == (\E k \in Key : Claim(k)) \/ DeleteObjectIfUnreferenced \/ DeletionFails

Next ==
  \/ \E r \in Requests : Step(r) \/ \E i \in Ids, b \in Bodies : Upload_(r, i, b)
  \/ Worker \/ Crash
  \/ \E i \in Ids : Delete(i)

Spec == Init /\ [][Next]_vars

\* Handlers go on, and the worker runs periodically; a lock is granted to
\* somebody who waits for it.
Fairness == WF_vars(Worker) /\ \A r \in Requests : WF_vars(Step(r))

FairSpec == Spec /\ Fairness
-----------------------------------------------------------------------------
(* Properties. *)

TypeOK ==
  /\ posts \in [Ids -> {None} \cup Row] /\ photos \subseteq Key /\ objects \subseteq Key /\ doomed \subseteq Key
  /\ pub \in [Requests -> Upload] /\ cleaner \in Key \cup {None}
  /\ faults \in 0..MaxFaults /\ attempts \in 0..MaxAttempts /\ deleted \subseteq Ids
  /\ announced \in [Key -> Nat] /\ untracked \subseteq Key

\* What is published can be shown: the object of a post and of every group
\* photo is in the store, whatever the compensations of other uploads with the
\* same key, the worker and an uncertain commit do.
PublishedObjectsKept == \A k \in Key : Referenced(k) => k \in objects

\* An object nobody refers to is on its way out: an upload or a job has it,
\* unless a crash, a failed enqueue or a conflict lost it.
NothingLeftBehind ==
  \A k \in objects : ~Referenced(k) =>
    \/ k \in doomed \cup untracked
    \/ \E r \in Requests : pub[r].pc \in {"putting", "creating", "resolving", "compensating"} /\ k \in RequestKeys(r)

\* A group hears of a publication once, although several uploads with its key
\* may each find it committed.
AnnouncedOnce == \A k \in Key : announced[k] <= 1

\* Every upload is answered: the locks that an upload waits for come free.
UploadsEnd == \A r \in Requests : (pub[r].pc # "idle") ~> (pub[r].pc = "idle")

\* Every deletion job is done at last.
JobsDone == \A k \in Key : (k \in doomed) ~> (k \notin doomed)
=============================================================================
