------------------------ MODULE MediaLifecycleProofs ------------------------
(* Proofs about MediaLifecycle, for any keys, uploads, workers and faults, and   *)
(* about Pictures, for any uploads and failures.                                *)
EXTENDS MediaLifecycle, FiniteSetTheorems, TLAPS

USE NamesAssumption, BoundsAssumption

-----------------------------------------------------------------------------
(* Types. *)

LEMMA InitType == Init => TypeOK
  BY DEF Init, TypeOK, NoRow, Idle, Job, Actor, Actors, Kinds, Steps, Statuses

\* The records the actions build are actors.
LEMMA IdleActor == Idle \in Actor
  BY DEF Idle, Actor, Steps, Kinds

LEMMA StartedActor ==
  ASSUME NEW r \in Actor, NEW kind \in Kinds, NEW video \in BOOLEAN, NEW n \in Nat, NEW step \in Steps
  PROVE  [r EXCEPT !.pc = step, !.kind = kind, !.video = video, !.groups = n] \in Actor
  BY Zenon DEF Actor

LEMMA FlaggedActor ==
  ASSUME NEW r \in Actor
  PROVE  /\ [r EXCEPT !.cancelled = TRUE] \in Actor
         /\ \A step \in Steps : [r EXCEPT !.pc = step, !.lost = TRUE] \in Actor
  BY Zenon DEF Actor

LEMMA FaultType ==
  ASSUME TypeOK, NEW kind, Fault(kind) \/ NoFault
  PROVE  faults' \in 0 .. MaxFaults
  BY DEF TypeOK, Fault, NoFault

LEMMA FailsType ==
  ASSUME TypeOK, NEW a, NEW kind, Fails(a, kind) \/ Works(a)
  PROVE  faults' \in 0 .. MaxFaults
  BY FaultType DEF Fails, Works, NoFault

LEMMA EnqueueType ==
  ASSUME TypeOK, NEW S \in SUBSET Keys, Enqueue(S)
  PROVE  obligations' \subseteq Keys /\ due' \subseteq obligations'
  BY DEF TypeOK, Enqueue

LEMMA InsertType ==
  ASSUME TypeOK, NEW S \in SUBSET Keys, NEW kind, InsertRows(kind, S)
  PROVE  photos' \subseteq Keys /\ attachments' \subseteq Keys
  BY DEF TypeOK, InsertRows

\* What TypeOK says of the jobs, as one set.
Jobs ==
  {f \in [Uploads -> Job] :
     \A j \in Uploads : /\ f[j].status = "queued" => f[j].lease = None
                        /\ f[j].status = "processing" => f[j].lease # None}

CleanupStates == [pc : {"rest", "abandon", "sweep", "drain", "delete"}, keys : SUBSET Keys,
                  key : Keys \cup {None}]

AccountStates == [state : {"present", "going", "gone"}, read : SUBSET Keys]

LEMMA TypeParts ==
  TypeOK <=> /\ store \subseteq Keys /\ used \subseteq Keys
             /\ photos \subseteq Keys /\ attachments \subseteq Keys
             /\ jobs \in Jobs
             /\ obligations \subseteq Keys /\ due \subseteq obligations
             /\ act \in [Actors -> Actor]
             /\ cleanup \in CleanupStates
             /\ account \in AccountStates
             /\ results \in [Uploads -> Nat]
             /\ faults \in 0 .. MaxFaults
  BY DEF TypeOK, Jobs, CleanupStates, AccountStates

LEMMA TypePrime ==
  ASSUME store' \subseteq Keys, used' \subseteq Keys,
         photos' \subseteq Keys, attachments' \subseteq Keys,
         jobs' \in Jobs,
         obligations' \subseteq Keys, due' \subseteq obligations',
         act' \in [Actors -> Actor],
         cleanup' \in CleanupStates, account' \in AccountStates,
         results' \in [Uploads -> Nat], faults' \in 0 .. MaxFaults
  PROVE  TypeOK'
  BY DEF TypeOK, Jobs, CleanupStates, AccountStates

-----------------------------------------------------------------------------
(* The inductive invariant. *)

\* What the position of a handler or worker says of what it holds.
ActorsSound ==
  /\ \A a \in Actors : /\ act[a].pc \notin {"put", "commit", "undo"} => act[a].keys = {}
                       /\ act[a].pc = "commit" => act[a].keys # {}
  /\ \A w \in Workers : act[w].pc # "idle" => act[w].job \in Uploads
  /\ \A u \in Uploads : act[u].pc \in {"idle", "put", "commit"} => jobs[u].status = "none"

\* Every job has a source of its own, which no row refers to.
JobsSound ==
  /\ \A j \in Uploads : jobs[j].status # "none" => jobs[j].key \in Keys
  /\ \A i, j \in Uploads : i # j /\ jobs[i].key = jobs[j].key => jobs[i].key = None
  /\ \A j \in Uploads : jobs[j].key \notin photos \cup attachments

\* Keys somebody may still ask to delete.
Released == obligations \cup account.read \cup cleanup.keys \cup {cleanup.key}

\* No key in sight is fresh.
KeysUsed ==
  /\ store \cup photos \cup attachments \subseteq used
  /\ Released \subseteq used \cup {None}
  /\ \A a \in Actors : act[a].keys \subseteq used
  /\ \A j \in Uploads : jobs[j].key \in used \cup {None}

\* Whether an actor's keys are its own: not after a commit of unknown outcome.
Owner(a) == act[a].pc \in {"put", "commit"} \/ "unknown" \notin Faults

\* What an actor owns is known to nobody else, and there until it deletes it.
KeysApart ==
  \A a \in Actors : Owner(a) =>
    /\ act[a].keys \cap (photos \cup attachments \cup Released) = {}
    /\ \A j \in Uploads : jobs[j].key \notin act[a].keys
    /\ \A b \in Actors : b # a => act[a].keys \cap act[b].keys = {}

OwnedStored ==
  \A a \in Actors : act[a].pc \in {"put", "commit"} => act[a].keys \subseteq store

\* What the cleanup runner is about to delete, nothing refers to.
CleanupSafe ==
  /\ cleanup.pc = "sweep" => \A k \in cleanup.keys : ~Referenced(k)
  /\ cleanup.pc = "delete" => ~Referenced(cleanup.key)

Inv == TypeOK /\ ActorsSound /\ JobsSound /\ KeysUsed /\ KeysApart /\ OwnedStored /\ CleanupSafe

LEMMA InitInv == Init => Inv
<1> SUFFICES ASSUME Init PROVE Inv
  OBVIOUS
<1>1. /\ \A a \in Actors : act[a] = Idle
      /\ \A j \in Uploads : jobs[j] = NoRow
      /\ Released = {None}
  BY DEF Init, Released
<1>2. ActorsSound /\ JobsSound
  BY <1>1 DEF Init, ActorsSound, JobsSound, Idle, NoRow, Actors
<1>3. KeysUsed /\ KeysApart /\ OwnedStored /\ CleanupSafe
  BY <1>1 DEF Init, KeysUsed, KeysApart, OwnedStored, CleanupSafe, Idle, NoRow
<1> QED
  BY <1>2, <1>3, InitType DEF Inv

-----------------------------------------------------------------------------
(* Steps that store nothing and refer to nothing new. *)

\* No object, row or job is added, actors only let go of keys, and what is
\* deleted or released is nobody's own.
Calm ==
  /\ used' = used /\ store' \subseteq store
  /\ photos' \subseteq photos /\ attachments' \subseteq attachments
  /\ \A j \in Uploads : /\ jobs'[j].key = jobs[j].key
                        /\ jobs'[j].status # "none" => jobs[j].status # "none"
                        /\ Unfinished(j)' => Unfinished(j)
  /\ Released' \subseteq used \cup {None}
  /\ \A a \in Actors :
       /\ act'[a].keys \subseteq act[a].keys
       /\ Owner(a)' => Owner(a) \/ act'[a].keys = {}
       /\ Owner(a)' => act'[a].keys \cap Released' = {}
       /\ act'[a].pc \in {"put", "commit"} =>
            act[a].pc \in {"put", "commit"} \/ act'[a].keys = {}
       /\ act'[a].pc \in {"put", "commit"} => act'[a].keys \cap store \subseteq store'

LEMMA CalmInv ==
  ASSUME Inv, TypeOK', ActorsSound', CleanupSafe', Calm
  PROVE  Inv'
<1> USE DEF Inv, Calm
<1>1. JobsSound'
  BY DEF JobsSound
<1>2. KeysUsed'
  BY DEF KeysUsed
<1>3. KeysApart'
  <2> SUFFICES ASSUME NEW a \in Actors, Owner(a)'
               PROVE  /\ act'[a].keys \cap (photos' \cup attachments' \cup Released') = {}
                      /\ \A j \in Uploads : jobs'[j].key \notin act'[a].keys
                      /\ \A b \in Actors : b # a => act'[a].keys \cap act'[b].keys = {}
    BY DEF KeysApart
  <2>1. CASE act'[a].keys = {}
    BY <2>1
  <2>2. CASE Owner(a)
    BY <2>2 DEF KeysApart
  <2> QED
    BY <2>1, <2>2
<1>4. OwnedStored'
  BY DEF OwnedStored
<1> QED
  BY <1>1, <1>2, <1>3, <1>4

\* One actor moves on and lets go of keys; nothing else happens.
LEMMA MoveInv ==
  ASSUME Inv, NEW a \in Actors, NEW rec \in Actor,
         act' = [act EXCEPT ![a] = rec],
         rec.keys \subseteq act[a].keys,
         rec.pc \in {"put", "commit"} => act[a].pc \in {"put", "commit"} \/ rec.keys = {},
         rec.pc \notin {"put", "commit", "undo"} => rec.keys = {},
         rec.pc = "commit" => rec.keys # {},
         a \in Workers => rec.pc = "idle" \/ rec.job \in Uploads,
         a \in Uploads => rec.pc \notin {"idle", "put", "commit"} \/ jobs[a].status = "none",
         faults' \in 0 .. MaxFaults,
         UNCHANGED <<store, used, tables, cleanup, account, results>>
  PROVE  Inv'
<1>0. a \in DOMAIN act /\ act[a] \in Actor /\ act'[a] = rec /\ act' \in [Actors -> Actor]
      /\ \A b \in Actors : b # a => act'[b] = act[b]
  BY DEF Inv, TypeOK
<1>1. TypeOK'
  BY <1>0, TypeParts DEF Inv, TypeOK, tables
<1>2. ActorsSound'
  <2>1. \A b \in Actors : /\ act'[b].pc \notin {"put", "commit", "undo"} => act'[b].keys = {}
                          /\ act'[b].pc = "commit" => act'[b].keys # {}
    BY <1>0 DEF Inv, ActorsSound
  <2>2. \A w \in Workers : act'[w].pc # "idle" => act'[w].job \in Uploads
    BY <1>0 DEF Inv, ActorsSound, Actors
  <2>3. \A u \in Uploads : act'[u].pc \in {"idle", "put", "commit"} => jobs'[u].status = "none"
    BY <1>0 DEF Inv, ActorsSound, Actors, tables
  <2> QED
    BY <2>1, <2>2, <2>3 DEF ActorsSound
<1>3. CleanupSafe'
  BY DEF Inv, CleanupSafe, Referenced, Unfinished, tables
<1>4. Released' = Released
  BY DEF Released, tables
<1>5. Calm
  <2>1. \A j \in Uploads : jobs'[j] = jobs[j]
    BY DEF tables
  <2>2. ASSUME NEW b \in Actors
        PROVE  /\ act'[b].keys \subseteq act[b].keys
               /\ Owner(b)' => Owner(b) \/ act'[b].keys = {}
               /\ act'[b].pc \in {"put", "commit"} =>
                    act[b].pc \in {"put", "commit"} \/ act'[b].keys = {}
    BY <1>0 DEF Owner
  <2>3. ASSUME NEW b \in Actors, Owner(b)'
        PROVE  act'[b].keys \cap Released' = {}
    BY <1>4, <2>2, <2>3 DEF Inv, KeysApart
  <2>4. Released' \subseteq used \cup {None}
    BY <1>4 DEF Inv, KeysUsed
  <2> QED
    BY <2>1, <2>2, <2>3, <2>4 DEF Calm, tables, Unfinished
<1> QED
  BY <1>1, <1>2, <1>3, <1>5, CalmInv

LEMMA StartUploadInv ==
  ASSUME Inv, NEW u \in Uploads, NEW kind \in Kinds, NEW video \in BOOLEAN, NEW n \in 1 .. MaxGroups,
         StartUpload(u, kind, video, n)
  PROVE  Inv'
<1> DEFINE rec == [Idle EXCEPT !.pc = "put", !.kind = kind, !.video = video, !.groups = n]
<1>0. rec \in Actor
  <2>1. n \in Nat /\ "put" \in Steps
    BY DEF Steps
  <2> QED
    BY <2>1, IdleActor, StartedActor, Zenon
<1>1. rec.pc = "put" /\ rec.keys = {}
  BY <1>0 DEF Actor, Idle
<1>2. u \in Actors /\ u \notin Workers /\ jobs[u].status = "none"
  BY DEF Actors, Inv, ActorsSound, StartUpload
<1>3. act' = [act EXCEPT ![u] = rec]
  BY Zenon DEF StartUpload
<1>4. faults' \in 0 .. MaxFaults /\ UNCHANGED <<store, used, tables, cleanup, account, results>>
  BY DEF StartUpload, Inv, TypeOK
<1> HIDE DEF rec
<1> QED
  BY <1>0, <1>1, <1>2, <1>3, <1>4, MoveInv

\* The step of Goto.
LEMMA GotoInv ==
  ASSUME Inv, NEW a \in Actors, NEW step \in Steps, Goto(a, step),
         step \in {"put", "commit"} => act[a].keys = {},
         step = "commit" => act[a].keys # {},
         step \notin {"put", "commit", "undo"} => act[a].keys = {},
         a \in Workers => step = "idle" \/ act[a].job \in Uploads,
         a \in Uploads => step \notin {"idle", "put", "commit"},
         faults' \in 0 .. MaxFaults,
         UNCHANGED <<store, used, tables, cleanup, account, results>>
  PROVE  Inv'
<1> DEFINE rec == [act[a] EXCEPT !.pc = step]
<1>1. act[a] \in Actor /\ rec \in Actor /\ rec.pc = step /\ rec.keys = act[a].keys /\ rec.job = act[a].job
  BY DEF Inv, TypeOK, Actor
<1>2. act' = [act EXCEPT ![a] = rec]
  BY DEF Goto
<1> HIDE DEF rec
<1> QED
  BY <1>1, <1>2, MoveInv

LEMMA PutFailsInv ==
  ASSUME Inv, NEW a \in Actors, PutFails(a)
  PROVE  Inv'
<1>1. faults' \in 0 .. MaxFaults
  BY FailsType DEF PutFails, Inv
<1>2. a \in Workers => act[a].job \in Uploads
  BY DEF Inv, ActorsSound, PutFails
<1> QED
  BY <1>1, <1>2, GotoInv DEF PutFails, Steps

LEMMA CreateFailsInv ==
  ASSUME Inv, NEW u \in Uploads, CreateFails(u)
  PROVE  Inv'
<1>1. faults' \in 0 .. MaxFaults
  BY FailsType, FaultType DEF CreateFails, Inv
<1>2. u \in Actors /\ u \notin Workers
  BY DEF Actors
<1> QED
  BY <1>1, <1>2, GotoInv DEF CreateFails, Steps

LEMMA UndoDroppedInv ==
  ASSUME Inv, NEW a \in Actors, UndoDropped(a)
  PROVE  Inv'
<1>1. faults' \in 0 .. MaxFaults
  BY DEF UndoDropped, NoFault, TwoFaults, Inv, TypeOK
<1>2. PICK k \in act[a].keys : act' = [act EXCEPT ![a].keys = @ \ {k}]
  BY DEF UndoDropped
<1> DEFINE rec == [act[a] EXCEPT !.keys = @ \ {k}]
<1>3. act[a] \in Actor /\ rec \in Actor /\ rec.pc = "undo" /\ rec.keys = act[a].keys \ {k} /\ rec.job = act[a].job
  BY DEF Inv, TypeOK, Actor, UndoDropped
<1>4. act' = [act EXCEPT ![a] = rec]
  BY <1>2
<1>5. a \in Workers => act[a].job \in Uploads
  BY DEF Inv, ActorsSound, UndoDropped
<1> HIDE DEF rec
<1> QED
  BY <1>1, <1>3, <1>4, <1>5, MoveInv DEF UndoDropped

LEMMA UndoDoneInv ==
  ASSUME Inv, NEW a \in Actors, UndoDone(a)
  PROVE  Inv'
<1> DEFINE rec == IF a \in Uploads THEN [Idle EXCEPT !.pc = "done"]
                  ELSE IF act[a].lost THEN Idle ELSE [act[a] EXCEPT !.pc = "fail"]
<1>1. act[a] \in Actor /\ act[a].keys = {} /\ act[a].pc = "undo"
  BY DEF Inv, TypeOK, UndoDone
<1>2. rec \in Actor /\ rec.keys = {} /\ rec.pc \in {"done", "idle", "fail"}
      /\ (a \in Uploads => rec.pc = "done")
      /\ (a \notin Uploads => rec.pc = "idle" \/ rec.job = act[a].job)
  BY <1>1 DEF Actor, Idle, Steps, Kinds
<1>3. act' = [act EXCEPT ![a] = rec] /\ faults' \in 0 .. MaxFaults
  BY DEF UndoDone, Inv, TypeOK
<1>4. a \in Workers => a \notin Uploads /\ act[a].job \in Uploads
  BY <1>1 DEF Inv, ActorsSound
<1> HIDE DEF rec
<1>5. /\ rec.keys \subseteq act[a].keys /\ rec.pc \notin {"put", "commit"}
      /\ a \in Workers => rec.pc = "idle" \/ rec.job \in Uploads
      /\ a \in Uploads => rec.pc \notin {"idle", "put", "commit"}
  BY <1>2, <1>4
<1>6. UNCHANGED <<store, used, tables, cleanup, account, results>>
  BY DEF UndoDone
<1> QED
  BY <1>2, <1>3, <1>5, <1>6, MoveInv

LEMMA TranscodeInv ==
  ASSUME Inv, NEW w \in Workers, Transcode(w)
  PROVE  Inv'
<1>1. w \in Actors /\ w \notin Uploads /\ act[w].pc = "read" /\ act[w].job \in Uploads /\ act[w].keys = {}
  BY DEF Actors, Transcode, Inv, ActorsSound
<1>2. faults' \in 0 .. MaxFaults
  BY DEF Transcode, Works, NoFault, Inv, TypeOK
<1>3. Goto(w, "put") \/ Goto(w, "fail")
  BY DEF Transcode
<1>4. CASE Goto(w, "put")
  BY <1>1, <1>2, <1>4, GotoInv DEF Transcode, Steps
<1>5. CASE Goto(w, "fail")
  BY <1>1, <1>2, <1>5, GotoInv DEF Transcode, Steps
<1> QED
  BY <1>3, <1>4, <1>5

LEMMA CompleteFailsInv ==
  ASSUME Inv, NEW w \in Workers, CompleteFails(w)
  PROVE  Inv'
<1>1. w \in Actors /\ w \notin Uploads /\ act[w].pc = "commit" /\ act[w].job \in Uploads
  BY DEF Actors, CompleteFails, Inv, ActorsSound
<1>2. faults' \in 0 .. MaxFaults
  BY FailsType DEF CompleteFails, Inv
<1>3. CASE Goto(w, "undo")
  BY <1>1, <1>2, <1>3, GotoInv DEF CompleteFails, Steps
<1>4. CASE act' = [act EXCEPT ![w].pc = "undo", ![w].lost = TRUE]
  <2> DEFINE rec == [act[w] EXCEPT !.pc = "undo", !.lost = TRUE]
  <2>0. act[w] \in Actor
    BY <1>1 DEF Inv, TypeOK
  <2>a. rec \in Actor
    BY <2>0, FlaggedActor DEF Steps
  <2>1. rec \in Actor /\ rec.pc = "undo" /\ rec.keys = act[w].keys /\ rec.job = act[w].job
    BY <2>0, <2>a DEF Actor
  <2>2. act' = [act EXCEPT ![w] = rec]
    BY <1>1, <1>4 DEF Inv, TypeOK, Actor
  <2> HIDE DEF rec
  <2> QED
    BY <1>1, <1>2, <2>1, <2>2, MoveInv DEF CompleteFails
<1> QED
  BY <1>3, <1>4 DEF CompleteFails

LEMMA CancelInv ==
  ASSUME Inv, NEW a \in Actors, Cancel(a)
  PROVE  Inv'
<1> DEFINE rec == [act[a] EXCEPT !.cancelled = TRUE]
<1>0. act[a] \in Actor /\ rec \in Actor
  BY FlaggedActor DEF Inv, TypeOK
<1>1. act[a] \in Actor /\ rec \in Actor /\ rec.pc = act[a].pc /\ rec.keys = act[a].keys /\ rec.job = act[a].job
  BY <1>0 DEF Actor
<1>2. act' = [act EXCEPT ![a] = rec] /\ faults' \in 0 .. MaxFaults
  BY FaultType DEF Cancel, Inv
<1>3. /\ a \in Workers => act[a].job \in Uploads
      /\ act[a].pc \notin {"put", "commit", "undo"} => act[a].keys = {}
      /\ act[a].pc = "commit" => act[a].keys # {}
      /\ a \in Uploads => act[a].pc \notin {"idle", "put", "commit"} \/ jobs[a].status = "none"
      /\ UNCHANGED <<store, used, tables, cleanup, account, results>>
  BY DEF Inv, ActorsSound, Cancel
<1> HIDE DEF rec
<1> QED
  BY <1>1, <1>2, <1>3, MoveInv

-----------------------------------------------------------------------------
(* Steps of the cleanup runner, of the account's deletion and of time. *)

\* The actors stand still; what is released was referred to or released before,
\* and only what was released is deleted.
LEMMA QuietInv ==
  ASSUME Inv, TypeOK', CleanupSafe', act' = act, used' = used,
         store' \subseteq store, store \subseteq store' \cup Released,
         photos' \subseteq photos, attachments' \subseteq attachments,
         \A j \in Uploads : /\ jobs'[j].key = jobs[j].key
                            /\ jobs'[j].status = "none" <=> jobs[j].status = "none"
                            /\ Unfinished(j)' => Unfinished(j),
         \A k \in Released' : \/ k \in Released \cup photos \cup attachments \cup {None}
                              \/ \E j \in Uploads : k = jobs[j].key
  PROVE  Inv'
<1>1. ActorsSound'
  BY DEF Inv, ActorsSound
<1>2. Released' \subseteq used \cup {None}
  BY DEF Inv, KeysUsed
<1>3. ASSUME NEW a \in Actors
      PROVE  /\ Owner(a)' <=> Owner(a)
             /\ Owner(a) => act[a].keys \cap Released' = {}
             /\ act[a].pc \in {"put", "commit"} => act[a].keys \cap store \subseteq store'
  <2>1. Owner(a)' <=> Owner(a)
    BY DEF Owner
  <2>2. ASSUME Owner(a) PROVE act[a].keys \cap Released' = {}
    <3>1. None \notin act[a].keys
      BY DEF Inv, TypeOK, Actor
    <3> QED
      BY <2>2, <3>1 DEF Inv, KeysApart
  <2>3. ASSUME act[a].pc \in {"put", "commit"} PROVE act[a].keys \cap Released = {}
    BY <2>3 DEF Inv, KeysApart, Owner
  <2> QED
    BY <2>1, <2>2, <2>3
<1>4. Calm
  BY <1>2, <1>3 DEF Calm
<1> QED
  BY <1>1, <1>4, CalmInv

\* The jobs keep their statuses and keys.
LEMMA FlagsInv ==
  ASSUME Inv, jobs' \in Jobs, faults' \in 0 .. MaxFaults,
         \A j \in Uploads : jobs'[j].key = jobs[j].key /\ jobs'[j].status = jobs[j].status,
         UNCHANGED <<store, used, photos, attachments, obligations, due, act, cleanup, account, results>>
  PROVE  Inv'
<1>1. TypeOK'
  BY TypeParts DEF Inv, TypeOK, Jobs
<1>2. CleanupSafe'
  BY DEF Inv, CleanupSafe, Referenced, Unfinished
<1>3. Released' = Released
  BY DEF Released
<1> QED
  BY <1>1, <1>2, <1>3, QuietInv DEF Unfinished

\* What changing a job does to the type of jobs.
LEMMA JobStep ==
  ASSUME TypeOK, NEW j \in Uploads, NEW rec \in Job,
         rec.status = "queued" => rec.lease = None,
         rec.status = "processing" => rec.lease # None,
         jobs' = [jobs EXCEPT ![j] = rec]
  PROVE  jobs' \in Jobs /\ jobs'[j] = rec /\ \A i \in Uploads : i # j => jobs'[i] = jobs[i]
  BY DEF TypeOK, Jobs

\* A job whose flag is set.
LEMMA FlaggedJob ==
  ASSUME NEW r \in Job
  PROVE  [r EXCEPT !.stale = TRUE] \in Job /\ [r EXCEPT !.old = TRUE] \in Job
  BY Zenon DEF Job

LEMMA FlagStepInv ==
  ASSUME Inv, NEW j \in Uploads, faults' \in 0 .. MaxFaults,
         jobs' = [jobs EXCEPT ![j].stale = TRUE] \/ jobs' = [jobs EXCEPT ![j].old = TRUE],
         UNCHANGED <<store, used, photos, attachments, obligations, due, act, cleanup, account, results>>
  PROVE  Inv'
<1>1. PICK rec \in Job : /\ jobs' = [jobs EXCEPT ![j] = rec]
                         /\ rec.key = jobs[j].key /\ rec.status = jobs[j].status
                         /\ rec.lease = jobs[j].lease
  <2>1. jobs[j] \in Job
    BY DEF Inv, TypeOK
  <2>2. CASE jobs' = [jobs EXCEPT ![j].stale = TRUE]
    <3> DEFINE rec == [jobs[j] EXCEPT !.stale = TRUE]
    <3>1. rec \in Job /\ jobs' = [jobs EXCEPT ![j] = rec]
      BY <2>1, <2>2, FlaggedJob
    <3>2. rec.key = jobs[j].key /\ rec.status = jobs[j].status /\ rec.lease = jobs[j].lease
      BY <2>1 DEF Job
    <3> HIDE DEF rec
    <3> QED
      BY <3>1, <3>2
  <2>3. CASE jobs' = [jobs EXCEPT ![j].old = TRUE]
    <3> DEFINE rec == [jobs[j] EXCEPT !.old = TRUE]
    <3>1. rec \in Job /\ jobs' = [jobs EXCEPT ![j] = rec]
      BY <2>1, <2>3, FlaggedJob
    <3>2. rec.key = jobs[j].key /\ rec.status = jobs[j].status /\ rec.lease = jobs[j].lease
      BY <2>1 DEF Job
    <3> HIDE DEF rec
    <3> QED
      BY <3>1, <3>2
  <2> QED
    BY <2>2, <2>3
<1>2. /\ rec.status = "queued" => rec.lease = None
      /\ rec.status = "processing" => rec.lease # None
  BY <1>1 DEF Inv, TypeOK
<1>3. jobs' \in Jobs /\ \A i \in Uploads : jobs'[i].key = jobs[i].key /\ jobs'[i].status = jobs[i].status
  <2>1. jobs' \in Jobs /\ jobs'[j] = rec /\ \A i \in Uploads : i # j => jobs'[i] = jobs[i]
    BY <1>1, <1>2, JobStep DEF Inv
  <2> QED
    BY <1>1, <2>1
<1> QED
  BY <1>3, FlagsInv

LEMMA TimeInv ==
  ASSUME Inv, NEW j \in Uploads,
         ClaimGetsStale(j) \/ JobGetsOld(j) \/ \E w \in Workers : WorkerIsSlow(w, j)
  PROVE  Inv'
<1>1. faults' \in 0 .. MaxFaults
  BY FaultType, FailsType DEF ClaimGetsStale, JobGetsOld, WorkerIsSlow, Inv, TypeOK
<1>2. jobs' = [jobs EXCEPT ![j].stale = TRUE] \/ jobs' = [jobs EXCEPT ![j].old = TRUE]
  BY Zenon DEF ClaimGetsStale, JobGetsOld, WorkerIsSlow
<1>3. UNCHANGED <<store, used, photos, attachments, obligations, due, act, cleanup, account, results>>
  BY DEF ClaimGetsStale, JobGetsOld, WorkerIsSlow
<1> QED
  BY <1>1, <1>2, <1>3, FlagStepInv

LEMMA BackoffEndsInv ==
  ASSUME Inv, NEW k \in Keys, BackoffEnds(k)
  PROVE  Inv'
<1>1. TypeOK'
  BY TypeParts DEF BackoffEnds, Inv, TypeOK
<1>2. CleanupSafe' /\ Released' = Released
  BY DEF BackoffEnds, Inv, CleanupSafe, Referenced, Unfinished, Released
<1> QED
  BY <1>1, <1>2, QuietInv DEF BackoffEnds, Unfinished

LEMMA RetireInv ==
  ASSUME Inv, NEW k \in Keys, RetireRetainedMedia(k)
  PROVE  Inv'
<1>1. TypeOK'
  <2>1. obligations' \subseteq Keys /\ due' \subseteq obligations'
    BY EnqueueType DEF RetireRetainedMedia, Inv
  <2> QED
    BY <2>1, TypeParts DEF RetireRetainedMedia, Inv, TypeOK
<1>2. CleanupSafe'
  BY DEF RetireRetainedMedia, At, CleanupSafe
<1>3. \A x \in Released' : x \in Released \/ x \in photos
  BY DEF RetireRetainedMedia, Released, Enqueue
<1> QED
  BY <1>1, <1>2, <1>3, QuietInv DEF RetireRetainedMedia, Unfinished

\* The cleanup runner moves on to a step that holds no key for deletion.
LEMMA ThenType ==
  ASSUME NEW step \in {"rest", "abandon", "sweep", "drain"}, NEW S \in SUBSET Keys, Then(step, S)
  PROVE  /\ cleanup' \in CleanupStates /\ cleanup'.pc = step /\ cleanup'.keys = S
         /\ cleanup'.key = None
  BY DEF Then, CleanupStates

LEMMA RequeueInv ==
  ASSUME Inv, RequeueStaleProcessingJobs
  PROVE  Inv'
<1>1. jobs' \in Jobs /\ \A j \in Uploads : /\ jobs'[j].key = jobs[j].key
                                           /\ jobs'[j].status = "none" <=> jobs[j].status = "none"
                                           /\ Unfinished(j)' => Unfinished(j)
  <2>1. ASSUME NEW j \in Uploads
        PROVE  /\ jobs'[j] \in Job /\ jobs'[j].key = jobs[j].key
               /\ jobs'[j].status = "none" <=> jobs[j].status = "none"
               /\ Unfinished(j)' => Unfinished(j)
               /\ jobs'[j].status = "queued" => jobs'[j].lease = None
               /\ jobs'[j].status = "processing" => jobs'[j].lease # None
    <3>0. jobs[j] \in Job
      BY DEF Inv, TypeOK
    <3> DEFINE rec == [jobs[j] EXCEPT !.status = "queued", !.lease = None, !.stale = FALSE]
    <3>1. rec \in Job
      <4>1. \A r \in Job, st \in Statuses, l \in Workers \cup {None} :
              [r EXCEPT !.status = st, !.lease = l, !.stale = FALSE] \in Job
        BY Zenon DEF Job
      <4> QED
        BY <3>0, <4>1 DEF Statuses
    <3>2. rec.key = jobs[j].key /\ rec.status = "queued" /\ rec.lease = None
      BY <3>0 DEF Job
    <3>3. CASE jobs[j].status = "processing" /\ jobs[j].stale
      <4>1. jobs'[j] = rec
        BY <3>3 DEF RequeueStaleProcessingJobs
      <4> HIDE DEF rec
      <4> QED
        BY <3>1, <3>2, <3>3, <4>1 DEF Unfinished
    <3>4. CASE ~(jobs[j].status = "processing" /\ jobs[j].stale)
      <4>1. jobs'[j] = jobs[j]
        BY <3>4 DEF RequeueStaleProcessingJobs
      <4> QED
        BY <3>0, <4>1 DEF Unfinished, Inv, TypeOK
    <3> QED
      BY <3>3, <3>4
  <2>2. jobs' = [j \in Uploads |-> jobs'[j]]
    BY Zenon DEF RequeueStaleProcessingJobs
  <2> QED
    BY <2>1, <2>2 DEF Jobs
<1>2. cleanup' \in CleanupStates /\ cleanup'.pc = "abandon" /\ cleanup'.keys = {} /\ cleanup'.key = None
  BY ThenType DEF RequeueStaleProcessingJobs
<1>3. UNCHANGED <<store, used, photos, attachments, obligations, due, act, account, results, faults>>
  BY DEF RequeueStaleProcessingJobs
<1>4. TypeOK'
  <2>1. TypeOK
    BY DEF Inv
  <2> QED
    BY <1>1, <1>2, <1>3, <2>1, TypeParts, TypePrime
<1>5. CleanupSafe'
  BY <1>2 DEF CleanupSafe
<1>6. \A x \in Released' : x \in Released \/ x = None
  BY <1>2, <1>3 DEF Released
<1> QED
  BY <1>1, <1>3, <1>4, <1>5, <1>6, QuietInv

\* Jobs of which some get another status, with their keys.
LEMMA RestatedJobs ==
  ASSUME TypeOK, NEW S, NEW st \in Statuses, st \notin {"queued", "processing", "none"},
         \A j \in S : j \in Uploads => jobs[j].status # "none",
         jobs' = [j \in Uploads |-> IF j \in S THEN [jobs[j] EXCEPT !.status = st] ELSE jobs[j]]
  PROVE  /\ jobs' \in Jobs
         /\ \A j \in Uploads : /\ jobs'[j].key = jobs[j].key
                               /\ jobs'[j].status = "none" <=> jobs[j].status = "none"
                               /\ Unfinished(j)' => Unfinished(j)
                               /\ j \in S => ~Unfinished(j)'
<1>1. ASSUME NEW j \in Uploads
      PROVE  /\ jobs'[j] \in Job /\ jobs'[j].key = jobs[j].key
             /\ jobs'[j].status = IF j \in S THEN st ELSE jobs[j].status
             /\ jobs'[j].lease = jobs[j].lease
  <2>0. jobs[j] \in Job
    BY DEF TypeOK
  <2> DEFINE rec == [jobs[j] EXCEPT !.status = st]
  <2>1. rec \in Job
    <3>1. \A r \in Job : [r EXCEPT !.status = st] \in Job
      BY Zenon DEF Job
    <3> QED
      BY <2>0, <3>1
  <2>2. rec.key = jobs[j].key /\ rec.status = st /\ rec.lease = jobs[j].lease
    BY <2>0 DEF Job
  <2>3. jobs'[j] = IF j \in S THEN rec ELSE jobs[j]
    OBVIOUS
  <2> HIDE DEF rec
  <2> QED
    BY <2>0, <2>1, <2>2, <2>3
<1>2. jobs' \in Jobs
  BY <1>1 DEF Jobs, TypeOK
<1> QED
  BY <1>1, <1>2 DEF Unfinished

LEMMA AbandonInv ==
  ASSUME Inv, AbandonQueuedProcessingJobs
  PROVE  Inv'
<1> DEFINE gone == {jobs[j].key : j \in Abandoned}
<1>1. Abandoned \subseteq Uploads /\ \A j \in Abandoned : jobs[j].status = "queued"
  BY DEF Abandoned
<1>2. gone \subseteq Keys
  BY <1>1 DEF Inv, JobsSound
<1>3. /\ jobs' \in Jobs
      /\ \A j \in Uploads : /\ jobs'[j].key = jobs[j].key
                            /\ jobs'[j].status = "none" <=> jobs[j].status = "none"
                            /\ Unfinished(j)' => Unfinished(j)
                            /\ j \in Abandoned => ~Unfinished(j)'
  <2>1. jobs' = [j \in Uploads |-> IF j \in Abandoned
                   THEN [jobs[j] EXCEPT !.status = "failed"] ELSE jobs[j]]
    BY Zenon DEF AbandonQueuedProcessingJobs
  <2>2. TypeOK /\ "failed" \in Statuses
    BY DEF Inv, Statuses
  <2>3. \A j \in Abandoned : j \in Uploads => jobs[j].status # "none"
    BY <1>1
  <2> QED
    BY <2>1, <2>2, <2>3, RestatedJobs
<1>4. cleanup' \in CleanupStates /\ cleanup'.pc = "sweep" /\ cleanup'.keys = gone /\ cleanup'.key = None
  BY <1>2, ThenType DEF AbandonQueuedProcessingJobs
<1>5. Enqueue(gone) /\ UNCHANGED <<store, used, photos, attachments, act, account, results, faults>>
  BY DEF AbandonQueuedProcessingJobs
<1> HIDE DEF gone
<1>6. obligations' \subseteq Keys /\ due' \subseteq obligations'
  BY <1>2, <1>5, EnqueueType DEF Inv
<1>7. TypeOK'
  <2>1. TypeOK
    BY DEF Inv
  <2> QED
    BY <1>3, <1>4, <1>5, <1>6, <2>1, TypeParts, TypePrime
<1>8. CleanupSafe'
  <2> SUFFICES ASSUME NEW k \in gone PROVE ~Referenced(k)'
    BY <1>4 DEF CleanupSafe
  <2>1. PICK j \in Abandoned : k = jobs[j].key
    BY DEF gone
  <2>2. k \notin photos' \cup attachments'
    BY <1>1, <1>5, <2>1 DEF Inv, JobsSound
  <2>3. ASSUME NEW i \in Uploads, jobs'[i].key = k PROVE ~Unfinished(i)'
    <3>1. jobs[i].key = jobs[j].key /\ k # None
      BY <1>2, <1>3, <2>1, <2>3
    <3>2. i = j
      BY <1>1, <2>1, <3>1 DEF Inv, JobsSound
    <3> QED
      BY <1>3, <3>2
  <2> QED
    BY <2>2, <2>3 DEF Referenced
<1>9. \A k \in Released' : k \in Released \/ k = None \/ \E j \in Uploads : k = jobs[j].key
  <2>1. \A k \in gone : \E j \in Uploads : k = jobs[j].key
    BY <1>1 DEF gone
  <2> QED
    BY <1>4, <1>5, <2>1 DEF Released, Enqueue
<1> QED
  BY <1>3, <1>5, <1>7, <1>8, <1>9, QuietInv

\* The cleanup runner deletes or keeps an object; rows, jobs and account stay.
LEMMA RunnerInv ==
  ASSUME Inv, cleanup' \in CleanupStates, CleanupSafe',
         obligations' \subseteq Keys, due' \subseteq obligations', faults' \in 0 .. MaxFaults,
         Released' \subseteq Released \cup {None},
         store' \subseteq store, store \subseteq store' \cup Released,
         UNCHANGED <<used, photos, attachments, jobs, act, account, results>>
  PROVE  Inv'
<1>1. TypeOK /\ store' \subseteq Keys
  BY DEF Inv, TypeOK
<1>2. TypeOK'
  BY <1>1, TypeParts, TypePrime
<1>3. \A k \in Released' : k \in Released \cup photos \cup attachments \cup {None}
  OBVIOUS
<1>4. \A j \in Uploads : Unfinished(j)' <=> Unfinished(j)
  BY DEF Unfinished
<1> QED
  BY <1>2, <1>3, <1>4, QuietInv

\* References do not change while only the runner moves.
LEMMA SameReferences ==
  ASSUME UNCHANGED <<photos, attachments, jobs>>
  PROVE  \A k : Referenced(k)' <=> Referenced(k)
  BY DEF Referenced, Unfinished

\* A step of the cleanup runner that only drops keys it holds.
LEMMA DropType ==
  ASSUME TypeOK, NEW k, cleanup' = [cleanup EXCEPT !.keys = @ \ {k}]
  PROVE  /\ cleanup' \in CleanupStates /\ cleanup'.pc = cleanup.pc
         /\ cleanup'.keys = cleanup.keys \ {k} /\ cleanup'.key = cleanup.key
  BY DEF TypeOK, CleanupStates

LEMMA SweepInv ==
  ASSUME Inv, NEW k \in Keys, SweepAbandoned(k)
  PROVE  Inv'
<1>1. TypeOK
  BY DEF Inv
<1>2. /\ cleanup' \in CleanupStates /\ cleanup'.pc = cleanup.pc
      /\ cleanup'.keys = cleanup.keys \ {k} /\ cleanup'.key = cleanup.key
  BY <1>1, DropType DEF SweepAbandoned
<1>3. cleanup.pc = "sweep" /\ k \in cleanup.keys
      /\ UNCHANGED <<used, photos, attachments, jobs, act, account, results>>
  BY DEF SweepAbandoned, At
<1>4. CleanupSafe'
  BY <1>2, <1>3, SameReferences DEF Inv, CleanupSafe
<1>5. faults' \in 0 .. MaxFaults /\ obligations' \subseteq Keys /\ due' \subseteq obligations'
  <2>1. {k} \in SUBSET Keys
    OBVIOUS
  <2>2. Fault("delete") \/ NoFault
    BY DEF SweepAbandoned
  <2>3. Enqueue({k}) \/ UNCHANGED <<obligations, due>>
    BY DEF SweepAbandoned
  <2> QED
    BY <1>1, <2>1, <2>2, <2>3, FaultType, EnqueueType DEF TypeOK
<1>6. store' \subseteq store /\ store \subseteq store' \cup {k} /\ obligations' \subseteq obligations \cup {k}
  BY DEF SweepAbandoned, Enqueue
<1>7. k \in Released /\ Released' \subseteq Released
  BY <1>2, <1>3, <1>6 DEF Released
<1> QED
  BY <1>2, <1>3, <1>4, <1>5, <1>6, <1>7, RunnerInv

LEMMA PurgeInv ==
  ASSUME Inv, NEW S \in SUBSET Uploads, PurgeExpiredProcessingJobs(S)
  PROVE  Inv'
<1>1. TypeOK /\ "purged" \in Statuses /\ \A j \in S : jobs[j].status # "none"
  BY DEF Inv, Statuses, PurgeExpiredProcessingJobs
<1>2. jobs' = [j \in Uploads |-> IF j \in S THEN [jobs[j] EXCEPT !.status = "purged"] ELSE jobs[j]]
  BY Zenon DEF PurgeExpiredProcessingJobs
<1>3. /\ jobs' \in Jobs
      /\ \A j \in Uploads : /\ jobs'[j].key = jobs[j].key
                            /\ jobs'[j].status = "none" <=> jobs[j].status = "none"
                            /\ Unfinished(j)' => Unfinished(j)
  BY <1>1, <1>2, RestatedJobs
<1>4. cleanup' \in CleanupStates /\ cleanup'.pc = "drain" /\ cleanup'.keys = {} /\ cleanup'.key = None
  BY ThenType DEF PurgeExpiredProcessingJobs
<1>5. UNCHANGED <<store, used, photos, attachments, obligations, due, act, account, results, faults>>
  BY DEF PurgeExpiredProcessingJobs
<1>6. TypeOK'
  BY <1>1, <1>3, <1>4, <1>5, TypeParts, TypePrime
<1>7. CleanupSafe'
  BY <1>4 DEF CleanupSafe
<1>8. \A k \in Released' : k \in Released \/ k = None
  BY <1>4, <1>5 DEF Released
<1> QED
  BY <1>3, <1>5, <1>6, <1>7, <1>8, QuietInv

LEMMA ClaimDeletionInv ==
  ASSUME Inv, ClaimDeletionJobs
  PROVE  Inv'
<1>1. TypeOK /\ due \in SUBSET Keys /\ due \subseteq obligations /\ {} \subseteq obligations
  BY DEF Inv, TypeOK
<1>2. /\ cleanup' \in CleanupStates /\ cleanup'.pc \in {"rest", "drain"}
      /\ cleanup'.keys = due /\ cleanup'.key = None
  <2> DEFINE step == IF due = {} THEN "rest" ELSE "drain"
  <2>1. step \in {"rest", "drain"} /\ Then(step, due)
    BY DEF ClaimDeletionJobs
  <2> HIDE DEF step
  <2> QED
    BY <1>1, <2>1, ThenType
<1>3. UNCHANGED <<store, used, photos, attachments, jobs, obligations, act, account, results, faults>> /\ due' = {}
  BY DEF ClaimDeletionJobs
<1>4. CleanupSafe'
  BY <1>2 DEF CleanupSafe
<1>5. Released' \subseteq Released \cup {None}
  BY <1>1, <1>2, <1>3 DEF Released
<1>6. obligations' \subseteq Keys /\ due' \subseteq obligations' /\ faults' \in 0 .. MaxFaults
  BY <1>1, <1>3 DEF TypeOK
<1> QED
  BY <1>2, <1>3, <1>4, <1>5, <1>6, RunnerInv

LEMMA KeepReferencedInv ==
  ASSUME Inv, NEW k \in Keys, KeepReferenced(k)
  PROVE  Inv'
<1>1. TypeOK
  BY DEF Inv
<1>2. /\ cleanup' \in CleanupStates /\ cleanup'.pc = cleanup.pc
      /\ cleanup'.keys = cleanup.keys \ {k} /\ cleanup'.key = cleanup.key
  BY <1>1, DropType DEF KeepReferenced
<1>3. /\ cleanup.pc = "drain" /\ obligations' = obligations \ {k} /\ due' = due \ {k}
      /\ UNCHANGED <<store, used, photos, attachments, jobs, act, account, results, faults>>
  BY DEF KeepReferenced, At
<1>4. CleanupSafe'
  BY <1>2, <1>3 DEF CleanupSafe
<1>5. Released' \subseteq Released
  BY <1>2, <1>3 DEF Released
<1>6. obligations' \subseteq Keys /\ due' \subseteq obligations' /\ faults' \in 0 .. MaxFaults
  BY <1>1, <1>3 DEF TypeOK
<1> QED
  BY <1>2, <1>3, <1>4, <1>5, <1>6, RunnerInv

LEMMA CheckReferencesInv ==
  ASSUME Inv, NEW k \in Keys, CheckReferences(k)
  PROVE  Inv'
<1>1. TypeOK /\ cleanup.keys \subseteq Keys
  BY DEF Inv, TypeOK
<1>2. /\ cleanup' \in CleanupStates /\ cleanup'.pc = "delete"
      /\ cleanup'.keys = cleanup.keys \ {k} /\ cleanup'.key = k /\ k \in cleanup.keys
      /\ ~Referenced(k)
  BY <1>1 DEF CheckReferences, CleanupStates
<1>3. UNCHANGED <<store, used, photos, attachments, jobs, obligations, due, act, account, results, faults>>
  BY DEF CheckReferences, tables
<1>4. CleanupSafe'
  BY <1>2, <1>3, SameReferences DEF CleanupSafe
<1>5. Released' \subseteq Released
  BY <1>2, <1>3 DEF Released
<1>6. obligations' \subseteq Keys /\ due' \subseteq obligations' /\ faults' \in 0 .. MaxFaults
  BY <1>1, <1>3 DEF TypeOK
<1> QED
  BY <1>2, <1>3, <1>4, <1>5, <1>6, RunnerInv

LEMMA DeleteObjectInv ==
  ASSUME Inv, DeleteObject
  PROVE  Inv'
<1>1. TypeOK /\ cleanup.keys \in SUBSET Keys
  BY DEF Inv, TypeOK
<1>2. cleanup' \in CleanupStates /\ cleanup'.pc = "drain" /\ cleanup'.keys = cleanup.keys /\ cleanup'.key = None
  BY <1>1, ThenType DEF DeleteObject
<1>3. UNCHANGED <<used, photos, attachments, jobs, act, account, results>>
  BY DEF DeleteObject
<1>4. CleanupSafe'
  BY <1>2 DEF CleanupSafe
<1>5. /\ store' \subseteq store /\ store \subseteq store' \cup {cleanup.key}
      /\ obligations' \subseteq obligations /\ due' \subseteq obligations'
  BY <1>1 DEF DeleteObject, TypeOK
<1>6. Released' \subseteq Released \cup {None} /\ cleanup.key \in Released
  BY <1>2, <1>3, <1>5 DEF Released
<1>7. faults' \in 0 .. MaxFaults
  BY <1>1, FaultType DEF DeleteObject
<1>8. obligations' \subseteq Keys
  BY <1>1, <1>5 DEF TypeOK
<1> QED
  BY <1>2, <1>3, <1>4, <1>5, <1>6, <1>7, <1>8, RunnerInv

LEMMA StatementFailsInv ==
  ASSUME Inv, StatementFails
  PROVE  Inv'
<1>1. TypeOK /\ cleanup.keys \in SUBSET Keys
  BY DEF Inv, TypeOK
<1>2. PICK step \in {"rest", "abandon", "sweep", "drain"}, S \in SUBSET cleanup.keys :
        Then(step, S) /\ (step = "sweep" => S = {})
  BY DEF StatementFails
<1>3. cleanup' \in CleanupStates /\ cleanup'.pc = step /\ cleanup'.keys = S /\ cleanup'.key = None
  BY <1>1, <1>2, ThenType
<1>4. UNCHANGED <<store, used, photos, attachments, jobs, obligations, due, act, account, results>>
  BY DEF StatementFails, tables
<1>5. CleanupSafe'
  BY <1>2, <1>3 DEF CleanupSafe
<1>6. Released' \subseteq Released \cup {None}
  BY <1>2, <1>3, <1>4 DEF Released
<1>7. obligations' \subseteq Keys /\ due' \subseteq obligations' /\ faults' \in 0 .. MaxFaults
  BY <1>1, <1>4, FaultType DEF StatementFails, TypeOK
<1> QED
  BY <1>3, <1>4, <1>5, <1>6, <1>7, RunnerInv

LEMMA ReadPhotoKeysInv ==
  ASSUME Inv, ReadPhotoKeys
  PROVE  Inv'
<1>1. TypeOK /\ photos \subseteq Keys
  BY DEF Inv, TypeOK
<1>2. account' \in AccountStates /\ account'.read = photos
      /\ UNCHANGED <<store, used, photos, attachments, jobs, obligations, due, act, cleanup, results, faults>>
  BY <1>1 DEF ReadPhotoKeys, AccountStates, tables
<1>3. TypeOK'
  BY <1>1, <1>2, TypeParts, TypePrime
<1>4. CleanupSafe'
  BY <1>2, SameReferences DEF Inv, CleanupSafe
<1>5. \A k \in Released' : k \in Released \cup photos
  BY <1>2 DEF Released
<1>6. \A j \in Uploads : Unfinished(j)' <=> Unfinished(j)
  BY <1>2 DEF Unfinished
<1> QED
  BY <1>2, <1>3, <1>4, <1>5, <1>6, QuietInv

LEMMA DeleteUserInv ==
  ASSUME Inv, DeleteUser
  PROVE  Inv'
<1>1. TypeOK /\ account.read \in SUBSET Keys /\ "purged" \in Statuses
  BY DEF Inv, TypeOK, Statuses
<1> DEFINE S == {j \in Uploads : jobs[j].status # "none"}
<1>2. jobs' = [j \in Uploads |-> IF j \in S THEN [jobs[j] EXCEPT !.status = "purged"] ELSE jobs[j]]
  BY DEF DeleteUser
<1>3. /\ jobs' \in Jobs
      /\ \A j \in Uploads : /\ jobs'[j].key = jobs[j].key
                            /\ jobs'[j].status = "none" <=> jobs[j].status = "none"
                            /\ Unfinished(j)' => Unfinished(j)
  <2>1. \A j \in S : j \in Uploads => jobs[j].status # "none"
    OBVIOUS
  <2> HIDE DEF S
  <2> QED
    BY <1>1, <1>2, <2>1, RestatedJobs
<1>4. /\ account' = [state |-> "gone", read |-> {}] /\ photos' = {} /\ attachments' = {}
      /\ Enqueue(account.read) /\ UNCHANGED <<store, used, act, cleanup, results, faults>>
  BY DEF DeleteUser
<1>5. obligations' \subseteq Keys /\ due' \subseteq obligations' /\ account' \in AccountStates
  BY <1>1, <1>4, EnqueueType DEF AccountStates
<1>6. TypeOK'
  BY <1>1, <1>3, <1>4, <1>5, TypeParts, TypePrime
<1>7. \A k : Referenced(k)' => Referenced(k)
  BY <1>3, <1>4 DEF Referenced
<1>8. CleanupSafe'
  BY <1>4, <1>7 DEF Inv, CleanupSafe
<1>9. \A k \in Released' : k \in Released
  BY <1>4 DEF Released, Enqueue
<1> QED
  BY <1>3, <1>4, <1>6, <1>8, <1>9, QuietInv
-----------------------------------------------------------------------------
(* Steps of handlers and workers that delete, release or claim. *)

\* What an actor's step does to the actors.
LEMMA OneActor ==
  ASSUME Inv, NEW a \in Actors, NEW rec \in Actor, act' = [act EXCEPT ![a] = rec],
         rec.pc \notin {"put", "commit", "undo"} => rec.keys = {},
         rec.pc = "commit" => rec.keys # {},
         a \in Workers => rec.pc = "idle" \/ rec.job \in Uploads,
         a \in Uploads => rec.pc \notin {"idle", "put", "commit"} \/ jobs'[a].status = "none",
         \A u \in Uploads : u # a /\ jobs[u].status = "none" => jobs'[u].status = "none"
  PROVE  /\ act'[a] = rec /\ act' \in [Actors -> Actor]
         /\ \A b \in Actors : b # a => act'[b] = act[b]
         /\ ActorsSound'
<1>1. /\ act'[a] = rec /\ act' \in [Actors -> Actor]
      /\ \A b \in Actors : b # a => act'[b] = act[b]
  BY DEF Inv, TypeOK
<1>2. \A b \in Actors : /\ act'[b].pc \notin {"put", "commit", "undo"} => act'[b].keys = {}
                        /\ act'[b].pc = "commit" => act'[b].keys # {}
  BY <1>1 DEF Inv, ActorsSound
<1>3. \A w \in Workers : act'[w].pc # "idle" => act'[w].job \in Uploads
  BY <1>1 DEF Inv, ActorsSound, Actors
<1>4. \A u \in Uploads : act'[u].pc \in {"idle", "put", "commit"} => jobs'[u].status = "none"
  BY <1>1 DEF Inv, ActorsSound, Actors
<1> QED
  BY <1>1, <1>2, <1>3, <1>4 DEF ActorsSound

\* A compensation forgets a key.
LEMMA ForgetKey ==
  ASSUME Inv, NEW a \in Actors, act[a].pc = "undo", NEW k,
         act' = [act EXCEPT ![a].keys = @ \ {k}], jobs' = jobs
  PROVE  /\ act'[a].pc = "undo" /\ act'[a].keys = act[a].keys \ {k}
         /\ act' \in [Actors -> Actor]
         /\ \A b \in Actors : b # a => act'[b] = act[b]
         /\ ActorsSound'
<1> DEFINE rec == [act[a] EXCEPT !.keys = @ \ {k}]
<1>1. act[a] \in Actor /\ rec \in Actor /\ rec.pc = "undo" /\ rec.keys = act[a].keys \ {k} /\ rec.job = act[a].job
  BY DEF Inv, TypeOK, Actor
<1>2. act' = [act EXCEPT ![a] = rec]
  OBVIOUS
<1>3. a \in Workers => act[a].job \in Uploads
  BY DEF Inv, ActorsSound
<1> HIDE DEF rec
<1> QED
  BY <1>1, <1>2, <1>3, OneActor

LEMMA UndoDeletedInv ==
  ASSUME Inv, NEW a \in Actors, UndoDeleted(a)
  PROVE  Inv'
<1>1. PICK k \in act[a].keys : store' = store \ {k} /\ act' = [act EXCEPT ![a].keys = @ \ {k}]
  BY DEF UndoDeleted
<1>2. act[a].pc = "undo" /\ UNCHANGED <<used, photos, attachments, jobs, obligations, due, cleanup, account, results>>
  BY DEF UndoDeleted, tables
<1>3. /\ act'[a].pc = "undo" /\ act'[a].keys = act[a].keys \ {k}
      /\ act' \in [Actors -> Actor]
      /\ \A b \in Actors : b # a => act'[b] = act[b]
      /\ ActorsSound'
  BY <1>1, <1>2, ForgetKey
<1>4. TypeOK'
  <2>1. TypeOK /\ store' \subseteq Keys
    BY <1>1 DEF Inv, TypeOK
  <2>2. faults' \in 0 .. MaxFaults
    BY <2>1, FailsType DEF UndoDeleted
  <2> QED
    BY <1>2, <1>3, <2>1, <2>2, TypeParts, TypePrime
<1>5. CleanupSafe'
  BY <1>2, SameReferences DEF Inv, CleanupSafe
<1>6. Calm
  <2>1. Released' = Released
    BY <1>2 DEF Released
  <2>2. ASSUME NEW b \in Actors
        PROVE  /\ act'[b].keys \subseteq act[b].keys /\ act'[b].pc = act[b].pc
               /\ Owner(b)' => Owner(b)
    BY <1>2, <1>3 DEF Owner
  <2>3. ASSUME NEW b \in Actors, Owner(b)' PROVE act'[b].keys \cap Released' = {}
    BY <2>1, <2>2, <2>3 DEF Inv, KeysApart
  <2>4. ASSUME NEW b \in Actors, act'[b].pc \in {"put", "commit"}
        PROVE  act'[b].keys \cap store \subseteq store'
    <3>1. b # a /\ Owner(b)
      BY <1>2, <2>2, <2>4 DEF Owner
    <3>2. k \notin act[b].keys
      BY <3>1 DEF Inv, KeysApart
    <3> QED
      BY <1>1, <2>2, <3>2
  <2>5. Released' \subseteq used \cup {None}
    BY <2>1 DEF Inv, KeysUsed
  <2> QED
    BY <1>1, <1>2, <2>2, <2>3, <2>4, <2>5 DEF Calm, Unfinished
<1> QED
  BY <1>3, <1>4, <1>5, <1>6, CalmInv

LEMMA UndoQueuedInv ==
  ASSUME Inv, NEW a \in Actors, UndoQueued(a)
  PROVE  Inv'
<1>1. PICK k \in act[a].keys : Enqueue({k}) /\ act' = [act EXCEPT ![a].keys = @ \ {k}]
  BY DEF UndoQueued
<1>2. act[a].pc = "undo" /\ UNCHANGED <<store, used, photos, attachments, jobs, cleanup, account, results>>
  BY DEF UndoQueued
<1>3. /\ act'[a].pc = "undo" /\ act'[a].keys = act[a].keys \ {k}
      /\ act' \in [Actors -> Actor]
      /\ \A b \in Actors : b # a => act'[b] = act[b]
      /\ ActorsSound'
  BY <1>1, <1>2, ForgetKey
<1>4. TypeOK /\ {k} \in SUBSET Keys /\ k \in used
  <2>1. act[a] \in Actor
    BY DEF Inv, TypeOK
  <2> QED
    BY <1>1, <2>1 DEF Inv, Actor, KeysUsed
<1>5. TypeOK'
  <2>1. faults' \in 0 .. MaxFaults
    BY <1>4, FaultType DEF UndoQueued
  <2>2. obligations' \subseteq Keys /\ due' \subseteq obligations'
    BY <1>1, <1>4, EnqueueType
  <2> QED
    BY <1>2, <1>3, <1>4, <2>1, <2>2, TypeParts, TypePrime
<1>6. CleanupSafe'
  BY <1>2, SameReferences DEF Inv, CleanupSafe
<1>7. Calm
  <2>1. Released' \subseteq Released \cup {k}
    BY <1>1, <1>2 DEF Released, Enqueue
  <2>2. ASSUME NEW b \in Actors
        PROVE  /\ act'[b].keys \subseteq act[b].keys /\ act'[b].pc = act[b].pc
               /\ Owner(b)' => Owner(b)
    BY <1>2, <1>3 DEF Owner
  <2>3. ASSUME NEW b \in Actors, Owner(b)' PROVE act'[b].keys \cap Released' = {}
    <3>1. act[b].keys \cap Released = {}
      BY <2>2, <2>3 DEF Inv, KeysApart
    <3>2. k \notin act'[b].keys
      BY <1>1, <1>3, <2>2, <2>3 DEF Inv, KeysApart
    <3> QED
      BY <2>1, <2>2, <3>1, <3>2
  <2>4. Released' \subseteq used \cup {None}
    BY <1>4, <2>1 DEF Inv, KeysUsed
  <2> QED
    BY <1>2, <2>2, <2>3, <2>4 DEF Calm, Unfinished
<1> QED
  BY <1>3, <1>5, <1>6, <1>7, CalmInv

LEMMA ClaimedJob ==
  ASSUME NEW r \in Job, NEW w \in Workers
  PROVE  [r EXCEPT !.status = "processing", !.lease = w, !.stale = FALSE] \in Job
<1>1. \A st \in Statuses, l \in Workers \cup {None} :
        [r EXCEPT !.status = st, !.lease = l, !.stale = FALSE] \in Job
  BY Zenon DEF Job
<1> QED
  BY <1>1 DEF Statuses

LEMMA ClaimJobInv ==
  ASSUME Inv, NEW w \in Workers, NEW j \in Uploads, ClaimJob(w, j)
  PROVE  Inv'
<1> DEFINE job == [jobs[j] EXCEPT !.status = "processing", !.lease = w, !.stale = FALSE]
<1> DEFINE rec == [Idle EXCEPT !.pc = "read", !.job = j, !.kind = jobs[j].kind, !.groups = jobs[j].groups]
<1>1. TypeOK /\ jobs[j] \in Job /\ jobs[j].status = "queued" /\ w \in Actors /\ w \notin Uploads /\ act[w].pc = "idle"
  BY DEF Inv, TypeOK, ClaimJob, Actors
<1>2. jobs' \in Jobs /\ jobs'[j].status = "processing" /\ jobs'[j].key = jobs[j].key
      /\ \A i \in Uploads : i # j => jobs'[i] = jobs[i]
  <2>1. job \in Job
    BY <1>1, ClaimedJob
  <2>2. job.status = "processing" /\ job.lease = w /\ job.key = jobs[j].key /\ w # None
    BY <1>1 DEF Job
  <2>3. jobs' = [jobs EXCEPT ![j] = job]
    BY DEF ClaimJob
  <2> HIDE DEF job
  <2> QED
    BY <1>1, <2>1, <2>2, <2>3, JobStep
<1>3. rec \in Actor /\ rec.pc = "read" /\ rec.keys = {} /\ rec.job = j
  <2>1. jobs[j].kind \in Kinds /\ jobs[j].groups \in Nat
    BY <1>1 DEF Job
  <2> QED
    BY <2>1 DEF Idle, Actor, Steps, Kinds
<1>4. act' = [act EXCEPT ![w] = rec]
  BY DEF ClaimJob
<1>5. UNCHANGED <<store, used, photos, attachments, obligations, due, cleanup, account, results, faults>>
  BY DEF ClaimJob
<1> HIDE DEF job, rec
<1>6. \A u \in Uploads : jobs[u].status = "none" <=> jobs'[u].status = "none"
  BY <1>1, <1>2
<1>7. /\ act'[w] = rec /\ act' \in [Actors -> Actor]
      /\ \A b \in Actors : b # w => act'[b] = act[b]
      /\ ActorsSound'
  BY <1>1, <1>3, <1>4, <1>6, OneActor
<1>8. TypeOK'
  BY <1>1, <1>2, <1>5, <1>7, TypeParts, TypePrime
<1>9. \A i \in Uploads : jobs'[i].key = jobs[i].key /\ (Unfinished(i)' <=> Unfinished(i))
  BY <1>1, <1>2 DEF Unfinished
<1>10. CleanupSafe'
  BY <1>5, <1>9 DEF Inv, CleanupSafe, Referenced
<1>11. Calm
  <2>1. Released' = Released
    BY <1>5 DEF Released
  <2>2. ASSUME NEW b \in Actors
        PROVE  /\ act'[b].keys \subseteq act[b].keys
               /\ Owner(b)' => Owner(b)
               /\ act'[b].pc \in {"put", "commit"} => act[b].pc \in {"put", "commit"}
    BY <1>1, <1>3, <1>7 DEF Owner
  <2>3. ASSUME NEW b \in Actors, Owner(b)' PROVE act'[b].keys \cap Released' = {}
    BY <2>1, <2>2, <2>3 DEF Inv, KeysApart
  <2>4. Released' \subseteq used \cup {None}
    BY <2>1 DEF Inv, KeysUsed
  <2> QED
    BY <1>5, <1>6, <1>9, <2>2, <2>3, <2>4 DEF Calm
<1> QED
  BY <1>7, <1>8, <1>10, <1>11, CalmInv

LEMMA FailJobInv ==
  ASSUME Inv, NEW w \in Workers, FailJob(w)
  PROVE  Inv'
<1> DEFINE j == act[w].job
<1>1. TypeOK /\ w \in Actors /\ w \notin Uploads /\ act[w].pc = "fail" /\ j \in Uploads /\ act[w].keys = {}
  BY DEF Inv, ActorsSound, FailJob, Actors
<1>2. UNCHANGED <<store, used, photos, attachments, cleanup, account, results>>
      /\ act' = [act EXCEPT ![w] = Idle] /\ faults' \in 0 .. MaxFaults
  BY <1>1, FailsType DEF FailJob
<1>3. CASE HoldsLease(w) /\ jobs' = [jobs EXCEPT ![j].status = "failed"] /\ Enqueue({jobs[j].key})
  <2> HIDE DEF j
  <2>1. jobs[j].status = "processing" /\ jobs[j].key \in Keys
    BY <1>1, <1>3 DEF HoldsLease, j, Inv, JobsSound
  <2>2. /\ jobs' \in Jobs
        /\ \A i \in Uploads : /\ jobs'[i].key = jobs[i].key
                              /\ jobs'[i].status = "none" <=> jobs[i].status = "none"
                              /\ Unfinished(i)' => Unfinished(i)
    <3> DEFINE S == {j}
    <3>1. jobs' = [i \in Uploads |-> IF i \in S THEN [jobs[i] EXCEPT !.status = "failed"] ELSE jobs[i]]
      BY <1>1, <1>3 DEF TypeOK
    <3>2. "failed" \in Statuses /\ \A i \in S : i \in Uploads => jobs[i].status # "none"
      BY <2>1 DEF Statuses
    <3> HIDE DEF S
    <3> QED
      BY <1>1, <3>1, <3>2, RestatedJobs
  <2>3. obligations' \subseteq Keys /\ due' \subseteq obligations' /\ obligations' = obligations \cup {jobs[j].key}
    BY <1>1, <1>3, <2>1, EnqueueType DEF Enqueue
  <2>4. /\ act'[w] = Idle /\ act' \in [Actors -> Actor]
        /\ \A b \in Actors : b # w => act'[b] = act[b]
        /\ ActorsSound'
    <3>1. Idle.pc = "idle" /\ Idle.keys = {}
      BY DEF Idle
    <3> QED
      BY <1>1, <1>2, <2>2, <3>1, IdleActor, OneActor
  <2>5. TypeOK'
    BY <1>1, <1>2, <2>2, <2>3, <2>4, TypeParts, TypePrime
  <2>6. CleanupSafe'
    BY <1>2, <2>2 DEF Inv, CleanupSafe, Referenced
  <2>7. Calm
    <3>1. Released' = Released \cup {jobs[j].key}
      BY <1>2, <2>3 DEF Released
    <3>2. ASSUME NEW b \in Actors
          PROVE  /\ act'[b].keys = IF b = w THEN {} ELSE act[b].keys
                 /\ Owner(b)' => Owner(b) \/ act'[b].keys = {}
                 /\ act'[b].pc \in {"put", "commit"} => act[b].pc \in {"put", "commit"}
      BY <2>4 DEF Owner, Idle
    <3>3. ASSUME NEW b \in Actors, Owner(b)' PROVE act'[b].keys \cap Released' = {}
      BY <1>1, <3>1, <3>2, <3>3 DEF Inv, KeysApart
    <3>4. Released' \subseteq used \cup {None}
      BY <1>1, <3>1 DEF Inv, KeysUsed
    <3> QED
      BY <1>2, <2>2, <3>2, <3>3, <3>4 DEF Calm
  <2> QED
    BY <2>4, <2>5, <2>6, <2>7, CalmInv
<1>4. CASE UNCHANGED <<jobs, obligations, due>>
  <2>1. Idle.keys = {} /\ Idle.pc = "idle"
    BY DEF Idle
  <2> QED
    BY <1>1, <1>2, <1>4, <2>1, IdleActor, MoveInv DEF tables
<1> QED
  BY <1>3, <1>4 DEF FailJob

LEMMA CrashInv ==
  ASSUME Inv, Crash
  PROVE  Inv'
<1>1. TypeOK /\ faults' \in 0 .. MaxFaults
      /\ UNCHANGED <<store, used, photos, attachments, jobs, obligations, due, account, results>>
  BY FaultType DEF Inv, Crash, tables
<1>2. cleanup' \in CleanupStates /\ cleanup'.pc = "rest" /\ cleanup'.keys = {} /\ cleanup'.key = None
  BY ThenType DEF Crash
<1>3. Idle \in Actor /\ [Idle EXCEPT !.pc = "done"] \in Actor
  BY DEF Idle, Actor, Steps, Kinds
<1>4. act' = [a \in Actors |-> IF a \in Workers THEN Idle
                              ELSE IF act[a].pc = "idle" THEN act[a] ELSE [Idle EXCEPT !.pc = "done"]]
  BY DEF Crash
<1>5. \A a \in Actors : /\ act'[a] \in Actor /\ act'[a].keys = {}
                        /\ act'[a].pc \in {"idle", "done"}
                        /\ a \in Workers => act'[a].pc = "idle"
                        /\ a \notin Workers /\ act'[a].pc = "idle" => act[a].pc = "idle"
  BY <1>1, <1>3, <1>4 DEF TypeOK, Idle, Inv, ActorsSound
<1>6. ActorsSound'
  BY <1>1, <1>5 DEF ActorsSound, Inv, Actors
<1>7. TypeOK'
  <2>1. act' \in [Actors -> Actor]
    BY <1>4, <1>5
  <2> QED
    BY <1>1, <1>2, <2>1, TypeParts, TypePrime
<1>8. CleanupSafe'
  BY <1>2 DEF CleanupSafe
<1>9. Calm
  <2>1. Released' \subseteq used \cup {None}
    BY <1>1, <1>2 DEF Released, Inv, KeysUsed
  <2> QED
    BY <1>1, <1>5, <2>1 DEF Calm, Unfinished
<1> QED
  BY <1>6, <1>7, <1>8, <1>9, CalmInv
-----------------------------------------------------------------------------
(* Steps that store an object. *)

LEMMA PutInv ==
  ASSUME Inv, NEW a \in Actors, Put(a)
  PROVE  Inv'
<1>1. PICK k \in Keys : /\ Fresh(k) /\ store' = store \cup {k} /\ used' = used \cup {k}
                        /\ act' = [act EXCEPT ![a].keys = @ \cup {k},
                                               ![a].pc = Stored(a, act[a].keys \cup {k})]
  BY Zenon DEF Put
<1> DEFINE rec == [act[a] EXCEPT !.keys = @ \cup {k}, !.pc = Stored(a, act[a].keys \cup {k})]
<1>2. TypeOK /\ act[a] \in Actor /\ act[a].pc = "put" /\ faults' \in 0 .. MaxFaults
      /\ UNCHANGED <<photos, attachments, jobs, obligations, due, cleanup, account, results>>
  BY FailsType DEF Inv, TypeOK, Put, tables
<1>3. rec \in Actor /\ rec.pc \in {"put", "commit"} /\ rec.keys = act[a].keys \cup {k} /\ rec.job = act[a].job
  BY <1>2 DEF Actor, Stored, Steps
<1>4. act' = [act EXCEPT ![a] = rec]
  BY <1>1, <1>2 DEF TypeOK
<1> HIDE DEF rec
<1>5. /\ act'[a] = rec /\ act' \in [Actors -> Actor]
      /\ \A b \in Actors : b # a => act'[b] = act[b]
      /\ ActorsSound'
  <2>1. a \in Workers => act[a].job \in Uploads
    BY <1>2 DEF Inv, ActorsSound
  <2>2. a \in Uploads => jobs'[a].status = "none"
    BY <1>2 DEF Inv, ActorsSound
  <2> QED
    BY <1>2, <1>3, <1>4, <2>1, <2>2, OneActor
<1>6. TypeOK'
  <2>1. store' \subseteq Keys /\ used' \subseteq Keys
    BY <1>1, <1>2 DEF TypeOK
  <2> QED
    BY <1>2, <1>5, <2>1, TypeParts, TypePrime
<1>7. JobsSound' /\ CleanupSafe' /\ Released' = Released
  BY <1>2, SameReferences DEF Inv, JobsSound, CleanupSafe, Released
<1>8. KeysUsed'
  BY <1>1, <1>2, <1>3, <1>5, <1>7 DEF Inv, KeysUsed
<1>9. KeysApart'
  <2> SUFFICES ASSUME NEW b \in Actors, Owner(b)'
               PROVE  /\ act'[b].keys \cap (photos \cup attachments \cup Released) = {}
                      /\ \A j \in Uploads : jobs[j].key \notin act'[b].keys
                      /\ \A c \in Actors : c # b => act'[b].keys \cap act'[c].keys = {}
    BY <1>2, <1>7 DEF KeysApart
  <2>1. Owner(b)
    BY <1>2, <1>5 DEF Owner
  <2>2. \A c \in Actors : /\ k \notin act[c].keys
                          /\ act'[c].keys = IF c = a THEN act[c].keys \cup {k} ELSE act[c].keys
    BY <1>1, <1>3, <1>5 DEF Inv, KeysUsed, Fresh
  <2>3. k \notin photos \cup attachments \cup Released /\ \A j \in Uploads : jobs[j].key # k
    BY <1>1 DEF Inv, KeysUsed, Fresh
  <2>4. /\ act[b].keys \cap (photos \cup attachments \cup Released) = {}
        /\ \A j \in Uploads : jobs[j].key \notin act[b].keys
        /\ \A c \in Actors : c # b => act[b].keys \cap act[c].keys = {}
    BY <2>1 DEF Inv, KeysApart
  <2>5. /\ act'[b].keys \cap (photos \cup attachments \cup Released) = {}
        /\ \A j \in Uploads : jobs[j].key \notin act'[b].keys
    BY <2>2, <2>3, <2>4
  <2>6. ASSUME NEW c \in Actors, c # b PROVE act'[b].keys \cap act'[c].keys = {}
    BY <2>2, <2>4, <2>6
  <2> QED
    BY <2>5, <2>6
<1>10. OwnedStored'
  BY <1>1, <1>2, <1>3, <1>5 DEF Inv, OwnedStored
<1> QED
  BY <1>5, <1>6, <1>7, <1>8, <1>9, <1>10 DEF Inv

LEMMA PutLostInv ==
  ASSUME Inv, NEW a \in Actors, PutLost(a)
  PROVE  Inv'
<1>1. PICK k \in Keys : Fresh(k) /\ store' = store \cup {k} /\ used' = used \cup {k}
  BY DEF PutLost
<1> DEFINE rec == [act[a] EXCEPT !.pc = "undo"]
<1>2. TypeOK /\ act[a] \in Actor /\ act[a].pc = "put" /\ faults' \in 0 .. MaxFaults
      /\ UNCHANGED <<photos, attachments, jobs, obligations, due, cleanup, account, results>>
  BY FaultType DEF Inv, TypeOK, PutLost, tables
<1>3. rec \in Actor /\ rec.pc = "undo" /\ rec.keys = act[a].keys /\ rec.job = act[a].job
  BY <1>2 DEF Actor, Steps
<1>4. act' = [act EXCEPT ![a] = rec]
  BY DEF PutLost, Goto
<1> HIDE DEF rec
<1>5. /\ act'[a] = rec /\ act' \in [Actors -> Actor]
      /\ \A b \in Actors : b # a => act'[b] = act[b]
      /\ ActorsSound'
  <2>1. a \in Workers => act[a].job \in Uploads
    BY <1>2 DEF Inv, ActorsSound
  <2> QED
    BY <1>2, <1>3, <1>4, <2>1, OneActor
<1>6. TypeOK'
  <2>1. store' \subseteq Keys /\ used' \subseteq Keys
    BY <1>1, <1>2 DEF TypeOK
  <2> QED
    BY <1>2, <1>5, <2>1, TypeParts, TypePrime
<1>7. JobsSound' /\ CleanupSafe' /\ Released' = Released
  BY <1>2, SameReferences DEF Inv, JobsSound, CleanupSafe, Released
<1>8. \A b \in Actors : /\ act'[b].keys = act[b].keys
                        /\ act'[b].pc \in {"put", "commit"} => act[b].pc \in {"put", "commit"}
                        /\ Owner(b)' => Owner(b)
  BY <1>2, <1>3, <1>5 DEF Owner
<1>9. KeysUsed'
  BY <1>1, <1>2, <1>7, <1>8 DEF Inv, KeysUsed
<1>10. KeysApart'
  BY <1>2, <1>7, <1>8 DEF Inv, KeysApart
<1>11. OwnedStored'
  BY <1>1, <1>8 DEF Inv, OwnedStored
<1> QED
  BY <1>5, <1>6, <1>7, <1>9, <1>10, <1>11 DEF Inv

-----------------------------------------------------------------------------
(* Steps that publish what an actor has stored. *)

\* No job is added, or one, by an upload for an object of its own.
JobsKept ==
  \A j \in Uploads : /\ jobs'[j].key = jobs[j].key
                     /\ jobs'[j].status # "none" => jobs[j].status # "none"
                     /\ Unfinished(j)' => Unfinished(j)

JobAdded(u) ==
  /\ photos' = photos /\ attachments' = attachments
  /\ u \in Uploads /\ jobs'[u].key \in act[u].keys
  /\ \A j \in Uploads : j # u => jobs'[j] = jobs[j]

\* Rows, or one job, take over an actor's keys, and the actor no longer owns them.
LEMMA PublishInv ==
  ASSUME Inv, TypeOK', ActorsSound', NEW a \in Actors, act[a].pc = "commit",
         act'[a].pc \notin {"put", "commit"}, Owner(a)' => act'[a].keys = {},
         act'[a].keys \subseteq act[a].keys,
         \A b \in Actors : b # a => act'[b] = act[b],
         UNCHANGED <<store, used, cleanup, account>>,
         photos' \cup attachments' \subseteq photos \cup attachments \cup act[a].keys,
         obligations' \subseteq obligations \cup {jobs[j].key : j \in {i \in Uploads : jobs[i].status # "none"}},
         JobsKept \/ JobAdded(a)
  PROVE  Inv'
<1>1. Owner(a) /\ act[a] \in Actor /\ act[a].keys \subseteq store /\ act[a].keys \subseteq used
      /\ act[a].keys \subseteq Keys
  BY DEF Inv, TypeOK, Actor, Owner, OwnedStored, KeysUsed
<1>2. /\ act[a].keys \cap (photos \cup attachments \cup Released) = {}
      /\ \A j \in Uploads : jobs[j].key \notin act[a].keys
      /\ \A b \in Actors : b # a => act[b].keys \cap act[a].keys = {}
  BY <1>1 DEF Inv, KeysApart
<1>3. ASSUME NEW j \in Uploads
      PROVE  \/ jobs'[j].key = jobs[j].key
             \/ j = a /\ jobs'[j].key \in act[a].keys /\ photos' = photos /\ attachments' = attachments
  BY DEF JobsKept, JobAdded
<1>4. JobsSound'
  <2>1. \A j \in Uploads : jobs'[j].status # "none" => jobs'[j].key \in Keys
    <3>1. CASE JobsKept
      BY <3>1 DEF Inv, JobsSound, JobsKept
    <3>2. CASE JobAdded(a)
      BY <1>1, <3>2 DEF Inv, JobsSound, JobAdded
    <3> QED
      BY <3>1, <3>2
  <2>2. \A i, j \in Uploads : i # j /\ jobs'[i].key = jobs'[j].key => jobs'[i].key = None
    BY <1>2, <1>3 DEF Inv, JobsSound
  <2>3. \A j \in Uploads : jobs'[j].key \notin photos' \cup attachments'
    BY <1>2, <1>3 DEF Inv, JobsSound
  <2> QED
    BY <2>1, <2>2, <2>3 DEF JobsSound
<1>5. \A k \in Released' : k \in Released \/ \E j \in Uploads : k = jobs[j].key
  BY DEF Released
<1>6. KeysUsed'
  <2>1. \A j \in Uploads : jobs'[j].key \in used' \cup {None}
    BY <1>1, <1>3 DEF Inv, KeysUsed
  <2>2. store' \cup photos' \cup attachments' \subseteq used'
    BY <1>1 DEF Inv, KeysUsed
  <2>3. Released' \subseteq used' \cup {None}
    BY <1>5 DEF Inv, KeysUsed
  <2>4. \A b \in Actors : act'[b].keys \subseteq used'
    BY <1>1 DEF Inv, KeysUsed
  <2> QED
    BY <2>1, <2>2, <2>3, <2>4 DEF KeysUsed
<1>7. KeysApart'
  <2> SUFFICES ASSUME NEW b \in Actors, Owner(b)'
               PROVE  /\ act'[b].keys \cap (photos' \cup attachments' \cup Released') = {}
                      /\ \A j \in Uploads : jobs'[j].key \notin act'[b].keys
                      /\ \A c \in Actors : c # b => act'[b].keys \cap act'[c].keys = {}
    BY DEF KeysApart
  <2>1. CASE b = a
    BY <2>1
  <2>2. CASE b # a
    <3>1. Owner(b) /\ act'[b] = act[b]
      BY <2>2 DEF Owner
    <3>2. /\ act[b].keys \cap (photos \cup attachments \cup Released) = {}
          /\ \A j \in Uploads : jobs[j].key \notin act[b].keys
          /\ \A c \in Actors : c # b => act[b].keys \cap act[c].keys = {}
      BY <3>1 DEF Inv, KeysApart
    <3>3. act[b].keys \cap act[a].keys = {}
      BY <1>2, <2>2
    <3>4. act[b].keys \cap (photos' \cup attachments' \cup Released') = {}
      BY <1>5, <3>2, <3>3
    <3>5. \A j \in Uploads : jobs'[j].key \notin act[b].keys
      BY <1>3, <3>2, <3>3
    <3>6. \A c \in Actors : act'[c].keys \subseteq act[c].keys
      OBVIOUS
    <3> QED
      BY <3>1, <3>2, <3>4, <3>5, <3>6
  <2> QED
    BY <2>1, <2>2
<1>8. OwnedStored'
  BY DEF Inv, OwnedStored
<1>9. CleanupSafe'
  <2>1. ASSUME NEW k \in cleanup.keys \cup {cleanup.key}, ~Referenced(k) PROVE ~Referenced(k)'
    <3>1. k \in Released /\ k \notin act[a].keys
      BY <1>2 DEF Released
    <3>2. k \notin photos' \cup attachments'
      BY <2>1, <3>1 DEF Referenced
    <3>3. ASSUME NEW j \in Uploads, jobs'[j].key = k PROVE ~Unfinished(j)'
      <4>1. CASE JobsKept
        BY <2>1, <3>3, <4>1 DEF Referenced, JobsKept
      <4>2. CASE JobAdded(a)
        BY <2>1, <3>1, <3>3, <4>2 DEF Referenced, Unfinished, JobAdded
      <4> QED
        BY <4>1, <4>2
    <3> QED
      BY <3>2, <3>3 DEF Referenced
  <2> QED
    BY <2>1 DEF Inv, CleanupSafe
<1> QED
  BY <1>4, <1>6, <1>7, <1>8, <1>9 DEF Inv

LEMMA CommitUploadInv ==
  ASSUME Inv, NEW u \in Uploads, NEW rec \in Actor, act[u].pc = "commit", CommitUpload(u),
         act' = [act EXCEPT ![u] = rec],
         \/ rec.pc = "done" /\ rec.keys = {}
         \/ rec.pc = "undo" /\ rec.keys = act[u].keys /\ "unknown" \in Faults,
         faults' \in 0 .. MaxFaults,
         UNCHANGED <<store, used, obligations, due, cleanup, account, results>>
  PROVE  Inv'
<1>1. /\ TypeOK /\ u \in Actors /\ u \notin Workers /\ act[u] \in Actor
      /\ act[u].keys \in SUBSET Keys /\ act[u].keys # {} /\ jobs[u].status = "none"
  BY DEF Inv, TypeOK, Actors, Actor, ActorsSound
<1>2. /\ jobs' \in Jobs /\ photos' \subseteq Keys /\ attachments' \subseteq Keys
      /\ JobsKept \/ JobAdded(u)
      /\ \A j \in Uploads : j # u => jobs'[j] = jobs[j]
      /\ photos' \cup attachments' \subseteq photos \cup attachments \cup act[u].keys
  <2>1. CASE act[u].video
    <3> DEFINE key == CHOOSE k \in act[u].keys : TRUE
    <3> DEFINE job == [NoRow EXCEPT !.status = "queued", !.kind = act[u].kind,
                                    !.groups = act[u].groups, !.key = key]
    <3>1. key \in act[u].keys /\ key \in Keys
      BY <1>1
    <3>2. jobs' = [jobs EXCEPT ![u] = job] /\ UNCHANGED <<photos, attachments>>
      BY <2>1 DEF CommitUpload
    <3> HIDE DEF key
    <3>3. job \in Job /\ job.key = key /\ job.status = "queued" /\ job.lease = None
      <4>1. act[u].kind \in Kinds /\ act[u].groups \in Nat
        BY <1>1 DEF Actor
      <4> QED
        BY <3>1, <4>1 DEF NoRow, Job, Statuses, Kinds
    <3> HIDE DEF job
    <3>4. jobs' \in Jobs /\ jobs'[u] = job /\ \A j \in Uploads : j # u => jobs'[j] = jobs[j]
      BY <1>1, <3>2, <3>3, JobStep
    <3>5. JobAdded(u)
      BY <3>1, <3>2, <3>3, <3>4 DEF JobAdded
    <3> QED
      BY <1>1, <3>2, <3>4, <3>5 DEF TypeOK
  <2>2. CASE ~act[u].video
    <3>1. InsertRows(act[u].kind, act[u].keys) /\ jobs' = jobs
      BY <2>2 DEF CommitUpload
    <3>2. jobs' \in Jobs /\ JobsKept
      BY <1>1, <3>1, TypeParts DEF JobsKept, Unfinished
    <3> QED
      BY <1>1, <3>1, <3>2, InsertType DEF InsertRows
  <2> QED
    BY <2>1, <2>2
<1>3. /\ act'[u] = rec /\ act' \in [Actors -> Actor]
      /\ \A b \in Actors : b # u => act'[b] = act[b]
      /\ ActorsSound'
  <2>1. \A j \in Uploads : j # u /\ jobs[j].status = "none" => jobs'[j].status = "none"
    BY <1>2
  <2> QED
    BY <1>1, <2>1, OneActor
<1>4. TypeOK'
  BY <1>1, <1>2, <1>3, TypeParts, TypePrime
<1>5. Owner(u)' => act'[u].keys = {}
  BY <1>3 DEF Owner
<1>6. act'[u].pc \notin {"put", "commit"} /\ act'[u].keys \subseteq act[u].keys
  BY <1>3
<1> QED
  BY <1>1, <1>2, <1>3, <1>4, <1>5, <1>6, PublishInv

LEMMA CreateInv ==
  ASSUME Inv, NEW u \in Uploads, Create(u)
  PROVE  Inv'
<1> DEFINE rec == [Idle EXCEPT !.pc = "done"]
<1>1. rec \in Actor /\ rec.pc = "done" /\ rec.keys = {}
  BY DEF Idle, Actor, Steps, Kinds
<1>2. faults' \in 0 .. MaxFaults
  BY FailsType DEF Create, Inv
<1>3. act[u].pc = "commit" /\ CommitUpload(u) /\ act' = [act EXCEPT ![u] = rec]
      /\ UNCHANGED <<store, used, obligations, due, cleanup, account, results>>
  BY DEF Create
<1> HIDE DEF rec
<1> QED
  BY <1>1, <1>2, <1>3, CommitUploadInv

\* A record that goes on to compensate.
LEMMA UndoingActor ==
  ASSUME NEW r \in Actor
  PROVE  /\ [r EXCEPT !.pc = "undo"] \in Actor
         /\ [r EXCEPT !.pc = "undo"].pc = "undo"
         /\ [r EXCEPT !.pc = "undo"].keys = r.keys
         /\ [r EXCEPT !.pc = "undo"].job = r.job
  BY DEF Actor, Steps

LEMMA CreateUnknownInv ==
  ASSUME Inv, NEW u \in Uploads, CreateUnknown(u)
  PROVE  Inv'
<1> DEFINE rec == [act[u] EXCEPT !.pc = "undo"]
<1>1. act[u] \in Actor
  BY DEF Inv, TypeOK, Actors
<1>2. rec \in Actor /\ rec.pc = "undo" /\ rec.keys = act[u].keys
  BY <1>1, UndoingActor
<1>3. faults' \in 0 .. MaxFaults /\ "unknown" \in Faults
  BY FaultType DEF CreateUnknown, Inv, Fault
<1>4. act[u].pc = "commit" /\ CommitUpload(u) /\ act' = [act EXCEPT ![u] = rec]
      /\ UNCHANGED <<store, used, obligations, due, cleanup, account, results>>
  BY DEF CreateUnknown, Goto
<1> HIDE DEF rec
<1> QED
  BY <1>2, <1>3, <1>4, CommitUploadInv

LEMMA CommitResultInv ==
  ASSUME Inv, NEW w \in Workers, NEW rec \in Actor, act[w].pc = "commit", HoldsLease(w), CommitResult(w),
         act' = [act EXCEPT ![w] = rec],
         \/ rec.pc = "idle" /\ rec.keys = {}
         \/ rec.pc = "undo" /\ rec.keys = act[w].keys /\ rec.job = act[w].job /\ "unknown" \in Faults,
         faults' \in 0 .. MaxFaults,
         UNCHANGED <<store, used, cleanup, account>>
  PROVE  Inv'
<1> DEFINE j == act[w].job
<1>1. /\ TypeOK /\ w \in Actors /\ w \notin Uploads /\ act[w] \in Actor
      /\ act[w].keys \in SUBSET Keys /\ act[w].keys # {} /\ j \in Uploads
  BY DEF Inv, TypeOK, Actors, Actor, ActorsSound
<1>2. jobs[j].status = "processing" /\ jobs[j].key \in Keys
  BY <1>1 DEF HoldsLease, Inv, JobsSound
<1>3. /\ InsertRows(act[w].kind, act[w].keys) /\ jobs' = [jobs EXCEPT ![j].status = "ready"]
      /\ results' = [results EXCEPT ![j] = @ + 1] /\ Enqueue({jobs[j].key})
  BY DEF CommitResult
<1> HIDE DEF j
<1>4. jobs' \in Jobs /\ JobsKept
  <2> DEFINE S == {j}
  <2>1. jobs' = [i \in Uploads |-> IF i \in S THEN [jobs[i] EXCEPT !.status = "ready"] ELSE jobs[i]]
    BY <1>1, <1>3 DEF TypeOK
  <2>2. "ready" \in Statuses /\ \A i \in S : i \in Uploads => jobs[i].status # "none"
    BY <1>2 DEF Statuses
  <2> HIDE DEF S
  <2>3. /\ jobs' \in Jobs
        /\ \A i \in Uploads : /\ jobs'[i].key = jobs[i].key
                              /\ jobs'[i].status = "none" <=> jobs[i].status = "none"
                              /\ Unfinished(i)' => Unfinished(i)
    BY <1>1, <2>1, <2>2, RestatedJobs
  <2> QED
    BY <2>3 DEF JobsKept
<1>5. /\ photos' \subseteq Keys /\ attachments' \subseteq Keys
      /\ photos' \cup attachments' \subseteq photos \cup attachments \cup act[w].keys
  <2>1. photos' \subseteq Keys /\ attachments' \subseteq Keys
    BY <1>1, <1>3, InsertType
  <2> QED
    BY <1>3, <2>1 DEF InsertRows
<1>6. obligations' \subseteq Keys /\ due' \subseteq obligations' /\ obligations' = obligations \cup {jobs[j].key}
  <2>1. {jobs[j].key} \in SUBSET Keys
    BY <1>2
  <2>2. obligations' \subseteq Keys /\ due' \subseteq obligations'
    BY <1>1, <1>3, <2>1, EnqueueType
  <2> QED
    BY <1>3, <2>2 DEF Enqueue
<1>7. /\ act'[w] = rec /\ act' \in [Actors -> Actor]
      /\ \A b \in Actors : b # w => act'[b] = act[b]
      /\ ActorsSound'
  <2>1. rec.pc = "idle" \/ rec.job \in Uploads
    BY <1>1 DEF j
  <2>2. \A u \in Uploads : u # w /\ jobs[u].status = "none" => jobs'[u].status = "none"
    BY <1>4 DEF JobsKept
  <2> QED
    BY <1>1, <2>1, <2>2, OneActor
<1>8. TypeOK'
  <2>1. results' \in [Uploads -> Nat]
    BY <1>1, <1>3 DEF TypeOK
  <2> QED
    BY <1>1, <1>4, <1>5, <1>6, <1>7, <2>1, TypeParts, TypePrime
<1>9. Owner(w)' => act'[w].keys = {}
  BY <1>7 DEF Owner
<1>10. act'[w].pc \notin {"put", "commit"} /\ act'[w].keys \subseteq act[w].keys
  BY <1>7
<1>11. obligations' \subseteq obligations \cup {jobs[i].key : i \in {i \in Uploads : jobs[i].status # "none"}}
  BY <1>1, <1>2, <1>6
<1> QED
  BY <1>1, <1>4, <1>5, <1>7, <1>8, <1>9, <1>10, <1>11, PublishInv

LEMMA CompleteInv ==
  ASSUME Inv, NEW w \in Workers, Complete(w)
  PROVE  Inv'
<1>1. Idle.pc = "idle" /\ Idle.keys = {}
  BY DEF Idle
<1>2. faults' \in 0 .. MaxFaults
  BY FailsType DEF Complete, Inv
<1>3. act[w].pc = "commit" /\ HoldsLease(w) /\ CommitResult(w) /\ act' = [act EXCEPT ![w] = Idle]
      /\ UNCHANGED <<store, used, cleanup, account>>
  BY DEF Complete
<1> QED
  BY <1>1, <1>2, <1>3, IdleActor, CommitResultInv

LEMMA CompleteUnknownInv ==
  ASSUME Inv, NEW w \in Workers, CompleteUnknown(w)
  PROVE  Inv'
<1> DEFINE rec == [act[w] EXCEPT !.pc = "undo"]
<1>1. act[w] \in Actor
  BY DEF Inv, TypeOK, Actors
<1>2. rec \in Actor /\ rec.pc = "undo" /\ rec.keys = act[w].keys /\ rec.job = act[w].job
  BY <1>1, UndoingActor
<1>3. faults' \in 0 .. MaxFaults /\ "unknown" \in Faults
  BY FaultType DEF CompleteUnknown, Inv, Fault
<1>4. act[w].pc = "commit" /\ HoldsLease(w) /\ CommitResult(w) /\ act' = [act EXCEPT ![w] = rec]
      /\ UNCHANGED <<store, used, cleanup, account>>
  BY DEF CompleteUnknown, Goto
<1> HIDE DEF rec
<1> QED
  BY <1>2, <1>3, <1>4, CommitResultInv

-----------------------------------------------------------------------------
(* The invariant of the specification. *)

LEMMA CleanupInv ==
  ASSUME Inv, CleanupSteps
  PROVE  Inv'
<1>1. CASE \E k \in Keys : RetireRetainedMedia(k)
  BY <1>1, RetireInv
<1>2. CASE RequeueStaleProcessingJobs
  BY <1>2, RequeueInv
<1>3. CASE AbandonQueuedProcessingJobs
  BY <1>3, AbandonInv
<1>4. CASE \E k \in Keys : SweepAbandoned(k)
  BY <1>4, SweepInv
<1>5. CASE \E S \in SUBSET Uploads : PurgeExpiredProcessingJobs(S)
  BY <1>5, PurgeInv
<1>6. CASE ClaimDeletionJobs
  BY <1>6, ClaimDeletionInv
<1>7. CASE \E k \in Keys : KeepReferenced(k) \/ CheckReferences(k)
  BY <1>7, KeepReferencedInv, CheckReferencesInv
<1>8. CASE DeleteObject
  BY <1>8, DeleteObjectInv
<1>9. CASE StatementFails
  BY <1>9, StatementFailsInv
<1> QED
  BY <1>1, <1>2, <1>3, <1>4, <1>5, <1>6, <1>7, <1>8, <1>9 DEF CleanupSteps

LEMMA ActorInv ==
  ASSUME Inv, NEW a \in Actors, ActorSteps(a) \/ Cancel(a)
  PROVE  Inv'
  BY PutInv, PutFailsInv, PutLostInv, UndoDeletedInv, UndoQueuedInv, UndoDroppedInv, UndoDoneInv,
     CancelInv DEF ActorSteps

LEMMA WorkerInv ==
  ASSUME Inv, NEW w \in Workers, WorkerSteps(w)
  PROVE  Inv'
  BY ClaimJobInv, TranscodeInv, CompleteInv, CompleteUnknownInv, CompleteFailsInv, FailJobInv
  DEF WorkerSteps

LEMMA NextInv ==
  ASSUME Inv, [Next]_vars
  PROVE  Inv'
<1>1. CASE \E u \in Uploads, kind \in Kinds, video \in BOOLEAN, n \in 1 .. MaxGroups :
             StartUpload(u, kind, video, n)
  BY <1>1, StartUploadInv
<1>2. CASE \E u \in Uploads : UploadSteps(u)
  BY <1>2, CreateInv, CreateFailsInv, CreateUnknownInv DEF UploadSteps
<1>3. CASE \E w \in Workers : WorkerSteps(w)
  BY <1>3, WorkerInv
<1>4. CASE \E a \in Actors : ActorSteps(a) \/ Cancel(a)
  BY <1>4, ActorInv
<1>5. CASE CleanupSteps
  BY <1>5, CleanupInv
<1>6. CASE ReadPhotoKeys \/ DeleteUser
  BY <1>6, ReadPhotoKeysInv, DeleteUserInv
<1>7. CASE \E k \in Keys : BackoffEnds(k)
  BY <1>7, BackoffEndsInv
<1>8. CASE \E j \in Uploads : ClaimGetsStale(j) \/ JobGetsOld(j) \/ \E w \in Workers : WorkerIsSlow(w, j)
  BY <1>8, TimeInv
<1>9. CASE Crash
  BY <1>9, CrashInv
<1>10. CASE UNCHANGED vars
  <2>1. UNCHANGED <<store, used, photos, attachments, jobs, obligations, due, act, cleanup, account, results, faults>>
    BY <1>10 DEF vars, tables
  <2>2. jobs' \in Jobs /\ faults' \in 0 .. MaxFaults
    BY <2>1, TypeParts DEF Inv
  <2> QED
    BY <2>1, <2>2, FlagsInv
<1> QED
  BY <1>1, <1>2, <1>3, <1>4, <1>5, <1>6, <1>7, <1>8, <1>9, <1>10 DEF Next

\* The inductive invariant holds for any number of keys, uploads and workers,
\* under every fault, with or without an account deletion.
THEOREM InvHolds == Spec => []Inv
<1>1. Inv /\ [Next]_vars => Inv'
  BY NextInv
<1> QED
  BY <1>1, InitInv, PTL DEF Spec

\* Every variable has its type, and a job is leased exactly while it is processed.
THEOREM TypeCorrect == Spec => []TypeOK
<1>1. Inv => TypeOK
  BY DEF Inv
<1> QED
  BY <1>1, InvHolds, PTL

-----------------------------------------------------------------------------
(* Who changes what. *)

\* The steps that change a row or a job.
RowStep ==
  \/ \E u \in Uploads : Create(u) \/ CreateUnknown(u)
  \/ \E w \in Workers : Complete(w) \/ CompleteUnknown(w) \/ FailJob(w)
  \/ \E w \in Workers, j \in Uploads : ClaimJob(w, j)
  \/ \E k \in Keys : RetireRetainedMedia(k)
  \/ RequeueStaleProcessingJobs \/ AbandonQueuedProcessingJobs
  \/ \E S \in SUBSET Uploads : PurgeExpiredProcessingJobs(S)
  \/ DeleteUser
  \/ \E j \in Uploads : ClaimGetsStale(j) \/ JobGetsOld(j) \/ \E w \in Workers : WorkerIsSlow(w, j)

LEMMA WhoChangesRows ==
  ASSUME [Next]_vars
  PROVE  UNCHANGED <<photos, attachments, jobs, results>> \/ RowStep
<1>1. ASSUME NEW u \in Uploads, NEW kind, NEW video, NEW n, StartUpload(u, kind, video, n)
      PROVE  UNCHANGED <<photos, attachments, jobs, results>>
  BY <1>1 DEF StartUpload, tables
<1>2. ASSUME NEW u \in Uploads, UploadSteps(u)
      PROVE  UNCHANGED <<photos, attachments, jobs, results>> \/ RowStep
  BY <1>2 DEF UploadSteps, CreateFails, tables, RowStep
<1>3. ASSUME NEW w \in Workers, WorkerSteps(w)
      PROVE  UNCHANGED <<photos, attachments, jobs, results>> \/ RowStep
  BY <1>3 DEF WorkerSteps, Transcode, CompleteFails, tables, RowStep
<1>4. ASSUME NEW a \in Actors, ActorSteps(a) \/ Cancel(a)
      PROVE  UNCHANGED <<photos, attachments, jobs, results>>
  BY <1>4 DEF ActorSteps, Put, PutFails, PutLost, UndoDeleted, UndoQueued, UndoDropped, UndoDone,
     Cancel, tables
<1>5. ASSUME CleanupSteps
      PROVE  UNCHANGED <<photos, attachments, jobs, results>> \/ RowStep
  BY <1>5 DEF CleanupSteps, SweepAbandoned, ClaimDeletionJobs, KeepReferenced, CheckReferences,
     DeleteObject, StatementFails, tables, RowStep
<1>6. ASSUME ReadPhotoKeys \/ \E k \in Keys : BackoffEnds(k)
      PROVE  UNCHANGED <<photos, attachments, jobs, results>>
  BY <1>6 DEF ReadPhotoKeys, BackoffEnds, tables
<1>7. ASSUME Crash \/ UNCHANGED vars
      PROVE  UNCHANGED <<photos, attachments, jobs, results>>
  BY <1>7 DEF Crash, vars, tables
<1> QED
  BY <1>1, <1>2, <1>3, <1>4, <1>5, <1>6, <1>7 DEF Next, RowStep

LEMMA WhoStores ==
  ASSUME [Next]_vars
  PROVE  store' \subseteq store \/ \E a \in Actors : Put(a) \/ PutLost(a)
<1>1. ASSUME NEW u \in Uploads, NEW kind, NEW video, NEW n, StartUpload(u, kind, video, n)
      PROVE  store' = store
  BY <1>1 DEF StartUpload
<1>2. ASSUME NEW u \in Uploads, UploadSteps(u) PROVE store' = store
  BY <1>2 DEF UploadSteps, Create, CreateFails, CreateUnknown
<1>3. ASSUME NEW w \in Workers, WorkerSteps(w) PROVE store' = store
  BY <1>3 DEF WorkerSteps, ClaimJob, Transcode, Complete, CompleteUnknown, CompleteFails, FailJob
<1>4. ASSUME NEW a \in Actors, ActorSteps(a) \/ Cancel(a)
      PROVE  store' \subseteq store \/ Put(a) \/ PutLost(a)
  BY <1>4 DEF ActorSteps, PutFails, UndoDeleted, UndoQueued, UndoDropped, UndoDone, Cancel
<1>5. ASSUME CleanupSteps PROVE store' \subseteq store
  BY <1>5 DEF CleanupSteps, RetireRetainedMedia, RequeueStaleProcessingJobs,
     AbandonQueuedProcessingJobs, SweepAbandoned, PurgeExpiredProcessingJobs, ClaimDeletionJobs,
     KeepReferenced, CheckReferences, DeleteObject, StatementFails
<1>6. ASSUME ReadPhotoKeys \/ DeleteUser \/ \E k \in Keys : BackoffEnds(k) PROVE store' = store
  BY <1>6 DEF ReadPhotoKeys, DeleteUser, BackoffEnds
<1>7. ASSUME \E j \in Uploads : ClaimGetsStale(j) \/ JobGetsOld(j) \/ \E w \in Workers : WorkerIsSlow(w, j)
      PROVE  store' = store
  BY <1>7 DEF ClaimGetsStale, JobGetsOld, WorkerIsSlow
<1>8. ASSUME Crash \/ UNCHANGED vars PROVE store' = store
  BY <1>8 DEF Crash, vars
<1> QED
  BY <1>1, <1>2, <1>3, <1>4, <1>5, <1>6, <1>7, <1>8 DEF Next

LEMMA WhoDeletes ==
  ASSUME [Next]_vars
  PROVE  \/ store \subseteq store'
         \/ \E a \in Actors : UndoDeleted(a)
         \/ \E k \in Keys : SweepAbandoned(k)
         \/ DeleteObject
<1>1. ASSUME NEW u \in Uploads, NEW kind, NEW video, NEW n, StartUpload(u, kind, video, n)
      PROVE  store' = store
  BY <1>1 DEF StartUpload
<1>2. ASSUME NEW u \in Uploads, UploadSteps(u) PROVE store' = store
  BY <1>2 DEF UploadSteps, Create, CreateFails, CreateUnknown
<1>3. ASSUME NEW w \in Workers, WorkerSteps(w) PROVE store' = store
  BY <1>3 DEF WorkerSteps, ClaimJob, Transcode, Complete, CompleteUnknown, CompleteFails, FailJob
<1>4. ASSUME NEW a \in Actors, ActorSteps(a) \/ Cancel(a)
      PROVE  store \subseteq store' \/ UndoDeleted(a)
  BY <1>4 DEF ActorSteps, Put, PutFails, PutLost, UndoQueued, UndoDropped, UndoDone, Cancel
<1>5. ASSUME CleanupSteps
      PROVE  store \subseteq store' \/ DeleteObject \/ \E k \in Keys : SweepAbandoned(k)
  BY <1>5 DEF CleanupSteps, RetireRetainedMedia, RequeueStaleProcessingJobs,
     AbandonQueuedProcessingJobs, PurgeExpiredProcessingJobs, ClaimDeletionJobs,
     KeepReferenced, CheckReferences, StatementFails
<1>6. ASSUME ReadPhotoKeys \/ DeleteUser \/ \E k \in Keys : BackoffEnds(k) PROVE store' = store
  BY <1>6 DEF ReadPhotoKeys, DeleteUser, BackoffEnds
<1>7. ASSUME \E j \in Uploads : ClaimGetsStale(j) \/ JobGetsOld(j) \/ \E w \in Workers : WorkerIsSlow(w, j)
      PROVE  store' = store
  BY <1>7 DEF ClaimGetsStale, JobGetsOld, WorkerIsSlow
<1>8. ASSUME Crash \/ UNCHANGED vars PROVE store' = store
  BY <1>8 DEF Crash, vars
<1> QED
  BY <1>1, <1>2, <1>3, <1>4, <1>5, <1>6, <1>7, <1>8 DEF Next

LEMMA WhoCompletesDeletions ==
  ASSUME [Next]_vars
  PROVE  obligations \subseteq obligations' \/ DeleteObject \/ \E k \in Keys : KeepReferenced(k)
<1>1. ASSUME NEW u \in Uploads, NEW kind, NEW video, NEW n, StartUpload(u, kind, video, n)
      PROVE  obligations' = obligations
  BY <1>1 DEF StartUpload, tables
<1>2. ASSUME NEW u \in Uploads, UploadSteps(u) PROVE obligations' = obligations
  BY <1>2 DEF UploadSteps, Create, CreateFails, CreateUnknown, tables
<1>3. ASSUME NEW w \in Workers, WorkerSteps(w) PROVE obligations \subseteq obligations'
  BY <1>3 DEF WorkerSteps, ClaimJob, Transcode, Complete, CompleteUnknown, CompleteFails, FailJob,
     CommitResult, Enqueue, tables
<1>4. ASSUME NEW a \in Actors, ActorSteps(a) \/ Cancel(a) PROVE obligations \subseteq obligations'
  BY <1>4 DEF ActorSteps, Put, PutFails, PutLost, UndoDeleted, UndoQueued, UndoDropped, UndoDone,
     Cancel, Enqueue, tables
<1>5. ASSUME CleanupSteps
      PROVE  obligations \subseteq obligations' \/ DeleteObject \/ \E k \in Keys : KeepReferenced(k)
  BY <1>5 DEF CleanupSteps, RetireRetainedMedia, RequeueStaleProcessingJobs,
     AbandonQueuedProcessingJobs, SweepAbandoned, PurgeExpiredProcessingJobs, ClaimDeletionJobs,
     CheckReferences, StatementFails, Enqueue, tables
<1>6. ASSUME ReadPhotoKeys \/ DeleteUser \/ \E k \in Keys : BackoffEnds(k)
      PROVE  obligations \subseteq obligations'
  BY <1>6 DEF ReadPhotoKeys, DeleteUser, BackoffEnds, Enqueue, tables
<1>7. ASSUME \E j \in Uploads : ClaimGetsStale(j) \/ JobGetsOld(j) \/ \E w \in Workers : WorkerIsSlow(w, j)
      PROVE  obligations' = obligations
  BY <1>7 DEF ClaimGetsStale, JobGetsOld, WorkerIsSlow
<1>8. ASSUME Crash \/ UNCHANGED vars PROVE obligations' = obligations
  BY <1>8 DEF Crash, vars, tables
<1> QED
  BY <1>1, <1>2, <1>3, <1>4, <1>5, <1>6, <1>7, <1>8 DEF Next

LEMMA DeletionsStep ==
  ASSUME [Next]_vars
  PROVE  \A k \in obligations \ obligations' : k \notin store' \/ Referenced(k)'
<1>1. CASE DeleteObject
  BY <1>1 DEF DeleteObject
<1>2. ASSUME NEW k \in Keys, KeepReferenced(k)
      PROVE  \A x \in obligations \ obligations' : Referenced(x)'
  <2>1. \A x \in obligations \ obligations' : x = k
    BY <1>2 DEF KeepReferenced
  <2>2. Referenced(k)'
    BY <1>2, SameReferences DEF KeepReferenced
  <2> QED
    BY <2>1, <2>2
<1> QED
  BY <1>1, <1>2, WhoCompletesDeletions

\* A deletion job is completed only when its object is gone or referenced,
\* whatever fails and whoever else is at work.
THEOREM DeletionsAreReal == Spec => ObligationsMet
<1>1. [Next]_vars =>
        [\A k \in obligations \ obligations' : k \notin store' \/ Referenced(k)']_vars
  BY DeletionsStep
<1> QED
  BY <1>1, PTL DEF Spec, ObligationsMet

-----------------------------------------------------------------------------
(* The life of a job. *)

\* A job's status goes from old to new, and neither its key nor its results change.
Moves(j, old, new) ==
  /\ jobs[j].status \in old /\ jobs'[j].status = new
  /\ jobs'[j].key = jobs[j].key /\ results'[j] = results[j]

Stays(j) ==
  /\ jobs'[j].status = jobs[j].status /\ jobs'[j].lease = jobs[j].lease
  /\ jobs'[j].key = jobs[j].key /\ results'[j] = results[j]

Appears(j) ==
  /\ jobs[j].status = "none" /\ jobs'[j].status = "queued" /\ results'[j] = results[j]
  /\ act[j].pc = "commit" /\ jobs'[j].key \in act[j].keys /\ store' = store

\* The worker that holds the claim ends it.
EndedBy(j, w) ==
  /\ act[w].job = j /\ jobs[j].lease = w /\ act'[w].pc # act[w].pc
  /\ jobs[j].key \in obligations'

JobMove(j) ==
  \/ Stays(j)
  \/ Appears(j)
  \/ Moves(j, {"queued"}, "processing")
  \/ Moves(j, {"processing"}, "queued") /\ jobs[j].stale
  \/ Moves(j, {"queued"}, "failed") /\ jobs[j].key \in obligations'
  \/ Moves(j, {"processing"}, "failed") /\ \E w \in Workers : EndedBy(j, w)
  \/ /\ jobs[j].status = "processing" /\ jobs'[j].status = "ready" /\ jobs'[j].key = jobs[j].key
     /\ results'[j] = results[j] + 1 /\ \E w \in Workers : EndedBy(j, w)
  \/ Moves(j, {"ready", "failed"}, "purged")
  \/ Moves(j, Statuses \ {"none"}, "purged") /\ account'.state = "gone"

\* One job gets another status.
LEMMA StatusStep ==
  ASSUME TypeOK, NEW i \in Uploads, NEW st, jobs' = [jobs EXCEPT ![i].status = st], NEW j \in Uploads
  PROVE  /\ jobs'[j].status = IF j = i THEN st ELSE jobs[j].status
         /\ jobs'[j].lease = jobs[j].lease /\ jobs'[j].key = jobs[j].key
  BY DEF TypeOK, Job

LEMMA CommitUploadMoves ==
  ASSUME Inv, NEW u \in Uploads, act[u].pc = "commit", CommitUpload(u),
         results' = results, store' = store, NEW j \in Uploads
  PROVE  JobMove(j)
<1>1. TypeOK /\ jobs[u].status = "none" /\ act[u].keys # {}
  BY DEF Inv, ActorsSound, Actors
<1>2. CASE ~act[u].video
  BY <1>2 DEF CommitUpload, JobMove, Stays
<1>3. CASE act[u].video
  <2> DEFINE key == CHOOSE k \in act[u].keys : TRUE
  <2>1. key \in act[u].keys
    BY <1>1
  <2>2. jobs' = [jobs EXCEPT ![u] = [NoRow EXCEPT !.status = "queued", !.kind = act[u].kind,
                       !.groups = act[u].groups, !.key = key]]
    BY <1>3 DEF CommitUpload
  <2> HIDE DEF key
  <2>3. CASE j = u
    <3>1. jobs'[j].status = "queued" /\ jobs'[j].key = key
      BY <1>1, <2>2, <2>3 DEF TypeOK, NoRow
    <3> QED
      BY <1>1, <2>1, <2>3, <3>1 DEF JobMove, Appears
  <2>4. CASE j # u
    <3>1. jobs'[j] = jobs[j]
      BY <1>1, <2>2, <2>4 DEF TypeOK
    <3> QED
      BY <3>1 DEF JobMove, Stays
  <2> QED
    BY <2>3, <2>4
<1> QED
  BY <1>2, <1>3

LEMMA CommitResultMoves ==
  ASSUME Inv, NEW w \in Workers, act[w].pc = "commit", HoldsLease(w), CommitResult(w),
         act'[w].pc # "commit", NEW j \in Uploads
  PROVE  JobMove(j)
<1> DEFINE i == act[w].job
<1>1. TypeOK /\ i \in Uploads /\ jobs[i].status = "processing" /\ jobs[i].lease = w
  BY DEF Inv, ActorsSound, HoldsLease
<1>2. /\ jobs' = [jobs EXCEPT ![i].status = "ready"] /\ results' = [results EXCEPT ![i] = @ + 1]
      /\ jobs[i].key \in obligations'
  BY DEF CommitResult, Enqueue
<1>3. /\ jobs'[j].status = IF j = i THEN "ready" ELSE jobs[j].status
      /\ jobs'[j].lease = jobs[j].lease /\ jobs'[j].key = jobs[j].key
  BY <1>1, <1>2, StatusStep
<1>4. results'[j] = IF j = i THEN results[j] + 1 ELSE results[j]
  BY <1>1, <1>2 DEF TypeOK
<1>5. CASE j = i
  <2>1. EndedBy(j, w)
    BY <1>1, <1>2, <1>5 DEF EndedBy
  <2> HIDE DEF i
  <2> QED
    BY <1>1, <1>3, <1>4, <1>5, <2>1 DEF JobMove
<1>6. CASE j # i
  BY <1>3, <1>4, <1>6 DEF JobMove, Stays
<1> QED
  BY <1>5, <1>6

LEMMA FailJobMoves ==
  ASSUME Inv, NEW w \in Workers, FailJob(w), NEW j \in Uploads
  PROVE  JobMove(j)
<1> DEFINE i == act[w].job
<1>1. TypeOK /\ i \in Uploads /\ act[w].pc = "fail" /\ results' = results
  BY DEF Inv, ActorsSound, FailJob
<1>2. CASE jobs' = jobs
  BY <1>1, <1>2 DEF JobMove, Stays
<1>3. CASE /\ HoldsLease(w) /\ jobs' = [jobs EXCEPT ![i].status = "failed"]
           /\ Enqueue({jobs[i].key})
  <2>1. /\ jobs'[j].status = IF j = i THEN "failed" ELSE jobs[j].status
        /\ jobs'[j].lease = jobs[j].lease /\ jobs'[j].key = jobs[j].key
    BY <1>1, <1>3, StatusStep
  <2>2. CASE j = i
    <3>1. act'[w].pc = "idle"
      BY DEF FailJob, Idle, Inv, TypeOK, Actors
    <3>2. EndedBy(j, w) /\ jobs[j].status = "processing"
      BY <1>1, <1>3, <2>2, <3>1 DEF EndedBy, HoldsLease, Enqueue
    <3> HIDE DEF i
    <3> QED
      BY <1>1, <2>1, <2>2, <3>2 DEF JobMove, Moves
  <2>3. CASE j # i
    BY <1>1, <2>1, <2>3 DEF JobMove, Stays
  <2> QED
    BY <2>2, <2>3
<1> QED
  BY <1>2, <1>3 DEF FailJob

LEMMA ClaimJobMoves ==
  ASSUME Inv, NEW w \in Workers, NEW i \in Uploads, ClaimJob(w, i), NEW j \in Uploads
  PROVE  JobMove(j)
<1>1. TypeOK /\ jobs[i].status = "queued" /\ results' = results
      /\ jobs' = [jobs EXCEPT ![i].status = "processing", ![i].lease = w, ![i].stale = FALSE]
  BY DEF Inv, ClaimJob
<1>2. CASE j = i
  <2>1. jobs'[j].status = "processing" /\ jobs'[j].key = jobs[j].key
    BY <1>1, <1>2 DEF TypeOK, Job
  <2> QED
    BY <1>1, <1>2, <2>1 DEF JobMove, Moves
<1>3. CASE j # i
  <2>1. jobs'[j] = jobs[j]
    BY <1>1, <1>3 DEF TypeOK
  <2> QED
    BY <1>1, <2>1 DEF JobMove, Stays
<1> QED
  BY <1>2, <1>3

LEMMA CleanupMoves ==
  ASSUME Inv, NEW j \in Uploads,
         \/ RequeueStaleProcessingJobs \/ AbandonQueuedProcessingJobs
         \/ \E S \in SUBSET Uploads : PurgeExpiredProcessingJobs(S)
  PROVE  JobMove(j)
<1>1. TypeOK /\ jobs[j] \in Job
  BY DEF Inv, TypeOK
<1>2. CASE RequeueStaleProcessingJobs
  <2>1. results' = results
    BY <1>2 DEF RequeueStaleProcessingJobs
  <2>2. CASE jobs[j].status = "processing" /\ jobs[j].stale
    <3>1. jobs'[j] = [jobs[j] EXCEPT !.status = "queued", !.lease = None, !.stale = FALSE]
      BY <1>2, <2>2 DEF RequeueStaleProcessingJobs
    <3>2. jobs'[j].status = "queued" /\ jobs'[j].key = jobs[j].key
      BY <1>1, <3>1 DEF Job
    <3> QED
      BY <2>1, <2>2, <3>2 DEF JobMove, Moves
  <2>3. CASE ~(jobs[j].status = "processing" /\ jobs[j].stale)
    <3>1. jobs'[j] = jobs[j]
      BY <1>2, <2>3 DEF RequeueStaleProcessingJobs
    <3> QED
      BY <2>1, <3>1 DEF JobMove, Stays
  <2> QED
    BY <2>2, <2>3
<1>3. CASE AbandonQueuedProcessingJobs
  <2>1. results' = results /\ Enqueue({jobs[i].key : i \in Abandoned})
    BY <1>3 DEF AbandonQueuedProcessingJobs
  <2>2. CASE j \in Abandoned
    <3>1. jobs'[j] = [jobs[j] EXCEPT !.status = "failed"]
      BY <1>3, <2>2 DEF AbandonQueuedProcessingJobs
    <3>2. jobs'[j].status = "failed" /\ jobs'[j].key = jobs[j].key
      BY <1>1, <3>1 DEF Job
    <3>3. jobs[j].key \in obligations' /\ jobs[j].status = "queued"
      BY <2>1, <2>2 DEF Enqueue, Abandoned
    <3> QED
      BY <2>1, <3>2, <3>3 DEF JobMove, Moves
  <2>3. CASE j \notin Abandoned
    <3>1. jobs'[j] = jobs[j]
      BY <1>3, <2>3 DEF AbandonQueuedProcessingJobs
    <3> QED
      BY <2>1, <3>1 DEF JobMove, Stays
  <2> QED
    BY <2>2, <2>3
<1>4. ASSUME NEW S \in SUBSET Uploads, PurgeExpiredProcessingJobs(S) PROVE JobMove(j)
  <2>1. results' = results /\ \A i \in S : jobs[i].status \in {"ready", "failed"}
    BY <1>4 DEF PurgeExpiredProcessingJobs
  <2>2. CASE j \in S
    <3>1. jobs'[j] = [jobs[j] EXCEPT !.status = "purged"]
      BY <1>4, <2>2 DEF PurgeExpiredProcessingJobs
    <3>2. jobs'[j].status = "purged" /\ jobs'[j].key = jobs[j].key
      BY <1>1, <3>1 DEF Job
    <3> QED
      BY <2>1, <2>2, <3>2 DEF JobMove, Moves
  <2>3. CASE j \notin S
    <3>1. jobs'[j] = jobs[j]
      BY <1>4, <2>3 DEF PurgeExpiredProcessingJobs
    <3> QED
      BY <2>1, <3>1 DEF JobMove, Stays
  <2> QED
    BY <2>2, <2>3
<1> QED
  BY <1>2, <1>3, <1>4

LEMMA DeleteUserMoves ==
  ASSUME Inv, DeleteUser, NEW j \in Uploads
  PROVE  JobMove(j)
<1>1. jobs[j] \in Job /\ results' = results /\ account'.state = "gone"
  BY DEF Inv, TypeOK, DeleteUser
<1>2. CASE jobs[j].status = "none"
  <2>1. jobs'[j] = jobs[j]
    BY <1>2 DEF DeleteUser
  <2> QED
    BY <1>1, <2>1 DEF JobMove, Stays
<1>3. CASE jobs[j].status # "none"
  <2>1. jobs'[j] = [jobs[j] EXCEPT !.status = "purged"]
    BY <1>3 DEF DeleteUser
  <2>2. jobs'[j].status = "purged" /\ jobs'[j].key = jobs[j].key /\ jobs[j].status \in Statuses
    BY <1>1, <2>1 DEF Job
  <2> QED
    BY <1>1, <1>3, <2>2 DEF JobMove, Moves
<1> QED
  BY <1>2, <1>3

LEMMA FlagMoves ==
  ASSUME Inv, NEW i \in Uploads, NEW j \in Uploads,
         ClaimGetsStale(i) \/ JobGetsOld(i) \/ \E w \in Workers : WorkerIsSlow(w, i)
  PROVE  JobMove(j)
<1>1. results' = results /\ jobs \in [Uploads -> Job]
  BY DEF ClaimGetsStale, JobGetsOld, WorkerIsSlow, Inv, TypeOK
<1>2. jobs' = [jobs EXCEPT ![i].stale = TRUE] \/ jobs' = [jobs EXCEPT ![i].old = TRUE]
  BY Zenon DEF ClaimGetsStale, JobGetsOld, WorkerIsSlow
<1>3. /\ jobs'[j].status = jobs[j].status /\ jobs'[j].lease = jobs[j].lease
      /\ jobs'[j].key = jobs[j].key
  BY <1>1, <1>2 DEF Job
<1> QED
  BY <1>1, <1>3 DEF JobMove, Stays

\* Every step moves every job along its life, or leaves it.
LEMMA JobsMove ==
  ASSUME Inv, [Next]_vars, NEW j \in Uploads
  PROVE  JobMove(j)
<1>1. CASE UNCHANGED <<photos, attachments, jobs, results>>
  BY <1>1 DEF JobMove, Stays
<1>2. ASSUME NEW u \in Uploads, Create(u) \/ CreateUnknown(u) PROVE JobMove(j)
  BY <1>2, CommitUploadMoves DEF Create, CreateUnknown
<1>3. ASSUME NEW w \in Workers, Complete(w) \/ CompleteUnknown(w) PROVE JobMove(j)
  <2>1. act'[w].pc # "commit"
    BY <1>3 DEF Complete, CompleteUnknown, Goto, Idle, Inv, TypeOK, Actors, Actor
  <2> QED
    BY <1>3, <2>1, CommitResultMoves DEF Complete, CompleteUnknown
<1>4. ASSUME NEW k \in Keys, RetireRetainedMedia(k) PROVE JobMove(j)
  BY <1>4 DEF RetireRetainedMedia, JobMove, Stays
<1> QED
  BY <1>1, <1>2, <1>3, <1>4, WhoChangesRows, FailJobMoves, ClaimJobMoves, CleanupMoves, DeleteUserMoves,
     FlagMoves DEF RowStep

-----------------------------------------------------------------------------
(* The theorems. *)

LEMMA OneResultStep ==
  ASSUME Inv, OneResult, [Next]_vars
  PROVE  OneResult'
<1> SUFFICES ASSUME NEW j \in Uploads
             PROVE  CASE jobs'[j].status = "ready" -> results'[j] = 1
                      [] jobs'[j].status = "purged" -> results'[j] <= 1
                      [] OTHER -> results'[j] = 0
  BY DEF OneResult
<1>1. JobMove(j)
  BY JobsMove
<1>2. (CASE jobs[j].status = "ready" -> results[j] = 1
         [] jobs[j].status = "purged" -> results[j] <= 1
         [] OTHER -> results[j] = 0)
  BY DEF OneResult
<1> QED
  BY <1>1, <1>2 DEF JobMove, Moves, Stays, Appears

\* However often a job is claimed, requeued, finished or abandoned, its rows are
\* created once if it is ready, and never otherwise.
THEOREM PublishedOnce == Spec => []OneResult
<1>1. Init => OneResult
  BY DEF Init, OneResult, NoRow
<1>2. Inv /\ OneResult /\ [Next]_vars => OneResult'
  BY OneResultStep
<1> QED
  BY <1>1, <1>2, InvHolds, PTL DEF Spec

\* A claim that is not stale is ended by its own worker, or with the account.
THEOREM ClaimsAreKept == Spec => LiveClaimKept
<1> DEFINE Ended ==
      \A j \in Uploads, w \in Workers :
        /\ jobs[j].status = "processing" /\ ~jobs[j].stale /\ jobs[j].lease = w
        /\ ~(jobs'[j].status = "processing" /\ jobs'[j].lease = w)
        => (act[w].job = j /\ act'[w].pc # act[w].pc) \/ account'.state = "gone"
<1>1. Inv /\ [Next]_vars => Ended
  <2> SUFFICES ASSUME Inv, [Next]_vars, NEW j \in Uploads, NEW w \in Workers,
                      jobs[j].status = "processing", ~jobs[j].stale, jobs[j].lease = w,
                      ~(jobs'[j].status = "processing" /\ jobs'[j].lease = w)
               PROVE  (act[w].job = j /\ act'[w].pc # act[w].pc) \/ account'.state = "gone"
    OBVIOUS
  <2>1. JobMove(j)
    BY JobsMove
  <2> QED
    BY <2>1 DEF JobMove, Moves, Stays, Appears, EndedBy
<1>2. Inv /\ [Next]_vars => [Ended]_vars
  BY <1>1
<1> QED
  BY <1>2, InvHolds, PTL DEF Spec, LiveClaimKept

\* What a reference names is stored.
Kept == \A k : Referenced(k) => k \in store

LEMMA KeptMeans == Kept => MediaPresent /\ SourcePresent
  BY DEF Kept, MediaPresent, SourcePresent, Referenced

\* A key that becomes referenced was in the hands of the actor that commits it.
LEMMA NewReferences ==
  ASSUME Inv, [Next]_vars, NEW k, Referenced(k)', ~Referenced(k)
  PROVE  store' = store /\ \E a \in Actors : act[a].pc = "commit" /\ k \in act[a].keys
<1>1. CASE \E j \in Uploads : Unfinished(j)' /\ jobs'[j].key = k
  <2>1. PICK j \in Uploads : Unfinished(j)' /\ jobs'[j].key = k
    BY <1>1
  <2>2. JobMove(j) /\ j \in Actors
    BY JobsMove DEF Actors
  <2>3. ~(Unfinished(j) /\ jobs[j].key = k)
    BY DEF Referenced
  <2>4. Appears(j)
    BY <2>1, <2>2, <2>3 DEF JobMove, Moves, Stays, Unfinished
  <2> QED
    BY <2>1, <2>2, <2>4 DEF Appears
<1>2. CASE k \in photos' \cup attachments'
  <2>1. k \notin photos \cup attachments
    BY DEF Referenced
  <2>2. RowStep
    BY <1>2, <2>1, WhoChangesRows
  <2>3. ASSUME NEW u \in Uploads, Create(u) \/ CreateUnknown(u)
        PROVE  store' = store /\ act[u].pc = "commit" /\ k \in act[u].keys
    <3>1. act[u].pc = "commit" /\ store' = store /\ CommitUpload(u)
      BY <2>3 DEF Create, CreateUnknown
    <3> QED
      BY <1>2, <2>1, <3>1 DEF CommitUpload, InsertRows
  <2>4. ASSUME NEW w \in Workers, Complete(w) \/ CompleteUnknown(w)
        PROVE  store' = store /\ act[w].pc = "commit" /\ k \in act[w].keys
    <3>1. act[w].pc = "commit" /\ store' = store /\ CommitResult(w)
      BY <2>4 DEF Complete, CompleteUnknown
    <3> QED
      BY <1>2, <2>1, <3>1 DEF CommitResult, InsertRows
  <2> QED
    BY <1>2, <2>1, <2>2, <2>3, <2>4
    DEF RowStep, FailJob, ClaimJob, RetireRetainedMedia, RequeueStaleProcessingJobs,
        AbandonQueuedProcessingJobs, PurgeExpiredProcessingJobs, DeleteUser, ClaimGetsStale,
        JobGetsOld, WorkerIsSlow, Actors
<1> QED
  BY <1>1, <1>2 DEF Referenced

LEMMA KeptStep ==
  ASSUME "unknown" \notin Faults, Inv, Kept, [Next]_vars
  PROVE  Kept'
<1> SUFFICES ASSUME NEW k, Referenced(k)' PROVE k \in store'
  BY DEF Kept
<1>1. CASE ~Referenced(k)
  BY <1>1, NewReferences DEF Inv, OwnedStored
<1>2. CASE Referenced(k)
  <2>1. k \in store
    BY <1>2 DEF Kept
  <2>2. ASSUME NEW a \in Actors, UndoDeleted(a) PROVE k \in store'
    <3>1. k \notin act[a].keys
      BY <1>2 DEF Inv, KeysApart, Owner, Referenced
    <3> QED
      BY <2>1, <2>2, <3>1 DEF UndoDeleted
  <2>3. ASSUME NEW x \in Keys, SweepAbandoned(x) PROVE k \in store'
    <3>1. ~Referenced(x)
      BY <2>3 DEF SweepAbandoned, At, Inv, CleanupSafe
    <3> QED
      BY <1>2, <2>1, <2>3, <3>1 DEF SweepAbandoned
  <2>4. ASSUME DeleteObject PROVE k \in store'
    <3>1. ~Referenced(cleanup.key)
      BY <2>4 DEF DeleteObject, At, Inv, CleanupSafe
    <3> QED
      BY <1>2, <2>1, <2>4, <3>1 DEF DeleteObject
  <2> QED
    BY <2>1, <2>2, <2>3, <2>4, WhoDeletes
<1> QED
  BY <1>1, <1>2

\* If a commit that is reported failed has failed, no compensation, stale worker
\* or cleanup ever deletes the object of a photo or an attachment.
THEOREM MediaIsPresent == ASSUME "unknown" \notin Faults PROVE Spec => []MediaPresent
<1>1. Init => Kept
  BY DEF Init, Kept, Referenced, Unfinished, NoRow
<1>2. Inv /\ Kept /\ [Next]_vars => Kept'
  BY KeptStep
<1>3. Kept => MediaPresent
  BY KeptMeans
<1> QED
  BY <1>1, <1>2, <1>3, InvHolds, PTL DEF Spec

\* Under the same assumption, a job that is to be processed has its raw video.
THEOREM SourceIsPresent == ASSUME "unknown" \notin Faults PROVE Spec => []SourcePresent
<1>1. Init => Kept
  BY DEF Init, Kept, Referenced, Unfinished, NoRow
<1>2. Inv /\ Kept /\ [Next]_vars => Kept'
  BY KeptStep
<1>3. Kept => SourcePresent
  BY KeptMeans
<1> QED
  BY <1>1, <1>2, <1>3, InvHolds, PTL DEF Spec

Present == account.state = "present"

LEMMA PresentStep ==
  ASSUME AccountMayGo = FALSE, Present, [Next]_vars
  PROVE  Present'
<1>1. \A u \in Uploads : UploadSteps(u) => account' = account
  BY DEF UploadSteps, Create, CreateFails, CreateUnknown
<1>2. \A w \in Workers : WorkerSteps(w) => account' = account
  BY DEF WorkerSteps, ClaimJob, Transcode, Complete, CompleteUnknown, CompleteFails, FailJob
<1>3. \A a \in Actors : ActorSteps(a) \/ Cancel(a) => account' = account
  BY DEF ActorSteps, Put, PutFails, PutLost, UndoDeleted, UndoQueued, UndoDropped, UndoDone, Cancel
<1>4. CleanupSteps => account' = account
  BY DEF CleanupSteps, RetireRetainedMedia, RequeueStaleProcessingJobs,
     AbandonQueuedProcessingJobs, SweepAbandoned, PurgeExpiredProcessingJobs, ClaimDeletionJobs,
     KeepReferenced, CheckReferences, DeleteObject, StatementFails
<1>5. ~ReadPhotoKeys /\ ~DeleteUser
  BY DEF ReadPhotoKeys, DeleteUser, Present
<1>6. Crash \/ UNCHANGED vars => account' = account
  BY DEF Crash, vars
<1>7. \A u \in Uploads, kind \in Kinds, video \in BOOLEAN, n \in 1 .. MaxGroups :
        StartUpload(u, kind, video, n) => account' = account
  BY DEF StartUpload
<1>8. \A k \in Keys : BackoffEnds(k) => account' = account
  BY DEF BackoffEnds
<1>9. \A j \in Uploads : /\ ClaimGetsStale(j) \/ JobGetsOld(j) => account' = account
                         /\ \A w \in Workers : WorkerIsSlow(w, j) => account' = account
  BY DEF ClaimGetsStale, JobGetsOld, WorkerIsSlow
<1>10. account' = account
  BY <1>1, <1>2, <1>3, <1>4, <1>5, <1>6, <1>7, <1>8, <1>9 DEF Next
<1> QED
  BY <1>10 DEF Present

LEMMA RawSourceStep ==
  ASSUME Inv, Inv', Present', RawSourceOwned, [Next]_vars
  PROVE  RawSourceOwned'
<1> SUFFICES ASSUME NEW j \in Uploads, jobs'[j].key \in store', ~Unfinished(j)'
             PROVE  jobs'[j].key \in obligations'
  BY DEF RawSourceOwned
<1>1. JobMove(j)
  BY JobsMove
<1>2. jobs'[j].key = jobs[j].key /\ (Unfinished(j) => jobs[j].key \in obligations')
  BY <1>1 DEF JobMove, Moves, Stays, Appears, EndedBy, Unfinished, Present
<1>3. CASE jobs[j].key \notin store
  <2>1. PICK a \in Actors : Put(a) \/ PutLost(a)
    BY <1>2, <1>3, WhoStores
  <2>2. PICK k \in Keys : Fresh(k) /\ store' = store \cup {k}
    BY <2>1 DEF Put, PutLost
  <2>3. jobs[j].key = k /\ k \notin used /\ k # None
    BY <1>2, <1>3, <2>2 DEF Fresh
  <2> QED
    BY <2>3 DEF Inv, KeysUsed
<1>4. CASE jobs[j].key \in obligations /\ jobs[j].key \notin obligations'
  <2>1. Referenced(jobs[j].key)'
    BY <1>2, <1>4, DeletionsStep
  <2>2. jobs'[j].key \notin photos' \cup attachments'
    BY DEF Inv, JobsSound
  <2>3. PICK i \in Uploads : Unfinished(i)' /\ jobs'[i].key = jobs'[j].key
    BY <1>2, <2>1, <2>2 DEF Referenced
  <2>4. jobs'[j].key # None
    BY DEF Inv, TypeOK
  <2> QED
    BY <2>3, <2>4 DEF Inv, JobsSound
<1> QED
  BY <1>2, <1>3, <1>4 DEF RawSourceOwned

\* Unless the account is deleted, a raw video outlives its job only with a
\* deletion job that will remove it.
THEOREM RawSourceIsOwned == ASSUME AccountMayGo = FALSE PROVE Spec => []RawSourceOwned
<1>1. Init => Present /\ RawSourceOwned
  BY DEF Init, Present, RawSourceOwned
<1>2. Present /\ [Next]_vars => Present'
  BY PresentStep
<1>3. Inv /\ Inv' /\ Present' /\ RawSourceOwned /\ [Next]_vars => RawSourceOwned'
  BY RawSourceStep
<1> QED
  BY <1>1, <1>2, <1>3, InvHolds, PTL DEF Spec

-----------------------------------------------------------------------------
(* No object is forgotten. *)

\* A reference is given up with a deletion job, or with the account.
LEMMA LostReferences ==
  ASSUME Inv, [Next]_vars, NEW k, Referenced(k), ~Referenced(k)'
  PROVE  k \in obligations' \/ account'.state = "gone"
<1>1. CASE \E j \in Uploads : Unfinished(j) /\ jobs[j].key = k
  <2>1. PICK j \in Uploads : Unfinished(j) /\ jobs[j].key = k
    BY <1>1
  <2>2. ~(Unfinished(j)' /\ jobs'[j].key = k)
    BY DEF Referenced
  <2> QED
    BY <2>1, <2>2, JobsMove DEF JobMove, Moves, Stays, Appears, EndedBy, Unfinished
<1>2. CASE k \in photos \cup attachments
  <2>1. k \notin photos' \cup attachments'
    BY DEF Referenced
  <2>2. RowStep
    BY <1>2, <2>1, WhoChangesRows
  <2>3. ASSUME NEW u \in Uploads, Create(u) \/ CreateUnknown(u) PROVE FALSE
    BY <1>2, <2>1, <2>3 DEF Create, CreateUnknown, CommitUpload, InsertRows
  <2>4. ASSUME NEW w \in Workers, Complete(w) \/ CompleteUnknown(w) PROVE FALSE
    BY <1>2, <2>1, <2>4 DEF Complete, CompleteUnknown, CommitResult, InsertRows
  <2>5. ASSUME NEW x \in Keys, RetireRetainedMedia(x) PROVE k \in obligations'
    BY <1>2, <2>1, <2>5 DEF RetireRetainedMedia, Enqueue
  <2>6. ASSUME DeleteUser PROVE account'.state = "gone"
    BY <2>6 DEF DeleteUser
  <2>7. ~(photos' = photos /\ attachments' = attachments)
    BY <1>2, <2>1
  <2>8. ASSUME NEW w \in Workers, FailJob(w) \/ \E j \in Uploads : ClaimJob(w, j) PROVE FALSE
    <3>1. ~FailJob(w)
      BY <2>7 DEF FailJob
    <3>2. \A j \in Uploads : ~ClaimJob(w, j)
      BY <2>7 DEF ClaimJob
    <3> QED
      BY <2>8, <3>1, <3>2
  <2>9. ~RequeueStaleProcessingJobs /\ ~AbandonQueuedProcessingJobs
    <3>1. ~RequeueStaleProcessingJobs
      BY <2>7, Zenon DEF RequeueStaleProcessingJobs
    <3>2. ~AbandonQueuedProcessingJobs
      BY <2>7 DEF AbandonQueuedProcessingJobs
    <3> QED
      BY <3>1, <3>2
  <2>10. ASSUME NEW S \in SUBSET Uploads, PurgeExpiredProcessingJobs(S) PROVE FALSE
    BY <2>7, <2>10 DEF PurgeExpiredProcessingJobs
  <2>11. ASSUME NEW j \in Uploads, ClaimGetsStale(j) \/ JobGetsOld(j) \/ \E w \in Workers : WorkerIsSlow(w, j)
         PROVE  FALSE
    BY <2>7, <2>11 DEF ClaimGetsStale, JobGetsOld, WorkerIsSlow
  <2> QED
    BY <2>2, <2>3, <2>4, <2>5, <2>6, <2>8, <2>9, <2>10, <2>11 DEF RowStep
<1> QED
  BY <1>1, <1>2 DEF Referenced

\* Neither the cleanup, nor the account's deletion, nor time touches who is at work.
Elsewhere ==
  \/ CleanupSteps \/ ReadPhotoKeys \/ DeleteUser
  \/ \E k \in Keys : BackoffEnds(k)
  \/ \E j \in Uploads : ClaimGetsStale(j) \/ JobGetsOld(j) \/ \E w \in Workers : WorkerIsSlow(w, j)
  \/ UNCHANGED vars

LEMMA ActorsUntouched == ASSUME Elsewhere PROVE act' = act
<1>1. ASSUME CleanupSteps PROVE act' = act
  <2>1. ASSUME NEW k \in Keys, RetireRetainedMedia(k) \/ SweepAbandoned(k) PROVE act' = act
    BY <2>1 DEF RetireRetainedMedia, SweepAbandoned
  <2>2. ASSUME NEW k \in Keys, KeepReferenced(k) \/ CheckReferences(k) PROVE act' = act
    BY <2>2 DEF KeepReferenced, CheckReferences
  <2>3. RequeueStaleProcessingJobs => act' = act
    BY Zenon DEF RequeueStaleProcessingJobs
  <2>4. AbandonQueuedProcessingJobs => act' = act
    BY DEF AbandonQueuedProcessingJobs
  <2>5. \A S \in SUBSET Uploads : PurgeExpiredProcessingJobs(S) => act' = act
    BY DEF PurgeExpiredProcessingJobs
  <2>6. ClaimDeletionJobs \/ DeleteObject \/ StatementFails => act' = act
    BY DEF ClaimDeletionJobs, DeleteObject, StatementFails
  <2> QED
    BY <1>1, <2>1, <2>2, <2>3, <2>4, <2>5, <2>6 DEF CleanupSteps
<1>2. ASSUME ReadPhotoKeys \/ DeleteUser \/ \E k \in Keys : BackoffEnds(k) PROVE act' = act
  BY <1>2 DEF ReadPhotoKeys, DeleteUser, BackoffEnds
<1>3. ASSUME \E j \in Uploads : ClaimGetsStale(j) \/ JobGetsOld(j) \/ \E w \in Workers : WorkerIsSlow(w, j)
      PROVE  act' = act
  BY <1>3 DEF ClaimGetsStale, JobGetsOld, WorkerIsSlow
<1>4. UNCHANGED vars => act' = act
  BY DEF vars
<1> QED
  BY <1>1, <1>2, <1>3, <1>4 DEF Elsewhere

\* The steps in which a handler or worker lets go of a key.
LetsGo(a) ==
  \/ a \in Uploads /\ Create(a)
  \/ a \in Workers /\ Complete(a)
  \/ UndoDeleted(a) \/ UndoQueued(a) \/ UndoDropped(a)
  \/ Crash

LEMMA WhoLetsGo ==
  ASSUME Inv, [Next]_vars, NEW a \in Actors, NEW k \in act[a].keys, k \notin act'[a].keys
  PROVE  LetsGo(a)
<1>1. act \in [Actors -> Actor] /\ act[a].pc \in {"put", "commit", "undo"}
  BY DEF Inv, TypeOK, ActorsSound
<1>2. ASSUME NEW u \in Uploads, NEW kind, NEW video, NEW n, StartUpload(u, kind, video, n)
      PROVE  FALSE
  BY <1>1, <1>2 DEF StartUpload
<1>3. ASSUME NEW b \in Actors, NEW step PROVE ~Goto(b, step)
  BY <1>1 DEF Goto, Actor
<1>4. ASSUME NEW u \in Uploads, UploadSteps(u) PROVE u = a /\ Create(a)
  <2>1. ~CreateFails(u) /\ ~CreateUnknown(u)
    BY <1>3 DEF CreateFails, CreateUnknown, Actors
  <2>2. Create(u)
    BY <1>4, <2>1 DEF UploadSteps
  <2>3. u = a
    BY <1>1, <2>2 DEF Create
  <2> QED
    BY <2>2, <2>3
<1>5. ASSUME NEW w \in Workers, WorkerSteps(w) PROVE w = a /\ Complete(a)
  <2>1. ~Transcode(w) /\ ~CompleteUnknown(w)
    BY <1>3 DEF Transcode, CompleteUnknown, Actors
  <2>2. ~CompleteFails(w)
    BY <1>1, <1>3 DEF CompleteFails, Actors, Actor
  <2>3. ~FailJob(w) /\ \A j \in Uploads : ~ClaimJob(w, j)
    <3>1. ~FailJob(w)
      BY <1>1 DEF FailJob
    <3>2. \A j \in Uploads : ~ClaimJob(w, j)
      BY <1>1 DEF ClaimJob
    <3> QED
      BY <3>1, <3>2
  <2>4. Complete(w)
    BY <1>5, <2>1, <2>2, <2>3 DEF WorkerSteps
  <2>5. w = a
    BY <1>1, <2>4 DEF Complete
  <2> QED
    BY <2>4, <2>5
<1>6. ASSUME NEW b \in Actors, ActorSteps(b) \/ Cancel(b)
      PROVE  UndoDeleted(a) \/ UndoQueued(a) \/ UndoDropped(a)
  <2>1. ~Put(b) /\ ~PutFails(b) /\ ~PutLost(b) /\ ~Cancel(b)
    <3>1. ~PutFails(b) /\ ~PutLost(b)
      BY <1>3 DEF PutFails, PutLost
    <3>2. ASSUME Put(b) PROVE FALSE
      <4>1. PICK x \in Keys :
              act' = [act EXCEPT ![b].keys = @ \cup {x}, ![b].pc = Stored(b, act[b].keys \cup {x})]
        BY <3>2 DEF Put
      <4>2. act'[a].keys = IF a = b THEN act[a].keys \cup {x} ELSE act[a].keys
        BY <1>1, <4>1 DEF Actor
      <4> QED
        BY <4>2
    <3>3. ~Cancel(b)
      BY <1>1 DEF Cancel, Actor
    <3> QED
      BY <3>1, <3>2, <3>3
  <2>2. ~UndoDone(b)
    BY <1>1 DEF UndoDone
  <2>3. UndoDeleted(b) \/ UndoQueued(b) \/ UndoDropped(b)
    BY <1>6, <2>1, <2>2 DEF ActorSteps
  <2>4. b = a
    BY <1>1, <2>3 DEF UndoDeleted, UndoQueued, UndoDropped
  <2> QED
    BY <2>3, <2>4
<1>7. ~Elsewhere
  BY ActorsUntouched
<1> QED
  BY <1>2, <1>4, <1>5, <1>6, <1>7 DEF Next, LetsGo, Elsewhere

\* No request has been cancelled, and an upload of a video holds its one raw object
\* when it is about to commit.
Tidy(r, a) ==
  /\ ~r.cancelled
  /\ r.video => /\ a \in Uploads
                /\ r.pc = "put" => r.keys = {}
                /\ r.pc = "commit" => \E k \in Keys : r.keys = {k}

AllTidy == \A a \in Actors : Tidy(act[a], a)

LEMMA TidyMove ==
  ASSUME Inv, AllTidy, NEW a \in Actors, NEW r, act' = [act EXCEPT ![a] = r], Tidy(r, a)
  PROVE  AllTidy'
<1>1. act'[a] = r /\ \A b \in Actors : b # a => act'[b] = act[b]
  BY DEF Inv, TypeOK
<1> QED
  BY <1>1 DEF AllTidy

LEMMA TidyGoto ==
  ASSUME Inv, AllTidy, NEW a \in Actors, NEW step,
         step \notin {"put", "commit"} \/ ~act[a].video, Goto(a, step)
  PROVE  AllTidy'
<1>1. act[a] \in Actor
  BY DEF Inv, TypeOK
<1>2. Tidy([act[a] EXCEPT !.pc = step], a)
  BY <1>1 DEF AllTidy, Tidy, Actor
<1>3. act' = [act EXCEPT ![a] = [act[a] EXCEPT !.pc = step]]
  BY DEF Goto
<1> QED
  BY <1>2, <1>3, TidyMove

LEMMA TidyIdle ==
  ASSUME NEW a
  PROVE  Tidy(Idle, a) /\ \A step : Tidy([Idle EXCEPT !.pc = step], a)
  BY DEF Tidy, Idle

LEMMA TidyPut ==
  ASSUME Inv, AllTidy, NEW a \in Actors, Put(a)
  PROVE  AllTidy'
<1>1. PICK k \in Keys :
        act' = [act EXCEPT ![a].keys = @ \cup {k}, ![a].pc = Stored(a, act[a].keys \cup {k})]
  BY DEF Put
<1> DEFINE S == act[a].keys \cup {k}
           r == [act[a] EXCEPT !.keys = S, !.pc = Stored(a, S)]
<1>2. act[a] \in Actor /\ act[a].pc = "put" /\ Tidy(act[a], a)
  BY DEF Inv, TypeOK, Put, AllTidy
<1>3. act' = [act EXCEPT ![a] = r]
  BY <1>1
<1>4. /\ r.pc = Stored(a, S) /\ r.keys = S
      /\ r.video = act[a].video /\ r.cancelled = act[a].cancelled
  BY <1>2 DEF Actor
<1>5. ASSUME act[a].video PROVE a \in Uploads /\ S = {k} /\ Stored(a, S) = "commit"
  <2>1. a \in Uploads /\ S = {k}
    BY <1>2, <1>5 DEF Tidy
  <2>2. Cardinality(S) = 1
    BY <2>1, FS_Singleton
  <2> QED
    BY <1>5, <2>1, <2>2 DEF Stored
<1>6. Tidy(r, a)
  <2> HIDE DEF r, S
  <2> QED
    BY <1>2, <1>4, <1>5 DEF Tidy
<1> HIDE DEF r
<1> QED
  BY <1>3, <1>6, TidyMove

LEMMA TidyActor ==
  ASSUME Inv, AllTidy, "cancel" \notin Faults, NEW a \in Actors, ActorSteps(a) \/ Cancel(a)
  PROVE  AllTidy'
<1>1. act[a] \in Actor
  BY DEF Inv, TypeOK
<1>2. CASE PutFails(a) \/ PutLost(a)
  BY <1>2, TidyGoto DEF PutFails, PutLost
<1>3. CASE UndoDeleted(a) \/ UndoQueued(a) \/ UndoDropped(a)
  <2>1. PICK k \in act[a].keys : act' = [act EXCEPT ![a].keys = @ \ {k}]
    BY <1>3 DEF UndoDeleted, UndoQueued, UndoDropped
  <2> DEFINE r == [act[a] EXCEPT !.keys = @ \ {k}]
  <2>2. act' = [act EXCEPT ![a] = r]
    BY <2>1
  <2>3. act[a].pc = "undo" /\ Tidy(act[a], a)
    BY <1>3 DEF UndoDeleted, UndoQueued, UndoDropped, AllTidy
  <2>4. Tidy(r, a)
    BY <1>1, <2>3 DEF Tidy, Actor
  <2> HIDE DEF r
  <2> QED
    BY <2>2, <2>4, TidyMove
<1>4. CASE UndoDone(a)
  <2> DEFINE r == IF a \in Uploads THEN [Idle EXCEPT !.pc = "done"]
                  ELSE IF act[a].lost THEN Idle ELSE [act[a] EXCEPT !.pc = "fail"]
  <2>1. act' = [act EXCEPT ![a] = r]
    BY <1>4 DEF UndoDone
  <2>2. Tidy([act[a] EXCEPT !.pc = "fail"], a)
    BY <1>1 DEF AllTidy, Tidy, Actor
  <2>3. Tidy(r, a)
    BY <2>2, TidyIdle
  <2> HIDE DEF r
  <2> QED
    BY <2>1, <2>3, TidyMove
<1>5. ~Cancel(a)
  BY DEF Cancel, Fault
<1> QED
  BY <1>2, <1>3, <1>4, <1>5, TidyPut DEF ActorSteps

LEMMA TidyUpload ==
  ASSUME Inv, AllTidy, NEW u \in Uploads, UploadSteps(u)
  PROVE  AllTidy'
<1>1. u \in Actors
  BY DEF Actors
<1>2. CASE Create(u)
  BY <1>1, <1>2, TidyIdle, TidyMove DEF Create
<1>3. CASE CreateFails(u) \/ CreateUnknown(u)
  BY <1>1, <1>3, TidyGoto DEF CreateFails, CreateUnknown
<1> QED
  BY <1>2, <1>3 DEF UploadSteps

LEMMA TidyWorker ==
  ASSUME Inv, AllTidy, NEW w \in Workers, WorkerSteps(w)
  PROVE  AllTidy'
<1>1. w \in Actors /\ act[w] \in Actor /\ Tidy(act[w], w) /\ ~act[w].video
  BY DEF Actors, Inv, TypeOK, AllTidy, Tidy
<1>2. ASSUME NEW j \in Uploads, ClaimJob(w, j) PROVE AllTidy'
  <2> DEFINE r == [Idle EXCEPT !.pc = "read", !.job = j, !.kind = jobs[j].kind, !.groups = jobs[j].groups]
  <2>1. act' = [act EXCEPT ![w] = r]
    BY <1>2 DEF ClaimJob
  <2>2. Tidy(r, w)
    BY DEF Tidy, Idle
  <2> HIDE DEF r
  <2> QED
    BY <1>1, <2>1, <2>2, TidyMove
<1>3. CASE Transcode(w) \/ CompleteUnknown(w)
  BY <1>1, <1>3, TidyGoto DEF Transcode, CompleteUnknown
<1>4. CASE Complete(w) \/ FailJob(w)
  BY <1>1, <1>4, TidyIdle, TidyMove DEF Complete, FailJob
<1>5. CASE CompleteFails(w)
  <2> DEFINE r == [act[w] EXCEPT !.pc = "undo", !.lost = TRUE]
  <2>1. act' = [act EXCEPT ![w] = r] \/ Goto(w, "undo")
    BY <1>5 DEF CompleteFails
  <2>2. Tidy(r, w)
    BY <1>1 DEF Tidy, Actor
  <2> HIDE DEF r
  <2> QED
    BY <1>1, <2>1, <2>2, TidyMove, TidyGoto
<1> QED
  BY <1>2, <1>3, <1>4, <1>5 DEF WorkerSteps

LEMMA TidyStep ==
  ASSUME {"cancel", "crash"} \cap Faults = {}, Inv, AllTidy, [Next]_vars
  PROVE  AllTidy'
<1>1. ASSUME NEW u \in Uploads, NEW kind, NEW video, NEW n, StartUpload(u, kind, video, n)
      PROVE  AllTidy'
  <2> DEFINE r == [Idle EXCEPT !.pc = "put", !.kind = kind, !.video = video, !.groups = n]
  <2>1. act' = [act EXCEPT ![u] = r] /\ u \in Actors
    BY <1>1 DEF StartUpload, Actors
  <2>2. Tidy(r, u)
    BY DEF Tidy, Idle
  <2> HIDE DEF r
  <2> QED
    BY <2>1, <2>2, TidyMove
<1>2. ASSUME act' = act PROVE AllTidy'
  BY <1>2 DEF AllTidy, Tidy
<1>3. Elsewhere => act' = act
  BY ActorsUntouched
<1>4. ~Crash
  BY DEF Crash, Fault
<1> QED
  BY <1>1, <1>2, <1>3, <1>4, TidyUpload, TidyWorker, TidyActor DEF Next, Elsewhere

\* A committed key is referenced: by a row, or as the source of the new job.
LEMMA CommitRefers ==
  ASSUME Inv, AllTidy, NEW a \in Actors, NEW k \in act[a].keys,
         (a \in Uploads /\ Create(a)) \/ (a \in Workers /\ Complete(a))
  PROVE  Referenced(k)'
<1>1. act[a] \in Actor /\ act[a].pc = "commit" /\ Tidy(act[a], a) /\ act[a].kind \in Kinds
  BY DEF Inv, TypeOK, AllTidy, Create, Complete, Actor
<1>2. ASSUME InsertRows(act[a].kind, act[a].keys) PROVE Referenced(k)'
  <2>1. k \in photos' \cup attachments'
    BY <1>1, <1>2 DEF InsertRows, Kinds
  <2> QED
    BY <2>1 DEF Referenced
<1>3. CASE a \in Uploads /\ Create(a) /\ act[a].video
  <2> DEFINE key == CHOOSE x \in act[a].keys : TRUE
             row == [NoRow EXCEPT !.status = "queued", !.kind = act[a].kind, !.groups = act[a].groups, !.key = key]
  <2>1. jobs' = [jobs EXCEPT ![a] = row]
    BY <1>3 DEF Create, CommitUpload
  <2>2. key = k
    BY <1>1, <1>3 DEF Tidy
  <2>3. row.status = "queued" /\ row.key = k
    BY <2>2 DEF NoRow
  <2> HIDE DEF row
  <2>4. jobs'[a] = row
    BY <1>3, <2>1 DEF Inv, TypeOK
  <2> QED
    BY <1>3, <2>3, <2>4 DEF Referenced, Unfinished
<1>4. CASE a \in Uploads /\ Create(a) /\ ~act[a].video
  BY <1>2, <1>4 DEF Create, CommitUpload
<1>5. CASE a \in Workers /\ Complete(a)
  BY <1>2, <1>5 DEF Complete, CommitResult
<1> QED
  BY <1>3, <1>4, <1>5

\* Nobody dies or gives up with an object in hand: no process is killed, no request
\* is cancelled, no Put lies, and a delete and the statement that would queue it do not
\* both fail.
Tame ==
  /\ {"lost", "crash", "cancel"} \cap Faults = {}
  /\ MaxFaults < 2 \/ ~({"delete", "db"} \subseteq Faults)

LEMMA OrphanStep ==
  ASSUME Tame, Inv, AllTidy, Present', NothingOrphaned, [Next]_vars
  PROVE  NothingOrphaned'
<1> SUFFICES ASSUME NEW k \in store', ~Referenced(k)', k \notin obligations',
                    \A a \in Actors : k \notin act'[a].keys
             PROVE  FALSE
  BY DEF NothingOrphaned
<1>1. CASE k \notin store
  <2>1. PICK a \in Actors : Put(a) \/ PutLost(a)
    BY <1>1, WhoStores
  <2>2. Put(a)
    BY <2>1 DEF Tame, PutLost, Fault
  <2>3. PICK x \in Keys :
          /\ store' = store \cup {x}
          /\ act' = [act EXCEPT ![a].keys = @ \cup {x}, ![a].pc = Stored(a, act[a].keys \cup {x})]
    BY <2>2 DEF Put
  <2>4. act'[a].keys = act[a].keys \cup {x}
    BY <2>3 DEF Inv, TypeOK, Actor
  <2> QED
    BY <1>1, <2>3, <2>4
<1>2. CASE k \in obligations
  BY <1>2, DeletionsStep
<1>3. CASE Referenced(k)
  BY <1>3, LostReferences DEF Present
<1>4. ASSUME NEW a \in Actors, k \in act[a].keys PROVE FALSE
  <2>1. LetsGo(a)
    BY <1>4, WhoLetsGo
  <2>2. ~Crash
    BY DEF Tame, Crash, Fault
  <2>3. ~UndoDropped(a)
    <3>1. ~act[a].cancelled
      BY DEF AllTidy, Tidy
    <3>2. ~TwoFaults("delete", "db")
      BY DEF Tame, TwoFaults, Inv, TypeOK
    <3> QED
      BY <3>1, <3>2 DEF UndoDropped
  <2>4. ASSUME UndoDeleted(a) \/ UndoQueued(a) PROVE FALSE
    <3>1. PICK x \in act[a].keys : /\ act' = [act EXCEPT ![a].keys = @ \ {x}]
                                   /\ store' = store \ {x} \/ Enqueue({x})
      BY <2>4 DEF UndoDeleted, UndoQueued
    <3>2. act'[a].keys = act[a].keys \ {x}
      BY <3>1 DEF Inv, TypeOK, Actor
    <3>3. k = x
      BY <1>4, <3>2
    <3> QED
      BY <3>1, <3>3 DEF Enqueue
  <2> QED
    BY <1>4, <2>1, <2>2, <2>3, <2>4, CommitRefers DEF LetsGo
<1> QED
  BY <1>1, <1>2, <1>3, <1>4 DEF NothingOrphaned

\* If the processes live, requests are not cancelled, puts report what they did and
\* the account stays, then no stored object is without a row, a deletion job or a
\* handler that will see to it - even if commits that took effect are reported failed.
THEOREM NothingIsOrphaned ==
  ASSUME Tame, AccountMayGo = FALSE
  PROVE  Spec => []NothingOrphaned
<1>1. Init => Present /\ AllTidy /\ NothingOrphaned
  BY DEF Init, Present, AllTidy, Tidy, Idle, NothingOrphaned
<1>2. Present /\ [Next]_vars => Present'
  BY PresentStep
<1>3. Inv /\ AllTidy /\ [Next]_vars => AllTidy'
  BY TidyStep DEF Tame
<1>4. Inv /\ AllTidy /\ Present' /\ NothingOrphaned /\ [Next]_vars => NothingOrphaned'
  BY OrphanStep
<1> QED
  BY <1>1, <1>2, <1>3, <1>4, InvHolds, PTL DEF Spec

-----------------------------------------------------------------------------
(* The pictures of groups and players, for any uploads and failures. *)

CONSTANTS Covers, Old, Avatars, Mishaps, MaxMishaps

VARIABLES picture, shelf, retired, up, custom, object, av, mishaps, stray, overwritten, kept, alone

Picture == INSTANCE Pictures WITH Uploads <- Covers

\* What the constants are: every upload has a key and a content of its own, and no
\* COMMIT reports an error after it took effect, which none of these can survive.
PicturesSane ==
  /\ Old \notin Covers /\ None \notin Covers \cup Avatars
  /\ MaxMishaps \in Nat /\ "unknown" \notin Mishaps

\* A key that a group has shown comes from an upload that is done with its row.
Shown(k) == k \in Covers => up[k].pc \in {"retiring", "end"}

\* Who holds the row replaces the picture it has read, and what is replaced or to be
\* deleted was shown and is not shown again.
CoverSound(o) ==
  /\ up[o].pc = "locked" /\ up[o].previous # None => up[o].previous = picture
  /\ up[o].pc = "retiring" => up[o].previous \in Picture!Keys \ {None, picture} /\ Shown(up[o].previous)
  /\ up[o].pc \in {"stored", "locked"} => o \in shelf

CoversInv ==
  /\ None \notin shelf
  /\ picture # None => Shown(picture)
  /\ \A k \in retired : Shown(k)
  /\ \A o \in Covers : CoverSound(o)

\* While nothing else touches the avatar, one upload is under way, and it can put
\* back what the player shows.
AvatarInv ==
  alone =>
    /\ \A c, d \in Picture!Busy : c = d
    /\ custom /\ (Picture!Busy = {} \/ \E c \in Avatars : av[c].pc = "loaded") => object = kept
    /\ \A c \in Picture!Busy : custom => av[c].previous = kept
    /\ \A c \in Avatars : av[c].pc = "put" => object = c

PictureInv ==
  /\ Picture!TypeOK /\ CoversInv /\ AvatarInv
  /\ Picture!PictureStored /\ Picture!ReplacementOwned /\ Picture!AvatarPreserved

\* What a step does to one upload, and to no other.
LEMMA CoverMoves ==
  ASSUME Picture!TypeOK, NEW k \in Covers,
         NEW p \in {"new", "stored", "locked", "retiring", "undoing", "end"},
         Picture!Move(k, p)
  PROVE  /\ up' \in [Covers -> Picture!Up] /\ up'[k].pc = p /\ up'[k].previous = up[k].previous
         /\ \A o \in Covers : o # k => up'[o] = up[o]
<1>1. up \in [Covers -> Picture!Up]
  BY DEF Picture!TypeOK
<1>2. PICK a \in {"new", "stored", "locked", "retiring", "undoing", "end"}, b \in Picture!Keys \cup {None} :
        up[k] = [pc |-> a, previous |-> b]
  BY <1>1 DEF Picture!Up
<1>3. PICK n : n = [up[k] EXCEPT !.pc = p]
  OBVIOUS
<1>4. n = [pc |-> p, previous |-> b] /\ n \in Picture!Up
  BY <1>2, <1>3 DEF Picture!Up
<1>5. up' = [up EXCEPT ![k] = n]
  BY <1>3 DEF Picture!Move
<1> QED
  BY <1>1, <1>2, <1>4, <1>5

\* An upload stores its object under its own key.
LEMMA PutPhotoStep ==
  ASSUME PicturesSane, PictureInv, NEW k \in Covers,
         Picture!PutPhoto(k) \/ \E b \in BOOLEAN : Picture!PutPhotoFails(k, b)
  PROVE  Picture!TypeOK' /\ CoversInv' /\ Picture!PictureStored' /\ Picture!ReplacementOwned'
<1>1. PICK p \in {"stored", "end"}, S \in SUBSET {k} :
        /\ up[k].pc = "new" /\ Picture!Move(k, p) /\ shelf' = shelf \cup S /\ (p = "stored" => S = {k})
        /\ stray' \in {stray, stray \cup {k}} /\ (p = "end" => S \subseteq stray')
        /\ UNCHANGED <<picture, retired, overwritten, custom, object, av, kept, alone>> /\ mishaps' \in 0..MaxMishaps
  <2>0. mishaps \in 0..MaxMishaps /\ MaxMishaps \in Nat
    BY DEF PictureInv, Picture!TypeOK, PicturesSane
  <2>1. CASE Picture!PutPhoto(k)
    <3>1. /\ up[k].pc = "new" /\ Picture!Move(k, "stored") /\ shelf' = shelf \cup {k}
          /\ UNCHANGED <<picture, retired, stray, overwritten, mishaps, custom, object, av, kept, alone>>
      BY <2>1 DEF Picture!PutPhoto, Picture!At, Picture!avatar, Picture!losses
    <3> QED
      BY <2>0, <3>1
  <2>2. CASE Picture!PutPhotoFails(k, TRUE) \/ Picture!PutPhotoFails(k, FALSE)
    <3>1. /\ up[k].pc = "new" /\ Picture!Move(k, "end") /\ mishaps < MaxMishaps /\ mishaps' = mishaps + 1
          /\ UNCHANGED <<picture, retired, overwritten, custom, object, av, kept, alone>>
          /\ \/ shelf' = shelf \cup {k} /\ stray' = stray \cup {k}
             \/ shelf' = shelf \cup {} /\ stray' = stray
      BY <2>2 DEF Picture!PutPhotoFails, Picture!At, Picture!Mishap, Picture!avatar, Picture!losses
    <3>2. mishaps' \in 0..MaxMishaps
      BY <2>0, <3>1
    <3> QED
      BY <3>1, <3>2
  <2> QED
    BY <2>1, <2>2
<1>2. /\ up' \in [Covers -> Picture!Up] /\ up'[k].pc = p /\ up'[k].previous = up[k].previous
      /\ \A o \in Covers : o # k => up'[o] = up[o]
  BY <1>1, CoverMoves DEF PictureInv
<1>3. Picture!TypeOK'
  BY <1>1, <1>2 DEF PictureInv, Picture!TypeOK, Picture!Keys
<1>4. CoversInv'
  <2>1. \A x : Shown(x) => Shown(x)'
    BY <1>1, <1>2 DEF Shown
  <2>2. picture' # None => Shown(picture)'
    BY <1>1, <1>2 DEF PictureInv, CoversInv, Shown
  <2>3. \A x \in retired' : Shown(x)'
    BY <1>1, <1>2, <2>1 DEF PictureInv, CoversInv, Shown
  <2>4. \A o \in Covers : CoverSound(o)'
    BY <1>1, <1>2, <2>1 DEF PictureInv, CoversInv, CoverSound, Shown
  <2>5. None \notin shelf'
    BY <1>1, <1>2 DEF PictureInv, CoversInv, PicturesSane
  <2> QED
    BY <2>2, <2>3, <2>4, <2>5 DEF CoversInv
<1>5. Picture!PictureStored'
  BY <1>1 DEF PictureInv, Picture!PictureStored
<1>6. Picture!ReplacementOwned'
  BY <1>1, <1>2 DEF PictureInv, Picture!ReplacementOwned, Picture!Held, Picture!Doomed, Picture!At
<1> QED
  BY <1>3, <1>4, <1>5, <1>6

\* The row is read, and locked if there is one.
LEMMA SelectPhotoStep ==
  ASSUME PicturesSane, PictureInv, NEW k \in Covers, Picture!SelectPhoto(k)
  PROVE  Picture!TypeOK' /\ CoversInv' /\ Picture!PictureStored' /\ Picture!ReplacementOwned'
<1>1. PICK n : n = [pc |-> "locked", previous |-> picture]
  OBVIOUS
<1>2. /\ up[k].pc = "stored" /\ up' = [up EXCEPT ![k] = n]
      /\ UNCHANGED <<picture, shelf, retired, stray, overwritten, mishaps, custom, object, av, kept, alone>>
  BY <1>1 DEF Picture!SelectPhoto, Picture!At, Picture!avatar, Picture!losses
<1>3. up \in [Covers -> Picture!Up] /\ n \in Picture!Up
  BY <1>1 DEF PictureInv, Picture!TypeOK, Picture!Up
<1>4. up' \in [Covers -> Picture!Up] /\ up'[k].pc = "locked" /\ up'[k].previous = picture /\ \A o \in Covers : o # k => up'[o] = up[o]
  BY <1>1, <1>2, <1>3
<1>5. Picture!TypeOK'
  BY <1>2, <1>4 DEF PictureInv, Picture!TypeOK
<1>6. CoversInv'
  <2>1. \A x : Shown(x) => Shown(x)'
    BY <1>2, <1>4 DEF Shown
  <2>2. picture' # None => Shown(picture)'
    BY <1>2, <1>4 DEF PictureInv, CoversInv, Shown
  <2>3. \A x \in retired' : Shown(x)'
    BY <1>2, <2>1 DEF PictureInv, CoversInv
  <2>4. \A o \in Covers : CoverSound(o)'
    BY <1>2, <1>4, <2>1 DEF PictureInv, CoversInv, CoverSound, Shown
  <2>5. None \notin shelf'
    BY <1>1, <1>2 DEF PictureInv, CoversInv, PicturesSane
  <2> QED
    BY <2>2, <2>3, <2>4, <2>5 DEF CoversInv
<1>7. Picture!PictureStored'
  BY <1>2 DEF PictureInv, Picture!PictureStored
<1>8. Picture!ReplacementOwned'
  BY <1>2, <1>4 DEF PictureInv, Picture!ReplacementOwned, Picture!Held, Picture!Doomed, Picture!At
<1> QED
  BY <1>5, <1>6, <1>7, <1>8

\* The row points at the new object; the one it replaced is this upload's to
\* delete, or was inserted by a first upload that raced with this one.
LEMMA SetGroupPhotoStep ==
  ASSUME PicturesSane, PictureInv, NEW k \in Covers, Picture!SetGroupPhoto(k)
  PROVE  Picture!TypeOK' /\ CoversInv' /\ Picture!PictureStored' /\ Picture!ReplacementOwned'
<1>1. PICK p \in {"end", "retiring"} : p = IF up[k].previous = None THEN "end" ELSE "retiring"
  OBVIOUS
<1>2. /\ up[k].pc = "locked" /\ Picture!Move(k, p) /\ picture' = k
      /\ overwritten' = IF up[k].previous = None THEN overwritten \cup ({picture} \ {None}) ELSE overwritten
      /\ UNCHANGED <<shelf, retired, stray, mishaps, custom, object, av, kept, alone>>
      /\ \A o \in Covers \ {k} : ~(up[o].pc = "locked" /\ up[o].previous # None)
  BY <1>1 DEF Picture!SetGroupPhoto, Picture!RowFree, Picture!At, Picture!avatar, Picture!losses
<1>3. /\ up' \in [Covers -> Picture!Up] /\ up'[k].pc = p /\ up'[k].previous = up[k].previous
      /\ \A o \in Covers : o # k => up'[o] = up[o]
  BY <1>2, CoverMoves DEF PictureInv
<1>4. /\ k \in shelf /\ k # None /\ k # picture
      /\ up[k].previous # None => up[k].previous = picture
      /\ picture # None => Shown(picture)
      /\ picture \in Picture!Keys \cup {None} /\ overwritten \subseteq Picture!Keys
  BY <1>2 DEF PictureInv, CoversInv, CoverSound, Shown, PicturesSane, Picture!TypeOK
<1>5. Picture!TypeOK'
  <2>1. picture' \in Picture!Keys /\ overwritten' \subseteq Picture!Keys
    BY <1>2, <1>4 DEF Picture!Keys
  <2> QED
    BY <1>2, <1>3, <2>1 DEF PictureInv, Picture!TypeOK
<1>6. CoversInv'
  <2>1. \A x : Shown(x) => Shown(x)'
    BY <1>2, <1>3 DEF Shown
  <2>2. Shown(picture)'
    BY <1>2, <1>3 DEF Shown
  <2>3. \A x \in retired' : Shown(x)'
    BY <1>2, <2>1 DEF PictureInv, CoversInv
  <2>4. ASSUME NEW o \in Covers PROVE CoverSound(o)'
    <3>1. CASE o = k
      <4>1. p = "retiring" => up'[k].previous = picture /\ picture \in Picture!Keys \ {None} /\ Shown(picture)
        BY <1>1, <1>3, <1>4
      <4>2. p = "retiring" => up'[k].previous \in Picture!Keys \ {None, picture'}
        BY <1>2, <1>4, <4>1
      <4>3. p = "retiring" => Shown(up[k].previous)'
        BY <1>1, <1>4, <2>1, <4>1 DEF Shown
      <4>4. p = "retiring" => (up'[k].previous \in Covers => up'[up'[k].previous].pc \in {"retiring", "end"})
        BY <1>2, <1>3, <4>1 DEF Shown
      <4> QED
        BY <3>1, <1>1, <1>3, <4>2, <4>4 DEF CoverSound, Shown
    <3>2. CASE o # k
      <4>1. CoverSound(o) /\ up'[o] = up[o] /\ ~(up[o].pc = "locked" /\ up[o].previous # None)
        BY <3>2, <1>2, <1>3 DEF PictureInv, CoversInv
      <4>2. up[o].pc = "retiring" => up[o].previous # k
        BY <4>1, <1>2 DEF CoverSound, Shown
      <4>3. up[o].pc = "retiring" => (up[o].previous \in Covers => up'[up[o].previous].pc \in {"retiring", "end"})
        BY <4>1, <1>2, <1>3 DEF CoverSound, Shown
      <4> QED
        BY <4>1, <4>2, <4>3, <1>2 DEF CoverSound, Shown
    <3> QED
      BY <3>1, <3>2
  <2>5. None \notin shelf'
    BY <1>1, <1>2 DEF PictureInv, CoversInv, PicturesSane
  <2> QED
    BY <2>2, <2>3, <2>4, <2>5 DEF CoversInv
<1>7. Picture!PictureStored'
  BY <1>2, <1>4 DEF Picture!PictureStored
<1>8. Picture!ReplacementOwned'
  <2> SUFFICES ASSUME NEW x \in shelf \ (retired \cup stray \cup overwritten' \cup {k})
               PROVE  \/ \E o \in Covers : /\ up'[o].pc \in {"retiring", "undoing"}
                                           /\ x = IF up'[o].pc = "undoing" THEN o ELSE up'[o].previous
                      \/ x \in Covers /\ up'[x].pc \in {"stored", "locked"}
    BY <1>2 DEF Picture!ReplacementOwned, Picture!Held, Picture!Doomed, Picture!At
  <2>1. CASE x = picture
    <3>1. up[k].previous # None
      BY <2>1, <1>2 DEF PictureInv, CoversInv
    <3>2. up'[k].pc = "retiring" /\ up'[k].previous = x
      BY <2>1, <3>1, <1>1, <1>3, <1>4
    <3> QED
      BY <3>2
  <2>2. CASE x # picture
    <3>1. x \in shelf \ (retired \cup stray \cup overwritten \cup {picture})
      BY <2>2, <1>2
    <3>2. CASE \E o \in Covers : up[o].pc \in {"retiring", "undoing"} /\ x = IF up[o].pc = "undoing" THEN o ELSE up[o].previous
      BY <3>2, <1>2, <1>3
    <3>3. CASE x \in Covers /\ up[x].pc \in {"stored", "locked"}
      BY <3>3, <1>2, <1>3
    <3> QED
      BY <3>1, <3>2, <3>3 DEF PictureInv, Picture!ReplacementOwned, Picture!Held, Picture!Doomed, Picture!At
  <2> QED
    BY <2>1, <2>2
<1> QED
  BY <1>5, <1>6, <1>7, <1>8

\* A statement fails, or COMMIT does: the row is as it was.
LEMMA SetGroupPhotoFailsStep ==
  ASSUME PicturesSane, PictureInv, NEW k \in Covers, NEW b \in BOOLEAN, Picture!SetGroupPhotoFails(k, b)
  PROVE  Picture!TypeOK' /\ CoversInv' /\ Picture!PictureStored' /\ Picture!ReplacementOwned'
<1>1. b = FALSE
  BY DEF Picture!SetGroupPhotoFails, Picture!Mishap, PicturesSane
<1>2. /\ up[k].pc = "locked" /\ Picture!Move(k, "undoing") /\ mishaps' = mishaps + 1 /\ mishaps < MaxMishaps
      /\ UNCHANGED <<picture, shelf, retired, stray, overwritten, custom, object, av, kept, alone>>
  BY <1>1 DEF Picture!SetGroupPhotoFails, Picture!Mishap, Picture!At, Picture!avatar, Picture!losses
<1>3. /\ up' \in [Covers -> Picture!Up] /\ up'[k].pc = "undoing" /\ up'[k].previous = up[k].previous
      /\ \A o \in Covers : o # k => up'[o] = up[o]
  BY <1>2, CoverMoves DEF PictureInv
<1>4. Picture!TypeOK'
  BY <1>2, <1>3 DEF PictureInv, Picture!TypeOK, PicturesSane
<1>5. CoversInv'
  <2>1. \A x : Shown(x) => Shown(x)'
    BY <1>2, <1>3 DEF Shown
  <2>2. picture' # None => Shown(picture)'
    BY <1>2, <1>3 DEF PictureInv, CoversInv, Shown
  <2>3. \A x \in retired' : Shown(x)'
    BY <1>2, <2>1 DEF PictureInv, CoversInv
  <2>4. \A o \in Covers : CoverSound(o)'
    BY <1>2, <1>3, <2>1 DEF PictureInv, CoversInv, CoverSound, Shown
  <2> QED
    BY <1>2, <2>2, <2>3, <2>4 DEF PictureInv, CoversInv
<1>6. Picture!PictureStored'
  BY <1>2 DEF PictureInv, Picture!PictureStored
<1>7. Picture!ReplacementOwned'
  BY <1>2, <1>3 DEF PictureInv, Picture!ReplacementOwned, Picture!Held, Picture!Doomed, Picture!At
<1> QED
  BY <1>4, <1>5, <1>6, <1>7

\* What an upload deletes was shown and is no longer, or is its own.
LEMMA DoomedFacts ==
  ASSUME PicturesSane, PictureInv, NEW k \in Covers, up[k].pc \in {"retiring", "undoing"}
  PROVE  /\ Picture!Doomed(k) \in Picture!Keys /\ Picture!Doomed(k) # picture
         /\ Picture!Doomed(k) = IF up[k].pc = "undoing" THEN k ELSE up[k].previous
         /\ Picture!Doomed(k) \in Covers /\ Picture!Doomed(k) # k => up[Picture!Doomed(k)].pc \in {"retiring", "end"}
<1>1. Picture!Doomed(k) = IF up[k].pc = "undoing" THEN k ELSE up[k].previous
  BY DEF Picture!Doomed, Picture!At
<1>2. CoverSound(k) /\ (picture # None => Shown(picture)) /\ picture \in Picture!Keys \cup {None} /\ None \notin shelf
  BY DEF PictureInv, CoversInv, Picture!TypeOK
<1>3. CASE up[k].pc = "undoing"
  <2>1. k # picture
    BY <1>2, <1>3 DEF Shown, PicturesSane
  <2> QED
    BY <1>1, <1>3, <2>1 DEF Picture!Keys
<1>4. CASE up[k].pc = "retiring"
  BY <1>1, <1>2, <1>4 DEF CoverSound, Shown
<1> QED
  BY <1>3, <1>4

\* An object is deleted, or queued, or lost.
LEMMA DeletePhotoStep ==
  ASSUME PicturesSane, PictureInv, NEW k \in Covers,
         Picture!DeletePhoto(k) \/ \E b \in BOOLEAN : Picture!DeletePhotoFails(k, b)
  PROVE  Picture!TypeOK' /\ CoversInv' /\ Picture!PictureStored' /\ Picture!ReplacementOwned'
<1>1. PICK x : x = Picture!Doomed(k)
  OBVIOUS
<1>2. /\ up[k].pc \in {"retiring", "undoing"} /\ Picture!Move(k, "end")
      /\ UNCHANGED <<picture, overwritten, custom, object, av, kept, alone>>
      /\ \/ shelf' = shelf \ {x} /\ retired' = retired /\ stray' = stray /\ mishaps' = mishaps
         \/ shelf' = shelf /\ retired' = retired \cup {x} /\ stray' = stray /\ mishaps' = mishaps + 1 /\ mishaps < MaxMishaps
         \/ shelf' = shelf /\ retired' = retired /\ stray' = stray \cup {x} /\ mishaps' = mishaps + 2 /\ mishaps + 1 < MaxMishaps
  BY <1>1 DEF Picture!DeletePhoto, Picture!DeletePhotoFails, Picture!Queued, Picture!avatar, Picture!losses
<1>3. /\ up' \in [Covers -> Picture!Up] /\ up'[k].pc = "end" /\ up'[k].previous = up[k].previous
      /\ \A o \in Covers : o # k => up'[o] = up[o]
  BY <1>2, CoverMoves DEF PictureInv
<1>4. x \in Picture!Keys /\ x # picture /\ (x \in Covers /\ x # k => up[x].pc \in {"retiring", "end"})
      /\ x = IF up[k].pc = "undoing" THEN k ELSE up[k].previous
  BY <1>1, <1>2, DoomedFacts
<1>5. Picture!TypeOK'
  <2>1. mishaps' \in 0..MaxMishaps
    BY <1>2 DEF PictureInv, Picture!TypeOK, PicturesSane
  <2> QED
    BY <1>2, <1>3, <1>4, <2>1 DEF PictureInv, Picture!TypeOK
<1>6. CoversInv'
  <2>1. \A y : Shown(y) => Shown(y)'
    BY <1>2, <1>3 DEF Shown
  <2>2. picture' # None => Shown(picture)'
    BY <1>2, <1>3 DEF PictureInv, CoversInv, Shown
  <2>3. \A y \in retired' : Shown(y)'
    BY <1>2, <1>3, <1>4, <2>1 DEF PictureInv, CoversInv, Shown
  <2>4. ASSUME NEW o \in Covers PROVE CoverSound(o)'
    <3>1. CASE o = k
      BY <3>1, <1>3 DEF CoverSound
    <3>2. CASE o # k
      <4>1. CoverSound(o) /\ up'[o] = up[o]
        BY <3>2, <1>3 DEF PictureInv, CoversInv
      <4>2. up[o].pc \in {"stored", "locked"} => o \in shelf'
        BY <3>2, <4>1, <1>2, <1>4 DEF CoverSound
      <4>3. up[o].pc = "retiring" => (up[o].previous \in Covers => up'[up[o].previous].pc \in {"retiring", "end"})
        BY <4>1, <1>2, <1>3 DEF CoverSound, Shown
      <4> QED
        BY <4>1, <4>2, <4>3, <1>2 DEF CoverSound, Shown
    <3> QED
      BY <3>1, <3>2
  <2> QED
    BY <1>2, <2>2, <2>3, <2>4 DEF PictureInv, CoversInv
<1>7. Picture!PictureStored'
  BY <1>2, <1>4 DEF PictureInv, Picture!PictureStored
<1>8. Picture!ReplacementOwned'
  <2> SUFFICES ASSUME NEW y \in shelf' \ (retired' \cup stray' \cup overwritten \cup {picture})
               PROVE  \/ \E o \in Covers : /\ up'[o].pc \in {"retiring", "undoing"}
                                           /\ y = IF up'[o].pc = "undoing" THEN o ELSE up'[o].previous
                      \/ y \in Covers /\ up'[y].pc \in {"stored", "locked"}
    BY <1>2 DEF Picture!ReplacementOwned, Picture!Held, Picture!Doomed, Picture!At
  <2>1. y # x /\ y \in shelf \ (retired \cup stray \cup overwritten \cup {picture})
    BY <1>2
  <2>2. CASE \E o \in Covers : up[o].pc \in {"retiring", "undoing"} /\ y = IF up[o].pc = "undoing" THEN o ELSE up[o].previous
    BY <2>1, <2>2, <1>3, <1>4
  <2>3. CASE y \in Covers /\ up[y].pc \in {"stored", "locked"}
    BY <2>3, <1>2, <1>3
  <2> QED
    BY <2>1, <2>2, <2>3 DEF PictureInv, Picture!ReplacementOwned, Picture!Held, Picture!Doomed, Picture!At
<1> QED
  BY <1>5, <1>6, <1>7, <1>8

\* A queued deletion spares the picture that a group shows.
LEMMA PictureSweepStep ==
  ASSUME PicturesSane, PictureInv, NEW k \in Picture!Keys, Picture!Sweep(k)
  PROVE  Picture!TypeOK' /\ CoversInv' /\ Picture!PictureStored' /\ Picture!ReplacementOwned'
<1>1. /\ k \in retired /\ retired' = retired \ {k} /\ shelf' = IF picture = k THEN shelf ELSE shelf \ {k}
      /\ UNCHANGED <<picture, up, stray, overwritten, mishaps, custom, object, av, kept, alone>>
  BY DEF Picture!Sweep, Picture!avatar, Picture!losses
<1>2. Picture!TypeOK'
  BY <1>1 DEF PictureInv, Picture!TypeOK
<1>3. CoversInv'
  <2>1. ASSUME NEW o \in Covers PROVE CoverSound(o)'
    <3>1. CoverSound(o) /\ up' = up /\ picture' = picture
      BY <1>1 DEF PictureInv, CoversInv
    <3>2. up[o].pc \in {"stored", "locked"} => o \in shelf'
      BY <3>1, <1>1 DEF PictureInv, CoversInv, CoverSound, Shown
    <3> QED
      BY <3>1, <3>2 DEF CoverSound, Shown
  <2> QED
    BY <1>1, <2>1 DEF PictureInv, CoversInv, Shown
<1>4. Picture!PictureStored'
  BY <1>1 DEF PictureInv, Picture!PictureStored
<1>5. Picture!ReplacementOwned'
  BY <1>1 DEF PictureInv, Picture!ReplacementOwned, Picture!Held, Picture!Doomed, Picture!At
<1> QED
  BY <1>2, <1>3, <1>4, <1>5

\* A step of the group's picture leaves the avatar alone.
LEMMA AvatarKept ==
  ASSUME PictureInv, UNCHANGED <<custom, object, av, kept, alone>>
  PROVE  AvatarInv' /\ Picture!AvatarPreserved'
  BY DEF PictureInv, AvatarInv, Picture!AvatarPreserved, Picture!Busy

\* A step of the avatar leaves the group's picture alone.
LEMMA CoversKept ==
  ASSUME PictureInv, UNCHANGED <<picture, shelf, retired, up, stray, overwritten>>
  PROVE  CoversInv' /\ Picture!PictureStored' /\ Picture!ReplacementOwned'
<1>1. CoversInv'
  BY DEF PictureInv, CoversInv, CoverSound, Shown
<1> QED
  BY <1>1 DEF PictureInv, Picture!PictureStored, Picture!ReplacementOwned, Picture!Held, Picture!Doomed, Picture!At

\* One upload of the avatar goes a step further.
LEMMA AvatarMoves ==
  ASSUME PicturesSane, PictureInv, NEW c \in Avatars, NEW n \in Picture!Av, av' = [av EXCEPT ![c] = n],
         UNCHANGED <<picture, shelf, retired, up, stray, overwritten>>,
         custom' \in BOOLEAN, object' \in Avatars \cup {None}, kept' \in Avatars \cup {None}, alone' \in BOOLEAN,
         mishaps' \in 0..MaxMishaps, AvatarInv'
  PROVE  PictureInv'
<1>1. av' \in [Avatars -> Picture!Av]
  BY DEF PictureInv, Picture!TypeOK
<1>2. Picture!TypeOK'
  BY <1>1 DEF PictureInv, Picture!TypeOK
<1>3. Picture!AvatarPreserved'
  BY DEF AvatarInv, Picture!AvatarPreserved
<1> QED
  BY <1>2, <1>3, CoversKept DEF PictureInv

\* An upload of the avatar is loaded, stored, shown, refused or undone.
LEMMA AvatarStep ==
  ASSUME PicturesSane, PictureInv, NEW c \in Avatars,
         \/ Picture!LoadAvatar(c) \/ Picture!PutAvatar(c) \/ Picture!SetUserAvatar(c) \/ Picture!SetUserAvatarFails(c)
         \/ Picture!RestoreAvatar(c) \/ \E b \in BOOLEAN : Picture!PutAvatarFails(c, b)
  PROVE  PictureInv'
<1>1. /\ custom \in BOOLEAN /\ object \in Avatars \cup {None} /\ kept \in Avatars \cup {None} /\ alone \in BOOLEAN
      /\ mishaps \in 0..MaxMishaps /\ MaxMishaps \in Nat /\ av \in [Avatars -> Picture!Av] /\ None \notin Avatars /\ AvatarInv
  BY DEF PictureInv, Picture!TypeOK, PicturesSane
<1>2. PICK p \in {"new", "loaded", "put", "undoing", "end"}, q \in Avatars \cup {None} : av[c] = [pc |-> p, previous |-> q]
  BY <1>1 DEF Picture!Av
<1>3. CASE Picture!LoadAvatar(c)
  <2>1. PICK n : n = [pc |-> "loaded", previous |-> Picture!Previous]
    OBVIOUS
  <2>2. /\ p = "new" /\ av' = [av EXCEPT ![c] = n] /\ alone' = (alone /\ Picture!Busy = {})
        /\ UNCHANGED <<picture, shelf, retired, up, stray, overwritten, custom, object, kept, mishaps>>
    BY <2>1, <1>2, <1>3 DEF Picture!LoadAvatar, Picture!group, Picture!losses
  <2>3. n.pc = "loaded" /\ n.previous = (IF custom THEN object ELSE None) /\ n \in Picture!Av
    BY <2>1, <1>1 DEF Picture!Previous, Picture!Av
  <2>4. av'[c] = n /\ \A d \in Avatars \ {c} : av'[d] = av[d]
    BY <1>1, <2>2
  <2>5. AvatarInv'
    <3> SUFFICES ASSUME alone, Picture!Busy = {}
                 PROVE  /\ Picture!Busy' = {c} /\ (custom => object = kept) /\ (custom => n.previous = kept)
                        /\ \A d \in Avatars : av'[d].pc # "put"
      BY <2>2, <2>3, <2>4 DEF AvatarInv
    <3> QED
      BY <1>1, <2>3, <2>4 DEF AvatarInv, Picture!Busy
  <2> QED
    BY <1>1, <2>2, <2>3, <2>5, AvatarMoves
<1>4. CASE Picture!PutAvatar(c)
  <2>1. PICK n : n = [av[c] EXCEPT !.pc = "put"]
    OBVIOUS
  <2>2. /\ p = "loaded" /\ av' = [av EXCEPT ![c] = n] /\ object' = c
        /\ UNCHANGED <<picture, shelf, retired, up, stray, overwritten, custom, kept, alone, mishaps>>
    BY <2>1, <1>2, <1>4 DEF Picture!PutAvatar, Picture!group, Picture!losses
  <2>3. n = [pc |-> "put", previous |-> q] /\ n \in Picture!Av
    BY <2>1, <1>2 DEF Picture!Av
  <2>4. av'[c] = n /\ \A d \in Avatars \ {c} : av'[d] = av[d]
    BY <1>1, <2>2
  <2>5. AvatarInv'
    <3> SUFFICES ASSUME alone
                 PROVE  /\ Picture!Busy' = {c} /\ (custom => q = kept)
                        /\ \A d \in Avatars : av'[d].pc = "put" => d = c
      BY <2>2, <2>3, <2>4 DEF AvatarInv, Picture!Busy
    <3>1. Picture!Busy = {c}
      BY <1>1, <1>2, <2>2 DEF AvatarInv, Picture!Busy
    <3> QED
      BY <1>1, <1>2, <2>3, <2>4, <3>1 DEF AvatarInv, Picture!Busy
  <2> QED
    BY <1>1, <2>2, <2>3, <2>5, AvatarMoves
<1>5. CASE Picture!SetUserAvatar(c)
  <2>1. PICK n : n = [av[c] EXCEPT !.pc = "end"]
    OBVIOUS
  <2>2. /\ p = "put" /\ av' = [av EXCEPT ![c] = n] /\ custom' = TRUE /\ kept' = c
        /\ UNCHANGED <<picture, shelf, retired, up, stray, overwritten, object, alone, mishaps>>
    BY <2>1, <1>2, <1>5 DEF Picture!SetUserAvatar, Picture!group, Picture!losses
  <2>3. n = [pc |-> "end", previous |-> q] /\ n \in Picture!Av
    BY <2>1, <1>2 DEF Picture!Av
  <2>4. av'[c] = n /\ \A d \in Avatars \ {c} : av'[d] = av[d]
    BY <1>1, <2>2
  <2>5. AvatarInv'
    <3> SUFFICES ASSUME alone PROVE Picture!Busy' = {} /\ object = c
      BY <2>2, <2>4 DEF AvatarInv, Picture!Busy
    <3> QED
      BY <1>1, <1>2, <2>2, <2>3, <2>4 DEF AvatarInv, Picture!Busy
  <2> QED
    BY <1>1, <2>2, <2>3, <2>5, AvatarMoves
<1>6. CASE Picture!SetUserAvatarFails(c)
  <2>1. PICK n : n = [av[c] EXCEPT !.pc = "undoing"]
    OBVIOUS
  <2>2. /\ p = "put" /\ av' = [av EXCEPT ![c] = n] /\ mishaps' = mishaps + 1 /\ mishaps < MaxMishaps
        /\ UNCHANGED <<picture, shelf, retired, up, stray, overwritten, custom, object, kept, alone>>
    BY <2>1, <1>2, <1>6 DEF Picture!SetUserAvatarFails, Picture!Mishap, Picture!group, Picture!losses
  <2>3. n = [pc |-> "undoing", previous |-> q] /\ n \in Picture!Av
    BY <2>1, <1>2 DEF Picture!Av
  <2>4. av'[c] = n /\ \A d \in Avatars \ {c} : av'[d] = av[d]
    BY <1>1, <2>2
  <2>5. AvatarInv'
    <3> SUFFICES ASSUME alone
                 PROVE  /\ Picture!Busy' = {c} /\ (custom => q = kept)
                        /\ \A d \in Avatars : av'[d].pc \notin {"put", "loaded"}
      BY <2>2, <2>3, <2>4 DEF AvatarInv, Picture!Busy
    <3>1. Picture!Busy = {c}
      BY <1>1, <1>2, <2>2 DEF AvatarInv, Picture!Busy
    <3> QED
      BY <1>1, <1>2, <2>3, <2>4, <3>1 DEF AvatarInv, Picture!Busy
  <2>6. mishaps' \in 0..MaxMishaps
    BY <1>1, <2>2
  <2> QED
    BY <1>1, <2>2, <2>3, <2>5, <2>6, AvatarMoves
<1>7. CASE Picture!RestoreAvatar(c)
  <2>1. PICK n : n = [av[c] EXCEPT !.pc = "end"]
    OBVIOUS
  <2>2. /\ p = "undoing" /\ av' = [av EXCEPT ![c] = n] /\ object' = q
        /\ UNCHANGED <<picture, shelf, retired, up, stray, overwritten, custom, kept, alone, mishaps>>
    BY <2>1, <1>2, <1>7 DEF Picture!RestoreAvatar, Picture!group, Picture!losses
  <2>3. n = [pc |-> "end", previous |-> q] /\ n \in Picture!Av
    BY <2>1, <1>2 DEF Picture!Av
  <2>4. av'[c] = n /\ \A d \in Avatars \ {c} : av'[d] = av[d]
    BY <1>1, <2>2
  <2>5. AvatarInv'
    <3> SUFFICES ASSUME alone PROVE Picture!Busy' = {} /\ (custom => q = kept)
      BY <2>2, <2>4 DEF AvatarInv, Picture!Busy
    <3>1. Picture!Busy = {c}
      BY <1>1, <1>2, <2>2 DEF AvatarInv, Picture!Busy
    <3> QED
      BY <1>1, <1>2, <2>3, <2>4, <3>1 DEF AvatarInv, Picture!Busy
  <2> QED
    BY <1>1, <1>2, <2>2, <2>3, <2>5, AvatarMoves
<1>8. ASSUME NEW b \in BOOLEAN, Picture!PutAvatarFails(c, b) PROVE PictureInv'
  <2>1. PICK n : n = [av[c] EXCEPT !.pc = "end"]
    OBVIOUS
  <2>2. /\ p = "loaded" /\ av' = [av EXCEPT ![c] = n] /\ mishaps' = mishaps + 1 /\ mishaps < MaxMishaps
        /\ object' = (IF b THEN c ELSE object) /\ kept' = (IF b /\ custom THEN c ELSE kept)
        /\ UNCHANGED <<picture, shelf, retired, up, stray, overwritten, custom, alone>>
    BY <2>1, <1>2, <1>8 DEF Picture!PutAvatarFails, Picture!Mishap, Picture!group, Picture!losses
  <2>3. n = [pc |-> "end", previous |-> q] /\ n \in Picture!Av
    BY <2>1, <1>2 DEF Picture!Av
  <2>4. av'[c] = n /\ \A d \in Avatars \ {c} : av'[d] = av[d]
    BY <1>1, <2>2
  <2>5. AvatarInv'
    <3> SUFFICES ASSUME alone PROVE Picture!Busy' = {} /\ (custom => object = kept)
      BY <2>2, <2>4 DEF AvatarInv, Picture!Busy
    <3>1. Picture!Busy = {c}
      BY <1>1, <1>2, <2>2 DEF AvatarInv, Picture!Busy
    <3> QED
      BY <1>1, <1>2, <2>2, <2>3, <2>4, <3>1 DEF AvatarInv, Picture!Busy
  <2>6. mishaps' \in 0..MaxMishaps /\ object' \in Avatars \cup {None} /\ kept' \in Avatars \cup {None}
    BY <1>1, <2>2
  <2> QED
    BY <1>1, <2>2, <2>3, <2>5, <2>6, AvatarMoves
<1> QED
  BY <1>3, <1>4, <1>5, <1>6, <1>7, <1>8

\* A profile update shows a built-in avatar, or the marker's.
LEMMA UpdateProfileStep ==
  ASSUME PicturesSane, PictureInv, NEW b \in BOOLEAN, Picture!UpdateProfile(b)
  PROVE  PictureInv'
<1>1. /\ custom' = b /\ custom # b /\ kept' = (IF b THEN object ELSE None) /\ alone' = (alone /\ Picture!Busy = {})
      /\ UNCHANGED <<picture, shelf, retired, up, stray, overwritten, object, av, mishaps>>
  BY DEF Picture!UpdateProfile, Picture!group, Picture!losses
<1>2. Picture!TypeOK'
  BY <1>1 DEF PictureInv, Picture!TypeOK
<1>3. AvatarInv'
  <2>1. Picture!Busy' = Picture!Busy
    BY <1>1 DEF Picture!Busy
  <2> SUFFICES ASSUME alone, Picture!Busy = {}
               PROVE  (custom' => object = kept') /\ \A c \in Avatars : av[c].pc # "put"
    BY <1>1, <2>1 DEF AvatarInv
  <2> QED
    BY <1>1 DEF Picture!Busy
<1>4. Picture!AvatarPreserved'
  BY <1>3 DEF AvatarInv, Picture!AvatarPreserved
<1> QED
  BY <1>1, <1>2, <1>3, <1>4, CoversKept DEF PictureInv

\* Every step of the pictures keeps the invariant.
LEMMA PictureStep ==
  ASSUME PicturesSane, PictureInv, [Picture!Next]_Picture!vars
  PROVE  PictureInv'
<1>1. CASE UNCHANGED Picture!vars
  <2>1. UNCHANGED <<picture, shelf, retired, up, stray, overwritten>> /\ UNCHANGED <<custom, object, av, kept, alone>> /\ mishaps' = mishaps
    BY <1>1 DEF Picture!vars
  <2>2. Picture!TypeOK'
    BY <2>1 DEF PictureInv, Picture!TypeOK
  <2> QED
    BY <2>1, <2>2, AvatarKept, CoversKept DEF PictureInv
<1>2. ASSUME Picture!TypeOK' /\ CoversInv' /\ Picture!PictureStored' /\ Picture!ReplacementOwned',
             UNCHANGED <<custom, object, av, kept, alone>>
      PROVE  PictureInv'
  BY <1>2, AvatarKept DEF PictureInv
<1>3. ASSUME NEW k \in Covers, Picture!PutPhoto(k) \/ \E b \in BOOLEAN : Picture!PutPhotoFails(k, b) PROVE PictureInv'
  BY <1>2, <1>3, PutPhotoStep DEF Picture!PutPhoto, Picture!PutPhotoFails, Picture!avatar, Picture!losses
<1>4. ASSUME NEW k \in Covers, Picture!SelectPhoto(k) PROVE PictureInv'
  BY <1>2, <1>4, SelectPhotoStep DEF Picture!SelectPhoto, Picture!avatar, Picture!losses
<1>5. ASSUME NEW k \in Covers, Picture!SetGroupPhoto(k) PROVE PictureInv'
  BY <1>2, <1>5, SetGroupPhotoStep DEF Picture!SetGroupPhoto, Picture!avatar, Picture!losses
<1>6. ASSUME NEW k \in Covers, NEW b \in BOOLEAN, Picture!SetGroupPhotoFails(k, b) PROVE PictureInv'
  BY <1>2, <1>6, SetGroupPhotoFailsStep DEF Picture!SetGroupPhotoFails, Picture!avatar, Picture!losses
<1>7. ASSUME NEW k \in Covers, Picture!DeletePhoto(k) \/ \E b \in BOOLEAN : Picture!DeletePhotoFails(k, b) PROVE PictureInv'
  BY <1>2, <1>7, DeletePhotoStep DEF Picture!DeletePhoto, Picture!DeletePhotoFails, Picture!avatar, Picture!losses
<1>8. ASSUME NEW k \in Picture!Keys, Picture!Sweep(k) PROVE PictureInv'
  BY <1>2, <1>8, PictureSweepStep DEF Picture!Sweep, Picture!avatar, Picture!losses
<1>9. CASE \E k \in Covers :
             \/ Picture!PutPhoto(k) \/ Picture!SelectPhoto(k) \/ Picture!SetGroupPhoto(k) \/ Picture!DeletePhoto(k)
             \/ \E b \in BOOLEAN : Picture!PutPhotoFails(k, b) \/ Picture!SetGroupPhotoFails(k, b) \/ Picture!DeletePhotoFails(k, b)
  BY <1>3, <1>4, <1>5, <1>6, <1>7, <1>9
<1>10. CASE \/ \E c \in Avatars : \/ Picture!LoadAvatar(c) \/ Picture!PutAvatar(c) \/ Picture!SetUserAvatar(c)
                                  \/ Picture!SetUserAvatarFails(c) \/ Picture!RestoreAvatar(c)
            \/ \E c \in Avatars, b \in BOOLEAN : Picture!PutAvatarFails(c, b)
  BY <1>10, AvatarStep
<1> QED
  BY <1>1, <1>8, <1>9, <1>10, UpdateProfileStep DEF Picture!Next

\* The invariant of the pictures' uploads (handlers/group.go: uploadGroupPhoto,
\* handlers/auth/avatar.go: UploadAvatar).
THEOREM PictureInvariant ==
  ASSUME PicturesSane PROVE Picture!Spec => []PictureInv
<1>1. Picture!Init => PictureInv
  <2> SUFFICES ASSUME Picture!Init PROVE PictureInv
    OBVIOUS
  <2>1. /\ picture \in {Old, None} /\ shelf = {picture} \ {None} /\ retired = {} /\ stray = {} /\ overwritten = {}
        /\ up = [k \in Covers |-> [pc |-> "new", previous |-> None]]
        /\ custom = FALSE /\ object = None /\ av = [c \in Avatars |-> [pc |-> "new", previous |-> None]]
        /\ mishaps = 0 /\ kept = None /\ alone = TRUE
    BY DEF Picture!Init
  <2>2. Picture!TypeOK
    <3>1. picture \in Picture!Keys \cup {None} /\ shelf \subseteq Picture!Keys
      BY <2>1 DEF Picture!Keys
    <3>2. up \in [Covers -> Picture!Up]
      BY <2>1 DEF Picture!Up
    <3>3. av \in [Avatars -> Picture!Av]
      BY <2>1 DEF Picture!Av
    <3>4. /\ custom \in BOOLEAN /\ object \in Avatars \cup {None} /\ kept \in Avatars \cup {None} /\ alone \in BOOLEAN
          /\ mishaps \in 0..MaxMishaps /\ retired \subseteq Picture!Keys /\ stray \subseteq Picture!Keys /\ overwritten \subseteq Picture!Keys
      <4>1. mishaps \in 0..MaxMishaps
        <5>1. MaxMishaps \in Nat /\ mishaps = 0
          BY <2>1 DEF PicturesSane
        <5> QED
          BY ONLY <5>1
      <4>2. custom \in BOOLEAN /\ alone \in BOOLEAN
        BY <2>1, Zenon
      <4>3. object \in Avatars \cup {None} /\ kept \in Avatars \cup {None} /\ retired = {} /\ stray = {} /\ overwritten = {}
        BY <2>1, Zenon
      <4> QED
        BY ONLY <4>1, <4>2, <4>3
    <3> QED
      BY ONLY <3>1, <3>2, <3>3, <3>4 DEF Picture!TypeOK
  <2>3. CoversInv
    BY <2>1 DEF CoversInv, CoverSound, Shown, PicturesSane
  <2>4. Picture!Busy = {} /\ AvatarInv
    BY <2>1 DEF AvatarInv, Picture!Busy
  <2>5. Picture!PictureStored /\ Picture!ReplacementOwned
    BY <2>1 DEF Picture!PictureStored, Picture!ReplacementOwned
  <2> QED
    BY <2>1, <2>2, <2>3, <2>4, <2>5 DEF PictureInv, Picture!AvatarPreserved
<1> QED
  BY <1>1, PictureStep, PTL DEF Picture!Spec

\* The picture that a group shows is in the store, whatever concurrent uploads,
\* their compensations and the queue delete (handlers/group.go: uploadGroupPhoto).
THEOREM PictureIsStored == ASSUME PicturesSane PROVE Picture!Spec => []Picture!PictureStored
<1>1. PictureInv => Picture!PictureStored
  BY DEF PictureInv
<1> QED
  BY <1>1, PictureInvariant, PTL

\* An object that no group shows is some upload's or the queue's to delete, but for
\* the pictures that an upload overwrote which had found no row: nobody ever deletes
\* those (handlers/group.go: uploadGroupPhoto; repository/groups: SetGroupPhoto).
THEOREM ReplacementIsOwned == ASSUME PicturesSane PROVE Picture!Spec => []Picture!ReplacementOwned
<1>1. PictureInv => Picture!ReplacementOwned
  BY DEF PictureInv
<1> QED
  BY <1>1, PictureInvariant, PTL

\* No upload is past the row without having read a picture there.
RowFound ==
  /\ picture # None /\ overwritten = {}
  /\ \A o \in Covers : up[o].pc = "locked" => up[o].previous # None

\* A group that has a picture keeps its row, so every later upload finds one.
LEMMA RowFoundKept ==
  ASSUME PicturesSane, PictureInv, RowFound, [Picture!Next]_Picture!vars
  PROVE  RowFound'
<1>1. CASE UNCHANGED <<picture, up, overwritten>>
  BY <1>1 DEF RowFound
<1>2. ASSUME NEW k \in Covers, Picture!SelectPhoto(k) PROVE RowFound'
  <2>1. PICK n : n = [pc |-> "locked", previous |-> picture]
    OBVIOUS
  <2>2. up' = [up EXCEPT ![k] = n] /\ UNCHANGED <<picture, overwritten>> /\ up \in [Covers -> Picture!Up]
    BY <1>2, <2>1 DEF Picture!SelectPhoto, Picture!losses, PictureInv, Picture!TypeOK
  <2> QED
    BY <2>1, <2>2 DEF RowFound
<1>3. ASSUME NEW k \in Covers, Picture!SetGroupPhoto(k) PROVE RowFound'
  <2>1. up[k].previous # None /\ picture' = k /\ overwritten' = overwritten /\ Picture!Move(k, "retiring") /\ k # None
    BY <1>3 DEF RowFound, Picture!SetGroupPhoto, Picture!At, PicturesSane
  <2>2. up'[k].pc = "retiring" /\ \A o \in Covers : o # k => up'[o] = up[o]
    BY <2>1, CoverMoves DEF PictureInv
  <2> QED
    BY <2>1, <2>2 DEF RowFound
<1>4. ASSUME NEW k \in Covers, NEW p \in {"new", "stored", "retiring", "undoing", "end"}, Picture!Move(k, p),
             UNCHANGED <<picture, overwritten>>
      PROVE  RowFound'
  <2>1. up'[k].pc = p /\ \A o \in Covers : o # k => up'[o] = up[o]
    BY <1>4, CoverMoves DEF PictureInv
  <2> QED
    BY <1>4, <2>1 DEF RowFound
<1>5. ASSUME NEW k \in Covers,
             \/ Picture!PutPhoto(k) \/ Picture!DeletePhoto(k)
             \/ \E b \in BOOLEAN : Picture!PutPhotoFails(k, b) \/ Picture!SetGroupPhotoFails(k, b) \/ Picture!DeletePhotoFails(k, b)
      PROVE  RowFound'
  <2>1. UNCHANGED <<picture, overwritten>> /\ (Picture!Move(k, "stored") \/ Picture!Move(k, "end") \/ Picture!Move(k, "undoing"))
    BY <1>5 DEF Picture!PutPhoto, Picture!DeletePhoto, Picture!PutPhotoFails, Picture!SetGroupPhotoFails,
                Picture!DeletePhotoFails, Picture!losses, Picture!Mishap, PicturesSane
  <2> QED
    BY <1>4, <2>1
<1>6. Picture!Next \/ UNCHANGED Picture!vars
  OBVIOUS
<1>7. CASE UNCHANGED Picture!vars
  BY <1>1, <1>7 DEF Picture!vars
<1>8. CASE Picture!Next
  <2>1. ASSUME NEW k \in Picture!Keys, Picture!Sweep(k) PROVE RowFound'
    BY <1>1, <2>1 DEF Picture!Sweep, Picture!losses
  <2>2. ASSUME NEW c \in Avatars,
               \/ Picture!LoadAvatar(c) \/ Picture!PutAvatar(c) \/ Picture!SetUserAvatar(c)
               \/ Picture!SetUserAvatarFails(c) \/ Picture!RestoreAvatar(c) \/ \E b \in BOOLEAN : Picture!PutAvatarFails(c, b)
        PROVE  RowFound'
    BY <1>1, <2>2 DEF Picture!LoadAvatar, Picture!PutAvatar, Picture!SetUserAvatar, Picture!SetUserAvatarFails,
                      Picture!RestoreAvatar, Picture!PutAvatarFails, Picture!group
  <2>3. ASSUME NEW b \in BOOLEAN, Picture!UpdateProfile(b) PROVE RowFound'
    BY <1>1, <2>3 DEF Picture!UpdateProfile, Picture!group
  <2> QED
    BY <1>2, <1>3, <1>5, <1>8, <2>1, <2>2, <2>3 DEF Picture!Next
<1> QED
  BY <1>6, <1>7, <1>8

\* In a group that has a picture every object that is not shown is some upload's or
\* the queue's to delete, unless a Put half failed or two calls failed in a row
\* (handlers/group.go: uploadGroupPhoto, cleanupGroupPhoto).
THEOREM PictureIsOwned ==
  ASSUME PicturesSane PROVE Picture!Spec /\ picture # None => []Picture!PictureOwned
<1>1. Picture!Init /\ picture # None => RowFound
  BY DEF Picture!Init, RowFound
<1>2. PictureInv /\ RowFound /\ [Picture!Next]_Picture!vars => RowFound'
  BY RowFoundKept
<1>3. PictureInv /\ RowFound => Picture!PictureOwned
  BY DEF PictureInv, RowFound, Picture!ReplacementOwned, Picture!PictureOwned
<1> QED
  BY <1>1, <1>2, <1>3, PictureInvariant, PTL DEF Picture!Spec

\* An upload of the avatar that fails leaves the one from before, as long as nothing
\* else touches it meanwhile (handlers/auth/avatar.go: UploadAvatar).
THEOREM AvatarIsPreserved == ASSUME PicturesSane PROVE Picture!Spec => []Picture!AvatarPreserved
<1>1. PictureInv => Picture!AvatarPreserved
  BY DEF PictureInv
<1> QED
  BY <1>1, PictureInvariant, PTL
=============================================================================
