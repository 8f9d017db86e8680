------------------------- MODULE PublicationProofs -------------------------
(* Proofs about Publication, for any keys, bodies, groups and uploads. *)
EXTENDS Publication, TLAPS

USE NoneAssumption, TargetsAssumption, BoundsAssumption

-----------------------------------------------------------------------------
(* The inductive invariant. *)

\* What an upload holds and has left to do, by the step it is at.
UploadOK(r) ==
  /\ pub[r].pc = "idle" => pub[r] = Idle
  /\ pub[r].pc # "idle" => pub[r].id \in Ids /\ pub[r].body \in Bodies /\ pub[r].token \in 1..MaxAttempts
  /\ pub[r].pc \in {"reserving", "resolving"} => pub[r].locked \subseteq RequestKeys(r)
  /\ pub[r].pc \in {"putting", "creating", "compensating"} => AllLocked(r) /\ pub[r].todo \subseteq RequestKeys(r)
  /\ pub[r].pc = "announcing" => pub[r].locked = {}
LocksHeld == \A r \in Requests : UploadOK(r)

\* An advisory lock has one holder.
LocksExclusive ==
  \A r \in Requests : \A k \in pub[r].locked : cleaner # k /\ \A q \in Requests \ {r} : k \notin pub[q].locked

\* Nobody has published under the key of an upload that writes objects, or deletes
\* them, and the keys of deleted posts are not used again.
Unpublished(i) == posts[i] = None /\ \A k \in photos : k.id # i
WritesUnpublished ==
  /\ \A r \in Requests : /\ pub[r].pc \in {"putting", "creating", "compensating"} => Unpublished(pub[r].id)
                         /\ pub[r].id \notin deleted
  /\ \A k \in photos : posts[k.id] # None \/ k.id \in deleted
  /\ \A i \in Ids : posts[i] # None => PhotoKeys(i, posts[i].body) \subseteq photos

\* What has been put is in the store until the commit.
PutsStored ==
  \A r \in Requests :
    /\ pub[r].pc = "putting" => RequestKeys(r) \ pub[r].todo \subseteq objects
    /\ pub[r].pc = "creating" => RequestKeys(r) \subseteq objects

\* An upload will publish the object, delete it or have it deleted.
Answers(r, k) ==
  \/ pub[r].pc = "putting" /\ k \in RequestKeys(r) \ pub[r].todo
  \/ pub[r].pc \in {"creating", "resolving"} /\ k \in RequestKeys(r)
  \/ pub[r].pc = "compensating" /\ k \in pub[r].todo
EveryObjectTracked ==
  \A k \in objects : Referenced(k) \/ k \in doomed \cup untracked \/ \E r \in Requests : Answers(r, k)

Inv ==
  /\ TypeOK
  /\ LocksHeld
  /\ LocksExclusive
  /\ WritesUnpublished
  /\ PutsStored
  /\ PublishedObjectsKept
  /\ EveryObjectTracked

-----------------------------------------------------------------------------
(* Storage keys. *)

\* The keys of an upload are its post's and its groups', and are those of no other id.
LEMMA KeyFacts ==
  ASSUME NEW i \in Ids, NEW b \in Bodies
  PROVE  /\ PostKey(i) \in UploadKeys(i, b) /\ UploadKeys(i, b) = PhotoKeys(i, b) \cup {PostKey(i)}
         /\ UploadKeys(i, b) \subseteq Key
         /\ \A k \in UploadKeys(i, b) : k.id = i
         /\ \A k \in PhotoKeys(i, b), j \in Ids : k # PostKey(j)
         /\ \A j \in Ids : PostKey(j) = PostKey(i) => j = i
<1>1. Targets[b] \subseteq Groups
  OBVIOUS
<1>2. \A g \in Groups : g # None
  OBVIOUS
<1> QED
  BY <1>1, <1>2 DEF UploadKeys, PhotoKeys, PostKey, Key

-----------------------------------------------------------------------------
(* How the uploads move. *)

\* An upload goes on with something to do, it is answered, or it begins; the others stay.
At(r, pc, todo, locked) ==
  /\ pub' \in [Requests -> Upload]
  /\ pub'[r].pc = pc /\ pub'[r].todo = todo /\ pub'[r].locked = locked
  /\ pub'[r].id = pub[r].id /\ pub'[r].body = pub[r].body /\ pub'[r].token = pub[r].token
  /\ \A q \in Requests \ {r} : pub'[q] = pub[q]
Ended(r) ==
  /\ pub' \in [Requests -> Upload]
  /\ pub'[r] = Idle
  /\ \A q \in Requests \ {r} : pub'[q] = pub[q]
Begun(r, i, b) ==
  /\ pub' \in [Requests -> Upload]
  /\ pub'[r].pc = "reserving" /\ pub'[r].todo = {} /\ pub'[r].locked = {}
  /\ pub'[r].id = i /\ pub'[r].body = b /\ pub'[r].token \in 1..MaxAttempts
  /\ \A q \in Requests \ {r} : pub'[q] = pub[q]

LEMMA IdleUpload == Idle \in Upload
BY DEF Idle, Upload, Steps

LEMMA GotoMoves ==
  ASSUME TypeOK, NEW r \in Requests, NEW pc \in Steps, NEW todo \in SUBSET Key
  PROVE  /\ Goto(r, pc, todo) => At(r, pc, todo, pub[r].locked)
         /\ Unlocked(r, pc, todo) => At(r, pc, todo, {})
         /\ Answer(r) => Ended(r)
<1> DEFINE c == [pub[r] EXCEPT !.pc = pc, !.todo = todo]
           d == [pub[r] EXCEPT !.pc = pc, !.todo = todo, !.locked = {}]
<1>0. pub \in [Requests -> Upload] /\ pub[r] \in Upload
  BY DEF TypeOK
<1>1. c \in Upload /\ c.pc = pc /\ c.todo = todo /\ c.locked = pub[r].locked
      /\ c.id = pub[r].id /\ c.body = pub[r].body /\ c.token = pub[r].token
  BY <1>0 DEF Upload
<1>2. d \in Upload /\ d.pc = pc /\ d.todo = todo /\ d.locked = {}
      /\ d.id = pub[r].id /\ d.body = pub[r].body /\ d.token = pub[r].token
  BY <1>0 DEF Upload
<1>3. Goto(r, pc, todo) => pub' = [pub EXCEPT ![r] = c]
  BY <1>0 DEF Goto
<1>4. Unlocked(r, pc, todo) => pub' = [pub EXCEPT ![r] = d]
  BY <1>0 DEF Unlocked
<1> HIDE DEF c, d
<1>5. Goto(r, pc, todo) => At(r, pc, todo, pub[r].locked)
  BY <1>0, <1>1, <1>3 DEF At
<1>6. Unlocked(r, pc, todo) => At(r, pc, todo, {})
  BY <1>0, <1>2, <1>4 DEF At
<1>7. Answer(r) => Ended(r)
  BY <1>0, IdleUpload DEF Answer, Ended
<1> QED
  BY <1>5, <1>6, <1>7

\* Every step of an upload, as a move.
LEMMA Moves ==
  ASSUME TypeOK, LocksHeld, NEW r \in Requests
  PROVE  /\ \A i \in Ids, b \in Bodies : Upload_(r, i, b) => Begun(r, i, b)
         /\ \A k \in Key : Lock(r, k) => At(r, pub[r].pc, pub[r].todo, pub[r].locked \cup {k})
         /\ Reserve(r) => Ended(r) \/ (posts[pub[r].id] = None /\ At(r, "putting", RequestKeys(r), pub[r].locked))
         /\ \A k \in Key : Put(r, k) =>
              At(r, IF pub[r].todo = {k} THEN "creating" ELSE "putting", pub[r].todo \ {k}, pub[r].locked)
         /\ \A k \in Key, b \in BOOLEAN : PutFails(r, k, b) => At(r, "compensating", Tried(r, k), pub[r].locked)
         /\ Create(r) => At(r, "announcing", PhotoKeys(pub[r].id, pub[r].body), {})
         /\ CreateFails(r) => At(r, "compensating", RequestKeys(r), pub[r].locked)
         /\ \A b \in BOOLEAN : CommitUncertain(r, b) => At(r, "resolving", {}, {})
         /\ Resolve(r) => \/ posts[pub[r].id] = None /\ At(r, "compensating", RequestKeys(r), pub[r].locked)
                          \/ OwnRow(r) /\ At(r, "announcing", PhotoKeys(pub[r].id, pub[r].body), {})
                          \/ Ended(r)
         /\ \A k \in Key, b \in BOOLEAN : Compensate(r, k) \/ CompensateFails(r, k, b) =>
              IF pub[r].todo = {k} THEN Ended(r) ELSE At(r, "compensating", pub[r].todo \ {k}, pub[r].locked)
         /\ \A k \in Key : Broadcast(r, k) => At(r, "announcing", pub[r].todo \ {k}, pub[r].locked)
         /\ ReserveFails(r) \/ Respond(r) \/ (\E b \in BOOLEAN : ResolveFails(r, b)) => Ended(r)
<1>0. pub \in [Requests -> Upload] /\ pub[r] \in Upload /\ pub[r].todo \in SUBSET Key /\ pub[r].pc \in Steps
  BY DEF TypeOK, Upload
<1>1. pub[r].pc # "idle" => /\ RequestKeys(r) \in SUBSET Key /\ PhotoKeys(pub[r].id, pub[r].body) \in SUBSET Key
                            /\ \A k \in Key : Tried(r, k) \in SUBSET Key
  BY KeyFacts DEF LocksHeld, UploadOK, RequestKeys, Tried
<1>2. {"putting", "creating", "compensating", "resolving", "announcing"} \subseteq Steps
  BY DEF Steps
<1>3. ASSUME NEW i \in Ids, NEW b \in Bodies, Upload_(r, i, b) PROVE Begun(r, i, b)
  <2> DEFINE c == [pc |-> "reserving", id |-> i, body |-> b, token |-> attempts + 1, locked |-> {}, todo |-> {}]
  <2>1. attempts + 1 \in 1..MaxAttempts /\ attempts + 1 \in 0..MaxAttempts
    BY <1>3 DEF Upload_, TypeOK
  <2>2. c \in Upload /\ c.pc = "reserving" /\ c.todo = {} /\ c.locked = {} /\ c.id = i /\ c.body = b /\ c.token = attempts + 1
    BY <2>1 DEF Upload, Steps
  <2>3. pub' = [pub EXCEPT ![r] = c]
    BY <1>3 DEF Upload_
  <2> HIDE DEF c
  <2> QED
    BY <1>0, <2>1, <2>2, <2>3 DEF Begun
<1>4. ASSUME NEW k \in Key, Lock(r, k) PROVE At(r, pub[r].pc, pub[r].todo, pub[r].locked \cup {k})
  <2> DEFINE c == [pub[r] EXCEPT !.locked = @ \cup {k}]
  <2>1. c \in Upload /\ c.pc = pub[r].pc /\ c.todo = pub[r].todo /\ c.locked = pub[r].locked \cup {k}
        /\ c.id = pub[r].id /\ c.body = pub[r].body /\ c.token = pub[r].token
    BY <1>0 DEF Upload
  <2>2. pub' = [pub EXCEPT ![r] = c]
    BY <1>0, <1>4 DEF Lock
  <2> HIDE DEF c
  <2> QED
    BY <1>0, <2>1, <2>2 DEF At
<1>5. ASSUME Reserve(r)
      PROVE  Ended(r) \/ (posts[pub[r].id] = None /\ At(r, "putting", RequestKeys(r), pub[r].locked))
  BY <1>1, <1>2, <1>5, GotoMoves DEF Reserve
<1>6. ASSUME NEW k \in Key, Put(r, k)
      PROVE  At(r, IF pub[r].todo = {k} THEN "creating" ELSE "putting", pub[r].todo \ {k}, pub[r].locked)
  <2> DEFINE pc == IF pub[r].todo = {k} THEN "creating" ELSE "putting"
             c == [pub[r] EXCEPT !.todo = @ \ {k}, !.pc = pc]
  <2>1. c \in Upload /\ c.pc = pc /\ c.todo = pub[r].todo \ {k} /\ c.locked = pub[r].locked
        /\ c.id = pub[r].id /\ c.body = pub[r].body /\ c.token = pub[r].token
    BY <1>0, <1>2 DEF Upload
  <2>2. pub' = [pub EXCEPT ![r] = c]
    BY <1>0, <1>6 DEF Put, Upload
  <2> HIDE DEF c, pc
  <2>3. At(r, pc, pub[r].todo \ {k}, pub[r].locked)
    BY <1>0, <2>1, <2>2 DEF At
  <2> QED
    BY <2>3 DEF pc
<1>7. ASSUME NEW k \in Key, NEW b \in BOOLEAN, PutFails(r, k, b) PROVE At(r, "compensating", Tried(r, k), pub[r].locked)
  BY <1>1, <1>2, <1>7, GotoMoves DEF PutFails
<1>8. ASSUME Create(r) PROVE At(r, "announcing", PhotoKeys(pub[r].id, pub[r].body), {})
  BY <1>1, <1>2, <1>8, GotoMoves DEF Create
<1>9. ASSUME CreateFails(r) PROVE At(r, "compensating", RequestKeys(r), pub[r].locked)
  BY <1>1, <1>2, <1>9, GotoMoves DEF CreateFails
<1>10. ASSUME NEW b \in BOOLEAN, CommitUncertain(r, b) PROVE At(r, "resolving", {}, {})
  BY <1>2, <1>10, GotoMoves DEF CommitUncertain
<1>11. ASSUME Resolve(r)
       PROVE  \/ posts[pub[r].id] = None /\ At(r, "compensating", RequestKeys(r), pub[r].locked)
              \/ OwnRow(r) /\ At(r, "announcing", PhotoKeys(pub[r].id, pub[r].body), {})
              \/ Ended(r)
  BY <1>1, <1>2, <1>11, GotoMoves DEF Resolve
<1>12. ASSUME NEW k \in Key, NEW b \in BOOLEAN, Compensate(r, k) \/ CompensateFails(r, k, b)
       PROVE  IF pub[r].todo = {k} THEN Ended(r) ELSE At(r, "compensating", pub[r].todo \ {k}, pub[r].locked)
  <2>1. AfterCompensation(r, k) /\ pub[r].pc = "compensating"
    BY <1>12 DEF Compensate, CompensateFails
  <2>2. CASE pub[r].todo = {k}
    BY <1>0, <2>1, <2>2, IdleUpload DEF AfterCompensation, Ended
  <2>3. CASE pub[r].todo # {k}
    <3> DEFINE c == [pub[r] EXCEPT !.todo = @ \ {k}]
    <3>1. c \in Upload /\ c.pc = pub[r].pc /\ c.todo = pub[r].todo \ {k} /\ c.locked = pub[r].locked
          /\ c.id = pub[r].id /\ c.body = pub[r].body /\ c.token = pub[r].token
      BY <1>0 DEF Upload
    <3>2. pub' = [pub EXCEPT ![r] = c]
      BY <2>1, <2>3 DEF AfterCompensation
    <3> HIDE DEF c
    <3> QED
      BY <1>0, <2>1, <2>3, <3>1, <3>2 DEF At
  <2> QED
    BY <2>2, <2>3
<1>13. ASSUME NEW k \in Key, Broadcast(r, k) PROVE At(r, "announcing", pub[r].todo \ {k}, pub[r].locked)
  BY <1>0, <1>2, <1>13, GotoMoves DEF Broadcast
<1>14. ASSUME ReserveFails(r) \/ Respond(r) \/ \E b \in BOOLEAN : ResolveFails(r, b) PROVE Ended(r)
  BY <1>0, <1>14, GotoMoves DEF ReserveFails, Respond, ResolveFails
<1> QED
  BY <1>3, <1>4, <1>5, <1>6, <1>7, <1>8, <1>9, <1>10, <1>11, <1>12, <1>13, <1>14
-----------------------------------------------------------------------------
(* Types. *)

\* What an upload that is under way has to do with.
LEMMA UnderWay ==
  ASSUME TypeOK, LocksHeld, NEW r \in Requests, pub[r].pc # "idle"
  PROVE  /\ pub[r].id \in Ids /\ pub[r].body \in Bodies /\ pub[r].token \in 1..MaxAttempts
         /\ RequestKeys(r) = UploadKeys(pub[r].id, pub[r].body) /\ RequestKeys(r) \subseteq Key
         /\ PhotoKeys(pub[r].id, pub[r].body) \subseteq RequestKeys(r) /\ PostKey(pub[r].id) \in RequestKeys(r)
BY KeyFacts DEF LocksHeld, UploadOK, RequestKeys

LEMMA InsertedTyped ==
  ASSUME TypeOK, LocksHeld, NEW r \in Requests, pub[r].pc # "idle", Inserted(r)
  PROVE  posts' \in [Ids -> {None} \cup Row] /\ photos' \subseteq Key /\ announced' \in [Key -> Nat]
<1>1. [body |-> pub[r].body, token |-> pub[r].token] \in Row
  BY UnderWay DEF Row
<1>2. posts' \in [Ids -> {None} \cup Row]
  BY <1>1, UnderWay DEF Inserted, TypeOK
<1>3. photos' \subseteq Key
  BY UnderWay DEF Inserted, TypeOK
<1>4. \A k \in Key : (IF k \in PhotoKeys(pub[r].id, pub[r].body) THEN 0 ELSE announced[k]) \in Nat
  BY DEF TypeOK
<1>5. announced' \in [Key -> Nat]
  BY <1>4, Zenon DEF Inserted
<1> QED
  BY <1>2, <1>3, <1>5

LEMMA StepTyped ==
  ASSUME TypeOK, LocksHeld, [Next]_vars
  PROVE  TypeOK'
<1> DEFINE Rest == /\ posts' \in [Ids -> {None} \cup Row] /\ photos' \subseteq Key /\ objects' \subseteq Key
                   /\ doomed' \subseteq Key /\ cleaner' \in Key \cup {None} /\ faults' \in 0..MaxFaults
                   /\ attempts' \in 0..MaxAttempts /\ deleted' \subseteq Ids
                   /\ announced' \in [Key -> Nat] /\ untracked' \subseteq Key
<1>0. faults \in Nat /\ attempts \in Nat /\ MaxFaults \in Nat /\ MaxAttempts \in Nat
  BY DEF TypeOK
<1>1. ASSUME NEW kind, Fault(kind) PROVE faults' \in 0..MaxFaults
  BY <1>1 DEF Fault, TypeOK
<1>2. ASSUME NEW r \in Requests, Step(r) PROVE pub' \in [Requests -> Upload] /\ Rest
  <2>0. Ended(r) \/ \E pc, todo, locked : At(r, pc, todo, locked)
    BY <1>2, Moves DEF Step
  <2>1. pub' \in [Requests -> Upload]
    BY <2>0 DEF At, Ended
  <2>2. ASSUME Reserve(r) \/ Respond(r) \/ \E k \in Key : Lock(r, k) PROVE Rest
    BY <2>2 DEF Reserve, Respond, Lock, TypeOK, history
  <2>3. ASSUME ReserveFails(r) \/ CreateFails(r) PROVE Rest
    BY <1>1, <2>3 DEF ReserveFails, CreateFails, TypeOK, history
  <2>4. ASSUME Create(r) PROVE Rest
    BY <2>4, InsertedTyped DEF Create, TypeOK
  <2>5. ASSUME NEW b \in BOOLEAN, CommitUncertain(r, b) PROVE Rest
    <3>1. posts' \in [Ids -> {None} \cup Row] /\ photos' \subseteq Key /\ announced' \in [Key -> Nat]
      BY <2>5, InsertedTyped DEF CommitUncertain, TypeOK
    <3> QED
      BY <1>1, <2>5, <3>1 DEF CommitUncertain, TypeOK
  <2>6. ASSUME Resolve(r) PROVE Rest
    <3>1. untracked' \subseteq Key
      BY <2>6, UnderWay DEF Resolve, TypeOK
    <3> QED
      BY <2>6, <3>1 DEF Resolve, TypeOK
  <2>7. ASSUME NEW b \in BOOLEAN, ResolveFails(r, b) PROVE Rest
    <3>1. untracked' \subseteq Key /\ doomed' \subseteq Key
      BY <2>7, UnderWay DEF ResolveFails, TypeOK
    <3> QED
      BY <1>1, <2>7, <3>1 DEF ResolveFails, TypeOK
  <2>8. ASSUME NEW k \in Key, Put(r, k) \/ Compensate(r, k) PROVE Rest
    BY <2>8 DEF Put, Compensate, TypeOK, history
  <2>9. ASSUME NEW k \in Key, NEW b \in BOOLEAN, PutFails(r, k, b) \/ CompensateFails(r, k, b) PROVE Rest
    BY <1>1, <2>9 DEF PutFails, CompensateFails, TypeOK, history
  <2>10. ASSUME NEW k \in Key, Broadcast(r, k) PROVE Rest
    BY <2>10 DEF Broadcast, TypeOK
  <2> QED
    BY <1>2, <2>1, <2>2, <2>3, <2>4, <2>5, <2>6, <2>7, <2>8, <2>9, <2>10 DEF Step
<1>3. ASSUME NEW r \in Requests, NEW i \in Ids, NEW b \in Bodies, Upload_(r, i, b)
      PROVE  pub' \in [Requests -> Upload] /\ Rest
  <2>1. pub' \in [Requests -> Upload]
    BY <1>3, Moves DEF Begun
  <2> QED
    BY <1>3, <2>1 DEF Upload_, TypeOK, history
<1>4. CASE Worker
  <2>1. pub' = pub
    BY <1>4 DEF Worker, Claim, DeleteObjectIfUnreferenced, DeletionFails
  <2>2. Rest
    BY <1>1, <1>4 DEF Worker, Claim, DeleteObjectIfUnreferenced, Completed, DeletionFails, TypeOK, history
  <2> QED
    BY <2>1, <2>2 DEF TypeOK
<1>5. CASE Crash
  <2>1. pub' \in [Requests -> Upload]
    BY <1>5, IdleUpload DEF Crash
  <2>2. \A r \in Requests : pub[r].pc \in {"putting", "creating", "resolving", "compensating"} => RequestKeys(r) \subseteq Key
    BY UnderWay
  <2>3. untracked' \subseteq Key
    BY <1>5, <2>2 DEF Crash, TypeOK
  <2> QED
    BY <1>1, <1>5, <2>1, <2>3 DEF Crash, TypeOK
<1>6. ASSUME NEW i \in Ids, Delete(i) PROVE TypeOK'
  <2>1. PostKey(i) \in Key
    BY DEF PostKey, Key
  <2> QED
    BY <1>6, <2>1 DEF Delete, TypeOK
<1>7. CASE UNCHANGED vars
  BY <1>7 DEF vars, TypeOK
<1> QED
  BY <1>2, <1>3, <1>4, <1>5, <1>6, <1>7 DEF Next, TypeOK

-----------------------------------------------------------------------------
(* Locks. *)

LEMMA SameUpload ==
  ASSUME NEW r \in Requests, UploadOK(r), pub'[r] = pub[r]
  PROVE  UploadOK(r)' /\ RequestKeys(r)' = RequestKeys(r)
BY DEF UploadOK, AllLocked, RequestKeys

LEMMA StepLocksHeld ==
  ASSUME TypeOK, LocksHeld, [Next]_vars
  PROVE  LocksHeld'
<1>0. \A r \in Requests : UploadOK(r)
  BY DEF LocksHeld
\* The upload that moves.
<1>1. ASSUME NEW r \in Requests, Ended(r) PROVE LocksHeld'
  <2>1. UploadOK(r)'
    BY <1>1 DEF Ended, Idle, UploadOK
  <2> QED
    BY <1>0, <1>1, <2>1, SameUpload DEF Ended, LocksHeld
<1>2. ASSUME NEW r \in Requests, NEW pc \in Steps \ {"idle"}, NEW todo, NEW locked, At(r, pc, todo, locked),
             pub[r].pc # "idle",
             pc \in {"reserving", "resolving"} => locked \subseteq RequestKeys(r),
             pc \in {"putting", "creating", "compensating"} => locked = RequestKeys(r) /\ todo \subseteq RequestKeys(r),
             pc = "announcing" => locked = {}
      PROVE  LocksHeld'
  <2>1. RequestKeys(r)' = RequestKeys(r)
    BY <1>2 DEF At, RequestKeys
  <2>2. UploadOK(r)'
    BY <1>2, <2>1, UnderWay DEF At, UploadOK, AllLocked
  <2> QED
    BY <1>0, <1>2, <2>2, SameUpload DEF At, LocksHeld
<1>3. ASSUME NEW r \in Requests, Step(r) PROVE LocksHeld'
  <2>0. {"putting", "creating", "resolving", "compensating", "announcing"} \subseteq Steps \ {"idle"} /\ UploadOK(r) /\ pub[r].pc \in Steps
    BY DEF Steps, LocksHeld, TypeOK, Upload
  <2>1. ASSUME NEW k \in Key, Lock(r, k) PROVE LocksHeld'
    <3>1. At(r, pub[r].pc, pub[r].todo, pub[r].locked \cup {k}) /\ pub[r].pc \in {"reserving", "resolving"}
      BY <2>1, Moves DEF Lock
    <3>2. k \in RequestKeys(r) /\ pub[r].locked \subseteq RequestKeys(r)
      BY <2>0, <2>1, <3>1 DEF Lock, NextLock, UploadOK
    <3> QED
      BY <1>2, <2>0, <3>1, <3>2
  <2>2. CASE Reserve(r)
    <3>1. AllLocked(r) /\ pub[r].pc = "reserving"
      BY <2>2 DEF Reserve
    <3> QED
      BY <1>1, <1>2, <2>0, <2>2, <3>1, Moves DEF AllLocked
  <2>3. ASSUME NEW k \in Key, Put(r, k) PROVE LocksHeld'
    <3>1. AllLocked(r) /\ pub[r].pc = "putting" /\ pub[r].todo \subseteq RequestKeys(r)
      BY <2>0, <2>3 DEF Put, UploadOK
    <3>2. At(r, IF pub[r].todo = {k} THEN "creating" ELSE "putting", pub[r].todo \ {k}, pub[r].locked)
      BY <2>3, Moves
    <3> QED
      BY <1>2, <2>0, <3>1, <3>2 DEF AllLocked
  <2>4. ASSUME NEW k \in Key, NEW b \in BOOLEAN, PutFails(r, k, b) PROVE LocksHeld'
    <3>1. AllLocked(r) /\ pub[r].pc = "putting" /\ pub[r].todo \subseteq RequestKeys(r)
      BY <2>0, <2>4 DEF PutFails, UploadOK
    <3>2. Tried(r, k) \subseteq RequestKeys(r)
      BY <2>4, <3>1 DEF PutFails, NextPut, Tried
    <3> QED
      BY <1>2, <2>0, <2>4, <3>1, <3>2, Moves DEF AllLocked
  <2>5. CASE Create(r)
    BY <1>2, <2>0, <2>5, Moves DEF Create
  <2>6. CASE CreateFails(r)
    <3>1. AllLocked(r) /\ pub[r].pc = "creating"
      BY <2>0, <2>6 DEF CreateFails, UploadOK
    <3> QED
      BY <1>2, <2>0, <2>6, <3>1, Moves DEF AllLocked
  <2>7. ASSUME NEW b \in BOOLEAN, CommitUncertain(r, b) PROVE LocksHeld'
    BY <1>2, <2>0, <2>7, Moves DEF CommitUncertain
  <2>8. CASE Resolve(r)
    <3>1. AllLocked(r) /\ pub[r].pc = "resolving"
      BY <2>8 DEF Resolve
    <3> QED
      BY <1>1, <1>2, <2>0, <2>8, <3>1, Moves DEF AllLocked
  <2>9. ASSUME NEW k \in Key, NEW b \in BOOLEAN, Compensate(r, k) \/ CompensateFails(r, k, b) PROVE LocksHeld'
    <3>1. AllLocked(r) /\ pub[r].pc = "compensating" /\ pub[r].todo \subseteq RequestKeys(r)
      BY <2>0, <2>9 DEF Compensate, CompensateFails, UploadOK
    <3>2. IF pub[r].todo = {k} THEN Ended(r) ELSE At(r, "compensating", pub[r].todo \ {k}, pub[r].locked)
      BY <2>9, Moves
    <3> QED
      BY <1>1, <1>2, <2>0, <3>1, <3>2 DEF AllLocked
  <2>10. ASSUME NEW k \in Key, Broadcast(r, k) PROVE LocksHeld'
    <3>1. pub[r].pc = "announcing" /\ pub[r].locked = {}
      BY <2>0, <2>10 DEF Broadcast, UploadOK
    <3>2. At(r, "announcing", pub[r].todo \ {k}, pub[r].locked)
      BY <2>10, Moves
    <3> QED
      BY <1>2, <2>0, <3>1, <3>2
  <2>11. CASE ReserveFails(r) \/ Respond(r) \/ \E b \in BOOLEAN : ResolveFails(r, b)
    BY <1>1, <2>11, Moves
  <2> QED
    BY <1>3, <2>1, <2>2, <2>3, <2>4, <2>5, <2>6, <2>7, <2>8, <2>9, <2>10, <2>11 DEF Step
<1>4. ASSUME NEW r \in Requests, NEW i \in Ids, NEW b \in Bodies, Upload_(r, i, b) PROVE LocksHeld'
  <2>1. UploadOK(r)'
    BY <1>4, Moves DEF Begun, UploadOK
  <2> QED
    BY <1>0, <1>4, <2>1, SameUpload, Moves DEF Begun, LocksHeld
<1>5. CASE Worker \/ (\E i \in Ids : Delete(i)) \/ UNCHANGED vars
  <2>1. pub' = pub
    BY <1>5 DEF Worker, Claim, DeleteObjectIfUnreferenced, DeletionFails, Delete, vars
  <2> QED
    BY <1>0, <2>1, SameUpload DEF LocksHeld
<1>6. CASE Crash
  BY <1>6 DEF Crash, LocksHeld, UploadOK, Idle
<1> QED
  BY <1>3, <1>4, <1>5, <1>6 DEF Next

LEMMA StepLocksExclusive ==
  ASSUME TypeOK, LocksHeld, LocksExclusive, [Next]_vars
  PROVE  LocksExclusive'
<1>0. None \notin Key /\ \A r \in Requests : pub[r].locked \subseteq Key
  BY DEF TypeOK, Upload
\* Steps that take no lock.
<1>1. ASSUME \A r \in Requests : pub'[r].locked \subseteq pub[r].locked, cleaner' \in {cleaner, None}
      PROVE  LocksExclusive'
  BY <1>0, <1>1 DEF LocksExclusive
<1>2. ASSUME NEW r \in Requests, Ended(r) \/ \E pc, todo : At(r, pc, todo, {}) \/ At(r, pc, todo, pub[r].locked),
             cleaner' = cleaner
      PROVE  LocksExclusive'
  BY <1>1, <1>2 DEF Ended, At, Idle
<1>3. ASSUME NEW r \in Requests, NEW k \in Key, Lock(r, k) PROVE LocksExclusive'
  <2>1. /\ pub'[r].locked = pub[r].locked \cup {k} /\ \A q \in Requests \ {r} : pub'[q].locked = pub[q].locked
        /\ cleaner' = cleaner /\ cleaner # k /\ \A q \in Requests : k \notin pub[q].locked
    <3>1. cleaner' = cleaner /\ cleaner # k /\ \A q \in Requests : k \notin pub[q].locked
      BY <1>3 DEF Lock, Held
    <3>2. pub'[r].locked = pub[r].locked \cup {k} /\ \A q \in Requests \ {r} : pub'[q].locked = pub[q].locked
      <4>1. pub' = [pub EXCEPT ![r].locked = @ \cup {k}]
        BY <1>3 DEF Lock
      <4>2. pub \in [Requests -> Upload] /\ pub[r] \in Upload
        BY DEF TypeOK
      <4> QED
        BY ONLY <4>1, <4>2, r \in Requests DEF Upload
    <3> QED
      BY <3>1, <3>2
  <2> QED
    BY <2>1 DEF LocksExclusive
<1>4. ASSUME NEW r \in Requests, Step(r), \A k \in Key : ~Lock(r, k) PROVE LocksExclusive'
  <2>1. cleaner' = cleaner
    BY <1>4 DEF Step, Reserve, ReserveFails, Create, CreateFails, Resolve, Respond, CommitUncertain, ResolveFails,
                Put, Compensate, Broadcast, PutFails, CompensateFails
  <2>2. Ended(r) \/ \E pc, todo : At(r, pc, todo, {}) \/ At(r, pc, todo, pub[r].locked)
    BY <1>4, Moves DEF Step
  <2> QED
    BY <1>2, <2>1, <2>2
<1>5. ASSUME NEW r \in Requests, NEW i \in Ids, NEW b \in Bodies, Upload_(r, i, b) PROVE LocksExclusive'
  BY <1>1, <1>5, Moves DEF Upload_, Begun
<1>6. ASSUME NEW k \in Key, Claim(k) PROVE LocksExclusive'
  BY <1>6 DEF Claim, Held, LocksExclusive
<1>7. CASE DeleteObjectIfUnreferenced \/ DeletionFails \/ (\E i \in Ids : Delete(i)) \/ UNCHANGED vars
  BY <1>1, <1>7 DEF DeleteObjectIfUnreferenced, DeletionFails, Delete, vars
<1>8. CASE Crash
  BY <1>1, <1>8 DEF Crash, Idle
<1> QED
  BY <1>3, <1>4, <1>5, <1>6, <1>7, <1>8 DEF Next, Worker
\* Two uploads that hold all their locks have different publication keys, and no storage key in common.
LEMMA Exclusion ==
  ASSUME TypeOK, LocksHeld, LocksExclusive, NEW r \in Requests, NEW q \in Requests \ {r},
         pub[r].pc # "idle", pub[q].pc # "idle", AllLocked(r), AllLocked(q)
  PROVE  pub[r].id # pub[q].id /\ RequestKeys(r) \cap RequestKeys(q) = {}
<1>1. RequestKeys(r) \cap RequestKeys(q) = {}
  BY DEF LocksExclusive, AllLocked
<1>2. PostKey(pub[r].id) \in RequestKeys(r) /\ PostKey(pub[q].id) \in RequestKeys(q)
  BY UnderWay
<1> QED
  BY <1>1, <1>2

Writing == {"putting", "creating", "compensating"}

LEMMA WritersLocked ==
  ASSUME TypeOK, LocksHeld, NEW r \in Requests, pub[r].pc \in Writing
  PROVE  AllLocked(r) /\ pub[r].pc # "idle" /\ pub[r].todo \subseteq RequestKeys(r)
BY DEF LocksHeld, UploadOK, Writing

-----------------------------------------------------------------------------
(* What is published. *)

\* What Create and an uncertain commit make visible.
LEMMA Insertion ==
  ASSUME TypeOK, LocksHeld, NEW r \in Requests, pub[r].pc # "idle", Inserted(r)
  PROVE  /\ posts'[pub[r].id] # None /\ posts'[pub[r].id].body = pub[r].body
         /\ \A i \in Ids \ {pub[r].id} : posts'[i] = posts[i]
         /\ photos' = photos \cup PhotoKeys(pub[r].id, pub[r].body)
         /\ \A k \in PhotoKeys(pub[r].id, pub[r].body) : k.id = pub[r].id
<1>0. posts \in [Ids -> {None} \cup Row] /\ pub[r].id \in Ids /\ pub[r].body \in Bodies
  BY UnderWay DEF TypeOK
<1>1. [body |-> pub[r].body, token |-> pub[r].token] \in Row
  BY UnderWay DEF Row
<1> QED
  BY <1>0, <1>1, KeyFacts DEF Inserted

LEMMA StepWritesUnpublished ==
  ASSUME ~Replay, TypeOK, LocksHeld, LocksExclusive, WritesUnpublished, [Next]_vars
  PROVE  WritesUnpublished'
<1>0. /\ \A r \in Requests : /\ pub[r].pc \in Writing => Unpublished(pub[r].id)
                             /\ pub[r].id \notin deleted
      /\ \A k \in photos : k \in Key /\ k.id \in Ids /\ (posts[k.id] # None \/ k.id \in deleted)
      /\ \A i \in Ids : posts[i] # None => PhotoKeys(i, posts[i].body) \subseteq photos
      /\ None \notin deleted
  BY DEF WritesUnpublished, TypeOK, Key, Writing
\* Steps that publish nothing and delete no post.
<1>1. ASSUME UNCHANGED <<posts, photos, deleted>>,
             \A r \in Requests : /\ pub'[r].pc \in Writing => Unpublished(pub'[r].id)
                                 /\ pub'[r].id \notin deleted
      PROVE  WritesUnpublished'
  BY <1>0, <1>1 DEF WritesUnpublished, Unpublished, Writing
<1>2. ASSUME NEW r \in Requests, NEW pc, NEW todo, NEW locked, At(r, pc, todo, locked),
             UNCHANGED <<posts, photos, deleted>>,
             pc \in Writing => Unpublished(pub[r].id)
      PROVE  WritesUnpublished'
  BY <1>0, <1>1, <1>2 DEF At
<1>3. ASSUME NEW r \in Requests, Ended(r), UNCHANGED <<posts, photos, deleted>>
      PROVE  WritesUnpublished'
  BY <1>0, <1>1, <1>3 DEF Ended, Idle, Writing
\* A reservation and a resolution that find no row.
<1>4. ASSUME NEW r \in Requests, pub[r].pc # "idle", posts[pub[r].id] = None PROVE Unpublished(pub[r].id)
  BY <1>0, <1>4 DEF Unpublished
\* A commit.
<1>5. ASSUME NEW r \in Requests, pub[r].pc = "creating", Inserted(r), UNCHANGED deleted,
             NEW pc \in {"announcing", "resolving"}, NEW todo, At(r, pc, todo, {})
      PROVE  WritesUnpublished'
  <2>0. AllLocked(r) /\ pub[r].id \in Ids
    BY <1>5, WritersLocked, UnderWay DEF Writing
  <2>1. ASSUME NEW q \in Requests, pub'[q].pc \in Writing
        PROVE  posts'[pub'[q].id] = None /\ \A k \in photos' : k.id # pub'[q].id
    <3>1. q # r /\ pub'[q] = pub[q]
      BY <1>5, <2>1 DEF At, Writing
    <3>2. pub[q].id # pub[r].id /\ pub[q].id \in Ids /\ Unpublished(pub[q].id)
      BY <1>0, <1>5, <2>0, <2>1, <3>1, WritersLocked, Exclusion, UnderWay
    <3> QED
      BY <1>5, <3>1, <3>2, Insertion DEF Unpublished
  <2>2. \A q \in Requests : pub'[q].id \notin deleted'
    BY <1>0, <1>5 DEF At
  <2>3. \A k \in photos' : posts'[k.id] # None \/ k.id \in deleted'
    BY <1>0, <1>5, Insertion
  <2>4. \A i \in Ids : posts'[i] # None => PhotoKeys(i, posts'[i].body) \subseteq photos'
    BY <1>0, <1>5, Insertion
  <2> QED
    BY <2>1, <2>2, <2>3, <2>4 DEF WritesUnpublished, Unpublished, Writing
<1>6. ASSUME NEW r \in Requests, Step(r) PROVE WritesUnpublished'
  <2>1. ASSUME NEW k \in Key, Lock(r, k) PROVE WritesUnpublished'
    <3>1. At(r, pub[r].pc, pub[r].todo, pub[r].locked \cup {k})
      BY <2>1, Moves
    <3>2. UNCHANGED <<posts, photos, deleted>> /\ pub[r].pc \notin Writing
      BY <2>1 DEF Lock, history, Writing
    <3> QED
      BY <1>2, <3>1, <3>2
  <2>2. ASSUME NEW k \in Key, Put(r, k) PROVE WritesUnpublished'
    <3>1. At(r, IF pub[r].todo = {k} THEN "creating" ELSE "putting", pub[r].todo \ {k}, pub[r].locked)
      BY <2>2, Moves
    <3>2. UNCHANGED <<posts, photos, deleted>> /\ pub[r].pc \in Writing
      BY <2>2 DEF Put, history, Writing
    <3> QED
      BY <1>0, <1>2, <3>1, <3>2
  <2>3. ASSUME NEW k \in Key, NEW b \in BOOLEAN, PutFails(r, k, b) PROVE WritesUnpublished'
    BY <1>0, <1>2, <2>3, Moves DEF PutFails, history, Writing
  <2>4. ASSUME NEW k \in Key, Broadcast(r, k) PROVE WritesUnpublished'
    <3>1. At(r, "announcing", pub[r].todo \ {k}, pub[r].locked)
      BY <2>4, Moves
    <3>2. UNCHANGED <<posts, photos, deleted>> /\ "announcing" \notin Writing
      BY <2>4 DEF Broadcast, Writing
    <3> QED
      BY <1>2, <3>1, <3>2
  <2>5. ASSUME NEW k \in Key, NEW b \in BOOLEAN, Compensate(r, k) \/ CompensateFails(r, k, b) PROVE WritesUnpublished'
    <3>1. UNCHANGED <<posts, photos, deleted>> /\ pub[r].pc \in Writing
      BY <2>5 DEF Compensate, CompensateFails, history, Writing
    <3>2. Ended(r) \/ At(r, "compensating", pub[r].todo \ {k}, pub[r].locked)
      BY <2>5, Moves
    <3> QED
      BY <1>0, <1>2, <1>3, <3>1, <3>2
  <2>6. CASE CreateFails(r)
    BY <1>0, <1>2, <2>6, Moves DEF CreateFails, history, Writing
  <2>7. CASE Create(r)
    BY <1>5, <2>7, Moves DEF Create
  <2>8. ASSUME NEW b \in BOOLEAN, CommitUncertain(r, b) PROVE WritesUnpublished'
    BY <1>2, <1>5, <2>8, Moves DEF CommitUncertain, Writing
  <2>9. CASE Reserve(r)
    BY <1>2, <1>3, <1>4, <2>9, Moves DEF Reserve, history
  <2>10. CASE Resolve(r)
    <3>1. UNCHANGED <<posts, photos, deleted>> /\ pub[r].pc # "idle"
      BY <2>10 DEF Resolve
    <3> QED
      BY <1>2, <1>3, <1>4, <2>10, <3>1, Moves DEF Writing
  <2>11. CASE ReserveFails(r) \/ Respond(r) \/ \E b \in BOOLEAN : ResolveFails(r, b)
    <3>1. UNCHANGED <<posts, photos, deleted>>
      BY <2>11 DEF ReserveFails, Respond, ResolveFails, history
    <3> QED
      BY <1>3, <2>11, <3>1, Moves
  <2> QED
    BY <1>6, <2>1, <2>2, <2>3, <2>4, <2>5, <2>6, <2>7, <2>8, <2>9, <2>10, <2>11 DEF Step
<1>7. ASSUME NEW r \in Requests, NEW i \in Ids, NEW b \in Bodies, Upload_(r, i, b) PROVE WritesUnpublished'
  <2>1. UNCHANGED <<posts, photos, deleted>> /\ i \notin deleted
    BY <1>7 DEF Upload_, history
  <2> QED
    BY <1>0, <1>1, <1>7, <2>1, Moves DEF Begun, Writing
<1>8. CASE Worker \/ UNCHANGED vars
  <2>1. UNCHANGED <<pub, posts, photos, deleted>>
    BY <1>8 DEF Worker, Claim, DeleteObjectIfUnreferenced, DeletionFails, vars, history
  <2> QED
    BY <1>0, <1>1, <2>1
<1>9. CASE Crash
  BY <1>0, <1>1, <1>9 DEF Crash, Idle, Writing
\* No upload of its key is under way.
<1>10. ASSUME NEW i \in Ids, Delete(i) PROVE WritesUnpublished'
  <2>1. /\ posts' = [posts EXCEPT ![i] = None] /\ posts \in [Ids -> {None} \cup Row]
        /\ deleted' = deleted \cup {i} /\ UNCHANGED <<photos, pub>>
        /\ \A r \in Requests : pub[r].id # i
    BY <1>10 DEF Delete, TypeOK
  <2>2. \A r \in Requests : pub[r].pc \in Writing => pub[r].id \in Ids
    BY UnderWay, WritersLocked
  <2> QED
    BY <1>0, <2>1, <2>2 DEF WritesUnpublished, Unpublished, Writing
<1> QED
  BY <1>6, <1>7, <1>8, <1>9, <1>10 DEF Next
-----------------------------------------------------------------------------
(* What is in the store. *)

\* What is under an unpublished key is not referred to.
LEMMA UnpublishedUnreferenced ==
  ASSUME TypeOK, LocksHeld, WritesUnpublished, NEW r \in Requests, pub[r].pc \in Writing, NEW k \in RequestKeys(r)
  PROVE  ~Referenced(k)
<1>1. Unpublished(pub[r].id) /\ k.id = pub[r].id
  BY WritersLocked, UnderWay, KeyFacts DEF WritesUnpublished, Writing
<1> QED
  BY <1>1 DEF Unpublished, Referenced

\* Whoever deletes an object holds the lock of its key, and nobody else has put it.
LEMMA DeletionApart ==
  ASSUME TypeOK, LocksHeld, LocksExclusive, NEW k, NEW q \in Requests, pub[q].pc \in Writing,
         \/ cleaner = k
         \/ \E r \in Requests \ {q} : pub[r].pc \in Writing /\ k \in RequestKeys(r)
  PROVE  k \notin RequestKeys(q)
<1>1. AllLocked(q) /\ pub[q].pc # "idle"
  BY WritersLocked
<1>2. CASE cleaner = k
  BY <1>1, <1>2 DEF AllLocked, LocksExclusive
<1>3. ASSUME NEW r \in Requests \ {q}, pub[r].pc \in Writing, k \in RequestKeys(r) PROVE k \notin RequestKeys(q)
  BY <1>1, <1>3, WritersLocked, Exclusion
<1> QED
  BY <1>2, <1>3

LEMMA StepPutsStored ==
  ASSUME TypeOK, LocksHeld, LocksExclusive, PutsStored, [Next]_vars
  PROVE  PutsStored'
<1>0. \A r \in Requests : /\ pub[r].pc = "putting" => RequestKeys(r) \ pub[r].todo \subseteq objects
                          /\ pub[r].pc = "creating" => RequestKeys(r) \subseteq objects
  BY DEF PutsStored
\* An upload goes elsewhere, and no object goes.
<1>1. ASSUME NEW r \in Requests, objects \subseteq objects',
             Ended(r) \/ \E pc \in Steps \ {"putting", "creating"} : \E todo, locked : At(r, pc, todo, locked)
      PROVE  PutsStored'
  BY <1>0, <1>1 DEF Ended, At, Idle, PutsStored, RequestKeys
\* No upload moves, and what goes is no upload's.
<1>2. ASSUME pub' = pub, \A q \in Requests : pub[q].pc \in Writing => RequestKeys(q) \cap objects \subseteq objects'
      PROVE  PutsStored'
  BY <1>0, <1>2 DEF PutsStored, RequestKeys, Writing
<1>3. ASSUME NEW r \in Requests, Step(r) PROVE PutsStored'
  <2>0. {"resolving", "compensating", "announcing"} \subseteq Steps \ {"putting", "creating"} /\ pub[r].pc \in Steps
    BY DEF Steps, TypeOK, Upload
  <2>1. ASSUME NEW k \in Key, Lock(r, k) PROVE PutsStored'
    <3>1. At(r, pub[r].pc, pub[r].todo, pub[r].locked \cup {k})
      BY <2>1, Moves
    <3>2. objects' = objects /\ pub[r].pc \notin {"putting", "creating"}
      BY <2>1 DEF Lock
    <3> QED
      BY <1>1, <2>0, <3>1, <3>2
  <2>2. CASE Reserve(r)
    <3>1. CASE Ended(r)
      BY <1>1, <2>2, <3>1 DEF Reserve
    <3>2. CASE At(r, "putting", RequestKeys(r), pub[r].locked)
      BY <1>0, <2>2, <3>2 DEF Reserve, At, PutsStored, RequestKeys
    <3> QED
      BY <2>2, <3>1, <3>2, Moves
  <2>3. ASSUME NEW k \in Key, Put(r, k) PROVE PutsStored'
    <3>1. At(r, IF pub[r].todo = {k} THEN "creating" ELSE "putting", pub[r].todo \ {k}, pub[r].locked)
      BY <2>3, Moves
    <3>2. objects' = objects \cup {k} /\ pub[r].pc = "putting" /\ k \in pub[r].todo
      BY <2>3 DEF Put, NextPut
    <3>3. RequestKeys(r) \ (pub[r].todo \ {k}) \subseteq objects'
      BY <1>0, <3>2
    <3>4. RequestKeys(r)' = RequestKeys(r) /\ \A q \in Requests \ {r} : RequestKeys(q)' = RequestKeys(q) /\ pub'[q] = pub[q]
      BY <3>1 DEF At, RequestKeys
    <3>5. /\ pub'[r].todo = pub[r].todo \ {k}
          /\ pub'[r].pc = "creating" => pub[r].todo = {k}
      BY <3>1 DEF At
    <3> QED
      BY <1>0, <3>2, <3>3, <3>4, <3>5 DEF PutsStored
  <2>4. ASSUME NEW k \in Key, NEW b \in BOOLEAN, PutFails(r, k, b) PROVE PutsStored'
    BY <1>1, <2>0, <2>4, Moves DEF PutFails
  <2>5. CASE Create(r) \/ CreateFails(r)
    BY <1>1, <2>0, <2>5, Moves DEF Create, CreateFails
  <2>6. ASSUME NEW b \in BOOLEAN, CommitUncertain(r, b) PROVE PutsStored'
    BY <1>1, <2>0, <2>6, Moves DEF CommitUncertain
  <2>7. CASE Resolve(r)
    <3>1. objects' = objects
      BY <2>7 DEF Resolve
    <3> QED
      BY <1>1, <2>0, <2>7, <3>1, Moves
  <2>8. ASSUME NEW k \in Key, NEW b \in BOOLEAN, CompensateFails(r, k, b) PROVE PutsStored'
    <3>1. objects' = objects
      BY <2>8 DEF CompensateFails
    <3>2. Ended(r) \/ At(r, "compensating", pub[r].todo \ {k}, pub[r].locked)
      BY <2>8, Moves
    <3> QED
      BY <1>1, <2>0, <3>1, <3>2
  \* The other uploads' keys are not the one that is deleted.
  <2>9. ASSUME NEW k \in Key, Compensate(r, k) PROVE PutsStored'
    <3>1. objects' = objects \ {k} /\ pub[r].pc = "compensating" /\ k \in pub[r].todo
      BY <2>9 DEF Compensate
    <3>2. Ended(r) \/ At(r, "compensating", pub[r].todo \ {k}, pub[r].locked)
      BY <2>9, Moves
    <3>3. k \in RequestKeys(r) /\ pub[r].pc \in Writing
      BY <3>1, WritersLocked DEF Writing
    <3>4. ASSUME NEW q \in Requests, pub'[q].pc \in {"putting", "creating"}
          PROVE  q # r /\ pub'[q] = pub[q] /\ RequestKeys(q)' = RequestKeys(q) /\ k \notin RequestKeys(q)
      <4>1. q # r /\ pub'[q] = pub[q]
        BY <3>2, <3>4 DEF Ended, At, Idle
      <4>2. k \notin RequestKeys(q)
        BY <3>3, <3>4, <4>1, DeletionApart DEF Writing
      <4> QED
        BY <4>1, <4>2 DEF RequestKeys
    <3> QED
      BY <1>0, <3>1, <3>4 DEF PutsStored
  <2>10. ASSUME NEW k \in Key, Broadcast(r, k) PROVE PutsStored'
    <3>1. At(r, "announcing", pub[r].todo \ {k}, pub[r].locked) /\ objects' = objects
      BY <2>10, Moves DEF Broadcast
    <3> QED
      BY <1>1, <2>0, <3>1
  <2>11. CASE ReserveFails(r) \/ Respond(r) \/ \E b \in BOOLEAN : ResolveFails(r, b)
    <3>1. objects' = objects
      BY <2>11 DEF ReserveFails, Respond, ResolveFails
    <3> QED
      BY <1>1, <2>11, <3>1, Moves
  <2> QED
    BY <1>3, <2>1, <2>2, <2>3, <2>4, <2>5, <2>6, <2>7, <2>8, <2>9, <2>10, <2>11 DEF Step
<1>4. ASSUME NEW r \in Requests, NEW i \in Ids, NEW b \in Bodies, Upload_(r, i, b) PROVE PutsStored'
  BY <1>0, <1>4, Moves DEF Upload_, Begun, PutsStored, RequestKeys
<1>5. CASE DeleteObjectIfUnreferenced
  <2>1. pub' = pub /\ objects' \in {objects, objects \ {cleaner}}
    BY <1>5 DEF DeleteObjectIfUnreferenced
  <2> QED
    BY <1>2, <2>1, DeletionApart
<1>6. CASE DeletionFails \/ (\E k \in Key : Claim(k)) \/ (\E i \in Ids : Delete(i)) \/ UNCHANGED vars
  BY <1>2, <1>6 DEF DeletionFails, Claim, Delete, vars
<1>7. CASE Crash
  BY <1>7 DEF Crash, Idle, PutsStored
<1> QED
  BY <1>3, <1>4, <1>5, <1>6, <1>7 DEF Next, Worker

LEMMA StepObjectsKept ==
  ASSUME TypeOK, LocksHeld, LocksExclusive, WritesUnpublished, PutsStored, PublishedObjectsKept, [Next]_vars
  PROVE  PublishedObjectsKept'
<1> SUFFICES ASSUME NEW k \in Key, Referenced(k)' PROVE k \in objects'
  BY DEF PublishedObjectsKept
\* What was referred to before.
<1>1. ASSUME Referenced(k), objects \subseteq objects' PROVE k \in objects'
  BY <1>1 DEF PublishedObjectsKept
<1>2. ASSUME UNCHANGED <<posts, photos>> PROVE Referenced(k)
  BY <1>2 DEF Referenced
<1>3. ASSUME NEW r \in Requests, Inserted(r), pub[r].pc = "creating", objects' = objects PROVE k \in objects'
  <2>1. RequestKeys(r) \subseteq objects /\ PhotoKeys(pub[r].id, pub[r].body) \subseteq RequestKeys(r)
        /\ PostKey(pub[r].id) \in RequestKeys(r)
    BY <1>3, UnderWay DEF PutsStored
  <2>2. k \in RequestKeys(r) \/ Referenced(k)
    BY <1>3, <2>1, Insertion DEF Referenced, Key
  <2> QED
    BY <1>1, <1>3, <2>1, <2>2
<1>4. ASSUME NEW r \in Requests, Create(r) \/ \E b \in BOOLEAN : CommitUncertain(r, b) PROVE k \in objects'
  BY <1>1, <1>2, <1>3, <1>4 DEF Create, CommitUncertain
\* A compensation deletes what is not published.
<1>5. ASSUME NEW r \in Requests, NEW j \in Key, Compensate(r, j) PROVE k \in objects'
  <2>1. UNCHANGED <<posts, photos>> /\ objects' = objects \ {j}
    BY <1>5 DEF Compensate
  <2>2. pub[r].pc \in Writing /\ j \in RequestKeys(r)
    BY <1>5, WritersLocked DEF Compensate, Writing
  <2>3. k # j
    BY <1>2, <2>1, <2>2, UnpublishedUnreferenced
  <2> QED
    BY <1>2, <2>1, <2>3 DEF PublishedObjectsKept
<1>6. CASE DeleteObjectIfUnreferenced
  <2>1. /\ UNCHANGED <<posts, photos>>
        /\ objects' = IF ~Referenced(cleaner) THEN objects \ {cleaner} ELSE objects
    BY <1>6 DEF DeleteObjectIfUnreferenced, Deletable
  <2> QED
    BY <1>2, <2>1 DEF PublishedObjectsKept
<1>7. ASSUME NEW i \in Ids, Delete(i) PROVE k \in objects'
  <2>1. posts' = [posts EXCEPT ![i] = None] /\ photos' = photos /\ objects' = objects
    BY <1>7 DEF Delete
  <2>2. Referenced(k)
    BY <2>1 DEF Referenced, TypeOK, Key
  <2> QED
    BY <1>1, <2>1, <2>2
<1>8. ASSUME NEW r \in Requests, NEW j \in Key, Lock(r, j) \/ Put(r, j) \/ Broadcast(r, j) PROVE k \in objects'
  BY <1>1, <1>2, <1>8 DEF Lock, Put, Broadcast
<1>9. ASSUME NEW r \in Requests, NEW j \in Key, NEW b \in BOOLEAN, PutFails(r, j, b) \/ CompensateFails(r, j, b)
      PROVE  k \in objects'
  BY <1>1, <1>2, <1>9 DEF PutFails, CompensateFails
<1>10. ASSUME NEW r \in Requests,
              \/ Reserve(r) \/ ReserveFails(r) \/ CreateFails(r) \/ Resolve(r) \/ Respond(r)
              \/ (\E b \in BOOLEAN : ResolveFails(r, b)) \/ (\E i \in Ids, b \in Bodies : Upload_(r, i, b))
       PROVE  k \in objects'
  BY <1>1, <1>2, <1>10 DEF Reserve, ReserveFails, CreateFails, Resolve, Respond, ResolveFails, Upload_
<1>11. CASE DeletionFails \/ (\E j \in Key : Claim(j)) \/ Crash \/ UNCHANGED vars
  BY <1>1, <1>2, <1>11 DEF DeletionFails, Claim, Crash, vars
<1> QED
  BY <1>4, <1>5, <1>6, <1>7, <1>8, <1>9, <1>10, <1>11 DEF Next, Step, Worker
-----------------------------------------------------------------------------
(* Who answers for an object. *)

\* The rows of an upload's own publication refer to all its keys.
LEMMA OwnReferenced ==
  ASSUME TypeOK, LocksHeld, WritesUnpublished, NEW r \in Requests, pub[r].pc # "idle",
         posts[pub[r].id] # None, posts[pub[r].id].body = pub[r].body, NEW k \in RequestKeys(r)
  PROVE  Referenced(k)
<1>1. PhotoKeys(pub[r].id, pub[r].body) \subseteq photos
  BY UnderWay DEF WritesUnpublished
<1>2. k \in PhotoKeys(pub[r].id, pub[r].body) \/ k = PostKey(pub[r].id)
  BY UnderWay DEF UploadKeys
<1>3. PostKey(pub[r].id).id = pub[r].id
  BY DEF PostKey
<1> QED
  BY <1>1, <1>2, <1>3 DEF Referenced

LEMMA StepTracked ==
  ASSUME TypeOK, LocksHeld, WritesUnpublished, EveryObjectTracked, [Next]_vars
  PROVE  EveryObjectTracked'
<1> DEFINE Tracked(k) == Referenced(k) \/ k \in doomed \cup untracked \/ \E r \in Requests : Answers(r, k)
<1>0. \A k \in objects : Tracked(k)
  BY DEF EveryObjectTracked
\* An upload that stays where it is answers for what it answered for.
<1>1. ASSUME NEW q \in Requests, pub'[q] = pub[q], NEW k, Answers(q, k) PROVE Answers(q, k)'
  BY <1>1 DEF Answers, RequestKeys
\* The upload r moves: what it answered for, it answers for still, or it is done with it.
<1>2. ASSUME NEW r \in Requests, \A q \in Requests \ {r} : pub'[q] = pub[q],
             doomed \subseteq doomed', untracked \subseteq untracked',
             NEW k \in objects, Referenced(k) => Referenced(k)',
             Answers(r, k) => Answers(r, k)' \/ Referenced(k)' \/ k \in doomed' \cup untracked'
      PROVE  Tracked(k)'
  <2>1. CASE Referenced(k) \/ k \in doomed \cup untracked
    BY <1>2, <2>1
  <2>2. ASSUME NEW q \in Requests, Answers(q, k) PROVE Tracked(k)'
    <3>1. CASE q = r
      BY <1>2, <2>2, <3>1
    <3>2. CASE q # r
      BY <1>1, <1>2, <2>2, <3>2
    <3> QED
      BY <3>1, <3>2
  <2> QED
    BY <1>0, <1>2, <2>1, <2>2
<1>3. ASSUME UNCHANGED <<posts, photos>>, NEW k PROVE Referenced(k) <=> Referenced(k)'
  BY <1>3 DEF Referenced
\* Steps that answer for what they did before, and put nothing.
<1>4. ASSUME NEW r \in Requests, \A q \in Requests \ {r} : pub'[q] = pub[q], UNCHANGED <<posts, photos>>,
             objects' \subseteq objects, doomed \subseteq doomed', untracked \subseteq untracked',
             \A k \in objects' : Answers(r, k) => Answers(r, k)' \/ Referenced(k) \/ k \in doomed' \cup untracked'
      PROVE  EveryObjectTracked'
  <2>1. ASSUME NEW k \in objects' PROVE Tracked(k)'
    <3>1. k \in objects /\ (Referenced(k) <=> Referenced(k)')
      BY <1>3, <1>4, <2>1
    <3> QED
      BY <1>2, <1>4, <2>1, <3>1
  <2> QED
    BY <2>1 DEF EveryObjectTracked
<1>5. ASSUME NEW r \in Requests, Step(r) PROVE EveryObjectTracked'
  <2>0. UploadOK(r)
    BY DEF LocksHeld
  <2>1. ASSUME NEW k \in Key, Lock(r, k) PROVE EveryObjectTracked'
    <3>1. At(r, pub[r].pc, pub[r].todo, pub[r].locked \cup {k})
      BY <2>1, Moves
    <3>2. UNCHANGED <<posts, photos, objects, doomed, untracked>>
      BY <2>1 DEF Lock, history
    <3>3. \A j : Answers(r, j) => Answers(r, j)'
      BY <3>1 DEF At, Answers, RequestKeys
    <3> QED
      BY <1>4, <3>1, <3>2, <3>3 DEF At
  <2>2. ASSUME NEW k \in Key, Put(r, k) PROVE EveryObjectTracked'
    <3>1. At(r, IF pub[r].todo = {k} THEN "creating" ELSE "putting", pub[r].todo \ {k}, pub[r].locked)
      BY <2>2, Moves
    <3>2. UNCHANGED <<posts, photos, doomed, untracked>> /\ objects' = objects \cup {k}
          /\ pub[r].pc = "putting" /\ k \in pub[r].todo /\ k \in RequestKeys(r)
      BY <2>0, <2>2 DEF Put, NextPut, UploadOK, history
    <3>3. RequestKeys(r)' = RequestKeys(r)
      BY <3>1 DEF At, RequestKeys
    <3>4. \A j : Answers(r, j) \/ j = k => Answers(r, j)'
      BY <3>1, <3>2, <3>3 DEF At, Answers
    <3>5. ASSUME NEW j \in objects' PROVE Tracked(j)'
      <4>1. CASE j = k
        BY <3>4, <4>1
      <4>2. CASE j # k
        <5>1. j \in objects /\ (Referenced(j) <=> Referenced(j)')
          BY <1>3, <3>2, <3>5, <4>2
        <5> QED
          BY <1>2, <3>1, <3>2, <3>4, <5>1 DEF At
      <4> QED
        BY <4>1, <4>2
    <3> QED
      BY <3>5 DEF EveryObjectTracked
  <2>3. ASSUME NEW k \in Key, NEW b \in BOOLEAN, PutFails(r, k, b) PROVE EveryObjectTracked'
    <3>1. At(r, "compensating", Tried(r, k), pub[r].locked)
      BY <2>3, Moves
    <3>2. UNCHANGED <<posts, photos, doomed, untracked>> /\ objects' \subseteq objects \cup {k} /\ pub[r].pc = "putting"
      BY <2>3 DEF PutFails, history
    <3>3. \A j : Answers(r, j) \/ j = k => Answers(r, j)'
      BY <3>1, <3>2 DEF At, Answers, Tried
    <3>4. ASSUME NEW j \in objects' PROVE Tracked(j)'
      <4>1. CASE j = k
        BY <3>3, <4>1
      <4>2. CASE j # k
        <5>1. j \in objects /\ (Referenced(j) <=> Referenced(j)')
          BY <1>3, <3>2, <3>4, <4>2
        <5> QED
          BY <1>2, <3>1, <3>2, <3>3, <5>1 DEF At
      <4> QED
        BY <4>1, <4>2
    <3> QED
      BY <3>4 DEF EveryObjectTracked
  <2>4. ASSUME NEW k \in Key, NEW b \in BOOLEAN, Compensate(r, k) \/ CompensateFails(r, k, b) PROVE EveryObjectTracked'
    <3>1. IF pub[r].todo = {k} THEN Ended(r) ELSE At(r, "compensating", pub[r].todo \ {k}, pub[r].locked)
      BY <2>4, Moves
    <3>2. /\ UNCHANGED <<posts, photos>> /\ objects' \subseteq objects /\ doomed \subseteq doomed'
          /\ untracked \subseteq untracked' /\ pub[r].pc = "compensating"
          /\ k \notin objects' \/ k \in doomed' \cup untracked'
      BY <2>4 DEF Compensate, CompensateFails, history
    <3>3. ASSUME NEW j \in objects', Answers(r, j) PROVE Answers(r, j)' \/ j \in doomed' \cup untracked'
      <4>1. j \in pub[r].todo
        BY <3>2, <3>3 DEF Answers
      <4>2. CASE j = k
        BY <3>2, <3>3, <4>2
      <4>3. CASE j # k
        <5>1. At(r, "compensating", pub[r].todo \ {k}, pub[r].locked)
          BY <3>1, <4>1, <4>3
        <5> QED
          BY <4>1, <4>3, <5>1 DEF At, Answers
      <4> QED
        BY <4>2, <4>3
    <3>4. \A q \in Requests \ {r} : pub'[q] = pub[q]
      BY <3>1 DEF Ended, At
    <3> QED
      BY <1>4, <3>2, <3>3, <3>4
  <2>5. CASE Create(r) \/ \E b \in BOOLEAN : CommitUncertain(r, b) /\ posts' # posts
    <3>1. /\ Inserted(r) /\ pub[r].pc = "creating" /\ UNCHANGED <<objects, doomed, untracked>>
      BY <2>5 DEF Create, CommitUncertain
    <3>2. \A q \in Requests \ {r} : pub'[q] = pub[q]
      BY <2>5, Moves DEF At
    <3>3. /\ pub[r].id \in Ids /\ RequestKeys(r) = PhotoKeys(pub[r].id, pub[r].body) \cup {PostKey(pub[r].id)}
          /\ PostKey(pub[r].id).id = pub[r].id
      BY <3>1, UnderWay DEF UploadKeys, PostKey
    <3>4. ASSUME NEW k \in objects PROVE Referenced(k) \/ k \in RequestKeys(r) => Referenced(k)'
      <4>1. k \in Key /\ k.id \in Ids
        BY DEF TypeOK, Key
      <4> QED
        BY <3>1, <3>3, <4>1, Insertion DEF Referenced
    <3>5. \A k : Answers(r, k) => k \in RequestKeys(r)
      BY <3>1 DEF Answers
    <3>6. \A k \in objects : Tracked(k)'
      BY <1>2, <3>1, <3>2, <3>4, <3>5
    <3> QED
      BY <3>1, <3>6 DEF EveryObjectTracked
  <2>6. ASSUME NEW b \in BOOLEAN, CommitUncertain(r, b), posts' = posts PROVE EveryObjectTracked'
    <3>1. At(r, "resolving", {}, {}) /\ pub[r].pc = "creating" /\ UNCHANGED <<objects, doomed, untracked>>
      BY <2>6, Moves DEF CommitUncertain
    <3>2. \A k : Answers(r, k) => Answers(r, k)'
      BY <3>1 DEF At, Answers, RequestKeys
    <3>3. photos \subseteq photos'
      BY <2>6 DEF CommitUncertain, Inserted
    <3>4. \A k \in objects : Referenced(k) => Referenced(k)'
      BY <2>6, <3>3 DEF Referenced
    <3>5. \A k \in objects : Tracked(k)'
      BY <1>2, <3>1, <3>2, <3>4 DEF At
    <3> QED
      BY <3>1, <3>5 DEF EveryObjectTracked
  <2>7. CASE CreateFails(r)
    <3>1. At(r, "compensating", RequestKeys(r), pub[r].locked) /\ pub[r].pc = "creating"
          /\ UNCHANGED <<posts, photos, objects, doomed, untracked>>
      BY <2>7, Moves DEF CreateFails, history
    <3>2. \A k : Answers(r, k) => Answers(r, k)'
      BY <3>1 DEF At, Answers
    <3> QED
      BY <1>4, <3>1, <3>2 DEF At
  <2>8. CASE Resolve(r)
    <3>1. /\ UNCHANGED <<posts, photos, objects, doomed>> /\ pub[r].pc = "resolving" /\ untracked \subseteq untracked'
      BY <2>8 DEF Resolve
    <3>2. CASE posts[pub[r].id] = None
      <4>1. At(r, "compensating", RequestKeys(r), pub[r].locked)
        BY <2>8, <3>1, <3>2, GotoMoves, UnderWay DEF Resolve, Steps
      <4>2. \A k : Answers(r, k) => Answers(r, k)'
        BY <3>1, <4>1 DEF At, Answers
      <4> QED
        BY <1>4, <3>1, <4>1, <4>2 DEF At
    <3>3. CASE posts[pub[r].id] # None
      <4>1. \A q \in Requests \ {r} : pub'[q] = pub[q]
        BY <2>8, Moves DEF At, Ended
      <4>2. posts[pub[r].id].body = pub[r].body \/ RequestKeys(r) \subseteq untracked'
        BY <2>8, <3>3 DEF Resolve, OwnRow
      <4>3. \A k : Answers(r, k) => k \in RequestKeys(r)
        BY <3>1 DEF Answers
      <4>4. \A k : Answers(r, k) => Referenced(k) \/ k \in untracked'
        BY <3>1, <3>3, <4>2, <4>3, OwnReferenced
      <4> QED
        BY <1>4, <3>1, <4>1, <4>4
    <3> QED
      BY <3>2, <3>3
  <2>9. ASSUME NEW b \in BOOLEAN, ResolveFails(r, b) PROVE EveryObjectTracked'
    <3>1. /\ UNCHANGED <<posts, photos, objects>> /\ pub[r].pc = "resolving" /\ doomed \subseteq doomed'
          /\ untracked \subseteq untracked' /\ RequestKeys(r) \subseteq doomed' \cup untracked'
      BY <2>9 DEF ResolveFails
    <3>2. Ended(r)
      BY <2>9, Moves
    <3> QED
      BY <1>4, <3>1, <3>2 DEF Ended, Answers
  <2>10. ASSUME NEW k \in Key, Broadcast(r, k) PROVE EveryObjectTracked'
    <3>1. At(r, "announcing", pub[r].todo \ {k}, pub[r].locked)
      BY <2>10, Moves
    <3>2. UNCHANGED <<posts, photos, objects, doomed, untracked>> /\ pub[r].pc = "announcing"
      BY <2>10 DEF Broadcast
    <3> QED
      BY <1>4, <3>1, <3>2 DEF At, Answers
  <2>11. CASE Reserve(r) \/ ReserveFails(r) \/ Respond(r)
    <3>1. UNCHANGED <<posts, photos, objects, doomed, untracked>> /\ pub[r].pc \in {"reserving", "announcing"}
      BY <2>11 DEF Reserve, ReserveFails, Respond, history
    <3>2. \A q \in Requests \ {r} : pub'[q] = pub[q]
      BY <2>11, Moves DEF Ended, At
    <3> QED
      BY <1>4, <3>1, <3>2 DEF Answers
  <2> QED
    BY <1>5, <2>1, <2>2, <2>3, <2>4, <2>5, <2>6, <2>7, <2>8, <2>9, <2>10, <2>11 DEF Step
<1>6. ASSUME NEW r \in Requests, NEW i \in Ids, NEW b \in Bodies, Upload_(r, i, b) PROVE EveryObjectTracked'
  <2>1. UNCHANGED <<posts, photos, objects, doomed, untracked>> /\ pub[r].pc = "idle"
    BY <1>6 DEF Upload_, history
  <2>2. \A q \in Requests \ {r} : pub'[q] = pub[q]
    BY <1>6, Moves DEF Begun
  <2> QED
    BY <1>4, <2>1, <2>2 DEF Answers
\* The worker deletes the object of the job it completes, unless it is referred to.
<1>7. CASE DeleteObjectIfUnreferenced
  <2>1. /\ UNCHANGED <<posts, photos, pub, untracked>> /\ doomed' = doomed \ {cleaner}
        /\ objects' = IF ~Referenced(cleaner) THEN objects \ {cleaner} ELSE objects
    BY <1>7 DEF DeleteObjectIfUnreferenced, Deletable, Completed, history
  <2>2. ASSUME NEW k \in objects' PROVE Tracked(k)'
    <3>1. k \in objects /\ (Referenced(k) <=> Referenced(k)') /\ (k = cleaner => Referenced(k))
      BY <1>3, <2>1, <2>2
    <3>2. \A q \in Requests : Answers(q, k) => Answers(q, k)'
      BY <1>1, <2>1
    <3> QED
      BY <1>0, <2>1, <3>1, <3>2
  <2> QED
    BY <2>2 DEF EveryObjectTracked
<1>8. CASE DeletionFails \/ (\E k \in Key : Claim(k)) \/ UNCHANGED vars
  BY <1>8 DEF DeletionFails, Claim, vars, history, EveryObjectTracked, Referenced, Answers, RequestKeys
\* The post's own object is queued with the deletion of its row.
<1>9. ASSUME NEW i \in Ids, Delete(i) PROVE EveryObjectTracked'
  <2>1. /\ posts' = [posts EXCEPT ![i] = None] /\ UNCHANGED <<photos, objects, pub, untracked>>
        /\ doomed' = doomed \cup {PostKey(i)}
    BY <1>9 DEF Delete
  <2>2. ASSUME NEW k \in objects PROVE Tracked(k)'
    <3>1. Referenced(k) => Referenced(k)' \/ k \in doomed'
      BY <2>1 DEF Referenced, TypeOK, Key
    <3>2. \A q \in Requests : Answers(q, k) => Answers(q, k)'
      BY <1>1, <2>1
    <3> QED
      BY <1>0, <2>1, <3>1, <3>2
  <2> QED
    BY <2>1, <2>2 DEF EveryObjectTracked
<1>10. CASE Crash
  <2>1. /\ UNCHANGED <<posts, photos, objects, doomed>> /\ untracked \subseteq untracked'
        /\ \A r \in Requests : pub[r].pc \in {"putting", "creating", "resolving", "compensating"} =>
             RequestKeys(r) \subseteq untracked'
    BY <1>10 DEF Crash
  <2>2. ASSUME NEW r \in Requests, NEW k, Answers(r, k) PROVE k \in untracked'
    <3>1. k \in RequestKeys(r)
      BY <2>2, WritersLocked DEF Answers, Writing
    <3> QED
      BY <2>1, <2>2, <3>1 DEF Answers
  <2>3. ASSUME NEW k \in objects PROVE Tracked(k)'
    BY <1>0, <1>3, <2>1, <2>2
  <2> QED
    BY <2>1, <2>3 DEF EveryObjectTracked
<1> QED
  BY <1>5, <1>6, <1>7, <1>8, <1>9, <1>10 DEF Next, Worker

-----------------------------------------------------------------------------
(* The theorems. *)

\* The inductive invariant holds in every reachable state.
THEOREM InvHolds ==
  ASSUME ~Replay
  PROVE  Spec => []Inv
<1>1. ASSUME Init PROVE Inv
  <2>1. TypeOK
    BY <1>1, IdleUpload DEF Init, TypeOK
  <2>2. \A r \in Requests : pub[r] = Idle
    BY <1>1 DEF Init
  <2>3. LocksHeld /\ LocksExclusive /\ PutsStored
    BY <2>2 DEF Idle, LocksHeld, UploadOK, LocksExclusive, PutsStored
  <2>4. WritesUnpublished
    BY <1>1, <2>2 DEF Init, Idle, WritesUnpublished
  <2>5. EveryObjectTracked
    BY <1>1 DEF Init, EveryObjectTracked
  <2>6. PublishedObjectsKept
    BY <1>1 DEF Init, PublishedObjectsKept, Referenced, Key
  <2> QED
    BY <2>1, <2>3, <2>4, <2>5, <2>6 DEF Inv
<1>2. Inv /\ [Next]_vars => Inv'
  BY StepTyped, StepLocksHeld, StepLocksExclusive, StepWritesUnpublished, StepPutsStored, StepObjectsKept, StepTracked
  DEF Inv
<1> QED
  BY <1>1, <1>2, PTL DEF Spec

\* Whatever the uploads of one key, the compensations, the cleanup worker, uncertain
\* commits and crashes do, what is published has its object in the store.
THEOREM ObjectsKept ==
  ASSUME ~Replay
  PROVE  Spec => []PublishedObjectsKept
<1>1. Inv => PublishedObjectsKept
  BY DEF Inv
<1> QED
  BY <1>1, InvHolds, PTL

\* An object that nothing refers to is some upload's or some job's to remove, but for
\* those that a crash, a failed enqueue or a conflict lost.
THEOREM ObjectsTracked ==
  ASSUME ~Replay
  PROVE  Spec => []NothingLeftBehind
<1>1. Inv => NothingLeftBehind
  <2> SUFFICES ASSUME Inv, NEW k \in objects, NEW r \in Requests, Answers(r, k)
               PROVE  pub[r].pc \in {"putting", "creating", "resolving", "compensating"} /\ k \in RequestKeys(r)
    BY DEF Inv, EveryObjectTracked, NothingLeftBehind
  <2> QED
    BY WritersLocked DEF Inv, Answers, Writing
<1> QED
  BY <1>1, InvHolds, PTL

-----------------------------------------------------------------------------
(* Announcements, whatever authors delete. *)

\* An upload that is going to announce a group photo, or will find that it should.
Tells(r, k) ==
  \/ pub[r].pc = "announcing" /\ k \in pub[r].todo
  \/ pub[r].pc = "resolving" /\ OwnRow(r) /\ k \in PhotoKeys(pub[r].id, pub[r].body)

\* A token tells whose row it is: it has been given to one upload, and the row of an
\* upload that has not tried to commit does not exist.
TokensApart ==
  /\ \A r \in Requests : pub[r].pc # "idle" =>
       /\ pub[r].token <= attempts
       /\ \A q \in Requests \ {r} : pub[q].pc # "idle" => pub[q].token # pub[r].token
       /\ pub[r].pc \in {"reserving", "putting", "creating"} => ~OwnRow(r)
  /\ \A i \in Ids : posts[i] # None => posts[i].token <= attempts

\* What somebody is to announce exists, has not been announced, and is nobody else's.
OneTeller ==
  \A r \in Requests, k \in Key : Tells(r, k) =>
    k \in photos /\ announced[k] = 0 /\ \A q \in Requests \ {r} : ~Tells(q, k)

SilentBefore == \A k \in Key : k \notin photos => announced[k] = 0

NewsInv == TypeOK /\ LocksHeld /\ TokensApart /\ OneTeller /\ SilentBefore /\ AnnouncedOnce

\* Fewer tellers, and more photos.
LEMMA FewerTellers ==
  ASSUME NewsInv, \A r \in Requests, k \in Key : Tells(r, k)' => Tells(r, k),
         photos' = photos, announced' = announced
  PROVE  OneTeller' /\ SilentBefore' /\ AnnouncedOnce'
BY DEF NewsInv, OneTeller, SilentBefore, AnnouncedOnce

\* The uploads of tokens and their rows, when the rows stay and at most one upload moves.
LEMMA SameRows ==
  ASSUME NewsInv, NEW r \in Requests, UNCHANGED <<posts, photos, announced, attempts>>,
         \/ Ended(r)
         \/ \E pc \in Steps : \E todo, locked :
              /\ At(r, pc, todo, locked) /\ pub[r].pc # "idle"
              /\ pc \in {"reserving", "putting", "creating"} => pub[r].pc \in {"reserving", "putting", "creating"}
              /\ pc \in {"announcing", "resolving"} => \A k \in Key : Tells(r, k)' => Tells(r, k)
  PROVE  TokensApart' /\ OneTeller' /\ SilentBefore' /\ AnnouncedOnce'
<1>1. \A q \in Requests \ {r} : pub'[q] = pub[q]
  BY DEF Ended, At
<1>2. \A q \in Requests \ {r} : OwnRow(q)' = OwnRow(q) /\ \A k \in Key : Tells(q, k)' = Tells(q, k)
  BY <1>1 DEF OwnRow, Tells
<1>3. pub'[r].pc # "idle" => /\ pub[r].pc # "idle"
                             /\ pub'[r].token = pub[r].token /\ OwnRow(r)' = OwnRow(r)
                             /\ pub'[r].pc \in {"reserving", "putting", "creating"} =>
                                  pub[r].pc \in {"reserving", "putting", "creating"}
  BY DEF Ended, At, Idle, OwnRow
<1>4. TokensApart'
  BY <1>1, <1>2, <1>3 DEF NewsInv, TokensApart
<1>5. \A k \in Key : Tells(r, k)' => Tells(r, k)
  BY DEF Ended, At, Idle, Tells
<1> QED
  BY <1>2, <1>4, <1>5, FewerTellers

\* A commit that takes effect, whatever the answer.
LEMMA CommitNews ==
  ASSUME NewsInv, NEW r \in Requests, pub[r].pc = "creating", Insertable(r), Inserted(r),
         attempts' = attempts,
         \/ At(r, "announcing", PhotoKeys(pub[r].id, pub[r].body), {})
         \/ At(r, "resolving", {}, {})
  PROVE  TokensApart' /\ OneTeller' /\ SilentBefore' /\ AnnouncedOnce'
<1> DEFINE new == PhotoKeys(pub[r].id, pub[r].body)
<1>0. TypeOK /\ pub[r].id \in Ids /\ pub[r].token \in 1..MaxAttempts /\ new \subseteq Key
  BY UnderWay DEF NewsInv
<1>1. /\ \A q \in Requests \ {r} : pub'[q] = pub[q]
      /\ pub'[r].id = pub[r].id /\ pub'[r].body = pub[r].body /\ pub'[r].token = pub[r].token
      /\ pub'[r].pc \in {"announcing", "resolving"}
      /\ pub'[r].pc = "announcing" => pub'[r].todo = new
  BY DEF At
<1>2. /\ posts'[pub[r].id] = [body |-> pub[r].body, token |-> pub[r].token]
      /\ \A i \in Ids : i # pub[r].id => posts'[i] = posts[i]
  BY <1>0 DEF Inserted, TypeOK
<1>3. new \cap photos = {} /\ photos' = photos \cup new
      /\ \A k \in Key : announced'[k] = IF k \in new THEN 0 ELSE announced[k]
  BY DEF Insertable, Inserted
<1>4. ASSUME NEW q \in Requests \ {r}, pub[q].pc # "idle", OwnRow(q)' PROVE OwnRow(q)
  <2>1. pub[q].id \in Ids /\ pub[q].token # pub[r].token
    BY <1>4, UnderWay DEF NewsInv, TokensApart
  <2>2. posts'[pub[q].id] = [body |-> pub[q].body, token |-> pub[q].token]
    BY <1>1, <1>4 DEF OwnRow
  <2>3. pub[q].id # pub[r].id
    BY <1>2, <2>1, <2>2
  <2> QED
    BY <1>2, <2>1, <2>2, <2>3 DEF OwnRow
<1>5. ASSUME NEW q \in Requests \ {r}, NEW k \in Key, Tells(q, k)' PROVE Tells(q, k)
  BY <1>1, <1>4, <1>5 DEF Tells
<1>6. ASSUME NEW k \in Key, Tells(r, k)' PROVE k \in new
  BY <1>1, <1>6 DEF Tells
<1>7. TokensApart'
  <2>1. ASSUME NEW q \in Requests, pub'[q].pc # "idle"
        PROVE  /\ pub[q].pc # "idle" /\ pub'[q].token = pub[q].token
               /\ pub'[q].pc \in {"reserving", "putting", "creating"} => ~OwnRow(q)'
    <3>1. CASE q = r
      BY <1>1, <3>1
    <3>2. CASE q # r
      BY <1>1, <1>4, <2>1, <3>2 DEF NewsInv, TokensApart
    <3> QED
      BY <3>1, <3>2
  <2>2. ASSUME NEW i \in Ids, posts'[i] # None PROVE posts'[i].token <= attempts
    <3>1. CASE i = pub[r].id
      BY <1>2, <3>1 DEF NewsInv, TokensApart
    <3>2. CASE i # pub[r].id
      BY <1>2, <2>2, <3>2 DEF NewsInv, TokensApart
    <3> QED
      BY <3>1, <3>2
  <2> HIDE DEF new
  <2> QED
    BY <2>1, <2>2 DEF NewsInv, TokensApart
<1> HIDE DEF new
<1>8. OneTeller'
  <2> SUFFICES ASSUME NEW q \in Requests, NEW k \in Key, Tells(q, k)'
               PROVE  k \in photos' /\ announced'[k] = 0 /\ \A x \in Requests \ {q} : ~Tells(x, k)'
    BY DEF OneTeller
  <2>1. CASE q = r
    BY <1>3, <1>5, <1>6, <2>1 DEF NewsInv, OneTeller
  <2>2. CASE q # r
    BY <1>3, <1>5, <1>6, <2>2 DEF NewsInv, OneTeller
  <2> QED
    BY <2>1, <2>2
<1>9. SilentBefore' /\ AnnouncedOnce'
  BY <1>3 DEF NewsInv, SilentBefore, AnnouncedOnce
<1> QED
  BY <1>7, <1>8, <1>9

LEMMA BroadcastNews ==
  ASSUME NewsInv, NEW r \in Requests, NEW k \in Key, Broadcast(r, k)
  PROVE  TokensApart' /\ OneTeller' /\ SilentBefore' /\ AnnouncedOnce'
<1>1. At(r, "announcing", pub[r].todo \ {k}, pub[r].locked) /\ pub[r].pc = "announcing" /\ k \in pub[r].todo
  BY Moves DEF Broadcast, NewsInv
<1>2. UNCHANGED <<posts, photos, attempts>>
  BY DEF Broadcast
<1>3. announced'[k] = announced[k] + 1 /\ \A x \in Key \ {k} : announced'[x] = announced[x]
  BY DEF Broadcast, NewsInv, TypeOK
<1>4. /\ \A q \in Requests \ {r} : pub'[q] = pub[q]
      /\ pub'[r].token = pub[r].token /\ pub'[r].pc = "announcing" /\ pub'[r].todo = pub[r].todo \ {k}
  BY <1>1 DEF At
<1>5. \A q \in Requests \ {r} : OwnRow(q)' = OwnRow(q) /\ \A x \in Key : Tells(q, x)' = Tells(q, x)
  BY <1>2, <1>4 DEF OwnRow, Tells
<1>6. /\ \A x \in Key : Tells(r, x)' => Tells(r, x) /\ x # k
      /\ Tells(r, k)
  BY <1>1, <1>4 DEF Tells
<1>7. TokensApart'
  BY <1>1, <1>2, <1>4, <1>5 DEF NewsInv, TokensApart
<1>8. k \in photos /\ announced[k] = 0 /\ \A q \in Requests \ {r} : ~Tells(q, k)
  BY <1>6 DEF NewsInv, OneTeller
<1>9. OneTeller'
  <2> SUFFICES ASSUME NEW q \in Requests, NEW x \in Key, Tells(q, x)'
               PROVE  x \in photos' /\ announced'[x] = 0 /\ \A y \in Requests \ {q} : ~Tells(y, x)'
    BY DEF OneTeller
  <2>1. x # k /\ Tells(q, x)
    BY <1>5, <1>6, <1>8
  <2> QED
    BY <1>2, <1>3, <1>5, <1>6, <2>1 DEF NewsInv, OneTeller
<1>10. SilentBefore' /\ AnnouncedOnce'
  BY <1>2, <1>3, <1>8 DEF NewsInv, SilentBefore, AnnouncedOnce
<1> QED
  BY <1>7, <1>9, <1>10

LEMMA StepNews ==
  ASSUME NewsInv, NEW r \in Requests, Step(r)
  PROVE  TokensApart' /\ OneTeller' /\ SilentBefore' /\ AnnouncedOnce'
<1>0. TypeOK /\ LocksHeld /\ pub[r].pc \in Steps
  BY DEF NewsInv, TypeOK, Upload
<1>1. CASE Reserve(r)
  <2>1. Ended(r) \/ At(r, "putting", RequestKeys(r), pub[r].locked)
    BY <1>0, <1>1, Moves
  <2>2. pub[r].pc = "reserving" /\ UNCHANGED <<posts, photos, announced, attempts>>
    BY <1>1 DEF Reserve, history
  <2> QED
    BY <2>1, <2>2, SameRows DEF Steps
<1>2. CASE ReserveFails(r) \/ Respond(r) \/ \E b \in BOOLEAN : ResolveFails(r, b)
  <2>1. Ended(r) /\ UNCHANGED <<posts, photos, announced, attempts>>
    BY <1>0, <1>2, Moves DEF ReserveFails, Respond, ResolveFails, history
  <2> QED
    BY <2>1, SameRows
<1>3. CASE Create(r)
  BY <1>0, <1>3, Moves, CommitNews DEF Create
<1>4. CASE CreateFails(r)
  <2>1. /\ At(r, "compensating", RequestKeys(r), pub[r].locked) /\ pub[r].pc = "creating"
        /\ UNCHANGED <<posts, photos, announced, attempts>>
    BY <1>0, <1>4, Moves DEF CreateFails, history
  <2> QED
    BY <2>1, SameRows DEF Steps
<1>5. CASE Resolve(r)
  <2>1. pub[r].pc = "resolving" /\ UNCHANGED <<posts, photos, announced, attempts>>
    BY <1>5 DEF Resolve
  <2>2. \/ At(r, "compensating", RequestKeys(r), pub[r].locked)
        \/ OwnRow(r) /\ At(r, "announcing", PhotoKeys(pub[r].id, pub[r].body), {})
        \/ Ended(r)
    BY <1>0, <1>5, Moves
  <2>3. ASSUME OwnRow(r), At(r, "announcing", PhotoKeys(pub[r].id, pub[r].body), {}), NEW k \in Key, Tells(r, k)'
        PROVE  Tells(r, k)
    BY <2>1, <2>3 DEF Tells, At
  <2> QED
    BY <2>1, <2>2, <2>3, SameRows DEF Steps
<1>6. ASSUME CommitUncertain(r, TRUE) PROVE TokensApart' /\ OneTeller' /\ SilentBefore' /\ AnnouncedOnce'
  <2>1. At(r, "resolving", {}, {})
    BY <1>0, <1>6, Moves
  <2>2. pub[r].pc = "creating" /\ Insertable(r) /\ Inserted(r) /\ attempts' = attempts
    BY <1>6 DEF CommitUncertain
  <2> QED
    BY <2>1, <2>2, CommitNews
<1>7. ASSUME CommitUncertain(r, FALSE) PROVE TokensApart' /\ OneTeller' /\ SilentBefore' /\ AnnouncedOnce'
  <2>1. At(r, "resolving", {}, {})
    BY <1>0, <1>7, Moves
  <2>2. pub[r].pc = "creating" /\ UNCHANGED <<posts, photos, announced, attempts>>
    BY <1>7 DEF CommitUncertain
  <2>3. ~OwnRow(r)
    BY <2>2 DEF NewsInv, TokensApart
  <2>4. \A k \in Key : ~Tells(r, k)'
    BY <2>1, <2>2, <2>3 DEF Tells, At, OwnRow
  <2> QED
    BY <2>1, <2>2, <2>4, SameRows DEF Steps
<1>8. ASSUME NEW k \in Key, Lock(r, k) PROVE TokensApart' /\ OneTeller' /\ SilentBefore' /\ AnnouncedOnce'
  <2>1. At(r, pub[r].pc, pub[r].todo, pub[r].locked \cup {k})
    BY <1>0, <1>8, Moves
  <2>2. pub[r].pc \in {"reserving", "resolving"} /\ UNCHANGED <<posts, photos, announced, attempts>>
    BY <1>8 DEF Lock, history
  <2>3. \A x \in Key : Tells(r, x)' => Tells(r, x)
    BY <2>1, <2>2 DEF Tells, At, OwnRow
  <2> QED
    BY <1>0, <2>1, <2>2, <2>3, SameRows
<1>9. ASSUME NEW k \in Key, Put(r, k) PROVE TokensApart' /\ OneTeller' /\ SilentBefore' /\ AnnouncedOnce'
  <2>1. At(r, IF pub[r].todo = {k} THEN "creating" ELSE "putting", pub[r].todo \ {k}, pub[r].locked)
    BY <1>0, <1>9, Moves
  <2>2. pub[r].pc = "putting" /\ UNCHANGED <<posts, photos, announced, attempts>>
    BY <1>9 DEF Put, history
  <2> QED
    BY <2>1, <2>2, SameRows DEF Steps
<1>10. ASSUME NEW k \in Key, NEW b \in BOOLEAN, PutFails(r, k, b)
       PROVE  TokensApart' /\ OneTeller' /\ SilentBefore' /\ AnnouncedOnce'
  <2>1. At(r, "compensating", Tried(r, k), pub[r].locked)
    BY <1>0, <1>10, Moves
  <2>2. pub[r].pc = "putting" /\ UNCHANGED <<posts, photos, announced, attempts>>
    BY <1>10 DEF PutFails, history
  <2> QED
    BY <2>1, <2>2, SameRows DEF Steps
<1>11. ASSUME NEW k \in Key, NEW b \in BOOLEAN, Compensate(r, k) \/ CompensateFails(r, k, b)
       PROVE  TokensApart' /\ OneTeller' /\ SilentBefore' /\ AnnouncedOnce'
  <2>1. Ended(r) \/ At(r, "compensating", pub[r].todo \ {k}, pub[r].locked)
    BY <1>0, <1>11, Moves
  <2>2. pub[r].pc = "compensating" /\ UNCHANGED <<posts, photos, announced, attempts>>
    BY <1>11 DEF Compensate, CompensateFails, history
  <2> QED
    BY <2>1, <2>2, SameRows DEF Steps
<1> QED
  BY <1>1, <1>2, <1>3, <1>4, <1>5, <1>6, <1>7, <1>8, <1>9, <1>10, <1>11, BroadcastNews DEF Step

LEMMA UploadNews ==
  ASSUME NewsInv, NEW r \in Requests, NEW i \in Ids, NEW b \in Bodies, Upload_(r, i, b)
  PROVE  TokensApart' /\ OneTeller' /\ SilentBefore' /\ AnnouncedOnce'
<1> DEFINE c == [pc |-> "reserving", id |-> i, body |-> b, token |-> attempts + 1, locked |-> {}, todo |-> {}]
<1>0. TypeOK /\ attempts \in Nat
  BY DEF NewsInv, TypeOK
<1>1. /\ pub'[r] = c /\ \A q \in Requests \ {r} : pub'[q] = pub[q]
      /\ attempts' = attempts + 1 /\ UNCHANGED <<posts, photos, announced>>
  BY DEF Upload_, NewsInv, TypeOK, history
<1>2. c.pc = "reserving" /\ c.id = i /\ c.body = b /\ c.token = attempts + 1
  OBVIOUS
<1> HIDE DEF c
<1>3. \A q \in Requests \ {r} : OwnRow(q)' = OwnRow(q) /\ \A k \in Key : Tells(q, k)' = Tells(q, k)
  BY <1>1 DEF OwnRow, Tells
<1>4. \A k \in Key : ~Tells(r, k)'
  BY <1>1, <1>2 DEF Tells
<1>5. ASSUME NEW q \in Requests, pub[q].pc # "idle" PROVE pub[q].token <= attempts /\ pub[q].token \in Nat
  BY <1>5 DEF NewsInv, TokensApart, TypeOK, Upload
<1>6. ASSUME NEW j \in Ids, posts[j] # None PROVE posts[j].token <= attempts /\ posts[j].token \in Nat
  BY <1>6 DEF NewsInv, TokensApart, TypeOK, Row
<1>7. ~OwnRow(r)'
  <2>1. ASSUME posts[i] = [body |-> b, token |-> attempts + 1] PROVE FALSE
    <3>1. CASE posts[i] = None
      <4>1. [body |-> b, token |-> attempts + 1] \in Row
        BY DEF Row, Upload_, NewsInv, TypeOK
      <4> QED
        BY <2>1, <3>1, <4>1
    <3>2. CASE posts[i] # None
      BY <1>0, <1>6, <2>1, <3>2
    <3> QED
      BY <3>1, <3>2
  <2> QED
    BY <1>1, <1>2, <2>1 DEF OwnRow
<1>8. TokensApart'
  <2>1. ASSUME NEW q \in Requests, pub'[q].pc # "idle"
        PROVE  /\ pub'[q].token <= attempts'
               /\ \A x \in Requests \ {q} : pub'[x].pc # "idle" => pub'[x].token # pub'[q].token
               /\ pub'[q].pc \in {"reserving", "putting", "creating"} => ~OwnRow(q)'
    <3>1. CASE q = r
      BY <1>0, <1>1, <1>2, <1>5, <1>7, <3>1
    <3>2. CASE q # r
      <4>1. pub[q].pc # "idle" /\ pub'[q] = pub[q]
        BY <1>1, <2>1, <3>2
      <4>2. pub'[q].token <= attempts' /\ pub'[q].token # attempts + 1
        BY <1>0, <1>1, <1>5, <4>1
      <4> QED
        BY <1>1, <1>2, <1>3, <3>2, <4>1, <4>2 DEF NewsInv, TokensApart
    <3> QED
      BY <3>1, <3>2
  <2>2. \A j \in Ids : posts'[j] # None => posts'[j].token <= attempts'
    BY <1>0, <1>1, <1>6
  <2> QED
    BY <2>1, <2>2 DEF TokensApart
<1> QED
  BY <1>1, <1>3, <1>4, <1>8, FewerTellers

LEMMA OtherNews ==
  ASSUME NewsInv, Worker \/ Crash \/ UNCHANGED vars \/ \E i \in Ids : Delete(i)
  PROVE  TokensApart' /\ OneTeller' /\ SilentBefore' /\ AnnouncedOnce'
<1>1. UNCHANGED <<photos, announced, attempts>>
  BY DEF Worker, Claim, DeleteObjectIfUnreferenced, DeletionFails, Crash, Delete, vars, history
<1>2. \A r \in Requests : pub'[r] = pub[r] \/ pub'[r] = Idle
  BY DEF Worker, Claim, DeleteObjectIfUnreferenced, DeletionFails, Crash, Delete, vars
<1>3. \A i \in Ids : posts'[i] = posts[i] \/ posts'[i] = None
  BY DEF Worker, Claim, DeleteObjectIfUnreferenced, DeletionFails, Crash, Delete, vars, NewsInv, TypeOK
<1>4. ASSUME NEW r \in Requests, pub'[r].pc # "idle" PROVE pub'[r] = pub[r]
  BY <1>2, <1>4 DEF Idle
<1>5. ASSUME NEW r \in Requests, pub'[r].pc # "idle", OwnRow(r)' PROVE OwnRow(r)
  <2>1. pub[r].pc # "idle" /\ pub'[r] = pub[r]
    BY <1>4, <1>5
  <2>2. pub[r].id \in Ids /\ [body |-> pub[r].body, token |-> pub[r].token] \in Row
    BY <2>1, UnderWay DEF NewsInv, Row
  <2>3. posts'[pub[r].id] # None
    BY <1>5, <2>1, <2>2 DEF OwnRow
  <2> QED
    BY <1>3, <1>5, <2>1, <2>2, <2>3 DEF OwnRow
<1>6. \A r \in Requests, k \in Key : Tells(r, k)' => Tells(r, k)
  BY <1>4, <1>5 DEF Tells
<1>7. TokensApart'
  BY <1>1, <1>3, <1>4, <1>5 DEF NewsInv, TokensApart
<1> QED
  BY <1>1, <1>6, <1>7, FewerTellers

\* A group hears of a publication once, although several uploads with its key may each
\* find it committed, and even if the author deletes the post and its key is used again.
THEOREM NewsOnce == Spec => []AnnouncedOnce
<1>1. Init => NewsInv
  <2> SUFFICES ASSUME Init PROVE NewsInv
    OBVIOUS
  <2>1. TypeOK
    BY IdleUpload DEF Init, TypeOK
  <2>2. \A r \in Requests : pub[r] = Idle /\ pub[r].pc = "idle"
    BY DEF Init, Idle
  <2>3. LocksHeld
    BY <2>2 DEF Idle, LocksHeld, UploadOK
  <2>4. TokensApart /\ OneTeller
    BY <2>2 DEF Init, TokensApart, OneTeller, Tells
  <2>5. SilentBefore /\ AnnouncedOnce
    BY DEF Init, SilentBefore, AnnouncedOnce
  <2> QED
    BY <2>1, <2>3, <2>4, <2>5 DEF NewsInv
<1>2. NewsInv /\ [Next]_vars => NewsInv'
  <2> SUFFICES ASSUME NewsInv, [Next]_vars PROVE NewsInv'
    OBVIOUS
  <2>1. TypeOK' /\ LocksHeld'
    BY StepTyped, StepLocksHeld DEF NewsInv
  <2>2. TokensApart' /\ OneTeller' /\ SilentBefore' /\ AnnouncedOnce'
    BY StepNews, UploadNews, OtherNews DEF Next
  <2> QED
    BY <2>1, <2>2 DEF NewsInv
<1>3. NewsInv => AnnouncedOnce
  BY DEF NewsInv
<1> QED
  BY <1>1, <1>2, <1>3, PTL DEF Spec
=============================================================================
