------------------------------- MODULE Pictures -------------------------------
(***************************************************************************)
(* The picture of a group and of a player.  An upload of a group's picture  *)
(* stores an object under a new key, points the group's row at it and then  *)
(* retires the object it replaced; of two first pictures of a group it      *)
(* retires neither.  A player's avatar has one key: the upload overwrites   *)
(* the object and puts the old content back when the database refuses.      *)
(***************************************************************************)
EXTENDS Naturals, FiniteSets

CONSTANTS
  Uploads,     \* uploads of the group's picture; each has a key of its own
  Old,         \* key of the picture the group has at first, or None
  Avatars,     \* uploads of the player's avatar; each is a content
  None,
  Mishaps,     \* kinds of failures that happen
  MaxMishaps

VARIABLES
  picture,  \* group_photos.storage_key, or None
  shelf,    \* keys of group pictures in the object store
  retired,  \* keys of open deletion jobs
  up,       \* uploads of the group's picture
  custom,   \* users.avatar is the marker of an uploaded one
  object,   \* content under the avatar's key, or None
  av,       \* uploads of the avatar
  mishaps,
  stray,    \* history: keys that a half-failed Put or a second failure left without an owner
  overwritten, \* history: pictures replaced by an upload that had found no row
  kept,     \* history: the content that the player's avatar shows
  alone     \* history: nothing touched the avatar during an upload of it

vars == <<picture, shelf, retired, up, custom, object, av, mishaps, stray, overwritten, kept, alone>>
group == <<picture, shelf, retired, up, stray, overwritten>>
losses == <<stray, overwritten>>
avatar == <<custom, object, av, kept, alone>>

Keys == Uploads \cup {Old}
Up == [pc: {"new", "stored", "locked", "retiring", "undoing", "end"}, previous: Keys \cup {None}]
Av == [pc: {"new", "loaded", "put", "undoing", "end"}, previous: Avatars \cup {None}]

Init ==
  /\ picture \in {Old, None} /\ shelf = {picture} \ {None} /\ retired = {}
  /\ up = [k \in Uploads |-> [pc |-> "new", previous |-> None]]
  /\ custom = FALSE /\ object = None /\ av = [c \in Avatars |-> [pc |-> "new", previous |-> None]]
  /\ mishaps = 0 /\ stray = {} /\ overwritten = {} /\ kept = None /\ alone = TRUE

Mishap(kind) == kind \in Mishaps /\ mishaps < MaxMishaps /\ mishaps' = mishaps + 1
At(k, pc) == up[k].pc = pc
Move(k, pc) == up' = [up EXCEPT ![k].pc = pc]

-----------------------------------------------------------------------------
(* A group's picture. *)

PutPhoto(k) ==
  /\ At(k, "new")
  /\ shelf' = shelf \cup {k} /\ Move(k, "stored")
  /\ UNCHANGED <<picture, retired, losses, avatar, mishaps>>

\* The upload is answered as failed, whether its object was stored or not.
PutPhotoFails(k, written) ==
  /\ At(k, "new") /\ Mishap("put")
  /\ shelf' = IF written THEN shelf \cup {k} ELSE shelf
  /\ stray' = IF written THEN stray \cup {k} ELSE stray
  /\ Move(k, "end")
  /\ UNCHANGED <<picture, retired, overwritten, avatar>>

\* Mutant: SELECT without FOR UPDATE.
RowFree_Unlocked(k) == TRUE

\* The row, if there is one, is locked by nobody else.
RowFree(k) == \A o \in Uploads \ {k} : ~(At(o, "locked") /\ up[o].previous # None)

SelectPhoto(k) ==
  /\ At(k, "stored") /\ RowFree(k)
  /\ up' = [up EXCEPT ![k] = [pc |-> "locked", previous |-> picture]]
  /\ UNCHANGED <<picture, shelf, retired, losses, avatar, mishaps>>

\* INSERT ... ON CONFLICT DO UPDATE, and COMMIT: who found no row may replace
\* one that somebody inserted since, and then has no key to retire.
SetGroupPhoto(k) ==
  /\ At(k, "locked") /\ RowFree(k)
  /\ picture' = k
  /\ Move(k, IF up[k].previous = None THEN "end" ELSE "retiring")
  /\ overwritten' = IF up[k].previous = None THEN overwritten \cup ({picture} \ {None}) ELSE overwritten
  /\ UNCHANGED <<shelf, retired, stray, avatar, mishaps>>

\* A statement fails, or COMMIT reports an error whatever it did.
SetGroupPhotoFails(k, committed) ==
  /\ At(k, "locked") /\ RowFree(k) /\ Mishap(IF committed THEN "unknown" ELSE "db")
  /\ picture' = IF committed THEN k ELSE picture
  /\ Move(k, "undoing")
  /\ UNCHANGED <<shelf, retired, losses, avatar>>

\* What is deleted after a failure, and after a success.
Doomed(k) == IF At(k, "undoing") THEN k ELSE up[k].previous

DeletePhoto(k) ==
  /\ up[k].pc \in {"retiring", "undoing"}
  /\ shelf' = shelf \ {Doomed(k)} /\ Move(k, "end")
  /\ UNCHANGED <<picture, retired, losses, avatar, mishaps>>

Queued(queued) == queued

\* The key is queued; when that fails too, it is logged.
DeletePhotoFails(k, queued) ==
  /\ up[k].pc \in {"retiring", "undoing"}
  /\ queued \/ mishaps + 1 < MaxMishaps
  /\ "delete" \in Mishaps /\ mishaps < MaxMishaps
  /\ mishaps' = mishaps + (IF queued THEN 1 ELSE 2)
  /\ retired' = IF Queued(queued) THEN retired \cup {Doomed(k)} ELSE retired
  /\ stray' = IF queued THEN stray ELSE stray \cup {Doomed(k)}
  /\ Move(k, "end")
  /\ UNCHANGED <<picture, shelf, overwritten, avatar>>

\* DeleteObjectIfUnreferenced.
Sweep(k) ==
  /\ k \in retired
  /\ retired' = retired \ {k}
  /\ shelf' = IF picture = k THEN shelf ELSE shelf \ {k}
  /\ UNCHANGED <<picture, up, losses, avatar, mishaps>>

-----------------------------------------------------------------------------
(* A player's avatar. *)

Busy == {c \in Avatars : av[c].pc \in {"loaded", "put", "undoing"}}

\* Only an avatar that is shown is worth keeping.
Previous == IF custom THEN object ELSE None

LoadAvatar(c) ==
  /\ av[c].pc = "new"
  /\ av' = [av EXCEPT ![c] = [pc |-> "loaded", previous |-> Previous]]
  /\ alone' = (alone /\ Busy = {})
  /\ UNCHANGED <<group, custom, object, kept, mishaps>>

PutAvatar(c) ==
  /\ av[c].pc = "loaded"
  /\ object' = c
  /\ av' = [av EXCEPT ![c].pc = "put"]
  /\ UNCHANGED <<group, custom, kept, alone, mishaps>>

\* The upload is answered as failed; what it may have written stays.
PutAvatarFails(c, written) ==
  /\ av[c].pc = "loaded" /\ Mishap("put")
  /\ object' = IF written THEN c ELSE object
  /\ kept' = IF written /\ custom THEN c ELSE kept
  /\ av' = [av EXCEPT ![c].pc = "end"]
  /\ UNCHANGED <<group, custom, alone>>

SetUserAvatar(c) ==
  /\ av[c].pc = "put"
  /\ custom' = TRUE /\ kept' = c
  /\ av' = [av EXCEPT ![c].pc = "end"]
  /\ UNCHANGED <<group, object, alone, mishaps>>

SetUserAvatarFails(c) ==
  /\ av[c].pc = "put" /\ Mishap("db")
  /\ av' = [av EXCEPT ![c].pc = "undoing"]
  /\ UNCHANGED <<group, custom, object, kept, alone>>

\* The old content is stored again, or there was none and the new one is deleted.
RestoreAvatar(c) ==
  /\ av[c].pc = "undoing"
  /\ object' = av[c].previous
  /\ av' = [av EXCEPT ![c].pc = "end"]
  /\ UNCHANGED <<group, custom, kept, alone, mishaps>>

\* UpdateProfile takes a built-in avatar, and the marker as well.
UpdateProfile(marker) ==
  /\ custom' = marker /\ custom # marker
  /\ kept' = IF marker THEN object ELSE None
  /\ alone' = (alone /\ Busy = {})
  /\ UNCHANGED <<group, object, av, mishaps>>

-----------------------------------------------------------------------------

Next ==
  \/ \E k \in Uploads :
       \/ PutPhoto(k) \/ SelectPhoto(k) \/ SetGroupPhoto(k) \/ DeletePhoto(k)
       \/ \E b \in BOOLEAN : PutPhotoFails(k, b) \/ SetGroupPhotoFails(k, b) \/ DeletePhotoFails(k, b)
  \/ \E k \in Keys : Sweep(k)
  \/ \E c \in Avatars : LoadAvatar(c) \/ PutAvatar(c) \/ SetUserAvatar(c) \/ SetUserAvatarFails(c) \/ RestoreAvatar(c)
  \/ \E c \in Avatars, b \in BOOLEAN : PutAvatarFails(c, b)
  \/ \E b \in BOOLEAN : UpdateProfile(b)

Spec == Init /\ [][Next]_vars
-----------------------------------------------------------------------------
(* Properties. *)

TypeOK ==
  /\ picture \in Keys \cup {None} /\ shelf \subseteq Keys /\ retired \subseteq Keys /\ up \in [Uploads -> Up]
  /\ custom \in BOOLEAN /\ object \in Avatars \cup {None} /\ av \in [Avatars -> Av]
  /\ mishaps \in 0..MaxMishaps /\ stray \subseteq Keys /\ overwritten \subseteq Keys /\ kept \in Avatars \cup {None} /\ alone \in BOOLEAN

\* The object of the picture a group shows is in the store, whatever the
\* compensations and the deletions of concurrent uploads do.
PictureStored == picture # None => picture \in shelf

\* An upload has the object, and will use or delete it.
Held(k) ==
  \/ \E o \in Uploads : up[o].pc \in {"retiring", "undoing"} /\ Doomed(o) = k
  \/ k \in Uploads /\ up[k].pc \in {"stored", "locked"}

\* An object that no group shows is still some upload's or some job's to delete, but
\* for those that a half-failed Put or two failures in a row took.
PictureOwned == \A k \in shelf \ (retired \cup stray \cup {picture}) : Held(k)

\* What the code does of it: the replacement of a picture that the upload has read is
\* retired.  The first pictures of a group are the exception: the one that is
\* overwritten by an upload that had found no row is lost.
ReplacementOwned == \A k \in shelf \ (retired \cup stray \cup overwritten \cup {picture}) : Held(k)

\* An upload that fails leaves the player with the avatar from before, as long
\* as nothing else touches it meanwhile.
AvatarPreserved == alone /\ custom /\ Busy = {} => object = kept
=============================================================================
