-------------------------------- MODULE Groups --------------------------------
(***************************************************************************)
(* Groups, their members and the invites through which one becomes a        *)
(* member.  Creating an invite counts the active invites of the group and   *)
(* the day's invites of its creator under the row locks of both; a join     *)
(* holds the invite's row from its validation to the membership, so that    *)
(* the invite cannot be revoked in between.                                 *)
(*                                                                          *)
(* A request reads the handler's clock before its transaction begins, and   *)
(* the transaction's now() is the time of its beginning, whatever it waits  *)
(* for afterwards.                                                          *)
(***************************************************************************)
EXTENDS Naturals, FiniteSets

CONSTANTS
  People, Rooms, Codes, Calls, None,
  Invites,     \* natural numbers
  InviteTTL,   \* hours until an invite expires
  MaxActive,   \* maxActiveInvitesPerGroup
  MaxDaily,    \* maxInvitesPerUserPerDay
  DayHours,    \* hours of a day
  MaxHour      \* bound on the clock

VARIABLES
  rooms,    \* groups: code, or None
  members,  \* group_members: [room, user]
  invites,  \* group_invites: row, or None
  txn,      \* transactions in progress
  hour

vars == <<rooms, members, invites, txn, hour>>

Hours == 0..MaxHour
Row == [room: Rooms, creator: People, created: Hours, expires: Nat, revoked: BOOLEAN]
Locks == Rooms \cup People \cup Invites
Call == [pc: {"idle", "founding", "inviting", "counted", "joining"}, user: People \cup {None}, room: Rooms \cup {None},
         invite: Invites \cup {None}, code: Codes \cup {None}, at: Hours, now: Hours, held: SUBSET Locks]
Idle == [pc |-> "idle", user |-> None, room |-> None, invite |-> None, code |-> None, at |-> 0, now |-> 0, held |-> {}]

Init ==
  /\ rooms = [g \in Rooms |-> None] /\ members = {} /\ invites = [i \in Invites |-> None]
  /\ txn = [c \in Calls |-> Idle] /\ hour = 0

Member(g, u) == [room |-> g, user |-> u] \in members
Open(c, r) == txn[c].pc = "idle" /\ txn' = [txn EXCEPT ![c] = r]
Close(c) == txn' = [txn EXCEPT ![c] = Idle]
Free(l) == \A c \in Calls : l \notin txn[c].held
Stored(i) == invites[i] # None
\* Bound on the rows: every request in progress finds an id.
Unused(pcs, free) == Cardinality({c \in Calls : txn[c].pc \in pcs}) < Cardinality(free)

-----------------------------------------------------------------------------
(* Groups. *)

\* The handler looks for a code nobody uses and gives up after eight; a code
\* that is taken, now or by then, is refused by the unique index.
CreateGroup(c, u, code) ==
  /\ Unused({"founding"}, {g \in Rooms : rooms[g] = None})
  /\ Open(c, [Idle EXCEPT !.pc = "founding", !.user = u, !.code = code])
  /\ UNCHANGED <<rooms, members, invites, hour>>

CodeFree(code) == \A g \in Rooms : rooms[g] # code

Create(c, g) ==
  /\ txn[c].pc = "founding" /\ rooms[g] = None /\ CodeFree(txn[c].code)
  /\ rooms' = [rooms EXCEPT ![g] = txn[c].code]
  /\ members' = members \cup {[room |-> g, user |-> txn[c].user]}
  /\ Close(c)
  /\ UNCHANGED <<invites, hour>>

GroupExists(c) ==
  /\ txn[c].pc = "founding" /\ ~CodeFree(txn[c].code)
  /\ Close(c)
  /\ UNCHANGED <<rooms, members, invites, hour>>

-----------------------------------------------------------------------------
(* Invites. *)

Invite(c, u, g, at) ==
  /\ Member(g, u) /\ at <= hour
  /\ Unused({"inviting", "counted"}, {i \in Invites : ~Stored(i)})
  /\ Open(c, [Idle EXCEPT !.pc = "inviting", !.user = u, !.room = g, !.at = at, !.now = hour])
  /\ UNCHANGED <<rooms, members, invites, hour>>

\* Mutant: the group's row is not locked.
NextRow_Creator(c) == {txn[c].user} \ txn[c].held

\* The group's row, then the creator's.
NextRow(c) == IF txn[c].room \notin txn[c].held THEN {txn[c].room} ELSE {txn[c].user} \ txn[c].held

LockRow(c, l) ==
  /\ txn[c].pc = "inviting" /\ l \in NextRow(c) /\ Free(l)
  /\ txn' = [txn EXCEPT ![c].held = @ \cup {l}]
  /\ UNCHANGED <<rooms, members, invites, hour>>

Midnight(h) == h - (h % DayHours)
Live(i, at) == Stored(i) /\ ~invites[i].revoked /\ invites[i].expires > at
Active(g, at) == {i \in Invites : Live(i, at) /\ invites[i].room = g}
CreatedToday(u, at) == {i \in Invites : Stored(i) /\ invites[i].creator = u /\ invites[i].created >= Midnight(at)}

\* ErrTooManyGroupInvites, ErrTooManyUserInvites.
TooMany(c) ==
  \/ Cardinality(Active(txn[c].room, txn[c].now)) >= MaxActive
  \/ Cardinality(CreatedToday(txn[c].user, txn[c].now)) >= MaxDaily

CountInvites(c) ==
  /\ txn[c].pc = "inviting" /\ NextRow(c) = {} /\ ~TooMany(c)
  /\ txn' = [txn EXCEPT ![c].pc = "counted"]
  /\ UNCHANGED <<rooms, members, invites, hour>>

\* Ids are interchangeable: the lowest free one.
Id(i) == ~Stored(i) /\ \A j \in Invites : j < i => Stored(j)

CreateInvite(c, i) ==
  /\ txn[c].pc = "counted" /\ Id(i)
  /\ invites' = [invites EXCEPT ![i] = [room |-> txn[c].room, creator |-> txn[c].user, created |-> txn[c].at,
                                        expires |-> txn[c].at + InviteTTL, revoked |-> FALSE]]
  /\ Close(c)
  /\ UNCHANGED <<rooms, members, hour>>

InviteRefused(c) ==
  /\ txn[c].pc = "inviting" /\ NextRow(c) = {} /\ TooMany(c)
  /\ Close(c)
  /\ UNCHANGED <<rooms, members, invites, hour>>

\* The list a member manages invites from.
ListInvitesByGroup(g, u) == {i \in Invites : Stored(i) /\ invites[i].room = g /\ Member(g, u)}

\* Mutant: the revocation does not see the lock of a join.
Revocable_Unlocked(i) == ~invites[i].revoked

Revocable(i) == ~invites[i].revoked /\ Free(i)

RevokeInvite(u, i) ==
  /\ Stored(i) /\ i \in ListInvitesByGroup(invites[i].room, u) /\ Revocable(i)
  /\ invites' = [invites EXCEPT ![i].revoked = TRUE]
  /\ UNCHANGED <<rooms, members, txn, hour>>

-----------------------------------------------------------------------------
(* Joining. *)

\* What the preview of a token shows: the group's size, or nothing.
Preview(i, at) == IF Live(i, at) THEN Cardinality({m \in members : m.room = invites[i].room}) ELSE None

JoinGroup(c, u, i, at) ==
  /\ at <= hour /\ Live(i, at) /\ Free(i)
  /\ Open(c, [Idle EXCEPT !.pc = "joining", !.user = u, !.invite = i, !.room = invites[i].room, !.at = at, !.held = {i}])
  /\ UNCHANGED <<rooms, members, invites, hour>>

\* The membership's foreign keys wait for the rows that an invite's creation
\* holds; a second membership is none.
Join(c) ==
  /\ txn[c].pc = "joining" /\ Free(txn[c].room) /\ Free(txn[c].user)
  /\ members' = members \cup {[room |-> txn[c].room, user |-> txn[c].user]}
  /\ Close(c)
  /\ UNCHANGED <<rooms, invites, hour>>

\* A statement fails or the client goes: the transaction is rolled back.
Rollback(c) ==
  /\ txn[c].pc # "idle"
  /\ Close(c)
  /\ UNCHANGED <<rooms, members, invites, hour>>

Tick == hour < MaxHour /\ hour' = hour + 1 /\ UNCHANGED <<rooms, members, invites, txn>>

-----------------------------------------------------------------------------

Proceed(c) ==
  \/ GroupExists(c) \/ CountInvites(c) \/ InviteRefused(c) \/ Join(c)
  \/ \E g \in Rooms : Create(c, g)
  \/ \E l \in Locks : LockRow(c, l)
  \/ \E i \in Invites : CreateInvite(c, i)

Arrive(c) ==
  \/ \E u \in People, code \in Codes : CreateGroup(c, u, code)
  \/ \E u \in People, g \in Rooms, at \in Hours : Invite(c, u, g, at)
  \/ \E u \in People, i \in Invites, at \in Hours : JoinGroup(c, u, i, at)

Next ==
  \/ \E c \in Calls : Proceed(c) \/ Arrive(c) \/ Rollback(c)
  \/ \E u \in People, i \in Invites : RevokeInvite(u, i)
  \/ Tick

Spec == Init /\ [][Next]_vars

\* A transaction that can go on does; nothing is said of who gets a row that
\* several wait for.
Fairness == \A c \in Calls : WF_vars(Proceed(c))

FairSpec == Spec /\ Fairness
-----------------------------------------------------------------------------
(* Properties. *)

TypeOK ==
  /\ rooms \in [Rooms -> Codes \cup {None}] /\ members \subseteq [room: Rooms, user: People]
  /\ invites \in [Invites -> {None} \cup Row] /\ txn \in [Calls -> Call] /\ hour \in Hours

\* Concurrent creations do not overshoot the cap on a group's active invites,
\* although the transactions count with clocks of their own.
ActiveCapped == \A g \in Rooms : Cardinality(Active(g, hour)) <= MaxActive

\* Nor the cap on what a player creates in the day that is, in whichever groups.
DailyCapped == \A u \in People : Cardinality(CreatedToday(u, hour)) <= MaxDaily

\* A revocation does not land between an invite's validation and the
\* membership: when a player becomes a member of a group that existed, the
\* token still shows its preview to a clock as old as the join's.
JoinsByLiveInvites ==
  [][\A m \in members' \ members : rooms[m.room] # None =>
       \E c \in Calls : /\ txn[c].pc = "joining" /\ txn[c].user = m.user
                        /\ Preview(txn[c].invite, txn[c].at) # None]_vars

\* Requests never all wait for each other's rows: when every one is under way,
\* one of them comes to its end.
CallsEnd == (\A c \in Calls : txn[c].pc # "idle") ~> (\E c \in Calls : txn[c].pc = "idle")
=============================================================================
