------------------------------- MODULE ChatSync -------------------------------
(***************************************************************************)
(* Reading a group's chat while others write to it: the newest page, the    *)
(* catch-up from a cursor after a reconnect, the history before a message,  *)
(* the durable read boundary of the inbox, and reactions.                   *)
(*                                                                          *)
(* A message gets its created_at when it is received and is stored later,   *)
(* so that messages may be stored in another order than that of             *)
(* (created_at, id), by which pages are cut.                                *)
(***************************************************************************)
EXTENDS Naturals, FiniteSets

CONSTANTS
  Chatters,   \* who writes
  Liked,      \* bound on the messages that the reader reacts to
  Lines,      \* message ids 1..n, in the order of their text
  PageLimit,
  MaxMoment,  \* bound on the clock
  None

VARIABLES
  lines,    \* messages: [author, at, stored]
  apart,    \* chatters the reader blocks, or who block the reader
  seen,     \* ids the client has
  first,    \* the oldest position of the client's window, or None
  cursor,   \* stable_cursor: the newest position, or None
  more,     \* the last catch-up gave a next_cursor
  boundary, \* group_message_reads.last_read_at, joined_at at first
  reacted,  \* message_reactions of the reader
  loaded,   \* the message a reaction's handler has loaded and authorised, or None
  moment,
  late      \* history: messages that came into a window the client had read already

vars == <<lines, apart, seen, first, cursor, more, boundary, reacted, loaded, moment, late>>
client == <<seen, first, cursor, more, late>>
reaction == <<reacted, loaded>>

Moments == 0..MaxMoment
Position == [at: Moments, id: Lines]
Line == [author: Chatters, at: Moments, stored: BOOLEAN]

Init ==
  /\ lines = [m \in Lines |-> None] /\ apart = {} /\ seen = {} /\ first = None /\ cursor = None /\ more = TRUE
  /\ boundary = 0 /\ reacted = {} /\ loaded = None /\ moment = 0 /\ late = {}

Pos(m) == [at |-> lines[m].at, id |-> m]
Stored == {m \in Lines : lines[m] # None /\ lines[m].stored}
Visible(m) == lines[m].author \notin apart

\* ROW(m.created_at, m.id) > ROW(...)
After(p, q) == p.at > q.at \/ (p.at = q.at /\ p.id > q.id)

\* ORDER BY ... LIMIT: the n first of ms in ascending or descending order.
Oldest(ms, n) == {m \in ms : Cardinality({o \in ms : After(Pos(m), Pos(o))}) < n}
Newest(ms, n) == {m \in ms : Cardinality({o \in ms : After(Pos(o), Pos(m))}) < n}
Top(ms) == Pos(CHOOSE m \in ms : \A o \in ms : ~After(Pos(o), Pos(m)))
Bottom(ms) == Pos(CHOOSE m \in ms : \A o \in ms : ~After(Pos(m), Pos(o)))

\* The window the client has read, from the oldest position to the cursor.
Passed(m) == first # None /\ ~After(first, Pos(m)) /\ ~After(Pos(m), cursor)

-----------------------------------------------------------------------------
(* Writers. *)

Write(m, u) ==
  /\ lines[m] = None /\ u \notin apart
  /\ lines' = [lines EXCEPT ![m] = [author |-> u, at |-> moment, stored |-> FALSE]]
  /\ UNCHANGED <<apart, client, boundary, reaction, moment>>

Store(m) ==
  /\ lines[m] # None /\ ~lines[m].stored
  /\ lines' = [lines EXCEPT ![m].stored = TRUE]
  /\ late' = IF Passed(m) THEN late \cup {m} ELSE late
  /\ UNCHANGED <<apart, seen, first, cursor, more, boundary, reaction, moment>>

Block(u) ==
  /\ apart' = apart \cup {u}
  /\ UNCHANGED <<lines, client, boundary, reaction, moment>>

\* What was hidden when its page was read appears in a window already read.
Unblock(u) ==
  /\ u \in apart
  /\ apart' = apart \ {u}
  /\ late' = late \cup {m \in Stored : lines[m].author = u /\ Passed(m)}
  /\ UNCHANGED <<lines, seen, first, cursor, more, boundary, reaction, moment>>

-----------------------------------------------------------------------------
(* Pages: the viewer's condition is applied before the order and the limit. *)

\* Mutant: the catch-up does not ask for one more.
Page_Exact(ms, newest) ==
  LET shown == {m \in ms : Visible(m)} IN IF newest THEN Newest(shown, PageLimit) ELSE Oldest(shown, PageLimit)

\* The rows of a query; a catch-up asks for one more than it gives.
Page(ms, newest) ==
  LET shown == {m \in ms : Visible(m)} IN
  IF newest THEN Newest(shown, PageLimit) ELSE Oldest(shown, PageLimit + 1)

\* An empty cursor: the newest page.
Latest ==
  LET page == Page(Stored, TRUE) IN
  /\ page # {}
  /\ seen' = page /\ first' = Bottom(page) /\ cursor' = Top(page) /\ more' = FALSE /\ late' = {}
  /\ UNCHANGED <<lines, apart, boundary, reaction, moment>>

Newer(m) == After(Pos(m), cursor)

CatchUp ==
  /\ cursor # None
  /\ LET rows == Page({m \in Stored : Newer(m)}, FALSE)
         items == Oldest(rows, PageLimit)
     IN /\ seen' = seen \cup items
        /\ cursor' = IF items = {} THEN cursor ELSE Top(items)
        /\ more' = (Cardinality(rows) > PageLimit)
        /\ UNCHANGED <<first, late>>
  /\ UNCHANGED <<lines, apart, boundary, reaction, moment>>

\* before_id: the history before the oldest message.
Before ==
  /\ first # None
  /\ LET page == Page({m \in Stored : After(first, Pos(m))}, TRUE)
     IN /\ page # {}
        /\ seen' = seen \cup page /\ first' = Bottom(page)
  /\ UNCHANGED <<lines, apart, cursor, more, late, boundary, reaction, moment>>

\* GetGroupMessages picks the query by the request's parameters.
GetGroupMessages == Latest \/ CatchUp \/ Before

-----------------------------------------------------------------------------
(* The inbox. *)

Advanced(at) == IF at > boundary THEN at ELSE boundary

\* The handler's clock was read before the statement runs.
MarkInboxRead(at) ==
  /\ at <= moment
  /\ boundary' = Advanced(at)
  /\ UNCHANGED <<lines, apart, client, reaction, moment>>

Unread == {m \in Stored : Visible(m) /\ lines[m].at > boundary}

-----------------------------------------------------------------------------
(* Reactions. *)

\* The handler loads the message and checks its kind and the membership.
LoadMessage(m) ==
  /\ loaded = None /\ m \in Stored \cap Liked /\ Visible(m)
  /\ loaded' = m
  /\ UNCHANGED <<lines, apart, client, boundary, reacted, moment>>

\* The statement looks again.
Reactable(m) == Visible(m)

React(put) ==
  /\ loaded # None
  /\ reacted' = IF Reactable(loaded) THEN IF put THEN reacted \cup {loaded} ELSE reacted \ {loaded} ELSE reacted
  /\ loaded' = None
  /\ UNCHANGED <<lines, apart, client, boundary, moment>>

Tick == moment < MaxMoment /\ moment' = moment + 1 /\ UNCHANGED <<lines, apart, client, boundary, reaction>>

-----------------------------------------------------------------------------

Next ==
  \/ \E m \in Lines : Store(m) \/ LoadMessage(m) \/ \E u \in Chatters : Write(m, u)
  \/ \E u \in Chatters : Block(u) \/ Unblock(u)
  \/ GetGroupMessages
  \/ \E at \in Moments : MarkInboxRead(at)
  \/ \E put \in BOOLEAN : React(put)
  \/ Tick

Spec == Init /\ [][Next]_vars
-----------------------------------------------------------------------------
(* Properties. *)

TypeOK ==
  /\ lines \in [Lines -> {None} \cup Line] /\ apart \subseteq Chatters /\ seen \subseteq Lines
  /\ first \in {None} \cup Position /\ cursor \in {None} \cup Position /\ more \in BOOLEAN
  /\ boundary \in Moments /\ reacted \subseteq Lines /\ loaded \in Lines \cup {None} /\ moment \in Moments
  /\ late \subseteq Lines

\* The pages a client walks have no gap: a message between the oldest and the
\* newest position is there, whatever was written, hidden and shown between two
\* pages, unless it was stored or shown again after the walk had passed it.
NoGap == \A m \in Stored : Passed(m) /\ Visible(m) /\ m \notin late => m \in seen

\* A client that is told that there is no next page is up to date.
EndIsTheEnd == [][CatchUp /\ ~more' => \A m \in Stored : Visible(m) /\ After(Pos(m), cursor) => m \in seen']_vars

\* What was read stays read: requests that overtake each other do not take the
\* boundary back, and only an unblocked author or a message that was not stored
\* makes the unread count grow.
ReadStaysRead == [][\A m \in Unread' \ Unread : m \notin Stored \/ ~Visible(m)]_vars

\* No reaction reaches the message of somebody from whom the reader has been
\* separated since the handler looked.
NoReactionAcrossBlock == [][\A m \in (reacted' \ reacted) \cup (reacted \ reacted') : Visible(m)]_vars
=============================================================================
