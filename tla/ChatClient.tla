----------------------------- MODULE ChatClient -----------------------------
(***************************************************************************)
(* The chat of the group that a browser tab shows: the socket controller's *)
(* connections and catch-up, the stream that merges pages and live         *)
(* messages, and the hook that keeps the cursor and loads older pages.     *)
(* Opposite it stand the server's pages (ChatSync looks at their rows) and *)
(* the hub, which hears of a socket some time after the socket is open.    *)
(*                                                                         *)
(* Messages are numbered in the order of the pages; a cursor is the number *)
(* of a message, 0 when it is empty.  A turn is a generation of one        *)
(* controller: a new group's controller begins with a turn of its own.     *)
(***************************************************************************)
EXTENDS Naturals, Sequences, FiniteSets, FiniteSetsExt

CONSTANTS
  Groups,
  None,
  PageSize,      \* PAGE_SIZE
  CatchUpLimit,  \* CATCHUP_LIMIT
  MaxLines,      \* bound on the messages
  MaxTurn        \* bound on the connections and group switches

VARIABLES
  posted,   \* the group of every message, in their order
  group,    \* the group shown
  turn,     \* the controller's generation
  phase,    \* of this generation
  timers,   \* reconnect timers that run
  socks,    \* sockets that are open
  wire,     \* live messages on their way: <<turn, message>>
  ref,      \* stableCursorRef
  anchor,   \* its snapshot when this generation began
  synced,   \* hasConnected
  fetches,  \* forward requests in flight
  caught,   \* the catch-up of this generation has drained
  log,      \* the messages in the stream
  hints,    \* unconfirmedCachedIDs
  cache,    \* group -> messages kept in the browser's storage
  more,     \* hasMoreOlder
  older,    \* requests for an older page in flight
  loading,  \* loadingOlderRef is set
  visit,    \* the turn in which the group came to be shown
  confirmed,\* history: the first page of this visit has been handled
  slips     \* history: what went wrong in this visit

server == <<posted, socks, wire>>
connection == <<turn, phase, timers, anchor, synced>>
paging == <<ref, fetches, caught>>
stream == <<group, visit, log, hints, cache, more, older, loading, confirmed>>
vars == <<server, connection, paging, stream, slips>>

Lines == 1..MaxLines
Turns == 1..MaxTurn
Sock == [turn: Turns, group: Groups, heard: BOOLEAN]
Page == [items: SUBSET Lines, next: 0..MaxLines, stable: 0..MaxLines]
Fetch == [turn: Turns, group: Groups, cursor: 0..MaxLines, limit: {PageSize, CatchUpLimit}, first: BOOLEAN, page: {None} \cup Page]
Older == [visit: Turns, group: Groups, before: Lines]

Init ==
  /\ posted = <<>> /\ group \in Groups
  /\ turn = 1 /\ phase = "connecting" /\ timers = 0 /\ socks = {} /\ wire = {}
  /\ ref = 0 /\ anchor = 0 /\ synced = FALSE /\ fetches = {} /\ caught = FALSE
  /\ log = {} /\ hints = {} /\ cache = [g \in Groups |-> {}] /\ more = FALSE
  /\ older = {} /\ loading = FALSE /\ visit = 1 /\ confirmed = FALSE /\ slips = {}

Of(g) == {m \in 1..Len(posted) : posted[m] = g}
Newest(ms, n) == {m \in ms : Cardinality({o \in ms : o > m}) < n}
Oldest(ms, n) == {m \in ms : Cardinality({o \in ms : o < m}) < n}
Top(ms) == IF ms = {} THEN 0 ELSE Max(ms)

\* The open socket of this generation.
Current(s) == s.turn = turn
Heard == \E s \in socks : Current(s) /\ s.heard

-----------------------------------------------------------------------------
(* The server. *)

\* A message is stored and sent to the sockets of its group that the hub knows.
Post(g) ==
  /\ Len(posted) < MaxLines /\ posted' = Append(posted, g)
  /\ wire' = wire \cup {<<s.turn, Len(posted')>> : s \in {k \in socks : k.heard /\ k.group = g}}
  /\ slips' = IF g = group /\ phase = "connected" /\ ~Heard THEN slips \cup {"unheard"} ELSE slips
  /\ UNCHANGED <<socks, connection, paging, stream>>

\* ServeWs hands the socket to the hub after the handshake.
ServeWs(s) ==
  /\ s \in socks /\ ~s.heard
  /\ socks' = (socks \ {s}) \cup {[s EXCEPT !.heard = TRUE]}
  /\ UNCHANGED <<posted, wire, connection, paging, stream, slips>>

\* A page of the group's messages; the newest when there is no cursor.
PageAfter(g, cursor, limit) ==
  LET rows == IF cursor = 0 THEN Newest(Of(g), limit) ELSE Oldest({m \in Of(g) : m > cursor}, limit + 1)
      items == IF cursor = 0 THEN rows ELSE Oldest(rows, limit)
  IN [items |-> items, next |-> IF rows = items THEN 0 ELSE Top(items), stable |-> Top(items)]

Serve(f) ==
  /\ f \in fetches /\ f.page = None
  /\ fetches' = (fetches \ {f}) \cup {[f EXCEPT !.page = PageAfter(f.group, f.cursor, f.limit)]}
  /\ UNCHANGED <<server, connection, ref, caught, stream, slips>>

-----------------------------------------------------------------------------
(* The connection of the controller. *)

Snapshot == ref

\* A timer begins the next generation, which supersedes what is in flight.
Connect ==
  /\ timers > 0 /\ turn < MaxTurn
  /\ timers' = timers - 1 /\ turn' = turn + 1 /\ phase' = "connecting" /\ anchor' = Snapshot /\ caught' = FALSE
  /\ UNCHANGED <<server, synced, ref, fetches, stream, slips>>

\* The ticket was refused or lost; after a 403 the controller gives up.
TicketFails(final) ==
  /\ phase = "connecting"
  /\ phase' = IF final THEN "refused" ELSE "offline"
  /\ timers' = IF final THEN timers ELSE timers + 1
  /\ UNCHANGED <<server, turn, anchor, synced, paging, stream, slips>>

OpenSocket ==
  /\ phase = "connecting" /\ phase' = "opening"
  /\ socks' = socks \cup {[turn |-> turn, group |-> group, heard |-> FALSE]}
  /\ UNCHANGED <<posted, wire, turn, timers, anchor, synced, paging, stream, slips>>

Request(cursor, limit, first) ==
  [turn |-> turn, group |-> group, cursor |-> cursor, limit |-> limit, first |-> first, page |-> None]

\* onopen: the first synchronisation asks for the newest page.
OnOpen ==
  /\ phase = "opening" /\ phase' = "connected" /\ synced' = TRUE
  /\ fetches' = fetches \cup {Request(IF synced THEN anchor ELSE 0, PageSize, ~synced)}
  /\ UNCHANGED <<server, turn, timers, anchor, ref, caught, stream, slips>>

\* The connection breaks; onclose of a superseded socket does nothing.
OnClose(s) ==
  /\ s \in socks /\ socks' = socks \ {s}
  /\ wire' = {w \in wire : w[1] # s.turn}
  /\ IF Current(s) THEN phase' = "offline" /\ timers' = timers + 1 ELSE UNCHANGED <<phase, timers>>
  /\ UNCHANGED <<posted, turn, anchor, synced, paging, stream, slips>>

Merged(items) == log' = log \cup items /\ hints' = hints \ items

Wired(t) == {m \in Lines : <<t, m>> \in wire}

\* onmessage, in the order sent; what comes for a superseded generation is dropped.
OnMessage(s) ==
  /\ s \in socks /\ Wired(s.turn) # {} /\ (Current(s) => phase = "connected")
  /\ LET m == Min(Wired(s.turn))
     IN /\ wire' = wire \ {<<s.turn, m>>}
        /\ IF Current(s) THEN Merged({m}) ELSE UNCHANGED <<log, hints>>
  /\ UNCHANGED <<posted, socks, connection, paging, group, visit, cache, more, older, loading, confirmed, slips>>

-----------------------------------------------------------------------------
(* The catch-up. *)

Full(items) == Cardinality(items) >= PageSize

\* The first page of a visit: what the cache hinted at and everything older
\* than the page go; what came live stays.
FirstPage(items) ==
  LET live == log \ hints
      kept == IF items = {} THEN live ELSE {m \in live : m >= Min(items)}
  IN /\ log' = kept \cup items /\ hints' = {} /\ more' = Full(items) /\ confirmed' = TRUE

\* Mutant: the next cursor is not followed.
Following_First(f) == FALSE

Following(f) == f.page.next # 0

\* Live messages older than the page are still on their way.
Overtaken(items) == \E m \in Wired(turn), o \in items : m < Min(items)

\* fetchPage sets the cursor before anyone asks which generation the page is for.
Answer(f) ==
  /\ f \in fetches /\ f.page # None
  /\ ref' = f.page.stable
  /\ slips' = slips \cup {x \in {"cursor", "early"} :
       IF x = "cursor" THEN f.page.stable = 0 \/ f.turn # turn ELSE f.turn = turn /\ f.first /\ Overtaken(f.page.items)}
  /\ IF f.turn # turn
     THEN fetches' = fetches \ {f} /\ UNCHANGED <<caught, log, hints, more, confirmed>>
     ELSE /\ fetches' = (fetches \ {f}) \cup
               IF Following(f) THEN {Request(f.page.next, CatchUpLimit, FALSE)} ELSE {}
          /\ caught' = ~Following(f)
          /\ IF f.first THEN FirstPage(f.page.items) ELSE Merged(f.page.items) /\ UNCHANGED <<more, confirmed>>
  /\ UNCHANGED <<server, connection, group, visit, cache, older, loading>>

\* A failed page ends the catch-up; the socket stays.  (When a superseded request
\* fails nothing changes.)
FetchFails(f) ==
  /\ f \in fetches /\ f.turn = turn /\ fetches' = fetches \ {f}
  /\ UNCHANGED <<server, connection, ref, caught, stream, slips>>

-----------------------------------------------------------------------------
(* Older pages, and the way to another group. *)

LoadOlder ==
  /\ more /\ log # {} /\ ~loading
  /\ older' = older \cup {[visit |-> visit, group |-> group, before |-> Min(log)]} /\ loading' = TRUE
  /\ UNCHANGED <<server, connection, paging, group, visit, log, hints, cache, more, confirmed, slips>>

\* The reducer drops what was asked for another group; a visit of the same
\* group before the last switch is not told apart.
Taken(o) == o.group = group

OlderAnswer(o) ==
  /\ o \in older /\ older' = older \ {o}
  /\ LET items == Newest({m \in Of(o.group) : m < o.before}, PageSize)
     IN IF Taken(o) THEN log' = log \cup items /\ more' = Full(items) ELSE UNCHANGED <<log, more>>
  /\ loading' = (loading /\ o.visit # visit)
  /\ slips' = IF Taken(o) /\ o.visit # visit THEN slips \cup {"older"} ELSE slips
  /\ UNCHANGED <<server, connection, paging, group, visit, hints, cache, confirmed>>

OlderFails(o) ==
  /\ o \in older /\ o.visit = visit /\ older' = older \ {o} /\ loading' = FALSE
  /\ UNCHANGED <<server, connection, paging, group, visit, log, hints, cache, more, confirmed, slips>>

Closed == {s \in socks : Current(s)}

\* stop() of one controller, the stream's reset, start() of the next.
Switch(g) ==
  /\ g # group /\ turn < MaxTurn
  /\ turn' = turn + 1 /\ phase' = "connecting" /\ timers' = 0 /\ anchor' = 0 /\ synced' = FALSE
  /\ socks' = socks \ Closed /\ wire' = {w \in wire : \A s \in Closed : w[1] # s.turn}
  /\ ref' = 0 /\ caught' = FALSE
  /\ group' = g /\ visit' = turn'
  /\ cache' = [cache EXCEPT ![group] = log]
  /\ log' = cache[g] /\ hints' = cache[g] /\ more' = FALSE /\ loading' = FALSE /\ confirmed' = FALSE /\ slips' = {}
  /\ UNCHANGED <<posted, fetches, older>>

Next ==
  \/ \E g \in Groups : Post(g) \/ Switch(g)
  \/ \E s \in socks : ServeWs(s) \/ OnClose(s) \/ OnMessage(s)
  \/ \E f \in fetches : Serve(f) \/ Answer(f) \/ FetchFails(f)
  \/ Connect \/ OpenSocket \/ OnOpen \/ \E final \in BOOLEAN : TicketFails(final)
  \/ LoadOlder \/ \E o \in older : OlderAnswer(o) \/ OlderFails(o)

Spec == Init /\ [][Next]_vars

-----------------------------------------------------------------------------

TypeOK ==
  /\ posted \in Seq(Groups) /\ group \in Groups /\ turn \in Turns /\ visit \in 1..turn
  /\ phase \in {"connecting", "opening", "connected", "offline", "refused"} /\ timers \in 0..1
  /\ socks \subseteq Sock /\ wire \subseteq Turns \X Lines /\ ref \in 0..MaxLines /\ anchor \in 0..MaxLines
  /\ fetches \subseteq Fetch /\ older \subseteq Older /\ cache \in [Groups -> SUBSET Lines]
  /\ log \subseteq Lines /\ hints \subseteq log /\ slips \subseteq {"cursor", "unheard", "early", "older"}
  /\ {synced, caught, more, loading, confirmed} \subseteq BOOLEAN

\* Messages that neither the stream has nor the connection will bring.
Missing == Of(group) \ (log \cup Wired(turn))

\* Nothing is missing above the oldest message shown, once the catch-up has
\* drained on a connection that the hub knows.
Gapless == phase = "connected" /\ Heard /\ caught /\ log # {} => \A m \in Missing : m < Min(log)

\* The documented promise (docs/api.md, chatSocketController.ts): catch-up sends
\* the cursor of the last received page, so nothing created during a disconnect
\* is skipped.  A first page that failed or that live messages overtook, and what
\* the hub missed before it knew the socket, are left aside.
NothingSkipped == confirmed /\ slips \cap {"unheard", "early"} = {} => Gapless

\* These are all the ways to miss a message: the hub does not know the open
\* socket yet; a page moves the cursor that is empty, or dropped as superseded; the
\* first page of a visit fails, or is newer than live messages that then get lost;
\* an older page comes from an earlier visit.
CatchUpComplete == confirmed /\ slips = {} => Gapless

\* When the stream offers no older page, there is none.
EndOfHistory == confirmed /\ slips = {} /\ ~more /\ log # {} => \A m \in Missing : m > Min(log)

\* One socket or one reconnect timer at a time: no sequence overlaps another,
\* and no socket stays behind when the group is left.
OneConnection == Cardinality(socks) + timers <= 1

\* The stream shows only messages of its group, however late answers come.
ViewBelongs == log \subseteq Of(group)
=============================================================================
