--------------------------- MODULE ChatHubProofs ---------------------------
(* Proofs about ChatHub, for any users, rooms, sockets, messages and buffers. *)
EXTENDS ChatHub, TLAPS

USE NoneAssumption, BufferAssumption

-----------------------------------------------------------------------------
(* The inductive invariant. *)

\* The variables and the histories.
Typed ==
  /\ TypeOK
  /\ owed \in [Sockets -> SUBSET Messages] /\ handled \in [Sockets -> SUBSET Messages]
  /\ closes \in [Sockets -> Nat] /\ overtaken \subseteq Sockets

\* Whatever waits to be sent or stored has been written.
EventsUsed ==
  /\ \A e \in posting : e.id \in used
  /\ \A i \in 1..Len(channel) : channel[i].id \in used
  /\ \A s \in Sockets : sock[s].reader = "sending" => sock[s].text \in Event /\ sock[s].text.id \in used
  /\ hub.pc \in {"persisting", "notifying"} => hub.event \in Event /\ hub.event.id \in used

\* A socket that the loop does not know yet has no pumps, and nothing was sent to it;
\* every other one belongs to a user and a room.
Newcomer(s) == sock[s].state \in {"none", "registering"}
Newcomers ==
  \A s \in Sockets :
    /\ Newcomer(s) => /\ sock[s].reader = "none" /\ sock[s].writer = "none"
                      /\ owed[s] = {} /\ handled[s] = {} /\ QueuedIds(queue[s]) = {}
    /\ sock[s].state # "none" => sock[s].user \in Users /\ sock[s].room \in Rooms

\* Who holds the read lock of privacy has something to write that is not blocked.
WritersAuthorized ==
  \A s \in Sockets : sock[s].writer = "authorized" =>
    /\ sock[s].writing \in Event \cup {Notice}
    /\ sock[s].writing # Notice => ~Blocked(sock[s].user, sock[s].writing.author)

\* StaleSocketsKicked, for the sockets that are being registered as well.
StaleAwaited ==
  \A s \in Sockets : sock[s].state \in {"registering", "live"} /\ sock[s].version < version[sock[s].user] =>
    KickAwaited(s)

Inv ==
  /\ Typed
  /\ EventsUsed
  /\ Newcomers
  /\ DoneClosedOnce
  /\ NothingSkipped
  /\ WritersAuthorized
  /\ StaleAwaited

-----------------------------------------------------------------------------
(* What the operators return. *)

\* Joined ids of a send channel, when something is put in or taken out.
LEMMA QueuedIdsAppend ==
  ASSUME NEW q \in Seq(Event \cup {Notice}), NEW e \in Event \cup {Notice}
  PROVE  QueuedIds(Append(q, e)) = QueuedIds(q) \cup (IF e = Notice THEN {} ELSE {e.id})
<1> DEFINE p == Append(q, e)
<1>1. /\ Len(p) = Len(q) + 1 /\ p[Len(q) + 1] = e /\ Len(q) \in Nat
      /\ \A i \in 1..Len(q) : p[i] = q[i]
  OBVIOUS
<1>2. QueuedIds(p) \subseteq QueuedIds(q) \cup (IF e = Notice THEN {} ELSE {e.id})
  BY <1>1 DEF QueuedIds
<1>3. QueuedIds(q) \subseteq QueuedIds(p)
  BY <1>1 DEF QueuedIds
<1>4. e # Notice => e.id \in QueuedIds(p)
  BY <1>1 DEF QueuedIds
<1> QED
  BY <1>2, <1>3, <1>4

LEMMA QueuedIdsTail ==
  ASSUME NEW q \in Seq(Event \cup {Notice}), q # <<>>
  PROVE  QueuedIds(q) = QueuedIds(Tail(q)) \cup (IF Head(q) = Notice THEN {} ELSE {Head(q).id})
<1> DEFINE p == Tail(q)
<1>1. /\ Len(q) = Len(p) + 1 /\ Head(q) = q[1] /\ Len(p) \in Nat
      /\ \A i \in 1..Len(p) : p[i] = q[i + 1]
  OBVIOUS
<1>2. QueuedIds(p) \subseteq QueuedIds(q)
  BY <1>1 DEF QueuedIds
<1>3. Head(q) # Notice => Head(q).id \in QueuedIds(q)
  BY <1>1 DEF QueuedIds
<1>4. ASSUME NEW i \in 1..Len(q), q[i] # Notice
      PROVE  q[i].id \in QueuedIds(p) \cup (IF Head(q) = Notice THEN {} ELSE {Head(q).id})
  <2>1. CASE i = 1
    BY <1>1, <1>4, <2>1
  <2>2. CASE i # 1
    <3>1. i - 1 \in 1..Len(p) /\ p[i - 1] = q[i]
      BY <1>1, <2>2
    <3> QED
      BY <1>4, <3>1 DEF QueuedIds
  <2> QED
    BY <2>1, <2>2
<1>5. QueuedIds(q) \subseteq QueuedIds(p) \cup (IF Head(q) = Notice THEN {} ELSE {Head(q).id})
  BY <1>4 DEF QueuedIds
<1> QED
  BY <1>2, <1>3, <1>5

\* An event is not the notice.
LEMMA EventFacts ==
  ASSUME NEW e \in Event
  PROVE  /\ e # Notice /\ e.id \in Messages /\ e.author \in Users /\ e.room \in Rooms
         /\ e.kind \in Kinds /\ e.sender \in Sockets \cup {None}
BY DEF Event, Notice

\* A client with some of its fields replaced.
LEMMA ClientFacts ==
  ASSUME NEW c \in Client
  PROVE  /\ \A x \in {"none", "registering", "live", "removed"} : [c EXCEPT !.state = x] \in Client
         /\ \A x \in {"none", "reading", "sending", "leaving", "gone"} : [c EXCEPT !.reader = x] \in Client
         /\ \A x \in {"none", "idle", "authorized", "gone"}, w \in {None, Notice} \cup Event :
              [c EXCEPT !.writer = x, !.writing = w] \in Client
<1>1. \A x \in {"none", "registering", "live", "removed"} : [c EXCEPT !.state = x] \in Client
  BY DEF Client
<1>2. \A x \in {"none", "reading", "sending", "leaving", "gone"} : [c EXCEPT !.reader = x] \in Client
  BY DEF Client
<1>3. \A x \in {"none", "idle", "authorized", "gone"}, w \in {None, Notice} \cup Event :
        [c EXCEPT !.writer = x, !.writing = w] \in Client
  BY DEF Client
<1> QED
  BY <1>1, <1>2, <1>3

\* remove changes the state only, to removed, of live sockets.
LEMMA RemovedFacts ==
  ASSUME Typed, NEW S \in SUBSET Sockets
  PROVE  /\ Removed(S) \in [Sockets -> Client] /\ Closed(S) \in [Sockets -> Nat]
         /\ \A s \in Sockets : /\ Removed(S)[s] = IF s \in S /\ Live(s) THEN [sock[s] EXCEPT !.state = "removed"] ELSE sock[s]
                               /\ Closed(S)[s] = IF s \in S /\ Live(s) THEN closes[s] + 1 ELSE closes[s]
<1>1. \A s \in Sockets : sock[s] \in Client /\ closes[s] \in Nat
  BY DEF Typed, TypeOK
<1>2. \A s \in Sockets : [sock[s] EXCEPT !.state = "removed"] \in Client
  BY <1>1, ClientFacts
<1>3. \A s \in Sockets : (IF s \in S /\ Live(s) THEN [sock[s] EXCEPT !.state = "removed"] ELSE sock[s]) \in Client
  BY <1>1, <1>2
<1>4. Removed(S) \in [Sockets -> Client]
  BY <1>3, Zenon DEF Removed
<1>5. Closed(S) \in [Sockets -> Nat]
  BY <1>1 DEF Closed
<1>6. \A s \in Sockets : /\ Removed(S)[s] = IF s \in S /\ Live(s) THEN [sock[s] EXCEPT !.state = "removed"] ELSE sock[s]
                         /\ Closed(S)[s] = IF s \in S /\ Live(s) THEN closes[s] + 1 ELSE closes[s]
  BY Zenon DEF Removed, Closed
<1> QED
  BY <1>4, <1>5, <1>6
LEMMA RemovedFields ==
  ASSUME Typed, NEW S \in SUBSET Sockets, NEW s \in Sockets
  PROVE  /\ Removed(S)[s].state = IF s \in S /\ sock[s].state = "live" THEN "removed" ELSE sock[s].state
         /\ Removed(S)[s].user = sock[s].user /\ Removed(S)[s].room = sock[s].room
         /\ Removed(S)[s].version = sock[s].version
         /\ Removed(S)[s].reader = sock[s].reader /\ Removed(S)[s].text = sock[s].text
         /\ Removed(S)[s].writer = sock[s].writer /\ Removed(S)[s].writing = sock[s].writing
<1>1. sock[s] \in Client
  BY DEF Typed, TypeOK
<1>2. Removed(S)[s] = IF s \in S /\ sock[s].state = "live" THEN [sock[s] EXCEPT !.state = "removed"] ELSE sock[s]
  BY RemovedFacts DEF Live
<1> QED
  BY <1>1, <1>2 DEF Client

-----------------------------------------------------------------------------
(* Types. *)

LEMMA InitTyped == Init => Typed
<1> SUFFICES ASSUME Init PROVE Typed
  OBVIOUS
<1>1. NoClient \in Client
  BY DEF NoClient, Client
<1>2. Select \in [pc: {"select", "persisting", "notifying", "stopped"}, event: {None} \cup Event]
  BY DEF Select
<1>3. /\ traffic \subseteq Ops /\ version \in [Users -> 0..MaxVersion]
      /\ sock \in [Sockets -> Client] /\ queue \in [Sockets -> Seq(Event \cup {Notice})]
      /\ \A s \in Sockets : Len(queue[s]) <= SendBuffer
  BY <1>1, TrafficAssumption DEF Init
<1>4. /\ channel \in Seq(Event) /\ Len(channel) <= Buffer /\ kicks \in Seq(Users) /\ Len(kicks) <= KickBuffer
      /\ hub \in [pc: {"select", "persisting", "notifying", "stopped"}, event: {None} \cup Event]
      /\ sweep \in [running: BOOLEAN, wanted: BOOLEAN, todo: SUBSET Sockets,
                    results: SUBSET (Sockets \X BOOLEAN), done: BOOLEAN]
  BY <1>2 DEF Init
<1> QED
  BY <1>3, <1>4 DEF Init, Typed, TypeOK

\* What the clients may be replaced by.
LEMMA SockUpdate ==
  ASSUME TypeOK, NEW s \in Sockets, NEW c \in Client, sock' = [sock EXCEPT ![s] = c]
  PROVE  sock' \in [Sockets -> Client]
BY DEF TypeOK

\* What the fan-out of an event changes.
LEMMA FanOutTyped ==
  ASSUME Typed, NEW e \in Event, FanOut(e)
  PROVE  /\ queue' \in [Sockets -> Seq(Event \cup {Notice})]
         /\ \A s \in Sockets : Len(queue'[s]) <= SendBuffer
         /\ sock' \in [Sockets -> Client] /\ closes' \in [Sockets -> Nat]
         /\ owed' \in [Sockets -> SUBSET Messages]
         /\ hub' \in [pc: {"select", "persisting", "notifying", "stopped"}, event: {None} \cup Event]
<1>1. e.id \in Messages
  BY EventFacts
<1>2. Slow(e) \subseteq Receivers(e) /\ Receivers(e) \subseteq Sockets
  BY DEF Slow, Receivers
<1>3. sock' \in [Sockets -> Client] /\ closes' \in [Sockets -> Nat]
  BY <1>2, RemovedFacts DEF FanOut
<1>4. owed' \in [Sockets -> SUBSET Messages]
  BY <1>1 DEF FanOut, Typed
<1>5. hub' \in [pc: {"select", "persisting", "notifying", "stopped"}, event: {None} \cup Event]
  BY DEF FanOut, After, Select
<1>6. \A s \in Sockets : queue[s] \in Seq(Event \cup {Notice}) /\ Len(queue[s]) <= SendBuffer /\ Len(queue[s]) \in Nat
  BY DEF Typed, TypeOK
<1>7. \A s \in Receivers(e) \ Slow(e) : Len(queue[s]) + 1 <= SendBuffer
  BY <1>2, <1>6 DEF Slow
<1>8. \A s \in Sockets : /\ queue'[s] \in Seq(Event \cup {Notice})
                         /\ Len(queue'[s]) <= SendBuffer
  <2> TAKE s \in Sockets
  <2>1. queue'[s] = IF s \in Receivers(e) \ Slow(e) THEN Append(queue[s], e) ELSE queue[s]
    BY DEF FanOut
  <2> QED
    BY <2>1, <1>6, <1>7
<1>9. queue' = [s \in Sockets |-> queue'[s]]
  BY DEF FanOut
<1>10. queue' \in [Sockets -> Seq(Event \cup {Notice})]
  BY <1>8, <1>9, Zenon
<1> QED
  BY <1>3, <1>4, <1>5, <1>8, <1>10
\* A revalidation with some of its fields replaced.
Sweeps == [running: BOOLEAN, wanted: BOOLEAN, todo: SUBSET Sockets,
           results: SUBSET (Sockets \X BOOLEAN), done: BOOLEAN]
LEMMA SweepFacts ==
  ASSUME NEW r \in Sweeps, NEW b \in BOOLEAN, NEW todo \in SUBSET Sockets,
         NEW results \in SUBSET (Sockets \X BOOLEAN), NEW done \in BOOLEAN
  PROVE  /\ [r EXCEPT !.todo = todo, !.results = results, !.done = done] \in Sweeps
         /\ [r EXCEPT !.results = results] \in Sweeps
         /\ [r EXCEPT !.running = b, !.todo = todo] \in Sweeps
         /\ [r EXCEPT !.running = b] \in Sweeps /\ [r EXCEPT !.wanted = b] \in Sweeps
         /\ [r EXCEPT !.done = FALSE, !.running = FALSE] \in Sweeps
BY DEF Sweeps

\* A step of the sockets' own, or of the handlers: the loop is left alone.
LEMMA ClientStepTyped ==
  ASSUME Typed, NEW s \in Sockets, NEW c \in Client, sock' = [sock EXCEPT ![s] = c],
         used \subseteq used', used' \subseteq Messages, channel' \in Seq(Event), Len(channel') <= Buffer,
         UNCHANGED <<accounts, kicking, queue, posting, hub, kicks, sweep, stored, stopping, history>>
  PROVE  Typed'
<1>1. sock' \in [Sockets -> Client]
  BY SockUpdate DEF Typed
<1>2. stored' \subseteq used'
  BY DEF Typed, TypeOK
<1> QED
  BY <1>1, <1>2 DEF Typed, TypeOK, accounts, history

LEMMA SocketTyped ==
  ASSUME Typed, EventsUsed, Newcomers, NEW s \in Sockets,
         (\E u \in Users, g \in Rooms : ServeWs(s, u, g)) \/ Register(s) \/ Pumps(s)
  PROVE  Typed'
<1>0. /\ sock[s] \in Client /\ DOMAIN sock = Sockets
      /\ Len(channel) \in Nat /\ used \subseteq Messages /\ channel \in Seq(Event) /\ Len(channel) <= Buffer
  BY DEF Typed, TypeOK
<1>1. ASSUME NEW u \in Users, NEW g \in Rooms, ServeWs(s, u, g)
      PROVE  Typed'
  <2> DEFINE c == [NoClient EXCEPT !.user = u, !.room = g, !.version = version[u], !.state = "registering"]
  <2>0. version[u] \in Nat
    BY DEF Typed, TypeOK
  <2>1. c \in Client
    BY <2>0 DEF NoClient, Client
  <2> QED
    BY <1>0, <1>1, <2>1, ClientStepTyped DEF ServeWs, loop
<1>2. CASE Register(s)
  <2> DEFINE c == [sock[s] EXCEPT !.state = "live", !.reader = "reading", !.writer = "idle"]
  <2>1. c \in Client
    BY <1>0 DEF Client
  <2>2. sock' = [sock EXCEPT ![s] = c]
    BY <1>0, <1>2 DEF Register
  <2> QED
    BY <1>0, <1>2, <2>1, <2>2, ClientStepTyped DEF Register, loop
<1>3. ASSUME NEW m \in Messages, NEW cached \in BOOLEAN, ReadMessage(s, m, cached)
      PROVE  Typed'
  <2> DEFINE e == [id |-> m, room |-> sock[s].room, author |-> sock[s].user, kind |-> "text", sender |-> s]
             c == [sock[s] EXCEPT !.reader = "sending", !.checked = TRUE, !.text = e]
             d == [sock[s] EXCEPT !.reader = "leaving"]
  <2>1. sock[s].reader = "reading"
    BY <1>3 DEF ReadMessage
  <2>2. sock[s].user \in Users /\ sock[s].room \in Rooms
    BY <1>0, <2>1 DEF Newcomers, Newcomer, Client
  <2>3. e \in Event
    BY <2>2 DEF Event, Kinds
  <2>4. c \in Client /\ d \in Client
    BY <1>0, <2>3 DEF Client
  <2>5. CASE cached \/ Valid(s)
    <3>1. sock' = [sock EXCEPT ![s] = c] /\ used' = used \cup {m}
      BY <1>0, <1>3, <2>5 DEF ReadMessage
    <3>2. /\ UNCHANGED <<accounts, kicking, queue, posting, hub, kicks, sweep, stored, stopping, history>>
          /\ channel' = channel
      BY <1>3 DEF ReadMessage, loop
    <3>3. used \subseteq used' /\ used' \subseteq Messages /\ channel' \in Seq(Event) /\ Len(channel') <= Buffer
      BY <1>0, <3>1, <3>2
    <3> HIDE DEF c
    <3> QED
      BY <2>4, <3>1, <3>2, <3>3, ClientStepTyped
  <2>6. CASE ~(cached \/ Valid(s))
    <3>1. sock' = [sock EXCEPT ![s] = d] /\ used' = used
      BY <1>0, <1>3, <2>6 DEF ReadMessage
    <3> QED
      BY <1>0, <1>3, <2>4, <3>1, ClientStepTyped DEF ReadMessage, loop
  <2> QED
    BY <2>5, <2>6
<1>4. CASE BroadcastFrom(s)
  <2> DEFINE c == [sock[s] EXCEPT !.reader = "reading", !.text = None]
  <2>1. c \in Client /\ sock' = [sock EXCEPT ![s] = c]
    BY <1>0, <1>4 DEF Client, BroadcastFrom
  <2>2. sock[s].text \in Event
    BY <1>4 DEF BroadcastFrom, EventsUsed
  <2>3. channel' \in Seq(Event) /\ Len(channel') <= Buffer
    BY <1>0, <1>4, <2>2 DEF BroadcastFrom
  <2> QED
    BY <1>0, <1>4, <2>1, <2>3, ClientStepTyped DEF BroadcastFrom
<1>5. CASE ReadInvalid(s)
  <2>1. queue[s] \in Seq(Event \cup {Notice}) /\ Len(queue[s]) \in Nat
    BY DEF Typed, TypeOK
  <2>2. Append(queue[s], Notice) \in Seq(Event \cup {Notice}) /\ Len(Append(queue[s], Notice)) <= SendBuffer
    BY <1>5, <2>1 DEF ReadInvalid
  <2> QED
    BY <1>5, <2>2 DEF ReadInvalid, Typed, TypeOK, accounts, loop, history
<1>6. CASE ReadFails(s) \/ ReaderLeaves(s)
  <2> DEFINE c(x) == [sock[s] EXCEPT !.reader = x]
  <2>1. c("leaving") \in Client /\ c("gone") \in Client
    BY <1>0 DEF Client
  <2>2. sock' = [sock EXCEPT ![s] = c("leaving")] \/ sock' = [sock EXCEPT ![s] = c("gone")]
    BY <1>0, <1>6 DEF ReadFails, ReaderLeaves
  <2>3. UNCHANGED <<accounts, kicking, queue, posting, used, loop, stored, stopping, history>>
    BY <1>6 DEF ReadFails, ReaderLeaves
  <2> QED
    BY <1>0, <2>1, <2>2, <2>3, ClientStepTyped DEF loop
<1>7. CASE Authorize(s)
  <2> DEFINE e == Head(queue[s])
             good == Deliverable(e, sock[s].user)
             c == [sock[s] EXCEPT !.writer = IF good THEN "authorized" ELSE "idle", !.writing = IF good THEN e ELSE None]
  <2>1. queue[s] \in Seq(Event \cup {Notice}) /\ queue[s] # <<>> /\ Len(queue[s]) <= SendBuffer
    BY <1>7 DEF Authorize, Typed, TypeOK
  <2>2. e \in Event \cup {Notice}
    BY <2>1
  <2>3. Tail(queue[s]) \in Seq(Event \cup {Notice}) /\ Len(Tail(queue[s])) <= SendBuffer
    BY <2>1
  <2>4. c \in Client
    <3>1. (IF good THEN "authorized" ELSE "idle") \in {"none", "idle", "authorized", "gone"}
      OBVIOUS
    <3>2. (IF good THEN e ELSE None) \in {None, Notice} \cup Event
      BY <2>2
    <3> QED
      BY <1>0, <3>1, <3>2, ClientFacts, Zenon
  <2>5. sock' = [sock EXCEPT ![s] = c]
    BY <1>0, <1>7 DEF Authorize
  <2>6. sock' \in [Sockets -> Client]
    BY <2>4, <2>5, SockUpdate DEF Typed
  <2>7. handled' \in [Sockets -> SUBSET Messages]
    BY <1>7, <2>2, EventFacts DEF Authorize, Typed
  <2>8. queue' \in [Sockets -> Seq(Event \cup {Notice})] /\ \A t \in Sockets : Len(queue'[t]) <= SendBuffer
    BY <1>7, <2>3 DEF Authorize, Typed, TypeOK
  <2> QED
    BY <1>7, <2>6, <2>7, <2>8 DEF Authorize, Typed, TypeOK, accounts, loop
<1>8. CASE WriterEnds(s) \/ \E ok \in BOOLEAN : Write(s, ok)
  <2>1. PICK x \in {"idle", "gone"}, w \in {None, sock[s].writing} :
          sock' = [sock EXCEPT ![s] = [sock[s] EXCEPT !.writer = x, !.writing = w]]
    <3>1. CASE WriterEnds(s)
      <4>1. sock' = [sock EXCEPT ![s] = [sock[s] EXCEPT !.writer = "gone", !.writing = sock[s].writing]]
        BY <1>0, <3>1 DEF WriterEnds, Client
      <4> QED
        BY <4>1
    <3>2. ASSUME NEW ok \in BOOLEAN, Write(s, ok)
          PROVE  sock' = [sock EXCEPT ![s] = [sock[s] EXCEPT !.writer = IF ok THEN "idle" ELSE "gone", !.writing = None]]
      BY <1>0, <3>2 DEF Write
    <3> QED
      BY <1>8, <3>1, <3>2
  <2>2. [sock[s] EXCEPT !.writer = x, !.writing = w] \in Client
    <3>1. w \in {None, Notice} \cup Event
      BY <1>0 DEF Client
    <3> QED
      BY <1>0, <3>1, ClientFacts
  <2>3. UNCHANGED <<accounts, kicking, queue, posting, used, loop, stored, stopping, history>>
    BY <1>8 DEF WriterEnds, Write
  <2> QED
    BY <1>0, <2>1, <2>2, <2>3, ClientStepTyped DEF loop
<1>9. ASSUME NEW ok \in BOOLEAN, RevalidateClient(s, ok)
      PROVE  Typed'
  <2>1. sweep' \in Sweeps
    <3>1. /\ sweep.todo \ {s} \in SUBSET Sockets /\ (sweep.todo = {s}) \in BOOLEAN
          /\ sweep.results \cup {<<s, ok>>} \in SUBSET (Sockets \X BOOLEAN)
      BY DEF Typed, TypeOK
    <3>2. sweep \in Sweeps
      BY DEF Typed, TypeOK, Sweeps
    <3> QED
      BY <1>9, <3>1, <3>2, SweepFacts DEF RevalidateClient
  <2> QED
    BY <1>9, <2>1 DEF RevalidateClient, Typed, TypeOK, Sweeps, accounts, history
<1> QED
  BY <1>1, <1>2, <1>3, <1>4, <1>5, <1>6, <1>7, <1>8, <1>9, Zenon DEF Pumps
\* A step of the loop.
LEMMA LoopTyped ==
  ASSUME Typed, EventsUsed, Newcomers, Run
  PROVE  Typed'
<1> DEFINE HubType == [pc: {"select", "persisting", "notifying", "stopped"}, event: {None} \cup Event]
<1>0. /\ channel \in Seq(Event) /\ Len(channel) <= Buffer /\ kicks \in Seq(Users) /\ Len(kicks) <= KickBuffer
      /\ hub \in HubType /\ sweep \in Sweeps
  BY DEF Typed, TypeOK, Sweeps
<1>1. channel # <<>> => /\ Head(channel) \in Event /\ Tail(channel) \in Seq(Event)
                        /\ Len(Tail(channel)) <= Buffer
  BY <1>0
<1>2. CASE TakeStored
  BY <1>1, <1>2, FanOutTyped DEF TakeStored, Typed, TypeOK, accounts
<1>3. CASE TakeNew
  <2>1. hub' \in HubType
    BY <1>1, <1>3 DEF TakeNew
  <2> QED
    BY <1>1, <1>3, <2>1 DEF TakeNew, Typed, TypeOK, accounts, history
<1>4. CASE Persist
  <2>1. hub.event \in Event /\ hub.event.id \in used
    BY <1>4 DEF Persist, EventsUsed
  <2> QED
    BY <1>4, <2>1, FanOutTyped DEF Persist, Typed, TypeOK, accounts
<1>5. CASE PersistFails
  <2> DEFINE s == hub.event.sender
  <2>1. s \in Sockets \cup {None}
    BY <1>5, EventFacts DEF PersistFails, EventsUsed
  <2>2. \A t \in Sockets : queue[t] \in Seq(Event \cup {Notice}) /\ Len(queue[t]) \in Nat /\ Len(queue[t]) <= SendBuffer
    BY DEF Typed, TypeOK
  <2>3. s \in Sockets /\ Len(queue[s]) < SendBuffer =>
          Append(queue[s], Notice) \in Seq(Event \cup {Notice}) /\ Len(Append(queue[s], Notice)) <= SendBuffer
    BY <2>2
  <2>4. queue' \in [Sockets -> Seq(Event \cup {Notice})] /\ \A t \in Sockets : Len(queue'[t]) <= SendBuffer
    BY <1>5, <2>1, <2>2, <2>3 DEF PersistFails, Typed, TypeOK
  <2>5. hub' \in HubType
    BY <1>5 DEF PersistFails, Select
  <2> QED
    BY <1>5, <2>4, <2>5 DEF PersistFails, Typed, TypeOK, accounts, history
<1>6. CASE Notify
  <2>1. hub' \in HubType
    BY <1>6 DEF Notify, Select
  <2> QED
    BY <1>6, <2>1 DEF Notify, Typed, TypeOK, accounts, history
<1>7. CASE DisconnectSockets
  <2>1. Head(kicks) \in Users /\ Tail(kicks) \in Seq(Users) /\ Len(Tail(kicks)) <= KickBuffer
    BY <1>0, <1>7 DEF DisconnectSockets
  <2>2. ToDisconnect(Head(kicks)) \subseteq Sockets
    BY DEF ToDisconnect, LiveOf
  <2>3. sock' \in [Sockets -> Client] /\ closes' \in [Sockets -> Nat]
    BY <1>7, <2>2, RemovedFacts DEF DisconnectSockets
  <2> QED
    BY <1>7, <2>1, <2>3 DEF DisconnectSockets, Typed, TypeOK, accounts
<1>8. CASE Tick \/ RevalidationDone
  <2>1. ASSUME NEW r \in Sweeps
        PROVE  Started(r) \in Sweeps
    <3>1. {s \in Sockets : Live(s)} \in SUBSET Sockets
      OBVIOUS
    <3> QED
      BY <3>1, SweepFacts DEF Started
  <2>2. NextSweep \in Sweeps
    BY <1>0, <2>1, SweepFacts DEF NextSweep
  <2>3. sweep' \in Sweeps
    BY <1>0, <1>8, <2>1, <2>2, SweepFacts DEF Tick, RevalidationDone
  <2> QED
    BY <1>8, <2>3 DEF Tick, RevalidationDone, Typed, TypeOK, Sweeps, accounts, history
<1>9. CASE RunEnds
  <2>1. hub' \in HubType
    BY <1>9 DEF RunEnds
  <2>2. sock' \in [Sockets -> Client] /\ closes' \in [Sockets -> Nat]
    BY <1>9, RemovedFacts DEF RunEnds
  <2> QED
    BY <1>9, <2>1, <2>2 DEF RunEnds, Typed, TypeOK, accounts
<1>10. ASSUME NEW s \in Sockets, Unregister(s)
       PROVE  Typed'
  <2>1. /\ Removed({s}) \in [Sockets -> Client] /\ Closed({s}) \in [Sockets -> Nat]
    BY RemovedFacts
  <2>2. [Removed({s})[s] EXCEPT !.reader = "gone"] \in Client
    BY <2>1, ClientFacts
  <2>3. sock' \in [Sockets -> Client] /\ closes' \in [Sockets -> Nat]
    BY <1>10, <2>1, <2>2 DEF Unregister
  <2> QED
    BY <1>10, <2>3 DEF Unregister, Typed, TypeOK, accounts, loop
<1>11. ASSUME NEW s \in Sockets, NEW ok \in BOOLEAN, RevalidationResult(s, ok)
       PROVE  Typed'
  <2>1. sweep' \in Sweeps
    <3>1. sweep.results \ {<<s, ok>>} \in SUBSET (Sockets \X BOOLEAN)
      BY <1>0 DEF Sweeps
    <3> QED
      BY <1>0, <1>11, <3>1, SweepFacts DEF RevalidationResult
  <2>2. sock' \in [Sockets -> Client] /\ closes' \in [Sockets -> Nat]
    BY <1>11, RemovedFacts DEF RevalidationResult, Typed, TypeOK
  <2> QED
    BY <1>11, <2>1, <2>2 DEF RevalidationResult, Typed, TypeOK, Sweeps, accounts
<1>12. ASSUME NEW s \in Sockets, Register(s)
       PROVE  Typed'
  BY <1>12, SocketTyped
<1> QED
  BY <1>2, <1>3, <1>4, <1>5, <1>6, <1>7, <1>8, <1>9, <1>10, <1>11, <1>12, Zenon DEF Run

LEMMA HandlersTyped ==
  ASSUME Typed, EventsUsed, Newcomers, Handlers \/ Stop
  PROVE  Typed'
<1>1. ASSUME NEW s \in Sockets, NEW u \in Users, NEW g \in Rooms, ServeWs(s, u, g)
      PROVE  Typed'
  BY <1>1, SocketTyped
<1>2. ASSUME NEW m \in Messages, NEW u \in Users, NEW g \in Rooms, NEW kind \in Kinds, Post(m, u, g, kind)
      PROVE  Typed'
  <2>1. [id |-> m, room |-> g, author |-> u, kind |-> kind, sender |-> None] \in Event
    BY DEF Event
  <2> QED
    BY <1>2, <2>1 DEF Post, Typed, TypeOK, accounts, loop, history
<1>3. ASSUME NEW e \in posting, Broadcast(e)
      PROVE  Typed'
  <2>1. channel' \in Seq(Event) /\ Len(channel') <= Buffer
    BY <1>3 DEF Broadcast, Typed, TypeOK
  <2> QED
    BY <1>3, <2>1 DEF Broadcast, Typed, TypeOK, accounts, history
<1>4. ASSUME NEW u \in Users, NEW v \in Users, ChangeBlock(u, v)
      PROVE  Typed'
  <2>1. blocked' \subseteq Users \X Users
    BY <1>4 DEF ChangeBlock, Typed, TypeOK
  <2>2. UNCHANGED <<traffic, active, version, kicking, sock, queue, posting, used, loop, stored, stopping, history>>
    BY <1>4 DEF ChangeBlock
  <2> QED
    BY <2>1, <2>2 DEF Typed, TypeOK, loop, history
<1>5. ASSUME NEW u \in Users, RevokeCredentials(u)
      PROVE  Typed'
  <2>1. version' \in [Users -> 0..MaxVersion]
    <3>1. version[u] \in 0..MaxVersion /\ version[u] < MaxVersion /\ version \in [Users -> 0..MaxVersion]
      BY <1>5 DEF RevokeCredentials, Typed, TypeOK
    <3> QED
      BY <1>5, <3>1 DEF RevokeCredentials
  <2>2. kicking' \subseteq Users
    BY <1>5 DEF RevokeCredentials, Typed, TypeOK
  <2>3. UNCHANGED <<traffic, active, blocked, sock, queue, posting, used, loop, stored, stopping, history>>
    BY <1>5 DEF RevokeCredentials
  <2> QED
    BY <2>1, <2>2, <2>3 DEF Typed, TypeOK, loop, history
<1>6. ASSUME NEW u \in Users, DeleteAccount(u)
      PROVE  Typed'
  BY <1>6 DEF DeleteAccount, Typed, TypeOK, loop, history
<1>7. ASSUME NEW u \in Users, DisconnectUser(u)
      PROVE  Typed'
  <2>1. kicks \in Seq(Users) /\ Len(kicks) <= KickBuffer /\ Len(kicks) \in Nat
    BY DEF Typed, TypeOK
  <2>2. Len(kicks) < KickBuffer => Append(kicks, u) \in Seq(Users) /\ Len(Append(kicks, u)) <= KickBuffer
    BY <2>1
  <2>3. kicks' \in Seq(Users) /\ Len(kicks') <= KickBuffer
    BY <1>7, <2>1, <2>2 DEF DisconnectUser
  <2> QED
    BY <1>7, <2>3 DEF DisconnectUser, Typed, TypeOK, accounts
<1>8. CASE Stop
  BY <1>8 DEF Stop, Typed, TypeOK, accounts, loop, history
<1> QED
  BY <1>1, <1>2, <1>3, <1>4, <1>5, <1>6, <1>7, <1>8, Zenon DEF Handlers

LEMMA StepTyped ==
  ASSUME Typed, EventsUsed, Newcomers, [Next]_vars
  PROVE  Typed'
<1>1. CASE UNCHANGED vars
  BY <1>1 DEF vars, accounts, loop, history, Typed, TypeOK
<1> QED
  BY <1>1, SocketTyped, LoopTyped, HandlersTyped DEF Next
-----------------------------------------------------------------------------
(* What is known of events and of sockets. *)

LEMMA StepEventsUsed ==
  ASSUME Typed, EventsUsed, Newcomers, [Next]_vars
  PROVE  EventsUsed'
<1>0. /\ channel \in Seq(Event) /\ Len(channel) \in Nat /\ DOMAIN sock = Sockets
      /\ \A s \in Sockets : sock[s] \in Client
  BY DEF Typed, TypeOK
\* Steps after which fewer events wait.
<1>1. ASSUME used \subseteq used', posting' \subseteq posting, channel' = channel,
             \A s \in Sockets : sock'[s].reader = "sending" => sock[s].reader = "sending" /\ sock'[s].text = sock[s].text,
             hub'.pc \in {"persisting", "notifying"} => hub' = hub
      PROVE  EventsUsed'
  BY <1>1 DEF EventsUsed
\* Steps of the loop that take the channel's head.
<1>2. ASSUME channel # <<>>, channel' = Tail(channel)
      PROVE  Head(channel) \in Event /\ Head(channel).id \in used /\ \A i \in 1..Len(channel') : channel'[i].id \in used
  <2>1. Head(channel) = channel[1] /\ 1 \in 1..Len(channel) /\ Head(channel) \in Event
    BY <1>0, <1>2
  <2>2. \A i \in 1..Len(channel') : i + 1 \in 1..Len(channel) /\ channel'[i] = channel[i + 1]
    BY <1>0, <1>2
  <2> QED
    BY <2>1, <2>2 DEF EventsUsed
\* Steps that append an event to the channel.
<1>3. ASSUME NEW e \in Event, e.id \in used, channel' = Append(channel, e)
      PROVE  \A i \in 1..Len(channel') : channel'[i].id \in used
  <2>1. \A i \in 1..Len(channel') : IF i \in 1..Len(channel) THEN channel'[i] = channel[i] ELSE channel'[i] = e
    BY <1>0, <1>3
  <2> QED
    BY <1>3, <2>1 DEF EventsUsed
<1>4. \A S \in SUBSET Sockets : \A s \in Sockets : Removed(S)[s].reader = sock[s].reader /\ Removed(S)[s].text = sock[s].text
  BY RemovedFields
<1>5. CASE TakeStored
  <2> DEFINE e == Head(channel)
  <2>1. Slow(e) \subseteq Sockets /\ hub' = After(e) /\ used' = used /\ posting' = posting
    BY <1>5 DEF TakeStored, FanOut, Slow, Receivers
  <2>2. hub'.pc \in {"persisting", "notifying"} => hub'.event = e
    BY <2>1 DEF After, Select
  <2> QED
    BY <1>2, <1>4, <1>5, <2>1, <2>2 DEF TakeStored, FanOut, EventsUsed
<1>6. CASE TakeNew
  BY <1>2, <1>6 DEF TakeNew, EventsUsed
<1>7. CASE Persist
  <2> DEFINE e == hub.event
  <2>1. Slow(e) \subseteq Sockets /\ hub' = After(e) /\ used' = used /\ posting' = posting /\ channel' = channel
    BY <1>7 DEF Persist, FanOut, Slow, Receivers
  <2>2. hub'.pc \in {"persisting", "notifying"} => hub'.event = e
    BY <2>1 DEF After, Select
  <2> QED
    BY <1>4, <1>7, <2>1, <2>2 DEF Persist, FanOut, EventsUsed
<1>8. CASE PersistFails \/ Notify \/ Tick \/ RevalidationDone
  BY <1>1, <1>8 DEF PersistFails, Notify, Tick, RevalidationDone, Select, accounts
<1>9. CASE DisconnectSockets
  <2>1. ToDisconnect(Head(kicks)) \subseteq Sockets
    BY DEF ToDisconnect, LiveOf
  <2> QED
    BY <1>1, <1>4, <1>9, <2>1 DEF DisconnectSockets
<1>10. CASE RunEnds
  BY <1>1, <1>4, <1>10 DEF RunEnds
<1>11. ASSUME NEW s \in Sockets, NEW ok \in BOOLEAN, RevalidationResult(s, ok)
       PROVE  EventsUsed'
  BY <1>1, <1>4, <1>11 DEF RevalidationResult
<1>12. ASSUME NEW s \in Sockets, Unregister(s)
       PROVE  EventsUsed'
  <2>1. \A t \in Sockets : sock'[t].reader = "sending" => sock[t].reader = "sending" /\ sock'[t].text = sock[t].text
    <3>1. Removed({s}) \in [Sockets -> Client]
      BY RemovedFacts
    <3> QED
      BY <1>4, <1>12, <3>1 DEF Unregister, Client
  <2> QED
    BY <1>1, <1>12, <2>1 DEF Unregister, loop
<1>13. ASSUME NEW s \in Sockets, Register(s) \/ (\E u \in Users, g \in Rooms : ServeWs(s, u, g))
       PROVE  EventsUsed'
  <2>1. CASE Register(s)
    BY <1>0, <1>1, <2>1 DEF Register, Client, loop
  <2>2. ASSUME NEW u \in Users, NEW g \in Rooms, ServeWs(s, u, g)
        PROVE  EventsUsed'
    <3>1. sock'[s].reader = "none" /\ \A t \in Sockets \ {s} : sock'[t] = sock[t]
      BY <1>0, <2>2 DEF ServeWs, NoClient
    <3> QED
      BY <1>1, <2>2, <3>1 DEF ServeWs, loop
  <2> QED
    BY <1>13, <2>1, <2>2
<1>14. ASSUME NEW m \in Messages, NEW u \in Users, NEW g \in Rooms, NEW kind \in Kinds, Post(m, u, g, kind)
       PROVE  EventsUsed'
  BY <1>14 DEF Post, loop, EventsUsed
<1>15. ASSUME NEW e \in posting, Broadcast(e)
       PROVE  EventsUsed'
  <2>1. e \in Event /\ e.id \in used
    BY DEF Typed, TypeOK, EventsUsed
  <2> QED
    BY <1>3, <1>15, <2>1 DEF Broadcast, EventsUsed
<1>16. CASE Stop \/ \E u, v \in Users : ChangeBlock(u, v) \/ RevokeCredentials(u) \/ DeleteAccount(u) \/ DisconnectUser(u)
  BY <1>1, <1>16 DEF Stop, ChangeBlock, RevokeCredentials, DeleteAccount, DisconnectUser, loop
<1>17. ASSUME NEW s \in Sockets, NEW m \in Messages, NEW cached \in BOOLEAN, ReadMessage(s, m, cached)
       PROVE  EventsUsed'
  <2> DEFINE e == [id |-> m, room |-> sock[s].room, author |-> sock[s].user, kind |-> "text", sender |-> s]
  <2>1. sock[s].user \in Users /\ sock[s].room \in Rooms
    BY <1>0, <1>17 DEF ReadMessage, Newcomers, Newcomer, Client
  <2>2. e \in Event /\ e.id = m
    BY <2>1 DEF Event, Kinds
  <2>3. UNCHANGED <<posting, channel, hub>>
    BY <1>17 DEF ReadMessage, loop
  <2>4. used \subseteq used'
    BY <1>17 DEF ReadMessage
  <2>5. ASSUME NEW t \in Sockets, sock'[t].reader = "sending"
        PROVE  sock'[t].text \in Event /\ sock'[t].text.id \in used'
    <3>1. CASE t = s
      BY <1>0, <1>17, <2>2, <2>5, <3>1 DEF ReadMessage, Client
    <3>2. CASE t # s
      BY <1>0, <1>17, <2>4, <2>5, <3>2 DEF ReadMessage, EventsUsed
    <3> QED
      BY <3>1, <3>2
  <2> QED
    BY <2>3, <2>4, <2>5 DEF EventsUsed
<1>18. ASSUME NEW s \in Sockets, BroadcastFrom(s)
       PROVE  EventsUsed'
  <2>1. sock[s].text \in Event /\ sock[s].text.id \in used
    BY <1>18 DEF BroadcastFrom, EventsUsed
  <2> QED
    BY <1>0, <1>3, <1>18, <2>1 DEF BroadcastFrom, EventsUsed, Client
<1>19. ASSUME NEW s \in Sockets, ReadInvalid(s) \/ ReadFails(s) \/ ReaderLeaves(s)
       PROVE  EventsUsed'
  BY <1>0, <1>1, <1>19 DEF ReadInvalid, ReadFails, ReaderLeaves, Client, loop
<1>20. ASSUME NEW s \in Sockets, Authorize(s) \/ WriterEnds(s)
       PROVE  EventsUsed'
  BY <1>0, <1>1, <1>20 DEF Authorize, WriterEnds, Client, loop
<1>21. ASSUME NEW s \in Sockets, NEW ok \in BOOLEAN, Write(s, ok) \/ RevalidateClient(s, ok)
       PROVE  EventsUsed'
  BY <1>0, <1>1, <1>21 DEF Write, RevalidateClient, Client, loop
<1>22. CASE UNCHANGED vars
  BY <1>1, <1>22 DEF vars, loop
<1> QED
  BY <1>5, <1>6, <1>7, <1>8, <1>9, <1>10, <1>11, <1>12, <1>13, <1>14, <1>15, <1>16, <1>17, <1>18, <1>19, <1>20,
     <1>21, <1>22, Zenon DEF Next, Run, Pumps, Handlers

LEMMA StepNewcomers ==
  ASSUME Typed, EventsUsed, Newcomers, [Next]_vars
  PROVE  Newcomers'
<1>0. /\ DOMAIN sock = Sockets /\ DOMAIN queue = Sockets /\ DOMAIN owed = Sockets /\ DOMAIN handled = Sockets
      /\ \A s \in Sockets : sock[s] \in Client /\ queue[s] \in Seq(Event \cup {Notice})
  BY DEF Typed, TypeOK
\* Steps that make no newcomer.
<1>1. ASSUME \A s \in Sockets : /\ sock'[s].state \in {"none", "registering"} => sock'[s] = sock[s]
                                /\ sock'[s].state # "none" => sock[s].state # "none" /\ sock'[s].user = sock[s].user
                                                              /\ sock'[s].room = sock[s].room,
             \A s \in Sockets : Newcomer(s) => /\ owed'[s] = owed[s] /\ handled'[s] = handled[s]
                                               /\ QueuedIds(queue'[s]) = QueuedIds(queue[s])
      PROVE  Newcomers'
  <2>1. ASSUME NEW s \in Sockets, sock'[s].state \in {"none", "registering"}
        PROVE  /\ sock'[s].reader = "none" /\ sock'[s].writer = "none"
               /\ owed'[s] = {} /\ handled'[s] = {} /\ QueuedIds(queue'[s]) = {}
    BY <1>1, <2>1 DEF Newcomers, Newcomer
  <2>2. ASSUME NEW s \in Sockets, sock'[s].state # "none"
        PROVE  sock'[s].user \in Users /\ sock'[s].room \in Rooms
    BY <1>1, <2>2 DEF Newcomers
  <2> QED
    BY <2>1, <2>2 DEF Newcomers, Newcomer
<1>2. \A S \in SUBSET Sockets : \A s \in Sockets :
        /\ Removed(S)[s].state \in {"none", "registering"} => Removed(S)[s] = sock[s]
        /\ Removed(S)[s].state # "none" => sock[s].state # "none"
        /\ Removed(S)[s].user = sock[s].user /\ Removed(S)[s].room = sock[s].room
  <2> TAKE S \in SUBSET Sockets
  <2> TAKE s \in Sockets
  <2>1. Removed(S)[s].state = IF s \in S /\ sock[s].state = "live" THEN "removed" ELSE sock[s].state
    BY RemovedFields
  <2>2. Removed(S)[s].user = sock[s].user /\ Removed(S)[s].room = sock[s].room
    BY RemovedFields
  <2>3. Removed(S)[s] = IF s \in S /\ sock[s].state = "live" THEN [sock[s] EXCEPT !.state = "removed"] ELSE sock[s]
    BY RemovedFacts DEF Live
  <2> QED
    BY <2>1, <2>2, <2>3
<1>3. ASSUME NEW e \in Event, FanOut(e), handled' = handled
      PROVE  Newcomers'
  <2>1. Slow(e) \subseteq Sockets
    BY DEF Slow, Receivers
  <2>2. \A s \in Sockets : Newcomer(s) => owed'[s] = owed[s] /\ queue'[s] = queue[s]
    BY <1>0, <1>3 DEF FanOut, Receivers, Live, Newcomer
  <2>3. \A s \in Sockets : sock'[s] = Removed(Slow(e))[s]
    BY <1>3 DEF FanOut
  <2> QED
    BY <1>1, <1>2, <1>3, <2>1, <2>2, <2>3
<1>4. CASE TakeStored
  <2>1. Head(channel) \in Event
    BY <1>4 DEF TakeStored, Typed, TypeOK
  <2> QED
    BY <1>3, <1>4, <2>1 DEF TakeStored
<1>5. CASE Persist
  BY <1>3, <1>5 DEF Persist, EventsUsed
<1>6. CASE PersistFails
  <2>1. \A s \in Sockets : queue'[s] = queue[s] \/ queue'[s] = Append(queue[s], Notice)
    BY <1>0, <1>6 DEF PersistFails
  <2>2. \A s \in Sockets : QueuedIds(queue'[s]) = QueuedIds(queue[s])
    BY <1>0, <2>1, QueuedIdsAppend
  <2> QED
    BY <1>1, <1>6, <2>2 DEF PersistFails, history
<1>7. CASE TakeNew \/ Notify \/ Tick \/ RevalidationDone
  BY <1>1, <1>7 DEF TakeNew, Notify, Tick, RevalidationDone, history
<1>8. CASE DisconnectSockets
  <2>1. ToDisconnect(Head(kicks)) \subseteq Sockets
    BY DEF ToDisconnect, LiveOf
  <2> QED
    BY <1>1, <1>2, <1>8, <2>1 DEF DisconnectSockets
<1>9. CASE RunEnds
  BY <1>1, <1>2, <1>9 DEF RunEnds
<1>10. ASSUME NEW s \in Sockets, NEW ok \in BOOLEAN, RevalidationResult(s, ok)
       PROVE  Newcomers'
  BY <1>1, <1>2, <1>10 DEF RevalidationResult
<1>11. ASSUME NEW s \in Sockets, Unregister(s)
       PROVE  Newcomers'
  <2>1. sock[s].state \in {"live", "removed"}
    BY <1>0, <1>11 DEF Unregister, Newcomers, Newcomer, Client
  <2>2. Removed({s}) \in [Sockets -> Client]
    BY RemovedFacts
  <2>3. /\ sock'[s].state = "removed" /\ sock'[s].user = sock[s].user /\ sock'[s].room = sock[s].room
        /\ \A t \in Sockets \ {s} : sock'[t] = Removed({s})[t]
    BY <1>11, <2>1, <2>2, RemovedFields DEF Unregister, Client
  <2>4. UNCHANGED <<owed, handled, queue>>
    BY <1>11 DEF Unregister
  <2> QED
    BY <1>1, <1>2, <2>1, <2>3, <2>4
<1>12. ASSUME NEW s \in Sockets, Register(s)
       PROVE  Newcomers'
  BY <1>0, <1>12 DEF Register, Newcomers, Newcomer, Client, history
<1>13. ASSUME NEW s \in Sockets, NEW u \in Users, NEW g \in Rooms, ServeWs(s, u, g)
       PROVE  Newcomers'
  <2>1. /\ sock'[s].reader = "none" /\ sock'[s].writer = "none" /\ sock'[s].user = u /\ sock'[s].room = g
        /\ \A t \in Sockets \ {s} : sock'[t] = sock[t]
    BY <1>0, <1>13 DEF ServeWs, NoClient
  <2> QED
    BY <1>13, <2>1 DEF ServeWs, Newcomers, Newcomer, history
<1>14. CASE Stop \/ \E u, v \in Users : ChangeBlock(u, v) \/ RevokeCredentials(u) \/ DeleteAccount(u) \/ DisconnectUser(u)
  <2>1. UNCHANGED <<sock, queue, owed, handled>>
    <3>1. CASE Stop
      BY <3>1 DEF Stop, history
    <3>2. ASSUME NEW u \in Users, NEW v \in Users, ChangeBlock(u, v) PROVE UNCHANGED <<sock, queue, owed, handled>>
      BY <3>2 DEF ChangeBlock, history
    <3>3. ASSUME NEW u \in Users, RevokeCredentials(u) PROVE UNCHANGED <<sock, queue, owed, handled>>
      BY <3>3 DEF RevokeCredentials, history
    <3>4. ASSUME NEW u \in Users, DeleteAccount(u) PROVE UNCHANGED <<sock, queue, owed, handled>>
      BY <3>4 DEF DeleteAccount, history
    <3>5. ASSUME NEW u \in Users, DisconnectUser(u) PROVE UNCHANGED <<sock, queue, owed, handled>>
      BY <3>5 DEF DisconnectUser
    <3> QED
      BY <1>14, <3>1, <3>2, <3>3, <3>4, <3>5
  <2> QED
    BY <1>1, <2>1
<1>15. ASSUME NEW m \in Messages, NEW u \in Users, NEW g \in Rooms, NEW kind \in Kinds, Post(m, u, g, kind)
       PROVE  Newcomers'
  BY <1>1, <1>15 DEF Post, history
<1>16. ASSUME NEW e \in posting, Broadcast(e)
       PROVE  Newcomers'
  BY <1>1, <1>16 DEF Broadcast, history
\* The pumps.
<1>17. ASSUME NEW s \in Sockets, sock[s].reader # "none" \/ sock[s].writer # "none",
              \A t \in Sockets \ {s} : sock'[t] = sock[t] /\ queue'[t] = queue[t] /\ owed'[t] = owed[t] /\ handled'[t] = handled[t],
              sock'[s].state = sock[s].state, sock'[s].user = sock[s].user, sock'[s].room = sock[s].room
       PROVE  Newcomers'
  BY <1>17 DEF Newcomers, Newcomer
<1>18. ASSUME NEW s \in Sockets, NEW m \in Messages, NEW cached \in BOOLEAN, ReadMessage(s, m, cached)
       PROVE  Newcomers'
  BY <1>0, <1>17, <1>18 DEF ReadMessage, Client, history
<1>19. ASSUME NEW s \in Sockets, BroadcastFrom(s) \/ ReadInvalid(s) \/ ReadFails(s) \/ ReaderLeaves(s)
       PROVE  Newcomers'
  <2>1. CASE BroadcastFrom(s)
    BY <1>0, <1>17, <2>1 DEF BroadcastFrom, Client, history
  <2>2. CASE ReadInvalid(s)
    BY <1>0, <1>17, <2>2 DEF ReadInvalid, Client, history
  <2>3. CASE ReadFails(s)
    BY <1>0, <1>17, <2>3 DEF ReadFails, Client, history
  <2>4. CASE ReaderLeaves(s)
    BY <1>0, <1>17, <2>4 DEF ReaderLeaves, Client, history
  <2> QED
    BY <1>19, <2>1, <2>2, <2>3, <2>4
<1>20. ASSUME NEW s \in Sockets, Authorize(s) \/ WriterEnds(s)
       PROVE  Newcomers'
  BY <1>0, <1>17, <1>20 DEF Authorize, WriterEnds, Writable, Client, history
<1>21. ASSUME NEW s \in Sockets, NEW ok \in BOOLEAN, Write(s, ok)
       PROVE  Newcomers'
  BY <1>0, <1>17, <1>21 DEF Write, Client, history
<1>22. ASSUME NEW s \in Sockets, NEW ok \in BOOLEAN, RevalidateClient(s, ok)
       PROVE  Newcomers'
  BY <1>1, <1>22 DEF RevalidateClient, history
<1>23. CASE UNCHANGED vars
  BY <1>1, <1>23 DEF vars, history
<1> QED
  BY <1>4, <1>5, <1>6, <1>7, <1>8, <1>9, <1>10, <1>11, <1>12, <1>13, <1>14, <1>15, <1>16, <1>18, <1>19, <1>20,
     <1>21, <1>22, <1>23, Zenon DEF Next, Run, Pumps, Handlers
-----------------------------------------------------------------------------
(* What a step does to a socket. *)

LEMMA SocketSteps ==
  ASSUME Typed, EventsUsed, Newcomers, [Next]_vars, NEW s \in Sockets
  PROVE  /\ \/ closes'[s] = closes[s] /\ (sock'[s].state = "removed" <=> sock[s].state = "removed")
            \/ closes'[s] = closes[s] + 1 /\ sock[s].state = "live" /\ sock'[s].state = "removed"
         /\ sock'[s].state = "registering" => sock[s].state \in {"none", "registering"}
         /\ sock'[s].state = "live" => sock[s].state \in {"registering", "live"}
         /\ IF sock[s].state = "none" /\ sock'[s].state # "none"
              THEN sock'[s].version = version[sock'[s].user] /\ version' = version
              ELSE sock'[s].user = sock[s].user /\ sock'[s].version = sock[s].version
<1> DEFINE Goal ==
      /\ \/ closes'[s] = closes[s] /\ (sock'[s].state = "removed" <=> sock[s].state = "removed")
         \/ closes'[s] = closes[s] + 1 /\ sock[s].state = "live" /\ sock'[s].state = "removed"
      /\ sock'[s].state = "registering" => sock[s].state \in {"none", "registering"}
      /\ sock'[s].state = "live" => sock[s].state \in {"registering", "live"}
      /\ IF sock[s].state = "none" /\ sock'[s].state # "none"
           THEN sock'[s].version = version[sock'[s].user] /\ version' = version
           ELSE sock'[s].user = sock[s].user /\ sock'[s].version = sock[s].version
<1>0. DOMAIN sock = Sockets /\ sock[s] \in Client /\ closes[s] \in Nat /\ \A t \in Sockets : sock[t] \in Client
  BY DEF Typed, TypeOK
\* Steps that do not touch what it is, and steps that remove sockets.
<1>1. ASSUME closes'[s] = closes[s], sock'[s].state = sock[s].state, sock'[s].user = sock[s].user,
             sock'[s].version = sock[s].version
      PROVE  Goal
  BY <1>1
<1>2. ASSUME NEW S \in SUBSET Sockets, closes' = Closed(S), sock'[s].state = Removed(S)[s].state,
             sock'[s].user = sock[s].user, sock'[s].version = sock[s].version
      PROVE  Goal
  <2>1. /\ sock'[s].state = IF s \in S /\ sock[s].state = "live" THEN "removed" ELSE sock[s].state
        /\ closes'[s] = IF s \in S /\ sock[s].state = "live" THEN closes[s] + 1 ELSE closes[s]
    <3>1. Removed(S)[s].state = IF s \in S /\ sock[s].state = "live" THEN "removed" ELSE sock[s].state
      BY RemovedFields
    <3>2. Closed(S)[s] = IF s \in S /\ sock[s].state = "live" THEN closes[s] + 1 ELSE closes[s]
      BY RemovedFacts DEF Live
    <3> QED
      BY <1>2, <3>1, <3>2
  <2> QED
    BY <1>2, <2>1
<1>3. ASSUME NEW e, FanOut(e) PROVE Goal
  <2>1. Slow(e) \subseteq Sockets
    BY DEF Slow, Receivers
  <2> QED
    BY <1>2, <1>3, <2>1, RemovedFields DEF FanOut
<1>4. CASE TakeStored \/ Persist
  BY <1>3, <1>4 DEF TakeStored, Persist
<1>5. CASE TakeNew \/ PersistFails \/ Notify \/ Tick \/ RevalidationDone
  BY <1>1, <1>5 DEF TakeNew, PersistFails, Notify, Tick, RevalidationDone, history
<1>6. CASE DisconnectSockets
  <2>1. ToDisconnect(Head(kicks)) \subseteq Sockets
    BY DEF ToDisconnect, LiveOf
  <2> QED
    BY <1>2, <1>6, <2>1, RemovedFields DEF DisconnectSockets
<1>7. CASE RunEnds
  <2>1. closes' = Closed(Sockets) /\ sock' = Removed(Sockets) /\ Sockets \in SUBSET Sockets
    BY <1>7 DEF RunEnds
  <2>2. sock'[s].state = Removed(Sockets)[s].state /\ sock'[s].user = sock[s].user /\ sock'[s].version = sock[s].version
    BY <2>1, RemovedFields
  <2> QED
    BY <1>2, <2>1, <2>2
<1>8. ASSUME NEW t \in Sockets, NEW ok \in BOOLEAN, RevalidationResult(t, ok) PROVE Goal
  <2>1. CASE ok
    BY <1>1, <1>8, <2>1 DEF RevalidationResult
  <2>2. CASE ~ok
    <3>1. {t} \in SUBSET Sockets /\ sock' = Removed({t}) /\ closes' = Closed({t})
      BY <1>8, <2>2 DEF RevalidationResult
    <3>2. sock'[s].state = Removed({t})[s].state /\ sock'[s].user = sock[s].user /\ sock'[s].version = sock[s].version
      BY <3>1, RemovedFields
    <3> QED
      BY <1>2, <3>1, <3>2
  <2> QED
    BY <2>1, <2>2
<1>9. ASSUME NEW t \in Sockets, Unregister(t) PROVE Goal
  <2>1. Removed({t}) \in [Sockets -> Client]
    BY RemovedFacts
  <2>2. /\ sock'[s].state = Removed({t})[s].state /\ sock'[s].user = Removed({t})[s].user
        /\ sock'[s].version = Removed({t})[s].version
    BY <1>9, <2>1 DEF Unregister, Client
  <2>3. closes' = Closed({t}) /\ {t} \in SUBSET Sockets
    BY <1>9 DEF Unregister
  <2>4. sock'[s].user = sock[s].user /\ sock'[s].version = sock[s].version
    BY <2>2, <2>3, RemovedFields
  <2> QED
    BY <1>2, <2>2, <2>3, <2>4
<1>10. ASSUME NEW t \in Sockets, Register(t) PROVE Goal
  BY <1>0, <1>10 DEF Register, Client, history
<1>11. ASSUME NEW t \in Sockets, NEW u \in Users, NEW g \in Rooms, ServeWs(t, u, g) PROVE Goal
  <2>1. CASE t = s
    BY <1>0, <1>11, <2>1 DEF ServeWs, NoClient, history, accounts
  <2>2. CASE t # s
    BY <1>0, <1>1, <1>11, <2>2 DEF ServeWs, history
  <2> QED
    BY <2>1, <2>2
<1>12. CASE Stop \/ (\E m \in Messages, u \in Users, g \in Rooms, kind \in Kinds : Post(m, u, g, kind))
                 \/ (\E e \in posting : Broadcast(e))
  BY <1>1, <1>12 DEF Stop, Post, Broadcast, history
<1>13. CASE \E u, v \in Users : ChangeBlock(u, v) \/ RevokeCredentials(u) \/ DeleteAccount(u) \/ DisconnectUser(u)
  BY <1>1, <1>13 DEF ChangeBlock, RevokeCredentials, DeleteAccount, DisconnectUser, history
\* The pumps.
<1>14. ASSUME NEW t \in Sockets, NEW m \in Messages, NEW cached \in BOOLEAN, ReadMessage(t, m, cached) PROVE Goal
  BY <1>0, <1>1, <1>14 DEF ReadMessage, Client, history
<1>15. ASSUME NEW t \in Sockets, BroadcastFrom(t) \/ ReadInvalid(t) \/ ReadFails(t) \/ ReaderLeaves(t) PROVE Goal
  <2>1. /\ sock'[s].state = sock[s].state /\ sock'[s].user = sock[s].user /\ sock'[s].version = sock[s].version
    <3>1. CASE BroadcastFrom(t)
      BY <1>0, <3>1 DEF BroadcastFrom, Client
    <3>2. CASE ReadInvalid(t)
      BY <3>2 DEF ReadInvalid
    <3>3. CASE ReadFails(t)
      BY <1>0, <3>3 DEF ReadFails, Client
    <3>4. CASE ReaderLeaves(t)
      BY <1>0, <3>4 DEF ReaderLeaves, Client
    <3> QED
      BY <1>15, <3>1, <3>2, <3>3, <3>4
  <2>2. closes' = closes
    BY <1>15 DEF BroadcastFrom, ReadInvalid, ReadFails, ReaderLeaves, history
  <2> QED
    BY <1>1, <2>1, <2>2
<1>16. ASSUME NEW t \in Sockets, Authorize(t) \/ WriterEnds(t) PROVE Goal
  <2> DEFINE e == Head(queue[t])
             good == Deliverable(e, sock[t].user)
             x == IF good THEN "authorized" ELSE "idle"
             w == IF good THEN e ELSE None
  <2>1. \/ sock' = [sock EXCEPT ![t].writer = x, ![t].writing = w]
        \/ sock' = [sock EXCEPT ![t].writer = "gone"]
    BY <1>16 DEF Authorize, WriterEnds
  <2> HIDE DEF x, w
  <2>2. /\ sock'[s].state = sock[s].state /\ sock'[s].user = sock[s].user /\ sock'[s].version = sock[s].version
    BY <1>0, <2>1 DEF Client
  <2>3. closes' = closes
    BY <1>16 DEF Authorize, WriterEnds, history
  <2> QED
    BY <1>1, <2>2, <2>3
<1>17. ASSUME NEW t \in Sockets, NEW ok \in BOOLEAN, Write(t, ok) \/ RevalidateClient(t, ok) PROVE Goal
  BY <1>0, <1>1, <1>17 DEF Write, RevalidateClient, Client, history
<1>18. CASE UNCHANGED vars
  BY <1>1, <1>18 DEF vars, history
<1> QED
  BY <1>4, <1>5, <1>6, <1>7, <1>8, <1>9, <1>10, <1>11, <1>12, <1>13, <1>14, <1>15, <1>16, <1>17, <1>18, Zenon
  DEF Next, Run, Pumps, Handlers

LEMMA StepDoneClosedOnce ==
  ASSUME Typed, EventsUsed, Newcomers, DoneClosedOnce, [Next]_vars
  PROVE  DoneClosedOnce'
<1> SUFFICES ASSUME NEW s \in Sockets
             PROVE  closes'[s] = IF sock'[s].state = "removed" THEN 1 ELSE 0
  BY DEF DoneClosedOnce
<1>1. closes[s] = IF sock[s].state = "removed" THEN 1 ELSE 0
  BY DEF DoneClosedOnce
<1> QED
  BY <1>1, SocketSteps

LEMMA StepStaleAwaited ==
  ASSUME Typed, EventsUsed, Newcomers, StaleAwaited, [Next]_vars
  PROVE  StaleAwaited'
<1> SUFFICES ASSUME NEW s \in Sockets, sock'[s].state \in {"registering", "live"},
                    sock'[s].version < version'[sock'[s].user]
             PROVE  KickAwaited(s)'
  BY DEF StaleAwaited
<1>0. /\ sock[s] \in Client /\ kicks \in Seq(Users) /\ Len(kicks) \in Nat /\ kicking \subseteq Users
      /\ version \in [Users -> 0..MaxVersion] /\ overtaken \subseteq Sockets
  BY DEF Typed, TypeOK
<1>1. /\ sock[s].state \in {"registering", "live"}
      /\ sock'[s].user = sock[s].user /\ sock'[s].version = sock[s].version
  <2>1. ~(sock[s].state = "none" /\ sock'[s].state # "none")
    <3> SUFFICES ASSUME sock[s].state = "none", sock'[s].state # "none" PROVE FALSE
      OBVIOUS
    <3>1. sock'[s].version = version[sock'[s].user] /\ version' = version
      BY SocketSteps
    <3>2. sock'[s].version \in Nat
      BY StepTyped DEF Typed, TypeOK, Client
    <3> QED
      BY <3>1, <3>2
  <2> QED
    BY <2>1, SocketSteps
<1>2. sock[s].user \in Users
  BY <1>1 DEF Newcomers
\* The user is about to be kicked already, or becomes so.
<1>3. ASSUME KickAwaited(s), kicking \subseteq kicking', kicks' = kicks, overtaken \subseteq overtaken'
      PROVE  KickAwaited(s)'
  BY <1>1, <1>3 DEF KickAwaited
<1>4. ASSUME version' = version PROVE KickAwaited(s)
  BY <1>1, <1>4 DEF StaleAwaited
<1>5. ASSUME NEW u \in Users, RevokeCredentials(u) PROVE KickAwaited(s)'
  <2>1. UNCHANGED <<kicks, overtaken>> /\ kicking' = kicking \cup {u}
    BY <1>5 DEF RevokeCredentials, loop, history
  <2>2. CASE u = sock[s].user
    BY <1>1, <2>1, <2>2 DEF KickAwaited
  <2>3. CASE u # sock[s].user
    <3>1. version'[sock[s].user] = version[sock[s].user]
      BY <1>0, <1>2, <1>5, <2>3 DEF RevokeCredentials
    <3>2. KickAwaited(s)
      BY <1>1, <3>1 DEF StaleAwaited
    <3> QED
      BY <1>3, <2>1, <3>2
  <2> QED
    BY <2>2, <2>3
<1>6. ASSUME NEW u \in Users, DisconnectUser(u) PROVE KickAwaited(s)'
  <2>1. KickAwaited(s) /\ sock' = sock
    BY <1>4, <1>6 DEF DisconnectUser, accounts
  <2>2. CASE Len(kicks) < KickBuffer
    <3>1. kicks' = Append(kicks, u) /\ overtaken' = overtaken /\ kicking' = kicking \ {u}
      BY <1>6, <2>2 DEF DisconnectUser
    <3>2. /\ Len(kicks') = Len(kicks) + 1 /\ kicks'[Len(kicks) + 1] = u
          /\ \A i \in 1..Len(kicks) : kicks'[i] = kicks[i]
      BY <1>0, <3>1
    <3> QED
      BY <1>0, <2>1, <3>1, <3>2 DEF KickAwaited
  <2>3. CASE ~(Len(kicks) < KickBuffer)
    <3>1. kicks' = kicks /\ overtaken' = overtaken \cup {t \in Sockets : sock[t].user = u} /\ kicking' = kicking \ {u}
      BY <1>6, <2>3 DEF DisconnectUser
    <3> QED
      BY <2>1, <3>1 DEF KickAwaited
  <2> QED
    BY <2>2, <2>3
<1>7. CASE DisconnectSockets
  <2> DEFINE u == Head(kicks)
  <2>1. /\ KickAwaited(s) /\ kicks # <<>> /\ kicks' = Tail(kicks) /\ kicking' = kicking
        /\ overtaken' = overtaken \cup {t \in Sockets : sock[t].user = u /\ sock[t].state = "registering"}
    BY <1>4, <1>7 DEF DisconnectSockets, accounts
  <2>2. sock[s].user = u => sock[s].state = "registering"
    <3> SUFFICES ASSUME sock[s].user = u, sock[s].state = "live" PROVE FALSE
      BY <1>1
    <3>1. s \in ToDisconnect(u) /\ ToDisconnect(u) \subseteq Sockets
      BY DEF ToDisconnect, LiveOf, Live
    <3>2. sock'[s].state = "removed"
      BY <1>7, <3>1, RemovedFields DEF DisconnectSockets
    <3> QED
      BY <3>2
  <2>3. CASE sock[s].user = u
    BY <1>1, <2>1, <2>2, <2>3 DEF KickAwaited
  <2>4. CASE sock[s].user # u
    <3>1. /\ Head(kicks) = kicks[1] /\ Len(kicks') \in Nat /\ Len(kicks) = Len(kicks') + 1
          /\ \A i \in 1..Len(kicks') : kicks'[i] = kicks[i + 1]
      BY <1>0, <2>1
    <3>2. ASSUME NEW i \in 1..Len(kicks), kicks[i] = sock[s].user
          PROVE  i - 1 \in 1..Len(kicks') /\ kicks'[i - 1] = sock[s].user
      <4>1. i # 1
        BY <2>4, <3>1, <3>2
      <4>2. i - 1 \in 1..Len(kicks') /\ i = (i - 1) + 1
        BY <3>1, <4>1
      <4> QED
        BY <3>1, <3>2, <4>2
    <3> QED
      BY <1>1, <2>1, <3>2 DEF KickAwaited
  <2> QED
    BY <2>3, <2>4
\* The other steps leave the kicks alone, or add to them.
<1>8. ASSUME version' = version, kicking \subseteq kicking', kicks' = kicks, overtaken' = overtaken
      PROVE  KickAwaited(s)'
  BY <1>3, <1>4, <1>8
<1>9. CASE TakeStored \/ TakeNew \/ Persist \/ PersistFails \/ Notify \/ Tick \/ RevalidationDone \/ RunEnds \/ Stop
  BY <1>8, <1>9 DEF TakeStored, TakeNew, Persist, PersistFails, Notify, Tick, RevalidationDone, RunEnds, Stop,
                    accounts, loop, history
<1>10. ASSUME NEW t \in Sockets, Register(t) \/ Unregister(t) \/ \E ok \in BOOLEAN : RevalidationResult(t, ok)
       PROVE  KickAwaited(s)'
  BY <1>8, <1>10 DEF Register, Unregister, RevalidationResult, accounts, loop, history
<1>11. CASE \/ \E t \in Sockets, u \in Users, g \in Rooms : ServeWs(t, u, g)
            \/ \E m \in Messages, u \in Users, g \in Rooms, kind \in Kinds : Post(m, u, g, kind)
            \/ \E e \in posting : Broadcast(e)
  BY <1>8, <1>11 DEF ServeWs, Post, Broadcast, accounts, loop, history
<1>12. CASE \E u, v \in Users : ChangeBlock(u, v) \/ DeleteAccount(u)
  BY <1>8, <1>12 DEF ChangeBlock, DeleteAccount, loop, history
<1>13. ASSUME NEW t \in Sockets, Pumps(t) PROVE KickAwaited(s)'
  <2>1. version' = version /\ kicking' = kicking /\ kicks' = kicks /\ overtaken' = overtaken
    BY <1>13 DEF Pumps, BroadcastFrom, ReadInvalid, ReadFails, ReaderLeaves, Authorize, WriterEnds, ReadMessage,
                 Write, RevalidateClient, accounts, loop, history
  <2> QED
    BY <1>8, <2>1
<1>14. CASE UNCHANGED vars
  BY <1>8, <1>14 DEF vars, accounts, loop, history
<1> QED
  BY <1>5, <1>6, <1>7, <1>9, <1>10, <1>11, <1>12, <1>13, <1>14, Zenon DEF Next, Run, Handlers
LEMMA StepWritersAuthorized ==
  ASSUME Typed, EventsUsed, Newcomers, WritersAuthorized, [Next]_vars
  PROVE  WritersAuthorized'
<1> SUFFICES ASSUME NEW s \in Sockets, sock'[s].writer = "authorized"
             PROVE  /\ sock'[s].writing \in Event \cup {Notice}
                    /\ sock'[s].writing # Notice => /\ <<sock'[s].user, sock'[s].writing.author>> \notin blocked'
                                                    /\ <<sock'[s].writing.author, sock'[s].user>> \notin blocked'
  BY DEF WritersAuthorized, Blocked
<1> DEFINE Goal == /\ sock'[s].writing \in Event \cup {Notice}
                   /\ sock'[s].writing # Notice => /\ <<sock'[s].user, sock'[s].writing.author>> \notin blocked'
                                                   /\ <<sock'[s].writing.author, sock'[s].user>> \notin blocked'
<1>0. DOMAIN sock = Sockets /\ \A t \in Sockets : sock[t] \in Client
  BY DEF Typed, TypeOK
\* Its pump held the lock before the step and holds it still.
<1>1. ASSUME sock'[s].writer = sock[s].writer, sock'[s].writing = sock[s].writing, sock'[s].user = sock[s].user,
             blocked' = blocked
      PROVE  Goal
  BY <1>1 DEF WritersAuthorized, Blocked
<1>2. ASSUME NEW S \in SUBSET Sockets, sock'[s] = Removed(S)[s], blocked' = blocked PROVE Goal
  BY <1>1, <1>2, RemovedFields
<1>3. CASE TakeStored
  <2>1. sock' = Removed(Slow(Head(channel))) /\ Slow(Head(channel)) \subseteq Sockets /\ blocked' = blocked
    BY <1>3 DEF TakeStored, FanOut, Slow, Receivers, accounts
  <2> QED
    BY <1>2, <2>1
<1>4. CASE Persist
  <2>1. sock' = Removed(Slow(hub.event)) /\ Slow(hub.event) \subseteq Sockets /\ blocked' = blocked
    BY <1>4 DEF Persist, FanOut, Slow, Receivers, accounts
  <2> QED
    BY <1>2, <2>1
<1>5. CASE TakeNew \/ PersistFails \/ Notify \/ Tick \/ RevalidationDone
  BY <1>1, <1>5 DEF TakeNew, PersistFails, Notify, Tick, RevalidationDone, accounts
<1>6. CASE DisconnectSockets
  <2>1. ToDisconnect(Head(kicks)) \subseteq Sockets
    BY DEF ToDisconnect, LiveOf
  <2> QED
    BY <1>2, <1>6, <2>1 DEF DisconnectSockets, accounts
<1>7. CASE RunEnds
  BY <1>2, <1>7 DEF RunEnds, accounts
<1>8. ASSUME NEW t \in Sockets, NEW ok \in BOOLEAN, RevalidationResult(t, ok) PROVE Goal
  BY <1>1, <1>2, <1>8 DEF RevalidationResult, accounts
<1>9. ASSUME NEW t \in Sockets, Unregister(t) PROVE Goal
  <2>1. Removed({t}) \in [Sockets -> Client]
    BY RemovedFacts
  <2>2. /\ sock'[s].writer = Removed({t})[s].writer /\ sock'[s].writing = Removed({t})[s].writing
        /\ sock'[s].user = Removed({t})[s].user /\ blocked' = blocked
    BY <1>9, <2>1 DEF Unregister, Client, accounts
  <2>3. {t} \in SUBSET Sockets
    OBVIOUS
  <2> QED
    BY <1>1, <2>2, <2>3, RemovedFields
\* A new client has no write pump; the loop starts it idle.
<1>10. ASSUME NEW t \in Sockets, Register(t) \/ \E u \in Users, g \in Rooms : ServeWs(t, u, g) PROVE Goal
  <2>1. Register(t) => sock'[t].writer = "idle"
    BY <1>0 DEF Register, Client
  <2>2. ASSUME NEW u \in Users, NEW g \in Rooms, ServeWs(t, u, g) PROVE sock'[t].writer = "none"
    BY <1>0, <2>2 DEF ServeWs, NoClient
  <2>3. t # s
    BY <1>10, <2>1, <2>2
  <2> QED
    BY <1>0, <1>1, <1>10, <2>3 DEF Register, ServeWs, accounts
<1>11. CASE Stop \/ (\E m \in Messages, u \in Users, g \in Rooms, kind \in Kinds : Post(m, u, g, kind))
                 \/ (\E e \in posting : Broadcast(e))
  BY <1>1, <1>11 DEF Stop, Post, Broadcast, accounts
<1>12. CASE \E u \in Users : RevokeCredentials(u) \/ DeleteAccount(u) \/ DisconnectUser(u)
  BY <1>1, <1>12 DEF RevokeCredentials, DeleteAccount, DisconnectUser, accounts
\* The block waits for every pump that holds the lock.
<1>13. ASSUME NEW u \in Users, NEW v \in Users, ChangeBlock(u, v) PROVE Goal
  BY <1>13 DEF ChangeBlock, NoDelivery
<1>14. ASSUME NEW t \in Sockets, NEW m \in Messages, NEW cached \in BOOLEAN, ReadMessage(t, m, cached) PROVE Goal
  BY <1>0, <1>1, <1>14 DEF ReadMessage, Client, accounts
<1>15. ASSUME NEW t \in Sockets, BroadcastFrom(t) \/ ReadInvalid(t) \/ ReadFails(t) \/ ReaderLeaves(t) PROVE Goal
  <2>1. /\ sock'[s].writer = sock[s].writer /\ sock'[s].writing = sock[s].writing /\ sock'[s].user = sock[s].user
    BY <1>0, <1>15 DEF BroadcastFrom, ReadInvalid, ReadFails, ReaderLeaves, Client
  <2>2. blocked' = blocked
    BY <1>15 DEF BroadcastFrom, ReadInvalid, ReadFails, ReaderLeaves, accounts
  <2> QED
    BY <1>1, <2>1, <2>2
\* The message was loaded again for its recipient, under the same lock.
<1>16. ASSUME NEW t \in Sockets, Authorize(t) PROVE Goal
  <2> DEFINE e == Head(queue[t])
             good == Deliverable(e, sock[t].user)
             x == IF good THEN "authorized" ELSE "idle"
             w == IF good THEN e ELSE None
  <2>1. sock' = [sock EXCEPT ![t].writer = x, ![t].writing = w] /\ blocked' = blocked
    BY <1>16 DEF Authorize, accounts
  <2>2. CASE t # s
    BY <1>0, <1>1, <2>1, <2>2
  <2>3. CASE t = s
    <3>1. sock'[s].writer = x /\ sock'[s].writing = w /\ sock'[s].user = sock[s].user
      BY <1>0, <2>1, <2>3 DEF Client
    <3>2. good /\ w = e
      BY <3>1
    <3>3. e \in Event \cup {Notice}
      BY <1>16 DEF Authorize, Typed, TypeOK
    <3>4. e # Notice => <<sock[s].user, e.author>> \notin blocked /\ <<e.author, sock[s].user>> \notin blocked
      BY <2>3, <3>2 DEF Deliverable, Blocked
    <3>5. sock'[s].writing = e /\ sock'[s].user = sock[s].user /\ blocked' = blocked
      BY <2>1, <3>1, <3>2
    <3> QED
      BY <3>3, <3>4, <3>5
  <2> QED
    BY <2>2, <2>3
<1>17. ASSUME NEW t \in Sockets, WriterEnds(t) PROVE Goal
  BY <1>0, <1>1, <1>17 DEF WriterEnds, Client, accounts
<1>18. ASSUME NEW t \in Sockets, NEW ok \in BOOLEAN, Write(t, ok) \/ RevalidateClient(t, ok) PROVE Goal
  BY <1>0, <1>1, <1>18 DEF Write, RevalidateClient, Client, accounts
<1>19. CASE UNCHANGED vars
  BY <1>1, <1>19 DEF vars, accounts
<1> QED
  BY <1>3, <1>4, <1>5, <1>6, <1>7, <1>8, <1>9, <1>10, <1>11, <1>12, <1>13, <1>14, <1>15, <1>16, <1>17, <1>18, <1>19,
     Zenon DEF Next, Run, Pumps, Handlers

LEMMA StepNothingSkipped ==
  ASSUME Typed, EventsUsed, Newcomers, NothingSkipped, [Next]_vars
  PROVE  NothingSkipped'
<1> SUFFICES ASSUME NEW s \in Sockets, sock'[s].state = "live"
             PROVE  owed'[s] = handled'[s] \cup QueuedIds(queue'[s])
  BY DEF NothingSkipped, Live
<1> DEFINE Goal == owed'[s] = handled'[s] \cup QueuedIds(queue'[s])
<1>0. /\ DOMAIN sock = Sockets /\ DOMAIN queue = Sockets /\ DOMAIN handled = Sockets /\ DOMAIN owed = Sockets
      /\ queue[s] \in Seq(Event \cup {Notice})
  BY DEF Typed, TypeOK
<1>1. sock[s].state \in {"registering", "live"}
  BY SocketSteps
\* The books of every socket that may be live after the step balance before it.
<1>2. owed[s] = handled[s] \cup QueuedIds(queue[s])
  BY <1>1 DEF NothingSkipped, Live, Newcomers, Newcomer
<1>3. ASSUME owed'[s] = owed[s], handled'[s] = handled[s],
             queue'[s] = queue[s] \/ queue'[s] = Append(queue[s], Notice)
      PROVE  Goal
  BY <1>0, <1>2, <1>3, QueuedIdsAppend
<1>4. ASSUME NEW e \in Event, FanOut(e), handled' = handled PROVE Goal
  <2>0. Slow(e) \subseteq Receivers(e) /\ Receivers(e) \subseteq Sockets
    BY DEF Slow, Receivers
  <2>1. ~(s \in Slow(e))
    <3> SUFFICES ASSUME s \in Slow(e) PROVE FALSE
      OBVIOUS
    <3>1. sock[s].state = "live" /\ sock' = Removed(Slow(e))
      BY <1>4 DEF FanOut, Slow, Receivers, Live
    <3>2. sock'[s].state = "removed"
      BY <2>0, <3>1, RemovedFields
    <3> QED
      BY <3>2
  <2>2. CASE s \in Receivers(e)
    <3>1. queue'[s] = Append(queue[s], e) /\ owed'[s] = owed[s] \cup {e.id}
      BY <1>4, <2>1, <2>2 DEF FanOut
    <3>2. QueuedIds(queue'[s]) = QueuedIds(queue[s]) \cup {e.id}
      BY <1>0, <3>1, QueuedIdsAppend, EventFacts
    <3> QED
      BY <1>2, <1>4, <3>1, <3>2
  <2>3. CASE s \notin Receivers(e)
    <3>1. queue'[s] = queue[s] /\ owed'[s] = owed[s]
      BY <1>4, <2>1, <2>3 DEF FanOut
    <3> QED
      BY <1>3, <1>4, <3>1
  <2> QED
    BY <2>2, <2>3
<1>5. CASE TakeStored
  <2>1. Head(channel) \in Event
    BY <1>5 DEF TakeStored, Typed, TypeOK
  <2> QED
    BY <1>4, <1>5, <2>1 DEF TakeStored
<1>6. CASE Persist
  BY <1>4, <1>6 DEF Persist, EventsUsed
<1>7. CASE PersistFails
  BY <1>0, <1>3, <1>7 DEF PersistFails, history
<1>8. ASSUME NEW t \in Sockets, Authorize(t) PROVE Goal
  <2>1. CASE t # s
    BY <1>0, <1>3, <1>8, <2>1 DEF Authorize
  <2>2. CASE t = s
    <3> DEFINE e == Head(queue[s])
    <3>1. /\ queue[s] # <<>> /\ queue'[s] = Tail(queue[s]) /\ owed'[s] = owed[s]
          /\ handled'[s] = IF e = Notice THEN handled[s] ELSE handled[s] \cup {e.id}
      BY <1>0, <1>8, <2>2 DEF Authorize
    <3>2. QueuedIds(queue[s]) = QueuedIds(queue'[s]) \cup (IF e = Notice THEN {} ELSE {e.id})
      BY <1>0, <3>1, QueuedIdsTail
    <3> QED
      BY <1>2, <3>1, <3>2
  <2> QED
    BY <2>1, <2>2
<1>9. ASSUME NEW t \in Sockets, ReadInvalid(t) PROVE Goal
  BY <1>0, <1>3, <1>9 DEF ReadInvalid, history
\* The other steps put nothing in a send channel and take nothing out.
<1>10. ASSUME UNCHANGED <<queue, owed, handled>> PROVE Goal
  BY <1>3, <1>10
<1>11. CASE TakeNew \/ Notify \/ Tick \/ RevalidationDone \/ DisconnectSockets \/ RunEnds \/ Stop
  BY <1>10, <1>11 DEF TakeNew, Notify, Tick, RevalidationDone, DisconnectSockets, RunEnds, Stop, history
<1>12. ASSUME NEW t \in Sockets, Register(t) \/ Unregister(t) \/ (\E ok \in BOOLEAN : RevalidationResult(t, ok))
       PROVE  Goal
  BY <1>10, <1>12 DEF Register, Unregister, RevalidationResult, history
<1>13. CASE Handlers
  BY <1>10, <1>13 DEF Handlers, ServeWs, Post, Broadcast, ChangeBlock, RevokeCredentials, DeleteAccount,
                      DisconnectUser, history
<1>14. ASSUME NEW t \in Sockets,
              \/ BroadcastFrom(t) \/ ReadFails(t) \/ ReaderLeaves(t) \/ WriterEnds(t)
              \/ \E m \in Messages, cached \in BOOLEAN : ReadMessage(t, m, cached)
              \/ \E ok \in BOOLEAN : Write(t, ok) \/ RevalidateClient(t, ok)
       PROVE  Goal
  <2>1. UNCHANGED <<queue, history>>
    BY <1>14 DEF BroadcastFrom, ReadFails, ReaderLeaves, WriterEnds, ReadMessage, Write, RevalidateClient
  <2> QED
    BY <1>10, <2>1 DEF history
<1>15. CASE UNCHANGED vars
  BY <1>10, <1>15 DEF vars, history
<1> QED
  BY <1>5, <1>6, <1>7, <1>8, <1>9, <1>11, <1>12, <1>13, <1>14, <1>15, Zenon DEF Next, Run, Pumps

-----------------------------------------------------------------------------
(* The theorems. *)

\* The inductive invariant holds in every reachable state.
THEOREM InvHolds == Spec => []Inv
<1>1. ASSUME Init PROVE Inv
  <2>1. Typed
    BY <1>1, InitTyped
  <2>2. /\ posting = {} /\ channel = <<>> /\ hub.pc = "select" /\ blocked = {}
        /\ \A s \in Sockets : sock[s] = NoClient /\ queue[s] = <<>> /\ owed[s] = {} /\ handled[s] = {} /\ closes[s] = 0
    BY <1>1 DEF Init, Select
  <2>3. \A s \in Sockets : /\ sock[s].state = "none" /\ sock[s].reader = "none" /\ sock[s].writer = "none"
    BY <2>2 DEF NoClient
  <2>4. QueuedIds(<<>>) = {}
    BY DEF QueuedIds
  <2>5. EventsUsed /\ DoneClosedOnce /\ WritersAuthorized /\ StaleAwaited /\ NothingSkipped
    BY <2>2, <2>3 DEF EventsUsed, DoneClosedOnce, WritersAuthorized, StaleAwaited, NothingSkipped, Live
  <2>6. Newcomers
    BY <2>2, <2>3, <2>4 DEF Newcomers, Newcomer
  <2> QED
    BY <2>1, <2>5, <2>6 DEF Inv
<1>2. Inv /\ [Next]_vars => Inv'
  BY StepTyped, StepEventsUsed, StepNewcomers, StepDoneClosedOnce, StepNothingSkipped, StepWritersAuthorized,
     StepStaleAwaited DEF Inv
<1> QED
  BY <1>1, <1>2, PTL DEF Spec

\* The variables have their types, and no channel holds more than its capacity.
THEOREM TypeCorrect == Spec => []TypeOK
<1>1. Inv => TypeOK
  BY DEF Inv, Typed
<1> QED
  BY <1>1, InvHolds, PTL

\* remove is called for a socket by its own pump, by a kick, by a sweep, by a full
\* channel and by the shutdown; its done channel is closed once all the same.
THEOREM ClosedOnce == Spec => []DoneClosedOnce
<1>1. Inv => DoneClosedOnce
  BY DEF Inv
<1> QED
  BY <1>1, InvHolds, PTL

\* The hub drops a slow socket rather than a message: one that stays registered
\* has taken, or will find in its channel, whatever was sent to its room.
THEOREM NobodySkips == Spec => []NothingSkipped
<1>1. Inv => NothingSkipped
  BY DEF Inv
<1> QED
  BY <1>1, InvHolds, PTL

\* After a revocation every live socket of the old version is about to be kicked,
\* but for those whose command was dropped or came before their registration.
THEOREM StaleAreKicked == Spec => []StaleSocketsKicked
<1>1. Inv => StaleSocketsKicked
  BY DEF Inv, StaleAwaited, StaleSocketsKicked, Live
<1> QED
  BY <1>1, InvHolds, PTL

\* SerializePrivacyChange works: when a frame is written, no block between its
\* recipient and its author has been committed since it was authorized.
THEOREM BlockStopsMessages == Spec => NoDeliveryAcrossBlock
<1>1. Inv /\ [Next]_vars =>
        [\A s \in Sockets, ok \in BOOLEAN : Write(s, ok) /\ sock[s].writing # Notice =>
           ~Blocked(sock[s].user, sock[s].writing.author)]_vars
  BY DEF Inv, WritersAuthorized, Write
<1> QED
  BY <1>1, InvHolds, PTL DEF Spec, NoDeliveryAcrossBlock
=============================================================================
