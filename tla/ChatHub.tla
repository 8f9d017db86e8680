------------------------------ MODULE ChatHub ------------------------------
(***************************************************************************)
(* The realtime hub of the group chat: one event loop that owns the live   *)
(* sockets, two pumps for every socket, the revalidation workers, and the  *)
(* handlers that post messages, revoke credentials or change blocks.       *)
(*                                                                         *)
(* Each case of the loop's select is an action.  Saving a message and the  *)
(* push callback keep the loop busy, so they have a step of their own.     *)
(* Rooms are groups.  A user's rooms do not change: the program has no     *)
(* operation that removes a member, but for the account's deletion.        *)
(***************************************************************************)
EXTENDS Naturals, Sequences, FiniteSets

CONSTANTS
  Users, Rooms,
  Sockets,        \* sockets opened in a behaviour
  Messages,       \* messages and updates posted in a behaviour
  None,
  Buffer,         \* capacity of the broadcast channel
  SendBuffer,     \* capacity of a socket's send channel
  KickBuffer,     \* capacity of the disconnect channel
  MaxVersion,     \* bound on auth_version
  Traffic         \* sets of operations; a behaviour uses one of them

ASSUME NoneAssumption == None \notin Users \cup Sockets \cup Messages
ASSUME BufferAssumption == {Buffer, SendBuffer, KickBuffer, MaxVersion} \subseteq Nat

VARIABLES
  traffic,    \* the operations of this behaviour
  active,     \* accounts that are not deleted
  version,    \* user -> auth_version
  blocked,    \* user_blocks: <<blocker, blocked>>
  kicking,    \* users whose credentials are revoked and DisconnectUser not called yet
  sock,       \* socket -> the client and its two pumps
  queue,      \* socket -> send channel
  posting,    \* events of HTTP handlers that wait for the broadcast channel
  used,       \* messages written so far
  channel,    \* the broadcast channel
  stored,     \* messages in the database
  hub,        \* where the loop is
  kicks,      \* the disconnect channel
  sweep,      \* the revalidation: running, wanted again, sockets to check, results, done
  stopping,   \* the stop channel is closed
  owed,       \* history: socket -> messages sent to its room while it was live
  handled,    \* history: socket -> messages its write pump has taken
  closes,     \* history: socket -> how often its done channel was closed
  overtaken   \* history: sockets that a kick of their user missed

accounts == <<traffic, active, version, blocked>>
loop == <<channel, hub, kicks, sweep>>
history == <<owed, handled, closes, overtaken>>
vars == <<accounts, kicking, sock, queue, posting, used, loop, stored, stopping, history>>

Kinds == {"text", "challenge", "media", "update"}
Ops == Kinds \cup {"invalid", "block", "revoke", "delete", "sweep", "stop"}
ASSUME TrafficAssumption == Traffic \subseteq SUBSET Ops
Event == [id: Messages, room: Rooms, author: Users, kind: Kinds, sender: Sockets \cup {None}]
Notice == [id |-> None]   \* sendSystem: a protocol error, without an id

Client == [user: Users \cup {None}, room: Rooms \cup {None}, version: Nat,
           state: {"none", "registering", "live", "removed"},
           reader: {"none", "reading", "sending", "leaving", "gone"}, text: {None} \cup Event,
           checked: BOOLEAN,
           writer: {"none", "idle", "authorized", "gone"}, writing: {None, Notice} \cup Event]
NoClient == [user |-> None, room |-> None, version |-> 0, state |-> "none", reader |-> "none",
             text |-> None, checked |-> FALSE, writer |-> "none", writing |-> None]

Select == [pc |-> "select", event |-> None]

Init ==
  /\ traffic \in Traffic
  /\ active = Users /\ version = [u \in Users |-> 0] /\ blocked = {}
  /\ kicking = {} /\ posting = {} /\ used = {} /\ stored = {}
  /\ sock = [s \in Sockets |-> NoClient] /\ queue = [s \in Sockets |-> <<>>]
  /\ channel = <<>> /\ hub = Select /\ kicks = <<>>
  /\ sweep = [running |-> FALSE, wanted |-> FALSE, todo |-> {}, results |-> {}, done |-> FALSE]
  /\ stopping = FALSE
  /\ owed = [s \in Sockets |-> {}] /\ handled = [s \in Sockets |-> {}]
  /\ closes = [s \in Sockets |-> 0] /\ overtaken = {}

-----------------------------------------------------------------------------
(* Sockets and who they belong to. *)

Live(s) == sock[s].state = "live"
LiveOf(u) == {s \in Sockets : Live(s) /\ sock[s].user = u}
Blocked(u, v) == <<u, v>> \in blocked \/ <<v, u>> \in blocked
InSelect == hub.pc = "select"

\* Hub.Revalidate: the account exists and is a member; auth_version is not asked.
Valid(s) == sock[s].user \in active

\* remove: the sockets of S that are still registered leave the index, and
\* their done channel is closed.
Removed(S) == [s \in Sockets |->
  IF s \in S /\ Live(s) THEN [sock[s] EXCEPT !.state = "removed"] ELSE sock[s]]

Closed(S) == [s \in Sockets |-> IF s \in S /\ Live(s) THEN closes[s] + 1 ELSE closes[s]]

\* HandleChat and ServeWs: the ticket is good now; the client waits for the loop.
ServeWs(s, u, g) ==
  /\ sock[s].state = "none" /\ u \in active
  /\ sock' = [sock EXCEPT ![s] = [NoClient EXCEPT !.user = u, !.room = g, !.version = version[u],
                                                  !.state = "registering"]]
  /\ UNCHANGED <<accounts, kicking, queue, posting, used, loop, stored, stopping, history>>

Register(s) ==
  /\ InSelect /\ sock[s].state = "registering"
  /\ sock' = [sock EXCEPT ![s].state = "live", ![s].reader = "reading", ![s].writer = "idle"]
  /\ UNCHANGED <<accounts, kicking, queue, posting, used, loop, stored, stopping, history>>

Unregister(s) ==
  /\ InSelect /\ sock[s].reader = "leaving"
  /\ sock' = [Removed({s}) EXCEPT ![s].reader = "gone"]
  /\ closes' = Closed({s})
  /\ UNCHANGED <<accounts, kicking, queue, posting, used, loop, stored, stopping, owed, handled, overtaken>>

-----------------------------------------------------------------------------
(* Messages. *)

\* A handler posts a message: a challenge, saved by the hub, or media and updates,
\* saved by the handler itself; the author of an update is whoever reacted.
Post(m, u, g, kind) ==
  /\ kind \in traffic \ {"text"} /\ m \notin used /\ u \in active
  /\ posting' = posting \cup {[id |-> m, room |-> g, author |-> u, kind |-> kind, sender |-> None]}
  /\ used' = used \cup {m}
  /\ stored' = IF kind = "challenge" THEN stored ELSE stored \cup {m}
  /\ UNCHANGED <<accounts, kicking, sock, queue, loop, stopping, history>>

Broadcast(e) ==
  /\ e \in posting /\ Len(channel) < Buffer
  /\ posting' = posting \ {e}
  /\ channel' = Append(channel, e)
  /\ UNCHANGED <<accounts, kicking, sock, queue, used, hub, kicks, sweep, stored, stopping, history>>

\* The read pump takes a text.  ensureValid asks for the account, or trusts an
\* answer of the last seconds.
ReadMessage(s, m, cached) ==
  /\ "text" \in traffic /\ sock[s].reader = "reading" /\ m \notin used
  /\ cached => sock[s].checked
  /\ IF cached \/ Valid(s)
       THEN /\ sock' = [sock EXCEPT ![s].reader = "sending", ![s].checked = TRUE,
                  ![s].text = [id |-> m, room |-> sock[s].room, author |-> sock[s].user,
                               kind |-> "text", sender |-> s]]
            /\ used' = used \cup {m}
       ELSE /\ sock' = [sock EXCEPT ![s].reader = "leaving"]
            /\ UNCHANGED used
  /\ UNCHANGED <<accounts, kicking, queue, posting, loop, stored, stopping, history>>

BroadcastFrom(s) ==
  /\ sock[s].reader = "sending" /\ Len(channel) < Buffer
  /\ channel' = Append(channel, sock[s].text)
  /\ sock' = [sock EXCEPT ![s].reader = "reading", ![s].text = None]
  /\ UNCHANGED <<accounts, kicking, queue, posting, used, hub, kicks, sweep, stored, stopping, history>>

\* What is no text of a message is answered with an error, if there is room.
ReadInvalid(s) ==
  /\ "invalid" \in traffic /\ sock[s].reader = "reading" /\ Len(queue[s]) < SendBuffer
  /\ queue' = [queue EXCEPT ![s] = Append(@, Notice)]
  /\ UNCHANGED <<accounts, kicking, sock, posting, used, loop, stored, stopping, history>>

\* The connection is closed, by the other pump or by the client.
ReadFails(s) ==
  /\ sock[s].reader = "reading"
  /\ sock' = [sock EXCEPT ![s].reader = "leaving"]
  /\ UNCHANGED <<accounts, kicking, queue, posting, used, loop, stored, stopping, history>>

\* unregisterClient gives up when the hub has stopped.
ReaderLeaves(s) ==
  /\ sock[s].reader = "leaving" /\ stopping
  /\ sock' = [sock EXCEPT ![s].reader = "gone"]
  /\ UNCHANGED <<accounts, kicking, queue, posting, used, loop, stored, stopping, history>>

Receivers(e) == {s \in Sockets : Live(s) /\ sock[s].room = e.room}
Slow(e) == {s \in Receivers(e) : Len(queue[s]) = SendBuffer}

\* Only texts and media are notified from the loop.
After(e) == IF e.kind \in {"text", "media"} THEN [pc |-> "notifying", event |-> e] ELSE Select

\* Mutant: a client that is slow misses the message and stays.
FanOut_Skips(e) ==
  /\ queue' = [s \in Sockets |-> IF s \in Receivers(e) \ Slow(e) THEN Append(queue[s], e) ELSE queue[s]]
  /\ owed' = [s \in Sockets |-> IF s \in Receivers(e) THEN owed[s] \cup {e.id} ELSE owed[s]]
  /\ UNCHANGED <<sock, closes>>
  /\ hub' = After(e)

\* Mutant: the loop waits for a slow client.
FanOut_Waits(e) ==
  /\ Slow(e) = {}
  /\ queue' = [s \in Sockets |-> IF s \in Receivers(e) THEN Append(queue[s], e) ELSE queue[s]]
  /\ owed' = [s \in Sockets |-> IF s \in Receivers(e) THEN owed[s] \cup {e.id} ELSE owed[s]]
  /\ UNCHANGED <<sock, closes>>
  /\ hub' = After(e)

\* Every client of the room gets the message; a full one is removed.
FanOut(e) ==
  /\ queue' = [s \in Sockets |-> IF s \in Receivers(e) \ Slow(e) THEN Append(queue[s], e) ELSE queue[s]]
  /\ sock' = Removed(Slow(e))
  /\ closes' = Closed(Slow(e))
  /\ owed' = [s \in Sockets |-> IF s \in Receivers(e) THEN owed[s] \cup {e.id} ELSE owed[s]]
  /\ hub' = After(e)

\* The loop takes a message that is stored already,
TakeStored ==
  /\ InSelect /\ channel # <<>>
  /\ Head(channel).kind \in {"media", "update"}
  /\ FanOut(Head(channel))
  /\ channel' = Tail(channel)
  /\ UNCHANGED <<accounts, kicking, posting, used, kicks, sweep, stored, stopping, handled, overtaken>>

\* or one to store first,
TakeNew ==
  /\ InSelect /\ channel # <<>>
  /\ Head(channel).kind \in {"text", "challenge"}
  /\ hub' = [pc |-> "persisting", event |-> Head(channel)]
  /\ channel' = Tail(channel)
  /\ UNCHANGED <<accounts, kicking, sock, queue, posting, used, kicks, sweep, stored, stopping, history>>

\* SaveMessage's insert wants the author to be a member.
Persist ==
  /\ hub.pc = "persisting" /\ hub.event.author \in active
  /\ stored' = stored \cup {hub.event.id}
  /\ FanOut(hub.event)
  /\ UNCHANGED <<accounts, kicking, posting, used, channel, kicks, sweep, stopping, handled, overtaken>>

\* It is refused, fails, or runs into its deadline; the sender is told if there is room.
PersistFails ==
  /\ hub.pc = "persisting"
  /\ LET s == hub.event.sender IN
     queue' = IF s # None /\ Len(queue[s]) < SendBuffer
                THEN [queue EXCEPT ![s] = Append(@, Notice)] ELSE queue
  /\ hub' = Select
  /\ UNCHANGED <<accounts, kicking, sock, posting, used, channel, kicks, sweep, stored, stopping, history>>

\* The push callback asks the database for its targets (Push).
Notify ==
  /\ hub.pc = "notifying"
  /\ hub' = Select
  /\ UNCHANGED <<accounts, kicking, sock, queue, posting, used, channel, kicks, sweep, stored, stopping, history>>

-----------------------------------------------------------------------------
(* Delivery. *)

Writable(s) == sock[s].state \in {"live", "removed"} /\ sock[s].writer = "idle"

\* The message is loaded again for its recipient.
Deliverable(e, u) ==
  e # Notice => u \in active /\ e.id \in stored /\ ~Blocked(u, e.author)

\* deliverAuthorized, under the read lock of privacy.
Authorize(s) ==
  /\ Writable(s) /\ queue[s] # <<>>
  /\ LET e == Head(queue[s]) IN
     /\ sock' = [sock EXCEPT ![s].writer = IF Deliverable(e, sock[s].user) THEN "authorized" ELSE "idle",
                             ![s].writing = IF Deliverable(e, sock[s].user) THEN e ELSE None]
     /\ handled' = [handled EXCEPT ![s] = IF e = Notice THEN @ ELSE @ \cup {e.id}]
  /\ queue' = [queue EXCEPT ![s] = Tail(@)]
  /\ UNCHANGED <<accounts, kicking, posting, used, loop, stored, stopping, owed, closes, overtaken>>

\* The frame is written and the lock released; a failing write ends the pump.
Write(s, ok) ==
  /\ sock[s].writer = "authorized"
  /\ sock' = [sock EXCEPT ![s].writer = IF ok THEN "idle" ELSE "gone", ![s].writing = None]
  /\ UNCHANGED <<accounts, kicking, queue, posting, used, loop, stored, stopping, history>>

\* The done channel is closed, or a ping fails.
WriterEnds(s) ==
  /\ Writable(s)
  /\ sock' = [sock EXCEPT ![s].writer = "gone"]
  /\ UNCHANGED <<accounts, kicking, queue, posting, used, loop, stored, stopping, history>>

-----------------------------------------------------------------------------
(* Blocks and revocations. *)

\* Mutant: the preference is committed without the barrier.
NoDelivery_Unchecked == TRUE

\* SerializePrivacyChange waits until no pump holds the lock.
NoDelivery == \A s \in Sockets : sock[s].writer # "authorized"

ChangeBlock(u, v) ==
  /\ "block" \in traffic /\ u # v /\ NoDelivery
  /\ blocked' = IF <<u, v>> \in blocked THEN blocked \ {<<u, v>>} ELSE blocked \cup {<<u, v>>}
  /\ UNCHANGED <<traffic, active, version, kicking, sock, queue, posting, used, loop, stored, stopping, history>>

\* Accounts: every credential of u is revoked, or u is deleted; then its sockets
\* are to be closed.
RevokeCredentials(u) ==
  /\ "revoke" \in traffic /\ u \in active /\ version[u] < MaxVersion
  /\ version' = [version EXCEPT ![u] = @ + 1]
  /\ kicking' = kicking \cup {u}
  /\ UNCHANGED <<traffic, active, blocked, sock, queue, posting, used, loop, stored, stopping, history>>

DeleteAccount(u) ==
  /\ "delete" \in traffic /\ u \in active
  /\ active' = active \ {u}
  /\ kicking' = kicking \cup {u}
  /\ UNCHANGED <<traffic, version, blocked, sock, queue, posting, used, loop, stored, stopping, history>>

\* The command is dropped when the channel is full.
DisconnectUser(u) ==
  /\ u \in kicking
  /\ kicking' = kicking \ {u}
  /\ IF Len(kicks) < KickBuffer
       THEN kicks' = Append(kicks, u) /\ UNCHANGED overtaken
       ELSE /\ overtaken' = overtaken \cup {s \in Sockets : sock[s].user = u}
            /\ UNCHANGED kicks
  /\ UNCHANGED <<accounts, sock, queue, posting, used, channel, hub, sweep, stored, stopping, owed, handled, closes>>

\* Mutant: only one of the user's sockets is closed.
ToDisconnect_One(u) == IF LiveOf(u) = {} THEN {} ELSE {CHOOSE s \in LiveOf(u) : TRUE}

ToDisconnect(u) == LiveOf(u)

\* A socket that has not been registered yet is not found.
DisconnectSockets ==
  /\ InSelect /\ kicks # <<>>
  /\ LET u == Head(kicks) IN
     /\ sock' = Removed(ToDisconnect(u))
     /\ closes' = Closed(ToDisconnect(u))
     /\ overtaken' = overtaken \cup {s \in Sockets : sock[s].user = u /\ sock[s].state = "registering"}
  /\ kicks' = Tail(kicks)
  /\ UNCHANGED <<accounts, kicking, queue, posting, used, channel, hub, sweep, stored, stopping, owed, handled>>

-----------------------------------------------------------------------------
(* Revalidation of live sockets. *)

\* startRevalidation: nothing to do without clients.
Started(record) ==
  LET clients == {s \in Sockets : Live(s)} IN
  IF clients = {} THEN [record EXCEPT !.running = FALSE]
                  ELSE [record EXCEPT !.running = TRUE, !.todo = clients]

\* requestRevalidation.
Tick ==
  /\ "sweep" \in traffic /\ InSelect
  /\ sweep' = IF sweep.running THEN [sweep EXCEPT !.wanted = TRUE] ELSE Started(sweep)
  /\ UNCHANGED <<accounts, kicking, sock, queue, posting, used, channel, hub, kicks, stored, stopping, history>>

\* A worker checks a socket of the snapshot; an error counts as invalid.
RevalidateClient(s, ok) ==
  /\ s \in sweep.todo /\ (ok => Valid(s))
  /\ sweep' = [sweep EXCEPT !.todo = @ \ {s}, !.results = @ \cup {<<s, ok>>},
                            !.done = (sweep.todo = {s})]
  /\ UNCHANGED <<accounts, kicking, sock, queue, posting, used, channel, hub, kicks, stored, stopping, history>>

RevalidationResult(s, ok) ==
  /\ InSelect /\ <<s, ok>> \in sweep.results
  /\ sweep' = [sweep EXCEPT !.results = @ \ {<<s, ok>>}]
  /\ sock' = IF ok THEN sock ELSE Removed({s})
  /\ closes' = IF ok THEN closes ELSE Closed({s})
  /\ UNCHANGED <<accounts, kicking, queue, posting, used, channel, hub, kicks, stored, stopping, owed, handled, overtaken>>

\* Mutant: the end of a sweep that was wanted again is not noted.
NextSweep_Stuck == IF sweep.wanted THEN [sweep EXCEPT !.done = FALSE, !.wanted = FALSE]
                                   ELSE [sweep EXCEPT !.done = FALSE, !.running = FALSE]

NextSweep ==
  LET over == [sweep EXCEPT !.done = FALSE, !.running = FALSE] IN
  IF sweep.wanted THEN Started([over EXCEPT !.wanted = FALSE]) ELSE over

RevalidationDone ==
  /\ InSelect /\ sweep.done
  /\ sweep' = NextSweep
  /\ UNCHANGED <<accounts, kicking, sock, queue, posting, used, channel, hub, kicks, stored, stopping, history>>

-----------------------------------------------------------------------------
(* Shutdown. *)

Stop ==
  /\ "stop" \in traffic /\ ~stopping
  /\ stopping' = TRUE
  /\ UNCHANGED <<accounts, kicking, sock, queue, posting, used, loop, stored, history>>

RunEnds ==
  /\ InSelect /\ stopping
  /\ hub' = [pc |-> "stopped", event |-> None]
  /\ sock' = Removed(Sockets)
  /\ closes' = Closed(Sockets)
  /\ UNCHANGED <<accounts, kicking, queue, posting, used, channel, kicks, sweep, stored, stopping, owed, handled, overtaken>>

-----------------------------------------------------------------------------

Run ==
  \/ TakeStored \/ TakeNew \/ Persist \/ PersistFails \/ Notify \/ DisconnectSockets
  \/ Tick \/ RevalidationDone \/ RunEnds
  \/ \E s \in Sockets : Register(s) \/ Unregister(s) \/ \E ok \in BOOLEAN : RevalidationResult(s, ok)

Pumps(s) ==
  \/ BroadcastFrom(s) \/ ReadInvalid(s) \/ ReadFails(s) \/ ReaderLeaves(s) \/ Authorize(s) \/ WriterEnds(s)
  \/ \E m \in Messages, cached \in BOOLEAN : ReadMessage(s, m, cached)
  \/ \E ok \in BOOLEAN : Write(s, ok) \/ RevalidateClient(s, ok)

Handlers ==
  \/ \E s \in Sockets, u \in Users, g \in Rooms : ServeWs(s, u, g)
  \/ \E m \in Messages, u \in Users, g \in Rooms, kind \in Kinds : Post(m, u, g, kind)
  \/ \E e \in posting : Broadcast(e)
  \/ \E u, v \in Users : ChangeBlock(u, v)
  \/ \E u \in Users : RevokeCredentials(u) \/ DeleteAccount(u) \/ DisconnectUser(u)

Next == Run \/ Handlers \/ (\E s \in Sockets : Pumps(s)) \/ Stop

\* Go's select chooses among the ready cases at random, so that one that is ready
\* again and again is taken at last: a pump finds its closed done channel although
\* a client keeps it busy with errors.  For the loop weak fairness is enough, since
\* the messages of a behaviour are finitely many.  Goroutines go on; saving has a
\* deadline and the push callback's queries return.  Nothing makes clients connect,
\* send or leave.
Fairness ==
  /\ WF_vars(TakeStored) /\ WF_vars(TakeNew) /\ WF_vars(Persist \/ PersistFails) /\ WF_vars(Notify)
  /\ WF_vars(DisconnectSockets) /\ WF_vars(Tick) /\ WF_vars(RevalidationDone) /\ WF_vars(RunEnds)
  /\ WF_vars(\E e \in posting : Broadcast(e)) /\ WF_vars(\E u \in Users : DisconnectUser(u))
  /\ \A s \in Sockets :
       /\ WF_vars(Register(s)) /\ WF_vars(Unregister(s)) /\ WF_vars(BroadcastFrom(s)) /\ WF_vars(ReaderLeaves(s))
       /\ WF_vars(\E ok \in BOOLEAN : RevalidateClient(s, ok))
       /\ WF_vars(\E ok \in BOOLEAN : RevalidationResult(s, ok))
       /\ WF_vars(Authorize(s)) /\ WF_vars(\E ok \in BOOLEAN : Write(s, ok))
       /\ SF_vars(sock[s].state = "removed" /\ WriterEnds(s))
       /\ WF_vars(sock[s].writer = "gone" /\ ReadFails(s))

Spec == Init /\ [][Next]_vars
FairSpec == Spec /\ Fairness

-----------------------------------------------------------------------------
(* Properties. *)

\* Every variable has its type; the buffers are within their capacity.
TypeOK ==
  /\ traffic \subseteq Ops
  /\ active \subseteq Users /\ version \in [Users -> 0..MaxVersion] /\ blocked \subseteq Users \X Users
  /\ kicking \subseteq Users /\ posting \subseteq Event /\ used \subseteq Messages /\ stored \subseteq used
  /\ sock \in [Sockets -> Client] /\ queue \in [Sockets -> Seq(Event \cup {Notice})]
  /\ \A s \in Sockets : Len(queue[s]) <= SendBuffer
  /\ channel \in Seq(Event) /\ Len(channel) <= Buffer
  /\ hub \in [pc: {"select", "persisting", "notifying", "stopped"}, event: {None} \cup Event]
  /\ kicks \in Seq(Users) /\ Len(kicks) <= KickBuffer
  /\ sweep \in [running: BOOLEAN, wanted: BOOLEAN, todo: SUBSET Sockets,
                results: SUBSET (Sockets \X BOOLEAN), done: BOOLEAN]
  /\ stopping \in BOOLEAN

\* A socket's done channel is closed once, although its own pump, a kick, a
\* failed revalidation, a full buffer and the shutdown may all want it removed
\* (a second close would panic the loop).
DoneClosedOnce == \A s \in Sockets : closes[s] = IF sock[s].state = "removed" THEN 1 ELSE 0

\* A socket that is registered has no gap: whatever was sent to its room since
\* its registration was taken by its write pump or still waits for it.
QueuedIds(q) == {q[i].id : i \in {j \in 1..Len(q) : q[j] # Notice}}
NothingSkipped == \A s \in Sockets : Live(s) => owed[s] = handled[s] \cup QueuedIds(queue[s])

\* After a block has been committed no message of the one gets to the other,
\* whatever was queued or being delivered before.
NoDeliveryAcrossBlock ==
  [][\A s \in Sockets, ok \in BOOLEAN : Write(s, ok) /\ sock[s].writing # Notice =>
       ~Blocked(sock[s].user, sock[s].writing.author)]_vars

\* A live socket that was opened under an older auth_version is about to be
\* kicked, unless the command was dropped or came before the registration.
KickAwaited(s) ==
  \/ s \in overtaken \/ sock[s].user \in kicking
  \/ \E i \in 1..Len(kicks) : kicks[i] = sock[s].user
StaleSocketsKicked ==
  \A s \in Sockets : Live(s) /\ sock[s].version < version[sock[s].user] => KickAwaited(s)

\* The sockets of a deleted account are closed at last, also when the command
\* was dropped or came too early: a sweep finds them.
DeletedAccountsLeave ==
  \A u \in Users : (u \notin active) ~> [](LiveOf(u) = {})

\* A handler that posts and a pump that sends are not held up for ever, unless
\* the hub stops.
SendersServed ==
  /\ \A m \in Messages : (\E e \in posting : e.id = m) ~> ((\A e \in posting : e.id # m) \/ stopping)
  /\ \A s \in Sockets : (sock[s].reader = "sending") ~> (sock[s].reader # "sending" \/ stopping)

\* The two pumps of a socket that the loop has removed end, also when the hub
\* has stopped; only a reader that waits for the broadcast channel then does not.
PumpsEnd ==
  \A s \in Sockets : (sock[s].state = "removed") ~>
    /\ sock[s].writer = "gone"
    /\ sock[s].reader = "gone" \/ (sock[s].reader = "sending" /\ stopping)
=============================================================================
