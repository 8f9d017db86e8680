------------------------------ MODULE FeedThread ------------------------------
(***************************************************************************)
(* The comments and the reaction of a published challenge, read page by     *)
(* page, newest first, while others comment, delete, block, publish and     *)
(* withdraw.  The list of the feed is paged in the same way.                *)
(***************************************************************************)
EXTENDS Naturals, FiniteSets

CONSTANTS
  Authors,    \* who comments; one of them may be the walker
  Walker,     \* who reads the thread
  Host,       \* the challenge's owner
  Entries,    \* comment ids 1..n
  PageSize,
  MaxTurn,    \* bound on the clock
  None

VARIABLES
  thread,   \* public_comments: row, or None
  parted,   \* pairs of players one of whom blocks the other
  visible,  \* the challenge exists, for an audience the walker belongs to
  liked,    \* public_reactions of the walker
  walk,     \* the client's walk: next cursor, and whether there is a next page
  turn,
  given,    \* history: the comments on the pages of the walk
  steady    \* history: comments that the walker could read since the walk began

vars == <<thread, parted, visible, liked, walk, turn, given, steady>>
walker == <<walk, given, steady>>

Turns == 0..MaxTurn
Comment_ == [author: Authors, at: Turns]
Position == [at: Turns, id: Entries]
Walk == [pc: {"new", "open", "end"}, cursor: Position \cup {None}]
NewWalk == [pc |-> "new", cursor |-> None]

Init ==
  /\ thread = [e \in Entries |-> None] /\ parted = {} /\ visible = TRUE /\ liked = FALSE
  /\ walk = NewWalk /\ turn = 0 /\ given = {} /\ steady = {}

There == {e \in Entries : thread[e] # None}
Pos(e) == [at |-> thread[e].at, id |-> e]

\* Neither blocks the other.
Together(u, v) == {u, v} \notin parted
CommentVisible(e) == Together(thread[e].author, Walker)
\* challengeVisibility for the walker.
Sees == visible /\ Together(Host, Walker)
Readable == {e \in There : Sees /\ CommentVisible(e)}

\* (c.created_at, c.id) < (cursor)
Before(p, q) == p.at < q.at \/ (p.at = q.at /\ p.id < q.id)

First(es, n) == {e \in es : Cardinality({o \in es : thread[o].at > thread[e].at \/ (thread[o].at = thread[e].at /\ o > e)}) < n}
Last(es) == Pos(CHOOSE e \in es : \A o \in es : thread[o].at > thread[e].at \/ (thread[o].at = thread[e].at /\ o >= e))

-----------------------------------------------------------------------------
(* Writing. *)

\* The statement that inserts looks whether its author may see the challenge;
\* created_at is the time it began.
Comment(e, u, at) ==
  /\ thread[e] = None /\ at <= turn /\ Together(u, Host)
  /\ u = Walker => Sees
  /\ thread' = [thread EXCEPT ![e] = [author |-> u, at |-> at]]
  /\ UNCHANGED <<parted, visible, liked, walker, turn>>

\* The author, or the owner of the challenge, who sees the comment.
DeleteComment(e, u) ==
  /\ e \in There /\ u \in {thread[e].author, Host} /\ Together(u, Host) /\ Together(u, thread[e].author)
  /\ thread' = [thread EXCEPT ![e] = None]
  /\ steady' = steady \ {e} /\ given' = given \ {e}
  /\ UNCHANGED <<parted, visible, liked, walk, turn>>

React(put) ==
  /\ Sees
  /\ liked' = put
  /\ UNCHANGED <<thread, parted, visible, walker, turn>>

\* Block and Unblock, and what else takes the challenge out of the walker's sight.
Part(u) ==
  /\ u # Walker
  /\ parted' = IF {u, Walker} \in parted THEN parted \ {{u, Walker}} ELSE parted \cup {{u, Walker}}
  /\ steady' = IF u = Host THEN {} ELSE {e \in steady : thread[e].author # u}
  /\ UNCHANGED <<thread, visible, liked, walk, turn, given>>

Withdraw ==
  /\ visible' = ~visible
  /\ steady' = {}
  /\ UNCHANGED <<thread, parted, liked, walk, turn, given>>

Tick == turn < MaxTurn /\ turn' = turn + 1 /\ UNCHANGED <<thread, parted, visible, liked, walker>>

-----------------------------------------------------------------------------
(* Reading. *)

\* Mutant: the query does not ask for one more than the page holds.
Rows_Exact(es) == First(es, PageSize)

Rows(es) == First(es, PageSize + 1)

\* What the query for the next page may return.
Ahead == {e \in Readable : walk.cursor = None \/ Before(Pos(e), walk.cursor)}

Begin ==
  /\ walk.pc # "open"
  /\ walk' = [pc |-> "open", cursor |-> None]
  /\ given' = {} /\ steady' = Readable
  /\ UNCHANGED <<thread, parted, visible, liked, turn>>

\* Comments, and the List of the feed: rows beyond the page make a next cursor.
Comments ==
  /\ walk.pc = "open" /\ Sees
  /\ LET rows == Rows(Ahead)
         items == First(rows, PageSize)
     IN /\ given' = given \cup items
        /\ walk' = IF Cardinality(rows) > PageSize THEN [pc |-> "open", cursor |-> Last(items)] ELSE [pc |-> "end", cursor |-> None]
  /\ UNCHANGED <<thread, parted, visible, liked, turn, steady>>

-----------------------------------------------------------------------------

Next ==
  \/ \E e \in Entries, u \in Authors : DeleteComment(e, u) \/ \E at \in Turns : Comment(e, u, at)
  \/ \E put \in BOOLEAN : React(put)
  \/ \E u \in Authors \cup {Host} : Part(u)
  \/ Withdraw \/ Tick \/ Begin \/ Comments

Spec == Init /\ [][Next]_vars
-----------------------------------------------------------------------------
(* Properties. *)

TypeOK ==
  /\ thread \in [Entries -> {None} \cup Comment_] /\ parted \subseteq SUBSET (Authors \cup {Host, Walker})
  /\ visible \in BOOLEAN /\ liked \in BOOLEAN /\ walk \in Walk /\ turn \in Turns
  /\ given \subseteq Entries /\ steady \subseteq Entries

\* A walk that has ended has shown every comment that could be read from its
\* beginning to its end.
WalkComplete == walk.pc = "end" => steady \subseteq given
=============================================================================
