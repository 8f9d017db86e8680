------------------------------- MODULE FeedBoard ------------------------------
(***************************************************************************)
(* The leaderboard of the public feed, read page by page while its players  *)
(* go on scoring: the key of the cursor moves, and nobody's place is kept.  *)
(* Player p's username sorts as p does; names that change are left out.     *)
(***************************************************************************)
EXTENDS Naturals, FiniteSets

CONSTANTS
  Players,   \* 1..n
  PageSize,
  MaxTotal,  \* bound on a player's points
  None

VARIABLES
  totals,  \* sum of a player's public_guesses; None before the first
  left,    \* deleted accounts
  reader,  \* the client's walk: next cursor, and whether there is a next page
  shown,   \* history: players on the pages of the walk, and their ranks
  still    \* history: players whose points are what they were when the walk began

vars == <<totals, left, reader, shown, still>>

Key == [total: 0..MaxTotal, name: Players]

Init ==
  /\ totals = [p \in Players |-> None] /\ left = {}
  /\ reader = [pc |-> "new", cursor |-> None] /\ shown = {} /\ still = {}

Ranked == {p \in Players \ left : totals[p] # None}
KeyOf(p) == [total |-> totals[p], name |-> p]

\* k is on the board behind l.
After(k, l) == k.total < l.total \/ (k.total = l.total /\ k.name > l.name)

InFront(p, ps) == {q \in ps : totals[q] > totals[p] \/ (totals[q] = totals[p] /\ q < p)}
First(ps, n) == {p \in ps : Cardinality(InFront(p, ps)) < n}
\* RANK, over all who have guessed.
Rank(p) == 1 + Cardinality({q \in Ranked : totals[q] > totals[p]})

-----------------------------------------------------------------------------

Guess(p, points) ==
  /\ p \notin left
  /\ LET total == points + (IF totals[p] = None THEN 0 ELSE totals[p])
     IN total <= MaxTotal /\ totals' = [totals EXCEPT ![p] = total]
  /\ still' = still \ {p}
  /\ UNCHANGED <<left, reader, shown>>

DeleteAccount(p) ==
  /\ left' = left \cup {p}
  /\ still' = still \ {p}
  /\ UNCHANGED <<totals, reader, shown>>

Begin ==
  /\ reader.pc # "open"
  /\ reader' = [pc |-> "open", cursor |-> None]
  /\ shown' = {} /\ still' = Ranked
  /\ UNCHANGED <<totals, left>>

Ahead == {p \in Ranked : reader.cursor = None \/ After(KeyOf(p), reader.cursor)}

\* loadLeaderboard: one row beyond the page makes a next cursor.
Leaderboard ==
  /\ reader.pc = "open"
  /\ LET rows == First(Ahead, PageSize + 1)
         items == First(rows, PageSize)
         last == CHOOSE p \in items : \A q \in items \ {p} : q \in InFront(p, items)
     IN /\ shown' = shown \cup {[player |-> p, rank |-> Rank(p)] : p \in items}
        /\ reader' = IF Cardinality(rows) > PageSize THEN [pc |-> "open", cursor |-> KeyOf(last)]
                     ELSE [pc |-> "end", cursor |-> None]
  /\ UNCHANGED <<totals, left, still>>

Next ==
  \/ \E p \in Players : DeleteAccount(p) \/ \E points \in 0..MaxTotal : Guess(p, points)
  \/ Begin \/ Leaderboard

Spec == Init /\ [][Next]_vars

-----------------------------------------------------------------------------
(* Properties. *)

TypeOK ==
  /\ totals \in [Players -> {None} \cup 0..MaxTotal] /\ left \subseteq Players
  /\ reader \in [pc: {"new", "open", "end"}, cursor: Key \cup {None}]
  /\ shown \subseteq [player: Players, rank: Players] /\ still \subseteq Players

\* A walk that has ended has shown every player whose points did not change,
\* whoever passed or fell behind meanwhile.
BoardComplete == reader.pc = "end" => \A p \in still : \E row \in shown : row.player = p
=============================================================================
