----------------------------- MODULE OneAttempt -----------------------------
(***************************************************************************)
(* What a timed challenge promises every player: one window, fixed when    *)
(* the media first reaches the player, and one attempt, which is either a  *)
(* guess sent inside the window or a timeout sent at its end.  Neither is  *)
(* ever changed or taken back.                                             *)
(***************************************************************************)
EXTENDS Naturals

CONSTANTS
  Users, Points, NoPoint,
  ExpiresAt,   \* nothing stays open after this instant
  Slack        \* how early a timeout may be recorded

VARIABLES
  time,        \* instants up to now
  window,      \* user -> [opens, closes], for the users whose window was opened
  attempt      \* user -> the attempt recorded for the user

vars == <<time, window, attempt>>

Add(table, u, row) == [x \in DOMAIN table \cup {u} |-> IF x = u THEN row ELSE table[x]]

Init ==
  /\ time = 0
  /\ window = [u \in {} |-> 0]
  /\ attempt = [u \in {} |-> 0]

Pass == time' = time + 1 /\ UNCHANGED <<window, attempt>>

Open(u) ==
  /\ u \notin DOMAIN window
  /\ \E opens, closes \in 0 .. ExpiresAt :
       opens <= closes /\ window' = Add(window, u, [opens |-> opens, closes |-> closes])
  /\ UNCHANGED <<time, attempt>>

\* The attempt was sent at an earlier instant than it is recorded.
Guess(u) ==
  /\ u \in DOMAIN window \ DOMAIN attempt
  /\ \E sent \in 0 .. time, p \in Points :
       /\ window[u].opens <= sent /\ sent < window[u].closes
       /\ attempt' = Add(attempt, u, [timedOut |-> FALSE, at |-> sent, point |-> p])
  /\ UNCHANGED <<time, window>>

TimeOut(u) ==
  /\ u \in DOMAIN window \ DOMAIN attempt
  /\ \E sent \in 0 .. time :
       /\ window[u].opens <= sent /\ window[u].closes <= sent + Slack
       /\ attempt' = Add(attempt, u, [timedOut |-> TRUE, at |-> sent, point |-> NoPoint])
  /\ UNCHANGED <<time, window>>

Next == Pass \/ \E u \in Users : Open(u) \/ Guess(u) \/ TimeOut(u)

Spec == Init /\ [][Next]_vars
=============================================================================
