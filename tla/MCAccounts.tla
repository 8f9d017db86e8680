----------------------------- MODULE MCAccounts -----------------------------
(* Accounts on small instances; the .cfg files give the constants. *)
EXTENDS Accounts, TLC

CONSTANTS ann, bob, mail1, mail2, sub1, sub2, pw1, pw2, r1, r2, i1, i2

\* Nothing in the model tells two accounts, addresses, subjects, passwords,
\* requests or row ids apart.
Interchangeable ==
  Permutations(Accounts) \cup Permutations(Addresses) \cup Permutations(Subjects)
    \cup Permutations(Passwords) \cup Permutations(Requests) \cup Permutations(Ids)
=============================================================================
