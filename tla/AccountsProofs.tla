--------------------------- MODULE AccountsProofs ---------------------------
(* Proofs about Accounts, for any accounts, addresses, subjects and requests. *)
EXTENDS Accounts, TLAPS

USE NoneAssumption

-----------------------------------------------------------------------------
(* The inductive invariant. *)

\* The request holds the user row in the transaction of a revocation.
Revokes(c) == c.pc \in {"revoking", "purging"}

\* What a request is about, until it comes to an end.
Asker(c) ==
  /\ c.pc \notin {"idle", "provisioning"} => c.user \in Accounts /\ users[c.user].status # "absent"
  /\ c.pc \in {"authorized", "revoke"} => c.subject = None
  /\ c.pc \in {"mail", "reset_mail"} => c.address \in Addresses
  /\ c.pc = "reset_mail" => <<c.user, c.address>> \in proven

\* The session it rotates is locked, and remains.
RotatesOwn(c) ==
  c.pc \in {"rotating", "rotated"} => c.id \in DOMAIN sessions /\ sessions[c.id].user = c.user

\* A subject is attached to the account with its intent, which is locked, or to the
\* account that proved its address.
AttachesOwn(c) ==
  c.pc \in {"matched", "revoking", "purging"} =>
    /\ c.subject # None => /\ realm[c.subject].address # None
                           /\ c.op = "link" \/ <<c.user, realm[c.subject].address>> \in proven
    /\ c.op = "link" => c.pc # "matched" /\ c.id \in DOMAIN intents /\ intents[c.id].user = c.user

\* A session the revocation has not chosen was inserted after it had begun.
RevokesAll(c) ==
  Revokes(c) => \A i \in DOMAIN sessions :
    sessions[i].user = c.user /\ ~sessions[i].revoked /\ ~sessions[i].raced => i \in c.seen

\* The identities of a deletion are gone, but for those still to be deleted.
UnlinksFirst(c) ==
  c.pc \in {"unlinking", "deleting"} =>
    /\ c.seen \subseteq Subjects /\ c.old \subseteq c.seen
    /\ c.pc = "deleting" => c.old = {}
    /\ \A s \in c.seen : realm[s].address # None /\ (s \in c.old \/ ~realm[s].exists)

\* The version a ticket is made for is not newer than the account's.
MintsPast(c) ==
  c.pc = "minting" /\ Active(c.user) => c.row.version <= users[c.user].version

Sound(c) == Asker(c) /\ RotatesOwn(c) /\ AttachesOwn(c) /\ RevokesAll(c) /\ UnlinksFirst(c) /\ MintsPast(c)

\* One transaction at a time holds a user row.
OneRevocation ==
  \A q, r \in Requests : Revokes(req[q]) /\ Revokes(req[r]) /\ req[q].user = req[r].user => q = r

\* What Keycloak has, or had, has an address for good.
RealmKnown ==
  /\ \A s \in Subjects : realm[s].exists => realm[s].address # None
  /\ \A s \in DOMAIN identities : realm[s].address # None

\* A verified address is an active account's.
EmailActive == \A u \in Accounts : users[u].email # None => Active(u)

\* No ticket is newer than its insertion, and no insertion than its account.
TicketsOrdered ==
  \A i \in DOMAIN tickets :
    tickets[i].version <= tickets[i].at /\ tickets[i].at <= users[tickets[i].user].version

Inv ==
  /\ TypeOK
  /\ \A r \in Requests : Sound(req[r])
  /\ OneRevocation
  /\ RealmKnown
  /\ EmailActive /\ EmailProven /\ AddressUnique /\ ResetsReachOwner
  /\ TicketsOrdered
  /\ StaleSessionsRaced

-----------------------------------------------------------------------------
(* Steps that change their request only. *)

Calm == UNCHANGED <<users, sessions, tokens, external, access, traffic, proven>>

\* The step turns r into the record c, which takes hold of a user row only when
\* nobody else has it.
Turns(r, c) ==
  /\ c \in Request
  /\ req' = [req EXCEPT ![r] = c]
  /\ Revokes(c) => (Revokes(req[r]) /\ c.user = req[r].user) \/ ~Revoking(c.user)

\* What the rules say of a request that holds nothing.
Plain == {"idle", "authorized", "mail", "reset_mail", "issue", "revoke", "profile", "linking", "provisioning"}

LEMMA PlainSound ==
  ASSUME NEW c \in Request, c.pc \in Plain, Asker(c)
  PROVE  Sound(c) /\ ~Revokes(c)
BY DEF Plain, Sound, RotatesOwn, AttachesOwn, RevokesAll, UnlinksFirst, MintsPast, Revokes

\* Requests and rows have their types.
LEMMA Fields ==
  ASSUME Inv, NEW r \in Requests
  PROVE  /\ req[r] \in Request /\ Sound(req[r])
         /\ req[r].pc \notin {"idle", "provisioning"} => users[req[r].user] \in UserRow
BY DEF Inv, TypeOK, TablesTyped, Sound, Asker

LEMMA IdleTyped == Idle \in Request /\ Idle.subject = None /\ Sound(Idle) /\ ~Revokes(Idle)
<1>1. Idle \in Request
  BY DEF Idle, Request, NoUser, UserRow, Steps, Ops
<1>2. Asker(Idle) /\ Idle.pc \in Plain
  BY DEF Idle, Asker, Plain
<1>3. Idle.subject = None
  BY DEF Idle
<1> QED
  BY <1>1, <1>2, <1>3, PlainSound

\* Where a request can be, and what for.
LEMMA Names ==
  /\ "authorized" \in Steps /\ "issue" \in Steps /\ "rotating" \in Steps /\ "rotated" \in Steps
  /\ "revoke" \in Steps /\ "revoking" \in Steps /\ "purging" \in Steps /\ "minting" \in Steps
  /\ "mail" \in Steps /\ "reset_mail" \in Steps /\ "profile" \in Steps /\ "linking" \in Steps
  /\ "matched" \in Steps /\ "provisioning" \in Steps /\ "unlinking" \in Steps /\ "deleting" \in Steps
  /\ "signup" \in Ops /\ "refresh" \in Ops /\ "logout_all" \in Ops /\ "reset" \in Ops
  /\ "forgot" \in Ops /\ "exchange" \in Ops /\ "migrate" \in Ops
BY DEF Steps, Ops

LEMMA ActiveKnown ==
  ASSUME NEW u, Active(u)
  PROVE  users[u].status # "absent"
BY DEF Active

\* A revocation begins: the sessions it sees are those that are usable.
LEMMA Begins ==
  ASSUME Inv, NEW r \in Requests, NEW record \in Request, record.user \in Accounts,
         BeginRevocation(r, record), AttachesOwn([record EXCEPT !.pc = "revoking"])
  PROVE  \E c : Turns(r, c) /\ Sound(c)
<1> DEFINE c == [record EXCEPT !.pc = "revoking", !.seen = LiveSessions(record.user)]
<1>1. LiveSessions(record.user) \subseteq Ids
  BY DEF LiveSessions, RowsOf, Inv, TypeOK, TablesTyped
<1>2. /\ c \in Request /\ c.pc = "revoking" /\ c.user = record.user /\ c.op = record.op /\ c.id = record.id
      /\ c.subject = record.subject /\ c.seen = LiveSessions(record.user)
  BY <1>1, Names DEF Request
<1>3. req' = [req EXCEPT ![r] = c] /\ ~Revoking(record.user) /\ Active(record.user)
  BY DEF BeginRevocation, Continue
<1> HIDE DEF c
<1>4. Asker(c) /\ RotatesOwn(c) /\ UnlinksFirst(c) /\ MintsPast(c)
  BY <1>2, <1>3, ActiveKnown DEF Asker, RotatesOwn, UnlinksFirst, MintsPast
<1>5. AttachesOwn(c)
  BY <1>2 DEF AttachesOwn, Request
<1>6. RevokesAll(c)
  BY <1>2 DEF RevokesAll, LiveSessions, RowsOf
<1> QED
  BY <1>2, <1>3, <1>4, <1>5, <1>6 DEF Turns, Sound

\* Leaving, the middleware, and the calm steps of logging in and of rotating.
LEMMA CalmSessions ==
  ASSUME Inv, NEW r \in Requests,
         \/ Leave(r) \/ LoadRotatingUser(r)
         \/ \E u \in Accounts, op \in Ops : AuthMiddleware(r, u, op)
         \/ \E name \in Accounts \cup Addresses, p \in Passwords : Login(r, name, p)
         \/ \E i \in Ids : RetireSession(r, i) \/ LogoutAll(r, i)
  PROVE  Calm /\ \E c : Turns(r, c) /\ Sound(c)
<1> USE Fields, IdleTyped, ActiveKnown
<1>1. Calm
  BY DEF Calm, Leave, AuthMiddleware, Login, RetireSession, LoadRotatingUser, LogoutAll
<1>2. ASSUME Leave(r)
      PROVE  \E c : Turns(r, c) /\ Sound(c)
  <2>1. Turns(r, Idle)
    BY <1>2 DEF Leave, Done, Turns
  <2> QED
    BY <2>1
<1>3. ASSUME NEW u \in Accounts, NEW op \in Ops, AuthMiddleware(r, u, op)
      PROVE  \E c : Turns(r, c) /\ Sound(c)
  <2> DEFINE c == [Idle EXCEPT !.pc = "authorized", !.op = op, !.user = u]
  <2>1. c \in Request /\ c.pc = "authorized" /\ c.user = u /\ c.subject = None
    <3>1. "authorized" \in Steps
      BY Names
    <3> QED
      BY IdleTyped, <3>1 DEF Request
  <2>2. req' = [req EXCEPT ![r] = c] /\ Active(u)
    BY <1>3 DEF AuthMiddleware, Continue
  <2> HIDE DEF c
  <2>3. Asker(c)
    BY <2>1, <2>2 DEF Asker
  <2> QED
    BY <2>1, <2>2, <2>3, PlainSound DEF Plain, Turns
<1>4. ASSUME NEW name, NEW p, Login(r, name, p)
      PROVE  \E c : Turns(r, c) /\ Sound(c)
  <2>1. PICK v \in Accounts : /\ Active(v)
                              /\ req' = [req EXCEPT ![r] = [Idle EXCEPT !.pc = "issue", !.user = v, !.row = users[v]]]
    BY <1>4 DEF Login, Candidates, Continue
  <2> DEFINE c == [Idle EXCEPT !.pc = "issue", !.user = v, !.row = users[v]]
  <2>2. users[v] \in UserRow
    BY DEF Inv, TypeOK, TablesTyped
  <2>3. c \in Request /\ c.pc = "issue" /\ c.user = v
    <3>1. "issue" \in Steps
      BY Names
    <3> QED
      BY <2>2, IdleTyped, <3>1 DEF Request
  <2> HIDE DEF c
  <2>4. Asker(c)
    BY <2>1, <2>3 DEF Asker
  <2> QED
    BY <2>1, <2>3, <2>4, PlainSound DEF Plain, Turns, c
<1>5. ASSUME NEW i \in Ids, RetireSession(r, i)
      PROVE  \E c : Turns(r, c) /\ Sound(c)
  <2> DEFINE c == [Idle EXCEPT !.pc = "rotating", !.op = "refresh", !.id = i, !.user = sessions[i].user]
  <2>1. i \in DOMAIN sessions /\ sessions[i].user \in Accounts /\ Active(sessions[i].user)
    BY <1>5 DEF RetireSession, Inv, TypeOK, TablesTyped, Session, RowsOwned, Owned
  <2>2. c \in Request /\ c.pc = "rotating" /\ c.user = sessions[i].user /\ c.id = i
    <3>1. "rotating" \in Steps /\ "refresh" \in Ops
      BY Names
    <3> QED
      BY <2>1, IdleTyped, <3>1 DEF Request
  <2>3. req' = [req EXCEPT ![r] = c]
    BY <1>5 DEF RetireSession, Continue
  <2> HIDE DEF c
  <2>4. Asker(c) /\ RotatesOwn(c) /\ AttachesOwn(c) /\ RevokesAll(c) /\ UnlinksFirst(c) /\ MintsPast(c) /\ ~Revokes(c)
    BY <2>1, <2>2 DEF Asker, RotatesOwn, AttachesOwn, RevokesAll, UnlinksFirst, MintsPast, Revokes
  <2> QED
    BY <2>2, <2>3, <2>4 DEF Sound, Turns
<1>6. ASSUME LoadRotatingUser(r)
      PROVE  \E c : Turns(r, c) /\ Sound(c)
  <2> DEFINE c == [req[r] EXCEPT !.pc = "rotated", !.row = users[req[r].user]]
  <2>1. req[r].pc = "rotating" /\ req' = [req EXCEPT ![r] = c]
    BY <1>6 DEF LoadRotatingUser, Continue, At
  <2>2. c \in Request /\ c.pc = "rotated" /\ c.user = req[r].user /\ c.id = req[r].id
    <3>1. "rotated" \in Steps
      BY Names
    <3>2. req[r] \in Request /\ users[req[r].user] \in UserRow
      BY <2>1
    <3> QED
      BY ONLY <3>1, <3>2 DEF Request
  <2> HIDE DEF c
  <2>4. Asker(c) /\ RotatesOwn(c) /\ AttachesOwn(c) /\ RevokesAll(c) /\ UnlinksFirst(c) /\ MintsPast(c) /\ ~Revokes(c)
    <3>1. Sound(req[r])
      BY Fields
    <3> QED
      BY ONLY NoneAssumption, <2>1, <2>2, <3>1 DEF Sound, Asker, RotatesOwn, AttachesOwn, RevokesAll, UnlinksFirst, MintsPast, Revokes
  <2> QED
    BY <2>1, <2>2, <2>4 DEF Sound, Turns
<1>7. ASSUME NEW i \in Ids, LogoutAll(r, i)
      PROVE  \E c : Turns(r, c) /\ Sound(c)
  <2> DEFINE c == [Idle EXCEPT !.pc = "revoke", !.op = "logout_all", !.user = sessions[i].user]
  <2>1. sessions[i].user \in Accounts /\ Active(sessions[i].user)
    BY <1>7 DEF LogoutAll, Inv, TypeOK, TablesTyped, Session, RowsOwned, Owned
  <2>2. c \in Request /\ c.pc = "revoke" /\ c.user = sessions[i].user /\ c.subject = None
    <3>1. "revoke" \in Steps /\ "logout_all" \in Ops
      BY Names
    <3> QED
      BY <2>1, IdleTyped, <3>1 DEF Request
  <2>3. req' = [req EXCEPT ![r] = c]
    BY <1>7 DEF LogoutAll, Continue
  <2> HIDE DEF c
  <2>4. Asker(c)
    BY <2>1, <2>2 DEF Asker
  <2> QED
    BY <2>2, <2>3, <2>4, PlainSound DEF Plain, Turns
<1> QED
  BY <1>1, <1>2, <1>3, <1>4, <1>5, <1>6, <1>7

\* Checking the password, and beginning a revocation.
LEMMA CalmRevocations ==
  ASSUME Inv, NEW r \in Requests,
         \/ RevokeAllCredentials(r) \/ ChangePassword(r) \/ RevokeSessions(r)
         \/ \E p \in Passwords : CheckCurrentPassword(r, p) \/ \E i \in Ids : ResetPassword(r, i, p)
  PROVE  Calm /\ \E c : Turns(r, c) /\ Sound(c)
<1> USE Fields, ActiveKnown
<1>1. Calm
  BY DEF Calm, RevokeAllCredentials, ChangePassword, RevokeSessions, CheckCurrentPassword, ResetPassword, BeginRevocation
<1>2. ASSUME RevokeAllCredentials(r) \/ ChangePassword(r)
      PROVE  \E c : Turns(r, c) /\ Sound(c)
  <2>1. /\ req[r].pc = "revoke" /\ req[r].op # "link" /\ BeginRevocation(r, req[r])
        /\ req[r].user \in Accounts /\ req[r].subject = None
    BY <1>2 DEF RevokeAllCredentials, ChangePassword, At, Sound, Asker
  <2>2. AttachesOwn([req[r] EXCEPT !.pc = "revoking"])
    BY <2>1 DEF AttachesOwn, Request
  <2> QED
    BY <2>1, <2>2, Begins
<1>3. ASSUME RevokeSessions(r)
      PROVE  \E c : Turns(r, c) /\ Sound(c)
  <2> DEFINE c == [req[r] EXCEPT !.pc = "purging", !.old = RowsOf(tickets, req[r].user)]
  <2>1. req[r].pc = "revoking" /\ req' = [req EXCEPT ![r] = c]
    BY <1>3 DEF RevokeSessions, Continue, At
  <2>2. RowsOf(tickets, req[r].user) \subseteq Ids
    BY DEF RowsOf, Inv, TypeOK, TablesTyped
  <2>3. /\ c \in Request /\ c.pc = "purging" /\ c.user = req[r].user /\ c.id = req[r].id /\ c.op = req[r].op
        /\ c.subject = req[r].subject /\ c.seen = req[r].seen
    <3>1. "purging" \in Steps /\ req[r] \in Request
      BY Names
    <3> QED
      BY ONLY <2>2, <3>1 DEF Request
  <2> HIDE DEF c
  <2>4. Asker(c) /\ RotatesOwn(c) /\ AttachesOwn(c) /\ RevokesAll(c) /\ UnlinksFirst(c) /\ MintsPast(c) /\ Revokes(req[r])
    <3>1. Sound(req[r])
      BY Fields
    <3> QED
      BY ONLY NoneAssumption, <2>1, <2>3, <3>1 DEF Sound, Asker, RotatesOwn, AttachesOwn, RevokesAll, UnlinksFirst, MintsPast, Revokes
  <2> QED
    BY <2>1, <2>3, <2>4 DEF Sound, Turns
<1>4. ASSUME NEW p \in Passwords, CheckCurrentPassword(r, p)
      PROVE  \E c : Turns(r, c) /\ Sound(c)
  <2> DEFINE c == [req[r] EXCEPT !.pc = "revoke", !.password = p]
  <2>1. req[r].pc = "authorized" /\ req' = [req EXCEPT ![r] = c]
    BY <1>4 DEF CheckCurrentPassword, Continue, At, Authorized
  <2>2. c \in Request /\ c.pc = "revoke" /\ c.user = req[r].user /\ c.subject = req[r].subject
    <3>1. "revoke" \in Steps /\ req[r] \in Request
      BY Names
    <3> QED
      BY ONLY p \in Passwords, <3>1 DEF Request
  <2> HIDE DEF c
  <2>3. Asker(c)
    BY <2>1, <2>2 DEF Sound, Asker
  <2> QED
    BY <2>1, <2>2, <2>3, PlainSound DEF Plain, Turns
<1>5. ASSUME NEW i \in Ids, NEW p \in Passwords, ResetPassword(r, i, p)
      PROVE  \E c : Turns(r, c) /\ Sound(c)
  <2> DEFINE c == [Idle EXCEPT !.op = "reset", !.user = resets[i].user, !.id = i, !.password = p]
  <2>1. BeginRevocation(r, c) /\ resets[i].user \in Accounts
    BY <1>5 DEF ResetPassword, Inv, TypeOK, TablesTyped, Mail
  <2>2. c \in Request /\ c.user = resets[i].user /\ c.op = "reset" /\ c.subject = None
    BY <2>1, IdleTyped DEF Request, Ops, Idle
  <2> HIDE DEF c
  <2>3. AttachesOwn([c EXCEPT !.pc = "revoking"])
    BY <2>2 DEF AttachesOwn, Request
  <2> QED
    BY <2>1, <2>2, <2>3, Begins
<1> QED
  BY <1>1, <1>2, <1>3, <1>4, <1>5

\* Before a ticket, a mail or a profile is written.
LEMMA CalmTokens ==
  ASSUME Inv, NEW r \in Requests,
         \/ UserAuthVersion(r) \/ SignupWithoutMail(r) \/ RequestVerification(r) \/ CheckProfile(r)
         \/ \E e \in Addresses : ForgotPassword(r, e)
  PROVE  Calm /\ \E c : Turns(r, c) /\ Sound(c)
<1> USE Fields, IdleTyped, ActiveKnown
<1>1. Calm
  BY DEF Calm, UserAuthVersion, SignupWithoutMail, RequestVerification, ForgotPassword, CheckProfile
<1>2. ASSUME UserAuthVersion(r)
      PROVE  \E c : Turns(r, c) /\ Sound(c)
  <2> DEFINE c == [req[r] EXCEPT !.pc = "minting", !.row = users[req[r].user]]
  <2>1. req[r].pc = "authorized" /\ req' = [req EXCEPT ![r] = c]
    BY <1>2 DEF UserAuthVersion, Authorized, Continue, At
  <2>2. c \in Request /\ c.pc = "minting" /\ c.user = req[r].user /\ c.row = users[req[r].user]
    <3>1. "minting" \in Steps /\ req[r] \in Request /\ users[req[r].user] \in UserRow
      BY <2>1, Names
    <3> QED
      BY ONLY <3>1 DEF Request
  <2>3. users[req[r].user].version \in Nat
    BY <2>1 DEF UserRow
  <2> HIDE DEF c
  <2>4. Asker(c) /\ RotatesOwn(c) /\ AttachesOwn(c) /\ RevokesAll(c) /\ UnlinksFirst(c) /\ ~Revokes(c)
    <3>1. Sound(req[r])
      BY Fields
    <3> QED
      BY ONLY NoneAssumption, <2>1, <2>2, <3>1 DEF Sound, Asker, RotatesOwn, AttachesOwn, RevokesAll, UnlinksFirst, Revokes
  <2>5. MintsPast(c)
    BY <2>2, <2>3 DEF MintsPast
  <2> QED
    BY <2>1, <2>2, <2>4, <2>5 DEF Sound, Turns
<1>3. ASSUME SignupWithoutMail(r) \/ CheckProfile(r)
      PROVE  \E c : Turns(r, c) /\ Sound(c)
  <2>1. PICK step \in {"issue", "profile"} :
          req[r].pc \in {"mail", "authorized"} /\ req' = [req EXCEPT ![r] = [req[r] EXCEPT !.pc = step]]
    BY <1>3 DEF SignupWithoutMail, CheckProfile, Authorized, Goto, Continue, At
  <2> DEFINE c == [req[r] EXCEPT !.pc = step]
  <2>2. c \in Request /\ c.pc = step /\ c.user = req[r].user
    <3>1. step \in Steps
      BY Names, <2>1
    <3> QED
      BY <2>1, <3>1 DEF Request
  <2> HIDE DEF c
  <2>3. Asker(c)
    BY <2>1, <2>2 DEF Sound, Asker
  <2> QED
    BY <2>1, <2>2, <2>3, PlainSound DEF Plain, Turns, c
<1>4. ASSUME RequestVerification(r)
      PROVE  \E c : Turns(r, c) /\ Sound(c)
  <2> DEFINE c == [req[r] EXCEPT !.pc = "mail", !.address = users[req[r].user].pending]
  <2>1. req[r].pc = "authorized" /\ req' = [req EXCEPT ![r] = c] /\ users[req[r].user].pending # None
    BY <1>4 DEF RequestVerification, Authorized, Continue, At
  <2>2. users[req[r].user].pending \in Addresses
    BY <2>1 DEF UserRow
  <2>3. c \in Request /\ c.pc = "mail" /\ c.user = req[r].user /\ c.address \in Addresses
    <3>1. "mail" \in Steps /\ req[r] \in Request
      BY Names
    <3> QED
      BY ONLY <2>2, <3>1 DEF Request
  <2> HIDE DEF c
  <2>4. Asker(c)
    BY <2>1, <2>3 DEF Sound, Asker
  <2> QED
    BY <2>1, <2>3, <2>4, PlainSound DEF Plain, Turns
<1>5. ASSUME NEW e \in Addresses, ForgotPassword(r, e)
      PROVE  \E c : Turns(r, c) /\ Sound(c)
  <2>1. PICK u \in Accounts, step \in {"mail", "reset_mail"} :
          /\ Active(u)
          /\ step = "reset_mail" => users[u].email = e
          /\ req' = [req EXCEPT ![r] = [Idle EXCEPT !.pc = step, !.op = "forgot", !.user = u, !.address = e]]
    <3>1. CASE RecoveryHolders(e) # {}
      BY <1>5, <3>1 DEF ForgotPassword, RecoveryHolders, Holders, Continue
    <3>2. CASE RecoveryHolders(e) = {}
      <4>1. PICK u \in Accounts : /\ Claimants(e) = {u}
                                  /\ Continue(r, [Idle EXCEPT !.pc = "mail", !.op = "forgot", !.user = u, !.address = e])
        BY <1>5, <3>2 DEF ForgotPassword
      <4>2. Active(u)
        BY <4>1 DEF Claimants
      <4> QED
        BY <4>1, <4>2 DEF Continue
    <3> QED
      BY <3>1, <3>2
  <2> DEFINE c == [Idle EXCEPT !.pc = step, !.op = "forgot", !.user = u, !.address = e]
  <2>2. c \in Request /\ c.pc = step /\ c.user = u /\ c.address = e
    <3>1. step \in Steps /\ "forgot" \in Ops
      BY Names, <2>1
    <3> QED
      BY <2>1, IdleTyped, <3>1 DEF Request
  <2>3. step = "reset_mail" => <<u, e>> \in proven
    BY <2>1 DEF Inv, EmailProven
  <2> HIDE DEF c
  <2>4. Asker(c)
    BY <2>1, <2>2, <2>3 DEF Asker
  <2> QED
    BY <2>1, <2>2, <2>4, PlainSound DEF Plain, Turns, c
<1> QED
  BY <1>1, <1>2, <1>3, <1>4, <1>5

\* Link intents, matches, and the confirmation of a deletion.
LEMMA CalmIdentities ==
  ASSUME Inv, NEW r \in Requests,
         \/ StartOIDCLink(r) \/ AttachMatch(r) \/ ConfirmDeletion(r) \/ PlanProvisioning(r)
         \/ \E s \in Subjects : \/ ResolveLinked(r, s) \/ ResolveMatch(r, s)
                                \/ \E i \in Ids : LinkOIDCIdentity(r, s, i)
         \/ \E e \in Addresses : ProvisioningFails(r, e)
  PROVE  Calm /\ \E c : Turns(r, c) /\ Sound(c)
<1> USE Fields, IdleTyped, ActiveKnown
<1>1. Calm
  BY DEF Calm, StartOIDCLink, LinkOIDCIdentity, ResolveLinked, ResolveMatch, AttachMatch, ConfirmDeletion,
         PlanProvisioning, ProvisioningFails, BeginRevocation
<1>2. ASSUME StartOIDCLink(r)
      PROVE  \E c : Turns(r, c) /\ Sound(c)
  <2> DEFINE c == [req[r] EXCEPT !.pc = "linking", !.old = RowsOf(intents, req[r].user)]
  <2>1. req[r].pc = "authorized" /\ req' = [req EXCEPT ![r] = c]
    BY <1>2 DEF StartOIDCLink, Authorized, Continue, At
  <2>2. RowsOf(intents, req[r].user) \subseteq Ids
    BY DEF RowsOf, Inv, TypeOK, TablesTyped
  <2>3. c \in Request /\ c.pc = "linking" /\ c.user = req[r].user
    <3>1. "linking" \in Steps /\ req[r] \in Request
      BY Names
    <3> QED
      BY ONLY <2>2, <3>1 DEF Request
  <2> HIDE DEF c
  <2>4. Asker(c)
    BY <2>1, <2>3 DEF Sound, Asker
  <2> QED
    BY <2>1, <2>3, <2>4, PlainSound DEF Plain, Turns
<1>3. ASSUME NEW s \in Subjects, NEW i \in Ids, LinkOIDCIdentity(r, s, i)
      PROVE  \E c : Turns(r, c) /\ Sound(c)
  <2> DEFINE c == [Idle EXCEPT !.op = "link", !.user = intents[i].user, !.id = i, !.subject = s]
  <2>1. BeginRevocation(r, c) /\ intents[i].user \in Accounts /\ i \in DOMAIN intents /\ realm[s].exists
    BY <1>3 DEF LinkOIDCIdentity, Inv, TypeOK, TablesTyped, Exists
  <2>2. c \in Request /\ c.user = intents[i].user /\ c.op = "link" /\ c.subject = s /\ c.id = i
    BY <2>1 DEF Request, Ops, Idle
  <2>3. realm[s].address # None
    BY <2>1 DEF Inv, RealmKnown
  <2> HIDE DEF c
  <2>4. AttachesOwn([c EXCEPT !.pc = "revoking"])
    BY <2>1, <2>2, <2>3 DEF AttachesOwn, Request
  <2> QED
    BY <2>1, <2>2, <2>4, Begins
<1>4. ASSUME NEW s \in Subjects, ResolveLinked(r, s)
      PROVE  \E c : Turns(r, c) /\ Sound(c)
  <2> DEFINE u == identities[s]
             c == [Idle EXCEPT !.pc = "issue", !.user = u, !.row = users[u]]
  <2>1. Active(u) /\ u \in Accounts /\ req' = [req EXCEPT ![r] = c] /\ users[u] \in UserRow
    BY <1>4 DEF ResolveLinked, Continue, Inv, TypeOK, TablesTyped
  <2>2. c \in Request /\ c.pc = "issue" /\ c.user = u
    <3>1. "issue" \in Steps
      BY Names
    <3> QED
      BY <2>1, IdleTyped, <3>1 DEF Request
  <2> HIDE DEF c
  <2>3. Asker(c)
    BY <2>1, <2>2 DEF Asker
  <2> QED
    BY <2>1, <2>2, <2>3, PlainSound DEF Plain, Turns
<1>5. ASSUME NEW s \in Subjects, ResolveMatch(r, s)
      PROVE  \E c : Turns(r, c) /\ Sound(c)
  <2>1. PICK u \in Accounts :
          /\ Active(u) /\ users[u].email = realm[s].address /\ realm[s].exists
          /\ req' = [req EXCEPT ![r] = [Idle EXCEPT !.pc = "matched", !.op = "exchange", !.user = u, !.subject = s,
                                                    !.address = realm[s].address]]
    BY <1>5 DEF ResolveMatch, Matches, Holders, Exists, Continue
  <2> DEFINE c == [Idle EXCEPT !.pc = "matched", !.op = "exchange", !.user = u, !.subject = s,
                               !.address = realm[s].address]
  <2>2. realm[s].address # None /\ realm[s].address \in Addresses \cup {None} /\ <<u, realm[s].address>> \in proven
    BY <2>1 DEF Inv, RealmKnown, EmailProven, TypeOK, TablesTyped
  <2>3. c \in Request /\ c.pc = "matched" /\ c.op = "exchange" /\ c.user = u /\ c.subject = s
    <3>1. "matched" \in Steps /\ "exchange" \in Ops
      BY Names
    <3> QED
      BY <2>1, <2>2, IdleTyped, <3>1 DEF Request
  <2> HIDE DEF c
  <2>4. Asker(c) /\ RotatesOwn(c) /\ AttachesOwn(c) /\ RevokesAll(c) /\ UnlinksFirst(c) /\ MintsPast(c) /\ ~Revokes(c)
    BY <2>1, <2>2, <2>3 DEF Asker, RotatesOwn, AttachesOwn, RevokesAll, UnlinksFirst, MintsPast, Revokes
  <2> QED
    BY <2>1, <2>3, <2>4 DEF Sound, Turns, c
<1>6. ASSUME AttachMatch(r)
      PROVE  \E c : Turns(r, c) /\ Sound(c)
  <2>1. req[r].pc = "matched" /\ BeginRevocation(r, req[r]) /\ req[r].user \in Accounts /\ AttachesOwn(req[r])
    BY <1>6 DEF AttachMatch, At, Sound, Asker
  <2>2. AttachesOwn([req[r] EXCEPT !.pc = "revoking"])
    BY <2>1 DEF AttachesOwn, Request
  <2> QED
    BY <2>1, <2>2, Begins
<1>7. ASSUME ConfirmDeletion(r)
      PROVE  \E c : Turns(r, c) /\ Sound(c)
  <2> DEFINE linked == {q \in DOMAIN identities : identities[q] = req[r].user}
             step == IF linked = {} THEN "deleting" ELSE "unlinking"
             c == [req[r] EXCEPT !.pc = step, !.seen = linked, !.old = linked]
  <2>1. req[r].pc = "authorized" /\ req' = [req EXCEPT ![r] = c]
    BY <1>7 DEF ConfirmDeletion, Authorized, Continue, At
  <2>2. linked \subseteq Subjects /\ \A q \in linked : realm[q].address # None
    BY DEF Inv, TypeOK, TablesTyped, RealmKnown
  <2>3. step \in {"deleting", "unlinking"} /\ (step = "deleting" => linked = {})
    OBVIOUS
  <2> HIDE DEF linked, step
  <2>4. c \in Request /\ c.pc = step /\ c.user = req[r].user /\ c.seen = linked /\ c.old = linked
    <3>1. req[r] \in Request
      BY Fields
    <3>2. c.pc = step /\ c.user = req[r].user /\ c.seen = linked /\ c.old = linked
      BY <3>1 DEF Request
    <3>3. c \in Request
      <4>1. step \in Steps
        BY <2>3, Names
      <4> QED
        BY ONLY <2>2, <3>1, <4>1 DEF Request
    <3> QED
      BY <3>2, <3>3
  <2> HIDE DEF c
  <2>5. Asker(c) /\ RotatesOwn(c) /\ AttachesOwn(c) /\ RevokesAll(c) /\ UnlinksFirst(c) /\ MintsPast(c) /\ ~Revokes(c)
    <3>1. Sound(req[r])
      BY Fields
    <3> QED
      BY ONLY NoneAssumption, <2>1, <2>2, <2>3, <2>4, <3>1 DEF Sound, Asker, RotatesOwn, AttachesOwn, RevokesAll, UnlinksFirst, MintsPast, Revokes
  <2> QED
    BY <2>1, <2>4, <2>5 DEF Sound, Turns
<1>8. ASSUME NEW e, PlanProvisioning(r) \/ ProvisioningFails(r, e)
      PROVE  \E c : Turns(r, c) /\ Sound(c)
  <2> DEFINE plan == {a \in Addresses : \E u \in Holders(a) : users[u].password # None /\ ~Linked(u)}
             begun == [Idle EXCEPT !.pc = "provisioning", !.op = "migrate", !.seen = plan]
             goes == [req[r] EXCEPT !.seen = @ \ {e}]
  <2>1. /\ begun \in Request /\ begun.pc = "provisioning"
        /\ goes \in Request /\ goes.pc = req[r].pc
    <3>1. plan \subseteq Addresses
      OBVIOUS
    <3> HIDE DEF plan
    <3>2. begun \in Request /\ begun.pc = "provisioning"
      <4>1. "provisioning" \in Steps /\ "migrate" \in Ops
        BY Names
      <4> QED
        BY <3>1, IdleTyped, <4>1 DEF Request
    <3>3. goes \in Request /\ goes.pc = req[r].pc
      BY DEF Request
    <3> QED
      BY <3>2, <3>3
  <2>2. \/ req' = [req EXCEPT ![r] = begun]
        \/ req' = [req EXCEPT ![r] = goes] /\ req[r].pc = "provisioning"
    BY <1>8 DEF PlanProvisioning, ProvisioningFails, Continue, At
  <2> HIDE DEF begun, goes
  <2>3. PICK c \in Request : c.pc = "provisioning" /\ req' = [req EXCEPT ![r] = c]
    BY <2>1, <2>2
  <2>4. Asker(c)
    BY <2>3 DEF Asker
  <2> QED
    BY <2>3, <2>4, PlainSound DEF Plain, Turns
<1> QED
  BY <1>1, <1>2, <1>3, <1>4, <1>5, <1>6, <1>7, <1>8

-----------------------------------------------------------------------------
(* The invariant, table by table. *)

UsersSound ==
  /\ users \in [Accounts -> UserRow] /\ proven \subseteq Accounts \X Addresses
  /\ EmailActive /\ EmailProven /\ AddressUnique
SessionsSound ==
  /\ DOMAIN sessions \subseteq Ids /\ \A i \in DOMAIN sessions : sessions[i] \in Session
  /\ Owned(sessions) /\ StaleSessionsRaced
TicketsSound ==
  /\ DOMAIN tickets \subseteq Ids /\ \A i \in DOMAIN tickets : tickets[i] \in Ticket
  /\ Owned(tickets) /\ TicketsOrdered
VtokensSound ==
  /\ DOMAIN vtokens \subseteq Ids /\ \A i \in DOMAIN vtokens : vtokens[i] \in Mail
  /\ Owned(vtokens) /\ Single(vtokens)
ResetsSound ==
  /\ DOMAIN resets \subseteq Ids /\ \A i \in DOMAIN resets : resets[i] \in Mail
  /\ Owned(resets) /\ Single(resets) /\ ResetsReachOwner
IntentsSound ==
  /\ DOMAIN intents \subseteq Ids /\ \A i \in DOMAIN intents : intents[i] \in [user: Accounts]
  /\ Owned(intents)
KeycloakSound ==
  /\ DOMAIN identities \subseteq Subjects /\ \A s \in DOMAIN identities : identities[s] \in Accounts
  /\ realm \in [Subjects -> [address: Addresses \cup {None}, exists: BOOLEAN]]
  /\ RealmKnown
AccessSound == access \subseteq [user: Accounts, version: Nat]

TablesSound == UsersSound /\ SessionsSound /\ TicketsSound /\ VtokensSound /\ ResetsSound /\ IntentsSound
                 /\ KeycloakSound /\ AccessSound

LEMMA Parts ==
  Inv <=> TablesSound /\ req \in [Requests -> Request] /\ (\A r \in Requests : Sound(req[r])) /\ OneRevocation
BY DEF Inv, TypeOK, TablesTyped, RowsOwned, TablesSound, UsersSound, SessionsSound, TicketsSound, VtokensSound,
       ResetsSound, IntentsSound, KeycloakSound, AccessSound

\* Accounts stay, with their versions.
UsersKept == \A u \in Accounts : Active(u) => users'[u].status = "active" /\ users'[u].version = users[u].version

\* A table that a step leaves alone stays sound while no account goes or is revoked.
LEMMA Frames ==
  ASSUME TablesSound, UsersKept, proven \subseteq proven'
  PROVE  /\ UNCHANGED <<users, proven>> => UsersSound'
         /\ UNCHANGED sessions => SessionsSound'
         /\ UNCHANGED tickets => TicketsSound'
         /\ UNCHANGED vtokens => VtokensSound'
         /\ UNCHANGED resets => ResetsSound'
         /\ UNCHANGED intents => IntentsSound'
         /\ UNCHANGED <<identities, realm>> => KeycloakSound'
         /\ UNCHANGED access => AccessSound'
<1>1. UNCHANGED <<users, proven>> => UsersSound'
  BY DEF TablesSound, UsersSound, EmailActive, EmailProven, AddressUnique, Active
<1>2. UNCHANGED sessions => SessionsSound'
  BY DEF TablesSound, SessionsSound, Owned, StaleSessionsRaced, UsersKept, Active, Session
<1>3. UNCHANGED tickets => TicketsSound'
  BY DEF TablesSound, TicketsSound, Owned, TicketsOrdered, UsersKept, Active, Ticket
<1>4. UNCHANGED vtokens => VtokensSound'
  BY DEF TablesSound, VtokensSound, Owned, Single, UsersKept, Active, Mail
<1>5. UNCHANGED resets => ResetsSound'
  BY DEF TablesSound, ResetsSound, Owned, Single, ResetsReachOwner, UsersKept, Active, Mail
<1>6. UNCHANGED intents => IntentsSound'
  BY DEF TablesSound, IntentsSound, Owned, UsersKept, Active
<1>7. UNCHANGED <<identities, realm>> => KeycloakSound'
  BY DEF TablesSound, KeycloakSound, RealmKnown
<1>8. UNCHANGED access => AccessSound'
  BY DEF TablesSound, AccessSound
<1> QED
  BY <1>1, <1>2, <1>3, <1>4, <1>5, <1>6, <1>7, <1>8

LEMMA UsersSame ==
  UNCHANGED users => UsersKept
BY DEF UsersKept, Active

-----------------------------------------------------------------------------
(* What the other requests rely on. *)

\* Nobody comes back, versions grow, what was proven stays, and what Keycloak
\* deleted is not made again.
Lasting ==
  /\ \A u \in Accounts : users[u].status # "absent" =>
       /\ users'[u].status # "absent"
       /\ users'[u].status = "active" => users[u].status = "active" /\ users[u].version <= users'[u].version
  /\ proven \subseteq proven'
  /\ \A s \in Subjects : realm[s].address # None =>
       realm'[s].address = realm[s].address /\ (realm'[s].exists => realm[s].exists)

\* The rows that q holds stay, and a session that a revocation does not see is marked.
RowsLast(q) ==
  /\ RotatesOwn(req[q]) => RotatesOwn(req[q])'
  /\ AttachesOwn(req[q]) /\ Revokes(req[q]) /\ req[q].op = "link" =>
       req[q].id \in DOMAIN intents' /\ intents'[req[q].id].user = req[q].user
  /\ RevokesAll(req[q]) => RevokesAll(req[q])'

LEMMA SoundLasts ==
  ASSUME Inv, TablesSound', NEW q \in Requests, Lasting, req'[q] = req[q], RowsLast(q)
  PROVE  Sound(req[q])'
<1>1. /\ req[q] \in Request /\ Asker(req[q]) /\ RotatesOwn(req[q]) /\ AttachesOwn(req[q]) /\ RevokesAll(req[q])
      /\ UnlinksFirst(req[q]) /\ MintsPast(req[q])
  BY Fields DEF Sound
<1>2. users \in [Accounts -> UserRow]
  BY DEF Inv, TypeOK, TablesTyped
<1>3. Asker(req[q])'
  BY <1>1 DEF Asker, Lasting
<1>4. AttachesOwn(req[q])'
  BY <1>1 DEF AttachesOwn, Lasting, RowsLast, Request, Revokes
<1>5. UnlinksFirst(req[q])'
  BY <1>1 DEF UnlinksFirst, Lasting
<1>6. MintsPast(req[q])'
  <2> SUFFICES ASSUME req[q].pc = "minting", Active(req[q].user)'
               PROVE  req[q].row.version <= users'[req[q].user].version
    BY DEF MintsPast
  <2> DEFINE u == req[q].user
  <2>1. u \in Accounts /\ users[u].status # "absent" /\ users'[u].status = "active"
    BY <1>1 DEF Asker, Active
  <2>2. users[u].status = "active" /\ users[u].version <= users'[u].version
    BY <2>1 DEF Lasting
  <2>3. req[q].row.version <= users[u].version
    BY <1>1, <2>2 DEF MintsPast, Active
  <2>4. users[u].version \in Nat /\ users'[u].version \in Nat /\ req[q].row.version \in Nat
    BY <1>1, <1>2, <2>1 DEF TablesSound, UsersSound, UserRow, Request
  <2> QED
    BY <2>2, <2>3, <2>4
<1> QED
  BY <1>1, <1>3, <1>4, <1>5, <1>6 DEF RowsLast, Sound

\* A step of nobody's request.
LEMMA StepAlone ==
  ASSUME Inv, TablesSound', Lasting, UNCHANGED req, \A q \in Requests : RowsLast(q)
  PROVE  Inv'
<1>1. \A q \in Requests : Sound(req[q])'
  BY SoundLasts
<1>2. OneRevocation'
  BY DEF Inv, OneRevocation
<1>3. (req \in [Requests -> Request])'
  BY DEF Inv, TypeOK
<1> QED
  BY <1>1, <1>2, <1>3, Parts DEF Inv, TypeOK, TablesTyped, RowsOwned, TablesSound, UsersSound, SessionsSound, TicketsSound,
     VtokensSound, ResetsSound, IntentsSound, KeycloakSound, AccessSound

\* A step of r.
LEMMA StepOf ==
  ASSUME Inv, TablesSound', Lasting, NEW r \in Requests, \A q \in Requests \ {r} : RowsLast(q),
         \E c : Turns(r, c) /\ Sound(c)'
  PROVE  Inv'
<1>1. PICK c : Turns(r, c) /\ Sound(c)'
  OBVIOUS
<1>2. c \in Request /\ req' = [req EXCEPT ![r] = c] /\ req \in [Requests -> Request]
  BY <1>1 DEF Turns, Inv, TypeOK
<1>3. req'[r] = c /\ \A q \in Requests \ {r} : req'[q] = req[q]
  BY <1>2
<1>4. \A q \in Requests : Sound(req[q])'
  <2>1. Sound(req[r])'
    BY <1>1, <1>3
  <2> QED
    BY <1>3, <2>1, SoundLasts
<1>5. OneRevocation'
  BY <1>1, <1>3 DEF Inv, OneRevocation, Turns, Revoking, Revokes
<1>6. (req \in [Requests -> Request])'
  BY <1>2
<1> QED
  BY <1>4, <1>5, <1>6 DEF Inv, TypeOK, TablesTyped, RowsOwned, TablesSound, UsersSound, SessionsSound, TicketsSound,
     VtokensSound, ResetsSound, IntentsSound, KeycloakSound, AccessSound

\* What a step that changes its request only keeps.
LEMMA StepCalm ==
  ASSUME Inv, Calm, NEW r \in Requests, \E c : Turns(r, c) /\ Sound(c)
  PROVE  Inv'
<1> USE DEF Calm, tokens, external
<1>1. TablesSound'
  BY Parts, Frames, UsersSame DEF TablesSound
<1>2. Lasting
  BY DEF Lasting, Inv, TypeOK, TablesTyped, UserRow
<1>3. \A q \in Requests \ {r} : RowsLast(q)
  <2> SUFFICES ASSUME NEW q \in Requests \ {r} PROVE RowsLast(q)
    OBVIOUS
  <2>1. PICK c : req' = [req EXCEPT ![r] = c]
    BY DEF Turns
  <2>2. req'[q] = req[q]
    BY <2>1 DEF Inv, TypeOK
  <2> QED
    BY <2>2 DEF RowsLast, RotatesOwn, AttachesOwn, RevokesAll, Revokes
<1>4. \A c : Sound(c) => Sound(c)'
  BY DEF Sound, Asker, RotatesOwn, AttachesOwn, RevokesAll, UnlinksFirst, MintsPast, Active
<1> QED
  BY <1>1, <1>2, <1>3, <1>4, StepOf

-----------------------------------------------------------------------------
(* Steps that change one table. *)

\* A request that goes on with nothing in its hands.
LEMMA PlainAfter ==
  ASSUME NEW c \in Request, c.pc \in Plain, Asker(c)'
  PROVE  Sound(c)' /\ ~Revokes(c)
BY DEF Plain, Sound, RotatesOwn, AttachesOwn, RevokesAll, UnlinksFirst, MintsPast, Revokes

LEMMA Ends ==
  ASSUME NEW r \in Requests, Done(r)
  PROVE  \E c : Turns(r, c) /\ Sound(c)'
<1>1. Turns(r, Idle)
  BY IdleTyped DEF Turns, Done
<1>2. Idle.pc \in Plain /\ Asker(Idle)'
  BY DEF Idle, Asker, Plain
<1>3. Sound(Idle)'
  BY <1>2, IdleTyped, PlainAfter
<1> QED
  BY <1>1, <1>3

LEMMA RestLasts ==
  ASSUME Inv
  PROVE  /\ UNCHANGED <<users, realm>> /\ proven \subseteq proven' => Lasting
         /\ \A q \in Requests : UNCHANGED <<sessions, intents>> /\ req'[q] = req[q] => RowsLast(q)
<1>1. UNCHANGED <<users, realm>> /\ proven \subseteq proven' => Lasting
  BY DEF Lasting, Inv, TypeOK, TablesTyped, UserRow
<1>2. \A q \in Requests : UNCHANGED <<sessions, intents>> /\ req'[q] = req[q] => RowsLast(q)
  BY DEF RowsLast, RotatesOwn, AttachesOwn, RevokesAll, Revokes
<1> QED
  BY <1>1, <1>2

LEMMA Others ==
  ASSUME Inv, NEW r \in Requests, NEW c, req' = [req EXCEPT ![r] = c]
  PROVE  \A q \in Requests \ {r} : req'[q] = req[q]
BY DEF Inv, TypeOK

\* A new session, of an account that is there.
LEMMA Inserted ==
  ASSUME Inv, NEW r \in Requests, NEW i \in Fresh(sessions), NEW old,
         req[r].pc \notin {"idle", "provisioning"}, Active(req[r].user),
         DOMAIN old = DOMAIN sessions,
         \A j \in DOMAIN sessions : /\ old[j] \in Session /\ old[j].user = sessions[j].user
                                    /\ old[j].epoch = sessions[j].epoch /\ old[j].raced = sessions[j].raced
                                    /\ sessions[j].revoked => old[j].revoked,
         sessions' = With(old, i, SessionFor(r)), UNCHANGED <<users, intents>>,
         \A q \in Requests \ {r} : req'[q] = req[q]
  PROVE  SessionsSound' /\ \A q \in Requests \ {r} : RowsLast(q)
<1> DEFINE u == req[r].user
           new == SessionFor(r)
<1>1. u \in Accounts /\ users[u].version \in Nat /\ req[r].row.version \in Nat /\ i \in Ids
  BY Fields DEF Sound, Asker, Request, UserRow, Fresh
<1>2. /\ new \in Session /\ new.user = u /\ ~new.revoked
      /\ new.epoch < users[u].version => new.raced
      /\ Revoking(u) => new.raced
  <2> DEFINE late == req[r].row.version # users[u].version \/ Revoking(u)
  <2>1. late \in BOOLEAN
    BY DEF Revoking
  <2>2. new = [user |-> u, revoked |-> FALSE, epoch |-> req[r].row.version, raced |-> late]
    BY DEF SessionFor
  <2>3. (req[r].row.version < users[u].version => late) /\ (Revoking(u) => late)
    BY <1>1
  <2> HIDE DEF late, new
  <2> QED
    BY <1>1, <2>1, <2>2, <2>3 DEF Session
<1> HIDE DEF new
<1>3. /\ DOMAIN sessions' = DOMAIN sessions \cup {i} /\ sessions'[i] = new
      /\ i \notin DOMAIN sessions /\ \A j \in DOMAIN sessions : sessions'[j] = old[j]
  BY DEF With, Fresh, new
<1>4. SessionsSound'
  <2>1. SessionsSound
    BY Parts DEF TablesSound
  <2>2. \A j \in DOMAIN sessions' : sessions'[j] \in Session /\ Active(sessions'[j].user)
    BY <1>2, <1>3, <2>1 DEF SessionsSound, Owned
  <2>3. ASSUME NEW j \in DOMAIN sessions', ~sessions'[j].revoked,
               sessions'[j].epoch < users[sessions'[j].user].version
        PROVE  sessions'[j].raced
    <3>1. CASE j = i
      BY <1>2, <1>3, <2>3, <3>1
    <3>2. CASE j \in DOMAIN sessions
      BY <1>3, <2>1, <2>3, <3>2 DEF SessionsSound, StaleSessionsRaced, Session
    <3> QED
      BY <1>3, <3>1, <3>2
  <2>4. Owned(sessions)'
    BY <2>2 DEF Owned, Active
  <2>5. StaleSessionsRaced'
    BY <2>3 DEF StaleSessionsRaced
  <2> QED
    BY <1>1, <1>3, <2>1, <2>2, <2>4, <2>5 DEF SessionsSound
<1>5. ASSUME NEW q \in Requests \ {r}
      PROVE  RowsLast(q)
  <2>1. req'[q] = req[q]
    OBVIOUS
  <2>2. RotatesOwn(req[q]) => RotatesOwn(req[q])'
    BY <1>3, <2>1 DEF RotatesOwn
  <2>3. RevokesAll(req[q]) => RevokesAll(req[q])'
    BY <1>2, <1>3, <2>1 DEF RevokesAll, Revokes, Revoking, Session
  <2> QED
    BY <2>2, <2>3 DEF RowsLast, AttachesOwn, Revokes
<1> QED
  BY <1>4, <1>5

LEMMA StepIssueSession ==
  ASSUME Inv, NEW r \in Requests, NEW i \in Ids, IssueSession(r, i) \/ RotateRefreshSession(r, i)
  PROVE  Inv'
<1>1. /\ UNCHANGED <<users, tokens, external, traffic, proven>> /\ Done(r) /\ WriteSession(r)
      /\ req[r].pc \in {"issue", "rotated"} /\ i \in Fresh(sessions)
  BY DEF IssueSession, RotateRefreshSession, At
<1>2. req[r].user \in Accounts /\ req[r].row \in UserRow
  BY <1>1, Fields DEF Sound, Asker, Request
<1>3. \A q \in Requests \ {r} : req'[q] = req[q]
  BY <1>1, Others DEF Done
<1>4. SessionsSound' /\ \A q \in Requests \ {r} : RowsLast(q)
  <2>1. CASE IssueSession(r, i)
    BY <1>1, <1>3, <2>1, Inserted DEF IssueSession, Inv, TypeOK, TablesTyped, tokens
  <2>2. CASE RotateRefreshSession(r, i)
    <3> DEFINE old == [sessions EXCEPT ![req[r].id].revoked = TRUE]
    <3>1. req[r].id \in DOMAIN sessions /\ sessions[req[r].id].user = req[r].user
      BY <2>2, Fields DEF RotateRefreshSession, At, Sound, RotatesOwn
    <3>2. Active(req[r].user)
      BY <3>1 DEF Inv, TypeOK, RowsOwned, Owned
    <3>3. DOMAIN old = DOMAIN sessions
      OBVIOUS
    <3>4. \A j \in DOMAIN sessions : /\ old[j] \in Session /\ old[j].user = sessions[j].user
                                     /\ old[j].epoch = sessions[j].epoch /\ old[j].raced = sessions[j].raced
                                     /\ sessions[j].revoked => old[j].revoked
      <4>1. \A j \in DOMAIN sessions : sessions[j] \in Session
        BY DEF Inv, TypeOK, TablesTyped
      <4> QED
        BY ONLY <4>1 DEF Session
    <3>5. sessions' = With(old, i, SessionFor(r))
      BY <2>2 DEF RotateRefreshSession
    <3> HIDE DEF old
    <3> QED
      BY <1>1, <1>3, <3>2, <3>3, <3>4, <3>5, Inserted DEF tokens
  <2> QED
    BY <2>1, <2>2
<1>5. AccessSound'
  BY <1>1, <1>2, Parts DEF AccessSound, TablesSound, WriteSession, UserRow
<1>6. TablesSound'
  BY <1>1, <1>4, <1>5, Parts, Frames, UsersSame DEF TablesSound, tokens, external
<1>7. Lasting
  BY <1>1, RestLasts DEF external
<1> QED
  BY <1>1, <1>4, <1>6, <1>7, Ends, StepOf

\* Rows that go, or stay with fewer rights, are sound; the sessions and intents of
\* others are left alone while they are locked.
LEMMA StepRevokeByHash ==
  ASSUME Inv, NEW i \in Ids, RevokeRefreshSessionByHash(i)
  PROVE  Inv'
<1> USE DEF RevokeRefreshSessionByHash, tokens, external
<1>1. /\ DOMAIN sessions' = DOMAIN sessions
      /\ \A j \in DOMAIN sessions : /\ sessions'[j] \in Session /\ sessions'[j].user = sessions[j].user
                                    /\ sessions'[j].epoch = sessions[j].epoch
                                    /\ sessions'[j].raced = sessions[j].raced
                                    /\ sessions[j].revoked => sessions'[j].revoked
  BY DEF Inv, TypeOK, TablesTyped, Session
<1>2. SessionsSound'
  <2>1. SessionsSound /\ users' = users
    BY Parts DEF TablesSound
  <2>2. \A j \in DOMAIN sessions : sessions'[j].revoked \in BOOLEAN /\ sessions[j].revoked \in BOOLEAN
    BY <1>1, <2>1 DEF SessionsSound, Session
  <2>3. (DOMAIN sessions \subseteq Ids /\ \A j \in DOMAIN sessions : sessions[j] \in Session)'
    BY <1>1, <2>1 DEF SessionsSound
  <2>4. Owned(sessions)'
    <3>1. Owned(sessions) /\ \A u : Active(u)' = Active(u)
      BY <2>1 DEF SessionsSound, Active
    <3> QED
      BY <1>1, <3>1 DEF Owned
  <2>5. StaleSessionsRaced'
    BY <1>1, <2>1, <2>2 DEF SessionsSound, StaleSessionsRaced, Active
  <2> QED
    BY <2>3, <2>4, <2>5 DEF SessionsSound
<1>3. TablesSound'
  BY <1>2, Parts, Frames, UsersSame DEF TablesSound
<1>4. Lasting
  BY RestLasts
<1>5. \A q \in Requests : RowsLast(q)
  BY <1>1 DEF RowsLast, RotatesOwn, AttachesOwn, RevokesAll, Revokes, Inv, TypeOK, TablesTyped, Session
<1> QED
  BY <1>3, <1>4, <1>5, StepAlone

LEMMA StepCleanup ==
  ASSUME Inv, NEW i \in Ids, CleanupAuthTokens(i) \/ ConsumeWebSocketTicket(i)
  PROVE  Inv'
<1> USE DEF tokens, external
<1>1. /\ UNCHANGED <<users, identities, realm, access, req, traffic, proven>>
      /\ \/ /\ i \in DOMAIN sessions /\ ~SessionLocked(i) /\ sessions' = Without(sessions, {i})
            /\ UNCHANGED <<tickets, vtokens, resets, intents>>
         \/ tickets' = Without(tickets, {i}) /\ UNCHANGED <<sessions, vtokens, resets, intents>>
         \/ vtokens' = Without(vtokens, {i}) /\ UNCHANGED <<sessions, tickets, resets, intents>>
         \/ resets' = Without(resets, {i}) /\ UNCHANGED <<sessions, tickets, vtokens, intents>>
         \/ /\ ~TokenLocked("link", i) /\ intents' = Without(intents, {i})
            /\ UNCHANGED <<sessions, tickets, vtokens, resets>>
  BY DEF CleanupAuthTokens, ConsumeWebSocketTicket
<1>2. Lasting
  BY <1>1, RestLasts
<1>3. TablesSound
  BY Parts
<1>4. SessionsSound'
  <2>1. CASE UNCHANGED sessions
    BY <1>1, <1>3, <2>1, Frames, UsersSame
  <2>2. CASE sessions' = Without(sessions, {i})
    BY <1>1, <1>3, <2>2 DEF Without, TablesSound, SessionsSound, Owned, StaleSessionsRaced, Active
  <2> QED
    BY <1>1, <2>1, <2>2
<1>5. TicketsSound'
  <2>1. CASE UNCHANGED tickets
    BY <1>1, <1>3, <2>1, Frames, UsersSame
  <2>2. CASE tickets' = Without(tickets, {i})
    BY <1>1, <1>3, <2>2 DEF Without, TablesSound, TicketsSound, Owned, TicketsOrdered, Active
  <2> QED
    BY <1>1, <2>1, <2>2
<1>6. VtokensSound'
  <2>1. CASE UNCHANGED vtokens
    BY <1>1, <1>3, <2>1, Frames, UsersSame
  <2>2. CASE vtokens' = Without(vtokens, {i})
    BY <1>1, <1>3, <2>2 DEF Without, TablesSound, VtokensSound, Owned, Single, Active
  <2> QED
    BY <1>1, <2>1, <2>2
<1>7. ResetsSound'
  <2>1. CASE UNCHANGED resets
    BY <1>1, <1>3, <2>1, Frames, UsersSame
  <2>2. CASE resets' = Without(resets, {i})
    BY <1>1, <1>3, <2>2 DEF Without, TablesSound, ResetsSound, Owned, Single, ResetsReachOwner, Active
  <2> QED
    BY <1>1, <2>1, <2>2
<1>8. IntentsSound'
  <2>1. CASE UNCHANGED intents
    BY <1>1, <1>3, <2>1, Frames, UsersSame
  <2>2. CASE intents' = Without(intents, {i})
    BY <1>1, <1>3, <2>2 DEF Without, TablesSound, IntentsSound, Owned, Active
  <2> QED
    BY <1>1, <2>1, <2>2
<1>9. TablesSound'
  BY <1>1, <1>3, <1>4, <1>5, <1>6, <1>7, <1>8, Frames, UsersSame DEF TablesSound
<1>10. ASSUME NEW q \in Requests
       PROVE  RowsLast(q)
  <2>1. req'[q] = req[q]
    BY <1>1
  <2>2. RotatesOwn(req[q]) => RotatesOwn(req[q])'
    BY <1>1, <2>1 DEF RotatesOwn, SessionLocked, Rotating, Without
  <2>3. RevokesAll(req[q]) => RevokesAll(req[q])'
    BY <1>1, <2>1 DEF RevokesAll, Revokes, Without
  <2>4. AttachesOwn(req[q]) /\ Revokes(req[q]) /\ req[q].op = "link" =>
          req[q].id \in DOMAIN intents' /\ intents'[req[q].id].user = req[q].user
    BY <1>1, <2>1 DEF AttachesOwn, Revokes, TokenLocked, Without
  <2> QED
    BY <2>2, <2>3, <2>4 DEF RowsLast
<1> QED
  BY <1>1, <1>2, <1>9, <1>10, StepAlone

LEMMA StepCreateTicket ==
  ASSUME Inv, NEW r \in Requests, NEW i \in Ids, CreateWebSocketTicket(r, i)
  PROVE  Inv'
<1> USE DEF tokens, external
<1> DEFINE u == req[r].user
           new == [user |-> u, version |-> req[r].row.version, at |-> users[u].version]
<1>1. /\ req[r].pc = "minting" /\ Active(u) /\ i \in Fresh(tickets) /\ tickets' = With(tickets, i, new) /\ Done(r)
      /\ UNCHANGED <<users, sessions, vtokens, resets, intents, external, access, traffic, proven>>
  BY DEF CreateWebSocketTicket, At
<1>2. /\ u \in Accounts /\ users[u].version \in Nat /\ req[r].row.version \in Nat
      /\ req[r].row.version <= users[u].version
  BY <1>1, Fields DEF Sound, Asker, MintsPast, Request, UserRow
<1>3. TicketsSound'
  <2>1. TicketsSound /\ users' = users
    BY <1>1, Parts DEF TablesSound
  <2>2. /\ i \in Ids /\ DOMAIN tickets' = DOMAIN tickets \cup {i} /\ tickets'[i] = new
        /\ \A j \in DOMAIN tickets : j # i => tickets'[j] = tickets[j]
    BY <1>1 DEF With, Fresh
  <2>3. new \in Ticket /\ new.user = u /\ new.version <= new.at /\ new.at <= users[u].version
    BY <1>2 DEF Ticket
  <2> HIDE DEF new, u
  <2>4. Owned(tickets)'
    BY <1>1, <2>1, <2>2, <2>3 DEF TicketsSound, Owned, Active
  <2>5. TicketsOrdered'
    BY <2>1, <2>2, <2>3 DEF TicketsSound, TicketsOrdered
  <2> QED
    BY <2>1, <2>2, <2>3, <2>4, <2>5 DEF TicketsSound
<1>4. TablesSound'
  BY <1>1, <1>3, Parts, Frames, UsersSame DEF TablesSound
<1>5. Lasting
  BY <1>1, RestLasts
<1>6. \A q \in Requests \ {r} : RowsLast(q)
  BY <1>1, Others, RestLasts DEF Done
<1> QED
  BY <1>1, <1>4, <1>5, <1>6, Ends, StepOf

\* A token in the place of the account's others.
LEMMA ReplacedSound ==
  ASSUME NEW table, NEW i \in Ids, NEW row \in Mail, DOMAIN table \subseteq Ids,
         \A j \in DOMAIN table : table[j] \in Mail,
         Owned(table), Single(table), Active(row.user)
  PROVE  LET new == Replaced(table, i, row) IN
           /\ DOMAIN new \subseteq Ids /\ \A j \in DOMAIN new : new[j] \in Mail
           /\ Owned(new) /\ Single(new)
           /\ \A j \in DOMAIN new : new[j] = row \/ (j \in DOMAIN table /\ new[j] = table[j])
<1> DEFINE new == Replaced(table, i, row)
<1>1. /\ DOMAIN new = (DOMAIN table \ RowsOf(table, row.user)) \cup {i}
      /\ \A j \in DOMAIN new : new[j] = IF j = i THEN row ELSE table[j]
  BY DEF Replaced, With, Without
<1> HIDE DEF new
<1>2. Single(new)
  BY <1>1 DEF Single, RowsOf
<1> QED
  BY <1>1, <1>2 DEF Owned, RowsOf, new

LEMMA StepIssueVerification ==
  ASSUME Inv, NEW r \in Requests, NEW i \in Ids, NEW d \in BOOLEAN, IssueVerificationToken(r, i, d)
  PROVE  Inv'
<1> USE DEF tokens, external
<1> DEFINE row == [user |-> req[r].user, target |-> req[r].address, delivered |-> d]
<1>1. /\ req[r].pc = "mail" /\ Active(req[r].user) /\ vtokens' = Replaced(vtokens, i, row)
      /\ UNCHANGED <<users, sessions, tickets, resets, intents, external, access, traffic, proven>>
  BY DEF IssueVerificationToken, At
<1>2. row \in Mail /\ row.user = req[r].user
  BY <1>1, Fields DEF Sound, Asker, Mail
<1> HIDE DEF row
<1>3. VtokensSound
  BY Parts DEF TablesSound
<1>4. VtokensSound'
  BY <1>1, <1>2, <1>3, ReplacedSound DEF VtokensSound, Owned, Single, Active
<1>5. TablesSound'
  BY <1>1, <1>4, Parts, Frames, UsersSame DEF TablesSound
<1>6. Lasting
  BY <1>1, RestLasts
<1>7. \E c : Turns(r, c) /\ Sound(c)'
  <2>1. CASE Done(r)
    BY <2>1, Ends
  <2>2. CASE Goto(r, "issue")
    <3>1. PICK c : c = [req[r] EXCEPT !.pc = "issue"]
      OBVIOUS
    <3>2. c \in Request /\ c.pc = "issue" /\ c.user = req[r].user
      <4>1. "issue" \in Steps
        BY Names
      <4> QED
        BY <3>1, Fields, <4>1 DEF Request
    <3>3. req' = [req EXCEPT ![r] = c]
      BY <2>2, <3>1 DEF Goto, Continue
    <3>4. Asker(c)'
      BY <1>1, <3>2, Fields DEF Sound, Asker
    <3> QED
      BY <3>2, <3>3, <3>4, PlainAfter DEF Turns, Plain
  <2> QED
    BY <2>1, <2>2 DEF IssueVerificationToken
<1>8. \A q \in Requests \ {r} : RowsLast(q)
  BY <1>1, <1>7, Others, RestLasts DEF Turns
<1> QED
  BY <1>5, <1>6, <1>7, <1>8, StepOf

LEMMA StepIssueReset ==
  ASSUME Inv, NEW r \in Requests, NEW i \in Ids, NEW d \in BOOLEAN, IssueResetToken(r, i, d)
  PROVE  Inv'
<1> USE DEF tokens, external
<1> DEFINE row == [user |-> req[r].user, target |-> req[r].address, delivered |-> d]
<1>1. /\ req[r].pc = "reset_mail" /\ Active(req[r].user) /\ resets' = Replaced(resets, i, row) /\ Done(r)
      /\ UNCHANGED <<users, sessions, tickets, vtokens, intents, external, access, traffic, proven>>
  BY DEF IssueResetToken, At
<1>2. row \in Mail /\ row.user = req[r].user /\ <<row.user, row.target>> \in proven
  BY <1>1, Fields DEF Sound, Asker, Mail
<1> HIDE DEF row
<1>3. ResetsSound
  BY Parts DEF TablesSound
<1>4. ResetsSound'
  <2>1. /\ DOMAIN resets' \subseteq Ids /\ \A j \in DOMAIN resets' : resets'[j] \in Mail
        /\ Owned(resets)' /\ Single(resets)'
    BY <1>1, <1>2, <1>3, ReplacedSound DEF ResetsSound, Owned, Single, Active
  <2>2. \A j \in DOMAIN resets' : resets'[j] = row \/ (j \in DOMAIN resets /\ resets'[j] = resets[j])
    BY <1>1, <1>2, <1>3, ReplacedSound DEF ResetsSound
  <2>3. ResetsReachOwner'
    BY <1>1, <1>2, <1>3, <2>2 DEF ResetsSound, ResetsReachOwner
  <2> QED
    BY <2>1, <2>3 DEF ResetsSound
<1>5. TablesSound'
  BY <1>1, <1>4, Parts, Frames, UsersSame DEF TablesSound
<1>6. Lasting
  BY <1>1, RestLasts
<1>7. \A q \in Requests \ {r} : RowsLast(q)
  BY <1>1, Others, RestLasts DEF Done
<1> QED
  BY <1>1, <1>5, <1>6, <1>7, Ends, StepOf

\* The new intent takes the place of the old ones, which no link holds.
LEMMA StepCreateIntent ==
  ASSUME Inv, NEW r \in Requests, NEW i \in Ids, CreateOIDCLinkIntent(r, i)
  PROVE  Inv'
<1> USE DEF tokens, external
<1>1. /\ req[r].pc = "linking" /\ Active(req[r].user) /\ i \in Fresh(intents) /\ Done(r)
      /\ \A j \in req[r].old : ~TokenLocked("link", j)
      /\ intents' = With(Without(intents, req[r].old), i, [user |-> req[r].user])
      /\ UNCHANGED <<users, sessions, tickets, vtokens, resets, external, access, traffic, proven>>
  BY DEF CreateOIDCLinkIntent, At
<1>2. req[r].user \in Accounts
  BY <1>1, Fields DEF Sound, Asker
<1>3. IntentsSound'
  BY <1>1, <1>2, Parts DEF TablesSound, IntentsSound, With, Without, Owned, Active
<1>4. TablesSound'
  BY <1>1, <1>3, Parts, Frames, UsersSame DEF TablesSound
<1>5. Lasting
  BY <1>1, RestLasts
<1>6. ASSUME NEW q \in Requests \ {r}
      PROVE  RowsLast(q)
  <2>1. req'[q] = req[q]
    BY <1>1, Others DEF Done
  <2>2. AttachesOwn(req[q]) /\ Revokes(req[q]) /\ req[q].op = "link" =>
          req[q].id \in DOMAIN intents' /\ intents'[req[q].id].user = req[q].user
    BY <1>1 DEF AttachesOwn, Revokes, TokenLocked, With, Without, Fresh
  <2> QED
    BY <1>1, <2>1, <2>2 DEF RowsLast, RotatesOwn, RevokesAll, Revokes
<1> QED
  BY <1>1, <1>4, <1>5, <1>6, Ends, StepOf

-----------------------------------------------------------------------------
(* Steps that change accounts. *)

\* One account's row is replaced, and no account loses its version.
LEMMA UserChange ==
  ASSUME Inv, NEW u \in Accounts, NEW row \in UserRow, users' = [users EXCEPT ![u] = row],
         \/ users[u].status = "absent" /\ row.status = "active"
         \/ row.status = users[u].status /\ row.version = users[u].version,
         proven \subseteq proven', UNCHANGED realm
  PROVE  /\ UsersKept /\ Lasting
         /\ users' \in [Accounts -> UserRow] /\ users'[u] = row /\ \A v \in Accounts \ {u} : users'[v] = users[v]
<1>1. users' \in [Accounts -> UserRow] /\ users'[u] = row /\ \A v \in Accounts \ {u} : users'[v] = users[v]
  BY DEF Inv, TypeOK, TablesTyped
<1>2. UsersKept
  BY <1>1 DEF UsersKept, Active
<1>3. Lasting
  BY <1>1 DEF Lasting, Inv, TypeOK, TablesTyped, UserRow
<1> QED
  BY <1>1, <1>2, <1>3

LEMMA StepSignup ==
  ASSUME Inv, NEW r \in Requests, NEW u \in Accounts, NEW e \in Addresses \cup {None}, NEW p \in Passwords,
         Signup(r, u, e, p)
  PROVE  Inv'
<1> USE DEF tokens, external
<1> DEFINE row == CreateUser(e, p)
           step == IF e = None THEN "issue" ELSE "mail"
<1>1. /\ users[u].status = "absent" /\ users' = [users EXCEPT ![u] = row]
      /\ req' = [req EXCEPT ![r] = [Idle EXCEPT !.pc = step, !.op = "signup", !.user = u, !.address = e, !.row = row]]
      /\ UNCHANGED <<sessions, tokens, external, access, traffic, proven>>
  BY DEF Signup, Continue
<1>2. row \in UserRow /\ row.status = "active" /\ row.email = None
  BY DEF CreateUser, NoUser, UserRow
<1>3. step \in {"issue", "mail"} /\ (step = "mail" => e \in Addresses)
  OBVIOUS
<1> HIDE DEF row, step
<1>4. /\ UsersKept /\ Lasting
      /\ users' \in [Accounts -> UserRow] /\ users'[u] = row /\ \A v \in Accounts \ {u} : users'[v] = users[v]
  BY <1>1, <1>2, UserChange
<1>5. UsersSound'
  BY <1>1, <1>2, <1>4, Parts DEF TablesSound, UsersSound, EmailActive, EmailProven, AddressUnique, Active
<1>6. TablesSound'
  BY <1>1, <1>4, <1>5, Parts, Frames DEF TablesSound
<1>7. \E c : Turns(r, c) /\ Sound(c)'
  <2>1. PICK c : c = [Idle EXCEPT !.pc = step, !.op = "signup", !.user = u, !.address = e, !.row = row]
    OBVIOUS
  <2>2. c \in Request /\ c.pc = step /\ c.user = u /\ c.address = e
    <3>1. step \in Steps /\ "signup" \in Ops
      BY <1>3, Names
    <3> QED
      BY <1>2, <1>3, <2>1, IdleTyped, <3>1 DEF Request
  <2>3. Asker(c)'
    BY <1>2, <1>3, <1>4, <2>2 DEF Asker
  <2> QED
    BY <1>1, <1>3, <2>1, <2>2, <2>3, PlainAfter DEF Turns, Plain
<1>8. \A q \in Requests \ {r} : RowsLast(q)
  BY <1>1, Others, RestLasts
<1> QED
  BY <1>4, <1>6, <1>7, <1>8, StepOf

LEMMA StepUpdateProfile ==
  ASSUME Inv, NEW r \in Requests, NEW e \in Addresses \cup {None}, UpdateProfile(r, e)
  PROVE  Inv'
<1> USE DEF tokens, external
<1> DEFINE u == req[r].user
           claim == IF e = users[u].email THEN None ELSE e
           row == [users[u] EXCEPT !.pending = claim]
<1>1. /\ req[r].pc = "profile" /\ users' = [users EXCEPT ![u] = row] /\ Done(r)
      /\ UNCHANGED <<sessions, tokens, external, access, traffic, proven>>
  BY DEF UpdateProfile, At
<1>2. u \in Accounts /\ users[u] \in UserRow
  BY <1>1, Fields DEF Sound, Asker
<1>3. claim \in Addresses \cup {None}
  OBVIOUS
<1> HIDE DEF claim
<1>4. row \in UserRow /\ row.status = users[u].status /\ row.version = users[u].version /\ row.email = users[u].email
  BY <1>2, <1>3 DEF UserRow
<1> HIDE DEF row, u
<1>5. /\ UsersKept /\ Lasting
      /\ users' \in [Accounts -> UserRow] /\ users'[u] = row /\ \A v \in Accounts \ {u} : users'[v] = users[v]
  BY <1>1, <1>2, <1>4, UserChange
<1>6. UsersSound'
  BY <1>1, <1>2, <1>4, <1>5, Parts DEF TablesSound, UsersSound, EmailActive, EmailProven, AddressUnique, Active
<1>7. TablesSound'
  BY <1>1, <1>5, <1>6, Parts, Frames DEF TablesSound
<1>8. \A q \in Requests \ {r} : RowsLast(q)
  BY <1>1, Others, RestLasts DEF Done
<1> QED
  BY <1>1, <1>5, <1>7, <1>8, Ends, StepOf

\* The address becomes the account's verified one unless another account has it.
LEMMA StepVerifyEmail ==
  ASSUME Inv, NEW i \in Ids, VerifyEmail(i)
  PROVE  Inv'
<1> USE DEF tokens, external
<1> DEFINE e == vtokens[i].target
           u == vtokens[i].user
           row == [users[u] EXCEPT !.email = users[u].pending, !.pending = None]
<1>1. /\ i \in DOMAIN vtokens /\ proven' = proven \cup {<<u, e>>} /\ vtokens' = Without(vtokens, {i})
      /\ UNCHANGED <<sessions, tickets, resets, intents, external, access, req, traffic>>
      /\ \/ /\ Active(u) /\ users[u].pending = e /\ Holders(e) \subseteq {u}
            /\ users' = [users EXCEPT ![u] = row]
         \/ UNCHANGED users
  BY DEF VerifyEmail, Promotable
<1>2. u \in Accounts /\ e \in Addresses /\ users[u] \in UserRow
  BY <1>1 DEF Inv, TypeOK, TablesTyped, Mail
<1>3. users[u].pending = e => /\ row \in UserRow /\ row.status = users[u].status
                              /\ row.version = users[u].version /\ row.email = e
  BY <1>2 DEF UserRow
<1> HIDE DEF row, u, e
<1>4. TablesSound
  BY Parts
<1>5. UsersKept /\ Lasting /\ UsersSound'
  <2>1. CASE UNCHANGED users
    BY <1>1, <1>2, <1>4, <2>1, UsersSame, RestLasts
       DEF TablesSound, UsersSound, EmailActive, EmailProven, AddressUnique, Active
  <2>2. CASE /\ Active(u) /\ users[u].pending = e /\ Holders(e) \subseteq {u}
             /\ users' = [users EXCEPT ![u] = row]
    <3>1. /\ UsersKept /\ Lasting
          /\ users' \in [Accounts -> UserRow] /\ users'[u] = row /\ \A v \in Accounts \ {u} : users'[v] = users[v]
      BY <1>1, <1>2, <1>3, <2>2, UserChange
    <3>2. \A v \in Accounts \ {u} : users[v].email # e
      BY <1>2, <1>4, <2>2 DEF Holders, TablesSound, UsersSound, EmailActive
    <3>3. EmailActive' /\ EmailProven' /\ proven' \subseteq Accounts \X Addresses
      BY <1>1, <1>2, <1>3, <1>4, <2>2, <3>1 DEF TablesSound, UsersSound, EmailActive, EmailProven, Active
    <3>4. AddressUnique'
      BY <1>3, <1>4, <2>2, <3>1, <3>2 DEF TablesSound, UsersSound, AddressUnique
    <3> QED
      BY <3>1, <3>3, <3>4 DEF UsersSound
  <2> QED
    BY <1>1, <2>1, <2>2
<1>6. VtokensSound'
  BY <1>1, <1>4, <1>5 DEF TablesSound, VtokensSound, Without, Owned, Single, UsersKept, Active, Mail
<1>7. TablesSound'
  BY <1>1, <1>4, <1>5, <1>6, Frames DEF TablesSound
<1>8. \A q \in Requests : RowsLast(q)
  BY <1>1, RestLasts
<1> QED
  BY <1>1, <1>5, <1>7, <1>8, StepAlone

LEMMA StepInsertOIDCUser ==
  ASSUME Inv, NEW r \in Requests, NEW s \in Subjects, NEW u \in Accounts, InsertOIDCUser(r, s, u)
  PROVE  Inv'
<1> USE DEF tokens, external
<1> DEFINE e == realm[s].address
           row == [NoUser EXCEPT !.status = "active", !.email = e]
<1>1. /\ realm[s].exists /\ Holders(e) = {} /\ users[u].status = "absent" /\ users' = [users EXCEPT ![u] = row]
      /\ identities' = With(identities, s, u) /\ proven' = proven \cup {<<u, e>>}
      /\ req' = [req EXCEPT ![r] = [Idle EXCEPT !.pc = "issue", !.user = u, !.row = row]]
      /\ UNCHANGED <<sessions, tokens, realm, access, traffic>>
  BY DEF InsertOIDCUser, Exists, Continue
<1>2. TablesSound /\ e \in Addresses /\ realm[s].address # None
  BY <1>1, Parts DEF TablesSound, KeycloakSound, RealmKnown
<1>3. row \in UserRow /\ row.status = "active" /\ row.email = e
  BY <1>2 DEF NoUser, UserRow
<1> HIDE DEF row, e
<1>4. /\ UsersKept /\ Lasting
      /\ users' \in [Accounts -> UserRow] /\ users'[u] = row /\ \A v \in Accounts \ {u} : users'[v] = users[v]
  BY <1>1, <1>3, UserChange
<1>5. UsersSound'
  <2>1. \A v \in Accounts : users[v].email # e
    BY <1>1, <1>2 DEF Holders, TablesSound, UsersSound, EmailActive
  <2>2. EmailActive' /\ EmailProven' /\ proven' \subseteq Accounts \X Addresses
    BY <1>1, <1>2, <1>3, <1>4 DEF TablesSound, UsersSound, EmailActive, EmailProven, Active
  <2>3. AddressUnique'
    BY <1>2, <1>3, <1>4, <2>1 DEF TablesSound, UsersSound, AddressUnique
  <2> QED
    BY <1>4, <2>2, <2>3 DEF UsersSound
<1>6. KeycloakSound'
  BY <1>1, <1>2 DEF TablesSound, KeycloakSound, RealmKnown, With
<1>7. TablesSound'
  BY <1>1, <1>2, <1>4, <1>5, <1>6, Frames DEF TablesSound
<1>8. \E c : Turns(r, c) /\ Sound(c)'
  <2>1. PICK c : c = [Idle EXCEPT !.pc = "issue", !.user = u, !.row = row]
    OBVIOUS
  <2>2. c \in Request /\ c.pc = "issue" /\ c.user = u
    <3>1. "issue" \in Steps
      BY Names
    <3> QED
      BY <1>3, <2>1, IdleTyped, <3>1 DEF Request
  <2>3. Asker(c)'
    BY <1>3, <1>4, <2>2 DEF Asker
  <2> QED
    BY <1>1, <2>1, <2>2, <2>3, PlainAfter DEF Turns, Plain
<1>9. \A q \in Requests \ {r} : RowsLast(q)
  BY <1>1, Others, RestLasts
<1> QED
  BY <1>4, <1>7, <1>8, <1>9, StepOf

-----------------------------------------------------------------------------
(* Steps at Keycloak, and the ends of revocations and deletions. *)

\* Keycloak makes a subject that never was, or deletes one.
LEMMA RealmChange ==
  ASSUME Inv, NEW s \in Subjects, UNCHANGED <<users, sessions, tokens, identities, access, traffic, proven>>,
         \/ /\ realm[s].address = None
            /\ \E e \in Addresses : realm' = [realm EXCEPT ![s] = [address |-> e, exists |-> TRUE]]
         \/ realm' = [realm EXCEPT ![s].exists = FALSE]
         \/ UNCHANGED realm
  PROVE  /\ TablesSound' /\ Lasting
         /\ \A q \in Requests : req'[q] = req[q] => RowsLast(q)
<1> USE DEF tokens
<1>1. TablesSound /\ realm \in [Subjects -> [address: Addresses \cup {None}, exists: BOOLEAN]]
  BY Parts DEF TablesSound, KeycloakSound
<1>2. /\ realm' \in [Subjects -> [address: Addresses \cup {None}, exists: BOOLEAN]]
      /\ \A q \in Subjects : realm[q].address # None =>
           realm'[q].address = realm[q].address /\ (realm'[q].exists => realm[q].exists)
      /\ \A q \in Subjects : realm'[q].exists => realm[q].exists \/ realm'[q].address # None
  <2>1. CASE realm[s].address = None /\ \E e \in Addresses : realm' = [realm EXCEPT ![s] = [address |-> e, exists |-> TRUE]]
    <3>1. PICK e \in Addresses : realm' = [realm EXCEPT ![s] = [address |-> e, exists |-> TRUE]]
      BY <2>1
    <3>2. /\ realm' \in [Subjects -> [address: Addresses \cup {None}, exists: BOOLEAN]]
          /\ realm'[s].address = e /\ \A q \in Subjects \ {s} : realm'[q] = realm[q]
      BY <1>1, <3>1
    <3> QED
      BY <2>1, <3>2
  <2>2. CASE realm' = [realm EXCEPT ![s].exists = FALSE]
    BY <1>1, <2>2
  <2> QED
    BY <1>1, <2>1, <2>2
<1>3. KeycloakSound'
  BY <1>1, <1>2 DEF TablesSound, KeycloakSound, RealmKnown
<1>4. TablesSound'
  BY <1>1, <1>3, Frames, UsersSame DEF TablesSound
<1>5. Lasting
  BY <1>2 DEF Lasting, Inv, TypeOK, TablesTyped, UserRow
<1> QED
  BY <1>4, <1>5, RestLasts

LEMMA StepRegister ==
  ASSUME Inv, NEW s \in Subjects, NEW e \in Addresses, Register(s, e)
  PROVE  Inv'
<1>1. TablesSound' /\ Lasting /\ \A q \in Requests : req'[q] = req[q] => RowsLast(q)
  BY RealmChange DEF Register
<1> QED
  BY <1>1, StepAlone DEF Register

LEMMA StepProvision ==
  ASSUME Inv, NEW r \in Requests, NEW s \in Subjects, NEW e \in Addresses, ProvisionLegacyUser(r, e, s)
  PROVE  Inv'
<1>1. /\ TablesSound' /\ Lasting
      /\ \A q \in Requests : req'[q] = req[q] => RowsLast(q)
  BY RealmChange DEF ProvisionLegacyUser
<1>2. PICK c : c = [req[r] EXCEPT !.seen = @ \ {e}]
  OBVIOUS
<1>3. /\ req' = [req EXCEPT ![r] = c] /\ c \in Request /\ c.pc = "provisioning"
  BY <1>2, Fields DEF ProvisionLegacyUser, At, Continue, Request
<1>4. Asker(c)'
  BY <1>3 DEF Asker
<1>5. Turns(r, c) /\ Sound(c)'
  BY <1>3, <1>4, PlainAfter DEF Turns, Plain
<1>6. \A q \in Requests \ {r} : RowsLast(q)
  BY <1>1, <1>3, Others
<1> QED
  BY <1>1, <1>5, <1>6, StepOf

LEMMA StepDeleteIdentity ==
  ASSUME Inv, NEW r \in Requests, NEW s \in Subjects, DeleteIdentity(r, s)
  PROVE  Inv'
<1> DEFINE step == IF req[r].old = {s} THEN "deleting" ELSE "unlinking"
<1>1. PICK c : c = [req[r] EXCEPT !.old = @ \ {s}, !.pc = step]
  OBVIOUS
<1>2. /\ req[r].pc = "unlinking" /\ s \in req[r].old /\ req' = [req EXCEPT ![r] = c]
      /\ realm' = [realm EXCEPT ![s].exists = FALSE]
      /\ UNCHANGED <<users, sessions, tokens, identities, access, traffic, proven>>
  BY <1>1 DEF DeleteIdentity, At, Unlinked, Continue
<1>3. step \in {"deleting", "unlinking"} /\ (step = "deleting" => req[r].old \ {s} = {})
  OBVIOUS
<1> HIDE DEF step
<1>4. /\ c \in Request /\ c.pc = step /\ c.old = req[r].old \ {s} /\ c.seen = req[r].seen /\ c.user = req[r].user
  <2> DEFINE left == req[r].old \ {s}
  <2>1. left \subseteq Ids \cup Subjects
    BY Fields DEF Request
  <2>2. c = [req[r] EXCEPT !.old = left, !.pc = step]
    BY <1>1
  <2> HIDE DEF left
  <2>3. req[r] \in Request
    BY Fields
  <2>4. c.pc = step /\ c.old = left /\ c.seen = req[r].seen /\ c.user = req[r].user
    BY <2>2, <2>3 DEF Request
  <2>5. c \in Request
    <3>1. step \in Steps
      BY <1>3, Names
    <3> QED
      BY <1>3, <2>1, <2>2, <2>3, <3>1 DEF Request
  <2> QED
    BY <2>4, <2>5 DEF left
<1>5. TablesSound' /\ Lasting /\ \A q \in Requests : req'[q] = req[q] => RowsLast(q)
  BY <1>2, RealmChange
<1>6. Asker(c)'
  BY <1>2, <1>3, <1>4, Fields DEF Sound, Asker
<1>7. UnlinksFirst(c)'
  <2>1. UnlinksFirst(req[r]) /\ realm \in [Subjects -> [address: Addresses \cup {None}, exists: BOOLEAN]]
    BY Fields DEF Sound, Inv, TypeOK, TablesTyped
  <2> QED
    BY <1>2, <1>3, <1>4, <2>1 DEF UnlinksFirst
<1>8. Sound(c)' /\ ~Revokes(c)
  BY <1>3, <1>4, <1>6, <1>7 DEF Sound, RotatesOwn, AttachesOwn, RevokesAll, MintsPast, Revokes
<1>9. Turns(r, c)
  BY <1>2, <1>4, <1>8 DEF Turns
<1>10. \A q \in Requests \ {r} : RowsLast(q)
  BY <1>2, <1>5, Others
<1> QED
  BY <1>5, <1>8, <1>9, <1>10, StepOf

\* The revocation ends: no usable session of an older version is left that was not
\* inserted while it was under way.
LEMMA StepCommitRevocation ==
  ASSUME Inv, NEW r \in Requests, CommitRevocation(r)
  PROVE  Inv'
<1> USE DEF tokens, external
<1> DEFINE u == req[r].user
           row == NewRow(r)
<1>1. /\ req[r].pc = "purging" /\ Revokes(req[r]) /\ users' = [users EXCEPT ![u] = row]
      /\ sessions' = SessionsAfter(r) /\ tickets' = Without(tickets, req[r].old)
      /\ resets' = resets \/ resets' = Without(resets, {req[r].id})
      /\ UNCHANGED <<vtokens, realm, access, traffic, proven>>
  BY DEF CommitRevocation, At, Revokes
<1>2. /\ u \in Accounts /\ users[u] \in UserRow /\ users[u].version \in Nat /\ users[u].status # "absent"
      /\ RevokesAll(req[r]) /\ AttachesOwn(req[r]) /\ TablesSound /\ req[r] \in Request
  BY <1>1, Fields, Parts DEF Sound, Asker, UserRow
<1>3. /\ row \in UserRow /\ row.status = users[u].status /\ row.version = users[u].version + 1
      /\ row.email = users[u].email
  <2> DEFINE word == IF req[r].op \in {"change", "reset"} THEN req[r].password ELSE users[u].password
  <2>1. word \in Passwords \cup {None} /\ row = [users[u] EXCEPT !.version = users[u].version + 1, !.password = word]
    BY <1>2 DEF Request, UserRow, NewRow
  <2>2. users[u].version + 1 \in Nat
    BY <1>2
  <2> HIDE DEF word, row, u
  <2> QED
    BY <1>2, <2>1, <2>2 DEF UserRow
<1> HIDE DEF row
<1>4. users' \in [Accounts -> UserRow] /\ users'[u] = row /\ \A v \in Accounts \ {u} : users'[v] = users[v]
  BY <1>1, <1>2, <1>3 DEF TablesSound, UsersSound
<1>5. /\ \A v \in Accounts : Active(v) <=> Active(v)'
      /\ \A v \in Accounts : users'[v].email = users[v].email
  BY <1>2, <1>3, <1>4 DEF Active
<1>6. UsersSound'
  BY <1>1, <1>2, <1>4, <1>5 DEF TablesSound, UsersSound, EmailActive, EmailProven, AddressUnique
<1>7. /\ DOMAIN sessions' = DOMAIN sessions
      /\ \A i \in DOMAIN sessions : /\ sessions'[i] \in Session /\ sessions'[i].user = sessions[i].user
                                    /\ sessions'[i].epoch = sessions[i].epoch /\ sessions'[i].raced = sessions[i].raced
                                    /\ sessions'[i].revoked = (sessions[i].revoked \/ i \in req[r].seen)
  BY <1>1, <1>2 DEF SessionsAfter, TablesSound, SessionsSound, Session
<1>8. SessionsSound'
  <2>1. Owned(sessions)'
    BY <1>2, <1>5, <1>7 DEF Owned, TablesSound, SessionsSound, Session
  <2>2. ASSUME NEW i \in DOMAIN sessions, ~sessions'[i].revoked,
               sessions'[i].epoch < users'[sessions'[i].user].version
        PROVE  sessions'[i].raced
    <3>1. CASE sessions[i].user = u
      BY <1>1, <1>2, <1>7, <2>2, <3>1 DEF RevokesAll, Session
    <3>2. CASE sessions[i].user # u
      BY <1>2, <1>4, <1>7, <2>2, <3>2 DEF TablesSound, SessionsSound, StaleSessionsRaced, Session
    <3> QED
      BY <3>1, <3>2
  <2>3. StaleSessionsRaced'
    BY <1>7, <2>2 DEF StaleSessionsRaced
  <2> QED
    BY <1>2, <1>7, <2>1, <2>3 DEF TablesSound, SessionsSound
<1>9. TicketsSound'
  <2>1. DOMAIN tickets' \subseteq DOMAIN tickets /\ \A i \in DOMAIN tickets' : tickets'[i] = tickets[i]
    BY <1>1 DEF Without
  <2>2. \A v \in Accounts : users[v].version \in Nat /\ users'[v].version \in Nat /\ users[v].version <= users'[v].version
    BY <1>2, <1>3, <1>4 DEF TablesSound, UsersSound, UserRow
  <2>3. Owned(tickets)'
    BY <1>2, <1>5, <2>1 DEF TablesSound, TicketsSound, Owned, Ticket
  <2>4. TicketsOrdered'
    BY <1>2, <2>1, <2>2 DEF TablesSound, TicketsSound, TicketsOrdered, Ticket
  <2> QED
    BY <1>2, <2>1, <2>3, <2>4 DEF TablesSound, TicketsSound
<1>10. VtokensSound' /\ ResetsSound'
  <2>1. DOMAIN resets' \subseteq DOMAIN resets /\ \A i \in DOMAIN resets' : resets'[i] = resets[i]
    BY <1>1 DEF Without
  <2>2. ResetsSound'
    BY <1>1, <1>2, <1>5, <2>1 DEF TablesSound, ResetsSound, Owned, Single, ResetsReachOwner, Mail
  <2>3. VtokensSound'
    BY <1>1, <1>2, <1>5 DEF TablesSound, VtokensSound, Owned, Single, Mail
  <2> QED
    BY <2>2, <2>3
<1>11. /\ DOMAIN intents' \subseteq DOMAIN intents /\ \A i \in DOMAIN intents' : intents'[i] = intents[i]
       /\ \A i \in DOMAIN intents : i \in DOMAIN intents' \/ (req[r].op = "link" /\ i = req[r].id)
  BY DEF CommitRevocation, Without
<1>12. IntentsSound'
  BY <1>2, <1>5, <1>11 DEF TablesSound, IntentsSound, Owned
<1>13. KeycloakSound'
  <2>1. CASE req[r].subject # None
    <3>1. identities' = With(identities, req[r].subject, u) /\ req[r].subject \in Subjects
      BY <1>2, <2>1 DEF CommitRevocation, Request
    <3>2. realm[req[r].subject].address # None
      BY <1>1, <1>2, <2>1 DEF AttachesOwn
    <3> QED
      BY <1>1, <1>2, <3>1, <3>2 DEF With, TablesSound, KeycloakSound, RealmKnown
  <2>2. CASE req[r].subject = None
    BY <1>1, <1>2, <2>2 DEF CommitRevocation, TablesSound, KeycloakSound, RealmKnown
  <2> QED
    BY <2>1, <2>2
<1>14. TablesSound'
  BY <1>1, <1>2, <1>6, <1>8, <1>9, <1>10, <1>12, <1>13 DEF TablesSound, AccessSound
<1>15. Lasting
  BY <1>1, <1>2, <1>3, <1>4 DEF Lasting, TablesSound, UsersSound, UserRow
<1>16. \E c : Turns(r, c) /\ Sound(c)'
  <2>1. CASE Done(r)
    BY <2>1, Ends
  <2>2. CASE Continue(r, [req[r] EXCEPT !.pc = "issue", !.row = row])
    <3>1. PICK c : c = [req[r] EXCEPT !.pc = "issue", !.row = row]
      OBVIOUS
    <3>2. c \in Request /\ c.pc = "issue" /\ c.user = u
      <4>1. "issue" \in Steps
        BY Names
      <4> QED
        BY <1>2, <1>3, <3>1, <4>1 DEF Request
    <3>3. req' = [req EXCEPT ![r] = c]
      BY <2>2, <3>1 DEF Continue
    <3>4. Asker(c)'
      BY <1>2, <1>3, <1>4, <3>2 DEF Asker
    <3> QED
      BY <3>2, <3>3, <3>4, PlainAfter DEF Turns, Plain
  <2> QED
    BY <2>1, <2>2 DEF CommitRevocation, row
<1>17. ASSUME NEW q \in Requests \ {r}
       PROVE  RowsLast(q)
  <2>1. req'[q] = req[q]
    BY <1>16, Others DEF Turns
  <2>2. RotatesOwn(req[q]) => RotatesOwn(req[q])'
    BY <1>7, <2>1 DEF RotatesOwn
  <2>3. RevokesAll(req[q]) => RevokesAll(req[q])'
    BY <1>2, <1>7, <2>1 DEF RevokesAll, Revokes, TablesSound, SessionsSound, Session
  <2>4. ASSUME AttachesOwn(req[q]), Revokes(req[q]), req[q].op = "link"
        PROVE  req[q].id \in DOMAIN intents' /\ intents'[req[q].id].user = req[q].user
    <3>1. req[q].id \in DOMAIN intents /\ intents[req[q].id].user = req[q].user
      BY <2>4 DEF AttachesOwn, Revokes
    <3>2. req[q].user # u
      BY <1>1, <2>4 DEF Inv, OneRevocation
    <3>3. ~(req[r].op = "link" /\ req[q].id = req[r].id)
      BY <1>1, <1>2, <3>1, <3>2 DEF AttachesOwn
    <3> QED
      BY <1>11, <3>1, <3>3
  <2> QED
    BY <2>2, <2>3, <2>4 DEF RowsLast
<1> QED
  BY <1>14, <1>15, <1>16, <1>17, StepOf

\* An account goes with all its rows, and no transaction holds one of them.
LEMMA StepDeleteUser ==
  ASSUME Inv, NEW r \in Requests, DeleteUserCascade(r)
  PROVE  Inv'
<1> USE DEF tokens, external
<1> DEFINE u == req[r].user
           row == [NoUser EXCEPT !.status = "gone"]
<1>1. /\ req[r].pc = "deleting" /\ ~Revoking(u) /\ \A i \in RowsOf(sessions, u) : ~SessionLocked(i)
      /\ users' = [users EXCEPT ![u] = row]
      /\ sessions' = Without(sessions, RowsOf(sessions, u)) /\ tickets' = Without(tickets, RowsOf(tickets, u))
      /\ vtokens' = Without(vtokens, RowsOf(vtokens, u)) /\ resets' = Without(resets, RowsOf(resets, u))
      /\ intents' = Without(intents, RowsOf(intents, u))
      /\ identities' = Without(identities, {s \in DOMAIN identities : identities[s] = u})
      /\ Done(r) /\ UNCHANGED <<realm, access, traffic, proven>>
  BY DEF DeleteUserCascade, At
<1>2. u \in Accounts /\ users[u].status # "absent" /\ TablesSound
  BY <1>1, Fields, Parts DEF Sound, Asker
<1>3. row \in UserRow /\ row.status = "gone" /\ row.email = None
  BY DEF NoUser, UserRow
<1> HIDE DEF row
<1>4. users' \in [Accounts -> UserRow] /\ users'[u] = row /\ \A v \in Accounts \ {u} : users'[v] = users[v]
  BY <1>1, <1>2, <1>3 DEF TablesSound, UsersSound
<1>5. UsersSound'
  BY <1>1, <1>2, <1>3, <1>4 DEF TablesSound, UsersSound, EmailActive, EmailProven, AddressUnique, Active
<1>6. SessionsSound'
  BY <1>1, <1>2, <1>4 DEF TablesSound, SessionsSound, Without, RowsOf, Owned, StaleSessionsRaced, Active, Session
<1>7. TicketsSound'
  BY <1>1, <1>2, <1>4 DEF TablesSound, TicketsSound, Without, RowsOf, Owned, TicketsOrdered, Active, Ticket
<1>8. VtokensSound'
  BY <1>1, <1>2, <1>4 DEF TablesSound, VtokensSound, Without, RowsOf, Owned, Single, Active, Mail
<1>9. ResetsSound'
  BY <1>1, <1>2, <1>4 DEF TablesSound, ResetsSound, Without, RowsOf, Owned, Single, ResetsReachOwner, Active, Mail
<1>10. IntentsSound'
  BY <1>1, <1>2, <1>4 DEF TablesSound, IntentsSound, Without, RowsOf, Owned, Active
<1>11. KeycloakSound'
  BY <1>1, <1>2 DEF TablesSound, KeycloakSound, RealmKnown, Without
<1>12. TablesSound'
  BY <1>1, <1>2, <1>5, <1>6, <1>7, <1>8, <1>9, <1>10, <1>11 DEF TablesSound, AccessSound
<1>13. Lasting
  BY <1>1, <1>2, <1>3, <1>4 DEF Lasting, TablesSound, UsersSound, UserRow
<1>14. ASSUME NEW q \in Requests \ {r}
       PROVE  RowsLast(q)
  <2>1. req'[q] = req[q]
    BY <1>1, Others DEF Done
  <2>2. RotatesOwn(req[q]) => RotatesOwn(req[q])'
    BY <1>1, <2>1 DEF RotatesOwn, SessionLocked, Rotating, Without, RowsOf
  <2>3. RevokesAll(req[q]) => RevokesAll(req[q])'
    BY <1>1, <2>1 DEF RevokesAll, Revokes, Without
  <2>4. AttachesOwn(req[q]) /\ Revokes(req[q]) /\ req[q].op = "link" =>
          req[q].id \in DOMAIN intents' /\ intents'[req[q].id].user = req[q].user
    BY <1>1 DEF AttachesOwn, Revokes, Revoking, Without, RowsOf
  <2> QED
    BY <2>2, <2>3, <2>4 DEF RowsLast
<1> QED
  BY <1>1, <1>12, <1>13, <1>14, Ends, StepOf

-----------------------------------------------------------------------------
(* Every reachable state. *)

LEMMA InitInv ==
  Init => Inv
<1> SUFFICES ASSUME Init PROVE Inv
  OBVIOUS
<1>1. PICK u \in Accounts, a \in Addresses, p \in Passwords :
        /\ users = [v \in Accounts |-> IF v = u
             THEN [status |-> "active", password |-> p, version |-> 0, email |-> a, pending |-> None]
             ELSE NoUser]
        /\ proven = {<<u, a>>}
  BY DEF Init
<1>2. /\ users \in [Accounts -> UserRow] /\ users[u].email = a /\ users[u].status = "active"
      /\ \A v \in Accounts \ {u} : users[v].email = None
  BY <1>1 DEF NoUser, UserRow
<1>3. UsersSound
  BY <1>1, <1>2 DEF UsersSound, EmailActive, EmailProven, AddressUnique, Active
<1>4. \A table : table = Empty => DOMAIN table = {}
  BY DEF Empty
<1>5. /\ SessionsSound /\ TicketsSound /\ VtokensSound /\ ResetsSound /\ IntentsSound
  BY <1>4 DEF Init, SessionsSound, TicketsSound, VtokensSound, ResetsSound, IntentsSound, Owned, Single,
     StaleSessionsRaced, TicketsOrdered, ResetsReachOwner
<1>6. KeycloakSound /\ AccessSound
  BY <1>4 DEF Init, KeycloakSound, AccessSound, RealmKnown
<1>7. /\ req \in [Requests -> Request] /\ \A r \in Requests : req[r] = Idle
  BY IdleTyped DEF Init
<1>8. /\ \A r \in Requests : Sound(req[r])
      /\ OneRevocation
  BY <1>7, IdleTyped DEF OneRevocation
<1> QED
  BY <1>3, <1>5, <1>6, <1>7, <1>8, Parts DEF TablesSound

LEMMA NextInv ==
  Inv /\ [Next]_vars => Inv'
<1> SUFFICES ASSUME Inv, [Next]_vars PROVE Inv'
  OBVIOUS
<1>1. ASSUME NEW r \in Requests, Leave(r) \/ Sessions(r)
      PROVE  Inv'
  <2>1. CASE \E i \in Ids : IssueSession(r, i) \/ RotateRefreshSession(r, i)
    BY <2>1, StepIssueSession
  <2>2. CASE \E u \in Accounts, e \in Addresses \cup {None}, p \in Passwords : Signup(r, u, e, p)
    BY <2>2, StepSignup
  <2>3. CASE \/ Leave(r) \/ LoadRotatingUser(r)
             \/ \E u \in Accounts, op \in Ops : AuthMiddleware(r, u, op)
             \/ \E name \in Accounts \cup Addresses, p \in Passwords : Login(r, name, p)
             \/ \E i \in Ids : RetireSession(r, i) \/ LogoutAll(r, i)
    BY <2>3, CalmSessions, StepCalm
  <2> QED
    BY <1>1, <2>1, <2>2, <2>3 DEF Sessions, Ops
<1>2. ASSUME NEW r \in Requests, Revocations(r)
      PROVE  Inv'
  <2>1. CASE CommitRevocation(r)
    BY <2>1, StepCommitRevocation
  <2>2. CASE \/ RevokeAllCredentials(r) \/ ChangePassword(r) \/ RevokeSessions(r)
             \/ \E p \in Passwords : CheckCurrentPassword(r, p) \/ \E i \in Ids : ResetPassword(r, i, p)
    BY <2>2, CalmRevocations, StepCalm
  <2> QED
    BY <1>2, <2>1, <2>2 DEF Revocations
<1>3. ASSUME NEW r \in Requests, Tokens(r)
      PROVE  Inv'
  <2>1. CASE \/ UserAuthVersion(r) \/ SignupWithoutMail(r) \/ RequestVerification(r) \/ CheckProfile(r)
             \/ \E e \in Addresses : ForgotPassword(r, e)
    BY <2>1, CalmTokens, StepCalm
  <2>2. CASE \E i \in Ids : CreateWebSocketTicket(r, i)
    BY <2>2, StepCreateTicket
  <2>3. CASE \E i \in Ids, d \in BOOLEAN : IssueVerificationToken(r, i, d) \/ IssueResetToken(r, i, d)
    BY <2>3, StepIssueVerification, StepIssueReset
  <2>4. CASE \E e \in Addresses \cup {None} : UpdateProfile(r, e)
    BY <2>4, StepUpdateProfile
  <2> QED
    BY <1>3, <2>1, <2>2, <2>3, <2>4 DEF Tokens
<1>4. ASSUME NEW r \in Requests, Identities(r)
      PROVE  Inv'
  <2>1. CASE \/ StartOIDCLink(r) \/ AttachMatch(r) \/ ConfirmDeletion(r) \/ PlanProvisioning(r)
             \/ \E s \in Subjects : \/ ResolveLinked(r, s) \/ ResolveMatch(r, s)
                                    \/ \E i \in Ids : LinkOIDCIdentity(r, s, i)
             \/ \E e \in Addresses : ProvisioningFails(r, e)
    BY <2>1, CalmIdentities, StepCalm
  <2>2. CASE DeleteUserCascade(r)
    BY <2>2, StepDeleteUser
  <2>3. CASE \E i \in Ids : CreateOIDCLinkIntent(r, i)
    BY <2>3, StepCreateIntent
  <2>4. CASE \E s \in Subjects : \/ DeleteIdentity(r, s)
                                 \/ \E u \in Accounts : InsertOIDCUser(r, s, u)
                                 \/ \E e \in Addresses : ProvisionLegacyUser(r, e, s)
    BY <2>4, StepDeleteIdentity, StepInsertOIDCUser, StepProvision
  <2>5. Identities(r) <=>
          \/ StartOIDCLink(r) \/ AttachMatch(r) \/ ConfirmDeletion(r) \/ PlanProvisioning(r) \/ DeleteUserCascade(r)
          \/ \E i \in Ids : CreateOIDCLinkIntent(r, i)
          \/ \E s \in Subjects : ResolveLinked(r, s) \/ ResolveMatch(r, s) \/ \E i \in Ids : LinkOIDCIdentity(r, s, i)
          \/ \E s \in Subjects : DeleteIdentity(r, s) \/ (\E u \in Accounts : InsertOIDCUser(r, s, u))
                                 \/ \E e \in Addresses : ProvisionLegacyUser(r, e, s)
          \/ \E e \in Addresses : ProvisioningFails(r, e)
    BY DEF Identities
  <2> QED
    BY <1>4, <2>1, <2>2, <2>3, <2>4, <2>5
<1>5. CASE \E i \in Ids : \/ RevokeRefreshSessionByHash(i) \/ ConsumeWebSocketTicket(i)
                          \/ VerifyEmail(i) \/ CleanupAuthTokens(i)
  BY <1>5, StepRevokeByHash, StepCleanup, StepVerifyEmail
<1>6. CASE \E s \in Subjects, e \in Addresses : Register(s, e)
  BY <1>6, StepRegister
<1>7. CASE UNCHANGED vars
  <2>1. TablesSound'
    BY <1>7, Parts, Frames, UsersSame DEF vars, tokens, external, TablesSound
  <2>2. Lasting /\ \A q \in Requests : RowsLast(q)
    BY <1>7, RestLasts DEF vars, tokens, external
  <2> QED
    BY <1>7, <2>1, <2>2, StepAlone DEF vars
<1> QED
  BY <1>1, <1>2, <1>3, <1>4, <1>5, <1>6, <1>7 DEF Next

\* The inductive invariant holds in every reachable state.
THEOREM InvHolds == Spec => []Inv
<1> QED
  BY InitInv, NextInv, PTL DEF Spec

\* Tables and requests keep their types; no row outlives its account, and an account
\* has one usable token of a kind.
THEOREM TypeCorrect == Spec => []TypeOK
<1>1. Inv => TypeOK
  BY DEF Inv
<1> QED
  BY <1>1, InvHolds, PTL

\* A revocation ends every session that was there before it, but for those inserted
\* by a request that it overtook.
THEOREM RevocationsEndSessions == Spec => []StaleSessionsRaced
<1>1. Inv => StaleSessionsRaced
  BY DEF Inv
<1> QED
  BY <1>1, InvHolds, PTL

\* Whatever the account claims before and after, its verified address was proven for it.
THEOREM AddressesProven == Spec => []EmailProven
<1>1. Inv => EmailProven
  BY DEF Inv
<1> QED
  BY <1>1, InvHolds, PTL

\* promotePendingEmailOn and ResolveOIDCIdentity never verify one address twice.
THEOREM AddressesUnique == Spec => []AddressUnique
<1>1. Inv => AddressUnique
  BY DEF Inv
<1> QED
  BY <1>1, InvHolds, PTL

\* A reset link goes to an address that was proven for the account it opens.
THEOREM ResetsGoHome == Spec => []ResetsReachOwner
<1>1. Inv => ResetsReachOwner
  BY DEF Inv
<1> QED
  BY <1>1, InvHolds, PTL

\* completeLegacyMigration attaches a subject with the account's own intent, which is
\* used up, or to the account that proved the subject's address.
THEOREM IdentitiesEarned == Spec => IdentityEarned
<1>1. ASSUME Inv, Next, NEW s \in DOMAIN identities' \ DOMAIN identities
      PROVE  \/ <<identities'[s], realm[s].address>> \in proven'
             \/ \E i \in DOMAIN intents : intents[i].user = identities'[s] /\ i \notin DOMAIN intents'
  <2>1. CASE \E r \in Requests : CommitRevocation(r)
    <3>1. PICK r \in Requests : CommitRevocation(r)
      BY <2>1
    <3>2. /\ req[r].subject # None /\ s = req[r].subject /\ identities'[s] = req[r].user
          /\ req[r].pc = "purging" /\ proven' = proven
      <4>1. /\ req[r].subject # None => identities' = With(identities, req[r].subject, req[r].user)
            /\ req[r].subject = None => identities' = identities
            /\ req[r].pc = "purging" /\ proven' = proven
        BY <3>1 DEF CommitRevocation, At
      <4>2. req[r].subject # None
        BY <1>1, <4>1
      <4>3. /\ DOMAIN identities' = DOMAIN identities \cup {req[r].subject}
            /\ identities'[req[r].subject] = req[r].user
        BY <4>1, <4>2 DEF With
      <4>4. s \in DOMAIN identities' \ DOMAIN identities
        BY <1>1
      <4>5. s = req[r].subject
        BY <4>3, <4>4
      <4> QED
        BY <4>1, <4>2, <4>3, <4>5
    <3>3. AttachesOwn(req[r])
      BY <1>1, Fields DEF Sound
    <3>4. CASE req[r].op = "link"
      <4>1. req[r].id \in DOMAIN intents /\ intents[req[r].id].user = req[r].user
        BY <3>2, <3>3, <3>4 DEF AttachesOwn
      <4>2. req[r].id \notin DOMAIN intents'
        BY <3>1, <3>4 DEF CommitRevocation, Without
      <4> QED
        BY <3>2, <4>1, <4>2
    <3>5. CASE req[r].op # "link"
      BY <3>2, <3>3, <3>5 DEF AttachesOwn
    <3> QED
      BY <3>4, <3>5
  <2>2. CASE \E r \in Requests, q \in Subjects, u \in Accounts : InsertOIDCUser(r, q, u)
    BY <1>1, <2>2 DEF InsertOIDCUser, With
  <2>3. CASE \E r \in Requests : DeleteUserCascade(r)
    BY <1>1, <2>3 DEF DeleteUserCascade, Without
  <2>4. CASE UNCHANGED identities
    BY <1>1, <2>4
  <2> QED
    <3>1. ASSUME NEW r \in Requests, Sessions(r) \/ Tokens(r) \/ Leave(r)
          PROVE  UNCHANGED identities
      <4>1. CASE Sessions(r)
        <5>1. ASSUME NEW i, IssueSession(r, i) PROVE UNCHANGED identities
          BY <5>1 DEF external, IssueSession
        <5>2. ASSUME NEW i, RotateRefreshSession(r, i) PROVE UNCHANGED identities
          BY <5>2 DEF external, RotateRefreshSession
        <5>3. ASSUME NEW i, RetireSession(r, i) \/ LogoutAll(r, i) PROVE UNCHANGED identities
          BY <5>3 DEF external, RetireSession, LogoutAll
        <5>4. ASSUME NEW u, NEW e, NEW p, Signup(r, u, e, p) PROVE UNCHANGED identities
          BY <5>4 DEF external, Signup
        <5>5. ASSUME NEW name, NEW p, Login(r, name, p) PROVE UNCHANGED identities
          BY <5>5 DEF external, Login
        <5>6. ASSUME NEW u, NEW op, AuthMiddleware(r, u, op) PROVE UNCHANGED identities
          BY <5>6 DEF external, AuthMiddleware
        <5>7. LoadRotatingUser(r) => UNCHANGED identities
          BY DEF external, LoadRotatingUser
        <5> QED
          BY <4>1, <5>1, <5>2, <5>3, <5>4, <5>5, <5>6, <5>7, Zenon DEF Sessions
      <4>2. CASE Tokens(r)
        <5>1. ASSUME NEW i \in Ids, NEW d \in BOOLEAN,
                     CreateWebSocketTicket(r, i) \/ IssueVerificationToken(r, i, d) \/ IssueResetToken(r, i, d)
              PROVE  UNCHANGED identities
          BY <5>1 DEF external, CreateWebSocketTicket, IssueVerificationToken, IssueResetToken
        <5>2. ASSUME NEW e, ForgotPassword(r, e) PROVE UNCHANGED identities
          BY <5>2 DEF external, ForgotPassword
        <5>4. ASSUME NEW e, UpdateProfile(r, e) PROVE UNCHANGED identities
          BY <5>4 DEF external, UpdateProfile
        <5>3. CASE UserAuthVersion(r) \/ RequestVerification(r) \/ SignupWithoutMail(r) \/ CheckProfile(r)
          BY <5>3 DEF external, UserAuthVersion, RequestVerification, SignupWithoutMail, CheckProfile
        <5> QED
          BY <4>2, <5>1, <5>2, <5>3, <5>4 DEF Tokens
      <4>3. CASE Leave(r)
        BY <4>3 DEF external, Leave
      <4> QED
        BY <3>1, <4>1, <4>2, <4>3
    <3>2. ASSUME NEW r \in Requests, Revocations(r)
          PROVE  CommitRevocation(r) \/ UNCHANGED identities
      <4>1. RevokeAllCredentials(r) \/ ChangePassword(r) \/ RevokeSessions(r) => UNCHANGED identities
        BY DEF external, RevokeAllCredentials, ChangePassword, RevokeSessions, BeginRevocation
      <4>2. ASSUME NEW p, NEW i, CheckCurrentPassword(r, p) \/ ResetPassword(r, i, p)
            PROVE  UNCHANGED identities
        BY <4>2 DEF external, CheckCurrentPassword, ResetPassword, BeginRevocation
      <4> QED
        BY <3>2, <4>1, <4>2 DEF Revocations
    <3>3. \A r \in Requests : Identities(r) =>
            \/ DeleteUserCascade(r) \/ UNCHANGED identities
            \/ \E q \in Subjects, u \in Accounts : InsertOIDCUser(r, q, u)
      <4>1. \A r \in Requests : \A e :
              StartOIDCLink(r) \/ AttachMatch(r) \/ ConfirmDeletion(r) \/ PlanProvisioning(r) \/ ProvisioningFails(r, e)
              => UNCHANGED identities
        BY DEF external, StartOIDCLink, AttachMatch, ConfirmDeletion, PlanProvisioning, ProvisioningFails, BeginRevocation
      <4>2. ASSUME NEW r \in Requests, NEW q, NEW i,
                   ResolveLinked(r, q) \/ ResolveMatch(r, q) \/ LinkOIDCIdentity(r, q, i) \/ CreateOIDCLinkIntent(r, i)
            PROVE  UNCHANGED identities
        <5>1. ResolveLinked(r, q) => UNCHANGED identities
          BY DEF external, ResolveLinked
        <5>2. ResolveMatch(r, q) => UNCHANGED identities
          BY DEF external, ResolveMatch
        <5>3. LinkOIDCIdentity(r, q, i) => UNCHANGED identities
          BY DEF external, LinkOIDCIdentity, BeginRevocation
        <5>4. CreateOIDCLinkIntent(r, i) => UNCHANGED identities
          BY DEF external, CreateOIDCLinkIntent
        <5> QED
          BY <4>2, <5>1, <5>2, <5>3, <5>4
      <4>3. \A r \in Requests : \A q, e : DeleteIdentity(r, q) \/ ProvisionLegacyUser(r, e, q) => UNCHANGED identities
        BY DEF DeleteIdentity, ProvisionLegacyUser
      <4> QED
        BY <4>1, <4>2, <4>3 DEF Identities
    <3>4. \A i \in Ids : RevokeRefreshSessionByHash(i) \/ ConsumeWebSocketTicket(i) \/ VerifyEmail(i)
                           \/ CleanupAuthTokens(i) => UNCHANGED identities
      BY DEF external, RevokeRefreshSessionByHash, ConsumeWebSocketTicket, VerifyEmail, CleanupAuthTokens
    <3>5. \A q \in Subjects, e \in Addresses : Register(q, e) => UNCHANGED identities
      BY DEF Register
    <3> QED
      BY <1>1, <2>1, <2>2, <2>3, <2>4, <3>1, <3>2, <3>3, <3>4, <3>5 DEF Next
<1>2. Inv /\ [Next]_vars =>
        [\A s \in DOMAIN identities' \ DOMAIN identities :
           \/ <<identities'[s], realm[s].address>> \in proven'
           \/ \E i \in DOMAIN intents : intents[i].user = identities'[s] /\ i \notin DOMAIN intents']_vars
  BY <1>1
<1> QED
  BY <1>2, InvHolds, PTL DEF Spec, IdentityEarned

\* DeleteAccount never removes an account while Keycloak still has an identity that
\* it had when the deletion was confirmed.
THEOREM DeletionsUnlinkFirst == Spec => DeletionUnlinksFirst
<1>1. Inv /\ [Next]_vars => [\A r \in Requests : DeleteUserCascade(r) => \A s \in req[r].seen : ~Exists(s)]_vars
  <2> SUFFICES ASSUME Inv, NEW r \in Requests, DeleteUserCascade(r), NEW s \in req[r].seen
               PROVE  ~Exists(s)
    OBVIOUS
  <2>1. req[r].pc = "deleting" /\ UnlinksFirst(req[r])
    BY Fields DEF DeleteUserCascade, At, Sound
  <2> QED
    BY <2>1 DEF UnlinksFirst, Exists
<1> QED
  BY <1>1, InvHolds, PTL DEF Spec, DeletionUnlinksFirst

\* A socket is opened with a ticket of the account's present version only, also when
\* the ticket was inserted after a revocation had deleted the others.
THEOREM TicketsAreCurrent == Spec => TicketsCurrent
<1>1. Inv /\ [Next]_vars =>
        [\A i \in Ids : ConsumeWebSocketTicket(i) => tickets[i].at = users[tickets[i].user].version]_vars
  <2> SUFFICES ASSUME Inv, NEW i \in Ids, ConsumeWebSocketTicket(i)
               PROVE  tickets[i].at = users[tickets[i].user].version
    OBVIOUS
  <2>1. /\ i \in DOMAIN tickets /\ tickets[i] \in Ticket /\ tickets[i].version = users[tickets[i].user].version
        /\ tickets[i].version <= tickets[i].at /\ tickets[i].at <= users[tickets[i].user].version
    BY DEF ConsumeWebSocketTicket, Opens, Inv, TypeOK, TablesTyped, TicketsOrdered
  <2> QED
    BY <2>1 DEF Ticket
<1> QED
  BY <1>1, InvHolds, PTL DEF Spec, TicketsCurrent
=============================================================================
