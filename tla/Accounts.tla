------------------------------ MODULE Accounts ------------------------------
(***************************************************************************)
(* Accounts and their credentials: passwords, refresh sessions, one-time   *)
(* tokens, WebSocket tickets, verified and claimed e-mail addresses, and   *)
(* the Keycloak identities linked to accounts.                             *)
(*                                                                         *)
(* An action is one statement, or one transaction whose rows nobody else   *)
(* can touch half-way.  A transaction of several steps shows nothing until *)
(* it commits; the rows it has locked are told from its request's pc:      *)
(*   "rotating", "rotated"   the refresh session req[r].id                 *)
(*   "revoking", "purging"   the user row req[r].user, the sessions seen,  *)
(*                           the one-time row req[r].id and the identity   *)
(* UPDATE of a user row does not exclude the FOR KEY SHARE lock that the   *)
(* foreign keys take, so sessions and tickets are inserted meanwhile.      *)
(*                                                                         *)
(* A row past its expiry is ignored by every statement, so expiry and the  *)
(* cleanup of expired rows are one step.  A refusal that changes nothing   *)
(* is no step.  A username is the account's own name.                      *)
(***************************************************************************)
EXTENDS Naturals, FiniteSets

CONSTANTS
  Accounts,   \* user ids, in use or not yet
  Addresses,  \* e-mail addresses
  Subjects,   \* Keycloak subjects, in use or not yet
  Passwords,
  None,       \* no address, password, account or row
  Requests,   \* handler goroutines that can be in flight at once
  Ids,        \* row ids of each table (bounds the rows that exist at once)
  Traffic,    \* sets of operations; the clients of one behaviour use one of them
  MaxVersion  \* bound on auth_version

\* No address, password, account or row: NULL is not a value of these types.
ASSUME NoneAssumption == None \notin Accounts \cup Addresses \cup Subjects \cup Passwords \cup Ids

VARIABLES
  users,      \* users: account -> row
  sessions,   \* refresh_sessions: id -> row
  tickets,    \* websocket_tickets: id -> row
  vtokens,    \* email_verification_tokens not used yet: id -> row
  resets,     \* password_reset_tokens not used yet: id -> row
  intents,    \* oidc_link_intents not used yet: id -> row
  identities, \* user_identities: subject -> account
  realm,      \* Keycloak: subject -> its address, and whether it (still) exists
  access,     \* access tokens handed out
  req,        \* the requests in flight
  traffic,    \* the operations the clients use
  proven      \* history: <<account, address>> whose mailbox was shown to be the account's

vars == <<users, sessions, tickets, vtokens, resets, intents, identities, realm, access, req,
          traffic, proven>>
tokens == <<tickets, vtokens, resets, intents>>
external == <<identities, realm>>

Ops == {"signup", "login", "refresh", "logout", "logout_all", "ticket", "verify", "resend", "forgot",
        "reset", "profile", "change", "delete", "link", "exchange", "register", "migrate", "expire"}
Steps == {"idle", "authorized", "mail", "reset_mail", "issue", "rotating", "rotated", "revoke",
          "revoking", "purging", "minting", "profile", "unlinking", "deleting", "linking", "matched",
          "provisioning"}

UserRow == [status: {"absent", "active", "gone"}, password: Passwords \cup {None}, version: Nat,
            email: Addresses \cup {None}, pending: Addresses \cup {None}]
NoUser == [status |-> "absent", password |-> None, version |-> 0, email |-> None, pending |-> None]

\* "epoch" and "raced" are history: the auth_version its request had read, and
\* whether a revocation had passed that request by when the row was inserted.
Session == [user: Accounts, revoked: BOOLEAN, epoch: Nat, raced: BOOLEAN]
Ticket == [user: Accounts, version: Nat, at: Nat]
Mail == [user: Accounts, target: Addresses, delivered: BOOLEAN]

Request == [pc: Steps, op: Ops, user: Accounts \cup {None}, id: Ids \cup {None},
            address: Addresses \cup {None}, password: Passwords \cup {None},
            subject: Subjects \cup {None}, row: UserRow, seen: SUBSET (Ids \cup Subjects \cup Addresses),
            old: SUBSET (Ids \cup Subjects)]
Idle == [pc |-> "idle", op |-> "login", user |-> None, id |-> None, address |-> None,
         password |-> None, subject |-> None, row |-> NoUser, seen |-> {}, old |-> {}]

Empty == [i \in {} |-> None]

\* Some account has signed up and verified its address, another has not.
Init ==
  /\ traffic \in Traffic
  /\ \E u \in Accounts, a \in Addresses, p \in Passwords :
       /\ users = [v \in Accounts |-> IF v = u
            THEN [status |-> "active", password |-> p, version |-> 0, email |-> a, pending |-> None]
            ELSE NoUser]
       /\ proven = {<<u, a>>}
  /\ sessions = Empty /\ tickets = Empty /\ vtokens = Empty /\ resets = Empty /\ intents = Empty
  /\ identities = Empty
  /\ realm = [s \in Subjects |-> [address |-> None, exists |-> FALSE]]
  /\ access = {}
  /\ req = [r \in Requests |-> Idle]

-----------------------------------------------------------------------------
(* Rows and locks. *)

With(table, i, row) == [j \in DOMAIN table \cup {i} |-> IF j = i THEN row ELSE table[j]]
Without(table, S) == [j \in DOMAIN table \ S |-> table[j]]
Fresh(table) == Ids \ DOMAIN table
RowsOf(table, u) == {i \in DOMAIN table : table[i].user = u}

Active(u) == users[u].status = "active"
Linked(u) == \E s \in DOMAIN identities : identities[s] = u
Holders(e) == {u \in Accounts : Active(u) /\ users[u].email = e}
Claimants(e) == {u \in Accounts : Active(u) /\ users[u].pending = e}

Rotating(i) == \E r \in Requests : req[r].pc \in {"rotating", "rotated"} /\ req[r].id = i
Revoking(u) == \E r \in Requests : req[r].pc \in {"revoking", "purging"} /\ req[r].user = u
SessionLocked(i) == Rotating(i) \/ \E r \in Requests :
  req[r].pc \in {"revoking", "purging"} /\ i \in req[r].seen
TokenLocked(op, i) == \E r \in Requests :
  req[r].pc \in {"revoking", "purging"} /\ req[r].op = op /\ req[r].id = i

\* lockOIDCIdentity and the lock on "email:...": one transaction at a time works
\* on a subject, or looks for the account of an address.
SubjectLocked(s) == \E r \in Requests :
  req[r].pc \in {"matched", "revoking", "purging"} /\ req[r].subject = s
AddressLocked(e) == \E r \in Requests :
  req[r].pc \in {"matched", "revoking", "purging"} /\ req[r].subject # None /\ req[r].address = e

-----------------------------------------------------------------------------
(* Requests. *)

Free(r, op) == req[r].pc = "idle" /\ op \in traffic
At(r, step) == req[r].pc = step
Continue(r, record) == req' = [req EXCEPT ![r] = record]
Goto(r, step) == Continue(r, [req[r] EXCEPT !.pc = step])
Done(r) == req' = [req EXCEPT ![r] = Idle]

\* A client goes away, a statement or a mail fails, or the server dies: the open
\* transaction rolls back.
Leave(r) ==
  /\ req[r].pc # "idle"
  /\ Done(r)
  /\ UNCHANGED <<users, sessions, tokens, external, access, traffic, proven>>

\* AuthMiddleware: the token's version is the account's.
AuthMiddleware(r, u, op) ==
  /\ Free(r, op)
  /\ \E token \in access :
       /\ token.user = u
       /\ Active(u) /\ token.version = users[u].version
       /\ Continue(r, [Idle EXCEPT !.pc = "authorized", !.op = op, !.user = u])
  /\ UNCHANGED <<users, sessions, tokens, external, access, traffic, proven>>

Authorized(r, op) == At(r, "authorized") /\ req[r].op = op

\* A new session for the account as its request read it, and an access token.
SessionFor(r) ==
  [user |-> req[r].user, revoked |-> FALSE, epoch |-> req[r].row.version,
   raced |-> req[r].row.version # users[req[r].user].version \/ Revoking(req[r].user)]

WriteSession(r) == access' = access \cup {[user |-> req[r].user, version |-> req[r].row.version]}

\* issueSession: the refresh session, whose foreign key wants the account.
IssueSession(r, i) ==
  /\ At(r, "issue")
  /\ Active(req[r].user) /\ i \in Fresh(sessions)
  /\ sessions' = With(sessions, i, SessionFor(r))
  /\ WriteSession(r)
  /\ Done(r)
  /\ UNCHANGED <<users, tokens, external, traffic, proven>>

-----------------------------------------------------------------------------
(* Signing up, logging in, rotating and ending sessions. *)

\* The address is only claimed.
CreateUser(e, p) == [NoUser EXCEPT !.status = "active", !.password = p, !.pending = e]

Signup(r, u, e, p) ==
  /\ Free(r, "signup") /\ users[u].status = "absent"
  /\ users' = [users EXCEPT ![u] = CreateUser(e, p)]
  /\ Continue(r, [Idle EXCEPT !.pc = IF e = None THEN "issue" ELSE "mail", !.op = "signup",
                              !.user = u, !.address = e, !.row = CreateUser(e, p)])
  /\ UNCHANGED <<sessions, tokens, external, access, traffic, proven>>

\* GetUsersByLoginIdentifier: a name, a verified address or a claimed one.
Candidates(name) ==
  {u \in Accounts : Active(u) /\ name \in {u, users[u].email, users[u].pending}}

\* Exactly one of the candidates has this password.
Login(r, name, p) ==
  /\ Free(r, "login")
  /\ \E u \in Candidates(name) :
       /\ {v \in Candidates(name) : users[v].password = p} = {u}
       /\ Continue(r, [Idle EXCEPT !.pc = "issue", !.user = u, !.row = users[u]])
  /\ UNCHANGED <<users, sessions, tokens, external, access, traffic, proven>>

\* RotateRefreshSession: the presented session is retired first,
RetireSession(r, i) ==
  /\ Free(r, "refresh")
  /\ i \in DOMAIN sessions /\ ~sessions[i].revoked /\ ~SessionLocked(i)
  /\ Continue(r, [Idle EXCEPT !.pc = "rotating", !.op = "refresh", !.id = i, !.user = sessions[i].user])
  /\ UNCHANGED <<users, sessions, tokens, external, access, traffic, proven>>

\* then the account is read,
LoadRotatingUser(r) ==
  /\ At(r, "rotating") /\ Active(req[r].user)
  /\ Continue(r, [req[r] EXCEPT !.pc = "rotated", !.row = users[req[r].user]])
  /\ UNCHANGED <<users, sessions, tokens, external, access, traffic, proven>>

\* and the replacement is inserted and committed.
RotateRefreshSession(r, i) ==
  /\ At(r, "rotated") /\ i \in Fresh(sessions)
  /\ sessions' = With([sessions EXCEPT ![req[r].id].revoked = TRUE], i, SessionFor(r))
  /\ WriteSession(r)
  /\ Done(r)
  /\ UNCHANGED <<users, tokens, external, traffic, proven>>

RevokeRefreshSessionByHash(i) ==
  /\ "logout" \in traffic
  /\ i \in DOMAIN sessions /\ ~SessionLocked(i)
  /\ sessions' = [sessions EXCEPT ![i].revoked = TRUE]
  /\ UNCHANGED <<users, tokens, external, access, req, traffic, proven>>

\* Logout of every device: UserIDByRefreshHash, also of a revoked session.
LogoutAll(r, i) ==
  /\ Free(r, "logout_all") /\ i \in DOMAIN sessions
  /\ Continue(r, [Idle EXCEPT !.pc = "revoke", !.op = "logout_all", !.user = sessions[i].user])
  /\ UNCHANGED <<users, sessions, tokens, external, access, traffic, proven>>

-----------------------------------------------------------------------------
(* Revoking every credential of an account, in one transaction. *)

LiveSessions(u) == {i \in RowsOf(sessions, u) : ~sessions[i].revoked}

\* The user row is updated, and the sessions this statement sees are chosen.
BeginRevocation(r, record) ==
  /\ ~Revoking(record.user)
  /\ Active(record.user) /\ users[record.user].version < MaxVersion
  /\ Continue(r, [record EXCEPT !.pc = "revoking", !.seen = LiveSessions(record.user)])
  /\ UNCHANGED <<users, sessions, tokens, external, access, traffic, proven>>

RevokeAllCredentials(r) ==
  /\ At(r, "revoke") /\ req[r].op = "logout_all"
  /\ BeginRevocation(r, req[r])

\* The sessions a rotation holds are waited for; then the tickets go.
RevokeSessions(r) ==
  /\ At(r, "revoking")
  /\ \A i \in req[r].seen : ~Rotating(i)
  /\ Continue(r, [req[r] EXCEPT !.pc = "purging", !.old = RowsOf(tickets, req[r].user)])
  /\ UNCHANGED <<users, sessions, tokens, external, access, traffic, proven>>

NewRow(r) ==
  LET row == users[req[r].user] IN
  [row EXCEPT !.version = row.version + 1,
              !.password = IF req[r].op \in {"change", "reset"} THEN req[r].password ELSE row.password]

\* Mutant: only the session presented is revoked.
SessionsAfter_Kept(r) == sessions

SessionsAfter(r) ==
  [i \in DOMAIN sessions |->
     IF i \in req[r].seen THEN [sessions[i] EXCEPT !.revoked = TRUE] ELSE sessions[i]]

\* The commit.  A linked identity goes on to a session of its own; after every
\* other revocation kickDisconnectUser closes the account's sockets (ChatHub).
CommitRevocation(r) ==
  /\ At(r, "purging")
  /\ users' = [users EXCEPT ![req[r].user] = NewRow(r)]
  /\ sessions' = SessionsAfter(r)
  /\ tickets' = Without(tickets, req[r].old)
  /\ resets' = IF req[r].op = "reset" THEN Without(resets, {req[r].id}) ELSE resets
  /\ intents' = IF req[r].op = "link" THEN Without(intents, {req[r].id}) ELSE intents
  /\ identities' = IF req[r].subject # None THEN With(identities, req[r].subject, req[r].user) ELSE identities
  /\ IF req[r].subject # None
       THEN Continue(r, [req[r] EXCEPT !.pc = "issue", !.row = NewRow(r)])
       ELSE Done(r)
  /\ UNCHANGED <<vtokens, realm, access, traffic, proven>>

\* The password is checked against the row read first.
CheckCurrentPassword(r, p) ==
  /\ Authorized(r, "change")
  /\ Active(req[r].user) /\ users[req[r].user].password # None
  /\ Continue(r, [req[r] EXCEPT !.pc = "revoke", !.password = p])
  /\ UNCHANGED <<users, sessions, tokens, external, access, traffic, proven>>

ChangePassword(r) ==
  /\ At(r, "revoke") /\ req[r].op = "change"
  /\ BeginRevocation(r, req[r])

\* The token is consumed in the transaction that installs the new password.
ResetPassword(r, i, p) ==
  /\ Free(r, "reset")
  /\ i \in DOMAIN resets /\ resets[i].delivered /\ ~TokenLocked("reset", i)
  /\ BeginRevocation(r, [Idle EXCEPT !.op = "reset", !.user = resets[i].user, !.id = i, !.password = p])

-----------------------------------------------------------------------------
(* WebSocket tickets. *)

\* CreateWebSocketTicket: the version is read after the middleware has checked
\* the token's,
UserAuthVersion(r) ==
  /\ Authorized(r, "ticket")
  /\ Active(req[r].user)
  /\ Continue(r, [req[r] EXCEPT !.pc = "minting", !.row = users[req[r].user]])
  /\ UNCHANGED <<users, sessions, tokens, external, access, traffic, proven>>

\* and the ticket inserted later; "at" (history) is the version at that moment.
CreateWebSocketTicket(r, i) ==
  /\ At(r, "minting")
  /\ Active(req[r].user) /\ i \in Fresh(tickets)
  /\ tickets' = With(tickets, i, [user |-> req[r].user, version |-> req[r].row.version,
                                  at |-> users[req[r].user].version])
  /\ Done(r)
  /\ UNCHANGED <<users, sessions, vtokens, resets, intents, external, access, traffic, proven>>

Opens(ticket) == Active(ticket.user) /\ ticket.version = users[ticket.user].version

\* The ticket opens a socket and is spent.
ConsumeWebSocketTicket(i) ==
  /\ "ticket" \in traffic
  /\ i \in DOMAIN tickets /\ Opens(tickets[i])
  /\ tickets' = Without(tickets, {i})
  /\ UNCHANGED <<users, sessions, vtokens, resets, intents, external, access, req, traffic, proven>>

-----------------------------------------------------------------------------
(* Claimed and verified addresses. *)

\* replaceOneTimeToken: one unused row per account (a unique index), so the
\* outcome of two at once is that of one of them.
Replaced(table, i, row) == With(Without(table, RowsOf(table, row.user)), i, row)

\* issueVerificationToken: the row, then the mail, which may not arrive.
IssueVerificationToken(r, i, delivered) ==
  /\ At(r, "mail") /\ Active(req[r].user) /\ i \in Ids \ DOMAIN Without(vtokens, RowsOf(vtokens, req[r].user))
  /\ vtokens' = Replaced(vtokens, i, [user |-> req[r].user, target |-> req[r].address,
                                      delivered |-> delivered])
  /\ IF req[r].op = "signup" THEN Goto(r, "issue") ELSE Done(r)
  /\ UNCHANGED <<users, sessions, tickets, resets, intents, external, access, traffic, proven>>

\* Signing up goes on when no token could be stored.
SignupWithoutMail(r) ==
  /\ At(r, "mail") /\ req[r].op = "signup"
  /\ Goto(r, "issue")
  /\ UNCHANGED <<users, sessions, tokens, external, access, traffic, proven>>

\* The claim, or else the address, unless it is verified and nothing is claimed.
RequestVerification(r) ==
  /\ Authorized(r, "resend")
  /\ Active(req[r].user) /\ users[req[r].user].pending # None
  /\ Continue(r, [req[r] EXCEPT !.pc = "mail", !.address = users[req[r].user].pending])
  /\ UNCHANGED <<users, sessions, tokens, external, access, traffic, proven>>

\* Mutant: the token promotes whatever the account claims now.
Promotable_AnyClaim(token) ==
  /\ Active(token.user) /\ users[token.user].pending # None
  /\ Holders(users[token.user].pending) \subseteq {token.user}

\* promotePendingEmailOn: the token's own claim, not verified by another account.
Promotable(token) ==
  /\ Active(token.user) /\ users[token.user].pending = token.target
  /\ Holders(token.target) \subseteq {token.user}

\* VerifyEmailTransaction; a token for the address already verified is used up.
VerifyEmail(i) ==
  /\ "verify" \in traffic
  /\ i \in DOMAIN vtokens /\ vtokens[i].delivered
  /\ LET token == vtokens[i]  u == token.user  row == users[u] IN
     /\ ~Revoking(u)
     /\ \/ /\ Promotable(token)
           /\ users' = [users EXCEPT ![u] = [row EXCEPT !.email = row.pending, !.pending = None]]
        \/ /\ Active(u) /\ row.pending = None /\ row.email = token.target
           /\ UNCHANGED users
     /\ proven' = proven \cup {<<u, token.target>>}
  /\ vtokens' = Without(vtokens, {i})
  /\ UNCHANGED <<sessions, tickets, resets, intents, external, access, req, traffic>>

\* GetUserByVerifiedEmail.
RecoveryHolders(e) == Holders(e)

\* The verified account gets a reset link, the only claimant a verification link.
ForgotPassword(r, e) ==
  /\ Free(r, "forgot")
  /\ IF RecoveryHolders(e) # {}
       THEN \E u \in RecoveryHolders(e) :
              Continue(r, [Idle EXCEPT !.pc = "reset_mail", !.op = "forgot", !.user = u, !.address = e])
       ELSE \E u \in Accounts :
              /\ Claimants(e) = {u}
              /\ Continue(r, [Idle EXCEPT !.pc = "mail", !.op = "forgot", !.user = u, !.address = e])
  /\ UNCHANGED <<users, sessions, tokens, external, access, traffic, proven>>

IssueResetToken(r, i, delivered) ==
  /\ At(r, "reset_mail") /\ Active(req[r].user)
  /\ i \in Ids \ DOMAIN Without(resets, RowsOf(resets, req[r].user))
  /\ \A j \in RowsOf(resets, req[r].user) : ~TokenLocked("reset", j)
  /\ resets' = Replaced(resets, i, [user |-> req[r].user, target |-> req[r].address,
                                    delivered |-> delivered])
  /\ Done(r)
  /\ UNCHANGED <<users, sessions, tickets, vtokens, intents, external, access, traffic, proven>>

\* UpdateProfile checks the password, then writes: the verified address stays,
\* another one becomes the claim, and none or the same one clears the claim.
CheckProfile(r) ==
  /\ Authorized(r, "profile") /\ Active(req[r].user)
  /\ Goto(r, "profile")
  /\ UNCHANGED <<users, sessions, tokens, external, access, traffic, proven>>

UpdateProfile(r, e) ==
  /\ At(r, "profile") /\ Active(req[r].user) /\ ~Revoking(req[r].user)
  /\ users' = [users EXCEPT ![req[r].user].pending = IF e = users[req[r].user].email THEN None ELSE e]
  /\ Done(r)
  /\ UNCHANGED <<sessions, tokens, external, access, traffic, proven>>

-----------------------------------------------------------------------------
(* Keycloak identities. *)

Exists(s) == realm[s].exists

\* Somebody registers at Keycloak with a mailbox of theirs (outside the program).
Register(s, e) ==
  /\ "register" \in traffic
  /\ realm[s].address = None /\ \A q \in Subjects : Exists(q) => realm[q].address # e
  /\ realm' = [realm EXCEPT ![s] = [address |-> e, exists |-> TRUE]]
  /\ UNCHANGED <<users, sessions, tokens, identities, access, req, traffic, proven>>

\* StartOIDCLink, CreateOIDCLinkIntent: the unused intents this statement sees go.
StartOIDCLink(r) ==
  /\ Authorized(r, "link") /\ Active(req[r].user)
  /\ Continue(r, [req[r] EXCEPT !.pc = "linking", !.old = RowsOf(intents, req[r].user)])
  /\ UNCHANGED <<users, sessions, tokens, external, access, traffic, proven>>

CreateOIDCLinkIntent(r, i) ==
  /\ At(r, "linking") /\ Active(req[r].user) /\ i \in Fresh(intents)
  /\ \A j \in req[r].old : ~TokenLocked("link", j)
  /\ intents' = With(Without(intents, req[r].old), i, [user |-> req[r].user])
  /\ Done(r)
  /\ UNCHANGED <<users, sessions, tickets, vtokens, resets, external, access, traffic, proven>>

\* insertOIDCIdentity: the subject is free, and the account has no other identity.
Linkable(s, u) == s \notin DOMAIN identities /\ ~Linked(u)

\* LinkOIDCIdentity: the browser carries a link intent.
LinkOIDCIdentity(r, s, i) ==
  /\ Free(r, "exchange") /\ Exists(s) /\ ~SubjectLocked(s)
  /\ i \in DOMAIN intents /\ ~TokenLocked("link", i)
  /\ Linkable(s, intents[i].user) \/ (s \in DOMAIN identities /\ identities[s] = intents[i].user)
  /\ BeginRevocation(r, [Idle EXCEPT !.op = "link", !.user = intents[i].user, !.id = i, !.subject = s])

\* ResolveOIDCIdentity without an intent: the subject's account logs in,
ResolveLinked(r, s) ==
  /\ Free(r, "exchange") /\ Exists(s) /\ ~SubjectLocked(s)
  /\ s \in DOMAIN identities /\ Active(identities[s])
  /\ Continue(r, [Idle EXCEPT !.pc = "issue", !.user = identities[s], !.row = users[identities[s]]])
  /\ UNCHANGED <<users, sessions, tokens, external, access, traffic, proven>>

\* Mutant: a claimed address matches as well.
Matches_Claimed(e) == Holders(e) \cup Claimants(e)

\* The accounts that verified the subject's address.
Matches(e) == Holders(e)

\* or the account that verified the same address is found,
ResolveMatch(r, s) ==
  /\ Free(r, "exchange") /\ Exists(s) /\ ~SubjectLocked(s) /\ ~AddressLocked(realm[s].address)
  /\ s \notin DOMAIN identities
  /\ \E u \in Matches(realm[s].address) :
       Continue(r, [Idle EXCEPT !.pc = "matched", !.op = "exchange", !.user = u, !.subject = s,
                                !.address = realm[s].address])
  /\ UNCHANGED <<users, sessions, tokens, external, access, traffic, proven>>

\* and then linked, its other credentials revoked,
AttachMatch(r) ==
  /\ At(r, "matched") /\ Linkable(req[r].subject, req[r].user)
  /\ BeginRevocation(r, req[r])

\* or nobody verified or claims the address, and a new account is made.
InsertOIDCUser(r, s, u) ==
  /\ Free(r, "exchange") /\ Exists(s) /\ ~SubjectLocked(s) /\ ~AddressLocked(realm[s].address)
  /\ s \notin DOMAIN identities
  /\ LET e == realm[s].address
         row == [NoUser EXCEPT !.status = "active", !.email = e] IN
     /\ Holders(e) \cup Claimants(e) = {}
     /\ users[u].status = "absent"
     /\ users' = [users EXCEPT ![u] = row]
     /\ identities' = With(identities, s, u)
     /\ proven' = proven \cup {<<u, e>>}
     /\ Continue(r, [Idle EXCEPT !.pc = "issue", !.user = u, !.row = row])
  /\ UNCHANGED <<sessions, tokens, realm, access, traffic>>

-----------------------------------------------------------------------------
(* Deleting an account. *)

\* The confirmation, and the identities to delete at Keycloak.
ConfirmDeletion(r) ==
  /\ Authorized(r, "delete") /\ Active(req[r].user)
  /\ LET linked == {s \in DOMAIN identities : identities[s] = req[r].user} IN
     Continue(r, [req[r] EXCEPT !.pc = IF linked = {} THEN "deleting" ELSE "unlinking",
                                !.seen = linked, !.old = linked])
  /\ UNCHANGED <<users, sessions, tokens, external, access, traffic, proven>>

Unlinked(r, s) ==
  Continue(r, [req[r] EXCEPT !.old = @ \ {s}, !.pc = IF req[r].old = {s} THEN "deleting" ELSE "unlinking"])

\* Mutant: a failing Keycloak is ignored.
DeleteIdentity_Ignored(r, s) ==
  /\ At(r, "unlinking") /\ s \in req[r].old
  /\ Unlinked(r, s)
  /\ UNCHANGED <<users, sessions, tokens, external, access, traffic, proven>>

\* A subject that is gone already counts as deleted.
DeleteIdentity(r, s) ==
  /\ At(r, "unlinking") /\ s \in req[r].old
  /\ realm' = [realm EXCEPT ![s].exists = FALSE]
  /\ Unlinked(r, s)
  /\ UNCHANGED <<users, sessions, tokens, identities, access, traffic, proven>>

\* DeleteUserCascade waits for the account's locked rows, then removes it with
\* every row that refers to it.  The media it leaves are MediaLifecycle's.
DeleteUserCascade(r) ==
  /\ At(r, "deleting")
  /\ LET u == req[r].user IN
     /\ ~Revoking(u) /\ \A i \in RowsOf(sessions, u) : ~SessionLocked(i)
     /\ users' = [users EXCEPT ![u] = [NoUser EXCEPT !.status = "gone"]]
     /\ sessions' = Without(sessions, RowsOf(sessions, u))
     /\ tickets' = Without(tickets, RowsOf(tickets, u))
     /\ vtokens' = Without(vtokens, RowsOf(vtokens, u))
     /\ resets' = Without(resets, RowsOf(resets, u))
     /\ intents' = Without(intents, RowsOf(intents, u))
     /\ identities' = Without(identities, {s \in DOMAIN identities : identities[s] = u})
  /\ Done(r)
  /\ UNCHANGED <<realm, access, traffic, proven>>

-----------------------------------------------------------------------------
(* The legacy migration's command, and the cleanup. *)

\* LegacyIdentityMigrationInventory: verified addresses of unlinked accounts
\* that still have a password.
PlanProvisioning(r) ==
  /\ Free(r, "migrate")
  /\ Continue(r, [Idle EXCEPT !.pc = "provisioning", !.op = "migrate",
       !.seen = {e \in Addresses : \E u \in Holders(e) : users[u].password # None /\ ~Linked(u)}])
  /\ UNCHANGED <<users, sessions, tokens, external, access, traffic, proven>>

\* ProvisionLegacyUser: a Keycloak user for the address, unless there is one.
ProvisionLegacyUser(r, e, s) ==
  /\ At(r, "provisioning") /\ e \in req[r].seen
  /\ Continue(r, [req[r] EXCEPT !.seen = @ \ {e}])
  /\ \/ /\ \E q \in Subjects : Exists(q) /\ realm[q].address = e
        /\ UNCHANGED realm
     \/ /\ \A q \in Subjects : Exists(q) => realm[q].address # e
        /\ realm[s].address = None
        /\ realm' = [realm EXCEPT ![s] = [address |-> e, exists |-> TRUE]]
  /\ UNCHANGED <<users, sessions, tokens, identities, access, traffic, proven>>

\* A failure is counted and the next address tried.
ProvisioningFails(r, e) ==
  /\ At(r, "provisioning") /\ e \in req[r].seen
  /\ Continue(r, [req[r] EXCEPT !.seen = @ \ {e}])
  /\ UNCHANGED <<users, sessions, tokens, external, access, traffic, proven>>

\* A row expires, or CleanupAuthTokens deletes it.
CleanupAuthTokens(i) ==
  /\ "expire" \in traffic
  /\ \/ /\ i \in DOMAIN sessions /\ ~SessionLocked(i)
        /\ sessions' = Without(sessions, {i})
        /\ UNCHANGED tokens
     \/ /\ i \in DOMAIN tickets /\ tickets' = Without(tickets, {i})
        /\ UNCHANGED <<sessions, vtokens, resets, intents>>
     \/ /\ i \in DOMAIN vtokens /\ vtokens' = Without(vtokens, {i})
        /\ UNCHANGED <<sessions, tickets, resets, intents>>
     \/ /\ i \in DOMAIN resets /\ ~TokenLocked("reset", i) /\ resets' = Without(resets, {i})
        /\ UNCHANGED <<sessions, tickets, vtokens, intents>>
     \/ /\ i \in DOMAIN intents /\ ~TokenLocked("link", i) /\ intents' = Without(intents, {i})
        /\ UNCHANGED <<sessions, tickets, vtokens, resets>>
  /\ UNCHANGED <<users, external, access, req, traffic, proven>>

-----------------------------------------------------------------------------

Sessions(r) ==
  \/ \E u \in Accounts, e \in Addresses \cup {None}, p \in Passwords : Signup(r, u, e, p)
  \/ \E name \in Accounts \cup Addresses, p \in Passwords : Login(r, name, p)
  \/ \E i \in Ids : IssueSession(r, i) \/ RetireSession(r, i) \/ RotateRefreshSession(r, i) \/ LogoutAll(r, i)
  \/ LoadRotatingUser(r)
  \/ \E u \in Accounts, op \in {"ticket", "resend", "profile", "change", "delete", "link"} :
       AuthMiddleware(r, u, op)

Revocations(r) ==
  \/ RevokeAllCredentials(r) \/ ChangePassword(r) \/ RevokeSessions(r) \/ CommitRevocation(r)
  \/ \E p \in Passwords : CheckCurrentPassword(r, p) \/ \E i \in Ids : ResetPassword(r, i, p)

Tokens(r) ==
  \/ UserAuthVersion(r) \/ RequestVerification(r) \/ SignupWithoutMail(r) \/ CheckProfile(r)
  \/ \E i \in Ids : CreateWebSocketTicket(r, i)
  \/ \E i \in Ids, d \in BOOLEAN : IssueVerificationToken(r, i, d) \/ IssueResetToken(r, i, d)
  \/ \E e \in Addresses : ForgotPassword(r, e)
  \/ \E e \in Addresses \cup {None} : UpdateProfile(r, e)

Identities(r) ==
  \/ StartOIDCLink(r) \/ AttachMatch(r) \/ ConfirmDeletion(r) \/ DeleteUserCascade(r) \/ PlanProvisioning(r)
  \/ \E i \in Ids : CreateOIDCLinkIntent(r, i)
  \/ \E s \in Subjects :
       \/ ResolveLinked(r, s) \/ ResolveMatch(r, s) \/ DeleteIdentity(r, s)
       \/ \E i \in Ids : LinkOIDCIdentity(r, s, i)
       \/ \E u \in Accounts : InsertOIDCUser(r, s, u)
       \/ \E e \in Addresses : ProvisionLegacyUser(r, e, s)
  \/ \E e \in Addresses : ProvisioningFails(r, e)

Next ==
  \/ \E r \in Requests : Leave(r) \/ Sessions(r) \/ Revocations(r) \/ Tokens(r) \/ Identities(r)
  \/ \E i \in Ids : RevokeRefreshSessionByHash(i) \/ ConsumeWebSocketTicket(i) \/ VerifyEmail(i) \/ CleanupAuthTokens(i)
  \/ \E s \in Subjects, e \in Addresses : Register(s, e)

Spec == Init /\ [][Next]_vars

-----------------------------------------------------------------------------
(* Properties. *)

\* Every row of a table belongs to an account that exists.
Owned(table) == \A i \in DOMAIN table : Active(table[i].user)
RowsOwned == Owned(sessions) /\ Owned(tickets) /\ Owned(vtokens) /\ Owned(resets) /\ Owned(intents)

\* An account has one usable token of a kind.
Single(table) == \A i, j \in DOMAIN table : table[i].user = table[j].user => i = j

TablesTyped ==
  /\ users \in [Accounts -> UserRow]
  /\ DOMAIN sessions \subseteq Ids /\ \A i \in DOMAIN sessions : sessions[i] \in Session
  /\ DOMAIN tickets \subseteq Ids /\ \A i \in DOMAIN tickets : tickets[i] \in Ticket
  /\ DOMAIN vtokens \subseteq Ids /\ \A i \in DOMAIN vtokens : vtokens[i] \in Mail
  /\ DOMAIN resets \subseteq Ids /\ \A i \in DOMAIN resets : resets[i] \in Mail
  /\ DOMAIN intents \subseteq Ids /\ \A i \in DOMAIN intents : intents[i] \in [user: Accounts]
  /\ DOMAIN identities \subseteq Subjects /\ \A s \in DOMAIN identities : identities[s] \in Accounts
  /\ realm \in [Subjects -> [address: Addresses \cup {None}, exists: BOOLEAN]]
  /\ access \subseteq [user: Accounts, version: Nat]
  /\ proven \subseteq Accounts \X Addresses

\* Tables and requests keep their types, with their foreign keys and unique indexes.
TypeOK == TablesTyped /\ req \in [Requests -> Request] /\ RowsOwned /\ Single(vtokens) /\ Single(resets)

\* A password change, a reset, a logout of every device and an identity link end
\* every session that was there before, save those whose login or rotation was
\* under way: a session older than its account's auth_version was overtaken.
StaleSessionsRaced ==
  \A i \in DOMAIN sessions :
    ~sessions[i].revoked /\ sessions[i].epoch < users[sessions[i].user].version => sessions[i].raced

\* An account's verified address was proven for that very account: somebody used
\* a link mailed to it, or logged in at Keycloak with it - whatever the account
\* claimed before and since.
EmailProven ==
  \A u \in Accounts : users[u].email # None => <<u, users[u].email>> \in proven

\* No address is verified for two accounts, although it may be claimed by many.
AddressUnique ==
  \A u, v \in Accounts : users[u].email # None /\ users[u].email = users[v].email => u = v

\* Who receives a reset link has proven that address for that account.
ResetsReachOwner == \A i \in DOMAIN resets : <<resets[i].user, resets[i].target>> \in proven

\* A Keycloak identity gets into an account only with an intent of that account,
\* or with an address that was proven for it.
IdentityEarned ==
  [][\A s \in DOMAIN identities' \ DOMAIN identities :
       \/ <<identities'[s], realm[s].address>> \in proven'
       \/ \E i \in DOMAIN intents : intents[i].user = identities'[s] /\ i \notin DOMAIN intents']_vars

\* When an account goes, every identity it had when its deletion was confirmed is
\* gone at Keycloak.
DeletionUnlinksFirst ==
  [][\A r \in Requests : DeleteUserCascade(r) => \A s \in req[r].seen : ~Exists(s)]_vars

\* A ticket inserted before a revocation was committed opens no socket after it,
\* even when it was inserted too late for the revocation to delete it.
TicketsCurrent ==
  [][\A i \in Ids : ConsumeWebSocketTicket(i) =>
       tickets[i].at = users[tickets[i].user].version]_vars

\* users.go:248-252: logout of every device "can never leave a partial revocation
\* behind": no session of an older auth_version is left.
RevocationComplete ==
  \A i \in DOMAIN sessions :
    ~sessions[i].revoked => sessions[i].epoch = users[sessions[i].user].version
=============================================================================
