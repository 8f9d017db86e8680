SPECIFICATION Spec
CONSTANTS
  ann = ann
  bob = bob
  mail1 = mail1
  mail2 = mail2
  sub1 = sub1
  sub2 = sub2
  pw1 = pw1
  pw2 = pw2
  r1 = r1
  r2 = r2
  i1 = i1
  i2 = i2
  None = None
  Accounts = {ann, bob}
  Addresses = {mail1, mail2}
  Subjects = {sub1, sub2}
  Passwords = {pw1}
  Requests = {r1, r2}
  Ids = {i1, i2}
  Traffic = {
    {"login", "refresh", "logout_all", "ticket"},
    {"login", "refresh", "logout", "expire"},
    {"login", "change", "refresh", "ticket"},
    {"login", "forgot", "reset", "refresh"},
    {"signup", "verify", "resend", "profile", "forgot", "reset"},
    {"login", "link", "exchange", "register", "delete", "migrate"},
    {"signup", "exchange", "register", "verify", "profile", "delete"},
    {"signup", "expire"},
    {"login", "ticket", "expire"},
    {"login", "forgot", "link", "expire"}}
  MaxVersion = 2
SYMMETRY Interchangeable
INVARIANTS
  StaleSessionsRaced
  EmailProven
PROPERTIES
  IdentityEarned
  DeletionUnlinksFirst
CHECK_DEADLOCK FALSE
