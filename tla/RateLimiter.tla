---------------------------- MODULE RateLimiter ----------------------------
(***************************************************************************)
(* The rate limiter: one bounded store of fixed-window counters for all     *)
(* policies.  A request is checked under the store's lock, bucket by        *)
(* bucket, and counted only when every bucket has room; each bucket is an   *)
(* action here, since which counter makes room for another is the map's     *)
(* order.                                                                   *)
(***************************************************************************)
EXTENDS Naturals, Sequences, FiniteSets

CONSTANTS
  Policies,
  Buckets,      \* Buckets[p]: its sequence of buckets
  Limit, Window,\* of a bucket of a policy
  PerSecond,    \* units of time in a second
  FailClosed,   \* the policies that refuse when the store is full
  Clients,      \* values of a request's keys
  None,
  Capacity,
  Sample,       \* counters that are looked at for the one to evict
  MaxNow,       \* bound on the time
  MaxGrants     \* bound on the requests of a behaviour

VARIABLES
  time,
  store,    \* counters: key -> [count, reset]
  check,    \* the request that holds the lock, or None
  grants,   \* history: requests admitted under a key since its window began
  lost,     \* history: keys whose counter was evicted before its time
  asked,    \* requests so far
  advice    \* history: the last refusal: when its windows end, and when to retry

vars == <<time, store, check, grants, lost, asked, advice>>

\* compositeKey: the bucket is in it, its limit and window are.
Key == [policy: Policies, bucket: UNION {{Buckets[p][i] : i \in 1..Len(Buckets[p])} : p \in Policies}, client: Clients]
KeyOf(p, b, keys) == [policy |-> p, bucket |-> b, client |-> keys[b]]

Init ==
  /\ time = 0 /\ store = <<>> /\ check = None
  /\ grants = [k \in Key |-> 0] /\ lost = {} /\ asked = 0 /\ advice = None

Live(k) == k \in DOMAIN store /\ time < store[k].reset
Without(s, K) == [k \in DOMAIN s \ K |-> s[k]]
With(s, k, c) == [x \in DOMAIN s \cup {k} |-> IF x = k THEN c ELSE s[x]]

\* A request takes the lock.
Begin(p, keys) ==
  /\ check = None /\ asked < MaxGrants
  /\ asked' = asked + 1
  /\ check' = [policy |-> p, keys |-> keys, next |-> 1, pending |-> {}, wait |-> 0, full |-> {}]
  /\ UNCHANGED <<time, store, grants, lost, advice>>

BucketNow == Buckets[check.policy][check.next]
KeyNow == KeyOf(check.policy, BucketNow, check.keys)

\* sweepLocked.
Expired == {k \in DOMAIN store : store[k].reset <= time}

\* evictExpiringLocked: the counter of a sample that expires first.
Victims ==
  LET live == DOMAIN store \ Expired IN
  {k \in live : \E S \in SUBSET live :
     /\ Cardinality(S) = IF Cardinality(live) < Sample THEN Cardinality(live) ELSE Sample
     /\ k \in S /\ \A other \in S : store[k].reset <= store[other].reset}

\* retryAfterDuration: whole seconds, rounded up.
RetryAfter(reset) == ((reset - time + PerSecond - 1) \div PerSecond) * PerSecond

\* Phase 1: the counter is there; it has room, or the request will be refused.
Admit(c) ==
  /\ store' = With(store, KeyNow, c)
  /\ check' = [check EXCEPT !.next = @ + 1, !.pending = @ \cup {KeyNow}]

Longest(a, b) == IF b > a THEN b ELSE a

Full(c) ==
  /\ store' = store
  /\ check' = [check EXCEPT !.next = @ + 1, !.wait = Longest(@, RetryAfter(c.reset)), !.full = @ \cup {c.reset}]

MoreBuckets == check # None /\ check.next <= Len(Buckets[check.policy])

\* Mutant: off by one.
HasRoom_OneMore(c) == c.count <= Limit[BucketNow]

HasRoom(c) == c.count < Limit[BucketNow]

\* A counter that lives.
Existing ==
  /\ MoreBuckets /\ Live(KeyNow)
  /\ IF HasRoom(store[KeyNow]) THEN Admit(store[KeyNow]) ELSE Full(store[KeyNow])
  /\ UNCHANGED <<time, grants, lost, asked, advice>>

Fresh == [count |-> 0, reset |-> time + Window[BucketNow]]
Began == [grants EXCEPT ![KeyNow] = 0]
Passed == [check EXCEPT !.next = @ + 1, !.pending = @ \cup {KeyNow}]

\* A new counter, in the place of an expired one, or with room in the store,
\* perhaps after a sweep.
Create ==
  /\ MoreBuckets /\ ~Live(KeyNow)
  /\ LET kept == Without(store, {KeyNow})
         swept == IF Cardinality(DOMAIN kept) < Capacity THEN kept ELSE Without(kept, Expired) IN
     /\ Cardinality(DOMAIN swept) < Capacity
     /\ store' = With(swept, KeyNow, Fresh)
  /\ check' = Passed /\ grants' = Began /\ lost' = lost \ {KeyNow}
  /\ UNCHANGED <<time, asked, advice>>

StoreFull == MoreBuckets /\ ~Live(KeyNow) /\ Cardinality(DOMAIN Without(store, Expired)) >= Capacity

Evicted(victim) == {victim}

\* Another counter goes.
CreateEvicting(victim) ==
  /\ StoreFull /\ check.policy \notin FailClosed /\ victim \in Victims
  /\ store' = With(Without(store, Expired \cup Evicted(victim)), KeyNow, Fresh)
  /\ check' = Passed /\ grants' = Began /\ lost' = (lost \cup {victim}) \ {KeyNow}
  /\ UNCHANGED <<time, asked, advice>>

\* No room for a policy that fails closed.
RefuseFull ==
  /\ StoreFull /\ check.policy \in FailClosed
  /\ store' = Without(store, Expired \cup {KeyNow})
  /\ check' = None
  /\ UNCHANGED <<time, grants, lost, asked, advice>>

\* Phase 2: every bucket has room.  A counter that was evicted in phase 1 is
\* counted without being in the store.
Grant ==
  /\ check # None /\ ~MoreBuckets /\ check.wait = 0
  /\ store' = [k \in DOMAIN store |-> IF k \in check.pending THEN [store[k] EXCEPT !.count = @ + 1] ELSE store[k]]
  /\ grants' = [k \in Key |-> IF k \in check.pending THEN grants[k] + 1 ELSE grants[k]]
  /\ check' = None
  /\ UNCHANGED <<time, lost, asked, advice>>

Reject ==
  /\ check # None /\ ~MoreBuckets /\ check.wait > 0
  /\ advice' = [resets |-> check.full, until |-> time + check.wait]
  /\ check' = None
  /\ UNCHANGED <<time, store, grants, lost, asked>>

\* sweepLoop.
Sweep ==
  /\ check = None /\ Expired # {}
  /\ store' = Without(store, Expired)
  /\ UNCHANGED <<time, check, grants, lost, asked, advice>>

Tick ==
  /\ check = None /\ time < MaxNow
  /\ time' = time + 1
  /\ UNCHANGED <<store, check, grants, lost, asked, advice>>

Next ==
  \/ \E p \in Policies : \E keys \in [{Buckets[p][i] : i \in 1..Len(Buckets[p])} -> Clients] : Begin(p, keys)
  \/ Existing \/ Create \/ (\E k \in DOMAIN store : CreateEvicting(k)) \/ RefuseFull
  \/ Grant \/ Reject \/ Sweep \/ Tick

Spec == Init /\ [][Next]_vars

-----------------------------------------------------------------------------
(* Properties. *)

TypeOK ==
  /\ time \in 0..MaxNow /\ DOMAIN store \subseteq Key
  /\ \A k \in DOMAIN store : store[k].count \in 0..Limit[k.bucket] /\ store[k].reset \in Nat
  /\ grants \in [Key -> Nat] /\ lost \subseteq Key /\ asked \in 0..MaxGrants

\* The store is bounded whatever keys the requests bring.
StoreBounded == Cardinality(DOMAIN store) <= Capacity

\* No more requests are admitted in a key's window than its limit, unless its
\* counter had to make room for another one.
LimitsHold == \A k \in Key : grants[k] <= Limit[k.bucket] \/ k \in lost

\* A request that is refused uses up nothing: when the store is free, a counter
\* shows exactly what was admitted in its window.
RefusedIsFree ==
  check = None => \A k \in DOMAIN store : Live(k) /\ k \notin lost => store[k].count = grants[k]

\* A client that waits as long as it was told does not come back before the
\* windows that refused it are over, also when several did.
AdviceHonest == advice # None => \A reset \in advice.resets : reset <= advice.until
=============================================================================
