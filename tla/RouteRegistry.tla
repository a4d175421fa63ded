---------------------------- MODULE RouteRegistry ----------------------------
(***************************************************************************)
(* The route registry, its published snapshot and the rate limiter that    *)
(* guards the routes (CREATE/DROP ROUTE, CREATE TABLE API, LiveRoutes and   *)
(* AllowRateLimit: src/src/quackapi_registry.cpp, quackapi_server.cpp).    *)
(*                                                                         *)
(* A request takes the snapshot published when it arrives and keeps it;    *)
(* routes may be replaced or dropped before it reaches the limiter.  The   *)
(* limiter reads the clock before it takes its lock: up to MaxStall        *)
(* seconds may pass in between.                                            *)
(***************************************************************************)
EXTENDS Integers, FiniteSets, Sequences

CONSTANTS
  Requests,    \* requests in flight
  Clients,     \* client keys of the limiter
  Names,       \* route names
  Paths,       \* method and pattern of a route
  Limits,      \* [n, per]: n requests in per seconds; n = 0: no limit
  Batches,     \* what one statement registers: sequences of [name, path, limit]
  Capacity,    \* entries the limiter keeps (100000 in the code)
  MaxVersions, \* bound on the registrations in a behaviour
  MaxTime,     \* bound on the seconds in a behaviour
  MaxStall     \* seconds a thread may lose between the clock and the lock

ASSUME RouteAssumption ==
  /\ IsFiniteSet(Names) /\ IsFiniteSet(Clients)
  /\ Limits \subseteq [n : Nat, per : Nat \ {0}]
  /\ Batches \subseteq Seq([name : Names, path : Paths, limit : Limits])
  /\ Capacity \in Nat \ {0}
  /\ MaxVersions \in Nat
  /\ MaxTime \in Nat
  /\ MaxStall \in Nat

VARIABLES
  routes,   \* the registered routes; LiveRoutes publishes exactly this set
  entries,  \* rate_limit_entries: <<route name, client>> -> bucket
  request,  \* the request each thread is serving
  clock,    \* the steady clock, in seconds
  version,  \* history: registrations so far
  passed,   \* history: requests let pass since the bucket was cleared
  mixed     \* history: buckets a request on an older definition has used, or
            \* that were purged while a request with an older reading waited

vars == <<routes, entries, request, clock, version, passed, mixed>>

Buckets == Names \X Clients
NoEntry == [count |-> 0, expires |-> -1]
Idle    == [at |-> "idle"]

NamesOf(rs) == {r.name : r \in rs}
Live == {b \in Buckets : entries[b] # NoEntry}

-----------------------------------------------------------------------------
(* CREATE [OR REPLACE] ROUTE, CREATE TABLE API, DROP ROUTE.                *)

\* Mutant: a route is compared with the registered ones only, not with those
\* the same statement is about to add.
CollidesOutsideBatch(proposed, r) ==
  \E other \in proposed : other.version # r.version /\ other.name # r.name /\ other.path = r.path

\* Another route already answers this method and pattern.
Collides(proposed, r) == \E other \in proposed : other.name # r.name /\ other.path = r.path

\* The private copy of AddRoutes when the first i routes of new are in it: each
\* stands in place of an earlier route of its name.
Proposed(new, i) ==
  {r \in routes : \A k \in 1..i : new[k].name # r.name}
    \cup {new[j] : j \in {j \in 1..i : \A k \in (j + 1)..i : new[k].name # new[j].name}}

\* No route of new throws: neither its path is taken nor, without OR REPLACE, its name.
Accepted(new, or_replace) ==
  \A i \in 1..Len(new) : /\ ~Collides(Proposed(new, i - 1), new[i])
                         /\ new[i].name \in NamesOf(Proposed(new, i - 1)) => or_replace

Stamp(batch) == [i \in DOMAIN batch |->
  [name |-> batch[i].name, path |-> batch[i].path, limit |-> batch[i].limit,
   version |-> version + 1, since |-> clock]]

\* ClearRouteRateLimit of every route in ns, and the history that goes with it.
ClearRouteRateLimit(ns) ==
  /\ entries' = [b \in Buckets |-> IF b[1] \in ns THEN NoEntry ELSE entries[b]]
  /\ passed' = [b \in Buckets |-> IF b[1] \in ns THEN 0 ELSE passed[b]]
  /\ mixed' = {b \in mixed : b[1] \notin ns}

\* All routes of the statement become visible, with fresh buckets, or none.
AddRoutes(batch, or_replace) ==
  LET new == Stamp(batch) IN
  /\ version < MaxVersions
  /\ Accepted(new, or_replace)
  /\ routes' = Proposed(new, Len(new))
  /\ version' = version + 1
  /\ ClearRouteRateLimit({batch[i].name : i \in DOMAIN batch})
  /\ UNCHANGED <<request, clock>>

DropRoute(name) ==
  /\ name \in NamesOf(routes)
  /\ routes' = {r \in routes : r.name # name}
  /\ ClearRouteRateLimit({name})
  /\ UNCHANGED <<request, clock, version>>

-----------------------------------------------------------------------------
(* A request.                                                              *)

\* LiveRoutes and the match: the request keeps a copy of the route it found.
Match(q, c, path) ==
  /\ request[q] = Idle
  /\ \E r \in routes :
       /\ r.path = path
       /\ request' = [request EXCEPT ![q] = [at |-> "matched", client |-> c, route |-> r]]
  /\ UNCHANGED <<routes, entries, clock, version, passed, mixed>>

\* 404: nothing answers this path.
NotFound(q, path) ==
  /\ request[q] = Idle
  /\ \A r \in routes : r.path # path
  /\ UNCHANGED vars

\* The route has no RATE LIMIT clause.
Unlimited(q) ==
  /\ request[q].at = "matched"
  /\ request[q].route.limit.n = 0
  /\ request' = [request EXCEPT ![q] = Idle]
  /\ UNCHANGED <<routes, entries, clock, version, passed, mixed>>

\* AllowRateLimit reads the clock, then waits for rate_limit_mutex.
ReadClock(q) ==
  /\ request[q].at = "matched"
  /\ request[q].route.limit.n > 0
  /\ request' = [request EXCEPT ![q] =
       [at |-> "limit", client |-> request[q].client, route |-> request[q].route, now |-> clock]]
  /\ UNCHANGED <<routes, entries, clock, version, passed, mixed>>

\* Mutant: at capacity every bucket is thrown away.
PurgeEverything(es, now) == [b \in Buckets |-> NoEntry]

\* Buckets whose window is over are dropped when the limiter is full.
Purge(es, now) == [b \in Buckets |-> IF es[b].expires <= now THEN NoEntry ELSE es[b]]

Size(es) == Cardinality({b \in Buckets : es[b] # NoEntry})

Full(es) == Size(es) >= Capacity

\* The entries after room is made for a bucket that is not there yet.
Room(b, now) == IF entries[b] = NoEntry /\ Full(entries) THEN Purge(entries, now) ELSE entries

\* Mutant: the window is renewed for its length minus one second.
BucketShort(es, b, r, now) ==
  IF es[b].expires <= now THEN [count |-> 0, expires |-> now + r.limit.per - 1]
  ELSE es[b]

\* The bucket a request finds: a new one, or the old one renewed once its
\* window is over.
Bucket(es, b, r, now) ==
  IF es[b].expires <= now THEN [count |-> 0, expires |-> now + r.limit.per]
  ELSE es[b]

Spent(e, r) == e.count >= r.limit.n

Current(r) == r \in routes

\* Purged buckets of which some thread still holds a reading from before the
\* end of the window.
Overtaken(es) ==
  {b \in Live : es[b] = NoEntry /\ \E q \in Requests :
     /\ request[q].at = "limit" /\ b = <<request[q].route.name, request[q].client>>
     /\ request[q].now < entries[b].expires}

\* AllowRateLimit returns true: the request goes on to authorisation and SQL.
Allow(q) ==
  LET r  == request[q].route
      b  == <<r.name, request[q].client>>
      es == Room(b, request[q].now)
      e  == Bucket(es, b, r, request[q].now)
  IN
  /\ request[q].at = "limit"
  /\ es[b] # NoEntry \/ ~Full(es)
  /\ ~Spent(e, r)
  /\ entries' = [es EXCEPT ![b] = [e EXCEPT !.count = e.count + 1]]
  /\ passed' = [passed EXCEPT ![b] = @ + 1]
  /\ mixed' = mixed \cup Overtaken(es) \cup (IF Current(r) THEN {} ELSE {b})
  /\ request' = [request EXCEPT ![q] = Idle]
  /\ UNCHANGED <<routes, clock, version>>

\* It returns false: 429, because the quota is spent or the limiter is full.
Refuse(q) ==
  LET r    == request[q].route
      b    == <<r.name, request[q].client>>
      es   == Room(b, request[q].now)
      e    == Bucket(es, b, r, request[q].now)
      full == es[b] = NoEntry /\ Full(es)
  IN
  /\ request[q].at = "limit"
  /\ full \/ Spent(e, r)
  /\ entries' = IF full THEN es ELSE [es EXCEPT ![b] = e]
  /\ mixed' = mixed \cup Overtaken(es)
  /\ request' = [request EXCEPT ![q] = Idle]
  /\ UNCHANGED <<routes, clock, version, passed>>

\* One second passes.
Tick ==
  /\ clock < MaxTime
  /\ \A q \in Requests : request[q].at = "limit" => clock - request[q].now < MaxStall
  /\ clock' = clock + 1
  /\ UNCHANGED <<routes, entries, request, version, passed, mixed>>

-----------------------------------------------------------------------------
Init ==
  /\ routes = {}
  /\ entries = [b \in Buckets |-> NoEntry]
  /\ request = [q \in Requests |-> Idle]
  /\ clock = 0
  /\ version = 0
  /\ passed = [b \in Buckets |-> 0]
  /\ mixed = {}

Register == \E batch \in Batches, or_replace \in BOOLEAN : AddRoutes(batch, or_replace)

Next ==
  \/ Register
  \/ \E name \in Names : DropRoute(name)
  \/ \E q \in Requests :
       \/ \E c \in Clients, p \in Paths : Match(q, c, p)
       \/ \E p \in Paths : NotFound(q, p)
       \/ Unlimited(q)
       \/ ReadClock(q)
       \/ Allow(q)
       \/ Refuse(q)
  \/ Tick

Spec == Init /\ [][Next]_vars

-----------------------------------------------------------------------------
\* No two routes have the same name or answer the same method and pattern,
\* also when one statement registers several or renames over others: a request
\* never depends on the order of registration.
PathsUnique ==
  \A r, s \in routes : r.name = s.name \/ r.path = s.path => r = s

\* At its capacity the limiter neither grows nor forgets: a window that is running
\* is dropped only by CREATE OR REPLACE or DROP of its route, never to make room for
\* other clients (AllowRateLimit, ClearRouteRateLimit).
LiveWindowsKept ==
  [][/\ Size(entries') <= Capacity
     /\ \A b \in Buckets :
          (entries[b].expires > clock /\ entries'[b] = NoEntry) => routes' # routes]_vars

\* However long threads are delayed before the lock, a stale reading of the
\* clock never opens an extra window: since the route was registered a client
\* has had at most n requests for every per seconds begun, also when buckets
\* are renewed, purged at capacity or cleared.  Excepted are buckets that a
\* request on an older definition has used after they were cleared, and those
\* purged before a delayed request came to see that its window was spent.
RateHolds ==
  \A r \in routes, c \in Clients :
    (r.limit.n > 0 /\ <<r.name, c>> \notin mixed)
      => passed[<<r.name, c>>]
           <= r.limit.n * (1 + (clock - r.since) \div r.limit.per)

=============================================================================
