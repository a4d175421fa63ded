---------------------------- MODULE OutboundHttp ----------------------------
(***************************************************************************)
(* quackapi_post: the rows of a chunk are posted concurrently               *)
(* (PostScalar, FanOutRequests, WithPlainClient, ConnectionPool:            *)
(* src/src/quackapi_http_fetch.cpp) under the deadlines and the             *)
(* cancellation guards of src/src/quackapi_limits.cpp, which one watchdog   *)
(* thread enforces for the whole process.                                   *)
(*                                                                          *)
(* Time is what is left: of a statement's deadline, of a call's timeout,    *)
(* of an idle host's time to live.  Tick counts all of them down, but the    *)
(* timeout of a call only from when its request is sent: until then Tick     *)
(* counts how late the call is.                                              *)
(***************************************************************************)
EXTENDS Integers, Sequences, FiniteSets, FiniteSetsExt, SequencesExt

CONSTANTS
  Queries,         \* statements, each on a connection of its own
  Width,           \* rows of each statement's chunk
  Hosts,           \* origins
  Origins,         \* those the url of each row may name
  MaxFanout,       \* MAX_OUTBOUND_FANOUT
  MaxIdlePerHost,  \* MAX_IDLE_PER_HOST
  MaxIdleTotal,    \* MAX_IDLE_TOTAL
  MaxPoolHosts,    \* MAX_POOL_HOSTS
  Ttl,             \* IDLE_POOL_TTL
  Budget,          \* query_timeout_ms of a served request
  Fallback         \* OUTBOUND_TIMEOUT_SECONDS

ASSUME OutboundAssumption ==
  /\ IsFiniteSet(Queries) /\ IsFiniteSet(Hosts)
  /\ Width \in [Queries -> Nat]
  /\ \A q \in Queries : \A i \in 1..Width[q] : Origins[i] \subseteq Hosts
  /\ {MaxFanout, MaxIdlePerHost, MaxIdleTotal, MaxPoolHosts, Ttl, Budget, Fallback} \subseteq Nat \ {0}

Rows(q) == 1..Width[q]
Calls == UNION {{q} \X Rows(q) : q \in Queries}

\* No deadline: more than any there is.
Unlimited == Budget + Fallback + 1

VARIABLES
  query,    \* the statements
  row,      \* the calls
  pool,     \* ConnectionPool::hosts: the sockets of idle clients, time since the last use
  dog       \* the watchdog: asleep, or the cancellations it has yet to visit

vars == <<query, row, pool, dog>>

\* guards  the QuackapiQueryDeadlines on the connection, outermost first: what is
\*         left of each and the budget it found
\* budget  QuackapiContextBudget::deadline, which other threads read
\* peer    the HTTP client: none, watched (cancel_on_disconnect) or gone
\* intr    ClientContext::IsInterrupted
\* cursor  rows claimed
\* failed  a task threw
NoQuery == [at |-> "idle", guards |-> <<>>, budget |-> Unlimited, peer |-> "none",
            intr |-> FALSE, cursor |-> 0, failed |-> FALSE]

\* at       the next piece of the call
\* socket   of its client: none, closed, open, or shut down in mid-request
\* left     of its own deadline, from Checkout on of the timeout set on its client
\* late     what has passed since that timeout was set and before it runs, up to
\*          Fallback (a history of the model)
\* armed    its QuackapiCancellationGuard exists and its action has not been run
\* fired    the watchdog has run the action
\* healthy  the client may go back to the pool
\* result   none, response, error
NoRow == [at |-> "todo", host |-> "none", socket |-> "none", left |-> 0, late |-> 0, armed |-> FALSE,
          fired |-> FALSE, healthy |-> FALSE, result |-> "none"]

Asleep == [awake |-> FALSE, visit |-> {}]

InFlight == {"checkout", "guard", "send", "connecting", "waiting", "disarm", "recycle"}
Active(q) == {i \in Rows(q) : row[<<q, i>>].at \in InFlight}

Query(q, r) == query' = [query EXCEPT ![q] = r]
Row(c, r) == row' = [row EXCEPT ![c] = r]

-----------------------------------------------------------------------------
(* Deadlines.                                                              *)

\* current_deadline of the thread the statement was called on.
ThreadDeadline(q) == IF query[q].guards = <<>> THEN Unlimited ELSE Last(query[q].guards).left

\* QuackapiContextDeadline, as a worker thread of the engine sees it.
ContextDeadline(q) == query[q].budget

\* Mutant: without a deadline the call has no timeout.
RemainingTimeoutNone(deadline) ==
  IF deadline = Unlimited THEN Unlimited ELSE Max({1, Min({Fallback, deadline})})

\* QuackapiRemainingTimeoutMillis: at least 1, also past the deadline.
RemainingTimeout(deadline) ==
  IF deadline = Unlimited THEN Fallback ELSE Max({1, Min({Fallback, deadline})})

\* QuackapiQueryDeadline::Start: the deadline is recorded on the connection
\* and given to the watchdog, whose mutex Add takes.  (What passes while a thread
\* waits for it is as if it passed right after: the deadline is absolute.)  A
\* second guard is that of a middleware hook inside a request.  (A client that
\* is not watched is one that never goes away.)
Arm(q, timeout) ==
  LET left == Min({ThreadDeadline(q), timeout}) IN
  /\ query[q].at \in {"idle", "ready"}
  /\ Len(query[q].guards) < 2 /\ query[q].cursor = 0
  /\ ~dog.awake
  /\ Query(q, [query[q] EXCEPT !.at = "ready", !.budget = left, !.peer = "watched",
                               !.guards = Append(@, [left |-> left, found |-> query[q].budget])])
  /\ UNCHANGED <<row, pool, dog>>

\* Mutant: the end of a guard leaves the connection without a budget.
DisarmForgets(q) ==
  LET g == Last(query[q].guards) IN
  /\ query[q].at = "ready" /\ query[q].guards # <<>>
  /\ Query(q, [query[q] EXCEPT !.guards = Front(@), !.budget = Unlimited,
                               !.at = IF Len(query[q].guards) = 1 THEN "done" ELSE "ready"])
  /\ UNCHANGED <<row, pool, dog>>

\* ~QuackapiQueryDeadline: the budget found is restored unless a later guard
\* has replaced it.  With the last guard the request ends.
Disarm(q) ==
  LET g == Last(query[q].guards) IN
  /\ query[q].at = "ready" /\ query[q].guards # <<>>
  /\ Query(q, [query[q] EXCEPT !.guards = Front(@), !.budget = IF @ = g.left THEN g.found ELSE @,
                               !.at = IF Len(query[q].guards) = 1 THEN "done" ELSE "ready"])
  /\ UNCHANGED <<row, pool, dog>>

\* Another thread interrupts the statement.
Interrupt(q) ==
  /\ query[q].at = "fan" /\ ~query[q].intr
  /\ Query(q, [query[q] EXCEPT !.intr = TRUE])
  /\ UNCHANGED <<row, pool, dog>>

\* The HTTP client of the request goes away.
Disconnect(q) ==
  /\ query[q].at = "fan" /\ query[q].peer = "watched"
  /\ Query(q, [query[q] EXCEPT !.peer = "gone"])
  /\ UNCHANGED <<row, pool, dog>>

Later(t) == IF t \in {0, Unlimited} THEN t ELSE t - 1

\* A timeout that was set on a client is a duration: it runs from the request on.
Elapse(r) ==
  IF r.at \in {"guard", "send"} THEN [r EXCEPT !.late = Min({@ + 1, Fallback})]
  ELSE [r EXCEPT !.left = Later(@)]

Tick ==
  /\ query' = [q \in Queries |->
       [query[q] EXCEPT !.budget = Later(@),
                        !.guards = [g \in DOMAIN @ |-> [left |-> Later(@[g].left), found |-> Later(@[g].found)]]]]
  /\ row' = [c \in Calls |-> Elapse(row[c])]
  /\ pool' = [h \in DOMAIN pool |-> [pool[h] EXCEPT !.age = Min({@ + 1, Ttl + 1})]]
  /\ UNCHANGED dog

-----------------------------------------------------------------------------
(* PostScalar and FanOutRequests.                                          *)

\* A statement starts; it finds its context not interrupted.  Rows with a NULL
\* argument are skipped; the others may have a timeout_ms of their own, which
\* OutboundDeadline counts from here.
FanOut(q, nulls, timeout) ==
  /\ query[q].at \in {"idle", "ready"} /\ query[q].cursor = 0
  /\ Query(q, [query[q] EXCEPT !.at = "fan", !.intr = FALSE])
  /\ row' = [c \in Calls |-> IF c[1] # q THEN row[c]
                              ELSE IF c[2] \in nulls THEN [row[c] EXCEPT !.at = "null"]
                              ELSE [row[c] EXCEPT !.left = timeout]]
  /\ UNCHANGED <<pool, dog>>

Posted(q) == {i \in Rows(q) : row[<<q, i>>].at # "null"}

\* A task claims the next row, unless the context is interrupted: then the
\* task throws and the rows left are not begun.  A single row runs inline.
Claim(q, h) ==
  LET c == <<q, query[q].cursor + 1>> IN
  /\ query[q].at = "fan" /\ query[q].cursor < Width[q] /\ ~query[q].failed
  /\ h \in Origins[query[q].cursor + 1]
  /\ Cardinality(Active(q)) < MaxFanout
  /\ IF query[q].intr /\ Cardinality(Posted(q)) > 1
       THEN Query(q, [query[q] EXCEPT !.failed = TRUE]) /\ UNCHANGED row
       ELSE /\ Query(q, [query[q] EXCEPT !.cursor = @ + 1])
            /\ IF row[c].at = "null" THEN UNCHANGED row
               ELSE Row(c, [row[c] EXCEPT !.at = "checkout", !.host = h])
  /\ UNCHANGED <<pool, dog>>

\* Mutant: an interrupt is not looked for at the end.
FanOutEndsQuietly(q) ==
  /\ query[q].at = "fan" /\ Active(q) = {}
  /\ query[q].cursor = Width[q] \/ query[q].failed
  /\ Query(q, [query[q] EXCEPT !.at = IF query[q].guards = <<>> THEN "done" ELSE "ready", !.failed = FALSE])
  /\ UNCHANGED <<row, pool, dog>>

\* WorkOnTasks returns when no task is left, and rethrows; an interrupt found
\* then also fails the statement.
FanOutEnds(q) ==
  /\ query[q].at = "fan" /\ Active(q) = {}
  /\ query[q].cursor = Width[q] \/ query[q].failed
  /\ Query(q, [query[q] EXCEPT !.at = IF query[q].guards = <<>> THEN "done" ELSE "ready",
                               !.failed = @ \/ query[q].intr])
  /\ UNCHANGED <<row, pool, dog>>

-----------------------------------------------------------------------------
(* The pool.                                                               *)

\* The hosts that PoolHost keeps, by any order of the map: those used within
\* the time to live, without one of the oldest if there is no room for h.
Survivors(h) ==
  LET fresh == {x \in DOMAIN pool : pool[x].age <= Ttl}
      oldest == {x \in fresh : \A y \in fresh : pool[y].age <= pool[x].age}
  IN IF h \in fresh \/ Cardinality(fresh) < MaxPoolHosts THEN {fresh}
     ELSE {fresh \ {x} : x \in oldest}

PoolHost(h, hosts) ==
  [x \in hosts \cup {h} |->
     IF x # h THEN pool[x]
     ELSE [idle |-> IF h \in hosts THEN pool[h].idle ELSE <<>>, age |-> 0]]

TotalIdleClients(p) == MapThenSumSet(LAMBDA h : Len(p[h].idle), DOMAIN p)

\* WithPlainClient takes the client that was idle last, or dials, and sets its
\* timeouts anew, to what is left now.
Checkout(c) ==
  /\ row[c].at = "checkout"
  /\ \E hosts \in Survivors(row[c].host) :
       LET h == row[c].host
           p == PoolHost(h, hosts)
           reuse == p[h].idle # <<>>
           left == RemainingTimeout(Min({ContextDeadline(c[1]), row[c].left}))
       IN /\ pool' = IF reuse THEN [p EXCEPT ![h].idle = Front(@)] ELSE p
          /\ Row(c, [row[c] EXCEPT !.at = "guard", !.left = left,
                                   !.socket = IF reuse THEN Last(p[h].idle) ELSE "closed"])
  /\ UNCHANGED <<query, dog>>

\* Then its QuackapiCancellationGuard is given to the watchdog, whose mutex Add
\* takes: a thread that waits for it has fixed its timeout already.
AddGuard(c) ==
  /\ row[c].at = "guard" /\ ~dog.awake
  /\ Row(c, [row[c] EXCEPT !.at = "send", !.armed = TRUE])
  /\ UNCHANGED <<query, pool, dog>>

\* httplib's send: a socket that is alive is used, otherwise it connects,
\* holding the client's socket mutex.
Send(c, alive) ==
  /\ row[c].at = "send"
  /\ alive => row[c].socket = "open"
  /\ Row(c, [row[c] EXCEPT !.at = IF alive THEN "waiting" ELSE "connecting",
                           !.socket = IF alive THEN "open" ELSE "closed"])
  /\ UNCHANGED <<query, pool, dog>>

\* Only a client of a successful call that was not interrupted is recycled.
Healthy(c, result) == result = "response" /\ ~query[c[1]].intr

Returned(c, result, socket) ==
  Row(c, [row[c] EXCEPT !.at = "disarm", !.left = 0, !.late = 0, !.result = result, !.socket = socket,
                        !.healthy = Healthy(c, result)])

\* The connection is made, or fails within its own timeout.
Connect(c, ok) ==
  /\ row[c].at = "connecting"
  /\ IF ok THEN Row(c, [row[c] EXCEPT !.at = "waiting", !.socket = "open"])
     ELSE Returned(c, "error", "closed")
  /\ UNCHANGED <<query, pool, dog>>

\* The response has come; a socket shut down meanwhile is closed at the end.
Reply(c) ==
  /\ row[c].at = "waiting"
  /\ Returned(c, "response", IF row[c].socket = "shut" THEN "closed" ELSE "open")
  /\ UNCHANGED <<query, pool, dog>>

Broken(c) ==
  /\ row[c].at = "waiting"
  /\ Returned(c, "error", "closed")
  /\ UNCHANGED <<query, pool, dog>>

\* The peer fails, the timeout passes, or stop() has shut the socket down.
PeerFails(c) == Broken(c)
TimesOut(c)  == row[c].left = 0 /\ Broken(c)
Aborted(c)   == row[c].socket = "shut" /\ Broken(c)

\* DecodePostResponse: a typed body is decoded unless the statement is
\* interrupted or out of time; whatever it throws becomes the row's error.
Decoded(c) ==
  {[NoRow EXCEPT !.at = "done", !.result = result] :
     result \in IF row[c].result = "response" THEN {"response", "error"} ELSE {"error"}}

\* Mutant: the end of the guard leaves the action with the watchdog.
DropGuardOnly(c) ==
  /\ row[c].at = "disarm"
  /\ IF row[c].healthy THEN Row(c, [row[c] EXCEPT !.at = "recycle"])
     ELSE \E r \in Decoded(c) : Row(c, [r EXCEPT !.armed = row[c].armed])
  /\ UNCHANGED <<query, pool, dog>>

\* ~QuackapiCancellationGuard takes the action from the watchdog; a client
\* that is not healthy is destroyed.
DropGuard(c) ==
  /\ row[c].at = "disarm"
  /\ IF row[c].healthy THEN Row(c, [row[c] EXCEPT !.at = "recycle", !.armed = FALSE, !.fired = FALSE])
     ELSE \E r \in Decoded(c) : Row(c, r)
  /\ UNCHANGED <<query, pool, dog>>

HasRoom(p, h) == Len(p[h].idle) < MaxIdlePerHost /\ TotalIdleClients(p) < MaxIdleTotal

\* The client goes back, or is destroyed where there is no room.
Recycle(c) ==
  /\ row[c].at = "recycle"
  /\ \E hosts \in Survivors(row[c].host) :
       LET h == row[c].host
           p == PoolHost(h, hosts)
           room == HasRoom(p, h)
       IN pool' = IF room THEN [p EXCEPT ![h].idle = Append(@, row[c].socket)] ELSE p
  /\ \E r \in Decoded(c) : Row(c, r)
  /\ UNCHANGED <<query, dog>>

\* ResetPool, when a server stops.
ResetPool ==
  /\ pool # <<>>
  /\ pool' = <<>>
  /\ UNCHANGED <<query, row, dog>>

-----------------------------------------------------------------------------
(* DeadlineWatchdog::Run.                                                  *)

Overdue(q) == \E g \in DOMAIN query[q].guards : query[q].guards[g].left = 0

\* A round begins: statements past a deadline, or whose client has gone, are
\* interrupted.  The mutex is kept for the cancellations.
DogScan ==
  /\ ~dog.awake
  /\ query' = [q \in Queries |->
       [query[q] EXCEPT !.intr = @ \/ (query[q].guards # <<>> /\ (Overdue(q) \/ query[q].peer = "gone"))]]
  /\ LET visit == {c \in Calls : row[c].armed} IN dog' = [awake |-> visit # {}, visit |-> visit]
  /\ UNCHANGED <<row, pool>>

\* client->stop() waits for the socket mutex; it shuts down the socket of a
\* request in flight and closes any other.  The action is run once.
DogVisit(c) ==
  LET act == row[c].armed /\ query[c[1]].intr
      rest == dog.visit \ {c}
  IN /\ dog.awake /\ c \in dog.visit
     /\ act => row[c].at # "connecting"
     /\ IF act THEN Row(c, [row[c] EXCEPT !.armed = FALSE, !.fired = TRUE,
                                          !.socket = IF row[c].at = "waiting" THEN "shut" ELSE "closed"])
        ELSE UNCHANGED row
     /\ dog' = [awake |-> rest # {}, visit |-> rest]
     /\ UNCHANGED <<query, pool>>

-----------------------------------------------------------------------------
Init ==
  /\ query = [q \in Queries |-> NoQuery]
  /\ row = [c \in Calls |-> NoRow]
  /\ pool = <<>>
  /\ dog = Asleep

Progress(c) ==
  \/ Checkout(c) \/ AddGuard(c) \/ Recycle(c)
  \/ \E b \in BOOLEAN : Send(c, b) \/ Connect(c, b)
  \/ TimesOut(c) \/ Aborted(c)
  \/ DropGuard(c)

Statement(q) ==
  \/ \E t \in {1, Budget} : Arm(q, t)
  \/ Disarm(q)
  \/ \E nulls \in SUBSET Rows(q), t \in {1, Unlimited} : FanOut(q, nulls, t)
  \/ \E h \in Hosts : Claim(q, h)
  \/ FanOutEnds(q)
  \/ Interrupt(q) \/ Disconnect(q)

Next ==
  \/ \E q \in Queries : Statement(q)
  \/ \E c \in Calls : Progress(c) \/ Reply(c) \/ PeerFails(c)
  \/ ResetPool
  \/ DogScan \/ \E c \in Calls : DogVisit(c)
  \/ Tick

Spec == Init /\ [][Next]_vars

\* Threads run, time passes, the watchdog makes its rounds and a thread
\* waiting for its mutex gets it between two of them (hence the strong
\* fairness).  Peers need not answer.
Fairness ==
  /\ \A c \in Calls : SF_vars(AddGuard(c)) /\ WF_vars(Progress(c))
  /\ \A q \in Queries : WF_vars(FanOutEnds(q) \/ \E h \in Hosts : Claim(q, h))
  /\ WF_vars(DogScan \/ \E c \in Calls : DogVisit(c))
  /\ WF_vars(Tick)

FairSpec == Spec /\ Fairness

-----------------------------------------------------------------------------
\* The watchdog runs a cancellation only for an interrupted statement and
\* only while the call still has the client it stops: never on one that has
\* gone back to the pool or to another call.
StopHitsOwnCall ==
  [][\A c \in Calls : row'[c].fired /\ ~row[c].fired =>
       /\ query[c[1]].intr
       /\ row[c].at \in {"send", "waiting", "disarm"}]_vars

\* A call's timeout outlasts a deadline its statement is under, on whatever
\* thread the call runs, by no more than the call was held up between the
\* setting of its timeout and its request (by the watchdog's mutex, which may be
\* seconds); save for the 1 ms a call gets at least.
DeadlineInherited ==
  \A c \in Calls : row[c].at \in {"guard", "send", "connecting", "waiting"} =>
    \A g \in DOMAIN query[c[1]].guards :
      row[c].left <= Max({1, query[c[1]].guards[g].left + row[c].late})

\* A statement that ends without an error has an answer for every row that is
\* not NULL.
AnsweredOrRaised ==
  \A q \in Queries : query[q].at \in {"ready", "done"} /\ query[q].cursor > 0 /\ ~query[q].failed =>
    \A i \in Posted(q) : row[<<q, i>>].at = "done" /\ row[<<q, i>>].result # "none"

\* Every chunk of calls ends, although peers may never answer and the watchdog
\* may be kept waiting by a client that connects.
FanOutReturns == \A q \in Queries : query[q].at = "fan" ~> query[q].at # "fan"

=============================================================================
