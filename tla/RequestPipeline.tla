--------------------------- MODULE RequestPipeline ---------------------------
(***************************************************************************)
(* One HTTP request through QuackapiHttpServer::HandleRequest, and the SQL *)
(* middleware around route handlers (src/src/quackapi_server.cpp,          *)
(* src/src/quackapi_middleware.cpp).                                       *)
(*                                                                         *)
(* The handler is a straight line of gates; each may answer the request    *)
(* through finish(), which runs the AFTER middleware if it was installed,  *)
(* enforces the time and size limits and logs the request.  The middleware *)
(* registry changes at any time: a request reads it up to four times.      *)
(*                                                                         *)
(* What SQL, clients and the network do is a nondeterministic outcome;     *)
(* payloads are left out, and of the status of the answer its class is     *)
(* kept: success (2xx, 3xx), error (4xx, 5xx), 504 and 507.                *)
(***************************************************************************)
EXTENDS Integers, SequencesExt, Subsequences

CONSTANTS
  Requests,        \* requests in flight
  Names,           \* middleware names
  Groups,          \* route groups
  NoGroup,         \* no group: a global middleware, a route in no group
  MaxDefinitions,  \* QUACKAPI_MIDDLEWARE_MAX_DEFINITIONS
  MaxOrder,        \* bound on the registrations in a behaviour
  Budget,          \* options.query_timeout_ms, in ticks
  MaxTime          \* bound on the clock

ASSUME PipelineAssumption ==
  /\ MaxDefinitions \in Nat \ {0}
  /\ MaxOrder \in Nat
  /\ Budget \in Nat \ {0}
  /\ MaxTime \in Nat
  /\ NoGroup \notin Groups

Scopes == Groups \cup {NoGroup}
Definition == [name : Names, phase : {"BEFORE", "AFTER"}, group : Scopes, order : 1..MaxOrder]

VARIABLES
  middlewares,  \* the registry, in registration order
  registered,   \* registrations so far: next_registration_order
  req,          \* the request each worker thread is serving
  clock

vars == <<middlewares, registered, req, clock>>

\* at      the next piece of the handler
\* group   the group of the matched route
\* t0      when the request came in
\* dl      the deadline armed on the request's connection, 0 before
\* scope   the try block that owns that deadline has not been left
\* auth    CheckAuth's verdict
\* status  what the client will get
\* todo    middleware still to run in the current phase
\* hook    after_middleware is installed
\* allowed history: BEFORE middleware that ran and let the request pass
\* ran     history: AFTER middleware that ran
\* past    history: the BEFORE phase is over and has let the request pass
\* cut     history: an AFTER middleware ended its phase
\* sql     history: executions of the route's SQL
\* logs    history: access-log records
\* steady  history: definitions in force ever since the request came in
Idle == [at |-> "idle", group |-> NoGroup, t0 |-> 0, dl |-> 0, scope |-> FALSE, auth |-> FALSE,
         status |-> "unset", todo |-> <<>>, hook |-> FALSE, allowed |-> <<>>, ran |-> <<>>,
         past |-> FALSE, cut |-> FALSE, sql |-> 0, logs |-> 0, steady |-> {}]

-----------------------------------------------------------------------------
(* The registry: CREATE [OR REPLACE] MIDDLEWARE, DROP MIDDLEWARE.          *)

Position(name) == {i \in DOMAIN middlewares : middlewares[i].name = name}

\* History: a definition that is replaced or dropped is not steady any more.
Unsettle(name) ==
  req' = [r \in Requests |-> [req[r] EXCEPT !.steady = {d \in @ : d.name # name}]]

\* Mutant: a replaced definition moves to the end of the list.
ReplaceAtEnd(i, d) == Append(RemoveAt(middlewares, i), d)

\* A replaced definition keeps its place and its registration order.
Replace(i, d) == [middlewares EXCEPT ![i] = d]

Add(name, phase, group, or_replace) ==
  LET d(order) == [name |-> name, phase |-> phase, group |-> group, order |-> order] IN
  /\ \/ /\ Position(name) = {}
        /\ Len(middlewares) < MaxDefinitions
        /\ registered < MaxOrder
        /\ registered' = registered + 1
        /\ middlewares' = Append(middlewares, d(registered'))
     \/ /\ or_replace
        /\ \E i \in Position(name) : middlewares' = Replace(i, d(middlewares[i].order))
        /\ UNCHANGED registered
  /\ Unsettle(name)
  /\ UNCHANGED clock

Drop(name) ==
  /\ \E i \in Position(name) : middlewares' = RemoveAt(middlewares, i)
  /\ Unsettle(name)
  /\ UNCHANGED <<registered, clock>>

\* append_scope
Scope(phase, g) ==
  Kept(middlewares, {i \in DOMAIN middlewares : middlewares[i].phase = phase /\ middlewares[i].group = g})

\* Registry::Snapshot: global then group for BEFORE, group then global for AFTER.
Snapshot(phase, group) ==
  LET grouped == IF group = NoGroup THEN <<>> ELSE Scope(phase, group)
  IN  IF phase = "BEFORE" THEN Scope(phase, NoGroup) \o grouped ELSE grouped \o Scope(phase, NoGroup)

-----------------------------------------------------------------------------
(* HandleRequest up to the route.                                          *)

Step(r, q) == req' = [req EXCEPT ![r] = q] /\ UNCHANGED <<middlewares, registered, clock>>

\* SetJson(res, status, ...); finish();
Answer(r, status) == Step(r, [req[r] EXCEPT !.at = "finish", !.status = status, !.todo = <<>>])

Goto(r, label) == Step(r, [req[r] EXCEPT !.at = label])

Receive(r, group) ==
  /\ req[r] = Idle
  /\ Step(r, [Idle EXCEPT !.at = "start", !.group = group, !.t0 = clock,
                          !.steady = ToSet(middlewares)])

\* db_ptr.lock() fails.
ShuttingDown(r) == req[r].at = "start" /\ Answer(r, "error")

\* Health, GraphQL and documentation paths.
Builtin(r) ==
  /\ req[r].at = "start"
  /\ \E status \in {"success", "error"} : Answer(r, status)

\* Nothing registered answers, or the body is too large.
NoRoute(r) ==
  /\ req[r].at = "start"
  /\ \E status \in {"success", "error"} : Answer(r, status)

\* An event stream that is refused, or HEAD of one.
StreamRefused(r) ==
  /\ req[r].at = "start"
  /\ \E status \in {"success", "error"} : Answer(r, status)

\* Mutant: finish() is called although the stream logs when it ends.
StreamOpenedFinishes(r) ==
  /\ req[r].at = "start"
  /\ Step(r, [req[r] EXCEPT !.at = "streaming", !.status = "success", !.logs = @ + 1])

\* The provider owns the response; finish() is not called.
StreamOpened(r) ==
  /\ req[r].at = "start"
  /\ Step(r, [req[r] EXCEPT !.at = "streaming", !.status = "success"])

\* The provider's release callback logs.
StreamClosed(r) ==
  /\ req[r].at = "streaming"
  /\ Step(r, [req[r] EXCEPT !.at = "done", !.logs = @ + 1])

\* A route matches: CheckAuth.
Authenticate(r, ok) ==
  /\ req[r].at = "start"
  /\ Step(r, [req[r] EXCEPT !.at = "limit", !.auth = ok])

\* The rate limiter is asked before the verdict is acted on.
RateLimited(r) == req[r].at = "limit" /\ Answer(r, "error")
Refused(r) == req[r].at = "limit" /\ ~req[r].auth /\ Answer(r, "error")
Admitted(r) == req[r].at = "limit" /\ req[r].auth /\ Goto(r, "policy")

\* RewriteHandlerWithPolicies.
PolicyDenied(r) == req[r].at = "policy" /\ Answer(r, "error")
PolicyApplied(r) == req[r].at = "policy" /\ Goto(r, "open")

-----------------------------------------------------------------------------
(* The try block.                                                          *)

Longer(a, b) == IF a >= b THEN a ELSE b

\* Connection, deadline and serving budget.
Open(r) ==
  /\ req[r].at = "open"
  /\ Step(r, [req[r] EXCEPT !.at = "look", !.scope = TRUE,
                            !.dl = clock + Longer(1, Budget - (clock - req[r].t0))])

\* Any statement of the block may throw: 500, and the block is left.
Throw(r) ==
  /\ req[r].at \in {"open", "look", "lookAfter", "begin", "bind", "execute", "serialize"}
  /\ \E ran_sql \in IF req[r].at = "execute" THEN {0, 1} ELSE {0} :
       Step(r, [req[r] EXCEPT !.at = "finish", !.status = "error", !.scope = FALSE, !.sql = @ + ran_sql])

\* Is there any middleware for the route?  Two snapshots.
LookBefore(r) ==
  /\ req[r].at = "look"
  /\ Goto(r, IF Snapshot("BEFORE", req[r].group) # <<>> THEN "begin" ELSE "lookAfter")
LookAfter(r) ==
  /\ req[r].at = "lookAfter"
  /\ IF Snapshot("AFTER", req[r].group) # <<>>
       THEN Goto(r, "begin")
       ELSE Step(r, [req[r] EXCEPT !.at = "bind", !.past = TRUE])

\* ExecuteQuackapiMiddleware(BEFORE) takes a snapshot of its own.
BeginBefore(r) ==
  /\ req[r].at = "begin"
  /\ Step(r, [req[r] EXCEPT !.at = "before", !.todo = Snapshot("BEFORE", req[r].group)])

\* Mutant: a block does not end the phase.
BlockBeforeGoesOn(r) ==
  /\ req[r].at = "before" /\ req[r].todo # <<>>
  /\ Step(r, [req[r] EXCEPT !.todo = Tail(@), !.status = "error"])

\* It blocks, fails, is denied by a policy or runs out of time.
BlockBefore(r) ==
  /\ req[r].at = "before" /\ req[r].todo # <<>>
  /\ Answer(r, "error")

\* It lets the request pass.
PassBefore(r) ==
  /\ req[r].at = "before" /\ req[r].todo # <<>>
  /\ clock < req[r].dl
  /\ Step(r, [req[r] EXCEPT !.todo = Tail(@), !.allowed = Append(@, Head(req[r].todo))])

\* after_middleware is installed.
EndBefore(r) ==
  /\ req[r].at = "before" /\ req[r].todo = <<>>
  /\ Step(r, [req[r] EXCEPT !.at = "bind", !.hook = TRUE, !.past = TRUE])

\* Parameters, body, prepare, validation.
BindRefused(r) == req[r].at = "bind" /\ Answer(r, "error")
Bound(r) == req[r].at = "bind" /\ Goto(r, "execute")

\* The route's SQL runs; its errors are answered.
Execute(r, ok) ==
  /\ req[r].at = "execute"
  /\ IF ok
       THEN Step(r, [req[r] EXCEPT !.at = "serialize", !.sql = @ + 1])
       ELSE \E status \in {"success", "error", "504"} :
              Step(r, [req[r] EXCEPT !.at = "finish", !.status = status, !.sql = @ + 1])

\* Most formats finish inside the block ...
Serialized(r) ==
  /\ req[r].at = "serialize"
  /\ \E status \in {"success", "error", "504", "507"} : Answer(r, status)
\* ... NDJSON, CSV and empty Parquet set the body and fall out of it.
SerializedLast(r) ==
  /\ req[r].at = "serialize"
  /\ Step(r, [req[r] EXCEPT !.at = "finish", !.status = "success", !.scope = FALSE])

-----------------------------------------------------------------------------
(* finish()                                                                *)

\* Mutant: the hook is called without being taken out first.
RunHookKept(r) ==
  /\ req[r].at = "finish" /\ req[r].hook
  /\ Step(r, [req[r] EXCEPT !.at = "after", !.todo = Snapshot("AFTER", req[r].group)])

\* after_middleware is moved out, so it runs once.
RunHook(r) ==
  /\ req[r].at = "finish" /\ req[r].hook
  /\ Step(r, [req[r] EXCEPT !.at = "after", !.hook = FALSE,
                            !.todo = Snapshot("AFTER", req[r].group)])

\* QuackapiRemainingTimeoutMillis: what is left of the request's deadline, or
\* the whole budget when no deadline is armed on this thread.
AfterDeadline(r) == IF req[r].scope THEN req[r].dl ELSE clock + Budget

PassAfter(r) ==
  /\ req[r].at = "after" /\ req[r].todo # <<>>
  /\ clock < AfterDeadline(r)
  /\ Step(r, [req[r] EXCEPT !.todo = Tail(@), !.ran = Append(@, Head(req[r].todo))])

\* It replaces the answer; those behind it do not run.
BlockAfter(r) ==
  /\ req[r].at = "after" /\ req[r].todo # <<>>
  /\ Step(r, [req[r] EXCEPT !.todo = <<>>, !.ran = Append(@, Head(req[r].todo)),
                            !.cut = TRUE, !.status = "error"])

EndAfter(r) == req[r].at = "after" /\ req[r].todo = <<>> /\ Goto(r, "finish")

\* Time and size limits, headers, compression, access log.
Seal(r) ==
  /\ req[r].at = "finish" /\ ~req[r].hook
  /\ \E status \in IF clock - req[r].t0 >= Budget THEN {"504"} ELSE {req[r].status, "507"} :
       Step(r, [req[r] EXCEPT !.at = "done", !.status = status, !.logs = @ + 1])

\* The worker thread takes the next request.
Leave(r) == req[r].at = "done" /\ Step(r, Idle)

Tick == clock < MaxTime /\ clock' = clock + 1 /\ UNCHANGED <<middlewares, registered, req>>

-----------------------------------------------------------------------------
Init ==
  /\ middlewares = <<>>
  /\ registered = 0
  /\ req = [r \in Requests |-> Idle]
  /\ clock = 0

Registry ==
  \/ \E name \in Names, phase \in {"BEFORE", "AFTER"}, group \in Scopes, or_replace \in BOOLEAN :
       Add(name, phase, group, or_replace)
  \/ \E name \in Names : Drop(name)

Handle(r) ==
  \/ \E group \in Scopes : Receive(r, group)
  \/ ShuttingDown(r) \/ Builtin(r) \/ NoRoute(r)
  \/ StreamRefused(r) \/ StreamOpened(r) \/ StreamClosed(r)
  \/ \E ok \in BOOLEAN : Authenticate(r, ok)
  \/ RateLimited(r) \/ Refused(r) \/ Admitted(r)
  \/ PolicyDenied(r) \/ PolicyApplied(r)
  \/ Open(r) \/ Throw(r)
  \/ LookBefore(r) \/ LookAfter(r)
  \/ BeginBefore(r) \/ BlockBefore(r) \/ PassBefore(r) \/ EndBefore(r)
  \/ BindRefused(r) \/ Bound(r)
  \/ \E ok \in BOOLEAN : Execute(r, ok)
  \/ Serialized(r) \/ SerializedLast(r)
  \/ RunHook(r) \/ PassAfter(r) \/ BlockAfter(r) \/ EndAfter(r)
  \/ Seal(r) \/ Leave(r)

Next == Registry \/ (\E r \in Requests : Handle(r)) \/ Tick

Spec == Init /\ [][Next]_vars

-----------------------------------------------------------------------------
\* The steady definitions of a phase that concern the request.
Steady(r, phase) ==
  {d \in req[r].steady : d.phase = phase /\ d.group \in {NoGroup, req[r].group}}

\* Every exit path logs the request once, and only when the answer is settled.
OneRecordPerRequest ==
  \A r \in Requests : req[r].logs = (IF req[r].at = "done" THEN 1 ELSE 0)

\* The route's SQL runs only for a request that was authenticated and that every
\* BEFORE middleware in force since it came in has let pass, although the
\* registry is read three times while other sessions change it.
GatesBeforeSql ==
  \A r \in Requests :
    req[r].sql > 0 => req[r].auth /\ Steady(r, "BEFORE") \subseteq ToSet(req[r].allowed)

\* Once a request is past the BEFORE phase, every AFTER middleware in force since
\* it came in runs exactly once, on every exit path, exceptions included, unless
\* an earlier one ended the phase.
AfterAlwaysRuns ==
  \A r \in Requests :
    /\ IsInjective(req[r].ran)
    /\ (req[r].at = "done" /\ req[r].past /\ ~req[r].cut)
         => Steady(r, "AFTER") \subseteq ToSet(req[r].ran)

\* Registration order within a scope; global first on the way in, last on the
\* way out.
InOrder(s, phase) ==
  \A i, j \in DOMAIN s : i < j =>
    \/ s[i].group = s[j].group /\ s[i].order < s[j].order
    \/ s[i].group # s[j].group /\ (phase = "BEFORE" <=> s[i].group = NoGroup)

\* Middleware runs in registration order, global before group on the way in and
\* after it on the way out, also across CREATE OR REPLACE.
RunsInOrder ==
  \A r \in Requests : InOrder(req[r].allowed, "BEFORE") /\ InOrder(req[r].ran, "AFTER")

=============================================================================
