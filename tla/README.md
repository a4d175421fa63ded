# A TLA+ verification project for quackapi

quackapi is a DuckDB extension that turns SQL into an HTTP API. `CREATE ROUTE`,
`CREATE STREAM`, `CREATE AUTH`, `CREATE MIDDLEWARE`, `CREATE QUEUE` and related
statements fill in-memory registries; `quackapi_serve` starts an HTTP server
whose worker threads match requests against the registries and run the bound
SQL; table and scalar functions drive a durable job queue, outbound HTTP and the
concurrent execution of SQL texts. This project models the parts in which
several threads, statements or processes interfere, and the decisions in which
many cases meet (routing, negotiation, binding, statements, rewriting); it checks
them with TLC on small instances and proves the most important properties with
TLAPS for every instance.

Paths below are those of the repository: `src/quackapi_server.cpp` and so on.
Every definition that models code is listed with its lines in `PROJECT.json`
under `map`.

## 1. Inventory

| Part | State | Operations | Interacts with |
|---|---|---|---|
| Durable job queue (`quackapi_queue.cpp`) | table `quackapi_jobs` and its sequence (durable); queue options and `dequeue_claim_mutex` (volatile) | `CREATE/DROP QUEUE`, enqueue, dequeue (three sweeps and a claim), ack, nack (read, then update), renew | DuckDB transactions; process restarts |
| Access-log sink (`quackapi_server.cpp`, `QuackapiTableTelemetrySink`) | bounded queue, batch, retry timer, flags, counters, one condition variable | `Enqueue` from handlers, the worker's loop, `FlushPending`, `Shutdown` | request handlers, `quackapi_telemetry_flush`, `quackapi_stop` through `servers_mutex` |
| Authentication (`quackapi_auth.cpp`, `quackapi_registry.cpp`) | schemes by folded name, API keys | `AddAuth`, `DropAuth`, `AddApiKey`; `CheckAuth`, `VerifyAuthScheme` | the pipeline; SQL through `quackapi_verify_auth` |
| Routes and rate limiter (`quackapi_registry.cpp`, `quackapi_server.cpp`) | route list, published snapshot, buckets | `AddRoutes` (all or none), `DropRoute`, `AllowRateLimit`, `ClearRouteRateLimit` | requests that hold an old snapshot |
| Request pipeline and middleware (`HandleRequest`, `quackapi_middleware.cpp`) | per request: the stage, the armed AFTER hook, the deadline; the middleware registry | match, authenticate, limit, policies, BEFORE, bind, execute, serialize, AFTER, log | all registries |
| Streams and sessions (`RejectWebSocket`, `HandleWebSocket`, the SSE provider) | the session counter, a prepared WebSocket in a thread-local | admit, prepare, upgrade, push or reply, end | the worker pool, `quackapi_stop` |
| Self-dispatch (`quackapi_http_fetch.cpp`) | `exec_tasks_running`, one `ExecCall` per call, its tasks | reserve, schedule, run a row in steps, help, abandon, drain | DuckDB's task scheduler, deadlines, interrupts |
| Deadlines and budgets (`quackapi_limits.cpp`) | watchdog list, per-connection budget, thread-local deadline | arm, restore, scan, interrupt, cancel | every SQL execution |
| Outbound HTTP (`quackapi_http_fetch.cpp`) | connection pool per host | checkout, dial, call, recycle, evict, reset | cancellation guards, `quackapi_stop` |
| Policies (`quackapi_policy.cpp`, `quackapi_registry.cpp`) | row-access and masking policies and their bindings | create, replace, drop, attach, detach; lookup and rewrite | the pipeline, self-dispatch |
| Route matching, negotiation, validation and binding (`quackapi_server.cpp`) | none | request in, decision out | the registries |
| DDL scanners (`quackapi_ddl.cpp`, `quackapi_policy.cpp` and others) | none | statement in, declaration or error out | the registries |
| GraphQL, OpenAPI, TABLE API, FROM-X, serialization, batteries, entry points | none of their own | generate text, SQL or responses | the registries |

### What is hard here

* **Concurrency without one lock.** Each registry has its own mutex and hands
  out copies or immutable snapshots. A request looks several of them up, some
  more than once, and the answers belong to different moments: the scheme
  (twice) and its keys, the route and then its rate bucket, the middleware list
  (four times).
* **Two statements where one transaction is meant.** Dequeue runs three sweeps
  and a claim, nack reads and then updates; a statement may fail, the process
  may die, a lease may run out in between.
* **Threads that wait for each other.** Flush waits for the sink's worker while
  it holds the mutex stop needs; self-dispatch waits, on a scheduler thread, for
  tasks that need scheduler threads; sessions hold pool threads for as long as
  clients like; stop joins everything.
* **Counters and flags outside a lock.** The session counter is raised before it
  is compared; task reservations are a compare-and-swap loop; `cancelled` is read
  before the step it guards; the limiter reads its clock before its lock.
* **Several passes over the same question.** Who answers a path is decided by one
  pass each for routes, streams, automatic HEAD, OPTIONS, the redirect and the
  refusals; the value of a parameter by one pass for each source; a statement by
  a scanner with clauses in many orders. Each pass is plain, their agreement is not.
* **Exits.** A request has some forty exits; each must log once and run the AFTER
  hook iff it is armed, also when SQL throws.

`PROJECT.json` lists each hazard at its line with the properties that would
catch it going wrong.

## 2. Modules

| Module | Models | Composes / extends |
|---|---|---|
| `JobQueue` | every statement of every queue function | — |
| `JobLifecycle` | what the queue promises of a job (abstract) | refined by `JobQueue` |
| `JobQueueLive` | progress once failures stop and somebody polls | `JobQueue` |
| `TelemetrySink` | the sink, its worker, handlers, flush and stop | — |
| `AuthRegistry` | schemes, keys and checks | — |
| `RouteRegistry` | registry, snapshot and rate limiter | — |
| `RequestPipeline` | `HandleRequest` from accept to log, with the middleware registry | `Subsequences` |
| `StreamSessions` | worker pool, sessions, stop | — |
| `SelfDispatch` | `quackapi_selfdispatch` on the task scheduler | — |
| `OutboundHttp` | `quackapi_post`, the connection pool, deadlines, cancellation and the watchdog | — |
| `PolicyRegistry` | policies, their bindings and the requests that look them up | `Subsequences` |
| `Subsequences` | what a loop over a vector keeps (`remove_if`, conditional `push_back`) | — |
| `RouteMatching` | who answers a request, and the refusals | `Subsequences` |
| `Negotiation` | content coding, body format, outbound `Accept` | — |
| `ParameterBinding` | the layers of request values and the checks on one value | — |
| `RouteDdl` | `CREATE ROUTE` from tokens to the route registered | `RouteMatching` |
| `GroupDdl`, `PolicyDdl` | the statements about groups and policies | — |
| `PolicyRewrite` | the rewriting of a handler's syntax tree | `Subsequences` |
| `RequestDecisions` | asks what is decided about a request, one question after the other | `RouteMatching`, `Negotiation`, `ParameterBinding`, `PolicyRewrite` |
| `Decisions` | asks, besides, what a statement declares | `RequestDecisions`, `RouteDdl`, `GroupDdl`, `PolicyDdl` |
| `RegistryProofs` | theorems about both registries | `AuthRegistry`, `RouteRegistry`, `TLAPS` |
| `RequestPipelineProofs` | theorems about the pipeline, routing, negotiation and binding | `RequestPipeline`, `RequestDecisions`, `TLAPS` |
| `PolicyRegistryProofs` | theorems about policies and their rewriting | `PolicyRegistry`, `RequestDecisions`, `TLAPS` |
| other `*Proofs` | theorems about the module of that name | the module, `TLAPS` |
| `MC*` | small instances for TLC | the module |

Definitions named after a defect and introduced by a comment `Mutant:` are
altered versions of the definition that follows them. They are not part of any
specification; they document which slip in the code each property detects.

### JobQueue
One step is one SQL statement (DuckDB commits each) or one registry access under
its lock. `jobs` and `seq` survive `Crash`, everything else is lost; `Init`
admits rows an older release left without delivery generation (`LegacyRows`).
`pc`, `op` are a client's place in a call and its arguments; `held` are the
deliveries a client has been told of, which it may answer at any time, also after
its lease. Time is `lease`, the seconds until `visible_at`, and `Tick`. A statement
may fail (`StatementError`), and the reply of a committed call may get lost.
The retry delay keeps the code's formula, exponent at most 6 and
result at most `BackoffCap`.

### TelemetrySink
Each section under the sink's mutex is a step. The condition variable is the set
of sleeping threads, so that `notify_one` can wake the wrong one, and wake-ups can
be spurious. Stop follows the code's order: unpublish under `servers_mutex`, stop
accepting, join the listener (no handler left), `Shutdown`, join the worker. A
write fails or succeeds as a batch, because `FlushBatch` appends in a transaction.

### AuthRegistry
Scheme names are compared after folding (`Fold`), as the code's lower-casing
does. A check is three separate lookups: scheme for the kind of credential,
scheme again for verification, keys. A token's signature is the equality of its
secret with the scheme's, its validity an interval of the clock. The verdict on a
token is fixed at the second lookup, whose copy of the scheme it uses.

### RouteRegistry
`AddRoutes` puts a batch into a private copy and publishes all or nothing,
clearing the rate buckets of the routes it names. `Proposed(new, i)` is that copy when the
first i routes of the batch are in it, and the batch is accepted if each of its routes fits
the copy it meets. `AllowRateLimit` is two steps:
read the clock, then, up to `MaxStall` seconds later, the section under the
mutex with purge, renewal and count. `passed` and `mixed` are history.

### RequestPipeline
Each stage of `HandleRequest` that can end a request, change shared state or let
the middleware registry change underneath is an action. `finish()` is modelled
with its guard against a second call, AFTER middleware with its own deadline.
SQL succeeds, fails or throws; bodies are left out. Opening the
connection for AFTER middleware is taken not to throw.

### StreamSessions
A worker of the fixed pool goes through a connection's requests. `sessions` is
the code's atomic, `slot` whether the worker's `QuackapiPendingWebSocket` or
`SseProviderState` has `session_count` set. The unit a refused request holds
between `fetch_add` and `fetch_sub` is the place `over`. A handshake that fails
leaves the slot in the thread-local until `Leave` or the next `Request` resets it.

### SelfDispatch
A caller is a thread of the scheduler. Reservation is the compare-and-swap loop
of `ReserveExecTasks`; the executor or a task may fail to be made, or a task be
refused by the scheduler. A task's step is split where the call's other threads
can come in between: claim, check, connect, submit, execute. A free thread takes
any task; a caller that helps takes its own, one at a time. A nested call from a
native task runs inline in the code and in the model. When a connection goes,
its abandoned tasks are cancelled and drained.

### OutboundHttp
A statement may be under nested deadlines (a request and a middleware hook in it),
each a guard that notes the budget it found on the connection. Its rows become
calls: claim, check a client out of the pool or make one and set its timeout
(`Checkout`), arm a cancellation guard (`AddGuard`), send, connect, wait, disarm, recycle.
The watchdog's round is a scan of the deadlines and then one visit per cancellation; its
mutex is held throughout (`dog.awake`), so that `Arm` and `AddGuard` wait for it, and a
visit to a connecting client waits for the client's own mutex. What httplib does is marked
external. Time is what is left of deadlines, timeouts and the life of idle hosts. A timeout
is a duration that httplib counts from the request on, so that it does not run while the
call waits at `guard` or `send`; `late` is history and counts that time.

### PolicyRegistry
Each statement is one section under `policies_mutex`; a failing statement changes
nothing. A request takes its row bindings, its mask bindings, and then each policy,
in separate sections. A binding has the spelling it was made with, and two
spellings may denote one table, each with its own row binding; the rewriter applies the
first it finds, and all masks. `heldRows` and `heldMasks` are history: the bindings, each
with its spelling and policy, that have been there since the request began.

### The pure modules, RequestDecisions and Decisions
They are operators from inputs to answers, named after the functions of the code.
`RequestDecisions` chooses a setting (what was declared), a question (what a client
sends) and computes the answer, so that every input combination is a state and a
counterexample names it; `Decisions` adds the questions about statements in the same
way. Loops whose effect is proved are recursive functions or closed forms
(`Kept` of `Subsequences`), the parsers are recursive operators and folds. Text is a member of a small set, with tables for what
conversions make of it (`Number`, `Length`, `Spelled`, `Literals`). A
parser is a function from tokens to a record, an error or "left to the engine".

* `RouteMatching`: paths are absolute or not, segments, trailing slashes. The order
  of the passes is the code's: health, GraphQL mounts, documentation, routes
  (the last match of the list wins), streams, HEAD, body limit, OPTIONS, upgrade,
  redirect, 405, 404. `Routed` compares answers with each other.
* `Negotiation`: `CodingIsBest` and `FormatIsBest` are stated over the set of
  codings and formats, not along the loop of the code; `CacheSafe` compares the
  answers two clients would get.
* `ParameterBinding`: `BeforeBody` lays identifiers, headers, cookies, path and query
  over each other, `Provided` the body, `BindParam` checks one value.
* `RouteDdl`: a declaration is a list of clauses in the places of the grammar; its
  tokens are parsed and the route compared with what the clauses say (`Meant`). `Misread`
  lists the sentences the parser refuses although the grammar in its comment has them.
* `GroupDdl`, `PolicyDdl`: each declaration is written out, as it is and with one token
  left out or doubled, and read; what is read is written out again and compared.
* `PolicyRewrite`: trees of query nodes, table references and expressions, by their number
  of levels up to `MaxDepth`. The visit of a tree of n levels is given by the visits of those
  of n - 1, so that the code's mutual recursion is one recursive function of the level.
  `Enforced` evaluates scoping by SQL's rules, with sets of visible names, independently of
  the rewriter's list of names and of its stopping in the middle.

## 3. Runs

| Run | Instance | Shows |
|---|---|---|
| `queue_safety` | 2 clients, 1 queue, 2 jobs, 2 deliveries each, batches of 1 and 2, legacy rows | `UniqueDelivery`: no delivery generation of a job is handed out twice. `DeliveriesBounded`: at most `max_attempts`. `AckedOnce`: only the latest delivery completes a job. `LeaseRespected`: what a step may never do to a leased row. `ImplementsLifecycle`: the refinement. |
| `queue_progress` | 1 client, 2 jobs, a legacy row | `EveryJobSettles`: done or dead, whatever workers do. |
| `access_log` | 2 handlers, 1 flusher, 3 records, queue of 2 | `ExactlyOnce` over queue, batch, table, stderr; `NothingLostAtStop`; `FlushIsComplete`; and, under fairness, `FlushReturns`, `EveryRecordWritten`, `StopCompletes`. |
| `auth_safety` | 2 checks, 2 keys, 2 secrets, tokens that begin, run and end, names that fold together | `KeysFollowScheme`; `AdmissionIsJustified`: who is admitted was entitled at a moment of the check. |
| `route_limits` | 2 requests, 2 routes, 2 paths, a limiter of 1 bucket, 3 seconds, stalls of 2 | `PathsUnique` within and across batches; `LiveWindowsKept` at capacity; `RateHolds` with delayed threads. |
| `request_pipeline` | 1 request, 2 middlewares, global and in a group | `OneRecordPerRequest`, `GatesBeforeSql`, `AfterAlwaysRuns`, `RunsInOrder`, while the registry changes. |
| `sessions` | 3 workers, 4 connections | `SlotsCounted`, `OneRowPerSession`; under fairness `ConnectionsServed`, `StopJoins`. |
| `selfdispatch` | 1 call of 2 rows and 2 statements on 2 tasks, or 2 calls of one row on 2 threads | `EachRowOnce`, `TimeoutIsTrue`, `ReservationsBalanced`; `CallReturns` although every thread may be a waiting caller, and a connection that goes is drained although abandoned statements may run for ever. |
| `selfdispatch_abandon` | 1 call, 1 row | violation, section 5 |
| `outbound` | 1 statement of 2 rows, 1 host, a pool of 1 idle client, nested deadlines | `DeadlineInherited`: no call outlasts a deadline around it, on whatever thread, by more than it was held up between the setting of its timeout and its request. `AnsweredOrRaised`. `StopHitsOwnCall`: the watchdog never stops a client that went back to the pool. `FanOutReturns` although peers need not answer. |
| `policies` | 1 request, 2 policy names, 1 table in 2 spellings, 2 columns, 6 statements | `NoDanglingBinding`; `HeldBindingsApplied`: of what was bound all along, every mask and one row policy of the table are applied to every read. |
| `decisions` | about 800 000 inputs | `RoutingConsistent`, `NegotiatedBest`, `ParametersBound`, `StatementsUnderstood`, `PoliciesEnforced`, each against a reference of its own. |

### Bounds
Two clients, two jobs and two deliveries are what a double delivery, a late
acknowledgement and an exhausted job need; a third of each adds repetition only,
and the theorems cover any number. Three records are one more than the sink's
queue holds, so that overflow happens. A limiter of one bucket is at its
capacity with the first request; three seconds are a window of two and its
successor. Three workers leave one session slot, so refusals, a session and
ordinary requests coexist, and four connections let one wait when all workers are
taken. Self-dispatch starts with several tasks and rows in one call or with two
calls; both together are beyond TLC in reasonable time, and rows of
different calls share nothing but the counter and the threads. Two rows of one
statement are what the pool, the watchdog and a failing fan-out need: a client that
one call returns is taken by the other, and a call waits while the watchdog visits
the other. Statements share nothing else but the pool and the watchdog. With one host the
run never evicts another; the limits of the pool are a theorem for any number of hosts. Six statements
create, attach and replace a policy of each kind around a request. In `decisions` the
alphabets are bounded: two or three segments, two parameters with every
declared source, statements of two leading clauses in any order with bodies,
parameters and trailing clauses, trees of a few levels below `MaxDepth` = 8, which stands
for the engine's `max_expression_depth` and is only there to end the recursion. One request is
enough for the pipeline because requests share only registries, which change at
any step anyway. `MaxRecords`, `MaxJobs`, `MaxVersions`, `MaxTime`, `MaxOrder`,
`MaxConnections` and `MaxDdl` bound behaviours, and `late` is counted up to the timeout of a call
without a deadline (`Fallback`); the other constants are limits the code has. Deadlock checking is off where the bounded system may stop
(`queue_progress`, `sessions`, `selfdispatch`, `outbound`).

Symmetry is used in `queue_safety`, `auth_safety` and `route_limits` only, where
no liveness is checked.

### Fairness
* `queue_progress`: from a moment on (`calm`) crashes, failing statements and DDL
  stop; time passes; a call that is under way goes on; one of the waiting
  threads gets a free mutex; somebody polls (the cron worker of `docs/QUEUE.md`).
  Nothing is assumed of a worker that holds a job.
* `access_log`: running threads run on, and the one-second wait of the worker
  ends. No notification is assumed to reach the right thread. The number of
  records is bounded: under traffic that never pauses a flush could wait for ever,
  which is a hazard of the code listed without a property.
* `sessions`: pool threads take queued connections, requests end (SQL runs under a
  deadline, sockets under timeouts), a connection is given up at the latest after
  `keep_alive_max_count` requests (the strong fairness of `Hangup`). Clients may hold
  sessions for ever; nobody need stop the server. With one worker the
  limit is one session and `ConnectionsServed` does not hold: the property is about
  two workers or more.
* `selfdispatch`: threads run and free threads take queued tasks; a statement of a
  call that was not abandoned consists of finitely many engine tasks. Nothing is
  assumed of the statements of an abandoned call, and no deadline need pass.
* `outbound`: threads run, time passes, the watchdog makes its rounds, and a thread
  that waits for its mutex gets it between two of them (strong fairness of
  `AddGuard`). Peers need not answer, connect or fail.

## 4. Proofs

All theorems hold for every value of the constants allowed by the named
assumptions of the modules (`ConstantsAssumption`, `LegacyAssumption`,
`SinkAssumption`, `AuthAssumption`, `RouteAssumption`, `SessionAssumption`,
`OutboundAssumption`, `PipelineAssumption`, `PolicyAssumption`, `DispatchAssumption`,
`DecisionsAssumption`): numbers are numbers, special values differ from ordinary ones,
legacy rows have no generation, and the workers, statements, hosts, names, clients and calls
of a process are finitely many. Limits that the code keeps positive are positive; a cap of 0
for self-dispatch is allowed. `DecisionsAssumption` says what lists, headers and trees are,
and of declarations what the statements let in: no route is declared for `OPTIONS`
(`quackapi_ddl.cpp:39`), a stream answers `GET` or a WebSocket upgrade and has no body limit
of its own (`quackapi_stream.cpp:159`), a request's method is one httplib reads
(`httplib.hpp:12506`), and no handler is nested deeper than the engine's parser allows. TLC
finds each inductive invariant of a state machine true on the instance of the module's run.

**JobQueueProofs.** `TypeCorrect` is inductive together with `CallsOK`, which says
that a call carries the arguments its next statement uses; it includes that
`dequeue_claim_mutex` is held exactly by the client inside a delivery call.
`Inv` adds what the safety properties need and do not say: once the
table is migrated a row's generation equals its attempts (`RowsOK`), so that a
generation never comes back; a delivery somebody holds is not newer than the row
(`HeldOK`); an acknowledged delivery is the latest of a job that is done
(`AckedOK`). `DeliveryIsUnique`, `DeliveryIsBounded`, `AcknowledgedOnce` and
`MigrationComesFirst` are consequences; `TerminalStatesAreFinal` and
`LeasesAreRespected` are proved from the list of what any step can do to a row
(`RowFate`). `QueueImplementsLifecycle` maps every step to a step of `JobLifecycle` or to
a stutter.

**TelemetrySinkProofs.** `Inv` is `TypeOK /\ ExactlyOnce` with four additions:
where the worker is while it holds a batch and whether that batch is in the table
(`WorkerInv`); that no two handlers divert the same record and that none runs once the
listener is joined (`HandlerInv`), without which a record could be queued after
the worker ended; that the flush inside the sink holds `servers_mutex`
(`ServerInv`), which keeps stop away; and that a waiting flush with records still
queued has its request standing (`FlushInv`). One lemma per action shows that it is
kept. `ExportedCountsRows` needs the cardinality of a disjoint union and is proved beside it.

**RegistryProofs.** `AuthInv`, which is `TypeOK /\ KeysFollowScheme /\ OneSubjectPerKey`, is
inductive as it stands; `AuthAdmissionIsJustified` is an action property proved from it.
Of the routes, `RoutePathsUnique` is kept because the batch is put in one route at a time
and the last of a name is what stays. `RouteRateHolds` bounds what a bucket let pass by the
windows that began since the route was registered, and that needs to be said of every bucket at
every moment: `RateOK` gives each one a number k of windows that are over, with room for
k times the limit, and the count of the running one. A bucket that was purged or has not been
used stands for windows that are over at the present and at the reading of every request that
waits (`Waiting`), so that a stale reading opens no window twice. Where a purge breaks this,
because a delayed request has a reading from before the end of the window, and where a
request on an older definition charges the bucket, the theorem says nothing; the model keeps
these buckets in `mixed`. `InThePast` keeps readings between registration and the present.
`RouteLiveWindowsKept` is an action property proved from `RouteInv`.

**StreamSessionsProofs.** `Inv` says of each worker by itself whether it owns a slot and
has logged at its place in the code (`Sound`), and of the counter that it is the number of
workers that have raised it. Every action moves one worker, so that one lemma (`StepInv`)
does the counting for all: adding or removing one element changes a cardinality by one.
`SlotsCounted` then splits that number into holders and refusals, which are disjoint. The
same lemma gives `SessionsWithinLimit`: a worker that owns a slot found the counter,
which is never below the number of holders, below the limit.

**RequestPipelineProofs.** `RegistryOK` says that registration orders increase along the
registry and are below `next_registration_order`; without it replacement in place could
not keep the order. `RequestOK` says at each place what the request has behind it; its
heart is that `allowed \o todo` (on the way in) and `ran \o todo` (on the way out)
are a snapshot in order that holds every definition in force since the request came in.
The registry only takes definitions out of that set, hence a snapshot of any later moment
holds what is left of it. "No BEFORE middleware" is remembered at the place `lookAfter`. Two lemmas
about `Kept` (it keeps the elements at the positions, and their order) rest on `Nth`
being an enumeration, which is proved from the injection that ranks a finite set.

`RequestsRouted`, `RequestsNegotiated` and `RequestsBound` are about `RequestsAnswered`, the
questions of `Decisions` that concern requests, for every server, header and declaration of
any length; the questions about statements leave those answers alone. `DecisionsInv` says that
an answer is what the code computes for the question, and the rest is about the code's
operators. Routing compares passes over the lists with each other: the
methods an `Allow` header collects are those for which the search finds a handler, and the
limit computed before the body is read is that of the handler the search finds. Negotiation
reads a header token by token; what the loop has found behind each token is the best so far,
shown by taking the least position where it is not (`NatLessThanWellFounded`). For
the values of parameters, `Layered` says of a layer of request values that it holds what the declared sources
allow and the best of the undeclared ones, and each function that puts a layer over another
keeps it (`BeforeRanked`, `PayloadLayered`, `FilledLayered`, `JsonLayered`). Of the type of a
value `DeclarationKept` speaks as the declaration does: a declared type counts if the binder
knows it (`BinderTypes`), else the planner's does.

**PolicyRegistryProofs.** The registry's part of `Inv` is `NoDanglingBinding` with the disjointness of
row and masking policy names. A request's part relates two moments: between its two
snapshots what the history holds is in the first one or in the registry's masks; behind both
it is in one of the two. `Covers` says that a rewritten read has the filter and the masks
its snapshots ask for, and of the read under way that this is true of the masks looked at so far
(`next`). The registry has one row binding for each spelling (`OnePerSpelling`), and so have the
snapshots: if the filter of a read is not the binding held, it is one of another spelling.
`HeldBindingsApplied` follows, since the histories are bounded by the snapshots.
The lemmas about `Kept` are repeated there, so that the module stands by itself.

`HandlersProtected` says that no shape of a handler escapes its policies. `Outcome` is what a
visit of a tree does: it leaves the names in scope as it found them, it stops the rewriting
exactly if the tree holds something alarming under SQL's scoping, and if it does not stop the
tree it leaves is the secured one. `Sound` says so of all trees of a level and all contexts;
it holds of n levels if it holds of n - 1, through the loops over parts and over common table
expressions, whose own names come into scope one by one. Both loops and the levels go by
least counterexample. The rewriter's list of names and the sets of names by which `Seen` reads
a tree are separate definitions; only `InScope` in the proof relates them.

**OutboundHttpProofs.** `DeadlineInherited` alone is not inductive: that a call is under
every guard follows only if the connection's budget is what the innermost guard leaves and
that one is the least. `GuardsOK` says so: guards do not increase inwards and each has found
exactly the one outside, so that restoring the budget keeps it true. Time passes for all
deadlines at once, which keeps the order; the timeout of a call that has not sent its
request stands still, and what it falls behind by is what `late` grows by (`Timely`). `AnsweredOrRaised` needs the cursor (a row behind it was claimed, a
statement that ended without failing has claimed all); `StopHitsOwnCall` needs that an armed
guard belongs to a call that still has its client. `OutboundPoolBounded` adds what no run
checks: the limits of hosts and of idle clients per host, and that no client shut down in
mid-request is idle in the pool.

**SelfDispatchProofs.** `EachRowOnce` fails in two ways, two holders of a row or a second start
after the first, and `RowsOK` excludes both: no two tasks hold a row, a row beyond the cursor
was not begun, and a row that was begun has its receipt or somebody who runs it until the
call is over. The caller runs rows itself when two counters are equal; `TasksCounted` says that they
count started and settled tasks, so no task is left then. `ReservationsBalanced` counts pairs of a
call and a task over all calls; a step that admits or settles one changes the set
by one, and a failed reservation by the rest of its call's.

### Only model-checked
* Liveness (`EveryJobSettles`, `FlushReturns`, `EveryRecordWritten`, `StopCompletes`,
  `ConnectionsServed`, `StopJoins`, `CallReturns`, `FanOutReturns`): fairness and
  `ENABLED` are outside what the prover handles.
* `StatementsUnderstood`: the parser of `CREATE ROUTE` is a set of recursive operators, which
  the prover does not take, and those of groups and policies are folds over their tokens, of
  which a theorem would need induction over data.
* `NothingStartsAfterAbandon` is violated (section 5).

`TypeOK`, `MigratedBeforeUse`, `TerminalIsFinal`, `FlushNeverMeetsShutdown` and
`OneSubjectPerKey` are proved and no longer part of a run.

## 5. Disagreements between code and text

One is a run. `selfdispatch_abandon`: a comment says that after `AbandonExecCall` "no row
or statement starts". `ExecOperation::Step` looks at the flag once and may connect and
submit afterwards, on a connection nobody interrupts; `RunExecRow` looks again under the
mutex.

The others were met while modelling. The models follow the code.

* A replaced route: `quackapi_server.cpp:3512` clears buckets so that a new
  registration inherits no spent window; a request still under way on the old definition
  charges the cleared bucket, which has the same key.
* AFTER middleware: `docs/RESOURCE_LIMITS.md:28` says middleware inherits the request
  budget. When it runs from `finish()` behind the try block, the deadline is no longer
  armed and it gets a whole budget of its own (`quackapi_server.cpp:5718`).
* Cancelled posts: `docs/RESOURCE_LIMITS.md:109` says that the watchdog "shuts down an active
  pooled plain-HTTP POST socket". The watchdog runs the action of a
  guard once (`quackapi_limits.cpp:130`); if the guard is armed and the request not yet
  sent, the stop hits nothing and the call ends by its timeout.
* Policy bindings: `quackapi_state.hpp:205` gives a binding the arity of its policy.
  `CREATE OR REPLACE ROW ACCESS POLICY` with another signature leaves bindings alone; an
  argument without a column keeps its name.
* Row policies of a table: `quackapi_registry.cpp:672` says "One RAP per table". The comparison
  behind it is of spellings, so that a table named with and without its schema can have two;
  a read applies the first binding it finds (`quackapi_policy.cpp:1173`) and drops the others,
  while every mask is applied. `HeldBindingsApplied` allows for that.
* Outer budgets: `docs/RESOURCE_LIMITS.md:120` says that a call's own timeout "never extends the
  outer budget". The timeout is fixed at `quackapi_http_fetch.cpp:488`; the guard at 499 then
  waits for the watchdog's mutex (`quackapi_limits.cpp:88`), which the watchdog may hold for
  as long as another client connects, and the request starts afterwards with the whole
  timeout. `DeadlineInherited` allows for as much as the call was held up.
* Declared types: `quackapi_server.cpp:4984` says "A declared PARAM type is the request contract".
  The types applied there (4987) are fewer than those `CREATE ROUTE` takes
  (`quackapi_ddl.cpp:44`): `UBIGINT`, `UINTEGER`, `USMALLINT`, `UTINYINT`, `DECIMAL` and `NUMERIC`
  leave the planner's type, and because a type is declared the test for text that a cast
  would round is left out as well (5121). With `PARAM x UINTEGER` and a handler of which the
  planner says nothing, `-3` and `1.5` are bound.
* Names of captures: a parameter is compared with the captures of the pattern in its own case
  (`quackapi_server.cpp:2064`), and otherwise without. A parameter with an aliased query source
  and a capture of its name in another case is read from the query.
* A masking expression with `val` in double quotes: the placeholder is replaced between the
  quotes too (`quackapi_policy.cpp:182`), what results is no SQL, and every read of the table
  is refused.
* An explicit JSON `null` under the name of a parameter with an aliased query source
  replaces a valid query value, although body fields fill missing names only
  (`quackapi_server.cpp:4849`, `5073`).
* A multipart file's `<field>_filename` replaces even a path capture of that name.
* Sentences of the grammar at `quackapi_ddl.cpp:305` that are refused: a second BODY clause
  before PARAM, `BODY SCHEMA` or `BODY TYPE` right behind `EMPTY STATUS n`, and a bare source
  keyword of a PARAM with `TIMEOUT` or `WITH` behind it, which is taken for the wire name.
  `STATUS` and `BODY SCHEMA` may be repeated (the last one counts), `TIMEOUT`, `SCHEDULE` and
  `GROUP` may not.
* `CREATE GROUP ... WITH (auth=, ...)` reads an empty value where `auth=)` is an error, and
  anything may follow `UNSET MASKING POLICY`. Commas in column lists are optional.
* A group prefix `/` makes patterns with `//`; the root pattern below a prefix answers with a
  trailing slash only.
* The `Allow` header of a 405 leaves out the POST of a GraphQL mount. The format chosen by
  `Accept` is not named in `Vary`, and neither is `Origin` on a response to an origin that is
  not allowed. A quality for `identity` has no effect.
* `quackapi_queues()` counts rows in its depth that no dequeue would claim
  (`quackapi_queue.cpp:910`); the nack delay is capped, `docs/QUEUE.md:13` gives it as
  base^attempts; a stream can be refused because of another refused request's transient
  unit of the session counter (`quackapi_server.cpp:3651`).

## 6. Not modelled, and why

* Contents: SQL results, JSON, CSV, Arrow, Parquet, GraphQL and OpenAPI
  documents are data that the properties do not tell apart. Whether a body conforms to a
  schema is an input of `ParameterBinding`. Hashes and signatures are equality.
* Generators: GraphQL, OpenAPI, the TABLE API, FROM-X bridges and the batteries produce SQL or
  text from the catalog without state of their own.
* The parsers of statements about queues, streams, middleware, authentication and GraphQL are
  alike to those modelled; what the statements do is modelled.
* The parameter of an `AS $sql` route, which skips the check of its type, and names that
  differ only by white space within a token.
* The engine's own statement timeout, and httpfs requests, which use no pool.
* Start and stop of several servers, signals and the wait loop of `quackapi_extension.cpp`.
* httplib, the task scheduler and DuckDB's transactions are modelled from how the code uses
  them and marked external. Vendored libraries, tests and examples are left out.

## 7. Plan

What would come next:

1. Abstract specifications of `StreamSessions` (a counting semaphore) and of
   `SelfDispatch` (each row answered once), with refinement runs.
2. `ServerLifecycle`: several servers, start, stop and signals, with `StreamSessions` and
   `TelemetrySink` as parts.
3. The parsers as recursive functions of the position in the text, so that
   `StatementsUnderstood` can be proved along the lines of the header loops.
