------------------------------ MODULE JobQueue ------------------------------
(***************************************************************************)
(* The durable job queue: CREATE/DROP QUEUE, quackapi_enqueue,             *)
(* quackapi_dequeue, quackapi_ack, quackapi_nack and quackapi_renew        *)
(* (src/src/quackapi_queue.cpp).                                           *)
(*                                                                         *)
(* Jobs are rows of the table quackapi_jobs, which survives a restart; the *)
(* queue options live in QuackapiState, which does not.  Every SQL         *)
(* statement is a transaction of its own and one step here; a client call  *)
(* is a sequence of such steps, the delivery calls holding                 *)
(* dequeue_claim_mutex from their first statement to their last.  The      *)
(* clock may tick, another client may step, a statement may fail and the   *)
(* process may die between any two steps.                                  *)
(*                                                                         *)
(* visible_at is kept as the number of ticks until it is reached:          *)
(* visible_at <= now() iff lease = 0.                                      *)
(***************************************************************************)
EXTENDS Integers, FiniteSets

CONSTANTS
  Clients,     \* connections issuing queue calls
  Queues,      \* queue names
  MaxJobs,     \* bound on the job ids handed out by quackapi_job_seq
  Options,     \* option records CREATE QUEUE may be given
  Overrides,   \* max_attempts arguments of quackapi_enqueue (<= 0: none)
  Batches,     \* n arguments of quackapi_dequeue
  LegacyRows,  \* rows an older release may have left in the table
  BackoffCap,  \* longest nack delay (3600 s in the code)
  Nobody       \* the mutex is free

OptionRecord == [max_attempts : Nat \ {0}, visibility : Nat \ {0}, backoff_base : Nat]
NoQueue      == [max_attempts |-> 0, visibility |-> 0, backoff_base |-> 0]

ASSUME ConstantsAssumption ==
  /\ Queues # {}
  /\ MaxJobs \in Nat \ {0}
  /\ BackoffCap \in Nat
  /\ Options \subseteq OptionRecord
  /\ Overrides \subseteq Int
  /\ Batches \subseteq 1..1000
  /\ Nobody \notin Clients

JobIds  == 1..MaxJobs
Status  == {"absent", "pending", "running", "done", "dead"}
NullGen == -1   \* delivery_generation IS NULL, before the column is backfilled

Row == [status       : Status,
        queue        : Queues,
        attempts     : Nat,
        max_attempts : Nat \ {0},
        lease        : Nat,
        gen          : Nat \cup {NullGen}]

\* Older releases counted attempts but had no delivery_generation column.
ASSUME LegacyAssumption ==
  \A r \in LegacyRows : r \in Row /\ r.status # "absent" /\ r.gen = NullGen

VARIABLES
  jobs,      \* the table quackapi_jobs: job id -> row           (durable)
  seq,       \* next value of quackapi_job_seq                   (durable)
  registry,  \* QuackapiState::queues: name -> options           (volatile)
  mutex,     \* QuackapiState::dequeue_claim_mutex
  pc,        \* next statement of each client's call
  op,        \* arguments and locals of each client's call
  held,      \* deliveries each client has been handed: <<id, generation>>
  acked      \* history: deliveries whose quackapi_ack returned true

vars == <<jobs, seq, registry, mutex, pc, op, held, acked>>

-----------------------------------------------------------------------------
\* Statements executed while dequeue_claim_mutex is held.
Critical == {"sweepPending", "sweepRunning", "sweepRetry", "claim",
             "ackUpdate", "nackRead", "nackUpdate", "renewUpdate"}
Labels   == {"idle", "insert", "lock", "ensure", "add"} \cup Critical

Kinds == {"none", "enqueue", "create", "dequeue", "ack", "nack", "renew"}

Op == [kind : Kinds, queue : Queues, opts : OptionRecord \cup {NoQueue},
       n : Nat, id : JobIds \cup {0}, gen : Int, requeue : BOOLEAN,
       or_replace : BOOLEAN, attempts : Nat, max_attempts : Int]

NoOp == [kind |-> "none", queue |-> CHOOSE q \in Queues : TRUE, opts |-> NoQueue,
         n |-> 0, id |-> 0, gen |-> 0, requeue |-> FALSE,
         or_replace |-> FALSE, attempts |-> 0, max_attempts |-> 0]

Registered(q) == registry[q] # NoQueue

\* Claimable by ClaimPendingJobs, whatever the queue.
Ready(r) == r.status = "pending" /\ r.attempts < r.max_attempts /\ r.lease = 0

\* Mutant of Owns: the generation is not compared.
OwnsAnyGeneration(id, q, g) ==
  jobs[id].status = "running" /\ jobs[id].queue = q /\ jobs[id].lease > 0

\* The predicate every delivery transition repeats: status = 'running',
\* the caller's generation, and a lease that has not run out.
Owns(id, q, g) ==
  /\ jobs[id].status = "running"
  /\ jobs[id].queue = q
  /\ jobs[id].gen = g
  /\ jobs[id].lease > 0

\* ORDER BY id LIMIT n
FirstN(S, n) == {j \in S : Cardinality({k \in S : k < j}) < n}

\* Nack delay: base^min(attempts, 6), at most BackoffCap; 0 retries at once.
Backoff(base, attempts) ==
  LET exp  == IF attempts > 6 THEN 6 ELSE attempts
      secs == base ^ exp
  IN  IF base = 0 THEN 0 ELSE IF secs \in 0..BackoffCap THEN secs ELSE BackoffCap

\* The call of client c ends: a value is returned or an exception unwinds it.
\* The lock_guard releases the mutex either way.
Return(c) ==
  /\ pc' = [pc EXCEPT ![c] = "idle"]
  /\ op' = [op EXCEPT ![c] = NoOp]
  /\ mutex' = IF mutex = c THEN Nobody ELSE mutex

Goto(c, label) ==
  /\ pc' = [pc EXCEPT ![c] = label]
  /\ UNCHANGED <<op, mutex>>

\* A call begins: its arguments are bound and its first statement is next.
Call(c, label, args) ==
  /\ pc[c] = "idle"
  /\ pc' = [pc EXCEPT ![c] = label]
  /\ op' = [op EXCEPT ![c] = args]
  /\ UNCHANGED <<jobs, seq, registry, mutex, held, acked>>

-----------------------------------------------------------------------------
\* CREATE [OR REPLACE] QUEUE: EnsureQuackapiJobsTable, then AddQueue.
CreateQueue(c, q, opts, or_replace) ==
  Call(c, "ensure", [NoOp EXCEPT !.kind = "create", !.queue = q, !.opts = opts,
                                 !.or_replace = or_replace])

\* The table, its delivery_generation column and the backfill of NULLs.
EnsureQuackapiJobsTable(c) ==
  /\ pc[c] = "ensure"
  /\ jobs' = [j \in JobIds |-> IF jobs[j].gen = NullGen
                                THEN [jobs[j] EXCEPT !.gen = 0]
                                ELSE jobs[j]]
  /\ Goto(c, "add")
  /\ UNCHANGED <<seq, registry, held, acked>>

\* AddQueue throws on a duplicate unless OR REPLACE was given.
AddQueue(c) ==
  /\ pc[c] = "add"
  /\ registry' = IF ~Registered(op[c].queue) \/ op[c].or_replace
                   THEN [registry EXCEPT ![op[c].queue] = op[c].opts]
                   ELSE registry
  /\ Return(c)
  /\ UNCHANGED <<jobs, seq, held, acked>>

\* DROP QUEUE forgets the options and leaves the job rows alone.
DropQueue(q) ==
  /\ Registered(q)
  /\ registry' = [registry EXCEPT ![q] = NoQueue]
  /\ UNCHANGED <<jobs, seq, mutex, pc, op, held, acked>>

\* quackapi_enqueue: RequireQueue, then one INSERT outside the mutex.
Enqueue(c, q, override) ==
  /\ Registered(q)
  /\ seq \in JobIds   \* MaxJobs bounds the model, not the code
  /\ Call(c, "insert", [NoOp EXCEPT !.kind = "enqueue", !.queue = q,
             !.max_attempts = IF override > 0 THEN override
                                              ELSE registry[q].max_attempts])

EnqueueInsert(c) ==
  /\ pc[c] = "insert"
  /\ seq \in JobIds
  /\ jobs' = [jobs EXCEPT ![seq] =
                [status |-> "pending", queue |-> op[c].queue, attempts |-> 0,
                 max_attempts |-> op[c].max_attempts, lease |-> 0, gen |-> 0]]
  /\ seq' = seq + 1
  /\ Return(c)
  /\ UNCHANGED <<registry, held, acked>>

-----------------------------------------------------------------------------
\* Delivery calls read the queue options first and take the mutex afterwards.
Dequeue(c, q, n) ==
  /\ Registered(q)
  /\ Call(c, "lock", [NoOp EXCEPT !.kind = "dequeue", !.queue = q,
                                  !.opts = registry[q], !.n = n])

Ack(c, q, d) ==
  /\ Registered(q)
  /\ Call(c, "lock", [NoOp EXCEPT !.kind = "ack", !.queue = q,
                                  !.id = d[1], !.gen = d[2]])

Nack(c, q, d, requeue) ==
  /\ Registered(q)
  /\ Call(c, "lock", [NoOp EXCEPT !.kind = "nack", !.queue = q,
                                  !.opts = registry[q], !.requeue = requeue,
                                  !.id = d[1], !.gen = d[2]])

Renew(c, q, d) ==
  /\ Registered(q)
  /\ Call(c, "lock", [NoOp EXCEPT !.kind = "renew", !.queue = q,
                                  !.opts = registry[q],
                                  !.id = d[1], !.gen = d[2]])

FirstStatement(kind) ==
  CASE kind = "dequeue" -> "sweepPending"
    [] kind = "ack"     -> "ackUpdate"
    [] kind = "nack"    -> "nackRead"
    [] OTHER            -> "renewUpdate"

Acquire(c) ==
  /\ pc[c] = "lock"
  /\ mutex = Nobody
  /\ mutex' = c
  /\ pc' = [pc EXCEPT ![c] = FirstStatement(op[c].kind)]
  /\ UNCHANGED <<jobs, seq, registry, op, held, acked>>

\* RecoverExpiredJobs, statement 1: exhausted pending rows of older releases.
SweepPending(c) ==
  /\ pc[c] = "sweepPending"
  /\ jobs' = [j \in JobIds |->
                 IF /\ jobs[j].queue = op[c].queue
                    /\ jobs[j].status = "pending"
                    /\ jobs[j].attempts >= jobs[j].max_attempts
                 THEN [jobs[j] EXCEPT !.status = "dead", !.lease = 0]
                 ELSE jobs[j]]
  /\ Goto(c, "sweepRunning")
  /\ UNCHANGED <<seq, registry, held, acked>>

\* Mutant: timed-out final deliveries are not dead-lettered.
SweepRunningSkipped(c) ==
  /\ pc[c] = "sweepRunning"
  /\ Goto(c, "sweepRetry")
  /\ UNCHANGED <<jobs, seq, registry, held, acked>>

\* Statement 2: a timed-out final delivery is terminal.
SweepRunning(c) ==
  /\ pc[c] = "sweepRunning"
  /\ jobs' = [j \in JobIds |->
                 IF /\ jobs[j].queue = op[c].queue
                    /\ jobs[j].status = "running"
                    /\ jobs[j].lease = 0
                    /\ jobs[j].attempts >= jobs[j].max_attempts
                 THEN [jobs[j] EXCEPT !.status = "dead"]
                 ELSE jobs[j]]
  /\ Goto(c, "sweepRetry")
  /\ UNCHANGED <<seq, registry, held, acked>>

\* Mutant: the sweep takes back deliveries whose lease is still running.
SweepRetryEarly(c) ==
  /\ pc[c] = "sweepRetry"
  /\ jobs' = [j \in JobIds |->
                 IF /\ jobs[j].queue = op[c].queue
                    /\ jobs[j].status = "running"
                    /\ jobs[j].attempts < jobs[j].max_attempts
                 THEN [jobs[j] EXCEPT !.status = "pending", !.lease = 0]
                 ELSE jobs[j]]
  /\ Goto(c, "claim")
  /\ UNCHANGED <<seq, registry, held, acked>>

\* Statement 3: other timed-out deliveries become pending again.
SweepRetry(c) ==
  /\ pc[c] = "sweepRetry"
  /\ jobs' = [j \in JobIds |->
                 IF /\ jobs[j].queue = op[c].queue
                    /\ jobs[j].status = "running"
                    /\ jobs[j].lease = 0
                    /\ jobs[j].attempts < jobs[j].max_attempts
                 THEN [jobs[j] EXCEPT !.status = "pending"]
                 ELSE jobs[j]]
  /\ Goto(c, "claim")
  /\ UNCHANGED <<seq, registry, held, acked>>

ClaimSet(c) ==
  FirstN({j \in JobIds : jobs[j].queue = op[c].queue /\ Ready(jobs[j])}, op[c].n)

\* NULL + 1 is NULL in SQL.
NextGen(g) == IF g = NullGen THEN NullGen ELSE g + 1

\* Mutants of ClaimRow: the generation, or the attempt, is not counted.
ClaimRowSameGeneration(r, visibility) ==
  [r EXCEPT !.status = "running", !.attempts = @ + 1, !.lease = visibility]
ClaimRowUncounted(r, visibility) ==
  [r EXCEPT !.status = "running", !.gen = NextGen(@), !.lease = visibility]

ClaimRow(r, visibility) ==
  [r EXCEPT !.status = "running", !.attempts = @ + 1, !.gen = NextGen(@),
            !.lease = visibility]

\* ClaimPendingJobs.  The claim is committed even when the caller never
\* learns of it (its connection drops before the rows are read).
ClaimPendingJobs(c, received) ==
  /\ pc[c] = "claim"
  /\ jobs' = [j \in JobIds |-> IF j \in ClaimSet(c)
                                THEN ClaimRow(jobs[j], op[c].opts.visibility)
                                ELSE jobs[j]]
  /\ held' = IF received
               THEN [held EXCEPT ![c] = @ \cup {<<j, jobs'[j].gen>> : j \in ClaimSet(c)}]
               ELSE held
  /\ Return(c)
  /\ UNCHANGED <<seq, registry, acked>>

\* AckJob: one conditional UPDATE; false when no row matched.
AckJob(c) ==
  LET o == op[c] IN
  /\ pc[c] = "ackUpdate"
  /\ IF Owns(o.id, o.queue, o.gen)
       THEN /\ jobs' = [jobs EXCEPT ![o.id].status = "done"]
            /\ acked' = acked \cup {<<o.id, o.gen>>}
       ELSE UNCHANGED <<jobs, acked>>
  /\ Return(c)
  /\ UNCHANGED <<seq, registry, held>>

\* NackJob reads attempts under the ownership predicate ...
NackRead(c) ==
  LET o == op[c] IN
  /\ pc[c] = "nackRead"
  /\ IF Owns(o.id, o.queue, o.gen)
       THEN /\ op' = [op EXCEPT ![c] = [o EXCEPT !.attempts = jobs[o.id].attempts,
                                               !.max_attempts = jobs[o.id].max_attempts]]
            /\ pc' = [pc EXCEPT ![c] = "nackUpdate"]
            /\ UNCHANGED mutex
       ELSE Return(c)
  /\ UNCHANGED <<jobs, seq, registry, held, acked>>

NackToDead(o) == ~o.requeue \/ o.attempts >= o.max_attempts

\* Mutant: a requeued job starts over with generation 0.
NackRowGenerationReset(r, o) ==
  IF NackToDead(o)
    THEN [r EXCEPT !.status = "dead", !.lease = 0]
    ELSE [r EXCEPT !.status = "pending", !.gen = 0,
                   !.lease = Backoff(o.opts.backoff_base, o.attempts)]

NackRow(r, o) ==
  IF NackToDead(o)
    THEN [r EXCEPT !.status = "dead", !.lease = 0]
    ELSE [r EXCEPT !.status = "pending",
                   !.lease = Backoff(o.opts.backoff_base, o.attempts)]

\* ... and repeats the predicate in the UPDATE: the lease may have run out.
NackUpdate(c) ==
  LET o == op[c] IN
  /\ pc[c] = "nackUpdate"
  /\ jobs' = IF Owns(o.id, o.queue, o.gen)
               THEN [jobs EXCEPT ![o.id] = NackRow(@, o)]
               ELSE jobs
  /\ Return(c)
  /\ UNCHANGED <<seq, registry, held, acked>>

\* RenewJob: extend the lease of a delivery that is still owned.
RenewJob(c) ==
  LET o == op[c] IN
  /\ pc[c] = "renewUpdate"
  /\ jobs' = IF Owns(o.id, o.queue, o.gen)
               THEN [jobs EXCEPT ![o.id].lease = o.opts.visibility]
               ELSE jobs
  /\ Return(c)
  /\ UNCHANGED <<seq, registry, held, acked>>

-----------------------------------------------------------------------------
\* CheckQuery throws: the statement had no effect, the call ends.  Conflicts
\* of ClaimPendingJobs end here once its eight tries are used up.
StatementError(c) ==
  /\ pc[c] \in {"insert", "ensure"} \cup Critical
  /\ Return(c)
  /\ UNCHANGED <<jobs, seq, registry, held, acked>>

\* The process dies and the database is reopened: the table and what remote
\* workers remember survive, the registry and every call in flight do not.
Crash ==
  /\ registry' = [q \in Queues |-> NoQueue]
  /\ mutex' = Nobody
  /\ pc' = [c \in Clients |-> "idle"]
  /\ op' = [c \in Clients |-> NoOp]
  /\ UNCHANGED <<jobs, seq, held, acked>>

\* The clock advances.
Tick ==
  /\ \E j \in JobIds : jobs[j].lease > 0
  /\ jobs' = [j \in JobIds |-> IF jobs[j].lease > 0
                                THEN [jobs[j] EXCEPT !.lease = @ - 1]
                                ELSE jobs[j]]
  /\ UNCHANGED <<seq, registry, mutex, pc, op, held, acked>>

-----------------------------------------------------------------------------
NoRow == [status |-> "absent", queue |-> CHOOSE q \in Queues : TRUE,
          attempts |-> 0, max_attempts |-> 1, lease |-> 0, gen |-> 0]

Init ==
  /\ \E r \in LegacyRows \cup {NoRow} :
       jobs = [j \in JobIds |-> IF j = 1 THEN r ELSE NoRow]
  /\ seq = IF jobs[1].status # "absent" THEN 2 ELSE 1
  /\ registry = [q \in Queues |-> NoQueue]
  /\ mutex = Nobody
  /\ pc = [c \in Clients |-> "idle"]
  /\ op = [c \in Clients |-> NoOp]
  /\ held = [c \in Clients |-> {}]
  /\ acked = {}

\* What a client may ask for.
DequeueCall(c) == \E q \in Queues, n \in Batches : Dequeue(c, q, n)
EnqueueCall(c) == \E q \in Queues, m \in Overrides : Enqueue(c, q, m)
AckCall(c)     == \E q \in Queues, d \in held[c] : Ack(c, q, d)
NackCall(c)    == \E q \in Queues, d \in held[c], r \in BOOLEAN : Nack(c, q, d, r)
RenewCall(c)   == \E q \in Queues, d \in held[c] : Renew(c, q, d)
CreateCall(c)  == \E q \in Queues, o \in Options, r \in BOOLEAN : CreateQueue(c, q, o, r)
ClaimStep(c)   == \E received \in BOOLEAN : ClaimPendingJobs(c, received)

\* The statements of a delivery call, once the mutex is held.
DeliveryStep(c) ==
  \/ SweepPending(c)
  \/ SweepRunning(c)
  \/ SweepRetry(c)
  \/ ClaimStep(c)
  \/ AckJob(c)
  \/ NackRead(c)
  \/ NackUpdate(c)
  \/ RenewJob(c)

Next ==
  \/ \E c \in Clients :
       \/ CreateCall(c)
       \/ EnsureQuackapiJobsTable(c)
       \/ AddQueue(c)
       \/ EnqueueCall(c)
       \/ EnqueueInsert(c)
       \/ DequeueCall(c)
       \/ AckCall(c)
       \/ NackCall(c)
       \/ RenewCall(c)
       \/ Acquire(c)
       \/ DeliveryStep(c)
       \/ StatementError(c)
  \/ \E q \in Queues : DropQueue(q)
  \/ Crash
  \/ Tick

Spec == Init /\ [][Next]_vars

-----------------------------------------------------------------------------
\* Rows, calls, deliveries and the mutex stay well formed; the mutex is held
\* by exactly the client that is between two statements of a delivery call.
TypeOK ==
  /\ jobs \in [JobIds -> Row]
  /\ seq \in 1..(MaxJobs + 1)
  /\ registry \in [Queues -> OptionRecord \cup {NoQueue}]
  /\ mutex \in Clients \cup {Nobody}
  /\ pc \in [Clients -> Labels]
  /\ op \in [Clients -> Op]
  /\ held \in [Clients -> SUBSET (JobIds \X (Nat \cup {NullGen}))]
  /\ acked \in SUBSET (JobIds \X (Nat \cup {NullGen}))
  /\ \A c \in Clients : pc[c] \in Critical <=> mutex = c

\* quackapi_dequeue never hands the same (job, generation) to two workers,
\* whatever crashes, restarts, errors and lease expiries lie in between.
UniqueDelivery ==
  \A c, d \in Clients : c # d => held[c] \cap held[d] = {}

\* A job is delivered at most max_attempts times, rows inherited from an older
\* release included: the n-th delivery carries generation n.
DeliveriesBounded ==
  \A c \in Clients : \A d \in held[c] : d[2] \in 1..jobs[d[1]].max_attempts

\* quackapi_ack returns true for one delivery of a job only, the latest, and
\* the job stays done from then on.
AckedOnce ==
  \A a \in acked : jobs[a[1]].status = "done" /\ jobs[a[1]].gen = a[2]

\* No call can see a row without a delivery generation: CREATE QUEUE migrates
\* the table before the queue can be found, after every restart anew.
MigratedBeforeUse ==
  (\/ \E q \in Queues : Registered(q)
   \/ \E c \in Clients : pc[c] \notin {"idle", "ensure"})
  => \A j \in JobIds : jobs[j].gen # NullGen

\* Done and dead are final: no sweep, retry or late call brings a job back.
TerminalIsFinal ==
  [][\A j \in JobIds : jobs[j].status \in {"done", "dead"} =>
       /\ jobs'[j].status = jobs[j].status
       /\ jobs'[j].attempts = jobs[j].attempts]_vars

\* A delivery whose lease is running ends only through a call of a worker it
\* was handed to; no sweep and no other worker takes it away.
LeaseRespected ==
  [][\A j \in JobIds :
       (jobs[j].status = "running" /\ jobs[j].lease > 0 /\ jobs'[j].status # "running")
       => \E c \in Clients : /\ mutex = c
                             /\ pc[c] \in {"ackUpdate", "nackUpdate"}
                             /\ <<j, jobs[j].gen>> \in held[c]]_vars

\* The queue implements JobLifecycle: the generation of a row is the number of
\* its deliveries, and the table never shows a transition outside the promised
\* life of a job, whatever statements, errors, crashes and ticks come between.
Lifecycle == INSTANCE JobLifecycle WITH
  Jobs       <- JobIds,
  phase      <- [j \in JobIds |-> jobs[j].status],
  deliveries <- [j \in JobIds |-> IF jobs[j].gen = NullGen THEN 0 ELSE jobs[j].gen],
  limit      <- [j \in JobIds |-> jobs[j].max_attempts],
  receipts   <- acked

ImplementsLifecycle == Lifecycle!AbsSpec
=============================================================================
