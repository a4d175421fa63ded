---------------------------- MODULE TelemetrySink ----------------------------
(***************************************************************************)
(* The table access-log sink of one HTTP server (QuackapiTableTelemetrySink *)
(* in src/src/quackapi_server.cpp): request handlers enqueue records, a     *)
(* worker thread appends them to a table in batches and falls back to       *)
(* stderr, quackapi_telemetry_flush() waits for the queue to drain, and     *)
(* quackapi_stop() destroys the server.                                    *)
(*                                                                         *)
(* Each section under the sink's mutex is one step.  The condition variable *)
(* is the set of threads asleep on it: notify_one removes any one of them,  *)
(* so a notification may reach a flusher instead of the worker.             *)
(***************************************************************************)
EXTENDS Integers, FiniteSets

CONSTANTS
  Handlers,    \* accepted connections running HandleRequest
  Flushers,    \* sessions calling quackapi_telemetry_flush()
  Worker,      \* the sink's thread
  Nobody,      \* servers_mutex is free
  MaxRecords,  \* bound on the records logged in a behaviour
  Capacity,    \* QUACKAPI_ACCESS_LOG_QUEUE_CAPACITY
  BatchSize,   \* queue length that wakes the worker (100 in the code)
  MaxDelay     \* longest retry delay (60 s in the code)

ASSUME SinkAssumption ==
  /\ MaxRecords \in Nat
  /\ Capacity \in Nat \ {0}
  /\ BatchSize \in Nat \ {0}
  /\ MaxDelay \in Nat \ {0}
  /\ Worker \notin Flushers
  /\ Nobody \notin Flushers

Records == 1..MaxRecords

VARIABLES
  pending,          \* records queued for the table
  batch,            \* records the worker took and has not disposed of
  table, stderr,    \* records written to the table, and to stderr
  seq,              \* number of records logged so far
  handler,          \* where each handler is: [at, rec]
  worker,           \* where the worker is
  asleep,           \* threads blocked on the condition variable
  stopping, flush_requested, flushing,
  failed,           \* the last write failed
  cooldown,         \* seconds until retry_at
  delay,            \* retry_delay_seconds
  exported_total, overflow_count,
  flusher,          \* where each flush call is
  goal,             \* history: records queued when the flush was called
  servers_mutex,    \* QuackapiState::servers_mutex
  server            \* life of the server that owns the sink

queue  == <<pending, batch, table, stderr, seq>>
retry  == <<failed, cooldown, delay>>
counts == <<exported_total, overflow_count>>
flags  == <<stopping, flush_requested, flushing>>
flush  == <<flusher, goal, servers_mutex>>
vars   == <<queue, handler, worker, asleep, flags, retry, counts, flush, server>>

Idle == [at |-> "idle", rec |-> 0]

\* condition.notify_one(): any one sleeper, none when nobody sleeps.
NotifyOne(sleepers) ==
  IF asleep = {} THEN sleepers = {} ELSE \E t \in asleep : sleepers = asleep \ {t}

\* failed && now() < retry_at
CoolingDown == failed /\ cooldown > 0

-----------------------------------------------------------------------------
(* Request handlers.                                                       *)

\* A connection is taken up while the listener accepts.
Accept(h) ==
  /\ handler[h] = Idle
  /\ server \in {"serving", "detached"}
  /\ handler' = [handler EXCEPT ![h] = [at |-> "busy", rec |-> 0]]
  /\ UNCHANGED <<queue, worker, asleep, flags, retry, counts, flush, server>>

\* The log level filters the record out, or access_log is off.
Unlogged(h) ==
  /\ handler[h].at = "busy"
  /\ handler' = [handler EXCEPT ![h] = Idle]
  /\ UNCHANGED <<queue, worker, asleep, flags, retry, counts, flush, server>>

\* Enqueue, the section under the mutex: queue the record, or leave with it
\* because the table is cooling down or the queue is full.
Enqueue(h) ==
  /\ handler[h].at = "busy"
  /\ seq < MaxRecords
  /\ seq' = seq + 1
  /\ IF CoolingDown \/ Cardinality(pending) >= Capacity
       THEN /\ handler' = [handler EXCEPT ![h] = [at |-> "stderr", rec |-> seq']]
            /\ overflow_count' = overflow_count + (IF CoolingDown THEN 0 ELSE 1)
            /\ UNCHANGED <<pending, asleep>>
       ELSE /\ handler' = [handler EXCEPT ![h] = Idle]
            /\ pending' = pending \cup {seq'}
            /\ IF Cardinality(pending') >= BatchSize
                 THEN NotifyOne(asleep')
                 ELSE UNCHANGED asleep
            /\ UNCHANGED overflow_count
  /\ UNCHANGED <<batch, table, stderr, worker, flags, retry, exported_total, flush, server>>

\* EmitAccessLogStderr, after the mutex is released.
HandlerStderr(h) ==
  /\ handler[h].at = "stderr"
  /\ stderr' = stderr \cup {handler[h].rec}
  /\ handler' = [handler EXCEPT ![h] = Idle]
  /\ UNCHANGED <<pending, batch, table, seq, worker, asleep, flags, retry, counts,
                 flush, server>>

-----------------------------------------------------------------------------
(* The worker thread: Run().                                               *)

Goto(label) == worker' = label

\* The table name does not split: MarkFailed before the loop is entered.
WorkerStart(valid) ==
  /\ worker = "start"
  /\ Goto("wait")
  /\ IF valid
       THEN UNCHANGED retry
       ELSE /\ failed' = TRUE
            /\ cooldown' = delay
            /\ delay' = IF 2 * delay > MaxDelay THEN MaxDelay ELSE 2 * delay
  /\ UNCHANGED <<queue, handler, asleep, flags, counts, flush, server>>

WakePredicate == stopping \/ flush_requested \/ Cardinality(pending) >= BatchSize

\* The rest of the section the worker wakes up in: take everything queued.
Take ==
  /\ batch' = pending
  /\ pending' = {}
  /\ IF pending = {}
       THEN /\ flush_requested' = FALSE
            /\ asleep' = IF flush_requested THEN {} ELSE asleep \ {Worker}
            /\ Goto(IF stopping THEN "exited" ELSE "wait")
            /\ UNCHANGED flushing
       ELSE /\ flushing' = TRUE
            /\ Goto("decide")
            /\ asleep' = asleep \ {Worker}
            /\ UNCHANGED flush_requested

\* wait_for: awake, the worker tests the predicate and sleeps or goes on ...
WorkerWake ==
  /\ worker = "wait"
  /\ Worker \notin asleep
  /\ IF WakePredicate
       THEN Take
       ELSE /\ asleep' = asleep \cup {Worker}
            /\ UNCHANGED <<pending, batch, worker, flush_requested, flushing>>
  /\ UNCHANGED <<table, stderr, seq, handler, stopping, retry, counts, flush, server>>

\* Mutant: wait() instead of wait_for().
WorkerTimeoutNever ==
  /\ worker = "wait"
  /\ WakePredicate
  /\ Take
  /\ UNCHANGED <<table, stderr, seq, handler, stopping, retry, counts, flush, server>>

\* ... and after one second it goes on whatever the predicate says.  The
\* deadline is fixed when the wait begins: waking up does not move it.
WorkerTimeout ==
  /\ worker = "wait"
  /\ Take
  /\ UNCHANGED <<table, stderr, seq, handler, stopping, retry, counts, flush, server>>

\* use_stderr
WorkerDecide ==
  /\ worker = "decide"
  /\ Goto(IF CoolingDown THEN "stderr" ELSE "write")
  /\ UNCHANGED <<queue, handler, asleep, flags, retry, counts, flush, server>>

\* Mutant: the appender commits row by row, so a failure keeps some rows.
FlushBatchRowByRow(ok) ==
  /\ worker = "write"
  /\ IF ok
       THEN table' = table \cup batch /\ Goto("exported")
       ELSE (\E kept \in SUBSET batch : table' = table \cup kept) /\ Goto("failed")
  /\ UNCHANGED <<pending, batch, stderr, seq, handler, asleep, flags, retry, counts,
                 flush, server>>

\* FlushBatch appends the batch in one Flush(), or throws and appends nothing
\* (no such table, no known column, database shutting down).
FlushBatch(ok) ==
  /\ worker = "write"
  /\ IF ok
       THEN table' = table \cup batch /\ Goto("exported")
       ELSE UNCHANGED table /\ Goto("failed")
  /\ UNCHANGED <<pending, batch, stderr, seq, handler, asleep, flags, retry, counts,
                 flush, server>>

MarkExported ==
  /\ worker = "exported"
  /\ exported_total' = exported_total + Cardinality(batch)
  /\ batch' = {}
  /\ Goto("recovered")
  /\ UNCHANGED <<pending, table, stderr, seq, handler, asleep, flags, retry,
                 overflow_count, flush, server>>

MarkRecovered ==
  /\ worker = "recovered"
  /\ failed' = FALSE
  /\ delay' = IF failed THEN 1 ELSE delay
  /\ Goto("finish")
  /\ UNCHANGED <<queue, handler, asleep, flags, cooldown, counts, flush, server>>

MarkFailed ==
  /\ worker = "failed"
  /\ failed' = TRUE
  /\ cooldown' = delay
  /\ delay' = IF 2 * delay > MaxDelay THEN MaxDelay ELSE 2 * delay
  /\ Goto("stderr")
  /\ UNCHANGED <<queue, handler, asleep, flags, counts, flush, server>>

WorkerStderr ==
  /\ worker = "stderr"
  /\ stderr' = stderr \cup batch
  /\ batch' = {}
  /\ Goto("finish")
  /\ UNCHANGED <<pending, table, seq, handler, asleep, flags, retry, counts, flush, server>>

\* Mutants of the closing section: the request is answered although records
\* were queued meanwhile; the sleepers are not told.
WorkerFinishAnswersAlways ==
  /\ worker = "finish"
  /\ flushing' = FALSE
  /\ flush_requested' = FALSE
  /\ asleep' = {}
  /\ Goto("wait")
  /\ UNCHANGED <<queue, handler, stopping, retry, counts, flush, server>>
WorkerFinishSilently ==
  /\ worker = "finish"
  /\ flushing' = FALSE
  /\ flush_requested' = (flush_requested /\ pending # {})
  /\ Goto("wait")
  /\ UNCHANGED <<queue, handler, asleep, stopping, retry, counts, flush, server>>

\* The section that closes an iteration; notify_all wakes every flusher.
WorkerFinish ==
  /\ worker = "finish"
  /\ flushing' = FALSE
  /\ flush_requested' = (flush_requested /\ pending # {})
  /\ asleep' = {}
  /\ Goto("wait")
  /\ UNCHANGED <<queue, handler, stopping, retry, counts, flush, server>>

WorkerStep ==
  \/ \E valid \in BOOLEAN : WorkerStart(valid)
  \/ WorkerWake
  \/ WorkerTimeout
  \/ WorkerDecide
  \/ \E ok \in BOOLEAN : FlushBatch(ok)
  \/ MarkExported
  \/ MarkRecovered
  \/ MarkFailed
  \/ WorkerStderr
  \/ WorkerFinish

-----------------------------------------------------------------------------
(* quackapi_telemetry_flush().                                             *)

FlushCall(f) ==
  /\ flusher[f] = "idle"
  /\ flusher' = [flusher EXCEPT ![f] = "lock"]
  /\ goal' = [goal EXCEPT ![f] = pending \cup (batch \ table)]
  /\ UNCHANGED <<queue, handler, worker, asleep, flags, retry, counts, servers_mutex, server>>

\* FlushTelemetry: the server is looked up under servers_mutex, which stays
\* locked until FlushPending returns; FALSE at once if it was stopped.
FlushTelemetry(f) ==
  /\ flusher[f] = "lock"
  /\ servers_mutex = Nobody
  /\ IF server = "serving"
       THEN flusher' = [flusher EXCEPT ![f] = "enter"] /\ servers_mutex' = f
       ELSE flusher' = [flusher EXCEPT ![f] = "idle"] /\ UNCHANGED servers_mutex
  /\ UNCHANGED <<queue, handler, worker, asleep, flags, retry, counts, goal, server>>

FlushReturn(f) ==
  /\ flusher' = [flusher EXCEPT ![f] = "idle"]
  /\ servers_mutex' = Nobody

\* FlushPending: nothing to wait for, or ask the worker and wait for it.
FlushPending(f) ==
  /\ flusher[f] = "enter"
  /\ IF server = "destroyed" \/ stopping \/ (pending = {} /\ ~flushing)
       THEN /\ FlushReturn(f)
            /\ UNCHANGED <<flush_requested, asleep>>
       ELSE /\ flush_requested' = TRUE
            /\ \E left \in SUBSET asleep : NotifyOne(left) /\ asleep' = left \cup {f}
            /\ flusher' = [flusher EXCEPT ![f] = "waiting"]
            /\ UNCHANGED servers_mutex
  /\ UNCHANGED <<queue, handler, worker, stopping, flushing, retry, counts, goal, server>>

FlushWake(f) ==
  /\ flusher[f] = "waiting"
  /\ f \notin asleep
  /\ IF ~flush_requested /\ ~flushing
       THEN FlushReturn(f) /\ UNCHANGED asleep
       ELSE asleep' = asleep \cup {f} /\ UNCHANGED <<flusher, servers_mutex>>
  /\ UNCHANGED <<queue, handler, worker, flags, retry, counts, goal, server>>

-----------------------------------------------------------------------------
(* quackapi_stop() and the destructor it hands to a detached thread.       *)

\* StopServer: out of the map under servers_mutex, nobody can find it again.
StopServer ==
  /\ server = "serving"
  /\ servers_mutex = Nobody
  /\ server' = "detached"
  /\ UNCHANGED <<queue, handler, worker, asleep, flags, retry, counts, flush>>

\* StopAccepting: no new connection is taken up.
StopAccepting ==
  /\ server = "detached"
  /\ server' = "closing"
  /\ UNCHANGED <<queue, handler, worker, asleep, flags, retry, counts, flush>>

\* Mutant: the listener threads are not joined first.
CloseWithoutJoin ==
  /\ server = "closing"
  /\ server' = "closed"
  /\ UNCHANGED <<queue, handler, worker, asleep, flags, retry, counts, flush>>

\* Close joins the listener threads; they end when every handler has.
Close ==
  /\ server = "closing"
  /\ \A h \in Handlers : handler[h] = Idle
  /\ server' = "closed"
  /\ UNCHANGED <<queue, handler, worker, asleep, flags, retry, counts, flush>>

\* Mutant: the worker is joined without being asked to stop.
ShutdownWithoutFlag ==
  /\ server = "closed"
  /\ server' = "joining"
  /\ NotifyOne(asleep')
  /\ UNCHANGED <<queue, handler, worker, flags, retry, counts, flush>>

\* Flush -> Shutdown: ask the worker to stop, wake it ...
Shutdown ==
  /\ server = "closed"
  /\ server' = "joining"
  /\ stopping' = TRUE
  /\ NotifyOne(asleep')
  /\ UNCHANGED <<queue, handler, worker, flush_requested, flushing, retry, counts, flush>>

\* ... and join it.
JoinWorker ==
  /\ server = "joining"
  /\ worker = "exited"
  /\ server' = "destroyed"
  /\ UNCHANGED <<queue, handler, worker, asleep, flags, retry, counts, flush>>

-----------------------------------------------------------------------------
\* One second passes.
Tick ==
  /\ cooldown > 0
  /\ cooldown' = cooldown - 1
  /\ UNCHANGED <<queue, handler, worker, asleep, flags, failed, delay, counts, flush, server>>

\* The condition variable may wake a thread for no reason.
SpuriousWake(t) ==
  /\ t \in asleep
  /\ asleep' = asleep \ {t}
  /\ UNCHANGED <<queue, handler, worker, flags, retry, counts, flush, server>>

Init ==
  /\ pending = {} /\ batch = {} /\ table = {} /\ stderr = {} /\ seq = 0
  /\ handler = [h \in Handlers |-> Idle]
  /\ worker = "start"
  /\ asleep = {}
  /\ stopping = FALSE /\ flush_requested = FALSE /\ flushing = FALSE
  /\ failed = FALSE /\ cooldown = 0 /\ delay = 1
  /\ exported_total = 0 /\ overflow_count = 0
  /\ flusher = [f \in Flushers |-> "idle"]
  /\ goal = [f \in Flushers |-> {}]
  /\ servers_mutex = Nobody
  /\ server = "serving"

Next ==
  \/ \E h \in Handlers : Accept(h) \/ Unlogged(h) \/ Enqueue(h) \/ HandlerStderr(h)
  \/ WorkerStep
  \/ \E f \in Flushers : FlushCall(f) \/ FlushTelemetry(f) \/ FlushPending(f) \/ FlushWake(f)
  \/ StopServer \/ StopAccepting \/ Close \/ Shutdown \/ JoinWorker
  \/ Tick
  \/ \E t \in asleep : SpuriousWake(t)

Spec == Init /\ [][Next]_vars

\* Threads that can run do run: handlers finish their request, the worker and
\* a flusher inside the sink go on, the destroying thread proceeds, and the
\* second the worker waits runs out.  Nothing is assumed of the mutex, of new
\* calls, of ticks or of spurious wake-ups.
Fairness ==
  /\ \A h \in Handlers : WF_vars(Unlogged(h) \/ Enqueue(h) \/ HandlerStderr(h))
  /\ WF_vars(WorkerStep)
  /\ WF_vars(WorkerTimeout)
  /\ \A f \in Flushers : WF_vars(FlushPending(f) \/ FlushWake(f))
  /\ WF_vars(StopAccepting \/ Close \/ Shutdown \/ JoinWorker)

FairSpec == Spec /\ Fairness

-----------------------------------------------------------------------------
WorkerLabels == {"start", "wait", "decide", "write", "exported", "recovered", "failed",
                 "stderr", "finish", "exited"}

TypeOK ==
  /\ pending \subseteq Records /\ batch \subseteq Records
  /\ table \subseteq Records /\ stderr \subseteq Records
  /\ seq \in 0..MaxRecords
  /\ handler \in [Handlers -> [at : {"idle", "busy", "stderr"}, rec : Records \cup {0}]]
  /\ worker \in WorkerLabels
  /\ asleep \subseteq Flushers \cup {Worker}
  /\ stopping \in BOOLEAN /\ flush_requested \in BOOLEAN /\ flushing \in BOOLEAN
  /\ failed \in BOOLEAN
  /\ cooldown \in 0..MaxDelay
  /\ delay \in 1..MaxDelay
  /\ exported_total \in Nat /\ overflow_count \in Nat
  /\ flusher \in [Flushers -> {"idle", "lock", "enter", "waiting"}]
  /\ goal \in [Flushers -> SUBSET Records]
  /\ servers_mutex \in Flushers \cup {Nobody}
  /\ server \in {"serving", "detached", "closing", "closed", "joining", "destroyed"}

\* Records a handler still has to write to stderr.
Diverted == {handler[h].rec : h \in {g \in Handlers : handler[g].at = "stderr"}}

\* Records the worker has taken and not yet disposed of.
InWork == batch \ table

\* Every record logged is in exactly one place, so none is lost and none is
\* written twice, whatever the table, the flushers and the stop request do.
ExactlyOnce ==
  /\ pending \cup InWork \cup table \cup stderr \cup Diverted = 1..seq
  /\ pending \cap (InWork \cup table \cup stderr \cup Diverted) = {}
  /\ InWork \cap (stderr \cup Diverted) = {}
  /\ table \cap (stderr \cup Diverted) = {}
  /\ stderr \cap Diverted = {}

\* When the server is gone every record has been written somewhere: the
\* listener is joined before the worker is stopped, and the worker empties the
\* queue before it ends.
NothingLostAtStop ==
  server = "destroyed" => table \cup stderr = 1..seq

\* quackapi_telemetry_flush() returns true only when every record queued when
\* it was called, the batch being written included, is out of the sink.
FlushIsComplete ==
  [][\A f \in Flushers :
       (flusher[f] \in {"enter", "waiting"} /\ flusher'[f] = "idle")
       => goal[f] \subseteq table \cup stderr]_vars

\* No flush is inside the sink once it is being taken apart: servers_mutex
\* keeps FlushPending and the destructor of its server apart.
FlushNeverMeetsShutdown ==
  \A f \in Flushers : flusher[f] \in {"enter", "waiting"} => server = "serving" /\ ~stopping

\* exported_total counts the rows of the table, except while the worker is
\* between the write and MarkExported.
ExportedCountsRows ==
  exported_total + (IF worker = "exported" THEN Cardinality(batch) ELSE 0)
    = Cardinality(table)

\* A flush that got past the lookup returns; so no caller of servers_mutex
\* waits for ever behind it.
FlushReturns ==
  \A f \in Flushers : flusher[f] = "enter" ~> flusher[f] = "idle"

\* Every logged record is written in the end, also when the queue never fills
\* and nobody flushes.
EveryRecordWritten ==
  \A r \in Records : r <= seq ~> r \in table \cup stderr

\* A stopped server is destroyed in the end.
StopCompletes ==
  server = "detached" ~> server = "destroyed"
=============================================================================
