------------------------ MODULE TelemetrySinkProofs ------------------------
(***************************************************************************)
(* Safety of the access-log sink for any number of handlers, flushers and  *)
(* records and for any capacity, batch size and retry delay.               *)
(*                                                                         *)
(* The inductive invariant Inv says, besides the properties themselves:    *)
(* where the worker is while it holds a batch and whether that batch is in *)
(* the table (WorkerInv); that no two handlers divert the same record and  *)
(* none runs once the listener is joined (HandlerInv); that servers_mutex  *)
(* is held by the flush inside the sink (ServerInv); and that a waiting    *)
(* flush with records still queued has its request standing (FlushInv).    *)
(***************************************************************************)
EXTENDS TelemetrySink, FiniteSetTheorems, TLAPS

Holding   == {"decide", "write", "exported", "failed", "stderr"}
Iterating == Holding \cup {"recovered", "finish"}

\* The worker's place determines what it holds and what it has announced.
WorkerInv ==
  /\ batch # {} => worker \in Holding
  /\ worker \in Holding \ {"exported"} => batch \cap table = {}
  /\ worker = "exported" => batch \subseteq table
  /\ flushing <=> worker \in Iterating
  /\ worker = "exited" => stopping /\ pending = {} /\ batch = {}

\* Handlers: idle ones hold nothing, diverted records differ.
HandlerInv ==
  /\ \A h \in Handlers : handler[h].at = "idle" => handler[h] = Idle
  /\ \A g, h \in Handlers :
       (handler[g].at = "stderr" /\ handler[h].at = "stderr" /\ handler[g].rec = handler[h].rec)
         => g = h
  /\ server \in {"closed", "joining", "destroyed"} => \A h \in Handlers : handler[h] = Idle

\* The server's life, and who is inside the sink.
ServerInv ==
  /\ stopping <=> server \in {"joining", "destroyed"}
  /\ server = "destroyed" => worker = "exited"
  /\ \A f \in Flushers : flusher[f] \in {"enter", "waiting"} =>
       server = "serving" /\ servers_mutex = f

\* What a flush waits for is known to the sink, and asked for while queued.
FlushInv ==
  \A f \in Flushers :
    /\ goal[f] \subseteq pending \cup InWork \cup table \cup stderr
    /\ flusher[f] = "waiting" /\ goal[f] \cap pending # {} => flush_requested

Inv == TypeOK /\ ExactlyOnce /\ WorkerInv /\ HandlerInv /\ ServerInv /\ FlushInv

\* A connection is taken up: one handler leaves Idle.
LEMMA AcceptInv ==
  ASSUME Inv, NEW h \in Handlers, Accept(h)
  PROVE  Inv'
<1>1. TypeOK'
  BY SinkAssumption DEF Inv, TypeOK, Records, WorkerLabels, Accept, Idle, queue, retry, counts,
       flags, flush
<1>2. ExactlyOnce'
  BY DEF Inv, TypeOK, Records, WorkerInv, HandlerInv, Holding, ExactlyOnce, InWork, Diverted,
       Accept, Idle, queue, retry, counts, flags, flush
<1>3. HandlerInv'
  BY DEF Inv, TypeOK, Records, ExactlyOnce, Diverted, HandlerInv, Accept, Idle, queue, retry,
       counts, flags, flush
<1>4. WorkerInv' /\ ServerInv' /\ FlushInv'
  BY DEF Inv, WorkerInv, ServerInv, FlushInv, InWork, Accept, queue, retry, counts, flags,
       flush
<1> QED
  BY <1>1, <1>2, <1>3, <1>4 DEF Inv

\* A handler ends without a record.
LEMMA UnloggedInv ==
  ASSUME Inv, NEW h \in Handlers, Unlogged(h)
  PROVE  Inv'
<1>1. TypeOK'
  BY SinkAssumption DEF Inv, TypeOK, Records, WorkerLabels, Unlogged, Idle, queue, retry,
       counts, flags, flush
<1>2. ExactlyOnce'
  BY DEF Inv, TypeOK, Records, WorkerInv, HandlerInv, Holding, ExactlyOnce, InWork, Diverted,
       Unlogged, Idle, queue, retry, counts, flags, flush
<1>3. HandlerInv'
  BY DEF Inv, TypeOK, Records, ExactlyOnce, Diverted, HandlerInv, Unlogged, Idle, queue, retry,
       counts, flags, flush
<1>4. WorkerInv' /\ ServerInv' /\ FlushInv'
  BY DEF Inv, WorkerInv, ServerInv, FlushInv, InWork, Unlogged, queue, retry, counts, flags,
       flush
<1> QED
  BY <1>1, <1>2, <1>3, <1>4 DEF Inv

\* The new record is in pending, or diverted by this handler.
LEMMA EnqueueInv ==
  ASSUME Inv, NEW h \in Handlers, Enqueue(h)
  PROVE  Inv'
<1>1. TypeOK'
  <2>1. seq' \in Records /\ seq' = seq + 1
    BY SinkAssumption DEF Inv, TypeOK, Enqueue, Records
  <2>2. pending' \subseteq pending \cup {seq'}
    BY DEF Enqueue
  <2>3. pending' \subseteq Records /\ seq' \in 0..MaxRecords
    BY <2>1, <2>2, SinkAssumption DEF Inv, TypeOK, Records
  <2>4. handler' \in [Handlers -> [at : {"idle", "busy", "stderr"}, rec : Records \cup {0}]]
    BY <2>1 DEF Inv, TypeOK, Enqueue, Idle
  <2>5. asleep' \subseteq asleep
    BY DEF Enqueue, NotifyOne
  <2>6. overflow_count' \in Nat
    BY DEF Inv, TypeOK, Enqueue
  <2> QED
    BY <2>3, <2>4, <2>5, <2>6 DEF Inv, TypeOK, Enqueue, retry, flags, flush
<1>2. ExactlyOnce'
  <2>1. seq \in Nat /\ seq' = seq + 1 /\ 1..seq' = 1..seq \cup {seq'} /\ seq' \notin 1..seq
    BY SinkAssumption DEF Inv, TypeOK, Enqueue
  <2>2. InWork' = InWork /\ table' = table /\ stderr' = stderr
    BY DEF InWork, Enqueue
  <2>3. handler \in [Handlers -> [at : {"idle", "busy", "stderr"}, rec : Records \cup {0}]]
    BY DEF Inv, TypeOK
  <2>4. CASE pending' = pending \cup {seq'} /\ handler' = [handler EXCEPT ![h] = Idle]
    <3>1. Diverted' = Diverted
      BY <2>3, <2>4 DEF Diverted, Enqueue, Idle
    <3> QED
      BY <2>1, <2>2, <2>4, <3>1 DEF Inv, ExactlyOnce
  <2>5. CASE /\ pending' = pending
             /\ handler' = [handler EXCEPT ![h] = [at |-> "stderr", rec |-> seq']]
    <3>1. /\ handler'[h] = [at |-> "stderr", rec |-> seq']
          /\ \A g \in Handlers : g # h => handler'[g] = handler[g]
      BY <2>3, <2>5
    <3>2. handler[h].at = "busy"
      BY DEF Enqueue
    <3>3. Diverted' = Diverted \cup {seq'}
      BY <3>1, <3>2 DEF Diverted
    <3> QED
      BY <2>1, <2>2, <2>5, <3>3 DEF Inv, ExactlyOnce
  <2> QED
    BY <2>4, <2>5 DEF Enqueue
<1>3. WorkerInv'
  <2>1. handler[h] # Idle
    BY DEF Enqueue, Idle
  <2>2. server \notin {"closed", "joining", "destroyed"}
    BY <2>1 DEF Inv, HandlerInv
  <2>3. worker # "exited"
    BY <2>2 DEF Inv, WorkerInv, ServerInv
  <2> QED
    BY <2>3 DEF Inv, WorkerInv, Enqueue, flags
<1>4. HandlerInv'
  BY DEF Inv, TypeOK, Records, ExactlyOnce, Diverted, HandlerInv, Enqueue, NotifyOne,
       CoolingDown, Idle, retry, flags, flush
<1>5. FlushInv'
  BY DEF Inv, TypeOK, Records, ExactlyOnce, WorkerInv, Holding, Diverted, FlushInv, InWork,
       Enqueue, NotifyOne, CoolingDown, Idle, retry, flags, flush
<1>6. ServerInv'
  BY DEF Inv, ServerInv, Enqueue, retry, flags, flush
<1> QED
  BY <1>1, <1>2, <1>3, <1>4, <1>5, <1>6 DEF Inv

\* The diverted record moves to stderr.
LEMMA HandlerStderrInv ==
  ASSUME Inv, NEW h \in Handlers, HandlerStderr(h)
  PROVE  Inv'
<1>1. TypeOK'
  <2>1. handler[h].rec \in 1..seq
    BY DEF Inv, ExactlyOnce, Diverted, HandlerStderr
  <2>2. handler[h].rec \in Records
    BY <2>1, SinkAssumption DEF Inv, TypeOK, Records
  <2>3. stderr' \subseteq Records
    BY <2>2 DEF Inv, TypeOK, HandlerStderr
  <2>4. handler' \in [Handlers -> [at : {"idle", "busy", "stderr"}, rec : Records \cup {0}]]
    BY DEF Inv, TypeOK, HandlerStderr, Idle
  <2> QED
    BY <2>3, <2>4 DEF Inv, TypeOK, HandlerStderr, retry, counts, flags, flush
<1>2. ExactlyOnce'
  BY DEF Inv, TypeOK, Records, WorkerInv, HandlerInv, Holding, ExactlyOnce, InWork, Diverted,
       HandlerStderr, Idle, retry, counts, flags, flush
<1>3. HandlerInv'
  BY DEF Inv, TypeOK, Records, ExactlyOnce, Diverted, HandlerInv, HandlerStderr, Idle, retry,
       counts, flags, flush
<1>4. FlushInv'
  BY DEF Inv, TypeOK, Records, ExactlyOnce, WorkerInv, Holding, Diverted, FlushInv, InWork,
       HandlerStderr, Idle, retry, counts, flags, flush
<1>5. WorkerInv' /\ ServerInv'
  BY DEF Inv, WorkerInv, ServerInv, HandlerStderr, retry, counts, flags, flush
<1> QED
  BY <1>1, <1>2, <1>3, <1>4, <1>5 DEF Inv

\* The worker enters its loop.
LEMMA WorkerStartInv ==
  ASSUME Inv, NEW valid \in BOOLEAN, WorkerStart(valid)
  PROVE  Inv'
<1>1. TypeOK'
  <2>1. worker' \in WorkerLabels
    BY DEF WorkerStart, Goto, WorkerLabels
  <2>2. CASE valid
    <3>1. UNCHANGED retry
      BY <2>2 DEF WorkerStart
    <3> QED
      BY <2>1, <3>1 DEF Inv, TypeOK, WorkerStart, retry, queue, counts, flags, flush
  <2>3. CASE ~valid
    <3>1. /\ failed' = TRUE /\ cooldown' = delay
          /\ delay' = IF 2 * delay > MaxDelay THEN MaxDelay ELSE 2 * delay
      BY <2>3 DEF WorkerStart
    <3>2. delay' \in 1..MaxDelay /\ cooldown' \in 0..MaxDelay
      BY <3>1, SinkAssumption DEF Inv, TypeOK
    <3> QED
      BY <2>1, <3>1, <3>2 DEF Inv, TypeOK, WorkerStart, queue, counts, flags, flush
  <2> QED
    BY <2>2, <2>3
<1>2. WorkerInv'
  BY DEF Inv, TypeOK, ExactlyOnce, InWork, WorkerInv, Holding, Iterating, WorkerStart, Goto,
       queue, retry, counts, flags, flush
<1>3. ServerInv'
  BY DEF Inv, TypeOK, WorkerInv, ServerInv, WorkerStart, Goto, queue, retry, counts, flags,
       flush
<1>4. ExactlyOnce' /\ HandlerInv' /\ FlushInv'
  BY DEF Inv, ExactlyOnce, InWork, Diverted, HandlerInv, FlushInv, WorkerStart, queue, retry,
       counts, flags, flush
<1> QED
  BY <1>1, <1>2, <1>3, <1>4 DEF Inv

\* The worker takes the queue, or sleeps.
LEMMA WorkerWakeInv ==
  ASSUME Inv, WorkerWake
  PROVE  Inv'
<1>1. TypeOK'
  BY SinkAssumption DEF Inv, TypeOK, Records, WorkerLabels, WorkerWake, Take, retry, counts,
       flush, Goto
<1>2. ExactlyOnce'
  BY DEF Inv, TypeOK, Records, WorkerInv, HandlerInv, Holding, ExactlyOnce, InWork, Diverted,
       WorkerWake, Take, retry, counts, flush, Goto
<1>3. WorkerInv'
  BY DEF Inv, TypeOK, ExactlyOnce, InWork, WorkerInv, Holding, Iterating, WorkerWake, Take,
       retry, counts, flush, Goto
<1>4. ServerInv'
  BY DEF Inv, TypeOK, WorkerInv, ServerInv, WorkerWake, Take, retry, counts, flush, Goto
<1>5. FlushInv'
  BY DEF Inv, TypeOK, Records, ExactlyOnce, WorkerInv, Holding, Diverted, FlushInv, InWork,
       WorkerWake, Take, retry, counts, flush, Goto
<1>6. HandlerInv'
  BY DEF Inv, HandlerInv, WorkerWake, retry, counts, flush
<1> QED
  BY <1>1, <1>2, <1>3, <1>4, <1>5, <1>6 DEF Inv

\* The worker takes the queue.
LEMMA WorkerTimeoutInv ==
  ASSUME Inv, WorkerTimeout
  PROVE  Inv'
<1>1. TypeOK'
  BY SinkAssumption DEF Inv, TypeOK, Records, WorkerLabels, WorkerTimeout, Take, retry, counts,
       flush, Goto
<1>2. ExactlyOnce'
  BY DEF Inv, TypeOK, Records, WorkerInv, HandlerInv, Holding, ExactlyOnce, InWork, Diverted,
       WorkerTimeout, Take, retry, counts, flush, Goto
<1>3. WorkerInv'
  BY DEF Inv, TypeOK, ExactlyOnce, InWork, WorkerInv, Holding, Iterating, WorkerTimeout, Take,
       retry, counts, flush, Goto
<1>4. ServerInv'
  BY DEF Inv, TypeOK, WorkerInv, ServerInv, WorkerTimeout, Take, retry, counts, flush, Goto
<1>5. FlushInv'
  BY DEF Inv, TypeOK, Records, ExactlyOnce, WorkerInv, Holding, Diverted, FlushInv, InWork,
       WorkerTimeout, Take, retry, counts, flush, Goto
<1>6. HandlerInv'
  BY DEF Inv, HandlerInv, WorkerTimeout, retry, counts, flush
<1> QED
  BY <1>1, <1>2, <1>3, <1>4, <1>5, <1>6 DEF Inv

\* Table or stderr.
LEMMA WorkerDecideInv ==
  ASSUME Inv, WorkerDecide
  PROVE  Inv'
<1>1. TypeOK'
  BY SinkAssumption DEF Inv, TypeOK, Records, WorkerLabels, WorkerDecide, Goto, CoolingDown,
       queue, retry, counts, flags, flush
<1>2. WorkerInv'
  BY DEF Inv, TypeOK, ExactlyOnce, InWork, WorkerInv, Holding, Iterating, WorkerDecide, Goto,
       CoolingDown, queue, retry, counts, flags, flush
<1>3. ServerInv'
  BY DEF Inv, TypeOK, WorkerInv, ServerInv, WorkerDecide, Goto, CoolingDown, queue, retry,
       counts, flags, flush
<1>4. ExactlyOnce' /\ HandlerInv' /\ FlushInv'
  BY DEF Inv, ExactlyOnce, InWork, Diverted, HandlerInv, FlushInv, WorkerDecide, queue, retry,
       counts, flags, flush
<1> QED
  BY <1>1, <1>2, <1>3, <1>4 DEF Inv

\* The batch enters the table as a whole, or not at all.
LEMMA FlushBatchInv ==
  ASSUME Inv, NEW ok \in BOOLEAN, FlushBatch(ok)
  PROVE  Inv'
<1>1. TypeOK'
  BY SinkAssumption DEF Inv, TypeOK, Records, WorkerLabels, FlushBatch, Goto, retry, counts,
       flags, flush
<1>2. ExactlyOnce'
  BY DEF Inv, TypeOK, Records, WorkerInv, HandlerInv, Holding, ExactlyOnce, InWork, Diverted,
       FlushBatch, Goto, retry, counts, flags, flush
<1>3. WorkerInv'
  BY DEF Inv, TypeOK, ExactlyOnce, InWork, WorkerInv, Holding, Iterating, FlushBatch, Goto,
       retry, counts, flags, flush
<1>4. ServerInv'
  BY DEF Inv, TypeOK, WorkerInv, ServerInv, FlushBatch, Goto, retry, counts, flags, flush
<1>5. FlushInv'
  BY DEF Inv, TypeOK, Records, ExactlyOnce, WorkerInv, Holding, Diverted, FlushInv, InWork,
       FlushBatch, Goto, retry, counts, flags, flush
<1>6. HandlerInv'
  BY DEF Inv, HandlerInv, FlushBatch, retry, counts, flags, flush
<1> QED
  BY <1>1, <1>2, <1>3, <1>4, <1>5, <1>6 DEF Inv

\* The batch, already in the table, is let go.
LEMMA MarkExportedInv ==
  ASSUME Inv, MarkExported
  PROVE  Inv'
<1>1. TypeOK'
  <2>1. IsFiniteSet(Records)
    BY SinkAssumption, FS_Interval DEF Records
  <2>2. Cardinality(batch) \in Nat
    BY <2>1, FS_Subset, FS_CardinalityType DEF Inv, TypeOK
  <2>3. exported_total' \in Nat /\ worker' \in WorkerLabels /\ batch' = {}
    BY <2>2 DEF Inv, TypeOK, MarkExported, Goto, WorkerLabels
  <2> QED
    BY <2>3 DEF Inv, TypeOK, MarkExported, retry, flags, flush
<1>2. ExactlyOnce'
  BY DEF Inv, TypeOK, Records, WorkerInv, HandlerInv, Holding, ExactlyOnce, InWork, Diverted,
       MarkExported, Goto, retry, flags, flush
<1>3. WorkerInv'
  BY DEF Inv, TypeOK, ExactlyOnce, InWork, WorkerInv, Holding, Iterating, MarkExported, Goto,
       retry, flags, flush
<1>4. ServerInv'
  BY DEF Inv, TypeOK, WorkerInv, ServerInv, MarkExported, Goto, retry, flags, flush
<1>5. FlushInv'
  BY DEF Inv, TypeOK, Records, ExactlyOnce, WorkerInv, Holding, Diverted, FlushInv, InWork,
       MarkExported, Goto, retry, flags, flush
<1>6. HandlerInv'
  BY DEF Inv, HandlerInv, MarkExported, retry, flags, flush
<1> QED
  BY <1>1, <1>2, <1>3, <1>4, <1>5, <1>6 DEF Inv

\* The retry delay is reset.
LEMMA MarkRecoveredInv ==
  ASSUME Inv, MarkRecovered
  PROVE  Inv'
<1>1. TypeOK'
  <2>1. delay' = 1 \/ delay' = delay
    BY DEF MarkRecovered
  <2>2. delay' \in 1..MaxDelay
    BY <2>1, SinkAssumption DEF Inv, TypeOK
  <2>3. failed' \in BOOLEAN /\ worker' \in WorkerLabels
    BY DEF MarkRecovered, Goto, WorkerLabels
  <2> QED
    BY <2>2, <2>3 DEF Inv, TypeOK, MarkRecovered, queue, counts, flags, flush
<1>2. WorkerInv'
  BY DEF Inv, TypeOK, ExactlyOnce, InWork, WorkerInv, Holding, Iterating, MarkRecovered, Goto,
       queue, counts, flags, flush
<1>3. ServerInv'
  BY DEF Inv, TypeOK, WorkerInv, ServerInv, MarkRecovered, Goto, queue, counts, flags, flush
<1>4. ExactlyOnce' /\ HandlerInv' /\ FlushInv'
  BY DEF Inv, ExactlyOnce, InWork, Diverted, HandlerInv, FlushInv, MarkRecovered, queue,
       counts, flags, flush
<1> QED
  BY <1>1, <1>2, <1>3, <1>4 DEF Inv

\* The retry delay grows up to MaxDelay.
LEMMA MarkFailedInv ==
  ASSUME Inv, MarkFailed
  PROVE  Inv'
<1>1. TypeOK'
  BY SinkAssumption DEF Inv, TypeOK, Records, WorkerLabels, MarkFailed, Goto, queue, counts,
       flags, flush
<1>2. WorkerInv'
  BY DEF Inv, TypeOK, ExactlyOnce, InWork, WorkerInv, Holding, Iterating, MarkFailed, Goto,
       queue, counts, flags, flush
<1>3. ServerInv'
  BY DEF Inv, TypeOK, WorkerInv, ServerInv, MarkFailed, Goto, queue, counts, flags, flush
<1>4. ExactlyOnce' /\ HandlerInv' /\ FlushInv'
  BY DEF Inv, ExactlyOnce, InWork, Diverted, HandlerInv, FlushInv, MarkFailed, queue, counts,
       flags, flush
<1> QED
  BY <1>1, <1>2, <1>3, <1>4 DEF Inv

\* The batch, not in the table, moves to stderr.
LEMMA WorkerStderrInv ==
  ASSUME Inv, WorkerStderr
  PROVE  Inv'
<1>1. TypeOK'
  BY SinkAssumption DEF Inv, TypeOK, Records, WorkerLabels, WorkerStderr, Goto, retry, counts,
       flags, flush
<1>2. ExactlyOnce'
  BY DEF Inv, TypeOK, Records, WorkerInv, HandlerInv, Holding, ExactlyOnce, InWork, Diverted,
       WorkerStderr, Goto, retry, counts, flags, flush
<1>3. WorkerInv'
  BY DEF Inv, TypeOK, ExactlyOnce, InWork, WorkerInv, Holding, Iterating, WorkerStderr, Goto,
       retry, counts, flags, flush
<1>4. ServerInv'
  BY DEF Inv, TypeOK, WorkerInv, ServerInv, WorkerStderr, Goto, retry, counts, flags, flush
<1>5. FlushInv'
  BY DEF Inv, TypeOK, Records, ExactlyOnce, WorkerInv, Holding, Diverted, FlushInv, InWork,
       WorkerStderr, Goto, retry, counts, flags, flush
<1>6. HandlerInv'
  BY DEF Inv, HandlerInv, WorkerStderr, retry, counts, flags, flush
<1> QED
  BY <1>1, <1>2, <1>3, <1>4, <1>5, <1>6 DEF Inv

\* The request stands only while records are queued.
LEMMA WorkerFinishInv ==
  ASSUME Inv, WorkerFinish
  PROVE  Inv'
<1>1. TypeOK'
  BY SinkAssumption DEF Inv, TypeOK, Records, WorkerLabels, WorkerFinish, Goto, queue, retry,
       counts, flush
<1>2. WorkerInv'
  BY DEF Inv, TypeOK, ExactlyOnce, InWork, WorkerInv, Holding, Iterating, WorkerFinish, Goto,
       queue, retry, counts, flush
<1>3. ServerInv'
  BY DEF Inv, TypeOK, WorkerInv, ServerInv, WorkerFinish, Goto, queue, retry, counts, flush
<1>4. FlushInv'
  BY DEF Inv, TypeOK, Records, ExactlyOnce, WorkerInv, Holding, Diverted, FlushInv, InWork,
       WorkerFinish, Goto, queue, retry, counts, flush
<1>5. ExactlyOnce' /\ HandlerInv'
  BY DEF Inv, ExactlyOnce, InWork, Diverted, HandlerInv, WorkerFinish, queue, retry, counts,
       flush
<1> QED
  BY <1>1, <1>2, <1>3, <1>4, <1>5 DEF Inv

\* What the call waits for is fixed.
LEMMA FlushCallInv ==
  ASSUME Inv, NEW f \in Flushers, FlushCall(f)
  PROVE  Inv'
<1>1. TypeOK'
  BY SinkAssumption DEF Inv, TypeOK, Records, WorkerLabels, FlushCall, queue, retry, counts,
       flags
<1>2. ServerInv'
  BY DEF Inv, TypeOK, WorkerInv, ServerInv, FlushCall, queue, retry, counts, flags
<1>3. FlushInv'
  BY DEF Inv, TypeOK, Records, ExactlyOnce, WorkerInv, Holding, Diverted, FlushInv, InWork,
       FlushCall, queue, retry, counts, flags
<1>4. ExactlyOnce' /\ WorkerInv' /\ HandlerInv'
  BY DEF Inv, ExactlyOnce, InWork, Diverted, WorkerInv, HandlerInv, FlushCall, queue, retry,
       counts, flags
<1> QED
  BY <1>1, <1>2, <1>3, <1>4 DEF Inv

\* The caller enters the sink holding servers_mutex.
LEMMA FlushTelemetryInv ==
  ASSUME Inv, NEW f \in Flushers, FlushTelemetry(f)
  PROVE  Inv'
<1>1. TypeOK'
  BY SinkAssumption DEF Inv, TypeOK, Records, WorkerLabels, FlushTelemetry, queue, retry,
       counts, flags
<1>2. ServerInv'
  BY SinkAssumption DEF Inv, TypeOK, ServerInv, FlushTelemetry, flags
<1>3. FlushInv'
  BY DEF Inv, TypeOK, Records, ExactlyOnce, WorkerInv, Holding, Diverted, FlushInv, InWork,
       FlushTelemetry, queue, retry, counts, flags
<1>4. ExactlyOnce' /\ WorkerInv' /\ HandlerInv'
  BY DEF Inv, ExactlyOnce, InWork, Diverted, WorkerInv, HandlerInv, FlushTelemetry, queue,
       retry, counts, flags
<1> QED
  BY <1>1, <1>2, <1>3, <1>4 DEF Inv

\* The request is made, or the call returns.
LEMMA FlushPendingInv ==
  ASSUME Inv, NEW f \in Flushers, FlushPending(f)
  PROVE  Inv'
<1>1. TypeOK'
  BY SinkAssumption DEF Inv, TypeOK, Records, WorkerLabels, FlushPending, FlushReturn,
       NotifyOne, queue, retry, counts
<1>2. ServerInv'
  BY DEF Inv, TypeOK, WorkerInv, ServerInv, FlushPending, FlushReturn, NotifyOne, queue, retry,
       counts
<1>3. FlushInv'
  BY DEF Inv, TypeOK, Records, ExactlyOnce, WorkerInv, Holding, Diverted, FlushInv, InWork,
       FlushPending, FlushReturn, NotifyOne, queue, retry, counts
<1>4. ExactlyOnce' /\ WorkerInv' /\ HandlerInv'
  BY DEF Inv, ExactlyOnce, InWork, Diverted, WorkerInv, HandlerInv, FlushPending, queue, retry,
       counts
<1> QED
  BY <1>1, <1>2, <1>3, <1>4 DEF Inv

\* The call returns, or sleeps again.
LEMMA FlushWakeInv ==
  ASSUME Inv, NEW f \in Flushers, FlushWake(f)
  PROVE  Inv'
<1>1. TypeOK'
  BY SinkAssumption DEF Inv, TypeOK, Records, WorkerLabels, FlushWake, FlushReturn, queue,
       retry, counts, flags
<1>2. ServerInv'
  BY DEF Inv, TypeOK, WorkerInv, ServerInv, FlushWake, FlushReturn, queue, retry, counts, flags
<1>3. FlushInv'
  BY DEF Inv, TypeOK, Records, ExactlyOnce, WorkerInv, Holding, Diverted, FlushInv, InWork,
       FlushWake, FlushReturn, queue, retry, counts, flags
<1>4. ExactlyOnce' /\ WorkerInv' /\ HandlerInv'
  BY DEF Inv, ExactlyOnce, InWork, Diverted, WorkerInv, HandlerInv, FlushWake, queue, retry,
       counts, flags
<1> QED
  BY <1>1, <1>2, <1>3, <1>4 DEF Inv

\* No flush is inside when the server leaves the map.
LEMMA StopServerInv ==
  ASSUME Inv, StopServer
  PROVE  Inv'
<1>1. TypeOK'
  BY SinkAssumption DEF Inv, TypeOK, Records, WorkerLabels, StopServer, queue, retry, counts,
       flags, flush
<1>2. HandlerInv'
  BY DEF Inv, TypeOK, Records, ExactlyOnce, Diverted, HandlerInv, StopServer, queue, retry,
       counts, flags, flush
<1>3. ServerInv'
  BY SinkAssumption DEF Inv, TypeOK, ServerInv, StopServer, flags, flush
<1>4. ExactlyOnce' /\ WorkerInv' /\ FlushInv'
  BY DEF Inv, ExactlyOnce, InWork, Diverted, WorkerInv, FlushInv, StopServer, queue, retry,
       counts, flags, flush
<1> QED
  BY <1>1, <1>2, <1>3, <1>4 DEF Inv

\* No new handlers.
LEMMA StopAcceptingInv ==
  ASSUME Inv, StopAccepting
  PROVE  Inv'
<1>1. TypeOK'
  BY SinkAssumption DEF Inv, TypeOK, Records, WorkerLabels, StopAccepting, queue, retry,
       counts, flags, flush
<1>2. HandlerInv'
  BY DEF Inv, TypeOK, Records, ExactlyOnce, Diverted, HandlerInv, StopAccepting, queue, retry,
       counts, flags, flush
<1>3. ServerInv'
  BY DEF Inv, TypeOK, WorkerInv, ServerInv, StopAccepting, queue, retry, counts, flags, flush
<1>4. ExactlyOnce' /\ WorkerInv' /\ FlushInv'
  BY DEF Inv, ExactlyOnce, InWork, Diverted, WorkerInv, FlushInv, StopAccepting, queue, retry,
       counts, flags, flush
<1> QED
  BY <1>1, <1>2, <1>3, <1>4 DEF Inv

\* All handlers have ended.
LEMMA CloseInv ==
  ASSUME Inv, Close
  PROVE  Inv'
<1>1. TypeOK'
  BY SinkAssumption DEF Inv, TypeOK, Records, WorkerLabels, Close, Idle, queue, retry, counts,
       flags, flush
<1>2. HandlerInv'
  BY DEF Inv, TypeOK, Records, ExactlyOnce, Diverted, HandlerInv, Close, Idle, queue, retry,
       counts, flags, flush
<1>3. ServerInv'
  BY DEF Inv, TypeOK, WorkerInv, ServerInv, Close, Idle, queue, retry, counts, flags, flush
<1>4. ExactlyOnce' /\ WorkerInv' /\ FlushInv'
  BY DEF Inv, ExactlyOnce, InWork, Diverted, WorkerInv, FlushInv, Close, queue, retry, counts,
       flags, flush
<1> QED
  BY <1>1, <1>2, <1>3, <1>4 DEF Inv

\* The worker is asked to stop.
LEMMA ShutdownInv ==
  ASSUME Inv, Shutdown
  PROVE  Inv'
<1>1. TypeOK'
  BY SinkAssumption DEF Inv, TypeOK, Records, WorkerLabels, Shutdown, NotifyOne, queue, retry,
       counts, flush
<1>2. WorkerInv'
  BY DEF Inv, TypeOK, ExactlyOnce, InWork, WorkerInv, Holding, Iterating, Shutdown, NotifyOne,
       queue, retry, counts, flush
<1>3. HandlerInv'
  BY DEF Inv, TypeOK, Records, ExactlyOnce, Diverted, HandlerInv, Shutdown, NotifyOne, queue,
       retry, counts, flush
<1>4. ServerInv'
  BY DEF Inv, TypeOK, WorkerInv, ServerInv, Shutdown, NotifyOne, queue, retry, counts, flush
<1>5. ExactlyOnce' /\ FlushInv'
  BY DEF Inv, ExactlyOnce, InWork, Diverted, FlushInv, Shutdown, queue, retry, counts, flush
<1> QED
  BY <1>1, <1>2, <1>3, <1>4, <1>5 DEF Inv

\* The worker has ended.
LEMMA JoinWorkerInv ==
  ASSUME Inv, JoinWorker
  PROVE  Inv'
<1>1. TypeOK'
  BY SinkAssumption DEF Inv, TypeOK, Records, WorkerLabels, JoinWorker, queue, retry, counts,
       flags, flush
<1>2. HandlerInv'
  BY DEF Inv, TypeOK, Records, ExactlyOnce, Diverted, HandlerInv, JoinWorker, queue, retry,
       counts, flags, flush
<1>3. ServerInv'
  BY DEF Inv, TypeOK, WorkerInv, ServerInv, JoinWorker, queue, retry, counts, flags, flush
<1>4. ExactlyOnce' /\ WorkerInv' /\ FlushInv'
  BY DEF Inv, ExactlyOnce, InWork, Diverted, WorkerInv, FlushInv, JoinWorker, queue, retry,
       counts, flags, flush
<1> QED
  BY <1>1, <1>2, <1>3, <1>4 DEF Inv

\* Time passes.
LEMMA TickInv ==
  ASSUME Inv, Tick
  PROVE  Inv'
<1>1. TypeOK'
  BY SinkAssumption DEF Inv, TypeOK, Records, WorkerLabels, Tick, queue, counts, flags, flush
<1>2. ExactlyOnce' /\ WorkerInv' /\ HandlerInv' /\ ServerInv' /\ FlushInv'
  BY DEF Inv, ExactlyOnce, InWork, Diverted, WorkerInv, HandlerInv, ServerInv, FlushInv, Tick,
       queue, counts, flags, flush
<1> QED
  BY <1>1, <1>2 DEF Inv

\* A sleeper wakes up.
LEMMA SpuriousWakeInv ==
  ASSUME Inv, NEW t \in asleep, SpuriousWake(t)
  PROVE  Inv'
<1>1. TypeOK'
  BY SinkAssumption DEF Inv, TypeOK, Records, WorkerLabels, SpuriousWake, queue, retry, counts,
       flags, flush
<1>2. ExactlyOnce' /\ WorkerInv' /\ HandlerInv' /\ ServerInv' /\ FlushInv'
  BY DEF Inv, ExactlyOnce, InWork, Diverted, WorkerInv, HandlerInv, ServerInv, FlushInv,
       SpuriousWake, queue, retry, counts, flags, flush
<1> QED
  BY <1>1, <1>2 DEF Inv

\* The sink starts empty.
LEMMA InitInv == Init => Inv
<1> SUFFICES ASSUME Init PROVE Inv
  OBVIOUS
<1>1. TypeOK
  <2>1. 0 \in 0..MaxRecords /\ 0 \in 0..MaxDelay /\ 1 \in 1..MaxDelay
    BY SinkAssumption
  <2>2. handler \in [Handlers -> [at : {"idle", "busy", "stderr"}, rec : Records \cup {0}]]
    BY DEF Init, Idle
  <2> QED
    BY <2>1, <2>2 DEF Init, TypeOK, WorkerLabels
<1>2. ExactlyOnce
  BY DEF Init, ExactlyOnce, InWork, Diverted, Idle
<1>3. WorkerInv /\ HandlerInv /\ ServerInv /\ FlushInv
  BY DEF Init, WorkerInv, Holding, Iterating, HandlerInv, ServerInv, FlushInv, Idle
<1> QED
  BY <1>1, <1>2, <1>3 DEF Inv

\* Every step preserves the invariant.
LEMMA NextInv == Inv /\ [Next]_vars => Inv'
<1> SUFFICES ASSUME Inv, [Next]_vars PROVE Inv'
  OBVIOUS
<1>1. ASSUME NEW h \in Handlers, Accept(h) PROVE Inv'
  BY <1>1, AcceptInv
<1>2. ASSUME NEW h \in Handlers, Unlogged(h) PROVE Inv'
  BY <1>2, UnloggedInv
<1>3. ASSUME NEW h \in Handlers, Enqueue(h) PROVE Inv'
  BY <1>3, EnqueueInv
<1>4. ASSUME NEW h \in Handlers, HandlerStderr(h) PROVE Inv'
  BY <1>4, HandlerStderrInv
<1>5. ASSUME NEW valid \in BOOLEAN, WorkerStart(valid) PROVE Inv'
  BY <1>5, WorkerStartInv
<1>6. CASE WorkerWake
  BY <1>6, WorkerWakeInv
<1>7. CASE WorkerTimeout
  BY <1>7, WorkerTimeoutInv
<1>8. CASE WorkerDecide
  BY <1>8, WorkerDecideInv
<1>9. ASSUME NEW ok \in BOOLEAN, FlushBatch(ok) PROVE Inv'
  BY <1>9, FlushBatchInv
<1>10. CASE MarkExported
  BY <1>10, MarkExportedInv
<1>11. CASE MarkRecovered
  BY <1>11, MarkRecoveredInv
<1>12. CASE MarkFailed
  BY <1>12, MarkFailedInv
<1>13. CASE WorkerStderr
  BY <1>13, WorkerStderrInv
<1>14. CASE WorkerFinish
  BY <1>14, WorkerFinishInv
<1>15. ASSUME NEW f \in Flushers, FlushCall(f) PROVE Inv'
  BY <1>15, FlushCallInv
<1>16. ASSUME NEW f \in Flushers, FlushTelemetry(f) PROVE Inv'
  BY <1>16, FlushTelemetryInv
<1>17. ASSUME NEW f \in Flushers, FlushPending(f) PROVE Inv'
  BY <1>17, FlushPendingInv
<1>18. ASSUME NEW f \in Flushers, FlushWake(f) PROVE Inv'
  BY <1>18, FlushWakeInv
<1>19. CASE StopServer
  BY <1>19, StopServerInv
<1>20. CASE StopAccepting
  BY <1>20, StopAcceptingInv
<1>21. CASE Close
  BY <1>21, CloseInv
<1>22. CASE Shutdown
  BY <1>22, ShutdownInv
<1>23. CASE JoinWorker
  BY <1>23, JoinWorkerInv
<1>24. CASE Tick
  BY <1>24, TickInv
<1>25. ASSUME NEW t \in asleep, SpuriousWake(t) PROVE Inv'
  BY <1>25, SpuriousWakeInv
<1>26. CASE UNCHANGED vars
  BY <1>26 DEF vars, queue, flags, retry, counts, flush, Inv, TypeOK, ExactlyOnce, InWork,
       Diverted,
       WorkerInv, HandlerInv, ServerInv, FlushInv
<1> QED
  BY <1>1, <1>2, <1>3, <1>4, <1>5, <1>6, <1>7, <1>8, <1>9, <1>10, <1>11, <1>12, <1>13, <1>14,
       <1>15, <1>16, <1>17, <1>18, <1>19, <1>20, <1>21, <1>22, <1>23, <1>24, <1>25, <1>26
     DEF Next, WorkerStep

\* The state of the sink is well formed; the retry delay stays within its bounds.
THEOREM SinkTypeOK == Spec => []TypeOK
<1>1. Inv => TypeOK
  BY DEF Inv
<1> QED
  BY <1>1, InitInv, NextInv, PTL DEF Spec

\* Every record logged is in exactly one place: none is lost between the queue,
\* the batch, the table and stderr, and none is written twice.
THEOREM SinkExactlyOnce == Spec => []ExactlyOnce
<1>1. Inv => ExactlyOnce
  BY DEF Inv
<1> QED
  BY <1>1, InitInv, NextInv, PTL DEF Spec

\* When the destructor has joined the worker, every record logged is written.
THEOREM SinkNothingLostAtStop == Spec => []NothingLostAtStop
<1>1. Inv => NothingLostAtStop
  BY DEF Inv, TypeOK, ExactlyOnce, InWork, Diverted, WorkerInv, HandlerInv, ServerInv,
       NothingLostAtStop, Idle
<1> QED
  BY <1>1, InitInv, NextInv, PTL DEF Spec

\* No flush is inside the sink while the destructor takes it apart.
THEOREM SinkFlushNeverMeetsShutdown == Spec => []FlushNeverMeetsShutdown
<1>1. Inv => FlushNeverMeetsShutdown
  BY DEF Inv, ServerInv, FlushNeverMeetsShutdown
<1> QED
  BY <1>1, InitInv, NextInv, PTL DEF Spec

\* A flush returns from the sink only when what it waited for is written.
LEMMA FlushStep ==
  ASSUME Inv, [Next]_vars, NEW f \in Flushers,
         flusher[f] \in {"enter", "waiting"}, flusher'[f] = "idle"
  PROVE  goal[f] \subseteq table \cup stderr
<1>1. flusher' # flusher
  OBVIOUS
<1>2. PICK g \in Flushers : FlushCall(g) \/ FlushTelemetry(g) \/ FlushPending(g) \/ FlushWake(g)
  BY <1>1 DEF Next, WorkerStep, vars, flush, Accept, Unlogged, Enqueue, HandlerStderr,
       WorkerStart, WorkerWake, WorkerTimeout, WorkerDecide, FlushBatch, MarkExported,
       MarkRecovered, MarkFailed, WorkerStderr, WorkerFinish, StopServer, StopAccepting, Close,
       Shutdown, JoinWorker, Tick, SpuriousWake
<1>3. g = f
  BY <1>2 DEF Inv, TypeOK, FlushCall, FlushTelemetry, FlushPending, FlushWake, FlushReturn
<1>4. FlushPending(f) \/ FlushWake(f)
  BY <1>2, <1>3 DEF FlushCall, FlushTelemetry
<1>5. server = "serving" /\ ~stopping
  BY DEF Inv, ServerInv
<1>6. ~flushing /\ goal[f] \cap pending = {}
  <2>1. CASE FlushPending(f)
    BY <2>1, <1>5 DEF FlushPending, Inv, TypeOK
  <2>2. CASE FlushWake(f)
    BY <2>2 DEF FlushWake, Inv, TypeOK, FlushInv
  <2> QED
    BY <1>4, <2>1, <2>2
<1>7. batch = {}
  BY <1>6 DEF Inv, WorkerInv, Iterating
<1> QED
  BY <1>6, <1>7 DEF Inv, FlushInv, InWork

\* quackapi_telemetry_flush() returns true only when every record queued when it
\* was called is out of the sink, whatever other flushes and handlers do.
THEOREM SinkFlushIsComplete == Spec => FlushIsComplete
<1>1. Inv /\ [Next]_vars =>
        [\A f \in Flushers :
           (flusher[f] \in {"enter", "waiting"} /\ flusher'[f] = "idle")
           => goal[f] \subseteq table \cup stderr]_vars
  BY FlushStep
<1> QED
  BY <1>1, InitInv, NextInv, PTL DEF Spec, FlushIsComplete

\* The counter and the table grow by the same batch.
LEMMA ExportedStep ==
  ASSUME Inv, ExportedCountsRows, [Next]_vars
  PROVE  ExportedCountsRows'
<1>1. IsFiniteSet(batch) /\ IsFiniteSet(table)
  <2>1. IsFiniteSet(Records)
    BY SinkAssumption, FS_Interval DEF Records
  <2> QED
    BY <2>1, FS_Subset DEF Inv, TypeOK
<1>2. Cardinality(batch) \in Nat /\ Cardinality(table) \in Nat /\ exported_total \in Nat
  BY <1>1, FS_CardinalityType DEF Inv, TypeOK
<1>3. ASSUME NEW ok \in BOOLEAN, FlushBatch(ok) PROVE ExportedCountsRows'
  <2>1. worker = "write" /\ exported_total' = exported_total /\ batch' = batch
    BY <1>3 DEF FlushBatch, counts
  <2>2. batch \cap table = {}
    BY <2>1 DEF Inv, WorkerInv, Holding
  <2>3. Cardinality(table \cup batch) = Cardinality(table) + Cardinality(batch)
    <3>1. Cardinality(table \cup batch) =
            Cardinality(table) + Cardinality(batch) - Cardinality(table \cap batch)
      BY <1>1, FS_Union
    <3>2. Cardinality(table \cap batch) = 0
      BY <2>2, FS_EmptySet
    <3> QED
      BY <1>2, <3>1, <3>2
  <2>4. \/ worker' = "exported" /\ table' = table \cup batch
        \/ worker' = "failed" /\ table' = table
    BY <1>3 DEF FlushBatch, Goto
  <2> QED
    BY <1>2, <2>1, <2>3, <2>4 DEF ExportedCountsRows
<1>4. CASE MarkExported
  BY <1>2, <1>4 DEF MarkExported, Goto, ExportedCountsRows
<1>5. CASE ~MarkExported /\ \A ok \in BOOLEAN : ~FlushBatch(ok)
  <2>1. /\ exported_total' = exported_total /\ table' = table
        /\ worker # "exported" \/ worker' = worker
        /\ worker' = "exported" => worker' = worker /\ batch' = batch
    BY <1>5
       DEF Next, WorkerStep, vars, queue, counts, Goto, Take, Inv, WorkerInv, Holding,
         Accept, Unlogged, Enqueue, HandlerStderr, WorkerStart, WorkerWake, WorkerTimeout, WorkerDecide,
         MarkRecovered, MarkFailed, WorkerStderr, WorkerFinish, FlushCall, FlushTelemetry,
         FlushPending, FlushWake,
         StopServer, StopAccepting, Close, Shutdown, JoinWorker, Tick, SpuriousWake
  <2> QED
    BY <1>2, <2>1 DEF ExportedCountsRows
<1> QED
  BY <1>3, <1>4, <1>5

\* exported_total, which quackapi_servers() reports, is the number of rows in the
\* table, except between the write and MarkExported.
THEOREM SinkExportedCountsRows == Spec => []ExportedCountsRows
<1>1. Init => ExportedCountsRows
  BY FS_EmptySet DEF Init, ExportedCountsRows
<1> QED
  BY <1>1, ExportedStep, InitInv, NextInv, PTL DEF Spec
=============================================================================
