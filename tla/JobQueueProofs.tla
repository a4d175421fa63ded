--------------------------- MODULE JobQueueProofs ---------------------------
(***************************************************************************)
(* Proofs about the durable job queue, for any number of clients, queues   *)
(* and jobs.  Inv is the inductive strengthening of the invariants that    *)
(* the TLC runs check; ImplementsLifecycle follows from it.                *)
(***************************************************************************)
EXTENDS JobQueue, TLAPS

\* The arguments a call carries are the ones its next statement needs.
CallOK(c) ==
  /\ pc[c] = "insert" => op[c].max_attempts > 0
  /\ pc[c] \in {"ensure", "add"} => op[c].opts \in OptionRecord
  /\ pc[c] = "lock" => op[c].kind \in {"dequeue", "ack", "nack", "renew"}
  /\ pc[c] \in {"sweepPending", "sweepRunning", "sweepRetry", "claim"} => op[c].kind = "dequeue"
  /\ pc[c] = "ackUpdate" => op[c].kind = "ack"
  /\ pc[c] \in {"nackRead", "nackUpdate"} => op[c].kind = "nack"
  /\ pc[c] = "renewUpdate" => op[c].kind = "renew"
  /\ op[c].kind \in {"dequeue", "nack", "renew"} => op[c].opts \in OptionRecord
  /\ op[c].kind \in {"ack", "nack", "renew"} => <<op[c].id, op[c].gen>> \in held[c]

CallsOK == \A c \in Clients : CallOK(c)

-----------------------------------------------------------------------------
\* The retry delay is a number of seconds, at most BackoffCap.
LEMMA BackoffType ==
  ASSUME NEW b, NEW a
  PROVE  Backoff(b, a) \in Nat
BY ConstantsAssumption DEF Backoff

LEMMA NoOpType == NoOp \in Op /\ NoOp.kind = "none"
<1>1. (CHOOSE q \in Queues : TRUE) \in Queues
  BY ConstantsAssumption
<1>. QED  BY <1>1, ConstantsAssumption DEF NoOp, Op, Kinds, NoQueue, JobIds

LEMMA NoRowType == NoRow \in Row
<1>1. (CHOOSE q \in Queues : TRUE) \in Queues
  BY ConstantsAssumption
<1>. QED  BY <1>1 DEF NoRow, Row, Status

\* A call that returns leaves the client idle, without arguments and without
\* the mutex.
LEMMA ReturnOK ==
  ASSUME TypeOK, CallsOK, NEW c \in Clients, Return(c),
         jobs' \in [JobIds -> Row], seq' \in 1..(MaxJobs + 1),
         registry' \in [Queues -> OptionRecord \cup {NoQueue}],
         held' \in [Clients -> SUBSET (JobIds \X (Nat \cup {NullGen}))],
         acked' \in SUBSET (JobIds \X (Nat \cup {NullGen})),
         \A d \in Clients \ {c} : held'[d] = held[d]
  PROVE  TypeOK' /\ CallsOK'
<1>1. pc' \in [Clients -> Labels] /\ op' \in [Clients -> Op] /\ mutex' \in Clients \cup {Nobody}
  BY NoOpType DEF TypeOK, Return, Labels
<1>2. \A d \in Clients : pc'[d] \in Critical <=> mutex' = d
  BY ConstantsAssumption DEF TypeOK, Return, Critical
<1>3. TypeOK'
  BY <1>1, <1>2 DEF TypeOK
<1>4. ASSUME NEW d \in Clients  PROVE CallOK(d)'
  <2>1. CASE d = c
    BY <2>1, NoOpType DEF Return, TypeOK, CallOK, Critical
  <2>2. CASE d # c
    BY <2>2 DEF Return, TypeOK, CallsOK, CallOK
  <2>. QED  BY <2>1, <2>2
<1>. QED  BY <1>3, <1>4 DEF CallsOK

\* A call that begins keeps the types when its arguments do.
LEMMA CallTypes ==
  ASSUME TypeOK, CallsOK, NEW c \in Clients, NEW label, NEW args, Call(c, label, args),
         label \in Labels \ Critical, args \in Op,
         label = "insert" => args.max_attempts > 0,
         label \in {"ensure", "add"} => args.opts \in OptionRecord,
         label = "lock" => args.kind \in {"dequeue", "ack", "nack", "renew"},
         args.kind \in {"dequeue", "nack", "renew"} => args.opts \in OptionRecord,
         args.kind \in {"ack", "nack", "renew"} => <<args.id, args.gen>> \in held[c]
  PROVE  TypeOK' /\ CallsOK'
<1>1. pc' \in [Clients -> Labels] /\ op' \in [Clients -> Op]
  BY DEF TypeOK, Call
<1>2. \A d \in Clients : pc'[d] \in Critical <=> mutex' = d
  BY DEF TypeOK, Call, Critical
<1>3. TypeOK'
  BY <1>1, <1>2 DEF TypeOK, Call
<1>4. ASSUME NEW d \in Clients  PROVE CallOK(d)'
  <2>1. CASE d = c
    BY <2>1 DEF Call, TypeOK, CallOK, Critical
  <2>2. CASE d # c
    BY <2>2 DEF Call, TypeOK, CallsOK, CallOK
  <2>. QED  BY <2>1, <2>2
<1>. QED  BY <1>3, <1>4 DEF CallsOK

\* A statement that is followed by another one of the same call.
LEMMA GotoOK ==
  ASSUME TypeOK, CallsOK, NEW c \in Clients, NEW label, Goto(c, label),
         label \in Labels, pc[c] \in Critical <=> label \in Critical,
         CallOK(c)', jobs' \in [JobIds -> Row], UNCHANGED <<seq, registry, held, acked>>
  PROVE  TypeOK' /\ CallsOK'
<1>1. pc' \in [Clients -> Labels] /\ op' \in [Clients -> Op]
  BY DEF TypeOK, Goto
<1>2. \A d \in Clients : pc'[d] \in Critical <=> mutex' = d
  BY DEF TypeOK, Goto
<1>3. TypeOK'
  BY <1>1, <1>2 DEF TypeOK, Goto
<1>4. ASSUME NEW d \in Clients, d # c  PROVE CallOK(d)'
  BY <1>4 DEF Goto, TypeOK, CallsOK, CallOK
<1>. QED  BY <1>3, <1>4 DEF CallsOK

-----------------------------------------------------------------------------
\* Rows stay rows when a statement rewrites some of their columns.
LEMMA DeadRow ==
  ASSUME NEW r \in Row
  PROVE  [r EXCEPT !.status = "dead", !.lease = 0] \in Row
BY DEF Row, Status

LEMMA ClaimedRow ==
  ASSUME NEW r \in Row, NEW v \in Nat
  PROVE  ClaimRow(r, v) \in Row
<1>1. ASSUME NEW a \in Nat, NEW g \in Nat \cup {NullGen}
      PROVE  [r EXCEPT !.status = "running", !.attempts = a, !.gen = g, !.lease = v] \in Row
  BY DEF Row, Status
<1>2. r.attempts + 1 \in Nat /\ NextGen(r.gen) \in Nat \cup {NullGen}
  BY DEF Row, NextGen, NullGen
<1>. QED  BY <1>1, <1>2 DEF ClaimRow

LEMMA NewRow ==
  ASSUME NEW q \in Queues, NEW m \in Nat \ {0}
  PROVE  [status |-> "pending", queue |-> q, attempts |-> 0,
          max_attempts |-> m, lease |-> 0, gen |-> 0] \in Row
BY DEF Row, Status

\* A delivery is a job id and a generation.
LEMMA DeliveryType ==
  ASSUME TypeOK, NEW c \in Clients, NEW d \in held[c]
  PROVE  d = <<d[1], d[2]>> /\ d[1] \in JobIds /\ d[2] \in Int
<1>1. d \in JobIds \X (Nat \cup {NullGen})
  BY DEF TypeOK
<1>. QED  BY <1>1 DEF NullGen

\* Each row a statement writes is a row.
LEMMA RowTypes ==
  ASSUME TypeOK, CallsOK, NEW c \in Clients,
         \/ EnsureQuackapiJobsTable(c) \/ EnqueueInsert(c)
         \/ SweepPending(c) \/ SweepRunning(c) \/ SweepRetry(c)
         \/ AckJob(c) \/ NackUpdate(c) \/ RenewJob(c)
  PROVE  jobs' \in [JobIds -> Row]
<1>1. CASE EnsureQuackapiJobsTable(c)
  BY <1>1 DEF TypeOK, EnsureQuackapiJobsTable, Row
<1>2. CASE EnqueueInsert(c)
  <2>1. op[c].queue \in Queues /\ op[c].max_attempts \in Nat \ {0}
    <3>1. op[c] \in Op  BY DEF TypeOK
    <3>2. op[c].max_attempts > 0  BY <1>2 DEF CallsOK, CallOK, EnqueueInsert
    <3>. QED  BY <3>1, <3>2 DEF Op
  <2>. QED  BY <1>2, <2>1, NewRow DEF TypeOK, EnqueueInsert
<1>3. CASE SweepPending(c)
  BY <1>3, DeadRow DEF TypeOK, SweepPending
<1>4. CASE SweepRunning(c)
  BY <1>4 DEF TypeOK, SweepRunning, Row, Status
<1>5. CASE SweepRetry(c)
  BY <1>5 DEF TypeOK, SweepRetry, Row, Status
<1>6. CASE AckJob(c)
  BY <1>6 DEF TypeOK, AckJob, Row, Status
<1>7. CASE NackUpdate(c)
  <2>1. op[c] \in Op  BY DEF TypeOK
  <2>2. Backoff(op[c].opts.backoff_base, op[c].attempts) \in Nat
    BY BackoffType
  <2>3. ASSUME NEW r \in Row  PROVE NackRow(r, op[c]) \in Row
    BY <2>2 DEF NackRow, Row, Status
  <2>. QED  BY <1>7, <2>3 DEF TypeOK, NackUpdate
<1>8. CASE RenewJob(c)
  <2>1. op[c].opts.visibility \in Nat
    BY <1>8 DEF RenewJob, CallsOK, CallOK, OptionRecord
  <2>. QED  BY <1>8, <2>1 DEF TypeOK, RenewJob, Row
<1>. QED  BY <1>1, <1>2, <1>3, <1>4, <1>5, <1>6, <1>7, <1>8

\* The rows quackapi_dequeue claims are rows, and so are the receipts.
LEMMA ClaimTypes ==
  ASSUME TypeOK, CallsOK, NEW c \in Clients, NEW received \in BOOLEAN,
         ClaimPendingJobs(c, received)
  PROVE  /\ jobs' \in [JobIds -> Row]
         /\ held' \in [Clients -> SUBSET (JobIds \X (Nat \cup {NullGen}))]
         /\ \A d \in Clients \ {c} : held'[d] = held[d]
<1>1. op[c].opts.visibility \in Nat
  BY DEF ClaimPendingJobs, CallsOK, CallOK, OptionRecord
<1>2. ASSUME NEW r \in Row  PROVE ClaimRow(r, op[c].opts.visibility) \in Row
  BY <1>1, ClaimedRow
<1>3. jobs' \in [JobIds -> Row]
  BY <1>2 DEF TypeOK, ClaimPendingJobs
<1>4. \A j \in JobIds : jobs'[j].gen \in Nat \cup {NullGen}
  BY <1>3 DEF Row
<1>5. {<<j, jobs'[j].gen>> : j \in ClaimSet(c)} \subseteq JobIds \X (Nat \cup {NullGen})
  <2>1. ClaimSet(c) \subseteq JobIds
    BY DEF ClaimSet, FirstN
  <2>. QED  BY <1>4, <2>1
<1>6. held' \in [Clients -> SUBSET (JobIds \X (Nat \cup {NullGen}))]
  <2>1. CASE received
    BY <1>5, <2>1 DEF TypeOK, ClaimPendingJobs
  <2>2. CASE ~received
    BY <2>2 DEF TypeOK, ClaimPendingJobs
  <2>. QED  BY <2>1, <2>2
<1>. QED  BY <1>3, <1>6 DEF TypeOK, ClaimPendingJobs

\* Calls begin with arguments of the right type.
LEMMA CallsType ==
  ASSUME TypeOK, CallsOK, NEW c \in Clients,
         \/ CreateCall(c) \/ EnqueueCall(c) \/ DequeueCall(c)
         \/ AckCall(c) \/ NackCall(c) \/ RenewCall(c)
  PROVE  TypeOK' /\ CallsOK'
<1>. USE NoOpType
<1>1. CASE CreateCall(c)
  <2>1. PICK q \in Queues, o \in Options, r \in BOOLEAN : CreateQueue(c, q, o, r)
    BY <1>1 DEF CreateCall
  <2>2. o \in OptionRecord
    BY ConstantsAssumption
  <2>. DEFINE args == [NoOp EXCEPT !.kind = "create", !.queue = q, !.opts = o, !.or_replace = r]
  <2>3. args \in Op /\ args.kind = "create" /\ args.opts = o
    BY <2>2 DEF Op, Kinds
  <2>4. Call(c, "ensure", args)
    BY <2>1 DEF CreateQueue
  <2>. HIDE DEF args
  <2>. QED  BY <2>2, <2>3, <2>4, CallTypes DEF Labels, Critical
<1>2. CASE EnqueueCall(c)
  <2>1. PICK q \in Queues, m \in Overrides : Enqueue(c, q, m)
    BY <1>2 DEF EnqueueCall
  <2>. DEFINE ma == IF m > 0 THEN m ELSE registry[q].max_attempts
              args == [NoOp EXCEPT !.kind = "enqueue", !.queue = q, !.max_attempts = ma]
  <2>2. registry[q] \in OptionRecord
    BY <2>1 DEF TypeOK, Enqueue, Registered
  <2>3. ma \in Int /\ ma > 0
    BY <2>2, ConstantsAssumption DEF OptionRecord
  <2>4. args \in Op /\ args.kind = "enqueue" /\ args.max_attempts = ma
    <3>. HIDE DEF ma
    <3>. QED  BY <2>3 DEF Op, Kinds
  <2>5. Call(c, "insert", args)
    BY <2>1 DEF Enqueue
  <2>. HIDE DEF args
  <2>. QED  BY <2>3, <2>4, <2>5, CallTypes DEF Labels, Critical
<1>3. CASE DequeueCall(c)
  <2>1. PICK q \in Queues, n \in Batches : Dequeue(c, q, n)
    BY <1>3 DEF DequeueCall
  <2>. DEFINE args == [NoOp EXCEPT !.kind = "dequeue", !.queue = q,
                                   !.opts = registry[q], !.n = n]
  <2>2. registry[q] \in OptionRecord /\ n \in Nat
    BY <2>1, ConstantsAssumption DEF TypeOK, Dequeue, Registered
  <2>3. args \in Op /\ args.kind = "dequeue" /\ args.opts = registry[q]
    BY <2>2 DEF Op, Kinds
  <2>4. Call(c, "lock", args)
    BY <2>1 DEF Dequeue
  <2>. HIDE DEF args
  <2>. QED  BY <2>2, <2>3, <2>4, CallTypes DEF Labels, Critical
<1>4. CASE AckCall(c)
  <2>1. PICK q \in Queues, d \in held[c] : Ack(c, q, d)
    BY <1>4 DEF AckCall
  <2>. DEFINE args == [NoOp EXCEPT !.kind = "ack", !.queue = q, !.id = d[1], !.gen = d[2]]
  <2>2. d = <<d[1], d[2]>> /\ d[1] \in JobIds /\ d[2] \in Int
    BY DeliveryType
  <2>3. /\ args \in Op /\ args.kind = "ack"
        /\ <<args.id, args.gen>> = d
    BY <2>2 DEF Op, Kinds
  <2>4. Call(c, "lock", args)
    BY <2>1 DEF Ack
  <2>. HIDE DEF args
  <2>. QED  BY <2>3, <2>4, CallTypes DEF Labels, Critical
<1>5. CASE NackCall(c)
  <2>1. PICK q \in Queues, d \in held[c], r \in BOOLEAN : Nack(c, q, d, r)
    BY <1>5 DEF NackCall
  <2>. DEFINE args == [NoOp EXCEPT !.kind = "nack", !.queue = q, !.opts = registry[q],
                                   !.requeue = r, !.id = d[1], !.gen = d[2]]
  <2>2. d = <<d[1], d[2]>> /\ d[1] \in JobIds /\ d[2] \in Int
    BY DeliveryType
  <2>3. registry[q] \in OptionRecord
    BY <2>1 DEF TypeOK, Nack, Registered
  <2>4. /\ args \in Op /\ args.kind = "nack" /\ args.opts = registry[q]
        /\ <<args.id, args.gen>> = d
    BY <2>2, <2>3 DEF Op, Kinds
  <2>5. Call(c, "lock", args)
    BY <2>1 DEF Nack
  <2>. HIDE DEF args
  <2>. QED  BY <2>3, <2>4, <2>5, CallTypes DEF Labels, Critical
<1>6. CASE RenewCall(c)
  <2>1. PICK q \in Queues, d \in held[c] : Renew(c, q, d)
    BY <1>6 DEF RenewCall
  <2>. DEFINE args == [NoOp EXCEPT !.kind = "renew", !.queue = q, !.opts = registry[q],
                                   !.id = d[1], !.gen = d[2]]
  <2>2. d = <<d[1], d[2]>> /\ d[1] \in JobIds /\ d[2] \in Int
    BY DeliveryType
  <2>3. registry[q] \in OptionRecord
    BY <2>1 DEF TypeOK, Renew, Registered
  <2>4. /\ args \in Op /\ args.kind = "renew" /\ args.opts = registry[q]
        /\ <<args.id, args.gen>> = d
    BY <2>2, <2>3 DEF Op, Kinds
  <2>5. Call(c, "lock", args)
    BY <2>1 DEF Renew
  <2>. HIDE DEF args
  <2>. QED  BY <2>3, <2>4, <2>5, CallTypes DEF Labels, Critical
<1>. QED  BY <1>1, <1>2, <1>3, <1>4, <1>5, <1>6

\* Init establishes the types.
LEMMA InitTypes == Init => TypeOK /\ CallsOK
<1>. SUFFICES ASSUME Init  PROVE TypeOK /\ CallsOK
  OBVIOUS
<1>. USE DEF Init
<1>1. \A r \in LegacyRows \cup {NoRow} : r \in Row
  BY NoRowType, LegacyAssumption
<1>2. jobs \in [JobIds -> Row]
  BY <1>1
<1>3. seq \in 1..(MaxJobs + 1)
  BY ConstantsAssumption
<1>4. op \in [Clients -> Op] /\ pc \in [Clients -> Labels]
  BY NoOpType DEF Labels
<1>5. \A c \in Clients : pc[c] \in Critical <=> mutex = c
  BY ConstantsAssumption DEF Critical
<1>6. TypeOK
  BY <1>2, <1>3, <1>4, <1>5 DEF TypeOK
<1>7. CallsOK
  BY NoOpType DEF CallsOK, CallOK
<1>. QED  BY <1>6, <1>7

\* Every step keeps them: one case per action.
LEMMA NextTypes == TypeOK /\ CallsOK /\ [Next]_vars => TypeOK' /\ CallsOK'
<1>. SUFFICES ASSUME TypeOK, CallsOK, [Next]_vars  PROVE TypeOK' /\ CallsOK'
  OBVIOUS
<1>. USE DEF Critical, Labels
<1>1. ASSUME NEW c \in Clients, CreateCall(c) \/ EnqueueCall(c) \/ DequeueCall(c)
                               \/ AckCall(c) \/ NackCall(c) \/ RenewCall(c)
      PROVE  TypeOK' /\ CallsOK'
  BY <1>1, CallsType
<1>2. ASSUME NEW c \in Clients, EnsureQuackapiJobsTable(c)  PROVE TypeOK' /\ CallsOK'
  <2>1. jobs' \in [JobIds -> Row]  BY <1>2, RowTypes
  <2>2. CallOK(c)'  BY <1>2 DEF EnsureQuackapiJobsTable, Goto, TypeOK, CallsOK, CallOK
  <2>. QED  BY <1>2, <2>1, <2>2, GotoOK DEF EnsureQuackapiJobsTable
<1>3. ASSUME NEW c \in Clients, AddQueue(c)  PROVE TypeOK' /\ CallsOK'
  <2>1. op[c].opts \in OptionRecord  BY <1>3 DEF AddQueue, CallsOK, CallOK
  <2>2. registry' \in [Queues -> OptionRecord \cup {NoQueue}]
    BY <1>3, <2>1 DEF AddQueue, TypeOK
  <2>. QED  BY <1>3, <2>2, ReturnOK DEF AddQueue, TypeOK
<1>4. ASSUME NEW c \in Clients, EnqueueInsert(c)  PROVE TypeOK' /\ CallsOK'
  <2>1. jobs' \in [JobIds -> Row]  BY <1>4, RowTypes
  <2>2. seq' \in 1..(MaxJobs + 1)
    BY <1>4, ConstantsAssumption DEF EnqueueInsert, JobIds
  <2>. QED  BY <1>4, <2>1, <2>2, ReturnOK DEF EnqueueInsert, TypeOK
<1>5. ASSUME NEW c \in Clients, Acquire(c)  PROVE TypeOK' /\ CallsOK'
  <2>1. FirstStatement(op[c].kind) \in Critical
    BY DEF FirstStatement
  <2>2. TypeOK'
    BY <1>5, <2>1, ConstantsAssumption DEF Acquire, TypeOK
  <2>3. CallOK(c)'
    BY <1>5 DEF Acquire, TypeOK, CallsOK, CallOK, FirstStatement
  <2>4. \A d \in Clients \ {c} : CallOK(d)'
    BY <1>5 DEF Acquire, TypeOK, CallsOK, CallOK
  <2>. QED  BY <2>2, <2>3, <2>4 DEF CallsOK
<1>6. ASSUME NEW c \in Clients, SweepPending(c)  PROVE TypeOK' /\ CallsOK'
  <2>1. jobs' \in [JobIds -> Row]  BY <1>6, RowTypes
  <2>2. CallOK(c)'  BY <1>6 DEF SweepPending, Goto, TypeOK, CallsOK, CallOK
  <2>. QED  BY <1>6, <2>1, <2>2, GotoOK DEF SweepPending
<1>7. ASSUME NEW c \in Clients, SweepRunning(c)  PROVE TypeOK' /\ CallsOK'
  <2>1. jobs' \in [JobIds -> Row]  BY <1>7, RowTypes
  <2>2. CallOK(c)'  BY <1>7 DEF SweepRunning, Goto, TypeOK, CallsOK, CallOK
  <2>. QED  BY <1>7, <2>1, <2>2, GotoOK DEF SweepRunning
<1>8. ASSUME NEW c \in Clients, SweepRetry(c)  PROVE TypeOK' /\ CallsOK'
  <2>1. jobs' \in [JobIds -> Row]  BY <1>8, RowTypes
  <2>2. CallOK(c)'  BY <1>8 DEF SweepRetry, Goto, TypeOK, CallsOK, CallOK
  <2>. QED  BY <1>8, <2>1, <2>2, GotoOK DEF SweepRetry
<1>9. ASSUME NEW c \in Clients, ClaimStep(c)  PROVE TypeOK' /\ CallsOK'
  <2>1. PICK received \in BOOLEAN : ClaimPendingJobs(c, received)
    BY <1>9 DEF ClaimStep
  <2>2. /\ jobs' \in [JobIds -> Row]
        /\ held' \in [Clients -> SUBSET (JobIds \X (Nat \cup {NullGen}))]
        /\ \A d \in Clients \ {c} : held'[d] = held[d]
    BY <2>1, ClaimTypes
  <2>3. Return(c) /\ UNCHANGED <<seq, registry, acked>>
    BY <2>1 DEF ClaimPendingJobs
  <2>. QED  BY <2>2, <2>3, ReturnOK DEF TypeOK
<1>10. ASSUME NEW c \in Clients, AckJob(c)  PROVE TypeOK' /\ CallsOK'
  <2>1. jobs' \in [JobIds -> Row]  BY <1>10, RowTypes
  <2>2. <<op[c].id, op[c].gen>> \in held[c]
    BY <1>10 DEF AckJob, CallsOK, CallOK
  <2>3. acked' \in SUBSET (JobIds \X (Nat \cup {NullGen}))
    BY <1>10, <2>2 DEF AckJob, TypeOK
  <2>4. Return(c) /\ UNCHANGED <<seq, registry, held>>
    BY <1>10 DEF AckJob
  <2>. QED  BY <2>1, <2>3, <2>4, ReturnOK DEF TypeOK
<1>11. ASSUME NEW c \in Clients, NackRead(c)  PROVE TypeOK' /\ CallsOK'
  <2>1. CASE Owns(op[c].id, op[c].queue, op[c].gen)
    <3>0. /\ pc[c] = "nackRead" /\ op[c].kind = "nack" /\ op[c].opts \in OptionRecord
          /\ <<op[c].id, op[c].gen>> \in held[c]
      BY <1>11 DEF NackRead, CallsOK, CallOK
    <3>1. op[c].id \in JobIds /\ op[c] \in Op
      BY <3>0, DeliveryType DEF TypeOK
    <3>2. jobs[op[c].id].attempts \in Nat /\ jobs[op[c].id].max_attempts \in Int
      BY <3>1 DEF TypeOK, Row
    <3>5. PICK n : n = [op[c] EXCEPT !.attempts = jobs[op[c].id].attempts,
                                     !.max_attempts = jobs[op[c].id].max_attempts]
      OBVIOUS
    <3>6. /\ n \in Op /\ n.kind = op[c].kind /\ n.opts = op[c].opts
          /\ n.id = op[c].id /\ n.gen = op[c].gen
      <4>1. PICK a \in Nat, m \in Int : a = jobs[op[c].id].attempts /\ m = jobs[op[c].id].max_attempts
        BY <3>2
      <4>2. n = [op[c] EXCEPT !.attempts = a, !.max_attempts = m]
        BY <3>5, <4>1
      <4>. QED  BY <3>1, <4>2 DEF Op
    <3>7. op' = [op EXCEPT ![c] = n] /\ pc' = [pc EXCEPT ![c] = "nackUpdate"]
          /\ UNCHANGED <<jobs, seq, registry, mutex, held, acked>>
      BY <1>11, <2>1, <3>5 DEF NackRead
    <3>3. op' \in [Clients -> Op]
      BY <3>6, <3>7 DEF TypeOK
    <3>4. TypeOK'
      BY <3>0, <3>3, <3>7 DEF TypeOK
    <3>8. \A d \in Clients : CallOK(d)'
      BY <3>0, <3>6, <3>7 DEF TypeOK, CallsOK, CallOK
    <3>. QED  BY <3>4, <3>8 DEF CallsOK
  <2>2. CASE ~Owns(op[c].id, op[c].queue, op[c].gen)
    BY <1>11, <2>2, ReturnOK DEF NackRead, TypeOK
  <2>. QED  BY <2>1, <2>2
<1>12. ASSUME NEW c \in Clients, NackUpdate(c)  PROVE TypeOK' /\ CallsOK'
  <2>1. jobs' \in [JobIds -> Row]  BY <1>12, RowTypes
  <2>2. Return(c) /\ UNCHANGED <<seq, registry, held, acked>>
    BY <1>12 DEF NackUpdate
  <2>. QED  BY <2>1, <2>2, ReturnOK DEF TypeOK
<1>13. ASSUME NEW c \in Clients, RenewJob(c)  PROVE TypeOK' /\ CallsOK'
  <2>1. jobs' \in [JobIds -> Row]  BY <1>13, RowTypes
  <2>2. Return(c) /\ UNCHANGED <<seq, registry, held, acked>>
    BY <1>13 DEF RenewJob
  <2>. QED  BY <2>1, <2>2, ReturnOK DEF TypeOK
<1>14. ASSUME NEW c \in Clients, StatementError(c)  PROVE TypeOK' /\ CallsOK'
  BY <1>14, ReturnOK DEF StatementError, TypeOK
<1>15. ASSUME NEW q \in Queues, DropQueue(q)  PROVE TypeOK' /\ CallsOK'
  BY <1>15 DEF DropQueue, TypeOK, CallsOK, CallOK
<1>16. CASE Crash
  <2>1. TypeOK'
    BY <1>16, NoOpType, ConstantsAssumption DEF Crash, TypeOK
  <2>2. CallsOK'
    BY <1>16, NoOpType DEF Crash, CallsOK, CallOK
  <2>. QED  BY <2>1, <2>2
<1>17. CASE Tick
  <2>1. \A r \in Row : r.lease > 0 => [r EXCEPT !.lease = @ - 1] \in Row
    BY DEF Row
  <2>2. jobs' \in [JobIds -> Row]
    BY <1>17, <2>1 DEF Tick, TypeOK
  <2>3. TypeOK'
    BY <1>17, <2>2 DEF Tick, TypeOK
  <2>4. CallsOK'
    BY <1>17 DEF Tick, CallsOK, CallOK
  <2>. QED  BY <2>3, <2>4
<1>18. CASE UNCHANGED vars
  BY <1>18 DEF vars, TypeOK, CallsOK, CallOK
<1>. QED
  BY <1>1, <1>2, <1>3, <1>4, <1>5, <1>6, <1>7, <1>8, <1>9, <1>10, <1>11, <1>12, <1>13,
     <1>14, <1>15, <1>16, <1>17, <1>18 DEF Next, DeliveryStep

\* Type correctness of the queue: rows, calls and deliveries stay well formed
\* and dequeue_claim_mutex is held exactly inside the delivery statements.
THEOREM TypeCorrect == Spec => []TypeOK
<1>. USE DEF Spec
<1>1. Init => TypeOK /\ CallsOK  BY InitTypes
<1>2. TypeOK /\ CallsOK /\ [Next]_vars => (TypeOK /\ CallsOK)'  BY NextTypes
<1>. QED  BY <1>1, <1>2, PTL

-----------------------------------------------------------------------------
(***************************************************************************)
(* The inductive invariant.  UniqueDelivery alone is not inductive: two    *)
(* workers could be handed the same generation if a row's generation lay   *)
(* behind one handed out before (HeldOK), if a row without a generation    *)
(* were claimed (MigratedBeforeUse), or if an id were reused (RowsOK).     *)
(***************************************************************************)
RowsOK ==
  \A j \in JobIds :
    /\ jobs[j].gen <= jobs[j].attempts
    /\ jobs[j].gen > 0 => jobs[j].attempts <= jobs[j].max_attempts
    /\ j >= seq => jobs[j].status = "absent" /\ jobs[j].gen = 0

HeldOK ==
  \A c \in Clients : \A d \in held[c] :
    d[1] < seq /\ d[2] > 0 /\ d[2] <= jobs[d[1]].gen

AckedOK ==
  \A a \in acked :
    a[1] < seq /\ a[2] > 0 /\ jobs[a[1]].status = "done" /\ jobs[a[1]].gen = a[2]

Inv ==
  /\ TypeOK
  /\ CallsOK
  /\ RowsOK
  /\ HeldOK
  /\ AckedOK
  /\ UniqueDelivery
  /\ MigratedBeforeUse

\* A step that only moves rows between states, never into or out of absent,
\* and never out of done.
StatusOnly ==
  /\ UNCHANGED <<seq, held>>
  /\ \A j \in JobIds :
       /\ jobs'[j].gen = jobs[j].gen
       /\ jobs'[j].attempts = jobs[j].attempts
       /\ jobs'[j].max_attempts = jobs[j].max_attempts
       /\ jobs[j].status = "absent" => jobs'[j].status = "absent"
       /\ jobs[j].status = "done" => jobs'[j].status = "done"

LEMMA StatusOnlyRows ==
  ASSUME Inv, StatusOnly
  PROVE  RowsOK' /\ HeldOK' /\ UniqueDelivery' /\ (UNCHANGED acked => AckedOK')
<1>1. RowsOK'
  BY DEF Inv, RowsOK, StatusOnly
<1>2. ASSUME NEW c \in Clients, NEW d \in held[c]  PROVE d[1] \in JobIds
  BY <1>2, DeliveryType DEF Inv
<1>3. HeldOK'
  BY <1>2 DEF Inv, HeldOK, StatusOnly
<1>4. UniqueDelivery'
  BY DEF Inv, UniqueDelivery, StatusOnly
<1>5. ASSUME UNCHANGED acked  PROVE AckedOK'
  <2>1. \A a \in acked : a[1] \in JobIds  BY DEF Inv, TypeOK
  <2>. QED  BY <1>5, <2>1 DEF Inv, AckedOK, StatusOnly
<1>. QED  BY <1>1, <1>3, <1>4, <1>5

\* Which calls are under way, and which queues are registered, cannot open a
\* window before the migration.
LEMMA StillMigrated ==
  ASSUME Inv, \A j \in JobIds : jobs[j].gen # NullGen => jobs'[j].gen # NullGen,
         \/ \E q \in Queues : Registered(q)
         \/ \E c \in Clients : pc[c] \notin {"idle", "ensure"}
         \/ (/\ \A q \in Queues : ~Registered(q)'
             /\ \A c \in Clients : pc'[c] \in {"idle", "ensure"})
  PROVE  MigratedBeforeUse'
BY DEF Inv, MigratedBeforeUse

\* The statements that only move rows between states.
LEMMA StatementsStatusOnly ==
  ASSUME Inv, NEW c \in Clients,
         SweepPending(c) \/ SweepRunning(c) \/ SweepRetry(c) \/ AckJob(c) \/ NackUpdate(c)
           \/ RenewJob(c)
  PROVE  StatusOnly
<1>. USE DEF StatusOnly, Inv
<1>0. ASSUME NEW j \in JobIds  PROVE jobs[j] \in Row
  BY <1>0 DEF TypeOK
<1>1. CASE SweepPending(c)
  BY <1>0, <1>1 DEF SweepPending, Row
<1>2. CASE SweepRunning(c)
  BY <1>0, <1>2 DEF SweepRunning, Row
<1>3. CASE SweepRetry(c)
  BY <1>0, <1>3 DEF SweepRetry, Row
<1>4. CASE AckJob(c)
  BY <1>0, <1>4 DEF AckJob, Row, Owns, TypeOK
<1>5. CASE NackUpdate(c)
  BY <1>0, <1>5 DEF NackUpdate, NackRow, Row, Owns, TypeOK
<1>6. CASE RenewJob(c)
  BY <1>0, <1>6 DEF RenewJob, Row, Owns, TypeOK
<1>. QED  BY <1>1, <1>2, <1>3, <1>4, <1>5, <1>6

\* What a claim does to the rows and to what its caller holds.
LEMMA ClaimEffect ==
  ASSUME Inv, NEW c \in Clients, NEW received \in BOOLEAN, ClaimPendingJobs(c, received)
  PROVE  /\ UNCHANGED <<seq, acked, registry>>
         /\ \A j \in JobIds : jobs[j].gen # NullGen
         /\ ClaimSet(c) \subseteq JobIds
         /\ \A j \in ClaimSet(c) :
              /\ jobs[j].status = "pending" /\ jobs[j].attempts < jobs[j].max_attempts
              /\ jobs'[j].status = "running"
              /\ jobs'[j].gen = jobs[j].gen + 1 /\ jobs'[j].attempts = jobs[j].attempts + 1
              /\ jobs'[j].max_attempts = jobs[j].max_attempts
         /\ \A j \in JobIds \ ClaimSet(c) : jobs'[j] = jobs[j]
         /\ \A e \in Clients \ {c} : held'[e] = held[e]
         /\ \A d \in held'[c] \ held[c] :
              d[1] \in ClaimSet(c) /\ d[2] = jobs[d[1]].gen + 1
<1>. USE DEF Inv
<1>1. \A j \in JobIds : jobs[j].gen # NullGen
  BY DEF MigratedBeforeUse, ClaimPendingJobs
<1>2. ClaimSet(c) \subseteq {j \in JobIds : Ready(jobs[j])}
  BY DEF ClaimSet, FirstN
<1>3. \A j \in JobIds : jobs'[j] = IF j \in ClaimSet(c)
                                     THEN ClaimRow(jobs[j], op[c].opts.visibility)
                                     ELSE jobs[j]
  BY DEF ClaimPendingJobs
<1>4. ASSUME NEW r \in Row, NEW v, r.gen # NullGen
      PROVE  /\ ClaimRow(r, v).status = "running" /\ ClaimRow(r, v).gen = r.gen + 1
             /\ ClaimRow(r, v).attempts = r.attempts + 1
             /\ ClaimRow(r, v).max_attempts = r.max_attempts
  BY <1>4 DEF ClaimRow, Row, NextGen
<1>5. ASSUME NEW j \in ClaimSet(c)
      PROVE  /\ jobs[j].status = "pending" /\ jobs[j].attempts < jobs[j].max_attempts
             /\ jobs'[j].status = "running"
             /\ jobs'[j].gen = jobs[j].gen + 1 /\ jobs'[j].attempts = jobs[j].attempts + 1
             /\ jobs'[j].max_attempts = jobs[j].max_attempts
  <2>1. j \in JobIds /\ Ready(jobs[j]) /\ jobs[j] \in Row
    BY <1>2, <1>5 DEF TypeOK
  <2>2. jobs'[j] = ClaimRow(jobs[j], op[c].opts.visibility)
    BY <1>3, <1>5, <2>1
  <2>. QED  BY <1>1, <1>4, <2>1, <2>2 DEF Ready
<1>6. \A j \in JobIds \ ClaimSet(c) : jobs'[j] = jobs[j]
  BY <1>3
<1>7. ASSUME NEW d \in held'[c] \ held[c]
      PROVE  d[1] \in ClaimSet(c) /\ d[2] = jobs[d[1]].gen + 1
  <2>1. held'[c] \subseteq held[c] \cup {<<j, jobs'[j].gen>> : j \in ClaimSet(c)}
    BY DEF ClaimPendingJobs, TypeOK
  <2>2. PICK j \in ClaimSet(c) : d = <<j, jobs'[j].gen>>
    BY <1>7, <2>1
  <2>. QED  BY <1>5, <2>2
<1>8. \A e \in Clients \ {c} : held'[e] = held[e]
  BY DEF ClaimPendingJobs, TypeOK
<1>. QED  BY <1>1, <1>2, <1>5, <1>6, <1>7, <1>8 DEF ClaimPendingJobs

LEMMA ClaimKeepsInv ==
  ASSUME Inv, NEW c \in Clients, NEW received \in BOOLEAN, ClaimPendingJobs(c, received)
  PROVE  RowsOK' /\ HeldOK' /\ AckedOK' /\ UniqueDelivery'
<1>. USE DEF Inv
<1>0. /\ UNCHANGED <<seq, acked>>
      /\ ClaimSet(c) \subseteq JobIds
      /\ \A j \in ClaimSet(c) :
           /\ jobs[j].status = "pending" /\ jobs[j].attempts < jobs[j].max_attempts
           /\ jobs'[j].gen = jobs[j].gen + 1 /\ jobs'[j].attempts = jobs[j].attempts + 1
           /\ jobs'[j].max_attempts = jobs[j].max_attempts
      /\ \A j \in JobIds \ ClaimSet(c) : jobs'[j] = jobs[j]
      /\ \A e \in Clients \ {c} : held'[e] = held[e]
      /\ \A d \in held'[c] \ held[c] : d[1] \in ClaimSet(c) /\ d[2] = jobs[d[1]].gen + 1
  BY ClaimEffect
<1>1. \A j \in JobIds : /\ jobs[j].gen \in Nat /\ jobs[j].attempts \in Nat
                         /\ jobs[j].max_attempts \in Nat /\ jobs[j].status \in Status
  <2>1. \A j \in JobIds : jobs[j].gen # NullGen  BY ClaimEffect
  <2>. QED  BY <2>1 DEF TypeOK, Row
<1>2. RowsOK'
  <2>. SUFFICES ASSUME NEW j \in JobIds
                PROVE  /\ jobs'[j].gen <= jobs'[j].attempts
                       /\ jobs'[j].gen > 0 => jobs'[j].attempts <= jobs'[j].max_attempts
                       /\ j >= seq => jobs'[j].status = "absent" /\ jobs'[j].gen = 0
    BY <1>0 DEF RowsOK
  <2>1. CASE j \in ClaimSet(c)
    BY <1>0, <1>1, <2>1 DEF RowsOK
  <2>2. CASE j \notin ClaimSet(c)
    BY <1>0, <2>2 DEF RowsOK
  <2>. QED  BY <2>1, <2>2
<1>3. \A j \in JobIds : jobs[j].gen <= jobs'[j].gen
  BY <1>0, <1>1
<1>4. ASSUME NEW e \in Clients, NEW d \in held[e]
      PROVE  d[1] \in JobIds /\ d[2] \in Int /\ d[1] < seq /\ d[2] > 0 /\ d[2] <= jobs[d[1]].gen
  BY <1>4, DeliveryType DEF HeldOK
<1>5. ASSUME NEW d \in held'[c] \ held[c]
      PROVE  d[1] < seq /\ d[2] > jobs[d[1]].gen /\ d[2] > 0 /\ d[2] = jobs'[d[1]].gen
  <2>1. d[1] \in JobIds /\ d[1] \in ClaimSet(c) /\ d[2] = jobs[d[1]].gen + 1
    BY <1>0, <1>5
  <2>2. d[1] < seq
    BY <1>0, <2>1 DEF RowsOK, TypeOK, JobIds
  <2>. QED  BY <1>0, <1>1, <2>1, <2>2
<1>6. HeldOK'
  <2>. SUFFICES ASSUME NEW e \in Clients, NEW d \in held'[e]
                PROVE  d[1] < seq /\ d[2] > 0 /\ d[2] <= jobs'[d[1]].gen
    BY <1>0 DEF HeldOK
  <2>1. CASE d \in held[e]
    <3>1. d[1] \in JobIds /\ d[2] \in Int /\ d[1] < seq /\ d[2] > 0 /\ d[2] <= jobs[d[1]].gen
      BY <1>4, <2>1
    <3>2. jobs[d[1]].gen <= jobs'[d[1]].gen /\ jobs'[d[1]].gen \in Int /\ jobs[d[1]].gen \in Int
      BY <1>0, <1>1, <1>3, <3>1
    <3>. QED  BY <3>1, <3>2
  <2>2. CASE d \notin held[e]
    <3>1. e = c  BY <1>0, <2>2
    <3>2. d[1] \in JobIds /\ d[1] \in ClaimSet(c)  BY <1>0, <2>2, <3>1
    <3>3. jobs'[d[1]].gen \in Int  BY <1>0, <1>1, <3>2
    <3>. QED  BY <1>5, <2>2, <3>1, <3>3
  <2>. QED  BY <2>1, <2>2
<1>7. AckedOK'
  <2>1. \A a \in acked : a[1] \in JobIds \ ClaimSet(c)
    BY <1>0 DEF AckedOK, TypeOK
  <2>. QED  BY <1>0, <2>1 DEF AckedOK
<1>8. UniqueDelivery'
  <2>1. ASSUME NEW e \in Clients \ {c}, NEW d \in held[e], d \in held'[c]  PROVE FALSE
    <3>1. d \notin held[c]  BY <2>1 DEF UniqueDelivery
    <3>2. d[1] \in JobIds /\ d[2] > jobs[d[1]].gen /\ d[2] <= jobs[d[1]].gen /\ d[2] \in Int
      BY <1>4, <1>5, <2>1, <3>1
    <3>. QED  BY <1>1, <3>2
  <2>. QED  BY <1>0, <2>1 DEF UniqueDelivery
<1>. QED  BY <1>2, <1>6, <1>7, <1>8

\* CREATE QUEUE's backfill touches only rows nobody was ever handed.
LEMMA BackfillKeepsInv ==
  ASSUME Inv, NEW c \in Clients, EnsureQuackapiJobsTable(c)
  PROVE  /\ RowsOK' /\ HeldOK' /\ AckedOK' /\ UniqueDelivery'
         /\ \A j \in JobIds : jobs'[j].gen # NullGen
<1>. USE DEF Inv
<1>1. /\ UNCHANGED <<seq, held, acked>>
      /\ \A j \in JobIds : IF jobs[j].gen = NullGen
                            THEN jobs'[j] = [jobs[j] EXCEPT !.gen = 0]
                            ELSE jobs'[j] = jobs[j]
  BY DEF EnsureQuackapiJobsTable
<1>2. ASSUME NEW j \in JobIds
      PROVE  /\ jobs'[j].status = jobs[j].status /\ jobs'[j].attempts = jobs[j].attempts
             /\ jobs'[j].max_attempts = jobs[j].max_attempts
             /\ jobs'[j].gen = IF jobs[j].gen = NullGen THEN 0 ELSE jobs[j].gen
             /\ jobs[j].attempts \in Nat /\ jobs[j].gen \in Nat \cup {NullGen}
  BY <1>1 DEF TypeOK, Row
<1>3. RowsOK'
  BY <1>1, <1>2 DEF RowsOK, NullGen
<1>4. ASSUME NEW j \in JobIds, jobs[j].gen > 0  PROVE jobs'[j].gen = jobs[j].gen
  BY <1>2, <1>4 DEF NullGen
<1>5. ASSUME NEW e \in Clients, NEW d \in held[e]
      PROVE  d[1] < seq /\ d[2] > 0 /\ d[2] <= jobs'[d[1]].gen
  <2>1. d[1] \in JobIds /\ d[2] \in Int /\ d[1] < seq /\ d[2] > 0 /\ d[2] <= jobs[d[1]].gen
    BY <1>5, DeliveryType DEF HeldOK
  <2>2. jobs[d[1]].gen \in Int  BY <1>2, <2>1 DEF NullGen
  <2>3. jobs[d[1]].gen > 0  BY <2>1, <2>2
  <2>. QED  BY <1>4, <2>1, <2>3
<1>6. HeldOK'
  BY <1>1, <1>5 DEF HeldOK
<1>7. AckedOK'
  <2>1. \A a \in acked : a[1] \in JobIds  BY DEF TypeOK
  <2>. QED  BY <1>1, <1>2, <1>4, <2>1 DEF AckedOK
<1>8. UniqueDelivery'
  BY <1>1 DEF UniqueDelivery
<1>9. \A j \in JobIds : jobs'[j].gen # NullGen
  BY <1>2 DEF NullGen
<1>. QED  BY <1>3, <1>6, <1>7, <1>8, <1>9

\* A new row takes an id no delivery and no receipt mentions.
LEMMA InsertKeepsInv ==
  ASSUME Inv, NEW c \in Clients, EnqueueInsert(c)
  PROVE  /\ RowsOK' /\ HeldOK' /\ AckedOK' /\ UniqueDelivery'
         /\ \A j \in JobIds : jobs[j].gen # NullGen => jobs'[j].gen # NullGen
<1>. USE DEF Inv
<1>1. /\ seq \in JobIds /\ seq' = seq + 1 /\ UNCHANGED <<held, acked>>
      /\ jobs'[seq].gen = 0 /\ jobs'[seq].attempts = 0
      /\ \A j \in JobIds \ {seq} : jobs'[j] = jobs[j]
  BY DEF EnqueueInsert, TypeOK
<1>2. RowsOK'
  BY <1>1 DEF RowsOK, JobIds
<1>3. HeldOK'
  <2>. SUFFICES ASSUME NEW e \in Clients, NEW d \in held[e]
                PROVE  d[1] < seq' /\ d[2] > 0 /\ d[2] <= jobs'[d[1]].gen
    BY <1>1 DEF HeldOK
  <2>1. d[1] \in JobIds /\ d[1] < seq /\ d[2] > 0 /\ d[2] <= jobs[d[1]].gen
    BY DeliveryType DEF HeldOK
  <2>. QED  BY <1>1, <2>1 DEF JobIds
<1>4. AckedOK'
  <2>1. \A a \in acked : a[1] \in JobIds /\ a[1] < seq  BY DEF TypeOK, AckedOK
  <2>. QED  BY <1>1, <2>1 DEF AckedOK, JobIds
<1>5. UniqueDelivery'
  BY <1>1 DEF UniqueDelivery
<1>6. \A j \in JobIds : jobs[j].gen # NullGen => jobs'[j].gen # NullGen
  BY <1>1 DEF NullGen
<1>. QED  BY <1>2, <1>3, <1>4, <1>5, <1>6

\* An acknowledgement adds one receipt, of the running delivery.
LEMMA AckKeepsInv ==
  ASSUME Inv, NEW c \in Clients, AckJob(c)
  PROVE  AckedOK'
<1>. USE DEF Inv
<1>. DEFINE o == op[c]
<1>1. <<o.id, o.gen>> \in held[c]
  BY DEF AckJob, CallsOK, CallOK
<1>2. o.id \in JobIds /\ o.id < seq /\ o.gen > 0
  BY <1>1, DeliveryType DEF HeldOK
<1>3. \A a \in acked : a[1] \in JobIds
  BY DEF TypeOK
<1>4. CASE Owns(o.id, o.queue, o.gen)
  <2>1. /\ jobs' = [jobs EXCEPT ![o.id].status = "done"]
        /\ acked' = acked \cup {<<o.id, o.gen>>} /\ UNCHANGED seq
    BY <1>4 DEF AckJob
  <2>2. jobs[o.id].status = "running" /\ jobs[o.id].gen = o.gen
    BY <1>4 DEF Owns
  <2>3. jobs'[o.id].status = "done" /\ jobs'[o.id].gen = o.gen
    BY <1>2, <2>1, <2>2 DEF TypeOK, Row
  <2>4. \A j \in JobIds \ {o.id} : jobs'[j] = jobs[j]
    BY <2>1 DEF TypeOK
  <2>5. \A a \in acked : a[1] # o.id
    BY <2>2 DEF AckedOK
  <2>. HIDE DEF o
  <2>. QED  BY <1>2, <1>3, <2>1, <2>3, <2>4, <2>5 DEF AckedOK
<1>5. CASE ~Owns(o.id, o.queue, o.gen)
  BY <1>5 DEF AckJob, AckedOK
<1>. QED  BY <1>4, <1>5

LEMMA InitInv == Init => Inv
<1>. SUFFICES ASSUME Init  PROVE Inv
  OBVIOUS
<1>1. TypeOK /\ CallsOK
  BY InitTypes
<1>2. HeldOK /\ AckedOK /\ UniqueDelivery /\ MigratedBeforeUse
  BY DEF Init, HeldOK, AckedOK, UniqueDelivery, MigratedBeforeUse, Registered
<1>3. RowsOK
  <2>1. NoRow.status = "absent" /\ NoRow.gen = 0 /\ NoRow.attempts = 0
    BY DEF NoRow
  <2>2. \A r \in LegacyRows : r.gen = -1 /\ r.attempts \in Nat /\ r.status # "absent"
    BY LegacyAssumption DEF Row, NullGen
  <2>3. PICK r \in LegacyRows \cup {NoRow} : jobs = [j \in JobIds |-> IF j = 1 THEN r ELSE NoRow]
    BY DEF Init
  <2>4. seq = IF r.status # "absent" THEN 2 ELSE 1
    BY <2>3, ConstantsAssumption DEF Init, JobIds
  <2>. QED  BY <2>1, <2>2, <2>3, <2>4 DEF RowsOK, JobIds
<1>. QED  BY <1>1, <1>2, <1>3 DEF Inv

\* Steps that leave the table, the sequence and all deliveries alone.
LEMMA QuietStep ==
  ASSUME Inv, UNCHANGED <<jobs, seq, held, acked>>
  PROVE  RowsOK' /\ HeldOK' /\ AckedOK' /\ UniqueDelivery'
BY DEF Inv, RowsOK, HeldOK, AckedOK, UniqueDelivery

LEMMA NextInv == Inv /\ [Next]_vars => Inv'
<1>. SUFFICES ASSUME Inv, [Next]_vars  PROVE Inv'
  OBVIOUS
<1>0. TypeOK' /\ CallsOK'
  BY NextTypes DEF Inv
<1>. SUFFICES RowsOK' /\ HeldOK' /\ AckedOK' /\ UniqueDelivery' /\ MigratedBeforeUse'
  BY <1>0 DEF Inv
<1>1. ASSUME NEW c \in Clients, CreateCall(c)
      PROVE  RowsOK' /\ HeldOK' /\ AckedOK' /\ UniqueDelivery' /\ MigratedBeforeUse'
  <2>1. /\ UNCHANGED <<jobs, seq, held, acked, registry>> /\ pc' = [pc EXCEPT ![c] = "ensure"]
    BY <1>1 DEF CreateCall, CreateQueue, Call
  <2>2. MigratedBeforeUse'
    BY <2>1 DEF Inv, TypeOK, MigratedBeforeUse, Registered
  <2>. QED  BY <2>1, <2>2, QuietStep
<1>2. ASSUME NEW c \in Clients, EnqueueCall(c) \/ DequeueCall(c) \/ AckCall(c)
                                \/ NackCall(c) \/ RenewCall(c)
      PROVE  RowsOK' /\ HeldOK' /\ AckedOK' /\ UniqueDelivery' /\ MigratedBeforeUse'
  <2>1. UNCHANGED <<jobs, seq, held, acked>> /\ \E q \in Queues : Registered(q)
    BY <1>2 DEF EnqueueCall, DequeueCall, AckCall, NackCall, RenewCall,
                Enqueue, Dequeue, Ack, Nack, Renew, Call
  <2>. QED  BY <2>1, QuietStep, StillMigrated
<1>3. ASSUME NEW c \in Clients, AddQueue(c) \/ Acquire(c) \/ NackRead(c)
      PROVE  RowsOK' /\ HeldOK' /\ AckedOK' /\ UniqueDelivery' /\ MigratedBeforeUse'
  <2>1. UNCHANGED <<jobs, seq, held, acked>> /\ pc[c] \notin {"idle", "ensure"}
    BY <1>3 DEF AddQueue, Acquire, NackRead
  <2>. QED  BY <2>1, QuietStep, StillMigrated
<1>4. ASSUME NEW c \in Clients, EnsureQuackapiJobsTable(c)
      PROVE  RowsOK' /\ HeldOK' /\ AckedOK' /\ UniqueDelivery' /\ MigratedBeforeUse'
  BY <1>4, BackfillKeepsInv DEF MigratedBeforeUse
<1>5. ASSUME NEW c \in Clients, EnqueueInsert(c)
      PROVE  RowsOK' /\ HeldOK' /\ AckedOK' /\ UniqueDelivery' /\ MigratedBeforeUse'
  <2>1. pc[c] \notin {"idle", "ensure"}  BY <1>5 DEF EnqueueInsert
  <2>. QED  BY <1>5, <2>1, InsertKeepsInv, StillMigrated
<1>6. ASSUME NEW c \in Clients, SweepPending(c) \/ SweepRunning(c) \/ SweepRetry(c)
                                \/ AckJob(c) \/ NackUpdate(c) \/ RenewJob(c)
      PROVE  RowsOK' /\ HeldOK' /\ AckedOK' /\ UniqueDelivery' /\ MigratedBeforeUse'
  <2>1. StatusOnly  BY <1>6, StatementsStatusOnly
  <2>2. pc[c] \notin {"idle", "ensure"}
    BY <1>6 DEF SweepPending, SweepRunning, SweepRetry, AckJob, NackUpdate, RenewJob
  <2>3. MigratedBeforeUse'  BY <2>1, <2>2, StillMigrated DEF StatusOnly
  <2>4. AckedOK'
    <3>1. CASE AckJob(c)  BY <3>1, AckKeepsInv
    <3>2. CASE ~AckJob(c)
      BY <1>6, <2>1, <3>2, StatusOnlyRows
      DEF SweepPending, SweepRunning, SweepRetry, NackUpdate, RenewJob
    <3>. QED  BY <3>1, <3>2
  <2>. QED  BY <2>1, <2>3, <2>4, StatusOnlyRows
<1>7. ASSUME NEW c \in Clients, ClaimStep(c)
      PROVE  RowsOK' /\ HeldOK' /\ AckedOK' /\ UniqueDelivery' /\ MigratedBeforeUse'
  <2>1. PICK received \in BOOLEAN : ClaimPendingJobs(c, received)
    BY <1>7 DEF ClaimStep
  <2>2. pc[c] \notin {"idle", "ensure"}  BY <2>1 DEF ClaimPendingJobs
  <2>3. \A j \in JobIds : jobs'[j].gen # NullGen
    <3>1. ASSUME NEW j \in JobIds  PROVE jobs[j].gen \in Nat
      BY <2>1, ClaimEffect DEF Inv, TypeOK, Row
    <3>2. ASSUME NEW j \in JobIds  PROVE jobs'[j].gen \in {jobs[j].gen, jobs[j].gen + 1}
      BY <2>1, ClaimEffect
    <3>. QED  BY <3>1, <3>2 DEF NullGen
  <2>4. MigratedBeforeUse'  BY <2>3 DEF MigratedBeforeUse
  <2>. QED  BY <2>1, <2>4, ClaimKeepsInv
<1>8. ASSUME NEW c \in Clients, StatementError(c)
      PROVE  RowsOK' /\ HeldOK' /\ AckedOK' /\ UniqueDelivery' /\ MigratedBeforeUse'
  <2>1. /\ UNCHANGED <<jobs, seq, held, acked, registry>> /\ pc' = [pc EXCEPT ![c] = "idle"]
    BY <1>8 DEF StatementError, Return
  <2>2. MigratedBeforeUse'
    BY <2>1 DEF Inv, TypeOK, MigratedBeforeUse, Registered
  <2>. QED  BY <2>1, <2>2, QuietStep
<1>9. ASSUME NEW q \in Queues, DropQueue(q)
      PROVE  RowsOK' /\ HeldOK' /\ AckedOK' /\ UniqueDelivery' /\ MigratedBeforeUse'
  BY <1>9, QuietStep, StillMigrated DEF DropQueue
<1>10. CASE Crash
  <2>1. MigratedBeforeUse'
    BY <1>10 DEF Crash, MigratedBeforeUse, Registered
  <2>. QED  BY <1>10, <2>1, QuietStep DEF Crash
<1>11. CASE Tick
  <2>1. StatusOnly
    BY <1>11 DEF Tick, StatusOnly, Inv, TypeOK, Row
  <2>2. UNCHANGED acked /\ UNCHANGED <<registry, pc>>
    BY <1>11 DEF Tick
  <2>3. MigratedBeforeUse'
    BY <2>1, <2>2 DEF Inv, StatusOnly, MigratedBeforeUse, Registered
  <2>. QED  BY <2>1, <2>2, <2>3, StatusOnlyRows
<1>12. CASE UNCHANGED vars
  <2>1. MigratedBeforeUse'
    BY <1>12 DEF vars, Inv, MigratedBeforeUse, Registered
  <2>. QED  BY <1>12, <2>1, QuietStep DEF vars
<1>. QED
  BY <1>1, <1>2, <1>3, <1>4, <1>5, <1>6, <1>7, <1>8, <1>9, <1>10, <1>11, <1>12
  DEF Next, DeliveryStep

LEMMA Invariance == Spec => []Inv
BY InitInv, NextInv, PTL DEF Spec

\* quackapi_dequeue never hands one (job, generation) to two workers.
THEOREM DeliveryIsUnique == Spec => []UniqueDelivery
<1>1. Inv => UniqueDelivery  BY DEF Inv
<1>. QED  BY <1>1, Invariance, PTL

\* A job is delivered at most max_attempts times.
THEOREM DeliveryIsBounded == Spec => []DeliveriesBounded
<1>1. Inv => DeliveriesBounded
  <2>. SUFFICES ASSUME Inv, NEW c \in Clients, NEW d \in held[c]
                PROVE  d[2] \in 1..jobs[d[1]].max_attempts
    BY DEF DeliveriesBounded
  <2>1. d[1] \in JobIds /\ d[2] \in Int /\ d[2] > 0 /\ d[2] <= jobs[d[1]].gen
    BY DeliveryType DEF Inv, HeldOK
  <2>2. /\ jobs[d[1]].gen \in Int /\ jobs[d[1]].attempts \in Int
        /\ jobs[d[1]].max_attempts \in Int
    BY <2>1 DEF Inv, TypeOK, Row, NullGen
  <2>3. jobs[d[1]].gen <= jobs[d[1]].attempts /\ jobs[d[1]].attempts <= jobs[d[1]].max_attempts
    BY <2>1, <2>2 DEF Inv, RowsOK
  <2>. QED  BY <2>1, <2>2, <2>3
<1>. QED  BY <1>1, Invariance, PTL

\* A job is acknowledged at most once, by its latest delivery, and stays done.
THEOREM AcknowledgedOnce == Spec => []AckedOnce
<1>1. Inv => AckedOnce  BY DEF Inv, AckedOK, AckedOnce
<1>. QED  BY <1>1, Invariance, PTL

\* No delivery statement runs against a table that has not been migrated.
THEOREM MigrationComesFirst == Spec => []MigratedBeforeUse
<1>1. Inv => MigratedBeforeUse  BY DEF Inv
<1>. QED  BY <1>1, Invariance, PTL

-----------------------------------------------------------------------------
\* What a step may do to one row, whichever action it is.
Untouched(j)   == /\ jobs'[j].status = jobs[j].status
                  /\ jobs'[j].attempts = jobs[j].attempts
                  /\ jobs'[j].max_attempts = jobs[j].max_attempts
                  /\ jobs'[j].gen = IF jobs[j].gen = NullGen THEN jobs'[j].gen ELSE jobs[j].gen

\* Done and dead rows, and rows whose lease is running, stay as they are under
\* every statement but those of a worker holding the delivery.
LEMMA RowFate ==
  ASSUME Inv, [Next]_vars, NEW j \in JobIds, jobs[j].status # "absent"
  PROVE  \/ Untouched(j)
         \/ /\ jobs[j].status \in {"pending", "running"}
            /\ \/ jobs[j].status = "pending"
               \/ jobs[j].lease = 0
               \/ \E c \in Clients : /\ mutex = c
                                     /\ pc[c] \in {"ackUpdate", "nackUpdate"}
                                     /\ <<j, jobs[j].gen>> \in held[c]
<1>. USE DEF Inv, Untouched
<1>0. jobs[j] \in Row  BY DEF TypeOK
<1>1. CASE UNCHANGED jobs
  BY <1>1
<1>2. ASSUME NEW c \in Clients, EnsureQuackapiJobsTable(c)  PROVE Untouched(j)
  BY <1>0, <1>2 DEF EnsureQuackapiJobsTable, Row
<1>3. ASSUME NEW c \in Clients, EnqueueInsert(c)  PROVE Untouched(j)
  <2>1. j # seq  BY DEF RowsOK, TypeOK
  <2>. QED  BY <1>3, <2>1 DEF EnqueueInsert, TypeOK
<1>4. ASSUME NEW c \in Clients, SweepPending(c)
      PROVE  Untouched(j) \/ jobs[j].status = "pending"
  BY <1>4 DEF SweepPending
<1>5. ASSUME NEW c \in Clients, SweepRunning(c)
      PROVE  Untouched(j) \/ (jobs[j].status = "running" /\ jobs[j].lease = 0)
  BY <1>5 DEF SweepRunning
<1>6. ASSUME NEW c \in Clients, SweepRetry(c)
      PROVE  Untouched(j) \/ (jobs[j].status = "running" /\ jobs[j].lease = 0)
  BY <1>6 DEF SweepRetry
<1>7. ASSUME NEW c \in Clients, ClaimStep(c)
      PROVE  Untouched(j) \/ jobs[j].status = "pending"
  <2>1. PICK received \in BOOLEAN : ClaimPendingJobs(c, received)
    BY <1>7 DEF ClaimStep
  <2>2. j \in ClaimSet(c) => jobs[j].status = "pending"
    BY <2>1, ClaimEffect
  <2>3. j \notin ClaimSet(c) => jobs'[j] = jobs[j]
    BY <2>1, ClaimEffect
  <2>. QED  BY <2>2, <2>3
<1>8. ASSUME NEW c \in Clients, AckJob(c) \/ NackUpdate(c)
      PROVE  Untouched(j) \/ (/\ jobs[j].status = "running" /\ mutex = c
                              /\ pc[c] \in {"ackUpdate", "nackUpdate"}
                              /\ <<j, jobs[j].gen>> \in held[c])
  <2>1. pc[c] \in {"ackUpdate", "nackUpdate"} /\ mutex = c
    BY <1>8 DEF AckJob, NackUpdate, TypeOK, Critical
  <2>2. <<op[c].id, op[c].gen>> \in held[c]
    BY <2>1 DEF CallsOK, CallOK
  <2>3. CASE j = op[c].id /\ Owns(op[c].id, op[c].queue, op[c].gen)
    BY <2>1, <2>2, <2>3 DEF Owns
  <2>4. CASE ~(j = op[c].id /\ Owns(op[c].id, op[c].queue, op[c].gen))
    BY <1>8, <2>4 DEF AckJob, NackUpdate, TypeOK
  <2>. QED  BY <2>3, <2>4
<1>9. ASSUME NEW c \in Clients, RenewJob(c)  PROVE Untouched(j)
  <2>1. <<op[c].id, op[c].gen>> \in held[c]
    BY <1>9 DEF RenewJob, CallsOK, CallOK
  <2>2. op[c].id \in JobIds  BY <2>1, DeliveryType
  <2>. QED  BY <1>0, <1>9, <2>2 DEF RenewJob, TypeOK, Row
<1>10. CASE Tick
  BY <1>0, <1>10 DEF Tick, Row
<1>11. ASSUME NEW c \in Clients,
              CreateCall(c) \/ EnqueueCall(c) \/ DequeueCall(c) \/ AckCall(c) \/ NackCall(c)
                \/ RenewCall(c) \/ AddQueue(c) \/ Acquire(c) \/ NackRead(c) \/ StatementError(c)
       PROVE  UNCHANGED jobs
  BY <1>11 DEF CreateCall, EnqueueCall, DequeueCall, AckCall, NackCall, RenewCall, CreateQueue,
               Enqueue, Dequeue, Ack, Nack, Renew, Call, AddQueue, Acquire, NackRead, StatementError
<1>12. ASSUME Crash \/ \E q \in Queues : DropQueue(q)  PROVE UNCHANGED jobs
  BY <1>12 DEF Crash, DropQueue
<1>13. CASE UNCHANGED vars
  BY <1>1, <1>13 DEF vars
<1>. HIDE DEF Inv, Untouched
<1>. QED
  BY <1>1, <1>2, <1>3, <1>4, <1>5, <1>6, <1>7, <1>8, <1>9, <1>10, <1>11, <1>12, <1>13
  DEF Next, DeliveryStep

\* Done and dead are final, in every step of every behaviour.
THEOREM TerminalStatesAreFinal == Spec => TerminalIsFinal
<1>1. Inv /\ [Next]_vars =>
        [\A j \in JobIds : jobs[j].status \in {"done", "dead"} =>
           /\ jobs'[j].status = jobs[j].status
           /\ jobs'[j].attempts = jobs[j].attempts]_vars
  BY RowFate DEF Untouched
<1>. QED  BY <1>1, Invariance, PTL DEF Spec, TerminalIsFinal

\* A running lease is ended by nobody but a worker that was handed the delivery.
THEOREM LeasesAreRespected == Spec => LeaseRespected
<1>1. Inv /\ [Next]_vars =>
        [\A j \in JobIds :
           (jobs[j].status = "running" /\ jobs[j].lease > 0 /\ jobs'[j].status # "running")
           => \E c \in Clients : /\ mutex = c
                                 /\ pc[c] \in {"ackUpdate", "nackUpdate"}
                                 /\ <<j, jobs[j].gen>> \in held[c]]_vars
  BY RowFate DEF Untouched
<1>. QED  BY <1>1, Invariance, PTL DEF Spec, LeaseRespected

-----------------------------------------------------------------------------
\* Refinement: initial states map to initial states, steps to steps or stutters.
LEMMA InitRefines == Init => Lifecycle!AbsInit
<1>. SUFFICES ASSUME Init  PROVE Lifecycle!AbsInit
  OBVIOUS
<1>1. TypeOK  BY InitTypes
<1>2. \A j \in JobIds : /\ jobs[j].status \in {"absent", "pending", "running", "done", "dead"}
                         /\ jobs[j].max_attempts \in Nat \ {0}
  BY <1>1 DEF TypeOK, Row, Status
<1>3. \A j \in JobIds : (IF jobs[j].gen = NullGen THEN 0 ELSE jobs[j].gen) = 0
  <2>1. NoRow.gen = 0  BY DEF NoRow
  <2>2. \A r \in LegacyRows : r.gen = NullGen  BY LegacyAssumption
  <2>. QED  BY <2>1, <2>2 DEF Init
<1>. QED  BY <1>2, <1>3 DEF Init, Lifecycle!AbsInit

\* A move of a set of jobs, of one new job or of one finished job is a step.
LEMMA SomeMove ==
  ASSUME NEW S \in SUBSET JobIds, Lifecycle!Deliver(S) \/ Lifecycle!Retry(S) \/ Lifecycle!Bury(S)
  PROVE  Lifecycle!AbsNext
<1>1. \E T \in SUBSET JobIds : Lifecycle!Deliver(T) \/ Lifecycle!Retry(T) \/ Lifecycle!Bury(T)
  <2>. WITNESS S \in SUBSET JobIds
  <2>. QED  OBVIOUS
<1>. QED  BY <1>1 DEF Lifecycle!AbsNext

LEMMA OneMove ==
  ASSUME NEW k \in JobIds, Lifecycle!Submit(k) \/ Lifecycle!Complete(k)
  PROVE  Lifecycle!AbsNext
<1>1. \E j \in JobIds : Lifecycle!Submit(j) \/ Lifecycle!Complete(j)
  <2>. WITNESS k \in JobIds
  <2>. QED  OBVIOUS
<1>. QED  BY <1>1 DEF Lifecycle!AbsNext

LEMMA NextRefines == Inv /\ [Next]_vars => [Lifecycle!AbsNext]_(Lifecycle!avars)
<1>. SUFFICES ASSUME Inv, [Next]_vars
              PROVE  Lifecycle!AbsNext \/ UNCHANGED Lifecycle!avars
  OBVIOUS
<1>. USE DEF Inv
<1>0. \A j \in JobIds : jobs[j] \in Row  BY DEF TypeOK
<1>1. ASSUME UNCHANGED <<jobs, acked>>  PROVE UNCHANGED Lifecycle!avars
  BY <1>1 DEF Lifecycle!avars
<1>2. ASSUME NEW c \in Clients, EnsureQuackapiJobsTable(c)  PROVE UNCHANGED Lifecycle!avars
  <2>1. \A j \in JobIds : /\ jobs'[j].status = jobs[j].status
                           /\ jobs'[j].max_attempts = jobs[j].max_attempts
                           /\ jobs'[j].gen = IF jobs[j].gen = NullGen THEN 0 ELSE jobs[j].gen
    BY <1>0, <1>2 DEF EnsureQuackapiJobsTable, Row
  <2>. QED  BY <1>2, <2>1 DEF EnsureQuackapiJobsTable, Lifecycle!avars, NullGen
<1>3. ASSUME NEW c \in Clients, EnqueueInsert(c)  PROVE Lifecycle!AbsNext
  <2>1. seq \in JobIds /\ jobs[seq].status = "absent" /\ jobs[seq].gen = 0
    BY <1>3 DEF EnqueueInsert, RowsOK, JobIds
  <2>2. /\ jobs'[seq].status = "pending" /\ jobs'[seq].gen = 0
        /\ \A j \in JobIds \ {seq} : jobs'[j] = jobs[j]
    BY <1>3, <2>1 DEF EnqueueInsert, TypeOK
  <2>3. \A j \in JobIds : jobs'[j].max_attempts \in Nat \ {0}
    <3>1. jobs' \in [JobIds -> Row]  BY <1>3, RowTypes
    <3>. QED  BY <3>1 DEF Row
  <2>4. UNCHANGED acked  BY <1>3 DEF EnqueueInsert
  <2>5. PICK k \in JobIds : k = seq
    BY <2>1
  <2>6. Lifecycle!Submit(k)
    BY <2>1, <2>2, <2>3, <2>4, <2>5 DEF Lifecycle!Submit, Lifecycle!Move
  <2>. QED  BY <2>6, OneMove
<1>4. ASSUME NEW c \in Clients, SweepPending(c)
      PROVE  Lifecycle!AbsNext
  <2>0. PICK S \in SUBSET JobIds : S = {j \in JobIds : /\ jobs[j].queue = op[c].queue /\ jobs[j].status = "pending"
                                                 /\ jobs[j].attempts >= jobs[j].max_attempts}
    OBVIOUS
  <2>1. StatusOnly  BY <1>4, StatementsStatusOnly
  <2>2. \A j \in JobIds : jobs'[j].status = IF j \in S THEN "dead" ELSE jobs[j].status
    BY <1>0, <1>4, <2>0 DEF SweepPending, Row
  <2>3. \A j \in S : jobs[j].status = "pending"
    BY <2>0
  <2>4. UNCHANGED acked  BY <1>4 DEF SweepPending
  <2>5. Lifecycle!Bury(S)
    BY <2>1, <2>2, <2>3, <2>4 DEF StatusOnly, Lifecycle!Bury, Lifecycle!Move
  <2>. QED  BY <2>5, SomeMove
<1>5. ASSUME NEW c \in Clients, SweepRunning(c)
      PROVE  Lifecycle!AbsNext
  <2>0. PICK S \in SUBSET JobIds : S = {j \in JobIds : /\ jobs[j].queue = op[c].queue /\ jobs[j].status = "running"
                                                 /\ jobs[j].lease = 0
                                                 /\ jobs[j].attempts >= jobs[j].max_attempts}
    OBVIOUS
  <2>1. StatusOnly  BY <1>5, StatementsStatusOnly
  <2>2. \A j \in JobIds : jobs'[j].status = IF j \in S THEN "dead" ELSE jobs[j].status
    BY <1>0, <1>5, <2>0 DEF SweepRunning, Row
  <2>3. \A j \in S : jobs[j].status = "running"
    BY <2>0
  <2>4. UNCHANGED acked  BY <1>5 DEF SweepRunning
  <2>5. Lifecycle!Bury(S)
    BY <2>1, <2>2, <2>3, <2>4 DEF StatusOnly, Lifecycle!Bury, Lifecycle!Move
  <2>. QED  BY <2>5, SomeMove
<1>6. ASSUME NEW c \in Clients, SweepRetry(c)
      PROVE  Lifecycle!AbsNext
  <2>0. PICK S \in SUBSET JobIds : S = {j \in JobIds : /\ jobs[j].queue = op[c].queue /\ jobs[j].status = "running"
                                                 /\ jobs[j].lease = 0
                                                 /\ jobs[j].attempts < jobs[j].max_attempts}
    OBVIOUS
  <2>1. StatusOnly  BY <1>6, StatementsStatusOnly
  <2>2. \A j \in JobIds : jobs'[j].status = IF j \in S THEN "pending" ELSE jobs[j].status
    BY <1>0, <1>6, <2>0 DEF SweepRetry, Row
  <2>3. \A j \in S : jobs[j].status = "running"
    BY <2>0
  <2>4. UNCHANGED acked  BY <1>6 DEF SweepRetry
  <2>5. Lifecycle!Retry(S)
    BY <2>1, <2>2, <2>3, <2>4 DEF StatusOnly, Lifecycle!Retry, Lifecycle!Move
  <2>. QED  BY <2>5, SomeMove
<1>7. ASSUME NEW c \in Clients, ClaimStep(c)
      PROVE  Lifecycle!AbsNext
  <2>1. PICK received \in BOOLEAN : ClaimPendingJobs(c, received)
    BY <1>7 DEF ClaimStep
  <2>2. PICK S \in SUBSET JobIds :
          /\ \A j \in S : /\ jobs[j].status = "pending" /\ jobs[j].attempts < jobs[j].max_attempts
                          /\ jobs'[j].status = "running" /\ jobs'[j].gen = jobs[j].gen + 1
                          /\ jobs'[j].max_attempts = jobs[j].max_attempts
          /\ \A j \in JobIds \ S : jobs'[j] = jobs[j]
          /\ \A j \in JobIds : jobs[j].gen # NullGen
          /\ UNCHANGED acked
    BY <2>1, ClaimEffect
  <2>3. \A j \in JobIds : /\ jobs[j].gen \in Nat /\ jobs[j].attempts \in Nat
                           /\ jobs[j].max_attempts \in Nat /\ jobs'[j].gen # NullGen
    BY <1>0, <2>2 DEF Row, NullGen
  <2>4. \A j \in S : jobs[j].gen < jobs[j].max_attempts
    BY <2>2, <2>3 DEF RowsOK
  <2>5. Lifecycle!Deliver(S)
    BY <2>2, <2>3, <2>4 DEF Lifecycle!Deliver, Lifecycle!Move
  <2>. QED  BY <2>2, <2>5, SomeMove
<1>8. ASSUME NEW c \in Clients, AckJob(c)
      PROVE  Lifecycle!AbsNext \/ UNCHANGED Lifecycle!avars
  <2>1. <<op[c].id, op[c].gen>> \in held[c]
    BY <1>8 DEF AckJob, CallsOK, CallOK
  <2>2. op[c].id \in JobIds /\ op[c].gen \in Int /\ op[c].gen > 0
    BY <2>1, DeliveryType DEF HeldOK
  <2>3. CASE Owns(op[c].id, op[c].queue, op[c].gen)
    <3>1. StatusOnly  BY <1>8, StatementsStatusOnly
    <3>2. /\ jobs[op[c].id].status = "running" /\ jobs[op[c].id].gen = op[c].gen
      BY <2>3 DEF Owns
    <3>3. /\ \A j \in JobIds : jobs'[j].status = IF j = op[c].id THEN "done" ELSE jobs[j].status
          /\ acked' = acked \cup {<<op[c].id, op[c].gen>>}
      BY <1>0, <1>8, <2>2, <2>3 DEF AckJob, TypeOK, Row
    <3>4. op[c].gen # NullGen  BY <2>2 DEF NullGen
    <3>5. PICK k \in JobIds : k = op[c].id
      BY <2>2
    <3>6. Lifecycle!Complete(k)
      BY <2>2, <3>1, <3>2, <3>3, <3>4, <3>5 DEF StatusOnly, Lifecycle!Complete, Lifecycle!Move
    <3>. QED  BY <3>6, OneMove
  <2>4. CASE ~Owns(op[c].id, op[c].queue, op[c].gen)
    BY <1>1, <1>8, <2>4 DEF AckJob
  <2>. QED  BY <2>3, <2>4
<1>9. ASSUME NEW c \in Clients, NackUpdate(c)
      PROVE  Lifecycle!AbsNext \/ UNCHANGED Lifecycle!avars
  <2>1. <<op[c].id, op[c].gen>> \in held[c]
    BY <1>9 DEF NackUpdate, CallsOK, CallOK
  <2>2. op[c].id \in JobIds
    BY <2>1, DeliveryType
  <2>3. StatusOnly /\ UNCHANGED acked
    BY <1>9, StatementsStatusOnly DEF NackUpdate
  <2>6. PICK S \in SUBSET JobIds : S = {op[c].id}
    BY <2>2
  <2>4. CASE ~Owns(op[c].id, op[c].queue, op[c].gen)
    BY <1>1, <1>9, <2>4 DEF NackUpdate
  <2>5. CASE Owns(op[c].id, op[c].queue, op[c].gen)
    <3>1. jobs[op[c].id].status = "running"  BY <2>5 DEF Owns
    <3>2. \A j \in JobIds : jobs'[j].status = IF j = op[c].id
                                              THEN NackRow(jobs[j], op[c]).status ELSE jobs[j].status
      BY <1>9, <2>2, <2>5 DEF NackUpdate, TypeOK
    <3>3. NackRow(jobs[op[c].id], op[c]).status \in {"dead", "pending"}
      BY <1>0, <2>2 DEF NackRow, Row
    <3>4. CASE NackRow(jobs[op[c].id], op[c]).status = "dead"
      <4>1. Lifecycle!Bury(S)
        BY <2>2, <2>3, <2>6, <3>1, <3>2, <3>4 DEF StatusOnly, Lifecycle!Bury, Lifecycle!Move
      <4>. QED  BY <4>1, SomeMove
    <3>5. CASE NackRow(jobs[op[c].id], op[c]).status = "pending"
      <4>1. Lifecycle!Retry(S)
        BY <2>2, <2>3, <2>6, <3>1, <3>2, <3>5 DEF StatusOnly, Lifecycle!Retry, Lifecycle!Move
      <4>. QED  BY <4>1, SomeMove
    <3>. QED  BY <3>3, <3>4, <3>5
  <2>. QED  BY <2>4, <2>5
<1>10. ASSUME NEW c \in Clients, RenewJob(c)  PROVE UNCHANGED Lifecycle!avars
  <2>1. StatusOnly  BY <1>10, StatementsStatusOnly
  <2>2. \A j \in JobIds : jobs'[j].status = jobs[j].status
    BY <1>0, <1>10 DEF RenewJob, TypeOK, Row
  <2>. QED  BY <1>10, <2>1, <2>2 DEF StatusOnly, RenewJob, Lifecycle!avars
<1>11. CASE Tick
  <2>1. \A j \in JobIds : /\ jobs'[j].status = jobs[j].status /\ jobs'[j].gen = jobs[j].gen
                           /\ jobs'[j].max_attempts = jobs[j].max_attempts
    BY <1>0, <1>11 DEF Tick, Row
  <2>. QED  BY <1>11, <2>1 DEF Tick, Lifecycle!avars
<1>12. ASSUME NEW c \in Clients,
              CreateCall(c) \/ EnqueueCall(c) \/ DequeueCall(c) \/ AckCall(c) \/ NackCall(c)
                \/ RenewCall(c) \/ AddQueue(c) \/ Acquire(c) \/ NackRead(c) \/ StatementError(c)
       PROVE  UNCHANGED <<jobs, acked>>
  BY <1>12 DEF CreateCall, EnqueueCall, DequeueCall, AckCall, NackCall, RenewCall, CreateQueue,
               Enqueue, Dequeue, Ack, Nack, Renew, Call, AddQueue, Acquire, NackRead, StatementError
<1>13. ASSUME Crash \/ UNCHANGED vars \/ \E q \in Queues : DropQueue(q)
       PROVE  UNCHANGED <<jobs, acked>>
  BY <1>13 DEF Crash, DropQueue, vars
<1>. HIDE DEF Inv
<1>. QED
  BY <1>1, <1>2, <1>3, <1>4, <1>5, <1>6, <1>7, <1>8, <1>9, <1>10, <1>11, <1>12, <1>13
  DEF Next, DeliveryStep

\* The SQL implementation keeps the promise JobLifecycle states.
THEOREM QueueImplementsLifecycle == Spec => ImplementsLifecycle
BY InitRefines, NextRefines, Invariance, PTL
   DEF Spec, ImplementsLifecycle, Lifecycle!AbsSpec
=============================================================================
