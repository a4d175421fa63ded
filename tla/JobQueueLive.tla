---------------------------- MODULE JobQueueLive ----------------------------
(***************************************************************************)
(* Progress of the durable queue.  A polling worker keeps calling          *)
(* quackapi_dequeue (the cron worker of docs/QUEUE.md); at some moment,    *)
(* marked by calm, crashes, failing statements, DDL and renewals stop.     *)
(* Nothing is assumed of the workers that were handed a job: they may      *)
(* complete it, give it back or never be heard of again.                   *)
(***************************************************************************)
EXTENDS JobQueue

VARIABLE calm

lvars == <<vars, calm>>

LiveInit == Init /\ calm = FALSE

\* A worker answers for a delivery only while it believes to own it, so the
\* number of its calls is bounded by the leases it is given.
Believes(c, d) == jobs[d[1]].gen = d[2] /\ jobs[d[1]].status = "running" /\ jobs[d[1]].lease > 0

Poll == \E c \in Clients : DequeueCall(c)

CalmNext ==
  \/ \E c \in Clients :
       \/ EnsureQuackapiJobsTable(c)
       \/ AddQueue(c)
       \/ EnqueueCall(c)
       \/ EnqueueInsert(c)
       \/ \E q \in Queues, d \in held[c] : Believes(c, d) /\ Ack(c, q, d)
       \/ \E q \in Queues, d \in held[c], r \in BOOLEAN : Believes(c, d) /\ Nack(c, q, d, r)
       \/ Acquire(c)
       \/ DeliveryStep(c)
  \/ Poll
  \/ Tick

LiveNext ==
  \/ ~calm /\ Next /\ UNCHANGED calm
  \/ ~calm /\ calm' = TRUE /\ UNCHANGED vars
  \/ calm /\ CalmNext /\ UNCHANGED calm

\* Time passes; a thread inside a call runs on; when the mutex is free and
\* threads wait, one of them gets it (which one is not assumed); someone polls.
Fairness ==
  /\ WF_lvars(calm /\ Tick /\ UNCHANGED calm)
  /\ \A c \in Clients :
       WF_lvars(calm /\ (DeliveryStep(c) \/ EnsureQuackapiJobsTable(c) \/ AddQueue(c)
                           \/ EnqueueInsert(c)) /\ UNCHANGED calm)
  /\ WF_lvars(calm /\ (\E c \in Clients : Acquire(c)) /\ UNCHANGED calm)
  /\ WF_lvars(calm /\ Poll /\ UNCHANGED calm)

LiveSpec == LiveInit /\ [][LiveNext]_lvars /\ Fairness

\* Every job of a queue that is still being polled ends done or dead: no job
\* is stuck behind a dead worker, a lost reply, a retry delay, an exhausted
\* attempt count or a job with a smaller id that keeps failing.
EveryJobSettles ==
  \A j \in JobIds, q \in Queues :
    (calm /\ Registered(q) /\ jobs[j].queue = q /\ jobs[j].status \in {"pending", "running"})
      ~> (jobs[j].status \in {"done", "dead"})
=============================================================================
