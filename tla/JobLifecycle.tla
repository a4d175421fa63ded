---------------------------- MODULE JobLifecycle ----------------------------
(***************************************************************************)
(* What the durable queue promises about a job, with no table, no lease,   *)
(* no mutex and no clients: a job is submitted once, delivered at most     *)
(* limit times, completed at most once, by its latest delivery, and ends   *)
(* done or dead.  A call may move several jobs of a batch at once.         *)
(***************************************************************************)
EXTENDS Integers

CONSTANT Jobs

VARIABLES
  phase,       \* absent, pending, running, done or dead
  deliveries,  \* how often the job has been handed to a worker
  limit,       \* how often it may be
  receipts     \* <<job, delivery>> reported as completed

avars == <<phase, deliveries, limit, receipts>>

AbsInit ==
  /\ phase \in [Jobs -> {"absent", "pending", "running", "done", "dead"}]
  /\ deliveries = [j \in Jobs |-> 0]
  /\ limit \in [Jobs -> Nat \ {0}]
  /\ receipts = {}

\* Every job of S moves to phase p, the others stay.
Move(S, p) == phase' = [j \in Jobs |-> IF j \in S THEN p ELSE phase[j]]

Submit(j) ==
  /\ phase[j] = "absent"
  /\ Move({j}, "pending")
  /\ limit' \in [Jobs -> Nat \ {0}]
  /\ \A k \in Jobs \ {j} : limit'[k] = limit[k]
  /\ UNCHANGED <<deliveries, receipts>>

Deliver(S) ==
  /\ \A j \in S : phase[j] = "pending" /\ deliveries[j] < limit[j]
  /\ Move(S, "running")
  /\ deliveries' = [j \in Jobs |-> IF j \in S THEN deliveries[j] + 1 ELSE deliveries[j]]
  /\ UNCHANGED <<limit, receipts>>

Complete(j) ==
  /\ phase[j] = "running"
  /\ deliveries[j] > 0
  /\ Move({j}, "done")
  /\ receipts' = receipts \cup {<<j, deliveries[j]>>}
  /\ UNCHANGED <<deliveries, limit>>

Retry(S) ==
  /\ \A j \in S : phase[j] = "running"
  /\ Move(S, "pending")
  /\ UNCHANGED <<deliveries, limit, receipts>>

Bury(S) ==
  /\ \A j \in S : phase[j] \in {"pending", "running"}
  /\ Move(S, "dead")
  /\ UNCHANGED <<deliveries, limit, receipts>>

AbsNext ==
  \/ \E j \in Jobs : Submit(j) \/ Complete(j)
  \/ \E S \in SUBSET Jobs : Deliver(S) \/ Retry(S) \/ Bury(S)

AbsSpec == AbsInit /\ [][AbsNext]_avars
=============================================================================
