----------------------------- MODULE MCJobQueue -----------------------------
(* Small instances of JobQueue for TLC. *)
EXTENDS JobQueue, TLC

\* One queue that allows two deliveries, with a retry delay.
MCOptions == {[max_attempts |-> 2, visibility |-> 1, backoff_base |-> 1]}

\* An exhausted pending row, as the older expiry path left them, and a row
\* that was running when the older release stopped.
MCLegacyRows ==
  {[status |-> st, queue |-> q, attempts |-> 2, max_attempts |-> 2, lease |-> 0,
    gen |-> NullGen] : st \in {"pending", "running"}, q \in Queues}

MCSymmetry == Permutations(Clients)
=============================================================================
