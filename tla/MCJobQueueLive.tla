--------------------------- MODULE MCJobQueueLive ---------------------------
(* A small instance of JobQueueLive for TLC. *)
EXTENDS JobQueueLive

MCOptions == {[max_attempts |-> 2, visibility |-> 1, backoff_base |-> 1]}

MCLegacyRows ==
  {[status |-> "pending", queue |-> q, attempts |-> 2, max_attempts |-> 2, lease |-> 0,
    gen |-> NullGen] : q \in Queues}
=============================================================================
