------------------------------- MODULE MCJobs -------------------------------
(***************************************************************************)
(* Webhooks: two events for a subscription that batches; two events while  *)
(* the merchant changes the subscription; one event and two processes.     *)
(***************************************************************************)
EXTENDS Jobs

CONSTANTS p1, p2, s1, e1, e2

MCScenes ==
    {[procs |-> {p1}, events |-> {e1, e2}, batching |-> {s1}, merchantActs |-> FALSE],
     [procs |-> {p1}, events |-> {e1, e2}, batching |-> {}, merchantActs |-> TRUE],
     [procs |-> {p1, p2}, events |-> {e1}, batching |-> {}, merchantActs |-> FALSE]}
=============================================================================
