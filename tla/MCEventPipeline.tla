-------------------------- MODULE MCEventPipeline --------------------------
(***************************************************************************)
(* Up to three events in two ledgers, two of them of one transaction.  One *)
(* poller with two sweeping processes; one poller, a sweeper and an        *)
(* operator; or two pollers.                                               *)
(***************************************************************************)
EXTENDS EventPipeline

CONSTANTS t1, t2, p1, p2, s1, s2, a1

MCTxOf == [e \in Events |-> IF e = 1 THEN t1 ELSE t2]
MCLedgerOf == [e \in Events |-> IF e = 1 THEN 1 ELSE 2]
MCScenes == {[staff |-> {p1, s1, s2}, chain |-> {1, 2}],
             [staff |-> {p1, s1, a1}, chain |-> {1}],
             [staff |-> {p1, p2}, chain |-> {1, 2, 3}]}
WithOperator == {[staff |-> {p1, s1, a1}, chain |-> {1}]}
=============================================================================
