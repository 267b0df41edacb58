---------------------------- MODULE EventPoller ----------------------------
(***************************************************************************)
(* services/eventPoller.ts: a cycle of pollOnce, and ingest, one action    *)
(* per awaited call.  A handler (recordEscrowFunded) completes or throws;  *)
(* it is the subject of EscrowService, and idempotent.  Events arrive in   *)
(* ledger order, whatever the pages they come in.                          *)
(***************************************************************************)
EXTENDS EventLog

\* runCycle skips the tick while a cycle is in flight.
PollLatest(p) ==
    /\ poll[p].pc = "idle"
    /\ poll' = [poll EXCEPT ![p].pc = "checkpoint", ![p].to = head]
    /\ UNCHANGED <<head, checkpoint, origin, log, dlq, applied, retry, faults>>

\* With no checkpoint yet, begin at the head.
PollCheckpoint(p) ==
    LET to == poll[p].to
        from == IF checkpoint = None THEN to ELSE checkpoint + 1
    IN /\ poll[p].pc = "checkpoint"
       /\ poll' = [poll EXCEPT ![p] =
            IF from > to THEN IdlePoll
            ELSE [pc |-> "find", from |-> from, to |-> to,
                  todo |-> {e \in scene.chain : LedgerOf[e] \in from..to}, cur |-> None]]
       /\ UNCHANGED <<head, checkpoint, origin, log, dlq, applied, retry, faults>>

\* The next event of the cycle.
First(todo) == {e \in todo : \A f \in todo : e <= f}

Skip(p, e) ==
    poll' = [poll EXCEPT ![p].pc = "find", ![p].todo = @ \ {e}, ![p].cur = None]

\* Mutant: an entry on record is a duplicate, pending or not.
PollFindAnyRecord(p) ==
    \E e \in First(poll[p].todo) :
        /\ poll[p].pc = "find"
        /\ \/ log[TxOf[e]].status # "absent" /\ Skip(p, e)
           \/ /\ log[TxOf[e]].status = "absent"
              /\ poll' = [poll EXCEPT ![p].pc = "create", ![p].cur = e]
        /\ UNCHANGED <<head, checkpoint, origin, log, dlq, applied, retry, faults>>

\* An entry left pending by an interrupted cycle is processed again.
PollFind(p) ==
    \E e \in First(poll[p].todo) :
        LET status == log[TxOf[e]].status
        IN /\ poll[p].pc = "find"
           /\ \/ status \in {"processed", "failed"} /\ Skip(p, e)
              \/ /\ status = "absent"
                 /\ poll' = [poll EXCEPT ![p].pc = "create", ![p].cur = e]
              \/ /\ status = "pending"
                 /\ poll' = [poll EXCEPT ![p].pc = "handle", ![p].cur = e]
           /\ UNCHANGED <<head, checkpoint, origin, log, dlq, applied, retry, faults>>

\* The unique index on (transactionHash, eventType) makes the loser skip.
PollCreate(p) ==
    LET e == poll[p].cur
        t == TxOf[e]
    IN /\ poll[p].pc = "create"
       /\ IF log[t].status = "absent"
          THEN /\ log' = [log EXCEPT ![t] = [NoEntry EXCEPT !.status = "pending", !.ev = e]]
               /\ poll' = [poll EXCEPT ![p].pc = "handle"]
          ELSE Skip(p, e) /\ UNCHANGED log
       /\ UNCHANGED <<head, checkpoint, origin, dlq, applied, retry, faults>>

PollHandle(p) ==
    /\ poll[p].pc = "handle"
    /\ \/ /\ applied' = applied \cup {poll[p].cur}
          /\ poll' = [poll EXCEPT ![p].pc = "mark"]
       \/ /\ poll' = [poll EXCEPT ![p].pc = "markFailed"]
          /\ UNCHANGED applied
    /\ UNCHANGED <<head, checkpoint, origin, log, dlq, retry, faults>>

\* markAsProcessed; when it throws, the catch of the handler records a failure.
PollMark(p) ==
    LET e == poll[p].cur
    IN /\ poll[p].pc = "mark"
       /\ \/ /\ log' = [log EXCEPT ![TxOf[e]].status = "processed"]
             /\ Skip(p, e)
             /\ UNCHANGED faults
          \/ /\ Fault
             /\ poll' = [poll EXCEPT ![p].pc = "markFailed"]
             /\ UNCHANGED log
       /\ UNCHANGED <<head, checkpoint, origin, dlq, applied, retry>>

PollMarkFailed(p) ==
    LET t == TxOf[poll[p].cur]
    IN /\ poll[p].pc = "markFailed"
       /\ log' = [log EXCEPT ![t].status = "failed", ![t].sched = TRUE,
                             ![t].wait = RetryDelay(1)]
       /\ retry' = Rescheduled(t)
       /\ Skip(p, poll[p].cur)
       /\ UNCHANGED <<head, checkpoint, origin, dlq, applied, faults>>

\* The checkpoint is set unconditionally, failures or not.
PollCommit(p) ==
    /\ poll[p].pc = "find" /\ poll[p].todo = {}
    /\ checkpoint' = poll[p].to
    /\ origin' = IF origin = None THEN poll[p].from ELSE origin
    /\ poll' = [poll EXCEPT ![p] = IdlePoll]
    /\ UNCHANGED <<head, log, dlq, applied, retry, faults>>

PollStep(p) ==
    \/ PollLatest(p) \/ PollCheckpoint(p) \/ PollFind(p) \/ PollCreate(p)
    \/ PollHandle(p) \/ PollMark(p) \/ PollMarkFailed(p) \/ PollCommit(p)

\* The process dies, or a call throws out of pollOnce: the checkpoint stays.
PollFails(p) ==
    /\ poll[p].pc # "idle"
    /\ Fault
    /\ poll' = [poll EXCEPT ![p] = IdlePoll]
    /\ UNCHANGED <<head, checkpoint, origin, log, dlq, applied, retry>>
=============================================================================
