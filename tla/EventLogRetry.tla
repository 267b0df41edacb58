--------------------------- MODULE EventLogRetry ---------------------------
(***************************************************************************)
(* services/eventLogRetryService.ts and the DLQ retries of dlqService.ts:  *)
(* sweeps over the failed entries that are due, and operators who retry    *)
(* one entry, directly or through its DLQ record.                          *)
(***************************************************************************)
EXTENDS EventLog

Entering(r, t, p, item) ==
    retry' = [retry EXCEPT ![r].pc = p, ![r].cur = t, ![r].item = item]

\* The attempt is over.  A sweep goes on with its batch, an operator is
\* answered, a DLQ retry records the outcome on its DLQ entry.
Return(r, rec, processed) ==
    IF r \in Sweepers
    THEN LET left == rec.todo \ {rec.cur}
         IN IF left = {} THEN IdleRetry
            ELSE [IdleRetry EXCEPT !.pc = "claim", !.todo = left, !.fresh = rec.fresh \cap left]
    ELSE IF rec.item = 0 THEN IdleRetry
    ELSE [IdleRetry EXCEPT !.cur = rec.cur, !.item = rec.item,
                           !.pc = IF processed THEN "dlqDone" ELSE "dlqBack"]

-----------------------------------------------------------------------------
(* Starting an attempt. *)

Due(t) == log[t].status = "failed" /\ ~log[t].dead /\ log[t].sched /\ log[t].wait = 0

\* retryDue reads a batch.  isRunning skips the tick while a sweep runs.
SweepFind(s) ==
    LET due == {t \in Txs : Due(t)}
    IN \E batch \in SUBSET due :
        /\ retry[s].pc = "idle"
        /\ batch # {}
        /\ Cardinality(batch) <= BatchSize
        /\ batch # due => Cardinality(batch) = BatchSize
        /\ retry' = [retry EXCEPT ![s].pc = "claim", ![s].todo = batch, ![s].fresh = batch]
        /\ UNCHANGED <<head, checkpoint, origin, log, dlq, applied, poll, faults>>

\* An operator asks for one entry, or for a DLQ entry that is not resolved.
AdminRetry(a) ==
    /\ retry[a].pc = "idle"
    /\ \E t \in Txs :
         /\ log[t].status # "absent" /\ log[t].retries < MaxAttempts + MaxRedrives
         /\ \/ Entering(a, t, "read", 0)
            \/ \E i \in DOMAIN dlq[t] : dlq[t][i] = "pending" /\ Entering(a, t, "dlqRead", i)
            \/ \E i \in DOMAIN dlq[t] : dlq[t][i] = "retried" /\ Entering(a, t, "read", i)
    /\ UNCHANGED <<head, checkpoint, origin, log, dlq, applied, poll, faults>>

\* retryEntry saves a pending DLQ entry as retried before it tries; one that
\* says so already keeps its status.
DlqMarkRetried(a) ==
    /\ retry[a].pc = "dlqRead"
    /\ dlq' = [dlq EXCEPT ![retry[a].cur][retry[a].item] = "retried"]
    /\ retry' = [retry EXCEPT ![a].pc = "read"]
    /\ UNCHANGED <<head, checkpoint, origin, log, applied, poll, faults>>

\* retryById refuses an entry that is not failed.
AdminRead(a) ==
    LET t == retry[a].cur
    IN /\ retry[a].pc = "read"
       /\ retry' = [retry EXCEPT ![a] =
            IF log[t].status = "failed"
            THEN [@ EXCEPT !.pc = "claim", !.todo = {t}, !.fresh = {t}, !.unset = ~log[t].sched]
            ELSE Return(a, @, FALSE)]
       /\ UNCHANGED <<head, checkpoint, origin, log, dlq, applied, poll, faults>>

\* Mutant: the nextRetryAt that was read is not in the filter.
ClaimableByAnyone(r, t) == log[t].status = "failed"

\* The filter of claim: still failed, and nextRetryAt the one that was read (or
\* null again, when null was read).
Claimable(r, t) ==
    log[t].status = "failed" /\ (t \in retry[r].fresh \/ (retry[r].unset /\ ~log[t].sched))

\* Mutant: claiming clears nextRetryAt instead of leasing it.
ClaimedForever(t) == [log EXCEPT ![t].sched = FALSE, ![t].wait = 0]

Claimed(t) == [log EXCEPT ![t].sched = TRUE, ![t].wait = Lease]

\* claim: one conditional update.  The copy it returns is what attempt uses.
Claim(r) ==
    \E t \in retry[r].todo :
        /\ retry[r].pc = "claim"
        /\ IF Claimable(r, t)
           THEN /\ log' = Claimed(t)
                /\ retry' = [Rescheduled(t) EXCEPT
                               ![r].pc = "replay", ![r].cur = t,
                               ![r].tries = log[t].retries + 1, ![r].dead = log[t].dead]
           ELSE /\ retry' = [retry EXCEPT ![r] = Return(r, [@ EXCEPT !.cur = t], FALSE)]
                /\ UNCHANGED log
        /\ UNCHANGED <<head, checkpoint, origin, dlq, applied, poll, faults>>

-----------------------------------------------------------------------------
(* attempt *)

\* The replayer fetches the event again and runs its handler.  It throws when
\* the handler does, and when the node no longer serves the event.
Replay(r) ==
    /\ retry[r].pc = "replay"
    /\ \/ /\ applied' = applied \cup {log[retry[r].cur].ev}
          /\ retry' = [retry EXCEPT ![r].pc = "succeeded"]
       \/ /\ retry' = [retry EXCEPT ![r].pc = "broken"]
          /\ UNCHANGED applied
    /\ UNCHANGED <<head, checkpoint, origin, log, dlq, poll, faults>>

RecordSuccess(r) ==
    LET t == retry[r].cur
    IN /\ retry[r].pc = "succeeded"
       /\ log' = [log EXCEPT ![t].status = "processed", ![t].retries = retry[r].tries,
                             ![t].sched = FALSE, ![t].wait = 0]
       /\ retry' = [Rescheduled(t) EXCEPT ![r] =
                      IF @.dead THEN [@ EXCEPT !.pc = "resolve"] ELSE Return(r, @, TRUE)]
       /\ UNCHANGED <<head, checkpoint, origin, dlq, applied, poll, faults>>

\* An entry re-driven after escalation no longer needs its DLQ records.
ResolveDlq(r) ==
    LET t == retry[r].cur
    IN /\ retry[r].pc = "resolve"
       /\ dlq' = [dlq EXCEPT ![t] = [i \in DOMAIN @ |-> "resolved"]]
       /\ retry' = [retry EXCEPT ![r] = Return(r, @, TRUE)]
       /\ UNCHANGED <<head, checkpoint, origin, log, applied, poll, faults>>

\* The entry e after retrier r's attempt failed; its status is left alone.
FailedEntry(e, r, exhausted) ==
    [e EXCEPT !.retries = r.tries, !.sched = ~exhausted,
              !.wait = IF exhausted THEN 0 ELSE RetryDelay(r.tries + 1),
              !.dead = @ \/ (exhausted /\ ~r.dead)]

\* recordFailure: written by _id alone, whatever became of the entry.
RecordFailure(r) ==
    LET t == retry[r].cur
        exhausted == retry[r].tries >= MaxAttempts
        escalate == exhausted /\ ~retry[r].dead
    IN /\ retry[r].pc = "broken"
       /\ log' = [log EXCEPT ![t] = FailedEntry(@, retry[r], exhausted)]
       /\ retry' = [Rescheduled(t) EXCEPT ![r] =
                      IF escalate THEN [@ EXCEPT !.pc = "escalate"] ELSE Return(r, @, FALSE)]
       /\ UNCHANGED <<head, checkpoint, origin, dlq, applied, poll, faults>>

\* dlqService.addEntry, a document of its own after the EventLog update.
Escalate(r) ==
    /\ retry[r].pc = "escalate"
    /\ dlq' = [dlq EXCEPT ![retry[r].cur] = Append(@, "pending")]
    /\ retry' = [retry EXCEPT ![r] = Return(r, @, FALSE)]
    /\ UNCHANGED <<head, checkpoint, origin, log, applied, poll, faults>>

\* retryEntry saves the outcome on the DLQ entry it was asked for.
DlqSaveOutcome(a) ==
    /\ retry[a].pc \in {"dlqDone", "dlqBack"}
    /\ dlq' = [dlq EXCEPT ![retry[a].cur][retry[a].item] =
                 IF retry[a].pc = "dlqDone" THEN "resolved" ELSE "pending"]
    /\ retry' = [retry EXCEPT ![a] = IdleRetry]
    /\ UNCHANGED <<head, checkpoint, origin, log, applied, poll, faults>>

Attempting == {"replay", "succeeded", "broken"}

\* What the retrier does once started.
RetryStep(r) ==
    \/ DlqMarkRetried(r) \/ AdminRead(r) \/ Claim(r) \/ Replay(r) \/ RecordSuccess(r)
    \/ ResolveDlq(r) \/ RecordFailure(r) \/ Escalate(r) \/ DlqSaveOutcome(r)

\* A database call throws: the sweep or the request ends there, except that
\* retryEntry's catch puts its DLQ entry back to pending.
RetryThrows(r) ==
    /\ retry[r].pc # "idle"
    /\ Fault
    /\ retry' = [retry EXCEPT ![r] =
         IF r \in Sweepers \/ @.pc \in {"dlqRead", "dlqBack"}
         THEN IdleRetry ELSE Return(r, @, FALSE)]
    /\ UNCHANGED <<head, checkpoint, origin, log, dlq, applied, poll>>

\* The process dies.
RetryCrashes(r) ==
    /\ retry[r].pc # "idle"
    /\ Fault
    /\ retry' = [retry EXCEPT ![r] = IdleRetry]
    /\ UNCHANGED <<head, checkpoint, origin, log, dlq, applied, poll>>
=============================================================================
