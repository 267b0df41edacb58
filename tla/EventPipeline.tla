--------------------------- MODULE EventPipeline ---------------------------
(***************************************************************************)
(* The path of a contract event: the chain, the pollers, the EventLog, the *)
(* retry sweeps, the operators and the dead letter queue as one system.    *)
(***************************************************************************)
EXTENDS EventPoller, EventLogRetry

LedgerCloses ==
    /\ head < MaxLedger
    /\ head' = head + 1
    /\ UNCHANGED <<checkpoint, origin, log, dlq, applied, poll, retry, faults>>

\* The lag monitor seeds a missing checkpoint at the network's ledger.
GetOrCreateIndexerStatus ==
    /\ checkpoint = None
    /\ checkpoint' = head
    /\ UNCHANGED <<head, origin, log, dlq, applied, poll, retry, faults>>

Waiting == {t \in Txs : log[t].wait > 0}

\* Time passes.  An attempt is over before the lease of its claim is.
Tick ==
    /\ Waiting # {}
    /\ \A r \in Retriers :
         retry[r].pc \in Attempting => log[retry[r].cur].wait # 1
    /\ log' = [t \in Txs |-> IF t \in Waiting THEN [log[t] EXCEPT !.wait = @ - 1] ELSE log[t]]
    /\ UNCHANGED <<head, checkpoint, origin, dlq, applied, poll, retry, faults>>

On(w) == w \in scene.staff /\ UNCHANGED scene

Poll(p) == On(p) /\ PollStep(p)
Sweep(s) == On(s) /\ SweepFind(s)
Retry(r) == On(r) /\ RetryStep(r)
Pass == Tick /\ UNCHANGED scene
Close == LedgerCloses /\ UNCHANGED scene

Next ==
    \/ \E p \in Pollers : Poll(p) \/ (On(p) /\ PollFails(p))
    \/ \E s \in Sweepers : Sweep(s)
    \/ \E a \in Admins : On(a) /\ AdminRetry(a)
    \/ \E r \in Retriers : Retry(r) \/ (On(r) /\ (RetryThrows(r) \/ RetryCrashes(r)))
    \/ Pass
    \/ Close
    \/ GetOrCreateIndexerStatus /\ UNCHANGED scene

Spec == Init /\ [][Next]_vars

(* The poller and the sweep run on timers, again and again; what they start
   the event loop drives to its end; time passes.  Nobody has to close a
   ledger, and no operator has to act. *)
FairSpec ==
    /\ Spec
    /\ \A p \in Pollers : WF_vars(Poll(p))
    /\ \A s \in Sweepers : WF_vars(Sweep(s))
    /\ \A r \in Retriers : WF_vars(Retry(r))
    /\ WF_vars(Pass)

-----------------------------------------------------------------------------
OnePoller == \E p \in Pollers : scene.staff \cap Pollers = {p}
NoOperator == scene.staff \cap Admins = {}

\* Entries, DLQ records and the copies the processes hold keep their shape.
TypeOK ==
    /\ scene \in Scenes
    /\ head \in Nat /\ checkpoint \in Nat \cup {None} /\ origin \in Nat \cup {None}
    /\ log \in [Txs -> Entry]
    /\ \A t \in Txs : \A i \in DOMAIN dlq[t] : dlq[t][i] \in DlqStatuses
    /\ applied \subseteq Events
    /\ poll \in [Pollers -> PollRec]
    /\ retry \in [Retriers -> RetryRec]
    /\ faults \in Nat

\* pollOnce advances the checkpoint past failures and survives crashes at any
\* await: still, with one poller, every transaction behind the checkpoint is on
\* record as failed, or as processed by a handler that completed for its event.
\* None is left out or left pending.
NothingIsSkipped ==
    OnePoller /\ origin # None =>
        \A e \in scene.chain :
            LedgerOf[e] \in origin..checkpoint =>
                LET entry == log[TxOf[e]]
                IN entry.status = "failed" \/ (entry.status = "processed" /\ entry.ev \in applied)

\* "A sweep on another instance [...] fails to match and skips the entry": two
\* sweeps never replay one entry at once, however stale their batches.
SweepsDoNotOverlap ==
    OnePoller /\ NoOperator =>
        \A r1, r2 \in Retriers :
            /\ r1 # r2
            /\ retry[r1].pc \in Attempting /\ retry[r2].pc \in Attempting
            => retry[r1].cur # retry[r2].cur

\* Retries end: an entry is dead-lettered when its attempts are used up and not
\* before, and (when no call fails in between) it has one DLQ record by then.
EscalatedOnce ==
    OnePoller /\ NoOperator =>
        \A t \in Txs : log[t].dead =>
            /\ log[t].retries = MaxAttempts
            /\ faults = 0 => \/ Len(dlq[t]) = 1
                             \/ \E r \in Retriers : retry[r].pc = "escalate" /\ retry[r].cur = t

\* Retrying as a whole: one sweep at a time replays an entry, it is escalated
\* once, and entries and copies keep their shape.
RetriesAreOrderly == TypeOK /\ SweepsDoNotOverlap /\ EscalatedOnce

\* The claim of a retrier: "An admin retry racing the sweep then fails to match
\* and skips the entry instead of running the handler twice."
OneAttemptAtATime ==
    \A r1, r2 \in Retriers :
        /\ r1 # r2
        /\ retry[r1].pc \in Attempting /\ retry[r2].pc \in Attempting
        => retry[r1].cur # retry[r2].cur

\* Every event on the chain after the checkpoint ends up processed or in the
\* hands of an operator, however often its handler throws and whichever call
\* or process fails on the way.
EveryEventIsSettled ==
    \A e \in Events :
        e \in scene.chain /\ OnePoller /\ checkpoint # None /\ LedgerOf[e] > checkpoint /\ LedgerOf[e] <= head
            ~> log[TxOf[e]].status = "processed" \/ log[TxOf[e]].dead
=============================================================================
