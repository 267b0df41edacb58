------------------------------ MODULE EventLog ------------------------------
(***************************************************************************)
(* What the event poller and the retriers share: the chain, the EventLog   *)
(* collection, the indexer checkpoint, the dead letter queue, and what the *)
(* event handlers have applied.                                            *)
(*                                                                         *)
(* Time is kept as what is left of it: an entry's nextRetryAt is due when  *)
(* its wait has run down to 0.  A timestamp is never written twice, so     *)
(* "nextRetryAt is still the one I read" is kept as the set of entries     *)
(* nobody has rescheduled since.                                           *)
(***************************************************************************)
EXTENDS Naturals, Sequences, FiniteSets

CONSTANTS
    Txs,           \* transaction hashes: with one subscribed event type, the dedupe key
    Events,        \* contract events, by their position on the chain
    TxOf,          \* the transaction of each event
    LedgerOf,      \* the ledger of each event
    Pollers,       \* server processes that run the event poller
    Sweepers,      \* server processes that run the EventLog retry job
    Admins,        \* operators
    Scenes,        \* which of these take part in a behaviour, and which events happen
    MaxAttempts,   \* EVENTLOG_RETRY_MAX_ATTEMPTS
    BaseDelay,     \* EVENTLOG_RETRY_BASE_MS, in clock units
    MaxDelay,      \* EVENTLOG_RETRY_MAX_MS, in clock units
    Lease,         \* CLAIM_LEASE_MS, in clock units
    BatchSize,     \* EVENTLOG_RETRY_BATCH_SIZE
    MaxLedger,     \* bound on the chain
    MaxFaults,     \* bound on crashes and failing database calls
    MaxRedrives,   \* bound on attempts operators add to an entry
    None           \* no checkpoint, nothing chosen

Retriers == Sweepers \cup Admins

ASSUME EventLogAssumption ==
    /\ TxOf \in [Events -> Txs]
    /\ Events \subseteq Nat
    /\ LedgerOf \in [Events -> 1..MaxLedger]
    /\ \A e, f \in Events : e <= f => LedgerOf[e] <= LedgerOf[f]
    /\ \A e, f \in Events : TxOf[e] = TxOf[f] => LedgerOf[e] = LedgerOf[f]
    /\ Scenes \subseteq [staff: SUBSET (Pollers \cup Retriers), chain: SUBSET Events]
    /\ MaxAttempts \in Nat \ {0} /\ BatchSize \in Nat \ {0} /\ Lease \in Nat \ {0}
    /\ BaseDelay \in Nat \ {0} /\ MaxDelay \in Nat /\ BaseDelay <= MaxDelay
    /\ MaxLedger \in Nat /\ MaxFaults \in Nat /\ MaxRedrives \in Nat
    /\ None \notin Nat \cup Txs

VARIABLES
    scene,        \* the processes, operators and events of this behaviour
    head,         \* latest closed ledger
    checkpoint,   \* IndexerStatus.lastProcessedLedger
    origin,       \* first ledger of the first cycle that completed
    log,          \* EventLog entries by transaction
    dlq,          \* the DLQ entries of each transaction's event
    applied,      \* events whose handler has completed
    poll,         \* the pollers
    retry,        \* the retriers
    faults

vars == <<scene, head, checkpoint, origin, log, dlq, applied, poll, retry, faults>>

Statuses == {"absent", "pending", "processed", "failed"}

Waits == 0..(IF Lease > MaxDelay THEN Lease ELSE MaxDelay)

\* sched: nextRetryAt is set; wait: the time until then; dead: deadLetteredAt.
Entry == [status: Statuses, ev: Events \cup {None}, retries: Nat,
          sched: BOOLEAN, wait: Waits, dead: BOOLEAN]

NoEntry == [status |-> "absent", ev |-> None, retries |-> 0,
            sched |-> FALSE, wait |-> 0, dead |-> FALSE]

DlqStatuses == {"pending", "retried", "resolved"}

PollRec == [pc: {"idle", "checkpoint", "find", "create", "handle", "mark", "markFailed"},
            from: Nat, to: Nat, todo: SUBSET Events, cur: Events \cup {None}]

IdlePoll == [pc |-> "idle", from |-> 0, to |-> 0, todo |-> {}, cur |-> None]

RetryPcs == {"idle", "dlqRead", "read", "claim", "replay", "succeeded", "resolve",
             "broken", "escalate", "dlqDone", "dlqBack"}

\* fresh: the entries whose nextRetryAt is still the one this retrier read;
\* unset: it read an entry without a nextRetryAt, as an exhausted one has none;
\* tries, dead: attemptNumber and deadLetteredAt of the claimed copy;
\* item: the DLQ entry an operator retries, 0 for the EventLog endpoint.
RetryRec == [pc: RetryPcs, todo: SUBSET Txs, fresh: SUBSET Txs, unset: BOOLEAN, cur: Txs \cup {None},
             tries: Nat, dead: BOOLEAN, item: Nat]

IdleRetry == [pc |-> "idle", todo |-> {}, fresh |-> {}, unset |-> FALSE, cur |-> None,
              tries |-> 0, dead |-> FALSE, item |-> 0]

\* eventLogRetryDelayMs: doubles per attempt (1-based), up to the cap.
RetryDelay(attempt) ==
    LET exponent == IF attempt = 0 THEN 0 ELSE attempt - 1
        delay == BaseDelay * 2^exponent
    IN IF delay < MaxDelay THEN delay ELSE MaxDelay

\* nextRetryAt of entry t is written: nobody's copy of it is current any more.
Rescheduled(t) == [r \in Retriers |-> [retry[r] EXCEPT !.fresh = @ \ {t}]]

Fault == faults < MaxFaults /\ faults' = faults + 1

Init ==
    /\ scene \in Scenes
    /\ head = 1
    /\ checkpoint \in {None, 0}
    /\ origin = None
    /\ log = [t \in Txs |-> NoEntry]
    /\ dlq = [t \in Txs |-> <<>>]
    /\ applied = {}
    /\ poll = [p \in Pollers |-> IdlePoll]
    /\ retry = [r \in Retriers |-> IdleRetry]
    /\ faults = 0
=============================================================================
