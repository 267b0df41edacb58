------------------------------ MODULE Webhooks ------------------------------
(***************************************************************************)
(* services/webhookService.ts and jobs/webhookRetryJob.ts: a delivery      *)
(* event is dispatched to the merchant's subscriptions, at once or in a    *)
(* batch held in memory, and what fails is retried by the sweep of every   *)
(* server process.  One action per awaited call; the merchant's server     *)
(* answers, refuses, or takes the event and its answer is lost.            *)
(***************************************************************************)
EXTENDS Naturals, FiniteSets

CONSTANTS
    Events,        \* delivery events, each dispatched once
    Subs,          \* webhook subscriptions of the merchant
    Procs,         \* server processes
    Scenes,        \* which processes and events there are, which subscriptions batch,
                   \* whether merchants act
    MaxRetries,    \* WEBHOOK_MAX_RETRIES
    BatchSize,     \* WEBHOOK_RETRY_BATCH_SIZE
    MaxFaults      \* bound on failing saves, lost answers and crashes

ASSUME WebhooksAssumption ==
    /\ IsFiniteSet(Procs)
    /\ MaxRetries \in Nat \ {0} /\ BatchSize \in Nat \ {0} /\ MaxFaults \in Nat
    /\ Scenes \subseteq [procs: SUBSET Procs, events: SUBSET Events, batching: SUBSET Subs,
                         merchantActs: BOOLEAN]

\* One WebhookDeliveryAttempt per event and subscription.
Attempts == Events \X Subs

VARIABLES
    scene,
    sub,       \* WebhookSubscription documents
    att,       \* WebhookDeliveryAttempt documents
    disp,      \* dispatchDeliveryEvent of each event
    batch,     \* pendingBatches of each process
    flight,    \* the sends each process has under way
    tried,     \* POSTs made for an attempt
    got,       \* how often the merchant took it: 0, 1, or 2 for more
    faults

webhookVars == <<scene, sub, att, disp, batch, flight, tried, got, faults>>

SubDoc == [live: {"active", "inactive", "deleted"}, batch: BOOLEAN]

\* due: nextRetryAt is null, in the future, or past.
AttemptDoc == [status: {"absent", "pending", "success", "failed", "exhausted"},
               attempts: Nat, due: {"null", "later", "now"}]

NoAttempt == [status |-> "absent", attempts |-> 0, due |-> "null"]

DispRec == [pc: {"idle", "find", "create", "done"}, todo: SUBSET Subs, batched: SUBSET Subs]

\* n: attemptNumber; was: status of the copy in memory; mates: the attempts of one POST.
FlightRec == [pc: {"idle", "lookup", "post", "missing", "taken", "saved", "refused"},
              kind: {"first", "batch", "sweep"}, n: Nat,
              was: {"absent", "pending", "success", "failed"}, mates: SUBSET Attempts]

NoFlight == [pc |-> "idle", kind |-> "first", n |-> 0, was |-> "absent", mates |-> {}]

Fault == faults < MaxFaults /\ faults' = faults + 1

WebhookInit ==
    /\ scene \in Scenes
    /\ sub = [s \in Subs |-> [live |-> "active", batch |-> s \in scene.batching]]
    /\ att = [a \in Attempts |-> NoAttempt]
    /\ disp = [e \in Events |-> [p \in Procs |-> [pc |-> "idle", todo |-> {}, batched |-> {}]]]
    /\ batch = [p \in Procs |-> [s \in Subs |-> {}]]
    /\ flight = [p \in Procs |-> [a \in Attempts |-> NoFlight]]
    /\ tried = [a \in Attempts |-> 0]
    /\ got = [a \in Attempts |-> 0]
    /\ faults = 0

-----------------------------------------------------------------------------
(* dispatchDeliveryEvent *)

\* The milestone's process calls it, once per event.
Dispatch(p, e) ==
    /\ e \in scene.events
    /\ \A q \in Procs : disp[e][q].pc = "idle"
    /\ disp' = [disp EXCEPT ![e][p].pc = "find"]
    /\ UNCHANGED <<sub, att, batch, flight, tried, got, faults>>

FindSubscriptions(p, e) ==
    LET active == {s \in Subs : sub[s].live = "active"}
    IN /\ disp[e][p].pc = "find"
       /\ disp' = [disp EXCEPT ![e][p] =
            [pc |-> IF active = {} THEN "done" ELSE "create", todo |-> active,
             batched |-> {s \in active : sub[s].batch}]]
       /\ UNCHANGED <<sub, att, batch, flight, tried, got, faults>>

Created(p, e, s) ==
    disp' = [disp EXCEPT ![e][p].todo = @ \ {s},
                         ![e][p].pc = IF disp[e][p].todo = {s} THEN "done" ELSE @]

\* createAndSendAttempt: the subscription read before is not looked at again.
CreateAndSend(p, e, s) ==
    /\ s \in disp[e][p].todo \ disp[e][p].batched
    /\ att' = [att EXCEPT ![<<e, s>>] = [NoAttempt EXCEPT !.status = "pending"]]
    /\ flight' = [flight EXCEPT ![p][<<e, s>>] =
                    [pc |-> "post", kind |-> "first", n |-> 1, was |-> "pending",
                     mates |-> {<<e, s>>}]]
    /\ Created(p, e, s)
    /\ UNCHANGED <<sub, batch, tried, got, faults>>

\* Mutant: while a batch is being sent its items are still the queue's, and
\* the queue is dropped afterwards.
QueueBatchedWhileFlushing(p, e, s) ==
    /\ s \in disp[e][p].todo \cap disp[e][p].batched
    /\ att' = [att EXCEPT ![<<e, s>>] = [NoAttempt EXCEPT !.status = "pending"]]
    /\ batch' = IF \E f \in Events : flight[p][<<f, s>>].pc = "post" THEN batch
                ELSE [batch EXCEPT ![p][s] = @ \cup {<<e, s>>}]
    /\ Created(p, e, s)
    /\ UNCHANGED <<sub, flight, tried, got, faults>>

\* queueBatchedAttempt: on record as pending, and in memory until the timer fires.
QueueBatched(p, e, s) ==
    /\ s \in disp[e][p].todo \cap disp[e][p].batched
    /\ att' = [att EXCEPT ![<<e, s>>] = [NoAttempt EXCEPT !.status = "pending"]]
    /\ batch' = [batch EXCEPT ![p][s] = @ \cup {<<e, s>>}]
    /\ Created(p, e, s)
    /\ UNCHANGED <<sub, flight, tried, got, faults>>

\* The insert fails; dispatchDeliveryEvent logs it, the other inserts go on.
CreateThrows(p, e, s) ==
    /\ s \in disp[e][p].todo
    /\ Fault
    /\ Created(p, e, s)
    /\ UNCHANGED <<sub, att, batch, flight, tried, got>>

\* flushBatch: the queue is emptied before the POST, with the webhook as it
\* was when the queue was opened.
FlushBatch(p, s) ==
    LET items == batch[p][s]
    IN /\ items # {}
       /\ flight' = [flight EXCEPT ![p] =
            [a \in Attempts |-> IF a \in items
                                THEN [pc |-> "post", kind |-> "batch", n |-> 1,
                                      was |-> "pending", mates |-> items]
                                ELSE @[a]]]
       /\ batch' = [batch EXCEPT ![p][s] = {}]
       /\ UNCHANGED <<sub, att, disp, tried, got, faults>>

-----------------------------------------------------------------------------
(* The retry sweep *)

\* Mutant: attempts that were never tried count as due.
RetryableOrPending(a) ==
    att[a].status = "pending" \/ (att[a].status = "failed" /\ att[a].due = "now")

Retryable(a) == att[a].status = "failed" /\ att[a].due = "now"

\* isRunning: not while a send of this process's last sweep is under way.  (A send
\* that throws ends the sweep before its mates; a second sweep of the process is
\* then to them what one of another process is.)
Sweep(p) ==
    LET due == {a \in Attempts : Retryable(a)}
    IN \E some \in SUBSET due :
        /\ some # {} /\ Cardinality(some) <= BatchSize
        /\ some # due => Cardinality(some) = BatchSize
        /\ \A a \in Attempts : flight[p][a].kind = "sweep" => flight[p][a].pc = "idle"
        /\ flight' = [flight EXCEPT ![p] =
             [a \in Attempts |-> IF a \in some
                                 THEN [pc |-> "lookup", kind |-> "sweep", n |-> att[a].attempts + 1,
                                       was |-> att[a].status, mates |-> {a}]
                                 ELSE @[a]]]
        /\ UNCHANGED <<sub, att, disp, batch, tried, got, faults>>

\* sendAttempt looks the subscription up again, as it is now.
LookUp(p, a) ==
    /\ flight[p][a].pc = "lookup"
    /\ flight' = [flight EXCEPT ![p][a].pc =
                    IF sub[a[2]].live = "active" THEN "post" ELSE "missing"]
    /\ UNCHANGED <<sub, att, disp, batch, tried, got, faults>>

SaveMissing(p, a) ==
    /\ flight[p][a].pc = "missing"
    /\ att' = [att EXCEPT ![a].status = "exhausted", ![a].due = "null"]
    /\ flight' = [flight EXCEPT ![p][a] = NoFlight]
    /\ UNCHANGED <<sub, disp, batch, tried, got, faults>>

-----------------------------------------------------------------------------
(* The POST and its outcome *)

Outcome(p, mates, outcome) ==
    /\ flight' = [flight EXCEPT ![p] =
         [m \in Attempts |-> IF m \in mates THEN [@[m] EXCEPT !.pc = outcome] ELSE @[m]]]
    /\ tried' = [m \in Attempts |-> IF m \in mates THEN tried[m] + 1 ELSE tried[m]]

Taken(mates) ==
    got' = [m \in Attempts |-> IF m \in mates /\ got[m] < 2 THEN got[m] + 1 ELSE got[m]]

Post(p, a) ==
    LET mates == flight[p][a].mates
    IN /\ flight[p][a].pc = "post"
       /\ \/ Outcome(p, mates, "taken") /\ Taken(mates) /\ UNCHANGED faults
          \/ Outcome(p, mates, "refused") /\ UNCHANGED <<got, faults>>
          \/ Outcome(p, mates, "refused") /\ Taken(mates) /\ Fault
       /\ UNCHANGED <<sub, att, disp, batch>>

\* The success of each mate is saved by itself; the last one ends the send.
SaveSuccess(p, a) ==
    LET f == flight[p][a]
        over == \A m \in f.mates \ {a} : flight[p][m].pc = "saved"
    IN /\ f.pc = "taken"
       /\ att' = [att EXCEPT ![a] = [status |-> "success", attempts |-> f.n, due |-> "null"]]
       /\ flight' = [flight EXCEPT ![p] =
            [m \in Attempts |-> IF m \in f.mates /\ over THEN NoFlight
                                ELSE IF m = a THEN [@[a] EXCEPT !.pc = "saved"] ELSE @[m]]]
       /\ UNCHANGED <<sub, disp, batch, tried, got, faults>>

\* m goes on without its mates.
Alone(f, m) == [f EXCEPT !.mates = {m}]
Thrown(f, m, n) == [Alone(f, m) EXCEPT !.pc = "refused", !.n = n, !.was = "success"]

\* A save of a success throws into the same catch as the POST: this attempt
\* and, of a batch, the ones saved already are recorded as failed.  The copies
\* in memory have counted this try, and flushBatch counts it again.
SaveSuccessThrows(p, a) ==
    LET f == flight[p][a]
        hit == {a} \cup {m \in f.mates : flight[p][m].pc = "saved"}
        again == IF f.kind = "batch" THEN f.n + 1 ELSE f.n
    IN /\ f.pc = "taken"
       /\ Fault
       /\ flight' = [flight EXCEPT ![p] =
            [m \in Attempts |-> IF m \in hit THEN Thrown(@[m], m, again)
                                ELSE IF m \in f.mates THEN Alone(@[m], m) ELSE @[m]]]
       /\ UNCHANGED <<sub, att, disp, batch, tried, got>>

\* Mutant: the whole document is written, unchanged paths included.
FailedDocWhole(doc, f) ==
    IF f.n >= MaxRetries
    THEN [status |-> "exhausted", attempts |-> f.n, due |-> "null"]
    ELSE [status |-> "failed", attempts |-> f.n, due |-> "later"]

\* mongoose saves the paths that changed: a status that was failed in the copy
\* and is failed again is not among them.
FailedDoc(doc, f) ==
    IF f.n >= MaxRetries
    THEN [status |-> "exhausted", attempts |-> f.n, due |-> "null"]
    ELSE [doc EXCEPT !.status = IF f.was = "failed" THEN @ ELSE "failed",
                     !.attempts = f.n, !.due = "later"]

SaveFailure(p, a) ==
    /\ flight[p][a].pc = "refused"
    /\ att' = [att EXCEPT ![a] = FailedDoc(@, flight[p][a])]
    /\ flight' = [flight EXCEPT ![p][a] = NoFlight]
    /\ UNCHANGED <<sub, disp, batch, tried, got, faults>>

\* The save of a failure throws out of the send; the document stays as it is.
SaveFailureThrows(p, a) ==
    /\ flight[p][a].pc \in {"refused", "missing", "lookup"}
    /\ Fault
    /\ flight' = [flight EXCEPT ![p][a] = NoFlight]
    /\ UNCHANGED <<sub, att, disp, batch, tried, got>>

-----------------------------------------------------------------------------
(* Merchants, time and crashes *)

\* updateWebhook (isActive, allowBatch) and deleteWebhook.
UpdateWebhook(s) ==
    /\ sub[s].live # "deleted"
    /\ \E doc \in SubDoc : doc # sub[s] /\ sub' = [sub EXCEPT ![s] = doc]
    /\ UNCHANGED <<att, disp, batch, flight, tried, got, faults>>

\* nextRetryAt passes.
Ripen(a) ==
    /\ att[a].due = "later"
    /\ att' = [att EXCEPT ![a].due = "now"]
    /\ UNCHANGED <<sub, disp, batch, flight, tried, got, faults>>

\* A process dies, with its batches; it is restarted.
Crash(p) ==
    /\ Fault
    /\ flight' = [flight EXCEPT ![p] = [a \in Attempts |-> NoFlight]]
    /\ batch' = [batch EXCEPT ![p] = [s \in Subs |-> {}]]
    /\ disp' = [e \in Events |-> [disp[e] EXCEPT ![p].pc = IF @ = "idle" THEN @ ELSE "done",
                                                 ![p].todo = {}]]
    /\ UNCHANGED <<sub, att, tried, got>>

\* What process p does about event e, and about attempt a, once begun.
Dispatching(p, e) ==
    FindSubscriptions(p, e) \/ \E s \in Subs : CreateAndSend(p, e, s) \/ QueueBatched(p, e, s)

Sending(p, a) ==
    LookUp(p, a) \/ SaveMissing(p, a) \/ Post(p, a) \/ SaveSuccess(p, a) \/ SaveFailure(p, a)

On(p) == p \in scene.procs /\ UNCHANGED scene

WebhookStep ==
    \/ \E p \in Procs :
         /\ On(p)
         /\ \/ \E e \in Events : Dispatch(p, e) \/ Dispatching(p, e) \/ \E s \in Subs : CreateThrows(p, e, s)
            \/ \E s \in Subs : FlushBatch(p, s)
            \/ Sweep(p)
            \/ \E a \in Attempts : Sending(p, a) \/ SaveSuccessThrows(p, a) \/ SaveFailureThrows(p, a)
            \/ Crash(p)
    \/ \E s \in Subs : scene.merchantActs /\ UpdateWebhook(s) /\ UNCHANGED scene
    \/ \E a \in Attempts : Ripen(a) /\ UNCHANGED scene

-----------------------------------------------------------------------------
OneProcess == Cardinality(scene.procs) = 1
Settled(a) == att[a].status \in {"success", "exhausted"}

\* Documents and the copies in flight keep their shape.
WebhookTypeOK ==
    /\ scene \in Scenes
    /\ sub \in [Subs -> SubDoc]
    /\ att \in [Attempts -> AttemptDoc]
    /\ disp \in [Events -> [Procs -> DispRec]]
    /\ batch \in [Procs -> [Subs -> SUBSET Attempts]]
    /\ flight \in [Procs -> [Attempts -> FlightRec]]
    /\ tried \in [Attempts -> Nat] /\ got \in [Attempts -> 0..2] /\ faults \in Nat

\* With one process and nothing failing, a merchant gets each event at most
\* once, although first sends, batches and sweeps run side by side.
DeliveredOnce == OneProcess /\ faults = 0 => \A a \in Attempts : got[a] <= 1

\* "up to WEBHOOK_MAX_RETRIES attempts": an attempt is given up only after that
\* many POSTs, also when sweeps of two processes overwrite each other's count,
\* and one process makes no more than that.
RetryBudget ==
    faults = 0 /\ ~scene.merchantActs =>
        \A a \in Attempts :
            /\ att[a].status = "exhausted" => tried[a] >= MaxRetries
            /\ OneProcess => tried[a] <= MaxRetries

\* What is sent is bounded, below and above.
SendsAreBounded == WebhookTypeOK /\ DeliveredOnce /\ RetryBudget

\* A late failure of one sweep does not put an attempt that another one settled
\* back in the queue, as long as no save fails.
SettledIsNotRetried ==
    [][\A a \in Attempts : faults' = 0 /\ Settled(a) => att'[a].status \in {"success", "exhausted"}]_webhookVars

\* Every event on record is delivered or given up in the end, unless a fault
\* left it pending, for the sweep looks for failed attempts only; whatever has
\* failed once is settled, faults or not.
DispatchedIsSettled ==
    \A a \in Attempts :
        att[a].status # "absent" ~> Settled(a) \/ (faults > 0 /\ att[a].status = "pending")
=============================================================================
