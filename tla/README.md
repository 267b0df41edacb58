# SwiftChain backend: TLA+ models, checks and proofs

SwiftChain is a logistics backend (TypeScript, Express, MongoDB, Redis, Stellar/Soroban). A merchant
creates a delivery, the payer locks the fee in an escrow contract, a driver carries the parcel and uploads
a proof of delivery, and the escrow is released, refunded, or expires. The server learns of on-chain events
by polling, and several background jobs sweep what was left behind.

Nothing in the backend runs in a database transaction. A handler is a chain of awaited calls, and between
two awaits any other request, job or server process may run; each call may fail, and the process may die.
That is what these models are about: **one action per awaited call**, with the copies a handler read earlier
kept in its own state, and everything interleaved.

Paths below are relative to `src/src/` unless they say otherwise.

## 1. Inventory

### Modelled

| Component | State | Operations | Interacts with |
|---|---|---|---|
| Escrow service, `services/escrow.service.ts` | Escrow documents, Redis locks, audit log | `recordEscrowFunded`, `releaseEscrow`, `resolveEscrow`, `retryExpiredEscrow`, the two scans | writes deliveries, milestones; called by HTTP, by the poller, by the monitor |
| Delivery service, `services/delivery.service.ts`, `proofOfDeliveryService.ts` | Delivery documents | `create`, `update`, `updateStatus`, `assignDriver`, `archive`, `restore`, proof upload | reads escrows; emits milestones, except `update` and a bulk import, which writes here too |
| Milestone log, `repositories/DeliveryEventRepository.ts` | DeliveryEvent documents, unique on (delivery, seq) | `append` | every status change; notifications, webhooks, sockets consume |
| Escrow indexer, `services/escrowIndexerService.ts`, `indexer/escrowHandlers.ts` | Escrow documents | the three event handlers, the three syncs an operator asks for | the chain settles what HTTP settles too |
| Escrow monitor, `jobs/escrowMonitor.ts` | `isRunning` of each process | expiry scan, funding-window scan | escrows, deliveries, milestones |
| Event poller, `services/eventPoller.ts` | EventLog, IndexerStatus checkpoint | `pollOnce`, `ingest` | calls `recordEscrowFunded` |
| EventLog retry, `services/eventLogRetryService.ts` | EventLog (`nextRetryAt`, `retryCount`, `deadLetteredAt`) | sweep, claim, attempt, escalate | poller, DLQ, operators |
| Dead letter queue, `services/dlqService.ts` | DlqEntry documents | `addEntry`, `retryEntry`, resolve | retry service, escrow locks, operators |
| Lag monitor, `services/monitorService.ts` | IndexerStatus, IndexerAlert | `recordProcessedLedger`, `checkIndexerLag` | reputation events, the RPC node, an alert webhook |
| Stellar client, `services/stellarService.ts`, `transactionService.ts`, `blockchain/soroban.service.ts`, `utils/rpcRetry.ts`, `utils/circuitBreaker.ts` | two circuit breakers, submissions in flight | reads, building, submitting, polling | the node, the payer's wallet, the DLQ |
| Idempotency keys, `middlewares/idempotency.ts`, `services/idempotency.service.ts` | the key in Redis, the IdempotencyRecord in MongoDB | lookup, `markProcessing`, `markCompleted`, `markFailed` | wraps the handlers of money-moving endpoints |
| Webhooks, `services/webhookService.ts`, `jobs/webhookRetryJob.ts` | subscriptions, delivery attempts, batches in memory | dispatch, batch, flush, send, retry sweep, changes by the merchant | told by the milestone log; the merchant's server |
| Driver ratings, `services/driverRatingService.ts`, `indexer/reputationHandlers.ts` | DriverProfile documents | sweep, evaluation on demand, reputation events | deliveries (the history), the chain |
| Socket message queue and connections, `sockets/messageQueue.ts`, `socket.service.ts` | queue, ACK timers, emitter, registry | enqueue, send, ACK, timeout, flush, health checks, token refresh | drivers' sockets |
| Live location and offline sync, `sockets/location.service.ts`, `sync.service.ts` | LocationUpdate documents, last fix and dedup keys in Redis | a live update, a batch | drivers' sockets, the room of the delivery |
| Chat, `sockets/connectionHandler.ts`, `chatMessage.service.ts`, `services/deliveryChatService.ts` | rooms, ChatMessage documents | join, leave, message, read receipt | the delivery's driver, who may be replaced |
| Driver assignment and pooling, `services/assignmentService.ts`, `poolingService.ts` | DriverLocation, Delivery, a lease in Redis | nearest-driver search, sweep, pools and routes, an admin's direct assignment | escrows (must be locked) |
| Disputes, `services/disputeService.ts`, `indexer/disputeHandlers.ts` | Dispute documents | open, resolve, add and replace evidence, chain events | deliveries |
| Fleets, `services/fleetService.ts`, `controllers/fleetController.ts` | Fleet, FleetInvitation | members, invitations, answers | users |
| Merchant onboarding, `services/onboardingService.ts` | MerchantOnboarding, User, Fleet, WebhookSubscription | intent, wallet proof, activation, rollback | notifications |
| Accounts and files, `services/userService.ts`, `profilePicture.service.ts`, `evidenceService.ts` | User documents, stored files, evidence | register, wallet, suspend, delete, restore, pictures, evidence | the storage driver |
| Bulk import, `services/bulkDeliveryService.ts`, `utils/csvParser.ts` | deliveries by tracking number | tokenize, validate, insert, report | other uploads |
| Push notifications, `services/notificationService.ts`, `repositories/NotificationPreferenceRepository.ts`, `services/push/fcmProvider.ts` | NotificationPreference, Notification, the provider's access token | register, remove, dispatch, prune | FCM |

What makes each hard, and what makes it correct:

* **Escrow and delivery**: release, resolution, chain events and scans settle one document without a common lock; funds go out once, with proof,
  and both documents follow their life cycles. Validation and update are separate awaits, and the escrow side writes the delivery's status unconditionally.
* **Milestone log**: numbers 1, 2, 3, ... per delivery, though each writer computes the next one from an old read.
* **Indexer**: duplicated, reordered and racing chain events settle an escrow once; an operator is told the truth about what was applied.
* **Monitor**: whatever is overdue is eventually swept, and a scan never acts on a document that has moved on.
* **Event pipeline**: no event behind the checkpoint is lost, whichever call fails; a failed one is retried by
  one retrier at a time, a bounded number of times, and then handed to an operator.
* **Lag monitor**: the checkpoint never goes back and a lagging indexer is reported, although events write it in any order and answers may be degraded.
* **Chain client**: a submission times out and may have been accepted; what the client is told must be true all the same, every call ends, and a breaker that opened lets reads through again.
* **Idempotency keys**: one run per key, and the same answer for every retry, over lookups and writes in two stores, either of which may fail between any two awaits.
* **Webhooks**: each event is delivered or given up, within its budget of attempts, although nothing claims an attempt and a batch lives only in memory.
* **Ratings**: older counts may be written over newer ones; in the end every rating is that of the whole history.
* **Message queue and connections**: nothing unacknowledged is lost but to the bound, nothing acknowledged is sent again, dead connections go.
* **Live location**: a fix is heard once and in order; what the driver's buffer drops is stored.
* **Chat**: whatever a tab was shown is on record, and a reader has one receipt, although sockets and HTTP mark at once.
* **Assignment and pooling**: a driver gets one delivery, and is freed again when the assignment falls through; pools and routes can be driven.
* **Disputes, fleets, onboarding, accounts, import, push**: whole arrays saved over one another, four documents created without a transaction, documents and files written apart,
  partial inserts reported by index, a token that changes hands.

### Not modelled

| Part | Why |
|---|---|
| Graceful shutdown (`services/gracefulShutdownService.ts`, `middleware/requestTracker.ts`) | Nothing constructs `GracefulShutdownService`. The signal handler of `server.ts` (59-77) stops the jobs and exits; what that does to a request (it is cut off between two awaits) is the crash the other modules model. |
| Delivery event handlers (`indexer/deliveryHandlers.ts`) | One unconditional update of a delivery's status per posted event: the write `Settlement` has as `UpdateDelivery`, with no state of its own. |
| Drivers and earnings, dashboards and searches | Reads, aggregations and single-document writes that interact with nothing. |
| Pricing, ETA, routing, currencies, geohash | Floating-point arithmetic on answers of external services: outside what TLC computes with. |
| HTTP surface, validation, rate limiting | A request reaches the models as the call of a service method. |
| Health, metrics, logging | Observe only. |
| Configuration, database connection, API documents, load tests | Parsing and I/O; the settings that bound behaviour are CONSTANTS. |

`PROJECT.json` lists every part with its reason, and under "hazards" each place where the code can go wrong in a way a test would
hardly reach, with the properties aimed at it or the reason there is none. The fleet, chat, dispute and account modules leave out
the operations that only read.

## 2. Modules

```
Store --> EscrowService --> EscrowMonitor --+
  |-----> DeliveryService ------------------+--> Settlement --> MCSettlement
  |-----> EscrowIndexer --------------------+        |    \--> Settlement_proofs
                                  Lifecycle <--------+ (refined twice)
EventLog --> EventPoller ---+
  |--------> EventLogRetry -+--> EventPipeline --> MCEventPipeline
                                          \--> EventPipeline_proofs
SorobanService --> Submission --+
LagMonitor ---------------------+--> ChainClient --> ChainClient_proofs
Webhooks, DriverRatings -----------> Jobs --> MCJobs
                                         \--> Jobs_proofs
MessageQueue --> MessageQueue_proofs
Dispatch, Pooling, Onboarding, Fleets, Disputes, Accounts, BulkImport,
LiveLocation, DeliveryChat, Notifications, EscrowSync,
Idempotency, MilestoneLog (refines AppendOnlyLog) --> Services --> MCServices
                         Services --> Services_proofs --+--> Records_proofs
                               \----> Workflows_proofs -+
```

`ChainClient`, `Jobs` and `Services` put components side by side that share no state. A behaviour of theirs is about one
component, its *scene*, and the others rest: the product of independent components would show nothing more. `Settlement` and
`EventPipeline` are true compositions: their components write the same documents.

### Settlement

`Store` holds what is shared: `delivery`, `escrow`, `event` (the milestone log), `audit`, `lock` (Redis keys),
`now`, `call` (requests in flight), `mon` (the monitor of each process), `faults`. A request is a record
`[req, pc, seenD, seenE]`: what was asked, the awaited call it is at, and the documents it read and will still act
upon. It is dropped when the request is answered (`Finish`), which also gives back its lock, as `withLock`'s
`finally` does.

| Code | Model |
|---|---|
| `delivery.save()`, `updateById` | `SetStatus`: the changed path, by `_id`, whatever the document has become |
| `updateOne({_id, status})` | `MoveStatus`: nothing if the status is another by now |
| unique indexes on Escrow `delivery`, `contractId`, `transactions.hash` | `FundConflicts`, `HashTakenElsewhere` (a multikey index does not reject a repeat inside one document) |
| `withLock` (redlock) | `AcquireLock`, `AcquireFails`, `ReleaseLock`; `LockTimesOut` is Redis dropping the key at its TTL |
| a database call throws | `RequestFails` at any await: answer 500, run the `finally` |
| the process dies | `ProcessCrashes`, `MonCrash`: writes stay, so does the lock key |
| `emitMilestone` | `EmitMilestone`: the record, or (a fault) no record; the status change stands |
| `cancelLapsedFundingWindow` | `CancelLapsed` then `RecordLapse`, shared by the funding path and the monitor |
| `update` (PATCH of a delivery), a posted delivery event | `UpdateDelivery`: the status, whatever it was, and no milestone |
| a row of a bulk import | `ImportDelivery`: a pending delivery with no milestone |

`logged` of a delivery is a history variable: its status was always written by somebody who raises a milestone. No guard reads it.

`EscrowService`, `DeliveryService`, `EscrowIndexer` and `EscrowMonitor` name their actions after the functions
and split them at each await; `Settlement` interleaves them and states the properties.
Requests are well formed: the checks that answer before anything is written (malformed ids, amounts that
differ, an ineligible driver) are left out, and so are amounts, notes, and timestamps nothing compares.

`Lifecycle` is the abstract specification of a collection of documents with a status: each document starts somewhere and moves along
edges of a graph. `Settlement` refines it for escrows (with `EscrowMoves`) and for deliveries (with the code's own `ALLOWED_TRANSITIONS`).

### MilestoneLog

`append` in full: read the highest `seq`, insert at the next, on a duplicate key start over up to `MAX_SEQ_ATTEMPTS`
times, any other error at once; then the consumers. `log[d]` is a function from numbers to writers, not a sequence, so that gaps and overwrites are possible states and
their absence is a result. It refines `AppendOnlyLog`, which is what allows `Settlement` to record a milestone in a
single step.

### Event pipeline

`EventLog` holds the chain, the EventLog entries by transaction (with one subscribed event type the dedupe key
`(transactionHash, eventType)` is the transaction), the checkpoint, the DLQ, the set of events whose handler has completed, and the state of pollers and
retriers. Time is kept as what is left of it (`wait`), so that the clock needs no bound. The claim's filter "nextRetryAt is
still what I read" is kept as the set `fresh` of entries nobody has rescheduled since, and `unset` for a
retrier that read null: null comes back, a timestamp does not.

`EventPoller` is `pollOnce` and `ingest`; `EventLogRetry` is the sweep, the operator's retry of an entry or a DLQ
record, `claim`, `attempt` and both outcomes; `EventPipeline` composes them with the clock, the ledgers and the
lag monitor's seeding of a missing checkpoint. A behaviour has a *scene*: which processes and operators
take part, and which events happen.

### Chain client

`SorobanService` is a read behind `fireWithBreaker`: `withRetry` runs inside one `fire` of a shared opossum breaker (closed, open,
half-open with one probe), whose states `Fired`, `Succeeded`, `Failed`, `ResetTimeout` are modelled from how the code uses the library.
`Submission` is an escrow lock: `BuildEscrowLockXdr`, a wallet's signature, the send with its two loops of retries (`AnotherAttempt` inside `callRpc`,
`RebuildWithFreshSequence` around it), polling, and the dead letter an operator submits again. An envelope is
the lock it is for, its sequence number and whether it is signed; the node (`NodeReply`, `pool`, `ledger`) accepts, refuses, repeats, and its answer may be lost.
`LagMonitor` is `recordProcessedLedger` in its two writes and the check, by timer or by request: seed, compare, webhook, alert.

### Jobs

`Webhooks`: one attempt document per event and subscription, the dispatch of an event (`disp`), the batches each process holds in memory, and the
sends under way (`flight`), with what each took from its copy of the document. `nextRetryAt` is null, in the future, or past. `Post` has three outcomes at the merchant's server: taken, refused, or
taken with the answer lost. The batch of a subscription is one POST for several attempts (`mates`). Signatures, URLs and bodies are left out.

`DriverRatings`: `CollectDriverMetrics` reads the history and `EvaluateDriverRating` writes the rating, in two steps, by the sweep and on demand. `ComputeDriverRating`, `ResolveSuspension`
and `ComputeTier` are the code's formulas, in hundredths.

### MessageQueue

Node runs each of these handlers to its end, so a handler is one action here. One driver (queues of different drivers share nothing but
the code), whose sockets are numbered as they connect; a new one may connect before the server has handled the old one's disconnect. Messages are numbered as they are enqueued. A socket is live, or dead when its line is
cut and the server has not noticed. The queue array is in the order of enqueueing, which is that of the numbers, so the model keeps it as a function of the message. Nothing under `src/` calls `enqueue` or `sendWithAck` yet: they are modelled as their
comments and tests use them, with an emitter that can be called by itself (the code passes `socket.emit` unbound). `clear`, which tests use, is left out.
`EmitterIsConnected` also shows that `handleAckTimeout` never takes its "driver is offline" branch: every disconnect clears the timers.

### Services

| Module | State | Steps and what stands for the code |
|---|---|---|
| `Idempotency` | one key in both stores, the requests that carry it | One action per awaited call; `res.json` is wrapped and sends without waiting for the store. `sound`: Redis has answered from the start; `late`: requests that came when Mongo had the response. |
| `Dispatch` | `loc`, `del`, `locked`, `lease`, `job` | Search by radius (`MayExpand`), the atomic claim `Claimable`, `AssignDriver` with its reads, `ReleaseClaim`; callers are a request, the sweep, the pooler, and an admin who names the driver and claims nothing (`RequestDriver`). Any await may throw (`AwaitFails`) and any caller die (`CallerDies`); `reported`, `replaced`, `pooled`, `direct`, `unfreed`, `orphaned`, `edited` record what may share or strand a driver. The lease may lapse, and pooling and admins do not take it. |
| `Pooling` | pickups and dropoffs | The clustering (`Cluster`, `Clusters`) and the nearest-neighbour route (`Visited`) as recursive functions over the turns of the code's loops, for places on a line. |
| `Onboarding` | applications and the documents made | `Claim`, four creations, `Rollback` of exactly what this proof made, `Release` of the claim, which may fail and then leaves "activating" (`stuck`), `ProofDies`. A signature is right or wrong. |
| `Fleets` | member array with counts, invitations | Mongoose writes an addition as a push and a removal as the whole array guarded by the version read (`SaveMatches`). |
| `Disputes` | documents with version | A save writes changed fields; the evidence array is guarded by the version (`IsCurrent`). The chain's handlers write the same documents. |
| `Accounts` | users, files, evidence | Unique indexes (`Taken`), and the order of upload, save and removal, any of which may fail; a removal that fails is only logged (`RemoveStoredFile`), and leaves a file nobody names. |
| `BulkImport` | tracking numbers, uploads | `Tokenize` is the scanner of `csvParser.ts` over an alphabet of five kinds of characters (`Scanned` is its state after each of them); `LineOf` translates the index of a failed insert to a line. |
| `LiveLocation` | dedup key, last time, documents, what the room heard | `IsDuplicate`, `IsStaleUpdate`, `SetLastUpdate`, `PersistFix`, `BroadcastFix` one by one; a batch is find, then an unordered insert that may fail in part. |
| `DeliveryChat` | room, messages with receipts, tabs | Join and message check the delivery first; receipts are stored as text or as an ObjectId, as the code does. A client may name an id that is no message of the chat (`Foreign`): it is announced to the room all the same. |
| `Notifications` | token per user, access token, notices | Detach and attach apart, a unique index, a bounded retry; concurrent dispatches share one request for the access token. |
| `EscrowSync` | one escrow, the contract's events, syncs | `GetEvents` from a ledger on, then read and write per event, in the order of the chain (what is left to do is a set of places, taken from the lowest); `confirmed` is what an operator was told, `unfounded` the settlements applied before their funding. HTTP requests and admins (`OtherReads`, `OtherWrites`, by `_id`) and the monitor's `ScanExpires` write the same document, in every status it has; `elsewhere` says that one of them settled it. |

### Abstractions worth knowing

* A handler of the pipeline completes or throws, as one step: what `recordEscrowFunded` does inside is Settlement's subject.
* `Tick` lets no attempt outlive its claim's five-minute lease. The code relies on handlers being idempotent beyond that.
* `LocksExpire` says whether Redis may drop a key while its holder still runs. It is FALSE in every run and an explicit
  hypothesis of the theorem about the lock: with handlers slower than `REDIS_LOCK_TTL_MS` the lock protects nothing, by design of redlock.
* In the event pipeline the lag monitor's read-then-create of the checkpoint is one step; `LagMonitor` has it in two. The audit entries of the retry service, which nothing reads, are left out.
* An upload of a proof lies between two awaits of the request, and writes nothing the settlement model sees.
* In `Fleets` and `Disputes` a save that fails its version check ends the request with an error, as mongoose's VersionError does.
* `LockTimesOut`, `LeaseLapses` (a key's TTL) and `CallerDies` have no lines in the repository: Redis and the runtime do them.
* In `RecordLapse` the audit write and the milestone are one step: nothing reads one of them between the two, and each may be missing (a fault).
* `assignDriver` fails in `Dispatch` at any await; a failing write is one that did not apply.
* `BulkImport.InsertRows` is an unordered `insertMany` as one step; which rows lose to another upload is decided at that moment.
* The funding of a sync (`EscrowSync.FundingIsWritten`) ends with the escrow's write: a failure at the delivery's (`escrow.service.ts:255`) makes the request throw with the escrow written, of which the operator is told nothing.
* `Notifications` compares tokens only. The unique index on `devices.token` (`NotificationPreference.ts:89`) is not sparse, so MongoDB may index documents without devices under one null key: a second such document, and the `$pull` that empties
  one (`NotificationPreferenceRepository.ts:120-125`, outside the retry), may then fail with E11000. That nobody owns a token twice is not touched by it. A prune that fails is left out.
* `Submission.RebuildWithFreshSequence` takes the checks of asset and amount (`stellarService.ts:460-463`) as passed, as at the first build of the same delivery.
* Ghost variables record what the properties speak of and no guard reads: what a client was told, who was replaced, what a tab was shown.

## 3. Runs

All runs are `tlc -workers 2 -config <run>.cfg <module>`.

### Expected to pass

| Run | Module | Shows |
|---|---|---|
| `every_request` | `MCSettlement` | Any two overlapping requests out of all kinds, early and late in a delivery's life and with crossed funding events over two deliveries, two contracts and two transactions; a monitor; one fault; the clock past both deadlines. `RecordsAreSound` (types, unique links, audited decisions); `MutualExclusion`; `ScansRespectLateWrites`. |
| `settling` | `MCSettlement` | Three overlapping requests, against each way to settle by itself (`releaseEscrow` with proof and status requests, the admins, the chain with funding) and against a delivery without an escrow, with monitor and one fault: `ReleaseIsSound` (with proof, once, and completed in the end), `EscrowsFollowLifecycle`; and, where the delivery is also edited and imported, `DeliveriesFollowLifecycle` (every step but the edit) and `MilestonesTellTheStory` (where nobody edited or imported). Mixing two of the ways is what `release_vs_resolve` does. |
| `liveness` | `MCSettlement` | Under fairness, with one fault: `NothingHangs` (lock keys are given back, what is overdue is swept, the delivery of an expired escrow is cancelled). |
| `event_pipeline` | `MCEventPipeline` | One crash or failing call, in three scenes (a poller and two sweepers; a poller, a sweeper and an operator; two pollers): `NothingIsSkipped`, `RetriesAreOrderly` (types, sweeps do not overlap, escalated once), `EveryEventIsSettled`. |
| `chain_client` | `ChainClient` | Locks: two payers' requests for one account's sequence numbers, an operator, lost and repeated sends: `ConfirmedIsApplied`, `RefusalIsTrue`. Reads while the node goes down and up, and both together: `EveryCallEnds`. Lag: `LagIsWatched`. |
| `message_queue` | `MessageQueue` | Three messages through a queue of two, two overlapping connections, cut lines, expiring tokens, timeouts: `NothingIsLost`, `FlightIsWatched` (types, a timer for exactly what is in flight, an emitter that is connected, bounded sends), `AckedIsNotResent`, `GhostsAreEvicted`. |
| `jobs` | `MCJobs` | Webhooks with one subscription and one fault, in three scenes (two events and a batching subscription; two events and a merchant who changes the subscription meanwhile; one event and two processes whose sweeps race): `SendsAreBounded` (types, delivered once, within the budget), `SettledIsNotRetried`, `DispatchedIsSettled`. Ratings, with evaluations that overlap and one that fails: `RatingsCatchUp`. |
| `services` | `MCServices` | Fourteen scenes: the table below, and `TypeOK`, the types of all of them. |

The properties of `services`, by scene:

| Scene | Property | In words |
|---|---|---|
| dispatch | `OneDeliveryPerDriver`, `StrandedOnlyByRace` | Searches racing for a driver do not both get it, and only a pool, an admin who named it, its own report or an edited delivery gives it two; it stays held without a delivery only if it was replaced, its release failed or its caller died. |
| pooling | `PoolsAreFeasible` | Pools partition the deliveries within their size, every route visits each stop once and no dropoff before its pickup. |
| onboarding | `OnboardingIsAllOrNothing` | One merchant per treasury, and a failed activation leaves nothing behind but for the faults it names. |
| fleets | `NoMemberIsLost` | No save of an old array removes somebody added since. |
| disputes | `EvidenceIsKept` | No request overwrites evidence it never read. |
| accounts | `KeysHaveFiles` | Every stored key names a file, whichever await failed. |
| csv, imports | `ReportIsExact` | Records carry their physical line, and the report accounts for every line of the file. |
| sync | `SyncReportIsTrue` | An event reported processed is on the escrow's record, unless it settled an escrow that was not funded yet, or that HTTP or an admin settled too; an escrow these did not settle is settled only as the contract settled it. |
| idempotency | `RunsOnce`, `SettledIsNotRerun` | While Redis works, the handler behind a key runs once; a request that comes after the response was stored never runs it. |
| milestones | `LogIsAppendOnly` | Refinement of `AppendOnlyLog`. |
| location | `HeardOnceInOrder`, `KeptIsStored` | A fix is broadcast once and in order; what a driver drops from the buffer is stored. |
| chat | `ChatIsOnRecord` | A message a tab heard, and a receipt it heard of one of the chat's messages, is stored; one receipt per reader. |
| push | `OneOwnerSurvives` | A token has never two owners, and one when the race is over. |

Each property of these runs has a mutant in `PROJECT.json`: a definition changed the way a plausible bug would
change it (a dropped filter, a missing index, an off-by-one), under which TLC finds the property violated. The
mutated forms stand beside the definitions, marked "Mutant".

### Expected to find a violation

Each states what a comment of the repository promises, and TLC finds an interleaving in which the code does otherwise.

| Run | Promise | What happens |
|---|---|---|
| `release_vs_resolve` | `SettledIsFinal` | Release and admin resolution take different locks and save by `_id`: a settled escrow changes. |
| `late_funding` | `CancelledStaysCancelled` | A funding event that read the delivery just before its deadline overwrites the cancellation. |
| `admin_retry` | `OneAttemptAtATime` | An operator reads the lease the sweep wrote, and its claim matches it: both replay the event. |
| `unsigned_resubmission` | `OnlySignedIsSubmitted` | After `tx_bad_seq`, `submitEscrowLock` sends the envelope it has just rebuilt, unsigned, instead of returning it to be signed. |

### Known limits of the passing properties

Some properties hold only under the hypothesis written into them. Without it the code does otherwise, and this is what it does:

* `escrow:release:<id>` is keyed by the id form of the request: a release by ObjectId and one by contract id take different locks and both go through. The
  `settling` run uses one form.
* `keep_locked` or a retry renews `expiresAt` after the scan picked the escrow; `updateMany` does not look at it again. `ScansRespectLateWrites` claims
  the status only.
* After a failure between `recordEscrowFunded`'s two writes each replay returns on the known hash and the delivery stays pending.
* A late chain event moves an escrow an admin cancelled: the indexer's terminal statuses lack "resolved". The `settling` run keeps the two apart.
* `update` (`delivery.service.ts:304-321`, PATCH of a delivery) writes a status without looking at the stored one and without a milestone, so a completed delivery may become pending again.
  (The route's schema lets pending, assigned and cancelled through to the model; `in_transit` and `delivered` fail its validators.) The handlers of posted delivery events write any status in the same way (`indexer/deliveryHandlers.ts:13-17` and `43-47`,
  `indexerService.ts:58`), as would `handleDeliveryStatusUpdated` of the notification service, which nothing calls. A bulk import raises no milestone for what it creates. `DeliveriesFollowLifecycle` excepts the edit itself, not the steps before and after it;
  `MilestonesTellTheStory` excepts deliveries that were edited or imported; `ReleaseIsSound` is checked and proved where no delivery is edited.
* `delivery.service.ts:561`: `assignDriver` saves by `_id` alone, so a delivery cancelled after the check becomes assigned. `DeliveriesFollowLifecycle` is checked
  without it.
* `dlqService.ts:84`: of two operators retrying one entry, the loser may put the entry the winner resolved back to pending. The runs have one operator.
* With two pollers the loser of an insert skips the event and moves the checkpoint past it while the winner has not handled it. `NothingIsSkipped` and `EveryEventIsSettled` are stated
  for one poller, the deployment of `docker-compose.yml`.
* The poller and `recordProcessedLedger` write the same checkpoint: a reputation event posted for a later ledger moves the poller past what it has not read. The two are not composed.
* Two first events may leave the seeded checkpoint at the lower ledger, and a degraded RPC answer reads as no lag: `LagIsWatched` is about answers that come in the end.
* Two server processes may both send a due webhook attempt; a crash loses a batch held in memory, and its attempts stay PENDING, which no sweep looks for.
  `SendsAreBounded` claims a single delivery for one process, and `DispatchedIsSettled` lets a fault leave an attempt pending.
* Without Redis, `markProcessing`'s upsert does not fail for a request that finds the record there, so two overlapping requests may both run the handler;
  `RunsOnce` is stated for a Redis that works. A failed `SETEX` leaves Redis at "processing" (`idempotency.service.ts:248`), and retries get 409 until the TTL although Mongo has the response; no property claims otherwise.
* The queue's `handleDisconnect` goes by driver: the late disconnect of an old connection parks the new connection's messages until the next reconnect. Nothing is lost, but nothing is
  promised about when it arrives.
* A client told 504 is promised nothing, and neither is one of whose sends some answer was lost: `RefusalIsTrue` is about the others.
* A driver is left unavailable when its claim is replaced by a later assignment, when giving it back fails, or when the process dies between the claim and the save; nothing repairs that. An admin's `assign-driver`
  (`delivery.service.ts:483`) claims nothing: a search may give the same driver a second delivery.
* A sync calls a settlement "processed" whose update matched nothing: the escrow was not funded yet, or HTTP or an admin had settled it (`escrowIndexerService.ts:61-93`). `SyncReportIsTrue` names both.
* `markRead` gives back, and the room is told, every well-formed id a client names (`chatMessage.service.ts:283-293`, `connectionHandler.ts:231-242`), whether the chat has such a message or not. `ChatIsOnRecord` is about receipts of the chat's messages.
* Two requests may open two disputes of one delivery (`disputeService.ts:53`): no index forbids it. A process that dies during activation leaves an onboarding half done, and a failing update that gives the claim back (`onboardingService.ts:263-266`) leaves it "activating".
* An administrator may write any key into `profilePicture`; deleting that picture then deletes whatever file it names. `KeysHaveFiles` excludes it.
* Overlapping live updates may be broadcast out of order, and a fix whose insert failed is a "duplicate" when sent again. Within one batch a repeat is called a duplicate even if the first one then fails.
* A sender may get a second receipt of his own message (stored as text, looked up as an ObjectId), and a user who registers one token twice at once has it twice.
* `server.ts` exits without draining, although `database.ts:91` says the graceful shutdown service is in charge; in that service, `closeHttpServer` waits for connections that the socket server closes
  only afterwards. `locationHandler`'s token guard is armed only for a socket whose data has a token, which nothing sets. `processDeliveryCreatedEvent` writes without a condition.

### Bounds, and why they are enough

* *Calls* 2 to 4: each of these races is between two actors about one document, with at most a third changing it in between. `every_request` trades
  a third call for all operations, `settling` trades operations for calls. Requests of a run are chosen in `Init`, one profile per behaviour.
* *Documents* two deliveries, two contracts and two transactions where the links between them are the question (`every_request`), otherwise one: nothing
  else relates documents.
* *TTL*, *FundWindow* and *MaxTime* 1: every deadline is met both before and after it passes.
* *MaxFaults* 1: one failing call or crash at every await; properties about lost records are stated for fault-free behaviours.
* *Milestones*: more writers than attempts, so that giving up really happens.
* *Pipeline*: two attempts and a lease longer than the backoff; three events in two ledgers, two of them in one transaction; both a seeded and a missing checkpoint;
  batches of two. `MaxRedrives` bounds what operators add.
* *Chain client*: two payers on one sequence number, so that one of them gets `tx_bad_seq`; one rebuild, two sends per attempt, two polls: every loop is entered, repeated and exhausted. Two readers and
  two tries, so that one fails while the other probes. Lag: three ledgers and a threshold of one, two events recorded at once, one failing call.
* *Webhooks*: two events, so that a batch has mates and a dispatch overlaps a sweep; three attempts, so that the saves of two racing retries cross before the budget is spent (with two
  a retry always ends in EXHAUSTED); one event where two processes race, for attempts of different events share nothing there; sweeps of two;
  deliveries to the merchant are counted up to two, which is what `DeliveredOnce` tells apart. *Ratings*: one driver (drivers share nothing), three deliveries with the penalty from two on.
* *Message queue*: one message more than the queue holds, so that eviction happens to messages in flight; two sockets; one retry and one missed pong, so that both budgets are reached.
* *Idempotency*: two requests race and a third comes later; two faults, so that Redis may go and lose its data and another call fail. Proved for any number of both.
* *Dispatch*: two drivers of whom one is near, two deliveries, a request beside the sweep and the pooler, an admin, one expansion of the radius, two calls and one turn, that of a driver, a customer, a lease, an await that throws or a caller that dies: a race is between two callers, with at most one thing changing or going wrong under them. *Pooling*: every placement of three
  deliveries on four places, in pools of two.
* *Onboarding* two rival applications and two proofs; *fleets*, *disputes* two calls at a time and three or four in all: a read, another's complete write, and the save; *accounts* two, of users who may have a picture to begin with. *CSV*: every text of up to five characters; *imports*: two uploads of two rows over two numbers, valid, invalid or repeated.
* *Location*: two live updates and two batches of up to two fixes; *chat*: two messages, two tabs for each person, two drivers who replace each other; *push*: two users, three registrations (one more than the attempts of a claim can lose to), two notices;
  *sync*: a funding and a settlement by the contract, two syncs, one other request or scan, and one failing call, on an escrow that starts absent, pending, disputed or expired.
* Symmetry is used for requests and processes in the safety runs of `Settlement` only.
* Deadlock is checked in all Settlement runs (`Rest` is the explicit idle step of a quiescent system with all keys given back). It is off in the other runs, where the calls of a behaviour are bounded and all may be finished,
  or every ledger may be closed and polled and a process may legitimately have nothing due.

### Fairness

Weak fairness, and only for what the runtime drives: a submitted request and a started tick are continued by the event loop (`Serve`,
`MonStep`, `Retry`, `Dispatching`, `Sending`, `CallStep`, `ReadStep`, `EvaluatorStep`), timers fire (the monitor's and the poller's ticks, `Sweep`, `FlushBatch`, `AckTimeout`, `HealthCheckTick`, the breaker's `ResetTimeout`, the lag check, the rating sweep), Redis expires keys, the clock goes on. Every await of the chain client is
bounded by a timeout of its own. Nobody has to submit a request, close a ledger or act as an
operator, nothing is assumed of the node, the wallet or the merchant, and nothing has to fail. The handler of an event may throw every time: `EveryEventIsSettled` counts being dead-lettered as settled.
That reads recover is claimed for a node that stays up from some time on, as a hypothesis of the property.

## 4. Proofs

`tlapm` on the eight modules named `..._proofs` checks every step, with Z3, Zenon and LS4. Except where a line below says so, a theorem
is about the specification the runs check, `Spec`, for every value of the constants.

### What is assumed

The assumptions are the named `ASSUME`s of the modules, which TLC evaluates in the runs. Most of them say that a bound is a number and that a
marker such as `NoEntry` is not one of the things it stands beside. These say more:

* `EventLogAssumption`: a transaction lies in one ledger, and events are numbered in the order of the chain.
* `ProfilesAssumption`: the documents a behaviour starts with are typed and obey the unique indexes, and where there is no escrow there is none of its data either.
* `StoriesAssumption`: the milestones a behaviour starts with tell how each delivery that has no escrow and is `logged` came to its present status. (`create` raises a delivery's
  first milestone; the profiles start later in its life. Nothing is assumed of imported and edited ones.)
* `WebhooksAssumption`: the server processes are finitely many, so that "one process" can be said with `Cardinality`.
* `OnboardingAssumption`: activation requests are finitely many, so that the failed attempts of an application can be counted against them.
* `PoolingAssumption`: `MaxPoolSize` is not zero. The code's default is five and no caller passes zero; a pool holds its seed before the size is looked at.
* `SubmissionAssumption`: there is a payer; `SyncAssumption`, `StoreAssumption`, `QueueAssumption` and the others: numbers and markers.

Three theorems about `Settlement` have hypotheses in their statement, because without them the code does otherwise (the run `release_vs_resolve` shows it, and
`escrow:release:<id>` is keyed by the form of the id):

* `Serialized` (`EscrowsMoveAlong`): releases and admins that act on one escrow take one lock key of it; the funding events of an escrow carry one transaction (they may come as often as they like);
  an escrow the chain settles is settled by nobody else. Funding and the indexer take no lock, releases and admins different ones.
* `OnlyReleases` (`ReleasesAreSound`): `Serialized`, the escrows are settled by `releaseEscrow` only, and those settled before the start were settled so.
* `~LocksExpire`, in these two and `Exclusion`: no handler outlives `REDIS_LOCK_TTL_MS`.

Every profile of the `settling` run is an instance of `Serialized`; that of releases with proofs and status requests is one of `OnlyReleases`.

### What is proved, and how

None of the properties is inductive. Each proof strengthens it by what the requests under way know, that is by what lies between one await and the next.
The strengthened invariant was checked by TLC on the run before it was proved. The preservation proofs have one step, or one lemma, per action.

**`Settlement_proofs`**, whose invariants build on one another:

| Invariant | Adds | For |
|---|---|---|
| `TypeInv` | `LapseNamed`: a monitor recording a lapse has a delivery in hand | `TypeCorrect`: `TypeOK` |
| `LockHeld` | a request in its critical section is the recorded holder of its key | `Exclusion`: `MutualExclusion` |
| `RecordInv` | `LinksAreUnique`, `NoStray`; `CallOK`: what a request read and still relies on (the link it will write is the one it read; what it saw lapse had lapsed, and time does not go back; a status move was allowed from the status it saw); `MonOK`: the same of monitors | `RecordIsSound`: `RecordsAreSound`; `ScansAreRespectful`: `ScansRespectLateWrites`; `DeliveriesMoveRight`: `DeliveriesFollowLifecycle`, a refinement of `Lifecycle` |
| `SerialInv` | `OneKey`; `StatusHeld`: the status the holder of the lock read is still there at its write, or the monitor expired it, and a funding request about to write has seen no escrow, so that the unique index lets it insert or nothing; `EscrowFits`: an escrow that is there has its funding transaction, and no admin cancelled one the chain settles | `EscrowsMoveAlong`: `EscrowsFollowLifecycle`, the other refinement |
| `ReleaseInv` | `Linked`, `ReleasedOnce`, `ProofKnown`, `ProofSeen`; `CompletedOrDue`: the delivery of a released escrow is completed, or the request that released it has still to complete it; `MonDue`: what a monitor scans stays due | `ReleasesAreSound`: `ReleaseIsSound` |
| `StoryInv` | `StoryOf`: the milestones on record *together with those still owed* by requests and monitors make a chain to the present status, each status once, for `Stage` rises with every move | `LogsTellTheStory`: `MilestonesTellTheStory` |

A key is given to a request only when free, each step of a request keeps it where it is or finishes it, nobody gives back another's key, and a crash leaves the
critical section with the key still taken: hence the lock. Unique links follow from the conflict checks of the insert although the handler's own checks are stale. The story needs the owed milestones because they are written after the
status, in any order: only when nobody owes one does the log alone tell it.

**`EventPipeline_proofs`**. `PipelineTypes`, and `NoEventIsSkipped` (`NothingIsSkipped`) by `PipelineInv`: types, staff, `EntriesNameEvents`, what pollers and retriers hold, and with
one poller `Sound`: a cycle goes on where the checkpoint is, what is no longer to do in its range is settled, so the checkpoint may move to its end; `EntriesNameTheFirst` is why an event that is skipped as a duplicate of its
transaction is settled too. `SweepsAreOrderly` (`RetriesAreOrderly`) by `OrderInv`, without an operator: `FreshIsFree` (an entry whose read `nextRetryAt` is still current is not being attempted),
`LeaseIsHeld` (an attempt's entry is rescheduled and counts its tries), `OneRecord`, `Escalated`. The delays are powers of two: `PowerOfTwo` shows them to be numbers by counting subsets, for `^` is not evaluated by the provers.

**`MessageQueue_proofs`**. `EveryFlightIsWatched`, `OnlyTheBoundLoses`, `AcknowledgedStaysQuiet` by `QueueInv`: `FutureIsBlank`, `HeldIsOwed` (what is held is not acknowledged, and is there for the reason it was enqueued for),
`SendsArePaid` (each send is paid for by a retry or by a socket opened since), which bounds the sends.

**`ChainClient_proofs`**. `ConfirmationIsTrue` (`ConfirmedIsApplied`) and `RefusalsAreTrue` (`RefusalIsTrue`) by `ChainInv`: what each call holds (`CallsAreSound`: an envelope is signed once, by its payer; a rebuilt one is not signed; only what was sent is polled), dead letters
(`LettersAreSound`), the node (`NetworkIsSound`: one accepted envelope per sequence number) and `HeardIsKnown`: unless a send went unheard, what the node has belongs to payers who know.

**`Services_proofs`**, one invariant per scene:

| Theorem | Invariant | What a request knows |
|---|---|---|
| `MembersAreSafe`: `NoMemberIsLost` | `FleetInv` | an array read at a version that is still current is the array, so a save that passes the version check removes only whom it means |
| `EvidenceIsSafe`: `EvidenceIsKept` | `DisputeInv` | the same of the evidence |
| `SyncReportsAreTrue`: `SyncReportIsTrue` | `SyncInv` | what a request counts as processed is on the escrow, was applied unfounded, or is of an escrow settled elsewhere; what another writer read bounds what it writes (`OthersOK`); the contract settles once |
| `BufferedFixesAreSafe`: `KeptIsStored`, `RoomsHearInOrder`: `HeardOnceInOrder` | `LocationInv` | while Redis answers (`Calm`), a fix past the dedup check is remembered and nobody else's, and the last time is that of the one update past the check |
| `ChatIsFaithful`: `ChatIsOnRecord` | `ChatInv` | what is announced is on record, or an id of no message of the chat; a receipt of another's message is an ObjectId's, once |
| `OwnersAreExclusive`: `OneOwnerSurvives` | `PushInv` | `OneOwner`, and `ClaimIsKept`: a claimed token has an owner, or a registration that is about to attach it |
| `ReportsAreExact`: `ReportIsExact` | `ImportInv` | `UploadOK`: the rows still to report and those reported are all the rows, each once, and what is reported as created is stored |
| `PoolsAreDrivable`: `PoolsAreFeasible` | `PoolingInv` | nothing: the pools are computed in one step, and the work is in what the functions compute |

The last two are about algorithms, for texts of every length and any number of deliveries at any places. The library's induction theorems cannot be used (they take an operator as a
parameter), so the module has its own, over *sets* of numbers: `HasLeast` finds the least number that is not in the set, and `Induction` follows from it. `Iterates` shows that a
function defined by recursion over the turns of a loop exists and obeys its equation. With them:

* *The scanner.* After each character, `ScanCounts` relates the scanner's line and quotes to the text, and `ScanRecords` its records, and where the present one began, to `FilledRecords`, which speaks of
  the text alone. `NumberedByLine` is the result at the end. `InOrder`, a set's elements in ascending order, is defined by `CHOOSE`: `Ascends` shows that the listing exists and that there is only one.
* *The clustering.* `PoolOK` (a pool while it grows: its seed first, near it, unused, within the size) gives `GoodPool` of the finished one, `PoolsOK` holds of the pools found so far: they are disjoint and hold every delivery up to the present seed.
* *The route.* `RouteOK`: the stops visited and those remaining are all stops, each once, and a dropoff is visited after its pickup; as long as stops remain, one of them may come next, because the first remaining dropoff's pickup is either visited or remains.

**`Workflows_proofs`**. `OnboardingIsSafe` (`OnboardingIsAllOrNothing`) by `OnboardingInv`: `MadeOK` says which documents a request has made and not undone at each of its awaits, `OneHolder` that one request holds an application, and `AttemptsOK`, needed for the types, that an application's failed attempts are at most the requests for it that have ended.
`DocumentsHaveFiles` (`KeysHaveFiles`) by `AccountInv`: a key that is stored and not yet written is nobody else's to remove, and a key about to be removed is at most the picture of the user of that request.
`DriversAreNotShared` (`OneDeliveryPerDriver`) and `DriversAreNotForgotten` (`StrandedOnlyByRace`) by `DispatchInv`: an available driver that was not shared in one of the named ways is in nobody's hands and on no delivery, and a claim is in one caller's hands until it is written, given back, or lost with its caller.

**`Jobs_proofs`**. `SendsStayBounded` (`SendsAreBounded`) and `SettledStaysSettled` (`SettledIsNotRetried`) by `WebhookInv`. As long as nothing fails (`Calm`): what is still to be created is blank and one process dispatches an event; an attempt waits in one batch and was never sent;
a first send is the only copy of a pending attempt, while sweeps send only what was failed (`FlightOK`), so that a late failure can meet a settled attempt only in a sweep, whose save does not touch the status; the attempts of one POST go together until the outcome is known (`MatesOK`);
no copy's count is ahead of the POSTs made (`CountsArePaid`); and with one process the copy in flight *is* the document (`SoleOK`), hence one delivery within the budget.

**`Records_proofs`** is about `MilestoneSpec` and `IdempotencySpec`, the components by themselves, and then about `Services` as a whole.
For the milestone log, `IInv` says where each writer stands: a writer about to insert holds a number at least as large as its attempt and at most one past the end of the log (others may have moved the end on, so its number is then taken), and only a writer that got past its insert is in a
log. From `LastSeqIsLen` (the highest number of a gapless log is its length) follow `MilestoneTypes`, `Gapless`, `LossIsContention`, `BroadcastIsTrue` and, step by step, `Refinement`: `MilestoneSpec => LogIsAppendOnly`.
For the idempotency keys (`IdempotencyTypes`, `Once`, `Agreement`, `NotRerun`), `Inv` adds `Exclusive` (while Redis works, at most one request is past `SET NX` or has run, and the key is then there), `RanWhere` (a handler has run exactly for requests past it), `Recorded` for both stores,
`LateWhere` (a late request gets no further than the lookup in Mongo, because the record stays settled) and `AnswersAreReal`.
`SeqIsGapless`, `LossNeedsContention`, `BroadcastIsRecorded` and `AnswersAgree` are proved and no run checks them again.
`RecordsAmongServices` shows that `Services` implements both specifications (a step of any other scene leaves their variables alone), so that `RecordsAreSafe` has `RunsOnce`, `SettledIsNotRerun` and the refinement of `AppendOnlyLog` for
the specification the run checks. `ServicesAreTyped` is `TypeOK` of `Services`, of all scenes at once: `AllInv` is the conjunction of the invariants of all services, for the types of one scene need what its own invariant knows (`AllStart`, `AllKeep`).

### What is only model-checked

* All liveness: `NothingHangs`, `EveryEventIsSettled`, `EveryCallEnds`, `LagIsWatched`, `GhostsAreEvicted`, `DispatchedIsSettled`, `RatingsCatchUp`. Fairness and ENABLED are out of the prover's reach.
* The four promises the code breaks (section 3) are refuted, each by a behaviour TLC finds.

Every invariant and every safety property of a passing run is proved, under the hypotheses named above. For the ratings, whose run checks liveness only, nothing is.

## 5. Plan

1. Prove releases sound beside the funding event whose last write, that of the delivery, may come after them; and the ratings' types.
2. Compose further: the lag monitor's `recordProcessedLedger` with the poller's checkpoint, and two operators on one dead letter.
