----------------------------- MODULE LagMonitor -----------------------------
(***************************************************************************)
(* services/monitorService.ts: the checkpoint that reputation events move, *)
(* and the check, by timer and on request, that compares it with the       *)
(* network and records an alert.  (The event poller's own writes of the    *)
(* checkpoint are in EventPoller.)                                         *)
(***************************************************************************)
EXTENDS Integers

CONSTANTS
    Recorders,        \* events being handled
    LagThreshold,     \* INDEXER_LAG_ALERT_THRESHOLD
    MaxLedger,        \* bound on the network's ledgers
    MaxLagFaults      \* bound on degraded and failing answers

ASSUME LagAssumption == {LagThreshold, MaxLedger, MaxLagFaults} \subseteq Nat

VARIABLES
    network,      \* the latest ledger
    checkpoint,   \* IndexerStatus.lastProcessedLedger
    recording, checking,
    alerts,       \* IndexerAlert documents, by the processed ledger they report
    webhookUrl,   \* whether INDEXER_LAG_WEBHOOK_URL is configured
    lagFaults

lagVars == <<network, checkpoint, recording, checking, alerts, webhookUrl, lagFaults>>

Checkers == {"timer", "admin"}

Unseeded == -1

IndexerStatus == -1..MaxLedger

IdleCheck == [pc |-> "idle", processed |-> 0]

LagTypeOK ==
    /\ network \in 0..MaxLedger /\ checkpoint \in IndexerStatus
    /\ recording \in [Recorders -> IndexerStatus]
    /\ checking \in [Checkers -> [pc: {"idle", "seed", "create", "network", "notify", "alert"},
                                  processed: 0..MaxLedger]]
    /\ alerts \subseteq 0..MaxLedger
    /\ webhookUrl \in BOOLEAN /\ lagFaults \in 0..MaxLagFaults

LagInit ==
    /\ network = 0 /\ checkpoint = Unseeded
    /\ recording = [r \in Recorders |-> Unseeded]
    /\ checking = [k \in Checkers |-> IdleCheck]
    /\ alerts = {} /\ webhookUrl \in BOOLEAN /\ lagFaults = 0

NetworkAdvances ==
    /\ network < MaxLedger /\ network' = network + 1
    /\ UNCHANGED <<checkpoint, recording, checking, alerts, webhookUrl, lagFaults>>

-----------------------------------------------------------------------------
(* recordProcessedLedger, in two writes *)

\* Mutant: the update has no $lt.
MovesForwardAlways(l) == checkpoint # Unseeded

MovesForward(l) == checkpoint # Unseeded /\ checkpoint < l

\* The checkpoint moves forward where it exists; events come in any order of ledgers.
RecordProcessedLedger(r) ==
    /\ recording[r] = Unseeded
    /\ \E l \in 0..network :
         /\ checkpoint' = IF MovesForward(l) THEN l ELSE checkpoint
         /\ recording' = [recording EXCEPT ![r] = l]
    /\ UNCHANGED <<network, checking, alerts, webhookUrl, lagFaults>>

\* $setOnInsert, upsert.
SeedCheckpoint(r) ==
    /\ recording[r] # Unseeded
    /\ checkpoint' = IF checkpoint = Unseeded THEN recording[r] ELSE checkpoint
    /\ recording' = [recording EXCEPT ![r] = Unseeded]
    /\ UNCHANGED <<network, checking, alerts, webhookUrl, lagFaults>>

-----------------------------------------------------------------------------
(* checkIndexerLag *)

Checked(k) == checking' = [checking EXCEPT ![k] = IdleCheck]

Quiet == UNCHANGED <<network, checkpoint, recording, alerts, webhookUrl, lagFaults>>

LagFault ==
    /\ lagFaults < MaxLagFaults /\ lagFaults' = lagFaults + 1
    /\ UNCHANGED <<network, checkpoint, recording, alerts, webhookUrl>>

\* The timer, or a request, begins a check: the checkpoint is read.
CheckIndexerLag(k) ==
    /\ checking[k].pc = "idle"
    /\ checking' = [checking EXCEPT ![k] =
         IF checkpoint = Unseeded THEN [IdleCheck EXCEPT !.pc = "seed"]
                                  ELSE [IdleCheck EXCEPT !.pc = "network", !.processed = checkpoint]]
    /\ Quiet

\* Without a checkpoint, one is created at the network's ledger.  A degraded answer is no number and
\* fails the document's validation, like the duplicate of a checkpoint created meanwhile.
GetOrCreateIndexerStatus(k) ==
    \/ /\ checking[k].pc = "seed"
       /\ checking' = [checking EXCEPT ![k].pc = "create", ![k].processed = network] /\ Quiet
    \/ /\ checking[k].pc = "seed" /\ Checked(k) /\ LagFault
    \/ /\ checking[k].pc = "create" /\ checkpoint = Unseeded
       /\ checkpoint' = checking[k].processed
       /\ checking' = [checking EXCEPT ![k].pc = "network"]
       /\ UNCHANGED <<network, recording, alerts, webhookUrl, lagFaults>>
    \/ /\ checking[k].pc = "create" /\ checkpoint # Unseeded /\ Checked(k) /\ Quiet

Breached(processed, latest) == latest - processed > LagThreshold

\* A degraded answer is taken for no lag at all.
CompareWithNetwork(k) ==
    /\ checking[k].pc = "network"
    /\ \/ ~Breached(checking[k].processed, network) /\ Checked(k) /\ Quiet
       \/ /\ Breached(checking[k].processed, network)
          /\ checking' = [checking EXCEPT ![k].pc = IF webhookUrl THEN "notify" ELSE "alert"]
          /\ Quiet
       \/ Checked(k) /\ LagFault

\* The webhook's answer, or its error, is kept with the alert and is no reason not to write it.
NotifyWebhook(k) ==
    /\ checking[k].pc = "notify"
    /\ checking' = [checking EXCEPT ![k].pc = "alert"]
    /\ Quiet

CreateAlert(k) ==
    LET c == checking[k]
    IN /\ c.pc = "alert" /\ Checked(k)
       /\ \/ /\ alerts' = alerts \cup {c.processed}
             /\ UNCHANGED <<network, checkpoint, recording, webhookUrl, lagFaults>>
          \/ LagFault

CheckStep(k) ==
    \/ CheckIndexerLag(k) \/ GetOrCreateIndexerStatus(k) \/ CompareWithNetwork(k)
    \/ NotifyWebhook(k) \/ CreateAlert(k)

LagStep ==
    \/ NetworkAdvances
    \/ \E r \in Recorders : RecordProcessedLedger(r) \/ SeedCheckpoint(r)
    \/ \E k \in Checkers : CheckStep(k)

-----------------------------------------------------------------------------
\* The checkpoint never goes back, in whatever order overlapping events and first checks write it; and
\* an indexer that stays behind the network by more than the threshold is reported, whatever answers
\* were degraded and whatever alerts or webhook calls failed on the way.
LagIsWatched ==
    /\ [][checkpoint' >= checkpoint]_lagVars
    /\ \A c \in 0..MaxLedger :
         checkpoint = c /\ Breached(c, network) ~> c \in alerts \/ checkpoint # c
=============================================================================
