------------------------ MODULE EventPipeline_proofs ------------------------
(***************************************************************************)
(* For any chain, any number of pollers, sweeps, operators, retries and    *)
(* faults: with one poller no event behind the checkpoint is left out, and *)
(* with no operator the sweeps neither overlap nor escalate twice.         *)
(***************************************************************************)
EXTENDS EventPipeline, FiniteSetTheorems, TLAPS

-----------------------------------------------------------------------------
(* What every reachable state has, whoever takes part. *)

Polling == {"create", "handle", "mark", "markFailed"}

\* Only those who take part have anything in hand.
OnlyStaffWorks ==
    /\ \A p \in Pollers : p \notin scene.staff => poll[p].pc = "idle"
    /\ \A r \in Retriers : r \notin scene.staff => retry[r].pc = "idle"

\* An entry on record names an event of its transaction that happened.
EntriesNameEvents ==
    \A t \in Txs :
        IF log[t].status = "absent" THEN log[t] = NoEntry
        ELSE log[t].ev \in scene.chain /\ TxOf[log[t].ev] = t

\* What a poller has in hand is an event of its cycle, on record once created.
PollHolds ==
    \A p \in Pollers :
        /\ poll[p].todo \subseteq scene.chain
        /\ poll[p].pc \in Polling => poll[p].cur \in poll[p].todo
        /\ poll[p].pc \in Polling \ {"create"} => log[TxOf[poll[p].cur]].status # "absent"

\* What a retrier has in hand is an entry on record; one whose handler has
\* completed has its event applied.
RetryHolds ==
    \A r \in Retriers :
        /\ retry[r].pc \notin {"idle", "claim"} => retry[r].cur \in Txs
        /\ retry[r].pc = "claim" /\ r \notin Sweepers => retry[r].cur \in Txs
        /\ retry[r].pc \in Attempting => log[retry[r].cur].status # "absent"
        /\ retry[r].pc = "succeeded" => log[retry[r].cur].ev \in applied

Shape ==
    /\ TypeOK
    /\ dlq \in [Txs -> Seq(DlqStatuses)]
    /\ OnlyStaffWorks /\ EntriesNameEvents /\ PollHolds /\ RetryHolds

-----------------------------------------------------------------------------
(* What one poller alone keeps. *)

Settled(e) ==
    LET entry == log[TxOf[e]]
    IN entry.status = "failed" \/ (entry.status = "processed" /\ entry.ev \in applied)

\* An entry names the first event of its transaction.
EntriesNameTheFirst ==
    \A t \in Txs : log[t].status # "absent" =>
        \A e \in scene.chain : TxOf[e] = t => log[t].ev <= e

\* A processed entry's event has been applied.
ProcessedIsApplied == \A t \in Txs : log[t].status = "processed" => log[t].ev \in applied

\* A cycle goes on where the checkpoint is, once a first cycle has committed;
\* of its range, what is no longer to do is settled, and what it handles is the
\* first event to do, pending, under its own name.
CycleOf(p) ==
    /\ origin # None => poll[p].from = checkpoint + 1
    /\ poll[p].from <= poll[p].to
    /\ \A e \in poll[p].todo : LedgerOf[e] \in poll[p].from..poll[p].to
    /\ \A e \in scene.chain :
         LedgerOf[e] \in poll[p].from..poll[p].to /\ e \notin poll[p].todo => Settled(e)
    /\ poll[p].pc \in Polling => \A f \in poll[p].todo : poll[p].cur <= f
    /\ poll[p].pc = "create" => log[TxOf[poll[p].cur]].status = "absent"
    /\ poll[p].pc \in Polling \ {"create"} => log[TxOf[poll[p].cur]].ev = poll[p].cur
    /\ poll[p].pc = "mark" => poll[p].cur \in applied

CycleIsSound == \A p \in Pollers : poll[p].pc \notin {"idle", "checkpoint"} => CycleOf(p)

\* Everything behind the checkpoint is settled.
BehindIsSettled ==
    origin # None =>
        /\ checkpoint # None
        /\ \A e \in scene.chain : LedgerOf[e] \in origin..checkpoint => Settled(e)

Sound == EntriesNameTheFirst /\ ProcessedIsApplied /\ CycleIsSound /\ BehindIsSettled

Progress == OnePoller => Sound

PipelineInv == Shape /\ Progress

-----------------------------------------------------------------------------
(* What one poller and the sweeps keep when no operator interferes. *)

\* What the poller handles is pending, and a pending entry was never retried.
PendingIsThePollers ==
    /\ \A p \in Pollers : poll[p].pc \in Polling \ {"create"} => log[TxOf[poll[p].cur]].status = "pending"
    /\ \A t \in Txs : log[t].status \in {"absent", "pending"} => log[t].retries = 0 /\ ~log[t].dead
    /\ \A t \in Txs : log[t].status = "failed" /\ ~log[t].dead => log[t].retries < MaxAttempts

\* A copy that is still fresh is of an entry nobody is attempting.
FreshIsFree ==
    \A r \in Retriers : \A t \in retry[r].fresh :
        /\ log[t].status = "failed" /\ ~log[t].dead
        /\ \A q \in Retriers : retry[q].pc \in Attempting => retry[q].cur # t

\* An attempt has the lease of its entry, and the count of its tries.
LeaseIsHeld ==
    \A r \in Retriers :
        /\ retry[r].pc \in {"idle", "claim", "escalate"} \cup Attempting
        /\ ~retry[r].unset
        /\ retry[r].pc \in Attempting =>
             /\ log[retry[r].cur].status = "failed" /\ ~log[retry[r].cur].dead
             /\ log[retry[r].cur].wait > 0
             /\ ~retry[r].dead /\ retry[r].tries = log[retry[r].cur].retries + 1

\* An entry gets its DLQ record from the one sweep that dead-lettered it.
OneRecord ==
    /\ \A t \in Txs : ~log[t].dead => dlq[t] = <<>>
    /\ \A r \in Retriers : retry[r].pc = "escalate" =>
         /\ log[retry[r].cur].dead
         /\ dlq[retry[r].cur] = <<>>
         /\ \A q \in Retriers : retry[q].pc = "escalate" /\ retry[q].cur = retry[r].cur => q = r

\* A dead-lettered entry has used up its attempts, and its record is on the way.
Escalated ==
    \A t \in Txs : log[t].dead =>
        /\ log[t].retries = MaxAttempts
        /\ faults = 0 => \/ Len(dlq[t]) = 1
                         \/ \E r \in Retriers : retry[r].pc = "escalate" /\ retry[r].cur = t

Orderly == PendingIsThePollers /\ FreshIsFree /\ LeaseIsHeld /\ OneRecord /\ OneAttemptAtATime /\ Escalated

Undisturbed == OnePoller /\ NoOperator => Orderly

OrderInv == PipelineInv /\ Undisturbed

-----------------------------------------------------------------------------
(* Delays, and the end of an attempt. *)

\* 2^n counts the subsets of a set of n elements.
LEMMA PowerOfTwo == ASSUME NEW n \in Nat PROVE 2^n \in Nat
<1>1. IsFiniteSet(1..n) /\ Cardinality(1..n) = n
  BY FS_Interval
<1>2. IsFiniteSet(SUBSET (1..n)) /\ Cardinality(SUBSET (1..n)) = 2^n
  BY <1>1, FS_SUBSET
<1> QED
  BY <1>2, FS_CardinalityType

\* eventLogRetryDelayMs never exceeds its cap, nor the range of a wait.
LEMMA DelayType == ASSUME NEW a \in Nat PROVE RetryDelay(a) \in Waits
<1> DEFINE exponent == IF a = 0 THEN 0 ELSE a - 1
<1>1. exponent \in Nat
  OBVIOUS
<1>2. 2^exponent \in Nat
  BY <1>1, PowerOfTwo
<1> DEFINE power == 2^exponent
           delay == BaseDelay * power
<1>3. delay \in Nat
  <2>1. power \in Nat
    BY <1>2
  <2> HIDE DEF power
  <2> QED
    BY <2>1, EventLogAssumption
<1>4. RetryDelay(a) = IF delay < MaxDelay THEN delay ELSE MaxDelay
  BY DEF RetryDelay
<1> HIDE DEF delay
<1> QED
  BY <1>3, <1>4, EventLogAssumption DEF Waits

\* Where a retrier goes when its attempt is over.
LEMMA ReturnFacts ==
    ASSUME NEW r \in Retriers, NEW rec \in RetryRec, NEW b \in BOOLEAN, rec.cur \in Txs \/ r \in Sweepers
    PROVE  /\ Return(r, rec, b) \in RetryRec
           /\ Return(r, rec, b).pc \in {"idle", "claim", "dlqDone", "dlqBack"}
           /\ Return(r, rec, b).fresh \subseteq rec.fresh
           /\ ~Return(r, rec, b).unset
           /\ Return(r, rec, b).pc \notin {"idle", "claim"} => Return(r, rec, b).cur \in Txs
           /\ Return(r, rec, b).pc = "claim" => r \in Sweepers
           /\ r \in Sweepers => Return(r, rec, b).pc \in {"idle", "claim"}
<1>1. IdleRetry \in RetryRec
  BY EventLogAssumption DEF IdleRetry, RetryRec, RetryPcs
<1>2. CASE r \in Sweepers
  <2> DEFINE left == rec.todo \ {rec.cur}
             still == rec.fresh \cap left
  <2>1. CASE left = {}
    <3>1. Return(r, rec, b) = IdleRetry
      BY <1>2, <2>1 DEF Return
    <3> QED
      BY <1>1, <1>2, <3>1 DEF IdleRetry, RetryRec
  <2>2. CASE left # {}
    <3>1. Return(r, rec, b) = [pc |-> "claim", todo |-> left, fresh |-> still, unset |-> FALSE,
                               cur |-> None, tries |-> 0, dead |-> FALSE, item |-> 0]
      BY <1>2, <2>2 DEF Return, IdleRetry
    <3>2. left \in SUBSET Txs /\ still \in SUBSET Txs /\ still \subseteq rec.fresh
      BY DEF RetryRec
    <3> HIDE DEF left, still
    <3> QED
      BY <1>2, <3>1, <3>2 DEF RetryRec, RetryPcs
  <2> QED
    BY <2>1, <2>2
<1>3. CASE r \notin Sweepers
  <2>1. CASE rec.item = 0
    BY <1>1, <1>3, <2>1 DEF Return, IdleRetry, RetryRec
  <2>2. CASE rec.item # 0
    <3>1. Return(r, rec, b) = [IdleRetry EXCEPT !.cur = rec.cur, !.item = rec.item,
                                                !.pc = IF b THEN "dlqDone" ELSE "dlqBack"]
      BY <1>3, <2>2 DEF Return
    <3> QED
      BY <1>1, <1>3, <3>1 DEF IdleRetry, RetryRec, RetryPcs
  <2> QED
    BY <2>1, <2>2
<1> QED
  BY <1>2, <1>3

-----------------------------------------------------------------------------
(* Shape *)

LEMMA ShapeInit == Init => Shape
<1> SUFFICES ASSUME Init PROVE Shape
  OBVIOUS
<1> USE EventLogAssumption DEF Init, IdlePoll, IdleRetry, NoEntry
<1>1. TypeOK
  <2>1. log \in [Txs -> Entry]
    BY DEF Entry, Statuses, Waits
  <2>2. poll \in [Pollers -> PollRec]
    BY DEF PollRec
  <2>3. retry \in [Retriers -> RetryRec]
    BY DEF RetryRec, RetryPcs
  <2>4. checkpoint \in Nat \cup {None} /\ \A t \in Txs : DOMAIN dlq[t] = {}
    OBVIOUS
  <2> QED
    BY <2>1, <2>2, <2>3, <2>4 DEF TypeOK
<1>2. dlq \in [Txs -> Seq(DlqStatuses)]
  OBVIOUS
<1>3. OnlyStaffWorks /\ EntriesNameEvents /\ PollHolds /\ RetryHolds
  BY DEF OnlyStaffWorks, EntriesNameEvents, PollHolds, RetryHolds, Polling, Attempting
<1> QED
  BY <1>1, <1>2, <1>3 DEF Shape

\* A chain of the scene is a set of events.
LEMMA ChainType == TypeOK => scene.chain \subseteq Events /\ scene.staff \subseteq Pollers \cup Retriers
  BY EventLogAssumption DEF TypeOK

\* An entry on record stays on record, under the same event.
LogGrows == \A t \in Txs : log[t].status # "absent" => log'[t].status # "absent" /\ log'[t].ev = log[t].ev

\* A poller's step: what it must leave in hand.
LEMMA PollWrites ==
    ASSUME Shape, scene' = scene, NEW p \in Pollers, p \in scene.staff,
           LogGrows, NEW new \in PollRec, poll' = [poll EXCEPT ![p] = new],
           new.todo \subseteq scene.chain,
           new.pc \in Polling => new.cur \in new.todo,
           new.pc \in Polling \ {"create"} => log'[TxOf[new.cur]].status # "absent"
    PROVE  /\ poll' \in [Pollers -> PollRec]
           /\ \A q \in Pollers : q \notin scene'.staff => poll'[q].pc = "idle"
           /\ PollHolds'
<1>1. poll' \in [Pollers -> PollRec] /\ poll'[p] = new /\ \A q \in Pollers \ {p} : poll'[q] = poll[q]
  BY DEF Shape, TypeOK
<1>2. \A q \in Pollers : q \notin scene'.staff => poll'[q].pc = "idle"
  BY <1>1 DEF Shape, OnlyStaffWorks
<1>3. ASSUME NEW q \in Pollers, q # p
      PROVE  /\ poll'[q].todo \subseteq scene'.chain
             /\ poll'[q].pc \in Polling => poll'[q].cur \in poll'[q].todo
             /\ poll'[q].pc \in Polling \ {"create"} => log'[TxOf[poll'[q].cur]].status # "absent"
  <2>1. poll'[q] = poll[q]
    BY <1>1, <1>3
  <2>2. poll[q].pc \in Polling => poll[q].cur \in Events /\ TxOf[poll[q].cur] \in Txs
    BY EventLogAssumption, ChainType DEF Shape, PollHolds, TypeOK, PollRec
  <2> QED
    BY <2>1, <2>2 DEF Shape, PollHolds, LogGrows
<1> QED
  BY <1>1, <1>2, <1>3 DEF PollHolds

\* A poller's step leaves the retriers what they hold.
LEMMA RetriersKeep ==
    ASSUME Shape, scene' = scene, LogGrows, applied \subseteq applied', retry' \in [Retriers -> RetryRec],
           \A r \in Retriers : retry'[r].pc = retry[r].pc /\ retry'[r].cur = retry[r].cur
    PROVE  RetryHolds' /\ \A r \in Retriers : r \notin scene'.staff => retry'[r].pc = "idle"
  BY DEF Shape, RetryHolds, OnlyStaffWorks, LogGrows, Attempting

\* The event in a poller's hands, and its transaction.
LEMMA PollHand ==
    ASSUME Shape, NEW p \in Pollers, poll[p].pc \in Polling
    PROVE  /\ poll[p].cur \in Events /\ poll[p].cur \in scene.chain /\ TxOf[poll[p].cur] \in Txs
           /\ poll[p].cur \in poll[p].todo
  BY EventLogAssumption, ChainType DEF Shape, PollHolds, TypeOK, PollRec

\* Writing one entry of the EventLog.
LEMMA EntryWrites ==
    ASSUME Shape, scene' = scene, NEW t \in Txs, NEW entry \in Entry, log' = [log EXCEPT ![t] = entry],
           entry.status # "absent", entry.ev \in scene.chain, TxOf[entry.ev] = t,
           log[t].status # "absent" => entry.ev = log[t].ev
    PROVE  log' \in [Txs -> Entry] /\ log'[t] = entry /\ EntriesNameEvents' /\ LogGrows
<1>1. log' \in [Txs -> Entry] /\ log'[t] = entry /\ \A u \in Txs \ {t} : log'[u] = log[u]
  BY DEF Shape, TypeOK
<1> QED
  BY <1>1 DEF Shape, EntriesNameEvents, LogGrows

\* Rescheduling an entry touches nothing but the copies' freshness.
LEMMA RescheduledType ==
    ASSUME retry \in [Retriers -> RetryRec], NEW t
    PROVE  /\ Rescheduled(t) \in [Retriers -> RetryRec]
           /\ \A r \in Retriers :
                /\ Rescheduled(t)[r].pc = retry[r].pc /\ Rescheduled(t)[r].cur = retry[r].cur
                /\ Rescheduled(t)[r].todo = retry[r].todo /\ Rescheduled(t)[r].fresh = retry[r].fresh \ {t}
                /\ Rescheduled(t)[r].unset = retry[r].unset /\ Rescheduled(t)[r].tries = retry[r].tries
                /\ Rescheduled(t)[r].dead = retry[r].dead /\ Rescheduled(t)[r].item = retry[r].item
<1>1. ASSUME NEW r \in Retriers
      PROVE  [retry[r] EXCEPT !.fresh = @ \ {t}] \in RetryRec
  <2> DEFINE f == retry[r].fresh \ {t}
  <2>1. retry[r] \in RetryRec /\ f \in SUBSET Txs
    BY DEF RetryRec
  <2> HIDE DEF f
  <2>2. [retry[r] EXCEPT !.fresh = f] \in RetryRec
    BY <2>1 DEF RetryRec
  <2> QED
    BY <2>2 DEF f
<1>2. Rescheduled(t) \in [Retriers -> RetryRec]
  BY <1>1 DEF Rescheduled
<1>3. ASSUME NEW r \in Retriers
      PROVE  Rescheduled(t)[r] = [retry[r] EXCEPT !.fresh = @ \ {t}]
  BY DEF Rescheduled
<1> QED
  BY <1>2, <1>3 DEF RetryRec

\* The entry ingest creates.
LEMMA NewEntryType ==
    ASSUME NEW e \in Events
    PROVE  LET entry == [NoEntry EXCEPT !.status = "pending", !.ev = e]
           IN entry \in Entry /\ entry.status = "pending" /\ entry.ev = e
<1>1. 0 \in Waits
  BY EventLogAssumption DEF Waits
<1> QED
  BY <1>1 DEF NoEntry, Entry, Statuses

LEMMA PollShape ==
    ASSUME Shape, NEW p \in Pollers, p \in scene.staff, scene' = scene, PollStep(p) \/ PollFails(p)
    PROVE  Shape' /\ LogGrows /\ applied \subseteq applied'
<1> DEFINE new == poll'[p]
           t == TxOf[poll[p].cur]
           Hand == /\ new \in PollRec /\ poll' = [poll EXCEPT ![p] = new] /\ new.todo \subseteq scene.chain
                   /\ new.pc \in Polling => new.cur \in new.todo
                   /\ new.pc \in Polling \ {"create"} => log'[TxOf[new.cur]].status # "absent"
           Log == log' \in [Txs -> Entry] /\ EntriesNameEvents' /\ LogGrows
           Held == /\ retry' \in [Retriers -> RetryRec]
                   /\ \A r \in Retriers : retry'[r].pc = retry[r].pc /\ retry'[r].cur = retry[r].cur
           Rest == /\ applied \subseteq applied' /\ applied' \subseteq Events
                   /\ head' = head /\ dlq' = dlq /\ faults' \in Nat
                   /\ checkpoint' \in Nat \cup {None} /\ origin' \in Nat \cup {None}
<1> SUFFICES Hand /\ Log /\ Held /\ Rest
  <2> HIDE DEF new
  <2>1. PollHolds' /\ poll' \in [Pollers -> PollRec] /\ RetryHolds' /\ OnlyStaffWorks'
    BY PollWrites, RetriersKeep DEF OnlyStaffWorks
  <2> QED
    BY <2>1 DEF Shape, TypeOK
<1>a. poll \in [Pollers -> PollRec] /\ poll[p] \in PollRec /\ poll[p].todo \subseteq scene.chain
  BY DEF Shape, TypeOK, PollHolds
<1>b. retry' = retry => Held
  BY DEF Shape, TypeOK
<1>c. log' = log => Log
  BY DEF Shape, TypeOK, EntriesNameEvents, LogGrows
<1>d. poll[p].pc \in Polling => /\ poll[p].cur \in Events /\ poll[p].cur \in scene.chain /\ t \in Txs
                                /\ poll[p].cur \in poll[p].todo
  BY PollHand
<1>e. poll[p].pc \in Polling \ {"create"} =>
        /\ log[t].status # "absent" /\ log[t] \in Entry /\ log[t].ev \in scene.chain /\ TxOf[log[t].ev] = t
  BY PollHand DEF Shape, TypeOK, PollHolds, EntriesNameEvents
<1>f. head \in Nat /\ checkpoint \in Nat \cup {None} /\ origin \in Nat \cup {None} /\ faults \in Nat /\ applied \subseteq Events
  BY DEF Shape, TypeOK
<1>1. CASE PollLatest(p)
  BY <1>1, <1>a, <1>b, <1>c, <1>f DEF PollLatest, PollRec, Polling
<1>2. CASE PollCheckpoint(p)
  BY <1>2, <1>a, <1>b, <1>c, <1>f, ChainType, EventLogAssumption DEF PollCheckpoint, IdlePoll, PollRec, Polling, Shape
<1>3. CASE PollFind(p)
  <2>1. Hand
    BY <1>3, <1>a, <1>c DEF PollFind, First, Skip, PollRec, Polling
  <2> QED
    BY <1>3, <2>1, <1>b, <1>c, <1>f DEF PollFind
<1>4. CASE PollCreate(p)
  <2>1. t \in Txs /\ poll[p].cur \in scene.chain /\ poll[p].cur \in poll[p].todo /\ poll[p].cur \in Events
    BY <1>4, <1>d DEF PollCreate, Polling
  <2>2. CASE log[t].status = "absent"
    <3> DEFINE entry == [NoEntry EXCEPT !.status = "pending", !.ev = poll[p].cur]
    <3>1. entry \in Entry /\ entry.status = "pending" /\ entry.ev = poll[p].cur
      <4>1. poll[p].cur \in Events
        BY <2>1
      <4> QED
        BY <4>1, NewEntryType, Zenon
    <3>2. log' = [log EXCEPT ![t] = entry]
      BY <1>4, <2>2 DEF PollCreate
    <3>3. Log /\ log'[t].status # "absent"
      <4> HIDE DEF entry
      <4> QED
        BY <2>1, <2>2, <3>1, <3>2, EntryWrites
    <3>4. poll' = [poll EXCEPT ![p].pc = "handle"]
      BY <1>4, <2>2 DEF PollCreate
    <3>5. Hand
      BY <3>3, <3>4, <1>a, <2>1 DEF PollRec, Polling
    <3> QED
      BY <1>4, <3>3, <3>5, <1>b, <1>f DEF PollCreate
  <2>3. CASE log[t].status # "absent"
    <3>1. Hand
      BY <1>4, <2>3, <1>a DEF PollCreate, Skip, PollRec, Polling
    <3> QED
      BY <1>4, <2>3, <3>1, <1>b, <1>c, <1>f DEF PollCreate
  <2> QED
    BY <2>2, <2>3
<1>5. CASE PollHandle(p)
  <2>1. poll' = [poll EXCEPT ![p].pc = "mark"] \/ poll' = [poll EXCEPT ![p].pc = "markFailed"]
    BY <1>5 DEF PollHandle
  <2>2. poll[p].pc = "handle" /\ log' = log
    BY <1>5 DEF PollHandle
  <2>3. Hand
    BY <2>1, <2>2, <1>a, <1>d, <1>e DEF PollRec, Polling
  <2>4. applied' \subseteq Events /\ applied \subseteq applied'
    BY <1>5, <1>d, <1>f DEF PollHandle, Polling
  <2> QED
    BY <1>5, <2>3, <2>4, <1>b, <1>c, <1>f DEF PollHandle
<1>6. CASE PollMark(p)
  <2>1. poll[p].pc = "mark" /\ t \in Txs
    BY <1>6, <1>d DEF PollMark, Polling
  <2>2. CASE Skip(p, poll[p].cur) /\ log' = [log EXCEPT ![t].status = "processed"] /\ faults' = faults
    <3> DEFINE entry == [log[t] EXCEPT !.status = "processed"]
    <3>1. entry \in Entry /\ entry.status = "processed" /\ entry.ev = log[t].ev
      BY <2>1, <1>e DEF Entry, Statuses, Polling
    <3>2. log' = [log EXCEPT ![t] = entry]
      BY <2>2
    <3>3. Log
      <4> HIDE DEF entry
      <4> QED
        BY <2>1, <3>1, <3>2, <1>e, EntryWrites DEF Polling
    <3>4. Hand
      BY <2>1, <2>2, <1>a DEF Skip, PollRec, Polling
    <3> QED
      BY <1>6, <2>2, <3>3, <3>4, <1>b, <1>f DEF PollMark
  <2>3. CASE Fault /\ poll' = [poll EXCEPT ![p].pc = "markFailed"] /\ log' = log
    <3>1. Hand
      BY <2>1, <2>3, <1>a, <1>d, <1>e DEF PollRec, Polling
    <3> QED
      BY <1>6, <2>3, <3>1, <1>b, <1>c, <1>f DEF PollMark, Fault
  <2> QED
    BY <1>6, <2>2, <2>3 DEF PollMark
<1>7. CASE PollMarkFailed(p)
  <2>1. poll[p].pc = "markFailed" /\ t \in Txs /\ RetryDelay(1) \in Waits
    BY <1>7, <1>d, DelayType DEF PollMarkFailed, Polling
  <2> DEFINE entry == [log[t] EXCEPT !.status = "failed", !.sched = TRUE, !.wait = RetryDelay(1)]
  <2>2. entry \in Entry /\ entry.status = "failed" /\ entry.ev = log[t].ev
    BY <2>1, <1>e DEF Entry, Statuses, Polling
  <2>3. log' = [log EXCEPT ![t] = entry]
    BY <1>7 DEF PollMarkFailed
  <2>4. Log
    <3> HIDE DEF entry
    <3> QED
      BY <2>1, <2>2, <2>3, <1>e, EntryWrites DEF Polling
  <2>5. Hand
    BY <1>7, <1>a DEF PollMarkFailed, Skip, PollRec, Polling
  <2>6. Held
    BY <1>7, RescheduledType DEF PollMarkFailed, Shape, TypeOK
  <2>7. Rest
    BY <1>7, <1>f DEF PollMarkFailed
  <2> QED
    BY <2>4, <2>5, <2>6, <2>7
<1>8. CASE PollCommit(p)
  <2>1. poll[p].from \in Nat /\ poll[p].to \in Nat
    BY <1>a DEF PollRec
  <2>2. Hand
    BY <1>8, <1>a DEF PollCommit, IdlePoll, PollRec, Polling
  <2> QED
    BY <1>8, <2>1, <2>2, <1>b, <1>c, <1>f DEF PollCommit
<1>9. CASE PollFails(p)
  <2>1. Hand
    BY <1>9, <1>a DEF PollFails, IdlePoll, PollRec, Polling
  <2> QED
    BY <1>9, <2>1, <1>b, <1>c, <1>f DEF PollFails, Fault
<1> QED
  BY <1>1, <1>2, <1>3, <1>4, <1>5, <1>6, <1>7, <1>8, <1>9 DEF PollStep

\* What retrier r holds in record rec, once the step is over.
Holding(r, rec) ==
    /\ rec.pc \notin {"idle", "claim"} => rec.cur \in Txs
    /\ rec.pc = "claim" /\ r \notin Sweepers => rec.cur \in Txs
    /\ rec.pc \in Attempting => log'[rec.cur].status # "absent"
    /\ rec.pc = "succeeded" => log'[rec.cur].ev \in applied'

\* A retrier's step: what it must leave in hand.
LEMMA RetryWrites ==
    ASSUME Shape, scene' = scene, NEW r \in Retriers, r \in scene.staff, LogGrows, applied \subseteq applied',
           NEW base \in [Retriers -> RetryRec],
           \A q \in Retriers : base[q].pc = retry[q].pc /\ base[q].cur = retry[q].cur,
           NEW new \in RetryRec, retry' = [base EXCEPT ![r] = new], Holding(r, new)
    PROVE  /\ retry' \in [Retriers -> RetryRec] /\ RetryHolds'
           /\ \A q \in Retriers : q \notin scene'.staff => retry'[q].pc = "idle"
<1>1. /\ retry' \in [Retriers -> RetryRec]
      /\ retry'[r] = new
      /\ \A q \in Retriers \ {r} : retry'[q].pc = retry[q].pc /\ retry'[q].cur = retry[q].cur
  OBVIOUS
<1>2. RetryHolds'
  <2> SUFFICES ASSUME NEW q \in Retriers PROVE Holding(q, retry'[q])
    BY DEF RetryHolds, Holding
  <2>1. CASE q = r
    BY <1>1, <2>1
  <2>2. CASE q # r
    BY <1>1, <2>2 DEF Shape, RetryHolds, Holding, LogGrows, Attempting
  <2> QED
    BY <2>1, <2>2
<1>3. \A q \in Retriers : q \notin scene'.staff => retry'[q].pc = "idle"
  BY <1>1 DEF Shape, OnlyStaffWorks
<1> QED
  BY <1>1, <1>2, <1>3

\* A retrier's step leaves the pollers what they hold.
LEMMA PollersKeep ==
    ASSUME Shape, scene' = scene, LogGrows, poll' = poll
    PROVE  PollHolds' /\ poll' \in [Pollers -> PollRec] /\ \A p \in Pollers : p \notin scene'.staff => poll'[p].pc = "idle"
<1>1. \A p \in Pollers : poll[p].pc \in Polling \ {"create"} => TxOf[poll[p].cur] \in Txs
  BY PollHand
<1> QED
  BY <1>1 DEF Shape, TypeOK, PollHolds, OnlyStaffWorks, LogGrows

\* A retrier that returns holds what it needs for its last call.
LEMMA ReturnHolds ==
    ASSUME NEW r \in Retriers, NEW rec \in RetryRec, NEW b \in BOOLEAN, rec.cur \in Txs \/ r \in Sweepers
    PROVE  Return(r, rec, b) \in RetryRec /\ Holding(r, Return(r, rec, b))
  BY ReturnFacts DEF Holding, Attempting

\* Saving a DLQ entry keeps the queue a sequence of statuses.
LEMMA DlqItemType ==
    ASSUME dlq \in [Txs -> Seq(DlqStatuses)], NEW t, NEW i, NEW v \in DlqStatuses
    PROVE  [dlq EXCEPT ![t][i] = v] \in [Txs -> Seq(DlqStatuses)]
<1> DEFINE new == [dlq[t] EXCEPT ![i] = v]
<1>1. CASE t \in Txs
  <2>1. dlq[t] \in [1..Len(dlq[t]) -> DlqStatuses] /\ Len(dlq[t]) \in Nat
    BY <1>1
  <2>2. new \in [1..Len(dlq[t]) -> DlqStatuses]
    BY <2>1, Zenon
  <2>3. new \in Seq(DlqStatuses)
    BY <2>1, <2>2
  <2> HIDE DEF new
  <2>4. [dlq EXCEPT ![t] = new] \in [Txs -> Seq(DlqStatuses)]
    BY <2>3
  <2> QED
    BY <2>4 DEF new
<1>2. CASE t \notin Txs
  <2>1. [dlq EXCEPT ![t] = new] = dlq
    BY <1>2
  <2> QED
    BY <2>1
<1> QED
  BY <1>1, <1>2

\* A sweep takes a batch of entries that are due, and changes nothing else.
LEMMA SweepFindFacts ==
    ASSUME NEW s, SweepFind(s)
    PROVE  /\ retry[s].pc = "idle"
           /\ \E batch \in SUBSET Txs :
                /\ \A t \in batch : Due(t)
                /\ retry' = [retry EXCEPT ![s].pc = "claim", ![s].todo = batch, ![s].fresh = batch]
           /\ UNCHANGED <<head, checkpoint, origin, log, dlq, applied, poll, faults>>
<1>1. PICK batch \in SUBSET {t \in Txs : Due(t)} :
        /\ retry[s].pc = "idle"
        /\ retry' = [retry EXCEPT ![s].pc = "claim", ![s].todo = batch, ![s].fresh = batch]
        /\ UNCHANGED <<head, checkpoint, origin, log, dlq, applied, poll, faults>>
  BY Zenon DEF SweepFind
<1>2. batch \in SUBSET Txs /\ \A t \in batch : Due(t)
  OBVIOUS
<1> QED
  BY <1>1, <1>2, Zenon

\* The lease of a claim, and no wait at all, are waits.
LEMMA LeaseType == Lease \in Waits /\ 0 \in Waits
  BY EventLogAssumption DEF Waits

\* The entry recordFailure leaves.
LEMMA FailedEntryType ==
    ASSUME NEW e \in Entry, NEW rec \in RetryRec, NEW b \in BOOLEAN
    PROVE  /\ FailedEntry(e, rec, b) \in Entry
           /\ FailedEntry(e, rec, b).status = e.status /\ FailedEntry(e, rec, b).ev = e.ev
           /\ FailedEntry(e, rec, b).retries = rec.tries
           /\ FailedEntry(e, rec, b).dead = (e.dead \/ (b /\ ~rec.dead))
<1> DEFINE w == IF b THEN 0 ELSE RetryDelay(rec.tries + 1)
           d == e.dead \/ (b /\ ~rec.dead)
           s == ~b
<1>1. rec.tries \in Nat /\ rec.tries + 1 \in Nat
  BY DEF RetryRec
<1>2. w \in Waits
  BY <1>1, DelayType, LeaseType
<1>3. d \in BOOLEAN /\ s \in BOOLEAN
  BY Zenon
<1>4. FailedEntry(e, rec, b) = [e EXCEPT !.retries = rec.tries, !.sched = s, !.wait = w, !.dead = d]
  BY Zenon DEF FailedEntry
<1> HIDE DEF w, d, s
<1>5. /\ FailedEntry(e, rec, b) \in Entry
      /\ FailedEntry(e, rec, b).status = e.status /\ FailedEntry(e, rec, b).ev = e.ev
      /\ FailedEntry(e, rec, b).retries = rec.tries
      /\ FailedEntry(e, rec, b).dead = d
  BY <1>1, <1>2, <1>3, <1>4 DEF Entry
<1> QED
  BY <1>5 DEF d

LEMMA RetryShape ==
    ASSUME Shape, NEW r \in Retriers, r \in scene.staff, scene' = scene,
           \/ r \in Sweepers /\ SweepFind(r)
           \/ AdminRetry(r)
           \/ RetryStep(r) \/ RetryThrows(r) \/ RetryCrashes(r)
    PROVE  /\ Shape' /\ LogGrows /\ applied \subseteq applied'
           /\ UNCHANGED <<head, checkpoint, origin, poll>>
<1> DEFINE rec == retry[r]
           new == retry'[r]
           t == rec.cur
           Same == retry' = [retry EXCEPT ![r] = new]
           Bumped(u) == retry' = [Rescheduled(u) EXCEPT ![r] = new]
           Hand == new \in RetryRec /\ Holding(r, new)
           Log == log' \in [Txs -> Entry] /\ EntriesNameEvents' /\ LogGrows
           Dlq == dlq' \in [Txs -> Seq(DlqStatuses)]
           Rest == /\ applied \subseteq applied' /\ applied' \subseteq Events
                   /\ head' = head /\ faults' \in Nat /\ checkpoint' = checkpoint /\ origin' = origin
                   /\ poll' = poll
           Kept == /\ RetryHolds' /\ retry' \in [Retriers -> RetryRec]
                   /\ \A q \in Retriers : q \notin scene'.staff => retry'[q].pc = "idle"
<1> SUFFICES Hand /\ (Same \/ \E u : Bumped(u)) /\ Log /\ Dlq /\ Rest
  <2>1. retry \in [Retriers -> RetryRec]
    BY DEF Shape, TypeOK
  <2>2. ASSUME NEW base \in [Retriers -> RetryRec], retry' = [base EXCEPT ![r] = new],
               \A q \in Retriers : base[q].pc = retry[q].pc /\ base[q].cur = retry[q].cur
        PROVE  Kept
    <3> HIDE DEF new
    <3> QED
      BY <2>2, RetryWrites
  <2>3. Kept
    <3>1. CASE Same
      BY <2>1, <2>2, <3>1
    <3>2. ASSUME NEW u, Bumped(u) PROVE Kept
      BY <2>1, <2>2, <3>2, RescheduledType
    <3> QED
      BY <3>1, <3>2
  <2>4. PollHolds' /\ poll' \in [Pollers -> PollRec] /\ OnlyStaffWorks'
    BY <2>3, PollersKeep DEF OnlyStaffWorks
  <2>5. \A u \in Txs : \A i \in DOMAIN dlq'[u] : dlq'[u][i] \in DlqStatuses
    BY DEF DlqStatuses
  <2> QED
    BY <2>3, <2>4, <2>5 DEF Shape, TypeOK
<1>a. rec \in RetryRec /\ retry \in [Retriers -> RetryRec] /\ log \in [Txs -> Entry] /\ dlq \in [Txs -> Seq(DlqStatuses)]
  BY DEF Shape, TypeOK
<1>b. applied \subseteq Events /\ faults \in Nat
  BY DEF Shape, TypeOK
<1>c. log' = log => Log
  BY <1>a DEF Shape, EntriesNameEvents, LogGrows
<1>d. rec.pc \notin {"idle", "claim"} => t \in Txs
  BY DEF Shape, RetryHolds
<1>e. rec.pc \in Attempting =>
        /\ t \in Txs /\ log[t] \in Entry /\ log[t].status # "absent"
        /\ log[t].ev \in scene.chain /\ TxOf[log[t].ev] = t
  BY <1>a DEF Shape, RetryHolds, EntriesNameEvents, Attempting
<1>f. ASSUME NEW b \in BOOLEAN, rec.pc \notin {"idle", "claim"}
      PROVE  Return(r, rec, b) \in RetryRec /\ Holding(r, Return(r, rec, b))
  BY <1>a, <1>d, <1>f, ReturnHolds
<1>1. CASE r \in Sweepers /\ SweepFind(r)
  <2>1. PICK batch \in SUBSET Txs : retry' = [retry EXCEPT ![r].pc = "claim", ![r].todo = batch, ![r].fresh = batch]
    BY <1>1, SweepFindFacts, Zenon
  <2>2. Hand /\ Same
    BY <1>1, <1>a, <2>1 DEF RetryRec, RetryPcs, Holding, Attempting
  <2>3. UNCHANGED <<head, checkpoint, origin, log, dlq, applied, poll, faults>>
    BY <1>1, SweepFindFacts, Zenon
  <2> QED
    BY <1>1, <2>2, <2>3, <1>a, <1>b, <1>c
<1>2. CASE AdminRetry(r)
  <2>1. PICK u \in Txs, k \in {"read", "dlqRead"}, i \in Nat : Entering(r, u, k, i)
    <3>1. \A u \in Txs : DOMAIN dlq[u] \subseteq Nat
      BY <1>a
    <3> QED
      BY <1>2, <3>1 DEF AdminRetry
  <2>2. Hand /\ Same
    BY <1>a, <2>1 DEF Entering, RetryRec, RetryPcs, Holding, Attempting
  <2> QED
    BY <1>2, <2>2, <1>a, <1>b, <1>c DEF AdminRetry
<1>3. CASE DlqMarkRetried(r)
  <2>1. rec.pc = "dlqRead" /\ retry' = [retry EXCEPT ![r].pc = "read"]
    BY <1>3 DEF DlqMarkRetried
  <2>2. Hand /\ Same
    BY <1>a, <1>d, <2>1 DEF RetryRec, RetryPcs, Holding, Attempting
  <2>3. Dlq
    BY <1>3, <1>a, DlqItemType DEF DlqMarkRetried, DlqStatuses
  <2> QED
    BY <1>3, <2>2, <2>3, <1>b, <1>c DEF DlqMarkRetried
<1>4. CASE AdminRead(r)
  <2>1. t \in Txs
    BY <1>4, <1>d DEF AdminRead
  <2>2. CASE log[t].status = "failed"
    <3> DEFINE read == [rec EXCEPT !.pc = "claim", !.todo = {t}, !.fresh = {t}, !.unset = ~log[t].sched]
    <3>1. read \in RetryRec /\ read.pc = "claim" /\ read.cur = t
      <4>1. (~log[t].sched) \in BOOLEAN
        BY Zenon
      <4> DEFINE u == ~log[t].sched
      <4> HIDE DEF u
      <4>2. [rec EXCEPT !.pc = "claim", !.todo = {t}, !.fresh = {t}, !.unset = u] \in RetryRec
        BY <1>a, <2>1, <4>1 DEF RetryRec, RetryPcs, u
      <4> QED
        BY <1>a, <4>2 DEF RetryRec, u
    <3>2. retry' = [retry EXCEPT ![r] = read]
      BY <1>4, <2>2 DEF AdminRead
    <3>3. Hand /\ Same
      <4> HIDE DEF read
      <4> QED
        BY <1>a, <2>1, <3>1, <3>2 DEF Holding, Attempting
    <3> QED
      BY <1>4, <3>3, <1>a, <1>b, <1>c DEF AdminRead
  <2>3. CASE log[t].status # "failed"
    <3>1. retry' = [retry EXCEPT ![r] = Return(r, rec, FALSE)]
      BY <1>4, <2>3 DEF AdminRead
    <3>2. Hand /\ Same
      BY <1>4, <1>a, <1>f, <3>1 DEF AdminRead
    <3> QED
      BY <1>4, <3>2, <1>a, <1>b, <1>c DEF AdminRead
  <2> QED
    BY <2>2, <2>3
<1>5. CASE Claim(r)
  <2>1. PICK u \in rec.todo :
          /\ rec.pc = "claim"
          /\ IF Claimable(r, u)
             THEN /\ log' = Claimed(u)
                  /\ retry' = [Rescheduled(u) EXCEPT ![r].pc = "replay", ![r].cur = u,
                                 ![r].tries = log[u].retries + 1, ![r].dead = log[u].dead]
             ELSE /\ retry' = [retry EXCEPT ![r] = Return(r, [@ EXCEPT !.cur = u], FALSE)]
                  /\ UNCHANGED log
          /\ UNCHANGED <<head, checkpoint, origin, dlq, applied, poll, faults>>
    BY <1>5, Zenon DEF Claim
  <2>2. u \in Txs
    BY <1>a DEF RetryRec
  <2>3. CASE Claimable(r, u)
    <3>1. log[u].status = "failed" /\ log[u] \in Entry /\ log[u].ev \in scene.chain /\ TxOf[log[u].ev] = u
      BY <1>a, <2>2, <2>3 DEF Claimable, Shape, EntriesNameEvents
    <3>2. /\ log' = Claimed(u)
          /\ retry' = [Rescheduled(u) EXCEPT ![r].pc = "replay", ![r].cur = u,
                                 ![r].tries = log[u].retries + 1, ![r].dead = log[u].dead]
      BY <2>1, <2>3
    <3> DEFINE entry == [log[u] EXCEPT !.sched = TRUE, !.wait = Lease]
    <3>3. entry \in Entry /\ entry.status = "failed" /\ entry.ev = log[u].ev
      BY <3>1, LeaseType DEF Entry
    <3>4. Log /\ log'[u] = entry
      <4>1. log' = [log EXCEPT ![u] = entry]
        BY <3>2 DEF Claimed
      <4> HIDE DEF entry
      <4> QED
        BY <2>2, <3>1, <3>3, <4>1, EntryWrites
    <3>5. Rescheduled(u) \in [Retriers -> RetryRec]
      BY <1>a, RescheduledType
    <3>6. Bumped(u) /\ new \in RetryRec /\ new.pc = "replay" /\ new.cur = u
      <4> DEFINE base == Rescheduled(u)
                 n == log[u].retries + 1
                 d == log[u].dead
      <4>1. n \in Nat /\ d \in BOOLEAN
        BY <3>1 DEF Entry
      <4>2. base[r] \in RetryRec
        BY <3>5
      <4>3. retry' = [base EXCEPT ![r].pc = "replay", ![r].cur = u, ![r].tries = n, ![r].dead = d]
        BY <3>2
      <4> HIDE DEF base, n, d
      <4>4. retry' = [base EXCEPT ![r] = new] /\ new = [base[r] EXCEPT !.pc = "replay", !.cur = u, !.tries = n, !.dead = d]
        BY <3>5, <4>3 DEF base
      <4> QED
        BY <2>2, <4>1, <4>2, <4>4 DEF RetryRec, RetryPcs, base
    <3>7. Holding(r, new)
      BY <2>2, <3>3, <3>4, <3>6 DEF Holding, Attempting
    <3> QED
      BY <2>1, <3>4, <3>6, <3>7, <1>a, <1>b
  <2>4. CASE ~Claimable(r, u)
    <3> DEFINE over == [rec EXCEPT !.cur = u]
    <3>1. over \in RetryRec /\ over.cur = u
      BY <1>a, <2>2 DEF RetryRec
    <3>2. retry' = [retry EXCEPT ![r] = Return(r, over, FALSE)] /\ log' = log
      BY <2>1, <2>4
    <3>3. Hand /\ Same
      <4> HIDE DEF over
      <4>1. Return(r, over, FALSE) \in RetryRec /\ Holding(r, Return(r, over, FALSE))
        BY <2>2, <3>1, ReturnHolds
      <4> QED
        BY <1>a, <3>2, <4>1
    <3> QED
      BY <2>1, <3>2, <3>3, <1>a, <1>b, <1>c
  <2> QED
    BY <2>3, <2>4
<1>6. CASE Replay(r)
  <2>1. rec.pc = "replay" /\ t \in Txs /\ log' = log
    BY <1>6, <1>d DEF Replay
  <2>2. CASE applied' = applied \cup {log[t].ev} /\ retry' = [retry EXCEPT ![r].pc = "succeeded"]
    <3>1. Hand /\ Same
      BY <1>a, <1>e, <2>1, <2>2 DEF RetryRec, RetryPcs, Holding, Attempting
    <3>2. applied' \subseteq Events
      BY <1>b, <1>e, <2>1, <2>2, ChainType DEF Attempting, Shape
    <3> QED
      BY <1>6, <2>2, <3>1, <3>2, <1>a, <1>b, <1>c DEF Replay
  <2>3. CASE retry' = [retry EXCEPT ![r].pc = "broken"] /\ applied' = applied
    <3>1. Hand /\ Same
      BY <1>a, <1>e, <2>1, <2>3 DEF RetryRec, RetryPcs, Holding, Attempting
    <3> QED
      BY <1>6, <2>3, <3>1, <1>a, <1>b, <1>c DEF Replay
  <2> QED
    BY <1>6, <2>2, <2>3 DEF Replay
<1>7. CASE RecordSuccess(r)
  <2>1. rec.pc = "succeeded" /\ t \in Txs /\ rec.tries \in Nat
    BY <1>7, <1>a, <1>d DEF RecordSuccess, RetryRec
  <2> DEFINE entry == [log[t] EXCEPT !.status = "processed", !.retries = rec.tries, !.sched = FALSE, !.wait = 0]
  <2>2. entry \in Entry /\ entry.status = "processed" /\ entry.ev = log[t].ev
    BY <2>1, <1>e, LeaseType DEF Entry, Statuses, Attempting
  <2>3. Log
    <3>1. log' = [log EXCEPT ![t] = entry]
      BY <1>7 DEF RecordSuccess
    <3> HIDE DEF entry
    <3> QED
      BY <2>1, <2>2, <3>1, <1>e, EntryWrites DEF Attempting
  <2>4. Hand /\ Bumped(t)
    <3> DEFINE base == Rescheduled(t)
               next == IF base[r].dead THEN [base[r] EXCEPT !.pc = "resolve"] ELSE Return(r, base[r], TRUE)
    <3>1. base \in [Retriers -> RetryRec] /\ base[r] \in RetryRec /\ base[r].cur = t
      BY <1>a, RescheduledType
    <3>2. retry' = [base EXCEPT ![r] = next]
      BY <1>7 DEF RecordSuccess
    <3> HIDE DEF base
    <3>3. next \in RetryRec /\ Holding(r, next)
      <4>1. CASE base[r].dead
        BY <2>1, <3>1, <4>1 DEF RetryRec, RetryPcs, Holding, Attempting
      <4>2. CASE ~base[r].dead
        BY <2>1, <3>1, <4>2, ReturnHolds
      <4> QED
        BY <4>1, <4>2
    <3> HIDE DEF next
    <3>4. new = next
      BY <3>1, <3>2
    <3> QED
      BY <3>1, <3>2, <3>3, <3>4 DEF base
  <2> QED
    BY <1>7, <2>3, <2>4, <1>a, <1>b DEF RecordSuccess
<1>8. CASE ResolveDlq(r)
  <2>1. Hand /\ Same
    BY <1>8, <1>a, <1>f DEF ResolveDlq
  <2>2. Dlq
    <3> DEFINE all == [i \in DOMAIN dlq[t] |-> "resolved"]
    <3>1. t \in Txs
      BY <1>8, <1>d DEF ResolveDlq
    <3>2. all \in Seq(DlqStatuses)
      BY <1>a, <3>1 DEF DlqStatuses
    <3>3. dlq' = [dlq EXCEPT ![t] = all]
      BY <1>8 DEF ResolveDlq
    <3> HIDE DEF all
    <3> QED
      BY <1>a, <3>2, <3>3
  <2> QED
    BY <1>8, <2>1, <2>2, <1>b, <1>c DEF ResolveDlq
<1>9. CASE RecordFailure(r)
  <2>1. rec.pc = "broken" /\ t \in Txs /\ rec.tries \in Nat
    BY <1>9, <1>a, <1>d DEF RecordFailure, RetryRec
  <2> DEFINE exhausted == rec.tries >= MaxAttempts
             entry == FailedEntry(log[t], rec, exhausted)
  <2>2. entry \in Entry /\ entry.status = log[t].status /\ entry.ev = log[t].ev
    <3>1. exhausted \in BOOLEAN
      BY <2>1, EventLogAssumption
    <3>2. log[t] \in Entry
      BY <2>1, <1>e DEF Attempting
    <3> HIDE DEF exhausted
    <3> QED
      BY <3>1, <3>2, <1>a, FailedEntryType
  <2>3. Log
    <3>1. log' = [log EXCEPT ![t] = entry]
      BY <1>9, <1>a, <2>1 DEF RecordFailure
    <3> HIDE DEF entry
    <3> QED
      BY <2>1, <2>2, <3>1, <1>e, EntryWrites DEF Attempting
  <2>4. Hand /\ Bumped(t)
    <3> DEFINE base == Rescheduled(t)
               escalate == exhausted /\ ~rec.dead
               next == IF escalate THEN [base[r] EXCEPT !.pc = "escalate"] ELSE Return(r, base[r], FALSE)
    <3>1. base \in [Retriers -> RetryRec] /\ base[r] \in RetryRec /\ base[r].cur = t
      BY <1>a, RescheduledType
    <3>2. retry' = [base EXCEPT ![r] = next]
      BY <1>9 DEF RecordFailure
    <3> HIDE DEF base, escalate
    <3>3. next \in RetryRec /\ Holding(r, next)
      <4>1. CASE escalate
        BY <2>1, <3>1, <4>1 DEF RetryRec, RetryPcs, Holding, Attempting
      <4>2. CASE ~escalate
        BY <2>1, <3>1, <4>2, ReturnHolds
      <4> QED
        BY <4>1, <4>2
    <3> HIDE DEF next
    <3>4. new = next
      BY <3>1, <3>2
    <3> QED
      BY <3>1, <3>2, <3>3, <3>4 DEF base
  <2> QED
    BY <1>9, <2>3, <2>4, <1>a, <1>b DEF RecordFailure
<1>10. CASE Escalate(r)
  <2>1. Hand /\ Same
    BY <1>10, <1>a, <1>f DEF Escalate
  <2>2. Dlq
    BY <1>10, <1>a, <1>d DEF Escalate, DlqStatuses
  <2> QED
    BY <1>10, <2>1, <2>2, <1>b, <1>c DEF Escalate
<1>11. CASE DlqSaveOutcome(r)
  <2>1. Hand /\ Same
    BY <1>11, <1>a, EventLogAssumption DEF DlqSaveOutcome, IdleRetry, RetryRec, RetryPcs, Holding, Attempting
  <2>2. Dlq
    <3> DEFINE v == IF rec.pc = "dlqDone" THEN "resolved" ELSE "pending"
    <3>1. v \in DlqStatuses
      BY DEF DlqStatuses
    <3>2. dlq' = [dlq EXCEPT ![t][rec.item] = v]
      BY <1>11 DEF DlqSaveOutcome
    <3> HIDE DEF v
    <3> QED
      BY <1>a, <3>1, <3>2, DlqItemType
  <2> QED
    BY <1>11, <2>1, <2>2, <1>b, <1>c DEF DlqSaveOutcome
<1>12. CASE RetryThrows(r)
  <2>1. Hand /\ Same
    <3>1. CASE r \in Sweepers \/ rec.pc \in {"dlqRead", "dlqBack"}
      BY <1>12, <1>a, <3>1, EventLogAssumption DEF RetryThrows, IdleRetry, RetryRec, RetryPcs, Holding, Attempting
    <3>2. CASE ~(r \in Sweepers \/ rec.pc \in {"dlqRead", "dlqBack"})
      <4>1. retry' = [retry EXCEPT ![r] = Return(r, rec, FALSE)]
        BY <1>12, <3>2 DEF RetryThrows
      <4>2. t \in Txs
        BY <1>12, <3>2 DEF RetryThrows, Shape, RetryHolds
      <4> QED
        BY <1>a, <4>1, <4>2, ReturnHolds
    <3> QED
      BY <3>1, <3>2
  <2>2. Rest /\ dlq' = dlq /\ log' = log
    BY <1>12, <1>b DEF RetryThrows, Fault
  <2> QED
    BY <2>1, <2>2, <1>a, <1>c
<1>13. CASE RetryCrashes(r)
  <2>1. Hand /\ Same
    BY <1>13, <1>a, EventLogAssumption DEF RetryCrashes, IdleRetry, RetryRec, RetryPcs, Holding, Attempting
  <2> QED
    BY <1>13, <2>1, <1>a, <1>b, <1>c DEF RetryCrashes, Fault
<1> QED
  BY <1>1, <1>2, <1>3, <1>4, <1>5, <1>6, <1>7, <1>8, <1>9, <1>10, <1>11, <1>12, <1>13 DEF RetryStep

\* Time, the chain and the lag monitor keep the shape.
LEMMA RestShape ==
    ASSUME Shape, scene' = scene, Tick \/ LedgerCloses \/ GetOrCreateIndexerStatus
    PROVE  /\ Shape' /\ LogGrows /\ UNCHANGED <<origin, applied, poll, retry, dlq, faults>>
           /\ log' \in [Txs -> Entry]
           /\ \A t \in Txs : /\ log'[t].status = log[t].status /\ log'[t].dead = log[t].dead
                             /\ log'[t].retries = log[t].retries
<1> DEFINE Log == /\ log' \in [Txs -> Entry]
                  /\ \A t \in Txs : /\ log'[t].status = log[t].status /\ log'[t].dead = log[t].dead
                                    /\ log'[t].retries = log[t].retries /\ log'[t].ev = log[t].ev
                                    /\ log[t].status = "absent" => log'[t] = log[t]
<1>1. Log
  <2>1. CASE log' = log
    BY <2>1 DEF Shape, TypeOK
  <2>2. CASE Tick
    <3>1. ASSUME NEW t \in Txs
          PROVE  /\ log'[t] \in Entry
                 /\ log'[t].status = log[t].status /\ log'[t].dead = log[t].dead
                 /\ log'[t].retries = log[t].retries /\ log'[t].ev = log[t].ev
                 /\ log[t].status = "absent" => log'[t] = log[t]
      <4>1. log[t] \in Entry
        BY DEF Shape, TypeOK
      <4>2. CASE t \in Waiting
        <5>1. log'[t] = [log[t] EXCEPT !.wait = @ - 1] /\ log[t].wait > 0
          BY <2>2, <4>2 DEF Tick, Waiting
        <5>2. log[t].wait - 1 \in Waits
          BY <4>1, <5>1, EventLogAssumption DEF Entry, Waits
        <5>3. log[t].status # "absent"
          BY <4>1, <5>1 DEF Shape, EntriesNameEvents, NoEntry
        <5> QED
          BY <4>1, <5>1, <5>2, <5>3 DEF Entry
      <4>3. CASE t \notin Waiting
        BY <2>2, <4>1, <4>3 DEF Tick
      <4> QED
        BY <4>2, <4>3
    <3>2. log' = [t \in Txs |-> log'[t]]
      BY <2>2 DEF Tick
    <3> QED
      BY <3>1, <3>2
  <2> QED
    BY <2>1, <2>2 DEF LedgerCloses, GetOrCreateIndexerStatus
<1>2. UNCHANGED <<origin, applied, poll, retry, dlq, faults>>
  BY DEF Tick, LedgerCloses, GetOrCreateIndexerStatus
<1>3. head' \in Nat /\ checkpoint' \in Nat \cup {None}
  BY DEF Tick, LedgerCloses, GetOrCreateIndexerStatus, Shape, TypeOK
<1>4. LogGrows /\ EntriesNameEvents'
  BY <1>1 DEF LogGrows, Shape, EntriesNameEvents
<1>5. RetryHolds' /\ OnlyStaffWorks' /\ PollHolds' /\ poll' \in [Pollers -> PollRec]
  <2>1. applied \subseteq applied' /\ retry' \in [Retriers -> RetryRec]
    BY <1>2 DEF Shape, TypeOK
  <2>2. \A r \in Retriers : retry'[r].pc = retry[r].pc /\ retry'[r].cur = retry[r].cur
    BY <1>2
  <2> QED
    BY <1>2, <1>4, <2>1, <2>2, RetriersKeep, PollersKeep DEF OnlyStaffWorks
<1> QED
  BY <1>1, <1>2, <1>3, <1>4, <1>5 DEF Shape, TypeOK

\* Whoever acts, the scene stays; an action of Next is one of these.
LEMMA NextCases ==
    ASSUME Next
    PROVE  /\ scene' = scene
           /\ \/ \E p \in Pollers : p \in scene.staff /\ (PollStep(p) \/ PollFails(p))
              \/ \E r \in Retriers :
                   /\ r \in scene.staff
                   /\ \/ r \in Sweepers /\ SweepFind(r)
                      \/ r \in Admins /\ AdminRetry(r)
                      \/ RetryStep(r) \/ RetryThrows(r) \/ RetryCrashes(r)
              \/ Tick \/ LedgerCloses \/ GetOrCreateIndexerStatus
  BY DEF Next, Poll, Sweep, Retry, Pass, Close, On, Retriers

LEMMA ShapeStep == Shape /\ [Next]_vars => Shape'
<1> SUFFICES ASSUME Shape, [Next]_vars PROVE Shape'
  OBVIOUS
<1>1. CASE Next
  BY <1>1, NextCases, PollShape, RetryShape, RestShape
<1>2. CASE UNCHANGED vars
  BY <1>2 DEF vars, Shape, TypeOK, OnlyStaffWorks, EntriesNameEvents, PollHolds, RetryHolds
<1> QED
  BY <1>1, <1>2

\* The EventLog, the dead letter queue and the records the pollers and retriers
\* of eventPoller.ts and eventLogRetryService.ts hold keep their types, for any
\* chain and any number of processes, operators and faults.
THEOREM PipelineTypes == Spec => []TypeOK
<1>1. Spec => []Shape
  BY ShapeInit, ShapeStep, PTL DEF Spec
<1>2. Shape => TypeOK
  BY DEF Shape
<1> QED
  BY <1>1, <1>2, PTL

-----------------------------------------------------------------------------
(* One poller: nothing is skipped. *)

\* How the status of an entry may change: it is created, or it becomes failed,
\* or processed once its event has been applied.
StatusMoves ==
    \A t \in Txs :
        \/ log'[t].status = log[t].status
        \/ log[t].status = "absent"
        \/ log'[t].status = "failed"
        \/ log'[t].status = "processed" /\ log[t].ev \in applied

LEMMA RetryMoves ==
    ASSUME Shape, NEW r \in Retriers,
           SweepFind(r) \/ AdminRetry(r) \/ RetryStep(r) \/ RetryThrows(r) \/ RetryCrashes(r)
    PROVE  StatusMoves /\ \A t \in Txs : log[t].status = "absent" => log'[t].status = "absent"
<1>0. log \in [Txs -> Entry] /\ retry[r] \in RetryRec
  BY DEF Shape, TypeOK
<1>1. CASE log' = log
  BY <1>1 DEF StatusMoves
<1>2. CASE Claim(r)
  <2>1. PICK u \in retry[r].todo : log' = log \/ log' = Claimed(u)
    BY <1>2, Zenon DEF Claim
  <2> QED
    BY <1>0, <2>1 DEF Claimed, StatusMoves, Entry
<1>3. CASE RecordSuccess(r)
  <2> DEFINE u == retry[r].cur
  <2>1. u \in Txs /\ log[u].status # "absent" /\ log[u].ev \in applied
    BY <1>3 DEF RecordSuccess, Shape, RetryHolds, Attempting
  <2>2. log' = [log EXCEPT ![u].status = "processed", ![u].retries = retry[r].tries,
                             ![u].sched = FALSE, ![u].wait = 0]
    BY <1>3 DEF RecordSuccess
  <2> HIDE DEF u
  <2> QED
    BY <1>0, <2>1, <2>2 DEF StatusMoves, Entry
<1>4. CASE RecordFailure(r)
  <2> DEFINE u == retry[r].cur
             exhausted == retry[r].tries >= MaxAttempts
  <2>1. u \in Txs /\ log[u].status # "absent"
    BY <1>4 DEF RecordFailure, Shape, RetryHolds, Attempting
  <2>2. log' = [log EXCEPT ![u] = FailedEntry(log[u], retry[r], exhausted)]
    BY <1>0, <1>4, <2>1 DEF RecordFailure
  <2>3. exhausted \in BOOLEAN
    BY <1>0, EventLogAssumption DEF RetryRec
  <2> HIDE DEF u, exhausted
  <2>4. FailedEntry(log[u], retry[r], exhausted).status = log[u].status
    BY <1>0, <2>1, <2>3, FailedEntryType
  <2> QED
    BY <1>0, <2>1, <2>2, <2>4 DEF StatusMoves
<1>5. SweepFind(r) => log' = log
  BY SweepFindFacts, Zenon
<1> QED
  BY <1>1, <1>2, <1>3, <1>4, <1>5
     DEF AdminRetry, RetryStep, DlqMarkRetried, AdminRead, Replay, ResolveDlq, Escalate, DlqSaveOutcome,
         RetryThrows, RetryCrashes

\* What is settled stays settled.
LEMMA SettledStays ==
    ASSUME Shape, scene' = scene, LogGrows, applied \subseteq applied', StatusMoves,
           NEW e \in scene.chain, Settled(e)
    PROVE  Settled(e)'
<1>1. TxOf[e] \in Txs
  BY ChainType, EventLogAssumption DEF Shape
<1> QED
  BY <1>1 DEF Settled, LogGrows, StatusMoves

\* With one poller, the others have nothing in hand.
LEMMA TheOthersAreIdle ==
    ASSUME Shape, OnePoller, NEW p \in Pollers, p \in scene.staff, NEW q \in Pollers, q # p
    PROVE  poll[q].pc = "idle"
  BY DEF OnePoller, Shape, OnlyStaffWorks

\* Steps of the retriers, time and the chain: nothing is taken from the poller.
LEMMA ProgressKept ==
    ASSUME Shape, Shape', scene' = scene, LogGrows, applied \subseteq applied', StatusMoves,
           \A t \in Txs : log[t].status = "absent" => log'[t].status = "absent",
           poll' = poll, origin' = origin, origin # None => checkpoint' = checkpoint, Sound
    PROVE  Sound'
<1>1. EntriesNameTheFirst'
  BY DEF Sound, EntriesNameTheFirst, LogGrows
<1>5. ProcessedIsApplied'
  BY DEF Sound, ProcessedIsApplied, LogGrows, StatusMoves
<1>2. ASSUME NEW p \in Pollers, poll[p].pc \notin {"idle", "checkpoint"} PROVE CycleOf(p)'
  <2>1. CycleOf(p)
    BY <1>2 DEF Sound, CycleIsSound
  <2>2. \A e \in scene.chain : Settled(e) => Settled(e)'
    BY SettledStays
  <2>3. poll[p].pc \in Polling \ {"create"} => log'[TxOf[poll[p].cur]].ev = poll[p].cur
    BY <2>1, PollHand DEF CycleOf, LogGrows, Shape, PollHolds
  <2>4. poll[p].pc = "create" => log'[TxOf[poll[p].cur]].status = "absent"
    BY <2>1, PollHand DEF CycleOf, Polling
  <2> QED
    BY <2>1, <2>2, <2>3, <2>4 DEF CycleOf
<1>3. CycleIsSound'
  BY <1>2 DEF CycleIsSound
<1>4. BehindIsSettled'
  BY SettledStays DEF Sound, BehindIsSettled
<1> QED
  BY <1>1, <1>3, <1>4, <1>5 DEF Sound

\* A poller's step.
LEMMA PollProgress ==
    ASSUME Shape, Shape', OnePoller, Sound, NEW p \in Pollers, p \in scene.staff, scene' = scene,
           PollStep(p) \/ PollFails(p), LogGrows, applied \subseteq applied'
    PROVE  Sound'
<1> DEFINE rec == poll[p]
           e == rec.cur
           t == TxOf[e]
<1>a. poll \in [Pollers -> PollRec] /\ rec \in PollRec /\ log \in [Txs -> Entry]
  BY DEF Shape, TypeOK
<1>b. \A q \in Pollers : q # p => poll'[q].pc = "idle"
  BY TheOthersAreIdle DEF OnePoller, Shape, OnlyStaffWorks
<1>c. rec.pc \notin {"idle", "checkpoint"} => CycleOf(p)
  BY DEF Sound, CycleIsSound
<1>d. rec.pc \in Polling => e \in scene.chain /\ e \in Events /\ t \in Txs /\ e \in rec.todo
  BY PollHand
<1>e. StatusMoves => \A f \in scene.chain : Settled(f) => Settled(f)'
  BY SettledStays
<1>f. StatusMoves /\ UNCHANGED <<origin, checkpoint>> => BehindIsSettled'
  BY <1>e DEF Sound, BehindIsSettled
<1>g. log' = log => StatusMoves /\ EntriesNameTheFirst' /\ ProcessedIsApplied'
  BY DEF StatusMoves, Sound, EntriesNameTheFirst, ProcessedIsApplied
<1> SUFFICES /\ EntriesNameTheFirst' /\ ProcessedIsApplied' /\ BehindIsSettled'
             /\ poll'[p].pc \notin {"idle", "checkpoint"} => CycleOf(p)'
  BY <1>b DEF Sound, CycleIsSound
<1>1. CASE PollLatest(p) \/ PollFails(p)
  <2>1. poll'[p].pc \in {"idle", "checkpoint"}
    BY <1>1, <1>a DEF PollLatest, PollFails, IdlePoll, PollRec
  <2> QED
    BY <1>1, <1>f, <1>g, <2>1 DEF PollLatest, PollFails
<1>2. CASE PollCheckpoint(p)
  <2> DEFINE from == IF checkpoint = None THEN rec.to ELSE checkpoint + 1
             todo == {f \in scene.chain : LedgerOf[f] \in from..rec.to}
  <2>1. CASE from > rec.to
    <3>1. poll'[p].pc = "idle"
      BY <1>2, <1>a, <2>1 DEF PollCheckpoint, IdlePoll
    <3> QED
      BY <1>2, <1>f, <1>g, <3>1 DEF PollCheckpoint
  <2>2. CASE ~(from > rec.to)
    <3>1. poll'[p] = [pc |-> "find", from |-> from, to |-> rec.to, todo |-> todo, cur |-> None]
      BY <1>2, <1>a, <2>2 DEF PollCheckpoint
    <3>2. from \in Nat /\ rec.to \in Nat
      BY <1>a DEF PollRec, Shape, TypeOK
    <3>3. origin # None => from = checkpoint + 1
      BY DEF Sound, BehindIsSettled
    <3>4. origin' = origin /\ checkpoint' = checkpoint
      BY <1>2 DEF PollCheckpoint
    <3>5. CycleOf(p)'
      <4>1. from <= rec.to
        BY <2>2, <3>2
      <4> HIDE DEF from
      <4> QED
        BY <3>1, <3>3, <3>4, <4>1 DEF CycleOf, Polling
    <3> QED
      BY <1>2, <1>f, <1>g, <3>5 DEF PollCheckpoint
  <2> QED
    BY <2>1, <2>2
<1>3. CASE PollFind(p)
  <2>1. PICK f \in First(rec.todo) :
          LET status == log[TxOf[f]].status
          IN \/ status \in {"processed", "failed"} /\ Skip(p, f)
             \/ status = "absent" /\ poll' = [poll EXCEPT ![p].pc = "create", ![p].cur = f]
             \/ status = "pending" /\ poll' = [poll EXCEPT ![p].pc = "handle", ![p].cur = f]
    BY <1>3 DEF PollFind
  <2>2. rec.pc = "find" /\ CycleOf(p) /\ log' = log /\ applied' = applied /\ origin' = origin /\ checkpoint' = checkpoint
    BY <1>3, <1>c DEF PollFind
  <2>3. f \in rec.todo /\ f \in scene.chain /\ f \in Events /\ TxOf[f] \in Txs /\ \A g \in rec.todo : f <= g
    BY ChainType, EventLogAssumption DEF First, Shape, PollHolds
  <2>4. CASE log[TxOf[f]].status \in {"processed", "failed"} /\ Skip(p, f)
    <3>1. Settled(f)
      BY <2>3, <2>4 DEF Settled, Sound, ProcessedIsApplied
    <3>2. poll'[p] = [rec EXCEPT !.pc = "find", !.todo = @ \ {f}, !.cur = None]
      BY <1>a, <2>4 DEF Skip
    <3>3. \A g \in scene.chain : Settled(g) => Settled(g)'
      BY <1>e, <1>g, <2>2
    <3>4. /\ poll'[p].pc = "find" /\ poll'[p].todo = rec.todo \ {f}
          /\ poll'[p].from = rec.from /\ poll'[p].to = rec.to
      BY <1>a, <3>2 DEF PollRec
    <3>5. CycleOf(p)'
      BY <2>2, <3>1, <3>3, <3>4 DEF CycleOf, Polling
    <3> QED
      BY <1>f, <1>g, <2>2, <3>5
  <2>5. CASE log[TxOf[f]].status = "absent" /\ poll' = [poll EXCEPT ![p].pc = "create", ![p].cur = f]
    <3>1. /\ poll'[p].pc = "create" /\ poll'[p].todo = rec.todo /\ poll'[p].cur = f
          /\ poll'[p].from = rec.from /\ poll'[p].to = rec.to
      BY <1>a, <2>5 DEF PollRec
    <3>2. CycleOf(p)'
      BY <2>2, <2>3, <2>5, <3>1, <1>e, <1>g DEF CycleOf, Polling
    <3> QED
      BY <1>f, <1>g, <2>2, <3>2
  <2>6. CASE log[TxOf[f]].status = "pending" /\ poll' = [poll EXCEPT ![p].pc = "handle", ![p].cur = f]
    <3>1. /\ poll'[p].pc = "handle" /\ poll'[p].todo = rec.todo /\ poll'[p].cur = f
          /\ poll'[p].from = rec.from /\ poll'[p].to = rec.to
      BY <1>a, <2>6 DEF PollRec
    <3> DEFINE g == log[TxOf[f]].ev
    <3>2. g \in scene.chain /\ TxOf[g] = TxOf[f] /\ g <= f
      BY <2>3, <2>6 DEF Shape, EntriesNameEvents, Sound, EntriesNameTheFirst
    <3>3. LedgerOf[g] \in rec.from..rec.to
      BY <2>2, <2>3, <3>2, ChainType, EventLogAssumption DEF CycleOf, Shape
    <3>4. ~Settled(g)
      BY <2>6, <3>2 DEF Settled
    <3>5. g \in rec.todo
      BY <2>2, <3>2, <3>3, <3>4 DEF CycleOf
    <3>6. g = f
      <4>1. g \in Nat /\ f \in Nat
        BY <2>3, <3>2, ChainType, EventLogAssumption DEF Shape
      <4>2. f <= g /\ g <= f
        BY <2>3, <3>2, <3>5
      <4> HIDE DEF g
      <4> QED
        BY <4>1, <4>2
    <3>7. CycleOf(p)'
      <4> HIDE DEF g
      <4>1. log'[TxOf[f]].ev = f
        BY <2>2, <3>6 DEF g
      <4> QED
        BY <2>2, <2>3, <3>1, <4>1, <1>e, <1>g DEF CycleOf, Polling
    <3> QED
      BY <1>f, <1>g, <2>2, <3>7
  <2> QED
    BY <2>1, <2>4, <2>5, <2>6
<1>4. CASE PollCreate(p)
  <2>1. rec.pc = "create" /\ CycleOf(p) /\ log[t].status = "absent" /\ applied' = applied /\ UNCHANGED <<origin, checkpoint>>
    BY <1>4, <1>c DEF PollCreate, CycleOf
  <2>2. e \in scene.chain /\ e \in Events /\ t \in Txs /\ e \in rec.todo /\ \A f \in rec.todo : e <= f
    BY <2>1, <1>d DEF CycleOf, Polling
  <2> DEFINE entry == [NoEntry EXCEPT !.status = "pending", !.ev = e]
  <2>3. log' = [log EXCEPT ![t] = entry] /\ poll' = [poll EXCEPT ![p].pc = "handle"]
    BY <1>4, <2>1 DEF PollCreate
  <2>4. entry.status = "pending" /\ entry.ev = e
    BY <2>2, NewEntryType, Zenon
  <2>5. log'[t] = entry /\ \A u \in Txs \ {t} : log'[u] = log[u]
    BY <1>a, <2>2, <2>3
  <2> HIDE DEF entry
  <2>6. StatusMoves
    BY <2>1, <2>5 DEF StatusMoves
  <2>7. \A g \in scene.chain : TxOf[g] = t => e <= g
    <3> SUFFICES ASSUME NEW g \in scene.chain, TxOf[g] = t PROVE e <= g
      OBVIOUS
    <3>1. LedgerOf[g] \in rec.from..rec.to
      BY <2>1, <2>2, ChainType, EventLogAssumption DEF CycleOf, Shape
    <3>2. ~Settled(g)
      BY <2>1 DEF Settled
    <3> QED
      BY <2>1, <2>2, <3>1, <3>2 DEF CycleOf
  <2>8. EntriesNameTheFirst' /\ ProcessedIsApplied'
    BY <2>1, <2>4, <2>5, <2>7 DEF Sound, EntriesNameTheFirst, ProcessedIsApplied
  <2>9. /\ poll'[p].pc = "handle" /\ poll'[p].todo = rec.todo /\ poll'[p].cur = e
        /\ poll'[p].from = rec.from /\ poll'[p].to = rec.to
    BY <1>a, <2>3 DEF PollRec
  <2>10. CycleOf(p)'
    BY <2>1, <2>2, <2>4, <2>5, <2>6, <2>9, <1>e DEF CycleOf, Polling
  <2> QED
    BY <1>f, <2>1, <2>6, <2>8, <2>10
<1>5. CASE PollHandle(p)
  <2>1. rec.pc = "handle" /\ CycleOf(p) /\ log' = log /\ UNCHANGED <<origin, checkpoint>>
    BY <1>5, <1>c DEF PollHandle
  <2>2. \/ poll'[p] = [rec EXCEPT !.pc = "mark"] /\ e \in applied'
        \/ poll'[p] = [rec EXCEPT !.pc = "markFailed"]
    BY <1>a, <1>5 DEF PollHandle
  <2>3. /\ poll'[p].pc \in {"mark", "markFailed"} /\ poll'[p].todo = rec.todo /\ poll'[p].cur = e
        /\ poll'[p].from = rec.from /\ poll'[p].to = rec.to
        /\ poll'[p].pc = "mark" => e \in applied'
    BY <1>a, <2>2 DEF PollRec
  <2>4. CycleOf(p)'
    BY <2>1, <2>3, <1>e, <1>g DEF CycleOf, Polling
  <2>5. EntriesNameTheFirst' /\ ProcessedIsApplied'
    BY <1>g, <2>1
  <2> QED
    BY <1>f, <1>g, <2>1, <2>4, <2>5
<1>6. CASE PollMark(p)
  <2>1. rec.pc = "mark" /\ CycleOf(p) /\ applied' = applied /\ UNCHANGED <<origin, checkpoint>>
    BY <1>6, <1>c DEF PollMark
  <2>2. e \in scene.chain /\ t \in Txs /\ e \in rec.todo /\ log[t].ev = e /\ e \in applied /\ log[t].status # "absent"
    BY <2>1, <1>d DEF CycleOf, Polling, Shape, PollHolds
  <2>3. CASE log' = [log EXCEPT ![t].status = "processed"] /\ Skip(p, e)
    <3>1. /\ log'[t].status = "processed" /\ log'[t].ev = e
          /\ \A u \in Txs \ {t} : log'[u] = log[u]
      BY <1>a, <2>2, <2>3 DEF Entry
    <3>5. PICK c \in scene.chain : c = e
      BY <2>2
    <3>2. StatusMoves /\ EntriesNameTheFirst' /\ ProcessedIsApplied' /\ Settled(c)'
      BY <2>1, <2>2, <3>1, <3>5 DEF StatusMoves, Sound, EntriesNameTheFirst, ProcessedIsApplied, Settled
    <3>3. /\ poll'[p].pc = "find" /\ poll'[p].todo = rec.todo \ {e}
          /\ poll'[p].from = rec.from /\ poll'[p].to = rec.to
      BY <1>a, <2>3 DEF PollRec, Skip
    <3>4. CycleOf(p)'
      BY <2>1, <3>2, <3>3, <3>5, <1>e DEF CycleOf, Polling
    <3> QED
      BY <1>f, <2>1, <3>2, <3>4
  <2>4. CASE log' = log /\ poll' = [poll EXCEPT ![p].pc = "markFailed"]
    <3>1. /\ poll'[p].pc = "markFailed" /\ poll'[p].todo = rec.todo /\ poll'[p].cur = e
          /\ poll'[p].from = rec.from /\ poll'[p].to = rec.to
      BY <1>a, <2>4 DEF PollRec
    <3>2. CycleOf(p)'
      BY <2>1, <2>4, <3>1, <1>e, <1>g DEF CycleOf, Polling
    <3> QED
      BY <1>f, <1>g, <2>1, <2>4, <3>2
  <2> QED
    BY <1>6, <2>3, <2>4 DEF PollMark
<1>7. CASE PollMarkFailed(p)
  <2>1. rec.pc = "markFailed" /\ CycleOf(p) /\ applied' = applied /\ UNCHANGED <<origin, checkpoint>>
    BY <1>7, <1>c DEF PollMarkFailed
  <2>2. e \in scene.chain /\ t \in Txs /\ e \in rec.todo /\ log[t].status # "absent"
    BY <2>1, <1>d DEF Polling, Shape, PollHolds
  <2>3. log' = [log EXCEPT ![t].status = "failed", ![t].sched = TRUE, ![t].wait = RetryDelay(1)] /\ Skip(p, e)
    BY <1>7 DEF PollMarkFailed
  <2>4. /\ log'[t].status = "failed" /\ log'[t].ev = log[t].ev
        /\ \A u \in Txs \ {t} : log'[u] = log[u]
    BY <1>a, <2>2, <2>3 DEF Entry
  <2>8. PICK c \in scene.chain : c = e
    BY <2>2
  <2>5. StatusMoves /\ EntriesNameTheFirst' /\ ProcessedIsApplied' /\ Settled(c)'
    BY <2>1, <2>2, <2>4, <2>8 DEF StatusMoves, Sound, EntriesNameTheFirst, ProcessedIsApplied, Settled
  <2>6. /\ poll'[p].pc = "find" /\ poll'[p].todo = rec.todo \ {e}
        /\ poll'[p].from = rec.from /\ poll'[p].to = rec.to
    BY <1>a, <2>3 DEF PollRec, Skip
  <2>7. CycleOf(p)'
    BY <2>1, <2>5, <2>6, <2>8, <1>e DEF CycleOf, Polling
  <2> QED
    BY <1>f, <2>1, <2>5, <2>7
<1>8. CASE PollCommit(p)
  <2>1. /\ rec.pc = "find" /\ rec.todo = {} /\ log' = log /\ applied' = applied
        /\ checkpoint' = rec.to /\ origin' = IF origin = None THEN rec.from ELSE origin
    BY <1>8 DEF PollCommit
  <2>2. CycleOf(p) /\ rec.from \in Nat /\ rec.to \in Nat
    BY <1>a, <1>c, <2>1 DEF PollRec
  <2>3. poll'[p].pc = "idle"
    BY <1>8, <1>a DEF PollCommit, IdlePoll
  <2>4. ASSUME NEW f \in scene.chain, LedgerOf[f] \in origin'..checkpoint' PROVE Settled(f)'
    <3>1. LedgerOf[f] \in Nat
      <4>1. f \in Events /\ LedgerOf \in [Events -> 1..MaxLedger] /\ MaxLedger \in Nat
        BY ChainType, EventLogAssumption DEF Shape
      <4> QED
        BY <4>1
    <3>2. CASE origin = None
      BY <1>e, <1>g, <2>1, <2>2, <2>4, <3>2 DEF CycleOf
    <3>3. CASE origin # None
      <4>1. checkpoint \in Nat /\ origin \in Nat /\ rec.from = checkpoint + 1
        BY <2>2, <3>3 DEF CycleOf, Sound, BehindIsSettled, Shape, TypeOK
      <4>2. LedgerOf[f] \in origin..checkpoint \/ LedgerOf[f] \in rec.from..rec.to
        BY <2>1, <2>2, <2>4, <3>1, <3>3, <4>1
      <4> QED
        BY <1>e, <1>g, <2>1, <2>2, <3>3, <4>2 DEF CycleOf, Sound, BehindIsSettled
    <3> QED
      BY <3>2, <3>3
  <2>5. BehindIsSettled'
    BY <2>1, <2>2, <2>4, EventLogAssumption DEF BehindIsSettled
  <2> QED
    BY <1>g, <2>1, <2>3, <2>5
<1> QED
  BY <1>1, <1>2, <1>3, <1>4, <1>5, <1>6, <1>7, <1>8 DEF PollStep

LEMMA ProgressInit == Init => Progress
  BY EventLogAssumption DEF Init, Progress, Sound, EntriesNameTheFirst, ProcessedIsApplied, CycleIsSound,
     BehindIsSettled, NoEntry, IdlePoll

LEMMA ProgressStep == PipelineInv /\ [Next]_vars => Progress'
<1> SUFFICES ASSUME PipelineInv, [Next]_vars PROVE Progress'
  OBVIOUS
<1>0. Shape /\ Shape'
  BY ShapeStep DEF PipelineInv
<1>1. CASE Next
  <2>1. scene' = scene
    BY <1>1, NextCases
  <2> SUFFICES ASSUME OnePoller PROVE Sound'
    BY <2>1 DEF Progress, OnePoller
  <2>2. Sound
    BY DEF PipelineInv, Progress
  <2>3. ASSUME NEW p \in Pollers, p \in scene.staff, PollStep(p) \/ PollFails(p) PROVE Sound'
    BY <1>0, <2>1, <2>2, <2>3, PollShape, PollProgress
  <2>4. ASSUME NEW r \in Retriers, r \in scene.staff,
               \/ r \in Sweepers /\ SweepFind(r)
               \/ AdminRetry(r)
               \/ RetryStep(r) \/ RetryThrows(r) \/ RetryCrashes(r)
        PROVE  Sound'
    <3>1. LogGrows /\ applied \subseteq applied' /\ UNCHANGED <<head, checkpoint, origin, poll>>
      BY <1>0, <2>1, <2>4, RetryShape
    <3>2. StatusMoves /\ \A t \in Txs : log[t].status = "absent" => log'[t].status = "absent"
      BY <1>0, <2>4, RetryMoves
    <3> QED
      BY <1>0, <2>1, <2>2, <3>1, <3>2, ProgressKept
  <2>5. CASE Tick \/ LedgerCloses \/ GetOrCreateIndexerStatus
    <3>1. /\ LogGrows /\ UNCHANGED <<origin, applied, poll>>
          /\ \A t \in Txs : log'[t].status = log[t].status
      BY <1>0, <2>1, <2>5, RestShape
    <3>2. StatusMoves
      BY <3>1 DEF StatusMoves
    <3>3. origin # None => checkpoint' = checkpoint
      BY <2>2, <2>5 DEF Sound, BehindIsSettled, Tick, LedgerCloses, GetOrCreateIndexerStatus
    <3> QED
      BY <1>0, <2>1, <2>2, <3>1, <3>2, <3>3, ProgressKept
  <2> QED
    BY <1>1, <2>3, <2>4, <2>5, NextCases
<1>2. CASE UNCHANGED vars
  BY <1>2 DEF vars, PipelineInv, Progress, OnePoller, Sound, EntriesNameTheFirst, ProcessedIsApplied,
     CycleIsSound, CycleOf, BehindIsSettled, Settled
<1> QED
  BY <1>1, <1>2

LEMMA PipelineInductive == Spec => []PipelineInv
<1>1. Init => PipelineInv
  BY ShapeInit, ProgressInit DEF PipelineInv
<1>2. PipelineInv /\ [Next]_vars => PipelineInv'
  BY ShapeStep, ProgressStep DEF PipelineInv
<1> QED
  BY <1>1, <1>2, PTL DEF Spec

\* However cycles fail and crash between their awaits, however often handlers
\* throw and whoever retries: with one poller every event between the first
\* ledger polled and the checkpoint of pollOnce is on record as failed, or as
\* processed by a handler that completed.
THEOREM NoEventIsSkipped == Spec => []NothingIsSkipped
<1>1. PipelineInv => NothingIsSkipped
  BY DEF PipelineInv, Progress, Sound, BehindIsSettled, Settled, NothingIsSkipped
<1> QED
  BY <1>1, PipelineInductive, PTL

-----------------------------------------------------------------------------
(* No operator: the sweeps keep out of each other's way. *)

\* A sweep's step that writes neither the EventLog nor the DLQ.
LEMMA SweepMoves ==
    ASSUME Shape, Orderly, NEW r \in Retriers, NEW new \in RetryRec, retry' = [retry EXCEPT ![r] = new],
           UNCHANGED <<log, dlq, poll>>, faults' = faults \/ (faults' # 0 /\ faults' \in Nat),
           new.pc \in {"idle", "claim", "succeeded", "broken"}, ~new.unset,
           retry[r].pc = "escalate" => faults' # 0,
           new.pc \in Attempting => /\ retry[r].pc \in Attempting
                                    /\ new.cur = retry[r].cur /\ new.dead = retry[r].dead /\ new.tries = retry[r].tries,
           \A t \in new.fresh : t \in retry[r].fresh \/ Due(t)
    PROVE  Orderly'
<1>1. retry \in [Retriers -> RetryRec] /\ retry' \in [Retriers -> RetryRec] /\ retry'[r] = new /\ \A q \in Retriers \ {r} : retry'[q] = retry[q]
  BY DEF Shape, TypeOK
<1>2. \A q \in Retriers : retry'[q].pc \in Attempting =>
        /\ retry[q].pc \in Attempting
        /\ retry'[q].cur = retry[q].cur /\ retry'[q].dead = retry[q].dead /\ retry'[q].tries = retry[q].tries
  BY <1>1
<1>3. \A q \in Retriers : \A t \in retry'[q].fresh : t \in retry[q].fresh \/ Due(t)
  BY <1>1
<1>4. \A t : Due(t) => /\ log[t].status = "failed" /\ ~log[t].dead
                       /\ \A q \in Retriers : retry[q].pc \in Attempting => retry[q].cur # t
  BY DEF Due, Orderly, LeaseIsHeld
<1>5. PendingIsThePollers'
  BY DEF Orderly, PendingIsThePollers
<1>6. FreshIsFree'
  BY <1>2, <1>3, <1>4 DEF Orderly, FreshIsFree
<1>7. LeaseIsHeld'
  BY <1>1, <1>2 DEF Orderly, LeaseIsHeld, Attempting
<1>8. \A q \in Retriers : retry'[q].pc = "escalate" => q # r /\ retry[q].pc = "escalate" /\ retry'[q].cur = retry[q].cur
  BY <1>1
<1>9. OneRecord'
  BY <1>8 DEF Orderly, OneRecord
<1>10. OneAttemptAtATime'
  BY <1>2 DEF Orderly, OneAttemptAtATime
<1>11. Escalated'
  <2>1. ASSUME NEW t \in Txs, NEW q \in Retriers, retry[q].pc = "escalate", retry[q].cur = t, faults' = 0
        PROVE  retry'[q].pc = "escalate" /\ retry'[q].cur = t
    BY <1>1, <2>1
  <2> QED
    BY <2>1 DEF Orderly, Escalated
<1> QED
  BY <1>5, <1>6, <1>7, <1>9, <1>10, <1>11 DEF Orderly

\* A sweep's step that writes entry t, of which it has or gets the lease.
LEMMA SweepWrites ==
    ASSUME Shape, Orderly, NEW r \in Retriers, NEW t \in Txs, NEW new \in RetryRec, NEW entry \in Entry,
           retry' = [Rescheduled(t) EXCEPT ![r] = new], log' = [log EXCEPT ![t] = entry],
           UNCHANGED <<dlq, poll, faults>>,
           log[t].status = "failed", ~log[t].dead, retry[r].pc \in Attempting \cup {"claim"},
           \A q \in Retriers : q # r /\ retry[q].pc \in Attempting => retry[q].cur # t,
           new.pc \in {"idle", "claim", "replay", "escalate"}, ~new.unset, new.fresh \subseteq retry[r].fresh \ {t},
           new.pc = "escalate" <=> entry.dead,
           new.pc = "escalate" => new.cur = t /\ entry.retries = MaxAttempts,
           new.pc = "replay" => /\ new.cur = t /\ entry.status = "failed" /\ entry.wait > 0
                                /\ ~new.dead /\ new.tries = entry.retries + 1,
           entry.status \in {"processed", "failed"},
           entry.status = "failed" /\ ~entry.dead => entry.retries < MaxAttempts
    PROVE  Orderly'
<1>1. /\ Rescheduled(t) \in [Retriers -> RetryRec]
      /\ retry' \in [Retriers -> RetryRec] /\ retry'[r] = new
      /\ \A q \in Retriers \ {r} :
           /\ retry'[q].pc = retry[q].pc /\ retry'[q].cur = retry[q].cur /\ retry'[q].fresh = retry[q].fresh \ {t}
           /\ retry'[q].unset = retry[q].unset /\ retry'[q].tries = retry[q].tries /\ retry'[q].dead = retry[q].dead
  BY RescheduledType DEF Shape, TypeOK
<1>2. log' \in [Txs -> Entry] /\ log'[t] = entry /\ \A u \in Txs \ {t} : log'[u] = log[u]
  BY DEF Shape, TypeOK
<1>3. \A q \in Retriers : retry[q].pc \in Attempting \cup {"escalate"} => retry[q].cur \in Txs
  BY DEF Shape, RetryHolds, Attempting
<1>4. PendingIsThePollers'
  <2>1. \A p \in Pollers : poll[p].pc \in Polling \ {"create"} => TxOf[poll[p].cur] \in Txs
    BY PollHand
  <2> QED
    BY <1>2, <2>1 DEF Orderly, PendingIsThePollers
<1>5. \A q \in Retriers : retry'[q].fresh \subseteq retry[q].fresh \ {t}
  BY <1>1
<1>6. FreshIsFree'
  <2> SUFFICES ASSUME NEW q \in Retriers, NEW u \in retry'[q].fresh
               PROVE  /\ log'[u].status = "failed" /\ ~log'[u].dead
                      /\ \A x \in Retriers : retry'[x].pc \in Attempting => retry'[x].cur # u
    BY DEF FreshIsFree
  <2>1. u \in retry[q].fresh /\ u # t /\ u \in Txs
    BY <1>5, <1>1 DEF Shape, TypeOK, RetryRec
  <2>2. log'[u] = log[u]
    BY <1>2, <2>1
  <2>3. ASSUME NEW x \in Retriers, retry'[x].pc \in Attempting PROVE retry'[x].cur # u
    BY <1>1, <2>1, <2>3 DEF Orderly, FreshIsFree, Attempting
  <2> QED
    BY <2>1, <2>2, <2>3 DEF Orderly, FreshIsFree
<1>7. LeaseIsHeld'
  <2> SUFFICES ASSUME NEW q \in Retriers
               PROVE  /\ retry'[q].pc \in {"idle", "claim", "escalate"} \cup Attempting
                      /\ ~retry'[q].unset
                      /\ retry'[q].pc \in Attempting =>
                           /\ log'[retry'[q].cur].status = "failed" /\ ~log'[retry'[q].cur].dead
                           /\ log'[retry'[q].cur].wait > 0
                           /\ ~retry'[q].dead /\ retry'[q].tries = log'[retry'[q].cur].retries + 1
    BY DEF LeaseIsHeld
  <2>1. CASE q = r
    BY <1>1, <1>2, <2>1 DEF Attempting
  <2>2. CASE q # r
    <3>1. retry[q].pc \in Attempting => log'[retry[q].cur] = log[retry[q].cur]
      BY <1>2, <1>3, <2>2
    <3> QED
      BY <1>1, <2>2, <3>1 DEF Orderly, LeaseIsHeld
  <2> QED
    BY <2>1, <2>2
<1>8. \A q \in Retriers : retry[q].pc = "escalate" => q # r /\ retry[q].cur # t /\ log'[retry[q].cur] = log[retry[q].cur]
  BY <1>2, <1>3 DEF Orderly, OneRecord, Attempting
<1>9. OneRecord'
  <2>1. \A u \in Txs : ~log'[u].dead => dlq'[u] = <<>>
    BY <1>2 DEF Orderly, OneRecord
  <2>2. dlq[t] = <<>>
    BY DEF Orderly, OneRecord
  <2>3. ASSUME NEW q \in Retriers, retry'[q].pc = "escalate"
        PROVE  /\ log'[retry'[q].cur].dead /\ dlq'[retry'[q].cur] = <<>>
               /\ \A x \in Retriers : retry'[x].pc = "escalate" /\ retry'[x].cur = retry'[q].cur => x = q
    <3>1. CASE q = r
      BY <1>1, <1>2, <1>8, <2>2, <2>3, <3>1
    <3>2. CASE q # r
      BY <1>1, <1>8, <2>3, <3>2 DEF Orderly, OneRecord
    <3> QED
      BY <3>1, <3>2
  <2> QED
    BY <2>1, <2>3 DEF OneRecord
<1>10. OneAttemptAtATime'
  BY <1>1 DEF Orderly, OneAttemptAtATime, Attempting
<1>11. Escalated'
  <2> SUFFICES ASSUME NEW u \in Txs, log'[u].dead
               PROVE  /\ log'[u].retries = MaxAttempts
                      /\ faults' = 0 => \/ Len(dlq'[u]) = 1
                                        \/ \E q \in Retriers : retry'[q].pc = "escalate" /\ retry'[q].cur = u
    BY DEF Escalated
  <2>1. CASE u = t
    BY <1>1, <1>2, <2>1
  <2>2. CASE u # t
    <3>1. log'[u] = log[u]
      BY <1>2, <2>2
    <3>2. \A q \in Retriers : retry[q].pc = "escalate" => retry'[q].pc = "escalate" /\ retry'[q].cur = retry[q].cur
      BY <1>1, <1>8
    <3> QED
      BY <3>1, <3>2 DEF Orderly, Escalated
  <2> QED
    BY <2>1, <2>2
<1> QED
  BY <1>4, <1>6, <1>7, <1>9, <1>10, <1>11 DEF Orderly

\* A step of a sweep.
LEMMA SweepOrderly ==
    ASSUME Shape, Orderly, NoOperator, NEW r \in Retriers, r \in scene.staff,
           \/ r \in Sweepers /\ SweepFind(r)
           \/ r \in Admins /\ AdminRetry(r)
           \/ RetryStep(r) \/ RetryThrows(r) \/ RetryCrashes(r)
    PROVE  Orderly'
<1> DEFINE rec == retry[r]
           t == rec.cur
<1>a. r \in Sweepers /\ r \notin Admins
  BY DEF NoOperator, Retriers
<1>b. retry \in [Retriers -> RetryRec] /\ rec \in RetryRec /\ log \in [Txs -> Entry] /\ faults \in Nat
  BY DEF Shape, TypeOK
<1>c. ~rec.unset /\ rec.pc \in {"idle", "claim", "escalate"} \cup Attempting
  BY DEF Orderly, LeaseIsHeld
<1>d. rec.pc \in Attempting =>
        /\ t \in Txs /\ log[t] \in Entry /\ log[t].status = "failed" /\ ~log[t].dead
        /\ ~rec.dead /\ rec.tries = log[t].retries + 1 /\ log[t].retries < MaxAttempts
        /\ log[t].retries \in Nat /\ rec.tries \in Nat
        /\ \A q \in Retriers : q # r /\ retry[q].pc \in Attempting => retry[q].cur # t
  <2> SUFFICES ASSUME rec.pc \in Attempting
               PROVE  /\ t \in Txs /\ log[t] \in Entry /\ log[t].status = "failed" /\ ~log[t].dead
                      /\ ~rec.dead /\ rec.tries = log[t].retries + 1 /\ log[t].retries < MaxAttempts
                      /\ log[t].retries \in Nat /\ rec.tries \in Nat
                      /\ \A q \in Retriers : q # r /\ retry[q].pc \in Attempting => retry[q].cur # t
    OBVIOUS
  <2>1. t \in Txs
    BY DEF Shape, RetryHolds, Attempting
  <2>2. log[t] \in Entry /\ log[t].retries \in Nat /\ rec.tries \in Nat
    BY <1>b, <2>1 DEF Entry, RetryRec
  <2>3. log[t].status = "failed" /\ ~log[t].dead /\ ~rec.dead /\ rec.tries = log[t].retries + 1
    BY DEF Orderly, LeaseIsHeld
  <2>4. log[t].retries < MaxAttempts
    BY <2>1, <2>3 DEF Orderly, PendingIsThePollers
  <2>5. \A q \in Retriers : q # r /\ retry[q].pc \in Attempting => retry[q].cur # t
    BY DEF Orderly, OneAttemptAtATime
  <2> QED
    BY <2>1, <2>2, <2>3, <2>4, <2>5
<1>e. ASSUME NEW q \in RetryRec, NEW b \in BOOLEAN
      PROVE  /\ Return(r, q, b) \in RetryRec /\ Return(r, q, b).pc \in {"idle", "claim"}
             /\ Return(r, q, b).fresh \subseteq q.fresh /\ ~Return(r, q, b).unset
  BY <1>a, ReturnFacts
<1>f. IdleRetry \in RetryRec /\ IdleRetry.pc = "idle" /\ IdleRetry.fresh = {} /\ ~IdleRetry.unset
  BY EventLogAssumption DEF IdleRetry, RetryRec, RetryPcs
<1>1. CASE SweepFind(r)
  <2>1. PICK batch \in SUBSET Txs :
          /\ \A u \in batch : Due(u)
          /\ retry' = [retry EXCEPT ![r].pc = "claim", ![r].todo = batch, ![r].fresh = batch]
    BY <1>1, SweepFindFacts, Zenon
  <2>2. UNCHANGED <<head, checkpoint, origin, log, dlq, applied, poll, faults>> /\ rec.pc = "idle"
    BY <1>1, SweepFindFacts, Zenon
  <2> DEFINE new == [rec EXCEPT !.pc = "claim", !.todo = batch, !.fresh = batch]
  <2>3. new \in RetryRec /\ new.pc = "claim" /\ ~new.unset /\ new.fresh = batch /\ retry' = [retry EXCEPT ![r] = new]
    BY <1>b, <1>c, <2>1 DEF RetryRec, RetryPcs
  <2> HIDE DEF new
  <2> QED
    BY <2>1, <2>2, <2>3, SweepMoves DEF Attempting
<1>2. CASE Claim(r)
  <2>1. PICK u \in rec.todo :
          /\ rec.pc = "claim"
          /\ IF Claimable(r, u)
             THEN /\ log' = Claimed(u)
                  /\ retry' = [Rescheduled(u) EXCEPT ![r].pc = "replay", ![r].cur = u,
                                 ![r].tries = log[u].retries + 1, ![r].dead = log[u].dead]
             ELSE /\ retry' = [retry EXCEPT ![r] = Return(r, [@ EXCEPT !.cur = u], FALSE)]
                  /\ UNCHANGED log
          /\ UNCHANGED <<head, checkpoint, origin, dlq, applied, poll, faults>>
    BY <1>2, Zenon DEF Claim
  <2>2. u \in Txs
    BY <1>b DEF RetryRec
  <2>3. CASE Claimable(r, u)
    <3>1. u \in rec.fresh
      BY <1>c, <2>3 DEF Claimable
    <3>2. /\ log[u] \in Entry /\ log[u].status = "failed" /\ ~log[u].dead /\ log[u].retries < MaxAttempts
          /\ \A q \in Retriers : retry[q].pc \in Attempting => retry[q].cur # u
      BY <1>b, <2>2, <3>1 DEF Orderly, FreshIsFree, PendingIsThePollers
    <3> DEFINE entry == [log[u] EXCEPT !.sched = TRUE, !.wait = Lease]
               base == Rescheduled(u)
               n == log[u].retries + 1
               d == log[u].dead
               new == [base[r] EXCEPT !.pc = "replay", !.cur = u, !.tries = n, !.dead = d]
    <3>3. /\ entry \in Entry /\ entry.status = "failed" /\ entry.wait > 0 /\ ~entry.dead
          /\ entry.retries = log[u].retries /\ n = entry.retries + 1 /\ n \in Nat /\ d \in BOOLEAN /\ ~d
      <4>1. Lease > 0 /\ Lease \in Waits
        BY LeaseType, EventLogAssumption
      <4>2. log[u].retries \in Nat /\ log[u].dead \in BOOLEAN
        BY <3>2 DEF Entry
      <4>3. entry \in Entry /\ entry.wait = Lease /\ entry.status = log[u].status /\ entry.dead = log[u].dead
        BY <3>2, <4>1 DEF Entry
      <4>4. entry.retries = log[u].retries
        BY <3>2 DEF Entry
      <4> HIDE DEF entry
      <4> QED
        BY <3>2, <4>1, <4>2, <4>3, <4>4
    <3>4. base \in [Retriers -> RetryRec] /\ base[r] \in RetryRec /\ base[r].fresh = rec.fresh \ {u} /\ ~base[r].unset
      BY <1>b, <1>c, RescheduledType
    <3>5. log' = [log EXCEPT ![u] = entry]
      BY <2>1, <2>3 DEF Claimed
    <3>6. retry' = [base EXCEPT ![r].pc = "replay", ![r].cur = u, ![r].tries = n, ![r].dead = d]
      BY <2>1, <2>3
    <3> HIDE DEF entry, base, n, d
    <3>7. /\ new \in RetryRec /\ new.pc = "replay" /\ new.cur = u /\ ~new.dead /\ new.tries = n
          /\ ~new.unset /\ new.fresh = rec.fresh \ {u}
      BY <2>2, <3>3, <3>4 DEF RetryRec, RetryPcs
    <3>8. retry' = [base EXCEPT ![r] = new]
      BY <3>4, <3>6
    <3>9. UNCHANGED <<dlq, poll, faults>> /\ rec.pc = "claim"
      BY <2>1
    <3> HIDE DEF new
    <3>10. /\ new.pc = "escalate" <=> entry.dead
           /\ new.pc # "escalate" /\ entry.status \in {"processed", "failed"}
           /\ new.pc = "replay" => /\ new.cur = u /\ entry.status = "failed" /\ entry.wait > 0
                                   /\ ~new.dead /\ new.tries = entry.retries + 1
           /\ new.pc \in {"idle", "claim", "replay", "escalate"}
           /\ entry.status = "failed" /\ ~entry.dead => entry.retries < MaxAttempts
      BY <3>2, <3>3, <3>7
    <3>11. rec.pc \in Attempting \cup {"claim"} /\ new.fresh \subseteq rec.fresh \ {u}
      BY <3>7, <3>9
    <3>12. retry' = [Rescheduled(u) EXCEPT ![r] = new] /\ entry \in Entry /\ new \in RetryRec /\ ~new.unset
      BY <3>3, <3>7, <3>8 DEF base
    <3>13. \A q \in Retriers : q # r /\ retry[q].pc \in Attempting => retry[q].cur # u
      BY <3>2
    <3>14. log[u].status = "failed" /\ ~log[u].dead
      BY <3>2
    <3> QED
      BY <2>2, <3>5, <3>9, <3>10, <3>11, <3>12, <3>13, <3>14, SweepWrites
  <2>4. CASE ~Claimable(r, u)
    <3> DEFINE over == [rec EXCEPT !.cur = u]
    <3>1. over \in RetryRec /\ over.fresh = rec.fresh
      BY <1>b, <2>2 DEF RetryRec
    <3>2. retry' = [retry EXCEPT ![r] = Return(r, over, FALSE)]
      BY <2>1, <2>4
    <3> HIDE DEF over
    <3> DEFINE new == Return(r, over, FALSE)
    <3>3. new \in RetryRec /\ new.pc \in {"idle", "claim"} /\ new.fresh \subseteq rec.fresh /\ ~new.unset
      BY <1>e, <3>1
    <3> HIDE DEF new
    <3>4. retry' = [retry EXCEPT ![r] = new]
      BY <3>2 DEF new
    <3>5. UNCHANGED <<log, dlq, poll, faults>> /\ rec.pc = "claim"
      BY <2>1, <2>4
    <3> QED
      BY <3>3, <3>4, <3>5, SweepMoves DEF Attempting
  <2> QED
    BY <2>3, <2>4
<1>3. CASE Replay(r)
  <2>1. UNCHANGED <<log, dlq, poll, faults>> /\ rec.pc = "replay"
    BY <1>3 DEF Replay
  <2>2. PICK k \in {"succeeded", "broken"} : retry' = [retry EXCEPT ![r].pc = k]
    BY <1>3 DEF Replay
  <2> DEFINE new == [rec EXCEPT !.pc = k]
  <2>3. /\ new \in RetryRec /\ new.pc = k /\ ~new.unset /\ new.fresh = rec.fresh
        /\ new.cur = rec.cur /\ new.dead = rec.dead /\ new.tries = rec.tries /\ retry' = [retry EXCEPT ![r] = new]
    BY <1>b, <1>c, <2>2 DEF RetryRec, RetryPcs
  <2> HIDE DEF new
  <2> QED
    BY <2>1, <2>3, SweepMoves DEF Attempting
<1>4. CASE RecordSuccess(r)
  <2>1. rec.pc = "succeeded" /\ UNCHANGED <<dlq, poll, faults>>
    BY <1>4 DEF RecordSuccess
  <2> DEFINE entry == [log[t] EXCEPT !.status = "processed", !.retries = rec.tries, !.sched = FALSE, !.wait = 0]
             base == Rescheduled(t)
             new == Return(r, base[r], TRUE)
  <2>2. entry \in Entry /\ entry.status = "processed" /\ ~entry.dead
    BY <1>d, <2>1, LeaseType DEF Entry, Statuses, Attempting
  <2>3. log' = [log EXCEPT ![t] = entry]
    BY <1>4 DEF RecordSuccess
  <2>4. base \in [Retriers -> RetryRec] /\ base[r] \in RetryRec /\ base[r].fresh = rec.fresh \ {t} /\ ~base[r].dead
    BY <1>b, <1>d, <2>1, RescheduledType DEF Attempting
  <2>5. retry' = [base EXCEPT ![r] = new]
    BY <1>4, <2>4 DEF RecordSuccess
  <2>6. new \in RetryRec /\ new.pc \in {"idle", "claim"} /\ new.fresh \subseteq rec.fresh \ {t} /\ ~new.unset
    BY <1>e, <2>4
  <2>7. /\ rec.pc \in Attempting \cup {"claim"} /\ t \in Txs /\ log[t].status = "failed" /\ ~log[t].dead
        /\ \A q \in Retriers : q # r /\ retry[q].pc \in Attempting => retry[q].cur # t
    BY <1>d, <2>1 DEF Attempting
  <2> HIDE DEF entry, new
  <2>8. /\ new.pc = "escalate" <=> entry.dead
        /\ new.pc # "escalate" /\ new.pc # "replay" /\ entry.status # "failed"
        /\ new.pc \in {"idle", "claim", "replay", "escalate"} /\ entry.status \in {"processed", "failed"}
    BY <2>2, <2>6
  <2> QED
    BY <2>1, <2>2, <2>3, <2>5, <2>6, <2>7, <2>8, SweepWrites
<1>5. CASE RecordFailure(r)
  <2>1. rec.pc = "broken" /\ UNCHANGED <<dlq, poll, faults>>
    BY <1>5 DEF RecordFailure
  <2> DEFINE exhausted == rec.tries >= MaxAttempts
             entry == FailedEntry(log[t], rec, exhausted)
             base == Rescheduled(t)
             new == IF exhausted THEN [base[r] EXCEPT !.pc = "escalate"] ELSE Return(r, base[r], FALSE)
  <2>2. exhausted \in BOOLEAN
    BY <1>d, <2>1, EventLogAssumption DEF Attempting
  <2>3. log' = [log EXCEPT ![t] = entry]
    BY <1>5, <1>b, <1>d, <2>1 DEF RecordFailure, Attempting
  <2>4. /\ base \in [Retriers -> RetryRec] /\ base[r] \in RetryRec /\ base[r].fresh = rec.fresh \ {t}
        /\ base[r].cur = t /\ ~base[r].unset
    BY <1>b, <1>c, <1>d, <2>1, RescheduledType DEF Attempting
  <2>5. retry' = [base EXCEPT ![r] = new]
    BY <1>5, <1>d, <2>1, <2>4 DEF RecordFailure, Attempting
  <2>6. exhausted => rec.tries = MaxAttempts
    BY <1>d, <2>1, EventLogAssumption DEF Attempting
  <2>7. ~exhausted => rec.tries < MaxAttempts
    BY <1>d, <2>1, EventLogAssumption DEF Attempting
  <2> HIDE DEF exhausted
  <2>8. /\ entry \in Entry /\ entry.status = "failed" /\ entry.retries = rec.tries
        /\ entry.dead <=> exhausted
    BY <1>b, <1>d, <2>1, <2>2, FailedEntryType DEF Attempting
  <2> HIDE DEF base
  <2>9. /\ new \in RetryRec /\ new.pc \in {"idle", "claim", "escalate"} /\ new.fresh \subseteq rec.fresh \ {t} /\ ~new.unset
        /\ new.pc = "escalate" <=> exhausted
        /\ new.pc = "escalate" => new.cur = t
    <3>1. CASE exhausted
      BY <1>d, <2>1, <2>4, <3>1 DEF RetryRec, RetryPcs, Attempting
    <3>2. CASE ~exhausted
      BY <1>e, <2>4, <3>2
    <3> QED
      BY <3>1, <3>2
  <2>10. /\ rec.pc \in Attempting \cup {"claim"} /\ t \in Txs /\ log[t].status = "failed" /\ ~log[t].dead
         /\ \A q \in Retriers : q # r /\ retry[q].pc \in Attempting => retry[q].cur # t
    BY <1>d, <2>1 DEF Attempting
  <2> HIDE DEF entry, new
  <2>11. /\ new.pc = "escalate" <=> entry.dead
         /\ new.pc # "replay" /\ entry.status \in {"processed", "failed"}
         /\ new.pc = "escalate" => new.cur = t /\ entry.retries = MaxAttempts
         /\ new.pc \in {"idle", "claim", "replay", "escalate"}
         /\ entry.status = "failed" /\ ~entry.dead => entry.retries < MaxAttempts
    BY <2>6, <2>7, <2>8, <2>9
  <2> QED
    BY <2>1, <2>3, <2>5, <2>8, <2>9, <2>10, <2>11, SweepWrites DEF base
<1>6. CASE Escalate(r)
  <2>1. rec.pc = "escalate" /\ UNCHANGED <<log, poll, faults>> /\ t \in Txs
    BY <1>6 DEF Escalate, Shape, RetryHolds
  <2> DEFINE new == Return(r, rec, FALSE)
  <2>2. new \in RetryRec /\ new.pc \in {"idle", "claim"} /\ new.fresh \subseteq rec.fresh /\ ~new.unset
    BY <1>b, <1>e
  <2>3. retry' = [retry EXCEPT ![r] = new]
    BY <1>6 DEF Escalate
  <2> HIDE DEF new
  <2>4. retry'[r] = new /\ \A q \in Retriers \ {r} : retry'[q] = retry[q]
    BY <1>b, <2>3
  <2>5. dlq[t] = <<>> /\ log[t].dead
    BY <2>1 DEF Orderly, OneRecord
  <2>6. /\ dlq'[t] = Append(dlq[t], "pending") /\ \A u \in Txs \ {t} : dlq'[u] = dlq[u]
    BY <1>6, <2>1 DEF Escalate, Shape
  <2>7. Len(dlq'[t]) = 1
    BY <2>5, <2>6
  <2>8. PendingIsThePollers' /\ OneAttemptAtATime'
    BY <2>1, <2>2, <2>4 DEF Orderly, PendingIsThePollers, OneAttemptAtATime, Attempting
  <2>9. FreshIsFree' /\ LeaseIsHeld'
    BY <2>1, <2>2, <2>4 DEF Orderly, FreshIsFree, LeaseIsHeld, Attempting
  <2>10. \A q \in Retriers : retry'[q].pc = "escalate" =>
           q # r /\ retry'[q] = retry[q] /\ retry[q].cur # t /\ retry[q].cur \in Txs
    BY <2>1, <2>2, <2>4 DEF Orderly, OneRecord, Shape, RetryHolds
  <2>11. OneRecord'
    BY <2>1, <2>5, <2>6, <2>10 DEF Orderly, OneRecord
  <2>12. Escalated'
    <3> SUFFICES ASSUME NEW u \in Txs, log'[u].dead
                 PROVE  /\ log'[u].retries = MaxAttempts
                        /\ faults' = 0 => \/ Len(dlq'[u]) = 1
                                          \/ \E q \in Retriers : retry'[q].pc = "escalate" /\ retry'[q].cur = u
      BY DEF Escalated
    <3>1. CASE u = t
      BY <2>1, <2>7, <3>1 DEF Orderly, Escalated
    <3>2. CASE u # t
      <4>1. \A q \in Retriers : retry[q].pc = "escalate" /\ retry[q].cur = u => retry'[q] = retry[q]
        BY <2>4, <3>2
      <4> QED
        BY <2>1, <2>6, <3>2, <4>1 DEF Orderly, Escalated
    <3> QED
      BY <3>1, <3>2
  <2> QED
    BY <2>8, <2>9, <2>11, <2>12 DEF Orderly
<1>7. CASE RetryThrows(r) \/ RetryCrashes(r)
  <2>1. UNCHANGED <<log, dlq, poll>> /\ faults' = faults + 1
    BY <1>7 DEF RetryThrows, RetryCrashes, Fault
  <2>2. retry' = [retry EXCEPT ![r] = IdleRetry]
    BY <1>7, <1>a DEF RetryThrows, RetryCrashes
  <2>3. faults' # 0 /\ faults' \in Nat
    BY <1>b, <2>1
  <2> QED
    BY <1>f, <2>1, <2>2, <2>3, SweepMoves DEF Attempting
<1> QED
  BY <1>a, <1>c, <1>1, <1>2, <1>3, <1>4, <1>5, <1>6, <1>7
     DEF RetryStep, DlqMarkRetried, AdminRead, ResolveDlq, DlqSaveOutcome, Attempting

\* A step that leaves entries, copies and DLQ records as they are.
LEMMA OrderKept ==
    ASSUME Orderly, UNCHANGED <<log, dlq, retry>>, faults' = faults \/ faults' # 0, PendingIsThePollers'
    PROVE  Orderly'
  BY DEF Orderly, FreshIsFree, LeaseIsHeld, OneRecord, OneAttemptAtATime, Escalated

\* A poller's write: of an entry that is new or pending, which no sweep has.
LEMMA PollerWrites ==
    ASSUME Shape, Orderly, NEW t \in Txs, NEW entry \in Entry, log' = [log EXCEPT ![t] = entry],
           retry' = retry \/ retry' = Rescheduled(t), UNCHANGED <<dlq, faults>>,
           log[t].status \in {"absent", "pending"}, entry.status # "absent", entry.retries = 0, ~entry.dead,
           \A p \in Pollers : poll'[p].pc \in Polling \ {"create"} => log'[TxOf[poll'[p].cur]].status = "pending"
    PROVE  Orderly'
<1>1. \A q \in Retriers :
        /\ retry'[q].pc = retry[q].pc /\ retry'[q].cur = retry[q].cur /\ retry'[q].fresh \subseteq retry[q].fresh
        /\ retry'[q].unset = retry[q].unset /\ retry'[q].tries = retry[q].tries /\ retry'[q].dead = retry[q].dead
  BY RescheduledType DEF Shape, TypeOK
<1>2. log' \in [Txs -> Entry] /\ log'[t] = entry /\ \A u \in Txs \ {t} : log'[u] = log[u]
  BY DEF Shape, TypeOK
<1>3. ~log[t].dead /\ dlq[t] = <<>>
  BY DEF Orderly, PendingIsThePollers, OneRecord
<1>4. \A q \in Retriers : retry[q].pc \in Attempting \cup {"escalate"} =>
        retry[q].cur \in Txs /\ retry[q].cur # t /\ log'[retry[q].cur] = log[retry[q].cur]
  <2>1. \A q \in Retriers : retry[q].pc \in Attempting \cup {"escalate"} => retry[q].cur \in Txs /\ retry[q].cur # t
    BY <1>3 DEF Orderly, LeaseIsHeld, OneRecord, Shape, RetryHolds, Attempting
  <2> QED
    BY <1>2, <2>1
<1>5. \A q \in Retriers : \A u \in retry[q].fresh : u \in Txs /\ u # t /\ log'[u] = log[u]
  <2>1. \A q \in Retriers : retry[q].fresh \subseteq Txs
    BY DEF Shape, TypeOK, RetryRec
  <2> QED
    BY <1>2, <2>1 DEF Orderly, FreshIsFree
<1>6. PendingIsThePollers'
  BY <1>2, EventLogAssumption DEF Orderly, PendingIsThePollers
<1>7. FreshIsFree'
  BY <1>1, <1>5 DEF Orderly, FreshIsFree
<1>8. LeaseIsHeld'
  BY <1>1, <1>4 DEF Orderly, LeaseIsHeld
<1>9. OneRecord'
  BY <1>1, <1>2, <1>3, <1>4 DEF Orderly, OneRecord
<1>10. OneAttemptAtATime'
  BY <1>1 DEF Orderly, OneAttemptAtATime
<1>11. Escalated'
  BY <1>1, <1>2 DEF Orderly, Escalated
<1> QED
  BY <1>6, <1>7, <1>8, <1>9, <1>10, <1>11 DEF Orderly

\* A step of the poller.
LEMMA PollOrderly ==
    ASSUME Shape, Shape', Orderly, OnePoller, Sound, NEW p \in Pollers, p \in scene.staff, scene' = scene,
           PollStep(p) \/ PollFails(p)
    PROVE  Orderly'
<1> DEFINE rec == poll[p]
           e == rec.cur
           t == TxOf[e]
<1>a. poll \in [Pollers -> PollRec] /\ rec \in PollRec /\ log \in [Txs -> Entry] /\ faults \in Nat
  BY DEF Shape, TypeOK
<1>b. \A q \in Pollers : q # p => poll'[q].pc = "idle"
  BY TheOthersAreIdle DEF OnePoller, Shape, OnlyStaffWorks
<1>c. rec.pc \in Polling => t \in Txs /\ log[t] \in Entry /\ e \in Events
  BY PollHand, <1>a
<1>d. rec.pc \in Polling \ {"create"} => log[t].status = "pending" /\ log[t].retries = 0 /\ ~log[t].dead
  BY <1>c DEF Orderly, PendingIsThePollers
<1>e. ASSUME poll'[p].pc \in Polling \ {"create"} => log'[TxOf[poll'[p].cur]].status = "pending"
      PROVE  \A q \in Pollers : poll'[q].pc \in Polling \ {"create"} => log'[TxOf[poll'[q].cur]].status = "pending"
  BY <1>b, <1>e DEF Polling
<1>f. ASSUME poll'[p].pc \in Polling \ {"create"} => log'[TxOf[poll'[p].cur]].status = "pending", log' = log
      PROVE  PendingIsThePollers'
  BY <1>e, <1>f DEF Orderly, PendingIsThePollers
<1>1. CASE PollLatest(p) \/ PollCheckpoint(p) \/ PollCommit(p) \/ PollFails(p)
  <2>1. poll'[p].pc \in {"idle", "checkpoint", "find"}
    BY <1>1, <1>a DEF PollLatest, PollCheckpoint, PollCommit, PollFails, IdlePoll, PollRec
  <2>2. UNCHANGED <<log, dlq, retry>> /\ (faults' = faults \/ faults' # 0)
    BY <1>1, <1>a DEF PollLatest, PollCheckpoint, PollCommit, PollFails, Fault
  <2> QED
    BY <1>f, <2>1, <2>2, OrderKept DEF Polling
<1>2. CASE PollFind(p)
  <2>1. poll'[p].pc \in Polling \ {"create"} => log[TxOf[poll'[p].cur]].status = "pending"
    BY <1>2, <1>a DEF PollFind, Skip, Polling, PollRec
  <2>2. UNCHANGED <<log, dlq, retry, faults>>
    BY <1>2 DEF PollFind
  <2> QED
    BY <1>f, <2>1, <2>2, OrderKept
<1>3. CASE PollCreate(p)
  <2>1. rec.pc = "create" /\ log[t].status = "absent" /\ t \in Txs
    BY <1>3, <1>c DEF PollCreate, Sound, CycleIsSound, CycleOf, Polling
  <2> DEFINE entry == [NoEntry EXCEPT !.status = "pending", !.ev = e]
  <2>2. log' = [log EXCEPT ![t] = entry] /\ poll' = [poll EXCEPT ![p].pc = "handle"] /\ UNCHANGED <<dlq, retry, faults>>
    BY <1>3, <2>1 DEF PollCreate
  <2>3. entry \in Entry /\ entry.status = "pending"
    <3>1. e \in Events
      BY <2>1, <1>c DEF Polling
    <3> QED
      BY <3>1, NewEntryType, Zenon
  <2>4. entry.retries = 0 /\ ~entry.dead
    BY DEF NoEntry
  <2> HIDE DEF entry
  <2>5. poll'[p].cur = e /\ log'[t] = entry
    BY <1>a, <2>1, <2>2 DEF PollRec
  <2> QED
    BY <1>e, <2>1, <2>2, <2>3, <2>4, <2>5, PollerWrites
<1>4. CASE PollHandle(p)
  <2>1. rec.pc = "handle" /\ poll'[p].cur = e /\ UNCHANGED <<log, dlq, retry, faults>>
    BY <1>4, <1>a DEF PollHandle, PollRec
  <2> QED
    BY <1>d, <1>f, <2>1, OrderKept DEF Polling
<1>5. CASE PollMark(p)
  <2>1. rec.pc = "mark" /\ UNCHANGED <<dlq, retry>>
    BY <1>5 DEF PollMark
  <2>2. CASE log' = [log EXCEPT ![t].status = "processed"] /\ Skip(p, e) /\ faults' = faults
    <3> DEFINE entry == [log[t] EXCEPT !.status = "processed"]
    <3>1. log' = [log EXCEPT ![t] = entry]
      BY <2>2
    <3>2. entry \in Entry /\ entry.status = "processed" /\ entry.retries = 0 /\ ~entry.dead
      BY <1>c, <1>d, <2>1 DEF Entry, Statuses, Polling
    <3>3. poll'[p].pc = "find"
      BY <1>a, <2>2 DEF Skip, PollRec
    <3> HIDE DEF entry
    <3>4. t \in Txs /\ log[t].status \in {"absent", "pending"}
      BY <1>c, <1>d, <2>1 DEF Polling
    <3> QED
      BY <1>e, <2>1, <2>2, <3>1, <3>2, <3>3, <3>4, PollerWrites DEF Polling
  <2>3. CASE log' = log /\ poll' = [poll EXCEPT ![p].pc = "markFailed"] /\ Fault
    <3>1. poll'[p].cur = e /\ faults' # 0
      BY <1>a, <2>3 DEF PollRec, Fault
    <3> QED
      BY <1>d, <1>f, <2>1, <2>3, <3>1, OrderKept DEF Polling
  <2> QED
    BY <1>5, <2>2, <2>3 DEF PollMark
<1>6. CASE PollMarkFailed(p)
  <2>1. rec.pc = "markFailed" /\ UNCHANGED <<dlq, faults>> /\ retry' = Rescheduled(t)
    BY <1>6 DEF PollMarkFailed
  <2> DEFINE entry == [log[t] EXCEPT !.status = "failed", !.sched = TRUE, !.wait = RetryDelay(1)]
  <2>2. log' = [log EXCEPT ![t] = entry]
    BY <1>6 DEF PollMarkFailed
  <2>3. RetryDelay(1) \in Waits
    BY DelayType
  <2>4. entry \in Entry /\ entry.status = "failed" /\ entry.retries = 0 /\ ~entry.dead
    BY <1>c, <1>d, <2>1, <2>3 DEF Entry, Statuses, Polling
  <2>5. poll'[p].pc = "find"
    BY <1>6, <1>a DEF PollMarkFailed, Skip, PollRec
  <2> HIDE DEF entry
  <2>6. t \in Txs /\ log[t].status \in {"absent", "pending"}
    BY <1>c, <1>d, <2>1 DEF Polling
  <2> QED
    BY <1>e, <2>1, <2>2, <2>4, <2>5, <2>6, PollerWrites DEF Polling
<1> QED
  BY <1>1, <1>2, <1>3, <1>4, <1>5, <1>6 DEF PollStep

\* Time passes, but no lease runs out under its holder.
LEMMA RestOrderly ==
    ASSUME Shape, Orderly, scene' = scene, Tick \/ LedgerCloses \/ GetOrCreateIndexerStatus
    PROVE  Orderly'
<1>1. /\ UNCHANGED <<poll, retry, dlq, faults>> /\ log' \in [Txs -> Entry]
      /\ \A t \in Txs : /\ log'[t].status = log[t].status /\ log'[t].dead = log[t].dead
                        /\ log'[t].retries = log[t].retries
  BY RestShape
<1>2. \A r \in Retriers : retry[r].pc \in Attempting \cup {"escalate"} => retry[r].cur \in Txs
  BY DEF Shape, RetryHolds, Attempting
<1>3. ASSUME NEW r \in Retriers, retry[r].pc \in Attempting PROVE log'[retry[r].cur].wait > 0
  <2> DEFINE t == retry[r].cur
  <2>1. t \in Txs /\ log[t] \in Entry /\ log[t].wait > 0 /\ log[t].wait \in Nat
    BY <1>2, <1>3, EventLogAssumption DEF Orderly, LeaseIsHeld, Shape, TypeOK, Entry, Waits
  <2>2. CASE Tick
    <3>1. log[t].wait # 1 /\ log'[t] = [log[t] EXCEPT !.wait = @ - 1]
      BY <1>3, <2>1, <2>2 DEF Tick, Waiting
    <3> QED
      BY <2>1, <3>1 DEF Entry
  <2>3. CASE LedgerCloses \/ GetOrCreateIndexerStatus
    BY <2>1, <2>3 DEF LedgerCloses, GetOrCreateIndexerStatus
  <2> QED
    BY <2>2, <2>3
<1>4. \A r \in Retriers : retry[r].fresh \subseteq Txs
  BY DEF Shape, TypeOK, RetryRec
<1>5. PendingIsThePollers'
  <2>1. \A p \in Pollers : poll[p].pc \in Polling \ {"create"} => TxOf[poll[p].cur] \in Txs
    BY PollHand
  <2> QED
    BY <1>1, <2>1 DEF Orderly, PendingIsThePollers
<1>6. FreshIsFree' /\ OneAttemptAtATime'
  BY <1>1, <1>4 DEF Orderly, FreshIsFree, OneAttemptAtATime
<1>7. LeaseIsHeld'
  BY <1>1, <1>2, <1>3 DEF Orderly, LeaseIsHeld
<1>8. OneRecord' /\ Escalated'
  BY <1>1, <1>2 DEF Orderly, OneRecord, Escalated
<1> QED
  BY <1>5, <1>6, <1>7, <1>8 DEF Orderly

LEMMA UndisturbedInit == Init => Undisturbed
  BY EventLogAssumption DEF Init, Undisturbed, Orderly, PendingIsThePollers, FreshIsFree, LeaseIsHeld, OneRecord,
     OneAttemptAtATime, Escalated, NoEntry, IdlePoll, IdleRetry, Polling, Attempting

LEMMA UndisturbedStep == OrderInv /\ [Next]_vars => Undisturbed'
<1> SUFFICES ASSUME OrderInv, [Next]_vars PROVE Undisturbed'
  OBVIOUS
<1>0. Shape /\ Shape'
  BY ShapeStep DEF OrderInv, PipelineInv
<1>1. CASE Next
  <2>1. scene' = scene
    BY <1>1, NextCases
  <2> SUFFICES ASSUME OnePoller, NoOperator PROVE Orderly'
    BY <2>1 DEF Undisturbed, OnePoller, NoOperator
  <2>2. Sound /\ Orderly
    BY DEF OrderInv, PipelineInv, Progress, Undisturbed
  <2> QED
    BY <1>0, <1>1, <2>1, <2>2, NextCases, PollOrderly, SweepOrderly, RestOrderly
<1>2. CASE UNCHANGED vars
  BY <1>2 DEF vars, OrderInv, Undisturbed, OnePoller, NoOperator, Orderly, PendingIsThePollers, FreshIsFree,
     LeaseIsHeld, OneRecord, OneAttemptAtATime, Escalated
<1> QED
  BY <1>1, <1>2

\* While no operator interferes, the conditional claim of eventLogRetryService
\* keeps sweeps apart however stale their batches, and recordFailure escalates
\* an entry when its attempts are used up, once: for any number of sweeping
\* processes, batches, attempts and faults.
THEOREM SweepsAreOrderly == Spec => []RetriesAreOrderly
<1>1. Init => OrderInv
  BY ShapeInit, ProgressInit, UndisturbedInit DEF OrderInv, PipelineInv
<1>2. OrderInv /\ [Next]_vars => OrderInv'
  BY ShapeStep, ProgressStep, UndisturbedStep DEF OrderInv, PipelineInv
<1>3. OrderInv => RetriesAreOrderly
  BY DEF OrderInv, PipelineInv, Shape, Undisturbed, Orderly, OneAttemptAtATime, Escalated,
     RetriesAreOrderly, SweepsDoNotOverlap, EscalatedOnce
<1> QED
  BY <1>1, <1>2, <1>3, PTL DEF Spec
=============================================================================
