------------------------- MODULE Settlement_proofs -------------------------
(***************************************************************************)
(* For any sets of deliveries, escrows, requests and server processes:     *)
(*   - the documents keep their types, and the Redis lock excludes;        *)
(*   - in every behaviour, the escrow records stay sound, a scan of the    *)
(*     monitor writes over no later write, and a delivery moves along its  *)
(*     lifecycle (RecordInv);                                              *)
(*   - when nothing failed and all is answered, the milestones of a        *)
(*     delivery without an escrow tell how it came to its status           *)
(*     (StoryInv);                                                         *)
(*   - when the calls that settle one escrow take one lock key and no lock *)
(*     expires, or the chain alone settles it, an escrow moves along its   *)
(*     lifecycle (SerialInv), and releases are sound (ReleaseInv).         *)
(***************************************************************************)
EXTENDS Settlement, SequenceTheorems, FiniteSetTheorems, TLAPS

-----------------------------------------------------------------------------
(* Requests and documents *)

\* A request of an operation has that operation's fields.
LEMMA RequestFields ==
    ASSUME NEW r \in Request
    PROVE  /\ r.op = "fund" => r.d \in Deliveries /\ r.c \in Contracts /\ r.h \in Hashes
           /\ r.op = "release" => r.c \in Contracts /\ r.h \in Hashes /\ r.form \in IdForms
           /\ r.op = "resolve" => r.c \in Contracts /\ r.choice \in Resolutions
           /\ r.op = "retry" => r.c \in Contracts /\ r.choice \in RetryActions
           /\ r.op = "chain" => /\ r.c \in Contracts /\ r.h \in Hashes
                                /\ r.to \in {"released", "refunded"}
           /\ r.op = "create" => r.d \in Deliveries /\ r.escrowed \in BOOLEAN
           /\ r.op = "status" => r.d \in Deliveries /\ r.to \in DeliveryStatuses
           /\ r.op \in {"assign", "proof"} => r.d \in Deliveries /\ r.drv \in Drivers
           /\ r.op \in {"archive", "restore", "import"} => r.d \in Deliveries
           /\ r.op = "update" => r.d \in Deliveries /\ r.to \in DeliveryStatuses \ {"absent"}
  BY DEF Request

LEMMA LockKeyType ==
    ASSUME NEW r \in Request, r.op \in Locking
    PROVE  LockKey(r) \in LockKeys
  BY RequestFields DEF LockKey, LockKeys, Locking, IdForms

LEMMA NoDocs == NoDelivery \in DeliveryDoc /\ NoEscrow \in EscrowDoc
  BY DEF NoDelivery, NoEscrow, DeliveryDoc, EscrowDoc, DeliveryStatuses, EscrowStatuses

CallTypes == call \in [Calls -> CallRec] /\ lock \in [LockKeys -> Calls \cup {Free}]

\* Goto and Finish keep requests and locks well typed.
LEMMA GotoTypes ==
    ASSUME CallTypes, NEW k \in Calls, NEW p \in Pcs, Goto(k, p)
    PROVE  CallTypes'
  BY DEF CallTypes, Goto, CallRec

LEMMA GotoSeeingDTypes ==
    ASSUME CallTypes, NEW k \in Calls, NEW p \in Pcs, NEW doc \in DeliveryDoc,
           GotoSeeingD(k, p, doc)
    PROVE  CallTypes'
  BY DEF CallTypes, GotoSeeingD, CallRec

LEMMA GotoSeeingETypes ==
    ASSUME CallTypes, NEW k \in Calls, NEW p \in Pcs, NEW doc \in EscrowDoc,
           GotoSeeingE(k, p, doc)
    PROVE  CallTypes'
  BY DEF CallTypes, GotoSeeingE, CallRec

LEMMA FinishTypes ==
    ASSUME CallTypes, NEW k \in Calls, NEW p \in Pcs, Finish(k, p)
    PROVE  CallTypes'
  BY NoDocs DEF CallTypes, Finish, ReleaseLock, CallRec

\* Writing a status or another path of a delivery keeps it a delivery.
LEMMA SetStatusTypes ==
    ASSUME delivery \in [Deliveries -> DeliveryDoc], NEW d, NEW s \in DeliveryStatuses,
           SetStatus(d, s)
    PROVE  delivery' \in [Deliveries -> DeliveryDoc]
  BY DEF SetStatus, DeliveryDoc

\* A transaction appended to an escrow's list.
LEMMA AppendTxTypes ==
    ASSUME NEW txs \in Seq(Tx), NEW tx \in Tx
    PROVE  Append(txs, tx) \in Seq(Tx)
  BY AppendProperties

\* An escrow settled with a transaction.
LEMMA SettledTypes ==
    ASSUME escrow \in [Contracts -> EscrowDoc], NEW c \in Contracts,
           NEW s \in EscrowStatuses, NEW tx \in Tx
    PROVE  [escrow EXCEPT ![c].status = s, ![c].txs = Append(@, tx)]
               \in [Contracts -> EscrowDoc]
<1> DEFINE e == escrow[c]
           t == Append(e.txs, tx)
<1>1. e \in EscrowDoc /\ t \in Seq(Tx)
  BY AppendTxTypes DEF EscrowDoc
<1> HIDE DEF t
<1>2. [e EXCEPT !.status = s, !.txs = t] \in EscrowDoc
  BY <1>1 DEF EscrowDoc
<1>3. [escrow EXCEPT ![c].status = s, ![c].txs = Append(@, tx)]
        = [escrow EXCEPT ![c] = [e EXCEPT !.status = s, !.txs = t]]
  BY <1>1 DEF EscrowDoc, t
<1> QED
  BY <1>2, <1>3

LEMMA EmitTypes ==
    ASSUME event \in [Deliveries -> Seq(Milestone)], faults \in Nat,
           NEW d \in Deliveries, NEW a \in DeliveryStatuses, NEW b \in DeliveryStatuses,
           EmitMilestone(d, a, b)
    PROVE  event' \in [Deliveries -> Seq(Milestone)] /\ faults' \in Nat
<1>1. [from |-> a, to |-> b] \in Milestone
  BY DEF Milestone
<1>2. Append(event[d], [from |-> a, to |-> b]) \in Seq(Milestone)
  BY <1>1, AppendProperties
<1>3. event' = [event EXCEPT ![d] = Append(@, [from |-> a, to |-> b])] \/ event' = event
  BY DEF EmitMilestone
<1>4. faults' \in Nat
  BY DEF EmitMilestone, Fault
<1> QED
  BY <1>2, <1>3, <1>4

LEMMA RecordLapseTypes ==
    ASSUME event \in [Deliveries -> Seq(Milestone)], faults \in Nat,
           audit \subseteq Calls \cup Deliveries,
           NEW d \in Deliveries, RecordLapse(d)
    PROVE  /\ event' \in [Deliveries -> Seq(Milestone)] /\ faults' \in Nat
           /\ audit' \subseteq Calls \cup Deliveries
<1> DEFINE m == [from |-> "pending", to |-> "cancelled"]
<1>1. m \in Milestone
  BY DEF Milestone, DeliveryStatuses
<1>2. Append(event[d], m) \in Seq(Milestone)
  BY <1>1, AppendProperties
<1> HIDE DEF m
<1>3. [event EXCEPT ![d] = Append(@, m)] \in [Deliveries -> Seq(Milestone)]
  BY <1>2
<1>4. event' = [event EXCEPT ![d] = Append(@, m)] \/ event' = event
  BY DEF RecordLapse, m
<1>5. faults' \in Nat
  BY DEF RecordLapse, Fault
<1>6. audit' = audit \/ audit' = audit \cup {d}
  BY DEF RecordLapse
<1> QED
  BY <1>3, <1>4, <1>5, <1>6

LEMMA CancelLapsedTypes ==
    ASSUME delivery \in [Deliveries -> DeliveryDoc], NEW d, CancelLapsed(d)
    PROVE  delivery' \in [Deliveries -> DeliveryDoc]
  BY DEF CancelLapsed, DeliveryDoc, DeliveryStatuses

\* What is known of request k.
LEMMA CallFacts ==
    ASSUME TypeOK, NEW k \in Calls
    PROVE  /\ CallTypes /\ call[k].req \in Request
           /\ call[k].seenD \in DeliveryDoc /\ call[k].seenE \in EscrowDoc
           /\ call[k].seenD.status \in DeliveryStatuses
<1>1. call[k] \in CallRec
  BY DEF TypeOK
<1> QED
  BY <1>1 DEF TypeOK, CallTypes, CallRec, DeliveryDoc

-----------------------------------------------------------------------------
(* Type correctness *)

LEMMA TypeInit == Init => TypeOK
<1> SUFFICES ASSUME Init PROVE TypeOK
  OBVIOUS
<1>1. PICK p \in Profiles : /\ call \in [Calls -> {IdleCall(r) : r \in p.offered}]
                            /\ delivery = p.delivery /\ escrow = p.escrow /\ event = p.event
  BY DEF Init
<1>2. p.offered \subseteq Request
  BY ProfilesAssumption
<1>3. \A r \in Request : IdleCall(r) \in CallRec
  BY NoDocs DEF IdleCall, CallRec, Pcs
<1>4. call \in [Calls -> CallRec]
  BY <1>1, <1>2, <1>3
<1>5. /\ delivery \in [Deliveries -> DeliveryDoc] /\ escrow \in [Contracts -> EscrowDoc]
      /\ event \in [Deliveries -> Seq(Milestone)]
  BY <1>1, ProfilesAssumption
<1>6. mon \in [Monitors -> MonRec]
  BY DEF Init, IdleMon, MonRec, MonPcs
<1> QED
  BY <1>4, <1>5, <1>6 DEF Init, TypeOK

\* recordEscrowFunded
LEMMA FundTypes ==
    ASSUME TypeOK, NEW k \in Calls, RecordEscrowFunded(k)
    PROVE  TypeOK'
<1> DEFINE r == call[k].req
<1>0. /\ r.op = "fund" /\ r.d \in Deliveries /\ r.c \in Contracts /\ r.h \in Hashes
      /\ CallTypes /\ call[k].seenD \in DeliveryDoc /\ call[k].seenE \in EscrowDoc
      /\ delivery[r.d] \in DeliveryDoc /\ escrow[r.c] \in EscrowDoc
  <2>1. r.op = "fund"
    BY DEF RecordEscrowFunded, FundReadDelivery, FundCancelLapsed, FundRecordLapse,
           FundReadContract, FundCheck, FundWriteEscrow, FundWriteDelivery, FundMilestone, At
  <2> QED
    BY <2>1, CallFacts, RequestFields DEF TypeOK
<1> HIDE DEF r
<1>p. {"read", "read2", "lapse", "lapsed", "write", "dwrite", "milestone",
       "done", "rejected", "failed"} \subseteq Pcs
  BY DEF Pcs
<1>1. CASE FundReadDelivery(k)
  <2>1. CallTypes'
    BY <1>0, <1>1, <1>p, GotoTypes, GotoSeeingDTypes, FinishTypes DEF FundReadDelivery, r
  <2> QED
    BY <1>1, <2>1 DEF FundReadDelivery, TypeOK, CallTypes
<1>2. CASE FundCancelLapsed(k)
  <2>1. CallTypes'
    BY <1>0, <1>2, <1>p, GotoTypes, FinishTypes DEF FundCancelLapsed
  <2>2. delivery' \in [Deliveries -> DeliveryDoc]
    BY <1>2, CancelLapsedTypes DEF FundCancelLapsed, TypeOK
  <2> QED
    BY <1>2, <2>1, <2>2 DEF FundCancelLapsed, TypeOK, CallTypes
<1>3. CASE FundRecordLapse(k)
  <2>1. CallTypes'
    BY <1>0, <1>3, <1>p, FinishTypes DEF FundRecordLapse
  <2>2. /\ event' \in [Deliveries -> Seq(Milestone)] /\ faults' \in Nat
        /\ audit' \subseteq Calls \cup Deliveries
    BY <1>0, <1>3, RecordLapseTypes DEF FundRecordLapse, TypeOK, r
  <2> QED
    BY <1>3, <2>1, <2>2 DEF FundRecordLapse, TypeOK, CallTypes
<1>4. CASE FundReadContract(k)
  <2>1. CallTypes'
    BY <1>0, <1>4, <1>p, GotoSeeingETypes DEF FundReadContract, r
  <2> QED
    BY <1>4, <2>1 DEF FundReadContract, TypeOK, CallTypes
<1>5. CASE FundCheck(k)
  <2>1. CallTypes'
    BY <1>0, <1>5, <1>p, GotoTypes, FinishTypes DEF FundCheck
  <2> QED
    BY <1>5, <2>1 DEF FundCheck, TypeOK, CallTypes
<1>6. CASE FundWriteEscrow(k)
  <2>1. CallTypes'
    BY <1>0, <1>6, <1>p, GotoTypes, FinishTypes DEF FundWriteEscrow
  <2>2. FundedEscrow(r, call[k].seenE) \in EscrowDoc
    <3>1. [hash |-> r.h, kind |-> "fund"] \in Tx
      BY <1>0 DEF Tx, TxKinds
    <3>2. Append(escrow[r.c].txs, [hash |-> r.h, kind |-> "fund"]) \in Seq(Tx)
      BY <1>0, <3>1, AppendTxTypes DEF EscrowDoc
    <3>3. now \in Nat /\ TTL \in Nat /\ call[k].seenE.lockedAt \in Nat
      BY <1>0, StoreAssumption DEF TypeOK, EscrowDoc
    <3> QED
      BY <1>0, <3>2, <3>3 DEF FundedEscrow, ComputeExpiresAt, EscrowDoc, EscrowStatuses
  <2>3. escrow' \in [Contracts -> EscrowDoc]
    BY <1>6, <2>2 DEF FundWriteEscrow, TypeOK, r
  <2> QED
    BY <1>6, <2>1, <2>3 DEF FundWriteEscrow, TypeOK, CallTypes
<1>7. CASE FundWriteDelivery(k)
  <2>1. CallTypes'
    BY <1>0, <1>7, <1>p, GotoTypes DEF FundWriteDelivery
  <2>2. delivery' \in [Deliveries -> DeliveryDoc]
    BY <1>7, SetStatusTypes DEF FundWriteDelivery, TypeOK, DeliveryStatuses
  <2> QED
    BY <1>7, <2>1, <2>2 DEF FundWriteDelivery, TypeOK, CallTypes
<1>8. CASE FundMilestone(k)
  <2>1. CallTypes'
    BY <1>0, <1>8, <1>p, FinishTypes DEF FundMilestone
  <2>2. call[k].seenD.status \in DeliveryStatuses /\ "funded" \in DeliveryStatuses
    BY <1>0 DEF DeliveryDoc, DeliveryStatuses
  <2>3. event' \in [Deliveries -> Seq(Milestone)] /\ faults' \in Nat
    BY <1>0, <1>8, <2>2, EmitTypes DEF FundMilestone, TypeOK, r
  <2> QED
    BY <1>8, <2>1, <2>3 DEF FundMilestone, TypeOK, CallTypes
<1> QED
  BY <1>1, <1>2, <1>3, <1>4, <1>5, <1>6, <1>7, <1>8 DEF RecordEscrowFunded

\* withLock
LEMMA LockTypes ==
    ASSUME TypeOK, NEW k \in Calls, AcquireLock(k) \/ AcquireFails(k)
    PROVE  TypeOK'
<1>0. CallTypes /\ {"read", "failed"} \subseteq Pcs
  BY CallFacts DEF Pcs
<1>1. CASE AcquireLock(k)
  <2>1. CallTypes'
    BY <1>0, <1>1 DEF AcquireLock, CallTypes, CallRec
  <2> QED
    BY <1>1, <2>1 DEF AcquireLock, TypeOK, CallTypes
<1>2. CASE AcquireFails(k)
  <2>1. CallTypes'
    BY <1>0, <1>2, FinishTypes DEF AcquireFails
  <2> QED
    BY <1>2, <2>1 DEF AcquireFails, TypeOK, CallTypes
<1> QED
  BY <1>1, <1>2

LEMMA ReleaseTypes ==
    ASSUME TypeOK, NEW k \in Calls, ReleaseEscrow(k)
    PROVE  TypeOK'
<1> DEFINE r == call[k].req
<1>0. CallTypes /\ r.c \in Contracts /\ r.h \in Hashes /\ escrow[r.c] \in EscrowDoc
  <2>1. r.op = "release"
    BY DEF ReleaseEscrow, ReleaseRead, ReleaseAssertProof, ReleaseSave,
           ReleaseReadDelivery, ReleaseWriteDelivery, At
  <2> QED
    BY <2>1, CallFacts, RequestFields DEF TypeOK
<1> HIDE DEF r
<1>p. {"proof", "write", "dread", "dwrite", "done", "rejected", "failed"} \subseteq Pcs
  BY DEF Pcs
<1>1. CASE ReleaseRead(k)
  <2>1. CallTypes'
    BY <1>0, <1>1, <1>p, GotoTypes, FinishTypes DEF ReleaseRead
  <2> QED
    BY <1>1, <2>1 DEF ReleaseRead, TypeOK, CallTypes
<1>2. CASE ReleaseAssertProof(k)
  <2>1. CallTypes'
    BY <1>0, <1>2, <1>p, GotoTypes, FinishTypes DEF ReleaseAssertProof
  <2> QED
    BY <1>2, <2>1 DEF ReleaseAssertProof, TypeOK, CallTypes
<1>3. CASE ReleaseSave(k)
  <2>1. CallTypes'
    BY <1>0, <1>3, <1>p, GotoTypes, FinishTypes DEF ReleaseSave
  <2> DEFINE tx == [hash |-> r.h, kind |-> "release"]
  <2>2. tx \in Tx
    BY <1>0 DEF Tx, TxKinds
  <2> HIDE DEF tx
  <2>4. \/ escrow' = escrow
        \/ escrow' = [escrow EXCEPT ![r.c].status = "released", ![r.c].txs = Append(@, tx)]
    BY <1>3 DEF ReleaseSave, r, tx
  <2>5. escrow \in [Contracts -> EscrowDoc] /\ "released" \in EscrowStatuses
    BY <1>0 DEF TypeOK, EscrowStatuses
  <2>6. [escrow EXCEPT ![r.c].status = "released", ![r.c].txs = Append(@, tx)]
            \in [Contracts -> EscrowDoc]
    BY <1>0, <2>2, <2>5, SettledTypes, Zenon
  <2>7. escrow' \in [Contracts -> EscrowDoc]
    BY <2>4, <2>5, <2>6, Zenon
  <2> QED
    BY <1>3, <2>1, <2>7 DEF ReleaseSave, TypeOK, CallTypes
<1>4. CASE ReleaseReadDelivery(k)
  <2>1. CallTypes'
    BY <1>0, <1>4, <1>p, GotoTypes, FinishTypes DEF ReleaseReadDelivery
  <2> QED
    BY <1>4, <2>1 DEF ReleaseReadDelivery, TypeOK, CallTypes
<1>5. CASE ReleaseWriteDelivery(k)
  <2>1. CallTypes'
    BY <1>0, <1>5, <1>p, FinishTypes DEF ReleaseWriteDelivery
  <2>2. delivery' \in [Deliveries -> DeliveryDoc]
    BY <1>5, SetStatusTypes DEF ReleaseWriteDelivery, TypeOK, DeliveryStatuses
  <2> QED
    BY <1>5, <2>1, <2>2 DEF ReleaseWriteDelivery, TypeOK, CallTypes
<1> QED
  BY <1>1, <1>2, <1>3, <1>4, <1>5 DEF ReleaseEscrow

\* resolveEscrow and retryExpiredEscrow
LEMMA AdminTypes ==
    ASSUME TypeOK, NEW k \in Calls, ResolveEscrow(k) \/ RetryExpiredEscrow(k)
    PROVE  TypeOK'
<1> DEFINE r == call[k].req
<1>0. CallTypes /\ r \in Request /\ r.c \in Contracts /\ escrow[r.c] \in EscrowDoc
  <2>1. r.op \in {"resolve", "retry"}
    BY DEF ResolveEscrow, RetryExpiredEscrow, AdminRead, ResolveSave, RetrySave,
           ApplyRead, ApplyWrite, AdminAudit, At
  <2> QED
    BY <2>1, CallFacts, RequestFields DEF TypeOK
<1> HIDE DEF r
<1>p. {"write", "dread", "dwrite", "audit", "done", "rejected"} \subseteq Pcs
  BY DEF Pcs
<1>n. now \in Nat /\ now + TTL \in Nat
  BY StoreAssumption DEF TypeOK
<1>1. ASSUME NEW op, AdminRead(k, op) PROVE TypeOK'
  <2>1. CallTypes'
    BY <1>0, <1>1, <1>p, GotoSeeingETypes, FinishTypes DEF AdminRead, r
  <2> QED
    BY <1>1, <2>1 DEF AdminRead, TypeOK, CallTypes
<1>2. CASE ResolveSave(k)
  <2>1. CallTypes'
    BY <1>0, <1>2, <1>p, GotoTypes DEF ResolveSave
  <2>2. ResolvedEscrow(escrow[r.c], r.choice, call[k].seenE) \in EscrowDoc
    <3>1. r.choice \in {"release_to_driver", "refund_to_payer", "keep_locked"}
      BY <1>0, <1>2, RequestFields DEF ResolveSave, At, Resolutions, r
    <3> QED
      BY <1>0, <1>n, <3>1 DEF ResolvedEscrow, ComputeExpiresAt, EscrowDoc, EscrowStatuses
  <2>3. escrow' \in [Contracts -> EscrowDoc]
    BY <1>2, <2>2 DEF ResolveSave, TypeOK, r
  <2> QED
    BY <1>2, <2>1, <2>3 DEF ResolveSave, TypeOK, CallTypes
<1>3. CASE RetrySave(k)
  <2>1. CallTypes'
    BY <1>0, <1>3, <1>p, GotoTypes DEF RetrySave
  <2>2. RetriedEscrow(escrow[r.c], r.choice) \in EscrowDoc
    BY <1>0, <1>n DEF RetriedEscrow, ComputeExpiresAt, EscrowDoc, EscrowStatuses
  <2>3. escrow' \in [Contracts -> EscrowDoc]
    BY <1>3, <2>2 DEF RetrySave, TypeOK, r
  <2> QED
    BY <1>3, <2>1, <2>3 DEF RetrySave, TypeOK, CallTypes
<1>4. ASSUME NEW op, ApplyRead(k, op) PROVE TypeOK'
  <2>1. CallTypes'
    BY <1>0, <1>4, <1>p, GotoTypes DEF ApplyRead
  <2> QED
    BY <1>4, <2>1 DEF ApplyRead, TypeOK, CallTypes
<1>5. ASSUME NEW op, ApplyWrite(k, op) PROVE TypeOK'
  <2>1. CallTypes'
    BY <1>0, <1>5, <1>p, GotoTypes DEF ApplyWrite
  <2>2. DeliveryStatusFor(r) \in DeliveryStatuses
    BY DEF DeliveryStatusFor, DeliveryStatuses
  <2>3. delivery' \in [Deliveries -> DeliveryDoc]
    BY <1>5, <2>2, SetStatusTypes DEF ApplyWrite, TypeOK, r
  <2> QED
    BY <1>5, <2>1, <2>3 DEF ApplyWrite, TypeOK, CallTypes
<1>6. ASSUME NEW op, AdminAudit(k, op) PROVE TypeOK'
  <2>1. CallTypes'
    BY <1>0, <1>6, <1>p, FinishTypes DEF AdminAudit
  <2>2. audit' \subseteq Calls \cup Deliveries /\ faults' \in Nat
    BY <1>6 DEF AdminAudit, WriteAuditLog, Fault, TypeOK
  <2> QED
    BY <1>6, <2>1, <2>2 DEF AdminAudit, TypeOK, CallTypes
<1> QED
  BY <1>1, <1>2, <1>3, <1>4, <1>5, <1>6 DEF ResolveEscrow, RetryExpiredEscrow

\* The indexer's settlement events
LEMMA ChainTypes ==
    ASSUME TypeOK, NEW k \in Calls, HandleSettlementEvent(k)
    PROVE  TypeOK'
<1> DEFINE r == call[k].req
<1>0. /\ CallTypes /\ r.c \in Contracts /\ r.h \in Hashes /\ escrow[r.c] \in EscrowDoc
      /\ r.to \in EscrowStatuses
  <2>1. r.op = "chain"
    BY DEF HandleSettlementEvent, ChainFind, ChainSettle, At
  <2> QED
    BY <2>1, CallFacts, RequestFields DEF TypeOK, EscrowStatuses
<1> HIDE DEF r
<1>p. {"write", "done", "failed"} \subseteq Pcs
  BY DEF Pcs
<1>1. CASE ChainFind(k)
  <2>1. CallTypes'
    BY <1>0, <1>1, <1>p, GotoTypes, FinishTypes DEF ChainFind
  <2> QED
    BY <1>1, <2>1 DEF ChainFind, TypeOK, CallTypes
<1>2. CASE ChainSettle(k)
  <2>1. CallTypes'
    BY <1>0, <1>2, <1>p, FinishTypes DEF ChainSettle
  <2> DEFINE tx == [hash |-> r.h, kind |-> IF r.to = "released" THEN "release" ELSE "refund"]
  <2>2. tx \in Tx
    BY <1>0 DEF Tx, TxKinds
  <2> HIDE DEF tx
  <2>4. \/ escrow' = escrow
        \/ escrow' = [escrow EXCEPT ![r.c].status = r.to, ![r.c].txs = Append(@, tx)]
    BY <1>2 DEF ChainSettle, r, tx
  <2>5. escrow \in [Contracts -> EscrowDoc] /\ r.to \in EscrowStatuses
    BY <1>0 DEF TypeOK, EscrowStatuses
  <2>6. [escrow EXCEPT ![r.c].status = r.to, ![r.c].txs = Append(@, tx)]
            \in [Contracts -> EscrowDoc]
    BY <1>0, <2>2, <2>5, SettledTypes, Zenon
  <2>7. escrow' \in [Contracts -> EscrowDoc]
    BY <2>4, <2>5, <2>6, Zenon
  <2> QED
    BY <1>2, <2>1, <2>7 DEF ChainSettle, TypeOK, CallTypes
<1> QED
  BY <1>1, <1>2 DEF HandleSettlementEvent

\* create, updateStatus, assignDriver and their milestone
LEMMA DeliveryTypes ==
    ASSUME TypeOK, NEW k \in Calls,
           \/ CreateDelivery(k) \/ UpdateStatus(k) \/ AssignDriver(k)
           \/ \E op \in {"create", "status", "assign"} : DeliveryMilestone(k, op)
    PROVE  TypeOK'
<1> DEFINE r == call[k].req
<1>0. CallTypes /\ r \in Request /\ r.d \in Deliveries /\ delivery[r.d] \in DeliveryDoc
  <2>1. r.op \in {"create", "status", "assign"}
    BY DEF CreateDelivery, CreateCheck, CreateWrite, UpdateStatus, StatusCheck,
           StatusAssertProof, StatusWrite, AssignDriver, AssignReadDelivery,
           AssignReadEscrow, AssignSave, DeliveryMilestone, At
  <2> QED
    BY <2>1, CallFacts, RequestFields DEF TypeOK
<1> HIDE DEF r
<1>p. {"read", "proof", "write", "milestone", "done", "rejected", "failed"} \subseteq Pcs
  BY DEF Pcs
<1>1. CASE CreateCheck(k)
  <2>1. CallTypes'
    BY <1>0, <1>1, <1>p, GotoTypes, FinishTypes DEF CreateCheck
  <2> QED
    BY <1>1, <2>1 DEF CreateCheck, TypeOK, CallTypes
<1>2. CASE CreateWrite(k)
  <2>1. CallTypes'
    BY <1>0, <1>2, <1>p, GotoTypes, FinishTypes DEF CreateWrite
  <2>2. r.escrowed \in BOOLEAN /\ now + FundWindow \in Nat
    BY <1>0, <1>2, RequestFields, StoreAssumption DEF CreateWrite, At, TypeOK, r
  <2>3. [NoDelivery EXCEPT !.status = "pending", !.escrowed = r.escrowed,
                           !.fundBy = IF r.escrowed THEN now + FundWindow ELSE 0] \in DeliveryDoc
    BY <2>2, NoDocs DEF DeliveryDoc, DeliveryStatuses
  <2>4. delivery' \in [Deliveries -> DeliveryDoc]
    BY <1>2, <2>3 DEF CreateWrite, TypeOK, r
  <2> QED
    BY <1>2, <2>1, <2>4 DEF CreateWrite, TypeOK, CallTypes
<1>3. CASE StatusCheck(k)
  <2>1. CallTypes'
    BY <1>0, <1>3, <1>p, GotoSeeingDTypes, FinishTypes DEF StatusCheck, r
  <2> QED
    BY <1>3, <2>1 DEF StatusCheck, TypeOK, CallTypes
<1>4. CASE StatusAssertProof(k)
  <2>1. CallTypes'
    BY <1>0, <1>4, <1>p, GotoTypes, FinishTypes DEF StatusAssertProof
  <2> QED
    BY <1>4, <2>1 DEF StatusAssertProof, TypeOK, CallTypes
<1>5. CASE StatusWrite(k)
  <2>1. CallTypes'
    BY <1>0, <1>5, <1>p, GotoTypes, FinishTypes DEF StatusWrite
  <2>2. r.to \in DeliveryStatuses
    BY <1>0, <1>5, RequestFields DEF StatusWrite, At, r
  <2>3. delivery' \in [Deliveries -> DeliveryDoc]
    BY <1>5, <2>2, SetStatusTypes DEF StatusWrite, MoveStatus, TypeOK, r
  <2> QED
    BY <1>5, <2>1, <2>3 DEF StatusWrite, TypeOK, CallTypes
<1>6. CASE AssignReadDelivery(k)
  <2>1. CallTypes'
    BY <1>0, <1>6, <1>p, GotoSeeingDTypes, FinishTypes DEF AssignReadDelivery, r
  <2> QED
    BY <1>6, <2>1 DEF AssignReadDelivery, TypeOK, CallTypes
<1>7. CASE AssignReadEscrow(k)
  <2>1. CallTypes'
    BY <1>0, <1>7, <1>p, GotoTypes, FinishTypes DEF AssignReadEscrow
  <2> QED
    BY <1>7, <2>1 DEF AssignReadEscrow, TypeOK, CallTypes
<1>8. CASE AssignSave(k)
  <2>1. CallTypes'
    BY <1>0, <1>8, <1>p, GotoTypes DEF AssignSave
  <2>2. r.drv \in Drivers
    BY <1>0, <1>8, RequestFields DEF AssignSave, At, r
  <2>3. delivery' \in [Deliveries -> DeliveryDoc]
    BY <1>0, <1>8, <2>2 DEF AssignSave, TypeOK, DeliveryDoc, DeliveryStatuses, r
  <2> QED
    BY <1>8, <2>1, <2>3 DEF AssignSave, TypeOK, CallTypes
<1>9. ASSUME NEW op \in {"create", "status", "assign"}, DeliveryMilestone(k, op)
      PROVE  TypeOK'
  <2>1. CallTypes'
    BY <1>0, <1>9, <1>p, FinishTypes DEF DeliveryMilestone
  <2>2. MilestoneTo(r) \in DeliveryStatuses
    BY <1>0, <1>9, RequestFields DEF DeliveryMilestone, At, MilestoneTo, DeliveryStatuses, r
  <2>3. event' \in [Deliveries -> Seq(Milestone)] /\ faults' \in Nat
    BY <1>0, <1>9, <2>2, CallFacts, EmitTypes DEF DeliveryMilestone, TypeOK, r
  <2> QED
    BY <1>9, <2>1, <2>3 DEF DeliveryMilestone, TypeOK, CallTypes
<1> QED
  BY <1>1, <1>2, <1>3, <1>4, <1>5, <1>6, <1>7, <1>8, <1>9
     DEF CreateDelivery, UpdateStatus, AssignDriver

\* uploadProofOfDelivery, archive and restore
LEMMA PathTypes ==
    ASSUME TypeOK, NEW k \in Calls,
           UploadProofOfDelivery(k) \/ ArchiveDelivery(k) \/ RestoreDelivery(k)
    PROVE  TypeOK'
<1>0. CallTypes /\ {"write", "done", "rejected"} \subseteq Pcs
  BY CallFacts DEF Pcs
<1>1. CASE ProofCheck(k)
  <2>1. CallTypes'
    BY <1>0, <1>1, GotoTypes, FinishTypes DEF ProofCheck
  <2> QED
    BY <1>1, <2>1 DEF ProofCheck, TypeOK, CallTypes
<1>2. CASE ProofSave(k)
  <2>1. CallTypes'
    BY <1>0, <1>2, FinishTypes DEF ProofSave
  <2>2. delivery' \in [Deliveries -> DeliveryDoc]
    BY <1>2 DEF ProofSave, TypeOK, DeliveryDoc
  <2> QED
    BY <1>2, <2>1, <2>2 DEF ProofSave, TypeOK, CallTypes
<1>3. ASSUME NEW op, ArchiveCheck(k, op) PROVE TypeOK'
  <2>1. CallTypes'
    BY <1>0, <1>3, GotoTypes, FinishTypes DEF ArchiveCheck
  <2> QED
    BY <1>3, <2>1 DEF ArchiveCheck, TypeOK, CallTypes
<1>4. ASSUME NEW op, ArchiveSave(k, op) PROVE TypeOK'
  <2>1. CallTypes'
    BY <1>0, <1>4, FinishTypes DEF ArchiveSave
  <2>2. PICK b \in BOOLEAN : delivery' = [delivery EXCEPT ![call[k].req.d].archived = b]
    BY <1>4, Zenon DEF ArchiveSave
  <2>3. \A doc \in DeliveryDoc : [doc EXCEPT !.archived = b] \in DeliveryDoc
    BY <2>2 DEF DeliveryDoc
  <2>4. delivery' \in [Deliveries -> DeliveryDoc]
    BY <2>2, <2>3 DEF TypeOK
  <2> QED
    BY <1>4, <2>1, <2>4 DEF ArchiveSave, TypeOK, CallTypes
<1> QED
  BY <1>1, <1>2, <1>3, <1>4 DEF UploadProofOfDelivery, ArchiveDelivery, RestoreDelivery

\* update, and the insert of a bulk import
LEMMA EditTypes ==
    ASSUME TypeOK, NEW k \in Calls, UpdateDelivery(k) \/ ImportDelivery(k)
    PROVE  TypeOK'
<1> DEFINE r == call[k].req
<1>0. CallTypes /\ {"done", "rejected"} \subseteq Pcs /\ r \in Request
  BY CallFacts DEF Pcs
<1>1. CASE UpdateDelivery(k)
  <2>1. CallTypes'
    BY <1>0, <1>1, FinishTypes DEF UpdateDelivery
  <2>2. r.to \in DeliveryStatuses
    BY <1>0, <1>1, RequestFields DEF UpdateDelivery, At
  <2>d. r.d \in Deliveries /\ delivery[r.d] \in DeliveryDoc
    BY <1>0, <1>1, RequestFields DEF UpdateDelivery, At, TypeOK
  <2>n. PICK new : new = [delivery[r.d] EXCEPT !.status = r.to, !.logged = FALSE]
    OBVIOUS
  <2>3. new \in DeliveryDoc
    BY <2>2, <2>d, <2>n DEF DeliveryDoc
  <2>4. UNCHANGED delivery \/ delivery' = [delivery EXCEPT ![r.d] = new]
    BY <1>1, <2>d, <2>n DEF UpdateDelivery, TypeOK
  <2>5. delivery' \in [Deliveries -> DeliveryDoc]
    BY <2>3, <2>4 DEF TypeOK
  <2> QED
    BY <1>1, <2>1, <2>5 DEF UpdateDelivery, TypeOK, CallTypes
<1>2. CASE ImportDelivery(k)
  <2>1. CallTypes'
    BY <1>0, <1>2, FinishTypes DEF ImportDelivery
  <2>2. PICK new : new = [NoDelivery EXCEPT !.status = "pending", !.logged = FALSE]
    OBVIOUS
  <2>3. new \in DeliveryDoc
    BY <2>2, NoDocs DEF DeliveryDoc, DeliveryStatuses
  <2>4. UNCHANGED delivery \/ delivery' = [delivery EXCEPT ![r.d] = new]
    BY <1>2, <2>2 DEF ImportDelivery
  <2>5. delivery' \in [Deliveries -> DeliveryDoc]
    BY <2>3, <2>4 DEF TypeOK
  <2> QED
    BY <1>2, <2>1, <2>5 DEF ImportDelivery, TypeOK, CallTypes
<1> QED
  BY <1>1, <1>2

\* The monitor that is about to record a lapse knows which delivery lapsed.
LapseNamed == \A m \in Monitors : mon[m].pc = "lapsed" => mon[m].curD \in Deliveries

MonTypes == mon \in [Monitors -> MonRec] /\ LapseNamed

\* One monitor's record is replaced.
LEMMA MonUpdate ==
    ASSUME MonTypes, NEW m \in Monitors, NEW new \in MonRec,
           new.pc = "lapsed" => new.curD \in Deliveries,
           mon' = [mon EXCEPT ![m] = new]
    PROVE  MonTypes'
<1>1. mon' \in [Monitors -> MonRec]
  BY DEF MonTypes
<1>2. ASSUME NEW n \in Monitors PROVE mon'[n].pc = "lapsed" => mon'[n].curD \in Deliveries
  BY DEF MonTypes, LapseNamed
<1> QED
  BY <1>1, <1>2 DEF MonTypes, LapseNamed

LEMMA MonGotoTypes ==
    ASSUME MonTypes, NEW m \in Monitors, NEW p \in MonPcs \ {"lapsed"}, MonGoto(m, p)
    PROVE  MonTypes'
<1> DEFINE new == [mon[m] EXCEPT !.pc = p]
<1>1. mon' = [mon EXCEPT ![m] = new]
  BY DEF MonGoto, MonTypes
<1>2. new \in MonRec /\ new.pc = p
  BY DEF MonTypes, MonRec
<1> QED
  BY <1>1, <1>2, MonUpdate

LEMMA NextFlaggedTypes ==
    ASSUME MonTypes, NEW m \in Monitors, NextFlagged(m)
    PROVE  MonTypes'
<1> DEFINE I == mon[m].ids \ {mon[m].cur}
           new == [mon[m] EXCEPT !.pc = "cancel", !.ids = I, !.cur = Free]
<1>1. mon' = [mon EXCEPT ![m] = new]
  BY DEF NextFlagged, MonTypes
<1>2. I \in SUBSET Contracts /\ "cancel" \in MonPcs \ {"lapsed"} /\ mon[m] \in MonRec
  BY DEF MonTypes, MonRec, MonPcs
<1> HIDE DEF I
<1>3. new \in MonRec /\ new.pc = "cancel"
  BY <1>2 DEF MonRec
<1> QED
  BY <1>1, <1>3, MonUpdate

\* The escrow monitor
LEMMA MonitorTypes ==
    ASSUME TypeOK, LapseNamed, NEW m \in Monitors,
           MonStep(m) \/ MonCancelFails(m) \/ MonCrash(m)
    PROVE  TypeOK' /\ LapseNamed'
<1>0. MonTypes
  BY DEF TypeOK, MonTypes
<1>p. MonPcs = {"idle", "find", "flag", "reload", "cancel", "cwrite", "ffind", "lapse", "lapsed"}
  BY DEF MonPcs
<1> DEFINE ids == mon[m].ids
           cur == mon[m].cur
           todo == mon[m].todo
           curD == mon[m].curD
<1>f. /\ mon[m] \in MonRec /\ ids \in SUBSET Contracts /\ cur \in Contracts \cup {Free}
      /\ todo \in SUBSET Deliveries /\ curD \in Deliveries \cup {Free}
  BY <1>0 DEF MonTypes, MonRec
<1>1. CASE MonTick(m)
  <2>1. MonTypes'
    BY <1>0, <1>1, <1>p, MonGotoTypes DEF MonTick
  <2> QED
    BY <1>1, <2>1 DEF MonTick, MonTypes, TypeOK
<1>2. CASE MonFind(m)
  <2>1. PICK due \in SUBSET Contracts :
           mon' = [mon EXCEPT ![m].ids = due, ![m].pc = IF due = {} THEN "ffind" ELSE "flag"]
    BY <1>2, Zenon DEF MonFind
  <2>2. PICK p \in {"ffind", "flag"} : mon' = [mon EXCEPT ![m].ids = due, ![m].pc = p]
    BY <2>1
  <2> DEFINE new == [mon[m] EXCEPT !.ids = due, !.pc = p]
  <2>3. mon' = [mon EXCEPT ![m] = new]
    BY <1>0, <2>2 DEF MonTypes
  <2>4. new \in MonRec /\ new.pc = p
    BY <1>f, <1>p, <2>1, <2>2 DEF MonRec
  <2> HIDE DEF new
  <2>5. MonTypes'
    BY <1>0, <2>2, <2>3, <2>4, MonUpdate
  <2> QED
    BY <1>2, <2>5 DEF MonFind, MonTypes, TypeOK
<1>3. CASE MonFlag(m)
  <2>1. MonTypes'
    BY <1>0, <1>3, <1>p, MonGotoTypes DEF MonFlag
  <2>2. \A e \in EscrowDoc : [e EXCEPT !.status = "expired"] \in EscrowDoc
    BY DEF EscrowDoc, EscrowStatuses
  <2>3. escrow' \in [Contracts -> EscrowDoc]
    BY <1>3, <2>2 DEF MonFlag, TypeOK
  <2> QED
    BY <1>3, <2>1, <2>3 DEF MonFlag, MonTypes, TypeOK
<1>4. CASE MonReload(m)
  <2> DEFINE I == {c \in ids : escrow[c].status = "expired"}
             new == [mon[m] EXCEPT !.ids = I, !.pc = "cancel"]
  <2>1. mon' = [mon EXCEPT ![m] = new]
    BY <1>0, <1>4 DEF MonReload, MonTypes
  <2>2. I \in SUBSET Contracts
    BY <1>f
  <2> HIDE DEF I
  <2>3. new \in MonRec /\ new.pc = "cancel"
    BY <1>f, <1>p, <2>2 DEF MonRec
  <2> HIDE DEF new
  <2>4. MonTypes'
    BY <1>0, <2>1, <2>3, MonUpdate
  <2> QED
    BY <1>4, <2>4 DEF MonReload, MonTypes, TypeOK
<1>5. CASE MonCancelRead(m)
  <2>1. PICK c \in ids : \/ mon' = [mon EXCEPT ![m].ids = @ \ {c}]
                         \/ mon' = [mon EXCEPT ![m].pc = "cwrite", ![m].cur = c]
    BY <1>5 DEF MonCancelRead
  <2> DEFINE I == ids \ {c}
             skip == [mon[m] EXCEPT !.ids = I]
             take == [mon[m] EXCEPT !.pc = "cwrite", !.cur = c]
  <2>2. mon' = [mon EXCEPT ![m] = skip] \/ mon' = [mon EXCEPT ![m] = take]
    BY <1>0, <2>1 DEF MonTypes
  <2>3. I \in SUBSET Contracts /\ c \in Contracts \cup {Free} /\ mon[m].pc = "cancel"
    BY <1>5, <1>f, <2>1 DEF MonCancelRead
  <2> HIDE DEF I
  <2>4. skip \in MonRec /\ skip.pc = "cancel"
    BY <1>f, <2>3 DEF MonRec
  <2>5. take \in MonRec /\ take.pc = "cwrite"
    BY <1>f, <1>p, <2>3 DEF MonRec
  <2> HIDE DEF skip, take
  <2>6. MonTypes'
    BY <1>0, <2>2, <2>4, <2>5, MonUpdate
  <2> QED
    BY <1>5, <2>6 DEF MonCancelRead, MonTypes, TypeOK
<1>6. CASE MonCancelWrite(m)
  <2>1. MonTypes'
    BY <1>0, <1>6, NextFlaggedTypes DEF MonCancelWrite
  <2>2. delivery' \in [Deliveries -> DeliveryDoc]
    BY <1>6, SetStatusTypes DEF MonCancelWrite, TypeOK, DeliveryStatuses
  <2> QED
    BY <1>6, <2>1, <2>2 DEF MonCancelWrite, MonTypes, TypeOK
<1>7. CASE MonExpiryDone(m)
  <2>1. MonTypes'
    BY <1>0, <1>7, <1>p, MonGotoTypes DEF MonExpiryDone
  <2> QED
    BY <1>7, <2>1 DEF MonExpiryDone, MonTypes, TypeOK
<1>8. CASE MonFindLapsed(m)
  <2>1. PICK T \in SUBSET Deliveries : mon' = [mon EXCEPT ![m].pc = "lapse", ![m].todo = T]
    BY <1>8, Zenon DEF MonFindLapsed
  <2> DEFINE new == [mon[m] EXCEPT !.pc = "lapse", !.todo = T]
  <2>2. mon' = [mon EXCEPT ![m] = new]
    BY <1>0, <2>1 DEF MonTypes
  <2>3. new \in MonRec /\ new.pc = "lapse"
    BY <1>f, <1>p, <2>1 DEF MonRec
  <2> HIDE DEF new
  <2>4. MonTypes'
    BY <1>0, <2>2, <2>3, MonUpdate
  <2> QED
    BY <1>8, <2>4 DEF MonFindLapsed, MonTypes, TypeOK
<1>9. CASE MonCancelLapsed(m)
  <2>1. PICK d \in todo : /\ CancelLapsed(d)
                          /\ \/ mon' = [mon EXCEPT ![m].pc = "lapsed", ![m].curD = d]
                             \/ mon' = [mon EXCEPT ![m].todo = @ \ {d}]
    BY <1>9 DEF MonCancelLapsed
  <2> DEFINE T == todo \ {d}
             take == [mon[m] EXCEPT !.pc = "lapsed", !.curD = d]
             skip == [mon[m] EXCEPT !.todo = T]
  <2>2. mon' = [mon EXCEPT ![m] = take] \/ mon' = [mon EXCEPT ![m] = skip]
    BY <1>0, <2>1 DEF MonTypes
  <2>3. T \in SUBSET Deliveries /\ d \in Deliveries /\ mon[m].pc = "lapse"
    BY <1>9, <1>f, <2>1 DEF MonCancelLapsed
  <2> HIDE DEF T
  <2>4. take \in MonRec /\ take.curD = d
    BY <1>f, <1>p, <2>3 DEF MonRec
  <2>5. skip \in MonRec /\ skip.pc = "lapse"
    BY <1>f, <2>3 DEF MonRec
  <2> HIDE DEF take, skip
  <2>6. MonTypes'
    BY <1>0, <2>2, <2>3, <2>4, <2>5, MonUpdate
  <2>7. delivery' \in [Deliveries -> DeliveryDoc]
    BY <2>1, CancelLapsedTypes DEF TypeOK
  <2> QED
    BY <1>9, <2>6, <2>7 DEF MonCancelLapsed, MonTypes, TypeOK
<1>10. CASE MonRecordLapse(m)
  <2> DEFINE T == todo \ {curD}
             new == [mon[m] EXCEPT !.pc = "lapse", !.todo = T, !.curD = Free]
  <2>1. mon' = [mon EXCEPT ![m] = new]
    BY <1>0, <1>10 DEF MonRecordLapse, MonTypes
  <2>2. T \in SUBSET Deliveries
    BY <1>f
  <2> HIDE DEF T
  <2>3. new \in MonRec /\ new.pc = "lapse"
    BY <1>f, <1>p, <2>2 DEF MonRec
  <2> HIDE DEF new
  <2>4. MonTypes'
    BY <1>0, <2>1, <2>3, MonUpdate
  <2>5. curD \in Deliveries
    BY <1>10 DEF MonRecordLapse, LapseNamed
  <2>6. /\ event' \in [Deliveries -> Seq(Milestone)] /\ faults' \in Nat
        /\ audit' \subseteq Calls \cup Deliveries
    BY <1>10, <2>5, RecordLapseTypes DEF MonRecordLapse, TypeOK
  <2> QED
    BY <1>10, <2>4, <2>6 DEF MonRecordLapse, MonTypes, TypeOK
<1>11. CASE MonDone(m)
  <2>1. MonTypes'
    BY <1>0, <1>11, <1>p, MonGotoTypes DEF MonDone
  <2> QED
    BY <1>11, <2>1 DEF MonDone, MonTypes, TypeOK
<1>12. CASE MonCancelFails(m)
  <2>1. MonTypes'
    BY <1>0, <1>12, NextFlaggedTypes DEF MonCancelFails
  <2> QED
    BY <1>12, <2>1 DEF MonCancelFails, Fault, MonTypes, TypeOK
<1>13. CASE MonCrash(m)
  <2>1. mon' = [mon EXCEPT ![m] = IdleMon]
    BY <1>13 DEF MonCrash
  <2>2. IdleMon \in MonRec /\ IdleMon.pc = "idle"
    BY DEF IdleMon, MonRec, MonPcs
  <2>3. MonTypes'
    BY <1>0, <2>1, <2>2, MonUpdate
  <2> QED
    BY <1>13, <2>3 DEF MonCrash, Fault, MonTypes, TypeOK
<1> QED
  BY <1>1, <1>2, <1>3, <1>4, <1>5, <1>6, <1>7, <1>8, <1>9, <1>10, <1>11, <1>12, <1>13
     DEF MonStep, ScanForExpiredEscrows, ScanLapsedFundingWindows

TypeInv == TypeOK /\ LapseNamed

\* Requests, faults, locks and the clock
LEMMA ServeTypes ==
    ASSUME TypeOK, NEW k \in Calls, Serve(k)
    PROVE  TypeOK' /\ UNCHANGED mon
<1>1. TypeOK'
  BY FundTypes, LockTypes, ReleaseTypes, AdminTypes, ChainTypes, DeliveryTypes, PathTypes, EditTypes
     DEF Serve
<1>2. UNCHANGED mon
  <2>1. CASE RecordEscrowFunded(k)
    BY <2>1 DEF RecordEscrowFunded, FundReadDelivery, FundCancelLapsed, FundRecordLapse,
         FundReadContract, FundCheck, FundWriteEscrow, FundWriteDelivery, FundMilestone
  <2>2. CASE AcquireLock(k) \/ AcquireFails(k) \/ ReleaseEscrow(k)
    BY <2>2, Zenon DEF AcquireLock, AcquireFails, ReleaseEscrow, ReleaseRead, ReleaseAssertProof,
         ReleaseSave, ReleaseReadDelivery, ReleaseWriteDelivery
  <2>3. CASE ResolveEscrow(k) \/ RetryExpiredEscrow(k) \/ HandleSettlementEvent(k)
    BY <2>3, Zenon DEF ResolveEscrow, RetryExpiredEscrow, AdminRead, ResolveSave, RetrySave, ApplyRead,
         ApplyWrite, AdminAudit, HandleSettlementEvent, ChainFind, ChainSettle
  <2>4. CASE CreateDelivery(k) \/ UpdateStatus(k) \/ AssignDriver(k)
    BY <2>4 DEF CreateDelivery, CreateCheck, CreateWrite, UpdateStatus, StatusCheck,
         StatusAssertProof, StatusWrite, AssignDriver, AssignReadDelivery, AssignReadEscrow,
         AssignSave
  <2>5. CASE \E op \in {"create", "status", "assign"} : DeliveryMilestone(k, op)
    BY <2>5 DEF DeliveryMilestone
  <2>6. CASE UploadProofOfDelivery(k) \/ ArchiveDelivery(k) \/ RestoreDelivery(k)
    BY <2>6 DEF UploadProofOfDelivery, ProofCheck, ProofSave, ArchiveDelivery, RestoreDelivery,
         ArchiveCheck, ArchiveSave
  <2>7. CASE UpdateDelivery(k) \/ ImportDelivery(k)
    BY <2>7 DEF UpdateDelivery, ImportDelivery
  <2> QED
    BY <2>1, <2>2, <2>3, <2>4, <2>5, <2>6, <2>7 DEF Serve
<1> QED
  BY <1>1, <1>2

\* Every step keeps the types.
LEMMA TypeStep == TypeInv /\ [Next]_vars => TypeInv'
<1> SUFFICES ASSUME TypeInv, [Next]_vars PROVE TypeInv'
  OBVIOUS
<1>0. TypeOK /\ LapseNamed
  BY DEF TypeInv
<1>p. {"acquire", "start", "failed"} \subseteq Pcs
  BY DEF Pcs
<1>1. ASSUME NEW k \in Calls, Invoke(k) PROVE TypeInv'
  <2>1. CallTypes'
    BY <1>0, <1>1, <1>p, CallFacts, GotoTypes DEF Invoke
  <2> QED
    BY <1>0, <1>1, <2>1 DEF Invoke, CallTypes, TypeOK, TypeInv, LapseNamed
<1>2. ASSUME NEW k \in Calls, Serve(k) PROVE TypeInv'
  BY <1>0, <1>2, ServeTypes DEF TypeInv, LapseNamed
<1>3. ASSUME NEW k \in Calls, RequestFails(k) PROVE TypeInv'
  <2>1. CallTypes'
    BY <1>0, <1>3, <1>p, CallFacts, FinishTypes DEF RequestFails
  <2> QED
    BY <1>0, <1>3, <2>1 DEF RequestFails, Fault, CallTypes, TypeOK, TypeInv, LapseNamed
<1>4. ASSUME NEW k \in Calls, ProcessCrashes(k) PROVE TypeInv'
  <2>1. call[k].req \in Request
    BY <1>0, CallFacts
  <2>2. call' \in [Calls -> CallRec]
    BY <1>0, <1>4, <1>p, <2>1, NoDocs DEF ProcessCrashes, TypeOK, CallRec
  <2> QED
    BY <1>0, <1>4, <2>2 DEF ProcessCrashes, Fault, TypeOK, TypeInv, LapseNamed
<1>5. ASSUME NEW m \in Monitors, MonStep(m) \/ MonCancelFails(m) \/ MonCrash(m) PROVE TypeInv'
  BY <1>0, <1>5, MonitorTypes DEF TypeInv
<1>6. ASSUME NEW key \in LockKeys, LockTimesOut(key) PROVE TypeInv'
  BY <1>0, <1>6 DEF LockTimesOut, TypeOK, TypeInv, LapseNamed
<1>7. CASE ClockTick
  BY <1>0, <1>7 DEF ClockTick, TypeOK, TypeInv, LapseNamed
<1>8. CASE Rest \/ UNCHANGED vars
  BY <1>0, <1>8 DEF Rest, vars, TypeOK, TypeInv, LapseNamed
<1> QED
  BY <1>1, <1>2, <1>3, <1>4, <1>5, <1>6, <1>7, <1>8 DEF Next

\* The documents, logs, locks and requests of the settlement core keep the
\* shape the schemas and the handlers give them, whatever the sets of
\* deliveries, escrows, requests and monitors and whatever fails.
THEOREM TypeCorrect == Spec => []TypeOK
<1>1. Init => TypeInv
  <2>1. Init => LapseNamed
    BY DEF Init, IdleMon, LapseNamed
  <2> QED
    BY <2>1, TypeInit DEF TypeInv
<1>2. TypeInv => TypeOK
  BY DEF TypeInv
<1> QED
  BY <1>1, <1>2, TypeStep, PTL DEF Spec

-----------------------------------------------------------------------------
(* Mutual exclusion *)

\* Whoever runs the locked function owns its key in Redis.
LockHeld ==
    \A k \in Calls : InCriticalSection(k) => lock[LockKey(call[k].req)] = k

\* A handler that is past withLock (or needs no lock) goes on or answers.
Proceeds(k) ==
    /\ call[k].pc \notin {"idle", "acquire"} \cup Finished
    /\ \/ \E p : Goto(k, p) \/ \E doc : GotoSeeingD(k, p, doc) \/ GotoSeeingE(k, p, doc)
       \/ \E p \in Finished : Finish(k, p)

LEMMA ServeProceeds ==
    ASSUME NEW k \in Calls, Serve(k), ~AcquireLock(k), ~AcquireFails(k)
    PROVE  Proceeds(k)
<1> USE DEF Finished
<1>1. CASE RecordEscrowFunded(k)
  BY <1>1 DEF Proceeds, At, RecordEscrowFunded, FundReadDelivery, FundCancelLapsed,
       FundRecordLapse, FundReadContract, FundCheck, FundWriteEscrow, FundWriteDelivery,
       FundMilestone
<1>2. CASE ReleaseEscrow(k)
  <2>1. CASE ReleaseRead(k) \/ ReleaseAssertProof(k)
    BY <2>1 DEF Proceeds, At, ReleaseRead, ReleaseAssertProof
  <2>2. CASE ReleaseSave(k)
    BY <2>2 DEF Proceeds, At, ReleaseSave
  <2>3. CASE ReleaseReadDelivery(k) \/ ReleaseWriteDelivery(k)
    BY <2>3 DEF Proceeds, At, ReleaseReadDelivery, ReleaseWriteDelivery
  <2> QED
    BY <1>2, <2>1, <2>2, <2>3 DEF ReleaseEscrow
<1>3. CASE ResolveEscrow(k) \/ RetryExpiredEscrow(k)
  BY <1>3 DEF Proceeds, At, ResolveEscrow, RetryExpiredEscrow, AdminRead, ResolveSave,
       RetrySave, ApplyRead, ApplyWrite, AdminAudit
<1>4. CASE HandleSettlementEvent(k)
  BY <1>4 DEF Proceeds, At, HandleSettlementEvent, ChainFind, ChainSettle
<1>5. CASE CreateDelivery(k) \/ UpdateStatus(k) \/ AssignDriver(k)
  BY <1>5 DEF Proceeds, At, CreateDelivery, CreateCheck, CreateWrite, UpdateStatus,
       StatusCheck, StatusAssertProof, StatusWrite, AssignDriver, AssignReadDelivery,
       AssignReadEscrow, AssignSave
<1>6. CASE \E op \in {"create", "status", "assign"} : DeliveryMilestone(k, op)
  BY <1>6 DEF Proceeds, At, DeliveryMilestone
<1>7. CASE UploadProofOfDelivery(k) \/ ArchiveDelivery(k) \/ RestoreDelivery(k)
  BY <1>7 DEF Proceeds, At, UploadProofOfDelivery, ProofCheck, ProofSave, ArchiveDelivery,
       RestoreDelivery, ArchiveCheck, ArchiveSave
<1>8. CASE UpdateDelivery(k) \/ ImportDelivery(k)
  BY <1>8 DEF Proceeds, At, UpdateDelivery, ImportDelivery
<1> QED
  BY <1>1, <1>2, <1>3, <1>4, <1>5, <1>6, <1>7, <1>8 DEF Serve

\* A step of one request k leaves the others' positions and keys alone.
LEMMA OthersKeepKeys ==
    ASSUME CallTypes, LockHeld, NEW k \in Calls,
           \A j \in Calls \ {k} : call'[j] = call[j],
           \A x \in LockKeys : lock[x] \notin {k, Free} => lock'[x] = lock[x],
           Free \notin Calls,
           InCriticalSection(k)' => lock'[LockKey(call'[k].req)] = k
    PROVE  LockHeld'
<1>1. ASSUME NEW j \in Calls \ {k}, InCriticalSection(j)'
      PROVE  lock'[LockKey(call'[j].req)] = j
  <2>1. call'[j] = call[j] /\ InCriticalSection(j)
    BY <1>1 DEF InCriticalSection, Running
  <2>2. call[j].req \in Request /\ call[j].req.op \in Locking
    BY <2>1 DEF CallTypes, CallRec, InCriticalSection
  <2>3. LockKey(call[j].req) \in LockKeys /\ lock[LockKey(call[j].req)] = j
    BY <2>1, <2>2, LockKeyType DEF LockHeld
  <2> QED
    BY <2>1, <2>3
<1> QED
  BY <1>1 DEF LockHeld

\* The request answers.
LEMMA FinishHeld ==
    ASSUME CallTypes, LockHeld, NEW k \in Calls, NEW p \in Finished, Finish(k, p)
    PROVE  LockHeld'
<1>1. /\ \A j \in Calls \ {k} : call'[j] = call[j]
      /\ call'[k].pc = p
      /\ \A x \in LockKeys : lock[x] # k => lock'[x] = lock[x]
  BY DEF CallTypes, CallRec, Finish, ReleaseLock
<1>2. ~InCriticalSection(k)'
  BY <1>1 DEF InCriticalSection, Running
<1> QED
  BY <1>1, <1>2, OthersKeepKeys, StoreAssumption

LEMMA ProceedsHeld ==
    ASSUME CallTypes, LockHeld, NEW k \in Calls, Proceeds(k)
    PROVE  LockHeld'
<1>1. CASE \E p : Goto(k, p) \/ \E doc : GotoSeeingD(k, p, doc) \/ GotoSeeingE(k, p, doc)
  <2>1. /\ \A j \in Calls \ {k} : call'[j] = call[j]
        /\ call'[k].req = call[k].req /\ lock' = lock
    BY <1>1 DEF CallTypes, CallRec, Goto, GotoSeeingD, GotoSeeingE
  <2>2. InCriticalSection(k)' => InCriticalSection(k)
    BY <2>1 DEF Proceeds, InCriticalSection, Running
  <2> QED
    BY <2>1, <2>2, OthersKeepKeys, StoreAssumption DEF LockHeld
<1> QED
  BY <1>1, FinishHeld DEF Proceeds

\* Redis gives a free key to the request that asks for it.
LEMMA AcquireHeld ==
    ASSUME CallTypes, LockHeld, NEW k \in Calls, AcquireLock(k)
    PROVE  LockHeld'
<1> DEFINE key == LockKey(call[k].req)
<1>1. /\ \A j \in Calls \ {k} : call'[j] = call[j]
      /\ call'[k].req = call[k].req
      /\ lock[key] = Free /\ lock' = [lock EXCEPT ![key] = k]
  BY DEF AcquireLock, CallTypes, CallRec
<1>2. \A x \in LockKeys : lock[x] \notin {k, Free} => lock'[x] = lock[x]
  BY <1>1 DEF CallTypes
<1>3. InCriticalSection(k)' => lock'[LockKey(call'[k].req)] = k
  <2> SUFFICES ASSUME InCriticalSection(k)' PROVE lock'[key] = k
    BY <1>1
  <2>1. call[k].req \in Request /\ call[k].req.op \in Locking
    BY <1>1 DEF InCriticalSection, CallTypes, CallRec
  <2>2. key \in LockKeys
    BY <2>1, LockKeyType
  <2> QED
    BY <1>1, <2>2 DEF CallTypes
<1> QED
  BY <1>1, <1>2, <1>3, OthersKeepKeys, StoreAssumption

\* No step takes its key from a request inside the locked function, if Redis
\* lets no lock run out under its holder.
LEMMA HeldStep ==
    ASSUME ~LocksExpire, TypeOK, LockHeld, [Next]_vars
    PROVE  LockHeld'
<1>0. CallTypes /\ Free \notin Calls
  BY StoreAssumption DEF TypeOK, CallTypes
<1>1. ASSUME NEW k \in Calls, Invoke(k) PROVE LockHeld'
  <2>1. /\ \A j \in Calls \ {k} : call'[j] = call[j]
        /\ call'[k].req = call[k].req /\ lock' = lock
        /\ call'[k].pc = IF call[k].req.op \in Locking THEN "acquire" ELSE "start"
    BY <1>0, <1>1 DEF Invoke, Goto, CallTypes, CallRec
  <2>2. ~InCriticalSection(k)'
    BY <2>1 DEF InCriticalSection
  <2> QED
    BY <1>0, <2>1, <2>2, OthersKeepKeys
<1>2. ASSUME NEW k \in Calls, Serve(k) PROVE LockHeld'
  <2>1. CASE AcquireLock(k)
    BY <1>0, <2>1, AcquireHeld
  <2>2. CASE AcquireFails(k)
    BY <1>0, <2>2, FinishHeld DEF AcquireFails, Finished
  <2>3. CASE ~AcquireLock(k) /\ ~AcquireFails(k)
    BY <1>0, <1>2, <2>3, ServeProceeds, ProceedsHeld
  <2> QED
    BY <2>1, <2>2, <2>3
<1>3. ASSUME NEW k \in Calls, RequestFails(k) PROVE LockHeld'
  BY <1>0, <1>3, FinishHeld DEF RequestFails, Finished
<1>4. ASSUME NEW k \in Calls, ProcessCrashes(k) PROVE LockHeld'
  <2>1. /\ \A j \in Calls \ {k} : call'[j] = call[j]
        /\ call'[k].pc = "failed" /\ lock' = lock
    BY <1>0, <1>4 DEF ProcessCrashes, CallTypes, CallRec
  <2>2. ~InCriticalSection(k)'
    BY <2>1 DEF InCriticalSection, Running, Finished
  <2> QED
    BY <1>0, <2>1, <2>2, OthersKeepKeys
<1>5. ASSUME NEW m \in Monitors, MonStep(m) \/ MonCancelFails(m) \/ MonCrash(m) PROVE LockHeld'
  <2>1. UNCHANGED <<call, lock>>
    BY <1>5 DEF MonStep, ScanForExpiredEscrows, ScanLapsedFundingWindows, MonTick, MonFind,
         MonFlag, MonReload, MonCancelRead, MonCancelWrite, MonExpiryDone, MonFindLapsed,
         MonCancelLapsed, MonRecordLapse, MonDone, MonCancelFails, MonCrash
  <2> QED
    BY <2>1 DEF LockHeld, InCriticalSection, Running
<1>6. ASSUME NEW key \in LockKeys, LockTimesOut(key) PROVE LockHeld'
  <2>1. call' = call /\ lock' = [lock EXCEPT ![key] = Free] /\ ~Running(lock[key])
    BY <1>6 DEF LockTimesOut
  <2>2. ASSUME NEW k \in Calls, InCriticalSection(k)' PROVE lock'[LockKey(call'[k].req)] = k
    <3>1. InCriticalSection(k) /\ Running(k)
      BY <2>1, <2>2 DEF InCriticalSection, Running
    <3>2. lock[LockKey(call[k].req)] = k /\ LockKey(call[k].req) # key
      BY <2>1, <3>1 DEF LockHeld
    <3> QED
      BY <1>0, <2>1, <3>2 DEF CallTypes
  <2> QED
    BY <2>2 DEF LockHeld
<1>7. CASE ClockTick \/ Rest \/ UNCHANGED vars
  BY <1>7 DEF ClockTick, Rest, vars, LockHeld, InCriticalSection, Running
<1> QED
  BY <1>1, <1>2, <1>3, <1>4, <1>5, <1>6, <1>7 DEF Next

\* withLock: as long as no handler outlives the TTL of its lock, two requests
\* with the same lock key are never both inside the locked function, however
\* many requests race and whatever crashes.
THEOREM Exclusion == ~LocksExpire => (Spec => []MutualExclusion)
<1> SUFFICES ASSUME ~LocksExpire PROVE Spec => []MutualExclusion
  OBVIOUS
<1>1. Init => LockHeld
  BY DEF Init, IdleCall, LockHeld, InCriticalSection, Running
<1>2. TypeOK /\ LockHeld /\ [Next]_vars => LockHeld'
  BY HeldStep
<1>3. LockHeld => MutualExclusion
  BY DEF LockHeld, MutualExclusion
<1> QED
  BY <1>1, <1>2, <1>3, TypeCorrect, PTL DEF Spec

-----------------------------------------------------------------------------
(* What stays on record *)

\* A contract without an escrow document has nothing of one.
NoStray == \A c \in Contracts : ~Exists(escrow[c]) => escrow[c] = NoEscrow

\* recordEscrowFunded: what it saw lapse had lapsed, the contract it updates
\* is linked as it was when read, and past its write it is linked to r.d.
FundOK(k) ==
    LET r == call[k].req
        e == call[k].seenE
    IN r.op = "fund" =>
        /\ call[k].pc = "lapse" => Exists(delivery[r.d]) /\ delivery[r.d].fundBy <= now
        /\ call[k].pc \in {"read2", "write"} /\ Exists(e)
             => Exists(escrow[r.c]) /\ escrow[r.c].of = e.of
        /\ call[k].pc = "write" /\ Exists(e) => e.of = r.d
        /\ call[k].pc \in {"dwrite", "milestone"} => Exists(escrow[r.c]) /\ escrow[r.c].of = r.d

\* Whoever settles an escrow found one.
SettleOK(k) ==
    call[k].req.op \in Locking /\ call[k].pc \in {"proof", "write", "dread", "dwrite", "audit"}
        => Exists(escrow[call[k].req.c])

\* An admin's decision is answered after its audit entry.
AuditOK(k) ==
    /\ call[k].req.op \in {"resolve", "retry"} /\ call[k].pc = "done" /\ faults = 0
    => k \in audit

\* assignDriver saw an escrow; updateStatus saw a status its target may follow.
DeliveryOK(k) ==
    LET r == call[k].req
    IN /\ r.op = "assign" /\ call[k].pc = "write" => EscrowsOf(r.d) # {}
       /\ r.op = "status" /\ call[k].pc \in {"proof", "write"}
            => r.to \in ALLOWED_TRANSITIONS[call[k].seenD.status]

CallOK(k) == FundOK(k) /\ SettleOK(k) /\ AuditOK(k) /\ DeliveryOK(k)

\* A monitor knows the escrow it is at, and what it saw lapse had lapsed.
MonOK(m) ==
    /\ mon[m].pc = "cwrite" => mon[m].cur \in Contracts
    /\ \A d \in mon[m].todo : Exists(delivery[d]) /\ delivery[d].fundBy <= now

RecordInv ==
    /\ TypeInv /\ LinksAreUnique /\ NoStray
    /\ \A k \in Calls : CallOK(k)
    /\ \A m \in Monitors : MonOK(m)

\* What exists stays, linked as it is; what is logged or has passed, too.
EscrowGrows ==
    \A c \in Contracts :
        Exists(escrow[c]) => Exists(escrow[c])' /\ escrow'[c].of = escrow[c].of

DeliveryGrows ==
    \A d \in Deliveries :
        Exists(delivery[d]) => /\ Exists(delivery[d])' /\ delivery'[d].fundBy = delivery[d].fundBy
                               /\ delivery'[d].logged => delivery[d].logged

RestGrows == audit \subseteq audit' /\ now <= now' /\ (faults' = 0 => faults = 0)

\* No escrow expires but from a status that may.
ExpiresRight ==
    \A c \in Contracts :
        escrow'[c].status = "expired" /\ escrow[c].status # "expired"
            => escrow[c].status \in {"pending", "locked"}

\* No delivery lapses but a pending one past its deadline.
LapsesRight ==
    \A d \in Deliveries :
        delivery'[d].lapsed /\ ~delivery[d].lapsed
            => delivery[d].status = "pending" /\ delivery[d].fundBy <= now

\* A delivery no escrow is linked to follows its life cycle, edits apart.
MovesRight ==
    \A d \in Deliveries :
        (\A c \in Contracts : escrow[c].of # d) /\ ~Edits(d)
            => delivery'[d].status \in DeliveryMoves[delivery[d].status] \cup {delivery[d].status}

EscrowFine == LinksAreUnique' /\ NoStray' /\ EscrowGrows /\ ExpiresRight
DeliveryFine == DeliveryGrows /\ LapsesRight /\ MovesRight

LEMMA EscrowRests ==
    ASSUME LinksAreUnique, NoStray, UNCHANGED escrow PROVE EscrowFine
<1>1. LinksAreUnique'
  <2> SUFFICES ASSUME NEW x \in Contracts, NEW y \in Contracts, x # y,
                      Exists(escrow'[x]), Exists(escrow'[y])
               PROVE  /\ escrow'[x].of # escrow'[y].of
                      /\ HashesOf(escrow'[x]) \cap HashesOf(escrow'[y]) = {}
    BY DEF LinksAreUnique, Indexed, HashesOf, Exists
  <2> QED
    BY DEF LinksAreUnique, Indexed
<1>2. NoStray' /\ EscrowGrows /\ ExpiresRight
  BY DEF NoStray, EscrowGrows, ExpiresRight, Exists, NoEscrow
<1> QED
  BY <1>1, <1>2 DEF EscrowFine

LEMMA DeliveryRests ==
    ASSUME UNCHANGED delivery PROVE DeliveryFine
  BY Zenon DEF DeliveryFine, DeliveryGrows, LapsesRight, MovesRight, Exists

\* One escrow document is written: it stays linked as it was, or is new and its
\* delivery has no other; and what hashes it gains no other escrow has.
WritesEscrow(c, new) ==
    /\ escrow' = [escrow EXCEPT ![c] = new]
    /\ new.status \notin {"absent", "expired"} \/ new.status = escrow[c].status
    /\ Exists(new)
    /\ Exists(escrow[c]) => new.of = escrow[c].of
    /\ ~Exists(escrow[c]) => EscrowsOf(new.of) = {}
    /\ \A h \in HashesOf(new) : h \in HashesOf(escrow[c]) \/ ~HashTakenElsewhere(c, h)

LEMMA WriteIsFine ==
    ASSUME TypeOK, LinksAreUnique, NoStray, NEW c \in Contracts, NEW new, WritesEscrow(c, new)
    PROVE  EscrowFine
<1>1. escrow'[c] = new /\ \A x \in Contracts \ {c} : escrow'[x] = escrow[x]
  BY DEF WritesEscrow, TypeOK
<1>2. EscrowGrows
  BY <1>1 DEF EscrowGrows, WritesEscrow, Exists
<1>3. NoStray'
  BY <1>1 DEF NoStray, WritesEscrow, Exists
<1>4. ExpiresRight
  BY <1>1 DEF ExpiresRight, WritesEscrow
<1>5. ASSUME NEW x \in Contracts \ {c}, Exists(escrow[x])
      PROVE  escrow[x].of # new.of /\ HashesOf(escrow[x]) \cap HashesOf(new) = {}
  <2>1. escrow[x].of # new.of
    <3>1. CASE Exists(escrow[c])
      BY <1>5, <3>1 DEF WritesEscrow, LinksAreUnique, Indexed
    <3>2. CASE ~Exists(escrow[c])
      BY <1>5, <3>2 DEF WritesEscrow, EscrowsOf
    <3> QED
      BY <3>1, <3>2
  <2>2. ASSUME NEW h \in HashesOf(new) PROVE h \notin HashesOf(escrow[x])
    <3>1. CASE ~HashTakenElsewhere(c, h)
      BY <3>1 DEF HashTakenElsewhere
    <3>2. CASE h \in HashesOf(escrow[c]) /\ Exists(escrow[c])
      BY <1>5, <3>2 DEF LinksAreUnique, Indexed
    <3>3. CASE h \in HashesOf(escrow[c]) /\ ~Exists(escrow[c])
      <4>1. escrow[c] = NoEscrow
        BY <3>3 DEF NoStray
      <4>2. HashesOf(escrow[c]) = {}
        BY <4>1 DEF HashesOf, NoEscrow
      <4> QED
        BY <3>3, <4>2
    <3> QED
      BY <2>2, <3>1, <3>2, <3>3 DEF WritesEscrow
  <2> QED
    BY <2>1, <2>2
<1>6. LinksAreUnique'
  <2> SUFFICES ASSUME NEW x \in Contracts, NEW y \in Contracts, x # y,
                      Exists(escrow'[x]), Exists(escrow'[y])
               PROVE  /\ escrow'[x].of # escrow'[y].of
                      /\ HashesOf(escrow'[x]) \cap HashesOf(escrow'[y]) = {}
    BY DEF LinksAreUnique, Indexed, HashesOf, Exists
  <2>1. CASE x = c
    BY <1>1, <1>5, <2>1
  <2>2. CASE y = c
    BY <1>1, <1>5, <2>2
  <2>3. CASE x # c /\ y # c
    BY <1>1, <2>3 DEF LinksAreUnique, Indexed
  <2> QED
    BY <2>1, <2>2, <2>3
<1> QED
  BY <1>2, <1>3, <1>4, <1>6 DEF EscrowFine

\* The hashes of a list with one more transaction.
LEMMA AppendedHashes ==
    ASSUME NEW e \in EscrowDoc, NEW tx \in Tx, NEW new, new.txs = Append(e.txs, tx),
           NEW h \in HashesOf(new)
    PROVE  h \in HashesOf(e) \/ h = tx.hash
<1>1. e.txs \in Seq(Tx)
  BY DEF EscrowDoc
<1>2. PICK i \in DOMAIN new.txs : h = new.txs[i].hash
  BY DEF HashesOf
<1> DEFINE t == e.txs
<1>3. /\ Len(Append(t, tx)) = Len(t) + 1
      /\ \A j \in 1..Len(t) : Append(t, tx)[j] = t[j]
      /\ Append(t, tx)[Len(t) + 1] = tx
      /\ DOMAIN Append(t, tx) = 1..(Len(t) + 1) /\ DOMAIN t = 1..Len(t) /\ Len(t) \in Nat
  BY <1>1, AppendProperties
<1>4. i \in 1..(Len(t) + 1)
  BY <1>2, <1>3
<1>5. CASE i \in 1..Len(t)
  BY <1>2, <1>3, <1>5 DEF HashesOf
<1>6. CASE i = Len(t) + 1
  BY <1>2, <1>3, <1>6
<1> QED
  BY <1>3, <1>4, <1>5, <1>6

\* A delivery with an escrow is moved to a status.
LEMMA SetStatusIsFine ==
    ASSUME TypeOK, NEW d, NEW s \in DeliveryStatuses \ {"absent"}, SetStatus(d, s),
           d \in Deliveries => \E c \in Contracts : escrow[c].of = d
    PROVE  DeliveryFine
<1>1. \A x \in Deliveries : x # d => delivery'[x] = delivery[x]
  BY DEF SetStatus, TypeOK
<1>2. d \in Deliveries => /\ delivery'[d].status = s /\ delivery'[d].fundBy = delivery[d].fundBy
                          /\ delivery'[d].lapsed = delivery[d].lapsed
                          /\ delivery'[d].logged = delivery[d].logged
  BY DEF SetStatus, TypeOK, DeliveryDoc
<1>3. DeliveryGrows
  BY <1>1, <1>2 DEF DeliveryGrows, Exists
<1>4. LapsesRight
  BY <1>1, <1>2 DEF LapsesRight
<1>5. MovesRight
  BY <1>1, <1>2 DEF MovesRight
<1> QED
  BY <1>3, <1>4, <1>5 DEF DeliveryFine

\* The moves of the life cycle the writes make.
LEMMA SomeMoves ==
    /\ DeliveryMoves["pending"] = {"funded", "assigned", "cancelled"}
    /\ DeliveryMoves["absent"] = {"pending"}
    /\ \A s \in DeliveryStatuses : ALLOWED_TRANSITIONS[s] \subseteq DeliveryMoves[s]
  BY DEF DeliveryMoves, ALLOWED_TRANSITIONS, DeliveryStatuses

\* A delivery seen to lapse is cancelled, if it is still pending.
LEMMA CancelLapsedIsFine ==
    ASSUME TypeOK, NEW d \in Deliveries, CancelLapsed(d), delivery[d].fundBy <= now
    PROVE  DeliveryFine
<1>1. CASE delivery[d].status # "pending"
  BY <1>1, DeliveryRests DEF CancelLapsed
<1>2. CASE delivery[d].status = "pending"
  <2>1. delivery' = [delivery EXCEPT ![d].status = "cancelled", ![d].lapsed = TRUE]
    BY <1>2 DEF CancelLapsed
  <2>2. \A x \in Deliveries : x # d => delivery'[x] = delivery[x]
    BY <2>1 DEF TypeOK
  <2>3. /\ delivery'[d].status = "cancelled" /\ delivery'[d].fundBy = delivery[d].fundBy
        /\ delivery'[d].logged = delivery[d].logged
    BY <2>1 DEF TypeOK, DeliveryDoc
  <2>4. DeliveryGrows
    BY <2>2, <2>3 DEF DeliveryGrows, Exists
  <2>5. LapsesRight
    BY <1>2, <2>2 DEF LapsesRight
  <2>6. MovesRight
    BY <1>2, <2>2, <2>3, SomeMoves DEF MovesRight
  <2> QED
    BY <2>4, <2>5, <2>6 DEF DeliveryFine
<1> QED
  BY <1>1, <1>2

\* A step of request k.
OthersStay(k) == \A j \in Calls \ {k} : call'[j] = call[j]
Fine(k) == OthersStay(k) /\ CallOK(k)' /\ EscrowFine /\ DeliveryFine /\ RestGrows

LEMMA GotoMoves ==
    ASSUME TypeOK, NEW k \in Calls, NEW p, Goto(k, p)
    PROVE  /\ OthersStay(k) /\ call'[k].pc = p /\ call'[k].req = call[k].req
           /\ call'[k].seenD = call[k].seenD /\ call'[k].seenE = call[k].seenE
  BY DEF Goto, TypeOK, CallRec, OthersStay

LEMMA SeeingMoves ==
    ASSUME TypeOK, NEW k \in Calls, NEW p, NEW doc
    PROVE  /\ GotoSeeingD(k, p, doc) => /\ OthersStay(k) /\ call'[k].pc = p
                                        /\ call'[k].req = call[k].req /\ call'[k].seenD = doc
           /\ GotoSeeingE(k, p, doc) => /\ OthersStay(k) /\ call'[k].pc = p
                                        /\ call'[k].req = call[k].req /\ call'[k].seenE = doc
  BY DEF GotoSeeingD, GotoSeeingE, TypeOK, CallRec, OthersStay

\* A request that has answered, or is where nothing is asked of it.
LEMMA AnsweredIsOK ==
    ASSUME NEW k \in Calls,
           call'[k].pc \in Finished \cup {"idle", "start", "acquire", "read", "lapsed"},
           /\ call'[k].req.op \in {"resolve", "retry"} /\ call'[k].pc = "done" /\ faults' = 0
           => k \in audit'
    PROVE  CallOK(k)'
<1>1. FundOK(k)' /\ SettleOK(k)'
  BY DEF FundOK, SettleOK, Finished
<1>2. AuditOK(k)'
  BY DEF AuditOK
<1>3. DeliveryOK(k)'
  BY DEF DeliveryOK, Finished
<1> QED
  BY <1>1, <1>2, <1>3 DEF CallOK

LEMMA FinishMoves ==
    ASSUME TypeOK, NEW k \in Calls, NEW p \in Finished, Finish(k, p),
           call[k].req.op \in {"resolve", "retry"} /\ p = "done" /\ faults' = 0 => k \in audit'
    PROVE  OthersStay(k) /\ CallOK(k)'
<1>1. OthersStay(k) /\ call'[k].pc = p /\ call'[k].req = call[k].req
  BY DEF Finish, TypeOK, CallRec, OthersStay
<1> QED
  BY <1>1, AnsweredIsOK

\* The request only reads.
LEMMA ReadingIsFine ==
    ASSUME TypeOK, LinksAreUnique, NoStray, NEW k \in Calls, OthersStay(k), CallOK(k)',
           UNCHANGED <<delivery, escrow, audit, now, faults>>
    PROVE  Fine(k)
<1>1. RestGrows
  BY DEF RestGrows, TypeOK
<1> QED
  BY <1>1, EscrowRests, DeliveryRests DEF Fine

\* recordEscrowFunded
LEMMA FundIsFine ==
    ASSUME TypeOK, LinksAreUnique, NoStray, NEW k \in Calls, CallOK(k), RecordEscrowFunded(k)
    PROVE  Fine(k)
<1> DEFINE r == call[k].req
           e == call[k].seenE
<1>0. r.op = "fund" /\ FundOK(k)
  BY DEF RecordEscrowFunded, FundReadDelivery, FundCancelLapsed, FundRecordLapse,
         FundReadContract, FundCheck, FundWriteEscrow, FundWriteDelivery, FundMilestone, At, CallOK
<1>f. /\ r.d \in Deliveries /\ r.c \in Contracts /\ r.h \in Hashes
      /\ e \in EscrowDoc /\ escrow[r.c] \in EscrowDoc /\ delivery[r.d] \in DeliveryDoc
  BY <1>0, CallFacts, RequestFields DEF TypeOK
<1>p. {"done", "rejected", "failed"} = Finished /\ "fund" \notin {"resolve", "retry"}
  BY DEF Finished
\* Of a fund request, CallOK is FundOK.
<1>c. ASSUME call'[k].req = r, FundOK(k)' PROVE CallOK(k)'
  BY <1>0, <1>c DEF CallOK, SettleOK, AuditOK, DeliveryOK, Locking
<1>1. CASE FundReadDelivery(k)
  <2>1. CASE Finish(k, "rejected")
    <3>1. OthersStay(k) /\ CallOK(k)'
      BY <1>0, <1>p, <2>1, FinishMoves
    <3> QED
      BY <1>1, <3>1, ReadingIsFine DEF FundReadDelivery
  <2>2. CASE FundingWindowLapsed(delivery[r.d]) /\ Goto(k, "lapse")
    <3>1. OthersStay(k) /\ call'[k].pc = "lapse" /\ call'[k].req = r
      BY <2>2, GotoMoves
    <3>2. FundOK(k)'
      BY <1>1, <2>2, <3>1 DEF FundOK, FundReadDelivery, FundingWindowLapsed, Exists
    <3> QED
      BY <1>1, <1>c, <3>1, <3>2, ReadingIsFine DEF FundReadDelivery
  <2>3. CASE GotoSeeingD(k, "read", delivery[r.d])
    <3>1. OthersStay(k) /\ call'[k].pc = "read"
      BY <2>3, SeeingMoves
    <3>2. CallOK(k)'
      BY <3>1, AnsweredIsOK
    <3> QED
      BY <1>1, <3>1, <3>2, ReadingIsFine DEF FundReadDelivery
  <2> QED
    BY <1>1, <2>1, <2>2, <2>3 DEF FundReadDelivery
<1>2. CASE FundCancelLapsed(k)
  <2>1. OthersStay(k) /\ CallOK(k)'
    <3>1. CASE Goto(k, "lapsed")
      BY <3>1, GotoMoves, AnsweredIsOK
    <3>2. CASE Finish(k, "rejected")
      BY <1>0, <1>p, <3>2, FinishMoves
    <3> QED
      BY <1>2, <3>1, <3>2 DEF FundCancelLapsed
  <2>2. delivery[r.d].fundBy <= now
    BY <1>0, <1>2 DEF FundCancelLapsed, At, FundOK
  <2>3. DeliveryFine
    BY <1>2, <1>f, <2>2, CancelLapsedIsFine DEF FundCancelLapsed
  <2>4. UNCHANGED <<escrow, audit, now, faults>>
    BY <1>2 DEF FundCancelLapsed
  <2>5. RestGrows
    BY <2>4 DEF RestGrows, TypeOK
  <2> QED
    BY <2>1, <2>3, <2>4, <2>5, EscrowRests DEF Fine
<1>3. CASE FundRecordLapse(k)
  <2>1. OthersStay(k) /\ CallOK(k)'
    BY <1>0, <1>3, <1>p, FinishMoves DEF FundRecordLapse
  <2>2. UNCHANGED <<delivery, escrow, now>>
    BY <1>3 DEF FundRecordLapse
  <2>3. audit \subseteq audit' /\ (faults' = 0 => faults = 0)
    BY <1>3 DEF FundRecordLapse, RecordLapse, Fault, TypeOK
  <2>4. RestGrows
    BY <2>2, <2>3 DEF RestGrows, TypeOK
  <2> QED
    BY <2>1, <2>2, <2>4, EscrowRests, DeliveryRests DEF Fine
<1>4. CASE FundReadContract(k)
  <2>1. OthersStay(k) /\ call'[k].pc = "read2" /\ call'[k].req = r /\ call'[k].seenE = escrow[r.c]
    BY <1>4, SeeingMoves DEF FundReadContract
  <2>2. FundOK(k)'
    BY <1>4, <2>1 DEF FundOK, FundReadContract, Exists
  <2> QED
    BY <1>4, <1>c, <2>1, <2>2, ReadingIsFine DEF FundReadContract
<1>5. CASE FundCheck(k)
  <2>1. CASE Finish(k, "rejected") \/ Finish(k, "done")
    <3>1. OthersStay(k) /\ CallOK(k)'
      BY <1>0, <1>p, <2>1, FinishMoves
    <3> QED
      BY <1>5, <3>1, ReadingIsFine DEF FundCheck
  <2>2. CASE (Exists(e) => e.of = r.d) /\ Goto(k, "write")
    <3>1. OthersStay(k) /\ call'[k].pc = "write" /\ call'[k].req = r /\ call'[k].seenE = e
      BY <2>2, GotoMoves
    <3>2. FundOK(k)'
      BY <1>0, <1>5, <2>2, <3>1 DEF FundOK, FundCheck, At, Exists
    <3> QED
      BY <1>5, <1>c, <3>1, <3>2, ReadingIsFine DEF FundCheck
  <2> QED
    BY <1>5, <2>1, <2>2 DEF FundCheck
<1>6. CASE FundWriteEscrow(k)
  <2>1. CASE FundConflicts(r, e)
    <3>1. OthersStay(k) /\ CallOK(k)' /\ UNCHANGED <<delivery, escrow, audit, now, faults>>
      BY <1>0, <1>6, <1>p, <2>1, FinishMoves DEF FundWriteEscrow
    <3> QED
      BY <3>1, ReadingIsFine
  <2>2. CASE ~FundConflicts(r, e)
    <3>1. PICK new : new = FundedEscrow(r, e)
      OBVIOUS
    <3>2. /\ new.of = r.d /\ new.status = "locked"
          /\ new.txs = Append(escrow[r.c].txs, [hash |-> r.h, kind |-> "fund"])
      BY <3>1 DEF FundedEscrow
    <3>3. PICK tx \in Tx : tx = [hash |-> r.h, kind |-> "fund"]
      BY <1>f DEF Tx, TxKinds
    <3>4. \A h \in HashesOf(new) : h \in HashesOf(escrow[r.c]) \/ h = r.h
      <4>1. PICK old \in EscrowDoc : old = escrow[r.c]
        BY <1>f
      <4>2. new.txs = Append(old.txs, tx) /\ tx.hash = r.h
        BY <3>2, <3>3, <4>1
      <4> QED
        BY <4>1, <4>2, AppendedHashes
    <3>5. ~HashTakenElsewhere(r.c, r.h)
      BY <2>2 DEF FundConflicts
    <3>6. /\ Exists(escrow[r.c]) => r.d = escrow[r.c].of
          /\ ~Exists(escrow[r.c]) => EscrowsOf(r.d) = {}
      <4>1. CASE Exists(e)
        BY <1>0, <1>6, <4>1 DEF FundOK, FundWriteEscrow, At
      <4>2. CASE ~Exists(e)
        BY <2>2, <4>2 DEF FundConflicts
      <4> QED
        BY <4>1, <4>2
    <3>7. escrow' = [escrow EXCEPT ![r.c] = new]
      BY <1>6, <2>2, <3>1 DEF FundWriteEscrow
    <3>8. WritesEscrow(r.c, new)
      BY <3>2, <3>4, <3>5, <3>6, <3>7 DEF WritesEscrow, Exists
    <3>9. EscrowFine
      BY <1>f, <3>8, WriteIsFine
    <3>10. UNCHANGED <<delivery, audit, now, faults>>
      BY <1>6 DEF FundWriteEscrow
    <3>11. RestGrows
      BY <3>10 DEF RestGrows, TypeOK
    <3>12. OthersStay(k) /\ CallOK(k)'
      <4>1. CASE Finish(k, "done")
        BY <1>0, <1>p, <4>1, FinishMoves
      <4>2. CASE Goto(k, "dwrite")
        <5>1. OthersStay(k) /\ call'[k].pc = "dwrite" /\ call'[k].req = r
          BY <4>2, GotoMoves
        <5>2. escrow'[r.c] = new
          BY <1>f, <3>7 DEF TypeOK
        <5>3. FundOK(k)'
          BY <3>2, <5>1, <5>2 DEF FundOK, Exists
        <5> QED
          BY <1>c, <5>1, <5>3
      <4> QED
        BY <1>6, <2>2, <4>1, <4>2 DEF FundWriteEscrow
    <3> QED
      BY <3>9, <3>10, <3>11, <3>12, DeliveryRests DEF Fine
  <2> QED
    BY <2>1, <2>2
<1>7. CASE FundWriteDelivery(k)
  <2>1. Exists(escrow[r.c]) /\ escrow[r.c].of = r.d
    BY <1>0, <1>7 DEF FundOK, FundWriteDelivery, At
  <2>2. SetStatus(r.d, "funded") /\ "funded" \in DeliveryStatuses \ {"absent"}
    BY <1>7 DEF FundWriteDelivery, DeliveryStatuses
  <2>3. DeliveryFine
    BY <1>f, <2>1, <2>2, SetStatusIsFine
  <2>4. UNCHANGED <<escrow, audit, now, faults>>
    BY <1>7 DEF FundWriteDelivery
  <2>5. RestGrows
    BY <2>4 DEF RestGrows, TypeOK
  <2>6. OthersStay(k) /\ call'[k].pc = "milestone" /\ call'[k].req = r
    BY <1>7, GotoMoves DEF FundWriteDelivery
  <2>7. FundOK(k)'
    BY <2>1, <2>4, <2>6 DEF FundOK, Exists
  <2> QED
    BY <1>c, <2>3, <2>4, <2>5, <2>6, <2>7, EscrowRests DEF Fine
<1>8. CASE FundMilestone(k)
  <2>1. OthersStay(k) /\ CallOK(k)'
    BY <1>0, <1>8, <1>p, FinishMoves DEF FundMilestone
  <2>2. UNCHANGED <<delivery, escrow, audit, now>>
    BY <1>8 DEF FundMilestone
  <2>3. faults' = 0 => faults = 0
    BY <1>8 DEF FundMilestone, EmitMilestone, Fault, TypeOK
  <2>4. RestGrows
    BY <2>2, <2>3 DEF RestGrows, TypeOK
  <2> QED
    BY <2>1, <2>2, <2>4, EscrowRests, DeliveryRests DEF Fine
<1> QED
  BY <1>1, <1>2, <1>3, <1>4, <1>5, <1>6, <1>7, <1>8 DEF RecordEscrowFunded

\* withLock
LEMMA LockIsFine ==
    ASSUME TypeOK, LinksAreUnique, NoStray, NEW k \in Calls, AcquireLock(k) \/ AcquireFails(k)
    PROVE  Fine(k)
<1>1. CASE AcquireLock(k)
  <2>1. OthersStay(k) /\ call'[k].pc = "read"
    BY <1>1 DEF AcquireLock, OthersStay, TypeOK, CallRec
  <2>2. UNCHANGED <<delivery, escrow, audit, now, faults>>
    BY <1>1 DEF AcquireLock
  <2> QED
    BY <2>1, <2>2, AnsweredIsOK, ReadingIsFine
<1>2. CASE AcquireFails(k)
  <2>1. OthersStay(k) /\ CallOK(k)'
    BY <1>2, FinishMoves DEF AcquireFails, Finished
  <2>2. UNCHANGED <<delivery, escrow, audit, now, faults>>
    BY <1>2 DEF AcquireFails
  <2> QED
    BY <2>1, <2>2, ReadingIsFine
<1> QED
  BY <1>1, <1>2

\* An escrow is settled with a transaction no other escrow has.
LEMMA SettlingIsFine ==
    ASSUME TypeOK, LinksAreUnique, NoStray, NEW c \in Contracts, NEW s, NEW tx \in Tx,
           s \notin {"absent", "expired"}, Exists(escrow[c]), ~HashTakenElsewhere(c, tx.hash),
           escrow' = [escrow EXCEPT ![c].status = s, ![c].txs = Append(@, tx)]
    PROVE  EscrowFine
<1>1. escrow[c] \in EscrowDoc
  BY DEF TypeOK
<1>2. PICK t : t = Append(escrow[c].txs, tx)
  OBVIOUS
<1>3. PICK new : new = [escrow[c] EXCEPT !.status = s, !.txs = t]
  OBVIOUS
<1>4. new.status = s /\ new.of = escrow[c].of /\ new.txs = t
  BY <1>1, <1>3 DEF EscrowDoc
<1>5. escrow' = [escrow EXCEPT ![c] = new]
  BY <1>2, <1>3 DEF TypeOK
<1>6. \A h \in HashesOf(new) : h \in HashesOf(escrow[c]) \/ h = tx.hash
  BY <1>1, <1>2, <1>4, AppendedHashes
<1>7. WritesEscrow(c, new)
  BY <1>4, <1>5, <1>6 DEF WritesEscrow, Exists
<1> QED
  BY <1>7, WriteIsFine

\* releaseEscrow
LEMMA ReleaseIsFine ==
    ASSUME TypeOK, LinksAreUnique, NoStray, NEW k \in Calls, CallOK(k), ReleaseEscrow(k)
    PROVE  Fine(k)
<1> DEFINE r == call[k].req
<1>0. r.op = "release" /\ SettleOK(k)
  BY DEF ReleaseEscrow, ReleaseRead, ReleaseAssertProof, ReleaseSave,
         ReleaseReadDelivery, ReleaseWriteDelivery, At, CallOK
<1>f. r.c \in Contracts /\ r.h \in Hashes /\ escrow[r.c] \in EscrowDoc
  BY <1>0, CallFacts, RequestFields DEF TypeOK
<1>p. {"done", "rejected", "failed"} = Finished /\ "release" \notin {"resolve", "retry"}
  BY DEF Finished
<1>c. ASSUME call'[k].req = r, Exists(escrow'[r.c]) PROVE CallOK(k)'
  BY <1>0, <1>c DEF CallOK, FundOK, SettleOK, AuditOK, DeliveryOK, Exists
<1>a. ASSUME NEW p \in Finished, Finish(k, p) PROVE OthersStay(k) /\ CallOK(k)'
  BY <1>0, <1>a, <1>p, FinishMoves
<1>g. ASSUME NEW p, Goto(k, p), Exists(escrow'[r.c]) PROVE OthersStay(k) /\ CallOK(k)'
  BY <1>c, <1>g, GotoMoves
<1>1. CASE ReleaseRead(k)
  <2>1. UNCHANGED <<delivery, escrow, audit, now, faults>>
    BY <1>1 DEF ReleaseRead
  <2>2. OthersStay(k) /\ CallOK(k)'
    <3>1. CASE Finish(k, "done") \/ Finish(k, "rejected")
      BY <1>a, <1>p, <3>1
    <3>2. CASE escrow[r.c].status = "locked" /\ Goto(k, "proof")
      BY <1>g, <2>1, <3>2 DEF Exists
    <3> QED
      BY <1>1, <3>1, <3>2 DEF ReleaseRead
  <2> QED
    BY <2>1, <2>2, ReadingIsFine
<1>2. CASE ReleaseAssertProof(k)
  <2>1. UNCHANGED <<delivery, escrow, audit, now, faults>> /\ Exists(escrow[r.c])
    BY <1>0, <1>2 DEF ReleaseAssertProof, At, SettleOK, Locking
  <2>2. Goto(k, "write") \/ Finish(k, "rejected")
    BY <1>2 DEF ReleaseAssertProof
  <2>3. OthersStay(k) /\ CallOK(k)'
    BY <1>a, <1>g, <1>p, <2>1, <2>2
  <2> QED
    BY <2>1, <2>3, ReadingIsFine
<1>3. CASE ReleaseSave(k)
  <2>0. Exists(escrow[r.c]) /\ UNCHANGED <<delivery, audit, now, faults>>
    BY <1>0, <1>3 DEF ReleaseSave, At, SettleOK, Locking
  <2>1. CASE HashTakenElsewhere(r.c, r.h)
    <3>1. Finish(k, "failed") /\ UNCHANGED escrow
      BY <1>3, <2>1 DEF ReleaseSave
    <3> QED
      BY <1>a, <1>p, <2>0, <3>1, ReadingIsFine
  <2>2. CASE ~HashTakenElsewhere(r.c, r.h)
    <3>1. PICK tx \in Tx : tx = [hash |-> r.h, kind |-> "release"]
      BY <1>f DEF Tx, TxKinds
    <3>h. tx.hash = r.h /\ "released" \notin {"absent", "expired"}
      BY <3>1
    <3>2. /\ escrow' = [escrow EXCEPT ![r.c].status = "released", ![r.c].txs = Append(@, tx)]
          /\ Goto(k, "dread")
      BY <1>3, <2>2, <3>1 DEF ReleaseSave
    <3>3. EscrowFine
      BY <1>f, <2>0, <2>2, <3>h, <3>2, SettlingIsFine
    <3>4. Exists(escrow'[r.c])
      BY <1>f, <2>0, <3>3 DEF EscrowFine, EscrowGrows, Exists
    <3>5. OthersStay(k) /\ CallOK(k)'
      BY <1>g, <3>2, <3>4
    <3>6. RestGrows
      BY <2>0 DEF RestGrows, TypeOK
    <3> QED
      BY <2>0, <3>3, <3>5, <3>6, DeliveryRests DEF Fine
  <2> QED
    BY <2>1, <2>2
<1>4. CASE ReleaseReadDelivery(k)
  <2>1. UNCHANGED <<delivery, escrow, audit, now, faults>> /\ Exists(escrow[r.c])
    BY <1>0, <1>4 DEF ReleaseReadDelivery, At, SettleOK, Locking
  <2>2. Goto(k, "dwrite") \/ Finish(k, "done")
    BY <1>4 DEF ReleaseReadDelivery
  <2>3. OthersStay(k) /\ CallOK(k)'
    BY <1>a, <1>g, <1>p, <2>1, <2>2
  <2> QED
    BY <2>1, <2>3, ReadingIsFine
<1>5. CASE ReleaseWriteDelivery(k)
  <2>1. SetStatus(escrow[r.c].of, "completed") /\ "completed" \in DeliveryStatuses \ {"absent"}
    BY <1>5 DEF ReleaseWriteDelivery, DeliveryStatuses
  <2>2. DeliveryFine
    BY <1>f, <2>1, SetStatusIsFine
  <2>3. UNCHANGED <<escrow, audit, now, faults>> /\ Finish(k, "done")
    BY <1>5 DEF ReleaseWriteDelivery
  <2>4. RestGrows
    BY <2>3 DEF RestGrows, TypeOK
  <2> QED
    BY <1>a, <1>p, <2>2, <2>3, <2>4, EscrowRests DEF Fine
<1> QED
  BY <1>1, <1>2, <1>3, <1>4, <1>5 DEF ReleaseEscrow

\* An existing escrow is written with the links and the transactions it has.
LEMMA RewritingIsFine ==
    ASSUME TypeOK, LinksAreUnique, NoStray, NEW c \in Contracts, NEW new, Exists(escrow[c]),
           new.of = escrow[c].of, new.txs = escrow[c].txs,
           new.status \notin {"absent", "expired"} \/ new.status = escrow[c].status,
           escrow' = [escrow EXCEPT ![c] = new]
    PROVE  EscrowFine
<1>1. HashesOf(new) = HashesOf(escrow[c])
  BY DEF HashesOf
<1>2. WritesEscrow(c, new)
  BY <1>1 DEF WritesEscrow, Exists
<1> QED
  BY <1>2, WriteIsFine

\* resolveEscrow and retryExpiredEscrow
LEMMA AdminIsFine ==
    ASSUME TypeOK, LinksAreUnique, NoStray, NEW k \in Calls, CallOK(k),
           ResolveEscrow(k) \/ RetryExpiredEscrow(k)
    PROVE  Fine(k)
<1> DEFINE r == call[k].req
<1>0. r.op \in {"resolve", "retry"} /\ SettleOK(k)
  BY DEF ResolveEscrow, RetryExpiredEscrow, AdminRead, ResolveSave, RetrySave,
         ApplyRead, ApplyWrite, AdminAudit, At, CallOK
<1>f. r \in Request /\ r.c \in Contracts /\ escrow[r.c] \in EscrowDoc
  BY <1>0, CallFacts, RequestFields DEF TypeOK
<1>c. ASSUME call'[k].req = r, call'[k].pc # "done", Exists(escrow'[r.c]) PROVE CallOK(k)'
  BY <1>0, <1>c DEF CallOK, FundOK, SettleOK, AuditOK, DeliveryOK, Exists
<1>g. ASSUME NEW p \in {"write", "dread", "dwrite", "audit"}, Goto(k, p), Exists(escrow'[r.c])
      PROVE  OthersStay(k) /\ CallOK(k)'
  BY <1>c, <1>g, GotoMoves
<1>1. ASSUME NEW op, AdminRead(k, op) PROVE Fine(k)
  <2>1. UNCHANGED <<delivery, escrow, audit, now, faults>>
    BY <1>1 DEF AdminRead
  <2>2. CASE Finish(k, "rejected")
    <3>1. OthersStay(k) /\ CallOK(k)'
      BY <2>2, FinishMoves DEF Finished
    <3> QED
      BY <2>1, <3>1, ReadingIsFine
  <2>3. CASE AdminMayAct(op, escrow[r.c].status) /\ GotoSeeingE(k, "write", escrow[r.c])
    <3>1. OthersStay(k) /\ call'[k].pc = "write" /\ call'[k].req = r
      BY <2>3, SeeingMoves
    <3>2. Exists(escrow'[r.c])
      BY <2>1, <2>3 DEF Exists, AdminMayAct, RESOLVABLE_STATUSES
    <3> QED
      BY <1>c, <2>1, <3>1, <3>2, ReadingIsFine
  <2> QED
    BY <1>1, <2>2, <2>3 DEF AdminRead
<1>w. ASSUME NEW new, NEW p \in {"audit", "dread"}, new.of = escrow[r.c].of,
             new.txs = escrow[r.c].txs, Exists(escrow[r.c]),
             new.status \notin {"absent", "expired"} \/ new.status = escrow[r.c].status,
             escrow' = [escrow EXCEPT ![r.c] = new], Goto(k, p),
             UNCHANGED <<delivery, audit, now, faults>>
      PROVE  Fine(k)
  <2>1. EscrowFine
    BY <1>f, <1>w, RewritingIsFine
  <2>2. Exists(escrow'[r.c])
    BY <1>f, <1>w, <2>1 DEF EscrowFine, EscrowGrows, Exists
  <2>3. RestGrows
    BY <1>w DEF RestGrows, TypeOK
  <2>4. OthersStay(k) /\ CallOK(k)'
    BY <1>g, <1>w, <2>2
  <2> QED
    BY <1>w, <2>1, <2>3, <2>4, DeliveryRests DEF Fine
<1>2. CASE ResolveSave(k)
  <2>1. r.choice \in {"release_to_driver", "refund_to_payer", "keep_locked"}
    BY <1>2, <1>f, RequestFields DEF ResolveSave, At, Resolutions
  <2>2. PICK new : new = ResolvedEscrow(escrow[r.c], r.choice, call[k].seenE)
    OBVIOUS
  <2>3. PICK x : x = now + TTL
    OBVIOUS
  <2>4. /\ new.of = escrow[r.c].of /\ new.txs = escrow[r.c].txs
        /\ new.status \in {"released", "refunded", "locked", escrow[r.c].status}
    BY <1>f, <2>1, <2>2, <2>3 DEF ResolvedEscrow, ComputeExpiresAt, EscrowDoc
  <2>5. escrow' = [escrow EXCEPT ![r.c] = new]
    BY <1>2, <2>2 DEF ResolveSave
  <2>6. UNCHANGED <<delivery, audit, now, faults>> /\ Exists(escrow[r.c])
    BY <1>0, <1>2 DEF ResolveSave, At, SettleOK, Locking
  <2>7. PICK p \in {"audit", "dread"} : Goto(k, p)
    BY <1>2 DEF ResolveSave
  <2> QED
    BY <1>w, <2>4, <2>5, <2>6, <2>7
<1>3. CASE RetrySave(k)
  <2>2. PICK new : new = RetriedEscrow(escrow[r.c], r.choice)
    OBVIOUS
  <2>3. PICK x : x = now + TTL
    OBVIOUS
  <2>4. /\ new.of = escrow[r.c].of /\ new.txs = escrow[r.c].txs
        /\ new.status \in {"locked", "resolved"}
    BY <1>f, <2>2, <2>3 DEF RetriedEscrow, ComputeExpiresAt, EscrowDoc
  <2>5. escrow' = [escrow EXCEPT ![r.c] = new]
    BY <1>3, <2>2 DEF RetrySave
  <2>6. UNCHANGED <<delivery, audit, now, faults>> /\ Exists(escrow[r.c]) /\ Goto(k, "dread")
    BY <1>0, <1>3 DEF RetrySave, At, SettleOK, Locking
  <2> QED
    BY <1>w, <2>4, <2>5, <2>6
<1>4. ASSUME NEW op \in {"resolve", "retry"}, ApplyRead(k, op) PROVE Fine(k)
  <2>1. UNCHANGED <<delivery, escrow, audit, now, faults>> /\ Exists(escrow[r.c])
    BY <1>0, <1>4 DEF ApplyRead, At, SettleOK, Locking
  <2>2. PICK p \in {"audit", "dwrite"} : Goto(k, p)
    BY <1>4 DEF ApplyRead
  <2>3. OthersStay(k) /\ CallOK(k)'
    BY <1>g, <2>1, <2>2
  <2> QED
    BY <2>1, <2>3, ReadingIsFine
<1>5. ASSUME NEW op \in {"resolve", "retry"}, ApplyWrite(k, op) PROVE Fine(k)
  <2>1. DeliveryStatusFor(r) \in DeliveryStatuses \ {"absent"}
    BY DEF DeliveryStatusFor, DeliveryStatuses
  <2>2. SetStatus(escrow[r.c].of, DeliveryStatusFor(r))
    BY <1>5 DEF ApplyWrite
  <2>3. DeliveryFine
    BY <1>f, <2>1, <2>2, SetStatusIsFine
  <2>4. UNCHANGED <<escrow, audit, now, faults>> /\ Goto(k, "audit") /\ Exists(escrow[r.c])
    BY <1>0, <1>5 DEF ApplyWrite, At, SettleOK, Locking
  <2>5. RestGrows
    BY <2>4 DEF RestGrows, TypeOK
  <2>6. OthersStay(k) /\ CallOK(k)'
    BY <1>g, <2>4
  <2> QED
    BY <2>3, <2>4, <2>5, <2>6, EscrowRests DEF Fine
<1>6. ASSUME NEW op \in {"resolve", "retry"}, AdminAudit(k, op) PROVE Fine(k)
  <2>1. /\ audit \subseteq audit' /\ (faults' = 0 => faults = 0)
        /\ faults' = 0 => k \in audit'
    BY <1>6 DEF AdminAudit, WriteAuditLog, Fault, TypeOK
  <2>2. OthersStay(k) /\ CallOK(k)'
    BY <1>6, <2>1, FinishMoves DEF AdminAudit, Finished
  <2>3. UNCHANGED <<delivery, escrow, now>>
    BY <1>6 DEF AdminAudit
  <2>4. RestGrows
    BY <2>1, <2>3 DEF RestGrows, TypeOK
  <2> QED
    BY <2>2, <2>3, <2>4, EscrowRests, DeliveryRests DEF Fine
<1> QED
  BY <1>1, <1>2, <1>3, <1>4, <1>5, <1>6 DEF ResolveEscrow, RetryExpiredEscrow

\* The indexer's settlement events
LEMMA ChainIsFine ==
    ASSUME TypeOK, LinksAreUnique, NoStray, NEW k \in Calls, HandleSettlementEvent(k)
    PROVE  Fine(k)
<1> DEFINE r == call[k].req
<1>0. r.op = "chain"
  BY DEF HandleSettlementEvent, ChainFind, ChainSettle, At
<1>f. r.c \in Contracts /\ r.h \in Hashes /\ r.to \in {"released", "refunded"}
  BY <1>0, CallFacts, RequestFields DEF TypeOK
<1>a. ASSUME NEW p \in {"done", "failed"}, Finish(k, p) PROVE OthersStay(k) /\ CallOK(k)'
  BY <1>0, <1>a, FinishMoves DEF Finished
<1>1. CASE ChainFind(k)
  <2>1. UNCHANGED <<delivery, escrow, audit, now, faults>>
    BY <1>1 DEF ChainFind
  <2>2. CASE Finish(k, "done")
    BY <1>a, <2>1, <2>2, ReadingIsFine
  <2>3. CASE Goto(k, "write")
    <3>1. OthersStay(k) /\ call'[k].req = r
      BY <2>3, GotoMoves
    <3>2. CallOK(k)'
      BY <1>0, <3>1 DEF CallOK, FundOK, SettleOK, AuditOK, DeliveryOK, Locking
    <3> QED
      BY <2>1, <3>1, <3>2, ReadingIsFine
  <2> QED
    BY <1>1, <2>2, <2>3 DEF ChainFind
<1>2. CASE ChainSettle(k)
  <2>0. UNCHANGED <<delivery, audit, now, faults>>
    BY <1>2 DEF ChainSettle
  <2>1. CASE UNCHANGED escrow
    <3>1. OthersStay(k) /\ CallOK(k)'
      BY <1>2, <1>a DEF ChainSettle
    <3> QED
      BY <2>0, <2>1, <3>1, ReadingIsFine
  <2>2. CASE escrow' # escrow
    <3>1. PICK kind \in TxKinds : kind = IF r.to = "released" THEN "release" ELSE "refund"
      BY DEF TxKinds
    <3>2. PICK tx \in Tx : tx = [hash |-> r.h, kind |-> kind]
      BY <1>f DEF Tx
    <3>h. tx.hash = r.h
      BY <3>2
    <3>3. /\ Exists(escrow[r.c]) /\ ~HashTakenElsewhere(r.c, r.h) /\ Finish(k, "done")
          /\ escrow' = [escrow EXCEPT ![r.c].status = r.to, ![r.c].txs = Append(@, tx)]
      BY <1>2, <2>2, <3>1, <3>2 DEF ChainSettle
    <3>4. EscrowFine
      BY <1>f, <3>h, <3>3, SettlingIsFine
    <3>5. RestGrows
      BY <2>0 DEF RestGrows, TypeOK
    <3> QED
      BY <1>a, <2>0, <3>3, <3>4, <3>5, DeliveryRests DEF Fine
  <2> QED
    BY <2>1, <2>2
<1> QED
  BY <1>1, <1>2 DEF HandleSettlementEvent

\* One delivery document is written.
LEMMA WriteDeliveryIsFine ==
    ASSUME TypeOK, NEW d \in Deliveries, NEW new, delivery' = [delivery EXCEPT ![d] = new],
           Exists(delivery[d]) => /\ Exists(new) /\ new.fundBy = delivery[d].fundBy
                                  /\ new.logged => delivery[d].logged,
           new.lapsed => delivery[d].lapsed,
           \/ \E c \in Contracts : escrow[c].of = d
           \/ new.status = delivery[d].status
           \/ new.status \in DeliveryMoves[delivery[d].status]
    PROVE  DeliveryFine
<1>1. delivery'[d] = new /\ \A x \in Deliveries : x # d => delivery'[x] = delivery[x]
  BY DEF TypeOK
<1>2. DeliveryGrows
  BY <1>1 DEF DeliveryGrows, Exists
<1>3. LapsesRight
  BY <1>1 DEF LapsesRight
<1>4. MovesRight
  BY <1>1 DEF MovesRight
<1> QED
  BY <1>2, <1>3, <1>4 DEF DeliveryFine

\* create, updateStatus, assignDriver and their milestone
LEMMA DeliveryIsFine ==
    ASSUME TypeOK, LinksAreUnique, NoStray, NEW k \in Calls, CallOK(k),
           \/ CreateDelivery(k) \/ UpdateStatus(k) \/ AssignDriver(k)
           \/ \E op \in {"create", "status", "assign"} : DeliveryMilestone(k, op)
    PROVE  Fine(k)
<1> DEFINE r == call[k].req
<1>0. r.op \in {"create", "status", "assign"} /\ DeliveryOK(k)
  BY DEF CreateDelivery, CreateCheck, CreateWrite, UpdateStatus, StatusCheck,
         StatusAssertProof, StatusWrite, AssignDriver, AssignReadDelivery,
         AssignReadEscrow, AssignSave, DeliveryMilestone, At, CallOK
<1>f. /\ r.d \in Deliveries /\ delivery[r.d] \in DeliveryDoc
      /\ delivery[r.d].status \in DeliveryStatuses
  BY <1>0, CallFacts, RequestFields DEF TypeOK, DeliveryDoc
<1>a. ASSUME NEW p \in {"done", "rejected", "failed"}, Finish(k, p)
      PROVE  OthersStay(k) /\ CallOK(k)'
  BY <1>0, <1>a, FinishMoves DEF Finished
<1>c. ASSUME call'[k].req = r, DeliveryOK(k)' PROVE CallOK(k)'
  BY <1>0, <1>c DEF CallOK, FundOK, SettleOK, AuditOK, Locking
<1>m. ASSUME Goto(k, "milestone") PROVE OthersStay(k) /\ CallOK(k)'
  BY <1>c, <1>m, GotoMoves DEF DeliveryOK
<1>r. ASSUME UNCHANGED <<escrow, audit, now, faults>> PROVE EscrowFine /\ RestGrows
  BY <1>r, EscrowRests DEF RestGrows, TypeOK
<1>1. CASE CreateCheck(k)
  <2>1. UNCHANGED <<delivery, escrow, audit, now, faults>>
    BY <1>1 DEF CreateCheck
  <2>2. CASE Finish(k, "rejected")
    BY <1>a, <2>1, <2>2, ReadingIsFine
  <2>3. CASE Goto(k, "write")
    <3>1. OthersStay(k) /\ call'[k].req = r /\ r.op = "create"
      BY <1>1, <2>3, GotoMoves DEF CreateCheck, At
    <3>2. DeliveryOK(k)'
      BY <3>1 DEF DeliveryOK
    <3> QED
      BY <1>c, <2>1, <3>1, <3>2, ReadingIsFine
  <2> QED
    BY <1>1, <2>2, <2>3 DEF CreateCheck
<1>2. CASE CreateWrite(k)
  <2>0. UNCHANGED <<escrow, audit, now, faults>>
    BY <1>2 DEF CreateWrite
  <2>1. CASE Exists(delivery[r.d])
    <3>1. Finish(k, "failed") /\ UNCHANGED delivery
      BY <1>2, <2>1 DEF CreateWrite
    <3> QED
      BY <1>a, <2>0, <3>1, ReadingIsFine
  <2>2. CASE ~Exists(delivery[r.d])
    <3>1. PICK by : by = IF r.escrowed THEN now + FundWindow ELSE 0
      OBVIOUS
    <3>2. PICK new : new = [NoDelivery EXCEPT !.status = "pending", !.escrowed = r.escrowed,
                                              !.fundBy = by]
      OBVIOUS
    <3>3. new.status = "pending" /\ new.lapsed = FALSE
      BY <3>2 DEF NoDelivery
    <3>4. delivery' = [delivery EXCEPT ![r.d] = new] /\ Goto(k, "milestone")
      BY <1>2, <2>2, <3>1, <3>2 DEF CreateWrite
    <3>5. delivery[r.d].status = "absent"
      BY <2>2 DEF Exists
    <3>6. DeliveryFine
      BY <1>f, <2>2, <3>3, <3>4, <3>5, SomeMoves, WriteDeliveryIsFine
    <3> QED
      BY <1>m, <1>r, <2>0, <3>4, <3>6 DEF Fine
  <2> QED
    BY <2>1, <2>2
<1>3. CASE StatusCheck(k)
  <2>1. UNCHANGED <<delivery, escrow, audit, now, faults>>
    BY <1>3 DEF StatusCheck
  <2>2. CASE Finish(k, "rejected")
    BY <1>a, <2>1, <2>2, ReadingIsFine
  <2>3. CASE /\ r.to \in ALLOWED_TRANSITIONS[delivery[r.d].status]
             /\ GotoSeeingD(k, IF r.to = "completed" THEN "proof" ELSE "write", delivery[r.d])
    <3>1. OthersStay(k) /\ call'[k].req = r /\ call'[k].seenD = delivery[r.d]
      BY <2>3, SeeingMoves
    <3>2. r.op = "status"
      BY <1>3 DEF StatusCheck, At
    <3>3. DeliveryOK(k)'
      BY <2>3, <3>1, <3>2 DEF DeliveryOK
    <3> QED
      BY <1>c, <2>1, <3>1, <3>3, ReadingIsFine
  <2> QED
    BY <1>3, <2>2, <2>3 DEF StatusCheck
<1>4. CASE StatusAssertProof(k)
  <2>1. UNCHANGED <<delivery, escrow, audit, now, faults>>
    BY <1>4 DEF StatusAssertProof
  <2>2. CASE Finish(k, "rejected")
    BY <1>a, <2>1, <2>2, ReadingIsFine
  <2>3. CASE Goto(k, "write")
    <3>1. OthersStay(k) /\ call'[k].req = r /\ call'[k].seenD = call[k].seenD
      BY <2>3, GotoMoves
    <3>2. r.op = "status" /\ call[k].pc = "proof"
      BY <1>4 DEF StatusAssertProof, At
    <3>3. DeliveryOK(k)'
      BY <1>0, <3>1, <3>2 DEF DeliveryOK
    <3> QED
      BY <1>c, <2>1, <3>1, <3>3, ReadingIsFine
  <2> QED
    BY <1>4, <2>2, <2>3 DEF StatusAssertProof
<1>5. CASE StatusWrite(k)
  <2>0. UNCHANGED <<escrow, audit, now, faults>>
    BY <1>5 DEF StatusWrite
  <2>1. CASE delivery[r.d].status = call[k].seenD.status
    <3>1. r.to \in ALLOWED_TRANSITIONS[delivery[r.d].status]
      BY <1>0, <1>5, <2>1 DEF DeliveryOK, StatusWrite, At
    <3>2. r.to \in DeliveryMoves[delivery[r.d].status] /\ r.to # "absent"
      BY <1>f, <3>1, SomeMoves DEF ALLOWED_TRANSITIONS, DeliveryStatuses
    <3>3. PICK new : new = [delivery[r.d] EXCEPT !.status = r.to]
      OBVIOUS
    <3>4. /\ new.status = r.to /\ new.fundBy = delivery[r.d].fundBy
          /\ new.lapsed = delivery[r.d].lapsed /\ new.logged = delivery[r.d].logged
      BY <1>f, <3>3 DEF DeliveryDoc
    <3>5. delivery' = [delivery EXCEPT ![r.d] = new] /\ Goto(k, "milestone")
      BY <1>5, <2>1, <3>3 DEF StatusWrite, MoveStatus, SetStatus, TypeOK
    <3>6. DeliveryFine
      BY <1>f, <3>2, <3>4, <3>5, WriteDeliveryIsFine DEF Exists
    <3> QED
      BY <1>m, <1>r, <2>0, <3>5, <3>6 DEF Fine
  <2>2. CASE delivery[r.d].status # call[k].seenD.status
    <3>1. UNCHANGED delivery /\ Finish(k, "rejected")
      BY <1>5, <2>2 DEF StatusWrite, MoveStatus
    <3> QED
      BY <1>a, <2>0, <3>1, ReadingIsFine
  <2> QED
    BY <2>1, <2>2
<1>6. CASE AssignReadDelivery(k)
  <2>1. UNCHANGED <<delivery, escrow, audit, now, faults>>
    BY <1>6 DEF AssignReadDelivery
  <2>2. CASE Finish(k, "rejected")
    BY <1>a, <2>1, <2>2, ReadingIsFine
  <2>3. CASE GotoSeeingD(k, "read", delivery[r.d])
    <3>1. OthersStay(k) /\ call'[k].pc = "read"
      BY <2>3, SeeingMoves
    <3> QED
      BY <2>1, <3>1, AnsweredIsOK, ReadingIsFine
  <2> QED
    BY <1>6, <2>2, <2>3 DEF AssignReadDelivery
<1>7. CASE AssignReadEscrow(k)
  <2>1. UNCHANGED <<delivery, escrow, audit, now, faults>>
    BY <1>7 DEF AssignReadEscrow
  <2>2. CASE Finish(k, "rejected")
    BY <1>a, <2>1, <2>2, ReadingIsFine
  <2>3. CASE (\E c \in EscrowsOf(r.d) : escrow[c].status = "locked") /\ Goto(k, "write")
    <3>1. OthersStay(k) /\ call'[k].req = r /\ r.op = "assign"
      BY <1>7, <2>3, GotoMoves DEF AssignReadEscrow, At
    <3>2. EscrowsOf(r.d)' # {}
      BY <2>1, <2>3, <3>1 DEF EscrowsOf, Exists
    <3>3. DeliveryOK(k)'
      BY <3>1, <3>2 DEF DeliveryOK, EscrowsOf, Exists
    <3> QED
      BY <1>c, <2>1, <3>1, <3>3, ReadingIsFine
  <2> QED
    BY <1>7, <2>2, <2>3 DEF AssignReadEscrow
<1>8. CASE AssignSave(k)
  <2>1. UNCHANGED <<escrow, audit, now, faults>> /\ Goto(k, "milestone")
    BY <1>8 DEF AssignSave
  <2>2. \E c \in Contracts : escrow[c].of = r.d
    BY <1>0, <1>8 DEF DeliveryOK, AssignSave, At, EscrowsOf
  <2>3. PICK new : new = [delivery[r.d] EXCEPT !.status = "assigned", !.driver = r.drv]
    OBVIOUS
  <2>4. /\ new.status = "assigned" /\ new.fundBy = delivery[r.d].fundBy
        /\ new.lapsed = delivery[r.d].lapsed /\ new.logged = delivery[r.d].logged
    BY <1>f, <2>3 DEF DeliveryDoc
  <2>5. delivery' = [delivery EXCEPT ![r.d] = new]
    BY <1>8, <2>3 DEF AssignSave, TypeOK
  <2>6. DeliveryFine
    BY <1>f, <2>2, <2>4, <2>5, WriteDeliveryIsFine DEF Exists
  <2> QED
    BY <1>m, <1>r, <2>1, <2>6 DEF Fine
<1>9. ASSUME NEW op \in {"create", "status", "assign"}, DeliveryMilestone(k, op)
      PROVE  Fine(k)
  <2>1. OthersStay(k) /\ CallOK(k)'
    BY <1>9, <1>a DEF DeliveryMilestone
  <2>2. UNCHANGED <<delivery, escrow, audit, now>>
    BY <1>9 DEF DeliveryMilestone
  <2>3. faults' = 0 => faults = 0
    <3>1. faults \in Nat /\ (faults' = faults \/ faults' = faults + 1)
      BY <1>9 DEF DeliveryMilestone, EmitMilestone, Fault, TypeOK
    <3> QED
      BY <3>1
  <2>4. RestGrows
    BY <2>2, <2>3 DEF RestGrows, TypeOK
  <2> QED
    BY <2>1, <2>2, <2>4, EscrowRests, DeliveryRests DEF Fine
<1> QED
  BY <1>1, <1>2, <1>3, <1>4, <1>5, <1>6, <1>7, <1>8, <1>9
     DEF CreateDelivery, UpdateStatus, AssignDriver

\* uploadProofOfDelivery, archive and restore
LEMMA PathIsFine ==
    ASSUME TypeOK, LinksAreUnique, NoStray, NEW k \in Calls,
           UploadProofOfDelivery(k) \/ ArchiveDelivery(k) \/ RestoreDelivery(k)
    PROVE  Fine(k)
<1> DEFINE r == call[k].req
<1>0. r.op \in {"proof", "archive", "restore"}
  BY DEF UploadProofOfDelivery, ProofCheck, ProofSave, ArchiveDelivery, RestoreDelivery,
         ArchiveCheck, ArchiveSave, At
<1>f. r.d \in Deliveries /\ delivery[r.d] \in DeliveryDoc
  BY <1>0, CallFacts, RequestFields DEF TypeOK
<1>a. ASSUME NEW p \in {"done", "rejected"}, Finish(k, p) PROVE OthersStay(k) /\ CallOK(k)'
  BY <1>0, <1>a, FinishMoves DEF Finished
<1>g. ASSUME Goto(k, "write") PROVE OthersStay(k) /\ CallOK(k)'
  <2>1. OthersStay(k) /\ call'[k].req = r
    BY <1>g, GotoMoves
  <2> QED
    BY <1>0, <2>1 DEF CallOK, FundOK, SettleOK, AuditOK, DeliveryOK, Locking
<1>r. ASSUME UNCHANGED <<escrow, audit, now, faults>> PROVE EscrowFine /\ RestGrows
  BY <1>r, EscrowRests DEF RestGrows, TypeOK
<1>1. CASE ProofCheck(k) \/ \E op \in {"archive", "restore"} : ArchiveCheck(k, op)
  <2>1. UNCHANGED <<delivery, escrow, audit, now, faults>>
    BY <1>1 DEF ProofCheck, ArchiveCheck
  <2>2. Goto(k, "write") \/ Finish(k, "rejected")
    BY <1>1 DEF ProofCheck, ArchiveCheck
  <2> QED
    BY <1>a, <1>g, <2>1, <2>2, ReadingIsFine
<1>2. CASE ProofSave(k)
  <2>1. UNCHANGED <<escrow, audit, now, faults>> /\ Finish(k, "done")
    BY <1>2 DEF ProofSave
  <2>2. PICK new : new = [delivery[r.d] EXCEPT !.proof = TRUE]
    OBVIOUS
  <2>3. /\ new.status = delivery[r.d].status /\ new.fundBy = delivery[r.d].fundBy
        /\ new.lapsed = delivery[r.d].lapsed /\ new.logged = delivery[r.d].logged
    BY <1>f, <2>2 DEF DeliveryDoc
  <2>4. delivery' = [delivery EXCEPT ![r.d] = new]
    BY <1>2, <2>2 DEF ProofSave, TypeOK
  <2>5. DeliveryFine
    BY <1>f, <2>3, <2>4, WriteDeliveryIsFine DEF Exists
  <2> QED
    BY <1>a, <1>r, <2>1, <2>5 DEF Fine
<1>3. ASSUME NEW op \in {"archive", "restore"}, ArchiveSave(k, op) PROVE Fine(k)
  <2>1. UNCHANGED <<escrow, audit, now, faults>> /\ Finish(k, "done")
    BY <1>3 DEF ArchiveSave
  <2>2. PICK b \in BOOLEAN : delivery' = [delivery EXCEPT ![r.d].archived = b]
    BY <1>3, Zenon DEF ArchiveSave
  <2>3. PICK new : new = [delivery[r.d] EXCEPT !.archived = b]
    OBVIOUS
  <2>4. /\ new.status = delivery[r.d].status /\ new.fundBy = delivery[r.d].fundBy
        /\ new.lapsed = delivery[r.d].lapsed /\ new.logged = delivery[r.d].logged
    BY <1>f, <2>3 DEF DeliveryDoc
  <2>5. delivery' = [delivery EXCEPT ![r.d] = new]
    BY <2>2, <2>3 DEF TypeOK
  <2>6. DeliveryFine
    BY <1>f, <2>4, <2>5, WriteDeliveryIsFine DEF Exists
  <2> QED
    BY <1>a, <1>r, <2>1, <2>6 DEF Fine
<1> QED
  BY <1>1, <1>2, <1>3 DEF UploadProofOfDelivery, ArchiveDelivery, RestoreDelivery

\* update, and the insert of a bulk import
LEMMA EditIsFine ==
    ASSUME TypeOK, LinksAreUnique, NoStray, NEW k \in Calls, UpdateDelivery(k) \/ ImportDelivery(k)
    PROVE  Fine(k)
<1> DEFINE r == call[k].req
<1>0. r.op \in {"update", "import"} /\ At(k, r.op, "start")
  BY DEF UpdateDelivery, ImportDelivery, At
<1>x. PICK x \in Deliveries : x = r.d
  BY <1>0, CallFacts, RequestFields
<1>1. PICK p \in {"done", "rejected"} : Finish(k, p)
  BY DEF UpdateDelivery, ImportDelivery
<1>2. OthersStay(k) /\ CallOK(k)'
  BY <1>0, <1>1, FinishMoves DEF Finished
<1>3. EscrowFine /\ RestGrows
  <2>1. UNCHANGED <<escrow, audit, now, faults>>
    BY DEF UpdateDelivery, ImportDelivery
  <2> QED
    BY <2>1, EscrowRests DEF RestGrows, TypeOK
<1>4. CASE UNCHANGED delivery
  BY <1>2, <1>3, <1>4, DeliveryRests DEF Fine
<1>5. CASE UpdateDelivery(k) /\ Exists(delivery[x])
  <2>1. /\ delivery' = [delivery EXCEPT ![x].status = r.to, ![x].logged = FALSE]
        /\ Finish(k, "done") /\ r.op = "update"
    BY <1>5, <1>x DEF UpdateDelivery, At
  <2>2. r.to # "absent"
    BY <2>1, CallFacts, RequestFields
  <2>3. \A d \in Deliveries \ {x} : delivery'[d] = delivery[d]
    BY <2>1 DEF TypeOK
  <2>4. /\ delivery'[x].status = r.to /\ delivery'[x].fundBy = delivery[x].fundBy
        /\ delivery'[x].lapsed = delivery[x].lapsed /\ delivery'[x].logged = FALSE
    BY <2>1 DEF TypeOK, DeliveryDoc
  <2>5. Edits(x)
    <3>1. call'[k].pc = "done"
      BY <2>1 DEF Finish, TypeOK
    <3> QED
      BY <1>0, <1>x, <2>1, <3>1 DEF Edits
  <2>6. DeliveryGrows
    BY <2>2, <2>3, <2>4 DEF DeliveryGrows, Exists
  <2>7. LapsesRight
    BY <2>3, <2>4 DEF LapsesRight
  <2>8. MovesRight
    BY <2>3, <2>5 DEF MovesRight
  <2> QED
    BY <1>2, <1>3, <2>6, <2>7, <2>8 DEF Fine, DeliveryFine
<1>6. CASE ImportDelivery(k) /\ ~Exists(delivery[x])
  <2>1. PICK new : new = [NoDelivery EXCEPT !.status = "pending", !.logged = FALSE]
    OBVIOUS
  <2>2. delivery' = [delivery EXCEPT ![x] = new]
    BY <1>6, <1>x, <2>1 DEF ImportDelivery
  <2>3. \A d \in Deliveries \ {x} : delivery'[d] = delivery[d]
    BY <2>2 DEF TypeOK
  <2>4. delivery'[x].status = "pending" /\ delivery'[x].lapsed = FALSE
    BY <2>1, <2>2 DEF TypeOK, NoDelivery
  <2>5. DeliveryGrows
    BY <1>6, <2>3 DEF DeliveryGrows, Exists
  <2>6. LapsesRight
    BY <2>3, <2>4 DEF LapsesRight
  <2>7. MovesRight
    BY <1>6, <2>3, <2>4, SomeMoves DEF MovesRight, Exists
  <2> QED
    BY <1>2, <1>3, <2>5, <2>6, <2>7 DEF Fine, DeliveryFine
<1> QED
  BY <1>x, <1>4, <1>5, <1>6 DEF UpdateDelivery, ImportDelivery

\* What is asked of a request or a monitor that rests survives what the others do.
LEMMA RestingCall ==
    ASSUME TypeOK, TypeOK', NEW k \in Calls, CallOK(k), call'[k] = call[k],
           EscrowGrows, DeliveryGrows, RestGrows
    PROVE  CallOK(k)'
<1> DEFINE r == call[k].req
<1>0. r \in Request /\ FundOK(k) /\ SettleOK(k) /\ AuditOK(k) /\ DeliveryOK(k)
  BY CallFacts DEF CallOK
<1>1. FundOK(k)'
  <2> SUFFICES ASSUME r.op = "fund" PROVE FundOK(k)'
    BY DEF FundOK
  <2>1. r.c \in Contracts /\ r.d \in Deliveries
    BY <1>0, RequestFields
  <2>2. Exists(delivery[r.d]) /\ delivery[r.d].fundBy <= now
          => Exists(delivery'[r.d]) /\ delivery'[r.d].fundBy <= now'
    <3>1. now \in Nat /\ now' \in Nat /\ delivery[r.d].fundBy \in Nat /\ now <= now'
      BY <2>1 DEF TypeOK, DeliveryDoc, RestGrows
    <3> QED
      BY <2>1, <3>1 DEF DeliveryGrows, Exists
  <2>3. Exists(escrow[r.c]) => Exists(escrow'[r.c]) /\ escrow'[r.c].of = escrow[r.c].of
    BY <2>1 DEF EscrowGrows, Exists
  <2> QED
    BY <1>0, <2>2, <2>3 DEF FundOK, Exists
<1>2. SettleOK(k)'
  <2>1. r.op \in Locking => r.c \in Contracts
    BY <1>0, RequestFields DEF Locking
  <2> QED
    BY <1>0, <2>1 DEF SettleOK, EscrowGrows, Exists
<1>3. AuditOK(k)'
  BY <1>0 DEF AuditOK, RestGrows
<1>4. DeliveryOK(k)'
  <2>1. EscrowsOf(r.d) \subseteq EscrowsOf(r.d)'
    BY DEF EscrowsOf, EscrowGrows, Exists
  <2> QED
    BY <1>0, <2>1 DEF DeliveryOK
<1> QED
  BY <1>1, <1>2, <1>3, <1>4 DEF CallOK

LEMMA KeptMonitor ==
    ASSUME TypeOK, TypeOK', NEW m \in Monitors, MonOK(m), DeliveryGrows, RestGrows,
           mon'[m].todo \subseteq mon[m].todo, mon'[m].pc = "cwrite" => mon'[m].cur \in Contracts
    PROVE  MonOK(m)'
<1>1. ASSUME NEW d \in mon'[m].todo PROVE Exists(delivery'[d]) /\ delivery'[d].fundBy <= now'
  <2>1. d \in Deliveries /\ Exists(delivery[d]) /\ delivery[d].fundBy <= now
    BY <1>1 DEF MonOK, TypeOK, MonRec
  <2>2. now \in Nat /\ now' \in Nat /\ delivery[d].fundBy \in Nat /\ now <= now'
    BY <2>1 DEF TypeOK, DeliveryDoc, RestGrows
  <2> QED
    BY <2>1, <2>2 DEF DeliveryGrows, Exists
<1> QED
  BY <1>1 DEF MonOK, Exists

MonFine(m) ==
    /\ call' = call /\ (\A n \in Monitors \ {m} : mon'[n] = mon[n])
    /\ MonOK(m)' /\ EscrowFine /\ DeliveryFine /\ RestGrows

\* The escrow monitor
LEMMA MonitorIsFine ==
    ASSUME TypeOK, TypeOK', LapseNamed, LinksAreUnique, NoStray, NEW m \in Monitors, MonOK(m),
           MonStep(m) \/ MonCancelFails(m) \/ MonCrash(m)
    PROVE  MonFine(m)
<1>f. /\ mon \in [Monitors -> MonRec] /\ mon[m] \in MonRec /\ mon[m].ids \subseteq Contracts
      /\ mon[m].todo \subseteq Deliveries
  BY DEF TypeOK, MonRec
<1>k. ASSUME DeliveryFine, RestGrows, EscrowFine, call' = call,
             \A n \in Monitors \ {m} : mon'[n] = mon[n],
             mon'[m].todo \subseteq mon[m].todo,
             mon'[m].pc = "cwrite" => mon'[m].cur \in Contracts
      PROVE  MonFine(m)
  BY <1>k, KeptMonitor DEF MonFine, DeliveryFine
<1>r. ASSUME UNCHANGED <<now, audit, faults>> PROVE RestGrows
  BY <1>r DEF RestGrows, TypeOK
<1>t. ASSUME Fault, UNCHANGED <<now, audit>> PROVE RestGrows
  BY <1>t DEF RestGrows, TypeOK, Fault
<1>g. ASSUME NEW p, MonGoto(m, p)
      PROVE  /\ \A n \in Monitors \ {m} : mon'[n] = mon[n]
             /\ mon'[m].todo = mon[m].todo /\ mon'[m].pc = p
  BY <1>f, <1>g DEF MonGoto, MonRec
<1>n. ASSUME NextFlagged(m)
      PROVE  /\ \A n \in Monitors \ {m} : mon'[n] = mon[n]
             /\ mon'[m].todo = mon[m].todo /\ mon'[m].pc = "cancel"
  <2>1. PICK I : I = mon[m].ids \ {mon[m].cur}
    OBVIOUS
  <2>2. mon' = [mon EXCEPT ![m] = [mon[m] EXCEPT !.pc = "cancel", !.ids = I, !.cur = Free]]
    BY <1>f, <1>n, <2>1 DEF NextFlagged
  <2> QED
    BY <1>f, <2>2 DEF MonRec
<1>1. CASE MonTick(m) \/ MonExpiryDone(m) \/ MonDone(m)
  <2>1. UNCHANGED <<delivery, escrow, audit, now, call, faults>>
    BY <1>1 DEF MonTick, MonExpiryDone, MonDone
  <2>2. PICK p \in {"find", "ffind", "idle"} : MonGoto(m, p)
    BY <1>1 DEF MonTick, MonExpiryDone, MonDone
  <2> QED
    BY <1>g, <1>k, <1>r, <2>1, <2>2, EscrowRests, DeliveryRests
<1>2. CASE MonFind(m)
  <2>1. UNCHANGED <<delivery, escrow, audit, now, call, faults>>
    BY <1>2 DEF MonFind
  <2>2. PICK due \in SUBSET Contracts :
           mon' = [mon EXCEPT ![m].ids = due, ![m].pc = IF due = {} THEN "ffind" ELSE "flag"]
    BY <1>2, Zenon DEF MonFind
  <2>3. PICK p \in {"ffind", "flag"} : mon' = [mon EXCEPT ![m].ids = due, ![m].pc = p]
    BY <2>2
  <2>4. /\ \A n \in Monitors \ {m} : mon'[n] = mon[n]
        /\ mon'[m].todo = mon[m].todo /\ mon'[m].pc = p
    BY <1>f, <2>3 DEF MonRec
  <2> QED
    BY <1>k, <1>r, <2>1, <2>3, <2>4, EscrowRests, DeliveryRests
<1>3. CASE MonFlag(m)
  <2>1. UNCHANGED <<delivery, audit, now, call, faults>> /\ MonGoto(m, "reload")
    BY <1>3 DEF MonFlag
  <2>2. \A c \in Contracts :
          /\ escrow'[c].of = escrow[c].of /\ escrow'[c].txs = escrow[c].txs
          /\ \/ escrow'[c] = escrow[c]
             \/ escrow[c].status \in {"pending", "locked"} /\ escrow'[c].status = "expired"
    BY <1>3 DEF MonFlag, EXPIRABLE_STATUSES, TypeOK, EscrowDoc
  <2>3. \A c \in Contracts : HashesOf(escrow'[c]) = HashesOf(escrow[c])
    BY <2>2 DEF HashesOf
  <2>4. \A c \in Contracts : Exists(escrow'[c]) = Exists(escrow[c])
    BY <2>2 DEF Exists
  <2>5. LinksAreUnique'
    <3> SUFFICES ASSUME NEW x \in Contracts, NEW y \in Contracts, x # y,
                        Exists(escrow'[x]), Exists(escrow'[y])
                 PROVE  /\ escrow'[x].of # escrow'[y].of
                        /\ HashesOf(escrow'[x]) \cap HashesOf(escrow'[y]) = {}
      BY DEF LinksAreUnique, Indexed, HashesOf, Exists
    <3> QED
      BY <2>2, <2>3, <2>4 DEF LinksAreUnique, Indexed
  <2>6. NoStray'
    BY <2>2 DEF NoStray, Exists
  <2>7. EscrowGrows
    BY <2>2, <2>4 DEF EscrowGrows, Exists
  <2>8. ExpiresRight
    BY <2>2 DEF ExpiresRight
  <2> QED
    BY <1>g, <1>k, <1>r, <2>1, <2>5, <2>6, <2>7, <2>8, DeliveryRests DEF EscrowFine
<1>4. CASE MonReload(m)
  <2>1. UNCHANGED <<delivery, escrow, audit, now, call, faults>>
    BY <1>4 DEF MonReload
  <2>2. PICK I : I = {c \in mon[m].ids : escrow[c].status = "expired"}
    OBVIOUS
  <2>3. mon' = [mon EXCEPT ![m] = [mon[m] EXCEPT !.ids = I, !.pc = "cancel"]]
    BY <1>4, <1>f, <2>2 DEF MonReload
  <2>4. /\ \A n \in Monitors \ {m} : mon'[n] = mon[n]
        /\ mon'[m].todo = mon[m].todo /\ mon'[m].pc = "cancel"
    BY <1>f, <2>3 DEF MonRec
  <2> QED
    BY <1>k, <1>r, <2>1, <2>4, EscrowRests, DeliveryRests
<1>5. CASE MonCancelRead(m)
  <2>1. UNCHANGED <<delivery, escrow, audit, now, call, faults>> /\ mon[m].pc = "cancel"
    BY <1>5 DEF MonCancelRead
  <2>2. PICK c \in mon[m].ids : \/ mon' = [mon EXCEPT ![m].ids = @ \ {c}]
                                \/ mon' = [mon EXCEPT ![m].pc = "cwrite", ![m].cur = c]
    BY <1>5 DEF MonCancelRead
  <2>3. /\ \A n \in Monitors \ {m} : mon'[n] = mon[n]
        /\ mon'[m].todo = mon[m].todo /\ (mon'[m].pc = "cwrite" => mon'[m].cur \in Contracts)
    <3>1. CASE mon' = [mon EXCEPT ![m].pc = "cwrite", ![m].cur = c]
      BY <1>f, <2>2, <3>1 DEF MonRec
    <3>2. CASE mon' = [mon EXCEPT ![m].ids = @ \ {c}]
      <4>1. PICK I : I = mon[m].ids \ {c}
        OBVIOUS
      <4>2. mon' = [mon EXCEPT ![m] = [mon[m] EXCEPT !.ids = I]]
        BY <1>f, <3>2, <4>1
      <4> QED
        BY <1>f, <2>1, <4>2 DEF MonRec
    <3> QED
      BY <2>2, <3>1, <3>2
  <2> QED
    BY <1>k, <1>r, <2>1, <2>3, EscrowRests, DeliveryRests
<1>6. CASE MonCancelWrite(m)
  <2>1. UNCHANGED <<escrow, audit, now, call, faults>> /\ NextFlagged(m)
    BY <1>6 DEF MonCancelWrite
  <2>2. mon[m].cur \in Contracts /\ SetStatus(escrow[mon[m].cur].of, "cancelled")
    BY <1>6 DEF MonCancelWrite, MonOK
  <2>3. DeliveryFine
    BY <2>2, SetStatusIsFine DEF DeliveryStatuses
  <2> QED
    BY <1>n, <1>k, <1>r, <2>1, <2>3, EscrowRests
<1>7. CASE MonFindLapsed(m)
  <2>1. UNCHANGED <<delivery, escrow, audit, now, call, faults>>
    BY <1>7 DEF MonFindLapsed
  <2>2. PICK T : /\ mon' = [mon EXCEPT ![m].pc = "lapse", ![m].todo = T]
                 /\ T = {d \in Deliveries : FundingWindowLapsed(delivery[d]) /\ ~delivery[d].archived}
    BY <1>7, Zenon DEF MonFindLapsed
  <2>3. /\ \A n \in Monitors \ {m} : mon'[n] = mon[n]
        /\ mon'[m].todo = T /\ mon'[m].pc = "lapse"
    BY <1>f, <2>2 DEF MonRec
  <2>4. MonOK(m)'
    BY <2>1, <2>2, <2>3 DEF MonOK, FundingWindowLapsed, Exists
  <2> QED
    BY <1>r, <2>1, <2>3, <2>4, EscrowRests, DeliveryRests DEF MonFine
<1>8. CASE MonCancelLapsed(m)
  <2>1. UNCHANGED <<escrow, audit, now, call, faults>> /\ mon[m].pc = "lapse"
    BY <1>8 DEF MonCancelLapsed
  <2>2. PICK d \in mon[m].todo : /\ CancelLapsed(d)
                                 /\ \/ mon' = [mon EXCEPT ![m].pc = "lapsed", ![m].curD = d]
                                    \/ mon' = [mon EXCEPT ![m].todo = @ \ {d}]
    BY <1>8 DEF MonCancelLapsed
  <2>3. d \in Deliveries /\ delivery[d].fundBy <= now
    BY <1>f, <2>2 DEF MonOK
  <2>4. DeliveryFine
    BY <2>2, <2>3, CancelLapsedIsFine
  <2>5. /\ \A n \in Monitors \ {m} : mon'[n] = mon[n]
        /\ mon'[m].todo \subseteq mon[m].todo /\ mon'[m].pc # "cwrite"
    <3>1. CASE mon' = [mon EXCEPT ![m].pc = "lapsed", ![m].curD = d]
      BY <1>f, <2>2, <3>1 DEF MonRec
    <3>2. CASE mon' = [mon EXCEPT ![m].todo = @ \ {d}]
      <4>1. PICK T : T = mon[m].todo \ {d}
        OBVIOUS
      <4>2. mon' = [mon EXCEPT ![m] = [mon[m] EXCEPT !.todo = T]]
        BY <1>f, <3>2, <4>1
      <4>3. mon'[m].todo = T /\ mon'[m].pc = "lapse" /\ \A n \in Monitors \ {m} : mon'[n] = mon[n]
        BY <1>f, <2>1, <4>2 DEF MonRec
      <4> QED
        BY <4>1, <4>3
    <3> QED
      BY <2>2, <3>1, <3>2
  <2> QED
    BY <1>k, <1>r, <2>1, <2>4, <2>5, EscrowRests
<1>9. CASE MonRecordLapse(m)
  <2>1. UNCHANGED <<delivery, escrow, now, call>>
    BY <1>9 DEF MonRecordLapse
  <2>2. audit \subseteq audit' /\ (faults' = 0 => faults = 0)
    BY <1>9 DEF MonRecordLapse, RecordLapse, Fault, TypeOK
  <2>3. RestGrows
    BY <2>1, <2>2 DEF RestGrows, TypeOK
  <2>4. PICK T : T = mon[m].todo \ {mon[m].curD}
    OBVIOUS
  <2>5. mon' = [mon EXCEPT ![m] = [mon[m] EXCEPT !.pc = "lapse", !.todo = T, !.curD = Free]]
    BY <1>9, <1>f, <2>4 DEF MonRecordLapse
  <2>6. mon'[m].todo = T /\ mon'[m].pc = "lapse" /\ \A n \in Monitors \ {m} : mon'[n] = mon[n]
    BY <1>f, <2>5 DEF MonRec
  <2> QED
    BY <1>k, <2>1, <2>3, <2>4, <2>6, EscrowRests, DeliveryRests
<1>10. CASE MonCancelFails(m)
  <2>1. UNCHANGED <<delivery, escrow, audit, now, call>> /\ Fault /\ NextFlagged(m)
    BY <1>10 DEF MonCancelFails
  <2> QED
    BY <1>n, <1>k, <1>t, <2>1, EscrowRests, DeliveryRests
<1>11. CASE MonCrash(m)
  <2>1. UNCHANGED <<delivery, escrow, audit, now, call>> /\ Fault
    BY <1>11 DEF MonCrash
  <2>2. /\ \A n \in Monitors \ {m} : mon'[n] = mon[n]
        /\ mon'[m].todo = {} /\ mon'[m].pc = "idle"
    BY <1>f, <1>11 DEF MonCrash, IdleMon
  <2> QED
    BY <1>k, <1>t, <2>1, <2>2, EscrowRests, DeliveryRests
<1> QED
  BY <1>1, <1>2, <1>3, <1>4, <1>5, <1>6, <1>7, <1>8, <1>9, <1>10, <1>11
     DEF MonStep, ScanForExpiredEscrows, ScanLapsedFundingWindows

\* Every step keeps the record, and does to it only what it may.
RecordStep == RecordInv' /\ EscrowFine /\ DeliveryFine /\ RestGrows

LEMMA RecordKept == RecordInv /\ [Next]_vars => RecordStep
<1> SUFFICES ASSUME RecordInv, [Next]_vars PROVE RecordStep
  OBVIOUS
<1>0. /\ TypeInv /\ TypeOK /\ LapseNamed /\ LinksAreUnique /\ NoStray
      /\ (\A k \in Calls : CallOK(k)) /\ (\A m \in Monitors : MonOK(m))
  BY DEF RecordInv, TypeInv
<1>t. TypeInv' /\ TypeOK'
  BY <1>0, TypeStep DEF TypeInv
\* One request moves, the monitors rest.
<1>k. ASSUME NEW k \in Calls, Fine(k), UNCHANGED mon PROVE RecordStep
  <2>1. \A j \in Calls : CallOK(j)'
    <3> SUFFICES ASSUME NEW j \in Calls, j # k PROVE CallOK(j)'
      BY <1>k DEF Fine
    <3> QED
      BY <1>0, <1>t, <1>k, RestingCall DEF Fine, OthersStay, EscrowFine, DeliveryFine
  <2>2. \A m \in Monitors : MonOK(m)'
    <3> SUFFICES ASSUME NEW m \in Monitors PROVE MonOK(m)'
      OBVIOUS
    <3>1. mon'[m].todo \subseteq mon[m].todo /\ (mon'[m].pc = "cwrite" => mon'[m].cur \in Contracts)
      BY <1>0, <1>k DEF MonOK
    <3> QED
      BY <1>0, <1>t, <1>k, <3>1, KeptMonitor DEF Fine, DeliveryFine
  <2> QED
    BY <1>t, <1>k, <2>1, <2>2 DEF Fine, EscrowFine, DeliveryFine, RecordInv, RecordStep
\* Nobody moves.
<1>s. ASSUME UNCHANGED <<delivery, escrow, call, mon>>, RestGrows PROVE RecordStep
  <2>1. EscrowFine /\ DeliveryFine
    BY <1>0, <1>s, EscrowRests, DeliveryRests
  <2>2. \A j \in Calls : CallOK(j)'
    BY <1>0, <1>t, <1>s, <2>1, RestingCall DEF EscrowFine, DeliveryFine
  <2>3. \A m \in Monitors : MonOK(m)'
    <3> SUFFICES ASSUME NEW m \in Monitors PROVE MonOK(m)'
      OBVIOUS
    <3>1. mon'[m].todo \subseteq mon[m].todo /\ (mon'[m].pc = "cwrite" => mon'[m].cur \in Contracts)
      BY <1>0, <1>s DEF MonOK
    <3> QED
      BY <1>0, <1>t, <1>s, <2>1, <3>1, KeptMonitor DEF DeliveryFine
  <2> QED
    BY <1>s, <1>t, <2>1, <2>2, <2>3 DEF EscrowFine, DeliveryFine, RecordInv, RecordStep
<1>1. ASSUME NEW k \in Calls, Invoke(k) PROVE RecordStep
  <2>1. UNCHANGED <<delivery, escrow, audit, now, faults, mon>>
    BY <1>1 DEF Invoke
  <2>2. PICK p \in {"acquire", "start"} : Goto(k, p)
    BY <1>1 DEF Invoke
  <2>3. OthersStay(k) /\ call'[k].pc = p
    BY <1>0, <2>2, GotoMoves
  <2>4. CallOK(k)'
    BY <2>2, <2>3, AnsweredIsOK
  <2> QED
    BY <1>0, <1>k, <2>1, <2>3, <2>4, ReadingIsFine
<1>2. ASSUME NEW k \in Calls, Serve(k) PROVE RecordStep
  <2>1. Fine(k)
    BY <1>0, <1>2, FundIsFine, LockIsFine, ReleaseIsFine, AdminIsFine, ChainIsFine,
       DeliveryIsFine, PathIsFine, EditIsFine DEF Serve
  <2> QED
    BY <1>0, <1>2, <1>k, <2>1, ServeTypes
<1>3. ASSUME NEW k \in Calls, RequestFails(k) \/ ProcessCrashes(k) PROVE RecordStep
  <2>1. UNCHANGED <<delivery, escrow, audit, now, mon>> /\ Fault
    BY <1>3 DEF RequestFails, ProcessCrashes
  <2>2. OthersStay(k) /\ call'[k].pc = "failed"
    BY <1>0, <1>3 DEF RequestFails, ProcessCrashes, Finish, OthersStay, TypeOK
  <2>3. CallOK(k)'
    BY <2>2, AnsweredIsOK DEF Finished
  <2>4. RestGrows
    BY <1>0, <2>1 DEF RestGrows, Fault, TypeOK
  <2> QED
    BY <1>0, <1>k, <2>1, <2>2, <2>3, <2>4, EscrowRests, DeliveryRests DEF Fine
<1>4. ASSUME NEW m \in Monitors, MonStep(m) \/ MonCancelFails(m) \/ MonCrash(m) PROVE RecordStep
  <2>1. MonFine(m)
    BY <1>0, <1>t, <1>4, MonitorIsFine
  <2>2. \A j \in Calls : CallOK(j)'
    BY <1>0, <1>t, <2>1, RestingCall DEF MonFine, EscrowFine, DeliveryFine
  <2>3. \A n \in Monitors : MonOK(n)'
    <3> SUFFICES ASSUME NEW n \in Monitors, n # m PROVE MonOK(n)'
      BY <2>1 DEF MonFine
    <3>1. mon'[n].todo \subseteq mon[n].todo /\ (mon'[n].pc = "cwrite" => mon'[n].cur \in Contracts)
      BY <1>0, <2>1 DEF MonOK, MonFine
    <3> QED
      BY <1>0, <1>t, <2>1, <3>1, KeptMonitor DEF MonFine, DeliveryFine
  <2> QED
    BY <1>t, <2>1, <2>2, <2>3 DEF MonFine, EscrowFine, DeliveryFine, RecordInv, RecordStep
<1>5. ASSUME NEW key \in LockKeys, LockTimesOut(key) PROVE RecordStep
  <2>1. RestGrows
    BY <1>0, <1>5 DEF LockTimesOut, RestGrows, TypeOK
  <2> QED
    BY <1>5, <1>s, <2>1 DEF LockTimesOut
<1>6. CASE ClockTick
  <2>1. RestGrows
    BY <1>0, <1>6 DEF ClockTick, RestGrows, TypeOK
  <2> QED
    BY <1>6, <1>s, <2>1 DEF ClockTick
<1>7. CASE Rest \/ UNCHANGED vars
  <2>1. UNCHANGED vars
    BY <1>7 DEF Rest
  <2>2. RestGrows
    BY <1>0, <2>1 DEF vars, RestGrows, TypeOK
  <2> QED
    BY <1>s, <2>1, <2>2 DEF vars
<1> QED
  BY <1>1, <1>2, <1>3, <1>4, <1>5, <1>6, <1>7 DEF Next

LEMMA RecordInit == Init => RecordInv
<1> SUFFICES ASSUME Init PROVE RecordInv
  OBVIOUS
<1>1. PICK p \in Profiles : call \in [Calls -> {IdleCall(r) : r \in p.offered}] /\ escrow = p.escrow
  BY DEF Init
<1>2. TypeInv
  BY TypeInit DEF Init, IdleMon, LapseNamed, TypeInv
<1>3. LinksAreUnique /\ NoStray
  BY <1>1, ProfilesAssumption DEF LinksAreUnique, NoStray
<1>4. \A k \in Calls : CallOK(k)
  <2>1. \A k \in Calls : call[k].pc = "idle"
    BY <1>1 DEF IdleCall
  <2> QED
    BY <2>1 DEF CallOK, FundOK, SettleOK, AuditOK, DeliveryOK
<1>5. \A m \in Monitors : MonOK(m)
  BY DEF Init, IdleMon, MonOK
<1> QED
  BY <1>2, <1>3, <1>4, <1>5 DEF RecordInv

\* recordEscrowFunded and the unique indexes: however many funding events race
\* for however many deliveries, contracts and transactions, a delivery has one
\* escrow and a transaction is in one; and every decision an admin was told
\* of is in the audit log, as long as nothing fails.
THEOREM RecordIsSound == Spec => []RecordsAreSound
<1>1. RecordInv /\ [Next]_vars => RecordInv'
  BY RecordKept DEF RecordStep
<1>2. RecordInv => RecordsAreSound
  BY DEF RecordInv, TypeInv, RecordsAreSound, CallOK, AuditOK, EveryDecisionIsAudited
<1> QED
  BY <1>1, <1>2, RecordInit, PTL DEF Spec

\* Both scans act on what they read earlier; still no scan of any number of
\* monitors expires an escrow settled meanwhile, or cancels as lapsed a
\* delivery that is no longer pending or whose deadline is not over.
THEOREM ScansAreRespectful == Spec => ScansRespectLateWrites
<1>1. RecordInv /\ [Next]_vars => RecordInv'
  BY RecordKept DEF RecordStep
<1>2. RecordInv /\ [Next]_vars =>
        [/\ \A c \in Contracts :
              escrow'[c].status = "expired" /\ escrow[c].status # "expired"
                => escrow[c].status \in {"pending", "locked"}
         /\ \A d \in Deliveries :
              delivery'[d].lapsed /\ ~delivery[d].lapsed
                => delivery[d].status = "pending" /\ delivery[d].fundBy <= now]_vars
  BY RecordKept DEF RecordStep, EscrowFine, DeliveryFine, ExpiresRight, LapsesRight
<1> QED
  BY <1>1, <1>2, RecordInit, PTL DEF Spec, ScansRespectLateWrites

\* updateStatus, create, assignDriver and the lapse scan check a status on a
\* copy and write later, and edits, which check nothing, come in between; still
\* every step but the edit itself moves a delivery no escrow is linked to along
\* ALLOWED_TRANSITIONS.
THEOREM DeliveriesMoveRight == Spec => DeliveriesFollowLifecycle
<1>1. RecordInv /\ [Next]_vars => RecordInv'
  BY RecordKept DEF RecordStep
<1>2. RecordInv /\ [Next]_vars =>
        [\A d \in Deliveries :
           (\A c \in Contracts : escrow[c].of # d) /\ ~Edits(d)
             => delivery'[d].status \in DeliveryMoves[delivery[d].status] \cup {delivery[d].status}]_vars
  BY RecordKept DEF RecordStep, DeliveryFine, MovesRight
<1> QED
  BY <1>1, <1>2, RecordInit, PTL DEF Spec, DeliveriesFollowLifecycle

-----------------------------------------------------------------------------
(* Escrows whose writers share a lock *)

\* Every request that writes an escrow runs under one lock key of that escrow,
\* for a release by contract id takes another key than one by ObjectId;
\* recordEscrowFunded, which takes no lock, hears of one transaction that funds
\* it, if often; and the indexer, which takes none, has it to itself.
Serialized ==
    \A p \in Profiles : \A r1, r2 \in p.offered :
        /\ r1.op \in Locking /\ r2.op \in Locking /\ r1.c = r2.c => LockKey(r1) = LockKey(r2)
        /\ r1.op = "fund" => /\ ~Exists(p.escrow[r1.c])
                             /\ r2.op = "fund" /\ r1.c = r2.c => r1.h = r2.h
        /\ r1.op = "chain" => /\ p.escrow[r1.c].status # "resolved"
                              /\ r2.op \in Locking => r1.c # r2.c

\* The same of the requests of a behaviour.
OneKey ==
    \A k1, k2 \in Calls :
        LET r1 == call[k1].req
            r2 == call[k2].req
        IN /\ r1.op \in Locking /\ r2.op \in Locking /\ r1.c = r2.c => LockKey(r1) = LockKey(r2)
           /\ r1.op = "fund" /\ r2.op = "fund" /\ r1.c = r2.c => r1.h = r2.h
           /\ r1.op = "chain" /\ r2.op \in Locking => r1.c # r2.c

\* What the holder of the lock read of the escrow's status is still so when it
\* writes, but for a locked escrow the monitor expired; what a funding request
\* read is its own replay or nothing, so that it only ever inserts.
StatusHeld(k) ==
    LET r == call[k].req
        s == escrow[r.c].status
        seen == call[k].seenE.status
    IN /\ r.op = "release" /\ call[k].pc \in {"proof", "write"} => s \in {"locked", "expired"}
       /\ r.op = "resolve" /\ call[k].pc = "write" =>
            /\ seen \in RESOLVABLE_STATUSES
            /\ s = seen \/ (seen = "locked" /\ s = "expired")
       /\ r.op = "retry" /\ call[k].pc = "write" => s = "expired"
       /\ r.op = "fund" /\ call[k].pc = "read2" /\ Exists(call[k].seenE) => r.h \in HashesOf(call[k].seenE)
       /\ r.op = "fund" /\ call[k].pc = "write" => ~Exists(call[k].seenE)

\* An escrow that is there was funded by the transaction that funds it, and no
\* admin cancelled one the chain settles.
EscrowFits(k) ==
    LET r == call[k].req
    IN /\ r.op = "fund" /\ Exists(escrow[r.c]) => r.h \in HashesOf(escrow[r.c])
       /\ r.op = "chain" => escrow[r.c].status # "resolved"

SerialInv == TypeOK /\ OneKey /\ LockHeld /\ \A k \in Calls : StatusHeld(k) /\ EscrowFits(k)

LEMMA ProceedsMoves ==
    ASSUME TypeOK, NEW k \in Calls, Proceeds(k)
    PROVE  OthersStay(k) /\ call'[k].req = call[k].req
<1>1. ASSUME NEW p, Goto(k, p) PROVE OthersStay(k) /\ call'[k].req = call[k].req
  BY <1>1, GotoMoves
<1>2. ASSUME NEW p, NEW doc, GotoSeeingD(k, p, doc) \/ GotoSeeingE(k, p, doc)
      PROVE  OthersStay(k) /\ call'[k].req = call[k].req
  BY <1>2, SeeingMoves
<1>3. ASSUME NEW p, Finish(k, p) PROVE OthersStay(k) /\ call'[k].req = call[k].req
  BY <1>3 DEF Finish, TypeOK, CallRec, OthersStay
<1> QED
  BY <1>1, <1>2, <1>3 DEF Proceeds

\* A request stays the request it is.
LEMMA SameRequests ==
    ASSUME TypeOK, [Next]_vars PROVE \A k \in Calls : call'[k].req = call[k].req
<1>1. ASSUME NEW k \in Calls, Invoke(k) PROVE \A j \in Calls : call'[j].req = call[j].req
  <2>1. PICK p : Goto(k, p)
    BY <1>1 DEF Invoke
  <2> QED
    BY <2>1, GotoMoves DEF OthersStay
<1>2. ASSUME NEW k \in Calls, Serve(k) PROVE \A j \in Calls : call'[j].req = call[j].req
  <2>1. CASE AcquireLock(k)
    BY <2>1 DEF AcquireLock, TypeOK, CallRec
  <2>2. CASE AcquireFails(k)
    BY <2>2 DEF AcquireFails, Finish, TypeOK, CallRec
  <2>3. CASE ~AcquireLock(k) /\ ~AcquireFails(k)
    BY <1>2, <2>3, ServeProceeds, ProceedsMoves DEF OthersStay
  <2> QED
    BY <2>1, <2>2, <2>3
<1>3. ASSUME NEW k \in Calls, RequestFails(k) \/ ProcessCrashes(k)
      PROVE  \A j \in Calls : call'[j].req = call[j].req
  <2>1. call' = [call EXCEPT ![k] = [req |-> call[k].req, pc |-> "failed",
                                     seenD |-> NoDelivery, seenE |-> NoEscrow]]
    BY <1>3 DEF RequestFails, ProcessCrashes, Finish
  <2> QED
    BY <2>1 DEF TypeOK
<1>4. ASSUME NEW m \in Monitors, MonStep(m) \/ MonCancelFails(m) \/ MonCrash(m)
      PROVE  UNCHANGED call
  BY <1>4 DEF MonStep, ScanForExpiredEscrows, ScanLapsedFundingWindows, MonTick, MonFind,
       MonFlag, MonReload, MonCancelRead, MonCancelWrite, MonExpiryDone, MonFindLapsed,
       MonCancelLapsed, MonRecordLapse, MonDone, MonCancelFails, MonCrash
<1>5. ASSUME (\E key \in LockKeys : LockTimesOut(key)) \/ ClockTick \/ Rest \/ UNCHANGED vars
      PROVE  UNCHANGED call
  BY <1>5 DEF LockTimesOut, ClockTick, Rest, vars
<1> QED
  BY <1>1, <1>2, <1>3, <1>4, <1>5 DEF Next

\* The escrows' statuses follow the life cycle.
EscrowsMoveRight ==
    \A c \in Contracts :
        \/ escrow'[c].status = escrow[c].status
        \/ escrow'[c].status \in EscrowMoves[escrow[c].status]

\* A request writes no escrow, or one that is there and whose lock it holds or
\* that the chain settles, or it inserts one.
WritesItsOwn(k) ==
    LET r == call[k].req
    IN \/ UNCHANGED escrow
       \/ /\ \A c \in Contracts \ {r.c} : escrow'[c] = escrow[c]
          /\ \/ InCriticalSection(k) /\ Exists(escrow[r.c]) /\ HashesOf(escrow[r.c]) \subseteq HashesOf(escrow'[r.c])
             \/ /\ r.op = "chain" /\ Exists(escrow[r.c]) /\ escrow'[r.c].status # "resolved"
                /\ HashesOf(escrow[r.c]) \subseteq HashesOf(escrow'[r.c])
             \/ /\ r.op = "fund" /\ ~Exists(escrow[r.c]) /\ escrow'[r.c].status = "locked"
                /\ r.h \in HashesOf(escrow'[r.c])

HolderFine(k) == OthersStay(k) /\ StatusHeld(k)' /\ EscrowsMoveRight /\ WritesItsOwn(k)

LEMMA EscrowEdges ==
    /\ {"released", "expired"} \subseteq EscrowMoves["locked"]
    /\ {"released", "refunded", "locked"} \subseteq EscrowMoves["disputed"]
    /\ {"released", "refunded", "locked", "resolved"} \subseteq EscrowMoves["expired"]
    /\ {"released", "refunded", "expired"} \subseteq EscrowMoves["pending"] /\ "refunded" \in EscrowMoves["locked"]
    /\ "locked" \in EscrowMoves["absent"]
  BY DEF EscrowMoves

\* A transaction added to an escrow's list, beside those it has.
LEMMA HashesGrow ==
    ASSUME NEW e \in EscrowDoc, NEW tx \in Tx, NEW new, new.txs = Append(e.txs, tx)
    PROVE  HashesOf(e) \subseteq HashesOf(new) /\ tx.hash \in HashesOf(new)
<1> DEFINE t == e.txs
<1>1. t \in Seq(Tx)
  BY DEF EscrowDoc
<1>2. /\ \A j \in 1..Len(t) : Append(t, tx)[j] = t[j]
      /\ Append(t, tx)[Len(t) + 1] = tx
      /\ DOMAIN Append(t, tx) = 1..(Len(t) + 1) /\ DOMAIN t = 1..Len(t) /\ Len(t) \in Nat
  BY <1>1, AppendProperties
<1>3. \A j \in DOMAIN t : j \in DOMAIN new.txs /\ new.txs[j] = t[j]
  BY <1>2
<1>4. Len(t) + 1 \in DOMAIN new.txs /\ new.txs[Len(t) + 1] = tx
  BY <1>2
<1> QED
  BY <1>3, <1>4 DEF HashesOf

\* A request that leaves the escrows alone, and is not about to write one.
LEMMA LeavingIsFine ==
    ASSUME NEW k \in Calls, OthersStay(k), UNCHANGED escrow,
           \/ call'[k].req.op \notin Locking /\ call'[k].req.op # "fund"
           \/ call'[k].pc \notin {"proof", "write", "read2"}
    PROVE  HolderFine(k)
<1>1. StatusHeld(k)'
  BY DEF StatusHeld, Locking
<1> QED
  BY <1>1 DEF HolderFine, EscrowsMoveRight, WritesItsOwn

\* releaseEscrow under its lock
LEMMA ReleaseHolds ==
    ASSUME TypeOK, NEW k \in Calls, StatusHeld(k), ReleaseEscrow(k)
    PROVE  HolderFine(k)
<1> DEFINE r == call[k].req
<1>0. r.op = "release"
  BY DEF ReleaseEscrow, ReleaseRead, ReleaseAssertProof, ReleaseSave,
         ReleaseReadDelivery, ReleaseWriteDelivery, At
<1>f. r.c \in Contracts /\ r.h \in Hashes /\ escrow[r.c] \in EscrowDoc
  BY <1>0, CallFacts, RequestFields DEF TypeOK
<1>a. ASSUME NEW p \in Finished, Finish(k, p), UNCHANGED escrow PROVE HolderFine(k)
  <2>1. OthersStay(k) /\ call'[k].pc = p
    BY <1>a DEF Finish, TypeOK, CallRec, OthersStay
  <2> QED
    BY <1>a, <2>1, LeavingIsFine DEF Finished
<1>g. ASSUME NEW p \in {"proof", "write"}, Goto(k, p), UNCHANGED escrow,
             escrow[r.c].status \in {"locked", "expired"}
      PROVE  HolderFine(k)
  <2>1. OthersStay(k) /\ call'[k].req = r
    BY <1>g, GotoMoves
  <2>2. StatusHeld(k)'
    BY <1>0, <1>g, <2>1 DEF StatusHeld
  <2> QED
    BY <1>g, <2>1, <2>2 DEF HolderFine, EscrowsMoveRight, WritesItsOwn
<1>p. {"done", "rejected", "failed"} = Finished
  BY DEF Finished
<1>1. CASE ReleaseRead(k)
  <2>1. UNCHANGED escrow
    BY <1>1 DEF ReleaseRead
  <2>2. \/ Finish(k, "done") \/ Finish(k, "rejected")
        \/ escrow[r.c].status = "locked" /\ Goto(k, "proof")
    BY <1>1 DEF ReleaseRead
  <2> QED
    BY <1>a, <1>g, <1>p, <2>1, <2>2
<1>2. CASE ReleaseAssertProof(k)
  <2>1. UNCHANGED escrow /\ (Goto(k, "write") \/ Finish(k, "rejected"))
    BY <1>2 DEF ReleaseAssertProof
  <2>2. escrow[r.c].status \in {"locked", "expired"}
    BY <1>2 DEF ReleaseAssertProof, At, StatusHeld
  <2> QED
    BY <1>a, <1>g, <1>p, <2>1, <2>2
<1>3. CASE ReleaseSave(k)
  <2>1. CASE HashTakenElsewhere(r.c, r.h)
    BY <1>3, <1>a, <1>p, <2>1 DEF ReleaseSave
  <2>2. CASE ~HashTakenElsewhere(r.c, r.h)
    <3>1. PICK t : t = Append(escrow[r.c].txs, [hash |-> r.h, kind |-> "release"])
      OBVIOUS
    <3>2. escrow' = [escrow EXCEPT ![r.c] = [escrow[r.c] EXCEPT !.status = "released", !.txs = t]]
      BY <1>3, <2>2, <3>1 DEF ReleaseSave, TypeOK
    <3>3. /\ escrow'[r.c].status = "released"
          /\ \A c \in Contracts \ {r.c} : escrow'[c] = escrow[c]
      BY <1>f, <3>2 DEF TypeOK, EscrowDoc
    <3>4. escrow[r.c].status \in {"locked", "expired"} /\ call[k].pc = "write" /\ Goto(k, "dread")
      BY <1>3, <2>2 DEF ReleaseSave, At, StatusHeld
    <3>5. EscrowsMoveRight
      BY <3>3, <3>4, EscrowEdges DEF EscrowsMoveRight
    <3>6. InCriticalSection(k)
      BY <1>0, <3>4 DEF InCriticalSection, Running, Finished, Locking
    <3>7. OthersStay(k) /\ call'[k].pc = "dread"
      BY <3>4, GotoMoves
    <3>8. StatusHeld(k)'
      BY <3>7 DEF StatusHeld
    <3>9. Exists(escrow[r.c]) /\ HashesOf(escrow[r.c]) \subseteq HashesOf(escrow'[r.c])
      <4>1. PICK old \in EscrowDoc : old = escrow[r.c]
        BY <1>f
      <4>2. PICK tx \in Tx : tx = [hash |-> r.h, kind |-> "release"]
        BY <1>f DEF Tx, TxKinds
      <4>3. escrow'[r.c].txs = t
        BY <1>f, <3>2 DEF TypeOK, EscrowDoc
      <4>4. escrow'[r.c].txs = Append(old.txs, tx)
        BY <3>1, <4>1, <4>2, <4>3, Zenon
      <4>5. HashesOf(old) \subseteq HashesOf(escrow'[r.c])
        BY <4>4, HashesGrow
      <4> QED
        BY <3>4, <4>1, <4>5 DEF Exists
    <3> QED
      BY <3>3, <3>5, <3>6, <3>7, <3>8, <3>9 DEF HolderFine, WritesItsOwn
  <2> QED
    BY <2>1, <2>2
<1>4. CASE ReleaseReadDelivery(k)
  <2>1. UNCHANGED escrow /\ (Goto(k, "dwrite") \/ Finish(k, "done"))
    BY <1>4 DEF ReleaseReadDelivery
  <2>2. CASE Goto(k, "dwrite")
    BY <2>1, <2>2, GotoMoves, LeavingIsFine
  <2> QED
    BY <1>a, <1>p, <2>1, <2>2
<1>5. CASE ReleaseWriteDelivery(k)
  BY <1>5, <1>a, <1>p DEF ReleaseWriteDelivery
<1> QED
  BY <1>1, <1>2, <1>3, <1>4, <1>5 DEF ReleaseEscrow

\* resolveEscrow and retryExpiredEscrow under theirs
LEMMA AdminHolds ==
    ASSUME TypeOK, NEW k \in Calls, StatusHeld(k), ResolveEscrow(k) \/ RetryExpiredEscrow(k)
    PROVE  HolderFine(k)
<1> DEFINE r == call[k].req
<1>0. r.op \in {"resolve", "retry"}
  BY DEF ResolveEscrow, RetryExpiredEscrow, AdminRead, ResolveSave, RetrySave,
         ApplyRead, ApplyWrite, AdminAudit, At
<1>f. r \in Request /\ r.c \in Contracts /\ escrow[r.c] \in EscrowDoc
  BY <1>0, CallFacts, RequestFields DEF TypeOK
<1>a. ASSUME NEW p \in {"done", "rejected"}, Finish(k, p), UNCHANGED escrow PROVE HolderFine(k)
  <2>1. OthersStay(k) /\ call'[k].pc = p
    BY <1>a DEF Finish, TypeOK, CallRec, OthersStay
  <2> QED
    BY <1>a, <2>1, LeavingIsFine
<1>g. ASSUME NEW p \in {"dread", "dwrite", "audit"}, Goto(k, p), UNCHANGED escrow
      PROVE  HolderFine(k)
  BY <1>g, GotoMoves, LeavingIsFine
<1>1. ASSUME NEW op \in {"resolve", "retry"}, AdminRead(k, op) PROVE HolderFine(k)
  <2>1. UNCHANGED escrow /\ r.op = op
    BY <1>1 DEF AdminRead, At
  <2>2. CASE Finish(k, "rejected")
    BY <1>a, <2>1, <2>2
  <2>3. CASE AdminMayAct(op, escrow[r.c].status) /\ GotoSeeingE(k, "write", escrow[r.c])
    <3>1. /\ OthersStay(k) /\ call'[k].pc = "write" /\ call'[k].req = r
          /\ call'[k].seenE = escrow[r.c]
      BY <2>3, SeeingMoves
    <3>2. StatusHeld(k)'
      BY <2>1, <2>3, <3>1 DEF StatusHeld, AdminMayAct
    <3> QED
      BY <2>1, <3>1, <3>2 DEF HolderFine, EscrowsMoveRight, WritesItsOwn
  <2> QED
    BY <1>1, <2>2, <2>3 DEF AdminRead
<1>w. ASSUME NEW new, NEW p \in {"audit", "dread"}, call[k].pc = "write",
             Exists(escrow[r.c]), new.txs = escrow[r.c].txs,
             \/ new.status = escrow[r.c].status
             \/ new.status \in EscrowMoves[escrow[r.c].status],
             escrow' = [escrow EXCEPT ![r.c] = new], Goto(k, p)
      PROVE  HolderFine(k)
  <2>1. escrow'[r.c] = new /\ \A c \in Contracts \ {r.c} : escrow'[c] = escrow[c]
    BY <1>f, <1>w DEF TypeOK
  <2>2. EscrowsMoveRight
    BY <1>w, <2>1 DEF EscrowsMoveRight
  <2>3. InCriticalSection(k)
    BY <1>0, <1>w DEF InCriticalSection, Running, Finished, Locking
  <2>4. OthersStay(k) /\ call'[k].pc = p
    BY <1>w, GotoMoves
  <2>5. StatusHeld(k)'
    BY <2>4 DEF StatusHeld
  <2>6. HashesOf(escrow'[r.c]) = HashesOf(escrow[r.c])
    <3>1. escrow'[r.c].txs = escrow[r.c].txs
      BY <1>w, <2>1
    <3> QED
      BY <3>1 DEF HashesOf
  <2> QED
    BY <1>w, <2>1, <2>2, <2>3, <2>4, <2>5, <2>6 DEF HolderFine, WritesItsOwn
<1>2. CASE ResolveSave(k)
  <2>1. r.choice \in {"release_to_driver", "refund_to_payer", "keep_locked"}
    BY <1>2, <1>f, RequestFields DEF ResolveSave, At, Resolutions
  <2>2. PICK new : new = ResolvedEscrow(escrow[r.c], r.choice, call[k].seenE)
    OBVIOUS
  <2>3. PICK x : x = now + TTL
    OBVIOUS
  <2>4. \/ new.status \in {"released", "refunded"}
        \/ call[k].seenE.status = "locked" /\ new.status = escrow[r.c].status
        \/ call[k].seenE.status # "locked" /\ new.status = "locked"
    BY <1>f, <2>1, <2>2, <2>3 DEF ResolvedEscrow, ComputeExpiresAt, EscrowDoc
  <2>t. new.txs = escrow[r.c].txs
    BY <1>f, <2>1, <2>2, <2>3 DEF ResolvedEscrow, ComputeExpiresAt, EscrowDoc
  <2>5. /\ call[k].pc = "write"
        /\ call[k].seenE.status \in {"locked", "disputed", "expired"}
        /\ \/ escrow[r.c].status = call[k].seenE.status
           \/ call[k].seenE.status = "locked" /\ escrow[r.c].status = "expired"
    BY <1>2 DEF ResolveSave, At, StatusHeld, RESOLVABLE_STATUSES
  <2>6. \/ new.status = escrow[r.c].status
        \/ new.status \in EscrowMoves[escrow[r.c].status]
    BY <2>4, <2>5, EscrowEdges
  <2>7. escrow' = [escrow EXCEPT ![r.c] = new]
    BY <1>2, <2>2 DEF ResolveSave
  <2>8. PICK p \in {"audit", "dread"} : Goto(k, p)
    BY <1>2 DEF ResolveSave
  <2>9. Exists(escrow[r.c])
    BY <2>5 DEF Exists
  <2> QED
    BY <1>w, <2>t, <2>5, <2>6, <2>7, <2>8, <2>9
<1>3. CASE RetrySave(k)
  <2>1. PICK new : new = RetriedEscrow(escrow[r.c], r.choice)
    OBVIOUS
  <2>2. PICK x : x = now + TTL
    OBVIOUS
  <2>3. new.status \in {"locked", "resolved"} /\ new.txs = escrow[r.c].txs
    BY <1>f, <2>1, <2>2 DEF RetriedEscrow, ComputeExpiresAt, EscrowDoc
  <2>4. call[k].pc = "write" /\ escrow[r.c].status = "expired" /\ Goto(k, "dread")
    BY <1>3 DEF RetrySave, At, StatusHeld
  <2>5. escrow' = [escrow EXCEPT ![r.c] = new]
    BY <1>3, <2>1 DEF RetrySave
  <2>6. new.status \in EscrowMoves[escrow[r.c].status]
    BY <2>3, <2>4, EscrowEdges
  <2>7. Exists(escrow[r.c])
    BY <2>4 DEF Exists
  <2> QED
    BY <1>w, <2>3, <2>4, <2>5, <2>6, <2>7
<1>4. ASSUME NEW op, ApplyRead(k, op) PROVE HolderFine(k)
  <2>1. UNCHANGED escrow /\ \E p \in {"audit", "dwrite"} : Goto(k, p)
    BY <1>4 DEF ApplyRead
  <2> QED
    BY <1>g, <2>1
<1>5. ASSUME NEW op, ApplyWrite(k, op) PROVE HolderFine(k)
  BY <1>5, <1>g DEF ApplyWrite
<1>6. ASSUME NEW op, AdminAudit(k, op) PROVE HolderFine(k)
  BY <1>6, <1>a DEF AdminAudit
<1> QED
  BY <1>1, <1>2, <1>3, <1>4, <1>5, <1>6 DEF ResolveEscrow, RetryExpiredEscrow

\* The services that take no lock and write no escrow
LEMMA OthersHold ==
    ASSUME TypeOK, NEW k \in Calls,
           \/ CreateDelivery(k) \/ UpdateStatus(k) \/ AssignDriver(k)
           \/ \E op \in {"create", "status", "assign"} : DeliveryMilestone(k, op)
           \/ UploadProofOfDelivery(k) \/ ArchiveDelivery(k) \/ RestoreDelivery(k)
           \/ UpdateDelivery(k) \/ ImportDelivery(k)
    PROVE  HolderFine(k)
<1>1. UNCHANGED escrow
  <2>1. CASE CreateDelivery(k) \/ UpdateStatus(k) \/ AssignDriver(k)
    BY <2>1 DEF CreateDelivery, CreateCheck, CreateWrite, UpdateStatus, StatusCheck,
         StatusAssertProof, StatusWrite, AssignDriver, AssignReadDelivery, AssignReadEscrow,
         AssignSave
  <2>2. CASE \E op \in {"create", "status", "assign"} : DeliveryMilestone(k, op)
    BY <2>2 DEF DeliveryMilestone
  <2>3. CASE UploadProofOfDelivery(k) \/ ArchiveDelivery(k) \/ RestoreDelivery(k)
    BY <2>3 DEF UploadProofOfDelivery, ProofCheck, ProofSave, ArchiveDelivery, RestoreDelivery,
         ArchiveCheck, ArchiveSave
  <2>4. CASE UpdateDelivery(k) \/ ImportDelivery(k)
    BY <2>4 DEF UpdateDelivery, ImportDelivery
  <2> QED
    BY <2>1, <2>2, <2>3, <2>4
<1>2. /\ call[k].req.op \in {"create", "status", "assign", "proof", "archive", "restore", "update", "import"}
      /\ call[k].pc # "acquire"
  <2>1. CASE CreateDelivery(k)
    BY <2>1 DEF CreateDelivery, CreateCheck, CreateWrite, At
  <2>4. CASE UpdateStatus(k)
    BY <2>4 DEF UpdateStatus, StatusCheck, StatusAssertProof, StatusWrite, At
  <2>5. CASE AssignDriver(k)
    BY <2>5 DEF AssignDriver, AssignReadDelivery, AssignReadEscrow, AssignSave, At
  <2>2. CASE \E op \in {"create", "status", "assign"} : DeliveryMilestone(k, op)
    BY <2>2 DEF DeliveryMilestone, At
  <2>3. CASE UploadProofOfDelivery(k) \/ ArchiveDelivery(k) \/ RestoreDelivery(k)
    BY <2>3 DEF UploadProofOfDelivery, ProofCheck, ProofSave, ArchiveDelivery, RestoreDelivery,
         ArchiveCheck, ArchiveSave, At
  <2>6. CASE UpdateDelivery(k) \/ ImportDelivery(k)
    BY <2>6 DEF UpdateDelivery, ImportDelivery, At
  <2> QED
    BY <2>1, <2>2, <2>3, <2>4, <2>5, <2>6
<1>3. ~AcquireLock(k) /\ ~AcquireFails(k) /\ Serve(k)
  BY <1>2 DEF AcquireLock, AcquireFails, Serve
<1>4. OthersStay(k) /\ call'[k].req = call[k].req
  BY <1>3, ServeProceeds, ProceedsMoves
<1>5. call[k].req.op \notin Locking /\ call[k].req.op # "fund"
  BY <1>2 DEF Locking
<1> QED
  BY <1>1, <1>4, <1>5, LeavingIsFine

\* recordEscrowFunded, of the one transaction that funds the escrow
LEMMA FundHolds ==
    ASSUME TypeOK, NEW k \in Calls, StatusHeld(k), EscrowFits(k), RecordEscrowFunded(k)
    PROVE  HolderFine(k)
<1> DEFINE r == call[k].req
           e == call[k].seenE
<1>0. r.op = "fund"
  BY DEF RecordEscrowFunded, FundReadDelivery, FundCancelLapsed, FundRecordLapse,
         FundReadContract, FundCheck, FundWriteEscrow, FundWriteDelivery, FundMilestone, At
<1>f. r \in Request /\ r.c \in Contracts /\ r.h \in Hashes /\ escrow[r.c] \in EscrowDoc
  BY <1>0, CallFacts, RequestFields DEF TypeOK
<1>a. ASSUME NEW p \in {"done", "rejected", "failed"}, Finish(k, p), UNCHANGED escrow PROVE HolderFine(k)
  <2>1. OthersStay(k) /\ call'[k].pc = p
    BY <1>a DEF Finish, TypeOK, CallRec, OthersStay
  <2> QED
    BY <1>a, <2>1, LeavingIsFine
<1>g. ASSUME NEW p \in {"lapse", "lapsed", "dwrite", "milestone"}, Goto(k, p), UNCHANGED escrow
      PROVE  HolderFine(k)
  BY <1>g, GotoMoves, LeavingIsFine
<1>1. CASE FundReadDelivery(k)
  <2>1. CASE GotoSeeingD(k, "read", delivery[r.d])
    <3>1. OthersStay(k) /\ call'[k].pc = "read"
      BY <2>1, SeeingMoves
    <3> QED
      BY <1>1, <3>1, LeavingIsFine DEF FundReadDelivery
  <2> QED
    BY <1>1, <1>a, <1>g, <2>1 DEF FundReadDelivery
<1>2. CASE FundCancelLapsed(k)
  BY <1>2, <1>a, <1>g DEF FundCancelLapsed
<1>3. CASE FundRecordLapse(k)
  BY <1>3, <1>a DEF FundRecordLapse
<1>4. CASE FundReadContract(k)
  <2>1. OthersStay(k) /\ call'[k].pc = "read2" /\ call'[k].req = r /\ call'[k].seenE = escrow[r.c]
    BY <1>4, SeeingMoves DEF FundReadContract
  <2>2. UNCHANGED escrow
    BY <1>4 DEF FundReadContract
  <2>3. StatusHeld(k)'
    BY <1>0, <2>1 DEF StatusHeld, EscrowFits
  <2> QED
    BY <2>1, <2>2, <2>3 DEF HolderFine, EscrowsMoveRight, WritesItsOwn
<1>5. CASE FundCheck(k)
  <2>1. UNCHANGED escrow /\ call[k].pc = "read2"
    BY <1>5 DEF FundCheck, At
  <2>2. CASE r.h \notin HashesOf(e) /\ Goto(k, "write")
    <3>1. OthersStay(k) /\ call'[k].pc = "write" /\ call'[k].req = r /\ call'[k].seenE = e
      BY <2>2, GotoMoves
    <3>2. ~Exists(e)
      BY <1>0, <2>1, <2>2 DEF StatusHeld
    <3>3. StatusHeld(k)'
      BY <1>0, <3>1, <3>2 DEF StatusHeld
    <3> QED
      BY <2>1, <3>1, <3>3 DEF HolderFine, EscrowsMoveRight, WritesItsOwn
  <2> QED
    BY <1>5, <1>a, <2>1, <2>2 DEF FundCheck
<1>6. CASE FundWriteEscrow(k)
  <2>1. CASE FundConflicts(r, e)
    BY <1>6, <1>a, <2>1 DEF FundWriteEscrow
  <2>2. CASE ~FundConflicts(r, e)
    <3>1. ~Exists(e) /\ ~Exists(escrow[r.c])
      BY <1>0, <1>6, <2>2 DEF FundWriteEscrow, FundConflicts, StatusHeld, At
    <3>2. PICK new : new = FundedEscrow(r, e)
      OBVIOUS
    <3>3. new.status = "locked" /\ new.txs = Append(escrow[r.c].txs, [hash |-> r.h, kind |-> "fund"])
      BY <3>2 DEF FundedEscrow
    <3>4. escrow' = [escrow EXCEPT ![r.c] = new]
      BY <1>6, <2>2, <3>2 DEF FundWriteEscrow
    <3>5. escrow'[r.c] = new /\ \A c \in Contracts \ {r.c} : escrow'[c] = escrow[c]
      BY <1>f, <3>4 DEF TypeOK
    <3>6. r.h \in HashesOf(new)
      <4>1. PICK old \in EscrowDoc : old = escrow[r.c]
        BY <1>f
      <4>2. PICK tx \in Tx : tx = [hash |-> r.h, kind |-> "fund"]
        BY <1>f DEF Tx, TxKinds
      <4>3. new.txs = Append(old.txs, tx) /\ tx.hash = r.h
        BY <3>3, <4>1, <4>2
      <4> QED
        BY <4>3, HashesGrow
    <3>7. EscrowsMoveRight
      BY <3>1, <3>3, <3>5, EscrowEdges DEF EscrowsMoveRight, Exists
    <3>8. WritesItsOwn(k)
      BY <1>0, <3>1, <3>3, <3>5, <3>6 DEF WritesItsOwn
    <3>9. OthersStay(k) /\ call'[k].pc \in {"done", "dwrite"}
      <4>1. CASE Finish(k, "done")
        BY <4>1 DEF Finish, TypeOK, CallRec, OthersStay
      <4>2. CASE Goto(k, "dwrite")
        BY <4>2, GotoMoves
      <4> QED
        BY <1>6, <2>2, <4>1, <4>2 DEF FundWriteEscrow
    <3>10. StatusHeld(k)'
      BY <3>9 DEF StatusHeld
    <3> QED
      BY <3>7, <3>8, <3>9, <3>10 DEF HolderFine
  <2> QED
    BY <2>1, <2>2
<1>7. CASE FundWriteDelivery(k)
  BY <1>7, <1>g DEF FundWriteDelivery
<1>8. CASE FundMilestone(k)
  BY <1>8, <1>a DEF FundMilestone
<1> QED
  BY <1>1, <1>2, <1>3, <1>4, <1>5, <1>6, <1>7, <1>8 DEF RecordEscrowFunded

\* The indexer's conditional update, of an escrow no admin touches
LEMMA ChainHolds ==
    ASSUME TypeOK, NEW k \in Calls, EscrowFits(k), HandleSettlementEvent(k)
    PROVE  HolderFine(k)
<1> DEFINE r == call[k].req
<1>0. r.op = "chain" /\ r.op \notin Locking /\ r.op # "fund"
  BY DEF HandleSettlementEvent, ChainFind, ChainSettle, At, Locking
<1>f. /\ r.c \in Contracts /\ r.h \in Hashes /\ r.to \in {"released", "refunded"}
      /\ escrow[r.c] \in EscrowDoc
  BY <1>0, CallFacts, RequestFields DEF TypeOK
<1>1. OthersStay(k) /\ call'[k].req = r
  <2>1. ASSUME NEW p, Goto(k, p) PROVE OthersStay(k) /\ call'[k].req = r
    BY <2>1, GotoMoves
  <2>2. ASSUME NEW p, Finish(k, p) PROVE OthersStay(k) /\ call'[k].req = r
    BY <2>2 DEF Finish, TypeOK, CallRec, OthersStay
  <2> QED
    BY <2>1, <2>2 DEF HandleSettlementEvent, ChainFind, ChainSettle
<1>2. CASE UNCHANGED escrow
  BY <1>0, <1>1, <1>2, LeavingIsFine
<1>3. ASSUME ~UNCHANGED escrow PROVE HolderFine(k)
  <2>0. /\ ChainSettle(k) /\ Exists(escrow[r.c]) /\ escrow[r.c].status \notin CHAIN_TERMINAL_STATUSES
    BY <1>3 DEF HandleSettlementEvent, ChainFind, ChainSettle
  <2>2. PICK tx \in Tx : tx = [hash |-> r.h, kind |-> IF r.to = "released" THEN "release" ELSE "refund"]
    <3>1. (IF r.to = "released" THEN "release" ELSE "refund") \in TxKinds
      BY DEF TxKinds
    <3> QED
      BY <1>f, <3>1 DEF Tx
  <2>3. PICK t : t = Append(escrow[r.c].txs, tx)
    OBVIOUS
  <2>1. escrow' = [escrow EXCEPT ![r.c].status = r.to, ![r.c].txs = Append(@, tx)]
    BY <1>3, <2>0, <2>2 DEF ChainSettle
  <2>4. escrow' = [escrow EXCEPT ![r.c] = [escrow[r.c] EXCEPT !.status = r.to, !.txs = t]]
    BY <1>f, <2>1, <2>3 DEF TypeOK
  <2>5. /\ escrow'[r.c].status = r.to /\ escrow'[r.c].txs = t
        /\ \A c \in Contracts \ {r.c} : escrow'[c] = escrow[c]
    BY <1>f, <2>4 DEF TypeOK, EscrowDoc
  <2>6. HashesOf(escrow[r.c]) \subseteq HashesOf(escrow'[r.c])
    <3>1. PICK old \in EscrowDoc : old = escrow[r.c]
      BY <1>f
    <3>2. escrow'[r.c].txs = Append(old.txs, tx)
      BY <2>3, <2>5, <3>1, Zenon
    <3>3. HashesOf(old) \subseteq HashesOf(escrow'[r.c])
      BY <3>2, HashesGrow
    <3> QED
      BY <3>1, <3>3
  <2>7. escrow[r.c].status \in {"pending", "locked", "disputed", "expired"}
    BY <1>0, <1>f, <2>0 DEF EscrowFits, Exists, CHAIN_TERMINAL_STATUSES, EscrowDoc, EscrowStatuses
  <2>8. EscrowsMoveRight
    BY <1>f, <2>5, <2>7, EscrowEdges DEF EscrowsMoveRight
  <2>9. WritesItsOwn(k)
    <3>1. escrow'[r.c].status # "resolved"
      BY <1>f, <2>5
    <3> QED
      BY <1>0, <2>0, <2>5, <2>6, <3>1 DEF WritesItsOwn
  <2>10. StatusHeld(k)'
    BY <1>0, <1>1 DEF StatusHeld, Locking
  <2> QED
    BY <1>1, <2>8, <2>9, <2>10 DEF HolderFine
<1> QED
  BY <1>2, <1>3

\* A request of another kind, or of another escrow, leaves the holder its status.
LEMMA HoldersRest ==
    ASSUME TypeOK, OneKey, LockHeld, NEW k \in Calls, NEW j \in Calls, j # k,
           StatusHeld(j), call'[j] = call[j], WritesItsOwn(k)
    PROVE  StatusHeld(j)'
<1> DEFINE r == call[k].req
<1>1. CASE UNCHANGED escrow
  BY <1>1 DEF StatusHeld
<1>2. CASE ~InCriticalSection(j)
  BY <1>2 DEF StatusHeld, InCriticalSection, Running, Finished, Locking
<1>3. ASSUME InCriticalSection(j), \A c \in Contracts \ {r.c} : escrow'[c] = escrow[c],
             InCriticalSection(k) \/ r.op = "chain" \/ (r.op = "fund" /\ ~Exists(escrow[r.c]))
      PROVE  StatusHeld(j)'
  <2>1. call[j].req \in Request /\ call[j].req.op \in Locking
    BY <1>3, CallFacts DEF InCriticalSection
  <2>2. call[j].req.c \in Contracts
    BY <2>1, RequestFields DEF Locking
  <2>3. CASE call[j].req.c # r.c
    <3>1. escrow'[call[j].req.c] = escrow[call[j].req.c]
      BY <1>3, <2>2, <2>3
    <3> QED
      BY <3>1 DEF StatusHeld
  <2>4. CASE call[j].req.c = r.c
    <3>1. r.op = "fund" /\ ~Exists(escrow[r.c])
      BY <1>3, <2>1, <2>4 DEF OneKey, LockHeld, InCriticalSection
    <3> QED
      BY <2>1, <2>4, <3>1 DEF StatusHeld, Exists, RESOLVABLE_STATUSES, Locking
  <2> QED
    BY <2>3, <2>4
<1> QED
  BY <1>1, <1>2, <1>3 DEF WritesItsOwn

\* The escrow a request is about still fits it.
LEMMA FitsRests ==
    ASSUME TypeOK, OneKey, NEW k \in Calls, NEW j \in Calls,
           EscrowFits(j), call'[j].req = call[j].req, WritesItsOwn(k)
    PROVE  EscrowFits(j)'
<1> DEFINE r == call[k].req
           q == call[j].req
<1>1. CASE UNCHANGED escrow
  BY <1>1 DEF EscrowFits
<1>2. CASE q.op \notin {"fund", "chain"}
  BY <1>2 DEF EscrowFits
<1>3. ASSUME q.op \in {"fund", "chain"}, ~UNCHANGED escrow PROVE EscrowFits(j)'
  <2>1. q.c \in Contracts
    BY <1>3, CallFacts, RequestFields
  <2>2. CASE q.c # r.c
    <3>1. escrow'[q.c] = escrow[q.c]
      BY <1>3, <2>1, <2>2 DEF WritesItsOwn
    <3> QED
      BY <3>1 DEF EscrowFits
  <2>3. CASE q.c = r.c /\ q.op = "fund"
    <3>1. CASE r.op = "fund" /\ r.h \in HashesOf(escrow'[r.c])
      <4>1. q.h = r.h
        BY <2>3, <3>1 DEF OneKey
      <4> QED
        BY <2>3, <3>1, <4>1 DEF EscrowFits
    <3>2. CASE Exists(escrow[r.c]) /\ HashesOf(escrow[r.c]) \subseteq HashesOf(escrow'[r.c])
      BY <2>3, <3>2 DEF EscrowFits
    <3> QED
      BY <1>3, <3>1, <3>2 DEF WritesItsOwn
  <2>4. CASE q.c = r.c /\ q.op = "chain"
    <3>1. ~InCriticalSection(k)
      BY <2>4 DEF OneKey, InCriticalSection
    <3>2. escrow'[r.c].status # "resolved"
      BY <1>3, <3>1 DEF WritesItsOwn
    <3> QED
      BY <2>4, <3>2 DEF EscrowFits
  <2> QED
    BY <1>3, <2>2, <2>3, <2>4
<1> QED
  BY <1>1, <1>2, <1>3

LEMMA SerialStep ==
    ASSUME ~LocksExpire, SerialInv, [Next]_vars, TypeOK'
    PROVE  SerialInv' /\ EscrowsMoveRight
<1> DEFINE Kept == EscrowsMoveRight /\ \A j \in Calls : StatusHeld(j)' /\ EscrowFits(j)'
<1>0. TypeOK /\ OneKey /\ LockHeld /\ \A k \in Calls : StatusHeld(k) /\ EscrowFits(k)
  BY DEF SerialInv
<1>l. LockHeld'
  BY <1>0, HeldStep
<1>o. OneKey'
  BY <1>0, SameRequests DEF OneKey
<1>s. ASSUME UNCHANGED <<escrow, call>> PROVE Kept
  BY <1>0, <1>s DEF StatusHeld, EscrowFits, EscrowsMoveRight
<1>k. ASSUME NEW k \in Calls, HolderFine(k)
      PROVE  Kept
  <2>1. ASSUME NEW j \in Calls, j # k PROVE StatusHeld(j)'
    BY <1>0, <1>k, <2>1, HoldersRest DEF HolderFine, OthersStay
  <2>2. ASSUME NEW j \in Calls PROVE EscrowFits(j)'
    <3>1. call'[j].req = call[j].req
      BY <1>0, SameRequests
    <3> QED
      BY <1>0, <1>k, <3>1, FitsRests DEF HolderFine
  <2> QED
    BY <1>k, <2>1, <2>2 DEF HolderFine
<1>1. ASSUME NEW k \in Calls, Invoke(k) PROVE HolderFine(k)
  <2>1. UNCHANGED escrow /\ \E p \in {"acquire", "start"} : Goto(k, p)
    BY <1>1 DEF Invoke
  <2> QED
    BY <1>0, <2>1, GotoMoves, LeavingIsFine
<1>2. ASSUME NEW k \in Calls, Serve(k) PROVE HolderFine(k)
  <2>1. CASE AcquireLock(k)
    <3>1. OthersStay(k) /\ call'[k].pc = "read" /\ UNCHANGED escrow
      BY <1>0, <2>1 DEF AcquireLock, OthersStay, TypeOK, CallRec
    <3> QED
      BY <3>1, LeavingIsFine
  <2>2. CASE AcquireFails(k)
    <3>1. OthersStay(k) /\ call'[k].pc = "failed" /\ UNCHANGED escrow
      BY <1>0, <2>2 DEF AcquireFails, Finish, OthersStay, TypeOK, CallRec
    <3> QED
      BY <3>1, LeavingIsFine
  <2> QED
    BY <1>0, <1>2, <2>1, <2>2, FundHolds, ReleaseHolds, AdminHolds, ChainHolds, OthersHold DEF Serve
<1>3. ASSUME NEW k \in Calls, RequestFails(k) \/ ProcessCrashes(k) PROVE HolderFine(k)
  <2>1. OthersStay(k) /\ call'[k].pc = "failed" /\ UNCHANGED escrow
    BY <1>0, <1>3 DEF RequestFails, ProcessCrashes, Finish, OthersStay, TypeOK
  <2> QED
    BY <2>1, LeavingIsFine
<1>4. ASSUME NEW m \in Monitors, MonStep(m) \/ MonCancelFails(m) \/ MonCrash(m)
      PROVE  Kept
  <2>1. CASE MonFlag(m)
    <3>1. /\ call' = call
          /\ \A c \in Contracts :
               \/ escrow'[c] = escrow[c]
               \/ /\ escrow[c].status \in {"pending", "locked"} /\ escrow'[c].status = "expired"
                  /\ escrow'[c].txs = escrow[c].txs
      BY <1>0, <2>1 DEF MonFlag, EXPIRABLE_STATUSES, TypeOK, EscrowDoc
    <3>2. EscrowsMoveRight
      BY <3>1, EscrowEdges DEF EscrowsMoveRight
    <3>3. ASSUME NEW j \in Calls PROVE StatusHeld(j)'
      <4>1. CASE call[j].req.op \notin Locking
        BY <1>0, <3>1, <4>1 DEF StatusHeld, Locking
      <4>2. CASE call[j].req.op \in Locking
        <5>1. call[j].req.c \in Contracts
          BY <1>0, <4>2, CallFacts, RequestFields DEF Locking
        <5> QED
          BY <1>0, <3>1, <5>1 DEF StatusHeld, RESOLVABLE_STATUSES
      <4> QED
        BY <4>1, <4>2
    <3>4. ASSUME NEW j \in Calls PROVE EscrowFits(j)'
      <4>1. CASE call[j].req.op \notin {"fund", "chain"}
        BY <3>1, <4>1 DEF EscrowFits
      <4>2. CASE call[j].req.op \in {"fund", "chain"}
        <5>1. call[j].req.c \in Contracts
          BY <1>0, <4>2, CallFacts, RequestFields
        <5> QED
          BY <1>0, <3>1, <5>1 DEF EscrowFits, Exists, HashesOf
      <4> QED
        BY <4>1, <4>2
    <3> QED
      BY <3>2, <3>3, <3>4
  <2>2. CASE ~MonFlag(m)
    <3>1. UNCHANGED <<escrow, call>>
      BY <1>4, <2>2 DEF MonStep, ScanForExpiredEscrows, ScanLapsedFundingWindows, MonTick, MonFind,
           MonReload, MonCancelRead, MonCancelWrite, MonExpiryDone, MonFindLapsed,
           MonCancelLapsed, MonRecordLapse, MonDone, MonCancelFails, MonCrash
    <3> QED
      BY <1>s, <3>1
  <2> QED
    BY <2>1, <2>2
<1>5. ASSUME (\E key \in LockKeys : LockTimesOut(key)) \/ ClockTick \/ Rest \/ UNCHANGED vars
      PROVE  UNCHANGED <<escrow, call>>
  BY <1>5 DEF LockTimesOut, ClockTick, Rest, vars
<1>6. Kept
  BY <1>k, <1>s, <1>1, <1>2, <1>3, <1>4, <1>5 DEF Next
<1> QED
  BY <1>l, <1>o, <1>6 DEF SerialInv

LEMMA SerialInit == Serialized /\ Init => SerialInv
<1> SUFFICES ASSUME Serialized, Init PROVE SerialInv
  OBVIOUS
<1>1. PICK p \in Profiles : escrow = p.escrow /\ call \in [Calls -> {IdleCall(r) : r \in p.offered}]
  BY DEF Init
<1>2. \A k \in Calls : call[k].req \in p.offered /\ call[k].pc = "idle"
  BY <1>1 DEF IdleCall
<1>3. OneKey
  BY <1>2 DEF OneKey, Serialized
<1>4. LockHeld /\ \A k \in Calls : StatusHeld(k)
  BY <1>2 DEF LockHeld, InCriticalSection, Running, StatusHeld
<1>5. \A k \in Calls : EscrowFits(k)
  BY <1>1, <1>2 DEF EscrowFits, Serialized
<1> QED
  BY <1>3, <1>4, <1>5, TypeInit DEF SerialInv

\* Where releases and admins take one lock key of an escrow, one transaction
\* funds it and the indexer has its escrows to itself, and no handler outlives
\* its lock, the escrows follow their life cycle: opened once, settled once,
\* expired only while open, however funding events (repeated, too), releases,
\* admins' decisions, chain events and the monitors of all processes interleave
\* and whatever crashes.
THEOREM EscrowsMoveAlong ==
    Serialized /\ ~LocksExpire => (Spec => EscrowsFollowLifecycle)
<1> SUFFICES ASSUME Serialized, ~LocksExpire PROVE Spec => EscrowsFollowLifecycle
  OBVIOUS
<1>1. Init => SerialInv
  BY SerialInit
<1>2. SerialInv /\ TypeOK' /\ [Next]_vars => SerialInv'
  BY SerialStep
<1>3. SerialInv /\ TypeOK' /\ [Next]_vars => [EscrowLifecycle!Next]_([c \in Contracts |-> escrow[c].status])
  <2> SUFFICES ASSUME SerialInv, TypeOK', [Next]_vars PROVE EscrowLifecycle!Next
    OBVIOUS
  <2>1. EscrowsMoveRight
    BY SerialStep
  <2> QED
    BY <2>1 DEF EscrowsMoveRight, EscrowLifecycle!Next
<1>4. Init => EscrowLifecycle!Init
  <2> SUFFICES ASSUME Init PROVE EscrowLifecycle!Init
    OBVIOUS
  <2>1. PICK p \in Profiles : escrow = p.escrow
    BY DEF Init
  <2>2. [c \in Contracts |-> escrow[c].status] = [c \in Contracts |-> p.escrow[c].status]
    BY <2>1
  <2> QED
    BY <2>1, <2>2 DEF EscrowLifecycle!Init
<1> QED
  BY <1>1, <1>2, <1>3, <1>4, TypeCorrect, PTL DEF Spec, EscrowsFollowLifecycle, EscrowLifecycle!Spec

-----------------------------------------------------------------------------
(* releaseEscrow *)

\* The release transactions of escrow e.
ReleasesOf(e) == {i \in DOMAIN e.txs : e.txs[i].kind = "release"}

\* Nobody but releaseEscrow settles escrows, each under one of its names, and
\* what it settled before the start it settled soundly.
OnlyReleases ==
    /\ Serialized
    /\ \A p \in Profiles :
         /\ \A r \in p.offered : r.op \in {"release", "status", "proof"}
         /\ \A c \in Contracts : Exists(p.escrow[c]) =>
              LET e == p.escrow[c]
              IN /\ e.of \in Deliveries
                 /\ e.status = "released" => /\ p.delivery[e.of].proof
                                             /\ p.delivery[e.of].status = "completed"
                 /\ \A i \in ReleasesOf(e) : e.status = "released" /\ ReleasesOf(e) = {i}

\* An escrow has a release on its list only once released, and one only.
ReleasedOnce ==
    \A c \in Contracts : \A i \in ReleasesOf(escrow[c]) :
        escrow[c].status = "released" /\ ReleasesOf(escrow[c]) = {i}

ProofKnown ==
    \A c \in Contracts : escrow[c].status = "released" => delivery[escrow[c].of].proof

\* releaseEscrow about to write saw the proof of delivery.
ProofSeen(k) ==
    call[k].req.op = "release" /\ call[k].pc = "write"
        => delivery[escrow[call[k].req.c].of].proof

\* Request k released escrow c and has its delivery still to complete.
Completing(k, c) ==
    call[k].req.op = "release" /\ call[k].req.c = c /\ call[k].pc \in {"dread", "dwrite"}

CompletedOrDue ==
    \A c \in Contracts :
        faults = 0 /\ escrow[c].status = "released" /\ escrow[c].expiresAt > now
            => \/ delivery[escrow[c].of].status = "completed"
               \/ \E k \in Calls : Completing(k, c)

\* What a monitor scans is due, and stays due.
MonDue(m) ==
    /\ \A c \in mon[m].ids : Exists(escrow[c]) /\ escrow[c].expiresAt <= now
    /\ mon[m].pc = "cwrite" => mon[m].cur \in mon[m].ids

Linked == \A c \in Contracts : Exists(escrow[c]) => escrow[c].of \in Deliveries

ReleaseInv ==
    /\ RecordInv /\ OnlyReleaseEscrowSettles /\ Linked /\ ReleasedOnce /\ ProofKnown
    /\ (\A k \in Calls : ProofSeen(k)) /\ CompletedOrDue /\ \A m \in Monitors : MonDue(m)

\* What a step may do to the escrows and the deliveries behind them.
EscrowShape ==
    \A c \in Contracts :
        /\ escrow'[c].of = escrow[c].of /\ escrow'[c].expiresAt = escrow[c].expiresAt
        /\ Exists(escrow'[c]) <=> Exists(escrow[c])

ReleasedBy ==
    \A c \in Contracts : escrow'[c].status = "released" =>
        \/ escrow[c].status = "released"
        \/ \E k \in Calls : /\ call[k].req.op = "release" /\ call[k].req.c = c
                            /\ call[k].pc = "write" /\ Completing(k, c)'

ProofGrows == \A d \in Deliveries : delivery[d].proof => delivery'[d].proof

CompletedStays ==
    \A c \in Contracts :
        /\ Exists(escrow[c]) /\ escrow[c].expiresAt > now
        /\ delivery[escrow[c].of].status = "completed"
        => delivery'[escrow[c].of].status = "completed"

StepsRight == EscrowShape /\ ReleasedOnce' /\ ReleasedBy /\ ProofGrows /\ CompletedStays

\* A request that has a delivery to complete still has, or has done it, or fails.
Completes(k) ==
    \A c \in Contracts : Completing(k, c) =>
        \/ Completing(k, c)' \/ faults' # 0
        \/ delivery'[escrow[c].of].status = "completed"

LEMMA NothingWritten ==
    ASSUME ReleasedOnce, UNCHANGED <<delivery, escrow>> PROVE StepsRight
<1>1. ReleasedOnce'
  BY DEF ReleasedOnce, ReleasesOf
<1>2. EscrowShape /\ ReleasedBy /\ ProofGrows /\ CompletedStays
  BY DEF EscrowShape, ReleasedBy, ProofGrows, CompletedStays, Exists
<1> QED
  BY <1>1, <1>2 DEF StepsRight

\* What follows from such a step for the released escrows.
LEMMA ReleasedStaySound ==
    ASSUME TypeOK, TypeOK', Linked, ProofKnown, CompletedOrDue, NoStray,
           \A k \in Calls : ProofSeen(k) /\ SettleOK(k) /\ Completes(k),
           StepsRight, RestGrows
    PROVE  Linked' /\ ProofKnown' /\ CompletedOrDue'
<1>0. EscrowShape /\ ReleasedBy /\ ProofGrows /\ CompletedStays
  BY DEF StepsRight
<1>1. Linked'
  BY <1>0 DEF Linked, EscrowShape, Exists
\* Whoever released c saw its proof; its delivery is known.
<1>2. ASSUME NEW c \in Contracts, escrow'[c].status = "released"
      PROVE  /\ Exists(escrow[c]) /\ escrow[c].of \in Deliveries
             /\ delivery[escrow[c].of].proof
  <2>1. CASE escrow[c].status = "released"
    BY <2>1 DEF Linked, ProofKnown, Exists
  <2>2. CASE escrow[c].status # "released"
    <3>1. PICK k \in Calls : /\ call[k].req.op = "release" /\ call[k].req.c = c
                             /\ call[k].pc = "write"
      BY <1>0, <1>2, <2>2 DEF ReleasedBy
    <3>2. Exists(escrow[c])
      BY <3>1 DEF SettleOK, Locking
    <3> QED
      BY <3>1, <3>2 DEF Linked, ProofSeen
  <2> QED
    BY <2>1, <2>2
<1>3. ProofKnown'
  <2> SUFFICES ASSUME NEW c \in Contracts, escrow'[c].status = "released"
               PROVE  delivery'[escrow'[c].of].proof
    BY DEF ProofKnown
  <2> QED
    BY <1>0, <1>2 DEF EscrowShape, ProofGrows
<1>4. CompletedOrDue'
  <2> SUFFICES ASSUME NEW c \in Contracts, faults' = 0, escrow'[c].status = "released",
                      escrow'[c].expiresAt > now'
               PROVE  \/ delivery'[escrow'[c].of].status = "completed"
                      \/ \E k \in Calls : Completing(k, c)'
    BY DEF CompletedOrDue
  <2>1. escrow'[c].of = escrow[c].of /\ escrow[c].expiresAt > now /\ faults = 0
    <3>1. escrow'[c].expiresAt = escrow[c].expiresAt /\ escrow[c].expiresAt \in Nat
      BY <1>0 DEF EscrowShape, TypeOK, EscrowDoc
    <3>2. now \in Nat /\ now' \in Nat /\ now <= now'
      BY DEF TypeOK, RestGrows
    <3> QED
      BY <1>0, <3>1, <3>2 DEF EscrowShape, RestGrows
  <2>2. CASE escrow[c].status # "released"
    BY <1>0, <2>2 DEF ReleasedBy
  <2>3. CASE escrow[c].status = "released" /\ delivery[escrow[c].of].status = "completed"
    BY <1>0, <1>2, <2>1, <2>3 DEF CompletedStays
  <2>4. ASSUME NEW k \in Calls, Completing(k, c)
        PROVE  \/ delivery'[escrow'[c].of].status = "completed"
               \/ \E j \in Calls : Completing(j, c)'
    BY <2>1, <2>4 DEF Completes
  <2> QED
    BY <2>1, <2>2, <2>3, <2>4 DEF CompletedOrDue
<1> QED
  BY <1>1, <1>3, <1>4

LEMMA ProofStaysSeen ==
    ASSUME TypeOK, Linked, NEW k \in Calls, ProofSeen(k), SettleOK(k), call'[k] = call[k],
           EscrowShape, ProofGrows
    PROVE  ProofSeen(k)'
<1> SUFFICES ASSUME call[k].req.op = "release", call[k].pc = "write"
             PROVE  delivery'[escrow'[call[k].req.c].of].proof
  BY DEF ProofSeen
<1>1. call[k].req.c \in Contracts
  BY CallFacts, RequestFields
<1>2. escrow[call[k].req.c].of \in Deliveries
  BY <1>1 DEF SettleOK, Locking, Linked
<1> QED
  BY <1>1, <1>2 DEF ProofSeen, ProofGrows, EscrowShape

LEMMA StaysDue ==
    ASSUME TypeOK, TypeOK', NEW m \in Monitors, MonDue(m), EscrowShape, RestGrows,
           mon'[m].ids \subseteq mon[m].ids,
           mon'[m].pc = "cwrite" => mon'[m].cur \in mon'[m].ids
    PROVE  MonDue(m)'
<1>1. ASSUME NEW c \in mon'[m].ids PROVE Exists(escrow'[c]) /\ escrow'[c].expiresAt <= now'
  <2>1. c \in Contracts /\ Exists(escrow[c]) /\ escrow[c].expiresAt <= now
    BY <1>1 DEF MonDue, TypeOK, MonRec
  <2>2. escrow[c].expiresAt \in Nat /\ now \in Nat /\ now' \in Nat /\ now <= now'
    BY <2>1 DEF TypeOK, EscrowDoc, RestGrows
  <2> QED
    BY <2>1, <2>2 DEF EscrowShape
<1> QED
  BY <1>1 DEF MonDue, Exists

\* A step of request k.
ReleaseFine(k) == OthersStay(k) /\ StepsRight /\ ProofSeen(k)' /\ Completes(k)

LEMMA ReadingReleases ==
    ASSUME ReleasedOnce, NEW k \in Calls, OthersStay(k), UNCHANGED <<delivery, escrow>>,
           ~(call'[k].req.op = "release" /\ call'[k].pc = "write"),
           ~(call[k].req.op = "release" /\ call[k].pc \in {"dread", "dwrite"})
    PROVE  ReleaseFine(k)
  BY NothingWritten DEF ReleaseFine, ProofSeen, Completes, Completing

\* The first release on a list of transactions.
LEMMA FirstRelease ==
    ASSUME NEW s \in Seq(Tx), NEW tx \in Tx, tx.kind = "release",
           \A i \in DOMAIN s : s[i].kind # "release"
    PROVE  {i \in DOMAIN Append(s, tx) : Append(s, tx)[i].kind = "release"} = {Len(s) + 1}
<1>1. /\ Len(s) \in Nat /\ DOMAIN s = 1..Len(s)
      /\ DOMAIN Append(s, tx) = 1..(Len(s) + 1)
      /\ \A i \in 1..Len(s) : Append(s, tx)[i] = s[i]
      /\ Append(s, tx)[Len(s) + 1] = tx
  BY AppendProperties
<1>2. \A i \in 1..Len(s) : Append(s, tx)[i].kind # "release"
  BY <1>1
<1>3. \A i \in 1..(Len(s) + 1) : i \in 1..Len(s) \/ i = Len(s) + 1
  BY <1>1
<1>4. Len(s) + 1 \in 1..(Len(s) + 1)
  BY <1>1
<1> QED
  BY <1>1, <1>2, <1>3, <1>4, Zenon

\* releaseEscrow
LEMMA ReleaseReleases ==
    ASSUME TypeOK, Linked, ReleasedOnce, NEW k \in Calls, SettleOK(k), ProofSeen(k),
           StatusHeld(k), ReleaseEscrow(k)
    PROVE  ReleaseFine(k)
<1> DEFINE r == call[k].req
<1>0. r.op = "release"
  BY DEF ReleaseEscrow, ReleaseRead, ReleaseAssertProof, ReleaseSave,
         ReleaseReadDelivery, ReleaseWriteDelivery, At
<1>f. r.c \in Contracts /\ escrow[r.c] \in EscrowDoc
  BY <1>0, CallFacts, RequestFields DEF TypeOK
<1>a. ASSUME NEW p \in Finished, Finish(k, p) PROVE OthersStay(k) /\ call'[k].pc = p /\ ProofSeen(k)'
  <2>1. OthersStay(k) /\ call'[k].pc = p
    BY <1>a DEF Finish, TypeOK, CallRec, OthersStay
  <2> QED
    BY <2>1 DEF ProofSeen, Finished
<1>p. {"done", "rejected", "failed"} = Finished
  BY DEF Finished
<1>1. CASE ReleaseRead(k)
  <2>1. UNCHANGED <<delivery, escrow>> /\ call[k].pc = "read"
    BY <1>1 DEF ReleaseRead, At
  <2>2. OthersStay(k) /\ call'[k].pc # "write"
    <3>1. CASE Goto(k, "proof")
      BY <3>1, GotoMoves
    <3> QED
      BY <1>1, <1>a, <1>p, <3>1 DEF ReleaseRead
  <2> QED
    BY <2>1, <2>2, ReadingReleases
<1>2. CASE ReleaseAssertProof(k)
  <2>1. UNCHANGED <<delivery, escrow>> /\ call[k].pc = "proof"
    BY <1>2 DEF ReleaseAssertProof, At
  <2>2. CASE Finish(k, "rejected")
    <3>1. OthersStay(k) /\ call'[k].pc # "write"
      BY <1>a, <1>p, <2>2
    <3> QED
      BY <2>1, <3>1, ReadingReleases
  <2>3. CASE delivery[escrow[r.c].of].proof /\ Goto(k, "write")
    <3>1. OthersStay(k) /\ call'[k].req = r
      BY <2>3, GotoMoves
    <3>2. ProofSeen(k)'
      BY <2>1, <2>3, <3>1 DEF ProofSeen
    <3> QED
      BY <2>1, <3>1, <3>2, NothingWritten DEF ReleaseFine, Completes, Completing
  <2> QED
    BY <1>2, <2>2, <2>3 DEF ReleaseAssertProof
<1>3. CASE ReleaseSave(k)
  <2>0. UNCHANGED delivery /\ call[k].pc = "write" /\ Exists(escrow[r.c])
    BY <1>0, <1>3 DEF ReleaseSave, At, SettleOK, Locking
  <2>1. CASE HashTakenElsewhere(r.c, r.h)
    <3>1. UNCHANGED escrow /\ Finish(k, "failed")
      BY <1>3, <2>1 DEF ReleaseSave
    <3>2. OthersStay(k) /\ call'[k].pc # "write"
      BY <1>a, <1>p, <3>1
    <3> QED
      BY <2>0, <3>1, <3>2, ReadingReleases
  <2>2. CASE ~HashTakenElsewhere(r.c, r.h)
    <3>1. PICK tx : tx = [hash |-> r.h, kind |-> "release"]
      OBVIOUS
    <3>2. PICK t : t = Append(escrow[r.c].txs, tx)
      OBVIOUS
    <3>3. escrow' = [escrow EXCEPT ![r.c] = [escrow[r.c] EXCEPT !.status = "released", !.txs = t]]
      BY <1>3, <2>2, <3>1, <3>2 DEF ReleaseSave, TypeOK
    <3>4. /\ escrow'[r.c].status = "released" /\ escrow'[r.c].txs = t
          /\ escrow'[r.c].of = escrow[r.c].of /\ escrow'[r.c].expiresAt = escrow[r.c].expiresAt
          /\ \A c \in Contracts \ {r.c} : escrow'[c] = escrow[c]
      BY <1>f, <3>3 DEF TypeOK, EscrowDoc
    <3>5. ReleasesOf(escrow[r.c]) = {}
      BY <1>0, <1>f, <2>0 DEF StatusHeld, ReleasedOnce
    <3>6. ReleasesOf(escrow'[r.c]) = {Len(escrow[r.c].txs) + 1}
      <4>1. escrow[r.c].txs \in Seq(Tx) /\ tx \in Tx /\ tx.kind = "release"
        BY <1>0, <1>f, <3>1, CallFacts, RequestFields DEF EscrowDoc, Tx, TxKinds
      <4>2. \A i \in DOMAIN escrow[r.c].txs : escrow[r.c].txs[i].kind # "release"
        BY <3>5 DEF ReleasesOf
      <4> QED
        <5>1. PICK s \in Seq(Tx) : s = escrow[r.c].txs
          BY <4>1
        <5>2. {i \in DOMAIN Append(s, tx) : Append(s, tx)[i].kind = "release"} = {Len(s) + 1}
          BY <4>1, <4>2, <5>1, FirstRelease
        <5>3. t = Append(s, tx)
          BY <3>2, <5>1
        <5>4. {i \in DOMAIN t : t[i].kind = "release"} = {Len(s) + 1}
          BY <5>2, <5>3
        <5>5. ReleasesOf(escrow'[r.c]) = {i \in DOMAIN t : t[i].kind = "release"}
          BY <3>4 DEF ReleasesOf
        <5> QED
          BY <5>1, <5>4, <5>5
    <3>7. ReleasedOnce'
      <4> SUFFICES ASSUME NEW c \in Contracts, NEW i \in ReleasesOf(escrow'[c])
                   PROVE  escrow'[c].status = "released" /\ ReleasesOf(escrow'[c]) = {i}
        BY DEF ReleasedOnce, ReleasesOf
      <4>1. CASE c = r.c
        BY <3>4, <3>6, <4>1
      <4>2. CASE c # r.c
        BY <3>4, <4>2 DEF ReleasedOnce
      <4> QED
        BY <4>1, <4>2
    <3>8. OthersStay(k) /\ call'[k].pc = "dread" /\ call'[k].req = r
      BY <1>3, <2>2, GotoMoves DEF ReleaseSave
    <3>9. \A c : c = r.c => Completing(k, c)'
      BY <1>0, <3>8 DEF Completing
    <3>10. ReleasedBy
      <4> SUFFICES ASSUME NEW c \in Contracts, escrow'[c].status = "released",
                          escrow[c].status # "released"
                   PROVE  \E j \in Calls : /\ call[j].req.op = "release" /\ call[j].req.c = c
                                            /\ call[j].pc = "write" /\ Completing(j, c)'
        BY DEF ReleasedBy
      <4>1. c = r.c
        BY <3>4
      <4> QED
        BY <1>0, <2>0, <3>9, <4>1
    <3>11. EscrowShape
      BY <2>0, <3>4 DEF EscrowShape, Exists
    <3>12. ProofGrows /\ CompletedStays
      BY <2>0 DEF ProofGrows, CompletedStays
    <3>13. ProofSeen(k)' /\ Completes(k)
      BY <2>0, <3>8 DEF ProofSeen, Completes, Completing
    <3> QED
      BY <3>7, <3>8, <3>10, <3>11, <3>12, <3>13 DEF ReleaseFine, StepsRight
  <2> QED
    BY <2>1, <2>2
<1>4. CASE ReleaseReadDelivery(k)
  <2>1. UNCHANGED <<delivery, escrow>>
    BY <1>4 DEF ReleaseReadDelivery
  <2>2. CASE delivery[escrow[r.c].of].status = "completed" /\ Finish(k, "done")
    <3>1. OthersStay(k) /\ ProofSeen(k)'
      BY <1>a, <1>p, <2>2
    <3>2. Completes(k)
      BY <2>1, <2>2 DEF Completes, Completing
    <3> QED
      BY <2>1, <3>1, <3>2, NothingWritten DEF ReleaseFine
  <2>3. CASE Goto(k, "dwrite")
    <3>1. OthersStay(k) /\ call'[k].pc = "dwrite" /\ call'[k].req = r
      BY <2>3, GotoMoves
    <3>2. Completes(k) /\ ProofSeen(k)'
      BY <3>1 DEF Completes, Completing, ProofSeen
    <3> QED
      BY <2>1, <3>1, <3>2, NothingWritten DEF ReleaseFine
  <2> QED
    BY <1>4, <2>2, <2>3 DEF ReleaseReadDelivery
<1>5. CASE ReleaseWriteDelivery(k)
  <2>1. /\ UNCHANGED escrow /\ Finish(k, "done") /\ Exists(escrow[r.c])
        /\ SetStatus(escrow[r.c].of, "completed")
    BY <1>0, <1>5 DEF ReleaseWriteDelivery, At, SettleOK, Locking
  <2>2. escrow[r.c].of \in Deliveries
    BY <1>f, <2>1 DEF Linked
  <2>3. /\ delivery'[escrow[r.c].of].status = "completed"
        /\ delivery'[escrow[r.c].of].proof = delivery[escrow[r.c].of].proof
        /\ \A d \in Deliveries : d # escrow[r.c].of => delivery'[d] = delivery[d]
    BY <2>1, <2>2 DEF SetStatus, TypeOK, DeliveryDoc
  <2>4. EscrowShape /\ ReleasedBy /\ ReleasedOnce'
    BY <2>1 DEF EscrowShape, ReleasedBy, ReleasedOnce, ReleasesOf, Exists
  <2>5. ProofGrows
    BY <2>3 DEF ProofGrows
  <2>6. CompletedStays
    BY <2>3 DEF CompletedStays, Linked
  <2>7. Completes(k)
    BY <2>3 DEF Completes, Completing
  <2> QED
    BY <1>a, <1>p, <2>1, <2>4, <2>5, <2>6, <2>7 DEF ReleaseFine, StepsRight
<1> QED
  BY <1>1, <1>2, <1>3, <1>4, <1>5 DEF ReleaseEscrow

\* updateStatus with its milestone, and uploadProofOfDelivery
LEMMA OthersRelease ==
    ASSUME TypeOK, Linked, ReleasedOnce, NEW k \in Calls, DeliveryOK(k),
           UpdateStatus(k) \/ DeliveryMilestone(k, "status") \/ UploadProofOfDelivery(k)
    PROVE  ReleaseFine(k)
<1> DEFINE r == call[k].req
<1>0. r.op \in {"status", "proof"} /\ UNCHANGED escrow /\ call[k].pc # "acquire"
  BY DEF UpdateStatus, StatusCheck, StatusAssertProof, StatusWrite, DeliveryMilestone,
         UploadProofOfDelivery, ProofCheck, ProofSave, At
<1>1. r.d \in Deliveries /\ delivery[r.d] \in DeliveryDoc
  BY <1>0, CallFacts, RequestFields DEF TypeOK
<1>2. OthersStay(k) /\ call'[k].req = r
  <2>1. Serve(k) /\ ~AcquireLock(k) /\ ~AcquireFails(k)
    BY <1>0 DEF Serve, AcquireLock, AcquireFails
  <2> QED
    BY <2>1, ServeProceeds, ProceedsMoves
<1>3. ProofSeen(k)' /\ Completes(k)
  BY <1>0, <1>2 DEF ProofSeen, Completes, Completing
<1>4. EscrowShape /\ ReleasedBy /\ ReleasedOnce'
  BY <1>0 DEF EscrowShape, ReleasedBy, ReleasedOnce, ReleasesOf, Exists
<1>5. ProofGrows /\ CompletedStays
  <2>1. CASE StatusWrite(k)
    <3>1. CASE delivery[r.d].status = call[k].seenD.status
      <4>1. r.to \in ALLOWED_TRANSITIONS[delivery[r.d].status]
        BY <2>1, <3>1 DEF DeliveryOK, StatusWrite, At
      <4>2. delivery[r.d].status # "completed"
        BY <4>1 DEF ALLOWED_TRANSITIONS
      <4>3. delivery' = [delivery EXCEPT ![r.d].status = r.to]
        BY <2>1, <3>1 DEF StatusWrite, MoveStatus, SetStatus
      <4>4. /\ delivery'[r.d].proof = delivery[r.d].proof
            /\ \A d \in Deliveries : d # r.d => delivery'[d] = delivery[d]
        BY <1>1, <4>3 DEF TypeOK, DeliveryDoc
      <4> QED
        BY <4>2, <4>4 DEF ProofGrows, CompletedStays, Linked
    <3>2. CASE delivery[r.d].status # call[k].seenD.status
      BY <2>1, <3>2 DEF StatusWrite, MoveStatus, ProofGrows, CompletedStays
    <3> QED
      BY <3>1, <3>2
  <2>2. CASE ProofSave(k)
    <3>1. delivery' = [delivery EXCEPT ![r.d].proof = TRUE]
      BY <2>2 DEF ProofSave
    <3>2. /\ delivery'[r.d].proof /\ delivery'[r.d].status = delivery[r.d].status
          /\ \A d \in Deliveries : d # r.d => delivery'[d] = delivery[d]
      BY <1>1, <3>1 DEF TypeOK, DeliveryDoc
    <3> QED
      BY <3>2 DEF ProofGrows, CompletedStays, Linked
  <2>3. CASE UNCHANGED delivery
    BY <2>3 DEF ProofGrows, CompletedStays
  <2> QED
    BY <2>1, <2>2, <2>3 DEF UpdateStatus, StatusCheck, StatusAssertProof, DeliveryMilestone,
         UploadProofOfDelivery, ProofCheck
<1> QED
  BY <1>2, <1>3, <1>4, <1>5 DEF ReleaseFine, StepsRight

\* The escrow monitor
LEMMA MonitorReleases ==
    ASSUME TypeOK, TypeOK', LapseNamed, LinksAreUnique, Linked, ReleasedOnce, RestGrows,
           NEW m \in Monitors, MonOK(m), MonDue(m),
           MonStep(m) \/ MonCancelFails(m) \/ MonCrash(m)
    PROVE  StepsRight /\ MonDue(m)'
<1>f. mon \in [Monitors -> MonRec] /\ mon[m] \in MonRec /\ mon[m].ids \subseteq Contracts
  BY DEF TypeOK, MonRec
<1>k. ASSUME StepsRight, mon'[m].ids \subseteq mon[m].ids,
             mon'[m].pc = "cwrite" => mon'[m].cur \in mon'[m].ids
      PROVE  StepsRight /\ MonDue(m)'
  BY <1>k, StaysDue DEF StepsRight
<1>u. ASSUME UNCHANGED <<delivery, escrow>> PROVE StepsRight
  BY <1>u, NothingWritten
<1>e. ASSUME UNCHANGED escrow, ProofGrows, CompletedStays PROVE StepsRight
  BY <1>e DEF StepsRight, EscrowShape, ReleasedBy, ReleasedOnce, ReleasesOf, Exists
<1>g. ASSUME NEW p, MonGoto(m, p)
      PROVE  mon'[m].ids = mon[m].ids /\ mon'[m].pc = p
  BY <1>f, <1>g DEF MonGoto, MonRec
<1>n. ASSUME NextFlagged(m) PROVE mon'[m].ids \subseteq mon[m].ids /\ mon'[m].pc = "cancel"
  <2>1. PICK I : I = mon[m].ids \ {mon[m].cur}
    OBVIOUS
  <2>2. mon' = [mon EXCEPT ![m] = [mon[m] EXCEPT !.pc = "cancel", !.ids = I, !.cur = Free]]
    BY <1>f, <1>n, <2>1 DEF NextFlagged
  <2>3. mon'[m].ids = I /\ mon'[m].pc = "cancel"
    BY <1>f, <2>2 DEF MonRec
  <2> QED
    BY <2>1, <2>3
\* Cancelling what is pending completes nothing.
<1>c. ASSUME NEW d \in Deliveries, CancelLapsed(d) PROVE ProofGrows /\ CompletedStays
  <2>1. CASE delivery[d].status # "pending"
    BY <1>c, <2>1 DEF CancelLapsed, ProofGrows, CompletedStays
  <2>2. CASE delivery[d].status = "pending"
    <3>1. delivery' = [delivery EXCEPT ![d].status = "cancelled", ![d].lapsed = TRUE]
      BY <1>c, <2>2 DEF CancelLapsed
    <3>2. /\ delivery'[d].proof = delivery[d].proof
          /\ \A x \in Deliveries : x # d => delivery'[x] = delivery[x]
      BY <1>c, <3>1 DEF TypeOK, DeliveryDoc
    <3> QED
      BY <2>2, <3>2 DEF ProofGrows, CompletedStays, Linked
  <2> QED
    BY <2>1, <2>2
<1>1. CASE MonTick(m) \/ MonExpiryDone(m) \/ MonDone(m)
  <2>1. UNCHANGED <<delivery, escrow>> /\ \E p \in {"find", "ffind", "idle"} : MonGoto(m, p)
    BY <1>1 DEF MonTick, MonExpiryDone, MonDone
  <2> QED
    BY <1>g, <1>k, <1>u, <2>1
<1>2. CASE MonFind(m)
  <2>1. UNCHANGED <<delivery, escrow, now>>
    BY <1>2 DEF MonFind
  <2>2. PICK due : /\ due = {c \in Contracts : /\ escrow[c].status \in EXPIRABLE_STATUSES
                                               /\ escrow[c].expiresAt <= now}
                   /\ mon' = [mon EXCEPT ![m].ids = due, ![m].pc = IF due = {} THEN "ffind" ELSE "flag"]
    BY <1>2, Zenon DEF MonFind
  <2>3. PICK p \in {"ffind", "flag"} : mon' = [mon EXCEPT ![m].ids = due, ![m].pc = p]
    BY <2>2
  <2>4. mon'[m].ids = due /\ mon'[m].pc = p
    BY <1>f, <2>3 DEF MonRec
  <2>5. \A c \in due : Exists(escrow[c]) /\ escrow[c].expiresAt <= now
    BY <2>2 DEF Exists, EXPIRABLE_STATUSES
  <2>6. MonDue(m)'
    BY <2>1, <2>3, <2>4, <2>5 DEF MonDue, Exists
  <2> QED
    BY <1>u, <2>1, <2>6
<1>3. CASE MonFlag(m)
  <2>1. UNCHANGED delivery /\ MonGoto(m, "reload")
    BY <1>3 DEF MonFlag
  <2>2. \A c \in Contracts :
          /\ escrow'[c].of = escrow[c].of /\ escrow'[c].txs = escrow[c].txs
          /\ escrow'[c].expiresAt = escrow[c].expiresAt
          /\ \/ escrow'[c] = escrow[c]
             \/ escrow[c].status \in {"pending", "locked"} /\ escrow'[c].status = "expired"
    BY <1>3 DEF MonFlag, EXPIRABLE_STATUSES, TypeOK, EscrowDoc
  <2>3. EscrowShape /\ ReleasedBy
    BY <2>2 DEF EscrowShape, ReleasedBy, Exists
  <2>4. ReleasedOnce'
    <3> SUFFICES ASSUME NEW c \in Contracts, NEW i \in ReleasesOf(escrow'[c])
                 PROVE  escrow'[c].status = "released" /\ ReleasesOf(escrow'[c]) = {i}
      BY DEF ReleasedOnce, ReleasesOf
    <3>1. ReleasesOf(escrow'[c]) = ReleasesOf(escrow[c])
      BY <2>2 DEF ReleasesOf
    <3> QED
      BY <2>2, <3>1 DEF ReleasedOnce
  <2>5. StepsRight
    BY <2>1, <2>3, <2>4 DEF StepsRight, ProofGrows, CompletedStays
  <2> QED
    BY <1>g, <1>k, <2>1, <2>5
<1>4. CASE MonReload(m)
  <2>1. UNCHANGED <<delivery, escrow>>
    BY <1>4 DEF MonReload
  <2>2. PICK I : I = {c \in mon[m].ids : escrow[c].status = "expired"}
    OBVIOUS
  <2>3. mon' = [mon EXCEPT ![m] = [mon[m] EXCEPT !.ids = I, !.pc = "cancel"]]
    BY <1>4, <1>f, <2>2 DEF MonReload
  <2>4. mon'[m].ids = I /\ mon'[m].pc = "cancel"
    BY <1>f, <2>3 DEF MonRec
  <2> QED
    BY <1>k, <1>u, <2>1, <2>2, <2>4
<1>5. CASE MonCancelRead(m)
  <2>1. UNCHANGED <<delivery, escrow>> /\ mon[m].pc = "cancel"
    BY <1>5 DEF MonCancelRead
  <2>2. PICK c \in mon[m].ids : \/ mon' = [mon EXCEPT ![m].ids = @ \ {c}]
                                \/ mon' = [mon EXCEPT ![m].pc = "cwrite", ![m].cur = c]
    BY <1>5 DEF MonCancelRead
  <2>3. CASE mon' = [mon EXCEPT ![m].pc = "cwrite", ![m].cur = c]
    <3>1. mon'[m].ids = mon[m].ids /\ mon'[m].cur = c
      BY <1>f, <2>3 DEF MonRec
    <3> QED
      BY <1>k, <1>u, <2>1, <2>2, <3>1
  <2>4. CASE mon' = [mon EXCEPT ![m].ids = @ \ {c}]
    <3>1. PICK I : I = mon[m].ids \ {c}
      OBVIOUS
    <3>2. mon' = [mon EXCEPT ![m] = [mon[m] EXCEPT !.ids = I]]
      BY <1>f, <2>4, <3>1
    <3>3. mon'[m].ids = I /\ mon'[m].pc = "cancel"
      BY <1>f, <2>1, <3>2 DEF MonRec
    <3> QED
      BY <1>k, <1>u, <2>1, <3>1, <3>3
  <2> QED
    BY <2>2, <2>3, <2>4
<1>6. CASE MonCancelWrite(m)
  <2> DEFINE c == mon[m].cur
             d == escrow[c].of
  <2>1. UNCHANGED escrow /\ NextFlagged(m) /\ SetStatus(d, "cancelled") /\ mon[m].pc = "cwrite"
    BY <1>6 DEF MonCancelWrite
  <2>2. c \in Contracts /\ Exists(escrow[c]) /\ escrow[c].expiresAt <= now /\ d \in Deliveries
    BY <1>f, <2>1 DEF MonDue, Linked
  <2>3. /\ delivery'[d].proof = delivery[d].proof
        /\ \A x \in Deliveries : x # d => delivery'[x] = delivery[x]
    BY <2>1, <2>2 DEF SetStatus, TypeOK, DeliveryDoc
  <2>4. ProofGrows
    BY <2>3 DEF ProofGrows
  <2>5. CompletedStays
    <3> SUFFICES ASSUME NEW x \in Contracts, Exists(escrow[x]), escrow[x].expiresAt > now
                 PROVE  delivery'[escrow[x].of] = delivery[escrow[x].of]
      BY DEF CompletedStays
    <3>1. x # c
      <4>1. escrow[x].expiresAt \in Nat /\ now \in Nat
        BY DEF TypeOK, EscrowDoc
      <4> QED
        BY <2>2, <4>1
    <3>2. escrow[x].of # d /\ escrow[x].of \in Deliveries
      BY <2>2, <3>1 DEF LinksAreUnique, Indexed, Linked
    <3> QED
      BY <2>3, <3>2
  <2> QED
    BY <1>e, <1>k, <1>n, <2>1, <2>4, <2>5
<1>7. CASE MonFindLapsed(m)
  <2>1. UNCHANGED <<delivery, escrow>>
    BY <1>7 DEF MonFindLapsed
  <2>2. PICK T : mon' = [mon EXCEPT ![m].pc = "lapse", ![m].todo = T]
    BY <1>7, Zenon DEF MonFindLapsed
  <2>3. mon'[m].ids = mon[m].ids /\ mon'[m].pc = "lapse"
    BY <1>f, <2>2 DEF MonRec
  <2> QED
    BY <1>k, <1>u, <2>1, <2>3
<1>8. CASE MonCancelLapsed(m)
  <2>1. UNCHANGED escrow /\ mon[m].pc = "lapse"
    BY <1>8 DEF MonCancelLapsed
  <2>2. PICK d \in mon[m].todo : /\ CancelLapsed(d)
                                 /\ \/ mon' = [mon EXCEPT ![m].pc = "lapsed", ![m].curD = d]
                                    \/ mon' = [mon EXCEPT ![m].todo = @ \ {d}]
    BY <1>8 DEF MonCancelLapsed
  <2>3. d \in Deliveries
    BY <1>f, <2>2 DEF MonRec
  <2>4. mon'[m].ids = mon[m].ids /\ mon'[m].pc # "cwrite"
    <3>1. PICK T : T = mon[m].todo \ {d}
      OBVIOUS
    <3>2. \/ mon' = [mon EXCEPT ![m].pc = "lapsed", ![m].curD = d]
          \/ mon' = [mon EXCEPT ![m].todo = T]
      BY <1>f, <2>2, <3>1
    <3> QED
      BY <1>f, <2>1, <3>2 DEF MonRec
  <2> QED
    BY <1>c, <1>e, <1>k, <2>1, <2>2, <2>3, <2>4
<1>9. CASE MonRecordLapse(m)
  <2>1. UNCHANGED <<delivery, escrow>>
    BY <1>9 DEF MonRecordLapse
  <2>2. PICK T : T = mon[m].todo \ {mon[m].curD}
    OBVIOUS
  <2>3. mon' = [mon EXCEPT ![m] = [mon[m] EXCEPT !.pc = "lapse", !.todo = T, !.curD = Free]]
    BY <1>9, <1>f, <2>2 DEF MonRecordLapse
  <2>4. mon'[m].ids = mon[m].ids /\ mon'[m].pc = "lapse"
    BY <1>f, <2>3 DEF MonRec
  <2> QED
    BY <1>k, <1>u, <2>1, <2>4
<1>10. CASE MonCancelFails(m)
  <2>1. UNCHANGED <<delivery, escrow>> /\ NextFlagged(m)
    BY <1>10 DEF MonCancelFails
  <2> QED
    BY <1>k, <1>n, <1>u, <2>1
<1>11. CASE MonCrash(m)
  <2>1. UNCHANGED <<delivery, escrow>> /\ mon'[m].ids = {} /\ mon'[m].pc = "idle"
    BY <1>f, <1>11 DEF MonCrash, IdleMon
  <2> QED
    BY <1>k, <1>u, <2>1
<1> QED
  BY <1>1, <1>2, <1>3, <1>4, <1>5, <1>6, <1>7, <1>8, <1>9, <1>10, <1>11
     DEF MonStep, ScanForExpiredEscrows, ScanLapsedFundingWindows

LEMMA ReleaseStep ==
    ASSUME ReleaseInv, SerialInv, [Next]_vars PROVE ReleaseInv'
<1>0. /\ RecordInv /\ TypeOK /\ LapseNamed /\ LinksAreUnique /\ NoStray /\ Linked
      /\ ReleasedOnce /\ ProofKnown /\ CompletedOrDue /\ OnlyReleaseEscrowSettles
      /\ \A k \in Calls : ProofSeen(k) /\ CallOK(k) /\ SettleOK(k) /\ StatusHeld(k) /\ DeliveryOK(k)
      /\ \A m \in Monitors : MonOK(m) /\ MonDue(m)
  BY DEF ReleaseInv, RecordInv, TypeInv, SerialInv, CallOK
<1>t. RecordInv' /\ TypeOK' /\ RestGrows
  BY <1>0, RecordKept DEF RecordStep, RecordInv, TypeInv
<1>o. OnlyReleaseEscrowSettles'
  BY <1>0, SameRequests DEF OnlyReleaseEscrowSettles
<1>w. ASSUME StepsRight, \A k \in Calls : Completes(k) /\ ProofSeen(k)',
             \A m \in Monitors : MonDue(m)'
      PROVE  ReleaseInv'
  <2>1. Linked' /\ ProofKnown' /\ CompletedOrDue'
    BY <1>0, <1>t, <1>w, ReleasedStaySound
  <2> QED
    BY <1>t, <1>o, <1>w, <2>1 DEF ReleaseInv, StepsRight
\* Whoever rests.
<1>j. ASSUME NEW j \in Calls, call'[j] = call[j], StepsRight PROVE Completes(j) /\ ProofSeen(j)'
  <2>1. ProofSeen(j)'
    BY <1>0, <1>j, ProofStaysSeen DEF StepsRight
  <2>2. Completes(j)
    BY <1>j DEF Completes, Completing
  <2> QED
    BY <2>1, <2>2
<1>m. ASSUME NEW m \in Monitors, mon'[m] = mon[m], StepsRight PROVE MonDue(m)'
  <2>1. mon'[m].ids \subseteq mon[m].ids /\ (mon'[m].pc = "cwrite" => mon'[m].cur \in mon'[m].ids)
    BY <1>0, <1>m DEF MonDue
  <2> QED
    BY <1>0, <1>t, <1>m, <2>1, StaysDue DEF StepsRight
<1>k. ASSUME NEW k \in Calls, ReleaseFine(k), UNCHANGED mon PROVE ReleaseInv'
  <2>1. \A j \in Calls : Completes(j) /\ ProofSeen(j)'
    BY <1>j, <1>k DEF ReleaseFine, OthersStay
  <2>2. \A m \in Monitors : MonDue(m)'
    BY <1>m, <1>k DEF ReleaseFine
  <2> QED
    BY <1>w, <1>k, <2>1, <2>2 DEF ReleaseFine
<1>s. ASSUME UNCHANGED <<delivery, escrow, call, mon>> PROVE ReleaseInv'
  <2>1. StepsRight
    BY <1>0, <1>s, NothingWritten
  <2> QED
    BY <1>j, <1>m, <1>s, <1>w, <2>1
<1>1. ASSUME NEW k \in Calls, Invoke(k) PROVE ReleaseInv'
  <2>1. UNCHANGED <<delivery, escrow, mon>> /\ call[k].pc = "idle"
    BY <1>1 DEF Invoke
  <2>2. PICK p \in {"acquire", "start"} : Goto(k, p)
    BY <1>1 DEF Invoke
  <2>3. OthersStay(k) /\ call'[k].pc = p
    BY <1>0, <2>2, GotoMoves
  <2>4. ReleaseFine(k)
    BY <1>0, <2>1, <2>2, <2>3, ReadingReleases
  <2> QED
    BY <1>k, <2>1, <2>4
<1>2. ASSUME NEW k \in Calls, Serve(k) PROVE ReleaseInv'
  <2>0. UNCHANGED mon
    BY <1>0, <1>2, ServeTypes
  <2>1. CASE AcquireLock(k)
    <3>1. OthersStay(k) /\ call'[k].pc = "read" /\ UNCHANGED <<delivery, escrow>> /\ call[k].pc = "acquire"
      BY <1>0, <2>1 DEF AcquireLock, OthersStay, TypeOK, CallRec
    <3>2. ReleaseFine(k)
      BY <1>0, <3>1, ReadingReleases
    <3> QED
      BY <1>k, <2>0, <3>2
  <2>2. CASE AcquireFails(k)
    <3>1. OthersStay(k) /\ call'[k].pc = "failed" /\ UNCHANGED <<delivery, escrow>> /\ call[k].pc = "acquire"
      BY <1>0, <2>2 DEF AcquireFails, Finish, OthersStay, TypeOK, CallRec
    <3>2. ReleaseFine(k)
      BY <1>0, <3>1, ReadingReleases
    <3> QED
      BY <1>k, <2>0, <3>2
  <2>3. CASE ReleaseEscrow(k)
    BY <1>0, <1>k, <2>0, <2>3, ReleaseReleases
  <2>4. CASE UpdateStatus(k) \/ DeliveryMilestone(k, "status") \/ UploadProofOfDelivery(k)
    BY <1>0, <1>k, <2>0, <2>4, OthersRelease
  <2>5. call[k].req.op \in {"release", "status", "proof"}
    BY <1>0 DEF OnlyReleaseEscrowSettles
  <2>6. ~RecordEscrowFunded(k) /\ ~HandleSettlementEvent(k)
    BY <2>5 DEF At, RecordEscrowFunded, FundReadDelivery, FundCancelLapsed, FundRecordLapse,
         FundReadContract, FundCheck, FundWriteEscrow, FundWriteDelivery, FundMilestone,
         HandleSettlementEvent, ChainFind, ChainSettle
  <2>7. ~ResolveEscrow(k) /\ ~RetryExpiredEscrow(k)
    BY <2>5 DEF At, ResolveEscrow, RetryExpiredEscrow, AdminRead, ResolveSave, RetrySave,
         ApplyRead, ApplyWrite, AdminAudit
  <2>8. /\ ~CreateDelivery(k) /\ ~AssignDriver(k) /\ ~ArchiveDelivery(k) /\ ~RestoreDelivery(k)
        /\ \A op \in {"create", "status", "assign"} : DeliveryMilestone(k, op) => op = "status"
    BY <2>5 DEF At, CreateDelivery, CreateCheck, CreateWrite, AssignDriver, AssignReadDelivery,
         AssignReadEscrow, AssignSave, ArchiveDelivery, RestoreDelivery, ArchiveCheck,
         ArchiveSave, DeliveryMilestone
  <2>9. ~UpdateDelivery(k) /\ ~ImportDelivery(k)
    BY <2>5 DEF At, UpdateDelivery, ImportDelivery
  <2> QED
    BY <1>2, <2>1, <2>2, <2>3, <2>4, <2>6, <2>7, <2>8, <2>9 DEF Serve
<1>3. ASSUME NEW k \in Calls, RequestFails(k) \/ ProcessCrashes(k) PROVE ReleaseInv'
  <2>1. UNCHANGED <<delivery, escrow, mon>> /\ faults' # 0
    BY <1>0, <1>3 DEF RequestFails, ProcessCrashes, Fault, TypeOK
  <2>2. OthersStay(k) /\ call'[k].pc = "failed"
    BY <1>0, <1>3 DEF RequestFails, ProcessCrashes, Finish, OthersStay, TypeOK
  <2>3. ReleaseFine(k)
    BY <1>0, <2>1, <2>2, NothingWritten DEF ReleaseFine, ProofSeen, Completes
  <2> QED
    BY <1>k, <2>1, <2>3
<1>4. ASSUME NEW m \in Monitors, MonStep(m) \/ MonCancelFails(m) \/ MonCrash(m) PROVE ReleaseInv'
  <2>1. StepsRight /\ MonDue(m)'
    BY <1>0, <1>t, <1>4, MonitorReleases
  <2>2. call' = call /\ \A n \in Monitors \ {m} : mon'[n] = mon[n]
    BY <1>0, <1>t, <1>4, MonitorIsFine DEF MonFine
  <2>3. \A j \in Calls : Completes(j) /\ ProofSeen(j)'
    BY <1>j, <2>1, <2>2
  <2>4. \A n \in Monitors : MonDue(n)'
    BY <1>m, <2>1, <2>2
  <2> QED
    BY <1>w, <2>1, <2>3, <2>4
<1>5. ASSUME (\E key \in LockKeys : LockTimesOut(key)) \/ ClockTick \/ Rest \/ UNCHANGED vars
      PROVE  UNCHANGED <<delivery, escrow, call, mon>>
  BY <1>5 DEF LockTimesOut, ClockTick, Rest, vars
<1> QED
  BY <1>s, <1>1, <1>2, <1>3, <1>4, <1>5 DEF Next

LEMMA ReleaseInit == OnlyReleases /\ Init => ReleaseInv
<1> SUFFICES ASSUME OnlyReleases, Init PROVE ReleaseInv
  OBVIOUS
<1>1. PICK p \in Profiles : /\ call \in [Calls -> {IdleCall(r) : r \in p.offered}]
                            /\ delivery = p.delivery /\ escrow = p.escrow
  BY DEF Init
<1>2. \A k \in Calls : call[k].req \in p.offered /\ call[k].pc = "idle"
  BY <1>1 DEF IdleCall
<1>3. RecordInv
  BY RecordInit
<1>4. OnlyReleaseEscrowSettles /\ \A k \in Calls : ProofSeen(k)
  BY <1>2 DEF OnlyReleases, OnlyReleaseEscrowSettles, ProofSeen
<1>5. ASSUME NEW c \in Contracts, Exists(escrow[c])
      PROVE  /\ escrow[c].of \in Deliveries
             /\ escrow[c].status = "released" => /\ delivery[escrow[c].of].proof
                                                 /\ delivery[escrow[c].of].status = "completed"
             /\ \A i \in ReleasesOf(escrow[c]) :
                  escrow[c].status = "released" /\ ReleasesOf(escrow[c]) = {i}
  BY <1>1, <1>5 DEF OnlyReleases
<1>6. Linked /\ ProofKnown /\ CompletedOrDue
  BY <1>5 DEF Linked, ProofKnown, CompletedOrDue, Exists
<1>7. ReleasedOnce
  <2> SUFFICES ASSUME NEW c \in Contracts, NEW i \in ReleasesOf(escrow[c])
               PROVE  escrow[c].status = "released" /\ ReleasesOf(escrow[c]) = {i}
    BY DEF ReleasedOnce
  <2>1. Exists(escrow[c])
    <3>1. escrow[c] = NoEscrow => ReleasesOf(escrow[c]) = {}
      BY DEF NoEscrow, ReleasesOf
    <3> QED
      BY <1>3, <3>1 DEF RecordInv, NoStray
  <2> QED
    BY <1>5, <2>1
<1>8. \A m \in Monitors : MonDue(m)
  BY DEF Init, IdleMon, MonDue
<1> QED
  BY <1>3, <1>4, <1>6, <1>7, <1>8 DEF ReleaseInv

\* releaseEscrow, by itself and under one name of each escrow, as long as no
\* handler outlives its lock: however many releases, status updates and proof
\* uploads race with each other and with the monitors, funds go out once, with
\* proof of delivery, and if nothing failed for a delivery that ends completed.
THEOREM ReleasesAreSound ==
    OnlyReleases /\ ~LocksExpire => (Spec => []ReleaseIsSound)
<1> SUFFICES ASSUME OnlyReleases, ~LocksExpire PROVE Spec => []ReleaseIsSound
  OBVIOUS
<1>1. Init => SerialInv /\ ReleaseInv
  BY SerialInit, ReleaseInit DEF OnlyReleases
<1>2. SerialInv /\ ReleaseInv /\ [Next]_vars => SerialInv' /\ ReleaseInv'
  <2> SUFFICES ASSUME SerialInv, ReleaseInv, [Next]_vars PROVE SerialInv' /\ ReleaseInv'
    OBVIOUS
  <2>1. ReleaseInv'
    BY ReleaseStep
  <2>2. TypeOK'
    BY <2>1 DEF ReleaseInv, RecordInv, TypeInv
  <2> QED
    BY <2>1, <2>2, SerialStep
<1>3. ReleaseInv => ReleaseIsSound
  <2> SUFFICES ASSUME ReleaseInv PROVE ReleaseIsSound
    OBVIOUS
  <2>1. ReleasedHasProof
    BY DEF ReleaseInv, ProofKnown, ReleasedHasProof
  <2>2. ReleasedIsCompleted
    BY DEF ReleaseInv, CompletedOrDue, Completing, ReleasedIsCompleted, Quiescent, Running, Finished
  <2>3. ReleasedAtMostOnce
    <3> SUFFICES ASSUME NEW c \in Contracts PROVE Cardinality(ReleasesOf(escrow[c])) <= 1
      BY DEF ReleasedAtMostOnce, ReleasesOf
    <3>1. CASE ReleasesOf(escrow[c]) = {}
      BY <3>1, FS_EmptySet
    <3>2. ASSUME NEW i \in ReleasesOf(escrow[c]) PROVE Cardinality(ReleasesOf(escrow[c])) <= 1
      <4>1. ReleasesOf(escrow[c]) = {i}
        BY <3>2 DEF ReleaseInv, ReleasedOnce
      <4>2. Cardinality({i}) = 1
        BY FS_Singleton, Zenon
      <4> QED
        BY <4>1, <4>2
    <3> QED
      BY <3>1, <3>2
  <2> QED
    BY <2>1, <2>2, <2>3 DEF ReleaseIsSound
<1> QED
  BY <1>1, <1>2, <1>3, PTL DEF Spec


-----------------------------------------------------------------------------
(* The milestone log *)

Unlinked(d) == \A c \in Contracts : escrow[c].of # d

\* Nobody imported or edited d.
Logged(d) == Exists(delivery[d]) => delivery[d].logged

\* Who moves deliveries and tells of it afterwards.
Actors == ({"call"} \X Calls) \cup ({"mon"} \X Monitors)

Telling == {"milestone", "lapsed"}

\* The milestone a request or a monitor has still to record for d.
CallOwes(k, d) ==
    LET r == call[k].req
    IN IF r.op \in {"create", "status"} /\ call[k].pc = "milestone" /\ r.d = d
       THEN {[from |-> call[k].seenD.status, to |-> MilestoneTo(r)]}
       ELSE IF r.op = "fund" /\ call[k].pc = "lapsed" /\ r.d = d
       THEN {[from |-> "pending", to |-> "cancelled"]}
       ELSE {}

MonOwes(m, d) ==
    IF mon[m].pc = "lapsed" /\ mon[m].curD = d THEN {[from |-> "pending", to |-> "cancelled"]} ELSE {}

Owed(d) == [a \in Actors |-> IF a[1] = "call" THEN CallOwes(a[2], d) ELSE MonOwes(a[2], d)]

Entered(log) == {log[i].to : i \in DOMAIN log}
Due(o) == {t \in DeliveryStatuses : \E a \in Actors : \E x \in o[a] : x.to = t}

\* The milestones on record and those that are owed tell how the delivery came
\* to the status s: it was moved to each status once, and never back.
Story(s, log, o) ==
    /\ \A t \in Entered(log) \cup Due(o) : Stage[t] \in 1..Stage[s]
    /\ s # "absent" => s \in Entered(log) \cup Due(o)
    /\ \A i, j \in DOMAIN log : log[i].to = log[j].to => i = j
    /\ \A a, b \in Actors : \A x \in o[a], y \in o[b] : x.to = y.to => a = b /\ x = y
    /\ \A a \in Actors : \A x \in o[a] :
         x.to \notin Entered(log) /\ x.from \in Entered(log) \cup Due(o) \cup {"absent"}
    /\ \A i \in DOMAIN log : log[i].from \in Entered(log) \cup Due(o) \cup {"absent"}

\* create reads nothing, and assignDriver has seen an escrow.
TellOK(k) ==
    LET r == call[k].req
    IN /\ r.op = "create" => call[k].seenD.status = "absent"
       /\ r.op = "assign" /\ call[k].pc = "milestone" => EscrowsOf(r.d) # {}

StoryOf(d) == Story(delivery[d].status, event[d], Owed(d))

StoryInv ==
    /\ RecordInv
    /\ \A k \in Calls : TellOK(k)
    /\ faults = 0 => \A d \in Deliveries : Unlinked(d) /\ Logged(d) => StoryOf(d)

\* Statuses advance.
LEMMA StagesRise ==
    /\ Stage \in [DeliveryStatuses -> Nat]
    /\ \A s \in DeliveryStatuses : Stage[s] = 0 <=> s = "absent"
    /\ \A s \in DeliveryStatuses : \A t \in DeliveryMoves[s] : t \in DeliveryStatuses /\ Stage[t] > Stage[s]
  BY DEF Stage, DeliveryMoves, ALLOWED_TRANSITIONS, DeliveryStatuses

LEMMA EnteredType ==
    ASSUME NEW log \in Seq(Milestone)
    PROVE  /\ Entered(log) \subseteq DeliveryStatuses
           /\ \A i \in DOMAIN log : log[i].to \in Entered(log)
<1>1. \A i \in DOMAIN log : log[i] \in Milestone
  BY ElementOfSeq, LenProperties
<1> QED
  BY <1>1 DEF Entered, Milestone

\* The delivery is moved on from s to t, and the milestone of it is owed.
LEMMA StoryGoesOn ==
    ASSUME NEW s \in DeliveryStatuses, NEW t \in DeliveryStatuses, NEW log \in Seq(Milestone),
           NEW o \in [Actors -> SUBSET Milestone], NEW q \in [Actors -> SUBSET Milestone],
           NEW a \in Actors, Story(s, log, o), Stage[s] < Stage[t],
           o[a] = {}, q[a] = {[from |-> s, to |-> t]}, \A b \in Actors \ {a} : q[b] = o[b]
    PROVE  Story(t, log, q)
<1> DEFINE m == [from |-> s, to |-> t]
           E == Entered(log)
<1>e. E \subseteq DeliveryStatuses /\ (\A i \in DOMAIN log : log[i].to \in E)
  BY EnteredType
<1>1. Due(q) = Due(o) \cup {t}
  <2>1. m.to = t /\ m \in q[a]
    OBVIOUS
  <2>2. \A b \in Actors : \A x \in q[b] : x \in o[b] \/ x.to = t
    BY <2>1
  <2>3. \A b \in Actors : \A x \in o[b] : x \in q[b]
    OBVIOUS
  <2> QED
    BY <2>1, <2>2, <2>3 DEF Due
<1>2. t \notin E \cup Due(o) /\ t # "absent"
  BY StagesRise DEF Story
<1>3. \A u \in E \cup Due(q) : Stage[u] \in 1..Stage[t]
  <2>1. \A u \in E \cup Due(o) : u \in DeliveryStatuses /\ Stage[u] \in 1..Stage[s]
    BY <1>e DEF Story, Due
  <2>2. Stage[s] \in Nat /\ Stage[t] \in Nat
    BY StagesRise
  <2>3. Stage[t] \in 1..Stage[t]
    BY <2>2
  <2>4. 1..Stage[s] \subseteq 1..Stage[t]
    BY <2>2
  <2> QED
    BY <1>1, <2>1, <2>3, <2>4
<1>4. \A b \in Actors : \A x \in o[b] : x.to \in Due(o) /\ x.to # t
  BY <1>2 DEF Due, Milestone
<1>5. \A b, c \in Actors : \A x \in q[b], y \in q[c] : x.to = y.to => b = c /\ x = y
  BY <1>4 DEF Story
<1>6. \A b \in Actors : \A x \in q[b] : x.to \notin E /\ x.from \in E \cup Due(q) \cup {"absent"}
  <2> SUFFICES ASSUME NEW b \in Actors, NEW x \in q[b]
               PROVE  x.to \notin E /\ x.from \in E \cup Due(q) \cup {"absent"}
    OBVIOUS
  <2>1. CASE b = a
    BY <1>1, <1>2, <2>1 DEF Story
  <2>2. CASE b # a
    BY <1>1, <2>2 DEF Story
  <2> QED
    BY <2>1, <2>2
<1>7. \A i \in DOMAIN log : log[i].from \in E \cup Due(q) \cup {"absent"}
  BY <1>1 DEF Story
<1>8. t \in E \cup Due(q)
  BY <1>1
<1>9. \A i, j \in DOMAIN log : log[i].to = log[j].to => i = j
  BY DEF Story
<1> QED
  BY <1>3, <1>5, <1>6, <1>7, <1>8, <1>9 DEF Story

\* A milestone that is owed is appended to the log.
LEMMA StoryIsRecorded ==
    ASSUME NEW s \in DeliveryStatuses, NEW log \in Seq(Milestone), NEW m \in Milestone,
           NEW o \in [Actors -> SUBSET Milestone], NEW q \in [Actors -> SUBSET Milestone],
           NEW a \in Actors, Story(s, log, o),
           o[a] = {m}, q[a] = {}, \A b \in Actors \ {a} : q[b] = o[b]
    PROVE  Story(s, Append(log, m), q)
<1> DEFINE E == Entered(log)
           new == Append(log, m)
           n == Len(log)
<1>l. /\ n \in Nat /\ DOMAIN log = 1..n /\ DOMAIN new = 1..(n + 1)
      /\ new[n + 1] = m /\ \A i \in 1..n : new[i] = log[i]
  BY AppendProperties, LenProperties
<1>i. \A i \in DOMAIN new : i \in DOMAIN log \/ i = n + 1
  BY <1>l
<1>d. \A i \in DOMAIN log : i \in DOMAIN new /\ new[i] = log[i] /\ i # n + 1
  BY <1>l
<1>1. Entered(new) = E \cup {m.to}
  <2>1. n + 1 \in DOMAIN new
    BY <1>l
  <2> QED
    BY <1>l, <1>i, <1>d, <2>1 DEF Entered
<1>2. m.to \in Due(o) /\ m.to \notin E
  BY DEF Due, Story, Milestone
<1>3. \A b \in Actors : \A x \in q[b] : x \in o[b] /\ x.to # m.to
  BY DEF Story
<1>4. E \cup Due(o) = Entered(new) \cup Due(q)
  <2>1. Due(q) \subseteq Due(o)
    BY <1>3 DEF Due
  <2>2. ASSUME NEW u \in Due(o), u # m.to PROVE u \in Due(q)
    BY <2>2 DEF Due
  <2> QED
    BY <1>1, <1>2, <2>1, <2>2
<1>5. \A i, j \in DOMAIN new : new[i].to = new[j].to => i = j
  <2>1. \A i \in DOMAIN log : log[i].to \in E
    BY EnteredType
  <2> SUFFICES ASSUME NEW i \in DOMAIN new, NEW j \in DOMAIN new, new[i].to = new[j].to PROVE i = j
    OBVIOUS
  <2>2. CASE i \in DOMAIN log /\ j \in DOMAIN log
    BY <1>d, <2>2 DEF Story
  <2>3. CASE i = n + 1 /\ j \in DOMAIN log
    BY <1>d, <1>l, <1>2, <2>1, <2>3
  <2>4. CASE i \in DOMAIN log /\ j = n + 1
    BY <1>d, <1>l, <1>2, <2>1, <2>4
  <2> QED
    BY <1>i, <2>2, <2>3, <2>4
<1>6. \A b, c \in Actors : \A x \in q[b], y \in q[c] : x.to = y.to => b = c /\ x = y
  BY <1>3 DEF Story
<1>7. \A b \in Actors : \A x \in q[b] :
        x.to \notin Entered(new) /\ x.from \in Entered(new) \cup Due(q) \cup {"absent"}
  BY <1>1, <1>3, <1>4 DEF Story
<1>8. \A i \in DOMAIN new : new[i].from \in Entered(new) \cup Due(q) \cup {"absent"}
  <2>1. m.from \in E \cup Due(o) \cup {"absent"}
    BY DEF Story
  <2> QED
    BY <1>i, <1>d, <1>l, <1>4, <2>1 DEF Story
<1>9. /\ \A t \in Entered(new) \cup Due(q) : Stage[t] \in 1..Stage[s]
      /\ s # "absent" => s \in Entered(new) \cup Due(q)
  BY <1>4 DEF Story
<1> QED
  BY <1>5, <1>6, <1>7, <1>8, <1>9 DEF Story
LEMMA OwedType ==
    ASSUME TypeOK, NEW d
    PROVE  Owed(d) \in [Actors -> SUBSET Milestone]
<1>1. ASSUME NEW k \in Calls PROVE CallOwes(k, d) \subseteq Milestone
  <2>1. call[k].req \in Request /\ call[k].seenD.status \in DeliveryStatuses
    BY CallFacts
  <2>2. call[k].req.op = "create" => MilestoneTo(call[k].req) = "pending"
    BY DEF MilestoneTo
  <2>3. call[k].req.op = "status" => MilestoneTo(call[k].req) = call[k].req.to
    BY DEF MilestoneTo
  <2>4. call[k].req.op \in {"create", "status"} => MilestoneTo(call[k].req) \in DeliveryStatuses
    BY <2>1, <2>2, <2>3, RequestFields DEF DeliveryStatuses
  <2> QED
    BY <2>1, <2>4 DEF CallOwes, Milestone, DeliveryStatuses
<1>2. ASSUME NEW m PROVE MonOwes(m, d) \subseteq Milestone
  BY DEF MonOwes, Milestone, DeliveryStatuses
<1>3. ASSUME NEW a \in Actors PROVE Owed(d)[a] \subseteq Milestone
  <2>1. CASE a[1] = "call"
    <3>1. a[2] \in Calls
      BY <2>1 DEF Actors
    <3> QED
      BY <1>1, <2>1, <3>1 DEF Owed
  <2>2. CASE a[1] # "call"
    BY <1>2, <2>2 DEF Owed
  <2> QED
    BY <2>1, <2>2
<1> QED
  BY <1>3 DEF Owed

LEMMA OwedNext ==
    ASSUME NEW d PROVE (TypeOK => Owed(d) \in [Actors -> SUBSET Milestone])'
<1>1. TypeOK => Owed(d) \in [Actors -> SUBSET Milestone]
  BY OwedType
<1> QED
  BY <1>1, PTL

\* What a step does to the story of d: nothing; or it moves d on and owes the
\* milestone; or it records a milestone that is owed.
StorySteps(d) ==
    \/ delivery'[d].status = delivery[d].status /\ event'[d] = event[d] /\ Owed(d)' = Owed(d)
    \/ /\ Stage[delivery[d].status] < Stage[delivery'[d].status] /\ event'[d] = event[d]
       /\ \E a \in Actors :
            /\ Owed(d)[a] = {}
            /\ Owed(d)'[a] = {[from |-> delivery[d].status, to |-> delivery'[d].status]}
            /\ \A b \in Actors \ {a} : Owed(d)'[b] = Owed(d)[b]
    \/ /\ delivery'[d].status = delivery[d].status
       /\ \E a \in Actors, m \in Milestone :
            /\ Owed(d)[a] = {m} /\ event'[d] = Append(event[d], m)
            /\ Owed(d)'[a] = {} /\ \A b \in Actors \ {a} : Owed(d)'[b] = Owed(d)[b]

LEMMA StoryStepKeeps ==
    ASSUME TypeOK, TypeOK', NEW d \in Deliveries, StoryOf(d), StorySteps(d)
    PROVE  StoryOf(d)'
<1>1. /\ delivery[d].status \in DeliveryStatuses /\ delivery'[d].status \in DeliveryStatuses
      /\ event[d] \in Seq(Milestone) /\ event'[d] \in Seq(Milestone)
  BY DEF TypeOK, DeliveryDoc
<1>2. Owed(d) \in [Actors -> SUBSET Milestone]
  BY OwedType
<1>3. Owed(d)' \in [Actors -> SUBSET Milestone]
  BY OwedNext
<1> DEFINE o == Owed(d)
           q == Owed(d)'
<1>4. Story(delivery[d].status, event[d], o)
  BY DEF StoryOf
<1> SUFFICES Story(delivery'[d].status, event'[d], q)
  BY DEF StoryOf, Story, Entered, Due
<1> HIDE DEF o, q
<1>5. CASE delivery'[d].status = delivery[d].status /\ event'[d] = event[d] /\ q = o
  BY <1>4, <1>5
<1>6. CASE \E a \in Actors :
            /\ Stage[delivery[d].status] < Stage[delivery'[d].status] /\ event'[d] = event[d]
            /\ o[a] = {} /\ q[a] = {[from |-> delivery[d].status, to |-> delivery'[d].status]}
            /\ \A b \in Actors \ {a} : q[b] = o[b]
  BY <1>1, <1>2, <1>3, <1>4, <1>6, StoryGoesOn DEF o, q
<1>7. CASE \E a \in Actors, m \in Milestone :
            /\ delivery'[d].status = delivery[d].status
            /\ o[a] = {m} /\ event'[d] = Append(event[d], m)
            /\ q[a] = {} /\ \A b \in Actors \ {a} : q[b] = o[b]
  BY <1>1, <1>2, <1>3, <1>4, <1>7, StoryIsRecorded DEF o, q
<1> QED
  BY <1>5, <1>6, <1>7 DEF StorySteps, o, q

\* Whose step it is.
LEMMA OneCallMoves ==
    ASSUME NEW k \in Calls, OthersStay(k), UNCHANGED mon, NEW d
    PROVE  /\ <<"call", k>> \in Actors
           /\ Owed(d)[<<"call", k>>] = CallOwes(k, d) /\ Owed(d)'[<<"call", k>>] = CallOwes(k, d)'
           /\ \A b \in Actors \ {<<"call", k>>} : Owed(d)'[b] = Owed(d)[b]
<1>1. <<"call", k>> \in Actors
  BY DEF Actors
<1>2. Owed(d)[<<"call", k>>] = CallOwes(k, d) /\ Owed(d)'[<<"call", k>>] = CallOwes(k, d)'
  BY <1>1 DEF Owed
<1>3. ASSUME NEW b \in Actors \ {<<"call", k>>} PROVE Owed(d)'[b] = Owed(d)[b]
  <2>1. CASE b[1] = "call"
    <3>1. b[2] \in Calls \ {k}
      BY <2>1 DEF Actors
    <3>2. CallOwes(b[2], d)' = CallOwes(b[2], d)
      BY <3>1 DEF OthersStay, CallOwes
    <3>3. Owed(d)'[b] = CallOwes(b[2], d)' /\ Owed(d)[b] = CallOwes(b[2], d)
      BY <2>1 DEF Owed
    <3> QED
      BY <3>2, <3>3
  <2>2. CASE b[1] # "call"
    <3>1. Owed(d)'[b] = MonOwes(b[2], d)' /\ Owed(d)[b] = MonOwes(b[2], d)
      BY <2>2 DEF Owed
    <3> QED
      BY <3>1 DEF MonOwes
  <2> QED
    BY <2>1, <2>2
<1> QED
  BY <1>1, <1>2, <1>3

LEMMA OneMonitorMoves ==
    ASSUME NEW m \in Monitors, UNCHANGED call, \A n \in Monitors \ {m} : mon'[n] = mon[n], NEW d
    PROVE  /\ <<"mon", m>> \in Actors
           /\ Owed(d)[<<"mon", m>>] = MonOwes(m, d) /\ Owed(d)'[<<"mon", m>>] = MonOwes(m, d)'
           /\ \A b \in Actors \ {<<"mon", m>>} : Owed(d)'[b] = Owed(d)[b]
<1>1. <<"mon", m>> \in Actors
  BY DEF Actors
<1>2. Owed(d)[<<"mon", m>>] = MonOwes(m, d) /\ Owed(d)'[<<"mon", m>>] = MonOwes(m, d)'
  BY <1>1 DEF Owed
<1>3. ASSUME NEW b \in Actors \ {<<"mon", m>>} PROVE Owed(d)'[b] = Owed(d)[b]
  <2>1. CASE b[1] = "call"
    <3>1. Owed(d)'[b] = CallOwes(b[2], d)' /\ Owed(d)[b] = CallOwes(b[2], d)
      BY <2>1 DEF Owed
    <3> QED
      BY <3>1 DEF CallOwes
  <2>2. CASE b[1] # "call"
    <3>1. b[2] \in Monitors \ {m}
      BY <2>2 DEF Actors
    <3>2. MonOwes(b[2], d)' = MonOwes(b[2], d)
      BY <3>1 DEF MonOwes
    <3>3. Owed(d)'[b] = MonOwes(b[2], d)' /\ Owed(d)[b] = MonOwes(b[2], d)
      BY <2>2 DEF Owed
    <3> QED
      BY <3>2, <3>3
  <2> QED
    BY <2>1, <2>2
<1> QED
  BY <1>1, <1>2, <1>3

\* Nobody does anything about d.
LEMMA StoryStands ==
    ASSUME NEW d, \A b \in Actors : Owed(d)'[b] = Owed(d)[b],
           delivery'[d].status = delivery[d].status, event'[d] = event[d]
    PROVE  StorySteps(d)
<1>1. Owed(d) = [a \in Actors |-> Owed(d)[a]] /\ Owed(d)' = [a \in Actors |-> Owed(d)'[a]]
  BY DEF Owed
<1>2. Owed(d)' = Owed(d)
  BY <1>1
<1> QED
  BY <1>2 DEF StorySteps

\* The actor a moves the delivery x on, and owes the milestone.
LEMMA StoryIsMoved ==
    ASSUME NEW a \in Actors, NEW x \in Deliveries,
           \A d \in Deliveries : \A b \in Actors \ {a} : Owed(d)'[b] = Owed(d)[b],
           \A d \in Deliveries : Owed(d)[a] = {} /\ event'[d] = event[d],
           \A d \in Deliveries \ {x} : Owed(d)'[a] = {} /\ delivery'[d].status = delivery[d].status,
           Owed(x)'[a] = {[from |-> delivery[x].status, to |-> delivery'[x].status]},
           Stage[delivery[x].status] < Stage[delivery'[x].status]
    PROVE  \A d \in Deliveries : StorySteps(d)
<1> SUFFICES ASSUME NEW d \in Deliveries PROVE StorySteps(d)
  OBVIOUS
<1>1. CASE d = x
  BY <1>1 DEF StorySteps
<1>2. CASE d # x
  BY <1>2, StoryStands
<1> QED
  BY <1>1, <1>2

\* The actor a records the milestone m that it owes for x.
LEMMA StoryIsTold ==
    ASSUME NEW a \in Actors, NEW x \in Deliveries, NEW m \in Milestone,
           \A d \in Deliveries : \A b \in Actors \ {a} : Owed(d)'[b] = Owed(d)[b],
           \A d \in Deliveries : Owed(d)'[a] = {} /\ delivery'[d].status = delivery[d].status,
           \A d \in Deliveries \ {x} : Owed(d)[a] = {} /\ event'[d] = event[d],
           Owed(x)[a] = {m}, event'[x] = Append(event[x], m)
    PROVE  \A d \in Deliveries : StorySteps(d)
<1> SUFFICES ASSUME NEW d \in Deliveries PROVE StorySteps(d)
  OBVIOUS
<1>1. CASE d = x
  BY <1>1 DEF StorySteps
<1>2. CASE d # x
  BY <1>2, StoryStands
<1> QED
  BY <1>1, <1>2

\* A step of request k goes with the stories of all deliveries without an escrow
\* that nobody imported or edited.
Tells(k) ==
    /\ OthersStay(k) /\ UNCHANGED mon /\ TellOK(k)'
    /\ faults' = 0 => \A d \in Deliveries : Unlinked(d) /\ Logged(d)' => StorySteps(d)

\* It goes on or answers, and neither told of a delivery nor will tell.
Plain(k) ==
    /\ call[k].pc \notin Telling
    /\ \E p \in Pcs \ Telling :
         \/ Goto(k, p) \/ Finish(k, p) \/ \E doc : GotoSeeingE(k, p, doc)
         \/ call[k].req.op # "create" /\ \E doc : GotoSeeingD(k, p, doc)

StatusesStay ==
    \A d \in Deliveries : Unlinked(d) /\ Logged(d)' => delivery'[d].status = delivery[d].status

\* Nothing is owed for a delivery without an escrow.
LEMMA SilentTells ==
    ASSUME NEW k \in Calls, OthersStay(k), UNCHANGED mon, TellOK(k)', StatusesStay,
           \A d \in Deliveries : Unlinked(d) =>
                event'[d] = event[d] /\ CallOwes(k, d) = {} /\ CallOwes(k, d)' = {}
    PROVE  Tells(k)
<1> SUFFICES ASSUME NEW d \in Deliveries, Unlinked(d), Logged(d)' PROVE StorySteps(d)
  BY DEF Tells
<1>0. /\ Owed(d)[<<"call", k>>] = CallOwes(k, d) /\ Owed(d)'[<<"call", k>>] = CallOwes(k, d)'
      /\ \A b \in Actors \ {<<"call", k>>} : Owed(d)'[b] = Owed(d)[b]
  BY OneCallMoves
<1>1. \A b \in Actors : Owed(d)'[b] = Owed(d)[b]
  BY <1>0
<1> QED
  BY <1>1, StoryStands DEF StatusesStay

LEMMA PlainTells ==
    ASSUME TypeOK, NEW k \in Calls, TellOK(k), Plain(k), UNCHANGED <<event, mon>>, StatusesStay
    PROVE  Tells(k)
<1>1. PICK p \in Pcs \ Telling :
         \/ Goto(k, p) \/ Finish(k, p) \/ \E doc : GotoSeeingE(k, p, doc)
         \/ call[k].req.op # "create" /\ \E doc : GotoSeeingD(k, p, doc)
  BY DEF Plain
<1> DEFINE Moved == /\ OthersStay(k) /\ call'[k].pc = p /\ call'[k].req = call[k].req
                    /\ call[k].req.op = "create" => call'[k].seenD \in {call[k].seenD, NoDelivery}
<1>2. Moved
  <2>1. CASE Goto(k, p)
    BY <2>1, GotoMoves
  <2>2. CASE Finish(k, p)
    BY <2>2 DEF Finish, TypeOK, OthersStay
  <2>3. ASSUME NEW doc, GotoSeeingE(k, p, doc) PROVE Moved
    BY <2>3 DEF GotoSeeingE, TypeOK, CallRec, OthersStay
  <2>4. ASSUME call[k].req.op # "create", NEW doc, GotoSeeingD(k, p, doc) PROVE Moved
    BY <2>4, SeeingMoves
  <2> QED
    BY <1>1, <2>1, <2>2, <2>3, <2>4
<1>3. TellOK(k)'
  BY <1>2 DEF TellOK, Telling, NoDelivery
<1>4. \A d \in Deliveries : CallOwes(k, d) = {} /\ CallOwes(k, d)' = {}
  BY <1>2 DEF CallOwes, Telling, Plain
<1> QED
  BY <1>2, <1>3, <1>4, SilentTells

\* A delivery with an escrow is moved.
LEMMA LinkedIsAside ==
    ASSUME TypeOK, NEW x, NEW s, SetStatus(x, s), x \in Deliveries => ~Unlinked(x)
    PROVE  StatusesStay
  BY DEF SetStatus, StatusesStay, TypeOK

\* The statuses after cancelLapsedFundingWindow.
LEMMA LapseMoves ==
    ASSUME TypeOK, NEW x \in Deliveries, CancelLapsed(x)
    PROVE  /\ \A d \in Deliveries \ {x} : delivery'[d].status = delivery[d].status
           /\ delivery[x].status = "pending" =>
                /\ delivery'[x].status = "cancelled"
                /\ Stage[delivery[x].status] < Stage[delivery'[x].status]
           /\ delivery[x].status # "pending" => UNCHANGED delivery
<1>1. delivery[x].status = "pending" => delivery'[x].status = "cancelled"
  BY DEF CancelLapsed, TypeOK, DeliveryDoc
<1>2. Stage["pending"] < Stage["cancelled"]
  BY DEF Stage
<1> QED
  BY <1>1, <1>2 DEF CancelLapsed, TypeOK

\* The lapse that is recorded.
LEMMA LapseIsLogged ==
    ASSUME TypeOK, NEW x \in Deliveries, RecordLapse(x), faults' = 0
    PROVE  /\ event'[x] = Append(event[x], [from |-> "pending", to |-> "cancelled"])
           /\ \A d \in Deliveries \ {x} : event'[d] = event[d]
           /\ [from |-> "pending", to |-> "cancelled"] \in Milestone
  BY DEF RecordLapse, Fault, TypeOK, Milestone, DeliveryStatuses

LEMMA FundTells ==
    ASSUME TypeOK, NEW k \in Calls, CallOK(k), TellOK(k), RecordEscrowFunded(k)
    PROVE  Tells(k)
<1> DEFINE r == call[k].req
           lapse == [from |-> "pending", to |-> "cancelled"]
           a == <<"call", k>>
<1>0. r.op = "fund" /\ FundOK(k)
  BY DEF RecordEscrowFunded, FundReadDelivery, FundCancelLapsed, FundRecordLapse,
         FundReadContract, FundCheck, FundWriteEscrow, FundWriteDelivery, FundMilestone, At, CallOK
<1>f. r.d \in Deliveries /\ r.c \in Contracts
  BY <1>0, CallFacts, RequestFields
<1>x. PICK x \in Deliveries : x = r.d
  BY <1>f
<1>p. "done" \in Pcs /\ "rejected" \in Pcs /\ "failed" \in Pcs
  BY DEF Pcs
<1>n. ASSUME call'[k].req = r PROVE TellOK(k)'
  BY <1>0, <1>n DEF TellOK
<1>o. ASSUME call[k].pc # "lapsed" PROVE \A d \in Deliveries : CallOwes(k, d) = {}
  BY <1>0, <1>o DEF CallOwes
<1>q. ASSUME call'[k].req = r, call'[k].pc # "lapsed" PROVE \A d \in Deliveries : CallOwes(k, d)' = {}
  BY <1>0, <1>q DEF CallOwes
<1>1. CASE FundReadDelivery(k) \/ FundReadContract(k) \/ FundCheck(k) \/ FundWriteEscrow(k)
  <2>1. Plain(k)
    BY <1>0, <1>1 DEF Plain, Telling, Pcs, At, FundReadDelivery, FundReadContract, FundCheck, FundWriteEscrow
  <2>2. UNCHANGED <<delivery, event, mon>>
    BY <1>1 DEF FundReadDelivery, FundReadContract, FundCheck, FundWriteEscrow
  <2> QED
    BY <2>1, <2>2, PlainTells DEF StatusesStay
<1>2. CASE FundCancelLapsed(k)
  <2>0. CancelLapsed(x) /\ call[k].pc = "lapse" /\ UNCHANGED <<event, mon>>
    BY <1>x, <1>2 DEF FundCancelLapsed, At
  <2>1. CASE delivery[x].status # "pending"
    <3>1. Plain(k)
      BY <1>x, <1>2, <2>1 DEF Plain, Telling, Pcs, At, FundCancelLapsed
    <3>2. StatusesStay
      BY <1>f, <1>x, <2>0, <2>1, LapseMoves DEF StatusesStay
    <3> QED
      BY <2>0, <3>1, <3>2, PlainTells
  <2>2. CASE delivery[x].status = "pending"
    <3>1. Goto(k, "lapsed")
      BY <1>x, <1>2, <2>2 DEF FundCancelLapsed
    <3>2. OthersStay(k) /\ call'[k].pc = "lapsed" /\ call'[k].req = r
      BY <3>1, GotoMoves
    <3>3. \A d \in Deliveries : CallOwes(k, d)' = IF d = x THEN {lapse} ELSE {}
      BY <1>x, <1>0, <3>2 DEF CallOwes
    <3>4. \A d \in Deliveries : /\ a \in Actors /\ Owed(d)[a] = CallOwes(k, d) /\ Owed(d)'[a] = CallOwes(k, d)'
                                /\ \A b \in Actors \ {a} : Owed(d)'[b] = Owed(d)[b]
      BY <2>0, <3>2, OneCallMoves
    <3>5. \A d \in Deliveries : StorySteps(d)
      <4>1. /\ \A d \in Deliveries \ {x} : delivery'[d].status = delivery[d].status
            /\ delivery'[x].status = "cancelled"
            /\ Stage[delivery[x].status] < Stage[delivery'[x].status]
        BY <1>f, <1>x, <2>0, <2>2, LapseMoves
      <4>2. \A d \in Deliveries : Owed(d)[a] = {} /\ event'[d] = event[d]
        BY <1>o, <2>0, <3>4
      <4>3. \A d \in Deliveries \ {x} : Owed(d)'[a] = {} /\ delivery'[d].status = delivery[d].status
        BY <3>3, <3>4, <4>1
      <4>4. Owed(x)'[a] = {[from |-> delivery[x].status, to |-> delivery'[x].status]}
        BY <1>f, <1>x, <2>2, <3>3, <3>4, <4>1
      <4> HIDE DEF r, a
      <4> QED
        BY <1>f, <1>x, <3>4, <4>1, <4>2, <4>3, <4>4, StoryIsMoved
    <3> QED
      BY <1>n, <2>0, <3>2, <3>5 DEF Tells
  <2> QED
    BY <2>1, <2>2
<1>3. CASE FundRecordLapse(k)
  <2>0. RecordLapse(x) /\ call[k].pc = "lapsed" /\ UNCHANGED <<delivery, mon>> /\ Finish(k, "rejected")
    BY <1>x, <1>3 DEF FundRecordLapse, At
  <2>1. OthersStay(k) /\ call'[k].pc = "rejected" /\ call'[k].req = r
    BY <2>0 DEF Finish, TypeOK, OthersStay
  <2>2. ASSUME faults' = 0 PROVE \A d \in Deliveries : StorySteps(d)
    <3>1. \A d \in Deliveries : CallOwes(k, d) = IF d = x THEN {lapse} ELSE {}
      BY <1>x, <1>0, <2>0 DEF CallOwes
    <3>2. \A d \in Deliveries : CallOwes(k, d)' = {}
      BY <1>q, <2>1
    <3>3. \A d \in Deliveries : /\ a \in Actors /\ Owed(d)[a] = CallOwes(k, d) /\ Owed(d)'[a] = CallOwes(k, d)'
                                /\ \A b \in Actors \ {a} : Owed(d)'[b] = Owed(d)[b]
      BY <2>0, <2>1, OneCallMoves
    <3>4. /\ event'[x] = Append(event[x], lapse) /\ lapse \in Milestone
          /\ \A d \in Deliveries \ {x} : event'[d] = event[d]
      BY <1>f, <1>x, <2>0, <2>2, LapseIsLogged
    <3>5. \A d \in Deliveries : Owed(d)'[a] = {} /\ delivery'[d].status = delivery[d].status
      BY <2>0, <3>2, <3>3
    <3>6. \A d \in Deliveries \ {x} : Owed(d)[a] = {} /\ event'[d] = event[d]
      BY <3>1, <3>3, <3>4
    <3>7. Owed(x)[a] = {lapse}
      BY <1>f, <1>x, <3>1, <3>3
    <3> HIDE DEF r, a, lapse
    <3> QED
      BY <1>f, <1>x, <3>3, <3>4, <3>5, <3>6, <3>7, StoryIsTold
  <2> QED
    BY <1>n, <2>0, <2>1, <2>2 DEF Tells
<1>4. CASE FundWriteDelivery(k)
  <2>1. SetStatus(x, "funded") /\ Goto(k, "milestone") /\ call[k].pc = "dwrite" /\ UNCHANGED <<event, mon>>
    BY <1>x, <1>4 DEF FundWriteDelivery, At
  <2>2. ~Unlinked(x)
    BY <1>0, <1>f, <1>x, <2>1 DEF FundOK, Unlinked
  <2>3. OthersStay(k) /\ call'[k].pc = "milestone" /\ call'[k].req = r
    BY <2>1, GotoMoves
  <2>4. StatusesStay
    BY <2>1, <2>2, LinkedIsAside
  <2> QED
    BY <1>n, <1>o, <1>q, <2>1, <2>3, <2>4, SilentTells
<1>5. CASE FundMilestone(k)
  <2>1. /\ EmitMilestone(x, call[k].seenD.status, "funded") /\ Finish(k, "done")
        /\ call[k].pc = "milestone" /\ UNCHANGED <<delivery, mon>>
    BY <1>x, <1>5 DEF FundMilestone, At
  <2>2. ~Unlinked(x)
    BY <1>0, <1>f, <1>x, <2>1 DEF FundOK, Unlinked
  <2>3. OthersStay(k) /\ call'[k].pc = "done" /\ call'[k].req = r
    BY <2>1 DEF Finish, TypeOK, OthersStay
  <2>4. \A d \in Deliveries : Unlinked(d) => event'[d] = event[d]
    BY <2>1, <2>2 DEF EmitMilestone, TypeOK
  <2>5. StatusesStay
    BY <2>1 DEF StatusesStay
  <2> QED
    BY <1>n, <1>o, <1>q, <2>1, <2>3, <2>4, <2>5, SilentTells
<1> QED
  BY <1>1, <1>2, <1>3, <1>4, <1>5 DEF RecordEscrowFunded

\* Requests that only settle escrows tell nothing: what they move has an escrow.
LEMMA SettlersTell ==
    ASSUME TypeOK, NEW k \in Calls, TellOK(k),
           \/ AcquireLock(k) \/ AcquireFails(k) \/ ReleaseEscrow(k)
           \/ ResolveEscrow(k) \/ RetryExpiredEscrow(k) \/ HandleSettlementEvent(k)
    PROVE  Tells(k)
<1> DEFINE r == call[k].req
<1>s. ASSUME r.op \in Locking, NEW s, SetStatus(escrow[r.c].of, s) PROVE StatusesStay
  <2>1. r.c \in Contracts
    BY <1>s, CallFacts, RequestFields DEF Locking
  <2> QED
    BY <1>s, <2>1, LinkedIsAside DEF Unlinked
<1>d. UNCHANGED delivery => StatusesStay
  BY DEF StatusesStay
<1>1. CASE AcquireLock(k)
  <2>1. OthersStay(k) /\ call'[k].pc = "read" /\ call'[k].req = r /\ call'[k].seenD = call[k].seenD
    BY <1>1 DEF AcquireLock, TypeOK, CallRec, OthersStay
  <2>2. UNCHANGED <<event, mon, delivery>> /\ call[k].pc = "acquire"
    BY <1>1 DEF AcquireLock
  <2>3. TellOK(k)' /\ \A d \in Deliveries : CallOwes(k, d) = {} /\ CallOwes(k, d)' = {}
    BY <2>1, <2>2 DEF TellOK, CallOwes
  <2> QED
    BY <1>d, <2>1, <2>2, <2>3, SilentTells
<1>2. CASE AcquireFails(k)
  <2>1. Plain(k) /\ UNCHANGED <<event, mon, delivery>>
    BY <1>2 DEF Plain, Telling, Pcs, AcquireFails
  <2> QED
    BY <1>d, <2>1, PlainTells
<1>3. CASE ReleaseEscrow(k)
  <2>1. CASE ReleaseRead(k) \/ ReleaseAssertProof(k) \/ ReleaseReadDelivery(k)
    <3>1. Plain(k) /\ UNCHANGED <<event, mon, delivery>>
      BY <2>1 DEF Plain, Telling, Pcs, At, ReleaseRead, ReleaseAssertProof, ReleaseReadDelivery
    <3> QED
      BY <1>d, <3>1, PlainTells
  <2>2. CASE ReleaseSave(k)
    <3>1. Plain(k) /\ UNCHANGED <<event, mon, delivery>>
      BY <2>2 DEF Plain, Telling, Pcs, At, ReleaseSave
    <3> QED
      BY <1>d, <3>1, PlainTells
  <2>3. CASE ReleaseWriteDelivery(k)
    <3>1. /\ Plain(k) /\ UNCHANGED <<event, mon>> /\ SetStatus(escrow[r.c].of, "completed")
          /\ r.op \in Locking
      BY <2>3 DEF Plain, Telling, Pcs, At, ReleaseWriteDelivery, Locking
    <3> QED
      BY <1>s, <3>1, PlainTells
  <2> QED
    BY <1>3, <2>1, <2>2, <2>3 DEF ReleaseEscrow
<1>4. CASE ResolveEscrow(k) \/ RetryExpiredEscrow(k)
  <2>1. Plain(k) /\ UNCHANGED <<event, mon>>
    <3>p. {"write", "rejected", "audit", "dread", "dwrite", "done"} \subseteq Pcs \ Telling
      BY DEF Pcs, Telling
    <3>1. ASSUME NEW op \in {"resolve", "retry"}, AdminRead(k, op) PROVE Plain(k) /\ UNCHANGED <<event, mon>>
      <4>1. call[k].pc = "read" /\ UNCHANGED <<event, mon>>
        BY <3>1 DEF AdminRead, At
      <4>2. GotoSeeingE(k, "write", escrow[call[k].req.c]) \/ Finish(k, "rejected")
        BY <3>1 DEF AdminRead
      <4> QED
        BY <3>p, <4>1, <4>2 DEF Plain, Telling
    <3>2. CASE ResolveSave(k)
      <4>1. call[k].pc = "write" /\ UNCHANGED <<event, mon>> /\ (Goto(k, "audit") \/ Goto(k, "dread"))
        BY <3>2 DEF ResolveSave, At
      <4> QED
        BY <3>p, <4>1 DEF Plain, Telling
    <3>3. CASE RetrySave(k)
      <4>1. call[k].pc = "write" /\ UNCHANGED <<event, mon>> /\ Goto(k, "dread")
        BY <3>3 DEF RetrySave, At
      <4> QED
        BY <3>p, <4>1 DEF Plain, Telling
    <3>4. ASSUME NEW op \in {"resolve", "retry"}, ApplyRead(k, op) PROVE Plain(k) /\ UNCHANGED <<event, mon>>
      <4>1. call[k].pc = "dread" /\ UNCHANGED <<event, mon>> /\ (Goto(k, "audit") \/ Goto(k, "dwrite"))
        BY <3>4 DEF ApplyRead, At
      <4> QED
        BY <3>p, <4>1 DEF Plain, Telling
    <3>5. ASSUME NEW op \in {"resolve", "retry"}, ApplyWrite(k, op) PROVE Plain(k) /\ UNCHANGED <<event, mon>>
      <4>1. call[k].pc = "dwrite" /\ UNCHANGED <<event, mon>> /\ Goto(k, "audit")
        BY <3>5 DEF ApplyWrite, At
      <4> QED
        BY <3>p, <4>1 DEF Plain, Telling
    <3>6. ASSUME NEW op \in {"resolve", "retry"}, AdminAudit(k, op) PROVE Plain(k) /\ UNCHANGED <<event, mon>>
      <4>1. call[k].pc = "audit" /\ UNCHANGED <<event, mon>> /\ Finish(k, "done")
        BY <3>6 DEF AdminAudit, At
      <4> QED
        BY <3>p, <4>1 DEF Plain, Telling
    <3> QED
      BY <1>4, <3>1, <3>2, <3>3, <3>4, <3>5, <3>6 DEF ResolveEscrow, RetryExpiredEscrow
  <2>0. r.op \in Locking
    BY <1>4 DEF At, ResolveEscrow, RetryExpiredEscrow, AdminRead, ResolveSave, RetrySave, ApplyRead,
         ApplyWrite, AdminAudit, Locking
  <2>2. UNCHANGED delivery \/ SetStatus(escrow[r.c].of, DeliveryStatusFor(r))
    BY <1>4 DEF ResolveEscrow, RetryExpiredEscrow, AdminRead, ResolveSave, RetrySave, ApplyRead,
         ApplyWrite, AdminAudit
  <2> QED
    BY <1>d, <1>s, <2>0, <2>1, <2>2, PlainTells
<1>5. CASE HandleSettlementEvent(k)
  <2>1. UNCHANGED <<event, mon, delivery>>
    <3>1. CASE ChainFind(k)
      BY <3>1 DEF ChainFind
    <3>2. CASE ChainSettle(k)
      BY <3>2 DEF ChainSettle
    <3> QED
      BY <1>5, <3>1, <3>2 DEF HandleSettlementEvent
  <2>2. call[k].pc \in {"start", "write"} /\ (Finish(k, "done") \/ Finish(k, "failed") \/ Goto(k, "write"))
    <3>1. CASE ChainFind(k)
      BY <3>1 DEF ChainFind, At
    <3>2. CASE ChainSettle(k)
      BY <3>2 DEF ChainSettle, At
    <3> QED
      BY <1>5, <3>1, <3>2 DEF HandleSettlementEvent
  <2>3. Plain(k)
    BY <2>2 DEF Plain, Telling, Pcs
  <2> QED
    BY <1>d, <2>1, <2>3, PlainTells
<1> QED
  BY <1>1, <1>2, <1>3, <1>4, <1>5

\* create and updateStatus move the delivery and owe the milestone.
LEMMA MoversTell ==
    ASSUME TypeOK, NEW k \in Calls, CallOK(k), TellOK(k), CreateDelivery(k) \/ UpdateStatus(k)
    PROVE  Tells(k)
<1> DEFINE r == call[k].req
           a == <<"call", k>>
<1>0. r.op \in {"create", "status"}
  BY DEF CreateDelivery, CreateCheck, CreateWrite, UpdateStatus, StatusCheck, StatusAssertProof, StatusWrite, At
<1>f. r.d \in Deliveries
  BY <1>0, CallFacts, RequestFields
<1>x. PICK x \in Deliveries : x = r.d
  BY <1>f
<1>o. ASSUME call[k].pc # "milestone" PROVE \A d \in Deliveries : CallOwes(k, d) = {}
  BY <1>0, <1>o DEF CallOwes
<1>m. /\ r.op = "create" => MilestoneTo(r) = "pending"
      /\ r.op = "status" => MilestoneTo(r) = r.to
  BY DEF MilestoneTo
\* It moves x to the status s.
<1>w. ASSUME NEW s \in DeliveryStatuses, Goto(k, "milestone"), call[k].pc # "milestone", UNCHANGED <<event, mon>>,
             call[k].seenD.status = delivery[x].status, MilestoneTo(r) = s, s \in DeliveryMoves[delivery[x].status],
             delivery'[x].status = s, \A d \in Deliveries \ {x} : delivery'[d].status = delivery[d].status
      PROVE  Tells(k)
  <2>1. OthersStay(k) /\ call'[k].pc = "milestone" /\ call'[k].req = r /\ call'[k].seenD = call[k].seenD
    BY <1>w, GotoMoves
  <2>2. TellOK(k)'
    BY <1>0, <2>1 DEF TellOK
  <2>3. MilestoneTo(call'[k].req) = s
    BY <1>w, <2>1
  <2>4. \A d \in Deliveries :
          CallOwes(k, d)' = IF d = x THEN {[from |-> delivery[x].status, to |-> s]} ELSE {}
    BY <1>0, <1>w, <1>x, <2>1, <2>3 DEF CallOwes
  <2>5. \A d \in Deliveries : /\ a \in Actors /\ Owed(d)[a] = CallOwes(k, d) /\ Owed(d)'[a] = CallOwes(k, d)'
                              /\ \A b \in Actors \ {a} : Owed(d)'[b] = Owed(d)[b]
    BY <1>w, <2>1, OneCallMoves
  <2>6. Stage[delivery[x].status] < Stage[delivery'[x].status]
    <3>1. delivery[x].status \in DeliveryStatuses
      BY DEF TypeOK, DeliveryDoc
    <3> QED
      BY <1>w, <3>1, StagesRise
  <2>7. \A d \in Deliveries : Owed(d)[a] = {} /\ event'[d] = event[d]
    BY <1>o, <1>w, <2>5
  <2>8. \A d \in Deliveries \ {x} : Owed(d)'[a] = {} /\ delivery'[d].status = delivery[d].status
    BY <1>w, <2>4, <2>5
  <2>9. Owed(x)'[a] = {[from |-> delivery[x].status, to |-> delivery'[x].status]}
    BY <1>w, <2>4, <2>5
  <2>10. \A d \in Deliveries : StorySteps(d)
    <3> HIDE DEF a
    <3> QED
      BY <2>5, <2>6, <2>7, <2>8, <2>9, StoryIsMoved
  <2> QED
    BY <1>w, <2>1, <2>2, <2>10 DEF Tells
<1>1. CASE CreateCheck(k) \/ StatusCheck(k) \/ StatusAssertProof(k)
  <2>1. Plain(k)
    BY <1>1 DEF Plain, Telling, Pcs, At, CreateCheck, StatusCheck, StatusAssertProof
  <2>2. UNCHANGED <<event, mon, delivery>>
    BY <1>1 DEF CreateCheck, StatusCheck, StatusAssertProof
  <2> QED
    BY <2>1, <2>2, PlainTells DEF StatusesStay
<1>2. CASE CreateWrite(k)
  <2>1. CASE Exists(delivery[x])
    <3>1. Plain(k) /\ UNCHANGED <<event, mon, delivery>>
      BY <1>2, <1>x, <2>1 DEF Plain, Telling, Pcs, At, CreateWrite
    <3> QED
      BY <3>1, PlainTells DEF StatusesStay
  <2>2. CASE ~Exists(delivery[x])
    <3>1. Goto(k, "milestone") /\ call[k].pc = "write" /\ r.op = "create" /\ UNCHANGED <<event, mon>>
      BY <1>2, <1>x, <2>2 DEF CreateWrite, At
    <3>2. delivery'[x].status = "pending" /\ \A d \in Deliveries \ {x} : delivery'[d].status = delivery[d].status
      <4>1. PICK by : by = IF r.escrowed THEN now + FundWindow ELSE 0
        OBVIOUS
      <4>2. PICK new : new = [NoDelivery EXCEPT !.status = "pending", !.escrowed = r.escrowed, !.fundBy = by]
        OBVIOUS
      <4>3. new.status = "pending"
        BY <4>2 DEF NoDelivery
      <4>4. delivery' = [delivery EXCEPT ![x] = new]
        BY <1>2, <1>x, <2>2, <4>1, <4>2 DEF CreateWrite
      <4> QED
        BY <4>3, <4>4 DEF TypeOK
    <3>3. delivery[x].status = "absent" /\ call[k].seenD.status = "absent"
      BY <2>2, <3>1 DEF Exists, TellOK
    <3>4. "pending" \in DeliveryMoves["absent"] /\ "pending" \in DeliveryStatuses
      BY SomeMoves DEF DeliveryStatuses
    <3> QED
      BY <1>w, <1>m, <3>1, <3>2, <3>3, <3>4
  <2> QED
    BY <2>1, <2>2
<1>3. CASE StatusWrite(k)
  <2> DEFINE seen == call[k].seenD.status
  <2>0. call[k].pc = "write" /\ r.op = "status" /\ UNCHANGED <<event, mon>> /\ MoveStatus(x, seen, r.to)
    BY <1>3, <1>x DEF StatusWrite, At
  <2>1. CASE delivery[x].status # seen
    <3>1. Plain(k) /\ UNCHANGED <<event, mon, delivery>>
      BY <1>3, <1>x, <2>1 DEF Plain, Telling, Pcs, At, StatusWrite, MoveStatus
    <3> QED
      BY <3>1, PlainTells DEF StatusesStay
  <2>2. CASE delivery[x].status = seen
    <3>1. Goto(k, "milestone")
      BY <1>3, <1>x, <2>2 DEF StatusWrite
    <3>2. delivery'[x].status = r.to /\ \A d \in Deliveries \ {x} : delivery'[d].status = delivery[d].status
      BY <2>0, <2>2 DEF MoveStatus, SetStatus, TypeOK, DeliveryDoc
    <3>3. r.to \in DeliveryStatuses
      BY <2>0, CallFacts, RequestFields
    <3>4. r.to \in DeliveryMoves[seen]
      <4>1. r.to \in ALLOWED_TRANSITIONS[seen]
        BY <2>0 DEF CallOK, DeliveryOK
      <4>2. seen \in DeliveryStatuses
        BY CallFacts
      <4> QED
        BY <4>1, <4>2, SomeMoves
    <3> QED
      BY <1>w, <1>m, <2>0, <2>2, <3>1, <3>2, <3>3, <3>4
  <2> QED
    BY <2>1, <2>2
<1> QED
  BY <1>1, <1>2, <1>3 DEF CreateDelivery, UpdateStatus

\* emitMilestone, after create and updateStatus, and of a delivery with an
\* escrow after assignDriver; assignDriver itself.
LEMMA TellersTell ==
    ASSUME TypeOK, NEW k \in Calls, CallOK(k), TellOK(k),
           AssignDriver(k) \/ \E op \in {"create", "status", "assign"} : DeliveryMilestone(k, op)
    PROVE  Tells(k)
<1> DEFINE r == call[k].req
           a == <<"call", k>>
<1>0. r.op \in {"create", "status", "assign"}
  BY DEF AssignDriver, AssignReadDelivery, AssignReadEscrow, AssignSave, DeliveryMilestone, At
<1>f. r.d \in Deliveries
  BY <1>0, CallFacts, RequestFields
<1>x. PICK x \in Deliveries : x = r.d
  BY <1>f
<1>1. CASE AssignReadDelivery(k) \/ AssignReadEscrow(k)
  <2>1. Plain(k)
    BY <1>1 DEF Plain, Telling, Pcs, At, AssignReadDelivery, AssignReadEscrow
  <2>2. UNCHANGED <<event, mon, delivery>>
    BY <1>1 DEF AssignReadDelivery, AssignReadEscrow
  <2> QED
    BY <2>1, <2>2, PlainTells DEF StatusesStay
<1>2. CASE AssignSave(k)
  <2>1. Goto(k, "milestone") /\ r.op = "assign" /\ call[k].pc = "write" /\ UNCHANGED <<event, mon, escrow>>
    BY <1>2 DEF AssignSave, At
  <2>2. OthersStay(k) /\ call'[k].pc = "milestone" /\ call'[k].req = r
    BY <2>1, GotoMoves
  <2>3. EscrowsOf(r.d) # {}
    BY <2>1 DEF CallOK, DeliveryOK
  <2>4. ~Unlinked(x)
    BY <1>x, <2>3 DEF Unlinked, EscrowsOf
  <2>5. TellOK(k)'
    BY <2>1, <2>2, <2>3 DEF TellOK, EscrowsOf, Exists
  <2>6. StatusesStay
    BY <1>2, <1>x, <2>4 DEF AssignSave, StatusesStay, TypeOK
  <2>7. \A d \in Deliveries : CallOwes(k, d) = {} /\ CallOwes(k, d)' = {}
    BY <2>1, <2>2 DEF CallOwes
  <2> QED
    BY <2>1, <2>2, <2>5, <2>6, <2>7, SilentTells
<1>3. CASE \E op \in {"create", "status", "assign"} : DeliveryMilestone(k, op)
  <2>0. PICK m : m = [from |-> call[k].seenD.status, to |-> MilestoneTo(r)]
    OBVIOUS
  <2>1. /\ EmitMilestone(x, call[k].seenD.status, MilestoneTo(r)) /\ call[k].pc = "milestone"
        /\ Finish(k, "done") /\ UNCHANGED <<delivery, mon>>
    BY <1>3, <1>x DEF DeliveryMilestone, At
  <2>2. OthersStay(k) /\ call'[k].pc = "done" /\ call'[k].req = r /\ call'[k].seenD = NoDelivery
    BY <2>1 DEF Finish, TypeOK, OthersStay
  <2>3. TellOK(k)'
    BY <2>2 DEF TellOK, NoDelivery
  <2>4. \A d \in Deliveries : CallOwes(k, d)' = {}
    BY <2>2 DEF CallOwes
  <2>5. \A d \in Deliveries \ {x} : event'[d] = event[d]
    BY <2>1 DEF EmitMilestone, TypeOK
  <2>6. StatusesStay
    BY <2>1 DEF StatusesStay
  <2>7. CASE r.op = "assign"
    <3>1. ~Unlinked(x)
      BY <1>x, <2>1, <2>7 DEF TellOK, Unlinked, EscrowsOf
    <3>2. \A d \in Deliveries : CallOwes(k, d) = {}
      BY <2>7 DEF CallOwes
    <3> QED
      BY <2>1, <2>2, <2>3, <2>4, <2>5, <2>6, <3>1, <3>2, SilentTells
  <2>8. CASE r.op \in {"create", "status"} /\ faults' = 0
    <3>1. \A d \in Deliveries : CallOwes(k, d) = IF d = x THEN {m} ELSE {}
      BY <1>x, <2>0, <2>1, <2>8 DEF CallOwes
    <3>2. \A d \in Deliveries : /\ a \in Actors /\ Owed(d)[a] = CallOwes(k, d) /\ Owed(d)'[a] = CallOwes(k, d)'
                                /\ \A b \in Actors \ {a} : Owed(d)'[b] = Owed(d)[b]
      BY <2>1, <2>2, OneCallMoves
    <3>3. event'[x] = Append(event[x], m)
      BY <2>0, <2>1, <2>8 DEF EmitMilestone, Fault, TypeOK
    <3>4. Owed(x)[a] = {m}
      BY <3>1, <3>2
    <3>5. m \in Milestone
      <4>1. Owed(x) \in [Actors -> SUBSET Milestone]
        BY OwedType
      <4> QED
        BY <3>2, <3>4, <4>1
    <3>6. \A d \in Deliveries : Owed(d)'[a] = {} /\ delivery'[d].status = delivery[d].status
      BY <2>1, <2>4, <3>2
    <3>7. \A d \in Deliveries \ {x} : Owed(d)[a] = {} /\ event'[d] = event[d]
      BY <2>5, <3>1, <3>2
    <3>8. \A d \in Deliveries : StorySteps(d)
      <4> HIDE DEF a
      <4> QED
        BY <3>2, <3>3, <3>4, <3>5, <3>6, <3>7, StoryIsTold
    <3> QED
      BY <2>1, <2>2, <2>3, <3>8 DEF Tells
  <2>9. CASE faults' # 0
    BY <2>1, <2>2, <2>3, <2>9 DEF Tells
  <2> QED
    BY <1>0, <2>7, <2>8, <2>9
<1> QED
  BY <1>1, <1>2, <1>3 DEF AssignDriver

\* Proofs of delivery and archiving leave the status alone.
LEMMA KeepersTell ==
    ASSUME TypeOK, NEW k \in Calls, TellOK(k),
           UploadProofOfDelivery(k) \/ ArchiveDelivery(k) \/ RestoreDelivery(k)
    PROVE  Tells(k)
<1>1. UNCHANGED <<event, mon>>
  BY DEF UploadProofOfDelivery, ProofCheck, ProofSave, ArchiveDelivery, RestoreDelivery, ArchiveCheck, ArchiveSave
<1>2. Plain(k)
  BY DEF Plain, Telling, Pcs, At, UploadProofOfDelivery, ProofCheck, ProofSave, ArchiveDelivery,
       RestoreDelivery, ArchiveCheck, ArchiveSave
<1>3. StatusesStay
  <2>1. CASE UNCHANGED delivery
    BY <2>1 DEF StatusesStay
  <2>2. ASSUME NEW d, delivery' = [delivery EXCEPT ![d].proof = TRUE] PROVE StatusesStay
    BY <2>2 DEF StatusesStay, TypeOK, DeliveryDoc
  <2>3. ASSUME NEW d, NEW b \in BOOLEAN, delivery' = [delivery EXCEPT ![d].archived = b] PROVE StatusesStay
    BY <2>3 DEF StatusesStay, TypeOK, DeliveryDoc
  <2>4. CASE UploadProofOfDelivery(k)
    BY <2>1, <2>2, <2>4 DEF UploadProofOfDelivery, ProofCheck, ProofSave
  <2>5. CASE ArchiveDelivery(k) \/ RestoreDelivery(k)
    <3>1. UNCHANGED delivery \/ delivery' = [delivery EXCEPT ![call[k].req.d].archived = TRUE]
            \/ delivery' = [delivery EXCEPT ![call[k].req.d].archived = FALSE]
      BY <2>5 DEF ArchiveDelivery, RestoreDelivery, ArchiveCheck, ArchiveSave
    <3> QED
      BY <2>1, <2>3, <3>1
  <2> QED
    BY <2>4, <2>5
<1> QED
  BY <1>1, <1>2, <1>3, PlainTells

\* An edit and an import write a status that is not logged.
LEMMA EditsTell ==
    ASSUME TypeOK, NEW k \in Calls, TellOK(k), UpdateDelivery(k) \/ ImportDelivery(k)
    PROVE  Tells(k)
<1>1. UNCHANGED <<event, mon>>
  BY DEF UpdateDelivery, ImportDelivery
<1>2. Plain(k)
  BY DEF Plain, Telling, Pcs, At, UpdateDelivery, ImportDelivery
<1>3. StatusesStay
  <2>x. PICK x : x = call[k].req.d
    OBVIOUS
  <2>1. PICK s \in DeliveryStatuses \ {"absent"}, doc \in DeliveryDoc :
          /\ doc.status = s /\ doc.logged = FALSE
          /\ UNCHANGED delivery \/ (x \in Deliveries /\ delivery' = [delivery EXCEPT ![x] = doc])
    <3>1. CASE UpdateDelivery(k)
      <4>1. x \in Deliveries /\ call[k].req.to \in DeliveryStatuses \ {"absent"} /\ delivery[x] \in DeliveryDoc
        BY <2>x, <3>1, CallFacts, RequestFields DEF UpdateDelivery, At, TypeOK
      <4>2. PICK new : new = [delivery[x] EXCEPT !.status = call[k].req.to, !.logged = FALSE]
        OBVIOUS
      <4>3. new \in DeliveryDoc /\ new.status = call[k].req.to /\ new.logged = FALSE
        BY <4>1, <4>2 DEF DeliveryDoc
      <4>4. UNCHANGED delivery \/ delivery' = [delivery EXCEPT ![x] = new]
        BY <2>x, <3>1, <4>1, <4>2 DEF UpdateDelivery, TypeOK
      <4> QED
        BY <4>1, <4>3, <4>4
    <3>2. CASE ImportDelivery(k)
      <4>1. x \in Deliveries
        BY <2>x, <3>2, CallFacts, RequestFields DEF ImportDelivery, At
      <4>2. PICK new : new = [NoDelivery EXCEPT !.status = "pending", !.logged = FALSE]
        OBVIOUS
      <4>3. new \in DeliveryDoc /\ new.status = "pending" /\ new.logged = FALSE
        BY <4>2, NoDocs DEF NoDelivery, DeliveryDoc, DeliveryStatuses
      <4>4. UNCHANGED delivery \/ delivery' = [delivery EXCEPT ![x] = new]
        BY <2>x, <3>2, <4>2 DEF ImportDelivery
      <4> QED
        BY <4>1, <4>3, <4>4 DEF DeliveryStatuses
    <3> QED
      BY <3>1, <3>2
  <2>2. CASE UNCHANGED delivery
    BY <2>2 DEF StatusesStay
  <2>3. CASE x \in Deliveries /\ delivery' = [delivery EXCEPT ![x] = doc]
    <3>1. delivery'[x] = doc /\ \A d \in Deliveries \ {x} : delivery'[d] = delivery[d]
      BY <2>3 DEF TypeOK
    <3>s. delivery'[x].status # "absent" /\ delivery'[x].logged = FALSE
      BY <2>1, <3>1
    <3>2. ~Logged(x)'
      BY <3>s DEF Logged, Exists
    <3>3. \A d \in Deliveries : Logged(d)' => delivery'[d] = delivery[d]
      BY <3>1, <3>2
    <3> QED
      BY <3>3 DEF StatusesStay
  <2> QED
    BY <2>1, <2>2, <2>3
<1> QED
  BY <1>1, <1>2, <1>3, PlainTells

\* A step of monitor m goes with the stories, too.
MonTells(m) ==
    /\ UNCHANGED call /\ \A n \in Monitors \ {m} : mon'[n] = mon[n]
    /\ faults' = 0 => \A d \in Deliveries : Unlinked(d) /\ Logged(d)' => StorySteps(d)

LEMMA SilentMonitor ==
    ASSUME NEW m \in Monitors, UNCHANGED <<call, event>>, StatusesStay,
           \A n \in Monitors \ {m} : mon'[n] = mon[n],
           \A d \in Deliveries : MonOwes(m, d) = {} /\ MonOwes(m, d)' = {}
    PROVE  MonTells(m)
<1> SUFFICES ASSUME NEW d \in Deliveries, Unlinked(d), Logged(d)' PROVE StorySteps(d)
  BY DEF MonTells
<1>0. /\ Owed(d)[<<"mon", m>>] = MonOwes(m, d) /\ Owed(d)'[<<"mon", m>>] = MonOwes(m, d)'
      /\ \A b \in Actors \ {<<"mon", m>>} : Owed(d)'[b] = Owed(d)[b]
  BY OneMonitorMoves
<1>1. \A b \in Actors : Owed(d)'[b] = Owed(d)[b]
  BY <1>0
<1> QED
  BY <1>1, StoryStands DEF StatusesStay

LEMMA MonitorTells ==
    ASSUME TypeOK, LapseNamed, NEW m \in Monitors, MonOK(m), MonStep(m)
    PROVE  MonTells(m)
<1> DEFINE lapse == [from |-> "pending", to |-> "cancelled"]
           a == <<"mon", m>>
<1>m. mon \in [Monitors -> MonRec] /\ mon[m] \in MonRec
  BY DEF TypeOK
<1>o. ASSUME mon[m].pc # "lapsed" PROVE \A d \in Deliveries : MonOwes(m, d) = {}
  BY <1>o DEF MonOwes
<1>q. ASSUME mon'[m].pc # "lapsed" PROVE \A d \in Deliveries : MonOwes(m, d)' = {}
  BY <1>q DEF MonOwes
<1>s. ASSUME UNCHANGED delivery PROVE StatusesStay
  BY <1>s DEF StatusesStay
\* A step that neither finds nor records a lapse.
<1>p. ASSUME UNCHANGED <<call, event>>, StatusesStay, mon[m].pc # "lapsed", NEW new,
             mon' = [mon EXCEPT ![m] = new], new.pc # "lapsed"
      PROVE  MonTells(m)
  <2>1. mon'[m] = new /\ \A n \in Monitors \ {m} : mon'[n] = mon[n]
    BY <1>m, <1>p
  <2> QED
    BY <1>o, <1>p, <1>q, <2>1, SilentMonitor
<1>1. CASE MonTick(m) \/ MonExpiryDone(m) \/ MonDone(m)
  <2>1. PICK p \in {"find", "ffind", "idle"} : mon' = [mon EXCEPT ![m].pc = p]
    BY <1>1 DEF MonTick, MonExpiryDone, MonDone, MonGoto
  <2>2. mon' = [mon EXCEPT ![m] = [mon[m] EXCEPT !.pc = p]] /\ [mon[m] EXCEPT !.pc = p].pc # "lapsed"
    BY <1>m, <2>1 DEF MonRec
  <2>3. UNCHANGED <<call, event, delivery>> /\ mon[m].pc # "lapsed"
    BY <1>1 DEF MonTick, MonExpiryDone, MonDone
  <2> QED
    BY <1>p, <1>s, <2>2, <2>3
<1>2. CASE MonFind(m)
  <2>a. PICK ids : ids = {c \in Contracts : escrow[c].status \in EXPIRABLE_STATUSES /\ escrow[c].expiresAt <= now}
    OBVIOUS
  <2>b. PICK p \in {"ffind", "flag"} : p = IF ids = {} THEN "ffind" ELSE "flag"
    OBVIOUS
  <2>1. mon' = [mon EXCEPT ![m].ids = ids, ![m].pc = p]
    BY <1>2, <2>a, <2>b DEF MonFind
  <2>2. PICK new : new = [mon[m] EXCEPT !.ids = ids, !.pc = p]
    OBVIOUS
  <2>3. mon' = [mon EXCEPT ![m] = new] /\ new.pc # "lapsed"
    BY <1>m, <2>1, <2>2 DEF MonRec
  <2>4. UNCHANGED <<call, event, delivery>> /\ mon[m].pc # "lapsed"
    BY <1>2 DEF MonFind
  <2> QED
    BY <1>p, <1>s, <2>3, <2>4
<1>3. CASE MonFlag(m)
  <2>1. PICK new : new = [mon[m] EXCEPT !.pc = "reload"]
    OBVIOUS
  <2>2. mon' = [mon EXCEPT ![m] = new] /\ new.pc # "lapsed"
    BY <1>3, <1>m, <2>1 DEF MonFlag, MonGoto, MonRec
  <2>3. UNCHANGED <<call, event, delivery>> /\ mon[m].pc # "lapsed"
    BY <1>3 DEF MonFlag
  <2> QED
    BY <1>p, <1>s, <2>2, <2>3
<1>4. CASE MonReload(m)
  <2>a. PICK ids : ids = {c \in mon[m].ids : escrow[c].status = "expired"}
    OBVIOUS
  <2>1. mon' = [mon EXCEPT ![m].ids = ids, ![m].pc = "cancel"]
    BY <1>4, <1>m, <2>a DEF MonReload
  <2>2. PICK new : new = [mon[m] EXCEPT !.ids = ids, !.pc = "cancel"]
    OBVIOUS
  <2>3. mon' = [mon EXCEPT ![m] = new] /\ new.pc # "lapsed"
    BY <1>m, <2>1, <2>2 DEF MonRec
  <2>4. UNCHANGED <<call, event, delivery>> /\ mon[m].pc # "lapsed"
    BY <1>4 DEF MonReload
  <2> QED
    BY <1>p, <1>s, <2>3, <2>4
<1>5. CASE MonCancelRead(m)
  <2>0. UNCHANGED <<call, event, delivery>> /\ mon[m].pc = "cancel"
    BY <1>5 DEF MonCancelRead
  <2>1. PICK c \in mon[m].ids :
          mon' = IF delivery[escrow[c].of].status \in {"completed", "cancelled"}
                 THEN [mon EXCEPT ![m].ids = @ \ {c}]
                 ELSE [mon EXCEPT ![m].pc = "cwrite", ![m].cur = c]
    BY <1>5 DEF MonCancelRead
  <2>2. PICK x, y : x = [mon[m] EXCEPT !.ids = @ \ {c}] /\ y = [mon[m] EXCEPT !.pc = "cwrite", !.cur = c]
    OBVIOUS
  <2>3. x.pc # "lapsed" /\ y.pc # "lapsed" /\ (mon' = [mon EXCEPT ![m] = x] \/ mon' = [mon EXCEPT ![m] = y])
    BY <1>m, <2>0, <2>1, <2>2 DEF MonRec
  <2> QED
    BY <1>p, <1>s, <2>0, <2>3
<1>6. CASE MonCancelWrite(m)
  <2>0. /\ UNCHANGED <<call, event>> /\ mon[m].pc = "cwrite" /\ SetStatus(escrow[mon[m].cur].of, "cancelled")
        /\ NextFlagged(m)
    BY <1>6 DEF MonCancelWrite
  <2>1. PICK new : new = [mon[m] EXCEPT !.pc = "cancel", !.ids = @ \ {mon[m].cur}, !.cur = Free]
    OBVIOUS
  <2>2. mon' = [mon EXCEPT ![m] = new] /\ new.pc # "lapsed"
    BY <1>m, <2>0, <2>1 DEF NextFlagged, MonRec
  <2>3. StatusesStay
    <3>1. mon[m].cur \in Contracts
      BY <2>0 DEF MonOK
    <3> QED
      BY <2>0, <3>1, LinkedIsAside DEF Unlinked
  <2> QED
    BY <1>p, <2>0, <2>2, <2>3
<1>7. CASE MonFindLapsed(m)
  <2>1. PICK todo : mon' = [mon EXCEPT ![m].pc = "lapse", ![m].todo = todo]
    BY <1>7 DEF MonFindLapsed
  <2>2. PICK new : new = [mon[m] EXCEPT !.pc = "lapse", !.todo = todo]
    OBVIOUS
  <2>3. mon' = [mon EXCEPT ![m] = new] /\ new.pc # "lapsed"
    BY <1>m, <2>1, <2>2 DEF MonRec
  <2>4. UNCHANGED <<call, event, delivery>> /\ mon[m].pc # "lapsed"
    BY <1>7 DEF MonFindLapsed
  <2> QED
    BY <1>p, <1>s, <2>3, <2>4
<1>8. CASE MonCancelLapsed(m)
  <2>0. UNCHANGED <<call, event>> /\ mon[m].pc = "lapse" /\ mon[m].todo \subseteq Deliveries
    BY <1>8, <1>m DEF MonCancelLapsed, MonRec
  <2>1. PICK x \in mon[m].todo :
          /\ CancelLapsed(x)
          /\ mon' = IF delivery[x].status = "pending"
                    THEN [mon EXCEPT ![m].pc = "lapsed", ![m].curD = x]
                    ELSE [mon EXCEPT ![m].todo = @ \ {x}]
    BY <1>8 DEF MonCancelLapsed
  <2>x. x \in Deliveries
    BY <2>0, <2>1
  <2>2. CASE delivery[x].status # "pending"
    <3>1. PICK new : new = [mon[m] EXCEPT !.todo = @ \ {x}]
      OBVIOUS
    <3>2. mon' = [mon EXCEPT ![m] = new] /\ new.pc # "lapsed"
      BY <1>m, <2>0, <2>1, <2>2, <3>1 DEF MonRec
    <3>3. StatusesStay
      BY <1>s, <2>1, <2>2, <2>x, LapseMoves
    <3> QED
      BY <1>p, <2>0, <3>2, <3>3
  <2>3. CASE delivery[x].status = "pending"
    <3>1. mon'[m].pc = "lapsed" /\ mon'[m].curD = x /\ \A n \in Monitors \ {m} : mon'[n] = mon[n]
      BY <1>m, <2>1, <2>3 DEF MonRec
    <3>2. \A d \in Deliveries : MonOwes(m, d)' = IF d = x THEN {lapse} ELSE {}
      BY <3>1 DEF MonOwes
    <3>3. \A d \in Deliveries : /\ a \in Actors /\ Owed(d)[a] = MonOwes(m, d) /\ Owed(d)'[a] = MonOwes(m, d)'
                                /\ \A b \in Actors \ {a} : Owed(d)'[b] = Owed(d)[b]
      BY <2>0, <3>1, OneMonitorMoves
    <3>4. /\ \A d \in Deliveries \ {x} : delivery'[d].status = delivery[d].status
          /\ delivery'[x].status = "cancelled"
          /\ Stage[delivery[x].status] < Stage[delivery'[x].status]
      BY <2>1, <2>3, <2>x, LapseMoves
    <3>5. \A d \in Deliveries : Owed(d)[a] = {} /\ event'[d] = event[d]
      BY <1>o, <2>0, <3>3
    <3>6. \A d \in Deliveries \ {x} : Owed(d)'[a] = {} /\ delivery'[d].status = delivery[d].status
      BY <3>2, <3>3, <3>4
    <3>7. Owed(x)'[a] = {[from |-> delivery[x].status, to |-> delivery'[x].status]}
      BY <2>3, <2>x, <3>2, <3>3, <3>4
    <3>8. \A d \in Deliveries : StorySteps(d)
      <4> HIDE DEF a
      <4> QED
        BY <2>x, <3>3, <3>4, <3>5, <3>6, <3>7, StoryIsMoved
    <3> QED
      BY <2>0, <3>1, <3>8 DEF MonTells
  <2> QED
    BY <2>2, <2>3
<1>9. CASE MonRecordLapse(m)
  <2>0. UNCHANGED <<call, delivery>> /\ mon[m].pc = "lapsed" /\ RecordLapse(mon[m].curD)
    BY <1>9 DEF MonRecordLapse
  <2>x. PICK x \in Deliveries : x = mon[m].curD
    BY <2>0 DEF LapseNamed
  <2>1. mon'[m].pc = "lapse" /\ \A n \in Monitors \ {m} : mon'[n] = mon[n]
    BY <1>m, <1>9 DEF MonRecordLapse, MonRec
  <2>2. ASSUME faults' = 0 PROVE \A d \in Deliveries : StorySteps(d)
    <3>1. \A d \in Deliveries : MonOwes(m, d) = IF d = x THEN {lapse} ELSE {}
      BY <2>0, <2>x DEF MonOwes
    <3>2. \A d \in Deliveries : MonOwes(m, d)' = {}
      BY <1>q, <2>1
    <3>3. \A d \in Deliveries : /\ a \in Actors /\ Owed(d)[a] = MonOwes(m, d) /\ Owed(d)'[a] = MonOwes(m, d)'
                                /\ \A b \in Actors \ {a} : Owed(d)'[b] = Owed(d)[b]
      BY <2>0, <2>1, OneMonitorMoves
    <3>4. /\ event'[x] = Append(event[x], lapse) /\ lapse \in Milestone
          /\ \A d \in Deliveries \ {x} : event'[d] = event[d]
      BY <2>0, <2>x, <2>2, LapseIsLogged
    <3>5. \A d \in Deliveries : Owed(d)'[a] = {} /\ delivery'[d].status = delivery[d].status
      BY <2>0, <3>2, <3>3
    <3>6. \A d \in Deliveries \ {x} : Owed(d)[a] = {} /\ event'[d] = event[d]
      BY <3>1, <3>3, <3>4
    <3>7. Owed(x)[a] = {lapse}
      BY <3>1, <3>3
    <3> HIDE DEF a, lapse
    <3> QED
      BY <3>3, <3>4, <3>5, <3>6, <3>7, StoryIsTold
  <2> QED
    BY <2>0, <2>1, <2>2 DEF MonTells
<1> QED
  BY <1>1, <1>2, <1>3, <1>4, <1>5, <1>6, <1>7, <1>8, <1>9
     DEF MonStep, ScanForExpiredEscrows, ScanLapsedFundingWindows

\* The stories go on with every step.
LEMMA StoryStep == StoryInv /\ [Next]_vars => StoryInv'
<1> SUFFICES ASSUME StoryInv, [Next]_vars PROVE StoryInv'
  OBVIOUS
<1>0. /\ RecordInv /\ TypeOK /\ LapseNamed /\ NoStray
      /\ (\A k \in Calls : CallOK(k) /\ TellOK(k)) /\ (\A m \in Monitors : MonOK(m))
  BY DEF StoryInv, RecordInv, TypeInv
<1>1. RecordInv' /\ EscrowGrows /\ DeliveryGrows /\ RestGrows
  BY <1>0, RecordKept DEF RecordStep, EscrowFine, DeliveryFine
<1>t. TypeOK'
  BY <1>1 DEF RecordInv, TypeInv
\* What has no escrow had none.
<1>u. ASSUME NEW d \in Deliveries, Unlinked(d)' PROVE Unlinked(d)
  <2> SUFFICES ASSUME NEW c \in Contracts, escrow[c].of = d PROVE FALSE
    BY DEF Unlinked
  <2>1. Exists(escrow[c])
    BY <1>0, StoreAssumption DEF NoStray, NoEscrow
  <2> QED
    BY <1>u, <1>1, <2>1 DEF EscrowGrows, Unlinked
\* What is logged was so.
<1>l. ASSUME NEW d \in Deliveries, Logged(d)' PROVE Logged(d)
  BY <1>1, <1>l DEF Logged, DeliveryGrows
\* Requests that rest keep what they know.
<1>j. ASSUME NEW j \in Calls, call'[j] = call[j] PROVE TellOK(j)'
  <2>1. ASSUME call[j].req.op = "assign", call[j].pc = "milestone" PROVE EscrowsOf(call[j].req.d)' # {}
    <3>1. PICK c \in Contracts : Exists(escrow[c]) /\ escrow[c].of = call[j].req.d
      BY <1>0, <2>1 DEF TellOK, EscrowsOf
    <3>2. Exists(escrow[c])' /\ escrow'[c].of = call'[j].req.d
      BY <1>1, <1>j, <3>1 DEF EscrowGrows
    <3> QED
      BY <3>2 DEF EscrowsOf, Exists
  <2> QED
    BY <1>0, <1>j, <2>1 DEF TellOK
<1>s. ASSUME faults' = 0 => \A d \in Deliveries : Unlinked(d) /\ Logged(d)' => StorySteps(d),
             \A k \in Calls : TellOK(k)'
      PROVE  StoryInv'
  <2>1. ASSUME faults' = 0, NEW d \in Deliveries, Unlinked(d)', Logged(d)' PROVE StoryOf(d)'
    <3>1. Unlinked(d) /\ Logged(d) /\ faults = 0
      BY <1>u, <1>l, <1>1, <2>1 DEF RestGrows
    <3>2. StoryOf(d) /\ StorySteps(d)
      BY <1>s, <2>1, <3>1 DEF StoryInv
    <3> QED
      BY <1>0, <1>t, <3>2, StoryStepKeeps
  <2> QED
    BY <1>1, <1>s, <2>1 DEF StoryInv
<1>k. ASSUME NEW k \in Calls, Tells(k) PROVE StoryInv'
  <2>1. \A j \in Calls : TellOK(j)'
    BY <1>k, <1>j DEF Tells, OthersStay
  <2> QED
    BY <1>k, <1>s, <2>1 DEF Tells
<1>m. ASSUME NEW m \in Monitors, MonTells(m) PROVE StoryInv'
  <2>1. \A j \in Calls : TellOK(j)'
    BY <1>m, <1>j DEF MonTells
  <2> QED
    BY <1>m, <1>s, <2>1 DEF MonTells
<1>2. ASSUME NEW k \in Calls, Invoke(k) PROVE StoryInv'
  <2>1. PICK p \in {"acquire", "start"} : Goto(k, p)
    BY <1>2 DEF Invoke
  <2>2. Plain(k)
    BY <1>2, <2>1 DEF Plain, Telling, Pcs, Invoke
  <2>3. UNCHANGED <<event, mon>> /\ StatusesStay
    BY <1>2 DEF Invoke, StatusesStay
  <2> QED
    BY <1>0, <1>k, <2>2, <2>3, PlainTells
<1>3. ASSUME NEW k \in Calls, Serve(k) PROVE StoryInv'
  <2>1. CASE RecordEscrowFunded(k)
    BY <1>0, <1>k, <2>1, FundTells
  <2>2. CASE \/ AcquireLock(k) \/ AcquireFails(k) \/ ReleaseEscrow(k)
             \/ ResolveEscrow(k) \/ RetryExpiredEscrow(k) \/ HandleSettlementEvent(k)
    BY <1>0, <1>k, <2>2, SettlersTell
  <2>3. CASE CreateDelivery(k) \/ UpdateStatus(k)
    BY <1>0, <1>k, <2>3, MoversTell
  <2>4. CASE AssignDriver(k) \/ \E op \in {"create", "status", "assign"} : DeliveryMilestone(k, op)
    BY <1>0, <1>k, <2>4, TellersTell
  <2>5. CASE UploadProofOfDelivery(k) \/ ArchiveDelivery(k) \/ RestoreDelivery(k)
    BY <1>0, <1>k, <2>5, KeepersTell
  <2>6. CASE UpdateDelivery(k) \/ ImportDelivery(k)
    BY <1>0, <1>k, <2>6, EditsTell
  <2> QED
    BY <1>3, <2>1, <2>2, <2>3, <2>4, <2>5, <2>6 DEF Serve
\* After a fault nothing is claimed of the logs.
<1>f. ASSUME NEW k \in Calls, RequestFails(k) \/ ProcessCrashes(k) PROVE StoryInv'
  <2>1. call' = [call EXCEPT ![k] = [req |-> call[k].req, pc |-> "failed",
                                     seenD |-> NoDelivery, seenE |-> NoEscrow]]
    BY <1>f DEF RequestFails, ProcessCrashes, Finish
  <2>2. OthersStay(k) /\ call'[k].pc = "failed" /\ call'[k].seenD = NoDelivery
    BY <1>0, <2>1 DEF TypeOK, OthersStay
  <2>3. TellOK(k)'
    BY <2>2 DEF TellOK, NoDelivery
  <2>4. faults' # 0
    BY <1>0, <1>f DEF RequestFails, ProcessCrashes, Fault, TypeOK
  <2>5. UNCHANGED mon
    BY <1>f DEF RequestFails, ProcessCrashes
  <2> QED
    BY <1>k, <2>2, <2>3, <2>4, <2>5 DEF Tells
<1>4. ASSUME NEW m \in Monitors, MonStep(m) PROVE StoryInv'
  BY <1>0, <1>m, <1>4, MonitorTells
<1>5. ASSUME NEW m \in Monitors, MonCancelFails(m) \/ MonCrash(m) PROVE StoryInv'
  <2>1. faults' # 0 /\ UNCHANGED call
    BY <1>0, <1>5 DEF MonCancelFails, MonCrash, Fault, TypeOK
  <2>2. \A j \in Calls : TellOK(j)'
    BY <1>j, <2>1
  <2> QED
    BY <1>s, <2>1, <2>2
<1>6. ASSUME (\E key \in LockKeys : LockTimesOut(key)) \/ ClockTick \/ Rest \/ UNCHANGED vars
      PROVE  StoryInv'
  <2>1. UNCHANGED <<delivery, event, call, mon>>
    BY <1>6 DEF LockTimesOut, ClockTick, Rest, vars
  <2>2. \A j \in Calls : TellOK(j)'
    BY <1>j, <2>1
  <2>3. ASSUME NEW d \in Deliveries PROVE StorySteps(d)
    <3>1. \A b \in Actors : Owed(d)'[b] = Owed(d)[b]
      BY <2>1 DEF Owed, CallOwes, MonOwes
    <3> QED
      BY <2>1, <3>1, StoryStands
  <2> QED
    BY <1>s, <2>2, <2>3
<1> QED
  BY <1>2, <1>3, <1>f, <1>4, <1>5, <1>6 DEF Next

\* At the start nothing is owed.
LEMMA StoryStart == Init => StoryInv
<1> SUFFICES ASSUME Init PROVE StoryInv
  OBVIOUS
<1>1. PICK p \in Profiles :
        /\ call \in [Calls -> {IdleCall(r) : r \in p.offered}]
        /\ delivery = p.delivery /\ escrow = p.escrow /\ event = p.event
  BY DEF Init
<1>2. RecordInv /\ TypeOK
  BY RecordInit DEF RecordInv, TypeInv
<1>3. \A k \in Calls : call[k].pc = "idle" /\ call[k].seenD = NoDelivery
  BY <1>1 DEF IdleCall
<1>4. \A k \in Calls : TellOK(k)
  BY <1>3 DEF TellOK, NoDelivery
<1>5. ASSUME NEW d \in Deliveries, Unlinked(d), Logged(d) PROVE StoryOf(d)
  <2> DEFINE s == delivery[d].status
             log == event[d]
  <2>1. \A a \in Actors : Owed(d)[a] = {}
    <3>1. \A k \in Calls : CallOwes(k, d) = {}
      BY <1>3 DEF CallOwes
    <3>2. \A m \in Monitors : MonOwes(m, d) = {}
      BY DEF MonOwes, Init, IdleMon
    <3> SUFFICES ASSUME NEW a \in Actors PROVE Owed(d)[a] = {}
      OBVIOUS
    <3>3. CASE a[1] = "call"
      <4>1. a[2] \in Calls
        BY <3>3 DEF Actors
      <4> QED
        BY <3>1, <3>3, <4>1 DEF Owed
    <3>4. CASE a[1] # "call"
      <4>1. a[2] \in Monitors
        BY <3>4 DEF Actors
      <4> QED
        BY <3>2, <3>4, <4>1 DEF Owed
    <3> QED
      BY <3>3, <3>4
  <2>2. Due(Owed(d)) = {}
    BY <2>1 DEF Due
  <2>3. /\ s # "absent" => Told(s, log)
        /\ \A i \in DOMAIN log : Stage[log[i].to] \in 1..Stage[s]
    <3>1. p.delivery[d].logged
      BY <1>1, <1>5, ProfilesAssumption DEF Logged, NoDelivery
    <3> QED
      BY <1>1, <1>5, <3>1, StoriesAssumption DEF Unlinked
  <2>4. \A i \in DOMAIN log : s # "absent"
    <3> SUFFICES ASSUME NEW i \in DOMAIN log, s = "absent" PROVE FALSE
      OBVIOUS
    <3>1. Stage[s] = 0 /\ Stage[log[i].to] \in 1..Stage[s]
      BY <2>3 DEF Stage
    <3> QED
      BY <3>1
  <2>5. \A t \in Entered(log) : Stage[t] \in 1..Stage[s]
    BY <2>3 DEF Entered
  <2>6. /\ s # "absent" => s \in Entered(log)
        /\ \A i, j \in DOMAIN log : log[i].to = log[j].to => i = j
        /\ \A i \in DOMAIN log : log[i].from \in Entered(log) \cup {"absent"}
    BY <2>3, <2>4 DEF Told, Entered
  <2> HIDE DEF s, log
  <2>7. Story(s, log, Owed(d))
    BY <2>1, <2>2, <2>5, <2>6 DEF Story
  <2> QED
    BY <2>7 DEF StoryOf, s, log
<1> QED
  BY <1>2, <1>4, <1>5 DEF StoryInv

\* emitMilestone and the delivery service, for any number of requests, deliveries
\* and monitors: when all requests are answered and nothing failed, the log of a
\* delivery without an escrow, that nobody imported or edited, tells how it came
\* to its status, although milestones are recorded after the move and in any order.
THEOREM LogsTellTheStory == Spec => []MilestonesTellTheStory
<1>1. StoryInv => MilestonesTellTheStory
  <2> SUFFICES ASSUME StoryInv, Quiescent, faults = 0, NEW d \in Deliveries, Exists(delivery[d]),
                      delivery[d].logged, \A c \in Contracts : escrow[c].of # d
               PROVE  Told(delivery[d].status, event[d])
    BY DEF MilestonesTellTheStory
  <2> DEFINE s == delivery[d].status
             log == event[d]
  <2>1. Story(s, log, Owed(d)) /\ s # "absent"
    BY DEF StoryInv, Unlinked, Logged, StoryOf, Exists
  <2>2. \A a \in Actors : Owed(d)[a] = {}
    <3>1. \A k \in Calls : CallOwes(k, d) = {}
      BY DEF CallOwes, Quiescent, Running, Finished
    <3>2. \A m \in Monitors : MonOwes(m, d) = {}
      BY DEF MonOwes, Quiescent
    <3> SUFFICES ASSUME NEW a \in Actors PROVE Owed(d)[a] = {}
      OBVIOUS
    <3>3. CASE a[1] = "call"
      <4>1. a[2] \in Calls
        BY <3>3 DEF Actors
      <4> QED
        BY <3>1, <3>3, <4>1 DEF Owed
    <3>4. CASE a[1] # "call"
      <4>1. a[2] \in Monitors
        BY <3>4 DEF Actors
      <4> QED
        BY <3>2, <3>4, <4>1 DEF Owed
    <3> QED
      BY <3>3, <3>4
  <2>3. Due(Owed(d)) = {}
    BY <2>2 DEF Due
  <2> HIDE DEF s, log
  <2>4. Told(s, log)
    BY <2>1, <2>3 DEF Story, Told, Entered
  <2> QED
    BY <2>4 DEF s, log
<1> QED
  BY <1>1, StoryStart, StoryStep, PTL DEF Spec
=============================================================================
