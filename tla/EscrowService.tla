--------------------------- MODULE EscrowService ---------------------------
(***************************************************************************)
(* services/escrow.service.ts: recording a funding event, releasing an     *)
(* escrow, and the two admin operations.  One action per awaited call; the *)
(* synchronous code after an await belongs to the action of that await.    *)
(*                                                                         *)
(* Requests are well formed: a malformed id, an asset or an amount that    *)
(* differs from the delivery's is answered before anything is written.     *)
(***************************************************************************)
EXTENDS Store

RESOLVABLE_STATUSES == {"locked", "disputed", "expired"}

ComputeExpiresAt(lockedAt) == lockedAt + TTL

-----------------------------------------------------------------------------
(* cancelLapsedFundingWindow, shared with the monitor's scan. *)

\* The conditional update: still pending, or left exactly as it now stands.
CancelLapsed(d) ==
    IF delivery[d].status = "pending"
    THEN delivery' = [delivery EXCEPT ![d].status = "cancelled", ![d].lapsed = TRUE]
    ELSE UNCHANGED delivery

\* The audit entry and then the funding_window_lapsed milestone, each best effort.  Two awaits, one
\* step: they write different collections, and nobody reads a delivery's audit entries.
RecordLapse(d) ==
    LET logged == [event EXCEPT ![d] = Append(@, [from |-> "pending", to |-> "cancelled"])]
    IN \/ audit' = audit \cup {d} /\ event' = logged /\ UNCHANGED faults
       \/ Fault /\ audit' \in {audit, audit \cup {d}} /\ event' \in {event, logged}

-----------------------------------------------------------------------------
(* recordEscrowFunded *)

FundReadDelivery(k) ==
    LET d == call[k].req.d
        doc == delivery[d]
    IN /\ At(k, "fund", "start")
       /\ \/ doc.status \in {"absent", "cancelled"} /\ Finish(k, "rejected")
          \/ FundingWindowLapsed(doc) /\ Goto(k, "lapse")
          \/ /\ doc.status \notin {"absent", "cancelled"} /\ ~FundingWindowLapsed(doc)
             /\ GotoSeeingD(k, "read", doc)
       /\ UNCHANGED <<delivery, escrow, event, audit, now, mon, faults>>

FundCancelLapsed(k) ==
    LET d == call[k].req.d
    IN /\ At(k, "fund", "lapse")
       /\ CancelLapsed(d)
       /\ IF delivery[d].status = "pending" THEN Goto(k, "lapsed") ELSE Finish(k, "rejected")
       /\ UNCHANGED <<escrow, event, audit, now, mon, faults>>

FundRecordLapse(k) ==
    /\ At(k, "fund", "lapsed")
    /\ RecordLapse(call[k].req.d)
    /\ Finish(k, "rejected")
    /\ UNCHANGED <<delivery, escrow, now, mon>>

FundReadContract(k) ==
    /\ At(k, "fund", "read")
    /\ GotoSeeingE(k, "read2", escrow[call[k].req.c])
    /\ UNCHANGED <<delivery, escrow, event, audit, now, mon, faults>>

\* findByDeliveryId, then every check on the two copies read.
FundCheck(k) ==
    LET r == call[k].req
        e == call[k].seenE
        linked == /\ EscrowsOf(r.d) \subseteq {r.c}
                  /\ Exists(e) => e.of = r.d
        replay == r.h \in HashesOf(e)
        open == Exists(e) => e.status \in {"locked", "pending"}
    IN /\ At(k, "fund", "read2")
       /\ \/ ~linked /\ Finish(k, "rejected")
          \/ linked /\ replay /\ Finish(k, "done")
          \/ linked /\ ~replay /\ ~open /\ Finish(k, "rejected")
          \/ linked /\ ~replay /\ open /\ Goto(k, "write")
       /\ UNCHANGED <<delivery, escrow, event, audit, now, mon, faults>>

\* Mutant: no unique index on delivery.
FundConflictsUnindexed(r, seen) ==
    HashTakenElsewhere(r.c, r.h) \/ (~Exists(seen) /\ Exists(escrow[r.c]))

\* The unique indexes on delivery, contractId and transactions.hash.
FundConflicts(r, seen) ==
    \/ HashTakenElsewhere(r.c, r.h)
    \/ ~Exists(seen) /\ (Exists(escrow[r.c]) \/ EscrowsOf(r.d) # {})

\* The document to write: an update of the copy read, or a new document.
FundedEscrow(r, seen) ==
    LET tx == [hash |-> r.h, kind |-> "fund"]
        lockedAt == IF Exists(seen) THEN seen.lockedAt ELSE now
    IN [of |-> r.d, status |-> "locked", lockedAt |-> lockedAt,
        expiresAt |-> ComputeExpiresAt(lockedAt), txs |-> Append(escrow[r.c].txs, tx)]

FundWriteEscrow(k) ==
    LET r == call[k].req
        e == call[k].seenE
    IN /\ At(k, "fund", "write")
       /\ IF FundConflicts(r, e)
          THEN Finish(k, "failed") /\ UNCHANGED escrow
          ELSE /\ escrow' = [escrow EXCEPT ![r.c] = FundedEscrow(r, e)]
               /\ IF call[k].seenD.status = "funded"
                  THEN Finish(k, "done")
                  ELSE Goto(k, "dwrite")
       /\ UNCHANGED <<delivery, event, audit, now, mon, faults>>

FundWriteDelivery(k) ==
    /\ At(k, "fund", "dwrite")
    /\ SetStatus(call[k].req.d, "funded")
    /\ Goto(k, "milestone")
    /\ UNCHANGED <<escrow, event, audit, now, mon, faults>>

FundMilestone(k) ==
    /\ At(k, "fund", "milestone")
    /\ EmitMilestone(call[k].req.d, call[k].seenD.status, "funded")
    /\ Finish(k, "done")
    /\ UNCHANGED <<delivery, escrow, audit, now, mon>>

RecordEscrowFunded(k) ==
    \/ FundReadDelivery(k) \/ FundCancelLapsed(k) \/ FundRecordLapse(k)
    \/ FundReadContract(k) \/ FundCheck(k) \/ FundWriteEscrow(k)
    \/ FundWriteDelivery(k) \/ FundMilestone(k)

-----------------------------------------------------------------------------
(* withLock *)

\* Mutant: SET without NX.
AcquireLockAnyway(k) ==
    /\ call[k].pc = "acquire"
    /\ lock' = [lock EXCEPT ![LockKey(call[k].req)] = k]
    /\ call' = [call EXCEPT ![k].pc = "read"]
    /\ UNCHANGED <<delivery, escrow, event, audit, now, mon, faults>>

AcquireLock(k) ==
    LET key == LockKey(call[k].req)
    IN /\ call[k].pc = "acquire"
       /\ lock[key] = Free
       /\ lock' = [lock EXCEPT ![key] = k]
       /\ call' = [call EXCEPT ![k].pc = "read"]
       /\ UNCHANGED <<delivery, escrow, event, audit, now, mon, faults>>

\* redlock gives up after REDIS_LOCK_RETRY_COUNT retries.
AcquireFails(k) ==
    /\ call[k].pc = "acquire"
    /\ lock[LockKey(call[k].req)] # Free
    /\ Finish(k, "failed")
    /\ UNCHANGED <<delivery, escrow, event, audit, now, mon, faults>>

-----------------------------------------------------------------------------
(* releaseEscrow *)

ReleaseRead(k) ==
    LET r == call[k].req
        e == escrow[r.c]
        replay == r.h \in HashesOf(e)
    IN /\ At(k, "release", "read")
       /\ \/ replay /\ Finish(k, "done")
          \/ ~replay /\ e.status # "locked" /\ Finish(k, "rejected")
          \/ ~replay /\ e.status = "locked" /\ Goto(k, "proof")
       /\ UNCHANGED <<delivery, escrow, event, audit, now, mon, faults>>

\* Mutant: the guard is not awaited.
ReleaseSkipProof(k) ==
    /\ At(k, "release", "proof")
    /\ Goto(k, "write")
    /\ UNCHANGED <<delivery, escrow, event, audit, now, mon, faults>>

\* assertProofOfDeliveryExists
ReleaseAssertProof(k) ==
    /\ At(k, "release", "proof")
    /\ IF delivery[escrow[call[k].req.c].of].proof
       THEN Goto(k, "write")
       ELSE Finish(k, "rejected")
    /\ UNCHANGED <<delivery, escrow, event, audit, now, mon, faults>>

\* escrow.save(): $set status and $push the transaction, by _id alone.
ReleaseSave(k) ==
    LET r == call[k].req
        tx == [hash |-> r.h, kind |-> "release"]
    IN /\ At(k, "release", "write")
       /\ IF HashTakenElsewhere(r.c, r.h)
          THEN Finish(k, "failed") /\ UNCHANGED escrow
          ELSE /\ escrow' = [escrow EXCEPT ![r.c].status = "released",
                                           ![r.c].txs = Append(@, tx)]
               /\ Goto(k, "dread")
       /\ UNCHANGED <<delivery, event, audit, now, mon, faults>>

ReleaseReadDelivery(k) ==
    LET doc == delivery[escrow[call[k].req.c].of]
    IN /\ At(k, "release", "dread")
       /\ IF doc.status = "completed" THEN Finish(k, "done") ELSE Goto(k, "dwrite")
       /\ UNCHANGED <<delivery, escrow, event, audit, now, mon, faults>>

ReleaseWriteDelivery(k) ==
    /\ At(k, "release", "dwrite")
    /\ SetStatus(escrow[call[k].req.c].of, "completed")
    /\ Finish(k, "done")
    /\ UNCHANGED <<escrow, event, audit, now, mon, faults>>

ReleaseEscrow(k) ==
    \/ ReleaseRead(k) \/ ReleaseAssertProof(k) \/ ReleaseSave(k)
    \/ ReleaseReadDelivery(k) \/ ReleaseWriteDelivery(k)

-----------------------------------------------------------------------------
(* resolveEscrow and retryExpiredEscrow *)

AdminMayAct(op, status) ==
    IF op = "resolve" THEN status \in RESOLVABLE_STATUSES ELSE status = "expired"

AdminRead(k, op) ==
    LET e == escrow[call[k].req.c]
    IN /\ At(k, op, "read")
       /\ IF AdminMayAct(op, e.status) THEN GotoSeeingE(k, "write", e) ELSE Finish(k, "rejected")
       /\ UNCHANGED <<delivery, escrow, event, audit, now, mon, faults>>

\* keep_locked assigns the status it read when that was locked already, and
\* mongoose then leaves the path out of the update.
ResolvedEscrow(e, choice, seen) ==
    CASE choice = "release_to_driver" -> [e EXCEPT !.status = "released"]
      [] choice = "refund_to_payer" -> [e EXCEPT !.status = "refunded"]
      [] choice = "keep_locked" ->
           [e EXCEPT !.status = IF seen.status = "locked" THEN @ ELSE "locked",
                     !.expiresAt = ComputeExpiresAt(now)]

ResolveSave(k) ==
    LET r == call[k].req
    IN /\ At(k, "resolve", "write")
       /\ escrow' = [escrow EXCEPT ![r.c] = ResolvedEscrow(@, r.choice, call[k].seenE)]
       /\ Goto(k, IF r.choice = "keep_locked" THEN "audit" ELSE "dread")
       /\ UNCHANGED <<delivery, event, audit, now, mon, faults>>

RetriedEscrow(e, choice) ==
    IF choice = "refund"
    THEN [e EXCEPT !.status = "locked", !.lockedAt = now, !.expiresAt = ComputeExpiresAt(now)]
    ELSE [e EXCEPT !.status = "resolved"]

RetrySave(k) ==
    LET r == call[k].req
    IN /\ At(k, "retry", "write")
       /\ escrow' = [escrow EXCEPT ![r.c] = RetriedEscrow(@, r.choice)]
       /\ Goto(k, "dread")
       /\ UNCHANGED <<delivery, event, audit, now, mon, faults>>

DeliveryStatusFor(r) ==
    CASE r.choice = "release_to_driver" -> "completed"
      [] r.op = "retry" /\ r.choice = "refund" -> "funded"
      [] OTHER -> "cancelled"

\* applyDeliveryStatus: read the delivery, and write unless it is there already.
ApplyRead(k, op) ==
    LET r == call[k].req
    IN /\ At(k, op, "dread")
       /\ Goto(k, IF delivery[escrow[r.c].of].status = DeliveryStatusFor(r) THEN "audit" ELSE "dwrite")
       /\ UNCHANGED <<delivery, escrow, event, audit, now, mon, faults>>

ApplyWrite(k, op) ==
    LET r == call[k].req
    IN /\ At(k, op, "dwrite")
       /\ SetStatus(escrow[r.c].of, DeliveryStatusFor(r))
       /\ Goto(k, "audit")
       /\ UNCHANGED <<escrow, event, audit, now, mon, faults>>

AdminAudit(k, op) ==
    /\ At(k, op, "audit")
    /\ WriteAuditLog(k)
    /\ Finish(k, "done")
    /\ UNCHANGED <<delivery, escrow, event, now, mon>>

ResolveEscrow(k) ==
    \/ AdminRead(k, "resolve") \/ ResolveSave(k)
    \/ ApplyRead(k, "resolve") \/ ApplyWrite(k, "resolve") \/ AdminAudit(k, "resolve")

RetryExpiredEscrow(k) ==
    \/ AdminRead(k, "retry") \/ RetrySave(k)
    \/ ApplyRead(k, "retry") \/ ApplyWrite(k, "retry") \/ AdminAudit(k, "retry")
=============================================================================
