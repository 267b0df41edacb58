-------------------------- MODULE DeliveryService --------------------------
(***************************************************************************)
(* services/delivery.service.ts, services/proofOfDeliveryService.ts and    *)
(* the insert of services/bulkDeliveryService.ts: the operations that      *)
(* write a delivery.                                                       *)
(***************************************************************************)
EXTENDS Store

ALLOWED_TRANSITIONS ==
    [absent      |-> {},
     pending     |-> {"funded", "assigned", "cancelled"},
     funded      |-> {"assigned", "cancelled"},
     assigned    |-> {"in_progress", "cancelled"},
     in_progress |-> {"completed", "cancelled"},
     completed   |-> {},
     cancelled   |-> {}]

-----------------------------------------------------------------------------
(* create *)

CreateCheck(k) ==
    /\ At(k, "create", "start")
    /\ IF Exists(delivery[call[k].req.d]) THEN Finish(k, "rejected") ELSE Goto(k, "write")
    /\ UNCHANGED <<delivery, escrow, event, audit, now, mon, faults>>

\* trackingNumber is unique: the second of two racing inserts fails.
CreateWrite(k) ==
    LET r == call[k].req
    IN /\ At(k, "create", "write")
       /\ IF Exists(delivery[r.d])
          THEN Finish(k, "failed") /\ UNCHANGED delivery
          ELSE /\ delivery' = [delivery EXCEPT ![r.d] =
                     [NoDelivery EXCEPT !.status = "pending", !.escrowed = r.escrowed,
                                        !.fundBy = IF r.escrowed THEN now + FundWindow ELSE 0]]
               /\ Goto(k, "milestone")
       /\ UNCHANGED <<escrow, event, audit, now, mon, faults>>

CreateDelivery(k) == CreateCheck(k) \/ CreateWrite(k)

-----------------------------------------------------------------------------
(* updateStatus *)

StatusCheck(k) ==
    LET r == call[k].req
        doc == delivery[r.d]
        permitted == r.to \in ALLOWED_TRANSITIONS[doc.status]
    IN /\ At(k, "status", "start")
       /\ \/ ~permitted /\ Finish(k, "rejected")
          \/ permitted /\ GotoSeeingD(k, IF r.to = "completed" THEN "proof" ELSE "write", doc)
       /\ UNCHANGED <<delivery, escrow, event, audit, now, mon, faults>>

StatusAssertProof(k) ==
    /\ At(k, "status", "proof")
    /\ IF delivery[call[k].req.d].proof THEN Goto(k, "write") ELSE Finish(k, "rejected")
    /\ UNCHANGED <<delivery, escrow, event, audit, now, mon, faults>>

\* Mutant: the milestone is raised without looking at the update's result.
StatusWriteBlind(k) ==
    LET r == call[k].req
    IN /\ At(k, "status", "write")
       /\ MoveStatus(r.d, call[k].seenD.status, r.to)
       /\ Goto(k, "milestone")
       /\ UNCHANGED <<escrow, event, audit, now, mon, faults>>

\* transitionStatus: the status read is part of the filter.
StatusWrite(k) ==
    LET r == call[k].req
        seen == call[k].seenD.status
    IN /\ At(k, "status", "write")
       /\ MoveStatus(r.d, seen, r.to)
       /\ IF delivery[r.d].status = seen THEN Goto(k, "milestone") ELSE Finish(k, "rejected")
       /\ UNCHANGED <<escrow, event, audit, now, mon, faults>>

UpdateStatus(k) == StatusCheck(k) \/ StatusAssertProof(k) \/ StatusWrite(k)

-----------------------------------------------------------------------------
(* assignDriver *)

AssignReadDelivery(k) ==
    LET doc == delivery[call[k].req.d]
    IN /\ At(k, "assign", "start")
       /\ IF doc.status \in {"absent", "completed", "cancelled", "assigned"}
          THEN Finish(k, "rejected")
          ELSE GotoSeeingD(k, "read", doc)
       /\ UNCHANGED <<delivery, escrow, event, audit, now, mon, faults>>

AssignReadEscrow(k) ==
    /\ At(k, "assign", "read")
    /\ IF \E c \in EscrowsOf(call[k].req.d) : escrow[c].status = "locked"
       THEN Goto(k, "write")
       ELSE Finish(k, "rejected")
    /\ UNCHANGED <<delivery, escrow, event, audit, now, mon, faults>>

AssignSave(k) ==
    LET r == call[k].req
    IN /\ At(k, "assign", "write")
       /\ delivery' = [delivery EXCEPT ![r.d].status = "assigned", ![r.d].driver = r.drv]
       /\ Goto(k, "milestone")
       /\ UNCHANGED <<escrow, event, audit, now, mon, faults>>

AssignDriver(k) == AssignReadDelivery(k) \/ AssignReadEscrow(k) \/ AssignSave(k)

-----------------------------------------------------------------------------
(* emitMilestone, after the status change of create, updateStatus, assignDriver *)

MilestoneTo(r) ==
    CASE r.op = "create" -> "pending"
      [] r.op = "assign" -> "assigned"
      [] r.op = "status" -> r.to

DeliveryMilestone(k, op) ==
    LET r == call[k].req
    IN /\ At(k, op, "milestone")
       /\ EmitMilestone(r.d, call[k].seenD.status, MilestoneTo(r))
       /\ Finish(k, "done")
       /\ UNCHANGED <<delivery, escrow, audit, now, mon>>

-----------------------------------------------------------------------------
(* update, and the insert of a bulk import: neither raises a milestone. *)

\* findByIdAndUpdate with $set: the status is written whatever it was.  A
\* delivery event posted by the indexer writes its status in the same way.
UpdateDelivery(k) ==
    LET r == call[k].req
    IN /\ At(k, "update", "start")
       /\ IF Exists(delivery[r.d])
          THEN /\ delivery' = [delivery EXCEPT ![r.d].status = r.to, ![r.d].logged = FALSE]
               /\ Finish(k, "done")
          ELSE Finish(k, "rejected") /\ UNCHANGED delivery
       /\ UNCHANGED <<escrow, event, audit, now, mon, faults>>

\* A document of insertMany: pending, and without a funding deadline.
ImportDelivery(k) ==
    LET d == call[k].req.d
    IN /\ At(k, "import", "start")
       /\ IF Exists(delivery[d])
          THEN Finish(k, "rejected") /\ UNCHANGED delivery
          ELSE /\ delivery' = [delivery EXCEPT ![d] =
                     [NoDelivery EXCEPT !.status = "pending", !.logged = FALSE]]
               /\ Finish(k, "done")
       /\ UNCHANGED <<escrow, event, audit, now, mon, faults>>

-----------------------------------------------------------------------------
(* uploadProofOfDelivery, archive and restore *)

\* The upload to the storage driver lies between the check and the save.
ProofCheck(k) ==
    LET r == call[k].req
        doc == delivery[r.d]
    IN /\ At(k, "proof", "start")
       /\ IF /\ doc.status \notin {"absent", "completed", "cancelled"}
             /\ doc.driver \in {Free, r.drv}
          THEN Goto(k, "write")
          ELSE Finish(k, "rejected")
       /\ UNCHANGED <<delivery, escrow, event, audit, now, mon, faults>>

ProofSave(k) ==
    /\ At(k, "proof", "write")
    /\ delivery' = [delivery EXCEPT ![call[k].req.d].proof = TRUE]
    /\ Finish(k, "done")
    /\ UNCHANGED <<escrow, event, audit, now, mon, faults>>

UploadProofOfDelivery(k) == ProofCheck(k) \/ ProofSave(k)

ArchiveCheck(k, op) ==
    LET doc == delivery[call[k].req.d]
    IN /\ At(k, op, "start")
       /\ IF Exists(doc) /\ doc.archived = (op = "restore")
          THEN Goto(k, "write")
          ELSE Finish(k, "rejected")
       /\ UNCHANGED <<delivery, escrow, event, audit, now, mon, faults>>

\* softDelete() and restore() of the Delivery model.
ArchiveSave(k, op) ==
    /\ At(k, op, "write")
    /\ delivery' = [delivery EXCEPT ![call[k].req.d].archived = (op = "archive")]
    /\ Finish(k, "done")
    /\ UNCHANGED <<escrow, event, audit, now, mon, faults>>

ArchiveDelivery(k) == ArchiveCheck(k, "archive") \/ ArchiveSave(k, "archive")
RestoreDelivery(k) == ArchiveCheck(k, "restore") \/ ArchiveSave(k, "restore")
=============================================================================
