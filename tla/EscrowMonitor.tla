--------------------------- MODULE EscrowMonitor ---------------------------
(***************************************************************************)
(* jobs/escrowMonitor.ts: the cron job of each server process.  A tick     *)
(* runs scanForExpiredEscrows and then scanLapsedFundingWindows; isRunning *)
(* makes the ticks of one process follow each other, and nothing keeps the *)
(* ticks of two processes apart.                                           *)
(***************************************************************************)
EXTENDS EscrowService

\* Mutant: locked escrows are forgotten.
ExpirablePendingOnly == {"pending"}

EXPIRABLE_STATUSES == {"pending", "locked"}

MonGoto(m, p) == mon' = [mon EXCEPT ![m].pc = p]

\* cron fires while isRunning is false.
MonTick(m) ==
    /\ mon[m].pc = "idle"
    /\ MonGoto(m, "find")
    /\ UNCHANGED <<delivery, escrow, event, audit, lock, now, call, faults>>

-----------------------------------------------------------------------------
(* scanForExpiredEscrows *)

\* The candidates; reading the latest ledger for the audit stamp follows.
MonFind(m) ==
    LET due == {c \in Contracts : /\ escrow[c].status \in EXPIRABLE_STATUSES
                                  /\ escrow[c].expiresAt <= now}
    IN /\ mon[m].pc = "find"
       /\ mon' = [mon EXCEPT ![m].ids = due, ![m].pc = IF due = {} THEN "ffind" ELSE "flag"]
       /\ UNCHANGED <<delivery, escrow, event, audit, lock, now, call, faults>>

\* Mutant: the ids read earlier are flagged whatever they have become.
MonFlagUnfiltered(m) ==
    /\ mon[m].pc = "flag"
    /\ escrow' = [c \in Contracts |->
                    IF c \in mon[m].ids THEN [escrow[c] EXCEPT !.status = "expired"] ELSE escrow[c]]
    /\ MonGoto(m, "reload")
    /\ UNCHANGED <<delivery, event, audit, lock, now, call, faults>>

\* updateMany: by id, and still expirable; expiresAt is not looked at again.
MonFlag(m) ==
    /\ mon[m].pc = "flag"
    /\ escrow' = [c \in Contracts |->
                    IF c \in mon[m].ids /\ escrow[c].status \in EXPIRABLE_STATUSES
                    THEN [escrow[c] EXCEPT !.status = "expired"]
                    ELSE escrow[c]]
    /\ MonGoto(m, "reload")
    /\ UNCHANGED <<delivery, event, audit, lock, now, call, faults>>

\* Mutant: the reload repeats the candidate query.
MonReloadCandidates(m) ==
    /\ mon[m].pc = "reload"
    /\ mon' = [mon EXCEPT ![m].ids = {c \in @ : escrow[c].status \in EXPIRABLE_STATUSES},
                          ![m].pc = "cancel"]
    /\ UNCHANGED <<delivery, escrow, event, audit, lock, now, call, faults>>

MonReload(m) ==
    /\ mon[m].pc = "reload"
    /\ mon' = [mon EXCEPT ![m].ids = {c \in @ : escrow[c].status = "expired"},
                          ![m].pc = "cancel"]
    /\ UNCHANGED <<delivery, escrow, event, audit, lock, now, call, faults>>

\* cancelDeliveryForExpiredEscrow: read the delivery of the next flagged escrow.
MonCancelRead(m) ==
    /\ mon[m].pc = "cancel"
    /\ \E c \in mon[m].ids :
         mon' = IF delivery[escrow[c].of].status \in {"completed", "cancelled"}
                THEN [mon EXCEPT ![m].ids = @ \ {c}]
                ELSE [mon EXCEPT ![m].pc = "cwrite", ![m].cur = c]
    /\ UNCHANGED <<delivery, escrow, event, audit, lock, now, call, faults>>

NextFlagged(m) ==
    mon' = [mon EXCEPT ![m].pc = "cancel", ![m].ids = @ \ {mon[m].cur}, ![m].cur = Free]

MonCancelWrite(m) ==
    /\ mon[m].pc = "cwrite"
    /\ SetStatus(escrow[mon[m].cur].of, "cancelled")
    /\ NextFlagged(m)
    /\ UNCHANGED <<escrow, event, audit, lock, now, call, faults>>

\* A failure here is logged; the rest of the scan goes on.
MonCancelFails(m) ==
    /\ mon[m].pc = "cwrite"
    /\ Fault
    /\ NextFlagged(m)
    /\ UNCHANGED <<delivery, escrow, event, audit, lock, now, call>>

MonExpiryDone(m) ==
    /\ mon[m].pc = "cancel" /\ mon[m].ids = {}
    /\ MonGoto(m, "ffind")
    /\ UNCHANGED <<delivery, escrow, event, audit, lock, now, call, faults>>

ScanForExpiredEscrows(m) ==
    \/ MonFind(m) \/ MonFlag(m) \/ MonReload(m)
    \/ MonCancelRead(m) \/ MonCancelWrite(m) \/ MonExpiryDone(m)

-----------------------------------------------------------------------------
(* scanLapsedFundingWindows *)

MonFindLapsed(m) ==
    /\ mon[m].pc = "ffind"
    /\ mon' = [mon EXCEPT ![m].pc = "lapse",
                          ![m].todo = {d \in Deliveries : /\ FundingWindowLapsed(delivery[d])
                                                          /\ ~delivery[d].archived}]
    /\ UNCHANGED <<delivery, escrow, event, audit, lock, now, call, faults>>

MonCancelLapsed(m) ==
    /\ mon[m].pc = "lapse"
    /\ \E d \in mon[m].todo :
         /\ CancelLapsed(d)
         /\ mon' = IF delivery[d].status = "pending"
                   THEN [mon EXCEPT ![m].pc = "lapsed", ![m].curD = d]
                   ELSE [mon EXCEPT ![m].todo = @ \ {d}]
    /\ UNCHANGED <<escrow, event, audit, lock, now, call, faults>>

MonRecordLapse(m) ==
    /\ mon[m].pc = "lapsed"
    /\ RecordLapse(mon[m].curD)
    /\ mon' = [mon EXCEPT ![m].pc = "lapse", ![m].todo = @ \ {mon[m].curD}, ![m].curD = Free]
    /\ UNCHANGED <<delivery, escrow, lock, now, call>>

MonDone(m) ==
    /\ mon[m].pc = "lapse" /\ mon[m].todo = {}
    /\ MonGoto(m, "idle")
    /\ UNCHANGED <<delivery, escrow, event, audit, lock, now, call, faults>>

ScanLapsedFundingWindows(m) ==
    MonFindLapsed(m) \/ MonCancelLapsed(m) \/ MonRecordLapse(m) \/ MonDone(m)

-----------------------------------------------------------------------------
\* A query throws out of the scan, or the process restarts: the tick is over,
\* the next one starts from nothing.
MonCrash(m) ==
    /\ mon[m].pc # "idle"
    /\ Fault
    /\ mon' = [mon EXCEPT ![m] = IdleMon]
    /\ UNCHANGED <<delivery, escrow, event, audit, lock, now, call>>

MonStep(m) == MonTick(m) \/ ScanForExpiredEscrows(m) \/ ScanLapsedFundingWindows(m)
=============================================================================
