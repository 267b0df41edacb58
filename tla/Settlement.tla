----------------------------- MODULE Settlement -----------------------------
(***************************************************************************)
(* The settlement core as one system: the escrow service, the delivery     *)
(* service, the indexer's settlement events and the escrow monitors of all *)
(* server processes, interleaved over one database.                        *)
(***************************************************************************)
EXTENDS EscrowMonitor, DeliveryService, EscrowIndexer

Running(k) == call[k].pc \notin {"idle"} \cup Finished

\* A client (or the indexer) submits its request.
Invoke(k) ==
    /\ call[k].pc = "idle"
    /\ Goto(k, IF call[k].req.op \in Locking THEN "acquire" ELSE "start")
    /\ UNCHANGED <<delivery, escrow, event, audit, now, mon, faults>>

\* The next awaited call of request k.
Serve(k) ==
    \/ RecordEscrowFunded(k)
    \/ AcquireLock(k) \/ AcquireFails(k)
    \/ ReleaseEscrow(k) \/ ResolveEscrow(k) \/ RetryExpiredEscrow(k)
    \/ HandleSettlementEvent(k)
    \/ CreateDelivery(k) \/ UpdateStatus(k) \/ AssignDriver(k)
    \/ \E op \in {"create", "status", "assign"} : DeliveryMilestone(k, op)
    \/ UploadProofOfDelivery(k) \/ ArchiveDelivery(k) \/ RestoreDelivery(k)
    \/ UpdateDelivery(k) \/ ImportDelivery(k)

\* A database call throws: the handler answers 500 and its finally runs.
RequestFails(k) ==
    /\ Running(k)
    /\ Fault
    /\ Finish(k, "failed")
    /\ UNCHANGED <<delivery, escrow, event, audit, now, mon>>

\* The process dies: what was written stays, and so does the lock key.
ProcessCrashes(k) ==
    /\ Running(k)
    /\ Fault
    /\ call' = [call EXCEPT ![k] = [req |-> call[k].req, pc |-> "failed",
                                    seenD |-> NoDelivery, seenE |-> NoEscrow]]
    /\ UNCHANGED <<delivery, escrow, event, audit, lock, now, mon>>

\* Redis drops a key REDIS_LOCK_TTL_MS after it was set.
LockTimesOut(key) ==
    /\ lock[key] # Free
    /\ LocksExpire \/ ~Running(lock[key])
    /\ lock' = [lock EXCEPT ![key] = Free]
    /\ UNCHANGED <<delivery, escrow, event, audit, now, call, mon, faults>>

ClockTick ==
    /\ now < MaxTime
    /\ now' = now + 1
    /\ UNCHANGED <<delivery, escrow, event, audit, lock, call, mon, faults>>

Quiescent == (\A k \in Calls : ~Running(k)) /\ (\A m \in Monitors : mon[m].pc = "idle")

\* With no request and no scan under way the system may rest.
Rest == Quiescent /\ (\A x \in LockKeys : lock[x] = Free) /\ UNCHANGED vars

Next ==
    \/ \E k \in Calls : Invoke(k) \/ Serve(k) \/ RequestFails(k) \/ ProcessCrashes(k)
    \/ \E m \in Monitors : MonStep(m) \/ MonCancelFails(m) \/ MonCrash(m)
    \/ \E key \in LockKeys : LockTimesOut(key)
    \/ ClockTick
    \/ Rest

Spec == Init /\ [][Next]_vars

(* Fairness.  A request, once submitted, and a monitor tick, once started,
   are driven to their end by the event loop; cron starts a tick again and
   again; Redis expires a key nobody gives back; the clock goes on.  Nobody
   has to submit a request, and nothing has to fail. *)
Fairness ==
    /\ \A k \in Calls : WF_vars(Serve(k))
    /\ \A m \in Monitors : WF_vars(MonStep(m))
    /\ \A key \in LockKeys : WF_vars(LockTimesOut(key))
    /\ WF_vars(ClockTick)

FairSpec == Spec /\ Fairness

-----------------------------------------------------------------------------
(* Safety *)

\* Every variable has its type: documents, logs, locks and requests keep the
\* shape the mongoose schemas and the handlers give them.
TypeOK ==
    /\ delivery \in [Deliveries -> DeliveryDoc]
    /\ escrow \in [Contracts -> EscrowDoc]
    /\ event \in [Deliveries -> Seq(Milestone)]
    /\ audit \subseteq Calls \cup Deliveries
    /\ lock \in [LockKeys -> Calls \cup {Free}]
    /\ now \in Nat /\ faults \in Nat
    /\ call \in [Calls -> CallRec]
    /\ mon \in [Monitors -> MonRec]

\* However funding events for the same deliveries, contracts and transactions
\* race, recordEscrowFunded never leaves two escrows on one delivery, and no
\* transaction is on record in two escrows.
LinksAreUnique == Indexed(escrow)

InCriticalSection(k) ==
    Running(k) /\ call[k].req.op \in Locking /\ call[k].pc # "acquire"

\* withLock: two requests with the same lock key are never both inside the
\* locked function, as long as no handler outlives the lock's TTL.
MutualExclusion ==
    \A k1, k2 \in Calls :
        /\ InCriticalSection(k1) /\ InCriticalSection(k2)
        /\ LockKey(call[k1].req) = LockKey(call[k2].req)
        => k1 = k2

\* Nobody but releaseEscrow settles escrows in this behaviour.
OnlyReleaseEscrowSettles == \A k \in Calls : call[k].req.op \in {"release", "status", "proof"}

\* releaseEscrow's guard: funds are not released while the delivery behind the
\* escrow has no proof of delivery on record.
ReleasedHasProof ==
    OnlyReleaseEscrowSettles => \A c \in Contracts : escrow[c].status = "released" => delivery[escrow[c].of].proof

\* Once every request is answered and none failed, a released escrow stands
\* beside a completed delivery, as long as its lock has not run out: whoever
\* raced releaseEscrow for the delivery's status lost.
ReleasedIsCompleted ==
    Quiescent /\ faults = 0 /\ OnlyReleaseEscrowSettles =>
        \A c \in Contracts :
            escrow[c].status = "released" /\ escrow[c].expiresAt > now
                => delivery[escrow[c].of].status = "completed"

\* releaseEscrow's lock: "concurrent requests cannot release the same escrow
\* twice", so an escrow's transaction list holds one release at most.
ReleasedAtMostOnce ==
    \A c \in Contracts :
        Cardinality({i \in DOMAIN escrow[c].txs : escrow[c].txs[i].kind = "release"}) <= 1

\* resolveEscrow: "every resolution is audit-logged".  No decision an admin
\* was told of is missing from the audit log, unless writing the log failed.
EveryDecisionIsAudited ==
    faults = 0 =>
        \A k \in Calls :
            call[k].pc = "done" /\ call[k].req.op \in {"resolve", "retry"} => k \in audit

\* What stays on record of funding and of the admins' decisions is sound: documents
\* keep their shape, links are unique, and decisions are audited.
RecordsAreSound == TypeOK /\ LinksAreUnique /\ EveryDecisionIsAudited

\* releaseEscrow as a whole: funds go out once, with proof, for a delivery that
\* ends completed.
ReleaseIsSound == ReleasedHasProof /\ ReleasedIsCompleted /\ ReleasedAtMostOnce

\* The milestones of log tell how a delivery came to the status s: each status was
\* entered once, from a status that had been entered, and s is among them.
Told(s, log) ==
    LET entered == {log[i].to : i \in DOMAIN log}
    IN /\ s \in entered
       /\ \A i, j \in DOMAIN log : log[i].to = log[j].to => i = j
       /\ \A i \in DOMAIN log : log[i].from \in entered \cup {"absent"}

\* With every request answered and nothing lost, the milestone log tells how a
\* delivery came to its status, whoever raced whom.  Two kinds of delivery are
\* excepted, for their status is written without a milestone: one behind an escrow
\* (resolutions, chain events), and one imported or edited (~logged).
MilestonesTellTheStory ==
    Quiescent /\ faults = 0 =>
        \A d \in Deliveries :
            /\ Exists(delivery[d]) /\ delivery[d].logged
            /\ \A c \in Contracts : escrow[c].of # d
            => Told(delivery[d].status, event[d])

\* How far along ALLOWED_TRANSITIONS a status is.
Stage == [absent |-> 0, pending |-> 1, funded |-> 2, assigned |-> 3, in_progress |-> 4, completed |-> 5, cancelled |-> 5]

\* The logs a behaviour starts with, where milestones were raised all along, tell
\* such a story too, and of no status beyond the present one.
ASSUME StoriesAssumption ==
    \A p \in Profiles : \A d \in Deliveries :
        LET s == p.delivery[d].status
            log == p.event[d]
        IN p.delivery[d].logged /\ (\A c \in Contracts : p.escrow[c].of # d) =>
            /\ s # "absent" => Told(s, log)
            /\ \A i \in DOMAIN log : Stage[log[i].to] \in 1..Stage[s]

-----------------------------------------------------------------------------
(* Action properties *)

\* models/Escrow.ts: a settled escrow "can no longer change".
SettledIsFinal ==
    [][\A c \in Contracts :
        escrow[c].status \in TERMINAL_STATUSES => escrow'[c].status = escrow[c].status]_vars

\* Both scans decide on what they read and write later.  Still no escrow that was
\* settled in between is expired, and a delivery that was funded, assigned or
\* cancelled meanwhile is not cancelled as lapsed.
ScansRespectLateWrites ==
    [][/\ \A c \in Contracts :
            escrow'[c].status = "expired" /\ escrow[c].status # "expired"
                => escrow[c].status \in {"pending", "locked"}
       /\ \A d \in Deliveries :
            delivery'[d].lapsed /\ ~delivery[d].lapsed
                => delivery[d].status = "pending" /\ delivery[d].fundBy <= now]_vars

\* recordEscrowFunded's policy: "a cancelled delivery stays cancelled".
CancelledStaysCancelled ==
    [][\A d \in Deliveries :
        delivery[d].status = "cancelled" => delivery'[d].status = "cancelled"]_vars

-----------------------------------------------------------------------------
(* The life cycles the documents follow *)

EscrowMoves ==
    [absent   |-> {"locked"},
     pending  |-> {"locked", "released", "refunded", "expired"},
     locked   |-> {"released", "refunded", "expired"},
     disputed |-> {"locked", "released", "refunded"},
     expired  |-> {"locked", "released", "refunded", "resolved"},
     released |-> {},
     refunded |-> {},
     resolved |-> {}]

EscrowLifecycle ==
    INSTANCE Lifecycle WITH Ids <- Contracts, Moves <- EscrowMoves,
        Starts <- {[c \in Contracts |-> p.escrow[c].status] : p \in Profiles},
        st <- [c \in Contracts |-> escrow[c].status]

\* The escrow documents follow the escrow life cycle: opened once, settled once.
EscrowsFollowLifecycle == EscrowLifecycle!Spec

DeliveryMoves == [ALLOWED_TRANSITIONS EXCEPT !.absent = {"pending"}]

\* This step is the unconditional write of an edit of d.
Edits(d) ==
    \E k \in Calls : At(k, "update", "start") /\ call[k].req.d = d /\ call'[k].pc = "done"

\* A delivery no escrow writes to (see CancelledStaysCancelled) follows
\* ALLOWED_TRANSITIONS, "nothing follows a completed or cancelled delivery", although
\* every status check is made on an old copy and edits, which check nothing, may
\* have come in between.  Only the edit itself leaves the life cycle.
DeliveriesFollowLifecycle ==
    [][\A d \in Deliveries :
        (\A c \in Contracts : escrow[c].of # d) /\ ~Edits(d)
            => delivery'[d].status \in DeliveryMoves[delivery[d].status] \cup {delivery[d].status}]_vars

-----------------------------------------------------------------------------
(* Liveness, of FairSpec *)

\* The scan that expires an escrow also cancels the delivery behind it, unless
\* the escrow is taken out of the expired state first, something fails, or a
\* funding request is still writing the delivery.
ExpiredIsCancelled ==
    \A c \in Contracts :
        escrow[c].status = "expired" /\ (\A k \in Calls : call[k].req.op # "fund")
            ~> \/ escrow[c].status # "expired" \/ faults > 0
               \/ \E d \in Deliveries : /\ escrow[c].of = d
                                        /\ delivery[d].status \in {"completed", "cancelled"}

\* A lock key never stays taken: its holder gives it back or Redis expires it.
LocksAreGivenBack == \A x \in LockKeys : lock[x] # Free ~> lock[x] = Free

\* The monitor leaves no escrow locked past its expiry and no live delivery
\* pending past its funding deadline.
OverdueIsSwept ==
    /\ \A c \in Contracts :
         (escrow[c].status = "locked" /\ escrow[c].expiresAt <= now)
             ~> ~(escrow[c].status = "locked" /\ escrow[c].expiresAt <= now)
    /\ \A d \in Deliveries :
         (FundingWindowLapsed(delivery[d]) /\ ~delivery[d].archived)
             ~> ~(FundingWindowLapsed(delivery[d]) /\ ~delivery[d].archived)

\* No crash, failure or lost race leaves something waiting for good: neither a
\* lock key, nor an overdue escrow or delivery, nor the delivery of an expired escrow.
NothingHangs == LocksAreGivenBack /\ OverdueIsSwept /\ ExpiredIsCancelled
=============================================================================
