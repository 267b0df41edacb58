------------------------------- MODULE Store -------------------------------
(***************************************************************************)
(* The state the settlement services share: the Delivery and Escrow        *)
(* collections of MongoDB, the DeliveryEvent log, the Redis lock keys, the *)
(* clock, and the HTTP requests / indexer events in flight.                *)
(*                                                                         *)
(* A request runs in the Node process as a chain of awaited database       *)
(* calls.  Between two awaits every other request may run, so each request *)
(* is a record [req, pc, seenD, seenE]: what was asked, where it is, and   *)
(* the copies of documents it read earlier and will still act upon.        *)
(***************************************************************************)
EXTENDS Naturals, Sequences, FiniteSets

CONSTANTS
    Deliveries,   \* delivery ids
    Contracts,    \* Soroban contract ids, one per escrow
    Hashes,       \* on-chain transaction hashes
    Drivers,      \* driver ids
    Calls,        \* the requests of a behaviour; each is submitted once
    Monitors,     \* server processes that run the escrow monitor job
    Profiles,     \* what a behaviour may start from, and the requests it may see
    Free,         \* "no holder" of a lock key, "no driver" of a delivery
    TTL,          \* ESCROW_LOCK_TTL_SECONDS, in clock units
    FundWindow,   \* ESCROW_FUNDING_WINDOW_SECONDS, in clock units
    MaxTime,      \* bound on the clock
    MaxFaults,    \* bound on failing database calls and crashed processes
    LocksExpire   \* may a Redis lock time out while its holder still runs?

DeliveryStatuses ==
    {"absent", "pending", "funded", "assigned", "in_progress", "completed", "cancelled"}

EscrowStatuses ==
    {"absent", "pending", "locked", "released", "refunded", "disputed", "expired", "resolved"}

\* models/Escrow.ts, behind the `isSettled` virtual.
TERMINAL_STATUSES == {"released", "refunded", "resolved"}

Resolutions == {"release_to_driver", "refund_to_payer", "keep_locked"}
RetryActions == {"refund", "cancel"}

\* A release request names the escrow by ObjectId or by contract id.
IdForms == {"id", "contract"}

Request ==
         [op: {"create"}, d: Deliveries, escrowed: BOOLEAN]
    \cup [op: {"fund"}, d: Deliveries, c: Contracts, h: Hashes]
    \cup [op: {"release"}, c: Contracts, h: Hashes, form: IdForms]
    \cup [op: {"resolve"}, c: Contracts, choice: Resolutions]
    \cup [op: {"retry"}, c: Contracts, choice: RetryActions]
    \cup [op: {"chain"}, c: Contracts, h: Hashes, to: {"released", "refunded"}]
    \cup [op: {"status"}, d: Deliveries, to: DeliveryStatuses \ {"absent"}]
    \cup [op: {"assign"}, d: Deliveries, drv: Drivers]
    \cup [op: {"proof"}, d: Deliveries, drv: Drivers]
    \cup [op: {"update"}, d: Deliveries, to: DeliveryStatuses \ {"absent"}]
    \cup [op: {"archive", "restore", "import"}, d: Deliveries]

VARIABLES
    delivery,   \* Delivery documents by id; status "absent" when not created
    escrow,     \* Escrow documents by contract id; status "absent" when none
    event,      \* the DeliveryEvent log of each delivery: <<[from, to], ...>>
    audit,      \* calls and deliveries an AuditLog entry was written for
    lock,       \* holder of each Redis lock key
    now,        \* the wall clock
    call,       \* the requests
    mon,        \* the escrow monitor of each process
    faults      \* faults suffered so far

vars == <<delivery, escrow, event, audit, lock, now, call, mon, faults>>

-----------------------------------------------------------------------------
(* Documents. *)

TxKinds == {"fund", "release", "refund"}
Tx == [hash: Hashes, kind: TxKinds]

DeliveryDoc ==
    [status: DeliveryStatuses, escrowed: BOOLEAN, fundBy: Nat, lapsed: BOOLEAN,
     proof: BOOLEAN, driver: Drivers \cup {Free}, archived: BOOLEAN,
     logged: BOOLEAN]   \* history: was every status written by one who raises a milestone?

EscrowDoc ==
    [of: Deliveries \cup {Free}, status: EscrowStatuses,
     lockedAt: Nat, expiresAt: Nat, txs: Seq(Tx)]

NoDelivery ==
    [status |-> "absent", escrowed |-> FALSE, fundBy |-> 0, lapsed |-> FALSE,
     proof |-> FALSE, driver |-> Free, archived |-> FALSE, logged |-> TRUE]

NoEscrow ==
    [of |-> Free, status |-> "absent", lockedAt |-> 0, expiresAt |-> 0, txs |-> <<>>]

Exists(doc) == doc.status # "absent"

HashesOf(e) == {e.txs[i].hash : i \in DOMAIN e.txs}

\* The unique multikey index on transactions.hash compares documents, so it
\* rejects a hash another escrow holds, and not a repeat inside one escrow.
HashTakenElsewhere(c, h) == \E c2 \in Contracts \ {c} : h \in HashesOf(escrow[c2])

\* The escrows linked to delivery d (findByDeliveryId; unique index on delivery).
EscrowsOf(d) == {c \in Contracts : Exists(escrow[c]) /\ escrow[c].of = d}

\* The unique indexes on delivery and transactions.hash, of the documents es.
Indexed(es) ==
    \A c1, c2 \in Contracts :
        c1 # c2 /\ Exists(es[c1]) /\ Exists(es[c2])
            => es[c1].of # es[c2].of /\ HashesOf(es[c1]) \cap HashesOf(es[c2]) = {}

\* delivery.save() and updateById write the changed path alone, by _id,
\* whatever the document has become since it was read.
SetStatus(d, s) == delivery' = [delivery EXCEPT ![d].status = s]

\* Mutant: the expected status is left out of the filter.
MoveStatusUnfiltered(d, from, to) == SetStatus(d, to)

\* updateOne with the expected status in the filter: the loser matches nothing.
MoveStatus(d, from, to) ==
    IF delivery[d].status = from THEN SetStatus(d, to) ELSE UNCHANGED delivery

\* isFundingWindowLapsed, on whichever copy of the document the caller holds.
FundingWindowLapsed(doc) == doc.status = "pending" /\ doc.escrowed /\ doc.fundBy <= now

Milestone == [from: DeliveryStatuses, to: DeliveryStatuses]

ASSUME StoreAssumption ==
    /\ TTL \in Nat /\ FundWindow \in Nat /\ MaxTime \in Nat /\ MaxFaults \in Nat
    /\ LocksExpire \in BOOLEAN
    /\ Free \notin Calls \cup Drivers \cup Contracts \cup Deliveries

\* A profile: the documents on record and the requests that will come.
ASSUME ProfilesAssumption ==
    \A p \in Profiles :
        /\ p.offered \subseteq Request
        /\ p.delivery \in [Deliveries -> DeliveryDoc]
        /\ p.escrow \in [Contracts -> EscrowDoc] /\ Indexed(p.escrow)
        /\ \A c \in Contracts : ~Exists(p.escrow[c]) => p.escrow[c] = NoEscrow
        /\ \A d \in Deliveries : ~Exists(p.delivery[d]) => p.delivery[d] = NoDelivery
        /\ p.event \in [Deliveries -> Seq(Milestone)]

-----------------------------------------------------------------------------
(* Redis lock keys (config/redis.ts). *)

LockKeys == {"release", "resolve"} \X IdForms \X Contracts

LockKey(r) ==
    IF r.op = "release" THEN <<"release", r.form, r.c>> ELSE <<"resolve", "id", r.c>>

Locking == {"release", "resolve", "retry"}

\* lock.release() of withLock's finally: Redis drops the key only if this
\* holder still owns it.  A request that never locks changes nothing.
ReleaseLock(k) ==
    lock' = [x \in LockKeys |-> IF lock[x] = k THEN Free ELSE lock[x]]

-----------------------------------------------------------------------------
(* Requests in flight. *)

Pcs == {"idle", "start", "acquire", "read", "read2", "lapse", "proof", "write",
        "dread", "dwrite", "milestone", "lapsed", "audit",
        "done", "rejected", "failed"}

Finished == {"done", "rejected", "failed"}

CallRec == [req: Request, pc: Pcs, seenD: DeliveryDoc, seenE: EscrowDoc]

\* A request r that has not been submitted yet.
IdleCall(r) == [req |-> r, pc |-> "idle", seenD |-> NoDelivery, seenE |-> NoEscrow]

\* Request k is of operation op and its next database call is p.
At(k, op, p) == call[k].pc = p /\ call[k].req.op = op

\* The request awaits its next database call p; it keeps what it has read.
Goto(k, p) == call' = [call EXCEPT ![k].pc = p] /\ UNCHANGED lock

GotoSeeingD(k, p, doc) ==
    call' = [call EXCEPT ![k].pc = p, ![k].seenD = doc] /\ UNCHANGED lock

GotoSeeingE(k, p, doc) ==
    call' = [call EXCEPT ![k].pc = p, ![k].seenE = doc] /\ UNCHANGED lock

\* The request answers: the copies it read are dropped, its lock is given back.
Finish(k, p) ==
    /\ call' = [call EXCEPT ![k] = [req |-> call[k].req, pc |-> p,
                                    seenD |-> NoDelivery, seenE |-> NoEscrow]]
    /\ ReleaseLock(k)

\* A database call or a whole process fails, within the bound.
Fault == faults < MaxFaults /\ faults' = faults + 1

\* deliveryEventRepository.append, as one step (MilestoneLog shows it is one);
\* emitMilestone swallows its failure, and the record is then missing.
EmitMilestone(d, from, to) ==
    \/ /\ event' = [event EXCEPT ![d] = Append(@, [from |-> from, to |-> to])]
       /\ UNCHANGED faults
    \/ Fault /\ UNCHANGED event

\* AuditLog.create, best effort in every caller.
WriteAuditLog(x) ==
    \/ audit' = audit \cup {x} /\ UNCHANGED faults
    \/ Fault /\ UNCHANGED audit

-----------------------------------------------------------------------------
MonPcs == {"idle", "find", "flag", "reload", "cancel", "cwrite", "ffind", "lapse", "lapsed"}

MonRec == [pc: MonPcs, ids: SUBSET Contracts, cur: Contracts \cup {Free},
           todo: SUBSET Deliveries, curD: Deliveries \cup {Free}]

IdleMon == [pc |-> "idle", ids |-> {}, cur |-> Free, todo |-> {}, curD |-> Free]

Init ==
    /\ \E p \in Profiles :
         /\ call \in [Calls -> {IdleCall(r) : r \in p.offered}]
         /\ delivery = p.delivery
         /\ escrow = p.escrow
         /\ event = p.event
    /\ audit = {}
    /\ lock = [x \in LockKeys |-> Free]
    /\ now = 0
    /\ mon = [m \in Monitors |-> IdleMon]
    /\ faults = 0
=============================================================================
