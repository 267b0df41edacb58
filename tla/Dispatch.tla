------------------------------ MODULE Dispatch ------------------------------
(***************************************************************************)
(* Giving drivers to deliveries: the search for the nearest driver, asked  *)
(* for by a dispatcher or by the auto-assignment sweep; pooling, which     *)
(* gives one driver several deliveries; and an admin, who names the driver.*)
(* A search and pooling claim the driver by an atomic update of its        *)
(* location document, an admin does not.  A delivery is only guarded by a  *)
(* lease in Redis, which pooling and admins do not take.                   *)
(***************************************************************************)
EXTENDS Naturals, FiniteSets

CONSTANTS
    Drivers,
    Loads,           \* deliveries that need a driver
    Near,            \* drivers within the default radius of every pickup; the others need a wider search
    Dispatchers,     \* requests to assign one delivery
    Sweep, Pooler,   \* the cron job and the pooling request
    Admins,          \* requests that name the driver
    NoDriver, NoDelivery, Free,
    ExpansionSteps,  \* ASSIGNMENT_RADIUS_EXPANSION_STEPS
    MaxCalls,        \* bound on the calls
    MaxTurns         \* bound on what happens meanwhile: to drivers, deliveries, escrows and leases, and
                     \* to callers, whose awaits throw or who die

ASSUME DispatchAssumption ==
    /\ Near \subseteq Drivers /\ {ExpansionSteps, MaxCalls, MaxTurns} \subseteq Nat
    /\ Sweep # Pooler /\ {Sweep, Pooler} \cap Dispatchers = {}
    /\ Admins \cap (Dispatchers \cup {Sweep, Pooler}) = {}
    /\ NoDriver \notin Drivers /\ NoDelivery \notin Loads

VARIABLES
    loc,       \* DriverLocation documents
    del,       \* the fields of deliveries that assignment reads and writes
    locked,    \* the delivery's escrow is LOCKED
    lease,     \* the Redis lock assignment:delivery:<id>
    job,       \* the callers
    spent,     \* calls and turns so far
    reported,  \* drivers who said they are available while they were held
    replaced,  \* drivers another one was put in the place of
    pooled,    \* drivers a pool was given to
    direct,    \* drivers an admin gave a delivery to
    unfreed,   \* drivers whose release failed
    orphaned,  \* drivers whose caller died between the claim and the save
    edited     \* deliveries whose status was edited

Ghosts == <<reported, replaced, pooled, direct, unfreed, orphaned, edited>>
dispatchVars == <<loc, del, locked, lease, job, spent, Ghosts>>

Workers == Dispatchers \cup {Sweep, Pooler} \cup Admins

LocDoc == [here: BOOLEAN, isAvailable: BOOLEAN, status: {"online", "offline", "on_delivery"}]

DeliveryStatuses == {"pending", "funded", "assigned", "in_progress", "completed", "cancelled"}
DeliveryDoc == [status: DeliveryStatuses, driver: Drivers \cup {NoDriver}]

JobRec == [pc: {"idle", "next", "read", "search", "claim", "load", "escrow", "save", "release"},
           todo: SUBSET Loads,               \* deliveries still to be dealt with
           delivery: Loads \cup {NoDelivery},
           near: SUBSET Drivers,                  \* candidates found, not tried yet
           step: 0..ExpansionSteps,
           driver: Drivers \cup {NoDriver}]       \* the driver claimed, or named

NoJob == [pc |-> "idle", todo |-> {}, delivery |-> NoDelivery, near |-> {}, step |-> 0, driver |-> NoDriver]

DispatchTypeOK ==
    /\ loc \in [Drivers -> LocDoc]
    /\ del \in [Loads -> DeliveryDoc]
    /\ locked \in [Loads -> BOOLEAN]
    /\ lease \in [Loads -> Workers \cup {Free}]
    /\ job \in [Workers -> JobRec]
    /\ spent \in [calls: 0..MaxCalls, turns: 0..MaxTurns]
    /\ reported \subseteq Drivers /\ replaced \subseteq Drivers
    /\ pooled \subseteq Drivers /\ direct \subseteq Drivers
    /\ unfreed \subseteq Drivers /\ orphaned \subseteq Drivers /\ edited \subseteq Loads

DispatchInit ==
    /\ loc = [d \in Drivers |-> [here |-> TRUE, isAvailable |-> TRUE, status |-> "online"]]
    /\ \E funded \in SUBSET Loads :
        /\ locked = [x \in Loads |-> x \in funded]
        /\ del = [x \in Loads |-> [status |-> IF x \in funded THEN "funded" ELSE "pending", driver |-> NoDriver]]
    /\ lease = [x \in Loads |-> Free]
    /\ job = [w \in Workers |-> NoJob]
    /\ spent = [calls |-> 0, turns |-> 0]
    /\ reported = {} /\ replaced = {} /\ pooled = {} /\ direct = {}
    /\ unfreed = {} /\ orphaned = {} /\ edited = {}

-----------------------------------------------------------------------------
(* Drivers, and what happens to deliveries meanwhile *)

Turn == spent.turns < MaxTurns /\ spent' = [spent EXCEPT !.turns = @ + 1]

Serves(d, x) == del[x].driver = d /\ del[x].status \in {"assigned", "in_progress"}

\* A caller holds the driver it claimed; an admin's request claims none.
Holds(w, d) == w \notin Admins /\ job[w].driver = d

Busy(d) == (\E w \in Workers : Holds(w, d)) \/ (\E x \in Loads : Serves(d, x))

\* upsertDriverLocation with a new availability and status; the first report creates the document.
UpsertDriverLocation(d) ==
    /\ Turn
    /\ \E available \in BOOLEAN :
        /\ loc' = [loc EXCEPT ![d] = [here |-> TRUE, isAvailable |-> available,
                                      status |-> IF available THEN "online" ELSE "offline"]]
        /\ reported' = IF available /\ Busy(d) THEN reported \cup {d} ELSE reported
    /\ UNCHANGED <<del, locked, lease, job, replaced, pooled, direct, unfreed, orphaned, edited>>

\* The TTL index retires a driver who stopped reporting.
LocationExpires(d) ==
    /\ Turn
    /\ loc[d].here
    /\ loc' = [loc EXCEPT ![d] = [here |-> FALSE, isAvailable |-> FALSE, status |-> "offline"]]
    /\ UNCHANGED <<del, locked, lease, job, Ghosts>>

\* updateStatus and the settling of the escrow: the driver starts, the delivery ends.
DeliveryGoes(x) ==
    /\ Turn
    /\ \/ del[x].status = "assigned" /\ del' = [del EXCEPT ![x].status = "in_progress"]
       \/ /\ del[x].status \notin {"completed", "cancelled"}
          /\ \E s \in {"completed", "cancelled"} : del' = [del EXCEPT ![x].status = s]
    /\ UNCHANGED <<loc, locked, lease, job, Ghosts>>

\* update writes a status whatever it was.
DeliveryIsEdited(x) ==
    /\ Turn
    /\ \E s \in DeliveryStatuses \ {del[x].status} : del' = [del EXCEPT ![x].status = s]
    /\ edited' = edited \cup {x}
    /\ UNCHANGED <<loc, locked, lease, job, reported, replaced, pooled, direct, unfreed, orphaned>>

\* The escrow is disputed, released, expired...
EscrowLeavesLocked(x) ==
    /\ Turn
    /\ locked[x]
    /\ locked' = [locked EXCEPT ![x] = FALSE]
    /\ UNCHANGED <<loc, del, lease, job, Ghosts>>

\* The lease runs out under its holder.
LeaseLapses(x) ==
    /\ Turn
    /\ lease[x] # Free
    /\ lease' = [lease EXCEPT ![x] = Free]
    /\ UNCHANGED <<loc, del, locked, job, Ghosts>>

-----------------------------------------------------------------------------
(* Callers *)

JobGoes(w, rec) == job' = [job EXCEPT ![w] = rec]

Starts(w) ==
    /\ job[w].pc = "idle" /\ spent.calls < MaxCalls
    /\ spent' = [spent EXCEPT !.calls = @ + 1]
    /\ UNCHANGED <<loc, del, locked, lease, Ghosts>>

\* A dispatcher names a delivery.
RequestNearestDriver(w) ==
    /\ w \in Dispatchers /\ Starts(w)
    /\ \E x \in Loads : JobGoes(w, [NoJob EXCEPT !.pc = "next", !.todo = {x}])

\* An admin names a delivery and its driver: no lease, no claim, assignDriver at once.
RequestDriver(w) ==
    /\ w \in Admins /\ Starts(w)
    /\ \E x \in Loads, d \in Drivers : JobGoes(w, [NoJob EXCEPT !.pc = "load", !.delivery = x, !.driver = d])

WithoutDriver(statuses) == {x \in Loads : del[x].driver = NoDriver /\ del[x].status \in statuses}

\* autoAssignPendingDeliveries: the funded deliveries without a driver, one after the other.
AutoAssignPendingDeliveries == [NoJob EXCEPT !.pc = "next", !.todo = WithoutDriver({"funded"})]

\* A tick during a sweep is skipped.
RunAutoAssignmentSweep(w) ==
    /\ w = Sweep /\ Starts(w)
    /\ WithoutDriver({"funded"}) # {}
    /\ JobGoes(w, AutoAssignPendingDeliveries)

\* A pool of two or more deliveries; the second pool of a request is one that waited longer for its
\* search.
PoolAndAssign(w) ==
    /\ w = Pooler /\ Starts(w)
    /\ \E pool \in SUBSET WithoutDriver({"pending", "funded"}) :
         Cardinality(pool) >= 2 /\ JobGoes(w, [NoJob EXCEPT !.pc = "search", !.todo = pool])

\* withLock: the next delivery's lease is taken, or cannot be had.
AcquireLock(w) ==
    /\ job[w].pc = "next" /\ job[w].todo # {}
    /\ \E x \in job[w].todo :
        \/ /\ lease[x] = Free
           /\ lease' = [lease EXCEPT ![x] = w]
           /\ JobGoes(w, [NoJob EXCEPT !.pc = "read", !.delivery = x, !.todo = job[w].todo \ {x}])
        \/ /\ lease[x] # Free
           /\ JobGoes(w, [job[w] EXCEPT !.todo = @ \ {x}])
           /\ UNCHANGED lease
    /\ UNCHANGED <<spent, loc, del, locked, Ghosts>>

Finish(w) ==
    /\ job[w].pc = "next" /\ job[w].todo = {}
    /\ JobGoes(w, NoJob)
    /\ UNCHANGED <<spent, loc, del, locked, lease, Ghosts>>

\* The call on this delivery ends: its lease, if it still has it, is given back.
Ended(w) ==
    /\ JobGoes(w, [NoJob EXCEPT !.pc = "next", !.todo = IF w = Pooler THEN {} ELSE job[w].todo])
    /\ lease' = [x \in Loads |-> IF x = job[w].delivery /\ lease[x] = w THEN Free ELSE lease[x]]

AssignNearestDriver(w) ==
    /\ job[w].pc = "read"
    /\ IF del[job[w].delivery].driver = NoDriver
       THEN JobGoes(w, [job[w] EXCEPT !.pc = "search"]) /\ UNCHANGED lease
       ELSE Ended(w)
    /\ UNCHANGED <<spent, loc, del, locked, Ghosts>>

InRadius(w) == IF w # Pooler /\ job[w].step > 0 THEN Drivers ELSE Near

FindNearbyDrivers(w) ==
    /\ job[w].pc = "search"
    /\ JobGoes(w, [job[w] EXCEPT !.pc = "claim",
                              !.near = {d \in InRadius(w) : loc[d].here /\ loc[d].isAvailable
                                                            /\ loc[d].status = "online"}])
    /\ UNCHANGED <<spent, loc, del, locked, lease, Ghosts>>

\* Mutant: the claim is a read of the candidates followed by a write.
ClaimableAny(d) == loc[d].here

Claimable(d) == loc[d].here /\ loc[d].isAvailable

\* The nearest candidates come first; which of two equally near ones does is open.
Nearest(S) == IF S \cap Near # {} THEN S \cap Near ELSE S

\* Mutant: one round too many.
MayExpandOnceMore(w) == w # Pooler /\ job[w].step <= ExpansionSteps

\* A pool is offered to the drivers of the first radius only.
MayExpand(w) == w # Pooler /\ job[w].step < ExpansionSteps

\* claimFirstAvailable: one atomic update per candidate, and the wider search when all are lost.
ClaimFirstAvailable(w) ==
    /\ job[w].pc = "claim"
    /\ \/ \E d \in Nearest(job[w].near) :
            IF Claimable(d)
            THEN /\ loc' = [loc EXCEPT ![d].isAvailable = FALSE, ![d].status = "on_delivery"]
                 /\ JobGoes(w, [job[w] EXCEPT !.pc = "load", !.driver = d, !.near = {}])
                 /\ UNCHANGED lease
            ELSE /\ JobGoes(w, [job[w] EXCEPT !.near = @ \ {d}])
                 /\ UNCHANGED <<loc, lease>>
       \/ /\ job[w].near = {}
          /\ IF MayExpand(w)
             THEN JobGoes(w, [job[w] EXCEPT !.pc = "search", !.step = @ + 1]) /\ UNCHANGED lease
             ELSE Ended(w)
          /\ UNCHANGED loc
    /\ UNCHANGED <<spent, del, locked, Ghosts>>

-----------------------------------------------------------------------------
(* deliveryService.assignDriver *)

\* assignDriver throws: who claimed the driver gives it back, an admin is told.
AssignmentThrows(w) ==
    IF w \in Admins THEN Ended(w) ELSE JobGoes(w, [job[w] EXCEPT !.pc = "release"]) /\ UNCHANGED lease

\* The delivery is loaded; a pool's deliveries are taken in turn.  One that is in progress passes.
AssignDriver(w) ==
    /\ job[w].pc = "load"
    /\ \E x \in IF w = Pooler THEN job[w].todo ELSE {job[w].delivery} :
        IF del[x].status \in {"completed", "cancelled", "assigned"}
        THEN AssignmentThrows(w)
        ELSE /\ JobGoes(w, [job[w] EXCEPT !.delivery = x, !.todo = @ \ {x}, !.pc = "escrow"])
             /\ UNCHANGED lease
    /\ UNCHANGED <<spent, loc, del, locked, Ghosts>>

EscrowMustBeLocked(w) ==
    /\ job[w].pc = "escrow"
    /\ IF locked[job[w].delivery]
       THEN JobGoes(w, [job[w] EXCEPT !.pc = "save"]) /\ UNCHANGED lease
       ELSE AssignmentThrows(w)
    /\ UNCHANGED <<spent, loc, del, locked, Ghosts>>

\* The save, by _id alone, and the end of the call; a pool goes on to its next delivery.
SaveAssignment(w) ==
    /\ job[w].pc = "save"
    /\ LET x == job[w].delivery
           d == job[w].driver
       IN /\ del' = [del EXCEPT ![x] = [status |-> "assigned", driver |-> d]]
          /\ replaced' = (replaced \cup {del[x].driver}) \ {d, NoDriver}
          /\ pooled' = IF w = Pooler THEN pooled \cup {d} ELSE pooled
          /\ direct' = IF w \in Admins THEN direct \cup {d} ELSE direct
    /\ IF w = Pooler /\ job[w].todo # {}
       THEN JobGoes(w, [job[w] EXCEPT !.pc = "load"]) /\ UNCHANGED lease
       ELSE Ended(w)
    /\ UNCHANGED <<spent, loc, locked, reported, unfreed, orphaned, edited>>

\* Mutant: the driver is not given back.
FreedNot(d) == loc

Freed(d) == [loc EXCEPT ![d].isAvailable = loc[d].here, ![d].status = IF loc[d].here THEN "online" ELSE @]

\* releaseClaim: assignDriver threw.  The update may fail too, which is only logged.
ReleaseClaim(w) ==
    /\ job[w].pc = "release"
    /\ \/ loc' = Freed(job[w].driver) /\ UNCHANGED unfreed
       \/ unfreed' = unfreed \cup {job[w].driver} /\ UNCHANGED loc
    /\ Ended(w)
    /\ UNCHANGED <<spent, del, locked, reported, replaced, pooled, direct, orphaned, edited>>

\* A search, a claim, a read or the save throws.
AwaitFails(w) ==
    /\ Turn
    /\ \/ job[w].pc \in {"read", "search", "claim"} /\ Ended(w)
       \/ job[w].pc \in {"load", "escrow", "save"} /\ AssignmentThrows(w)
    /\ UNCHANGED <<loc, del, locked, Ghosts>>

\* The process dies: the driver claimed and the lease stay as they are.
CallerDies(w) ==
    /\ Turn
    /\ job[w].pc # "idle"
    /\ JobGoes(w, NoJob)
    /\ orphaned' = orphaned \cup {d \in Drivers : Holds(w, d)}
    /\ UNCHANGED <<loc, del, locked, lease, reported, replaced, pooled, direct, unfreed, edited>>

WorkerStep(w) ==
    \/ RequestDriver(w) \/ AwaitFails(w) \/ CallerDies(w)
    \/ RequestNearestDriver(w) \/ RunAutoAssignmentSweep(w) \/ PoolAndAssign(w) \/ AcquireLock(w) \/ Finish(w)
    \/ AssignNearestDriver(w) \/ FindNearbyDrivers(w)
    \/ ClaimFirstAvailable(w) \/ AssignDriver(w) \/ EscrowMustBeLocked(w) \/ SaveAssignment(w) \/ ReleaseClaim(w)

DispatchStep ==
    \/ \E d \in Drivers : UpsertDriverLocation(d) \/ LocationExpires(d)
    \/ \E x \in Loads : DeliveryGoes(x) \/ DeliveryIsEdited(x) \/ EscrowLeavesLocked(x) \/ LeaseLapses(x)
    \/ \E w \in Workers : WorkerStep(w)

-----------------------------------------------------------------------------
(* Correctness *)

\* A driver has two deliveries, or two callers have the driver, only by a pool, by an admin who
\* named it, or because it said it was available while it was not: two searches racing for one
\* driver cannot both have it.  A delivery whose status was edited may say anything.
OneDeliveryPerDriver ==
    \A d \in Drivers \ (reported \cup pooled \cup direct) :
        /\ \A x, y \in Loads \ edited : Serves(d, x) /\ Serves(d, y) => x = y
        /\ \A v, w \in Workers : Holds(v, d) /\ Holds(w, d) => v = w

Stranded(d) ==
    /\ loc[d].status = "on_delivery" /\ ~loc[d].isAvailable
    /\ \A w \in Workers : ~Holds(w, d)
    /\ \A x \in Loads : del[x].driver # d

\* A driver is left unavailable for a delivery it does not have only when another caller put a
\* driver in its place, the update that frees it failed, or the process died between the claim and
\* the save: every other failure of an assignment gives the driver back.
StrandedOnlyByRace == \A d \in Drivers : Stranded(d) => d \in replaced \cup unfreed \cup orphaned

=============================================================================
