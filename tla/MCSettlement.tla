---------------------------- MODULE MCSettlement ----------------------------
(***************************************************************************)
(* Small instances of Settlement.  A run is given a set of profiles: what  *)
(* is on record at the start (documents the handlers produce) and which    *)
(* requests come.  A behaviour has one profile.                            *)
(***************************************************************************)
EXTENDS Settlement, TLC

CONSTANTS d1, d2, c1, c2, h1, h2, h3, w1, w2

-----------------------------------------------------------------------------
(* Starting documents *)

Pending == [NoDelivery EXCEPT !.status = "pending", !.escrowed = TRUE, !.fundBy = FundWindow]
Underway == [Pending EXCEPT !.status = "in_progress", !.driver = w1]
Proven == [Underway EXCEPT !.proof = TRUE]

Locked == [of |-> d1, status |-> "locked", lockedAt |-> 0, expiresAt |-> ComputeExpiresAt(0),
           txs |-> <<[hash |-> h1, kind |-> "fund"]>>]

Move(a, b) == [from |-> a, to |-> b]
Log == [absent |-> <<>>,
        pending |-> <<Move("absent", "pending")>>,
        funded |-> <<Move("absent", "pending"), Move("pending", "funded")>>,
        in_progress |-> <<Move("absent", "pending"), Move("pending", "funded"),
                          Move("funded", "assigned"), Move("assigned", "in_progress")>>]

\* Deliveries in the state doc, contract c1 in the state e.
Starting(doc, e, requests) ==
    [offered |-> requests,
     delivery |-> [d \in Deliveries |-> doc],
     escrow |-> [c \in Contracts |-> IF c = c1 THEN e ELSE NoEscrow],
     event |-> [d \in Deliveries |-> Log[doc.status]]]

-----------------------------------------------------------------------------
(* Requests *)

Fund(d, c, h) == [op |-> "fund", d |-> d, c |-> c, h |-> h]
Release(c, h, form) == [op |-> "release", c |-> c, h |-> h, form |-> form]
Resolve(c, x) == [op |-> "resolve", c |-> c, choice |-> x]
Retry(c, x) == [op |-> "retry", c |-> c, choice |-> x]
Chain(c, h, to) == [op |-> "chain", c |-> c, h |-> h, to |-> to]
ToStatus(d, s) == [op |-> "status", d |-> d, to |-> s]
Assign(d, w) == [op |-> "assign", d |-> d, drv |-> w]
Proof(d, w) == [op |-> "proof", d |-> d, drv |-> w]
Create(d, b) == [op |-> "create", d |-> d, escrowed |-> b]
Edit(d, s) == [op |-> "update", d |-> d, to |-> s]
Import(d) == [op |-> "import", d |-> d]
Archive(d) == [op |-> "archive", d |-> d]
Restore(d) == [op |-> "restore", d |-> d]

AdminRequests ==
    {Resolve(c1, x) : x \in Resolutions} \cup {Retry(c1, x) : x \in RetryActions}

DeliveryRequests ==
    {Create(d1, TRUE), Import(d1), Edit(d1, "pending"), Edit(d1, "cancelled"), Proof(d1, w1)}
        \cup {ToStatus(d1, s) : s \in {"assigned", "in_progress", "completed", "cancelled"}}

EarlyRequests ==
    {Create(d2, FALSE), Import(d2), Edit(d1, "pending"), Fund(d1, c1, h1),
     ToStatus(d1, "cancelled"), Archive(d1), Restore(d1)}

LateRequests ==
    {Fund(d1, c1, h2), Release(c1, h2, "id"), Release(c1, h3, "contract"), Proof(d1, w1),
     Chain(c1, h3, "refunded"), Assign(d1, w2), ToStatus(d1, "completed"),
     Edit(d1, "assigned")} \cup AdminRequests

\* Every pairing of deliveries, contracts and transactions.
FundingRequests == {Fund(d, c, h) : d \in {d1, d2}, c \in {c1, c2}, h \in {h1, h2}}

-----------------------------------------------------------------------------
(* Profiles *)

\* Everything at once, early and late in a delivery's life, and crossed funding.
EveryRequest ==
    {Starting(Pending, NoEscrow, FundingRequests),
     Starting(Pending, NoEscrow, EarlyRequests),
     Starting(Underway, Locked, LateRequests)}

\* Each way to settle by itself: releaseEscrow under one name of the escrow,
\* the admins, and the chain after one funding transaction.
EachWayToSettle ==
    {Starting(Underway, Locked,
        {Release(c1, h2, "id"), Release(c1, h3, "id"), Proof(d1, w1), Proof(d1, w2),
         ToStatus(d1, "completed"), ToStatus(d1, "cancelled")}),
     Starting(Underway, Locked, AdminRequests),
     Starting(Pending, NoEscrow,
        {Fund(d1, c1, h1), Chain(c1, h2, "released"), Chain(c1, h3, "refunded")})}

DeliveryOnly == {Starting(NoDelivery, NoEscrow, DeliveryRequests)}

\* The life of a delivery, and each way to settle its escrow.
DeliverAndSettle == DeliveryOnly \cup EachWayToSettle

Sweeping ==
    {Starting(Pending, NoEscrow, {Fund(d1, c1, h1), Release(c1, h2, "id"), Retry(c1, "cancel")}),
     Starting(Underway, Locked, {Resolve(c1, "keep_locked"), Chain(c1, h2, "released")})}

ReleaseOrResolve ==
    {Starting(Proven, Locked, {Release(c1, h2, "id"), Resolve(c1, "refund_to_payer")})}

FundOnce == {Starting(Pending, NoEscrow, {Fund(d1, c1, h1)})}

\* Requests are interchangeable, and so are the server processes.
Symmetry == Permutations(Calls) \cup Permutations(Monitors)
=============================================================================
