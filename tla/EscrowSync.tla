----------------------------- MODULE EscrowSync -----------------------------
(***************************************************************************)
(* indexer/escrowHandlers.ts: the syncs an operator asks for.  Each polls  *)
(* one topic of the escrow contract from a ledger on and applies the       *)
(* events one by one.  An event stands for the ledger and the transaction  *)
(* hash that are its place in the chain; the escrow is one document, which *)
(* HTTP requests, admins and the monitor of services/escrow.service.ts     *)
(* write too.                                                              *)
(***************************************************************************)
EXTENDS Integers, Sequences

CONSTANTS
    SyncRequests,
    Others,           \* HTTP and admin requests that write the escrow
    NoHash,           \* a transaction that is none of the contract's events
    MaxChainEvents,   \* bound on the contract's events
    MaxSyncs,         \* bound on the syncs asked for
    MaxOthers,        \* bound on the other writers' requests and scans
    MaxSyncFaults     \* bound on failing reads and writes

ASSUME SyncAssumption ==
    /\ MaxChainEvents \in Nat \ {0} /\ {MaxSyncs, MaxOthers, MaxSyncFaults} \subseteq Nat
    /\ NoHash \notin Nat

VARIABLES
    chain,        \* the contract's events
    escrowDoc,    \* the Escrow document
    polling,      \* the requests
    confirmed,    \* ghost: events an answer called processed
    unfounded,    \* ghost: settlements that were applied when there was no escrow yet
    other,        \* the other writers
    elsewhere,    \* ghost: one of them settled the escrow
    syncs, others, syncFaults

otherVars == <<other, elsewhere, others>>
syncVars == <<chain, escrowDoc, polling, confirmed, unfounded, otherVars, syncs, syncFaults>>

SyncTopics == {"funded", "released", "refunded"}

\* A payload carries what its topic's handler needs (a settlement has to name its transaction, its
\* recipient and a numeric amount, a funding its amount and asset), or it does not.
ChainEvent == [topic: SyncTopics, payload: {"whole", "malformed"}]

Ledgers == 1..MaxChainEvents

EscrowStatuses == {"absent", "pending", "locked", "released", "refunded", "disputed", "expired", "resolved"}

TERMINAL_STATUSES == {"released", "refunded"}

EscrowDoc == [status: EscrowStatuses, hashes: SUBSET Ledgers]

SyncCall == [pc: {"idle", "poll", "next", "write"}, topic: SyncTopics, start: Ledgers,
             todo: SUBSET Ledgers, found: BOOLEAN, processed: SUBSET Ledgers]

IdleSync == [pc |-> "idle", topic |-> "funded", start |-> 1, todo |-> {}, found |-> FALSE, processed |-> {}]

\* A request that read the escrow as `from` and is about to write it as `to`, naming a transaction.
OtherCall == [pc: {"idle", "write"}, from: EscrowStatuses, to: EscrowStatuses, hash: Ledgers \cup {NoHash}]

NoOther == [pc |-> "idle", from |-> "absent", to |-> "absent", hash |-> NoHash]

SyncTypeOK ==
    /\ chain \in Seq(ChainEvent) /\ Len(chain) <= MaxChainEvents
    /\ escrowDoc \in EscrowDoc
    /\ \A r \in SyncRequests : polling[r] \in SyncCall
    /\ confirmed \subseteq Ledgers /\ unfounded \subseteq Ledgers
    /\ \A o \in Others : other[o] \in OtherCall
    /\ elsewhere \in BOOLEAN
    /\ syncs \in 0..MaxSyncs /\ others \in 0..MaxOthers /\ syncFaults \in 0..MaxSyncFaults

\* Nothing under src/ writes pending or disputed: such an escrow was there before, and may have expired.
SyncInit ==
    /\ chain = <<>>
    /\ \E status \in {"absent", "pending", "disputed", "expired"} : escrowDoc = [status |-> status, hashes |-> {}]
    /\ other = [o \in Others |-> NoOther] /\ elsewhere = FALSE /\ others = 0
    /\ polling = [r \in SyncRequests |-> IdleSync]
    /\ confirmed = {} /\ unfounded = {} /\ syncs = 0 /\ syncFaults = 0

\* The contract is funded, more than once perhaps, and then settled once.
ContractEmits ==
    /\ Len(chain) < MaxChainEvents
    /\ \E ev \in ChainEvent :
         /\ \A i \in DOMAIN chain : chain[i].topic = "funded"
         /\ ev.topic # "funded" => chain # <<>>
         /\ chain' = Append(chain, ev)
    /\ UNCHANGED <<escrowDoc, polling, confirmed, unfounded, otherVars, syncs, syncFaults>>

-----------------------------------------------------------------------------
(* The other writers *)

OtherStarts == others < MaxOthers /\ others' = others + 1

\* What is made of the status that was read: recordEscrowFunded and releaseEscrow name a
\* transaction, resolveEscrow and retryExpiredEscrow do not.
NamingMoves(s) ==
    (IF s \in {"absent", "pending", "locked"} THEN {"locked"} ELSE {}) \cup (IF s = "locked" THEN {"released"} ELSE {})

AdminMoves(s) ==
    (IF s \in {"locked", "disputed", "expired"} THEN {"released", "refunded", "locked"} \ {s} ELSE {})
        \cup (IF s = "expired" THEN {"resolved"} ELSE {})

\* The escrow is read and may be written; a transaction on record ends the request.
OtherReads(o) ==
    /\ other[o].pc = "idle" /\ OtherStarts
    /\ LET s == escrowDoc.status
       IN \E to \in EscrowStatuses, h \in Ledgers \cup {NoHash} :
            /\ (to \in NamingMoves(s) /\ h \notin escrowDoc.hashes) \/ (to \in AdminMoves(s) /\ h = NoHash)
            /\ other' = [other EXCEPT ![o] = [pc |-> "write", from |-> s, to |-> to, hash |-> h]]
    /\ UNCHANGED <<chain, escrowDoc, polling, confirmed, unfounded, elsewhere, syncs, syncFaults>>

\* It is written by _id, whatever it is by now; only a new one meets the unique index.
OtherWrites(o) ==
    /\ other[o].pc = "write"
    /\ IF other[o].from = "absent" /\ escrowDoc.status # "absent"
       THEN UNCHANGED <<escrowDoc, elsewhere>>
       ELSE /\ escrowDoc' = [status |-> other[o].to, hashes |-> escrowDoc.hashes \cup ({other[o].hash} \ {NoHash})]
            /\ elsewhere' = (elsewhere \/ other[o].to \in TERMINAL_STATUSES)
    /\ other' = [other EXCEPT ![o] = NoOther]
    /\ UNCHANGED <<chain, polling, confirmed, unfounded, others, syncs, syncFaults>>

\* The monitor's updateMany, on the status it filters.
ScanExpires ==
    /\ OtherStarts
    /\ escrowDoc.status \in {"pending", "locked"}
    /\ escrowDoc' = [escrowDoc EXCEPT !.status = "expired"]
    /\ UNCHANGED <<chain, polling, confirmed, unfounded, other, elsewhere, syncs, syncFaults>>

-----------------------------------------------------------------------------
(* The requests *)

Request(r, t) ==
    /\ polling[r].pc = "idle" /\ syncs < MaxSyncs
    /\ syncs' = syncs + 1
    /\ \E s \in Ledgers : polling' = [polling EXCEPT ![r] = [IdleSync EXCEPT !.pc = "poll", !.topic = t, !.start = s]]
    /\ UNCHANGED <<chain, escrowDoc, confirmed, unfounded, otherVars, syncFaults>>

RequestSync(r) == Request(r, "funded")

RequestSyncReleased(r) == Request(r, "released")

RequestSyncRefunded(r) == Request(r, "refunded")

\* getEvents: from the start ledger on, this topic only.
GetEvents(r) ==
    /\ polling[r].pc = "poll"
    /\ polling' = [polling EXCEPT ![r].pc = "next", ![r].start = 1,
                                  ![r].todo = {i \in DOMAIN chain : i >= polling[r].start /\ chain[i].topic = polling[r].topic}]
    /\ UNCHANGED <<chain, escrowDoc, confirmed, unfounded, otherVars, syncs, syncFaults>>

\* The summary is answered.
Summarise(r) ==
    /\ polling[r].pc = "next" /\ polling[r].todo = {}
    /\ confirmed' = confirmed \cup polling[r].processed
    /\ polling' = [polling EXCEPT ![r] = IdleSync]
    /\ UNCHANGED <<chain, escrowDoc, unfounded, otherVars, syncs, syncFaults>>

\* What was thrown ends the request with an error; nothing is told of the events applied before.
Throws(r) == polling' = [polling EXCEPT ![r] = IdleSync]

SyncFault ==
    /\ syncFaults < MaxSyncFaults
    /\ syncFaults' = syncFaults + 1
    /\ UNCHANGED <<chain, escrowDoc, confirmed, unfounded, otherVars, syncs>>

GetEventsFails(r) == polling[r].pc = "poll" /\ Throws(r) /\ SyncFault

\* The events are applied in the order of the chain.
First(r) == CHOOSE i \in polling[r].todo : \A j \in polling[r].todo : i <= j

Processed(r) ==
    polling' = [polling EXCEPT ![r].pc = "next", ![r].todo = @ \ {First(r)}, ![r].processed = @ \cup {First(r)}]

Ignored(r) == polling' = [polling EXCEPT ![r].pc = "next", ![r].todo = @ \ {First(r)}]

Unchanged == UNCHANGED <<chain, escrowDoc, confirmed, unfounded, otherVars, syncs, syncFaults>>

Reading(r, t) == polling[r].pc = "next" /\ polling[r].topic = t /\ polling[r].todo # {}

Writing(r, t) == polling[r].pc = "write" /\ polling[r].topic = t

-----------------------------------------------------------------------------
(* escrow_funded *)

ParseEscrowFundedEvent(i) == chain[i].payload = "whole"

\* recordEscrowFunded up to its write; the delivery may refuse the funding (a fault here).
FundingIsRead(r) ==
    LET i == First(r)
    IN /\ Reading(r, "funded")
       /\ \/ ~ParseEscrowFundedEvent(i) /\ Ignored(r) /\ Unchanged
          \/ ParseEscrowFundedEvent(i) /\ i \in escrowDoc.hashes /\ Processed(r) /\ Unchanged
          \/ /\ ParseEscrowFundedEvent(i) /\ i \notin escrowDoc.hashes
             /\ escrowDoc.status \notin {"absent", "pending", "locked"} /\ Throws(r) /\ Unchanged
          \/ /\ ParseEscrowFundedEvent(i) /\ i \notin escrowDoc.hashes
             /\ escrowDoc.status \in {"absent", "pending", "locked"}
             /\ polling' = [polling EXCEPT ![r].pc = "write", ![r].found = escrowDoc.status # "absent"]
             /\ Unchanged
          \/ ParseEscrowFundedEvent(i) /\ Throws(r) /\ SyncFault

\* The escrow found is updated by _id; without one, it is created under the unique contractId.
FundingIsWritten(r) ==
    LET i == First(r)
    IN /\ Writing(r, "funded")
       /\ \/ /\ polling[r].found \/ escrowDoc.status = "absent"
             /\ escrowDoc' = [status |-> "locked", hashes |-> escrowDoc.hashes \cup {i}]
             /\ Processed(r)
             /\ UNCHANGED <<chain, confirmed, unfounded, otherVars, syncs, syncFaults>>
          \/ ~polling[r].found /\ escrowDoc.status # "absent" /\ Throws(r) /\ Unchanged
          \/ Throws(r) /\ SyncFault

HandleEscrowFundedEvent(r) == FundingIsRead(r) \/ FundingIsWritten(r)

SyncEscrowFundedEvents(r) ==
    /\ polling[r].topic = "funded"
    /\ GetEvents(r) \/ GetEventsFails(r) \/ HandleEscrowFundedEvent(r) \/ Summarise(r)

-----------------------------------------------------------------------------
(* escrow_released and escrow_refunded *)

ParseEscrowResolutionEvent(i) == chain[i].payload = "whole"

\* The hash is looked for first; an event on record is processed again by doing nothing.
ResolutionIsRead(r, t) ==
    LET i == First(r)
    IN /\ Reading(r, t)
       /\ \/ ~ParseEscrowResolutionEvent(i) /\ Ignored(r) /\ Unchanged
          \/ ParseEscrowResolutionEvent(i) /\ i \in escrowDoc.hashes /\ Processed(r) /\ Unchanged
          \/ /\ ParseEscrowResolutionEvent(i) /\ i \notin escrowDoc.hashes
             /\ polling' = [polling EXCEPT ![r].pc = "write"] /\ Unchanged
          \/ ParseEscrowResolutionEvent(i) /\ Ignored(r) /\ SyncFault

\* Written only while the escrow is not settled, by the contract or by anybody else.  An update that
\* matches nothing is processed all the same; one that fails is ignored, and the sync goes on.
ResolutionIsWritten(r, t, status) ==
    LET i == First(r)
    IN /\ Writing(r, t)
       /\ \/ /\ escrowDoc.status \notin TERMINAL_STATUSES \cup {"absent"}
             /\ escrowDoc' = [status |-> status, hashes |-> escrowDoc.hashes \cup {i}]
             /\ Processed(r)
             /\ UNCHANGED <<chain, confirmed, unfounded, otherVars, syncs, syncFaults>>
          \/ /\ escrowDoc.status \in TERMINAL_STATUSES \cup {"absent"} /\ Processed(r)
             /\ unfounded' = IF escrowDoc.status = "absent" THEN unfounded \cup {i} ELSE unfounded
             /\ UNCHANGED <<chain, escrowDoc, confirmed, otherVars, syncs, syncFaults>>
          \/ Ignored(r) /\ SyncFault

HandleEscrowReleasedEvent(r) == ResolutionIsRead(r, "released") \/ ResolutionIsWritten(r, "released", "released")

\* Mutant: the handler was copied from the released one with its status.
HandleEscrowRefundedEventCopied(r) ==
    ResolutionIsRead(r, "refunded") \/ ResolutionIsWritten(r, "refunded", "released")

HandleEscrowRefundedEvent(r) == ResolutionIsRead(r, "refunded") \/ ResolutionIsWritten(r, "refunded", "refunded")

SyncEscrowReleasedEvents(r) ==
    /\ polling[r].topic = "released"
    /\ GetEvents(r) \/ GetEventsFails(r) \/ HandleEscrowReleasedEvent(r) \/ Summarise(r)

SyncEscrowRefundedEvents(r) ==
    /\ polling[r].topic = "refunded"
    /\ GetEvents(r) \/ GetEventsFails(r) \/ HandleEscrowRefundedEvent(r) \/ Summarise(r)

SyncStep ==
    \/ ContractEmits \/ ScanExpires
    \/ \E o \in Others : OtherReads(o) \/ OtherWrites(o)
    \/ \E r \in SyncRequests :
         \/ RequestSync(r) \/ RequestSyncReleased(r) \/ RequestSyncRefunded(r)
         \/ SyncEscrowFundedEvents(r) \/ SyncEscrowReleasedEvents(r) \/ SyncEscrowRefundedEvents(r)

-----------------------------------------------------------------------------
\* On the escrow's record, or a settlement that was applied before any funding, or one of an escrow
\* that somebody else had settled.
Accounted ==
    escrowDoc.hashes \cup {i \in DOMAIN chain : chain[i].topic # "funded" /\ (i \in unfounded \/ elsewhere)}

\* Whatever syncs overlap, fail or start over, and whoever else writes the escrow: an event the
\* operator was told is processed is on the escrow's record, unless it settled an escrow nobody had
\* funded yet, or one that HTTP or an admin settled too; and an escrow these did not settle is settled
\* only the way the contract settled it.
SyncReportIsTrue ==
    /\ confirmed \subseteq Accounted
    /\ escrowDoc.status \in TERMINAL_STATUSES /\ ~elsewhere =>
         \E i \in escrowDoc.hashes \cap DOMAIN chain : chain[i].topic = escrowDoc.status
=============================================================================
