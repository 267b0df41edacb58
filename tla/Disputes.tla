------------------------------ MODULE Disputes ------------------------------
(***************************************************************************)
(* Disputes about one delivery.  Requests read a dispute, check it, change *)
(* it and save it: a save writes the fields it changed, and writes the     *)
(* whole array evidenceUrls guarded by the version read.  The handlers of  *)
(* chain events write the same documents.                                  *)
(***************************************************************************)
EXTENDS Naturals, Sequences

CONSTANTS
    DisputeCalls,       \* requests and events under way
    Urls,               \* evidence URLs
    MaxDisputes,        \* bound on the documents
    MaxDisputeCalls     \* bound on the requests and events

ASSUME DisputeAssumption == MaxDisputes \in Nat /\ MaxDisputeCalls \in Nat

VARIABLES
    deliveryActive, \* the delivery is assigned or in progress
    dispute,        \* Dispute documents
    disputeCall,    \* requests and events under way
    disputeCalls,   \* how many there have been
    kept            \* for each dispute, the evidence its participants were told is recorded

disputeVars == <<deliveryActive, dispute, disputeCall, disputeCalls, kept>>

DisputeStatus == {"open", "under_review", "resolved", "rejected"}

DisputeDoc == [onChain: BOOLEAN, status: DisputeStatus, evidenceUrls: SUBSET Urls, version: Nat]

NoDisputeCall == [pc |-> "idle"]

DisputeTypeOK ==
    /\ deliveryActive \in BOOLEAN
    /\ dispute \in Seq(DisputeDoc) /\ Len(dispute) <= MaxDisputes
    /\ kept \in [DOMAIN dispute -> SUBSET Urls]
    /\ disputeCalls \in 0..MaxDisputeCalls
    /\ \A c \in DisputeCalls : disputeCall[c].pc \in {"idle", "create", "resolve", "evidence"}

DisputeInit ==
    /\ deliveryActive = TRUE
    /\ dispute = <<>> /\ kept = <<>>
    /\ disputeCall = [c \in DisputeCalls |-> NoDisputeCall]
    /\ disputeCalls = 0

DisputeGoes(c, rec) == disputeCall' = [disputeCall EXCEPT ![c] = rec]

DisputeCallArrives(c) ==
    disputeCall[c] = NoDisputeCall /\ disputeCalls < MaxDisputeCalls /\ disputeCalls' = disputeCalls + 1

DisputeDocs == <<deliveryActive, dispute, kept>>

Unresolved(i) == dispute[i].status \in {"open", "under_review"}

NewDispute(onChain, urls) ==
    /\ Len(dispute) < MaxDisputes
    /\ dispute' = Append(dispute, [onChain |-> onChain, status |-> "open", evidenceUrls |-> urls, version |-> 0])
    /\ kept' = Append(kept, urls)

-----------------------------------------------------------------------------
(* Requests *)

MayOpen == deliveryActive /\ \A i \in DOMAIN dispute : ~Unresolved(i)

OpenDispute(c) ==
    /\ DisputeCallArrives(c)
    /\ MayOpen
    /\ \E urls \in SUBSET Urls : DisputeGoes(c, [pc |-> "create", urls |-> urls])
    /\ UNCHANGED DisputeDocs

\* Between the check and the insertion the chain is asked for the ledger.
CreateDispute(c) ==
    /\ disputeCall[c].pc = "create"
    /\ NewDispute(FALSE, disputeCall[c].urls)
    /\ DisputeGoes(c, NoDisputeCall)
    /\ UNCHANGED <<deliveryActive, disputeCalls>>

\* The status asked for is any of DisputeStatus.
ResolveDispute(c) ==
    \E i \in DOMAIN dispute, s \in DisputeStatus :
        Unresolved(i) /\ DisputeGoes(c, [pc |-> "resolve", dispute |-> i, read |-> dispute[i].status, to |-> s])

ResolveDisputeController(c) == DisputeCallArrives(c) /\ ResolveDispute(c) /\ UNCHANGED DisputeDocs

\* The whole array that the request would write.
WriteEvidence(c, i, urls) ==
    DisputeGoes(c, [pc |-> "evidence", dispute |-> i, read |-> dispute[i].evidenceUrls, to |-> urls,
                    version |-> dispute[i].version])

AddEvidence(c) ==
    \E i \in DOMAIN dispute, urls \in SUBSET Urls \ {{}} :
        Unresolved(i) /\ WriteEvidence(c, i, dispute[i].evidenceUrls \cup urls)

AddEvidenceController(c) == DisputeCallArrives(c) /\ AddEvidence(c) /\ UNCHANGED DisputeDocs

\* What replaces the array replaces the promise as well.
UpdateDispute(c) ==
    \E i \in DOMAIN dispute, urls \in SUBSET Urls : Unresolved(i) /\ WriteEvidence(c, i, urls)

UpdateDisputeController(c) == DisputeCallArrives(c) /\ UpdateDispute(c) /\ UNCHANGED DisputeDocs

\* A field that did not change is not written.
SaveStatus(c) ==
    /\ disputeCall[c].pc = "resolve"
    /\ dispute' = IF disputeCall[c].to = disputeCall[c].read THEN dispute
                  ELSE [dispute EXCEPT ![disputeCall[c].dispute].status = disputeCall[c].to]
    /\ DisputeGoes(c, NoDisputeCall)
    /\ UNCHANGED <<deliveryActive, disputeCalls, kept>>

\* Mutant: the array is written whatever was written since it was read.
IsCurrentAny(i, version) == TRUE

IsCurrent(i, version) == dispute[i].version = version

\* A VersionError is a 500, and nothing is promised.
SaveEvidence(c) ==
    /\ disputeCall[c].pc = "evidence"
    /\ LET i == disputeCall[c].dispute
           written == disputeCall[c].to # disputeCall[c].read
       IN  IF written /\ IsCurrent(i, disputeCall[c].version)
           THEN /\ dispute' = [dispute EXCEPT ![i].evidenceUrls = disputeCall[c].to, ![i].version = @ + 1]
                /\ kept' = [kept EXCEPT ![i] = (@ \ disputeCall[c].read) \cup disputeCall[c].to]
           ELSE UNCHANGED <<dispute, kept>>
    /\ DisputeGoes(c, NoDisputeCall)
    /\ UNCHANGED <<deliveryActive, disputeCalls>>

-----------------------------------------------------------------------------
(* Chain events, each possibly delivered again *)

OpenDisputeFromEvent ==
    /\ \A i \in DOMAIN dispute : ~dispute[i].onChain
    /\ NewDispute(TRUE, {})

HandleDisputeOpened == OpenDisputeFromEvent /\ UNCHANGED <<deliveryActive, disputeCall, disputeCalls>>

\* Whatever the status was; an unknown dispute is ignored.
ResolveDisputeFromEvent(c) ==
    \E i \in DOMAIN dispute :
        /\ dispute[i].onChain
        /\ DisputeGoes(c, [pc |-> "resolve", dispute |-> i, read |-> dispute[i].status, to |-> "resolved"])

HandleDisputeResolved(c) == DisputeCallArrives(c) /\ ResolveDisputeFromEvent(c) /\ UNCHANGED DisputeDocs

DeliveryIsOver ==
    deliveryActive /\ deliveryActive' = FALSE /\ UNCHANGED <<dispute, disputeCall, disputeCalls, kept>>

DisputeStep ==
    \/ \E c \in DisputeCalls :
         \/ OpenDispute(c) \/ CreateDispute(c) \/ ResolveDisputeController(c)
         \/ AddEvidenceController(c) \/ UpdateDisputeController(c)
         \/ SaveStatus(c) \/ SaveEvidence(c) \/ HandleDisputeResolved(c)
    \/ HandleDisputeOpened
    \/ DeliveryIsOver

-----------------------------------------------------------------------------
(* Correctness *)

\* Evidence that a request recorded stays until a request that had seen it replaces it: no request
\* overwrites evidence it never read, in whatever order their reads and saves happen.
EvidenceIsKept == \A i \in DOMAIN dispute : kept[i] \subseteq dispute[i].evidenceUrls
=============================================================================
