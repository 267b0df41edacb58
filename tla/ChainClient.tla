---------------------------- MODULE ChainClient ----------------------------
(***************************************************************************)
(* The server as a client of the Soroban node.  Reads, escrow locks and    *)
(* the monitor that compares the indexer with the network share no state   *)
(* (reads and locks have breakers of their own), so a behaviour is about   *)
(* one of the three: its scene.                                            *)
(***************************************************************************)
EXTENDS Submission, LagMonitor

VARIABLE scene

vars == <<scene, sorobanVars, submissionVars, lagVars>>

Scenes == {"reads", "locks", "lag"}

TypeOK == scene \in Scenes /\ SorobanTypeOK /\ SubmissionTypeOK /\ LagTypeOK

Init == scene \in Scenes /\ SorobanInit /\ SubmissionInit /\ LagInit /\ (scene # "lag" => webhookUrl)

Reading(A) == scene = "reads" /\ A /\ UNCHANGED <<scene, submissionVars, lagVars>>

Locking(A) == scene = "locks" /\ A /\ UNCHANGED <<scene, lagVars>>

Watching(A) == scene = "lag" /\ A /\ UNCHANGED <<scene, sorobanVars, submissionVars>>

Next ==
    \/ Reading(NodeChanges)
    \/ Reading(ResetTimeout("rpc"))
    \/ \E r \in Readers : Reading(ReadStep(r))
    \/ Locking(NetworkStep)
    \/ Locking(ResetTimeout("tx") /\ UNCHANGED submissionVars)
    \/ \E c \in Callers : Locking(CallStep(c))
    \/ \E o \in Operators : Locking(RetryEntry(o) \/ Reported(o))
    \/ Watching(LagStep)

\* Timers of the breaker and of the monitor run, and a call that is under way goes on: every await
\* of it is bounded by a timeout.  Nothing is assumed of the node, the wallet or the operators.
Fairness ==
    /\ \A r \in Readers : WF_vars(Reading(ReadStep(r)))
    /\ WF_vars(Reading(ResetTimeout("rpc")))
    /\ \A c \in Callers : WF_vars(Locking(CallStep(c)))
    /\ WF_vars(Watching(CheckStep("timer")))

Spec == Init /\ [][Next]_vars /\ Fairness

-----------------------------------------------------------------------------
(* Correctness *)

Applied(e) == [env |-> e, ok |-> TRUE] \in ledger

\* A submission is reported confirmed, and a dead letter resolved, only when a ledger holds the
\* envelope the caller signed, successfully applied: not merely accepted, and not a rebuilt one.
ConfirmedIsApplied ==
    /\ \A c \in Callers : call[c].answer = "confirmed" => Applied(call[c].input)
    /\ \A i \in DOMAIN dlq : dlq[i].status = "resolved" => Applied(dlq[i].input)

\* A client told 502 or 409 is told the truth, as long as every attempt that reached the node was
\* answered: its envelope is neither applied nor waiting to be.  (A 504 promises nothing.)
RefusalIsTrue ==
    [][\A p \in Payers :
        call[p].answer = "none" /\ call'[p].answer \in {"refused", "conflict"} /\ ~unheard' =>
            call'[p].input \notin pool' /\ [env |-> call'[p].input, ok |-> TRUE] \notin ledger']_vars

\* Every submission ends: the retries of withRetry, of tx_bad_seq and of the polling are bounded.
SubmissionsEnd == \A c \in Callers : call[c].pc = "send" ~> call[c].pc \in {"done", "idle"}

\* Once the node stays up, the breaker lets every reader through to it again, whatever state the
\* outage left the breaker in.
ReadsRecover == <>[]nodeUp => \A r \in Readers : [](scene = "reads" => <>(read[r].answer = "ledger"))

\* Nobody who asks the chain waits for good.
EveryCallEnds == SubmissionsEnd /\ ReadsRecover

\* submitEscrowLock's documentation: after tx_bad_seq a new unsigned envelope is returned to the
\* client "rather than auto-submitting silently".
OnlySignedIsSubmitted == \A c \in Callers : call[c].pc \in {"send", "poll"} => call[c].xdr.signed
=============================================================================
