----------------------------- MODULE Submission -----------------------------
(***************************************************************************)
(* An escrow lock on its way to the chain: transactionService builds the   *)
(* envelope, the client's wallet signs it, stellarService submits it with  *)
(* retries of two kinds (withRetry inside a send, tx_bad_seq around it)    *)
(* and polls for the outcome, dlqService keeps what was refused and        *)
(* submits it again for an operator.  All envelopes are of one payer       *)
(* account, whose sequence number they compete for.                        *)
(***************************************************************************)
EXTENDS SorobanService, Sequences

CONSTANTS
    Payers,         \* lock requests of one account, each with a client of its own
    Operators,      \* administrators retrying dead letters
    NoEntry,
    BadSeqRetries,  \* STELLAR_BAD_SEQ_MAX_RETRIES
    MaxSends,       \* SOROBAN_RPC_MAX_RETRIES
    MaxPolls,       \* SOROBAN_RPC_MAX_RETRIES * 4 in the code
    MaxEntries,     \* bound on the dead letters
    MaxSeq          \* bound on the account's sequence number

ASSUME SubmissionAssumption ==
    /\ Payers # {} /\ Payers \cap Operators = {} /\ NoEntry \notin Nat
    /\ BadSeqRetries \in Nat /\ MaxSends \in Nat \ {0} /\ MaxPolls \in Nat \ {0}
    /\ MaxEntries \in Nat /\ MaxSeq \in Nat

VARIABLES
    lockable,  \* the delivery is not completed, cancelled...
    seq,       \* the account's sequence number on the ledger
    pool,      \* envelopes the node has accepted, not in a ledger yet
    ledger,    \* envelopes a ledger contains, with their outcome
    wire,      \* sends whose caller has given up waiting and that may still arrive
    unheard,   \* some send reached the node without its caller hearing the answer
    call,      \* the requests
    dlq        \* dead letters

submissionVars == <<lockable, seq, pool, ledger, wire, unheard, call, dlq>>

Callers == Payers \cup Operators

\* An XDR: whose lock it is, its sequence number, and whether the wallet signed it.
Envelopes == [lock: Payers, seq: 0..(MaxSeq + 1), signed: BOOLEAN]

NoEnvelope == [lock |-> CHOOSE p \in Payers : TRUE, seq |-> 0, signed |-> FALSE]

CallRec == [pc: {"idle", "load", "loading", "prepare", "preparing", "sign", "send", "poll",
                 "getAccount", "simulate", "done"},
            input: Envelopes,                \* what the caller submitted
            xdr: Envelopes,                  \* currentXdr
            attempt: 0..(BadSeqRetries + 1), \* of the tx_bad_seq loop
            tries: 0..MaxSends,              \* of withRetry, in the present call
            polls: 0..MaxPolls,
            entry: (1..MaxEntries) \cup {NoEntry}, \* the dead letter retried
            answer: {"none", "confirmed", "refused", "conflict", "unknown", "unavailable"}]

NewCall == [pc |-> "idle", input |-> NoEnvelope, xdr |-> NoEnvelope, attempt |-> 0, tries |-> 0, polls |-> 0,
            entry |-> NoEntry, answer |-> "none"]

DlqDoc == [input: Envelopes, status: {"pending", "retried", "resolved"}]

SubmissionTypeOK ==
    /\ lockable \in BOOLEAN
    /\ seq \in 0..MaxSeq
    /\ pool \subseteq Envelopes /\ wire \subseteq Envelopes
    /\ ledger \subseteq [env: Envelopes, ok: BOOLEAN]
    /\ unheard \in BOOLEAN
    /\ call \in [Callers -> CallRec]
    /\ dlq \in Seq(DlqDoc) /\ Len(dlq) <= MaxEntries

SubmissionInit ==
    /\ lockable = TRUE
    /\ seq = 0
    /\ pool = {} /\ ledger = {} /\ wire = {}
    /\ unheard = FALSE
    /\ call = [c \in Callers |-> NewCall]
    /\ dlq = <<>>

-----------------------------------------------------------------------------
(* The network *)

\* What the node says of an envelope.
NodeReply(e) ==
    CASE e \in pool -> "DUPLICATE"
      [] e \notin pool /\ e.seq # seq + 1 -> "BAD_SEQ"
      [] e \notin pool /\ e.seq = seq + 1 /\ pool # {} -> "TRY_AGAIN_LATER"
      [] e.seq = seq + 1 /\ pool = {} /\ ~e.signed -> "ERROR"
      [] OTHER -> "PENDING"

PoolAfter(e) == IF NodeReply(e) = "PENDING" THEN pool \cup {e} ELSE pool

\* The transaction of the account that is in the pool takes its sequence number, successful or not.
LedgerCloses ==
    /\ seq < MaxSeq
    /\ \E e \in pool, ok \in BOOLEAN :
        /\ ledger' = ledger \cup {[env |-> e, ok |-> ok]}
        /\ pool' = pool \ {e}
    /\ seq' = seq + 1
    /\ UNCHANGED <<lockable, wire, unheard, call, dlq, sorobanVars>>

\* Its time bounds pass first.
Expires ==
    /\ \E e \in pool : pool' = pool \ {e}
    /\ UNCHANGED <<lockable, seq, ledger, wire, unheard, call, dlq, sorobanVars>>

\* A send that timed out reaches the node after all.
Arrives ==
    /\ \E e \in wire :
        /\ wire' = wire \ {e}
        /\ pool' = PoolAfter(e)
    /\ UNCHANGED <<lockable, seq, ledger, unheard, call, dlq, sorobanVars>>

\* The delivery leaves the statuses in which an escrow may be locked.
DeliveryEnds ==
    /\ lockable
    /\ lockable' = FALSE
    /\ UNCHANGED <<seq, pool, ledger, wire, unheard, call, dlq, sorobanVars>>

-----------------------------------------------------------------------------
(* transactionService.buildEscrowLockXdr *)

Goes(c, rec) ==
    /\ call' = [call EXCEPT ![c] = rec]
    /\ UNCHANGED <<lockable, seq, pool, ledger, wire, unheard, dlq>>

\* assertLockable; the asset and amount checks of a valid delivery pass.
BuildEscrowLockXdr(c) ==
    /\ c \in Payers /\ call[c].pc = "idle"
    /\ Goes(c, IF lockable THEN [call[c] EXCEPT !.pc = "load", !.input.lock = c]
               ELSE [call[c] EXCEPT !.pc = "done", !.answer = "conflict"])
    /\ UNCHANGED sorobanVars

\* loadAccount, then prepare, each one fire of the breaker, without a retry.
BreakerFires(c) ==
    /\ call[c].pc \in {"load", "prepare"}
    /\ IF Admits(brk["tx"])
       THEN /\ brk' = [brk EXCEPT !["tx"] = Fired(@)]
            /\ Goes(c, [call[c] EXCEPT !.pc = IF @ = "load" THEN "loading" ELSE "preparing"])
       ELSE /\ UNCHANGED brk
            /\ Goes(c, [call[c] EXCEPT !.pc = "done", !.answer = "unavailable"])
    /\ UNCHANGED <<nodeUp, read>>

BreakerAnswers(c) ==
    /\ call[c].pc \in {"loading", "preparing"}
    /\ \/ /\ brk' = [brk EXCEPT !["tx"] = Succeeded(@)]
          /\ Goes(c, IF call[c].pc = "loading" THEN [call[c] EXCEPT !.pc = "prepare", !.input.seq = seq + 1]
                     ELSE [call[c] EXCEPT !.pc = "sign"])
       \/ /\ \E b \in Failed(brk["tx"]) : brk' = [brk EXCEPT !["tx"] = b]
          /\ Goes(c, [call[c] EXCEPT !.pc = "done", !.answer = "refused"])
    /\ UNCHANGED <<nodeUp, read>>

\* The wallet signs, and the client posts the envelope: submitEscrowLock begins.
SubmitEscrowLock(c) ==
    /\ call[c].pc = "sign"
    /\ LET signed == [call[c].input EXCEPT !.signed = TRUE]
       IN Goes(c, [call[c] EXCEPT !.pc = "send", !.input = signed, !.xdr = signed, !.attempt = 1, !.tries = 1])
    /\ UNCHANGED sorobanVars

-----------------------------------------------------------------------------
(* stellarService.submitEscrowLock.  Its end, for an operator, is also the *)
(* end of retryEntry: the document read at its start is saved.             *)

Ends(c, answer) ==
    /\ call' = [call EXCEPT ![c] = [NewCall EXCEPT !.pc = "done", !.input = call[c].input, !.answer = answer]]
    /\ UNCHANGED <<lockable, seq, ledger, sorobanVars>>

\* Mutant: an exhausted retry counts as done.
RetriedDocsAny(c, answer, docs) ==
    IF call[c].entry = NoEntry THEN docs ELSE [docs EXCEPT ![call[c].entry].status = "resolved"]

RetriedDocs(c, answer, docs) ==
    IF call[c].entry = NoEntry THEN docs
    ELSE [docs EXCEPT ![call[c].entry].status = IF answer = "confirmed" THEN "resolved" ELSE "pending"]

\* dlqService.addEntry; a save that fails is logged, and the bound counts as one.
AddedDocs(c, saved) ==
    IF saved /\ Len(dlq) < MaxEntries THEN Append(dlq, [input |-> call[c].input, status |-> "pending"]) ELSE dlq

\* How one attempt fails: withTimeout gives up on it, the connection does, or the node turns it down.
FailureKinds == {"timeout", "socket", "rejected"}

\* isTransientRpcError: no answer, or an answer that says nothing of the request (429, 5xx).
IsTransientRpcError(kind) == kind \in {"timeout", "socket"}

\* withRetry, as callRpc uses it.
AnotherAttempt(c, kind) == IsTransientRpcError(kind) /\ call[c].tries < MaxSends

\* A tx_bad_seq the SDK throws becomes an ERROR with an empty result, which is not recognised.
IsBadSeqError(reply, thrown) == reply = "BAD_SEQ" /\ ~thrown

\* The answer to one attempt of sendTransaction arrives.
SendAnswered(c) ==
    /\ call[c].pc = "send"
    /\ LET reply == NodeReply(call[c].xdr)
       IN \/ /\ reply \in {"PENDING", "DUPLICATE"}
             /\ pool' = PoolAfter(call[c].xdr)
             /\ call' = [call EXCEPT ![c].pc = "poll", ![c].polls = 0]
             /\ UNCHANGED <<lockable, seq, ledger, wire, unheard, dlq, sorobanVars>>
          \/ /\ IsBadSeqError(reply, FALSE) /\ call[c].attempt <= BadSeqRetries
             /\ Goes(c, [call[c] EXCEPT !.pc = "getAccount", !.tries = 1]) /\ UNCHANGED sorobanVars
          \/ /\ IsBadSeqError(reply, FALSE) /\ call[c].attempt > BadSeqRetries
             /\ Ends(c, "conflict")
             /\ dlq' = RetriedDocs(c, "conflict", dlq)
             /\ UNCHANGED <<pool, wire, unheard>>
          \/ /\ reply \notin {"PENDING", "DUPLICATE"} /\ \E thrown \in BOOLEAN : ~IsBadSeqError(reply, thrown)
             /\ Ends(c, "refused")
             /\ \E saved \in BOOLEAN : dlq' = RetriedDocs(c, "refused", AddedDocs(c, saved))
             /\ UNCHANGED <<pool, wire, unheard>>

\* An attempt fails: it reached the node, is still under way, or never left (or was turned down,
\* with a 4xx).  The last failure decides what the client is told: 504 after a timeout, else 502.
SendFails(c) ==
    /\ call[c].pc = "send"
    /\ \E kind \in FailureKinds :
        /\ \/ /\ IsTransientRpcError(kind)
              /\ pool' = PoolAfter(call[c].xdr) /\ unheard' = (unheard \/ pool' # pool)
              /\ UNCHANGED wire
           \/ /\ IsTransientRpcError(kind)
              /\ wire' = wire \cup {call[c].xdr} /\ unheard' = TRUE
              /\ UNCHANGED pool
           \/ UNCHANGED <<pool, wire, unheard>>
        /\ IF AnotherAttempt(c, kind)
           THEN /\ call' = [call EXCEPT ![c].tries = @ + 1]
                /\ UNCHANGED <<lockable, seq, ledger, dlq, sorobanVars>>
           ELSE LET answer == IF kind = "timeout" THEN "unknown" ELSE "refused"
                IN Ends(c, answer) /\ dlq' = RetriedDocs(c, answer, dlq)

\* What one poll of getTransaction may say.
PollSays(c) ==
    LET found == {r.ok : r \in {x \in ledger : x.env = call[c].xdr}}
    IN {"pending"} \cup {IF ok THEN "confirmed" ELSE "refused" : ok \in found}

\* Mutant: the end of the polling window is taken for a failure.
PollWindowEndRefused == "refused"

PollWindowEnd == "unknown"

Polled(c) == [call[c] EXCEPT !.polls = @ + 1]

\* pollForCompletion.  A poll that errs, or finds nothing yet, uses up one of MaxPolls.
PollForCompletion(c) ==
    /\ call[c].pc = "poll"
    /\ \E said \in PollSays(c) :
        IF said = "pending" /\ call[c].polls + 1 < MaxPolls
        THEN Goes(c, Polled(c)) /\ UNCHANGED sorobanVars
        ELSE LET answer == IF said = "pending" THEN PollWindowEnd ELSE said
             IN /\ Ends(c, answer)
                /\ dlq' = RetriedDocs(c, answer, dlq)
                /\ UNCHANGED <<pool, wire, unheard>>

Rebuilt(c) == [call[c] EXCEPT !.pc = "send", !.attempt = @ + 1, !.tries = 1]

\* rebuildWithFreshSequence: getAccount, then prepareTransaction.  Whether the delivery may still be
\* locked is not asked again; the result carries no signature.
RebuildWithFreshSequence(c) ==
    /\ \/ /\ call[c].pc = "getAccount"
          /\ Goes(c, [call[c] EXCEPT !.pc = "simulate", !.tries = 1,
                                     !.xdr = [@ EXCEPT !.seq = seq + 1, !.signed = FALSE]])
       \/ /\ call[c].pc = "simulate"
          /\ Goes(c, Rebuilt(c))
    /\ UNCHANGED sorobanVars

\* loadAccount and prepare fail under withRetry: 504 after a timeout, otherwise 404 or 502.
RebuildFails(c) ==
    /\ call[c].pc \in {"getAccount", "simulate"}
    /\ \E kind \in FailureKinds :
        IF AnotherAttempt(c, kind) THEN Goes(c, [call[c] EXCEPT !.tries = @ + 1]) /\ UNCHANGED sorobanVars
        ELSE LET answer == IF kind = "timeout" THEN "unknown" ELSE "refused"
             IN /\ Ends(c, answer)
                /\ dlq' = RetriedDocs(c, answer, dlq)
                /\ UNCHANGED <<pool, wire, unheard>>

-----------------------------------------------------------------------------
(* dlqService.retryEntry, for an escrow lock *)

RetryEntry(o) ==
    /\ o \in Operators /\ call[o].pc = "idle"
    /\ \E i \in DOMAIN dlq :
        /\ dlq[i].status # "resolved"
        /\ dlq' = [dlq EXCEPT ![i].status = "retried"]
        /\ call' = [call EXCEPT ![o] = [NewCall EXCEPT !.pc = "send", !.input = dlq[i].input, !.xdr = dlq[i].input,
                                                       !.attempt = 1, !.tries = 1, !.entry = i]]
    /\ UNCHANGED <<lockable, seq, pool, ledger, wire, unheard, sorobanVars>>

\* The operator has the answer and may retry again.
Reported(o) ==
    /\ o \in Operators /\ call[o].pc = "done"
    /\ Goes(o, NewCall)
    /\ UNCHANGED sorobanVars

CallStep(c) ==
    \/ BuildEscrowLockXdr(c) \/ BreakerFires(c) \/ BreakerAnswers(c) \/ SubmitEscrowLock(c)
    \/ SendAnswered(c) \/ SendFails(c) \/ PollForCompletion(c)
    \/ RebuildWithFreshSequence(c) \/ RebuildFails(c)

NetworkStep == LedgerCloses \/ Expires \/ Arrives \/ DeliveryEnds
=============================================================================
