--------------------------- MODULE SorobanService ---------------------------
(***************************************************************************)
(* blockchain/soroban.service.ts over utils/circuitBreaker.ts: read calls  *)
(* to the Soroban RPC node, several at once (checkConnectivity makes two   *)
(* in parallel), each retried by withRetry inside one fire of a shared     *)
(* opossum breaker.  transactionService has a breaker of its own, "tx".    *)
(* fireWithBreaker swaps the caller's function in and fires it without an  *)
(* await between, so every fire runs its own caller's function.            *)
(***************************************************************************)
EXTENDS Naturals

CONSTANTS
    Readers,      \* read calls: health check, lag monitor, expiry scan
    MaxReadTries  \* SOROBAN_RPC_MAX_RETRIES of a read

ASSUME SorobanAssumption == MaxReadTries \in Nat \ {0}

VARIABLES
    nodeUp,   \* the RPC node answers
    brk,      \* the breakers, by name
    read      \* the read calls

sorobanVars == <<nodeUp, brk, read>>

BreakerNames == {"rpc", "tx"}

\* probing: the test call of the half-open state is under way.
BreakerDoc == [state: {"closed", "open", "half"}, probing: BOOLEAN]

Closed == [state |-> "closed", probing |-> FALSE]

ReadRec == [pc: {"idle", "busy", "answered"}, tries: 0..MaxReadTries, answer: {"none", "ledger", "degraded", "error"}]

NoRead == [pc |-> "idle", tries |-> 0, answer |-> "none"]

SorobanTypeOK ==
    /\ nodeUp \in BOOLEAN
    /\ brk \in [BreakerNames -> BreakerDoc]
    /\ read \in [Readers -> ReadRec]

SorobanInit ==
    /\ nodeUp = TRUE
    /\ brk = [b \in BreakerNames |-> Closed]
    /\ read = [r \in Readers |-> NoRead]

-----------------------------------------------------------------------------
(* The breaker: opossum, as createCircuitBreaker configures it *)

Admits(b) == b.state = "closed" \/ (b.state = "half" /\ ~b.probing)

Fired(b) == [b EXCEPT !.probing = (b.state = "half")]

\* Mutant: the place of the test call is never given back.
SucceededProbing(b) == b

Succeeded(b) == IF b.state = "half" THEN Closed ELSE b

\* What a failure leaves: a failed test call opens the circuit again, any other one opens it when
\* the window's volume and error rate say so.
Failed(b) ==
    {[state |-> "open", probing |-> FALSE]} \cup (IF b.state = "closed" THEN {b} ELSE {})

\* resetTimeout
ResetTimeout(n) ==
    /\ brk[n].state = "open"
    /\ brk' = [brk EXCEPT ![n].state = "half", ![n].probing = FALSE]
    /\ UNCHANGED <<nodeUp, read>>

-----------------------------------------------------------------------------
(* callWithRetryAndBreaker *)

Fire(r) ==
    /\ read[r].pc = "idle" /\ Admits(brk["rpc"])
    /\ brk' = [brk EXCEPT !["rpc"] = Fired(@)]
    /\ read' = [read EXCEPT ![r] = [pc |-> "busy", tries |-> 1, answer |-> "none"]]
    /\ UNCHANGED nodeUp

\* EOPEN: the fallback answers at once.
Reject(r) ==
    /\ read[r].pc = "idle" /\ ~Admits(brk["rpc"])
    /\ read' = [read EXCEPT ![r].pc = "answered", ![r].answer = "degraded"]
    /\ UNCHANGED <<nodeUp, brk>>

Settle(r, b, answer) ==
    /\ brk' = [brk EXCEPT !["rpc"] = b]
    /\ read' = [read EXCEPT ![r].pc = "answered", ![r].answer = answer]
    /\ UNCHANGED nodeUp

Answered(r) ==
    /\ read[r].pc = "busy" /\ nodeUp
    /\ Settle(r, Succeeded(brk["rpc"]), "ledger")

\* withRetry: an attempt fails and another one follows.
Retried(r) ==
    /\ read[r].pc = "busy" /\ ~nodeUp /\ read[r].tries < MaxReadTries
    /\ read' = [read EXCEPT ![r].tries = @ + 1]
    /\ UNCHANGED <<nodeUp, brk>>

\* The fallback: degraded while the circuit is not closed, otherwise the error.
Fallback(b) == IF b.state = "closed" THEN "error" ELSE "degraded"

\* The last attempt fails, or the breaker's own timeout cuts the retries short.
GivenUp(r) ==
    /\ read[r].pc = "busy" /\ ~nodeUp
    /\ \E b \in Failed(brk["rpc"]) : Settle(r, b, Fallback(b))

\* getLatestLedger, getNetworkInfo, checkConnectivity: the caller has its answer, and may call again.
Take(r) ==
    /\ read[r].pc = "answered"
    /\ read' = [read EXCEPT ![r] = NoRead]
    /\ UNCHANGED <<nodeUp, brk>>

NodeChanges ==
    /\ nodeUp' = ~nodeUp
    /\ UNCHANGED <<brk, read>>

ReadStep(r) == Fire(r) \/ Reject(r) \/ Answered(r) \/ Retried(r) \/ GivenUp(r) \/ Take(r)
=============================================================================
