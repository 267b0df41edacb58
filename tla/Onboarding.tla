----------------------------- MODULE Onboarding -----------------------------
(***************************************************************************)
(* Merchant onboarding: an intent is registered, a signature proves the    *)
(* treasury wallet, and the proof creates an owner, a fleet and a webhook, *)
(* without a transaction: a failure is undone by deleting what was made.   *)
(* All applications name one email and one treasury: they are rivals.      *)
(***************************************************************************)
EXTENDS Naturals, FiniteSets

CONSTANTS
    Applications,      \* onboardings
    Proofs,            \* PUT /onboarding/merchant/wallet requests; a document is known by the request that made it
    NoProof, NoApplication,
    MaxProofAttempts   \* ONBOARDING_MAX_PROOF_ATTEMPTS

ASSUME OnboardingAssumption ==
    /\ MaxProofAttempts \in Nat \ {0} /\ IsFiniteSet(Proofs)
    /\ NoProof \notin Proofs /\ NoApplication \notin Applications

VARIABLES
    app,       \* MerchantOnboarding documents
    users, fleets, hooks,  \* the documents of the merchant, each known by its maker
    proof,     \* the requests
    unclean,   \* requests that died, or whose rollback failed
    unnoted    \* requests whose notification could not be recorded

onboardingVars == <<app, users, fleets, hooks, proof, unclean, unnoted>>

Application == [status: {"none", "pending_wallet", "activating", "completed"},
                expired: BOOLEAN, failedProofAttempts: 0..Cardinality(Proofs), owner: Proofs \cup {NoProof}]

ProofRec == [pc: {"idle", "claim", "reject", "collide", "user", "fleet", "hook", "complete", "notify",
                  "dropHook", "dropFleet", "dropUser", "release", "stuck", "done"},
             app: Applications \cup {NoApplication}]

OnboardingTypeOK ==
    /\ app \in [Applications -> Application]
    /\ users \subseteq Proofs /\ fleets \subseteq Proofs /\ hooks \subseteq Proofs
    /\ proof \in [Proofs -> ProofRec]
    /\ unclean \subseteq Proofs /\ unnoted \subseteq Proofs

OnboardingInit ==
    /\ app = [a \in Applications |-> [status |-> "none", expired |-> FALSE, failedProofAttempts |-> 0, owner |-> NoProof]]
    /\ users = {} /\ fleets = {} /\ hooks = {}
    /\ proof = [b \in Proofs |-> [pc |-> "idle", app |-> NoApplication]]
    /\ unclean = {} /\ unnoted = {}

Documents == <<users, fleets, hooks>>

\* A request has ended when it is done, or stuck: the claim could not be given back.
Running(b) == proof[b].pc \notin {"idle", "done", "stuck"}

ProofGoes(b, pc) == proof' = [proof EXCEPT ![b].pc = pc]

\* assertNoCollision: the email or the treasury is taken.
Collides == users # {} \/ fleets # {}

\* registerIntent
RegisterIntent(a) ==
    /\ app[a].status = "none" /\ ~Collides
    /\ app' = [app EXCEPT ![a].status = "pending_wallet"]
    /\ UNCHANGED <<Documents, proof, unclean, unnoted>>

ChallengeExpires(a) ==
    /\ app[a].status = "pending_wallet" /\ ~app[a].expired
    /\ app' = [app EXCEPT ![a].expired = TRUE]
    /\ UNCHANGED <<Documents, proof, unclean, unnoted>>

-----------------------------------------------------------------------------
(* bindWallet *)

Bindable(a) ==
    /\ app[a].status = "pending_wallet"
    /\ app[a].failedProofAttempts < MaxProofAttempts
    /\ ~app[a].expired

\* The onboarding is read and the signature verified.
BindWallet(b) ==
    /\ proof[b].pc = "idle"
    /\ \E a \in Applications :
        /\ app[a].status # "none"
        /\ \E pc \in IF Bindable(a) THEN {"claim", "reject"} ELSE {"done"} :
              proof' = [proof EXCEPT ![b] = [pc |-> pc, app |-> a]]
    /\ UNCHANGED <<app, Documents, unclean, unnoted>>

RejectProof(b) ==
    /\ proof[b].pc = "reject"
    /\ app' = [app EXCEPT ![proof[b].app].failedProofAttempts = @ + 1]
    /\ ProofGoes(b, "done")
    /\ UNCHANGED <<Documents, unclean, unnoted>>

\* The claim is an update that asks for the status.
MayClaim(a) == app[a].status = "pending_wallet"

Claim(b) ==
    /\ proof[b].pc = "claim"
    /\ IF MayClaim(proof[b].app)
       THEN app' = [app EXCEPT ![proof[b].app].status = "activating"] /\ ProofGoes(b, "collide")
       ELSE ProofGoes(b, "done") /\ UNCHANGED app
    /\ UNCHANGED <<Documents, unclean, unnoted>>

-----------------------------------------------------------------------------
(* activate *)

\* The queries may fail as well.
RecheckCollision(b) ==
    /\ proof[b].pc = "collide"
    /\ \/ ~Collides /\ ProofGoes(b, "user")
       \/ ProofGoes(b, "release")
    /\ UNCHANGED <<app, Documents, unclean, unnoted>>

Duplicate(docs) == docs # {}

\* User.create and Fleet.create; a duplicate key or any other error begins the rollback, which
\* deletes what this request made.
CreateUser(b) ==
    /\ proof[b].pc = "user"
    /\ \/ ~Duplicate(users) /\ users' = users \cup {b} /\ ProofGoes(b, "fleet")
       \/ ProofGoes(b, "release") /\ UNCHANGED users
    /\ UNCHANGED <<app, fleets, hooks, unclean, unnoted>>

CreateFleet(b) ==
    /\ proof[b].pc = "fleet"
    /\ \/ ~Duplicate(fleets) /\ fleets' = fleets \cup {b} /\ ProofGoes(b, "hook")
       \/ ProofGoes(b, "dropUser") /\ UNCHANGED fleets
    /\ UNCHANGED <<app, users, hooks, unclean, unnoted>>

RegisterWebhook(b) ==
    /\ proof[b].pc = "hook"
    /\ \/ hooks' = hooks \cup {b} /\ ProofGoes(b, "complete")
       \/ ProofGoes(b, "dropFleet") /\ UNCHANGED hooks
    /\ UNCHANGED <<app, users, fleets, unclean, unnoted>>

Complete(b) ==
    /\ proof[b].pc = "complete"
    /\ \/ app' = [app EXCEPT ![proof[b].app].status = "completed", ![proof[b].app].owner = b] /\ ProofGoes(b, "notify")
       \/ ProofGoes(b, "dropHook") /\ UNCHANGED app
    /\ UNCHANGED <<Documents, unclean, unnoted>>

\* notifyMerchantOnboarded; writeAuditLog never throws.  dispatch returns the promise of its record
\* without awaiting it, so that a failed insert is thrown here.
NotifyMerchantOnboarded(b) ==
    /\ proof[b].pc = "notify"
    /\ \/ ProofGoes(b, "done") /\ UNCHANGED unnoted
       \/ ProofGoes(b, "dropHook") /\ unnoted' = unnoted \cup {b}
    /\ UNCHANGED <<app, Documents, unclean>>

-----------------------------------------------------------------------------
(* rollback: webhook, fleet, user, and the end of it at the first error.   *)

\* Mutant: the fleet is forgotten.
DropNothing(docs, b) == docs

Drop(docs, b) == docs \ {b}

Rollback(b) ==
    /\ \/ /\ proof[b].pc = "dropHook" /\ hooks' = hooks \ {b} /\ ProofGoes(b, "dropFleet")
          /\ UNCHANGED <<users, fleets, unclean>>
       \/ /\ proof[b].pc = "dropFleet" /\ fleets' = Drop(fleets, b) /\ ProofGoes(b, "dropUser")
          /\ UNCHANGED <<users, hooks, unclean>>
       \/ /\ proof[b].pc = "dropUser" /\ users' = users \ {b} /\ ProofGoes(b, "release")
          /\ UNCHANGED <<fleets, hooks, unclean>>
       \/ /\ proof[b].pc \in {"dropHook", "dropFleet", "dropUser"}
          /\ unclean' = unclean \cup {b} /\ ProofGoes(b, "release")
          /\ UNCHANGED Documents
    /\ UNCHANGED <<app, unnoted>>

\* The claim is given back, if the onboarding is still being activated.  The update may throw too:
\* nothing catches that, and the request ends with its claim in place.
Release(b) ==
    /\ proof[b].pc = "release"
    /\ \/ /\ app' = IF app[proof[b].app].status = "activating"
                    THEN [app EXCEPT ![proof[b].app].status = "pending_wallet"]
                    ELSE app
          /\ ProofGoes(b, "done")
       \/ ProofGoes(b, "stuck") /\ UNCHANGED app
    /\ UNCHANGED <<Documents, unclean, unnoted>>

\* The server dies under the request.
ProofDies(b) ==
    /\ Running(b)
    /\ ProofGoes(b, "done")
    /\ unclean' = unclean \cup {b}
    /\ UNCHANGED <<app, Documents, unnoted>>

OnboardingStep ==
    \/ \E a \in Applications : RegisterIntent(a) \/ ChallengeExpires(a)
    \/ \E b \in Proofs :
        \/ BindWallet(b) \/ RejectProof(b) \/ Claim(b) \/ RecheckCollision(b)
        \/ CreateUser(b) \/ CreateFleet(b) \/ RegisterWebhook(b) \/ Complete(b) \/ NotifyMerchantOnboarded(b)
        \/ Rollback(b) \/ Release(b) \/ ProofDies(b)

-----------------------------------------------------------------------------
(* Correctness *)

IsThere(b) == b \in users /\ b \in fleets /\ b \in hooks

\* Of the applications that name one email and one treasury at most one becomes a merchant, and it
\* has its owner, fleet and webhook, unless the notification that follows could not be recorded.
OneMerchantPerTreasury ==
    /\ \A a \in Applications : app[a].status = "completed" => IsThere(app[a].owner) \/ app[a].owner \in unnoted
    /\ \A a, c \in Applications :
        app[a].status = "completed" /\ app[c].status = "completed" /\ {app[a].owner, app[c].owner} \cap unnoted = {} => a = c

\* A failed activation leaves no documents behind, unless the server died or a deletion failed; and
\* the application is being activated only by a request that runs, unless the server died or the
\* update that gives the claim back failed.
FailuresAreUndone ==
    /\ \A b \in Proofs \ unclean :
        ~Running(b) /\ b \in users \cup fleets \cup hooks => IsThere(b) /\ app[proof[b].app].owner = b
    /\ \A a \in Applications :
        app[a].status = "activating" =>
            \E b \in Proofs : proof[b].app = a /\ (Running(b) \/ proof[b].pc = "stuck" \/ b \in unclean)

\* Onboarding is all or nothing, although it is done without a transaction.
OnboardingIsAllOrNothing == OneMerchantPerTreasury /\ FailuresAreUndone
=============================================================================
