-------------------------- MODULE Workflows_proofs --------------------------
(***************************************************************************)
(* The services whose requests make several documents one after the other, *)
(* for any number of requests: onboarding, accounts and their files, and   *)
(* the assignment of drivers.                                              *)
(***************************************************************************)
EXTENDS Services, FiniteSetTheorems, TLAPS

-----------------------------------------------------------------------------
(* Onboarding *)

\* From its claim to its end a request holds the application.
HoldPcs == {"collide", "user", "fleet", "hook", "complete", "notify", "dropHook", "dropFleet", "dropUser", "release",
            "stuck"}

StatusOf(b) == app[proof[b].app].status

OwnerOf(b) == app[proof[b].app].owner

\* The application a request holds is being activated, or is its own.
HoldOK(b) ==
    /\ proof[b].pc # "idle" => proof[b].app \in Applications
    /\ proof[b].pc \in {"collide", "user", "fleet", "hook", "complete"} => StatusOf(b) = "activating"
    /\ proof[b].pc = "notify" => StatusOf(b) = "completed" /\ OwnerOf(b) = b
    /\ proof[b].pc \in {"dropHook", "dropFleet", "dropUser", "release", "stuck"} =>
         IF b \in unnoted THEN StatusOf(b) = "completed" /\ OwnerOf(b) = b ELSE StatusOf(b) = "activating"
    /\ b \in unnoted => proof[b].pc \in {"dropHook", "dropFleet", "dropUser", "release", "stuck", "done"}
    /\ b \in unclean => proof[b].pc \in {"release", "stuck", "done"}

\* Which documents a request has made, and not undone, at each of its steps.
MadeOK(b) ==
    b \notin unclean =>
        /\ proof[b].pc \in {"idle", "claim", "reject", "collide", "user", "release", "stuck"} => b \notin users
        /\ proof[b].pc \in {"fleet", "dropUser"} => b \in users /\ b \notin fleets
        /\ proof[b].pc \in {"hook", "dropFleet"} => b \in fleets /\ b \notin hooks
        /\ proof[b].pc \in {"complete", "notify", "dropHook"} => b \in hooks
        /\ proof[b].pc = "done" /\ b \in users => b \in hooks /\ StatusOf(b) = "completed" /\ OwnerOf(b) = b

OnboardingDoc ==
    [status: {"none", "pending_wallet", "activating", "completed"}, expired: BOOLEAN, failedProofAttempts: Nat,
     owner: Proofs \cup {NoProof}]

OnboardingTypes ==
    /\ app \in [Applications -> OnboardingDoc] /\ proof \in [Proofs -> ProofRec]
    /\ unclean \subseteq Proofs /\ unnoted \subseteq Proofs

\* A webhook is made last and deleted first, a user first and last; the emails are unique.
Nested == hooks \subseteq fleets /\ fleets \subseteq users /\ users \subseteq Proofs /\ \A b, c \in users : b = c

OneHolder == \A b, c \in Proofs : proof[b].pc \in HoldPcs /\ proof[c].pc \in HoldPcs /\ proof[b].app = proof[c].app => b = c

CompletedOK(a) ==
    app[a].status = "completed" =>
        /\ app[a].owner \in Proofs /\ proof[app[a].owner].app = a
        /\ app[a].owner \in unnoted \/ (app[a].owner \in hooks /\ proof[app[a].owner].pc \in {"notify", "done"})

ActivatingOK(a) ==
    app[a].status = "activating" => \E c \in Proofs : proof[c].app = a /\ (proof[c].pc \in HoldPcs \/ c \in unclean)

OnboardingInv ==
    /\ OnboardingTypes /\ Nested /\ OneHolder
    /\ \A b \in Proofs : HoldOK(b) /\ MadeOK(b)
    /\ \A a \in Applications : CompletedOK(a) /\ ActivatingOK(a)

LEMMA OthersRestOnboarding == [Next]_serviceVars => [OnboardingStep]_onboardingVars
BY DEF Next, Play, serviceVars

LEMMA OnboardingStart == OnboardingInit => OnboardingInv
<1> SUFFICES ASSUME OnboardingInit PROVE OnboardingInv
  OBVIOUS
<1>1. app \in [Applications -> OnboardingDoc]
  BY DEF OnboardingInit, OnboardingDoc
<1>2. proof \in [Proofs -> ProofRec]
  BY DEF OnboardingInit, ProofRec
<1>3. \A b \in Proofs : proof[b].pc = "idle"
  BY DEF OnboardingInit
<1>4. \A a \in Applications : app[a].status = "none"
  BY DEF OnboardingInit
<1>5. \A b \in Proofs : HoldOK(b) /\ MadeOK(b)
  BY <1>3 DEF OnboardingInit, HoldOK, MadeOK
<1>6. \A a \in Applications : CompletedOK(a) /\ ActivatingOK(a)
  BY <1>4 DEF CompletedOK, ActivatingOK
<1>7. OneHolder /\ Nested
  BY <1>3 DEF OneHolder, HoldPcs, Nested, OnboardingInit
<1> QED
  BY <1>1, <1>2, <1>5, <1>6, <1>7 DEF OnboardingInv, OnboardingTypes, OnboardingInit

LEMMA OnboardingIsSound == OnboardingInv => OnboardingIsAllOrNothing
<1> SUFFICES ASSUME OnboardingInv PROVE OnboardingIsAllOrNothing
  OBVIOUS
<1>1. OneMerchantPerTreasury
  BY DEF OnboardingInv, CompletedOK, Nested, OneMerchantPerTreasury, IsThere
<1>2. ASSUME NEW b \in Proofs \ unclean, ~Running(b), b \in users \cup fleets \cup hooks
      PROVE IsThere(b) /\ app[proof[b].app].owner = b
  BY <1>2 DEF OnboardingInv, MadeOK, Nested, IsThere, Running, OwnerOf
<1>3. ASSUME NEW a \in Applications, app[a].status = "activating"
      PROVE \E b \in Proofs : proof[b].app = a /\ (Running(b) \/ proof[b].pc = "stuck" \/ b \in unclean)
  BY <1>3 DEF OnboardingInv, ActivatingOK, HoldPcs, Running
<1> QED
  BY <1>1, <1>2, <1>3 DEF OnboardingIsAllOrNothing, FailuresAreUndone

\* The pc of a request moves, and nothing else of it.
LEMMA ProofPc ==
    ASSUME OnboardingInv, NEW b \in Proofs,
           NEW p \in {"idle", "claim", "reject", "collide", "user", "fleet", "hook", "complete", "notify",
                      "dropHook", "dropFleet", "dropUser", "release", "stuck", "done"}, ProofGoes(b, p)
    PROVE  /\ proof' \in [Proofs -> ProofRec] /\ proof'[b].pc = p /\ proof'[b].app = proof[b].app
           /\ \A c \in Proofs \ {b} : proof'[c] = proof[c]
<1>1. proof \in [Proofs -> ProofRec] /\ proof[b] \in ProofRec
  BY DEF OnboardingInv, OnboardingTypes
<1>2. PICK new : new = [proof[b] EXCEPT !.pc = p]
  OBVIOUS
<1>3. new \in ProofRec /\ new.pc = p /\ new.app = proof[b].app
  BY <1>1, <1>2 DEF ProofRec
<1>4. proof' = [proof EXCEPT ![b] = new]
  BY <1>1, <1>2 DEF ProofGoes
<1> QED
  BY <1>1, <1>3, <1>4

\* Only the documents of b change.
OwnOnly(b) ==
    \A c \in Proofs \ {b} :
        /\ proof'[c] = proof[c] /\ (c \in users' <=> c \in users) /\ (c \in hooks' <=> c \in hooks)
        /\ (c \in fleets' <=> c \in fleets) /\ (c \in unclean' <=> c \in unclean) /\ (c \in unnoted' <=> c \in unnoted)

\* The applications keep their status and their owners.
SameStatus ==
    /\ app' \in [Applications -> OnboardingDoc]
    /\ \A a \in Applications : app'[a].status = app[a].status /\ app'[a].owner = app[a].owner

\* A step of one request that leaves the status of the applications alone.
LEMMA ProofMoves ==
    ASSUME OnboardingInv, NEW b \in Proofs, proof[b].pc # "idle", SameStatus, OwnOnly(b),
           proof' \in [Proofs -> ProofRec], proof'[b].app = proof[b].app,
           unclean' \subseteq Proofs, unnoted' \subseteq Proofs, unclean \subseteq unclean', unnoted \subseteq unnoted',
           HoldOK(b)', MadeOK(b)', Nested',
           proof'[b].pc \in HoldPcs => proof[b].pc \in HoldPcs,
           proof[b].pc \in HoldPcs /\ StatusOf(b) = "activating" => proof'[b].pc \in HoldPcs \/ b \in unclean',
           StatusOf(b) = "completed" /\ OwnerOf(b) = b => b \in unnoted' \/ (b \in hooks' /\ proof'[b].pc \in {"notify", "done"})
    PROVE  OnboardingInv'
<1>1. OnboardingTypes'
  BY DEF OnboardingInv, OnboardingTypes, SameStatus
<1>2. OneHolder'
  BY DEF OnboardingInv, OneHolder, OwnOnly
<1>3. ASSUME NEW c \in Proofs \ {b} PROVE HoldOK(c)' /\ MadeOK(c)'
  <2>1. HoldOK(c) /\ MadeOK(c) /\ proof'[c] = proof[c]
    BY DEF OnboardingInv, OwnOnly
  <2>2. proof[c].pc # "idle" => StatusOf(c)' = StatusOf(c) /\ OwnerOf(c)' = OwnerOf(c)
    BY <2>1 DEF StatusOf, OwnerOf, SameStatus, HoldOK
  <2>3. HoldOK(c)'
    BY <2>1, <2>2 DEF HoldOK, OwnOnly
  <2>4. MadeOK(c)'
    BY <2>1, <2>2 DEF MadeOK, OwnOnly
  <2> QED
    BY <2>3, <2>4
<1>4. ASSUME NEW a \in Applications PROVE CompletedOK(a)'
  <2>0. app'[a].status = app[a].status /\ app'[a].owner = app[a].owner
    BY DEF SameStatus
  <2>1. SUFFICES ASSUME app[a].status = "completed" PROVE CompletedOK(a)'
    BY <2>0 DEF CompletedOK
  <2>2. PICK c \in Proofs : c = app[a].owner /\ proof[c].app = a
    BY <2>1 DEF OnboardingInv, CompletedOK
  <2>3. CASE c = b
    BY <2>0, <2>1, <2>2, <2>3 DEF CompletedOK, StatusOf, OwnerOf
  <2>4. CASE c # b
    BY <2>0, <2>1, <2>2, <2>4 DEF OnboardingInv, CompletedOK, OwnOnly
  <2> QED
    BY <2>3, <2>4
<1>5. ASSUME NEW a \in Applications PROVE ActivatingOK(a)'
  <2>1. SUFFICES ASSUME app[a].status = "activating" PROVE ActivatingOK(a)'
    BY DEF ActivatingOK, SameStatus
  <2>2. PICK c \in Proofs : proof[c].app = a /\ (proof[c].pc \in HoldPcs \/ c \in unclean)
    BY <2>1 DEF OnboardingInv, ActivatingOK
  <2>3. CASE c = b
    BY <2>1, <2>2, <2>3 DEF ActivatingOK, StatusOf
  <2>4. CASE c # b
    BY <2>1, <2>2, <2>4 DEF ActivatingOK, OwnOnly
  <2> QED
    BY <2>3, <2>4
<1> QED
  BY <1>1, <1>2, <1>3, <1>4, <1>5 DEF OnboardingInv

\* A step of one request that changes the application it holds, or claims it.
LEMMA AppTurns ==
    ASSUME OnboardingInv, NEW b \in Proofs, NEW a \in Applications, a = proof[b].app,
           app' \in [Applications -> OnboardingDoc], \A d \in Applications \ {a} : app'[d] = app[d],
           app[a].status # "completed", \A c \in Proofs \ {b} : proof[c].app = a => proof[c].pc \notin HoldPcs,
           UNCHANGED <<users, fleets, hooks, unclean, unnoted>>,
           proof' \in [Proofs -> ProofRec], proof'[b].app = a, \A c \in Proofs \ {b} : proof'[c] = proof[c],
           HoldOK(b)', MadeOK(b)', CompletedOK(a)', ActivatingOK(a)'
    PROVE  OnboardingInv'
<1>1. OnboardingTypes' /\ Nested'
  BY DEF OnboardingInv, OnboardingTypes, Nested
<1>2. OneHolder'
  BY DEF OnboardingInv, OneHolder
<1>3. ASSUME NEW c \in Proofs \ {b} PROVE HoldOK(c)' /\ MadeOK(c)'
  <2>1. HoldOK(c) /\ MadeOK(c) /\ proof'[c] = proof[c]
    BY DEF OnboardingInv
  <2>2. CASE proof[c].app = a
    <3>1. proof[c].pc \notin HoldPcs
      BY <2>2
    <3>2. HoldOK(c)'
      BY <2>1, <2>2, <3>1 DEF HoldOK, HoldPcs
    <3>3. MadeOK(c)'
      BY <2>1, <2>2, <3>1 DEF MadeOK, HoldPcs, StatusOf
    <3> QED
      BY <3>2, <3>3
  <2>3. CASE proof[c].app # a
    <3>1. proof[c].pc # "idle" => StatusOf(c)' = StatusOf(c) /\ OwnerOf(c)' = OwnerOf(c)
      BY <2>1, <2>3 DEF StatusOf, OwnerOf, HoldOK
    <3>2. HoldOK(c)'
      BY <2>1, <3>1 DEF HoldOK
    <3>3. MadeOK(c)'
      BY <2>1, <3>1 DEF MadeOK
    <3> QED
      BY <3>2, <3>3
  <2> QED
    BY <2>2, <2>3
<1>4. ASSUME NEW d \in Applications \ {a} PROVE CompletedOK(d)' /\ ActivatingOK(d)'
  <2>1. CompletedOK(d) /\ ActivatingOK(d) /\ app'[d] = app[d]
    BY DEF OnboardingInv
  <2>2. CompletedOK(d)'
    BY <2>1 DEF CompletedOK
  <2>3. ActivatingOK(d)'
    BY <2>1 DEF ActivatingOK
  <2> QED
    BY <2>2, <2>3
<1> QED
  BY <1>1, <1>2, <1>3, <1>4 DEF OnboardingInv

LEMMA IntentIsFresh ==
    ASSUME OnboardingInv, NEW a \in Applications, RegisterIntent(a) \/ ChallengeExpires(a)
    PROVE  OnboardingInv'
<1>1. app \in [Applications -> OnboardingDoc] /\ app[a] \in OnboardingDoc
  BY DEF OnboardingInv, OnboardingTypes
<1>2. PICK new : new = IF RegisterIntent(a) THEN [app[a] EXCEPT !.status = "pending_wallet"] ELSE [app[a] EXCEPT !.expired = TRUE]
  OBVIOUS
<1>3. app' = [app EXCEPT ![a] = new]
  BY <1>1, <1>2 DEF RegisterIntent, ChallengeExpires
<1>4. new \in OnboardingDoc /\ new.owner = app[a].owner /\ new.status \notin {"activating", "completed"}
      /\ app[a].status \notin {"activating", "completed"}
  <2>1. CASE RegisterIntent(a)
    BY <1>1, <1>2, <2>1 DEF OnboardingDoc, RegisterIntent
  <2>2. CASE ~RegisterIntent(a)
    BY <1>1, <1>2, <2>2 DEF OnboardingDoc, ChallengeExpires
  <2> QED
    BY <2>1, <2>2
<1>5. app' \in [Applications -> OnboardingDoc] /\ app'[a] = new /\ \A d \in Applications \ {a} : app'[d] = app[d]
  BY <1>1, <1>3, <1>4
<1>6. UNCHANGED <<users, fleets, hooks, proof, unclean, unnoted>>
  BY DEF RegisterIntent, ChallengeExpires, Documents
<1>7. OnboardingTypes' /\ Nested' /\ OneHolder'
  BY <1>5, <1>6 DEF OnboardingInv, OnboardingTypes, Nested, OneHolder
<1>8. ASSUME NEW c \in Proofs PROVE HoldOK(c)' /\ MadeOK(c)'
  <2>1. HoldOK(c) /\ MadeOK(c)
    BY DEF OnboardingInv
  <2>2. CASE proof[c].app = a
    <3>1. StatusOf(c) \notin {"activating", "completed"}
      BY <1>4, <2>2 DEF StatusOf
    <3>2. HoldOK(c)'
      BY <1>6, <2>1, <2>2, <3>1 DEF HoldOK
    <3>3. MadeOK(c)'
      BY <1>6, <2>1, <2>2, <3>1 DEF MadeOK
    <3> QED
      BY <3>2, <3>3
  <2>3. CASE proof[c].app # a
    <3>1. proof[c].pc # "idle" => StatusOf(c)' = StatusOf(c) /\ OwnerOf(c)' = OwnerOf(c)
      BY <1>5, <1>6, <2>1, <2>3 DEF StatusOf, OwnerOf, HoldOK
    <3>2. HoldOK(c)'
      BY <1>6, <2>1, <3>1 DEF HoldOK
    <3>3. MadeOK(c)'
      BY <1>6, <2>1, <3>1 DEF MadeOK
    <3> QED
      BY <3>2, <3>3
  <2> QED
    BY <2>2, <2>3
<1>9. ASSUME NEW d \in Applications PROVE CompletedOK(d)' /\ ActivatingOK(d)'
  <2>1. CompletedOK(d) /\ ActivatingOK(d)
    BY DEF OnboardingInv
  <2>2. CompletedOK(d)'
    BY <1>4, <1>5, <1>6, <2>1 DEF CompletedOK
  <2>3. ActivatingOK(d)'
    BY <1>4, <1>5, <1>6, <2>1 DEF ActivatingOK
  <2> QED
    BY <2>2, <2>3
<1> QED
  BY <1>7, <1>8, <1>9 DEF OnboardingInv

LEMMA WalletIsBound ==
    ASSUME OnboardingInv, NEW b \in Proofs, BindWallet(b)
    PROVE  OnboardingInv'
<1>1. PICK a \in Applications, p \in {"claim", "reject", "done"} : proof' = [proof EXCEPT ![b] = [pc |-> p, app |-> a]]
  BY Zenon DEF BindWallet
<1>2. proof[b].pc = "idle" /\ UNCHANGED <<app, users, fleets, hooks, unclean, unnoted>>
  BY DEF BindWallet, Documents
<1>3. [pc |-> p, app |-> a] \in ProofRec
  BY <1>1 DEF ProofRec
<1>4. /\ proof' \in [Proofs -> ProofRec] /\ proof'[b].pc = p /\ proof'[b].app = a
      /\ \A c \in Proofs \ {b} : proof'[c] = proof[c]
  BY <1>1, <1>3 DEF OnboardingInv, OnboardingTypes
<1>5. b \notin unnoted /\ b \notin unclean /\ b \notin users
  BY <1>2 DEF OnboardingInv, HoldOK, MadeOK
<1>6. OnboardingTypes' /\ Nested' /\ OneHolder'
  BY <1>1, <1>2, <1>4 DEF OnboardingInv, OnboardingTypes, Nested, OneHolder, HoldPcs
<1>7. HoldOK(b)' /\ MadeOK(b)'
  BY <1>1, <1>2, <1>4, <1>5 DEF HoldOK, MadeOK
<1>8. ASSUME NEW c \in Proofs \ {b} PROVE HoldOK(c)' /\ MadeOK(c)'
  <2>1. HoldOK(c) /\ MadeOK(c) /\ proof'[c] = proof[c]
    BY <1>4 DEF OnboardingInv
  <2>2. StatusOf(c)' = StatusOf(c) /\ OwnerOf(c)' = OwnerOf(c)
    BY <1>2, <2>1 DEF StatusOf, OwnerOf
  <2>3. HoldOK(c)'
    BY <1>2, <2>1, <2>2 DEF HoldOK
  <2>4. MadeOK(c)'
    BY <1>2, <2>1, <2>2 DEF MadeOK
  <2> QED
    BY <2>3, <2>4
<1>9. ASSUME NEW d \in Applications PROVE CompletedOK(d)' /\ ActivatingOK(d)'
  <2>1. CompletedOK(d) /\ ActivatingOK(d)
    BY DEF OnboardingInv
  <2>2. CompletedOK(d)'
    BY <1>2, <1>4, <1>5, <2>1 DEF CompletedOK
  <2>3. ActivatingOK(d)'
    BY <1>2, <1>4, <1>5, <2>1 DEF ActivatingOK, HoldPcs
  <2> QED
    BY <2>2, <2>3
<1> QED
  BY <1>6, <1>7, <1>8, <1>9 DEF OnboardingInv

\* What a request that is past its first read knows of itself.
LEMMA ProofKnows ==
    ASSUME OnboardingInv, NEW b \in Proofs, proof[b].pc # "idle"
    PROVE  /\ HoldOK(b) /\ MadeOK(b) /\ proof[b].app \in Applications /\ app[proof[b].app] \in OnboardingDoc
           /\ app \in [Applications -> OnboardingDoc] /\ unclean \subseteq Proofs /\ unnoted \subseteq Proofs
           /\ CompletedOK(proof[b].app) /\ Nested
<1>1. HoldOK(b) /\ MadeOK(b) /\ proof[b].app \in Applications
  BY DEF OnboardingInv, HoldOK
<1> QED
  BY <1>1 DEF OnboardingInv, OnboardingTypes

\* The set s changes by the request b at most.
ByOne(s, t, b) == t = s \/ t = s \cup {b} \/ t = s \ {b}

\* A step of one request that leaves the applications alone, from what it makes of the request.
LEMMA ActivationMoves ==
    ASSUME OnboardingInv, NEW b \in Proofs, proof[b].pc # "idle", app' = app,
           NEW q \in {"user", "fleet", "hook", "complete", "notify", "dropHook", "dropFleet", "dropUser", "release", "stuck",
                 "done"},
           ProofGoes(b, q), ByOne(users, users', b), ByOne(fleets, fleets', b), ByOne(hooks, hooks', b),
           unclean' \in {unclean, unclean \cup {b}}, unnoted' \in {unnoted, unnoted \cup {b}},
           proof'[b].pc = q /\ proof'[b].app = proof[b].app => HoldOK(b)' /\ MadeOK(b)',
           Nested',
           q # "done" => proof[b].pc \in HoldPcs,
           proof[b].pc \in HoldPcs /\ StatusOf(b) = "activating" => q # "done" \/ b \in unclean',
           StatusOf(b) = "completed" /\ OwnerOf(b) = b => b \in unnoted' \/ (b \in hooks' /\ q \in {"notify", "done"})
    PROVE  OnboardingInv'
<1>1. /\ proof' \in [Proofs -> ProofRec] /\ proof'[b].pc = q /\ proof'[b].app = proof[b].app
      /\ \A c \in Proofs \ {b} : proof'[c] = proof[c]
  BY ProofPc
<1>2. OwnOnly(b)
  BY <1>1 DEF OwnOnly, ByOne
<1>3. SameStatus
  BY DEF OnboardingInv, OnboardingTypes, SameStatus
<1>4. unclean' \subseteq Proofs /\ unnoted' \subseteq Proofs /\ unclean \subseteq unclean' /\ unnoted \subseteq unnoted'
  BY DEF OnboardingInv, OnboardingTypes
<1>5. q \in HoldPcs <=> q # "done"
  BY DEF HoldPcs
<1> QED
  BY <1>1, <1>2, <1>3, <1>4, <1>5, ProofMoves

LEMMA CollisionStep == ASSUME OnboardingInv, NEW b \in Proofs, RecheckCollision(b) PROVE OnboardingInv'
<1>1. PICK q \in {"release", "user"} : ProofGoes(b, q)
  BY Zenon DEF RecheckCollision
<1>2. proof[b].pc = "collide" /\ UNCHANGED <<app, users, fleets, hooks, unclean, unnoted>>
  BY DEF RecheckCollision, Documents
<1>3. HoldOK(b) /\ MadeOK(b) /\ Nested
  BY <1>2, ProofKnows
<1>4. ASSUME proof'[b].pc = q, proof'[b].app = proof[b].app PROVE HoldOK(b)' /\ MadeOK(b)'
  BY <1>1, <1>2, <1>3, <1>4 DEF HoldOK, MadeOK, StatusOf, OwnerOf
<1>5. Nested' /\ proof[b].pc \in HoldPcs /\ StatusOf(b) = "activating"
  BY <1>2, <1>3 DEF Nested, HoldPcs, HoldOK
<1> QED
  BY <1>1, <1>2, <1>4, <1>5, ActivationMoves DEF ByOne

LEMMA UserStep == ASSUME OnboardingInv, NEW b \in Proofs, CreateUser(b) PROVE OnboardingInv'
<1>1. proof[b].pc = "user" /\ UNCHANGED <<app, fleets, hooks, unclean, unnoted>>
  BY DEF CreateUser
<1>2. HoldOK(b) /\ MadeOK(b) /\ Nested
  BY <1>1, ProofKnows
<1>3. proof[b].pc \in HoldPcs /\ StatusOf(b) = "activating" /\ b \notin unclean /\ b \notin unnoted
  BY <1>1, <1>2 DEF HoldPcs, HoldOK
<1>4. PICK q \in {"fleet", "release"} :
        /\ ProofGoes(b, q) /\ (q = "fleet" => users = {} /\ users' = users \cup {b}) /\ (q = "release" => users' = users)
  BY Zenon DEF CreateUser, Duplicate
<1>5. Nested'
  BY <1>1, <1>2, <1>4 DEF Nested
<1>6. ASSUME proof'[b].pc = q, proof'[b].app = proof[b].app PROVE HoldOK(b)' /\ MadeOK(b)'
  BY <1>1, <1>2, <1>3, <1>4, <1>6 DEF HoldOK, MadeOK, StatusOf, OwnerOf, Nested
<1> QED
  BY <1>1, <1>3, <1>4, <1>5, <1>6, ActivationMoves DEF ByOne

LEMMA FleetStepOfMerchant == ASSUME OnboardingInv, NEW b \in Proofs, CreateFleet(b) PROVE OnboardingInv'
<1>1. proof[b].pc = "fleet" /\ UNCHANGED <<app, users, hooks, unclean, unnoted>>
  BY DEF CreateFleet
<1>2. HoldOK(b) /\ MadeOK(b) /\ Nested
  BY <1>1, ProofKnows
<1>3. proof[b].pc \in HoldPcs /\ StatusOf(b) = "activating" /\ b \notin unclean /\ b \notin unnoted
  BY <1>1, <1>2 DEF HoldPcs, HoldOK
<1>4. PICK q \in {"hook", "dropUser"} :
        /\ ProofGoes(b, q) /\ (q = "hook" => fleets' = fleets \cup {b}) /\ (q = "dropUser" => fleets' = fleets)
  BY Zenon DEF CreateFleet, Duplicate
<1>5. b \in users /\ b \notin fleets /\ b \notin hooks
  BY <1>1, <1>2, <1>3 DEF MadeOK, Nested
<1>6. Nested'
  BY <1>1, <1>2, <1>4, <1>5 DEF Nested
<1>7. ASSUME proof'[b].pc = q, proof'[b].app = proof[b].app PROVE HoldOK(b)' /\ MadeOK(b)'
  BY <1>1, <1>2, <1>3, <1>4, <1>5, <1>7 DEF HoldOK, MadeOK, StatusOf, OwnerOf
<1> QED
  BY <1>1, <1>3, <1>4, <1>6, <1>7, ActivationMoves DEF ByOne

LEMMA WebhookStep == ASSUME OnboardingInv, NEW b \in Proofs, RegisterWebhook(b) PROVE OnboardingInv'
<1>1. proof[b].pc = "hook" /\ UNCHANGED <<app, users, fleets, unclean, unnoted>>
  BY DEF RegisterWebhook
<1>2. HoldOK(b) /\ MadeOK(b) /\ Nested
  BY <1>1, ProofKnows
<1>3. proof[b].pc \in HoldPcs /\ StatusOf(b) = "activating" /\ b \notin unclean /\ b \notin unnoted
  BY <1>1, <1>2 DEF HoldPcs, HoldOK
<1>4. PICK q \in {"complete", "dropFleet"} :
        /\ ProofGoes(b, q) /\ (q = "complete" => hooks' = hooks \cup {b}) /\ (q = "dropFleet" => hooks' = hooks)
  BY Zenon DEF RegisterWebhook
<1>5. b \in fleets /\ b \notin hooks
  BY <1>1, <1>2, <1>3 DEF MadeOK
<1>6. Nested'
  BY <1>1, <1>2, <1>4, <1>5 DEF Nested
<1>7. ASSUME proof'[b].pc = q, proof'[b].app = proof[b].app PROVE HoldOK(b)' /\ MadeOK(b)'
  BY <1>1, <1>2, <1>3, <1>4, <1>5, <1>7 DEF HoldOK, MadeOK, StatusOf, OwnerOf
<1> QED
  BY <1>1, <1>3, <1>4, <1>6, <1>7, ActivationMoves DEF ByOne

LEMMA NotifyStep == ASSUME OnboardingInv, NEW b \in Proofs, NotifyMerchantOnboarded(b) PROVE OnboardingInv'
<1>1. proof[b].pc = "notify" /\ UNCHANGED <<app, users, fleets, hooks, unclean>>
  BY DEF NotifyMerchantOnboarded, Documents
<1>2. HoldOK(b) /\ MadeOK(b) /\ Nested
  BY <1>1, ProofKnows
<1>3. /\ proof[b].pc \in HoldPcs /\ StatusOf(b) = "completed" /\ OwnerOf(b) = b /\ b \notin unclean /\ b \notin unnoted
      /\ b \in hooks /\ proof[b].app \in Applications
  BY <1>1, <1>2 DEF HoldPcs, HoldOK, MadeOK
<1>4. PICK q \in {"done", "dropHook"} :
        /\ ProofGoes(b, q) /\ (q = "dropHook" => unnoted' = unnoted \cup {b}) /\ (q = "done" => unnoted' = unnoted)
  BY Zenon DEF NotifyMerchantOnboarded
<1>5. Nested'
  BY <1>1, <1>2 DEF Nested
<1>6. ASSUME proof'[b].pc = q, proof'[b].app = proof[b].app PROVE HoldOK(b)' /\ MadeOK(b)'
  BY <1>1, <1>2, <1>3, <1>4, <1>6 DEF HoldOK, MadeOK, StatusOf, OwnerOf
<1> QED
  BY <1>1, <1>3, <1>4, <1>5, <1>6, ActivationMoves DEF ByOne

LEMMA RollbackStep == ASSUME OnboardingInv, NEW b \in Proofs, Rollback(b) PROVE OnboardingInv'
<1>1. proof[b].pc \in {"dropHook", "dropFleet", "dropUser"} /\ UNCHANGED <<app, unnoted>>
  BY DEF Rollback
<1>2. HoldOK(b) /\ MadeOK(b) /\ Nested
  BY <1>1, ProofKnows
<1>3. /\ proof[b].pc \in HoldPcs /\ b \notin unclean /\ proof[b].app \in Applications
      /\ IF b \in unnoted THEN StatusOf(b) = "completed" /\ OwnerOf(b) = b ELSE StatusOf(b) = "activating"
  BY <1>1, <1>2 DEF HoldPcs, HoldOK
<1>4. PICK q \in {"dropFleet", "dropUser", "release"} :
        /\ ProofGoes(b, q)
        /\ \/ /\ q = "dropFleet" /\ proof[b].pc = "dropHook" /\ hooks' = hooks \ {b} /\ UNCHANGED <<users, fleets, unclean>>
           \/ /\ q = "dropUser" /\ proof[b].pc = "dropFleet" /\ fleets' = fleets \ {b} /\ UNCHANGED <<users, hooks, unclean>>
           \/ /\ q = "release" /\ proof[b].pc = "dropUser" /\ users' = users \ {b} /\ UNCHANGED <<fleets, hooks, unclean>>
           \/ q = "release" /\ unclean' = unclean \cup {b} /\ UNCHANGED <<users, fleets, hooks>>
  BY Zenon DEF Rollback, Drop, Documents
<1>5. Nested'
  BY <1>1, <1>2, <1>3, <1>4 DEF Nested, MadeOK
<1>6. ASSUME proof'[b].pc = q, proof'[b].app = proof[b].app PROVE HoldOK(b)' /\ MadeOK(b)'
  <2>1. StatusOf(b)' = StatusOf(b) /\ OwnerOf(b)' = OwnerOf(b)
    BY <1>1, <1>6 DEF StatusOf, OwnerOf
  <2>2. HoldOK(b)'
    BY <1>1, <1>2, <1>3, <1>4, <1>6, <2>1 DEF HoldOK
  <2>3. MadeOK(b)'
    BY <1>1, <1>2, <1>3, <1>4, <1>6, <2>1 DEF MadeOK, Nested
  <2> QED
    BY <2>2, <2>3
<1>7. ByOne(users, users', b) /\ ByOne(fleets, fleets', b) /\ ByOne(hooks, hooks', b) /\ unclean' \in {unclean, unclean \cup {b}}
  BY <1>4 DEF ByOne
<1> QED
  BY <1>1, <1>3, <1>4, <1>5, <1>6, <1>7, ActivationMoves

LEMMA DeathStep == ASSUME OnboardingInv, NEW b \in Proofs, ProofDies(b) PROVE OnboardingInv'
<1>1. /\ proof[b].pc \notin {"idle", "done", "stuck"} /\ unclean' = unclean \cup {b} /\ ProofGoes(b, "done")
      /\ UNCHANGED <<app, users, fleets, hooks, unnoted>>
  BY DEF ProofDies, Running, Documents
<1>2. HoldOK(b) /\ MadeOK(b) /\ Nested /\ CompletedOK(proof[b].app) /\ proof[b].app \in Applications
  BY <1>1, ProofKnows
<1>3. StatusOf(b) = "completed" /\ OwnerOf(b) = b => b \in unnoted' \/ b \in hooks'
  BY <1>1, <1>2 DEF CompletedOK, StatusOf, OwnerOf
<1>4. Nested'
  BY <1>1, <1>2 DEF Nested
<1>5. ASSUME proof'[b].pc = "done", proof'[b].app = proof[b].app PROVE HoldOK(b)' /\ MadeOK(b)'
  BY <1>1, <1>2, <1>5 DEF HoldOK, MadeOK
<1> QED
  BY <1>1, <1>3, <1>4, <1>5, ActivationMoves DEF ByOne

LEMMA RejectStep == ASSUME OnboardingInv, NEW b \in Proofs, RejectProof(b) PROVE OnboardingInv'
<1>1. proof[b].pc = "reject" /\ ProofGoes(b, "done") /\ UNCHANGED <<users, fleets, hooks, unclean, unnoted>>
  BY DEF RejectProof, Documents
<1>2. /\ HoldOK(b) /\ MadeOK(b) /\ proof[b].app \in Applications /\ app[proof[b].app] \in OnboardingDoc
      /\ app \in [Applications -> OnboardingDoc] /\ CompletedOK(proof[b].app) /\ Nested
      /\ unclean \subseteq Proofs /\ unnoted \subseteq Proofs
  BY <1>1, ProofKnows
<1>3. PICK a \in Applications : a = proof[b].app
  BY <1>2
<1>4. PICK new : new = [app[a] EXCEPT !.failedProofAttempts = @ + 1]
  OBVIOUS
<1>5. new \in OnboardingDoc /\ new.status = app[a].status /\ new.owner = app[a].owner
  BY <1>2, <1>3, <1>4 DEF OnboardingDoc
<1>6. app' = [app EXCEPT ![a] = new]
  BY <1>2, <1>3, <1>4 DEF RejectProof
<1>7. SameStatus
  BY <1>2, <1>5, <1>6 DEF SameStatus
<1>8. /\ proof' \in [Proofs -> ProofRec] /\ proof'[b].pc = "done" /\ proof'[b].app = proof[b].app
      /\ \A c \in Proofs \ {b} : proof'[c] = proof[c]
  BY <1>1, ProofPc
<1>9. OwnOnly(b) /\ Nested'
  BY <1>1, <1>2, <1>8 DEF OwnOnly, Nested
<1>10. HoldOK(b)' /\ MadeOK(b)'
  BY <1>1, <1>2, <1>8 DEF HoldOK, MadeOK
<1>11. proof[b].pc \notin HoldPcs /\ "done" \notin HoldPcs
  BY <1>1 DEF HoldPcs
<1>12. StatusOf(b) = "completed" /\ OwnerOf(b) = b => b \in unnoted' \/ (b \in hooks' /\ proof'[b].pc \in {"notify", "done"})
  BY <1>1, <1>2, <1>8 DEF CompletedOK, StatusOf, OwnerOf
<1> QED
  BY <1>1, <1>2, <1>7, <1>8, <1>9, <1>10, <1>11, <1>12, ProofMoves

\* A step that turns the application of a request from one status into another.
LEMMA StatusTurns ==
    ASSUME OnboardingInv, NEW b \in Proofs, NEW q \in {"collide", "notify", "done"}, ProofGoes(b, q),
           proof[b].pc # "idle", UNCHANGED <<users, fleets, hooks, unclean, unnoted>>,
           NEW new \in OnboardingDoc, app' = [app EXCEPT ![proof[b].app] = new],
           StatusOf(b) \in {"pending_wallet", "activating"}, proof[b].pc \in HoldPcs \/ StatusOf(b) = "pending_wallet",
           new.status = "completed" => q = "notify" /\ new.owner = b /\ b \in hooks,
           new.status = "activating" => q = "collide",
           proof'[b].pc = q /\ proof'[b].app = proof[b].app /\ StatusOf(b)' = new.status /\ OwnerOf(b)' = new.owner =>
             HoldOK(b)' /\ MadeOK(b)'
    PROVE  OnboardingInv'
<1>1. /\ proof' \in [Proofs -> ProofRec] /\ proof'[b].pc = q /\ proof'[b].app = proof[b].app
      /\ \A c \in Proofs \ {b} : proof'[c] = proof[c]
  BY ProofPc
<1>2. /\ proof[b].app \in Applications /\ app \in [Applications -> OnboardingDoc]
  BY ProofKnows
<1>3. PICK a \in Applications : a = proof[b].app
  BY <1>2
<1>4. /\ app' \in [Applications -> OnboardingDoc] /\ app'[a] = new
      /\ \A d \in Applications \ {a} : app'[d] = app[d]
  BY <1>2, <1>3
<1>5. StatusOf(b)' = new.status /\ OwnerOf(b)' = new.owner
  BY <1>1, <1>3, <1>4 DEF StatusOf, OwnerOf
<1>6. app[a].status # "completed"
  BY <1>3 DEF StatusOf
<1>7. ASSUME NEW c \in Proofs \ {b}, proof[c].app = a PROVE proof[c].pc \notin HoldPcs
  <2>1. CASE proof[b].pc \in HoldPcs
    BY <1>3, <1>7, <2>1 DEF OnboardingInv, OneHolder
  <2>2. CASE StatusOf(b) = "pending_wallet"
    BY <1>3, <1>7, <2>2 DEF OnboardingInv, HoldOK, StatusOf, HoldPcs
  <2> QED
    BY <2>1, <2>2
<1>8. CompletedOK(a)'
  BY <1>1, <1>3, <1>4 DEF CompletedOK
<1>9. ActivatingOK(a)'
  BY <1>1, <1>3, <1>4 DEF ActivatingOK, HoldPcs
<1> QED
  BY <1>1, <1>3, <1>4, <1>5, <1>6, <1>7, <1>8, <1>9, AppTurns

LEMMA ClaimStep == ASSUME OnboardingInv, NEW b \in Proofs, Claim(b) PROVE OnboardingInv'
<1>1. proof[b].pc = "claim" /\ UNCHANGED <<users, fleets, hooks, unclean, unnoted>>
  BY DEF Claim, Documents
<1>2. /\ HoldOK(b) /\ MadeOK(b) /\ proof[b].app \in Applications /\ app[proof[b].app] \in OnboardingDoc
      /\ app \in [Applications -> OnboardingDoc] /\ CompletedOK(proof[b].app) /\ Nested
  BY <1>1, ProofKnows
<1>3. b \notin unclean /\ b \notin unnoted /\ b \notin users
  BY <1>1, <1>2 DEF HoldOK, MadeOK
<1>4. CASE MayClaim(proof[b].app)
  <2>1. PICK new : new = [app[proof[b].app] EXCEPT !.status = "activating"]
    OBVIOUS
  <2>2. app' = [app EXCEPT ![proof[b].app] = new] /\ ProofGoes(b, "collide")
    BY <1>2, <1>4, <2>1 DEF Claim
  <2>3. new \in OnboardingDoc /\ new.status = "activating"
    BY <1>2, <2>1 DEF OnboardingDoc
  <2>4. StatusOf(b) = "pending_wallet"
    BY <1>4 DEF MayClaim, StatusOf
  <2>5. ASSUME proof'[b].pc = "collide", proof'[b].app = proof[b].app, StatusOf(b)' = new.status PROVE HoldOK(b)' /\ MadeOK(b)'
    BY <1>1, <1>2, <1>3, <2>3, <2>5 DEF HoldOK, MadeOK
  <2> QED
    BY <1>1, <2>2, <2>3, <2>4, <2>5, StatusTurns
<1>5. CASE ~MayClaim(proof[b].app)
  <2>1. app' = app /\ ProofGoes(b, "done")
    BY <1>5 DEF Claim
  <2>2. ASSUME proof'[b].pc = "done", proof'[b].app = proof[b].app PROVE HoldOK(b)' /\ MadeOK(b)'
    BY <1>1, <1>2, <1>3, <2>2 DEF HoldOK, MadeOK
  <2>3. Nested' /\ proof[b].pc \notin HoldPcs
    BY <1>1, <1>2 DEF Nested, HoldPcs
  <2>4. StatusOf(b) = "completed" /\ OwnerOf(b) = b => b \in unnoted' \/ b \in hooks'
    BY <1>1, <1>2 DEF CompletedOK, StatusOf, OwnerOf
  <2> QED
    BY <1>1, <2>1, <2>2, <2>3, <2>4, ActivationMoves DEF ByOne
<1> QED
  BY <1>4, <1>5

LEMMA CompleteStep == ASSUME OnboardingInv, NEW b \in Proofs, Complete(b) PROVE OnboardingInv'
<1>1. proof[b].pc = "complete" /\ UNCHANGED <<users, fleets, hooks, unclean, unnoted>>
  BY DEF Complete, Documents
<1>2. /\ HoldOK(b) /\ MadeOK(b) /\ proof[b].app \in Applications /\ app[proof[b].app] \in OnboardingDoc
      /\ app \in [Applications -> OnboardingDoc] /\ Nested
  BY <1>1, ProofKnows
<1>3. b \notin unclean /\ b \notin unnoted /\ b \in hooks /\ proof[b].pc \in HoldPcs /\ StatusOf(b) = "activating"
  BY <1>1, <1>2 DEF HoldOK, MadeOK, HoldPcs
<1>4. CASE app' = [app EXCEPT ![proof[b].app].status = "completed", ![proof[b].app].owner = b] /\ ProofGoes(b, "notify")
  <2>1. PICK mid : mid = [app[proof[b].app] EXCEPT !.status = "completed"]
    OBVIOUS
  <2>2. mid \in OnboardingDoc /\ mid.status = "completed"
    BY <1>2, <2>1 DEF OnboardingDoc
  <2>3. PICK new : new = [mid EXCEPT !.owner = b]
    OBVIOUS
  <2>4. new \in OnboardingDoc /\ new.status = "completed" /\ new.owner = b
    BY <2>2, <2>3 DEF OnboardingDoc
  <2>5. app' = [app EXCEPT ![proof[b].app] = new]
    BY <1>2, <1>4, <2>1, <2>3
  <2>6. ASSUME proof'[b].pc = "notify", proof'[b].app = proof[b].app, StatusOf(b)' = new.status, OwnerOf(b)' = new.owner
        PROVE HoldOK(b)' /\ MadeOK(b)'
    BY <1>1, <1>2, <1>3, <2>4, <2>6 DEF HoldOK, MadeOK
  <2> QED
    BY <1>1, <1>3, <1>4, <2>4, <2>5, <2>6, StatusTurns
<1>5. CASE app' = app /\ ProofGoes(b, "dropHook")
  <2>1. ASSUME proof'[b].pc = "dropHook", proof'[b].app = proof[b].app PROVE HoldOK(b)' /\ MadeOK(b)'
    BY <1>1, <1>2, <1>3, <1>5, <2>1 DEF HoldOK, MadeOK, StatusOf, OwnerOf
  <2>2. Nested'
    BY <1>1, <1>2 DEF Nested
  <2> QED
    BY <1>1, <1>3, <1>5, <2>1, <2>2, ActivationMoves DEF ByOne
<1> QED
  BY <1>4, <1>5 DEF Complete

LEMMA ReleaseStep == ASSUME OnboardingInv, NEW b \in Proofs, Release(b) PROVE OnboardingInv'
<1>1. proof[b].pc = "release" /\ UNCHANGED <<users, fleets, hooks, unclean, unnoted>>
  BY DEF Release, Documents
<1>2. /\ HoldOK(b) /\ MadeOK(b) /\ proof[b].app \in Applications /\ app[proof[b].app] \in OnboardingDoc
      /\ app \in [Applications -> OnboardingDoc] /\ CompletedOK(proof[b].app) /\ Nested
  BY <1>1, ProofKnows
<1>3. ASSUME proof'[b].pc = "done", proof'[b].app = proof[b].app PROVE HoldOK(b)' /\ MadeOK(b)'
  BY <1>1, <1>2, <1>3 DEF HoldOK, MadeOK
<1>4. proof[b].pc \in HoldPcs
  BY <1>1 DEF HoldPcs
<1>7. CASE ProofGoes(b, "stuck") /\ UNCHANGED app
  <2>1. ASSUME proof'[b].pc = "stuck", proof'[b].app = proof[b].app PROVE HoldOK(b)' /\ MadeOK(b)'
    BY <1>1, <1>2, <1>7, <2>1 DEF HoldOK, MadeOK, StatusOf, OwnerOf
  <2>2. Nested' /\ (StatusOf(b) # "activating" => b \in unnoted)
    BY <1>1, <1>2 DEF Nested, HoldOK
  <2> QED
    BY <1>1, <1>4, <1>7, <2>1, <2>2, ActivationMoves DEF ByOne
<1>5. CASE StatusOf(b) = "activating" /\ ProofGoes(b, "done") /\ app' = [app EXCEPT ![proof[b].app].status = "pending_wallet"]
  <2>1. PICK new : new = [app[proof[b].app] EXCEPT !.status = "pending_wallet"]
    OBVIOUS
  <2>2. app' = [app EXCEPT ![proof[b].app] = new]
    BY <1>2, <1>5, <2>1
  <2>3. new \in OnboardingDoc /\ new.status = "pending_wallet"
    BY <1>2, <2>1 DEF OnboardingDoc
  <2> QED
    BY <1>1, <1>3, <1>4, <1>5, <2>2, <2>3, StatusTurns
<1>6. CASE StatusOf(b) # "activating" /\ ProofGoes(b, "done")
  <2>1. app' = app
    BY <1>6 DEF Release, StatusOf
  <2>2. Nested' /\ b \in unnoted
    BY <1>1, <1>2, <1>6 DEF Nested, HoldOK
  <2> QED
    BY <1>1, <1>3, <1>4, <1>6, <2>1, <2>2, ActivationMoves DEF ByOne
<1> QED
  BY <1>5, <1>6, <1>7 DEF Release, StatusOf

LEMMA OnboardingInductive == ASSUME OnboardingInv, [OnboardingStep]_onboardingVars PROVE OnboardingInv'
<1>1. CASE OnboardingStep
  BY <1>1, IntentIsFresh, WalletIsBound, RejectStep, ClaimStep, CollisionStep, UserStep, FleetStepOfMerchant, WebhookStep,
     CompleteStep, NotifyStep, RollbackStep, ReleaseStep, DeathStep DEF OnboardingStep
<1>2. CASE UNCHANGED onboardingVars
  BY <1>2 DEF onboardingVars, OnboardingInv, OnboardingTypes, Nested, OneHolder, HoldOK, MadeOK, StatusOf, OwnerOf,
     CompletedOK, ActivatingOK
<1> QED
  BY <1>1, <1>2

\* The requests about an application that have ended.
Tried(a) == {b \in Proofs : proof[b].pc = "done" /\ proof[b].app = a}

\* Each of them failed the application once, at most.
AttemptsOK == \A a \in Applications : app[a].failedProofAttempts <= Cardinality(Tried(a))

\* A step that is no rejection leaves the attempts alone.
LEMMA AttemptsStay ==
    ASSUME OnboardingInv, OnboardingStep, \A b \in Proofs : ~RejectProof(b), NEW a \in Applications
    PROVE  app'[a].failedProofAttempts = app[a].failedProofAttempts
<1>1. app \in [Applications -> OnboardingDoc]
  BY DEF OnboardingInv, OnboardingTypes
<1>2. \A d \in Applications : DOMAIN app[d] = {"status", "expired", "failedProofAttempts", "owner"}
  BY <1>1 DEF OnboardingDoc
<1>3. \/ app' = app
      \/ \E d, status : app' = [app EXCEPT ![d].status = status]
      \/ \E d : app' = [app EXCEPT ![d].expired = TRUE]
      \/ \E d, b : app' = [app EXCEPT ![d].status = "completed", ![d].owner = b]
  BY DEF OnboardingStep, RegisterIntent, ChallengeExpires, BindWallet, Claim, RecheckCollision, CreateUser, CreateFleet,
     RegisterWebhook, Complete, NotifyMerchantOnboarded, Rollback, Release, ProofDies
<1>4. ASSUME NEW d, NEW status, app' = [app EXCEPT ![d].status = status]
      PROVE  app'[a].failedProofAttempts = app[a].failedProofAttempts
  BY <1>1, <1>2, <1>4
<1>5. ASSUME NEW d, app' = [app EXCEPT ![d].expired = TRUE]
      PROVE  app'[a].failedProofAttempts = app[a].failedProofAttempts
  BY <1>1, <1>2, <1>5
<1>6. ASSUME NEW d, NEW b, app' = [app EXCEPT ![d].status = "completed", ![d].owner = b]
      PROVE  app'[a].failedProofAttempts = app[a].failedProofAttempts
  BY <1>1, <1>2, <1>6
<1> QED
  BY <1>3, <1>4, <1>5, <1>6

\* A request that has ended stays as it is.
LEMMA EndIsFinal ==
    ASSUME OnboardingInv, OnboardingStep, NEW b \in Proofs, proof[b].pc = "done"
    PROVE  proof'[b] = proof[b]
<1>1. proof \in [Proofs -> ProofRec]
  BY DEF OnboardingInv, OnboardingTypes
<1>2. \/ proof' = proof
      \/ \E c \in Proofs : proof[c].pc # "done" /\ \E p : ProofGoes(c, p)
      \/ \E c \in Proofs : proof[c].pc # "done" /\ \E new : proof' = [proof EXCEPT ![c] = new]
  BY DEF OnboardingStep, RegisterIntent, ChallengeExpires, BindWallet, RejectProof, Claim, RecheckCollision, CreateUser,
     CreateFleet, RegisterWebhook, Complete, NotifyMerchantOnboarded, Rollback, Release, ProofDies, Running
<1>3. ASSUME NEW c \in Proofs, proof[c].pc # "done", NEW p, ProofGoes(c, p) PROVE proof'[b] = proof[b]
  BY <1>1, <1>3 DEF ProofGoes
<1> QED
  BY <1>1, <1>2, <1>3

\* So a step counts at most one attempt more, and ends that request.
LEMMA AttemptsAreCounted == ASSUME OnboardingInv, AttemptsOK, [OnboardingStep]_onboardingVars PROVE AttemptsOK'
<1>1. CASE UNCHANGED onboardingVars
  BY <1>1 DEF onboardingVars, AttemptsOK, Tried
<1>2. CASE OnboardingStep
  <2> SUFFICES ASSUME NEW a \in Applications PROVE (app[a].failedProofAttempts <= Cardinality(Tried(a)))'
    BY DEF AttemptsOK
  <2> DEFINE before == Tried(a)
             after == {b \in Proofs : proof'[b].pc = "done" /\ proof'[b].app = a}
  <2>1. IsFiniteSet(before) /\ IsFiniteSet(after)
    BY OnboardingAssumption, FS_Subset DEF Tried
  <2>2. before \subseteq after
    BY <1>2, EndIsFinal DEF Tried
  <2>3. Tried(a)' = after
    BY DEF Tried
  <2>4. app[a].failedProofAttempts \in Nat /\ app[a].failedProofAttempts <= Cardinality(before)
    BY DEF AttemptsOK, OnboardingInv, OnboardingTypes, OnboardingDoc
  <2>5. ASSUME NEW b \in Proofs, RejectProof(b), proof[b].app = a
        PROVE  b \in after /\ b \notin before /\ app'[a].failedProofAttempts = app[a].failedProofAttempts + 1
    <3>1. proof[b].pc = "reject" /\ ProofGoes(b, "done") /\ app \in [Applications -> OnboardingDoc]
      BY <2>5 DEF RejectProof, OnboardingInv, OnboardingTypes
    <3>2. proof'[b].pc = "done" /\ proof'[b].app = a
      BY <2>5, <3>1, ProofPc
    <3>3. PICK new : new = [app[a] EXCEPT !.failedProofAttempts = @ + 1]
      OBVIOUS
    <3>4. new.failedProofAttempts = app[a].failedProofAttempts + 1
      BY <3>1, <3>3 DEF OnboardingDoc
    <3>5. app' = [app EXCEPT ![a] = new]
      BY <2>5, <3>1, <3>3 DEF RejectProof
    <3> QED
      BY <3>1, <3>2, <3>4, <3>5 DEF Tried
  <2>6. ASSUME NEW b \in Proofs, RejectProof(b), proof[b].app # a
        PROVE  app'[a].failedProofAttempts = app[a].failedProofAttempts
    <3>1. app \in [Applications -> OnboardingDoc]
      BY DEF OnboardingInv, OnboardingTypes
    <3> QED
      BY <2>6, <3>1 DEF RejectProof
  <2> HIDE DEF before, after
  <2>7. Cardinality(before) \in Nat /\ Cardinality(after) \in Nat /\ Cardinality(before) <= Cardinality(after)
    BY <2>1, <2>2, FS_Subset, FS_CardinalityType
  <2>8. CASE \E b \in Proofs : RejectProof(b) /\ proof[b].app = a
    <3>1. before # after
      BY <2>5, <2>8
    <3>2. Cardinality(before) < Cardinality(after)
      BY <2>1, <2>2, <2>7, <3>1, FS_Subset
    <3> QED
      BY <2>3, <2>4, <2>5, <2>7, <2>8, <3>2
  <2>9. CASE ~\E b \in Proofs : RejectProof(b) /\ proof[b].app = a
    <3>1. app'[a].failedProofAttempts = app[a].failedProofAttempts
      BY <1>2, <2>6, <2>9, AttemptsStay
    <3> QED
      BY <2>3, <2>4, <2>7, <3>1
  <2> QED
    BY <2>8, <2>9
<1> QED
  BY <1>1, <1>2

\* The onboarding documents keep their shape.
LEMMA OnboardingIsTyped == OnboardingInv /\ AttemptsOK => OnboardingTypeOK
<1> SUFFICES ASSUME OnboardingInv, AttemptsOK PROVE OnboardingTypeOK
  OBVIOUS
<1>1. ASSUME NEW a \in Applications PROVE app[a] \in Application
  <2>1. app[a] \in OnboardingDoc /\ app[a].failedProofAttempts <= Cardinality(Tried(a))
    BY DEF OnboardingInv, OnboardingTypes, AttemptsOK
  <2>2. /\ Tried(a) \subseteq Proofs /\ IsFiniteSet(Proofs) /\ Cardinality(Proofs) \in Nat
        /\ Cardinality(Tried(a)) \in Nat /\ Cardinality(Tried(a)) <= Cardinality(Proofs)
    BY OnboardingAssumption, FS_Subset, FS_CardinalityType DEF Tried
  <2>3. app[a].failedProofAttempts \in 0..Cardinality(Proofs)
    BY <2>1, <2>2 DEF OnboardingDoc
  <2> QED
    BY <2>1, <2>3 DEF OnboardingDoc, Application
<1> QED
  BY <1>1 DEF OnboardingInv, OnboardingTypes, Nested, OnboardingTypeOK

\* Nobody has tried at first.
LEMMA AttemptsBegin == OnboardingInit => AttemptsOK
<1> SUFFICES ASSUME OnboardingInit, NEW a \in Applications PROVE app[a].failedProofAttempts <= Cardinality(Tried(a))
  BY DEF AttemptsOK
<1>1. Tried(a) = {} /\ app[a].failedProofAttempts = 0
  BY DEF OnboardingInit, Tried
<1> QED
  BY <1>1, FS_EmptySet

\* onboardingService.ts, for any number of applications and proofs of the same treasury:
\* one merchant at most, with all of its documents, and a failed activation leaves nothing behind,
\* unless the server died, a deletion or the giving back of the claim failed, or the notification
\* could not be recorded.
THEOREM OnboardingIsSafe == Spec => []OnboardingIsAllOrNothing
<1>1. Init => OnboardingInv
  BY OnboardingStart DEF Init
<1>2. OnboardingInv /\ [Next]_serviceVars => OnboardingInv'
  BY OthersRestOnboarding, OnboardingInductive
<1>3. OnboardingInv => OnboardingIsAllOrNothing
  BY OnboardingIsSound
<1> QED
  BY <1>1, <1>2, <1>3, PTL DEF Spec

-----------------------------------------------------------------------------
(* Accounts and files *)

UserPcs == {"register", "wallet", "suspend", "restore", "picture", "savePicture", "clearPicture", "retire", "find", "erase", "delete"}

\* What comes after the removal of a file: nothing, or the end of a deletion.
ThenOK(then) == then = NoAccountCall \/ \E u \in Users : then = [pc |-> "delete", user |-> u]

\* The shape of a request under way.
CallTyped(r) ==
    /\ r.pc \in UserPcs \cup {"idle", "evidence", "record", "removeFile"}
    /\ r.pc \in UserPcs => r.user \in Users
    /\ r.pc = "register" => r.email \in Emails
    /\ r.pc = "wallet" => r.wallet \in Wallets
    /\ r.pc = "suspend" => r.status \in {"suspended", "banned"}
    /\ r.pc \in {"picture", "savePicture"} => r.old \in Keys \cup {NoKey}
    /\ r.pc \in {"record", "savePicture", "clearPicture", "removeFile"} => r.key \in Keys
    /\ r.pc \in {"clearPicture", "removeFile"} => ThenOK(r.then)
    /\ r.pc = "erase" => r \in [pc: {"erase"}, user: Users, left: SUBSET Parcels]

AccountsTyped ==
    /\ account \in [Users -> Account]
    /\ parcels \in [Users -> SUBSET Parcels] /\ erased \subseteq Parcels /\ retired \subseteq Users
    /\ issued \in 0..MaxFiles /\ storage \subseteq 1..issued /\ evidenceDocs \subseteq Keys
    /\ byHand \in BOOLEAN /\ accountCalls \in 0..MaxAccountCalls
    /\ accountCall = [c \in AccountCalls |-> accountCall[c]]
    /\ \A c \in AccountCalls : CallTyped(accountCall[c])

\* The key a request has stored and not yet written into a document.
PendingOf(r) == IF r.pc \in {"record", "savePicture"} THEN {r.key} ELSE {}

\* The key of the picture that a request is going to remove.
StaleOf(r) ==
    (IF r.pc \in {"picture", "savePicture"} THEN {r.old} ELSE IF r.pc \in {"clearPicture", "removeFile"} THEN {r.key} ELSE {})
    \ {NoKey}

\* A stored key that no document holds yet.
Unseen(k) == k \in storage /\ k \notin evidenceDocs /\ \A u \in Users : account[u].picture # k

\* A key that is at most the picture of the user of the request that removes it.
Removable(r, k) ==
    /\ k \in 1..issued /\ k \notin evidenceDocs
    /\ \A u \in Users : account[u].picture = k => r.pc # "removeFile" /\ u = r.user

DocumentsOK ==
    /\ evidenceDocs \subseteq storage
    /\ \A u \in Users : account[u].picture \in storage \cup {NoKey} /\ account[u].picture \notin evidenceDocs
    /\ \A u, v \in Users : account[u].picture = account[v].picture => u = v \/ account[u].picture = NoKey

CallsOK ==
    /\ \A c \in AccountCalls : \A k \in PendingOf(accountCall[c]) : Unseen(k)
    /\ \A c, d \in AccountCalls : \A k \in PendingOf(accountCall[c]) :
         k \notin StaleOf(accountCall[d]) /\ (k \in PendingOf(accountCall[d]) => c = d)
    /\ \A c \in AccountCalls : \A k \in StaleOf(accountCall[c]) : Removable(accountCall[c], k)

AccountInv == AccountsTyped /\ (~byHand => DocumentsOK /\ CallsOK)

LEMMA OthersRestAccounts == [Next]_serviceVars => [AccountStep]_accountVars
BY DEF Next, Play, serviceVars

LEMMA AccountStart == AccountInit => AccountInv
<1> SUFFICES ASSUME AccountInit PROVE AccountInv
  OBVIOUS
<1>1. PICK email \in [Users -> Emails \cup {Nothing}], picture \in [Users -> storage \cup {NoKey}] :
        /\ \A u, v \in Users : u # v /\ picture[u] = picture[v] => picture[u] = NoKey
        /\ account = [u \in Users |-> [NewAccount(email[u]) EXCEPT !.picture = picture[u]]]
  BY DEF AccountInit
<1>2. storage \subseteq 1..issued /\ storage \subseteq Keys
  BY AccountAssumption DEF AccountInit, Keys
<1>3. \A u \in Users : /\ account[u] = [email |-> email[u], wallet |-> Nothing, role |-> "user", status |-> "active",
                                        isDeleted |-> FALSE, picture |-> picture[u]]
                      /\ account[u] \in Account
  BY <1>1, <1>2 DEF NewAccount, Account
<1>4. account \in [Users -> Account] /\ \A u \in Users : account[u].picture = picture[u]
  <2>1. account = [u \in Users |-> account[u]]
    BY <1>1
  <2>2. account \in [Users -> Account]
    BY <1>3, <2>1
  <2>3. ASSUME NEW u \in Users PROVE account[u].picture = picture[u]
    <3>1. account[u] = [email |-> email[u], wallet |-> Nothing, role |-> "user", status |-> "active",
                        isDeleted |-> FALSE, picture |-> picture[u]]
      BY <1>3
    <3> QED
      BY <3>1
  <2> QED
    BY <2>2, <2>3
<1>5. \A c \in AccountCalls : accountCall[c].pc = "idle"
  BY DEF AccountInit, NoAccountCall
<1>6. \A c \in AccountCalls : CallTyped(accountCall[c])
  BY <1>5 DEF CallTyped, UserPcs
<1>7. AccountsTyped
  <2>1. issued \in 0..MaxFiles /\ accountCalls \in 0..MaxAccountCalls
    BY AccountAssumption DEF AccountInit
  <2>2. accountCall = [c \in AccountCalls |-> accountCall[c]]
    BY DEF AccountInit
  <2>3. parcels \in [Users -> SUBSET Parcels] /\ byHand \in BOOLEAN
    BY DEF AccountInit
  <2>4. erased = {} /\ retired = {} /\ evidenceDocs = {}
    BY DEF AccountInit
  <2> QED
    BY <1>2, <1>4, <1>6, <2>1, <2>2, <2>3, <2>4 DEF AccountsTyped
<1>8. \A c \in AccountCalls : PendingOf(accountCall[c]) = {} /\ StaleOf(accountCall[c]) = {}
  BY <1>5 DEF PendingOf, StaleOf
<1>9. DocumentsOK /\ CallsOK
  BY <1>1, <1>2, <1>4, <1>8 DEF DocumentsOK, CallsOK, AccountInit
<1> QED
  BY <1>7, <1>9 DEF AccountInv

LEMMA KeysAreSound == AccountInv => KeysHaveFiles
BY DEF AccountInv, DocumentsOK, KeysHaveFiles

LEMMA AccountIsTyped == AccountInv => AccountTypeOK
BY DEF AccountInv, AccountsTyped, AccountTypeOK, CallTyped, UserPcs

\* One request goes on, and the others stay where they are.
LEMMA CallGoes ==
    ASSUME AccountInv, NEW c \in AccountCalls, NEW rec, AccountGoes(c, rec), CallTyped(rec)
    PROVE  /\ accountCall'[c] = rec /\ \A d \in AccountCalls \ {c} : accountCall'[d] = accountCall[d]
           /\ (accountCall = [d \in AccountCalls |-> accountCall[d]])'
           /\ \A d \in AccountCalls : CallTyped(accountCall[d])'
<1>1. accountCall = [d \in AccountCalls |-> accountCall[d]] /\ \A d \in AccountCalls : CallTyped(accountCall[d])
  BY DEF AccountInv, AccountsTyped
<1>2. accountCall'[c] = rec /\ \A d \in AccountCalls \ {c} : accountCall'[d] = accountCall[d]
  BY <1>1 DEF AccountGoes
<1>3. (accountCall = [d \in AccountCalls |-> accountCall[d]])'
  BY <1>1 DEF AccountGoes
<1>4. ASSUME NEW d \in AccountCalls PROVE CallTyped(accountCall'[d])
  BY <1>1, <1>2
<1> QED
  BY <1>2, <1>3, <1>4

\* A step that stores, records and removes nothing, and shows no picture that was not shown before.
LEMMA QuietMove ==
    ASSUME AccountInv, NEW c \in AccountCalls, NEW rec, AccountGoes(c, rec), CallTyped(rec),
           UNCHANGED <<storage, issued, evidenceDocs, byHand>>,
           account' \in [Users -> Account], \A u \in Users : account'[u].picture \in {account[u].picture, NoKey},
           parcels' \in [Users -> SUBSET Parcels], erased' \subseteq Parcels, retired' \subseteq Users,
           accountCalls' \in 0..MaxAccountCalls,
           PendingOf(rec) = {}, \A k \in StaleOf(rec) : rec.pc # "removeFile" /\ k = account[rec.user].picture /\ rec.user \in Users
    PROVE  AccountInv'
<1>1. /\ accountCall'[c] = rec /\ \A d \in AccountCalls \ {c} : accountCall'[d] = accountCall[d]
      /\ (accountCall = [d \in AccountCalls |-> accountCall[d]])'
      /\ \A d \in AccountCalls : CallTyped(accountCall[d])'
  BY CallGoes
<1>2. AccountsTyped'
  BY <1>1 DEF AccountInv, AccountsTyped
<1>3. SUFFICES ASSUME ~byHand PROVE DocumentsOK' /\ CallsOK'
  BY <1>2 DEF AccountInv
<1>4. DocumentsOK /\ CallsOK /\ AccountsTyped
  BY <1>3 DEF AccountInv
<1>5. DocumentsOK'
  BY <1>4 DEF DocumentsOK, NoKey, AccountsTyped
<1>6. \A k \in Keys : Unseen(k) => Unseen(k)'
  BY DEF Unseen, NoKey, Keys
<1>7. ASSUME NEW d \in AccountCalls \ {c}, NEW k \in PendingOf(accountCall'[d]) PROVE k \in PendingOf(accountCall[d]) /\ k \in Keys
  BY <1>1, <1>4, <1>7 DEF PendingOf, AccountsTyped, CallTyped
<1>8. ASSUME NEW k, NEW r, Removable(r, k), k # NoKey PROVE Removable(r, k)'
  BY <1>8 DEF Removable
<1>9. ASSUME NEW k \in StaleOf(rec) PROVE Removable(rec, k) /\ k # NoKey
  <2>1. k # NoKey /\ k = account[rec.user].picture /\ rec.pc # "removeFile" /\ rec.user \in Users
    BY DEF StaleOf
  <2>2. k \in storage /\ storage \subseteq 1..issued
    BY <1>4, <2>1 DEF DocumentsOK, AccountsTyped
  <2>3. \A u \in Users : account[u].picture = k => u = rec.user
    BY <1>4, <2>1 DEF DocumentsOK
  <2> QED
    BY <1>4, <2>1, <2>2, <2>3 DEF Removable, DocumentsOK
<1>10. ASSUME NEW d \in AccountCalls, NEW k \in PendingOf(accountCall[d]) PROVE k \notin StaleOf(rec)
  <2>1. Unseen(k)
    BY <1>4 DEF CallsOK
  <2> QED
    BY <2>1 DEF Unseen
<1>11. \A d \in AccountCalls : \A k \in PendingOf(accountCall'[d]) : Unseen(k)'
  BY <1>1, <1>4, <1>6, <1>7 DEF CallsOK
<1>12. ASSUME NEW d \in AccountCalls, NEW e \in AccountCalls, NEW k \in PendingOf(accountCall'[d])
       PROVE  k \notin StaleOf(accountCall'[e]) /\ (k \in PendingOf(accountCall'[e]) => d = e)
  <2>1. d # c /\ k \in PendingOf(accountCall[d])
    BY <1>1, <1>7
  <2>2. CASE e = c
    BY <1>1, <1>10, <2>1, <2>2
  <2>3. CASE e # c
    BY <1>1, <1>4, <2>1, <2>3 DEF CallsOK
  <2> QED
    BY <2>2, <2>3
<1>13. ASSUME NEW d \in AccountCalls, NEW k \in StaleOf(accountCall'[d]) PROVE Removable(accountCall[d], k)'
  <2>1. k # NoKey
    BY DEF StaleOf
  <2>2. Removable(accountCall'[d], k)
    BY <1>1, <1>4, <1>9 DEF CallsOK
  <2>3. PICK r : r = accountCall'[d]
    OBVIOUS
  <2>4. Removable(r, k)'
    BY <1>8, <2>1, <2>2, <2>3
  <2> QED
    BY <2>3, <2>4 DEF Removable
<1>14. CallsOK'
  BY <1>11, <1>12, <1>13 DEF CallsOK
<1> QED
  BY <1>5, <1>14

LEMMA IdleIsQuiet == CallTyped(NoAccountCall) /\ PendingOf(NoAccountCall) = {} /\ StaleOf(NoAccountCall) = {}
BY DEF CallTyped, UserPcs, NoAccountCall, PendingOf, StaleOf

LEMMA ArrivalMove ==
    ASSUME AccountInv, NEW c \in AccountCalls, NEW rec, AccountCallArrives(c, rec), CallTyped(rec),
           PendingOf(rec) = {}, \A k \in StaleOf(rec) : rec.pc # "removeFile" /\ k = account[rec.user].picture /\ rec.user \in Users
    PROVE  AccountInv'
<1>1. /\ account \in [Users -> Account] /\ parcels \in [Users -> SUBSET Parcels] /\ erased \subseteq Parcels
      /\ retired \subseteq Users /\ accountCalls \in 0..MaxAccountCalls
  BY DEF AccountInv, AccountsTyped
<1>2. accountCalls' \in 0..MaxAccountCalls
  BY <1>1, AccountAssumption DEF AccountCallArrives
<1>3. /\ AccountGoes(c, rec)
      /\ UNCHANGED <<account, parcels, erased, retired, storage, issued, evidenceDocs, byHand>>
  BY DEF AccountCallArrives
<1> QED
  BY <1>1, <1>2, <1>3, QuietMove

\* A request that ends with one write to an account, or without.
LEMMA EndingMove ==
    ASSUME AccountInv, NEW c \in AccountCalls, AccountGoes(c, NoAccountCall), NEW u \in Users, NEW new \in Account,
           new.picture \in {account[u].picture, NoKey}, account' = account \/ account' = [account EXCEPT ![u] = new],
           UNCHANGED <<ParcelVars, FileVars, byHand, accountCalls>>
    PROVE  AccountInv'
<1>1. /\ account \in [Users -> Account] /\ parcels \in [Users -> SUBSET Parcels] /\ erased \subseteq Parcels
      /\ retired \subseteq Users /\ accountCalls \in 0..MaxAccountCalls
  BY DEF AccountInv, AccountsTyped
<1>2. account' \in [Users -> Account] /\ \A v \in Users : account'[v].picture \in {account[v].picture, NoKey}
  BY <1>1
<1>3. UNCHANGED <<parcels, erased, retired, storage, issued, evidenceDocs, byHand, accountCalls>>
  BY DEF ParcelVars, FileVars
<1> QED
  BY <1>1, <1>2, <1>3, IdleIsQuiet, QuietMove

LEMMA CallKnows ==
    ASSUME AccountInv, NEW c \in AccountCalls
    PROVE  CallTyped(accountCall[c]) /\ account \in [Users -> Account] /\ (accountCall[c].pc \in UserPcs => accountCall[c].user \in Users)
BY DEF AccountInv, AccountsTyped, CallTyped

LEMMA RegisterStep == ASSUME AccountInv, NEW c \in AccountCalls, RegisterUser(c) PROVE AccountInv'
<1>1. ASSUME NEW u \in Users, NEW e \in Emails, AccountCallArrives(c, [pc |-> "register", user |-> u, email |-> e])
      PROVE AccountInv'
  <2>1. PICK rec : rec = [pc |-> "register", user |-> u, email |-> e]
    OBVIOUS
  <2>2. CallTyped(rec) /\ PendingOf(rec) = {} /\ StaleOf(rec) = {}
    BY <2>1 DEF CallTyped, UserPcs, PendingOf, StaleOf
  <2> QED
    BY <1>1, <2>1, <2>2, ArrivalMove
<1>2. CASE AccountAt(c, "register") /\ AccountGoes(c, NoAccountCall) /\ UNCHANGED <<ParcelVars, FileVars, byHand>>
           /\ \/ account' = account
              \/ account' = [account EXCEPT ![accountCall[c].user] = NewAccount(accountCall[c].email)]
  <2>1. accountCall[c].user \in Users /\ accountCall[c].email \in Emails /\ UNCHANGED accountCalls
    BY <1>2, CallKnows DEF CallTyped, UserPcs, AccountAt
  <2>2. PICK u \in Users, e \in Emails : u = accountCall[c].user /\ e = accountCall[c].email
    BY <2>1
  <2>3. PICK new : new = NewAccount(e)
    OBVIOUS
  <2>4. new \in Account /\ new.picture = NoKey
    BY <2>3 DEF NewAccount, Account
  <2> QED
    BY <1>2, <2>1, <2>2, <2>3, <2>4, EndingMove
<1> QED
  BY <1>1, <1>2, Zenon DEF RegisterUser

LEMMA WalletStep == ASSUME AccountInv, NEW c \in AccountCalls, UpdateWallet(c) PROVE AccountInv'
<1>1. ASSUME NEW u \in Users, NEW w \in Wallets, AccountCallArrives(c, [pc |-> "wallet", user |-> u, wallet |-> w])
      PROVE AccountInv'
  <2>1. PICK rec : rec = [pc |-> "wallet", user |-> u, wallet |-> w]
    OBVIOUS
  <2>2. CallTyped(rec) /\ PendingOf(rec) = {} /\ StaleOf(rec) = {}
    BY <2>1 DEF CallTyped, UserPcs, PendingOf, StaleOf
  <2> QED
    BY <1>1, <2>1, <2>2, ArrivalMove
<1>2. CASE AccountAt(c, "wallet") /\ AccountGoes(c, NoAccountCall) /\ UNCHANGED <<ParcelVars, FileVars, byHand>>
           /\ \/ account' = account
              \/ account' = [account EXCEPT ![accountCall[c].user].wallet = accountCall[c].wallet]
  <2>1. accountCall[c].user \in Users /\ accountCall[c].wallet \in Wallets /\ UNCHANGED accountCalls
    BY <1>2, CallKnows DEF CallTyped, UserPcs, AccountAt
  <2>2. PICK u \in Users, w \in Wallets : u = accountCall[c].user /\ w = accountCall[c].wallet
    BY <2>1
  <2>3. PICK new : new = [account[u] EXCEPT !.wallet = w]
    OBVIOUS
  <2>4. account[u] \in Account
    BY CallKnows
  <2>5. new \in Account /\ new.picture = account[u].picture
    BY <2>3, <2>4 DEF Account
  <2>6. account' = account \/ account' = [account EXCEPT ![u] = new]
    BY <1>2, <2>2, <2>3
  <2> QED
    BY <1>2, <2>1, <2>5, <2>6, EndingMove
<1> QED
  BY <1>1, <1>2, Zenon DEF UpdateWallet

LEMMA SuspendStep == ASSUME AccountInv, NEW c \in AccountCalls, SuspendUser(c) PROVE AccountInv'
<1>1. ASSUME NEW u \in Users, NEW s \in {"suspended", "banned"}, AccountCallArrives(c, [pc |-> "suspend", user |-> u, status |-> s])
      PROVE AccountInv'
  <2>1. PICK rec : rec = [pc |-> "suspend", user |-> u, status |-> s]
    OBVIOUS
  <2>2. CallTyped(rec) /\ PendingOf(rec) = {} /\ StaleOf(rec) = {}
    BY <2>1 DEF CallTyped, UserPcs, PendingOf, StaleOf
  <2> QED
    BY <1>1, <2>1, <2>2, ArrivalMove
<1>2. CASE AccountAt(c, "suspend") /\ AccountGoes(c, NoAccountCall) /\ UNCHANGED <<ParcelVars, FileVars, byHand>>
           /\ account' = [account EXCEPT ![accountCall[c].user].status = accountCall[c].status]
  <2>1. accountCall[c].user \in Users /\ accountCall[c].status \in {"suspended", "banned"} /\ UNCHANGED accountCalls
    BY <1>2, CallKnows DEF CallTyped, UserPcs, AccountAt
  <2>2. PICK u \in Users, s \in {"suspended", "banned"} : u = accountCall[c].user /\ s = accountCall[c].status
    BY <2>1
  <2>3. PICK new : new = [account[u] EXCEPT !.status = s]
    OBVIOUS
  <2>4. account[u] \in Account
    BY CallKnows
  <2>5. new \in Account /\ new.picture = account[u].picture
    BY <2>3, <2>4 DEF Account
  <2>6. account' = [account EXCEPT ![u] = new]
    BY <1>2, <2>2, <2>3
  <2> QED
    BY <1>2, <2>1, <2>5, <2>6, EndingMove
<1> QED
  BY <1>1, <1>2, Zenon DEF SuspendUser

LEMMA RestoreStep == ASSUME AccountInv, NEW c \in AccountCalls, RestoreUser(c) PROVE AccountInv'
<1>1. ASSUME NEW u \in Users, AccountCallArrives(c, [pc |-> "restore", user |-> u]) PROVE AccountInv'
  <2>1. PICK rec : rec = [pc |-> "restore", user |-> u]
    OBVIOUS
  <2>2. CallTyped(rec) /\ PendingOf(rec) = {} /\ StaleOf(rec) = {}
    BY <2>1 DEF CallTyped, UserPcs, PendingOf, StaleOf
  <2> QED
    BY <1>1, <2>1, <2>2, ArrivalMove
<1>2. CASE AccountAt(c, "restore") /\ AccountGoes(c, NoAccountCall) /\ UNCHANGED <<ParcelVars, FileVars, byHand>>
           /\ account' = [account EXCEPT ![accountCall[c].user].isDeleted = FALSE]
  <2>1. accountCall[c].user \in Users /\ UNCHANGED accountCalls
    BY <1>2, CallKnows DEF CallTyped, UserPcs, AccountAt
  <2>2. PICK u \in Users : u = accountCall[c].user
    BY <2>1
  <2>3. PICK new : new = [account[u] EXCEPT !.isDeleted = FALSE]
    OBVIOUS
  <2>4. account[u] \in Account
    BY CallKnows
  <2>5. new \in Account /\ new.picture = account[u].picture
    BY <2>3, <2>4 DEF Account
  <2>6. account' = [account EXCEPT ![u] = new]
    BY <1>2, <2>2, <2>3
  <2> QED
    BY <1>2, <2>1, <2>5, <2>6, EndingMove
<1> QED
  BY <1>1, <1>2, Zenon DEF RestoreUser

LEMMA RequestSteps ==
    ASSUME AccountInv, NEW c \in AccountCalls,
           RequestEvidenceUpload(c) \/ RequestPictureUpload(c) \/ DeleteProfilePicture(c) \/ RequestDeletion(c)
    PROVE  AccountInv'
<1>1. account \in [Users -> Account] /\ \A u \in Users : account[u].picture \in Keys \cup {NoKey}
  BY CallKnows DEF Account
<1>2. CASE RequestEvidenceUpload(c)
  <2>1. PICK rec : rec = [pc |-> "evidence"]
    OBVIOUS
  <2>2. CallTyped(rec) /\ PendingOf(rec) = {} /\ StaleOf(rec) = {}
    BY <2>1 DEF CallTyped, UserPcs, PendingOf, StaleOf
  <2> QED
    BY <1>2, <2>1, <2>2, ArrivalMove DEF RequestEvidenceUpload
<1>3. CASE RequestPictureUpload(c)
  <2>1. PICK u \in Users : AccountCallArrives(c, [pc |-> "picture", user |-> u, old |-> account[u].picture])
    BY <1>3 DEF RequestPictureUpload
  <2>2. PICK rec : rec = [pc |-> "picture", user |-> u, old |-> account[u].picture]
    OBVIOUS
  <2>3. rec.pc = "picture" /\ rec.user = u /\ rec.old = account[u].picture
    BY <2>2
  <2>4. CallTyped(rec) /\ PendingOf(rec) = {} /\ \A k \in StaleOf(rec) : k = account[rec.user].picture
    BY <1>1, <2>3 DEF CallTyped, UserPcs, PendingOf, StaleOf
  <2> QED
    BY <2>1, <2>2, <2>3, <2>4, ArrivalMove
<1>4. CASE DeleteProfilePicture(c)
  <2>1. PICK u \in Users :
          /\ account[u].picture # NoKey
          /\ AccountCallArrives(c, [pc |-> "clearPicture", user |-> u, key |-> account[u].picture, then |-> NoAccountCall])
    BY <1>4 DEF DeleteProfilePicture
  <2>2. PICK rec : rec = [pc |-> "clearPicture", user |-> u, key |-> account[u].picture, then |-> NoAccountCall]
    OBVIOUS
  <2>3. rec.pc = "clearPicture" /\ rec.user = u /\ rec.key = account[u].picture /\ rec.then = NoAccountCall
    BY <2>2
  <2>4. CallTyped(rec) /\ PendingOf(rec) = {} /\ \A k \in StaleOf(rec) : k = account[rec.user].picture
    BY <1>1, <2>1, <2>3 DEF CallTyped, UserPcs, PendingOf, StaleOf, ThenOK
  <2> QED
    BY <2>1, <2>2, <2>3, <2>4, ArrivalMove
<1>5. CASE RequestDeletion(c)
  <2>1. PICK u \in Users : AccountCallArrives(c, [pc |-> "retire", user |-> u])
    BY <1>5 DEF RequestDeletion
  <2>2. PICK rec : rec = [pc |-> "retire", user |-> u]
    OBVIOUS
  <2>3. CallTyped(rec) /\ PendingOf(rec) = {} /\ StaleOf(rec) = {}
    BY <2>2 DEF CallTyped, UserPcs, PendingOf, StaleOf
  <2> QED
    BY <2>1, <2>2, <2>3, ArrivalMove
<1> QED
  BY <1>2, <1>3, <1>4, <1>5

LEMMA SoftDeleteStep == ASSUME AccountInv, NEW c \in AccountCalls, SoftDeleteUser(c) PROVE AccountInv'
<1>1. /\ account \in [Users -> Account] /\ parcels \in [Users -> SUBSET Parcels] /\ erased \subseteq Parcels
      /\ retired \subseteq Users /\ accountCalls \in 0..MaxAccountCalls /\ CallTyped(accountCall[c])
  BY DEF AccountInv, AccountsTyped
<1>2. accountCall[c].pc \in {"retire", "find", "erase", "delete"} /\ UNCHANGED accountCalls
  BY Zenon DEF SoftDeleteUser, AccountAt
<1>3. PICK u \in Users : u = accountCall[c].user
  BY <1>1, <1>2 DEF CallTyped, UserPcs
<1>4. account[u].picture \in Keys \cup {NoKey}
  BY <1>1 DEF Account
<1>5. ASSUME NEW rec, AccountGoes(c, rec), CallTyped(rec), PendingOf(rec) = {},
             \A k \in StaleOf(rec) : rec.pc # "removeFile" /\ k = account[rec.user].picture /\ rec.user \in Users,
             UNCHANGED <<account, parcels, storage, issued, evidenceDocs, byHand>>, erased' \subseteq Parcels, retired' \subseteq Users
      PROVE  AccountInv'
  BY <1>1, <1>2, <1>5, QuietMove
<1>6. CASE retired' = retired \cup {u} /\ AccountGoes(c, [pc |-> "find", user |-> u]) /\ UNCHANGED <<account, parcels, erased, FileVars, byHand>>
  <2>1. PICK rec : rec = [pc |-> "find", user |-> u]
    OBVIOUS
  <2>2. CallTyped(rec) /\ PendingOf(rec) = {} /\ StaleOf(rec) = {}
    BY <2>1 DEF CallTyped, UserPcs, PendingOf, StaleOf
  <2> QED
    BY <1>1, <1>5, <1>6, <2>1, <2>2 DEF FileVars
<1>7. CASE AccountGoes(c, [pc |-> "erase", user |-> u, left |-> parcels[u] \ erased]) /\ UNCHANGED <<account, ParcelVars, FileVars, byHand>>
  <2>1. PICK left \in SUBSET Parcels : left = parcels[u] \ erased
    BY <1>1
  <2>2. PICK rec : rec = [pc |-> "erase", user |-> u, left |-> left]
    OBVIOUS
  <2>3. CallTyped(rec) /\ PendingOf(rec) = {} /\ StaleOf(rec) = {}
    BY <2>2 DEF CallTyped, UserPcs, PendingOf, StaleOf
  <2>4. AccountGoes(c, rec)
    BY <1>7, <2>1, <2>2
  <2> QED
    BY <1>1, <1>5, <1>7, <2>3, <2>4 DEF FileVars, ParcelVars
<1>8. CASE /\ accountCall[c].pc = "erase" /\ UNCHANGED <<account, parcels, retired, FileVars, byHand>>
           /\ \E y \in accountCall[c].left : erased' = erased \cup {y} /\ AccountGoes(c, [accountCall[c] EXCEPT !.left = @ \ {y}])
  <2>1. PICK y \in accountCall[c].left : erased' = erased \cup {y} /\ AccountGoes(c, [accountCall[c] EXCEPT !.left = @ \ {y}])
    BY <1>8
  <2>2. accountCall[c] \in [pc: {"erase"}, user: Users, left: SUBSET Parcels]
    BY <1>1, <1>8 DEF CallTyped
  <2>3. PICK rec : rec = [accountCall[c] EXCEPT !.left = @ \ {y}]
    OBVIOUS
  <2>4. rec \in [pc: {"erase"}, user: Users, left: SUBSET Parcels] /\ y \in Parcels
    BY <2>2, <2>3
  <2>5. CallTyped(rec) /\ PendingOf(rec) = {} /\ StaleOf(rec) = {}
    BY <2>4 DEF CallTyped, UserPcs, PendingOf, StaleOf
  <2> QED
    BY <1>1, <1>5, <1>8, <2>1, <2>3, <2>4, <2>5 DEF FileVars
<1>9. CASE /\ UNCHANGED <<account, ParcelVars, FileVars, byHand>>
           /\ AccountGoes(c, IF account[u].picture = NoKey THEN [pc |-> "delete", user |-> u]
                             ELSE [pc |-> "clearPicture", user |-> u, key |-> account[u].picture, then |-> [pc |-> "delete", user |-> u]])
  <2>1. PICK last : last = [pc |-> "delete", user |-> u]
    OBVIOUS
  <2>2. CASE account[u].picture = NoKey
    <3>1. CallTyped(last) /\ PendingOf(last) = {} /\ StaleOf(last) = {}
      BY <2>1 DEF CallTyped, UserPcs, PendingOf, StaleOf
    <3> QED
      BY <1>1, <1>5, <1>9, <2>1, <2>2, <3>1 DEF FileVars, ParcelVars
  <2>3. CASE account[u].picture # NoKey
    <3>1. PICK rec : rec = [pc |-> "clearPicture", user |-> u, key |-> account[u].picture, then |-> last]
      OBVIOUS
    <3>2. rec.pc = "clearPicture" /\ rec.user = u /\ rec.key = account[u].picture /\ rec.then = last
      BY <3>1
    <3>3. ThenOK(last)
      BY <2>1 DEF ThenOK
    <3>4. CallTyped(rec) /\ PendingOf(rec) = {} /\ \A k \in StaleOf(rec) : k = account[rec.user].picture
      BY <1>4, <2>3, <3>2, <3>3 DEF CallTyped, UserPcs, PendingOf, StaleOf
    <3>5. AccountGoes(c, rec)
      BY <1>9, <2>1, <2>3, <3>1
    <3> QED
      BY <1>1, <1>5, <1>9, <3>2, <3>4, <3>5 DEF FileVars, ParcelVars
  <2> QED
    BY <2>2, <2>3
<1>10. CASE account' = [account EXCEPT ![u].isDeleted = TRUE] /\ AccountGoes(c, NoAccountCall) /\ UNCHANGED <<ParcelVars, FileVars, byHand>>
  <2>1. PICK new : new = [account[u] EXCEPT !.isDeleted = TRUE]
    OBVIOUS
  <2>2. new \in Account /\ new.picture = account[u].picture
    BY <1>1, <2>1 DEF Account
  <2>3. account' = [account EXCEPT ![u] = new]
    BY <1>1, <1>10, <2>1
  <2> QED
    BY <1>2, <1>10, <2>2, <2>3, EndingMove
<1> QED
  BY <1>3, <1>6, <1>7, <1>8, <1>9, <1>10, Zenon DEF SoftDeleteUser, AccountAt

\* A file is stored under a key that was never given out.
LEMMA UploadMove ==
    ASSUME AccountInv, NEW c \in AccountCalls, NEW rec, Upload(c, rec), CallTyped(rec), rec.pc # "removeFile",
           UNCHANGED <<account, ParcelVars, evidenceDocs, byHand, accountCalls>>,
           PendingOf(rec) = {issued + 1}, StaleOf(rec) \subseteq StaleOf(accountCall[c]),
           StaleOf(rec) # {} => rec.user = accountCall[c].user
    PROVE  AccountInv'
<1>1. AccountGoes(c, rec) /\ issued < MaxFiles /\ issued' = issued + 1 /\ storage' = storage \cup {issued + 1}
  BY DEF Upload
<1>2. PICK n : n = issued + 1
  OBVIOUS
<1>3. /\ accountCall'[c] = rec /\ \A d \in AccountCalls \ {c} : accountCall'[d] = accountCall[d]
      /\ (accountCall = [d \in AccountCalls |-> accountCall[d]])'
      /\ \A d \in AccountCalls : CallTyped(accountCall[d])'
  BY <1>1, CallGoes
<1>4. AccountsTyped
  BY DEF AccountInv
<1>5. issued \in 0..MaxFiles /\ storage \subseteq 1..issued
  BY <1>4 DEF AccountsTyped
<1>6. issued' \in 0..MaxFiles /\ storage' \subseteq 1..issued'
  BY <1>1, <1>5, AccountAssumption
<1>7. UNCHANGED <<account, parcels, erased, retired, evidenceDocs, byHand, accountCalls>>
  BY DEF ParcelVars
<1>8. AccountsTyped'
  BY <1>3, <1>4, <1>6, <1>7 DEF AccountsTyped
<1>9. SUFFICES ASSUME ~byHand PROVE DocumentsOK' /\ CallsOK'
  BY <1>7, <1>8 DEF AccountInv
<1>10. DocumentsOK /\ CallsOK
  BY <1>9 DEF AccountInv
<1>11. DocumentsOK'
  BY <1>1, <1>7, <1>10 DEF DocumentsOK
<1>12. n \notin storage /\ n \notin 1..issued /\ n # NoKey /\ 1..issued \subseteq 1..issued'
  BY <1>1, <1>2, <1>5 DEF NoKey
<1>13. Unseen(n)'
  BY <1>1, <1>2, <1>7, <1>10, <1>12 DEF Unseen, DocumentsOK
<1>14. ASSUME NEW k, Unseen(k) PROVE Unseen(k)' /\ k # n
  BY <1>1, <1>7, <1>12, <1>14 DEF Unseen
<1>15. ASSUME NEW k, NEW r, Removable(r, k) PROVE Removable(r, k)' /\ k # n
  BY <1>1, <1>7, <1>12, <1>15 DEF Removable
<1>16. ASSUME NEW k \in StaleOf(rec) PROVE Removable(rec, k)
  <2>1. k \in StaleOf(accountCall[c]) /\ rec.user = accountCall[c].user /\ Removable(accountCall[c], k)
    BY <1>10 DEF CallsOK
  <2> QED
    BY <2>1 DEF Removable
<1>17. ASSUME NEW d \in AccountCalls, NEW k \in StaleOf(accountCall'[d]) PROVE Removable(accountCall'[d], k) /\ k \in StaleOf(accountCall[d])
  BY <1>3, <1>10, <1>16 DEF CallsOK
<1>18. \A d \in AccountCalls : \A k \in PendingOf(accountCall'[d]) : Unseen(k)'
  BY <1>2, <1>3, <1>10, <1>13, <1>14 DEF CallsOK
<1>19. ASSUME NEW d \in AccountCalls, NEW e \in AccountCalls, NEW k \in PendingOf(accountCall'[d])
       PROVE  k \notin StaleOf(accountCall'[e]) /\ (k \in PendingOf(accountCall'[e]) => d = e)
  <2>1. CASE k = n
    <3>1. k \notin StaleOf(accountCall'[e])
      BY <1>15, <1>17, <2>1
    <3>2. \A f \in AccountCalls \ {c} : n \notin PendingOf(accountCall'[f])
      BY <1>3, <1>10, <1>14 DEF CallsOK
    <3> QED
      BY <2>1, <3>1, <3>2
  <2>2. CASE k # n
    <3>1. d # c /\ k \in PendingOf(accountCall[d])
      BY <1>2, <1>3, <2>2
    <3>2. k \notin StaleOf(accountCall[e]) /\ (k \in PendingOf(accountCall[e]) => d = e)
      BY <1>10, <3>1 DEF CallsOK
    <3> QED
      BY <1>2, <1>3, <1>17, <2>2, <3>2
  <2> QED
    BY <2>1, <2>2
<1>20. ASSUME NEW d \in AccountCalls, NEW k \in StaleOf(accountCall'[d]) PROVE Removable(accountCall[d], k)'
  <2>1. PICK r : r = accountCall'[d]
    OBVIOUS
  <2>2. Removable(r, k)'
    BY <1>15, <1>17, <2>1
  <2> QED
    BY <2>1, <2>2 DEF Removable
<1>21. CallsOK'
  BY <1>18, <1>19, <1>20 DEF CallsOK
<1> QED
  BY <1>11, <1>21

LEMMA EvidenceStep == ASSUME AccountInv, NEW c \in AccountCalls, UploadEvidence(c) PROVE AccountInv'
<1>1. AccountsTyped /\ CallTyped(accountCall[c])
  BY DEF AccountInv, AccountsTyped
<1>2. CASE /\ accountCall[c].pc = "evidence" /\ Upload(c, [pc |-> "record", key |-> issued + 1])
           /\ UNCHANGED <<account, ParcelVars, evidenceDocs, byHand, accountCalls>>
  <2>1. PICK rec : rec = [pc |-> "record", key |-> issued + 1]
    OBVIOUS
  <2>2. rec.pc = "record" /\ rec.key = issued + 1
    BY <2>1
  <2>3. issued + 1 \in Keys
    BY <1>1, <1>2, AccountAssumption DEF AccountsTyped, Upload, Keys
  <2>4. CallTyped(rec) /\ PendingOf(rec) = {issued + 1} /\ StaleOf(rec) = {}
    BY <2>2, <2>3 DEF CallTyped, UserPcs, PendingOf, StaleOf
  <2> QED
    BY <1>2, <2>1, <2>2, <2>4, UploadMove
<1>3. CASE /\ accountCall[c].pc = "record" /\ evidenceDocs' = evidenceDocs \cup {accountCall[c].key}
           /\ AccountGoes(c, NoAccountCall) /\ UNCHANGED <<account, ParcelVars, storage, issued, byHand, accountCalls>>
  <2>1. PICK n \in Keys : n = accountCall[c].key
    BY <1>1, <1>3 DEF CallTyped
  <2>2. /\ accountCall'[c] = NoAccountCall /\ \A d \in AccountCalls \ {c} : accountCall'[d] = accountCall[d]
        /\ (accountCall = [d \in AccountCalls |-> accountCall[d]])'
        /\ \A d \in AccountCalls : CallTyped(accountCall[d])'
    BY <1>3, CallGoes, IdleIsQuiet
  <2>3. UNCHANGED <<account, parcels, erased, retired, storage, issued, byHand, accountCalls>> /\ evidenceDocs' = evidenceDocs \cup {n}
    BY <1>3, <2>1 DEF ParcelVars
  <2>4. AccountsTyped'
    BY <1>1, <2>2, <2>3 DEF AccountsTyped
  <2>5. SUFFICES ASSUME ~byHand PROVE DocumentsOK' /\ CallsOK'
    BY <2>3, <2>4 DEF AccountInv
  <2>6. DocumentsOK /\ CallsOK /\ n \in PendingOf(accountCall[c])
    BY <1>3, <2>1, <2>5 DEF AccountInv, PendingOf
  <2>7. Unseen(n) /\ \A d \in AccountCalls : n \notin StaleOf(accountCall[d]) /\ (n \in PendingOf(accountCall[d]) => c = d)
    BY <2>6 DEF CallsOK
  <2>8. DocumentsOK'
    BY <2>3, <2>6, <2>7 DEF DocumentsOK, Unseen
  <2>9. ASSUME NEW d \in AccountCalls PROVE /\ PendingOf(accountCall'[d]) \subseteq PendingOf(accountCall[d]) \ {n}
                                            /\ StaleOf(accountCall'[d]) \subseteq StaleOf(accountCall[d]) \ {n}
    BY <2>2, <2>7, IdleIsQuiet
  <2>10. \A d \in AccountCalls : \A k \in PendingOf(accountCall'[d]) : Unseen(k)'
    BY <2>3, <2>6, <2>9 DEF CallsOK, Unseen
  <2>11. \A d \in AccountCalls : \A k \in StaleOf(accountCall'[d]) : Removable(accountCall[d], k)'
    <3>1. SUFFICES ASSUME NEW d \in AccountCalls, NEW k \in StaleOf(accountCall'[d]) PROVE Removable(accountCall[d], k)'
      OBVIOUS
    <3>2. d # c /\ accountCall'[d] = accountCall[d] /\ k # n /\ Removable(accountCall[d], k)
      BY <2>2, <2>6, <2>9, IdleIsQuiet DEF CallsOK
    <3> QED
      BY <2>3, <3>2 DEF Removable
  <2> QED
    BY <2>6, <2>8, <2>9, <2>10, <2>11 DEF CallsOK
<1> QED
  BY <1>2, <1>3 DEF UploadEvidence, AccountAt

LEMMA PictureStep == ASSUME AccountInv, NEW c \in AccountCalls, UploadProfilePicture(c) PROVE AccountInv'
<1>1. AccountsTyped /\ CallTyped(accountCall[c])
  BY DEF AccountInv, AccountsTyped
<1>2. CASE /\ accountCall[c].pc = "picture"
           /\ Upload(c, [pc |-> "savePicture", user |-> accountCall[c].user, old |-> accountCall[c].old, key |-> issued + 1])
           /\ UNCHANGED <<account, ParcelVars, evidenceDocs, byHand, accountCalls>>
  <2>1. PICK rec : rec = [pc |-> "savePicture", user |-> accountCall[c].user, old |-> accountCall[c].old, key |-> issued + 1]
    OBVIOUS
  <2>2. rec.pc = "savePicture" /\ rec.user = accountCall[c].user /\ rec.old = accountCall[c].old /\ rec.key = issued + 1
    BY <2>1
  <2>3. issued + 1 \in Keys
    BY <1>1, <1>2, AccountAssumption DEF AccountsTyped, Upload, Keys
  <2>4. CallTyped(rec)
    BY <1>1, <1>2, <2>2, <2>3 DEF CallTyped, UserPcs
  <2>5. PendingOf(rec) = {issued + 1} /\ StaleOf(rec) = StaleOf(accountCall[c])
    BY <1>2, <2>2 DEF PendingOf, StaleOf
  <2> QED
    BY <1>2, <2>1, <2>2, <2>4, <2>5, UploadMove
<1>3. CASE /\ accountCall[c].pc = "savePicture"
           /\ account' = [account EXCEPT ![accountCall[c].user].picture = accountCall[c].key]
           /\ AccountGoes(c, Removing(accountCall[c].old, NoAccountCall))
           /\ UNCHANGED <<ParcelVars, FileVars, byHand, accountCalls>>
  <2>1. PICK u \in Users, n \in Keys, old \in Keys \cup {NoKey} :
          u = accountCall[c].user /\ n = accountCall[c].key /\ old = accountCall[c].old
    BY <1>1, <1>3 DEF CallTyped, UserPcs
  <2>2. PICK new : new = [account[u] EXCEPT !.picture = n]
    OBVIOUS
  <2>3. account \in [Users -> Account] /\ account[u] \in Account
    BY <1>1 DEF AccountsTyped
  <2>4. new \in Account /\ new.picture = n
    BY <2>2, <2>3 DEF Account
  <2>5. account' = [account EXCEPT ![u] = new]
    BY <1>3, <2>1, <2>2, <2>3
  <2>6. account' \in [Users -> Account] /\ account'[u].picture = n /\ \A v \in Users \ {u} : account'[v] = account[v]
    BY <2>3, <2>4, <2>5
  <2>7. PICK rec : rec = Removing(old, NoAccountCall)
    OBVIOUS
  <2>8. CallTyped(rec) /\ PendingOf(rec) = {} /\ StaleOf(rec) \subseteq {old} \ {NoKey} /\ (StaleOf(rec) # {} => rec.pc = "removeFile")
    <3>1. CASE old = NoKey
      BY <2>7, <3>1, IdleIsQuiet DEF Removing
    <3>2. CASE old # NoKey
      <4>1. rec = [pc |-> "removeFile", key |-> old, then |-> NoAccountCall]
        BY <2>7, <3>2 DEF Removing
      <4>2. rec.pc = "removeFile" /\ rec.key = old /\ rec.then = NoAccountCall
        BY <4>1
      <4> QED
        BY <2>1, <3>2, <4>2 DEF CallTyped, UserPcs, ThenOK, PendingOf, StaleOf
    <3> QED
      BY <3>1, <3>2
  <2>9. /\ accountCall'[c] = rec /\ \A d \in AccountCalls \ {c} : accountCall'[d] = accountCall[d]
        /\ (accountCall = [d \in AccountCalls |-> accountCall[d]])'
        /\ \A d \in AccountCalls : CallTyped(accountCall[d])'
    BY <1>3, <2>1, <2>7, <2>8, CallGoes
  <2>10. UNCHANGED <<parcels, erased, retired, storage, issued, evidenceDocs, byHand, accountCalls>>
    BY <1>3 DEF ParcelVars, FileVars
  <2>11. AccountsTyped'
    BY <1>1, <2>6, <2>9, <2>10 DEF AccountsTyped
  <2>12. SUFFICES ASSUME ~byHand PROVE DocumentsOK' /\ CallsOK'
    BY <2>10, <2>11 DEF AccountInv
  <2>13. DocumentsOK /\ CallsOK /\ n \in PendingOf(accountCall[c]) /\ {old} \ {NoKey} \subseteq StaleOf(accountCall[c])
    BY <1>3, <2>1, <2>12 DEF AccountInv, PendingOf, StaleOf
  <2>14. Unseen(n) /\ \A d \in AccountCalls : n \notin StaleOf(accountCall[d]) /\ (n \in PendingOf(accountCall[d]) => c = d)
    BY <2>13 DEF CallsOK
  <2>15. DocumentsOK'
    BY <2>6, <2>10, <2>13, <2>14 DEF DocumentsOK, Unseen
  <2>16. ASSUME NEW d \in AccountCalls PROVE /\ PendingOf(accountCall'[d]) \subseteq PendingOf(accountCall[d]) \ {n}
                                             /\ StaleOf(accountCall'[d]) \subseteq StaleOf(accountCall[d]) \ {n}
    BY <2>8, <2>9, <2>13, <2>14
  <2>17. \A d \in AccountCalls : \A k \in PendingOf(accountCall'[d]) : Unseen(k)'
    BY <2>6, <2>10, <2>13, <2>16 DEF CallsOK, Unseen
  <2>18. \A d \in AccountCalls : \A k \in StaleOf(accountCall'[d]) : Removable(accountCall[d], k)'
    <3>1. SUFFICES ASSUME NEW d \in AccountCalls, NEW k \in StaleOf(accountCall'[d]) PROVE Removable(accountCall[d], k)'
      OBVIOUS
    <3>2. k # n /\ Removable(accountCall[d], k)
      BY <2>13, <2>16 DEF CallsOK
    <3>3. CASE d = c
      <4>1. \A v \in Users : account'[v].picture # k
        BY <1>3, <2>1, <2>6, <3>2, <3>3 DEF Removable
      <4> QED
        BY <2>10, <3>2, <4>1 DEF Removable
    <3>4. CASE d # c
      BY <2>6, <2>9, <2>10, <3>2, <3>4 DEF Removable
    <3> QED
      BY <3>3, <3>4
  <2>19. ASSUME NEW d \in AccountCalls, NEW e \in AccountCalls, NEW k \in PendingOf(accountCall'[d])
         PROVE  k \notin StaleOf(accountCall'[e]) /\ (k \in PendingOf(accountCall'[e]) => d = e)
    BY <2>13, <2>16 DEF CallsOK
  <2> QED
    BY <2>15, <2>17, <2>18, <2>19 DEF CallsOK
<1> QED
  BY <1>2, <1>3 DEF UploadProfilePicture, AccountAt

LEMMA ClearStep == ASSUME AccountInv, NEW c \in AccountCalls, ClearPicture(c) PROVE AccountInv'
<1>1. AccountsTyped /\ CallTyped(accountCall[c])
  BY DEF AccountInv, AccountsTyped
<1>2. /\ accountCall[c].pc = "clearPicture" /\ account' = [account EXCEPT ![accountCall[c].user].picture = NoKey]
      /\ AccountGoes(c, Removing(accountCall[c].key, accountCall[c].then))
      /\ UNCHANGED <<parcels, erased, retired, storage, issued, evidenceDocs, byHand, accountCalls>>
  BY DEF ClearPicture, ClearThenRemove, AccountAt, ParcelVars
<1>3. PICK u \in Users, n \in Keys : u = accountCall[c].user /\ n = accountCall[c].key
  BY <1>1, <1>2 DEF CallTyped, UserPcs
<1>4. ThenOK(accountCall[c].then) /\ n # NoKey
  BY <1>1, <1>2 DEF CallTyped, Keys, NoKey
<1>5. PICK new : new = [account[u] EXCEPT !.picture = NoKey]
  OBVIOUS
<1>6. account \in [Users -> Account] /\ account[u] \in Account
  BY <1>1 DEF AccountsTyped
<1>7. new \in Account /\ new.picture = NoKey
  BY <1>5, <1>6 DEF Account
<1>8. account' = [account EXCEPT ![u] = new]
  BY <1>2, <1>3, <1>5, <1>6
<1>9. account' \in [Users -> Account] /\ account'[u].picture = NoKey /\ \A v \in Users \ {u} : account'[v] = account[v]
  BY <1>6, <1>7, <1>8
<1>10. PICK rec : rec = [pc |-> "removeFile", key |-> n, then |-> accountCall[c].then]
  OBVIOUS
<1>11. rec.pc = "removeFile" /\ rec.key = n /\ rec.then = accountCall[c].then
  BY <1>10
<1>12. CallTyped(rec) /\ PendingOf(rec) = {} /\ StaleOf(rec) = {n}
  BY <1>4, <1>11 DEF CallTyped, UserPcs, PendingOf, StaleOf
<1>13. AccountGoes(c, rec)
  BY <1>2, <1>3, <1>4, <1>10 DEF Removing
<1>14. /\ accountCall'[c] = rec /\ \A d \in AccountCalls \ {c} : accountCall'[d] = accountCall[d]
       /\ (accountCall = [d \in AccountCalls |-> accountCall[d]])'
       /\ \A d \in AccountCalls : CallTyped(accountCall[d])'
  BY <1>12, <1>13, CallGoes
<1>15. AccountsTyped'
  BY <1>1, <1>2, <1>9, <1>14 DEF AccountsTyped
<1>16. SUFFICES ASSUME ~byHand PROVE DocumentsOK' /\ CallsOK'
  BY <1>2, <1>15 DEF AccountInv
<1>17. DocumentsOK /\ CallsOK /\ n \in StaleOf(accountCall[c])
  BY <1>2, <1>3, <1>4, <1>16 DEF AccountInv, StaleOf
<1>18. DocumentsOK'
  <2>1. NoKey \notin evidenceDocs
    BY <1>1 DEF AccountsTyped, Keys, NoKey
  <2>2. \A v \in Users : account'[v].picture \in {account[v].picture, NoKey}
    BY <1>9
  <2> QED
    BY <1>2, <1>17, <2>1, <2>2 DEF DocumentsOK
<1>19. ASSUME NEW d \in AccountCalls PROVE PendingOf(accountCall'[d]) \subseteq PendingOf(accountCall[d])
                                           /\ StaleOf(accountCall'[d]) \subseteq StaleOf(accountCall[d])
  BY <1>12, <1>14, <1>17
<1>20. \A d \in AccountCalls : \A k \in PendingOf(accountCall'[d]) : Unseen(k)'
  <2>1. SUFFICES ASSUME NEW d \in AccountCalls, NEW k \in PendingOf(accountCall'[d]) PROVE Unseen(k)'
    OBVIOUS
  <2>2. Unseen(k) /\ k \in Keys
    BY <1>15, <1>17, <1>19 DEF CallsOK, PendingOf, AccountsTyped, CallTyped
  <2>3. k # NoKey
    BY <2>2 DEF Keys, NoKey
  <2> QED
    BY <1>2, <1>9, <2>2, <2>3 DEF Unseen
<1>21. \A d \in AccountCalls : \A k \in StaleOf(accountCall'[d]) : Removable(accountCall[d], k)'
  <2>1. SUFFICES ASSUME NEW d \in AccountCalls, NEW k \in StaleOf(accountCall'[d]) PROVE Removable(accountCall[d], k)'
    OBVIOUS
  <2>2. Removable(accountCall[d], k) /\ k # NoKey
    BY <1>17, <1>19 DEF CallsOK, StaleOf
  <2>3. CASE d = c
    <3>1. \A v \in Users : account'[v].picture # k
      BY <1>3, <1>9, <2>2, <2>3 DEF Removable
    <3> QED
      BY <1>2, <2>2, <3>1 DEF Removable
  <2>4. CASE d # c
    BY <1>2, <1>9, <1>14, <2>2, <2>4 DEF Removable
  <2> QED
    BY <2>3, <2>4
<1> QED
  BY <1>17, <1>18, <1>19, <1>20, <1>21 DEF CallsOK

LEMMA RemoveStep == ASSUME AccountInv, NEW c \in AccountCalls, RemoveStoredFile(c) PROVE AccountInv'
<1>1. AccountsTyped /\ CallTyped(accountCall[c])
  BY DEF AccountInv, AccountsTyped
<1>2. /\ accountCall[c].pc = "removeFile" /\ storage' \in {storage, storage \ {accountCall[c].key}} /\ AccountGoes(c, accountCall[c].then)
      /\ UNCHANGED <<account, parcels, erased, retired, issued, evidenceDocs, byHand, accountCalls>>
  BY DEF RemoveStoredFile, AccountAt, ParcelVars
<1>3. PICK n \in Keys : n = accountCall[c].key
  BY <1>1, <1>2 DEF CallTyped
<1>4. PICK rec : rec = accountCall[c].then
  OBVIOUS
<1>5. ThenOK(rec) /\ n # NoKey
  BY <1>1, <1>2, <1>4 DEF CallTyped, Keys, NoKey
<1>6. CallTyped(rec) /\ PendingOf(rec) = {} /\ StaleOf(rec) = {}
  <2>1. CASE rec = NoAccountCall
    BY <2>1, IdleIsQuiet
  <2>2. ASSUME NEW u \in Users, rec = [pc |-> "delete", user |-> u] PROVE CallTyped(rec) /\ PendingOf(rec) = {} /\ StaleOf(rec) = {}
    BY <2>2 DEF CallTyped, UserPcs, PendingOf, StaleOf
  <2> QED
    BY <1>5, <2>1, <2>2 DEF ThenOK
<1>7. /\ accountCall'[c] = rec /\ \A d \in AccountCalls \ {c} : accountCall'[d] = accountCall[d]
      /\ (accountCall = [d \in AccountCalls |-> accountCall[d]])'
      /\ \A d \in AccountCalls : CallTyped(accountCall[d])'
  BY <1>2, <1>4, <1>6, CallGoes
<1>8. AccountsTyped'
  BY <1>1, <1>2, <1>7 DEF AccountsTyped
<1>9. SUFFICES ASSUME ~byHand PROVE DocumentsOK' /\ CallsOK'
  BY <1>2, <1>8 DEF AccountInv
<1>10. DocumentsOK /\ CallsOK /\ n \in StaleOf(accountCall[c])
  BY <1>2, <1>3, <1>5, <1>9 DEF AccountInv, StaleOf
<1>11. n \notin evidenceDocs /\ \A v \in Users : account[v].picture # n
  BY <1>2, <1>10 DEF CallsOK, Removable
<1>12. DocumentsOK'
  BY <1>2, <1>3, <1>10, <1>11 DEF DocumentsOK
<1>13. ASSUME NEW d \in AccountCalls PROVE PendingOf(accountCall'[d]) \subseteq PendingOf(accountCall[d])
                                           /\ StaleOf(accountCall'[d]) \subseteq StaleOf(accountCall[d])
  BY <1>6, <1>7
<1>14. \A d \in AccountCalls : \A k \in PendingOf(accountCall'[d]) : Unseen(k)'
  <2>1. SUFFICES ASSUME NEW d \in AccountCalls, NEW k \in PendingOf(accountCall'[d]) PROVE Unseen(k)'
    OBVIOUS
  <2>2. Unseen(k) /\ k # n
    BY <1>10, <1>13 DEF CallsOK
  <2> QED
    BY <1>2, <1>3, <2>2 DEF Unseen
<1>15. \A d \in AccountCalls : \A k \in StaleOf(accountCall'[d]) : Removable(accountCall[d], k)'
  <2>1. SUFFICES ASSUME NEW d \in AccountCalls, NEW k \in StaleOf(accountCall'[d]) PROVE Removable(accountCall[d], k)'
    OBVIOUS
  <2>2. d # c /\ accountCall'[d] = accountCall[d] /\ Removable(accountCall[d], k)
    BY <1>6, <1>7, <1>10, <1>13 DEF CallsOK
  <2> QED
    BY <1>2, <2>2 DEF Removable
<1> QED
  BY <1>10, <1>12, <1>13, <1>14, <1>15 DEF CallsOK

LEMMA FailStep == ASSUME AccountInv, NEW c \in AccountCalls, AccountCallFails(c) PROVE AccountInv'
<1>1. /\ account \in [Users -> Account] /\ parcels \in [Users -> SUBSET Parcels] /\ erased \subseteq Parcels
      /\ retired \subseteq Users /\ accountCalls \in 0..MaxAccountCalls
  BY DEF AccountInv, AccountsTyped
<1>2. /\ AccountGoes(c, NoAccountCall)
      /\ UNCHANGED <<account, parcels, erased, retired, storage, issued, evidenceDocs, byHand, accountCalls>>
  BY DEF AccountCallFails, ParcelVars, FileVars
<1> QED
  BY <1>1, <1>2, IdleIsQuiet, QuietMove

LEMMA UpdateStep == ASSUME AccountInv, UpdateUser PROVE AccountInv'
<1>1. AccountsTyped /\ account \in [Users -> Account]
  BY DEF AccountInv, AccountsTyped
<1>2. PICK u \in Users : AllowedWrite(u) /\ accountCalls < MaxAccountCalls /\ accountCalls' = accountCalls + 1
                         /\ UNCHANGED <<parcels, erased, retired, storage, issued, evidenceDocs, accountCall>>
  BY DEF UpdateUser, ParcelVars, FileVars
<1>3. accountCalls' \in 0..MaxAccountCalls
  BY <1>1, <1>2, AccountAssumption DEF AccountsTyped
<1>4. account[u] \in Account
  BY <1>1
<1>5. ASSUME NEW r \in {"user", "admin"}, account' = [account EXCEPT ![u].role = r], UNCHANGED byHand
      PROVE  AccountInv'
  <2>1. PICK new : new = [account[u] EXCEPT !.role = r]
    OBVIOUS
  <2>2. new \in Account /\ new.picture = account[u].picture
    BY <1>4, <2>1 DEF Account
  <2>3. account' = [account EXCEPT ![u] = new]
    BY <1>1, <1>5, <2>1
  <2>4. account' \in [Users -> Account] /\ \A v \in Users : account'[v].picture = account[v].picture
    BY <1>1, <2>2, <2>3
  <2>5. AccountsTyped'
    BY <1>1, <1>2, <1>3, <1>5, <2>4 DEF AccountsTyped
  <2>6. ~byHand => DocumentsOK' /\ CallsOK'
    BY <1>2, <2>4 DEF AccountInv, DocumentsOK, CallsOK, Unseen, Removable
  <2> QED
    BY <1>5, <2>5, <2>6 DEF AccountInv
<1>6. ASSUME NEW k \in Keys, account' = [account EXCEPT ![u].picture = k], byHand' = TRUE
      PROVE  AccountInv'
  <2>1. PICK new : new = [account[u] EXCEPT !.picture = k]
    OBVIOUS
  <2>2. new \in Account
    BY <1>4, <2>1 DEF Account
  <2>3. account' = [account EXCEPT ![u] = new]
    BY <1>1, <1>6, <2>1
  <2>4. account' \in [Users -> Account]
    BY <1>1, <2>2, <2>3
  <2>5. AccountsTyped'
    BY <1>1, <1>2, <1>3, <1>6, <2>4 DEF AccountsTyped
  <2> QED
    BY <1>6, <2>5 DEF AccountInv
<1> QED
  BY <1>2, <1>5, <1>6 DEF AllowedWrite

LEMMA ParcelStep == ASSUME AccountInv, ParcelAppears PROVE AccountInv'
<1>1. PICK u \in Users, y \in Parcels : parcels' = [parcels EXCEPT ![u] = @ \cup {y}]
  BY DEF ParcelAppears
<1>2. parcels' \in [Users -> SUBSET Parcels]
  BY <1>1 DEF AccountInv, AccountsTyped
<1>3. UNCHANGED <<account, erased, retired, storage, issued, evidenceDocs, byHand, accountCall, accountCalls>>
  BY DEF ParcelAppears, FileVars
<1>4. AccountsTyped'
  BY <1>2, <1>3 DEF AccountInv, AccountsTyped
<1>5. ~byHand => DocumentsOK' /\ CallsOK'
  BY <1>3 DEF AccountInv, DocumentsOK, CallsOK, Unseen, Removable
<1> QED
  BY <1>3, <1>4, <1>5 DEF AccountInv

LEMMA AccountInductive == ASSUME AccountInv, [AccountStep]_accountVars PROVE AccountInv'
<1>1. CASE AccountStep
  BY <1>1, RegisterStep, WalletStep, SuspendStep, RestoreStep, RequestSteps, SoftDeleteStep, EvidenceStep, PictureStep,
     ClearStep, RemoveStep, FailStep, UpdateStep, ParcelStep DEF AccountStep
<1>2. CASE UNCHANGED accountVars
  BY <1>2 DEF accountVars, AccountInv, AccountsTyped, DocumentsOK, CallsOK, Unseen, Removable
<1> QED
  BY <1>1, <1>2

\* profilePicture.service.ts, userService.ts and evidenceService.ts, for any number of users, requests and
\* files: as long as no administrator writes a key by hand, no document names a file that is not
\* stored, wherever a request failed and however uploads and deletions of one picture interleave.
THEOREM DocumentsHaveFiles == Spec => []KeysHaveFiles
<1>1. Init => AccountInv
  BY AccountStart DEF Init
<1>2. AccountInv /\ [Next]_serviceVars => AccountInv'
  BY OthersRestAccounts, AccountInductive
<1>3. AccountInv => KeysHaveFiles
  BY KeysAreSound
<1> QED
  BY <1>1, <1>2, <1>3, PTL DEF Spec

-----------------------------------------------------------------------------
(* The assignment of drivers *)

HoldingPcs == {"load", "escrow", "save", "release"}

\* A call that has claimed a driver holds it, or was told one, and knows its delivery.
JobOK(w, r) ==
    /\ IF r.pc \in HoldingPcs THEN r.driver \in Drivers ELSE r.driver = NoDriver
    /\ r.pc \in {"read", "escrow", "save"} => r.delivery \in Loads
    /\ w # Pooler /\ r.pc \in {"search", "claim", "load"} => r.delivery \in Loads
    /\ w \in Admins => r.todo = {} /\ r.pc \in {"idle", "next", "load", "escrow", "save"}

\* A driver that is available is in nobody's hands, and no driver is in the hands of two.
HeldOnce(d) ==
    d \notin reported \cup pooled \cup direct =>
        /\ loc[d].isAvailable => \A w \in Workers : ~Holds(w, d)
        /\ loc[d].isAvailable => \A x \in Loads \ edited : ~Serves(d, x)
        /\ \A v, w \in Workers : Holds(v, d) /\ Holds(w, d) => v = w
        /\ \A x, y \in Loads \ edited : Serves(d, x) /\ Serves(d, y) => x = y
        /\ \A w \in Workers, x \in Loads \ edited : ~(Holds(w, d) /\ Serves(d, x))

\* A driver that is on a delivery has one, or a caller has the driver, or the race is on record.
NotForgotten(d) ==
    loc[d].status = "on_delivery" =>
        (\E w \in Workers : Holds(w, d)) \/ (\E x \in Loads : del[x].driver = d) \/ d \in replaced \cup unfreed \cup orphaned

SpentDoc == [calls: 0..MaxCalls, turns: 0..MaxTurns]

DispatchInv ==
    /\ DispatchTypeOK
    /\ \A w \in Workers : JobOK(w, job[w])
    /\ \A d \in Drivers : HeldOnce(d) /\ NotForgotten(d) /\ (~loc[d].here => loc[d].status = "offline")

LEMMA OthersRestDispatch == [Next]_serviceVars => [DispatchStep]_dispatchVars
BY DEF Next, Play, serviceVars

LEMMA IdleJob == NoJob \in JobRec /\ NoJob.pc = "idle" /\ NoJob.driver = NoDriver /\ \A w \in Workers : JobOK(w, NoJob)
<1>1. NoJob.pc = "idle" /\ NoJob.driver = NoDriver /\ NoJob.todo = {}
  BY DEF NoJob
<1>2. NoJob \in JobRec
  BY DispatchAssumption DEF NoJob, JobRec
<1> QED
  BY <1>1, <1>2 DEF JobOK, HoldingPcs

LEMMA DispatchStart == DispatchInit => DispatchInv
<1> SUFFICES ASSUME DispatchInit PROVE DispatchInv
  OBVIOUS
<1>1. PICK funded \in SUBSET Loads :
        /\ locked = [x \in Loads |-> x \in funded]
        /\ del = [x \in Loads |-> [status |-> IF x \in funded THEN "funded" ELSE "pending", driver |-> NoDriver]]
  BY DEF DispatchInit
<1>2. del \in [Loads -> DeliveryDoc] /\ \A x \in Loads : del[x].driver = NoDriver
  BY <1>1 DEF DeliveryDoc, DeliveryStatuses
<1>3. locked \in [Loads -> BOOLEAN]
  BY <1>1
<1>4. loc \in [Drivers -> LocDoc] /\ \A d \in Drivers : loc[d].status = "online" /\ loc[d].here
  BY DEF DispatchInit, LocDoc
<1>5. job \in [Workers -> JobRec] /\ \A w \in Workers : job[w] = NoJob
  BY IdleJob DEF DispatchInit
<1>6. spent \in SpentDoc
  BY DispatchAssumption DEF DispatchInit, SpentDoc
<1>7. lease \in [Loads -> Workers \cup {Free}]
  BY DEF DispatchInit
<1>8. reported = {} /\ replaced = {} /\ pooled = {} /\ direct = {} /\ unfreed = {} /\ orphaned = {} /\ edited = {}
  BY DEF DispatchInit
<1>9. DispatchTypeOK
  BY <1>2, <1>3, <1>4, <1>5, <1>6, <1>7, <1>8 DEF DispatchTypeOK, SpentDoc
<1>10. ASSUME NEW d \in Drivers PROVE HeldOnce(d) /\ NotForgotten(d)
  <2>1. \A w \in Workers : ~Holds(w, d)
    BY <1>5, IdleJob, DispatchAssumption DEF Holds
  <2>2. \A x \in Loads : ~Serves(d, x)
    BY <1>2, DispatchAssumption DEF Serves
  <2> QED
    BY <1>4, <2>1, <2>2 DEF HeldOnce, NotForgotten
<1> QED
  BY <1>4, <1>5, <1>9, <1>10, IdleJob DEF DispatchInv

LEMMA DispatchIsSound == DispatchInv => OneDeliveryPerDriver /\ StrandedOnlyByRace
BY DEF DispatchInv, HeldOnce, NotForgotten, Holds, OneDeliveryPerDriver, StrandedOnlyByRace, Stranded

\* A caller goes on, without taking a driver or letting one go.
LEMMA JobMoves ==
    ASSUME DispatchInv, NEW w \in Workers, NEW rec \in JobRec, JobGoes(w, rec), JobOK(w, rec),
           rec.driver = job[w].driver \/ w \in Admins,
           lease' \in [Loads -> Workers \cup {Free}], spent' \in SpentDoc,
           UNCHANGED <<loc, del, locked, Ghosts>>
    PROVE  DispatchInv'
<1>1. job \in [Workers -> JobRec]
  BY DEF DispatchInv, DispatchTypeOK
<1>2. job' \in [Workers -> JobRec] /\ job'[w] = rec /\ \A v \in Workers \ {w} : job'[v] = job[v]
  BY <1>1 DEF JobGoes
<1>3. \A v \in Workers, d \in Drivers : Holds(v, d)' <=> Holds(v, d)
  BY <1>2 DEF Holds
<1>4. UNCHANGED <<loc, del, locked, reported, replaced, pooled, direct, unfreed, orphaned, edited>>
  BY DEF Ghosts
<1>5. DispatchTypeOK'
  BY <1>2, <1>4 DEF DispatchInv, DispatchTypeOK, SpentDoc
<1>6. \A v \in Workers : JobOK(v, job'[v])
  BY <1>2 DEF DispatchInv
<1>7. ASSUME NEW d \in Drivers PROVE HeldOnce(d)' /\ NotForgotten(d)' /\ (~loc[d].here => loc[d].status = "offline")'
  <2>1. HeldOnce(d) /\ NotForgotten(d) /\ (~loc[d].here => loc[d].status = "offline")
    BY DEF DispatchInv
  <2>2. HeldOnce(d)'
    BY <1>3, <1>4, <2>1 DEF HeldOnce, Serves
  <2>3. NotForgotten(d)'
    BY <1>3, <1>4, <2>1 DEF NotForgotten
  <2> QED
    BY <1>4, <2>1, <2>2, <2>3
<1> QED
  BY <1>5, <1>6, <1>7 DEF DispatchInv, JobOK

LEMMA TurnIsTyped == ASSUME DispatchInv, Turn PROVE spent' \in SpentDoc
<1>1. spent \in SpentDoc /\ spent.turns < MaxTurns
  BY DEF DispatchInv, DispatchTypeOK, SpentDoc, Turn
<1>2. PICK n : n = spent.turns + 1
  OBVIOUS
<1>3. n \in 0..MaxTurns
  BY <1>1, <1>2, DispatchAssumption DEF SpentDoc
<1>4. spent' = [spent EXCEPT !.turns = n]
  BY <1>2 DEF Turn
<1> QED
  BY <1>1, <1>3, <1>4 DEF SpentDoc

LEMMA CallIsTyped == ASSUME DispatchInv, NEW w, Starts(w) PROVE spent' \in SpentDoc
<1>1. spent \in SpentDoc /\ spent.calls < MaxCalls
  BY DEF DispatchInv, DispatchTypeOK, SpentDoc, Starts
<1>2. PICK n : n = spent.calls + 1
  OBVIOUS
<1>3. n \in 0..MaxCalls
  BY <1>1, <1>2, DispatchAssumption DEF SpentDoc
<1>4. spent' = [spent EXCEPT !.calls = n]
  BY <1>2 DEF Starts
<1> QED
  BY <1>1, <1>3, <1>4 DEF SpentDoc

\* What drivers and customers do meanwhile.
LEMMA TurnSteps ==
    ASSUME DispatchInv,
           \/ \E d \in Drivers : UpsertDriverLocation(d) \/ LocationExpires(d)
           \/ \E x \in Loads : DeliveryGoes(x) \/ DeliveryIsEdited(x) \/ EscrowLeavesLocked(x) \/ LeaseLapses(x)
    PROVE  DispatchInv'
<1>1. DispatchTypeOK /\ \A w \in Workers : JobOK(w, job[w])
  BY DEF DispatchInv
<1>2. Turn
  BY DEF UpsertDriverLocation, LocationExpires, DeliveryGoes, DeliveryIsEdited, EscrowLeavesLocked, LeaseLapses
<1>3. spent' \in SpentDoc
  BY <1>2, TurnIsTyped
<1>4. ASSUME NEW d \in Drivers, UpsertDriverLocation(d) PROVE DispatchInv'
  <2>1. PICK available \in BOOLEAN :
          /\ loc' = [loc EXCEPT ![d] = [here |-> TRUE, isAvailable |-> available, status |-> IF available THEN "online" ELSE "offline"]]
          /\ reported' = IF available /\ Busy(d) THEN reported \cup {d} ELSE reported
    BY <1>4 DEF UpsertDriverLocation
  <2>2. UNCHANGED <<del, locked, lease, job, replaced, pooled, direct, unfreed, orphaned, edited>>
    BY <1>4 DEF UpsertDriverLocation
  <2>3. PICK new : new = [here |-> TRUE, isAvailable |-> available, status |-> IF available THEN "online" ELSE "offline"]
    OBVIOUS
  <2>4. new \in LocDoc /\ new.here /\ new.isAvailable = available /\ new.status # "on_delivery"
    BY <2>3 DEF LocDoc
  <2>5. loc' \in [Drivers -> LocDoc] /\ loc'[d] = new /\ \A e \in Drivers \ {d} : loc'[e] = loc[e]
    BY <1>1, <2>1, <2>3, <2>4 DEF DispatchTypeOK
  <2>6. reported \subseteq reported' /\ reported' \subseteq Drivers /\ (available /\ Busy(d) => d \in reported')
    BY <1>1, <2>1 DEF DispatchTypeOK
  <2>7. DispatchTypeOK'
    BY <1>1, <1>3, <2>2, <2>5, <2>6 DEF DispatchTypeOK, SpentDoc
  <2>8. ASSUME NEW e \in Drivers PROVE HeldOnce(e)' /\ NotForgotten(e)' /\ (~loc[e].here => loc[e].status = "offline")'
    <3>1. HeldOnce(e) /\ NotForgotten(e) /\ (~loc[e].here => loc[e].status = "offline")
      BY DEF DispatchInv
    <3>2. CASE e = d
      <4>1. HeldOnce(e)'
        BY <2>2, <2>4, <2>5, <2>6, <3>1, <3>2 DEF HeldOnce, Holds, Serves, Busy
      <4> QED
        BY <2>4, <2>5, <3>2, <4>1 DEF NotForgotten
    <3>3. CASE e # d
      <4>1. HeldOnce(e)'
        BY <2>2, <2>5, <2>6, <3>1, <3>3 DEF HeldOnce, Holds, Serves
      <4>2. NotForgotten(e)'
        BY <2>2, <2>5, <3>1, <3>3 DEF NotForgotten, Holds
      <4> QED
        BY <2>5, <3>1, <3>3, <4>1, <4>2
    <3> QED
      BY <3>2, <3>3
  <2> QED
    BY <1>1, <2>2, <2>7, <2>8 DEF DispatchInv, JobOK
<1>5. ASSUME NEW d \in Drivers, LocationExpires(d) PROVE DispatchInv'
  <2>1. /\ loc' = [loc EXCEPT ![d] = [here |-> FALSE, isAvailable |-> FALSE, status |-> "offline"]]
        /\ UNCHANGED <<del, locked, lease, job, reported, replaced, pooled, direct, unfreed, orphaned, edited>>
    BY <1>5 DEF LocationExpires, Ghosts
  <2>2. PICK new : new = [here |-> FALSE, isAvailable |-> FALSE, status |-> "offline"]
    OBVIOUS
  <2>3. new \in LocDoc /\ ~new.isAvailable /\ new.status = "offline"
    BY <2>2 DEF LocDoc
  <2>4. loc' \in [Drivers -> LocDoc] /\ loc'[d] = new /\ \A e \in Drivers \ {d} : loc'[e] = loc[e]
    BY <1>1, <2>1, <2>2, <2>3 DEF DispatchTypeOK
  <2>5. DispatchTypeOK'
    BY <1>1, <1>3, <2>1, <2>4 DEF DispatchTypeOK, SpentDoc
  <2>6. ASSUME NEW e \in Drivers PROVE HeldOnce(e)' /\ NotForgotten(e)' /\ (~loc[e].here => loc[e].status = "offline")'
    <3>1. HeldOnce(e) /\ NotForgotten(e) /\ (~loc[e].here => loc[e].status = "offline")
      BY DEF DispatchInv
    <3>2. HeldOnce(e)'
      BY <2>1, <2>3, <2>4, <3>1 DEF HeldOnce, Holds, Serves
    <3>3. NotForgotten(e)'
      BY <2>1, <2>3, <2>4, <3>1 DEF NotForgotten, Holds
    <3> QED
      BY <2>3, <2>4, <3>1, <3>2, <3>3
  <2> QED
    BY <1>1, <2>1, <2>5, <2>6 DEF DispatchInv, JobOK
<1>6. ASSUME NEW x \in Loads, DeliveryGoes(x) \/ DeliveryIsEdited(x) PROVE DispatchInv'
  <2>1. PICK s \in DeliveryStatuses : del' = [del EXCEPT ![x].status = s]
    BY <1>6 DEF DeliveryGoes, DeliveryIsEdited, DeliveryStatuses
  <2>2. UNCHANGED <<loc, locked, lease, job, reported, replaced, pooled, direct, unfreed, orphaned>>
    BY <1>6 DEF DeliveryGoes, DeliveryIsEdited, Ghosts
  <2>3. PICK new : new = [del[x] EXCEPT !.status = s]
    OBVIOUS
  <2>4. del \in [Loads -> DeliveryDoc] /\ del[x] \in DeliveryDoc
    BY <1>1 DEF DispatchTypeOK
  <2>5. new \in DeliveryDoc /\ new.status = s /\ new.driver = del[x].driver
    BY <2>1, <2>3, <2>4 DEF DeliveryDoc
  <2>6. del' = [del EXCEPT ![x] = new]
    BY <2>1, <2>3, <2>4
  <2>7. del' \in [Loads -> DeliveryDoc] /\ del'[x] = new /\ \A y \in Loads \ {x} : del'[y] = del[y]
    BY <2>4, <2>5, <2>6
  <2>8. edited \subseteq edited' /\ edited' \subseteq Loads
    BY <1>1, <1>6 DEF DeliveryGoes, DeliveryIsEdited, Ghosts, DispatchTypeOK
  <2>9. DispatchTypeOK'
    BY <1>1, <1>3, <2>2, <2>7, <2>8 DEF DispatchTypeOK, SpentDoc
  <2>10. x \in edited' \/ (new.status \in {"assigned", "in_progress"} => del[x].status \in {"assigned", "in_progress"})
    <3>1. CASE DeliveryIsEdited(x)
      BY <3>1 DEF DeliveryIsEdited
    <3>2. CASE DeliveryGoes(x)
      <4>1. del[x].status = "assigned" \/ del'[x].status \in {"completed", "cancelled"}
        BY <2>4, <3>2 DEF DeliveryGoes, DeliveryDoc
      <4> QED
        BY <2>7, <4>1
    <3> QED
      BY <1>6, <3>1, <3>2
  <2>11. ASSUME NEW e \in Drivers PROVE HeldOnce(e)' /\ NotForgotten(e)' /\ (~loc[e].here => loc[e].status = "offline")'
    <3>1. HeldOnce(e) /\ NotForgotten(e) /\ (~loc[e].here => loc[e].status = "offline")
      BY DEF DispatchInv
    <3>2. \A y \in Loads \ edited' : Serves(e, y)' => Serves(e, y)
      BY <2>5, <2>7, <2>10 DEF Serves
    <3>3. HeldOnce(e)'
      BY <2>2, <2>8, <3>1, <3>2 DEF HeldOnce, Holds
    <3>4. \A y \in Loads : del'[y].driver = del[y].driver
      BY <2>5, <2>7
    <3>5. NotForgotten(e)'
      BY <2>2, <3>1, <3>4 DEF NotForgotten, Holds
    <3> QED
      BY <2>2, <3>1, <3>3, <3>5
  <2> QED
    BY <1>1, <2>2, <2>9, <2>11 DEF DispatchInv, JobOK
<1>7. ASSUME NEW x \in Loads, EscrowLeavesLocked(x) \/ LeaseLapses(x) PROVE DispatchInv'
  <2>1. UNCHANGED <<loc, del, job, reported, replaced, pooled, direct, unfreed, orphaned, edited>>
    BY <1>7 DEF EscrowLeavesLocked, LeaseLapses, Ghosts
  <2>2. locked' \in [Loads -> BOOLEAN] /\ lease' \in [Loads -> Workers \cup {Free}]
    BY <1>1, <1>7 DEF EscrowLeavesLocked, LeaseLapses, DispatchTypeOK
  <2>3. DispatchTypeOK'
    BY <1>1, <1>3, <2>1, <2>2 DEF DispatchTypeOK, SpentDoc
  <2> QED
    BY <2>1, <2>3 DEF DispatchInv, JobOK, HeldOnce, NotForgotten, Holds, Serves
<1> QED
  BY <1>4, <1>5, <1>6, <1>7

\* What a caller knows of itself.
LEMMA JobKnows ==
    ASSUME DispatchInv, NEW w \in Workers
    PROVE  /\ job[w] \in JobRec /\ JobOK(w, job[w]) /\ job \in [Workers -> JobRec]
           /\ lease \in [Loads -> Workers \cup {Free}] /\ spent \in SpentDoc
           /\ loc \in [Drivers -> LocDoc] /\ del \in [Loads -> DeliveryDoc]
BY DEF DispatchInv, DispatchTypeOK, SpentDoc

\* A caller without a driver that starts, or goes to its next delivery.
LEMMA FreshRec ==
    ASSUME NEW w \in Workers, NEW p \in {"next", "search"}, NEW S \in SUBSET Loads, p = "search" => w = Pooler,
           w \in Admins => S = {}
    PROVE  \E rec \in JobRec : rec = [NoJob EXCEPT !.pc = p, !.todo = S] /\ JobOK(w, rec) /\ rec.driver = NoDriver
<1>0. PICK one : one = [NoJob EXCEPT !.pc = p, !.todo = S]
  OBVIOUS
<1>1. PICK rec : rec = [pc |-> p, todo |-> S, delivery |-> NoDelivery, near |-> {}, step |-> 0, driver |-> NoDriver]
  OBVIOUS
<1>2. 0 \in 0..ExpansionSteps
  BY DispatchAssumption
<1>3. rec.pc = p /\ rec.driver = NoDriver /\ rec.todo = S
  BY <1>1
<1>4. rec \in JobRec
  BY <1>1, <1>2 DEF JobRec
<1>5. rec = [NoJob EXCEPT !.pc = p, !.todo = S]
  <2>1. one = [pc |-> p, todo |-> S, delivery |-> NoDelivery, near |-> {}, step |-> 0, driver |-> NoDriver]
    BY <1>0 DEF NoJob
  <2> QED
    BY <1>0, <1>1, <2>1
<1>6. JobOK(w, rec)
  BY <1>3, DispatchAssumption DEF JobOK, HoldingPcs
<1> QED
  BY <1>3, <1>4, <1>5, <1>6

LEMMA EndedRec ==
    ASSUME DispatchInv, NEW w \in Workers, Ended(w)
    PROVE  \E rec \in JobRec : JobGoes(w, rec) /\ JobOK(w, rec) /\ rec.driver = NoDriver /\ lease' \in [Loads -> Workers \cup {Free}]
<1>1. PICK S \in SUBSET Loads : S = (IF w = Pooler THEN {} ELSE job[w].todo) /\ (w \in Admins => S = {})
  BY JobKnows DEF JobRec, JobOK
<1>2. PICK p \in {"next", "search"} : p = "next"
  OBVIOUS
<1>3. PICK rec \in JobRec : rec = [NoJob EXCEPT !.pc = p, !.todo = S] /\ JobOK(w, rec) /\ rec.driver = NoDriver
  BY <1>1, <1>2, FreshRec
<1>4. JobGoes(w, rec)
  BY <1>1, <1>2, <1>3 DEF Ended
<1>5. lease' \in [Loads -> Workers \cup {Free}]
  BY JobKnows DEF Ended
<1> QED
  BY <1>3, <1>4, <1>5

\* A call ends that holds no driver.
LEMMA EndsEmpty ==
    ASSUME DispatchInv, NEW w \in Workers, Ended(w), job[w].pc \notin HoldingPcs \/ w \in Admins,
           spent' \in SpentDoc, UNCHANGED <<loc, del, locked, Ghosts>>
    PROVE  DispatchInv'
<1>1. PICK rec \in JobRec : JobGoes(w, rec) /\ JobOK(w, rec) /\ rec.driver = NoDriver /\ lease' \in [Loads -> Workers \cup {Free}]
  BY EndedRec
<1>2. job[w].driver = NoDriver \/ w \in Admins
  BY JobKnows DEF JobOK
<1> QED
  BY <1>1, <1>2, JobMoves

LEMMA StartSteps ==
    ASSUME DispatchInv, NEW w \in Workers, RequestNearestDriver(w) \/ RunAutoAssignmentSweep(w) \/ PoolAndAssign(w)
    PROVE  DispatchInv'
<1>1. Starts(w)
  BY DEF RequestNearestDriver, RunAutoAssignmentSweep, PoolAndAssign
<1>2. PICK p \in {"next", "search"}, S \in SUBSET Loads :
        (p = "search" => w = Pooler) /\ w \notin Admins /\ JobGoes(w, [NoJob EXCEPT !.pc = p, !.todo = S])
  <2>1. CASE RequestNearestDriver(w)
    <3>1. PICK x \in Loads : JobGoes(w, [NoJob EXCEPT !.pc = "next", !.todo = {x}])
      BY <2>1 DEF RequestNearestDriver
    <3>2. PICK S \in SUBSET Loads : S = {x}
      OBVIOUS
    <3> QED
      BY <2>1, <3>1, <3>2, DispatchAssumption DEF RequestNearestDriver
  <2>2. CASE RunAutoAssignmentSweep(w)
    <3>1. PICK S \in SUBSET Loads : S = WithoutDriver({"funded"})
      BY DEF WithoutDriver
    <3>2. JobGoes(w, [NoJob EXCEPT !.pc = "next", !.todo = S])
      BY <2>2, <3>1 DEF RunAutoAssignmentSweep, AutoAssignPendingDeliveries
    <3> QED
      BY <2>2, <3>2, DispatchAssumption DEF RunAutoAssignmentSweep
  <2>3. CASE PoolAndAssign(w)
    <3>1. PICK pool \in SUBSET WithoutDriver({"pending", "funded"}) : JobGoes(w, [NoJob EXCEPT !.pc = "search", !.todo = pool])
      BY <2>3 DEF PoolAndAssign
    <3>2. pool \in SUBSET Loads
      BY <3>1 DEF WithoutDriver
    <3> QED
      BY <2>3, <3>1, <3>2, DispatchAssumption DEF PoolAndAssign
  <2> QED
    BY <2>1, <2>2, <2>3
<1>3. PICK rec \in JobRec : rec = [NoJob EXCEPT !.pc = p, !.todo = S] /\ JobOK(w, rec) /\ rec.driver = NoDriver
  BY <1>2, FreshRec
<1>4. JobGoes(w, rec)
  BY <1>2, <1>3
<1>5. job[w].pc = "idle" /\ UNCHANGED <<loc, del, locked, lease, Ghosts>>
  BY <1>1 DEF Starts
<1>6. job[w].driver = NoDriver
  BY <1>5, JobKnows DEF JobOK, HoldingPcs
<1>7. spent' \in SpentDoc /\ lease' \in [Loads -> Workers \cup {Free}]
  BY <1>1, <1>5, CallIsTyped, JobKnows
<1> QED
  BY <1>2, <1>3, <1>4, <1>5, <1>6, <1>7, JobMoves

LEMMA DirectStep == ASSUME DispatchInv, NEW w \in Workers, RequestDriver(w) PROVE DispatchInv'
<1>1. w \in Admins /\ Starts(w)
  BY DEF RequestDriver
<1>2. PICK x \in Loads, d \in Drivers : JobGoes(w, [NoJob EXCEPT !.pc = "load", !.delivery = x, !.driver = d])
  BY DEF RequestDriver
<1>3. PICK rec : rec = [NoJob EXCEPT !.pc = "load", !.delivery = x, !.driver = d]
  OBVIOUS
<1>4. rec = [pc |-> "load", todo |-> {}, delivery |-> x, near |-> {}, step |-> 0, driver |-> d]
  BY <1>3 DEF NoJob
<1>5. rec \in JobRec /\ rec.pc = "load" /\ rec.delivery = x /\ rec.driver = d /\ rec.todo = {}
  BY <1>4, DispatchAssumption DEF JobRec
<1>6. JobOK(w, rec)
  BY <1>5 DEF JobOK, HoldingPcs
<1>7. UNCHANGED <<loc, del, locked, lease, Ghosts>>
  BY <1>1 DEF Starts
<1>8. spent' \in SpentDoc /\ lease' \in [Loads -> Workers \cup {Free}]
  BY <1>1, <1>7, CallIsTyped, JobKnows
<1> QED
  BY <1>1, <1>2, <1>3, <1>5, <1>6, <1>7, <1>8, JobMoves

LEMMA LockStep == ASSUME DispatchInv, NEW w \in Workers, AcquireLock(w) PROVE DispatchInv'
<1>1. job[w].pc = "next" /\ UNCHANGED <<spent, loc, del, locked, Ghosts>>
  BY DEF AcquireLock
<1>2. /\ job[w] \in JobRec /\ JobOK(w, job[w]) /\ lease \in [Loads -> Workers \cup {Free}]
      /\ spent' \in SpentDoc
  BY <1>1, JobKnows
<1>3. job[w].driver = NoDriver /\ job[w].todo \subseteq Loads
  BY <1>1, <1>2 DEF JobOK, HoldingPcs, JobRec
<1>4. PICK x \in job[w].todo :
        \/ /\ lease' = [lease EXCEPT ![x] = w]
           /\ JobGoes(w, [NoJob EXCEPT !.pc = "read", !.delivery = x, !.todo = job[w].todo \ {x}])
        \/ JobGoes(w, [job[w] EXCEPT !.todo = @ \ {x}]) /\ UNCHANGED lease
  BY Zenon DEF AcquireLock
<1> w \notin Admins
  BY <1>2, <1>4 DEF JobOK
<1>5. CASE lease' = [lease EXCEPT ![x] = w] /\ JobGoes(w, [NoJob EXCEPT !.pc = "read", !.delivery = x, !.todo = job[w].todo \ {x}])
  <2>1. PICK S \in SUBSET Loads : S = job[w].todo \ {x}
    BY <1>3
  <2>2. PICK rec : rec = [NoJob EXCEPT !.pc = "read", !.delivery = x, !.todo = S]
    OBVIOUS
  <2>3. rec = [pc |-> "read", todo |-> S, delivery |-> x, near |-> {}, step |-> 0, driver |-> NoDriver]
    BY <2>2 DEF NoJob
  <2>4. rec \in JobRec /\ rec.driver = NoDriver /\ rec.pc = "read" /\ rec.delivery = x
    BY <1>3, <2>3, DispatchAssumption DEF JobRec
  <2>5. JobOK(w, rec)
    BY <1>3, <2>4 DEF JobOK, HoldingPcs
  <2>6. lease' \in [Loads -> Workers \cup {Free}]
    BY <1>2, <1>5
  <2> QED
    BY <1>1, <1>2, <1>3, <1>5, <2>1, <2>2, <2>4, <2>5, <2>6, JobMoves
<1>6. CASE JobGoes(w, [job[w] EXCEPT !.todo = @ \ {x}]) /\ UNCHANGED lease
  <2>1. PICK rec : rec = [job[w] EXCEPT !.todo = @ \ {x}]
    OBVIOUS
  <2>2. rec \in JobRec /\ rec.driver = NoDriver /\ rec.pc = "next"
    BY <1>1, <1>2, <1>3, <2>1 DEF JobRec
  <2>3. JobOK(w, rec)
    BY <1>2, <2>2 DEF JobOK, HoldingPcs
  <2> QED
    BY <1>1, <1>2, <1>3, <1>6, <2>1, <2>2, <2>3, JobMoves
<1> QED
  BY <1>4, <1>5, <1>6

LEMMA FinishStep == ASSUME DispatchInv, NEW w \in Workers, Finish(w) PROVE DispatchInv'
<1>1. job[w].pc = "next" /\ JobGoes(w, NoJob) /\ UNCHANGED <<spent, loc, del, locked, lease, Ghosts>>
  BY DEF Finish
<1>2. /\ lease' \in [Loads -> Workers \cup {Free}] /\ spent' \in SpentDoc
      /\ job[w].driver = NoDriver
  BY <1>1, JobKnows DEF JobOK, HoldingPcs
<1> QED
  BY <1>1, <1>2, IdleJob, JobMoves

\* A caller that moves on with the delivery and the driver it has.
LEMMA PcMoves ==
    ASSUME DispatchInv, NEW w \in Workers, NEW p \in {"search", "save", "release"},
           JobGoes(w, [job[w] EXCEPT !.pc = p]), spent' \in SpentDoc, UNCHANGED <<loc, del, locked, lease, Ghosts>>,
           p = "search" => job[w].pc = "read", p = "save" => job[w].pc = "escrow",
           p = "release" => job[w].pc \in {"load", "escrow", "save"} /\ w \notin Admins
    PROVE  DispatchInv'
<1>1. /\ job[w] \in JobRec /\ JobOK(w, job[w]) /\ lease' \in [Loads -> Workers \cup {Free}]
  BY JobKnows
<1>2. PICK rec : rec = [job[w] EXCEPT !.pc = p]
  OBVIOUS
<1>3. rec \in JobRec /\ rec.pc = p /\ rec.driver = job[w].driver /\ rec.delivery = job[w].delivery /\ rec.todo = job[w].todo
  BY <1>1, <1>2 DEF JobRec
<1>4. JobOK(w, rec)
  BY <1>1, <1>3 DEF JobOK, HoldingPcs
<1> QED
  BY <1>1, <1>2, <1>3, <1>4, JobMoves

\* assignDriver throws, and the call keeps its driver until it is given back.
LEMMA ThrowMoves ==
    ASSUME DispatchInv, NEW w \in Workers, AssignmentThrows(w), job[w].pc \in {"load", "escrow", "save"},
           spent' \in SpentDoc, UNCHANGED <<loc, del, locked, Ghosts>>
    PROVE  DispatchInv'
<1>1. CASE w \in Admins
  BY <1>1, EndsEmpty DEF AssignmentThrows
<1>2. CASE w \notin Admins
  BY <1>2, PcMoves DEF AssignmentThrows
<1> QED
  BY <1>1, <1>2

LEMMA ReadStep == ASSUME DispatchInv, NEW w \in Workers, AssignNearestDriver(w) PROVE DispatchInv'
<1>1. job[w].pc = "read" /\ UNCHANGED <<loc, del, locked, Ghosts>> /\ spent' \in SpentDoc
  BY JobKnows DEF AssignNearestDriver
<1>2. CASE JobGoes(w, [job[w] EXCEPT !.pc = "search"]) /\ UNCHANGED lease
  BY <1>1, <1>2, PcMoves
<1>3. CASE Ended(w)
  BY <1>1, <1>3, EndsEmpty DEF HoldingPcs
<1> QED
  BY <1>2, <1>3, Zenon DEF AssignNearestDriver

LEMMA EscrowReadStep == ASSUME DispatchInv, NEW w \in Workers, EscrowMustBeLocked(w) PROVE DispatchInv'
<1>1. job[w].pc = "escrow" /\ UNCHANGED <<loc, del, locked, Ghosts>> /\ spent' \in SpentDoc
  BY JobKnows DEF EscrowMustBeLocked
<1>2. CASE JobGoes(w, [job[w] EXCEPT !.pc = "save"]) /\ UNCHANGED lease
  BY <1>1, <1>2, PcMoves
<1>3. CASE AssignmentThrows(w)
  BY <1>1, <1>3, ThrowMoves
<1> QED
  BY <1>2, <1>3, Zenon DEF EscrowMustBeLocked

\* Any await of the call throws.
LEMMA FailedAwaitStep == ASSUME DispatchInv, NEW w \in Workers, AwaitFails(w) PROVE DispatchInv'
<1>1. spent' \in SpentDoc /\ UNCHANGED <<loc, del, locked, Ghosts>>
  BY TurnIsTyped DEF AwaitFails
<1>2. CASE job[w].pc \in {"read", "search", "claim"} /\ Ended(w)
  BY <1>1, <1>2, EndsEmpty DEF HoldingPcs
<1>3. CASE job[w].pc \in {"load", "escrow", "save"} /\ AssignmentThrows(w)
  BY <1>1, <1>3, ThrowMoves
<1> QED
  BY <1>2, <1>3 DEF AwaitFails

\* The process dies, and its driver is on record.
LEMMA CallerDeathStep == ASSUME DispatchInv, NEW w \in Workers, CallerDies(w) PROVE DispatchInv'
<1>1. /\ JobGoes(w, NoJob) /\ orphaned' = orphaned \cup {d \in Drivers : Holds(w, d)}
      /\ UNCHANGED <<loc, del, locked, lease, reported, replaced, pooled, direct, unfreed, edited>>
  BY DEF CallerDies
<1>2. spent' \in SpentDoc
  BY TurnIsTyped DEF CallerDies
<1>3. job \in [Workers -> JobRec] /\ NoJob \in JobRec /\ NoJob.driver = NoDriver /\ JobOK(w, NoJob)
  BY JobKnows, IdleJob
<1>4. job' \in [Workers -> JobRec] /\ job'[w] = NoJob /\ \A v \in Workers \ {w} : job'[v] = job[v]
  BY <1>1, <1>3 DEF JobGoes
<1>5. DispatchTypeOK'
  BY <1>1, <1>2, <1>4 DEF DispatchInv, DispatchTypeOK, SpentDoc
<1>6. \A v \in Workers : JobOK(v, job[v])'
  BY <1>3, <1>4 DEF DispatchInv, JobOK
<1>7. ASSUME NEW e \in Drivers PROVE HeldOnce(e)' /\ NotForgotten(e)' /\ (~loc[e].here => loc[e].status = "offline")'
  <2>1. HeldOnce(e) /\ NotForgotten(e) /\ (~loc[e].here => loc[e].status = "offline")
    BY DEF DispatchInv
  <2>2. \A v \in Workers : Holds(v, e)' => Holds(v, e)
    BY <1>3, <1>4, DispatchAssumption DEF Holds
  <2>3. HeldOnce(e)'
    BY <1>1, <2>1, <2>2 DEF HeldOnce, Serves
  <2>4. \A v \in Workers : Holds(v, e) => Holds(v, e)' \/ e \in orphaned'
    BY <1>1, <1>4 DEF Holds
  <2>5. NotForgotten(e)'
    BY <1>1, <2>1, <2>4 DEF NotForgotten
  <2> QED
    BY <1>1, <2>1, <2>3, <2>5
<1> QED
  BY <1>5, <1>6, <1>7 DEF DispatchInv

LEMMA SearchStep == ASSUME DispatchInv, NEW w \in Workers, FindNearbyDrivers(w) PROVE DispatchInv'
<1>1. PICK S : S = {d \in InRadius(w) : loc[d].here /\ loc[d].isAvailable /\ loc[d].status = "online"}
  OBVIOUS
<1>2. S \subseteq Drivers
  BY <1>1, DispatchAssumption DEF InRadius
<1>3. /\ job[w].pc = "search" /\ JobGoes(w, [job[w] EXCEPT !.pc = "claim", !.near = S])
      /\ UNCHANGED <<spent, loc, del, locked, lease, Ghosts>>
  BY <1>1 DEF FindNearbyDrivers
<1>4. /\ job[w] \in JobRec /\ JobOK(w, job[w]) /\ lease' \in [Loads -> Workers \cup {Free}]
      /\ spent' \in SpentDoc
  BY <1>3, JobKnows
<1>5. PICK mid : mid = [job[w] EXCEPT !.pc = "claim"]
  OBVIOUS
<1>6. mid \in JobRec /\ mid.pc = "claim" /\ mid.driver = job[w].driver /\ mid.delivery = job[w].delivery
  BY <1>4, <1>5 DEF JobRec
<1>7. PICK rec : rec = [mid EXCEPT !.near = S]
  OBVIOUS
<1>8. rec \in JobRec /\ rec.pc = "claim" /\ rec.driver = job[w].driver /\ rec.delivery = job[w].delivery
  BY <1>2, <1>6, <1>7 DEF JobRec
<1>9. JobGoes(w, rec)
  BY <1>3, <1>5, <1>7
<1>10. JobOK(w, rec)
  BY <1>3, <1>4, <1>8 DEF JobOK, HoldingPcs
<1> QED
  BY <1>3, <1>4, <1>8, <1>9, <1>10, JobMoves

LEMMA ClaimDriverStep == ASSUME DispatchInv, NEW w \in Workers, ClaimFirstAvailable(w) PROVE DispatchInv'
<1>1. job[w].pc = "claim" /\ UNCHANGED <<spent, del, locked, Ghosts>>
      /\ UNCHANGED <<reported, replaced, pooled, direct, unfreed, orphaned, edited>>
  BY DEF ClaimFirstAvailable, Ghosts
<1>2. /\ job[w] \in JobRec /\ JobOK(w, job[w]) /\ lease \in [Loads -> Workers \cup {Free}] /\ job \in [Workers -> JobRec]
      /\ spent' \in SpentDoc /\ loc \in [Drivers -> LocDoc]
  BY <1>1, JobKnows
<1>3. job[w].driver = NoDriver /\ job[w].near \subseteq Drivers
  BY <1>1, <1>2 DEF JobOK, HoldingPcs, JobRec
<1>4. ASSUME NEW d \in Drivers, Claimable(d), loc' = [loc EXCEPT ![d].isAvailable = FALSE, ![d].status = "on_delivery"],
             JobGoes(w, [job[w] EXCEPT !.pc = "load", !.driver = d, !.near = {}]), UNCHANGED lease
      PROVE  DispatchInv'
  <2>1. PICK half : half = [loc[d] EXCEPT !.isAvailable = FALSE]
    OBVIOUS
  <2>2. loc[d] \in LocDoc
    BY <1>2
  <2>3. half \in LocDoc /\ half.here = loc[d].here /\ half.isAvailable = FALSE
    BY <2>1, <2>2 DEF LocDoc
  <2>4. PICK new : new = [half EXCEPT !.status = "on_delivery"]
    OBVIOUS
  <2>5. new \in LocDoc /\ new.here = loc[d].here /\ new.isAvailable = FALSE
    BY <2>3, <2>4 DEF LocDoc
  <2>6. loc' = [loc EXCEPT ![d] = new]
    BY <1>2, <1>4, <2>1, <2>4
  <2>7. loc' \in [Drivers -> LocDoc] /\ loc'[d] = new /\ \A e \in Drivers \ {d} : loc'[e] = loc[e]
    BY <1>2, <2>5, <2>6
  <2>8. PICK one : one = [job[w] EXCEPT !.pc = "load"]
    OBVIOUS
  <2>9. one \in JobRec /\ one.pc = "load" /\ one.delivery = job[w].delivery
    BY <1>2, <2>8 DEF JobRec
  <2>10. PICK two : two = [one EXCEPT !.driver = d]
    OBVIOUS
  <2>11. two \in JobRec /\ two.pc = "load" /\ two.delivery = job[w].delivery /\ two.driver = d
    BY <2>9, <2>10 DEF JobRec
  <2>12. PICK rec : rec = [two EXCEPT !.near = {}]
    OBVIOUS
  <2>13. rec \in JobRec /\ rec.pc = "load" /\ rec.delivery = job[w].delivery /\ rec.driver = d
    BY <2>11, <2>12 DEF JobRec
  <2>14. JobGoes(w, rec)
    BY <1>4, <2>8, <2>10, <2>12
  <2>15. JobOK(w, rec)
    BY <1>1, <1>2, <2>13 DEF JobOK, HoldingPcs
  <2>16. job' \in [Workers -> JobRec] /\ job'[w] = rec /\ \A v \in Workers \ {w} : job'[v] = job[v]
    BY <1>2, <2>13, <2>14 DEF JobGoes
  <2>17. DispatchTypeOK'
    BY <1>1, <1>2, <1>4, <2>7, <2>16 DEF DispatchInv, DispatchTypeOK, SpentDoc
  <2>18. \A v \in Workers : JobOK(v, job[v])'
    BY <2>15, <2>16 DEF DispatchInv, JobOK
  <2>19. ASSUME NEW e \in Drivers PROVE HeldOnce(e)' /\ NotForgotten(e)' /\ (~loc[e].here => loc[e].status = "offline")'
    <3>1. HeldOnce(e) /\ NotForgotten(e) /\ (~loc[e].here => loc[e].status = "offline")
      BY DEF DispatchInv
    <3>2. CASE e = d
      <4>1. loc[d].isAvailable /\ loc[d].here
        BY <1>4 DEF Claimable
      <4>2. HeldOnce(e)'
        BY <1>1, <2>5, <2>7, <2>13, <2>16, <3>1, <3>2, <4>1 DEF HeldOnce, Holds, Serves
      <4>3. NotForgotten(e)'
        BY <1>1, <1>2, <2>13, <2>16, <3>2 DEF NotForgotten, Holds, JobOK
      <4> QED
        BY <2>5, <2>7, <3>2, <4>1, <4>2, <4>3
    <3>3. CASE e # d
      <4>1. \A v \in Workers : Holds(v, e)' <=> Holds(v, e)
        BY <1>3, <2>13, <2>16, <3>3, DispatchAssumption DEF Holds
      <4>2. HeldOnce(e)'
        BY <1>1, <2>7, <3>1, <3>3, <4>1 DEF HeldOnce, Serves
      <4>3. NotForgotten(e)'
        BY <1>1, <2>7, <3>1, <3>3, <4>1 DEF NotForgotten
      <4> QED
        BY <2>7, <3>1, <3>3, <4>2, <4>3
    <3> QED
      BY <3>2, <3>3
  <2> QED
    BY <2>17, <2>18, <2>19 DEF DispatchInv
<1>5. ASSUME NEW d \in Drivers, JobGoes(w, [job[w] EXCEPT !.near = @ \ {d}]), UNCHANGED <<loc, lease>> PROVE DispatchInv'
  <2>1. PICK rec : rec = [job[w] EXCEPT !.near = @ \ {d}]
    OBVIOUS
  <2>2. rec \in JobRec /\ rec.pc = "claim" /\ rec.driver = job[w].driver /\ rec.delivery = job[w].delivery
    BY <1>1, <1>2, <1>3, <2>1 DEF JobRec
  <2>3. JobOK(w, rec)
    BY <1>1, <1>2, <2>2 DEF JobOK, HoldingPcs
  <2> QED
    BY <1>1, <1>2, <1>5, <2>1, <2>2, <2>3, JobMoves
<1>6. CASE MayExpand(w) /\ JobGoes(w, [job[w] EXCEPT !.pc = "search", !.step = @ + 1]) /\ UNCHANGED <<loc, lease>>
  <2>1. PICK n : n = job[w].step + 1
    OBVIOUS
  <2>2. n \in 0..ExpansionSteps
    BY <1>2, <1>6, <2>1, DispatchAssumption DEF MayExpand, JobRec
  <2>3. PICK one : one = [job[w] EXCEPT !.pc = "search"]
    OBVIOUS
  <2>4. one \in JobRec /\ one.pc = "search" /\ one.driver = job[w].driver /\ one.delivery = job[w].delivery
    BY <1>2, <2>3 DEF JobRec
  <2>5. PICK rec : rec = [one EXCEPT !.step = n]
    OBVIOUS
  <2>6. rec \in JobRec /\ rec.pc = "search" /\ rec.driver = job[w].driver /\ rec.delivery = job[w].delivery
    BY <2>2, <2>4, <2>5 DEF JobRec
  <2>7. JobGoes(w, rec)
    BY <1>2, <1>6, <2>1, <2>3, <2>5 DEF JobRec
  <2>8. JobOK(w, rec)
    BY <1>1, <1>2, <2>6 DEF JobOK, HoldingPcs
  <2> QED
    BY <1>1, <1>2, <1>6, <2>6, <2>7, <2>8, JobMoves
<1>7. CASE Ended(w) /\ UNCHANGED loc
  BY <1>1, <1>2, <1>7, EndsEmpty DEF HoldingPcs
<1>8. Nearest(job[w].near) \subseteq Drivers
  BY <1>3 DEF Nearest
<1> QED
  BY <1>4, <1>5, <1>6, <1>7, <1>8, Zenon DEF ClaimFirstAvailable

LEMMA LoadStep == ASSUME DispatchInv, NEW w \in Workers, AssignDriver(w) PROVE DispatchInv'
<1>1. job[w].pc = "load" /\ UNCHANGED <<loc, del, locked, Ghosts>> /\ spent' \in SpentDoc
  BY JobKnows DEF AssignDriver
<1>2. job[w] \in JobRec /\ JobOK(w, job[w]) /\ lease \in [Loads -> Workers \cup {Free}]
  BY JobKnows
<1>3. job[w].todo \subseteq Loads /\ (w # Pooler => job[w].delivery \in Loads)
  BY <1>1, <1>2 DEF JobOK, JobRec
<1>4. CASE AssignmentThrows(w)
  BY <1>1, <1>4, ThrowMoves
<1>5. ASSUME NEW x \in Loads, JobGoes(w, [job[w] EXCEPT !.delivery = x, !.todo = @ \ {x}, !.pc = "escrow"]), UNCHANGED lease
      PROVE  DispatchInv'
  <2>1. PICK one : one = [job[w] EXCEPT !.delivery = x]
    OBVIOUS
  <2>2. one \in JobRec /\ one.driver = job[w].driver /\ one.delivery = x /\ one.todo = job[w].todo
    BY <1>2, <2>1 DEF JobRec
  <2>3. PICK two : two = [one EXCEPT !.todo = @ \ {x}]
    OBVIOUS
  <2>4. two \in JobRec /\ two.driver = job[w].driver /\ two.delivery = x /\ two.todo = job[w].todo \ {x}
    BY <2>2, <2>3 DEF JobRec
  <2>5. PICK rec : rec = [two EXCEPT !.pc = "escrow"]
    OBVIOUS
  <2>6. rec \in JobRec /\ rec.driver = job[w].driver /\ rec.delivery = x /\ rec.pc = "escrow" /\ rec.todo = job[w].todo \ {x}
    BY <2>4, <2>5 DEF JobRec
  <2>7. JobGoes(w, rec)
    BY <1>5, <2>1, <2>3, <2>5
  <2>8. JobOK(w, rec)
    BY <1>1, <1>2, <2>6 DEF JobOK, HoldingPcs
  <2> QED
    BY <1>1, <1>2, <1>5, <2>6, <2>7, <2>8, JobMoves
<1>6. AssignmentThrows(w) \/ \E x \in Loads : JobGoes(w, [job[w] EXCEPT !.delivery = x, !.todo = @ \ {x}, !.pc = "escrow"]) /\ UNCHANGED lease
  BY <1>3, Zenon DEF AssignDriver
<1> QED
  BY <1>4, <1>5, <1>6

LEMMA SaveStep == ASSUME DispatchInv, NEW w \in Workers, SaveAssignment(w) PROVE DispatchInv'
<1>1. job[w].pc = "save" /\ UNCHANGED <<spent, loc, locked, reported, unfreed, orphaned, edited>>
  BY DEF SaveAssignment
<1>2. /\ job[w] \in JobRec /\ JobOK(w, job[w]) /\ job \in [Workers -> JobRec] /\ del \in [Loads -> DeliveryDoc]
      /\ lease \in [Loads -> Workers \cup {Free}]
  BY JobKnows
<1>3. PICK x \in Loads, d \in Drivers : x = job[w].delivery /\ d = job[w].driver
  BY <1>1, <1>2 DEF JobOK, HoldingPcs
<1>4. /\ del' = [del EXCEPT ![x] = [status |-> "assigned", driver |-> d]]
      /\ replaced' = (replaced \cup {del[x].driver}) \ {d, NoDriver}
      /\ pooled' = IF w = Pooler THEN pooled \cup {d} ELSE pooled
      /\ direct' = IF w \in Admins THEN direct \cup {d} ELSE direct
  BY <1>3 DEF SaveAssignment
<1>5. PICK new : new = [status |-> "assigned", driver |-> d]
  OBVIOUS
<1>6. new \in DeliveryDoc /\ new.driver = d
  BY <1>5 DEF DeliveryDoc, DeliveryStatuses
<1>7. del' \in [Loads -> DeliveryDoc] /\ del'[x] = new /\ \A y \in Loads \ {x} : del'[y] = del[y]
  BY <1>2, <1>4, <1>5, <1>6
<1>8. del[x].driver \in Drivers \cup {NoDriver}
  BY <1>2 DEF DeliveryDoc
<1>9. replaced' \subseteq Drivers /\ pooled' \subseteq Drivers /\ pooled \subseteq pooled' /\ (w = Pooler => d \in pooled')
      /\ direct' \subseteq Drivers /\ direct \subseteq direct' /\ (w \in Admins => d \in direct')
  BY <1>4, <1>8 DEF DispatchInv, DispatchTypeOK
<1>10. PICK rec \in JobRec :
         /\ JobGoes(w, rec) /\ JobOK(w, rec) /\ lease' \in [Loads -> Workers \cup {Free}]
         /\ rec.driver = NoDriver \/ (w = Pooler /\ rec.driver = d)
  <2>1. CASE w = Pooler /\ JobGoes(w, [job[w] EXCEPT !.pc = "load"]) /\ UNCHANGED lease
    <3>1. PICK rec : rec = [job[w] EXCEPT !.pc = "load"]
      OBVIOUS
    <3>2. rec \in JobRec /\ rec.pc = "load" /\ rec.driver = d
      BY <1>2, <1>3, <3>1 DEF JobRec
    <3>3. JobOK(w, rec)
      BY <2>1, <3>2, DispatchAssumption DEF JobOK, HoldingPcs
    <3> QED
      BY <1>2, <2>1, <3>1, <3>2, <3>3
  <2>2. CASE Ended(w)
    BY <2>2, EndedRec
  <2> QED
    BY <2>1, <2>2, Zenon DEF SaveAssignment
<1>11. job' \in [Workers -> JobRec] /\ job'[w] = rec /\ \A v \in Workers \ {w} : job'[v] = job[v]
  BY <1>2, <1>10 DEF JobGoes
<1>12. DispatchTypeOK'
  BY <1>1, <1>7, <1>9, <1>10, <1>11 DEF DispatchInv, DispatchTypeOK, SpentDoc
<1>13. \A v \in Workers : JobOK(v, job[v])'
  BY <1>10, <1>11 DEF DispatchInv, JobOK
<1>14. ASSUME NEW e \in Drivers PROVE HeldOnce(e)' /\ NotForgotten(e)' /\ (~loc[e].here => loc[e].status = "offline")'
  <2>1. HeldOnce(e) /\ NotForgotten(e) /\ (~loc[e].here => loc[e].status = "offline")
    BY DEF DispatchInv
  <2>2. CASE e = d
    <3>1. NotForgotten(e)'
      BY <1>6, <1>7, <2>2 DEF NotForgotten
    <3>2. CASE w = Pooler \/ w \in Admins
      BY <1>1, <1>9, <2>1, <2>2, <3>1, <3>2 DEF HeldOnce
    <3>3. CASE w # Pooler /\ w \notin Admins
      <4>1. SUFFICES ASSUME d \notin reported \cup pooled \cup direct PROVE HeldOnce(e)'
        BY <1>1, <1>4, <2>1, <2>2, <3>1, <3>3 DEF HeldOnce
      <4>2. ~loc[d].isAvailable /\ (\A v \in Workers : Holds(v, d) => v = w) /\ \A y \in Loads \ edited : ~Serves(d, y)
        BY <1>3, <2>1, <2>2, <3>3, <4>1 DEF HeldOnce, Holds
      <4>3. \A v \in Workers : ~Holds(v, d)'
        BY <1>10, <1>11, <3>3, <4>2, DispatchAssumption DEF Holds
      <4>4. \A y \in Loads \ edited : Serves(d, y)' => y = x
        BY <1>7, <4>2 DEF Serves
      <4> QED
        BY <1>1, <2>2, <4>2, <4>3, <4>4 DEF HeldOnce
    <3> QED
      BY <3>2, <3>3, <3>1, <1>1, <2>1
  <2>3. CASE e # d
    <3>1. \A v \in Workers : Holds(v, e)' <=> Holds(v, e)
      BY <1>3, <1>10, <1>11, <2>3, DispatchAssumption DEF Holds
    <3>2. \A y \in Loads : Serves(e, y)' => Serves(e, y)
      BY <1>6, <1>7, <2>3 DEF Serves
    <3>3. HeldOnce(e)'
      BY <1>1, <1>9, <2>1, <3>1, <3>2 DEF HeldOnce
    <3>4. NotForgotten(e)'
      <4>1. e # NoDriver
        BY DispatchAssumption
      <4> QED
        BY <1>1, <1>4, <1>7, <2>1, <2>3, <3>1, <4>1 DEF NotForgotten
    <3> QED
      BY <1>1, <2>1, <3>3, <3>4
  <2> QED
    BY <2>2, <2>3
<1> QED
  BY <1>12, <1>13, <1>14 DEF DispatchInv

LEMMA ReleaseDriverStep == ASSUME DispatchInv, NEW w \in Workers, ReleaseClaim(w) PROVE DispatchInv'
<1>1. job[w].pc = "release" /\ Ended(w) /\ UNCHANGED <<spent, del, locked, reported, replaced, pooled, direct, orphaned, edited>>
  BY DEF ReleaseClaim
<1>2. job[w] \in JobRec /\ JobOK(w, job[w]) /\ job \in [Workers -> JobRec] /\ loc \in [Drivers -> LocDoc]
  BY JobKnows
<1>3. PICK d \in Drivers : d = job[w].driver
  BY <1>1, <1>2 DEF JobOK, HoldingPcs
<1>4. PICK rec \in JobRec : JobGoes(w, rec) /\ JobOK(w, rec) /\ rec.driver = NoDriver /\ lease' \in [Loads -> Workers \cup {Free}]
  BY <1>1, EndedRec
<1>5. job' \in [Workers -> JobRec] /\ job'[w] = rec /\ \A v \in Workers \ {w} : job'[v] = job[v]
  BY <1>2, <1>4 DEF JobGoes
<1>6. loc[d] \in LocDoc /\ (~loc[d].here => loc[d].status = "offline")
  BY <1>2 DEF DispatchInv
<1>7. /\ loc' \in [Drivers -> LocDoc] /\ \A e \in Drivers \ {d} : loc'[e] = loc[e]
      /\ ~loc'[d].here => loc'[d].status = "offline"
      /\ unfreed \subseteq unfreed' /\ unfreed' \subseteq Drivers
      /\ d \in unfreed' \/ loc'[d].status # "on_delivery"
  <2>1. CASE loc' = Freed(d) /\ UNCHANGED unfreed
    <3>1. PICK s \in {"online", "offline", "on_delivery"} : s = IF loc[d].here THEN "online" ELSE loc[d].status
      BY <1>6 DEF LocDoc
    <3>2. PICK half : half = [loc[d] EXCEPT !.isAvailable = loc[d].here]
      OBVIOUS
    <3>3. half \in LocDoc /\ half.here = loc[d].here /\ half.status = loc[d].status
      BY <1>6, <3>2 DEF LocDoc
    <3>4. PICK new : new = [half EXCEPT !.status = s]
      OBVIOUS
    <3>5. new \in LocDoc /\ new.here = loc[d].here /\ new.status = s
      BY <3>1, <3>3, <3>4 DEF LocDoc
    <3>6. loc' = [loc EXCEPT ![d] = new]
      BY <1>2, <2>1, <3>1, <3>2, <3>3, <3>4 DEF Freed
    <3> QED
      BY <1>2, <1>6, <2>1, <3>1, <3>5, <3>6 DEF DispatchInv, DispatchTypeOK
  <2>2. CASE unfreed' = unfreed \cup {d} /\ UNCHANGED loc
    BY <1>2, <1>6, <2>2 DEF DispatchInv, DispatchTypeOK
  <2> QED
    BY <1>3, <2>1, <2>2 DEF ReleaseClaim
<1>8. DispatchTypeOK'
  BY <1>1, <1>4, <1>5, <1>7 DEF DispatchInv, DispatchTypeOK, SpentDoc
<1>9. \A v \in Workers : JobOK(v, job[v])'
  BY <1>4, <1>5 DEF DispatchInv, JobOK
<1>10. ASSUME NEW e \in Drivers PROVE HeldOnce(e)' /\ NotForgotten(e)' /\ (~loc[e].here => loc[e].status = "offline")'
  <2>1. HeldOnce(e) /\ NotForgotten(e) /\ (~loc[e].here => loc[e].status = "offline")
    BY DEF DispatchInv
  <2>2. CASE e = d
    <3>1. NotForgotten(e)'
      BY <1>7, <2>2 DEF NotForgotten
    <3>2. SUFFICES ASSUME d \notin reported \cup pooled \cup direct PROVE HeldOnce(e)'
      BY <1>1, <1>7, <2>2, <3>1 DEF HeldOnce
    <3>3. (\A v \in Workers : Holds(v, d) => v = w) /\ \A y \in Loads \ edited : ~Serves(d, y)
      BY <1>1, <1>2, <1>3, <2>1, <2>2, <3>2 DEF HeldOnce, Holds, JobOK
    <3>4. \A v \in Workers : ~Holds(v, d)'
      BY <1>4, <1>5, <3>3, DispatchAssumption DEF Holds
    <3>5. \A y \in Loads \ edited : ~Serves(d, y)'
      BY <1>1, <3>3 DEF Serves
    <3> QED
      BY <1>1, <2>2, <3>4, <3>5 DEF HeldOnce
  <2>3. CASE e # d
    <3>1. \A v \in Workers : Holds(v, e)' <=> Holds(v, e)
      BY <1>3, <1>4, <1>5, <2>3, DispatchAssumption DEF Holds
    <3>2. HeldOnce(e)'
      BY <1>1, <1>7, <2>1, <2>3, <3>1 DEF HeldOnce, Serves
    <3>3. NotForgotten(e)'
      BY <1>1, <1>7, <2>1, <2>3, <3>1 DEF NotForgotten
    <3> QED
      BY <1>7, <2>1, <2>3, <3>2, <3>3
  <2> QED
    BY <2>2, <2>3
<1> QED
  BY <1>8, <1>9, <1>10 DEF DispatchInv

LEMMA DispatchInductive == ASSUME DispatchInv, [DispatchStep]_dispatchVars PROVE DispatchInv'
<1>1. CASE DispatchStep
  BY <1>1, TurnSteps, StartSteps, LockStep, FinishStep, ReadStep, SearchStep, ClaimDriverStep, LoadStep, EscrowReadStep,
     SaveStep, ReleaseDriverStep, DirectStep, FailedAwaitStep, CallerDeathStep DEF DispatchStep, WorkerStep
<1>2. CASE UNCHANGED dispatchVars
  BY <1>2 DEF dispatchVars, Ghosts, DispatchInv, DispatchTypeOK, JobOK, HeldOnce, NotForgotten, Holds, Serves
<1> QED
  BY <1>1, <1>2

\* The claim of a driver in assignmentService.ts and what becomes of it, for any number of
\* drivers, deliveries and callers: two searches racing for one driver cannot both have it, unless
\* it reported itself available while it was held, serves a pool or was named by an admin.
THEOREM DriversAreNotShared == Spec => []OneDeliveryPerDriver
<1>1. Init => DispatchInv
  BY DispatchStart DEF Init
<1>2. DispatchInv /\ [Next]_serviceVars => DispatchInv'
  BY OthersRestDispatch, DispatchInductive
<1>3. DispatchInv => OneDeliveryPerDriver
  BY DispatchIsSound
<1> QED
  BY <1>1, <1>2, <1>3, PTL DEF Spec

\* releaseClaim and assignDriver, whatever throws: no driver is left on a delivery it does not have,
\* unless another caller put a driver in its place, the update that frees it failed or the process
\* died between the claim and the save.
THEOREM DriversAreNotForgotten == Spec => []StrandedOnlyByRace
<1>1. Init => DispatchInv
  BY DispatchStart DEF Init
<1>2. DispatchInv /\ [Next]_serviceVars => DispatchInv'
  BY OthersRestDispatch, DispatchInductive
<1>3. DispatchInv => StrandedOnlyByRace
  BY DispatchIsSound
<1> QED
  BY <1>1, <1>2, <1>3, PTL DEF Spec
=============================================================================
