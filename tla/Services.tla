------------------------------ MODULE Services ------------------------------
(***************************************************************************)
(* The services beside the escrow path.  As modelled they share no state   *)
(* with one another, so a behaviour is about one of them: its scene.       *)
(***************************************************************************)
EXTENDS Dispatch, Pooling, Onboarding, Fleets, Disputes, Accounts, BulkImport, Idempotency,
        MilestoneLog, LiveLocation, DeliveryChat, Notifications, EscrowSync

VARIABLE scene

Scenes == {"dispatch", "pooling", "onboarding", "fleets", "disputes", "accounts", "imports", "csv",
           "idempotency", "milestones", "location", "chat", "push", "sync"}

serviceVars ==
    <<scene, dispatchVars, poolingVars, onboardingVars, fleetVars, disputeVars, accountVars, importVars,
      idempotencyVars, milestoneVars, locationVars, chatVars, pushVars, syncVars>>

\* Where another scene is played, what a component may start from is fixed.
Init ==
    /\ scene \in Scenes
    /\ DispatchInit /\ (scene # "dispatch" => \A x \in Loads : ~locked[x])
    /\ PoolingInit /\ (scene # "pooling" => \A i \in Candidates : pickup[i] = 0 /\ dropoff[i] = 0)
    /\ OnboardingInit /\ FleetInit /\ DisputeInit /\ ImportInit
    /\ AccountInit /\ (scene # "accounts" => issued = 0 /\ \A u \in Users : account[u].email = Nothing)
    /\ IdempotencyInit /\ (scene # "idempotency" => redisReady)
    /\ MilestoneInit /\ LocationInit /\ NotificationInit
    /\ SyncInit /\ (scene # "sync" => escrowDoc.status = "absent")
    /\ ChatInit /\ (scene # "chat" => driverId = CHOOSE u \in ChatDrivers : TRUE)

\* The documents and the calls of every service keep their shape; no search widens its radius once too often.
TypeOK ==
    /\ scene \in Scenes
    /\ DispatchTypeOK /\ OnboardingTypeOK /\ FleetTypeOK /\ DisputeTypeOK /\ AccountTypeOK /\ ImportTypeOK
    /\ IdempotencyTypeOK /\ MilestoneTypeOK /\ LocationTypeOK /\ ChatTypeOK /\ NotificationTypeOK
    /\ SyncTypeOK

\* The scene s goes on by the step A, and the other services rest.
Play(s, A) ==
    /\ scene = s /\ A /\ UNCHANGED scene
    /\ s # "dispatch" => UNCHANGED dispatchVars
    /\ s # "pooling" => UNCHANGED poolingVars
    /\ s # "onboarding" => UNCHANGED onboardingVars
    /\ s # "fleets" => UNCHANGED fleetVars
    /\ s # "disputes" => UNCHANGED disputeVars
    /\ s # "accounts" => UNCHANGED accountVars
    /\ s \notin {"imports", "csv"} => UNCHANGED importVars
    /\ s # "idempotency" => UNCHANGED idempotencyVars
    /\ s # "milestones" => UNCHANGED milestoneVars
    /\ s # "location" => UNCHANGED locationVars
    /\ s # "chat" => UNCHANGED chatVars
    /\ s # "push" => UNCHANGED pushVars
    /\ s # "sync" => UNCHANGED syncVars

Next ==
    \/ Play("dispatch", DispatchStep)
    \/ Play("pooling", CreatePools)
    \/ Play("onboarding", OnboardingStep)
    \/ Play("fleets", FleetStep)
    \/ Play("disputes", DisputeStep)
    \/ Play("accounts", AccountStep)
    \/ Play("imports", ImportStep)
    \/ Play("csv", ParseCsv)
    \/ Play("idempotency", IdempotencyStep)
    \/ Play("milestones", MilestoneStep)
    \/ Play("location", LocationStep)
    \/ Play("chat", ChatStep)
    \/ Play("push", NotificationStep)
    \/ Play("sync", SyncStep)

Spec == Init /\ [][Next]_serviceVars
=============================================================================
