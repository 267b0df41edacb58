--------------------------- MODULE Notifications ---------------------------
(***************************************************************************)
(* Push notifications: which user a device token belongs to               *)
(* (NotificationPreferenceRepository), and the sends of                    *)
(* notificationService.ts through fcmProvider.ts.  One device, whose token *)
(* several users register as it changes hands; one action per awaited      *)
(* call.                                                                   *)
(***************************************************************************)
EXTENDS Naturals, FiniteSets

CONSTANTS
    PushUsers, NoUser,
    Registrations,      \* registerDevice calls
    Notices,            \* dispatch calls
    MaxClaimAttempts,   \* MAX_CLAIM_ATTEMPTS
    MaxPushCalls,       \* bound on the calls
    MaxPushFaults       \* bound on failing calls

ASSUME PushAssumption == MaxClaimAttempts \in Nat \ {0} /\ MaxPushCalls \in Nat /\ MaxPushFaults \in Nat

VARIABLES
    entries,     \* how often the token is in each user's devices
    pushOn,      \* users who did not switch pushes off
    registration, notice,
    accessToken, \* fcmProvider: the cached token, and whether a request for one is pending
    requests,    \* requests to the token endpoint under way
    removed,     \* somebody removed the token on purpose: logout, or prune
    pushCalls, pushFaults,
    ledger       \* Notification documents of each dispatch, and whether it threw

pushVars == <<entries, pushOn, registration, notice, accessToken, requests, removed, pushCalls, pushFaults, ledger>>

RegistrationRec == [pc: {"idle", "refresh", "detach", "attach", "done", "thrown"}, user: PushUsers \cup {NoUser}, attempt: 0..MaxClaimAttempts]

NoticeRec == [pc: {"idle", "auth", "await", "send", "prune", "record", "done"}, user: PushUsers \cup {NoUser}]

NotificationTypeOK ==
    /\ entries \in [PushUsers -> Nat] /\ pushOn \subseteq PushUsers
    /\ registration \in [Registrations -> RegistrationRec]
    /\ notice \in [Notices -> NoticeRec]
    /\ accessToken \in [cached: BOOLEAN, pending: BOOLEAN] /\ requests \in Nat
    /\ removed \in BOOLEAN /\ pushCalls \in 0..MaxPushCalls /\ pushFaults \in 0..MaxPushFaults
    /\ ledger \in [Notices -> {"none", "recorded", "thrown"}]

NotificationInit ==
    /\ entries = [u \in PushUsers |-> 0] /\ pushOn = PushUsers
    /\ registration = [r \in Registrations |-> [pc |-> "idle", user |-> NoUser, attempt |-> 0]]
    /\ notice = [n \in Notices |-> [pc |-> "idle", user |-> NoUser]]
    /\ accessToken = [cached |-> FALSE, pending |-> FALSE] /\ requests = 0
    /\ removed = FALSE /\ pushCalls = 0 /\ pushFaults = 0
    /\ ledger = [n \in Notices |-> "none"]

PushCall == pushCalls < MaxPushCalls /\ pushCalls' = pushCalls + 1
PushFault == pushFaults < MaxPushFaults /\ pushFaults' = pushFaults + 1

-----------------------------------------------------------------------------
(* The owners of the token *)

RegistrationGoes(r, pc) == registration' = [registration EXCEPT ![r].pc = pc]

Sending == <<notice, accessToken, requests, ledger>>

RegisterDevice(r) ==
    /\ registration[r].pc = "idle" /\ PushCall
    /\ \E u \in PushUsers : registration' = [registration EXCEPT ![r].pc = "refresh", ![r].user = u]
    /\ UNCHANGED <<entries, pushOn, removed, pushFaults, Sending>>

\* Already in the user's devices: refreshed in place.
RefreshDevice(r) ==
    /\ registration[r].pc = "refresh"
    /\ RegistrationGoes(r, IF entries[registration[r].user] > 0 THEN "done" ELSE "detach")
    /\ UNCHANGED <<entries, pushOn, removed, pushCalls, pushFaults, Sending>>

DetachDevice(r) ==
    /\ registration[r].pc = "detach"
    /\ entries' = [u \in PushUsers |-> IF u = registration[r].user THEN entries[u] ELSE 0]
    /\ RegistrationGoes(r, "attach")
    /\ UNCHANGED <<pushOn, removed, pushCalls, pushFaults, Sending>>

\* Mutant: the index on devices.token is not unique.
TokenTakenNever(u) == FALSE

\* The unique multikey index looks at other documents only.
TokenTaken(u) == \E v \in PushUsers \ {u} : entries[v] > 0

\* A duplicate key means the next attempt, and after the last one an error.
AttachDevice(r) ==
    LET u == registration[r].user
        attempt == registration[r].attempt + 1
    IN /\ registration[r].pc = "attach"
       /\ \/ /\ ~TokenTaken(u)
             /\ entries' = [entries EXCEPT ![u] = @ + 1]
             /\ RegistrationGoes(r, "done")
          \/ /\ TokenTaken(u)
             /\ registration' = [registration EXCEPT ![r].attempt = attempt,
                                   ![r].pc = IF attempt = MaxClaimAttempts THEN "thrown" ELSE "refresh"]
             /\ UNCHANGED entries
       /\ UNCHANGED <<pushOn, removed, pushCalls, pushFaults, Sending>>

\* Any other error of its three calls is thrown.
RegistrationThrows(r) ==
    /\ registration[r].pc \in {"refresh", "detach", "attach"} /\ PushFault
    /\ RegistrationGoes(r, "thrown")
    /\ UNCHANGED <<entries, pushOn, removed, pushCalls, Sending>>

RemoveDevice(u) ==
    /\ entries[u] > 0 /\ PushCall
    /\ entries' = [entries EXCEPT ![u] = 0] /\ removed' = TRUE
    /\ UNCHANGED <<pushOn, registration, pushFaults, Sending>>

UpdatePreferences(u) ==
    /\ PushCall
    /\ pushOn' = (pushOn \ {u}) \cup ({u} \ pushOn)
    /\ UNCHANGED <<entries, registration, removed, pushFaults, Sending>>

-----------------------------------------------------------------------------
(* dispatch *)

NoticeGoes(n, pc) == notice' = [notice EXCEPT ![n].pc = pc]

Owning == <<entries, pushOn, registration, removed>>

\* findOrCreateByUserId and suppressionReason.  An error is caught and recorded as a failure.
DispatchNotice(n) ==
    /\ notice[n].pc = "idle" /\ PushCall
    /\ \E u \in PushUsers :
         \/ /\ notice' = [notice EXCEPT ![n].user = u, ![n].pc = IF u \in pushOn /\ entries[u] > 0 THEN "auth" ELSE "record"]
            /\ UNCHANGED pushFaults
         \/ PushFault /\ notice' = [notice EXCEPT ![n].user = u, ![n].pc = "record"]
    /\ UNCHANGED <<Owning, accessToken, requests, ledger>>

TokenPending == [accessToken EXCEPT !.pending = TRUE]

\* getAccessToken: cached, pending, or asked for.
GetAccessToken(n) ==
    /\ notice[n].pc = "auth"
    /\ IF accessToken.cached THEN NoticeGoes(n, "send") /\ UNCHANGED <<accessToken, requests>>
       ELSE /\ NoticeGoes(n, "await")
            /\ accessToken' = TokenPending
            /\ requests' = IF accessToken.pending THEN requests ELSE requests + 1
    /\ UNCHANGED <<Owning, pushCalls, pushFaults, ledger>>

\* The request ends for everybody who waits for it: with a token, or as a failed send.
AccessTokenAnswered ==
    LET Waiting(pc) == [n \in Notices |-> IF notice[n].pc = "await" THEN [notice[n] EXCEPT !.pc = pc] ELSE notice[n]]
    IN /\ requests > 0 /\ requests' = requests - 1
       /\ \/ accessToken' = [cached |-> TRUE, pending |-> FALSE] /\ notice' = Waiting("send") /\ UNCHANGED pushFaults
          \/ PushFault /\ accessToken' = [cached |-> FALSE, pending |-> FALSE] /\ notice' = Waiting("record")
       /\ UNCHANGED <<Owning, pushCalls, ledger>>

AccessTokenExpires ==
    /\ accessToken.cached
    /\ accessToken' = [accessToken EXCEPT !.cached = FALSE]
    /\ UNCHANGED <<Owning, pushCalls, notice, requests, pushFaults, ledger>>

\* sendToToken: accepted or not, or the token is invalid for good.
SendPush(n) ==
    /\ notice[n].pc = "send"
    /\ \E pc \in {"record", "prune"} : NoticeGoes(n, pc)
    /\ UNCHANGED <<Owning, pushCalls, accessToken, requests, pushFaults, ledger>>

\* The token goes from whoever has it now.
PruneTokens(n) ==
    /\ notice[n].pc = "prune"
    /\ entries' = [u \in PushUsers |-> 0] /\ removed' = TRUE
    /\ NoticeGoes(n, "record")
    /\ UNCHANGED <<pushOn, registration, accessToken, requests, pushCalls, pushFaults, ledger>>

\* The promise of record is returned, not awaited: the catch does not see it fail.
RecordNotice(n) ==
    /\ notice[n].pc = "record"
    /\ \/ ledger' = [ledger EXCEPT ![n] = "recorded"] /\ UNCHANGED pushFaults
       \/ PushFault /\ ledger' = [ledger EXCEPT ![n] = "thrown"]
    /\ NoticeGoes(n, "done")
    /\ UNCHANGED <<Owning, pushCalls, accessToken, requests>>

NoticeStep(n) == DispatchNotice(n) \/ GetAccessToken(n) \/ SendPush(n) \/ PruneTokens(n) \/ RecordNotice(n)

RegistrationStep(r) ==
    RegisterDevice(r) \/ RefreshDevice(r) \/ DetachDevice(r) \/ AttachDevice(r) \/ RegistrationThrows(r)

NotificationStep ==
    \/ \E r \in Registrations : RegistrationStep(r)
    \/ \E u \in PushUsers : RemoveDevice(u) \/ UpdatePreferences(u)
    \/ \E n \in Notices : NoticeStep(n)
    \/ AccessTokenAnswered \/ AccessTokenExpires

-----------------------------------------------------------------------------
(* Correctness *)

\* registerDevice: of users who race to attach one token "exactly one owner survives".  Never two
\* at a time; and when the calls have ended, none of them by a failure of the database, and nobody
\* removed the token, one has it.
OneOwnerSurvives ==
    /\ Cardinality({u \in PushUsers : entries[u] > 0}) <= 1
    /\ /\ \E r \in Registrations : registration[r].pc = "done"
       /\ \A r \in Registrations : registration[r].pc \in {"idle", "done", "thrown"}
       /\ ~removed /\ pushFaults = 0
       => \E u \in PushUsers : entries[u] > 0

=============================================================================
