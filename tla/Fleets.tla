------------------------------- MODULE Fleets -------------------------------
(***************************************************************************)
(* A fleet: its members, which the owner's requests read, change and save  *)
(* (mongoose pushes an addition, and writes a removal as the whole array   *)
(* guarded by the version read), and its drivers, who join by accepting an *)
(* invitation.                                                             *)
(***************************************************************************)
EXTENDS Naturals, Sequences

CONSTANTS
    Owner, FleetUsers,   \* the owner, and others who may be members or drivers
    FleetCalls,          \* requests
    MaxFleetCalls,       \* bound on them
    MaxInvitations       \* bound on the invitations

ASSUME FleetAssumption == Owner \notin FleetUsers /\ MaxFleetCalls \in Nat /\ MaxInvitations \in Nat

VARIABLES
    members,    \* how often each user is in the array members
    version,    \* __v
    isActive,
    drivers,    \* the array drivers
    invitation, \* FleetInvitation documents
    fleetCall,  \* the requests
    made,       \* requests made so far
    due         \* users added and not removed since

fleetVars == <<members, version, isActive, drivers, invitation, fleetCall, made, due>>

FleetPeople == FleetUsers \cup {Owner}

InvitationDoc == [driver: FleetUsers, status: {"pending", "accepted", "declined"}]

IdleCall == [pc |-> "idle"]

FleetTypeOK ==
    /\ members \in [FleetPeople -> Nat]
    /\ version \in Nat /\ isActive \in BOOLEAN
    /\ drivers \subseteq FleetUsers
    /\ invitation \in Seq(InvitationDoc) /\ Len(invitation) <= MaxInvitations
    /\ made \in 0..MaxFleetCalls /\ due \subseteq FleetUsers
    /\ \A c \in FleetCalls : fleetCall[c].pc \in {"idle", "add", "remove", "delete", "update", "invite", "respond", "join"}

\* createFleet: the pre-save hook makes the owner a member.
FleetInit ==
    /\ members = [u \in FleetPeople |-> IF u = Owner THEN 1 ELSE 0]
    /\ version = 0 /\ isActive = TRUE
    /\ drivers = {} /\ invitation = <<>>
    /\ fleetCall = [c \in FleetCalls |-> IdleCall]
    /\ made = 0 /\ due = {}

FleetGoes(c, rec) == fleetCall' = [fleetCall EXCEPT ![c] = rec]

FleetCallArrives(c) == fleetCall[c] = IdleCall /\ made < MaxFleetCalls /\ made' = made + 1

FleetDocs == <<members, version, isActive, drivers, invitation, due>>

-----------------------------------------------------------------------------
(* The owner's requests: the fleet is read, checked, changed and saved.    *)

AddMember(c) ==
    \/ /\ FleetCallArrives(c)
       /\ \E u \in FleetUsers : members[u] = 0 /\ FleetGoes(c, [pc |-> "add", user |-> u])
       /\ UNCHANGED FleetDocs
    \/ /\ fleetCall[c].pc = "add"
       /\ members' = [members EXCEPT ![fleetCall[c].user] = @ + 1]
       /\ due' = due \cup {fleetCall[c].user}
       /\ version' = version + 1
       /\ FleetGoes(c, IdleCall)
       /\ UNCHANGED <<isActive, drivers, invitation, made>>

\* Mutant: the array is written whatever happened to it since it was read.
SaveMatchesAny(read) == TRUE

SaveMatches(read) == read = version

\* The owner cannot be removed; a VersionError changes nothing.
RemoveMember(c) ==
    \/ /\ FleetCallArrives(c)
       /\ \E u \in FleetUsers :
            /\ members[u] > 0
            /\ FleetGoes(c, [pc |-> "remove", user |-> u, version |-> version, left |-> [members EXCEPT ![u] = @ - 1]])
       /\ UNCHANGED FleetDocs
    \/ /\ fleetCall[c].pc = "remove"
       /\ IF SaveMatches(fleetCall[c].version)
          THEN members' = fleetCall[c].left /\ version' = version + 1 /\ due' = due \ {fleetCall[c].user}
          ELSE UNCHANGED <<members, version, due>>
       /\ FleetGoes(c, IdleCall)
       /\ UNCHANGED <<isActive, drivers, invitation, made>>

\* A deleted fleet keeps its members, and goes on taking requests.
DeleteFleet(c) ==
    \/ FleetCallArrives(c) /\ FleetGoes(c, [pc |-> "delete"]) /\ UNCHANGED FleetDocs
    \/ /\ fleetCall[c].pc = "delete"
       /\ isActive' = FALSE
       /\ FleetGoes(c, IdleCall)
       /\ UNCHANGED <<members, version, drivers, invitation, made, due>>

\* updateFleet takes any field but the owner, the members and the dates.
UpdateFleet(c) ==
    \/ FleetCallArrives(c) /\ FleetGoes(c, [pc |-> "update"]) /\ UNCHANGED FleetDocs
    \/ /\ fleetCall[c].pc = "update"
       /\ isActive' \in BOOLEAN /\ drivers' \in SUBSET FleetUsers
       /\ FleetGoes(c, IdleCall)
       /\ UNCHANGED <<members, version, invitation, made, due>>

-----------------------------------------------------------------------------
(* Invitations *)

Pending(u) == \E i \in DOMAIN invitation : invitation[i] = [driver |-> u, status |-> "pending"]

\* The owner asks.
RequestInvitation(c) ==
    /\ FleetCallArrives(c)
    /\ \E u \in FleetUsers \ drivers : ~Pending(u) /\ FleetGoes(c, [pc |-> "invite", user |-> u])
    /\ UNCHANGED FleetDocs

\* The partial unique index refuses a second pending invitation.
InviteDriver(c) ==
    /\ fleetCall[c].pc = "invite"
    /\ invitation' = IF Pending(fleetCall[c].user) \/ Len(invitation) = MaxInvitations THEN invitation
                     ELSE Append(invitation, [driver |-> fleetCall[c].user, status |-> "pending"])
    /\ FleetGoes(c, IdleCall)
    /\ UNCHANGED <<members, version, isActive, drivers, made, due>>

\* The driver answers.
AnswerInvitation(c) ==
    /\ FleetCallArrives(c)
    /\ \E i \in DOMAIN invitation, accept \in BOOLEAN :
         invitation[i].status = "pending" /\ FleetGoes(c, [pc |-> "respond", invitation |-> i, accept |-> accept])
    /\ UNCHANGED FleetDocs

\* The status is saved and, if accepted, the driver joins.
RespondToInvitation(c) ==
    \/ /\ fleetCall[c].pc = "respond"
       /\ invitation' = [invitation EXCEPT ![fleetCall[c].invitation].status =
                            IF fleetCall[c].accept THEN "accepted" ELSE "declined"]
       /\ FleetGoes(c, IF fleetCall[c].accept THEN [pc |-> "join", invitation |-> fleetCall[c].invitation] ELSE IdleCall)
       /\ UNCHANGED <<members, version, isActive, drivers, made, due>>
    \/ /\ fleetCall[c].pc = "join"
       /\ drivers' = drivers \cup {invitation[fleetCall[c].invitation].driver}
       /\ FleetGoes(c, IdleCall)
       /\ UNCHANGED <<members, version, isActive, invitation, made, due>>

FleetStep ==
    \E c \in FleetCalls :
        AddMember(c) \/ RemoveMember(c) \/ DeleteFleet(c) \/ UpdateFleet(c) \/ RequestInvitation(c) \/ InviteDriver(c) \/ AnswerInvitation(c) \/ RespondToInvitation(c)

-----------------------------------------------------------------------------
(* Correctness *)

\* No request of the owner undoes another by saving an array it read earlier: whoever was added and
\* not removed since is a member, and so is the owner.
NoMemberIsLost == \A u \in due \cup {Owner} : members[u] > 0
=============================================================================
