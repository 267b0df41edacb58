-------------------------- MODULE Services_proofs --------------------------
(***************************************************************************)
(* The services beside the escrow path, for any number of requests, users  *)
(* and documents.  Each service has an inductive invariant of its own; a   *)
(* step of the composition is a step of one service, and a stutter of the  *)
(* others.  Last come the two that compute: the tokenizer of bulk imports  *)
(* and the pooling of deliveries are recursive functions, and a set of     *)
(* numbers that has 0 and each number after one it has carries the         *)
(* induction along them.                                                   *)
(***************************************************************************)
EXTENDS Services, FiniteSetTheorems, SequenceTheorems, WellFoundedInduction, NaturalsInduction, TLAPS

-----------------------------------------------------------------------------
(* Fleets *)

\* What a request that saves the members knows: an array read at the current version is the array,
\* less the user who is removed.
MemberCall(call) ==
    /\ call.pc = "add" => call.user \in FleetUsers
    /\ call.pc = "remove" =>
         /\ call.user \in FleetUsers /\ call.left \in [FleetPeople -> Nat]
         /\ call.version \in Nat /\ call.version <= version
         /\ call.version = version => \A u \in FleetPeople \ {call.user} : call.left[u] = members[u]
    /\ call.pc = "invite" => call.user \in FleetUsers
    /\ call.pc \in {"respond", "join"} => call.invitation \in DOMAIN invitation
    /\ call.pc = "respond" => call.accept \in BOOLEAN

FleetInv ==
    /\ FleetTypeOK /\ NoMemberIsLost
    /\ DOMAIN fleetCall = FleetCalls
    /\ \A c \in FleetCalls : MemberCall(fleetCall[c])

\* A service's variables change by its own steps only.
LEMMA OthersRestFleets == [Next]_serviceVars => [FleetStep]_fleetVars
BY DEF Next, Play, serviceVars

LEMMA FleetStart == FleetInit => FleetInv
<1> SUFFICES ASSUME FleetInit PROVE FleetInv
  OBVIOUS
<1>1. FleetTypeOK
  BY FleetAssumption DEF FleetInit, FleetTypeOK, IdleCall, FleetPeople
<1>2. NoMemberIsLost
  BY FleetAssumption DEF FleetInit, NoMemberIsLost, FleetPeople
<1>3. DOMAIN fleetCall = FleetCalls /\ \A c \in FleetCalls : MemberCall(fleetCall[c])
  BY DEF FleetInit, MemberCall, IdleCall
<1> QED
  BY <1>1, <1>2, <1>3 DEF FleetInv

\* Requests that rest keep what they know: their array is outdated, or still the array.
FleetRests == (UNCHANGED <<members, version>> \/ version' = version + 1) /\ DOMAIN invitation \subseteq DOMAIN invitation'

LEMMA MemberCallsRest ==
    ASSUME FleetInv, FleetRests, NEW c \in FleetCalls, NEW rec, FleetGoes(c, rec), MemberCall(rec)'
    PROVE  DOMAIN fleetCall' = FleetCalls /\ \A d \in FleetCalls : MemberCall(fleetCall[d])'
<1>1. DOMAIN fleetCall' = FleetCalls
  BY DEF FleetGoes, FleetInv
<1>2. ASSUME NEW d \in FleetCalls PROVE MemberCall(fleetCall[d])'
  <2>1. CASE d = c
    BY <2>1 DEF FleetGoes, FleetInv
  <2>2. CASE d # c
    <3>1. fleetCall'[d] = fleetCall[d] /\ MemberCall(fleetCall[d]) /\ version \in Nat
      BY <2>2 DEF FleetGoes, FleetInv, FleetTypeOK
    <3>2. CASE UNCHANGED <<members, version>>
      BY <3>1, <3>2 DEF MemberCall, FleetRests
    <3>3. CASE version' = version + 1
      BY <3>1, <3>3 DEF MemberCall, FleetRests
    <3> QED
      BY <3>2, <3>3 DEF FleetRests
  <2> QED
    BY <2>1, <2>2
<1> QED
  BY <1>1, <1>2

\* The pc of a call after a step.
LEMMA FleetPcs ==
    ASSUME FleetInv, NEW c \in FleetCalls, NEW rec, FleetGoes(c, rec),
           rec.pc \in {"idle", "add", "remove", "delete", "update", "invite", "respond", "join"}
    PROVE  \A d \in FleetCalls : fleetCall'[d].pc \in {"idle", "add", "remove", "delete", "update", "invite", "respond", "join"}
BY DEF FleetGoes, FleetInv, FleetTypeOK

LEMMA IdleKnowsNothing == MemberCall(IdleCall)' /\ IdleCall.pc = "idle"
BY DEF MemberCall, IdleCall

\* A request that arrives changes no document.
LEMMA FleetArrival ==
    ASSUME FleetInv, NEW c \in FleetCalls, NEW rec, FleetCallArrives(c), FleetGoes(c, rec), UNCHANGED FleetDocs, MemberCall(rec)',
           rec.pc \in {"idle", "add", "remove", "delete", "update", "invite", "respond", "join"}
    PROVE  FleetInv'
<1>1. FleetTypeOK'
  BY FleetPcs, FleetAssumption DEF FleetInv, FleetTypeOK, FleetCallArrives, FleetDocs
<1>2. NoMemberIsLost'
  BY DEF FleetInv, NoMemberIsLost, FleetDocs
<1>3. FleetRests
  BY DEF FleetRests, FleetDocs
<1> QED
  BY <1>1, <1>2, <1>3, MemberCallsRest DEF FleetInv

\* A call that ends leaves its caller idle.
LEMMA FleetEnd ==
    ASSUME FleetInv, NEW c \in FleetCalls, NEW rec, FleetGoes(c, rec), FleetRests, UNCHANGED made, MemberCall(rec)',
           rec.pc \in {"idle", "add", "remove", "delete", "update", "invite", "respond", "join"},
           members' \in [FleetPeople -> Nat], version' \in Nat, isActive' \in BOOLEAN, drivers' \subseteq FleetUsers,
           invitation' \in Seq(InvitationDoc), Len(invitation') <= MaxInvitations, due' \subseteq FleetUsers,
           NoMemberIsLost'
    PROVE  FleetInv'
<1>1. FleetTypeOK'
  BY FleetPcs DEF FleetInv, FleetTypeOK
<1> QED
  BY <1>1, MemberCallsRest DEF FleetInv

LEMMA FleetMembers ==
    ASSUME FleetInv, NEW c \in FleetCalls, AddMember(c) \/ RemoveMember(c) PROVE FleetInv'
<1> USE DEF FleetInv
<1>1. ASSUME FleetCallArrives(c), NEW u \in FleetUsers, FleetGoes(c, [pc |-> "add", user |-> u]), UNCHANGED FleetDocs PROVE FleetInv'
  <2>1. PICK rec : rec = [pc |-> "add", user |-> u]
    OBVIOUS
  <2>2. MemberCall(rec)' /\ rec.pc = "add"
    BY <2>1 DEF MemberCall
  <2> QED
    BY <1>1, <2>1, <2>2, FleetArrival DEF FleetInv
<1>2. ASSUME FleetCallArrives(c), NEW u \in FleetUsers, members[u] > 0, UNCHANGED FleetDocs,
             FleetGoes(c, [pc |-> "remove", user |-> u, version |-> version, left |-> [members EXCEPT ![u] = @ - 1]])
      PROVE FleetInv'
  <2>1. PICK left : left = [members EXCEPT ![u] = @ - 1]
    OBVIOUS
  <2>2. members \in [FleetPeople -> Nat] /\ version \in Nat /\ u \in FleetPeople
    BY DEF FleetTypeOK, FleetPeople
  <2>3. left \in [FleetPeople -> Nat] /\ \A v \in FleetPeople \ {u} : left[v] = members[v]
    BY <1>2, <2>1, <2>2
  <2>4. PICK rec : rec = [pc |-> "remove", user |-> u, version |-> version, left |-> left]
    OBVIOUS
  <2>5. MemberCall(rec)' /\ rec.pc = "remove"
    BY <1>2, <2>2, <2>3, <2>4 DEF MemberCall, FleetDocs
  <2> QED
    BY <1>2, <2>1, <2>4, <2>5, FleetArrival DEF FleetInv
<1>3. ASSUME fleetCall[c].pc = "add", members' = [members EXCEPT ![fleetCall[c].user] = @ + 1],
             due' = due \cup {fleetCall[c].user}, version' = version + 1, FleetGoes(c, IdleCall),
             UNCHANGED <<isActive, drivers, invitation, made>>
      PROVE FleetInv'
  <2>1. PICK u \in FleetUsers : u = fleetCall[c].user
    BY <1>3 DEF MemberCall
  <2>2. members \in [FleetPeople -> Nat] /\ version \in Nat /\ u \in FleetPeople /\ due \subseteq FleetUsers
    BY DEF FleetTypeOK, FleetPeople
  <2>3. members' \in [FleetPeople -> Nat] /\ version' \in Nat /\ due' \subseteq FleetUsers
    BY <1>3, <2>1, <2>2
  <2>4. NoMemberIsLost'
    BY <1>3, <2>1, <2>2 DEF NoMemberIsLost, FleetPeople
  <2> QED
    BY <1>3, <2>3, <2>4, FleetEnd, IdleKnowsNothing DEF FleetRests, FleetInv, FleetTypeOK
<1>4. ASSUME fleetCall[c].pc = "remove",
             IF SaveMatches(fleetCall[c].version)
             THEN members' = fleetCall[c].left /\ version' = version + 1 /\ due' = due \ {fleetCall[c].user}
             ELSE UNCHANGED <<members, version, due>>,
             FleetGoes(c, IdleCall), UNCHANGED <<isActive, drivers, invitation, made>>
      PROVE FleetInv'
  <2>1. members \in [FleetPeople -> Nat] /\ version \in Nat /\ due \subseteq FleetUsers
    BY DEF FleetTypeOK
  <2>2. CASE SaveMatches(fleetCall[c].version)
    <3>1. PICK u \in FleetUsers, left \in [FleetPeople -> Nat] :
             u = fleetCall[c].user /\ left = fleetCall[c].left /\ \A v \in FleetPeople \ {u} : left[v] = members[v]
      BY <1>4, <2>2 DEF MemberCall, SaveMatches
    <3>2. members' = left /\ version' = version + 1 /\ due' = due \ {u}
      BY <1>4, <2>2, <3>1
    <3>3. NoMemberIsLost'
      BY <2>1, <3>1, <3>2, FleetAssumption DEF NoMemberIsLost, FleetPeople
    <3> QED
      BY <1>4, <2>1, <3>2, <3>3, FleetEnd, IdleKnowsNothing DEF FleetRests, FleetInv, FleetTypeOK
  <2>3. CASE ~SaveMatches(fleetCall[c].version)
    <3>1. NoMemberIsLost' /\ UNCHANGED <<members, version, due>>
      BY <1>4, <2>3 DEF NoMemberIsLost
    <3> QED
      BY <1>4, <2>1, <3>1, FleetEnd, IdleKnowsNothing DEF FleetRests, FleetInv, FleetTypeOK
  <2> QED
    BY <2>2, <2>3
<1> QED
  BY <1>1, <1>2, <1>3, <1>4, Zenon DEF AddMember, RemoveMember

LEMMA FleetInvitations ==
    ASSUME FleetInv, NEW c \in FleetCalls,
           RequestInvitation(c) \/ InviteDriver(c) \/ AnswerInvitation(c) \/ RespondToInvitation(c)
    PROVE  FleetInv'
<1> USE DEF FleetInv
<1>0. members \in [FleetPeople -> Nat] /\ version \in Nat /\ due \subseteq FleetUsers /\ isActive \in BOOLEAN
      /\ drivers \subseteq FleetUsers /\ invitation \in Seq(InvitationDoc) /\ Len(invitation) <= MaxInvitations
  BY DEF FleetTypeOK
<1>1. CASE RequestInvitation(c)
  <2>1. PICK u \in FleetUsers : FleetGoes(c, [pc |-> "invite", user |-> u])
    BY <1>1 DEF RequestInvitation
  <2>2. PICK rec : rec = [pc |-> "invite", user |-> u]
    OBVIOUS
  <2>3. MemberCall(rec)' /\ rec.pc = "invite"
    BY <2>2 DEF MemberCall
  <2> QED
    BY <1>1, <2>1, <2>2, <2>3, FleetArrival DEF RequestInvitation
<1>2. CASE InviteDriver(c)
  <2>1. invitation' \in Seq(InvitationDoc) /\ Len(invitation') <= MaxInvitations /\ DOMAIN invitation \subseteq DOMAIN invitation'
    <3>1. CASE invitation' = invitation
      BY <1>0, <3>1
    <3>2. CASE invitation' # invitation
      <4>1. PICK doc : doc = [driver |-> fleetCall[c].user, status |-> "pending"]
        OBVIOUS
      <4>2. doc \in InvitationDoc
        BY <1>2, <4>1 DEF InviteDriver, MemberCall, InvitationDoc
      <4>3. invitation' = Append(invitation, doc) /\ Len(invitation) # MaxInvitations
        BY <1>2, <3>2, <4>1 DEF InviteDriver
      <4> QED
        BY <1>0, <4>2, <4>3, FleetAssumption
    <3> QED
      BY <3>1, <3>2
  <2>2. NoMemberIsLost' /\ FleetRests
    BY <1>2, <2>1 DEF InviteDriver, NoMemberIsLost, FleetRests
  <2> QED
    BY <1>0, <1>2, <2>1, <2>2, FleetEnd, IdleKnowsNothing DEF InviteDriver
<1>3. CASE AnswerInvitation(c)
  <2>1. PICK i \in DOMAIN invitation, accept \in BOOLEAN : FleetGoes(c, [pc |-> "respond", invitation |-> i, accept |-> accept])
    BY <1>3 DEF AnswerInvitation
  <2>2. PICK rec : rec = [pc |-> "respond", invitation |-> i, accept |-> accept]
    OBVIOUS
  <2>3. MemberCall(rec)' /\ rec.pc = "respond"
    BY <1>3, <2>2 DEF MemberCall, AnswerInvitation, FleetDocs
  <2> QED
    BY <1>3, <2>1, <2>2, <2>3, FleetArrival DEF AnswerInvitation
<1>4. CASE RespondToInvitation(c) /\ fleetCall[c].pc = "respond"
  <2>1. PICK i \in DOMAIN invitation, accept \in BOOLEAN : i = fleetCall[c].invitation /\ accept = fleetCall[c].accept
    BY <1>4 DEF MemberCall
  <2>2. PICK s \in {"accepted", "declined"} : invitation' = [invitation EXCEPT ![i].status = s]
    BY <1>4, <2>1 DEF RespondToInvitation
  <2>3. \A j \in DOMAIN invitation : invitation[j] \in InvitationDoc
    BY <1>0
  <2>4. [invitation[i] EXCEPT !.status = s] \in InvitationDoc
    BY <2>3 DEF InvitationDoc
  <2>5. invitation' \in Seq(InvitationDoc) /\ Len(invitation') = Len(invitation) /\ DOMAIN invitation' = DOMAIN invitation
    BY <1>0, <2>2, <2>4
  <2>6. NoMemberIsLost' /\ FleetRests
    BY <1>4, <2>5 DEF RespondToInvitation, NoMemberIsLost, FleetRests
  <2>7. PICK rec : rec = IF accept THEN [pc |-> "join", invitation |-> i] ELSE IdleCall
    OBVIOUS
  <2>8. MemberCall(rec)' /\ rec.pc \in {"join", "idle"}
    BY <2>5, <2>7 DEF MemberCall, IdleCall
  <2>9. FleetGoes(c, rec)
    BY <1>4, <2>1, <2>7 DEF RespondToInvitation
  <2>10. UNCHANGED <<members, version, isActive, drivers, made, due>>
    BY <1>4 DEF RespondToInvitation
  <2> QED
    BY <1>0, <2>5, <2>6, <2>8, <2>9, <2>10, FleetEnd
<1>5. CASE RespondToInvitation(c) /\ fleetCall[c].pc # "respond"
  <2>1. /\ fleetCall[c].pc = "join" /\ drivers' = drivers \cup {invitation[fleetCall[c].invitation].driver}
        /\ FleetGoes(c, IdleCall) /\ UNCHANGED <<members, version, isActive, invitation, made, due>>
    BY <1>5 DEF RespondToInvitation
  <2>2. invitation[fleetCall[c].invitation] \in InvitationDoc
    BY <1>0, <2>1 DEF MemberCall
  <2>3. drivers' \subseteq FleetUsers
    BY <1>0, <2>1, <2>2 DEF InvitationDoc
  <2>4. NoMemberIsLost' /\ FleetRests
    BY <2>1 DEF NoMemberIsLost, FleetRests
  <2> QED
    BY <1>0, <2>1, <2>3, <2>4, FleetEnd, IdleKnowsNothing
<1> QED
  BY <1>1, <1>2, <1>3, <1>4, <1>5

LEMMA FleetSettings ==
    ASSUME FleetInv, NEW c \in FleetCalls, DeleteFleet(c) \/ UpdateFleet(c) PROVE FleetInv'
<1> USE DEF FleetInv
<1>0. members \in [FleetPeople -> Nat] /\ version \in Nat /\ due \subseteq FleetUsers /\ isActive \in BOOLEAN
      /\ drivers \subseteq FleetUsers /\ invitation \in Seq(InvitationDoc) /\ Len(invitation) <= MaxInvitations
  BY DEF FleetTypeOK
<1>1. ASSUME NEW p \in {"delete", "update"}, FleetCallArrives(c), FleetGoes(c, [pc |-> p]), UNCHANGED FleetDocs PROVE FleetInv'
  <2>1. PICK rec : rec = [pc |-> p]
    OBVIOUS
  <2>2. MemberCall(rec)' /\ rec.pc = p
    BY <2>1 DEF MemberCall
  <2> QED
    BY <1>1, <2>1, <2>2, FleetArrival
<1>2. ASSUME isActive' \in BOOLEAN, drivers' \subseteq FleetUsers, FleetGoes(c, IdleCall), UNCHANGED <<members, version, invitation, made, due>>
      PROVE FleetInv'
  <2>1. NoMemberIsLost' /\ FleetRests
    BY <1>2 DEF NoMemberIsLost, FleetRests
  <2> QED
    BY <1>0, <1>2, <2>1, FleetEnd, IdleKnowsNothing
<1>3. CASE DeleteFleet(c)
  <2>1. CASE FleetCallArrives(c) /\ FleetGoes(c, [pc |-> "delete"]) /\ UNCHANGED FleetDocs
    BY <1>1, <2>1
  <2>2. CASE isActive' = FALSE /\ FleetGoes(c, IdleCall) /\ UNCHANGED <<members, version, drivers, invitation, made, due>>
    BY <1>0, <1>2, <2>2
  <2> QED
    BY <1>3, <2>1, <2>2 DEF DeleteFleet
<1>4. CASE UpdateFleet(c)
  BY <1>1, <1>2, <1>4 DEF UpdateFleet
<1> QED
  BY <1>3, <1>4

LEMMA FleetKeeps == FleetInv /\ [FleetStep]_fleetVars => FleetInv'
<1> SUFFICES ASSUME FleetInv, [FleetStep]_fleetVars PROVE FleetInv'
  OBVIOUS
<1>1. CASE FleetStep
  BY <1>1, FleetMembers, FleetSettings, FleetInvitations DEF FleetStep
<1>2. CASE UNCHANGED fleetVars
  BY <1>2 DEF fleetVars, FleetInv, FleetTypeOK, NoMemberIsLost, MemberCall
<1> QED
  BY <1>1, <1>2

\* Whatever order the owner's requests read and save in, nobody who was added and not removed
\* since loses the membership, and the owner never does (fleetService.ts saves by version).
THEOREM MembersAreSafe == Spec => []NoMemberIsLost
<1>1. Init => FleetInv
  BY FleetStart DEF Init
<1>2. FleetInv /\ [Next]_serviceVars => FleetInv'
  BY FleetKeeps, OthersRestFleets
<1>3. FleetInv => NoMemberIsLost
  BY DEF FleetInv
<1> QED
  BY <1>1, <1>2, <1>3, PTL DEF Spec

-----------------------------------------------------------------------------
(* Disputes *)

\* What a request that saves a dispute knows of it.
DisputeCallOK(call) ==
    /\ call.pc \in {"idle", "create", "resolve", "evidence"}
    /\ call.pc = "create" => call.urls \in SUBSET Urls
    /\ call.pc \in {"resolve", "evidence"} => call.dispute \in DOMAIN dispute
    /\ call.pc = "resolve" => call.to \in DisputeStatus
    /\ call.pc = "evidence" =>
         /\ call.to \in SUBSET Urls
         /\ call.version \in Nat /\ call.version <= dispute[call.dispute].version
         /\ call.version = dispute[call.dispute].version => call.read = dispute[call.dispute].evidenceUrls

DisputeInv ==
    /\ deliveryActive \in BOOLEAN /\ disputeCalls \in 0..MaxDisputeCalls
    /\ dispute \in Seq(DisputeDoc) /\ Len(dispute) <= MaxDisputes
    /\ kept \in Seq(SUBSET Urls) /\ Len(kept) = Len(dispute)
    /\ EvidenceIsKept
    /\ DOMAIN disputeCall = DisputeCalls
    /\ \A c \in DisputeCalls : DisputeCallOK(disputeCall[c])

LEMMA OthersRestDisputes == [Next]_serviceVars => [DisputeStep]_disputeVars
BY DEF Next, Play, serviceVars

LEMMA DisputesAreTyped == DisputeInv => DisputeTypeOK
<1> SUFFICES ASSUME DisputeInv PROVE DisputeTypeOK
  OBVIOUS
<1>1. kept \in [DOMAIN dispute -> SUBSET Urls]
  BY DEF DisputeInv
<1> QED
  BY <1>1 DEF DisputeInv, DisputeTypeOK, DisputeCallOK

LEMMA DisputeStart == DisputeInit => DisputeInv
BY DisputeAssumption DEF DisputeInit, DisputeInv, EvidenceIsKept, DisputeCallOK, NoDisputeCall

LEMMA DisputesHaveVersions ==
    ASSUME DisputeInv PROVE \A i \in DOMAIN dispute : dispute[i] \in DisputeDoc /\ dispute[i].version \in Nat
<1>1. \A i \in DOMAIN dispute : dispute[i] \in DisputeDoc
  BY DEF DisputeInv
<1> QED
  BY <1>1 DEF DisputeDoc

\* Documents only grow: those there are keep their evidence as long as they keep their version.
DisputesRest ==
    /\ DOMAIN dispute \subseteq DOMAIN dispute'
    /\ \A i \in DOMAIN dispute :
         /\ dispute'[i].version \in Nat /\ dispute'[i].version >= dispute[i].version
         /\ dispute'[i].version = dispute[i].version => dispute'[i].evidenceUrls = dispute[i].evidenceUrls

LEMMA DisputeCallsRest ==
    ASSUME DisputeInv, DisputesRest, NEW c \in DisputeCalls, NEW rec, DisputeGoes(c, rec), DisputeCallOK(rec)'
    PROVE  DOMAIN disputeCall' = DisputeCalls /\ \A d \in DisputeCalls : DisputeCallOK(disputeCall[d])'
<1>1. DOMAIN disputeCall' = DisputeCalls
  BY DEF DisputeGoes, DisputeInv
<1>2. ASSUME NEW d \in DisputeCalls PROVE DisputeCallOK(disputeCall[d])'
  <2>1. CASE d = c
    BY <2>1 DEF DisputeGoes, DisputeInv
  <2>2. CASE d # c
    <3>1. disputeCall'[d] = disputeCall[d] /\ DisputeCallOK(disputeCall[d])
      BY <2>2 DEF DisputeGoes, DisputeInv
    <3>2. \A i \in DOMAIN dispute : dispute[i].version \in Nat
      BY DisputesHaveVersions
    <3> QED
      BY <3>1, <3>2 DEF DisputeCallOK, DisputesRest
  <2> QED
    BY <2>1, <2>2
<1> QED
  BY <1>1, <1>2

LEMMA NoDisputeCallOK == DisputeCallOK(NoDisputeCall)'
BY DEF DisputeCallOK, NoDisputeCall

\* A request that arrives changes no document.
LEMMA DisputeArrival ==
    ASSUME DisputeInv, NEW c \in DisputeCalls, NEW rec, DisputeCallArrives(c), DisputeGoes(c, rec), UNCHANGED DisputeDocs,
           DisputeCallOK(rec)
    PROVE  DisputeInv'
<1>1. DisputesRest
  BY DisputesHaveVersions DEF DisputesRest, DisputeDocs
<1>2. DisputeCallOK(rec)'
  BY DEF DisputeCallOK, DisputeDocs
<1>3. EvidenceIsKept' /\ disputeCalls' \in 0..MaxDisputeCalls
  BY DisputeAssumption DEF EvidenceIsKept, DisputeDocs, DisputeInv, DisputeCallArrives
<1> QED
  BY <1>1, <1>2, <1>3, DisputeCallsRest DEF DisputeInv, DisputeDocs

\* A new document starts with the evidence that came with it.
LEMMA DisputeIsNew ==
    ASSUME DisputeInv, NEW onChain \in BOOLEAN, NEW urls \in SUBSET Urls, NewDispute(onChain, urls)
    PROVE  /\ DisputesRest /\ EvidenceIsKept'
           /\ dispute' \in Seq(DisputeDoc) /\ Len(dispute') <= MaxDisputes
           /\ kept' \in Seq(SUBSET Urls) /\ Len(kept') = Len(dispute')
<1>1. PICK doc : doc = [onChain |-> onChain, status |-> "open", evidenceUrls |-> urls, version |-> 0]
  OBVIOUS
<1>2. doc \in DisputeDoc /\ doc.evidenceUrls = urls
  BY <1>1 DEF DisputeDoc, DisputeStatus
<1>3. dispute' = Append(dispute, doc) /\ kept' = Append(kept, urls) /\ Len(dispute) < MaxDisputes
  BY <1>1 DEF NewDispute
<1>4. dispute \in Seq(DisputeDoc) /\ kept \in Seq(SUBSET Urls) /\ Len(kept) = Len(dispute) /\ EvidenceIsKept
  BY DEF DisputeInv
<1>5. /\ dispute' \in Seq(DisputeDoc) /\ Len(dispute') = Len(dispute) + 1
      /\ kept' \in Seq(SUBSET Urls) /\ Len(kept') = Len(dispute) + 1
  BY <1>2, <1>3, <1>4
<1>6. \A i \in DOMAIN dispute : i \in DOMAIN dispute' /\ dispute'[i] = dispute[i] /\ kept'[i] = kept[i]
  BY <1>3, <1>4
<1>7. dispute'[Len(dispute) + 1] = doc /\ kept'[Len(dispute) + 1] = urls
  BY <1>3, <1>4
<1>8. DisputesRest
  BY <1>6, DisputesHaveVersions DEF DisputesRest
<1>9. EvidenceIsKept'
  <2>1. SUFFICES ASSUME NEW i \in DOMAIN dispute' PROVE kept'[i] \subseteq dispute'[i].evidenceUrls
    BY DEF EvidenceIsKept
  <2>2. i \in DOMAIN dispute \/ i = Len(dispute) + 1
    BY <1>4, <1>5
  <2> QED
    BY <1>2, <1>4, <1>6, <1>7, <2>2 DEF EvidenceIsKept
<1> QED
  BY <1>3, <1>4, <1>5, <1>8, <1>9, DisputeAssumption

LEMMA DisputeArrivals ==
    ASSUME DisputeInv, NEW c \in DisputeCalls,
           OpenDispute(c) \/ ResolveDisputeController(c) \/ AddEvidenceController(c) \/ UpdateDisputeController(c) \/ HandleDisputeResolved(c)
    PROVE  DisputeInv'
<1>0. \A i \in DOMAIN dispute : dispute[i] \in DisputeDoc
  BY DEF DisputeInv
<1>1. CASE OpenDispute(c)
  <2>1. PICK urls \in SUBSET Urls : DisputeGoes(c, [pc |-> "create", urls |-> urls])
    BY <1>1 DEF OpenDispute
  <2>2. PICK rec : rec = [pc |-> "create", urls |-> urls]
    OBVIOUS
  <2>3. DisputeCallOK(rec)
    BY <2>2 DEF DisputeCallOK
  <2> QED
    BY <1>1, <2>1, <2>2, <2>3, DisputeArrival DEF OpenDispute
<1>2. CASE ResolveDisputeController(c) \/ HandleDisputeResolved(c)
  <2>1. PICK i \in DOMAIN dispute, s \in DisputeStatus :
           DisputeGoes(c, [pc |-> "resolve", dispute |-> i, read |-> dispute[i].status, to |-> s])
    BY <1>2 DEF ResolveDisputeController, ResolveDispute, HandleDisputeResolved, ResolveDisputeFromEvent, DisputeStatus
  <2>2. PICK rec : rec = [pc |-> "resolve", dispute |-> i, read |-> dispute[i].status, to |-> s]
    OBVIOUS
  <2>3. DisputeCallOK(rec)
    BY <2>2 DEF DisputeCallOK
  <2> QED
    BY <1>2, <2>1, <2>2, <2>3, DisputeArrival DEF ResolveDisputeController, HandleDisputeResolved
<1>3. CASE AddEvidenceController(c) \/ UpdateDisputeController(c)
  <2>1. PICK i \in DOMAIN dispute, urls \in SUBSET Urls : WriteEvidence(c, i, urls)
    <3>1. CASE AddEvidenceController(c)
      <4>1. PICK i \in DOMAIN dispute, urls \in SUBSET Urls : WriteEvidence(c, i, dispute[i].evidenceUrls \cup urls)
        BY <3>1 DEF AddEvidenceController, AddEvidence
      <4>2. dispute[i].evidenceUrls \cup urls \in SUBSET Urls
        BY <1>0 DEF DisputeDoc
      <4> QED
        BY <4>1, <4>2
    <3>2. CASE UpdateDisputeController(c)
      BY <3>2 DEF UpdateDisputeController, UpdateDispute
    <3> QED
      BY <1>3, <3>1, <3>2
  <2>2. PICK rec : rec = [pc |-> "evidence", dispute |-> i, read |-> dispute[i].evidenceUrls, to |-> urls, version |-> dispute[i].version]
    OBVIOUS
  <2>3. dispute[i].version \in Nat
    BY <1>0 DEF DisputeDoc
  <2>4. DisputeCallOK(rec)
    BY <2>2, <2>3 DEF DisputeCallOK
  <2> QED
    BY <1>3, <2>1, <2>2, <2>4, DisputeArrival DEF AddEvidenceController, UpdateDisputeController, WriteEvidence
<1> QED
  BY <1>1, <1>2, <1>3

LEMMA DisputeSaves ==
    ASSUME DisputeInv, NEW c \in DisputeCalls, CreateDispute(c) \/ SaveStatus(c) \/ SaveEvidence(c)
    PROVE  DisputeInv'
<1>0. /\ dispute \in Seq(DisputeDoc) /\ kept \in Seq(SUBSET Urls) /\ Len(kept) = Len(dispute) /\ EvidenceIsKept
      /\ \A i \in DOMAIN dispute : dispute[i] \in DisputeDoc
      /\ DisputeCallOK(disputeCall[c])
  BY DEF DisputeInv
<1>1. CASE CreateDispute(c)
  <2>1. disputeCall[c].urls \in SUBSET Urls /\ NewDispute(FALSE, disputeCall[c].urls)
    BY <1>0, <1>1 DEF CreateDispute, DisputeCallOK
  <2> QED
    BY <1>1, <2>1, DisputeIsNew, DisputeCallsRest, NoDisputeCallOK DEF CreateDispute, DisputeInv
<1>2. CASE SaveStatus(c)
  <2>1. PICK i \in DOMAIN dispute, s \in DisputeStatus : i = disputeCall[c].dispute /\ s = disputeCall[c].to
    BY <1>0, <1>2 DEF SaveStatus, DisputeCallOK
  <2>2. CASE dispute' = dispute
    <3>1. DisputesRest /\ EvidenceIsKept'
      BY <1>0, <1>2, <2>2, DisputesHaveVersions DEF SaveStatus, DisputesRest, EvidenceIsKept
    <3> QED
      BY <1>2, <2>2, <3>1, DisputeCallsRest, NoDisputeCallOK DEF SaveStatus, DisputeInv
  <2>3. CASE dispute' # dispute
    <3>1. dispute' = [dispute EXCEPT ![i].status = s]
      BY <1>2, <2>1, <2>3 DEF SaveStatus
    <3>2. PICK new : new = [dispute[i] EXCEPT !.status = s]
      OBVIOUS
    <3>3. new \in DisputeDoc /\ new.evidenceUrls = dispute[i].evidenceUrls /\ new.version = dispute[i].version
      BY <1>0, <3>2 DEF DisputeDoc
    <3>4. dispute' = [dispute EXCEPT ![i] = new]
      BY <3>1, <3>2
    <3>5. dispute' \in Seq(DisputeDoc) /\ Len(dispute') = Len(dispute) /\ DOMAIN dispute' = DOMAIN dispute
      BY <1>0, <3>3, <3>4
    <3>6. \A j \in DOMAIN dispute : dispute'[j].evidenceUrls = dispute[j].evidenceUrls /\ dispute'[j].version = dispute[j].version
      BY <1>0, <3>3, <3>4
    <3>7. DisputesRest /\ EvidenceIsKept'
      BY <1>0, <1>2, <3>5, <3>6 DEF DisputesRest, EvidenceIsKept, DisputeDoc, SaveStatus
    <3> QED
      BY <1>2, <3>5, <3>7, DisputeCallsRest, NoDisputeCallOK DEF SaveStatus, DisputeInv
  <2> QED
    BY <2>2, <2>3
<1>3. CASE SaveEvidence(c)
  <2>1. PICK i \in DOMAIN dispute, urls \in SUBSET Urls : i = disputeCall[c].dispute /\ urls = disputeCall[c].to
    BY <1>0, <1>3 DEF SaveEvidence, DisputeCallOK
  <2>2. CASE UNCHANGED <<dispute, kept>>
    BY <1>0, <1>3, <2>2, DisputeCallsRest, NoDisputeCallOK DEF SaveEvidence, DisputeInv, DisputesRest, EvidenceIsKept, DisputeDoc
  <2>3. CASE ~UNCHANGED <<dispute, kept>>
    <3>1. /\ dispute' = [dispute EXCEPT ![i].evidenceUrls = urls, ![i].version = @ + 1]
          /\ kept' = [kept EXCEPT ![i] = (@ \ disputeCall[c].read) \cup urls]
          /\ disputeCall[c].version = dispute[i].version
      BY <1>3, <2>1, <2>3 DEF SaveEvidence, IsCurrent
    <3>2. disputeCall[c].read = dispute[i].evidenceUrls
      BY <1>0, <1>3, <2>1, <3>1 DEF SaveEvidence, DisputeCallOK
    <3>3. PICK new : new = [dispute[i] EXCEPT !.evidenceUrls = urls, !.version = @ + 1]
      OBVIOUS
    <3>4. new \in DisputeDoc /\ new.evidenceUrls = urls /\ new.version = dispute[i].version + 1
      <4>1. dispute[i] \in DisputeDoc
        BY <1>0
      <4>2. dispute[i].version + 1 \in Nat
        BY DisputesHaveVersions
      <4>3. PICK read : read = [dispute[i] EXCEPT !.evidenceUrls = urls]
        OBVIOUS
      <4>4. read \in DisputeDoc /\ read.version = dispute[i].version /\ read.evidenceUrls = urls
        BY <4>1, <4>3 DEF DisputeDoc
      <4>5. new = [read EXCEPT !.version = dispute[i].version + 1]
        BY <3>3, <4>1, <4>3 DEF DisputeDoc
      <4> QED
        BY <4>2, <4>4, <4>5 DEF DisputeDoc
    <3>5. dispute' = [dispute EXCEPT ![i] = new]
      BY <3>1, <3>3
    <3>6. dispute' \in Seq(DisputeDoc) /\ Len(dispute') = Len(dispute) /\ DOMAIN dispute' = DOMAIN dispute
      BY <1>0, <3>4, <3>5
    <3>7. kept[i] \subseteq dispute[i].evidenceUrls /\ i \in DOMAIN kept
      BY <1>0 DEF EvidenceIsKept
    <3>8. kept' = [kept EXCEPT ![i] = urls]
      BY <3>1, <3>2, <3>7
    <3>9. kept' \in Seq(SUBSET Urls) /\ Len(kept') = Len(kept)
      BY <1>0, <3>7, <3>8
    <3>10. dispute'[i] = new /\ kept'[i] = urls /\ \A j \in DOMAIN dispute \ {i} : dispute'[j] = dispute[j] /\ kept'[j] = kept[j]
      BY <1>0, <3>5, <3>7, <3>8
    <3>11. EvidenceIsKept'
      BY <1>0, <3>4, <3>6, <3>10 DEF EvidenceIsKept
    <3>12. DisputesRest
      BY <1>0, <3>4, <3>6, <3>10 DEF DisputesRest, DisputeDoc
    <3> QED
      BY <1>0, <1>3, <3>6, <3>9, <3>11, <3>12, DisputeCallsRest, NoDisputeCallOK DEF SaveEvidence, DisputeInv
  <2> QED
    BY <2>2, <2>3
<1> QED
  BY <1>1, <1>2, <1>3

LEMMA DisputeKeeps == DisputeInv /\ [DisputeStep]_disputeVars => DisputeInv'
<1> SUFFICES ASSUME DisputeInv, [DisputeStep]_disputeVars PROVE DisputeInv'
  OBVIOUS
<1>1. ASSUME NEW c \in DisputeCalls,
             \/ OpenDispute(c) \/ CreateDispute(c) \/ ResolveDisputeController(c)
             \/ AddEvidenceController(c) \/ UpdateDisputeController(c)
             \/ SaveStatus(c) \/ SaveEvidence(c) \/ HandleDisputeResolved(c)
      PROVE DisputeInv'
  BY <1>1, DisputeArrivals, DisputeSaves
<1>2. CASE HandleDisputeOpened
  <2>1. NewDispute(TRUE, {}) /\ UNCHANGED <<deliveryActive, disputeCall, disputeCalls>> /\ {} \in SUBSET Urls
    BY <1>2 DEF HandleDisputeOpened, OpenDisputeFromEvent
  <2>2. DisputesRest /\ \A i \in DOMAIN dispute : dispute[i].version \in Nat
    BY <2>1, DisputeIsNew, DisputesHaveVersions
  <2>3. \A d \in DisputeCalls : DisputeCallOK(disputeCall[d])'
    BY <2>1, <2>2 DEF DisputeInv, DisputeCallOK, DisputesRest
  <2> QED
    BY <2>1, <2>3, DisputeIsNew DEF DisputeInv
<1>3. CASE DeliveryIsOver \/ UNCHANGED disputeVars
  BY <1>3 DEF DeliveryIsOver, disputeVars, DisputeInv, EvidenceIsKept, DisputeCallOK
<1> QED
  BY <1>1, <1>2, <1>3 DEF DisputeStep

\* Evidence that a request recorded is never overwritten by a request that had not read it: the
\* array is written only at the version that was read (disputeService.ts, addEvidence and updateDispute).
THEOREM EvidenceIsSafe == Spec => []EvidenceIsKept
<1>1. Init => DisputeInv
  BY DisputeStart DEF Init
<1>2. DisputeInv /\ [Next]_serviceVars => DisputeInv'
  BY DisputeKeeps, OthersRestDisputes
<1>3. DisputeInv => EvidenceIsKept
  BY DEF DisputeInv
<1> QED
  BY <1>1, <1>2, <1>3, PTL DEF Spec

-----------------------------------------------------------------------------
(* Escrow syncs *)

\* A request applies events of its topic, and those it processed are accounted for.
SyncCallOK(call) ==
    /\ call \in SyncCall
    /\ call.todo \subseteq {i \in DOMAIN chain : chain[i].topic = call.topic}
    /\ call.pc = "write" => call.todo # {}
    /\ call.processed \subseteq Accounted

OthersOK ==
    /\ DOMAIN other = Others /\ (\A o \in Others : other[o] \in OtherCall)
    /\ elsewhere \in BOOLEAN /\ others \in 0..MaxOthers

SyncInv ==
    /\ chain \in Seq(ChainEvent) /\ Len(chain) <= MaxChainEvents
    /\ escrowDoc \in EscrowDoc
    /\ confirmed \subseteq Ledgers /\ unfounded \subseteq Ledgers
    /\ syncs \in 0..MaxSyncs /\ syncFaults \in 0..MaxSyncFaults
    /\ \A i, j \in DOMAIN chain : chain[i].topic # "funded" /\ chain[j].topic # "funded" => i = j
    /\ DOMAIN polling = SyncRequests
    /\ \A r \in SyncRequests : SyncCallOK(polling[r])
    /\ OthersOK
    /\ SyncReportIsTrue

LEMMA OthersRestSyncs == [Next]_serviceVars => [SyncStep]_syncVars
BY DEF Next, Play, serviceVars

LEMMA SyncsAreTyped == SyncInv => SyncTypeOK
BY DEF SyncInv, SyncTypeOK, SyncCallOK, OthersOK

LEMMA IdleSyncIsSound == SyncCallOK(IdleSync) /\ SyncCallOK(IdleSync)'
<1>1. 1 \in Ledgers
  BY SyncAssumption DEF Ledgers
<1>2. IdleSync \in SyncCall
  BY <1>1 DEF IdleSync, SyncCall, SyncTopics
<1> QED
  BY <1>2 DEF SyncCallOK, IdleSync

LEMMA NoOtherIsTyped == NoOther \in OtherCall
BY DEF NoOther, OtherCall, EscrowStatuses

LEMMA SyncStart == SyncInit => SyncInv
<1> SUFFICES ASSUME SyncInit PROVE SyncInv
  OBVIOUS
<1>1. DOMAIN polling = SyncRequests /\ \A r \in SyncRequests : SyncCallOK(polling[r])
  BY IdleSyncIsSound DEF SyncInit
<1>2. escrowDoc \in EscrowDoc /\ escrowDoc.status \notin TERMINAL_STATUSES
  BY DEF SyncInit, EscrowDoc, EscrowStatuses, TERMINAL_STATUSES
<1>3. OthersOK
  <2>1. DOMAIN other = Others /\ \A o \in Others : other[o] \in OtherCall
    BY NoOtherIsTyped DEF SyncInit
  <2>2. elsewhere = FALSE /\ others = 0
    BY DEF SyncInit
  <2>3. 0 \in 0..MaxOthers
    BY SyncAssumption
  <2> QED
    BY <2>1, <2>2, <2>3 DEF OthersOK
<1> QED
  BY <1>1, <1>2, <1>3, SyncAssumption DEF SyncInit, SyncInv, SyncReportIsTrue

\* A set of numbers that is not empty has a least one.
LEMMA HasLeast ==
    ASSUME NEW S, S \subseteq Nat, S # {}
    PROVE  \E o \in S : \A n \in S : o <= n
<1> DEFINE Below == {p \in Nat \X Nat : p[1] < p[2]}
<1>1. IsWellFoundedOn(Below, Nat)
  BY NatLessThanWellFounded DEF OpToRel
<1>2. \A x, y \in Nat : x < y => <<x, y>> \in Below
  OBVIOUS
<1> HIDE DEF Below
<1>3. PICK o \in S : \A n \in S : ~(<<n, o>> \in Below)
  BY <1>1, WFMin
<1>4. \A n \in S : n \in Nat /\ o \in Nat /\ ~(n < o)
  BY <1>2, <1>3
<1> QED
  BY <1>4

\* The event at hand is one of those to do.
LEMMA FirstIsDue ==
    ASSUME SyncInv, NEW r \in SyncRequests, polling[r].todo # {}
    PROVE  First(r) \in polling[r].todo /\ First(r) \in DOMAIN chain /\ First(r) \in Ledgers
           /\ chain[First(r)].topic = polling[r].topic
<1>1. polling[r].todo \subseteq Ledgers /\ polling[r].todo \subseteq {i \in DOMAIN chain : chain[i].topic = polling[r].topic}
  BY DEF SyncInv, SyncCallOK, SyncCall
<1>2. \E o \in polling[r].todo : \A n \in polling[r].todo : o <= n
  BY <1>1, HasLeast, SyncAssumption DEF Ledgers
<1>3. First(r) \in polling[r].todo
  BY <1>2, Zenon DEF First
<1> QED
  BY <1>1, <1>3

\* What every step but the contract's keeps.
LEMMA SyncMoves ==
    ASSUME SyncInv, NEW r \in SyncRequests, NEW new, polling' = [polling EXCEPT ![r] = new], SyncCallOK(new)',
           chain' = chain, escrowDoc' \in EscrowDoc, UNCHANGED otherVars,
           confirmed' \subseteq Ledgers, unfounded' \subseteq Ledgers,
           syncs' \in 0..MaxSyncs, syncFaults' \in 0..MaxSyncFaults,
           Accounted \subseteq Accounted', SyncReportIsTrue'
    PROVE  SyncInv'
<1>1. DOMAIN polling' = SyncRequests
  BY DEF SyncInv
<1>2. ASSUME NEW q \in SyncRequests PROVE SyncCallOK(polling[q])'
  <2>1. CASE q = r
    BY <2>1 DEF SyncInv
  <2>2. CASE q # r
    <3>1. polling'[q] = polling[q] /\ SyncCallOK(polling[q])
      BY <2>2 DEF SyncInv
    <3> QED
      BY <3>1 DEF SyncCallOK
  <2> QED
    BY <2>1, <2>2
<1> QED
  BY <1>1, <1>2 DEF SyncInv, OthersOK, otherVars

\* The same, where no document changes.
LEMMA SyncMovesQuietly ==
    ASSUME SyncInv, NEW r \in SyncRequests, NEW new, polling' = [polling EXCEPT ![r] = new], SyncCallOK(new),
           UNCHANGED <<chain, escrowDoc, confirmed, unfounded, otherVars>>,
           syncs' \in 0..MaxSyncs, syncFaults' \in 0..MaxSyncFaults
    PROVE  SyncInv'
<1>1. Accounted' = Accounted
  BY DEF Accounted, otherVars
<1>2. SyncCallOK(new)' /\ SyncReportIsTrue'
  BY <1>1 DEF SyncCallOK, SyncInv, SyncReportIsTrue, otherVars
<1> QED
  BY <1>1, <1>2, SyncMoves DEF SyncInv

\* A failing read or write, and what leaves all but the request alone.
LEMMA SyncRest ==
    ASSUME SyncInv, SyncFault \/ Unchanged
    PROVE  UNCHANGED <<chain, escrowDoc, confirmed, unfounded, otherVars>> /\ syncs' \in 0..MaxSyncs /\ syncFaults' \in 0..MaxSyncFaults
BY SyncAssumption DEF SyncFault, Unchanged, SyncInv

LEMMA SyncThrows ==
    ASSUME SyncInv, NEW r \in SyncRequests, Throws(r), SyncFault \/ Unchanged PROVE SyncInv'
BY SyncRest, SyncMovesQuietly, IdleSyncIsSound DEF Throws


LEMMA SyncCallFields ==
    ASSUME SyncInv, NEW r \in SyncRequests
    PROVE  /\ polling[r] \in SyncCall
           /\ polling[r].todo \subseteq {i \in DOMAIN chain : chain[i].topic = polling[r].topic}
           /\ polling[r].processed \subseteq Accounted
           /\ r \in DOMAIN polling
BY DEF SyncInv, SyncCallOK

LEMMA SyncIgnores ==
    ASSUME SyncInv, NEW r \in SyncRequests, polling[r].todo # {}, Ignored(r), SyncFault \/ Unchanged PROVE SyncInv'
<1>1. PICK new : new = [polling[r] EXCEPT !.pc = "next", !.todo = @ \ {First(r)}]
  OBVIOUS
<1>2. polling' = [polling EXCEPT ![r] = new]
  BY <1>1, SyncCallFields DEF Ignored
<1>3. new \in SyncCall /\ new.todo = polling[r].todo \ {First(r)} /\ new.processed = polling[r].processed
      /\ new.topic = polling[r].topic /\ new.pc = "next"
  BY <1>1, SyncCallFields DEF SyncCall
<1>4. SyncCallOK(new)
  BY <1>3, SyncCallFields DEF SyncCallOK
<1> QED
  BY <1>2, <1>4, SyncRest, SyncMovesQuietly

\* An event that is processed is accounted for.
LEMMA SyncProcesses ==
    ASSUME SyncInv, NEW r \in SyncRequests, polling[r].todo # {}, Processed(r),
           chain' = chain, Accounted \subseteq Accounted', First(r) \in Accounted'
    PROVE  \E new : polling' = [polling EXCEPT ![r] = new] /\ SyncCallOK(new)'
<1>1. PICK new : new = [polling[r] EXCEPT !.pc = "next", !.todo = @ \ {First(r)}, !.processed = @ \cup {First(r)}]
  OBVIOUS
<1>2. polling' = [polling EXCEPT ![r] = new]
  BY <1>1, SyncCallFields DEF Processed
<1>3. new \in SyncCall /\ new.todo = polling[r].todo \ {First(r)} /\ new.processed = polling[r].processed \cup {First(r)}
      /\ new.topic = polling[r].topic /\ new.pc = "next"
  <2>1. PICK i \in Ledgers : i = First(r)
    BY FirstIsDue
  <2>2. new = [polling[r] EXCEPT !.pc = "next", !.todo = @ \ {i}, !.processed = @ \cup {i}]
    BY <1>1, <2>1
  <2>3. polling[r] \in SyncCall
    BY SyncCallFields
  <2>4. new \in SyncCall /\ new.todo = polling[r].todo \ {i} /\ new.processed = polling[r].processed \cup {i}
        /\ new.topic = polling[r].topic /\ new.pc = "next"
    BY <2>2, <2>3 DEF SyncCall
  <2> QED
    BY <2>1, <2>4
<1>4. SyncCallOK(new)'
  BY <1>3, SyncCallFields DEF SyncCallOK
<1> QED
  BY <1>2, <1>4

LEMMA SyncSkips ==
    ASSUME SyncInv, NEW r \in SyncRequests, polling[r].todo # {}, Processed(r), Unchanged, First(r) \in escrowDoc.hashes
    PROVE  SyncInv'
<1>1. UNCHANGED <<chain, escrowDoc, confirmed, unfounded, otherVars>> /\ Accounted' = Accounted /\ First(r) \in Accounted
  BY DEF Unchanged, Accounted, otherVars
<1>2. PICK new : polling' = [polling EXCEPT ![r] = new] /\ SyncCallOK(new)'
  BY <1>1, SyncProcesses
<1>3. SyncCallOK(new)
  BY <1>1, <1>2 DEF SyncCallOK
<1> QED
  BY <1>2, <1>3, SyncRest, SyncMovesQuietly

LEMMA SyncRequested ==
    ASSUME SyncInv, NEW r \in SyncRequests, NEW t \in SyncTopics, Request(r, t) PROVE SyncInv'
<1>1. PICK s \in Ledgers : polling' = [polling EXCEPT ![r] = [IdleSync EXCEPT !.pc = "poll", !.topic = t, !.start = s]]
  BY DEF Request
<1>2. PICK new : new = [IdleSync EXCEPT !.pc = "poll", !.topic = t, !.start = s]
  OBVIOUS
<1>3. new = [pc |-> "poll", topic |-> t, start |-> s, todo |-> {}, found |-> FALSE, processed |-> {}]
  BY <1>2 DEF IdleSync
<1>4. SyncCallOK(new)
  BY <1>3 DEF SyncCallOK, SyncCall
<1>5. UNCHANGED <<chain, escrowDoc, confirmed, unfounded, otherVars>> /\ syncs' \in 0..MaxSyncs /\ syncFaults' \in 0..MaxSyncFaults
  BY SyncAssumption DEF Request, SyncInv
<1> QED
  BY <1>1, <1>2, <1>4, <1>5, SyncMovesQuietly

LEMMA SyncGets ==
    ASSUME SyncInv, NEW r \in SyncRequests, GetEvents(r) \/ GetEventsFails(r) \/ Summarise(r) PROVE SyncInv'
<1>1. CASE GetEvents(r)
  <2> DEFINE S == {i \in DOMAIN chain : i >= polling[r].start /\ chain[i].topic = polling[r].topic}
  <2>1. PICK new : new = [polling[r] EXCEPT !.pc = "next", !.start = 1, !.todo = S]
    OBVIOUS
  <2>2. polling' = [polling EXCEPT ![r] = new]
    BY <1>1, <2>1, SyncCallFields DEF GetEvents
  <2>3. S \subseteq {i \in DOMAIN chain : chain[i].topic = polling[r].topic} /\ S \in SUBSET Ledgers /\ 1 \in Ledgers
    BY SyncAssumption DEF SyncInv, Ledgers
  <2> HIDE DEF S
  <2>4. new \in SyncCall /\ new.todo = S /\ new.topic = polling[r].topic /\ new.processed = polling[r].processed /\ new.pc = "next"
    BY <2>1, <2>3, SyncCallFields DEF SyncCall
  <2>5. SyncCallOK(new)
    BY <2>3, <2>4, SyncCallFields DEF SyncCallOK
  <2> QED
    BY <1>1, <2>2, <2>5, SyncMovesQuietly DEF GetEvents, SyncInv
<1>2. CASE GetEventsFails(r)
  BY <1>2, SyncThrows DEF GetEventsFails
<1>3. CASE Summarise(r)
  <2>1. polling[r].processed \subseteq Ledgers
    BY SyncCallFields DEF SyncCall
  <2>2. Accounted' = Accounted
    BY <1>3 DEF Summarise, Accounted, otherVars
  <2>3. SyncReportIsTrue'
    BY <1>3, <2>2, SyncCallFields DEF Summarise, SyncInv, SyncReportIsTrue, otherVars
  <2> QED
    BY <1>3, <2>1, <2>2, <2>3, SyncMoves, IdleSyncIsSound DEF Summarise, SyncInv
<1> QED
  BY <1>1, <1>2, <1>3

\* The step of a request to its write.
LEMMA SyncReaches ==
    ASSUME SyncInv, NEW r \in SyncRequests, NEW b \in BOOLEAN, polling[r].todo # {}, Unchanged,
           polling' = [polling EXCEPT ![r].pc = "write", ![r].found = b]
    PROVE  SyncInv'
<1>1. PICK new : new = [polling[r] EXCEPT !.pc = "write", !.found = b]
  OBVIOUS
<1>2. polling' = [polling EXCEPT ![r] = new]
  BY <1>1, SyncCallFields
<1>3. new \in SyncCall /\ new.todo = polling[r].todo /\ new.topic = polling[r].topic /\ new.processed = polling[r].processed
  BY <1>1, SyncCallFields DEF SyncCall
<1>4. SyncCallOK(new)
  BY <1>3, SyncCallFields DEF SyncCallOK
<1> QED
  BY <1>2, <1>4, SyncRest, SyncMovesQuietly

\* The write of an event that goes on record with the status s.
LEMMA SyncRecords ==
    ASSUME SyncInv, NEW r \in SyncRequests, polling[r].todo # {}, NEW s \in {"locked", "released", "refunded"},
           s = "locked" \/ s = polling[r].topic,
           escrowDoc' = [status |-> s, hashes |-> escrowDoc.hashes \cup {First(r)}], Processed(r),
           UNCHANGED <<chain, confirmed, unfounded, otherVars, syncs, syncFaults>>
    PROVE  SyncInv'
<1>1. First(r) \in DOMAIN chain /\ First(r) \in Ledgers /\ chain[First(r)].topic = polling[r].topic
  BY FirstIsDue
<1>2. escrowDoc.hashes \subseteq Ledgers
  BY DEF SyncInv, EscrowDoc
<1>3. escrowDoc' \in EscrowDoc /\ escrowDoc'.hashes = escrowDoc.hashes \cup {First(r)} /\ escrowDoc'.status = s
  BY <1>1, <1>2 DEF EscrowDoc, EscrowStatuses
<1>4. Accounted \subseteq Accounted' /\ First(r) \in Accounted'
  BY <1>3 DEF Accounted, otherVars
<1>5. PICK new : polling' = [polling EXCEPT ![r] = new] /\ SyncCallOK(new)'
  BY <1>4, SyncProcesses
<1>6. confirmed' \subseteq Accounted'
  BY <1>4 DEF SyncInv, SyncReportIsTrue
<1>7. s \in TERMINAL_STATUSES => \E i \in escrowDoc'.hashes \cap DOMAIN chain' : chain'[i].topic = s
  BY <1>1, <1>3 DEF TERMINAL_STATUSES
<1>8. SyncReportIsTrue'
  BY <1>3, <1>6, <1>7 DEF SyncReportIsTrue
<1> QED
  BY <1>1, <1>2, <1>3, <1>4, <1>5, <1>8, SyncMoves DEF SyncInv

LEMMA SyncFunds ==
    ASSUME SyncInv, NEW r \in SyncRequests, HandleEscrowFundedEvent(r) PROVE SyncInv'
<1>1. CASE FundingIsRead(r)
  <2>1. polling[r].todo # {}
    BY <1>1 DEF FundingIsRead, Reading
  <2>2. CASE Ignored(r) /\ Unchanged
    BY <2>1, <2>2, SyncIgnores
  <2>3. CASE First(r) \in escrowDoc.hashes /\ Processed(r) /\ Unchanged
    BY <2>1, <2>3, SyncSkips
  <2>4. CASE Throws(r) /\ (Unchanged \/ SyncFault)
    BY <2>4, SyncThrows
  <2>5. CASE polling' = [polling EXCEPT ![r].pc = "write", ![r].found = escrowDoc.status # "absent"] /\ Unchanged
    <3>1. PICK b \in BOOLEAN : b = (escrowDoc.status # "absent")
      OBVIOUS
    <3> QED
      BY <2>1, <2>5, <3>1, SyncReaches
  <2> QED
    BY <1>1, <2>2, <2>3, <2>4, <2>5, Zenon DEF FundingIsRead
<1>2. CASE FundingIsWritten(r)
  <2>1. polling[r].todo # {}
    BY <1>2 DEF FundingIsWritten, Writing, SyncInv, SyncCallOK
  <2>2. CASE Throws(r) /\ (Unchanged \/ SyncFault)
    BY <2>2, SyncThrows
  <2>3. CASE escrowDoc' = [status |-> "locked", hashes |-> escrowDoc.hashes \cup {First(r)}] /\ Processed(r)
             /\ UNCHANGED <<chain, confirmed, unfounded, otherVars, syncs, syncFaults>>
    BY <2>1, <2>3, SyncRecords
  <2> QED
    BY <1>2, <2>2, <2>3, Zenon DEF FundingIsWritten
<1> QED
  BY <1>1, <1>2 DEF HandleEscrowFundedEvent

\* The contract settles once: a second settlement that is applied is the one on record.
LEMMA SyncSettles ==
    ASSUME SyncInv, NEW r \in SyncRequests, NEW t \in {"released", "refunded"},
           ResolutionIsRead(r, t) \/ ResolutionIsWritten(r, t, t)
    PROVE  SyncInv'
<1>1. CASE ResolutionIsRead(r, t)
  <2>1. polling[r].todo # {}
    BY <1>1 DEF ResolutionIsRead, Reading
  <2>2. CASE Ignored(r) /\ (Unchanged \/ SyncFault)
    BY <2>1, <2>2, SyncIgnores
  <2>3. CASE First(r) \in escrowDoc.hashes /\ Processed(r) /\ Unchanged
    BY <2>1, <2>3, SyncSkips
  <2>4. CASE polling' = [polling EXCEPT ![r].pc = "write"] /\ Unchanged
    <3>1. PICK b \in BOOLEAN : b = polling[r].found
      BY SyncCallFields DEF SyncCall
    <3>2. polling' = [polling EXCEPT ![r].pc = "write", ![r].found = b]
      <4>1. [polling[r] EXCEPT !.pc = "write"] = [polling[r] EXCEPT !.pc = "write", !.found = b]
        BY <3>1, SyncCallFields DEF SyncCall
      <4> QED
        BY <2>4, <4>1, SyncCallFields
    <3> QED
      BY <2>1, <2>4, <3>2, SyncReaches
  <2> QED
    BY <1>1, <2>2, <2>3, <2>4, Zenon DEF ResolutionIsRead
<1>2. CASE ResolutionIsWritten(r, t, t)
  <2>1. polling[r].todo # {} /\ polling[r].topic = t
    BY <1>2 DEF ResolutionIsWritten, Writing, SyncInv, SyncCallOK
  <2>2. CASE escrowDoc' = [status |-> t, hashes |-> escrowDoc.hashes \cup {First(r)}] /\ Processed(r)
             /\ UNCHANGED <<chain, confirmed, unfounded, otherVars, syncs, syncFaults>>
    BY <2>1, <2>2, SyncRecords
  <2>3. CASE Ignored(r) /\ SyncFault
    BY <2>1, <2>3, SyncIgnores
  <2>4. CASE /\ escrowDoc.status \in TERMINAL_STATUSES \cup {"absent"} /\ Processed(r)
             /\ unfounded' = IF escrowDoc.status = "absent" THEN unfounded \cup {First(r)} ELSE unfounded
             /\ UNCHANGED <<chain, escrowDoc, confirmed, otherVars, syncs, syncFaults>>
    <3>1. First(r) \in DOMAIN chain /\ First(r) \in Ledgers /\ chain[First(r)].topic = t
      BY <2>1, FirstIsDue
    <3>2. unfounded \subseteq unfounded' /\ unfounded' \subseteq Ledgers
      BY <2>4, <3>1 DEF SyncInv
    <3>3. Accounted \subseteq Accounted' /\ UNCHANGED elsewhere
      BY <2>4, <3>2 DEF Accounted, otherVars
    <3>4. First(r) \in Accounted'
      <4>1. CASE escrowDoc.status = "absent" \/ elsewhere
        BY <2>4, <3>1, <3>3, <4>1 DEF Accounted
      <4>2. CASE escrowDoc.status # "absent" /\ ~elsewhere
        <5>1. escrowDoc.status \in {"released", "refunded"}
          BY <2>4, <4>2 DEF TERMINAL_STATUSES
        <5>2. PICK i \in escrowDoc.hashes \cap DOMAIN chain : chain[i].topic = escrowDoc.status
          BY <4>2, <5>1 DEF SyncInv, SyncReportIsTrue, TERMINAL_STATUSES
        <5>3. i = First(r)
          BY <3>1, <5>1, <5>2 DEF SyncInv
        <5> QED
          BY <2>4, <5>3 DEF Accounted
      <4> QED
        BY <4>1, <4>2
    <3>5. PICK new : polling' = [polling EXCEPT ![r] = new] /\ SyncCallOK(new)'
      BY <2>1, <2>4, <3>3, <3>4, SyncProcesses
    <3>6. SyncReportIsTrue'
      BY <2>4, <3>3 DEF SyncInv, SyncReportIsTrue
    <3> QED
      BY <2>4, <3>2, <3>3, <3>5, <3>6, SyncMoves DEF SyncInv
  <2> QED
    BY <1>2, <2>2, <2>3, <2>4, Zenon DEF ResolutionIsWritten
<1> QED
  BY <1>1, <1>2

LEMMA ContractMovesOn == ASSUME SyncInv, ContractEmits PROVE SyncInv'
<1>1. PICK ev \in ChainEvent : (\A i \in DOMAIN chain : chain[i].topic = "funded") /\ chain' = Append(chain, ev)
  BY DEF ContractEmits
<1>2. chain \in Seq(ChainEvent) /\ Len(chain) < MaxChainEvents
  BY DEF ContractEmits, SyncInv
<1>3. chain' \in Seq(ChainEvent) /\ Len(chain') = Len(chain) + 1
      /\ \A i \in DOMAIN chain : i \in DOMAIN chain' /\ chain'[i] = chain[i]
  BY <1>1, <1>2
<1>4. \A i \in DOMAIN chain' : i \in DOMAIN chain \/ i = Len(chain) + 1
  BY <1>2, <1>3
<1>5. \A i, j \in DOMAIN chain' : chain'[i].topic # "funded" /\ chain'[j].topic # "funded" => i = j
  BY <1>1, <1>3, <1>4
<1>6. UNCHANGED <<escrowDoc, polling, confirmed, unfounded, otherVars, syncs, syncFaults>>
  BY DEF ContractEmits
<1>7. Accounted \subseteq Accounted'
  BY <1>3, <1>6 DEF Accounted, otherVars
<1>8. \A r \in SyncRequests : SyncCallOK(polling[r])'
  BY <1>3, <1>6, <1>7 DEF SyncInv, SyncCallOK
<1>9. SyncReportIsTrue'
  BY <1>3, <1>6, <1>7 DEF SyncInv, SyncReportIsTrue, otherVars
<1>10. Len(chain') <= MaxChainEvents
  BY <1>2, <1>3, SyncAssumption
<1> QED
  BY <1>3, <1>5, <1>6, <1>8, <1>9, <1>10 DEF SyncInv, OthersOK, otherVars

\* What another writer's step keeps.
LEMMA OtherMoves ==
    ASSUME SyncInv, OthersOK', escrowDoc' \in EscrowDoc, escrowDoc.hashes \subseteq escrowDoc'.hashes, elsewhere => elsewhere',
           escrowDoc'.status \in TERMINAL_STATUSES /\ ~elsewhere' => escrowDoc' = escrowDoc,
           UNCHANGED <<chain, polling, confirmed, unfounded, syncs, syncFaults>>
    PROVE  SyncInv'
<1>1. Accounted \subseteq Accounted'
  BY DEF Accounted
<1>2. \A r \in SyncRequests : SyncCallOK(polling[r])'
  BY <1>1 DEF SyncInv, SyncCallOK
<1>3. confirmed' \subseteq Accounted'
  BY <1>1 DEF SyncInv, SyncReportIsTrue
<1>4. SyncReportIsTrue'
  BY <1>3 DEF SyncInv, SyncReportIsTrue
<1> QED
  BY <1>2, <1>4 DEF SyncInv

LEMMA OtherStartIsTyped == ASSUME SyncInv, OtherStarts PROVE others' \in 0..MaxOthers
<1>1. others \in 0..MaxOthers /\ others < MaxOthers /\ others' = others + 1 /\ MaxOthers \in Nat
  BY SyncAssumption DEF SyncInv, OthersOK, OtherStarts
<1> QED
  BY <1>1

LEMMA OthersWrite == ASSUME SyncInv, ScanExpires \/ \E o \in Others : OtherReads(o) \/ OtherWrites(o) PROVE SyncInv'
<1>0. DOMAIN other = Others /\ (\A o \in Others : other[o] \in OtherCall) /\ elsewhere \in BOOLEAN /\ others \in 0..MaxOthers
      /\ escrowDoc \in EscrowDoc
  BY DEF SyncInv, OthersOK
<1>1. ASSUME NEW o \in Others, NEW new \in OtherCall, other' = [other EXCEPT ![o] = new]
      PROVE  DOMAIN other' = Others /\ \A p \in Others : other'[p] \in OtherCall
  BY <1>0, <1>1
<1>2. CASE ScanExpires
  <2>1. escrowDoc' \in EscrowDoc /\ escrowDoc'.hashes = escrowDoc.hashes /\ escrowDoc'.status = "expired"
    BY <1>0, <1>2 DEF ScanExpires, EscrowDoc, EscrowStatuses
  <2>2. OthersOK'
    BY <1>0, <1>2, OtherStartIsTyped DEF ScanExpires, OthersOK
  <2> QED
    BY <1>2, <2>1, <2>2, OtherMoves DEF ScanExpires, TERMINAL_STATUSES
<1>3. ASSUME NEW o \in Others, OtherReads(o) PROVE SyncInv'
  <2>1. PICK to \in EscrowStatuses, h \in Ledgers \cup {NoHash} :
          other' = [other EXCEPT ![o] = [pc |-> "write", from |-> escrowDoc.status, to |-> to, hash |-> h]]
    BY <1>3 DEF OtherReads
  <2>2. escrowDoc.status \in EscrowStatuses
    BY <1>0 DEF EscrowDoc
  <2>3. PICK new \in OtherCall : new = [pc |-> "write", from |-> escrowDoc.status, to |-> to, hash |-> h]
    BY <2>2 DEF OtherCall
  <2>4. OthersOK'
    BY <1>0, <1>1, <1>3, <2>1, <2>3, OtherStartIsTyped DEF OtherReads, OthersOK
  <2> QED
    BY <1>0, <1>3, <2>4, OtherMoves DEF OtherReads
<1>4. ASSUME NEW o \in Others, OtherWrites(o) PROVE SyncInv'
  <2>1. UNCHANGED <<chain, polling, confirmed, unfounded, others, syncs, syncFaults>> /\ other' = [other EXCEPT ![o] = NoOther]
    BY <1>4 DEF OtherWrites
  <2>2. CASE UNCHANGED <<escrowDoc, elsewhere>>
    <3>1. OthersOK'
      BY <1>0, <1>1, <2>1, <2>2, NoOtherIsTyped DEF OthersOK
    <3> QED
      BY <1>0, <2>1, <2>2, <3>1, OtherMoves
  <2>3. CASE /\ escrowDoc' = [status |-> other[o].to, hashes |-> escrowDoc.hashes \cup ({other[o].hash} \ {NoHash})]
             /\ elsewhere' = (elsewhere \/ other[o].to \in TERMINAL_STATUSES)
    <3>1. other[o].to \in EscrowStatuses /\ other[o].hash \in Ledgers \cup {NoHash}
      BY <1>0 DEF OtherCall
    <3>2. PICK H \in SUBSET Ledgers : H = escrowDoc.hashes \cup ({other[o].hash} \ {NoHash})
      BY <1>0, <3>1 DEF EscrowDoc
    <3>3. escrowDoc' \in EscrowDoc /\ escrowDoc'.status = other[o].to /\ escrowDoc'.hashes = H
      BY <2>3, <3>1, <3>2 DEF EscrowDoc
    <3>4. OthersOK'
      BY <1>0, <1>1, <2>1, <2>3, NoOtherIsTyped DEF OthersOK
    <3> QED
      BY <2>1, <2>3, <3>2, <3>3, <3>4, OtherMoves
  <2> QED
    BY <1>4, <2>2, <2>3 DEF OtherWrites
<1> QED
  BY <1>2, <1>3, <1>4

LEMMA SyncKeeps == SyncInv /\ [SyncStep]_syncVars => SyncInv'
<1> SUFFICES ASSUME SyncInv, [SyncStep]_syncVars PROVE SyncInv'
  OBVIOUS
<1>1. CASE ContractEmits
  BY <1>1, ContractMovesOn
<1>7. CASE ScanExpires \/ \E o \in Others : OtherReads(o) \/ OtherWrites(o)
  BY <1>7, OthersWrite
<1>2. ASSUME NEW r \in SyncRequests, RequestSync(r) \/ RequestSyncReleased(r) \/ RequestSyncRefunded(r) PROVE SyncInv'
  BY <1>2, SyncRequested DEF RequestSync, RequestSyncReleased, RequestSyncRefunded, SyncTopics
<1>3. ASSUME NEW r \in SyncRequests, SyncEscrowFundedEvents(r) PROVE SyncInv'
  BY <1>3, SyncGets, SyncFunds DEF SyncEscrowFundedEvents
<1>4. ASSUME NEW r \in SyncRequests, SyncEscrowReleasedEvents(r) PROVE SyncInv'
  BY <1>4, SyncGets, SyncSettles DEF SyncEscrowReleasedEvents, HandleEscrowReleasedEvent
<1>5. ASSUME NEW r \in SyncRequests, SyncEscrowRefundedEvents(r) PROVE SyncInv'
  BY <1>5, SyncGets, SyncSettles DEF SyncEscrowRefundedEvents, HandleEscrowRefundedEvent
<1>6. CASE UNCHANGED syncVars
  <2>1. Accounted' = Accounted
    BY <1>6 DEF syncVars, otherVars, Accounted
  <2> QED
    BY <1>6, <2>1 DEF syncVars, otherVars, SyncInv, SyncCallOK, OthersOK, SyncReportIsTrue
<1> QED
  BY <1>1, <1>2, <1>3, <1>4, <1>5, <1>6, <1>7 DEF SyncStep

\* However syncs overlap, fail or are repeated, and whoever else writes the escrow: what the operator
\* is told is processed is on its record, unless it settled an escrow that was not there or one that
\* HTTP or an admin settled too; and an escrow these did not settle is settled as the contract
\* settled it (indexer/escrowHandlers.ts, services/escrowIndexerService.ts).
THEOREM SyncReportsAreTrue == Spec => []SyncReportIsTrue
<1>1. Init => SyncInv
  BY SyncStart DEF Init
<1>2. SyncInv /\ [Next]_serviceVars => SyncInv'
  BY SyncKeeps, OthersRestSyncs
<1>3. SyncInv => SyncReportIsTrue
  BY DEF SyncInv
<1> QED
  BY <1>1, <1>2, <1>3, PTL DEF Spec

-----------------------------------------------------------------------------
(* Live location *)

UpdatePcs == {"dedup", "stale", "last", "persist", "broadcast"}

\* A fix under way is a fix, and one that is broadcast is stored.
UpdateOK(call) ==
    /\ call \in {NoUpdate} \cup [pc: UpdatePcs, fix: Fix]
    /\ call.pc = "broadcast" => live[call.fix] > 0

SyncPointsOK(call) ==
    /\ call.pc \in {"idle", "find", "insert"}
    /\ call.pc = "find" => \A i \in DOMAIN call.points : call.points[i] \in Fix
    /\ call.pc = "insert" => call.points \in SUBSET Fix

\* While Redis answers and remembers: a fix past the dedup check is remembered, is nobody else's,
\* and is stored only when it is broadcast; without overlap the last time is that of the one
\* update past the check, once it has written it.
PastOK(u) ==
    PastDedup(u) =>
        /\ update[u].fix \in seen
        /\ update[u].pc = "broadcast" => live[update[u].fix] = 1
        /\ update[u].pc # "broadcast" => live[update[u].fix] = 0
        /\ \A k \in DOMAIN heard : heard[k] # update[u].fix
        /\ ~overlapped /\ update[u].pc = "last" => lastUpdate <= update[u].fix.at
        /\ ~overlapped /\ update[u].pc \in {"persist", "broadcast"} => lastUpdate = update[u].fix.at

Calm ==
    /\ \A f \in Fix : live[f] <= 1 /\ (live[f] > 0 => f \in seen)
    /\ \A u \in Updates : PastOK(u)
    /\ \A u, v \in Updates : u # v /\ PastDedup(u) /\ PastDedup(v) => overlapped /\ update[u].fix # update[v].fix
    /\ \A k \in DOMAIN heard : live[heard[k]] = 1 /\ (~overlapped => heard[k].at <= lastUpdate)
    /\ \A i, j \in DOMAIN heard : i < j => heard[i] # heard[j] /\ (overlapped \/ heard[i].at <= heard[j].at)

LocationTypes ==
    /\ seen \subseteq Fix /\ lastUpdate \in 0..MaxAt
    /\ live \in [Fix -> Nat] /\ offline \subseteq Fix /\ heard \in Seq(Fix)
    /\ fixes \in 0..MaxFixes /\ redisFaults \in 0..MaxRedisFaults /\ overlapped \in BOOLEAN
    /\ DOMAIN update = Updates /\ \A u \in Updates : UpdateOK(update[u])
    /\ DOMAIN sync = Syncs /\ \A c \in Syncs : SyncPointsOK(sync[c])

LocationInv == LocationTypes /\ KeptIsStored /\ (redisFaults = 0 => Calm)

LEMMA OthersRestLocation == [Next]_serviceVars => [LocationStep]_locationVars
BY DEF Next, Play, serviceVars

LEMMA FixTimes == \A f \in Fix : f.at \in 0..MaxAt /\ f.at \in Nat
BY LocationAssumption DEF Fix

LEMMA LocationStart == LocationInit => LocationInv
<1> SUFFICES ASSUME LocationInit PROVE LocationInv
  OBVIOUS
<1>1. \A u \in Updates : UpdateOK(update[u]) /\ ~PastDedup(u)
  BY DEF LocationInit, UpdateOK, NoUpdate, PastDedup
<1>2. \A c \in Syncs : SyncPointsOK(sync[c])
  BY DEF LocationInit, SyncPointsOK, NoUpdate
<1>3. LocationTypes
  <2>1. live \in [Fix -> Nat] /\ heard \in Seq(Fix)
    BY DEF LocationInit
  <2>2. DOMAIN update = Updates /\ DOMAIN sync = Syncs /\ overlapped \in BOOLEAN
    BY DEF LocationInit
  <2>3. MaxAt \in Nat /\ MaxFixes \in Nat /\ MaxRedisFaults \in Nat
    BY LocationAssumption
  <2> QED
    BY <1>1, <1>2, <2>1, <2>2, <2>3 DEF LocationInit, LocationTypes
<1>4. KeptIsStored
  BY DEF LocationInit, KeptIsStored
<1>5. Calm
  BY <1>1 DEF LocationInit, Calm, PastOK
<1> QED
  BY <1>3, <1>4, <1>5 DEF LocationInv

LEMMA LocationIsTyped == LocationInv => LocationTypeOK /\ HeardOnceInOrder
<1> SUFFICES ASSUME LocationInv PROVE LocationTypeOK /\ HeardOnceInOrder
  OBVIOUS
<1>1. \A u \in Updates : update[u].pc \in {"idle", "dedup", "stale", "last", "persist", "broadcast"}
  BY DEF LocationInv, LocationTypes, UpdateOK, UpdatePcs, NoUpdate
<1>2. \A c \in Syncs : sync[c].pc \in {"idle", "find", "insert"}
  BY DEF LocationInv, LocationTypes, SyncPointsOK
<1>3. Stored \subseteq Fix
  BY DEF LocationInv, LocationTypes, Stored
<1>4. onRecord \subseteq 0..MaxAt
  BY <1>3, FixTimes DEF LocationInv, KeptIsStored, Times
<1>5. LocationTypeOK
  BY <1>1, <1>2, <1>4 DEF LocationInv, LocationTypes, LocationTypeOK
<1>6. HeardOnceInOrder
  BY DEF LocationInv, HeardOnceInOrder, Calm
<1> QED
  BY <1>5, <1>6

\* What is stored stays.
LEMMA StoredGrows ==
    ASSUME LocationInv, live' \in [Fix -> Nat], \A f \in Fix : live'[f] >= live[f], offline \subseteq offline',
           NEW S, S \subseteq Fix, S \subseteq Stored', onRecord' \subseteq onRecord \cup Times(S)
    PROVE  KeptIsStored'
<1>1. Stored \subseteq Stored'
  BY DEF LocationInv, LocationTypes, Stored
<1> QED
  BY <1>1 DEF LocationInv, KeptIsStored, Times

\* An update under way goes on, or ends; the others rest.
LEMMA UpdatesRest ==
    ASSUME LocationInv, NEW u \in Updates, NEW new, update' = [update EXCEPT ![u] = new], UpdateOK(new)',
           live' \in [Fix -> Nat], \A f \in Fix : live'[f] >= live[f]
    PROVE  DOMAIN update' = Updates /\ update'[u] = new /\ (\A v \in Updates : UpdateOK(update[v])')
           /\ \A v \in Updates \ {u} : update'[v] = update[v]
<1>1. DOMAIN update' = Updates /\ update'[u] = new /\ \A v \in Updates \ {u} : update'[v] = update[v]
  BY DEF LocationInv, LocationTypes
<1>2. ASSUME NEW v \in Updates \ {u} PROVE UpdateOK(update[v])'
  <2>1. UpdateOK(update[v]) /\ update'[v] = update[v] /\ live \in [Fix -> Nat]
    BY <1>1 DEF LocationInv, LocationTypes
  <2> QED
    BY <2>1 DEF UpdateOK, UpdatePcs, NoUpdate
<1> QED
  BY <1>1, <1>2

LEMMA LiveRests ==
    ASSUME LocationInv, UNCHANGED live PROVE live' \in [Fix -> Nat] /\ \A f \in Fix : live'[f] >= live[f]
BY DEF LocationInv, LocationTypes

LEMMA UpdateFields ==
    ASSUME LocationInv, NEW u \in Updates, update[u].pc \in UpdatePcs
    PROVE  /\ update[u] \in [pc: UpdatePcs, fix: Fix] /\ update[u].fix \in Fix /\ u \in DOMAIN update
           /\ \A p \in UpdatePcs :
                /\ [update EXCEPT ![u].pc = p] = [update EXCEPT ![u] = [pc |-> p, fix |-> update[u].fix]]
                /\ [pc |-> p, fix |-> update[u].fix] \in [pc: UpdatePcs, fix: Fix]
<1>1. UpdateOK(update[u]) /\ DOMAIN update = Updates
  BY DEF LocationInv, LocationTypes
<1>2. update[u] \in [pc: UpdatePcs, fix: Fix]
  BY <1>1 DEF UpdateOK, NoUpdate, UpdatePcs
<1>3. \A p \in UpdatePcs : [update[u] EXCEPT !.pc = p] = [pc |-> p, fix |-> update[u].fix]
  BY <1>2
<1> QED
  BY <1>1, <1>2, <1>3

LEMMA NoUpdateOK == UpdateOK(NoUpdate)' /\ NoUpdate.pc = "idle"
BY DEF UpdateOK, NoUpdate

\* The steps of a live update.  After each, what is past the dedup check is known.
LEMMA DedupKeeps ==
    ASSUME LocationInv, NEW u \in Updates, IsDuplicate(u) PROVE LocationInv'
<1> DEFINE f == update[u].fix
<1>1. update[u].pc = "dedup" /\ UNCHANGED <<lastUpdate, live, offline, heard, sync, fixes, onRecord>>
  BY DEF IsDuplicate, LocationDocs
<1>2. f \in Fix /\ LocationTypes /\ KeptIsStored /\ u \in DOMAIN update
  BY <1>1, UpdateFields DEF UpdatePcs, LocationInv
<1>3. KeptIsStored'
  BY <1>1, <1>2 DEF KeptIsStored, Stored
<1>4. \A c \in Syncs : SyncPointsOK(sync[c])'
  BY <1>1, <1>2 DEF LocationTypes, SyncPointsOK
<1>5. CASE UpdateEnds(u) /\ UNCHANGED <<seen, redisFaults, overlapped>>
  <2>1. DOMAIN update' = Updates /\ update'[u] = NoUpdate /\ (\A v \in Updates : UpdateOK(update[v])')
        /\ \A v \in Updates \ {u} : update'[v] = update[v]
    BY <1>1, <1>5, UpdatesRest, LiveRests, NoUpdateOK DEF UpdateEnds
  <2>2. LocationTypes'
    BY <1>1, <1>2, <1>4, <1>5, <2>1 DEF LocationTypes
  <2>3. ASSUME redisFaults' = 0 PROVE Calm'
    <3>1. Calm
      BY <1>5, <2>3 DEF LocationInv
    <3>2. ~PastDedup(u)' /\ \A v \in Updates : PastDedup(v)' => v # u /\ PastDedup(v) /\ update'[v] = update[v]
      BY <2>1, NoUpdateOK DEF PastDedup
    <3> QED
      BY <1>1, <1>5, <3>1, <3>2 DEF Calm, PastOK
  <2> QED
    BY <1>3, <2>2, <2>3 DEF LocationInv
<1>6. CASE /\ \/ ~Seen(f) /\ seen' = seen \cup {f} /\ UNCHANGED redisFaults
              \/ RedisFault /\ seen' \in {seen, seen \cup {f}}
           /\ UpdateGoes(u, "stale")
           /\ overlapped' = (overlapped \/ \E v \in Updates \ {u} : PastDedup(v))
  <2>0. PICK new : new = [pc |-> "stale", fix |-> f]
    OBVIOUS
  <2>1. update' = [update EXCEPT ![u] = new] /\ new \in [pc: UpdatePcs, fix: Fix] /\ new.pc = "stale" /\ new.fix = f
    BY <1>1, <1>6, <2>0, UpdateFields DEF UpdateGoes, UpdatePcs
  <2>2. UpdateOK(new)'
    BY <2>1 DEF UpdateOK
  <2>3. DOMAIN update' = Updates /\ update'[u] = new /\ (\A v \in Updates : UpdateOK(update[v])')
        /\ \A v \in Updates \ {u} : update'[v] = update[v]
    BY <1>1, <2>1, <2>2, UpdatesRest, LiveRests
  <2>4. overlapped' \in BOOLEAN
    BY <1>6, Zenon
  <2>5. seen' \subseteq Fix /\ redisFaults' \in 0..MaxRedisFaults
    BY <1>2, <1>6, LocationAssumption DEF RedisFault, LocationTypes
  <2>6. LocationTypes'
    BY <1>1, <1>2, <1>4, <2>3, <2>4, <2>5 DEF LocationTypes
  <2>7. ASSUME redisFaults' = 0 PROVE Calm'
    <3>1. redisFaults = 0 /\ ~Seen(f) /\ seen' = seen \cup {f}
      BY <1>2, <1>6, <2>7, LocationAssumption DEF RedisFault, LocationTypes
    <3>2. Calm /\ f \notin seen
      BY <3>1 DEF LocationInv, Seen
    <3>3. \A v \in Updates \ {u} : PastDedup(v)' <=> PastDedup(v)
      BY <2>3 DEF PastDedup
    <3>4. PastDedup(u)' /\ update'[u].fix = f /\ update'[u].pc = "stale"
      BY <2>1, <2>3 DEF PastDedup
    <3>5. ~overlapped' => ~overlapped /\ \A v \in Updates \ {u} : ~PastDedup(v)
      BY <1>6
    <3>6. live[f] = 0 /\ \A k \in DOMAIN heard : heard[k] # f
      BY <1>2, <3>2 DEF Calm, LocationTypes
    <3>7. PastOK(u)'
      BY <1>1, <3>1, <3>4, <3>6 DEF PastOK
    <3>8. ASSUME NEW v \in Updates \ {u} PROVE PastOK(v)' /\ (PastDedup(v) => update[v].fix # f)
      BY <1>1, <2>3, <3>1, <3>2, <3>3, <3>5 DEF PastOK, Calm
    <3>9. \A v \in Updates : PastOK(v)'
      BY <3>7, <3>8
    <3>10. \A v, w \in Updates : v # w /\ PastDedup(v)' /\ PastDedup(w)' => overlapped' /\ update'[v].fix # update'[w].fix
      BY <2>3, <3>2, <3>3, <3>4, <3>5, <3>8 DEF Calm
    <3>11. \A k \in DOMAIN heard : live[heard[k]] = 1 /\ (~overlapped' => heard[k].at <= lastUpdate)
      BY <3>2, <3>5 DEF Calm
    <3>12. \A i, j \in DOMAIN heard : i < j => heard[i] # heard[j] /\ (overlapped' \/ heard[i].at <= heard[j].at)
      BY <3>2, <3>5 DEF Calm
    <3>13. \A g \in Fix : live[g] <= 1 /\ (live[g] > 0 => g \in seen')
      BY <3>1, <3>2 DEF Calm
    <3> QED
      BY <1>1, <3>9, <3>10, <3>11, <3>12, <3>13 DEF Calm
  <2> QED
    BY <1>3, <2>6, <2>7 DEF LocationInv
<1> QED
  BY <1>5, <1>6, Zenon DEF IsDuplicate

\* An update that ends, wherever it was.
LEMMA EndingKeeps ==
    ASSUME LocationInv, NEW u \in Updates, update[u].pc \in UpdatePcs, UpdateEnds(u),
           UNCHANGED <<seen, lastUpdate, live, offline, heard, sync, fixes, overlapped, onRecord, redisFaults>>
    PROVE  LocationInv'
<1>1. DOMAIN update' = Updates /\ update'[u] = NoUpdate /\ (\A v \in Updates : UpdateOK(update[v])')
      /\ \A v \in Updates \ {u} : update'[v] = update[v]
  BY UpdatesRest, LiveRests, NoUpdateOK DEF UpdateEnds
<1>2. LocationTypes' /\ KeptIsStored'
  BY <1>1 DEF LocationInv, LocationTypes, SyncPointsOK, KeptIsStored, Stored
<1>3. ASSUME redisFaults' = 0 PROVE Calm'
  <2>1. Calm
    BY <1>3 DEF LocationInv
  <2>2. \A v \in Updates : PastDedup(v)' => v # u /\ PastDedup(v) /\ update'[v] = update[v]
    BY <1>1, NoUpdateOK DEF PastDedup
  <2> QED
    BY <2>1, <2>2 DEF Calm, PastOK
<1> QED
  BY <1>2, <1>3 DEF LocationInv

\* An update that goes on past the dedup check with its fix: it is in Redis, and it writes no document.
LEMMA GoingKeeps ==
    ASSUME LocationInv, NEW u \in Updates, PastDedup(u), update[u].pc # "broadcast", NEW p \in {"last", "persist"}, UpdateGoes(u, p),
           UNCHANGED <<seen, live, offline, heard, sync, fixes, overlapped, onRecord>>,
           lastUpdate' \in 0..MaxAt, redisFaults' \in 0..MaxRedisFaults,
           redisFaults' = 0 =>
               /\ redisFaults = 0
               /\ ~overlapped => lastUpdate <= lastUpdate'
               /\ ~overlapped => lastUpdate' <= update[u].fix.at
               /\ ~overlapped /\ p = "persist" => lastUpdate' = update[u].fix.at
    PROVE  LocationInv'
<1> DEFINE f == update[u].fix
<1>0. update[u].pc \in UpdatePcs
  BY DEF PastDedup, UpdatePcs
<1>1. PICK new : new = [pc |-> p, fix |-> f]
  OBVIOUS
<1>2. update' = [update EXCEPT ![u] = new] /\ new \in [pc: UpdatePcs, fix: Fix] /\ new.pc = p /\ new.fix = f /\ f \in Fix
  <2>1. p \in UpdatePcs
    BY DEF UpdatePcs
  <2>2. f \in Fix /\ new \in [pc: UpdatePcs, fix: Fix] /\ [update EXCEPT ![u].pc = p] = [update EXCEPT ![u] = new]
    BY <1>0, <1>1, <2>1, UpdateFields
  <2>3. update' = [update EXCEPT ![u].pc = p]
    BY DEF UpdateGoes
  <2>4. new.pc = p /\ new.fix = f
    BY <1>1
  <2> QED
    BY <2>2, <2>3, <2>4
<1>3. UpdateOK(new)'
  BY <1>2 DEF UpdateOK
<1>4. DOMAIN update' = Updates /\ update'[u] = new /\ (\A v \in Updates : UpdateOK(update[v])')
      /\ \A v \in Updates \ {u} : update'[v] = update[v]
  BY <1>2, <1>3, UpdatesRest, LiveRests
<1>5. LocationTypes' /\ KeptIsStored'
  BY <1>4 DEF LocationInv, LocationTypes, SyncPointsOK, KeptIsStored, Stored
<1>6. ASSUME redisFaults' = 0 PROVE Calm'
  <2>1. Calm
    BY <1>6 DEF LocationInv
  <2>2. (\A v \in Updates : PastDedup(v)' <=> PastDedup(v)) /\ \A v \in Updates : PastDedup(v) => update'[v].fix = update[v].fix
    BY <1>2, <1>4 DEF PastDedup
  <2>3. PastOK(u)'
    BY <1>2, <1>4, <1>6, <2>1 DEF Calm, PastOK
  <2>4. ASSUME NEW v \in Updates \ {u} PROVE PastOK(v)'
    BY <1>4, <1>6, <2>1, <2>2 DEF Calm, PastOK
  <2>5. \A v, w \in Updates : v # w /\ PastDedup(v)' /\ PastDedup(w)' => overlapped' /\ update'[v].fix # update'[w].fix
    BY <2>1, <2>2 DEF Calm
  <2>6. lastUpdate \in Nat /\ lastUpdate' \in Nat /\ \A k \in DOMAIN heard : heard[k].at \in Nat
    BY FixTimes, LocationAssumption DEF LocationInv, LocationTypes
  <2>7. \A k \in DOMAIN heard : live[heard[k]] = 1 /\ (~overlapped => heard[k].at <= lastUpdate')
    BY <1>6, <2>1, <2>6 DEF Calm
  <2> QED
    BY <2>1, <2>3, <2>4, <2>5, <2>7 DEF Calm
<1> QED
  BY <1>5, <1>6 DEF LocationInv

LEMMA StaleKeeps ==
    ASSUME LocationInv, NEW u \in Updates, IsStaleUpdate(u) \/ SetLastUpdate(u) PROVE LocationInv'
<1>0. LocationTypes /\ MaxRedisFaults \in Nat
  BY LocationAssumption DEF LocationInv
<1>1. CASE IsStaleUpdate(u)
  <2>1. /\ update[u].pc = "stale" /\ UNCHANGED <<seen, lastUpdate, live, offline, heard, sync, fixes, overlapped, onRecord>>
        /\ \/ UpdateEnds(u) /\ UNCHANGED redisFaults
           \/ ~Older(update[u].fix) /\ UpdateGoes(u, "last") /\ UNCHANGED redisFaults
           \/ RedisFault /\ UpdateGoes(u, "persist")
    BY <1>1 DEF IsStaleUpdate, Redis, LocationDocs
  <2>2. update[u].pc \in UpdatePcs /\ PastDedup(u) /\ update[u].fix \in Fix
    BY <2>1, UpdateFields DEF UpdatePcs, PastDedup
  <2>3. CASE UpdateEnds(u) /\ UNCHANGED redisFaults
    BY <2>1, <2>2, <2>3, EndingKeeps
  <2>4. CASE ~Older(update[u].fix) /\ UpdateGoes(u, "last") /\ UNCHANGED redisFaults
    <3>1. lastUpdate \in Nat /\ lastUpdate' \in 0..MaxAt /\ lastUpdate' = lastUpdate /\ update[u].fix.at \in Nat
      BY <1>0, <2>1, <2>2, FixTimes, LocationAssumption DEF LocationTypes
    <3>2. lastUpdate' <= update[u].fix.at /\ redisFaults' \in 0..MaxRedisFaults
      BY <1>0, <2>4, <3>1 DEF Older, LocationTypes
    <3> QED
      BY <2>1, <2>2, <2>4, <3>1, <3>2, GoingKeeps
  <2>5. CASE RedisFault /\ UpdateGoes(u, "persist")
    <3>1. redisFaults' \in 0..MaxRedisFaults /\ redisFaults' # 0 /\ lastUpdate' \in 0..MaxAt
      BY <1>0, <2>1, <2>5 DEF RedisFault, LocationTypes
    <3> QED
      BY <2>1, <2>2, <2>5, <3>1, GoingKeeps
  <2> QED
    BY <2>1, <2>3, <2>4, <2>5
<1>2. CASE SetLastUpdate(u)
  <2>1. /\ update[u].pc = "last" /\ UNCHANGED <<seen, live, offline, heard, sync, fixes, overlapped, onRecord>>
        /\ UpdateGoes(u, "persist")
        /\ \/ lastUpdate' = update[u].fix.at /\ UNCHANGED redisFaults
           \/ RedisFault /\ UNCHANGED lastUpdate
    BY <1>2 DEF SetLastUpdate, LocationDocs
  <2>2. update[u].pc \in UpdatePcs /\ PastDedup(u) /\ update[u].fix \in Fix
    BY <2>1, UpdateFields DEF UpdatePcs, PastDedup
  <2>3. CASE lastUpdate' = update[u].fix.at /\ UNCHANGED redisFaults
    <3>1. lastUpdate' \in 0..MaxAt /\ redisFaults' \in 0..MaxRedisFaults /\ lastUpdate' \in Nat
      BY <1>0, <2>2, <2>3, FixTimes DEF LocationTypes
    <3>2. redisFaults' = 0 /\ ~overlapped => lastUpdate <= update[u].fix.at
      BY <2>1, <2>2, <2>3 DEF LocationInv, Calm, PastOK
    <3> QED
      BY <2>1, <2>2, <2>3, <3>1, <3>2, GoingKeeps
  <2>4. CASE RedisFault /\ UNCHANGED lastUpdate
    <3>1. redisFaults' \in 0..MaxRedisFaults /\ redisFaults' # 0 /\ lastUpdate' \in 0..MaxAt
      BY <1>0, <2>4 DEF RedisFault, LocationTypes
    <3> QED
      BY <2>1, <2>2, <2>4, <3>1, GoingKeeps
  <2> QED
    BY <2>1, <2>3, <2>4
<1> QED
  BY <1>1, <1>2

LEMMA PersistKeeps ==
    ASSUME LocationInv, NEW u \in Updates, PersistFix(u) PROVE LocationInv'
<1> DEFINE f == update[u].fix
<1>1. /\ update[u].pc = "persist" /\ UNCHANGED <<seen, lastUpdate, offline, heard, sync, fixes, redisFaults, overlapped, onRecord>>
      /\ \/ live' = [live EXCEPT ![f] = @ + 1] /\ UpdateGoes(u, "broadcast")
         \/ UpdateEnds(u) /\ UNCHANGED live
  BY DEF PersistFix, Redis
<1>2. update[u].pc \in UpdatePcs /\ f \in Fix /\ LocationTypes /\ live \in [Fix -> Nat] /\ PastDedup(u)
  BY <1>1, UpdateFields DEF UpdatePcs, LocationInv, LocationTypes, PastDedup
<1>3. CASE UpdateEnds(u) /\ UNCHANGED live
  BY <1>1, <1>2, <1>3, EndingKeeps
<1>4. CASE live' = [live EXCEPT ![f] = @ + 1] /\ UpdateGoes(u, "broadcast")
  <2>1. PICK new : new = [pc |-> "broadcast", fix |-> f]
    OBVIOUS
  <2>2. update' = [update EXCEPT ![u] = new] /\ new \in [pc: UpdatePcs, fix: Fix] /\ new.pc = "broadcast" /\ new.fix = f
    BY <1>2, <1>4, <2>1, UpdateFields DEF UpdateGoes, UpdatePcs
  <2>3. live' \in [Fix -> Nat] /\ live'[f] = live[f] + 1 /\ \A g \in Fix \ {f} : live'[g] = live[g]
    BY <1>2, <1>4
  <2>4. \A g \in Fix : live'[g] >= live[g] /\ live'[f] > 0
    BY <1>2, <2>3
  <2>5. UpdateOK(new)'
    BY <2>2, <2>4 DEF UpdateOK
  <2>6. DOMAIN update' = Updates /\ update'[u] = new /\ (\A v \in Updates : UpdateOK(update[v])')
        /\ \A v \in Updates \ {u} : update'[v] = update[v]
    BY <2>2, <2>3, <2>4, <2>5, UpdatesRest
  <2>7. LocationTypes'
    BY <1>1, <1>2, <2>3, <2>6 DEF LocationTypes, SyncPointsOK
  <2>8. KeptIsStored'
    <3>1. Times({}) = {} /\ onRecord' \subseteq onRecord \cup Times({})
      BY <1>1 DEF Times
    <3> QED
      BY <1>1, <2>3, <2>4, <3>1, StoredGrows
  <2>9. ASSUME redisFaults' = 0 PROVE Calm'
    <3>1. Calm
      BY <1>1, <2>9 DEF LocationInv
    <3>2. (\A v \in Updates : PastDedup(v)' <=> PastDedup(v)) /\ \A v \in Updates : PastDedup(v) => update'[v].fix = update[v].fix
      BY <1>2, <2>2, <2>6 DEF PastDedup
    <3>3. live[f] = 0 /\ f \in seen /\ (\A k \in DOMAIN heard : heard[k] # f) /\ (~overlapped => lastUpdate = f.at)
      BY <1>1, <1>2, <3>1 DEF Calm, PastOK
    <3>4. PastOK(u)'
      BY <1>1, <2>2, <2>3, <2>6, <3>3 DEF PastOK
    <3>5. ASSUME NEW v \in Updates \ {u} PROVE PastOK(v)'
      <4>1. SUFFICES ASSUME PastDedup(v)' PROVE PastOK(v)'
        BY DEF PastOK
      <4>2. update'[v] = update[v] /\ PastDedup(v) /\ PastOK(v) /\ update[v].fix # f
        BY <1>2, <2>6, <3>1, <3>2, <4>1 DEF Calm
      <4>3. update[v].fix \in Fix
        BY <4>2, UpdateFields DEF PastDedup, UpdatePcs
      <4>4. live'[update[v].fix] = live[update[v].fix]
        BY <2>3, <4>2, <4>3
      <4> QED
        BY <1>1, <4>2, <4>4 DEF PastOK
    <3>6. \A k \in DOMAIN heard : heard[k] \in Fix
      BY <1>2 DEF LocationTypes
    <3>7. \A k \in DOMAIN heard : live'[heard[k]] = 1 /\ (~overlapped => heard[k].at <= lastUpdate)
      BY <2>3, <3>1, <3>3, <3>6 DEF Calm
    <3>8. \A g \in Fix : live'[g] <= 1 /\ (live'[g] > 0 => g \in seen)
      BY <2>3, <3>1, <3>3 DEF Calm
    <3>9. \A v, w \in Updates : v # w /\ PastDedup(v)' /\ PastDedup(w)' => overlapped' /\ update'[v].fix # update'[w].fix
      BY <1>1, <3>1, <3>2 DEF Calm
    <3> QED
      BY <1>1, <3>1, <3>4, <3>5, <3>7, <3>8, <3>9 DEF Calm
  <2> QED
    BY <2>7, <2>8, <2>9 DEF LocationInv
<1> QED
  BY <1>1, <1>3, <1>4

LEMMA BroadcastKeeps ==
    ASSUME LocationInv, NEW u \in Updates, BroadcastFix(u) PROVE LocationInv'
<1> DEFINE f == update[u].fix
<1>1. /\ update[u].pc = "broadcast" /\ heard' = Append(heard, f) /\ onRecord' = onRecord \cup {f.at} /\ UpdateEnds(u)
      /\ UNCHANGED <<seen, lastUpdate, live, offline, sync, fixes, redisFaults, overlapped>>
  BY DEF BroadcastFix, Redis, LocationDocs
<1>2. f \in Fix /\ LocationTypes /\ live \in [Fix -> Nat] /\ PastDedup(u) /\ heard \in Seq(Fix)
  BY <1>1, UpdateFields DEF UpdatePcs, LocationInv, LocationTypes, PastDedup
<1>3. live[f] > 0
  BY <1>1, <1>2 DEF LocationTypes, UpdateOK
<1>4. DOMAIN update' = Updates /\ update'[u] = NoUpdate /\ (\A v \in Updates : UpdateOK(update[v])')
      /\ \A v \in Updates \ {u} : update'[v] = update[v]
  BY <1>1, UpdatesRest, LiveRests, NoUpdateOK DEF UpdateEnds
<1>5. KeptIsStored'
  <2>0. PICK S : S = {f}
    OBVIOUS
  <2>1. S \subseteq Fix /\ S \subseteq Stored'
    BY <1>1, <1>2, <1>3, <2>0 DEF Stored
  <2>2. onRecord' \subseteq onRecord \cup Times(S)
    BY <1>1, <2>0 DEF Times
  <2>3. offline \subseteq offline'
    BY <1>1
  <2> QED
    BY <1>1, <2>1, <2>2, <2>3, LiveRests, StoredGrows
<1>6. heard' \in Seq(Fix) /\ Len(heard') = Len(heard) + 1 /\ heard'[Len(heard) + 1] = f
      /\ \A k \in DOMAIN heard : k \in DOMAIN heard' /\ heard'[k] = heard[k]
  BY <1>1, <1>2
<1>7. \A k \in DOMAIN heard' : (k \in DOMAIN heard /\ k <= Len(heard)) \/ k = Len(heard) + 1
  BY <1>2, <1>6
<1>8. LocationTypes'
  BY <1>1, <1>2, <1>4, <1>6 DEF LocationTypes, SyncPointsOK
<1>9. ASSUME redisFaults' = 0 PROVE Calm'
  <2>1. Calm
    BY <1>1, <1>9 DEF LocationInv
  <2>2. \A v \in Updates : PastDedup(v)' => v # u /\ PastDedup(v) /\ update'[v] = update[v]
    BY <1>4, NoUpdateOK DEF PastDedup
  <2>3. live[f] = 1 /\ (\A k \in DOMAIN heard : heard[k] # f) /\ (~overlapped => lastUpdate = f.at)
    BY <1>1, <1>2, <2>1 DEF Calm, PastOK
  <2>4. ASSUME NEW v \in Updates PROVE PastOK(v)'
    <3>1. SUFFICES ASSUME PastDedup(v)' PROVE PastOK(v)'
      BY DEF PastOK
    <3>2. update'[v] = update[v] /\ PastDedup(v) /\ PastOK(v) /\ update[v].fix # f
      BY <1>2, <2>1, <2>2, <3>1 DEF Calm
    <3>3. \A k \in DOMAIN heard' : heard'[k] # update[v].fix
      BY <1>6, <1>7, <3>2 DEF PastOK
    <3> QED
      BY <1>1, <3>2, <3>3 DEF PastOK
  <2>5. \A v, w \in Updates : v # w /\ PastDedup(v)' /\ PastDedup(w)' => overlapped' /\ update'[v].fix # update'[w].fix
    BY <1>1, <2>1, <2>2 DEF Calm
  <2>6. lastUpdate \in Nat
    BY <1>2, LocationAssumption DEF LocationTypes
  <2>7. \A k \in DOMAIN heard' : live[heard'[k]] = 1 /\ (~overlapped => heard'[k].at <= lastUpdate)
    BY <1>6, <1>7, <2>1, <2>3, <2>6 DEF Calm
  <2>8. \A i, j \in DOMAIN heard' : i < j => heard'[i] # heard'[j] /\ (overlapped \/ heard'[i].at <= heard'[j].at)
    <3>1. SUFFICES ASSUME NEW i \in DOMAIN heard', NEW j \in DOMAIN heard', i < j
                   PROVE heard'[i] # heard'[j] /\ (overlapped \/ heard'[i].at <= heard'[j].at)
      OBVIOUS
    <3>2. i \in DOMAIN heard
      BY <1>2, <1>6, <1>7, <3>1
    <3>3. CASE j \in DOMAIN heard
      BY <1>6, <2>1, <3>1, <3>2, <3>3 DEF Calm
    <3>4. CASE j = Len(heard) + 1
      BY <1>6, <2>1, <2>3, <3>2, <3>4 DEF Calm
    <3> QED
      BY <1>7, <3>3, <3>4
  <2> QED
    BY <1>1, <2>1, <2>4, <2>5, <2>7, <2>8 DEF Calm
<1> QED
  BY <1>5, <1>8, <1>9 DEF LocationInv

\* A fix that arrives is not past the dedup check yet.
LEMMA ArrivalKeeps ==
    ASSUME LocationInv, NEW u \in Updates, NEW f \in Fix, DriverLocationUpdate(u, f) PROVE LocationInv'
<1>1. /\ fixes' \in 0..MaxFixes /\ update' = [update EXCEPT ![u] = [pc |-> "dedup", fix |-> f]]
      /\ UNCHANGED <<seen, lastUpdate, live, offline, heard, sync, redisFaults, overlapped, onRecord>>
  BY LocationAssumption DEF DriverLocationUpdate, ProcessLiveUpdate, FixArrives, Redis, LocationDocs, LocationInv, LocationTypes
<1>2. PICK new : new = [pc |-> "dedup", fix |-> f]
  OBVIOUS
<1>3. new.pc = "dedup" /\ UpdateOK(new)'
  BY <1>2 DEF UpdateOK, UpdatePcs
<1>4. DOMAIN update' = Updates /\ update'[u] = new /\ (\A v \in Updates : UpdateOK(update[v])')
      /\ \A v \in Updates \ {u} : update'[v] = update[v]
  BY <1>1, <1>2, <1>3, UpdatesRest, LiveRests
<1>5. LocationTypes' /\ KeptIsStored'
  BY <1>1, <1>4 DEF LocationInv, LocationTypes, SyncPointsOK, KeptIsStored, Stored
<1>6. ASSUME redisFaults' = 0 PROVE Calm'
  <2>1. Calm
    BY <1>1, <1>6 DEF LocationInv
  <2>2. \A v \in Updates : PastDedup(v)' => v # u /\ PastDedup(v) /\ update'[v] = update[v]
    BY <1>3, <1>4 DEF PastDedup
  <2> QED
    BY <1>1, <2>1, <2>2 DEF Calm, PastOK
<1> QED
  BY <1>5, <1>6 DEF LocationInv

\* The steps of a sync do not touch what the live updates rely on.
LEMMA SyncsRest ==
    ASSUME LocationInv, NEW c \in Syncs, NEW new, sync' = [sync EXCEPT ![c] = new], SyncPointsOK(new)',
           UNCHANGED <<seen, lastUpdate, live, heard, update, redisFaults, overlapped>>,
           fixes' \in 0..MaxFixes, offline' \subseteq Fix, KeptIsStored'
    PROVE  LocationInv'
<1>1. DOMAIN sync' = Syncs /\ \A d \in Syncs : SyncPointsOK(sync[d])'
  BY DEF LocationInv, LocationTypes, SyncPointsOK
<1>2. \A v \in Updates : UpdateOK(update[v])'
  BY DEF LocationInv, LocationTypes, UpdateOK
<1>3. LocationTypes'
  BY <1>1, <1>2 DEF LocationInv, LocationTypes
<1>4. redisFaults' = 0 => Calm'
  BY DEF LocationInv, Calm, PastOK, PastDedup
<1> QED
  BY <1>3, <1>4 DEF LocationInv

LEMMA IdleSyncPoints == SyncPointsOK(NoUpdate)'
BY DEF SyncPointsOK, NoUpdate

LEMMA BatchKeeps ==
    ASSUME LocationInv, NEW c \in Syncs, NEW batch \in Batches, LocationSync(c, batch) PROVE LocationInv'
<1> DEFINE valid == {i \in DOMAIN batch : i <= BatchLimit /\ ValidatePoint(batch[i])}
<1>1. PICK new : new = IF valid = {} THEN NoUpdate ELSE [pc |-> "find", points |-> [i \in valid |-> batch[i]]]
  OBVIOUS
<1>2. sync' = [sync EXCEPT ![c] = new]
  BY <1>1 DEF LocationSync, ProcessBatch
<1>3. /\ fixes' \in 0..MaxFixes /\ UNCHANGED <<seen, lastUpdate, live, offline, heard, update, redisFaults, overlapped, onRecord>>
  BY LocationAssumption DEF LocationSync, FixArrives, Redis, LocationDocs, LocationInv, LocationTypes
<1>4. \A i \in DOMAIN batch : batch[i] \in Fix
  BY DEF Batches
<1>5. SyncPointsOK(new)'
  <2>1. CASE valid = {}
    BY <1>1, <2>1, IdleSyncPoints
  <2>2. CASE valid # {}
    <3>1. new = [pc |-> "find", points |-> [i \in valid |-> batch[i]]] /\ valid \subseteq DOMAIN batch
      BY <1>1, <2>2
    <3> HIDE DEF valid
    <3>2. new.pc = "find" /\ \A i \in DOMAIN new.points : new.points[i] \in Fix
      BY <1>4, <3>1
    <3> QED
      BY <3>2 DEF SyncPointsOK
  <2> QED
    BY <2>1, <2>2
<1>6. KeptIsStored' /\ offline' \subseteq Fix
  BY <1>3 DEF LocationInv, LocationTypes, KeptIsStored, Stored
<1> QED
  BY <1>2, <1>3, <1>5, <1>6, SyncsRest

LEMMA FindKeeps ==
    ASSUME LocationInv, NEW c \in Syncs, FindDuplicates(c) PROVE LocationInv'
<1> DEFINE points == sync[c].points
           all == {points[i] : i \in DOMAIN points}
           old == Times(all) \cap Times(Stored)
           toInsert == {points[i] : i \in {n \in DOMAIN points :
                           points[n].at \notin old /\ \A m \in DOMAIN points : m < n => points[m].at # points[n].at}}
<1>1. /\ sync[c].pc = "find"
      /\ \/ /\ sync' = [sync EXCEPT ![c] = IF toInsert = {} THEN NoUpdate ELSE [pc |-> "insert", points |-> toInsert]]
            /\ onRecord' = onRecord \cup old
         \/ SyncEnds(c) /\ UNCHANGED onRecord
      /\ UNCHANGED <<seen, lastUpdate, live, offline, heard, update, fixes, redisFaults, overlapped>>
  BY DEF FindDuplicates, Redis, LocationDocs
<1>2. toInsert \in SUBSET Fix
  BY <1>1 DEF LocationInv, LocationTypes, SyncPointsOK
<1>3. PICK left \in SUBSET Fix : left = toInsert
  BY <1>2
<1>4. Stored' = Stored
  BY <1>1 DEF Stored
<1>5. KeptIsStored'
  <2>1. old \subseteq Times(Stored) /\ onRecord \subseteq Times(Stored)
    BY DEF LocationInv, KeptIsStored
  <2> HIDE DEF old
  <2>2. Times(Stored)' = Times(Stored)
    BY <1>4 DEF Times
  <2> QED
    BY <1>1, <2>1, <2>2 DEF KeptIsStored
<1>6. fixes' \in 0..MaxFixes /\ offline' \subseteq Fix
  BY <1>1 DEF LocationInv, LocationTypes
<1>7. CASE sync' = [sync EXCEPT ![c] = IF toInsert = {} THEN NoUpdate ELSE [pc |-> "insert", points |-> toInsert]]
  <2>1. PICK new : new = IF left = {} THEN NoUpdate ELSE [pc |-> "insert", points |-> left]
    OBVIOUS
  <2>2. SyncPointsOK(new)'
    BY <2>1 DEF SyncPointsOK, NoUpdate
  <2>3. sync' = [sync EXCEPT ![c] = new]
    BY <1>3, <1>7, <2>1
  <2> QED
    BY <1>1, <1>5, <1>6, <2>2, <2>3, SyncsRest
<1>8. CASE SyncEnds(c)
  BY <1>1, <1>5, <1>6, <1>8, IdleSyncPoints, SyncsRest DEF SyncEnds
<1> QED
  BY <1>1, <1>7, <1>8

LEMMA InsertKeeps ==
    ASSUME LocationInv, NEW c \in Syncs, InsertPoints(c) PROVE LocationInv'
<1>1. /\ sync[c].pc = "insert" /\ SyncEnds(c)
      /\ UNCHANGED <<seen, lastUpdate, live, heard, update, fixes, redisFaults, overlapped>>
  BY DEF InsertPoints, Redis
<1>2. PICK inserted \in SUBSET sync[c].points :
         offline' = offline \cup inserted /\ onRecord' = onRecord \cup Saved(sync[c].points, inserted)
  BY DEF InsertPoints
<1>3. inserted \subseteq Fix /\ offline \subseteq Fix
  BY <1>1 DEF LocationInv, LocationTypes, SyncPointsOK
<1>4. inserted \subseteq Stored'
  BY <1>2 DEF Stored
<1>5. onRecord' \subseteq onRecord \cup Times(inserted)
  BY <1>2 DEF Saved
<1>6. KeptIsStored'
  BY <1>1, <1>2, <1>3, <1>4, <1>5, LiveRests, StoredGrows
<1>7. fixes' \in 0..MaxFixes /\ offline' \subseteq Fix
  BY <1>1, <1>2, <1>3 DEF LocationInv, LocationTypes
<1> QED
  BY <1>1, <1>6, <1>7, IdleSyncPoints, SyncsRest DEF SyncEnds

\* When Redis forgets, what relies on it is off.
LEMMA ForgettingKeeps ==
    ASSUME LocationInv, KeyExpires PROVE LocationInv'
<1>1. UNCHANGED <<live, offline, heard, update, sync, fixes, overlapped, onRecord>>
  BY DEF KeyExpires, LocationDocs
<1>2. redisFaults' \in 0..MaxRedisFaults /\ redisFaults' # 0
  BY LocationAssumption DEF KeyExpires, RedisFault, LocationInv, LocationTypes
<1>3. seen' \subseteq Fix /\ lastUpdate' \in 0..MaxAt
  BY LocationAssumption DEF KeyExpires, LocationInv, LocationTypes
<1>4. LocationTypes' /\ KeptIsStored'
  BY <1>1, <1>2, <1>3 DEF LocationInv, LocationTypes, SyncPointsOK, UpdateOK, KeptIsStored, Stored
<1> QED
  BY <1>2, <1>4 DEF LocationInv

LEMMA LocationKeeps == LocationInv /\ [LocationStep]_locationVars => LocationInv'
<1> SUFFICES ASSUME LocationInv, [LocationStep]_locationVars PROVE LocationInv'
  OBVIOUS
<1>1. ASSUME NEW u \in Updates,
             \/ \E f \in Fix : DriverLocationUpdate(u, f)
             \/ IsDuplicate(u) \/ IsStaleUpdate(u) \/ SetLastUpdate(u) \/ PersistFix(u) \/ BroadcastFix(u)
      PROVE LocationInv'
  BY <1>1, ArrivalKeeps, DedupKeeps, StaleKeeps, PersistKeeps, BroadcastKeeps
<1>2. ASSUME NEW c \in Syncs, (\E batch \in Batches : LocationSync(c, batch)) \/ FindDuplicates(c) \/ InsertPoints(c)
      PROVE LocationInv'
  BY <1>2, BatchKeeps, FindKeeps, InsertKeeps
<1>3. CASE UNCHANGED locationVars
  BY <1>3 DEF locationVars, LocationInv, LocationTypes, UpdateOK, SyncPointsOK, KeptIsStored, Stored, Times, Calm, PastOK, PastDedup
<1> QED
  BY <1>1, <1>2, <1>3, ForgettingKeeps DEF LocationStep

\* What the driver is told is saved, a duplicate or broadcast is on record, whichever batch or live
\* update stored it and whatever failed (sync.service.ts, location.service.ts).
THEOREM BufferedFixesAreSafe == Spec => []KeptIsStored
<1>1. Init => LocationInv
  BY LocationStart DEF Init
<1>2. LocationInv /\ [Next]_serviceVars => LocationInv'
  BY LocationKeeps, OthersRestLocation
<1>3. LocationInv => KeptIsStored
  BY DEF LocationInv
<1> QED
  BY <1>1, <1>2, <1>3, PTL DEF Spec

\* While Redis answers and remembers, a fix is stored and broadcast once, and a room hears of the
\* driver in the order of capture unless two updates overlap (location.service.ts).
THEOREM RoomsHearInOrder == Spec => []HeardOnceInOrder
<1>1. Init => LocationInv
  BY LocationStart DEF Init
<1>2. LocationInv /\ [Next]_serviceVars => LocationInv'
  BY LocationKeeps, OthersRestLocation
<1> QED
  BY <1>1, <1>2, LocationIsTyped, PTL DEF Spec

-----------------------------------------------------------------------------
(* Chat *)

\* Who did not send a message has no receipt by a string, and at most one by an ObjectId.
ChatDocOK(doc) ==
    doc \in ChatDoc /\ \A u \in People \ {doc.sender} : doc.text[u] = 0 /\ doc.oid[u] <= 1

\* An event about a message is about one on record; a receipt is announced after it is there.
ChatCallOK(t) ==
    /\ chatCall[t].pc \in {"idle", "join", "create", "announce", "mark", "announceRead"}
    /\ chatCall[t].pc = "announce" => chatCall[t].message \in DOMAIN chat
    /\ chatCall[t].pc \in {"mark", "announceRead"} => chatCall[t].message \in DOMAIN chat \cup {Foreign}
    /\ chatCall[t].pc = "announceRead" =>
         chatCall[t].message = Foreign \/ chat[chatCall[t].message].oid[UserOf(t)] > 0

ShownOK ==
    \A t \in Tabs :
        /\ shown[t] \subseteq DOMAIN chat
        /\ \A r \in shownRead[t] : r[1] = Foreign \/ (r[1] \in DOMAIN chat /\ chat[r[1]].oid[r[2]] > 0)

ChatTypes ==
    /\ driverId \in ChatDrivers /\ inRoom \subseteq Tabs /\ chatCalls \in 0..MaxChatCalls
    /\ shown \in [Tabs -> SUBSET Nat] /\ shownRead \in [Tabs -> SUBSET (Nat \X People)]
    /\ chat \in Seq(ChatDoc) /\ DOMAIN chatCall = Tabs

ChatInv ==
    /\ ChatTypes /\ ShownOK
    /\ \A m \in DOMAIN chat : ChatDocOK(chat[m])
    /\ \A t \in Tabs : ChatCallOK(t)

LEMMA OthersRestChat == [Next]_serviceVars => [ChatStep]_chatVars
BY DEF Next, Play, serviceVars

LEMMA ChatStart == ChatInit => ChatInv
<1> SUFFICES ASSUME ChatInit PROVE ChatInv
  OBVIOUS
<1>1. ChatTypes
  BY ChatAssumption DEF ChatInit, ChatTypes
<1>2. ShownOK /\ \A t \in Tabs : ChatCallOK(t)
  BY DEF ChatInit, ShownOK, ChatCallOK, NoChatCall
<1> QED
  BY <1>1, <1>2 DEF ChatInv, ChatInit

LEMMA ChatIsSound == ChatInv => ChatTypeOK /\ ChatIsOnRecord
<1> SUFFICES ASSUME ChatInv PROVE ChatTypeOK /\ ChatIsOnRecord
  OBVIOUS
<1>1. ChatTypeOK
  BY DEF ChatInv, ChatTypes, ChatTypeOK, ChatCallOK
<1>2. ASSUME NEW m \in DOMAIN chat, NEW u \in People \ {chat[m].sender} PROVE chat[m].text[u] + chat[m].oid[u] <= 1
  <2>1. chat[m].text[u] = 0 /\ chat[m].oid[u] <= 1 /\ chat[m] \in ChatDoc
    BY DEF ChatInv, ChatDocOK
  <2>2. chat[m].oid[u] \in Nat
    BY <2>1 DEF ChatDoc
  <2> QED
    BY <2>1, <2>2
<1> QED
  BY <1>1, <1>2 DEF ChatInv, ShownOK, ChatIsOnRecord

\* Documents and receipts are never taken away.
ChatGrows ==
    /\ chat' \in Seq(ChatDoc) /\ DOMAIN chat \subseteq DOMAIN chat'
    /\ \A m \in DOMAIN chat, u \in People : chat'[m].oid[u] >= chat[m].oid[u]
    /\ \A m \in DOMAIN chat' : ChatDocOK(chat'[m])

LEMMA ReceiptsAreNumbers ==
    ASSUME ChatInv PROVE \A m \in DOMAIN chat, u \in People : chat[m] \in ChatDoc /\ chat[m].oid[u] \in Nat
<1>1. \A m \in DOMAIN chat : chat[m] \in ChatDoc
  BY DEF ChatInv, ChatDocOK
<1> QED
  BY <1>1 DEF ChatDoc

LEMMA TabUsers == \A t \in Tabs : UserOf(t) \in People
BY DEF Tabs, UserOf

\* What a tab's event knows stays true while the documents grow.
LEMMA ChatCallsRest ==
    ASSUME ChatInv, ChatGrows, NEW t \in Tabs, chatCall'[t] = chatCall[t],
           \A m \in DOMAIN chat, u \in People : chat'[m].oid[u] \in Nat
    PROVE  ChatCallOK(t)'
<1>1. ChatCallOK(t) /\ UserOf(t) \in People
  BY TabUsers DEF ChatInv
<1>2. \A m \in DOMAIN chat, u \in People : chat[m].oid[u] \in Nat
  BY ReceiptsAreNumbers
<1> QED
  BY <1>1, <1>2 DEF ChatCallOK, ChatGrows

LEMMA GrownReceipts == ASSUME ChatGrows PROVE \A m \in DOMAIN chat', u \in People : chat'[m].oid[u] \in Nat
<1>1. \A m \in DOMAIN chat' : chat'[m] \in ChatDoc
  BY DEF ChatGrows
<1> QED
  BY <1>1 DEF ChatDoc

LEMMA ShownRests ==
    ASSUME ChatInv, ChatGrows, UNCHANGED <<shown, shownRead>> PROVE ShownOK'
<1>1. \A t \in Tabs : \A r \in shownRead[t] : r[2] \in People
  BY DEF ChatInv, ChatTypes
<1>2. \A m \in DOMAIN chat, u \in People : chat[m].oid[u] \in Nat /\ chat'[m].oid[u] \in Nat
  BY ReceiptsAreNumbers, GrownReceipts DEF ChatGrows
<1>3. DOMAIN chat \subseteq DOMAIN chat' /\ \A m \in DOMAIN chat, u \in People : chat'[m].oid[u] >= chat[m].oid[u]
  BY DEF ChatGrows
<1>4. ASSUME NEW t \in Tabs, NEW r \in shownRead[t]
      PROVE  r[1] = Foreign \/ (r[1] \in DOMAIN chat' /\ chat'[r[1]].oid[r[2]] > 0)
  <2>1. r[1] = Foreign \/ (r[1] \in DOMAIN chat /\ chat[r[1]].oid[r[2]] > 0)
    BY DEF ChatInv, ShownOK
  <2>2. CASE r[1] \in DOMAIN chat /\ chat[r[1]].oid[r[2]] > 0
    <3>1. PICK m \in DOMAIN chat, u \in People : m = r[1] /\ u = r[2]
      BY <1>1, <2>2
    <3>2. chat[m].oid[u] \in Nat /\ chat'[m].oid[u] \in Nat /\ chat'[m].oid[u] >= chat[m].oid[u] /\ chat[m].oid[u] > 0
      BY <1>2, <1>3, <2>2, <3>1
    <3>3. chat'[m].oid[u] > 0
      BY <3>2
    <3> QED
      BY <1>3, <3>1, <3>3
  <2> QED
    BY <2>1, <2>2
<1>5. \A t \in Tabs : shown[t] \subseteq DOMAIN chat'
  BY <1>3 DEF ChatInv, ShownOK
<1> QED
  BY <1>4, <1>5 DEF ShownOK

LEMMA ChatStays == ASSUME ChatInv, UNCHANGED chat PROVE ChatGrows
BY ReceiptsAreNumbers DEF ChatGrows, ChatInv, ChatTypes

\* One tab's event goes on, and nothing is shown.
LEMMA ChatMoves ==
    ASSUME ChatInv, ChatGrows, NEW t \in Tabs, NEW rec, ChatGoes(t, rec), ChatCallOK(t)',
           driverId' \in ChatDrivers, inRoom' \subseteq Tabs, chatCalls' \in 0..MaxChatCalls,
           ShownOK', shown' \in [Tabs -> SUBSET Nat], shownRead' \in [Tabs -> SUBSET (Nat \X People)]
    PROVE  ChatInv'
<1>1. DOMAIN chatCall' = Tabs /\ \A v \in Tabs \ {t} : chatCall'[v] = chatCall[v]
  BY DEF ChatGoes, ChatInv, ChatTypes
<1>2. \A v \in Tabs : ChatCallOK(v)'
  BY <1>1, ChatCallsRest, GrownReceipts DEF ChatGrows
<1> QED
  BY <1>1, <1>2 DEF ChatInv, ChatTypes, ChatGrows

\* An event arrives, or ends: no document changes.
LEMMA ChatQuiet ==
    ASSUME ChatInv, NEW t \in Tabs, NEW rec, ChatGoes(t, rec), UNCHANGED <<driverId, chat, shown, shownRead>>,
           rec.pc \in {"idle", "join", "create"} \/ (rec.pc = "mark" /\ rec.message \in DOMAIN chat \cup {Foreign}),
           inRoom' \subseteq Tabs, chatCalls' \in 0..MaxChatCalls
    PROVE  ChatInv'
<1>1. ChatGrows
  BY ChatStays
<1>2. ShownOK'
  BY <1>1, ShownRests
<1>3. chatCall'[t] = rec
  BY DEF ChatGoes, ChatInv, ChatTypes
<1>4. ChatCallOK(t)'
  BY <1>3 DEF ChatCallOK
<1> QED
  BY <1>1, <1>2, <1>4, ChatMoves DEF ChatInv, ChatTypes

LEMMA ChatArrives ==
    ASSUME ChatInv, NEW t \in Tabs, JoinRoom(t) \/ SendMessage(t) \/ ReadReceipt(t) PROVE ChatInv'
<1>1. ASSUME NEW rec, ChatCallArrives(t, rec), UNCHANGED <<driverId, inRoom, chat, shown, shownRead>>,
             rec.pc \in {"idle", "join", "create"} \/ (rec.pc = "mark" /\ rec.message \in DOMAIN chat \cup {Foreign})
      PROVE ChatInv'
  <2>1. inRoom' \subseteq Tabs /\ chatCalls' \in 0..MaxChatCalls
    BY <1>1, ChatAssumption DEF ChatCallArrives, ChatInv, ChatTypes
  <2> QED
    BY <1>1, <2>1, ChatQuiet DEF ChatCallArrives
<1>2. CASE JoinRoom(t)
  <2>1. PICK rec : rec = [pc |-> "join"]
    OBVIOUS
  <2>2. rec.pc = "join"
    BY <2>1
  <2> QED
    BY <1>1, <1>2, <2>1, <2>2 DEF JoinRoom, Heard
<1>3. CASE SendMessage(t)
  <2>1. PICK rec : rec = [pc |-> "create"]
    OBVIOUS
  <2>2. rec.pc = "create"
    BY <2>1
  <2> QED
    BY <1>1, <1>3, <2>1, <2>2 DEF SendMessage, Heard
<1>4. CASE ReadReceipt(t)
  <2>1. PICK m \in DOMAIN chat \cup {Foreign} : ChatCallArrives(t, [pc |-> "mark", message |-> m])
    BY <1>4 DEF ReadReceipt
  <2>2. PICK rec : rec = [pc |-> "mark", message |-> m]
    OBVIOUS
  <2>3. rec.pc = "mark" /\ rec.message = m
    BY <2>2
  <2> QED
    BY <1>1, <1>4, <2>1, <2>2, <2>3 DEF ReadReceipt, Heard
<1> QED
  BY <1>2, <1>3, <1>4

LEMMA ChatRoom ==
    ASSUME ChatInv, NEW t \in Tabs, Join(t) \/ JoinFails(t) \/ LeaveRoom(t) PROVE ChatInv'
<1>1. NoChatCall.pc = "idle"
  BY DEF NoChatCall
<1>2. CASE Join(t) \/ JoinFails(t)
  <2>1. ChatGoes(t, NoChatCall) /\ UNCHANGED <<driverId, chat, shown, shownRead>> /\ inRoom' \subseteq Tabs /\ chatCalls' \in 0..MaxChatCalls
    BY <1>2 DEF Join, JoinFails, Heard, ChatInv, ChatTypes
  <2> QED
    BY <1>1, <2>1, ChatQuiet
<1>3. CASE LeaveRoom(t)
  BY <1>3 DEF LeaveRoom, Heard, ChatInv, ChatTypes, ShownOK, ChatCallOK
<1> QED
  BY <1>2, <1>3

\* A new message.
LEMMA ChatAppends ==
    ASSUME ChatInv, NEW doc, ChatDocOK(doc), chat' = Append(chat, doc)
    PROVE  ChatGrows /\ Len(chat) + 1 \in DOMAIN chat'
<1>1. chat \in Seq(ChatDoc) /\ doc \in ChatDoc
  BY DEF ChatInv, ChatTypes, ChatDocOK
<1>2. chat' \in Seq(ChatDoc) /\ Len(chat') = Len(chat) + 1 /\ chat'[Len(chat) + 1] = doc
      /\ \A m \in DOMAIN chat : m \in DOMAIN chat' /\ chat'[m] = chat[m]
  BY <1>1
<1>3. \A m \in DOMAIN chat' : m \in DOMAIN chat \/ m = Len(chat) + 1
  BY <1>1, <1>2
<1>4. \A m \in DOMAIN chat' : ChatDocOK(chat'[m])
  BY <1>2, <1>3 DEF ChatInv
<1> QED
  BY <1>1, <1>2, <1>4, ReceiptsAreNumbers DEF ChatGrows

LEMMA ChatCreates ==
    ASSUME ChatInv, NEW t \in Tabs, CreateDeliveryMessage(t) PROVE ChatInv'
<1>1. UNCHANGED <<driverId, inRoom, chatCalls, shown, shownRead>>
  BY DEF CreateDeliveryMessage, Heard
<1>2. CASE ChatGoes(t, NoChatCall) /\ UNCHANGED chat
  <2>1. NoChatCall.pc = "idle"
    BY DEF NoChatCall
  <2> QED
    BY <1>1, <1>2, <2>1, ChatQuiet DEF ChatInv, ChatTypes
<1>3. CASE /\ chat' = Append(chat, [sender |-> UserOf(t), text |-> [u \in People |-> IF u = UserOf(t) THEN 1 ELSE 0],
                                   oid |-> [u \in People |-> 0]])
           /\ ChatGoes(t, [pc |-> "announce", message |-> Len(chat) + 1])
  <2>1. PICK doc : doc = [sender |-> UserOf(t), text |-> [u \in People |-> IF u = UserOf(t) THEN 1 ELSE 0], oid |-> [u \in People |-> 0]]
    OBVIOUS
  <2>2. doc \in ChatDoc /\ doc.sender = UserOf(t)
    BY <2>1, TabUsers DEF ChatDoc
  <2>3. \A u \in People \ {UserOf(t)} : doc.text[u] = 0 /\ doc.oid[u] = 0
    BY <2>1
  <2>4. ChatDocOK(doc)
    BY <2>2, <2>3 DEF ChatDocOK
  <2>5. ChatGrows /\ Len(chat) + 1 \in DOMAIN chat'
    BY <1>3, <2>1, <2>4, ChatAppends
  <2>6. PICK rec : rec = [pc |-> "announce", message |-> Len(chat) + 1]
    OBVIOUS
  <2>7. chatCall'[t] = rec /\ ChatGoes(t, rec)
    BY <1>3, <2>6 DEF ChatGoes, ChatInv, ChatTypes
  <2>8. ChatCallOK(t)'
    BY <2>5, <2>6, <2>7 DEF ChatCallOK
  <2> QED
    BY <1>1, <2>5, <2>7, <2>8, ShownRests, ChatMoves DEF ChatInv, ChatTypes
<1> QED
  BY <1>2, <1>3, Zenon DEF CreateDeliveryMessage

\* What is announced is on record.
LEMMA ChatAnnounces ==
    ASSUME ChatInv, NEW t \in Tabs, AnnounceMessage(t) \/ AnnounceRead(t) PROVE ChatInv'
<1>0. ChatTypes /\ ShownOK /\ ChatCallOK(t) /\ UserOf(t) \in People /\ chat \in Seq(ChatDoc)
  BY TabUsers DEF ChatInv, ChatTypes
<1>1. ChatGoes(t, NoChatCall) /\ UNCHANGED <<driverId, inRoom, chat, chatCalls>>
  BY DEF AnnounceMessage, AnnounceRead
<1>2. ChatGrows /\ NoChatCall.pc = "idle"
  BY <1>1, ChatStays DEF NoChatCall
<1>3. ChatCallOK(t)'
  BY <1>0, <1>1, <1>2 DEF ChatCallOK, ChatGoes, ChatTypes
<1>4. PICK m \in DOMAIN chat \cup {Foreign} : m = chatCall[t].message /\ (AnnounceMessage(t) => m \in DOMAIN chat)
  BY <1>0 DEF AnnounceMessage, AnnounceRead, ChatCallOK
<1>5. m \in Nat
  BY <1>0 DEF Foreign
<1>6. CASE AnnounceMessage(t)
  <2>1. shownRead' = shownRead /\ shown' = [v \in Tabs |-> IF v \in inRoom THEN shown[v] \cup {m} ELSE shown[v]]
    BY <1>4, <1>6 DEF AnnounceMessage
  <2>2. shown' \in [Tabs -> SUBSET Nat] /\ \A v \in Tabs : shown'[v] \subseteq shown[v] \cup {m}
    BY <1>0, <1>5, <2>1 DEF ChatTypes
  <2>3. ShownOK'
    BY <1>0, <1>1, <1>4, <1>6, <2>1, <2>2 DEF ShownOK
  <2> QED
    BY <1>0, <1>1, <1>2, <1>3, <2>1, <2>2, <2>3, ChatMoves DEF ChatTypes
<1>7. CASE AnnounceRead(t)
  <2>1. shown' = shown /\ shownRead' = [v \in Tabs |-> IF v \in inRoom \ {t} THEN shownRead[v] \cup {<<m, UserOf(t)>>} ELSE shownRead[v]]
    BY <1>4, <1>7 DEF AnnounceRead
  <2>2. shownRead' \in [Tabs -> SUBSET (Nat \X People)] /\ \A v \in Tabs : shownRead'[v] \subseteq shownRead[v] \cup {<<m, UserOf(t)>>}
    BY <1>0, <1>5, <2>1 DEF ChatTypes
  <2>3. m = Foreign \/ (m \in DOMAIN chat /\ chat[m].oid[UserOf(t)] > 0)
    BY <1>0, <1>4, <1>7 DEF AnnounceRead, ChatCallOK
  <2>4. ShownOK'
    BY <1>0, <1>1, <2>1, <2>2, <2>3 DEF ShownOK
  <2> QED
    BY <1>0, <1>1, <1>2, <1>3, <2>1, <2>2, <2>4, ChatMoves DEF ChatTypes
<1> QED
  BY <1>6, <1>7

\* A receipt is added where there is none of its kind.
LEMMA MarkedDoc ==
    ASSUME NEW doc, ChatDocOK(doc), NEW u \in People, Unread(doc, u)
    PROVE  /\ ChatDocOK(Marked(doc, u)) /\ Marked(doc, u).oid[u] = 1
           /\ \A v \in People : Marked(doc, u).oid[v] >= doc.oid[v]
<1>1. doc \in ChatDoc /\ doc.oid \in [People -> Nat] /\ doc.oid[u] = 0
  BY DEF ChatDocOK, ChatDoc, Unread
<1>2. PICK oid : oid = [doc.oid EXCEPT ![u] = 1]
  OBVIOUS
<1>3. oid \in [People -> Nat] /\ oid[u] = 1 /\ \A v \in People \ {u} : oid[v] = doc.oid[v]
  BY <1>1, <1>2
<1>4. PICK new : new = [doc EXCEPT !.oid = oid]
  OBVIOUS
<1>5. Marked(doc, u) = new
  BY <1>1, <1>2, <1>4 DEF Marked, ChatDoc
<1>6. new \in ChatDoc /\ new.sender = doc.sender /\ new.text = doc.text /\ new.oid = oid
  BY <1>1, <1>3, <1>4 DEF ChatDoc
<1>7. ChatDocOK(new)
  BY <1>3, <1>6 DEF ChatDocOK
<1> QED
  BY <1>1, <1>3, <1>5, <1>6, <1>7

\* Receipts are added to some of the documents.
LEMMA SomeMarked ==
    ASSUME ChatInv, NEW u \in People, NEW S,
           chat' = [k \in DOMAIN chat |-> IF k \in S /\ Unread(chat[k], u) THEN Marked(chat[k], u) ELSE chat[k]]
    PROVE  ChatGrows /\ \A k \in DOMAIN chat \cap S : chat'[k].oid[u] > 0
<1>1. chat \in Seq(ChatDoc) /\ \A k \in DOMAIN chat : ChatDocOK(chat[k])
  BY DEF ChatInv, ChatTypes
<1>2. /\ DOMAIN chat' = DOMAIN chat
      /\ \A k \in DOMAIN chat : chat'[k] = chat[k] \/ (Unread(chat[k], u) /\ chat'[k] = Marked(chat[k], u))
  OBVIOUS
<1>3. \A k \in DOMAIN chat : ChatDocOK(chat'[k]) /\ \A v \in People : chat'[k].oid[v] >= chat[k].oid[v]
  BY <1>1, <1>2, MarkedDoc, ReceiptsAreNumbers
<1>4. \A k \in DOMAIN chat : chat'[k] \in ChatDoc
  BY <1>3 DEF ChatDocOK
<1>5. chat' \in Seq(ChatDoc)
  <2>1. DOMAIN chat = 1..Len(chat) /\ Len(chat) \in Nat
    BY <1>1
  <2>2. chat' \in [1..Len(chat) -> ChatDoc]
    BY <1>4, <2>1
  <2> QED
    BY <2>1, <2>2
<1>6. ASSUME NEW k \in DOMAIN chat \cap S PROVE chat'[k].oid[u] > 0
  <2>1. CASE Unread(chat[k], u)
    BY <1>1, <2>1, MarkedDoc
  <2>2. CASE ~Unread(chat[k], u)
    BY <2>2, ReceiptsAreNumbers DEF Unread
  <2> QED
    BY <2>1, <2>2
<1> QED
  BY <1>2, <1>3, <1>5, <1>6 DEF ChatGrows

LEMMA ChatMarks ==
    ASSUME ChatInv, NEW t \in Tabs, MarkRead(t) PROVE ChatInv'
<1> DEFINE u == UserOf(t)
<1>0. ChatTypes /\ chat \in Seq(ChatDoc) /\ u \in People
  BY TabUsers DEF ChatInv, ChatTypes
<1>1. UNCHANGED <<driverId, inRoom, chatCalls, shown, shownRead>> /\ chatCall[t].pc = "mark"
  BY DEF MarkRead, Heard
<1>2. PICK m \in DOMAIN chat \cup {Foreign} : m = chatCall[t].message
  BY <1>1 DEF ChatInv, ChatCallOK
<1>3. CASE ChatGoes(t, NoChatCall) /\ UNCHANGED chat
  <2>1. NoChatCall.pc = "idle"
    BY DEF NoChatCall
  <2> QED
    BY <1>0, <1>1, <1>3, <2>1, ChatQuiet DEF ChatTypes
<1>4. CASE /\ chat' = [k \in DOMAIN chat |-> IF k = m /\ Unread(chat[k], u) THEN Marked(chat[k], u) ELSE chat[k]]
           /\ ChatGoes(t, [pc |-> "announceRead", message |-> m])
  <2>1. PICK S : S = {m}
    OBVIOUS
  <2>2. chat' = [k \in DOMAIN chat |-> IF k \in S /\ Unread(chat[k], u) THEN Marked(chat[k], u) ELSE chat[k]]
    BY <1>4, <2>1
  <2>3. ChatGrows /\ \A k \in DOMAIN chat \cap S : chat'[k].oid[u] > 0
    BY <1>0, <2>2, SomeMarked
  <2>4. m = Foreign \/ (m \in DOMAIN chat' /\ chat'[m].oid[u] > 0)
    BY <2>1, <2>3 DEF ChatGrows
  <2>5. PICK rec : rec = [pc |-> "announceRead", message |-> m]
    OBVIOUS
  <2>6. chatCall'[t] = rec /\ ChatGoes(t, rec)
    BY <1>0, <1>4, <2>5 DEF ChatGoes, ChatTypes
  <2>7. ChatCallOK(t)'
    BY <2>4, <2>5, <2>6 DEF ChatCallOK
  <2> QED
    BY <1>0, <1>1, <2>3, <2>6, <2>7, ShownRests, ChatMoves DEF ChatTypes
<1> QED
  BY <1>2, <1>3, <1>4, Zenon DEF MarkRead

\* The HTTP routes and the delivery leave the tabs' events alone.
LEMMA ChatByHttp ==
    ASSUME ChatInv, ChatGrows, UNCHANGED <<inRoom, chatCall, shown, shownRead>>, driverId' \in ChatDrivers, chatCalls' \in 0..MaxChatCalls
    PROVE  ChatInv'
<1>1. \A t \in Tabs : ChatCallOK(t)'
  BY ChatCallsRest, GrownReceipts DEF ChatGrows
<1>2. ShownOK'
  BY ShownRests
<1> QED
  BY <1>1, <1>2 DEF ChatInv, ChatTypes, ChatGrows

LEMMA ChatHttp ==
    ASSUME ChatInv, NEW u \in People, CreateMessage(u) \/ MarkMessagesAsRead(u) PROVE ChatInv'
<1>0. chat \in Seq(ChatDoc) /\ \A k \in DOMAIN chat : ChatDocOK(chat[k])
  BY DEF ChatInv, ChatTypes
<1>1. UNCHANGED <<driverId, inRoom, chatCall, shown, shownRead>> /\ chatCalls' \in 0..MaxChatCalls /\ driverId' \in ChatDrivers
  BY ChatAssumption DEF CreateMessage, MarkMessagesAsRead, Heard, ChatInv, ChatTypes
<1>2. CASE CreateMessage(u)
  <2>1. PICK doc : doc = [sender |-> u, text |-> [v \in People |-> 0], oid |-> [v \in People |-> IF v = u THEN 1 ELSE 0]]
    OBVIOUS
  <2>2. doc \in ChatDoc /\ doc.sender = u
    BY <2>1 DEF ChatDoc
  <2>3. \A v \in People \ {u} : doc.text[v] = 0 /\ doc.oid[v] = 0
    BY <2>1
  <2>4. ChatDocOK(doc)
    BY <2>2, <2>3 DEF ChatDocOK
  <2>5. ChatGrows
    BY <1>2, <2>1, <2>4, ChatAppends DEF CreateMessage
  <2> QED
    BY <1>1, <2>5, ChatByHttp
<1>3. CASE MarkMessagesAsRead(u)
  <2>1. PICK S : S = {m \in DOMAIN chat : chat[m].sender # u /\ chat[m].text[u] = 0}
    OBVIOUS
  <2>2. chat' = [m \in DOMAIN chat |-> IF m \in S /\ Unread(chat[m], u) THEN Marked(chat[m], u) ELSE chat[m]]
    BY <1>3, <2>1 DEF MarkMessagesAsRead
  <2>3. ChatGrows
    BY <2>2, SomeMarked
  <2> QED
    BY <1>1, <2>3, ChatByHttp
<1> QED
  BY <1>2, <1>3

LEMMA ChatKeeps == ChatInv /\ [ChatStep]_chatVars => ChatInv'
<1> SUFFICES ASSUME ChatInv, [ChatStep]_chatVars PROVE ChatInv'
  OBVIOUS
<1>1. ASSUME NEW t \in Tabs,
             \/ JoinRoom(t) \/ Join(t) \/ JoinFails(t) \/ LeaveRoom(t)
             \/ SendMessage(t) \/ CreateDeliveryMessage(t) \/ AnnounceMessage(t)
             \/ ReadReceipt(t) \/ MarkRead(t) \/ AnnounceRead(t)
      PROVE ChatInv'
  BY <1>1, ChatArrives, ChatRoom, ChatCreates, ChatAnnounces, ChatMarks
<1>2. ASSUME NEW u \in People, CreateMessage(u) \/ MarkMessagesAsRead(u) PROVE ChatInv'
  BY <1>2, ChatHttp
<1>3. ASSUME NEW u \in ChatDrivers, DriverReplaced(u) PROVE ChatInv'
  <2>1. UNCHANGED <<inRoom, chat, chatCall, chatCalls, shown, shownRead>> /\ driverId' \in ChatDrivers
    BY <1>3 DEF DriverReplaced, Heard
  <2>2. chatCalls' \in 0..MaxChatCalls /\ ChatGrows
    BY <2>1, ChatStays DEF ChatInv, ChatTypes
  <2> QED
    BY <2>1, <2>2, ChatByHttp
<1>4. CASE UNCHANGED chatVars
  BY <1>4 DEF chatVars, ChatInv, ChatTypes, ShownOK, ChatCallOK
<1> QED
  BY <1>1, <1>2, <1>3, <1>4 DEF ChatStep

\* Whatever a tab heard is on record, and a reader has one receipt of another's message, however
\* many tabs and requests mark it at once (chatMessage.service.ts, deliveryChatService.ts).
THEOREM ChatIsFaithful == Spec => []ChatIsOnRecord
<1>1. Init => ChatInv
  BY ChatStart DEF Init
<1>2. ChatInv /\ [Next]_serviceVars => ChatInv'
  BY ChatKeeps, OthersRestChat
<1> QED
  BY <1>1, <1>2, ChatIsSound, PTL DEF Spec

-----------------------------------------------------------------------------
(* Push notifications *)

\* A registration under way is some user's, and has an attempt left.
RegistrationOK(rec) ==
    /\ rec \in RegistrationRec
    /\ rec.pc # "idle" => rec.user \in PushUsers
    /\ rec.pc \in {"idle", "refresh", "detach", "attach"} => rec.attempt < MaxClaimAttempts

PushTypes ==
    /\ entries \in [PushUsers -> Nat] /\ pushOn \subseteq PushUsers
    /\ registration \in [Registrations -> RegistrationRec]
    /\ notice \in [Notices -> NoticeRec]
    /\ accessToken \in [cached: BOOLEAN, pending: BOOLEAN] /\ requests \in Nat
    /\ removed \in BOOLEAN /\ pushCalls \in 0..MaxPushCalls /\ pushFaults \in 0..MaxPushFaults
    /\ ledger \in [Notices -> {"none", "recorded", "thrown"}]

\* A token that was ever claimed has an owner, or somebody who is about to attach it, unless it was
\* removed or a call failed.
ClaimIsKept ==
    /\ \E r \in Registrations : registration[r].pc \in {"done", "thrown"}
    /\ ~removed /\ pushFaults = 0
    => (\E u \in PushUsers : entries[u] > 0) \/ \E r \in Registrations : registration[r].pc = "attach"

OneOwner == \A u, v \in PushUsers : entries[u] > 0 /\ entries[v] > 0 => u = v

PushInv ==
    /\ PushTypes /\ OneOwner /\ ClaimIsKept
    /\ \A r \in Registrations : RegistrationOK(registration[r])

LEMMA OthersRestPush == [Next]_serviceVars => [NotificationStep]_pushVars
BY DEF Next, Play, serviceVars

LEMMA PushStart == NotificationInit => PushInv
<1> SUFFICES ASSUME NotificationInit PROVE PushInv
  OBVIOUS
<1>1. MaxClaimAttempts \in Nat /\ 0 < MaxClaimAttempts /\ 0 \in 0..MaxClaimAttempts
      /\ 0 \in 0..MaxPushCalls /\ 0 \in 0..MaxPushFaults
  BY PushAssumption
<1>2. PICK none : none = [pc |-> "idle", user |-> NoUser, attempt |-> 0]
  OBVIOUS
<1>3. none \in RegistrationRec /\ RegistrationOK(none) /\ none.pc = "idle"
  BY <1>1, <1>2 DEF RegistrationRec, RegistrationOK
<1>4. registration \in [Registrations -> RegistrationRec] /\ \A r \in Registrations : registration[r] = none
  BY <1>2, <1>3 DEF NotificationInit
<1>5. notice \in [Notices -> NoticeRec]
  BY DEF NotificationInit, NoticeRec
<1>6. accessToken \in [cached: BOOLEAN, pending: BOOLEAN] /\ ledger \in [Notices -> {"none", "recorded", "thrown"}]
  BY DEF NotificationInit
<1>7. entries \in [PushUsers -> Nat] /\ \A u \in PushUsers : entries[u] = 0
  BY DEF NotificationInit
<1>8. PushTypes
  BY <1>1, <1>4, <1>5, <1>6, <1>7 DEF PushTypes, NotificationInit
<1> QED
  BY <1>3, <1>4, <1>7, <1>8 DEF PushInv, OneOwner, ClaimIsKept

LEMMA PushIsSound == PushInv => NotificationTypeOK /\ OneOwnerSurvives
<1> SUFFICES ASSUME PushInv PROVE NotificationTypeOK /\ OneOwnerSurvives
  OBVIOUS
<1>1. NotificationTypeOK
  BY DEF PushInv, PushTypes, NotificationTypeOK
<1>2. Cardinality({u \in PushUsers : entries[u] > 0}) <= 1
  <2>1. CASE {u \in PushUsers : entries[u] > 0} = {}
    BY <2>1, FS_EmptySet
  <2>2. CASE {u \in PushUsers : entries[u] > 0} # {}
    <3>1. PICK u \in PushUsers : entries[u] > 0
      BY <2>2
    <3>2. {v \in PushUsers : entries[v] > 0} = {u}
      BY <3>1 DEF PushInv, OneOwner
    <3>3. Cardinality({u}) = 1
      BY FS_Singleton
    <3> QED
      BY <3>2, <3>3
  <2> QED
    BY <2>1, <2>2
<1>3. (\A r \in Registrations : registration[r].pc \in {"idle", "done", "thrown"}) =>
         ~\E r \in Registrations : registration[r].pc = "attach"
  OBVIOUS
<1> QED
  BY <1>1, <1>2, <1>3 DEF PushInv, ClaimIsKept, OneOwnerSurvives

\* A step of one registration.
LEMMA RegistrationMoves ==
    ASSUME PushInv, NEW r \in Registrations, NEW new, registration' = [registration EXCEPT ![r] = new], RegistrationOK(new),
           entries' \in [PushUsers -> Nat], OneOwner', pushCalls' \in 0..MaxPushCalls, pushFaults' \in 0..MaxPushFaults,
           UNCHANGED <<pushOn, removed, notice, accessToken, requests, ledger>>,
           pushFaults' = 0 /\ ~removed =>
               /\ pushFaults = 0
               /\ \/ \E u \in PushUsers : entries'[u] > 0
                  \/ new.pc = "attach"
                  \/ entries' = entries /\ registration[r].pc \notin {"attach", "done", "thrown"} /\ new.pc \notin {"done", "thrown"}
    PROVE  PushInv'
<1>1. registration' \in [Registrations -> RegistrationRec] /\ registration'[r] = new
      /\ \A q \in Registrations \ {r} : registration'[q] = registration[q]
  BY DEF PushInv, PushTypes, RegistrationOK
<1>2. \A q \in Registrations : RegistrationOK(registration[q])'
  BY <1>1 DEF PushInv, RegistrationOK
<1>3. PushTypes'
  BY <1>1 DEF PushInv, PushTypes
<1>4. ClaimIsKept'
  <2>1. SUFFICES ASSUME NEW q \in Registrations, registration'[q].pc \in {"done", "thrown"}, ~removed', pushFaults' = 0
                 PROVE  (\E u \in PushUsers : entries'[u] > 0) \/ \E p \in Registrations : registration'[p].pc = "attach"
    BY DEF ClaimIsKept
  <2>2. CASE (\E u \in PushUsers : entries'[u] > 0) \/ new.pc = "attach"
    BY <1>1, <2>2
  <2>3. CASE entries' = entries /\ registration[r].pc \notin {"attach", "done", "thrown"} /\ new.pc \notin {"done", "thrown"}
    <3>1. q # r /\ registration[q].pc \in {"done", "thrown"} /\ ~removed /\ pushFaults = 0
      BY <1>1, <2>1, <2>3
    <3>2. (\E u \in PushUsers : entries[u] > 0) \/ \E p \in Registrations \ {r} : registration[p].pc = "attach"
      BY <2>3, <3>1 DEF PushInv, ClaimIsKept
    <3> QED
      BY <1>1, <2>3, <3>2
  <2> QED
    BY <2>1, <2>2, <2>3
<1> QED
  BY <1>2, <1>3, <1>4 DEF PushInv

LEMMA RegistrationFields ==
    ASSUME PushInv, NEW r \in Registrations
    PROVE  registration[r] \in RegistrationRec /\ RegistrationOK(registration[r]) /\ r \in DOMAIN registration
BY DEF PushInv, PushTypes

\* The pc of a registration moves, its user and attempt stay.
LEMMA RegistrationPc ==
    ASSUME PushInv, NEW r \in Registrations, registration[r].pc # "idle", NEW p \in {"refresh", "detach", "attach", "done", "thrown"},
           p \in {"refresh", "detach", "attach"} => registration[r].pc \in {"refresh", "detach", "attach"},
           RegistrationGoes(r, p)
    PROVE  \E new : registration' = [registration EXCEPT ![r] = new] /\ RegistrationOK(new) /\ new.pc = p /\ new.user = registration[r].user
<1>1. PICK new : new = [registration[r] EXCEPT !.pc = p]
  OBVIOUS
<1>2. registration' = [registration EXCEPT ![r] = new]
  BY <1>1, RegistrationFields DEF RegistrationGoes
<1>3. new \in RegistrationRec /\ new.pc = p /\ new.user = registration[r].user /\ new.attempt = registration[r].attempt
  BY <1>1, RegistrationFields DEF RegistrationRec
<1>4. RegistrationOK(new)
  BY <1>3, RegistrationFields DEF RegistrationOK
<1> QED
  BY <1>2, <1>3, <1>4

LEMMA RegistrationKeeps ==
    ASSUME PushInv, NEW r \in Registrations, RegistrationStep(r) PROVE PushInv'
<1> DEFINE u == registration[r].user
<1>0. PushTypes /\ OneOwner /\ entries \in [PushUsers -> Nat]
      /\ (registration[r].pc # "idle" => u \in PushUsers)
  BY RegistrationFields DEF PushInv, PushTypes, RegistrationOK
<1>1. CASE RegisterDevice(r)
  <2>1. PICK v \in PushUsers : registration' = [registration EXCEPT ![r].pc = "refresh", ![r].user = v]
    BY <1>1 DEF RegisterDevice
  <2>2. PICK new : new = [registration[r] EXCEPT !.pc = "refresh", !.user = v]
    OBVIOUS
  <2>3. registration' = [registration EXCEPT ![r] = new]
    BY <2>1, <2>2, RegistrationFields
  <2>4. new \in RegistrationRec /\ new.pc = "refresh" /\ new.user = v /\ new.attempt = registration[r].attempt
    BY <2>2, RegistrationFields DEF RegistrationRec
  <2>5. RegistrationOK(new)
    BY <1>1, <2>4, RegistrationFields DEF RegistrationOK, RegisterDevice
  <2>6. pushCalls' \in 0..MaxPushCalls /\ UNCHANGED <<entries, pushOn, removed, pushFaults, notice, accessToken, requests, ledger>>
        /\ registration[r].pc = "idle"
    BY <1>0, <1>1, PushAssumption DEF RegisterDevice, PushCall, Sending, PushTypes
  <2>7. OneOwner'
    BY <1>0, <2>6 DEF OneOwner
  <2>8. entries' \in [PushUsers -> Nat] /\ pushFaults' \in 0..MaxPushFaults
    BY <1>0, <2>6 DEF PushTypes
  <2> QED
    BY <2>3, <2>4, <2>5, <2>6, <2>7, <2>8, RegistrationMoves
<1>2. CASE RefreshDevice(r)
  <2>1. UNCHANGED <<entries, pushOn, removed, pushCalls, pushFaults, notice, accessToken, requests, ledger>> /\ registration[r].pc = "refresh"
    BY <1>2 DEF RefreshDevice, Sending
  <2>2. PICK p \in {"done", "detach"} : RegistrationGoes(r, p) /\ (p = "done" => entries[u] > 0)
    BY <1>2 DEF RefreshDevice
  <2>3. PICK new : registration' = [registration EXCEPT ![r] = new] /\ RegistrationOK(new) /\ new.pc = p
    BY <2>1, <2>2, RegistrationPc
  <2>4. OneOwner' /\ entries' \in [PushUsers -> Nat] /\ pushFaults' \in 0..MaxPushFaults /\ pushCalls' \in 0..MaxPushCalls
    BY <1>0, <2>1 DEF OneOwner, PushTypes
  <2>5. (\E v \in PushUsers : entries'[v] > 0) \/ new.pc = "detach"
    BY <1>0, <2>1, <2>2, <2>3
  <2> QED
    BY <2>1, <2>3, <2>4, <2>5, RegistrationMoves
<1>3. CASE DetachDevice(r)
  <2>1. /\ UNCHANGED <<pushOn, removed, pushCalls, pushFaults, notice, accessToken, requests, ledger>> /\ registration[r].pc = "detach"
        /\ entries' = [v \in PushUsers |-> IF v = u THEN entries[v] ELSE 0] /\ RegistrationGoes(r, "attach")
    BY <1>3 DEF DetachDevice, Sending
  <2>2. PICK new : registration' = [registration EXCEPT ![r] = new] /\ RegistrationOK(new) /\ new.pc = "attach"
    BY <2>1, RegistrationPc
  <2>3. entries' \in [PushUsers -> Nat] /\ pushFaults' \in 0..MaxPushFaults /\ pushCalls' \in 0..MaxPushCalls
    BY <1>0, <2>1 DEF PushTypes
  <2>4. OneOwner'
    BY <1>0, <2>1 DEF OneOwner
  <2> QED
    BY <2>1, <2>2, <2>3, <2>4, RegistrationMoves
<1>4. CASE AttachDevice(r)
  <2>1. UNCHANGED <<pushOn, removed, pushCalls, pushFaults, notice, accessToken, requests, ledger>> /\ registration[r].pc = "attach"
    BY <1>4 DEF AttachDevice, Sending
  <2>2. pushFaults' \in 0..MaxPushFaults /\ pushCalls' \in 0..MaxPushCalls
    BY <1>0, <2>1 DEF PushTypes
  <2>3. CASE ~TokenTaken(u) /\ entries' = [entries EXCEPT ![u] = @ + 1] /\ RegistrationGoes(r, "done")
    <3>1. PICK new : registration' = [registration EXCEPT ![r] = new] /\ RegistrationOK(new) /\ new.pc = "done"
      BY <2>1, <2>3, RegistrationPc
    <3>2. entries' \in [PushUsers -> Nat] /\ entries'[u] > 0 /\ u \in PushUsers
      BY <1>0, <2>1, <2>3
    <3>3. OneOwner'
      BY <1>0, <2>1, <2>3 DEF OneOwner, TokenTaken
    <3> QED
      BY <2>1, <2>2, <3>1, <3>2, <3>3, RegistrationMoves
  <2>4. CASE /\ TokenTaken(u)
             /\ registration' = [registration EXCEPT ![r].attempt = registration[r].attempt + 1,
                                   ![r].pc = IF registration[r].attempt + 1 = MaxClaimAttempts THEN "thrown" ELSE "refresh"]
             /\ UNCHANGED entries
    <3>1. PICK p \in {"thrown", "refresh"} : p = IF registration[r].attempt + 1 = MaxClaimAttempts THEN "thrown" ELSE "refresh"
      OBVIOUS
    <3>2. PICK new : new = [registration[r] EXCEPT !.attempt = registration[r].attempt + 1, !.pc = p]
      OBVIOUS
    <3>3. registration' = [registration EXCEPT ![r] = new]
      BY <2>4, <3>1, <3>2, RegistrationFields
    <3>4. registration[r].attempt + 1 \in 0..MaxClaimAttempts /\ registration[r].attempt \in Nat /\ registration[r].user \in PushUsers
      BY <2>1, PushAssumption, RegistrationFields DEF RegistrationOK, RegistrationRec
    <3>5. new \in RegistrationRec /\ new.pc = p /\ new.user = u /\ new.attempt = registration[r].attempt + 1
      BY <3>2, <3>4, RegistrationFields DEF RegistrationRec
    <3>6. RegistrationOK(new)
      BY <3>1, <3>4, <3>5, PushAssumption DEF RegistrationOK
    <3>7. OneOwner' /\ entries' \in [PushUsers -> Nat] /\ \E v \in PushUsers : entries'[v] > 0
      BY <1>0, <2>4 DEF OneOwner, TokenTaken
    <3> QED
      BY <2>1, <2>2, <3>3, <3>6, <3>7, RegistrationMoves
  <2> QED
    BY <1>4, <2>3, <2>4, Zenon DEF AttachDevice
<1>5. CASE RegistrationThrows(r)
  <2>1. /\ UNCHANGED <<entries, pushOn, removed, pushCalls, notice, accessToken, requests, ledger>> /\ registration[r].pc # "idle"
        /\ PushFault /\ RegistrationGoes(r, "thrown")
    BY <1>5 DEF RegistrationThrows, Sending
  <2>2. PICK new : registration' = [registration EXCEPT ![r] = new] /\ RegistrationOK(new) /\ new.pc = "thrown"
    BY <2>1, RegistrationPc
  <2>3. OneOwner' /\ entries' \in [PushUsers -> Nat] /\ pushFaults' \in 0..MaxPushFaults /\ pushFaults' # 0 /\ pushCalls' \in 0..MaxPushCalls
    BY <1>0, <2>1, PushAssumption DEF OneOwner, PushTypes, PushFault
  <2> QED
    BY <2>1, <2>2, <2>3, RegistrationMoves
<1> QED
  BY <1>1, <1>2, <1>3, <1>4, <1>5 DEF RegistrationStep

\* Everything but the registrations: the token goes from somebody only on purpose.
LEMMA OwnersRest ==
    ASSUME PushInv, PushTypes', UNCHANGED registration,
           entries' = entries \/ (removed' = TRUE /\ \A u \in PushUsers : entries'[u] > 0 => entries[u] > 0),
           pushFaults' = 0 => pushFaults = 0, ~removed' => ~removed
    PROVE  PushInv'
<1>1. OneOwner'
  BY DEF PushInv, OneOwner
<1>2. ClaimIsKept'
  BY DEF PushInv, ClaimIsKept
<1> QED
  BY <1>1, <1>2 DEF PushInv, RegistrationOK

LEMMA UserKeeps ==
    ASSUME PushInv, NEW u \in PushUsers, RemoveDevice(u) \/ UpdatePreferences(u) PROVE PushInv'
<1>1. PushTypes /\ MaxPushCalls \in Nat
  BY PushAssumption DEF PushInv
<1>2. CASE RemoveDevice(u)
  <2>1. entries' = [entries EXCEPT ![u] = 0] /\ removed' = TRUE /\ UNCHANGED <<pushOn, registration, pushFaults, notice, accessToken, requests, ledger>>
        /\ pushCalls' \in 0..MaxPushCalls
    BY <1>1, <1>2 DEF RemoveDevice, PushCall, Sending, PushTypes
  <2>2. PushTypes' /\ \A v \in PushUsers : entries'[v] > 0 => entries[v] > 0
    BY <1>1, <2>1 DEF PushTypes
  <2> QED
    BY <2>1, <2>2, OwnersRest
<1>3. CASE UpdatePreferences(u)
  <2>1. UNCHANGED <<entries, registration, removed, pushFaults, notice, accessToken, requests, ledger>> /\ pushOn' \subseteq PushUsers
        /\ pushCalls' \in 0..MaxPushCalls
    BY <1>1, <1>3 DEF UpdatePreferences, PushCall, Sending, PushTypes
  <2>2. PushTypes'
    BY <1>1, <2>1 DEF PushTypes
  <2> QED
    BY <2>1, <2>2, OwnersRest
<1> QED
  BY <1>2, <1>3

LEMMA NoticeFields ==
    ASSUME PushTypes, NEW n \in Notices, NEW p \in {"idle", "auth", "await", "send", "prune", "record", "done"}
    PROVE  /\ [notice EXCEPT ![n].pc = p] \in [Notices -> NoticeRec]
           /\ \A u \in PushUsers : [notice EXCEPT ![n].user = u, ![n].pc = p] \in [Notices -> NoticeRec]
           /\ [notice[n] EXCEPT !.pc = p] \in NoticeRec
<1>1. notice[n] \in NoticeRec /\ notice \in [Notices -> NoticeRec]
  BY DEF PushTypes
<1>2. [notice[n] EXCEPT !.pc = p] \in NoticeRec
  BY <1>1 DEF NoticeRec
<1>3. [notice EXCEPT ![n].pc = p] \in [Notices -> NoticeRec]
  BY <1>1, <1>2
<1>4. ASSUME NEW u \in PushUsers PROVE [notice EXCEPT ![n].user = u, ![n].pc = p] \in [Notices -> NoticeRec]
  <2>1. PICK new : new = [notice[n] EXCEPT !.user = u, !.pc = p]
    OBVIOUS
  <2>2. new \in NoticeRec
    BY <1>1, <2>1 DEF NoticeRec
  <2>3. [notice EXCEPT ![n].user = u, ![n].pc = p] = [notice EXCEPT ![n] = new]
    BY <1>1, <2>1
  <2> QED
    BY <1>1, <2>2, <2>3
<1> QED
  BY <1>2, <1>3, <1>4

LEMMA NoticeKeeps ==
    ASSUME PushInv, NEW n \in Notices, NoticeStep(n) PROVE PushInv'
<1>0. PushTypes /\ MaxPushCalls \in Nat /\ MaxPushFaults \in Nat
  BY PushAssumption DEF PushInv
<1>1. CASE DispatchNotice(n)
  <2>1. /\ UNCHANGED <<entries, pushOn, registration, removed, accessToken, requests, ledger>>
        /\ pushCalls' \in 0..MaxPushCalls
    BY <1>0, <1>1 DEF DispatchNotice, Owning, PushCall, PushTypes
  <2>2. pushFaults' \in 0..MaxPushFaults /\ (pushFaults' = 0 => pushFaults = 0)
    BY <1>0, <1>1 DEF DispatchNotice, PushFault, PushTypes
  <2>3. PICK u \in PushUsers, p \in {"auth", "record"} : notice' = [notice EXCEPT ![n].user = u, ![n].pc = p]
    BY <1>1 DEF DispatchNotice
  <2>4. notice' \in [Notices -> NoticeRec]
    BY <1>0, <2>3, NoticeFields
  <2>5. PushTypes'
    BY <1>0, <2>1, <2>2, <2>4 DEF PushTypes
  <2> QED
    BY <2>1, <2>2, <2>5, OwnersRest
<1>2. CASE GetAccessToken(n)
  <2>1. /\ UNCHANGED <<entries, pushOn, registration, removed, pushCalls, pushFaults, ledger>>
        /\ \E p \in {"send", "await"} : notice' = [notice EXCEPT ![n].pc = p]
    BY <1>2 DEF GetAccessToken, Owning, NoticeGoes
  <2>2. accessToken' \in [cached: BOOLEAN, pending: BOOLEAN] /\ requests' \in Nat
    <3>1. CASE UNCHANGED <<accessToken, requests>>
      BY <1>0, <3>1 DEF PushTypes
    <3>2. CASE accessToken' = TokenPending /\ requests' = IF accessToken.pending THEN requests ELSE requests + 1
      <4>1. TokenPending \in [cached: BOOLEAN, pending: BOOLEAN]
        BY <1>0 DEF PushTypes, TokenPending
      <4>2. requests' = requests \/ requests' = requests + 1
        BY <3>2, Zenon
      <4> QED
        BY <1>0, <3>2, <4>1, <4>2 DEF PushTypes
    <3> QED
      BY <1>2, <3>1, <3>2, Zenon DEF GetAccessToken
  <2>3. notice' \in [Notices -> NoticeRec]
    <3>1. PICK p \in {"send", "await"} : notice' = [notice EXCEPT ![n].pc = p]
      BY <2>1
    <3> QED
      BY <1>0, <3>1, NoticeFields
  <2>4. PushTypes'
    BY <1>0, <2>1, <2>2, <2>3 DEF PushTypes
  <2> QED
    BY <2>1, <2>4, OwnersRest
<1>3. CASE SendPush(n)
  <2>1. /\ UNCHANGED <<entries, pushOn, registration, removed, pushCalls, accessToken, requests, pushFaults, ledger>>
        /\ \E p \in {"record", "prune"} : notice' = [notice EXCEPT ![n].pc = p]
    BY <1>3 DEF SendPush, Owning, NoticeGoes
  <2>2. notice' \in [Notices -> NoticeRec]
    <3>1. PICK p \in {"record", "prune"} : notice' = [notice EXCEPT ![n].pc = p]
      BY <2>1
    <3> QED
      BY <1>0, <3>1, NoticeFields
  <2>3. PushTypes'
    BY <1>0, <2>1, <2>2 DEF PushTypes
  <2> QED
    BY <2>1, <2>3, OwnersRest
<1>4. CASE PruneTokens(n)
  <2>1. /\ entries' = [u \in PushUsers |-> 0] /\ removed' = TRUE /\ notice' = [notice EXCEPT ![n].pc = "record"]
        /\ UNCHANGED <<pushOn, registration, accessToken, requests, pushCalls, pushFaults, ledger>>
    BY <1>4 DEF PruneTokens, NoticeGoes
  <2>2. notice' \in [Notices -> NoticeRec]
    BY <1>0, <2>1, NoticeFields
  <2>3. PushTypes' /\ \A v \in PushUsers : entries'[v] > 0 => entries[v] > 0
    BY <1>0, <2>1, <2>2 DEF PushTypes
  <2> QED
    BY <2>1, <2>3, OwnersRest
<1>5. CASE RecordNotice(n)
  <2>1. /\ UNCHANGED <<entries, pushOn, registration, removed, pushCalls, accessToken, requests>>
        /\ notice' = [notice EXCEPT ![n].pc = "done"]
    BY <1>5 DEF RecordNotice, Owning, NoticeGoes
  <2>2. pushFaults' \in 0..MaxPushFaults /\ (pushFaults' = 0 => pushFaults = 0) /\ ledger' \in [Notices -> {"none", "recorded", "thrown"}]
    BY <1>0, <1>5 DEF RecordNotice, PushFault, PushTypes
  <2>3. notice' \in [Notices -> NoticeRec]
    BY <1>0, <2>1, NoticeFields
  <2>4. PushTypes'
    BY <1>0, <2>1, <2>2, <2>3 DEF PushTypes
  <2> QED
    BY <2>1, <2>2, <2>4, OwnersRest
<1> QED
  BY <1>1, <1>2, <1>3, <1>4, <1>5 DEF NoticeStep

LEMMA TokenKeeps ==
    ASSUME PushInv, AccessTokenAnswered \/ AccessTokenExpires PROVE PushInv'
<1>0. PushTypes /\ MaxPushFaults \in Nat
  BY PushAssumption DEF PushInv
<1>1. CASE AccessTokenExpires
  <2>1. UNCHANGED <<entries, pushOn, registration, removed, pushCalls, notice, requests, pushFaults, ledger>>
        /\ accessToken' = [accessToken EXCEPT !.cached = FALSE]
    BY <1>1 DEF AccessTokenExpires, Owning
  <2>2. accessToken' \in [cached: BOOLEAN, pending: BOOLEAN]
    BY <1>0, <2>1 DEF PushTypes
  <2>3. PushTypes'
    BY <1>0, <2>1, <2>2 DEF PushTypes
  <2> QED
    BY <2>1, <2>3, OwnersRest
<1>2. CASE AccessTokenAnswered
  <2>1. UNCHANGED <<entries, pushOn, registration, removed, pushCalls, ledger>> /\ requests > 0 /\ requests' = requests - 1
    BY <1>2 DEF AccessTokenAnswered, Owning
  <2>2. pushFaults' \in 0..MaxPushFaults /\ (pushFaults' = 0 => pushFaults = 0)
    BY <1>0, <1>2 DEF AccessTokenAnswered, PushFault, PushTypes
  <2>3. accessToken' \in [cached: BOOLEAN, pending: BOOLEAN]
    <3>1. PICK b \in BOOLEAN : accessToken' = [cached |-> b, pending |-> FALSE]
      BY <1>2, Zenon DEF AccessTokenAnswered
    <3>2. FALSE \in BOOLEAN
      OBVIOUS
    <3> QED
      BY <3>1, <3>2, Zenon
  <2>4. PICK p \in {"send", "record"} :
           notice' = [n \in Notices |-> IF notice[n].pc = "await" THEN [notice[n] EXCEPT !.pc = p] ELSE notice[n]]
    BY <1>2, Zenon DEF AccessTokenAnswered
  <2>5. \A n \in Notices : notice[n] \in NoticeRec /\ [notice[n] EXCEPT !.pc = p] \in NoticeRec
    BY <1>0, NoticeFields DEF PushTypes
  <2>6. notice' \in [Notices -> NoticeRec]
    BY <2>4, <2>5
  <2>7. requests' \in Nat
    BY <1>0, <2>1 DEF PushTypes
  <2>8. PushTypes'
    BY <1>0, <2>1, <2>2, <2>3, <2>6, <2>7 DEF PushTypes
  <2> QED
    BY <2>1, <2>2, <2>8, OwnersRest
<1> QED
  BY <1>1, <1>2

LEMMA PushKeeps == PushInv /\ [NotificationStep]_pushVars => PushInv'
<1> SUFFICES ASSUME PushInv, [NotificationStep]_pushVars PROVE PushInv'
  OBVIOUS
<1>1. CASE UNCHANGED pushVars
  BY <1>1 DEF pushVars, PushInv, PushTypes, OneOwner, ClaimIsKept, RegistrationOK
<1> QED
  BY <1>1, RegistrationKeeps, UserKeeps, NoticeKeeps, TokenKeeps DEF NotificationStep

\* Of users who race to attach one token never two own it; and when their calls have ended, one
\* does, unless a call failed or the token was removed (NotificationPreferenceRepository.registerDevice).
THEOREM OwnersAreExclusive == Spec => []OneOwnerSurvives
<1>1. Init => PushInv
  BY PushStart DEF Init
<1>2. PushInv /\ [Next]_serviceVars => PushInv'
  BY PushKeeps, OthersRestPush
<1> QED
  BY <1>1, <1>2, PushIsSound, PTL DEF Spec

-----------------------------------------------------------------------------
(* Counting, iterating and listing in order *)

\* What holds at 0, and at a number if it holds at the one before it, holds up to n.
LEMMA Induction ==
    ASSUME NEW n \in Nat, NEW T, 0 \in T, \A i \in 1..n : i - 1 \in T => i \in T
    PROVE  \A i \in 0..n : i \in T
<1> DEFINE Missing == {i \in 0..n : i \notin T}
<1> SUFFICES ASSUME Missing # {} PROVE FALSE
  OBVIOUS
<1>1. Missing \subseteq Nat
  OBVIOUS
<1>2. PICK k \in Missing : \A j \in Missing : k <= j
  BY <1>1, HasLeast, Zenon
<1>3. k \in 0..n /\ k \notin T /\ k # 0
  OBVIOUS
<1>4. k \in 1..n /\ k - 1 \in 0..n /\ k - 1 \notin T
  BY <1>3
<1>5. k - 1 \in Missing /\ ~(k <= k - 1)
  BY <1>4
<1> QED
  BY <1>2, <1>5

\* A step from each member of S to another, which may be told by its number.
IsStep(step, S, n) == step \in [S \X (1..n) -> S]

\* g starts with first and goes on by step.
IsRun(g, first, step, n) == g[0] = first /\ \A i \in 1..n : g[i] = step[<<g[i - 1], i>>]

\* What starts with first and goes on by step is there, for as long as one likes.
LEMMA Iterates ==
    ASSUME NEW S, NEW n \in Nat, NEW first \in S, NEW step, IsStep(step, S, n)
    PROVE  \E g : g \in [0..n -> S] /\ IsRun(g, first, step, n)
<1> USE DEF IsStep
<1> DEFINE Runs(g, k) == g[0] = first /\ \A i \in 1..k : g[i] = step[<<g[i - 1], i>>]
           Missing == {k \in 0..n : ~\E g \in [0..k -> S] : Runs(g, k)}
<1>1. \A k \in 0..n : \E g \in [0..k -> S] : Runs(g, k)
  <2> SUFFICES ASSUME Missing # {} PROVE FALSE
    OBVIOUS
  <2>1. Missing \subseteq Nat
    OBVIOUS
  <2>2. PICK k \in Missing : \A j \in Missing : k <= j
    BY <2>1, HasLeast, Zenon
  <2>3. k \in 0..n /\ ~\E g \in [0..k -> S] : Runs(g, k)
    OBVIOUS
  <2>4. k # 0
    <3>1. [j \in 0..0 |-> first] \in [0..0 -> S] /\ Runs([j \in 0..0 |-> first], 0)
      OBVIOUS
    <3> QED
      BY <2>3, <3>1
  <2>5. k - 1 \in 0..n /\ k - 1 \notin Missing
    <3> HIDE DEF Missing
    <3>1. k \in Nat /\ k - 1 \in 0..n /\ ~(k <= k - 1)
      BY <2>3, <2>4
    <3> QED
      BY <3>1, <2>2
  <2>6. PICK g \in [0..k - 1 -> S] : Runs(g, k - 1)
    BY <2>5
  <2> DEFINE h == [j \in 0..k |-> IF j = k THEN step[<<g[k - 1], k>>] ELSE g[j]]
  <2>7. step[<<g[k - 1], k>>] \in S
    BY <2>3, <2>4, <2>6
  <2>8. h \in [0..k -> S]
    BY <2>3, <2>7
  <2>9. ASSUME NEW i \in 1..k PROVE h[i] = step[<<h[i - 1], i>>]
    <3>1. i - 1 \in 0..k /\ i \in 0..k /\ i - 1 # k /\ h[i - 1] = g[i - 1]
      BY <2>3, <2>9
    <3>2. CASE i = k
      BY <3>1, <3>2
    <3>3. CASE i # k
      <4>1. i \in 1..k - 1 /\ h[i] = g[i]
        BY <2>3, <2>9, <3>1, <3>3
      <4> QED
        BY <4>1, <3>1, <2>6
    <3> QED
      BY <3>2, <3>3
  <2>10. h[0] = first
    BY <2>3, <2>4, <2>6
  <2> QED
    BY <2>3, <2>8, <2>9, <2>10
<1> QED
  BY <1>1 DEF IsRun

\* s runs through S from its least member to its greatest.
Ascends(s, S, n) ==
    /\ s \in [1..n -> S]
    /\ \A j, k \in 1..n : j < k => s[j] < s[k]
    /\ \A x \in S : \E k \in 1..n : s[k] = x

\* Two sequences that run through one set are the same.
LEMMA AscentIsUnique ==
    ASSUME NEW S, S \subseteq Nat, NEW n \in Nat, NEW s, NEW t, Ascends(s, S, n), Ascends(t, S, n)
    PROVE  s = t
<1> DEFINE Differ == {k \in 1..n : s[k] # t[k]}
<1> SUFFICES ASSUME Differ # {} PROVE FALSE
  BY DEF Ascends
<1>1. PICK k \in Differ : \A j \in Differ : k <= j
  <2>1. Differ \subseteq Nat
    OBVIOUS
  <2> QED
    BY <2>1, HasLeast, Zenon
<1>2. \A j \in 1..k - 1 : s[j] = t[j]
  BY <1>1
<1>3. s[k] \in Nat /\ t[k] \in Nat /\ s[k] # t[k] /\ s[k] \in S /\ t[k] \in S
  BY <1>1 DEF Ascends
<1>4. CASE s[k] < t[k]
  <2>1. PICK j \in 1..n : t[j] = s[k]
    BY <1>3 DEF Ascends
  <2>2. CASE j < k
    <3>1. j \in 1..k - 1 /\ k \in 1..n
      BY <2>1, <2>2, <1>1
    <3>2. t[j] = s[j]
      BY <3>1, <1>2
    <3>3. s[j] < s[k] /\ s[j] \in Nat
      BY <2>1, <2>2, <3>1 DEF Ascends
    <3> QED
      BY <3>2, <3>3, <2>1, <1>3
  <2>3. CASE j = k
    BY <2>1, <2>3, <1>3
  <2>4. CASE k < j
    <3>1. t[k] < t[j]
      BY <2>4, <1>1 DEF Ascends
    <3> QED
      BY <3>1, <2>1, <1>3, <1>4
  <2> QED
    BY <2>2, <2>3, <2>4, <1>1
<1>5. CASE t[k] < s[k]
  <2>1. PICK j \in 1..n : s[j] = t[k]
    BY <1>3 DEF Ascends
  <2>2. CASE j < k
    <3>1. j \in 1..k - 1 /\ k \in 1..n
      BY <2>1, <2>2, <1>1
    <3>2. s[j] = t[j]
      BY <3>1, <1>2
    <3>3. t[j] < t[k] /\ t[j] \in Nat
      BY <2>1, <2>2, <3>1 DEF Ascends
    <3> QED
      BY <3>2, <3>3, <2>1, <1>3
  <2>3. CASE j = k
    BY <2>1, <2>3, <1>3
  <2>4. CASE k < j
    <3>1. s[k] < s[j]
      BY <2>4, <1>1 DEF Ascends
    <3> QED
      BY <3>1, <2>1, <1>3, <1>5
  <2> QED
    BY <2>2, <2>3, <2>4, <1>1
<1> QED
  BY <1>3, <1>4, <1>5

\* A number's place in a finite set is how many are not greater.
LEMMA AscentExists ==
    ASSUME NEW S, S \subseteq Nat, IsFiniteSet(S)
    PROVE  Cardinality(S) \in Nat /\ \E s : Ascends(s, S, Cardinality(S))
<1> DEFINE n == Cardinality(S)
           UpTo(x) == {y \in S : y <= x}
           rank == [x \in S |-> Cardinality(UpTo(x))]
<1>1. n \in Nat
  BY FS_CardinalityType
<1>2. ASSUME NEW x \in S PROVE IsFiniteSet(UpTo(x)) /\ rank[x] \in 1..n
  <2>1. UpTo(x) \in SUBSET S /\ x \in UpTo(x)
    OBVIOUS
  <2>2. IsFiniteSet(UpTo(x)) /\ Cardinality(UpTo(x)) <= n
    BY <2>1, FS_Subset
  <2>3. Cardinality(UpTo(x)) \in Nat /\ Cardinality(UpTo(x)) # 0
    BY <2>1, <2>2, FS_CardinalityType, FS_EmptySet
  <2> QED
    BY <1>1, <2>2, <2>3
<1>3. ASSUME NEW x \in S, NEW y \in S, x < y PROVE rank[x] < rank[y]
  <2>0. S \subseteq Int /\ x \in Int /\ y \in Int
    OBVIOUS
  <2>1. UpTo(x) \in SUBSET UpTo(y) /\ y \in UpTo(y) /\ y \notin UpTo(x)
    <3>1. \A z \in S : z <= x => z <= y
      BY <1>3, <2>0
    <3>2. ~(y <= x) /\ y <= y
      BY <1>3, <2>0
    <3>3. UpTo(x) \in SUBSET UpTo(y)
      BY <3>1
    <3>4. y \in UpTo(y) /\ y \notin UpTo(x)
      BY <3>2
    <3> QED
      BY <3>3, <3>4
  <2>2. Cardinality(UpTo(x)) <= Cardinality(UpTo(y)) /\ Cardinality(UpTo(x)) # Cardinality(UpTo(y))
    BY <2>1, <1>2, FS_Subset
  <2>3. Cardinality(UpTo(x)) \in Nat /\ Cardinality(UpTo(y)) \in Nat
    BY <1>2, FS_CardinalityType
  <2> QED
    BY <2>2, <2>3
<1>4. rank \in Injection(S, 1..n)
  <2>1. rank \in [S -> 1..n]
    BY <1>2
  <2> HIDE DEF rank, n
  <2>2. ASSUME NEW x \in S, NEW y \in S, rank[x] = rank[y] PROVE x = y
    <3>1. x \in Nat /\ y \in Nat /\ rank[x] \in Nat /\ rank[y] \in Nat
      <4>1. x \in Nat /\ y \in Nat
        OBVIOUS
      <4>2. rank[x] \in 1..n /\ rank[y] \in 1..n
        BY <1>2
      <4> QED
        BY <1>1, <4>1, <4>2
    <3>2. ~(x < y)
      BY <1>3, <2>2, <3>1
    <3>3. ~(y < x)
      BY <1>3, <2>2, <3>1
    <3> QED
      BY <3>1, <3>2, <3>3
  <2> QED
    BY <2>1, <2>2, Zenon DEF Injection, IsInjective
<1>5. rank \in Surjection(S, 1..n)
  <2>1. IsFiniteSet(1..n) /\ Cardinality(1..n) = n
    BY <1>1, FS_Interval
  <2> HIDE DEF rank
  <2> QED
    BY <2>1, <1>4, FS_Injection
<1>6. \A k \in 1..n : \E x \in S : rank[x] = k
  BY <1>5 DEF Surjection
<1> DEFINE s == [k \in 1..n |-> CHOOSE x \in S : rank[x] = k]
<1> HIDE DEF rank, n
<1>7. \A k \in 1..n : s[k] \in S /\ rank[s[k]] = k
  BY <1>6
<1>8. ASSUME NEW j \in 1..n, NEW k \in 1..n, j < k PROVE s[j] < s[k]
  <2> HIDE DEF s
  <2>1. s[j] \in S /\ s[k] \in S /\ rank[s[j]] = j /\ rank[s[k]] = k
    BY <1>7, <1>8
  <2>2. s[j] \in Nat /\ s[k] \in Nat /\ ~(k < j) /\ j # k
    <3>1. s[j] \in Nat /\ s[k] \in Nat
      BY <2>1
    <3>2. ~(k < j) /\ j # k
      BY <1>1, <1>8
    <3> QED
      BY <3>1, <3>2
  <2>3. ~(s[k] < s[j])
    BY <1>3, <2>1, <2>2
  <2> QED
    BY <2>1, <2>2, <2>3
<1>9. ASSUME NEW x \in S PROVE \E k \in 1..n : s[k] = x
  <2>1. rank[x] \in 1..n /\ s[rank[x]] \in S /\ rank[s[rank[x]]] = rank[x]
    BY <1>2, <1>7
  <2>2. \A a, b \in S : rank[a] = rank[b] => a = b
    BY <1>4 DEF Injection, IsInjective
  <2>3. s[rank[x]] = x
    BY <2>1, <2>2, Zenon
  <2> QED
    BY <2>1, <2>3
<1>10. s \in [1..n -> S]
  BY <1>7
<1> HIDE DEF s
<1>11. Ascends(s, S, n)
  BY <1>8, <1>9, <1>10 DEF Ascends
<1> QED
  BY <1>1, <1>11 DEF n

\* A sequence that ascends within a set as large as itself runs through it.
LEMMA AscentIsOnto ==
    ASSUME NEW S, S \subseteq Nat, IsFiniteSet(S), NEW s \in [1..Cardinality(S) -> S],
           \A j, k \in DOMAIN s : j < k => s[j] < s[k]
    PROVE  Ascends(s, S, Cardinality(S))
<1> DEFINE n == Cardinality(S)
<1>1. n \in Nat
  BY FS_CardinalityType
<1>2. DOMAIN s = 1..n
  OBVIOUS
<1>3. s \in Injection(1..n, S)
  <2>1. ASSUME NEW j \in 1..n, NEW k \in 1..n, s[j] = s[k] PROVE j = k
    <3>0. s[j] \in S /\ s[k] \in S
      BY <1>2
    <3>1. s[j] \in Nat /\ s[k] \in Nat
      BY <3>0
    <3>2. ~(s[j] < s[k]) /\ ~(s[k] < s[j])
      BY <2>1, <3>1
    <3>3. ~(j < k) /\ ~(k < j)
      BY <1>1, <1>2, <3>2
    <3> QED
      BY <3>3, <1>1
  <2> QED
    BY <2>1, Zenon DEF Injection, IsInjective
<1>4. IsFiniteSet(1..n) /\ Cardinality(1..n) = n
  BY <1>1, FS_Interval
<1>5. s \in Surjection(1..n, S)
  BY <1>3, <1>4, FS_Injection
<1> QED
  BY <1>2, <1>5 DEF Ascends, Surjection

\* InOrder lists the lines, in order.
LEMMA InOrderAscends ==
    ASSUME NEW S, S \subseteq Nat, IsFiniteSet(S)
    PROVE  Cardinality(S) \in Nat /\ Ascends(InOrder(S), S, Cardinality(S))
<1>1. Cardinality(S) \in Nat /\ \E s : Ascends(s, S, Cardinality(S))
  BY AscentExists
<1>2. \E s \in [1..Cardinality(S) -> S] : \A m, n \in DOMAIN s : m < n => s[m] < s[n]
  BY <1>1 DEF Ascends
<1>3. InOrder(S) \in [1..Cardinality(S) -> S] /\ \A m, n \in DOMAIN InOrder(S) : m < n => InOrder(S)[m] < InOrder(S)[n]
  BY <1>2 DEF InOrder
<1> QED
  BY <1>1, <1>3, AscentIsOnto

\* Nothing else does.
LEMMA InOrderIs ==
    ASSUME NEW S, S \subseteq Nat, NEW n \in Nat, NEW s, Ascends(s, S, n)
    PROVE  InOrder(S) = s
<1>1. s \in Bijection(1..n, S)
  <2>1. ASSUME NEW j \in 1..n, NEW k \in 1..n, s[j] = s[k] PROVE j = k
    <3>0. s[j] \in S /\ s[k] \in S
      BY DEF Ascends
    <3>1. s[j] \in Nat /\ s[k] \in Nat
      BY <3>0
    <3>2. ~(s[j] < s[k]) /\ ~(s[k] < s[j])
      BY <2>1, <3>1
    <3>3. ~(j < k) /\ ~(k < j)
      BY <3>2 DEF Ascends
    <3> QED
      BY <3>3
  <2> QED
    BY <2>1 DEF Ascends, Bijection, Injection, Surjection, IsInjective
<1>2. IsFiniteSet(1..n) /\ Cardinality(1..n) = n
  BY FS_Interval
<1>3. IsFiniteSet(S) /\ Cardinality(S) = n
  BY <1>1, <1>2, FS_Bijection DEF ExistsBijection
<1>4. Ascends(InOrder(S), S, n)
  BY <1>3, InOrderAscends
<1> QED
  BY <1>4, AscentIsUnique

-----------------------------------------------------------------------------
(* The tokenizer *)

\* What the scanner may know.
ScanState ==
    [records: Seq([line: Nat, fields: Nat]), fields: Nat, inQuotes: BOOLEAN, line: Nat, start: Nat,
     content: BOOLEAN, skip: BOOLEAN]

\* The character after the i-th.
Following(text, i) == IF i < Len(text) THEN text[i + 1] ELSE "eof"

\* A text is a sequence of at most MaxText characters.
LEMMA TextsAreSequences ==
    ASSUME NEW text \in Texts
    PROVE  Len(text) \in 0..MaxText /\ text \in [1..Len(text) -> Chars] /\ DOMAIN text = 1..Len(text) /\ text \in Seq(Chars)
<1>1. PICK n \in 0..MaxText : text \in [1..n -> Chars]
  BY DEF Texts
<1>2. n \in Nat /\ Len(text) = n
  BY <1>1, ImportAssumption
<1> QED
  BY <1>1, <1>2, ImportAssumption

\* The end of a record keeps the state of the scanner in its range.
LEMMA EndedIsTyped ==
    ASSUME NEW s \in ScanState
    PROVE  EndRecord(s) \in ScanState
<1>1. [line |-> s.start, fields |-> s.fields + 1] \in [line: Nat, fields: Nat]
  BY DEF ScanState
<1>2. Append(s.records, [line |-> s.start, fields |-> s.fields + 1]) \in Seq([line: Nat, fields: Nat])
  BY <1>1, AppendProperties DEF ScanState
<1> QED
  BY <1>2 DEF EndRecord, ScanState

\* So does each character.
LEMMA ConsumedIsTyped ==
    ASSUME NEW s \in ScanState, NEW c \in Chars, NEW next
    PROVE  Consume(s, c, next) \in ScanState
<1>1. [s EXCEPT !.line = @ + 1] \in ScanState
  BY DEF ScanState
<1>2. EndRecord([s EXCEPT !.line = @ + 1]) \in ScanState
  BY <1>1, EndedIsTyped
<1>3. QuotedChar(s, c) \in ScanState
  BY <1>1 DEF QuotedChar
<1>4. CASE s.skip
  BY <1>4 DEF Consume, ScanState
<1>5. CASE ~s.skip /\ s.inQuotes /\ c = "quote"
  BY <1>5 DEF Consume, ScanState
<1>6. CASE ~s.skip /\ s.inQuotes /\ c # "quote"
  BY <1>3, <1>6 DEF Consume
<1>7. CASE ~s.skip /\ ~s.inQuotes /\ c = "eol"
  BY <1>2, <1>7 DEF Consume
<1>8. CASE ~s.skip /\ ~s.inQuotes /\ c # "eol"
  <2>1. [s EXCEPT !.inQuotes = TRUE, !.content = TRUE] \in ScanState
    BY DEF ScanState
  <2>2. [s EXCEPT !.content = TRUE, !.fields = @ + 1] \in ScanState
    <3>1. s.fields + 1 \in Nat
      BY DEF ScanState
    <3>2. [s EXCEPT !.content = TRUE, !.fields = @ + 1] = [s EXCEPT !.content = TRUE, !.fields = s.fields + 1]
      BY DEF ScanState
    <3> QED
      BY <3>1, <3>2 DEF ScanState
  <2>3. [s EXCEPT !.content = TRUE] \in ScanState
    BY DEF ScanState
  <2>4. c \in {"quote", "comma", "space", "other"}
    BY <1>8 DEF Chars
  <2> QED
    BY <1>8, <2>1, <2>2, <2>3, <2>4 DEF Consume
<1> QED
  BY <1>4, <1>5, <1>6, <1>7, <1>8 DEF ScanState

\* The scanner goes through the text a character at a time.
LEMMA ScannedIsStepwise ==
    ASSUME NEW text \in Texts
    PROVE  /\ Scanned(text) \in [0..Len(text) -> ScanState]
           /\ Scanned(text)[0] = Scan
           /\ \A i \in 1..Len(text) : Scanned(text)[i] = Consume(Scanned(text)[i - 1], text[i], Following(text, i))
<1> DEFINE n == Len(text)
           step == [p \in ScanState \X (1..n) |-> Consume(p[1], text[p[2]], Following(text, p[2]))]
           Is(f) == f = [i \in 0..n |-> IF i = 0 THEN Scan ELSE Consume(f[i - 1], text[i], Following(text, i))]
<1>1. n \in Nat /\ text \in [1..n -> Chars]
  BY TextsAreSequences, ImportAssumption
<1>2. Scan \in ScanState
  BY DEF Scan, ScanState
<1>3. step \in [ScanState \X (1..n) -> ScanState]
  <2>1. ASSUME NEW p \in ScanState \X (1..n) PROVE Consume(p[1], text[p[2]], Following(text, p[2])) \in ScanState
    BY <1>1, ConsumedIsTyped
  <2> QED
    BY <2>1
<1>4. PICK g \in [0..n -> ScanState] : g[0] = Scan /\ \A i \in 1..n : g[i] = step[<<g[i - 1], i>>]
  <2> HIDE DEF step
  <2>1. IsStep(step, ScanState, n)
    BY <1>3 DEF IsStep
  <2> HIDE DEF n
  <2>2. PICK g : g \in [0..n -> ScanState] /\ IsRun(g, Scan, step, n)
    BY <1>1, <1>2, <2>1, Iterates
  <2> QED
    BY <2>2 DEF IsRun
<1>5. ASSUME NEW i \in 1..n PROVE g[i] = Consume(g[i - 1], text[i], Following(text, i))
  <2>1. i - 1 \in 0..n /\ g[i - 1] \in ScanState
    BY <1>1, <1>4
  <2>2. <<g[i - 1], i>> \in ScanState \X (1..n)
    BY <2>1
  <2> QED
    BY <1>4, <2>2
<1>6. Is(g)
  <2>1. ASSUME NEW i \in 0..n PROVE g[i] = IF i = 0 THEN Scan ELSE Consume(g[i - 1], text[i], Following(text, i))
    <3>1. i = 0 \/ i \in 1..n
      BY <1>1
    <3> QED
      BY <3>1, <1>4, <1>5
  <2> QED
    BY <2>1, <1>4
<1>7. Scanned(text) = CHOOSE f : Is(f)
  BY DEF Scanned, Following
<1> DEFINE f == Scanned(text)
<1>8. Is(f)
  <2> HIDE DEF Is
  <2> QED
    BY <1>6, <1>7
<1> HIDE DEF f, step
<1>9. f[0] = Scan /\ \A i \in 1..n : f[i] = Consume(f[i - 1], text[i], Following(text, i))
  <2>1. ASSUME NEW i \in 0..n PROVE f[i] = IF i = 0 THEN Scan ELSE Consume(f[i - 1], text[i], Following(text, i))
    BY <1>8
  <2>2. \A i \in 1..n : i \in 0..n /\ i # 0
    BY <1>1
  <2>3. 0 \in 0..n
    BY <1>1
  <2> QED
    BY <2>1, <2>2, <2>3
<1>10. f \in [0..n -> ScanState]
  <2> DEFINE T == {i \in 0..n : f[i] = g[i]}
  <2>1. 0 \in T
    BY <1>1, <1>4, <1>9
  <2>2. \A i \in 1..n : i - 1 \in T => i \in T
    BY <1>1, <1>5, <1>9
  <2> HIDE DEF T
  <2>3. \A i \in 0..n : i \in T
    BY <1>1, <2>1, <2>2, Induction
  <2>4. \A i \in 0..n : f[i] = g[i]
    BY <2>3 DEF T
  <2>5. f = [i \in 0..n |-> f[i]]
    BY <1>8
  <2> QED
    BY <2>4, <2>5, <1>4
<1> QED
  BY <1>9, <1>10 DEF f

\* The occurrences of a character are counted one at a time.
LEMMA CountsUp ==
    ASSUME NEW text, NEW c, NEW i \in Nat
    PROVE  /\ Count(text, c, i) \in Nat
           /\ Count(text, c, 0) = 0
           /\ i > 0 => Count(text, c, i) = IF text[i] = c THEN Count(text, c, i - 1) + 1 ELSE Count(text, c, i - 1)
<1> DEFINE PlaceOf(n) == {j \in 1..n : text[j] = c}
<1>1. ASSUME NEW n \in Nat PROVE IsFiniteSet(PlaceOf(n)) /\ Cardinality(PlaceOf(n)) \in Nat
  <2>1. IsFiniteSet(1..n) /\ PlaceOf(n) \in SUBSET (1..n)
    BY FS_Interval
  <2> QED
    BY <2>1, FS_Subset, FS_CardinalityType
<1>2. PlaceOf(0) = {}
  OBVIOUS
<1>3. ASSUME i > 0 PROVE Cardinality(PlaceOf(i)) = IF text[i] = c THEN Cardinality(PlaceOf(i - 1)) + 1 ELSE Cardinality(PlaceOf(i - 1))
  <2>1. PlaceOf(i) = IF text[i] = c THEN PlaceOf(i - 1) \cup {i} ELSE PlaceOf(i - 1)
    BY <1>3
  <2>2. i \notin PlaceOf(i - 1) /\ i - 1 \in Nat
    BY <1>3
  <2>3. IsFiniteSet(PlaceOf(i - 1))
    BY <1>1, <2>2
  <2> HIDE DEF PlaceOf
  <2> QED
    BY <2>1, <2>2, <2>3, FS_AddElement
<1> QED
  BY <1>1, <1>2, <1>3, FS_EmptySet DEF Count

\* b is where the record that the i-th character belongs to begins.
BeginsAt(text, b, i) ==
    b \in {0} \cup RecordEnds(text) /\ b <= i /\ \A e \in RecordEnds(text) : e \notin b + 1..i

\* Where the records before b that are not blank begin.
FilledBefore(text, b) == {x \in FilledRecords(text) : x < b}

\* The records so far are those that are not blank before b.
Listed(text, records, b) ==
    \E f : /\ Ascends(f, FilledBefore(text, b), Len(records))
           /\ \A n \in 1..Len(records) : records[n].line = 1 + Count(text, "eol", f[n])

\* After i characters the scanner knows the line, and whether it is inside quotes.
ScanCounts(text, i, s) ==
    /\ s.line = 1 + Count(text, "eol", i)
    /\ s.skip => s.inQuotes /\ i < Len(text) /\ text[i + 1] = "quote"
    /\ s.inQuotes /\ ~s.skip <=> Count(text, "quote", i) % 2 = 1
    /\ s.inQuotes \/ s.fields > 0 => s.content

\* After i characters it knows the records that have ended, and the one it is in.
ScanRecords(text, i, s) ==
    \E b \in 0..i :
        /\ BeginsAt(text, b, i)
        /\ s.start = 1 + Count(text, "eol", b)
        /\ s.content <=> \E j \in b + 1..i : text[j] # "space"
        /\ Listed(text, s.records, b)

\* Records end and begin within the text.
LEMMA RecordEndsAreNumbers ==
    ASSUME NEW text \in Texts
    PROVE  /\ RecordEnds(text) \subseteq 1..Len(text)
           /\ FilledRecords(text) \subseteq 0..Len(text)
           /\ \A b : FilledBefore(text, b) \subseteq 0..Len(text)
           /\ Len(text) \in Nat
<1>1. Len(text) \in Nat /\ DOMAIN text = 1..Len(text)
  BY TextsAreSequences, ImportAssumption
<1>2. RecordEnds(text) \subseteq 1..Len(text)
  BY <1>1 DEF RecordEnds
<1> QED
  BY <1>1, <1>2 DEF FilledRecords, FilledBefore

\* A character that ends no record leaves the records alone.
LEMMA RecordGoesOn ==
    ASSUME NEW text \in Texts, NEW i \in 1..Len(text), NEW s, NEW t, ScanRecords(text, i - 1, s),
           i \notin RecordEnds(text), t.records = s.records, t.start = s.start,
           t.content <=> (s.content \/ text[i] # "space")
    PROVE  ScanRecords(text, i, t)
<1>1. i \in Nat /\ RecordEnds(text) \subseteq 1..Len(text)
  BY RecordEndsAreNumbers
<1>2. PICK b \in 0..(i - 1) : /\ BeginsAt(text, b, i - 1)
                              /\ s.start = 1 + Count(text, "eol", b)
                              /\ s.content <=> \E j \in b + 1..i - 1 : text[j] # "space"
                              /\ Listed(text, s.records, b)
  BY DEF ScanRecords
<1>3. b + 1..i = (b + 1..i - 1) \cup {i} /\ b \in 0..i
  BY <1>1, <1>2
<1>4. BeginsAt(text, b, i)
  BY <1>1, <1>2, <1>3 DEF BeginsAt
<1>5. t.content <=> \E j \in b + 1..i : text[j] # "space"
  BY <1>2, <1>3
<1> QED
  BY <1>2, <1>3, <1>4, <1>5 DEF ScanRecords

\* Of the records that begin before an end, only the last may be new.
LEMMA FilledGrows ==
    ASSUME NEW text \in Texts, NEW b \in Nat, NEW i \in Nat, BeginsAt(text, b, i), NEW e \in Nat, e > i,
           e \in RecordEnds(text) \/ e = Len(text) + 1, \A d \in RecordEnds(text) : d \notin i + 1..e - 1
    PROVE  FilledBefore(text, e) = IF \E j \in b + 1..e - 1 : text[j] # "space" THEN FilledBefore(text, b) \cup {b}
                                   ELSE FilledBefore(text, b)
<1>1. RecordEnds(text) \subseteq 1..Len(text) /\ FilledRecords(text) \subseteq 0..Len(text) /\ Len(text) \in Nat
  BY RecordEndsAreNumbers
<1>2. \A x \in FilledRecords(text) : x < e => x = b \/ x < b
  <2> SUFFICES ASSUME NEW x \in FilledRecords(text), x < e, b < x PROVE FALSE
    BY <1>1
  <2>1. x \in RecordEnds(text) /\ x \in Nat
    BY <1>1 DEF FilledRecords
  <2>2. x \notin b + 1..i /\ x \notin i + 1..e - 1
    BY <2>1 DEF BeginsAt
  <2> QED
    BY <2>1, <2>2
<1>3. b < e /\ b \in {0} \cup RecordEnds(text)
  BY DEF BeginsAt
<1>4. \A d \in RecordEnds(text) : d \notin b + 1..e - 1
  BY <1>1 DEF BeginsAt
<1>5. b \in FilledRecords(text) <=> \E j \in b + 1..e - 1 : text[j] # "space"
  <2>1. ASSUME b \in FilledRecords(text) PROVE \E j \in b + 1..e - 1 : text[j] # "space"
    <3>1. PICK j \in b + 1..Len(text) : text[j] # "space" /\ \A d \in RecordEnds(text) : d \notin b + 1..j
      BY <2>1 DEF FilledRecords
    <3>2. j < e
      <4>1. CASE e = Len(text) + 1
        BY <4>1, <1>1
      <4>2. CASE e \in RecordEnds(text)
        BY <4>2, <3>1, <1>1, <1>3
      <4> QED
        BY <4>1, <4>2
    <3> QED
      BY <3>1, <3>2
  <2>2. ASSUME NEW j \in b + 1..e - 1, text[j] # "space" PROVE b \in FilledRecords(text)
    <3>1. j \in b + 1..Len(text)
      BY <1>1
    <3>2. \A d \in RecordEnds(text) : d \notin b + 1..j
      BY <1>1, <1>4
    <3> QED
      BY <1>3, <2>2, <3>1, <3>2 DEF FilledRecords
  <2> QED
    BY <2>1, <2>2
<1> QED
  BY <1>2, <1>3, <1>5, <1>1 DEF FilledBefore

\* One more record, and where it begins.
LEMMA RecordAdded ==
    ASSUME NEW text \in Texts, NEW records \in Seq([line: Nat, fields: Nat]), NEW b \in Nat, NEW e \in Nat,
           Listed(text, records, b), FilledBefore(text, e) = FilledBefore(text, b) \cup {b},
           NEW fields \in Nat
    PROVE  Listed(text, Append(records, [line |-> 1 + Count(text, "eol", b), fields |-> fields]), e)
<1> DEFINE new == [line |-> 1 + Count(text, "eol", b), fields |-> fields]
           m == Len(records)
<1>1. PICK f : Ascends(f, FilledBefore(text, b), m) /\ \A n \in 1..m : records[n].line = 1 + Count(text, "eol", f[n])
  BY DEF Listed
<1>2. Count(text, "eol", b) \in Nat
  BY CountsUp
<1>3. new \in [line: Nat, fields: Nat] /\ m \in Nat
  BY <1>2
<1>4. /\ Len(Append(records, new)) = m + 1
      /\ \A n \in 1..m : Append(records, new)[n] = records[n]
      /\ Append(records, new)[m + 1] = new
  BY <1>3, AppendProperties
<1> DEFINE g == [n \in 1..m + 1 |-> IF n = m + 1 THEN b ELSE f[n]]
<1>5. Ascends(g, FilledBefore(text, e), m + 1)
  <2>1. \A x \in FilledBefore(text, b) : x < b
    BY DEF FilledBefore
  <2>2. ASSUME NEW n \in 1..m PROVE f[n] \in FilledBefore(text, b) /\ g[n] = f[n]
    <3>1. f[n] \in FilledBefore(text, b)
      BY <1>1 DEF Ascends
    <3>2. n \in 1..m + 1 /\ n # m + 1
      BY <1>3
    <3> QED
      BY <3>1, <3>2
  <2>3. g \in [1..m + 1 -> FilledBefore(text, e)]
    <3>1. ASSUME NEW n \in 1..m + 1 PROVE (IF n = m + 1 THEN b ELSE f[n]) \in FilledBefore(text, e)
      <4>1. n = m + 1 \/ n \in 1..m
        BY <1>3
      <4> QED
        BY <2>2, <4>1
    <3> QED
      BY <3>1
  <2>4. ASSUME NEW j \in 1..m + 1, NEW k \in 1..m + 1, j < k PROVE g[j] < g[k]
    <3>1. j \in 1..m
      BY <1>3, <2>4
    <3>2. CASE k = m + 1
      BY <2>1, <2>2, <3>1, <3>2
    <3>3. CASE k \in 1..m
      BY <1>1, <2>2, <2>4, <3>1, <3>3 DEF Ascends
    <3> QED
      BY <1>3, <3>2, <3>3
  <2>5. ASSUME NEW x \in FilledBefore(text, e) PROVE \E k \in 1..m + 1 : g[k] = x
    <3>1. CASE x = b
      <4>1. m + 1 \in 1..m + 1 /\ g[m + 1] = b
        BY <1>3
      <4> QED
        BY <3>1, <4>1
    <3>2. CASE x \in FilledBefore(text, b)
      <4>1. PICK k \in 1..m : f[k] = x
        BY <1>1, <3>2 DEF Ascends
      <4>2. k \in 1..m + 1 /\ g[k] = x
        BY <1>3, <2>2, <4>1
      <4> QED
        BY <4>2
    <3> QED
      BY <3>1, <3>2
  <2> HIDE DEF g
  <2> QED
    BY <2>3, <2>4, <2>5 DEF Ascends
<1>6. ASSUME NEW n \in 1..m + 1 PROVE Append(records, new)[n].line = 1 + Count(text, "eol", g[n])
  <2>1. CASE n = m + 1
    BY <1>3, <1>4, <2>1
  <2>2. CASE n \in 1..m
    BY <1>1, <1>3, <1>4, <2>2
  <2> QED
    BY <1>3, <2>1, <2>2
<1> HIDE DEF g, new, m
<1>7. Listed(text, Append(records, new), e)
  BY <1>4, <1>5, <1>6 DEF Listed
<1> QED
  BY <1>7 DEF new

\* An end of line outside quotes ends the record.
LEMMA RecordIsEnded ==
    ASSUME NEW text \in Texts, NEW i \in 1..Len(text), NEW s \in ScanState, NEW t \in ScanState,
           ScanRecords(text, i - 1, s), i \in RecordEnds(text),
           t = EndRecord([s EXCEPT !.line = @ + 1]), t.line = 1 + Count(text, "eol", i)
    PROVE  ScanRecords(text, i, t)
<1>1. i \in Nat /\ i - 1 \in Nat /\ RecordEnds(text) \subseteq 1..Len(text)
  BY RecordEndsAreNumbers
<1>2. PICK b \in 0..(i - 1) : /\ BeginsAt(text, b, i - 1)
                              /\ s.start = 1 + Count(text, "eol", b)
                              /\ s.content <=> \E j \in b + 1..i - 1 : text[j] # "space"
                              /\ Listed(text, s.records, b)
  BY DEF ScanRecords
<1>3. FilledBefore(text, i) = IF s.content THEN FilledBefore(text, b) \cup {b} ELSE FilledBefore(text, b)
  <2>1. b \in Nat /\ i > i - 1 /\ \A d \in RecordEnds(text) : d \notin (i - 1) + 1..i - 1
    BY <1>1
  <2> QED
    BY <1>1, <1>2, <2>1, FilledGrows
<1>4. /\ t.start = t.line /\ ~t.content
      /\ t.records = IF s.content THEN Append(s.records, [line |-> s.start, fields |-> s.fields + 1]) ELSE s.records
  BY DEF EndRecord, ScanState
<1>5. s.records \in Seq([line: Nat, fields: Nat]) /\ s.fields + 1 \in Nat /\ s.content \in BOOLEAN
  BY DEF ScanState
<1>6. Listed(text, t.records, i)
  <2>1. CASE s.content
    <3>1. t.records = Append(s.records, [line |-> 1 + Count(text, "eol", b), fields |-> s.fields + 1])
      BY <1>2, <1>4, <2>1
    <3>2. FilledBefore(text, i) = FilledBefore(text, b) \cup {b} /\ b \in Nat
      BY <1>3, <2>1
    <3> QED
      BY <1>1, <1>2, <1>5, <3>1, <3>2, RecordAdded
  <2>2. CASE ~s.content
    BY <1>2, <1>3, <1>4, <2>2 DEF Listed
  <2> QED
    BY <2>1, <2>2
<1>7. BeginsAt(text, i, i)
  BY <1>1 DEF BeginsAt
<1>8. t.content <=> \E j \in i + 1..i : text[j] # "space"
  BY <1>1, <1>4
<1> QED
  BY <1>1, <1>4, <1>6, <1>7, <1>8 DEF ScanRecords

\* Whatever the character, the scanner knows the line, whether it is inside quotes, and the records so far.
LEMMA CharacterIsScanned ==
    ASSUME NEW text \in Texts, NEW i \in 1..Len(text), NEW s \in ScanState, NEW t \in ScanState,
           ScanCounts(text, i - 1, s), ScanRecords(text, i - 1, s), t = Consume(s, text[i], Following(text, i))
    PROVE  ScanCounts(text, i, t) /\ ScanRecords(text, i, t)
<1> DEFINE c == text[i]
<1>1. c \in Chars /\ i \in Nat /\ i > 0 /\ Len(text) \in Nat /\ DOMAIN text = 1..Len(text)
  BY TextsAreSequences, ImportAssumption
<1>2. /\ Count(text, "eol", i) = IF c = "eol" THEN Count(text, "eol", i - 1) + 1 ELSE Count(text, "eol", i - 1)
      /\ Count(text, "quote", i) = IF c = "quote" THEN Count(text, "quote", i - 1) + 1 ELSE Count(text, "quote", i - 1)
  BY <1>1, CountsUp
<1>3. Count(text, "eol", i - 1) \in Nat /\ Count(text, "quote", i - 1) \in Nat
  BY <1>1, CountsUp
<1>4. i \in RecordEnds(text) <=> c = "eol" /\ Count(text, "quote", i - 1) % 2 = 0
  BY <1>1, <1>2 DEF RecordEnds
<1>5. Count(text, "quote", i - 1) % 2 = 0 <=> ~(s.inQuotes /\ ~s.skip)
  BY <1>3 DEF ScanCounts
<1>6. (s.skip => c = "quote" /\ s.inQuotes /\ s.content) /\ (s.inQuotes => s.content) /\ (s.fields > 0 => s.content)
  BY <1>1 DEF ScanCounts
<1>7. \A k \in Nat : (k + 1) % 2 = 1 <=> k % 2 = 0
  OBVIOUS
<1>8. \A k \in Nat : k % 2 \in {0, 1}
  OBVIOUS
<1>9. CASE s.skip
  <2>1. t = [s EXCEPT !.skip = FALSE]
    BY <1>9 DEF Consume
  <2>2. t.records = s.records /\ t.start = s.start /\ t.content = s.content /\ t.line = s.line
        /\ t.inQuotes = s.inQuotes /\ ~t.skip /\ t.fields = s.fields
    BY <2>1 DEF ScanState
  <2>3. ScanRecords(text, i, t)
    BY <1>4, <1>6, <1>9, <2>2, RecordGoesOn
  <2>4. ScanCounts(text, i, t)
    BY <1>2, <1>3, <1>5, <1>6, <1>9, <2>2 DEF ScanCounts
  <2> QED
    BY <2>3, <2>4
<1>10. CASE ~s.skip /\ s.inQuotes /\ c = "quote" /\ Following(text, i) = "quote"
  <2>1. t = [s EXCEPT !.skip = TRUE]
    BY <1>10 DEF Consume
  <2>2. t.records = s.records /\ t.start = s.start /\ t.content = s.content /\ t.line = s.line
        /\ t.inQuotes = s.inQuotes /\ t.skip /\ t.fields = s.fields
    BY <2>1 DEF ScanState
  <2>3. i < Len(text) /\ text[i + 1] = "quote"
    BY <1>10 DEF Following
  <2>4. ScanRecords(text, i, t)
    BY <1>4, <1>6, <1>10, <2>2, RecordGoesOn
  <2>5. ScanCounts(text, i, t)
    <3>1. t.line = 1 + Count(text, "eol", i)
      BY <1>2, <1>10, <2>2 DEF ScanCounts
    <3>2. t.inQuotes /\ ~t.skip <=> Count(text, "quote", i) % 2 = 1
      BY <1>2, <1>3, <1>5, <1>7, <1>8, <1>10, <2>2
    <3>3. (t.inQuotes \/ t.fields > 0 => t.content) /\ (t.skip => t.inQuotes /\ i < Len(text) /\ text[i + 1] = "quote")
      BY <1>6, <1>10, <2>2, <2>3
    <3> QED
      BY <3>1, <3>2, <3>3 DEF ScanCounts
  <2> QED
    BY <2>4, <2>5
<1>11. CASE ~s.skip /\ s.inQuotes /\ c = "quote" /\ Following(text, i) # "quote"
  <2>1. t = [s EXCEPT !.inQuotes = FALSE]
    BY <1>11 DEF Consume
  <2>2. t.records = s.records /\ t.start = s.start /\ t.content = s.content /\ t.line = s.line
        /\ ~t.inQuotes /\ ~t.skip /\ t.fields = s.fields
    BY <1>11, <2>1 DEF ScanState
  <2>3. ScanRecords(text, i, t)
    BY <1>4, <1>6, <1>11, <2>2, RecordGoesOn
  <2>4. ScanCounts(text, i, t)
    <3>1. t.line = 1 + Count(text, "eol", i)
      BY <1>2, <1>11, <2>2 DEF ScanCounts
    <3>2. t.inQuotes /\ ~t.skip <=> Count(text, "quote", i) % 2 = 1
      BY <1>2, <1>3, <1>5, <1>7, <1>8, <1>11, <2>2
    <3>3. (t.inQuotes \/ t.fields > 0 => t.content) /\ (t.skip => t.inQuotes /\ i < Len(text) /\ text[i + 1] = "quote")
      BY <1>6, <1>11, <2>2
    <3> QED
      BY <3>1, <3>2, <3>3 DEF ScanCounts
  <2> QED
    BY <2>3, <2>4
<1>12. CASE ~s.skip /\ s.inQuotes /\ c # "quote"
  <2>1. t = IF c = "eol" THEN [s EXCEPT !.line = @ + 1] ELSE s
    BY <1>12 DEF Consume, QuotedChar
  <2>2. t.records = s.records /\ t.start = s.start /\ t.content = s.content
        /\ t.line = (IF c = "eol" THEN s.line + 1 ELSE s.line)
        /\ t.inQuotes /\ ~t.skip /\ t.fields = s.fields
    BY <1>12, <2>1 DEF ScanState
  <2>3. ScanRecords(text, i, t)
    BY <1>4, <1>5, <1>6, <1>12, <2>2, RecordGoesOn
  <2>4. ScanCounts(text, i, t)
    BY <1>2, <1>3, <1>5, <1>6, <1>12, <2>2 DEF ScanCounts
  <2> QED
    BY <2>3, <2>4
<1>13. CASE ~s.skip /\ ~s.inQuotes /\ c = "eol"
  <2>1. t = EndRecord([s EXCEPT !.line = @ + 1])
    BY <1>13 DEF Consume
  <2>2. t.line = s.line + 1 /\ ~t.inQuotes /\ ~t.skip /\ t.fields = 0
    BY <1>13, <2>1 DEF EndRecord, ScanState
  <2>3. t.line = 1 + Count(text, "eol", i)
    BY <1>2, <1>3, <1>13, <2>2 DEF ScanCounts
  <2>4. ScanRecords(text, i, t)
    BY <1>4, <1>5, <1>13, <2>1, <2>3, RecordIsEnded
  <2>5. ScanCounts(text, i, t)
    BY <1>2, <1>3, <1>5, <1>13, <2>2, <2>3 DEF ScanCounts
  <2> QED
    BY <2>4, <2>5
<1>14. CASE ~s.skip /\ ~s.inQuotes /\ c # "eol"
  <2>1. t = CASE c = "quote" -> [s EXCEPT !.inQuotes = TRUE, !.content = TRUE]
              [] c = "comma" -> [s EXCEPT !.content = TRUE, !.fields = @ + 1]
              [] c = "space" -> s
              [] c = "other" -> [s EXCEPT !.content = TRUE]
    BY <1>1, <1>14 DEF Consume, Chars
  <2>2. t.records = s.records /\ t.start = s.start /\ t.line = s.line /\ ~t.skip
        /\ t.inQuotes = (c = "quote") /\ t.content = (s.content \/ c # "space") /\ (t.fields = s.fields \/ t.content)
    BY <1>1, <1>14, <2>1 DEF ScanState, Chars
  <2>3. ScanRecords(text, i, t)
    BY <1>4, <1>14, <2>2, RecordGoesOn
  <2>4. ScanCounts(text, i, t)
    <3>1. t.line = 1 + Count(text, "eol", i)
      BY <1>2, <1>14, <2>2 DEF ScanCounts
    <3>2. t.inQuotes /\ ~t.skip <=> Count(text, "quote", i) % 2 = 1
      <4>1. CASE c = "quote"
        BY <1>2, <1>3, <1>5, <1>7, <1>14, <2>2, <4>1
      <4>2. CASE c # "quote"
        <5>1. Count(text, "quote", i) = Count(text, "quote", i - 1) /\ ~t.inQuotes
          BY <1>2, <2>2, <4>2
        <5>2. Count(text, "quote", i - 1) % 2 = 0
          BY <1>5, <1>14
        <5> QED
          BY <5>1, <5>2
      <4> QED
        BY <4>1, <4>2
    <3>3. (t.inQuotes \/ t.fields > 0 => t.content) /\ (t.skip => t.inQuotes /\ i < Len(text) /\ text[i + 1] = "quote")
      BY <1>6, <1>14, <2>2
    <3> QED
      BY <3>1, <3>2, <3>3 DEF ScanCounts
  <2> QED
    BY <2>3, <2>4
<1> QED
  BY <1>9, <1>10, <1>11, <1>12, <1>13, <1>14 DEF ScanState

\* So it does after each character of the text.
LEMMA TextIsScanned ==
    ASSUME NEW text \in Texts
    PROVE  \A i \in 0..Len(text) : ScanCounts(text, i, Scanned(text)[i]) /\ ScanRecords(text, i, Scanned(text)[i])
<1> DEFINE f == Scanned(text)
           n == Len(text)
           T == {i \in 0..n : ScanCounts(text, i, f[i]) /\ ScanRecords(text, i, f[i])}
<1>1. n \in Nat /\ RecordEnds(text) \subseteq 1..n /\ FilledRecords(text) \subseteq 0..n /\ text \in [1..n -> Chars]
  BY RecordEndsAreNumbers, TextsAreSequences
<1>2. f \in [0..n -> ScanState] /\ f[0] = Scan /\ \A i \in 1..n : f[i] = Consume(f[i - 1], text[i], Following(text, i))
  BY ScannedIsStepwise
<1>3. ScanCounts(text, 0, Scan)
  <2>1. Count(text, "eol", 0) = 0 /\ Count(text, "quote", 0) = 0
    BY CountsUp
  <2> QED
    BY <2>1 DEF ScanCounts, Scan
<1>4. ScanRecords(text, 0, Scan)
  <2>1. Count(text, "eol", 0) = 0
    BY CountsUp
  <2>2. BeginsAt(text, 0, 0)
    BY <1>1 DEF BeginsAt
  <2>3. FilledBefore(text, 0) = {}
    BY <1>1 DEF FilledBefore
  <2>4. Ascends(<<>>, {}, 0)
    BY DEF Ascends
  <2>5. Listed(text, <<>>, 0)
    BY <2>3, <2>4 DEF Listed
  <2> QED
    BY <2>1, <2>2, <2>5 DEF ScanRecords, Scan
<1>5. 0 \in T
  BY <1>1, <1>2, <1>3, <1>4
<1> HIDE DEF f, n
<1>6. ASSUME NEW i \in 1..n, i - 1 \in T PROVE i \in T
  <2>1. i \in 0..n /\ i - 1 \in 0..n
    BY <1>1
  <2>2. f[i - 1] \in ScanState /\ f[i] \in ScanState /\ f[i] = Consume(f[i - 1], text[i], Following(text, i))
    BY <1>2, <2>1
  <2>3. ScanCounts(text, i - 1, f[i - 1]) /\ ScanRecords(text, i - 1, f[i - 1])
    BY <1>6
  <2>4. ScanCounts(text, i, f[i]) /\ ScanRecords(text, i, f[i])
    BY <2>2, <2>3, CharacterIsScanned DEF n
  <2> QED
    BY <2>1, <2>4
<1> HIDE DEF T
<1>7. \A i \in 0..n : i \in T
  BY <1>1, <1>5, <1>6, Induction
<1> QED
  BY <1>7 DEF T, n, f

\* The records the tokenizer reports, and the lines they begin on.
NumberedByLine(text, records) ==
    LET begins == InOrder(FilledRecords(text))
    IN  [n \in DOMAIN records |-> records[n].line] = [n \in DOMAIN begins |-> 1 + Count(text, "eol", begins[n])]

\* Every record that is not blank is reported, with the line it begins on (csvParser.ts, tokenize).
LEMMA TokensAreNumbered ==
    ASSUME NEW text \in Texts
    PROVE  NumberedByLine(text, Tokenize(text).records) /\ Tokenize(text).unterminated \in BOOLEAN
<1> DEFINE n == Len(text)
           s == Scanned(text)[n]
           records == Tokenize(text).records
<1>1. n \in Nat /\ RecordEnds(text) \subseteq 1..n /\ FilledRecords(text) \subseteq 0..n
  BY RecordEndsAreNumbers
<1>2. s \in ScanState /\ ScanCounts(text, n, s) /\ ScanRecords(text, n, s)
  <2>1. n \in 0..n
    BY <1>1
  <2> QED
    BY <2>1, ScannedIsStepwise, TextIsScanned
<1>3. records = IF s.content \/ s.fields > 0 THEN EndRecord(s).records ELSE s.records
  BY DEF Tokenize
<1>4. Tokenize(text).unterminated = s.inQuotes
  BY DEF Tokenize
<1> HIDE DEF s, records, n
<1>5. records = IF s.content THEN Append(s.records, [line |-> s.start, fields |-> s.fields + 1]) ELSE s.records
  BY <1>2, <1>3 DEF EndRecord, ScanState, ScanCounts
<1>6. PICK b \in 0..n : /\ BeginsAt(text, b, n)
                        /\ s.start = 1 + Count(text, "eol", b)
                        /\ s.content <=> \E j \in b + 1..n : text[j] # "space"
                        /\ Listed(text, s.records, b)
  BY <1>2 DEF ScanRecords
<1>7. FilledBefore(text, n + 1) = IF s.content THEN FilledBefore(text, b) \cup {b} ELSE FilledBefore(text, b)
  <2>1. b \in Nat /\ n + 1 \in Nat /\ n + 1 > n /\ (n + 1) - 1 = n /\ \A d \in RecordEnds(text) : d \notin n + 1..(n + 1) - 1
    BY <1>1
  <2>2. n + 1 = Len(text) + 1
    BY DEF n
  <2> DEFINE e == n + 1
  <2>3. b \in Nat /\ n \in Nat /\ e \in Nat /\ e > n /\ e = Len(text) + 1 /\ e - 1 = n
        /\ \A d \in RecordEnds(text) : d \notin n + 1..e - 1
    BY <1>1, <2>1, <2>2
  <2> HIDE DEF e
  <2>4. FilledBefore(text, e) = IF \E j \in b + 1..e - 1 : text[j] # "space" THEN FilledBefore(text, b) \cup {b}
                                ELSE FilledBefore(text, b)
    <3>1. BeginsAt(text, b, n)
      BY <1>6
    <3>2. b \in Nat /\ n \in Nat /\ e \in Nat
      BY <2>3
    <3>3. e > n /\ (e \in RecordEnds(text) \/ e = Len(text) + 1)
      BY <2>3
    <3>4. \A d \in RecordEnds(text) : d \notin n + 1..e - 1
      BY <2>3
    <3> HIDE <1>6, <2>3
    <3> QED
      BY <3>1, <3>2, <3>3, <3>4, FilledGrows
  <2>5. \A j : j \in b + 1..e - 1 <=> j \in b + 1..n
    BY <2>3
  <2> QED
    BY <1>6, <2>4, <2>5 DEF e
<1>8. s.records \in Seq([line: Nat, fields: Nat]) /\ s.fields + 1 \in Nat /\ s.content \in BOOLEAN /\ s.inQuotes \in BOOLEAN
  BY <1>2 DEF ScanState
<1>9. Listed(text, records, n + 1)
  <2>1. CASE s.content
    <3>1. records = Append(s.records, [line |-> 1 + Count(text, "eol", b), fields |-> s.fields + 1])
      BY <1>5, <1>6, <2>1
    <3>2. FilledBefore(text, n + 1) = FilledBefore(text, b) \cup {b} /\ b \in Nat /\ n + 1 \in Nat
      BY <1>1, <1>7, <2>1
    <3> QED
      BY <1>6, <1>8, <3>1, <3>2, RecordAdded
  <2>2. CASE ~s.content
    BY <1>5, <1>6, <1>7, <2>2 DEF Listed
  <2> QED
    BY <1>8, <2>1, <2>2
<1>10. FilledBefore(text, n + 1) = FilledRecords(text)
  BY <1>1 DEF FilledBefore
<1>11. Len(records) \in Nat /\ DOMAIN records = 1..Len(records)
  <2>1. [line |-> s.start, fields |-> s.fields + 1] \in [line: Nat, fields: Nat]
    BY <1>2 DEF ScanState
  <2>2. records \in Seq([line: Nat, fields: Nat])
    BY <1>5, <1>8, <2>1, AppendProperties
  <2> QED
    BY <2>2
<1>12. PICK f : /\ Ascends(f, FilledRecords(text), Len(records))
                /\ \A k \in 1..Len(records) : records[k].line = 1 + Count(text, "eol", f[k])
  BY <1>9, <1>10 DEF Listed
<1>13. InOrder(FilledRecords(text)) = f
  <2>1. FilledRecords(text) \subseteq Nat
    BY <1>1
  <2> QED
    BY <1>11, <1>12, <2>1, InOrderIs
<1>14. DOMAIN f = 1..Len(records)
  BY <1>12 DEF Ascends
<1>15. NumberedByLine(text, records)
  BY <1>11, <1>12, <1>13, <1>14 DEF NumberedByLine
<1> QED
  BY <1>4, <1>8, <1>15 DEF records

-----------------------------------------------------------------------------
(* Imports *)

\* The valid rows, of different tracking numbers, that an upload has not reported yet.
ToReport(call, S) ==
    /\ DOMAIN call = {"pc", "file", "errors", "rows"}
    /\ call.file \in CsvFiles /\ Len(call.file) <= MaxRows
    /\ S \subseteq Lines(call.file)
    /\ call.rows = InOrder(S) /\ call.errors = Lines(call.file) \ S
    /\ \A i \in S : ValidRow(call.file[i])
    /\ \A i, j \in S : call.file[i].tracking = call.file[j].tracking => i = j

\* A report is complete, and what it calls created is stored.
Reported(c, call, stored) ==
    /\ call.file \in CsvFiles /\ Len(call.file) <= MaxRows
    /\ call.created \cup call.errors = Lines(call.file) /\ call.created \cap call.errors = {}
    /\ \A i \in call.created : ValidRow(call.file[i]) /\ stored[call.file[i].tracking] = <<c, i>>
    /\ call.answer = 201 => call.errors = {}

\* What an upload knows at each of its steps.
UploadOK(c, call, stored) ==
    /\ call.pc \in {"idle", "find", "insert", "report", "rejected", "failed"}
    /\ call.pc \in {"find", "insert"} => \E S : ToReport(call, S)
    /\ call.pc = "report" => Reported(c, call, stored)

\* The inductive invariant: the parsed text is what the tokenizer makes of it, and every upload knows its own.
ImportInv ==
    /\ csv.text \in Texts /\ csv.result = Tokenize(csv.text)
    /\ numbered \in [Tracking -> {NoImport} \cup (Importers \X (1..MaxRows))]
    /\ DOMAIN upload = Importers
    /\ \A c \in Importers : UploadOK(c, upload[c], numbered)

\* An upload's file has finitely many lines, and a valid row has a tracking number.
LEMMA FilesAreSequences ==
    ASSUME NEW file \in CsvFiles
    PROVE  /\ Len(file) \in Nat /\ Lines(file) = 1..Len(file) /\ file \in [Lines(file) -> Row] /\ IsFiniteSet(Lines(file))
           /\ \A i \in Lines(file) : ValidRow(file[i]) => file[i].tracking \in Tracking
<1>1. PICK n \in 1..MaxRows + 1 : file \in [1..n -> Row]
  BY DEF CsvFiles
<1>2. n \in Nat /\ Len(file) = n /\ Lines(file) = 1..n
  BY <1>1, ImportAssumption DEF Lines
<1>3. IsFiniteSet(1..n)
  BY <1>2, FS_Interval
<1>4. ASSUME NEW i \in Lines(file), ValidRow(file[i]) PROVE file[i].tracking \in Tracking
  <2>1. file[i] \in Row
    BY <1>1, <1>2
  <2> QED
    BY <1>4, <2>1 DEF Row, ValidRow
<1> QED
  BY <1>1, <1>2, <1>3, <1>4

\* The lines an upload still has, as a sequence.
LEMMA RowsAreLines ==
    ASSUME NEW file \in CsvFiles, NEW S, S \subseteq Lines(file), NEW rows, rows = InOrder(S)
    PROVE  /\ ToSet(rows) = S /\ \A n \in DOMAIN rows : rows[n] \in S
           /\ \A m, n \in DOMAIN rows : rows[m] = rows[n] => m = n
<1>1. IsFiniteSet(S) /\ S \subseteq Nat
  BY FilesAreSequences, FS_Subset
<1>2. Cardinality(S) \in Nat /\ Ascends(rows, S, Cardinality(S))
  BY <1>1, InOrderAscends
<1>3. DOMAIN rows = 1..Cardinality(S) /\ \A n \in DOMAIN rows : rows[n] \in S
  BY <1>2 DEF Ascends
<1>4. ASSUME NEW m \in DOMAIN rows, NEW n \in DOMAIN rows, rows[m] = rows[n] PROVE m = n
  <2>0. rows[m] \in S /\ rows[n] \in S /\ m \in 1..Cardinality(S) /\ n \in 1..Cardinality(S)
    BY <1>3
  <2>4. rows[m] \in Nat /\ rows[n] \in Nat
    BY <1>1, <2>0
  <2>1. m \in Nat /\ n \in Nat /\ rows[m] \in Nat /\ rows[n] \in Nat
    BY <1>2, <2>0, <2>4
  <2>2. ~(rows[m] < rows[n]) /\ ~(rows[n] < rows[m])
    BY <1>4, <2>1
  <2>3. ~(m < n) /\ ~(n < m)
    BY <1>2, <1>3, <2>2 DEF Ascends
  <2> QED
    BY <2>1, <2>3
<1>5. ToSet(rows) = S
  BY <1>2, <1>3 DEF Ascends, ToSet
<1> QED
  BY <1>3, <1>4, <1>5

\* Before the first upload there is nothing to report.
LEMMA ImportStart == ImportInit => ImportInv
<1> SUFFICES ASSUME ImportInit PROVE ImportInv
  OBVIOUS
<1>1. <<>> \in Texts
  <2>1. 0 \in 0..MaxText /\ <<>> \in [1..0 -> Chars]
    BY ImportAssumption
  <2> QED
    BY <2>1 DEF Texts
<1>2. csv.text \in Texts /\ csv.result = Tokenize(csv.text)
  BY <1>1 DEF ImportInit
<1>3. DOMAIN upload = Importers /\ \A c \in Importers : UploadOK(c, upload[c], numbered)
  BY DEF ImportInit, UploadOK, IdleUpload
<1> QED
  BY <1>2, <1>3 DEF ImportInv, ImportInit

\* A step of an upload that leaves what the others stored.
LEMMA ImportMoves ==
    ASSUME ImportInv, NEW c \in Importers, NEW new, upload' = [upload EXCEPT ![c] = new], UNCHANGED csv,
           numbered' \in [Tracking -> {NoImport} \cup (Importers \X (1..MaxRows))],
           \A t \in Tracking : numbered[t] # NoImport => numbered'[t] = numbered[t],
           UploadOK(c, new, numbered')
    PROVE  ImportInv'
<1>1. DOMAIN upload' = Importers
  BY DEF ImportInv
<1>2. ASSUME NEW d \in Importers PROVE UploadOK(d, upload'[d], numbered')
  <2>1. CASE d = c
    BY <2>1 DEF ImportInv
  <2>2. CASE d # c
    <3>1. upload'[d] = upload[d] /\ UploadOK(d, upload[d], numbered)
      BY <2>2 DEF ImportInv
    <3>2. ASSUME upload[d].pc = "report" PROVE Reported(d, upload'[d], numbered')
      <4>1. Reported(d, upload[d], numbered)
        BY <3>1, <3>2 DEF UploadOK
      <4>2. ASSUME NEW i \in upload[d].created PROVE numbered'[upload[d].file[i].tracking] = <<d, i>>
        <5>1. i \in Lines(upload[d].file) /\ upload[d].file \in CsvFiles /\ ValidRow(upload[d].file[i])
          BY <4>1 DEF Reported
        <5>2. upload[d].file[i].tracking \in Tracking
          BY <5>1, FilesAreSequences
        <5>3. numbered[upload[d].file[i].tracking] = <<d, i>>
          BY <4>1 DEF Reported
        <5>4. Len(upload[d].file) <= MaxRows /\ Len(upload[d].file) \in Nat /\ i \in 1..Len(upload[d].file)
          BY <4>1, <5>1, FilesAreSequences DEF Reported
        <5>5. <<d, i>> \in Importers \X (1..MaxRows)
          BY <5>4, ImportAssumption
        <5> QED
          BY <5>2, <5>3, <5>5, ImportAssumption
      <4> QED
        BY <3>1, <4>1, <4>2 DEF Reported
    <3>3. upload[d].pc \in {"find", "insert"} => \E S : ToReport(upload[d], S)
      BY <3>1 DEF UploadOK
    <3> QED
      BY <3>1, <3>2, <3>3 DEF UploadOK, ToReport
  <2> QED
    BY <2>1, <2>2
<1> QED
  BY <1>1, <1>2 DEF ImportInv

\* The parsed file is split into the rejected rows and those to look up (importFromCsv).
LEMMA ImportsStart ==
    ASSUME ImportInv, NEW c \in Importers, ImportFromCsv(c)
    PROVE  ImportInv'
<1>1. PICK file \in CsvFiles :
        LET rejected == {i \in Lines(file) : ~ValidRow(file[i]) \/ Repeated(file, i)}
        IN  upload' = [upload EXCEPT ![c] = IF Len(file) > MaxRows THEN [pc |-> "rejected"]
                ELSE [pc |-> "find", file |-> file, errors |-> rejected, rows |-> InOrder(Lines(file) \ rejected)]]
  BY DEF ImportFromCsv
<1> DEFINE rejected == {i \in Lines(file) : ~ValidRow(file[i]) \/ Repeated(file, i)}
           S == Lines(file) \ rejected
           found == [pc |-> "find", file |-> file, errors |-> rejected, rows |-> InOrder(S)]
           new == IF Len(file) > MaxRows THEN [pc |-> "rejected"] ELSE found
<1>2. UNCHANGED <<csv, numbered>> /\ upload' = [upload EXCEPT ![c] = new]
  BY <1>1 DEF ImportFromCsv
<1>3. Len(file) \in Nat /\ Lines(file) = 1..Len(file)
  BY FilesAreSequences
<1>4. ASSUME Len(file) <= MaxRows PROVE ToReport(found, S)
  <2>1. \A i \in S : ValidRow(file[i]) /\ ~Repeated(file, i)
    OBVIOUS
  <2>2. ASSUME NEW i \in S, NEW j \in S, file[i].tracking = file[j].tracking PROVE i = j
    <3>1. i \in Nat /\ j \in Nat /\ i >= 1 /\ j >= 1 /\ ValidRow(file[i]) /\ ValidRow(file[j])
      BY <1>3, <2>1
    <3>2. ~(i < j) /\ ~(j < i)
      BY <2>1, <2>2, <3>1 DEF Repeated
    <3> QED
      BY <3>1, <3>2
  <2>3. rejected = Lines(file) \ S
    OBVIOUS
  <2> HIDE DEF S, rejected
  <2> QED
    BY <1>4, <2>1, <2>2, <2>3 DEF ToReport, S
<1>5. UploadOK(c, new, numbered')
  <2>1. CASE Len(file) > MaxRows
    BY <2>1 DEF UploadOK
  <2>2. CASE ~(Len(file) > MaxRows)
    <3>1. ToReport(found, S)
      BY <1>3, <1>4, <2>2, ImportAssumption
    <3>2. new = found /\ found.pc = "find"
      BY <2>2
    <3> HIDE DEF S, found, new
    <3> QED
      BY <3>1, <3>2 DEF UploadOK
  <2> QED
    BY <2>1, <2>2
<1> HIDE DEF new
<1> QED
  BY <1>2, <1>5, ImportMoves DEF ImportInv

\* What the query finds is rejected, and what it misses is inserted.
LEMMA ImportsFind ==
    ASSUME ImportInv, NEW c \in Importers, FindExisting(c)
    PROVE  ImportInv'
<1> DEFINE call == upload[c]
           existing == {i \in ToSet(call.rows) : numbered[NumberOf(c, i)] # NoImport}
           new == [call EXCEPT !.pc = "insert", !.errors = call.errors \cup existing,
                               !.rows = InOrder(ToSet(call.rows) \ existing)]
<1>1. call.pc = "find" /\ UNCHANGED <<csv, numbered>> /\ UploadOK(c, call, numbered) /\ DOMAIN upload = Importers
  BY DEF FindExisting, ImportInv
<1>2. PICK S : ToReport(call, S)
  BY <1>1 DEF UploadOK
<1>3. ToSet(call.rows) = S
  BY <1>2, RowsAreLines DEF ToReport
<1>4. upload' = [upload EXCEPT ![c] = new]
  BY <1>1 DEF FindExisting
<1>5. new.pc = "insert" /\ new.file = call.file /\ DOMAIN new = DOMAIN call
      /\ new.errors = call.errors \cup existing /\ new.rows = InOrder(S \ existing)
  <2>1. DOMAIN call = {"pc", "file", "errors", "rows"}
    BY <1>2 DEF ToReport
  <2> HIDE DEF call, existing
  <2> QED
    BY <1>3, <2>1
<1>6. existing \subseteq S
  BY <1>3
<1> HIDE DEF existing, new, call
<1>7. ToReport(new, S \ existing)
  BY <1>2, <1>5, <1>6 DEF ToReport
<1>8. UploadOK(c, new, numbered')
  BY <1>5, <1>7 DEF UploadOK
<1> QED
  BY <1>1, <1>4, <1>8, ImportMoves DEF ImportInv

\* What an insertion of some rows leaves: their numbers, and those that were taken.
LEMMA InsertedRows ==
    ASSUME ImportInv, NEW c \in Importers, upload[c].pc = "insert", NEW part, part \subseteq Insertable(c),
           numbered' = Inserted(c, part)
    PROVE  /\ numbered' \in [Tracking -> {NoImport} \cup (Importers \X (1..MaxRows))]
           /\ \A t \in Tracking : numbered[t] # NoImport => numbered'[t] = numbered[t]
           /\ \A n \in part : numbered'[NumberOf(c, upload[c].rows[n])] = <<c, upload[c].rows[n]>>
<1> DEFINE rows == upload[c].rows
           file == upload[c].file
<1>1. PICK S : ToReport(upload[c], S)
  BY DEF ImportInv, UploadOK
<1>2. /\ file \in CsvFiles /\ Len(file) <= MaxRows /\ S \subseteq Lines(file)
      /\ \A i \in S : ValidRow(file[i]) /\ NumberOf(c, i) = file[i].tracking
      /\ \A i, j \in S : NumberOf(c, i) = NumberOf(c, j) => i = j
  BY <1>1 DEF ToReport, NumberOf
<1>3. /\ \A n \in DOMAIN rows : rows[n] \in S
  BY <1>1, <1>2, RowsAreLines DEF ToReport
<1>4. \A i \in S : i \in 1..MaxRows /\ NumberOf(c, i) \in Tracking
  BY <1>2, FilesAreSequences, ImportAssumption
<1> DEFINE Which(t) == CHOOSE n \in part : NumberOf(c, rows[n]) = t
<1>5. ASSUME NEW t \in Tracking, \E n \in part : NumberOf(c, rows[n]) = t
      PROVE  Which(t) \in part /\ NumberOf(c, rows[Which(t)]) = t /\ numbered[t] = NoImport
  <2>1. Which(t) \in part /\ NumberOf(c, rows[Which(t)]) = t
    BY <1>5
  <2> HIDE DEF Which
  <2> QED
    BY <2>1 DEF Insertable
<1>6. \A n \in part : n \in DOMAIN rows /\ rows[n] \in S
  BY <1>3 DEF Insertable
<1>7. \A t \in Tracking : numbered'[t] = IF \E n \in part : NumberOf(c, rows[n]) = t THEN <<c, rows[Which(t)]>> ELSE numbered[t]
  BY DEF Inserted
<1>8. DOMAIN numbered' = Tracking /\ numbered' = [t \in Tracking |-> numbered'[t]]
  BY DEF Inserted
<1> HIDE DEF Which, rows, file
<1>9. ASSUME NEW t \in Tracking PROVE numbered'[t] \in {NoImport} \cup (Importers \X (1..MaxRows))
  <2>1. CASE \E n \in part : NumberOf(c, rows[n]) = t
    <3>1. Which(t) \in part /\ numbered'[t] = <<c, rows[Which(t)]>>
      BY <1>5, <1>7, <2>1
    <3>2. rows[Which(t)] \in 1..MaxRows
      BY <1>4, <1>6, <3>1
    <3> QED
      BY <3>1, <3>2
  <2>2. CASE ~\E n \in part : NumberOf(c, rows[n]) = t
    BY <1>7, <2>2 DEF ImportInv
  <2> QED
    BY <2>1, <2>2
<1>10. ASSUME NEW n \in part PROVE numbered'[NumberOf(c, rows[n])] = <<c, rows[n]>>
  <2> DEFINE t == NumberOf(c, rows[n])
  <2>1. t \in Tracking
    BY <1>4, <1>6
  <2>2. Which(t) \in part /\ NumberOf(c, rows[Which(t)]) = t
    BY <1>5, <2>1
  <2>3. rows[Which(t)] = rows[n]
    BY <1>2, <1>6, <2>2
  <2> HIDE DEF t
  <2>4. \E k \in part : NumberOf(c, rows[k]) = t
    BY <2>2
  <2>5. numbered'[t] = <<c, rows[n]>>
    BY <1>7, <2>1, <2>3, <2>4
  <2> QED
    BY <2>5 DEF t
<1>11. \A t \in Tracking : numbered[t] # NoImport => numbered'[t] = numbered[t]
  BY <1>5, <1>7
<1> QED
  BY <1>8, <1>9, <1>10, <1>11 DEF rows

\* What an unordered insertion leaves out is reported, and what it stored is created.
LEMMA ImportsInsert ==
    ASSUME ImportInv, NEW c \in Importers, InsertRows(c)
    PROVE  ImportInv'
<1> DEFINE call == upload[c]
           rows == call.rows
           created == {rows[n] : n \in Insertable(c)}
           refused == DOMAIN rows \ Insertable(c)
           errors == call.errors \cup {rows[n] : n \in refused}
           new == [pc |-> "report", file |-> call.file, created |-> created, errors |-> errors,
                   answer |-> AnswerOf(created, errors)]
<1>1. call.pc = "insert" /\ UNCHANGED csv /\ UploadOK(c, call, numbered) /\ numbered' = Inserted(c, Insertable(c))
  BY DEF InsertRows, ImportInv
<1>2. upload' = [upload EXCEPT ![c] = new]
  BY DEF InsertRows, LineOf
<1>3. PICK S : ToReport(call, S)
  BY <1>1 DEF UploadOK
<1>4. ToSet(rows) = S /\ \A m, n \in DOMAIN rows : rows[m] = rows[n] => m = n
  BY <1>3, RowsAreLines DEF ToReport
<1>5. /\ numbered' \in [Tracking -> {NoImport} \cup (Importers \X (1..MaxRows))]
      /\ \A t \in Tracking : numbered[t] # NoImport => numbered'[t] = numbered[t]
      /\ \A n \in Insertable(c) : numbered'[NumberOf(c, rows[n])] = <<c, rows[n]>>
  BY <1>1, InsertedRows
<1>6. Insertable(c) \subseteq DOMAIN rows /\ S = {rows[n] : n \in DOMAIN rows}
  BY <1>4 DEF Insertable, ToSet
<1>7. created \cup errors = Lines(call.file) /\ created \subseteq S
  <2>1. call.errors = Lines(call.file) \ S /\ S \subseteq Lines(call.file)
    BY <1>3 DEF ToReport
  <2>2. created \cup {rows[n] : n \in refused} = S
    BY <1>6
  <2> HIDE DEF call, created
  <2> QED
    BY <2>1, <2>2
<1>8. created \cap errors = {}
  <2> SUFFICES ASSUME NEW x \in created, x \in errors PROVE FALSE
    OBVIOUS
  <2>1. x \in S /\ x \notin call.errors
    BY <1>3, <1>7 DEF ToReport
  <2>2. PICK m \in Insertable(c) : x = rows[m]
    OBVIOUS
  <2>3. PICK n \in refused : x = rows[n]
    BY <2>1
  <2> QED
    BY <1>4, <1>6, <2>2, <2>3
<1>9. ASSUME NEW i \in created PROVE ValidRow(call.file[i]) /\ numbered'[call.file[i].tracking] = <<c, i>>
  <2>1. PICK n \in Insertable(c) : i = rows[n]
    OBVIOUS
  <2> QED
    BY <1>3, <1>5, <1>7, <2>1 DEF ToReport, NumberOf
<1>10. AnswerOf(created, errors) = 201 => errors = {}
  BY DEF AnswerOf
<1>11. call.file \in CsvFiles /\ Len(call.file) <= MaxRows
  BY <1>3 DEF ToReport
<1> HIDE DEF call, rows, created, refused, errors
<1>12. UploadOK(c, new, numbered')
  <2>1. /\ new.pc = "report" /\ new.file = call.file /\ new.created = created /\ new.errors = errors
        /\ new.answer = AnswerOf(created, errors)
    OBVIOUS
  <2> HIDE DEF new
  <2>2. Reported(c, new, numbered')
    BY <1>7, <1>8, <1>9, <1>10, <1>11, <2>1 DEF Reported, Lines
  <2> QED
    BY <2>1, <2>2 DEF UploadOK
<1> HIDE DEF new
<1> QED
  BY <1>1, <1>2, <1>5, <1>12, ImportMoves

\* An upload that breaks reports nothing.
LEMMA ImportsBreak ==
    ASSUME ImportInv, NEW c \in Importers, InsertBreaks(c)
    PROVE  ImportInv'
<1>1. PICK part \in SUBSET Insertable(c) : numbered' = Inserted(c, part)
  BY DEF InsertBreaks
<1>2. UploadOK(c, [pc |-> "failed"], numbered')
  BY DEF UploadOK
<1>3. upload[c].pc = "insert" /\ upload' = [upload EXCEPT ![c] = [pc |-> "failed"]] /\ UNCHANGED csv
  BY DEF InsertBreaks
<1> QED
  BY <1>1, <1>2, <1>3, InsertedRows, ImportMoves

\* Uploads and parses keep what each upload knows.
LEMMA ImportIsKept == ImportInv /\ [ImportStep \/ ParseCsv]_importVars => ImportInv'
<1> SUFFICES ASSUME ImportInv, [ImportStep \/ ParseCsv]_importVars PROVE ImportInv'
  OBVIOUS
<1>1. CASE ImportStep
  BY <1>1, ImportsStart, ImportsFind, ImportsInsert, ImportsBreak DEF ImportStep
<1>2. CASE ParseCsv
  <2>1. csv'.text \in Texts /\ csv'.result = Tokenize(csv'.text)
    BY <1>2 DEF ParseCsv
  <2> QED
    BY <1>2, <2>1 DEF ParseCsv, ImportInv
<1>3. CASE UNCHANGED importVars
  BY <1>3 DEF importVars, ImportInv
<1> QED
  BY <1>1, <1>2, <1>3

\* Then reports are exact.
LEMMA ImportsAreExact == ImportInv => ImportTypeOK /\ ReportIsExact
<1> SUFFICES ASSUME ImportInv PROVE ImportTypeOK /\ ReportIsExact
  OBVIOUS
<1>1. NumberedByLine(csv.text, csv.result.records) /\ csv.result.unterminated \in BOOLEAN
  BY TokensAreNumbered DEF ImportInv
<1>2. RecordsAreNumberedByLine
  BY <1>1 DEF RecordsAreNumberedByLine, NumberedByLine
<1>3. LinesAreAccountedFor
  BY DEF LinesAreAccountedFor, ImportInv, UploadOK, Reported, NumberOf
<1> QED
  BY <1>1, <1>2, <1>3 DEF ImportInv, UploadOK, ImportTypeOK, ReportIsExact

\* A service's variables change by its own steps only.
LEMMA OthersRestImports == [Next]_serviceVars => [ImportStep \/ ParseCsv]_importVars
BY DEF Next, Play, serviceVars

\* bulkDelivery.service.ts and csvParser.ts, for any number of uploads, rows and characters: a report accounts for
\* every row of its file, calls created what this upload stored and nothing else, and numbers each record by
\* the line it begins on, whatever the quotes and the line breaks in it.
THEOREM ReportsAreExact == Spec => []ReportIsExact
<1>1. Init => ImportInv
  BY ImportStart DEF Init
<1>2. ImportInv /\ [Next]_serviceVars => ImportInv'
  BY ImportIsKept, OthersRestImports
<1> QED
  BY <1>1, <1>2, ImportsAreExact, PTL DEF Spec

-----------------------------------------------------------------------------
(* Pools *)

\* Every delivery has its places.
PoolingStarts ==
    /\ pickup \in [Candidates -> 0..LastPlace]
    /\ dropoff \in [Candidates -> 0..LastPlace]

\* A pool that seed began, with those that had no pool when it did.
PoolOK(seed, used, n, pool) ==
    /\ pool \in Seq(Candidates) /\ Len(pool) \in 1..MaxPoolSize /\ pool[1] = seed
    /\ \A j, k \in 1..Len(pool) : pool[j] = pool[k] => j = k
    /\ \A k \in 2..Len(pool) : pool[k] \notin used /\ Distance(pickup[seed], pickup[pool[k]]) <= Proximity

\* A pool takes the next delivery in, or leaves it.
LEMMA PoolGrows ==
    ASSUME NEW seed \in Candidates, NEW used, NEW n \in 1..PoolCandidates, NEW pool, PoolOK(seed, used, n - 1, pool)
    PROVE  PoolOK(seed, used, n, IF Joins(seed, n, pool, used) THEN Append(pool, n) ELSE pool)
<1> DEFINE new == Append(pool, n)
<1>1. n \in Candidates
  BY DEF Candidates
<1>2. CASE Joins(seed, n, pool, used)
  <2>1. /\ pool \in Seq(Candidates) /\ Len(pool) \in Nat /\ Len(pool) >= 1 /\ Len(pool) < MaxPoolSize
        /\ n \notin used /\ n \notin ToSet(pool) /\ Distance(pickup[seed], pickup[n]) <= Proximity
    BY <1>2 DEF PoolOK, Joins
  <2>2. /\ new \in Seq(Candidates) /\ Len(new) = Len(pool) + 1
        /\ \A k \in 1..Len(pool) : new[k] = pool[k]
        /\ new[Len(pool) + 1] = n
    BY <1>1, <2>1, AppendProperties
  <2>3. \A k \in 1..Len(pool) : pool[k] # n
    BY <2>1 DEF ToSet
  <2> HIDE DEF new
  <2>4. ASSUME NEW j \in 1..Len(new), NEW k \in 1..Len(new), new[j] = new[k] PROVE j = k
    <3>1. (j \in 1..Len(pool) \/ j = Len(pool) + 1) /\ (k \in 1..Len(pool) \/ k = Len(pool) + 1)
      BY <2>1, <2>2
    <3> QED
      BY <2>2, <2>3, <2>4, <3>1 DEF PoolOK
  <2>5. ASSUME NEW k \in 2..Len(new)
        PROVE  new[k] \notin used /\ Distance(pickup[seed], pickup[new[k]]) <= Proximity
    <3>1. k \in 2..Len(pool) \/ k = Len(pool) + 1
      BY <2>1, <2>2
    <3>2. k \in 2..Len(pool) => k \in 1..Len(pool)
      BY <2>1
    <3> QED
      BY <2>1, <2>2, <3>1, <3>2 DEF PoolOK
  <2>6. Len(new) \in 1..MaxPoolSize /\ new[1] = seed
    BY <2>1, <2>2, PoolingAssumption DEF PoolOK
  <2> QED
    BY <1>2, <2>2, <2>4, <2>5, <2>6 DEF PoolOK, new
<1>3. CASE ~Joins(seed, n, pool, used)
  BY <1>3 DEF PoolOK
<1> QED
  BY <1>2, <1>3

\* Cluster makes such a pool, whoever has one already.
LEMMA ClusterIsPool ==
    ASSUME NEW seed \in Candidates, NEW used
    PROVE  PoolOK(seed, used, PoolCandidates, Cluster(seed, used))
<1> DEFINE N == PoolCandidates
           S == Seq(Candidates)
           Joined(pool, n) == IF Joins(seed, n, pool, used) THEN Append(pool, n) ELSE pool
           step == [p \in S \X (1..N) |-> Joined(p[1], p[2])]
           Is(f) == f = [n \in 0..N |-> IF n = 0 THEN <<seed>> ELSE Joined(f[n - 1], n)]
<1>1. N \in Nat /\ <<seed>> \in S /\ 1..N = Candidates
  BY PoolingAssumption DEF Candidates
<1>2. \A p \in S \X (1..N) : Joined(p[1], p[2]) \in S
  BY <1>1, AppendProperties
<1> HIDE DEF N, S, Joined
<1>3. IsStep(step, S, N)
  BY <1>2 DEF IsStep
<1>4. PICK g : g \in [0..N -> S] /\ IsRun(g, <<seed>>, step, N)
  <2> HIDE DEF step
  <2> QED
    BY <1>1, <1>3, Iterates
<1>5. Is(g)
  <2>1. ASSUME NEW i \in 0..N PROVE g[i] = IF i = 0 THEN <<seed>> ELSE Joined(g[i - 1], i)
    <3>1. CASE i = 0
      BY <1>4, <3>1 DEF IsRun
    <3>2. CASE i # 0
      <4>1. i \in 1..N /\ i - 1 \in 0..N
        BY <1>1, <3>2
      <4>2. g[i] = step[<<g[i - 1], i>>] /\ g[i - 1] \in S
        BY <1>4, <4>1 DEF IsRun
      <4> QED
        BY <3>2, <4>1, <4>2
    <3> QED
      BY <3>1, <3>2
  <2> QED
    BY <1>4, <2>1
<1>6. PICK f : Is(f) /\ Cluster(seed, used) = f[N]
  <2>1. Cluster(seed, used) = (CHOOSE f : Is(f))[N]
    BY DEF Cluster, N, Joined
  <2> HIDE DEF Is
  <2> QED
    BY <1>5, <2>1
<1>7. ASSUME NEW i \in 0..N PROVE f[i] = IF i = 0 THEN <<seed>> ELSE Joined(f[i - 1], i)
  BY <1>6
<1> DEFINE T == {i \in 0..N : PoolOK(seed, used, i, f[i])}
<1>8. 0 \in T
  <2>1. f[0] = <<seed>> /\ 0 \in 0..N
    BY <1>1, <1>7
  <2>2. PoolOK(seed, used, 0, <<seed>>)
    BY <1>1, PoolingAssumption DEF PoolOK, S
  <2> QED
    BY <2>1, <2>2
<1>9. ASSUME NEW i \in 1..N, i - 1 \in T PROVE i \in T
  <2>1. i \in 0..N /\ i # 0 /\ i \in 1..PoolCandidates
    BY <1>1 DEF N
  <2>2. f[i] = Joined(f[i - 1], i)
    BY <1>7, <2>1
  <2>3. PoolOK(seed, used, i - 1, f[i - 1])
    BY <1>9
  <2>4. PoolOK(seed, used, i, f[i])
    BY <2>1, <2>2, <2>3, PoolGrows DEF Joined
  <2> QED
    BY <2>1, <2>4
<1> HIDE DEF T
<1>10. N \in T
  <2>1. \A i \in 0..N : i \in T
    BY <1>1, <1>8, <1>9, Induction
  <2> QED
    BY <1>1, <2>1
<1> QED
  BY <1>6, <1>10 DEF T, N

\* What a pool promises to the driver.
GoodPool(pool) ==
    /\ pool \in Seq(Candidates) /\ Len(pool) \in 1..MaxPoolSize
    /\ \A j, k \in 1..Len(pool) : pool[j] = pool[k] => j = k
    /\ \A k \in 1..Len(pool) : pool[1] <= pool[k] /\ Distance(pickup[pool[1]], pickup[pool[k]]) <= Proximity

\* The pools when the first n deliveries have been seeds.
PoolsOK(n, ps) ==
    /\ ps \in Seq(Seq(Candidates))
    /\ \A i \in 1..Len(ps) : GoodPool(ps[i])
    /\ \A i, j \in 1..Len(ps) : ToSet(ps[i]) \cap ToSet(ps[j]) # {} => i = j
    /\ 1..n \subseteq Pooled(ps)

\* One more pool, and its members have a pool.
LEMMA PooledTogether ==
    ASSUME NEW ps \in Seq(Seq(Candidates)), NEW pool \in Seq(Candidates)
    PROVE  Pooled(Append(ps, pool)) = Pooled(ps) \cup ToSet(pool)
<1> DEFINE new == Append(ps, pool)
<1>1. /\ Len(new) = Len(ps) + 1 /\ Len(ps) \in Nat /\ new \in Seq(Seq(Candidates))
      /\ \A k \in 1..Len(ps) : new[k] = ps[k]
      /\ new[Len(ps) + 1] = pool
  BY AppendProperties
<1> HIDE DEF new
<1>2. DOMAIN new = 1..Len(ps) + 1 /\ DOMAIN ps = 1..Len(ps)
  BY <1>1
<1>3. \A x : x \in Pooled(new) <=> \E i \in 1..Len(ps) + 1 : x \in ToSet(new[i])
  BY <1>2 DEF Pooled
<1>4. \A x : x \in Pooled(ps) <=> \E i \in 1..Len(ps) : x \in ToSet(ps[i])
  BY <1>2 DEF Pooled
<1>5. \A i : i \in 1..Len(ps) + 1 <=> i \in 1..Len(ps) \/ i = Len(ps) + 1
  BY <1>1
<1>6. \A x : x \in Pooled(new) <=> x \in Pooled(ps) \/ x \in ToSet(pool)
  BY <1>1, <1>3, <1>4, <1>5
<1> QED
  BY <1>6 DEF new

\* A seed is older than those that join it, as all that are older have a pool already.
LEMMA PoolIsGood ==
    ASSUME PoolingStarts, NEW seed \in Candidates, NEW used, NEW pool, PoolOK(seed, used, PoolCandidates, pool),
           1..seed - 1 \subseteq used, seed \notin used
    PROVE  GoodPool(pool) /\ ToSet(pool) \cap used = {} /\ seed \in ToSet(pool)
<1>1. seed \in Nat /\ seed >= 1 /\ Len(pool) \in Nat /\ Len(pool) >= 1 /\ pool \in Seq(Candidates) /\ DOMAIN pool = 1..Len(pool)
  BY PoolingAssumption DEF PoolOK, Candidates
<1>2. ASSUME NEW k \in 1..Len(pool)
      PROVE  pool[k] \notin used /\ pool[1] <= pool[k] /\ Distance(pickup[pool[1]], pickup[pool[k]]) <= Proximity
  <2>1. pool[k] \in Nat /\ pool[k] >= 1
    <3>1. pool[k] \in Candidates
      BY <1>1
    <3> QED
      BY <3>1, PoolingAssumption DEF Candidates
  <2>2. CASE k = 1
    <3>1. pickup[seed] \in Nat
      BY PoolingAssumption DEF PoolingStarts
    <3>2. Distance(pickup[seed], pickup[seed]) = 0
      BY <3>1 DEF Distance
    <3> QED
      BY <1>1, <2>2, <3>2, PoolingAssumption DEF PoolOK
  <2>3. CASE k \in 2..Len(pool)
    <3>1. pool[k] \notin used /\ pool[1] = seed /\ Distance(pickup[seed], pickup[pool[k]]) <= Proximity
      BY <2>3 DEF PoolOK
    <3>2. pool[k] \notin 1..seed - 1
      BY <3>1
    <3> QED
      BY <1>1, <2>1, <3>1, <3>2
  <2> QED
    BY <1>1, <2>2, <2>3
<1>3. pool[1] = seed /\ 1 \in 1..Len(pool)
  BY <1>1 DEF PoolOK
<1> QED
  BY <1>1, <1>2, <1>3 DEF PoolOK, GoodPool, ToSet

\* A seed without a pool begins one.
LEMMA PoolsGrow ==
    ASSUME PoolingStarts, NEW seed \in Candidates, NEW ps, PoolsOK(seed - 1, ps)
    PROVE  PoolsOK(seed, IF seed \in Pooled(ps) THEN ps ELSE Append(ps, Cluster(seed, Pooled(ps))))
<1>1. seed \in Nat /\ seed >= 1 /\ ps \in Seq(Seq(Candidates)) /\ Len(ps) \in Nat
  BY PoolingAssumption DEF PoolsOK, Candidates
<1>2. CASE seed \in Pooled(ps)
  <2>1. 1..seed \subseteq Pooled(ps)
    BY <1>1, <1>2 DEF PoolsOK
  <2> QED
    BY <1>2, <2>1 DEF PoolsOK
<1>3. CASE seed \notin Pooled(ps)
  <2> DEFINE pool == Cluster(seed, Pooled(ps))
             new == Append(ps, pool)
  <2>1. GoodPool(pool) /\ ToSet(pool) \cap Pooled(ps) = {} /\ seed \in ToSet(pool)
    <3>1. PoolOK(seed, Pooled(ps), PoolCandidates, pool)
      BY ClusterIsPool
    <3> HIDE DEF pool
    <3> QED
      BY <1>3, <3>1, PoolIsGood DEF PoolsOK
  <2> HIDE DEF pool
  <2>2. pool \in Seq(Candidates)
    BY <2>1 DEF GoodPool
  <2>3. /\ Len(new) = Len(ps) + 1 /\ new \in Seq(Seq(Candidates))
        /\ \A k \in 1..Len(ps) : new[k] = ps[k]
        /\ new[Len(ps) + 1] = pool
    BY <1>1, <2>2, AppendProperties
  <2>4. Pooled(new) = Pooled(ps) \cup ToSet(pool)
    BY <1>1, <2>2, PooledTogether
  <2> HIDE DEF new
  <2>5. \A i : i \in 1..Len(new) <=> i \in 1..Len(ps) \/ i = Len(ps) + 1
    BY <1>1, <2>3
  <2>6. \A i \in 1..Len(new) : GoodPool(new[i])
    BY <2>1, <2>3, <2>5 DEF PoolsOK
  <2>7. \A i \in 1..Len(ps) : ToSet(ps[i]) \subseteq Pooled(ps)
    <3>1. DOMAIN ps = 1..Len(ps)
      BY <1>1
    <3> QED
      BY <3>1 DEF Pooled
  <2>8. ASSUME NEW i \in 1..Len(new), NEW j \in 1..Len(new), ToSet(new[i]) \cap ToSet(new[j]) # {} PROVE i = j
    <3>1. CASE i \in 1..Len(ps) /\ j \in 1..Len(ps)
      BY <2>3, <2>8, <3>1 DEF PoolsOK
    <3>2. CASE i \in 1..Len(ps) /\ j = Len(ps) + 1
      BY <2>1, <2>3, <2>7, <2>8, <3>2
    <3>3. CASE i = Len(ps) + 1 /\ j \in 1..Len(ps)
      BY <2>1, <2>3, <2>7, <2>8, <3>3
    <3> QED
      BY <2>5, <3>1, <3>2, <3>3
  <2>9. 1..seed \subseteq Pooled(new)
    BY <1>1, <2>1, <2>4 DEF PoolsOK
  <2>10. PoolsOK(seed, new)
    BY <2>3, <2>6, <2>8, <2>9 DEF PoolsOK
  <2> QED
    BY <1>3, <2>10 DEF new, pool
<1> QED
  BY <1>2, <1>3

\* createPools gives every delivery a pool.
LEMMA ClustersAreGood ==
    ASSUME PoolingStarts
    PROVE  PoolsOK(PoolCandidates, Clusters)
<1> DEFINE N == PoolCandidates
           S == Seq(Seq(Candidates))
           Grown(ps, seed) == IF seed \in Pooled(ps) THEN ps ELSE Append(ps, Cluster(seed, Pooled(ps)))
           step == [p \in S \X (1..N) |-> Grown(p[1], p[2])]
           Is(f) == f = [n \in 0..N |-> IF n = 0 THEN <<>> ELSE Grown(f[n - 1], n)]
<1>1. N \in Nat /\ <<>> \in S /\ 1..N = Candidates
  BY PoolingAssumption DEF Candidates
<1>2. ASSUME NEW p \in S \X (1..N) PROVE Grown(p[1], p[2]) \in S
  <2>1. p[1] \in S /\ p[2] \in Candidates
    BY <1>1
  <2>2. Cluster(p[2], Pooled(p[1])) \in Seq(Candidates)
    BY <2>1, ClusterIsPool DEF PoolOK
  <2> QED
    BY <2>1, <2>2, AppendProperties
<1> HIDE DEF N, S, Grown
<1>3. IsStep(step, S, N)
  BY <1>2 DEF IsStep
<1>4. PICK g : g \in [0..N -> S] /\ IsRun(g, <<>>, step, N)
  <2> HIDE DEF step
  <2> QED
    BY <1>1, <1>3, Iterates
<1>5. Is(g)
  <2>1. ASSUME NEW i \in 0..N PROVE g[i] = IF i = 0 THEN <<>> ELSE Grown(g[i - 1], i)
    <3>1. CASE i = 0
      BY <1>4, <3>1 DEF IsRun
    <3>2. CASE i # 0
      <4>1. i \in 1..N /\ i - 1 \in 0..N
        BY <1>1, <3>2
      <4>2. g[i] = step[<<g[i - 1], i>>] /\ g[i - 1] \in S
        BY <1>4, <4>1 DEF IsRun
      <4> QED
        BY <3>2, <4>1, <4>2
    <3> QED
      BY <3>1, <3>2
  <2> QED
    BY <1>4, <2>1
<1>6. PICK f : Is(f) /\ Clusters = f[N]
  <2>1. Clusters = (CHOOSE f : Is(f))[N]
    BY DEF Clusters, N, Grown
  <2> HIDE DEF Is
  <2> QED
    BY <1>5, <2>1
<1>7. ASSUME NEW i \in 0..N PROVE f[i] = IF i = 0 THEN <<>> ELSE Grown(f[i - 1], i)
  BY <1>6
<1> DEFINE T == {i \in 0..N : PoolsOK(i, f[i])}
<1>8. 0 \in T
  <2>1. f[0] = <<>> /\ 0 \in 0..N
    BY <1>1, <1>7
  <2>2. PoolsOK(0, <<>>)
    BY <1>1 DEF PoolsOK, S
  <2> QED
    BY <2>1, <2>2
<1>9. ASSUME NEW i \in 1..N, i - 1 \in T PROVE i \in T
  <2>1. i \in 0..N /\ i # 0 /\ i \in Candidates
    BY <1>1
  <2>2. f[i] = Grown(f[i - 1], i)
    BY <1>7, <2>1
  <2>3. PoolsOK(i - 1, f[i - 1])
    BY <1>9
  <2>4. PoolsOK(i, f[i])
    BY <2>1, <2>2, <2>3, PoolsGrow DEF Grown
  <2> QED
    BY <2>1, <2>4
<1> HIDE DEF T
<1>10. N \in T
  <2>1. \A i \in 0..N : i \in T
    BY <1>1, <1>8, <1>9, Induction
  <2> QED
    BY <1>1, <2>1
<1> QED
  BY <1>6, <1>10 DEF T, N

-----------------------------------------------------------------------------
(* Routes *)

\* The stops of a pool are the pickup and the dropoff of each member, each listed once.
LEMMA StopsAreListed ==
    ASSUME NEW pool, GoodPool(pool)
    PROVE  /\ AllStops(pool) \in Seq(Stops) /\ Len(AllStops(pool)) = 2 * Len(pool) /\ Len(pool) \in Nat /\ Len(pool) >= 1
           /\ ToSet(AllStops(pool)) = [delivery: ToSet(pool), type: {"pickup", "dropoff"}]
           /\ \A j, k \in 1..2 * Len(pool) : AllStops(pool)[j] = AllStops(pool)[k] => j = k
           /\ AllStops(pool)[1].type = "pickup"
<1> DEFINE P == Len(pool)
           stops == AllStops(pool)
           Kind(i) == IF i % 2 = 1 THEN "pickup" ELSE "dropoff"
<1>1. P \in Nat /\ P >= 1 /\ pool \in Seq(Candidates) /\ DOMAIN pool = 1..P
  BY PoolingAssumption DEF GoodPool
<1>2. \A i \in 1..2 * P : (i + 1) \div 2 \in 1..P
  BY <1>1
<1>3. stops = [i \in 1..2 * P |-> [delivery |-> pool[(i + 1) \div 2], type |-> Kind(i)]]
  BY DEF AllStops
<1> HIDE DEF stops
<1>4. \A i \in 1..2 * P : stops[i].delivery = pool[(i + 1) \div 2] /\ stops[i].type = Kind(i) /\ stops[i] \in Stops
  BY <1>1, <1>2, <1>3 DEF Stops
<1>5. stops \in [1..2 * P -> Stops] /\ DOMAIN stops = 1..2 * P
  BY <1>3, <1>4
<1>6. 2 * P \in Nat
  BY <1>1
<1>7. stops \in Seq(Stops) /\ Len(stops) = 2 * P
  BY <1>5, <1>6
<1>8. ASSUME NEW j \in 1..2 * P, NEW k \in 1..2 * P, stops[j] = stops[k] PROVE j = k
  <2>1. pool[(j + 1) \div 2] = pool[(k + 1) \div 2] /\ Kind(j) = Kind(k)
    BY <1>4, <1>8
  <2>2. (j + 1) \div 2 = (k + 1) \div 2
    BY <1>2, <2>1 DEF GoodPool
  <2>3. j % 2 = 1 <=> k % 2 = 1
    BY <2>1
  <2>4. j \in Nat /\ k \in Nat
    BY <1>6
  <2> QED
    BY <2>2, <2>3, <2>4
<1>9. ASSUME NEW d \in ToSet(pool), NEW t \in {"pickup", "dropoff"} PROVE [delivery |-> d, type |-> t] \in ToSet(stops)
  <2>1. PICK k \in 1..P : pool[k] = d
    BY <1>1 DEF ToSet
  <2> DEFINE i == IF t = "pickup" THEN 2 * k - 1 ELSE 2 * k
  <2>2. i \in 1..2 * P /\ (i + 1) \div 2 = k /\ (i % 2 = 1 <=> t = "pickup")
    BY <1>1
  <2> HIDE DEF i
  <2>3. stops[i] = [delivery |-> d, type |-> t]
    BY <1>3, <2>1, <2>2
  <2> QED
    BY <1>5, <2>2, <2>3 DEF ToSet
<1>10. ASSUME NEW x \in ToSet(stops) PROVE x \in [delivery: ToSet(pool), type: {"pickup", "dropoff"}]
  <2>1. PICK i \in 1..2 * P : x = stops[i]
    BY <1>5 DEF ToSet
  <2>2. pool[(i + 1) \div 2] \in ToSet(pool)
    BY <1>1, <1>2 DEF ToSet
  <2> QED
    BY <1>3, <2>1, <2>2
<1>11. ToSet(stops) = [delivery: ToSet(pool), type: {"pickup", "dropoff"}]
  <2>1. ASSUME NEW x \in [delivery: ToSet(pool), type: {"pickup", "dropoff"}] PROVE x \in ToSet(stops)
    <3>1. x = [delivery |-> x.delivery, type |-> x.type] /\ x.delivery \in ToSet(pool) /\ x.type \in {"pickup", "dropoff"}
      OBVIOUS
    <3> QED
      BY <1>9, <3>1
  <2> QED
    BY <1>10, <2>1
<1>12. stops[1].type = "pickup"
  <2>1. 1 \in 1..2 * P /\ 1 % 2 = 1
    BY <1>1
  <2> QED
    BY <1>4, <2>1
<1> QED
  BY <1>1, <1>7, <1>8, <1>11, <1>12 DEF stops

\* What is visited and what is left are the stops; a dropoff comes after its pickup.
RouteOK(stops, n, route) ==
    /\ route.sequence \in Seq(Stops) /\ route.remaining \in Seq(Stops)
    /\ Len(route.sequence) = n + 1 /\ Len(route.remaining) = Len(stops) - n - 1
    /\ ToSet(route.sequence) \cup ToSet(route.remaining) = ToSet(stops)
    /\ ToSet(route.sequence) \cap ToSet(route.remaining) = {}
    /\ \A j, k \in 1..Len(route.sequence) : route.sequence[j] = route.sequence[k] => j = k
    /\ \A j, k \in 1..Len(route.remaining) : route.remaining[j] = route.remaining[k] => j = k
    /\ \A k \in 1..Len(route.sequence) : route.sequence[k].type = "dropoff" =>
            \E j \in 1..k - 1 : route.sequence[j] = [route.sequence[k] EXCEPT !.type = "pickup"]

\* Every delivery of the stops is picked up at one of them.
Paired(stops) ==
    /\ stops \in Seq(Stops) /\ Len(stops) >= 1 /\ stops[1].type = "pickup"
    /\ \A j, k \in 1..Len(stops) : stops[j] = stops[k] => j = k
    /\ \A x \in ToSet(stops) : [x EXCEPT !.type = "pickup"] \in ToSet(stops)

\* Of the stops that may come next one is the nearest.
LEMMA SomeStopIsNearest ==
    ASSUME PoolingStarts, NEW sequence \in Seq(Stops), NEW remaining \in Seq(Stops), Len(sequence) >= 1,
           \E i \in DOMAIN remaining : MayComeNext(remaining[i], sequence)
    PROVE  /\ NearestIdx(sequence, remaining) \in DOMAIN remaining
           /\ MayComeNext(remaining[NearestIdx(sequence, remaining)], sequence)
<1> DEFINE eligible == {i \in DOMAIN remaining : MayComeNext(remaining[i], sequence)}
           away(i) == Distance(Place(Last(sequence)), Place(remaining[i]))
<1>1. eligible # {} /\ DOMAIN remaining = 1..Len(remaining) /\ eligible \subseteq Nat
  OBVIOUS
<1>2. \A stop \in Stops : Place(stop) \in Nat
  <2>1. ASSUME NEW stop \in Stops PROVE Place(stop) \in Nat
    <3>1. stop.delivery \in Candidates
      BY DEF Stops
    <3>2. pickup[stop.delivery] \in Nat /\ dropoff[stop.delivery] \in Nat
      BY <3>1, PoolingAssumption DEF PoolingStarts
    <3> QED
      BY <3>2 DEF Place
  <2> QED
    BY <2>1
<1>3. Last(sequence) \in Stops
  BY DEF Last
<1>4. \A i \in eligible : away(i) \in Nat
  BY <1>1, <1>2, <1>3 DEF Distance
<1> DEFINE aways == {away(i) : i \in eligible}
<1> HIDE DEF eligible, away
<1>5. PICK d \in aways : \A e \in aways : d <= e
  <2>1. aways \subseteq Nat /\ aways # {}
    BY <1>1, <1>4
  <2> HIDE DEF aways
  <2> QED
    BY <2>1, HasLeast, Zenon
<1> DEFINE near == {i \in eligible : away(i) = d}
<1>6. PICK o \in near : \A i \in near : o <= i
  <2>1. near \subseteq Nat /\ near # {}
    BY <1>1, <1>5
  <2> HIDE DEF near
  <2> QED
    BY <2>1, HasLeast, Zenon
<1>7. \A j \in eligible : away(o) < away(j) \/ (away(o) = away(j) /\ o <= j)
  <2> SUFFICES ASSUME NEW j \in eligible PROVE away(o) < away(j) \/ (away(o) = away(j) /\ o <= j)
    OBVIOUS
  <2>1. away(o) = d /\ d <= away(j) /\ away(j) \in Nat /\ d \in Nat
    BY <1>4, <1>5, <1>6
  <2>2. away(j) = d => o <= j
    BY <1>6
  <2> QED
    BY <2>1, <2>2
<1>8. o \in eligible
  BY <1>6
<1>9. NearestIdx(sequence, remaining) =
        CHOOSE i \in eligible : \A j \in eligible : away(i) < away(j) \/ (away(i) = away(j) /\ i <= j)
  BY <1>1 DEF NearestIdx, eligible, away
<1>10. NearestIdx(sequence, remaining) \in eligible
  BY <1>7, <1>8, <1>9
<1> QED
  BY <1>10 DEF eligible

\* While stops remain, one of them may come next.
LEMMA RouteGoesOn ==
    ASSUME PoolingStarts, NEW stops, Paired(stops), NEW n \in Nat, n + 1 < Len(stops), NEW route, RouteOK(stops, n, route)
    PROVE  /\ NearestIdx(route.sequence, route.remaining) \in DOMAIN route.remaining
           /\ MayComeNext(route.remaining[NearestIdx(route.sequence, route.remaining)], route.sequence)
<1> DEFINE sequence == route.sequence
           remaining == route.remaining
<1>1. Len(stops) \in Nat /\ sequence \in Seq(Stops) /\ remaining \in Seq(Stops) /\ Len(sequence) = n + 1 /\ Len(remaining) >= 1
  BY DEF RouteOK, Paired
<1>2. DOMAIN remaining = 1..Len(remaining) /\ 1 \in DOMAIN remaining
  BY <1>1
<1>3. \E i \in DOMAIN remaining : MayComeNext(remaining[i], sequence)
  <2> DEFINE x == remaining[1]
             y == [x EXCEPT !.type = "pickup"]
  <2>1. x \in Stops /\ x \in ToSet(remaining)
    BY <1>1, <1>2 DEF ToSet
  <2>2. x \in ToSet(stops)
    BY <2>1 DEF RouteOK
  <2>3. y \in ToSet(stops) /\ y.type = "pickup"
    BY <2>1, <2>2 DEF Paired, Stops
  <2>4. y \in ToSet(sequence) \/ y \in ToSet(remaining)
    BY <2>3 DEF RouteOK
  <2>5. CASE y \in ToSet(sequence)
    BY <1>2, <2>5 DEF MayComeNext
  <2>6. CASE y \in ToSet(remaining)
    <3>1. PICK i \in DOMAIN remaining : remaining[i] = y
      BY <2>6 DEF ToSet
    <3>2. MayComeNext(remaining[i], sequence)
      BY <2>3, <3>1 DEF MayComeNext
    <3> QED
      BY <3>2
  <2> QED
    BY <2>4, <2>5, <2>6
<1> QED
  BY <1>1, <1>3, SomeStopIsNearest

\* A stop leaves the list, and the others move up.
LEMMA StopRemoved ==
    ASSUME NEW s \in Seq(Stops), NEW i \in 1..Len(s)
    PROVE  /\ RemoveAt(s, i) \in Seq(Stops) /\ Len(RemoveAt(s, i)) = Len(s) - 1
           /\ \A k \in 1..Len(s) - 1 : RemoveAt(s, i)[k] = IF k < i THEN s[k] ELSE s[k + 1]
<1> DEFINE a == SubSeq(s, 1, i - 1)
           b == SubSeq(s, i + 1, Len(s))
<1>1. Len(s) \in Nat /\ i \in Nat /\ \A k \in 1..Len(s) : s[k] \in Stops
  OBVIOUS
<1>2. a \in Seq(Stops) /\ Len(a) = i - 1 /\ \A k \in 1..i - 1 : a[k] = s[k]
  <2>1. \A k \in 1..i - 1 : s[k] \in Stops
    BY <1>1
  <2> QED
    BY <1>1, <2>1, SubSeqProperties
<1>3. b \in Seq(Stops) /\ Len(b) = Len(s) - i /\ \A k \in 1..Len(s) - i : b[k] = s[i + k]
  <2>1. \A k \in i + 1..Len(s) : s[k] \in Stops
    BY <1>1
  <2> QED
    BY <1>1, <2>1, SubSeqProperties
<1> HIDE DEF a, b
<1>4. /\ a \o b \in Seq(Stops) /\ Len(a \o b) = Len(a) + Len(b)
      /\ \A k \in 1..Len(a) + Len(b) : (a \o b)[k] = IF k <= Len(a) THEN a[k] ELSE b[k - Len(a)]
  BY <1>2, <1>3, ConcatProperties
<1>5. ASSUME NEW k \in 1..Len(s) - 1 PROVE (a \o b)[k] = IF k < i THEN s[k] ELSE s[k + 1]
  <2>1. k \in 1..Len(a) + Len(b)
    BY <1>1, <1>2, <1>3
  <2>2. CASE k < i
    BY <1>1, <1>2, <1>4, <2>1, <2>2
  <2>3. CASE ~(k < i)
    <3>1. k - (i - 1) \in 1..Len(s) - i /\ ~(k <= i - 1) /\ i + (k - (i - 1)) = k + 1
      BY <1>1, <2>3
    <3> QED
      BY <1>2, <1>3, <1>4, <2>1, <2>3, <3>1
  <2> QED
    BY <2>2, <2>3
<1>6. RemoveAt(s, i) = a \o b
  BY DEF RemoveAt, a, b
<1>7. Len(a \o b) = Len(s) - 1
  BY <1>1, <1>2, <1>3, <1>4
<1> QED
  BY <1>4, <1>5, <1>6, <1>7

\* The nearest stop is visited, and the route is as before.
LEMMA StopIsVisited ==
    ASSUME PoolingStarts, NEW stops, Paired(stops), NEW n \in Nat, n + 1 < Len(stops), NEW route, RouteOK(stops, n, route)
    PROVE  RouteOK(stops, n + 1, VisitNext(route))
<1> DEFINE sequence == route.sequence
           remaining == route.remaining
           i == NearestIdx(sequence, remaining)
           x == remaining[i]
           longer == Append(sequence, x)
           rest == RemoveAt(remaining, i)
<1>1. /\ Len(stops) \in Nat /\ sequence \in Seq(Stops) /\ remaining \in Seq(Stops)
      /\ Len(sequence) = n + 1 /\ Len(remaining) = Len(stops) - n - 1 /\ DOMAIN remaining = 1..Len(remaining)
      /\ DOMAIN sequence = 1..n + 1
  BY DEF RouteOK, Paired
<1>2. i \in 1..Len(remaining) /\ MayComeNext(x, sequence)
  BY <1>1, RouteGoesOn
<1>3. VisitNext(route) = [sequence |-> longer, remaining |-> rest]
  BY DEF VisitNext
<1> HIDE DEF i
<1>4. x \in Stops /\ x \in ToSet(remaining)
  BY <1>1, <1>2 DEF ToSet
<1> HIDE DEF x
<1>5. /\ longer \in Seq(Stops) /\ Len(longer) = n + 2
      /\ \A k \in 1..n + 1 : longer[k] = sequence[k]
      /\ longer[n + 2] = x
  BY <1>1, <1>4, AppendProperties
<1>6. /\ rest \in Seq(Stops) /\ Len(rest) = Len(remaining) - 1
      /\ \A k \in 1..Len(remaining) - 1 : rest[k] = IF k < i THEN remaining[k] ELSE remaining[k + 1]
  BY <1>1, <1>2, StopRemoved
<1>7. remaining[i] = x
  BY DEF x
<1> HIDE DEF longer, rest, sequence, remaining
<1>8. DOMAIN longer = 1..n + 2 /\ DOMAIN rest = 1..Len(remaining) - 1 /\ Len(remaining) \in Nat
  BY <1>1, <1>5, <1>6
<1>9. \A k : k \in 1..n + 2 <=> k \in 1..n + 1 \/ k = n + 2
  OBVIOUS
<1>10. ToSet(longer) = ToSet(sequence) \cup {x}
  BY <1>1, <1>5, <1>8, <1>9 DEF ToSet
<1>11. /\ \A j, k \in 1..Len(sequence) : sequence[j] = sequence[k] => j = k
       /\ \A j, k \in 1..Len(remaining) : remaining[j] = remaining[k] => j = k
       /\ ToSet(sequence) \cup ToSet(remaining) = ToSet(stops)
       /\ ToSet(sequence) \cap ToSet(remaining) = {}
       /\ \A k \in 1..Len(sequence) : sequence[k].type = "dropoff" =>
            \E j \in 1..k - 1 : sequence[j] = [sequence[k] EXCEPT !.type = "pickup"]
  BY DEF RouteOK, sequence, remaining
<1> DEFINE From(k) == IF k < i THEN k ELSE k + 1
<1>12. \A k \in 1..Len(remaining) - 1 : From(k) \in 1..Len(remaining) /\ From(k) # i /\ rest[k] = remaining[From(k)]
  BY <1>2, <1>6, <1>8
<1>13. \A j, k \in 1..Len(remaining) - 1 : From(j) = From(k) => j = k
  BY <1>2, <1>8
<1>14. \A m \in 1..Len(remaining) : m # i => \E k \in 1..Len(remaining) - 1 : From(k) = m
  <2> SUFFICES ASSUME NEW m \in 1..Len(remaining), m # i PROVE \E k \in 1..Len(remaining) - 1 : From(k) = m
    OBVIOUS
  <2>1. CASE m < i
    <3>1. m \in 1..Len(remaining) - 1 /\ From(m) = m
      BY <1>2, <1>8, <2>1
    <3> QED
      BY <3>1
  <2>2. CASE ~(m < i)
    <3>1. m - 1 \in 1..Len(remaining) - 1 /\ From(m - 1) = m
      BY <1>2, <1>8, <2>2
    <3> QED
      BY <3>1
  <2> QED
    BY <2>1, <2>2
<1> HIDE DEF From
<1>15. ToSet(rest) = ToSet(remaining) \ {x}
  <2>1. ASSUME NEW y \in ToSet(rest) PROVE y \in ToSet(remaining) /\ y # x
    <3>1. PICK k \in 1..Len(remaining) - 1 : y = rest[k]
      BY <1>8 DEF ToSet
    <3>2. y = remaining[From(k)] /\ From(k) \in 1..Len(remaining) /\ From(k) # i
      BY <1>12, <3>1
    <3> QED
      BY <1>1, <1>2, <1>7, <1>11, <3>2 DEF ToSet
  <2>2. ASSUME NEW y \in ToSet(remaining), y # x PROVE y \in ToSet(rest)
    <3>1. PICK m \in 1..Len(remaining) : y = remaining[m]
      BY <1>1 DEF ToSet
    <3>2. PICK k \in 1..Len(remaining) - 1 : From(k) = m
      BY <1>7, <1>14, <2>2, <3>1
    <3>3. rest[k] = y
      BY <1>12, <3>1, <3>2
    <3> QED
      BY <1>8, <3>3 DEF ToSet
  <2> QED
    BY <2>1, <2>2
<1>16. ToSet(longer) \cup ToSet(rest) = ToSet(stops) /\ ToSet(longer) \cap ToSet(rest) = {} /\ x \notin ToSet(sequence)
  BY <1>4, <1>10, <1>11, <1>15 DEF remaining
<1>17. ASSUME NEW j \in 1..n + 2, NEW k \in 1..n + 2, longer[j] = longer[k] PROVE j = k
  <2>1. \A m \in 1..n + 1 : longer[m] \in ToSet(sequence) /\ longer[m] # x
    BY <1>1, <1>5, <1>16 DEF ToSet
  <2>2. CASE j \in 1..n + 1 /\ k \in 1..n + 1
    BY <1>1, <1>5, <1>11, <1>17, <2>2
  <2>3. CASE j = n + 2 \/ k = n + 2
    BY <1>5, <1>9, <1>17, <2>1, <2>3
  <2> QED
    BY <1>9, <2>2, <2>3
<1>18. ASSUME NEW j \in 1..Len(remaining) - 1, NEW k \in 1..Len(remaining) - 1, rest[j] = rest[k] PROVE j = k
  BY <1>11, <1>12, <1>13, <1>18
<1>19. ASSUME NEW k \in 1..n + 2, longer[k].type = "dropoff"
       PROVE  \E j \in 1..k - 1 : longer[j] = [longer[k] EXCEPT !.type = "pickup"]
  <2>1. CASE k \in 1..n + 1
    <3>1. longer[k] = sequence[k]
      BY <1>5, <2>1
    <3>2. PICK j \in 1..k - 1 : sequence[j] = [sequence[k] EXCEPT !.type = "pickup"]
      BY <1>1, <1>11, <1>19, <2>1, <3>1
    <3>3. j \in 1..n + 1
      BY <2>1, <3>2
    <3> QED
      BY <1>5, <3>1, <3>2, <3>3
  <2>2. CASE k = n + 2
    <3>1. longer[k] = x /\ x.type = "dropoff"
      BY <1>5, <1>19, <2>2
    <3>2. [x EXCEPT !.type = "pickup"] \in ToSet(sequence)
      BY <1>2, <3>1 DEF MayComeNext
    <3>3. PICK j \in 1..n + 1 : sequence[j] = [x EXCEPT !.type = "pickup"]
      BY <1>1, <3>2 DEF ToSet
    <3>4. longer[j] = [longer[k] EXCEPT !.type = "pickup"] /\ j \in 1..k - 1
      BY <1>5, <2>2, <3>1, <3>3
    <3> QED
      BY <3>4
  <2> QED
    BY <1>9, <2>1, <2>2
<1> DEFINE new == [sequence |-> longer, remaining |-> rest]
<1>20. new.sequence = longer /\ new.remaining = rest
  OBVIOUS
<1>21. Len(longer) = (n + 1) + 1 /\ Len(rest) = Len(stops) - (n + 1) - 1 /\ Len(rest) = Len(remaining) - 1
  BY <1>1, <1>5, <1>6, <1>8 DEF sequence, remaining
<1> HIDE DEF new
<1>22. RouteOK(stops, n + 1, new)
  BY <1>5, <1>6, <1>16, <1>17, <1>18, <1>19, <1>20, <1>21 DEF RouteOK
<1> QED
  BY <1>3, <1>22 DEF new

\* The route through a pool's stops, to its end.
LEMMA RouteIsBuilt ==
    ASSUME PoolingStarts, NEW pool, GoodPool(pool)
    PROVE  \E route : /\ BuildNearestNeighbourRoute(pool) = route.sequence
                      /\ RouteOK(AllStops(pool), 2 * Len(pool) - 1, route)
<1> DEFINE stops == AllStops(pool)
           N == Len(stops) - 1
           first == [sequence |-> <<Head(stops)>>, remaining |-> Tail(stops)]
           S == [sequence: Seq(Stops), remaining: Seq(Stops)]
           More(r, i) == NearestIdx(r.sequence, r.remaining) \in DOMAIN r.remaining
           step == [p \in S \X (1..N) |-> IF More(p[1], p[2]) THEN VisitNext(p[1]) ELSE p[1]]
           Is(f) == f = [n \in 0..N |-> IF n = 0 THEN first ELSE VisitNext(f[n - 1])]
<1>1. /\ stops \in Seq(Stops) /\ Len(stops) = 2 * Len(pool) /\ Len(pool) \in Nat /\ Len(pool) >= 1
      /\ ToSet(stops) = [delivery: ToSet(pool), type: {"pickup", "dropoff"}]
      /\ \A j, k \in 1..2 * Len(pool) : stops[j] = stops[k] => j = k
      /\ stops[1].type = "pickup"
  BY StopsAreListed
<1>2. N \in Nat /\ N >= 1 /\ N = 2 * Len(pool) - 1
  BY <1>1
<1> HIDE DEF stops, N
<1>3. Paired(stops)
  <2>1. \A x \in ToSet(stops) : [x EXCEPT !.type = "pickup"] \in ToSet(stops)
    BY <1>1
  <2> QED
    BY <1>1, <2>1 DEF Paired
<1>4. /\ Head(stops) = stops[1] /\ Head(stops) \in Stops /\ Tail(stops) \in Seq(Stops) /\ Len(Tail(stops)) = N
      /\ \A k \in 1..N : Tail(stops)[k] = stops[k + 1]
  <2>1. stops # <<>>
    BY <1>1
  <2> QED
    BY <1>1, <2>1, HeadTailProperties DEF N
<1>5. first \in S
  BY <1>4
<1>6. RouteOK(stops, 0, first)
  <2> DEFINE head == <<Head(stops)>>
             tail == Tail(stops)
  <2>1. first.sequence = head /\ first.remaining = tail
    OBVIOUS
  <2>2. head \in Seq(Stops) /\ Len(head) = 1 /\ head[1] = stops[1] /\ DOMAIN head = {1}
    BY <1>4
  <2>3. tail \in Seq(Stops) /\ Len(tail) = N /\ DOMAIN tail = 1..N /\ \A k \in 1..N : tail[k] = stops[k + 1]
    BY <1>4
  <2> HIDE DEF head, tail, first
  <2>4. DOMAIN stops = 1..N + 1 /\ Len(stops) = N + 1
    BY <1>1, <1>2
  <2>5. ToSet(head) = {stops[1]}
    BY <2>2 DEF ToSet
  <2>6. ASSUME NEW y PROVE y \in ToSet(tail) <=> \E k \in 2..N + 1 : y = stops[k]
    <3>1. ASSUME NEW k \in 1..N, y = tail[k] PROVE k + 1 \in 2..N + 1 /\ y = stops[k + 1]
      BY <1>2, <2>3, <3>1
    <3>2. ASSUME NEW k \in 2..N + 1, y = stops[k] PROVE k - 1 \in 1..N /\ y = tail[k - 1]
      <4>1. k - 1 \in 1..N /\ (k - 1) + 1 = k
        BY <1>2
      <4> QED
        BY <2>3, <3>2, <4>1
    <3> QED
      BY <2>3, <3>1, <3>2 DEF ToSet
  <2>7. \A k : k \in 1..N + 1 <=> k = 1 \/ k \in 2..N + 1
    BY <1>2
  <2>8. ToSet(head) \cup ToSet(tail) = ToSet(stops) /\ ToSet(head) \cap ToSet(tail) = {}
    <3>1. \A k \in 2..N + 1 : stops[k] # stops[1]
      BY <1>1, <1>2
    <3>2. \A y : y \in ToSet(stops) <=> \E k \in 1..N + 1 : y = stops[k]
      BY <2>4 DEF ToSet
    <3> QED
      BY <2>5, <2>6, <2>7, <3>1, <3>2
  <2>9. ASSUME NEW j \in 1..N, NEW k \in 1..N, tail[j] = tail[k] PROVE j = k
    <3>1. j + 1 \in 1..2 * Len(pool) /\ k + 1 \in 1..2 * Len(pool) /\ stops[j + 1] = stops[k + 1]
      BY <1>2, <2>3, <2>9, <1>1
    <3>2. j + 1 = k + 1
      BY <1>1, <3>1
    <3> QED
      BY <1>2, <3>2
  <2>10. head[1].type # "dropoff"
    BY <1>1, <2>2
  <2>11. \A k \in 1..1 : k = 1
    OBVIOUS
  <2>12. Len(stops) - 0 - 1 = N /\ 0 + 1 = 1
    BY <1>2, <2>4
  <2> QED
    BY <2>1, <2>2, <2>3, <2>8, <2>9, <2>10, <2>11, <2>12 DEF RouteOK
<1> HIDE DEF first
<1>7. IsStep(step, S, N)
  <2>1. ASSUME NEW r \in S, More(r, 0) PROVE VisitNext(r) \in S
    <3> DEFINE i == NearestIdx(r.sequence, r.remaining)
    <3>1. r.sequence \in Seq(Stops) /\ r.remaining \in Seq(Stops) /\ i \in 1..Len(r.remaining)
      BY <2>1
    <3> HIDE DEF i
    <3>2. r.remaining[i] \in Stops
      BY <3>1
    <3>3. Append(r.sequence, r.remaining[i]) \in Seq(Stops) /\ RemoveAt(r.remaining, i) \in Seq(Stops)
      BY <3>1, <3>2, AppendProperties, StopRemoved
    <3> QED
      BY <3>3 DEF VisitNext, i
  <2>2. ASSUME NEW p \in S \X (1..N) PROVE (IF More(p[1], p[2]) THEN VisitNext(p[1]) ELSE p[1]) \in S
    <3>1. p[1] \in S
      OBVIOUS
    <3> HIDE DEF S
    <3> QED
      BY <2>1, <3>1
  <2> HIDE DEF S, More
  <2> QED
    BY <2>2 DEF IsStep
<1>8. PICK g : g \in [0..N -> S] /\ IsRun(g, first, step, N)
  <2> HIDE DEF step, S
  <2> QED
    BY <1>2, <1>5, <1>7, Iterates
<1> DEFINE T == {i \in 0..N : RouteOK(stops, i, g[i])}
<1>9. ASSUME NEW i \in 0..N - 1, NEW r, RouteOK(stops, i, r)
      PROVE  More(r, i) /\ RouteOK(stops, i + 1, VisitNext(r))
  <2>1. i \in Nat /\ i + 1 < Len(stops)
    BY <1>1, <1>2
  <2> QED
    BY <1>3, <1>9, <2>1, RouteGoesOn, StopIsVisited
<1>10. 0 \in T
  BY <1>2, <1>6, <1>8 DEF IsRun
<1>11. ASSUME NEW i \in 1..N, i - 1 \in T PROVE i \in T /\ g[i] = VisitNext(g[i - 1])
  <2>1. i - 1 \in 0..N - 1 /\ i \in 0..N /\ (i - 1) + 1 = i /\ g[i - 1] \in S
    BY <1>2, <1>8
  <2>2. RouteOK(stops, i - 1, g[i - 1])
    BY <1>11
  <2>3. g[i] = step[<<g[i - 1], i>>]
    BY <1>8 DEF IsRun
  <2> HIDE DEF S
  <2>4. More(g[i - 1], i - 1) /\ RouteOK(stops, i, VisitNext(g[i - 1]))
    BY <1>9, <2>1, <2>2
  <2>5. g[i] = VisitNext(g[i - 1])
    BY <2>1, <2>3, <2>4
  <2> QED
    BY <2>1, <2>4, <2>5
<1> HIDE DEF T, step, S, More
<1>12. \A i \in 0..N : i \in T
  BY <1>2, <1>10, <1>11, Induction
<1>13. Is(g)
  <2>1. ASSUME NEW i \in 0..N PROVE g[i] = IF i = 0 THEN first ELSE VisitNext(g[i - 1])
    <3>1. CASE i = 0
      BY <1>8, <3>1 DEF IsRun
    <3>2. CASE i # 0
      <4>1. i \in 1..N /\ i - 1 \in 0..N
        BY <1>2, <3>2
      <4> QED
        BY <1>11, <1>12, <3>2, <4>1
    <3> QED
      BY <3>1, <3>2
  <2> QED
    BY <1>8, <2>1
<1>14. PICK f : Is(f) /\ Visited(stops) = f
  <2>1. Visited(stops) = CHOOSE f : Is(f)
    BY DEF Visited, N, first
  <2> HIDE DEF Is
  <2> QED
    BY <1>13, <2>1
<1>15. ASSUME NEW i \in 0..N PROVE f[i] = IF i = 0 THEN first ELSE VisitNext(f[i - 1])
  BY <1>14
<1> DEFINE U == {i \in 0..N : RouteOK(stops, i, f[i])}
<1>16. 0 \in U
  BY <1>2, <1>6, <1>15
<1>17. ASSUME NEW i \in 1..N, i - 1 \in U PROVE i \in U
  <2>1. i - 1 \in 0..N - 1 /\ i \in 0..N /\ (i - 1) + 1 = i /\ i # 0
    BY <1>2
  <2>2. RouteOK(stops, i, VisitNext(f[i - 1]))
    BY <1>9, <1>17, <2>1
  <2> QED
    BY <1>15, <2>1, <2>2
<1> HIDE DEF U
<1>18. \A i \in 0..N : i \in U
  BY <1>2, <1>16, <1>17, Induction
<1>19. RouteOK(stops, N, f[N])
  BY <1>2, <1>18 DEF U
<1>20. BuildNearestNeighbourRoute(pool) = f[N].sequence
  BY <1>2, <1>14 DEF BuildNearestNeighbourRoute, stops
<1> QED
  BY <1>2, <1>19, <1>20 DEF stops

-----------------------------------------------------------------------------
(* What createPools returns *)

\* Every waiting delivery is in one pool of ps, at one place; no pool is too large; the pickups of a
\* pool are near its oldest delivery's.
Partition(ps, starts) ==
    /\ \A x \in Candidates :
        Cardinality({p \in (DOMAIN ps) \X (1..MaxPoolSize) :
                        p[2] <= Len(ps[p[1]].deliveries) /\ ps[p[1]].deliveries[p[2]] = x}) = 1
    /\ \A i \in DOMAIN ps :
        LET together == ToSet(ps[i].deliveries)
            oldest == CHOOSE x \in together : \A y \in together : x <= y
        IN /\ Cardinality(together) <= MaxPoolSize
           /\ \A x \in together : Distance(starts[oldest], starts[x]) <= Proximity

\* The route of pool i stops once at every place of it, and picks up before it drops off.
Feasible(ps, i) ==
    LET route == ps[i].routeSequence
    IN /\ Len(route) = 2 * Len(ps[i].deliveries)
       /\ ToSet(route) = [delivery: ToSet(ps[i].deliveries), type: {"pickup", "dropoff"}]
       /\ \A j, k \in DOMAIN route :
            route[j].delivery = route[k].delivery /\ route[j].type = "pickup" /\ route[k].type = "dropoff" => j < k

\* A pool is not too large, and its first member is its oldest.
LEMMA PoolIsSmall ==
    ASSUME PoolingStarts, NEW pool, GoodPool(pool)
    PROVE  LET together == ToSet(pool)
               oldest == CHOOSE x \in together : \A y \in together : x <= y
           IN /\ Cardinality(together) <= MaxPoolSize
              /\ \A x \in together : Distance(pickup[oldest], pickup[x]) <= Proximity
<1> DEFINE together == ToSet(pool)
           oldest == CHOOSE x \in together : \A y \in together : x <= y
<1>1. /\ pool \in Seq(Candidates) /\ Len(pool) \in Nat /\ Len(pool) >= 1 /\ Len(pool) <= MaxPoolSize
      /\ DOMAIN pool = 1..Len(pool) /\ MaxPoolSize \in Nat
  BY PoolingAssumption DEF GoodPool
<1>2. together \subseteq Nat /\ pool[1] \in together /\ \A x \in together : \E k \in 1..Len(pool) : x = pool[k]
  BY <1>1, PoolingAssumption DEF ToSet, Candidates
<1>3. oldest = pool[1]
  <2>1. \A y \in together : pool[1] <= y
    BY <1>2 DEF GoodPool
  <2> HIDE DEF together
  <2>2. oldest \in together /\ \A y \in together : oldest <= y
    BY <1>2, <2>1
  <2>3. oldest <= pool[1] /\ pool[1] <= oldest /\ oldest \in Nat /\ pool[1] \in Nat
    BY <1>2, <2>1, <2>2
  <2> HIDE DEF oldest
  <2> QED
    BY <2>3
<1>4. Cardinality(together) <= MaxPoolSize
  <2>1. pool \in [1..Len(pool) -> together] /\ \A x \in together : \E k \in 1..Len(pool) : pool[k] = x
    BY <1>1, <1>2 DEF ToSet
  <2>2. pool \in Surjection(1..Len(pool), together)
    BY <2>1 DEF Surjection
  <2>3. IsFiniteSet(1..Len(pool)) /\ Cardinality(1..Len(pool)) = Len(pool)
    BY <1>1, FS_Interval
  <2> HIDE DEF together
  <2>4. IsFiniteSet(together) /\ Cardinality(together) <= Len(pool)
    BY <2>2, <2>3, FS_Surjection
  <2>5. Cardinality(together) \in Nat
    BY <2>4, FS_CardinalityType
  <2> QED
    BY <1>1, <2>4, <2>5
<1> HIDE DEF oldest
<1>5. \A x \in together : Distance(pickup[oldest], pickup[x]) <= Proximity
  BY <1>2, <1>3 DEF GoodPool
<1> QED
  BY <1>4, <1>5 DEF oldest

\* A delivery has one pool, and one place in it.
LEMMA PlacedOnce ==
    ASSUME NEW ps, PoolsOK(PoolCandidates, ps), NEW x \in Candidates
    PROVE  \E i \in 1..Len(ps), k \in 1..MaxPoolSize :
            \A p \in (1..Len(ps)) \X (1..MaxPoolSize) :
                p[2] <= Len(ps[p[1]]) /\ ps[p[1]][p[2]] = x <=> p = <<i, k>>
<1>1. ps \in Seq(Seq(Candidates)) /\ DOMAIN ps = 1..Len(ps) /\ MaxPoolSize \in Nat
  BY PoolingAssumption DEF PoolsOK
<1>2. \A i \in 1..Len(ps) : /\ GoodPool(ps[i]) /\ DOMAIN ps[i] = 1..Len(ps[i])
                            /\ Len(ps[i]) \in Nat /\ Len(ps[i]) <= MaxPoolSize
  BY <1>1 DEF PoolsOK, GoodPool
<1>3. PICK i \in 1..Len(ps) : x \in ToSet(ps[i])
  BY <1>1 DEF PoolsOK, Pooled, Candidates
<1>4. PICK k \in 1..Len(ps[i]) : ps[i][k] = x
  BY <1>2, <1>3 DEF ToSet
<1>5. k \in 1..MaxPoolSize /\ k <= Len(ps[i])
  BY <1>1, <1>2, <1>4
<1>6. ASSUME NEW j \in 1..Len(ps), NEW m \in 1..MaxPoolSize, m <= Len(ps[j]), ps[j][m] = x
      PROVE  j = i /\ m = k
  <2>1. m \in 1..Len(ps[j])
    BY <1>1, <1>2, <1>6
  <2>2. x \in ToSet(ps[j])
    BY <1>2, <1>6, <2>1 DEF ToSet
  <2>3. j = i
    BY <1>3, <2>2 DEF PoolsOK
  <2> QED
    BY <1>2, <1>4, <1>6, <2>1, <2>3 DEF GoodPool
<1>7. ASSUME NEW p \in (1..Len(ps)) \X (1..MaxPoolSize)
      PROVE  p[2] <= Len(ps[p[1]]) /\ ps[p[1]][p[2]] = x <=> p = <<i, k>>
  <2>1. p = <<p[1], p[2]>> /\ p[1] \in 1..Len(ps) /\ p[2] \in 1..MaxPoolSize
    BY <1>7
  <2> QED
    BY <1>4, <1>5, <1>6, <2>1
<1> QED
  BY <1>5, <1>7

\* A route that left no stop out.
LEMMA RouteIsFeasible ==
    ASSUME PoolingStarts, NEW pool, GoodPool(pool)
    PROVE  LET route == BuildNearestNeighbourRoute(pool)
           IN /\ Len(route) = 2 * Len(pool)
              /\ ToSet(route) = [delivery: ToSet(pool), type: {"pickup", "dropoff"}]
              /\ \A j, k \in DOMAIN route :
                    route[j].delivery = route[k].delivery /\ route[j].type = "pickup" /\ route[k].type = "dropoff" => j < k
<1>1. /\ Len(AllStops(pool)) = 2 * Len(pool) /\ Len(pool) \in Nat /\ Len(pool) >= 1
      /\ ToSet(AllStops(pool)) = [delivery: ToSet(pool), type: {"pickup", "dropoff"}]
  BY StopsAreListed
<1>2. PICK r : BuildNearestNeighbourRoute(pool) = r.sequence /\ RouteOK(AllStops(pool), 2 * Len(pool) - 1, r)
  BY RouteIsBuilt
<1> DEFINE route == r.sequence
           rest == r.remaining
<1>3. /\ route \in Seq(Stops) /\ rest \in Seq(Stops) /\ Len(route) = 2 * Len(pool) - 1 + 1
      /\ Len(rest) = Len(AllStops(pool)) - (2 * Len(pool) - 1) - 1
      /\ ToSet(route) \cup ToSet(rest) = ToSet(AllStops(pool))
      /\ \A j, k \in 1..Len(route) : route[j] = route[k] => j = k
      /\ \A k \in 1..Len(route) : route[k].type = "dropoff" =>
            \E j \in 1..k - 1 : route[j] = [route[k] EXCEPT !.type = "pickup"]
  BY <1>2 DEF RouteOK
<1> HIDE DEF route, rest
<1>4. Len(route) = 2 * Len(pool) /\ Len(rest) = 0
  BY <1>1, <1>3
<1>5. ToSet(rest) = {}
  BY <1>3, <1>4 DEF ToSet
<1>6. DOMAIN route = 1..Len(route) /\ \A j \in 1..Len(route) : route[j] \in Stops
  BY <1>3
<1>7. ASSUME NEW j \in 1..Len(route), NEW k \in 1..Len(route),
             route[j].delivery = route[k].delivery, route[j].type = "pickup", route[k].type = "dropoff"
      PROVE  j < k
  <2>1. PICK m \in 1..k - 1 : route[m] = [route[k] EXCEPT !.type = "pickup"]
    BY <1>3, <1>7
  <2>2. m \in 1..Len(route) /\ m < k
    BY <1>1, <1>4, <2>1
  <2>3. route[m] = route[j]
    BY <1>6, <1>7, <2>1 DEF Stops
  <2> QED
    BY <1>3, <2>2, <2>3
<1> QED
  BY <1>1, <1>2, <1>3, <1>4, <1>5, <1>6, <1>7 DEF route

\* What createPools returns can be driven.
LEMMA PoolsAreMade ==
    ASSUME PoolingStarts, NEW ps,
           ps = [i \in DOMAIN Clusters |-> [deliveries |-> Clusters[i],
                                            routeSequence |-> BuildNearestNeighbourRoute(Clusters[i])]]
    PROVE  Partition(ps, pickup) /\ \A i \in DOMAIN ps : Feasible(ps, i)
<1> DEFINE found == Clusters
<1>1. PoolsOK(PoolCandidates, found)
  BY ClustersAreGood
<1>2. ps = [i \in DOMAIN found |-> [deliveries |-> found[i], routeSequence |-> BuildNearestNeighbourRoute(found[i])]]
  OBVIOUS
<1> HIDE DEF found
<1>3. DOMAIN ps = 1..Len(found) /\ DOMAIN found = 1..Len(found)
  BY <1>1, <1>2 DEF PoolsOK
<1>4. ASSUME NEW i \in 1..Len(found)
      PROVE  /\ GoodPool(found[i]) /\ ps[i].deliveries = found[i]
             /\ ps[i].routeSequence = BuildNearestNeighbourRoute(found[i])
  <2>1. GoodPool(found[i])
    BY <1>1 DEF PoolsOK
  <2>2. ps[i] = [deliveries |-> found[i], routeSequence |-> BuildNearestNeighbourRoute(found[i])]
    BY <1>2, <1>3
  <2> QED
    BY <2>1, <2>2
<1>5. ASSUME NEW x \in Candidates
      PROVE  Cardinality({p \in (DOMAIN ps) \X (1..MaxPoolSize) :
                            p[2] <= Len(ps[p[1]].deliveries) /\ ps[p[1]].deliveries[p[2]] = x}) = 1
  <2> DEFINE all == {p \in (DOMAIN ps) \X (1..MaxPoolSize) :
                        p[2] <= Len(ps[p[1]].deliveries) /\ ps[p[1]].deliveries[p[2]] = x}
  <2>1. PICK i \in 1..Len(found), k \in 1..MaxPoolSize :
            \A p \in (1..Len(found)) \X (1..MaxPoolSize) :
                p[2] <= Len(found[p[1]]) /\ found[p[1]][p[2]] = x <=> p = <<i, k>>
    BY <1>1, PlacedOnce
  <2>2. \A p \in (1..Len(found)) \X (1..MaxPoolSize) : ps[p[1]].deliveries = found[p[1]]
    BY <1>4
  <2>3. all = {<<i, k>>}
    BY <1>3, <2>1, <2>2
  <2> HIDE DEF all
  <2>4. Cardinality(all) = 1
    BY <2>3, FS_Singleton
  <2> QED
    BY <2>4 DEF all
<1>6. ASSUME NEW i \in DOMAIN ps
      PROVE  LET together == ToSet(ps[i].deliveries)
                 oldest == CHOOSE x \in together : \A y \in together : x <= y
             IN /\ Cardinality(together) <= MaxPoolSize
                /\ \A x \in together : Distance(pickup[oldest], pickup[x]) <= Proximity
  <2>1. GoodPool(found[i]) /\ ps[i].deliveries = found[i]
    BY <1>3, <1>4
  <2> QED
    BY <2>1, PoolIsSmall
<1>7. ASSUME NEW i \in DOMAIN ps PROVE Feasible(ps, i)
  <2>1. GoodPool(found[i]) /\ ps[i].deliveries = found[i] /\ ps[i].routeSequence = BuildNearestNeighbourRoute(found[i])
    BY <1>3, <1>4
  <2> DEFINE pool == found[i]
             route == BuildNearestNeighbourRoute(pool)
  <2>2. GoodPool(pool)
    BY <2>1
  <2> HIDE DEF pool
  <2>3. /\ Len(route) = 2 * Len(pool)
        /\ ToSet(route) = [delivery: ToSet(pool), type: {"pickup", "dropoff"}]
        /\ \A j, k \in DOMAIN route :
            route[j].delivery = route[k].delivery /\ route[j].type = "pickup" /\ route[k].type = "dropoff" => j < k
    BY <2>2, RouteIsFeasible
  <2>4. ps[i].deliveries = pool /\ ps[i].routeSequence = route
    BY <2>1 DEF pool
  <2> HIDE DEF route
  <2> DEFINE of == ps[i].deliveries
             routed == ps[i].routeSequence
  <2>5. of = pool /\ routed = route
    BY <2>4
  <2> HIDE DEF of, routed
  <2>6. /\ Len(routed) = 2 * Len(of)
        /\ ToSet(routed) = [delivery: ToSet(of), type: {"pickup", "dropoff"}]
        /\ \A j, k \in DOMAIN routed :
            routed[j].delivery = routed[k].delivery /\ routed[j].type = "pickup" /\ routed[k].type = "dropoff" => j < k
    BY <2>3, <2>5
  <2> QED
    BY <2>6 DEF Feasible, of, routed
<1> QED
  BY <1>5, <1>6, <1>7 DEF Partition

\* The inductive invariant of pooling.
PoolingInv == PoolingStarts /\ PoolsAreFeasible

\* Before the first call there are no pools.
LEMMA PoolingBegins ==
    ASSUME PoolingInit
    PROVE  PoolingInv
<1>1. pools = <<>> /\ PoolingStarts
  BY DEF PoolingInit, PoolingStarts
<1> QED
  BY <1>1 DEF PoolingInv, PoolsAreFeasible, PoolsPartitionTheDeliveries, RoutesAreFeasible

\* createPools is the only step, and what it returns can be driven.
LEMMA PoolingIsKept ==
    ASSUME PoolingInv, [CreatePools]_poolingVars
    PROVE  PoolingInv'
<1>1. CASE UNCHANGED poolingVars
  <2>1. pickup' = pickup /\ dropoff' = dropoff /\ pools' = pools
    BY <1>1 DEF poolingVars
  <2>2. PoolsPartitionTheDeliveries'
    BY <2>1 DEF PoolingInv, PoolsAreFeasible, PoolsPartitionTheDeliveries
  <2>3. RoutesAreFeasible'
    BY <2>1 DEF PoolingInv, PoolsAreFeasible, RoutesAreFeasible
  <2> QED
    BY <2>1, <2>2, <2>3 DEF PoolingInv, PoolingStarts, PoolsAreFeasible
<1>2. CASE CreatePools
  <2>1. Partition(pools', pickup) /\ \A i \in DOMAIN pools' : Feasible(pools', i)
    BY <1>2, PoolsAreMade DEF CreatePools, PoolingInv
  <2>2. pickup' = pickup /\ dropoff' = dropoff
    BY <1>2 DEF CreatePools
  <2>3. PoolsPartitionTheDeliveries'
    BY <2>1, <2>2 DEF PoolsPartitionTheDeliveries, Partition
  <2>4. RoutesAreFeasible'
    BY <2>1 DEF RoutesAreFeasible, Feasible
  <2> QED
    BY <2>2, <2>3, <2>4 DEF PoolingInv, PoolingStarts, PoolsAreFeasible
<1> QED
  BY <1>1, <1>2

\* A service's variables change by its own steps only.
LEMMA OthersRestPools == [Next]_serviceVars => [CreatePools]_poolingVars
BY DEF Next, Play, serviceVars

\* poolingService.ts, for any number of deliveries at any places: createPools puts every delivery in one pool, no pool
\* is too large or too wide, and every route picks each parcel up before it drops it off.
THEOREM PoolsAreDrivable == Spec => []PoolsAreFeasible
<1>1. Init => PoolingInv
  BY PoolingBegins DEF Init
<1>2. PoolingInv /\ [Next]_serviceVars => PoolingInv'
  BY PoolingIsKept, OthersRestPools
<1>3. PoolingInv => PoolsAreFeasible
  BY DEF PoolingInv
<1> QED
  BY <1>1, <1>2, <1>3, PTL DEF Spec
=============================================================================
