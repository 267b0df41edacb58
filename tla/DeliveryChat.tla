---------------------------- MODULE DeliveryChat ----------------------------
(***************************************************************************)
(* The chat of one delivery: the room of connectionHandler.ts, the         *)
(* messages and receipts of sockets/chatMessage.service.ts, and the HTTP   *)
(* routes of deliveryChatService.ts.  The customer, a driver who may be    *)
(* replaced, and their browser tabs.  One action per awaited call.         *)
(***************************************************************************)
EXTENDS Naturals, Sequences

CONSTANTS
    Customer, ChatDrivers,   \* the sender of the delivery; who may be its driver
    MaxTabs,                 \* sockets of each of them
    MaxChat,                 \* bound on the messages
    MaxChatCalls             \* bound on the events and requests

ASSUME ChatAssumption == Customer \notin ChatDrivers /\ {MaxTabs, MaxChat, MaxChatCalls} \subseteq Nat

VARIABLES
    driverId,    \* delivery.driverId
    inRoom,      \* tabs in the delivery's room
    chat,        \* ChatMessage documents
    chatCall,    \* what each tab's events, and each user's request, are doing
    chatCalls,
    shown,        \* messages each tab heard
    shownRead     \* read receipts each tab heard: a message and its reader

chatVars == <<driverId, inRoom, chat, chatCall, chatCalls, shown, shownRead>>

People == {Customer} \cup ChatDrivers
Tabs == People \X (1..MaxTabs)
UserOf(t) == t[1]

\* A well-formed id that is not one of this chat's messages.
Foreign == 0

\* A receipt names its reader by a string, when the message was sent by a socket, or by an
\* ObjectId; the two are shown apart.  read counts the receipts of each kind.
ChatDoc == [sender: People, text: [People -> 0..1], oid: [People -> Nat]]

NoChatCall == [pc |-> "idle"]

ChatTypeOK ==
    /\ driverId \in ChatDrivers /\ inRoom \subseteq Tabs
    /\ chat \in Seq(ChatDoc)
    /\ \A t \in Tabs : chatCall[t].pc \in {"idle", "join", "create", "announce", "mark", "announceRead"}
    /\ chatCalls \in 0..MaxChatCalls
    /\ shown \in [Tabs -> SUBSET Nat] /\ shownRead \in [Tabs -> SUBSET (Nat \X People)]

ChatInit ==
    /\ driverId \in ChatDrivers /\ inRoom = {} /\ chat = <<>>
    /\ chatCall = [t \in Tabs |-> NoChatCall] /\ chatCalls = 0
    /\ shown = [t \in Tabs |-> {}] /\ shownRead = [t \in Tabs |-> {}]

ChatGoes(t, rec) == chatCall' = [chatCall EXCEPT ![t] = rec]

ChatCallArrives(t, rec) ==
    /\ chatCall[t] = NoChatCall /\ chatCalls < MaxChatCalls /\ chatCalls' = chatCalls + 1
    /\ ChatGoes(t, rec)

\* canAccessDelivery, assertParticipant.
CanAccessDelivery(u) == u \in {Customer, driverId}

Heard == <<shown, shownRead>>

-----------------------------------------------------------------------------
(* The room *)

\* The check is awaited and the tab joins after it: whoever was a participant then is let in.
JoinRoom(t) ==
    /\ CanAccessDelivery(UserOf(t))
    /\ ChatCallArrives(t, [pc |-> "join"])
    /\ UNCHANGED <<driverId, inRoom, chat, Heard>>

Join(t) ==
    /\ chatCall[t].pc = "join"
    /\ inRoom' = inRoom \cup {t}
    /\ ChatGoes(t, NoChatCall)
    /\ UNCHANGED <<driverId, chat, chatCalls, Heard>>

\* The check throws, or the socket is gone when it ends.
JoinFails(t) ==
    /\ chatCall[t].pc = "join"
    /\ ChatGoes(t, NoChatCall)
    /\ UNCHANGED <<driverId, inRoom, chat, chatCalls, Heard>>

\* leave_room, or a disconnect.
LeaveRoom(t) ==
    /\ t \in inRoom
    /\ inRoom' = inRoom \ {t}
    /\ UNCHANGED <<driverId, chat, chatCall, chatCalls, Heard>>

DriverReplaced(u) ==
    /\ u # driverId
    /\ driverId' = u
    /\ UNCHANGED <<inRoom, chat, chatCall, chatCalls, Heard>>

-----------------------------------------------------------------------------
(* Messages *)

\* message: from a tab in the room, a participant or not by now.
SendMessage(t) ==
    /\ t \in inRoom
    /\ ChatCallArrives(t, [pc |-> "create"])
    /\ UNCHANGED <<driverId, inRoom, chat, Heard>>

\* createDeliveryMessage, or chat_error when it fails.
CreateDeliveryMessage(t) ==
    /\ chatCall[t].pc = "create" /\ Len(chat) < MaxChat
    /\ \/ /\ chat' = Append(chat, [sender |-> UserOf(t), text |-> [u \in People |-> IF u = UserOf(t) THEN 1 ELSE 0],
                                   oid |-> [u \in People |-> 0]])
          /\ ChatGoes(t, [pc |-> "announce", message |-> Len(chat) + 1])
       \/ ChatGoes(t, NoChatCall) /\ UNCHANGED chat
    /\ UNCHANGED <<driverId, inRoom, chatCalls, Heard>>

\* io.to(room).emit reaches every tab in the room, the sender's too.
AnnounceMessage(t) ==
    /\ chatCall[t].pc = "announce"
    /\ shown' = [v \in Tabs |-> IF v \in inRoom THEN shown[v] \cup {chatCall[t].message} ELSE shown[v]]
    /\ ChatGoes(t, NoChatCall)
    /\ UNCHANGED <<driverId, inRoom, chat, chatCalls, shownRead>>

\* POST /chat/messages: the sender is a receipt with an ObjectId; nobody in the room is shown.
CreateMessage(u) ==
    /\ chatCalls < MaxChatCalls /\ chatCalls' = chatCalls + 1 /\ Len(chat) < MaxChat
    /\ chat' = Append(chat, [sender |-> u, text |-> [v \in People |-> 0],
                             oid |-> [v \in People |-> IF v = u THEN 1 ELSE 0]])
    /\ UNCHANGED <<driverId, inRoom, chatCall, Heard>>

-----------------------------------------------------------------------------
(* Receipts *)

\* read_receipt: a tab may name any message, of this chat or not.
ReadReceipt(t) ==
    /\ t \in inRoom
    /\ \E m \in DOMAIN chat \cup {Foreign} : ChatCallArrives(t, [pc |-> "mark", message |-> m])
    /\ UNCHANGED <<driverId, inRoom, chat, Heard>>

\* Mutant: the receipt is pushed whatever the document has.
UnreadAlways(doc, u) == TRUE

\* 'readBy.userId': {$ne: ObjectId}: the filter and the push are one update of the document.
Unread(doc, u) == doc.oid[u] = 0

Marked(doc, u) == [doc EXCEPT !.oid[u] = @ + 1]

\* markRead: every id that was named is given back, the document changed or not, and there or not.
MarkRead(t) ==
    LET m == chatCall[t].message
        u == UserOf(t)
    IN /\ chatCall[t].pc = "mark"
       /\ \/ /\ chat' = [k \in DOMAIN chat |-> IF k = m /\ Unread(chat[k], u) THEN Marked(chat[k], u) ELSE chat[k]]
             /\ ChatGoes(t, [pc |-> "announceRead", message |-> m])
          \/ ChatGoes(t, NoChatCall) /\ UNCHANGED chat
       /\ UNCHANGED <<driverId, inRoom, chatCalls, Heard>>

\* The other tabs of the room hear of it.
AnnounceRead(t) ==
    /\ chatCall[t].pc = "announceRead"
    /\ shownRead' = [v \in Tabs |-> IF v \in inRoom \ {t} THEN shownRead[v] \cup {<<chatCall[t].message, UserOf(t)>>}
                                  ELSE shownRead[v]]
    /\ ChatGoes(t, NoChatCall)
    /\ UNCHANGED <<driverId, inRoom, chat, chatCalls, shown>>

\* PATCH /deliveries/:id/messages/read: those of others that the user has no receipt of, in either form.
MarkMessagesAsRead(u) ==
    /\ chatCalls < MaxChatCalls /\ chatCalls' = chatCalls + 1
    /\ CanAccessDelivery(u)
    /\ chat' = [m \in DOMAIN chat |->
                  IF chat[m].sender # u /\ chat[m].text[u] = 0 /\ Unread(chat[m], u) THEN Marked(chat[m], u) ELSE chat[m]]
    /\ UNCHANGED <<driverId, inRoom, chatCall, Heard>>

ChatStep ==
    \/ \E t \in Tabs :
         \/ JoinRoom(t) \/ Join(t) \/ JoinFails(t) \/ LeaveRoom(t)
         \/ SendMessage(t) \/ CreateDeliveryMessage(t) \/ AnnounceMessage(t)
         \/ ReadReceipt(t) \/ MarkRead(t) \/ AnnounceRead(t)
    \/ \E u \in People : CreateMessage(u) \/ MarkMessagesAsRead(u)
    \/ \E u \in ChatDrivers : DriverReplaced(u)

-----------------------------------------------------------------------------
(* Correctness *)

\* Every message a tab heard is on record, and whoever it heard to have read one of the chat's
\* messages has a receipt of it; an id of no message of the chat is announced and never becomes one.
\* A reader has one receipt of a message of another, however many of his tabs, and the HTTP route,
\* mark it at once.
ChatIsOnRecord ==
    /\ \A t \in Tabs :
         /\ shown[t] \subseteq DOMAIN chat
         /\ \A r \in shownRead[t] : r[1] = Foreign \/ (r[1] \in DOMAIN chat /\ chat[r[1]].oid[r[2]] > 0)
    /\ \A m \in DOMAIN chat : \A u \in People \ {chat[m].sender} : chat[m].text[u] + chat[m].oid[u] <= 1
=============================================================================
