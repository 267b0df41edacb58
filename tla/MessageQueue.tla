---------------------------- MODULE MessageQueue ----------------------------
(***************************************************************************)
(* sockets/messageQueue.ts, with the connections that sockets/             *)
(* socket.service.ts and connectionHandler.ts keep: messages for one       *)
(* driver are held in memory until the driver acknowledges them, sent      *)
(* again on a timeout and on every reconnect.  Node runs each handler to   *)
(* its end, so a handler is one action; what interleaves is the handlers.  *)
(* The array is kept in the order of enqueueing, which is that of the ids, *)
(* so the queue is a function of the id.                                   *)
(***************************************************************************)
EXTENDS Naturals, Sequences, FiniteSets

CONSTANTS
    MaxMessages,      \* bound on messages, numbered as they are enqueued
    MaxSockets,       \* bound on the driver's sockets, numbered as they connect
    Nobody,
    MaxQueueSize,     \* SOCKET_MESSAGE_QUEUE_MAX
    MaxRetries,       \* SOCKET_MESSAGE_MAX_RETRIES
    MaxMissedPongs    \* SOCKET_MAX_MISSED_PONGS

ASSUME QueueAssumption ==
    /\ MaxMessages \in Nat /\ MaxSockets \in Nat /\ Nobody \notin Nat
    /\ MaxQueueSize \in Nat \ {0} /\ MaxRetries \in Nat /\ MaxMissedPongs \in Nat

Messages == 1..MaxMessages
Sockets == 1..MaxSockets

VARIABLES
    queue,      \* queues.get(userId), by message; absent ones are not in it
    timers,     \* armed ACK timers, by message
    emitter,    \* emitters and activeConnectionId, set and deleted together
    sock,       \* the registry's view of each socket, and whether its line is dead
    owed,       \* for each message enqueued, whether it must be acknowledged
    sent,       \* emits of each message
    got,        \* messages that reached the driver
    acked       \* messages the server saw acknowledged

vars == <<queue, timers, emitter, sock, owed, sent, got, acked>>

\* deliveredConnectionId is the socket: its generation is looked up by the object.
Message == [ackRequired: BOOLEAN, retries: 0..MaxRetries, conn: Sockets \cup {Nobody},
            status: {"absent", "pending", "in-flight", "exhausted"}]

Absent == [ackRequired |-> FALSE, retries |-> 0, conn |-> Nobody, status |-> "absent"]

\* dead: the line is cut and the server has not noticed.
SocketMeta == [state: {"new", "live", "dead", "closed"}, missedPongs: 0..MaxMissedPongs,
               expired: BOOLEAN]

Closed == [state |-> "closed", missedPongs |-> 0, expired |-> FALSE]

Connected(s) == sock[s].state \in {"live", "dead"}
Live(s) == sock[s].state = "live"
Held(q) == {m \in Messages : q[m].status # "absent"}
New(m) == m = Len(owed) + 1

Init ==
    /\ queue = [m \in Messages |-> Absent] /\ timers = {} /\ emitter = Nobody
    /\ sock = [s \in Sockets |-> [state |-> "new", missedPongs |-> 0, expired |-> FALSE]]
    /\ owed = <<>> /\ sent = [m \in Messages |-> 0] /\ got = {} /\ acked = {}

-----------------------------------------------------------------------------
(* Queueing and sending *)

Enqueued(ackRequired) ==
    [ackRequired |-> ackRequired, retries |-> 0, conn |-> Nobody, status |-> "pending"]

\* Mutant: a full queue is dropped.
RoomByClearing(q) == IF Cardinality(Held(q)) >= MaxQueueSize THEN [m \in Messages |-> Absent] ELSE q

\* The oldest message is evicted, in flight or not.
Room(q) ==
    IF Cardinality(Held(q)) >= MaxQueueSize
    THEN [m \in Messages |-> IF \A n \in Held(q) : m <= n THEN Absent ELSE q[m]]
    ELSE q

\* enqueue never emits.
Enqueue(m, ackRequired) ==
    /\ New(m)
    /\ queue' = [Room(queue) EXCEPT ![m] = Enqueued(ackRequired)]
    /\ timers' = timers \cap Held(Room(queue))
    /\ owed' = Append(owed, ackRequired)
    /\ UNCHANGED <<emitter, sock, sent, got, acked>>

\* deliver: what becomes of the messages and of the driver when the messages ms
\* are emitted on socket s.  One that needs no acknowledgement is not kept.
Delivered(q, ms, s) ==
    [m \in Messages |->
        IF m \notin ms THEN q[m]
        ELSE IF q[m].ackRequired THEN [q[m] EXCEPT !.conn = s, !.status = "in-flight"]
        ELSE Absent]

\* Mutant: the timer is armed for the first delivery only.
ArmFirst(q, ms, s) == {m \in ms \cap Held(Delivered(q, ms, s)) : sent[m] = 0}

\* armAckTimer
Arm(q, ms, s) == ms \cap Held(Delivered(q, ms, s))

Emit(ms) == sent' = [m \in Messages |-> IF m \in ms THEN sent[m] + 1 ELSE sent[m]]

\* sendWithAck, on a socket that is connected.
SendWithAck(m, s) ==
    LET q == [Room(queue) EXCEPT ![m] = Enqueued(TRUE)]
    IN /\ New(m) /\ Connected(s)
       /\ queue' = Delivered(q, {m}, s)
       /\ timers' = (timers \cap Held(Room(queue))) \cup Arm(q, {m}, s)
       /\ emitter' = s
       /\ Emit({m})
       /\ got' = IF Live(s) THEN got \cup {m} ELSE got
       /\ owed' = Append(owed, TRUE)
       /\ UNCHANGED <<sock, acked>>

\* Mutant: an acknowledged message is marked and stays.
AcknowledgeByMark(m, s) ==
    /\ Live(s) /\ m \in got \cap Held(queue)
    /\ queue' = [queue EXCEPT ![m].status = "exhausted"]
    /\ timers' = timers \ {m}
    /\ acked' = acked \cup {m}
    /\ UNCHANGED <<emitter, sock, owed, sent, got>>

\* acknowledge, by callback or by a message_ack event: message m, which reached
\* the driver, is acknowledged on a live socket.
Acknowledge(m, s) ==
    /\ Live(s) /\ m \in got \cap Held(queue)
    /\ queue' = [queue EXCEPT ![m] = Absent]
    /\ timers' = timers \ {m}
    /\ acked' = acked \cup {m}
    /\ UNCHANGED <<emitter, sock, owed, sent, got>>

-----------------------------------------------------------------------------
(* handleAckTimeout *)

\* The retry budget is spent: retained, no longer retried.
Exhaust(m) ==
    /\ queue' = [queue EXCEPT ![m].status = "exhausted"]
    /\ timers' = timers \ {m}
    /\ UNCHANGED <<sent, got>>

\* Parked until the next reconnect if nobody is there, otherwise sent again.
Retry(m) ==
    LET parked == [queue EXCEPT ![m].status = "pending", ![m].conn = Nobody]
        counted == [queue EXCEPT ![m].retries = @ + 1]
        again == IF emitter = Nobody THEN {} ELSE {m}
    IN /\ queue' = IF emitter = Nobody THEN parked ELSE Delivered(counted, {m}, emitter)
       /\ timers' = (timers \ {m}) \cup Arm(counted, again, emitter)
       /\ Emit(again)
       /\ got' = IF again # {} /\ Live(emitter) THEN got \cup again ELSE got

AckTimeout(m) ==
    /\ m \in timers \cap Held(queue)
    /\ \/ queue[m].retries >= MaxRetries /\ Exhaust(m)
       \/ queue[m].retries < MaxRetries /\ Retry(m)
    /\ UNCHANGED <<emitter, sock, owed, acked>>

-----------------------------------------------------------------------------
(* Connections *)

\* flush leaves early, without taking the emitter, when nothing is queued.
Flush(s) ==
    LET due == {m \in Held(queue) : queue[m].conn # s}
    IN IF Held(queue) = {} THEN UNCHANGED <<queue, timers, emitter, sent, got>>
       ELSE /\ emitter' = s
            /\ queue' = Delivered(queue, due, s)
            /\ timers' = timers \cup Arm(queue, due, s)
            /\ Emit(due)
            /\ got' = got \cup due

\* registerConnection
Connect(s) ==
    /\ sock[s].state = "new" /\ \A t \in 1..(s - 1) : sock[t].state # "new"
    /\ sock' = [sock EXCEPT ![s].state = "live"]
    /\ Flush(s)
    /\ UNCHANGED <<owed, acked>>

\* handleDisconnect of the queue: by driver, whichever of his sockets closed.
Disconnect ==
    /\ emitter' = Nobody
    /\ timers' = timers \ Held(queue)
    /\ queue' = [m \in Messages |->
         IF queue[m].status = "in-flight"
         THEN [queue[m] EXCEPT !.status = "pending", !.conn = Nobody] ELSE queue[m]]

\* handleDisconnect of the socket service, once per connection.
Close(s) ==
    /\ Connected(s)
    /\ sock' = [sock EXCEPT ![s] = Closed]
    /\ Disconnect
    /\ UNCHANGED <<owed, sent, got, acked>>

\* The line is cut without a word.  The token of a dead line is not followed: it
\* will be evicted for its missing pongs.
Cut(s) ==
    /\ Live(s)
    /\ sock' = [sock EXCEPT ![s].state = "dead", ![s].expired = FALSE]
    /\ UNCHANGED <<queue, timers, emitter, owed, sent, got, acked>>

\* Mutant: a token that has expired is only looked at when pongs are missing.
StaleByPongs(s) == sock[s].missedPongs + 1 > MaxMissedPongs

Stale(s) == sock[s].missedPongs + 1 > MaxMissedPongs \/ sock[s].expired

\* runHealthCheckTick: each connection owes one pong more; stale ones are closed.
HealthCheckTick ==
    LET on == {s \in Sockets : Connected(s)}
        stale == {s \in on : Stale(s)}
    IN /\ on # {}
       /\ sock' = [s \in Sockets |->
            IF s \in stale THEN Closed
            ELSE IF s \in on THEN [sock[s] EXCEPT !.missedPongs = @ + 1]
            ELSE sock[s]]
       /\ IF stale = {} THEN UNCHANGED <<queue, timers, emitter>> ELSE Disconnect
       /\ UNCHANGED <<owed, sent, got, acked>>

\* handlePong
Pong(s) ==
    /\ Live(s) /\ sock[s].missedPongs > 0
    /\ sock' = [sock EXCEPT ![s].missedPongs = 0]
    /\ UNCHANGED <<queue, timers, emitter, owed, sent, got, acked>>

TokenExpires(s) ==
    /\ Live(s) /\ ~sock[s].expired
    /\ sock' = [sock EXCEPT ![s].expired = TRUE]
    /\ UNCHANGED <<queue, timers, emitter, owed, sent, got, acked>>

\* refresh_token: a good token extends the connection, a bad one closes it (Close).
RefreshToken(s) ==
    /\ Live(s) /\ sock[s].expired
    /\ sock' = [sock EXCEPT ![s].expired = FALSE]
    /\ UNCHANGED <<queue, timers, emitter, owed, sent, got, acked>>

Next ==
    \/ \E m \in Messages :
         \/ \E b \in BOOLEAN : Enqueue(m, b)
         \/ \E s \in Sockets : SendWithAck(m, s) \/ Acknowledge(m, s)
         \/ AckTimeout(m)
    \/ \E s \in Sockets :
         Connect(s) \/ Close(s) \/ Cut(s) \/ Pong(s) \/ TokenExpires(s) \/ RefreshToken(s)
    \/ HealthCheckTick

Spec == Init /\ [][Next]_vars

\* Timers fire, and the health check's interval.
FairSpec ==
    Spec /\ WF_vars(HealthCheckTick) /\ \A m \in Messages : WF_vars(AckTimeout(m))

-----------------------------------------------------------------------------
\* The queue, its timers and the registry keep their shape; the bound holds.
TypeOK ==
    /\ queue \in [Messages -> Message] /\ Cardinality(Held(queue)) <= MaxQueueSize
    /\ timers \subseteq Messages
    /\ emitter \in Sockets \cup {Nobody}
    /\ sock \in [Sockets -> SocketMeta]
    /\ owed \in Seq(BOOLEAN)
    /\ sent \in [Messages -> Nat]
    /\ got \subseteq Messages /\ acked \subseteq Messages

\* A timer is armed for exactly the messages in flight: none is forgotten after
\* an eviction, an acknowledgement or a disconnect, and none waits without one.
TimersMatchFlight ==
    timers = {m \in Messages : queue[m].status = "in-flight"}

\* "never removed until the client ACKs it or a fixed bound evicts it": a message
\* that is neither queued nor acknowledged has MaxQueueSize younger ones.
NothingIsLost ==
    \A m \in DOMAIN owed :
        owed[m] => m \in Held(queue) \cup acked \/ Len(owed) - m >= MaxQueueSize

\* Nothing is emitted into a socket whose disconnect has been handled, whichever
\* of a driver's overlapping sockets took the emitter last, and no retry finds
\* its emitter gone.
EmitterIsConnected ==
    /\ emitter # Nobody => Connected(emitter)
    /\ timers # {} => emitter # Nobody

\* A message is emitted at most once per connection, and MaxRetries times more.
SendBudget ==
    \A m \in Messages :
        sent[m] <= MaxRetries + Cardinality({s \in Sockets : sock[s].state # "new"})

\* Every message in flight is watched: it has a timer and an emitter to be sent
\* again with, and the number of its sends is bounded.
FlightIsWatched == TypeOK /\ TimersMatchFlight /\ EmitterIsConnected /\ SendBudget

\* "an ACKed message is never re-sent", by no timer and no reconnect.
AckedIsNotResent == [][\A m \in acked : sent'[m] = sent[m]]_vars

\* A connection whose line is dead is evicted, and so is one whose token has
\* expired unless it is refreshed, however often the driver answers pings.
GhostsAreEvicted ==
    \A s \in Sockets :
        sock[s].state = "dead" \/ sock[s].expired ~> sock[s].state \in {"live", "closed"} /\ ~sock[s].expired
=============================================================================
