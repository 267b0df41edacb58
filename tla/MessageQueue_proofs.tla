------------------------ MODULE MessageQueue_proofs ------------------------
(***************************************************************************)
(* For any number of messages and sockets, any queue size and any budget:  *)
(* a message that must be acknowledged is lost to the bound only, one that *)
(* is in flight is watched, and one that was acknowledged is not sent      *)
(* again.                                                                  *)
(***************************************************************************)
EXTENDS MessageQueue, FiniteSetTheorems, WellFoundedInduction, TLAPS

\* The sockets the driver has opened.
Opened == {s \in Sockets : sock[s].state # "new"}

\* What has not been enqueued has left no trace.
FutureIsBlank ==
    \A m \in Messages : m > Len(owed) =>
        queue[m].status = "absent" /\ sent[m] = 0 /\ m \notin acked

\* What is held is not acknowledged, and is held for the reason it was enqueued
\* for; what is in flight must be acknowledged.
HeldIsOwed ==
    \A m \in Held(queue) :
        /\ m \notin acked /\ m \in DOMAIN owed /\ queue[m].ackRequired = owed[m]
        /\ queue[m].status = "in-flight" => queue[m].ackRequired

\* Each send is paid for by a retry or by a socket.
SendsArePaid == \A m \in Held(queue) : sent[m] <= queue[m].retries + Cardinality(Opened)

QueueInv ==
    /\ TypeOK /\ FutureIsBlank /\ HeldIsOwed /\ SendsArePaid
    /\ TimersMatchFlight /\ EmitterIsConnected /\ SendBudget /\ NothingIsLost

-----------------------------------------------------------------------------
(* Counting *)

LEMMA MessagesFinite == IsFiniteSet(Messages) /\ IsFiniteSet(Sockets)
  BY FS_Interval, QueueAssumption DEF Messages, Sockets

\* What is held, and what is open, can be counted.
LEMMA HeldFinite ==
    ASSUME NEW q
    PROVE  IsFiniteSet(Held(q)) /\ Cardinality(Held(q)) \in Nat
  BY MessagesFinite, FS_Subset, FS_CardinalityType DEF Held

LEMMA OpenedFinite == IsFiniteSet(Opened) /\ Cardinality(Opened) \in Nat
  BY MessagesFinite, FS_Subset, FS_CardinalityType DEF Opened

\* A queue with fewer messages is no larger.
LEMMA BoundIsKept ==
    ASSUME NEW q, NEW p, Held(p) \subseteq Held(q), Cardinality(Held(q)) <= MaxQueueSize
    PROVE  Cardinality(Held(p)) <= MaxQueueSize
<1>1. Cardinality(Held(p)) <= Cardinality(Held(q))
  BY HeldFinite, FS_Subset
<1>2. Cardinality(Held(p)) \in Nat /\ Cardinality(Held(q)) \in Nat /\ MaxQueueSize \in Nat
  BY HeldFinite, QueueAssumption
<1> QED
  BY <1>1, <1>2

\* A set of numbers that is not empty has a least one.
LEMMA HasOldest ==
    ASSUME NEW S, S \subseteq Nat, S # {}
    PROVE  \E o \in S : \A n \in S : o <= n
<1> DEFINE R == {ss \in Nat \X Nat : ss[1] < ss[2]}
<1>1. IsWellFoundedOn(R, Nat)
  BY NatLessThanWellFounded DEF OpToRel
<1>2. \A x, y \in Nat : x < y => <<x, y>> \in R
  OBVIOUS
<1> HIDE DEF R
<1>3. PICK o \in S : \A n \in S : ~(<<n, o>> \in R)
  BY <1>1, WFMin
<1>4. \A n \in S : n \in Nat /\ o \in Nat /\ ~(n < o)
  BY <1>2, <1>3
<1> QED
  BY <1>4

-----------------------------------------------------------------------------
(* Making room *)

\* enqueue evicts at most the oldest message, only when the queue is full, and
\* leaves room for one more.
LEMMA RoomFacts ==
    ASSUME NEW q \in [Messages -> Message], Cardinality(Held(q)) <= MaxQueueSize
    PROVE  /\ Room(q) \in [Messages -> Message]
           /\ \A m \in Messages : Room(q)[m] = q[m] \/ Room(q)[m].status = "absent"
           /\ Held(Room(q)) \subseteq Held(q)
           /\ Cardinality(Held(Room(q))) < MaxQueueSize
           /\ \A m \in Held(q) \ Held(Room(q)) :
                Cardinality(Held(q)) = MaxQueueSize /\ \A n \in Held(q) : m <= n
<1>a. IsFiniteSet(Held(q)) /\ Cardinality(Held(q)) \in Nat /\ MaxQueueSize \in Nat \ {0}
  BY HeldFinite, QueueAssumption
<1>b. Absent \in Message /\ Absent.status = "absent"
  BY QueueAssumption DEF Absent, Message
<1>1. CASE Cardinality(Held(q)) < MaxQueueSize
  BY <1>1, <1>a DEF Room
<1>2. CASE Cardinality(Held(q)) = MaxQueueSize
  <2>1. Room(q) = [m \in Messages |-> IF \A n \in Held(q) : m <= n THEN Absent ELSE q[m]]
    BY <1>2, <1>a DEF Room
  <2>2. /\ Room(q) \in [Messages -> Message]
        /\ \A m \in Messages : Room(q)[m] = IF \A n \in Held(q) : m <= n THEN Absent ELSE q[m]
    BY <1>b, <2>1
  <2>3. Held(Room(q)) = {m \in Held(q) : ~\A n \in Held(q) : m <= n}
    BY <1>b, <2>2 DEF Held
  <2>4. PICK o \in Held(q) : \A n \in Held(q) : o <= n
    <3>1. Held(q) \subseteq Nat /\ Held(q) # {}
      BY <1>a, <1>2, FS_EmptySet, QueueAssumption DEF Held, Messages
    <3> QED
      BY <3>1, HasOldest
  <2>5. Held(Room(q)) \subseteq Held(q) \ {o}
    BY <2>3, <2>4
  <2>6. IsFiniteSet(Held(q) \ {o}) /\ Cardinality(Held(q) \ {o}) = Cardinality(Held(q)) - 1
    BY <1>a, <2>4, FS_RemoveElement
  <2>7. Cardinality(Held(Room(q))) <= Cardinality(Held(q) \ {o})
    BY <2>5, <2>6, FS_Subset
  <2>8. Cardinality(Held(Room(q))) < MaxQueueSize
    BY <1>2, <1>a, <2>6, <2>7, HeldFinite
  <2> QED
    BY <1>2, <1>b, <2>2, <2>3, <2>8
<1> QED
  BY <1>1, <1>2, <1>a

-----------------------------------------------------------------------------
(* One step of each handler *)

\* What touches the registry only, and closes nothing, disturbs nothing.
LEMMA RegistryStep ==
    ASSUME QueueInv, UNCHANGED <<queue, timers, emitter, owed, sent, got, acked>>,
           sock' \in [Sockets -> SocketMeta],
           \A s \in Sockets : sock[s].state # "new" <=> sock'[s].state # "new",
           \A s \in Sockets : Connected(s) => sock'[s].state \in {"live", "dead"}
    PROVE  QueueInv'
<1>1. Opened' = Opened
  BY DEF Opened
<1>2. Held(queue') = Held(queue)
  BY DEF QueueInv, Held
<1>3. TypeOK' /\ FutureIsBlank' /\ HeldIsOwed' /\ TimersMatchFlight'
  BY <1>2 DEF QueueInv, TypeOK, FutureIsBlank, HeldIsOwed, TimersMatchFlight
<1>4. SendsArePaid' /\ SendBudget'
  BY <1>1, <1>2 DEF QueueInv, SendsArePaid, SendBudget, Opened
<1>5. EmitterIsConnected'
  BY QueueAssumption DEF QueueInv, TypeOK, EmitterIsConnected, Connected
<1>6. NothingIsLost'
  BY <1>2 DEF QueueInv, NothingIsLost
<1> QED
  BY <1>3, <1>4, <1>5, <1>6 DEF QueueInv

\* A disconnect parks what is in flight, with its timer.
LEMMA DisconnectStep ==
    ASSUME QueueInv, Disconnect, UNCHANGED <<owed, sent, got, acked>>,
           sock' \in [Sockets -> SocketMeta],
           \A s \in Sockets : sock[s].state # "new" <=> sock'[s].state # "new"
    PROVE  QueueInv'
<1>1. Opened' = Opened
  BY DEF Opened
<1>2. /\ queue' \in [Messages -> Message]
      /\ \A m \in Messages :
           /\ queue'[m].status = "absent" <=> queue[m].status = "absent"
           /\ queue'[m].status # "in-flight"
           /\ queue'[m].ackRequired = queue[m].ackRequired
           /\ queue'[m].retries = queue[m].retries
  BY QueueAssumption DEF QueueInv, TypeOK, Disconnect, Message
<1>3. Held(queue') = Held(queue)
  BY <1>2 DEF Held
<1>4. timers' = {}
  BY DEF QueueInv, TimersMatchFlight, Disconnect, Held
<1>5. emitter' = Nobody
  BY DEF Disconnect
<1>6. TypeOK'
  BY <1>2, <1>3, <1>4, <1>5 DEF QueueInv, TypeOK
<1>7. FutureIsBlank' /\ HeldIsOwed'
  BY <1>2, <1>3 DEF QueueInv, FutureIsBlank, HeldIsOwed, Held
<1>8. SendsArePaid' /\ SendBudget'
  BY <1>1, <1>2, <1>3 DEF QueueInv, SendsArePaid, SendBudget, Opened, Held
<1>9. TimersMatchFlight' /\ EmitterIsConnected'
  BY <1>2, <1>4, <1>5 DEF TimersMatchFlight, EmitterIsConnected
<1>10. NothingIsLost'
  BY <1>3 DEF QueueInv, NothingIsLost
<1> QED
  BY <1>6, <1>7, <1>8, <1>9, <1>10 DEF QueueInv

\* An acknowledged message leaves the queue, its timer with it.
LEMMA AcknowledgeStep ==
    ASSUME QueueInv, NEW m \in Messages, NEW s \in Sockets, Acknowledge(m, s)
    PROVE  QueueInv'
<1>1. Opened' = Opened
  BY DEF Opened, Acknowledge
<1>2. /\ queue' \in [Messages -> Message]
      /\ \A n \in Messages : n # m => queue'[n] = queue[n]
      /\ queue'[m] = Absent /\ Absent.status = "absent"
      /\ m \in Held(queue)
  BY QueueAssumption DEF QueueInv, TypeOK, Acknowledge, Absent, Message, Held
<1>3. Held(queue') = Held(queue) \ {m}
  BY <1>2 DEF Held
<1>4. Cardinality(Held(queue')) <= MaxQueueSize
  <2>1. Held(queue') \subseteq Held(queue) /\ Cardinality(Held(queue)) <= MaxQueueSize
    BY <1>3 DEF QueueInv, TypeOK
  <2> QED
    BY <2>1, BoundIsKept
<1>5. TypeOK'
  BY <1>2, <1>4 DEF QueueInv, TypeOK, Acknowledge
<1>6. FutureIsBlank'
  BY <1>2 DEF QueueInv, TypeOK, FutureIsBlank, HeldIsOwed, Acknowledge
<1>7. HeldIsOwed' /\ SendsArePaid' /\ SendBudget'
  BY <1>1, <1>2, <1>3 DEF QueueInv, HeldIsOwed, SendsArePaid, SendBudget, Opened, Held, Acknowledge
<1>8. TimersMatchFlight' /\ EmitterIsConnected'
  BY <1>2 DEF QueueInv, TimersMatchFlight, EmitterIsConnected, Connected, Acknowledge
<1>9. NothingIsLost'
  BY <1>3 DEF QueueInv, NothingIsLost, Acknowledge
<1> QED
  BY <1>5, <1>6, <1>7, <1>8, <1>9 DEF QueueInv

\* A message whose budget is spent is kept without a timer.
LEMMA ExhaustStep ==
    ASSUME QueueInv, NEW m \in Messages, AckTimeout(m), Exhaust(m)
    PROVE  QueueInv'
<1>1. Opened' = Opened
  BY DEF Opened, AckTimeout
<1>2. /\ queue' \in [Messages -> Message]
      /\ \A n \in Messages :
           /\ queue'[n].status = "absent" <=> queue[n].status = "absent"
           /\ queue'[n].status = "in-flight" <=> queue[n].status = "in-flight" /\ n # m
           /\ queue'[n].ackRequired = queue[n].ackRequired
           /\ queue'[n].retries = queue[n].retries
  BY DEF QueueInv, TypeOK, AckTimeout, Exhaust, Message, Held
<1>3. Held(queue') = Held(queue)
  BY <1>2 DEF Held
<1>4. TypeOK'
  BY <1>2, <1>3 DEF QueueInv, TypeOK, Exhaust, AckTimeout
<1>5. FutureIsBlank' /\ HeldIsOwed'
  BY <1>2, <1>3 DEF QueueInv, FutureIsBlank, HeldIsOwed, Held, Exhaust, AckTimeout
<1>6. SendsArePaid' /\ SendBudget'
  BY <1>1, <1>2, <1>3 DEF QueueInv, SendsArePaid, SendBudget, Opened, Held, Exhaust, AckTimeout
<1>7. TimersMatchFlight' /\ EmitterIsConnected'
  BY <1>2 DEF QueueInv, TimersMatchFlight, EmitterIsConnected, Connected, Exhaust, AckTimeout
<1>8. NothingIsLost'
  BY <1>3 DEF QueueInv, NothingIsLost, Exhaust, AckTimeout
<1> QED
  BY <1>4, <1>5, <1>6, <1>7, <1>8 DEF QueueInv

\* What is delivered on s: every message keeps its budget; one that must be
\* acknowledged is in flight, the others are gone.
IsDelivery(q, ms, s, p) ==
    /\ p \in [Messages -> Message]
    /\ \A m \in Messages \ ms : p[m] = q[m]
    /\ \A m \in ms :
         /\ q[m].ackRequired =>
              /\ p[m].status = "in-flight" /\ p[m].ackRequired = q[m].ackRequired
              /\ p[m].retries = q[m].retries
         /\ ~q[m].ackRequired => p[m].status = "absent"
    /\ Held(p) = Held(q) \ {m \in ms : ~q[m].ackRequired}
    /\ Arm(q, ms, s) = {m \in ms : q[m].ackRequired}

\* deliver does that.
LEMMA DeliveredFacts ==
    ASSUME NEW q \in [Messages -> Message], NEW ms \in SUBSET Held(q), NEW s \in Sockets,
           NEW p, p = Delivered(q, ms, s)
    PROVE  IsDelivery(q, ms, s, p)
<1>1. ms \subseteq Messages
  BY DEF Held
<1>2. Absent \in Message /\ Absent.status = "absent"
  BY QueueAssumption DEF Absent, Message
<1>3. \A m \in Messages :
        /\ [q[m] EXCEPT !.conn = s, !.status = "in-flight"] \in Message
        /\ [q[m] EXCEPT !.conn = s, !.status = "in-flight"].status = "in-flight"
  BY DEF Message
<1>4. p \in [Messages -> Message]
  BY <1>2, <1>3 DEF Delivered
<1>5. \A m \in Messages \ ms : p[m] = q[m]
  BY DEF Delivered
<1>6. \A m \in ms :
        /\ q[m].ackRequired => p[m] = [q[m] EXCEPT !.conn = s, !.status = "in-flight"]
        /\ ~q[m].ackRequired => p[m] = Absent
  BY <1>1 DEF Delivered
<1>7. Held(p) = Held(q) \ {m \in ms : ~q[m].ackRequired}
  <2>1. \A m \in Messages \ ms : m \in Held(p) <=> m \in Held(q)
    BY <1>5 DEF Held
  <2>2. \A m \in ms : m \in Held(p) <=> q[m].ackRequired
    <3>1. \A m \in ms : q[m].ackRequired => p[m].status = "in-flight"
      BY <1>1, <1>3, <1>6
    <3>2. \A m \in ms : ~q[m].ackRequired => p[m].status = "absent"
      BY <1>2, <1>6
    <3> QED
      BY <1>1, <3>1, <3>2 DEF Held
  <2>3. Held(p) \subseteq Messages /\ Held(q) \subseteq Messages
    BY DEF Held
  <2> QED
    BY <2>1, <2>2, <2>3
<1>8. Arm(q, ms, s) = {m \in ms : q[m].ackRequired}
  <2>1. Arm(q, ms, s) = ms \cap Held(p)
    BY DEF Arm
  <2>2. \A m \in ms : m \in Held(q)
    OBVIOUS
  <2> QED
    BY <1>7, <2>1, <2>2
<1>9. \A m \in ms :
        /\ q[m].ackRequired =>
             /\ p[m].status = "in-flight" /\ p[m].ackRequired = q[m].ackRequired
             /\ p[m].retries = q[m].retries
        /\ ~q[m].ackRequired => p[m].status = "absent"
  <2> SUFFICES ASSUME NEW m \in ms
               PROVE  /\ q[m].ackRequired =>
                           /\ p[m].status = "in-flight" /\ p[m].ackRequired = q[m].ackRequired
                           /\ p[m].retries = q[m].retries
                      /\ ~q[m].ackRequired => p[m].status = "absent"
    OBVIOUS
  <2>1. q[m] \in Message
    BY <1>1
  <2>2. CASE q[m].ackRequired
    <3>1. p[m] = [q[m] EXCEPT !.conn = s, !.status = "in-flight"]
      BY <1>6, <2>2
    <3> QED
      BY <2>1, <2>2, <3>1 DEF Message
  <2>3. CASE ~q[m].ackRequired
    BY <1>2, <1>6, <2>3
  <2> QED
    BY <2>2, <2>3
<1> QED
  BY <1>4, <1>5, <1>7, <1>8, <1>9, Zenon DEF IsDelivery

\* A queue q is in order, and the messages ms of it can be paid for, when the
\* timers t are armed.
Fit(q, ms, t) ==
    /\ owed' \in Seq(BOOLEAN) /\ Cardinality(Held(q)) <= MaxQueueSize
    /\ \A m \in Held(q) :
         /\ m \notin acked /\ m \in DOMAIN owed' /\ q[m].ackRequired = owed'[m]
         /\ q[m].status = "in-flight" => q[m].ackRequired
         /\ sent[m] + (IF m \in ms THEN 1 ELSE 0) <= q[m].retries + Cardinality(Opened')
    /\ \A m \in Messages : m > Len(owed') => sent[m] = 0 /\ m \notin acked
    /\ \A m \in DOMAIN owed' :
         owed'[m] => m \in Held(q) \cup acked \/ Len(owed') - m >= MaxQueueSize
    /\ \A m \in Messages \ ms : m \in t <=> q[m].status = "in-flight"
    /\ \A m \in ms \cap t : q[m].ackRequired

\* The messages ms of a queue that is in order are emitted on s: the timers
\* that are armed are those of the messages that fly, and each emit is paid for.
LEMMA DeliverStep ==
    ASSUME QueueInv,
           NEW q \in [Messages -> Message], NEW ms \in SUBSET Held(q), NEW s \in Sockets,
           NEW t \in SUBSET Messages, Fit(q, ms, t),
           queue' = Delivered(q, ms, s), timers' = t \cup Arm(q, ms, s), emitter' = s, Emit(ms),
           acked' = acked, got' \subseteq Messages,
           sock' \in [Sockets -> SocketMeta], Connected(s)', Opened \subseteq Opened'
    PROVE  QueueInv'
<1>p. PICK p : p = Delivered(q, ms, s)
  OBVIOUS
<1>a. /\ p \in [Messages -> Message]
      /\ \A m \in Messages \ ms : p[m] = q[m]
      /\ \A m \in ms :
           /\ q[m].ackRequired =>
                /\ p[m].status = "in-flight" /\ p[m].ackRequired = q[m].ackRequired
                /\ p[m].retries = q[m].retries
           /\ ~q[m].ackRequired => p[m].status = "absent"
      /\ Held(p) = Held(q) \ {m \in ms : ~q[m].ackRequired}
      /\ Arm(q, ms, s) = {m \in ms : q[m].ackRequired}
  <2>1. IsDelivery(q, ms, s, p)
    BY <1>p, DeliveredFacts
  <2> QED
    BY <2>1 DEF IsDelivery
<1>b. ms \subseteq Messages /\ Held(q) \subseteq Messages
  BY DEF Held
<1>c. queue' = p
  BY <1>p
<1>d. /\ sent \in [Messages -> Nat]
      /\ sent' \in [Messages -> Nat]
      /\ \A m \in Messages : sent'[m] = sent[m] + (IF m \in ms THEN 1 ELSE 0)
  BY DEF QueueInv, TypeOK, Emit
<1>e. /\ Cardinality(Opened) \in Nat /\ Cardinality(Opened') \in Nat
      /\ Cardinality(Opened) <= Cardinality(Opened')
  <2>1. IsFiniteSet(Opened) /\ IsFiniteSet(Opened')
    BY MessagesFinite, FS_Subset DEF Opened
  <2> QED
    BY <2>1, FS_Subset, FS_CardinalityType
<1>2. \A m \in Held(p) :
        /\ m \in Held(q) /\ p[m].ackRequired = q[m].ackRequired /\ p[m].retries = q[m].retries
        /\ p[m].status = "in-flight" => p[m].ackRequired
  BY <1>a, <1>b DEF Fit
<1>3. Cardinality(Held(p)) <= MaxQueueSize
  BY <1>a, BoundIsKept DEF Fit
<1>4. timers' = {m \in Messages : p[m].status = "in-flight"}
  <2>2. timers' = t \cup {m \in ms : q[m].ackRequired}
    BY <1>a
  <2> QED
    <3>1. ASSUME NEW m \in Messages
          PROVE  m \in timers' <=> p[m].status = "in-flight"
      <4>1. CASE m \in ms
        BY <1>a, <2>2, <4>1 DEF Fit
      <4>2. CASE m \notin ms
        BY <1>a, <2>2, <4>2 DEF Fit
      <4> QED
        BY <4>1, <4>2
    <3>2. timers' \subseteq Messages
      BY <1>b, <2>2
    <3> QED
      BY <3>1, <3>2
<1>5. TypeOK'
  BY <1>3, <1>4, <1>a, <1>c, <1>d DEF QueueInv, TypeOK, Fit
<1>6. FutureIsBlank'
  <2> SUFFICES ASSUME NEW m \in Messages, m > Len(owed')
               PROVE  p[m].status = "absent" /\ sent'[m] = 0 /\ m \notin acked
    BY <1>c DEF FutureIsBlank
  <2>1. m \notin DOMAIN owed'
    BY DEF Fit
  <2>2. m \notin Held(q) /\ m \notin ms /\ m \notin Held(p)
    BY <1>2, <2>1 DEF Fit
  <2> QED
    <3>1. p[m].status = "absent"
      BY <2>2 DEF Held
    <3>2. sent[m] = 0 /\ m \notin acked /\ sent'[m] = sent[m] + 0
      BY <1>d, <2>2 DEF Fit
    <3> QED
      BY <3>1, <3>2
<1>7. HeldIsOwed'
  BY <1>2, <1>c DEF HeldIsOwed, Fit
<1>8. SendsArePaid'
  BY <1>2, <1>b, <1>c, <1>d DEF SendsArePaid, Fit
<1>9. TimersMatchFlight'
  BY <1>4, <1>c DEF TimersMatchFlight
<1>10. EmitterIsConnected'
  BY QueueAssumption DEF EmitterIsConnected, Sockets
<1>11. SendBudget'
  <2> SUFFICES ASSUME NEW m \in Messages
               PROVE  sent'[m] <= MaxRetries + Cardinality(Opened')
    BY DEF SendBudget, Opened
  <2>1. CASE m \in Held(q)
    <3>1. q[m].retries \in Nat /\ q[m].retries <= MaxRetries /\ MaxRetries \in Nat
      BY QueueAssumption DEF Message
    <3>2. sent'[m] <= q[m].retries + Cardinality(Opened')
      BY <1>d, <2>1 DEF Fit
    <3> QED
      BY <1>d, <1>e, <3>1, <3>2
  <2>2. CASE m \notin Held(q)
    <3>1. sent'[m] = sent[m] /\ sent[m] <= MaxRetries + Cardinality(Opened)
      BY <1>d, <2>2 DEF QueueInv, SendBudget, Opened
    <3> QED
      BY <1>d, <1>e, <3>1, QueueAssumption
  <2> QED
    BY <2>1, <2>2
<1>12. NothingIsLost'
  <2> SUFFICES ASSUME NEW m \in DOMAIN owed', owed'[m]
               PROVE  m \in Held(p) \cup acked \/ Len(owed') - m >= MaxQueueSize
    BY <1>c DEF NothingIsLost
  <2>1. m \in Held(q) => m \in Held(p)
    BY <1>a DEF Fit
  <2> QED
    BY <2>1 DEF Fit
<1> QED
  BY <1>5, <1>6, <1>7, <1>8, <1>9, <1>10, <1>11, <1>12 DEF QueueInv

\* A message is sent again with one retry more.  Its timer was armed, so there is
\* an emitter.
LEMMA RetryStep ==
    ASSUME QueueInv, NEW m \in Messages, AckTimeout(m), queue[m].retries < MaxRetries, Retry(m)
    PROVE  QueueInv'
<1>1. PICK q : q = [queue EXCEPT ![m].retries = @ + 1]
  OBVIOUS
<1>2. emitter \in Sockets /\ emitter # Nobody /\ Connected(emitter)
  BY DEF QueueInv, TypeOK, EmitterIsConnected, AckTimeout
<1>3. /\ queue' = Delivered(q, {m}, emitter)
      /\ timers' = (timers \ {m}) \cup Arm(q, {m}, emitter)
      /\ Emit({m})
      /\ got' = IF Live(emitter) THEN got \cup {m} ELSE got
  BY <1>1, <1>2, Zenon DEF Retry
<1>4. /\ q \in [Messages -> Message]
      /\ \A n \in Messages :
           /\ q[n].status = queue[n].status /\ q[n].ackRequired = queue[n].ackRequired
           /\ n # m => q[n] = queue[n]
      /\ q[m].retries = queue[m].retries + 1
  <2>1. queue \in [Messages -> Message] /\ queue[m] \in Message
    BY DEF QueueInv, TypeOK
  <2> DEFINE new == [queue[m] EXCEPT !.retries = @ + 1]
  <2>2. /\ new \in Message /\ new.status = queue[m].status
        /\ new.ackRequired = queue[m].ackRequired /\ new.retries = queue[m].retries + 1
    BY <2>1, QueueAssumption DEF Message
  <2>3. q = [queue EXCEPT ![m] = new]
    BY <1>1
  <2> HIDE DEF new
  <2> QED
    BY <2>1, <2>2, <2>3
<1>5. Held(q) = Held(queue) /\ m \in Held(q)
  BY <1>4 DEF Held, AckTimeout
<1>6. Opened' = Opened
  BY DEF Opened, AckTimeout
<1>7. Fit(q, {m}, timers \ {m})
  <2>1. owed' = owed /\ owed \in Seq(BOOLEAN) /\ Cardinality(Held(q)) <= MaxQueueSize
    BY <1>5 DEF QueueInv, TypeOK, AckTimeout
  <2>2. ASSUME NEW n \in Held(q)
        PROVE  /\ n \notin acked /\ n \in DOMAIN owed /\ q[n].ackRequired = owed[n]
               /\ q[n].status = "in-flight" => q[n].ackRequired
    BY <1>4, <1>5 DEF QueueInv, HeldIsOwed, Held
  <2>3. ASSUME NEW n \in Held(q)
        PROVE  sent[n] + (IF n \in {m} THEN 1 ELSE 0) <= q[n].retries + Cardinality(Opened)
    <3>1. sent[n] \in Nat /\ queue[n].retries \in Nat /\ Cardinality(Opened) \in Nat
      BY OpenedFinite DEF QueueInv, TypeOK, Held, Message
    <3>2. sent[n] <= queue[n].retries + Cardinality(Opened)
      BY <1>5 DEF QueueInv, SendsArePaid
    <3>3. q[n].retries = queue[n].retries + (IF n \in {m} THEN 1 ELSE 0)
      BY <1>4, <3>1 DEF Held
    <3> QED
      BY <3>1, <3>2, <3>3
  <2>4. \A n \in Messages : n > Len(owed) => sent[n] = 0 /\ n \notin acked
    BY DEF QueueInv, FutureIsBlank
  <2>5. \A n \in DOMAIN owed :
          owed[n] => n \in Held(q) \cup acked \/ Len(owed) - n >= MaxQueueSize
    BY <1>5 DEF QueueInv, NothingIsLost
  <2>6. \A n \in Messages \ {m} : n \in timers \ {m} <=> q[n].status = "in-flight"
    BY <1>4 DEF QueueInv, TimersMatchFlight
  <2> QED
    BY <1>6, <2>1, <2>2, <2>3, <2>4, <2>5, <2>6 DEF Fit
<1>8. /\ emitter' = emitter /\ acked' = acked /\ got' \subseteq Messages
      /\ sock' \in [Sockets -> SocketMeta] /\ Connected(emitter)'
      /\ timers \ {m} \in SUBSET Messages /\ {m} \in SUBSET Held(q)
  BY <1>2, <1>3, <1>5 DEF QueueInv, TypeOK, AckTimeout, Connected
<1>9. PICK s \in Sockets : s = emitter
  BY <1>2
<1>10. PICK t \in SUBSET Messages : t = timers \ {m}
  BY <1>8
<1>11. Opened \subseteq Opened' /\ Fit(q, {m}, t) /\ Connected(s)'
  BY <1>2, <1>6, <1>7, <1>8, <1>9, <1>10 DEF AckTimeout, Connected
<1> QED
  BY <1>3, <1>4, <1>8, <1>9, <1>10, <1>11, DeliverStep

\* A new socket takes over what is held: each message is sent on it once, and the
\* socket pays for it.
LEMMA ConnectStep ==
    ASSUME QueueInv, NEW s \in Sockets, Connect(s)
    PROVE  QueueInv'
<1>1. /\ sock' \in [Sockets -> SocketMeta] /\ sock'[s].state = "live"
      /\ \A r \in Sockets : r # s => sock'[r] = sock[r]
      /\ sock[s].state = "new"
  BY DEF QueueInv, TypeOK, Connect, SocketMeta
<1>2. Opened' = Opened \cup {s} /\ s \notin Opened
  BY <1>1 DEF Opened
<1>3. Cardinality(Opened') = Cardinality(Opened) + 1
  BY <1>2, OpenedFinite, FS_AddElement
<1>4. CASE Held(queue) = {}
  <2>1. UNCHANGED <<queue, timers, emitter, owed, sent, got, acked>>
    BY <1>4 DEF Connect, Flush
  <2>2. Held(queue') = {} /\ timers = {}
    BY <1>4, <2>1 DEF QueueInv, TimersMatchFlight, Held
  <2>3. TypeOK' /\ FutureIsBlank' /\ TimersMatchFlight'
    BY <1>1, <1>4, <2>1, <2>2 DEF QueueInv, TypeOK, FutureIsBlank, TimersMatchFlight
  <2>4. HeldIsOwed' /\ SendsArePaid' /\ NothingIsLost'
    BY <1>4, <2>1, <2>2 DEF QueueInv, HeldIsOwed, SendsArePaid, NothingIsLost
  <2>5. EmitterIsConnected'
    BY <1>1, <2>1, QueueAssumption DEF QueueInv, TypeOK, EmitterIsConnected, Connected
  <2>6. SendBudget'
    <3> SUFFICES ASSUME NEW m \in Messages
                 PROVE  sent[m] <= MaxRetries + Cardinality(Opened')
      BY <2>1 DEF SendBudget, Opened
    <3>1. sent[m] \in Nat /\ sent[m] <= MaxRetries + Cardinality(Opened)
      BY DEF QueueInv, TypeOK, SendBudget, Opened
    <3> QED
      BY <1>3, <3>1, OpenedFinite, QueueAssumption
  <2> QED
    BY <2>3, <2>4, <2>5, <2>6 DEF QueueInv
<1>5. CASE Held(queue) # {}
  <2>1. PICK due : due = {m \in Held(queue) : queue[m].conn # s}
    OBVIOUS
  <2>2. /\ queue' = Delivered(queue, due, s) /\ timers' = timers \cup Arm(queue, due, s)
        /\ emitter' = s /\ Emit(due) /\ got' = got \cup due
    BY <1>5, <2>1, Zenon DEF Connect, Flush
  <2>3. due \in SUBSET Held(queue) /\ due \subseteq Messages
    BY <2>1 DEF Held
  <2>4. owed' = owed /\ acked' = acked
    BY DEF Connect
  <2>5. Fit(queue, due, timers)
    <3>1. owed \in Seq(BOOLEAN) /\ Cardinality(Held(queue)) <= MaxQueueSize
      BY DEF QueueInv, TypeOK
    <3>2. \A n \in Held(queue) :
            /\ n \notin acked /\ n \in DOMAIN owed /\ queue[n].ackRequired = owed[n]
            /\ queue[n].status = "in-flight" => queue[n].ackRequired
      BY DEF QueueInv, HeldIsOwed
    <3>3. ASSUME NEW n \in Held(queue)
          PROVE  sent[n] + (IF n \in due THEN 1 ELSE 0) <= queue[n].retries + Cardinality(Opened')
      <4>1. sent[n] \in Nat /\ queue[n].retries \in Nat /\ Cardinality(Opened) \in Nat
        BY OpenedFinite DEF QueueInv, TypeOK, Held, Message
      <4>2. sent[n] <= queue[n].retries + Cardinality(Opened)
        BY DEF QueueInv, SendsArePaid
      <4> QED
        BY <1>3, <4>1, <4>2
    <3>4. \A n \in Messages : n > Len(owed) => sent[n] = 0 /\ n \notin acked
      BY DEF QueueInv, FutureIsBlank
    <3>5. \A n \in DOMAIN owed :
            owed[n] => n \in Held(queue) \cup acked \/ Len(owed) - n >= MaxQueueSize
      BY DEF QueueInv, NothingIsLost
    <3>6. /\ \A n \in Messages : n \in timers <=> queue[n].status = "in-flight"
          /\ \A n \in due \cap timers : queue[n].ackRequired
      BY <2>3, <3>2 DEF QueueInv, TimersMatchFlight
    <3> QED
      BY <2>4, <3>1, <3>2, <3>3, <3>4, <3>5, <3>6 DEF Fit
  <2>6. /\ queue \in [Messages -> Message] /\ timers \in SUBSET Messages
        /\ got' \subseteq Messages /\ Connected(s)' /\ Opened \subseteq Opened'
    BY <1>1, <1>2, <2>2, <2>3 DEF QueueInv, TypeOK, Connected
  <2>7. PICK q \in [Messages -> Message] : q = queue
    BY <2>6
  <2>8. PICK t \in SUBSET Messages : t = timers
    BY <2>6
  <2>9. /\ Fit(q, due, t) /\ due \in SUBSET Held(q)
        /\ queue' = Delivered(q, due, s) /\ timers' = t \cup Arm(q, due, s)
    BY <2>2, <2>3, <2>5, <2>7, <2>8
  <2> QED
    BY <1>1, <2>2, <2>4, <2>6, <2>9, DeliverStep
<1> QED
  BY <1>4, <1>5

\* A message that is enqueued finds room, at the price of the oldest when the
\* queue is full; that one has MaxQueueSize younger ones then.
LEMMA EnqueueIsFit ==
    ASSUME QueueInv, NEW m \in Messages, New(m), NEW b \in BOOLEAN, owed' = Append(owed, b),
           Opened' = Opened, NEW q, q = [Room(queue) EXCEPT ![m] = Enqueued(b)],
           NEW ms, ms = {} \/ (ms = {m} /\ Opened # {}),
           NEW t, t = timers \cap Held(Room(queue))
    PROVE  /\ q \in [Messages -> Message] /\ m \in Held(q) /\ t \in SUBSET Messages
           /\ Fit(q, ms, t)
<1>a. queue \in [Messages -> Message] /\ Cardinality(Held(queue)) <= MaxQueueSize
  BY DEF QueueInv, TypeOK
<1>b. PICK r : r = Room(queue)
  OBVIOUS
<1>c. /\ r \in [Messages -> Message]
      /\ \A n \in Messages : r[n] = queue[n] \/ r[n].status = "absent"
      /\ Held(r) \subseteq Held(queue)
      /\ Cardinality(Held(r)) < MaxQueueSize
      /\ \A n \in Held(queue) \ Held(r) :
           Cardinality(Held(queue)) = MaxQueueSize /\ \A o \in Held(queue) : n <= o
  BY <1>a, <1>b, RoomFacts
<1>d. /\ owed \in Seq(BOOLEAN) /\ owed' \in Seq(BOOLEAN)
      /\ Len(owed) \in Nat /\ Len(owed') = Len(owed) + 1 /\ m = Len(owed')
      /\ DOMAIN owed = 1..Len(owed) /\ DOMAIN owed' = 1..Len(owed')
      /\ \A n \in DOMAIN owed : n # m /\ n \in DOMAIN owed' /\ owed'[n] = owed[n]
      /\ owed'[m] = b /\ m \in DOMAIN owed'
  BY DEF QueueInv, TypeOK, New
<1>e. m \notin Held(queue) /\ sent[m] = 0 /\ m \notin acked
  BY <1>d DEF QueueInv, FutureIsBlank, Held, Messages
<1>f. /\ Enqueued(b) \in Message /\ Enqueued(b).status = "pending"
      /\ Enqueued(b).ackRequired = b /\ Enqueued(b).retries = 0
  BY QueueAssumption DEF Enqueued, Message
<1>g. /\ q \in [Messages -> Message] /\ q[m] = Enqueued(b)
      /\ \A n \in Messages : n # m => q[n] = r[n]
  BY <1>b, <1>c, <1>f
<1>1. Held(q) = Held(r) \cup {m} /\ m \notin Held(r)
  BY <1>c, <1>e, <1>f, <1>g DEF Held
<1>2. Cardinality(Held(q)) <= MaxQueueSize
  <2>1. Cardinality(Held(q)) = Cardinality(Held(r)) + 1 /\ Cardinality(Held(r)) \in Nat
    BY <1>1, HeldFinite, FS_AddElement
  <2> QED
    BY <1>c, <2>1, QueueAssumption
<1>3. \A n \in Held(r) : n \in Messages /\ n # m /\ q[n] = queue[n] /\ n \in Held(queue)
  BY <1>c, <1>g, <1>1 DEF Held
<1>4. ASSUME NEW n \in Held(q)
      PROVE  /\ n \notin acked /\ n \in DOMAIN owed' /\ q[n].ackRequired = owed'[n]
             /\ q[n].status = "in-flight" => q[n].ackRequired
  <2>1. CASE n = m
    BY <1>d, <1>e, <1>f, <1>g, <2>1
  <2>2. CASE n # m
    <3>1. n \in Held(r) /\ n \in Held(queue) /\ q[n] = queue[n]
      BY <1>1, <1>3, <2>2
    <3> QED
      BY <1>d, <3>1 DEF QueueInv, HeldIsOwed
  <2> QED
    BY <2>1, <2>2
<1>5. ASSUME NEW n \in Held(q)
      PROVE  sent[n] + (IF n \in ms THEN 1 ELSE 0) <= q[n].retries + Cardinality(Opened)
  <2>1. Cardinality(Opened) \in Nat /\ (Opened # {} => Cardinality(Opened) >= 1)
    BY OpenedFinite, FS_EmptySet
  <2>2. CASE n = m
    BY <1>e, <1>f, <1>g, <2>1, <2>2
  <2>3. CASE n # m
    <3>1. n \in Held(queue) /\ q[n] = queue[n] /\ n \notin ms
      BY <1>1, <1>3, <2>3
    <3>2. sent[n] \in Nat /\ sent[n] <= q[n].retries + Cardinality(Opened)
      BY <3>1 DEF QueueInv, TypeOK, SendsArePaid, Held
    <3> QED
      BY <2>1, <3>1, <3>2
  <2> QED
    BY <2>2, <2>3
<1>6. \A n \in Messages : n > Len(owed') => sent[n] = 0 /\ n \notin acked
  BY <1>d DEF QueueInv, FutureIsBlank, Messages
<1>7. ASSUME NEW n \in DOMAIN owed', owed'[n], n \notin Held(q) \cup acked
      PROVE  Len(owed') - n >= MaxQueueSize
  <2>1. n \in DOMAIN owed /\ owed[n] /\ n \in Nat
    BY <1>1, <1>7, <1>d
  <2>2. CASE n \in Held(queue)
    <3>1. Cardinality(Held(queue)) = MaxQueueSize /\ \A o \in Held(queue) : n <= o
      BY <1>1, <1>7, <1>c, <2>2
    <3>2. Held(queue) \subseteq n..Len(owed)
      <4>1. \A o \in Held(queue) : o \in DOMAIN owed
        BY DEF QueueInv, HeldIsOwed
      <4> QED
        BY <1>d, <2>1, <3>1, <4>1
    <3>3. /\ IsFiniteSet(n..Len(owed))
          /\ Cardinality(n..Len(owed)) = IF n > Len(owed) THEN 0 ELSE Len(owed) - n + 1
      <4>1. n \in Int /\ Len(owed) \in Int
        BY <1>d, <2>1
      <4> QED
        BY <4>1, FS_Interval
    <3>4. Cardinality(Held(queue)) <= Cardinality(n..Len(owed))
      BY <3>2, <3>3, FS_Subset
    <3> QED
      BY <1>d, <2>1, <3>1, <3>3, <3>4, QueueAssumption
  <2>3. CASE n \notin Held(queue)
    <3>1. Len(owed) - n >= MaxQueueSize
      BY <1>7, <2>1, <2>3 DEF QueueInv, NothingIsLost
    <3> QED
      BY <1>d, <2>1, <3>1, QueueAssumption
  <2> QED
    BY <2>2, <2>3
<1>8. /\ t \in SUBSET Messages
      /\ \A n \in Messages : n \in t <=> q[n].status = "in-flight"
  <2>1. timers = {n \in Messages : queue[n].status = "in-flight"} /\ t = timers \cap Held(r)
    BY <1>b DEF QueueInv, TimersMatchFlight
  <2>2. m \notin t /\ q[m].status # "in-flight"
    BY <1>1, <1>f, <1>g, <2>1
  <2>3. ASSUME NEW n \in Messages, n # m
        PROVE  n \in t <=> q[n].status = "in-flight"
    BY <1>c, <1>g, <2>1, <2>3 DEF Held
  <2> QED
    BY <2>1, <2>2, <2>3
<1>9. m \notin t
  BY <1>1, <1>b
<1> QED
  BY <1>1, <1>2, <1>4, <1>5, <1>6, <1>7, <1>8, <1>9, <1>d, <1>g DEF Fit

\* enqueue
LEMMA EnqueueStep ==
    ASSUME QueueInv, NEW m \in Messages, NEW b \in BOOLEAN, Enqueue(m, b)
    PROVE  QueueInv'
<1>1. PICK q : q = [Room(queue) EXCEPT ![m] = Enqueued(b)]
  OBVIOUS
<1>2. PICK t : t = timers \cap Held(Room(queue))
  OBVIOUS
<1>3. /\ queue' = q /\ timers' = t /\ owed' = Append(owed, b) /\ New(m)
      /\ UNCHANGED <<emitter, sock, sent, got, acked>>
  BY <1>1, <1>2 DEF Enqueue
<1>4. Opened' = Opened
  BY <1>3 DEF Opened
<1>5. PICK ms : ms = {}
  OBVIOUS
<1>6. /\ q \in [Messages -> Message] /\ m \in Held(q) /\ t \in SUBSET Messages
      /\ Fit(q, ms, t)
  BY <1>1, <1>2, <1>3, <1>4, <1>5, EnqueueIsFit
<1>7. TypeOK'
  BY <1>3, <1>6 DEF QueueInv, TypeOK, Fit
<1>8. FutureIsBlank' /\ HeldIsOwed'
  <2>1. \A n \in Messages : n > Len(owed') => n \notin DOMAIN owed'
    BY <1>6 DEF Fit
  <2> QED
    BY <1>3, <1>6, <2>1 DEF Fit, FutureIsBlank, HeldIsOwed, Held
<1>9. SendsArePaid'
  <2>1. \A n \in Held(q) : sent[n] \in Nat /\ sent[n] + 0 <= q[n].retries + Cardinality(Opened')
    BY <1>5, <1>6 DEF Fit, QueueInv, TypeOK, Held
  <2> QED
    BY <1>3, <2>1 DEF SendsArePaid
<1>10. TimersMatchFlight'
  BY <1>3, <1>5, <1>6 DEF Fit, TimersMatchFlight
<1>11. EmitterIsConnected'
  BY <1>2, <1>3 DEF QueueInv, EmitterIsConnected, Connected
<1>12. SendBudget'
  BY <1>3, <1>4 DEF QueueInv, SendBudget, Opened
<1>13. NothingIsLost'
  BY <1>3, <1>6 DEF Fit, NothingIsLost
<1> QED
  BY <1>7, <1>8, <1>9, <1>10, <1>11, <1>12, <1>13 DEF QueueInv

\* sendWithAck
LEMMA SendStep ==
    ASSUME QueueInv, NEW m \in Messages, NEW s \in Sockets, SendWithAck(m, s)
    PROVE  QueueInv'
<1>1. PICK q : q = [Room(queue) EXCEPT ![m] = Enqueued(TRUE)]
  OBVIOUS
<1>2. PICK t : t = timers \cap Held(Room(queue))
  OBVIOUS
<1>3. /\ queue' = Delivered(q, {m}, s) /\ timers' = t \cup Arm(q, {m}, s)
      /\ emitter' = s /\ Emit({m}) /\ owed' = Append(owed, TRUE) /\ New(m) /\ Connected(s)
      /\ got' = IF Live(s) THEN got \cup {m} ELSE got
      /\ UNCHANGED <<sock, acked>>
  BY <1>1, <1>2, Zenon DEF SendWithAck
<1>4. Opened' = Opened /\ Opened # {}
  BY <1>3 DEF Opened, Connected
<1>5. PICK ms : ms = {m}
  OBVIOUS
<1>6. /\ q \in [Messages -> Message] /\ m \in Held(q) /\ t \in SUBSET Messages
      /\ Fit(q, ms, t)
  BY <1>1, <1>2, <1>3, <1>4, <1>5, EnqueueIsFit
<1>7. /\ ms \in SUBSET Held(q) /\ got' \subseteq Messages
      /\ sock' \in [Sockets -> SocketMeta] /\ Connected(s)' /\ Opened \subseteq Opened'
      /\ queue' = Delivered(q, ms, s) /\ timers' = t \cup Arm(q, ms, s) /\ Emit(ms)
  BY <1>3, <1>4, <1>5, <1>6 DEF QueueInv, TypeOK, Connected
<1> QED
  BY <1>3, <1>6, <1>7, DeliverStep

\* The health check evicts what is stale and counts a pong owed by the others.
LEMMA HealthCheckStep ==
    ASSUME QueueInv, HealthCheckTick
    PROVE  QueueInv'
<1>1. PICK on : on = {s \in Sockets : Connected(s)}
  OBVIOUS
<1>2. PICK stale : stale = {s \in on : Stale(s)}
  OBVIOUS
<1>3. /\ sock' = [s \in Sockets |->
            IF s \in stale THEN Closed
            ELSE IF s \in on THEN [sock[s] EXCEPT !.missedPongs = @ + 1]
            ELSE sock[s]]
      /\ IF stale = {} THEN UNCHANGED <<queue, timers, emitter>> ELSE Disconnect
      /\ UNCHANGED <<owed, sent, got, acked>>
  BY <1>1, <1>2, Zenon DEF HealthCheckTick
<1>4. ASSUME NEW s \in Sockets
      PROVE  /\ sock'[s] \in SocketMeta
             /\ sock[s].state # "new" <=> sock'[s].state # "new"
             /\ s \notin stale => sock'[s].state = sock[s].state
  <2>1. sock[s] \in SocketMeta
    BY DEF QueueInv, TypeOK
  <2>2. CASE s \in stale
    BY <1>1, <1>2, <1>3, <2>2, QueueAssumption DEF Closed, SocketMeta, Connected
  <2>3. CASE s \in on \ stale
    <3> DEFINE new == [sock[s] EXCEPT !.missedPongs = @ + 1]
    <3>1. sock'[s] = new
      BY <1>3, <2>3
    <3>2. sock[s].missedPongs + 1 <= MaxMissedPongs
      BY <1>2, <2>1, <2>3, QueueAssumption DEF Stale, SocketMeta
    <3>3. new \in SocketMeta /\ new.state = sock[s].state
      BY <2>1, <3>2, QueueAssumption DEF SocketMeta
    <3> QED
      BY <3>1, <3>3
  <2>4. CASE s \notin on
    BY <1>2, <1>3, <2>1, <2>4
  <2> QED
    BY <2>2, <2>3, <2>4
<1>5. sock' \in [Sockets -> SocketMeta]
  <2>1. DOMAIN sock' = Sockets /\ sock' = [s \in DOMAIN sock' |-> sock'[s]]
    BY <1>3
  <2> QED
    BY <1>4, <2>1
<1>6. CASE stale = {}
  <2>1. \A s \in Sockets : Connected(s) => sock'[s].state \in {"live", "dead"}
    BY <1>4, <1>6 DEF Connected
  <2> QED
    BY <1>3, <1>4, <1>5, <1>6, <2>1, RegistryStep
<1>7. CASE stale # {}
  BY <1>3, <1>4, <1>5, <1>7, DisconnectStep
<1> QED
  BY <1>6, <1>7

-----------------------------------------------------------------------------
(* The invariant *)

LEMMA QueueInit == Init => QueueInv
<1> SUFFICES ASSUME Init
             PROVE  QueueInv
  OBVIOUS
<1>1. Absent \in Message /\ Absent.status = "absent"
  BY QueueAssumption DEF Absent, Message
<1>2. queue \in [Messages -> Message] /\ \A m \in Messages : queue[m].status = "absent"
  BY <1>1 DEF Init
<1>3. Held(queue) = {}
  BY <1>2 DEF Held
<1>4. Cardinality(Held(queue)) <= MaxQueueSize
  BY <1>3, FS_EmptySet, QueueAssumption
<1>5. sock \in [Sockets -> SocketMeta]
  BY QueueAssumption DEF Init, SocketMeta
<1>6. TypeOK
  BY <1>2, <1>4, <1>5 DEF Init, TypeOK
<1>7. FutureIsBlank /\ HeldIsOwed /\ SendsArePaid /\ NothingIsLost
  BY <1>2, <1>3 DEF Init, FutureIsBlank, HeldIsOwed, SendsArePaid, NothingIsLost
<1>8. TimersMatchFlight /\ EmitterIsConnected
  BY <1>2 DEF Init, TimersMatchFlight, EmitterIsConnected
<1>9. SendBudget
  BY OpenedFinite, QueueAssumption DEF Init, SendBudget, Opened
<1> QED
  BY <1>6, <1>7, <1>8, <1>9 DEF QueueInv

LEMMA QueueNext == QueueInv /\ [Next]_vars => QueueInv'
<1> SUFFICES ASSUME QueueInv, [Next]_vars
             PROVE  QueueInv'
  OBVIOUS
<1>1. ASSUME NEW m \in Messages, NEW b \in BOOLEAN, Enqueue(m, b)
      PROVE  QueueInv'
  BY <1>1, EnqueueStep
<1>2. ASSUME NEW m \in Messages, NEW s \in Sockets, SendWithAck(m, s) \/ Acknowledge(m, s)
      PROVE  QueueInv'
  BY <1>2, SendStep, AcknowledgeStep
<1>3. ASSUME NEW m \in Messages, AckTimeout(m)
      PROVE  QueueInv'
  <2>1. Exhaust(m) \/ (queue[m].retries < MaxRetries /\ Retry(m))
    BY <1>3 DEF AckTimeout
  <2> QED
    BY <1>3, <2>1, ExhaustStep, RetryStep
<1>4. ASSUME NEW s \in Sockets, Close(s)
      PROVE  QueueInv'
  <2>1. /\ sock' \in [Sockets -> SocketMeta]
        /\ \A r \in Sockets : sock[r].state # "new" <=> sock'[r].state # "new"
    BY <1>4, QueueAssumption DEF QueueInv, TypeOK, Close, Connected, Closed, SocketMeta
  <2> QED
    BY <1>4, <2>1, DisconnectStep DEF Close
<1>5. ASSUME NEW s \in Sockets, Cut(s) \/ Pong(s) \/ TokenExpires(s) \/ RefreshToken(s)
      PROVE  QueueInv'
  <2>1. UNCHANGED <<queue, timers, emitter, owed, sent, got, acked>>
    BY <1>5 DEF Cut, Pong, TokenExpires, RefreshToken
  <2>2. /\ sock' \in [Sockets -> SocketMeta]
        /\ \A r \in Sockets : sock[r].state # "new" <=> sock'[r].state # "new"
        /\ \A r \in Sockets : Connected(r) => sock'[r].state \in {"live", "dead"}
    <3>1. sock \in [Sockets -> SocketMeta] /\ sock[s] \in SocketMeta /\ Live(s)
      BY <1>5 DEF QueueInv, TypeOK, Cut, Pong, TokenExpires, RefreshToken
    <3>2. PICK new \in SocketMeta : /\ sock' = [sock EXCEPT ![s] = new]
                                    /\ new.state \in {"live", "dead"}
      <4>1. /\ [sock[s] EXCEPT !.state = "dead", !.expired = FALSE] \in SocketMeta
            /\ [sock[s] EXCEPT !.state = "dead", !.expired = FALSE].state = "dead"
        BY <3>1 DEF SocketMeta
      <4>2. /\ [sock[s] EXCEPT !.missedPongs = 0] \in SocketMeta
            /\ [sock[s] EXCEPT !.missedPongs = 0].state = "live"
        BY <3>1, QueueAssumption DEF SocketMeta, Live
      <4>3. \A b \in BOOLEAN : /\ [sock[s] EXCEPT !.expired = b] \in SocketMeta
                              /\ [sock[s] EXCEPT !.expired = b].state = "live"
        BY <3>1 DEF SocketMeta, Live
      <4>4. CASE Cut(s)
        BY <4>1, <4>4 DEF Cut
      <4>5. CASE Pong(s)
        BY <4>2, <4>5 DEF Pong
      <4>6. CASE TokenExpires(s)
        BY <4>3, <4>6 DEF TokenExpires
      <4>7. CASE RefreshToken(s)
        BY <4>3, <4>7 DEF RefreshToken
      <4> QED
        BY <1>5, <4>4, <4>5, <4>6, <4>7
    <3> QED
      BY <3>1, <3>2 DEF Live, Connected
  <2> QED
    BY <2>1, <2>2, RegistryStep
<1>6. CASE UNCHANGED vars
  BY <1>6 DEF vars, QueueInv, TypeOK, FutureIsBlank, HeldIsOwed, SendsArePaid, TimersMatchFlight,
              EmitterIsConnected, Connected, SendBudget, NothingIsLost, Held, Opened
<1> QED
  BY <1>1, <1>2, <1>3, <1>4, <1>5, <1>6, ConnectStep, HealthCheckStep DEF Next

LEMMA QueueIsInOrder == Spec => []QueueInv
  BY QueueInit, QueueNext, PTL DEF Spec

\* handleAckTimeout, flush, enqueue and handleDisconnect keep, for every message
\* in flight, one timer and an emitter on an open socket; no message is emitted
\* more often than its retries and the driver's sockets allow.
THEOREM EveryFlightIsWatched == Spec => []FlightIsWatched
<1>1. QueueInv => FlightIsWatched
  BY DEF QueueInv, FlightIsWatched
<1> QED
  BY <1>1, QueueIsInOrder, PTL

\* A message that must be acknowledged is held until it is, or until
\* MaxQueueSize younger ones have been enqueued.
THEOREM OnlyTheBoundLoses == Spec => []NothingIsLost
<1>1. QueueInv => NothingIsLost
  BY DEF QueueInv
<1> QED
  BY <1>1, QueueIsInOrder, PTL

\* No timer and no reconnect sends a message that has been acknowledged.
THEOREM AcknowledgedStaysQuiet == Spec => AckedIsNotResent
<1>1. ASSUME QueueInv, [Next]_vars
      PROVE  [\A m \in acked : sent'[m] = sent[m]]_vars
  <2> SUFFICES ASSUME NEW m \in acked, Next
               PROVE  sent'[m] = sent[m]
    BY <1>1
  <2>0. m \in Messages /\ m \notin Held(queue) /\ ~New(m)
    BY <1>1 DEF QueueInv, TypeOK, HeldIsOwed, FutureIsBlank, New, Messages
  <2>1. ASSUME NEW ms, Emit(ms), m \notin ms
        PROVE  sent'[m] = sent[m]
    BY <2>0, <2>1 DEF Emit
  <2>2. ASSUME NEW n \in Messages, NEW s \in Sockets, SendWithAck(n, s)
        PROVE  sent'[m] = sent[m]
    <3>1. Emit({n}) /\ n # m
      BY <2>0, <2>2 DEF SendWithAck
    <3> QED
      BY <2>1, <3>1
  <2>3. ASSUME NEW n \in Messages, AckTimeout(n)
        PROVE  sent'[m] = sent[m]
    <3>1. n # m
      BY <2>0, <2>3 DEF AckTimeout
    <3>2. UNCHANGED sent \/ Emit(IF emitter = Nobody THEN {} ELSE {n})
      BY <2>3 DEF AckTimeout, Exhaust, Retry
    <3> QED
      BY <2>1, <3>1, <3>2
  <2>4. ASSUME NEW s \in Sockets, Connect(s)
        PROVE  sent'[m] = sent[m]
    <3>1. UNCHANGED sent \/ Emit({n \in Held(queue) : queue[n].conn # s})
      BY <2>4 DEF Connect, Flush
    <3> QED
      BY <2>0, <2>1, <3>1
  <2>5. ASSUME UNCHANGED sent
        PROVE  sent'[m] = sent[m]
    BY <2>5
  <2> QED
    BY <2>2, <2>3, <2>4, <2>5
    DEF Next, Enqueue, Acknowledge, Close, Cut, Pong, TokenExpires, RefreshToken, HealthCheckTick
<1> QED
  BY <1>1, QueueIsInOrder, PTL DEF Spec, AckedIsNotResent
=============================================================================
