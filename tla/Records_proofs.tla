--------------------------- MODULE Records_proofs ---------------------------
(***************************************************************************)
(* What racing writers put on record under a unique key, for any number of *)
(* writers, requests, attempts and faults:                                 *)
(*   - the milestone log of a delivery is a sequence to which each         *)
(*     milestone is appended at most once;                                 *)
(*   - while Redis works the handler of an idempotency key runs once, and  *)
(*     a response on record in Mongo is never recomputed.                  *)
(* Last, the services together: what each of them keeps alone it keeps     *)
(* beside the others, and so all their state keeps its shape.              *)
(***************************************************************************)
EXTENDS Services_proofs, Workflows_proofs, SequenceTheorems, TLAPS

-----------------------------------------------------------------------------
(* Milestones *)

\* What is known of the log alone: each one is a sequence, and only a writer
\* that got past its insert is in it.
LogInv ==
    /\ log \in [Deliveries -> Seq(Writers)]
    /\ \A d \in Deliveries : \A i \in DOMAIN log[d] : pc[log[d][i]] \in {"recorded", "done"}

\* What a writer knows of its delivery's log.  The number it computed from an
\* old read is at most one past the end, for logs only grow; and each failed
\* attempt was beaten by a milestone that is still there.
WriterInv(w) ==
    LET n == Len(log[Target[w]])
    IN /\ pc[w] = "read" => attempt[w] >= 1 /\ attempt[w] <= n + 1
       /\ pc[w] = "insert" => /\ attempt[w] >= 1 /\ attempt[w] <= seq[w]
                              /\ seq[w] >= 1 /\ seq[w] <= n + 1
       /\ pc[w] = "lost" => MaxAttempts <= n
       /\ pc[w] = "recorded" => seq[w] \in 1..n /\ log[Target[w]][seq[w]] = w
       /\ told[w] # 0 => told[w] \in 1..n /\ log[Target[w]][told[w]] = w

Types ==
    /\ pc \in [Writers -> Pcs]
    /\ attempt \in [Writers -> 0..MaxAttempts]
    /\ seq \in [Writers -> Nat]
    /\ told \in [Writers -> Nat]

IInv == Types /\ LogInv /\ \A w \in Writers : WriterInv(w)

-----------------------------------------------------------------------------
\* Sorting by seq descending finds the length of the sequence.
LEMMA LastSeqIsLen ==
    ASSUME NEW d \in Deliveries, log[d] \in Seq(Writers)
    PROVE  LastSeq(d) = Len(log[d])
<1>1. DOMAIN log[d] = 1..Len(log[d]) /\ Len(log[d]) \in Nat
  OBVIOUS
<1>2. CASE Len(log[d]) = 0
  BY <1>1, <1>2 DEF LastSeq
<1>3. CASE Len(log[d]) # 0
  <2>1. Len(log[d]) \in DOMAIN log[d] /\ \A i \in DOMAIN log[d] : i <= Len(log[d])
    BY <1>1, <1>3
  <2>2. \A n \in DOMAIN log[d] :
           (\A i \in DOMAIN log[d] : i <= n) => n = Len(log[d])
    BY <1>1, <2>1
  <2> QED
    BY <2>1, <2>2 DEF LastSeq
<1> QED
  BY <1>2, <1>3

\* The insert of a number that is free and at most one past the end is an
\* append.
LEMMA InsertAppends ==
    ASSUME NEW s \in Seq(Writers), NEW n \in Nat, NEW w \in Writers,
           n >= 1, n <= Len(s) + 1, n \notin DOMAIN s
    PROVE  /\ n = Len(s) + 1
           /\ [i \in DOMAIN s \cup {n} |-> IF i = n THEN w ELSE s[i]] = Append(s, w)
<1> DEFINE t == [i \in DOMAIN s \cup {n} |-> IF i = n THEN w ELSE s[i]]
<1>1. DOMAIN s = 1..Len(s) /\ Len(s) \in Nat
  OBVIOUS
<1>2. n = Len(s) + 1
  BY <1>1
<1>3. DOMAIN s \cup {n} = 1..(Len(s) + 1)
  BY <1>1, <1>2
<1>4. t \in Seq(Writers) /\ Len(t) = Len(s) + 1
  <2>1. t \in [1..(Len(s) + 1) -> Writers]
    BY <1>1, <1>3
  <2>2. Len(s) + 1 \in Nat
    BY <1>1
  <2>3. t \in Seq(Writers)
    BY <2>1, <2>2, SeqDef
  <2> QED
    BY <2>1, <2>2, <2>3, LenProperties
<1>5. \A i \in 1..Len(t) : t[i] = Append(s, w)[i]
  <2>1. /\ \A i \in 1..Len(s) : Append(s, w)[i] = s[i]
        /\ Append(s, w)[Len(s) + 1] = w
    BY AppendProperties
  <2>2. \A i \in 1..Len(s) : i # n /\ i \in DOMAIN s \cup {n}
    BY <1>1, <1>2
  <2>3. \A i \in 1..Len(s) : t[i] = s[i]
    BY <2>2
  <2>4. t[n] = w
    OBVIOUS
  <2> HIDE DEF t
  <2>5. \A i \in 1..Len(t) : i \in 1..Len(s) \/ i = n
    BY <1>1, <1>2, <1>4
  <2> QED
    BY <1>2, <2>1, <2>3, <2>4, <2>5
<1>6. t = Append(s, w)
  <2> HIDE DEF t
  <2>1. Append(s, w) \in Seq(Writers) /\ Len(Append(s, w)) = Len(s) + 1
    BY AppendProperties
  <2> QED
    BY <1>4, <1>5, <2>1, SeqEqual
<1> QED
  BY <1>2, <1>6

LEMMA InitIInv == MilestoneInit => IInv
<1> SUFFICES ASSUME MilestoneInit PROVE IInv
  OBVIOUS
<1>1. Types
  BY LogAssumption DEF MilestoneInit, Types, Pcs
<1>2. LogInv
  BY DEF MilestoneInit, LogInv
<1>3. \A w \in Writers : WriterInv(w)
  BY LogAssumption DEF MilestoneInit, WriterInv
<1> QED
  BY <1>1, <1>2, <1>3 DEF IInv

\* A step of writer w that leaves the log alone keeps everything that is known
\* of the others.
LEMMA OthersKeep ==
    ASSUME IInv, NEW w \in Writers, UNCHANGED log, Types',
           pc[w] \notin {"recorded", "done"} \/ pc'[w] \in {"recorded", "done"},
           \A v \in Writers \ {w} :
               /\ pc'[v] = pc[v] /\ attempt'[v] = attempt[v]
               /\ seq'[v] = seq[v] /\ told'[v] = told[v],
           WriterInv(w)'
    PROVE  IInv'
<1>1. LogInv'
  <2>1. log' \in [Deliveries -> Seq(Writers)]
    BY DEF IInv, LogInv
  <2>2. ASSUME NEW d \in Deliveries, NEW i \in DOMAIN log[d]
        PROVE  pc'[log[d][i]] \in {"recorded", "done"}
    <3>1. log[d][i] \in Writers /\ pc[log[d][i]] \in {"recorded", "done"}
      BY DEF IInv, LogInv
    <3> QED
      BY <3>1
  <2> QED
    BY <2>1, <2>2 DEF LogInv
<1>2. ASSUME NEW v \in Writers, v # w
      PROVE  WriterInv(v)'
  BY <1>2 DEF IInv, WriterInv
<1> QED
  BY <1>1, <1>2 DEF IInv

LEMMA StepIInv == IInv /\ [MilestoneStep]_milestoneVars => IInv'
<1> SUFFICES ASSUME IInv, [MilestoneStep]_milestoneVars PROVE IInv'
  OBVIOUS
<1> USE LogAssumption
<1>1. ASSUME NEW w \in Writers, Emit(w) PROVE IInv'
  <2>1. Types'
    BY <1>1 DEF Emit, IInv, Types, Pcs
  <2>2. WriterInv(w)'
    BY <1>1 DEF Emit, IInv, Types, LogInv, WriterInv
  <2> QED
    BY <1>1, <2>1, <2>2, OthersKeep DEF Emit, IInv, Types
<1>2. ASSUME NEW w \in Writers, GetLastSeq(w) PROVE IInv'
  <2>0. LastSeq(Target[w]) = Len(log[Target[w]]) /\ Len(log[Target[w]]) \in Nat
    BY LastSeqIsLen DEF IInv, LogInv
  <2>1. Types'
    BY <1>2, <2>0 DEF GetLastSeq, IInv, Types, Pcs
  <2>2. WriterInv(w)'
    <3>1. /\ pc'[w] = "insert" /\ seq'[w] = Len(log[Target[w]]) + 1
          /\ log' = log /\ attempt'[w] = attempt[w] /\ told'[w] = told[w]
      BY <1>2, <2>0 DEF GetLastSeq, IInv, Types
    <3>2. attempt[w] \in Nat /\ attempt[w] >= 1 /\ attempt[w] <= Len(log[Target[w]]) + 1
      BY <1>2 DEF GetLastSeq, IInv, Types, WriterInv
    <3>3. told[w] # 0 => /\ told[w] \in 1..Len(log[Target[w]])
                         /\ log[Target[w]][told[w]] = w
      BY DEF IInv, WriterInv
    <3> QED
      BY <2>0, <3>1, <3>2, <3>3 DEF WriterInv
  <2> QED
    BY <1>2, <2>1, <2>2, OthersKeep DEF GetLastSeq, IInv, Types
<1>3. ASSUME NEW w \in Writers, Insert(w) PROVE IInv'
  <2> DEFINE d == Target[w]
             s == log[d]
  <2>1. d \in Deliveries /\ s \in Seq(Writers)
    BY DEF IInv, LogInv
  <2>2. /\ seq[w] = Len(s) + 1
        /\ log' = [log EXCEPT ![d] = Append(s, w)]
    <3>1. seq[w] \in Nat /\ seq[w] >= 1 /\ seq[w] <= Len(s) + 1 /\ seq[w] \notin DOMAIN s
      BY <1>3 DEF Insert, DuplicateKey, IInv, Types, WriterInv
    <3> QED
      BY <1>3, <2>1, <3>1, InsertAppends DEF Insert
  <2>3. Types'
    BY <1>3 DEF Insert, IInv, Types, Pcs
  <2>4. log' \in [Deliveries -> Seq(Writers)]
    BY <2>1, <2>2 DEF IInv, LogInv
  <2>5. ASSUME NEW e \in Deliveries, NEW i \in DOMAIN log'[e]
        PROVE  pc'[log'[e][i]] \in {"recorded", "done"}
    <3>1. log \in [Deliveries -> Seq(Writers)] /\ pc \in [Writers -> Pcs]
      BY DEF IInv, LogInv, Types
    <3>2. pc' = [pc EXCEPT ![w] = "recorded"]
      BY <1>3 DEF Insert
    <3>3. CASE i \in DOMAIN log[e] /\ log'[e][i] = log[e][i]
      <4>1. log[e][i] \in Writers /\ pc[log[e][i]] \in {"recorded", "done"}
        BY <3>1, <3>3 DEF IInv, LogInv
      <4> QED
        BY <3>1, <3>2, <3>3, <4>1
    <3>4. CASE log'[e][i] = w
      BY <3>1, <3>2, <3>4
    <3> QED
      BY <2>1, <2>2, <3>1, <3>3, <3>4
  <2>6. ASSUME NEW v \in Writers PROVE WriterInv(v)'
    <3>0. log \in [Deliveries -> Seq(Writers)] /\ Target[v] \in Deliveries
      BY DEF IInv, LogInv
    <3>1. /\ Len(log[Target[v]]) \in Nat /\ Len(log'[Target[v]]) \in Nat
          /\ Len(log[Target[v]]) <= Len(log'[Target[v]])
          /\ \A i \in 1..Len(log[Target[v]]) : log'[Target[v]][i] = log[Target[v]][i]
      BY <2>1, <2>2, <3>0
    <3>2. CASE v = w
      <4>1. Len(log'[d]) = Len(s) + 1 /\ log'[d][Len(s) + 1] = w
        BY <2>1, <2>2, <3>0
      <4>2. pc'[w] = "recorded" /\ seq'[w] = seq[w] /\ told'[w] = told[w]
        BY <1>3 DEF Insert, IInv, Types
      <4> QED
        BY <2>2, <3>1, <3>2, <4>1, <4>2 DEF IInv, WriterInv, Types
    <3>3. CASE v # w
      <4>1. /\ pc'[v] = pc[v] /\ attempt'[v] = attempt[v]
            /\ seq'[v] = seq[v] /\ told'[v] = told[v]
        BY <1>3, <3>3 DEF Insert, IInv, Types
      <4>2. attempt[v] \in Nat /\ seq[v] \in Nat /\ told[v] \in Nat /\ MaxAttempts \in Nat
        BY DEF IInv, Types
      <4>3. WriterInv(v)
        BY DEF IInv
      <4> QED
        BY <3>1, <4>1, <4>2, <4>3 DEF WriterInv
    <3> QED
      BY <3>2, <3>3
  <2> QED
    BY <2>3, <2>4, <2>5, <2>6 DEF IInv, LogInv
<1>4. ASSUME NEW w \in Writers, Collide(w) PROVE IInv'
  <2>0. log \in [Deliveries -> Seq(Writers)] /\ Target[w] \in Deliveries
    BY DEF IInv, LogInv
  <2>1. Types'
    BY <1>4 DEF Collide, LastAttempt, IInv, Types, Pcs
  <2>2. seq[w] \in 1..Len(log[Target[w]])
    BY <1>4, <2>0 DEF Collide, DuplicateKey
  <2>3. WriterInv(w)'
    <3>1. log' = log /\ seq'[w] = seq[w] /\ told'[w] = told[w]
      BY <1>4 DEF Collide
    <3>2. attempt[w] \in Nat /\ attempt[w] >= 1 /\ attempt[w] <= seq[w]
      BY <1>4 DEF Collide, IInv, Types, WriterInv
    <3>3. told[w] # 0 => /\ told[w] \in 1..Len(log[Target[w]])
                         /\ log[Target[w]][told[w]] = w
      BY DEF IInv, WriterInv
    <3>4. Len(log[Target[w]]) \in Nat
      BY <2>0
    <3>5. CASE LastAttempt(w)
      <4>1. pc'[w] = "lost" /\ attempt[w] >= MaxAttempts
        BY <1>4, <3>5 DEF Collide, LastAttempt, IInv, Types
      <4> QED
        BY <2>2, <3>1, <3>2, <3>3, <3>4, <4>1 DEF WriterInv
    <3>6. CASE ~LastAttempt(w)
      <4>1. pc'[w] = "read" /\ attempt'[w] = attempt[w] + 1
        BY <1>4, <3>6 DEF Collide, IInv, Types
      <4> QED
        BY <2>2, <3>1, <3>2, <3>3, <3>4, <4>1 DEF WriterInv
    <3> QED
      BY <3>5, <3>6
  <2> QED
    BY <1>4, <2>1, <2>3, OthersKeep DEF Collide, IInv, Types
<1>5. ASSUME NEW w \in Writers, Throw(w) PROVE IInv'
  <2>1. Types'
    BY <1>5 DEF Throw, IInv, Types, Pcs
  <2>2. WriterInv(w)'
    BY <1>5 DEF Throw, IInv, Types, WriterInv
  <2> QED
    BY <1>5, <2>1, <2>2, OthersKeep DEF Throw, IInv, Types
<1>6. ASSUME NEW w \in Writers, Consumers(w) PROVE IInv'
  <2>1. Types'
    BY <1>6 DEF Consumers, IInv, Types, Pcs
  <2>2. WriterInv(w)'
    BY <1>6 DEF Consumers, IInv, Types, WriterInv
  <2> QED
    BY <1>6, <2>1, <2>2, OthersKeep DEF Consumers, IInv, Types
<1>7. CASE UNCHANGED milestoneVars
  BY <1>7 DEF milestoneVars, IInv, Types, LogInv, WriterInv
<1> QED
  BY <1>1, <1>2, <1>3, <1>4, <1>5, <1>6, <1>7 DEF MilestoneStep

LEMMA Invariant == MilestoneSpec => []IInv
BY InitIInv, StepIInv, PTL DEF MilestoneSpec

-----------------------------------------------------------------------------
\* DeliveryEventRepository.append keeps every record and counter in its range.
THEOREM MilestoneTypes == MilestoneSpec => []MilestoneTypeOK
<1>1. IInv => MilestoneTypeOK
  BY DEF IInv, Types, LogInv, MilestoneTypeOK
<1> QED
  BY <1>1, Invariant, PTL

\* The numbers of a delivery's milestones are gapless from 1, for any number of
\* racing writers (models/DeliveryEvent.ts).
THEOREM Gapless == MilestoneSpec => []SeqIsGapless
<1>1. IInv => SeqIsGapless
  BY LastSeqIsLen DEF IInv, LogInv, SeqIsGapless
<1> QED
  BY <1>1, Invariant, PTL

\* append gives up on a milestone's number only after MAX_SEQ_ATTEMPTS others
\* were recorded on the same delivery.
THEOREM LossIsContention == MilestoneSpec => []LossNeedsContention
<1>1. IInv => LossNeedsContention
  BY LogAssumption DEF IInv, LogInv, WriterInv, LossNeedsContention
<1> QED
  BY <1>1, Invariant, PTL

\* The seq emitMilestone broadcasts is the milestone's own place in the log.
THEOREM BroadcastIsTrue == MilestoneSpec => []BroadcastIsRecorded
<1>1. IInv => BroadcastIsRecorded
  BY LogAssumption DEF IInv, LogInv, WriterInv, BroadcastIsRecorded
<1> QED
  BY <1>1, Invariant, PTL

\* The racing writers implement the append-only log: each insert is an append
\* of a milestone that is not there yet, and no other step touches the log.
THEOREM Refinement == MilestoneSpec => LogIsAppendOnly
<1>1. MilestoneInit => AbstractLog!Init
  BY DEF MilestoneInit, AbstractLog!Init
<1>2. IInv /\ [MilestoneStep]_milestoneVars => [AbstractLog!Next]_log
  <2> SUFFICES ASSUME IInv, [MilestoneStep]_milestoneVars PROVE [AbstractLog!Next]_log
    OBVIOUS
  <2>1. ASSUME NEW w \in Writers, Insert(w) PROVE AbstractLog!Next
    <3> DEFINE d == Target[w]
               s == log[d]
    <3>1. d \in Deliveries /\ s \in Seq(Writers) /\ log \in [Deliveries -> Seq(Writers)]
      BY LogAssumption DEF IInv, LogInv
    <3>2. seq[w] \in Nat /\ seq[w] >= 1 /\ seq[w] <= Len(s) + 1 /\ seq[w] \notin DOMAIN s
      BY <2>1 DEF Insert, DuplicateKey, IInv, Types, WriterInv
    <3>3. log' = [log EXCEPT ![d] = Append(@, w)]
      BY <2>1, <3>1, <3>2, InsertAppends DEF Insert
    <3>4. \A i \in DOMAIN log[d] : log[d][i] # w
      BY <2>1, <3>1 DEF Insert, IInv, LogInv
    <3> QED
      BY <3>1, <3>3, <3>4 DEF AbstractLog!Next
  <2>2. ASSUME NEW w \in Writers,
               Emit(w) \/ GetLastSeq(w) \/ Collide(w) \/ Throw(w) \/ Consumers(w)
        PROVE  log' = log
    BY <2>2 DEF Emit, GetLastSeq, Collide, Throw, Consumers
  <2> QED
    BY <2>1, <2>2 DEF MilestoneStep, milestoneVars
<1> QED
  BY <1>1, <1>2, Invariant, PTL DEF MilestoneSpec, LogIsAppendOnly, AbstractLog!Spec

-----------------------------------------------------------------------------
(* Idempotency keys *)

\* A request that holds the key, or has used it.
HoldsKey(r) == req[r] \in {"shadow", "handle"} \/ ran[r] # "no"

\* While Redis works, at most one request gets past SET NX, and the key stays.
Exclusive ==
    sound =>
        /\ redisReady
        /\ \A r \in Requests : req[r] # "markMongo"
        /\ \A r \in Requests : HoldsKey(r) => redis # NoRecord
        /\ \A r, q \in Requests : HoldsKey(r) /\ HoldsKey(q) => r = q

\* Handlers run between "handle" and "saveRedis", and nowhere else.
RanWhere ==
    \A r \in Requests :
        /\ req[r] \in {"saveRedis", "saveMongo"} => ran[r] # "no"
        /\ req[r] \in PCs \ {"saveRedis", "saveMongo", "done"} => ran[r] = "no"

\* A settled record holds the response of a handler that ran.
Recorded(rec) ==
    /\ rec.status = "none" => rec = NoRecord
    /\ Settled(rec) => rec.by \in Requests /\ ran[rec.by] # "no"

\* A late request has the record before it, and has not got past the lookup.
LateWhere ==
    \A r \in late : Settled(mongo) /\ req[r] \in {"get", "getMongo", "done"} /\ ran[r] = "no"

AnswersAreReal ==
    \A r \in Requests :
        answer[r].kind = "response" => answer[r].by \in Requests /\ ran[answer[r].by] # "no"

Inv ==
    /\ IdempotencyTypeOK /\ Exclusive /\ RanWhere /\ Recorded(redis) /\ Recorded(mongo)
    /\ LateWhere /\ AnswersAreReal

\* Every step keeps the types.
LEMMA StepType == IdempotencyTypeOK /\ RanWhere /\ [IdempotencyStep]_idempotencyVars => IdempotencyTypeOK'
<1> SUFFICES ASSUME IdempotencyTypeOK, RanWhere, [IdempotencyStep]_idempotencyVars PROVE IdempotencyTypeOK'
  OBVIOUS
<1> USE IdempotencyAssumption DEF IdempotencyTypeOK, RanWhere, Record, Answer, PCs
<1>1. ASSUME NEW r \in Requests, Submit(r) PROVE IdempotencyTypeOK'
  BY <1>1 DEF Submit, At, Goto, Settled
<1>2. ASSUME NEW r \in Requests, GetFromRedis(r) PROVE IdempotencyTypeOK'
  BY <1>2 DEF GetFromRedis, At, Goto, Replay, Tell, Reject, NoRecord
<1>3. ASSUME NEW r \in Requests, GetFromMongo(r) PROVE IdempotencyTypeOK'
  <2>1. UNCHANGED <<redis, mongo, redisReady, sound, ran, late, faults>>
    BY <1>3 DEF GetFromMongo
  <2>2. req' \in [Requests -> PCs]
    BY <1>3 DEF GetFromMongo, Goto, Replay, Reject
  <2>3. answer' \in [Requests -> Answer]
    BY <1>3 DEF GetFromMongo, Replay, Reject, Tell
  <2> QED
    BY <2>1, <2>2, <2>3
<1>4. ASSUME NEW r \in Requests, MarkInRedis(r) PROVE IdempotencyTypeOK'
  BY <1>4 DEF MarkInRedis, At, Goto, Reject, Tell, NoRecord, Processing
<1>5. ASSUME NEW r \in Requests, ShadowInMongo(r) PROVE IdempotencyTypeOK'
  BY <1>5 DEF ShadowInMongo, At, Goto, NoRecord, Processing
<1>6. ASSUME NEW r \in Requests, MarkInMongo(r) PROVE IdempotencyTypeOK'
  BY <1>6 DEF MarkInMongo, At, Goto, Reject, Tell, NoRecord, Processing
<1>7. ASSUME NEW r \in Requests, Handle(r) PROVE IdempotencyTypeOK'
  BY <1>7 DEF Handle, At, Goto, Tell
<1>8. ASSUME NEW r \in Requests, SaveInRedis(r) PROVE IdempotencyTypeOK'
  BY <1>8 DEF SaveInRedis, At, Goto, Response
<1>9. ASSUME NEW r \in Requests, SaveInMongo(r) PROVE IdempotencyTypeOK'
  BY <1>9 DEF SaveInMongo, At, Goto, NoRecord, Response
<1>10. ASSUME NEW r \in Requests, RedisThrows(r) PROVE IdempotencyTypeOK'
  <2>1. redisReady' \in BOOLEAN /\ sound' \in BOOLEAN
    BY <1>10, Zenon DEF RedisThrows
  <2>2. redis' \in Record /\ mongo' \in Record
    BY <1>10 DEF RedisThrows, NoRecord, Processing
  <2>3. req' \in [Requests -> PCs] /\ ran' = ran /\ answer' = answer /\ late' = late /\ faults' \in Nat
    BY <1>10 DEF RedisThrows, Fault, At, Goto
  <2> QED
    BY <2>1, <2>2, <2>3
<1>11. ASSUME NEW r \in Requests, MongoThrows(r) PROVE IdempotencyTypeOK'
  BY <1>11 DEF MongoThrows, Fault, At, Goto, Reject, Tell
<1>12. CASE Crash
  BY <1>12 DEF Crash, Fault
<1>13. CASE RedisGoes
  <2>1. redisReady' \in BOOLEAN /\ sound' \in BOOLEAN
    BY <1>13, Zenon DEF RedisGoes
  <2>2. redis' \in Record /\ mongo' \in Record
    BY <1>13 DEF RedisGoes, NoRecord, Processing
  <2>3. req' \in [Requests -> PCs] /\ ran' = ran /\ answer' = answer /\ late' = late /\ faults' \in Nat
    BY <1>13 DEF RedisGoes, Fault, At, Goto
  <2> QED
    BY <2>1, <2>2, <2>3
<1>14. CASE RedisReturns
  BY <1>14 DEF RedisReturns, NoRecord
<1>15. CASE UNCHANGED idempotencyVars
  BY <1>15 DEF idempotencyVars
<1> QED
  BY <1>1, <1>2, <1>3, <1>4, <1>5, <1>6, <1>7, <1>8, <1>9, <1>10, <1>11, <1>12, <1>13, <1>14, <1>15 DEF IdempotencyStep, Serve

\* A handler runs once per request.
LEMMA StepRanWhere == IdempotencyTypeOK /\ RanWhere /\ [IdempotencyStep]_idempotencyVars => RanWhere'
<1> SUFFICES ASSUME IdempotencyTypeOK /\ RanWhere, [IdempotencyStep]_idempotencyVars PROVE RanWhere'
  OBVIOUS
<1> USE IdempotencyAssumption DEF IdempotencyTypeOK, RanWhere, PCs, Record, Answer
<1>1. ASSUME NEW r \in Requests, Submit(r) PROVE RanWhere'
  BY <1>1 DEF Submit, At, Goto, Settled
<1>2. ASSUME NEW r \in Requests, GetFromRedis(r) PROVE RanWhere'
  BY <1>2 DEF GetFromRedis, At, Goto, Replay, Tell, Reject, NoRecord
<1>3. ASSUME NEW r \in Requests, GetFromMongo(r) PROVE RanWhere'
  BY <1>3 DEF GetFromMongo, At, Goto, Replay, Tell, Reject, NoRecord
<1>4. ASSUME NEW r \in Requests, MarkInRedis(r) PROVE RanWhere'
  BY <1>4 DEF MarkInRedis, At, Goto, Reject, Tell, NoRecord, Processing
<1>5. ASSUME NEW r \in Requests, ShadowInMongo(r) PROVE RanWhere'
  BY <1>5 DEF ShadowInMongo, At, Goto, NoRecord, Processing
<1>6. ASSUME NEW r \in Requests, MarkInMongo(r) PROVE RanWhere'
  BY <1>6 DEF MarkInMongo, At, Goto, Reject, Tell, NoRecord, Processing
<1>7. ASSUME NEW r \in Requests, Handle(r) PROVE RanWhere'
  BY <1>7 DEF Handle, At, Goto, Tell
<1>8. ASSUME NEW r \in Requests, SaveInRedis(r) PROVE RanWhere'
  BY <1>8 DEF SaveInRedis, At, Goto, Response
<1>9. ASSUME NEW r \in Requests, SaveInMongo(r) PROVE RanWhere'
  BY <1>9 DEF SaveInMongo, At, Goto, NoRecord, Response
<1>10. ASSUME NEW r \in Requests, RedisThrows(r) PROVE RanWhere'
  BY <1>10 DEF RedisThrows, Fault, At, Goto, NoRecord, Processing
<1>11. ASSUME NEW r \in Requests, MongoThrows(r) PROVE RanWhere'
  BY <1>11 DEF MongoThrows, Fault, At, Goto, Reject, Tell
<1>12. CASE Crash
  BY <1>12 DEF Crash, Fault
<1>13. CASE RedisGoes
  BY <1>13 DEF RedisGoes, Fault
<1>14. CASE RedisReturns
  BY <1>14 DEF RedisReturns, NoRecord
<1>15. CASE UNCHANGED idempotencyVars
  BY <1>15 DEF idempotencyVars
<1> QED
  BY <1>1, <1>2, <1>3, <1>4, <1>5, <1>6, <1>7, <1>8, <1>9, <1>10, <1>11, <1>12, <1>13, <1>14, <1>15 DEF IdempotencyStep, Serve

\* SET NX lets one request through, and nothing but a Redis fault frees the key.
LEMMA StepExclusive == IdempotencyTypeOK /\ RanWhere /\ Exclusive /\ [IdempotencyStep]_idempotencyVars => Exclusive'
<1> SUFFICES ASSUME IdempotencyTypeOK /\ RanWhere /\ Exclusive, [IdempotencyStep]_idempotencyVars PROVE Exclusive'
  OBVIOUS
<1> USE IdempotencyAssumption DEF IdempotencyTypeOK, RanWhere, PCs, Record, Exclusive, HoldsKey
<1>1. ASSUME NEW r \in Requests, Submit(r) PROVE Exclusive'
  BY <1>1 DEF Submit, At, Goto, Settled, NoRecord
<1>2. ASSUME NEW r \in Requests, GetFromRedis(r) PROVE Exclusive'
  BY <1>2 DEF GetFromRedis, At, Goto, Replay, Tell, Reject, NoRecord
<1>3. ASSUME NEW r \in Requests, GetFromMongo(r) PROVE Exclusive'
  BY <1>3 DEF GetFromMongo, At, Goto, Replay, Tell, Reject, NoRecord
<1>4. ASSUME NEW r \in Requests, MarkInRedis(r) PROVE Exclusive'
  BY <1>4 DEF MarkInRedis, At, Goto, Reject, Tell, NoRecord, Processing
<1>5. ASSUME NEW r \in Requests, ShadowInMongo(r) PROVE Exclusive'
  BY <1>5 DEF ShadowInMongo, At, Goto, NoRecord, Processing
<1>6. ASSUME NEW r \in Requests, MarkInMongo(r) PROVE Exclusive'
  BY <1>6 DEF MarkInMongo, At, Goto, Reject, Tell, NoRecord, Processing
<1>7. ASSUME NEW r \in Requests, Handle(r) PROVE Exclusive'
  BY <1>7 DEF Handle, At, Goto, Tell, NoRecord
<1>8. ASSUME NEW r \in Requests, SaveInRedis(r) PROVE Exclusive'
  BY <1>8 DEF SaveInRedis, At, Goto, Response, NoRecord
<1>9. ASSUME NEW r \in Requests, SaveInMongo(r) PROVE Exclusive'
  BY <1>9 DEF SaveInMongo, At, Goto, NoRecord, Response
<1>10. ASSUME NEW r \in Requests, RedisThrows(r) PROVE Exclusive'
  BY <1>10 DEF RedisThrows, Fault, At, Goto, NoRecord, Processing
<1>11. ASSUME NEW r \in Requests, MongoThrows(r) PROVE Exclusive'
  BY <1>11 DEF MongoThrows, Fault, At, Goto, Reject, Tell, NoRecord
<1>12. CASE Crash
  BY <1>12 DEF Crash, Fault, NoRecord
<1>13. CASE RedisGoes
  BY <1>13 DEF RedisGoes, Fault, NoRecord
<1>14. CASE RedisReturns
  BY <1>14 DEF RedisReturns, NoRecord
<1>15. CASE UNCHANGED idempotencyVars
  BY <1>15 DEF idempotencyVars, NoRecord
<1> QED
  BY <1>1, <1>2, <1>3, <1>4, <1>5, <1>6, <1>7, <1>8, <1>9, <1>10, <1>11, <1>12, <1>13, <1>14, <1>15 DEF IdempotencyStep, Serve

\* What is stored is a response.
LEMMA StepRecorded == IdempotencyTypeOK /\ RanWhere /\ Recorded(redis) /\ Recorded(mongo) /\ [IdempotencyStep]_idempotencyVars => (Recorded(redis) /\ Recorded(mongo))'
<1> SUFFICES ASSUME IdempotencyTypeOK /\ RanWhere /\ Recorded(redis) /\ Recorded(mongo), [IdempotencyStep]_idempotencyVars PROVE (Recorded(redis) /\ Recorded(mongo))'
  OBVIOUS
<1> USE IdempotencyAssumption DEF IdempotencyTypeOK, RanWhere, PCs, Record, Recorded
<1>1. ASSUME NEW r \in Requests, Submit(r) PROVE (Recorded(redis) /\ Recorded(mongo))'
  BY <1>1 DEF Submit, At, Goto, Settled, NoRecord
<1>2. ASSUME NEW r \in Requests, GetFromRedis(r) PROVE (Recorded(redis) /\ Recorded(mongo))'
  BY <1>2 DEF GetFromRedis, At, Goto, Replay, Tell, Reject, NoRecord, Settled
<1>3. ASSUME NEW r \in Requests, GetFromMongo(r) PROVE (Recorded(redis) /\ Recorded(mongo))'
  BY <1>3 DEF GetFromMongo, At, Goto, Replay, Tell, Reject, NoRecord, Settled
<1>4. ASSUME NEW r \in Requests, MarkInRedis(r) PROVE (Recorded(redis) /\ Recorded(mongo))'
  BY <1>4 DEF MarkInRedis, At, Goto, Reject, Tell, NoRecord, Processing, Settled
<1>5. ASSUME NEW r \in Requests, ShadowInMongo(r) PROVE (Recorded(redis) /\ Recorded(mongo))'
  BY <1>5 DEF ShadowInMongo, At, Goto, NoRecord, Processing, Settled
<1>6. ASSUME NEW r \in Requests, MarkInMongo(r) PROVE (Recorded(redis) /\ Recorded(mongo))'
  BY <1>6 DEF MarkInMongo, At, Goto, Reject, Tell, NoRecord, Processing, Settled
<1>7. ASSUME NEW r \in Requests, Handle(r) PROVE (Recorded(redis) /\ Recorded(mongo))'
  BY <1>7 DEF Handle, At, Goto, Tell, Settled, NoRecord
<1>8. ASSUME NEW r \in Requests, SaveInRedis(r) PROVE (Recorded(redis) /\ Recorded(mongo))'
  BY <1>8 DEF SaveInRedis, At, Goto, Response, Settled, NoRecord
<1>9. ASSUME NEW r \in Requests, SaveInMongo(r) PROVE (Recorded(redis) /\ Recorded(mongo))'
  BY <1>9 DEF SaveInMongo, At, Goto, NoRecord, Response, Settled
<1>10. ASSUME NEW r \in Requests, RedisThrows(r) PROVE (Recorded(redis) /\ Recorded(mongo))'
  BY <1>10 DEF RedisThrows, Fault, At, Goto, NoRecord, Processing, Settled
<1>11. ASSUME NEW r \in Requests, MongoThrows(r) PROVE (Recorded(redis) /\ Recorded(mongo))'
  BY <1>11 DEF MongoThrows, Fault, At, Goto, Reject, Tell, Settled, NoRecord
<1>12. CASE Crash
  BY <1>12 DEF Crash, Fault, Settled, NoRecord
<1>13. CASE RedisGoes
  BY <1>13 DEF RedisGoes, Fault, Settled, NoRecord
<1>14. CASE RedisReturns
  BY <1>14 DEF RedisReturns, NoRecord, Settled
<1>15. CASE UNCHANGED idempotencyVars
  BY <1>15 DEF idempotencyVars, Settled, NoRecord
<1> QED
  BY <1>1, <1>2, <1>3, <1>4, <1>5, <1>6, <1>7, <1>8, <1>9, <1>10, <1>11, <1>12, <1>13, <1>14, <1>15 DEF IdempotencyStep, Serve

\* A settled record stays settled, so a late request never gets past the lookup.
LEMMA StepLate == IdempotencyTypeOK /\ RanWhere /\ LateWhere /\ [IdempotencyStep]_idempotencyVars => LateWhere'
<1> SUFFICES ASSUME IdempotencyTypeOK /\ RanWhere /\ LateWhere, [IdempotencyStep]_idempotencyVars PROVE LateWhere'
  OBVIOUS
<1> USE IdempotencyAssumption DEF IdempotencyTypeOK, RanWhere, PCs, Record, LateWhere
<1>1. ASSUME NEW r \in Requests, Submit(r) PROVE LateWhere'
  BY <1>1 DEF Submit, At, Goto, Settled, NoRecord
<1>2. ASSUME NEW r \in Requests, GetFromRedis(r) PROVE LateWhere'
  BY <1>2 DEF GetFromRedis, At, Goto, Replay, Tell, Reject, NoRecord, Settled
<1>3. ASSUME NEW r \in Requests, GetFromMongo(r) PROVE LateWhere'
  BY <1>3 DEF GetFromMongo, At, Goto, Replay, Tell, Reject, NoRecord, Settled
<1>4. ASSUME NEW r \in Requests, MarkInRedis(r) PROVE LateWhere'
  BY <1>4 DEF MarkInRedis, At, Goto, Reject, Tell, NoRecord, Processing, Settled
<1>5. ASSUME NEW r \in Requests, ShadowInMongo(r) PROVE LateWhere'
  BY <1>5 DEF ShadowInMongo, At, Goto, NoRecord, Processing, Settled
<1>6. ASSUME NEW r \in Requests, MarkInMongo(r) PROVE LateWhere'
  BY <1>6 DEF MarkInMongo, At, Goto, Reject, Tell, NoRecord, Processing, Settled
<1>7. ASSUME NEW r \in Requests, Handle(r) PROVE LateWhere'
  BY <1>7 DEF Handle, At, Goto, Tell, Settled, NoRecord
<1>8. ASSUME NEW r \in Requests, SaveInRedis(r) PROVE LateWhere'
  BY <1>8 DEF SaveInRedis, At, Goto, Response, Settled, NoRecord
<1>9. ASSUME NEW r \in Requests, SaveInMongo(r) PROVE LateWhere'
  BY <1>9 DEF SaveInMongo, At, Goto, NoRecord, Response, Settled
<1>10. ASSUME NEW r \in Requests, RedisThrows(r) PROVE LateWhere'
  BY <1>10 DEF RedisThrows, Fault, At, Goto, NoRecord, Processing, Settled
<1>11. ASSUME NEW r \in Requests, MongoThrows(r) PROVE LateWhere'
  BY <1>11 DEF MongoThrows, Fault, At, Goto, Reject, Tell, Settled, NoRecord
<1>12. CASE Crash
  BY <1>12 DEF Crash, Fault, Settled, NoRecord
<1>13. CASE RedisGoes
  BY <1>13 DEF RedisGoes, Fault, Settled, NoRecord
<1>14. CASE RedisReturns
  BY <1>14 DEF RedisReturns, NoRecord, Settled
<1>15. CASE UNCHANGED idempotencyVars
  BY <1>15 DEF idempotencyVars, Settled, NoRecord
<1> QED
  BY <1>1, <1>2, <1>3, <1>4, <1>5, <1>6, <1>7, <1>8, <1>9, <1>10, <1>11, <1>12, <1>13, <1>14, <1>15 DEF IdempotencyStep, Serve

\* Clients are told what a handler answered, at once or from a record.
LEMMA StepAnswers == IdempotencyTypeOK /\ RanWhere /\ Recorded(redis) /\ Recorded(mongo) /\ AnswersAreReal /\ [IdempotencyStep]_idempotencyVars => AnswersAreReal'
<1> SUFFICES ASSUME IdempotencyTypeOK /\ RanWhere /\ Recorded(redis) /\ Recorded(mongo) /\ AnswersAreReal, [IdempotencyStep]_idempotencyVars PROVE AnswersAreReal'
  OBVIOUS
<1> USE IdempotencyAssumption DEF IdempotencyTypeOK, RanWhere, PCs, Record, Answer, Recorded, AnswersAreReal
<1>1. ASSUME NEW r \in Requests, Submit(r) PROVE AnswersAreReal'
  BY <1>1 DEF Submit, At, Goto, Settled, NoRecord
<1>2. ASSUME NEW r \in Requests, GetFromRedis(r) PROVE AnswersAreReal'
  BY <1>2 DEF GetFromRedis, At, Goto, Replay, Tell, Reject, NoRecord, Settled
<1>3. ASSUME NEW r \in Requests, GetFromMongo(r) PROVE AnswersAreReal'
  BY <1>3 DEF GetFromMongo, At, Goto, Replay, Tell, Reject, NoRecord, Settled
<1>4. ASSUME NEW r \in Requests, MarkInRedis(r) PROVE AnswersAreReal'
  BY <1>4 DEF MarkInRedis, At, Goto, Reject, Tell, NoRecord, Processing, Settled
<1>5. ASSUME NEW r \in Requests, ShadowInMongo(r) PROVE AnswersAreReal'
  BY <1>5 DEF ShadowInMongo, At, Goto, NoRecord, Processing, Settled
<1>6. ASSUME NEW r \in Requests, MarkInMongo(r) PROVE AnswersAreReal'
  BY <1>6 DEF MarkInMongo, At, Goto, Reject, Tell, NoRecord, Processing, Settled
<1>7. ASSUME NEW r \in Requests, Handle(r) PROVE AnswersAreReal'
  BY <1>7 DEF Handle, At, Goto, Tell, Settled, NoRecord
<1>8. ASSUME NEW r \in Requests, SaveInRedis(r) PROVE AnswersAreReal'
  BY <1>8 DEF SaveInRedis, At, Goto, Response, Settled, NoRecord
<1>9. ASSUME NEW r \in Requests, SaveInMongo(r) PROVE AnswersAreReal'
  BY <1>9 DEF SaveInMongo, At, Goto, NoRecord, Response, Settled
<1>10. ASSUME NEW r \in Requests, RedisThrows(r) PROVE AnswersAreReal'
  BY <1>10 DEF RedisThrows, Fault, At, Goto, NoRecord, Processing, Settled
<1>11. ASSUME NEW r \in Requests, MongoThrows(r) PROVE AnswersAreReal'
  BY <1>11 DEF MongoThrows, Fault, At, Goto, Reject, Tell, Settled, NoRecord
<1>12. CASE Crash
  BY <1>12 DEF Crash, Fault, Settled, NoRecord
<1>13. CASE RedisGoes
  BY <1>13 DEF RedisGoes, Fault, Settled, NoRecord
<1>14. CASE RedisReturns
  BY <1>14 DEF RedisReturns, NoRecord, Settled
<1>15. CASE UNCHANGED idempotencyVars
  BY <1>15 DEF idempotencyVars, Settled, NoRecord
<1> QED
  BY <1>1, <1>2, <1>3, <1>4, <1>5, <1>6, <1>7, <1>8, <1>9, <1>10, <1>11, <1>12, <1>13, <1>14, <1>15 DEF IdempotencyStep, Serve

LEMMA IdempotencyStart == IdempotencyInit => Inv
BY IdempotencyAssumption DEF IdempotencyInit, Inv, IdempotencyTypeOK, Exclusive, HoldsKey, RanWhere, Recorded, LateWhere,
   AnswersAreReal, Record, Answer, PCs, NoRecord, Settled

LEMMA IdempotencyKeeps == Inv /\ [IdempotencyStep]_idempotencyVars => Inv'
BY StepType, StepRanWhere, StepExclusive, StepRecorded, StepLate, StepAnswers DEF Inv

\* The inductive invariant holds throughout.
LEMMA Invariance == IdempotencySpec => []Inv
BY IdempotencyStart, IdempotencyKeeps, PTL DEF IdempotencySpec

\* The stores, the requests and the answers keep their shape.
THEOREM IdempotencyTypes == IdempotencySpec => []IdempotencyTypeOK
<1>1. Inv => IdempotencyTypeOK
  BY DEF Inv
<1> QED
  BY <1>1, Invariance, PTL

\* While Redis works the handler of a key runs once, for any number of requests.
THEOREM Once == IdempotencySpec => []RunsOnce
<1>1. Inv => RunsOnce
  BY DEF Inv, Exclusive, HoldsKey, RunsOnce
<1> QED
  BY <1>1, Invariance, PTL

\* Every response was given by a handler, and while Redis works all are the same.
THEOREM Agreement == IdempotencySpec => []AnswersAgree
<1>1. Inv => AnswersAgree
  BY DEF Inv, Exclusive, HoldsKey, AnswersAreReal, AnswersAgree
<1> QED
  BY <1>1, Invariance, PTL

\* A retry that comes when the response is in Mongo does not run the handler.
THEOREM NotRerun == IdempotencySpec => []SettledIsNotRerun
<1>1. Inv => SettledIsNotRerun
  BY DEF Inv, LateWhere, SettledIsNotRerun
<1> QED
  BY <1>1, Invariance, PTL

-----------------------------------------------------------------------------
(* The services together *)

\* A service's variables change by its own steps only.
LEMMA OthersRestRecords == [Next]_serviceVars => [MilestoneStep]_milestoneVars /\ [IdempotencyStep]_idempotencyVars
BY DEF Next, Play, serviceVars

\* A behaviour of the services is one of the milestone log, and one of the idempotency keys: what holds of
\* either alone holds beside the others.
THEOREM RecordsAmongServices == Spec => MilestoneSpec /\ IdempotencySpec
<1>1. Init => MilestoneInit /\ IdempotencyInit
  BY DEF Init
<1> QED
  BY <1>1, OthersRestRecords, PTL DEF Spec, MilestoneSpec, IdempotencySpec

\* So beside the other services, too, a handler runs once while Redis works, what is settled is not rerun,
\* and the milestone log only grows (idempotency.service.ts, models/DeliveryEvent.ts).
THEOREM RecordsAreSafe == Spec => []RunsOnce /\ []SettledIsNotRerun /\ LogIsAppendOnly
BY RecordsAmongServices, Once, NotRerun, Refinement, PTL

\* The inductive invariant of the services is that of each of them.
AllInv ==
    /\ scene \in Scenes
    /\ DispatchInv /\ OnboardingInv /\ AttemptsOK /\ FleetInv /\ DisputeInv /\ AccountInv /\ ImportInv
    /\ Inv /\ IInv /\ LocationInv /\ ChatInv /\ PushInv /\ SyncInv

LEMMA AllStart == Init => AllInv
<1> SUFFICES ASSUME Init PROVE AllInv
  OBVIOUS
<1>1. DispatchInv /\ OnboardingInv /\ AttemptsOK /\ AccountInv
  BY DispatchStart, OnboardingStart, AttemptsBegin, AccountStart DEF Init
<1>2. FleetInv /\ DisputeInv /\ SyncInv /\ ImportInv
  BY FleetStart, DisputeStart, SyncStart, ImportStart DEF Init
<1>3. LocationInv /\ ChatInv /\ PushInv
  BY LocationStart, ChatStart, PushStart DEF Init
<1>4. Inv /\ IInv
  BY InitIInv, IdempotencyStart DEF Init
<1> QED
  BY <1>1, <1>2, <1>3, <1>4 DEF Init, AllInv

LEMMA AllKeep == AllInv /\ [Next]_serviceVars => AllInv'
<1> SUFFICES ASSUME AllInv, [Next]_serviceVars PROVE AllInv'
  OBVIOUS
<1>1. DispatchInv' /\ OnboardingInv' /\ AttemptsOK' /\ AccountInv'
  BY OthersRestDispatch, DispatchInductive, OthersRestOnboarding, OnboardingInductive, AttemptsAreCounted,
     OthersRestAccounts, AccountInductive DEF AllInv
<1>2. FleetInv' /\ DisputeInv' /\ SyncInv' /\ ImportInv'
  BY OthersRestFleets, FleetKeeps, OthersRestDisputes, DisputeKeeps, OthersRestSyncs, SyncKeeps,
     OthersRestImports, ImportIsKept DEF AllInv
<1>3. LocationInv' /\ ChatInv' /\ PushInv'
  BY OthersRestLocation, LocationKeeps, OthersRestChat, ChatKeeps, OthersRestPush, PushKeeps DEF AllInv
<1>4. Inv' /\ IInv'
  BY OthersRestRecords, StepIInv, IdempotencyKeeps DEF AllInv
<1>5. scene' = scene
  BY DEF Next, Play, serviceVars
<1> QED
  BY <1>1, <1>2, <1>3, <1>4, <1>5 DEF AllInv

LEMMA AllAreTyped == AllInv => TypeOK
<1> SUFFICES ASSUME AllInv PROVE TypeOK
  OBVIOUS
<1>1. DispatchTypeOK /\ OnboardingTypeOK /\ AccountTypeOK
  BY OnboardingIsTyped, AccountIsTyped DEF AllInv, DispatchInv
<1>2. FleetTypeOK /\ DisputeTypeOK /\ ImportTypeOK /\ SyncTypeOK
  BY DisputesAreTyped, SyncsAreTyped, ImportsAreExact DEF AllInv, FleetInv
<1>3. LocationTypeOK /\ ChatTypeOK /\ NotificationTypeOK
  BY LocationIsTyped, ChatIsSound, PushIsSound DEF AllInv
<1>4. IdempotencyTypeOK /\ MilestoneTypeOK
  BY DEF AllInv, Inv, IInv, Types, LogInv, MilestoneTypeOK
<1>5. scene \in Scenes
  BY DEF AllInv
<1> QED
  BY <1>1, <1>2, <1>3, <1>4, <1>5 DEF TypeOK

\* Whatever the services do, in any order, their documents, requests and counters keep their shape
\* (the handlers of every service modelled beside the escrow path).
THEOREM ServicesAreTyped == Spec => []TypeOK
<1> QED
  BY AllStart, AllKeep, AllAreTyped, PTL DEF Spec
=============================================================================
