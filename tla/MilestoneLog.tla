---------------------------- MODULE MilestoneLog ----------------------------
(***************************************************************************)
(* emitMilestone and DeliveryEventRepository.append.  A writer reads the   *)
(* highest seq of its delivery, inserts at the next one, and on a          *)
(* duplicate-key error of the unique (delivery, seq) index starts over, at *)
(* most MaxAttempts times.  Then, recorded or not, it tells the consumers. *)
(***************************************************************************)
EXTENDS Naturals, Sequences, FiniteSets

CONSTANTS
    Deliveries,
    Writers,       \* one emitMilestone call each
    Target,        \* the delivery each of them writes about
    MaxAttempts,   \* MAX_SEQ_ATTEMPTS
    CanFail        \* may an insert fail for another reason than its seq?

ASSUME LogAssumption ==
    /\ Target \in [Writers -> Deliveries]
    /\ MaxAttempts \in Nat \ {0}
    /\ CanFail \in BOOLEAN

VARIABLES
    log,       \* log[d][seq]: the writer whose milestone has that seq
    pc,
    attempt,   \* attempts begun
    seq,       \* the seq to insert at
    told       \* seq in the socket broadcast, 0 for a record that is missing

milestoneVars == <<log, pc, attempt, seq, told>>

MilestoneInit ==
    /\ log = [d \in Deliveries |-> <<>>]
    /\ pc = [w \in Writers |-> "idle"]
    /\ attempt = [w \in Writers |-> 0]
    /\ seq = [w \in Writers |-> 0]
    /\ told = [w \in Writers |-> 0]

\* findOne({delivery}).sort({seq: -1}), or 0 when the delivery has no events.
LastSeq(d) ==
    IF DOMAIN log[d] = {} THEN 0
    ELSE CHOOSE n \in DOMAIN log[d] : \A i \in DOMAIN log[d] : i <= n

\* Mutant: there is no such index.
Unindexed(d, n) == n = 0

\* The unique index on (delivery, seq).
DuplicateKey(d, n) == n \in DOMAIN log[d]

LastAttempt(w) == attempt[w] >= MaxAttempts

Emit(w) ==
    /\ pc[w] = "idle"
    /\ pc' = [pc EXCEPT ![w] = "read"]
    /\ attempt' = [attempt EXCEPT ![w] = 1]
    /\ UNCHANGED <<log, seq, told>>

GetLastSeq(w) ==
    /\ pc[w] = "read"
    /\ seq' = [seq EXCEPT ![w] = LastSeq(Target[w]) + 1]
    /\ pc' = [pc EXCEPT ![w] = "insert"]
    /\ UNCHANGED <<log, attempt, told>>

Insert(w) ==
    LET d == Target[w]
    IN /\ pc[w] = "insert"
       /\ ~DuplicateKey(d, seq[w])
       /\ log' = [log EXCEPT ![d] =
                    [i \in DOMAIN @ \cup {seq[w]} |-> IF i = seq[w] THEN w ELSE @[i]]]
       /\ pc' = [pc EXCEPT ![w] = "recorded"]
       /\ UNCHANGED <<attempt, seq, told>>

\* Another writer took the number: try again, or give up with its error.
Collide(w) ==
    /\ pc[w] = "insert"
    /\ DuplicateKey(Target[w], seq[w])
    /\ IF LastAttempt(w)
       THEN /\ pc' = [pc EXCEPT ![w] = "lost"]
            /\ UNCHANGED attempt
       ELSE /\ pc' = [pc EXCEPT ![w] = "read"]
            /\ attempt' = [attempt EXCEPT ![w] = @ + 1]
    /\ UNCHANGED <<log, seq, told>>

\* Any other error is thrown at once.
Throw(w) ==
    /\ CanFail
    /\ pc[w] \in {"read", "insert"}
    /\ pc' = [pc EXCEPT ![w] = "failed"]
    /\ UNCHANGED <<log, attempt, seq, told>>

\* Notification, webhook and socket broadcast, each isolated: emitMilestone
\* returns whether or not they fail.  The broadcast names the record's seq.
Consumers(w) ==
    /\ pc[w] \in {"recorded", "lost", "failed"}
    /\ told' = [told EXCEPT ![w] = IF pc[w] = "recorded" THEN seq[w] ELSE 0]
    /\ pc' = [pc EXCEPT ![w] = IF @ = "recorded" THEN "done" ELSE "dropped"]
    /\ UNCHANGED <<log, attempt, seq>>

MilestoneStep ==
    \E w \in Writers :
        Emit(w) \/ GetLastSeq(w) \/ Insert(w) \/ Collide(w) \/ Throw(w) \/ Consumers(w)

MilestoneSpec == MilestoneInit /\ [][MilestoneStep]_milestoneVars

-----------------------------------------------------------------------------
Pcs == {"idle", "read", "insert", "recorded", "lost", "failed", "done", "dropped"}

\* Each log is a finite map from numbers to milestones; each writer is at one
\* of the steps of append.
MilestoneTypeOK ==
    /\ DOMAIN log = Deliveries
    /\ \A d \in Deliveries : \A i \in DOMAIN log[d] : i \in Nat \ {0} /\ log[d][i] \in Writers
    /\ pc \in [Writers -> Pcs]
    /\ attempt \in [Writers -> 0..MaxAttempts]
    /\ seq \in [Writers -> Nat]
    /\ told \in [Writers -> Nat]

\* models/DeliveryEvent.ts: seq is "1-based, gapless, strictly increasing per
\* delivery", although each writer computes it from an old read.
SeqIsGapless == \A d \in Deliveries : DOMAIN log[d] = 1..LastSeq(d)

\* A milestone is dropped for its number only when MAX_SEQ_ATTEMPTS others were
\* recorded on that delivery: with fewer writers, append always succeeds.
LossNeedsContention ==
    \A w \in Writers : pc[w] = "lost" => \A i \in 1..MaxAttempts : i \in DOMAIN log[Target[w]]

\* Fire after commit: the seq a client hears on the socket is that milestone's
\* own number in the log, whoever else was writing.
BroadcastIsRecorded ==
    \A w \in Writers :
        told[w] # 0 => told[w] \in DOMAIN log[Target[w]] /\ log[Target[w]][told[w]] = w

AbstractLog == INSTANCE AppendOnlyLog WITH Entries <- Writers

\* The log of racing writers is an append-only sequence: each insert adds one
\* milestone at the end, once, and changes no other.
LogIsAppendOnly == AbstractLog!Spec
=============================================================================
