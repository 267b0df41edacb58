---------------------------- MODULE Jobs_proofs ----------------------------
(***************************************************************************)
(* Webhooks, for any number of events, subscriptions, processes and        *)
(* retries: what is sent is bounded, and no late failure puts a settled    *)
(* attempt back in the queue.                                              *)
(***************************************************************************)
EXTENDS Jobs, FiniteSetTheorems, TLAPS

-----------------------------------------------------------------------------
(* The invariant *)

\* Nothing has been done about the attempt yet.
Blank(a) ==
    /\ att[a].status = "absent" /\ att[a].attempts = 0 /\ tried[a] = 0 /\ got[a] = 0
    /\ \A p \in Procs : flight[p][a].pc = "idle" /\ a \notin batch[p][a[2]]

\* Only one process dispatches an event; what it has still to create is blank.
DispatchOK(e) ==
    /\ \A p \in Procs : disp[e][p].pc \in {"idle", "find", "done"} => disp[e][p].todo = {}
    /\ \A p, q \in Procs : disp[e][p].pc # "idle" /\ disp[e][q].pc # "idle" => p = q
    /\ (\A p \in Procs : disp[e][p].pc \in {"idle", "find"}) => \A s \in Subs : Blank(<<e, s>>)
    /\ \A p \in Procs : \A s \in disp[e][p].todo : Blank(<<e, s>>)

\* What waits in a batch waits there only, and was never sent.
WaitOK(a) ==
    \A p \in Procs, s \in Subs : a \in batch[p][s] =>
        /\ a[2] = s
        /\ att[a].status = "pending" /\ att[a].attempts = 0 /\ tried[a] = 0 /\ got[a] = 0
        /\ \A q \in Procs : flight[q][a].pc = "idle" /\ (a \in batch[q][s] => q = p)

\* A first send is the only one, of an attempt that is pending until its outcome is saved; a
\* sweep sends what was failed, and never what is pending.
FlightOK(p, a) ==
    LET f == flight[p][a]
    IN \/ f.pc = "idle"
       \/ /\ f.kind # "sweep" /\ f.was = "pending" /\ f.n = 1
          /\ f.pc \in {"post", "taken", "refused", "saved"}
          /\ att[a].status = IF f.pc = "saved" THEN "success" ELSE "pending"
          /\ \A q \in Procs \ {p} : flight[q][a].pc = "idle"
       \/ /\ f.kind = "sweep" /\ f.was = "failed" /\ f.mates = {a} /\ f.pc # "saved"
          /\ att[a].status \in {"failed", "success", "exhausted"}

\* The attempts of one POST go together until its outcome is known.
MatesOK(p, a) ==
    LET f == flight[p][a]
    IN f.pc \in {"post", "taken", "saved"} =>
         /\ a \in f.mates
         /\ \A m \in f.mates :
              /\ flight[p][m].mates = f.mates
              /\ flight[p][m].pc \in IF f.pc = "post" THEN {"post"} ELSE {"taken", "saved"}

\* No count is ahead of the POSTs made.
CountsArePaid(a) ==
    /\ att[a].attempts <= tried[a]
    /\ \A p \in Procs :
         /\ flight[p][a].pc \in {"lookup", "post", "missing"} => flight[p][a].n <= tried[a] + 1
         /\ flight[p][a].pc \in {"taken", "refused", "saved"} => flight[p][a].n <= tried[a]
    /\ ~scene.merchantActs /\ att[a].status = "exhausted" => tried[a] >= MaxRetries

\* With one process p the copy in flight is the document, and the count is exact.
SoleOK(p, a) ==
    LET f == flight[p][a]
        doc == att[a]
    IN /\ doc.status \in {"absent", "pending", "failed"} /\ f.pc \in {"idle", "lookup", "post", "missing"} =>
            tried[a] = doc.attempts /\ got[a] = 0
       /\ doc.status = "failed" => doc.attempts < MaxRetries
       /\ f.pc \notin {"idle", "saved"} => f.was = doc.status /\ doc.status \in {"pending", "failed"} /\ f.n = doc.attempts + 1 /\ f.n <= MaxRetries
       /\ f.pc \in {"taken", "refused"} => tried[a] = f.n
       /\ f.pc = "refused" => got[a] = 0
       /\ got[a] <= 1 /\ tried[a] <= MaxRetries

AttemptOK(a) ==
    /\ WaitOK(a) /\ CountsArePaid(a)
    /\ \A p \in Procs : FlightOK(p, a) /\ (scene.procs = {p} => SoleOK(p, a))

Calm ==
    /\ \A e \in Events : DispatchOK(e)
    /\ \A a \in Attempts : AttemptOK(a) /\ \A p \in Procs : MatesOK(p, a)

\* Without the merchant no subscription goes away.
SubsStay ==
    ~scene.merchantActs =>
        /\ \A s \in Subs : sub[s].live = "active"
        /\ \A p \in Procs, a \in Attempts : flight[p][a].pc # "missing"

\* Only the processes of the scene send.
OthersIdle == \A p \in Procs \ scene.procs : \A a \in Attempts : flight[p][a].pc = "idle"

WebhookInv == WebhookTypeOK /\ SubsStay /\ OthersIdle /\ (faults = 0 => Calm)

-----------------------------------------------------------------------------
(* Types *)

\* A change to the copy of one attempt in one process.
LEMMA OneFlight ==
    ASSUME WebhookTypeOK, NEW p \in Procs, NEW a \in Attempts, NEW new \in FlightRec,
           flight' = [flight EXCEPT ![p][a] = new]
    PROVE  /\ flight' \in [Procs -> [Attempts -> FlightRec]]
           /\ \A q \in Procs, b \in Attempts :
                flight'[q][b] = IF q = p /\ b = a THEN new ELSE flight[q][b]
  BY DEF WebhookTypeOK

\* A change to the copies one process has.
LEMMA ManyFlights ==
    ASSUME WebhookTypeOK, NEW p \in Procs, NEW new \in [Attempts -> FlightRec],
           flight' = [flight EXCEPT ![p] = new]
    PROVE  /\ flight' \in [Procs -> [Attempts -> FlightRec]]
           /\ \A q \in Procs, b \in Attempts :
                flight'[q][b] = IF q = p THEN new[b] ELSE flight[q][b]
  BY DEF WebhookTypeOK

LEMMA OneDoc ==
    ASSUME WebhookTypeOK, NEW a \in Attempts, NEW new \in AttemptDoc, att' = [att EXCEPT ![a] = new]
    PROVE  /\ att' \in [Attempts -> AttemptDoc]
           /\ \A b \in Attempts : att'[b] = IF b = a THEN new ELSE att[b]
  BY DEF WebhookTypeOK

LEMMA NoFlightType == NoFlight \in FlightRec /\ NoFlight.pc = "idle" /\ NoAttempt \in AttemptDoc
  BY DEF NoFlight, FlightRec, NoAttempt, AttemptDoc

LEMMA FaultType == ASSUME WebhookTypeOK, Fault PROVE faults' \in Nat /\ faults' # 0
  BY WebhooksAssumption DEF WebhookTypeOK, Fault

\* createAndSendAttempt and queueBatchedAttempt take s off the list.
LEMMA CreatedMoves ==
    ASSUME WebhookTypeOK, NEW p \in Procs, NEW e \in Events, NEW s \in Subs, Created(p, e, s)
    PROVE  /\ disp' \in [Events -> [Procs -> DispRec]]
           /\ disp'[e][p].todo = disp[e][p].todo \ {s}
           /\ disp'[e][p].pc = IF disp[e][p].todo = {s} THEN "done" ELSE disp[e][p].pc
           /\ \A f \in Events, q \in Procs : f # e \/ q # p => disp'[f][q] = disp[f][q]
<1>1. disp[e][p] \in DispRec /\ disp \in [Events -> [Procs -> DispRec]]
  BY DEF WebhookTypeOK
<1>2. PICK new : new = [disp[e][p] EXCEPT !.todo = @ \ {s}, !.pc = IF disp[e][p].todo = {s} THEN "done" ELSE @]
  OBVIOUS
<1>3. new \in DispRec /\ new.todo = disp[e][p].todo \ {s} /\ new.pc = IF disp[e][p].todo = {s} THEN "done" ELSE disp[e][p].pc
  BY <1>1, <1>2 DEF DispRec
<1>4. disp' = [disp EXCEPT ![e][p] = new]
  BY <1>1, <1>2 DEF Created
<1> QED
  BY <1>1, <1>3, <1>4

LEMMA FindMoves ==
    ASSUME WebhookTypeOK, NEW p \in Procs, NEW e \in Events, FindSubscriptions(p, e)
    PROVE  /\ disp' \in [Events -> [Procs -> DispRec]]
           /\ disp'[e][p].pc \in {"create", "done"}
           /\ disp'[e][p].pc = "done" => disp'[e][p].todo = {}
           /\ \A f \in Events, q \in Procs : f # e \/ q # p => disp'[f][q] = disp[f][q]
<1> DEFINE active == {s \in Subs : sub[s].live = "active"}
<1>2. PICK new : new = [pc |-> IF active = {} THEN "done" ELSE "create", todo |-> active,
                        batched |-> {s \in active : sub[s].batch}]
  OBVIOUS
<1>3. new \in DispRec /\ new.pc \in {"create", "done"} /\ (new.pc = "done" => new.todo = {})
  BY <1>2 DEF DispRec
<1>4. disp' = [disp EXCEPT ![e][p] = new]
  BY <1>2 DEF FindSubscriptions
<1> QED
  BY <1>3, <1>4 DEF WebhookTypeOK

LEMMA DispatchMoves ==
    ASSUME WebhookTypeOK, NEW p \in Procs, NEW e \in Events, Dispatch(p, e)
    PROVE  /\ disp' \in [Events -> [Procs -> DispRec]]
           /\ disp'[e][p].pc = "find" /\ disp'[e][p].todo = disp[e][p].todo
           /\ \A f \in Events, q \in Procs : f # e \/ q # p => disp'[f][q] = disp[f][q]
<1>1. disp[e][p] \in DispRec
  BY DEF WebhookTypeOK
<1>2. PICK new : new = [disp[e][p] EXCEPT !.pc = "find"]
  OBVIOUS
<1>3. new \in DispRec /\ new.pc = "find" /\ new.todo = disp[e][p].todo
  BY <1>1, <1>2 DEF DispRec
<1>4. disp' = [disp EXCEPT ![e][p] = new]
  BY <1>2 DEF Dispatch, WebhookTypeOK
<1> QED
  BY <1>3, <1>4 DEF WebhookTypeOK

\* The first send of a new attempt.
FirstSend(a) == [pc |-> "post", kind |-> "first", n |-> 1, was |-> "pending", mates |-> {a}]

LEMMA CreateMoves ==
    ASSUME WebhookTypeOK, NEW p \in Procs, NEW e \in Events, NEW s \in Subs, CreateAndSend(p, e, s)
    PROVE  LET a == <<e, s>>
           IN /\ flight' \in [Procs -> [Attempts -> FlightRec]] /\ att' \in [Attempts -> AttemptDoc]
              /\ \A q \in Procs, b \in Attempts : flight'[q][b] = IF q = p /\ b = a THEN FirstSend(a) ELSE flight[q][b]
              /\ \A b \in Attempts : att'[b] = IF b = a THEN [NoAttempt EXCEPT !.status = "pending"] ELSE att[b]
<1>1. PICK a \in Attempts : a = <<e, s>>
  BY DEF Attempts
<1>2. FirstSend(a) \in FlightRec /\ [NoAttempt EXCEPT !.status = "pending"] \in AttemptDoc
  BY DEF FirstSend, FlightRec, NoAttempt, AttemptDoc
<1>3. flight' = [flight EXCEPT ![p][a] = FirstSend(a)] /\ att' = [att EXCEPT ![a] = [NoAttempt EXCEPT !.status = "pending"]]
  BY <1>1 DEF CreateAndSend, FirstSend
<1> QED
  BY <1>1, <1>2, <1>3, OneFlight, OneDoc

LEMMA QueueMoves ==
    ASSUME WebhookTypeOK, NEW p \in Procs, NEW e \in Events, NEW s \in Subs, QueueBatched(p, e, s)
    PROVE  LET a == <<e, s>>
           IN /\ batch' \in [Procs -> [Subs -> SUBSET Attempts]] /\ att' \in [Attempts -> AttemptDoc]
              /\ \A q \in Procs, t \in Subs : batch'[q][t] = IF q = p /\ t = s THEN batch[p][s] \cup {a} ELSE batch[q][t]
              /\ \A b \in Attempts : att'[b] = IF b = a THEN [NoAttempt EXCEPT !.status = "pending"] ELSE att[b]
<1>1. PICK a \in Attempts : a = <<e, s>>
  BY DEF Attempts
<1>2. [NoAttempt EXCEPT !.status = "pending"] \in AttemptDoc
  BY DEF NoAttempt, AttemptDoc
<1>3. batch' = [batch EXCEPT ![p][s] = @ \cup {a}] /\ att' = [att EXCEPT ![a] = [NoAttempt EXCEPT !.status = "pending"]]
  BY <1>1 DEF QueueBatched
<1>4. batch \in [Procs -> [Subs -> SUBSET Attempts]]
  BY DEF WebhookTypeOK
<1>5. /\ batch' \in [Procs -> [Subs -> SUBSET Attempts]]
      /\ \A q \in Procs, t \in Subs : batch'[q][t] = IF q = p /\ t = s THEN batch[p][s] \cup {a} ELSE batch[q][t]
  BY <1>3, <1>4
<1> QED
  BY <1>1, <1>2, <1>3, <1>5, OneDoc

BatchSend(items) == [pc |-> "post", kind |-> "batch", n |-> 1, was |-> "pending", mates |-> items]

LEMMA FlushMoves ==
    ASSUME WebhookTypeOK, NEW p \in Procs, NEW s \in Subs, FlushBatch(p, s)
    PROVE  LET items == batch[p][s]
           IN /\ flight' \in [Procs -> [Attempts -> FlightRec]] /\ batch' \in [Procs -> [Subs -> SUBSET Attempts]]
              /\ \A q \in Procs, b \in Attempts :
                   flight'[q][b] = IF q = p /\ b \in items THEN BatchSend(items) ELSE flight[q][b]
              /\ \A q \in Procs, t \in Subs : batch'[q][t] = IF q = p /\ t = s THEN {} ELSE batch[q][t]
<1>1. PICK items \in SUBSET Attempts : items = batch[p][s]
  BY DEF WebhookTypeOK
<1>2. BatchSend(items) \in FlightRec /\ flight[p] \in [Attempts -> FlightRec]
  BY DEF BatchSend, FlightRec, WebhookTypeOK
<1>3. PICK new : new = [b \in Attempts |-> IF b \in items THEN BatchSend(items) ELSE flight[p][b]]
  OBVIOUS
<1>4. new \in [Attempts -> FlightRec]
  BY <1>2, <1>3
<1>5. flight' = [flight EXCEPT ![p] = new] /\ batch' = [batch EXCEPT ![p][s] = {}]
  BY <1>1, <1>3 DEF FlushBatch, BatchSend, WebhookTypeOK
<1>6. /\ flight' \in [Procs -> [Attempts -> FlightRec]]
      /\ \A q \in Procs, b \in Attempts : flight'[q][b] = IF q = p THEN new[b] ELSE flight[q][b]
  BY <1>4, <1>5, ManyFlights
<1>7. batch \in [Procs -> [Subs -> SUBSET Attempts]]
  BY DEF WebhookTypeOK
<1>8. /\ batch' \in [Procs -> [Subs -> SUBSET Attempts]]
      /\ \A q \in Procs, t \in Subs : batch'[q][t] = IF q = p /\ t = s THEN {} ELSE batch[q][t]
  BY <1>5, <1>7
<1> QED
  BY <1>1, <1>3, <1>6, <1>8

\* The sweep takes some attempts that failed and are due.
SweepSend(a) == [pc |-> "lookup", kind |-> "sweep", n |-> att[a].attempts + 1, was |-> att[a].status, mates |-> {a}]

LEMMA SweepMoves ==
    ASSUME WebhookTypeOK, NEW p \in Procs, Sweep(p)
    PROVE  \E some \in SUBSET Attempts :
              /\ \A a \in some : Retryable(a)
              /\ \A a \in Attempts : flight[p][a].kind = "sweep" => flight[p][a].pc = "idle"
              /\ flight' \in [Procs -> [Attempts -> FlightRec]]
              /\ \A q \in Procs, b \in Attempts :
                   flight'[q][b] = IF q = p /\ b \in some THEN SweepSend(b) ELSE flight[q][b]
<1>1. PICK some \in SUBSET {a \in Attempts : Retryable(a)} :
            /\ \A a \in Attempts : flight[p][a].kind = "sweep" => flight[p][a].pc = "idle"
            /\ flight' = [flight EXCEPT ![p] = [a \in Attempts |-> IF a \in some THEN SweepSend(a) ELSE @[a]]]
  BY DEF Sweep, SweepSend
<1>2. PICK new : new = [a \in Attempts |-> IF a \in some THEN SweepSend(a) ELSE flight[p][a]]
  OBVIOUS
<1>3. ASSUME NEW a \in some PROVE SweepSend(a) \in FlightRec
  <2>1. att[a] \in AttemptDoc /\ att[a].status = "failed" /\ a \in Attempts
    BY <1>1 DEF Retryable, WebhookTypeOK
  <2>2. att[a].attempts + 1 \in Nat /\ {a} \in SUBSET Attempts
    BY <2>1 DEF AttemptDoc
  <2> QED
    BY <2>1, <2>2 DEF SweepSend, FlightRec
<1>4. new \in [Attempts -> FlightRec]
  BY <1>2, <1>3 DEF WebhookTypeOK
<1>5. flight' = [flight EXCEPT ![p] = new]
  BY <1>1, <1>2 DEF WebhookTypeOK
<1>6. /\ flight' \in [Procs -> [Attempts -> FlightRec]]
      /\ \A q \in Procs, b \in Attempts : flight'[q][b] = IF q = p THEN new[b] ELSE flight[q][b]
  BY <1>4, <1>5, ManyFlights
<1> QED
  BY <1>1, <1>2, <1>6

\* f goes to pc.
At(f, pc) == [f EXCEPT !.pc = pc]

LEMMA AtFields ==
    ASSUME NEW f \in FlightRec, NEW pc \in {"idle", "lookup", "post", "missing", "taken", "saved", "refused"}
    PROVE  /\ At(f, pc) \in FlightRec /\ At(f, pc).pc = pc /\ At(f, pc).kind = f.kind /\ At(f, pc).n = f.n
           /\ At(f, pc).was = f.was /\ At(f, pc).mates = f.mates
  BY DEF At, FlightRec

LEMMA LookUpMoves ==
    ASSUME WebhookTypeOK, NEW p \in Procs, NEW a \in Attempts, LookUp(p, a)
    PROVE  \E pc \in {"post", "missing"} :
              /\ pc = "missing" => sub[a[2]].live # "active"
              /\ flight' \in [Procs -> [Attempts -> FlightRec]]
              /\ \A q \in Procs, b \in Attempts :
                   flight'[q][b] = IF q = p /\ b = a THEN At(flight[p][a], pc) ELSE flight[q][b]
<1>1. PICK pc \in {"post", "missing"} :
            (pc = "missing" => sub[a[2]].live # "active") /\ flight' = [flight EXCEPT ![p][a].pc = pc]
  BY DEF LookUp
<1>2. flight[p][a] \in FlightRec
  BY DEF WebhookTypeOK
<1>3. PICK new : new = At(flight[p][a], pc)
  OBVIOUS
<1>4. new \in FlightRec
  BY <1>2, <1>3, AtFields
<1>5. flight' = [flight EXCEPT ![p][a] = new]
  BY <1>1, <1>3 DEF At, WebhookTypeOK
<1>6. /\ flight' \in [Procs -> [Attempts -> FlightRec]]
      /\ \A q \in Procs, b \in Attempts : flight'[q][b] = IF q = p /\ b = a THEN new ELSE flight[q][b]
  BY <1>4, <1>5, OneFlight
<1> QED
  BY <1>1, <1>3, <1>6

LEMMA PostMoves ==
    ASSUME WebhookTypeOK, NEW p \in Procs, NEW a \in Attempts, Post(p, a)
    PROVE  LET mates == flight[p][a].mates
           IN /\ got' \in [Attempts -> 0..2] /\ tried' \in [Attempts -> Nat] /\ faults' \in Nat
              /\ flight' \in [Procs -> [Attempts -> FlightRec]]
              /\ \A m \in Attempts : tried'[m] = IF m \in mates THEN tried[m] + 1 ELSE tried[m]
              /\ \A m \in Attempts \ mates : got'[m] = got[m]
              /\ \E pc \in {"taken", "refused"} :
                   /\ \A q \in Procs, b \in Attempts :
                        flight'[q][b] = IF q = p /\ b \in mates THEN At(flight[q][b], pc) ELSE flight[q][b]
                   /\ faults' = 0 =>
                        \A m \in mates : got'[m] = IF pc = "taken" /\ got[m] < 2 THEN got[m] + 1 ELSE got[m]
<1>m. PICK mates \in SUBSET Attempts : mates = flight[p][a].mates
  BY DEF WebhookTypeOK, FlightRec
<1>t. tried \in [Attempts -> Nat] /\ got \in [Attempts -> 0..2] /\ faults \in Nat /\ flight \in [Procs -> [Attempts -> FlightRec]]
  BY DEF WebhookTypeOK
<1>1. PICK pc \in {"taken", "refused"} :
            /\ Outcome(p, mates, pc)
            /\ \/ pc = "taken" /\ Taken(mates) /\ UNCHANGED faults
               \/ pc = "refused" /\ UNCHANGED <<got, faults>>
               \/ pc = "refused" /\ Taken(mates) /\ Fault
  BY <1>m DEF Post
<1>2. PICK new : new = [m \in Attempts |-> IF m \in mates THEN At(flight[p][m], pc) ELSE flight[p][m]]
  OBVIOUS
<1>3. new \in [Attempts -> FlightRec]
  BY <1>t, <1>2, AtFields
<1>4. flight' = [flight EXCEPT ![p] = new]
  BY <1>1, <1>2, <1>t DEF Outcome, At
<1>5. /\ flight' \in [Procs -> [Attempts -> FlightRec]]
      /\ \A q \in Procs, b \in Attempts : flight'[q][b] = IF q = p THEN new[b] ELSE flight[q][b]
  BY <1>3, <1>4, ManyFlights
<1>6. \A q \in Procs, b \in Attempts :
        flight'[q][b] = IF q = p /\ b \in mates THEN At(flight[q][b], pc) ELSE flight[q][b]
  BY <1>2, <1>5
<1>7. tried' \in [Attempts -> Nat] /\ \A m \in Attempts : tried'[m] = IF m \in mates THEN tried[m] + 1 ELSE tried[m]
  BY <1>1, <1>t DEF Outcome
<1>8. Taken(mates) => /\ got' \in [Attempts -> 0..2]
                      /\ \A m \in Attempts : got'[m] = IF m \in mates /\ got[m] < 2 THEN got[m] + 1 ELSE got[m]
  BY <1>t DEF Taken
<1>9. Fault => faults' \in Nat /\ faults' # 0
  BY FaultType
<1>10. got' \in [Attempts -> 0..2] /\ faults' \in Nat /\ \A m \in Attempts \ mates : got'[m] = got[m]
  BY <1>1, <1>t, <1>8, <1>9
<1>11. faults' = 0 => \A m \in mates : got'[m] = IF pc = "taken" /\ got[m] < 2 THEN got[m] + 1 ELSE got[m]
  BY <1>1, <1>8, <1>9
<1> QED
  BY <1>m, <1>5, <1>6, <1>7, <1>10, <1>11

\* a is the last of its mates to be saved.
Over(p, a) == \A m \in flight[p][a].mates \ {a} : flight[p][m].pc = "saved"

LEMMA SuccessMoves ==
    ASSUME WebhookTypeOK, NEW p \in Procs, NEW a \in Attempts, SaveSuccess(p, a)
    PROVE  LET f == flight[p][a]
           IN /\ f.pc = "taken"
              /\ att' \in [Attempts -> AttemptDoc] /\ flight' \in [Procs -> [Attempts -> FlightRec]]
              /\ \A b \in Attempts : att'[b] = IF b = a THEN [status |-> "success", attempts |-> f.n, due |-> "null"] ELSE att[b]
              /\ Over(p, a) => \A b \in f.mates : flight'[p][b] = NoFlight
              /\ \A q \in Procs, b \in Attempts \ (f.mates \cup {a}) : flight'[q][b] = flight[q][b]
              /\ \A q \in Procs \ {p}, b \in Attempts : flight'[q][b] = flight[q][b]
              /\ ~Over(p, a) => \A q \in Procs, b \in Attempts :
                   flight'[q][b] = IF q = p /\ b = a THEN At(f, "saved") ELSE flight[q][b]
              /\ \A q \in Procs, b \in Attempts : flight'[q][b] \in {flight[q][b], NoFlight, At(f, "saved")}
<1> DEFINE f == flight[p][a]
<1>f. f \in FlightRec /\ f.pc = "taken" /\ flight[p] \in [Attempts -> FlightRec]
  BY DEF SaveSuccess, WebhookTypeOK
<1>1. PICK doc : doc = [status |-> "success", attempts |-> f.n, due |-> "null"]
  OBVIOUS
<1>2. doc \in AttemptDoc
  BY <1>f, <1>1 DEF AttemptDoc, FlightRec
<1>3. att' \in [Attempts -> AttemptDoc] /\ \A b \in Attempts : att'[b] = IF b = a THEN doc ELSE att[b]
  BY <1>1, <1>2, OneDoc DEF SaveSuccess
<1>4. PICK new : new = [m \in Attempts |-> IF m \in f.mates /\ Over(p, a) THEN NoFlight
                                           ELSE IF m = a THEN At(f, "saved") ELSE flight[p][m]]
  OBVIOUS
<1>5. new \in [Attempts -> FlightRec]
  BY <1>f, <1>4, AtFields, NoFlightType
<1>6. flight' = [flight EXCEPT ![p] = new]
  BY <1>4, <1>f DEF SaveSuccess, At, Over, WebhookTypeOK
<1>7. /\ flight' \in [Procs -> [Attempts -> FlightRec]]
      /\ \A q \in Procs, b \in Attempts : flight'[q][b] = IF q = p THEN new[b] ELSE flight[q][b]
  BY <1>5, <1>6, ManyFlights
<1>8. /\ Over(p, a) => \A b \in f.mates : flight'[p][b] = NoFlight
      /\ \A q \in Procs, b \in Attempts \ (f.mates \cup {a}) : flight'[q][b] = flight[q][b]
      /\ \A q \in Procs \ {p}, b \in Attempts : flight'[q][b] = flight[q][b]
  <2>1. f.mates \subseteq Attempts
    BY <1>f DEF FlightRec
  <2> QED
    BY <1>4, <1>7, <2>1
<1>9. ~Over(p, a) => \A q \in Procs, b \in Attempts :
                   flight'[q][b] = IF q = p /\ b = a THEN At(f, "saved") ELSE flight[q][b]
  BY <1>4, <1>7
<1>10. \A q \in Procs, b \in Attempts : flight'[q][b] \in {flight[q][b], NoFlight, At(f, "saved")}
  BY <1>4, <1>7
<1> QED
  BY <1>f, <1>1, <1>3, <1>7, <1>8, <1>9, <1>10

\* A send ends with a document of the attempt.
LEMMA EndMoves ==
    ASSUME WebhookTypeOK, NEW p \in Procs, NEW a \in Attempts, flight' = [flight EXCEPT ![p][a] = NoFlight]
    PROVE  /\ flight' \in [Procs -> [Attempts -> FlightRec]]
           /\ \A q \in Procs, b \in Attempts : flight'[q][b] = IF q = p /\ b = a THEN NoFlight ELSE flight[q][b]
  BY NoFlightType, OneFlight

LEMMA MissingMoves ==
    ASSUME WebhookTypeOK, NEW p \in Procs, NEW a \in Attempts, SaveMissing(p, a)
    PROVE  /\ att' \in [Attempts -> AttemptDoc]
           /\ att'[a].status = "exhausted" /\ att'[a].attempts = att[a].attempts
           /\ \A b \in Attempts \ {a} : att'[b] = att[b]
<1>1. PICK doc : doc = [att[a] EXCEPT !.status = "exhausted", !.due = "null"]
  OBVIOUS
<1>2. doc \in AttemptDoc /\ doc.status = "exhausted" /\ doc.attempts = att[a].attempts
  BY <1>1 DEF WebhookTypeOK, AttemptDoc
<1>3. att' = [att EXCEPT ![a] = doc]
  BY <1>1 DEF SaveMissing, WebhookTypeOK
<1> QED
  BY <1>2, <1>3, OneDoc

LEMMA FailureMoves ==
    ASSUME WebhookTypeOK, NEW p \in Procs, NEW a \in Attempts, SaveFailure(p, a)
    PROVE  LET f == flight[p][a]
           IN /\ f.pc = "refused"
              /\ att' \in [Attempts -> AttemptDoc]
              /\ att'[a].attempts = f.n
              /\ att'[a].status = IF f.n >= MaxRetries THEN "exhausted" ELSE IF f.was = "failed" THEN att[a].status ELSE "failed"
              /\ \A b \in Attempts \ {a} : att'[b] = att[b]
<1> DEFINE f == flight[p][a]
<1>1. PICK doc : doc = FailedDoc(att[a], f)
  OBVIOUS
<1>f. f \in FlightRec /\ att[a] \in AttemptDoc /\ f.n \in Nat
  BY DEF WebhookTypeOK, FlightRec
<1>2. /\ doc \in AttemptDoc /\ doc.attempts = f.n
      /\ doc.status = IF f.n >= MaxRetries THEN "exhausted" ELSE IF f.was = "failed" THEN att[a].status ELSE "failed"
  BY <1>1, <1>f DEF FailedDoc, AttemptDoc
<1>3. att' = [att EXCEPT ![a] = doc] /\ f.pc = "refused"
  BY <1>1 DEF SaveFailure, WebhookTypeOK
<1> QED
  BY <1>2, <1>3, OneDoc

LEMMA RipenMoves ==
    ASSUME WebhookTypeOK, NEW a \in Attempts, Ripen(a)
    PROVE  /\ att' \in [Attempts -> AttemptDoc]
           /\ att'[a].status = att[a].status /\ att'[a].attempts = att[a].attempts
           /\ \A b \in Attempts \ {a} : att'[b] = att[b]
<1>1. PICK doc : doc = [att[a] EXCEPT !.due = "now"]
  OBVIOUS
<1>2. doc \in AttemptDoc /\ doc.status = att[a].status /\ doc.attempts = att[a].attempts
  BY <1>1 DEF WebhookTypeOK, AttemptDoc
<1>3. att' = [att EXCEPT ![a] = doc]
  BY <1>1 DEF Ripen, WebhookTypeOK
<1> QED
  BY <1>2, <1>3, OneDoc

LEMMA UpdateMoves ==
    ASSUME WebhookTypeOK, NEW s \in Subs, UpdateWebhook(s)
    PROVE  sub' \in [Subs -> SubDoc]
  BY DEF UpdateWebhook, WebhookTypeOK

LEMMA AloneTypes ==
    ASSUME NEW f \in FlightRec, NEW m \in Attempts, NEW n \in Nat
    PROVE  /\ Thrown(f, m, n) \in FlightRec /\ Alone(f, m) \in FlightRec
           /\ Thrown(f, m, n).pc = "refused" /\ Alone(f, m).pc = f.pc
<1>1. Alone(f, m) \in FlightRec /\ Alone(f, m).pc = f.pc
  BY DEF Alone, FlightRec
<1>2. PICK g \in FlightRec : g = Alone(f, m)
  BY <1>1
<1>3. Thrown(f, m, n) = [g EXCEPT !.pc = "refused", !.n = n, !.was = "success"]
  BY <1>2 DEF Thrown
<1>4. /\ [g EXCEPT !.pc = "refused", !.n = n, !.was = "success"] \in FlightRec
      /\ [g EXCEPT !.pc = "refused", !.n = n, !.was = "success"].pc = "refused"
  BY DEF FlightRec
<1> QED
  BY <1>1, <1>3, <1>4

\* The copies after a save that threw.
LEMMA ThrowTypes ==
    ASSUME WebhookTypeOK, NEW p \in Procs, NEW a \in Attempts, SaveSuccessThrows(p, a)
    PROVE  /\ flight' \in [Procs -> [Attempts -> FlightRec]] /\ faults' \in Nat
           /\ \A q \in Procs, b \in Attempts : flight'[q][b].pc \in {flight[q][b].pc, "refused"}
<1> DEFINE f == flight[p][a]
           hit == {a} \cup {m \in f.mates : flight[p][m].pc = "saved"}
           again == IF f.kind = "batch" THEN f.n + 1 ELSE f.n
<1>1. f \in FlightRec /\ flight[p] \in [Attempts -> FlightRec] /\ again \in Nat
  BY DEF WebhookTypeOK, FlightRec
<1>2. ASSUME NEW m \in Attempts
      PROVE  /\ Thrown(flight[p][m], m, again) \in FlightRec /\ Alone(flight[p][m], m) \in FlightRec
             /\ Thrown(flight[p][m], m, again).pc = "refused" /\ Alone(flight[p][m], m).pc = flight[p][m].pc
  BY <1>1, AloneTypes
<1>3. PICK new : new = [m \in Attempts |-> IF m \in hit THEN Thrown(flight[p][m], m, again)
                                           ELSE IF m \in f.mates THEN Alone(flight[p][m], m) ELSE flight[p][m]]
  BY Zenon
<1>4. new \in [Attempts -> FlightRec]
  BY <1>1, <1>2, <1>3
<1>5. flight' = [flight EXCEPT ![p] = new] /\ Fault
  BY <1>3 DEF SaveSuccessThrows, WebhookTypeOK
<1>6. /\ flight' \in [Procs -> [Attempts -> FlightRec]]
      /\ \A q \in Procs, b \in Attempts : flight'[q][b] = IF q = p THEN new[b] ELSE flight[q][b]
  BY <1>4, <1>5, ManyFlights
<1>8. \A b \in Attempts : new[b].pc \in {flight[p][b].pc, "refused"}
  BY <1>2, <1>3
<1>7. faults' \in Nat
  BY <1>5, FaultType
<1> QED
  BY <1>6, <1>7, <1>8

LEMMA CrashTypes ==
    ASSUME WebhookTypeOK, NEW p \in Procs, Crash(p)
    PROVE  /\ flight' \in [Procs -> [Attempts -> FlightRec]] /\ batch' \in [Procs -> [Subs -> SUBSET Attempts]]
           /\ disp' \in [Events -> [Procs -> DispRec]] /\ faults' \in Nat
           /\ \A q \in Procs, b \in Attempts : flight'[q][b] = flight[q][b] \/ flight'[q][b] = NoFlight
<1>1. PICK new : new = [a \in Attempts |-> NoFlight]
  OBVIOUS
<1>2. new \in [Attempts -> FlightRec]
  BY <1>1, NoFlightType
<1>3. /\ flight' \in [Procs -> [Attempts -> FlightRec]]
      /\ \A q \in Procs, b \in Attempts : flight'[q][b] = IF q = p THEN new[b] ELSE flight[q][b]
  BY <1>1, <1>2, ManyFlights DEF Crash
<1>4. batch' \in [Procs -> [Subs -> SUBSET Attempts]]
  BY DEF Crash, WebhookTypeOK
<1>5. ASSUME NEW e \in Events PROVE disp'[e] \in [Procs -> DispRec]
  <2>1. disp[e] \in [Procs -> DispRec] /\ disp[e][p] \in DispRec
    BY DEF WebhookTypeOK
  <2>2. PICK new1 : new1 = [disp[e][p] EXCEPT !.pc = IF @ = "idle" THEN @ ELSE "done", !.todo = {}]
    OBVIOUS
  <2>3. new1 \in DispRec
    BY <2>1, <2>2 DEF DispRec
  <2>4. disp'[e] = [disp[e] EXCEPT ![p] = new1]
    BY <2>1, <2>2 DEF Crash
  <2> QED
    BY <2>1, <2>3, <2>4
<1>6. DOMAIN disp' = Events /\ disp' = [e \in Events |-> disp'[e]]
  BY DEF Crash
<1>7. disp' \in [Events -> [Procs -> DispRec]]
  BY <1>5, <1>6
<1>8. faults' \in Nat
  BY FaultType DEF Crash
<1> QED
  BY <1>1, <1>3, <1>4, <1>7, <1>8

LEMMA WebhookTypes == ASSUME WebhookTypeOK, WebhookStep PROVE WebhookTypeOK'
<1>t. /\ scene \in Scenes /\ sub \in [Subs -> SubDoc] /\ att \in [Attempts -> AttemptDoc]
      /\ disp \in [Events -> [Procs -> DispRec]] /\ batch \in [Procs -> [Subs -> SUBSET Attempts]]
      /\ flight \in [Procs -> [Attempts -> FlightRec]]
      /\ tried \in [Attempts -> Nat] /\ got \in [Attempts -> 0..2] /\ faults \in Nat
  BY DEF WebhookTypeOK
<1>s. scene' = scene
  BY DEF WebhookStep, On
<1>1. ASSUME NEW p \in Procs, NEW e \in Events, Dispatch(p, e) PROVE WebhookTypeOK'
  <2>1. UNCHANGED <<sub, att, batch, flight, tried, got, faults>>
    BY <1>1 DEF Dispatch
  <2> QED
    BY <1>t, <1>s, <1>1, <2>1, DispatchMoves DEF WebhookTypeOK
<1>2. ASSUME NEW p \in Procs, NEW e \in Events, FindSubscriptions(p, e) PROVE WebhookTypeOK'
  <2>1. UNCHANGED <<sub, att, batch, flight, tried, got, faults>>
    BY <1>2 DEF FindSubscriptions
  <2> QED
    BY <1>t, <1>s, <1>2, <2>1, FindMoves DEF WebhookTypeOK
<1>3. ASSUME NEW p \in Procs, NEW e \in Events, NEW s \in Subs, CreateAndSend(p, e, s) PROVE WebhookTypeOK'
  <2>1. UNCHANGED <<sub, batch, tried, got, faults>> /\ Created(p, e, s)
    BY <1>3 DEF CreateAndSend
  <2>2. flight' \in [Procs -> [Attempts -> FlightRec]] /\ att' \in [Attempts -> AttemptDoc]
    BY <1>3, CreateMoves
  <2> QED
    BY <1>t, <1>s, <2>1, <2>2, CreatedMoves DEF WebhookTypeOK
<1>4. ASSUME NEW p \in Procs, NEW e \in Events, NEW s \in Subs, QueueBatched(p, e, s) PROVE WebhookTypeOK'
  <2>1. UNCHANGED <<sub, flight, tried, got, faults>> /\ Created(p, e, s)
    BY <1>4 DEF QueueBatched
  <2>2. batch' \in [Procs -> [Subs -> SUBSET Attempts]] /\ att' \in [Attempts -> AttemptDoc]
    BY <1>4, QueueMoves
  <2> QED
    BY <1>t, <1>s, <2>1, <2>2, CreatedMoves DEF WebhookTypeOK
<1>5. ASSUME NEW p \in Procs, NEW e \in Events, NEW s \in Subs, CreateThrows(p, e, s) PROVE WebhookTypeOK'
  <2>1. UNCHANGED <<sub, att, batch, flight, tried, got>> /\ Created(p, e, s) /\ faults' \in Nat
    BY <1>5, FaultType DEF CreateThrows
  <2> QED
    BY <1>t, <1>s, <2>1, CreatedMoves DEF WebhookTypeOK
<1>6. ASSUME NEW p \in Procs, NEW s \in Subs, FlushBatch(p, s) PROVE WebhookTypeOK'
  <2>1. UNCHANGED <<sub, att, disp, tried, got, faults>>
    BY <1>6 DEF FlushBatch
  <2>2. flight' \in [Procs -> [Attempts -> FlightRec]] /\ batch' \in [Procs -> [Subs -> SUBSET Attempts]]
    BY <1>6, FlushMoves
  <2> QED
    BY <1>t, <1>s, <2>1, <2>2 DEF WebhookTypeOK
<1>7. ASSUME NEW p \in Procs, Sweep(p) PROVE WebhookTypeOK'
  <2>1. UNCHANGED <<sub, att, disp, batch, tried, got, faults>>
    BY <1>7 DEF Sweep
  <2> QED
    BY <1>t, <1>s, <1>7, <2>1, SweepMoves DEF WebhookTypeOK
<1>8. ASSUME NEW p \in Procs, NEW a \in Attempts, Sending(p, a) PROVE WebhookTypeOK'
  <2>1. CASE LookUp(p, a)
    <3>1. UNCHANGED <<sub, att, disp, batch, tried, got, faults>>
      BY <2>1 DEF LookUp
    <3> QED
      BY <1>t, <1>s, <2>1, <3>1, LookUpMoves DEF WebhookTypeOK
  <2>2. CASE SaveMissing(p, a)
    <3>1. UNCHANGED <<sub, disp, batch, tried, got, faults>> /\ flight' = [flight EXCEPT ![p][a] = NoFlight]
      BY <2>2 DEF SaveMissing
    <3> QED
      BY <1>t, <1>s, <2>2, <3>1, EndMoves, MissingMoves DEF WebhookTypeOK
  <2>3. CASE Post(p, a)
    <3>1. UNCHANGED <<sub, att, disp, batch>>
      BY <2>3 DEF Post
    <3>2. got' \in [Attempts -> 0..2] /\ tried' \in [Attempts -> Nat] /\ faults' \in Nat
          /\ flight' \in [Procs -> [Attempts -> FlightRec]]
      BY <2>3, PostMoves
    <3> QED
      BY <1>t, <1>s, <3>1, <3>2 DEF WebhookTypeOK
  <2>4. CASE SaveSuccess(p, a)
    <3>1. UNCHANGED <<sub, disp, batch, tried, got, faults>>
      BY <2>4 DEF SaveSuccess
    <3>2. att' \in [Attempts -> AttemptDoc] /\ flight' \in [Procs -> [Attempts -> FlightRec]]
      BY <2>4, SuccessMoves
    <3> QED
      BY <1>t, <1>s, <3>1, <3>2 DEF WebhookTypeOK
  <2>5. CASE SaveFailure(p, a)
    <3>1. UNCHANGED <<sub, disp, batch, tried, got, faults>> /\ flight' = [flight EXCEPT ![p][a] = NoFlight]
      BY <2>5 DEF SaveFailure
    <3>2. att' \in [Attempts -> AttemptDoc]
      BY <2>5, FailureMoves
    <3> QED
      BY <1>t, <1>s, <3>1, <3>2, EndMoves DEF WebhookTypeOK
  <2> QED
    BY <1>8, <2>1, <2>2, <2>3, <2>4, <2>5 DEF Sending
<1>9. ASSUME NEW p \in Procs, NEW a \in Attempts, SaveSuccessThrows(p, a) PROVE WebhookTypeOK'
  <2>1. UNCHANGED <<sub, att, disp, batch, tried, got>>
    BY <1>9 DEF SaveSuccessThrows
  <2> QED
    BY <1>t, <1>s, <1>9, <2>1, ThrowTypes DEF WebhookTypeOK
<1>10. ASSUME NEW p \in Procs, NEW a \in Attempts, SaveFailureThrows(p, a) PROVE WebhookTypeOK'
  <2>1. UNCHANGED <<sub, att, disp, batch, tried, got>> /\ flight' = [flight EXCEPT ![p][a] = NoFlight] /\ faults' \in Nat
    BY <1>10, FaultType DEF SaveFailureThrows
  <2> QED
    BY <1>t, <1>s, <2>1, EndMoves DEF WebhookTypeOK
<1>11. ASSUME NEW p \in Procs, Crash(p) PROVE WebhookTypeOK'
  <2>1. UNCHANGED <<sub, att, tried, got>>
    BY <1>11 DEF Crash
  <2> QED
    BY <1>t, <1>s, <1>11, <2>1, CrashTypes DEF WebhookTypeOK
<1>12. ASSUME NEW s \in Subs, UpdateWebhook(s) PROVE WebhookTypeOK'
  <2>1. UNCHANGED <<att, disp, batch, flight, tried, got, faults>>
    BY <1>12 DEF UpdateWebhook
  <2> QED
    BY <1>t, <1>s, <1>12, <2>1, UpdateMoves DEF WebhookTypeOK
<1>13. ASSUME NEW a \in Attempts, Ripen(a) PROVE WebhookTypeOK'
  <2>1. UNCHANGED <<sub, disp, batch, flight, tried, got, faults>>
    BY <1>13 DEF Ripen
  <2> QED
    BY <1>t, <1>s, <1>13, <2>1, RipenMoves DEF WebhookTypeOK
<1> QED
  BY <1>1, <1>2, <1>3, <1>4, <1>5, <1>6, <1>7, <1>8, <1>9, <1>10, <1>11, <1>12, <1>13 DEF WebhookStep, Dispatching

-----------------------------------------------------------------------------
(* What a step leaves alone *)

\* Nothing is written of attempt a.
Same(a) ==
    /\ att'[a] = att[a] /\ tried'[a] = tried[a] /\ got'[a] = got[a]
    /\ \A p \in Procs : flight'[p][a] = flight[p][a]
    /\ \A p \in Procs, s \in Subs : a \in batch'[p][s] <=> a \in batch[p][s]

LEMMA SameIsBlank ==
    ASSUME NEW a \in Attempts, Same(a), Blank(a) PROVE Blank(a)'
<1>1. a[2] \in Subs
  BY DEF Attempts
<1>2. \A p \in Procs : a \notin batch'[p][a[2]]
  BY <1>1 DEF Same, Blank
<1> QED
  BY <1>2 DEF Same, Blank

LEMMA SameIsOK ==
    ASSUME NEW a \in Attempts, Same(a), AttemptOK(a), scene' = scene PROVE AttemptOK(a)'
<1>s. /\ att'[a] = att[a] /\ tried'[a] = tried[a] /\ got'[a] = got[a]
      /\ \A p \in Procs : flight'[p][a] = flight[p][a]
      /\ \A p \in Procs, s \in Subs : a \in batch'[p][s] <=> a \in batch[p][s]
  BY DEF Same
<1>1. WaitOK(a)'
  BY <1>s DEF AttemptOK, WaitOK
<1>2. CountsArePaid(a)'
  BY <1>s DEF AttemptOK, CountsArePaid
<1>3. ASSUME NEW p \in Procs PROVE FlightOK(p, a)'
  BY <1>s DEF AttemptOK, FlightOK
<1>4. ASSUME NEW p \in Procs, scene.procs = {p} PROVE SoleOK(p, a)'
  BY <1>s, <1>4 DEF AttemptOK, SoleOK
<1> QED
  BY <1>1, <1>2, <1>3, <1>4 DEF AttemptOK

\* A step that writes the attempts of S, none of which is blank, and dispatches nothing.
LEMMA DispatchRests ==
    ASSUME WebhookTypeOK, Calm, NEW S, \A a \in S : ~Blank(a), \A a \in Attempts \ S : Same(a), UNCHANGED disp,
           NEW e \in Events
    PROVE  DispatchOK(e)'
<1>1. ASSUME NEW a \in Attempts, Blank(a) PROVE Blank(a)'
  BY <1>1, SameIsBlank
<1>2. \A s \in Subs : <<e, s>> \in Attempts
  BY DEF Attempts
<1>3. DispatchOK(e)
  BY DEF Calm
<1>4. \A p \in Procs : disp'[e][p] = disp[e][p]
  OBVIOUS
<1>5. /\ \A p \in Procs : disp'[e][p].pc \in {"idle", "find", "done"} => disp'[e][p].todo = {}
      /\ \A p, q \in Procs : disp'[e][p].pc # "idle" /\ disp'[e][q].pc # "idle" => p = q
  BY <1>3, <1>4 DEF DispatchOK
<1>6. (\A p \in Procs : disp'[e][p].pc \in {"idle", "find"}) => \A s \in Subs : Blank(<<e, s>>)'
  BY <1>1, <1>2, <1>3, <1>4 DEF DispatchOK
<1>7. ASSUME NEW p \in Procs, NEW s \in disp'[e][p].todo PROVE Blank(<<e, s>>)'
  <2>1. s \in disp[e][p].todo
    BY <1>4
  <2>2. Blank(<<e, s>>)
    BY <1>3, <2>1 DEF DispatchOK
  <2>3. s \in Subs
    BY <2>1 DEF WebhookTypeOK, DispRec
  <2> QED
    BY <1>1, <1>2, <2>2, <2>3
<1> QED
  BY <1>5, <1>6, <1>7 DEF DispatchOK

\* The copies of other attempts, whose mates are not written.
LEMMA MatesRest ==
    ASSUME Calm, NEW S, \A a \in Attempts \ S : Same(a), NEW p \in Procs, NEW b \in Attempts \ S,
           flight[p][b].mates \subseteq Attempts,
           flight[p][b].pc \in {"post", "taken", "saved"} => flight[p][b].mates \cap S = {}
    PROVE  MatesOK(p, b)'
<1>1. MatesOK(p, b) /\ flight'[p][b] = flight[p][b]
  BY DEF Calm, Same
<1>2. ASSUME flight[p][b].pc \in {"post", "taken", "saved"}, NEW m \in flight[p][b].mates
      PROVE  flight'[p][m] = flight[p][m]
  BY <1>2 DEF Same
<1> QED
  BY <1>1, <1>2 DEF MatesOK

-----------------------------------------------------------------------------
(* Steps with nothing failing *)

\* Calm' from its parts, for a step that writes the attempts of S.
LEMMA CalmFollows ==
    ASSUME WebhookTypeOK, Calm, UNCHANGED <<scene, disp>>, NEW S \in SUBSET Attempts, \A a \in S : ~Blank(a),
           \A a \in Attempts \ S : Same(a),
           \A a \in S : AttemptOK(a)' /\ \A p \in Procs : MatesOK(p, a)',
           \A p \in Procs, b \in Attempts \ S :
                flight[p][b].pc \in {"post", "taken", "saved"} => flight[p][b].mates \cap S = {}
    PROVE  Calm'
<1>1. ASSUME NEW e \in Events PROVE DispatchOK(e)'
  BY DispatchRests
<1>2. ASSUME NEW a \in Attempts PROVE AttemptOK(a)'
  BY SameIsOK DEF Calm
<1>3. ASSUME NEW a \in Attempts, NEW p \in Procs PROVE MatesOK(p, a)'
  <2>1. flight[p][a].mates \subseteq Attempts
    BY DEF WebhookTypeOK, FlightRec
  <2> QED
    BY <2>1, MatesRest
<1> QED
  BY <1>1, <1>2, <1>3 DEF Calm

LEMMA OneFollows ==
    ASSUME WebhookTypeOK, Calm, UNCHANGED <<scene, disp>>, NEW a \in Attempts, ~Blank(a),
           \A b \in Attempts \ {a} : Same(b), AttemptOK(a)', \A p \in Procs : MatesOK(p, a)',
           \A p \in Procs, b \in Attempts \ {a} :
                flight[p][b].pc \in {"post", "taken", "saved"} => flight[p][b].mates \cap {a} = {}
    PROVE  Calm'
<1>1. PICK S \in SUBSET Attempts : S = {a}
  OBVIOUS
<1>2. /\ \A b \in S : ~Blank(b) /\ AttemptOK(b)' /\ \A p \in Procs : MatesOK(p, b)'
      /\ \A b \in Attempts \ S : Same(b)
  BY <1>1
<1>3. \A p \in Procs, b \in Attempts \ S :
        flight[p][b].pc \in {"post", "taken", "saved"} => flight[p][b].mates \cap S = {}
  BY <1>1
<1> QED
  BY <1>2, <1>3, CalmFollows

LEMMA RipenIsCalm == ASSUME WebhookTypeOK, Calm, scene' = scene, NEW a \in Attempts, Ripen(a) PROVE Calm'
<1>1. UNCHANGED <<sub, disp, batch, flight, tried, got, faults>> /\ att[a].due = "later"
  BY DEF Ripen
<1>2. /\ att'[a].status = att[a].status /\ att'[a].attempts = att[a].attempts
      /\ \A b \in Attempts \ {a} : att'[b] = att[b]
  BY RipenMoves
<1>o. AttemptOK(a) /\ (\A p \in Procs : MatesOK(p, a)) /\ \A e \in Events : DispatchOK(e)
  BY DEF Calm
<1>3. \A b \in Attempts \ {a} : Same(b)
  BY <1>1, <1>2 DEF Same
<1>4. AttemptOK(a)'
  <2>1. WaitOK(a)' /\ CountsArePaid(a)'
    BY <1>1, <1>2, <1>o DEF AttemptOK, WaitOK, CountsArePaid
  <2>2. ASSUME NEW p \in Procs PROVE FlightOK(p, a)'
    BY <1>1, <1>2, <1>o DEF AttemptOK, FlightOK
  <2>3. ASSUME NEW p \in Procs, scene.procs = {p} PROVE SoleOK(p, a)'
    BY <1>1, <1>2, <1>o, <2>3 DEF AttemptOK, SoleOK
  <2> QED
    BY <2>1, <2>2, <2>3 DEF AttemptOK
<1>5. ASSUME NEW b \in Attempts, NEW p \in Procs PROVE MatesOK(p, b)'
  BY <1>1 DEF MatesOK, Calm
<1>6. ASSUME NEW b \in Attempts, Blank(b) PROVE Blank(b)'
  <2>1. CASE b = a
    BY <1>1, <1>2, <1>6, <2>1 DEF Blank
  <2>2. CASE b # a
    BY <1>3, <1>6, <2>2, SameIsBlank
  <2> QED
    BY <2>1, <2>2
<1>7. ASSUME NEW e \in Events PROVE DispatchOK(e)'
  <2>1. \A s \in Subs : <<e, s>> \in Attempts
    BY DEF Attempts
  <2>2. \A p \in Procs : disp[e][p].todo \subseteq Subs
    BY DEF WebhookTypeOK, DispRec
  <2> QED
    BY <1>1, <1>o, <1>6, <2>1, <2>2 DEF DispatchOK
<1>8. \A b \in Attempts : AttemptOK(b)'
  BY <1>3, <1>4, SameIsOK DEF Calm
<1> QED
  BY <1>5, <1>7, <1>8 DEF Calm

LEMMA SweepIsCalm == ASSUME WebhookTypeOK, Calm, scene' = scene, NEW p \in Procs, Sweep(p) PROVE Calm'
<1>1. UNCHANGED <<sub, att, disp, batch, tried, got, faults>>
  BY DEF Sweep
<1>2. PICK S \in SUBSET Attempts :
        /\ \A a \in S : Retryable(a)
        /\ \A a \in Attempts : flight[p][a].kind = "sweep" => flight[p][a].pc = "idle"
        /\ \A q \in Procs, b \in Attempts : flight'[q][b] = IF q = p /\ b \in S THEN SweepSend(b) ELSE flight[q][b]
  BY SweepMoves
<1>3. \A a \in S : ~Blank(a) /\ att[a].status = "failed" /\ att[a].attempts \in Nat /\ tried[a] \in Nat
  BY <1>2 DEF Retryable, Blank, WebhookTypeOK, AttemptDoc
<1>4. \A b \in Attempts \ S : Same(b)
  BY <1>1, <1>2 DEF Same
<1>5. ASSUME NEW a \in S PROVE AttemptOK(a)' /\ \A q \in Procs : MatesOK(q, a)'
  <2>o. AttemptOK(a) /\ att[a].status = "failed"
    BY <1>3 DEF Calm
  \* No first send is under way, for the attempt has failed.
  <2>1. \A q \in Procs : flight[q][a].pc = "idle" \/ (flight[q][a].kind = "sweep" /\ flight[q][a].was = "failed"
                              /\ flight[q][a].mates = {a} /\ flight[q][a].pc # "saved")
    BY <2>o DEF AttemptOK, FlightOK
  <2>2. PICK new : new = SweepSend(a)
    OBVIOUS
  <2>3. /\ new.pc = "lookup" /\ new.kind = "sweep" /\ new.n = att[a].attempts + 1 /\ new.was = "failed" /\ new.mates = {a}
        /\ flight'[p][a] = new /\ \A q \in Procs \ {p} : flight'[q][a] = flight[q][a]
    BY <1>2, <2>2, <2>o DEF SweepSend
  <2>4. FlightOK(p, a)' /\ \A q \in Procs \ {p} : FlightOK(q, a)'
    BY <1>1, <2>o, <2>1, <2>3 DEF FlightOK
  <2>5. WaitOK(a)'
    BY <1>1, <2>o DEF AttemptOK, WaitOK
  <2>6. CountsArePaid(a)'
    BY <1>1, <1>3, <2>o, <2>3 DEF AttemptOK, CountsArePaid
  <2>7. ASSUME NEW q \in Procs, scene.procs = {q} PROVE SoleOK(q, a)'
    <3>1. SoleOK(q, a)
      BY <2>7, <2>o DEF AttemptOK
    <3>2. CASE q # p
      BY <1>1, <2>3, <3>1, <3>2 DEF SoleOK
    <3>3. CASE q = p
      <4>1. flight[p][a].pc = "idle"
        BY <1>2, <2>1
      <4>2. tried[a] = att[a].attempts /\ got[a] = 0 /\ att[a].attempts < MaxRetries
        BY <2>o, <3>1, <3>3, <4>1 DEF SoleOK
      <4> QED
        BY <1>1, <1>3, <2>o, <2>3, <3>1, <3>3, <4>2, WebhooksAssumption DEF SoleOK
    <3> QED
      BY <3>2, <3>3
  <2>8. ASSUME NEW q \in Procs PROVE MatesOK(q, a)'
    <3>1. CASE q = p
      BY <2>3, <3>1 DEF MatesOK
    <3>2. CASE q # p
      <4>1. flight'[q][a].mates = {a} \/ flight'[q][a].pc = "idle"
        BY <2>1, <2>3, <3>2
      <4>2. flight'[q][a].pc # "saved"
        BY <2>1, <2>3, <3>2
      <4> QED
        BY <4>1, <4>2 DEF MatesOK
    <3> QED
      BY <3>1, <3>2
  <2> QED
    BY <1>1, <2>4, <2>5, <2>6, <2>7, <2>8 DEF AttemptOK
<1>6. ASSUME NEW q \in Procs, NEW b \in Attempts \ S, flight[q][b].pc \in {"post", "taken", "saved"},
             NEW m \in flight[q][b].mates, m \in S
      PROVE  FALSE
  <2>1. m \in Attempts /\ MatesOK(q, b) /\ b \in flight[q][b].mates
    BY <1>6 DEF Calm, MatesOK
  <2>2. flight[q][m].mates = flight[q][b].mates /\ flight[q][m].pc # "idle"
    BY <1>6, <2>1 DEF MatesOK
  <2>3. flight[q][m].mates = {m}
    BY <1>3, <1>6, <2>1, <2>2 DEF Calm, AttemptOK, FlightOK
  <2> QED
    BY <1>6, <2>1, <2>2, <2>3
<1> QED
  BY <1>1, <1>3, <1>4, <1>5, <1>6, CalmFollows

Posted == {"post", "taken", "saved"}

LEMMA MatesTogether ==
    ASSUME Calm, NEW q \in Procs, NEW b \in Attempts, flight[q][b].pc \in Posted,
           NEW m \in Attempts, m \in flight[q][b].mates
    PROVE  /\ b \in flight[q][m].mates /\ flight[q][m].mates = flight[q][b].mates
           /\ flight[q][m].pc \in Posted
  BY DEF Calm, MatesOK, Posted

\* Two processes with copies of one attempt both retry it.
LEMMA BothSweep ==
    ASSUME Calm, NEW a \in Attempts, NEW p \in Procs, NEW q \in Procs, p # q,
           flight[p][a].pc # "idle", flight[q][a].pc # "idle"
    PROVE  flight[p][a].mates = {a} /\ flight[q][a].mates = {a}
  BY DEF Calm, AttemptOK, FlightOK

\* An attempt past its POST, or that was posted alone, is nobody's mate.
LEMMA Apart ==
    ASSUME Calm, NEW p \in Procs, NEW a \in Attempts, flight[p][a].pc \notin Posted \cup {"idle"},
           NEW q \in Procs, NEW b \in Attempts \ {a}, flight[q][b].pc \in Posted
    PROVE  flight[q][b].mates \cap {a} = {}
<1> SUFFICES ASSUME a \in flight[q][b].mates PROVE FALSE
  OBVIOUS
<1>1. b \in flight[q][a].mates /\ flight[q][a].pc \in Posted
  BY MatesTogether
<1>2. q # p
  BY <1>1
<1>3. flight[q][a].mates = {a}
  BY <1>1, <1>2, BothSweep DEF Posted
<1> QED
  BY <1>1, <1>3

\* The mates of one POST share none with any other.
LEMMA PostsApart ==
    ASSUME Calm, NEW p \in Procs, NEW a \in Attempts, flight[p][a].pc \in Posted, flight[p][a].mates \subseteq Attempts,
           NEW q \in Procs, NEW b \in Attempts \ flight[p][a].mates, flight[q][b].pc \in Posted
    PROVE  flight[q][b].mates \cap flight[p][a].mates = {}
<1> SUFFICES ASSUME NEW m \in flight[p][a].mates, m \in flight[q][b].mates PROVE FALSE
  OBVIOUS
<1>1. flight[p][m].mates = flight[p][a].mates /\ flight[p][m].pc \in Posted
  BY MatesTogether
<1>2. b \in flight[q][m].mates /\ flight[q][m].pc \in Posted
  BY MatesTogether
<1>3. q # p
  BY <1>1, <1>2
<1>4. flight[q][m].mates = {m}
  BY <1>1, <1>2, <1>3, BothSweep DEF Posted
<1> QED
  BY <1>2, <1>4

LEMMA LookUpIsCalm ==
    ASSUME WebhookTypeOK, Calm, scene' = scene, NEW p \in Procs, NEW a \in Attempts, LookUp(p, a) PROVE Calm'
<1>1. UNCHANGED <<sub, att, disp, batch, tried, got, faults>> /\ flight[p][a].pc = "lookup"
  BY DEF LookUp
<1>2. PICK pc \in {"post", "missing"} :
        \A q \in Procs, b \in Attempts : flight'[q][b] = IF q = p /\ b = a THEN At(flight[p][a], pc) ELSE flight[q][b]
  BY LookUpMoves
<1>3. PICK new : new = At(flight[p][a], pc)
  OBVIOUS
<1>4. /\ new.pc = pc /\ new.kind = flight[p][a].kind /\ new.n = flight[p][a].n
      /\ new.was = flight[p][a].was /\ new.mates = flight[p][a].mates
  BY <1>3, AtFields DEF WebhookTypeOK
<1>5. flight'[p][a] = new /\ \A q \in Procs, b \in Attempts : q # p \/ b # a => flight'[q][b] = flight[q][b]
  BY <1>2, <1>3
<1>o. AttemptOK(a)
  BY DEF Calm
<1>6. \A b \in Attempts \ {a} : Same(b)
  BY <1>1, <1>5 DEF Same
<1>7. ~Blank(a)
  BY <1>1 DEF Blank
<1>8. flight[p][a].kind = "sweep" /\ flight[p][a].was = "failed" /\ flight[p][a].mates = {a}
  BY <1>1, <1>o DEF AttemptOK, FlightOK
<1>9. AttemptOK(a)'
  <2>1. WaitOK(a)' /\ CountsArePaid(a)'
    BY <1>1, <1>4, <1>5, <1>o DEF AttemptOK, WaitOK, CountsArePaid
  <2>2. ASSUME NEW q \in Procs PROVE FlightOK(q, a)'
    BY <1>1, <1>4, <1>5, <1>8, <1>o DEF AttemptOK, FlightOK
  <2>3. ASSUME NEW q \in Procs, scene.procs = {q} PROVE SoleOK(q, a)'
    BY <1>1, <1>4, <1>5, <1>o, <2>3 DEF AttemptOK, SoleOK
  <2> QED
    BY <1>1, <2>1, <2>2, <2>3 DEF AttemptOK
<1>10. ASSUME NEW q \in Procs PROVE MatesOK(q, a)'
  <2>1. CASE q = p
    BY <1>4, <1>5, <1>8, <2>1 DEF MatesOK
  <2>2. CASE q # p
    <3>1. flight[q][a].pc # "idle" => flight[q][a].mates = {a}
      BY <1>1, <2>2, BothSweep
    <3>2. flight'[q][a] = flight[q][a] /\ MatesOK(q, a)
      BY <1>5, <2>2 DEF Calm
    <3> QED
      BY <3>1, <3>2 DEF MatesOK
  <2> QED
    BY <2>1, <2>2
<1>11. ASSUME NEW q \in Procs, NEW b \in Attempts \ {a}, flight[q][b].pc \in {"post", "taken", "saved"}
       PROVE  flight[q][b].mates \cap {a} = {}
  BY <1>1, <1>11, Apart DEF Posted
<1> QED
  BY <1>1, <1>6, <1>7, <1>9, <1>10, <1>11, OneFollows

\* A send that ends, of an attempt past its POST, with the document doc.
LEMMA EndIsCalm ==
    ASSUME WebhookTypeOK, Calm, UNCHANGED <<scene, disp, batch, tried, got>>, NEW p \in Procs, NEW a \in Attempts,
           flight[p][a].pc \in {"missing", "refused"}, flight' = [flight EXCEPT ![p][a] = NoFlight],
           \A b \in Attempts \ {a} : att'[b] = att[b],
           att'[a].status \in {"failed", "success", "exhausted"},
           flight[p][a].kind = "sweep" \/ att'[a].status # "success",
           att'[a].attempts <= tried[a],
           ~scene.merchantActs /\ att'[a].status = "exhausted" => tried[a] >= MaxRetries,
           att'[a].status = "failed" /\ scene.procs = {p} =>
               att'[a].attempts = tried[a] /\ got[a] = 0 /\ att'[a].attempts < MaxRetries,
           p \in scene.procs
    PROVE  Calm'
<1>1. /\ flight'[p][a] = NoFlight /\ NoFlight.pc = "idle"
      /\ \A q \in Procs, b \in Attempts : q # p \/ b # a => flight'[q][b] = flight[q][b]
  BY EndMoves, NoFlightType
<1>o. AttemptOK(a)
  BY DEF Calm
<1>2. \A b \in Attempts \ {a} : Same(b)
  BY <1>1 DEF Same
<1>3. ~Blank(a)
  BY DEF Blank
\* Whoever else has a copy retries it too.
<1>4. ASSUME NEW q \in Procs \ {p}, flight[q][a].pc # "idle"
      PROVE  flight[q][a].kind = "sweep" /\ flight[q][a].was = "failed" /\ flight[q][a].mates = {a} /\ flight[q][a].pc # "saved"
  BY <1>o, <1>4 DEF AttemptOK, FlightOK
<1>5. AttemptOK(a)'
  <2>1. WaitOK(a)'
    BY <1>1, <1>o DEF AttemptOK, WaitOK
  <2>2. CountsArePaid(a)'
    BY <1>1, <1>o DEF AttemptOK, CountsArePaid
  <2>3. ASSUME NEW q \in Procs PROVE FlightOK(q, a)'
    BY <1>1, <1>4 DEF FlightOK
  <2>4. ASSUME NEW q \in Procs, scene.procs = {q} PROVE SoleOK(q, a)'
    <3>1. q = p /\ SoleOK(p, a)
      BY <2>4, <1>o DEF AttemptOK
    <3> QED
      BY <1>1, <2>4, <3>1 DEF SoleOK
  <2> QED
    BY <2>1, <2>2, <2>3, <2>4 DEF AttemptOK
<1>6. ASSUME NEW q \in Procs PROVE MatesOK(q, a)'
  <2>1. CASE q = p
    BY <1>1, <2>1 DEF MatesOK
  <2>2. CASE q # p
    <3>1. flight'[q][a] = flight[q][a]
      BY <1>1, <2>2
    <3> QED
      BY <1>4, <2>2, <3>1 DEF MatesOK
  <2> QED
    BY <2>1, <2>2
<1>7. ASSUME NEW q \in Procs, NEW b \in Attempts \ {a}, flight[q][b].pc \in {"post", "taken", "saved"}
      PROVE  flight[q][b].mates \cap {a} = {}
  BY <1>7, Apart DEF Posted
<1> QED
  BY <1>2, <1>3, <1>5, <1>6, <1>7, OneFollows

LEMMA MissingIsCalm ==
    ASSUME WebhookTypeOK, Calm, SubsStay, scene' = scene, NEW p \in Procs, p \in scene.procs, NEW a \in Attempts, SaveMissing(p, a)
    PROVE  Calm'
<1>1. /\ UNCHANGED <<sub, disp, batch, tried, got, faults>> /\ flight[p][a].pc = "missing"
      /\ flight' = [flight EXCEPT ![p][a] = NoFlight]
  BY DEF SaveMissing
<1>2. att'[a].status = "exhausted" /\ att'[a].attempts = att[a].attempts /\ \A b \in Attempts \ {a} : att'[b] = att[b]
  BY MissingMoves
<1>3. att[a].attempts <= tried[a]
  BY DEF Calm, AttemptOK, CountsArePaid
<1>4. scene.merchantActs
  BY <1>1 DEF SubsStay
<1> QED
  BY <1>1, <1>2, <1>3, <1>4, EndIsCalm

LEMMA FailureIsCalm ==
    ASSUME WebhookTypeOK, Calm, scene' = scene, NEW p \in Procs, p \in scene.procs, NEW a \in Attempts, SaveFailure(p, a)
    PROVE  Calm'
<1> DEFINE f == flight[p][a]
<1>1. /\ UNCHANGED <<sub, disp, batch, tried, got, faults>> /\ f.pc = "refused"
      /\ flight' = [flight EXCEPT ![p][a] = NoFlight]
  BY DEF SaveFailure
<1>2. /\ att'[a].attempts = f.n /\ \A b \in Attempts \ {a} : att'[b] = att[b]
      /\ att'[a].status = IF f.n >= MaxRetries THEN "exhausted" ELSE IF f.was = "failed" THEN att[a].status ELSE "failed"
  BY FailureMoves
<1>3. f.n \in Nat /\ tried[a] \in Nat /\ MaxRetries \in Nat
  BY WebhooksAssumption DEF WebhookTypeOK, FlightRec
<1>4. AttemptOK(a) /\ f.n <= tried[a]
  BY <1>1 DEF Calm, AttemptOK, CountsArePaid
<1>5. \/ f.kind # "sweep" /\ f.was = "pending" /\ att[a].status = "pending"
      \/ f.kind = "sweep" /\ f.was = "failed" /\ att[a].status \in {"failed", "success", "exhausted"}
  BY <1>1, <1>4 DEF AttemptOK, FlightOK
<1>6. att'[a].status = "exhausted" /\ ~scene.merchantActs => tried[a] >= MaxRetries
  BY <1>2, <1>3, <1>4, <1>5 DEF AttemptOK, CountsArePaid
<1>7. ASSUME scene.procs = {p}, att'[a].status = "failed" PROVE f.n = tried[a] /\ got[a] = 0 /\ f.n < MaxRetries
  <2>1. SoleOK(p, a)
    BY <1>4, <1>7 DEF AttemptOK
  <2> QED
    BY <1>1, <1>2, <1>3, <1>7, <2>1 DEF SoleOK
<1>8. att'[a].status \in {"failed", "success", "exhausted"} /\ (f.kind = "sweep" \/ att'[a].status # "success")
  BY <1>2, <1>5
<1> QED
  BY <1>1, <1>2, <1>4, <1>6, <1>7, <1>8, EndIsCalm

\* The mates of a POST under way.
LEMMA PostMates ==
    ASSUME WebhookTypeOK, Calm, NEW p \in Procs, NEW a \in Attempts, flight[p][a].pc \in Posted
    PROVE  /\ flight[p][a].mates \in SUBSET Attempts /\ a \in flight[p][a].mates
           /\ \A m \in flight[p][a].mates :
                /\ ~Blank(m) /\ AttemptOK(m) /\ flight[p][m].mates = flight[p][a].mates
                /\ flight[p][m].pc \in Posted
                /\ flight[p][a].pc = "post" <=> flight[p][m].pc = "post"
<1>1. flight[p][a].mates \in SUBSET Attempts
  BY DEF WebhookTypeOK, FlightRec
<1>2. a \in flight[p][a].mates
  BY DEF Calm, MatesOK, Posted
<1>3. ASSUME NEW m \in flight[p][a].mates
      PROVE  /\ AttemptOK(m) /\ flight[p][m].mates = flight[p][a].mates
             /\ flight[p][m].pc \in Posted
             /\ flight[p][a].pc = "post" <=> flight[p][m].pc = "post"
  BY <1>1 DEF Calm, MatesOK, Posted
<1>4. ASSUME NEW m \in flight[p][a].mates PROVE ~Blank(m)
  BY <1>3 DEF Blank, Posted
<1> QED
  BY <1>1, <1>2, <1>3, <1>4

LEMMA PostIsCalm ==
    ASSUME WebhookTypeOK, Calm, scene' = scene, NEW p \in Procs, p \in scene.procs, NEW a \in Attempts, Post(p, a), faults' = 0
    PROVE  Calm'
<1>1. UNCHANGED <<sub, att, disp, batch>> /\ flight[p][a].pc = "post"
  BY DEF Post
<1>p. flight[p][a].pc \in Posted
  BY <1>1 DEF Posted
<1>2. PICK S \in SUBSET Attempts : S = flight[p][a].mates
  BY <1>p, PostMates
<1>3. \A m \in S : ~Blank(m) /\ AttemptOK(m) /\ flight[p][m].mates = S /\ flight[p][m].pc = "post"
  BY <1>1, <1>2, <1>p, PostMates
<1>4. PICK pc \in {"taken", "refused"} :
        /\ \A q \in Procs, b \in Attempts :
                flight'[q][b] = IF q = p /\ b \in S THEN At(flight[q][b], pc) ELSE flight[q][b]
        /\ \A m \in S : got'[m] = IF pc = "taken" /\ got[m] < 2 THEN got[m] + 1 ELSE got[m]
  BY <1>2, PostMoves
<1>5. /\ \A m \in Attempts : tried'[m] = IF m \in S THEN tried[m] + 1 ELSE tried[m]
      /\ \A m \in Attempts \ S : got'[m] = got[m]
  BY <1>2, PostMoves
<1>6. \A b \in Attempts \ S : Same(b)
  BY <1>1, <1>4, <1>5 DEF Same
<1>7. ASSUME NEW m \in S PROVE AttemptOK(m)' /\ \A q \in Procs : MatesOK(q, m)'
  <2>1. PICK new : new = At(flight[p][m], pc)
    OBVIOUS
  <2>2. /\ flight'[p][m] = new /\ \A q \in Procs \ {p} : flight'[q][m] = flight[q][m]
        /\ new.pc = pc /\ new.kind = flight[p][m].kind /\ new.n = flight[p][m].n
        /\ new.was = flight[p][m].was /\ new.mates = S
    BY <1>3, <1>4, <2>1, AtFields DEF WebhookTypeOK
  <2>t. /\ tried[m] \in Nat /\ tried'[m] = tried[m] + 1 /\ got[m] \in 0..2
        /\ att[m].attempts \in Nat /\ \A q \in Procs : flight[q][m].n \in Nat
    BY <1>5 DEF WebhookTypeOK, AttemptDoc, FlightRec
  <2>o. AttemptOK(m) /\ flight[p][m].pc = "post"
    BY <1>3
  <2>3. WaitOK(m)'
    BY <1>1, <2>o DEF AttemptOK, WaitOK
  <2>4. CountsArePaid(m)'
    BY <1>1, <2>2, <2>t, <2>o, WebhooksAssumption DEF AttemptOK, CountsArePaid
  <2>5. ASSUME NEW q \in Procs PROVE FlightOK(q, m)'
    <3>1. FlightOK(q, m) /\ FlightOK(p, m)
      BY <2>o DEF AttemptOK
    <3>2. flight[p][m].kind = "sweep" => S = {m}
      BY <1>3, <3>1, <2>o DEF FlightOK
    <3>3. CASE q = p
      BY <1>1, <2>2, <2>o, <3>1, <3>2, <3>3 DEF FlightOK
    <3>4. CASE q # p
      BY <1>1, <2>2, <2>o, <3>1, <3>4 DEF FlightOK
    <3> QED
      BY <3>3, <3>4
  <2>6. ASSUME NEW q \in Procs, scene.procs = {q} PROVE SoleOK(q, m)'
    <3>1. SoleOK(q, m)
      BY <2>6, <2>o DEF AttemptOK
    <3>2. q = p
      BY <2>6
    <3>3. /\ tried[m] = att[m].attempts /\ got[m] = 0 /\ flight[p][m].n = att[m].attempts + 1
          /\ flight[p][m].was = att[m].status /\ att[m].status \in {"pending", "failed"}
          /\ flight[p][m].n <= MaxRetries /\ (att[m].status = "failed" => att[m].attempts < MaxRetries)
      BY <2>o, <3>1, <3>2 DEF SoleOK
    <3>4. got'[m] = IF pc = "taken" THEN 1 ELSE 0
      BY <1>4, <3>3
    <3> QED
      BY <1>1, <2>2, <2>t, <3>2, <3>3, <3>4, WebhooksAssumption DEF SoleOK
  <2>7. ASSUME NEW q \in Procs PROVE MatesOK(q, m)'
    <3>1. CASE q = p
      <4>1. ASSUME NEW b \in S PROVE flight'[p][b].mates = S /\ flight'[p][b].pc = pc
        BY <1>3, <1>4, AtFields DEF WebhookTypeOK
      <4>2. m \in S /\ new.pc = pc
        BY <2>2
      <4> QED
        BY <2>2, <3>1, <4>1, <4>2 DEF MatesOK
    <3>2. CASE q # p
      <4>1. flight[q][m].pc # "idle" => flight[q][m].mates = {m}
        BY <2>o, <3>2, BothSweep
      <4>2. MatesOK(q, m) /\ flight'[q][m] = flight[q][m]
        BY <2>2, <3>2 DEF Calm
      <4> QED
        BY <4>1, <4>2 DEF MatesOK
    <3> QED
      BY <3>1, <3>2
  <2> QED
    BY <1>1, <2>3, <2>4, <2>5, <2>6, <2>7 DEF AttemptOK
<1>8. ASSUME NEW q \in Procs, NEW b \in Attempts \ S, flight[q][b].pc \in {"post", "taken", "saved"}
      PROVE  flight[q][b].mates \cap S = {}
  BY <1>2, <1>8, <1>p, PostsApart DEF Posted
<1>9. \A m \in S : ~Blank(m)
  BY <1>3
<1> QED
  BY <1>1, <1>6, <1>7, <1>8, <1>9, CalmFollows

LEMMA SuccessIsCalm ==
    ASSUME WebhookTypeOK, Calm, scene' = scene, NEW p \in Procs, p \in scene.procs, NEW a \in Attempts, SaveSuccess(p, a)
    PROVE  Calm'
<1> DEFINE f == flight[p][a]
<1>1. UNCHANGED <<sub, disp, batch, tried, got, faults>> /\ f.pc = "taken"
  BY DEF SaveSuccess
<1>p. f.pc \in Posted
  BY <1>1 DEF Posted
<1>2. PICK S \in SUBSET Attempts : S = f.mates
  BY <1>p, PostMates
<1>3. /\ a \in S
      /\ \A m \in S : ~Blank(m) /\ AttemptOK(m) /\ flight[p][m].mates = S /\ flight[p][m].pc \in {"taken", "saved"}
  BY <1>1, <1>2, <1>p, PostMates DEF Posted
<1>4. \A b \in Attempts : att'[b] = IF b = a THEN [status |-> "success", attempts |-> f.n, due |-> "null"] ELSE att[b]
  BY SuccessMoves
<1>5. att'[a].status = "success" /\ att'[a].attempts = f.n /\ \A b \in Attempts \ {a} : att'[b] = att[b]
  BY <1>4
<1>6. PICK new : new = At(f, "saved")
  OBVIOUS
<1>7. /\ new.pc = "saved" /\ new.kind = f.kind /\ new.n = f.n /\ new.was = f.was /\ new.mates = S
  BY <1>2, <1>6, AtFields DEF WebhookTypeOK
\* A mate's copy is gone, or says that it is saved, or is as it was.
<1>8. /\ \A q \in Procs, b \in Attempts : q # p \/ b \notin S => flight'[q][b] = flight[q][b]
      /\ Over(p, a) => \A m \in S : flight'[p][m] = NoFlight
      /\ ~Over(p, a) => flight'[p][a] = new /\ \A m \in S \ {a} : flight'[p][m] = flight[p][m]
  <2>1. Over(p, a) => \A b \in f.mates : flight'[p][b] = NoFlight
    BY SuccessMoves
  <2>2. ~Over(p, a) => \A q \in Procs, b \in Attempts :
                   flight'[q][b] = IF q = p /\ b = a THEN At(f, "saved") ELSE flight[q][b]
    BY SuccessMoves
  <2>3. /\ \A q \in Procs, b \in Attempts \ (f.mates \cup {a}) : flight'[q][b] = flight[q][b]
        /\ \A q \in Procs \ {p}, b \in Attempts : flight'[q][b] = flight[q][b]
    BY SuccessMoves
  <2>4. \A q \in Procs, b \in Attempts : q # p \/ b \notin S => flight'[q][b] = flight[q][b]
    BY <1>2, <1>3, <2>3
  <2>5. Over(p, a) => \A m \in S : flight'[p][m] = NoFlight
    BY <1>2, <2>1
  <2>6. ~Over(p, a) => flight'[p][a] = new /\ \A m \in S \ {a} : flight'[p][m] = flight[p][m]
    BY <1>6, <2>2
  <2> QED
    BY <2>4, <2>5, <2>6
<1>9. \A b \in Attempts \ S : Same(b)
  BY <1>1, <1>3, <1>5, <1>8 DEF Same
<1>10. f.kind = "sweep" => Over(p, a)
  BY <1>1, <1>2, <1>3 DEF AttemptOK, FlightOK, Over
<1>11. f.n \in Nat /\ \A b \in Attempts : att[b].attempts \in Nat /\ tried[b] \in Nat
  BY DEF WebhookTypeOK, FlightRec, AttemptDoc
<1>12. ASSUME NEW m \in S PROVE AttemptOK(m)'
  <2>o. AttemptOK(m)
    BY <1>3
  <2>1. \/ flight'[p][m].pc = "idle"
        \/ ~Over(p, a) /\ m = a /\ flight'[p][m] = new
        \/ m # a /\ flight'[p][m] = flight[p][m]
    BY <1>8, NoFlightType
  <2>2. \A q \in Procs \ {p} : flight'[q][m] = flight[q][m]
    BY <1>8
  <2>3. m # a => att'[m] = att[m]
    BY <1>5
  <2>4. WaitOK(m)'
    BY <1>1, <1>3, <2>o DEF AttemptOK, WaitOK
  <2>5. CountsArePaid(m)'
    <3>1. m = a => f.n <= tried[a]
      BY <1>1, <2>o DEF AttemptOK, CountsArePaid
    <3> QED
      BY <1>1, <1>5, <1>7, <1>11, <2>1, <2>2, <2>3, <2>o, <3>1 DEF AttemptOK, CountsArePaid
  <2>6. ASSUME NEW q \in Procs PROVE FlightOK(q, m)'
    <3>1. FlightOK(q, m) /\ FlightOK(p, m)
      BY <2>o DEF AttemptOK
    <3>2. CASE q = p
      <4>1. CASE m = a
        BY <1>1, <1>5, <1>7, <1>10, <2>1, <2>2, <3>1, <3>2, <4>1 DEF FlightOK
      <4>2. CASE m # a
        BY <2>1, <2>2, <2>3, <3>1, <3>2, <4>2 DEF FlightOK
      <4> QED
        BY <4>1, <4>2
    <3>3. CASE q # p
      <4>1. flight[q][m].pc = "idle" \/ (flight[q][m].kind = "sweep" /\ FlightOK(q, m))
        BY <1>3, <3>1, <3>3 DEF FlightOK
      <4>2. att'[m].status \in {"success", att[m].status}
        BY <1>5, <2>3
      <4> QED
        BY <2>2, <3>3, <4>1, <4>2 DEF FlightOK
    <3> QED
      BY <3>2, <3>3
  <2>7. ASSUME NEW q \in Procs, scene.procs = {q} PROVE SoleOK(q, m)'
    <3>1. q = p /\ SoleOK(p, m) /\ FlightOK(p, m)
      BY <2>7, <2>o DEF AttemptOK
    <3>2. CASE m = a
      BY <1>1, <1>5, <1>7, <2>1, <3>1, <3>2 DEF SoleOK
    <3>3. CASE m # a /\ Over(p, a)
      <4>1. flight[p][m].pc = "saved"
        BY <1>2, <3>3 DEF Over
      <4>2. att[m].status = "success"
        BY <3>1, <4>1 DEF FlightOK
      <4>3. flight'[p][m].pc = "idle"
        BY <1>8, <3>3, NoFlightType
      <4> QED
        BY <1>1, <2>3, <3>1, <3>3, <4>2, <4>3 DEF SoleOK
    <3>4. CASE m # a /\ ~Over(p, a)
      <4>1. flight'[p][m] = flight[p][m] /\ att'[m] = att[m]
        BY <1>8, <2>3, <3>4
      <4> QED
        BY <1>1, <3>1, <4>1 DEF SoleOK
    <3> QED
      BY <3>2, <3>3, <3>4
  <2> QED
    BY <1>1, <2>4, <2>5, <2>6, <2>7 DEF AttemptOK
<1>13. ASSUME NEW m \in S, NEW q \in Procs PROVE MatesOK(q, m)'
  <2>1. CASE q = p /\ Over(p, a)
    BY <1>8, <2>1, NoFlightType DEF MatesOK
  <2>2. CASE q = p /\ ~Over(p, a)
    <3>1. \A b \in S : flight'[p][b].mates = S /\ flight'[p][b].pc \in {"taken", "saved"}
      BY <1>3, <1>7, <1>8, <2>2
    <3> QED
      BY <2>2, <3>1 DEF MatesOK
  <2>3. CASE q # p
    <3>1. flight[q][m].pc # "idle" => flight[q][m].mates = {m}
      BY <1>3, <2>3, BothSweep
    <3>2. MatesOK(q, m) /\ flight'[q][m] = flight[q][m]
      BY <1>8, <2>3 DEF Calm
    <3> QED
      BY <3>1, <3>2 DEF MatesOK
  <2> QED
    BY <2>1, <2>2, <2>3
<1>14. ASSUME NEW q \in Procs, NEW b \in Attempts \ S, flight[q][b].pc \in {"post", "taken", "saved"}
      PROVE  flight[q][b].mates \cap S = {}
  BY <1>2, <1>14, <1>p, PostsApart DEF Posted
<1>15. \A m \in S : ~Blank(m) /\ AttemptOK(m)' /\ \A q \in Procs : MatesOK(q, m)'
  BY <1>3, <1>12, <1>13
<1> QED
  BY <1>1, <1>9, <1>14, <1>15, CalmFollows

LEMMA FlushIsCalm ==
    ASSUME WebhookTypeOK, Calm, scene' = scene, NEW p \in Procs, p \in scene.procs, NEW s \in Subs, FlushBatch(p, s)
    PROVE  Calm'
<1>1. UNCHANGED <<sub, att, disp, tried, got, faults>>
  BY DEF FlushBatch
<1>2. PICK S \in SUBSET Attempts : S = batch[p][s]
  BY DEF WebhookTypeOK
<1>3. /\ \A q \in Procs, b \in Attempts : flight'[q][b] = IF q = p /\ b \in S THEN BatchSend(S) ELSE flight[q][b]
      /\ \A q \in Procs, t \in Subs : batch'[q][t] = IF q = p /\ t = s THEN {} ELSE batch[q][t]
  BY <1>2, FlushMoves
<1>4. PICK new : new = BatchSend(S)
  OBVIOUS
<1>5. new.pc = "post" /\ new.kind = "batch" /\ new.n = 1 /\ new.was = "pending" /\ new.mates = S
  BY <1>4 DEF BatchSend
<1>6. \A m \in S : /\ m[2] = s /\ att[m].status = "pending" /\ att[m].attempts = 0 /\ tried[m] = 0 /\ got[m] = 0
                   /\ \A q \in Procs : flight[q][m].pc = "idle" /\ (m \in batch[q][s] => q = p)
  BY <1>2 DEF Calm, AttemptOK, WaitOK
<1>7. \A b \in Attempts \ S : Same(b)
  BY <1>1, <1>2, <1>3 DEF Same
<1>8. ASSUME NEW m \in S PROVE ~Blank(m) /\ AttemptOK(m)' /\ \A q \in Procs : MatesOK(q, m)'
  <2>o. AttemptOK(m)
    BY DEF Calm
  <2>1. flight'[p][m] = new /\ \A q \in Procs \ {p} : flight'[q][m] = flight[q][m] /\ flight'[q][m].pc = "idle"
    BY <1>3, <1>4, <1>6
  <2>2. \A q \in Procs, t \in Subs : m \notin batch'[q][t]
    BY <1>3, <1>6, <2>o DEF AttemptOK, WaitOK
  <2>3. WaitOK(m)'
    BY <2>2 DEF WaitOK
  <2>4. CountsArePaid(m)'
    BY <1>1, <1>5, <1>6, <2>1, <2>o DEF AttemptOK, CountsArePaid
  <2>5. ASSUME NEW q \in Procs PROVE FlightOK(q, m)'
    BY <1>1, <1>5, <1>6, <2>1 DEF FlightOK
  <2>6. ASSUME NEW q \in Procs, scene.procs = {q} PROVE SoleOK(q, m)'
    <3>1. q = p
      BY <2>6
    <3> QED
      BY <1>1, <1>5, <1>6, <2>1, <3>1, WebhooksAssumption DEF SoleOK
  <2>7. ASSUME NEW q \in Procs PROVE MatesOK(q, m)'
    <3>1. CASE q = p
      <4>1. \A b \in S : flight'[p][b] = new
        BY <1>3, <1>4
      <4> QED
        BY <1>5, <3>1, <4>1 DEF MatesOK
    <3>2. CASE q # p
      BY <2>1, <3>2 DEF MatesOK
    <3> QED
      BY <3>1, <3>2
  <2>8. ~Blank(m)
    BY <1>6 DEF Blank
  <2> QED
    BY <1>1, <2>3, <2>4, <2>5, <2>6, <2>7, <2>8 DEF AttemptOK
<1>9. ASSUME NEW q \in Procs, NEW b \in Attempts \ S, flight[q][b].pc \in {"post", "taken", "saved"},
             NEW m \in flight[q][b].mates, m \in S
      PROVE  FALSE
  BY <1>6, <1>9, MatesTogether DEF Posted
<1> QED
  BY <1>1, <1>7, <1>8, <1>9, CalmFollows

\* A new attempt a of event e: nothing else about the event changes but the list of process p.
LEMMA CreatedIsCalm ==
    ASSUME WebhookTypeOK, Calm, scene' = scene, NEW p \in Procs, NEW e \in Events, NEW s \in Subs, s \in disp[e][p].todo,
           Created(p, e, s), NEW a \in Attempts, a = <<e, s>>,
           \A b \in Attempts \ {a} : Same(b), AttemptOK(a)', \A q \in Procs : MatesOK(q, a)'
    PROVE  Calm'
<1>d. /\ disp'[e][p].todo = disp[e][p].todo \ {s}
      /\ disp'[e][p].pc = IF disp[e][p].todo = {s} THEN "done" ELSE disp[e][p].pc
      /\ \A f \in Events, q \in Procs : f # e \/ q # p => disp'[f][q] = disp[f][q]
  BY CreatedMoves
<1>b. Blank(a) /\ disp[e][p].pc = "create" /\ (\A q \in Procs \ {p} : disp[e][q].pc = "idle" /\ disp[e][q].todo = {})
  <2>1. disp[e][p].pc \in {"idle", "find", "create", "done"} /\ DispatchOK(e)
    BY DEF Calm, WebhookTypeOK, DispRec
  <2>2. disp[e][p].pc = "create"
    BY <2>1 DEF DispatchOK
  <2> QED
    BY <2>1, <2>2 DEF DispatchOK
<1>1. ASSUME NEW f \in Events PROVE DispatchOK(f)'
  <2>o. DispatchOK(f)
    BY DEF Calm
  <2>s. \A q \in Procs : disp[f][q].todo \subseteq Subs
    BY DEF WebhookTypeOK, DispRec
  <2>a. \A t \in Subs : <<f, t>> \in Attempts
    BY DEF Attempts
  <2>1. CASE f # e
    <3>1. \A q \in Procs : disp'[f][q] = disp[f][q]
      BY <1>d, <2>1
    <3>2. \A t \in Subs : Blank(<<f, t>>) => Blank(<<f, t>>)'
      BY <2>1, <2>a, SameIsBlank
    <3> QED
      BY <2>o, <2>s, <3>1, <3>2 DEF DispatchOK
  <2>2. CASE f = e
    <3>1. \A q \in Procs \ {p} : disp'[e][q].pc = "idle" /\ disp'[e][q].todo = {}
      BY <1>b, <1>d
    <3>2. disp'[e][p].pc \in {"create", "done"} /\ (disp'[e][p].pc = "done" => disp'[e][p].todo = {})
      BY <1>b, <1>d
    <3>3. ASSUME NEW t \in disp'[e][p].todo PROVE Blank(<<e, t>>)'
      <4>1. t \in disp[e][p].todo /\ t # s /\ t \in Subs
        BY <1>d, <2>2, <2>s
      <4>2. PICK b \in Attempts : b = <<e, t>>
        BY <2>2, <2>a, <4>1
      <4>3. Blank(b) /\ b # a
        BY <2>2, <2>o, <4>1, <4>2 DEF DispatchOK
      <4> QED
        BY <4>2, <4>3, SameIsBlank
    <3> QED
      BY <2>2, <3>1, <3>2, <3>3 DEF DispatchOK
  <2> QED
    BY <2>1, <2>2
<1>2. ASSUME NEW b \in Attempts PROVE AttemptOK(b)'
  BY SameIsOK DEF Calm
<1>3. ASSUME NEW b \in Attempts, NEW q \in Procs PROVE MatesOK(q, b)'
  <2>1. flight[q][b].mates \subseteq Attempts
    BY DEF WebhookTypeOK, FlightRec
  <2>2. CASE b # a
    <3>1. ASSUME flight[q][b].pc \in {"post", "taken", "saved"}, a \in flight[q][b].mates PROVE FALSE
      BY <1>b, <3>1, MatesTogether DEF Posted, Blank
    <3>2. flight'[q][b] = flight[q][b] /\ MatesOK(q, b) /\ \A m \in flight[q][b].mates \ {a} : flight'[q][m] = flight[q][m]
      BY <2>1, <2>2 DEF Same, Calm
    <3> QED
      BY <3>1, <3>2 DEF MatesOK
  <2> QED
    BY <2>2
<1> QED
  BY <1>1, <1>2, <1>3 DEF Calm

LEMMA CreateIsCalm ==
    ASSUME WebhookTypeOK, Calm, scene' = scene, NEW p \in Procs, p \in scene.procs, NEW e \in Events, NEW s \in Subs,
           CreateAndSend(p, e, s)
    PROVE  Calm'
<1>1. PICK a \in Attempts : a = <<e, s>>
  BY DEF Attempts
<1>2. UNCHANGED <<sub, batch, tried, got, faults>> /\ Created(p, e, s) /\ s \in disp[e][p].todo
  BY DEF CreateAndSend
<1>3. PICK new : new = FirstSend(a)
  OBVIOUS
<1>4. new.pc = "post" /\ new.kind = "first" /\ new.n = 1 /\ new.was = "pending" /\ new.mates = {a}
  BY <1>3 DEF FirstSend
<1>5. PICK doc : doc = [NoAttempt EXCEPT !.status = "pending"]
  OBVIOUS
<1>6. doc.status = "pending" /\ doc.attempts = 0
  BY <1>5 DEF NoAttempt
<1>7. /\ flight'[p][a] = new /\ att'[a] = doc
      /\ \A q \in Procs, b \in Attempts : q # p \/ b # a => flight'[q][b] = flight[q][b]
      /\ \A b \in Attempts \ {a} : att'[b] = att[b]
  BY <1>1, <1>3, <1>5, CreateMoves
<1>8. Blank(a)
  BY <1>1, <1>2 DEF Calm, DispatchOK
<1>9. a[2] \in Subs /\ AttemptOK(a)
  BY DEF Attempts, Calm
<1>10. \A q \in Procs, t \in Subs : a \notin batch[q][t]
  BY <1>8, <1>9 DEF Blank, AttemptOK, WaitOK
<1>11. AttemptOK(a)'
  <2>1. WaitOK(a)'
    BY <1>2, <1>10 DEF WaitOK
  <2>2. CountsArePaid(a)'
    BY <1>2, <1>4, <1>6, <1>7, <1>8 DEF CountsArePaid, Blank
  <2>3. ASSUME NEW q \in Procs PROVE FlightOK(q, a)'
    BY <1>4, <1>6, <1>7, <1>8 DEF FlightOK, Blank
  <2>4. ASSUME NEW q \in Procs, scene.procs = {q} PROVE SoleOK(q, a)'
    <3>1. q = p
      BY <2>4
    <3> QED
      BY <1>2, <1>4, <1>6, <1>7, <1>8, <3>1, WebhooksAssumption DEF SoleOK, Blank
  <2> QED
    BY <2>1, <2>2, <2>3, <2>4 DEF AttemptOK
<1>12. ASSUME NEW q \in Procs PROVE MatesOK(q, a)'
  BY <1>4, <1>7, <1>8 DEF MatesOK, Blank
<1>13. \A b \in Attempts \ {a} : Same(b)
  BY <1>2, <1>7 DEF Same
<1> QED
  BY <1>1, <1>2, <1>11, <1>12, <1>13, CreatedIsCalm

LEMMA QueueIsCalm ==
    ASSUME WebhookTypeOK, Calm, scene' = scene, NEW p \in Procs, NEW e \in Events, NEW s \in Subs, QueueBatched(p, e, s)
    PROVE  Calm'
<1>1. PICK a \in Attempts : a = <<e, s>>
  BY DEF Attempts
<1>2. UNCHANGED <<sub, flight, tried, got, faults>> /\ Created(p, e, s) /\ s \in disp[e][p].todo
  BY DEF QueueBatched
<1>5. PICK doc : doc = [NoAttempt EXCEPT !.status = "pending"]
  OBVIOUS
<1>6. doc.status = "pending" /\ doc.attempts = 0
  BY <1>5 DEF NoAttempt
<1>7. /\ att'[a] = doc /\ \A b \in Attempts \ {a} : att'[b] = att[b]
      /\ \A q \in Procs, t \in Subs : batch'[q][t] = IF q = p /\ t = s THEN batch[p][s] \cup {a} ELSE batch[q][t]
  BY <1>1, <1>5, QueueMoves
<1>8. Blank(a)
  BY <1>1, <1>2 DEF Calm, DispatchOK
<1>9. a[2] = s /\ AttemptOK(a)
  BY <1>1 DEF Calm
<1>10. \A q \in Procs, t \in Subs : a \notin batch[q][t]
  BY <1>8, <1>9 DEF Blank, AttemptOK, WaitOK
<1>11. AttemptOK(a)'
  <2>1. WaitOK(a)'
    BY <1>2, <1>6, <1>7, <1>8, <1>9, <1>10 DEF WaitOK, Blank
  <2>2. CountsArePaid(a)'
    BY <1>2, <1>6, <1>7, <1>8 DEF CountsArePaid, Blank
  <2>3. ASSUME NEW q \in Procs PROVE FlightOK(q, a)'
    BY <1>2, <1>8 DEF FlightOK, Blank
  <2>4. ASSUME NEW q \in Procs, scene.procs = {q} PROVE SoleOK(q, a)'
    BY <1>2, <1>6, <1>7, <1>8, WebhooksAssumption DEF SoleOK, Blank
  <2> QED
    BY <2>1, <2>2, <2>3, <2>4 DEF AttemptOK
<1>12. ASSUME NEW q \in Procs PROVE MatesOK(q, a)'
  BY <1>2, <1>8 DEF MatesOK, Blank
<1>13. \A b \in Attempts \ {a} : Same(b)
  BY <1>2, <1>7 DEF Same
<1> QED
  BY <1>1, <1>2, <1>11, <1>12, <1>13, CreatedIsCalm

\* The list of process p for event e is made; no attempt is.
LEMMA BegunIsCalm ==
    ASSUME WebhookTypeOK, Calm, UNCHANGED <<scene, att, batch, flight, tried, got>>, NEW p \in Procs, NEW e \in Events,
           \A q \in Procs \ {p} : disp[e][q].pc = "idle",
           disp[e][p].pc \in {"idle", "find"},
           disp'[e][p].pc \in {"find", "create", "done"}, disp'[e][p].pc # "create" => disp'[e][p].todo = {},
           disp' \in [Events -> [Procs -> DispRec]],
           \A f \in Events, q \in Procs : f # e \/ q # p => disp'[f][q] = disp[f][q]
    PROVE  Calm'
<1>1. ASSUME NEW b \in Attempts PROVE Same(b) /\ Blank(b)' = Blank(b)
  BY DEF Same, Blank
<1>2. ASSUME NEW f \in Events PROVE DispatchOK(f)'
  <2>o. DispatchOK(f) /\ \A t \in Subs : <<f, t>> \in Attempts
    BY DEF Calm, Attempts
  <2>s. \A q \in Procs : disp[f][q].todo \subseteq Subs /\ disp'[f][q].todo \subseteq Subs
    BY DEF WebhookTypeOK, DispRec
  <2>1. CASE f # e
    <3>1. \A q \in Procs : disp'[f][q] = disp[f][q]
      BY <2>1
    <3> QED
      BY <1>1, <2>o, <2>s, <3>1 DEF DispatchOK
  <2>2. CASE f = e
    <3>1. \A t \in Subs : Blank(<<e, t>>)'
      BY <1>1, <2>2, <2>o DEF DispatchOK
    <3>2. \A q \in Procs \ {p} : disp'[e][q].pc = "idle" /\ disp'[e][q].todo = {}
      BY <2>2, <2>o DEF DispatchOK
    <3> QED
      BY <2>2, <2>s, <3>1, <3>2 DEF DispatchOK
  <2> QED
    BY <2>1, <2>2
<1>3. ASSUME NEW b \in Attempts PROVE AttemptOK(b)'
  BY <1>1, SameIsOK DEF Calm
<1>4. ASSUME NEW b \in Attempts, NEW q \in Procs PROVE MatesOK(q, b)'
  BY DEF Calm, MatesOK
<1> QED
  BY <1>2, <1>3, <1>4 DEF Calm

\* The step of a process that dispatches.
LEMMA DispatchesCalm ==
    ASSUME WebhookTypeOK, Calm, scene' = scene, NEW p \in Procs, NEW e \in Events, Dispatch(p, e) \/ FindSubscriptions(p, e)
    PROVE  Calm'
<1>o. DispatchOK(e) /\ disp[e][p].pc \in {"idle", "find"}
  BY DEF Calm, Dispatch, FindSubscriptions
<1>1. CASE Dispatch(p, e)
  <2>1. UNCHANGED <<att, batch, flight, tried, got>> /\ \A q \in Procs : disp[e][q].pc = "idle"
    BY <1>1 DEF Dispatch
  <2>2. disp[e][p].todo = {}
    BY <1>o DEF DispatchOK
  <2>3. /\ disp' \in [Events -> [Procs -> DispRec]]
        /\ disp'[e][p].pc = "find" /\ disp'[e][p].todo = {}
        /\ \A f \in Events, q \in Procs : f # e \/ q # p => disp'[f][q] = disp[f][q]
    BY <1>1, <2>2, DispatchMoves
  <2> QED
    BY <2>1, <2>3, BegunIsCalm
<1>2. CASE FindSubscriptions(p, e)
  <2>1. UNCHANGED <<att, batch, flight, tried, got>> /\ disp[e][p].pc = "find"
    BY <1>2 DEF FindSubscriptions
  <2>2. \A q \in Procs \ {p} : disp[e][q].pc = "idle"
    BY <1>o, <2>1 DEF DispatchOK
  <2>3. /\ disp' \in [Events -> [Procs -> DispRec]]
        /\ disp'[e][p].pc \in {"create", "done"} /\ (disp'[e][p].pc = "done" => disp'[e][p].todo = {})
        /\ \A f \in Events, q \in Procs : f # e \/ q # p => disp'[f][q] = disp[f][q]
    BY <1>2, FindMoves
  <2>4. disp'[e][p].pc # "create" => disp'[e][p].todo = {}
    BY <2>3
  <2>5. disp'[e][p].pc \in {"find", "create", "done"}
    BY <2>3
  <2> QED
    BY <1>o, <2>1, <2>2, <2>3, <2>4, <2>5, BegunIsCalm
<1> QED
  BY <1>1, <1>2

LEMMA FaultsCount == ASSUME WebhookStep PROVE faults' = faults \/ Fault
<1>1. ASSUME NEW p \in Procs, NEW e \in Events, Dispatch(p, e) \/ Dispatching(p, e) PROVE faults' = faults
  BY <1>1 DEF Dispatch, Dispatching, FindSubscriptions, CreateAndSend, QueueBatched
<1>2. ASSUME NEW p \in Procs, NEW s \in Subs, FlushBatch(p, s) PROVE faults' = faults
  BY <1>2 DEF FlushBatch
<1>3. ASSUME NEW p \in Procs, Sweep(p) PROVE faults' = faults
  BY <1>3 DEF Sweep
<1>4. ASSUME NEW p \in Procs, NEW a \in Attempts, Sending(p, a) PROVE faults' = faults \/ Fault
  BY <1>4 DEF Sending, LookUp, SaveMissing, Post, SaveSuccess, SaveFailure
<1>5. ASSUME NEW p \in Procs, \/ \E e \in Events, s \in Subs : CreateThrows(p, e, s)
                              \/ \E a \in Attempts : SaveSuccessThrows(p, a) \/ SaveFailureThrows(p, a)
                              \/ Crash(p)
      PROVE  Fault
  BY <1>5 DEF CreateThrows, SaveSuccessThrows, SaveFailureThrows, Crash
<1>6. (\E s \in Subs : UpdateWebhook(s)) \/ (\E a \in Attempts : Ripen(a)) => faults' = faults
  BY DEF UpdateWebhook, Ripen
<1> QED
  BY <1>1, <1>2, <1>3, <1>4, <1>5, <1>6 DEF WebhookStep

LEMMA CalmStays ==
    ASSUME WebhookTypeOK, SubsStay, faults = 0 => Calm, WebhookStep, faults' = 0
    PROVE  Calm'
<1>f. ~Fault
  BY FaultType
<1>s. scene' = scene
  BY DEF WebhookStep, On
<1>0. Calm
  <2>1. faults \in Nat
    BY DEF WebhookTypeOK
  <2>2. faults = faults' \/ Fault
    BY FaultsCount
  <2> QED
    BY <1>f, <2>2
<1>1. ASSUME NEW p \in Procs, On(p), NEW e \in Events, Dispatch(p, e) \/ FindSubscriptions(p, e) PROVE Calm'
  BY <1>0, <1>1, <1>s, DispatchesCalm
<1>2. ASSUME NEW p \in Procs, On(p), NEW e \in Events, NEW s \in Subs, CreateAndSend(p, e, s) PROVE Calm'
  BY <1>0, <1>2, <1>s, CreateIsCalm DEF On
<1>3. ASSUME NEW p \in Procs, On(p), NEW e \in Events, NEW s \in Subs, QueueBatched(p, e, s) PROVE Calm'
  BY <1>0, <1>3, <1>s, QueueIsCalm
<1>4. ASSUME NEW p \in Procs, On(p), NEW s \in Subs, FlushBatch(p, s) PROVE Calm'
  BY <1>0, <1>4, <1>s, FlushIsCalm DEF On
<1>5. ASSUME NEW p \in Procs, On(p), Sweep(p) PROVE Calm'
  BY <1>0, <1>5, <1>s, SweepIsCalm
<1>6. ASSUME NEW p \in Procs, On(p), NEW a \in Attempts, Sending(p, a) PROVE Calm'
  <2>1. p \in scene.procs
    BY <1>6 DEF On
  <2> QED
    BY <1>0, <1>6, <1>s, <2>1, LookUpIsCalm, MissingIsCalm, PostIsCalm, SuccessIsCalm, FailureIsCalm DEF Sending
<1>7. ASSUME NEW s \in Subs, UpdateWebhook(s) PROVE Calm'
  <2>1. UNCHANGED <<att, disp, batch, flight, tried, got>>
    BY <1>7 DEF UpdateWebhook
  <2>2. \A e \in Events : DispatchOK(e)'
    BY <1>0, <2>1 DEF Calm, DispatchOK, Blank
  <2>3. \A a \in Attempts : Same(a) /\ \A p \in Procs : MatesOK(p, a)'
    BY <1>0, <2>1 DEF Calm, Same, MatesOK
  <2>4. \A a \in Attempts : AttemptOK(a)'
    BY <1>0, <1>s, <2>3, SameIsOK DEF Calm
  <2> QED
    BY <2>2, <2>3, <2>4 DEF Calm
<1>8. ASSUME NEW a \in Attempts, Ripen(a) PROVE Calm'
  BY <1>0, <1>8, <1>s, RipenIsCalm
<1>9. ASSUME NEW p \in Procs, \/ \E e \in Events, s \in Subs : CreateThrows(p, e, s)
                              \/ \E a \in Attempts : SaveSuccessThrows(p, a) \/ SaveFailureThrows(p, a)
                              \/ Crash(p)
      PROVE  FALSE
  BY <1>f, <1>9 DEF CreateThrows, SaveSuccessThrows, SaveFailureThrows, Crash
<1> QED
  BY <1>1, <1>2, <1>3, <1>4, <1>5, <1>6, <1>7, <1>8, <1>9 DEF WebhookStep, Dispatching

\* Without the merchant every subscription stays, so that no send misses its own.
LEMMA SubsStayStep ==
    ASSUME WebhookTypeOK, SubsStay, WebhookStep PROVE SubsStay'
<1> SUFFICES ASSUME ~scene'.merchantActs PROVE /\ \A s \in Subs : sub'[s].live = "active"
                                               /\ \A p \in Procs, a \in Attempts : flight'[p][a].pc # "missing"
  BY DEF SubsStay
<1>s. scene' = scene
  BY DEF WebhookStep, On
<1>o. (\A s \in Subs : sub[s].live = "active") /\ \A p \in Procs, a \in Attempts : flight[p][a].pc # "missing"
  BY <1>s DEF SubsStay
<1>i. NoFlight.pc # "missing"
  BY NoFlightType
<1> DEFINE Fine == sub' = sub /\ \A p \in Procs, a \in Attempts : flight'[p][a].pc # "missing"
<1>1. ASSUME NEW p \in Procs, NEW e \in Events, Dispatch(p, e) \/ FindSubscriptions(p, e) PROVE Fine
  BY <1>o, <1>1 DEF Dispatch, FindSubscriptions
<1>2. ASSUME NEW p \in Procs, NEW e \in Events, NEW s \in Subs, CreateAndSend(p, e, s) PROVE Fine
  <2>1. sub' = sub
    BY <1>2 DEF CreateAndSend
  <2>2. \A q \in Procs, b \in Attempts : flight'[q][b] = flight[q][b] \/ flight'[q][b] = FirstSend(<<e, s>>)
    BY <1>2, CreateMoves
  <2>3. FirstSend(<<e, s>>).pc = "post"
    BY DEF FirstSend
  <2> QED
    BY <1>o, <2>1, <2>2, <2>3
<1>3. ASSUME NEW p \in Procs, NEW e \in Events, NEW s \in Subs, QueueBatched(p, e, s) \/ CreateThrows(p, e, s) PROVE Fine
  BY <1>o, <1>3 DEF QueueBatched, CreateThrows
<1>4. ASSUME NEW p \in Procs, NEW s \in Subs, FlushBatch(p, s) PROVE Fine
  <2>1. sub' = sub
    BY <1>4 DEF FlushBatch
  <2>2. \A q \in Procs, b \in Attempts : flight'[q][b] = flight[q][b] \/ flight'[q][b] = BatchSend(batch[p][s])
    BY <1>4, FlushMoves
  <2>3. BatchSend(batch[p][s]).pc = "post"
    BY DEF BatchSend
  <2> QED
    BY <1>o, <2>1, <2>2, <2>3
<1>5. ASSUME NEW p \in Procs, Sweep(p) PROVE Fine
  <2>1. sub' = sub
    BY <1>5 DEF Sweep
  <2>2. \A q \in Procs, b \in Attempts : flight'[q][b] = flight[q][b] \/ flight'[q][b] = SweepSend(b)
    BY <1>5, SweepMoves
  <2>3. \A b \in Attempts : SweepSend(b).pc = "lookup"
    BY DEF SweepSend
  <2> QED
    BY <1>o, <2>1, <2>2, <2>3
<1>6. ASSUME NEW p \in Procs, NEW a \in Attempts, LookUp(p, a) PROVE Fine
  <2>1. sub' = sub /\ a[2] \in Subs
    BY <1>6 DEF LookUp, Attempts
  <2>2. \A q \in Procs, b \in Attempts : flight'[q][b] = flight[q][b] \/ flight'[q][b] = At(flight[p][a], "post")
    BY <1>o, <1>6, <2>1, LookUpMoves
  <2>3. At(flight[p][a], "post").pc = "post"
    BY AtFields DEF WebhookTypeOK
  <2> QED
    BY <1>o, <2>1, <2>2, <2>3
<1>7. ASSUME NEW p \in Procs, NEW a \in Attempts, SaveMissing(p, a) \/ SaveFailure(p, a) \/ SaveFailureThrows(p, a) PROVE Fine
  <2>1. sub' = sub /\ flight' = [flight EXCEPT ![p][a] = NoFlight]
    BY <1>7 DEF SaveMissing, SaveFailure, SaveFailureThrows
  <2>2. \A q \in Procs, b \in Attempts : flight'[q][b] = flight[q][b] \/ flight'[q][b] = NoFlight
    BY <2>1, EndMoves
  <2> QED
    BY <1>o, <1>i, <2>1, <2>2
<1>8. ASSUME NEW p \in Procs, NEW a \in Attempts, Post(p, a) PROVE Fine
  <2>1. sub' = sub
    BY <1>8 DEF Post
  <2>2. PICK pc \in {"taken", "refused"} : \A q \in Procs, b \in Attempts :
            flight'[q][b] = flight[q][b] \/ flight'[q][b] = At(flight[q][b], pc)
    BY <1>8, PostMoves
  <2>3. \A q \in Procs, b \in Attempts : At(flight[q][b], pc).pc = pc
    BY AtFields DEF WebhookTypeOK
  <2> QED
    BY <1>o, <2>1, <2>2, <2>3
<1>9. ASSUME NEW p \in Procs, NEW a \in Attempts, SaveSuccess(p, a) PROVE Fine
  <2>1. sub' = sub
    BY <1>9 DEF SaveSuccess
  <2>2. \A q \in Procs, b \in Attempts :
            flight'[q][b] \in {flight[q][b], NoFlight, At(flight[p][a], "saved")}
    BY <1>9, SuccessMoves
  <2>3. At(flight[p][a], "saved").pc = "saved"
    BY AtFields DEF WebhookTypeOK
  <2> QED
    BY <1>o, <1>i, <2>1, <2>2, <2>3
<1>10. ASSUME NEW p \in Procs, NEW a \in Attempts, SaveSuccessThrows(p, a) PROVE Fine
  <2>1. sub' = sub
    BY <1>10 DEF SaveSuccessThrows
  <2> QED
    BY <1>o, <1>10, <2>1, ThrowTypes
<1>11. ASSUME NEW p \in Procs, Crash(p) PROVE Fine
  <2>1. sub' = sub
    BY <1>11 DEF Crash
  <2> QED
    BY <1>o, <1>i, <1>11, <2>1, CrashTypes
<1>12. ASSUME NEW a \in Attempts, Ripen(a) PROVE Fine
  BY <1>o, <1>12 DEF Ripen
<1>13. ~scene.merchantActs
  BY <1>s
<1> QED
  BY <1>o, <1>1, <1>2, <1>3, <1>4, <1>5, <1>6, <1>7, <1>8, <1>9, <1>10, <1>11, <1>12, <1>13 DEF WebhookStep, Dispatching, Sending

\* A process sends nothing for another.
LEMMA OthersIdleStep ==
    ASSUME WebhookTypeOK, OthersIdle, WebhookStep PROVE OthersIdle'
<1>t. flight \in [Procs -> [Attempts -> FlightRec]]
  BY DEF WebhookTypeOK
<1>s. scene' = scene
  BY DEF WebhookStep, On
<1>1. ASSUME NEW p \in Procs,
             \/ \E e \in Events : Dispatch(p, e) \/ Dispatching(p, e) \/ \E s \in Subs : CreateThrows(p, e, s)
             \/ \E s \in Subs : FlushBatch(p, s)
             \/ Sweep(p)
             \/ \E a \in Attempts : Sending(p, a) \/ SaveSuccessThrows(p, a) \/ SaveFailureThrows(p, a)
             \/ Crash(p)
      PROVE  \A q \in Procs \ {p} : flight'[q] = flight[q]
  <2>1. ASSUME NEW e \in Events, NEW s \in Subs, CreateAndSend(p, e, s) PROVE \A q \in Procs \ {p} : flight'[q] = flight[q]
    BY <1>t, <2>1 DEF CreateAndSend
  <2>2. ASSUME NEW e \in Events, Dispatch(p, e) \/ FindSubscriptions(p, e) \/ \E s \in Subs : QueueBatched(p, e, s) \/ CreateThrows(p, e, s)
        PROVE  \A q \in Procs \ {p} : flight'[q] = flight[q]
    BY <2>2 DEF Dispatch, FindSubscriptions, QueueBatched, CreateThrows
  <2>3. ASSUME NEW s \in Subs, FlushBatch(p, s) PROVE \A q \in Procs \ {p} : flight'[q] = flight[q]
    BY <1>t, <2>3 DEF FlushBatch
  <2>4. ASSUME Sweep(p) PROVE \A q \in Procs \ {p} : flight'[q] = flight[q]
    BY <1>t, <2>4 DEF Sweep
  <2>5. ASSUME NEW a \in Attempts, LookUp(p, a) PROVE \A q \in Procs \ {p} : flight'[q] = flight[q]
    BY <1>t, <2>5 DEF LookUp
  <2>6. ASSUME NEW a \in Attempts, SaveMissing(p, a) \/ SaveFailure(p, a) \/ SaveFailureThrows(p, a)
        PROVE  \A q \in Procs \ {p} : flight'[q] = flight[q]
    BY <1>t, <2>6 DEF SaveMissing, SaveFailure, SaveFailureThrows
  <2>7. ASSUME NEW a \in Attempts, Post(p, a) PROVE \A q \in Procs \ {p} : flight'[q] = flight[q]
    BY <1>t, <2>7 DEF Post, Outcome
  <2>8. ASSUME NEW a \in Attempts, SaveSuccess(p, a) PROVE \A q \in Procs \ {p} : flight'[q] = flight[q]
    BY <1>t, <2>8 DEF SaveSuccess
  <2>9. ASSUME NEW a \in Attempts, SaveSuccessThrows(p, a) PROVE \A q \in Procs \ {p} : flight'[q] = flight[q]
    BY <1>t, <2>9 DEF SaveSuccessThrows
  <2>10. ASSUME Crash(p) PROVE \A q \in Procs \ {p} : flight'[q] = flight[q]
    BY <1>t, <2>10 DEF Crash
  <2> QED
    BY <1>1, <2>1, <2>2, <2>3, <2>4, <2>5, <2>6, <2>7, <2>8, <2>9, <2>10 DEF Dispatching, Sending
<1>3. (\E s \in Subs : UpdateWebhook(s)) \/ (\E a \in Attempts : Ripen(a)) => flight' = flight
  BY DEF UpdateWebhook, Ripen
<1>4. ASSUME NEW q \in Procs \ scene.procs PROVE flight'[q] = flight[q]
  BY <1>1, <1>3, <1>4 DEF WebhookStep, On
<1> QED
  BY <1>4, <1>s DEF OthersIdle

-----------------------------------------------------------------------------
(* The theorems *)

LEMMA WebhookStart == WebhookInit => WebhookInv
<1> SUFFICES ASSUME WebhookInit PROVE WebhookInv
  OBVIOUS
<1>0. /\ NoAttempt \in AttemptDoc /\ NoAttempt.status = "absent" /\ NoAttempt.attempts = 0
      /\ NoFlight \in FlightRec /\ NoFlight.pc = "idle"
  BY NoFlightType DEF NoAttempt
<1>1. /\ scene \in Scenes /\ faults = 0
      /\ \A s \in Subs : sub[s].live = "active"
      /\ \A a \in Attempts : att[a] = NoAttempt /\ tried[a] = 0 /\ got[a] = 0
      /\ \A e \in Events, p \in Procs : disp[e][p].pc = "idle" /\ disp[e][p].todo = {}
      /\ \A p \in Procs, s \in Subs : batch[p][s] = {}
      /\ \A p \in Procs, a \in Attempts : flight[p][a] = NoFlight
  BY DEF WebhookInit
<1>2. WebhookTypeOK
  <2>1. sub \in [Subs -> SubDoc] /\ disp \in [Events -> [Procs -> DispRec]]
    BY DEF WebhookInit, SubDoc, DispRec
  <2>2. att \in [Attempts -> AttemptDoc] /\ flight \in [Procs -> [Attempts -> FlightRec]]
        /\ batch \in [Procs -> [Subs -> SUBSET Attempts]]
    BY <1>0 DEF WebhookInit
  <2>3. tried \in [Attempts -> Nat] /\ got \in [Attempts -> 0..2]
    BY DEF WebhookInit
  <2> QED
    BY <1>1, <2>1, <2>2, <2>3 DEF WebhookTypeOK
<1>3. SubsStay /\ OthersIdle
  BY <1>0, <1>1 DEF SubsStay, OthersIdle
<1>4. ASSUME NEW a \in Attempts PROVE Blank(a) /\ AttemptOK(a) /\ \A p \in Procs : MatesOK(p, a)
  <2>1. Blank(a)
    <3>1. a[2] \in Subs
      BY DEF Attempts
    <3> QED
      BY <1>0, <1>1, <3>1 DEF Blank
  <2>2. WaitOK(a) /\ CountsArePaid(a)
    BY <1>0, <1>1 DEF WaitOK, CountsArePaid
  <2>3. ASSUME NEW p \in Procs PROVE FlightOK(p, a) /\ MatesOK(p, a) /\ SoleOK(p, a)
    BY <1>0, <1>1, WebhooksAssumption DEF FlightOK, MatesOK, SoleOK
  <2> QED
    BY <2>1, <2>2, <2>3 DEF AttemptOK
<1>5. ASSUME NEW e \in Events PROVE DispatchOK(e)
  <2>1. \A s \in Subs : <<e, s>> \in Attempts
    BY DEF Attempts
  <2> QED
    BY <1>1, <1>4, <2>1 DEF DispatchOK
<1> QED
  BY <1>2, <1>3, <1>4, <1>5 DEF WebhookInv, Calm

LEMMA WebhookKeeps == WebhookInv /\ [WebhookStep]_webhookVars => WebhookInv'
<1> SUFFICES ASSUME WebhookInv, [WebhookStep]_webhookVars PROVE WebhookInv'
  OBVIOUS
<1>1. CASE WebhookStep
  BY <1>1, WebhookTypes, SubsStayStep, OthersIdleStep, CalmStays DEF WebhookInv
<1>2. CASE UNCHANGED webhookVars
  <2>1. UNCHANGED <<scene, sub, att, disp, batch, flight, tried, got, faults>>
    BY <1>2 DEF webhookVars
  <2>2. WebhookTypeOK' /\ SubsStay' /\ OthersIdle'
    BY <2>1 DEF WebhookInv, WebhookTypeOK, SubsStay, OthersIdle
  <2>3. ASSUME faults' = 0 PROVE Calm'
    <3>1. Calm
      BY <2>1, <2>3 DEF WebhookInv
    <3>2. \A e \in Events : DispatchOK(e)'
      BY <2>1, <3>1 DEF Calm, DispatchOK, Blank
    <3>3. \A a \in Attempts : Same(a) /\ \A p \in Procs : MatesOK(p, a)'
      BY <2>1, <3>1 DEF Calm, Same, MatesOK
    <3>4. \A a \in Attempts : AttemptOK(a)'
      BY <2>1, <3>1, <3>3, SameIsOK DEF Calm
    <3> QED
      BY <3>2, <3>3, <3>4 DEF Calm
  <2> QED
    BY <2>2, <2>3 DEF WebhookInv
<1> QED
  BY <1>1, <1>2

LEMMA JobsStart == Init => WebhookInv
  BY WebhookStart DEF Init

LEMMA JobsKeep == WebhookInv /\ [Next]_vars => WebhookInv'
<1>1. [Next]_vars => [WebhookStep]_webhookVars
  BY DEF Next, Webhook, Rating, vars
<1> QED
  BY <1>1, WebhookKeeps

LEMMA BoundsFollow == WebhookInv => SendsAreBounded
<1> SUFFICES ASSUME WebhookInv PROVE DeliveredOnce /\ RetryBudget
  BY DEF SendsAreBounded, WebhookInv
<1>1. ASSUME OneProcess PROVE \E p \in Procs : scene.procs = {p}
  <2>1. scene.procs \subseteq Procs
    BY WebhooksAssumption DEF WebhookInv, WebhookTypeOK
  <2>2. IsFiniteSet(scene.procs)
    BY <2>1, WebhooksAssumption, FS_Subset
  <2>3. PICK p : scene.procs = {p}
    BY <1>1, <2>2, FS_Singleton DEF OneProcess
  <2> QED
    BY <2>1, <2>3
<1>2. ASSUME OneProcess, faults = 0, NEW a \in Attempts PROVE got[a] <= 1 /\ tried[a] <= MaxRetries
  BY <1>1, <1>2 DEF WebhookInv, Calm, AttemptOK, SoleOK
<1>3. ASSUME faults = 0, ~scene.merchantActs, NEW a \in Attempts, att[a].status = "exhausted" PROVE tried[a] >= MaxRetries
  BY <1>3 DEF WebhookInv, Calm, AttemptOK, CountsArePaid
<1> QED
  BY <1>2, <1>3 DEF DeliveredOnce, RetryBudget

\* webhookService and webhookRetryJob, for any number of events, subscriptions,
\* processes and retries: with one process and nothing failing, first sends, batches
\* and sweeps between them deliver an event once and stay within the budget, and
\* with any number of processes an attempt is given up only after its last POST.
THEOREM SendsStayBounded == Spec => []SendsAreBounded
<1> QED
  BY JobsStart, JobsKeep, BoundsFollow, PTL DEF Spec

LEMMA QueuedAlone ==
    ASSUME WebhookTypeOK, NEW p \in Procs, NEW e \in Events, NEW s \in Subs, QueueBatched(p, e, s),
           NEW c \in Attempts, c # <<e, s>>
    PROVE  att'[c] = att[c]
<1>1. PICK doc : doc = [NoAttempt EXCEPT !.status = "pending"]
  OBVIOUS
<1>2. att \in [Attempts -> AttemptDoc] /\ att' = [att EXCEPT ![<<e, s>>] = doc]
  BY <1>1 DEF WebhookTypeOK, QueueBatched
<1> QED
  BY <1>2

\* What is settled is not made failed again by a send under way.
LEMMA SettledStays ==
    ASSUME WebhookTypeOK, Calm, WebhookStep, faults' = 0, NEW a \in Attempts, Settled(a)
    PROVE  att'[a].status \in {"success", "exhausted"}
<1>f. ~Fault
  BY FaultType
<1>s. att[a].status \in {"success", "exhausted"} /\ ~Blank(a)
  BY DEF Settled, Blank
<1>1. ASSUME NEW p \in Procs, NEW e \in Events, NEW s \in Subs, CreateAndSend(p, e, s) \/ QueueBatched(p, e, s)
      PROVE  att'[a] = att[a]
  <2>1. PICK b \in Attempts : b = <<e, s>>
    BY DEF Attempts
  <2>2. \A c \in Attempts : c # b => att'[c] = att[c]
    <3>1. CASE CreateAndSend(p, e, s)
      BY <2>1, <3>1, CreateMoves
    <3>2. CASE QueueBatched(p, e, s)
      BY <2>1, <3>2, QueuedAlone
    <3> QED
      BY <1>1, <3>1, <3>2
  <2>3. s \in disp[e][p].todo
    BY <1>1 DEF CreateAndSend, QueueBatched
  <2>4. Blank(b)
    BY <2>1, <2>3 DEF Calm, DispatchOK
  <2> QED
    BY <1>s, <2>2, <2>4
<1>2. ASSUME NEW p \in Procs, NEW b \in Attempts, SaveMissing(p, b)
      PROVE  att'[a].status \in {"success", "exhausted"}
  BY <1>2, <1>s, MissingMoves
<1>3. ASSUME NEW p \in Procs, NEW b \in Attempts, SaveSuccess(p, b)
      PROVE  att'[a].status \in {"success", "exhausted"}
  <2>1. \A c \in Attempts : att'[c] = att[c] \/ att'[c] = [status |-> "success", attempts |-> flight[p][b].n, due |-> "null"]
    BY <1>3, SuccessMoves
  <2> QED
    BY <1>s, <2>1
\* A first send that fails is of a pending attempt; a retry that fails leaves the status.
<1>4. ASSUME NEW p \in Procs, NEW b \in Attempts, SaveFailure(p, b)
      PROVE  att'[a].status \in {"success", "exhausted"}
  <2>1. CASE b = a
    <3>1. /\ flight[p][a].pc = "refused"
          /\ att'[a].status = IF flight[p][a].n >= MaxRetries THEN "exhausted"
                              ELSE IF flight[p][a].was = "failed" THEN att[a].status ELSE "failed"
      BY <1>4, <2>1, FailureMoves
    <3>2. FlightOK(p, a)
      BY DEF Calm, AttemptOK
    <3>3. flight[p][a].was = "failed"
      BY <1>s, <3>1, <3>2 DEF FlightOK
    <3> QED
      BY <1>s, <3>1, <3>3
  <2>2. CASE b # a
    BY <1>4, <1>s, <2>2, FailureMoves
  <2> QED
    BY <2>1, <2>2
<1>5. ASSUME NEW b \in Attempts, Ripen(b) PROVE att'[a].status = att[a].status
  BY <1>5, RipenMoves
<1>6. ASSUME NEW p \in Procs, NEW e \in Events, NEW s \in Subs, CreateThrows(p, e, s) PROVE att' = att
  BY <1>6 DEF CreateThrows
<1>7. ASSUME NEW p \in Procs, NEW e \in Events, Dispatch(p, e) \/ FindSubscriptions(p, e) PROVE att' = att
  BY <1>7 DEF Dispatch, FindSubscriptions
<1>8. ASSUME NEW p \in Procs, (\E s \in Subs : FlushBatch(p, s)) \/ Sweep(p) \/ Crash(p) PROVE att' = att
  BY <1>8 DEF FlushBatch, Sweep, Crash
<1>9. ASSUME NEW p \in Procs, NEW b \in Attempts, LookUp(p, b) \/ Post(p, b) \/ SaveSuccessThrows(p, b) \/ SaveFailureThrows(p, b)
      PROVE  att' = att
  BY <1>9 DEF LookUp, Post, SaveSuccessThrows, SaveFailureThrows
<1>10. ASSUME NEW s \in Subs, UpdateWebhook(s) PROVE att' = att
  BY <1>10 DEF UpdateWebhook
<1> QED
  BY <1>s, <1>1, <1>2, <1>3, <1>4, <1>5, <1>6, <1>7, <1>8, <1>9, <1>10 DEF WebhookStep, Dispatching, Sending

\* A late failure does not put back in the queue what another send, of this process
\* or of another one, has settled.
THEOREM SettledStaysSettled == Spec => SettledIsNotRetried
<1> DEFINE A == \A a \in Attempts : faults' = 0 /\ Settled(a) => att'[a].status \in {"success", "exhausted"}
<1>1. ASSUME WebhookInv, [Next]_vars PROVE [A]_webhookVars
  <2>1. CASE WebhookStep
    <3>1. WebhookTypeOK /\ (faults = 0 => Calm)
      BY <1>1 DEF WebhookInv
    <3>2. faults' = faults \/ faults' # 0
      BY <2>1, <3>1, FaultsCount, FaultType
    <3>3. ASSUME faults' = 0, NEW a \in Attempts, Settled(a) PROVE att'[a].status \in {"success", "exhausted"}
      BY <2>1, <3>1, <3>2, <3>3, SettledStays
    <3> QED
      BY <3>3
  <2>2. CASE UNCHANGED webhookVars
    BY <2>2
  <2> QED
    BY <1>1, <2>1, <2>2 DEF Next, Webhook, Rating, vars
<1>2. WebhookInv /\ [Next]_vars => [A]_webhookVars
  BY <1>1
<1> QED
  BY <1>2, JobsStart, JobsKeep, PTL DEF Spec, SettledIsNotRetried
=============================================================================
