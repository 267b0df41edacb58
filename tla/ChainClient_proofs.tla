------------------------- MODULE ChainClient_proofs -------------------------
(***************************************************************************)
(* For any number of payers, operators, retries and dead letters: what is  *)
(* reported confirmed was applied, and what is refused was not, as long as *)
(* every send that reached the node was answered.                          *)
(***************************************************************************)
EXTENDS ChainClient, SequenceTheorems, TLAPS

Before == {"idle", "load", "loading", "prepare", "preparing", "sign"}
During == {"send", "poll", "getAccount", "simulate"}

\* The payers who have their answer.
Finished == {p \in Payers : call[p].pc = "done"}

\* What the record r of caller c says is so: an envelope is signed only once, by
\* its own payer, and what is rebuilt is not signed; an operator submits what a
\* payer who has his answer had submitted.
CallSound(c, r) ==
    /\ r.pc \in Before =>
         /\ ~r.input.signed /\ r.entry = NoEntry /\ r.answer = "none"
         /\ r.pc # "idle" => c \in Payers /\ r.input.lock = c
    /\ r.pc \in During =>
         /\ r.answer = "none" /\ r.xdr.lock = r.input.lock
         /\ r.xdr = r.input \/ ~r.xdr.signed
         /\ r.pc = "poll" => r.xdr = r.input
         /\ r.pc \in {"getAccount", "simulate"} => r.attempt <= BadSeqRetries
         /\ c \in Payers => r.input.lock = c /\ r.entry = NoEntry
         /\ c \notin Payers => r.input.lock \in Finished
         /\ r.entry # NoEntry => r.entry \in DOMAIN dlq /\ dlq[r.entry].input = r.input
    /\ r.pc = "done" => r.answer # "none"
    /\ r.answer = "confirmed" => Applied(r.input)

CallsAreSound == \A c \in Callers : CallSound(c, call[c])

\* A dead letter is of a payer who has his answer, and resolved when it was applied.
LettersAreSound ==
    \A i \in DOMAIN dlq :
        /\ dlq[i].input.lock \in Finished
        /\ dlq[i].status = "resolved" => Applied(dlq[i].input)

\* The node accepts one signed envelope at a time, for the next sequence number,
\* and a sequence number is taken once.
NetworkIsSound ==
    /\ \A e \in pool : e.signed /\ e.seq = seq + 1
    /\ \A e, f \in pool : e = f
    /\ \A r \in ledger : r.env.signed /\ r.env.seq <= seq
    /\ \A r, q \in ledger : r.env.seq = q.env.seq => r = q

\* Unless some send went unheard, what the node has is of payers who know it.
HeardIsKnown ==
    ~unheard =>
        /\ wire = {}
        /\ \A e \in pool : call[e.lock].pc \in {"poll", "done"}
        /\ \A r \in ledger : call[r.env.lock].pc \in {"poll", "done"}

ChainInv ==
    SubmissionTypeOK /\ CallsAreSound /\ LettersAreSound /\ NetworkIsSound /\ HeardIsKnown

-----------------------------------------------------------------------------
(* Records *)

LEMMA NewCallFacts ==
    /\ NoEnvelope \in Envelopes /\ ~NoEnvelope.signed
    /\ NewCall \in CallRec /\ NewCall.pc = "idle" /\ NewCall.input = NoEnvelope
    /\ NewCall.entry = NoEntry /\ NewCall.answer = "none"
<1>1. (CHOOSE p \in Payers : TRUE) \in Payers
  BY SubmissionAssumption
<1>2. NoEnvelope \in Envelopes /\ ~NoEnvelope.signed
  BY <1>1, SubmissionAssumption DEF NoEnvelope, Envelopes
<1> QED
  BY <1>2, SubmissionAssumption DEF NewCall, CallRec

\* A caller's record and the envelopes in it.
LEMMA CallTypes ==
    ASSUME SubmissionTypeOK, NEW c \in Callers
    PROVE  call[c] \in CallRec /\ call[c].input \in Envelopes /\ call[c].xdr \in Envelopes
  BY DEF SubmissionTypeOK, CallRec

-----------------------------------------------------------------------------
(* The node *)

\* An envelope is accepted when it is signed and is the next one.
LEMMA NodeReplyFacts ==
    ASSUME NEW e \in Envelopes
    PROVE  /\ NodeReply(e) = "PENDING" => e.signed /\ e.seq = seq + 1 /\ pool = {} /\ e \notin pool
           /\ NodeReply(e) = "DUPLICATE" => e \in pool
           /\ NodeReply(e) = "BAD_SEQ" => e \notin pool
  BY DEF NodeReply

\* Whatever is sent, the pool stays sound.
LEMMA PoolAfterFacts ==
    ASSUME ChainInv, NEW e \in Envelopes
    PROVE  /\ PoolAfter(e) \subseteq Envelopes /\ pool \subseteq PoolAfter(e)
           /\ \A f \in PoolAfter(e) : f.signed /\ f.seq = seq + 1
           /\ \A f, g \in PoolAfter(e) : f = g
           /\ PoolAfter(e) # pool => e.signed
           /\ \A f \in PoolAfter(e) : f \in pool \/ f = e
<1>1. CASE NodeReply(e) = "PENDING"
  <2>1. e.signed /\ e.seq = seq + 1 /\ pool = {}
    BY <1>1, NodeReplyFacts
  <2>2. PoolAfter(e) = {e}
    BY <1>1, <2>1 DEF PoolAfter
  <2> QED
    BY <2>1, <2>2
<1>2. CASE NodeReply(e) # "PENDING"
  BY <1>2 DEF PoolAfter, ChainInv, NetworkIsSound, SubmissionTypeOK
<1> QED
  BY <1>1, <1>2

-----------------------------------------------------------------------------
(* A step of one caller *)

\* What such a step may do: the new record is sound in the new state, what has
\* reached the node is known or unheard, and letters keep what was submitted.
Moves(c, new) ==
    /\ new \in CallRec /\ call' = [call EXCEPT ![c] = new]
    /\ lockable' \in BOOLEAN /\ seq' = seq /\ ledger' = ledger
    /\ unheard' \in BOOLEAN /\ (unheard => unheard')
    /\ c \in Payers /\ call[c].pc \in {"poll", "done"} => new.pc \in {"poll", "done"}
    /\ c \in Payers /\ call[c].pc = "done" => new.pc = "done"

NodeMoves(c, new) ==
    /\ pool' = pool \/ (call[c].pc = "send" /\ pool' = PoolAfter(call[c].xdr))
    /\ wire' \subseteq Envelopes
    /\ ~unheard' => wire' = wire /\ (pool' = pool \/ c \in Operators \/ new.pc = "poll")

LettersMove ==
    /\ dlq' \in Seq(DlqDoc) /\ Len(dlq') <= MaxEntries
    /\ \A i \in DOMAIN dlq : i \in DOMAIN dlq' /\ dlq'[i].input = dlq[i].input

\* Such a step preserves the invariant.
LEMMA MovesSound ==
    ASSUME ChainInv, NEW c \in Callers, NEW new, Moves(c, new), NodeMoves(c, new), LettersMove,
           CallSound(c, new)', LettersAreSound'
    PROVE  ChainInv'
<1>a. call \in [Callers -> CallRec] /\ Payers \subseteq Callers
  BY DEF ChainInv, SubmissionTypeOK, Callers
<1>b. /\ call' \in [Callers -> CallRec] /\ call'[c] = new
      /\ \A d \in Callers : d # c => call'[d] = call[d]
  BY <1>a DEF Moves
<1>c. call[c].xdr \in Envelopes
  BY <1>a DEF CallRec
<1>d. Finished \subseteq Finished'
  BY <1>a, <1>b DEF Finished, Moves
<1>e. \A e \in Envelopes : Applied(e)' <=> Applied(e)
  BY DEF Applied, Moves
<1>1. SubmissionTypeOK'
  <2>1. pool' \subseteq Envelopes
    BY <1>c, PoolAfterFacts DEF NodeMoves, ChainInv, SubmissionTypeOK
  <2> QED
    BY <1>b, <2>1 DEF ChainInv, SubmissionTypeOK, Moves, NodeMoves, LettersMove
<1>2. CallsAreSound'
  <2> SUFFICES ASSUME NEW d \in Callers, d # c
               PROVE  CallSound(d, call[d])'
    BY <1>b DEF CallsAreSound
  <2>1. CallSound(d, call[d]) /\ call'[d] = call[d]
    BY <1>b DEF ChainInv, CallsAreSound
  <2>2. \A i \in DOMAIN dlq : i \in DOMAIN dlq' /\ dlq'[i].input = dlq[i].input
    BY DEF LettersMove
  <2>3. Applied(call[d].input)' <=> Applied(call[d].input)
    BY <2>1 DEF Applied, Moves
  <2> QED
    BY <1>d, <2>1, <2>2, <2>3 DEF CallSound
<1>3. NetworkIsSound'
  <2>1. /\ \A e \in pool' : e.signed /\ e.seq = seq + 1
        /\ \A e, f \in pool' : e = f
    BY <1>c, PoolAfterFacts DEF ChainInv, NetworkIsSound, NodeMoves
  <2> QED
    BY <2>1 DEF ChainInv, NetworkIsSound, Moves
<1>4. HeardIsKnown'
  <2> SUFFICES ASSUME ~unheard'
               PROVE  /\ wire' = {}
                      /\ \A e \in pool' : call'[e.lock].pc \in {"poll", "done"}
                      /\ \A r \in ledger' : call'[r.env.lock].pc \in {"poll", "done"}
    BY DEF HeardIsKnown
  <2>1. ~unheard /\ wire = {} /\ wire' = {}
    BY DEF ChainInv, HeardIsKnown, Moves, NodeMoves
  <2>2. \A p \in Payers : call[p].pc \in {"poll", "done"} => call'[p].pc \in {"poll", "done"}
    BY <1>a, <1>b DEF Moves
  <2>3. /\ \A e \in pool : e.lock \in Payers /\ call[e.lock].pc \in {"poll", "done"}
        /\ \A r \in ledger : r.env.lock \in Payers /\ call[r.env.lock].pc \in {"poll", "done"}
    BY <2>1 DEF ChainInv, HeardIsKnown, SubmissionTypeOK, Envelopes
  <2>4. \A r \in ledger' : call'[r.env.lock].pc \in {"poll", "done"}
    BY <2>2, <2>3 DEF Moves
  <2>5. CASE pool' = pool
    BY <2>1, <2>2, <2>3, <2>4, <2>5
  <2>6. CASE pool' # pool
    <3>1. call[c].pc = "send" /\ pool' = PoolAfter(call[c].xdr) /\ (c \in Operators \/ new.pc = "poll")
      BY <2>6 DEF NodeMoves
    <3>2. \A f \in pool' : f \in pool \/ f = call[c].xdr
      BY <1>c, <3>1, PoolAfterFacts
    <3>3. /\ call[c].xdr.lock = call[c].input.lock
          /\ c \in Payers => call[c].input.lock = c
          /\ c \notin Payers => call[c].input.lock \in Finished
      BY <3>1 DEF ChainInv, CallsAreSound, CallSound, During
    <3>4. call'[call[c].xdr.lock].pc \in {"poll", "done"}
      <4>1. CASE c \in Payers
        BY <1>b, <3>1, <3>3, <4>1, SubmissionAssumption
      <4>2. CASE c \notin Payers
        BY <2>2, <3>3, <4>2 DEF Finished
      <4> QED
        BY <4>1, <4>2
    <3> QED
      BY <2>1, <2>2, <2>3, <2>4, <3>2, <3>4
  <2> QED
    BY <2>5, <2>6
<1> QED
  BY <1>1, <1>2, <1>3, <1>4 DEF ChainInv

\* A caller goes on and nothing else moves.
LEMMA GoesSound ==
    ASSUME ChainInv, NEW c \in Callers, NEW new \in CallRec, Goes(c, new), CallSound(c, new),
           c \in Payers /\ call[c].pc \in {"poll", "done"} => new.pc = call[c].pc
    PROVE  ChainInv'
<1>1. /\ call' = [call EXCEPT ![c] = new]
      /\ UNCHANGED <<lockable, seq, pool, ledger, wire, unheard, dlq>>
  BY DEF Goes
<1>2. Moves(c, new) /\ NodeMoves(c, new) /\ LettersMove
  BY <1>1 DEF Moves, NodeMoves, LettersMove, ChainInv, SubmissionTypeOK
<1>3. Finished \subseteq Finished'
  BY <1>1 DEF Finished, ChainInv, SubmissionTypeOK, Callers
<1>4. CallSound(c, new)'
  BY <1>1, <1>3 DEF CallSound, Applied
<1>5. LettersAreSound'
  BY <1>1, <1>3 DEF ChainInv, LettersAreSound, Applied
<1> QED
  BY <1>2, <1>4, <1>5, MovesSound

\* The letters docs are those there are, and perhaps one more of caller c.
Extends(c, docs) ==
    /\ docs \in Seq(DlqDoc) /\ Len(docs) <= MaxEntries
    /\ \A i \in DOMAIN dlq : i \in DOMAIN docs /\ docs[i] = dlq[i]
    /\ \A i \in DOMAIN docs : i \notin DOMAIN dlq => docs[i] = [input |-> call[c].input, status |-> "pending"]

\* A call ends, and saves the letter it retried.
LEMMA EndsSound ==
    ASSUME ChainInv, NEW c \in Callers, call[c].pc \in During,
           NEW answer \in {"confirmed", "refused", "conflict", "unknown"}, Ends(c, answer),
           answer = "confirmed" => Applied(call[c].input),
           NEW docs, Extends(c, docs), dlq' = RetriedDocs(c, answer, docs),
           pool' = pool \/ (call[c].pc = "send" /\ pool' = PoolAfter(call[c].xdr)),
           wire' \subseteq Envelopes, unheard' \in BOOLEAN, unheard => unheard',
           ~unheard' => wire' = wire /\ pool' = pool
    PROVE  ChainInv'
<1>a. call[c] \in CallRec /\ call[c].input \in Envelopes
  BY CallTypes DEF ChainInv
<1>b. PICK e \in Envelopes : e = call[c].input
  BY <1>a
<1>c. PICK new : new = [NewCall EXCEPT !.pc = "done", !.input = e, !.answer = answer]
  OBVIOUS
<1>d. new \in CallRec /\ new.pc = "done" /\ new.input = e /\ new.answer = answer /\ new.entry = NoEntry
  BY <1>c, NewCallFacts DEF CallRec, NewCall
<1>e. call' = [call EXCEPT ![c] = new] /\ UNCHANGED <<lockable, seq, ledger>>
  BY <1>b, <1>c DEF Ends
<1>1. Moves(c, new) /\ NodeMoves(c, new)
  BY <1>d, <1>e DEF Moves, NodeMoves, ChainInv, SubmissionTypeOK
<1>2. Finished \subseteq Finished' /\ call[c].input.lock \in Finished'
  <2>1. /\ call \in [Callers -> CallRec] /\ Payers \subseteq Callers
        /\ c \in Payers => call[c].input.lock = c
        /\ c \notin Payers => call[c].input.lock \in Finished
    BY DEF ChainInv, SubmissionTypeOK, CallsAreSound, CallSound, Callers
  <2>2. Finished \subseteq Finished'
    BY <1>d, <1>e, <2>1 DEF Finished
  <2>3. c \in Payers => c \in Finished'
    BY <1>d, <1>e, <2>1 DEF Finished
  <2> QED
    BY <2>1, <2>2, <2>3
<1>3. /\ docs \in Seq(DlqDoc) /\ Len(docs) <= MaxEntries
      /\ \A i \in DOMAIN dlq : i \in DOMAIN docs /\ docs[i] = dlq[i]
      /\ \A i \in DOMAIN docs :
           i \notin DOMAIN dlq => docs[i] = [input |-> call[c].input, status |-> "pending"]
  BY DEF Extends
<1>4. \A i \in DOMAIN docs :
        docs[i].input.lock \in Finished' /\ (docs[i].status = "resolved" => Applied(docs[i].input))
  BY <1>2, <1>3 DEF ChainInv, LettersAreSound
<1>5. call[c].entry # NoEntry => call[c].entry \in DOMAIN docs /\ docs[call[c].entry].input = call[c].input
  BY <1>3 DEF ChainInv, CallsAreSound, CallSound
<1>6. /\ dlq' \in Seq(DlqDoc) /\ Len(dlq') = Len(docs) /\ DOMAIN dlq' = DOMAIN docs
      /\ \A i \in DOMAIN docs :
           /\ dlq'[i].input = docs[i].input
           /\ dlq'[i].status = docs[i].status
              \/ (docs[i].input = call[c].input /\ (dlq'[i].status = "resolved" => answer = "confirmed"))
  <2>1. CASE call[c].entry = NoEntry
    BY <1>3, <2>1 DEF RetriedDocs
  <2>2. CASE call[c].entry # NoEntry
    <3>1. PICK n \in DOMAIN docs : n = call[c].entry
      BY <1>5, <2>2
    <3>2. docs[n] \in DlqDoc /\ docs[n].input = call[c].input
      BY <1>3, <1>5, <2>2, <3>1
    <3>3. PICK st \in {"resolved", "pending"} :
            /\ st = "resolved" => answer = "confirmed"
            /\ dlq' = [docs EXCEPT ![n].status = st]
      BY <2>2, <3>1 DEF RetriedDocs
    <3>4. /\ [docs[n] EXCEPT !.status = st] \in DlqDoc
          /\ [docs[n] EXCEPT !.status = st].input = docs[n].input
          /\ [docs[n] EXCEPT !.status = st].status = st
      BY <3>2 DEF DlqDoc
    <3>5. PICK d : d = [docs[n] EXCEPT !.status = st]
      OBVIOUS
    <3>6. d \in DlqDoc /\ d.input = docs[n].input /\ d.status = st /\ dlq' = [docs EXCEPT ![n] = d]
      BY <3>3, <3>4, <3>5
    <3> QED
      BY <1>3, <3>2, <3>3, <3>6
  <2> QED
    BY <2>1, <2>2
<1>7. LettersMove
  BY <1>3, <1>6 DEF LettersMove
<1>8. LettersAreSound'
  <2>2. ASSUME NEW i \in DOMAIN dlq'
        PROVE  /\ dlq'[i].input.lock \in Finished'
               /\ dlq'[i].status = "resolved" => [env |-> dlq'[i].input, ok |-> TRUE] \in ledger'
    <3>1. i \in DOMAIN docs /\ dlq'[i].input = docs[i].input
      BY <1>6
    <3>2. dlq'[i].status = "resolved" => Applied(docs[i].input)
      BY <1>4, <1>6, <3>1
    <3> QED
      BY <1>4, <1>e, <3>1, <3>2 DEF Applied
  <2> QED
    BY <2>2 DEF LettersAreSound, Applied
<1>9. CallSound(c, new)'
  BY <1>b, <1>d, <1>e DEF CallSound, Before, During, Applied
<1> QED
  BY <1>1, <1>7, <1>8, <1>9, MovesSound

-----------------------------------------------------------------------------
(* Every action *)

\* A record that has only some fields changed.
LEMMA CallOf ==
    ASSUME ChainInv, NEW c \in Callers
    PROVE  call[c] \in CallRec /\ CallSound(c, call[c])
  BY DEF ChainInv, SubmissionTypeOK, CallsAreSound

LEMMA BuildSound ==
    ASSUME ChainInv, NEW c \in Callers, BuildEscrowLockXdr(c)
    PROVE  ChainInv'
<1>1. call[c] \in CallRec /\ CallSound(c, call[c]) /\ c \in Payers /\ call[c].pc = "idle"
  BY CallOf DEF BuildEscrowLockXdr
<1>2. PICK new : /\ new = IF lockable THEN [call[c] EXCEPT !.pc = "load", !.input.lock = c]
                          ELSE [call[c] EXCEPT !.pc = "done", !.answer = "conflict"]
                 /\ Goes(c, new)
  BY DEF BuildEscrowLockXdr
<1>3. new \in CallRec /\ CallSound(c, new)
  <2>1. CASE lockable
    <3>1. PICK e : e = [call[c].input EXCEPT !.lock = c]
      OBVIOUS
    <3>2. e \in Envelopes /\ e.lock = c /\ e.signed = call[c].input.signed
      BY <1>1, <3>1 DEF CallRec, Envelopes
    <3>3. new = [call[c] EXCEPT !.pc = "load", !.input = e]
      BY <1>2, <2>1, <3>1
    <3>4. /\ new \in CallRec /\ new.pc = "load" /\ new.input = e
          /\ new.entry = call[c].entry /\ new.answer = call[c].answer
      BY <1>1, <3>2, <3>3 DEF CallRec
    <3> QED
      BY <1>1, <3>2, <3>4 DEF CallSound, Before, During
  <2>2. CASE ~lockable
    <3>1. new \in CallRec /\ new.pc = "done" /\ new.answer = "conflict"
      BY <1>1, <1>2, <2>2 DEF CallRec
    <3> QED
      BY <3>1 DEF CallSound, Before, During
  <2> QED
    BY <2>1, <2>2
<1> QED
  BY <1>1, <1>2, <1>3, GoesSound

LEMMA BreakerFiresSound ==
    ASSUME ChainInv, NEW c \in Callers, BreakerFires(c)
    PROVE  ChainInv'
<1>1. call[c] \in CallRec /\ CallSound(c, call[c]) /\ call[c].pc \in {"load", "prepare"}
  BY CallOf DEF BreakerFires
<1>2. PICK new : /\ \/ new = [call[c] EXCEPT !.pc = IF @ = "load" THEN "loading" ELSE "preparing"]
                    \/ new = [call[c] EXCEPT !.pc = "done", !.answer = "unavailable"]
                 /\ Goes(c, new)
  BY Zenon DEF BreakerFires
<1>3. /\ new \in CallRec /\ new.input = call[c].input /\ new.entry = call[c].entry
      /\ \/ new.pc \in {"loading", "preparing"} /\ new.answer = call[c].answer
         \/ new.pc = "done" /\ new.answer = "unavailable"
  BY <1>1, <1>2 DEF CallRec
<1>4. CallSound(c, new)
  BY <1>1, <1>3 DEF CallSound, Before, During
<1> QED
  BY <1>1, <1>2, <1>3, <1>4, GoesSound

LEMMA BreakerAnswersSound ==
    ASSUME ChainInv, NEW c \in Callers, BreakerAnswers(c)
    PROVE  ChainInv'
<1>1. call[c] \in CallRec /\ CallSound(c, call[c]) /\ call[c].pc \in {"loading", "preparing"}
  BY CallOf DEF BreakerAnswers
<1>2. PICK new : /\ \/ new = [call[c] EXCEPT !.pc = "prepare", !.input.seq = seq + 1]
                    \/ new = [call[c] EXCEPT !.pc = "sign"]
                    \/ new = [call[c] EXCEPT !.pc = "done", !.answer = "refused"]
                 /\ Goes(c, new)
  BY Zenon DEF BreakerAnswers
<1>3. PICK e : e = [call[c].input EXCEPT !.seq = seq + 1]
  OBVIOUS
<1>4. e \in Envelopes /\ e.lock = call[c].input.lock /\ e.signed = call[c].input.signed
  <2>1. seq + 1 \in 0..(MaxSeq + 1)
    BY SubmissionAssumption DEF ChainInv, SubmissionTypeOK
  <2>2. call[c].input \in Envelopes
    BY <1>1 DEF CallRec
  <2> QED
    BY <1>3, <2>1, <2>2 DEF Envelopes
<1>5. CASE new = [call[c] EXCEPT !.pc = "prepare", !.input.seq = seq + 1]
  <2>1. new = [call[c] EXCEPT !.pc = "prepare", !.input = e]
    BY <1>3, <1>5
  <2>2. /\ new \in CallRec /\ new.pc = "prepare" /\ new.input = e
        /\ new.entry = call[c].entry /\ new.answer = call[c].answer
    BY <1>1, <1>4, <2>1 DEF CallRec
  <2>3. CallSound(c, new)
    BY <1>1, <1>4, <2>2 DEF CallSound, Before, During
  <2> QED
    BY <1>1, <1>2, <2>2, <2>3, GoesSound
<1>6. CASE new = [call[c] EXCEPT !.pc = "sign"] \/ new = [call[c] EXCEPT !.pc = "done", !.answer = "refused"]
  <2>1. /\ new \in CallRec /\ new.input = call[c].input /\ new.entry = call[c].entry
        /\ \/ new.pc = "sign" /\ new.answer = call[c].answer
           \/ new.pc = "done" /\ new.answer = "refused"
    BY <1>1, <1>6 DEF CallRec
  <2>2. CallSound(c, new)
    BY <1>1, <2>1 DEF CallSound, Before, During
  <2> QED
    BY <1>1, <1>2, <2>1, <2>2, GoesSound
<1> QED
  BY <1>2, <1>5, <1>6

LEMMA SubmitSound ==
    ASSUME ChainInv, NEW c \in Callers, SubmitEscrowLock(c)
    PROVE  ChainInv'
<1>1. call[c] \in CallRec /\ CallSound(c, call[c]) /\ call[c].pc = "sign"
  BY CallOf DEF SubmitEscrowLock
<1>2. PICK e : e = [call[c].input EXCEPT !.signed = TRUE]
  OBVIOUS
<1>3. e \in Envelopes /\ e.lock = call[c].input.lock
  BY <1>1, <1>2 DEF CallRec, Envelopes
<1>4. PICK new : /\ new = [call[c] EXCEPT !.pc = "send", !.input = e, !.xdr = e, !.attempt = 1, !.tries = 1]
                 /\ Goes(c, new)
  BY <1>2 DEF SubmitEscrowLock
<1>5. /\ new \in CallRec /\ new.pc = "send" /\ new.input = e /\ new.xdr = e
      /\ new.entry = call[c].entry /\ new.answer = call[c].answer
  <2>1. 1 \in 0..(BadSeqRetries + 1) /\ 1 \in 0..MaxSends
    BY SubmissionAssumption
  <2> QED
    BY <1>1, <1>3, <1>4, <2>1 DEF CallRec
<1>6. CallSound(c, new)
  BY <1>1, <1>3, <1>5 DEF CallSound, Before, During
<1> QED
  BY <1>1, <1>4, <1>5, <1>6, GoesSound

\* The letters as they are.
LEMMA NoNewLetter ==
    ASSUME ChainInv, NEW c \in Callers
    PROVE  Extends(c, dlq)
  BY DEF Extends, ChainInv, SubmissionTypeOK

\* dlqService.addEntry adds one at the end, or none.
LEMMA NewLetter ==
    ASSUME ChainInv, NEW c \in Callers, NEW saved \in BOOLEAN
    PROVE  Extends(c, AddedDocs(c, saved))
<1>1. CASE saved /\ Len(dlq) < MaxEntries
  <2>1. PICK d : d = [input |-> call[c].input, status |-> "pending"]
    OBVIOUS
  <2>2. d \in DlqDoc
    BY <2>1, CallTypes DEF DlqDoc, ChainInv
  <2>3. dlq \in Seq(DlqDoc)
    BY DEF ChainInv, SubmissionTypeOK
  <2>4. AddedDocs(c, saved) = Append(dlq, d)
    BY <1>1, <2>1 DEF AddedDocs
  <2>5. /\ Append(dlq, d) \in Seq(DlqDoc) /\ Len(Append(dlq, d)) = Len(dlq) + 1
        /\ \A i \in DOMAIN dlq : i \in DOMAIN Append(dlq, d) /\ Append(dlq, d)[i] = dlq[i]
        /\ \A i \in DOMAIN Append(dlq, d) : i \notin DOMAIN dlq => Append(dlq, d)[i] = d
    BY <2>2, <2>3
  <2>6. Len(dlq) + 1 <= MaxEntries
    BY <1>1, <2>3, SubmissionAssumption
  <2> QED
    BY <2>1, <2>4, <2>5, <2>6 DEF Extends
<1>2. CASE ~(saved /\ Len(dlq) < MaxEntries)
  BY <1>2, NoNewLetter DEF AddedDocs
<1> QED
  BY <1>1, <1>2

LEMMA SendAnsweredSound ==
    ASSUME ChainInv, NEW c \in Callers, SendAnswered(c)
    PROVE  ChainInv'
<1>1. /\ call[c] \in CallRec /\ CallSound(c, call[c]) /\ call[c].pc = "send" /\ call[c].pc \in During
      /\ call[c].xdr \in Envelopes
  BY CallOf, CallTypes DEF SendAnswered, During, ChainInv
<1>2. CASE /\ NodeReply(call[c].xdr) \in {"PENDING", "DUPLICATE"}
           /\ pool' = PoolAfter(call[c].xdr)
           /\ call' = [call EXCEPT ![c].pc = "poll", ![c].polls = 0]
           /\ UNCHANGED <<lockable, seq, ledger, wire, unheard, dlq, sorobanVars>>
  <2>1. PICK new : new = [call[c] EXCEPT !.pc = "poll", !.polls = 0]
    OBVIOUS
  <2>2. call' = [call EXCEPT ![c] = new]
    BY <1>2, <2>1 DEF ChainInv, SubmissionTypeOK
  <2>3. /\ new \in CallRec /\ new.pc = "poll" /\ new.input = call[c].input /\ new.xdr = call[c].xdr
        /\ new.entry = call[c].entry /\ new.answer = call[c].answer
    <3>1. 0 \in 0..MaxPolls
      BY SubmissionAssumption
    <3> QED
      BY <1>1, <2>1, <3>1 DEF CallRec
  <2>4. call[c].xdr.signed
    BY <1>1, <1>2, NodeReplyFacts DEF ChainInv, NetworkIsSound
  <2>5. CallSound(c, new)
    BY <1>1, <2>3, <2>4 DEF CallSound, Before, During
  <2>6. Moves(c, new) /\ NodeMoves(c, new) /\ LettersMove
    BY <1>1, <1>2, <2>2, <2>3 DEF Moves, NodeMoves, LettersMove, ChainInv, SubmissionTypeOK
  <2>7. Finished \subseteq Finished'
    BY <1>1, <2>2 DEF Finished, ChainInv, SubmissionTypeOK, Callers
  <2>8. CallSound(c, new)'
    BY <1>2, <2>5, <2>7 DEF CallSound, Applied
  <2>9. LettersAreSound'
    BY <1>2, <2>7 DEF ChainInv, LettersAreSound, Applied
  <2> QED
    BY <2>6, <2>8, <2>9, MovesSound
<1>3. CASE /\ call[c].attempt <= BadSeqRetries
           /\ Goes(c, [call[c] EXCEPT !.pc = "getAccount", !.tries = 1])
  <2>1. PICK new : new = [call[c] EXCEPT !.pc = "getAccount", !.tries = 1] /\ Goes(c, new)
    BY <1>3
  <2>2. /\ new \in CallRec /\ new.pc = "getAccount" /\ new.input = call[c].input /\ new.xdr = call[c].xdr
        /\ new.entry = call[c].entry /\ new.answer = call[c].answer /\ new.attempt = call[c].attempt
    <3>1. 1 \in 0..MaxSends
      BY SubmissionAssumption
    <3> QED
      BY <1>1, <2>1, <3>1 DEF CallRec
  <2>3. CallSound(c, new)
    BY <1>1, <1>3, <2>2 DEF CallSound, Before, During
  <2> QED
    BY <1>1, <2>1, <2>2, <2>3, GoesSound
<1>4. CASE /\ Ends(c, "conflict") /\ dlq' = RetriedDocs(c, "conflict", dlq)
           /\ UNCHANGED <<pool, wire, unheard>>
  <2>1. wire' \subseteq Envelopes /\ unheard' \in BOOLEAN
    BY <1>4 DEF ChainInv, SubmissionTypeOK
  <2>2. PICK docs : docs = dlq /\ Extends(c, docs)
    BY NoNewLetter
  <2> QED
    BY <1>1, <1>4, <2>1, <2>2, EndsSound
<1>5. CASE /\ Ends(c, "refused")
           /\ \E saved \in BOOLEAN : dlq' = RetriedDocs(c, "refused", AddedDocs(c, saved))
           /\ UNCHANGED <<pool, wire, unheard>>
  <2>1. wire' \subseteq Envelopes /\ unheard' \in BOOLEAN
    BY <1>5 DEF ChainInv, SubmissionTypeOK
  <2>2. PICK saved \in BOOLEAN : dlq' = RetriedDocs(c, "refused", AddedDocs(c, saved))
    BY <1>5
  <2>3. PICK docs : docs = AddedDocs(c, saved) /\ Extends(c, docs)
    BY NewLetter
  <2>4. dlq' = RetriedDocs(c, "refused", docs)
    BY <2>2, <2>3
  <2> QED
    BY <1>1, <1>5, <2>1, <2>3, <2>4, EndsSound
<1> QED
  BY <1>2, <1>3, <1>4, <1>5 DEF SendAnswered

LEMMA SendFailsSound ==
    ASSUME ChainInv, NEW c \in Callers, SendFails(c)
    PROVE  ChainInv'
<1>1. /\ call[c] \in CallRec /\ CallSound(c, call[c]) /\ call[c].pc = "send" /\ call[c].pc \in During
      /\ call[c].xdr \in Envelopes
  BY CallOf, CallTypes DEF SendFails, During, ChainInv
<1>2. /\ pool' = pool \/ (call[c].pc = "send" /\ pool' = PoolAfter(call[c].xdr))
      /\ wire' \subseteq Envelopes /\ unheard' \in BOOLEAN /\ (unheard => unheard')
      /\ ~unheard' => wire' = wire /\ pool' = pool
  <2>1. wire \subseteq Envelopes /\ unheard \in BOOLEAN
    BY DEF ChainInv, SubmissionTypeOK
  <2>2. \/ /\ pool' = PoolAfter(call[c].xdr) /\ unheard' = (unheard \/ pool' # pool)
           /\ UNCHANGED wire
        \/ /\ wire' = wire \cup {call[c].xdr} /\ unheard' = TRUE
           /\ UNCHANGED pool
        \/ UNCHANGED <<pool, wire, unheard>>
    BY Zenon DEF SendFails
  <2>3. (unheard \/ pool' # pool) \in BOOLEAN
    BY Zenon
  <2> QED
    BY <1>1, <2>1, <2>2, <2>3
<1>3. CASE /\ call[c].tries < MaxSends /\ call' = [call EXCEPT ![c].tries = @ + 1]
           /\ UNCHANGED <<lockable, seq, ledger, dlq, sorobanVars>>
  <2>1. PICK new : new = [call[c] EXCEPT !.tries = @ + 1]
    OBVIOUS
  <2>2. call' = [call EXCEPT ![c] = new]
    BY <1>3, <2>1 DEF ChainInv, SubmissionTypeOK
  <2>3. /\ new \in CallRec /\ new.pc = "send" /\ new.input = call[c].input /\ new.xdr = call[c].xdr
        /\ new.entry = call[c].entry /\ new.answer = call[c].answer
    <3>1. call[c].tries + 1 \in 0..MaxSends
      BY <1>1, <1>3, SubmissionAssumption DEF CallRec
    <3> QED
      BY <1>1, <2>1, <3>1 DEF CallRec
  <2>4. CallSound(c, new)
    BY <1>1, <2>3 DEF CallSound, Before, During
  <2>5. Moves(c, new) /\ NodeMoves(c, new) /\ LettersMove
    BY <1>1, <1>2, <1>3, <2>2, <2>3 DEF Moves, NodeMoves, LettersMove, ChainInv, SubmissionTypeOK
  <2>6. Finished \subseteq Finished'
    BY <1>1, <2>2 DEF Finished, ChainInv, SubmissionTypeOK, Callers
  <2>7. CallSound(c, new)'
    BY <1>3, <2>4, <2>6 DEF CallSound, Applied
  <2>8. LettersAreSound'
    BY <1>3, <2>6 DEF ChainInv, LettersAreSound, Applied
  <2> QED
    BY <2>5, <2>7, <2>8, MovesSound
<1>4. ASSUME NEW answer \in {"unknown", "refused"}, Ends(c, answer), dlq' = RetriedDocs(c, answer, dlq)
      PROVE  ChainInv'
  <2>1. PICK docs : docs = dlq /\ Extends(c, docs)
    BY NoNewLetter
  <2>2. dlq' = RetriedDocs(c, answer, docs)
    BY <1>4, <2>1
  <2> QED
    BY <1>1, <1>2, <1>4, <2>1, <2>2, EndsSound
<1>5. PICK kind \in FailureKinds :
        IF AnotherAttempt(c, kind)
        THEN /\ call' = [call EXCEPT ![c].tries = @ + 1]
             /\ UNCHANGED <<lockable, seq, ledger, dlq, sorobanVars>>
        ELSE \E answer \in {"unknown", "refused"} : Ends(c, answer) /\ dlq' = RetriedDocs(c, answer, dlq)
  BY Zenon DEF SendFails
<1> QED
  BY <1>3, <1>4, <1>5 DEF AnotherAttempt

\* What a poll says of the envelope is what a ledger holds.
LEMMA PollFacts ==
    ASSUME ChainInv, NEW c \in Callers, NEW said \in PollSays(c)
    PROVE  /\ said \in {"pending", "confirmed", "refused"}
           /\ said = "confirmed" => [env |-> call[c].xdr, ok |-> TRUE] \in ledger
           /\ said = "refused" => [env |-> call[c].xdr, ok |-> FALSE] \in ledger
<1>1. \/ said = "pending"
      \/ \E r \in ledger : r.env = call[c].xdr /\ said = IF r.ok THEN "confirmed" ELSE "refused"
  BY DEF PollSays
<1>2. ASSUME NEW r \in ledger, r.env = call[c].xdr
      PROVE  r.ok \in BOOLEAN /\ r = [env |-> call[c].xdr, ok |-> r.ok]
  BY <1>2 DEF ChainInv, SubmissionTypeOK
<1> QED
  BY <1>1, <1>2

LEMMA PollSound ==
    ASSUME ChainInv, NEW c \in Callers, PollForCompletion(c)
    PROVE  ChainInv'
<1>1. /\ call[c] \in CallRec /\ CallSound(c, call[c]) /\ call[c].pc = "poll" /\ call[c].pc \in During
      /\ call[c].xdr = call[c].input
  BY CallOf DEF PollForCompletion, During, CallSound
<1>2. PICK said \in PollSays(c) :
        IF said = "pending" /\ call[c].polls + 1 < MaxPolls
        THEN Goes(c, Polled(c))
        ELSE \E answer \in {IF said = "pending" THEN PollWindowEnd ELSE said} :
               /\ Ends(c, answer)
               /\ dlq' = RetriedDocs(c, answer, dlq)
               /\ UNCHANGED <<pool, wire, unheard>>
  BY Zenon DEF PollForCompletion
<1>3. CASE call[c].polls + 1 < MaxPolls /\ Goes(c, Polled(c))
  <2>1. PICK new : new = [call[c] EXCEPT !.polls = @ + 1] /\ Goes(c, new)
    BY <1>3 DEF Polled
  <2>2. /\ new \in CallRec /\ new.pc = "poll" /\ new.input = call[c].input /\ new.xdr = call[c].xdr
        /\ new.entry = call[c].entry /\ new.answer = call[c].answer
    <3>1. call[c].polls + 1 \in 0..MaxPolls
      BY <1>1, <1>3, SubmissionAssumption DEF CallRec
    <3> QED
      BY <1>1, <2>1, <3>1 DEF CallRec
  <2>3. CallSound(c, new)
    BY <1>1, <2>2 DEF CallSound, Before, During
  <2> QED
    BY <1>1, <2>1, <2>2, <2>3, GoesSound
<1>4. ASSUME NEW answer, answer = IF said = "pending" THEN PollWindowEnd ELSE said,
             Ends(c, answer), dlq' = RetriedDocs(c, answer, dlq), UNCHANGED <<pool, wire, unheard>>
      PROVE  ChainInv'
  <2>1. answer \in {"confirmed", "refused", "conflict", "unknown"}
    BY <1>4, PollFacts DEF PollWindowEnd
  <2>2. answer = "confirmed" => Applied(call[c].input)
    BY <1>1, <1>4, PollFacts DEF PollWindowEnd, Applied
  <2>3. wire' \subseteq Envelopes /\ unheard' \in BOOLEAN
    BY <1>4 DEF ChainInv, SubmissionTypeOK
  <2>4. PICK docs : docs = dlq /\ Extends(c, docs)
    BY NoNewLetter
  <2>5. dlq' = RetriedDocs(c, answer, docs)
    BY <1>4, <2>4
  <2> QED
    BY <1>1, <1>4, <2>1, <2>2, <2>3, <2>4, <2>5, EndsSound
<1> QED
  BY <1>2, <1>3, <1>4

LEMMA RebuildSound ==
    ASSUME ChainInv, NEW c \in Callers, RebuildWithFreshSequence(c)
    PROVE  ChainInv'
<1>1. /\ call[c] \in CallRec /\ CallSound(c, call[c])
      /\ call[c].input \in Envelopes /\ call[c].xdr \in Envelopes
      /\ call[c].pc \in {"getAccount", "simulate"} /\ call[c].attempt <= BadSeqRetries
  BY CallOf, CallTypes DEF RebuildWithFreshSequence, ChainInv, CallSound, During
<1>2. 1 \in 0..MaxSends
  BY SubmissionAssumption
<1>3. CASE Goes(c, [call[c] EXCEPT !.pc = "simulate", !.tries = 1,
                                   !.xdr = [@ EXCEPT !.seq = seq + 1, !.signed = FALSE]])
  <2>1. PICK e : e = [call[c].xdr EXCEPT !.seq = seq + 1, !.signed = FALSE]
    OBVIOUS
  <2>2. e \in Envelopes /\ e.lock = call[c].xdr.lock /\ ~e.signed
    <3>1. seq + 1 \in 0..(MaxSeq + 1)
      BY SubmissionAssumption DEF ChainInv, SubmissionTypeOK
    <3> QED
      BY <1>1, <2>1, <3>1 DEF Envelopes
  <2>3. PICK new : new = [call[c] EXCEPT !.pc = "simulate", !.tries = 1, !.xdr = e] /\ Goes(c, new)
    BY <1>3, <2>1
  <2>4. /\ new \in CallRec /\ new.pc = "simulate" /\ new.input = call[c].input /\ new.xdr = e
        /\ new.entry = call[c].entry /\ new.answer = call[c].answer /\ new.attempt = call[c].attempt
    BY <1>1, <1>2, <2>2, <2>3 DEF CallRec
  <2>5. CallSound(c, new)
    BY <1>1, <2>2, <2>4 DEF CallSound, Before, During
  <2> QED
    BY <1>1, <2>3, <2>4, <2>5, GoesSound
<1>4. CASE Goes(c, Rebuilt(c))
  <2>1. PICK new : new = [call[c] EXCEPT !.pc = "send", !.attempt = @ + 1, !.tries = 1] /\ Goes(c, new)
    BY <1>4 DEF Rebuilt
  <2>2. /\ new \in CallRec /\ new.pc = "send" /\ new.input = call[c].input /\ new.xdr = call[c].xdr
        /\ new.entry = call[c].entry /\ new.answer = call[c].answer
    <3>1. call[c].attempt + 1 \in 0..(BadSeqRetries + 1)
      BY <1>1, SubmissionAssumption DEF CallRec
    <3> QED
      BY <1>1, <1>2, <2>1, <3>1 DEF CallRec
  <2>3. CallSound(c, new)
    BY <1>1, <2>2 DEF CallSound, Before, During
  <2> QED
    BY <1>1, <2>1, <2>2, <2>3, GoesSound
<1> QED
  BY <1>3, <1>4 DEF RebuildWithFreshSequence

LEMMA RebuildFailsSound ==
    ASSUME ChainInv, NEW c \in Callers, RebuildFails(c)
    PROVE  ChainInv'
<1>1. /\ call[c] \in CallRec /\ CallSound(c, call[c])
      /\ call[c].pc \in {"getAccount", "simulate"} /\ call[c].pc \in During
  BY CallOf DEF RebuildFails, During
<1>2. PICK kind \in FailureKinds :
        IF AnotherAttempt(c, kind) THEN Goes(c, [call[c] EXCEPT !.tries = @ + 1])
        ELSE \E answer \in {"unknown", "refused"} :
               Ends(c, answer) /\ dlq' = RetriedDocs(c, answer, dlq) /\ UNCHANGED <<pool, wire, unheard>>
  BY Zenon DEF RebuildFails
<1>3. CASE call[c].tries < MaxSends /\ Goes(c, [call[c] EXCEPT !.tries = @ + 1])
  <2>1. PICK new : new = [call[c] EXCEPT !.tries = @ + 1] /\ Goes(c, new)
    BY <1>3
  <2>2. /\ new \in CallRec /\ new.pc = call[c].pc /\ new.input = call[c].input /\ new.xdr = call[c].xdr
        /\ new.entry = call[c].entry /\ new.answer = call[c].answer /\ new.attempt = call[c].attempt
    <3>1. call[c].tries + 1 \in 0..MaxSends
      BY <1>1, <1>3, SubmissionAssumption DEF CallRec
    <3> QED
      BY <1>1, <2>1, <3>1 DEF CallRec
  <2>3. CallSound(c, new)
    BY <1>1, <2>2 DEF CallSound, Before, During
  <2> QED
    BY <1>1, <2>1, <2>2, <2>3, GoesSound
<1>4. ASSUME NEW answer \in {"unknown", "refused"}, Ends(c, answer), dlq' = RetriedDocs(c, answer, dlq),
             UNCHANGED <<pool, wire, unheard>>
      PROVE  ChainInv'
  <2>1. wire' \subseteq Envelopes /\ unheard' \in BOOLEAN
    BY <1>4 DEF ChainInv, SubmissionTypeOK
  <2>2. PICK docs : docs = dlq /\ Extends(c, docs)
    BY NoNewLetter
  <2>3. dlq' = RetriedDocs(c, answer, docs)
    BY <1>4, <2>2
  <2> QED
    BY <1>1, <1>4, <2>1, <2>2, <2>3, EndsSound
<1> QED
  BY <1>2, <1>3, <1>4 DEF AnotherAttempt

LEMMA RetryEntrySound ==
    ASSUME ChainInv, NEW o \in Operators, RetryEntry(o)
    PROVE  ChainInv'
<1>a. o \in Callers /\ o \notin Payers
  BY SubmissionAssumption DEF Callers
<1>b. dlq \in Seq(DlqDoc) /\ Len(dlq) <= MaxEntries /\ call \in [Callers -> CallRec]
  BY DEF ChainInv, SubmissionTypeOK
<1>1. PICK i \in DOMAIN dlq :
        /\ dlq[i].status # "resolved"
        /\ dlq' = [dlq EXCEPT ![i].status = "retried"]
        /\ call' = [call EXCEPT ![o] = [NewCall EXCEPT !.pc = "send", !.input = dlq[i].input,
                                                       !.xdr = dlq[i].input, !.attempt = 1, !.tries = 1,
                                                       !.entry = i]]
  BY Zenon DEF RetryEntry
<1>2. PICK e : e = dlq[i].input
  OBVIOUS
<1>3. e \in Envelopes /\ e.lock \in Finished /\ i \in 1..MaxEntries
  <2>1. dlq[i] \in DlqDoc /\ i \in 1..Len(dlq) /\ Len(dlq) \in Nat
    BY <1>b
  <2>2. e.lock \in Finished
    BY <1>2 DEF ChainInv, LettersAreSound
  <2> QED
    BY <1>2, <1>b, <2>1, <2>2, SubmissionAssumption DEF DlqDoc
<1>4. PICK new : new = [NewCall EXCEPT !.pc = "send", !.input = e, !.xdr = e, !.attempt = 1, !.tries = 1, !.entry = i]
  OBVIOUS
<1>5. /\ new \in CallRec /\ new.pc = "send" /\ new.input = e /\ new.xdr = e /\ new.entry = i
      /\ new.answer = "none"
  <2>1. 1 \in 0..(BadSeqRetries + 1) /\ 1 \in 0..MaxSends
    BY SubmissionAssumption
  <2> QED
    BY <1>3, <1>4, <2>1, NewCallFacts DEF CallRec, NewCall
<1>6. call' = [call EXCEPT ![o] = new] /\ UNCHANGED <<lockable, seq, pool, ledger, wire, unheard>>
  BY <1>1, <1>2, <1>4 DEF RetryEntry
<1>7. PICK d : d = [dlq[i] EXCEPT !.status = "retried"]
  OBVIOUS
<1>8. d \in DlqDoc /\ d.input = e /\ d.status = "retried" /\ dlq' = [dlq EXCEPT ![i] = d]
  <2>1. dlq[i] \in DlqDoc
    BY <1>b
  <2> QED
    BY <1>1, <1>2, <1>7, <2>1 DEF DlqDoc
<1>9. /\ dlq' \in Seq(DlqDoc) /\ Len(dlq') = Len(dlq) /\ DOMAIN dlq' = DOMAIN dlq
      /\ \A j \in DOMAIN dlq :
           dlq'[j].input = dlq[j].input /\ (dlq'[j].status = "resolved" => dlq[j].status = "resolved")
  BY <1>2, <1>8, <1>b
<1>10. Finished' = Finished
  BY <1>6, <1>a, <1>b DEF Finished, Callers
<1>11. Moves(o, new) /\ NodeMoves(o, new) /\ LettersMove
  BY <1>5, <1>6, <1>9, <1>a, <1>b DEF Moves, NodeMoves, LettersMove, ChainInv, SubmissionTypeOK
<1>12. CallSound(o, new)'
  <2>1. new.entry \in DOMAIN dlq' /\ dlq'[new.entry].input = new.input
    BY <1>2, <1>5, <1>9
  <2> QED
    BY <1>3, <1>5, <1>10, <1>a, <2>1 DEF CallSound, Before, During
<1>13. LettersAreSound'
  <2> SUFFICES ASSUME NEW j \in DOMAIN dlq'
               PROVE  /\ dlq'[j].input.lock \in Finished'
                      /\ dlq'[j].status = "resolved" => [env |-> dlq'[j].input, ok |-> TRUE] \in ledger'
    BY DEF LettersAreSound, Applied
  <2>1. /\ dlq[j].input.lock \in Finished
        /\ dlq[j].status = "resolved" => [env |-> dlq[j].input, ok |-> TRUE] \in ledger
    BY <1>9 DEF ChainInv, LettersAreSound, Applied
  <2> QED
    BY <1>6, <1>9, <1>10, <2>1
<1> QED
  BY <1>11, <1>12, <1>13, <1>a, MovesSound

LEMMA ReportedSound ==
    ASSUME ChainInv, NEW o \in Operators, Reported(o)
    PROVE  ChainInv'
<1>1. o \in Callers /\ o \notin Payers
  BY SubmissionAssumption DEF Callers
<1>2. PICK new : new = NewCall
  OBVIOUS
<1>3. new \in CallRec /\ CallSound(o, new) /\ Goes(o, new)
  BY <1>2, NewCallFacts DEF CallSound, Before, During, Reported
<1> QED
  BY <1>1, <1>3, GoesSound

\* The network's own steps.  The transaction of a ledger is the pool's only one
\* and takes the next sequence number.
LEMMA NetworkSound ==
    ASSUME ChainInv, NetworkStep
    PROVE  ChainInv'
<1>1. CASE LedgerCloses
  <2>1. PICK e \in pool, ok \in BOOLEAN :
          ledger' = ledger \cup {[env |-> e, ok |-> ok]} /\ pool' = pool \ {e}
    BY <1>1 DEF LedgerCloses
  <2>2. /\ seq \in Nat /\ seq < MaxSeq /\ seq' = seq + 1
        /\ UNCHANGED <<lockable, wire, unheard, call, dlq>>
    BY <1>1, SubmissionAssumption DEF LedgerCloses, ChainInv, SubmissionTypeOK
  <2>3. pool' = {} /\ e \in Envelopes /\ e.signed /\ e.seq = seq + 1
    BY <2>1 DEF ChainInv, NetworkIsSound, SubmissionTypeOK
  <2>4. \A r \in ledger' : r \in ledger \/ (r.env = e /\ r = [env |-> e, ok |-> ok])
    BY <2>1
  <2>5. SubmissionTypeOK'
    BY <2>1, <2>2, <2>3, SubmissionAssumption DEF ChainInv, SubmissionTypeOK
  <2>6. CallsAreSound' /\ LettersAreSound'
    BY <2>1, <2>2 DEF ChainInv, CallsAreSound, CallSound, LettersAreSound, Finished, Applied
  <2>7. NetworkIsSound'
    <3>1. \A r \in ledger : r.env.signed /\ r.env.seq \in Nat /\ r.env.seq <= seq
      BY SubmissionAssumption DEF ChainInv, NetworkIsSound, SubmissionTypeOK, Envelopes
    <3>2. \A r \in ledger' : r.env.signed /\ r.env.seq <= seq + 1
      BY <2>2, <2>3, <2>4, <3>1
    <3>3. ASSUME NEW r \in ledger', NEW q \in ledger', r.env.seq = q.env.seq
          PROVE  r = q
      <4>1. CASE r \in ledger /\ q \in ledger
        BY <3>3, <4>1 DEF ChainInv, NetworkIsSound
      <4>2. CASE r \notin ledger \/ q \notin ledger
        BY <2>2, <2>3, <2>4, <3>1, <3>3, <4>2
      <4> QED
        BY <4>1, <4>2
    <3> QED
      BY <2>2, <2>3, <3>2, <3>3 DEF NetworkIsSound
  <2>8. HeardIsKnown'
    BY <2>2, <2>3, <2>4, <2>1 DEF ChainInv, HeardIsKnown
  <2> QED
    BY <2>5, <2>6, <2>7, <2>8 DEF ChainInv
<1>2. CASE Expires
  <2>1. pool' \subseteq pool /\ UNCHANGED <<lockable, seq, ledger, wire, unheard, call, dlq>>
    BY <1>2 DEF Expires
  <2>2. SubmissionTypeOK' /\ NetworkIsSound' /\ HeardIsKnown'
    BY <2>1 DEF ChainInv, SubmissionTypeOK, NetworkIsSound, HeardIsKnown
  <2>3. CallsAreSound' /\ LettersAreSound'
    BY <2>1 DEF ChainInv, CallsAreSound, CallSound, LettersAreSound, Finished, Applied
  <2> QED
    BY <2>2, <2>3 DEF ChainInv
<1>3. CASE Arrives
  <2>1. PICK e \in wire : wire' = wire \ {e} /\ pool' = PoolAfter(e)
    BY <1>3 DEF Arrives
  <2>2. UNCHANGED <<lockable, seq, ledger, unheard, call, dlq>> /\ e \in Envelopes /\ unheard
    BY <1>3, <2>1 DEF Arrives, ChainInv, SubmissionTypeOK, HeardIsKnown
  <2>3. SubmissionTypeOK' /\ NetworkIsSound'
    BY <2>1, <2>2, PoolAfterFacts DEF ChainInv, SubmissionTypeOK, NetworkIsSound
  <2>4. CallsAreSound' /\ LettersAreSound' /\ HeardIsKnown'
    BY <2>2 DEF ChainInv, CallsAreSound, CallSound, LettersAreSound, Finished, Applied, HeardIsKnown
  <2> QED
    BY <2>3, <2>4 DEF ChainInv
<1>4. CASE DeliveryEnds
  <2>1. lockable' = FALSE /\ UNCHANGED <<seq, pool, ledger, wire, unheard, call, dlq>>
    BY <1>4 DEF DeliveryEnds
  <2>2. SubmissionTypeOK'
    BY <2>1 DEF ChainInv, SubmissionTypeOK
  <2>3. NetworkIsSound' /\ HeardIsKnown'
    BY <2>1 DEF ChainInv, NetworkIsSound, HeardIsKnown
  <2>4. CallsAreSound' /\ LettersAreSound'
    BY <2>1 DEF ChainInv, CallsAreSound, CallSound, LettersAreSound, Finished, Applied
  <2> QED
    BY <2>2, <2>3, <2>4 DEF ChainInv
<1> QED
  BY <1>1, <1>2, <1>3, <1>4 DEF NetworkStep

-----------------------------------------------------------------------------
(* The invariant *)

LEMMA ChainInit == Init => ChainInv
<1> SUFFICES ASSUME SubmissionInit
             PROVE  ChainInv
  BY DEF Init
<1>1. SubmissionTypeOK
  <2>1. dlq = <<>> /\ dlq \in Seq(DlqDoc) /\ Len(dlq) = 0
    BY DEF SubmissionInit
  <2>2. call \in [Callers -> CallRec]
    BY NewCallFacts DEF SubmissionInit
  <2> QED
    <3>1. 0 \in 0..MaxSeq /\ Len(dlq) <= MaxEntries
      BY <2>1, SubmissionAssumption
    <3> QED
      BY <2>1, <2>2, <3>1 DEF SubmissionInit, SubmissionTypeOK
<1>2. CallsAreSound
  BY NewCallFacts DEF SubmissionInit, CallsAreSound, CallSound, Before, During
<1>3. LettersAreSound /\ NetworkIsSound /\ HeardIsKnown
  BY DEF SubmissionInit, LettersAreSound, NetworkIsSound, HeardIsKnown
<1> QED
  BY <1>1, <1>2, <1>3 DEF ChainInv

LEMMA ChainNext == ChainInv /\ [Next]_vars => ChainInv'
<1> SUFFICES ASSUME ChainInv, [Next]_vars
             PROVE  ChainInv'
  OBVIOUS
<1>1. CASE UNCHANGED submissionVars
  BY <1>1 DEF submissionVars, ChainInv, SubmissionTypeOK, NetworkIsSound, HeardIsKnown, CallsAreSound,
              CallSound, LettersAreSound, Finished, Applied
<1>2. ASSUME NEW c \in Callers, CallStep(c)
      PROVE  ChainInv'
  BY <1>2, BuildSound, BreakerFiresSound, BreakerAnswersSound, SubmitSound, SendAnsweredSound,
     SendFailsSound, PollSound, RebuildSound, RebuildFailsSound DEF CallStep
<1>3. \/ UNCHANGED submissionVars
      \/ NetworkStep
      \/ \E c \in Callers : CallStep(c)
      \/ \E o \in Operators : RetryEntry(o) \/ Reported(o)
  BY DEF Next, Reading, Locking, Watching, vars
<1> QED
  BY <1>1, <1>2, <1>3, NetworkSound, RetryEntrySound, ReportedSound

LEMMA ChainIsSound == Spec => []ChainInv
  BY ChainInit, ChainNext, PTL DEF Spec

\* submitEscrowLock answers "confirmed", and retryEntry resolves a dead letter,
\* only when a ledger holds the caller's own envelope, applied: whatever the
\* retries, the rebuilt envelopes and the late arrivals.
THEOREM ConfirmationIsTrue == Spec => []ConfirmedIsApplied
<1>1. ChainInv => ConfirmedIsApplied
  BY DEF ChainInv, CallsAreSound, CallSound, LettersAreSound, ConfirmedIsApplied
<1> QED
  BY <1>1, ChainIsSound, PTL

-----------------------------------------------------------------------------
(* Refusals *)

\* A step that refuses a payer leaves the network as it is, unless it leaves a
\* send unheard; after polling, a ledger has the envelope, failed.
LEMMA RefusalStep ==
    ASSUME ChainInv, NEW p \in Payers, CallStep(p), call[p].answer = "none",
           call'[p].answer \in {"refused", "conflict"}, ~unheard'
    PROVE  /\ UNCHANGED <<pool, ledger, unheard>> /\ call'[p].input = call[p].input
           /\ call[p].pc = "poll" => [env |-> call[p].xdr, ok |-> FALSE] \in ledger
<1>a. p \in Callers /\ call[p] \in CallRec /\ call \in [Callers -> CallRec] /\ unheard \in BOOLEAN
  BY DEF Callers, ChainInv, SubmissionTypeOK
<1>b. ASSUME NEW r, call' = [call EXCEPT ![p] = r], r.answer = call[p].answer
      PROVE  FALSE
  BY <1>a, <1>b
<1>c. ASSUME NEW answer, Ends(p, answer)
      PROVE  call'[p].answer = answer /\ call'[p].input = call[p].input /\ ledger' = ledger
  BY <1>a, <1>c DEF Ends, NewCall
<1>1. CASE BuildEscrowLockXdr(p)
  <2>1. call[p].pc = "idle"
    BY <1>1 DEF BuildEscrowLockXdr
  <2>2. CASE lockable
    <3>1. PICK r : r = [call[p] EXCEPT !.pc = "load", !.input.lock = p] /\ call' = [call EXCEPT ![p] = r]
      BY <1>1, <2>2 DEF BuildEscrowLockXdr, Goes
    <3>2. r.answer = call[p].answer
      BY <1>a, <3>1 DEF CallRec
    <3> QED
      BY <1>b, <3>1, <3>2
  <2>3. CASE ~lockable
    BY <1>1, <1>a, <2>1, <2>3 DEF BuildEscrowLockXdr, Goes, CallRec
  <2> QED
    BY <2>2, <2>3
<1>2. CASE BreakerFires(p)
  <2>1. call[p].pc \in {"load", "prepare"}
    BY <1>2 DEF BreakerFires
  <2>2. PICK r : /\ \/ r = [call[p] EXCEPT !.pc = IF @ = "load" THEN "loading" ELSE "preparing"]
                    \/ r = [call[p] EXCEPT !.pc = "done", !.answer = "unavailable"]
                 /\ Goes(p, r)
    BY <1>2, Zenon DEF BreakerFires
  <2>3. r.answer \in {call[p].answer, "unavailable"} /\ call'[p] = r
    BY <1>a, <2>2 DEF CallRec, Goes
  <2> QED
    BY <2>3
<1>3. CASE BreakerAnswers(p)
  <2>1. call[p].pc \in {"loading", "preparing"}
    BY <1>3 DEF BreakerAnswers
  <2>2. PICK r : /\ \/ r = [call[p] EXCEPT !.pc = "prepare", !.input.seq = seq + 1]
                    \/ r = [call[p] EXCEPT !.pc = "sign"]
                    \/ r = [call[p] EXCEPT !.pc = "done", !.answer = "refused"]
                 /\ Goes(p, r)
    BY <1>3, Zenon DEF BreakerAnswers
  <2>3. r = [call[p] EXCEPT !.pc = "prepare", !.input.seq = seq + 1] => r.answer = call[p].answer
    BY <1>a DEF CallRec
  <2>4. r = [call[p] EXCEPT !.pc = "sign"] => r.answer = call[p].answer
    BY <1>a DEF CallRec
  <2>5. r = [call[p] EXCEPT !.pc = "done", !.answer = "refused"] => r.input = call[p].input
    BY <1>a DEF CallRec
  <2>6. call' = [call EXCEPT ![p] = r] /\ UNCHANGED <<pool, ledger, unheard>>
    BY <2>2 DEF Goes
  <2>7. r = [call[p] EXCEPT !.pc = "done", !.answer = "refused"]
    BY <1>b, <2>2, <2>3, <2>4, <2>6
  <2> QED
    BY <1>a, <2>1, <2>5, <2>6, <2>7
<1>4. CASE SubmitEscrowLock(p)
  <2>1. PICK e : e = [call[p].input EXCEPT !.signed = TRUE]
    OBVIOUS
  <2>2. PICK r : /\ r = [call[p] EXCEPT !.pc = "send", !.input = e, !.xdr = e, !.attempt = 1, !.tries = 1]
                 /\ Goes(p, r)
    BY <1>4, <2>1 DEF SubmitEscrowLock
  <2>3. r.answer = call[p].answer
    BY <1>a, <2>2 DEF CallRec
  <2> QED
    BY <1>b, <2>2, <2>3 DEF Goes
<1>5. CASE SendAnswered(p)
  <2>1. call[p].pc = "send"
    BY <1>5 DEF SendAnswered
  <2>2. CASE call' = [call EXCEPT ![p].pc = "poll", ![p].polls = 0]
    BY <1>a, <2>2 DEF CallRec
  <2>3. CASE Goes(p, [call[p] EXCEPT !.pc = "getAccount", !.tries = 1])
    BY <1>a, <2>3 DEF CallRec, Goes
  <2>4. CASE (Ends(p, "conflict") \/ Ends(p, "refused")) /\ UNCHANGED <<pool, wire, unheard>>
    BY <1>c, <2>1, <2>4
  <2> QED
    BY <1>5, <2>2, <2>3, <2>4 DEF SendAnswered
<1>6. CASE SendFails(p)
  <2>1. call[p].pc = "send"
    BY <1>6 DEF SendFails
  <2>2. \/ /\ pool' = PoolAfter(call[p].xdr) /\ unheard' = (unheard \/ pool' # pool)
           /\ UNCHANGED wire
        \/ /\ wire' = wire \cup {call[p].xdr} /\ unheard' = TRUE
           /\ UNCHANGED pool
        \/ UNCHANGED <<pool, wire, unheard>>
    BY <1>6, Zenon DEF SendFails
  <2>3. UNCHANGED <<pool, unheard>>
    BY <1>a, <2>2
  <2>4. \/ call' = [call EXCEPT ![p].tries = @ + 1]
        \/ \E answer \in {"unknown", "refused"} : Ends(p, answer)
    BY <1>6, Zenon DEF SendFails
  <2>5. CASE call' = [call EXCEPT ![p].tries = @ + 1]
    BY <1>a, <2>5 DEF CallRec
  <2> QED
    BY <1>c, <2>1, <2>3, <2>4, <2>5
<1>7. CASE PollForCompletion(p)
  <2>1. call[p].pc = "poll"
    BY <1>7 DEF PollForCompletion
  <2>2. PICK said \in PollSays(p) :
          IF said = "pending" /\ call[p].polls + 1 < MaxPolls
          THEN Goes(p, Polled(p))
          ELSE \E answer \in {IF said = "pending" THEN PollWindowEnd ELSE said} :
                 Ends(p, answer) /\ UNCHANGED <<pool, wire, unheard>>
    BY <1>7, Zenon DEF PollForCompletion
  <2>3. CASE Goes(p, Polled(p))
    BY <1>a, <2>3 DEF CallRec, Goes, Polled
  <2>4. ASSUME NEW answer, answer = IF said = "pending" THEN PollWindowEnd ELSE said,
               Ends(p, answer), UNCHANGED <<pool, wire, unheard>>
        PROVE  /\ UNCHANGED <<pool, ledger, unheard>> /\ call'[p].input = call[p].input
               /\ [env |-> call[p].xdr, ok |-> FALSE] \in ledger
    <3>1. said = "refused"
      <4>1. call'[p].answer = answer
        BY <1>c, <2>4
      <4>2. said \in {"pending", "confirmed", "refused"}
        BY <1>a, PollFacts
      <4> QED
        BY <2>4, <4>1, <4>2 DEF PollWindowEnd
    <3> QED
      BY <1>a, <1>c, <2>4, <3>1, PollFacts
  <2> QED
    BY <2>1, <2>2, <2>3, <2>4
<1>8. CASE RebuildWithFreshSequence(p)
  <2>1. CASE Goes(p, [call[p] EXCEPT !.pc = "simulate", !.tries = 1,
                                     !.xdr = [@ EXCEPT !.seq = seq + 1, !.signed = FALSE]])
    <3>1. PICK e : e = [call[p].xdr EXCEPT !.seq = seq + 1, !.signed = FALSE]
      OBVIOUS
    <3>2. PICK r : r = [call[p] EXCEPT !.pc = "simulate", !.tries = 1, !.xdr = e] /\ Goes(p, r)
      BY <2>1, <3>1
    <3>3. r.answer = call[p].answer
      BY <1>a, <3>2 DEF CallRec
    <3> QED
      BY <1>b, <3>2, <3>3 DEF Goes
  <2>2. CASE Goes(p, Rebuilt(p))
    BY <1>a, <2>2 DEF CallRec, Goes, Rebuilt
  <2> QED
    BY <1>8, <2>1, <2>2 DEF RebuildWithFreshSequence
<1>9. CASE RebuildFails(p)
  <2>1. call[p].pc \in {"getAccount", "simulate"}
    BY <1>9 DEF RebuildFails
  <2>2. \/ Goes(p, [call[p] EXCEPT !.tries = @ + 1])
        \/ \E answer \in {"unknown", "refused"} : Ends(p, answer) /\ UNCHANGED <<pool, wire, unheard>>
    BY <1>9, Zenon DEF RebuildFails
  <2>3. CASE Goes(p, [call[p] EXCEPT !.tries = @ + 1])
    BY <1>a, <2>3 DEF CallRec, Goes
  <2> QED
    BY <1>c, <2>1, <2>2, <2>3
<1> QED
  BY <1>1, <1>2, <1>3, <1>4, <1>5, <1>6, <1>7, <1>8, <1>9 DEF CallStep

\* A client told 502 or 409 can count on it, unless a send went unheard: what
\* withRetry, the tx_bad_seq loop and the dead letters of others do in between
\* does not bring his envelope to the chain.
THEOREM RefusalsAreTrue == Spec => RefusalIsTrue
<1>1. ASSUME ChainInv, [Next]_vars
      PROVE  [\A p \in Payers :
                call[p].answer = "none" /\ call'[p].answer \in {"refused", "conflict"} /\ ~unheard' =>
                  call'[p].input \notin pool' /\ [env |-> call'[p].input, ok |-> TRUE] \notin ledger']_vars
  <2> SUFFICES ASSUME Next, NEW p \in Payers,
                      call[p].answer = "none", call'[p].answer \in {"refused", "conflict"}, ~unheard'
               PROVE  call'[p].input \notin pool' /\ [env |-> call'[p].input, ok |-> TRUE] \notin ledger'
    BY <1>1
  <2>a. p \in Callers /\ call[p] \in CallRec /\ CallSound(p, call[p])
    BY <1>1, CallOf DEF Callers
  <2>1. CallStep(p)
    <3>1. ASSUME NEW c \in Callers, CallStep(c), c # p
          PROVE  call'[p] = call[p]
      <4>1. \E r : call' = [call EXCEPT ![c] = r]
        <5>1. ASSUME NEW r, Goes(c, r)
              PROVE  \E x : call' = [call EXCEPT ![c] = x]
          BY <5>1 DEF Goes
        <5>2. ASSUME NEW answer, Ends(c, answer)
              PROVE  \E x : call' = [call EXCEPT ![c] = x]
          BY <5>2 DEF Ends
        <5>3. CASE call' = [call EXCEPT ![c].pc = "poll", ![c].polls = 0]
          <6>1. call' = [call EXCEPT ![c] = [call[c] EXCEPT !.pc = "poll", !.polls = 0]]
            BY <1>1, <5>3 DEF ChainInv, SubmissionTypeOK
          <6> QED
            BY <6>1
        <5>4. CASE call' = [call EXCEPT ![c].tries = @ + 1]
          <6>1. call' = [call EXCEPT ![c] = [call[c] EXCEPT !.tries = @ + 1]]
            BY <1>1, <5>4 DEF ChainInv, SubmissionTypeOK
          <6> QED
            BY <6>1
        <5>5. CASE SendAnswered(c) \/ SendFails(c)
          BY <5>1, <5>2, <5>3, <5>4, <5>5, Zenon DEF SendAnswered, SendFails
        <5>6. CASE PollForCompletion(c) \/ RebuildWithFreshSequence(c) \/ RebuildFails(c)
          BY <5>1, <5>2, <5>6, Zenon DEF PollForCompletion, RebuildWithFreshSequence, RebuildFails
        <5>7. CASE BuildEscrowLockXdr(c) \/ BreakerFires(c) \/ BreakerAnswers(c) \/ SubmitEscrowLock(c)
          BY <5>1, <5>7, Zenon DEF BuildEscrowLockXdr, BreakerFires, BreakerAnswers, SubmitEscrowLock
        <5> QED
          BY <3>1, <5>5, <5>6, <5>7 DEF CallStep
      <4> QED
        BY <1>1, <2>a, <3>1, <4>1 DEF ChainInv, SubmissionTypeOK
    <3>2. ASSUME NEW o \in Operators, RetryEntry(o) \/ Reported(o)
          PROVE  call'[p] = call[p]
      <4>1. o # p
        BY SubmissionAssumption
      <4> QED
        BY <1>1, <2>a, <3>2, <4>1 DEF RetryEntry, Reported, Goes, ChainInv, SubmissionTypeOK
    <3>3. ASSUME NetworkStep
          PROVE  call'[p] = call[p]
      BY <3>3 DEF NetworkStep, LedgerCloses, Expires, Arrives, DeliveryEnds
    <3>4. \/ UNCHANGED submissionVars
          \/ NetworkStep
          \/ \E c \in Callers : CallStep(c)
          \/ \E o \in Operators : RetryEntry(o) \/ Reported(o)
      BY DEF Next, Reading, Locking, Watching, vars
    <3>5. UNCHANGED submissionVars => call'[p] = call[p]
      BY DEF submissionVars
    <3>6. call'[p] # call[p]
      OBVIOUS
    <3> QED
      BY <3>1, <3>2, <3>3, <3>4, <3>5, <3>6
  <2>2. /\ UNCHANGED <<pool, ledger, unheard>> /\ call'[p].input = call[p].input
        /\ call[p].pc = "poll" => [env |-> call[p].xdr, ok |-> FALSE] \in ledger
    BY <1>1, <2>1, RefusalStep
  <2>3. CASE call[p].pc \in Before
    BY <1>1, <2>2, <2>3, <2>a DEF CallSound, ChainInv, NetworkIsSound
  <2>4. CASE call[p].pc \in During \ {"poll"}
    <3>1. call[p].input.lock = p
      BY <2>4, <2>a DEF CallSound
    <3>2. call[p].input \notin pool
      BY <1>1, <2>2, <2>4, <3>1 DEF ChainInv, HeardIsKnown, During
    <3>3. [env |-> call[p].input, ok |-> TRUE] \notin ledger
      BY <1>1, <2>2, <2>4, <3>1 DEF ChainInv, HeardIsKnown, During
    <3> QED
      BY <2>2, <3>2, <3>3
  <2>5. CASE call[p].pc = "poll"
    <3>1. call[p].xdr = call[p].input /\ [env |-> call[p].input, ok |-> FALSE] \in ledger
      BY <2>2, <2>5, <2>a DEF CallSound, During
    <3>2. call[p].input \in Envelopes /\ call[p].input.seq \in Nat /\ seq \in Nat
      BY <1>1, <2>a, SubmissionAssumption DEF CallRec, Envelopes, ChainInv, SubmissionTypeOK
    <3>3. call[p].input.seq <= seq
      BY <1>1, <3>1 DEF ChainInv, NetworkIsSound
    <3>4. call[p].input \notin pool
      BY <1>1, <3>2, <3>3 DEF ChainInv, NetworkIsSound
    <3>5. [env |-> call[p].input, ok |-> TRUE] \notin ledger
      BY <1>1, <3>1 DEF ChainInv, NetworkIsSound
    <3> QED
      BY <2>2, <3>4, <3>5
  <2>6. call[p].pc # "done"
    BY <2>a DEF CallSound
  <2> QED
    BY <2>3, <2>4, <2>5, <2>6, <2>a DEF CallRec, Before, During
<1> QED
  BY <1>1, ChainIsSound, PTL DEF Spec, RefusalIsTrue
=============================================================================
