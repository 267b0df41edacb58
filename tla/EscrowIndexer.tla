--------------------------- MODULE EscrowIndexer ---------------------------
(***************************************************************************)
(* services/escrowIndexerService.ts: the escrow_released and               *)
(* escrow_refunded events of the chain, settled by a conditional update.   *)
(* The delivery is not touched.                                            *)
(***************************************************************************)
EXTENDS Store

\* Mutant: refunded escrows are not in the set.
ChainReleasedOnly == {"released"}

\* indexer/types/escrowEvents.ts: unlike the model's set, without "resolved".
CHAIN_TERMINAL_STATUSES == {"released", "refunded"}

ChainFind(k) ==
    LET r == call[k].req
    IN /\ At(k, "chain", "start")
       /\ IF r.h \in HashesOf(escrow[r.c]) THEN Finish(k, "done") ELSE Goto(k, "write")
       /\ UNCHANGED <<delivery, escrow, event, audit, now, mon, faults>>

\* findOneAndUpdate({..., status: {$nin: TERMINAL}}): nothing matches, nothing changes.
ChainSettle(k) ==
    LET r == call[k].req
        e == escrow[r.c]
        matches == Exists(e) /\ e.status \notin CHAIN_TERMINAL_STATUSES
        tx == [hash |-> r.h, kind |-> IF r.to = "released" THEN "release" ELSE "refund"]
    IN /\ At(k, "chain", "write")
       /\ \/ /\ matches /\ HashTakenElsewhere(r.c, r.h)
             /\ Finish(k, "failed") /\ UNCHANGED escrow
          \/ /\ matches /\ ~HashTakenElsewhere(r.c, r.h)
             /\ escrow' = [escrow EXCEPT ![r.c].status = r.to, ![r.c].txs = Append(@, tx)]
             /\ Finish(k, "done")
          \/ ~matches /\ Finish(k, "done") /\ UNCHANGED escrow
       /\ UNCHANGED <<delivery, event, audit, now, mon, faults>>

HandleSettlementEvent(k) == ChainFind(k) \/ ChainSettle(k)
=============================================================================
