----------------------------- MODULE Lifecycle -----------------------------
(***************************************************************************)
(* What a collection of documents with a `status` promises, and no more:   *)
(* every document starts somewhere and moves only along the edges of the   *)
(* status graph, one document or several at a time.                        *)
(***************************************************************************)
CONSTANTS Ids, Starts, Moves
VARIABLE st

Init == st \in Starts

\* Each document stays or follows one edge.
Next == \A i \in Ids : st'[i] = st[i] \/ st'[i] \in Moves[st[i]]

Spec == Init /\ [][Next]_st
=============================================================================
