--------------------------- MODULE AppendOnlyLog ---------------------------
(***************************************************************************)
(* What the DeliveryEvent log promises: per delivery a sequence to which   *)
(* entries are appended one by one, each entry once, and nothing else      *)
(* ever happens to it.                                                     *)
(***************************************************************************)
EXTENDS Naturals, Sequences

CONSTANTS Deliveries, Entries
VARIABLE log

Init == log = [d \in Deliveries |-> <<>>]

Next ==
    \E d \in Deliveries, e \in Entries :
        /\ \A i \in DOMAIN log[d] : log[d][i] # e
        /\ log' = [log EXCEPT ![d] = Append(@, e)]

Spec == Init /\ [][Next]_log
=============================================================================
