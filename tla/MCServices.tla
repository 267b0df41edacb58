----------------------------- MODULE MCServices -----------------------------
(***************************************************************************)
(* Small instances of the services.  Of the four milestone calls three are *)
(* about one delivery, with two attempts each: enough for a writer to lose *)
(* every attempt.                                                          *)
(***************************************************************************)
EXTENDS Services, TLC

CONSTANTS d1, d2, w1, w2, w3, w4

MCTarget == [w \in Writers |-> IF w = w4 THEN d2 ELSE d1]
=============================================================================
