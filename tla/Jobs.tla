-------------------------------- MODULE Jobs --------------------------------
(***************************************************************************)
(* What the cron jobs of the server drive: the webhooks with their retry   *)
(* sweep, and the driver ratings.  They share no state, so a behaviour is  *)
(* about one of the two.                                                   *)
(***************************************************************************)
EXTENDS Webhooks, DriverRatings

VARIABLE cron

vars == <<cron, webhookVars, ratingVars>>

Init ==
    /\ cron \in {"webhooks", "ratings"}
    /\ WebhookInit /\ (cron # "webhooks" => scene = CHOOSE s \in Scenes : TRUE)
    /\ RatingInit

Webhook(A) == cron = "webhooks" /\ A /\ UNCHANGED <<cron, ratingVars>>

Rating(A) == cron = "ratings" /\ A /\ UNCHANGED <<cron, webhookVars>>

Next == Webhook(WebhookStep) \/ Rating(RatingStep)

\* The event loop drives what was begun to its end, batch timers fire, the cron jobs tick, time
\* passes.  Nobody has to dispatch anything.
Fairness ==
    /\ \A p \in Procs :
         /\ \A e \in Events : WF_vars(Webhook(On(p) /\ Dispatching(p, e)))
         /\ \A s \in Subs : WF_vars(Webhook(On(p) /\ FlushBatch(p, s)))
         /\ \A a \in Attempts : WF_vars(Webhook(On(p) /\ Sending(p, a)))
         /\ WF_vars(Webhook(On(p) /\ Sweep(p)))
    /\ \A a \in Attempts : WF_vars(Webhook(Ripen(a) /\ UNCHANGED scene))
    /\ WF_vars(Rating(RunDriverRatingSweep))
    /\ \A e \in Evaluators : WF_vars(Rating(EvaluatorStep(e)))

Spec == Init /\ [][Next]_vars /\ Fairness
=============================================================================
