--------------------------- MODULE DriverRatings ----------------------------
(***************************************************************************)
(* Driver profiles: the rating computed from the delivery history by the   *)
(* sweep and on demand, the suspension a low rating brings, and the        *)
(* reputation the chain's events add and slash.  Ratings are in hundredths.*)
(***************************************************************************)
EXTENDS Integers, FiniteSets

CONSTANTS
    RatedDrivers,
    RatingSweep, OnDemand,    \* the cron job, and a request for one driver
    NoRated,
    MinCompletedForPenalty,   \* MIN_COMPLETED_FOR_PENALTY
    MaxHistory,               \* bound on a driver's deliveries
    MaxDay,                   \* bound on the days
    MaxRatingFailures,        \* bound on failed evaluations
    MaxPoints                 \* bound on reputation; the tiers begin at 1, 2 and 3 points

ASSUME RatingAssumption ==
    /\ {MinCompletedForPenalty, MaxHistory, MaxDay, MaxRatingFailures, MaxPoints} \subseteq Nat
    /\ RatingSweep # OnDemand /\ NoRated \notin RatedDrivers

VARIABLES
    history,   \* completed, late among them, and cancelled deliveries
    profile,   \* DriverProfile documents
    evaluation,\* the evaluators
    day, failures

ratingVars == <<history, profile, evaluation, day, failures>>

Evaluators == {RatingSweep, OnDemand}

Metrics == [completed: 0..MaxHistory, delayed: 0..MaxHistory, cancelled: 0..MaxHistory]

NoMetrics == [completed |-> 0, delayed |-> 0, cancelled |-> 0]

ProfileDoc == [rating: 0..500, completed: 0..MaxHistory, suspendedUntil: 0..(MaxDay + 2),
               points: 0..MaxPoints, tier: {"bronze", "silver", "gold", "platinum"}]

IdleEvaluation == [pc |-> "idle", todo |-> {}, driver |-> NoRated, metrics |-> NoMetrics]

RatingTypeOK ==
    /\ history \in [RatedDrivers -> Metrics]
    /\ profile \in [RatedDrivers -> ProfileDoc]
    /\ evaluation \in [Evaluators -> [pc: {"idle", "collect", "write"}, todo: SUBSET RatedDrivers,
                                      driver: RatedDrivers \cup {NoRated}, metrics: Metrics]]
    /\ day \in 0..MaxDay /\ failures \in 0..MaxRatingFailures

\* A profile that does not exist yet reads as its defaults.
RatingInit ==
    /\ history = [d \in RatedDrivers |-> NoMetrics]
    /\ profile = [d \in RatedDrivers |-> [rating |-> 500, completed |-> 0, suspendedUntil |-> 0, points |-> 0, tier |-> "bronze"]]
    /\ evaluation = [e \in Evaluators |-> IdleEvaluation]
    /\ day = 0 /\ failures = 0

-----------------------------------------------------------------------------
(* DRIVER_RATING_RULES *)

\* 5 - 2 * late rate - 3 * cancellation rate, rounded half up.  It is never below 0.
ComputeDriverRating(m) ==
    LET done == IF m.completed = 0 THEN 1 ELSE m.completed
        all == IF m.completed + m.cancelled = 0 THEN 1 ELSE m.completed + m.cancelled
        scaled == 500 * done * all - 200 * m.delayed * all - 300 * m.cancelled * done
    IN (2 * scaled + done * all) \div (2 * done * all)

\* resolveSuspension: the day a suspension ends, 0 for none; 7 and 30 days are 1 and 2 here.
ResolveSuspension(rating, completed) ==
    IF completed < MinCompletedForPenalty \/ rating >= 200 THEN 0
    ELSE IF rating <= 100 THEN day + 2 ELSE day + 1

ComputeTier(points) ==
    CASE points = 0 -> "bronze" [] points = 1 -> "silver" [] points = 2 -> "gold" [] OTHER -> "platinum"

-----------------------------------------------------------------------------
(* The world *)

DeliveryRecorded(d) ==
    /\ history[d].completed + history[d].cancelled < MaxHistory
    /\ \/ history' = [history EXCEPT ![d].completed = @ + 1]
       \/ history' = [history EXCEPT ![d].completed = @ + 1, ![d].delayed = @ + 1]
       \/ history' = [history EXCEPT ![d].cancelled = @ + 1]
    /\ UNCHANGED <<profile, evaluation, day, failures>>

DayPasses ==
    /\ day < MaxDay
    /\ day' = day + 1
    /\ UNCHANGED <<history, profile, evaluation, failures>>

-----------------------------------------------------------------------------
(* driverRatingService *)

SuspensionLifted(d) ==
    IF profile[d].suspendedUntil \in 1..day THEN [profile[d] EXCEPT !.suspendedUntil = 0] ELSE profile[d]

\* Mutant: only drivers who completed something are found.
HasHistoryCompleted(d) == history[d].completed > 0

HasHistory(d) == history[d] # NoMetrics

ContinueRating(todo) == IF todo = {} THEN IdleEvaluation ELSE [IdleEvaluation EXCEPT !.pc = "collect", !.todo = todo]

\* Suspensions that are over are lifted, then every driver with a history is evaluated.
RecalculateAllDriverRatings ==
    /\ profile' = [d \in RatedDrivers |-> SuspensionLifted(d)]
    /\ evaluation' = [evaluation EXCEPT ![RatingSweep] = ContinueRating({d \in RatedDrivers : HasHistory(d)})]

\* A tick during a sweep is skipped.
RunDriverRatingSweep ==
    /\ evaluation[RatingSweep].pc = "idle"
    /\ RecalculateAllDriverRatings
    /\ UNCHANGED <<history, day, failures>>

\* The request for one driver.
RequestEvaluation ==
    /\ evaluation[OnDemand].pc = "idle"
    /\ \E d \in RatedDrivers :
        evaluation' = [evaluation EXCEPT ![OnDemand] = [IdleEvaluation EXCEPT !.pc = "collect", !.todo = {d}]]
    /\ UNCHANGED <<history, profile, day, failures>>

CollectDriverMetrics(e) ==
    /\ evaluation[e].pc = "collect"
    /\ \E d \in evaluation[e].todo :
        evaluation' = [evaluation EXCEPT ![e] = [pc |-> "write", todo |-> @.todo \ {d}, driver |-> d, metrics |-> history[d]]]
    /\ UNCHANGED <<history, profile, day, failures>>

\* The write, from the counters read before; a suspension is set, never cleared.
EvaluateDriverRating(e) ==
    /\ evaluation[e].pc = "write"
    /\ LET m == evaluation[e].metrics
           rating == ComputeDriverRating(m)
           until == ResolveSuspension(rating, m.completed)
       IN profile' = [profile EXCEPT ![evaluation[e].driver] =
                        [@ EXCEPT !.rating = rating, !.completed = m.completed,
                                  !.suspendedUntil = IF until = 0 THEN @ ELSE until]]
    /\ evaluation' = [evaluation EXCEPT ![e] = ContinueRating(@.todo)]
    /\ UNCHANGED <<history, day, failures>>

EvaluationFails(e) ==
    /\ evaluation[e].pc = "write" /\ failures < MaxRatingFailures
    /\ failures' = failures + 1
    /\ evaluation' = [evaluation EXCEPT ![e] = ContinueRating(@.todo)]
    /\ UNCHANGED <<history, profile, day>>

-----------------------------------------------------------------------------
(* reputationHandlers, each a transaction *)

HandleReputationIncreased(d) ==
    /\ profile[d].points < MaxPoints
    /\ profile' = [profile EXCEPT ![d].points = @ + 1, ![d].tier = ComputeTier(profile[d].points + 1)]
    /\ UNCHANGED <<history, evaluation, day, failures>>

\* Never below zero.
HandleReputationSlashed(d) ==
    /\ \E loss \in 1..2 :
        LET points == IF profile[d].points > loss THEN profile[d].points - loss ELSE 0
        IN profile' = [profile EXCEPT ![d].points = points, ![d].tier = ComputeTier(points)]
    /\ UNCHANGED <<history, evaluation, day, failures>>

DispatchReputationEvent(d) == HandleReputationIncreased(d) \/ HandleReputationSlashed(d)

EvaluatorStep(e) == CollectDriverMetrics(e) \/ EvaluateDriverRating(e) \/ EvaluationFails(e)

RatingStep ==
    \/ DayPasses \/ RunDriverRatingSweep \/ RequestEvaluation
    \/ \E e \in Evaluators : EvaluatorStep(e)
    \/ \E d \in RatedDrivers : DeliveryRecorded(d) \/ DispatchReputationEvent(d)

-----------------------------------------------------------------------------
(* Correctness *)

RatingIsCurrent(d) == profile[d].rating = ComputeDriverRating(history[d]) /\ profile[d].completed = history[d].completed

\* However evaluations overlap, overwrite one another with older counts or fail, in the end every
\* stored rating is that of the driver's whole history.
RatingsCatchUp == <>[](\A d \in RatedDrivers : RatingIsCurrent(d))
=============================================================================
