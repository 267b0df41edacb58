SPECIFICATION Spec
CONSTANTS
    p1 = p1  p2 = p2  s1 = s1  e1 = e1  e2 = e2
    Events = {e1, e2}
    Subs = {s1}
    Procs = {p1, p2}
    Scenes <- MCScenes
    MaxRetries = 3
    BatchSize = 2
    MaxFaults = 1
    RatedDrivers = {v1}
    RatingSweep = RatingSweep
    OnDemand = OnDemand
    NoRated = NoRated
    MinCompletedForPenalty = 2
    MaxHistory = 3
    MaxDay = 2
    MaxRatingFailures = 1
    MaxPoints = 2
INVARIANTS SendsAreBounded
PROPERTIES SettledIsNotRetried DispatchedIsSettled RatingsCatchUp
CHECK_DEADLOCK FALSE
