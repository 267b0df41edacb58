SPECIFICATION FairSpec
CONSTANTS
    MaxMessages = 3
    MaxSockets = 2
    Nobody = Nobody
    MaxQueueSize = 2
    MaxRetries = 1
    MaxMissedPongs = 1
INVARIANTS NothingIsLost FlightIsWatched
PROPERTIES AckedIsNotResent GhostsAreEvicted
CHECK_DEADLOCK FALSE
