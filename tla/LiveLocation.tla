---------------------------- MODULE LiveLocation ----------------------------
(***************************************************************************)
(* Where a driver is: sockets/location.service.ts for the fixes sent live, *)
(* sockets/sync.service.ts for those buffered while the driver was         *)
(* offline.  One driver on one delivery, several sockets.  Redis remembers *)
(* the fixes seen and the time of the last one, and may forget both; one   *)
(* action per awaited call.                                                *)
(***************************************************************************)
EXTENDS Naturals, Sequences, FiniteSets

CONSTANTS
    Updates,         \* driver_location_update events under way
    Syncs,           \* location_sync events under way
    Spots,           \* coordinates, rounded as generateDedupKey rounds them
    MaxAt,           \* bound on capture times; a fix captured at 0 is invalid
    BatchLimit,      \* BATCH_SIZE_LIMIT
    MaxFixes,        \* bound on the events of the two kinds
    MaxRedisFaults   \* bound on what Redis forgets or fails to do

ASSUME LocationAssumption == {MaxAt, BatchLimit, MaxFixes, MaxRedisFaults} \subseteq Nat

VARIABLES
    seen,         \* dedup keys in Redis
    lastUpdate,   \* location:last in Redis, 0 when there is none
    live,         \* LocationUpdate documents of live fixes, counted by fix
    offline,      \* fixes with a document of isOfflineSync
    heard,        \* broadcast to the delivery's room, in order
    update, sync,
    fixes,        \* events so far
    redisFaults,
    overlapped,   \* two live updates were past the dedup check at once
    onRecord          \* what the driver was told is on record

locationVars == <<seen, lastUpdate, live, offline, heard, update, sync, fixes, redisFaults, overlapped, onRecord>>

Fix == [at: 0..MaxAt, spot: Spots]

NoUpdate == [pc |-> "idle"]

Batches == UNION {[1..n -> Fix] : n \in BatchLimit..BatchLimit + 1}

LocationTypeOK ==
    /\ seen \subseteq Fix /\ lastUpdate \in 0..MaxAt
    /\ live \in [Fix -> Nat] /\ offline \subseteq Fix /\ heard \in Seq(Fix)
    /\ \A u \in Updates : update[u].pc \in {"idle", "dedup", "stale", "last", "persist", "broadcast"}
    /\ \A c \in Syncs : sync[c].pc \in {"idle", "find", "insert"}
    /\ fixes \in 0..MaxFixes /\ redisFaults \in 0..MaxRedisFaults
    /\ overlapped \in BOOLEAN /\ onRecord \subseteq 0..MaxAt

LocationInit ==
    /\ seen = {} /\ lastUpdate = 0
    /\ live = [f \in Fix |-> 0] /\ offline = {} /\ heard = <<>>
    /\ update = [u \in Updates |-> NoUpdate]
    /\ sync = [c \in Syncs |-> NoUpdate]
    /\ fixes = 0 /\ redisFaults = 0 /\ overlapped = FALSE /\ onRecord = {}

ValidatePayload(f) == f.at > 0
ValidatePoint(f) == f.at > 0

FixArrives == fixes < MaxFixes /\ fixes' = fixes + 1
RedisFault == redisFaults < MaxRedisFaults /\ redisFaults' = redisFaults + 1
UpdateGoes(u, pc) == update' = [update EXCEPT ![u].pc = pc]
UpdateEnds(u) == update' = [update EXCEPT ![u] = NoUpdate]

Redis == <<seen, lastUpdate>>
LocationDocs == <<live, offline>>

-----------------------------------------------------------------------------
(* processLiveUpdate *)

\* An invalid fix, and one too old or too far ahead, is refused and nothing changes.
ProcessLiveUpdate(u, f) ==
    /\ ValidatePayload(f)
    /\ update' = [update EXCEPT ![u] = [pc |-> "dedup", fix |-> f]]

\* The handler: one of the sockets of an authenticated driver sends a fix.
DriverLocationUpdate(u, f) ==
    /\ update[u] = NoUpdate /\ FixArrives
    /\ ProcessLiveUpdate(u, f)
    /\ UNCHANGED <<Redis, LocationDocs, heard, sync, redisFaults, overlapped, onRecord>>

\* Mutant: the key is set whether or not it is there.
SeenNever(f) == FALSE

\* SET NX: the answer and the change are one step.
Seen(f) == f \in seen

PastDedup(u) == update[u].pc \in {"stale", "last", "persist", "broadcast"}

\* When Redis fails, whether or not it set the key, the update is let through.
IsDuplicate(u) ==
    LET f == update[u].fix
    IN /\ update[u].pc = "dedup"
       /\ \/ Seen(f) /\ UpdateEnds(u) /\ UNCHANGED <<seen, redisFaults, overlapped>>
          \/ /\ \/ ~Seen(f) /\ seen' = seen \cup {f} /\ UNCHANGED redisFaults
                \/ RedisFault /\ seen' \in {seen, seen \cup {f}}
             /\ UpdateGoes(u, "stale")
             /\ overlapped' = (overlapped \/ \E v \in Updates \ {u} : PastDedup(v))
       /\ UNCHANGED <<lastUpdate, LocationDocs, heard, sync, fixes, onRecord>>

\* Strictly older: fixes of one time may differ in place.
Older(f) == f.at < lastUpdate

IsStaleUpdate(u) ==
    /\ update[u].pc = "stale"
    /\ \/ Older(update[u].fix) /\ UpdateEnds(u) /\ UNCHANGED redisFaults
       \/ ~Older(update[u].fix) /\ UpdateGoes(u, "last") /\ UNCHANGED redisFaults
       \/ RedisFault /\ UpdateGoes(u, "persist")
    /\ UNCHANGED <<Redis, LocationDocs, heard, sync, fixes, overlapped, onRecord>>

SetLastUpdate(u) ==
    /\ update[u].pc = "last"
    /\ \/ lastUpdate' = update[u].fix.at /\ UNCHANGED redisFaults
       \/ RedisFault /\ UNCHANGED lastUpdate
    /\ UpdateGoes(u, "persist")
    /\ UNCHANGED <<seen, LocationDocs, heard, sync, fixes, overlapped, onRecord>>

\* A failed insert is answered with an error: the fix stays in Redis as seen.
PersistFix(u) ==
    /\ update[u].pc = "persist"
    /\ \/ live' = [live EXCEPT ![update[u].fix] = @ + 1] /\ UpdateGoes(u, "broadcast")
       \/ UpdateEnds(u) /\ UNCHANGED live
    /\ UNCHANGED <<Redis, offline, heard, sync, fixes, redisFaults, overlapped, onRecord>>

BroadcastFix(u) ==
    /\ update[u].pc = "broadcast"
    /\ heard' = Append(heard, update[u].fix)
    /\ onRecord' = onRecord \cup {update[u].fix.at}
    /\ UpdateEnds(u)
    /\ UNCHANGED <<Redis, LocationDocs, sync, fixes, redisFaults, overlapped>>

\* A key of Redis runs out.
KeyExpires ==
    /\ RedisFault
    /\ \/ \E f \in seen : seen' = seen \ {f} /\ UNCHANGED lastUpdate
       \/ lastUpdate' = 0 /\ UNCHANGED seen
    /\ UNCHANGED <<LocationDocs, heard, update, sync, fixes, overlapped, onRecord>>

-----------------------------------------------------------------------------
(* processBatch *)

Stored == {f \in Fix : live[f] > 0} \cup offline
Times(S) == {f.at : f \in S}
SyncEnds(c) == sync' = [sync EXCEPT ![c] = NoUpdate]

\* What is over the limit is cut off without a word.  With no valid point nothing is looked up.
ProcessBatch(c, batch) ==
    LET valid == {i \in DOMAIN batch : i <= BatchLimit /\ ValidatePoint(batch[i])}
    IN sync' = [sync EXCEPT ![c] = IF valid = {} THEN NoUpdate
                                   ELSE [pc |-> "find", points |-> [i \in valid |-> batch[i]]]]

LocationSync(c, batch) ==
    /\ sync[c] = NoUpdate /\ FixArrives
    /\ ProcessBatch(c, batch)
    /\ UNCHANGED <<Redis, LocationDocs, heard, update, redisFaults, overlapped, onRecord>>

\* Of the points with one capture time only the first goes in, and none when the time is on
\* record already: they are answered as duplicates.  A failed lookup answers all with an error.
FindDuplicates(c) ==
    LET points == sync[c].points
        all == {points[i] : i \in DOMAIN points}
        old == Times(all) \cap Times(Stored)
        toInsert == {points[i] : i \in {n \in DOMAIN points :
                        points[n].at \notin old /\ \A m \in DOMAIN points : m < n => points[m].at # points[n].at}}
    IN /\ sync[c].pc = "find"
       /\ \/ /\ sync' = [sync EXCEPT ![c] = IF toInsert = {} THEN NoUpdate ELSE [pc |-> "insert", points |-> toInsert]]
             /\ onRecord' = onRecord \cup old
          \/ SyncEnds(c) /\ UNCHANGED onRecord
       /\ UNCHANGED <<Redis, LocationDocs, heard, update, fixes, redisFaults, overlapped>>

\* Mutant: what an insert that failed was about is answered as saved.
SavedAll(points, inserted) == Times(points)

\* All of them, or, when the call threw, none: some may still have been inserted.
Saved(points, inserted) == IF inserted = points THEN Times(points) ELSE {}

InsertPoints(c) ==
    /\ sync[c].pc = "insert"
    /\ \E inserted \in SUBSET sync[c].points :
         /\ offline' = offline \cup inserted
         /\ onRecord' = onRecord \cup Saved(sync[c].points, inserted)
    /\ SyncEnds(c)
    /\ UNCHANGED <<Redis, live, heard, update, fixes, redisFaults, overlapped>>

LocationStep ==
    \/ \E u \in Updates :
         \/ \E f \in Fix : DriverLocationUpdate(u, f)
         \/ IsDuplicate(u) \/ IsStaleUpdate(u) \/ SetLastUpdate(u) \/ PersistFix(u) \/ BroadcastFix(u)
    \/ \E c \in Syncs :
         \/ \E batch \in Batches : LocationSync(c, batch)
         \/ FindDuplicates(c) \/ InsertPoints(c)
    \/ KeyExpires

-----------------------------------------------------------------------------
(* Correctness *)

\* While Redis answers and remembers, a fix that two sockets send is stored and broadcast once;
\* and the room hears of a driver in the order of capture, as long as the updates do not overlap:
\* the last time is read and written in two steps.
HeardOnceInOrder ==
    redisFaults = 0 =>
        /\ \A f \in Fix : live[f] <= 1
        /\ \A i, j \in DOMAIN heard :
             i < j => heard[i] # heard[j] /\ (overlapped \/ heard[i].at <= heard[j].at)

\* A driver drops a buffered fix when told it is saved, a duplicate or broadcast: its time is on
\* record then, whichever of two batches and a live update stored it, and though one may fail.
\* (A repeat within one batch is left out: it is called a duplicate even when the first then fails.)
KeptIsStored == onRecord \subseteq Times(Stored)
=============================================================================
