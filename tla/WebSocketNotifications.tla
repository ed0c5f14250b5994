----------------------- MODULE WebSocketNotifications -----------------------
(***************************************************************************)
(* The notification log that control planes share to invalidate what their *)
(* connected phones show: services/websocket_notifications.py, the rows of *)
(* services/control_plane_instance.py it joins, and the pump and broadcast *)
(* of main.py.                                                             *)
(*                                                                         *)
(* Each instance walks the log with a checkpoint of its own.  A drain reads*)
(* its checkpoint and the rows after it in two queries, hands each row to  *)
(* the sockets and advances; the cleanup of another instance may come in   *)
(* anywhere, drop the checkpoint of an instance whose heartbeat is stale   *)
(* and delete what it had not read.  An instance that finds its checkpoint *)
(* gone starts again at the end of the log and tells every phone to        *)
(* refetch.                                                                *)
(***************************************************************************)
EXTENDS Naturals, FiniteSets

CONSTANTS
    Instances,  \* boots of control planes
    MaxId,      \* bound: notifications in one behaviour
    DrainLimit, \* "limit" of drain
    MaxFailures \* bound: drains that fail in one behaviour

ASSUME NotificationsAssumption ==
    /\ MaxId \in Nat
    /\ DrainLimit \in Nat \ {0}
    /\ MaxFailures \in Nat

Ids == 1..MaxId
NoCursor == MaxId + 1

VARIABLES
    life,    \* off, started (its row exists), on, closed, gone
    fresh,   \* rows with stopped_at IS NULL AND heartbeat_at > stale_before
    log,     \* ids in websocket_notifications
    top,     \* the last id given
    cursor,  \* last_notification_id of each instance, or NoCursor
    step,    \* where the drain of each instance is
    seen,    \* the checkpoint or high-water mark it read
    batch,   \* the rows it read and has not passed yet
    owed,    \* notifications its phones have not been told of in any way
    lost,    \* of these, those its drains will not come to any more
    failures \* drains that have failed

instances == <<life, fresh>>
table == <<log, top>>
drains == <<step, seen, batch>>
phones == <<owed, lost, failures>>
vars == <<instances, table, cursor, drains, phones>>

TypeOK ==
    /\ life \in [Instances -> {"off", "started", "on", "closed", "gone"}]
    /\ fresh \subseteq Instances
    /\ log \subseteq 1..top
    /\ top \in 0..MaxId
    /\ cursor \in [Instances -> (0..top) \cup {NoCursor}]
    /\ step \in [Instances -> {"idle", "rows", "hand", "advance", "insert", "invalidate"}]
    /\ seen \in [Instances -> 0..top]
    /\ batch \in [Instances -> SUBSET (1..top)]
    /\ owed \in [Instances -> SUBSET (1..top)]
    /\ lost \in [Instances -> SUBSET (1..top)]
    /\ failures \in 0..MaxFailures

Init ==
    /\ life = [i \in Instances |-> "off"]
    /\ fresh = {}
    /\ log = {}
    /\ top = 0
    /\ cursor = [i \in Instances |-> NoCursor]
    /\ step = [i \in Instances |-> "idle"]
    /\ seen = [i \in Instances |-> 0]
    /\ batch = [i \in Instances |-> {}]
    /\ owed = [i \in Instances |-> {}]
    /\ lost = [i \in Instances |-> {}]
    /\ failures = 0

-----------------------------------------------------------------------------
(* Helpers *)

\* the end of the log: MAX(id), or 0 when it is empty
HighWater(h) == h \in log \cup {0} /\ \A n \in log : n <= h

FirstOf(S, n) == {k \in S : Cardinality({m \in S : m < k}) < n}

After(c) == {n \in log : n > c}

\* what the drains of i still come to
Unread(i) == IF cursor[i] = NoCursor THEN {} ELSE After(cursor[i])

\* Mutant: the cleanup deletes what its own instance has read
UnreadByCleaner(i, cursors, n) == n > cursors[i]

\* minimum_live_checkpoint: some live instance has n ahead of it
UnreadByOne(i, cursors, n) == \E j \in {i} \cup fresh : n > cursors[j]

\* Mutant: a drain without a checkpoint has nothing to do
SkippedDrain(i) == "idle"

AfterReading(i) == IF cursor[i] = NoCursor THEN "insert" ELSE "rows"

DrainEnds(i) ==
    /\ step' = [step EXCEPT ![i] = "idle"]
    /\ seen' = [seen EXCEPT ![i] = 0]
    /\ batch' = [batch EXCEPT ![i] = {}]

-----------------------------------------------------------------------------
(* Instances *)

\* ControlPlaneInstanceService.start
Start(i) ==
    /\ life[i] = "off"
    /\ life' = [life EXCEPT ![i] = "started"]
    /\ fresh' = fresh \cup {i}
    /\ UNCHANGED <<table, cursor, drains, phones>>

\* initialize: the new instance starts at the end of the log
Initialize(i) ==
    /\ life[i] = "started"
    /\ life' = [life EXCEPT ![i] = "on"]
    /\ \E h \in 0..NoCursor : HighWater(h) /\ cursor' = [cursor EXCEPT ![i] = h]
    /\ UNCHANGED <<fresh, table, drains, phones>>

Heartbeat(i) ==
    /\ life[i] = "on"
    /\ i \notin fresh
    /\ fresh' = fresh \cup {i}
    /\ UNCHANGED <<life, table, cursor, drains, phones>>

\* time passes without a heartbeat: the instance is suspended or dead
HeartbeatAges(i) ==
    /\ i \in fresh
    /\ fresh' = fresh \ {i}
    /\ UNCHANGED <<life, table, cursor, drains, phones>>

\* close, after the drain that may be running has been left
Close(i) ==
    /\ life[i] = "on"
    /\ step[i] = "idle"
    /\ life' = [life EXCEPT ![i] = "closed"]
    /\ cursor' = [cursor EXCEPT ![i] = NoCursor]
    /\ owed' = [owed EXCEPT ![i] = {}]
    /\ lost' = [lost EXCEPT ![i] = {}]
    /\ UNCHANGED <<fresh, table, drains, failures>>

\* ControlPlaneInstanceService.stop
Stop(i) ==
    /\ life[i] = "closed"
    /\ life' = [life EXCEPT ![i] = "gone"]
    /\ fresh' = fresh \ {i}
    /\ UNCHANGED <<table, cursor, drains, phones>>

Crash(i) ==
    /\ life[i] \in {"started", "on"}
    /\ life' = [life EXCEPT ![i] = "gone"]
    /\ DrainEnds(i)
    /\ owed' = [owed EXCEPT ![i] = {}]
    /\ lost' = [lost EXCEPT ![i] = {}]
    /\ UNCHANGED <<fresh, table, cursor, failures>>

-----------------------------------------------------------------------------
(* The log *)

Publish ==
    /\ \E i \in Instances : life[i] = "on"
    /\ top < MaxId
    /\ top' = top + 1
    /\ log' = log \cup {top + 1}
    /\ owed' = [i \in Instances |->
          IF life[i] = "on" THEN owed[i] \cup {top + 1} ELSE owed[i]]
    /\ UNCHANGED <<instances, cursor, drains, lost, failures>>

\* cleanup: stale checkpoints go, then the rows every live instance has read
Cleanup(i) ==
    LET kept == [j \in Instances |-> IF j \in {i} \cup fresh THEN cursor[j] ELSE NoCursor]
        complete == kept[i] # NoCursor
                    /\ \A j \in fresh : kept[j] # NoCursor
    IN  /\ life[i] = "on"
        /\ step[i] = "idle"
        /\ cursor' = kept
        /\ log' = IF complete THEN {n \in log : UnreadByOne(i, kept, n)} ELSE log
        /\ UNCHANGED <<instances, top, drains, phones>>

-----------------------------------------------------------------------------
(* The drain *)

\* drain reads its checkpoint, or the end of the log when it has none
ReadCheckpoint(i) ==
    /\ life[i] = "on"
    /\ step[i] = "idle"
    /\ step' = [step EXCEPT ![i] = AfterReading(i)]
    /\ IF cursor[i] = NoCursor
       THEN \E h \in 0..NoCursor : HighWater(h) /\ seen' = [seen EXCEPT ![i] = h]
       ELSE seen' = [seen EXCEPT ![i] = cursor[i]]
    /\ UNCHANGED <<instances, table, cursor, batch, phones>>

ReadRows(i) ==
    LET next == FirstOf(After(seen[i]), DrainLimit)
    IN  /\ step[i] = "rows"
        /\ IF next = {}
           THEN DrainEnds(i)
           ELSE /\ batch' = [batch EXCEPT ![i] = next]
                /\ step' = [step EXCEPT ![i] = "hand"]
                /\ seen' = [seen EXCEPT ![i] = 0]
        /\ UNCHANGED <<instances, table, cursor, phones>>

First(i, n) == n \in batch[i] /\ \A m \in batch[i] : n <= m

\* the handler gives the first row to the sockets
Hand(i, n) ==
    /\ step[i] = "hand"
    /\ First(i, n)
    /\ owed' = [owed EXCEPT ![i] = @ \ {n}]
    /\ step' = [step EXCEPT ![i] = "advance"]
    /\ UNCHANGED <<instances, table, cursor, seen, batch, lost, failures>>

\* _advance_checkpoint, which raises when the checkpoint has been dropped
Advance(i, n) ==
    /\ step[i] = "advance"
    /\ First(i, n)
    /\ cursor' = [cursor EXCEPT ![i] = IF @ < n THEN n ELSE @]
    /\ IF cursor[i] < n /\ batch[i] # {n}
       THEN /\ batch' = [batch EXCEPT ![i] = @ \ {n}]
            /\ step' = [step EXCEPT ![i] = "hand"]
            /\ UNCHANGED seen
       ELSE DrainEnds(i)
    /\ UNCHANGED <<instances, table, phones>>

\* _recover_checkpoint commits the end of the log it read
InsertCheckpoint(i) ==
    /\ step[i] = "insert"
    /\ cursor' = [cursor EXCEPT ![i] = seen[i]]
    /\ step' = [step EXCEPT ![i] = "invalidate"]
    /\ UNCHANGED <<instances, table, seen, batch, phones>>

\* only then is sync.invalidated handed to every socket
Invalidate(i) ==
    /\ step[i] = "invalidate"
    /\ owed' = [owed EXCEPT ![i] = {}]
    /\ DrainEnds(i)
    /\ UNCHANGED <<instances, table, cursor, lost, failures>>

\* the handler or a query raises, or the request that drains is cancelled
DrainFails(i) ==
    /\ step[i] # "idle"
    /\ failures < MaxFailures
    /\ failures' = failures + 1
    /\ DrainEnds(i)
    /\ lost' = [lost EXCEPT ![i] =
          IF step[i] = "invalidate" THEN @ \cup (owed[i] \ Unread(i)) ELSE @]
    /\ UNCHANGED <<instances, table, cursor, owed>>

-----------------------------------------------------------------------------

DrainStep(i) ==
    \/ ReadCheckpoint(i)
    \/ ReadRows(i)
    \/ \E n \in Ids : Hand(i, n) \/ Advance(i, n)
    \/ InsertCheckpoint(i)
    \/ Invalidate(i)

LifeStep(i) ==
    \/ Start(i)
    \/ Initialize(i)
    \/ Heartbeat(i)
    \/ HeartbeatAges(i)
    \/ Close(i)
    \/ Stop(i)
    \/ Crash(i)

Next ==
    \/ \E i \in Instances : LifeStep(i) \/ DrainStep(i) \/ DrainFails(i) \/ Cleanup(i)
    \/ Publish

Spec == Init /\ [][Next]_vars

\* the pump drains periodically, and a drain goes on until it ends
Fairness == \A i \in Instances : WF_vars(DrainStep(i))

FairSpec == Spec /\ Fairness

-----------------------------------------------------------------------------
(* Properties *)

\* Whatever the cleanups of other instances delete, a running instance still
\* comes to every notification its phones have not been told of, or is about to
\* tell them to refetch everything; the only way out is an invalidation that
\* failed (cleanup, drain).
UnreadKept ==
    \A i \in Instances :
        life[i] = "on" /\ cursor[i] # NoCursor /\ step[i] # "invalidate" =>
            owed[i] \subseteq Unread(i) \cup lost[i]

\* Every notification reaches the phones of every instance that was running when
\* it was published, as itself or as an invalidation, also when a suspended
\* instance lost its checkpoint; again unless an invalidation failed.
EveryPhoneTold ==
    \A i \in Instances : \A n \in Ids :
        n \in owed[i] ~> n \notin owed[i] \/ n \in lost[i]

\* "The committed notification remains after this instance's checkpoint. The
\* local/background pump will retry it at least once." (broadcast in main.py)
FailedDrainRetried ==
    \A i \in Instances :
        life[i] = "on" /\ cursor[i] # NoCursor /\ step[i] = "idle" =>
            owed[i] \subseteq Unread(i)
=============================================================================
