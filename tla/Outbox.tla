------------------------------- MODULE Outbox -------------------------------
(***************************************************************************)
(* The transactional outbox (services/outbox.py) and the board it          *)
(* publishes to (services/message_board.py).                               *)
(*                                                                         *)
(* A domain transaction inserts a row beside the state it is about; drains *)
(* claim rows in id order, publish them to the board and mark them.  The   *)
(* drains run concurrently: one per request that has just committed        *)
(* (AgentDispatcher._drain_outbox), one in the singleton maintenance loop, *)
(* and several of them share one publisher identity, so only the claim     *)
(* generation tells them apart.  Each database transaction of the code is  *)
(* one step.                                                               *)
(*                                                                         *)
(* Time is abstracted to the one thing the code asks of it: whether the    *)
(* lease of a claim is still in the future.                                *)
(***************************************************************************)
EXTENDS Naturals, FiniteSets

CONSTANTS
    LastEvent,      \* outbox ids are 1..LastEvent
    Drains,         \* concurrent executions of OutboxService.drain
    Publishers,     \* instance ids
    PublisherOf,    \* the instance id each drain runs under
    DrainLimit,     \* "limit" of claim_batch
    RecoveryBatch,  \* _RECOVERY_BATCH_SIZE
    Redis,          \* TRUE: Redis Streams, FALSE: the SQLite board
    MaxFaults,      \* bound: faults in one behaviour
    NoOwner

ASSUME OutboxAssumption ==
    /\ LastEvent \in Nat
    /\ PublisherOf \in [Drains -> Publishers]
    /\ DrainLimit \in Nat \ {0}
    /\ RecoveryBatch \in Nat \ {0}
    /\ Redis \in BOOLEAN
    /\ MaxFaults \in Nat
    /\ NoOwner \notin Publishers

Events == 1..LastEvent

VARIABLES
    row,         \* the outbox_events row of each event
    held,        \* held[d][e]: generation under which d still has e to publish, or 0
    step,        \* what each drain does next
    copies,      \* copies of each event the board has accepted
    remembered,  \* events whose dedupe key the board holds
    forgets,     \* times the board lost the dedupe key of each event
    wire,        \* publications the caller gave up on that may still arrive
    faults       \* faults so far

vars == <<row, held, step, copies, remembered, forgets, wire, faults>>

RowStates == {"absent", "pending", "published"}
Steps == {"idle", "publish", "mark", "fail", "unavailable", "release"}

Row == [status: RowStates, owner: Publishers \cup {NoOwner}, live: BOOLEAN, gen: Nat]

NoRow == [status |-> "absent", owner |-> NoOwner, live |-> FALSE, gen |-> 0]

TypeOK ==
    /\ row \in [Events -> Row]
    /\ held \in [Drains -> [Events -> Nat]]
    /\ step \in [Drains -> Steps]
    /\ copies \in [Events -> Nat]
    /\ remembered \subseteq Events
    /\ forgets \in [Events -> Nat]
    /\ wire \subseteq Events
    /\ faults \in 0..MaxFaults

Init ==
    /\ row = [e \in Events |-> NoRow]
    /\ held = [d \in Drains |-> [e \in Events |-> 0]]
    /\ step = [d \in Drains |-> "idle"]
    /\ copies = [e \in Events |-> 0]
    /\ remembered = {}
    /\ forgets = [e \in Events |-> 0]
    /\ wire = {}
    /\ faults = 0

-----------------------------------------------------------------------------
(* Helpers *)

Todo(d) == {e \in Events : held[d][e] # 0}

\* drain walks the rows it claimed in id order
Current(d, e) ==
    /\ e \in Todo(d)
    /\ \A f \in Todo(d) : e <= f

\* the fence of release_claim and release_or_fail
HoldsClaim(d, e) ==
    /\ held[d][e] # 0
    /\ row[e].status = "pending"
    /\ row[e].owner = PublisherOf[d]
    /\ row[e].gen = held[d][e]

\* Mutant: recovery takes every claimed row for an expired one
ClaimedByAnyone(e) == row[e].status = "pending" /\ row[e].owner # NoOwner

Expired(e) ==
    /\ row[e].status = "pending"
    /\ row[e].owner # NoOwner
    /\ ~row[e].live

\* Mutant: an expired claim is not taken over
ClaimableIfFree(e) == row[e].status = "pending" /\ row[e].owner = NoOwner

Claimable(e) ==
    /\ row[e].status = "pending"
    /\ row[e].owner = NoOwner \/ ~row[e].live

\* ORDER BY id ASC LIMIT n
FirstOf(S, n) == {e \in S : Cardinality({f \in S : f < e}) < n}

Freed(r) == [r EXCEPT !.owner = NoOwner, !.live = FALSE]

\* Mutant: taking over an expired claim keeps its generation
GenerationOfOwner(r) == IF r.owner = NoOwner THEN r.gen + 1 ELSE r.gen

NextGeneration(r) == r.gen + 1

\* Mutant: the board inserts without looking at the dedupe key
NeverKnown(e) == FALSE

KnownKey(e) == e \in remembered

\* the board's insert on a dedupe key, atomic in both boards
Accept(e) ==
    /\ copies' = [copies EXCEPT ![e] = IF KnownKey(e) THEN @ ELSE @ + 1]
    /\ remembered' = remembered \cup {e}
    /\ UNCHANGED forgets

Fault ==
    /\ faults < MaxFaults
    /\ faults' = faults + 1

\* d is done with e and goes on with the next row it claimed
Advance(d, e, next) ==
    /\ held' = [held EXCEPT ![d][e] = 0]
    /\ step' = [step EXCEPT ![d] = IF Todo(d) = {e} THEN "idle" ELSE next]

-----------------------------------------------------------------------------
(* The domain transaction and the drain *)

\* enqueue_locked inside the transaction of the job, task or capability
Enqueue(e) ==
    /\ row[e].status = "absent"
    /\ \A f \in Events : f < e => row[f].status # "absent"
    /\ row' = [row EXCEPT ![e].status = "pending"]
    /\ UNCHANGED <<held, step, copies, remembered, forgets, wire, faults>>

\* claim_batch: every free or expired row of the page, under a new generation
Claim(d) ==
    LET batch == FirstOf({e \in Events : Claimable(e)}, DrainLimit)
    IN  /\ step[d] = "idle"
        /\ batch # {}
        /\ row' = [e \in Events |->
                     IF e \in batch
                     THEN [row[e] EXCEPT !.owner = PublisherOf[d], !.live = TRUE,
                                         !.gen = NextGeneration(row[e])]
                     ELSE row[e]]
        /\ held' = [held EXCEPT ![d] =
                      [e \in Events |-> IF e \in batch THEN NextGeneration(row[e]) ELSE 0]]
        /\ step' = [step EXCEPT ![d] = "publish"]
        /\ UNCHANGED <<copies, remembered, forgets, wire, faults>>

\* publish_claimed: the board acknowledges the event, first copy or duplicate
Publish(d, e) ==
    /\ step[d] = "publish"
    /\ Current(d, e)
    /\ Accept(e)
    /\ step' = [step EXCEPT ![d] = "mark"]
    /\ UNCHANGED <<row, held, wire, faults>>

\* Mutant: a publication without an answer counts as acknowledged
MarkedAnyway == "mark"

AfterNoAnswer == "unavailable"

\* MessageBoardUnavailableError: the broker did not get the event, took it
\* and its answer was lost, or gets it after the caller's timeout
BoardUnavailable(d, e) ==
    /\ step[d] = "publish"
    /\ Current(d, e)
    /\ Redis
    /\ Fault
    /\ \/ Accept(e) /\ UNCHANGED wire
       \/ wire' = wire \cup {e} /\ UNCHANGED <<copies, remembered, forgets>>
       \/ UNCHANGED <<copies, remembered, forgets, wire>>
    /\ step' = [step EXCEPT ![d] = AfterNoAnswer]
    /\ UNCHANGED <<row, held>>

\* any other exception of publish_claimed, of its telemetry record (the event
\* is on the board then) or of mark_published
PublicationError(d, e) ==
    /\ step[d] \in {"publish", "mark"}
    /\ Current(d, e)
    /\ Fault
    /\ \/ step[d] = "publish" /\ Accept(e)
       \/ UNCHANGED <<copies, remembered, forgets>>
    /\ step' = [step EXCEPT ![d] = "fail"]
    /\ UNCHANGED <<row, held, wire>>

\* mark_published: owner, generation and a lease still in the future
MarkPublished(d, e) ==
    /\ step[d] = "mark"
    /\ Current(d, e)
    /\ row' = IF HoldsClaim(d, e) /\ row[e].live
              THEN [row EXCEPT ![e] = [Freed(@) EXCEPT !.status = "published"]]
              ELSE row
    /\ Advance(d, e, "publish")
    /\ UNCHANGED <<copies, remembered, forgets, wire, faults>>

\* release_or_fail and release_claim: owner and generation, expired or not.
\* An unavailable board ends the drain, which releases the rows it has not
\* tried; after any other error the drain goes on with the next row.
Release(d, e) ==
    /\ step[d] \in {"fail", "unavailable", "release"}
    /\ Current(d, e)
    /\ row' = IF HoldsClaim(d, e) THEN [row EXCEPT ![e] = Freed(@)] ELSE row
    /\ Advance(d, e, IF step[d] = "fail" THEN "publish" ELSE "release")
    /\ UNCHANGED <<copies, remembered, forgets, wire, faults>>

\* the process stops, the request is cancelled, the maintenance lease is lost
\* or the database refuses the release: the drain ends and leaves its claims
Abandon(d) ==
    /\ step[d] # "idle"
    /\ Fault
    /\ held' = [held EXCEPT ![d] = [e \in Events |-> 0]]
    /\ step' = [step EXCEPT ![d] = "idle"]
    /\ UNCHANGED <<row, copies, remembered, forgets, wire>>

\* one transaction of recover_expired_claims, cut short by its time budget
RecoverExpired ==
    \E n \in 1..RecoveryBatch :
    LET batch == FirstOf({e \in Events : Expired(e)}, n)
    IN  /\ batch # {}
        /\ row' = [e \in Events |-> IF e \in batch THEN Freed(row[e]) ELSE row[e]]
        /\ UNCHANGED <<held, step, copies, remembered, forgets, wire, faults>>

-----------------------------------------------------------------------------
(* Time and the board *)

Worked(e) == \E d \in Drains : HoldsClaim(d, e)

\* the lease of a claim ends: a fault when its drain is still at work on it
LeaseEnds(e) ==
    /\ row[e].live
    /\ IF Worked(e) THEN Fault ELSE UNCHANGED faults
    /\ row' = [row EXCEPT ![e].live = FALSE]
    /\ UNCHANGED <<held, step, copies, remembered, forgets, wire>>

\* the script of a publication that timed out runs on the broker after all
LateArrival(e) ==
    /\ e \in wire
    /\ wire' = wire \ {e}
    /\ Accept(e)
    /\ UNCHANGED <<row, held, step, faults>>

\* the TTL of the Redis dedupe key ends
Forget(e) ==
    /\ Redis
    /\ e \in remembered
    /\ Fault
    /\ remembered' = remembered \ {e}
    /\ forgets' = [forgets EXCEPT ![e] = @ + 1]
    /\ UNCHANGED <<row, held, step, copies, wire>>

-----------------------------------------------------------------------------

DrainStep(d) ==
    \/ Claim(d)
    \/ Abandon(d)
    \/ \E e \in Events :
          \/ Publish(d, e)
          \/ BoardUnavailable(d, e)
          \/ PublicationError(d, e)
          \/ MarkPublished(d, e)
          \/ Release(d, e)

EnvironmentStep(e) == Enqueue(e) \/ LeaseEnds(e) \/ LateArrival(e) \/ Forget(e)

Next ==
    \/ \E d \in Drains : DrainStep(d)
    \/ \E e \in Events : EnvironmentStep(e)
    \/ RecoverExpired

Spec == Init /\ [][Next]_vars

\* the maintenance loop drains periodically, a running drain goes on, and
\* time passes for a claim nobody works on any more
Fairness ==
    /\ \A d \in Drains : WF_vars(Claim(d))
    /\ \A d \in Drains : \A e \in Events :
          WF_vars(Publish(d, e) \/ MarkPublished(d, e) \/ Release(d, e))
    /\ \A e \in Events : WF_vars(~Worked(e) /\ LeaseEnds(e))

FairSpec == Spec /\ Fairness

-----------------------------------------------------------------------------
(* Properties *)

\* A live claim belongs to one drain: of the drains that still have a row to
\* publish, also those of one publisher, at most one can confirm it.  The
\* generation that claim_batch increments is what separates them.
OneConfirmer ==
    \A e \in Events : \A d1, d2 \in Drains :
        HoldsClaim(d1, e) /\ HoldsClaim(d2, e) => d1 = d2

\* A drain whose row is marked or claimed again by others after its lease
\* ended cannot take anything away: a live claim somebody works on is only
\* ever given up by that drain (mark_published, release_or_fail and
\* release_claim fence on owner and generation, recovery on the lease).
LiveClaimKept ==
    [][\A d \in Drains : \A e \in Events :
          HoldsClaim(d, e) /\ row[e].live =>
              \/ row'[e].owner = row[e].owner /\ row'[e].gen = row[e].gen
              \/ held'[d][e] = 0]_vars

\* The board holds a second copy of an event only when it had forgotten the
\* dedupe key: crashes, lost answers, late arrivals and concurrent drains
\* alone never duplicate it (Redis script and SQLite insert on dedupe_key).
DuplicateOnlyAfterForget ==
    \A e \in Events : copies[e] <= 1 + forgets[e]

\* Every committed event ends up published: no crash, outage, lost answer or
\* outlived lease strands a row.
EveryEventPublished ==
    \A e \in Events : row[e].status = "pending" ~> row[e].status = "published"

\* The outbox is an at-least-once channel: a row is never withdrawn and is
\* marked published only when the board has the event.
Channel == INSTANCE EventChannel
    WITH sent <- {e \in Events : row[e].status # "absent"},
         delivered <- copies,
         confirmed <- {e \in Events : row[e].status = "published"}

ChannelSpec == Channel!Spec
=============================================================================
