--------------------------- MODULE ConsumerLedger ---------------------------
(***************************************************************************)
(* The delivery ledger of one consumer group (services/message_consumer.py,*)
(* ConsumerCheckpointStore and MessageConsumer).                           *)
(*                                                                         *)
(* Consumers claim deliveries in batches, run the handler outside any      *)
(* transaction, and acknowledge or fail each delivery under the owner and  *)
(* generation of their claim while its lease lasts.  Several runs of       *)
(* process_once may share one consumer identity.  Each transaction is one  *)
(* step; a lease is a flag that time may lower.                            *)
(***************************************************************************)
EXTENDS Naturals, FiniteSets

CONSTANTS
    LastEvent,    \* deliveries in the order (created_at, event_id)
    Consumers,    \* concurrent executions of process_once
    Identities,   \* consumer ids
    IdentityOf,   \* the consumer id of each execution
    ClaimLimit,   \* "limit" of process_once
    MaxAttempts,  \* max_attempts of the group
    NoOwner

ASSUME LedgerAssumption ==
    /\ LastEvent \in Nat
    /\ IsFiniteSet(Consumers)
    /\ IdentityOf \in [Consumers -> Identities]
    /\ ClaimLimit \in Nat \ {0}
    /\ MaxAttempts \in Nat \ {0}
    /\ NoOwner \notin Identities

Events == 1..LastEvent

VARIABLES
    row,         \* message_consumer_deliveries
    held,        \* held[c][e]: generation under which c still has e to run, or 0
    step,        \* what each execution does next
    starts,      \* handler invocations per delivery
    handled,     \* deliveries whose handler has returned
    checkpoint   \* completed_count

vars == <<row, held, step, starts, handled, checkpoint>>

Statuses == {"absent", "pending", "processing", "completed", "dead_letter"}
Steps == {"idle", "start", "handler", "acknowledge", "fail"}

Delivery ==
    [status: Statuses, owner: Identities \cup {NoOwner}, live: BOOLEAN,
     attempts: 0..MaxAttempts, gen: Nat]

TypeOK ==
    /\ row \in [Events -> Delivery]
    /\ held \in [Consumers -> [Events -> Nat]]
    /\ step \in [Consumers -> Steps]
    /\ starts \in [Events -> Nat]
    /\ handled \subseteq Events
    /\ checkpoint \in Nat

Init ==
    /\ row = [e \in Events |->
                [status |-> "absent", owner |-> NoOwner, live |-> FALSE,
                 attempts |-> 0, gen |-> 0]]
    /\ held = [c \in Consumers |-> [e \in Events |-> 0]]
    /\ step = [c \in Consumers |-> "idle"]
    /\ starts = [e \in Events |-> 0]
    /\ handled = {}
    /\ checkpoint = 0

-----------------------------------------------------------------------------
(* Helpers *)

Todo(c) == {e \in Events : held[c][e] # 0}

Current(c, e) ==
    /\ e \in Todo(c)
    /\ \A f \in Todo(c) : e <= f

\* Mutant: the acknowledgement fences on the owner alone
OwnerMatches(c, e) ==
    /\ row[e].status = "processing"
    /\ row[e].owner = IdentityOf[c]

\* the fence of acknowledge and fail
ClaimCurrent(c, e) ==
    /\ row[e].status = "processing"
    /\ row[e].owner = IdentityOf[c]
    /\ row[e].gen = held[c][e]
    /\ row[e].live

ExpiredClaim(e) == row[e].status = "processing" /\ ~row[e].live

\* Mutant: an exhausted delivery is left to its last consumer
NeverExhausted(e) == FALSE

\* _dead_letter_exhausted_locked
Exhausted(e) == ExpiredClaim(e) /\ row[e].attempts >= MaxAttempts

Claimable(e) ==
    /\ row[e].attempts < MaxAttempts
    /\ row[e].status = "pending" \/ ExpiredClaim(e)

FirstOf(S, n) == {e \in S : Cardinality({f \in S : f < e}) < n}

Ended(r, status) == [r EXCEPT !.status = status, !.owner = NoOwner, !.live = FALSE]

AfterFailure(r) == IF r.attempts >= MaxAttempts THEN "dead_letter" ELSE "pending"

\* Mutant: a claim taken from an expired one does not count as an attempt
AttemptOfFreeRow(r) == IF r.status = "pending" THEN r.attempts + 1 ELSE r.attempts

NextAttempt(r) == r.attempts + 1

Claimed(r, c) ==
    [r EXCEPT !.status = "processing", !.owner = IdentityOf[c], !.live = TRUE,
              !.attempts = NextAttempt(r), !.gen = @ + 1]

\* Mutant: the checkpoint is not fenced like the acknowledgement
AlwaysCounted(c, e) == checkpoint + 1

CheckpointAfter(c, e) == IF ClaimCurrent(c, e) THEN checkpoint + 1 ELSE checkpoint

\* c is done with e and goes on with the next delivery of its batch
Advance(c, e) ==
    /\ held' = [held EXCEPT ![c][e] = 0]
    /\ step' = [step EXCEPT ![c] = IF Todo(c) = {e} THEN "idle" ELSE "start"]

-----------------------------------------------------------------------------
(* The ledger *)

\* enqueue: a second submission of the same delivery inserts nothing
Submit(e) ==
    /\ row[e].status = "absent"
    /\ \A f \in Events : f < e => row[f].status # "absent"
    /\ row' = [row EXCEPT ![e].status = "pending"]
    /\ UNCHANGED <<held, step, starts, handled, checkpoint>>

\* claim_batch: exhausted expired claims become dead letters first
Claim(c) ==
    LET dead  == {e \in Events : Exhausted(e)}
        batch == FirstOf({e \in Events : Claimable(e)}, ClaimLimit)
    IN  /\ step[c] = "idle"
        /\ dead \cup batch # {}
        /\ row' = [e \in Events |->
                     IF e \in dead THEN Ended(row[e], "dead_letter")
                     ELSE IF e \in batch THEN Claimed(row[e], c) ELSE row[e]]
        /\ held' = [held EXCEPT ![c] =
                      [e \in Events |-> IF e \in batch THEN row[e].gen + 1 ELSE 0]]
        /\ step' = [step EXCEPT ![c] = IF batch = {} THEN "idle" ELSE "start"]
        /\ UNCHANGED <<starts, handled, checkpoint>>

\* process_once calls the handler without looking at the lease again
StartHandler(c, e) ==
    /\ step[c] = "start"
    /\ Current(c, e)
    /\ starts' = [starts EXCEPT ![e] = @ + 1]
    /\ step' = [step EXCEPT ![c] = "handler"]
    /\ UNCHANGED <<row, held, handled, checkpoint>>

HandlerReturns(c, e) ==
    /\ step[c] = "handler"
    /\ Current(c, e)
    /\ handled' = handled \cup {e}
    /\ step' = [step EXCEPT ![c] = "acknowledge"]
    /\ UNCHANGED <<row, held, starts, checkpoint>>

HandlerRaises(c, e) ==
    /\ step[c] = "handler"
    /\ Current(c, e)
    /\ step' = [step EXCEPT ![c] = "fail"]
    /\ UNCHANGED <<row, held, starts, handled, checkpoint>>

\* acknowledge: completion and checkpoint in one transaction
Acknowledge(c, e) ==
    /\ step[c] = "acknowledge"
    /\ Current(c, e)
    /\ row' = IF ClaimCurrent(c, e)
              THEN [row EXCEPT ![e] = Ended(@, "completed")]
              ELSE row
    /\ checkpoint' = CheckpointAfter(c, e)
    /\ Advance(c, e)
    /\ UNCHANGED <<starts, handled>>

\* fail: retry, or dead letter after the last attempt
Fail(c, e) ==
    /\ step[c] = "fail"
    /\ Current(c, e)
    /\ row' = IF ClaimCurrent(c, e)
              THEN [row EXCEPT ![e] = Ended(@, AfterFailure(@))]
              ELSE row
    /\ Advance(c, e)
    /\ UNCHANGED <<starts, handled, checkpoint>>

\* a crash, a cancellation or a database error ends process_once anywhere
Abandon(c) ==
    /\ step[c] # "idle"
    /\ held' = [held EXCEPT ![c] = [e \in Events |-> 0]]
    /\ step' = [step EXCEPT ![c] = "idle"]
    /\ UNCHANGED <<row, starts, handled, checkpoint>>

\* recover_expired_claims
RecoverExpired ==
    /\ \E e \in Events : ExpiredClaim(e)
    /\ row' = [e \in Events |->
                 IF Exhausted(e) THEN Ended(row[e], "dead_letter")
                 ELSE IF ExpiredClaim(e) THEN Ended(row[e], "pending") ELSE row[e]]
    /\ UNCHANGED <<held, step, starts, handled, checkpoint>>

LeaseEnds(e) ==
    /\ row[e].live
    /\ row' = [row EXCEPT ![e].live = FALSE]
    /\ UNCHANGED <<held, step, starts, handled, checkpoint>>

-----------------------------------------------------------------------------

DeliveryStep(c, e) ==
    \/ StartHandler(c, e)
    \/ HandlerReturns(c, e)
    \/ HandlerRaises(c, e)
    \/ Acknowledge(c, e)
    \/ Fail(c, e)

Next ==
    \/ \E c \in Consumers :
          \/ Claim(c)
          \/ Abandon(c)
          \/ \E e \in Events : DeliveryStep(c, e)
    \/ \E e \in Events : Submit(e) \/ LeaseEnds(e)
    \/ RecoverExpired

Spec == Init /\ [][Next]_vars

\* the service calls process_once again and again, handlers end, time passes
Fairness ==
    /\ \A c \in Consumers : WF_vars(Claim(c))
    /\ \A c \in Consumers : WF_vars(\E e \in Events : DeliveryStep(c, e))
    /\ \A e \in Events : WF_vars(LeaseEnds(e))

FairSpec == Spec /\ Fairness

-----------------------------------------------------------------------------
(* Properties *)

Completed == {e \in Events : row[e].status = "completed"}

\* The checkpoint counts every completed delivery once, and a delivery is
\* completed only after its handler returned: no stale acknowledgement, late
\* failure, crash or recovery moves one without the other.
CheckpointCountsHandled ==
    /\ checkpoint = Cardinality(Completed)
    /\ Completed \subseteq handled

\* executions of process_once that have claimed e and not started its handler
Waiting(e) == {c \in Consumers : held[c][e] # 0 /\ ~(Current(c, e) /\ step[c] # "start")}

\* The handler of a delivery is never started more often than max_attempts,
\* whatever crashes and outlived leases happen: every start, also the one of
\* a consumer whose claim has long been taken over, has been paid for by an
\* attempt counted at claim time.
StartsPaidByAttempts ==
    \A e \in Events :
        /\ starts[e] + Cardinality(Waiting(e)) <= row[e].attempts
        /\ row[e].attempts <= MaxAttempts

\* A consumer that comes back with an old claim, of another identity or of its
\* own, changes nothing: whoever ends its work on a delivery changes the row
\* only under the generation it claimed, and a completed or dead-lettered
\* delivery never changes again.
StaleClaimHarmless ==
    [][\A e \in Events :
          row'[e] # row[e] =>
              /\ row[e].status \notin {"completed", "dead_letter"}
              /\ \A c \in Consumers :
                    held[c][e] # 0 /\ held'[c][e] = 0 => held[c][e] = row[e].gen]_vars

\* Every submitted delivery is completed or dead-lettered, even when its
\* consumers crash or raise every time.
EveryDeliveryEnds ==
    \A e \in Events :
        row[e].status # "absent" ~> row[e].status \in {"completed", "dead_letter"}

\* what the ledger says of a delivery: claims and their leases are invisible
Outcome(e) ==
    CASE row[e].status = "absent" -> "absent"
      [] row[e].status = "completed" -> "done"
      [] row[e].status = "dead_letter" -> "dead"
      [] OTHER -> "open"

Delivered == INSTANCE BoundedDelivery
    WITH state   <- [e \in Events |-> Outcome(e)],
         tries   <- [e \in Events |-> row[e].attempts],
         runs    <- starts,
         counted <- checkpoint

\* The ledger as its documentation describes it, without consumers, claims,
\* generations and leases: retries are bounded, each run of a handler uses up
\* one of the counted tries (a consumer whose claim was taken over included),
\* completion needs a handler that returned and moves the checkpoint by one,
\* a delivery is given up only after its last try, and both ends are final.
ImplementsBoundedDelivery == Delivered!Spec

\* A delivery that waits for a consumer has a try left: the claim of the next
\* consumer takes it up, so nothing strands between pending and dead_letter.
NoStrandedDelivery ==
    \A e \in Events : row[e].status = "pending" => row[e].attempts < MaxAttempts
=============================================================================
