-------------------------- MODULE IPhoneCapabilities --------------------------
(***************************************************************************)
(* IPhoneCapabilityService: a leased worker asks the phone for a native    *)
(* effect, the user approves it, the phone consumes a one-time grant,      *)
(* performs the effect and delivers a result.                              *)
(*                                                                         *)
(* Every operation is one transaction that reads the job row, so this      *)
(* module composes with AgentJobs: the job steps are those of J, the       *)
(* requests J only knows as open or closed are detailed here, and the      *)
(* service is shown to do to the jobs nothing but what J allows it.        *)
(*                                                                         *)
(* The phone may present any grant it was ever issued, at any time, which  *)
(* covers lost answers, repeated calls and a rotation it missed.  Grants   *)
(* of one request are numbered in the order they are issued; the table     *)
(* keeps the last one only.  Time is kept as what remains, as in AgentJobs.*)
(***************************************************************************)
EXTENDS Integers, FiniteSets, Sequences

CONSTANTS
    Tasks, Workers, Skills, SkillOf, CanRun, RetrySafe, OptionalSkills,
    SingleAttempt, NativeTasks, Requests, DefaultAttempts, LeaseTTL,
    MaxConcurrency, ClaimQuarantineBatch, QuarantineBatchSize,
    NoWorker, NoTask,
    Asks,           \* a capability with canonical arguments: what is fingerprinted
    NoAsk,
    PhoneOutcomes,  \* result statuses the phone reports
    ApprovalTTL,    \* rule.approval_ttl_seconds, in clock units
    GrantTTL,       \* grant_ttl_seconds
    MaxGrants       \* bound of the model: grants issued for one request

ASSUME CapabilitiesAssumption ==
    /\ NoAsk \notin Asks
    /\ PhoneOutcomes \subseteq {"completed", "cancelled", "denied", "failed"}
    /\ ApprovalTTL \in Nat \ {0}
    /\ GrantTTL \in Nat \ {0}
    /\ MaxGrants \in Nat \ {0}

VARIABLES
    task, job, proofs, online, policy, stale, events,   \* of AgentJobs
    creq,     \* iphone_capability_requests
    grant,    \* iphone_capability_grants: the current token of each request
    result,   \* iphone_capability_results
    effects,  \* the grants of each request whose consumption was confirmed, in order
    outcomes  \* outbox events that tell the worker how a request ended

jobVars == <<task, job, proofs, online, policy, stale, events>>
vars == <<task, job, proofs, online, policy, stale, events,
          creq, grant, result, effects, outcomes>>

---------------------------------------------------------------------------
(* Rows *)

OpenStatus == {"waiting_approval", "approved", "consumed"}
TerminalStatus == {"completed", "denied", "failed", "cancelled", "expired"}

CapabilityRequest ==
    [status : {"none"} \cup OpenStatus \cup TerminalStatus,
     task : Tasks \cup {NoTask}, gen : Nat, agent : Workers \cup {NoWorker},
     ask : Asks \cup {NoAsk}, left : 0..ApprovalTTL]

Grant == [token : 0..MaxGrants, left : 0..GrantTTL, consumed : BOOLEAN]

OutcomeKind == {"result", "denied", "expired", "cancelled",
                "lease-cancelled", "task-cancelled"}

Unasked == [status |-> "none", task |-> NoTask, gen |-> 0, agent |-> NoWorker,
            ask |-> NoAsk, left |-> 0]
NoGrant == [token |-> 0, left |-> 0, consumed |-> FALSE]

IsOpen(r) == creq[r].status \in OpenStatus

\* What AgentJobs knows of the requests
AbstractRequests ==
    [r \in Requests |->
        [state |-> IF creq[r].status = "none" THEN "none"
                   ELSE IF IsOpen(r) THEN "open" ELSE "closed",
         task |-> creq[r].task, gen |-> creq[r].gen]]

\* The jobs, with what is proved of them
J == INSTANCE AgentJobs_proofs WITH req <- AbstractRequests

ASSUME SharedAssumption == J!JobsAssumption

---------------------------------------------------------------------------
(* What the handlers look up and the ways a request ends *)

\* _request_job_is_active_locked: the lease that asked is still the live one.
LeaseActive(r) ==
    LET t == creq[r].task IN
    /\ J!Leased(t)
    /\ job[t].holder = creq[r].agent
    /\ job[t].gen = creq[r].gen
    /\ job[t].lease > 0
    /\ task[t] = "running"

\* Mutant: a consumed request is forgotten when its lease ends
WithdrawnUnlessConsumed(T) ==
    {r \in Requests : /\ creq[r].status \in {"waiting_approval", "approved"}
                      /\ creq[r].task \in T
                      /\ creq[r].gen = job[creq[r].task].gen}

\* Mutant: the requests of a lease are withdrawn whatever their status
WithdrawnAnyStatus(T) ==
    {r \in Requests : /\ creq[r].task \in T
                      /\ creq[r].gen = job[creq[r].task].gen}

\* Requests of the current lease of the tasks in T that are not terminal
Withdrawn(T) ==
    {r \in Requests : /\ IsOpen(r)
                      /\ creq[r].task \in T
                      /\ creq[r].gen = job[creq[r].task].gen}

\* _expire_locked, _cancel_locked and their copies in the reaper and cancel_task:
\* the request ends, its grant expires at once, the worker is told.
Close(R, status, kind) ==
    /\ creq' = [r \in Requests |-> IF r \in R THEN [creq[r] EXCEPT !.status = status]
                                             ELSE creq[r]]
    /\ grant' = [r \in Requests |-> IF r \in R THEN [grant[r] EXCEPT !.left = 0]
                                              ELSE grant[r]]
    /\ outcomes' = outcomes \cup {[req |-> r, kind |-> kind] : r \in R}
    /\ UNCHANGED <<result, effects>>

---------------------------------------------------------------------------
(* The worker asks *)

\* Mutant: only an undecided request answers a repeated question
WaitingFor(t, gen, a) ==
    {r \in Requests : /\ creq[r].status = "waiting_approval"
                      /\ creq[r].task = t /\ creq[r].gen = gen /\ creq[r].ask = a}

\* The request a repeated question is answered with
Asked(t, gen, a) ==
    {r \in Requests : /\ IsOpen(r)
                      /\ creq[r].task = t /\ creq[r].gen = gen /\ creq[r].ask = a}

\* Ids are drawn at random and nothing depends on which: the next unused one
FreshId == CHOOSE r \in Requests : creq[r].status = "none"

CreateRequest(r, w, p, a) ==
    /\ creq[r].status = "none"
    /\ r = FreshId
    /\ J!HoldsActiveLease(w, p)
    /\ Asked(p.task, p.gen, a) = {}
    /\ creq' = [creq EXCEPT ![r] =
                  [status |-> "waiting_approval", task |-> p.task, gen |-> p.gen,
                   agent |-> w, ask |-> a, left |-> ApprovalTTL]]
    /\ UNCHANGED <<jobVars, grant, result, effects, outcomes>>

---------------------------------------------------------------------------
(* The user decides, the phone acts *)

SmallerOf(m, n) == IF m <= n THEN m ELSE n

GrantLife(r) == SmallerOf(creq[r].left, GrantTTL)

\* A first grant, or the rotation of one whose delivery was lost
IssueGrant(r) ==
    /\ ~ grant[r].consumed
    /\ grant[r].token < MaxGrants
    /\ creq' = [creq EXCEPT ![r].status = "approved"]
    /\ grant' = [grant EXCEPT ![r] = [token |-> @.token + 1, left |-> GrantLife(r),
                                      consumed |-> FALSE]]
    /\ UNCHANGED <<result, effects, outcomes>>

Deny(r) ==
    /\ creq' = [creq EXCEPT ![r].status = "denied"]
    /\ outcomes' = outcomes \cup {[req |-> r, kind |-> "denied"]}
    /\ UNCHANGED <<grant, result, effects>>

\* A decision taken too late ends the request instead.
Authorize(r, decision) ==
    /\ \/ creq[r].status = "waiting_approval"
       \/ creq[r].status = "approved" /\ decision = "approve"
    /\ \/ creq[r].left = 0 /\ Close({r}, "expired", "expired")
       \/ creq[r].left > 0 /\ ~LeaseActive(r) /\ Close({r}, "cancelled", "cancelled")
       \/ /\ creq[r].left > 0 /\ LeaseActive(r)
          /\ \/ decision = "approve" /\ IssueGrant(r)
             \/ decision = "deny" /\ Deny(r)
    /\ UNCHANGED jobVars

\* Mutant: a grant stays good until a result is stored
ConsumableAgain(r, n) == n = grant[r].token /\ creq[r].status \in {"approved", "consumed"}

Consumable(r, n) ==
    n = grant[r].token /\ ~ grant[r].consumed /\ creq[r].status = "approved"

\* The phone exchanges the grant for the right to perform the effect, once.
\* The request's own expiry is not tested again.
Consume(r, n) ==
    /\ Consumable(r, n)
    /\ \/ grant[r].left = 0 /\ Close({r}, "expired", "expired")
       \/ grant[r].left > 0 /\ ~LeaseActive(r) /\ Close({r}, "cancelled", "cancelled")
       \/ /\ grant[r].left > 0 /\ LeaseActive(r)
          /\ creq' = [creq EXCEPT ![r].status = "consumed"]
          /\ grant' = [grant EXCEPT ![r].consumed = TRUE]
          /\ effects' = [effects EXCEPT ![r] = Append(@, n)]
          /\ UNCHANGED <<result, outcomes>>
    /\ UNCHANGED jobVars

\* A terminal request answers "duplicate" or a conflict and changes nothing.
SubmitCapabilityResult(r, n, o) ==
    /\ n = grant[r].token /\ grant[r].consumed /\ creq[r].status = "consumed"
    /\ \/ ~LeaseActive(r) /\ Close({r}, "cancelled", "cancelled")
       \/ LeaseActive(r) /\ creq[r].left = 0 /\ Close({r}, "expired", "expired")
       \/ /\ LeaseActive(r) /\ creq[r].left > 0
          /\ result' = [result EXCEPT ![r] = o]
          /\ creq' = [creq EXCEPT ![r].status = o]
          /\ outcomes' = outcomes \cup {[req |-> r, kind |-> "result"]}
          /\ UNCHANGED <<grant, effects>>
    /\ UNCHANGED jobVars

---------------------------------------------------------------------------
(* expire_requests *)

\* Mutant: a consumed request waits for its result for ever
DueUnlessConsumed ==
    {r \in Requests : \/ creq[r].status = "waiting_approval" /\ creq[r].left = 0
                      \/ creq[r].status = "approved" /\ grant[r].left = 0}

Due ==
    {r \in Requests : \/ creq[r].status \in {"waiting_approval", "consumed"}
                           /\ creq[r].left = 0
                      \/ creq[r].status = "approved" /\ grant[r].left = 0}

\* One batch, limited in rows and in time.  Its clock was read before it waited
\* for the writer lock, so it may see fewer rows due, never more.
ExpireRequests ==
    /\ \E R \in (SUBSET Due) \ {{}} : Close(R, "expired", "expired")
    /\ UNCHANGED jobVars

---------------------------------------------------------------------------
(* Job steps, as far as they touch the requests, and time *)

ReapLeases ==
    \E S \in (SUBSET J!ExpiredLeases) \ {{}} :
        J!ReapRows(S) /\ Close(Withdrawn(S), "cancelled", "lease-cancelled")

CancelTask(t) ==
    /\ J!Cancellable(t)
    /\ J!CancelRows(t)
    /\ Close(IF J!ActiveJob(t) THEN Withdrawn({t}) ELSE {}, "cancelled", "task-cancelled")

OtherJobStep ==
    /\ UNCHANGED <<creq, grant, result, effects, outcomes>>
    /\ \/ \E w \in Workers : J!WorkerStep(w) \/ J!PresenceChanges(w)
       \/ \E t \in Tasks : J!TaskStep(t)
       \/ J!ControlPlaneStep

OneLess(n) == IF n > 0 THEN n - 1 ELSE 0

Tick ==
    /\ \/ \E t \in Tasks : job[t].lease > 0
       \/ \E r \in Requests : creq[r].left > 0 \/ grant[r].left > 0
    /\ job' = [t \in Tasks |-> [job[t] EXCEPT !.lease = OneLess(@)]]
    /\ creq' = [r \in Requests |-> [creq[r] EXCEPT !.left = OneLess(@)]]
    /\ grant' = [r \in Requests |-> [grant[r] EXCEPT !.left = OneLess(@)]]
    /\ UNCHANGED <<task, proofs, online, policy, stale, events, result, effects, outcomes>>

---------------------------------------------------------------------------

Init ==
    /\ creq = [r \in Requests |-> Unasked]
    /\ grant = [r \in Requests |-> NoGrant]
    /\ result = [r \in Requests |-> "none"]
    /\ effects = [r \in Requests |-> <<>>]
    /\ outcomes = {}
    /\ J!Init

WorkerAsks(r) ==
    \E w \in Workers, a \in Asks : \E p \in proofs[w] : CreateRequest(r, w, p, a)

PhoneStep(r) ==
    \/ \E decision \in {"approve", "deny"} : Authorize(r, decision)
    \/ \E n \in 1..grant[r].token :
          \/ Consume(r, n)
          \/ \E o \in PhoneOutcomes : SubmitCapabilityResult(r, n, o)

Next ==
    \/ \E r \in Requests : WorkerAsks(r) \/ PhoneStep(r)
    \/ ExpireRequests
    \/ ReapLeases
    \/ \E t \in Tasks : CancelTask(t)
    \/ OtherJobStep
    \/ Tick

Spec == Init /\ [][Next]_vars

Quarantine ==
    /\ UNCHANGED <<creq, grant, result, effects, outcomes>>
    /\ J!QuarantineRevoked

\* The clock advances and the maintenance loop keeps running the reaper, the
\* expirer and, after every reload of the policy, the quarantine (see AgentJobs).
FairSpec ==
    /\ Spec
    /\ WF_vars(Tick) /\ WF_vars(ExpireRequests)
    /\ WF_vars(ReapLeases) /\ SF_vars(Quarantine)

---------------------------------------------------------------------------
(* Properties *)

\* The capability tables keep their shape; the tables of the jobs are J's.
TypeOK ==
    /\ creq \in [Requests -> CapabilityRequest]
    /\ grant \in [Requests -> Grant]
    /\ result \in [Requests -> {"none"} \cup PhoneOutcomes]
    /\ effects \in [Requests -> Seq(1..MaxGrants)]
    /\ outcomes \in SUBSET [req : Requests, kind : OutcomeKind]
    /\ J!TypeOK

\* create, authorize, consume, submit_result and expire_requests do nothing to
\* the jobs but open and close requests as AgentJobs lets them, and the reaper
\* and cancel_task close exactly the requests AgentJobs says they close: all that
\* holds of AgentJobs holds of the two together.
ImplementsAgentJobs == J!Spec

\* With the requests and their ends in the way, no lease is held for ever by a
\* worker that is gone and no job of a revoked skill waits for ever (AgentJobs).
AbandonedLeaseResolved == J!AbandonedLeaseResolved
RevokedJobRetired == J!RevokedJobRetired

\* A user's decision lets the phone perform one effect, with the last grant issued,
\* however often the grant is rotated, lost, repeated or presented late ("use: once").
OneEffectPerRequest ==
    \A r \in Requests :
        effects[r] = IF grant[r].consumed THEN <<grant[r].token>> ELSE <<>>

\* Every effect a job ever caused on the phone was caused under one lease of one
\* worker: no retry of the job can repeat it (reaper and capability together).
EffectsUnderOneLease ==
    \A r, s \in Requests :
        (effects[r] # <<>> /\ effects[s] # <<>> /\ creq[r].task = creq[s].task) =>
            creq[r].gen = creq[s].gen /\ creq[r].agent = creq[s].agent

\* A worker that repeats a question while it is undecided, approved or executing
\* gets the request it already made: one live request per fingerprint.
OneOpenRequestPerAsk ==
    \A r, s \in Requests :
        /\ IsOpen(r) /\ IsOpen(s)
        /\ creq[r].task = creq[s].task /\ creq[r].gen = creq[s].gen
        /\ creq[r].ask = creq[s].ask
        => r = s

\* A grant that could still be exchanged belongs to an approved request that has
\* not expired: consume tests the grant's expiry only.
GrantDiesWithRequest ==
    \A r \in Requests :
        (grant[r].token > 0 /\ ~grant[r].consumed /\ grant[r].left > 0) =>
            creq[r].status = "approved" /\ grant[r].left <= creq[r].left

\* The worker is told once how a request ended, not before it ended, and a stored
\* result is the one it was told of: a result racing an expiry or a cancellation
\* is either the outcome or was never stored.
OneOutcomePerRequest ==
    \A r \in Requests :
        LET kinds == {e.kind : e \in {o \in outcomes : o.req = r}} IN
        /\ Cardinality(kinds) = IF creq[r].status \in TerminalStatus THEN 1 ELSE 0
        /\ result[r] # "none" <=> kinds = {"result"}
        /\ result[r] # "none" => result[r] = creq[r].status /\ effects[r] # <<>>

\* A request that nobody answers, or whose phone never reports back, ends.
EveryRequestEnds == \A r \in Requests : IsOpen(r) ~> ~IsOpen(r)

\* Its safety core.  The time a request was given is never extended, neither by
\* a late decision nor by the rotation or the consumption of its grant, and an
\* end is not taken back ...
DeadlineKept ==
    [][\A r \in Requests : creq[r].status # "none" =>
          /\ creq'[r].left <= creq[r].left
          /\ creq'[r].status # creq[r].status =>
                creq[r].status \in OpenStatus
                    /\ creq'[r].status \in {"approved", "consumed"} \cup TerminalStatus]_vars

\* ... and when it is over, expire_requests finds the request, whatever its status.
DueAtDeadline == \A r \in Requests : IsOpen(r) /\ creq[r].left = 0 => r \in Due
=============================================================================
