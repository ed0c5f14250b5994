----------------------------- MODULE AgentJobs -----------------------------
(***************************************************************************)
(* Remote agent jobs: AgentDispatcher (queue, claim, heartbeat, result),   *)
(* AgentLeaseReaper (recovery of expired leases) and the cancellation of   *)
(* the parent task.                                                        *)
(*                                                                         *)
(* Every handler is one SQLite BEGIN IMMEDIATE transaction, so it is one   *)
(* action here.  Workers are remote: they act with any lease proof they    *)
(* were ever given, as late and as often as they like, which covers lost   *)
(* answers, retries, crashes and workers that believe they still own a     *)
(* job.  A task receives at most one remote job in its life (queue_job     *)
(* wants it created or planned), so the job table is indexed by the task.  *)
(*                                                                         *)
(* Time is kept as what remains of each lease: lease_expires_at > now is   *)
(* lease > 0, and Tick lets one unit pass for every row at once.           *)
(***************************************************************************)
EXTENDS Integers, FiniteSets

CONSTANTS
    Tasks,          \* task identifiers, each with at most one remote job
    Workers,        \* registered remote agents
    Skills,         \* worker skills
    SkillOf,        \* the skill a task's job requires
    CanRun,         \* the approved skills of each worker
    RetrySafe,      \* AUTOMATIC_RETRY_SKILLS: read-only skills
    OptionalSkills, \* skills a policy may leave without a rule (specialist, media)
    SingleAttempt,  \* skills queued with max_attempts = 1
    NativeTasks,    \* tasks whose job carries a native (Swift) project grant
    Requests,       \* iPhone capability request identifiers
    DefaultAttempts,\* AgentDispatcher.max_attempts
    LeaseTTL,       \* lease_seconds, in clock units
    MaxConcurrency, \* agents.max_concurrency
    ClaimQuarantineBatch, \* CLAIM_QUARANTINE_BATCH_SIZE
    QuarantineBatchSize,  \* QUARANTINE_BATCH_SIZE
    NoWorker, NoTask

ASSUME JobsAssumption ==
    /\ SkillOf \in [Tasks -> Skills]
    /\ CanRun \in [Workers -> SUBSET Skills]
    /\ RetrySafe \subseteq Skills
    /\ OptionalSkills \subseteq Skills
    /\ SingleAttempt \subseteq Skills
    /\ NativeTasks \subseteq Tasks
    /\ DefaultAttempts \in Nat \ {0}
    /\ LeaseTTL \in Nat \ {0}
    /\ MaxConcurrency \in Nat \ {0}
    /\ ClaimQuarantineBatch \in Nat
    /\ QuarantineBatchSize \in Nat \ {0}
    /\ NoWorker \notin Workers
    /\ NoTask \notin Tasks

VARIABLES
    task,    \* tasks.status
    job,     \* the agent_jobs row of each task
    proofs,  \* lease proofs (token, generation) each worker has been given
    online,  \* workers the scheduler counts as online and fresh
    policy,  \* the worker skill rules of the current policy epoch
    stale,   \* tasks whose bound context or native grant changed since queueing
    req,     \* iphone_capability_requests, as far as jobs look at them
    events   \* outbox_events written by these handlers, as dedupe key and binding

vars == <<task, job, proofs, online, policy, stale, req, events>>

---------------------------------------------------------------------------
(* Rows and statuses *)

TaskStatus == {"created", "planned", "waiting_permission", "queued",
               "running", "blocked", "completed", "failed", "cancelled"}
TerminalTask == {"completed", "failed", "cancelled"}
TerminalJob == {"completed", "failed", "cancelled", "quarantined"}
LeasedJob == {"claimed", "running"}
JobStatus == {"none", "queued"} \cup LeasedJob \cup TerminalJob

MaxAttempts(t) == IF SkillOf[t] \in SingleAttempt THEN 1 ELSE DefaultAttempts

Job == [status : JobStatus, gen : Nat, attempts : Nat,
        holder : Workers \cup {NoWorker}, token : Nat, lease : 0..LeaseTTL,
        last : Workers \cup {NoWorker}]

Proof == [task : Tasks, token : Nat, gen : Nat]

Request == [state : {"none", "open", "closed"},
            task : Tasks \cup {NoTask}, gen : Nat]

EventKind == {"queued", "claimed", "heartbeat", "completed", "failed",
              "lease-expired", "requeued", "dead_lettered", "cancelled",
              "quarantined", "skill-revoked", "context-cancelled",
              "swift-revoked"}

Event == [task : Tasks, kind : EventKind, n : Nat,
          agent : Workers \cup {NoWorker}]

NoJob == [status |-> "none", gen |-> 0, attempts |-> 0, holder |-> NoWorker,
          token |-> 0, lease |-> 0, last |-> NoWorker]
NoRequest == [state |-> "none", task |-> NoTask, gen |-> 0]

Ev(t, kind, n, agent) == [task |-> t, kind |-> kind, n |-> n, agent |-> agent]

\* The rules of one policy epoch: skills allowed, explicitly denied, and those
\* the reaper may redistribute.  A skill without a rule is in none of them.
Policies ==
    {p \in [allow : SUBSET Skills, deny : SUBSET Skills, auto : SUBSET RetrySafe] :
        /\ p.allow \cap p.deny = {}
        /\ Skills \ OptionalSkills \subseteq p.allow \cup p.deny
        /\ p.auto \subseteq p.allow}

---------------------------------------------------------------------------
(* What the handlers look up *)

Leased(t) == job[t].status \in LeasedJob
Load(w) == Cardinality({t \in Tasks : Leased(t) /\ job[t].holder = w})

\* lease_matches: owner, token hash and generation; lease_id is drawn with the
\* token and says the same.
LeaseMatches(w, p) ==
    /\ job[p.task].holder = w
    /\ job[p.task].token = p.token
    /\ job[p.task].gen = p.gen

HoldsLease(w, p) ==
    /\ p \in proofs[w]
    /\ Leased(p.task)
    /\ LeaseMatches(w, p)
    /\ job[p.task].lease > 0

\* _require_active_lease_locked, and what submit_result asks of an active job
HoldsActiveLease(w, p) == HoldsLease(w, p) /\ task[p.task] = "running"

RequestsOf(t) == {r \in Requests : req[r].task = t /\ req[r].gen = job[t].gen}
OpenRequestsOf(t) == {r \in RequestsOf(t) : req[r].state = "open"}

\* Mutant: revoking a lease forgets its open capability requests
CloseNoRequests(T) == req' = req

\* Requests closed together with the lease of the tasks in T
CloseRequests(T) ==
    req' = [r \in Requests |->
              IF \E t \in T : r \in OpenRequestsOf(t)
                THEN [req[r] EXCEPT !.state = "closed"]
                ELSE req[r]]

Enqueue(E) == events' = events \cup E

\* Mutant: lease_owner and lease_token_hash survive the revocation
RevokedKeepingToken(j, status, bump) ==
    [j EXCEPT !.status = status, !.gen = @ + bump, !.lease = 0]

\* The lease columns cleared and the generation moved: the old proof is dead
Revoked(j, status, bump) ==
    [j EXCEPT !.status = status, !.gen = @ + bump, !.holder = NoWorker,
              !.token = 0, !.lease = 0]

---------------------------------------------------------------------------
(* The parent task outside this component *)

\* Planning moves a created task on, or fails it before any dispatch.
PlanTask(t) ==
    /\ task[t] \in {"created", "planned"}
    /\ \E s \in {"planned", "failed"} : task' = [task EXCEPT ![t] = s]
    /\ UNCHANGED <<job, proofs, online, policy, stale, req, events>>

\* A local tool call takes the task instead of a remote worker: it waits for
\* its approval or is queued at once, and from then on moves the task itself.
LocalMoves == [created |-> {"waiting_permission", "queued"},
               planned |-> {"waiting_permission", "queued"},
               waiting_permission |-> {"queued", "blocked"},
               queued |-> {"running", "failed"},
               running |-> {"completed", "failed"}]

LocalToolStep(t) ==
    /\ job[t].status = "none"
    /\ task[t] \in DOMAIN LocalMoves
    /\ \E s \in LocalMoves[task[t]] : task' = [task EXCEPT ![t] = s]
    /\ UNCHANGED <<job, proofs, online, policy, stale, req, events>>

\* Memory, goal conversation or native consent bound to the job changes.
ContextChanges(t) ==
    /\ job[t].status \in {"queued"} \cup LeasedJob
    /\ stale' = stale \cup {t}
    /\ UNCHANGED <<task, job, proofs, online, policy, req, events>>

\* Presence heartbeats, their absence, and the operator's online/draining switch.
PresenceChanges(w) ==
    /\ online' = IF w \in online THEN online \ {w} ELSE online \cup {w}
    /\ UNCHANGED <<task, job, proofs, policy, stale, req, events>>

---------------------------------------------------------------------------
(* AgentDispatcher.queue_job *)

QueueJob(t) ==
    /\ task[t] \in {"created", "planned"}
    /\ job[t].status \notin {"queued"} \cup LeasedJob
    /\ SkillOf[t] \in policy.allow
    /\ job' = [job EXCEPT ![t] = [NoJob EXCEPT !.status = "queued"]]
    /\ task' = [task EXCEPT ![t] = "queued"]
    /\ Enqueue({Ev(t, "queued", 0, NoWorker)})
    /\ UNCHANGED <<proofs, online, policy, stale, req>>

---------------------------------------------------------------------------
(* Worker skill policy and the quarantine of revoked queues *)

\* WorkerSkillPolicyStore.replace: a new epoch, whatever is already queued.
ReplacePolicy ==
    /\ policy' \in Policies
    /\ UNCHANGED <<task, job, proofs, online, stale, req, events>>

\* Mutant: only rows never claimed before are quarantined
DeniedNeverClaimed ==
    {t \in Tasks : /\ job[t].status = "queued" /\ job[t].attempts = 0
                   /\ SkillOf[t] \in policy.deny}

DeniedQueued == {t \in Tasks : job[t].status = "queued" /\ SkillOf[t] \in policy.deny}

SmallerOf(m, n) == IF m <= n THEN m ELSE n

\* The rows one bounded quarantine batch retires, whatever their order.
QuarantineBatches(limit) ==
    {Q \in SUBSET DeniedQueued :
        Cardinality(Q) = SmallerOf(limit, Cardinality(DeniedQueued))}

QuarantineEvents(Q) == {Ev(t, "skill-revoked", 0, NoWorker) : t \in Q}

\* One transaction of quarantine_revoked_jobs.
QuarantineRevoked ==
    \E Q \in QuarantineBatches(QuarantineBatchSize) \ {{}} :
        /\ job' = [t \in Tasks |-> IF t \in Q THEN [job[t] EXCEPT !.status = "quarantined"]
                                             ELSE job[t]]
        /\ task' = [t \in Tasks |-> IF t \in Q /\ task[t] = "queued" THEN "failed"
                                                                ELSE task[t]]
        /\ Enqueue(QuarantineEvents(Q))
        /\ UNCHANGED <<proofs, online, policy, stale, req>>

---------------------------------------------------------------------------
(* AgentDispatcher.claim *)

Eligible(w, t) == w \in online /\ Load(w) < MaxConcurrency /\ SkillOf[t] \in CanRun[w]

\* select_for_job_locked: the worker that lost the job is passed over while
\* another one is eligible.  How the rest are ranked is left open.
Selectable(t) ==
    LET all == {w \in Workers : Eligible(w, t)}
        others == all \ {job[t].last}
    IN IF others # {} THEN others ELSE all

\* Mutant: a poll takes over expired leases itself, before the reaper has seen them
CandidatesOrExpired(w) ==
    {t \in Tasks : /\ \/ job[t].status = "queued" /\ job[t].attempts < MaxAttempts(t)
                      \/ Leased(t) /\ job[t].lease = 0
                   /\ SkillOf[t] \in CanRun[w] \cap policy.allow}

Candidates(w) ==
    {t \in Tasks : /\ job[t].status = "queued"
                   /\ job[t].attempts < MaxAttempts(t)
                   /\ task[t] = "queued"
                   /\ SkillOf[t] \in CanRun[w] \cap policy.allow}

\* Mutant: a claim does not move lease_generation
ClaimedSameGeneration(j, w) ==
    [j EXCEPT !.status = "claimed", !.attempts = @ + 1,
              !.holder = w, !.token = j.attempts + 1, !.lease = LeaseTTL, !.last = w]

ClaimedJob(j, w) ==
    [j EXCEPT !.status = "claimed", !.gen = @ + 1, !.attempts = @ + 1,
              !.holder = w, !.token = j.attempts + 1, !.lease = LeaseTTL, !.last = w]

\* Jobs a poll retires on its way: Q by policy, C because their context changed.
RetiredJob(t, Q, C) ==
    IF t \in Q THEN [job[t] EXCEPT !.status = "quarantined"]
    ELSE IF t \in C THEN [job[t] EXCEPT !.status = "cancelled"]
    ELSE job[t]

RetiredTask(t, Q, C) ==
    IF t \in Q /\ task[t] = "queued" THEN "failed"
    ELSE IF t \in C THEN "cancelled"
    ELSE task[t]

RetirementEvents(Q, C) ==
    QuarantineEvents(Q) \cup
    {Ev(t, IF t \in NativeTasks THEN "swift-revoked" ELSE "context-cancelled", 0, NoWorker)
        : t \in C}

\* A poll that hands out nothing still commits what it retired.  Any candidate
\* may have been passed over: ranked after another worker, or waiting for the GPU.
ClaimNothing(w) ==
    /\ w \in online
    /\ \E Q \in QuarantineBatches(ClaimQuarantineBatch) :
       \E C \in SUBSET (Candidates(w) \cap stale) :
          /\ Q \cup C # {}
          /\ C # {} => Load(w) < MaxConcurrency
          /\ job' = [t \in Tasks |-> RetiredJob(t, Q, C)]
          /\ task' = [t \in Tasks |-> RetiredTask(t, Q, C)]
          /\ Enqueue(RetirementEvents(Q, C))
          /\ UNCHANGED <<proofs, online, policy, stale, req>>

\* cancel_stale_goal_jobs: the goal runtime retires queued work that predates a
\* user reply, whether or not a worker polls for it.
CancelStaleGoalJobs ==
    \E C \in (SUBSET {t \in stale \ NativeTasks : job[t].status = "queued"}) \ {{}} :
        /\ job' = [t \in Tasks |-> RetiredJob(t, {}, C)]
        /\ task' = [t \in Tasks |-> RetiredTask(t, {}, C)]
        /\ Enqueue(RetirementEvents({}, C))
        /\ UNCHANGED <<proofs, online, policy, stale, req>>

\* A fresh token is drawn for every claim; the attempt that drew it names it.
Claim(w, t) ==
    /\ Eligible(w, t)
    /\ t \in Candidates(w) \ stale
    /\ w \in Selectable(t)
    /\ \E Q \in QuarantineBatches(ClaimQuarantineBatch) :
       \E C \in SUBSET (Candidates(w) \cap stale) :
          /\ job' = [u \in Tasks |-> IF u = t THEN ClaimedJob(job[t], w)
                                              ELSE RetiredJob(u, Q, C)]
          /\ task' = [u \in Tasks |-> IF u = t THEN "running" ELSE RetiredTask(u, Q, C)]
          /\ proofs' = [proofs EXCEPT ![w] = @ \cup
                {[task |-> t, token |-> job'[t].token, gen |-> job'[t].gen]}]
          /\ Enqueue(RetirementEvents(Q, C) \cup {Ev(t, "claimed", job'[t].gen, w)})
          /\ UNCHANGED <<online, policy, stale, req>>

---------------------------------------------------------------------------
(* AgentDispatcher.heartbeat and submit_result *)

\* cancel_native_job_locked keeps the lease columns and leaves the capability
\* requests of the job alone.
RevokeNative(t) ==
    /\ job' = [job EXCEPT ![t].status = "cancelled"]
    /\ task' = [task EXCEPT ![t] = IF @ \in TerminalTask THEN @ ELSE "cancelled"]
    /\ Enqueue({Ev(t, "swift-revoked", 0, NoWorker)})

\* SwiftProjectValidationService.cancel: the user withdraws the native consent.
CancelNative(t) ==
    /\ t \in NativeTasks
    /\ job[t].status \in {"queued"} \cup LeasedJob
    /\ RevokeNative(t)
    /\ UNCHANGED <<proofs, online, policy, stale, req>>

Heartbeat(w, p) ==
    LET t == p.task IN
    /\ HoldsLease(w, p)
    /\ IF t \in NativeTasks \cap stale
         THEN RevokeNative(t)
         ELSE /\ task[t] = "running"
              /\ job' = [job EXCEPT ![t].status = "running", ![t].lease = LeaseTTL]
              /\ task' = task
              /\ Enqueue({Ev(t, "heartbeat", job[t].gen, w)})
    /\ UNCHANGED <<proofs, online, policy, stale, req>>

\* The lease columns stay on the finished row, so that a repeated submission
\* still matches and is answered from the stored result (no state changes).
SubmitResult(w, p, outcome) ==
    LET t == p.task IN
    /\ HoldsActiveLease(w, p)
    /\ OpenRequestsOf(t) = {}
    /\ IF t \in stale
         THEN /\ t \notin NativeTasks
              /\ job' = [job EXCEPT ![t].status = "cancelled"]
              /\ task' = [task EXCEPT ![t] = "cancelled"]
              /\ Enqueue({Ev(t, "context-cancelled", 0, NoWorker)})
         ELSE /\ job' = [job EXCEPT ![t].status = outcome]
              /\ task' = [task EXCEPT ![t] = outcome]
              /\ Enqueue({Ev(t, outcome, job[t].gen, w)})
    /\ UNCHANGED <<proofs, online, policy, stale, req>>

---------------------------------------------------------------------------
(* AgentLeaseReaper.reap_expired *)

\* Mutant: the reaper selects rows by lease_expires_at alone
ExpiredRows == {t \in Tasks : job[t].holder # NoWorker /\ job[t].lease = 0}

\* Mutant: the reaper forgets leases that never sent a heartbeat
ExpiredRunning == {t \in Tasks : job[t].status = "running" /\ job[t].lease = 0}

ExpiredLeases == {t \in Tasks : Leased(t) /\ job[t].lease = 0}

\* Mutants: retry whatever the capability history, or once too often
RetryableWithHistory(t) ==
    /\ SkillOf[t] \in policy.auto
    /\ job[t].attempts < MaxAttempts(t)
RetryableOnceMore(t) ==
    /\ RequestsOf(t) = {}
    /\ SkillOf[t] \in policy.auto
    /\ job[t].attempts <= MaxAttempts(t)

\* Only a read-only skill the policy redistributes, without any capability request
\* under this lease and with attempts left, goes back to the queue.
Retryable(t) ==
    /\ RequestsOf(t) = {}
    /\ SkillOf[t] \in policy.auto
    /\ job[t].attempts < MaxAttempts(t)

\* _reap_row_locked: the name of the outcome, in the order the code tests for it
ReapOutcome(t) ==
    CASE task[t] \in TerminalTask -> "cancelled"
      [] task[t] \notin TerminalTask /\ Retryable(t) /\ task[t] = "running" -> "requeued"
      [] task[t] \notin TerminalTask /\ ~(Retryable(t) /\ task[t] = "running")
            /\ RequestsOf(t) = {} /\ SkillOf[t] \notin policy.allow -> "quarantined"
      [] OTHER -> "dead_lettered"

ReapedStatus(t) ==
    CASE ReapOutcome(t) = "requeued" -> "queued"
      [] ReapOutcome(t) = "dead_lettered" -> "failed"
      [] OTHER -> ReapOutcome(t)

ReapedJob(t) ==
    [Revoked(job[t], ReapedStatus(t), IF ReapOutcome(t) = "requeued" THEN 0 ELSE 1)
        EXCEPT !.last = job[t].holder]

\* Mutant: only a quarantined job takes its task along
ReapedTaskStillRunning(t) ==
    IF ReapOutcome(t) = "quarantined" THEN "failed" ELSE task[t]

ReapedTask(t) ==
    CASE ReapOutcome(t) = "requeued" -> "queued"
      [] ReapOutcome(t) \in {"quarantined", "dead_lettered"}
            /\ task[t] \in {"queued", "running"} -> "failed"
      [] OTHER -> task[t]

\* The job and task rows of one reaped batch S
ReapRows(S) ==
    /\ job' = [t \in Tasks |-> IF t \in S THEN ReapedJob(t) ELSE job[t]]
    /\ task' = [t \in Tasks |-> IF t \in S THEN ReapedTask(t) ELSE task[t]]
    /\ Enqueue({Ev(t, "lease-expired", job[t].gen, job[t].holder) : t \in S} \cup
               {Ev(t, ReapOutcome(t), job[t].gen, NoWorker) : t \in S})
    /\ UNCHANGED <<proofs, online, policy, stale>>

\* One transaction of the reaper: a batch of expired rows, cut short when its
\* time budget is used up, so any nonempty set of them.
Reap ==
    \E S \in (SUBSET ExpiredLeases) \ {{}} : ReapRows(S) /\ CloseRequests(S)

---------------------------------------------------------------------------
(* StateService.cancel_task *)

ActiveJob(t) == job[t].status \in {"queued"} \cup LeasedJob

\* A running task is cancellable when a remote job, not a local tool, runs it.
Cancellable(t) ==
    \/ task[t] \in {"created", "planned", "waiting_permission", "queued", "blocked"}
    \/ task[t] = "running" /\ ActiveJob(t)

CancelRows(t) ==
    /\ task' = [task EXCEPT ![t] = "cancelled"]
    /\ IF ActiveJob(t)
         THEN /\ job' = [job EXCEPT ![t] = Revoked(@, "cancelled", 1)]
              /\ Enqueue({Ev(t, "cancelled", job[t].gen + 1, NoWorker)})
         ELSE UNCHANGED <<job, events>>
    /\ UNCHANGED <<proofs, online, policy, stale>>

CancelTask(t) ==
    /\ Cancellable(t)
    /\ CancelRows(t)
    /\ IF ActiveJob(t) THEN CloseRequests({t}) ELSE UNCHANGED req

---------------------------------------------------------------------------
(* What this component relies on the capability service for: a request opens *)
(* only under an active lease, and open requests close at any time, one by   *)
(* one (decision, result) or in batches (expiry).  IPhoneCapabilities shows  *)
(* that the service does nothing else to the jobs.                           *)

OpenRequest(r, w, p) ==
    /\ req[r].state = "none"
    /\ HoldsActiveLease(w, p)
    /\ req' = [req EXCEPT ![r] = [state |-> "open", task |-> p.task, gen |-> p.gen]]
    /\ UNCHANGED <<task, job, proofs, online, policy, stale, events>>

CloseOpen(R) ==
    /\ \A r \in R : req[r].state = "open"
    /\ req' = [r \in Requests |-> IF r \in R THEN [req[r] EXCEPT !.state = "closed"]
                                           ELSE req[r]]
    /\ UNCHANGED <<task, job, proofs, online, policy, stale, events>>

---------------------------------------------------------------------------
(* Time and the specification *)

Tick ==
    /\ \E t \in Tasks : job[t].lease > 0
    /\ job' = [t \in Tasks |-> [job[t] EXCEPT !.lease = IF @ > 0 THEN @ - 1 ELSE 0]]
    /\ UNCHANGED <<task, proofs, online, policy, stale, req, events>>

Init ==
    /\ task = [t \in Tasks |-> "created"]
    /\ job = [t \in Tasks |-> NoJob]
    /\ proofs = [w \in Workers |-> {}]
    /\ online = Workers
    /\ policy = [allow |-> Skills, deny |-> {}, auto |-> RetrySafe]
    /\ stale = {}
    /\ req = [r \in Requests |-> NoRequest]
    /\ events = {}

WorkerStep(w) ==
    \/ ClaimNothing(w)
    \/ \E t \in Tasks : Claim(w, t)
    \/ \E p \in proofs[w] :
          \/ Heartbeat(w, p)
          \/ \E outcome \in {"completed", "failed"} : SubmitResult(w, p, outcome)

TaskStep(t) ==
    \/ PlanTask(t) \/ LocalToolStep(t) \/ ContextChanges(t)
    \/ QueueJob(t) \/ CancelNative(t)

ControlPlaneStep ==
    \/ ReplacePolicy
    \/ QuarantineRevoked
    \/ CancelStaleGoalJobs

\* The two ways the control plane ends a lease under its worker
LeaseRevoked == Reap \/ \E t \in Tasks : CancelTask(t)

CapabilityStep ==
    \/ \E R \in (SUBSET Requests) \ {{}} : CloseOpen(R)
    \/ \E r \in Requests, w \in Workers : \E p \in proofs[w] : OpenRequest(r, w, p)

Next ==
    \/ \E w \in Workers : WorkerStep(w) \/ PresenceChanges(w)
    \/ \E t \in Tasks : TaskStep(t)
    \/ ControlPlaneStep
    \/ LeaseRevoked
    \/ CapabilityStep
    \/ Tick

Spec == Init /\ [][Next]_vars

\* The clock advances and the maintenance loop keeps running the reaper.  The
\* quarantine follows every reload of the policy before the next one: strong
\* fairness, whatever the policies in between.
FairSpec == Spec /\ WF_vars(Tick) /\ WF_vars(Reap) /\ SF_vars(QuarantineRevoked)

---------------------------------------------------------------------------
(* Properties *)

\* Every variable keeps the shape of its table; attempts stay within the
\* budget queue_job wrote on the row (agent_jobs.max_attempts).
TypeOK ==
    /\ task \in [Tasks -> TaskStatus]
    /\ job \in [Tasks -> Job]
    /\ \A t \in Tasks : job[t].attempts <= MaxAttempts(t)
    /\ proofs \in [Workers -> SUBSET Proof]
    /\ online \in SUBSET Workers
    /\ policy \in Policies
    /\ stale \in SUBSET Tasks
    /\ req \in [Requests -> Request]
    /\ events \in SUBSET Event

JobTaskOK(t) ==
    /\ job[t].status = "queued" => task[t] = "queued"
    /\ job[t].status \in LeasedJob => task[t] = "running"
    /\ job[t].status = "quarantined" => task[t] = "failed"
    /\ job[t].status \in {"completed", "failed", "cancelled"} => task[t] = job[t].status

\* The job and its parent task tell the same story after every transaction of
\* the dispatcher, the reaper, the quarantine and cancel_task: each of them
\* moves both rows or neither.
JobTaskCoherent == \A t \in Tasks : JobTaskOK(t)

\* Who was ever given a lease on the job of task t, with the proof
Handed(t) == {h \in UNION {{w} \X proofs[w] : w \in Workers} : h[2].task = t}

\* A job whose skill may have side effects is handed to one worker, once, in
\* its whole life: the reaper never puts it back (AUTOMATIC_RETRY_SKILLS).
SideEffectsHandedOutOnce ==
    \A t \in Tasks : SkillOf[t] \notin RetrySafe => \A g, h \in Handed(t) : g = h

\* Once a lease has asked for an iPhone capability, the job is never leased
\* again: the phone's effect cannot be repeated by a retry (_reap_row_locked's
\* capability_history, which looks at the reaped generation only).
CapabilityPinsLease ==
    \A r \in Requests : req[r].state # "none" =>
        /\ job[req[r].task].status # "queued"
        /\ \A h \in Handed(req[r].task) : h[2].gen <= req[r].gen

\* A proof that still matches a row is the proof of that row's latest claim,
\* and the row is not waiting for another worker: a requeued or revoked lease
\* leaves nothing behind that heartbeat or submit_result would accept, although
\* a requeue keeps the generation.
StaleProofRejected ==
    \A w \in Workers : \A p \in proofs[w] :
        LeaseMatches(w, p) =>
            /\ p.token = job[p.task].attempts
            /\ job[p.task].status \notin {"none", "queued"}

\* A queued job always has an attempt left for the worker that polls for it:
\* claim filters on attempt_count < max_attempts, so a job requeued without one
\* would wait for ever.
NoStrandedJob ==
    \A t \in Tasks : job[t].status = "queued" => job[t].attempts < MaxAttempts(t)

\* An undecided or executing iPhone request belongs to a job that is leased
\* under the generation that asked, except after the revocation of a native
\* grant, which cancels the job without closing its requests.
OpenRequestHasLease ==
    \A r \in Requests : req[r].state = "open" =>
        LET t == req[r].task IN
        /\ job[t].gen = req[r].gen
        /\ Leased(t) \/ (t \in NativeTasks /\ job[t].status = "cancelled")

\* Two outbox rows never share a dedupe key with different bindings:
\* enqueue_locked would refuse the second and roll back the whole handler.
DedupeKeyBindsOneEvent ==
    \A e \in events : \A w \in (Workers \cup {NoWorker}) \ {e.agent} :
        Ev(e.task, e.kind, e.n, w) \notin events

\* The generation names a claim: two leases on one job, whether of two workers
\* or of one, never carry the same generation (claim adds one, a requeue none).
GenerationNamesClaim ==
    \A t \in Tasks : \A g, h \in Handed(t) : g[2].gen = h[2].gen => g = h

\* Every handler, whatever rows it moves at once and with whatever statements,
\* keeps each job to AgentJobStateMachine.ALLOWED: only a read-only skill with
\* more than one attempt goes from a lease back to the queue, and what ended
\* stays ended, whatever a late worker, a second cancellation or the reaper do.
JobState == [t \in Tasks |->
    CASE job[t].status = "none" -> IF task[t] \in {"created", "planned"} THEN "created"
                                                                        ELSE "withdrawn"
      [] job[t].status \in LeasedJob -> "leased"
      [] job[t].status = "quarantined" -> "failed"
      [] OTHER -> job[t].status]

Lifecycle == INSTANCE JobLifecycle WITH
    status <- JobState,
    Repeatable <- {t \in Tasks : SkillOf[t] \in RetrySafe \ SingleAttempt}

ImplementsJobLifecycle == Lifecycle!Spec

\* A terminal job row is never written again, whatever a late worker, a second
\* cancellation or the reaper does (its lease columns only age).
TerminalJobFrozen ==
    [][\A t \in Tasks : job[t].status \in TerminalJob =>
         [job[t] EXCEPT !.lease = 0] = [job'[t] EXCEPT !.lease = 0]]_vars

\* A lease that its worker stops renewing ends: the job is requeued or closed.
AbandonedLeaseResolved ==
    \A t \in Tasks :
        \/ []<><<\E w \in Workers : \E p \in proofs[w] : p.task = t /\ Heartbeat(w, p)>>_vars
        \/ Leased(t) ~> ~Leased(t)

\* A queued job whose skill has left the policy does not wait for ever: it is
\* quarantined, unless it is cancelled or a later policy allows it again.
RevokedJobRetired ==
    \A t \in Tasks :
        (job[t].status = "queued" /\ SkillOf[t] \notin policy.allow)
            ~> (job[t].status # "queued" \/ SkillOf[t] \in policy.allow)
=============================================================================
