-------------------------- MODULE AgentJobs_proofs --------------------------
(***************************************************************************)
(* What AgentJobs guarantees for any number of tasks, workers, skills and  *)
(* requests, proved from one inductive invariant.                          *)
(***************************************************************************)
EXTENDS AgentJobs, TLAPS

Waiting == {"none", "queued"}

\* What the columns of one agent_jobs row say of each other.  While a job can
\* still be claimed or is leased, its generation counts its attempts.
RowOK(t) ==
    /\ job[t].status = "none" => job[t] = NoJob
    /\ job[t].status \in Waiting => job[t].holder = NoWorker /\ job[t].token = 0
    /\ job[t].status \in LeasedJob => job[t].token = job[t].attempts
    /\ job[t].status \in Waiting \cup LeasedJob => job[t].gen = job[t].attempts
    /\ job[t].token \in {0, job[t].attempts}
    /\ job[t].status = "queued" => job[t].attempts < MaxAttempts(t)
    /\ SkillOf[t] \notin RetrySafe =>
          job[t].attempts <= (IF job[t].status = "queued" THEN 0 ELSE 1)

RowsOK == \A t \in Tasks : RowOK(t)

\* Every proof names a claim that took place, one worker per claim, and the
\* worker of a live lease was given its proof.
ProofsOK ==
    /\ \A w \in Workers : \A p \in proofs[w] :
          p.gen = p.token /\ p.token >= 1 /\ p.token <= job[p.task].attempts
    /\ \A v, w \in Workers : \A p \in proofs[v], q \in proofs[w] :
          p.task = q.task /\ p.gen = q.gen => v = w
    /\ \A t \in Tasks : Leased(t) =>
          /\ job[t].holder \in Workers
          /\ [task |-> t, token |-> job[t].token, gen |-> job[t].gen]
                \in proofs[job[t].holder]

\* A request was made under the last lease its job will ever have.
RequestsOK ==
    \A r \in Requests : req[r].state # "none" =>
        /\ req[r].task \in Tasks
        /\ job[req[r].task].status \notin Waiting
        /\ job[req[r].task].attempts = req[r].gen

WorkerEvents == {"claimed", "heartbeat", "completed", "failed", "lease-expired"}

\* An event names the worker that was given the lease of its generation.
EventsOK ==
    \A e \in events :
        IF e.kind \in WorkerEvents
          THEN /\ e.agent \in Workers
               /\ \E p \in proofs[e.agent] : p.task = e.task /\ p.gen = e.n
          ELSE e.agent = NoWorker

IInv ==
    /\ TypeOK
    /\ JobTaskCoherent
    /\ RowsOK
    /\ ProofsOK
    /\ RequestsOK
    /\ OpenRequestHasLease
    /\ EventsOK

---------------------------------------------------------------------------
(* The invariant holds initially *)

LEMMA MaxAttemptsType == \A t \in Tasks : MaxAttempts(t) \in Nat \ {0}
  BY JobsAssumption DEF MaxAttempts

LEMMA NoJobType == NoJob \in Job
  BY JobsAssumption DEF NoJob, Job, JobStatus

LEMMA InitInv == Init => IInv
<1> SUFFICES ASSUME Init PROVE IInv
  OBVIOUS
<1>1. TypeOK
  BY JobsAssumption, MaxAttemptsType, NoJobType
  DEF Init, TypeOK, Policies, TaskStatus, NoJob, NoRequest, Request
<1>2. JobTaskCoherent /\ RowsOK /\ ProofsOK
  BY JobsAssumption, MaxAttemptsType
  DEF Init, JobTaskCoherent, JobTaskOK, RowsOK, RowOK, ProofsOK, NoJob, Waiting, LeasedJob, Leased
<1>3. RequestsOK /\ OpenRequestHasLease /\ EventsOK
  BY DEF Init, RequestsOK, OpenRequestHasLease, EventsOK, NoRequest
<1> QED BY <1>1, <1>2, <1>3 DEF IInv

---------------------------------------------------------------------------
(* Type correctness *)

LEMMA RevokedType ==
  ASSUME NEW j \in Job, NEW s \in JobStatus, NEW b \in {0, 1}
  PROVE Revoked(j, s, b) \in Job
<1>1. j.gen + b \in Nat /\ 0 \in 0..LeaseTTL
  BY JobsAssumption DEF Job
<1> QED BY <1>1 DEF Revoked, Job

LEMMA ClaimedType ==
  ASSUME NEW j \in Job, NEW w \in Workers
  PROVE ClaimedJob(j, w) \in Job
<1>1. j.gen + 1 \in Nat /\ j.attempts + 1 \in Nat /\ LeaseTTL \in 0..LeaseTTL
  BY JobsAssumption DEF Job
<1>2. "claimed" \in JobStatus
  BY DEF JobStatus, LeasedJob
<1> QED BY <1>1, <1>2 DEF ClaimedJob, Job

LEMMA ReapedStatusType ==
  \A t : ReapedStatus(t) \in {"queued", "failed", "cancelled", "quarantined"}
  BY DEF ReapedStatus, ReapOutcome

LEMMA ReapedType ==
  ASSUME NEW t \in Tasks, job[t] \in Job
  PROVE ReapedJob(t) \in Job
<1>1. Revoked(job[t], ReapedStatus(t), IF ReapOutcome(t) = "requeued" THEN 0 ELSE 1) \in Job
  BY RevokedType, ReapedStatusType DEF JobStatus, LeasedJob, TerminalJob
<1> QED BY <1>1 DEF ReapedJob, Job

---------------------------------------------------------------------------
(* Steps that leave every job row alone *)

LEMMA TaskOnlyInv ==
  ASSUME IInv, NEW t \in Tasks, PlanTask(t) \/ LocalToolStep(t)
  PROVE IInv'
<1> USE DEF IInv, PlanTask, LocalToolStep
<1>1. /\ job[t].status \notin {"queued"} \cup LeasedJob
      /\ job[t].status # "none" => task[t] \notin {"created", "planned"}
  BY DEF JobTaskCoherent, JobTaskOK, LocalMoves, LeasedJob, TypeOK, Job, JobStatus, TerminalJob
<1>2. \E s \in TaskStatus : task' = [task EXCEPT ![t] = s]
  BY DEF LocalMoves, TaskStatus
<1>3. TypeOK'
  BY <1>2 DEF TypeOK, MaxAttempts
<1>4. job[t].status = "none"
  BY <1>1 DEF LocalMoves, JobTaskCoherent, JobTaskOK, TypeOK, Job, JobStatus, LeasedJob, TerminalJob
<1>5. JobTaskCoherent'
  BY <1>2, <1>4 DEF JobTaskCoherent, JobTaskOK, TypeOK, LeasedJob
<1>6. RowsOK' /\ ProofsOK'
  BY DEF RowsOK, RowOK, MaxAttempts, ProofsOK, Leased
<1>7. RequestsOK' /\ OpenRequestHasLease' /\ EventsOK'
  BY DEF RequestsOK, OpenRequestHasLease, EventsOK, Leased
<1> QED BY <1>3, <1>5, <1>6, <1>7

LEMMA EnvironmentInv ==
  ASSUME IInv,
         \/ \E t \in Tasks : ContextChanges(t)
         \/ \E w \in Workers : PresenceChanges(w)
         \/ ReplacePolicy
  PROVE IInv'
<1> USE DEF IInv, ContextChanges, PresenceChanges, ReplacePolicy
<1>1. TypeOK'
  BY DEF TypeOK, MaxAttempts
<1>2. JobTaskCoherent' /\ RowsOK' /\ ProofsOK'
  BY DEF JobTaskCoherent, JobTaskOK, RowsOK, RowOK, MaxAttempts, ProofsOK, Leased
<1>3. RequestsOK' /\ OpenRequestHasLease' /\ EventsOK'
  BY DEF RequestsOK, OpenRequestHasLease, EventsOK, Leased
<1> QED BY <1>1, <1>2, <1>3

LEMMA OpenRequestInv ==
  ASSUME IInv, NEW r \in Requests, NEW w \in Workers, NEW p \in proofs[w],
         OpenRequest(r, w, p)
  PROVE IInv'
<1> USE DEF IInv, OpenRequest, HoldsActiveLease, HoldsLease
<1>1. p \in Proof /\ p.task \in Tasks /\ p.gen \in Nat
  BY DEF TypeOK, Proof
<1>2. TypeOK'
  BY <1>1 DEF TypeOK, MaxAttempts, Request
<1>3. JobTaskCoherent' /\ RowsOK' /\ ProofsOK' /\ EventsOK'
  BY DEF JobTaskCoherent, JobTaskOK, RowsOK, RowOK, MaxAttempts, ProofsOK, Leased, EventsOK
<1>4. /\ job[p.task].status \notin Waiting
      /\ job[p.task].attempts = p.gen
      /\ job[p.task].gen = p.gen
  BY <1>1 DEF RowsOK, RowOK, Leased, LeasedJob, Waiting, LeaseMatches
<1>5. RequestsOK' /\ OpenRequestHasLease'
  BY <1>1, <1>4 DEF RequestsOK, OpenRequestHasLease, Leased, TypeOK
<1> QED BY <1>2, <1>3, <1>5

LEMMA CloseOpenInv ==
  ASSUME IInv, NEW R \in SUBSET Requests, CloseOpen(R)
  PROVE IInv'
<1> USE DEF IInv, CloseOpen
<1>1. \A r \in Requests : /\ req'[r].task = req[r].task /\ req'[r].gen = req[r].gen
                          /\ req'[r].state = "open" => req[r].state = "open"
                          /\ req'[r].state # "none" <=> req[r].state # "none"
                          /\ req'[r] \in Request
  BY DEF TypeOK, Request
<1>2. TypeOK'
  BY <1>1 DEF TypeOK, MaxAttempts
<1>3. JobTaskCoherent' /\ RowsOK' /\ ProofsOK' /\ EventsOK'
  BY DEF JobTaskCoherent, JobTaskOK, RowsOK, RowOK, MaxAttempts, ProofsOK, Leased, EventsOK
<1>4. RequestsOK' /\ OpenRequestHasLease'
  BY <1>1 DEF RequestsOK, OpenRequestHasLease, Leased
<1> QED BY <1>2, <1>3, <1>4

---------------------------------------------------------------------------
(* Dispatch *)

LEMMA QueueJobInv ==
  ASSUME IInv, NEW t \in Tasks, QueueJob(t)
  PROVE IInv'
<1> USE DEF IInv, QueueJob
<1>1. job[t].status = "none"
  BY DEF JobTaskCoherent, JobTaskOK, TypeOK, Job, JobStatus, LeasedJob, TerminalJob
<1>2. job[t] = NoJob /\ job[t].attempts = 0
  BY <1>1 DEF RowsOK, RowOK, NoJob
<1>3. job'[t] = [NoJob EXCEPT !.status = "queued"]
  BY DEF TypeOK
<1>4. /\ job'[t].status = "queued" /\ job'[t].holder = NoWorker
      /\ job'[t].gen = 0 /\ job'[t].attempts = 0 /\ job'[t].token = 0
  BY <1>3 DEF NoJob
<1>5. job'[t] \in Job
  BY <1>3, NoJobType DEF Job, JobStatus, NoJob
<1>6. \A u \in Tasks \ {t} : job'[u] = job[u] /\ task'[u] = task[u]
  BY DEF TypeOK
<1>7. TypeOK'
  <2>1. events' \in SUBSET Event
    BY DEF Enqueue, Ev, TypeOK, Event, EventKind
  <2>2. job' \in [Tasks -> Job]
    BY <1>5 DEF TypeOK
  <2>3. \A u \in Tasks : job'[u].attempts <= MaxAttempts(u)
    BY <1>4, <1>6, MaxAttemptsType DEF TypeOK
  <2> QED BY <2>1, <2>2, <2>3 DEF TypeOK, TaskStatus, MaxAttempts
<1>8. JobTaskCoherent'
  <2> SUFFICES ASSUME NEW u \in Tasks
      PROVE JobTaskOK(u)'
    BY DEF JobTaskCoherent, JobTaskOK
  <2>1. CASE u = t
    BY <2>1, <1>4 DEF JobTaskOK, LeasedJob, TypeOK
  <2>2. CASE u # t
    BY <2>2, <1>6 DEF JobTaskCoherent, JobTaskOK
  <2> QED BY <2>1, <2>2
<1>9. RowsOK'
  BY <1>4, <1>6, MaxAttemptsType
  DEF RowsOK, RowOK, MaxAttempts, Waiting, LeasedJob, TypeOK, Job
<1>10. ProofsOK'
  BY <1>2, <1>4, <1>6 DEF ProofsOK, Leased, LeasedJob, TypeOK, Proof
<1>11. \A r \in Requests : req[r].state # "none" => req[r].task # t
  BY <1>1 DEF RequestsOK, Waiting
<1>12. RequestsOK' /\ OpenRequestHasLease'
  BY <1>6, <1>11, RequestsOK, OpenRequestHasLease
  DEF RequestsOK, OpenRequestHasLease, Leased, TypeOK, Request
<1>13. EventsOK'
  BY DEF EventsOK, Enqueue, Ev, WorkerEvents
<1> QED BY <1>7, <1>8, <1>9, <1>10, <1>12, <1>13

\* A row whose status alone changes keeps its type and its other fields
LEMMA StatusChange ==
  ASSUME NEW r \in Job, NEW s \in JobStatus
  PROVE  /\ [r EXCEPT !.status = s] \in Job
         /\ [r EXCEPT !.status = s].status = s
         /\ [r EXCEPT !.status = s].gen = r.gen
         /\ [r EXCEPT !.status = s].attempts = r.attempts
         /\ [r EXCEPT !.status = s].holder = r.holder
         /\ [r EXCEPT !.status = s].token = r.token
         /\ [r EXCEPT !.status = s].lease = r.lease
         /\ [r EXCEPT !.status = s].last = r.last
BY DEF Job

\* A queued row retired without ever being leased again
LEMMA RetireInv ==
  ASSUME IInv,
         NEW Q, NEW C, Q \subseteq Tasks, C \subseteq Tasks,
         \A t \in Q \cup C : job[t].status = "queued",
         job' = [t \in Tasks |-> RetiredJob(t, Q, C)],
         task' = [t \in Tasks |-> RetiredTask(t, Q, C)],
         Enqueue(RetirementEvents(Q, C)),
         UNCHANGED <<proofs, online, policy, stale, req>>
  PROVE IInv'
<1> USE DEF IInv
<1>1. \A t \in Tasks :
        /\ job'[t].gen = job[t].gen /\ job'[t].attempts = job[t].attempts
        /\ job'[t].holder = job[t].holder /\ job'[t].token = job[t].token
        /\ job'[t].lease = job[t].lease /\ job'[t].last = job[t].last
        /\ job'[t].status =
             (IF t \in Q THEN "quarantined" ELSE IF t \in C THEN "cancelled" ELSE job[t].status)
        /\ job'[t] \in Job
  <2> SUFFICES ASSUME NEW t \in Tasks
      PROVE  /\ job'[t].gen = job[t].gen /\ job'[t].attempts = job[t].attempts
             /\ job'[t].holder = job[t].holder /\ job'[t].token = job[t].token
             /\ job'[t].lease = job[t].lease /\ job'[t].last = job[t].last
             /\ job'[t].status = (IF t \in Q THEN "quarantined"
                                  ELSE IF t \in C THEN "cancelled" ELSE job[t].status)
             /\ job'[t] \in Job
    OBVIOUS
  <2>1. job[t] \in Job /\ job'[t] = RetiredJob(t, Q, C)
    BY DEF TypeOK
  <2>2. "quarantined" \in JobStatus /\ "cancelled" \in JobStatus
    BY DEF JobStatus, TerminalJob
  <2> HIDE DEF IInv
  <2> QED BY <2>1, <2>2, StatusChange DEF RetiredJob
<1>2. \A t \in Tasks \ (Q \cup C) : job'[t] = job[t] /\ task'[t] = task[t]
  BY DEF RetiredJob, RetiredTask
<1>3. \A t \in Tasks : task'[t] =
        (IF t \in Q THEN "failed" ELSE IF t \in C THEN "cancelled" ELSE task[t])
  <2> SUFFICES ASSUME NEW t \in Tasks, t \in Q PROVE task[t] = "queued"
    BY DEF RetiredTask
  <2> QED BY DEF JobTaskCoherent, JobTaskOK
<1>4. TypeOK'
  <2>1. events' \in SUBSET Event
    BY DEF Enqueue, Ev, TypeOK, Event, EventKind, RetirementEvents, QuarantineEvents
  <2>2. job' \in [Tasks -> Job] /\ task' \in [Tasks -> TaskStatus]
    BY <1>1, <1>3 DEF TypeOK, TaskStatus
  <2> QED BY <1>1, <2>1, <2>2 DEF TypeOK, MaxAttempts
<1>5. JobTaskCoherent'
  <2> SUFFICES ASSUME NEW t \in Tasks
      PROVE JobTaskOK(t)'
    BY DEF JobTaskCoherent, JobTaskOK
  <2>1. CASE t \in Q \cup C
    BY <2>1, <1>1, <1>3 DEF JobTaskOK, LeasedJob
  <2>2. CASE t \notin Q \cup C
    BY <2>2, <1>2 DEF JobTaskCoherent, JobTaskOK
  <2> QED BY <2>1, <2>2
<1>6. RowsOK'
  <2> SUFFICES ASSUME NEW t \in Tasks PROVE RowOK(t)'
    BY DEF RowsOK
  <2>1. CASE t \notin Q \cup C
    BY <2>1, <1>2 DEF RowsOK, RowOK, MaxAttempts
  <2>2. CASE t \in Q \cup C
    BY <2>2, <1>1 DEF RowsOK, RowOK, MaxAttempts, Waiting, LeasedJob, TypeOK, Job
  <2> QED BY <2>1, <2>2
<1>7. ProofsOK'
  BY <1>1 DEF ProofsOK, Leased, LeasedJob, TypeOK, Proof
<1>8. RequestsOK' /\ OpenRequestHasLease'
  <2> SUFFICES ASSUME NEW r \in Requests, req[r].state # "none"
      PROVE req[r].task \in Tasks \ (Q \cup C)
    BY <1>2 DEF RequestsOK, OpenRequestHasLease, Leased, TypeOK, Request
  <2> QED BY DEF RequestsOK, Waiting
<1>9. EventsOK'
  BY DEF EventsOK, Enqueue, Ev, WorkerEvents, RetirementEvents, QuarantineEvents
<1> QED BY <1>4, <1>5, <1>6, <1>7, <1>8, <1>9

LEMMA QuarantineInv == IInv /\ QuarantineRevoked => IInv'
<1> SUFFICES ASSUME IInv, QuarantineRevoked PROVE IInv'
  OBVIOUS
<1>1. PICK Q \in QuarantineBatches(QuarantineBatchSize) \ {{}} :
        /\ job' = [t \in Tasks |-> IF t \in Q THEN [job[t] EXCEPT !.status = "quarantined"]
                                             ELSE job[t]]
        /\ task' = [t \in Tasks |-> IF t \in Q /\ task[t] = "queued" THEN "failed"
                                                                ELSE task[t]]
        /\ Enqueue(QuarantineEvents(Q))
        /\ UNCHANGED <<proofs, online, policy, stale, req>>
  BY DEF QuarantineRevoked
<1>2. Q \subseteq Tasks /\ \A t \in Q : job[t].status = "queued"
  BY DEF QuarantineBatches, DeniedQueued
<1>3. /\ job' = [t \in Tasks |-> RetiredJob(t, Q, {})]
      /\ task' = [t \in Tasks |-> RetiredTask(t, Q, {})]
  BY <1>1 DEF RetiredJob, RetiredTask
<1>4. RetirementEvents(Q, {}) = QuarantineEvents(Q)
  BY DEF RetirementEvents
<1> QED BY <1>1, <1>2, <1>3, <1>4, RetireInv

LEMMA StaleGoalInv == IInv /\ CancelStaleGoalJobs => IInv'
<1> SUFFICES ASSUME IInv, CancelStaleGoalJobs PROVE IInv'
  OBVIOUS
<1>1. PICK C \in (SUBSET {t \in stale \ NativeTasks : job[t].status = "queued"}) \ {{}} :
        /\ job' = [t \in Tasks |-> RetiredJob(t, {}, C)]
        /\ task' = [t \in Tasks |-> RetiredTask(t, {}, C)]
        /\ Enqueue(RetirementEvents({}, C))
        /\ UNCHANGED <<proofs, online, policy, stale, req>>
  BY DEF CancelStaleGoalJobs
<1>2. C \subseteq Tasks /\ \A t \in C : job[t].status = "queued"
  BY DEF IInv, TypeOK
<1> QED BY <1>1, <1>2, RetireInv

LEMMA ClaimNothingInv ==
  ASSUME IInv, NEW w \in Workers, ClaimNothing(w)
  PROVE IInv'
<1>1. PICK Q \in QuarantineBatches(ClaimQuarantineBatch),
           C \in SUBSET (Candidates(w) \cap stale) :
        /\ job' = [t \in Tasks |-> RetiredJob(t, Q, C)]
        /\ task' = [t \in Tasks |-> RetiredTask(t, Q, C)]
        /\ Enqueue(RetirementEvents(Q, C))
        /\ UNCHANGED <<proofs, online, policy, stale, req>>
  BY DEF ClaimNothing
<1>2. /\ Q \subseteq Tasks /\ C \subseteq Tasks
      /\ \A t \in Q \cup C : job[t].status = "queued"
  BY DEF QuarantineBatches, DeniedQueued, Candidates
<1> QED BY <1>1, <1>2, RetireInv
---------------------------------------------------------------------------
(* Steps on a leased job *)

LEMMA LeasedFacts ==
  ASSUME IInv, NEW t \in Tasks, Leased(t)
  PROVE /\ task[t] = "running"
        /\ job[t].status \notin Waiting \cup TerminalJob
        /\ job[t].holder \in Workers
        /\ job[t].token = job[t].attempts /\ job[t].gen = job[t].attempts
        /\ [task |-> t, token |-> job[t].token, gen |-> job[t].gen] \in proofs[job[t].holder]
<1>1. job[t].status \in LeasedJob
  BY DEF Leased
<1>2. job[t].status \notin Waiting \cup TerminalJob
  BY <1>1 DEF LeasedJob, Waiting, TerminalJob
<1>3. JobTaskOK(t) /\ RowOK(t)
  BY DEF IInv, JobTaskCoherent, RowsOK
<1>4. task[t] = "running"
  BY <1>1, <1>3 DEF JobTaskOK
<1>5. job[t].token = job[t].attempts /\ job[t].gen = job[t].attempts
  BY <1>1, <1>3 DEF RowOK
<1> QED BY <1>2, <1>4, <1>5 DEF IInv, ProofsOK

\* The table after a call of its worker moved the status and the lease of a row
RowMoved(t, s, l) == [job EXCEPT ![t].status = s, ![t].lease = l]

\* A leased row whose status and lease alone change
LEMMA LeaseChange ==
  ASSUME NEW r \in Job, NEW s \in JobStatus, NEW l \in 0..LeaseTTL
  PROVE  /\ [r EXCEPT !.status = s, !.lease = l] \in Job
         /\ [r EXCEPT !.status = s, !.lease = l].status = s
         /\ [r EXCEPT !.status = s, !.lease = l].gen = r.gen
         /\ [r EXCEPT !.status = s, !.lease = l].attempts = r.attempts
         /\ [r EXCEPT !.status = s, !.lease = l].holder = r.holder
         /\ [r EXCEPT !.status = s, !.lease = l].token = r.token
BY DEF Job

\* The lease columns stay, the status moves on: heartbeat and submit_result.
LEMMA FinishInv ==
  ASSUME IInv, NEW t \in Tasks, Leased(t),
         NEW s \in LeasedJob \cup {"completed", "failed", "cancelled"},
         NEW l \in 0..LeaseTTL, NEW e \in Event,
         IF s \in LeasedJob THEN task' = task ELSE task' = [task EXCEPT ![t] = s],
         job' = RowMoved(t, s, l),
         s \notin LeasedJob => OpenRequestsOf(t) = {} \/ (t \in NativeTasks /\ s = "cancelled"),
         Enqueue({e}),
         IF e.kind \in WorkerEvents
           THEN e.agent = job[t].holder /\ e.task = t /\ e.n = job[t].gen
           ELSE e.agent = NoWorker,
         UNCHANGED <<proofs, online, policy, stale, req>>
  PROVE IInv'
<1> USE DEF IInv
<1>1. /\ task[t] = "running" /\ job[t].status \notin Waiting
      /\ job[t].holder \in Workers
      /\ job[t].token = job[t].attempts /\ job[t].gen = job[t].attempts
      /\ [task |-> t, token |-> job[t].token, gen |-> job[t].gen] \in proofs[job[t].holder]
  BY LeasedFacts
<1>2. \A u \in Tasks \ {t} : job'[u] = job[u] /\ task'[u] = task[u]
  BY DEF TypeOK, RowMoved
<1>3. /\ job'[t].gen = job[t].gen /\ job'[t].attempts = job[t].attempts
      /\ job'[t].holder = job[t].holder /\ job'[t].token = job[t].token
      /\ job'[t].status = s /\ job'[t] \in Job
  <2>1. job[t] \in Job /\ job'[t] = [job[t] EXCEPT !.status = s, !.lease = l]
    BY DEF TypeOK, RowMoved
  <2>2. s \in JobStatus
    BY DEF JobStatus, TerminalJob, LeasedJob
  <2> HIDE DEF IInv
  <2>3. /\ job'[t].gen = job[t].gen /\ job'[t].attempts = job[t].attempts
        /\ job'[t].holder = job[t].holder /\ job'[t].token = job[t].token
        /\ job'[t].status = s
    BY <2>1, SMT DEF Job
  <2>4. DEFINE r == job[t]
  <2>5. [r EXCEPT !.status = s, !.lease = l] \in Job
    <3> HIDE DEF r
    <3>1. r \in Job
      BY <2>1 DEF r
    <3> QED BY <2>2, <3>1, LeaseChange, Zenon
  <2> QED BY <2>1, <2>3, <2>5, Zenon
<1>4. s \notin Waiting /\ s # "quarantined"
  BY DEF Waiting, LeasedJob
<1>5. task'[t] = (IF s \in LeasedJob THEN "running" ELSE s)
  BY <1>1 DEF TypeOK
<1>6. TypeOK'
  <2>1. job' \in [Tasks -> Job]
    BY <1>2, <1>3 DEF TypeOK, RowMoved
  <2>2. task' \in [Tasks -> TaskStatus]
    BY <1>5 DEF TypeOK, TaskStatus
  <2> QED BY <1>2, <1>3, <2>1, <2>2 DEF TypeOK, MaxAttempts, Enqueue
<1>7. JobTaskCoherent'
  <2> SUFFICES ASSUME NEW u \in Tasks PROVE JobTaskOK(u)'
    BY DEF JobTaskCoherent
  <2>1. CASE u = t
    BY <2>1, <1>3, <1>4, <1>5 DEF JobTaskOK, Waiting, LeasedJob
  <2>2. CASE u # t
    BY <2>2, <1>2 DEF JobTaskCoherent, JobTaskOK
  <2> QED BY <2>1, <2>2
<1>8. RowsOK'
  <2> SUFFICES ASSUME NEW u \in Tasks PROVE RowOK(u)'
    BY DEF RowsOK
  <2>1. CASE u = t
    <3>1. RowOK(t)
      BY DEF RowsOK
    <3>2. /\ s \notin {"none", "queued"}
          /\ job[t].status \notin {"none", "queued"}
      BY <1>1, <1>4 DEF Waiting
    <3> HIDE DEF IInv
    <3>3. /\ job[t].token \in {0, job[t].attempts}
          /\ SkillOf[t] \notin RetrySafe => job[t].attempts <= 1
      BY <3>1, <3>2 DEF RowOK
    <3> QED BY <2>1, <3>2, <3>3, <1>1, <1>3, <1>4 DEF RowOK
  <2>2. CASE u # t
    BY <2>2, <1>2 DEF RowsOK, RowOK, MaxAttempts
  <2> QED BY <2>1, <2>2
<1>9. ProofsOK'
  BY <1>2, <1>3 DEF ProofsOK, Leased, TypeOK, Proof
<1>10. RequestsOK'
  <2> SUFFICES ASSUME NEW r \in Requests, req[r].state # "none"
      PROVE /\ req[r].task \in Tasks
            /\ job'[req[r].task].status \notin Waiting
            /\ job'[req[r].task].attempts = req[r].gen
    BY DEF RequestsOK, Waiting
  <2>1. CASE req[r].task = t
    BY <2>1, <1>3, <1>4 DEF RequestsOK
  <2>2. CASE req[r].task # t
    BY <2>2, <1>2 DEF RequestsOK
  <2> QED BY <2>1, <2>2
<1>11. OpenRequestHasLease'
  <2> SUFFICES ASSUME NEW r \in Requests, req[r].state = "open"
      PROVE LET u == req[r].task IN
              /\ job'[u].gen = req[r].gen
              /\ Leased(u)' \/ (u \in NativeTasks /\ job'[u].status = "cancelled")
    BY DEF OpenRequestHasLease
  <2>1. req[r].task \in Tasks
    BY DEF RequestsOK
  <2>2. CASE req[r].task = t
    BY <2>2, <1>3 DEF OpenRequestHasLease, OpenRequestsOf, RequestsOf, Leased
  <2>3. CASE req[r].task # t
    BY <2>1, <2>3, <1>2 DEF OpenRequestHasLease, Leased
  <2> QED BY <2>2, <2>3
<1>12. EventsOK'
  BY <1>1 DEF EventsOK, Enqueue
<1> QED BY <1>6, <1>7, <1>8, <1>9, <1>10, <1>11, <1>12

LEMMA LeasedNativeInv ==
  ASSUME IInv, NEW t \in Tasks, Leased(t), t \in NativeTasks, RevokeNative(t),
         UNCHANGED <<proofs, online, policy, stale, req>>
  PROVE IInv'
<1>1. task[t] = "running" /\ job[t].lease \in 0..LeaseTTL
  BY LeasedFacts DEF IInv, TypeOK, Job
<1>2. Ev(t, "swift-revoked", 0, NoWorker) \in Event
  BY DEF Ev, Event, EventKind
<1>3. /\ job' = [job EXCEPT ![t].status = "cancelled", ![t].lease = job[t].lease]
      /\ task' = [task EXCEPT ![t] = "cancelled"]
      /\ Enqueue({Ev(t, "swift-revoked", 0, NoWorker)})
  BY <1>1 DEF RevokeNative, TerminalTask, IInv, TypeOK, Job
<1> QED BY <1>1, <1>2, <1>3, FinishInv DEF RowMoved, Ev, WorkerEvents, LeasedJob

LEMMA CancelNativeInv ==
  ASSUME IInv, NEW t \in Tasks, CancelNative(t)
  PROVE IInv'
<1> USE DEF CancelNative
<1>1. CASE Leased(t)
  BY <1>1, LeasedNativeInv
<1>2. CASE job[t].status = "queued"
  <2>1. task[t] = "queued"
    BY <1>2 DEF IInv, JobTaskCoherent, JobTaskOK
  <2>2. job' = [u \in Tasks |-> RetiredJob(u, {}, {t})]
    BY DEF RevokeNative, RetiredJob, IInv, TypeOK
  <2>3. task' = [u \in Tasks |-> RetiredTask(u, {}, {t})]
    BY <2>1 DEF RevokeNative, RetiredTask, TerminalTask, IInv, TypeOK
  <2>4. RetirementEvents({}, {t}) = {Ev(t, "swift-revoked", 0, NoWorker)}
    BY DEF RetirementEvents, QuarantineEvents
  <2>5. /\ {t} \subseteq Tasks /\ \A u \in {} \cup {t} : job[u].status = "queued"
        /\ Enqueue(RetirementEvents({}, {t}))
        /\ UNCHANGED <<proofs, online, policy, stale, req>>
    BY <1>2, <2>4 DEF RevokeNative
  <2> QED BY <2>2, <2>3, <2>5, RetireInv
<1> QED BY <1>1, <1>2 DEF Leased

LEMMA HeartbeatInv ==
  ASSUME IInv, NEW w \in Workers, NEW p \in proofs[w], Heartbeat(w, p)
  PROVE IInv'
<1> DEFINE t == p.task
<1>1. t \in Tasks /\ Leased(t) /\ job[t].holder = w
  BY DEF IInv, TypeOK, Proof, Heartbeat, HoldsLease, LeaseMatches
<1>2. task[t] = "running" /\ job[t].lease \in 0..LeaseTTL /\ job[t].gen \in Nat
  BY <1>1, LeasedFacts DEF IInv, TypeOK, Job
<1>3. CASE t \in NativeTasks \cap stale
  BY <1>1, <1>3, LeasedNativeInv DEF Heartbeat
<1>4. CASE t \notin NativeTasks \cap stale
  <2>1. Ev(t, "heartbeat", job[t].gen, w) \in Event
    BY <1>1, <1>2 DEF Ev, Event, EventKind
  <2>2. LeaseTTL \in 0..LeaseTTL
    BY JobsAssumption
  <2> QED BY <1>1, <1>4, <2>1, <2>2, FinishInv
          DEF RowMoved, Heartbeat, Ev, WorkerEvents, LeasedJob
<1> QED BY <1>3, <1>4

LEMMA SubmitResultInv ==
  ASSUME IInv, NEW w \in Workers, NEW p \in proofs[w],
         NEW outcome \in {"completed", "failed"}, SubmitResult(w, p, outcome)
  PROVE IInv'
<1> DEFINE t == p.task
<1>1. t \in Tasks /\ Leased(t) /\ job[t].holder = w
  BY DEF IInv, TypeOK, Proof, SubmitResult, HoldsActiveLease, HoldsLease, LeaseMatches
<1>2. job[t].lease \in 0..LeaseTTL /\ job[t].gen \in Nat
  BY <1>1 DEF IInv, TypeOK, Job
<1>3. /\ OpenRequestsOf(t) = {}
      /\ UNCHANGED <<proofs, online, policy, stale, req>>
  BY DEF SubmitResult
<1>4. CASE t \in stale
  <2>1. Ev(t, "context-cancelled", 0, NoWorker) \in Event
    BY <1>1 DEF Ev, Event, EventKind
  <2>2. /\ job' = [job EXCEPT ![t].status = "cancelled", ![t].lease = job[t].lease]
        /\ task' = [task EXCEPT ![t] = "cancelled"]
        /\ Enqueue({Ev(t, "context-cancelled", 0, NoWorker)})
    BY <1>1, <1>4 DEF SubmitResult, IInv, TypeOK, Job
  <2> QED BY <1>1, <1>2, <1>3, <2>1, <2>2, FinishInv DEF RowMoved, Ev, WorkerEvents, LeasedJob
<1>5. CASE t \notin stale
  <2>1. Ev(t, outcome, job[t].gen, w) \in Event
    BY <1>1, <1>2 DEF Ev, Event, EventKind
  <2>2. /\ job' = [job EXCEPT ![t].status = outcome, ![t].lease = job[t].lease]
        /\ task' = [task EXCEPT ![t] = outcome]
        /\ Enqueue({Ev(t, outcome, job[t].gen, w)})
    BY <1>1, <1>5 DEF SubmitResult, IInv, TypeOK, Job
  <2> QED BY <1>1, <1>2, <1>3, <2>1, <2>2, FinishInv DEF RowMoved, Ev, WorkerEvents, LeasedJob
<1> QED BY <1>4, <1>5

LEMMA TickInv == IInv /\ Tick => IInv'
<1> SUFFICES ASSUME IInv, Tick PROVE IInv'
  OBVIOUS
<1> USE DEF IInv, Tick
<1>1. \A t \in Tasks :
        /\ job'[t].gen = job[t].gen /\ job'[t].attempts = job[t].attempts
        /\ job'[t].holder = job[t].holder /\ job'[t].token = job[t].token
        /\ job'[t].status = job[t].status
        /\ job[t] = NoJob => job'[t] = NoJob
        /\ job'[t] \in Job
  <2> SUFFICES ASSUME NEW t \in Tasks
      PROVE /\ job'[t].gen = job[t].gen /\ job'[t].attempts = job[t].attempts
            /\ job'[t].holder = job[t].holder /\ job'[t].token = job[t].token
            /\ job'[t].status = job[t].status
            /\ job[t] = NoJob => job'[t] = NoJob
            /\ job'[t] \in Job
    OBVIOUS
  <2> DEFINE l == IF job[t].lease > 0 THEN job[t].lease - 1 ELSE 0
  <2>1. job[t] \in Job /\ job'[t] = [job[t] EXCEPT !.lease = l]
    BY DEF TypeOK
  <2>2. l \in 0..LeaseTTL
    BY <2>1, JobsAssumption DEF Job
  <2>3. job[t] = NoJob => job'[t] = NoJob
    BY <2>1 DEF NoJob
  <2> HIDE DEF l
  <2> QED BY <2>1, <2>2, <2>3 DEF Job
<1>2. TypeOK'
  BY <1>1 DEF TypeOK, MaxAttempts
<1>3. JobTaskCoherent' /\ ProofsOK' /\ RequestsOK' /\ EventsOK'
  BY <1>1 DEF JobTaskCoherent, JobTaskOK, ProofsOK, Leased, RequestsOK, EventsOK, TypeOK, Proof
<1>4. RowsOK'
  BY <1>1 DEF RowsOK, RowOK, MaxAttempts
<1>5. OpenRequestHasLease'
  BY <1>1 DEF OpenRequestHasLease, Leased, RequestsOK
<1> QED BY <1>2, <1>3, <1>4, <1>5
---------------------------------------------------------------------------
(* Steps that revoke leases *)

\* What _reap_row_locked makes of an expired lease
LEMMA ReapedFacts ==
  ASSUME IInv, NEW t \in Tasks, Leased(t)
  PROVE /\ ReapOutcome(t) \in {"requeued", "quarantined", "dead_lettered"}
        /\ ReapOutcome(t) = "requeued" => Retryable(t)
        /\ ReapedTask(t) = (IF ReapOutcome(t) = "requeued" THEN "queued" ELSE "failed")
        /\ ReapedJob(t) \in Job
        /\ ReapedJob(t).status = (CASE ReapOutcome(t) = "requeued" -> "queued"
                                    [] ReapOutcome(t) = "quarantined" -> "quarantined"
                                    [] OTHER -> "failed")
        /\ ReapedJob(t).gen =
             job[t].gen + (IF ReapOutcome(t) = "requeued" THEN 0 ELSE 1)
        /\ ReapedJob(t).attempts = job[t].attempts
        /\ ReapedJob(t).holder = NoWorker /\ ReapedJob(t).token = 0
<1>1. task[t] = "running" /\ job[t] \in Job
  BY LeasedFacts DEF IInv, TypeOK
<1>2. /\ ReapOutcome(t) \in {"requeued", "quarantined", "dead_lettered"}
      /\ ReapOutcome(t) = "requeued" => Retryable(t)
  BY <1>1 DEF ReapOutcome, TerminalTask
<1>3. ReapedTask(t) = (IF ReapOutcome(t) = "requeued" THEN "queued" ELSE "failed")
  BY <1>1, <1>2 DEF ReapedTask
<1>4. ReapedJob(t) \in Job
  BY <1>1, ReapedType
<1>5. /\ ReapedJob(t).status = ReapedStatus(t)
      /\ ReapedJob(t).gen =
           job[t].gen + (IF ReapOutcome(t) = "requeued" THEN 0 ELSE 1)
      /\ ReapedJob(t).attempts = job[t].attempts
      /\ ReapedJob(t).holder = NoWorker /\ ReapedJob(t).token = 0
  BY <1>1 DEF ReapedJob, Revoked, Job
<1>6. ReapedStatus(t) = (CASE ReapOutcome(t) = "requeued" -> "queued"
                           [] ReapOutcome(t) = "quarantined" -> "quarantined"
                           [] OTHER -> "failed")
  BY <1>2 DEF ReapedStatus
<1> QED BY <1>2, <1>3, <1>4, <1>5, <1>6

LEMMA ReapInv == IInv /\ Reap => IInv'
<1> SUFFICES ASSUME IInv, Reap PROVE IInv'
  OBVIOUS
<1> USE DEF IInv
<1>1. PICK S \in (SUBSET ExpiredLeases) \ {{}} :
        /\ job' = [t \in Tasks |-> IF t \in S THEN ReapedJob(t) ELSE job[t]]
        /\ task' = [t \in Tasks |-> IF t \in S THEN ReapedTask(t) ELSE task[t]]
        /\ CloseRequests(S)
        /\ Enqueue({Ev(t, "lease-expired", job[t].gen, job[t].holder) : t \in S} \cup
                   {Ev(t, ReapOutcome(t), job[t].gen, NoWorker) : t \in S})
        /\ UNCHANGED <<proofs, online, policy, stale>>
  BY DEF Reap, ReapRows
<1>2. \A t \in S : t \in Tasks /\ Leased(t)
  BY DEF ExpiredLeases
<1>3. \A t \in Tasks \ S : job'[t] = job[t] /\ task'[t] = task[t]
  BY <1>1
<1>4. \A t \in S : /\ job'[t] = ReapedJob(t) /\ task'[t] = ReapedTask(t)
                   /\ job[t] \in Job
  BY <1>1, <1>2 DEF TypeOK
<1>5. \A r \in Requests : /\ req'[r].task = req[r].task /\ req'[r].gen = req[r].gen
                          /\ req'[r].state = "open" => req[r].state = "open"
                          /\ req'[r].state # "none" <=> req[r].state # "none"
                          /\ req'[r] \in Request
  BY <1>1 DEF CloseRequests, TypeOK, Request, OpenRequestsOf
<1>6. TypeOK'
  <2>1. job' \in [Tasks -> Job] /\ task' \in [Tasks -> TaskStatus]
    BY <1>1, <1>2, ReapedFacts DEF TypeOK, TaskStatus
  <2>2. \A t \in Tasks : job'[t].attempts <= MaxAttempts(t)
    BY <1>2, <1>3, <1>4, ReapedFacts DEF TypeOK
  <2>3. req' \in [Requests -> Request]
    BY <1>1, <1>5 DEF CloseRequests
  <2>4. \A t \in S : /\ Ev(t, "lease-expired", job[t].gen, job[t].holder) \in Event
                     /\ Ev(t, ReapOutcome(t), job[t].gen, NoWorker) \in Event
    BY <1>2, <1>4, ReapedFacts, LeasedFacts DEF Ev, Event, EventKind, Job
  <2>5. events' \in SUBSET Event
    BY <1>1, <2>4 DEF Enqueue, TypeOK
  <2> QED BY <1>1, <2>1, <2>2, <2>3, <2>5 DEF TypeOK, MaxAttempts
<1>7. JobTaskCoherent'
  <2> SUFFICES ASSUME NEW t \in Tasks PROVE JobTaskOK(t)'
    BY DEF JobTaskCoherent
  <2>1. CASE t \in S
    BY <2>1, <1>2, <1>4, ReapedFacts DEF JobTaskOK, LeasedJob
  <2>2. CASE t \notin S
    BY <2>2, <1>3 DEF JobTaskCoherent, JobTaskOK
  <2> QED BY <2>1, <2>2
<1>8. RowsOK'
  <2> SUFFICES ASSUME NEW t \in Tasks PROVE RowOK(t)'
    BY DEF RowsOK
  <2>1. CASE t \in S
    <3>1. Leased(t) /\ job[t].gen = job[t].attempts /\ job[t] \in Job /\ RowOK(t)
      BY <2>1, <1>2, <1>4, LeasedFacts DEF RowsOK
    <3>2. CASE ReapOutcome(t) = "requeued"
      <4>1. Retryable(t) /\ job'[t].status = "queued" /\ job'[t].gen = job[t].gen
        BY <3>1, <3>2, <2>1, <1>4, ReapedFacts DEF Job
      <4>2. /\ job'[t].attempts = job[t].attempts
            /\ job'[t].holder = NoWorker /\ job'[t].token = 0
        BY <3>1, <2>1, <1>4, ReapedFacts
      <4> QED BY <3>1, <4>1, <4>2 DEF RowOK, Retryable, MaxAttempts, LeasedJob, IInv, TypeOK, Policies
    <3>3. CASE ReapOutcome(t) # "requeued"
      <4>1. job'[t].status \in {"quarantined", "failed"}
        BY <3>1, <3>3, <2>1, <1>4, ReapedFacts
      <4>2. job'[t].attempts = job[t].attempts /\ job'[t].token = 0
        BY <3>1, <2>1, <1>4, ReapedFacts
      <4>3. SkillOf[t] \notin RetrySafe => job[t].attempts <= 1
        BY <3>1 DEF RowOK, Leased, LeasedJob, Job
      <4> QED BY <4>1, <4>2, <4>3 DEF RowOK, Waiting, LeasedJob
    <3> QED BY <3>2, <3>3
  <2>2. CASE t \notin S
    BY <2>2, <1>3 DEF RowsOK, RowOK, MaxAttempts
  <2> QED BY <2>1, <2>2
<1>9. ProofsOK'
  <2>1. \A t \in Tasks : job'[t].attempts = job[t].attempts
    BY <1>2, <1>3, <1>4, ReapedFacts
  <2>2. \A t \in Tasks : Leased(t)' => t \notin S
    BY <1>2, <1>4, ReapedFacts DEF Leased, LeasedJob
  <2> QED BY <1>1, <1>3, <2>1, <2>2 DEF ProofsOK, Leased, TypeOK, Proof
<1>10. RequestsOK'
  <2> SUFFICES ASSUME NEW r \in Requests, req[r].state # "none"
      PROVE /\ req[r].task \in Tasks
            /\ job'[req[r].task].status \notin Waiting
            /\ job'[req[r].task].attempts = req[r].gen
    BY <1>5 DEF RequestsOK, Waiting
  <2>1. CASE req[r].task \in S
    <3> DEFINE t == req[r].task
    <3>1. t \in Tasks /\ Leased(t) /\ job[t].attempts = req[r].gen
      BY <2>1, <1>2 DEF RequestsOK
    <3>2. r \in RequestsOf(t)
      BY <3>1, LeasedFacts DEF RequestsOf
    <3>3. ReapOutcome(t) # "requeued"
      BY <3>1, <3>2, ReapedFacts DEF Retryable
    <3> QED BY <2>1, <3>1, <3>3, <1>4, ReapedFacts DEF Waiting
  <2>2. CASE req[r].task \notin S
    BY <2>2, <1>3 DEF RequestsOK
  <2> QED BY <2>1, <2>2
<1>11. OpenRequestHasLease'
  <2> SUFFICES ASSUME NEW r \in Requests, req'[r].state = "open"
      PROVE req[r].task \in Tasks \ S
    BY <1>3, <1>5 DEF OpenRequestHasLease, Leased
  <2>1. req[r].task \in Tasks /\ req[r].state = "open"
    BY <1>5 DEF RequestsOK
  <2>2. ASSUME req[r].task \in S PROVE FALSE
    <3>1. r \in OpenRequestsOf(req[r].task)
      BY <2>1 DEF OpenRequestHasLease, OpenRequestsOf, RequestsOf
    <3> QED BY <1>1, <2>1, <2>2, <3>1 DEF CloseRequests, TypeOK, Request
  <2> QED BY <2>1, <2>2
<1>12. EventsOK'
  <2>1. \A t \in S : ReapOutcome(t) \notin WorkerEvents
    BY <1>2, ReapedFacts DEF WorkerEvents
  <2>2. \A t \in S : /\ job[t].holder \in Workers
                     /\ \E p \in proofs[job[t].holder] : p.task = t /\ p.gen = job[t].gen
    BY <1>2, LeasedFacts
  <2> QED BY <1>1, <2>1, <2>2 DEF EventsOK, Enqueue, Ev, WorkerEvents
<1> QED BY <1>6, <1>7, <1>8, <1>9, <1>10, <1>11, <1>12
LEMMA CancelTaskInv ==
  ASSUME IInv, NEW t \in Tasks, CancelTask(t)
  PROVE IInv'
<1> USE DEF IInv, CancelTask, Cancellable, CancelRows
<1>1. task' = [task EXCEPT ![t] = "cancelled"] /\ proofs' = proofs
  OBVIOUS
<1>2. CASE ~ActiveJob(t)
  <2>1. job[t].status = "none"
    BY <1>2 DEF ActiveJob, JobTaskCoherent, JobTaskOK, TypeOK, Job, JobStatus, TerminalJob
  <2>2. UNCHANGED <<job, proofs, online, policy, stale, req, events>>
    BY <1>2
  <2>3. TypeOK'
    BY <1>1, <2>2 DEF TypeOK, TaskStatus, MaxAttempts
  <2>4. JobTaskCoherent'
    BY <1>1, <2>1, <2>2 DEF JobTaskCoherent, JobTaskOK, TypeOK, LeasedJob
  <2>5. RowsOK' /\ ProofsOK' /\ RequestsOK' /\ OpenRequestHasLease' /\ EventsOK'
    BY <2>2 DEF RowsOK, RowOK, MaxAttempts, ProofsOK, RequestsOK,
                OpenRequestHasLease, Leased, EventsOK
  <2> QED BY <2>3, <2>4, <2>5
<1>3. CASE ActiveJob(t)
  <2>1. /\ job' = [job EXCEPT ![t] = Revoked(job[t], "cancelled", 1)]
        /\ CloseRequests({t})
        /\ Enqueue({Ev(t, "cancelled", job[t].gen + 1, NoWorker)})
        /\ UNCHANGED <<proofs, online, policy, stale>>
    BY <1>3 DEF TypeOK
  <2>2. /\ job'[t] \in Job /\ job[t].gen + 1 \in Nat
        /\ job'[t].status = "cancelled" /\ job'[t].attempts = job[t].attempts
        /\ job'[t].holder = NoWorker /\ job'[t].token = 0
    <3>1. job[t] \in Job /\ job'[t] = Revoked(job[t], "cancelled", 1)
      BY <2>1 DEF TypeOK
    <3>2. job'[t] \in Job
      BY <3>1, RevokedType DEF JobStatus, TerminalJob
    <3> QED BY <3>1, <3>2 DEF Job, Revoked
  <2>3. \A u \in Tasks \ {t} : job'[u] = job[u] /\ task'[u] = task[u]
    BY <1>1, <2>1 DEF TypeOK
  <2>4. \A r \in Requests :
          /\ req'[r].task = req[r].task /\ req'[r].gen = req[r].gen
          /\ req'[r].state = "open" => req[r].state = "open"
          /\ req'[r].state # "none" <=> req[r].state # "none"
          /\ req'[r] \in Request
    BY <2>1 DEF CloseRequests, TypeOK, Request, OpenRequestsOf
  <2>5. TypeOK'
    <3>1. Ev(t, "cancelled", job[t].gen + 1, NoWorker) \in Event
      BY <2>2 DEF Ev, Event, EventKind
    <3>2. req' \in [Requests -> Request]
      BY <2>1, <2>4 DEF CloseRequests
    <3>3. job' \in [Tasks -> Job] /\ task' \in [Tasks -> TaskStatus]
      BY <1>1, <2>1, <2>2 DEF TypeOK, TaskStatus
    <3> QED BY <2>1, <2>2, <2>3, <3>1, <3>2, <3>3 DEF TypeOK, MaxAttempts, Enqueue
  <2>6. JobTaskCoherent'
    <3> SUFFICES ASSUME NEW u \in Tasks PROVE JobTaskOK(u)'
      BY DEF JobTaskCoherent
    <3>1. CASE u = t
      BY <3>1, <1>1, <2>2 DEF JobTaskOK, LeasedJob, TypeOK
    <3>2. CASE u # t
      BY <3>2, <2>3 DEF JobTaskCoherent, JobTaskOK
    <3> QED BY <3>1, <3>2
  <2>7. RowsOK'
    <3> SUFFICES ASSUME NEW u \in Tasks PROVE RowOK(u)'
      BY DEF RowsOK
    <3>1. CASE u = t
      <4>1. SkillOf[t] \notin RetrySafe => job[t].attempts <= 1
        BY <1>3 DEF RowsOK, RowOK, ActiveJob, LeasedJob, TypeOK, Job
      <4> QED BY <3>1, <4>1, <2>2 DEF RowOK, Waiting, LeasedJob
    <3>2. CASE u # t
      BY <3>2, <2>3 DEF RowsOK, RowOK, MaxAttempts
    <3> QED BY <3>1, <3>2
  <2>8. ProofsOK'
    <3>1. \A u \in Tasks : job'[u].attempts = job[u].attempts
      BY <2>2, <2>3
    <3>2. ~Leased(t)'
      BY <2>2 DEF Leased, LeasedJob
    <3> QED BY <1>1, <2>3, <3>1, <3>2 DEF ProofsOK, Leased, TypeOK, Proof
  <2>9. RequestsOK'
    <3> SUFFICES ASSUME NEW r \in Requests, req[r].state # "none"
        PROVE /\ req[r].task \in Tasks
              /\ job'[req[r].task].status \notin Waiting
              /\ job'[req[r].task].attempts = req[r].gen
      BY <2>4 DEF RequestsOK, Waiting
    <3>1. CASE req[r].task = t
      BY <3>1, <2>2 DEF RequestsOK, Waiting
    <3>2. CASE req[r].task # t
      BY <3>2, <2>3 DEF RequestsOK
    <3> QED BY <3>1, <3>2
  <2>10. OpenRequestHasLease'
    <3> SUFFICES ASSUME NEW r \in Requests, req'[r].state = "open"
        PROVE req[r].task \in Tasks \ {t}
      BY <2>3, <2>4 DEF OpenRequestHasLease, Leased
    <3>1. req[r].task \in Tasks /\ req[r].state = "open"
      BY <2>4 DEF RequestsOK
    <3>2. ASSUME req[r].task = t PROVE FALSE
      <4>1. r \in OpenRequestsOf(t)
        BY <3>1, <3>2 DEF OpenRequestHasLease, OpenRequestsOf, RequestsOf
      <4> QED BY <2>1, <3>1, <4>1 DEF CloseRequests, TypeOK, Request
    <3> QED BY <3>1, <3>2
  <2>11. EventsOK'
    BY <2>1 DEF EventsOK, Enqueue, Ev, WorkerEvents
  <2> QED BY <2>5, <2>6, <2>7, <2>8, <2>9, <2>10, <2>11
<1> QED BY <1>2, <1>3

---------------------------------------------------------------------------
(* A claim: one job leased, others retired on the way *)

LEMMA ClaimInv ==
  ASSUME IInv, NEW w \in Workers, NEW t \in Tasks, Claim(w, t)
  PROVE IInv'
<1> USE DEF IInv
<1> DEFINE a == job[t].attempts
           new == [task |-> t, token |-> a + 1, gen |-> a + 1]
<1>1. PICK Q \in QuarantineBatches(ClaimQuarantineBatch),
           C \in SUBSET (Candidates(w) \cap stale) :
        /\ job' = [u \in Tasks |-> IF u = t THEN ClaimedJob(job[t], w)
                                            ELSE RetiredJob(u, Q, C)]
        /\ task' = [u \in Tasks |-> IF u = t THEN "running" ELSE RetiredTask(u, Q, C)]
        /\ proofs' = [proofs EXCEPT ![w] = @ \cup
              {[task |-> t, token |-> job'[t].token, gen |-> job'[t].gen]}]
        /\ Enqueue(RetirementEvents(Q, C) \cup {Ev(t, "claimed", job'[t].gen, w)})
        /\ UNCHANGED <<online, policy, stale, req>>
  BY DEF Claim
<1>2. /\ Q \subseteq Tasks /\ C \subseteq Tasks /\ t \notin Q \cup C
      /\ \A u \in Q \cup C : job[u].status = "queued" /\ task[u] = "queued"
      /\ job[t].status = "queued" /\ a < MaxAttempts(t)
  <2>1. policy.allow \cap policy.deny = {}
    BY DEF TypeOK, Policies
  <2> QED BY <2>1
          DEF QuarantineBatches, DeniedQueued, Candidates, Claim, JobTaskCoherent, JobTaskOK
<1>3. /\ a \in Nat /\ job[t].gen = a /\ job[t] \in Job /\ MaxAttempts(t) \in Nat
      /\ SkillOf[t] \notin RetrySafe => a = 0
  BY <1>2, MaxAttemptsType DEF TypeOK, Job, RowsOK, RowOK, Waiting
<1>4. /\ job'[t].status = "claimed" /\ job'[t].gen = a + 1 /\ job'[t].attempts = a + 1
      /\ job'[t].holder = w /\ job'[t].token = a + 1 /\ job'[t] \in Job
      /\ task'[t] = "running"
  BY <1>1, <1>3, ClaimedType DEF ClaimedJob, Job
<1>5. \A u \in (Q \cup C) :
        /\ job'[u].gen = job[u].gen /\ job'[u].attempts = job[u].attempts
        /\ job'[u].holder = job[u].holder /\ job'[u].token = job[u].token
        /\ job'[u].status = (IF u \in Q THEN "quarantined" ELSE "cancelled")
        /\ task'[u] = (IF u \in Q THEN "failed" ELSE "cancelled")
        /\ job'[u] \in Job
  <2> SUFFICES ASSUME NEW u \in (Q \cup C)
      PROVE  /\ job'[u].gen = job[u].gen /\ job'[u].attempts = job[u].attempts
             /\ job'[u].holder = job[u].holder /\ job'[u].token = job[u].token
             /\ job'[u].status = (IF u \in Q THEN "quarantined" ELSE "cancelled")
             /\ task'[u] = (IF u \in Q THEN "failed" ELSE "cancelled")
             /\ job'[u] \in Job
    OBVIOUS
  <2>1. u \in Tasks /\ u # t /\ task[u] = "queued"
    BY <1>2
  <2>2. job[u] \in Job
    BY <2>1 DEF TypeOK
  <2>3. job'[u] = RetiredJob(u, Q, C) /\ task'[u] = RetiredTask(u, Q, C)
    BY <1>1, <2>1
  <2>4. "quarantined" \in JobStatus /\ "cancelled" \in JobStatus
    BY DEF JobStatus, TerminalJob
  <2> HIDE DEF IInv
  <2>5. task'[u] = (IF u \in Q THEN "failed" ELSE "cancelled")
    BY <2>1, <2>3 DEF RetiredTask
  <2> QED BY <2>2, <2>3, <2>4, <2>5, StatusChange DEF RetiredJob
<1>6. \A u \in Tasks \ (Q \cup C \cup {t}) : job'[u] = job[u] /\ task'[u] = task[u]
  BY <1>1 DEF RetiredJob, RetiredTask
<1>7. proofs' = [proofs EXCEPT ![w] = @ \cup {new}]
  BY <1>1, <1>4
<1>8. new \in Proof
  BY <1>3 DEF Proof
<1>9. TypeOK'
  <2>1. job' \in [Tasks -> Job] /\ task' \in [Tasks -> TaskStatus]
    BY <1>1, <1>4, <1>5, <1>6 DEF TypeOK, TaskStatus
  <2>2. \A u \in Tasks : job'[u].attempts <= MaxAttempts(u)
    BY <1>2, <1>3, <1>4, <1>5, <1>6 DEF TypeOK
  <2>3. Ev(t, "claimed", job'[t].gen, w) \in Event
    BY <1>3, <1>4 DEF Ev, Event, EventKind
  <2>4. RetirementEvents(Q, C) \subseteq Event
    BY <1>2 DEF RetirementEvents, QuarantineEvents, Ev, Event, EventKind
  <2>5. proofs' \in [Workers -> SUBSET Proof]
    BY <1>7, <1>8 DEF TypeOK
  <2> QED BY <1>1, <2>1, <2>2, <2>3, <2>4, <2>5 DEF TypeOK, MaxAttempts, Enqueue
<1>10. JobTaskCoherent'
  <2> SUFFICES ASSUME NEW u \in Tasks PROVE JobTaskOK(u)'
    BY DEF JobTaskCoherent
  <2>1. CASE u = t
    BY <2>1, <1>4 DEF JobTaskOK
  <2>2. CASE u \in Q \cup C
    BY <2>2, <1>5 DEF JobTaskOK, LeasedJob
  <2>3. CASE u \notin Q \cup C \cup {t}
    BY <2>3, <1>6 DEF JobTaskCoherent, JobTaskOK
  <2> QED BY <2>1, <2>2, <2>3
<1>11. RowsOK'
  <2> SUFFICES ASSUME NEW u \in Tasks PROVE RowOK(u)'
    BY DEF RowsOK
  <2>1. CASE u = t
    BY <2>1, <1>3, <1>4 DEF RowOK, Waiting
  <2>2. CASE u \in Q \cup C
    BY <2>2, <1>2, <1>5 DEF RowsOK, RowOK, Waiting, LeasedJob, TypeOK, Job
  <2>3. CASE u \notin Q \cup C \cup {t}
    BY <2>3, <1>6 DEF RowsOK, RowOK, MaxAttempts
  <2> QED BY <2>1, <2>2, <2>3
<1>12. \A v \in Workers : \A p \in proofs[v] :
         /\ p.task \in Tasks /\ p.gen \in Nat /\ p.token \in Nat /\ p.gen = p.token
         /\ p.token >= 1 /\ p.token <= job[p.task].attempts
         /\ job[p.task].attempts \in Nat
  BY DEF ProofsOK, TypeOK, Proof, Job
<1>13. \A v \in Workers : \A p \in proofs'[v] : p \in proofs[v] \/ (v = w /\ p = new)
  BY <1>7 DEF TypeOK
<1>14. \A v \in Workers : \A p \in proofs[v] : p.task = t => p.gen < new.gen
  BY <1>3, <1>12
<1>15. ProofsOK'
  <2>1. \A v \in Workers : \A p \in proofs'[v] :
          p.gen = p.token /\ p.token >= 1 /\ p.token <= job'[p.task].attempts
    <3> SUFFICES ASSUME NEW v \in Workers, NEW p \in proofs'[v]
        PROVE p.gen = p.token /\ p.token >= 1 /\ p.token <= job'[p.task].attempts
      OBVIOUS
    <3>1. CASE p \in proofs[v]
      BY <3>1, <1>3, <1>4, <1>5, <1>6, <1>12
    <3>2. CASE p = new
      BY <3>2, <1>3, <1>4
    <3> QED BY <3>1, <3>2, <1>13
  <2>2. \A v, x \in Workers : \A p \in proofs'[v], q \in proofs'[x] :
          p.task = q.task /\ p.gen = q.gen => v = x
    BY <1>3, <1>12, <1>13, <1>14 DEF ProofsOK
  <2>3. ASSUME NEW u \in Tasks, Leased(u)'
        PROVE /\ job'[u].holder \in Workers
              /\ [task |-> u, token |-> job'[u].token, gen |-> job'[u].gen]
                    \in proofs'[job'[u].holder]
    <3>1. CASE u = t
      BY <3>1, <1>4, <1>7 DEF TypeOK
    <3>2. CASE u # t
      <4>1. u \notin Q \cup C
        BY <2>3, <1>5 DEF Leased, LeasedJob
      <4> QED BY <2>3, <3>2, <4>1, <1>6, <1>7 DEF ProofsOK, Leased, TypeOK
    <3> QED BY <3>1, <3>2
  <2> QED BY <2>1, <2>2, <2>3 DEF ProofsOK
<1>16. RequestsOK' /\ OpenRequestHasLease'
  <2> SUFFICES ASSUME NEW r \in Requests, req[r].state # "none"
      PROVE req[r].task \in Tasks \ (Q \cup C \cup {t})
    BY <1>1, <1>6 DEF RequestsOK, OpenRequestHasLease, Leased, TypeOK, Request
  <2> QED BY <1>2 DEF RequestsOK, Waiting
<1>17. EventsOK'
  <2>1. \A e \in events' : \/ e \in events
                           \/ e.kind \notin WorkerEvents /\ e.agent = NoWorker
                           \/ e = Ev(t, "claimed", a + 1, w)
    BY <1>1, <1>4 DEF Enqueue, RetirementEvents, QuarantineEvents, Ev, WorkerEvents
  <2>2. \A v \in Workers : proofs[v] \subseteq proofs'[v]
    BY <1>7 DEF TypeOK
  <2>3. new \in proofs'[w]
    BY <1>7 DEF TypeOK
  <2> QED BY <2>1, <2>2, <2>3 DEF EventsOK, Ev, WorkerEvents
<1> QED BY <1>9, <1>10, <1>11, <1>15, <1>16, <1>17

---------------------------------------------------------------------------
(* Every step *)

LEMMA NextInv == IInv /\ [Next]_vars => IInv'
<1> SUFFICES ASSUME IInv, [Next]_vars PROVE IInv'
  OBVIOUS
<1>1. ASSUME NEW w \in Workers, WorkerStep(w) PROVE IInv'
  BY <1>1, ClaimNothingInv, ClaimInv, HeartbeatInv, SubmitResultInv
  DEF WorkerStep
<1>2. ASSUME NEW t \in Tasks, TaskStep(t) PROVE IInv'
  BY <1>2, TaskOnlyInv, EnvironmentInv, QueueJobInv, CancelNativeInv
  DEF TaskStep
<1>3. CASE ControlPlaneStep
  BY <1>3, EnvironmentInv, QuarantineInv, StaleGoalInv DEF ControlPlaneStep
<1>4. CASE UNCHANGED vars
  <2> USE <1>4 DEF vars, IInv
  <2>1. TypeOK' /\ JobTaskCoherent' /\ RowsOK'
    BY DEF TypeOK, MaxAttempts, JobTaskCoherent, JobTaskOK, RowsOK, RowOK
  <2>2. ProofsOK' /\ RequestsOK' /\ OpenRequestHasLease' /\ EventsOK'
    BY DEF ProofsOK, Leased, RequestsOK, OpenRequestHasLease, EventsOK
  <2> QED BY <2>1, <2>2
<1>5. CASE CapabilityStep
  BY <1>5, OpenRequestInv, CloseOpenInv DEF CapabilityStep
<1>6. CASE LeaseRevoked
  BY <1>6, ReapInv, CancelTaskInv DEF LeaseRevoked
<1> QED BY <1>1, <1>2, <1>3, <1>4, <1>5, <1>6, EnvironmentInv, TickInv DEF Next

\* Every reachable state of the dispatcher, the reaper and cancel_task satisfies
\* the inductive invariant.
THEOREM InvariantHolds == Spec => []IInv
BY InitInv, NextInv, PTL DEF Spec

---------------------------------------------------------------------------
(* What the invariant gives *)

\* The tables keep their shapes and no row exceeds its attempt budget
\* (agent_jobs.max_attempts), for any number of tasks and workers.
THEOREM TypeCorrect == Spec => []TypeOK
<1>1. IInv => TypeOK
  BY DEF IInv
<1> QED BY <1>1, InvariantHolds, PTL

\* Dispatch, result, reaping, quarantine and cancellation move the job row and
\* its task row together.
THEOREM JobTaskAgree == Spec => []JobTaskCoherent
<1>1. IInv => JobTaskCoherent
  BY DEF IInv
<1> QED BY <1>1, InvariantHolds, PTL

\* An open capability request is always under the live lease that asked for it
\* (or under a revoked native job).
THEOREM RequestsUnderLease == Spec => []OpenRequestHasLease
<1>1. IInv => OpenRequestHasLease
  BY DEF IInv
<1> QED BY <1>1, InvariantHolds, PTL

LEMMA HandedFacts ==
  ASSUME IInv, NEW t \in Tasks, NEW g \in Handed(t)
  PROVE /\ g[1] \in Workers /\ g[2] \in proofs[g[1]] /\ g = <<g[1], g[2]>>
        /\ g[2] = [task |-> t, token |-> g[2].token, gen |-> g[2].gen]
        /\ g[2].gen = g[2].token /\ g[2].gen \in Nat
        /\ g[2].gen >= 1 /\ g[2].gen <= job[t].attempts
<1>1. PICK w \in Workers : g \in {w} \X proofs[w]
  BY DEF Handed
<1>2. g[2] \in proofs[w] /\ g[1] = w /\ g = <<g[1], g[2]>> /\ g[2].task = t
  BY <1>1 DEF Handed
<1>3. g[2] \in Proof
  BY <1>2 DEF IInv, TypeOK
<1>4. g[2] = [task |-> g[2].task, token |-> g[2].token, gen |-> g[2].gen]
  BY <1>3 DEF Proof
<1> QED BY <1>2, <1>3, <1>4 DEF IInv, ProofsOK, Proof

LEMMA SameClaim ==
  ASSUME IInv, NEW t \in Tasks, NEW g \in Handed(t), NEW h \in Handed(t),
         g[2].gen = h[2].gen
  PROVE g = h
<1>1. /\ g[1] \in Workers /\ g[2] \in proofs[g[1]] /\ g = <<g[1], g[2]>>
      /\ g[2] = [task |-> t, token |-> g[2].token, gen |-> g[2].gen]
      /\ g[2].gen = g[2].token
  BY HandedFacts
<1>2. /\ h[1] \in Workers /\ h[2] \in proofs[h[1]] /\ h = <<h[1], h[2]>>
      /\ h[2] = [task |-> t, token |-> h[2].token, gen |-> h[2].gen]
      /\ h[2].gen = h[2].token
  BY HandedFacts
<1>3. g[2] = h[2]
  BY <1>1, <1>2
<1>4. g[1] = h[1]
  BY <1>1, <1>2, <1>3 DEF IInv, ProofsOK
<1> QED BY <1>1, <1>2, <1>3, <1>4

\* The lease generation identifies one claim by one worker: a requeue keeps the
\* generation and the next claim moves it.
THEOREM GenerationUnique == Spec => []GenerationNamesClaim
<1>1. IInv => GenerationNamesClaim
  BY SameClaim DEF GenerationNamesClaim
<1> QED BY <1>1, InvariantHolds, PTL

\* A job whose skill is not in AUTOMATIC_RETRY_SKILLS is handed to at most one
\* worker, at most once, however leases expire.
THEOREM NoSecondHandout == Spec => []SideEffectsHandedOutOnce
<1>1. IInv => SideEffectsHandedOutOnce
  <2> SUFFICES ASSUME IInv, NEW t \in Tasks, SkillOf[t] \notin RetrySafe,
                      NEW g \in Handed(t), NEW h \in Handed(t)
      PROVE g = h
    BY DEF SideEffectsHandedOutOnce
  <2>1. job[t].attempts <= 1 /\ job[t].attempts \in Nat
    BY DEF IInv, RowsOK, RowOK, TypeOK, Job
  <2>2. g[2].gen = 1 /\ h[2].gen = 1
    <3>1. g[2].gen \in Nat /\ g[2].gen >= 1 /\ g[2].gen <= job[t].attempts
      BY HandedFacts
    <3>2. h[2].gen \in Nat /\ h[2].gen >= 1 /\ h[2].gen <= job[t].attempts
      BY HandedFacts
    <3> QED BY <2>1, <3>1, <3>2
  <2> QED BY <2>2, SameClaim
<1> QED BY <1>1, InvariantHolds, PTL

\* The lease that asked for a capability is the last one its job ever gets.
THEOREM CapabilityEndsRetries == Spec => []CapabilityPinsLease
<1>1. IInv => CapabilityPinsLease
  BY HandedFacts DEF CapabilityPinsLease, IInv, RequestsOK, Waiting
<1> QED BY <1>1, InvariantHolds, PTL

\* Owner, token and generation match only for the latest claim of a row that is
\* not back in the queue.
THEOREM OnlyLatestProofMatches == Spec => []StaleProofRejected
<1>1. IInv => StaleProofRejected
  <2> SUFFICES ASSUME IInv, NEW w \in Workers, NEW p \in proofs[w], LeaseMatches(w, p)
      PROVE p.token = job[p.task].attempts /\ job[p.task].status \notin Waiting
    BY DEF StaleProofRejected, Waiting
  <2>1. p.task \in Tasks /\ p.token \in Nat /\ p.token >= 1
    BY DEF IInv, TypeOK, Proof, ProofsOK
  <2>2. job[p.task].token = p.token /\ RowOK(p.task)
    BY <2>1 DEF LeaseMatches, IInv, RowsOK
  <2> QED BY <2>1, <2>2 DEF RowOK
<1> QED BY <1>1, InvariantHolds, PTL

\* A queued job can always be claimed within its attempt budget.
THEOREM QueuedJobsClaimable == Spec => []NoStrandedJob
<1>1. IInv => NoStrandedJob
  BY DEF IInv, RowsOK, RowOK, NoStrandedJob
<1> QED BY <1>1, InvariantHolds, PTL

\* No two events written by these handlers collide on a dedupe key, so
\* OutboxRepository.enqueue_locked never rolls one of them back.
THEOREM DedupeKeysBind == Spec => []DedupeKeyBindsOneEvent
<1>1. IInv => DedupeKeyBindsOneEvent
  <2> SUFFICES ASSUME IInv, NEW e \in events,
                      NEW w \in (Workers \cup {NoWorker}) \ {e.agent},
                      Ev(e.task, e.kind, e.n, w) \in events
      PROVE FALSE
    BY DEF DedupeKeyBindsOneEvent
  <2> DEFINE f == Ev(e.task, e.kind, e.n, w)
  <2>1. f \in events /\ f.task = e.task /\ f.kind = e.kind /\ f.n = e.n /\ f.agent = w
    BY DEF Ev
  <2> HIDE DEF f
  <2>2. e.agent = f.agent
    <3>1. CASE e.kind \in WorkerEvents
      BY <2>1, <3>1 DEF IInv, EventsOK, ProofsOK
    <3>2. CASE e.kind \notin WorkerEvents
      BY <2>1, <3>2 DEF IInv, EventsOK
    <3> QED BY <3>1, <3>2
  <2> QED BY <2>1, <2>2
<1> QED BY <1>1, InvariantHolds, PTL

\* No handler writes a job row that has reached a terminal status.
THEOREM TerminalRowsFrozen == Spec => TerminalJobFrozen
<1> DEFINE Frozen == \A t \in Tasks : job[t].status \in TerminalJob =>
                       [job[t] EXCEPT !.lease = 0] = [job'[t] EXCEPT !.lease = 0]
<1>1. IInv /\ [Next]_vars => Frozen
  <2> SUFFICES ASSUME IInv, [Next]_vars, NEW t \in Tasks, job[t].status \in TerminalJob
      PROVE [job[t] EXCEPT !.lease = 0] = [job'[t] EXCEPT !.lease = 0]
    OBVIOUS
  <2>1. ~Leased(t) /\ job[t].status # "queued" /\ job[t] \in Job
    BY DEF Leased, LeasedJob, TerminalJob, IInv, TypeOK
  <2>2. ASSUME NEW w \in Workers, ClaimNothing(w) PROVE job'[t] = job[t]
    BY <2>1, <2>2 DEF ClaimNothing, RetiredJob, QuarantineBatches, DeniedQueued, Candidates
  <2>3. ASSUME NEW w \in Workers, NEW u \in Tasks, Claim(w, u) PROVE job'[t] = job[t]
    BY <2>1, <2>3 DEF Claim, RetiredJob, QuarantineBatches, DeniedQueued, Candidates
  <2>4. ASSUME NEW w \in Workers, NEW p \in proofs[w], Heartbeat(w, p)
        PROVE job'[t] = job[t]
    BY <2>1, <2>4 DEF Heartbeat, RevokeNative, HoldsLease, IInv, TypeOK
  <2>5. ASSUME NEW w \in Workers, NEW p \in proofs[w],
               NEW o \in {"completed", "failed"}, SubmitResult(w, p, o)
        PROVE job'[t] = job[t]
    BY <2>1, <2>5 DEF SubmitResult, HoldsActiveLease, HoldsLease, IInv, TypeOK
  <2>6. CASE CapabilityStep
    BY <2>6 DEF CapabilityStep, OpenRequest, CloseOpen
  <2>7. ASSUME NEW u \in Tasks, TaskStep(u) PROVE job'[t] = job[t]
    <3>1. CASE PlanTask(u) \/ LocalToolStep(u) \/ ContextChanges(u)
      BY <3>1 DEF PlanTask, LocalToolStep, ContextChanges
    <3>2. CASE QueueJob(u)
      <4>1. u # t
        BY <3>2 DEF QueueJob, IInv, JobTaskCoherent, JobTaskOK, TerminalJob
      <4> QED BY <3>2, <4>1 DEF QueueJob, IInv, TypeOK
    <3>3. CASE CancelNative(u)
      BY <3>3, <2>1 DEF CancelNative, RevokeNative, Leased, IInv, TypeOK
    <3> QED BY <2>7, <3>1, <3>2, <3>3 DEF TaskStep
  <2>8. CASE ControlPlaneStep
    BY <2>1, <2>8 DEF ControlPlaneStep, ReplacePolicy, QuarantineRevoked, QuarantineBatches,
       DeniedQueued, CancelStaleGoalJobs, RetiredJob
  <2>13. CASE LeaseRevoked
    <3>1. CASE Reap
      BY <2>1, <3>1 DEF Reap, ReapRows, ExpiredLeases
    <3>2. ASSUME NEW u \in Tasks, CancelTask(u) PROVE job'[t] = job[t]
      BY <3>2, <2>1 DEF CancelTask, CancelRows, ActiveJob, Leased, IInv, TypeOK
    <3> QED BY <2>13, <3>1, <3>2 DEF LeaseRevoked
  <2>9. CASE Tick
    BY <2>1, <2>9 DEF Tick, Job
  <2>10. CASE UNCHANGED vars
    BY <2>10 DEF vars
  <2>11. ASSUME NEW w \in Workers, WorkerStep(w) PROVE job'[t] = job[t]
    BY <2>2, <2>3, <2>4, <2>5, <2>11 DEF WorkerStep
  <2>12. ASSUME NEW w \in Workers, PresenceChanges(w) PROVE job'[t] = job[t]
    BY <2>12 DEF PresenceChanges
  <2> QED BY <2>6, <2>7, <2>8, <2>9, <2>10, <2>11, <2>12, <2>13 DEF Next
<1> QED BY <1>1, InvariantHolds, PTL DEF Spec, TerminalJobFrozen

---------------------------------------------------------------------------
(* Every handler keeps the jobs to AgentJobStateMachine.ALLOWED.  A step is *)
(* looked at row by row: what it does to the status of one job and to that  *)
(* of its task.                                                             *)

Live == {"queued"} \cup LeasedJob

RowMoves(t) ==
    \/ job'[t].status = job[t].status /\ (job[t].status # "none" \/ task'[t] = task[t])
    \/ /\ job[t].status = "none" /\ job'[t].status = "none"
       /\ task[t] \in {"created", "planned"} \/ task'[t] \notin {"created", "planned"}
    \/ /\ job[t].status = "none" /\ task[t] \in {"created", "planned"}
       /\ job'[t].status = "queued"
    \/ job[t].status = "queued" /\ job'[t].status \in LeasedJob
    \/ job[t].status \in Live /\ job'[t].status \in {"failed", "cancelled", "quarantined"}
    \/ job[t].status \in LeasedJob /\ job'[t].status \in {"running", "completed"}
    \/ /\ job[t].status \in LeasedJob /\ job'[t].status = "queued"
       /\ SkillOf[t] \in RetrySafe \ SingleAttempt

LEMMA RowMovesAllowed ==
  ASSUME NEW t \in Tasks, job[t].status \in JobStatus, RowMoves(t)
  PROVE  JobState'[t] = JobState[t] \/ Lifecycle!MayMove(t, JobState[t], JobState'[t])
BY DEF RowMoves, Live, JobState, JobStatus, LeasedJob, TerminalJob, Lifecycle!MayMove,
   Lifecycle!Moves

\* what a poll or a sweep retires in passing
LEMMA RetiredMoves ==
  ASSUME IInv, NEW t \in Tasks, NEW Q, NEW C, Q \subseteq DeniedQueued,
         \A u \in C : job[u].status = "queued",
         job'[t] = RetiredJob(t, Q, C), task'[t] = RetiredTask(t, Q, C)
  PROVE  RowMoves(t)
<1>1. job[t] \in Job /\ "quarantined" \in JobStatus /\ "cancelled" \in JobStatus
  BY DEF IInv, TypeOK, JobStatus, TerminalJob
<1>2. t \in Q => job[t].status = "queued"
  BY DEF DeniedQueued
<1> QED BY <1>1, <1>2, StatusChange DEF RetiredJob, RetiredTask, RowMoves, Live

LEMMA WorkerMoves ==
  ASSUME IInv, NEW w \in Workers, WorkerStep(w), NEW t \in Tasks PROVE RowMoves(t)
<1>0. job \in [Tasks -> Job] /\ task \in [Tasks -> TaskStatus] /\ job[t] \in Job
  BY DEF IInv, TypeOK
<1>2. CASE ClaimNothing(w)
  BY <1>2, RetiredMoves DEF ClaimNothing, QuarantineBatches, Candidates
<1>3. ASSUME NEW u \in Tasks, Claim(w, u) PROVE RowMoves(t)
  <2>1. CASE t = u
    <3>1. job[t].status = "queued" /\ job'[t] = ClaimedJob(job[t], w)
      BY <1>3, <2>1 DEF Claim, Candidates
    <3>2. job'[t].status = "claimed"
      BY <1>0, <3>1 DEF ClaimedJob, Job
    <3> QED BY <3>1, <3>2 DEF RowMoves, LeasedJob
  <2>2. CASE t # u
    BY <1>3, <2>2, RetiredMoves DEF Claim, QuarantineBatches, Candidates
  <2> QED BY <2>1, <2>2
<1>4. ASSUME NEW p \in proofs[w], Heartbeat(w, p) PROVE RowMoves(t)
  BY <1>0, <1>4 DEF Heartbeat, HoldsLease, Leased, RevokeNative, Job, RowMoves, Live, LeasedJob
<1>5. ASSUME NEW p \in proofs[w], NEW o \in {"completed", "failed"}, SubmitResult(w, p, o)
      PROVE  RowMoves(t)
  BY <1>0, <1>5 DEF SubmitResult, HoldsActiveLease, HoldsLease, Leased, Job, RowMoves, Live, LeasedJob
<1> QED BY <1>2, <1>3, <1>4, <1>5 DEF WorkerStep

LEMMA TaskMoves ==
  ASSUME IInv, NEW u \in Tasks, TaskStep(u) \/ CancelTask(u), NEW t \in Tasks PROVE RowMoves(t)
<1>0. job \in [Tasks -> Job] /\ task \in [Tasks -> TaskStatus] /\ job[t] \in Job
  BY DEF IInv, TypeOK
<1>1. CASE PlanTask(u) \/ ContextChanges(u)
  BY <1>0, <1>1 DEF PlanTask, ContextChanges, RowMoves
<1>2. CASE LocalToolStep(u)
  BY <1>0, <1>2 DEF LocalToolStep, LocalMoves, RowMoves
<1>3. CASE QueueJob(u)
  <2>1. job[u].status = "none"
    BY <1>3 DEF QueueJob, IInv, JobTaskCoherent, JobTaskOK, TypeOK, Job, JobStatus, TerminalJob
  <2> QED BY <1>0, <1>3, <2>1 DEF QueueJob, NoJob, RowMoves
<1>4. CASE CancelNative(u)
  BY <1>0, <1>4 DEF CancelNative, RevokeNative, Job, RowMoves, Live
<1>5. CASE CancelTask(u)
  <2>1. CASE ActiveJob(u)
    BY <1>0, <1>5, <2>1 DEF CancelTask, CancelRows, ActiveJob, Revoked, Job, RowMoves, Live
  <2>2. CASE ~ActiveJob(u)
    BY <1>0, <1>5, <2>2 DEF CancelTask, CancelRows, RowMoves
  <2> QED BY <2>1, <2>2
<1> QED BY <1>1, <1>2, <1>3, <1>4, <1>5 DEF TaskStep

LEMMA ReapMoves == ASSUME IInv, Reap, NEW t \in Tasks PROVE RowMoves(t)
<1>0. job[t] \in Job
  BY DEF IInv, TypeOK
<1>1. PICK S \in SUBSET ExpiredLeases : ReapRows(S)
  BY DEF Reap
<1>2. CASE t \notin S
  BY <1>1, <1>2 DEF ReapRows, RowMoves
<1>3. CASE t \in S
  <2>1. Leased(t) /\ job'[t].status = ReapedStatus(t)
    BY <1>0, <1>1, <1>3 DEF ReapRows, ExpiredLeases, ReapedJob, Revoked, Job
  <2>2. ReapOutcome(t) \in {"requeued", "dead_lettered", "cancelled", "quarantined"}
    BY DEF ReapOutcome
  <2>3. ASSUME ReapOutcome(t) = "requeued" PROVE SkillOf[t] \in RetrySafe \ SingleAttempt
    <3>1. Retryable(t)
      BY <2>3 DEF ReapOutcome
    <3>2. SkillOf[t] \in RetrySafe
      BY <3>1 DEF Retryable, IInv, TypeOK, Policies
    <3>3. job[t].attempts >= 1
      <4> DEFINE p == [task |-> t, token |-> job[t].token, gen |-> job[t].gen]
      <4>1. p \in proofs[job[t].holder] /\ job[t].holder \in Workers
            /\ job[t].token = job[t].attempts
        BY <2>1, LeasedFacts
      <4>2. p.token >= 1
        BY <4>1 DEF IInv, ProofsOK
      <4> QED BY <4>1, <4>2
    <3>4. MaxAttempts(t) # 1
      BY <1>0, <3>1, <3>3 DEF Retryable, Job
    <3> QED BY <3>2, <3>4 DEF MaxAttempts
  <2> QED BY <2>1, <2>2, <2>3 DEF ReapedStatus, Leased, RowMoves, Live
<1> QED BY <1>2, <1>3

LEMMA StepMoves == ASSUME IInv, [Next]_vars, NEW t \in Tasks PROVE RowMoves(t)
<1>0. job \in [Tasks -> Job] /\ job[t] \in Job
  BY DEF IInv, TypeOK
<1>1. CASE ControlPlaneStep
  <2>1. CASE ReplacePolicy
    BY <2>1 DEF ReplacePolicy, RowMoves
  <2>2. CASE QuarantineRevoked
    <3>1. PICK Q \in SUBSET DeniedQueued :
            /\ job'[t] = RetiredJob(t, Q, {})
            /\ task'[t] = RetiredTask(t, Q, {})
      BY <2>2 DEF QuarantineRevoked, QuarantineBatches, RetiredJob, RetiredTask
    <3> QED BY <3>1, RetiredMoves
  <2>3. CASE CancelStaleGoalJobs
    BY <2>3, RetiredMoves DEF CancelStaleGoalJobs
  <2> QED BY <1>1, <2>1, <2>2, <2>3 DEF ControlPlaneStep
<1>2. CASE CapabilityStep
  BY <1>2 DEF CapabilityStep, OpenRequest, CloseOpen, RowMoves
<1>3. CASE Tick
  BY <1>0, <1>3 DEF Tick, Job, RowMoves
<1>4. ASSUME NEW w \in Workers, PresenceChanges(w) PROVE RowMoves(t)
  BY <1>4 DEF PresenceChanges, RowMoves
<1>5. CASE UNCHANGED vars
  BY <1>5 DEF vars, RowMoves
<1> QED BY <1>1, <1>2, <1>3, <1>4, <1>5, WorkerMoves, TaskMoves, ReapMoves DEF Next, LeaseRevoked

\* The rows of the dispatcher live the life the state machine declares, however
\* many of them a transaction writes and whichever statement it writes them with.
THEOREM RefinesJobLifecycle == Spec => ImplementsJobLifecycle
<1>1. Init => Lifecycle!Init
  <2> SUFFICES ASSUME Init, NEW t \in Tasks PROVE JobState[t] = "created"
    BY DEF Lifecycle!Init, JobState
  <2>1. job[t].status = "none" /\ task[t] = "created"
    BY DEF Init, NoJob
  <2> QED BY <2>1 DEF JobState, LeasedJob
<1>2. ASSUME IInv, IInv', [Next]_vars PROVE [Lifecycle!Next]_JobState
  <2>1. JobState' \in [Tasks -> Lifecycle!Statuses]
    BY <1>2 DEF IInv, TypeOK, Job, JobStatus, LeasedJob, TerminalJob, JobState, Lifecycle!Statuses
  <2>2. \A t \in Tasks : job[t].status \in JobStatus
    BY <1>2 DEF IInv, TypeOK, Job
  <2>3. \A t \in Tasks : JobState'[t] = JobState[t]
                         \/ Lifecycle!MayMove(t, JobState[t], JobState'[t])
    BY <1>2, <2>2, StepMoves, RowMovesAllowed
  <2> QED BY <2>1, <2>3 DEF Lifecycle!Next
<1> QED BY <1>1, <1>2, InvariantHolds, PTL DEF Spec, ImplementsJobLifecycle, Lifecycle!Spec
=============================================================================
