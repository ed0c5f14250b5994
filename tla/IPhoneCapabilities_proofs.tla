----------------------- MODULE IPhoneCapabilities_proofs -----------------------
(***************************************************************************)
(* Proofs about IPhoneCapabilities: the capability service implements what *)
(* AgentJobs assumes of it, so the theorems of AgentJobs hold of the two   *)
(* together; and a grant is good for one effect, under one lease.          *)
(***************************************************************************)
EXTENDS IPhoneCapabilities, FiniteSetTheorems, TLAPS

---------------------------------------------------------------------------
(* Typing of the capability tables, together with the invariant of the jobs *)

TablesOK ==
    /\ creq \in [Requests -> CapabilityRequest]
    /\ grant \in [Requests -> Grant]

Base == TablesOK /\ J!IInv

capVars == <<creq, grant, result, effects, outcomes>>

\* A request row seen by the jobs, after the row changed
LEMMA AbstractRow ==
  \A r \in Requests :
    /\ AbstractRequests'[r].task = creq'[r].task
    /\ AbstractRequests'[r].gen = creq'[r].gen
    /\ AbstractRequests'[r].state =
          IF creq'[r].status = "none" THEN "none"
          ELSE IF creq'[r].status \in OpenStatus THEN "open" ELSE "closed"
BY DEF AbstractRequests, IsOpen

LEMMA SmallerType ==
  ASSUME NEW m \in Nat, NEW n \in Nat
  PROVE  SmallerOf(m, n) \in Nat /\ SmallerOf(m, n) <= m /\ SmallerOf(m, n) <= n
BY DEF SmallerOf

LEMMA CloseTables ==
  ASSUME TablesOK, NEW R \in SUBSET Requests, NEW status \in {"expired", "cancelled"},
         NEW kind, Close(R, status, kind)
  PROVE  TablesOK'
<1>1. ASSUME NEW r \in Requests PROVE [creq[r] EXCEPT !.status = status] \in CapabilityRequest
  BY DEF TablesOK, CapabilityRequest, TerminalStatus
<1>2. ASSUME NEW r \in Requests PROVE [grant[r] EXCEPT !.left = 0] \in Grant
  <2>1. 0 \in 0..GrantTTL
    BY CapabilitiesAssumption
  <2> QED BY <2>1 DEF TablesOK, Grant
<1>3. creq' \in [Requests -> CapabilityRequest]
  BY <1>1 DEF Close, TablesOK
<1>4. grant' \in [Requests -> Grant]
  BY <1>2 DEF Close, TablesOK
<1> QED BY <1>3, <1>4 DEF TablesOK

\* Closing rows of the capability service closes the same requests for the jobs.
LEMMA CloseAbstract ==
  ASSUME TablesOK, NEW R \in SUBSET Requests, NEW status \in {"expired", "cancelled"},
         NEW kind, Close(R, status, kind), \A r \in R : IsOpen(r)
  PROVE  AbstractRequests' =
           [r \in Requests |-> IF r \in R THEN [AbstractRequests[r] EXCEPT !.state = "closed"]
                                          ELSE AbstractRequests[r]]
<1> SUFFICES ASSUME NEW r \in Requests
    PROVE AbstractRequests'[r] = IF r \in R THEN [AbstractRequests[r] EXCEPT !.state = "closed"]
                                            ELSE AbstractRequests[r]
  BY DEF AbstractRequests
<1>1. CASE r \in R
  <2>1. creq'[r] = [creq[r] EXCEPT !.status = status] /\ creq[r] \in CapabilityRequest
    BY <1>1 DEF Close, TablesOK
  <2>2. /\ creq'[r].status = status /\ creq'[r].task = creq[r].task
        /\ creq'[r].gen = creq[r].gen
    BY <2>1 DEF CapabilityRequest
  <2> QED BY <1>1, <2>2 DEF AbstractRequests, IsOpen, OpenStatus
<1>2. CASE r \notin R
  BY <1>2 DEF Close, AbstractRequests, IsOpen
<1> QED BY <1>1, <1>2

---------------------------------------------------------------------------
(* Each step keeps the tables in shape and is a step of the jobs or none *)

Simulated == [J!Next]_(J!vars)

LEMMA CloseSome ==
  ASSUME TablesOK, NEW R \in SUBSET Requests, NEW status \in {"expired", "cancelled"},
         NEW kind, Close(R, status, kind), \A r \in R : IsOpen(r), R # {}, UNCHANGED jobVars
  PROVE  TablesOK' /\ Simulated
<1>1. J!CloseOpen(R)
  <2>1. \A r \in R : AbstractRequests[r].state = "open"
    BY DEF AbstractRequests, IsOpen, OpenStatus
  <2> QED BY <2>1, CloseAbstract DEF J!CloseOpen, jobVars
<1>2. J!CapabilityStep
  BY <1>1 DEF J!CapabilityStep
<1>3. TablesOK'
  BY CloseTables
<1> QED BY <1>2, <1>3 DEF Simulated, J!Next

LEMMA CreateStep ==
  ASSUME Base, NEW r \in Requests, WorkerAsks(r)
  PROVE  TablesOK' /\ Simulated
<1>1. PICK w \in Workers, a \in Asks : \E p \in proofs[w] : CreateRequest(r, w, p, a)
  BY DEF WorkerAsks
<1>2. PICK p \in proofs[w] : CreateRequest(r, w, p, a)
  BY <1>1
<1>3. p.task \in Tasks /\ p.gen \in Nat
  BY DEF Base, J!IInv, J!TypeOK, J!Proof
<1>4. TablesOK'
  <2>1. [status |-> "waiting_approval", task |-> p.task, gen |-> p.gen,
         agent |-> w, ask |-> a, left |-> ApprovalTTL] \in CapabilityRequest
    BY <1>3, CapabilitiesAssumption DEF CapabilityRequest, OpenStatus
  <2> QED BY <1>2, <2>1 DEF CreateRequest, TablesOK, Base
<1>5. J!OpenRequest(r, w, p)
  <2>1. AbstractRequests' = [AbstractRequests EXCEPT ![r] =
                                [state |-> "open", task |-> p.task, gen |-> p.gen]]
    BY <1>2 DEF CreateRequest, AbstractRequests, IsOpen, OpenStatus, TablesOK, Base
  <2>2. AbstractRequests[r].state = "none"
    BY <1>2 DEF CreateRequest, AbstractRequests
  <2> QED BY <1>2, <2>1, <2>2 DEF CreateRequest, J!OpenRequest, jobVars
<1> QED BY <1>4, <1>5 DEF Simulated, J!Next, J!CapabilityStep

\* A row that stays open is no change for the jobs.
LEMMA StillOpen ==
  ASSUME TablesOK, NEW r \in Requests, IsOpen(r), NEW status \in OpenStatus,
         creq' = [creq EXCEPT ![r].status = status], UNCHANGED jobVars
  PROVE  creq' \in [Requests -> CapabilityRequest] /\ Simulated
<1>1. creq' \in [Requests -> CapabilityRequest]
  BY DEF TablesOK, CapabilityRequest
<1>2. creq[r] \in CapabilityRequest /\ creq'[r] = [creq[r] EXCEPT !.status = status]
  BY DEF TablesOK
<1>3. AbstractRequests' = AbstractRequests
  <2> SUFFICES ASSUME NEW q \in Requests PROVE AbstractRequests'[q] = AbstractRequests[q]
    BY DEF AbstractRequests
  <2> QED BY <1>2 DEF AbstractRequests, IsOpen, OpenStatus, CapabilityRequest, TablesOK
<1> QED BY <1>1, <1>3 DEF Simulated, J!vars, jobVars

\* A row that ends with the phone's answer is one closed request for the jobs.
LEMMA Answered ==
  ASSUME TablesOK, NEW r \in Requests, IsOpen(r), NEW status \in TerminalStatus,
         creq' = [creq EXCEPT ![r].status = status], UNCHANGED jobVars
  PROVE  creq' \in [Requests -> CapabilityRequest] /\ Simulated
<1>1. creq' \in [Requests -> CapabilityRequest]
  BY DEF TablesOK, CapabilityRequest
<1>2. creq[r] \in CapabilityRequest /\ creq'[r] = [creq[r] EXCEPT !.status = status]
  BY DEF TablesOK
<1>3. AbstractRequests' =
        [q \in Requests |-> IF q \in {r} THEN [AbstractRequests[q] EXCEPT !.state = "closed"]
                                         ELSE AbstractRequests[q]]
  <2> SUFFICES ASSUME NEW q \in Requests
      PROVE AbstractRequests'[q] =
              IF q \in {r} THEN [AbstractRequests[q] EXCEPT !.state = "closed"]
                           ELSE AbstractRequests[q]
    BY DEF AbstractRequests
  <2> QED BY <1>2 DEF AbstractRequests, IsOpen, OpenStatus, TerminalStatus,
                      CapabilityRequest, TablesOK
<1>4. J!CloseOpen({r})
  BY <1>3 DEF J!CloseOpen, AbstractRequests, IsOpen, OpenStatus, jobVars
<1>5. J!CapabilityStep
  <2>1. {r} \in (SUBSET Requests) \ {{}}
    OBVIOUS
  <2> QED BY <1>4, <2>1 DEF J!CapabilityStep
<1> QED BY <1>1, <1>5 DEF Simulated, J!Next

LEMMA AuthorizeStep ==
  ASSUME Base, NEW r \in Requests, NEW decision \in {"approve", "deny"},
         Authorize(r, decision)
  PROVE  TablesOK' /\ Simulated
<1>1. IsOpen(r) /\ TablesOK
  BY DEF Authorize, IsOpen, OpenStatus, Base
<1>2. ASSUME NEW s \in {"expired", "cancelled"}, Close({r}, s, s) PROVE TablesOK' /\ Simulated
  BY <1>1, <1>2, CloseSome DEF Authorize
<1>3. CASE IssueGrant(r)
  <2>1. GrantLife(r) \in 0..GrantTTL
    <3>1. creq[r].left \in Nat /\ GrantTTL \in Nat
      BY <1>1, CapabilitiesAssumption DEF TablesOK, CapabilityRequest
    <3>2. SmallerOf(creq[r].left, GrantTTL) \in Nat /\ SmallerOf(creq[r].left, GrantTTL) <= GrantTTL
      BY <3>1, SmallerType
    <3> QED BY <3>1, <3>2 DEF GrantLife
  <2>2. grant[r] \in Grant
    BY <1>1 DEF TablesOK
  <2>3. grant[r].token + 1 \in 0..MaxGrants
    BY <1>3, <2>2, CapabilitiesAssumption DEF IssueGrant, Grant
  <2>4. grant' \in [Requests -> Grant]
    BY <1>1, <1>3, <2>1, <2>3 DEF IssueGrant, Grant, TablesOK
  <2>5. creq' \in [Requests -> CapabilityRequest] /\ Simulated
    BY <1>1, <1>3, StillOpen DEF IssueGrant, OpenStatus, Authorize
  <2> QED BY <2>4, <2>5 DEF TablesOK
<1>4. CASE Deny(r)
  BY <1>1, <1>4, Answered DEF Deny, TerminalStatus, Authorize, TablesOK
<1> QED BY <1>2, <1>3, <1>4 DEF Authorize

LEMMA ConsumeStep ==
  ASSUME Base, NEW r \in Requests, NEW n, Consume(r, n)
  PROVE  TablesOK' /\ Simulated
<1>1. IsOpen(r) /\ TablesOK
  BY DEF Consume, Consumable, IsOpen, OpenStatus, Base
<1>2. ASSUME NEW s \in {"expired", "cancelled"}, Close({r}, s, s) PROVE TablesOK' /\ Simulated
  BY <1>1, <1>2, CloseSome DEF Consume
<1>3. CASE /\ creq' = [creq EXCEPT ![r].status = "consumed"]
           /\ grant' = [grant EXCEPT ![r].consumed = TRUE]
  <2>1. grant' \in [Requests -> Grant]
    BY <1>1, <1>3 DEF TablesOK, Grant
  <2>2. creq' \in [Requests -> CapabilityRequest] /\ Simulated
    BY <1>1, <1>3, StillOpen DEF OpenStatus, Consume
  <2> QED BY <2>1, <2>2 DEF TablesOK
<1> QED BY <1>2, <1>3 DEF Consume

LEMMA ResultStep ==
  ASSUME Base, NEW r \in Requests, NEW n, NEW o \in PhoneOutcomes,
         SubmitCapabilityResult(r, n, o)
  PROVE  TablesOK' /\ Simulated
<1>1. IsOpen(r) /\ TablesOK
  BY DEF SubmitCapabilityResult, IsOpen, OpenStatus, Base
<1>2. ASSUME NEW s \in {"expired", "cancelled"}, Close({r}, s, s) PROVE TablesOK' /\ Simulated
  BY <1>1, <1>2, CloseSome DEF SubmitCapabilityResult
<1>3. CASE creq' = [creq EXCEPT ![r].status = o] /\ grant' = grant
  <2>1. o \in TerminalStatus
    BY CapabilitiesAssumption DEF TerminalStatus
  <2> QED BY <1>1, <1>3, <2>1, Answered DEF SubmitCapabilityResult, TablesOK
<1> QED BY <1>2, <1>3 DEF SubmitCapabilityResult

LEMMA ExpireStep ==
  ASSUME Base, ExpireRequests
  PROVE  TablesOK' /\ Simulated
<1>1. PICK R \in (SUBSET Due) \ {{}} : Close(R, "expired", "expired")
  BY DEF ExpireRequests
<1>2. R \in SUBSET Requests /\ R # {} /\ \A r \in R : IsOpen(r)
  <2>1. \A r \in Due : r \in Requests /\ IsOpen(r)
    BY DEF Due, IsOpen, OpenStatus
  <2> QED BY <1>1, <2>1
<1> QED BY <1>1, <1>2, CloseSome DEF ExpireRequests, Base

\* The requests a revoked lease takes with it are those AgentJobs closes.
LEMMA WithdrawnAbstract ==
  ASSUME TablesOK, NEW S \in SUBSET Tasks, NEW kind,
         Close(Withdrawn(S), "cancelled", kind)
  PROVE  TablesOK' /\ J!CloseRequests(S)
<1>1. Withdrawn(S) \in SUBSET Requests /\ \A r \in Withdrawn(S) : IsOpen(r)
  BY DEF Withdrawn
<1>2. \A r \in Requests : r \in Withdrawn(S) <=> \E t \in S : r \in J!OpenRequestsOf(t)
  BY DEF Withdrawn, J!OpenRequestsOf, J!RequestsOf, AbstractRequests, IsOpen, OpenStatus
<1>3. AbstractRequests' =
        [r \in Requests |-> IF r \in Withdrawn(S) THEN [AbstractRequests[r] EXCEPT !.state = "closed"]
                                                 ELSE AbstractRequests[r]]
  BY <1>1, CloseAbstract
<1>4. J!CloseRequests(S)
  BY <1>2, <1>3 DEF J!CloseRequests
<1> QED BY <1>1, <1>4, CloseTables

LEMMA ReapStep ==
  ASSUME Base, ReapLeases
  PROVE  TablesOK' /\ Simulated
<1>1. PICK S \in (SUBSET J!ExpiredLeases) \ {{}} :
        J!ReapRows(S) /\ Close(Withdrawn(S), "cancelled", "lease-cancelled")
  BY DEF ReapLeases
<1>2. S \in SUBSET Tasks
  BY DEF J!ExpiredLeases
<1>3. TablesOK' /\ J!CloseRequests(S)
  BY <1>1, <1>2, WithdrawnAbstract DEF Base
<1> QED BY <1>1, <1>3 DEF Simulated, J!Next, J!LeaseRevoked, J!Reap

LEMMA CancelStep ==
  ASSUME Base, NEW t \in Tasks, CancelTask(t)
  PROVE  TablesOK' /\ Simulated
<1>1. CASE J!ActiveJob(t)
  <2>1. TablesOK' /\ J!CloseRequests({t})
    BY <1>1, WithdrawnAbstract DEF CancelTask, Base
  <2>2. J!CancelTask(t)
    BY <1>1, <2>1 DEF CancelTask, J!CancelTask
  <2> QED BY <2>1, <2>2 DEF Simulated, J!Next, J!LeaseRevoked
<1>2. CASE ~J!ActiveJob(t)
  <2>1. Close({}, "cancelled", "task-cancelled")
    BY <1>2 DEF CancelTask
  <2>2. TablesOK'
    BY <2>1, CloseTables DEF Base
  <2>3. UNCHANGED AbstractRequests
    BY <2>1 DEF Close, AbstractRequests, IsOpen, TablesOK, Base
  <2>4. J!CancelTask(t)
    BY <1>2, <2>3 DEF CancelTask, J!CancelTask
  <2> QED BY <2>2, <2>4 DEF Simulated, J!Next, J!LeaseRevoked
<1> QED BY <1>1, <1>2

LEMMA OtherStep ==
  ASSUME Base, OtherJobStep
  PROVE  TablesOK' /\ Simulated
BY DEF OtherJobStep, Base, TablesOK, Simulated, J!Next

LEMMA OneLessType == ASSUME NEW m \in Nat, NEW n \in 0..m PROVE OneLess(n) \in 0..m
BY DEF OneLess

LEMMA TickStep ==
  ASSUME Base, Tick
  PROVE  TablesOK' /\ Simulated
<1>1. TablesOK'
  <2>1. ASSUME NEW r \in Requests
        PROVE  [creq[r] EXCEPT !.left = OneLess(@)] \in CapabilityRequest
    BY OneLessType, CapabilitiesAssumption DEF Base, TablesOK, CapabilityRequest
  <2>2. ASSUME NEW r \in Requests PROVE [grant[r] EXCEPT !.left = OneLess(@)] \in Grant
    BY OneLessType, CapabilitiesAssumption DEF Base, TablesOK, Grant
  <2> QED BY <2>1, <2>2 DEF Tick, TablesOK
<1>2. AbstractRequests' = AbstractRequests
  <2> SUFFICES ASSUME NEW r \in Requests PROVE AbstractRequests'[r] = AbstractRequests[r]
    BY DEF AbstractRequests
  <2>1. creq[r] \in CapabilityRequest /\ creq'[r] = [creq[r] EXCEPT !.left = OneLess(@)]
    BY DEF Tick, Base, TablesOK
  <2>2. /\ creq'[r].status = creq[r].status /\ creq'[r].task = creq[r].task
        /\ creq'[r].gen = creq[r].gen
    BY <2>1 DEF CapabilityRequest
  <2> QED BY <2>2 DEF AbstractRequests, IsOpen
<1>3. CASE \E t \in Tasks : job[t].lease > 0
  <2>1. J!Tick
    BY <1>2, <1>3 DEF Tick, J!Tick, OneLess
  <2> QED BY <1>1, <2>1 DEF Simulated, J!Next
<1>4. CASE ~ \E t \in Tasks : job[t].lease > 0
  <2>1. job' = job
    <3> SUFFICES ASSUME NEW t \in Tasks PROVE job'[t] = job[t]
      BY DEF Tick, Base, J!IInv, J!TypeOK
    <3>1. job[t] \in J!Job /\ job[t].lease = 0
      BY <1>4 DEF Base, J!IInv, J!TypeOK, J!Job
    <3>2. job'[t] = [job[t] EXCEPT !.lease = 0]
      BY <3>1 DEF Tick, OneLess
    <3> QED BY <3>1, <3>2 DEF J!Job
  <2> QED BY <1>1, <1>2, <2>1 DEF Simulated, J!vars, Tick
<1> QED BY <1>3, <1>4

---------------------------------------------------------------------------
(* The refinement *)

LEMMA NextStep == Base /\ [Next]_vars => TablesOK' /\ Simulated
<1> SUFFICES ASSUME Base, [Next]_vars PROVE TablesOK' /\ Simulated
  OBVIOUS
<1>1. ASSUME NEW r \in Requests, PhoneStep(r) PROVE TablesOK' /\ Simulated
  BY <1>1, AuthorizeStep, ConsumeStep, ResultStep DEF PhoneStep
<1>2. CASE UNCHANGED vars
  BY <1>2 DEF vars, Base, TablesOK, Simulated, J!vars, AbstractRequests, IsOpen
<1> QED BY <1>1, <1>2, CreateStep, ExpireStep, ReapStep, CancelStep, OtherStep, TickStep DEF Next

LEMMA InitBase == Init => Base /\ J!Init
<1> SUFFICES ASSUME Init PROVE Base /\ J!Init
  OBVIOUS
<1>1. TablesOK
  BY CapabilitiesAssumption DEF Init, TablesOK, Unasked, NoGrant, CapabilityRequest, Grant
<1> QED BY <1>1, SharedAssumption, J!InitInv DEF Init, Base

LEMMA BaseInvariant == Spec => []Base
<1>1. Base /\ [Next]_vars => Base'
  BY NextStep, SharedAssumption, J!NextInv DEF Base, Simulated
<1> QED BY <1>1, InitBase, PTL DEF Spec

\* The capability service, the reaper and cancel_task together do to jobs and
\* requests only what AgentJobs specifies, for any number of workers, tasks and
\* requests.
THEOREM RefinesAgentJobs == Spec => ImplementsAgentJobs
<1>1. Init => J!Init
  BY InitBase
<1>2. Base /\ [Next]_vars => [J!Next]_(J!vars)
  BY NextStep DEF Simulated
<1> QED BY <1>1, <1>2, BaseInvariant, PTL DEF Spec, ImplementsAgentJobs, J!Spec

---------------------------------------------------------------------------
(* What a step may do to the capability tables *)

Closes ==
    \E R \in SUBSET Requests, status \in {"expired", "cancelled"},
       kind \in OutcomeKind \ {"result", "denied"} :
        (\A r \in R : IsOpen(r)) /\ Close(R, status, kind)

Creates(r) ==
    \E w \in Workers, a \in Asks : \E p \in proofs[w] : CreateRequest(r, w, p, a)

Issues(r) ==
    /\ creq[r].status \in {"waiting_approval", "approved"} /\ creq[r].left > 0
    /\ IssueGrant(r)

Denies(r) == creq[r].status = "waiting_approval" /\ Deny(r)

Consumes(r) ==
    /\ creq[r].status = "approved" /\ ~grant[r].consumed
    /\ creq' = [creq EXCEPT ![r].status = "consumed"]
    /\ grant' = [grant EXCEPT ![r].consumed = TRUE]
    /\ effects' = [effects EXCEPT ![r] = Append(@, grant[r].token)]
    /\ UNCHANGED <<result, outcomes>>

Reports(r) ==
    /\ creq[r].status = "consumed" /\ grant[r].consumed
    /\ \E o \in PhoneOutcomes :
          /\ result' = [result EXCEPT ![r] = o]
          /\ creq' = [creq EXCEPT ![r].status = o]
    /\ outcomes' = outcomes \cup {[req |-> r, kind |-> "result"]}
    /\ UNCHANGED <<grant, effects>>

Change ==
    \/ Closes
    \/ \E r \in Requests : Creates(r) \/ Issues(r) \/ Denies(r) \/ Consumes(r) \/ Reports(r)
    \/ Tick
    \/ UNCHANGED capVars

LEMMA NextChange == [Next]_vars => Change
<1> SUFFICES ASSUME [Next]_vars PROVE Change
  OBVIOUS
<1>1. ASSUME NEW r \in Requests, NEW d \in {"approve", "deny"}, Authorize(r, d) PROVE Change
  <2>1. IsOpen(r)
    BY <1>1 DEF Authorize, IsOpen, OpenStatus
  <2>2. ASSUME NEW s \in {"expired", "cancelled"}, Close({r}, s, s) PROVE Closes
    BY <2>1, <2>2 DEF Closes, OutcomeKind
  <2>3. ASSUME creq[r].left > 0, d = "approve", IssueGrant(r) PROVE Issues(r)
    BY <1>1, <2>3 DEF Authorize, Issues
  <2>4. ASSUME d = "deny", Deny(r) PROVE Denies(r)
    BY <1>1, <2>4 DEF Authorize, Denies
  <2> QED BY <1>1, <2>2, <2>3, <2>4 DEF Authorize, Change
<1>2. ASSUME NEW r \in Requests, NEW n, Consume(r, n) PROVE Change
  <2>1. IsOpen(r)
    BY <1>2 DEF Consume, Consumable, IsOpen, OpenStatus
  <2>2. ASSUME NEW s \in {"expired", "cancelled"}, Close({r}, s, s) PROVE Closes
    BY <2>1, <2>2 DEF Closes, OutcomeKind
  <2> QED BY <1>2, <2>2 DEF Consume, Consumable, Change, Consumes
<1>3. ASSUME NEW r \in Requests, NEW n, NEW o \in PhoneOutcomes, SubmitCapabilityResult(r, n, o)
      PROVE  Change
  <2>1. IsOpen(r)
    BY <1>3 DEF SubmitCapabilityResult, IsOpen, OpenStatus
  <2>2. ASSUME NEW s \in {"expired", "cancelled"}, Close({r}, s, s) PROVE Closes
    BY <2>1, <2>2 DEF Closes, OutcomeKind
  <2> QED BY <1>3, <2>2 DEF SubmitCapabilityResult, Change, Reports
<1>4. ASSUME NEW r \in Requests, WorkerAsks(r) \/ PhoneStep(r) PROVE Change
  BY <1>1, <1>2, <1>3, <1>4 DEF WorkerAsks, PhoneStep, Creates, Change
<1>5. CASE ExpireRequests
  <2>1. PICK R \in (SUBSET Due) \ {{}} : Close(R, "expired", "expired")
    BY <1>5 DEF ExpireRequests
  <2>2. \A r \in R : r \in Requests /\ IsOpen(r)
    BY DEF Due, IsOpen, OpenStatus
  <2> QED BY <2>1, <2>2 DEF Closes, OutcomeKind, Change
<1>6. ASSUME NEW S, NEW kind \in {"lease-cancelled", "task-cancelled"},
             Close(Withdrawn(S), "cancelled", kind)
      PROVE  Closes
  BY <1>6 DEF Withdrawn, Closes, OutcomeKind
<1>7. CASE ReapLeases
  BY <1>6, <1>7 DEF ReapLeases, Change
<1>8. ASSUME NEW t \in Tasks, CancelTask(t) PROVE Change
  <2>1. CASE J!ActiveJob(t)
    BY <1>6, <1>8, <2>1 DEF CancelTask, Change
  <2>2. CASE ~J!ActiveJob(t)
    BY <1>8, <2>2 DEF CancelTask, Change, Closes, OutcomeKind
  <2> QED BY <2>1, <2>2
<1>9. CASE OtherJobStep
  BY <1>9 DEF OtherJobStep, Change, capVars
<1>10. CASE UNCHANGED vars
  BY <1>10 DEF vars, Change, capVars
<1>11. CASE Tick
  BY <1>11 DEF Change
<1> QED BY <1>4, <1>5, <1>7, <1>8, <1>9, <1>10, <1>11 DEF Next

---------------------------------------------------------------------------
(* Grants: one effect, with the last grant, before the request expires *)

GrantOK(r) ==
    /\ creq[r].status \in {"none", "waiting_approval"} => grant[r] = NoGrant
    /\ creq[r].status = "approved" => ~grant[r].consumed /\ grant[r].left <= creq[r].left
    /\ creq[r].status = "consumed" => grant[r].consumed
    /\ creq[r].status = "approved" \/ grant[r].consumed => grant[r].token # 0
    /\ creq[r].status \in TerminalStatus => grant[r].consumed \/ grant[r].left = 0
    /\ effects[r] = IF grant[r].consumed THEN <<grant[r].token>> ELSE <<>>

GrantsOK == effects \in [Requests -> Seq(0..MaxGrants)] /\ \A r \in Requests : GrantOK(r)

\* A row whose columns do not change stays in order.
LEMMA SameGrant ==
  ASSUME NEW r \in Requests, GrantOK(r),
         creq'[r] = creq[r], grant'[r] = grant[r], effects'[r] = effects[r]
  PROVE  GrantOK(r)'
BY DEF GrantOK

LEMMA GrantChange ==
  ASSUME TablesOK, GrantsOK, Change, NEW q \in Requests
  PROVE  GrantOK(q)'
<1> USE DEF GrantsOK
<1>0. /\ creq[q] \in CapabilityRequest /\ grant[q] \in Grant
      /\ creq[q].left \in Nat /\ grant[q].left \in Nat
  BY CapabilitiesAssumption DEF TablesOK, CapabilityRequest, Grant
<1>1. CASE Closes
  <2>1. PICK R \in SUBSET Requests, s \in {"expired", "cancelled"},
             k \in OutcomeKind \ {"result", "denied"} :
          (\A r \in R : IsOpen(r)) /\ Close(R, s, k)
    BY <1>1 DEF Closes
  <2>2. CASE q \in R
    <3>1. /\ creq'[q] = [creq[q] EXCEPT !.status = s]
          /\ grant'[q] = [grant[q] EXCEPT !.left = 0] /\ effects'[q] = effects[q]
      BY <2>1, <2>2 DEF Close
    <3>2. /\ creq'[q].status = s /\ grant'[q].left = 0
          /\ grant'[q].consumed = grant[q].consumed /\ grant'[q].token = grant[q].token
      BY <1>0, <3>1 DEF CapabilityRequest, Grant
    <3> QED BY <3>1, <3>2 DEF GrantOK, TerminalStatus
  <2>3. CASE q \notin R
    <3>1. creq'[q] = creq[q] /\ grant'[q] = grant[q] /\ effects'[q] = effects[q]
      BY <2>1, <2>3 DEF Close
    <3> QED BY <3>1, SameGrant
  <2> QED BY <2>2, <2>3
<1>2. ASSUME NEW r \in Requests, Creates(r) PROVE GrantOK(q)'
  <2>1. /\ creq[r].status = "none" /\ grant' = grant /\ effects' = effects
        /\ \E x : x.status = "waiting_approval" /\ creq' = [creq EXCEPT ![r] = x]
    BY <1>2 DEF Creates, CreateRequest
  <2>2. CASE q = r
    BY <2>1, <2>2 DEF GrantOK, TablesOK, TerminalStatus
  <2>3. CASE q # r
    <3>1. creq'[q] = creq[q]
      BY <2>1, <2>3 DEF TablesOK
    <3> QED BY <2>1, <3>1, SameGrant
  <2> QED BY <2>2, <2>3
<1>3. ASSUME NEW r \in Requests, Issues(r) PROVE GrantOK(q)'
  <2>1. CASE q = r
    <3>1. /\ creq'[q] = [creq[q] EXCEPT !.status = "approved"]
          /\ grant'[q] = [token |-> grant[q].token + 1, left |-> GrantLife(q), consumed |-> FALSE]
          /\ effects'[q] = effects[q] /\ ~grant[q].consumed
      BY <1>3, <2>1 DEF Issues, IssueGrant, TablesOK
    <3>2. GrantLife(q) <= creq[q].left
      BY <1>0, CapabilitiesAssumption, SmallerType DEF GrantLife
    <3>3. creq'[q].status = "approved" /\ creq'[q].left = creq[q].left
      BY <1>0, <3>1 DEF CapabilityRequest
    <3>4. grant[q].token + 1 # 0
      BY <1>0 DEF Grant
    <3> QED BY <3>1, <3>2, <3>3, <3>4 DEF GrantOK, TerminalStatus
  <2>2. CASE q # r
    <3>1. creq'[q] = creq[q] /\ grant'[q] = grant[q] /\ effects'[q] = effects[q]
      BY <1>3, <2>2 DEF Issues, IssueGrant, TablesOK
    <3> QED BY <3>1, SameGrant
  <2> QED BY <2>1, <2>2
<1>4. ASSUME NEW r \in Requests, Denies(r) PROVE GrantOK(q)'
  <2>1. CASE q = r
    <3>1. creq'[q].status = "denied" /\ grant'[q] = grant[q] /\ effects'[q] = effects[q]
      BY <1>0, <1>4, <2>1 DEF Denies, Deny, TablesOK, CapabilityRequest
    <3> QED BY <1>4, <2>1, <3>1 DEF Denies, GrantOK, TerminalStatus, NoGrant
  <2>2. CASE q # r
    <3>1. creq'[q] = creq[q] /\ grant'[q] = grant[q] /\ effects'[q] = effects[q]
      BY <1>4, <2>2 DEF Denies, Deny, TablesOK
    <3> QED BY <3>1, SameGrant
  <2> QED BY <2>1, <2>2
<1>5. ASSUME NEW r \in Requests, Consumes(r) PROVE GrantOK(q)'
  <2>1. CASE q = r
    <3>1. /\ grant'[q] = [grant[q] EXCEPT !.consumed = TRUE]
          /\ effects'[q] = Append(effects[q], grant[q].token)
          /\ creq'[q] = [creq[q] EXCEPT !.status = "consumed"]
      BY <1>5, <2>1 DEF Consumes, TablesOK
    <3>2. /\ grant'[q].consumed = TRUE /\ grant'[q].token = grant[q].token
          /\ creq'[q].status = "consumed"
      BY <1>0, <3>1 DEF Grant, CapabilityRequest
    <3>3. effects[q] = <<>> /\ grant[q].token # 0
      BY <1>5, <2>1 DEF Consumes, GrantOK
    <3>4. effects'[q] = <<grant[q].token>>
      BY <3>1, <3>3
    <3> QED BY <3>2, <3>3, <3>4 DEF GrantOK, TerminalStatus
  <2>2. CASE q # r
    <3>1. creq'[q] = creq[q] /\ grant'[q] = grant[q] /\ effects'[q] = effects[q]
      BY <1>5, <2>2 DEF Consumes, TablesOK
    <3> QED BY <3>1, SameGrant
  <2> QED BY <2>1, <2>2
<1>6. ASSUME NEW r \in Requests, Reports(r) PROVE GrantOK(q)'
  <2>1. CASE q = r
    <3>1. creq'[q].status \in TerminalStatus /\ grant'[q] = grant[q] /\ effects'[q] = effects[q]
      BY <1>0, <1>6, <2>1, CapabilitiesAssumption
      DEF Reports, TablesOK, CapabilityRequest, TerminalStatus
    <3> QED BY <1>6, <2>1, <3>1 DEF Reports, GrantOK, TerminalStatus
  <2>2. CASE q # r
    <3>1. creq'[q] = creq[q] /\ grant'[q] = grant[q] /\ effects'[q] = effects[q]
      BY <1>6, <2>2 DEF Reports, TablesOK
    <3> QED BY <3>1, SameGrant
  <2> QED BY <2>1, <2>2
<1>7. CASE Tick
  <2>1. /\ creq'[q] = [creq[q] EXCEPT !.left = OneLess(@)]
        /\ grant'[q] = [grant[q] EXCEPT !.left = OneLess(@)] /\ effects'[q] = effects[q]
    BY <1>7 DEF Tick
  <2>2. /\ creq'[q].status = creq[q].status /\ creq'[q].left = OneLess(creq[q].left)
        /\ grant'[q].left = OneLess(grant[q].left)
        /\ grant'[q].consumed = grant[q].consumed /\ grant'[q].token = grant[q].token
    BY <1>0, <2>1 DEF CapabilityRequest, Grant
  <2>3. grant[q] = NoGrant => grant'[q] = NoGrant
    BY <2>1 DEF NoGrant, OneLess
  <2>4. grant[q].left <= creq[q].left => grant'[q].left <= creq'[q].left
    BY <1>0, <2>2 DEF OneLess
  <2>5. grant[q].left = 0 => grant'[q].left = 0
    BY <2>2 DEF OneLess
  <2> QED BY <2>1, <2>2, <2>3, <2>4, <2>5 DEF GrantOK
<1>8. CASE UNCHANGED capVars
  BY <1>8, SameGrant DEF capVars
<1> QED BY <1>1, <1>2, <1>3, <1>4, <1>5, <1>6, <1>7, <1>8 DEF Change

LEMMA EffectsChange ==
  ASSUME TablesOK, GrantsOK, Change
  PROVE  effects' \in [Requests -> Seq(0..MaxGrants)]
<1>1. ASSUME NEW r \in Requests, Consumes(r) PROVE effects' \in [Requests -> Seq(0..MaxGrants)]
  <2>1. grant[r].token \in 0..MaxGrants
    BY DEF TablesOK, Grant
  <2>2. Append(effects[r], grant[r].token) \in Seq(0..MaxGrants)
    BY <2>1 DEF GrantsOK
  <2> QED BY <1>1, <2>2 DEF Consumes, GrantsOK
<1>2. CASE UNCHANGED effects
  BY <1>2 DEF GrantsOK
<1> QED BY <1>1, <1>2 DEF Change, Closes, Close, Creates, CreateRequest, Issues, IssueGrant,
        Denies, Deny, Reports, Tick, capVars

LEMMA GrantsInvariant == Spec => []GrantsOK
<1>1. Init => GrantsOK
  BY CapabilitiesAssumption DEF Init, GrantsOK, GrantOK, Unasked, NoGrant, TerminalStatus
<1>2. Base /\ GrantsOK /\ [Next]_vars => GrantsOK'
  BY NextChange, GrantChange, EffectsChange DEF GrantsOK, Base
<1> QED BY <1>1, <1>2, BaseInvariant, PTL DEF Spec

\* consume confirms at most one effect for each request, and only with the grant
\* issued last: a rotated, repeated or late grant confirms nothing.
THEOREM OneEffect == Spec => []OneEffectPerRequest
<1>1. GrantsOK => OneEffectPerRequest
  BY DEF GrantsOK, GrantOK, OneEffectPerRequest
<1> QED BY <1>1, GrantsInvariant, PTL

\* A grant that consume would still honour belongs to an approved request that
\* has not expired.
THEOREM GrantsExpire == Spec => []GrantDiesWithRequest
<1>1. TablesOK /\ GrantsOK => GrantDiesWithRequest
  <2> SUFFICES ASSUME TablesOK, GrantsOK, NEW r \in Requests,
                      grant[r].token > 0, ~grant[r].consumed, grant[r].left > 0
               PROVE  creq[r].status = "approved" /\ grant[r].left <= creq[r].left
    BY DEF GrantDiesWithRequest
  <2>1. creq[r].status \in {"none"} \cup OpenStatus \cup TerminalStatus
    BY DEF TablesOK, CapabilityRequest
  <2>2. GrantOK(r)
    BY DEF GrantsOK
  <2>3. grant[r] # NoGrant
    BY DEF NoGrant
  <2>4. grant[r].left \in Nat
    BY CapabilitiesAssumption DEF TablesOK, Grant
  <2> QED BY <2>1, <2>2, <2>3, <2>4 DEF GrantOK, OpenStatus
<1> QED BY <1>1, GrantsInvariant, BaseInvariant, PTL DEF Base

---------------------------------------------------------------------------
(* Deadlines *)

\* what a change does to a request that exists
OneWay(r) ==
    creq[r].status # "none" =>
        /\ creq'[r].left <= creq[r].left
        /\ creq'[r].status # creq[r].status =>
              creq[r].status \in OpenStatus
                  /\ creq'[r].status \in {"approved", "consumed"} \cup TerminalStatus

LEMMA SameRow ==
  ASSUME TablesOK, NEW r \in Requests, creq'[r] = creq[r] PROVE OneWay(r)
<1>1. creq[r].left \in Nat
  BY CapabilitiesAssumption DEF TablesOK, CapabilityRequest
<1> QED BY <1>1 DEF OneWay

LEMMA NewStatus ==
  ASSUME TablesOK, NEW q \in Requests, creq[q].status \in OpenStatus,
         NEW s \in {"approved", "consumed"} \cup TerminalStatus,
         creq' = [creq EXCEPT ![q].status = s], NEW r \in Requests
  PROVE  OneWay(r)
<1>1. creq[r].left \in Nat
  BY CapabilitiesAssumption DEF TablesOK, CapabilityRequest
<1>2. CASE r # q
  BY <1>2, SameRow DEF TablesOK
<1>3. CASE r = q
  <2>1. creq'[r].left = creq[r].left /\ creq'[r].status = s
    BY <1>3 DEF TablesOK, CapabilityRequest
  <2> QED BY <1>1, <1>3, <2>1 DEF OneWay
<1> QED BY <1>2, <1>3

LEMMA ChangeIsOneWay ==
  ASSUME TablesOK, Change, NEW r \in Requests
  PROVE  OneWay(r)
<1>0. creq[r].left \in Nat /\ PhoneOutcomes \subseteq TerminalStatus
  BY CapabilitiesAssumption DEF TablesOK, CapabilityRequest, TerminalStatus
<1>1. CASE Closes
  <2>1. PICK R \in SUBSET Requests, s \in {"expired", "cancelled"} :
           /\ \A x \in R : IsOpen(x)
           /\ creq' = [x \in Requests |-> IF x \in R THEN [creq[x] EXCEPT !.status = s] ELSE creq[x]]
    BY <1>1 DEF Closes, Close
  <2>2. CASE r \notin R
    BY <2>1, <2>2, SameRow
  <2>3. CASE r \in R
    <3>1. creq'[r] = [creq[r] EXCEPT !.status = s] /\ creq[r] \in CapabilityRequest
      BY <2>1, <2>3 DEF TablesOK
    <3>2. creq'[r].left = creq[r].left /\ creq'[r].status = s
      BY <3>1 DEF CapabilityRequest
    <3> QED BY <1>0, <2>1, <2>3, <3>2 DEF OneWay, IsOpen, TerminalStatus
  <2> QED BY <2>2, <2>3
<1>2. ASSUME NEW q \in Requests, Creates(q) PROVE OneWay(r)
  <2>1. creq[q].status = "none" /\ (r # q => creq'[r] = creq[r])
    BY <1>2 DEF Creates, CreateRequest, TablesOK
  <2>2. CASE r = q
    BY <2>1, <2>2 DEF OneWay
  <2> QED BY <2>1, <2>2, SameRow
<1>3. ASSUME NEW q \in Requests, Issues(q) \/ Denies(q) \/ Consumes(q) PROVE OneWay(r)
  <2>1. PICK s \in {"approved", "consumed", "denied"} : creq' = [creq EXCEPT ![q].status = s]
    BY <1>3 DEF Issues, IssueGrant, Denies, Deny, Consumes
  <2>2. creq[q].status \in OpenStatus
    BY <1>3 DEF Issues, Denies, Consumes, OpenStatus
  <2>3. s \in {"approved", "consumed"} \cup TerminalStatus
    BY DEF TerminalStatus
  <2> QED BY <2>1, <2>2, <2>3, NewStatus
<1>4. ASSUME NEW q \in Requests, Reports(q) PROVE OneWay(r)
  BY <1>0, <1>4, NewStatus DEF Reports, OpenStatus
<1>5. CASE Tick
  <2>1. creq'[r] = [creq[r] EXCEPT !.left = OneLess(creq[r].left)] /\ creq[r] \in CapabilityRequest
    BY <1>5 DEF Tick, TablesOK
  <2>2. creq'[r].left = OneLess(creq[r].left) /\ creq'[r].status = creq[r].status
    BY <2>1 DEF CapabilityRequest
  <2> QED BY <1>0, <2>2 DEF OneLess, OneWay
<1>6. CASE UNCHANGED capVars
  BY <1>6, SameRow DEF capVars
<1> QED BY <1>1, <1>2, <1>3, <1>4, <1>5, <1>6 DEF Change

\* No decision, rotation or consumption gives a request more time, and an ended
\* request stays as it ended.
THEOREM DeadlinesAreKept == Spec => DeadlineKept
<1>1. TablesOK /\ [Next]_vars =>
        [\A r \in Requests : creq[r].status # "none" =>
            /\ creq'[r].left <= creq[r].left
            /\ creq'[r].status # creq[r].status =>
                  creq[r].status \in OpenStatus
                      /\ creq'[r].status \in {"approved", "consumed"} \cup TerminalStatus]_vars
  BY NextChange, ChangeIsOneWay DEF OneWay
<1> QED BY <1>1, BaseInvariant, PTL DEF Base, Spec, DeadlineKept

\* A request whose time is over is one that expire_requests ends: the grant of
\* an approved one has never more time left than the request.
THEOREM DeadlineIsFound == Spec => []DueAtDeadline
<1>1. TablesOK /\ GrantsOK => DueAtDeadline
  <2> SUFFICES ASSUME TablesOK, GrantsOK, NEW r \in Requests, IsOpen(r), creq[r].left = 0
               PROVE  r \in Due
    BY DEF DueAtDeadline
  <2>1. GrantOK(r)
    BY DEF GrantsOK
  <2>2. grant[r].left \in Nat
    BY CapabilitiesAssumption DEF TablesOK, Grant
  <2>3. creq[r].status = "approved" => grant[r].left = 0
    BY <2>1, <2>2 DEF GrantOK
  <2> QED BY <2>3 DEF Due, IsOpen, OpenStatus
<1> QED BY <1>1, GrantsInvariant, BaseInvariant, PTL DEF Base

---------------------------------------------------------------------------
(* One live request per question *)

LEMMA AskRow ==
  ASSUME TablesOK, Change, NEW r \in Requests, IsOpen(r)'
  PROVE  \/ /\ IsOpen(r) /\ creq'[r].task = creq[r].task /\ creq'[r].gen = creq[r].gen
            /\ creq'[r].ask = creq[r].ask /\ creq'[r].agent = creq[r].agent
         \/ Creates(r)
<1>0. creq[r] \in CapabilityRequest
  BY DEF TablesOK
<1>1. CASE Closes
  <2>1. PICK R \in SUBSET Requests, s \in {"expired", "cancelled"} :
          creq' = [q \in Requests |-> IF q \in R THEN [creq[q] EXCEPT !.status = s] ELSE creq[q]]
    BY <1>1 DEF Closes, Close
  <2>2. r \notin R
    BY <1>0, <2>1 DEF IsOpen, OpenStatus, CapabilityRequest
  <2> QED BY <2>1, <2>2 DEF IsOpen
<1>2. ASSUME NEW q \in Requests, NEW s,
             creq' = [creq EXCEPT ![q].status = s], IsOpen(q)
      PROVE  /\ IsOpen(r) /\ creq'[r].task = creq[r].task /\ creq'[r].gen = creq[r].gen
             /\ creq'[r].ask = creq[r].ask /\ creq'[r].agent = creq[r].agent
  BY <1>0, <1>2 DEF IsOpen, CapabilityRequest, TablesOK
<1>3. ASSUME NEW q \in Requests, Issues(q) \/ Denies(q) \/ Consumes(q) \/ Reports(q)
      PROVE  /\ IsOpen(r) /\ creq'[r].task = creq[r].task /\ creq'[r].gen = creq[r].gen
             /\ creq'[r].ask = creq[r].ask /\ creq'[r].agent = creq[r].agent
  <2>1. IsOpen(q) /\ \E s : creq' = [creq EXCEPT ![q].status = s]
    BY <1>3 DEF Issues, IssueGrant, Denies, Deny, Consumes, Reports, IsOpen, OpenStatus
  <2> QED BY <1>2, <2>1
<1>4. ASSUME NEW q \in Requests, Creates(q), q # r
      PROVE  creq'[r] = creq[r]
  BY <1>4 DEF Creates, CreateRequest, TablesOK
<1>5. CASE Tick
  <2>1. creq'[r] = [creq[r] EXCEPT !.left = OneLess(@)]
    BY <1>5 DEF Tick
  <2> QED BY <1>0, <2>1 DEF IsOpen, CapabilityRequest
<1>6. CASE UNCHANGED capVars
  BY <1>6 DEF capVars, IsOpen
<1> QED BY <1>1, <1>3, <1>4, <1>5, <1>6 DEF Change, IsOpen

LEMMA AskChange ==
  ASSUME TablesOK, Change, OneOpenRequestPerAsk
  PROVE  OneOpenRequestPerAsk'
<1> SUFFICES ASSUME NEW r \in Requests, NEW s \in Requests, IsOpen(r)', IsOpen(s)',
                    creq'[r].task = creq'[s].task, creq'[r].gen = creq'[s].gen,
                    creq'[r].ask = creq'[s].ask, r # s
             PROVE  FALSE
  BY DEF OneOpenRequestPerAsk
<1>1. ASSUME NEW x \in Requests, NEW y \in Requests, x # y, Creates(x), IsOpen(y)',
             creq'[x].task = creq'[y].task, creq'[x].gen = creq'[y].gen,
             creq'[x].ask = creq'[y].ask
      PROVE  FALSE
  <2>0. PICK w \in Workers, a \in Asks : \E p \in proofs[w] : CreateRequest(x, w, p, a)
    BY <1>1 DEF Creates
  <2>1. PICK p \in proofs[w] : CreateRequest(x, w, p, a)
    BY <2>0
  <2>2. /\ creq'[x].task = p.task /\ creq'[x].gen = p.gen /\ creq'[x].ask = a
        /\ creq'[y] = creq[y]
    BY <1>1, <2>1 DEF CreateRequest, TablesOK
  <2>3. y \in Asked(p.task, p.gen, a)
    BY <1>1, <2>2 DEF Asked, IsOpen
  <2> QED BY <2>1, <2>3 DEF CreateRequest
<1>2. ~Creates(r) /\ ~Creates(s)
  BY <1>1
<1> QED BY <1>2, AskRow DEF OneOpenRequestPerAsk

\* create_request never leaves two live requests with one fingerprint, whatever
\* ended the earlier ones.
THEOREM OneRequestPerAsk == Spec => []OneOpenRequestPerAsk
<1>1. Init => OneOpenRequestPerAsk
  BY DEF Init, OneOpenRequestPerAsk, IsOpen, OpenStatus, Unasked
<1>2. Base /\ OneOpenRequestPerAsk /\ [Next]_vars => OneOpenRequestPerAsk'
  BY NextChange, AskChange DEF Base
<1> QED BY <1>1, <1>2, BaseInvariant, PTL DEF Spec

---------------------------------------------------------------------------
(* Effects of one job under one lease *)

\* Who asked was given the lease under which it asked.
AskersOK ==
    \A r \in Requests : creq[r].status # "none" =>
        /\ creq[r].agent \in Workers
        /\ \E p \in proofs[creq[r].agent] : p.task = creq[r].task /\ p.gen = creq[r].gen

LEMMA RowKept ==
  ASSUME TablesOK, Change, NEW r \in Requests, creq'[r].status # "none"
  PROVE  \/ /\ creq[r].status # "none" /\ creq'[r].task = creq[r].task
            /\ creq'[r].gen = creq[r].gen /\ creq'[r].agent = creq[r].agent
         \/ Creates(r)
<1>0. creq[r] \in CapabilityRequest
  BY DEF TablesOK
<1>1. CASE Closes
  <2>1. PICK R \in SUBSET Requests, s \in {"expired", "cancelled"} :
          /\ creq' = [q \in Requests |-> IF q \in R THEN [creq[q] EXCEPT !.status = s] ELSE creq[q]]
          /\ \A q \in R : IsOpen(q)
    BY <1>1 DEF Closes, Close
  <2> QED BY <1>0, <2>1 DEF IsOpen, OpenStatus, CapabilityRequest
<1>2. ASSUME NEW q \in Requests, NEW s,
             creq' = [creq EXCEPT ![q].status = s], IsOpen(q)
      PROVE  /\ creq[r].status # "none" /\ creq'[r].task = creq[r].task
             /\ creq'[r].gen = creq[r].gen /\ creq'[r].agent = creq[r].agent
  BY <1>0, <1>2 DEF IsOpen, OpenStatus, CapabilityRequest, TablesOK
<1>3. ASSUME NEW q \in Requests, Issues(q) \/ Denies(q) \/ Consumes(q) \/ Reports(q)
      PROVE  /\ creq[r].status # "none" /\ creq'[r].task = creq[r].task
             /\ creq'[r].gen = creq[r].gen /\ creq'[r].agent = creq[r].agent
  <2>1. IsOpen(q) /\ \E s : creq' = [creq EXCEPT ![q].status = s]
    BY <1>3 DEF Issues, IssueGrant, Denies, Deny, Consumes, Reports, IsOpen, OpenStatus
  <2> QED BY <1>2, <2>1
<1>4. ASSUME NEW q \in Requests, Creates(q), q # r
      PROVE  creq'[r] = creq[r]
  BY <1>4 DEF Creates, CreateRequest, TablesOK
<1>5. CASE Tick
  <2>1. creq'[r] = [creq[r] EXCEPT !.left = OneLess(@)]
    BY <1>5 DEF Tick
  <2> QED BY <1>0, <2>1 DEF CapabilityRequest
<1>6. CASE UNCHANGED capVars
  BY <1>6 DEF capVars
<1> QED BY <1>1, <1>3, <1>4, <1>5, <1>6 DEF Change

\* Claims add proofs, nothing takes them away.
LEMMA ProofsGrow ==
  ASSUME Base, [Next]_vars, NEW w \in Workers
  PROVE  proofs[w] \subseteq proofs'[w]
<1>1. ASSUME NEW v \in Workers, NEW t \in Tasks, J!Claim(v, t) PROVE proofs[w] \subseteq proofs'[w]
  BY <1>1 DEF J!Claim, Base, J!IInv, J!TypeOK
<1>2. CASE UNCHANGED proofs
  BY <1>2
<1>3. Simulated
  BY NextStep
<1>4. ASSUME NEW v \in Workers, J!WorkerStep(v) PROVE proofs[w] \subseteq proofs'[w]
  BY <1>1, <1>2, <1>4 DEF J!WorkerStep, J!ClaimNothing, J!Heartbeat, J!SubmitResult
<1>5. ASSUME NEW t \in Tasks, J!TaskStep(t) PROVE UNCHANGED proofs
  BY <1>5 DEF J!TaskStep, J!PlanTask, J!LocalToolStep, J!ContextChanges, J!QueueJob, J!CancelNative
<1>6. CASE J!ControlPlaneStep
  BY <1>2, <1>6 DEF J!ControlPlaneStep, J!ReplacePolicy, J!QuarantineRevoked, J!CancelStaleGoalJobs
<1>7. CASE J!LeaseRevoked
  BY <1>2, <1>7 DEF J!LeaseRevoked, J!Reap, J!ReapRows, J!CancelTask, J!CancelRows
<1>8. CASE J!CapabilityStep
  BY <1>2, <1>8 DEF J!CapabilityStep, J!CloseOpen, J!OpenRequest
<1>9. ASSUME NEW v \in Workers, J!PresenceChanges(v) PROVE UNCHANGED proofs
  BY <1>9 DEF J!PresenceChanges
<1>10. CASE J!Tick
  BY <1>2, <1>10 DEF J!Tick
<1>11. CASE UNCHANGED J!vars
  BY <1>2, <1>11 DEF J!vars
<1> QED BY <1>2, <1>3, <1>4, <1>5, <1>6, <1>7, <1>8, <1>9, <1>10, <1>11 DEF Simulated, J!Next

LEMMA AskersInvariant == Spec => []AskersOK
<1>1. Init => AskersOK
  BY DEF Init, AskersOK, Unasked
<1>2. Base /\ AskersOK /\ [Next]_vars => AskersOK'
  <2> SUFFICES ASSUME Base, AskersOK, [Next]_vars, NEW r \in Requests, creq'[r].status # "none"
      PROVE /\ creq'[r].agent \in Workers
            /\ \E p \in proofs'[creq'[r].agent] : p.task = creq'[r].task /\ p.gen = creq'[r].gen
    BY DEF AskersOK
  <2>1. Change /\ TablesOK
    BY NextChange DEF Base
  <2>2. CASE /\ creq[r].status # "none" /\ creq'[r].task = creq[r].task
             /\ creq'[r].gen = creq[r].gen /\ creq'[r].agent = creq[r].agent
    BY <2>2, ProofsGrow DEF AskersOK
  <2>3. CASE Creates(r)
    <3>0. PICK w \in Workers, a \in Asks : \E p \in proofs[w] : CreateRequest(r, w, p, a)
      BY <2>3 DEF Creates
    <3>1. PICK p \in proofs[w] : CreateRequest(r, w, p, a)
      BY <3>0
    <3>2. /\ creq'[r].agent = w /\ creq'[r].task = p.task /\ creq'[r].gen = p.gen
      BY <2>1, <3>1 DEF CreateRequest, TablesOK
    <3>3. p \in proofs'[w]
      BY <3>1, ProofsGrow
    <3> QED BY <3>2, <3>3
  <2> QED BY <2>1, <2>2, <2>3, RowKept
<1> QED BY <1>1, <1>2, BaseInvariant, PTL DEF Spec

\* All the effects a job ever causes on the phone are caused under one lease, held
\* by one worker: the reaper and cancel_task never let a second lease ask again.
THEOREM OneLeaseCausesEffects == Spec => []EffectsUnderOneLease
<1>1. ASSUME GrantsOK, AskersOK, J!CapabilityPinsLease, J!GenerationNamesClaim, Base
      PROVE  EffectsUnderOneLease
  <2> SUFFICES ASSUME NEW r \in Requests, NEW s \in Requests,
                      effects[r] # <<>>, effects[s] # <<>>, creq[r].task = creq[s].task
               PROVE  creq[r].gen = creq[s].gen /\ creq[r].agent = creq[s].agent
    BY DEF EffectsUnderOneLease
  <2>1. ASSUME NEW q \in Requests, effects[q] # <<>> PROVE creq[q].status # "none"
    BY <1>1, <2>1 DEF GrantsOK, GrantOK, NoGrant
  <2>2. PICK p \in proofs[creq[r].agent] : p.task = creq[r].task /\ p.gen = creq[r].gen
    BY <1>1, <2>1 DEF AskersOK
  <2>3. PICK u \in proofs[creq[s].agent] : u.task = creq[s].task /\ u.gen = creq[s].gen
    BY <1>1, <2>1 DEF AskersOK
  <2>4. creq[r].agent \in Workers /\ creq[s].agent \in Workers
    BY <1>1, <2>1 DEF AskersOK
  <2>5. /\ <<creq[r].agent, p>> \in J!Handed(creq[r].task)
        /\ <<creq[s].agent, u>> \in J!Handed(creq[r].task)
    BY <2>2, <2>3, <2>4 DEF J!Handed
  <2>6. ASSUME NEW q \in Requests, creq[q].status # "none"
        PROVE  \A h \in J!Handed(creq[q].task) : h[2].gen <= creq[q].gen
    BY <1>1, <2>6 DEF J!CapabilityPinsLease, AbstractRequests
  <2>7. u.gen <= creq[r].gen
    BY <2>1, <2>5, <2>6
  <2>8. p.gen <= creq[s].gen
    BY <2>1, <2>5, <2>6
  <2>9. creq[r].gen \in Nat /\ creq[s].gen \in Nat
    BY <1>1 DEF Base, TablesOK, CapabilityRequest
  <2>10. p.gen = u.gen
    BY <2>2, <2>3, <2>7, <2>8, <2>9
  <2>11. p.task \in Tasks
    BY <1>1, <2>2, <2>4 DEF Base, J!IInv, J!TypeOK, J!Proof
  <2>12. <<creq[r].agent, p>> = <<creq[s].agent, u>>
    BY <1>1, <2>2, <2>5, <2>10, <2>11 DEF J!GenerationNamesClaim
  <2> QED BY <2>2, <2>3, <2>10, <2>12
<1>2. J!Spec => []J!CapabilityPinsLease
  BY SharedAssumption, J!CapabilityEndsRetries
<1>3. J!Spec => []J!GenerationNamesClaim
  BY SharedAssumption, J!GenerationUnique
<1>4. Spec => J!Spec
  BY RefinesAgentJobs DEF ImplementsAgentJobs
<1> QED BY <1>1, <1>2, <1>3, <1>4, GrantsInvariant, AskersInvariant, BaseInvariant, PTL

---------------------------------------------------------------------------
(* The worker is told once *)

Told(r, kind) == [req |-> r, kind |-> kind]

OutcomesOK ==
    /\ outcomes \in SUBSET [req : Requests, kind : OutcomeKind]
    /\ result \in [Requests -> {"none"} \cup PhoneOutcomes]
    /\ \A e \in outcomes : creq[e.req].status \in TerminalStatus
    /\ \A e, f \in outcomes : e.req = f.req => e = f
    /\ \A r \in Requests : creq[r].status \in TerminalStatus => \E e \in outcomes : e.req = r
    /\ \A r \in Requests :
          /\ result[r] # "none" => result[r] = creq[r].status /\ grant[r].consumed
          /\ result[r] # "none" <=> Told(r, "result") \in outcomes

LEMMA ResultIsOutcome ==
  ASSUME OutcomesOK, NEW r \in Requests, result[r] # "none"
  PROVE  creq[r].status \in TerminalStatus /\ grant[r].consumed
<1>1. result[r] \in PhoneOutcomes /\ result[r] = creq[r].status /\ grant[r].consumed
  BY DEF OutcomesOK
<1>2. PhoneOutcomes \subseteq TerminalStatus
  BY CapabilitiesAssumption DEF TerminalStatus
<1> QED BY <1>1, <1>2

\* Nothing is told, and no row enters or leaves a terminal status.
LEMMA NothingTold ==
  ASSUME OutcomesOK, UNCHANGED <<outcomes, result>>,
         \A r \in Requests :
            /\ creq'[r].status \in TerminalStatus <=> creq[r].status \in TerminalStatus
            /\ creq[r].status \in TerminalStatus => creq'[r].status = creq[r].status
            /\ grant[r].consumed => grant'[r].consumed
  PROVE  OutcomesOK'
<1>1. \A e \in outcomes : e.req \in Requests
  BY DEF OutcomesOK
<1>2. \A r \in Requests : result[r] # "none" =>
         creq[r].status \in TerminalStatus /\ grant[r].consumed
  BY ResultIsOutcome
<1> QED BY <1>1, <1>2 DEF OutcomesOK, Told

\* The rows of R end, and each is told of once; no result is stored.
LEMMA EndTold ==
  ASSUME OutcomesOK, NEW R \in SUBSET Requests, NEW status \in TerminalStatus,
         NEW kind \in OutcomeKind \ {"result"},
         \A r \in R : IsOpen(r),
         \A r \in Requests :
            /\ r \in R => creq'[r].status = status
            /\ r \notin R => creq'[r].status = creq[r].status
            /\ grant[r].consumed => grant'[r].consumed,
         outcomes' = outcomes \cup {Told(r, kind) : r \in R}, result' = result
  PROVE  OutcomesOK'
<1>1. \A e \in outcomes : e.req \in Requests /\ e.req \notin R
  BY DEF OutcomesOK, IsOpen, OpenStatus, TerminalStatus
<1>2. \A r \in R : result[r] = "none"
  BY ResultIsOutcome DEF IsOpen, OpenStatus, TerminalStatus
<1>3. \A e \in outcomes' \ outcomes : e.req \in R /\ e = Told(e.req, kind)
  BY DEF Told
<1>4. outcomes' \in SUBSET [req : Requests, kind : OutcomeKind]
  BY DEF OutcomesOK, Told
<1>5. \A e \in outcomes' : creq'[e.req].status \in TerminalStatus
  BY <1>1, <1>3 DEF OutcomesOK
<1>6. \A e, f \in outcomes' : e.req = f.req => e = f
  BY <1>1, <1>3 DEF OutcomesOK
<1>7. ASSUME NEW r \in Requests, creq'[r].status \in TerminalStatus
      PROVE \E e \in outcomes' : e.req = r
  <2>1. CASE r \in R
    <3>1. Told(r, kind) \in outcomes' /\ Told(r, kind).req = r
      BY <2>1 DEF Told
    <3> QED BY <3>1
  <2>2. CASE r \notin R
    BY <1>7, <2>2 DEF OutcomesOK
  <2> QED BY <2>1, <2>2
<1>8. \A r \in Requests : Told(r, "result") \in outcomes' <=> Told(r, "result") \in outcomes
  BY DEF Told
<1>9. ASSUME NEW r \in Requests
      PROVE /\ result'[r] # "none" => result'[r] = creq'[r].status /\ grant'[r].consumed
            /\ result'[r] # "none" <=> Told(r, "result") \in outcomes'
  <2>1. result'[r] # "none" <=> Told(r, "result") \in outcomes'
    BY <1>8 DEF OutcomesOK
  <2>2. CASE r \in R
    BY <1>2, <2>1, <2>2
  <2>3. CASE r \notin R
    BY <2>1, <2>3 DEF OutcomesOK
  <2> QED BY <2>2, <2>3
<1> QED BY <1>4, <1>5, <1>6, <1>7, <1>9 DEF OutcomesOK, Told

LEMMA ReportTold ==
  ASSUME TablesOK, OutcomesOK, NEW r \in Requests, Reports(r)
  PROVE  OutcomesOK'
<1>0. PICK o \in PhoneOutcomes : result' = [result EXCEPT ![r] = o]
                              /\ creq' = [creq EXCEPT ![r].status = o]
  BY DEF Reports
<1>1. o \in TerminalStatus /\ o # "none" /\ "result" \in OutcomeKind
  BY CapabilitiesAssumption DEF TerminalStatus, OutcomeKind
<1>2. /\ outcomes' = outcomes \cup {Told(r, "result")} /\ grant' = grant
      /\ grant[r].consumed /\ creq[r].status = "consumed"
  BY DEF Reports, Told
<1>3. /\ creq'[r].status = o /\ result'[r] = o
      /\ \A q \in Requests \ {r} : creq'[q] = creq[q] /\ result'[q] = result[q]
  <2>1. creq[r] \in CapabilityRequest
    BY DEF TablesOK
  <2> QED BY <1>0, <2>1 DEF TablesOK, OutcomesOK, CapabilityRequest
<1>4. \A e \in outcomes : e.req \in Requests /\ e.req # r
  BY <1>2 DEF OutcomesOK, TerminalStatus
<1>5. Told(r, "result").req = r /\ Told(r, "result") \in [req : Requests, kind : OutcomeKind]
  BY <1>1 DEF Told
<1>6. outcomes' \in SUBSET [req : Requests, kind : OutcomeKind]
  BY <1>2, <1>5 DEF OutcomesOK
<1>7. result' \in [Requests -> {"none"} \cup PhoneOutcomes]
  BY <1>0 DEF OutcomesOK
<1>8. /\ \A e \in outcomes' : creq'[e.req].status \in TerminalStatus
      /\ \A e, f \in outcomes' : e.req = f.req => e = f
  BY <1>1, <1>2, <1>3, <1>4, <1>5 DEF OutcomesOK
<1>9. \A q \in Requests : creq'[q].status \in TerminalStatus => \E e \in outcomes' : e.req = q
  BY <1>2, <1>3, <1>5 DEF OutcomesOK
<1>10. ASSUME NEW q \in Requests
       PROVE /\ result'[q] # "none" => result'[q] = creq'[q].status /\ grant'[q].consumed
             /\ result'[q] # "none" <=> Told(q, "result") \in outcomes'
  <2>1. CASE q = r
    BY <1>1, <1>2, <1>3, <2>1
  <2>2. CASE q # r
    <3>1. Told(q, "result") # Told(r, "result")
      BY <2>2 DEF Told
    <3>2. /\ result'[q] = result[q] /\ creq'[q] = creq[q] /\ grant'[q] = grant[q]
          /\ Told(q, "result") \in outcomes' <=> Told(q, "result") \in outcomes
      BY <1>2, <1>3, <2>2, <3>1
    <3>3. /\ result[q] # "none" => result[q] = creq[q].status /\ grant[q].consumed
          /\ result[q] # "none" <=> Told(q, "result") \in outcomes
      BY DEF OutcomesOK
    <3> QED BY <3>2, <3>3
  <2> QED BY <2>1, <2>2
<1> QED BY <1>6, <1>7, <1>8, <1>9, <1>10 DEF OutcomesOK, Told

LEMMA OutcomesChange ==
  ASSUME TablesOK, GrantsOK, OutcomesOK, Change
  PROVE  OutcomesOK'
<1>0. \A q \in Requests : creq[q] \in CapabilityRequest /\ grant[q] \in Grant
  BY DEF TablesOK
<1>1. CASE Closes
  <2>1. PICK R \in SUBSET Requests, s \in {"expired", "cancelled"},
             k \in OutcomeKind \ {"result", "denied"} :
          (\A r \in R : IsOpen(r)) /\ Close(R, s, k)
    BY <1>1 DEF Closes
  <2>2. s \in TerminalStatus
    BY DEF TerminalStatus
  <2>3. ASSUME NEW q \in Requests
        PROVE /\ q \in R => creq'[q].status = s
              /\ q \notin R => creq'[q].status = creq[q].status
              /\ grant[q].consumed => grant'[q].consumed
    BY <1>0, <2>1 DEF Close, CapabilityRequest, Grant
  <2>4. outcomes' = outcomes \cup {Told(r, k) : r \in R} /\ result' = result
    BY <2>1 DEF Close, Told
  <2> QED BY <2>1, <2>2, <2>3, <2>4, EndTold
<1>2. ASSUME NEW r \in Requests, Creates(r) PROVE OutcomesOK'
  <2>1. /\ creq[r].status = "none" /\ UNCHANGED <<grant, result, outcomes>>
        /\ \E x : x.status = "waiting_approval" /\ creq' = [creq EXCEPT ![r] = x]
    BY <1>2 DEF Creates, CreateRequest
  <2>2. ASSUME NEW q \in Requests
        PROVE /\ creq'[q].status \in TerminalStatus <=> creq[q].status \in TerminalStatus
              /\ creq[q].status \in TerminalStatus => creq'[q].status = creq[q].status
              /\ grant[q].consumed => grant'[q].consumed
    BY <2>1 DEF TablesOK, TerminalStatus
  <2> QED BY <2>1, <2>2, NothingTold
<1>3. ASSUME NEW r \in Requests, Issues(r) PROVE OutcomesOK'
  <2>1. /\ creq[r].status \in OpenStatus /\ ~grant[r].consumed
        /\ creq' = [creq EXCEPT ![r].status = "approved"]
        /\ \A q \in Requests \ {r} : grant'[q] = grant[q]
        /\ UNCHANGED <<result, outcomes>>
    BY <1>3 DEF Issues, IssueGrant, OpenStatus, TablesOK
  <2>2. ASSUME NEW q \in Requests
        PROVE /\ creq'[q].status \in TerminalStatus <=> creq[q].status \in TerminalStatus
              /\ creq[q].status \in TerminalStatus => creq'[q].status = creq[q].status
              /\ grant[q].consumed => grant'[q].consumed
    BY <1>0, <2>1 DEF TablesOK, TerminalStatus, OpenStatus, CapabilityRequest
  <2> QED BY <2>1, <2>2, NothingTold
<1>4. ASSUME NEW r \in Requests, Denies(r) PROVE OutcomesOK'
  <2>1. /\ IsOpen(r) /\ creq' = [creq EXCEPT ![r].status = "denied"]
        /\ outcomes' = outcomes \cup {Told(r, "denied")}
        /\ UNCHANGED <<grant, result>>
    BY <1>4 DEF Denies, Deny, IsOpen, OpenStatus, Told
  <2>2. PICK R \in SUBSET Requests : R = {r}
    OBVIOUS
  <2>3. ASSUME NEW q \in Requests
        PROVE /\ q \in R => creq'[q].status = "denied"
              /\ q \notin R => creq'[q].status = creq[q].status
              /\ grant[q].consumed => grant'[q].consumed
    BY <1>0, <2>1, <2>2 DEF TablesOK, CapabilityRequest
  <2>4. outcomes' = outcomes \cup {Told(x, "denied") : x \in R} /\ result' = result
    BY <2>1, <2>2
  <2>5. "denied" \in TerminalStatus /\ "denied" \in OutcomeKind \ {"result"}
    BY DEF TerminalStatus, OutcomeKind
  <2>6. \A x \in R : IsOpen(x)
    BY <2>1, <2>2
  <2> QED BY <2>3, <2>4, <2>5, <2>6, EndTold
<1>5. ASSUME NEW r \in Requests, Consumes(r) PROVE OutcomesOK'
  <2>1. /\ creq[r].status = "approved" /\ creq' = [creq EXCEPT ![r].status = "consumed"]
        /\ grant' = [grant EXCEPT ![r].consumed = TRUE]
        /\ UNCHANGED <<result, outcomes>>
    BY <1>5 DEF Consumes
  <2>2. ASSUME NEW q \in Requests
        PROVE /\ creq'[q].status \in TerminalStatus <=> creq[q].status \in TerminalStatus
              /\ creq[q].status \in TerminalStatus => creq'[q].status = creq[q].status
              /\ grant[q].consumed => grant'[q].consumed
    <3>1. CASE q = r
      BY <1>0, <2>1, <3>1 DEF TablesOK, TerminalStatus, CapabilityRequest, Grant
    <3>2. CASE q # r
      BY <2>1, <3>2 DEF TablesOK
    <3> QED BY <3>1, <3>2
  <2> QED BY <2>1, <2>2, NothingTold
<1>6. ASSUME NEW r \in Requests, Reports(r) PROVE OutcomesOK'
  BY <1>6, ReportTold
<1>7. CASE Tick
  <2>1. ASSUME NEW q \in Requests
        PROVE creq'[q].status = creq[q].status /\ grant'[q].consumed = grant[q].consumed
    <3>1. /\ creq'[q] = [creq[q] EXCEPT !.left = OneLess(@)]
          /\ grant'[q] = [grant[q] EXCEPT !.left = OneLess(@)]
      BY <1>7 DEF Tick
    <3> QED BY <1>0, <3>1 DEF CapabilityRequest, Grant
  <2>2. UNCHANGED <<outcomes, result>>
    BY <1>7 DEF Tick
  <2> QED BY <2>1, <2>2, NothingTold
<1>8. CASE UNCHANGED capVars
  BY <1>8, NothingTold DEF capVars
<1> QED BY <1>1, <1>2, <1>3, <1>4, <1>5, <1>6, <1>7, <1>8 DEF Change

LEMMA OutcomesInvariant == Spec => []OutcomesOK
<1>1. Init => OutcomesOK
  BY DEF Init, OutcomesOK, Unasked, TerminalStatus
<1>2. Base /\ GrantsOK /\ OutcomesOK /\ [Next]_vars => OutcomesOK'
  BY NextChange, OutcomesChange DEF Base
<1> QED BY <1>1, <1>2, BaseInvariant, GrantsInvariant, PTL DEF Spec

\* submit_result, expire_requests, authorize, consume, the reaper and cancel_task
\* race to end a request: one of them does, it alone tells the worker, and a
\* result is stored only when it is what the worker is told.
THEOREM OneOutcome == Spec => []OneOutcomePerRequest
<1>1. ASSUME GrantsOK, OutcomesOK PROVE OneOutcomePerRequest
  <2> DEFINE kindsOf(r) == {e.kind : e \in {o \in outcomes : o.req = r}}
  <2> SUFFICES ASSUME NEW r \in Requests
      PROVE /\ Cardinality(kindsOf(r)) = IF creq[r].status \in TerminalStatus THEN 1 ELSE 0
            /\ result[r] # "none" <=> kindsOf(r) = {"result"}
            /\ result[r] # "none" => result[r] = creq[r].status /\ effects[r] # <<>>
    BY DEF OneOutcomePerRequest
  <2>1. /\ result[r] # "none" => result[r] = creq[r].status /\ grant[r].consumed
        /\ result[r] # "none" <=> Told(r, "result") \in outcomes
    BY <1>1 DEF OutcomesOK
  <2>2. result[r] # "none" => effects[r] # <<>>
    BY <1>1, <2>1 DEF GrantsOK, GrantOK
  <2>3. CASE creq[r].status \in TerminalStatus
    <3>1. PICK e \in outcomes : e.req = r
      BY <1>1, <2>3 DEF OutcomesOK
    <3>2. \A f \in outcomes : f.req = r => f = e
      BY <1>1, <3>1 DEF OutcomesOK
    <3>3. kindsOf(r) = {e.kind}
      BY <3>1, <3>2
    <3>4. Cardinality(kindsOf(r)) = 1
      BY <3>3, FS_Singleton
    <3>5. Told(r, "result") \in outcomes <=> e.kind = "result"
      <4>1. e = Told(r, e.kind)
        BY <1>1, <3>1 DEF OutcomesOK, Told
      <4>2. Told(r, "result").req = r /\ Told(r, "result").kind = "result"
        BY DEF Told
      <4> QED BY <3>1, <3>2, <4>1, <4>2
    <3>6. kindsOf(r) = {"result"} <=> e.kind = "result"
      BY <3>3
    <3>7. result[r] # "none" <=> kindsOf(r) = {"result"}
      BY <2>1, <3>5, <3>6
    <3> HIDE DEF kindsOf
    <3> QED BY <2>1, <2>2, <2>3, <3>4, <3>7
  <2>4. CASE creq[r].status \notin TerminalStatus
    <3>1. kindsOf(r) = {}
      BY <1>1, <2>4 DEF OutcomesOK
    <3>2. Told(r, "result") \notin outcomes
      BY <1>1, <2>4 DEF OutcomesOK, Told
    <3>3. Cardinality(kindsOf(r)) = 0
      BY <3>1, FS_EmptySet
    <3> QED BY <2>1, <2>2, <2>4, <3>1, <3>2, <3>3
  <2> QED BY <2>3, <2>4
<1> QED BY <1>1, GrantsInvariant, OutcomesInvariant, PTL

---------------------------------------------------------------------------
(* Type correctness *)

\* The tables of the capability service and of the jobs keep their shape.
THEOREM TypesKept == Spec => []TypeOK
<1>1. ASSUME TablesOK, GrantsOK PROVE effects \in [Requests -> Seq(1..MaxGrants)]
  <2> SUFFICES ASSUME NEW r \in Requests PROVE effects[r] \in Seq(1..MaxGrants)
    BY <1>1 DEF GrantsOK
  <2>1. CASE grant[r].consumed
    <3>1. effects[r] = <<grant[r].token>> /\ grant[r].token # 0
      BY <1>1, <2>1 DEF GrantsOK, GrantOK
    <3>2. grant[r].token \in 1..MaxGrants
      BY <1>1, <3>1, CapabilitiesAssumption DEF TablesOK, Grant
    <3> QED BY <3>1, <3>2
  <2>2. CASE ~grant[r].consumed
    <3>1. effects[r] = <<>>
      BY <1>1, <2>2 DEF GrantsOK, GrantOK
    <3> QED BY <3>1
  <2> QED BY <2>1, <2>2
<1>2. Base /\ GrantsOK /\ OutcomesOK => TypeOK
  BY <1>1 DEF Base, TablesOK, OutcomesOK, TypeOK, J!IInv
<1> QED BY <1>2, BaseInvariant, GrantsInvariant, OutcomesInvariant, PTL
=============================================================================
