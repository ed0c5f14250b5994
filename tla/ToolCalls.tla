------------------------------ MODULE ToolCalls ------------------------------
(***************************************************************************)
(* Local tool calls and their one-shot approvals: services/                *)
(* execution_engine.py, services/approval_gateway.py, cancel_task and the  *)
(* recovery of initialize in services/state_service.py, and the request    *)
(* handlers of main.py that join them.                                     *)
(*                                                                         *)
(* A call, its task and its approval are three rows that every transaction *)
(* changes together.  Between two transactions the request that runs the   *)
(* call can be interrupted, its control plane can die, and another control *)
(* plane can start on the same database, whose recovery closes every call  *)
(* it finds open.  A task accepts one call (PROPOSABLE_TASK_STATES), so    *)
(* task and approval are indexed by the call.                              *)
(***************************************************************************)
EXTENDS Naturals

CONSTANTS
    Calls,
    Sensitive,  \* calls of a tool whose policy is "ask"
    Planes,     \* control planes on one database
    Nobody

ASSUME ToolCallsAssumption ==
    /\ Sensitive \subseteq Calls
    /\ Nobody \notin Planes

VARIABLES
    task,      \* tasks.status
    call,      \* tool_calls.status
    approval,  \* approvals.status
    lapsed,    \* approvals whose expires_at has passed
    reason,    \* how a failed call was closed
    up,        \* control planes that are running
    at,        \* the control plane whose request runs the call
    phase,     \* where ExecutionEngine.execute is
    outcome,   \* what the tool returned to it
    effects,   \* dispatches of the tool
    orphaned   \* open calls whose request ended and could not record an outcome

rows == <<task, call, approval, lapsed, reason>>
runs == <<at, phase, outcome, effects, orphaned>>
vars == <<rows, up, runs>>

TaskStatuses == {"planned", "waiting_permission", "queued", "running", "blocked",
                 "completed", "failed", "cancelled"}
CallStatuses == {"absent", "waiting_permission", "queued", "running", "completed",
                 "failed", "denied", "cancelled"}
ApprovalStatuses == {"none", "pending", "approved", "denied", "expired", "cancelled"}

TypeOK ==
    /\ task \in [Calls -> TaskStatuses]
    /\ call \in [Calls -> CallStatuses]
    /\ approval \in [Calls -> ApprovalStatuses]
    /\ lapsed \subseteq Calls
    /\ reason \in [Calls -> {"none", "result", "uncertain", "not_started"}]
    /\ up \subseteq Planes
    /\ at \in [Calls -> Planes \cup {Nobody}]
    /\ phase \in [Calls -> {"none", "claim", "dispatch", "tool", "finish"}]
    /\ outcome \in [Calls -> {"none", "completed", "failed"}]
    /\ effects \in [Calls -> Nat]
    /\ orphaned \subseteq Calls

Init ==
    /\ task = [c \in Calls |-> "planned"]
    /\ call = [c \in Calls |-> "absent"]
    /\ approval = [c \in Calls |-> "none"]
    /\ lapsed = {}
    /\ reason = [c \in Calls |-> "none"]
    /\ up = {}
    /\ at = [c \in Calls |-> Nobody]
    /\ phase = [c \in Calls |-> "none"]
    /\ outcome = [c \in Calls |-> "none"]
    /\ effects = [c \in Calls |-> 0]
    /\ orphaned = {}

-----------------------------------------------------------------------------
(* Helpers *)

\* Mutant: the claim trusts the approval instead of the two rows
ApprovedTask(c) ==
    /\ task[c] # "running"
    /\ approval[c] = IF c \in Sensitive THEN "approved" ELSE "none"

\* the guard of _claim_execution
Executable(c) ==
    /\ call[c] = "queued"
    /\ task[c] = "queued"
    /\ approval[c] = IF c \in Sensitive THEN "approved" ELSE "none"

\* Mutant: an outcome overrides whatever closed the call meanwhile
StartedOnce(c) == effects[c] > 0

\* the guard of _finish_once
Unfinished(c) == call[c] = "running" /\ task[c] = "running"

\* Mutant: cancelling a task leaves its approved call in the queue
WaitingCalls == {"waiting_permission"}

FencedCalls == {"waiting_permission", "queued"}

CancellableTasks == {"planned", "waiting_permission", "queued", "blocked"}

\* Mutant: startup looks for interrupted executions only
NoQueuedCalls == {}

QueuedBeforeClaim == {c \in Calls : call[c] = "queued" /\ task[c] = "queued"}

Interrupted == {c \in Calls : call[c] = "running"}

\* Mutant: a decision does not look at the clock
Pending(c) == approval[c] = "pending"

\* the guard of decide
Decidable(c) ==
    /\ approval[c] = "pending"
    /\ c \notin lapsed
    /\ call[c] = "waiting_permission"
    /\ task[c] = "waiting_permission"

Due == {c \in lapsed : approval[c] = "pending"}

RequestStarts(p, c) ==
    /\ at' = [at EXCEPT ![c] = p]
    /\ phase' = [phase EXCEPT ![c] = "claim"]
    /\ UNCHANGED <<outcome, effects, orphaned>>

RequestEnds(c) ==
    /\ at' = [at EXCEPT ![c] = Nobody]
    /\ phase' = [phase EXCEPT ![c] = "none"]
    /\ outcome' = [outcome EXCEPT ![c] = "none"]
    /\ UNCHANGED effects

-----------------------------------------------------------------------------
(* Proposal and decision *)

\* create_tool_call of a tool the policy allows: the request then runs it
ProposeAllowed(p, c) ==
    /\ p \in up
    /\ c \notin Sensitive
    /\ task[c] = "planned"
    /\ task' = [task EXCEPT ![c] = "queued"]
    /\ call' = [call EXCEPT ![c] = "queued"]
    /\ RequestStarts(p, c)
    /\ UNCHANGED <<approval, lapsed, reason, up>>

\* create_tool_call of a tool the policy asks about
ProposeSensitive(c) ==
    /\ up # {}
    /\ c \in Sensitive
    /\ task[c] = "planned"
    /\ task' = [task EXCEPT ![c] = "waiting_permission"]
    /\ call' = [call EXCEPT ![c] = "waiting_permission"]
    /\ approval' = [approval EXCEPT ![c] = "pending"]
    /\ UNCHANGED <<lapsed, reason, up, runs>>

\* decide_approval with consent: decide commits, then the request runs the call
Approve(p, c) ==
    /\ p \in up
    /\ Decidable(c)
    /\ approval' = [approval EXCEPT ![c] = "approved"]
    /\ call' = [call EXCEPT ![c] = "queued"]
    /\ task' = [task EXCEPT ![c] = "queued"]
    /\ RequestStarts(p, c)
    /\ UNCHANGED <<lapsed, reason, up>>

Deny(c) ==
    /\ up # {}
    /\ Decidable(c)
    /\ approval' = [approval EXCEPT ![c] = "denied"]
    /\ call' = [call EXCEPT ![c] = "denied"]
    /\ task' = [task EXCEPT ![c] = "blocked"]
    /\ UNCHANGED <<lapsed, reason, up, runs>>

\* expire_pending expires every approval that is due, a late decision its own
Expire(S) ==
    /\ up # {}
    /\ S # {}
    /\ approval' = [c \in Calls |-> IF c \in S THEN "expired" ELSE approval[c]]
    /\ call' = [c \in Calls |->
          IF c \in S /\ call[c] = "waiting_permission" THEN "cancelled" ELSE call[c]]
    /\ task' = [c \in Calls |->
          IF c \in S /\ task[c] = "waiting_permission" THEN "blocked" ELSE task[c]]
    /\ UNCHANGED <<lapsed, reason, up, runs>>

\* time passes expires_at
Lapse(c) ==
    /\ approval[c] = "pending"
    /\ c \notin lapsed
    /\ lapsed' = lapsed \cup {c}
    /\ UNCHANGED <<task, call, approval, reason, up, runs>>

\* cancel_task, and the end of a goal for the calls that apply its results; a
\* local call that has been claimed is not cancellable
Cancel(c) ==
    /\ up # {}
    /\ task[c] \in CancellableTasks
    /\ task' = [task EXCEPT ![c] = "cancelled"]
    /\ approval' = [approval EXCEPT ![c] = IF @ = "pending" THEN "cancelled" ELSE @]
    /\ call' = [call EXCEPT ![c] = IF @ \in FencedCalls THEN "cancelled" ELSE @]
    /\ UNCHANGED <<lapsed, reason, up, runs>>

-----------------------------------------------------------------------------
(* Execution *)

\* _claim_execution; a refused claim ends the request and changes no row
Claim(c) ==
    /\ phase[c] = "claim"
    /\ IF Executable(c)
       THEN /\ call' = [call EXCEPT ![c] = "running"]
            /\ task' = [task EXCEPT ![c] = "running"]
            /\ phase' = [phase EXCEPT ![c] = "dispatch"]
            /\ UNCHANGED <<at, outcome, effects>>
       ELSE RequestEnds(c) /\ UNCHANGED <<task, call>>
    /\ UNCHANGED <<approval, lapsed, reason, up, orphaned>>

\* the request never claims: the broadcast between the decision and the claim
\* raises, the database does, or the runtime of the goal is over
LoseRequest(c) ==
    /\ phase[c] = "claim"
    /\ RequestEnds(c)
    /\ orphaned' = orphaned \cup {c}
    /\ UNCHANGED <<rows, up>>

Dispatch(c) ==
    /\ phase[c] = "dispatch"
    /\ phase' = [phase EXCEPT ![c] = "tool"]
    /\ effects' = [effects EXCEPT ![c] = @ + 1]
    /\ UNCHANGED <<rows, up, at, outcome, orphaned>>

\* the request was cancelled while it claimed: the claim is closed undispatched
CancelledAfterClaim(c) ==
    /\ phase[c] = "dispatch"
    /\ phase' = [phase EXCEPT ![c] = "finish"]
    /\ outcome' = [outcome EXCEPT ![c] = "failed"]
    /\ UNCHANGED <<rows, up, at, effects, orphaned>>

\* the tool returns, raises or is cancelled
ToolReturns(c, o) ==
    /\ phase[c] = "tool"
    /\ phase' = [phase EXCEPT ![c] = "finish"]
    /\ outcome' = [outcome EXCEPT ![c] = o]
    /\ UNCHANGED <<rows, up, at, effects, orphaned>>

\* _finish_once, or its conflict with whoever closed the call meanwhile
Finish(c) ==
    /\ phase[c] = "finish"
    /\ IF Unfinished(c)
       THEN /\ call' = [call EXCEPT ![c] = outcome[c]]
            /\ task' = [task EXCEPT ![c] = outcome[c]]
            /\ reason' = [reason EXCEPT ![c] = "result"]
       ELSE UNCHANGED <<call, task, reason>>
    /\ RequestEnds(c)
    /\ UNCHANGED <<approval, lapsed, up, orphaned>>

\* three attempts to record the outcome fail: ExecutionOutcomeUncertain
FinishFails(c) ==
    /\ phase[c] = "finish"
    /\ RequestEnds(c)
    /\ orphaned' = orphaned \cup {c}
    /\ UNCHANGED <<rows, up>>

-----------------------------------------------------------------------------
(* Control planes *)

\* what one request leaves when its process dies
Crash(p) ==
    /\ p \in up
    /\ up' = up \ {p}
    /\ at' = [c \in Calls |-> IF at[c] = p THEN Nobody ELSE at[c]]
    /\ phase' = [c \in Calls |-> IF at[c] = p THEN "none" ELSE phase[c]]
    /\ outcome' = [c \in Calls |-> IF at[c] = p THEN "none" ELSE outcome[c]]
    /\ UNCHANGED <<rows, effects, orphaned>>

\* StateService.initialize closes what it finds running or queued, whichever
\* control plane it belongs to, and never runs it again
Startup(p) ==
    LET closed == Interrupted \cup QueuedBeforeClaim
    IN  /\ p \in Planes \ up
        /\ up' = up \cup {p}
        /\ call' = [c \in Calls |-> IF c \in closed THEN "failed" ELSE call[c]]
        /\ task' = [c \in Calls |->
              IF c \in closed /\ task[c] \in {"running", "queued"} THEN "failed" ELSE task[c]]
        /\ reason' = [c \in Calls |->
              IF c \in Interrupted THEN "uncertain"
              ELSE IF c \in QueuedBeforeClaim THEN "not_started" ELSE reason[c]]
        /\ UNCHANGED <<approval, lapsed, runs>>

-----------------------------------------------------------------------------

DecisionStep(c) ==
    \/ \E p \in Planes : ProposeAllowed(p, c) \/ Approve(p, c)
    \/ ProposeSensitive(c)
    \/ Deny(c)
    \/ Cancel(c)
    \/ Lapse(c)
    \/ c \in Due /\ Expire({c})

ExecutionStep(c) ==
    \/ Claim(c)
    \/ LoseRequest(c)
    \/ Dispatch(c)
    \/ CancelledAfterClaim(c)
    \/ \E o \in {"completed", "failed"} : ToolReturns(c, o)
    \/ Finish(c)
    \/ FinishFails(c)

Next ==
    \/ \E c \in Calls : DecisionStep(c) \/ ExecutionStep(c)
    \/ Expire(Due)
    \/ \E p \in Planes : Crash(p) \/ Startup(p)

Spec == Init /\ [][Next]_vars

\* a request goes on until it ends, and a control plane that died is restarted
Fairness ==
    /\ \A c \in Calls : WF_vars(ExecutionStep(c))
    /\ \A p \in Planes : WF_vars(Startup(p))

FairSpec == Spec /\ Fairness

-----------------------------------------------------------------------------
(* Properties *)

\* Call, task and approval tell one story, whatever decisions, expiries,
\* cancellations, executions and restarts overlap (decide, _expire_locked,
\* cancel_task, _claim_execution, _finish_once and initialize each change the
\* three rows together).
RowsAgree ==
    \A c \in Calls :
        /\ \A s \in {"waiting_permission", "queued", "running", "completed", "failed"} :
              call[c] = s <=> task[c] = s
        /\ call[c] = "waiting_permission" <=> approval[c] = "pending"
        /\ call[c] = "denied" <=> approval[c] = "denied"
        /\ call[c] \in {"denied", "cancelled"} => task[c] \in {"blocked", "cancelled"}
        /\ task[c] = "blocked" => approval[c] \in {"denied", "expired"}
        /\ call[c] # "failed" => reason[c] \in {"none", "result"}

\* A tool is dispatched at most once, and a sensitive one only under an approval
\* that was given before its expiry and stands: one consent, one dispatch, across crashes
\* and restarts of any number of control planes.
OneConsentOneDispatch ==
    \A c \in Calls :
        /\ effects[c] <= 1
        /\ effects[c] = 1 /\ c \in Sensitive => approval[c] = "approved" /\ c \notin lapsed

\* A call that was denied, expired, cancelled or closed by a restart as not
\* started has not reached its tool and never will, although the request that
\* was to run it may still be on its way in another control plane.
RefusedNeverRuns ==
    \A c \in Calls :
        call[c] \in {"denied", "cancelled"} \/ reason[c] = "not_started" =>
            effects[c] = 0 /\ phase[c] \in {"none", "claim"}

\* The rows of a finished call never change again: a request whose call was
\* closed as uncertain by the start of another control plane cannot overwrite
\* that verdict with its late outcome (_finish_once).
FinishedCallFrozen ==
    [][\A c \in Calls :
          call[c] \in {"completed", "failed", "denied", "cancelled"} =>
              call'[c] = call[c] /\ reason'[c] = reason[c] /\ approval'[c] = approval[c]]_vars

\* What the rows of a call promise to whoever reads them
Verdict(c) ==
    CASE call[c] \in {"absent", "waiting_permission"}         -> "open"
      [] call[c] \in {"queued", "running"}                    -> "granted"
      [] call[c] \in {"denied", "cancelled"}                  -> "refused"
      [] call[c] = "failed" /\ reason[c] = "not_started"      -> "refused"
      [] call[c] = "failed" /\ reason[c] = "uncertain"        -> "uncertain"
      [] OTHER                                                -> "settled"

Verdicts == [c \in Calls |-> Verdict(c)]

Consent == INSTANCE OneShotConsent WITH verdict <- Verdicts, times <- effects

\* The ledger never lies about a tool: it is reached once at most, after the
\* grant, never after a refusal or a known outcome, and no verdict is revised,
\* although a restart may close the call of a request that still runs.
ImplementsOneShotConsent == Consent!Spec

\* An open call is in the hands of a request, or its request ended without
\* being able to record an outcome, or a control plane has died whose next start
\* closes it.
NothingForgotten ==
    \A c \in Calls : call[c] \in {"queued", "running"} =>
        phase[c] # "none" \/ c \in orphaned \/ Planes \ up # {}

\* Every call that may run is closed, unless its request ended without being able
\* to record what happened: crashes are made good by the next start.
EveryCallSettles ==
    \A c \in Calls :
        call[c] \in {"queued", "running"} ~>
            call[c] \notin {"queued", "running"} \/ c \in orphaned
=============================================================================
