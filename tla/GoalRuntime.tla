----------------------------- MODULE GoalRuntime -----------------------------
(***************************************************************************)
(* A goal, its plan and the work it hands out: services/goal_manager.py,   *)
(* services/goal_state.py, services/goal_conversation.py and the stale-job *)
(* cancellation of services/agent_dispatcher.py.                           *)
(*                                                                         *)
(* A control plane plans a goal, hands the ready nodes of its plan to      *)
(* workers and asks a model what their results mean.  Each of these runs   *)
(* through several transactions with network calls between them, and while *)
(* it runs the user sends messages or cancels, workers answer, another     *)
(* control plane does the same, and the maintenance loop repairs what a    *)
(* dead one left behind.  exec is where a control plane is in its run on   *)
(* the goal, with what it read; rec the recovery of unlinked nodes by      *)
(* reconcile, which does not take the goal's lock.                         *)
(*                                                                         *)
(* The model follows one goal with automatic planning.  A message to an    *)
(* ended goal opens a successor, which is another goal.  Reviewed code     *)
(* applications (waiting_permission nodes) are left out.                   *)
(***************************************************************************)
EXTENDS Naturals, FiniteSets

CONSTANTS
    Nodes,           \* the nodes that plans can propose
    Synthesis,       \* nodes completed by the control plane itself
    Generative,      \* nodes whose skill reserves a model call
    Hard, Optional,  \* the dependencies of a node
    Planes,          \* control planes
    MaxSteps, MaxParallelism, MaxReplans, MaxCalls,
    MaxRevision,     \* bound on the messages of the user
    NoNode

Deps(n) == Hard[n] \cup Optional[n]

ASSUME GoalAssumption ==
    /\ IsFiniteSet(Nodes)
    /\ NoNode \notin Nodes
    /\ Synthesis \subseteq Nodes
    /\ Generative \subseteq Nodes \ Synthesis
    /\ Hard \in [Nodes -> SUBSET Nodes]
    /\ Optional \in [Nodes -> SUBSET Nodes]
    /\ MaxSteps \in Nat /\ MaxParallelism \in Nat /\ MaxReplans \in Nat
    /\ MaxCalls \in Nat /\ MaxRevision \in Nat

VARIABLES
    goal,      \* goal_runs
    node,      \* plan_nodes.status
    revision,  \* plan_nodes.conversation_revision, written by the dispatch
    linked,    \* nodes whose worker_job_id is set
    child,     \* the task of a node and the job of that task
    call,      \* the last goal_model_calls row
    exec,      \* what each control plane is doing on the goal
    rec,       \* the recovery of unlinked nodes by reconcile
    detached   \* nodes refused although their job was already queued

plan == <<node, revision, linked>>
vars == <<goal, plan, child, call, exec, rec, detached>>

Ended == {"completed", "stopped"}
Waiting == {"needs_user", "retry"}
GoalStatuses == {"planning", "running"} \cup Waiting \cup Ended

Failed == {"failed", "blocked", "cancelled", "skipped"}
Terminal == Failed \cup {"completed"}
Open == {"dispatched", "running", "waiting_capability"}
NodeStatuses == {"none", "planned", "ready"} \cup Open \cup Terminal

\* withdrawn: the task ended before it had a job; unproven: the job completed
\* without the evidence its skill has to give
LiveChild == {"created", "queued", "leased"}
EndedJob == {"completed", "unproven", "failed", "cancelled"}
ChildStatuses == {"none", "withdrawn"} \cup LiveChild \cup EndedJob

Kinds == {"none", "initial", "reply", "replan"}
WithNode == {"queue", "refuse", "link", "undo"}
Stages == {"idle", "advance", "read", "planner", "evaluator"} \cup WithNode

Goal == [status : GoalStatuses, rev : 0..MaxRevision, pending : BOOLEAN,
         plan : Nat, replans : Nat, steps : Nat, calls : Nat]
Call == [gen : Nat, started : BOOLEAN, rev : 0..MaxRevision, lapsed : BOOLEAN]
Exec == {e \in [pc : Stages, kind : Kinds, rev : 0..MaxRevision, plan : Nat, gen : Nat,
                seen : SUBSET Nodes, node : Nodes \cup {NoNode}] :
            e.pc \in WithNode => e.node \in Nodes}
Recovery == [pc : {"look", "queue", "link"}, node : Nodes]

Idle == [pc |-> "idle", kind |-> "none", rev |-> 0, plan |-> 0, gen |-> 0,
         seen |-> {}, node |-> NoNode]
NoRecovery == [pc |-> "idle", node |-> NoNode]

TypeOK ==
    /\ goal \in Goal
    /\ node \in [Nodes -> NodeStatuses]
    /\ revision \in [Nodes -> 0..MaxRevision]
    /\ linked \subseteq Nodes
    /\ child \in [Nodes -> ChildStatuses]
    /\ call \in Call
    /\ exec \in [Planes -> Exec]
    /\ rec \in Recovery \cup {NoRecovery}
    /\ detached \subseteq Nodes

\* a started goal: _mark_start_requested has run
Init ==
    /\ goal = [status |-> "planning", rev |-> 0, pending |-> FALSE, plan |-> 0,
               replans |-> 0, steps |-> 0, calls |-> 0]
    /\ node = [n \in Nodes |-> "none"]
    /\ revision = [n \in Nodes |-> 0]
    /\ linked = {}
    /\ child = [n \in Nodes |-> "none"]
    /\ call = [gen |-> 0, started |-> FALSE, rev |-> 0, lapsed |-> FALSE]
    /\ exec = [p \in Planes |-> Idle]
    /\ rec = NoRecovery
    /\ detached = {}

-----------------------------------------------------------------------------
(* Helpers *)

Workers == Nodes \ Synthesis

Finished == goal.status \in Ended

WithStatus(S) == {n \in Nodes : node[n] \in S}

Existing == {n \in Nodes : node[n] # "none"}

Quiescent == Existing # {} /\ Existing \subseteq WithStatus(Terminal)

At(p, stage) == exec[p].pc = stage

Goto(p, e) == exec' = [exec EXCEPT ![p] = e]

Return(p) == Goto(p, Idle)

SetNodes(S, status) == [n \in Nodes |-> IF n \in S THEN status ELSE node[n]]

\* cancel_task: a task without a job just ends, a job is cancelled with it
CancelledChildren(S) == [n \in Nodes |->
    IF n \notin S THEN child[n]
    ELSE IF child[n] = "created" THEN "withdrawn" ELSE "cancelled"]

\* the goal and its plan after _terminate_goal_locked
StopGoal ==
    /\ goal' = [goal EXCEPT !.status = "stopped"]
    /\ node' = SetNodes(Existing \ WithStatus(Terminal), "cancelled")
    /\ UNCHANGED <<revision, linked>>

-----------------------------------------------------------------------------
(* Model calls: one row is started at a time, under a lease *)

\* the guard of _finish_model_call_locked
HoldsCall(p) == call.started /\ call.gen = exec[p].gen /\ ~call.lapsed

\* the guard of _require_current_model_call_locked
CurrentCall(p) == HoldsCall(p) /\ call.rev = goal.rev

FinishCall == call' = [call EXCEPT !.started = FALSE]

\* _reserve_model_call; the budget is checked before the row in progress
ReserveCall(p, e) ==
    /\ ~Finished
    /\ goal.calls < MaxCalls
    /\ ~call.started \/ call.lapsed
    /\ call' = [gen |-> call.gen + 1, started |-> TRUE, rev |-> goal.rev, lapsed |-> FALSE]
    /\ goal' = [goal EXCEPT !.calls = goal.calls + 1]
    /\ Goto(p, [e EXCEPT !.gen = call.gen + 1])

\* time passes the lease of the call
CallLapses ==
    /\ call.started /\ ~call.lapsed
    /\ call' = [call EXCEPT !.lapsed = TRUE]
    /\ UNCHANGED <<goal, plan, child, exec, rec, detached>>

\* The answer is an error, breaks a rule, or comes too late to be used:
\* _record_planner_failure, _record_evaluator_failure, _finish_model_call, or
\* an evaluation that suggests no work.
DropAnswer(p) ==
    /\ exec[p].pc \in {"planner", "evaluator"}
    /\ IF HoldsCall(p) THEN FinishCall ELSE UNCHANGED call
    /\ Return(p)
    /\ UNCHANGED <<goal, plan, child, rec, detached>>

\* _record_model_timeout: the goal's time runs out while the model thinks
ModelTimesOut(p) ==
    /\ exec[p].pc \in {"planner", "evaluator"}
    /\ call.started /\ call.gen = exec[p].gen /\ call.rev = goal.rev
    /\ ~Finished
    /\ FinishCall
    /\ StopGoal
    /\ Return(p)
    /\ UNCHANGED <<child, rec, detached>>

-----------------------------------------------------------------------------
(* Planning *)

\* A plan is asked for by the start of the goal, by a message of the user
\* that waits for its routing, or by the user in so many words.
MayPlan(kind) ==
    CASE kind = "initial" -> goal.status = "planning" /\ Existing = {}
      [] kind = "reply"   -> /\ goal.pending
                             /\ goal.status \in {"running"} \cup Waiting
                             /\ goal.replans < MaxReplans
                             /\ WithStatus(Open) = {}
      [] kind = "replan"  -> /\ goal.status \in {"running"} \cup Waiting
                             /\ goal.replans < MaxReplans
                             /\ WithStatus(Open) = {}

\* the goal is read, and then memory is searched for it
BeginPlan(p, kind) ==
    /\ At(p, "idle")
    /\ MayPlan(kind)
    /\ Goto(p, [Idle EXCEPT !.pc = "read", !.kind = kind, !.rev = goal.rev,
                            !.plan = goal.plan])
    /\ UNCHANGED <<goal, plan, child, call, rec, detached>>

\* mutant: nobody looks for a message that came in the meantime
AnyConversation(p) == TRUE

\* the conversation is the one that was read
SameConversation(p) == exec[p].rev = goal.rev

AskPlanner(p) ==
    /\ At(p, "read")
    /\ SameConversation(p)
    /\ ReserveCall(p, [exec[p] EXCEPT !.pc = "planner"])
    /\ UNCHANGED <<plan, child, rec, detached>>

\* the search failed, the model is busy or the budget is spent
GiveUpPlan(p) ==
    /\ At(p, "read")
    /\ Return(p)
    /\ UNCHANGED <<goal, plan, child, call, rec, detached>>

\* a plan the user wrote for the start of the goal, or to replace what is left
\* of the plan: the latter is accepted for the conversation as it then is
OwnPlan(p) == At(p, "read") /\ \/ exec[p].kind = "initial" /\ SameConversation(p)
                               \/ exec[p].kind = "replan"

HasPlan(p) == OwnPlan(p) \/ (At(p, "planner") /\ CurrentCall(p))

Fits(new) ==
    /\ new # {} /\ new \cap Existing = {}
    /\ Cardinality(Existing) + Cardinality(new) <= MaxSteps

SelfContained(new) == \A n \in new : Deps(n) \subseteq new

\* _persist_initial_plan
PersistInitialPlan(p, new) ==
    /\ exec[p].kind = "initial" /\ HasPlan(p)
    /\ goal.status = "planning"
    /\ Existing = {}
    /\ Fits(new) /\ SelfContained(new)
    /\ goal' = [goal EXCEPT !.status = "running", !.plan = goal.plan + 1, !.pending = FALSE]
    /\ node' = SetNodes(new, "planned")
    /\ IF At(p, "planner") THEN FinishCall ELSE UNCHANGED call
    /\ Return(p)
    /\ UNCHANGED <<revision, linked, child, rec, detached>>

\* _append_replan_nodes.  Planning for a message checks that the plan is the
\* one it read; an explicit request reads the goal again after the answer.
AppendPlan(p, new) ==
    /\ exec[p].kind \in {"reply", "replan"} /\ HasPlan(p)
    /\ goal.status \in {"running"} \cup Waiting
    /\ exec[p].kind = "reply" => exec[p].plan = goal.plan
    /\ goal.replans < MaxReplans
    /\ Fits(new) /\ SelfContained(new)
    /\ goal' = [goal EXCEPT !.status = "running", !.plan = goal.plan + 1,
                            !.replans = goal.replans + 1, !.pending = FALSE]
    /\ node' = [n \in Nodes |->
                  IF n \in new THEN "planned"
                  ELSE IF goal.pending /\ node[n] \in {"planned", "ready"} THEN "skipped"
                  ELSE node[n]]
    /\ IF At(p, "planner") THEN FinishCall ELSE UNCHANGED call
    /\ Return(p)
    /\ UNCHANGED <<revision, linked, child, rec, detached>>

-----------------------------------------------------------------------------
(* Handing out the plan *)

\* refresh_ready_nodes visits the planned nodes one after the other: a node
\* behind a blocked one is blocked in the same pass or in the next.
RefreshReady(blocked) ==
    LET planned == WithStatus({"planned"})
        bad     == WithStatus(Failed)
        ready   == {n \in planned \ blocked : /\ Deps(n) \subseteq WithStatus(Terminal)
                                             /\ Hard[n] \subseteq WithStatus({"completed"})}
    IN  /\ blocked \subseteq planned
        /\ blocked \cup ready # {}
        /\ \A n \in planned : Hard[n] \cap bad # {} => n \in blocked
        /\ \A n \in blocked : Hard[n] \cap (bad \cup blocked) # {}
        /\ node' = [n \in Nodes |-> IF n \in blocked THEN "blocked"
                                    ELSE IF n \in ready THEN "ready" ELSE node[n]]
        /\ UNCHANGED <<goal, revision, linked, child, call, exec, rec, detached>>

\* _complete_deterministic_synthesis with complete_synthesis_node
CompleteSynthesis(n) ==
    /\ n \in Synthesis /\ node[n] = "ready"
    /\ IF Deps(n) \cap WithStatus({"completed"}) = {}
         THEN node' = SetNodes({n}, "skipped") /\ UNCHANGED goal
         ELSE /\ goal.status = "running"
              /\ goal.steps < MaxSteps
              /\ node' = SetNodes({n}, "completed")
              /\ goal' = [goal EXCEPT !.steps = goal.steps + 1]
    /\ UNCHANGED <<revision, linked, child, call, exec, rec, detached>>

\* _advance_ready reads the goal; a pending message holds the old plan back
BeginAdvance(p) ==
    /\ At(p, "idle")
    /\ goal.status = "running" /\ ~goal.pending
    /\ WithStatus({"ready"}) \cap Workers # {}
    /\ Goto(p, [Idle EXCEPT !.pc = "advance", !.rev = goal.rev])
    /\ UNCHANGED <<goal, plan, child, call, rec, detached>>

\* mutant: the open nodes are counted when the goal is read, not here
DispatchNodeUncounted(p, n) ==
    /\ At(p, "advance")
    /\ n \in Workers /\ node[n] = "ready"
    /\ goal.status = "running"
    /\ goal.steps < MaxSteps
    /\ SameConversation(p)
    /\ n \in Generative => goal.calls < MaxCalls
    /\ node' = SetNodes({n}, "dispatched")
    /\ revision' = [revision EXCEPT ![n] = goal.rev]
    /\ child' = [child EXCEPT ![n] = "created"]
    /\ goal' = [goal EXCEPT !.steps = goal.steps + 1, !.pending = FALSE,
                            !.calls = IF n \in Generative THEN goal.calls + 1 ELSE goal.calls]
    /\ Goto(p, [Idle EXCEPT !.pc = "queue", !.node = n])
    /\ UNCHANGED <<linked, call, rec, detached>>

\* the first transaction of _dispatch_worker_node
DispatchNode(p, n) ==
    /\ At(p, "advance")
    /\ n \in Workers /\ node[n] = "ready"
    /\ goal.status = "running"
    /\ goal.steps < MaxSteps
    /\ Cardinality(WithStatus(Open)) < MaxParallelism
    /\ SameConversation(p)
    /\ n \in Generative => goal.calls < MaxCalls
    /\ node' = SetNodes({n}, "dispatched")
    /\ revision' = [revision EXCEPT ![n] = goal.rev]
    /\ child' = [child EXCEPT ![n] = "created"]
    /\ goal' = [goal EXCEPT !.steps = goal.steps + 1, !.pending = FALSE,
                            !.calls = IF n \in Generative THEN goal.calls + 1 ELSE goal.calls]
    /\ Goto(p, [Idle EXCEPT !.pc = "queue", !.node = n])
    /\ UNCHANGED <<linked, call, rec, detached>>

\* a payload or a gateway the node needs is not there
BlockNode(p, n) ==
    /\ At(p, "advance")
    /\ n \in Workers /\ node[n] = "ready"
    /\ node' = SetNodes({n}, "blocked")
    /\ Return(p)
    /\ UNCHANGED <<goal, revision, linked, child, call, rec, detached>>

EndAdvance(p) ==
    /\ At(p, "advance")
    /\ Return(p)
    /\ UNCHANGED <<goal, plan, child, call, rec, detached>>

\* queue_job accepts a task that has no job yet, if the policy allows the skill
QueueChild(p) ==
    LET n == exec[p].node
    IN  /\ At(p, "queue")
        /\ \/ /\ child[n] = "created"
              /\ child' = [child EXCEPT ![n] = "queued"]
              /\ Goto(p, [exec[p] EXCEPT !.pc = "link"])
           \/ Goto(p, [exec[p] EXCEPT !.pc = "refuse"]) /\ UNCHANGED child
        /\ UNCHANGED <<goal, plan, call, rec, detached>>

\* _fail_dispatched_node.  When the recovery queued the job in between, the
\* node fails and its job goes on.
RefuseChild(p) ==
    LET n == exec[p].node
    IN  /\ At(p, "refuse")
        /\ node' = IF node[n] = "dispatched" THEN SetNodes({n}, "failed") ELSE node
        /\ child' = IF child[n] = "created" THEN [child EXCEPT ![n] = "withdrawn"] ELSE child
        /\ detached' = IF node[n] = "dispatched" /\ child[n] \in {"queued", "leased"}
                         THEN detached \cup {n} ELSE detached
        /\ Return(p)
        /\ UNCHANGED <<goal, revision, linked, call, rec>>

\* the node is still open, its goal alive and its job not over
Linkable(n) ==
    /\ node[n] \in {"dispatched", "running"}
    /\ goal.status \in {"running"} \cup Waiting
    /\ child[n] \in {"queued", "leased"}

\* the second transaction of _dispatch_worker_node
LinkJob(p) ==
    LET n == exec[p].node
    IN  /\ At(p, "link")
        /\ IF Linkable(n)
             THEN linked' = linked \cup {n} /\ Return(p)
             ELSE Goto(p, [exec[p] EXCEPT !.pc = "undo"]) /\ UNCHANGED linked
        /\ UNCHANGED <<goal, node, revision, child, call, rec, detached>>

\* a job that could not be linked is cancelled
UndoDispatch(p) ==
    LET n == exec[p].node
    IN  /\ At(p, "undo")
        /\ child' = CancelledChildren({n} \cap {m \in Nodes : child[m] \in LiveChild})
        /\ Return(p)
        /\ UNCHANGED <<goal, plan, call, rec, detached>>

-----------------------------------------------------------------------------
(* Evaluation: what the finished nodes mean for the goal *)

\* mutant: the nodes were finished when the evaluation was asked for
OnceFinished(p) == exec[p].seen # {}

\* the nodes are the ones the evaluation was asked about: a terminal node
\* never changes again, so their set stands for the fingerprint
SameNodes(p) == Quiescent /\ Existing = exec[p].seen

\* _evaluate_if_quiescent up to its model call
ReserveEvaluation(p) ==
    /\ At(p, "idle")
    /\ goal.status = "running" /\ ~goal.pending
    /\ Quiescent
    /\ ReserveCall(p, [Idle EXCEPT !.pc = "evaluator", !.rev = goal.rev, !.seen = Existing])
    /\ UNCHANGED <<plan, child, rec, detached>>

\* _apply_evaluation accepts the answer
Judged(p) ==
    /\ At(p, "evaluator")
    /\ CurrentCall(p)
    /\ goal.status = "running"
    /\ SameNodes(p)

\* a completed goal needs a worker's evidence and no failed worker
Convincing ==
    /\ Workers \cap WithStatus({"completed"}) # {}
    /\ Workers \cap WithStatus({"failed", "blocked", "cancelled"}) = {}

CompleteGoal(p) ==
    /\ Judged(p)
    /\ Convincing
    /\ goal' = [goal EXCEPT !.status = "completed"]
    /\ FinishCall
    /\ Return(p)
    /\ UNCHANGED <<plan, child, rec, detached>>

\* failed, repeated, without evidence, or more work than the budgets hold
FailGoal(p) ==
    /\ Judged(p)
    /\ StopGoal
    /\ FinishCall
    /\ Return(p)
    /\ UNCHANGED <<child, rec, detached>>

AskUser(p) ==
    /\ Judged(p)
    /\ goal' = [goal EXCEPT !.status = "needs_user"]
    /\ FinishCall
    /\ Return(p)
    /\ UNCHANGED <<plan, child, rec, detached>>

\* _insert_evaluator_nodes_locked; the plan's fingerprint stays, and a
\* continuation does not count as a replan
ExtendPlan(p, new) ==
    /\ Judged(p)
    /\ Fits(new)
    /\ \A n \in new : Deps(n) \subseteq Existing \cup new
    /\ \/ UNCHANGED goal
       \/ /\ goal.replans < MaxReplans
          /\ goal' = [goal EXCEPT !.replans = goal.replans + 1]
    /\ node' = SetNodes(new, "planned")
    /\ FinishCall
    /\ Return(p)
    /\ UNCHANGED <<revision, linked, child, rec, detached>>

\* _record_evaluator_failure after the last attempt, or when the nodes do not
\* make a context: the goal waits for the user
PauseEvaluation(p) ==
    /\ goal.status = "running" /\ ~goal.pending
    /\ \/ At(p, "idle") /\ Quiescent /\ UNCHANGED call
       \/ At(p, "evaluator") /\ CurrentCall(p) /\ SameNodes(p) /\ FinishCall
    /\ goal' = [goal EXCEPT !.status = "retry"]
    /\ Return(p)
    /\ UNCHANGED <<plan, child, rec, detached>>

\* _resume_evaluator_retry
RetryEvaluation ==
    /\ goal.status = "retry"
    /\ Existing \subseteq WithStatus(Terminal)
    /\ goal' = [goal EXCEPT !.status = "running"]
    /\ UNCHANGED <<plan, child, call, exec, rec, detached>>

-----------------------------------------------------------------------------
(* The user, the deadline and the dispatcher *)

\* GoalConversationService.append on a goal that has not ended
Message ==
    /\ ~Finished
    /\ goal.rev < MaxRevision
    /\ goal' = [goal EXCEPT !.rev = goal.rev + 1, !.pending = TRUE,
                            !.status = IF goal.status = "needs_user" THEN "running" ELSE goal.status]
    /\ FinishCall
    /\ UNCHANGED <<plan, child, exec, rec, detached>>

\* _terminate_goal: cancel_goal, the deadline, a spent budget
Terminate ==
    /\ ~Finished
    /\ StopGoal
    /\ UNCHANGED <<child, call, exec, rec, detached>>

\* _cancel_child_tasks, by whoever stopped the goal or by reconcile
CancelChild(n) ==
    /\ goal.status = "stopped"
    /\ child[n] \in LiveChild
    /\ child' = CancelledChildren({n})
    /\ UNCHANGED <<goal, plan, call, exec, rec, detached>>

\* the user cancels the task of one node
UserCancels(n) ==
    /\ ~Finished
    /\ child[n] \in LiveChild
    /\ child' = CancelledChildren({n})
    /\ UNCHANGED <<goal, plan, call, exec, rec, detached>>

\* a queued job whose node was handed out before the last message
Stale(n) ==
    /\ child[n] = "queued"
    /\ node[n] \in {"dispatched", "running"}
    /\ revision[n] # goal.rev

\* mutant: the node is retired, its job left to the next sweep
RetireStaleNodes(stale) ==
    /\ stale # {} /\ \A n \in stale : Stale(n)
    /\ node' = SetNodes(stale, "cancelled")
    /\ UNCHANGED <<goal, revision, linked, child, call, exec, rec, detached>>

\* _cancel_stale_goal_jobs_locked: all of them for a pending message, or the
\* one a worker was about to claim
CancelStaleJobs(stale) ==
    /\ stale # {} /\ \A n \in stale : Stale(n)
    /\ \/ Cardinality(stale) = 1
       \/ goal.pending /\ ~Finished /\ \A n \in Nodes : Stale(n) => n \in stale
    /\ child' = CancelledChildren(stale)
    /\ node' = SetNodes(stale, "cancelled")
    /\ UNCHANGED <<goal, revision, linked, call, exec, rec, detached>>

\* _cancel_context_job_locked: what the job was prepared from has changed by
\* the time it is claimed or its result comes
CancelContextJob(n) ==
    /\ child[n] \in {"queued", "leased"} /\ ~Stale(n)
    /\ child' = CancelledChildren({n})
    /\ node' = SetNodes({n} \cap WithStatus({"dispatched", "running"}), "cancelled")
    /\ UNCHANGED <<goal, revision, linked, call, exec, rec, detached>>

\* the policy of the workers revokes the skill of a job nobody claimed
QuarantineChild(n) ==
    /\ child[n] = "queued"
    /\ child' = [child EXCEPT ![n] = "failed"]
    /\ UNCHANGED <<goal, plan, call, exec, rec, detached>>

ClaimChild(n) ==
    /\ child[n] = "queued" /\ ~Stale(n)
    /\ child' = [child EXCEPT ![n] = "leased"]
    /\ UNCHANGED <<goal, plan, call, exec, rec, detached>>

\* the lease of the worker expires, with or without an attempt left
LeaseLost(n) ==
    /\ child[n] = "leased"
    /\ \E status \in {"queued", "failed"} : child' = [child EXCEPT ![n] = status]
    /\ UNCHANGED <<goal, plan, call, exec, rec, detached>>

FinishJob(n) ==
    /\ child[n] = "leased"
    /\ \E status \in {"completed", "unproven", "failed"} : child' = [child EXCEPT ![n] = status]
    /\ UNCHANGED <<goal, plan, call, exec, rec, detached>>

-----------------------------------------------------------------------------
(* What the goal learns of its jobs: by a call of the dispatcher's routes, or *)
(* by reconcile when that call was lost                                       *)

\* on_job_claimed
ProjectClaim(n) ==
    /\ n \in linked /\ child[n] = "leased"
    /\ ~Finished
    /\ node[n] = "dispatched"
    /\ node' = SetNodes({n}, "running")
    /\ UNCHANGED <<goal, revision, linked, child, call, exec, rec, detached>>

\* A worker finished a node that still waits for the phone: NODE_TRANSITIONS
\* has no way from there to completed, and transition_node raises.
Stuck(n) ==
    /\ n \in linked /\ child[n] = "completed"
    /\ ~Finished
    /\ node[n] = "waiting_capability"

\* on_job_result
ProjectResult(n) ==
    /\ n \in linked /\ child[n] \in EndedJob
    /\ ~Finished
    /\ node[n] \in Open /\ ~Stuck(n)
    /\ node' = SetNodes({n}, IF child[n] = "completed" THEN "completed" ELSE "failed")
    /\ UNCHANGED <<goal, revision, linked, child, call, exec, rec, detached>>

\* on_capability_requested and on_capability_resolved
ProjectCapability(n) ==
    /\ n \in linked
    /\ \/ node[n] = "running" /\ node' = SetNodes({n}, "waiting_capability")
       \/ node[n] = "waiting_capability" /\ node' = SetNodes({n}, "running")
    /\ UNCHANGED <<goal, revision, linked, child, call, exec, rec, detached>>

-----------------------------------------------------------------------------
(* reconcile repairs a node that was handed out and has no job recorded *)

Unlinked(n) == n \in Workers \ linked /\ node[n] \in Open

RecSelect(n) ==
    /\ rec.pc = "idle"
    /\ goal.status \in {"running"} \cup Waiting
    /\ Unlinked(n)
    /\ child[n] \in {"created", "queued", "leased"} \cup EndedJob
    /\ rec' = [pc |-> "look", node |-> n]
    /\ UNCHANGED <<goal, plan, child, call, exec, detached>>

\* mutant: only a task without a job is recovered
RecLookForTask ==
    /\ rec.pc = "look"
    /\ rec' = IF child[rec.node] = "created" THEN [rec EXCEPT !.pc = "queue"] ELSE NoRecovery
    /\ UNCHANGED <<goal, plan, child, call, exec, detached>>

\* is there a job by now, or a task that still waits for one?
RecLook ==
    /\ rec.pc = "look"
    /\ rec' = CASE child[rec.node] = "created"   -> [rec EXCEPT !.pc = "queue"]
                 [] child[rec.node] = "withdrawn" -> NoRecovery
                 [] OTHER                         -> [rec EXCEPT !.pc = "link"]
    /\ UNCHANGED <<goal, plan, child, call, exec, detached>>

\* as QueueChild; a refusal leaves the node to the next pass
RecQueue ==
    /\ rec.pc = "queue"
    /\ \/ /\ child[rec.node] = "created"
          /\ child' = [child EXCEPT ![rec.node] = "queued"]
          /\ rec' = [rec EXCEPT !.pc = "link"]
       \/ rec' = NoRecovery /\ UNCHANGED child
    /\ UNCHANGED <<goal, plan, call, exec, detached>>

\* the node may have failed or been cancelled since
RecLink ==
    /\ rec.pc = "link"
    /\ linked' = linked \cup {rec.node}
    /\ rec' = NoRecovery
    /\ UNCHANGED <<goal, node, revision, child, call, exec, detached>>

\* a control plane dies, and initialize closes a lapsed call when it is back
Crash(p) ==
    /\ exec[p] # Idle
    /\ call' = IF call.lapsed THEN [call EXCEPT !.started = FALSE] ELSE call
    /\ Return(p)
    /\ UNCHANGED <<goal, plan, child, rec, detached>>

CrashMaintenance ==
    /\ rec # NoRecovery
    /\ rec' = NoRecovery
    /\ UNCHANGED <<goal, plan, child, call, exec, detached>>

-----------------------------------------------------------------------------

PlanStep(p) ==
    \/ \E kind \in Kinds \ {"none"} : BeginPlan(p, kind)
    \/ AskPlanner(p)
    \/ GiveUpPlan(p)
    \/ \E new \in SUBSET (Nodes \ Existing) : PersistInitialPlan(p, new) \/ AppendPlan(p, new)

DispatchStep(p) ==
    \/ BeginAdvance(p) \/ EndAdvance(p)
    \/ \E n \in Nodes : DispatchNode(p, n) \/ BlockNode(p, n)
    \/ QueueChild(p) \/ RefuseChild(p) \/ LinkJob(p) \/ UndoDispatch(p)

EvaluationStep(p) ==
    \/ ReserveEvaluation(p) \/ PauseEvaluation(p)
    \/ CompleteGoal(p) \/ FailGoal(p) \/ AskUser(p)
    \/ \E new \in SUBSET (Nodes \ Existing) : ExtendPlan(p, new)
    \/ DropAnswer(p) \/ ModelTimesOut(p)

PlaneStep(p) == PlanStep(p) \/ DispatchStep(p) \/ EvaluationStep(p) \/ Crash(p)

GraphStep ==
    \/ \E blocked \in SUBSET WithStatus({"planned"}) : RefreshReady(blocked)
    \/ \E n \in Nodes : CompleteSynthesis(n)
    \/ RetryEvaluation

OutsideStep ==
    \/ Message \/ Terminate \/ CallLapses
    \/ \E n \in Nodes : \/ UserCancels(n) \/ CancelContextJob(n) \/ QuarantineChild(n)
                       \/ ClaimChild(n) \/ LeaseLost(n) \/ FinishJob(n)
    \/ \E stale \in SUBSET Nodes : CancelStaleJobs(stale)

RepairStep ==
    \/ \E n \in Nodes : \/ ProjectClaim(n) \/ ProjectResult(n) \/ ProjectCapability(n)
                       \/ CancelChild(n) \/ RecSelect(n)
    \/ RecLook \/ RecQueue \/ RecLink \/ CrashMaintenance

Next == \/ \E p \in Planes : PlaneStep(p)
        \/ GraphStep \/ OutsideStep \/ RepairStep

Spec == Init /\ [][Next]_vars

\* The maintenance loop comes back to every row that needs a repair, and some
\* owner of it lives long enough to finish one; but a pass ends at the first
\* row that raises, so that nothing is promised while a node is stuck.  What
\* stopped goals left running is cancelled all the same: a stopped goal has no
\* stuck node.  Nothing else must happen.
PassGoesOn == \A n \in Nodes : ~Stuck(n)

Fairness ==
    /\ \A n \in Nodes : /\ WF_vars(CancelChild(n))
                        /\ WF_vars(PassGoesOn /\ ProjectResult(n))
                        /\ SF_vars(PassGoesOn /\ RecSelect(n))
    /\ SF_vars(PassGoesOn /\ RecLook)
    /\ SF_vars(PassGoesOn /\ RecQueue)
    /\ SF_vars(PassGoesOn /\ RecLink)

FairSpec == Spec /\ Fairness

-----------------------------------------------------------------------------
(* Properties *)

\* Work is never left running for a node that gave it up: while the task of a
\* node lives, the node is open, or the goal was stopped and its cancellation
\* is under way, or the job was queued by the recovery behind the back of the
\* dispatch it refused (the exception detached records).
WorkAttached == \A n \in Nodes : child[n] \in LiveChild =>
    node[n] \in Open \/ goal.status = "stopped" \/ n \in detached

\* A message of the user is not lost: it waits until a plan was accepted that
\* was made for the conversation with it, or that the user wrote.  A model
\* that answers an older conversation, a replan that was already running and
\* a dispatch of the old plan leave it alone.
PendingInstructionKept == [][goal.pending /\ ~goal'.pending =>
    /\ goal'.plan = goal.plan + 1
    /\ \E p \in Planes : exec'[p] # exec[p] /\ (exec[p].rev = goal.rev \/ OwnPlan(p))]_vars

\* The budgets hold whatever interleaves: every worker ever handed out and
\* every synthesis done was paid a step, every model call and every generative
\* worker a call, and no two control planes exceed the parallelism together.
HandedOut == {n \in Workers : child[n] # "none"}
WithinBudget ==
    /\ goal.steps = Cardinality(HandedOut)
                     + Cardinality(Synthesis \cap WithStatus({"completed"}))
    /\ goal.calls = call.gen + Cardinality(HandedOut \cap Generative)
    /\ goal.steps <= MaxSteps /\ goal.calls <= MaxCalls
    /\ goal.replans <= MaxReplans
    /\ Cardinality(Existing) <= MaxSteps
    /\ Cardinality(WithStatus(Open)) <= MaxParallelism

\* A completed goal left nothing behind: no message unanswered, no node that
\* could still change, no failed worker and no work running.
CompletedGoalSettled == goal.status = "completed" =>
    /\ ~goal.pending
    /\ Quiescent
    /\ Convincing
    /\ \A n \in Workers \cap WithStatus({"completed"}) : child[n] = "completed"
    /\ \A n \in Nodes : child[n] \notin LiveChild

\* The tables of goal_state.py hold although many transactions write a status
\* with a statement of their own: StopGoal, a replan that skips what is left of
\* the plan, the sweep of stale jobs, a context that changed.  A terminal node
\* and an ended goal are never moved again.  A synthesis is started and
\* completed in one transaction.
NodeMoves ==
    {<<"none", "planned">>}
      \cup ({"planned"} \X {"ready", "blocked", "cancelled", "skipped"})
      \cup ({"ready"} \X {"dispatched", "blocked", "cancelled", "skipped"})
      \cup ({"dispatched"} \X {"running", "waiting_capability", "completed", "failed", "cancelled"})
      \cup ({"running"} \X {"waiting_capability", "completed", "failed", "cancelled"})
      \cup ({"waiting_capability"} \X {"running", "failed", "cancelled"})

GoalMoves ==
    ({"planning"} \X {"running", "stopped"})
      \cup ({"running"} \X (Waiting \cup Ended))
      \cup (Waiting \X {"running", "stopped"})

NodeMay(n, new) ==
    \/ <<node[n], new>> \in NodeMoves
    \/ n \in Synthesis /\ node[n] = "ready" /\ new = "completed"

TransitionsKept ==
    [][/\ goal'.status # goal.status => <<goal.status, goal'.status>> \in GoalMoves
       /\ \A n \in Nodes : node'[n] # node[n] => NodeMay(n, node'[n])]_vars

\* What the goal sees of its jobs is what the dispatcher does with them: its
\* tasks live the life of JobLifecycle, which AgentJobs implements.
ChildState == [n \in Nodes |-> IF child[n] = "unproven" THEN "completed" ELSE child[n]]

Child == INSTANCE JobLifecycle WITH Tasks <- Nodes, Repeatable <- Nodes, status <- ChildState

ImplementsJobLifecycle == Child!Spec

\* The end of a job reaches its node, although the dispatch crashed before it
\* recorded the job or the call that reports the end was lost; unless a node
\* whose phone request was refused or expired blocks the reconciliation.
EndedJobProjected == \A n \in Nodes :
    child[n] \in EndedJob /\ node[n] \in Open ~> node[n] \notin Open \/ ~PassGoesOn

\* Its safety core: whatever crashed or was lost on the way, an ended job of a
\* node that still counts as open is within reach of the reconciliation, which
\* visits the goals that are under way.  It reads the result of a linked node
\* and selects an unlinked one to record its job first.
RepairInReach == \A n \in Nodes :
    child[n] \in EndedJob /\ node[n] \in Open =>
        /\ goal.status \in {"running"} \cup Waiting
        /\ n \in linked \/ Unlinked(n)

\* docs/07-agent-swarm-protocol.md:354 and 367 promise more: the terminal result
\* the server observes updates the node, whose states are dispatched, running,
\* waiting_capability, and then a terminal one.  So no node waits for the phone
\* for ever when its job has long been over.
ResultReachesNode == \A n \in Nodes :
    ~<>[](child[n] \in EndedJob /\ node[n] = "waiting_capability")

=============================================================================
