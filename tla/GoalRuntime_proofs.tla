------------------------- MODULE GoalRuntime_proofs -------------------------
(***************************************************************************)
(* Safety of GoalRuntime for any plan, any number of control planes and    *)
(* any budgets.  Over TypeOK, three invariants carry the argument: NodesOK *)
(* ties the task of a node to its status, BeliefsOK says what a control    *)
(* plane may still believe while its call is current, and SettledOK what   *)
(* an accepted evaluation leaves.  WithinBudget is inductive with NodesOK. *)
(* The tables of goal_state.py, the refinement of JobLifecycle (and that   *)
(* the goal runtime leaves none of its moves out) and the reach of the     *)
(* reconciliation follow from what single steps do.                        *)
(***************************************************************************)
EXTENDS GoalRuntime, FiniteSetTheorems, TLAPS

ExecTyped == exec' \in [Planes -> Exec]

LEMMA IdleTyped == Idle \in Exec
BY GoalAssumption DEF Idle, Exec, Kinds, Stages, WithNode

LEMMA ReturnTyped == ASSUME TypeOK, NEW p \in Planes, Return(p) PROVE ExecTyped
BY IdleTyped DEF TypeOK, Return, Goto, ExecTyped

LEMMA GotoTyped ==
    ASSUME TypeOK, NEW p \in Planes, NEW e \in Exec, Goto(p, e) PROVE ExecTyped
BY DEF TypeOK, Goto, ExecTyped

LEMMA SetNodesTyped ==
    ASSUME TypeOK, NEW S, NEW status \in NodeStatuses
    PROVE  SetNodes(S, status) \in [Nodes -> NodeStatuses]
BY DEF TypeOK, SetNodes

LEMMA CancelledTyped ==
    ASSUME TypeOK, NEW S PROVE CancelledChildren(S) \in [Nodes -> ChildStatuses]
BY DEF TypeOK, CancelledChildren, ChildStatuses, EndedJob

LEMMA StopGoalTyped ==
    ASSUME TypeOK, StopGoal
    PROVE  /\ goal' \in Goal
           /\ node' \in [Nodes -> NodeStatuses]
           /\ revision' \in [Nodes -> 0..MaxRevision]
           /\ linked' \subseteq Nodes
<1>1. "cancelled" \in NodeStatuses
  BY DEF NodeStatuses, Terminal, Failed
<1>2. goal' \in Goal
  BY DEF TypeOK, StopGoal, Goal, GoalStatuses, Ended
<1> QED
  BY <1>1, <1>2, SetNodesTyped DEF TypeOK, StopGoal

LEMMA FinishTyped == ASSUME TypeOK, FinishCall PROVE call' \in Call
BY DEF TypeOK, FinishCall, Call

LEMMA ReserveTyped ==
    ASSUME TypeOK, NEW p \in Planes, NEW e \in Exec, ReserveCall(p, e)
    PROVE  call' \in Call /\ goal' \in Goal /\ ExecTyped
<1>1. call' \in Call /\ goal' \in Goal
  BY DEF TypeOK, ReserveCall, Call, Goal
<1>2. [e EXCEPT !.gen = call.gen + 1] \in Exec
  BY DEF TypeOK, Exec, Call
<1> QED
  BY <1>1, <1>2, GotoTyped DEF ReserveCall

LEMMA GoalTyped ==
    ASSUME goal \in Goal, NEW st \in GoalStatuses, NEW pe \in BOOLEAN, NEW r \in 0..MaxRevision,
           NEW m \in Nat, NEW k \in Nat
    PROVE  /\ [goal EXCEPT !.status = st, !.plan = m, !.pending = pe] \in Goal
           /\ [goal EXCEPT !.status = st, !.plan = m, !.replans = k, !.pending = pe] \in Goal
           /\ [goal EXCEPT !.steps = m, !.pending = pe, !.calls = k] \in Goal
           /\ [goal EXCEPT !.rev = r, !.pending = pe, !.status = st] \in Goal
BY Zenon DEF Goal

LEMMA GoalFields ==
    ASSUME TypeOK
    PROVE  /\ goal \in Goal /\ goal.status \in GoalStatuses
           /\ goal.rev \in 0..MaxRevision /\ goal.pending \in BOOLEAN
           /\ goal.plan \in Nat /\ goal.replans \in Nat
           /\ goal.steps \in Nat /\ goal.calls \in Nat
           /\ goal.plan + 1 \in Nat /\ goal.replans + 1 \in Nat
           /\ goal.steps + 1 \in Nat /\ goal.calls + 1 \in Nat
BY DEF TypeOK, Goal

LEMMA Constants ==
    /\ "running" \in GoalStatuses /\ FALSE \in BOOLEAN /\ TRUE \in BOOLEAN
BY DEF GoalStatuses

LEMMA PlanTypes ==
    ASSUME TypeOK, NEW p \in Planes, PlanStep(p) PROVE TypeOK'
<1>1. ASSUME NEW kind \in Kinds, BeginPlan(p, kind) PROVE TypeOK'
  <2>1. [Idle EXCEPT !.pc = "read", !.kind = kind, !.rev = goal.rev, !.plan = goal.plan] \in Exec
    BY IdleTyped DEF TypeOK, Exec, Goal, Kinds, Stages, WithNode, Idle
  <2> QED
    BY <1>1, <2>1, GotoTyped DEF BeginPlan, TypeOK, ExecTyped, plan
<1>2. CASE AskPlanner(p)
  <2>1. [exec[p] EXCEPT !.pc = "planner"] \in Exec
    BY DEF TypeOK, Exec, Stages, WithNode
  <2> QED
    BY <1>2, <2>1, ReserveTyped DEF AskPlanner, TypeOK, ExecTyped, plan
<1>3. CASE GiveUpPlan(p)
  BY <1>3, ReturnTyped DEF GiveUpPlan, TypeOK, ExecTyped, plan
<1>4. ASSUME NEW new \in SUBSET Nodes, PersistInitialPlan(p, new) PROVE TypeOK'
  <2>1. goal' \in Goal
    BY <1>4, GoalTyped, GoalFields, Constants, ZenonT(40) DEF PersistInitialPlan
  <2>2. "planned" \in NodeStatuses
    BY DEF NodeStatuses
  <2>3. call' \in Call
    BY <1>4, FinishTyped DEF PersistInitialPlan, TypeOK
  <2>4. ExecTyped
    BY <1>4, ReturnTyped DEF PersistInitialPlan
  <2>5. node' \in [Nodes -> NodeStatuses]
    BY <1>4, <2>2, SetNodesTyped DEF PersistInitialPlan
  <2> QED
    BY <1>4, <2>1, <2>3, <2>4, <2>5 DEF PersistInitialPlan, TypeOK, ExecTyped
<1>5. ASSUME NEW new \in SUBSET Nodes, AppendPlan(p, new) PROVE TypeOK'
  <2>1. goal' \in Goal
    BY <1>5, GoalTyped, GoalFields, Constants, ZenonT(40) DEF AppendPlan
  <2>2. node' \in [Nodes -> NodeStatuses]
    BY <1>5 DEF TypeOK, AppendPlan, NodeStatuses, Terminal, Failed
  <2>3. call' \in Call
    BY <1>5, FinishTyped DEF AppendPlan, TypeOK
  <2>4. ExecTyped
    BY <1>5, ReturnTyped DEF AppendPlan
  <2> QED
    BY <1>5, <2>1, <2>2, <2>3, <2>4 DEF AppendPlan, TypeOK, ExecTyped
<1> QED
  BY <1>1, <1>2, <1>3, <1>4, <1>5 DEF PlanStep

LEMMA DispatchTypes ==
    ASSUME TypeOK, NEW p \in Planes, DispatchStep(p) PROVE TypeOK'
<1>1. CASE BeginAdvance(p)
  <2>1. [Idle EXCEPT !.pc = "advance", !.rev = goal.rev] \in Exec
    BY IdleTyped DEF TypeOK, Exec, Goal, Stages, WithNode, Idle
  <2> QED
    BY <1>1, <2>1, GotoTyped DEF BeginAdvance, TypeOK, ExecTyped, plan
<1>2. CASE EndAdvance(p)
  BY <1>2, ReturnTyped DEF EndAdvance, TypeOK, ExecTyped, plan
<1>3. ASSUME NEW n \in Nodes, DispatchNode(p, n) PROVE TypeOK'
  <2>1. goal' \in Goal
    <3>1. (IF n \in Generative THEN goal.calls + 1 ELSE goal.calls) \in Nat
      BY GoalFields
    <3>2. goal' = [goal EXCEPT !.steps = goal.steps + 1, !.pending = FALSE,
                               !.calls = IF n \in Generative THEN goal.calls + 1 ELSE goal.calls]
      BY <1>3 DEF DispatchNode
    <3> QED
      BY <1>3, <3>1, <3>2, GoalTyped, GoalFields, Constants, ZenonT(40)
  <2>2. "dispatched" \in NodeStatuses /\ "created" \in ChildStatuses
    BY DEF NodeStatuses, Open, ChildStatuses, LiveChild
  <2>3. [Idle EXCEPT !.pc = "queue", !.node = n] \in Exec
    BY IdleTyped DEF Exec, Stages, WithNode, Idle
  <2>4. ExecTyped
    BY <1>3, <2>3, GotoTyped DEF DispatchNode
  <2>5. goal.rev \in 0..MaxRevision
    BY DEF TypeOK, Goal
  <2>6. node' \in [Nodes -> NodeStatuses]
    BY <1>3, <2>2, SetNodesTyped DEF DispatchNode
  <2> QED
    BY <1>3, <2>1, <2>2, <2>4, <2>5, <2>6 DEF DispatchNode, TypeOK, ExecTyped
<1>4. ASSUME NEW n \in Nodes, BlockNode(p, n) PROVE TypeOK'
  <2>1. "blocked" \in NodeStatuses
    BY DEF NodeStatuses, Terminal, Failed
  <2>2. ExecTyped
    BY <1>4, ReturnTyped DEF BlockNode
  <2>3. node' \in [Nodes -> NodeStatuses]
    BY <1>4, <2>1, SetNodesTyped DEF BlockNode
  <2> QED
    BY <1>4, <2>2, <2>3 DEF BlockNode, TypeOK, ExecTyped
<1>5. CASE QueueChild(p)
  <2>1. /\ [exec[p] EXCEPT !.pc = "link"] \in Exec
        /\ [exec[p] EXCEPT !.pc = "refuse"] \in Exec
    BY <1>5 DEF QueueChild, At, TypeOK, Exec, Stages, WithNode
  <2>2. ExecTyped
    BY <1>5, <2>1, GotoTyped DEF QueueChild
  <2>3. child' \in [Nodes -> ChildStatuses]
    BY <1>5 DEF QueueChild, TypeOK, ChildStatuses, LiveChild
  <2> QED
    BY <1>5, <2>2, <2>3 DEF QueueChild, TypeOK, ExecTyped, plan
<1>6. CASE RefuseChild(p)
  <2>0. exec[p].node \in Nodes
    BY <1>6 DEF RefuseChild, At, TypeOK, Exec, WithNode
  <2>1. "failed" \in NodeStatuses /\ "withdrawn" \in ChildStatuses
    BY DEF NodeStatuses, Terminal, Failed, ChildStatuses
  <2>2. node' \in [Nodes -> NodeStatuses]
    BY <1>6, <2>1, SetNodesTyped DEF RefuseChild, TypeOK
  <2>3. child' \in [Nodes -> ChildStatuses]
    BY <1>6, <2>1 DEF RefuseChild, TypeOK
  <2>4. detached' \subseteq Nodes
    BY <1>6, <2>0 DEF RefuseChild, TypeOK
  <2>5. ExecTyped
    BY <1>6, ReturnTyped DEF RefuseChild
  <2> QED
    BY <1>6, <2>2, <2>3, <2>4, <2>5 DEF RefuseChild, TypeOK, ExecTyped
<1>7. CASE LinkJob(p)
  <2>1. [exec[p] EXCEPT !.pc = "undo"] \in Exec /\ exec[p].node \in Nodes
    BY <1>7 DEF LinkJob, At, TypeOK, Exec, Stages, WithNode
  <2>2. ExecTyped
    BY <1>7, <2>1, GotoTyped, ReturnTyped DEF LinkJob
  <2>3. linked' \subseteq Nodes
    BY <1>7, <2>1 DEF LinkJob, TypeOK
  <2> QED
    BY <1>7, <2>2, <2>3 DEF LinkJob, TypeOK, ExecTyped
<1>8. CASE UndoDispatch(p)
  BY <1>8, ReturnTyped, CancelledTyped DEF UndoDispatch, TypeOK, ExecTyped, plan
<1> QED
  BY <1>1, <1>2, <1>3, <1>4, <1>5, <1>6, <1>7, <1>8 DEF DispatchStep

LEMMA EvaluationTypes ==
    ASSUME TypeOK, NEW p \in Planes, EvaluationStep(p) PROVE TypeOK'
<1>0. FinishCall => call' \in Call
  BY FinishTyped
<1>1. CASE ReserveEvaluation(p)
  <2>1. [Idle EXCEPT !.pc = "evaluator", !.rev = goal.rev, !.seen = Existing] \in Exec
    BY IdleTyped DEF TypeOK, Exec, Goal, Stages, WithNode, Idle, Existing
  <2> QED
    BY <1>1, <2>1, ReserveTyped DEF ReserveEvaluation, TypeOK, ExecTyped, plan
<1>2. CASE PauseEvaluation(p)
  <2>1. goal' \in Goal
    BY <1>2 DEF PauseEvaluation, TypeOK, Goal, GoalStatuses, Waiting
  <2> QED
    BY <1>0, <1>2, <2>1, ReturnTyped DEF PauseEvaluation, TypeOK, ExecTyped, plan
<1>3. CASE CompleteGoal(p)
  <2>1. goal' \in Goal
    BY <1>3 DEF CompleteGoal, TypeOK, Goal, GoalStatuses, Ended
  <2> QED
    BY <1>0, <1>3, <2>1, ReturnTyped DEF CompleteGoal, TypeOK, ExecTyped, plan
<1>4. CASE FailGoal(p)
  BY <1>0, <1>4, StopGoalTyped, ReturnTyped DEF FailGoal, TypeOK, ExecTyped
<1>5. CASE AskUser(p)
  <2>1. goal' \in Goal
    BY <1>5 DEF AskUser, TypeOK, Goal, GoalStatuses, Waiting
  <2> QED
    BY <1>0, <1>5, <2>1, ReturnTyped DEF AskUser, TypeOK, ExecTyped, plan
<1>6. ASSUME NEW new \in SUBSET Nodes, ExtendPlan(p, new) PROVE TypeOK'
  <2>1. goal' \in Goal
    BY <1>6 DEF ExtendPlan, TypeOK, Goal
  <2>2. "planned" \in NodeStatuses
    BY DEF NodeStatuses
  <2>3. node' \in [Nodes -> NodeStatuses]
    BY <1>6, <2>2, SetNodesTyped DEF ExtendPlan
  <2> QED
    BY <1>0, <1>6, <2>1, <2>3, ReturnTyped DEF ExtendPlan, TypeOK, ExecTyped
<1>7. CASE DropAnswer(p)
  BY <1>0, <1>7, ReturnTyped DEF DropAnswer, TypeOK, ExecTyped, plan
<1>8. CASE ModelTimesOut(p)
  BY <1>0, <1>8, StopGoalTyped, ReturnTyped DEF ModelTimesOut, TypeOK, ExecTyped
<1> QED
  BY <1>1, <1>2, <1>3, <1>4, <1>5, <1>6, <1>7, <1>8 DEF EvaluationStep

LEMMA GraphTypes == ASSUME TypeOK, GraphStep PROVE TypeOK'
<1>1. ASSUME NEW blocked, RefreshReady(blocked) PROVE TypeOK'
  <2>1. node' \in [Nodes -> NodeStatuses]
    BY <1>1 DEF RefreshReady, TypeOK, NodeStatuses, Terminal, Failed
  <2> QED
    BY <1>1, <2>1 DEF RefreshReady, TypeOK
<1>2. ASSUME NEW n \in Nodes, CompleteSynthesis(n) PROVE TypeOK'
  <2>1. "skipped" \in NodeStatuses /\ "completed" \in NodeStatuses
    BY DEF NodeStatuses, Terminal, Failed
  <2>2. node' \in [Nodes -> NodeStatuses]
    BY <1>2, <2>1, SetNodesTyped DEF CompleteSynthesis
  <2>3. goal' \in Goal
    BY <1>2 DEF CompleteSynthesis, TypeOK, Goal
  <2> QED
    BY <1>2, <2>2, <2>3 DEF CompleteSynthesis, TypeOK
<1>3. CASE RetryEvaluation
  BY <1>3 DEF RetryEvaluation, TypeOK, Goal, GoalStatuses, plan
<1> QED
  BY <1>1, <1>2, <1>3 DEF GraphStep

LEMMA OutsideTypes == ASSUME TypeOK, OutsideStep PROVE TypeOK'
<1>1. CASE Message
  <2>1. goal.rev + 1 \in 0..MaxRevision
    BY <1>1, GoalAssumption DEF Message, TypeOK, Goal
  <2>2. (IF goal.status = "needs_user" THEN "running" ELSE goal.status) \in GoalStatuses
    BY GoalFields, Constants
  <2>3. goal' \in Goal
    BY <1>1, <2>1, <2>2, GoalTyped, GoalFields, Constants, ZenonT(40) DEF Message
  <2> QED
    BY <1>1, <2>3, FinishTyped DEF Message, TypeOK, plan
<1>2. CASE Terminate
  BY <1>2, StopGoalTyped DEF Terminate, TypeOK
<1>3. CASE CallLapses
  <2>1. call' \in Call
    BY <1>3 DEF CallLapses, TypeOK, Call
  <2> QED
    BY <1>3, <2>1 DEF CallLapses, TypeOK, plan
<1>4. ASSUME NEW n \in Nodes, UserCancels(n) PROVE TypeOK'
  BY <1>4, CancelledTyped DEF UserCancels, TypeOK, plan
<1>5. ASSUME NEW n \in Nodes,
             QuarantineChild(n) \/ ClaimChild(n) \/ LeaseLost(n) \/ FinishJob(n)
      PROVE  TypeOK'
  <2>1. {"leased", "queued", "failed", "completed", "unproven"} \subseteq ChildStatuses
    BY DEF ChildStatuses, LiveChild, EndedJob
  <2> QED
    BY <1>5, <2>1 DEF QuarantineChild, ClaimChild, LeaseLost, FinishJob, TypeOK, plan
<1>6. ASSUME NEW stale, CancelStaleJobs(stale) PROVE TypeOK'
  <2>1. "cancelled" \in NodeStatuses
    BY DEF NodeStatuses, Terminal, Failed
  <2>2. node' \in [Nodes -> NodeStatuses]
    BY <1>6, <2>1, SetNodesTyped DEF CancelStaleJobs
  <2> QED
    BY <1>6, <2>2, CancelledTyped DEF CancelStaleJobs, TypeOK
<1>7. ASSUME NEW n \in Nodes, CancelContextJob(n) PROVE TypeOK'
  <2>1. "cancelled" \in NodeStatuses
    BY DEF NodeStatuses, Terminal, Failed
  <2>2. node' \in [Nodes -> NodeStatuses]
    BY <1>7, <2>1, SetNodesTyped DEF CancelContextJob
  <2> QED
    BY <1>7, <2>2, CancelledTyped DEF CancelContextJob, TypeOK
<1> QED
  BY <1>1, <1>2, <1>3, <1>4, <1>5, <1>6, <1>7 DEF OutsideStep

LEMMA RepairTypes == ASSUME TypeOK, RepairStep PROVE TypeOK'
<1>1. ASSUME NEW n \in Nodes, ProjectClaim(n) \/ ProjectResult(n) \/ ProjectCapability(n)
      PROVE  TypeOK'
  <2>1. {"running", "waiting_capability", "completed", "failed"} \subseteq NodeStatuses
    BY DEF NodeStatuses, Open, Terminal, Failed
  <2>2. node' \in [Nodes -> NodeStatuses]
    BY <1>1, <2>1, SetNodesTyped DEF ProjectClaim, ProjectResult, ProjectCapability
  <2> QED
    BY <1>1, <2>2 DEF ProjectClaim, ProjectResult, ProjectCapability, TypeOK
<1>2. ASSUME NEW n \in Nodes, CancelChild(n) PROVE TypeOK'
  BY <1>2, CancelledTyped DEF CancelChild, TypeOK, plan
<1>3. ASSUME NEW n \in Nodes, RecSelect(n) PROVE TypeOK'
  BY <1>3 DEF RecSelect, TypeOK, Recovery, plan
<1>4. ASSUME rec.pc # "idle" PROVE rec \in Recovery
  BY <1>4 DEF TypeOK, NoRecovery
<1>5. CASE RecLook
  <2>1. rec' \in Recovery \cup {NoRecovery}
    BY <1>4, <1>5 DEF RecLook, Recovery
  <2> QED
    BY <1>5, <2>1 DEF RecLook, TypeOK, plan
<1>6. CASE RecQueue
  <2>1. rec' \in Recovery \cup {NoRecovery}
    BY <1>4, <1>6 DEF RecQueue, Recovery
  <2>2. child' \in [Nodes -> ChildStatuses]
    BY <1>6 DEF RecQueue, TypeOK, ChildStatuses, LiveChild
  <2> QED
    BY <1>6, <2>1, <2>2 DEF RecQueue, TypeOK, plan
<1>7. CASE RecLink
  BY <1>4, <1>7 DEF RecLink, TypeOK, Recovery
<1>8. CASE CrashMaintenance
  BY <1>8 DEF CrashMaintenance, TypeOK, plan
<1> QED
  BY <1>1, <1>2, <1>3, <1>5, <1>6, <1>7, <1>8 DEF RepairStep

LEMMA InitTypes == Init => TypeOK
BY IdleTyped, GoalAssumption
DEF Init, TypeOK, Goal, GoalStatuses, NodeStatuses, ChildStatuses, Call, NoRecovery

LEMMA NextTypes == TypeOK /\ [Next]_vars => TypeOK'
<1> SUFFICES ASSUME TypeOK, [Next]_vars PROVE TypeOK'
  OBVIOUS
<1>1. ASSUME NEW p \in Planes, Crash(p) PROVE TypeOK'
  <2>1. call' \in Call
    BY <1>1 DEF Crash, TypeOK, Call
  <2> QED
    BY <1>1, <2>1, ReturnTyped DEF Crash, TypeOK, ExecTyped, plan
<1>2. CASE UNCHANGED vars
  BY <1>2 DEF vars, plan, TypeOK
<1> QED
  BY <1>1, <1>2, PlanTypes, DispatchTypes, EvaluationTypes, GraphTypes, OutsideTypes, RepairTypes
  DEF Next, PlaneStep

\* Type correctness of the goal, its plan, its work and the control planes.
THEOREM TypesKept == Spec => []TypeOK
BY InitTypes, NextTypes, PTL DEF Spec

-----------------------------------------------------------------------------
(* Work follows its node.  A node gets a task when it is handed out, so one *)
(* that was not has none; it stops being open only with its task ended,     *)
(* with the goal, or in the refusal that detached records.                  *)

NodeOK(n) ==
    /\ node[n] \in {"none", "planned", "ready"} => child[n] = "none"
    /\ n \in Synthesis => child[n] = "none"
    /\ child[n] \in LiveChild =>
         node[n] \in Open \/ goal.status = "stopped" \/ n \in detached
    /\ n \in detached => node[n] = "failed" /\ child[n] # "none"
    /\ n \in Workers /\ node[n] = "completed" => child[n] = "completed"

NodesOK == \A n \in Nodes : NodeOK(n)

LEMMA NodesFrame ==
    ASSUME NodesOK, UNCHANGED <<node, child, detached>>,
           goal.status = "stopped" => goal'.status = "stopped"
    PROVE  NodesOK'
BY DEF NodesOK, NodeOK, Workers

LEMMA NodesStop ==
    ASSUME TypeOK, NodesOK, StopGoal, UNCHANGED <<child, detached>> PROVE NodesOK'
BY DEF TypeOK, Goal, NodesOK, NodeOK, StopGoal, SetNodes, Existing, WithStatus, Terminal, Failed,
       Workers

\* A live task that is cancelled, and its node, if any, with it
LEMMA NodesCancelled ==
    ASSUME TypeOK, NodesOK, NEW S \in SUBSET Nodes, \A n \in S : child[n] \in LiveChild,
           child' = CancelledChildren(S), UNCHANGED <<goal, detached>>,
           node' = node \/ (node' = SetNodes(S, "cancelled") /\ \A n \in S : node[n] \in Open)
    PROVE  NodesOK'
BY DEF TypeOK, NodesOK, NodeOK, CancelledChildren, SetNodes, LiveChild, Open, Workers

LEMMA PlanNodes ==
    ASSUME TypeOK, NodesOK, NEW p \in Planes, PlanStep(p) PROVE NodesOK'
<1>1. ASSUME NEW kind \in Kinds, BeginPlan(p, kind) PROVE NodesOK'
  BY <1>1, NodesFrame DEF BeginPlan, plan
<1>2. CASE AskPlanner(p)
  BY <1>2, NodesFrame DEF AskPlanner, ReserveCall, Finished, Ended, plan
<1>3. CASE GiveUpPlan(p)
  BY <1>3, NodesFrame DEF GiveUpPlan, plan
<1>4. ASSUME NEW new \in SUBSET Nodes, PersistInitialPlan(p, new) PROVE NodesOK'
  <2>1. goal.status # "stopped" /\ UNCHANGED <<child, detached>>
        /\ \A n \in Nodes : node'[n] = node[n] \/ (node[n] = "none" /\ node'[n] = "planned")
    BY <1>4 DEF PersistInitialPlan, SetNodes, Fits, Existing, TypeOK
  <2> QED
    BY <2>1 DEF NodesOK, NodeOK, Workers, Open
<1>5. ASSUME NEW new \in SUBSET Nodes, AppendPlan(p, new) PROVE NodesOK'
  <2>1. goal.status # "stopped" /\ UNCHANGED <<child, detached>>
    BY <1>5 DEF AppendPlan, Waiting
  <2>2. \A n \in Nodes : \/ node'[n] = node[n]
                         \/ node[n] = "none" /\ node'[n] = "planned"
                         \/ node[n] \in {"planned", "ready"} /\ node'[n] = "skipped"
    BY <1>5 DEF AppendPlan, Fits, Existing, TypeOK
  <2> QED
    BY <2>1, <2>2 DEF NodesOK, NodeOK, Workers, Open, LiveChild
<1> QED
  BY <1>1, <1>2, <1>3, <1>4, <1>5 DEF PlanStep

LEMMA DispatchNodes ==
    ASSUME TypeOK, NodesOK, NEW p \in Planes, DispatchStep(p) PROVE NodesOK'
<1>1. CASE BeginAdvance(p) \/ EndAdvance(p) \/ LinkJob(p)
  BY <1>1, NodesFrame DEF BeginAdvance, EndAdvance, LinkJob, plan
<1>2. ASSUME NEW n \in Nodes, DispatchNode(p, n) PROVE NodesOK'
  <2>1. n \notin Synthesis /\ node[n] = "ready" /\ UNCHANGED detached
        /\ goal.status # "stopped"
    BY <1>2 DEF DispatchNode, Workers
  <2>2. \A m \in Nodes : /\ node'[m] = IF m = n THEN "dispatched" ELSE node[m]
                         /\ child'[m] = IF m = n THEN "created" ELSE child[m]
    BY <1>2 DEF DispatchNode, SetNodes, TypeOK
  <2> QED
    BY <2>1, <2>2 DEF NodesOK, NodeOK, Workers, Open
<1>3. ASSUME NEW n \in Nodes, BlockNode(p, n) PROVE NodesOK'
  BY <1>3 DEF BlockNode, SetNodes, NodesOK, NodeOK, Workers, Open, LiveChild, TypeOK
<1>4. CASE QueueChild(p)
  BY <1>4 DEF QueueChild, plan, NodesOK, NodeOK, Workers, Open, LiveChild, TypeOK
<1>5. CASE RefuseChild(p)
  <2>0. PICK n \in Nodes : n = exec[p].node
    BY <1>5 DEF RefuseChild, At, TypeOK, Exec, WithNode
  <2>1. \A m \in Nodes : m # n => node'[m] = node[m] /\ child'[m] = child[m]
                                  /\ (m \in detached' <=> m \in detached)
    BY <1>5, <2>0 DEF RefuseChild, SetNodes, TypeOK
  <2>2. UNCHANGED goal
    BY <1>5 DEF RefuseChild
  <2>3. node[n] = "dispatched" =>
          /\ node'[n] = "failed"
          /\ child[n] \in {"queued", "leased"} => n \in detached'
          /\ n \in detached' => child[n] \in {"queued", "leased"} \/ n \in detached
          /\ child[n] = "created" => child'[n] = "withdrawn"
          /\ child[n] # "created" => child'[n] = child[n]
    BY <1>5, <2>0 DEF RefuseChild, SetNodes, TypeOK
  <2>4. node[n] # "dispatched" =>
          /\ node'[n] = node[n] /\ (n \in detached' <=> n \in detached)
          /\ child'[n] = IF child[n] = "created" THEN "withdrawn" ELSE child[n]
    BY <1>5, <2>0 DEF RefuseChild, TypeOK
  <2>5. NodeOK(n)'
    BY <2>0, <2>2, <2>3, <2>4 DEF NodesOK, NodeOK, Workers, Open, LiveChild
  <2>6. ASSUME NEW m \in Nodes, m # n PROVE NodeOK(m)'
    BY <2>1, <2>2, <2>6 DEF NodesOK, NodeOK, Workers
  <2> QED
    BY <2>5, <2>6 DEF NodesOK
<1>6. CASE UndoDispatch(p)
  BY <1>6, NodesCancelled DEF UndoDispatch, plan
<1> QED
  BY <1>1, <1>2, <1>3, <1>4, <1>5, <1>6 DEF DispatchStep

LEMMA EvaluationNodes ==
    ASSUME TypeOK, NodesOK, NEW p \in Planes, EvaluationStep(p) PROVE NodesOK'
<1>1. CASE ReserveEvaluation(p)
  BY <1>1, NodesFrame DEF ReserveEvaluation, ReserveCall, plan
<1>2. CASE PauseEvaluation(p) \/ CompleteGoal(p) \/ AskUser(p) \/ DropAnswer(p)
  BY <1>2, NodesFrame DEF PauseEvaluation, CompleteGoal, AskUser, DropAnswer, Judged, plan
<1>3. CASE FailGoal(p) \/ ModelTimesOut(p)
  BY <1>3, NodesStop DEF FailGoal, ModelTimesOut
<1>4. ASSUME NEW new \in SUBSET Nodes, ExtendPlan(p, new) PROVE NodesOK'
  <2>1. goal.status # "stopped" /\ UNCHANGED <<child, detached>>
        /\ \A n \in Nodes : node'[n] = node[n] \/ (node[n] = "none" /\ node'[n] = "planned")
    BY <1>4 DEF ExtendPlan, Judged, SetNodes, Fits, Existing, TypeOK
  <2> QED
    BY <2>1 DEF NodesOK, NodeOK, Workers, Open
<1> QED
  BY <1>1, <1>2, <1>3, <1>4 DEF EvaluationStep

LEMMA GraphNodes == ASSUME TypeOK, NodesOK, GraphStep PROVE NodesOK'
<1>1. ASSUME NEW blocked, RefreshReady(blocked) PROVE NodesOK'
  <2>1. \A n \in Nodes : \/ node'[n] = node[n]
                         \/ node[n] = "planned" /\ node'[n] \in {"blocked", "ready"}
    BY <1>1 DEF RefreshReady, WithStatus, TypeOK
  <2> QED
    BY <1>1, <2>1 DEF RefreshReady, NodesOK, NodeOK, Workers, Open, LiveChild
<1>2. ASSUME NEW n \in Nodes, CompleteSynthesis(n) PROVE NodesOK'
  <2>1. /\ goal'.status = goal.status /\ UNCHANGED <<child, detached>>
        /\ n \in Synthesis /\ node[n] = "ready" /\ node'[n] \in {"skipped", "completed"}
        /\ \A m \in Nodes : m # n => node'[m] = node[m]
    BY <1>2 DEF CompleteSynthesis, SetNodes, TypeOK, Goal
  <2> QED
    BY <2>1 DEF NodesOK, NodeOK, Workers, Open, LiveChild
<1>3. CASE RetryEvaluation
  BY <1>3, NodesFrame DEF RetryEvaluation, plan
<1> QED
  BY <1>1, <1>2, <1>3 DEF GraphStep

LEMMA OutsideNodes == ASSUME TypeOK, NodesOK, OutsideStep PROVE NodesOK'
<1>1. CASE Message
  BY <1>1, NodesFrame DEF Message, Finished, Ended, plan
<1>2. CASE Terminate
  BY <1>2, NodesStop DEF Terminate
<1>3. CASE CallLapses
  BY <1>3, NodesFrame DEF CallLapses, plan
<1>4. ASSUME NEW n \in Nodes, UserCancels(n) PROVE NodesOK'
  BY <1>4, NodesCancelled DEF UserCancels, plan
<1>5. ASSUME NEW n \in Nodes,
             QuarantineChild(n) \/ ClaimChild(n) \/ LeaseLost(n) \/ FinishJob(n)
      PROVE  NodesOK'
  BY <1>5 DEF QuarantineChild, ClaimChild, LeaseLost, FinishJob, plan, NodesOK, NodeOK, Workers,
     LiveChild, TypeOK
<1>6. ASSUME NEW stale \in SUBSET Nodes, CancelStaleJobs(stale) PROVE NodesOK'
  <2>1. \A n \in stale : child[n] \in LiveChild /\ node[n] \in Open
    BY <1>6 DEF CancelStaleJobs, Stale, LiveChild, Open
  <2> QED
    BY <1>6, <2>1, NodesCancelled DEF CancelStaleJobs
<1>7. ASSUME NEW n \in Nodes, CancelContextJob(n) PROVE NodesOK'
  <2>1. \A m \in {n} : child[m] \in LiveChild
    BY <1>7 DEF CancelContextJob, LiveChild
  <2>2. \A m \in Nodes : \/ node'[m] = node[m]
                         \/ m = n /\ node[m] \in Open /\ node'[m] = "cancelled"
    BY <1>7 DEF CancelContextJob, SetNodes, WithStatus, Open
  <2> QED
    BY <1>7, <2>1, <2>2 DEF CancelContextJob, CancelledChildren, NodesOK, NodeOK, Workers, LiveChild,
       Open
<1> QED
  BY <1>1, <1>2, <1>3, <1>4, <1>5, <1>6, <1>7 DEF OutsideStep

LEMMA RepairNodes == ASSUME TypeOK, NodesOK, RepairStep PROVE NodesOK'
<1>1. ASSUME NEW n \in Nodes, ProjectClaim(n) \/ ProjectResult(n) \/ ProjectCapability(n)
      PROVE  NodesOK'
  <2>1. /\ UNCHANGED <<goal, child, detached>> /\ node[n] \in Open
        /\ \A m \in Nodes : m # n => node'[m] = node[m]
        /\ \/ node'[n] \in Open
           \/ node'[n] = "failed" /\ child[n] \in EndedJob
           \/ node'[n] = "completed" /\ child[n] = "completed"
    BY <1>1 DEF ProjectClaim, ProjectResult, ProjectCapability, SetNodes, Open, TypeOK
  <2> QED
    BY <2>1 DEF NodesOK, NodeOK, Workers, Open, LiveChild, EndedJob
<1>2. ASSUME NEW n \in Nodes, CancelChild(n) PROVE NodesOK'
  BY <1>2, NodesCancelled DEF CancelChild, plan
<1>3. ASSUME NEW n \in Nodes, RecSelect(n) PROVE NodesOK'
  BY <1>3, NodesFrame DEF RecSelect, plan
<1>4. CASE RecLook \/ RecLink \/ CrashMaintenance
  BY <1>4, NodesFrame DEF RecLook, RecLink, CrashMaintenance, plan
<1>5. CASE RecQueue
  BY <1>5 DEF RecQueue, plan, NodesOK, NodeOK, Workers, LiveChild, TypeOK
<1> QED
  BY <1>1, <1>2, <1>3, <1>4, <1>5 DEF RepairStep

LEMMA NextNodes == TypeOK /\ NodesOK /\ [Next]_vars => NodesOK'
<1> SUFFICES ASSUME TypeOK, NodesOK, [Next]_vars PROVE NodesOK'
  OBVIOUS
<1>1. ASSUME NEW p \in Planes, Crash(p) PROVE NodesOK'
  BY <1>1, NodesFrame DEF Crash, plan
<1>2. CASE UNCHANGED vars
  BY <1>2, NodesFrame DEF vars, plan
<1> QED
  BY <1>1, <1>2, PlanNodes, DispatchNodes, EvaluationNodes, GraphNodes, OutsideNodes, RepairNodes
  DEF Next, PlaneStep

LEMMA InitNodes == Init => NodesOK
BY DEF Init, NodesOK, NodeOK, LiveChild

\* No work runs for a node that gave it up.
THEOREM WorkStaysAttached == Spec => []WorkAttached
<1>1. NodesOK => WorkAttached
  BY DEF NodesOK, NodeOK, WorkAttached
<1> QED
  BY <1>1, InitTypes, NextTypes, InitNodes, NextNodes, PTL DEF Spec

-----------------------------------------------------------------------------
(* What a control plane may believe.  A message raises the revision and      *)
(* ends the call in progress, so whoever still finds its call current or the *)
(* conversation unchanged has not missed one.                                *)

BeliefOK(p) ==
    /\ exec[p].gen <= call.gen
    /\ exec[p].rev <= goal.rev
    /\ exec[p].pc = "advance" /\ exec[p].rev = goal.rev => ~goal.pending
    /\ call.started /\ call.gen = exec[p].gen =>
         /\ exec[p].pc = "planner" => call.rev = exec[p].rev
         /\ exec[p].pc = "evaluator" => ~goal.pending

BeliefsOK == \A p \in Planes : BeliefOK(p)

LEMMA TypedNumbers ==
    ASSUME TypeOK
    PROVE  /\ goal.rev \in Nat /\ call.gen \in Nat
           /\ exec \in [Planes -> Exec]
           /\ \A p \in Planes : exec[p].gen \in Nat /\ exec[p].rev \in Nat
BY GoalAssumption DEF TypeOK, Goal, Call, Exec

\* A step of p after which p is idle, or hands something out, and that neither
\* raises the revision nor lets a message wait
LEMMA BeliefsReturn ==
    ASSUME TypeOK, BeliefsOK, NEW p \in Planes, NEW e, Goto(p, e),
           e.gen <= call.gen, e.rev <= goal.rev,
           e.pc \notin {"advance", "planner", "evaluator"},
           goal'.rev = goal.rev, goal'.pending => goal.pending,
           call'.gen = call.gen, call'.rev = call.rev, call'.started => call.started
    PROVE  BeliefsOK'
BY TypedNumbers DEF BeliefsOK, BeliefOK, Goto

LEMMA IdleBelief == ASSUME TypeOK PROVE
    /\ Idle.gen <= call.gen /\ Idle.rev <= goal.rev
    /\ Idle.pc \notin {"advance", "planner", "evaluator"}
BY TypedNumbers DEF Idle

LEMMA FinishFields == ASSUME TypeOK, FinishCall
    PROVE  call'.gen = call.gen /\ call'.rev = call.rev /\ ~call'.started
BY DEF TypeOK, FinishCall, Call

LEMMA BeliefsFrame ==
    ASSUME BeliefsOK, UNCHANGED exec,
           goal'.rev = goal.rev, goal'.pending = goal.pending,
           call'.gen = call.gen, call'.rev = call.rev, call'.started => call.started
    PROVE  BeliefsOK'
BY DEF BeliefsOK, BeliefOK

\* A new call: no control plane has its generation yet
LEMMA BeliefsReserve ==
    ASSUME TypeOK, BeliefsOK, NEW p \in Planes, NEW e \in Exec, ReserveCall(p, e),
           e.rev = goal.rev, e.pc \in {"planner", "evaluator"},
           e.pc = "evaluator" => ~goal.pending
    PROVE  BeliefsOK'
<1>1. /\ goal'.rev = goal.rev /\ goal'.pending = goal.pending
      /\ call'.gen = call.gen + 1 /\ call'.rev = goal.rev
    BY DEF ReserveCall, TypeOK, Goal
<1>2. /\ exec'[p].gen = call.gen + 1 /\ exec'[p].rev = goal.rev /\ exec'[p].pc = e.pc
      /\ \A x \in Planes : x # p => exec'[x] = exec[x]
    BY TypedNumbers DEF ReserveCall, Goto, Exec
<1> QED
    BY <1>1, <1>2, TypedNumbers DEF BeliefsOK, BeliefOK

LEMMA PlanBeliefs ==
    ASSUME TypeOK, BeliefsOK, NEW p \in Planes, PlanStep(p) PROVE BeliefsOK'
<1>1. ASSUME NEW kind \in Kinds, BeginPlan(p, kind) PROVE BeliefsOK'
  <2> DEFINE e == [Idle EXCEPT !.pc = "read", !.kind = kind, !.rev = goal.rev, !.plan = goal.plan]
  <2>1. e.gen = 0 /\ e.rev = goal.rev /\ e.pc = "read"
    BY DEF Idle
  <2>2. Goto(p, e) /\ UNCHANGED <<goal, call>>
    BY <1>1 DEF BeginPlan
  <2> HIDE DEF e
  <2> QED
    BY <2>1, <2>2, BeliefsReturn, TypedNumbers
<1>2. CASE AskPlanner(p)
  <2>1. /\ [exec[p] EXCEPT !.pc = "planner"] \in Exec
        /\ [exec[p] EXCEPT !.pc = "planner"].rev = goal.rev
        /\ [exec[p] EXCEPT !.pc = "planner"].pc = "planner"
    BY <1>2 DEF AskPlanner, SameConversation, TypeOK, Exec, Stages, WithNode
  <2> QED
    BY <1>2, <2>1, BeliefsReserve DEF AskPlanner
<1>3. CASE GiveUpPlan(p)
  BY <1>3, BeliefsReturn, IdleBelief DEF GiveUpPlan, Return
<1>4. ASSUME NEW new \in SUBSET Nodes, PersistInitialPlan(p, new) \/ AppendPlan(p, new)
      PROVE  BeliefsOK'
  <2>1. goal'.rev = goal.rev /\ ~goal'.pending
    BY <1>4 DEF PersistInitialPlan, AppendPlan, TypeOK, Goal
  <2>2. call'.gen = call.gen /\ call'.rev = call.rev /\ (call'.started => call.started)
    BY <1>4, FinishFields DEF PersistInitialPlan, AppendPlan
  <2>3. Goto(p, Idle)
    BY <1>4 DEF PersistInitialPlan, AppendPlan, Return
  <2> QED
    BY <2>1, <2>2, <2>3, BeliefsReturn, IdleBelief
<1> QED
  BY <1>1, <1>2, <1>3, <1>4 DEF PlanStep

LEMMA DispatchBeliefs ==
    ASSUME TypeOK, BeliefsOK, NEW p \in Planes, DispatchStep(p) PROVE BeliefsOK'
<1>1. CASE BeginAdvance(p)
  <2> DEFINE e == [Idle EXCEPT !.pc = "advance", !.rev = goal.rev]
  <2>1. e.gen = 0 /\ e.rev = goal.rev /\ e.pc = "advance"
    BY DEF Idle
  <2>2. Goto(p, e) /\ UNCHANGED <<goal, call>> /\ ~goal.pending
    BY <1>1 DEF BeginAdvance
  <2> HIDE DEF e
  <2> QED
    BY <2>1, <2>2, TypedNumbers DEF BeliefsOK, BeliefOK, Goto
<1>2. CASE EndAdvance(p)
  BY <1>2, BeliefsReturn, IdleBelief DEF EndAdvance, Return
<1>3. ASSUME NEW n \in Nodes, DispatchNode(p, n) PROVE BeliefsOK'
  <2> DEFINE e == [Idle EXCEPT !.pc = "queue", !.node = n]
  <2>1. e.gen = 0 /\ e.rev = 0 /\ e.pc = "queue"
    BY DEF Idle
  <2>2. Goto(p, e) /\ UNCHANGED call
    BY <1>3 DEF DispatchNode
  <2>3. goal'.rev = goal.rev /\ ~goal'.pending
    BY <1>3 DEF DispatchNode, TypeOK, Goal
  <2> HIDE DEF e
  <2> QED
    BY <2>1, <2>2, <2>3, BeliefsReturn, TypedNumbers
<1>4. ASSUME NEW n \in Nodes, BlockNode(p, n) PROVE BeliefsOK'
  BY <1>4, BeliefsReturn, IdleBelief DEF BlockNode, Return
<1>5. CASE QueueChild(p) \/ LinkJob(p)
  <2>1. UNCHANGED <<goal, call>>
    BY <1>5 DEF QueueChild, LinkJob
  <2>2. PICK e : /\ Goto(p, e) /\ e.gen <= call.gen /\ e.rev <= goal.rev
                 /\ e.pc \notin {"advance", "planner", "evaluator"}
    <3>1. exec[p].gen <= call.gen /\ exec[p].rev <= goal.rev /\ exec[p] \in Exec
      BY TypedNumbers DEF BeliefsOK, BeliefOK
    <3>2. ASSUME NEW stage \in {"link", "refuse", "undo"}
          PROVE  /\ [exec[p] EXCEPT !.pc = stage].gen = exec[p].gen
                 /\ [exec[p] EXCEPT !.pc = stage].rev = exec[p].rev
                 /\ [exec[p] EXCEPT !.pc = stage].pc = stage
      BY <3>1 DEF Exec
    <3>3. \/ Goto(p, Idle)
          \/ \E stage \in {"link", "refuse", "undo"} : Goto(p, [exec[p] EXCEPT !.pc = stage])
      BY <1>5 DEF QueueChild, LinkJob, Return
    <3> QED
      BY <3>1, <3>2, <3>3, IdleBelief
  <2> QED
    BY <2>1, <2>2, BeliefsReturn
<1>6. CASE RefuseChild(p) \/ UndoDispatch(p)
  BY <1>6, BeliefsReturn, IdleBelief DEF RefuseChild, UndoDispatch, Return
<1> QED
  BY <1>1, <1>2, <1>3, <1>4, <1>5, <1>6 DEF DispatchStep

LEMMA EvaluationBeliefs ==
    ASSUME TypeOK, BeliefsOK, NEW p \in Planes, EvaluationStep(p) PROVE BeliefsOK'
<1>1. CASE ReserveEvaluation(p)
  <2> DEFINE e == [Idle EXCEPT !.pc = "evaluator", !.rev = goal.rev, !.seen = Existing]
  <2>1. e \in Exec
    BY IdleTyped DEF TypeOK, Exec, Goal, Stages, WithNode, Idle, Existing
  <2>2. e.rev = goal.rev /\ e.pc = "evaluator"
    BY DEF Idle
  <2>3. ReserveCall(p, e) /\ ~goal.pending
    BY <1>1 DEF ReserveEvaluation
  <2> HIDE DEF e
  <2> QED
    BY <2>1, <2>2, <2>3, BeliefsReserve
<1>2. ASSUME ~ReserveEvaluation(p) PROVE BeliefsOK'
  <2>1. Goto(p, Idle)
    BY <1>2 DEF EvaluationStep, PauseEvaluation, CompleteGoal, FailGoal, AskUser, ExtendPlan,
       DropAnswer, ModelTimesOut, Return
  <2>2. goal'.rev = goal.rev /\ goal'.pending = goal.pending
    BY <1>2 DEF EvaluationStep, PauseEvaluation, CompleteGoal, FailGoal, AskUser, ExtendPlan,
       DropAnswer, ModelTimesOut, StopGoal, TypeOK, Goal
  <2>3. FinishCall \/ UNCHANGED call
    BY <1>2 DEF EvaluationStep, PauseEvaluation, CompleteGoal, FailGoal, AskUser, ExtendPlan,
       DropAnswer, ModelTimesOut
  <2> QED
    BY <2>1, <2>2, <2>3, FinishFields, BeliefsReturn, IdleBelief
<1> QED
  BY <1>1, <1>2

LEMMA OtherBeliefs ==
    ASSUME TypeOK, BeliefsOK, GraphStep \/ OutsideStep \/ RepairStep PROVE BeliefsOK'
<1>1. CASE Message
  <2>1. goal'.rev = goal.rev + 1 /\ UNCHANGED exec /\ FinishCall
    BY <1>1 DEF Message, TypeOK, Goal
  <2> QED
    BY <2>1, FinishFields, TypedNumbers DEF BeliefsOK, BeliefOK
<1>2. CASE CallLapses
  BY <1>2, BeliefsFrame DEF CallLapses, TypeOK, Call
<1>3. ASSUME ~Message, ~CallLapses PROVE BeliefsOK'
  <2>1. UNCHANGED <<exec, call>>
    BY <1>3 DEF GraphStep, OutsideStep, RepairStep, RefreshReady, CompleteSynthesis, RetryEvaluation,
       Terminate, UserCancels, CancelContextJob, QuarantineChild, ClaimChild, LeaseLost, FinishJob,
       CancelStaleJobs, ProjectClaim,
       ProjectResult, ProjectCapability, CancelChild, RecSelect, RecLook, RecQueue, RecLink,
       CrashMaintenance
  <2>2. goal'.rev = goal.rev /\ goal'.pending = goal.pending
    BY <1>3 DEF GraphStep, OutsideStep, RepairStep, RefreshReady, CompleteSynthesis, RetryEvaluation,
       Terminate, UserCancels, CancelContextJob, QuarantineChild, ClaimChild, LeaseLost, FinishJob,
       CancelStaleJobs, ProjectClaim,
       ProjectResult, ProjectCapability, CancelChild, RecSelect, RecLook, RecQueue, RecLink,
       CrashMaintenance, StopGoal, TypeOK, Goal
  <2> QED
    BY <2>1, <2>2, BeliefsFrame
<1> QED
  BY <1>1, <1>2, <1>3

LEMMA NextBeliefs == TypeOK /\ BeliefsOK /\ [Next]_vars => BeliefsOK'
<1> SUFFICES ASSUME TypeOK, BeliefsOK, [Next]_vars PROVE BeliefsOK'
  OBVIOUS
<1>1. ASSUME NEW p \in Planes, Crash(p) PROVE BeliefsOK'
  <2>1. call'.gen = call.gen /\ call'.rev = call.rev /\ (call'.started => call.started)
    BY <1>1 DEF Crash, TypeOK, Call
  <2> QED
    BY <1>1, <2>1, BeliefsReturn, IdleBelief DEF Crash, Return
<1>2. CASE UNCHANGED vars
  BY <1>2, BeliefsFrame DEF vars
<1> QED
  BY <1>1, <1>2, PlanBeliefs, DispatchBeliefs, EvaluationBeliefs, OtherBeliefs DEF Next, PlaneStep

LEMMA InitBeliefs == Init => BeliefsOK
BY DEF Init, BeliefsOK, BeliefOK, Idle

LEMMA StepKeepsInstruction ==
    ASSUME TypeOK, BeliefsOK, [Next]_vars, goal.pending, ~goal'.pending
    PROVE  /\ goal'.plan = goal.plan + 1
           /\ \E p \in Planes : exec'[p] # exec[p] /\ (exec[p].rev = goal.rev \/ OwnPlan(p))
<1>1. PICK p \in Planes, new \in SUBSET Nodes : PersistInitialPlan(p, new) \/ AppendPlan(p, new)
  <2>1. goal' # goal
    OBVIOUS
  <2>2. ASSUME NEW p \in Planes, NEW n \in Nodes, DispatchNode(p, n) PROVE FALSE
    BY <2>2 DEF DispatchNode, At, SameConversation, BeliefsOK, BeliefOK
  <2>3. ASSUME NEW p \in Planes, DispatchStep(p) PROVE FALSE
    BY <2>1, <2>2, <2>3 DEF DispatchStep, BeginAdvance, EndAdvance, BlockNode, QueueChild,
       RefuseChild, LinkJob, UndoDispatch
  <2>4. ASSUME NEW p \in Planes, EvaluationStep(p) PROVE FALSE
    BY <2>4 DEF EvaluationStep, ReserveEvaluation, ReserveCall, PauseEvaluation, CompleteGoal,
       FailGoal, AskUser, ExtendPlan, DropAnswer, ModelTimesOut, StopGoal, TypeOK, Goal
  <2>5. ASSUME GraphStep \/ OutsideStep \/ RepairStep \/ UNCHANGED vars PROVE FALSE
    BY <2>5 DEF GraphStep, OutsideStep, RepairStep, RefreshReady, CompleteSynthesis,
       RetryEvaluation, Message, CallLapses, Terminate, UserCancels,
       CancelContextJob, QuarantineChild, ClaimChild, LeaseLost, FinishJob, CancelStaleJobs,
       ProjectClaim, ProjectResult, ProjectCapability, CancelChild,
       RecSelect, RecLook, RecQueue, RecLink, CrashMaintenance, StopGoal, TypeOK, Goal, vars
  <2>6. ASSUME NEW p \in Planes, Crash(p) PROVE FALSE
    BY <2>1, <2>6 DEF Crash
  <2>7. PICK p \in Planes : PlanStep(p)
    BY <2>3, <2>4, <2>5, <2>6 DEF Next, PlaneStep
  <2>8. \A kind \in Kinds : ~BeginPlan(p, kind)
    BY <2>1 DEF BeginPlan
  <2>9. ~AskPlanner(p) /\ ~GiveUpPlan(p)
    BY DEF AskPlanner, ReserveCall, GiveUpPlan, TypeOK, Goal
  <2> QED
    BY <2>7, <2>8, <2>9 DEF PlanStep
<1>2. goal'.plan = goal.plan + 1
  BY <1>1 DEF PersistInitialPlan, AppendPlan, TypeOK, Goal
<1>3. HasPlan(p) /\ exec'[p] = Idle
  BY <1>1, TypedNumbers DEF PersistInitialPlan, AppendPlan, Return, Goto
<1>4. exec'[p] # exec[p]
  BY <1>3 DEF HasPlan, OwnPlan, At, Idle
<1>5. exec[p].rev = goal.rev \/ OwnPlan(p)
  BY <1>3 DEF HasPlan, At, CurrentCall, HoldsCall, BeliefsOK, BeliefOK
<1> QED
  BY <1>2, <1>4, <1>5

\* A message of the user waits for a plan made with it.
THEOREM InstructionsAreKept == Spec => PendingInstructionKept
<1>1. TypeOK /\ BeliefsOK /\ [Next]_vars =>
        [goal.pending /\ ~goal'.pending =>
           /\ goal'.plan = goal.plan + 1
           /\ \E p \in Planes : exec'[p] # exec[p] /\ (exec[p].rev = goal.rev \/ OwnPlan(p))]_vars
  BY StepKeepsInstruction
<1> QED
  BY <1>1, InitTypes, NextTypes, InitBeliefs, NextBeliefs, PTL DEF Spec, PendingInstructionKept

-----------------------------------------------------------------------------
(* A completed goal: nothing is left that could still change                 *)

SettledOK == goal.status = "completed" => ~goal.pending /\ Quiescent /\ Convincing

LEMMA CompletedStays ==
    ASSUME TypeOK, goal.status = "completed", Quiescent, [Next]_vars
    PROVE  UNCHANGED <<goal, node>>
<1>0. /\ Finished /\ goal.status \notin {"planning", "running", "needs_user", "retry", "stopped"}
      /\ \A n \in Nodes : node[n] = "none" \/ node[n] \in Terminal
      /\ \A n \in Nodes : node[n] \notin {"planned", "ready"} \cup Open
  BY DEF Finished, Ended, Quiescent, Existing, WithStatus, Terminal, Failed, Open
<1>1. ASSUME NEW p \in Planes, PlanStep(p) PROVE UNCHANGED <<goal, node>>
  BY <1>0, <1>1 DEF PlanStep, BeginPlan, AskPlanner, ReserveCall, GiveUpPlan, PersistInitialPlan,
     AppendPlan, Waiting, plan
<1>2. ASSUME NEW p \in Planes, DispatchStep(p) PROVE UNCHANGED <<goal, node>>
  <2>1. CASE RefuseChild(p)
    <3>1. exec[p].node \in Nodes
      BY <2>1 DEF RefuseChild, At, TypeOK, Exec, WithNode
    <3> QED
      BY <1>0, <2>1, <3>1 DEF RefuseChild, Open
  <2>2. CASE ~RefuseChild(p)
    BY <1>0, <1>2, <2>2 DEF DispatchStep, BeginAdvance, EndAdvance, DispatchNode, BlockNode,
       QueueChild, LinkJob, UndoDispatch, plan
  <2> QED
    BY <2>1, <2>2
<1>3. ASSUME NEW p \in Planes, EvaluationStep(p) PROVE UNCHANGED <<goal, node>>
  BY <1>0, <1>3 DEF EvaluationStep, ReserveEvaluation, PauseEvaluation, CompleteGoal, FailGoal,
     AskUser, ExtendPlan, DropAnswer, ModelTimesOut, Judged, plan
<1>4. ASSUME GraphStep PROVE UNCHANGED <<goal, node>>
  <2>1. \A blocked : ~RefreshReady(blocked)
    BY <1>0 DEF RefreshReady, WithStatus
  <2> QED
    BY <1>0, <1>4, <2>1 DEF GraphStep, CompleteSynthesis, RetryEvaluation
<1>5. ASSUME OutsideStep PROVE UNCHANGED <<goal, node>>
  <2>1. \A stale \in SUBSET Nodes : ~CancelStaleJobs(stale)
    BY <1>0 DEF CancelStaleJobs, Stale, Open
  <2>2. ASSUME NEW n \in Nodes, CancelContextJob(n) PROVE UNCHANGED <<goal, node>>
    BY <1>0, <2>2 DEF CancelContextJob, SetNodes, WithStatus, Open, TypeOK
  <2> QED
    BY <1>0, <1>5, <2>1, <2>2 DEF OutsideStep, Message, Terminate, CallLapses, UserCancels,
       QuarantineChild, ClaimChild, LeaseLost, FinishJob, plan
<1>6. ASSUME RepairStep PROVE UNCHANGED <<goal, node>>
  BY <1>0, <1>6 DEF RepairStep, ProjectClaim, ProjectResult, ProjectCapability, CancelChild,
     RecSelect, RecLook, RecQueue, RecLink, CrashMaintenance, Open, plan
<1>7. ASSUME NEW p \in Planes, Crash(p) PROVE UNCHANGED <<goal, node>>
  BY <1>7 DEF Crash, plan
<1> QED
  BY <1>1, <1>2, <1>3, <1>4, <1>5, <1>6, <1>7 DEF Next, PlaneStep, vars, plan

LEMMA OnlyEvaluationCompletes ==
    ASSUME TypeOK, [Next]_vars, goal.status # "completed", goal'.status = "completed"
    PROVE  \E p \in Planes : CompleteGoal(p)
<1>1. ASSUME NEW p \in Planes, PlanStep(p) PROVE FALSE
  BY <1>1 DEF PlanStep, BeginPlan, AskPlanner, ReserveCall, GiveUpPlan, PersistInitialPlan,
     AppendPlan, TypeOK, Goal
<1>2. ASSUME NEW p \in Planes, DispatchStep(p) PROVE FALSE
  BY <1>2 DEF DispatchStep, BeginAdvance, EndAdvance, DispatchNode, BlockNode,
     QueueChild, RefuseChild, LinkJob, UndoDispatch, TypeOK, Goal
<1>3. ASSUME NEW p \in Planes, EvaluationStep(p) PROVE CompleteGoal(p)
  BY <1>3 DEF EvaluationStep, ReserveEvaluation, ReserveCall, PauseEvaluation, FailGoal,
     AskUser, ExtendPlan, DropAnswer, ModelTimesOut, StopGoal, TypeOK, Goal
<1>4. ASSUME GraphStep \/ OutsideStep \/ RepairStep \/ UNCHANGED vars PROVE FALSE
  BY <1>4 DEF GraphStep, OutsideStep, RepairStep, RefreshReady, CompleteSynthesis,
     RetryEvaluation, Message, CallLapses, Terminate, UserCancels,
     CancelContextJob, QuarantineChild, ClaimChild, LeaseLost, FinishJob, CancelStaleJobs,
     ProjectClaim, ProjectResult, ProjectCapability, CancelChild,
     RecSelect, RecLook, RecQueue, RecLink, CrashMaintenance, StopGoal, TypeOK, Goal, vars
<1>5. ASSUME NEW p \in Planes, Crash(p) PROVE FALSE
  BY <1>5 DEF Crash
<1> QED
  BY <1>1, <1>2, <1>3, <1>4, <1>5 DEF Next, PlaneStep

LEMMA NextSettled == TypeOK /\ BeliefsOK /\ SettledOK /\ [Next]_vars => SettledOK'
<1> SUFFICES ASSUME TypeOK, BeliefsOK, SettledOK, [Next]_vars, goal'.status = "completed"
             PROVE  ~goal'.pending /\ Quiescent' /\ Convincing'
  BY DEF SettledOK
<1>1. CASE goal.status = "completed"
  BY <1>1, CompletedStays DEF SettledOK, Quiescent, Existing, WithStatus, Convincing
<1>2. CASE goal.status # "completed"
  <2>1. PICK p \in Planes : CompleteGoal(p)
    BY <1>2, OnlyEvaluationCompletes
  <2>2. Quiescent /\ Convincing /\ UNCHANGED node
    BY <2>1 DEF CompleteGoal, Judged, SameNodes, plan
  <2>3. ~goal.pending
    BY <2>1 DEF CompleteGoal, Judged, At, CurrentCall, HoldsCall, BeliefsOK, BeliefOK
  <2>4. goal'.pending = goal.pending
    BY <2>1 DEF CompleteGoal, TypeOK, Goal
  <2> QED
    BY <2>2, <2>3, <2>4 DEF Quiescent, Existing, WithStatus, Convincing
<1> QED
  BY <1>1, <1>2

\* A completed goal left nothing behind.
THEOREM CompletedGoalsAreSettled == Spec => []CompletedGoalSettled
<1>1. Init => SettledOK
  BY DEF Init, SettledOK
<1>2. TypeOK /\ NodesOK /\ SettledOK => CompletedGoalSettled
  <2> SUFFICES ASSUME TypeOK, NodesOK, SettledOK, goal.status = "completed"
               PROVE  /\ \A n \in Workers \cap WithStatus({"completed"}) : child[n] = "completed"
                      /\ \A n \in Nodes : child[n] \notin LiveChild
    BY DEF CompletedGoalSettled, SettledOK
  <2>1. \A n \in Workers \cap WithStatus({"completed"}) : child[n] = "completed"
    BY DEF NodesOK, NodeOK, WithStatus
  <2>2. ASSUME NEW n \in Nodes, child[n] \in LiveChild PROVE FALSE
    <3>1. n \in Workers /\ node[n] # "none"
      BY <2>2 DEF NodesOK, NodeOK, Workers, LiveChild
    <3>2. node[n] \in Terminal
      BY <3>1 DEF SettledOK, Quiescent, Existing, WithStatus
    <3>3. node[n] = "failed"
      BY <2>2, <3>2 DEF NodesOK, NodeOK, Terminal, Failed, Open
    <3> QED
      BY <3>1, <3>3 DEF SettledOK, Convincing, WithStatus
  <2> QED
    BY <2>1, <2>2
<1> QED
  BY <1>1, <1>2, InitTypes, NextTypes, InitNodes, NextNodes, InitBeliefs, NextBeliefs, NextSettled,
     PTL DEF Spec

-----------------------------------------------------------------------------
(* The budgets.  A step hands out a worker, completes a synthesis, adds nodes *)
(* or calls a model under the guard of its own budget, or it moves nodes      *)
(* without any of these: what was counted stays counted, and no node opens.   *)

DoneSynthesis == Synthesis \cap WithStatus({"completed"})

CountsKept == \A n \in Nodes :
    /\ child'[n] = "none" <=> child[n] = "none"
    /\ n \in Synthesis => (node'[n] = "completed" <=> node[n] = "completed")
    /\ node'[n] \in Open => node[n] \in Open

\* nobody pays, or a model call is paid within its budget
CallsPaid ==
    \/ goal'.calls = goal.calls /\ call'.gen = call.gen
    \/ goal'.calls = goal.calls + 1 /\ call'.gen = call.gen + 1 /\ goal.calls < MaxCalls

ReplansPaid ==
    \/ goal'.replans = goal.replans
    \/ goal'.replans = goal.replans + 1 /\ goal.replans < MaxReplans

NodesPaid == Existing' = Existing \/ \E new \in SUBSET Nodes :
                Fits(new) /\ Existing' = Existing \cup new

LEMMA FiniteNodes == ASSUME NEW S \in SUBSET Nodes
                     PROVE  IsFiniteSet(S) /\ Cardinality(S) \in Nat
BY GoalAssumption, FS_Subset, FS_CardinalityType

LEMMA NodeSets == /\ HandedOut \subseteq Nodes /\ DoneSynthesis \subseteq Nodes
                  /\ Existing \subseteq Nodes /\ \A S : WithStatus(S) \subseteq Nodes
BY GoalAssumption DEF HandedOut, Workers, DoneSynthesis, Existing, WithStatus

LEMMA FitsBound == ASSUME NEW new \in SUBSET Nodes, Fits(new)
                   PROVE  Cardinality(Existing \cup new) <= MaxSteps
<1>1. Existing \cap new = {}
  BY DEF Fits
<1>2. Cardinality(Existing \cup new) = Cardinality(Existing) + Cardinality(new)
  <2>1. IsFiniteSet(Existing) /\ IsFiniteSet(new)
        /\ Cardinality(Existing) \in Nat /\ Cardinality(new) \in Nat
    BY FiniteNodes, NodeSets
  <2>2. Cardinality(Existing \cap new) = 0
    BY <1>1, FS_EmptySet
  <2>3. Cardinality(Existing \cup new)
          = Cardinality(Existing) + Cardinality(new) - Cardinality(Existing \cap new)
    BY <2>1, FS_Union
  <2> QED
    BY <2>1, <2>2, <2>3
<1> QED
  BY <1>2 DEF Fits

LEMMA BudgetFrame ==
    ASSUME TypeOK, WithinBudget, CountsKept, goal'.steps = goal.steps,
           CallsPaid, ReplansPaid, NodesPaid
    PROVE  WithinBudget'
<1>1. HandedOut' = HandedOut /\ DoneSynthesis' = DoneSynthesis
  BY GoalAssumption DEF CountsKept, HandedOut, DoneSynthesis, WithStatus, Workers
<1>2. Cardinality(WithStatus(Open)') <= MaxParallelism
  <2>1. WithStatus(Open)' \subseteq WithStatus(Open)
    BY DEF CountsKept, WithStatus
  <2>2. Cardinality(WithStatus(Open)') <= Cardinality(WithStatus(Open))
    BY <2>1, FiniteNodes, NodeSets, FS_Subset
  <2>3. Cardinality(WithStatus(Open)) \in Nat /\ Cardinality(WithStatus(Open)') \in Nat
    BY <2>1, FiniteNodes, NodeSets
  <2> QED
    BY <2>2, <2>3, GoalAssumption DEF WithinBudget
<1>3. Cardinality(Existing') <= MaxSteps
  BY FitsBound DEF NodesPaid, WithinBudget
<1>4. Cardinality(HandedOut \cap Generative) \in Nat
  BY FiniteNodes, NodeSets
<1>5. goal.calls \in Nat /\ call.gen \in Nat /\ goal.replans \in Nat
  BY GoalFields, TypedNumbers
<1>6. goal'.calls = call'.gen + Cardinality(HandedOut \cap Generative) /\ goal'.calls <= MaxCalls
  BY <1>4, <1>5, GoalAssumption DEF CallsPaid, WithinBudget
<1>7. goal'.replans <= MaxReplans
  BY <1>5, GoalAssumption DEF ReplansPaid, WithinBudget
<1> QED
  BY <1>1, <1>2, <1>3, <1>6, <1>7 DEF WithinBudget, DoneSynthesis

\* a step that moves neither nodes nor tasks
LEMMA BudgetStill ==
    ASSUME TypeOK, WithinBudget, UNCHANGED <<node, child>>, goal'.steps = goal.steps,
           CallsPaid, ReplansPaid
    PROVE  WithinBudget'
<1>1. CountsKept /\ NodesPaid
  BY DEF CountsKept, NodesPaid, Existing
<1> QED
  BY <1>1, BudgetFrame

LEMMA ReservePays ==
    ASSUME TypeOK, NEW p, NEW e, ReserveCall(p, e)
    PROVE  goal'.steps = goal.steps /\ CallsPaid /\ ReplansPaid
BY DEF TypeOK, Goal, ReserveCall, CallsPaid, ReplansPaid

\* new nodes join the plan, and the ones that were planned may be skipped
LEMMA BudgetPlan ==
    ASSUME TypeOK, WithinBudget, NEW new \in SUBSET Nodes, Fits(new), UNCHANGED child,
           \A n \in new : node'[n] = "planned",
           \A n \in Nodes \ new : \/ node'[n] = node[n]
                                  \/ node[n] \in {"planned", "ready"} /\ node'[n] = "skipped",
           goal'.steps = goal.steps, CallsPaid, ReplansPaid
    PROVE  WithinBudget'
<1>1. \A n \in new : node[n] = "none"
  BY DEF Fits, Existing
<1>2. CountsKept
  BY <1>1 DEF CountsKept, Open
<1>3. Existing' = Existing \cup new
  BY <1>1 DEF Existing
<1> QED
  BY <1>2, <1>3, BudgetFrame DEF NodesPaid

\* a node is handed out, or a synthesis done: each is paid a step
LEMMA BudgetDispatch ==
    ASSUME TypeOK, NodesOK, WithinBudget, NEW p \in Planes, NEW n \in Nodes, DispatchNode(p, n)
    PROVE  WithinBudget'
<1>1. /\ n \in Workers /\ node[n] = "ready" /\ child[n] = "none"
      /\ goal.steps < MaxSteps /\ Cardinality(WithStatus(Open)) < MaxParallelism
      /\ n \in Generative => goal.calls < MaxCalls
      /\ UNCHANGED call
  BY DEF DispatchNode, NodesOK, NodeOK
<1>2. \A m \in Nodes : /\ node'[m] = IF m = n THEN "dispatched" ELSE node[m]
                       /\ child'[m] = IF m = n THEN "created" ELSE child[m]
  BY DEF DispatchNode, SetNodes, TypeOK
<1>3. /\ HandedOut' = HandedOut \cup {n} /\ n \notin HandedOut
      /\ DoneSynthesis' = DoneSynthesis
      /\ Existing' = Existing
      /\ WithStatus(Open)' = WithStatus(Open) \cup {n} /\ n \notin WithStatus(Open)
  BY <1>1, <1>2, GoalAssumption DEF HandedOut, Workers, DoneSynthesis, Existing, WithStatus, Open
<1>4. /\ Cardinality(HandedOut') = Cardinality(HandedOut) + 1
      /\ Cardinality(WithStatus(Open)') = Cardinality(WithStatus(Open)) + 1
  BY <1>3, FiniteNodes, NodeSets, FS_AddElement
<1>5. /\ goal'.steps = goal.steps + 1 /\ goal'.replans = goal.replans
      /\ goal'.calls = IF n \in Generative THEN goal.calls + 1 ELSE goal.calls
  BY DEF DispatchNode, TypeOK, Goal
<1>6. Cardinality((HandedOut \cap Generative)') =
        IF n \in Generative THEN Cardinality(HandedOut \cap Generative) + 1
                            ELSE Cardinality(HandedOut \cap Generative)
  <2>1. CASE n \in Generative
    <3>1. (HandedOut \cap Generative)' = (HandedOut \cap Generative) \cup {n}
      BY <1>3, <2>1
    <3> QED
      BY <1>3, <2>1, <3>1, FiniteNodes, NodeSets, FS_AddElement
  <2>2. CASE n \notin Generative
    <3>1. (HandedOut \cap Generative)' = HandedOut \cap Generative
      BY <1>3, <2>2
    <3> QED
      BY <2>2, <3>1
  <2> QED
    BY <2>1, <2>2
<1>7. /\ Cardinality(HandedOut) \in Nat /\ Cardinality(DoneSynthesis) \in Nat
      /\ Cardinality(WithStatus(Open)) \in Nat /\ Cardinality(HandedOut \cap Generative) \in Nat
      /\ goal.steps \in Nat /\ goal.calls \in Nat /\ call.gen \in Nat
  BY FiniteNodes, NodeSets, GoalFields, TypedNumbers
<1>8. goal'.steps = Cardinality(HandedOut') + Cardinality(DoneSynthesis') /\ goal'.steps <= MaxSteps
  <2>1. goal.steps = Cardinality(HandedOut) + Cardinality(DoneSynthesis)
    BY DEF WithinBudget, DoneSynthesis
  <2>2. Cardinality(DoneSynthesis') = Cardinality(DoneSynthesis)
    BY <1>3
  <2> QED
    BY <1>1, <1>4, <1>5, <1>7, <2>1, <2>2, GoalAssumption
<1>9. /\ goal'.calls = call'.gen + Cardinality((HandedOut \cap Generative)')
      /\ goal'.calls <= MaxCalls
  BY <1>1, <1>5, <1>6, <1>7, GoalAssumption DEF WithinBudget
<1>10. Cardinality(WithStatus(Open)') <= MaxParallelism
  BY <1>1, <1>4, <1>7, GoalAssumption
<1> QED
  BY <1>3, <1>5, <1>8, <1>9, <1>10 DEF WithinBudget, DoneSynthesis

LEMMA BudgetSynthesis ==
    ASSUME TypeOK, WithinBudget, NEW n \in Nodes, CompleteSynthesis(n)
    PROVE  WithinBudget'
<1>1. n \in Synthesis /\ node[n] = "ready" /\ UNCHANGED <<child, call>>
  BY DEF CompleteSynthesis
<1>2. CASE node' = SetNodes({n}, "skipped") /\ UNCHANGED goal
  <2>1. \A m \in Nodes : node'[m] = IF m = n THEN "skipped" ELSE node[m]
    BY <1>2 DEF SetNodes
  <2>2. CountsKept /\ NodesPaid
    BY <1>1, <2>1 DEF CountsKept, NodesPaid, Existing, Open
  <2> QED
    BY <1>1, <1>2, <2>2, BudgetFrame DEF CallsPaid, ReplansPaid
<1>3. CASE /\ node' = SetNodes({n}, "completed") /\ goal.steps < MaxSteps
           /\ goal' = [goal EXCEPT !.steps = goal.steps + 1]
  <2>1. \A m \in Nodes : node'[m] = IF m = n THEN "completed" ELSE node[m]
    BY <1>3 DEF SetNodes
  <2>2. /\ HandedOut' = HandedOut /\ Existing' = Existing
        /\ WithStatus(Open)' = WithStatus(Open)
        /\ DoneSynthesis' = DoneSynthesis \cup {n} /\ n \notin DoneSynthesis
    BY <1>1, <2>1 DEF HandedOut, DoneSynthesis, Existing, WithStatus, Open
  <2>3. Cardinality(DoneSynthesis') = Cardinality(DoneSynthesis) + 1
    BY <2>2, FiniteNodes, NodeSets, FS_AddElement
  <2>4. /\ goal'.steps = goal.steps + 1 /\ goal'.calls = goal.calls
        /\ goal'.replans = goal.replans
    BY <1>3 DEF TypeOK, Goal
  <2>5. /\ Cardinality(HandedOut) \in Nat /\ Cardinality(DoneSynthesis) \in Nat
        /\ goal.steps \in Nat
    BY FiniteNodes, NodeSets, GoalFields
  <2>6. goal'.steps = Cardinality(HandedOut') + Cardinality(DoneSynthesis')
        /\ goal'.steps <= MaxSteps
    BY <1>3, <2>2, <2>3, <2>4, <2>5, GoalAssumption DEF WithinBudget, DoneSynthesis
  <2> QED
    BY <1>1, <2>2, <2>4, <2>6 DEF WithinBudget, DoneSynthesis
<1> QED
  BY <1>2, <1>3 DEF CompleteSynthesis

LEMMA BudgetStop ==
    ASSUME TypeOK, WithinBudget, StopGoal, UNCHANGED child, call'.gen = call.gen
    PROVE  WithinBudget'
<1>1. CountsKept /\ Existing' = Existing
  BY DEF CountsKept, StopGoal, SetNodes, Existing, WithStatus, Terminal, Open, TypeOK
<1>2. goal'.steps = goal.steps /\ CallsPaid /\ ReplansPaid
  BY DEF StopGoal, TypeOK, Goal, CallsPaid, ReplansPaid
<1> QED
  BY <1>1, <1>2, BudgetFrame DEF NodesPaid

\* nodes and tasks move, nobody pays
LEMMA BudgetMove ==
    ASSUME TypeOK, WithinBudget, UNCHANGED <<goal, call>>, CountsKept,
           \A n \in Nodes : node'[n] = "none" <=> node[n] = "none"
    PROVE  WithinBudget'
<1>1. NodesPaid
  BY DEF NodesPaid, Existing
<1> QED
  BY <1>1, BudgetFrame DEF CallsPaid, ReplansPaid

LEMMA PlanBudget ==
    ASSUME TypeOK, WithinBudget, NEW p \in Planes, PlanStep(p) PROVE WithinBudget'
<1>1. ASSUME NEW kind \in Kinds, BeginPlan(p, kind) PROVE WithinBudget'
  BY <1>1, BudgetStill DEF BeginPlan, plan, CallsPaid, ReplansPaid
<1>2. CASE AskPlanner(p)
  BY <1>2, ReservePays, BudgetStill DEF AskPlanner, plan
<1>3. CASE GiveUpPlan(p)
  BY <1>3, BudgetStill DEF GiveUpPlan, plan, CallsPaid, ReplansPaid
<1>4. ASSUME NEW new \in SUBSET Nodes, PersistInitialPlan(p, new) \/ AppendPlan(p, new)
      PROVE  WithinBudget'
  <2>1. Fits(new) /\ UNCHANGED child
    BY <1>4 DEF PersistInitialPlan, AppendPlan
  <2>2. /\ \A n \in new : node'[n] = "planned"
        /\ \A n \in Nodes \ new : \/ node'[n] = node[n]
                                  \/ node[n] \in {"planned", "ready"} /\ node'[n] = "skipped"
    BY <1>4 DEF PersistInitialPlan, AppendPlan, SetNodes
  <2>3. goal'.steps = goal.steps /\ goal'.calls = goal.calls /\ ReplansPaid
    BY <1>4 DEF PersistInitialPlan, AppendPlan, TypeOK, Goal, ReplansPaid
  <2>4. CallsPaid
    BY <1>4, <2>3, FinishFields DEF PersistInitialPlan, AppendPlan, CallsPaid
  <2> QED
    BY <2>1, <2>2, <2>3, <2>4, BudgetPlan
<1> QED
  BY <1>1, <1>2, <1>3, <1>4 DEF PlanStep

LEMMA DispatchBudget ==
    ASSUME TypeOK, NodesOK, WithinBudget, NEW p \in Planes, DispatchStep(p) PROVE WithinBudget'
<1>1. CASE BeginAdvance(p) \/ EndAdvance(p) \/ LinkJob(p)
  BY <1>1, BudgetStill DEF BeginAdvance, EndAdvance, LinkJob, plan, CallsPaid, ReplansPaid
<1>2. ASSUME NEW n \in Nodes, DispatchNode(p, n) PROVE WithinBudget'
  BY <1>2, BudgetDispatch
<1>3. ASSUME NEW n \in Nodes, BlockNode(p, n) PROVE WithinBudget'
  <2>1. /\ UNCHANGED <<goal, call, child>> /\ node[n] = "ready"
        /\ \A m \in Nodes : node'[m] = IF m = n THEN "blocked" ELSE node[m]
    BY <1>3 DEF BlockNode, SetNodes
  <2> QED
    BY <2>1, BudgetMove DEF CountsKept, Open
<1>4. CASE QueueChild(p)
  <2>1. /\ UNCHANGED <<goal, call, node>>
        /\ \A m \in Nodes : child'[m] = child[m] \/ (child[m] = "created" /\ child'[m] = "queued")
    BY <1>4 DEF QueueChild, plan, TypeOK
  <2> QED
    BY <2>1, BudgetMove DEF CountsKept
<1>5. CASE RefuseChild(p)
  <2>1. /\ UNCHANGED <<goal, call>>
        /\ \A m \in Nodes : /\ child'[m] = child[m]
                               \/ (child[m] = "created" /\ child'[m] = "withdrawn")
                            /\ node'[m] = node[m]
                               \/ (node[m] = "dispatched" /\ node'[m] = "failed")
    BY <1>5 DEF RefuseChild, SetNodes, TypeOK
  <2> QED
    BY <2>1, BudgetMove DEF CountsKept, Open
<1>6. CASE UndoDispatch(p)
  <2>1. /\ UNCHANGED <<goal, call, node>>
        /\ \A m \in Nodes : child'[m] = "none" <=> child[m] = "none"
    BY <1>6 DEF UndoDispatch, plan, CancelledChildren, LiveChild
  <2> QED
    BY <2>1, BudgetMove DEF CountsKept
<1> QED
  BY <1>1, <1>2, <1>3, <1>4, <1>5, <1>6 DEF DispatchStep

LEMMA EvaluationBudget ==
    ASSUME TypeOK, WithinBudget, NEW p \in Planes, EvaluationStep(p) PROVE WithinBudget'
<1>0. FinishCall => call'.gen = call.gen
  BY FinishFields
<1>1. CASE ReserveEvaluation(p)
  BY <1>1, ReservePays, BudgetStill DEF ReserveEvaluation, plan
<1>2. CASE PauseEvaluation(p) \/ CompleteGoal(p) \/ AskUser(p) \/ DropAnswer(p)
  <2>1. UNCHANGED <<node, child>> /\ call'.gen = call.gen
    BY <1>0, <1>2 DEF PauseEvaluation, CompleteGoal, AskUser, DropAnswer, plan
  <2>2. /\ goal'.steps = goal.steps /\ goal'.calls = goal.calls
        /\ goal'.replans = goal.replans
    BY <1>2 DEF PauseEvaluation, CompleteGoal, AskUser, DropAnswer, TypeOK, Goal
  <2> QED
    BY <2>1, <2>2, BudgetStill DEF CallsPaid, ReplansPaid
<1>3. CASE FailGoal(p) \/ ModelTimesOut(p)
  BY <1>0, <1>3, BudgetStop DEF FailGoal, ModelTimesOut
<1>4. ASSUME NEW new \in SUBSET Nodes, ExtendPlan(p, new) PROVE WithinBudget'
  <2>1. /\ Fits(new) /\ UNCHANGED child /\ call'.gen = call.gen
        /\ \A n \in Nodes : node'[n] = IF n \in new THEN "planned" ELSE node[n]
    BY <1>0, <1>4 DEF ExtendPlan, SetNodes
  <2>2. goal'.steps = goal.steps /\ goal'.calls = goal.calls /\ ReplansPaid
    BY <1>4 DEF ExtendPlan, TypeOK, Goal, ReplansPaid
  <2> QED
    BY <2>1, <2>2, BudgetPlan DEF CallsPaid
<1> QED
  BY <1>1, <1>2, <1>3, <1>4 DEF EvaluationStep

LEMMA GraphBudget == ASSUME TypeOK, WithinBudget, GraphStep PROVE WithinBudget'
<1>1. ASSUME NEW blocked, RefreshReady(blocked) PROVE WithinBudget'
  <2>1. /\ UNCHANGED <<goal, call, child>>
        /\ \A n \in Nodes : \/ node'[n] = node[n]
                            \/ node[n] = "planned" /\ node'[n] \in {"blocked", "ready"}
    BY <1>1 DEF RefreshReady, WithStatus, TypeOK
  <2> QED
    BY <2>1, BudgetMove DEF CountsKept, Open
<1>2. ASSUME NEW n \in Nodes, CompleteSynthesis(n) PROVE WithinBudget'
  BY <1>2, BudgetSynthesis
<1>3. CASE RetryEvaluation
  BY <1>3, BudgetStill DEF RetryEvaluation, plan, TypeOK, Goal, CallsPaid, ReplansPaid
<1> QED
  BY <1>1, <1>2, <1>3 DEF GraphStep

LEMMA OutsideBudget == ASSUME TypeOK, WithinBudget, OutsideStep PROVE WithinBudget'
<1>1. CASE Message \/ CallLapses
  <2>1. UNCHANGED <<node, child>> /\ call'.gen = call.gen
    BY <1>1, FinishFields DEF Message, CallLapses, plan, TypeOK, Call
  <2>2. /\ goal'.steps = goal.steps /\ goal'.calls = goal.calls
        /\ goal'.replans = goal.replans
    BY <1>1 DEF Message, CallLapses, TypeOK, Goal
  <2> QED
    BY <2>1, <2>2, BudgetStill DEF CallsPaid, ReplansPaid
<1>2. CASE Terminate
  BY <1>2, BudgetStop DEF Terminate
<1>3. ASSUME NEW n \in Nodes, \/ UserCancels(n) \/ QuarantineChild(n)
                               \/ ClaimChild(n) \/ LeaseLost(n) \/ FinishJob(n)
      PROVE  WithinBudget'
  <2>1. /\ UNCHANGED <<goal, call, node>>
        /\ \A m \in Nodes : child'[m] = "none" <=> child[m] = "none"
    BY <1>3 DEF UserCancels, QuarantineChild, ClaimChild, LeaseLost, FinishJob, plan,
       CancelledChildren, LiveChild, TypeOK
  <2> QED
    BY <2>1, BudgetMove DEF CountsKept
<1>4. ASSUME NEW stale \in SUBSET Nodes, CancelStaleJobs(stale) PROVE WithinBudget'
  <2>1. /\ UNCHANGED <<goal, call>>
        /\ \A m \in Nodes : child'[m] = "none" <=> child[m] = "none"
        /\ \A m \in Nodes : \/ node'[m] = node[m]
                            \/ node[m] \in {"dispatched", "running"} /\ node'[m] = "cancelled"
    BY <1>4 DEF CancelStaleJobs, Stale, CancelledChildren, SetNodes
  <2> QED
    BY <2>1, BudgetMove DEF CountsKept, Open
<1>5. ASSUME NEW n \in Nodes, CancelContextJob(n) PROVE WithinBudget'
  <2>1. /\ UNCHANGED <<goal, call>>
        /\ \A m \in Nodes : child'[m] = "none" <=> child[m] = "none"
        /\ \A m \in Nodes : \/ node'[m] = node[m]
                            \/ node[m] \in {"dispatched", "running"} /\ node'[m] = "cancelled"
    BY <1>5 DEF CancelContextJob, CancelledChildren, SetNodes, WithStatus
  <2> QED
    BY <2>1, BudgetMove DEF CountsKept, Open
<1> QED
  BY <1>1, <1>2, <1>3, <1>4, <1>5 DEF OutsideStep

LEMMA RepairBudget == ASSUME TypeOK, NodesOK, WithinBudget, RepairStep PROVE WithinBudget'
<1>1. ASSUME NEW n \in Nodes, ProjectClaim(n) \/ ProjectResult(n) \/ ProjectCapability(n)
      PROVE  WithinBudget'
  <2>1. /\ UNCHANGED <<goal, call, child>> /\ node[n] \in Open
        /\ \A m \in Nodes : m # n => node'[m] = node[m]
        /\ node'[n] \in Open \cup {"completed", "failed"}
        /\ node'[n] = "completed" => child[n] = "completed"
    BY <1>1 DEF ProjectClaim, ProjectResult, ProjectCapability, SetNodes, Open, TypeOK
  <2>2. node[n] # "none" /\ node'[n] # "none" /\ node[n] # "completed"
        /\ (n \in Synthesis => node'[n] # "completed")
    BY <2>1 DEF Open, NodesOK, NodeOK
  <2> QED
    BY <2>1, <2>2, BudgetMove DEF CountsKept
<1>2. ASSUME NEW n \in Nodes, CancelChild(n) PROVE WithinBudget'
  <2>1. /\ UNCHANGED <<goal, call, node>>
        /\ \A m \in Nodes : child'[m] = "none" <=> child[m] = "none"
    BY <1>2 DEF CancelChild, plan, CancelledChildren, LiveChild
  <2> QED
    BY <2>1, BudgetMove DEF CountsKept
<1>3. CASE RecQueue
  <2>1. /\ UNCHANGED <<goal, call, node>>
        /\ \A m \in Nodes : child'[m] = child[m] \/ (child[m] = "created" /\ child'[m] = "queued")
    BY <1>3 DEF RecQueue, plan, TypeOK
  <2> QED
    BY <2>1, BudgetMove DEF CountsKept
<1>4. ASSUME UNCHANGED <<goal, call, node, child>> PROVE WithinBudget'
  BY <1>4, BudgetMove DEF CountsKept
<1>5. ASSUME NEW n \in Nodes, RecSelect(n) PROVE WithinBudget'
  BY <1>4, <1>5 DEF RecSelect, plan
<1>6. CASE RecLook \/ RecLink \/ CrashMaintenance
  BY <1>4, <1>6 DEF RecLook, RecLink, CrashMaintenance, plan
<1> QED
  BY <1>1, <1>2, <1>3, <1>5, <1>6 DEF RepairStep

LEMMA NextBudget == TypeOK /\ NodesOK /\ WithinBudget /\ [Next]_vars => WithinBudget'
<1> SUFFICES ASSUME TypeOK, NodesOK, WithinBudget, [Next]_vars PROVE WithinBudget'
  OBVIOUS
<1>1. ASSUME NEW p \in Planes, Crash(p) PROVE WithinBudget'
  <2>1. call'.gen = call.gen /\ UNCHANGED <<goal, node, child>>
    BY <1>1 DEF Crash, TypeOK, Call, plan
  <2> QED
    BY <2>1, BudgetStill DEF CallsPaid, ReplansPaid
<1>2. CASE UNCHANGED vars
  <2>1. UNCHANGED <<goal, call, node, child>>
    BY <1>2 DEF vars, plan
  <2> QED
    BY <2>1, BudgetStill DEF CallsPaid, ReplansPaid
<1> QED
  BY <1>1, <1>2, PlanBudget, DispatchBudget, EvaluationBudget, GraphBudget, OutsideBudget,
     RepairBudget DEF Next, PlaneStep

LEMMA InitBudget == Init => WithinBudget
<1> SUFFICES ASSUME Init PROVE WithinBudget
  OBVIOUS
<1>1. /\ HandedOut = {} /\ HandedOut \cap Generative = {} /\ Existing = {}
      /\ Synthesis \cap WithStatus({"completed"}) = {} /\ WithStatus(Open) = {}
  BY GoalAssumption DEF Init, HandedOut, Workers, Existing, WithStatus, Open
<1>2. /\ Cardinality(HandedOut) = 0 /\ Cardinality(HandedOut \cap Generative) = 0
      /\ Cardinality(Synthesis \cap WithStatus({"completed"})) = 0
      /\ Cardinality(Existing) = 0 /\ Cardinality(WithStatus(Open)) = 0
  BY <1>1, FS_EmptySet, Zenon
<1>3. goal.steps = 0 /\ goal.calls = 0 /\ goal.replans = 0 /\ call.gen = 0
  BY DEF Init
<1> QED
  BY <1>2, <1>3, GoalAssumption DEF WithinBudget

\* Nothing is handed out, completed, planned or asked beyond its budget.
THEOREM BudgetsHold == Spec => []WithinBudget
BY InitTypes, NextTypes, InitNodes, NextNodes, InitBudget, NextBudget, PTL DEF Spec

-----------------------------------------------------------------------------
(* The tables of goal_state.py, and of the dispatcher for the jobs           *)

StepByTable ==
    /\ goal'.status # goal.status => <<goal.status, goal'.status>> \in GoalMoves
    /\ \A n \in Nodes : node'[n] # node[n] => NodeMay(n, node'[n])

LEMMA TableStop ==
    ASSUME TypeOK, goal.status \notin Ended, StopGoal PROVE StepByTable
<1>1. goal.status \in {"planning", "running", "needs_user", "retry"} /\ goal'.status = "stopped"
  BY DEF TypeOK, Goal, GoalStatuses, Waiting, StopGoal
<1>2. ASSUME NEW n \in Nodes, node'[n] # node[n] PROVE NodeMay(n, node'[n])
  <2>1. node'[n] = "cancelled" /\ node[n] \in {"planned", "ready"} \cup Open
    BY <1>2 DEF StopGoal, SetNodes, Existing, WithStatus, TypeOK, NodeStatuses
  <2> QED
    BY <2>1 DEF NodeMay, NodeMoves, Open
<1> QED
  BY <1>1, <1>2 DEF StepByTable, GoalMoves, Waiting, Ended

LEMMA PlanTable ==
    ASSUME TypeOK, NEW p \in Planes, PlanStep(p) PROVE StepByTable
<1>1. ASSUME NEW kind \in Kinds, BeginPlan(p, kind) PROVE StepByTable
  BY <1>1 DEF BeginPlan, plan, StepByTable
<1>2. CASE AskPlanner(p) \/ GiveUpPlan(p)
  BY <1>2 DEF AskPlanner, ReserveCall, GiveUpPlan, plan, StepByTable, TypeOK, Goal
<1>3. ASSUME NEW new \in SUBSET (Nodes \ Existing), PersistInitialPlan(p, new) PROVE StepByTable
  <2>1. goal.status = "planning" /\ goal'.status = "running"
    BY <1>3 DEF PersistInitialPlan, TypeOK, Goal
  <2>2. \A n \in Nodes : node'[n] = node[n] \/ (node[n] = "none" /\ node'[n] = "planned")
    BY <1>3 DEF PersistInitialPlan, SetNodes, Existing
  <2> QED
    BY <2>1, <2>2 DEF StepByTable, NodeMay, NodeMoves, GoalMoves
<1>4. ASSUME NEW new \in SUBSET (Nodes \ Existing), AppendPlan(p, new) PROVE StepByTable
  <2>1. goal.status \in {"running"} \cup Waiting /\ goal'.status = "running"
    BY <1>4 DEF AppendPlan, TypeOK, Goal
  <2>2. \A n \in Nodes : \/ node'[n] = node[n]
                         \/ node[n] = "none" /\ node'[n] = "planned"
                         \/ node[n] \in {"planned", "ready"} /\ node'[n] = "skipped"
    BY <1>4 DEF AppendPlan, Existing
  <2> QED
    BY <2>1, <2>2 DEF StepByTable, NodeMay, NodeMoves, GoalMoves
<1> QED
  BY <1>1, <1>2, <1>3, <1>4 DEF PlanStep

LEMMA DispatchTable ==
    ASSUME TypeOK, NEW p \in Planes, DispatchStep(p) PROVE StepByTable
<1>1. CASE BeginAdvance(p) \/ EndAdvance(p) \/ QueueChild(p) \/ LinkJob(p) \/ UndoDispatch(p)
  BY <1>1 DEF BeginAdvance, EndAdvance, QueueChild, LinkJob, UndoDispatch, plan, StepByTable
<1>2. ASSUME NEW n \in Nodes, DispatchNode(p, n) \/ BlockNode(p, n) PROVE StepByTable
  <2>1. goal'.status = goal.status
    BY <1>2 DEF DispatchNode, BlockNode, TypeOK, Goal
  <2>2. \A m \in Nodes : \/ node'[m] = node[m]
                         \/ node[m] = "ready" /\ node'[m] \in {"dispatched", "blocked"}
    BY <1>2 DEF DispatchNode, BlockNode, SetNodes
  <2> QED
    BY <2>1, <2>2 DEF StepByTable, NodeMay, NodeMoves
<1>3. CASE RefuseChild(p)
  <2>1. \A m \in Nodes : \/ node'[m] = node[m]
                         \/ node[m] = "dispatched" /\ node'[m] = "failed"
    BY <1>3 DEF RefuseChild, SetNodes
  <2> QED
    BY <1>3, <2>1 DEF RefuseChild, StepByTable, NodeMay, NodeMoves
<1> QED
  BY <1>1, <1>2, <1>3 DEF DispatchStep

LEMMA EvaluationTable ==
    ASSUME TypeOK, NEW p \in Planes, EvaluationStep(p) PROVE StepByTable
<1>1. CASE ReserveEvaluation(p) \/ DropAnswer(p)
  BY <1>1 DEF ReserveEvaluation, ReserveCall, DropAnswer, plan, StepByTable, TypeOK, Goal
<1>2. CASE PauseEvaluation(p) \/ CompleteGoal(p) \/ AskUser(p)
  <2>1. /\ goal.status = "running" /\ goal'.status \in {"retry", "completed", "needs_user"}
        /\ UNCHANGED node
    BY <1>2 DEF PauseEvaluation, CompleteGoal, AskUser, Judged, plan, TypeOK, Goal
  <2> QED
    BY <2>1 DEF StepByTable, GoalMoves, Waiting, Ended
<1>3. CASE FailGoal(p) \/ ModelTimesOut(p)
  BY <1>3, TableStop DEF FailGoal, ModelTimesOut, Judged, Finished, Ended
<1>4. ASSUME NEW new \in SUBSET (Nodes \ Existing), ExtendPlan(p, new) PROVE StepByTable
  <2>1. goal'.status = goal.status
    BY <1>4 DEF ExtendPlan, TypeOK, Goal
  <2>2. \A n \in Nodes : node'[n] = node[n] \/ (node[n] = "none" /\ node'[n] = "planned")
    BY <1>4 DEF ExtendPlan, SetNodes, Existing
  <2> QED
    BY <2>1, <2>2 DEF StepByTable, NodeMay, NodeMoves
<1> QED
  BY <1>1, <1>2, <1>3, <1>4 DEF EvaluationStep

LEMMA GraphTable == ASSUME TypeOK, GraphStep PROVE StepByTable
<1>1. ASSUME NEW blocked, RefreshReady(blocked) PROVE StepByTable
  <2>1. \A n \in Nodes : \/ node'[n] = node[n]
                         \/ node[n] = "planned" /\ node'[n] \in {"blocked", "ready"}
    BY <1>1 DEF RefreshReady, WithStatus
  <2> QED
    BY <1>1, <2>1 DEF RefreshReady, StepByTable, NodeMay, NodeMoves
<1>2. ASSUME NEW n \in Nodes, CompleteSynthesis(n) PROVE StepByTable
  <2>1. n \in Synthesis /\ node[n] = "ready" /\ goal'.status = goal.status
    BY <1>2 DEF CompleteSynthesis, TypeOK, Goal
  <2>2. \A m \in Nodes : \/ node'[m] = node[m]
                         \/ m = n /\ node'[m] \in {"skipped", "completed"}
    BY <1>2 DEF CompleteSynthesis, SetNodes
  <2> QED
    BY <2>1, <2>2 DEF StepByTable, NodeMay, NodeMoves
<1>3. CASE RetryEvaluation
  <2>1. goal.status = "retry" /\ goal'.status = "running" /\ UNCHANGED node
    BY <1>3 DEF RetryEvaluation, plan, TypeOK, Goal
  <2> QED
    BY <2>1 DEF StepByTable, GoalMoves, Waiting
<1> QED
  BY <1>1, <1>2, <1>3 DEF GraphStep

LEMMA OutsideTable == ASSUME TypeOK, OutsideStep PROVE StepByTable
<1>1. CASE Message
  <2>1. /\ goal'.status = goal.status \/ (goal.status = "needs_user" /\ goal'.status = "running")
        /\ UNCHANGED node
    BY <1>1 DEF Message, plan, TypeOK, Goal
  <2> QED
    BY <2>1 DEF StepByTable, GoalMoves, Waiting
<1>2. CASE Terminate
  BY <1>2, TableStop DEF Terminate, Finished
<1>3. ASSUME UNCHANGED <<goal, node>> PROVE StepByTable
  BY <1>3 DEF StepByTable
<1>4. ASSUME NEW stale, UNCHANGED goal, node' = SetNodes(stale, "cancelled"),
             \A n \in stale : node[n] \in {"dispatched", "running"}
      PROVE  StepByTable
  <2>1. \A m \in Nodes : \/ node'[m] = node[m]
                         \/ node[m] \in {"dispatched", "running"} /\ node'[m] = "cancelled"
    BY <1>4 DEF SetNodes
  <2> QED
    BY <1>4, <2>1 DEF StepByTable, NodeMay, NodeMoves
<1>5. ASSUME NEW n \in Nodes, CancelContextJob(n) PROVE StepByTable
  BY <1>4, <1>5 DEF CancelContextJob, WithStatus
<1>6. ASSUME NEW stale \in SUBSET Nodes, CancelStaleJobs(stale) PROVE StepByTable
  BY <1>4, <1>6 DEF CancelStaleJobs, Stale
<1> QED
  BY <1>1, <1>2, <1>3, <1>5, <1>6 DEF OutsideStep, CallLapses, UserCancels, QuarantineChild,
     ClaimChild, LeaseLost, FinishJob, plan

LEMMA RepairTable == ASSUME TypeOK, RepairStep PROVE StepByTable
<1>1. ASSUME NEW n \in Nodes, ProjectClaim(n) \/ ProjectResult(n) \/ ProjectCapability(n)
      PROVE  StepByTable
  <2>1. \A m \in Nodes : m # n => node'[m] = node[m]
    BY <1>1 DEF ProjectClaim, ProjectResult, ProjectCapability, SetNodes
  <2>2. <<node[n], node'[n]>> \in NodeMoves
    <3>1. CASE ProjectClaim(n) \/ ProjectCapability(n)
      BY <3>1 DEF ProjectClaim, ProjectCapability, SetNodes, NodeMoves
    <3>2. CASE ProjectResult(n)
      <4>1. /\ node[n] \in Open /\ node'[n] \in {"completed", "failed"}
            /\ node'[n] = "completed" => node[n] # "waiting_capability"
        BY <3>2 DEF ProjectResult, Stuck, SetNodes
      <4> QED
        BY <4>1 DEF Open, NodeMoves
    <3> QED
      BY <1>1, <3>1, <3>2
  <2> QED
    BY <1>1, <2>1, <2>2 DEF ProjectClaim, ProjectResult, ProjectCapability, StepByTable, NodeMay
<1> QED
  BY <1>1 DEF RepairStep, CancelChild, RecSelect, RecLook, RecQueue, RecLink, CrashMaintenance,
     plan, StepByTable

LEMMA NextTable == TypeOK /\ [Next]_vars => StepByTable
<1> SUFFICES ASSUME TypeOK, [Next]_vars PROVE StepByTable
  OBVIOUS
<1>1. ASSUME NEW p \in Planes, Crash(p) PROVE StepByTable
  BY <1>1 DEF Crash, plan, StepByTable
<1>2. CASE UNCHANGED vars
  BY <1>2 DEF vars, plan, StepByTable
<1> QED
  BY <1>1, <1>2, PlanTable, DispatchTable, EvaluationTable, GraphTable, OutsideTable, RepairTable
  DEF Next, PlaneStep

\* Whoever writes a status, the tables of goal_state.py allow the move.
THEOREM TransitionsFollowTables == Spec => TransitionsKept
<1>1. TypeOK /\ [Next]_vars =>
        [/\ goal'.status # goal.status => <<goal.status, goal'.status>> \in GoalMoves
         /\ \A n \in Nodes : node'[n] # node[n] => NodeMay(n, node'[n])]_vars
  BY NextTable DEF StepByTable
<1> QED
  BY <1>1, InitTypes, NextTypes, PTL DEF Spec, TransitionsKept

-----------------------------------------------------------------------------
(* The tasks of a goal live the life the dispatcher's table declares         *)

TaskMoves ==
    {<<"none", "created">>, <<"created", "queued">>, <<"created", "withdrawn">>,
     <<"queued", "leased">>, <<"queued", "failed">>, <<"queued", "cancelled">>,
     <<"leased", "queued">>, <<"leased", "failed">>, <<"leased", "cancelled">>,
     <<"leased", "completed">>, <<"leased", "unproven">>}

MovesOnly == \A n \in Nodes : child'[n] # child[n] => <<child[n], child'[n]>> \in TaskMoves

LEMMA CancelledMoves ==
    ASSUME NEW S, \A n \in S \cap Nodes : child[n] \in LiveChild, child' = CancelledChildren(S)
    PROVE  MovesOnly
<1>1. \A n \in Nodes : \/ child'[n] = child[n]
                       \/ child[n] = "created" /\ child'[n] = "withdrawn"
                       \/ child[n] \in {"queued", "leased"} /\ child'[n] = "cancelled"
  BY DEF CancelledChildren, LiveChild
<1> QED
  BY <1>1 DEF MovesOnly, TaskMoves

LEMMA StillMoves == ASSUME UNCHANGED child PROVE MovesOnly
BY DEF MovesOnly

LEMMA DispatchMoves ==
    ASSUME TypeOK, NodesOK, NEW p \in Planes, DispatchStep(p) PROVE MovesOnly
<1>1. ASSUME NEW n \in Nodes, DispatchNode(p, n) PROVE MovesOnly
  <2>1. child[n] = "none"
    BY <1>1 DEF DispatchNode, NodesOK, NodeOK
  <2> QED
    BY <1>1, <2>1 DEF DispatchNode, MovesOnly, TaskMoves, TypeOK
<1>2. CASE QueueChild(p)
  BY <1>2 DEF QueueChild, MovesOnly, TaskMoves, TypeOK
<1>3. CASE RefuseChild(p)
  BY <1>3 DEF RefuseChild, MovesOnly, TaskMoves, TypeOK
<1>4. CASE UndoDispatch(p)
  BY <1>4, CancelledMoves DEF UndoDispatch
<1> QED
  BY <1>1, <1>2, <1>3, <1>4, StillMoves
  DEF DispatchStep, BeginAdvance, EndAdvance, BlockNode, LinkJob

LEMMA OutsideMoves == ASSUME TypeOK, OutsideStep PROVE MovesOnly
<1>1. ASSUME NEW n \in Nodes,
             UserCancels(n) \/ CancelContextJob(n) \/ QuarantineChild(n) \/ ClaimChild(n)
               \/ LeaseLost(n) \/ FinishJob(n)
      PROVE  MovesOnly
  <2>1. CASE UserCancels(n) \/ CancelContextJob(n)
    BY <2>1, CancelledMoves DEF UserCancels, CancelContextJob, LiveChild
  <2>2. CASE QuarantineChild(n) \/ ClaimChild(n)
    BY <2>2 DEF QuarantineChild, ClaimChild, MovesOnly, TaskMoves, TypeOK
  <2>3. CASE LeaseLost(n) \/ FinishJob(n)
    BY <2>3 DEF LeaseLost, FinishJob, MovesOnly, TaskMoves, TypeOK
  <2> QED
    BY <1>1, <2>1, <2>2, <2>3
<1>2. ASSUME NEW stale \in SUBSET Nodes, CancelStaleJobs(stale) PROVE MovesOnly
  BY <1>2, CancelledMoves DEF CancelStaleJobs, Stale, LiveChild
<1> QED
  BY <1>1, <1>2, StillMoves DEF OutsideStep, Message, Terminate, CallLapses

LEMMA NextMoves == ASSUME TypeOK, NodesOK, [Next]_vars PROVE MovesOnly
<1>1. ASSUME NEW p \in Planes, PlanStep(p) PROVE MovesOnly
  BY <1>1, StillMoves DEF PlanStep, BeginPlan, AskPlanner, GiveUpPlan, PersistInitialPlan, AppendPlan
<1>2. ASSUME NEW p \in Planes, EvaluationStep(p) PROVE MovesOnly
  BY <1>2, StillMoves DEF EvaluationStep, ReserveEvaluation, PauseEvaluation, CompleteGoal,
     FailGoal, AskUser, ExtendPlan, DropAnswer, ModelTimesOut
<1>3. CASE GraphStep
  BY <1>3, StillMoves DEF GraphStep, RefreshReady, CompleteSynthesis, RetryEvaluation
<1>4. CASE RepairStep
  <2>1. ASSUME NEW n \in Nodes, CancelChild(n) PROVE MovesOnly
    BY <2>1, CancelledMoves DEF CancelChild
  <2>2. CASE RecQueue
    BY <2>2 DEF RecQueue, MovesOnly, TaskMoves, TypeOK
  <2> QED
    BY <1>4, <2>1, <2>2, StillMoves DEF RepairStep, ProjectClaim, ProjectResult, ProjectCapability,
       RecSelect, RecLook, RecLink, CrashMaintenance
<1>5. ASSUME NEW p \in Planes, Crash(p) PROVE MovesOnly
  BY <1>5, StillMoves DEF Crash
<1>6. CASE UNCHANGED vars
  BY <1>6, StillMoves DEF vars
<1> QED
  BY <1>1, <1>2, <1>3, <1>4, <1>5, <1>6, DispatchMoves, OutsideMoves DEF Next, PlaneStep

\* A move of a task is a move of the abstract job: an unproven job is completed.
LEMMA MovesAreAbstract ==
    ASSUME TypeOK, TypeOK', MovesOnly PROVE [Child!Next]_ChildState
<1>1. ChildState' \in [Nodes -> Child!Statuses]
  BY DEF ChildState, Child!Statuses, TypeOK, ChildStatuses, LiveChild, EndedJob
<1>2. ASSUME NEW n \in Nodes, ChildState'[n] # ChildState[n]
      PROVE  Child!MayMove(n, ChildState[n], ChildState'[n])
  <2>1. <<child[n], child'[n]>> \in TaskMoves
    BY <1>2 DEF ChildState, MovesOnly
  <2>2. /\ ChildState[n] = IF child[n] = "unproven" THEN "completed" ELSE child[n]
        /\ ChildState'[n] = IF child'[n] = "unproven" THEN "completed" ELSE child'[n]
    BY DEF ChildState
  <2> QED
    BY <2>1, <2>2 DEF TaskMoves, Child!MayMove, Child!Moves
<1> QED
  BY <1>1, <1>2 DEF Child!Next

\* What a goal may see of its jobs is what the dispatcher does with them.
THEOREM RefinesJobLifecycle == Spec => ImplementsJobLifecycle
<1>1. Init => Child!Init
  BY DEF Init, Child!Init, ChildState
<1>2. TypeOK /\ TypeOK' /\ NodesOK /\ [Next]_vars => [Child!Next]_ChildState
  BY NextMoves, MovesAreAbstract
<1> QED
  BY <1>1, <1>2, InitTypes, NextTypes, InitNodes, NextNodes, PTL
  DEF Spec, ImplementsJobLifecycle, Child!Spec

\* The other way round: whatever the table lets others do to a job of the goal,
\* the goal runtime has a step for it, so that nothing above is proved by
\* leaving a move of the dispatcher out.  Tasks are created and queued by the
\* goal manager itself, and a stale job is cancelled when it is claimed.
THEOREM EveryJobMoveIsAStep ==
    ASSUME TypeOK, CompletedGoalSettled, NEW n \in Nodes, NEW new,
           child[n] \in LiveChild, Child!MayMove(n, child[n], new),
           child[n] = "created" => new # "queued",
           new = "leased" => ~Stale(n),
           child' = [child EXCEPT ![n] = new],
           UNCHANGED <<goal, plan, call, exec, rec, detached>>
    PROVE  Next
<1>1. \/ child[n] \in LiveChild /\ new = IF child[n] = "created" THEN "withdrawn" ELSE "cancelled"
      \/ child[n] = "queued" /\ new = "failed"
      \/ child[n] = "queued" /\ ~Stale(n) /\ new = "leased"
      \/ child[n] = "leased" /\ new \in {"queued", "completed", "failed"}
  BY DEF Child!MayMove, Child!Moves, LiveChild
<1>2. ASSUME child[n] \in LiveChild, new = IF child[n] = "created" THEN "withdrawn" ELSE "cancelled"
      PROVE  Next
  <2>1. child' = CancelledChildren({n})
    BY <1>2 DEF CancelledChildren, TypeOK
  <2>2. goal.status # "completed"
    BY <1>2 DEF CompletedGoalSettled
  <2>3. UserCancels(n) \/ CancelChild(n)
    BY <1>2, <2>1, <2>2 DEF UserCancels, CancelChild, Finished, Ended
  <2> QED
    BY <2>3 DEF Next, OutsideStep, RepairStep
<1>3. ASSUME \/ child[n] = "queued" /\ new = "failed"
             \/ child[n] = "queued" /\ ~Stale(n) /\ new = "leased"
             \/ child[n] = "leased" /\ new \in {"queued", "completed", "failed"}
      PROVE  QuarantineChild(n) \/ ClaimChild(n) \/ LeaseLost(n) \/ FinishJob(n)
  BY <1>3 DEF QuarantineChild, ClaimChild, LeaseLost, FinishJob
<1> QED
  BY <1>1, <1>2, <1>3 DEF Next, OutsideStep

-----------------------------------------------------------------------------
(* What reconcile can reach: only a running goal adds or hands out a node,   *)
(* and a goal that ends closes its nodes.                                     *)

OnlyRunningAdds ==
    \A n \in Nodes : /\ node[n] = "none" => node'[n] = "none" \/ goal'.status = "running"
                     /\ node[n] = "ready" => node'[n] # "dispatched" \/ goal'.status = "running"

EndingCloses == goal'.status \in Ended => goal.status \in Ended \/ WithStatus(Open)' = {}

LEMMA StopCloses ==
    ASSUME TypeOK, StopGoal PROVE OnlyRunningAdds /\ EndingCloses
<1>1. \A n \in Nodes : node'[n] = IF node[n] \in {"none"} \cup Terminal THEN node[n] ELSE "cancelled"
  BY DEF StopGoal, SetNodes, Existing, WithStatus
<1> QED
  BY <1>1 DEF OnlyRunningAdds, EndingCloses, WithStatus, Open, Terminal, Failed

LEMMA SameStatus ==
    ASSUME goal'.status = goal.status PROVE EndingCloses
BY DEF EndingCloses

LEMMA PlanReach ==
    ASSUME TypeOK, NEW p \in Planes, PlanStep(p) PROVE OnlyRunningAdds /\ EndingCloses
<1>1. ASSUME NEW kind \in Kinds, BeginPlan(p, kind) PROVE OnlyRunningAdds /\ EndingCloses
  BY <1>1 DEF BeginPlan, plan, OnlyRunningAdds, EndingCloses
<1>2. CASE AskPlanner(p) \/ GiveUpPlan(p)
  BY <1>2 DEF AskPlanner, ReserveCall, GiveUpPlan, plan, OnlyRunningAdds, EndingCloses, TypeOK, Goal
<1>3. ASSUME NEW new \in SUBSET (Nodes \ Existing),
             PersistInitialPlan(p, new) \/ AppendPlan(p, new)
      PROVE  OnlyRunningAdds /\ EndingCloses
  <2>1. goal'.status = "running"
    BY <1>3 DEF PersistInitialPlan, AppendPlan, TypeOK, Goal
  <2> QED
    BY <2>1 DEF OnlyRunningAdds, EndingCloses, Ended
<1> QED
  BY <1>1, <1>2, <1>3 DEF PlanStep

LEMMA DispatchReach ==
    ASSUME TypeOK, NEW p \in Planes, DispatchStep(p) PROVE OnlyRunningAdds /\ EndingCloses
<1>1. goal'.status = goal.status
  BY DEF DispatchStep, BeginAdvance, EndAdvance, QueueChild, LinkJob, UndoDispatch, DispatchNode,
     BlockNode, RefuseChild, TypeOK, Goal, plan
<1>2. OnlyRunningAdds
  <2>1. CASE UNCHANGED node
    BY <2>1 DEF OnlyRunningAdds
  <2>2. ASSUME NEW n \in Nodes, DispatchNode(p, n) PROVE OnlyRunningAdds
    BY <1>1, <2>2 DEF DispatchNode, OnlyRunningAdds
  <2>3. ASSUME NEW n \in Nodes, BlockNode(p, n) PROVE OnlyRunningAdds
    BY <2>3 DEF BlockNode, SetNodes, OnlyRunningAdds
  <2>4. CASE RefuseChild(p)
    BY <2>4 DEF RefuseChild, SetNodes, OnlyRunningAdds
  <2> QED
    BY <2>1, <2>2, <2>3, <2>4
    DEF DispatchStep, BeginAdvance, EndAdvance, QueueChild, LinkJob, UndoDispatch, plan
<1> QED
  BY <1>1, <1>2, SameStatus

LEMMA EvaluationReach ==
    ASSUME TypeOK, NEW p \in Planes, EvaluationStep(p) PROVE OnlyRunningAdds /\ EndingCloses
<1>1. CASE ReserveEvaluation(p) \/ DropAnswer(p)
  BY <1>1 DEF ReserveEvaluation, ReserveCall, DropAnswer, plan, OnlyRunningAdds, EndingCloses,
     TypeOK, Goal
<1>2. CASE PauseEvaluation(p) \/ AskUser(p)
  <2>1. goal'.status \in {"retry", "needs_user"} /\ UNCHANGED node
    BY <1>2 DEF PauseEvaluation, AskUser, plan, TypeOK, Goal
  <2> QED
    BY <2>1 DEF OnlyRunningAdds, EndingCloses, Ended
<1>3. CASE CompleteGoal(p)
  <2>1. UNCHANGED node /\ Quiescent
    BY <1>3 DEF CompleteGoal, Judged, SameNodes, plan
  <2>2. WithStatus(Open)' = {}
    BY <2>1 DEF Quiescent, Existing, WithStatus, Open, Terminal, Failed
  <2> QED
    BY <2>1, <2>2 DEF OnlyRunningAdds, EndingCloses
<1>4. CASE FailGoal(p) \/ ModelTimesOut(p)
  BY <1>4, StopCloses DEF FailGoal, ModelTimesOut
<1>5. ASSUME NEW new \in SUBSET (Nodes \ Existing), ExtendPlan(p, new)
      PROVE  OnlyRunningAdds /\ EndingCloses
  <2>1. goal'.status = "running"
    BY <1>5 DEF ExtendPlan, Judged, TypeOK, Goal
  <2> QED
    BY <2>1 DEF OnlyRunningAdds, EndingCloses, Ended
<1> QED
  BY <1>1, <1>2, <1>3, <1>4, <1>5 DEF EvaluationStep

LEMMA OtherReach ==
    ASSUME TypeOK, GraphStep \/ OutsideStep \/ RepairStep PROVE OnlyRunningAdds /\ EndingCloses
<1>1. ASSUME NEW blocked, RefreshReady(blocked) PROVE OnlyRunningAdds /\ EndingCloses
  <2>1. \A n \in Nodes : node[n] # "planned" => node'[n] = node[n]
    BY <1>1 DEF RefreshReady, WithStatus
  <2> QED
    BY <1>1, <2>1 DEF RefreshReady, OnlyRunningAdds, EndingCloses
<1>2. ASSUME NEW n \in Nodes, CompleteSynthesis(n) PROVE OnlyRunningAdds /\ EndingCloses
  <2>1. goal'.status = goal.status /\ \A m \in Nodes : node'[m] \in {node[m], "skipped", "completed"}
    BY <1>2 DEF CompleteSynthesis, SetNodes, TypeOK, Goal
  <2>2. \A m \in Nodes : node[m] = "none" => node'[m] = "none"
    BY <1>2 DEF CompleteSynthesis, SetNodes
  <2> QED
    BY <2>1, <2>2, SameStatus DEF OnlyRunningAdds
<1>3. CASE RetryEvaluation \/ Message
  <2>1. (goal'.status = goal.status \/ goal'.status = "running") /\ UNCHANGED node
    BY <1>3 DEF RetryEvaluation, Message, plan, TypeOK, Goal
  <2> QED
    BY <2>1 DEF OnlyRunningAdds, EndingCloses, Ended
<1>4. CASE Terminate
  BY <1>4, StopCloses DEF Terminate
<1>5. ASSUME UNCHANGED goal, NEW S, NEW status, node' = SetNodes(S, status),
             \A n \in S : node[n] \in Open
      PROVE  OnlyRunningAdds /\ EndingCloses
  BY <1>5 DEF SetNodes, OnlyRunningAdds, EndingCloses, Open
<1>6. ASSUME NEW n \in Nodes, CancelContextJob(n) PROVE OnlyRunningAdds /\ EndingCloses
  BY <1>5, <1>6 DEF CancelContextJob, WithStatus, Open
<1>7. ASSUME NEW stale \in SUBSET Nodes, CancelStaleJobs(stale) PROVE OnlyRunningAdds /\ EndingCloses
  BY <1>5, <1>7 DEF CancelStaleJobs, Stale, Open
<1>8. ASSUME NEW n \in Nodes, ProjectClaim(n) \/ ProjectResult(n) \/ ProjectCapability(n)
      PROVE  OnlyRunningAdds /\ EndingCloses
  BY <1>5, <1>8 DEF ProjectClaim, ProjectResult, ProjectCapability, Open
<1>9. ASSUME UNCHANGED <<goal, node>> PROVE OnlyRunningAdds /\ EndingCloses
  BY <1>9 DEF OnlyRunningAdds, EndingCloses
<1> QED
  BY <1>1, <1>2, <1>3, <1>4, <1>6, <1>7, <1>8, <1>9
  DEF GraphStep, OutsideStep, RepairStep, CallLapses, UserCancels, QuarantineChild, ClaimChild,
      LeaseLost, FinishJob, CancelChild, RecSelect, RecLook, RecQueue, RecLink, CrashMaintenance, plan

LEMMA NextReach == TypeOK /\ [Next]_vars => OnlyRunningAdds /\ EndingCloses
<1> SUFFICES ASSUME TypeOK, [Next]_vars PROVE OnlyRunningAdds /\ EndingCloses
  OBVIOUS
<1>1. CASE UNCHANGED vars \/ \E p \in Planes : Crash(p)
  BY <1>1 DEF Crash, vars, plan, OnlyRunningAdds, EndingCloses
<1> QED
  BY <1>1, PlanReach, DispatchReach, EvaluationReach, OtherReach DEF Next, PlaneStep

ReachOK ==
    /\ goal.status \in Ended => WithStatus(Open) = {}
    /\ goal.status = "planning" => Existing = {}

LEMMA NextReachOK == TypeOK /\ ReachOK /\ [Next]_vars => ReachOK'
<1> SUFFICES ASSUME TypeOK, ReachOK, [Next]_vars PROVE ReachOK'
  OBVIOUS
<1>1. OnlyRunningAdds /\ EndingCloses /\ StepByTable
  BY NextReach, NextTable
<1>2. ASSUME goal'.status \in Ended PROVE WithStatus(Open)' = {}
  <2>1. CASE goal.status \notin Ended
    BY <1>1, <1>2, <2>1 DEF EndingCloses
  <2>2. CASE goal.status \in Ended
    <3> SUFFICES ASSUME NEW n \in Nodes, node'[n] \in Open PROVE FALSE
      BY DEF WithStatus
    <3>1. node[n] \notin Open /\ goal'.status # "running"
      BY <1>2, <2>2 DEF ReachOK, WithStatus, Ended
    <3>2. NodeMay(n, node'[n])
      BY <1>1, <3>1 DEF StepByTable
    <3>3. node[n] = "ready" /\ node'[n] = "dispatched"
      BY <3>1, <3>2 DEF NodeMay, NodeMoves, Open
    <3> QED
      BY <1>1, <3>1, <3>3 DEF OnlyRunningAdds
  <2> QED
    BY <2>1, <2>2
<1>3. ASSUME goal'.status = "planning" PROVE Existing' = {}
  <2>1. goal.status = "planning"
    BY <1>1, <1>3 DEF StepByTable, GoalMoves, Waiting, Ended
  <2>2. \A n \in Nodes : node[n] = "none"
    BY <2>1 DEF ReachOK, Existing
  <2> QED
    BY <1>1, <1>3, <2>2 DEF OnlyRunningAdds, Existing
<1> QED
  BY <1>2, <1>3 DEF ReachOK

\* An ended job of an open node is within reach of the reconciliation: its goal
\* is one that reconcile visits, and a node without a recorded job is one that
\* its recovery selects.
THEOREM ResultsWithinReach == Spec => []RepairInReach
<1>1. Init => ReachOK
  BY DEF Init, ReachOK, Ended, Existing
<1>2. TypeOK /\ NodesOK /\ ReachOK => RepairInReach
  <2> SUFFICES ASSUME TypeOK, NodesOK, ReachOK, NEW n \in Nodes,
                      child[n] \in EndedJob, node[n] \in Open
               PROVE  goal.status \in {"running"} \cup Waiting /\ (n \in linked \/ Unlinked(n))
    BY DEF RepairInReach
  <2>1. n \in Workers
    BY DEF NodesOK, NodeOK, Workers, EndedJob
  <2>2. goal.status \notin Ended /\ goal.status # "planning"
    BY DEF ReachOK, WithStatus, Existing, Open
  <2>3. goal.status \in {"running"} \cup Waiting
    BY <2>2 DEF TypeOK, Goal, GoalStatuses
  <2> QED
    BY <2>1, <2>3 DEF Unlinked
<1> QED
  BY <1>1, <1>2, NextReachOK, InitTypes, NextTypes, InitNodes, NextNodes, PTL DEF Spec

=============================================================================
