---------------------------- MODULE JobLifecycle ----------------------------
(***************************************************************************)
(* The life of an agent job as AgentJobStateMachine.ALLOWED declares it,   *)
(* with what comes before it: a task is created, and gets its job or ends  *)
(* without one.  claimed and running are one state here, leased, and a     *)
(* quarantined job has failed.  A job whose skill may have effects is      *)
(* leased once: only the tasks in Repeatable go back to the queue.         *)
(*                                                                         *)
(* The dispatcher, the reaper, cancel_task and the quarantine write these  *)
(* rows, partly with statements of their own that do not ask the table;    *)
(* AgentJobs shows that they keep to it.  The goal runtime watches the     *)
(* rows from outside; GoalRuntime shows that it is ready for every move.   *)
(***************************************************************************)
CONSTANTS Tasks, Repeatable

VARIABLE status

Statuses == {"none", "created", "withdrawn", "queued", "leased",
             "completed", "failed", "cancelled"}

Moves ==
    {<<"none", "created">>, <<"created", "queued">>, <<"created", "withdrawn">>,
     <<"queued", "leased">>, <<"queued", "failed">>, <<"queued", "cancelled">>,
     <<"leased", "completed">>, <<"leased", "failed">>, <<"leased", "cancelled">>}

MayMove(t, old, new) ==
    \/ <<old, new>> \in Moves
    \/ t \in Repeatable /\ <<old, new>> = <<"leased", "queued">>

Init == status \in [Tasks -> {"none", "created"}]

\* one transaction may move several jobs, each by one move
Next ==
    /\ status' \in [Tasks -> Statuses]
    /\ \A t \in Tasks : status'[t] # status[t] => MayMove(t, status[t], status'[t])

Spec == Init /\ [][Next]_status
=============================================================================
