-------------------------- MODULE MaintenanceLease --------------------------
(***************************************************************************)
(* MaintenanceLeaseService and MaintenanceLeaseRunner: several control     *)
(* planes over one SQLite file, each running the same maintenance          *)
(* operation under one lease name, with renewal, shutdown, crashes and     *)
(* takeover.  Names are independent of each other: one is modelled.        *)
(*                                                                         *)
(* The lease calls are single transactions.  A fenced batch (run_locked)   *)
(* is three steps of one transaction, because time passes inside it: it    *)
(* holds SQLite's writer lock from its BEGIN IMMEDIATE to its end, so      *)
(* nobody else writes in between.  The steps of the runner are separated   *)
(* where asyncio lets a cancellation in.                                   *)
(*                                                                         *)
(* expires_at > now is row.left > 0, on the one clock the instances share. *)
(***************************************************************************)
EXTENDS Integers, Sequences

CONSTANTS
    Instances,  \* boot-scoped control plane instance ids, used once each
    Nobody,
    LeaseTTL,   \* lease_seconds, in clock units
    MaxGen,     \* bound of the model: generations of the lease
    MaxWork     \* bound of the model: committed batches

ASSUME LeaseAssumption ==
    /\ Nobody \notin Instances
    /\ LeaseTTL \in Nat \ {0}
    /\ MaxGen \in Nat
    /\ MaxWork \in Nat

VARIABLES
    phase,  \* life of each instance; "stopped" is stopped_at on its row
    row,    \* the maintenance_leases row: owner, generation, what is left
    run,    \* MaintenanceLeaseRunner.run of each instance, and its generation
    op,     \* the operation task of each instance, with its guard
    log     \* batches committed by the operations, in commit order

vars == <<phase, row, run, op, log>>

\* handed: acquisition_task has started the operation, run has not resumed yet
RunState == [pc : {"idle", "acquiring", "granted", "handed", "working"}, gen : Nat]

\* st: no operation, between batches, or inside a batch before and after its
\* second fence.  lost: the guard's _lost event.
OpState == [st : {"none", "ready", "batch", "checked"}, gen : Nat, lost : BOOLEAN]

LeaseRow == [owner : Instances \cup {Nobody}, gen : Nat, left : 0..LeaseTTL]

Idle == [pc |-> "idle", gen |-> 0]
NoOperation == [st |-> "none", gen |-> 0, lost |-> FALSE]

Active(i) == op[i].st # "none"
InTransaction(i) == op[i].st \in {"batch", "checked"}

\* Mutant: transactions that do not take the writer lock
WriterUnlocked == TRUE

WriterFree == \A i \in Instances : ~InTransaction(i)

\* Mutant: the instance row is not consulted
LeaseCurrentWhoever(i, g) ==
    row.owner = i /\ row.gen = g /\ row.left > 0

\* require_current_locked, and the WHERE of renew
LeaseCurrent(i, g) ==
    row.owner = i /\ row.gen = g /\ row.left > 0 /\ phase[i] # "stopped"

OperationEnded(i) == [op EXCEPT ![i].st = "none"]

---------------------------------------------------------------------------
(* MaintenanceLeaseRunner.run and MaintenanceLeaseService.acquire *)

Boot(i) ==
    /\ phase[i] = "off"
    /\ phase' = [phase EXCEPT ![i] = "up"]
    /\ UNCHANGED <<row, run, op, log>>

\* _active_names admits one run of a name at a time.
StartRun(i) ==
    /\ phase[i] = "up"
    /\ run[i].pc = "idle"
    /\ run' = [run EXCEPT ![i].pc = "acquiring"]
    /\ UNCHANGED <<phase, row, op, log>>

\* Mutant: a takeover keeps the generation
TakenOverSameGen(i) == [owner |-> i, gen |-> IF row.gen = 0 THEN 1 ELSE row.gen,
                        left |-> LeaseTTL]

\* The first acquisition, and the takeover of an expired lease
TakenOver(i) == [owner |-> i, gen |-> row.gen + 1, left |-> LeaseTTL]

\* An owner that finds its own lease live renews it under the same generation.
\* The instance is registered: a run that waits here is cancelled before stop.
Acquire(i) ==
    /\ run[i].pc = "acquiring"
    /\ WriterFree
    /\ \/ /\ row.owner = i /\ row.left > 0
          /\ row' = [row EXCEPT !.left = LeaseTTL]
       \/ /\ row.left = 0
          /\ row.gen < MaxGen
          /\ row' = TakenOver(i)
    /\ run' = [run EXCEPT ![i] = [pc |-> "granted", gen |-> row'.gen]]
    /\ UNCHANGED <<phase, op, log>>

\* Another instance's lease is live, or the database call fails.
GiveUp(i) ==
    /\ run[i].pc = "acquiring"
    /\ run' = [run EXCEPT ![i] = Idle]
    /\ UNCHANGED <<phase, row, op, log>>

\* _acquire_and_run_operation returns.  Its test of _closed finds nothing: close
\* sets it in the step that cancels the run, and the run this task.
StartOperation(i) ==
    /\ run[i].pc = "granted"
    /\ run' = [run EXCEPT ![i].pc = "handed"]
    /\ op' = [op EXCEPT ![i] = [st |-> "ready", gen |-> run[i].gen, lost |-> FALSE]]
    /\ UNCHANGED <<phase, row, log>>

Resume(i) ==
    /\ run[i].pc = "handed"
    /\ run' = [run EXCEPT ![i].pc = "working"]
    /\ UNCHANGED <<phase, row, op, log>>

---------------------------------------------------------------------------
(* MaintenanceLeaseGuard.run_locked *)

\* BEGIN IMMEDIATE and the first fence; a refusal loses the guard for good.
BeginBatch(i) ==
    /\ op[i].st = "ready" /\ ~op[i].lost
    /\ WriterFree
    /\ op' = IF LeaseCurrent(i, op[i].gen)
               THEN [op EXCEPT ![i].st = "batch"]
               ELSE [op EXCEPT ![i].lost = TRUE]
    /\ UNCHANGED <<phase, row, run, log>>

\* The second fence: a batch that took longer than its lease is rolled back.
CheckBatch(i) ==
    /\ op[i].st = "batch"
    /\ op' = IF LeaseCurrent(i, op[i].gen) /\ ~op[i].lost
               THEN [op EXCEPT ![i].st = "checked"]
               ELSE [op EXCEPT ![i].st = "ready", ![i].lost = TRUE]
    /\ UNCHANGED <<phase, row, run, log>>

\* A cancellation that arrives now may be too late to stop the commit.
CommitBatch(i) ==
    /\ op[i].st = "checked"
    /\ Len(log) < MaxWork
    /\ log' = Append(log, [term |-> op[i].gen, by |-> i])
    /\ op' = [op EXCEPT ![i].st = "ready"]
    /\ UNCHANGED <<phase, row, run>>

\* The operation returns, fails, or is cancelled; an open transaction is rolled
\* back.
EndOperation(i) ==
    /\ Active(i)
    /\ op' = OperationEnded(i)
    /\ UNCHANGED <<phase, row, run, log>>

---------------------------------------------------------------------------
(* Renewal, in the background while run waits, or by the operation between two *)
(* batches (renew_now)                                                         *)

MayRenew(i) == ~op[i].lost /\ (run[i].pc = "working" \/ op[i].st = "ready")

Renew(i) ==
    /\ MayRenew(i)
    /\ WriterFree
    /\ LeaseCurrent(i, op[i].gen)
    /\ row' = [row EXCEPT !.left = LeaseTTL]
    /\ UNCHANGED <<phase, run, op, log>>

\* The row is not current, or the call failed.  What follows for the operation
\* is in EndOperation and in the fences, which test lost.
RenewalFails(i) ==
    /\ MayRenew(i)
    /\ op' = [op EXCEPT ![i].lost = TRUE]
    /\ UNCHANGED <<phase, row, run, log>>

---------------------------------------------------------------------------
(* The end of a run, of an instance, and time *)

Finished(i) == run[i].pc = "working" /\ ~Active(i)

\* The finally clause of run: expires_at becomes now if the lease is still ours.
Release(i) ==
    /\ Finished(i)
    /\ WriterFree
    /\ row' = IF row.owner = i /\ row.gen = op[i].gen THEN [row EXCEPT !.left = 0] ELSE row
    /\ run' = [run EXCEPT ![i] = Idle]
    /\ UNCHANGED <<phase, op, log>>

ReleaseFails(i) ==
    /\ Finished(i)
    /\ run' = [run EXCEPT ![i] = Idle]
    /\ UNCHANGED <<phase, row, op, log>>

\* The loop's task and then every run are cancelled.  A run that waits for its
\* acquisition drops what it was granted; one whose acquisition task is done but
\* that has not resumed does not know the operation it has started; a working one
\* loses its guard, cancels its operation and goes on to release the lease.
Shutdown(i) ==
    /\ phase[i] = "up"
    /\ phase' = [phase EXCEPT ![i] = "closing"]
    /\ run' = IF run[i].pc = "working" THEN run ELSE [run EXCEPT ![i] = Idle]
    /\ op' = IF run[i].pc = "working" THEN [op EXCEPT ![i].lost = TRUE] ELSE op
    /\ UNCHANGED <<row, log>>

\* close has waited for the runs; ControlPlaneInstanceService.stop
Stop(i) ==
    /\ phase[i] = "closing"
    /\ run[i].pc = "idle"
    /\ WriterFree
    /\ phase' = [phase EXCEPT ![i] = "stopped"]
    /\ UNCHANGED <<row, run, op, log>>

\* The process dies: its tasks are gone, an open transaction rolls back and the
\* instance row says nothing.
Crash(i) ==
    /\ phase[i] \in {"up", "closing"}
    /\ phase' = [phase EXCEPT ![i] = "crashed"]
    /\ run' = [run EXCEPT ![i] = Idle]
    /\ op' = OperationEnded(i)
    /\ UNCHANGED <<row, log>>

Tick ==
    /\ row.left > 0
    /\ row' = [row EXCEPT !.left = @ - 1]
    /\ UNCHANGED <<phase, run, op, log>>

---------------------------------------------------------------------------

Init ==
    /\ phase = [i \in Instances |-> "off"]
    /\ row = [owner |-> Nobody, gen |-> 0, left |-> 0]
    /\ run = [i \in Instances |-> Idle]
    /\ op = [i \in Instances |-> NoOperation]
    /\ log = <<>>

RunStep(i) ==
    \/ StartRun(i) \/ Acquire(i) \/ GiveUp(i) \/ StartOperation(i) \/ Resume(i)
    \/ Release(i) \/ ReleaseFails(i)

OperationStep(i) ==
    \/ BeginBatch(i) \/ CheckBatch(i) \/ CommitBatch(i) \/ EndOperation(i)
    \/ Renew(i) \/ RenewalFails(i)

LifeStep(i) == Boot(i) \/ Shutdown(i) \/ Stop(i) \/ Crash(i)

Next ==
    \/ \E i \in Instances : RunStep(i) \/ OperationStep(i) \/ LifeStep(i)
    \/ Tick

Spec == Init /\ [][Next]_vars

\* The clock advances; the maintenance loop of an instance that is up starts the
\* run again every cycle, and a free lease is not refused for ever by database
\* errors; an operation leaves its transactions; the renewal notices within its
\* interval that the lease is gone, and the operation is then cancelled.
FairSpec ==
    /\ Spec
    /\ WF_vars(Tick)
    /\ \A i \in Instances :
          /\ WF_vars(RunStep(i))
          /\ SF_vars(Acquire(i))
          /\ WF_vars(InTransaction(i) /\ OperationStep(i))
          /\ WF_vars(~LeaseCurrent(i, op[i].gen) /\ RenewalFails(i))
          /\ WF_vars(op[i].lost /\ EndOperation(i))

---------------------------------------------------------------------------
(* Properties *)

TypeOK ==
    /\ phase \in [Instances -> {"off", "up", "closing", "stopped", "crashed"}]
    /\ row \in LeaseRow
    /\ run \in [Instances -> RunState]
    /\ op \in [Instances -> OpState]
    /\ log \in Seq([term : Nat, by : Instances])

\* Batches are committed by one instance per generation, in the order of the
\* generations: suspended holders, late commits and shutdowns included, the lease
\* gives the work to a singleton.
Singleton == INSTANCE SingletonWork WITH term <- row.gen, worker <- row.owner
ImplementsSingletonWork == Singleton!Spec

\* While an instance serves, its runner never starts an operation beside one that
\* still runs: a run waits for its operation's end before it lets the name go.
OneOperationPerRunner ==
    \A i \in Instances :
        (phase[i] = "up" /\ run[i].pc \in {"idle", "acquiring", "granted"}) => ~Active(i)

\* Two operations in progress never hold proofs of one generation, and a proof of
\* the current generation is in the hands of the owner on the row only.
GenerationNamesOperation ==
    \A i \in Instances : Active(i) =>
        /\ op[i].gen <= row.gen
        /\ op[i].gen = row.gen => row.owner = i
        /\ \A j \in Instances : (Active(j) /\ op[j].gen = op[i].gen) => j = i

\* The lease of an instance that stopped or died passes to one that is up.
DeadOwnerReplaced ==
    \A i \in Instances :
        (phase[i] \in {"stopped", "crashed"} /\ row.owner = i) ~>
            (\/ row.owner # i
             \/ \A j \in Instances : phase[j] # "up"
             \/ row.gen = MaxGen)

\* close(): "Cancel active operations and wait until their lease cleanup
\* finishes."  Once the instance has stopped none of its operations runs: this does
\* not hold when the run is cancelled between the start of an operation and Resume.
CloseWaitsForOperations ==
    \A i \in Instances : phase[i] = "stopped" => ~Active(i)
=============================================================================
