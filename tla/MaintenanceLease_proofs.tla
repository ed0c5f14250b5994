----------------------- MODULE MaintenanceLease_proofs -----------------------
(***************************************************************************)
(* Safety of MaintenanceLease for any number of control planes, any time   *)
(* to live and any bounds.  The argument has two parts.  Proofs of a lease *)
(* never share a generation, since only a takeover makes a new one         *)
(* (HoldersOK).  And a transaction that passed its first fence stays the   *)
(* owner's until it ends, although its lease may run out meanwhile: the    *)
(* writer lock keeps every takeover out (TransactionsOK).                  *)
(***************************************************************************)
EXTENDS MaintenanceLease, TLAPS

\* Instance i has a proof of generation g that it may still act with
Holds(i, g) ==
    \/ Active(i) /\ op[i].gen = g
    \/ run[i].pc = "granted" /\ run[i].gen = g

HoldersOK ==
    \A i \in Instances, g \in Nat : Holds(i, g) =>
        /\ g <= row.gen
        /\ g = row.gen => row.owner = i
        /\ \A j \in Instances : Holds(j, g) => j = i

TransactionsOK ==
    \A i \in Instances : InTransaction(i) =>
        row.owner = i /\ row.gen = op[i].gen

\* A run that does not work yet belongs to an instance that is up, and one that
\* has not booted runs nothing.
RunsOK == \A i \in Instances :
    /\ run[i].pc \in {"acquiring", "granted", "handed"} => phase[i] = "up"
    /\ phase[i] = "off" => run[i].pc = "idle" /\ ~Active(i)

IInv == TypeOK /\ RunsOK /\ OneOperationPerRunner /\ HoldersOK /\ TransactionsOK

LEMMA InitIInv == Init => IInv
BY LeaseAssumption
DEF Init, IInv, TypeOK, RunsOK, OneOperationPerRunner, HoldersOK, TransactionsOK, Holds,
    Active, InTransaction, Idle, NoOperation, RunState, OpState, LeaseRow

---------------------------------------------------------------------------
(* Types *)

LEMMA NextType == TypeOK /\ [Next]_vars => TypeOK'
<1> SUFFICES ASSUME TypeOK, [Next]_vars
             PROVE  TypeOK'
  OBVIOUS
<1>0. /\ row.gen \in Nat /\ row.left \in 0..LeaseTTL /\ row \in LeaseRow
      /\ \A i \in Instances : run[i] \in RunState /\ op[i] \in OpState
  BY DEF TypeOK, LeaseRow
<1>1. row' \in LeaseRow
  <2>1. [owner |-> row.owner, gen |-> row.gen, left |-> row.left] = row
    BY <1>0 DEF LeaseRow
  <2>2. \A i \in Instances : TakenOver(i) \in LeaseRow
    BY <1>0, LeaseAssumption DEF LeaseRow, TakenOver
  <2>3. \A n \in 0..LeaseTTL : [row EXCEPT !.left = n] \in LeaseRow
    BY <1>0 DEF LeaseRow
  <2>4. 0 \in 0..LeaseTTL /\ LeaseTTL \in 0..LeaseTTL
    BY LeaseAssumption
  <2>5. row.left > 0 => row.left - 1 \in 0..LeaseTTL
    BY <1>0, LeaseAssumption
  <2> HIDE DEF TypeOK
  <2> QED
    BY <1>0, <2>2, <2>3, <2>4, <2>5
    DEF Next, vars, RunStep, OperationStep, LifeStep, StartRun, Acquire, GiveUp,
        StartOperation, Resume, Release, ReleaseFails, BeginBatch, CheckBatch, CommitBatch,
        EndOperation, Renew, RenewalFails, Boot, Shutdown, Stop, Crash, Tick
<1>2. run' \in [Instances -> RunState]
  <2>1. run \in [Instances -> RunState] /\ Idle \in RunState
    BY DEF TypeOK, Idle, RunState
  <2>2. \A i \in Instances, pc \in {"acquiring", "handed", "working"} :
          [run EXCEPT ![i].pc = pc] \in [Instances -> RunState]
    BY <2>1 DEF RunState
  <2>3. \A i \in Instances : [run EXCEPT ![i] = Idle] \in [Instances -> RunState]
    BY <2>1
  <2>4. ASSUME NEW i \in Instances, Acquire(i)
        PROVE  run' \in [Instances -> RunState]
    <3>1. [pc |-> "granted", gen |-> row'.gen] \in RunState
      BY <1>1 DEF RunState, LeaseRow
    <3> QED
      BY <2>1, <2>4, <3>1 DEF Acquire
  <2> HIDE DEF TypeOK
  <2>5. ASSUME NEW i \in Instances, RunStep(i)
        PROVE  run' \in [Instances -> RunState]
    BY <2>1, <2>2, <2>3, <2>4, <2>5
    DEF RunStep, StartRun, GiveUp, StartOperation, Resume, Release, ReleaseFails
  <2>6. ASSUME NEW i \in Instances, OperationStep(i)
        PROVE  run' \in [Instances -> RunState]
    BY <2>1, <2>6
    DEF OperationStep, BeginBatch, CheckBatch, CommitBatch, EndOperation, Renew, RenewalFails
  <2>7. ASSUME NEW i \in Instances, LifeStep(i)
        PROVE  run' \in [Instances -> RunState]
    BY <2>1, <2>3, <2>7 DEF LifeStep, Boot, Shutdown, Stop, Crash
  <2> QED
    BY <2>1, <2>5, <2>6, <2>7 DEF Next, vars, Tick
<1>3. op' \in [Instances -> OpState]
  <2>1. op \in [Instances -> OpState]
    BY DEF TypeOK
  <2>2. ASSUME NEW i \in Instances, NEW st \in {"none", "ready", "batch", "checked"}
        PROVE  [op EXCEPT ![i].st = st] \in [Instances -> OpState]
    BY <2>1 DEF OpState
  <2>a. ASSUME NEW i \in Instances
        PROVE  /\ [op EXCEPT ![i].lost = TRUE] \in [Instances -> OpState]
               /\ [op EXCEPT ![i].st = "ready", ![i].lost = TRUE] \in [Instances -> OpState]
    <3>1. [op[i] EXCEPT !.st = "ready", !.lost = TRUE] \in OpState
      BY <2>1 DEF OpState
    <3> QED
      BY <2>1, <3>1 DEF OpState
  <2>3. ASSUME NEW i \in Instances, StartOperation(i)
        PROVE  op' \in [Instances -> OpState]
    <3>1. [st |-> "ready", gen |-> run[i].gen, lost |-> FALSE] \in OpState
      BY <1>0 DEF RunState, OpState
    <3> QED
      BY <2>1, <2>3, <3>1 DEF StartOperation
  <2>4. ASSUME NEW i \in Instances, OperationStep(i)
        PROVE  op' \in [Instances -> OpState]
    <3>1. CASE BeginBatch(i)
      BY <2>1, <2>2, <2>a, <3>1 DEF BeginBatch
    <3>2. CASE CheckBatch(i)
      BY <2>1, <2>2, <2>a, <3>2 DEF CheckBatch
    <3>3. CASE CommitBatch(i) \/ EndOperation(i)
      BY <2>2, <3>3 DEF CommitBatch, EndOperation, OperationEnded
    <3>4. CASE Renew(i) \/ RenewalFails(i)
      BY <2>1, <2>a, <3>4 DEF Renew, RenewalFails
    <3> QED
      BY <2>4, <3>1, <3>2, <3>3, <3>4 DEF OperationStep
  <2>5. ASSUME NEW i \in Instances, LifeStep(i)
        PROVE  op' \in [Instances -> OpState]
    <3>1. CASE Crash(i)
      BY <2>2, <3>1 DEF Crash, OperationEnded
    <3>2. CASE Shutdown(i)
      BY <2>1, <2>a, <3>2 DEF Shutdown
    <3>3. CASE Boot(i) \/ Stop(i)
      BY <2>1, <3>3 DEF Boot, Stop
    <3> QED
      BY <2>5, <3>1, <3>2, <3>3 DEF LifeStep
  <2> QED
    BY <2>1, <2>3, <2>4, <2>5
    DEF Next, vars, RunStep, StartRun, Acquire, GiveUp,
        Resume, Release, ReleaseFails, Tick
<1>4. phase' \in [Instances -> {"off", "up", "closing", "stopped", "crashed"}]
  BY DEF TypeOK, Next, vars, RunStep, OperationStep, LifeStep, StartRun, Acquire, GiveUp,
         StartOperation, Resume, Release, ReleaseFails, BeginBatch, CheckBatch, CommitBatch,
         EndOperation, Renew, RenewalFails, Boot, Shutdown, Stop, Crash, Tick
<1>5. log' \in Seq([term : Nat, by : Instances])
  <2>1. \A i \in Instances : op[i].gen \in Nat
    BY <1>0 DEF OpState
  <2>2. \A i \in Instances :
          Append(log, [term |-> op[i].gen, by |-> i]) \in Seq([term : Nat, by : Instances])
    BY <2>1 DEF TypeOK
  <2>3. log \in Seq([term : Nat, by : Instances])
    BY DEF TypeOK
  <2> QED
    BY <2>2, <2>3
    DEF Next, vars, RunStep, OperationStep, LifeStep, StartRun, Acquire, GiveUp,
        StartOperation, Resume, Release, ReleaseFails, BeginBatch, CheckBatch, CommitBatch,
        EndOperation, Renew, RenewalFails, Boot, Shutdown, Stop, Crash, Tick
<1> QED
  BY <1>1, <1>2, <1>3, <1>4, <1>5 DEF TypeOK

---------------------------------------------------------------------------
(* Steps that change nobody's proof: no acquisition, no new operation, the *)
(* owner and the generation of the row stay.                               *)

QuietRow == row'.owner = row.owner /\ row'.gen = row.gen

\* What is held only shrinks, and no transaction begins.
LEMMA QuietStep ==
    ASSUME IInv, TypeOK', QuietRow,
           \A i \in Instances, g \in Nat : Holds(i, g)' => Holds(i, g),
           \A i \in Instances : InTransaction(i)' =>
                InTransaction(i) /\ op'[i].gen = op[i].gen
    PROVE  HoldersOK' /\ TransactionsOK'
<1> DEFINE H(i, g) == Holds(i, g)
           Hn(i, g) == Holds(i, g)'
<1>1. \A i \in Instances, g \in Nat : Hn(i, g) =>
        g <= row.gen /\ (g = row.gen => row.owner = i)
          /\ \A j \in Instances : Hn(j, g) => j = i
  <2>1. \A i \in Instances, g \in Nat : H(i, g) =>
          g <= row.gen /\ (g = row.gen => row.owner = i)
            /\ \A j \in Instances : H(j, g) => j = i
    BY DEF IInv, HoldersOK
  <2> HIDE DEF H, Hn
  <2>2. \A i \in Instances, g \in Nat : Hn(i, g) => H(i, g)
    BY DEF H, Hn
  <2> QED
    BY <2>1, <2>2
<1>2. HoldersOK'
  BY <1>1 DEF HoldersOK, QuietRow
<1>3. TransactionsOK'
  BY DEF IInv, TransactionsOK, QuietRow
<1> QED
  BY <1>2, <1>3

---------------------------------------------------------------------------

LEMMA RunKeepsIInv ==
    ASSUME IInv, TypeOK', NEW i \in Instances, RunStep(i)
    PROVE  IInv'
<1> USE DEF IInv
<1>0. TypeOK
  OBVIOUS
<1>1. CASE StartRun(i) \/ GiveUp(i) \/ Resume(i) \/ Release(i) \/ ReleaseFails(i)
  <2>a. /\ phase' = phase /\ op' = op
        /\ \A j \in Instances : j # i => run'[j] = run[j]
        /\ \/ run'[i].pc = "acquiring" /\ run[i].pc = "idle" /\ phase[i] = "up"
           \/ run'[i].pc = "idle" /\ (run[i].pc = "acquiring" \/ ~Active(i))
           \/ run'[i].pc = "working" /\ phase[i] = "up"
    BY <1>1, <1>0 DEF RunsOK, StartRun, GiveUp, Resume, Release, ReleaseFails, Finished,
       Idle, TypeOK, RunState
  <2>b. RunsOK'
    BY <2>a DEF RunsOK, Active
  <2>c. OneOperationPerRunner'
    BY <2>a DEF OneOperationPerRunner, Active
  <2>1. RunsOK' /\ OneOperationPerRunner'
    BY <2>b, <2>c
  <2>2. QuietRow
    BY <1>1, <1>0 DEF QuietRow, StartRun, GiveUp, Resume, Release, ReleaseFails, TypeOK,
       LeaseRow
  <2>3. op' = op /\ \A j \in Instances : run'[j].pc = "granted" => run'[j] = run[j]
    BY <1>1, <1>0 DEF StartRun, GiveUp, Resume, Release, ReleaseFails, Idle, TypeOK, RunState
  <2>4. \A j \in Instances, g \in Nat : Holds(j, g)' => Holds(j, g)
    BY <2>3 DEF Holds, Active
  <2>5. \A j \in Instances : InTransaction(j)' => InTransaction(j) /\ op'[j].gen = op[j].gen
    BY <2>3 DEF InTransaction
  <2> QED
    BY <2>1, <2>2, <2>4, <2>5, QuietStep
<1>2. CASE StartOperation(i)
  <2>1. phase[i] = "up" /\ run[i].pc = "granted" /\ run[i].gen \in Nat /\ ~Active(i)
    BY <1>2, <1>0 DEF StartOperation, RunsOK, OneOperationPerRunner, TypeOK, RunState
  <2>a. /\ phase' = phase /\ run'[i].pc = "handed"
        /\ \A j \in Instances : j # i => run'[j] = run[j] /\ op'[j] = op[j]
    BY <1>2, <1>0 DEF StartOperation, TypeOK, RunState
  <2>b. RunsOK'
    <3>1. ASSUME NEW j \in Instances
          PROVE  /\ run'[j].pc \in {"acquiring", "granted", "handed"} => phase'[j] = "up"
                 /\ phase'[j] = "off" => run'[j].pc = "idle" /\ ~Active(j)'
      BY <2>1, <2>a DEF RunsOK, Active
    <3> QED
      BY <3>1 DEF RunsOK
  <2>c. OneOperationPerRunner'
    BY <2>1, <2>a DEF OneOperationPerRunner, Active
  <2>2. RunsOK' /\ OneOperationPerRunner'
    BY <2>b, <2>c
  <2>3. QuietRow
    BY <1>2 DEF QuietRow, StartOperation
  <2>4. \A j \in Instances, g \in Nat : Holds(j, g)' => Holds(j, g)
    BY <1>2, <1>0, <2>1 DEF Holds, Active, StartOperation, TypeOK, RunState, OpState
  <2>5. \A j \in Instances : InTransaction(j)' => InTransaction(j) /\ op'[j].gen = op[j].gen
    BY <1>2, <1>0 DEF InTransaction, StartOperation, TypeOK, OpState
  <2> QED
    BY <2>2, <2>3, <2>4, <2>5, QuietStep
<1>3. CASE Acquire(i)
  <2>1. /\ phase[i] = "up" /\ ~Active(i) /\ row.gen \in Nat /\ row'.owner = i
        /\ row'.gen \in Nat
        /\ \/ row'.gen = row.gen /\ row.owner = i
           \/ row'.gen = row.gen + 1
    BY <1>3, <1>0 DEF Acquire, TakenOver, RunsOK, OneOperationPerRunner, TypeOK, LeaseRow
  <2>2. /\ op' = op /\ phase' = phase
        /\ run'[i].pc = "granted" /\ run'[i].gen = row'.gen
        /\ \A j \in Instances : j # i => run'[j] = run[j]
    BY <1>3, <1>0 DEF Acquire, TypeOK, RunState
  <2>3. RunsOK' /\ OneOperationPerRunner'
    BY <2>1, <2>2 DEF RunsOK, OneOperationPerRunner, Active
  <2>4. TransactionsOK'
    BY <1>3, <2>2 DEF TransactionsOK, Acquire, WriterFree, InTransaction
  <2>5. \A g \in Nat : Holds(i, g)' => g = row'.gen
    BY <2>1, <2>2 DEF Holds, Active
  <2>6. \A j \in Instances, g \in Nat : j # i => (Holds(j, g)' => Holds(j, g))
    BY <2>2 DEF Holds, Active
  <2>7. ASSUME NEW j \in Instances, NEW g \in Nat, Holds(j, g)'
        PROVE  /\ g <= row'.gen
               /\ g = row'.gen => j = i
    <3>1. CASE j = i
      BY <2>5, <2>7, <3>1, <2>1
    <3>2. CASE j # i
      BY <2>6, <2>7, <3>2, <2>1 DEF HoldersOK
    <3> QED
      BY <3>1, <3>2
  <2>8. ASSUME NEW j \in Instances, NEW g \in Nat, Holds(j, g)',
               NEW k \in Instances, Holds(k, g)'
        PROVE  k = j
    <3>1. CASE g = row'.gen
      BY <3>1, <2>7, <2>8
    <3>2. CASE g # row'.gen
      BY <3>2, <2>5, <2>6, <2>8 DEF HoldersOK
    <3> QED
      BY <3>1, <3>2
  <2>9. HoldersOK'
    BY <2>1, <2>7, <2>8 DEF HoldersOK
  <2> QED
    BY <2>3, <2>4, <2>9
<1> QED
  BY <1>1, <1>2, <1>3 DEF RunStep

LEMMA OperationKeepsIInv ==
    ASSUME IInv, TypeOK', NEW i \in Instances, OperationStep(i)
    PROVE  IInv'
<1> USE DEF IInv
<1>0. TypeOK /\ run' = run /\ phase' = phase
  BY DEF OperationStep, BeginBatch, CheckBatch, CommitBatch, EndOperation, Renew, RenewalFails
<1>a. \A j \in Instances : j # i => op'[j] = op[j]
  BY <1>0 DEF OperationStep, BeginBatch, CheckBatch, CommitBatch, EndOperation, Renew,
     RenewalFails, OperationEnded, TypeOK
<1>b. op'[i].gen = op[i].gen
  BY <1>0 DEF OperationStep, BeginBatch, CheckBatch, CommitBatch, EndOperation, Renew,
     RenewalFails, OperationEnded, TypeOK, OpState
<1>c. Active(i)' => Active(i)
  BY <1>0 DEF OperationStep, BeginBatch, CheckBatch, CommitBatch, EndOperation, Renew,
     RenewalFails, OperationEnded, Active, TypeOK, OpState
<1>d. QuietRow
  BY <1>0 DEF OperationStep, BeginBatch, CheckBatch, CommitBatch, EndOperation, Renew,
     RenewalFails, QuietRow, TypeOK, LeaseRow
<1>1. /\ \A j \in Instances : op'[j].gen = op[j].gen
      /\ \A j \in Instances : Active(j)' => Active(j)
      /\ QuietRow
  BY <1>a, <1>b, <1>c, <1>d DEF Active
<1>2. RunsOK' /\ OneOperationPerRunner'
  BY <1>0, <1>1 DEF RunsOK, OneOperationPerRunner
<1>3. \A j \in Instances, g \in Nat : Holds(j, g)' => Holds(j, g)
  BY <1>0, <1>1 DEF Holds
<1>4. CASE BeginBatch(i)
  <2>1. \A j \in Instances : InTransaction(j)' =>
          \/ InTransaction(j)
          \/ j = i /\ row.owner = i /\ row.gen = op[i].gen
    BY <1>4, <1>0 DEF BeginBatch, InTransaction, LeaseCurrent, TypeOK, OpState
  <2>2. TransactionsOK'
    BY <2>1, <1>1 DEF TransactionsOK, QuietRow
  <2>3. HoldersOK'
    <3> DEFINE H(j, g) == Holds(j, g)
               Hn(j, g) == Holds(j, g)'
    <3>1. \A j \in Instances, g \in Nat : H(j, g) =>
            g <= row.gen /\ (g = row.gen => row.owner = j)
              /\ \A k \in Instances : H(k, g) => k = j
      BY DEF HoldersOK
    <3>2. \A j \in Instances, g \in Nat : Hn(j, g) => H(j, g)
      BY <1>3
    <3>3. \A j \in Instances, g \in Nat : Hn(j, g) =>
            g <= row.gen /\ (g = row.gen => row.owner = j)
              /\ \A k \in Instances : Hn(k, g) => k = j
      <4> HIDE DEF H, Hn
      <4> QED
        BY <3>1, <3>2
    <3> QED
      BY <3>3, <1>1 DEF HoldersOK, QuietRow
  <2> QED
    BY <1>2, <2>2, <2>3
<1>5. CASE CheckBatch(i) \/ CommitBatch(i) \/ EndOperation(i) \/ Renew(i) \/ RenewalFails(i)
  <2>1. \A j \in Instances : InTransaction(j)' => InTransaction(j) /\ op'[j].gen = op[j].gen
    BY <1>5, <1>0, <1>1 DEF CheckBatch, CommitBatch, EndOperation, Renew, RenewalFails,
       OperationEnded, InTransaction, TypeOK, OpState
  <2> QED
    BY <1>1, <1>2, <1>3, <2>1, QuietStep
<1> QED
  BY <1>4, <1>5 DEF OperationStep

LEMMA LifeKeepsIInv ==
    ASSUME IInv, TypeOK', NEW i \in Instances, LifeStep(i)
    PROVE  IInv'
<1> USE DEF IInv
<1>0. TypeOK
  OBVIOUS
<1>a. /\ QuietRow
      /\ \A j \in Instances : j # i => /\ op'[j] = op[j] /\ run'[j] = run[j]
                                      /\ phase'[j] = phase[j]
  BY <1>0 DEF LifeStep, Boot, Shutdown, Stop, Crash, QuietRow, OperationEnded, TypeOK
<1>b. op'[i].gen = op[i].gen /\ (op'[i].st = op[i].st \/ op'[i].st = "none")
  BY <1>0 DEF LifeStep, Boot, Shutdown, Stop, Crash, OperationEnded, TypeOK, OpState
<1>c. /\ run'[i] = run[i] \/ run'[i].pc = "idle"
      /\ phase'[i] = "up" => run'[i] = run[i] /\ run[i].pc \notin {"acquiring", "granted", "handed"}
                              /\ phase[i] = "off" /\ op' = op
      /\ phase'[i] # "up" => run'[i].pc \in {"idle", "working"}
      /\ phase'[i] # "off"
  BY <1>0 DEF LifeStep, Boot, Shutdown, Stop, Crash, Idle, TypeOK, RunState, RunsOK
<1>1. /\ \A j \in Instances : op'[j].gen = op[j].gen
      /\ \A j \in Instances : Active(j)' => Active(j)
      /\ \A j \in Instances : InTransaction(j)' => InTransaction(j)
      /\ \A j \in Instances : run'[j] = run[j] \/ run'[j].pc = "idle"
  BY <1>a, <1>b, <1>c DEF Active, InTransaction
<1>2. RunsOK'
  <2>1. ASSUME NEW j \in Instances
        PROVE  /\ run'[j].pc \in {"acquiring", "granted", "handed"} => phase'[j] = "up"
               /\ phase'[j] = "off" => run'[j].pc = "idle" /\ ~Active(j)'
    BY <1>a, <1>c DEF RunsOK, Active
  <2> QED
    BY <2>1 DEF RunsOK
<1>3. OneOperationPerRunner'
  <2>1. ASSUME NEW j \in Instances, phase'[j] = "up",
               run'[j].pc \in {"idle", "acquiring", "granted"}
        PROVE  ~Active(j)'
    BY <1>a, <1>c, <2>1 DEF RunsOK, OneOperationPerRunner, Active
  <2> QED
    BY <2>1 DEF OneOperationPerRunner
<1>4. \A j \in Instances, g \in Nat : Holds(j, g)' => Holds(j, g)
  BY <1>1 DEF Holds
<1> QED
  BY <1>1, <1>2, <1>3, <1>4, <1>a, QuietStep

LEMMA NextIInv == IInv /\ [Next]_vars => IInv'
<1> SUFFICES ASSUME IInv, [Next]_vars
             PROVE  IInv'
  OBVIOUS
<1>0. TypeOK'
  BY NextType DEF IInv
<1>1. CASE Tick
  <2>1. QuietRow
    BY <1>1 DEF Tick, QuietRow, IInv, TypeOK, LeaseRow
  <2>2. run' = run /\ op' = op /\ phase' = phase
    BY <1>1 DEF Tick
  <2>3. HoldersOK' /\ TransactionsOK'
    BY <1>0, <2>1, <2>2, QuietStep DEF Holds, Active, InTransaction
  <2>4. RunsOK' /\ OneOperationPerRunner'
    BY <2>2 DEF IInv, RunsOK, OneOperationPerRunner, Active
  <2> QED
    BY <1>0, <2>3, <2>4 DEF IInv
<1>2. CASE UNCHANGED vars
  BY <1>2 DEF vars, IInv, TypeOK, RunsOK, OneOperationPerRunner, HoldersOK, TransactionsOK,
     Holds, Active, InTransaction
<1> QED
  BY <1>0, <1>1, <1>2, RunKeepsIInv, OperationKeepsIInv, LifeKeepsIInv DEF Next

---------------------------------------------------------------------------
(* Theorems *)

LEMMA Inductive == Spec => []IInv
BY InitIInv, NextIInv, PTL DEF Spec

\* Type correctness, for every time to live and any number of instances.
THEOREM TypesKept == Spec => []TypeOK
<1>1. IInv => TypeOK
  BY DEF IInv
<1> QED
  BY <1>1, Inductive, PTL

\* A serving runner never runs two operations side by side.
THEOREM RunnersAreSequential == Spec => []OneOperationPerRunner
<1>1. IInv => OneOperationPerRunner
  BY DEF IInv
<1> QED
  BY <1>1, Inductive, PTL

\* A generation is the proof of one operation.
THEOREM GenerationIsProof == Spec => []GenerationNamesOperation
<1>1. IInv => GenerationNamesOperation
  BY DEF IInv, TypeOK, OpState, HoldersOK, Holds, GenerationNamesOperation
<1> QED
  BY <1>1, Inductive, PTL

\* Every step of the lease and its runners is a step of the singleton or none.
LEMMA StepRefines == IInv /\ [Next]_vars => [Singleton!Next]_(Singleton!vars)
<1> SUFFICES ASSUME IInv, [Next]_vars
             PROVE  [Singleton!Next]_(Singleton!vars)
  OBVIOUS
<1>0. row \in LeaseRow /\ op \in [Instances -> OpState]
  BY DEF IInv, TypeOK
<1>1. ASSUME NEW i \in Instances, Acquire(i)
      PROVE  Singleton!TakeOver(i) \/ UNCHANGED Singleton!vars
  BY <1>0, <1>1 DEF Acquire, TakenOver, Singleton!TakeOver, Singleton!vars, LeaseRow
<1>2. ASSUME NEW i \in Instances, CommitBatch(i)
      PROVE  Singleton!Work(i)
  <2>1. row.owner = i /\ row.gen = op[i].gen
    BY <1>2 DEF CommitBatch, IInv, TransactionsOK, InTransaction
  <2> QED
    BY <1>2, <2>1 DEF CommitBatch, Singleton!Work
<1>3. ASSUME NEW i \in Instances, RunStep(i), ~Acquire(i)
      PROVE  UNCHANGED Singleton!vars
  BY <1>0, <1>3 DEF RunStep, StartRun, GiveUp, StartOperation, Resume, Release, ReleaseFails,
     Singleton!vars, LeaseRow
<1>4. ASSUME NEW i \in Instances, OperationStep(i), ~CommitBatch(i)
      PROVE  UNCHANGED Singleton!vars
  BY <1>0, <1>4 DEF OperationStep, BeginBatch, CheckBatch, EndOperation, Renew, RenewalFails,
     Singleton!vars, LeaseRow
<1>5. ASSUME NEW i \in Instances, LifeStep(i)
      PROVE  UNCHANGED Singleton!vars
  BY <1>5 DEF LifeStep, Boot, Shutdown, Stop, Crash, Singleton!vars
<1>6. CASE Tick \/ UNCHANGED vars
  BY <1>0, <1>6 DEF Tick, vars, Singleton!vars, LeaseRow
<1> QED
  BY <1>1, <1>2, <1>3, <1>4, <1>5, <1>6 DEF Next, Singleton!Next

\* The lease makes the maintenance work a singleton's.
THEOREM RefinesSingletonWork == Spec => ImplementsSingletonWork
<1>1. Init => Singleton!Init
  BY DEF Init, Singleton!Init
<1> QED
  BY <1>1, StepRefines, Inductive, PTL DEF Spec, ImplementsSingletonWork, Singleton!Spec

\* In the singleton every batch was committed in a term that had begun, and by
\* its worker if that term is still the current one.
LogOK ==
    \A m \in 1..Len(log) :
        /\ log[m].term <= row.gen
        /\ log[m].term = row.gen => log[m].by = row.owner

SingletonInv == Singleton!TypeOK /\ LogOK /\ Singleton!OneWorkerAtATime

LEMMA SingletonStep ==
    SingletonInv /\ [Singleton!Next]_(Singleton!vars) => SingletonInv'
<1> SUFFICES ASSUME SingletonInv, [Singleton!Next]_(Singleton!vars)
             PROVE  SingletonInv'
  OBVIOUS
<1> USE DEF SingletonInv
<1>1. ASSUME NEW i \in Instances, Singleton!TakeOver(i)
      PROVE  SingletonInv'
  <2>1. Singleton!TypeOK'
    BY <1>1 DEF Singleton!TypeOK, Singleton!TakeOver
  <2>2. \A m \in 1..Len(log) : log[m] \in Singleton!Batch
    BY DEF Singleton!TypeOK
  <2>3. LogOK'
    BY <1>1, <2>2 DEF Singleton!TypeOK, LogOK, Singleton!TakeOver, Singleton!Batch
  <2>4. Singleton!OneWorkerAtATime'
    BY <1>1 DEF Singleton!OneWorkerAtATime, Singleton!TakeOver
  <2> QED
    BY <2>1, <2>3, <2>4
<1>2. ASSUME NEW i \in Instances, Singleton!Work(i)
      PROVE  SingletonInv'
  <2> DEFINE b == [term |-> row.gen, by |-> i]
  <2>1. b \in Singleton!Batch /\ Singleton!TypeOK'
    BY <1>2 DEF Singleton!TypeOK, Singleton!Work, Singleton!Batch
  <2>2. /\ Len(log) \in Nat
        /\ Len(log') = Len(log) + 1
        /\ log'[Len(log) + 1] = b
        /\ \A m \in 1..Len(log) : log'[m] = log[m] /\ log[m] \in Singleton!Batch
    BY <1>2, <2>1 DEF Singleton!TypeOK, Singleton!Work
  <2>3. LogOK'
    BY <1>2, <2>2 DEF LogOK, Singleton!Work, Singleton!TypeOK
  <2>4. Singleton!OneWorkerAtATime'
    BY <1>2, <2>2 DEF Singleton!OneWorkerAtATime, LogOK, Singleton!Work, Singleton!TypeOK
  <2> QED
    BY <2>1, <2>3, <2>4
<1>3. CASE UNCHANGED Singleton!vars
  BY <1>3 DEF Singleton!vars, Singleton!TypeOK, LogOK, Singleton!OneWorkerAtATime
<1> QED
  BY <1>1, <1>2, <1>3 DEF Singleton!Next

\* So the committed batches are ordered by generation, one instance per generation.
THEOREM BatchesFenced == Spec => []Singleton!OneWorkerAtATime
<1>1. Init => SingletonInv
  BY DEF Init, SingletonInv, Singleton!TypeOK, LogOK, Singleton!OneWorkerAtATime, Singleton!Batch
<1>2. SingletonInv => Singleton!OneWorkerAtATime
  BY DEF SingletonInv
<1> QED
  BY <1>1, <1>2, SingletonStep, StepRefines, Inductive, PTL DEF Spec
=============================================================================
