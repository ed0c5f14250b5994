--------------------------- MODULE SingletonWork ---------------------------
(***************************************************************************)
(* What MaintenanceLeaseService promises to the maintenance work that runs *)
(* under one lease name, whatever the number of control planes sharing the *)
(* database: at any moment one of them holds the current term, only it     *)
(* gets a batch of work committed, and a term never returns.               *)
(***************************************************************************)
EXTENDS Integers, Sequences

CONSTANTS Instances, Nobody

VARIABLES
    term,    \* number of the current term, 0 before the first
    worker,  \* who holds it
    log      \* committed batches, each with its term and the instance

vars == <<term, worker, log>>

Batch == [term : Nat, by : Instances]

Init ==
    /\ term = 0
    /\ worker = Nobody
    /\ log = <<>>

TakeOver(i) ==
    /\ term' = term + 1
    /\ worker' = i
    /\ UNCHANGED log

Work(i) ==
    /\ worker = i
    /\ log' = Append(log, [term |-> term, by |-> i])
    /\ UNCHANGED <<term, worker>>

Next == \E i \in Instances : TakeOver(i) \/ Work(i)

Spec == Init /\ [][Next]_vars

---------------------------------------------------------------------------

TypeOK ==
    /\ term \in Nat
    /\ worker \in Instances \cup {Nobody}
    /\ log \in Seq(Batch)

\* Two batches of one term are the work of one instance, and the work of an
\* earlier term is never committed after that of a later one: a suspended
\* control plane that wakes up cannot slip a write behind its successor's.
OneWorkerAtATime ==
    \A m, n \in 1..Len(log) : m <= n =>
        /\ log[m].term <= log[n].term
        /\ log[m].term = log[n].term => log[m].by = log[n].by
=============================================================================
