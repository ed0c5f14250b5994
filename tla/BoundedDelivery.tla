-------------------------- MODULE BoundedDelivery --------------------------
(***************************************************************************)
(* What the ledger of a consumer group promises about a delivery, whatever *)
(* the number of consumers, crashes and outlived claims                    *)
(* (docs/13-data-model.md, docs/14-message-board-events.md): retries are   *)
(* bounded, every run of the handler is one of the counted tries, only a   *)
(* delivery whose handler returned is completed, the checkpoint advances   *)
(* by one with each completion, and only a delivery that has used all its  *)
(* tries is given up.  Done and dead are final, although a handler that    *)
(* was still running then may return later.                                *)
(***************************************************************************)
EXTENDS Naturals

CONSTANTS Events, MaxAttempts

VARIABLES
    state,    \* of each delivery
    tries,    \* how often it was handed to a consumer
    runs,     \* how often its handler was started
    handled,  \* deliveries whose handler has returned
    counted   \* the checkpoint

vars == <<state, tries, runs, handled, counted>>

States == {"absent", "open", "done", "dead"}

Init ==
    /\ state = [e \in Events |-> "absent"]
    /\ tries = [e \in Events |-> 0]
    /\ runs = [e \in Events |-> 0]
    /\ handled = {}
    /\ counted = 0

Same(e) == tries'[e] = tries[e] /\ runs'[e] = runs[e] /\ (e \in handled' <=> e \in handled)

Still(e) == state'[e] = state[e] /\ Same(e)

Submitted(e) == state[e] = "absent" /\ state'[e] = "open" /\ Same(e)

Tried(e) ==
    /\ state[e] = "open" /\ state'[e] = "open"
    /\ tries[e] < MaxAttempts /\ tries'[e] = tries[e] + 1
    /\ runs'[e] = runs[e] /\ (e \in handled' <=> e \in handled)

Started(e) ==
    /\ runs[e] < tries[e] /\ runs'[e] = runs[e] + 1
    /\ state'[e] = state[e] /\ tries'[e] = tries[e]
    /\ (e \in handled' <=> e \in handled)

Returned(e) ==
    /\ runs[e] > 0 /\ e \in handled'
    /\ state'[e] = state[e] /\ tries'[e] = tries[e] /\ runs'[e] = runs[e]

Buried(e) == state[e] = "open" /\ state'[e] = "dead" /\ tries[e] = MaxAttempts /\ Same(e)

Completed(e) == state[e] = "open" /\ state'[e] = "done" /\ e \in handled /\ Same(e)

\* one transaction may hand out or give up several deliveries
Work ==
    /\ \A e \in Events :
          Still(e) \/ Submitted(e) \/ Tried(e) \/ Started(e) \/ Returned(e) \/ Buried(e)
    /\ counted' = counted

\* and completes at most one, with the checkpoint
Complete(e) ==
    /\ Completed(e)
    /\ \A f \in Events \ {e} : Still(f)
    /\ counted' = counted + 1

Next ==
    /\ state' \in [Events -> States]
    /\ tries' \in [Events -> 0..MaxAttempts] /\ runs' \in [Events -> Nat]
    /\ handled' \subseteq Events
    /\ Work \/ \E e \in Events : Complete(e)

Spec == Init /\ [][Next]_vars
=============================================================================
