--------------------------- MODULE OneShotConsent ---------------------------
(***************************************************************************)
(* What the execution engine promises about a local tool call, whatever    *)
(* the number of control planes and restarts: it is granted or refused     *)
(* once, its tool is reached at most once and only after the grant, and    *)
(* what the ledger says afterwards is true.  "refused" means that the tool *)
(* was not reached and will not be; "settled" that the outcome is known    *)
(* and nothing more will happen; "uncertain" (docs/13-data-model.md) that  *)
(* a restart closed a call whose tool may have run, or may be reached yet  *)
(* by the request of another control plane.  No verdict is ever revised.   *)
(***************************************************************************)
EXTENDS Naturals

CONSTANT Calls

VARIABLES
    verdict,  \* what the ledger says
    times     \* how often the tool was reached

vars == <<verdict, times>>

Verdicts == {"open", "granted", "refused", "settled", "uncertain"}

Moves == ({"open"} \X {"granted", "refused"})
           \cup ({"granted"} \X {"refused", "settled", "uncertain"})

Init ==
    /\ verdict = [c \in Calls |-> "open"]
    /\ times = [c \in Calls |-> 0]

Judged(c) ==
    /\ <<verdict[c], verdict'[c]>> \in Moves
    /\ times'[c] = times[c]
    /\ verdict'[c] = "refused" => times[c] = 0

Reached(c) ==
    /\ verdict[c] \in {"granted", "uncertain"}
    /\ verdict'[c] = verdict[c]
    /\ times[c] = 0 /\ times'[c] = 1

Still(c) == verdict'[c] = verdict[c] /\ times'[c] = times[c]

\* a restart or an expiry judges several calls in one transaction
Next ==
    /\ verdict' \in [Calls -> Verdicts] /\ times' \in [Calls -> Nat]
    /\ \A c \in Calls : Judged(c) \/ Reached(c) \/ Still(c)

Spec == Init /\ [][Next]_vars
=============================================================================
