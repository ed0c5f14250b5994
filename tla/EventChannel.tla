---------------------------- MODULE EventChannel ----------------------------
(***************************************************************************)
(* What the transactional outbox promises to the code that commits an      *)
(* event beside its domain state: an at-least-once channel.  An event is   *)
(* sent once, is put on the board once or several times, and is confirmed  *)
(* only after the board has it; a sent event is never withdrawn and a      *)
(* confirmation is final (docs/14-message-board-events.md, "Outbox         *)
(* transactionnelle").  Outbox.tla implements this channel.                *)
(***************************************************************************)
EXTENDS Naturals

CONSTANT Events

VARIABLES
    sent,       \* events committed with a domain transaction
    delivered,  \* copies of each event the board has accepted
    confirmed   \* events the sender may forget about

vars == <<sent, delivered, confirmed>>

Init ==
    /\ sent = {}
    /\ delivered = [e \in Events |-> 0]
    /\ confirmed = {}

Send(e) ==
    /\ sent' = sent \cup {e}
    /\ UNCHANGED <<delivered, confirmed>>

Deliver(e) ==
    /\ e \in sent
    /\ delivered' = [delivered EXCEPT ![e] = @ + 1]
    /\ UNCHANGED <<sent, confirmed>>

Confirm(e) ==
    /\ e \in sent
    /\ delivered[e] > 0
    /\ confirmed' = confirmed \cup {e}
    /\ UNCHANGED <<sent, delivered>>

Next == \E e \in Events : Send(e) \/ Deliver(e) \/ Confirm(e)

Spec == Init /\ [][Next]_vars
=============================================================================
