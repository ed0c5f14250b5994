------------------------------ MODULE MCOutbox ------------------------------
(***************************************************************************)
(* The instances of Outbox that TLC checks: two drains of one publisher    *)
(* (a request and the maintenance loop) and one of another publisher.      *)
(***************************************************************************)
EXTENDS Outbox

CONSTANTS request, maintenance, reaper, dispatcher_id, reaper_id

MCPublisherOf ==
    [d \in Drains |-> IF d = reaper THEN reaper_id ELSE dispatcher_id]
=============================================================================
