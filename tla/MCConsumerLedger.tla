-------------------------- MODULE MCConsumerLedger --------------------------
(***************************************************************************)
(* Two executions under one identity and one under another.                *)
(***************************************************************************)
EXTENDS ConsumerLedger

CONSTANTS c1, c2, c3, shared, other

MCIdentityOf == [c \in Consumers |-> IF c = c3 THEN other ELSE shared]
=============================================================================
