----------------------------- MODULE MCToolCalls -----------------------------
(* The instance of ToolCalls that TLC checks: two sensitive calls, so that    *)
(* approvals expire together or one by one, and one that needs no approval.   *)
EXTENDS ToolCalls

CONSTANTS read, write, run
=============================================================================
