------------------------ MODULE MCIPhoneCapabilities ------------------------
(***************************************************************************)
(* Instances of IPhoneCapabilities for TLC: one read-only job, the only    *)
(* kind a lost lease could hand out again.                                 *)
(***************************************************************************)
EXTENDS IPhoneCapabilities

CONSTANTS read

MCSkills == {"workspace.read_text"}
MCSkillOf == [t \in Tasks |-> "workspace.read_text"]
MCCanRun == [w \in Workers |-> MCSkills]
=============================================================================
