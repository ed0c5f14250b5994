---------------------------- MODULE MCAgentJobs ----------------------------
(***************************************************************************)
(* Instances of AgentJobs for TLC.  Three tasks cover what the skill of a  *)
(* job changes: read needs a retry-safe skill; media one that is not, with *)
(* the default number of attempts and a rule the policy may omit; swift    *)
(* carries a native grant and gets a single attempt.                       *)
(***************************************************************************)
EXTENDS AgentJobs, TLC

CONSTANTS read, media, swift

MCSkillOf == [t \in Tasks |-> CASE t = read -> "workspace.read_text"
                                [] t = media -> "image.generate"
                                [] t = swift -> "code.build_project"]
MCSkills == {MCSkillOf[t] : t \in Tasks}
MCCanRun == [w \in Workers |-> MCSkills]
MCRetrySafe == MCSkills \cap {"workspace.read_text"}
MCSingleAttempt == MCSkills \cap {"code.build_project"}
MCNative == Tasks \cap {swift}

\* Workers are interchangeable: no action or safety property names one.
MCSymmetry == Permutations(Workers)
=============================================================================
