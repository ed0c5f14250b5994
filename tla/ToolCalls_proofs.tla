--------------------------- MODULE ToolCalls_proofs ---------------------------
(***************************************************************************)
(* Safety of ToolCalls for any number of calls and control planes.  The    *)
(* three rows of a call say how far its execution can be (Story): a request*)
(* that has not claimed cannot have reached the tool, and one that has     *)
(* claimed finds its call running or closed as uncertain, never reopened.  *)
(***************************************************************************)
EXTENDS ToolCalls, TLAPS

\* What the rows of c say, and what they say of the execution of c
Story(c) ==
    /\ \A s \in {"waiting_permission", "queued", "running", "completed", "failed"} :
          call[c] = s <=> task[c] = s
    /\ call[c] = "waiting_permission" <=> approval[c] = "pending"
    /\ call[c] = "denied" <=> approval[c] = "denied"
    /\ call[c] \in {"denied", "cancelled"} => task[c] \in {"blocked", "cancelled"}
    /\ task[c] = "blocked" => approval[c] \in {"denied", "expired"}
    /\ reason[c] # "none" => call[c] \in {"completed", "failed"}
    /\ call[c] = "completed" => reason[c] = "result"
    /\ call[c] = "failed" => reason[c] # "none"
    /\ c \notin Sensitive => approval[c] = "none"
    /\ c \in Sensitive /\ call[c] \in {"queued", "running", "completed", "failed"} =>
          approval[c] = "approved"
    /\ approval[c] = "approved" => c \notin lapsed
    /\ effects[c] \in {0, 1}
    /\ effects[c] = 1 => call[c] \in {"running", "completed", "failed"} /\ reason[c] # "not_started"
    /\ phase[c] = "claim" =>
          /\ effects[c] = 0
          /\ call[c] \in {"queued", "cancelled", "failed"}
          /\ call[c] = "failed" => reason[c] = "not_started"
    /\ phase[c] \in {"dispatch", "tool", "finish"} =>
          /\ call[c] \in {"running", "failed"}
          /\ reason[c] \in {"none", "uncertain"}
    /\ phase[c] = "dispatch" => effects[c] = 0
    /\ phase[c] = "finish" => outcome[c] \in {"completed", "failed"}

StoriesOK == \A c \in Calls : Story(c)

IInv == TypeOK /\ StoriesOK

LEMMA InitIInv == Init => IInv
BY DEF Init, IInv, TypeOK, StoriesOK, Story, TaskStatuses, CallStatuses, ApprovalStatuses

---------------------------------------------------------------------------
(* Every step keeps the types and the stories *)

\* Nothing about c has changed
Untouched(c) ==
    /\ task'[c] = task[c] /\ call'[c] = call[c] /\ approval'[c] = approval[c]
    /\ reason'[c] = reason[c] /\ (c \in lapsed' <=> c \in lapsed)
    /\ phase'[c] = phase[c] /\ outcome'[c] = outcome[c] /\ effects'[c] = effects[c]

LEMMA UntouchedStory == ASSUME NEW c \in Calls, Story(c), Untouched(c) PROVE Story(c)'
BY DEF Story, Untouched

LEMMA NextType == IInv /\ [Next]_vars => TypeOK'
<1> SUFFICES ASSUME IInv, [Next]_vars
             PROVE  TypeOK'
  OBVIOUS
<1> USE DEF IInv, TypeOK, TaskStatuses, CallStatuses, ApprovalStatuses
<1>1. ASSUME NEW c \in Calls, DecisionStep(c)
      PROVE  TypeOK'
  BY <1>1 DEF DecisionStep, ProposeAllowed, Approve, ProposeSensitive, Deny, Cancel, Lapse,
     Expire, Due, RequestStarts, rows, runs
<1>2. ASSUME NEW c \in Calls, ExecutionStep(c)
      PROVE  TypeOK'
  <2>1. phase[c] = "finish" => outcome[c] \in {"completed", "failed"}
    BY DEF StoriesOK, Story
  <2> QED
    BY <1>2, <2>1 DEF ExecutionStep, Claim, LoseRequest, Dispatch, CancelledAfterClaim,
       ToolReturns, Finish, FinishFails, RequestEnds, rows, runs
<1>3. CASE Expire(Due)
  BY <1>3 DEF Expire, rows, runs
<1>4. ASSUME NEW p \in Planes, Crash(p) \/ Startup(p)
      PROVE  TypeOK'
  BY <1>4 DEF Crash, Startup, rows, runs
<1>5. CASE UNCHANGED vars
  BY <1>5 DEF vars, rows, runs
<1> QED
  BY <1>1, <1>2, <1>3, <1>4, <1>5 DEF Next

LEMMA DecisionStory ==
  ASSUME IInv, NEW c \in Calls, DecisionStep(c), NEW d \in Calls
  PROVE  Story(d)'
<1> USE DEF IInv, TypeOK
<1>0. Story(c) /\ Story(d)
  BY DEF StoriesOK
<1>1. CASE d # c
  <2>1. Untouched(d)
    BY <1>1 DEF DecisionStep, ProposeAllowed, Approve, ProposeSensitive, Deny, Cancel,
       Lapse, Expire, Due, RequestStarts, Untouched, runs
  <2> QED
    BY <1>0, <2>1, UntouchedStory
<1>2. CASE d = c
  <2>1. ASSUME NEW p \in Planes, ProposeAllowed(p, c)
        PROVE  Story(c)'
    BY <1>0, <2>1 DEF ProposeAllowed, RequestStarts, Story
  <2>2. ASSUME NEW p \in Planes, Approve(p, c)
        PROVE  Story(c)'
    BY <1>0, <2>2 DEF Approve, Decidable, RequestStarts, Story
  <2>3. CASE ProposeSensitive(c)
    BY <1>0, <2>3 DEF ProposeSensitive, Story, runs
  <2>4. CASE Deny(c)
    BY <1>0, <2>4 DEF Deny, Decidable, Story, runs
  <2>5. CASE Cancel(c)
    BY <1>0, <2>5 DEF Cancel, CancellableTasks, FencedCalls, Story, runs
  <2>6. CASE Lapse(c)
    BY <1>0, <2>6 DEF Lapse, Story, runs
  <2>7. CASE c \in Due /\ Expire({c})
    BY <1>0, <2>7 DEF Due, Expire, Story, runs
  <2> QED
    BY <1>2, <2>1, <2>2, <2>3, <2>4, <2>5, <2>6, <2>7 DEF DecisionStep
<1> QED
  BY <1>1, <1>2

LEMMA ExecutionStory ==
  ASSUME IInv, NEW c \in Calls, ExecutionStep(c), NEW d \in Calls
  PROVE  Story(d)'
<1> USE DEF IInv, TypeOK
<1>0. Story(c) /\ Story(d)
  BY DEF StoriesOK
<1>1. CASE d # c
  <2>1. Untouched(d)
    BY <1>1 DEF ExecutionStep, Claim, LoseRequest, Dispatch, CancelledAfterClaim,
       ToolReturns, Finish, FinishFails, RequestEnds, Untouched, rows
  <2> QED
    BY <1>0, <2>1, UntouchedStory
<1>2. CASE d = c
  <2>1. CASE Claim(c)
    BY <1>0, <2>1 DEF Claim, Executable, RequestEnds, Story
  <2>2. CASE LoseRequest(c) \/ FinishFails(c)
    BY <1>0, <2>2 DEF LoseRequest, FinishFails, RequestEnds, Story, rows
  <2>3. CASE Dispatch(c)
    BY <1>0, <2>3 DEF Dispatch, Story, rows
  <2>4. CASE CancelledAfterClaim(c)
    BY <1>0, <2>4 DEF CancelledAfterClaim, Story, rows
  <2>5. ASSUME NEW o \in {"completed", "failed"}, ToolReturns(c, o)
        PROVE  Story(c)'
    BY <1>0, <2>5 DEF ToolReturns, Story, rows
  <2>6. CASE Finish(c)
    BY <1>0, <2>6 DEF Finish, Unfinished, RequestEnds, Story
  <2> QED
    BY <1>2, <2>1, <2>2, <2>3, <2>4, <2>5, <2>6 DEF ExecutionStep
<1> QED
  BY <1>1, <1>2

LEMMA PlaneStory ==
  ASSUME IInv, NEW p \in Planes, Crash(p) \/ Startup(p), NEW d \in Calls
  PROVE  Story(d)'
<1> USE DEF IInv, TypeOK
<1>0. Story(d)
  BY DEF StoriesOK
<1>1. CASE Crash(p)
  BY <1>0, <1>1 DEF Crash, Story, rows
<1>2. CASE Startup(p)
  BY <1>0, <1>2 DEF Startup, Interrupted, QueuedBeforeClaim, Story, runs
<1> QED
  BY <1>1, <1>2

LEMMA NextIInv == IInv /\ [Next]_vars => IInv'
<1> SUFFICES ASSUME IInv, [Next]_vars
             PROVE  IInv'
  OBVIOUS
<1>1. ASSUME NEW d \in Calls
      PROVE  Story(d)'
  <2>1. CASE Expire(Due)
    BY <2>1 DEF IInv, TypeOK, StoriesOK, Expire, Due, Story, runs
  <2>2. CASE UNCHANGED vars
    BY <2>2 DEF IInv, StoriesOK, Story, vars, rows, runs
  <2> QED
    BY <2>1, <2>2, DecisionStory, ExecutionStory, PlaneStory DEF Next
<1> QED
  BY <1>1, NextType DEF IInv, StoriesOK

LEMMA AlwaysIInv == Spec => []IInv
BY InitIInv, NextIInv, PTL DEF Spec

---------------------------------------------------------------------------
(* Theorems *)

\* The model is typed, in particular a call is dispatched a natural number of
\* times and every row has a status of its CHECK constraint.
THEOREM TypesKept == Spec => []TypeOK
<1>1. IInv => TypeOK
  BY DEF IInv
<1> QED
  BY <1>1, AlwaysIInv, PTL

\* Call, task and approval agree (decide, _expire_locked, cancel_task,
\* _claim_execution, _finish_once, initialize).
THEOREM RowsTellOneStory == Spec => []RowsAgree
<1>1. IInv => RowsAgree
  BY DEF IInv, TypeOK, StoriesOK, Story, RowsAgree, CallStatuses
<1> QED
  BY <1>1, AlwaysIInv, PTL

\* One consent, one dispatch, whatever crashes and restarts happen
\* (_claim_execution, decide).
THEOREM ConsentIsOneShot == Spec => []OneConsentOneDispatch
<1>1. IInv => OneConsentOneDispatch
  <2> SUFFICES ASSUME IInv, NEW c \in Calls
               PROVE  /\ effects[c] <= 1
                      /\ effects[c] = 1 /\ c \in Sensitive =>
                            approval[c] = "approved" /\ c \notin lapsed
    BY DEF OneConsentOneDispatch
  <2>1. Story(c)
    BY DEF IInv, StoriesOK
  <2>2. effects[c] = 0 \/ effects[c] = 1
    BY <2>1 DEF Story
  <2>3. effects[c] <= 1
    BY <2>2
  <2>4. ASSUME effects[c] = 1, c \in Sensitive
        PROVE  approval[c] = "approved" /\ c \notin lapsed
    BY <2>1, <2>4 DEF Story
  <2> QED
    BY <2>3, <2>4
<1> QED
  BY <1>1, AlwaysIInv, PTL

\* What was refused has not run and will not run (cancel_task, initialize).
THEOREM RefusalHolds == Spec => []RefusedNeverRuns
<1>1. IInv => RefusedNeverRuns
  BY DEF IInv, TypeOK, StoriesOK, Story, RefusedNeverRuns
<1> QED
  BY <1>1, AlwaysIInv, PTL

\* A late outcome does not overwrite what closed the call (_finish_once).
THEOREM VerdictsAreFinal == Spec => FinishedCallFrozen
<1> DEFINE Frozen(c) ==
      call[c] \in {"completed", "failed", "denied", "cancelled"} =>
          call'[c] = call[c] /\ reason'[c] = reason[c] /\ approval'[c] = approval[c]
<1>1. ASSUME IInv, [Next]_vars, NEW d \in Calls
      PROVE  Frozen(d)
  <2>0. Story(d) /\ TypeOK
    BY <1>1 DEF IInv, StoriesOK
  <2>1. ASSUME NEW c \in Calls, DecisionStep(c)
        PROVE  Frozen(d)
    BY <2>0, <2>1 DEF Story, TypeOK, DecisionStep, ProposeAllowed, Approve, ProposeSensitive, Deny,
       Cancel, CancellableTasks, FencedCalls, Decidable, Lapse, Expire, Due
  <2>2. ASSUME NEW c \in Calls, ExecutionStep(c)
        PROVE  Frozen(d)
    BY <2>0, <2>2 DEF Story, TypeOK, ExecutionStep, Claim, Executable, LoseRequest, Dispatch,
       CancelledAfterClaim, ToolReturns, Finish, Unfinished, FinishFails, rows
  <2>3. CASE Expire(Due)
    BY <2>0, <2>3 DEF Story, TypeOK, Expire, Due
  <2>4. ASSUME NEW p \in Planes, Crash(p) \/ Startup(p)
        PROVE  Frozen(d)
    BY <2>0, <2>4 DEF Story, TypeOK, Crash, Startup, Interrupted, QueuedBeforeClaim, rows
  <2>5. CASE UNCHANGED vars
    BY <2>5 DEF vars, rows
  <2> QED
    BY <1>1, <2>1, <2>2, <2>3, <2>4, <2>5 DEF Next
<1>2. IInv /\ [Next]_vars => [\A c \in Calls : Frozen(c)]_vars
  BY <1>1
<1> QED
  BY <1>2, AlwaysIInv, PTL DEF Spec, FinishedCallFrozen

---------------------------------------------------------------------------
(* The ledger keeps its word: ToolCalls implements OneShotConsent *)

\* The verdict on c by the rows of c, case by case
VerdictRead(v, cl, re) ==
    /\ cl \in {"absent", "waiting_permission"} => v = "open"
    /\ cl \in {"queued", "running"} => v = "granted"
    /\ cl \in {"denied", "cancelled"} => v = "refused"
    /\ cl = "completed" => v = "settled"
    /\ cl = "failed" => v = IF re = "uncertain" THEN "uncertain"
                            ELSE IF re = "not_started" THEN "refused" ELSE "settled"

LEMMA ReadVerdict ==
  ASSUME TypeOK, NEW c \in Calls
  PROVE  VerdictRead(Verdicts[c], call[c], reason[c]) /\ Verdicts[c] \in Consent!Verdicts
BY DEF TypeOK, CallStatuses, Verdicts, Verdict, VerdictRead, Consent!Verdicts

LEMMA ReadVerdictNext ==
  ASSUME TypeOK', NEW c \in Calls
  PROVE  VerdictRead(Verdicts'[c], call'[c], reason'[c]) /\ Verdicts'[c] \in Consent!Verdicts
BY DEF TypeOK, CallStatuses, Verdicts, Verdict, VerdictRead, Consent!Verdicts

\* What a step does to the verdict on c and to the tool of c
KeepsWord(c) == Consent!Judged(c) \/ Consent!Reached(c) \/ Consent!Still(c)

\* The rows and the tool of c are as they were
Unread(c) == call'[c] = call[c] /\ reason'[c] = reason[c] /\ effects'[c] = effects[c]

LEMMA UnreadKeepsWord == ASSUME NEW c \in Calls, Unread(c) PROVE KeepsWord(c)
BY DEF Unread, KeepsWord, Consent!Still, Verdicts, Verdict

LEMMA WordByRows ==
  ASSUME IInv, TypeOK', NEW c \in Calls, effects'[c] = effects[c],
         \/ call[c] \in {"absent", "waiting_permission"} /\ call'[c] \in {"queued", "denied", "cancelled"}
         \/ call[c] = "absent" /\ call'[c] = "waiting_permission"
         \/ call[c] = "queued" /\ call'[c] \in {"running", "cancelled"}
         \/ call[c] = "queued" /\ call'[c] = "failed" /\ reason'[c] = "not_started"
         \/ call[c] = "running" /\ call'[c] = "failed" /\ reason'[c] = "uncertain"
         \/ call[c] = "running" /\ call'[c] \in {"completed", "failed"} /\ reason'[c] = "result"
  PROVE  KeepsWord(c)
<1>1. VerdictRead(Verdicts[c], call[c], reason[c])
  BY ReadVerdict DEF IInv
<1>2. VerdictRead(Verdicts'[c], call'[c], reason'[c])
  BY ReadVerdictNext
<1>3. call[c] \in {"absent", "waiting_permission", "queued"} => effects[c] = 0
  BY DEF IInv, StoriesOK, Story
<1> QED
  BY <1>1, <1>2, <1>3 DEF VerdictRead, KeepsWord, Consent!Judged, Consent!Still, Consent!Moves

LEMMA DecisionKeepsWord ==
  ASSUME IInv, TypeOK', NEW c \in Calls, DecisionStep(c), NEW d \in Calls PROVE KeepsWord(d)
<1> USE DEF IInv, TypeOK
<1>0. Story(c)
  BY DEF StoriesOK
<1>1. ASSUME NEW p \in Planes, ProposeAllowed(p, c) PROVE KeepsWord(d)
  <2>1. call[c] = "absent"
    BY <1>0, <1>1 DEF ProposeAllowed, Story, CallStatuses
  <2> QED
    BY <1>1, <2>1, WordByRows, UnreadKeepsWord DEF ProposeAllowed, RequestStarts, Unread
<1>2. CASE ProposeSensitive(c)
  <2>1. call[c] = "absent"
    BY <1>0, <1>2 DEF ProposeSensitive, Story, CallStatuses
  <2> QED
    BY <1>2, <2>1, WordByRows, UnreadKeepsWord DEF ProposeSensitive, Unread, runs
<1>3. ASSUME NEW p \in Planes, Approve(p, c) PROVE KeepsWord(d)
  BY <1>3, WordByRows, UnreadKeepsWord DEF Approve, Decidable, RequestStarts, Unread
<1>4. CASE Deny(c)
  BY <1>4, WordByRows, UnreadKeepsWord DEF Deny, Decidable, Unread, runs
<1>5. CASE Cancel(c)
  BY <1>5, WordByRows, UnreadKeepsWord DEF Cancel, FencedCalls, Unread, runs
<1>6. CASE Lapse(c)
  BY <1>6, UnreadKeepsWord DEF Lapse, Unread, runs
<1>7. CASE c \in Due /\ Expire({c})
  BY <1>7, WordByRows, UnreadKeepsWord DEF Expire, Unread, runs
<1> QED
  BY <1>1, <1>2, <1>3, <1>4, <1>5, <1>6, <1>7 DEF DecisionStep

LEMMA ExecutionKeepsWord ==
  ASSUME IInv, TypeOK', NEW c \in Calls, ExecutionStep(c), NEW d \in Calls PROVE KeepsWord(d)
<1> USE DEF IInv, TypeOK
<1>0. Story(c)
  BY DEF StoriesOK
<1>1. CASE Claim(c)
  BY <1>1, WordByRows, UnreadKeepsWord DEF Claim, Executable, RequestEnds, Unread
<1>2. CASE LoseRequest(c) \/ FinishFails(c) \/ CancelledAfterClaim(c)
  BY <1>2, UnreadKeepsWord DEF LoseRequest, FinishFails, CancelledAfterClaim, RequestEnds, Unread, rows
<1>3. ASSUME NEW o \in {"completed", "failed"}, ToolReturns(c, o) PROVE KeepsWord(d)
  BY <1>3, UnreadKeepsWord DEF ToolReturns, Unread, rows
<1>4. CASE Dispatch(c)
  <2>1. CASE d # c
    BY <1>4, <2>1, UnreadKeepsWord DEF Dispatch, Unread, rows
  <2>2. CASE d = c
    <3>1. /\ call[c] \in {"running", "failed"} /\ reason[c] \in {"none", "uncertain"}
          /\ call[c] = "failed" => reason[c] = "uncertain"
          /\ effects[c] = 0 /\ effects'[c] = 1
      BY <1>0, <1>4 DEF Dispatch, Story
    <3>2. Verdicts[c] \in {"granted", "uncertain"}
      BY <3>1, ReadVerdict DEF VerdictRead
    <3>3. Verdicts'[c] = Verdicts[c]
      BY <1>4 DEF Dispatch, rows, Verdicts, Verdict
    <3> QED
      BY <2>2, <3>1, <3>2, <3>3 DEF KeepsWord, Consent!Reached
  <2> QED
    BY <2>1, <2>2
<1>5. CASE Finish(c)
  <2>1. outcome[c] \in {"completed", "failed"}
    BY <1>0, <1>5 DEF Finish, Story
  <2> QED
    BY <1>5, <2>1, WordByRows, UnreadKeepsWord DEF Finish, Unfinished, RequestEnds, Unread
<1> QED
  BY <1>1, <1>2, <1>3, <1>4, <1>5 DEF ExecutionStep

LEMMA PlaneKeepsWord ==
  ASSUME IInv, TypeOK', NEW p \in Planes, Crash(p) \/ Startup(p), NEW d \in Calls PROVE KeepsWord(d)
<1> USE DEF IInv, TypeOK
<1>1. CASE Crash(p)
  BY <1>1, UnreadKeepsWord DEF Crash, Unread, rows
<1>2. CASE Startup(p)
  BY <1>2, WordByRows, UnreadKeepsWord
  DEF Startup, Interrupted, QueuedBeforeClaim, Unread, runs
<1> QED
  BY <1>1, <1>2

LEMMA StepKeepsWord ==
  ASSUME IInv, TypeOK', [Next]_vars PROVE [Consent!Next]_(Consent!vars)
<1>1. ASSUME NEW d \in Calls PROVE KeepsWord(d)
  <2>1. CASE Expire(Due)
    <3>1. d \in Due => call[d] = "waiting_permission" /\ call'[d] = "cancelled"
      BY <2>1 DEF Expire, Due, IInv, TypeOK, StoriesOK, Story
    <3>2. /\ d \notin Due => call'[d] = call[d]
          /\ effects' = effects /\ reason' = reason
      BY <2>1 DEF Expire, IInv, TypeOK, runs
    <3> QED
      BY <3>1, <3>2, WordByRows, UnreadKeepsWord DEF Unread
  <2>2. CASE UNCHANGED vars
    BY <2>2, UnreadKeepsWord DEF vars, rows, runs, Unread
  <2> QED
    BY <2>1, <2>2, DecisionKeepsWord, ExecutionKeepsWord, PlaneKeepsWord DEF Next
<1>2. Verdicts' \in [Calls -> Consent!Verdicts]
  BY ReadVerdictNext DEF Verdicts
<1>3. effects' \in [Calls -> Nat]
  BY DEF TypeOK
<1> QED
  BY <1>1, <1>2, <1>3 DEF Consent!Next, KeepsWord

\* The ledger of local calls keeps the promise of OneShotConsent across any
\* overlap of decisions, executions, expiries, cancellations and restarts.
THEOREM ImplementsConsent == Spec => ImplementsOneShotConsent
<1>1. Init => Consent!Init
  BY DEF Init, Consent!Init, Verdicts, Verdict
<1>2. IInv /\ IInv' /\ [Next]_vars => [Consent!Next]_(Consent!vars)
  BY StepKeepsWord DEF IInv
<1> QED
  BY <1>1, <1>2, InitIInv, NextIInv, PTL DEF Spec, ImplementsOneShotConsent, Consent!Spec

---------------------------------------------------------------------------
(* What settles a call in the end is always at hand *)

LEMMA NextNothingForgotten == IInv /\ NothingForgotten /\ [Next]_vars => NothingForgotten'
<1> SUFFICES ASSUME IInv, NothingForgotten, [Next]_vars, NEW c \in Calls,
                    call'[c] \in {"queued", "running"}
             PROVE  phase'[c] # "none" \/ c \in orphaned' \/ (Planes \ up)' # {}
  BY DEF NothingForgotten
<1>0. Story(c) /\ TypeOK
  BY DEF IInv, StoriesOK
<1>1. ASSUME NEW d \in Calls, DecisionStep(d)
      PROVE  phase'[c] # "none" \/ c \in orphaned' \/ (Planes \ up)' # {}
  BY <1>0, <1>1 DEF TypeOK, NothingForgotten, DecisionStep, ProposeAllowed, Approve,
     ProposeSensitive, Deny, Cancel, FencedCalls, Lapse, Expire, RequestStarts, runs
<1>2. ASSUME NEW d \in Calls, ExecutionStep(d)
      PROVE  phase'[c] # "none" \/ c \in orphaned' \/ (Planes \ up)' # {}
  <2>1. CASE d # c
    BY <1>0, <1>2, <2>1 DEF TypeOK, NothingForgotten, ExecutionStep, Claim, LoseRequest, Dispatch,
       CancelledAfterClaim, ToolReturns, Finish, FinishFails, RequestEnds, rows
  <2>2. CASE d = c
    <3>1. CASE Claim(c)
      <4>1. Executable(c)
        BY <1>0, <3>1 DEF Claim, Executable, Story, TypeOK
      <4> QED
        BY <1>0, <3>1, <4>1 DEF Claim, TypeOK
    <3>2. CASE Finish(c)
      <4>1. outcome[c] \in {"completed", "failed"} /\ (Unfinished(c) \/ call[c] = "failed")
        BY <1>0, <3>2 DEF Finish, Unfinished, Story, TypeOK
      <4>2. call'[c] \in {"completed", "failed"}
        BY <1>0, <3>2, <4>1 DEF Finish, Unfinished, TypeOK
      <4> QED
        BY <4>2
    <3>3. CASE LoseRequest(c) \/ FinishFails(c)
      BY <3>3 DEF LoseRequest, FinishFails
    <3>4. CASE Dispatch(c) \/ CancelledAfterClaim(c) \/ \E o \in {"completed", "failed"} : ToolReturns(c, o)
      BY <1>0, <3>4 DEF Dispatch, CancelledAfterClaim, ToolReturns, TypeOK
    <3> QED
      BY <1>2, <2>2, <3>1, <3>2, <3>3, <3>4 DEF ExecutionStep
  <2> QED
    BY <2>1, <2>2
<1>3. CASE Expire(Due)
  BY <1>0, <1>3 DEF TypeOK, NothingForgotten, Expire, runs
<1>4. ASSUME NEW p \in Planes, Crash(p)
      PROVE  (Planes \ up)' # {}
  BY <1>4 DEF Crash
<1>5. ASSUME NEW p \in Planes, Startup(p) PROVE FALSE
  BY <1>0, <1>5 DEF Startup, Interrupted, QueuedBeforeClaim, Story, TypeOK
<1>6. CASE UNCHANGED vars
  BY <1>6 DEF NothingForgotten, vars, rows, runs
<1> QED
  BY <1>1, <1>2, <1>3, <1>4, <1>5, <1>6 DEF Next

\* Every open call has somebody who will close it, or is marked as orphaned: the
\* part of EveryCallSettles that does not depend on fairness.
THEOREM OpenCallsAreHeld == Spec => []NothingForgotten
<1>1. Init => NothingForgotten
  BY DEF Init, NothingForgotten
<1> QED
  BY <1>1, InitIInv, NextIInv, NextNothingForgotten, PTL DEF Spec
=============================================================================
