------------------------ MODULE ConsumerLedger_proofs ------------------------
(***************************************************************************)
(* Safety of ConsumerLedger for any number of executions, identities,      *)
(* deliveries and attempts.  The two counting invariants are almost        *)
(* inductive as they stand; ShapeOK adds what they take for granted: only  *)
(* a delivery in processing has a live lease, an idle execution holds      *)
(* nothing, and an execution acknowledges only what its handler returned.  *)
(* The second part shows that the ledger implements BoundedDelivery, which *)
(* knows no consumers, claims or leases, and that no delivery waits for a  *)
(* consumer without a try left.                                            *)
(***************************************************************************)
EXTENDS ConsumerLedger, FiniteSetTheorems, TLAPS

ShapeOK ==
    /\ \A e \in Events : row[e].live => row[e].status = "processing"
    /\ \A c \in Consumers : step[c] = "idle" => \A e \in Events : held[c][e] = 0
    /\ \A c \in Consumers : \A e \in Events :
          step[c] = "acknowledge" /\ Current(c, e) => e \in handled

IInv == TypeOK /\ ShapeOK /\ CheckpointCountsHandled /\ StartsPaidByAttempts

---------------------------------------------------------------------------
(* Operators *)

LEMMA FirstOfSubset == ASSUME NEW S, NEW n PROVE FirstOf(S, n) \subseteq S
BY DEF FirstOf

LEMMA OneCurrent ==
  ASSUME NEW c, NEW e \in Events, NEW f \in Events, Current(c, e), Current(c, f)
  PROVE  e = f
<1>1. e \in Nat /\ f \in Nat
  BY LedgerAssumption DEF Events
<1>2. e <= f /\ f <= e
  BY DEF Current
<1> QED
  BY <1>1, <1>2

LEMMA EndedType ==
  ASSUME NEW r \in Delivery, NEW s \in Statuses
  PROVE  /\ Ended(r, s) \in Delivery
         /\ Ended(r, s).status = s /\ Ended(r, s).attempts = r.attempts
         /\ Ended(r, s).gen = r.gen /\ ~Ended(r, s).live
BY DEF Ended, Delivery

LEMMA ClaimedType ==
  ASSUME NEW r \in Delivery, NEW c \in Consumers, r.attempts < MaxAttempts
  PROVE  /\ Claimed(r, c) \in Delivery
         /\ Claimed(r, c).status = "processing"
         /\ Claimed(r, c).attempts = r.attempts + 1 /\ Claimed(r, c).gen = r.gen + 1
<1>1. PICK i \in Identities : i = IdentityOf[c]
  BY LedgerAssumption
<1>2. PICK a \in 0..MaxAttempts : a = NextAttempt(r) /\ a = r.attempts + 1
  BY LedgerAssumption DEF NextAttempt, Delivery
<1>3. PICK g \in Nat : g = r.gen + 1
  BY DEF Delivery
<1>4. Claimed(r, c) = [r EXCEPT !.status = "processing", !.owner = i, !.live = TRUE,
                                !.attempts = a, !.gen = g]
  BY <1>1, <1>2, <1>3 DEF Claimed
<1>5. "processing" \in Statuses
  BY DEF Statuses
<1> QED
  BY <1>1, <1>2, <1>3, <1>4, <1>5 DEF Delivery

\* executions waiting for a delivery can be counted
LEMMA WaitingFinite ==
  ASSUME NEW e \in Events
  PROVE  /\ IsFiniteSet(Waiting(e)) /\ Cardinality(Waiting(e)) \in Nat
         /\ IsFiniteSet(Waiting(e)') /\ Cardinality(Waiting(e)') \in Nat
<1>1. Waiting(e) \subseteq Consumers /\ Waiting(e)' \subseteq Consumers
  BY DEF Waiting
<1> QED
  BY <1>1, LedgerAssumption, FS_Subset, FS_CardinalityType

LEMMA CompletedFinite ==
  IsFiniteSet(Events) /\ IsFiniteSet(Completed) /\ Cardinality(Completed) \in Nat
<1>1. IsFiniteSet(Events)
  BY LedgerAssumption, FS_Interval DEF Events
<1> QED
  BY <1>1, FS_Subset, FS_CardinalityType DEF Completed

---------------------------------------------------------------------------
(* What keeps each part of the invariant *)

LEMMA CheckpointKept ==
  ASSUME CheckpointCountsHandled, checkpoint' = checkpoint, handled \subseteq handled',
         \A e \in Events : row'[e].status = "completed" <=> row[e].status = "completed"
  PROVE  CheckpointCountsHandled'
<1>1. Completed' = Completed
  BY DEF Completed
<1> QED
  BY <1>1 DEF CheckpointCountsHandled

\* a step that starts no handler and makes nobody wait
LEMMA StartsKept ==
  ASSUME TypeOK, StartsPaidByAttempts, starts' = starts,
         \A e \in Events : /\ row'[e].attempts = row[e].attempts
                           /\ Waiting(e)' \subseteq Waiting(e)
  PROVE  StartsPaidByAttempts'
<1> SUFFICES ASSUME NEW e \in Events
             PROVE  /\ starts'[e] + Cardinality(Waiting(e)') <= row'[e].attempts
                    /\ row'[e].attempts <= MaxAttempts
  BY DEF StartsPaidByAttempts
<1>1. Cardinality(Waiting(e)') <= Cardinality(Waiting(e))
  BY WaitingFinite, FS_Subset
<1>2. starts[e] + Cardinality(Waiting(e)) <= row[e].attempts /\ row[e].attempts <= MaxAttempts
  BY DEF StartsPaidByAttempts
<1>3. starts[e] \in Nat /\ row[e].attempts \in Nat
  BY LedgerAssumption DEF TypeOK, Delivery
<1> QED
  BY <1>1, <1>2, <1>3, WaitingFinite

\* nobody moves
LEMMA SameWaiting ==
  ASSUME UNCHANGED <<held, step>>, NEW e \in Events
  PROVE  Waiting(e)' = Waiting(e)
BY DEF Waiting, Current, Todo

\* a step of c alone that leaves what it holds: c may stop waiting
LEMMA SameHeld ==
  ASSUME TypeOK, UNCHANGED held, NEW c \in Consumers, NEW s \in Steps \ {"start"},
         step' = [step EXCEPT ![c] = s], step[c] # "idle", NEW e \in Events
  PROVE  Waiting(e)' \subseteq Waiting(e)
BY DEF Waiting, Current, Todo, TypeOK

LEMMA AdvanceFacts ==
  ASSUME TypeOK, NEW c \in Consumers, NEW e \in Events, Current(c, e), Advance(c, e)
  PROVE  /\ held' \in [Consumers -> [Events -> Nat]] /\ step' \in [Consumers -> Steps]
         /\ \A b \in Consumers \ {c} : held'[b] = held[b] /\ step'[b] = step[b]
         /\ \A f \in Events : held'[c][f] = IF f = e THEN 0 ELSE held[c][f]
         /\ step'[c] \in {"idle", "start"}
         /\ step'[c] = "idle" => \A f \in Events : held'[c][f] = 0
         /\ \A f \in Events : Waiting(f)' \subseteq Waiting(f)
<1>1. /\ held' \in [Consumers -> [Events -> Nat]] /\ step' \in [Consumers -> Steps]
      /\ \A b \in Consumers \ {c} : held'[b] = held[b] /\ step'[b] = step[b]
      /\ \A f \in Events : held'[c][f] = IF f = e THEN 0 ELSE held[c][f]
      /\ step'[c] \in {"idle", "start"}
      /\ step'[c] = "idle" => \A f \in Events : held'[c][f] = 0
  BY DEF Advance, TypeOK, Steps, Todo
<1>2. ASSUME NEW f \in Events, NEW b \in Waiting(f)' PROVE b \in Waiting(f)
  <2>1. CASE b # c
    BY <1>1, <1>2, <2>1 DEF Waiting, Current, Todo
  <2>2. CASE b = c
    <3>1. held[c][f] # 0 /\ f # e
      BY <1>1, <1>2, <2>2 DEF Waiting
    <3>2. ~Current(c, f)
      BY <3>1, OneCurrent
    <3> QED
      BY <2>2, <3>1, <3>2 DEF Waiting
  <2> QED
    BY <2>1, <2>2
<1> QED
  BY <1>1, <1>2

---------------------------------------------------------------------------
(* The steps *)

LEMMA InitIInv == Init => IInv
<1> SUFFICES ASSUME Init PROVE IInv
  OBVIOUS
<1>1. TypeOK /\ ShapeOK
  BY LedgerAssumption DEF Init, TypeOK, Delivery, Statuses, Steps, ShapeOK
<1>2. CheckpointCountsHandled
  <2>1. Completed = {}
    BY DEF Init, Completed
  <2> QED
    BY <2>1, FS_EmptySet DEF Init, CheckpointCountsHandled
<1>3. StartsPaidByAttempts
  <2>1. \A e \in Events : Waiting(e) = {} /\ starts[e] = 0 /\ row[e].attempts = 0
    BY DEF Init, Waiting
  <2> QED
    BY <2>1, FS_EmptySet, LedgerAssumption DEF StartsPaidByAttempts
<1> QED
  BY <1>1, <1>2, <1>3 DEF IInv

LEMMA SubmitStep ==
  ASSUME IInv, NEW e \in Events, Submit(e)
  PROVE  IInv'
<1> USE DEF IInv, Submit
<1>1. \A f \in Events : /\ row'[f] \in Delivery
                        /\ row'[f].attempts = row[f].attempts /\ row'[f].live = row[f].live
                        /\ row'[f].status = IF f = e THEN "pending" ELSE row[f].status
  BY DEF TypeOK, Delivery, Statuses
<1>2. TypeOK'
  BY <1>1 DEF TypeOK
<1>3. ShapeOK'
  BY <1>1 DEF ShapeOK, Current, Todo
<1>4. StartsPaidByAttempts'
  BY <1>1, SameWaiting, StartsKept
<1>5. CheckpointCountsHandled'
  BY <1>1, CheckpointKept
<1> QED
  BY <1>2, <1>3, <1>4, <1>5

LEMMA LeaseEndsStep ==
  ASSUME IInv, NEW e \in Events, LeaseEnds(e)
  PROVE  IInv'
<1> USE DEF IInv, LeaseEnds
<1>1. \A f \in Events : /\ row'[f] \in Delivery
                        /\ row'[f].attempts = row[f].attempts
                        /\ row'[f].live => row[f].live
                        /\ row'[f].status = row[f].status
  BY DEF TypeOK, Delivery
<1>2. TypeOK'
  BY <1>1 DEF TypeOK
<1>3. ShapeOK'
  BY <1>1 DEF ShapeOK, Current, Todo
<1>4. StartsPaidByAttempts'
  BY <1>1, SameWaiting, StartsKept
<1>5. CheckpointCountsHandled'
  BY <1>1, CheckpointKept
<1> QED
  BY <1>2, <1>3, <1>4, <1>5

LEMMA RecoverStep ==
  ASSUME IInv, RecoverExpired
  PROVE  IInv'
<1> USE DEF IInv, RecoverExpired
<1>1. \A f \in Events : /\ row'[f] \in Delivery
                        /\ row'[f].attempts = row[f].attempts
                        /\ row'[f].live => row[f].live /\ row'[f].status = row[f].status
                        /\ row'[f].status = "completed" <=> row[f].status = "completed"
  BY EndedType DEF TypeOK, Statuses, Exhausted, ExpiredClaim
<1>2. TypeOK'
  BY <1>1 DEF TypeOK
<1>3. ShapeOK'
  BY <1>1 DEF ShapeOK, Current, Todo
<1>4. StartsPaidByAttempts'
  BY <1>1, SameWaiting, StartsKept
<1>5. CheckpointCountsHandled'
  BY <1>1, CheckpointKept
<1> QED
  BY <1>2, <1>3, <1>4, <1>5

LEMMA AbandonStep ==
  ASSUME IInv, NEW c \in Consumers, Abandon(c)
  PROVE  IInv'
<1> USE DEF IInv, Abandon
<1>1. TypeOK'
  BY DEF TypeOK, Steps
<1>2. ShapeOK'
  BY DEF ShapeOK, TypeOK, Current, Todo
<1>3. \A e \in Events : Waiting(e)' \subseteq Waiting(e)
  BY DEF Waiting, Current, Todo, TypeOK
<1>4. StartsPaidByAttempts'
  BY <1>3, StartsKept
<1>5. CheckpointCountsHandled'
  BY CheckpointKept
<1> QED
  BY <1>1, <1>2, <1>4, <1>5

LEMMA HandlerEndStep ==
  ASSUME IInv, NEW c \in Consumers, NEW e \in Events, HandlerReturns(c, e) \/ HandlerRaises(c, e)
  PROVE  IInv'
<1> USE DEF IInv
<1>1. PICK s \in {"acknowledge", "fail"} :
         /\ step' = [step EXCEPT ![c] = s] /\ step[c] = "handler"
         /\ UNCHANGED <<row, held, starts, checkpoint>>
         /\ Current(c, e)
         /\ handled \subseteq handled' /\ handled' \subseteq Events
         /\ s = "acknowledge" => e \in handled'
  BY DEF HandlerReturns, HandlerRaises, TypeOK
<1>2. TypeOK'
  BY <1>1 DEF TypeOK, Steps
<1>3. ShapeOK'
  <2>1. \A e1 \in Events : row'[e1].live => row'[e1].status = "processing"
    BY <1>1 DEF ShapeOK
  <2>2. \A b \in Consumers : step'[b] = "idle" => \A e1 \in Events : held'[b][e1] = 0
    BY <1>1 DEF ShapeOK, TypeOK
  <2>3. ASSUME NEW b \in Consumers, NEW f \in Events, step'[b] = "acknowledge", Current(b, f)'
        PROVE  f \in handled'
    <3>1. Current(b, f)
      BY <2>3, <1>1 DEF Current, Todo
    <3>2. CASE b = c
      BY <3>1, <3>2, <2>3, <1>1, OneCurrent DEF TypeOK
    <3>3. CASE b # c
      BY <3>1, <3>3, <2>3, <1>1 DEF ShapeOK, TypeOK
    <3> QED
      BY <3>2, <3>3
  <2> QED
    BY <2>1, <2>2, <2>3 DEF ShapeOK
<1>4. \A f \in Events : Waiting(f)' \subseteq Waiting(f)
  BY <1>1, SameHeld DEF Steps
<1>5. StartsPaidByAttempts'
  BY <1>1, <1>4, StartsKept
<1>6. CheckpointCountsHandled'
  BY <1>1, CheckpointKept
<1> QED
  BY <1>2, <1>3, <1>5, <1>6

\* the execution that starts the handler stops waiting for it
LEMMA StartStep ==
  ASSUME IInv, NEW c \in Consumers, NEW e \in Events, StartHandler(c, e)
  PROVE  IInv'
<1> USE DEF IInv, StartHandler
<1>1. TypeOK'
  BY DEF TypeOK, Steps
<1>2. ShapeOK'
  BY DEF ShapeOK, TypeOK, Current, Todo
<1>3. CheckpointCountsHandled'
  BY CheckpointKept
<1>4. \A f \in Events : Waiting(f)' \subseteq Waiting(f)
  BY DEF Waiting, Current, Todo, TypeOK
<1>5. c \in Waiting(e) /\ Waiting(e)' \subseteq Waiting(e) \ {c}
  BY DEF Waiting, Current, Todo, TypeOK
<1>6. ASSUME NEW f \in Events
      PROVE  /\ starts'[f] + Cardinality(Waiting(f)') <= row'[f].attempts
             /\ row'[f].attempts <= MaxAttempts
  <2>1. /\ starts[f] \in Nat /\ row[f].attempts \in Nat
        /\ starts[f] + Cardinality(Waiting(f)) <= row[f].attempts
        /\ row[f].attempts <= MaxAttempts
    BY LedgerAssumption DEF StartsPaidByAttempts, TypeOK, Delivery
  <2>2. CASE f = e
    <3>1. IsFiniteSet(Waiting(e) \ {c}) /\ Cardinality(Waiting(e) \ {c}) = Cardinality(Waiting(e)) - 1
      BY <1>5, WaitingFinite, FS_RemoveElement
    <3>2. Cardinality(Waiting(e)') <= Cardinality(Waiting(e)) - 1
      BY <1>5, <3>1, FS_Subset
    <3>3. starts'[e] = starts[e] + 1 /\ row' = row
      BY DEF TypeOK
    <3> QED
      BY <2>1, <2>2, <3>2, <3>3, WaitingFinite
  <2>3. CASE f # e
    <3>1. Cardinality(Waiting(f)') <= Cardinality(Waiting(f))
      BY <1>4, WaitingFinite, FS_Subset
    <3>2. starts'[f] = starts[f] /\ row' = row
      BY <2>3 DEF TypeOK
    <3> QED
      BY <2>1, <3>1, <3>2, WaitingFinite
  <2> QED
    BY <2>2, <2>3
<1> QED
  BY <1>1, <1>2, <1>3, <1>6 DEF StartsPaidByAttempts

\* acknowledge and fail: the row ends under the claim of c, or stays
LEMMA SettleStep ==
  ASSUME IInv, NEW c \in Consumers, NEW e \in Events, Acknowledge(c, e) \/ Fail(c, e)
  PROVE  IInv'
<1> USE DEF IInv
<1>1. PICK s \in Statuses :
         /\ row' = IF ClaimCurrent(c, e) THEN [row EXCEPT ![e] = Ended(@, s)] ELSE row
         /\ s = "completed" => e \in handled
         /\ checkpoint' = IF ClaimCurrent(c, e) /\ s = "completed" THEN checkpoint + 1
                          ELSE checkpoint
  BY DEF Acknowledge, Fail, CheckpointAfter, AfterFailure, Statuses, ShapeOK
<1>2. Current(c, e) /\ Advance(c, e) /\ UNCHANGED <<starts, handled>>
  BY DEF Acknowledge, Fail
<1>0. \A f \in Events :
        row'[f] = IF f = e /\ ClaimCurrent(c, e) THEN Ended(row[f], s) ELSE row[f]
  BY <1>1 DEF TypeOK
<1>9. Ended(row[e], s).status = s
  BY EndedType DEF TypeOK
<1>3. \A f \in Events : /\ row'[f] \in Delivery
                        /\ row'[f].attempts = row[f].attempts
                        /\ row'[f].live => row'[f] = row[f]
  <2>1. \A f \in Events : row[f] \in Delivery
    BY DEF TypeOK
  <2> QED
    BY <1>0, <2>1, EndedType
<1>4. row' \in [Events -> Delivery]
  BY <1>1, <1>3 DEF TypeOK
<1>5. TypeOK'
  BY <1>1, <1>2, <1>4, AdvanceFacts DEF TypeOK
<1>6. ShapeOK'
  <2>1. \A f \in Events : row'[f].live => row'[f].status = "processing"
    BY <1>3 DEF ShapeOK
  <2>2. ASSUME NEW b \in Consumers
        PROVE  /\ step'[b] = "idle" => \A f \in Events : held'[b][f] = 0
               /\ \A f \in Events : step'[b] = "acknowledge" /\ Current(b, f)' => f \in handled'
    <3>1. CASE b = c
      BY <3>1, <1>2, AdvanceFacts
    <3>2. CASE b # c
      BY <3>2, <1>2, AdvanceFacts DEF ShapeOK, Current, Todo
    <3> QED
      BY <3>1, <3>2
  <2> QED
    BY <2>1, <2>2 DEF ShapeOK
<1>7. StartsPaidByAttempts'
  BY <1>2, <1>3, AdvanceFacts, StartsKept
<1>8. CheckpointCountsHandled'
  <2>1. CASE ClaimCurrent(c, e) /\ s = "completed"
    <3>1. Completed' = Completed \cup {e} /\ e \notin Completed
      BY <2>1, <1>0, <1>9 DEF Completed, ClaimCurrent
    <3>2. Cardinality(Completed') = Cardinality(Completed) + 1
      BY <3>1, CompletedFinite, FS_AddElement
    <3> QED
      BY <2>1, <3>1, <3>2, <1>1, <1>2 DEF CheckpointCountsHandled
  <2>2. CASE ~(ClaimCurrent(c, e) /\ s = "completed")
    <3>1. \A f \in Events : row'[f].status = "completed" <=> row[f].status = "completed"
      BY <2>2, <1>0, <1>9 DEF ClaimCurrent
    <3> QED
      BY <2>2, <3>1, <1>1, <1>2, CheckpointKept
  <2> QED
    BY <2>1, <2>2
<1> QED
  BY <1>5, <1>6, <1>7, <1>8

LEMMA ClaimStep ==
  ASSUME IInv, NEW c \in Consumers, Claim(c)
  PROVE  IInv'
<1> DEFINE dead == {e \in Events : Exhausted(e)}
           batch == FirstOf({e \in Events : Claimable(e)}, ClaimLimit)
<1> USE DEF IInv
<1>1. batch \subseteq {e \in Events : Claimable(e)}
  BY FirstOfSubset
<1>2. /\ row' = [e \in Events |->
                   IF e \in dead THEN Ended(row[e], "dead_letter")
                   ELSE IF e \in batch THEN Claimed(row[e], c) ELSE row[e]]
      /\ held' = [held EXCEPT ![c] = [e \in Events |-> IF e \in batch THEN row[e].gen + 1 ELSE 0]]
      /\ step' = [step EXCEPT ![c] = IF batch = {} THEN "idle" ELSE "start"]
      /\ UNCHANGED <<starts, handled, checkpoint>>
  BY DEF Claim
<1> HIDE DEF batch
<1>3. \A e \in Events : row[e] \in Delivery /\ row[e].gen \in Nat /\ row[e].attempts \in Nat
  BY LedgerAssumption DEF TypeOK, Delivery
<1>4. \A e \in Events :
        /\ row'[e] \in Delivery
        /\ row'[e].live => row[e].live \/ row'[e].status = "processing"
        /\ row'[e].live /\ row'[e].status # "processing" => row'[e] = row[e]
        /\ row'[e].status = "completed" <=> row[e].status = "completed"
        /\ row'[e].attempts = IF e \in batch THEN row[e].attempts + 1 ELSE row[e].attempts
  <2> SUFFICES ASSUME NEW e \in Events
               PROVE  /\ row'[e] \in Delivery
                      /\ row'[e].live => row[e].live \/ row'[e].status = "processing"
                      /\ row'[e].live /\ row'[e].status # "processing" => row'[e] = row[e]
                      /\ row'[e].status = "completed" <=> row[e].status = "completed"
                      /\ row'[e].attempts =
                           IF e \in batch THEN row[e].attempts + 1 ELSE row[e].attempts
    OBVIOUS
  <2>1. CASE e \in dead
    <3>1. e \notin batch /\ row[e].status = "processing"
      BY <2>1, <1>1, <1>3, LedgerAssumption DEF Claimable, Exhausted, ExpiredClaim
    <3>2. "dead_letter" \in Statuses /\ row'[e] = Ended(row[e], "dead_letter")
      BY <2>1, <1>2 DEF Statuses
    <3>3. /\ row'[e] \in Delivery /\ ~row'[e].live
          /\ row'[e].status = "dead_letter" /\ row'[e].attempts = row[e].attempts
      BY <3>2, <1>3, EndedType
    <3> QED
      BY <3>1, <3>3
  <2>2. CASE e \notin dead /\ e \in batch
    <3>1. row[e].attempts < MaxAttempts /\ row[e].status \in {"pending", "processing"}
      BY <2>2, <1>1 DEF Claimable, ExpiredClaim
    <3>2. row'[e] = Claimed(row[e], c)
      BY <2>2, <1>2
    <3> QED
      BY <2>2, <3>1, <3>2, <1>3, ClaimedType
  <2>3. CASE e \notin dead /\ e \notin batch
    BY <2>3, <1>2, <1>3
  <2> QED
    BY <2>1, <2>2, <2>3
<1>5. TypeOK'
  <2>1. row' \in [Events -> Delivery]
    BY <1>2, <1>4
  <2>2. held' \in [Consumers -> [Events -> Nat]] /\ step' \in [Consumers -> Steps]
    BY <1>2, <1>3 DEF TypeOK, Steps
  <2> QED
    BY <1>2, <2>1, <2>2 DEF TypeOK
<1>6. ShapeOK'
  <2>1. \A e \in Events : row'[e].live => row'[e].status = "processing"
    BY <1>4 DEF ShapeOK
  <2>2. \A b \in Consumers : step'[b] = "idle" => \A f \in Events : held'[b][f] = 0
    BY <1>2 DEF ShapeOK, TypeOK
  <2>3. \A b \in Consumers : step'[b] = "acknowledge" => step[b] = "acknowledge" /\ held'[b] = held[b]
    BY <1>2 DEF TypeOK
  <2> QED
    BY <1>2, <2>1, <2>2, <2>3 DEF ShapeOK, Current, Todo
<1>7. StartsPaidByAttempts'
  <2> SUFFICES ASSUME NEW e \in Events
               PROVE  /\ starts'[e] + Cardinality(Waiting(e)') <= row'[e].attempts
                      /\ row'[e].attempts <= MaxAttempts
    BY DEF StartsPaidByAttempts
  <2>1. /\ starts[e] \in Nat /\ starts' = starts
        /\ starts[e] + Cardinality(Waiting(e)) <= row[e].attempts
        /\ row'[e].attempts <= MaxAttempts
    BY <1>2, <1>4, LedgerAssumption DEF StartsPaidByAttempts, TypeOK, Delivery
  <2>2. Waiting(e)' \subseteq Waiting(e) \cup (IF e \in batch THEN {c} ELSE {})
    <3>1. ASSUME NEW b \in Consumers \ {c}, b \in Waiting(e)' PROVE b \in Waiting(e)
      BY <3>1, <1>2 DEF Waiting, Current, Todo, TypeOK
    <3>2. c \in Waiting(e)' => e \in batch
      BY <1>2 DEF Waiting, TypeOK
    <3> QED
      BY <3>1, <3>2 DEF Waiting
  <2>3. CASE e \in batch
    <3>1. /\ IsFiniteSet(Waiting(e) \cup {c})
          /\ Cardinality(Waiting(e) \cup {c}) =
               IF c \in Waiting(e) THEN Cardinality(Waiting(e)) ELSE Cardinality(Waiting(e)) + 1
      BY WaitingFinite, FS_AddElement
    <3>2. Cardinality(Waiting(e)') <= Cardinality(Waiting(e) \cup {c})
      BY <2>2, <2>3, <3>1, FS_Subset
    <3> QED
      BY <2>1, <2>3, <3>1, <3>2, <1>3, <1>4, WaitingFinite, FS_CardinalityType
  <2>4. CASE e \notin batch
    <3>1. Cardinality(Waiting(e)') <= Cardinality(Waiting(e))
      BY <2>2, <2>4, WaitingFinite, FS_Subset
    <3> QED
      BY <2>1, <2>4, <3>1, <1>3, <1>4, WaitingFinite
  <2> QED
    BY <2>3, <2>4
<1>8. CheckpointCountsHandled'
  BY <1>2, <1>4, CheckpointKept
<1> QED
  BY <1>5, <1>6, <1>7, <1>8

LEMMA NextIInv == IInv /\ [Next]_vars => IInv'
<1> SUFFICES ASSUME IInv, [Next]_vars PROVE IInv'
  OBVIOUS
<1>1. CASE UNCHANGED vars
  <2>1. TypeOK' /\ ShapeOK'
    BY <1>1 DEF vars, IInv, TypeOK, ShapeOK, Current, Todo
  <2>2. CheckpointCountsHandled' /\ StartsPaidByAttempts'
    BY <1>1, CheckpointKept, SameWaiting, StartsKept DEF vars, IInv
  <2> QED
    BY <2>1, <2>2 DEF IInv
<1>2. ASSUME NEW c \in Consumers, NEW e \in Events, DeliveryStep(c, e) PROVE IInv'
  BY <1>2, StartStep, HandlerEndStep, SettleStep DEF DeliveryStep
<1> QED
  BY <1>1, <1>2, ClaimStep, AbandonStep, SubmitStep, LeaseEndsStep, RecoverStep DEF Next

LEMMA Inductive == Spec => []IInv
BY InitIInv, NextIInv, PTL DEF Spec

---------------------------------------------------------------------------
(* The results *)

\* The model's state keeps its types.
THEOREM TypesKept == Spec => []TypeOK
<1>1. IInv => TypeOK
  BY DEF IInv
<1> QED
  BY <1>1, Inductive, PTL

\* completed_count is the number of completed deliveries, and each of them
\* was completed after its handler returned (acknowledge).
THEOREM CheckpointIsExact == Spec => []CheckpointCountsHandled
<1>1. IInv => CheckpointCountsHandled
  BY DEF IInv
<1> QED
  BY <1>1, Inductive, PTL

\* The attempts counted by claim_batch pay for every handler start, of stale
\* executions too.
THEOREM StartsBounded == Spec => []StartsPaidByAttempts
<1>1. IInv => StartsPaidByAttempts
  BY DEF IInv
<1> QED
  BY <1>1, Inductive, PTL

LEMMA StaleStep ==
  ASSUME IInv, Next, NEW e \in Events, row'[e] # row[e]
  PROVE  /\ row[e].status \notin {"completed", "dead_letter"}
         /\ \A c \in Consumers :
               held[c][e] # 0 /\ held'[c][e] = 0 => held[c][e] = row[e].gen
<1> USE DEF IInv
<1>1. CASE RecoverExpired
  BY <1>1 DEF RecoverExpired, Exhausted, ExpiredClaim
<1>2. ASSUME NEW f \in Events, Submit(f) \/ LeaseEnds(f)
      PROVE  /\ row[e].status \notin {"completed", "dead_letter"}
             /\ held' = held
  <2>1. e = f /\ held' = held
    BY <1>2 DEF Submit, LeaseEnds, TypeOK
  <2> QED
    BY <1>2, <2>1 DEF Submit, LeaseEnds, ShapeOK
<1>3. ASSUME NEW c \in Consumers, Claim(c)
      PROVE  /\ row[e].status \notin {"completed", "dead_letter"}
             /\ \A b \in Consumers : held[b][e] # 0 => held'[b][e] = held[b][e]
  <2>1. Exhausted(e) \/ Claimable(e)
    BY <1>3, FirstOfSubset DEF Claim
  <2>2. held[c][e] = 0 /\ \A b \in Consumers \ {c} : held'[b] = held[b]
    BY <1>3 DEF Claim, ShapeOK, TypeOK
  <2> QED
    BY <2>1, <2>2 DEF Exhausted, ExpiredClaim, Claimable
<1>4. ASSUME NEW c \in Consumers, NEW f \in Events, Acknowledge(c, f) \/ Fail(c, f)
      PROVE  /\ row[e].status \notin {"completed", "dead_letter"}
             /\ \A b \in Consumers :
                   held[b][e] # 0 /\ held'[b][e] = 0 => held[b][e] = row[e].gen
  <2>1. e = f /\ ClaimCurrent(c, e) /\ Advance(c, e)
    BY <1>4 DEF Acknowledge, Fail, TypeOK
  <2>2. \A b \in Consumers \ {c} : held'[b] = held[b]
    BY <2>1 DEF Advance, TypeOK
  <2> QED
    BY <2>1, <2>2 DEF ClaimCurrent
<1>5. ASSUME NEW c \in Consumers, NEW f \in Events,
             StartHandler(c, f) \/ HandlerReturns(c, f) \/ HandlerRaises(c, f)
      PROVE  FALSE
  BY <1>5 DEF StartHandler, HandlerReturns, HandlerRaises
<1>6. ASSUME NEW c \in Consumers, Abandon(c) PROVE FALSE
  BY <1>6 DEF Abandon
<1> QED
  BY <1>1, <1>2, <1>3, <1>4, <1>5, <1>6 DEF Next, DeliveryStep, RecoverExpired

\* A consumer that comes back with an old claim changes nothing, and an ended
\* delivery never changes again (the fences of acknowledge and fail).
THEOREM StaleClaimsAreHarmless == Spec => StaleClaimHarmless
<1>1. IInv /\ [Next]_vars =>
        [\A e \in Events :
          row'[e] # row[e] =>
              /\ row[e].status \notin {"completed", "dead_letter"}
              /\ \A c \in Consumers :
                    held[c][e] # 0 /\ held'[c][e] = 0 => held[c][e] = row[e].gen]_vars
  BY StaleStep
<1> QED
  BY <1>1, Inductive, PTL DEF Spec, StaleClaimHarmless
---------------------------------------------------------------------------
(* Bounded delivery *)

\* the handler that is running has been counted
RunsOK ==
    \A c \in Consumers : \A e \in Events :
        step[c] = "handler" /\ Current(c, e) => starts[e] > 0

LEMMA RunsStep == IInv /\ RunsOK /\ [Next]_vars => RunsOK'
<1> SUFFICES ASSUME IInv, RunsOK, [Next]_vars,
                    NEW c \in Consumers, NEW e \in Events, step'[c] = "handler", Current(c, e)'
             PROVE  starts'[e] > 0
  BY DEF RunsOK
<1> USE DEF IInv
<1>1. starts[e] \in Nat /\ \A b \in Consumers : step[b] \in Steps
  BY DEF TypeOK
<1>2. ASSUME NEW b \in Consumers, NEW f \in Events, StartHandler(b, f) PROVE starts'[e] > 0
  <2>1. CASE b = c
    <3>1. Current(c, f) /\ held' = held
      BY <1>2, <2>1 DEF StartHandler
    <3>2. Current(c, e)
      BY <3>1 DEF Current, Todo
    <3>3. e = f
      BY <3>1, <3>2, OneCurrent
    <3> QED
      BY <1>1, <1>2, <3>3 DEF StartHandler, TypeOK
  <2>2. CASE b # c
    <3>1. step[c] = "handler" /\ Current(c, e)
      BY <1>2, <2>2 DEF StartHandler, TypeOK, Current, Todo
    <3>2. starts[e] > 0
      BY <3>1 DEF RunsOK
    <3> QED
      BY <1>1, <1>2, <3>2 DEF StartHandler, TypeOK
  <2> QED
    BY <2>1, <2>2
<1>3. ASSUME starts' = starts, step[c] = "handler", held'[c] = held[c] PROVE starts'[e] > 0
  BY <1>3 DEF RunsOK, Current, Todo
<1>4. ASSUME NEW b \in Consumers, Claim(b) \/ Abandon(b)
      PROVE  starts' = starts /\ step[c] = "handler" /\ held'[c] = held[c]
  BY <1>4, <1>1 DEF Claim, Abandon, TypeOK
<1>5. ASSUME NEW b \in Consumers, NEW f \in Events, HandlerReturns(b, f) \/ HandlerRaises(b, f)
      PROVE  starts' = starts /\ step[c] = "handler" /\ held'[c] = held[c]
  BY <1>5, <1>1 DEF HandlerReturns, HandlerRaises, TypeOK
<1>6. ASSUME NEW b \in Consumers, NEW f \in Events, Acknowledge(b, f) \/ Fail(b, f)
      PROVE  starts' = starts /\ step[c] = "handler" /\ held'[c] = held[c]
  BY <1>6, <1>1 DEF Acknowledge, Fail, Advance, TypeOK
<1>7. ASSUME RecoverExpired \/ UNCHANGED vars \/ \E f \in Events : Submit(f) \/ LeaseEnds(f)
      PROVE  starts' = starts /\ step[c] = "handler" /\ held'[c] = held[c]
  BY <1>7 DEF RecoverExpired, Submit, LeaseEnds, vars
<1> QED
  BY <1>2, <1>3, <1>4, <1>5, <1>6, <1>7 DEF Next, DeliveryStep

\* the invariant of the refinement
RInv == IInv /\ RunsOK

LEMMA AlwaysRInv == Spec => []RInv
<1>1. Init => RInv
  BY InitIInv DEF Init, RInv, RunsOK
<1>2. RInv /\ [Next]_vars => RInv'
  BY NextIInv, RunsStep DEF RInv
<1> QED
  BY <1>1, <1>2, PTL DEF Spec

\* what a status tells
LEMMA OutcomeIs ==
  ASSUME NEW e \in Events, row[e].status \in Statuses
  PROVE  /\ Outcome(e) \in Delivered!States
         /\ row[e].status = "absent" => Outcome(e) = "absent"
         /\ row[e].status \in {"pending", "processing"} => Outcome(e) = "open"
         /\ row[e].status = "completed" => Outcome(e) = "done"
         /\ row[e].status = "dead_letter" => Outcome(e) = "dead"
BY DEF Outcome, Statuses, Delivered!States

LEMMA OutcomeNext ==
  ASSUME NEW e \in Events, row'[e].status \in Statuses
  PROVE  /\ Outcome(e)' \in Delivered!States
         /\ row'[e].status = "absent" => Outcome(e)' = "absent"
         /\ row'[e].status \in {"pending", "processing"} => Outcome(e)' = "open"
         /\ row'[e].status = "completed" => Outcome(e)' = "done"
         /\ row'[e].status = "dead_letter" => Outcome(e)' = "dead"
BY DEF Outcome, Statuses, Delivered!States

LEMMA RowTypes ==
  ASSUME TypeOK, NEW e \in Events
  PROVE  /\ row[e] \in Delivery /\ row[e].status \in Statuses
         /\ row[e].attempts \in Nat /\ row[e].attempts <= MaxAttempts
         /\ starts[e] \in Nat /\ MaxAttempts \in Nat
BY LedgerAssumption DEF TypeOK, Delivery

LEMMA RowTypesNext ==
  ASSUME TypeOK', NEW e \in Events
  PROVE  row'[e].status \in Statuses /\ row'[e].attempts \in 0..MaxAttempts
BY DEF TypeOK, Delivery

LEMMA MappedTypes ==
  ASSUME TypeOK'
  PROVE  /\ [e \in Events |-> Outcome(e)]' \in [Events -> Delivered!States]
         /\ [e \in Events |-> row[e].attempts]' \in [Events -> 0..MaxAttempts]
         /\ starts' \in [Events -> Nat] /\ handled' \subseteq Events
<1>1. \A e \in Events : Outcome(e)' \in Delivered!States /\ row'[e].attempts \in 0..MaxAttempts
  BY OutcomeNext, RowTypesNext
<1> QED
  BY <1>1 DEF TypeOK

\* nothing a reader of the ledger sees happens to e
Quiet(e) ==
    /\ row'[e].status = row[e].status \/ {row[e].status, row'[e].status} \subseteq {"pending", "processing"}
    /\ row'[e].attempts = row[e].attempts
    /\ starts'[e] = starts[e]
    /\ e \in handled' <=> e \in handled

LEMMA QuietIsStill ==
  ASSUME TypeOK, TypeOK', NEW e \in Events, Quiet(e)
  PROVE  Delivered!Still(e)
<1>1. Outcome(e)' = Outcome(e)
  BY OutcomeIs, OutcomeNext, RowTypes, RowTypesNext DEF Quiet, Statuses
<1> QED
  BY <1>1 DEF Quiet, Delivered!Still, Delivered!Same

\* a transaction that completes nothing
LEMMA WorkStep ==
  ASSUME TypeOK, TypeOK', checkpoint' = checkpoint,
         \A e \in Events :
            \/ Quiet(e)
            \/ Delivered!Submitted(e) \/ Delivered!Tried(e) \/ Delivered!Started(e)
            \/ Delivered!Returned(e) \/ Delivered!Buried(e)
  PROVE  Delivered!Next
<1>1. Delivered!Work
  BY QuietIsStill DEF Delivered!Work
<1> QED
  BY <1>1, MappedTypes DEF Delivered!Next

\* a delivery is given up after its last try only
LEMMA GivenUp ==
  ASSUME TypeOK, NEW e \in Events, row[e].status = "processing", row[e].attempts >= MaxAttempts,
         row'[e] = Ended(row[e], "dead_letter"), starts'[e] = starts[e], handled' = handled
  PROVE  Delivered!Buried(e)
<1>1. "dead_letter" \in Statuses
  BY DEF Statuses
<1>2. row'[e].status = "dead_letter" /\ row'[e].attempts = row[e].attempts
  BY <1>1, RowTypes, EndedType
<1>3. Outcome(e) = "open" /\ Outcome(e)' = "dead" /\ row[e].attempts = MaxAttempts
  BY <1>1, <1>2, RowTypes, OutcomeIs, OutcomeNext
<1> QED
  BY <1>2, <1>3 DEF Delivered!Buried, Delivered!Same

LEMMA ClaimRefines ==
  ASSUME IInv, IInv', NEW c \in Consumers, Claim(c)
  PROVE  Delivered!Next
<1> DEFINE batch == FirstOf({e \in Events : Claimable(e)}, ClaimLimit)
<1>1. TypeOK /\ TypeOK'
  BY DEF IInv
<1>2. /\ row' = [e \in Events |->
                   IF e \in {f \in Events : Exhausted(f)} THEN Ended(row[e], "dead_letter")
                   ELSE IF e \in batch THEN Claimed(row[e], c) ELSE row[e]]
      /\ UNCHANGED <<starts, handled, checkpoint>>
  BY DEF Claim
<1>3. batch \subseteq {e \in Events : Claimable(e)}
  BY FirstOfSubset
<1> HIDE DEF batch
<1>4. ASSUME NEW e \in Events
      PROVE  Quiet(e) \/ Delivered!Buried(e) \/ Delivered!Tried(e)
  <2>1. CASE Exhausted(e)
    BY <2>1, <1>1, <1>2, <1>4, GivenUp DEF Exhausted, ExpiredClaim
  <2>2. CASE ~Exhausted(e) /\ e \in batch
    <3>1. row[e].attempts < MaxAttempts /\ row[e].status \in {"pending", "processing"}
      BY <2>2, <1>3 DEF Claimable, ExpiredClaim
    <3>2. row'[e] = Claimed(row[e], c)
      BY <2>2, <1>2, <1>4
    <3>3. row'[e].status = "processing" /\ row'[e].attempts = row[e].attempts + 1
      BY <3>1, <3>2, <1>1, <1>4, RowTypes, ClaimedType
    <3>4. Outcome(e) = "open" /\ Outcome(e)' = "open"
      BY <3>1, <3>3, <1>1, <1>4, RowTypes, RowTypesNext, OutcomeIs, OutcomeNext
    <3> QED
      BY <3>1, <3>3, <3>4, <1>2, <1>4 DEF Delivered!Tried
  <2>3. CASE ~Exhausted(e) /\ e \notin batch
    BY <2>3, <1>2, <1>4 DEF Quiet
  <2> QED
    BY <2>1, <2>2, <2>3
<1> QED
  BY <1>1, <1>2, <1>4, WorkStep

LEMMA RecoverRefines ==
  ASSUME IInv, IInv', RecoverExpired
  PROVE  Delivered!Next
<1>1. TypeOK /\ TypeOK'
  BY DEF IInv
<1>2. UNCHANGED <<starts, handled, checkpoint>>
  BY DEF RecoverExpired
<1>3. ASSUME NEW e \in Events PROVE Quiet(e) \/ Delivered!Buried(e)
  <2>1. CASE Exhausted(e)
    <3>1. row'[e] = Ended(row[e], "dead_letter")
      BY <2>1, <1>3 DEF RecoverExpired
    <3> QED
      BY <2>1, <3>1, <1>1, <1>2, <1>3, GivenUp DEF Exhausted, ExpiredClaim
  <2>2. CASE ~Exhausted(e) /\ ExpiredClaim(e)
    <3>1. row'[e] = Ended(row[e], "pending") /\ "pending" \in Statuses
      BY <2>2, <1>3 DEF RecoverExpired, Statuses
    <3>2. row'[e].status = "pending" /\ row'[e].attempts = row[e].attempts
      BY <3>1, <1>1, <1>3, RowTypes, EndedType
    <3> QED
      BY <2>2, <3>2, <1>2 DEF ExpiredClaim, Quiet
  <2>3. CASE ~Exhausted(e) /\ ~ExpiredClaim(e)
    BY <2>3, <1>2, <1>3 DEF RecoverExpired, Quiet
  <2> QED
    BY <2>1, <2>2, <2>3
<1> QED
  BY <1>1, <1>2, <1>3, WorkStep

LEMMA SubmitRefines ==
  ASSUME IInv, IInv', NEW e \in Events, Submit(e) \/ LeaseEnds(e)
  PROVE  Delivered!Next
<1>1. TypeOK /\ TypeOK' /\ UNCHANGED <<starts, handled, checkpoint>>
  BY DEF IInv, Submit, LeaseEnds
<1>2. \A f \in Events \ {e} : Quiet(f)
  BY <1>1 DEF TypeOK, Submit, LeaseEnds, Quiet
<1>3. CASE Submit(e)
  <2>1. /\ row[e].status = "absent" /\ row'[e].status = "pending"
        /\ row'[e].attempts = row[e].attempts
    BY <1>1, <1>3, RowTypes DEF Submit, TypeOK, Delivery
  <2>2. Delivered!Submitted(e)
    BY <2>1, <1>1, RowTypes, RowTypesNext, OutcomeIs, OutcomeNext
       DEF Delivered!Submitted, Delivered!Same
  <2> QED
    BY <2>2, <1>1, <1>2, WorkStep
<1>4. CASE LeaseEnds(e)
  <2>1. Quiet(e)
    BY <1>1, <1>4, RowTypes DEF LeaseEnds, TypeOK, Delivery, Quiet
  <2> QED
    BY <2>1, <1>1, <1>2, WorkStep
<1> QED
  BY <1>3, <1>4

\* StartsPaidByAttempts: the execution that starts is one of those waiting
LEMMA StartRefines ==
  ASSUME IInv, IInv', NEW c \in Consumers, NEW e \in Events, StartHandler(c, e)
  PROVE  Delivered!Next
<1>1. TypeOK /\ TypeOK' /\ UNCHANGED <<row, handled, checkpoint>>
  BY DEF IInv, StartHandler
<1>2. starts' = [starts EXCEPT ![e] = @ + 1] /\ starts[e] \in Nat
  BY <1>1 DEF StartHandler, TypeOK
<1>3. \A f \in Events \ {e} : Quiet(f)
  BY <1>1, <1>2 DEF TypeOK, Quiet
<1>4. starts'[e] <= row'[e].attempts
  <2>1. starts'[e] + Cardinality(Waiting(e)') <= row'[e].attempts
    BY DEF IInv, StartsPaidByAttempts
  <2> QED
    BY <2>1, <1>1, WaitingFinite DEF TypeOK, Delivery
<1>5. starts'[e] = starts[e] + 1
  BY <1>1, <1>2 DEF TypeOK
<1>6. starts[e] < row[e].attempts
  BY <1>1, <1>2, <1>4, <1>5, RowTypes
<1>7. Outcome(e)' = Outcome(e)
  BY <1>1 DEF Outcome
<1>8. Delivered!Started(e)
  BY <1>1, <1>5, <1>6, <1>7 DEF Delivered!Started
<1> QED
  BY <1>1, <1>3, <1>8, WorkStep

LEMMA HandlerRefines ==
  ASSUME RInv, IInv', NEW c \in Consumers, NEW e \in Events,
         HandlerReturns(c, e) \/ HandlerRaises(c, e)
  PROVE  Delivered!Next
<1>1. TypeOK /\ TypeOK' /\ UNCHANGED <<row, starts, checkpoint>>
  BY DEF RInv, IInv, HandlerReturns, HandlerRaises
<1>2. CASE HandlerReturns(c, e)
  <2>1. \A f \in Events \ {e} : Quiet(f)
    BY <1>1, <1>2 DEF HandlerReturns, Quiet
  <2>2. starts[e] > 0
    BY <1>2 DEF HandlerReturns, RInv, RunsOK
  <2>3. Outcome(e)' = Outcome(e)
    BY <1>1 DEF Outcome
  <2>4. Delivered!Returned(e)
    BY <1>1, <1>2, <2>2, <2>3 DEF HandlerReturns, Delivered!Returned
  <2> QED
    BY <2>1, <2>4, <1>1, WorkStep
<1>3. CASE HandlerRaises(c, e)
  <2>1. \A f \in Events : Quiet(f)
    BY <1>1, <1>3 DEF HandlerRaises, Quiet
  <2> QED
    BY <2>1, <1>1, WorkStep
<1> QED
  BY <1>2, <1>3

LEMMA AcknowledgeRefines ==
  ASSUME IInv, IInv', NEW c \in Consumers, NEW e \in Events, Acknowledge(c, e)
  PROVE  Delivered!Next
<1>1. /\ TypeOK /\ TypeOK' /\ e \in handled
      /\ UNCHANGED <<starts, handled>>
  BY DEF IInv, Acknowledge, ShapeOK
<1>2. CASE ClaimCurrent(c, e)
  <2>1. row' = [row EXCEPT ![e] = Ended(@, "completed")] /\ checkpoint' = checkpoint + 1
    BY <1>2 DEF Acknowledge, CheckpointAfter
  <2>2. row'[e] = Ended(row[e], "completed") /\ "completed" \in Statuses
    BY <2>1, <1>1 DEF TypeOK, Statuses
  <2>3. row'[e].status = "completed" /\ row'[e].attempts = row[e].attempts
    BY <2>2, <1>1, RowTypes, EndedType
  <2>4. Outcome(e) = "open" /\ Outcome(e)' = "done"
    BY <2>3, <1>1, <1>2, RowTypes, RowTypesNext, OutcomeIs, OutcomeNext DEF ClaimCurrent
  <2>5. Delivered!Completed(e)
    BY <1>1, <2>3, <2>4 DEF Delivered!Completed, Delivered!Same
  <2>6. \A f \in Events \ {e} : Delivered!Still(f)
    BY <1>1, <2>1, QuietIsStill DEF Quiet, TypeOK
  <2>7. Delivered!Complete(e)
    BY <2>1, <2>5, <2>6 DEF Delivered!Complete
  <2> QED
    BY <2>7, <1>1, MappedTypes DEF Delivered!Next
<1>3. CASE ~ClaimCurrent(c, e)
  <2>1. row' = row /\ checkpoint' = checkpoint
    BY <1>3 DEF Acknowledge, CheckpointAfter
  <2>2. \A f \in Events : Quiet(f)
    BY <2>1, <1>1 DEF Quiet
  <2> QED
    BY <2>1, <2>2, <1>1, WorkStep
<1> QED
  BY <1>2, <1>3

LEMMA FailRefines ==
  ASSUME IInv, IInv', NEW c \in Consumers, NEW e \in Events, Fail(c, e)
  PROVE  Delivered!Next
<1>1. TypeOK /\ TypeOK' /\ UNCHANGED <<starts, handled, checkpoint>>
  BY DEF IInv, Fail
<1>2. \A f \in Events \ {e} : Quiet(f)
  BY <1>1 DEF Fail, TypeOK, Quiet
<1>3. CASE ~ClaimCurrent(c, e)
  BY <1>1, <1>2, <1>3, WorkStep DEF Fail, Quiet
<1>4. CASE ClaimCurrent(c, e)
  <2>1. row[e].status = "processing" /\ row'[e] = Ended(row[e], AfterFailure(row[e]))
    BY <1>1, <1>4 DEF Fail, ClaimCurrent, TypeOK
  <2>2. CASE row[e].attempts >= MaxAttempts
    <3>1. Delivered!Buried(e)
      BY <2>1, <2>2, <1>1, GivenUp DEF AfterFailure
    <3> QED
      BY <3>1, <1>1, <1>2, WorkStep
  <2>3. CASE ~(row[e].attempts >= MaxAttempts)
    <3>1. row'[e] = Ended(row[e], "pending") /\ "pending" \in Statuses
      BY <2>1, <2>3 DEF AfterFailure, Statuses
    <3>2. row'[e].status = "pending" /\ row'[e].attempts = row[e].attempts
      BY <3>1, <1>1, RowTypes, EndedType
    <3>3. Quiet(e)
      BY <2>1, <3>2, <1>1 DEF Quiet
    <3> QED
      BY <3>3, <1>1, <1>2, WorkStep
  <2> QED
    BY <2>2, <2>3
<1> QED
  BY <1>3, <1>4

LEMMA AbandonRefines ==
  ASSUME IInv, IInv', NEW c \in Consumers, Abandon(c)
  PROVE  Delivered!Next
BY WorkStep DEF IInv, Abandon, Quiet

LEMMA InitRefines == Init => Delivered!Init
<1> SUFFICES ASSUME Init PROVE Delivered!Init
  OBVIOUS
<1>1. \A e \in Events : row[e].status = "absent" /\ row[e].attempts = 0 /\ Outcome(e) = "absent"
  BY DEF Init, Outcome
<1> QED
  BY <1>1 DEF Init, Delivered!Init

\* The ledger keeps what its documentation promises about a delivery: bounded
\* tries that pay for every handler run, completion only after the handler
\* returned and in step with the checkpoint, burial only after the last try.
THEOREM ImplementsDelivery == Spec => ImplementsBoundedDelivery
<1>1. RInv /\ RInv' /\ [Next]_vars => [Delivered!Next]_(Delivered!vars)
  <2> SUFFICES ASSUME RInv, RInv', [Next]_vars PROVE [Delivered!Next]_(Delivered!vars)
    OBVIOUS
  <2>1. IInv /\ IInv'
    BY DEF RInv
  <2>2. CASE UNCHANGED vars
    BY <2>2 DEF vars, Delivered!vars, Outcome
  <2>3. ASSUME NEW c \in Consumers, NEW e \in Events, DeliveryStep(c, e) PROVE Delivered!Next
    BY <2>1, <2>3, StartRefines, HandlerRefines, AcknowledgeRefines, FailRefines DEF DeliveryStep
  <2> QED
    BY <2>1, <2>2, <2>3, ClaimRefines, AbandonRefines, SubmitRefines, RecoverRefines DEF Next
<1> QED
  BY <1>1, AlwaysRInv, InitRefines, PTL DEF Spec, ImplementsBoundedDelivery, Delivered!Spec

---------------------------------------------------------------------------
(* No delivery strands *)

\* nor is one submitted without a try
TryLeft ==
    \A e \in Events : row[e].status \in {"absent", "pending"} => row[e].attempts < MaxAttempts

LEMMA TryLeftStep ==
  ASSUME IInv, TryLeft, Next
  PROVE  TryLeft'
<1> SUFFICES ASSUME NEW e \in Events, row'[e].status \in {"absent", "pending"}
             PROVE  row'[e].attempts < MaxAttempts
  BY DEF TryLeft
<1>1. /\ row[e].status \in {"absent", "pending"} => row[e].attempts < MaxAttempts
      /\ row[e] \in Delivery /\ TypeOK /\ MaxAttempts \in Nat /\ row[e].attempts \in Nat
  BY LedgerAssumption DEF TryLeft, IInv, TypeOK, Delivery
<1>2. CASE row'[e] = row[e]
  BY <1>1, <1>2
<1>3. CASE RecoverExpired /\ row'[e] # row[e]
  <2>1. /\ row'[e] = Ended(row[e], IF Exhausted(e) THEN "dead_letter" ELSE "pending")
        /\ row[e].status = "processing" /\ (Exhausted(e) <=> row[e].attempts >= MaxAttempts)
    BY <1>3 DEF RecoverExpired, Exhausted, ExpiredClaim
  <2>2. {"dead_letter", "pending"} \subseteq Statuses
    BY DEF Statuses
  <2> QED
    BY <1>1, <2>1, <2>2, EndedType
<1>4. ASSUME NEW f \in Events, Submit(f) \/ LeaseEnds(f), row'[e] # row[e]
      PROVE  row'[e].attempts < MaxAttempts
  <2>1. e = f
    BY <1>1, <1>4 DEF Submit, LeaseEnds, TypeOK
  <2>2. CASE LeaseEnds(e)
    BY <1>1, <2>2 DEF LeaseEnds, TypeOK, Delivery
  <2>3. CASE Submit(e)
    BY <1>1, <2>3 DEF Submit, TypeOK, Delivery
  <2> QED
    BY <1>4, <2>1, <2>2, <2>3
<1>5. ASSUME NEW c \in Consumers, Claim(c), row'[e] # row[e]
      PROVE  FALSE
  <2>1. \/ Exhausted(e) /\ row'[e] = Ended(row[e], "dead_letter")
        \/ Claimable(e) /\ row'[e] = Claimed(row[e], c)
    BY <1>5, FirstOfSubset DEF Claim
  <2>2. "dead_letter" \in Statuses
    BY DEF Statuses
  <2> QED
    BY <1>1, <2>1, <2>2, EndedType, ClaimedType DEF Claimable
<1>6. ASSUME NEW c \in Consumers, NEW f \in Events, Acknowledge(c, f) \/ Fail(c, f), row'[e] # row[e]
      PROVE  row'[e].attempts < MaxAttempts
  <2>1. PICK s \in {"completed", AfterFailure(row[e])} : row'[e] = Ended(row[e], s)
    BY <1>1, <1>6 DEF Acknowledge, Fail, TypeOK
  <2>2. {"completed", "dead_letter", "pending"} \subseteq Statuses
    BY DEF Statuses
  <2>3. s \in Statuses /\ (s = "pending" => row[e].attempts < MaxAttempts) /\ s # "absent"
    BY <1>1, <2>1, <2>2 DEF AfterFailure
  <2> QED
    BY <1>1, <2>1, <2>3, EndedType
<1>7. ASSUME NEW c \in Consumers, NEW f \in Events,
             \/ StartHandler(c, f) \/ HandlerReturns(c, f) \/ HandlerRaises(c, f) \/ Abandon(c)
      PROVE  row' = row
  BY <1>7 DEF StartHandler, HandlerReturns, HandlerRaises, Abandon
<1> QED
  BY <1>2, <1>3, <1>4, <1>5, <1>6, <1>7 DEF Next, DeliveryStep

\* A pending delivery can be claimed: a failure, an expired claim or a sweep
\* puts a delivery back only while it has a try left.  It is the safety core
\* of EveryDeliveryEnds, which TLC checks.
THEOREM PendingHasTry == Spec => []NoStrandedDelivery
<1>1. Init => TryLeft
  BY LedgerAssumption DEF Init, TryLeft
<1>2. IInv /\ TryLeft /\ [Next]_vars => TryLeft'
  <2> SUFFICES ASSUME IInv, TryLeft, [Next]_vars PROVE TryLeft'
    OBVIOUS
  <2>1. CASE UNCHANGED vars
    BY <2>1 DEF vars, TryLeft
  <2> QED
    BY <2>1, TryLeftStep
<1>3. TryLeft => NoStrandedDelivery
  BY DEF TryLeft, NoStrandedDelivery
<1> QED
  BY <1>1, <1>2, <1>3, Inductive, PTL DEF Spec
=============================================================================
