---------------------------- MODULE Outbox_proofs ----------------------------
(***************************************************************************)
(* Safety of Outbox for any number of drains, publishers and events, and   *)
(* its refinement of EventChannel.  The argument: every claim increments   *)
(* the generation of its row, so two drains never hold the same generation *)
(* of a row (GenerationsOK), and a drain confirms only what it has put on  *)
(* the board (BoardOK), which counts a second copy of an event only when   *)
(* its dedupe key had been forgotten (KeysOK).                             *)
(***************************************************************************)
EXTENDS Outbox, TLAPS

GenerationsOK ==
    \A e \in Events : \A d \in Drains : held[d][e] # 0 =>
        /\ held[d][e] <= row[e].gen
        /\ row[e].status # "absent"
        /\ \A c \in Drains : held[c][e] = held[d][e] => c = d

KeysOK ==
    \A e \in Events :
        /\ copies[e] <= forgets[e] + (IF e \in remembered THEN 1 ELSE 0)
        /\ e \in remembered => copies[e] > 0

BoardOK ==
    /\ \A e \in wire : row[e].status # "absent"
    /\ \A d \in Drains : \A e \in Events :
          step[d] = "mark" /\ Current(d, e) => copies[e] > 0

IInv == TypeOK /\ GenerationsOK /\ KeysOK /\ BoardOK

LEMMA InitIInv == Init => IInv
BY OutboxAssumption
DEF Init, IInv, TypeOK, GenerationsOK, KeysOK, BoardOK, NoRow, Row, RowStates, Steps

---------------------------------------------------------------------------
(* Operators *)

LEMMA FirstOfSubset == ASSUME NEW S, NEW n PROVE FirstOf(S, n) \subseteq S
BY DEF FirstOf

LEMMA OneCurrent ==
  ASSUME NEW d, NEW e \in Events, NEW f \in Events, Current(d, e), Current(d, f)
  PROVE  e = f
<1>1. e \in Nat /\ f \in Nat
  BY OutboxAssumption DEF Events
<1>2. e <= f /\ f <= e
  BY DEF Current
<1> QED
  BY <1>1, <1>2

LEMMA FreedRow ==
  ASSUME NEW r \in Row
  PROVE  /\ Freed(r) \in Row
         /\ Freed(r).status = r.status /\ Freed(r).gen = r.gen
BY OutboxAssumption DEF Row, Freed

\* the rows a claim takes: their status stays, their generation is new
ClaimedRow(r, d) ==
    [r EXCEPT !.owner = PublisherOf[d], !.live = TRUE, !.gen = NextGeneration(r)]

LEMMA ClaimedRowType ==
  ASSUME NEW r \in Row, NEW d \in Drains
  PROVE  /\ ClaimedRow(r, d) \in Row
         /\ ClaimedRow(r, d).status = r.status /\ ClaimedRow(r, d).gen = r.gen + 1
<1>1. PublisherOf[d] \in Publishers /\ r.gen \in Nat
  BY OutboxAssumption DEF Row
<1>2. PICK p : p = PublisherOf[d]
  OBVIOUS
<1>3. PICK g \in Nat : g = NextGeneration(r) /\ g = r.gen + 1
  BY <1>1 DEF NextGeneration
<1>4. ClaimedRow(r, d) = [r EXCEPT !.owner = p, !.live = TRUE, !.gen = g]
  BY <1>2, <1>3 DEF ClaimedRow
<1> QED
  BY <1>1, <1>2, <1>3, <1>4 DEF Row

\* what the board does with a publication
LEMMA AcceptCopies ==
  ASSUME TypeOK, KeysOK, NEW e \in Events, Accept(e)
  PROVE  /\ copies' \in [Events -> Nat] /\ remembered' \subseteq Events
         /\ forgets' = forgets
         /\ KeysOK' /\ copies'[e] > 0
         /\ \A f \in Events : copies'[f] >= copies[f]
         /\ \A f \in Events \ {e} : copies'[f] = copies[f]
         /\ copies' = copies \/ copies' = [copies EXCEPT ![e] = @ + 1]
<1> USE DEF TypeOK, Accept, KnownKey
<1>1. /\ copies' \in [Events -> Nat] /\ remembered' \subseteq Events /\ forgets' = forgets
      /\ copies' = copies \/ copies' = [copies EXCEPT ![e] = @ + 1]
  <2>1. CASE e \in remembered
    BY <2>1
  <2>2. CASE e \notin remembered
    BY <2>2
  <2> QED
    BY <2>1, <2>2
<1>4. /\ \A f \in Events \ {e} : copies'[f] = copies[f]
      /\ \A f \in Events : copies'[f] >= copies[f]
  BY <1>1
<1>2. copies'[e] > 0
  BY DEF KeysOK
<1>3. ASSUME NEW f \in Events
      PROVE  /\ copies'[f] <= forgets'[f] + (IF f \in remembered' THEN 1 ELSE 0)
             /\ f \in remembered' => copies'[f] > 0
  <2>1. CASE f = e
    BY <2>1, <1>2 DEF KeysOK
  <2>2. CASE f # e
    BY <2>2 DEF KeysOK
  <2> QED
    BY <2>1, <2>2
<1> QED
  BY <1>1, <1>2, <1>3, <1>4 DEF KeysOK

LEMMA AdvanceHeld ==
  ASSUME TypeOK, NEW d \in Drains, NEW e \in Events, NEW next \in Steps \ {"mark"},
         Advance(d, e, next)
  PROVE  /\ held' \in [Drains -> [Events -> Nat]] /\ step' \in [Drains -> Steps]
         /\ \A c \in Drains : \A f \in Events :
               held'[c][f] = IF c = d /\ f = e THEN 0 ELSE held[c][f]
         /\ \A c \in Drains : step'[c] = "mark" => step[c] = "mark" /\ held'[c] = held[c]
BY DEF Advance, TypeOK, Steps

---------------------------------------------------------------------------
(* What keeps each part of the invariant *)

LEMMA GenerationsKept ==
  ASSUME TypeOK, GenerationsOK,
         \A f \in Events : /\ row'[f].gen = row[f].gen
                           /\ row[f].status # "absent" => row'[f].status # "absent",
         \A c \in Drains : \A f \in Events : held'[c][f] \in {0, held[c][f]}
  PROVE  GenerationsOK'
BY DEF GenerationsOK

LEMMA BoardKept ==
  ASSUME TypeOK, BoardOK, copies' \in [Events -> Nat],
         \A f \in Events : copies'[f] >= copies[f],
         \A f \in Events : row[f].status # "absent" => row'[f].status # "absent",
         wire' \subseteq wire,
         \A c \in Drains : step'[c] = "mark" => step[c] = "mark" /\ held'[c] = held[c]
  PROVE  BoardOK'
<1>1. \A f \in wire' : row'[f].status # "absent"
  BY DEF BoardOK, TypeOK
<1>2. ASSUME NEW c \in Drains, NEW f \in Events, step'[c] = "mark", Current(c, f)'
      PROVE  copies'[f] > 0
  <2>1. step[c] = "mark" /\ held'[c] = held[c]
    BY <1>2
  <2>2. Current(c, f)
    BY <1>2, <2>1 DEF Current, Todo
  <2>3. copies[f] > 0 /\ copies'[f] >= copies[f] /\ copies[f] \in Nat /\ copies'[f] \in Nat
    BY <2>1, <2>2 DEF BoardOK, TypeOK
  <2> QED
    BY <2>3
<1> QED
  BY <1>1, <1>2 DEF BoardOK

LEMMA KeysKept ==
  ASSUME KeysOK, UNCHANGED <<copies, remembered, forgets>>
  PROVE  KeysOK'
BY DEF KeysOK

---------------------------------------------------------------------------
(* The steps *)

LEMMA EnqueueStep ==
  ASSUME IInv, NEW e \in Events, Enqueue(e)
  PROVE  IInv'
<1> USE DEF IInv, Enqueue
<1>1. row' \in [Events -> Row]
  BY DEF TypeOK, Row, RowStates
<1>2. \A f \in Events : row'[f].gen = row[f].gen /\ (row[f].status # "absent" => row'[f].status # "absent")
  BY DEF TypeOK, Row
<1>3. TypeOK'
  BY <1>1 DEF TypeOK
<1>4. GenerationsOK'
  BY <1>2, GenerationsKept
<1>5. BoardOK'
  BY <1>2, BoardKept DEF TypeOK
<1> QED
  BY <1>3, <1>4, <1>5, KeysKept

LEMMA ClaimStep ==
  ASSUME IInv, NEW d \in Drains, Claim(d)
  PROVE  IInv'
<1> DEFINE batch == FirstOf({e \in Events : Claimable(e)}, DrainLimit)
<1> USE DEF IInv
<1>1. batch \subseteq {e \in Events : Claimable(e)}
  BY FirstOfSubset
<1>2. /\ row' = [e \in Events |-> IF e \in batch THEN ClaimedRow(row[e], d) ELSE row[e]]
      /\ held' = [held EXCEPT ![d] = [e \in Events |-> IF e \in batch THEN row[e].gen + 1 ELSE 0]]
      /\ step' = [step EXCEPT ![d] = "publish"]
      /\ UNCHANGED <<copies, remembered, forgets, wire, faults>>
  BY DEF Claim, ClaimedRow, NextGeneration
<1> HIDE DEF batch
<1>3. \A e \in Events : row[e] \in Row /\ row[e].gen \in Nat
  BY DEF TypeOK, Row
<1>4. \A e \in Events : /\ row'[e] \in Row
                        /\ row'[e].status = row[e].status
                        /\ row'[e].gen = IF e \in batch THEN row[e].gen + 1 ELSE row[e].gen
  BY <1>2, <1>3, ClaimedRowType
<1>5. TypeOK'
  <2>1. row' \in [Events -> Row]
    BY <1>2, <1>4
  <2>2. held' \in [Drains -> [Events -> Nat]] /\ step' \in [Drains -> Steps]
    BY <1>2, <1>3 DEF TypeOK, Steps
  <2> QED
    BY <1>2, <2>1, <2>2 DEF TypeOK
<1>6. \A c \in Drains : \A e \in Events :
        held'[c][e] = IF c = d THEN (IF e \in batch THEN row[e].gen + 1 ELSE 0) ELSE held[c][e]
  BY <1>2 DEF TypeOK
<1>7. GenerationsOK'
  <2> SUFFICES ASSUME NEW e \in Events, NEW c \in Drains, held'[c][e] # 0
               PROVE  /\ held'[c][e] <= row'[e].gen
                      /\ row'[e].status # "absent"
                      /\ \A b \in Drains : held'[b][e] = held'[c][e] => b = c
    BY DEF GenerationsOK
  <2>1. e \in batch => row[e].status # "absent"
    BY <1>1 DEF Claimable
  <2>2. \A b \in Drains : held[b][e] \in Nat /\ (held[b][e] # 0 => held[b][e] <= row[e].gen)
    BY DEF GenerationsOK, TypeOK
  <2>3. CASE c = d
    BY <2>1, <2>2, <2>3, <1>3, <1>4, <1>6
  <2>4. CASE c # d
    BY <2>1, <2>2, <2>4, <1>3, <1>4, <1>6 DEF GenerationsOK
  <2> QED
    BY <2>3, <2>4
<1>8. BoardOK'
  <2>1. \A c \in Drains : step'[c] = "mark" => step[c] = "mark" /\ held'[c] = held[c]
    BY <1>2 DEF TypeOK
  <2> QED
    BY <1>2, <1>4, <2>1, BoardKept DEF TypeOK
<1> QED
  BY <1>2, <1>5, <1>7, <1>8, KeysKept

\* a step of drain d on its current event that leaves the rows and its claims
LEMMA PublicationStep ==
  ASSUME IInv, NEW d \in Drains, NEW e \in Events,
         Publish(d, e) \/ BoardUnavailable(d, e) \/ PublicationError(d, e)
  PROVE  IInv'
<1> USE DEF IInv
<1>1. /\ UNCHANGED <<row, held>>
      /\ faults' \in 0..MaxFaults
      /\ held[d][e] # 0
      /\ Current(d, e)
      /\ \/ Accept(e)
         \/ UNCHANGED <<copies, remembered, forgets>>
      /\ wire' \subseteq wire \cup {e}
  BY OutboxAssumption DEF Publish, BoardUnavailable, PublicationError, Fault, Current, Todo, TypeOK
<1>2. /\ step' \in [Drains -> Steps]
      /\ \A c \in Drains : c # d => step'[c] = step[c]
      /\ step'[d] = "mark" => Accept(e)
  BY DEF Publish, BoardUnavailable, PublicationError, AfterNoAnswer, TypeOK, Steps
<1>3. /\ copies' \in [Events -> Nat] /\ remembered' \subseteq Events
      /\ forgets' = forgets
      /\ KeysOK'
      /\ \A f \in Events : copies'[f] >= copies[f]
      /\ Accept(e) => copies'[e] > 0
  <2>1. CASE Accept(e)
    BY <2>1, AcceptCopies
  <2>2. CASE UNCHANGED <<copies, remembered, forgets>> /\ ~Accept(e)
    BY <2>2, KeysKept DEF TypeOK
  <2> QED
    BY <1>1, <2>1, <2>2
<1>4. row[e].status # "absent"
  BY <1>1 DEF GenerationsOK
<1>5. TypeOK'
  BY <1>1, <1>2, <1>3 DEF TypeOK
<1>6. GenerationsOK'
  BY <1>1, GenerationsKept
<1>7. BoardOK'
  <2>1. \A f \in wire' : row'[f].status # "absent"
    BY <1>1, <1>4 DEF BoardOK
  <2>2. ASSUME NEW c \in Drains, NEW f \in Events, step'[c] = "mark", Current(c, f)'
        PROVE  copies'[f] > 0
    <3>1. Current(c, f)
      BY <2>2, <1>1 DEF Current, Todo
    <3>2. CASE c = d
      BY <3>1, <3>2, <2>2, <1>1, <1>2, <1>3, OneCurrent
    <3>3. CASE c # d
      <4>1. copies[f] > 0 /\ copies[f] \in Nat /\ copies'[f] \in Nat /\ copies'[f] >= copies[f]
        BY <3>1, <3>3, <2>2, <1>2, <1>3 DEF BoardOK, TypeOK
      <4> QED
        BY <4>1
    <3> QED
      BY <3>2, <3>3
  <2> QED
    BY <2>1, <2>2 DEF BoardOK
<1> QED
  BY <1>3, <1>5, <1>6, <1>7

LEMMA SettleStep ==
  ASSUME IInv, NEW d \in Drains, NEW e \in Events, MarkPublished(d, e) \/ Release(d, e)
  PROVE  IInv'
<1> USE DEF IInv
<1>1. /\ UNCHANGED <<copies, remembered, forgets, wire, faults>>
      /\ \E next \in Steps \ {"mark"} : Advance(d, e, next)
      /\ row' \in {row, [row EXCEPT ![e] = Freed(@)],
                   [row EXCEPT ![e] = [Freed(@) EXCEPT !.status = "published"]]}
  BY DEF MarkPublished, Release, Steps
<1>2. /\ held' \in [Drains -> [Events -> Nat]] /\ step' \in [Drains -> Steps]
      /\ \A c \in Drains : \A f \in Events :
            held'[c][f] = IF c = d /\ f = e THEN 0 ELSE held[c][f]
      /\ \A c \in Drains : step'[c] = "mark" => step[c] = "mark" /\ held'[c] = held[c]
  BY <1>1, AdvanceHeld
<1>3. /\ row' \in [Events -> Row]
      /\ \A f \in Events : row'[f].gen = row[f].gen /\ (row[f].status # "absent" => row'[f].status # "absent")
  <2>1. row[e] \in Row /\ Freed(row[e]) \in Row
        /\ Freed(row[e]).status = row[e].status /\ Freed(row[e]).gen = row[e].gen
    BY FreedRow DEF TypeOK
  <2>2. [Freed(row[e]) EXCEPT !.status = "published"] \in Row
        /\ [Freed(row[e]) EXCEPT !.status = "published"].gen = row[e].gen
        /\ [Freed(row[e]) EXCEPT !.status = "published"].status = "published"
    BY <2>1 DEF Row, RowStates
  <2> QED
    BY <1>1, <2>1, <2>2 DEF TypeOK
<1>4. TypeOK'
  BY <1>1, <1>2, <1>3 DEF TypeOK
<1>5. GenerationsOK'
  BY <1>2, <1>3, GenerationsKept
<1>6. BoardOK'
  BY <1>1, <1>2, <1>3, BoardKept DEF TypeOK
<1> QED
  BY <1>1, <1>4, <1>5, <1>6, KeysKept

LEMMA AbandonStep ==
  ASSUME IInv, NEW d \in Drains, Abandon(d)
  PROVE  IInv'
<1> USE DEF IInv
<1>1. /\ TypeOK'
      /\ \A c \in Drains : \A f \in Events : held'[c][f] \in {0, held[c][f]}
      /\ \A c \in Drains : step'[c] = "mark" => step[c] = "mark" /\ held'[c] = held[c]
      /\ UNCHANGED <<row, copies, remembered, forgets, wire>>
  BY OutboxAssumption DEF Abandon, Fault, TypeOK, Steps
<1> QED
  BY <1>1, GenerationsKept, BoardKept, KeysKept DEF TypeOK

LEMMA RecoverStep ==
  ASSUME IInv, RecoverExpired
  PROVE  IInv'
<1> USE DEF IInv
<1>1. PICK S : row' = [e \in Events |-> IF e \in S THEN Freed(row[e]) ELSE row[e]]
  BY DEF RecoverExpired
<1>2. UNCHANGED <<held, step, copies, remembered, forgets, wire, faults>>
  BY DEF RecoverExpired
<1>3. \A e \in Events : /\ row'[e] \in Row
                        /\ row'[e].status = row[e].status /\ row'[e].gen = row[e].gen
  BY <1>1, FreedRow DEF TypeOK
<1>4. TypeOK'
  BY <1>1, <1>2, <1>3 DEF TypeOK
<1> QED
  BY <1>2, <1>3, <1>4, GenerationsKept, BoardKept, KeysKept DEF TypeOK

LEMMA LeaseEndsStep ==
  ASSUME IInv, NEW e \in Events, LeaseEnds(e)
  PROVE  IInv'
<1> USE DEF IInv
<1>1. UNCHANGED <<held, step, copies, remembered, forgets, wire>> /\ faults' \in 0..MaxFaults
  BY OutboxAssumption DEF LeaseEnds, Fault, TypeOK
<1>2. \A f \in Events : /\ row'[f] \in Row
                        /\ row'[f].status = row[f].status /\ row'[f].gen = row[f].gen
  BY DEF LeaseEnds, TypeOK, Row
<1>3. TypeOK'
  BY <1>1, <1>2 DEF TypeOK, LeaseEnds
<1> QED
  BY <1>1, <1>2, <1>3, GenerationsKept, BoardKept, KeysKept DEF TypeOK

LEMMA BrokerStep ==
  ASSUME IInv, NEW e \in Events, LateArrival(e) \/ Forget(e)
  PROVE  IInv'
<1> USE DEF IInv
<1>1. /\ UNCHANGED <<row, held, step>>
      /\ wire' \subseteq wire
      /\ faults' \in 0..MaxFaults
  BY OutboxAssumption DEF LateArrival, Forget, Fault, TypeOK
<1>2. /\ copies' \in [Events -> Nat] /\ remembered' \subseteq Events /\ forgets' \in [Events -> Nat]
      /\ KeysOK'
      /\ \A f \in Events : copies'[f] >= copies[f]
  <2>1. CASE LateArrival(e)
    <3>1. Accept(e)
      BY <2>1 DEF LateArrival
    <3> QED
      BY <3>1, AcceptCopies DEF TypeOK
  <2>2. CASE Forget(e)
    <3>1. /\ e \in remembered
          /\ copies' = copies /\ remembered' = remembered \ {e}
          /\ forgets' = [forgets EXCEPT ![e] = @ + 1]
      BY <2>2 DEF Forget
    <3>2. KeysOK'
      BY <3>1 DEF KeysOK, TypeOK
    <3> QED
      BY <3>1, <3>2 DEF TypeOK
  <2> QED
    BY <2>1, <2>2
<1>3. TypeOK'
  BY <1>1, <1>2 DEF TypeOK
<1> QED
  BY <1>1, <1>2, <1>3, GenerationsKept, BoardKept

LEMMA NextIInv == IInv /\ [Next]_vars => IInv'
<1> SUFFICES ASSUME IInv, [Next]_vars PROVE IInv'
  OBVIOUS
<1>1. CASE UNCHANGED vars
  BY <1>1 DEF vars, IInv, TypeOK, GenerationsOK, KeysOK, BoardOK, Current, Todo
<1>2. ASSUME NEW d \in Drains, DrainStep(d) PROVE IInv'
  BY <1>2, ClaimStep, AbandonStep, PublicationStep, SettleStep DEF DrainStep
<1>3. ASSUME NEW e \in Events, EnvironmentStep(e) PROVE IInv'
  BY <1>3, EnqueueStep, LeaseEndsStep, BrokerStep DEF EnvironmentStep
<1> QED
  BY <1>1, <1>2, <1>3, RecoverStep DEF Next

LEMMA Inductive == Spec => []IInv
BY InitIInv, NextIInv, PTL DEF Spec

---------------------------------------------------------------------------
(* The results *)

\* The model's state keeps its types.
THEOREM TypesKept == Spec => []TypeOK
<1>1. IInv => TypeOK
  BY DEF IInv
<1> QED
  BY <1>1, Inductive, PTL

\* At most one drain can confirm or give up a row (the owner and generation
\* fence of mark_published, release_or_fail and release_claim).
THEOREM ConfirmerUnique == Spec => []OneConfirmer
<1>1. ASSUME IInv, NEW e \in Events, NEW d1 \in Drains, NEW d2 \in Drains,
             HoldsClaim(d1, e), HoldsClaim(d2, e)
      PROVE  d1 = d2
  <2>1. held[d1][e] # 0 /\ held[d2][e] = held[d1][e]
    BY <1>1 DEF HoldsClaim
  <2> QED
    BY <1>1, <2>1 DEF IInv, GenerationsOK
<1>2. IInv => OneConfirmer
  BY <1>1 DEF OneConfirmer
<1> QED
  BY <1>2, Inductive, PTL

\* The board holds one copy of an event per time it forgot the dedupe key,
\* whatever crashes, is retried, arrives late or runs concurrently.
THEOREM DuplicatesBounded == Spec => []DuplicateOnlyAfterForget
<1>1. ASSUME IInv, NEW e \in Events PROVE copies[e] <= 1 + forgets[e]
  <2>1. copies[e] \in Nat /\ forgets[e] \in Nat
    BY <1>1 DEF IInv, TypeOK
  <2>2. copies[e] <= forgets[e] + (IF e \in remembered THEN 1 ELSE 0)
    BY <1>1 DEF IInv, KeysOK
  <2> QED
    BY <2>1, <2>2
<1>2. IInv => DuplicateOnlyAfterForget
  BY <1>1 DEF DuplicateOnlyAfterForget
<1> QED
  BY <1>2, Inductive, PTL

\* the claims others give up or take do not touch a live claim of d on e
LEMMA SettleSparesOthers ==
  ASSUME IInv, NEW d \in Drains, NEW e \in Events, HoldsClaim(d, e),
         NEW c \in Drains, NEW f \in Events, MarkPublished(c, f) \/ Release(c, f)
  PROVE  row'[e] = row[e] \/ held'[d][e] = 0
<1>1. CASE c = d /\ f = e
  BY <1>1 DEF MarkPublished, Release, Advance, IInv, TypeOK
<1>2. CASE f # e
  BY <1>2 DEF MarkPublished, Release, IInv, TypeOK
<1>3. CASE c # d /\ f = e
  <2>1. ~HoldsClaim(c, f)
    BY <1>3 DEF IInv, GenerationsOK, HoldsClaim
  <2> QED
    BY <2>1 DEF MarkPublished, Release
<1> QED
  BY <1>1, <1>2, <1>3

LEMMA LiveClaimStep ==
  ASSUME IInv, Next, NEW d \in Drains, NEW e \in Events, HoldsClaim(d, e), row[e].live
  PROVE  \/ row'[e].owner = row[e].owner /\ row'[e].gen = row[e].gen
         \/ held'[d][e] = 0
<1> USE DEF IInv
<1>1. /\ row[e].status = "pending" /\ row[e].owner = PublisherOf[d] /\ row[e].live
      /\ row[e].owner # NoOwner
  BY OutboxAssumption DEF HoldsClaim
<1>2. ~Claimable(e) /\ ~Expired(e)
  BY <1>1 DEF Claimable, Expired
<1>3. ASSUME NEW c \in Drains, Claim(c) PROVE row'[e] = row[e]
  <2>1. e \notin FirstOf({f \in Events : Claimable(f)}, DrainLimit)
    BY <1>2, FirstOfSubset
  <2> QED
    BY <1>3, <2>1 DEF Claim
<1>4. CASE RecoverExpired
  <2>1. \A n : e \notin FirstOf({f \in Events : Expired(f)}, n)
    BY <1>2, FirstOfSubset
  <2> QED
    BY <1>4, <2>1 DEF RecoverExpired
<1>5. ASSUME NEW c \in Drains, DrainStep(c) PROVE row'[e] = row[e] \/ held'[d][e] = 0
  BY <1>3, <1>5, SettleSparesOthers
  DEF DrainStep, Abandon, Publish, BoardUnavailable, PublicationError
<1>6. ASSUME NEW f \in Events, EnvironmentStep(f)
      PROVE  row'[e].owner = row[e].owner /\ row'[e].gen = row[e].gen
  <2>1. CASE Enqueue(f)
    BY <1>1, <2>1 DEF Enqueue, TypeOK
  <2>2. CASE LeaseEnds(f)
    BY <2>2 DEF LeaseEnds, TypeOK, Row
  <2>3. CASE LateArrival(f) \/ Forget(f)
    BY <2>3 DEF LateArrival, Forget
  <2> QED
    BY <1>6, <2>1, <2>2, <2>3 DEF EnvironmentStep
<1> QED
  BY <1>4, <1>5, <1>6 DEF Next

\* A live claim that a drain works on ends only by that drain's own step.
THEOREM LiveClaimsAreKept == Spec => LiveClaimKept
<1>1. IInv /\ [Next]_vars =>
        [\A d \in Drains : \A e \in Events :
          HoldsClaim(d, e) /\ row[e].live =>
              \/ row'[e].owner = row[e].owner /\ row'[e].gen = row[e].gen
              \/ held'[d][e] = 0]_vars
  BY LiveClaimStep
<1> QED
  BY <1>1, Inductive, PTL DEF Spec, LiveClaimKept

---------------------------------------------------------------------------
(* Outbox implements EventChannel *)

LEMMA ChannelInit == Init => Channel!Init
BY DEF Init, Channel!Init, NoRow

LEMMA EnqueueSends ==
  ASSUME IInv, NEW e \in Events, Enqueue(e)
  PROVE  Channel!Send(e)
<1>1. /\ row[e].status = "absent" /\ copies' = copies
      /\ \A f \in Events : row'[f].status = IF f = e THEN "pending" ELSE row[f].status
  BY DEF Enqueue, IInv, TypeOK, Row
<1> QED
  BY <1>1 DEF Channel!Send

\* the rows and the published marks stay: the board takes a copy or nothing
LEMMA AcceptDelivers ==
  ASSUME IInv, NEW e \in Events, row[e].status # "absent",
         \A f \in Events : row'[f].status = row[f].status,
         Accept(e) \/ UNCHANGED <<copies, remembered, forgets>>
  PROVE  Channel!Deliver(e) \/ UNCHANGED Channel!vars
<1>1. copies' = copies \/ copies' = [copies EXCEPT ![e] = @ + 1]
  BY AcceptCopies DEF IInv
<1>2. /\ {f \in Events : row'[f].status # "absent"} = {f \in Events : row[f].status # "absent"}
      /\ {f \in Events : row'[f].status = "published"} = {f \in Events : row[f].status = "published"}
  OBVIOUS
<1> QED
  BY <1>1, <1>2 DEF Channel!Deliver, Channel!vars

LEMMA MarkConfirms ==
  ASSUME IInv, NEW d \in Drains, NEW e \in Events, MarkPublished(d, e)
  PROVE  Channel!Confirm(e) \/ UNCHANGED Channel!vars
<1>1. copies' = copies /\ copies[e] > 0
  BY DEF MarkPublished, IInv, BoardOK
<1>2. CASE row' = row
  BY <1>1, <1>2 DEF Channel!vars
<1>3. CASE row' # row
  <2>1. HoldsClaim(d, e) /\ row' = [row EXCEPT ![e] = [Freed(@) EXCEPT !.status = "published"]]
    BY <1>3 DEF MarkPublished
  <2>2. row[e].status = "pending" /\ Freed(row[e]) \in Row
    BY <2>1, FreedRow DEF HoldsClaim, IInv, TypeOK
  <2>3. \A f \in Events : row'[f].status = IF f = e THEN "published" ELSE row[f].status
    BY <2>1, <2>2 DEF IInv, TypeOK, Row
  <2> QED
    BY <1>1, <2>2, <2>3 DEF Channel!Confirm
<1> QED
  BY <1>2, <1>3

\* every other step leaves the statuses and the board alone
LEMMA OthersStutter ==
  ASSUME IInv,
         \/ \E d \in Drains : Claim(d) \/ Abandon(d) \/ \E e \in Events : Release(d, e)
         \/ \E e \in Events : LeaseEnds(e) \/ Forget(e)
         \/ RecoverExpired
  PROVE  UNCHANGED Channel!vars
<1>1. copies' = copies
  BY DEF Claim, Abandon, Release, LeaseEnds, Forget, RecoverExpired
<1>2. \A e \in Events : row[e] \in Row /\ Freed(row[e]).status = row[e].status
  BY FreedRow DEF IInv, TypeOK
<1>3. \A f \in Events : row'[f].status = row[f].status
  <2>1. ASSUME NEW d \in Drains, Claim(d) PROVE \A f \in Events : row'[f].status = row[f].status
    <3>1. PICK S : row' = [e \in Events |-> IF e \in S THEN ClaimedRow(row[e], d) ELSE row[e]]
      BY <2>1 DEF Claim, ClaimedRow
    <3> QED
      BY <3>1, <1>2, ClaimedRowType
  <2>2. ASSUME NEW d \in Drains, NEW e \in Events, Release(d, e)
        PROVE  \A f \in Events : row'[f].status = row[f].status
    BY <2>2, <1>2 DEF Release, IInv, TypeOK
  <2>3. CASE RecoverExpired
    <3>1. PICK S : row' = [e \in Events |-> IF e \in S THEN Freed(row[e]) ELSE row[e]]
      BY <2>3 DEF RecoverExpired
    <3> QED
      BY <3>1, <1>2
  <2>4. ASSUME NEW e \in Events, LeaseEnds(e)
        PROVE  \A f \in Events : row'[f].status = row[f].status
    BY <2>4, <1>2 DEF LeaseEnds, IInv, TypeOK, Row
  <2>5. ASSUME NEW d \in Drains, Abandon(d)
        PROVE  \A f \in Events : row'[f].status = row[f].status
    BY <2>5 DEF Abandon
  <2>6. ASSUME NEW e \in Events, Forget(e)
        PROVE  \A f \in Events : row'[f].status = row[f].status
    BY <2>6 DEF Forget
  <2> QED
    BY <2>1, <2>2, <2>3, <2>4, <2>5, <2>6
<1>4. /\ {f \in Events : row'[f].status # "absent"} = {f \in Events : row[f].status # "absent"}
      /\ {f \in Events : row'[f].status = "published"} = {f \in Events : row[f].status = "published"}
  BY <1>3
<1> QED
  BY <1>1, <1>4 DEF Channel!vars

LEMMA ChannelNext == IInv /\ [Next]_vars => [Channel!Next]_(Channel!vars)
<1> SUFFICES ASSUME IInv, [Next]_vars PROVE [Channel!Next]_(Channel!vars)
  OBVIOUS
<1>1. CASE UNCHANGED vars
  BY <1>1 DEF vars, Channel!vars
<1>2. ASSUME NEW d \in Drains, NEW e \in Events,
             Publish(d, e) \/ BoardUnavailable(d, e) \/ PublicationError(d, e)
      PROVE  Channel!Deliver(e) \/ UNCHANGED Channel!vars
  <2>1. /\ row' = row /\ held[d][e] # 0
        /\ Accept(e) \/ UNCHANGED <<copies, remembered, forgets>>
    BY <1>2 DEF Publish, BoardUnavailable, PublicationError, Current, Todo
  <2>2. row[e].status # "absent"
    BY <2>1 DEF IInv, GenerationsOK
  <2> QED
    BY <2>1, <2>2, AcceptDelivers
<1>3. ASSUME NEW e \in Events, LateArrival(e)
      PROVE  Channel!Deliver(e) \/ UNCHANGED Channel!vars
  BY <1>3, AcceptDelivers DEF LateArrival, IInv, BoardOK
<1>4. ASSUME NEW d \in Drains, DrainStep(d) PROVE [Channel!Next]_(Channel!vars)
  BY <1>2, <1>4, MarkConfirms, OthersStutter DEF DrainStep, Channel!Next
<1>5. ASSUME NEW e \in Events, EnvironmentStep(e) PROVE [Channel!Next]_(Channel!vars)
  BY <1>3, <1>5, EnqueueSends, OthersStutter DEF EnvironmentStep, Channel!Next
<1> QED
  BY <1>1, <1>4, <1>5, OthersStutter DEF Next

\* The outbox is an at-least-once channel: no row is withdrawn, and a row is
\* marked published only when the board has its event (drain, mark_published).
THEOREM ImplementsChannel == Spec => ChannelSpec
BY ChannelInit, ChannelNext, Inductive, PTL DEF Spec, ChannelSpec, Channel!Spec
=============================================================================
