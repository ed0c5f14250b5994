-------------------- MODULE WebSocketNotifications_proofs --------------------
(***************************************************************************)
(* UnreadKept for any number of instances, notifications and drain limits. *)
(* Between its two queries and while it hands rows over, a drain works on  *)
(* what it once read; RowsOK and BatchOK say what is still true of it      *)
(* whatever other instances do meanwhile: unless they dropped its          *)
(* checkpoint, nothing after the checkpoint is missing from the batch      *)
(* except what comes after all of it.                                      *)
(***************************************************************************)
EXTENDS WebSocketNotifications, FiniteSetTheorems, TLAPS

Handing(i) == step[i] \in {"hand", "advance"}

\* between the two queries the checkpoint is the one read, or dropped
RowsOK(i) ==
    /\ step[i] = "rows" => cursor[i] \in {seen[i], NoCursor}
    /\ step[i] = "insert" => cursor[i] = NoCursor

\* the batch misses only notifications that come after all of it
BatchOK(i) ==
    Handing(i) /\ cursor[i] # NoCursor =>
        /\ \A b \in batch[i] : b > cursor[i]
        /\ \A m \in log : m > cursor[i] => m \in batch[i] \/ \A b \in batch[i] : m > b

\* the first of the batch has been handed over
HandedOK(i) ==
    step[i] = "advance" => \A n \in batch[i] : First(i, n) => n \notin owed[i]

\* only a running instance drains or owes anything
LifeOK(i) == life[i] # "on" => owed[i] = {} /\ step[i] = "idle"

IInv ==
    /\ TypeOK
    /\ UnreadKept
    /\ \A i \in Instances : RowsOK(i) /\ BatchOK(i) /\ HandedOK(i) /\ LifeOK(i)

---------------------------------------------------------------------------
(* Operators *)

\* what a query with ORDER BY and LIMIT leaves out comes after all it returns
LEMMA FirstOfIsInitial ==
  ASSUME NEW S, S \subseteq Nat, IsFiniteSet(S), NEW k \in Nat,
         NEW b \in FirstOf(S, k), NEW m \in S, m \notin FirstOf(S, k)
  PROVE  m > b
<1> DEFINE Below(x) == {f \in S : f < x}
<1>1. /\ IsFiniteSet(Below(b)) /\ Cardinality(Below(b)) \in Nat
      /\ IsFiniteSet(Below(m)) /\ Cardinality(Below(m)) \in Nat
  BY FS_Subset, FS_CardinalityType
<1>2. Cardinality(Below(b)) < k /\ ~(Cardinality(Below(m)) < k)
  BY DEF FirstOf
<1>3. b \in Nat /\ m \in Nat /\ b \in S
  BY DEF FirstOf
<1>4. ASSUME m <= b PROVE FALSE
  <2>1. ASSUME NEW f \in S, f < m PROVE f < b
    BY <1>3, <1>4, <2>1
  <2>3. Below(m) \subseteq Below(b)
    BY <2>1
  <2>2. Cardinality(Below(m)) <= Cardinality(Below(b))
    BY <1>1, <2>3, FS_Subset
  <2> QED
    BY <1>1, <1>2, <2>2
<1> QED
  BY <1>3, <1>4

LEMMA LogFinite == TypeOK => IsFiniteSet(log) /\ log \subseteq Nat
<1> SUFFICES ASSUME TypeOK PROVE IsFiniteSet(log) /\ log \subseteq Nat
  OBVIOUS
<1>1. top \in Int
  BY NotificationsAssumption DEF TypeOK
<1>2. IsFiniteSet(1..top)
  BY <1>1, FS_Interval
<1>3. log \subseteq 1..top /\ 1..top \subseteq Nat
  BY <1>1 DEF TypeOK
<1> QED
  BY <1>2, <1>3, FS_Subset

LEMMA Numbers ==
  ASSUME TypeOK
  PROVE  /\ top \in Nat /\ top <= MaxId /\ NoCursor \in Nat /\ NoCursor > top
         /\ \A i \in Instances : cursor[i] \in Nat /\ (cursor[i] # NoCursor => cursor[i] <= top)
BY NotificationsAssumption DEF TypeOK, NoCursor

\* an instance is not disturbed by a step that leaves its own state and only
\* removes from the log what it has read, or adds to its end
LEMMA Undisturbed ==
  ASSUME TypeOK, NEW i \in Instances,
         RowsOK(i), BatchOK(i), HandedOK(i), LifeOK(i),
         step'[i] = step[i], seen'[i] = seen[i], batch'[i] = batch[i],
         owed'[i] = owed[i], life'[i] = life[i],
         cursor'[i] \in {cursor[i], NoCursor}, log' \subseteq log
  PROVE  RowsOK(i)' /\ BatchOK(i)' /\ HandedOK(i)' /\ LifeOK(i)'
<1>1. RowsOK(i)' /\ HandedOK(i)' /\ LifeOK(i)'
  BY DEF RowsOK, HandedOK, LifeOK, First
<1>2. BatchOK(i)'
  BY DEF BatchOK, Handing
<1> QED
  BY <1>1, <1>2

\* an instance whose drain has ended has nothing to keep but its log
LEMMA IdleOK ==
  ASSUME NEW i \in Instances, step'[i] = "idle", life'[i] # "on" => owed'[i] = {}
  PROVE  RowsOK(i)' /\ BatchOK(i)' /\ HandedOK(i)' /\ LifeOK(i)'
BY DEF RowsOK, BatchOK, HandedOK, LifeOK, Handing

LEMMA InitIInv == Init => IInv
BY NotificationsAssumption
DEF Init, IInv, TypeOK, UnreadKept, RowsOK, BatchOK, HandedOK, LifeOK, Handing, NoCursor

---------------------------------------------------------------------------
(* Instances *)

\* the steps that leave the log, the drains and the checkpoints alone
LEMMA LifeStepOK ==
  ASSUME IInv, NEW i \in Instances,
         Start(i) \/ Heartbeat(i) \/ HeartbeatAges(i) \/ Stop(i)
  PROVE  IInv'
<1> USE DEF IInv
<1>1. /\ UNCHANGED <<table, cursor, drains, phones>>
      /\ \A j \in Instances : life'[j] = "on" <=> life[j] = "on"
      /\ life' \in [Instances -> {"off", "started", "on", "closed", "gone"}]
      /\ fresh' \subseteq Instances
  BY DEF Start, Heartbeat, HeartbeatAges, Stop, TypeOK
<1>2. TypeOK'
  BY <1>1 DEF TypeOK, table, drains, phones
<1>3. UnreadKept'
  BY <1>1 DEF UnreadKept, Unread, After, table, drains, phones
<1>4. \A j \in Instances : RowsOK(j)' /\ BatchOK(j)' /\ HandedOK(j)' /\ LifeOK(j)'
  BY <1>1 DEF RowsOK, BatchOK, HandedOK, LifeOK, Handing, First, table, drains, phones
<1> QED
  BY <1>2, <1>3, <1>4

\* the steps that begin or end the life of one instance
LEMMA BootStepOK ==
  ASSUME IInv, NEW i \in Instances, Initialize(i) \/ Close(i) \/ Crash(i)
  PROVE  IInv'
<1> USE DEF IInv
<1>1. /\ UNCHANGED table
      /\ failures' = failures /\ fresh' = fresh
      /\ life' \in [Instances -> {"off", "started", "on", "closed", "gone"}]
      /\ step' \in [Instances -> {"idle", "rows", "hand", "advance", "insert", "invalidate"}]
      /\ seen' \in [Instances -> 0..top] /\ batch' \in [Instances -> SUBSET (1..top)]
      /\ owed' \in [Instances -> SUBSET (1..top)] /\ lost' \in [Instances -> SUBSET (1..top)]
      /\ owed'[i] = {} /\ step'[i] = "idle"
      /\ \A j \in Instances \ {i} :
           /\ step'[j] = step[j] /\ seen'[j] = seen[j] /\ batch'[j] = batch[j]
           /\ owed'[j] = owed[j] /\ lost'[j] = lost[j] /\ life'[j] = life[j]
           /\ cursor'[j] = cursor[j]
  <2>0. 0 \in 0..top
    BY Numbers
  <2>1. CASE Initialize(i)
    BY <2>1 DEF Initialize, LifeOK, TypeOK, drains, phones
  <2>2. CASE Close(i)
    BY <2>2 DEF Close, TypeOK, drains
  <2>3. CASE Crash(i)
    BY <2>0, <2>3 DEF Crash, DrainEnds, TypeOK
  <2> QED
    BY <2>1, <2>2, <2>3
<1>2. cursor' \in [Instances -> (0..top) \cup {NoCursor}]
  <2>1. \A h \in log \cup {0} : h \in 0..top
    BY Numbers DEF TypeOK
  <2> QED
    BY <2>1 DEF Initialize, Close, Crash, HighWater, TypeOK
<1>3. TypeOK'
  BY <1>1, <1>2 DEF TypeOK, table
<1>4. UnreadKept'
  BY <1>1 DEF UnreadKept, Unread, After, table
<1>5. ASSUME NEW j \in Instances PROVE RowsOK(j)' /\ BatchOK(j)' /\ HandedOK(j)' /\ LifeOK(j)'
  <2>1. CASE j = i
    BY <2>1, <1>1, IdleOK
  <2>2. CASE j # i
    BY <2>2, <1>1, Undisturbed DEF table
  <2> QED
    BY <2>1, <2>2
<1> QED
  BY <1>3, <1>4, <1>5

---------------------------------------------------------------------------
(* The log *)

LEMMA PublishOK ==
  ASSUME IInv, Publish
  PROVE  IInv'
<1> USE DEF IInv
<1>0. /\ top \in Nat /\ top + 1 <= MaxId /\ top' = top + 1 /\ top' \in 0..MaxId
      /\ \A x \in 1..top : x \in 1..top' /\ x < top + 1
      /\ \A x \in 0..top : x \in 0..top' /\ x < top + 1
      /\ top + 1 \in 1..top'
  BY Numbers, NotificationsAssumption DEF Publish, TypeOK
<1>1. /\ UNCHANGED <<life, fresh, cursor, step, seen, batch, lost, failures>>
      /\ log' = log \cup {top + 1}
      /\ \A i \in Instances :
            owed'[i] = IF life[i] = "on" THEN owed[i] \cup {top + 1} ELSE owed[i]
  BY DEF Publish, instances, drains
<1>2. TypeOK'
  <2>1. /\ cursor' \in [Instances -> (0..top') \cup {NoCursor}]
        /\ seen' \in [Instances -> 0..top']
        /\ batch' \in [Instances -> SUBSET (1..top')]
        /\ lost' \in [Instances -> SUBSET (1..top')]
    BY <1>0, <1>1 DEF TypeOK
  <2>2. owed' \in [Instances -> SUBSET (1..top')]
    BY <1>0, <1>1 DEF TypeOK, Publish
  <2> QED
    BY <1>0, <1>1, <2>1, <2>2 DEF TypeOK
<1>3. UnreadKept'
  <2> SUFFICES ASSUME NEW i \in Instances, life[i] = "on", cursor[i] # NoCursor,
                      step[i] # "invalidate"
               PROVE  owed'[i] \subseteq Unread(i)' \cup lost'[i]
    BY <1>1 DEF UnreadKept
  <2>1. owed[i] \subseteq Unread(i) \cup lost[i]
    BY DEF UnreadKept
  <2>2. cursor[i] < top + 1
    BY <1>0 DEF TypeOK
  <2>3. Unread(i)' = Unread(i) \cup {top + 1}
    BY <1>1, <2>2 DEF Unread, After
  <2> QED
    BY <1>1, <2>1, <2>3
<1>4. ASSUME NEW i \in Instances PROVE RowsOK(i)' /\ BatchOK(i)' /\ HandedOK(i)' /\ LifeOK(i)'
  <2>1. RowsOK(i)' /\ LifeOK(i)'
    BY <1>1 DEF RowsOK, LifeOK
  <2>2. \A b \in batch[i] : b < top + 1
    BY <1>0 DEF TypeOK
  <2>5. \A b \in batch[i] : b \in Nat /\ top + 1 > b
    BY <1>0, <2>2 DEF TypeOK
  <2>6. ASSUME Handing(i), cursor[i] # NoCursor, NEW m \in log', m > cursor[i]
        PROVE  m \in batch[i] \/ \A b \in batch[i] : m > b
    BY <1>1, <2>5, <2>6 DEF BatchOK
  <2>3. BatchOK(i)'
    <3>1. /\ Handing(i)' <=> Handing(i)
          /\ cursor'[i] = cursor[i] /\ batch'[i] = batch[i]
      BY <1>1 DEF Handing
    <3>2. Handing(i) /\ cursor[i] # NoCursor =>
            /\ \A b \in batch[i] : b > cursor[i]
            /\ \A m \in log' : m > cursor[i] => m \in batch[i] \/ \A b \in batch[i] : m > b
      BY <2>6 DEF BatchOK
    <3> QED
      BY <3>1, <3>2 DEF BatchOK
  <2>4. HandedOK(i)'
    <3>1. \A b \in batch[i] : b # top + 1
      BY <1>0, <2>5
    <3>2. owed'[i] \subseteq owed[i] \cup {top + 1}
      BY <1>1
    <3> QED
      BY <1>1, <3>1, <3>2 DEF HandedOK, First
  <2> QED
    BY <2>1, <2>3, <2>4
<1> QED
  BY <1>2, <1>3, <1>4

\* what is deleted has been read by every instance that keeps its checkpoint
LEMMA CleanupOK ==
  ASSUME IInv, NEW i \in Instances, Cleanup(i)
  PROVE  IInv'
<1> USE DEF IInv
<1> DEFINE kept == [j \in Instances |-> IF j \in {i} \cup fresh THEN cursor[j] ELSE NoCursor]
<1>1. /\ UNCHANGED <<life, fresh, top, step, seen, batch, owed, lost, failures>>
      /\ cursor' = kept /\ step[i] = "idle"
      /\ log' = log \/ log' = {n \in log : UnreadByOne(i, kept, n)}
  BY DEF Cleanup, instances, drains, phones
<1>2. \A j \in Instances : /\ cursor'[j] \in {cursor[j], NoCursor}
                           /\ cursor'[j] # NoCursor => j \in {i} \cup fresh /\ cursor'[j] = cursor[j]
  BY <1>1
<1>3. log' \subseteq log
  BY <1>1
<1>4. TypeOK'
  <2>1. cursor' \in [Instances -> (0..top) \cup {NoCursor}]
    BY <1>1, <1>2 DEF TypeOK
  <2> QED
    BY <1>1, <1>3, <2>1 DEF TypeOK
<1>5. UnreadKept'
  <2> SUFFICES ASSUME NEW j \in Instances, life[j] = "on", cursor'[j] # NoCursor,
                      step[j] # "invalidate"
               PROVE  owed[j] \subseteq Unread(j)' \cup lost[j]
    BY <1>1 DEF UnreadKept
  <2>1. j \in {i} \cup fresh /\ cursor'[j] = cursor[j] /\ kept[j] = cursor[j]
    BY <1>1, <1>2
  <2>2. owed[j] \subseteq Unread(j) \cup lost[j]
    BY <2>1 DEF UnreadKept
  <2>3. \A n \in log : n > cursor[j] => n \in log'
    BY <1>1, <2>1 DEF UnreadByOne
  <2>4. Unread(j) \subseteq Unread(j)'
    BY <2>1, <2>3 DEF Unread, After
  <2> QED
    BY <2>2, <2>4
<1>6. \A j \in Instances : RowsOK(j)' /\ BatchOK(j)' /\ HandedOK(j)' /\ LifeOK(j)'
  BY <1>1, <1>2, <1>3, Undisturbed
<1> QED
  BY <1>4, <1>5, <1>6

---------------------------------------------------------------------------
(* The drain *)

\* a step of the drain of one instance leaves the log and the other instances
LEMMA OneDrain ==
  ASSUME IInv, TypeOK', NEW i \in Instances,
         UNCHANGED <<life, log>>,
         \A j \in Instances \ {i} :
            /\ step'[j] = step[j] /\ seen'[j] = seen[j] /\ batch'[j] = batch[j]
            /\ owed'[j] = owed[j] /\ lost'[j] = lost[j] /\ cursor'[j] = cursor[j],
         RowsOK(i)' /\ BatchOK(i)' /\ HandedOK(i)' /\ LifeOK(i)',
         cursor'[i] # NoCursor /\ step'[i] # "invalidate" =>
            owed'[i] \subseteq Unread(i)' \cup lost'[i]
  PROVE  IInv'
<1> USE DEF IInv
<1>1. UnreadKept'
  BY DEF UnreadKept, Unread, After
<1>2. ASSUME NEW j \in Instances PROVE RowsOK(j)' /\ BatchOK(j)' /\ HandedOK(j)' /\ LifeOK(j)'
  BY Undisturbed
<1> QED
  BY <1>1, <1>2

LEMMA ReadCheckpointOK ==
  ASSUME IInv, NEW i \in Instances, ReadCheckpoint(i)
  PROVE  IInv'
<1> USE DEF IInv
<1>1. /\ UNCHANGED <<instances, table, cursor, batch, phones>>
      /\ life[i] = "on" /\ step[i] = "idle"
      /\ step' = [step EXCEPT ![i] = IF cursor[i] = NoCursor THEN "insert" ELSE "rows"]
  BY DEF ReadCheckpoint, AfterReading
<1>2. PICK h \in 0..top : seen' = [seen EXCEPT ![i] = h] /\ (cursor[i] # NoCursor => h = cursor[i])
  <2>1. \A h \in log \cup {0} : h \in 0..top
    BY Numbers DEF TypeOK
  <2> QED
    BY <2>1 DEF ReadCheckpoint, HighWater, TypeOK
<1>3. TypeOK'
  BY <1>1, <1>2 DEF TypeOK, instances, table, phones
<1>4. RowsOK(i)' /\ BatchOK(i)' /\ HandedOK(i)' /\ LifeOK(i)'
  BY <1>1, <1>2 DEF RowsOK, BatchOK, HandedOK, LifeOK, Handing, TypeOK, instances
<1>5. cursor[i] # NoCursor => owed'[i] \subseteq Unread(i)' \cup lost'[i]
  BY <1>1 DEF UnreadKept, Unread, After, phones, table
<1> QED
  BY <1>1, <1>2, <1>3, <1>4, <1>5, OneDrain DEF TypeOK, instances, table, phones

LEMMA DrainEndsFacts ==
  ASSUME TypeOK, NEW i \in Instances, DrainEnds(i), top' = top
  PROVE  /\ step'[i] = "idle"
         /\ \A j \in Instances \ {i} :
               step'[j] = step[j] /\ seen'[j] = seen[j] /\ batch'[j] = batch[j]
         /\ step' \in [Instances -> {"idle", "rows", "hand", "advance", "insert", "invalidate"}]
         /\ seen' \in [Instances -> 0..top'] /\ batch' \in [Instances -> SUBSET (1..top')]
<1>1. 0 \in 0..top
  BY Numbers
<1> QED
  BY <1>1 DEF DrainEnds, TypeOK

LEMMA ReadRowsOK ==
  ASSUME IInv, NEW i \in Instances, ReadRows(i)
  PROVE  IInv'
<1> USE DEF IInv
<1> DEFINE next == FirstOf(After(seen[i]), DrainLimit)
<1>1. UNCHANGED <<instances, table, cursor, phones>> /\ step[i] = "rows" /\ life[i] = "on"
  BY DEF ReadRows, LifeOK
<1>2. cursor'[i] # NoCursor => owed'[i] \subseteq Unread(i)' \cup lost'[i]
  BY <1>1 DEF UnreadKept, Unread, After, table, phones, instances
<1>3. CASE next = {}
  <2>1. DrainEnds(i)
    BY <1>3 DEF ReadRows
  <2>2. TypeOK'
    BY <1>1, <2>1, DrainEndsFacts DEF TypeOK, instances, table, phones
  <2>3. RowsOK(i)' /\ BatchOK(i)' /\ HandedOK(i)' /\ LifeOK(i)'
    BY <1>1, <2>1, IdleOK, DrainEndsFacts DEF instances, table
  <2> QED
    BY <1>1, <1>2, <2>1, <2>2, <2>3, DrainEndsFacts, OneDrain DEF instances, table, phones
<1>4. CASE next # {}
  <2>1. /\ batch' = [batch EXCEPT ![i] = next]
        /\ step' = [step EXCEPT ![i] = "hand"]
        /\ seen' = [seen EXCEPT ![i] = 0]
    BY <1>4 DEF ReadRows
  <2>2. next \subseteq log /\ next \subseteq 1..top /\ \A b \in next : b > seen[i]
    BY DEF FirstOf, After, TypeOK
  <2>3. ASSUME NEW m \in log, m > seen[i] PROVE m \in next \/ \A b \in next : m > b
    <3>1. /\ After(seen[i]) \subseteq Nat /\ IsFiniteSet(After(seen[i])) /\ m \in After(seen[i])
          /\ DrainLimit \in Nat
      BY <2>3, LogFinite, FS_Subset, NotificationsAssumption DEF After
    <3> QED
      BY <3>1, FirstOfIsInitial
  <2>4. TypeOK'
    <3>1. 0 \in 0..top
      BY Numbers
    <3> HIDE DEF next
    <3> QED
      BY <1>1, <2>1, <2>2, <3>1 DEF TypeOK, instances, table, phones
  <2>5. BatchOK(i)'
    <3>1. cursor[i] # NoCursor => cursor[i] = seen[i]
      BY <1>1 DEF RowsOK
    <3>2. batch'[i] = next /\ cursor' = cursor /\ log' = log
      BY <1>1, <2>1 DEF TypeOK, table
    <3> HIDE DEF next
    <3> QED
      BY <2>2, <2>3, <3>1, <3>2 DEF BatchOK
  <2>6. RowsOK(i)' /\ HandedOK(i)' /\ LifeOK(i)'
    BY <1>1, <2>1 DEF RowsOK, HandedOK, LifeOK, TypeOK, instances
  <2> HIDE DEF next
  <2> QED
    BY <1>1, <1>2, <2>1, <2>4, <2>5, <2>6, OneDrain DEF TypeOK, instances, table, phones
<1> QED
  BY <1>3, <1>4

LEMMA HandOK ==
  ASSUME IInv, NEW i \in Instances, NEW n \in Ids, Hand(i, n)
  PROVE  IInv'
<1> USE DEF IInv
<1>1. /\ UNCHANGED <<instances, table, cursor, seen, batch, lost, failures>>
      /\ step[i] = "hand" /\ life[i] = "on" /\ First(i, n)
      /\ owed' = [owed EXCEPT ![i] = @ \ {n}]
      /\ step' = [step EXCEPT ![i] = "advance"]
  BY DEF Hand, LifeOK
<1>2. TypeOK'
  BY <1>1 DEF TypeOK, instances, table
<1>3. BatchOK(i)'
  BY <1>1 DEF BatchOK, Handing, TypeOK, table
<1>4. HandedOK(i)'
  <2>1. ASSUME NEW m \in batch[i], First(i, m) PROVE m = n
    <3>1. m <= n /\ n <= m /\ m \in Nat /\ n \in Nat
      BY <1>1, <2>1 DEF First, TypeOK
    <3> QED
      BY <3>1
  <2>2. batch' = batch /\ n \notin owed'[i]
    BY <1>1 DEF TypeOK
  <2> QED
    BY <2>1, <2>2 DEF HandedOK, First
<1>5. RowsOK(i)' /\ LifeOK(i)'
  BY <1>1 DEF RowsOK, LifeOK, TypeOK, instances
<1>6. cursor'[i] # NoCursor => owed'[i] \subseteq Unread(i)' \cup lost'[i]
  BY <1>1 DEF UnreadKept, Unread, After, table, TypeOK
<1> QED
  BY <1>1, <1>2, <1>3, <1>4, <1>5, <1>6, OneDrain DEF TypeOK, instances, table

LEMMA AdvanceOK ==
  ASSUME IInv, NEW i \in Instances, NEW n \in Ids, Advance(i, n)
  PROVE  IInv'
<1> USE DEF IInv
<1>1. /\ UNCHANGED <<instances, table, phones>>
      /\ step[i] = "advance" /\ life[i] = "on" /\ First(i, n)
      /\ cursor' = [cursor EXCEPT ![i] = IF @ < n THEN n ELSE @]
  BY DEF Advance, LifeOK
<1>2. n \in batch[i] /\ n \in 1..top /\ n \in Nat /\ n <= top
  BY <1>1, Numbers DEF First, TypeOK
<1>3. cursor'[i] # NoCursor => cursor[i] # NoCursor /\ cursor[i] < n /\ cursor'[i] = n
  <2>1. CASE cursor[i] = NoCursor
    BY <1>1, <1>2, <2>1, Numbers DEF TypeOK
  <2>2. CASE cursor[i] # NoCursor
    <3>1. n > cursor[i]
      BY <1>1, <1>2, <2>2 DEF BatchOK, Handing
    <3> QED
      BY <1>1, <2>2, <3>1, Numbers, <1>2 DEF TypeOK
  <2> QED
    BY <2>1, <2>2
\* what is after the checkpoint and not the handed row is after that row
<1>4. ASSUME cursor'[i] # NoCursor, NEW m \in log, m > cursor[i], m # n PROVE m > n
  <2>1. m \in Nat /\ n \in Nat
    BY <1>2, Numbers DEF TypeOK
  <2>2. m \in batch[i] \/ m > n
    BY <1>1, <1>2, <1>3, <1>4 DEF BatchOK, Handing
  <2>3. m \in batch[i] => n <= m
    BY <1>1 DEF First
  <2> QED
    BY <2>1, <2>2, <2>3, <1>4
<1>5. cursor' \in [Instances -> (0..top) \cup {NoCursor}]
  <2>1. n \in 0..top
    BY <1>2, Numbers
  <2> QED
    BY <1>1, <2>1 DEF TypeOK
<1>6. cursor'[i] # NoCursor => owed'[i] \subseteq Unread(i)' \cup lost'[i]
  <2> SUFFICES ASSUME cursor'[i] # NoCursor, NEW m \in owed[i], m \notin lost[i]
               PROVE  m \in Unread(i)'
    BY <1>1 DEF phones
  <2>1. m \in log /\ m > cursor[i]
    BY <1>1, <1>3 DEF UnreadKept, Unread, After
  <2>2. m # n
    BY <1>1, <1>2 DEF HandedOK
  <2>3. m > n
    BY <2>1, <2>2, <1>4
  <2> QED
    BY <2>1, <2>3, <1>1, <1>3 DEF Unread, After, table
<1>7. CASE cursor[i] < n /\ batch[i] # {n}
  <2>1. /\ batch' = [batch EXCEPT ![i] = @ \ {n}]
        /\ step' = [step EXCEPT ![i] = "hand"]
        /\ UNCHANGED seen
    BY <1>7 DEF Advance
  <2>2. TypeOK'
    BY <1>1, <1>5, <2>1 DEF TypeOK, instances, table, phones
  <2>3. BatchOK(i)'
    <3>1. ASSUME cursor'[i] # NoCursor, NEW b \in batch[i] \ {n} PROVE b > n
      <4>1. n <= b /\ b \in Nat /\ b # n
        BY <1>1, <3>1, Numbers DEF First, TypeOK
      <4> QED
        BY <4>1, <1>2
    <3>2. ASSUME cursor'[i] # NoCursor, NEW m \in log, m > n
          PROVE  m \in batch[i] \ {n} \/ \A b \in batch[i] \ {n} : m > b
      <4>1. m \in Nat /\ n \in Nat /\ cursor[i] \in Nat /\ cursor[i] < n
        BY <1>2, <1>3, <3>2, Numbers DEF TypeOK
      <4>2. m > cursor[i] /\ m # n
        BY <3>2, <4>1
      <4> QED
        BY <4>2, <1>1, <1>3, <3>2 DEF BatchOK, Handing
    <3>3. batch'[i] = batch[i] \ {n} /\ log' = log
      BY <1>1, <2>1 DEF TypeOK, table
    <3> QED
      BY <1>3, <3>1, <3>2, <3>3 DEF BatchOK
  <2>4. RowsOK(i)' /\ HandedOK(i)' /\ LifeOK(i)'
    BY <1>1, <2>1 DEF RowsOK, HandedOK, LifeOK, TypeOK, instances
  <2> QED
    BY <1>1, <1>6, <2>1, <2>2, <2>3, <2>4, OneDrain DEF TypeOK, instances, table, phones
<1>8. CASE ~(cursor[i] < n /\ batch[i] # {n})
  <2>1. DrainEnds(i)
    BY <1>8 DEF Advance
  <2>2. TypeOK'
    BY <1>1, <1>5, <2>1, DrainEndsFacts DEF TypeOK, instances, table, phones
  <2>3. RowsOK(i)' /\ BatchOK(i)' /\ HandedOK(i)' /\ LifeOK(i)'
    BY <1>1, <2>1, IdleOK, DrainEndsFacts DEF instances, table
  <2> QED
    BY <1>1, <1>6, <2>1, <2>2, <2>3, DrainEndsFacts, OneDrain DEF TypeOK, instances, table, phones
<1> QED
  BY <1>7, <1>8

LEMMA InsertCheckpointOK ==
  ASSUME IInv, NEW i \in Instances, InsertCheckpoint(i)
  PROVE  IInv'
<1> USE DEF IInv
<1>1. /\ UNCHANGED <<instances, table, seen, batch, phones>>
      /\ life[i] = "on"
      /\ cursor' = [cursor EXCEPT ![i] = seen[i]]
      /\ step' = [step EXCEPT ![i] = "invalidate"]
  BY DEF InsertCheckpoint, LifeOK
<1>2. TypeOK'
  BY <1>1 DEF TypeOK, instances, table, phones
<1>3. step'[i] = "invalidate" /\ life'[i] = "on"
  BY <1>1 DEF TypeOK, instances
<1>4. RowsOK(i)' /\ BatchOK(i)' /\ HandedOK(i)' /\ LifeOK(i)'
  BY <1>3 DEF RowsOK, BatchOK, HandedOK, LifeOK, Handing
<1> QED
  BY <1>1, <1>2, <1>3, <1>4, OneDrain DEF TypeOK, instances, table, phones

\* the two ways a drain ends outside its queries
LEMMA DrainEndOK ==
  ASSUME IInv, NEW i \in Instances, Invalidate(i) \/ DrainFails(i)
  PROVE  IInv'
<1> USE DEF IInv
<1>1. /\ UNCHANGED <<instances, table, cursor>> /\ DrainEnds(i) /\ life[i] = "on"
      /\ failures' \in 0..MaxFailures
      /\ step[i] # "idle"
  BY NotificationsAssumption DEF Invalidate, DrainFails, LifeOK, TypeOK
<1>2. /\ owed' \in [Instances -> SUBSET (1..top)] /\ lost' \in [Instances -> SUBSET (1..top)]
      /\ \A j \in Instances \ {i} : owed'[j] = owed[j] /\ lost'[j] = lost[j]
  BY DEF Invalidate, DrainFails, TypeOK
<1>3. TypeOK'
  BY <1>1, <1>2, DrainEndsFacts DEF TypeOK, instances, table
<1>4. RowsOK(i)' /\ BatchOK(i)' /\ HandedOK(i)' /\ LifeOK(i)'
  BY <1>1, IdleOK, DrainEndsFacts DEF instances, table
<1>5. cursor'[i] # NoCursor => owed'[i] \subseteq Unread(i)' \cup lost'[i]
  <2>1. Unread(i)' = Unread(i)
    BY <1>1 DEF Unread, After, table
  <2>2. CASE Invalidate(i)
    BY <2>2 DEF Invalidate, TypeOK
  <2>3. CASE DrainFails(i) /\ step[i] = "invalidate"
    BY <2>1, <2>3 DEF DrainFails, TypeOK
  <2>4. CASE DrainFails(i) /\ step[i] # "invalidate"
    BY <1>1, <2>1, <2>4 DEF DrainFails, TypeOK, UnreadKept
  <2> QED
    BY <2>2, <2>3, <2>4
<1> QED
  BY <1>1, <1>2, <1>3, <1>4, <1>5, DrainEndsFacts, OneDrain DEF instances, table

---------------------------------------------------------------------------
(* The results *)

LEMMA NextIInv == IInv /\ [Next]_vars => IInv'
<1> SUFFICES ASSUME IInv, [Next]_vars PROVE IInv'
  OBVIOUS
<1>1. CASE UNCHANGED vars
  BY <1>1 DEF vars, instances, table, drains, phones, IInv, TypeOK, UnreadKept, Unread, After,
     RowsOK, BatchOK, HandedOK, LifeOK, Handing, First
<1>2. ASSUME NEW i \in Instances, LifeStep(i) PROVE IInv'
  BY <1>2, LifeStepOK, BootStepOK DEF LifeStep
<1>3. ASSUME NEW i \in Instances, DrainStep(i) PROVE IInv'
  BY <1>3, ReadCheckpointOK, ReadRowsOK, HandOK, AdvanceOK, InsertCheckpointOK, DrainEndOK
  DEF DrainStep
<1> QED
  BY <1>1, <1>2, <1>3, PublishOK, CleanupOK, DrainEndOK DEF Next

LEMMA Inductive == Spec => []IInv
BY InitIInv, NextIInv, PTL DEF Spec

\* The model's state keeps its types; in particular no checkpoint is ever
\* ahead of the last notification published.
THEOREM TypesKept == Spec => []TypeOK
<1>1. IInv => TypeOK
  BY DEF IInv
<1> QED
  BY <1>1, Inductive, PTL

\* No cleanup takes from a running instance what its phones have not been
\* told of (minimum_live_checkpoint, the expected-checkpoint update of drain).
THEOREM UnreadIsKept == Spec => []UnreadKept
<1>1. IInv => UnreadKept
  BY DEF IInv
<1> QED
  BY <1>1, Inductive, PTL
=============================================================================
