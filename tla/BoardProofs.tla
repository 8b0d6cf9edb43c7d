---------------------------- MODULE BoardProofs ----------------------------
(***************************************************************************)
(* Proofs about module Board, for any number of orders and panel sessions:  *)
(* types, and that unpaid orders are never worked on. And for any number of *)
(* orders and one session, whose view of an order stays true: the queue is  *)
(* dense, stages move only as the table allows, nobody overtakes.           *)
(***************************************************************************)
EXTENDS Board, FunctionTheorems, FiniteSetTheorems, TLAPS

-----------------------------------------------------------------------------
(* The operators of the queue. *)

\* Max of a finite, non-empty set of places is one of them and bounds the rest:
\* an element with the fewest places above it has none above it.
LEMMA MaxOfPlaces ==
    ASSUME NEW S, S \subseteq Nat, IsFiniteSet(S), S # {}
    PROVE  Max(S) \in S /\ \A y \in S : y <= Max(S)
<1> DEFINE Above(x) == {y \in S : y > x}
           T == {Above(x) : x \in S}
<1>1. IsWellFoundedOn(StrictSubsetOrdering(S), SUBSET S)
  BY FS_StrictSubsetOrderingWellFounded, FS_FiniteSubsetsOfFinite
<1>2. T \subseteq SUBSET S /\ T # {}
  OBVIOUS
<1>3. PICK U \in T : \A V \in T : <<V, U>> \notin StrictSubsetOrdering(S)
  <2> HIDE DEF T
  <2> QED BY <1>1, <1>2, WFMin
<1>4. PICK x \in S : U = Above(x)
  OBVIOUS
<1>5. \A y \in S : x >= y
  <2> SUFFICES ASSUME NEW y \in S, y > x PROVE FALSE
    OBVIOUS
  <2>1. Above(y) \subseteq U /\ Above(y) # U
    <3>1. y \in Above(x) /\ y \notin Above(y)
      OBVIOUS
    <3>2. \A z \in S : z > y => z > x
      OBVIOUS
    <3>3. Above(y) \subseteq Above(x)
      BY <3>2
    <3> QED BY <3>1, <3>3, <1>4
  <2>2. <<Above(y), U>> \in StrictSubsetOrdering(S)
    BY <2>1, <1>4 DEF StrictSubsetOrdering
  <2> QED BY <2>2, <1>3
<1> QED BY <1>5 DEF Max

\* The image of a finite set under a function is finite.
LEMMA ImageFinite ==
    ASSUME NEW S, IsFiniteSet(S), NEW f, DOMAIN f = S, f = [x \in S |-> f[x]]
    PROVE  IsFiniteSet({f[x] : x \in S})
<1> DEFINE T == {f[x] : x \in S}
<1>1. f \in Surjection(S, T)
  BY Fun_IsSurj
<1> QED BY <1>1, FS_Surjection

\* A place by rank is a natural number (_renumber).
LEMMA RankType ==
    ASSUME NEW S \in SUBSET Orders, NEW pos, NEW o \in Orders
    PROVE  Rank(S, pos, o) \in Nat
<1>1. {x \in S : pos[x] <= pos[o]} \in SUBSET Orders
  OBVIOUS
<1> QED BY <1>1, OrdersAssumption, FS_Subset, FS_CardinalityType DEF Rank

\* The place behind the last one is a place (append_to_queue), and it lies
\* behind every place the handler sees.
LEMMA NextPlaceType ==
    ASSUME TypeOK, NEW s \in Loaded
    PROVE  /\ NextPlace(s) \in Nat \ {0}
           /\ \A x \in InQueue(status) \ {s.order} : qpos[x] < NextPlace(s)
<1> DEFINE seen == [x \in InQueue(status) |-> IF x = s.order THEN s.pos ELSE qpos[x]]
           taken == {seen[x] : x \in InQueue(status)} \ {0}
<1>1. IsFiniteSet(InQueue(status))
  BY OrdersAssumption, FS_Subset DEF InQueue
<1>2. \A x \in InQueue(status) : seen[x] \in Nat
  BY DEF TypeOK, InQueue, Loaded
<1>3. IsFiniteSet(taken)
  <2>1. IsFiniteSet({seen[x] : x \in InQueue(status)})
    BY <1>1, ImageFinite
  <2> QED BY <2>1, FS_Difference
<1>4. taken \subseteq Nat
  BY <1>2
<1>5. taken = {IF x = s.order THEN s.pos ELSE qpos[x] : x \in InQueue(status)} \ {0}
  OBVIOUS
<1>6. NextPlace(s) = IF taken = {} THEN 1 ELSE Max(taken) + 1
  BY <1>5 DEF NextPlace
<1>7. \A x \in InQueue(status) \ {s.order} : qpos[x] \in taken \cup {0}
  OBVIOUS
<1> HIDE DEF taken
<1>8. CASE taken = {}
  BY <1>6, <1>7, <1>8
<1>9. CASE taken # {}
  <2>1. Max(taken) \in Nat /\ \A y \in taken : y <= Max(taken)
    BY <1>3, <1>4, <1>9, MaxOfPlaces
  <2>2. NextPlace(s) = Max(taken) + 1
    BY <1>6, <1>9
  <2>3. ASSUME NEW x \in InQueue(status) \ {s.order} PROVE qpos[x] < NextPlace(s)
    <3>1. qpos[x] \in Nat
      BY DEF TypeOK, InQueue
    <3> QED BY <3>1, <2>1, <2>2, <1>7
  <2> QED BY <2>1, <2>2, <2>3
<1> QED BY <1>8, <1>9

-----------------------------------------------------------------------------
(* Types. *)

\* What the queue holds after a change of stage are places.
LEMMA PlacesAfterType ==
    ASSUME TypeOK, NEW s \in Loaded, NEW new
    PROVE  PlacesAfter(s, new) \in [Orders -> Nat]
<1>1. NextPlace(s) \in Nat
  BY NextPlaceType
<1>2. [qpos EXCEPT ![s.order] = Written(s.pos, NextPlace(s), @)] \in [Orders -> Nat]
  BY <1>1 DEF Written, TypeOK
<1>3. ClosedUp(s) \in [Orders -> Nat]
  <2> DEFINE remaining == {x \in InQueue(status) \ {s.order} : qpos[x] # 0}
  <2>1. remaining \in SUBSET Orders
    BY DEF InQueue
  <2>2. \A x \in Orders : Rank(remaining, qpos, x) \in Nat
    BY <2>1, RankType
  <2> HIDE DEF remaining
  <2>3. [x \in Orders |-> IF x = s.order THEN 0
                          ELSE IF x \in remaining THEN Rank(remaining, qpos, x)
                          ELSE qpos[x]] \in [Orders -> Nat]
    BY <2>2 DEF TypeOK
  <2> QED BY <2>3 DEF ClosedUp, remaining
<1>4. qpos \in [Orders -> Nat]
  BY DEF TypeOK
<1> QED BY <1>2, <1>3, <1>4 DEF PlacesAfter

\* A change of stage leaves stages and places.
LEMMA ChangeStatusType ==
    ASSUME TypeOK, NEW s \in Loaded, NEW new \in OrderStatus, ChangeStatus(s, new)
    PROVE  /\ status' \in [Orders -> OrderStatus]
           /\ qpos' \in [Orders -> Nat]
<1>1. status' = [status EXCEPT ![s.order] = new]
  BY DEF ChangeStatus
<1>2. status \in [Orders -> OrderStatus] /\ s.order \in Orders
  BY DEF TypeOK, Loaded
<1>3. qpos' = PlacesAfter(s, new)
  BY DEF ChangeStatus
<1>4. PlacesAfter(s, new) \in [Orders -> Nat]
  BY PlacesAfterType
<1> QED BY <1>1, <1>2, <1>3, <1>4

\* lock loads the order as it is stored.
LEMMA FreshType ==
    ASSUME TypeOK, NEW o \in Orders
    PROVE  Fresh(o) \in Loaded
BY DEF TypeOK, Fresh, Loaded

\* The stages of the board are stages.
LEMMA PaidStatusesType == PaidStatuses \subseteq OrderStatus
BY DEF PaidStatuses, QueueStatuses, OrderStatus

\* A card move writes stages and places.
LEMMA MoveCardType ==
    ASSUME TypeOK, NEW a \in Admins, NEW new \in OrderStatus, MoveCard(a, new)
    PROVE  /\ status' \in [Orders -> OrderStatus]
           /\ qpos' \in [Orders -> Nat]
<1> DEFINE s == panel[a]
           queue == InQueue(StagesMoved(s, new))
<1>1. s \in Loaded
  BY DEF MoveCard, TypeOK
<1>2. StagesMoved(s, new) \in [Orders -> OrderStatus]
  BY <1>1 DEF StagesMoved, TypeOK, Loaded
<1>3. PlacesMoved(s, new) \in [Orders -> Nat]
  BY <1>1, PlacesAfterType DEF PlacesMoved, TypeOK
<1>4. PICK places \in Bijection(queue, 1..Cardinality(queue)) :
          qpos' = Reordered(s, new, places)
  BY DEF MoveCard
<1>5. places \in [queue -> Nat]
  <2>1. places \in [queue -> 1..Cardinality(queue)]
    BY DEF Bijection, Injection
  <2>2. IsFiniteSet(queue)
    BY OrdersAssumption, FS_Subset DEF InQueue
  <2>3. 1..Cardinality(queue) \subseteq Nat
    BY <2>2, FS_CardinalityType
  <2> QED BY <2>1, <2>3
<1>6. Reordered(s, new, places) \in [Orders -> Nat]
  BY <1>3, <1>5 DEF Reordered, Written
<1>7. status' = StagesMoved(s, new)
  BY DEF MoveCard
<1> QED BY <1>2, <1>4, <1>6, <1>7

\* Every step of the board keeps the types.
LEMMA TypeStep == TypeOK /\ [BoardNext]_boardVars => TypeOK'
<1> SUFFICES ASSUME TypeOK, [BoardNext]_boardVars PROVE TypeOK'
  OBVIOUS
<1> USE FreshType, ChangeStatusType
<1>1. ASSUME NEW o \in Orders, Submit(o) PROVE TypeOK'
  BY <1>1 DEF Submit, TypeOK, OrderStatus
<1>2. ASSUME NEW o \in Orders, Enqueue(o) PROVE TypeOK'
  <2>1. [order |-> o, status |-> "waiting_payment", paid |-> TRUE,
         pos |-> qpos[o]] \in Loaded
    BY DEF Loaded, OrderStatus, TypeOK
  <2> QED BY <1>2, <2>1 DEF Enqueue, TypeOK, OrderStatus
<1>3. ASSUME NEW o \in Orders, Cancel(o) PROVE TypeOK'
  BY <1>3 DEF Cancel, TypeOK, OrderStatus
<1>4. ASSUME NEW a \in Admins, NEW o \in Orders, LoadCard(a, o) PROVE TypeOK'
  BY <1>4 DEF LoadCard, TypeOK
<1>5. ASSUME NEW a \in Admins, GiveUp(a) PROVE TypeOK'
  BY <1>5 DEF GiveUp, TypeOK
<1>6. CASE Restart
  BY <1>6 DEF Restart, TypeOK
<1>7. ASSUME NEW a \in Admins, NEW new \in OrderStatus, SetStatus(a, new) PROVE TypeOK'
  <2>1. panel[a] \in Loaded
    BY <1>7 DEF SetStatus, TypeOK
  <2> QED BY <1>7, <2>1 DEF SetStatus, TypeOK
<1>8. ASSUME NEW a \in Admins, MarkArrived(a) PROVE TypeOK'
  BY <1>7, <1>8 DEF MarkArrived, OrderStatus
<1>9. ASSUME NEW a \in Admins, NEW new \in PaidStatuses, MoveCard(a, new) PROVE TypeOK'
  <2>1. new \in OrderStatus
    BY PaidStatusesType
  <2>2. status' \in [Orders -> OrderStatus] /\ qpos' \in [Orders -> Nat]
    BY <1>9, <2>1, MoveCardType
  <2> QED BY <1>9, <2>2 DEF MoveCard, TypeOK
<1>10. CASE UNCHANGED boardVars
  BY <1>10 DEF boardVars, TypeOK
<1> QED
  BY <1>1, <1>2, <1>3, <1>4, <1>5, <1>6, <1>7, <1>8, <1>9, <1>10
  DEF BoardNext, PanelNext, MarkPaid, Revive, CancelUnpaid, OwnerCancel

\* The variables of the board keep their types, for any number of orders and
\* panel sessions: places stay natural numbers however the queue is renumbered.
THEOREM BoardTypes == BoardSpec => []TypeOK
<1>1. BoardInit => TypeOK
  BY DEF BoardInit, TypeOK, OrderStatus
<1> QED BY <1>1, TypeStep, PTL DEF BoardSpec

-----------------------------------------------------------------------------
(* Work starts only on recorded money. *)

\* What a panel request believes about money is true and stays true, however
\* old its view of the order is: paid_at is set once and never taken back.
PanelKnowsPaid ==
    \A a \in Admins :
        panel[a] # Idle /\ (panel[a].status \in PaidStatuses \/ panel[a].paid)
            => paidAt[panel[a].order]

\* The inductive invariant: WorkIsPaid alone is not inductive, for a request
\* could carry a stage of accepted work that nothing in the table backs.
PaidInv == TypeOK /\ WorkIsPaid /\ PanelKnowsPaid

\* A change of stage puts only a paid order to work, when what the handler has
\* loaded is true of the order's payment.
LEMMA ChangeStatusPaid ==
    ASSUME TypeOK, WorkIsPaid, NEW s \in Loaded, NEW new \in OrderStatus,
           ChangeStatus(s, new),
           \A o \in Orders : paidAt[o] => paidAt'[o],
           s.status \in PaidStatuses \/ s.paid => paidAt'[s.order]
    PROVE  WorkIsPaid'
<1>1. status' = [status EXCEPT ![s.order] = new] /\ ~NeedsPayment(s, new)
  BY DEF ChangeStatus, CanChange
<1>2. new \in PaidStatuses => paidAt'[s.order]
  BY <1>1 DEF NeedsPayment, Loaded
<1> QED BY <1>1, <1>2 DEF WorkIsPaid, TypeOK, Loaded

\* Every step keeps the invariant.
LEMMA PaidStep == PaidInv /\ [BoardNext]_boardVars => PaidInv'
<1> SUFFICES ASSUME PaidInv, [BoardNext]_boardVars PROVE PaidInv'
  OBVIOUS
<1> USE DEF PaidInv
<1>0. TypeOK'
  BY TypeStep
<1>1. ASSUME UNCHANGED <<paidAt, panel>> PROVE PanelKnowsPaid'
  BY <1>1 DEF PanelKnowsPaid
<1>2. ASSUME NEW o \in Orders PROVE
          Fresh(o) \in Loaded /\ Fresh(o).order = o
          /\ (Fresh(o).status \in PaidStatuses \/ Fresh(o).paid => paidAt[o])
  BY FreshType DEF Fresh, WorkIsPaid
<1>3. ASSUME NEW o \in Orders, Submit(o) PROVE PaidInv'
  BY <1>0, <1>1, <1>2, <1>3, ChangeStatusPaid DEF Submit, OrderStatus
<1>4. ASSUME NEW o \in Orders, Enqueue(o) PROVE PaidInv'
  <2> DEFINE s == [order |-> o, status |-> "waiting_payment", paid |-> TRUE,
                   pos |-> qpos[o]]
  <2>1. s \in Loaded /\ s.order = o /\ ChangeStatus(s, "queued")
    BY <1>4 DEF Enqueue, Loaded, OrderStatus, TypeOK
  <2>2. paidAt'[o] /\ \A x \in Orders : paidAt[x] => paidAt'[x]
    BY <1>4 DEF Enqueue, TypeOK
  <2> HIDE DEF s
  <2>3. WorkIsPaid'
    BY <2>1, <2>2, ChangeStatusPaid DEF OrderStatus
  <2>4. PanelKnowsPaid'
    BY <1>4, <2>2 DEF Enqueue, PanelKnowsPaid, TypeOK, Loaded
  <2> QED BY <1>0, <2>3, <2>4
<1>5. ASSUME NEW o \in Orders, Cancel(o) PROVE PaidInv'
  BY <1>0, <1>1, <1>2, <1>5, ChangeStatusPaid DEF Cancel, OrderStatus
<1>6. ASSUME NEW a \in Admins, NEW o \in Orders, LoadCard(a, o) PROVE PaidInv'
  BY <1>0, <1>2, <1>6 DEF LoadCard, WorkIsPaid, PanelKnowsPaid, TypeOK
<1>7. ASSUME NEW a \in Admins, GiveUp(a) PROVE PaidInv'
  BY <1>0, <1>7 DEF GiveUp, WorkIsPaid, PanelKnowsPaid, TypeOK
<1>8. CASE Restart
  BY <1>0, <1>8 DEF Restart, WorkIsPaid, PanelKnowsPaid
<1>9. ASSUME NEW a \in Admins, panel' = [panel EXCEPT ![a] = Idle], UNCHANGED paidAt
      PROVE PanelKnowsPaid'
  BY <1>9 DEF PanelKnowsPaid, TypeOK
<1>10. ASSUME NEW a \in Admins, panel[a] # Idle PROVE
          panel[a] \in Loaded
          /\ (panel[a].status \in PaidStatuses \/ panel[a].paid => paidAt[panel[a].order])
  BY <1>10 DEF PanelKnowsPaid, TypeOK
<1>11. ASSUME NEW a \in Admins, NEW new \in OrderStatus, SetStatus(a, new) PROVE PaidInv'
  <2>1. panel[a] # Idle /\ ChangeStatus(panel[a], new) /\ UNCHANGED paidAt
    BY <1>11 DEF SetStatus
  <2>2. WorkIsPaid'
    BY <1>10, <2>1, ChangeStatusPaid
  <2> QED BY <1>0, <1>9, <1>11, <2>2 DEF SetStatus
<1>12. ASSUME NEW a \in Admins, MarkArrived(a) PROVE PaidInv'
  BY <1>11, <1>12 DEF MarkArrived, OrderStatus
<1>13. ASSUME NEW a \in Admins, NEW new \in PaidStatuses, MoveCard(a, new) PROVE PaidInv'
  <2> DEFINE s == panel[a]
  <2>1. s # Idle /\ UNCHANGED paidAt /\ status' = StagesMoved(s, new)
        /\ panel' = [panel EXCEPT ![a] = Idle]
        /\ (new = s.status \/ CanChange(s, new))
    BY <1>13 DEF MoveCard
  <2>2. s \in Loaded /\ (s.status \in PaidStatuses \/ s.paid => paidAt[s.order])
    BY <1>10, <2>1
  <2> HIDE DEF s
  <2>3. ASSUME new = s.status PROVE WorkIsPaid'
    BY <2>1, <2>3 DEF StagesMoved, WorkIsPaid
  <2>4. ASSUME new # s.status, CanChange(s, new) PROVE WorkIsPaid'
    <3>1. status' = [status EXCEPT ![s.order] = new]
      BY <2>1, <2>4 DEF StagesMoved
    <3>2. paidAt[s.order]
      BY <2>2, <2>4 DEF CanChange, NeedsPayment, Loaded
    <3> QED BY <2>1, <2>2, <3>1, <3>2 DEF WorkIsPaid, TypeOK, Loaded
  <2> QED BY <1>0, <1>9, <2>1, <2>3, <2>4
<1>14. CASE UNCHANGED boardVars
  BY <1>0, <1>1, <1>14 DEF boardVars, WorkIsPaid
<1> QED
  BY <1>3, <1>4, <1>5, <1>6, <1>7, <1>8, <1>11, <1>12, <1>13, <1>14
  DEF BoardNext, PanelNext, MarkPaid, Revive, CancelUnpaid, OwnerCancel

\* Whatever any number of panel sessions write from whatever they loaded, an
\* order is worked on only with its payment recorded (_needs_payment).
THEOREM BoardWorkIsPaid == BoardSpec => []WorkIsPaid
<1>1. BoardInit => PaidInv
  BY DEF BoardInit, PaidInv, TypeOK, WorkIsPaid, PanelKnowsPaid, OrderStatus,
         PaidStatuses, QueueStatuses
<1>2. PaidInv => WorkIsPaid
  BY DEF PaidInv
<1> QED BY <1>1, <1>2, PaidStep, PTL DEF BoardSpec

-----------------------------------------------------------------------------
(* The numbering of the queue. *)

\* The orders of Q hold the places 1..N, one each, without holes.
Numbered(Q, pos) == {pos[x] : x \in Q} = 1..Cardinality(Q)

\* Places 1..N are held by one order each: N places for N orders.
LEMMA NumberedOneEach ==
    ASSUME NEW Q \in SUBSET Orders, NEW pos, Numbered(Q, pos)
    PROVE  /\ Cardinality(Q) \in Nat /\ IsFiniteSet(Q)
           /\ \A x \in Q : pos[x] \in 1..Cardinality(Q)
           /\ \A x, y \in Q : pos[x] = pos[y] => x = y
           /\ \A n \in 1..Cardinality(Q) : \E x \in Q : pos[x] = n
<1> DEFINE N == Cardinality(Q)
           f == [x \in Q |-> pos[x]]
<1>1. IsFiniteSet(Q) /\ N \in Nat
  BY OrdersAssumption, FS_Subset, FS_CardinalityType
<1>2. Cardinality(1..N) = N
  BY <1>1, FS_Interval
<1>3. \A x \in Q : pos[x] \in 1..N
  BY DEF Numbered
<1>4. \A n \in 1..N : \E x \in Q : pos[x] = n
  BY DEF Numbered
<1>5. f \in Surjection(Q, 1..N)
  BY <1>3, <1>4 DEF Surjection
<1>6. f \in Injection(Q, 1..N)
  <2> HIDE DEF f
  <2> QED BY <1>1, <1>2, <1>5, FS_SurjSameCardinalityImpliesInj
<1>7. \A x, y \in Q : f[x] = f[y] => x = y
  BY <1>6 DEF Injection, IsInjective
<1> QED BY <1>1, <1>3, <1>4, <1>7

\* N different places among 1..N leave no hole.
LEMMA OneEachNumbered ==
    ASSUME NEW Q \in SUBSET Orders, NEW pos,
           \A x \in Q : pos[x] \in 1..Cardinality(Q),
           \A x, y \in Q : pos[x] = pos[y] => x = y
    PROVE  Numbered(Q, pos)
<1> DEFINE N == Cardinality(Q)
           f == [x \in Q |-> pos[x]]
<1>1. IsFiniteSet(Q) /\ N \in Nat
  BY OrdersAssumption, FS_Subset, FS_CardinalityType
<1>2. Cardinality(1..N) = N /\ IsFiniteSet(1..N)
  BY <1>1, FS_Interval
<1>3. f \in Injection(Q, 1..N)
  BY DEF Injection, IsInjective
<1>4. f \in Surjection(Q, 1..N)
  <2> HIDE DEF f
  <2> QED BY <1>2, <1>3, FS_Injection
<1>5. \A n \in 1..N : \E x \in Q : f[x] = n
  BY <1>4 DEF Surjection
<1> QED BY <1>5 DEF Numbered

\* In a numbered queue the rank of an order is its place.
LEMMA RankInNumbered ==
    ASSUME NEW Q \in SUBSET Orders, NEW pos, Numbered(Q, pos), NEW k \in 0..Cardinality(Q)
    PROVE  Cardinality({x \in Q : pos[x] <= k}) = k
<1> DEFINE S == {x \in Q : pos[x] <= k}
           f == [x \in S |-> pos[x]]
<1>1. /\ Cardinality(Q) \in Nat /\ IsFiniteSet(Q)
      /\ \A x \in Q : pos[x] \in 1..Cardinality(Q)
      /\ \A x, y \in Q : pos[x] = pos[y] => x = y
      /\ \A n \in 1..Cardinality(Q) : \E x \in Q : pos[x] = n
  BY NumberedOneEach
<1>2. k \in Nat
  BY <1>1
<1>3. f \in Injection(S, 1..k)
  BY <1>1, <1>2 DEF Injection, IsInjective
<1>4. \A n \in 1..k : \E x \in S : f[x] = n
  BY <1>1, <1>2
<1>5. f \in Bijection(S, 1..k)
  BY <1>3, <1>4 DEF Bijection, Surjection, Injection
<1>6. IsFiniteSet(S)
  BY <1>1, FS_Subset
<1>7. Cardinality(1..k) = Cardinality(S)
  <2> HIDE DEF f, S
  <2> QED BY <1>5, <1>6, FS_Bijection DEF ExistsBijection
<1>8. Cardinality(1..k) = k
  BY <1>2, FS_Interval
<1> QED BY <1>7, <1>8

\* When an order leaves a numbered queue, the ranks of the others are their
\* places, one less behind the gap (remove_from_queue).
LEMMA RankAfterLeaving ==
    ASSUME NEW Q \in SUBSET Orders, NEW pos, Numbered(Q, pos), NEW o \in Q,
           NEW x \in Q \ {o}
    PROVE  Rank(Q \ {o}, pos, x) = IF pos[x] < pos[o] THEN pos[x] ELSE pos[x] - 1
<1> DEFINE k == pos[x]
           S == {y \in Q : pos[y] <= k}
<1>1. /\ Cardinality(Q) \in Nat /\ IsFiniteSet(Q)
      /\ k \in 1..Cardinality(Q) /\ pos[o] \in 1..Cardinality(Q)
      /\ k # pos[o]
  BY NumberedOneEach
<1>2. Cardinality(S) = k
  BY <1>1, RankInNumbered
<1>3. IsFiniteSet(S)
  BY <1>1, FS_Subset
<1>4. {y \in Q \ {o} : pos[y] <= k} = S \ {o}
  OBVIOUS
<1>5. o \in S <=> pos[o] <= k
  OBVIOUS
<1>6. Cardinality(S \ {o}) = IF o \in S THEN k - 1 ELSE k
  <2> HIDE DEF S, k
  <2> QED BY <1>2, <1>3, FS_RemoveElement
<1> HIDE DEF S
<1> QED BY <1>1, <1>4, <1>5, <1>6 DEF Rank

\* An order behind the last of a numbered queue gets the next number.
LEMMA NextPlaceNumbered ==
    ASSUME TypeOK, QueueDense, NEW o \in Orders, NEW s \in Loaded,
           s.order = o, s.pos = qpos[o]
    PROVE  NextPlace(s) = Cardinality(InQueue(status)) + 1
<1> DEFINE Q == InQueue(status)
           N == Cardinality(Q)
           taken == {IF x = s.order THEN s.pos ELSE qpos[x] : x \in Q} \ {0}
<1>1. Q \in SUBSET Orders /\ Numbered(Q, qpos)
  BY DEF InQueue, QueueDense, Numbered
<1>2. N \in Nat /\ IsFiniteSet(Q)
  BY <1>1, NumberedOneEach
<1>3. taken = 1..N
  BY <1>1, <1>2 DEF Numbered
<1>4. NextPlace(s) = IF 1..N = {} THEN 1 ELSE Max(1..N) + 1
  BY <1>3 DEF NextPlace
<1>5. CASE N = 0
  BY <1>4, <1>5
<1>6. CASE N # 0
  <2>0. IsFiniteSet(1..N)
    BY <1>2, FS_Interval
  <2>1. 1..N \subseteq Nat /\ 1..N # {} /\ IsFiniteSet(1..N)
    <3>1. N \in 1..N
      BY <1>2, <1>6
    <3> QED BY <1>2, <2>0, <3>1
  <2>2. Max(1..N) \in 1..N /\ \A y \in 1..N : y <= Max(1..N)
    BY <2>1, MaxOfPlaces
  <2>3. Max(1..N) = N
    BY <1>2, <1>6, <2>2
  <2> QED BY <1>4, <2>1, <2>3
<1> QED BY <1>5, <1>6

-----------------------------------------------------------------------------
(* One panel session at a time. *)

\* Two sessions that write from what they loaded earlier can leave a hole or
\* repeat a stage (MCBoardDense.cfg and MCBoardLegal.cfg show both). What follows
\* is about one: no card is moved between the load and the write of another.
OneSession == \A a, b \in Admins : a = b

\* What FirstComeFirstServed says of one step.
NobodyOvertakes ==
    \A x \in InQueue(status) \cap InQueue(status'), y \in InQueue(status') :
        /\ y \in InQueue(status) /\ qpos[x] < qpos[y] => qpos'[x] < qpos'[y]
        /\ y \notin InQueue(status) => qpos'[x] < qpos'[y]

\* An order loaded as it stands changes its stage without leaving a hole, and
\* the others keep their turn: appended at N + 1, closed up, or in place.
LEMMA ChangeStatusDense ==
    ASSUME TypeOK, QueueDense, NEW s \in Loaded, NEW new \in OrderStatus,
           ChangeStatus(s, new), s.pos = qpos[s.order],
           s.status \in QueueStatuses <=> s.order \in InQueue(status)
    PROVE  QueueDense' /\ NobodyOvertakes
<1> DEFINE o == s.order
           Q == InQueue(status)
           N == Cardinality(Q)
<1>1. /\ o \in Orders
      /\ status' = [status EXCEPT ![o] = new]
      /\ qpos' = PlacesAfter(s, new)
      /\ status' \in [Orders -> OrderStatus]
      /\ qpos' \in [Orders -> Nat]
  BY ChangeStatusType DEF ChangeStatus, Loaded
<1>2. /\ Q \in SUBSET Orders /\ Numbered(Q, qpos)
      /\ \A x \in Orders \ Q : qpos[x] = 0
  BY DEF InQueue, QueueDense, Numbered
<1>3. /\ N \in Nat /\ IsFiniteSet(Q)
      /\ \A x \in Q : qpos[x] \in 1..N
      /\ \A x, y \in Q : qpos[x] = qpos[y] => x = y
  BY <1>2, NumberedOneEach
<1>4. InQueue(status') = IF new \in QueueStatuses THEN Q \cup {o} ELSE Q \ {o}
  BY <1>1 DEF InQueue, TypeOK
<1>5. ASSUME Numbered(InQueue(status'), qpos'),
             \A x \in Orders \ InQueue(status') : qpos'[x] = 0
      PROVE  QueueDense'
  BY <1>5 DEF QueueDense, Numbered, InQueue
<1>6. CASE new \in QueueStatuses /\ s.status \notin QueueStatuses
  <2>1. NextPlace(s) = N + 1
    BY NextPlaceNumbered, <1>1
  <2>2. o \notin Q /\ InQueue(status') = Q \cup {o}
    BY <1>4, <1>6
  <2>3. qpos' = [qpos EXCEPT ![o] = N + 1]
    <3>1. qpos' = [qpos EXCEPT ![o] = Written(s.pos, N + 1, @)]
      BY <1>1, <1>6, <2>1 DEF PlacesAfter
    <3>2. Written(s.pos, N + 1, qpos[o]) = N + 1
      BY DEF Written
    <3> QED BY <3>1, <3>2
  <2>4. qpos'[o] = N + 1 /\ \A x \in Orders \ {o} : qpos'[x] = qpos[x]
    BY <1>1, <2>3 DEF TypeOK
  <2>5. Cardinality(Q \cup {o}) = N + 1
    BY <1>3, <2>2, FS_AddElement
  <2>6. Numbered(Q \cup {o}, qpos')
    <3>1. \A x \in Q : qpos'[x] = qpos[x]
      BY <1>2, <2>2, <2>4
    <3>2. \A x \in Q \cup {o} : qpos'[x] \in 1..(N + 1)
      BY <1>3, <2>4, <3>1
    <3>3. \A x, y \in Q \cup {o} : qpos'[x] = qpos'[y] => x = y
      BY <1>3, <2>4, <3>1
    <3>4. Q \cup {o} \in SUBSET Orders
      BY <1>1, <1>2
    <3> QED BY <2>5, <3>2, <3>3, <3>4, OneEachNumbered
  <2>7. QueueDense'
    BY <1>1, <1>2, <1>5, <2>2, <2>4, <2>6
  <2>8. NobodyOvertakes
    BY <1>2, <1>3, <2>2, <2>4 DEF NobodyOvertakes
  <2> QED BY <2>7, <2>8
<1>7. CASE new \notin QueueStatuses /\ s.status \in QueueStatuses
  <2> DEFINE R == Q \ {o}
             remaining == {x \in Q \ {o} : qpos[x] # 0}
  <2>1. o \in Q /\ InQueue(status') = R /\ s.pos # 0
    BY <1>3, <1>4, <1>7
  <2>2. remaining = R
    BY <1>3
  <2>3. qpos' = [x \in Orders |-> IF x = o THEN 0
                                  ELSE IF x \in R THEN Rank(R, qpos, x)
                                  ELSE qpos[x]]
    <3>1. qpos' = ClosedUp(s)
      BY <1>1, <1>7, <2>1 DEF PlacesAfter
    <3>2. ClosedUp(s) = [x \in Orders |-> IF x = o THEN 0
                                  ELSE IF x \in remaining THEN Rank(remaining, qpos, x)
                                  ELSE qpos[x]]
      BY DEF ClosedUp
    <3> QED BY <2>2, <3>1, <3>2
  <2>4. \A x \in R : qpos'[x] = IF qpos[x] < qpos[o] THEN qpos[x] ELSE qpos[x] - 1
    <3>1. \A x \in R : Rank(R, qpos, x) = IF qpos[x] < qpos[o] THEN qpos[x] ELSE qpos[x] - 1
      BY <1>2, <2>1, RankAfterLeaving
    <3>2. \A x \in R : qpos'[x] = Rank(R, qpos, x)
      BY <1>2, <2>3
    <3> QED BY <3>1, <3>2
  <2>5. qpos'[o] = 0 /\ \A x \in Orders \ Q : qpos'[x] = 0
    BY <1>1, <1>2, <2>1, <2>3
  <2>6. Cardinality(R) = N - 1
    BY <1>3, <2>1, FS_RemoveElement
  <2>7. Numbered(R, qpos')
    <3>1. \A x \in R : qpos[x] \in 1..N /\ qpos[o] \in 1..N /\ qpos[x] # qpos[o]
      BY <1>3, <2>1
    <3>2. \A x \in R : qpos'[x] \in 1..(N - 1)
      BY <1>3, <2>4, <3>1
    <3>3. \A x, y \in R : qpos'[x] = qpos'[y] => x = y
      <4> SUFFICES ASSUME NEW x \in R, NEW y \in R, qpos'[x] = qpos'[y] PROVE x = y
        OBVIOUS
      <4>1. qpos[x] = qpos[y]
        BY <1>3, <2>4, <3>1
      <4> QED BY <1>3, <4>1
    <3>4. R \in SUBSET Orders
      BY <1>2
    <3> QED BY <2>6, <3>2, <3>3, <3>4, OneEachNumbered
  <2>8. QueueDense'
    BY <1>2, <1>5, <2>1, <2>5, <2>7
  <2>9. NobodyOvertakes
    <3> SUFFICES ASSUME NEW x \in R, NEW y \in R, qpos[x] < qpos[y]
                 PROVE  qpos'[x] < qpos'[y]
      BY <2>1 DEF NobodyOvertakes
    <3>1. qpos[x] \in 1..N /\ qpos[y] \in 1..N /\ qpos[o] \in 1..N
          /\ qpos[x] # qpos[o] /\ qpos[y] # qpos[o]
      BY <1>3, <2>1
    <3> QED BY <1>3, <2>4, <3>1
  <2> QED BY <2>8, <2>9
<1>8. CASE new \in QueueStatuses <=> s.status \in QueueStatuses
  <2>1. InQueue(status') = Q
    BY <1>4, <1>8
  <2>2. qpos' = qpos
    BY <1>1, <1>8 DEF PlacesAfter
  <2>3. QueueDense'
    BY <1>2, <1>5, <2>1, <2>2
  <2>4. NobodyOvertakes
    BY <2>1, <2>2 DEF NobodyOvertakes
  <2> QED BY <2>3, <2>4
<1> QED BY <1>6, <1>7, <1>8

\* A card move that sends the queue numbers it as sent, when the order is
\* loaded as it stands.
LEMMA MoveCardDense ==
    ASSUME TypeOK, NEW a \in Admins, NEW new \in PaidStatuses, MoveCard(a, new),
           panel[a].pos = qpos[panel[a].order],
           panel[a].status = status[panel[a].order]
    PROVE  QueueDense'
<1> DEFINE s == panel[a]
           o == s.order
           Q == InQueue(StagesMoved(s, new))
           moved == PlacesMoved(s, new)
<1>1. s \in Loaded /\ o \in Orders /\ new \in OrderStatus
  BY PaidStatusesType DEF MoveCard, TypeOK, Loaded
<1>2. /\ status' = StagesMoved(s, new) /\ InQueue(status') = Q
      /\ PlaceOnlyInQueue(StagesMoved(s, new), moved)
  BY DEF MoveCard
<1>3. PICK places \in Bijection(Q, 1..Cardinality(Q)) : qpos' = Reordered(s, new, places)
  BY DEF MoveCard
<1>4. StagesMoved(s, new)[o] = new
  BY <1>1 DEF StagesMoved, TypeOK
<1>5. o \in Q => CarriedPlace(s, new) = moved[o]
  <2> SUFFICES ASSUME new \in QueueStatuses PROVE CarriedPlace(s, new) = moved[o]
    BY <1>4 DEF InQueue
  <2>1. CASE new = s.status
    BY <2>1 DEF CarriedPlace, PlacesMoved
  <2>2. CASE new # s.status /\ s.status \in QueueStatuses
    BY <2>2 DEF CarriedPlace, PlacesMoved, PlacesAfter
  <2>3. CASE new # s.status /\ s.status \notin QueueStatuses
    <3>1. CarriedPlace(s, new) = NextPlace(s)
      BY <2>3 DEF CarriedPlace
    <3>2. moved = [qpos EXCEPT ![o] = Written(s.pos, NextPlace(s), @)]
      BY <2>3 DEF PlacesMoved, PlacesAfter
    <3>3. moved[o] = Written(s.pos, NextPlace(s), qpos[o])
      BY <1>1, <3>2 DEF TypeOK
    <3> QED BY <3>1, <3>3 DEF Written
  <2> QED BY <2>1, <2>2, <2>3
<1>6. \A x \in Q : qpos'[x] = places[x]
  <2> SUFFICES ASSUME NEW x \in Q PROVE Reordered(s, new, places)[x] = places[x]
    BY <1>3
  <2>1. x \in Orders
    BY DEF InQueue
  <2>2. CASE x = o
    BY <1>5, <2>1, <2>2 DEF Reordered, Written
  <2>3. CASE x # o
    BY <2>1, <2>3 DEF Reordered
  <2> QED BY <2>2, <2>3
<1>7. \A x \in Orders \ Q : qpos'[x] = 0
  <2> SUFFICES ASSUME NEW x \in Orders \ Q PROVE Reordered(s, new, places)[x] = 0
    BY <1>3
  <2>1. Reordered(s, new, places)[x] = moved[x]
    BY DEF Reordered
  <2>2. StagesMoved(s, new)[x] \notin QueueStatuses
    BY DEF InQueue
  <2> QED BY <1>2, <2>1, <2>2 DEF PlaceOnlyInQueue
<1>8. {qpos'[x] : x \in Q} = 1..Cardinality(Q)
  <2>1. places \in Surjection(Q, 1..Cardinality(Q))
    BY DEF Bijection
  <2>2. /\ \A x \in Q : places[x] \in 1..Cardinality(Q)
        /\ \A n \in 1..Cardinality(Q) : \E x \in Q : places[x] = n
    BY <2>1 DEF Surjection
  <2> QED BY <1>6, <2>2
<1> HIDE DEF Q
<1> QED BY <1>2, <1>7, <1>8 DEF QueueDense

\* What a card's request has loaded is the order as it stands, but for an
\* unpaid order that waits or is called off: payment may change it meanwhile,
\* and no move of the panel can.
ViewHolds ==
    \A a \in Admins : panel[a] # Idle =>
        LET s == panel[a] IN
        /\ s.status # "draft"
        /\ \/ s.status = status[s.order] /\ s.paid = paidAt[s.order] /\ s.pos = qpos[s.order]
           \/ s.status \in {"waiting_payment", "cancelled"} /\ ~s.paid

\* The inductive invariant of one session.
OneSessionInv == TypeOK /\ QueueDense /\ ViewHolds

\* What LegalSteps says of one step.
StepsAreLegal ==
    \A o \in Orders : status'[o] # status[o] =>
        \/ status'[o] \in AllowedTransitions[status[o]]
        \/ /\ status[o] = "cancelled" /\ ~paidAt[o]
           /\ status'[o] = "queued" /\ paidAt'[o]

\* The moves of a card by a session: only those of an order as it stands.
LEMMA MovedAsItStands ==
    ASSUME TypeOK, ViewHolds, NEW a \in Admins, panel[a] # Idle, NEW new \in OrderStatus,
           \/ new # "cancelled" /\ CanChange(panel[a], new)
           \/ new \in PaidStatuses /\ new = panel[a].status
    PROVE  LET s == panel[a] IN
           /\ s \in Loaded /\ s.order \in Orders
           /\ s.status = status[s.order] /\ s.paid = paidAt[s.order]
           /\ s.pos = qpos[s.order]
<1> DEFINE s == panel[a]
<1>1. s \in Loaded /\ s.order \in Orders /\ s.status \in OrderStatus
  BY DEF TypeOK, Loaded
<1>2. ~(s.status \in {"waiting_payment", "cancelled"} /\ ~s.paid)
  BY <1>1 DEF CanChange, NeedsPayment, AllowedTransitions, PaidStatuses, QueueStatuses,
              OrderStatus
<1> QED BY <1>1, <1>2 DEF ViewHolds

\* A step of the board with one session: the queue stays dense, the transitions
\* are legal, and nobody overtakes but by a card move.
LEMMA OneSessionStep ==
    ASSUME OneSession, OneSessionInv, [BoardNext]_boardVars
    PROVE  /\ OneSessionInv'
           /\ StepsAreLegal
           /\ (~ \E a \in Admins, new \in PaidStatuses : MoveCard(a, new)) => NobodyOvertakes
<1> USE DEF OneSessionInv
<1>0. TypeOK'
  BY TypeStep
<1>1. ASSUME NEW a \in Admins, panel'[a] = Idle PROVE ViewHolds'
  BY <1>1 DEF OneSession, ViewHolds
<1>2. ASSUME NEW o \in Orders PROVE
          /\ Fresh(o) \in Loaded /\ Fresh(o).order = o
          /\ Fresh(o).pos = qpos[o] /\ Fresh(o).status = status[o]
          /\ (Fresh(o).status \in QueueStatuses <=> o \in InQueue(status))
  BY FreshType DEF Fresh, InQueue
<1>3. ASSUME NEW s \in Loaded, NEW new \in OrderStatus, ChangeStatus(s, new),
             s.status = status[s.order]
      PROVE  StepsAreLegal
  <2>1. s.order \in Orders /\ status' = [status EXCEPT ![s.order] = new]
        /\ new \in AllowedTransitions[s.status]
    BY <1>3 DEF ChangeStatus, CanChange, Loaded
  <2> QED BY <1>3, <2>1 DEF StepsAreLegal, TypeOK
<1>4. ASSUME UNCHANGED panel, NEW o \in Orders,
             \A x \in Orders \ {o} : /\ status'[x] = status[x] /\ paidAt'[x] = paidAt[x]
                                     /\ qpos'[x] = qpos[x],
             status[o] = "draft" \/ (~paidAt[o] /\ status[o] \in {"waiting_payment", "cancelled"})
      PROVE  ViewHolds'
  <2> SUFFICES ASSUME NEW a \in Admins, panel[a] # Idle
               PROVE  LET s == panel[a] IN
                      \/ /\ s.status = status'[s.order] /\ s.paid = paidAt'[s.order]
                         /\ s.pos = qpos'[s.order]
                      \/ s.status \in {"waiting_payment", "cancelled"} /\ ~s.paid
    BY <1>4 DEF ViewHolds
  <2>1. panel[a] \in Loaded /\ panel[a].order \in Orders
    BY DEF TypeOK, Loaded
  <2>2. CASE panel[a].order = o
    BY <1>4, <2>2 DEF ViewHolds
  <2>3. CASE panel[a].order # o
    BY <1>4, <2>1, <2>3 DEF ViewHolds
  <2> QED BY <2>2, <2>3
<1>5. ASSUME NEW s \in Loaded, NEW new \in OrderStatus, ChangeStatus(s, new),
             new \in QueueStatuses \/ s.status \notin QueueStatuses
      PROVE  \A x \in Orders \ {s.order} : status'[x] = status[x] /\ qpos'[x] = qpos[x]
  <2>1. s.order \in Orders /\ status' = [status EXCEPT ![s.order] = new]
        /\ qpos' = PlacesAfter(s, new)
    BY <1>5 DEF ChangeStatus, Loaded
  <2>2. PlacesAfter(s, new) = qpos
        \/ PlacesAfter(s, new) = [qpos EXCEPT ![s.order] = Written(s.pos, NextPlace(s), @)]
    BY <1>5 DEF PlacesAfter
  <2> QED BY <2>1, <2>2 DEF TypeOK
<1>6. ASSUME NEW o \in Orders, Submit(o)
      PROVE  QueueDense' /\ ViewHolds' /\ StepsAreLegal /\ NobodyOvertakes
  <2>1. ChangeStatus(Fresh(o), "waiting_payment") /\ UNCHANGED <<paidAt, panel>>
        /\ status[o] = "draft" /\ "waiting_payment" \in OrderStatus
    BY <1>6 DEF Submit, OrderStatus
  <2>2. QueueDense' /\ NobodyOvertakes /\ StepsAreLegal
    BY <1>2, <1>3, <2>1, ChangeStatusDense
  <2>3. \A x \in Orders \ {o} : status'[x] = status[x] /\ qpos'[x] = qpos[x]
    BY <1>2, <1>5, <2>1 DEF QueueStatuses
  <2>4. ViewHolds'
    BY <1>4, <2>1, <2>3
  <2> QED BY <2>2, <2>4
<1>7. ASSUME NEW o \in Orders, Enqueue(o), ~paidAt[o], status[o] \in {"waiting_payment", "cancelled"}
      PROVE  QueueDense' /\ ViewHolds' /\ StepsAreLegal /\ NobodyOvertakes
  <2> DEFINE s == [order |-> o, status |-> "waiting_payment", paid |-> TRUE, pos |-> qpos[o]]
  <2>1. /\ s \in Loaded /\ s.order = o /\ s.pos = qpos[o] /\ s.status = "waiting_payment"
        /\ ChangeStatus(s, "queued") /\ "queued" \in OrderStatus
        /\ paidAt' = [paidAt EXCEPT ![o] = TRUE] /\ UNCHANGED panel
    BY <1>7 DEF Enqueue, Loaded, OrderStatus, TypeOK
  <2> HIDE DEF s
  <2>2. s.status \in QueueStatuses <=> s.order \in InQueue(status)
    BY <1>7, <2>1 DEF InQueue, QueueStatuses
  <2>3. QueueDense' /\ NobodyOvertakes
    BY <2>1, <2>2, ChangeStatusDense
  <2>4. status' = [status EXCEPT ![o] = "queued"]
    BY <2>1 DEF ChangeStatus
  <2>5. StepsAreLegal
    BY <1>7, <2>1, <2>4 DEF StepsAreLegal, TypeOK, AllowedTransitions, OrderStatus
  <2>6. \A x \in Orders \ {o} : status'[x] = status[x] /\ qpos'[x] = qpos[x]
    BY <1>5, <2>1 DEF QueueStatuses
  <2>7. \A x \in Orders \ {o} : paidAt'[x] = paidAt[x]
    BY <2>1 DEF TypeOK
  <2>8. ViewHolds'
    BY <1>4, <1>7, <2>1, <2>6, <2>7
  <2> QED BY <2>3, <2>5, <2>8
<1>8. ASSUME NEW o \in Orders, Cancel(o)
      PROVE  QueueDense' /\ StepsAreLegal /\ NobodyOvertakes
  BY <1>2, <1>3, <1>8, ChangeStatusDense DEF Cancel, OrderStatus
<1>9. ASSUME NEW o \in Orders, CancelUnpaid(o) PROVE ViewHolds'
  <2>1. ChangeStatus(Fresh(o), "cancelled") /\ UNCHANGED <<paidAt, panel>>
        /\ status[o] = "waiting_payment" /\ ~paidAt[o] /\ "cancelled" \in OrderStatus
    BY <1>9 DEF CancelUnpaid, Cancel, OrderStatus
  <2>2. \A x \in Orders \ {o} : status'[x] = status[x] /\ qpos'[x] = qpos[x]
    BY <1>2, <1>5, <2>1 DEF QueueStatuses
  <2> QED BY <1>4, <2>1, <2>2
<1>10. ASSUME NEW a \in Admins, NEW o \in Orders, OwnerCancel(a, o) PROVE ViewHolds'
  BY <1>1, <1>10 DEF OwnerCancel, Cancel
<1>11. ASSUME UNCHANGED <<status, paidAt, qpos>>
       PROVE  QueueDense' /\ StepsAreLegal /\ NobodyOvertakes
  BY <1>11 DEF QueueDense, StepsAreLegal, NobodyOvertakes, InQueue
<1>12. ASSUME NEW a \in Admins, NEW o \in Orders, LoadCard(a, o) PROVE ViewHolds'
  <2>1. /\ panel' = [panel EXCEPT ![a] = Fresh(o)] /\ status[o] # "draft"
        /\ UNCHANGED <<status, paidAt, qpos>>
    BY <1>12 DEF LoadCard
  <2>2. panel'[a] = Fresh(o)
    BY <2>1 DEF TypeOK
  <2>3. /\ Fresh(o).order = o /\ Fresh(o).status = status[o] /\ Fresh(o).paid = paidAt[o]
        /\ Fresh(o).pos = qpos[o]
    BY DEF Fresh
  <2> HIDE DEF Fresh
  <2> QED BY <2>1, <2>2, <2>3 DEF OneSession, ViewHolds
<1>13. ASSUME NEW a \in Admins, GiveUp(a) PROVE ViewHolds'
  BY <1>1, <1>13 DEF GiveUp, TypeOK
<1>14. CASE Restart
  BY <1>0, <1>11, <1>14 DEF Restart, ViewHolds
<1>15. ASSUME NEW a \in Admins, NEW new \in OrderStatus, SetStatus(a, new)
       PROVE  QueueDense' /\ ViewHolds' /\ StepsAreLegal /\ NobodyOvertakes
  <2>1. /\ panel[a] # Idle /\ new # "cancelled" /\ ChangeStatus(panel[a], new)
        /\ CanChange(panel[a], new) /\ panel' = [panel EXCEPT ![a] = Idle]
    BY <1>15 DEF SetStatus, ChangeStatus
  <2>2. LET s == panel[a] IN
        /\ s \in Loaded /\ s.order \in Orders
        /\ s.status = status[s.order] /\ s.paid = paidAt[s.order] /\ s.pos = qpos[s.order]
    BY <2>1, MovedAsItStands
  <2>3. panel[a].status \in QueueStatuses <=> panel[a].order \in InQueue(status)
    BY <2>2 DEF InQueue
  <2>4. QueueDense' /\ NobodyOvertakes
    BY <2>1, <2>2, <2>3, ChangeStatusDense
  <2>5. StepsAreLegal
    BY <1>3, <2>1, <2>2
  <2>6. ViewHolds'
    BY <1>1, <2>1 DEF TypeOK
  <2> QED BY <2>4, <2>5, <2>6
<1>16. ASSUME NEW a \in Admins, NEW new \in PaidStatuses, MoveCard(a, new)
       PROVE  QueueDense' /\ ViewHolds' /\ StepsAreLegal
  <2>0. new \in OrderStatus /\ new # "cancelled"
    BY PaidStatusesType DEF PaidStatuses, QueueStatuses
  <2>1. /\ panel[a] # Idle /\ (new = panel[a].status \/ CanChange(panel[a], new))
        /\ panel' = [panel EXCEPT ![a] = Idle] /\ status' = StagesMoved(panel[a], new)
    BY <1>16 DEF MoveCard
  <2>2. LET s == panel[a] IN
        /\ s \in Loaded /\ s.order \in Orders
        /\ s.status = status[s.order] /\ s.paid = paidAt[s.order] /\ s.pos = qpos[s.order]
    BY <2>0, <2>1, MovedAsItStands
  <2>3. QueueDense'
    BY <1>16, <2>2, MoveCardDense
  <2>4. StepsAreLegal
    <3>1. CASE new = panel[a].status
      BY <2>1, <3>1 DEF StagesMoved, StepsAreLegal
    <3>2. CASE new # panel[a].status
      <4>1. status' = [status EXCEPT ![panel[a].order] = new]
        BY <2>1, <3>2 DEF StagesMoved
      <4>2. new \in AllowedTransitions[status[panel[a].order]]
        BY <2>1, <2>2, <3>2 DEF CanChange
      <4> QED BY <2>2, <4>1, <4>2 DEF StepsAreLegal, TypeOK
    <3> QED BY <3>1, <3>2
  <2>5. ViewHolds'
    BY <1>1, <2>1 DEF TypeOK
  <2> QED BY <2>3, <2>4, <2>5
<1>17. CASE UNCHANGED boardVars
  BY <1>0, <1>11, <1>17 DEF boardVars, ViewHolds
<1>18. CASE \E o \in Orders : Submit(o) \/ MarkPaid(o) \/ Revive(o) \/ CancelUnpaid(o)
  BY <1>0, <1>6, <1>7, <1>8, <1>9, <1>18 DEF MarkPaid, Revive, CancelUnpaid
<1>19. CASE \E a \in Admins, o \in Orders : OwnerCancel(a, o)
  BY <1>0, <1>8, <1>10, <1>19 DEF OwnerCancel
<1>20. CASE PanelNext
  <2>1. ASSUME NEW a \in Admins, GiveUp(a) \/ \E o \in Orders : LoadCard(a, o)
        PROVE  OneSessionInv' /\ StepsAreLegal /\ NobodyOvertakes
    BY <1>0, <1>11, <1>12, <1>13, <2>1 DEF GiveUp, LoadCard
  <2>2. ASSUME NEW a \in Admins, MarkArrived(a)
        PROVE  OneSessionInv' /\ StepsAreLegal /\ NobodyOvertakes
    BY <1>0, <1>15, <2>2 DEF MarkArrived, OrderStatus
  <2> QED BY <1>0, <1>14, <1>15, <1>16, <1>20, <2>1, <2>2, <1>11 DEF PanelNext, Restart
<1> QED BY <1>17, <1>18, <1>19, <1>20 DEF BoardNext

\* The invariant of one session holds throughout.
LEMMA BoardOneSession ==
    ASSUME OneSession
    PROVE  BoardSpec => []OneSessionInv
<1>1. BoardInit => OneSessionInv
  <2> SUFFICES ASSUME BoardInit PROVE OneSessionInv
    OBVIOUS
  <2>1. InQueue(status) = {}
    BY DEF BoardInit, InQueue, QueueStatuses
  <2>2. Cardinality(InQueue(status)) = 0
    BY <2>1, FS_EmptySet
  <2>3. QueueDense
    BY <2>1, <2>2 DEF QueueDense, BoardInit
  <2> QED BY <2>3 DEF BoardInit, OneSessionInv, TypeOK, ViewHolds, OrderStatus
<1>2. OneSessionInv /\ [BoardNext]_boardVars => OneSessionInv'
  BY OneSessionStep
<1> QED BY <1>1, <1>2, PTL DEF BoardSpec

\* With one panel session the queue is numbered 1..N without holes, whatever
\* payments, cancels, expiries and restarts come between its load and its write.
THEOREM BoardQueueDense ==
    ASSUME OneSession
    PROVE  BoardSpec => []QueueDense
<1>1. OneSessionInv => QueueDense
  BY DEF OneSessionInv
<1> QED BY <1>1, BoardOneSession, PTL

\* With one panel session every step is one of the transition table, but for
\* the revival of an unpaid cancelled order by its payment.
THEOREM BoardLegalSteps ==
    ASSUME OneSession
    PROVE  BoardSpec => LegalSteps
<1>1. OneSessionInv /\ [BoardNext]_boardVars
          => [\A o \in Orders : status'[o] # status[o] =>
                 \/ status'[o] \in AllowedTransitions[status[o]]
                 \/ /\ status[o] = "cancelled" /\ ~paidAt[o]
                    /\ status'[o] = "queued" /\ paidAt'[o]]_boardVars
  BY OneSessionStep DEF StepsAreLegal
<1> QED BY <1>1, BoardOneSession, PTL DEF BoardSpec, LegalSteps

\* With one panel session nobody overtakes an order that stays in the queue,
\* but by a card move that rewrites the queue.
THEOREM BoardFirstComeFirstServed ==
    ASSUME OneSession
    PROVE  BoardSpec => FirstComeFirstServed
<1>1. OneSessionInv /\ [BoardNext]_boardVars
          => [(~ \E a \in Admins, new \in PaidStatuses : MoveCard(a, new)) =>
                \A x \in InQueue(status) \cap InQueue(status'), y \in InQueue(status') :
                    /\ y \in InQueue(status) /\ qpos[x] < qpos[y] => qpos'[x] < qpos'[y]
                    /\ y \notin InQueue(status) => qpos'[x] < qpos'[y]]_boardVars
  BY OneSessionStep DEF NobodyOvertakes
<1> QED BY <1>1, BoardOneSession, PTL DEF BoardSpec, FirstComeFirstServed

=============================================================================
