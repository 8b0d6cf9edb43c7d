------------------------- MODULE TransactionProofs -------------------------
(***************************************************************************)
(* Proofs about the transactions that wait for locks, for any number of     *)
(* them: what a handler of the queue has read holds until it ends, and      *)
(* which handlers never wait for each other in a circle (QueueLocks); and    *)
(* no place under the limit of orders is sold twice (Intake).               *)
(***************************************************************************)
EXTENDS QueueLocks, Intake, BoardProofs, SequenceTheorems

-----------------------------------------------------------------------------
(* Lists of locks. *)

Queue == Lock(QueueLock, "update")
RowLock(o) == Lock(Row(o), "update")

\* A list of one lock, and of none.
LEMMA ShortLists ==
    /\ <<>> \in Seq(Locks) /\ Range(<<>>) = {}
    /\ \A a \in Locks : <<a>> \in Seq(Locks) /\ Range(<<a>>) = {a}
<1>1. <<>> \in Seq(Locks) /\ Range(<<>>) = {}
  BY EmptySeq DEF Range
<1>2. ASSUME NEW a \in Locks PROVE <<a>> \in Seq(Locks) /\ Range(<<a>>) = {a}
  <2>1. <<a>> \in Seq(Locks) /\ Len(<<a>>) = 1 /\ <<a>>[1] = a
    OBVIOUS
  <2>2. Range(<<a>>) = {<<a>>[i] : i \in 1..1}
    BY <2>1, RangeEquality
  <2> QED BY <2>1, <2>2
<1> QED BY <1>1, <1>2

\* A list of locks before another.
LEMMA ListsJoined ==
    ASSUME NEW s \in Seq(Locks), NEW r \in Seq(Locks)
    PROVE  s \o r \in Seq(Locks) /\ Range(s \o r) = Range(s) \cup Range(r)
BY ConcatProperties, RangeConcatenation

\* A list of one or two locks, written as the handlers do.
LEMMA PairLists ==
    ASSUME NEW a \in Locks, NEW b \in Locks
    PROVE  /\ <<a>> \o <<b>> \in Seq(Locks) /\ Range(<<a>> \o <<b>>) = {a, b}
           /\ <<a>> \o <<>> \in Seq(Locks) /\ Range(<<a>> \o <<>>) = {a}
<1> DEFINE s == <<a>>
           r == <<b>>
           e == <<>>
<1>1. /\ s \in Seq(Locks) /\ Range(s) = {a} /\ r \in Seq(Locks) /\ Range(r) = {b}
      /\ e \in Seq(Locks) /\ Range(e) = {}
  BY ShortLists
<1> HIDE DEF s, r, e
<1>2. s \o r \in Seq(Locks) /\ Range(s \o r) = {a, b}
      /\ s \o e \in Seq(Locks) /\ Range(s \o e) = {a}
  BY <1>1, ListsJoined
<1> QED BY <1>2 DEF s, r, e

\* What follows the first of a list is the rest of it.
LEMMA FirstAndRest ==
    ASSUME NEW s \in Seq(Locks), s # <<>>
    PROVE  /\ Head(s) \in Locks /\ Tail(s) \in Seq(Locks)
           /\ Range(s) = {Head(s)} \cup Range(Tail(s))
<1>1. Head(s) \in Locks /\ Tail(s) \in Seq(Locks)
  BY HeadTailProperties
<1>2. <<Head(s)>> \in Seq(Locks) /\ Range(<<Head(s)>>) = {Head(s)}
  BY <1>1, ShortLists
<1>3. s = <<Head(s)>> \o Tail(s)
  OBVIOUS
<1> DEFINE first == <<Head(s)>>
<1> HIDE DEF first
<1>4. Range(first \o Tail(s)) = Range(first) \cup Range(Tail(s))
  BY <1>1, <1>2, ListsJoined DEF first
<1> QED BY <1>1, <1>2, <1>3, <1>4 DEF first

\* The things that are locked differ from each other.
LEMMA ThingsDiffer ==
    /\ \A o \in Orders : Row(o) # QueueLock /\ PendingPayment(o) # QueueLock
    /\ \A o, x \in Orders : Row(o) # PendingPayment(x)
    /\ \A o, x \in Orders : Row(o) = Row(x) => o = x
    /\ \A o, x \in Orders : PendingPayment(o) = PendingPayment(x) => o = x
BY DEF Row, PendingPayment, QueueLock

\* The locks of the handlers.
LEMMA LocksOfOrder ==
    ASSUME NEW o \in Orders, NEW m \in {"update", "write", "refer"}
    PROVE  /\ Lock(Row(o), m) \in Locks /\ Lock(Row(o), m).on = Row(o)
           /\ Lock(PendingPayment(o), m) \in Locks
           /\ Lock(PendingPayment(o), m).on = PendingPayment(o)
           /\ Queue \in Locks /\ Queue.on = QueueLock /\ Queue.mode = "update"
           /\ Lock(Row(o), m).mode = m /\ Lock(PendingPayment(o), m).mode = m
BY DEF Lock, Locks, Queue

\* What a locked handler asks for after the row: it asks for the queue when it
\* is going to change it, and only after the payment.
LEMMA AfterLockAsks ==
    ASSUME NEW o \in Orders, NEW kind \in {"confirm", "withdraw", "cancel"}
    PROVE  /\ AfterLock(kind, o) \in Seq(Locks)
           /\ Range(AfterLock(kind, o))
                \subseteq {Lock(PendingPayment(o), m) : m \in {"update", "write", "refer"}}
                          \cup {Queue}
           /\ kind = "confirm" =>
                (Queue \in Range(AfterLock(kind, o))
                   <=> status[o] \in {"waiting_payment", "cancelled"} /\ ~paidAt[o])
           /\ kind = "confirm" /\ Queue \in Range(AfterLock(kind, o))
                => AfterLock(kind, o) = <<Lock(PendingPayment(o), "update")>> \o <<Queue>>
           /\ kind = "withdraw" => Queue \notin Range(AfterLock(kind, o))
           /\ kind = "cancel" /\ status[o] \in QueueStatuses
                => Queue \in Range(AfterLock(kind, o))
<1> DEFINE payable == status[o] \in {"waiting_payment", "cancelled"} /\ ~paidAt[o]
           P(m) == Lock(PendingPayment(o), m)
<1>1. \A m \in {"update", "write", "refer"} :
          /\ P(m) \in Locks /\ P(m) # Queue
          /\ <<P(m)>> \in Seq(Locks) /\ Range(<<P(m)>>) = {P(m)}
  BY LocksOfOrder, ShortLists, ThingsDiffer
<1>2. Queue \in Locks /\ <<Queue>> \in Seq(Locks) /\ Range(<<Queue>>) = {Queue}
  BY LocksOfOrder, ShortLists
<1>3. <<>> \in Seq(Locks) /\ Range(<<>>) = {}
  BY ShortLists
<1>4. \A m \in {"update", "write", "refer"} :
          /\ <<P(m)>> \o <<Queue>> \in Seq(Locks)
          /\ Range(<<P(m)>> \o <<Queue>>) = {P(m), Queue}
          /\ <<P(m)>> \o <<>> \in Seq(Locks)
          /\ Range(<<P(m)>> \o <<>>) = {P(m)}
  BY <1>1, <1>2, PairLists
<1>5. CASE kind = "confirm"
  <2>1. AfterLock(kind, o) = <<P("update")>> \o IF payable THEN <<Queue>> ELSE <<>>
    BY <1>5 DEF AfterLock, Queue
  <2> QED BY <1>1, <1>4, <1>5, <2>1
<1>6. CASE kind = "withdraw"
  <2>1. AfterLock(kind, o) = IF status[o] = "waiting_payment" THEN <<P("write")>> ELSE <<>>
    BY <1>6 DEF AfterLock
  <2> QED BY <1>1, <1>3, <1>6, <2>1
<1>7. CASE kind = "cancel"
  <2>1. AfterLock(kind, o) = IF status[o] = "waiting_payment" THEN <<P("write")>>
          ELSE <<P("refer")>> \o IF status[o] \in QueueStatuses THEN <<Queue>> ELSE <<>>
    BY <1>7 DEF AfterLock, Queue
  <2>2. status[o] \in QueueStatuses => status[o] # "waiting_payment"
    BY DEF QueueStatuses
  <2> QED BY <1>1, <1>4, <1>7, <2>1, <2>2
<1> QED BY <1>5, <1>6, <1>7

\* The rows of the queue are locked for update, and every one is in the queue.
LEMMA QueueRowsAsked ==
    ASSUME NEW rows \in QueueRows
    PROVE  /\ rows \in Seq(Locks)
           /\ \A l \in Range(rows) : \E x \in InQueue(status) : l = RowLock(x)
<1> DEFINE S == InQueue(status)
<1>1. PICK seq \in SetToSeqs(S) : rows = [i \in 1..Len(seq) |-> Lock(Row(seq[i]), "update")]
  BY DEF QueueRows
<1>2. S \in SUBSET Orders /\ Cardinality(S) \in Nat
  BY OrdersAssumption, FS_Subset, FS_CardinalityType DEF InQueue
<1>3. seq \in [1..Cardinality(S) -> S]
  BY DEF SetToSeqs
<1> HIDE DEF S
<1>4. Len(seq) = Cardinality(S)
  BY <1>2, <1>3
<1>5. \A i \in 1..Len(seq) : seq[i] \in S /\ Lock(Row(seq[i]), "update") \in Locks
  BY <1>2, <1>3, <1>4, LocksOfOrder
<1>6. rows \in [1..Len(seq) -> Locks]
  BY <1>1, <1>5
<1>7. rows \in Seq(Locks)
  BY <1>2, <1>4, <1>6
<1>8. ASSUME NEW l \in Range(rows) PROVE \E x \in S : l = RowLock(x)
  BY <1>1, <1>5, <1>6, <1>8 DEF Range, RowLock
<1> QED BY <1>7, <1>8 DEF S

-----------------------------------------------------------------------------
(* What is true of the transactions. *)

CardMoves == {"reorder", "leave", "return"}
OneOrder == {"confirm", "withdraw", "cancel"}

\* The locks a transaction holds or is going to ask for, as far as it knows.
Coming(t) == held[t] \cup Range(work[t].todo)

LocksTyped ==
    /\ work \in [Txns -> Transaction \cup {Idle}]
    /\ held \in [Txns -> SUBSET Locks]

\* Locks of different transactions do not exclude each other.
Exclusive ==
    \A t, u \in Txns : t # u => \A a \in held[t], b \in held[u] : ~Conflict(a, b)

\* A handler takes a place in the queue, or gives one up, only when it has read
\* the queue under its lock, and changes an order only with its row locked.
Claims(t) ==
    LET w == work[t] IN
    \A o \in w.orders :
        /\ w.kind = "confirm" /\ w.from # {} /\ ~paidAt[o]
           /\ status[o] \in {"waiting_payment", "cancelled"} => Queue \in Coming(t)
        /\ w.kind = "cancel" /\ w.from # {} /\ status[o] \in QueueStatuses
           => Queue \in Coming(t)
        /\ w.kind \in CardMoves => Queue \in Coming(t) /\ Lock(Row(o), "write") \in Coming(t)

\* Who runs which handler on what, and where a handler starts.
Runs(t) ==
    LET w == work[t] IN
    /\ w.kind \in Kinds
    /\ w.kind # "expire" => \E o \in Orders : w.orders = {o}
    /\ w.kind = "expire" => w.from = {"waiting_payment"}
    /\ w.kind \in CardMoves => t \in Admins /\ panel[t] # Idle /\ panel[t].order \in w.orders
    /\ w.kind \notin CardMoves => t \in Tasks
    /\ w.kind \in OneOrder /\ w.from = {} =>
          held[t] = {} /\ \A o \in w.orders : w.todo = Opening(w.kind, o)

\* What a transaction has read is locked, and is what the table holds.
Reads(t) ==
    LET w == work[t] IN
    /\ \A s \in w.from, o \in w.orders : status[o] = s /\ RowLock(o) \in held[t]
    /\ \A q \in w.queue : q = QueueRead /\ Queue \in held[t]

Sound(t) ==
    IF work[t] = Idle THEN held[t] = {}
    ELSE /\ \A l \in Coming(t) : l.on = QueueLock => l = Queue
         /\ Runs(t) /\ Reads(t) /\ Claims(t)

\* The inductive invariant of the transactions.
LocksInv == PaidInv /\ LocksTyped /\ Exclusive /\ \A t \in Txns : Sound(t)

-----------------------------------------------------------------------------
(* What a transaction changes when it commits. *)

\* An order that stays outside the queue leaves the queue as it was.
LEMMA OutsideKeepsQueue ==
    ASSUME TypeOK, NEW s \in Loaded, NEW new \in OrderStatus \ QueueStatuses,
           ChangeStatus(s, new), s.status \notin QueueStatuses,
           status[s.order] \notin QueueStatuses
    PROVE  QueueRead' = QueueRead
<1>1. status' = [status EXCEPT ![s.order] = new] /\ s.order \in Orders
  BY DEF ChangeStatus, Loaded
<1>2. qpos' = qpos
  BY DEF ChangeStatus, PlacesAfter
<1>3. InQueue(status') = InQueue(status)
  BY <1>1 DEF InQueue, TypeOK
<1> QED BY <1>2, <1>3 DEF QueueRead, InQueue

\* A cancelled order is not in work, so a cancel keeps what the board is sure of.
LEMMA CancelPaid ==
    ASSUME PaidInv, NEW o \in Orders, Cancel(o)
    PROVE  PaidInv'
<1> USE DEF PaidInv
<1>1. Fresh(o) \in Loaded /\ "cancelled" \in OrderStatus /\ Fresh(o).order = o
      /\ (Fresh(o).status \in PaidStatuses \/ Fresh(o).paid => paidAt[o])
  BY FreshType DEF OrderStatus, Fresh, WorkIsPaid
<1>2. UNCHANGED <<paidAt, panel>> /\ ChangeStatus(Fresh(o), "cancelled")
  BY DEF Cancel
<1>3. TypeOK'
  BY <1>1, <1>2, ChangeStatusType DEF TypeOK
<1>4. WorkIsPaid'
  BY <1>1, <1>2, ChangeStatusPaid
<1>5. PanelKnowsPaid'
  BY <1>2 DEF PanelKnowsPaid
<1> QED BY <1>3, <1>4, <1>5

\* What a commit may change, and with which locks held.
Footprint(u) ==
    /\ PaidInv'
    /\ \A o \in Orders : status'[o] # status[o] \/ paidAt'[o] # paidAt[o]
          => \E m \in {"update", "write"} : Lock(Row(o), m) \in held[u]
    /\ QueueRead' # QueueRead => Queue \in held[u]
    /\ \A o \in Orders : paidAt[o] => paidAt'[o]
    /\ \A a \in Admins \ {u} : panel'[a] = panel[a]

\* A change of one order, by a handler that holds its row.
LEMMA OneOrderFootprint ==
    ASSUME TypeOK, PaidInv', NEW u \in Txns, NEW o \in Orders, NEW m \in {"update", "write"},
           Lock(Row(o), m) \in held[u],
           \A x \in Orders \ {o} : status'[x] = status[x] /\ paidAt'[x] = paidAt[x],
           paidAt[o] => paidAt'[o],
           QueueRead' # QueueRead => Queue \in held[u],
           \A a \in Admins \ {u} : panel'[a] = panel[a]
    PROVE  Footprint(u)
BY DEF Footprint

\* Every commit keeps to the locks of its transaction.
LEMMA CommitFootprint ==
    ASSUME LocksInv, NEW u \in Txns, Commit(u)
    PROVE  Footprint(u)
<1> DEFINE w == work[u]
<1>1. /\ w # Idle /\ w.todo = <<>> /\ Effect(u)
      /\ w \in Transaction /\ held[u] \in SUBSET Locks
      /\ Runs(u) /\ Reads(u) /\ Claims(u)
  BY DEF Commit, LocksInv, LocksTyped, Sound
<1>2. Coming(u) = held[u] /\ TypeOK /\ PaidInv
  BY <1>1, ShortLists DEF Coming, LocksInv, PaidInv
<1>3. w.kind \in HandlerKinds /\ w.orders \in SUBSET Orders /\ "update" \in {"update", "write"}
  BY <1>1 DEF Transaction
<1>4. ASSUME w.kind # "expire" PROVE
          \E o \in Orders : w.orders = {o} /\ (CHOOSE x \in w.orders : TRUE) = o
  BY <1>1, <1>4 DEF Runs
<1>5. ASSUME w.kind \in OneOrder PROVE w.from # {}
  <2> SUFFICES ASSUME w.from = {} PROVE FALSE
    OBVIOUS
  <2>1. PICK o \in Orders : w.orders = {o}
    BY <1>4, <1>5 DEF OneOrder
  <2>2. w.todo = Opening(w.kind, o)
    BY <1>1, <1>5, <2>1 DEF Runs
  <2> QED BY <1>1, <2>2 DEF Opening
<1>6. ASSUME w.kind \in OneOrder PROVE
          \E o \in Orders : /\ w.orders = {o} /\ (CHOOSE x \in w.orders : TRUE) = o
                            /\ Lock(Row(o), "update") \in held[u]
  <2>1. PICK o \in Orders : w.orders = {o} /\ (CHOOSE x \in w.orders : TRUE) = o
    BY <1>4, <1>6 DEF OneOrder
  <2>2. PICK s \in w.from : TRUE
    BY <1>5, <1>6
  <2>3. RowLock(o) \in held[u]
    BY <1>1, <2>1, <2>2 DEF Reads
  <2> QED BY <2>1, <2>3 DEF RowLock
<1>7. CASE w.kind = "confirm"
  <2>1. PICK o \in Orders : /\ w.orders = {o} /\ (CHOOSE x \in w.orders : TRUE) = o
                            /\ Lock(Row(o), "update") \in held[u]
    BY <1>6, <1>7 DEF OneOrder
  <2>2. MarkPaid(o) \/ Revive(o)
    BY <1>1, <1>7, <2>1 DEF Effect
  <2>3. Queue \in held[u]
    BY <1>1, <1>2, <1>5, <1>7, <2>1, <2>2 DEF Claims, MarkPaid, Revive, OneOrder
  <2>4. PaidInv'
    BY <1>2, <2>2, PaidStep DEF BoardNext
  <2>5. /\ paidAt' = [paidAt EXCEPT ![o] = TRUE] /\ UNCHANGED panel
        /\ status' = [status EXCEPT ![o] = "queued"]
    BY <2>2 DEF MarkPaid, Revive, Enqueue, ChangeStatus
  <2>6. \A x \in Orders \ {o} : status'[x] = status[x] /\ paidAt'[x] = paidAt[x]
    BY <1>2, <2>5 DEF TypeOK
  <2>7. paidAt'[o] /\ \A a \in Admins \ {u} : panel'[a] = panel[a]
    BY <1>2, <2>5 DEF TypeOK
  <2> QED BY <1>2, <1>3, <2>1, <2>3, <2>4, <2>6, <2>7, OneOrderFootprint
<1>8. CASE w.kind \in {"withdraw", "cancel"}
  <2>1. PICK o \in Orders : /\ w.orders = {o} /\ (CHOOSE x \in w.orders : TRUE) = o
                            /\ Lock(Row(o), "update") \in held[u]
    BY <1>6, <1>8 DEF OneOrder
  <2>2. Cancel(o) /\ (w.kind = "withdraw" => status[o] = "waiting_payment")
    BY <1>1, <1>8, <2>1 DEF Effect, CancelUnpaid
  <2>3. PaidInv'
    BY <1>2, <2>2, CancelPaid
  <2>4. /\ UNCHANGED <<paidAt, panel>> /\ status' = [status EXCEPT ![o] = "cancelled"]
        /\ ChangeStatus(Fresh(o), "cancelled")
    BY <2>2 DEF Cancel, ChangeStatus, Fresh
  <2>5. \A x \in Orders \ {o} : status'[x] = status[x] /\ paidAt'[x] = paidAt[x]
    BY <1>2, <2>4 DEF TypeOK
  <2>6. QueueRead' # QueueRead => Queue \in held[u]
    <3>1. CASE status[o] \in QueueStatuses
      BY <1>1, <1>2, <1>5, <1>8, <2>1, <2>2, <3>1 DEF Claims, OneOrder, QueueStatuses
    <3>2. CASE status[o] \notin QueueStatuses
      <4>1. /\ Fresh(o) \in Loaded /\ Fresh(o).order = o /\ Fresh(o).status = status[o]
            /\ "cancelled" \in OrderStatus \ QueueStatuses
        BY <1>2, FreshType DEF Fresh, OrderStatus, QueueStatuses
      <4> QED BY <1>2, <2>4, <3>2, <4>1, OutsideKeepsQueue
    <3> QED BY <3>1, <3>2
  <2> QED BY <1>2, <1>3, <2>1, <2>3, <2>4, <2>5, <2>6, OneOrderFootprint
<1>9. CASE w.kind \in CardMoves
  <2>1. PICK o \in Orders : w.orders = {o}
    BY <1>4, <1>9 DEF CardMoves
  <2>2. /\ u \in Admins /\ panel[u] # Idle /\ panel[u].order = o
        /\ Queue \in held[u] /\ Lock(Row(o), "write") \in held[u]
    BY <1>1, <1>2, <1>9, <2>1 DEF Runs, Claims
  <2>3. \/ \E new \in OrderStatus : SetStatus(u, new)
        \/ \E new \in PaidStatuses : MoveCard(u, new)
    <3>1. Target[w.kind] \subseteq OrderStatus
          /\ (w.kind = "reorder" => Target[w.kind] \subseteq PaidStatuses)
      BY <1>9 DEF Target, CardMoves, OrderStatus, QueueStatuses, PaidStatuses
    <3>2. \E new \in Target[w.kind] :
             IF w.kind = "reorder" THEN MoveCard(u, new) ELSE SetStatus(u, new)
      BY <1>1, <1>9 DEF Effect, CardMoves
    <3> QED BY <3>1, <3>2
  <2>4. PaidInv'
    BY <1>2, <2>2, <2>3, PaidStep DEF BoardNext, PanelNext
  <2>5. /\ UNCHANGED paidAt /\ panel' = [panel EXCEPT ![u] = Idle]
        /\ \E new : status' = [status EXCEPT ![o] = new] \/ status' = status
    BY <2>2, <2>3 DEF SetStatus, MoveCard, ChangeStatus, StagesMoved
  <2>6. \A x \in Orders \ {o} : status'[x] = status[x] /\ paidAt'[x] = paidAt[x]
    BY <1>2, <2>5 DEF TypeOK
  <2>7. \A a \in Admins \ {u} : panel'[a] = panel[a]
    BY <1>2, <2>5 DEF TypeOK
  <2> QED BY <1>2, <2>2, <2>4, <2>5, <2>6, <2>7, OneOrderFootprint
<1>10. CASE w.kind = "reissue"
  <2>1. UNCHANGED boardVars
    BY <1>1, <1>10 DEF Effect
  <2>2. PaidInv'
    BY <1>2, <2>1, PaidStep
  <2> QED BY <2>1, <2>2 DEF Footprint, boardVars, QueueRead, InQueue
<1>11. CASE w.kind = "expire"
  <2>1. /\ status' = [x \in Orders |-> IF x \in w.orders THEN "cancelled" ELSE status[x]]
        /\ UNCHANGED <<paidAt, qpos, panel>>
    BY <1>1, <1>11 DEF Effect
  <2>2. \A o \in w.orders : status[o] = "waiting_payment" /\ RowLock(o) \in held[u]
    BY <1>1, <1>11 DEF Runs, Reads
  <2>3. PaidInv'
    BY <1>2, <2>1
    DEF PaidInv, TypeOK, WorkIsPaid, PanelKnowsPaid, PaidStatuses, QueueStatuses, OrderStatus
  <2>4. InQueue(status') = InQueue(status)
    BY <1>3, <2>1, <2>2 DEF InQueue, QueueStatuses
  <2>5. QueueRead' = QueueRead
    BY <2>1, <2>4 DEF QueueRead, InQueue
  <2> QED BY <2>1, <2>2, <2>3, <2>5 DEF Footprint, RowLock
<1> QED BY <1>3, <1>7, <1>8, <1>9, <1>10, <1>11 DEF HandlerKinds, CardMoves

-----------------------------------------------------------------------------
(* What others do does not disturb a transaction. *)

\* A lock for update excludes every other lock on its thing.
LEMMA UpdateExcludes ==
    ASSUME NEW a, NEW b, a.on = b.on, a.mode = "update"
    PROVE  Conflict(a, b) /\ Conflict(b, a)
<1>1. "update" \in {a.mode, b.mode} /\ {a.mode, b.mode} = {b.mode, a.mode}
  OBVIOUS
<1>2. "update" \notin {"refer"} /\ "update" \notin {"refer", "write"}
  OBVIOUS
<1> QED BY <1>1, <1>2 DEF Conflict

\* Two transactions do not hold locks on one thing, one of them for update.
LEMMA HeldByOne ==
    ASSUME Exclusive, NEW t \in Txns, NEW u \in Txns, NEW a \in held[t], NEW b \in held[u],
           a.on = b.on, a.mode = "update"
    PROVE  t = u
BY UpdateExcludes DEF Exclusive

\* An order whose row a transaction has locked is as it was after a step of
\* another.
LEMMA RowKept ==
    ASSUME Exclusive, NEW u \in Txns, Footprint(u), NEW t \in Txns, t # u,
           NEW o \in Orders, RowLock(o) \in held[t]
    PROVE  status'[o] = status[o] /\ paidAt'[o] = paidAt[o]
<1> SUFFICES ASSUME NEW m \in {"update", "write"}, Lock(Row(o), m) \in held[u] PROVE FALSE
  BY DEF Footprint
<1>1. Lock(Row(o), m).on = Row(o) /\ RowLock(o).on = Row(o) /\ RowLock(o).mode = "update"
  BY DEF Lock, RowLock
<1> QED BY <1>1, HeldByOne

\* A step of another transaction leaves a transaction sound: what it has read
\* lies under its locks.
LEMMA OthersKept ==
    ASSUME LocksInv, NEW u \in Txns, Footprint(u), NEW t \in Txns, t # u,
           work'[t] = work[t], held'[t] = held[t]
    PROVE  Sound(t)'
<1> DEFINE w == work[t]
<1> USE DEF LocksInv
<1>0. CASE w = Idle
  BY <1>0 DEF Sound
<1>1. CASE w # Idle
  <2>1. Runs(t) /\ Reads(t) /\ Claims(t) /\ \A l \in Coming(t) : l.on = QueueLock => l = Queue
    BY <1>1 DEF Sound
  <2>2. Coming(t)' = Coming(t)
    BY DEF Coming
  <2>3. ASSUME NEW o \in Orders, RowLock(o) \in held[t]
        PROVE  status'[o] = status[o] /\ paidAt'[o] = paidAt[o]
    BY <2>3, RowKept
  <2>4. Queue \in held[t] => QueueRead' = QueueRead
    <3> SUFFICES ASSUME Queue \in held[t], Queue \in held[u] PROVE FALSE
      BY DEF Footprint
    <3>1. Queue.mode = "update"
      BY DEF Lock, Queue
    <3> QED BY <3>1, HeldByOne
  <2>5. w.orders \in SUBSET Orders
    BY <1>1 DEF LocksTyped, Transaction
  <2>6. Reads(t)'
    BY <2>1, <2>3, <2>4, <2>5 DEF Reads
  <2>7. t \in Admins => panel'[t] = panel[t]
    BY DEF Footprint
  <2>8. Runs(t)'
    BY <2>1, <2>7 DEF Runs
  <2>9. Claims(t)'
    <3> SUFFICES ASSUME NEW o \in w.orders
                 PROVE  /\ w.kind = "confirm" /\ w.from # {} /\ ~paidAt'[o]
                             /\ status'[o] \in {"waiting_payment", "cancelled"} => Queue \in Coming(t)
                        /\ w.kind = "cancel" /\ w.from # {} /\ status'[o] \in QueueStatuses
                             => Queue \in Coming(t)
                        /\ w.kind \in CardMoves
                             => Queue \in Coming(t) /\ Lock(Row(o), "write") \in Coming(t)
      BY <2>2 DEF Claims
    <3>1. w.from # {} => RowLock(o) \in held[t]
      BY <2>1 DEF Reads
    <3>2. w.from # {} => status'[o] = status[o] /\ paidAt'[o] = paidAt[o]
      BY <2>3, <2>5, <3>1
    <3> QED BY <2>1, <3>2 DEF Claims
  <2> QED BY <1>1, <2>1, <2>2, <2>6, <2>8, <2>9 DEF Sound
<1> QED BY <1>0, <1>1

\* A step of one transaction: it keeps to its locks, the others stay as they are.
Alone(u) ==
    Footprint(u) /\ \A t \in Txns \ {u} : work'[t] = work[t] /\ held'[t] = held[t]

\* A step of one transaction keeps the invariant when it keeps that
\* transaction sound and takes no lock that another holds against it.
LEMMA OneSteps ==
    ASSUME LocksInv, NEW u \in Txns, Footprint(u),
           NEW w \in Transaction \cup {Idle}, NEW h \in SUBSET Locks,
           work' = [work EXCEPT ![u] = w], held' = [held EXCEPT ![u] = h],
           \A t \in Txns \ {u} : \A a \in h, b \in held[t] : ~Conflict(a, b),
           Sound(u)'
    PROVE  Alone(u) /\ LocksInv'
<1> USE DEF LocksInv
<1>1. /\ \A t \in Txns \ {u} : work'[t] = work[t] /\ held'[t] = held[t]
      /\ work'[u] = w /\ held'[u] = h
  BY DEF LocksTyped
<1>2. LocksTyped'
  BY DEF LocksTyped, Txns
<1>3. \A t \in Txns : Sound(t)'
  BY <1>1, OthersKept
<1>4. Exclusive'
  <2> SUFFICES ASSUME NEW t \in Txns, NEW v \in Txns, t # v,
                      NEW a \in held'[t], NEW b \in held'[v]
               PROVE  ~Conflict(a, b)
    BY DEF Exclusive, Txns
  <2>1. CASE t = u
    BY <1>1, <2>1
  <2>2. CASE v = u
    <3>1. ~Conflict(b, a)
      BY <1>1, <2>2
    <3> QED BY <3>1 DEF Conflict
  <2>3. CASE t # u /\ v # u
    BY <1>1, <2>3 DEF Exclusive
  <2> QED BY <2>1, <2>2, <2>3
<1>5. Alone(u)
  BY <1>1 DEF Alone
<1> QED BY <1>2, <1>3, <1>4, <1>5 DEF Footprint, Txns

\* A step that leaves the orders alone has an empty footprint.
LEMMA NoFootprint ==
    ASSUME PaidInv, UNCHANGED <<status, paidAt, qpos>>, PaidInv', NEW u,
           \A a \in Admins \ {u} : panel'[a] = panel[a]
    PROVE  Footprint(u)
BY DEF Footprint, QueueRead, InQueue

-----------------------------------------------------------------------------
(* The steps of a transaction. *)

\* A transaction as it starts is one.
LEMMA StartedType ==
    ASSUME NEW kind \in HandlerKinds, NEW S \in SUBSET Orders, NEW first \in Seq(Locks)
    PROVE  /\ Started(kind, S, first) \in Transaction /\ Started(kind, S, first) # Idle
           /\ Started(kind, S, first).kind = kind /\ Started(kind, S, first).orders = S
           /\ Started(kind, S, first).todo = first
           /\ Started(kind, S, first).from = {} /\ Started(kind, S, first).queue = {}
BY WorkAssumption DEF Started, Transaction

\* The locks a handler asks for first.
LEMMA FirstLocks ==
    ASSUME NEW o \in Orders
    PROVE  /\ \A kind : Opening(kind, o) \in Seq(Locks) /\ Range(Opening(kind, o)) = {RowLock(o)}
           /\ \A kind \in CardMoves : /\ Unlocked(kind, o) \in Seq(Locks)
                                      /\ Range(Unlocked(kind, o)) = {Queue, Lock(Row(o), "write")}
           /\ Unlocked("reissue", o) \in Seq(Locks)
           /\ Range(Unlocked("reissue", o))
                = {Lock(PendingPayment(o), "write"), Lock(Row(o), "refer")}
<1>1. /\ Queue \in Locks /\ Lock(PendingPayment(o), "write") \in Locks /\ RowLock(o) \in Locks
      /\ Lock(Row(o), "write") \in Locks /\ Lock(Row(o), "refer") \in Locks
  BY LocksOfOrder DEF RowLock
<1>2. \A kind : Opening(kind, o) = <<RowLock(o)>>
  BY DEF Opening, RowLock
<1>3. Unlocked("reorder", o) = <<Lock(Row(o), "write")>> \o <<Queue>>
  BY DEF Unlocked, Queue
<1>4. \A kind \in {"leave", "return"} : Unlocked(kind, o) = <<Queue>> \o <<Lock(Row(o), "write")>>
  BY DEF Unlocked, Queue
<1>5. Unlocked("reissue", o) \in Seq(Locks)
      /\ Range(Unlocked("reissue", o)) = {Lock(PendingPayment(o), "write"), Lock(Row(o), "refer")}
  <2> DEFINE a == Lock(PendingPayment(o), "write")
             b == Lock(Row(o), "refer")
             s == <<a, b>>
  <2>1. Unlocked("reissue", o) = s
    BY DEF Unlocked
  <2>2. a \in Locks /\ b \in Locks
    BY <1>1
  <2> HIDE DEF a, b
  <2>3. s \in Seq(Locks) /\ Len(s) = 2 /\ s[1] = a /\ s[2] = b
    BY <2>2
  <2>4. Range(s) = {s[i] : i \in 1..2}
    BY <2>3, RangeEquality
  <2>5. Range(s) = {a, b}
    BY <2>3, <2>4
  <2> QED BY <2>1, <2>3, <2>5 DEF a, b
<1>6. \A kind : Opening(kind, o) \in Seq(Locks) /\ Range(Opening(kind, o)) = {RowLock(o)}
  BY <1>1, <1>2, ShortLists
<1>7. /\ <<Queue>> \o <<Lock(Row(o), "write")>> \in Seq(Locks)
      /\ Range(<<Queue>> \o <<Lock(Row(o), "write")>>) = {Queue, Lock(Row(o), "write")}
      /\ <<Lock(Row(o), "write")>> \o <<Queue>> \in Seq(Locks)
      /\ Range(<<Lock(Row(o), "write")>> \o <<Queue>>) = {Queue, Lock(Row(o), "write")}
  BY <1>1, PairLists
<1>8. \A kind \in CardMoves : /\ Unlocked(kind, o) \in Seq(Locks)
                              /\ Range(Unlocked(kind, o)) = {Queue, Lock(Row(o), "write")}
  BY <1>3, <1>4, <1>7 DEF CardMoves
<1> QED BY <1>5, <1>6, <1>8

\* The locks of a list that starts a handler are what is coming.
LEMMA StartedSound ==
    ASSUME NEW u \in Txns, NEW kind \in Kinds, NEW o \in Orders, NEW first \in Seq(Locks),
           work'[u] = Started(kind, {o}, first), held'[u] = {},
           \A l \in Range(first) : l.on = QueueLock => l = Queue,
           kind # "expire",
           kind \in CardMoves => /\ u \in Admins /\ panel'[u] # Idle /\ panel'[u].order = o
                                 /\ Queue \in Range(first)
                                 /\ Lock(Row(o), "write") \in Range(first),
           kind \notin CardMoves => u \in Tasks,
           kind \in OneOrder => first = Opening(kind, o)
    PROVE  Sound(u)'
<1> DEFINE w == Started(kind, {o}, first)
<1>1. /\ w # Idle /\ w.kind = kind /\ w.orders = {o} /\ w.todo = first /\ w.from = {}
      /\ w.queue = {}
  <2>1. kind \in HandlerKinds /\ {o} \in SUBSET Orders
    BY KindsAssumption
  <2>2. w \in Transaction
    BY <2>1, StartedType
  <2> QED BY <2>2, WorkAssumption DEF Started
<1> HIDE DEF w
<1>2. work'[u] = w
  BY DEF w
<1>3. Coming(u)' = Range(first)
  BY <1>1, <1>2 DEF Coming
<1>4. Runs(u)'
  BY <1>1, <1>2 DEF Runs
<1>5. Reads(u)'
  BY <1>1, <1>2 DEF Reads
<1>6. Claims(u)'
  BY <1>1, <1>2, <1>3 DEF Claims
<1> QED BY <1>1, <1>2, <1>3, <1>4, <1>5, <1>6 DEF Sound

\* A handler of one order starts: nothing is read, nothing is held.
LEMMA BeginOne ==
    ASSUME LocksInv, NEW u \in Txns, work[u] = Idle, NEW kind \in Kinds, NEW o \in Orders,
           NEW first \in Seq(Locks), work' = [work EXCEPT ![u] = Started(kind, {o}, first)],
           held' = held, Footprint(u),
           \A l \in Range(first) : l.on = QueueLock => l = Queue,
           kind # "expire",
           kind \in CardMoves => /\ u \in Admins /\ panel'[u] # Idle /\ panel'[u].order = o
                                 /\ Queue \in Range(first)
                                 /\ Lock(Row(o), "write") \in Range(first),
           kind \notin CardMoves => u \in Tasks,
           kind \in OneOrder => first = Opening(kind, o)
    PROVE  Alone(u) /\ LocksInv'
<1>1. Started(kind, {o}, first) \in Transaction
  <2>1. kind \in HandlerKinds /\ {o} \in SUBSET Orders
    BY KindsAssumption
  <2> QED BY <2>1, StartedType
<1>2. held[u] = {} /\ held' = [held EXCEPT ![u] = {}]
  BY DEF LocksInv, LocksTyped, Sound
<1>3. work'[u] = Started(kind, {o}, first) /\ held'[u] = {}
  BY <1>2 DEF LocksInv, LocksTyped
<1>4. Sound(u)'
  BY <1>3, StartedSound
<1> QED BY <1>1, <1>2, <1>4, OneSteps

\* A transaction that ends holds nothing and knows nothing.
LEMMA TransactionEnds ==
    ASSUME LocksInv, NEW u \in Txns, Release(u), Footprint(u)
    PROVE  Alone(u) /\ LocksInv'
<1>1. work' = [work EXCEPT ![u] = Idle] /\ held' = [held EXCEPT ![u] = {}]
  BY DEF Release
<1>2. work'[u] = Idle /\ held'[u] = {}
  BY <1>1 DEF LocksInv, LocksTyped
<1>3. Sound(u)'
  BY <1>2 DEF Sound
<1> DEFINE w == Idle
           h == {}
<1>4. /\ w \in Transaction \cup {Idle} /\ h \in SUBSET Locks
      /\ work' = [work EXCEPT ![u] = w] /\ held' = [held EXCEPT ![u] = h]
      /\ \A t \in Txns \ {u} : \A a \in h, b \in held[t] : ~Conflict(a, b)
  BY <1>1
<1> HIDE DEF w, h
<1> QED BY <1>3, <1>4, OneSteps

\* A step that changes nothing but a transaction's locks keeps the board.
LEMMA BoardKept ==
    ASSUME LocksInv, UNCHANGED boardVars, NEW u
    PROVE  Footprint(u)
<1>1. PaidInv'
  BY PaidStep DEF LocksInv
<1> QED BY <1>1, NoFootprint DEF LocksInv, boardVars

\* A locked handler starts at the row of its order.
LEMMA BeginStep ==
    ASSUME LocksInv, NEW t \in Tasks, NEW kind \in Kinds, NEW o \in Orders, Begin(t, kind, o)
    PROVE  Alone(t) /\ LocksInv'
<1>1. /\ kind \in {"confirm", "withdraw", "cancel"} /\ work[t] = Idle /\ held' = held
      /\ work' = [work EXCEPT ![t] = Started(kind, {o}, Opening(kind, o))]
      /\ UNCHANGED boardVars /\ t \in Txns
  BY DEF Begin, Txns
<1>2. Footprint(t)
  BY <1>1, BoardKept
<1>3. Opening(kind, o) \in Seq(Locks) /\ \A l \in Range(Opening(kind, o)) : l.on # QueueLock
  BY FirstLocks, LocksOfOrder, ThingsDiffer DEF RowLock
<1>4. kind # "expire" /\ kind \notin CardMoves
  BY <1>1 DEF CardMoves
<1> QED BY <1>1, <1>2, <1>3, <1>4, BeginOne

\* A pay link is issued anew.
LEMMA BeginReissueStep ==
    ASSUME LocksInv, NEW t \in Tasks, NEW o \in Orders, BeginReissue(t, o)
    PROVE  Alone(t) /\ LocksInv'
<1> DEFINE first == Unlocked("reissue", o)
<1>1. /\ "reissue" \in Kinds /\ work[t] = Idle /\ held' = held /\ t \in Txns
      /\ work' = [work EXCEPT ![t] = Started("reissue", {o}, first)]
      /\ UNCHANGED boardVars
  BY DEF BeginReissue, Txns
<1>2. Footprint(t)
  BY <1>1, BoardKept
<1>3. first \in Seq(Locks) /\ \A l \in Range(first) : l.on # QueueLock
  BY FirstLocks, LocksOfOrder, ThingsDiffer
<1>4. "reissue" # "expire" /\ "reissue" \notin CardMoves /\ "reissue" \notin OneOrder
  BY DEF CardMoves, OneOrder
<1> HIDE DEF first
<1> QED BY <1>1, <1>2, <1>3, <1>4, BeginOne

\* A session that loads a card runs nothing.
LEMMA IdleSession ==
    ASSUME LocksInv, NEW a \in Admins, NEW o \in Orders, LoadCard(a, o)
    PROVE  work[a] = Idle
<1> SUFFICES ASSUME work[a] # Idle PROVE FALSE
  OBVIOUS
<1>1. Sound(a) /\ panel[a] = Idle
  BY DEF LocksInv, LoadCard, Txns
<1>2. work[a].kind \notin CardMoves
  BY <1>1 DEF Sound, Runs
<1>3. a \in Tasks
  BY <1>1, <1>2 DEF Sound, Runs
<1> QED BY <1>3, TasksAssumption

\* A panel request loads the card it is going to move.
LEMMA BeginMoveStep ==
    ASSUME LocksInv, NEW a \in Admins, NEW kind \in Kinds, NEW o \in Orders,
           BeginMove(a, kind, o)
    PROVE  Alone(a) /\ LocksInv'
<1> DEFINE first == Unlocked(kind, o)
<1>1. /\ kind \in CardMoves /\ LoadCard(a, o) /\ held' = held /\ a \in Txns
      /\ work' = [work EXCEPT ![a] = Started(kind, {o}, first)]
  BY DEF BeginMove, CardMoves, Txns
<1>2. /\ panel' = [panel EXCEPT ![a] = Fresh(o)] /\ UNCHANGED <<status, paidAt, qpos>>
      /\ TypeOK /\ PaidInv
  BY <1>1 DEF LoadCard, LocksInv, PaidInv
<1>3. PaidInv'
  BY <1>1, <1>2, PaidStep DEF BoardNext, PanelNext
<1>4. Fresh(o) \in Loaded /\ Fresh(o).order = o
  BY <1>2, FreshType DEF Fresh
<1>5. /\ panel'[a] = Fresh(o) /\ panel'[a] # Idle
      /\ \A b \in Admins \ {a} : panel'[b] = panel[b]
  BY <1>2, <1>4, IdleAssumption DEF TypeOK
<1>6. Footprint(a)
  BY <1>2, <1>3, <1>5, NoFootprint
<1>7. first \in Seq(Locks) /\ Range(first) = {Queue, Lock(Row(o), "write")}
  BY <1>1, FirstLocks
<1>8. \A l \in Range(first) : l.on = QueueLock => l = Queue
  BY <1>7, LocksOfOrder, ThingsDiffer
<1>9. work[a] = Idle
  BY <1>1, IdleSession
<1>10. kind # "expire" /\ kind \notin OneOrder
  BY <1>1 DEF CardMoves, OneOrder
<1> HIDE DEF first
<1> QED BY <1>1, <1>4, <1>5, <1>6, <1>7, <1>8, <1>9, <1>10, BeginOne

\* The expiry takes the rows it finds free and notes their stage.
LEMMA BeginExpireStep ==
    ASSUME LocksInv, NEW t \in Tasks, NEW S \in SUBSET Orders, BeginExpire(t, S)
    PROVE  Alone(t) /\ LocksInv'
<1> DEFINE rows == {Lock(Row(o), "update") : o \in S}
           payments(q) == [i \in 1..Len(q) |-> Lock(PendingPayment(q[i]), "write")]
<1>1. PICK seq \in SetToSeqs(S) :
          work' = [work EXCEPT ![t] = [Started("expire", S, payments(seq))
                                         EXCEPT !.from = {"waiting_payment"}]]
  BY DEF BeginExpire
<1>2. /\ "expire" \in Kinds /\ work[t] = Idle /\ UNCHANGED boardVars /\ t \in Txns
      /\ \A o \in S : status[o] = "waiting_payment"
      /\ \A u \in Txns \ {t}, a \in rows : \A b \in held[u] : ~Conflict(a, b)
      /\ held' = [held EXCEPT ![t] = rows]
  BY DEF BeginExpire, Txns
<1>3. S \in SUBSET Orders /\ Cardinality(S) \in Nat
  BY OrdersAssumption, FS_Subset, FS_CardinalityType
<1>4. seq \in [1..Cardinality(S) -> S] /\ Len(seq) = Cardinality(S)
  BY <1>3 DEF SetToSeqs
<1> DEFINE todo == payments(seq)
<1>5. \A i \in 1..Len(seq) : seq[i] \in Orders /\ Lock(PendingPayment(seq[i]), "write") \in Locks
  BY <1>3, <1>4, LocksOfOrder
<1>6. todo \in [1..Len(seq) -> Locks]
  BY <1>5
<1>7. todo \in Seq(Locks)
  BY <1>3, <1>4, <1>6
<1>8. \A l \in Range(todo) : l.on # QueueLock
  BY <1>5, <1>6, LocksOfOrder, ThingsDiffer DEF Range
<1> DEFINE w == [Started("expire", S, todo) EXCEPT !.from = {"waiting_payment"}]
<1> HIDE DEF todo
<1>9. /\ w \in Transaction /\ w.kind = "expire" /\ w.orders = S /\ w.todo = todo
      /\ w.from = {"waiting_payment"} /\ w.queue = {}
  BY <1>7 DEF Started, Transaction, HandlerKinds, OrderStatus
<1>10. work' = [work EXCEPT ![t] = w]
  BY <1>1 DEF todo
<1>11. rows \in SUBSET Locks /\ \A l \in rows : l.on # QueueLock
  BY LocksOfOrder, ThingsDiffer
<1> HIDE DEF w
<1>12. work'[t] = w /\ held'[t] = rows /\ w # Idle
  BY <1>2, <1>9, <1>10, WorkAssumption DEF LocksInv, LocksTyped
<1>13. Runs(t)'
  BY <1>2, <1>9, <1>12 DEF Runs, CardMoves, OneOrder
<1>14. Reads(t)'
  BY <1>2, <1>9, <1>12 DEF Reads, RowLock, boardVars
<1>15. Claims(t)'
  BY <1>9, <1>12 DEF Claims, CardMoves
<1>16. \A l \in Coming(t)' : l.on # QueueLock
  BY <1>8, <1>9, <1>11, <1>12 DEF Coming
<1>17. Sound(t)'
  BY <1>12, <1>13, <1>14, <1>15, <1>16 DEF Sound
<1>18. Footprint(t)
  BY <1>2, BoardKept
<1>19. \A u \in Txns \ {t} : \A a \in rows, b \in held[u] : ~Conflict(a, b)
  BY <1>2
<1> HIDE DEF rows
<1> QED BY <1>2, <1>9, <1>10, <1>11, <1>17, <1>18, <1>19, OneSteps

\* A lock that nobody's lock excludes is free to take.
LEMMA FreeLock ==
    ASSUME LocksInv, NEW t \in Txns, work[t] # Idle, work[t].todo # <<>>,
           \A u \in Txns : ~Blocked(t, u)
    PROVE  \A u \in Txns \ {t} : \A a \in held[t] \cup {Head(work[t].todo)}, b \in held[u] :
               ~Conflict(a, b)
BY DEF Blocked, LocksInv, Exclusive

\* A transaction that has taken a lock and asks for the locks of new.todo next
\* is sound when it has lost none of the locks it was to ask for and what it
\* now knows is under its locks.
LEMMA AcquireSound ==
    ASSUME LocksInv, NEW t \in Txns, work[t] # Idle, UNCHANGED boardVars,
           NEW new \in Transaction, NEW lock \in Locks,
           work'[t] = new, held'[t] = held[t] \cup {lock},
           new.kind = work[t].kind, new.orders = work[t].orders,
           \A l \in {lock} \cup Range(new.todo) : l.on = QueueLock => l = Queue,
           new.kind \in OneOrder => new.from # {},
           new.kind = "expire" => new.from = {"waiting_payment"},
           Reads(t)', Claims(t)'
    PROVE  Sound(t)'
<1>1. Sound(t) /\ new # Idle
  BY WorkAssumption DEF LocksInv
<1>2. Runs(t)'
  BY <1>1 DEF Runs, Sound, boardVars
<1>3. \A l \in Coming(t)' : l.on = QueueLock => l = Queue
  BY <1>1 DEF Coming, Sound
<1> QED BY <1>1, <1>2, <1>3 DEF Sound

\* What a handler claims stays claimed while it loses no lock and learns no stage.
LEMMA ClaimsStay ==
    ASSUME NEW t, Claims(t), UNCHANGED boardVars, Coming(t) \subseteq Coming(t)',
           work'[t].kind = work[t].kind, work'[t].orders = work[t].orders,
           work'[t].from = work[t].from
    PROVE  Claims(t)'
BY DEF Claims, boardVars

\* The next lock is granted.
LEMMA AcquireStep ==
    ASSUME LocksInv, NEW t \in Txns, Acquire(t)
    PROVE  Alone(t) /\ LocksInv'
<1> DEFINE w == work[t]
           lock == Head(w.todo)
           o == CHOOSE x \in w.orders : TRUE
           opening == /\ lock = Lock(Row(o), "update") /\ w.from = {}
                      /\ w.kind \in {"confirm", "withdraw", "cancel"}
<1>1. /\ w # Idle /\ w.todo # <<>> /\ \A u \in Txns : ~Blocked(t, u)
      /\ held' = [held EXCEPT ![t] = @ \cup {lock}] /\ UNCHANGED boardVars
  BY DEF Acquire
<1>2. \/ /\ lock.on = QueueLock
         /\ \E rows \in QueueRows :
               work' = [work EXCEPT ![t] = [w EXCEPT !.todo = rows \o Tail(@),
                                                     !.queue = {QueueRead}]]
      \/ opening /\ work' = [work EXCEPT ![t] = [w EXCEPT !.todo = AfterLock(w.kind, o),
                                                          !.from = {status[o]}]]
      \/ /\ lock.on # QueueLock /\ ~opening
         /\ work' = [work EXCEPT ![t] = [w EXCEPT !.todo = Tail(@)]]
  BY DEF Acquire
<1>3. /\ w \in Transaction /\ held[t] \in SUBSET Locks /\ Sound(t) /\ TypeOK
      /\ Runs(t) /\ Reads(t) /\ Claims(t)
  BY <1>1 DEF LocksInv, LocksTyped, Sound, PaidInv
<1>4. w.todo \in Seq(Locks) /\ w.kind \in HandlerKinds /\ w.from \in SUBSET OrderStatus
  BY <1>3 DEF Transaction
<1> DEFINE todo == w.todo
<1>5. /\ lock \in Locks /\ Tail(todo) \in Seq(Locks)
      /\ Range(todo) = {lock} \cup Range(Tail(todo))
  BY <1>1, <1>4, FirstAndRest
<1>6. \A l \in {lock} \cup Range(Tail(w.todo)) : l.on = QueueLock => l = Queue
  BY <1>1, <1>3, <1>5 DEF Sound, Coming
<1>7. ASSUME w.kind \in OneOrder, w.from = {} PROVE opening /\ o \in Orders /\ w.orders = {o}
  <2>1. PICK x \in Orders : w.orders = {x}
    BY <1>3, <1>7 DEF Runs, OneOrder
  <2>2. o = x /\ w.todo = Opening(w.kind, o)
    BY <1>3, <1>7, <2>1 DEF Runs
  <2>3. lock = Lock(Row(o), "update")
    BY <2>2 DEF Opening
  <2> QED BY <1>7, <2>1, <2>2, <2>3 DEF OneOrder
<1>8. w.kind = "expire" => w.from = {"waiting_payment"}
  BY <1>3 DEF Runs
<1>9. Footprint(t) /\ held'[t] = held[t] \cup {lock} /\ held[t] \cup {lock} \in SUBSET Locks
  BY <1>1, <1>3, <1>5, BoardKept DEF LocksInv, LocksTyped
<1>10. \A u \in Txns \ {t} : \A a \in held[t] \cup {lock}, b \in held[u] : ~Conflict(a, b)
  BY <1>1, FreeLock
<1>11. ASSUME NEW new \in Transaction, work' = [work EXCEPT ![t] = new], Sound(t)'
       PROVE  Alone(t) /\ LocksInv'
  <2> DEFINE h == held[t] \cup {lock}
  <2>1. /\ h \in SUBSET Locks /\ held' = [held EXCEPT ![t] = h]
        /\ \A u \in Txns \ {t} : \A a \in h, b \in held[u] : ~Conflict(a, b)
    BY <1>1, <1>9, <1>10
  <2> HIDE DEF h
  <2> QED BY <1>9, <1>11, <2>1, OneSteps
<1> HIDE DEF todo
<1>12. CASE lock.on = QueueLock
  <2>1. ~opening
    <3>1. opening => w.kind \in OneOrder /\ w.from = {}
      BY DEF OneOrder
    <3>2. opening => o \in Orders
      BY <1>7, <3>1
    <3>3. lock = Lock(Row(o), "update") => lock.on = Row(o)
      BY DEF Lock
    <3> QED BY <1>12, <3>2, <3>3, ThingsDiffer
  <2>2. PICK rows \in QueueRows :
           work' = [work EXCEPT ![t] = [w EXCEPT !.todo = rows \o Tail(@),
                                                 !.queue = {QueueRead}]]
    BY <1>2, <1>12, <2>1
  <2> DEFINE next == rows \o Tail(w.todo)
             new == [w EXCEPT !.todo = next, !.queue = {QueueRead}]
  <2>3. /\ next \in Seq(Locks) /\ Range(next) = Range(rows) \cup Range(Tail(w.todo))
        /\ \A l \in Range(rows) : l.on # QueueLock
    <3>1. rows \in Seq(Locks) /\ \A l \in Range(rows) : \E x \in InQueue(status) : l = RowLock(x)
      BY QueueRowsAsked
    <3>2. \A x \in InQueue(status) : x \in Orders /\ RowLock(x).on = Row(x)
      BY DEF InQueue, RowLock, Lock
    <3>3. Tail(w.todo) \in Seq(Locks)
      BY <1>5 DEF todo
    <3> DEFINE rest == Tail(w.todo)
    <3> HIDE DEF rest
    <3>4. rows \o rest \in Seq(Locks) /\ Range(rows \o rest) = Range(rows) \cup Range(rest)
      BY <3>1, <3>3, ListsJoined DEF rest
    <3>5. \A l \in Range(rows) : l.on # QueueLock
      BY <3>1, <3>2, ThingsDiffer
    <3> QED BY <3>4, <3>5 DEF rest
  <2>4. work' = [work EXCEPT ![t] = new]
    BY <2>2
  <2>5. QueueRead \in [Orders -> Nat]
    BY <1>3 DEF QueueRead, TypeOK
  <2> HIDE DEF next
  <2>6. /\ new \in Transaction /\ new.kind = w.kind /\ new.orders = w.orders /\ new.todo = next
        /\ new.from = w.from /\ new.queue = {QueueRead}
    BY <1>3, <2>3, <2>5 DEF Transaction
  <2> HIDE DEF new
  <2>7. work'[t] = new
    BY <2>4 DEF LocksInv, LocksTyped
  <2>8. lock = Queue
    BY <1>6, <1>12
  <2>9. Coming(t) \subseteq Coming(t)'
    BY <1>5, <1>9, <2>3, <2>6, <2>7 DEF Coming, todo
  <2>10. Claims(t)'
    BY <1>1, <1>3, <2>6, <2>7, <2>9, ClaimsStay
  <2>11. Reads(t)'
    BY <1>1, <1>3, <1>9, <2>6, <2>7, <2>8 DEF Reads, boardVars, QueueRead, InQueue
  <2>12. Sound(t)'
    BY <1>1, <1>5, <1>6, <1>7, <1>8, <1>9, <2>1, <2>3, <2>6, <2>7, <2>10, <2>11, AcquireSound, SMTT(30)
  <2> QED BY <1>11, <2>4, <2>6, <2>12
<1>13. CASE lock.on # QueueLock /\ ~opening
  <2> DEFINE next == Tail(w.todo)
             new == [w EXCEPT !.todo = next]
  <2>1. work' = [work EXCEPT ![t] = new]
    BY <1>2, <1>13
  <2>2. next \in Seq(Locks)
    BY <1>5 DEF todo
  <2> HIDE DEF next
  <2>3. /\ new \in Transaction /\ new.kind = w.kind /\ new.orders = w.orders /\ new.todo = next
        /\ new.from = w.from /\ new.queue = w.queue
    BY <1>3, <2>2 DEF Transaction
  <2> HIDE DEF new
  <2>4. work'[t] = new
    BY <2>1 DEF LocksInv, LocksTyped
  <2>5. Coming(t) \subseteq Coming(t)'
    BY <1>5, <1>9, <2>3, <2>4 DEF Coming, todo, next
  <2>6. Claims(t)'
    BY <1>1, <1>3, <2>3, <2>4, <2>5, ClaimsStay
  <2>7. Reads(t)'
    BY <1>1, <1>3, <1>9, <2>3, <2>4 DEF Reads, boardVars, QueueRead, InQueue
  <2>8. \A l \in {lock} \cup Range(new.todo) : l.on = QueueLock => l = Queue
    BY <1>6, <2>3 DEF next
  <2>9. Sound(t)'
    BY <1>1, <1>5, <1>7, <1>8, <1>9, <1>13, <2>3, <2>4, <2>6, <2>7, <2>8, AcquireSound
  <2> QED BY <1>11, <2>1, <2>3, <2>9
<1>14. CASE lock.on # QueueLock /\ opening
  <2>1. work' = [work EXCEPT ![t] = [w EXCEPT !.todo = AfterLock(w.kind, o),
                                              !.from = {status[o]}]]
    BY <1>2, <1>14
  <2>2. w.kind \in OneOrder /\ o \in Orders /\ w.orders = {o} /\ lock = RowLock(o)
    BY <1>7, <1>14 DEF OneOrder, RowLock
  <2> DEFINE next == AfterLock(w.kind, o)
             new == [w EXCEPT !.todo = next, !.from = {status[o]}]
  <2>3. /\ next \in Seq(Locks)
        /\ Range(next) \subseteq {Lock(PendingPayment(o), m) : m \in {"update", "write", "refer"}}
                                   \cup {Queue}
        /\ w.kind = "confirm" => (Queue \in Range(next)
             <=> status[o] \in {"waiting_payment", "cancelled"} /\ ~paidAt[o])
        /\ w.kind = "cancel" /\ status[o] \in QueueStatuses => Queue \in Range(next)
    BY <2>2, AfterLockAsks DEF OneOrder
  <2>4. status[o] \in OrderStatus
    BY <1>3, <2>2 DEF TypeOK
  <2> HIDE DEF next
  <2>5. /\ new \in Transaction /\ new.kind = w.kind /\ new.orders = w.orders /\ new.todo = next
        /\ new.from = {status[o]} /\ new.queue = w.queue
    BY <1>3, <2>3, <2>4 DEF Transaction
  <2>6. work' = [work EXCEPT ![t] = new]
    BY <2>1 DEF next
  <2> HIDE DEF new
  <2>7. work'[t] = new
    BY <2>6 DEF LocksInv, LocksTyped
  <2>8. Claims(t)'
    BY <1>1, <2>2, <2>3, <2>5, <2>7 DEF Claims, Coming, boardVars, OneOrder, CardMoves
  <2>9. Reads(t)'
    BY <1>1, <1>3, <1>9, <2>2, <2>5, <2>7, ZenonT(30) DEF Reads, boardVars, QueueRead, InQueue
  <2>10. \A l \in {lock} \cup Range(new.todo) : l.on = QueueLock => l = Queue
    BY <1>6, <2>2, <2>3, <2>5, LocksOfOrder, ThingsDiffer
  <2>11. new.from # {} /\ new.kind # "expire"
    BY <2>2, <2>5 DEF OneOrder
  <2>12. Sound(t)'
    BY <1>1, <1>5, <1>9, <2>5, <2>7, <2>8, <2>9, <2>10, <2>11, AcquireSound
  <2> QED BY <1>11, <2>5, <2>6, <2>12
<1> QED BY <1>12, <1>13, <1>14

\* A transaction that is rolled back changes no order.
LEMMA AbortStep ==
    ASSUME LocksInv, NEW t \in Txns, Abort(t)
    PROVE  Alone(t) /\ LocksInv'
<1>1. Release(t)
  BY DEF Abort
<1>2. Footprint(t)
  <2>1. CASE t \in Admins
    <3>1. GiveUp(t)
      BY <2>1 DEF Abort
    <3>2. PaidInv'
      BY <2>1, <3>1, PaidStep DEF LocksInv, BoardNext, PanelNext
    <3>3. /\ UNCHANGED <<status, paidAt, qpos>>
          /\ \A b \in Admins \ {t} : panel'[b] = panel[b]
      BY <3>1 DEF GiveUp, LocksInv, PaidInv, TypeOK
    <3> QED BY <3>2, <3>3, NoFootprint DEF LocksInv
  <2>2. CASE t \notin Admins
    BY <2>2, BoardKept DEF Abort
  <2> QED BY <2>1, <2>2
<1> QED BY <1>1, <1>2, TransactionEnds

LEMMA CommitStep ==
    ASSUME LocksInv, NEW t \in Txns, Commit(t)
    PROVE  Alone(t) /\ LocksInv'
BY CommitFootprint, TransactionEnds DEF Commit

-----------------------------------------------------------------------------
(* Theorems. *)

LEMMA LocksStart == LocksInit => LocksInv
<1> SUFFICES ASSUME LocksInit PROVE LocksInv
  OBVIOUS
<1>1. TypeOK
  BY OrdersAssumption, FS_CardinalityType DEF LocksInit, TypeOK, OrderStatus
<1>2. PaidInv
  BY <1>1 DEF LocksInit, PaidInv, WorkIsPaid, PanelKnowsPaid, PaidStatuses, QueueStatuses
<1>3. \A t \in Txns : work[t] = Idle /\ held[t] = {}
  BY DEF LocksInit
<1>4. LocksTyped
  BY DEF LocksInit, LocksTyped
<1> QED BY <1>2, <1>3, <1>4 DEF LocksInv, Exclusive, Sound

LEMMA LocksStep == LocksInv /\ [LocksNext]_lockVars => LocksInv'
<1> SUFFICES ASSUME LocksInv, [LocksNext]_lockVars PROVE LocksInv'
  OBVIOUS
<1>1. ASSUME NEW t \in Tasks, NEW o \in Orders, NEW kind \in Kinds, Begin(t, kind, o)
      PROVE  LocksInv'
  BY <1>1, BeginStep
<1>2. ASSUME NEW t \in Tasks, NEW o \in Orders, BeginReissue(t, o) PROVE LocksInv'
  BY <1>2, BeginReissueStep
<1>3. ASSUME NEW t \in Tasks, NEW S \in SUBSET Orders, BeginExpire(t, S) PROVE LocksInv'
  BY <1>3, BeginExpireStep
<1>4. ASSUME NEW a \in Admins, NEW kind \in Kinds, NEW o \in Orders, BeginMove(a, kind, o)
      PROVE  LocksInv'
  BY <1>4, BeginMoveStep
<1>5. ASSUME NEW t \in Txns, Acquire(t) \/ Commit(t) \/ Abort(t) PROVE LocksInv'
  BY <1>5, AcquireStep, CommitStep, AbortStep
<1>6. CASE UNCHANGED lockVars
  <2>1. UNCHANGED <<status, paidAt, qpos, panel, work, held>>
    BY <1>6 DEF lockVars, boardVars
  <2>2. PaidInv'
    BY <2>1, PaidStep DEF boardVars, LocksInv
  <2>3. \A t \in Txns : Sound(t)'
    BY <2>1 DEF LocksInv, Sound, Runs, Reads, Claims, Coming, QueueRead, InQueue
  <2> QED BY <2>1, <2>2, <2>3 DEF LocksInv, LocksTyped, Exclusive, Txns
<1> QED BY <1>1, <1>2, <1>3, <1>4, <1>5, <1>6 DEF LocksNext

\* What a handler of the queue has read under its locks holds until it ends,
\* however many transactions run and whatever they do (orders.lock,
\* load_queue): the step of module Board is a fair picture of the transaction.
THEOREM LocksReadsHold == LocksSpec => []ReadsHold
<1>1. LocksInv => ReadsHold
  BY DEF LocksInv, Sound, Reads, ReadsHold
<1> QED BY LocksStart, LocksStep, <1>1, PTL DEF LocksSpec

-----------------------------------------------------------------------------
(* Who never waits in a circle. *)

\* A transaction that asks for the queue has not asked for it before, and asks
\* for nothing after it but the row of a paid order, whose card is moved.
AsksQueueOnce(t) ==
    \E o \in Orders :
        \/ work[t].todo \in {<<Lock(PendingPayment(o), "update")>> \o <<Queue>>, <<Queue>>}
        \/ work[t].todo = <<Queue>> \o <<Lock(Row(o), "write")>> /\ paidAt[o]

\* The order in which the orderly handlers take their locks: the payment of an
\* order after its row; a row first of all, or under the queue, and then that
\* of a paid order; and while it waits for the queue, a handler has locked rows
\* of unpaid orders alone.
InOrder(t) ==
    LET todo == work[t].todo IN
    /\ \A l \in Coming(t), x \in Orders : l.on = PendingPayment(x) => RowLock(x) \in held[t]
    /\ \A l \in Range(todo), x \in Orders : l.on = Row(x) =>
          \/ Queue \in held[t] /\ paidAt[x]
          \/ held[t] = {} /\ (todo = <<RowLock(x)>> \/ Queue \in Range(todo))
    /\ Queue \in Range(todo) =>
          /\ AsksQueueOnce(t)
          /\ \A l \in held[t], x \in Orders : l.on = Row(x) => l = RowLock(x) /\ ~paidAt[x]

Orderly(t) == work[t] # Idle /\ work[t].kind \in OrderlyKinds => InOrder(t)

OrderlyInv == LocksInv /\ \A t \in Txns : Orderly(t)

\* The shapes a list that asks for the queue can have.
LEMMA QueueAsked ==
    ASSUME NEW o \in Orders
    PROVE  /\ Head(<<Lock(PendingPayment(o), "update")>> \o <<Queue>>)
                = Lock(PendingPayment(o), "update")
           /\ Tail(<<Lock(PendingPayment(o), "update")>> \o <<Queue>>) = <<Queue>>
           /\ Head(<<Queue>>) = Queue /\ Tail(<<Queue>>) = <<>>
           /\ Head(<<Queue>> \o <<Lock(Row(o), "write")>>) = Queue
           /\ Tail(<<Queue>> \o <<Lock(Row(o), "write")>>) = <<Lock(Row(o), "write")>>
           /\ Tail(<<RowLock(o)>>) = <<>>
<1>1. ASSUME NEW a, NEW b PROVE
          /\ Head(<<a>> \o <<b>>) = a /\ Tail(<<a>> \o <<b>>) = <<b>>
          /\ Head(<<a>>) = a /\ Tail(<<a>>) = <<>>
  <2>1. <<a>> \o <<b>> = <<a, b>>
    <3> DEFINE s == <<a>>
               r == <<b>>
               p == <<a, b>>
    <3>1. /\ s \in Seq({a, b}) /\ Len(s) = 1 /\ s[1] = a
          /\ r \in Seq({a, b}) /\ Len(r) = 1 /\ r[1] = b
          /\ p \in Seq({a, b}) /\ Len(p) = 2 /\ p[1] = a /\ p[2] = b
      OBVIOUS
    <3> HIDE DEF s, r, p
    <3>2. /\ s \o r \in Seq({a, b}) /\ Len(s \o r) = Len(s) + Len(r)
          /\ \A i \in 1..(Len(s) + Len(r)) :
                (s \o r)[i] = IF i <= Len(s) THEN s[i] ELSE r[i - Len(s)]
      BY <3>1, ConcatProperties
    <3>3. Len(s \o r) = 2 /\ (s \o r)[1] = s[1] /\ (s \o r)[2] = r[1]
      BY <3>1, <3>2
    <3>4. s \o r = p
      BY <3>1, <3>2, <3>3, SeqEqual
    <3> QED BY <3>4 DEF s, r, p
  <2>2. Head(<<a, b>>) = a /\ Tail(<<a, b>>) = <<b>>
    OBVIOUS
  <2>3. Head(<<a>>) = a /\ Tail(<<a>>) = <<>>
    OBVIOUS
  <2> QED BY <2>1, <2>2, <2>3
<1> DEFINE p == Lock(PendingPayment(o), "update")
           r == Lock(Row(o), "write")
<1>2. Head(<<p>> \o <<Queue>>) = p /\ Tail(<<p>> \o <<Queue>>) = <<Queue>>
  BY <1>1
<1>3. Head(<<Queue>> \o <<r>>) = Queue /\ Tail(<<Queue>> \o <<r>>) = <<r>>
  BY <1>1
<1>4. Head(<<Queue>>) = Queue /\ Tail(<<Queue>>) = <<>> /\ Tail(<<RowLock(o)>>) = <<>>
  BY <1>1
<1> QED BY <1>2, <1>3, <1>4

\* A step of another transaction leaves a handler in order.
LEMMA OthersInOrder ==
    ASSUME LocksInv, NEW u \in Txns, Alone(u), NEW t \in Txns, t # u, Orderly(t)
    PROVE  Orderly(t)'
<1> SUFFICES ASSUME work[t] # Idle, work[t].kind \in OrderlyKinds PROVE InOrder(t)'
  BY DEF Orderly, Alone
<1>1. InOrder(t) /\ work'[t] = work[t] /\ held'[t] = held[t] /\ Footprint(u) /\ Exclusive
  BY DEF Orderly, Alone, LocksInv
<1>2. Coming(t)' = Coming(t)
  BY <1>1 DEF Coming
<1>3. \A x \in Orders : paidAt[x] => paidAt'[x]
  BY <1>1 DEF Footprint
<1>4. \A x \in Orders : RowLock(x) \in held[t] => paidAt'[x] = paidAt[x]
  BY <1>1, RowKept
<1>5. AsksQueueOnce(t) => AsksQueueOnce(t)'
  BY <1>1, <1>3 DEF AsksQueueOnce
<1>6. (\A l \in held[t], x \in Orders : l.on = Row(x) => l = RowLock(x) /\ ~paidAt[x])
        => \A l \in held[t], x \in Orders : l.on = Row(x) => l = RowLock(x) /\ ~paidAt'[x]
  BY <1>4
<1> QED BY <1>1, <1>2, <1>3, <1>5, <1>6 DEF InOrder

\* The handlers that start with a lock of their own choice are in order.
LEMMA BeginInOrder ==
    ASSUME LocksInv, NEW t \in Tasks, NEW kind \in Kinds, NEW o \in Orders, Begin(t, kind, o)
    PROVE  Orderly(t)'
<1> DEFINE first == Opening(kind, o)
<1>1. /\ work[t] = Idle /\ held' = held /\ t \in Txns
      /\ work' = [work EXCEPT ![t] = Started(kind, {o}, first)]
  BY DEF Begin, Txns
<1>2. work'[t] = Started(kind, {o}, first) /\ held'[t] = {}
  BY <1>1 DEF LocksInv, LocksTyped, Sound
<1>3. work'[t].todo = first
  BY <1>2 DEF Started
<1>4. first = <<RowLock(o)>> /\ Range(first) = {RowLock(o)}
  BY FirstLocks DEF Opening, RowLock
<1>5. RowLock(o).on = Row(o) /\ Queue # RowLock(o)
  BY LocksOfOrder, ThingsDiffer DEF RowLock
<1> HIDE DEF first
<1> QED BY <1>2, <1>3, <1>4, <1>5, ThingsDiffer DEF Orderly, InOrder, Coming

LEMMA BeginMoveInOrder ==
    ASSUME LocksInv, NEW a \in Admins, NEW kind \in Kinds, NEW o \in Orders,
           BeginMove(a, kind, o), work[a] = Idle
    PROVE  Orderly(a)'
<1> SUFFICES ASSUME kind \in {"leave", "return"} PROVE InOrder(a)'
  <2>1. a \in Txns /\ work' = [work EXCEPT ![a] = Started(kind, {o}, Unlocked(kind, o))]
    BY DEF BeginMove, Txns
  <2>2. work'[a].kind = kind /\ (kind \in OrderlyKinds => kind \in {"leave", "return"})
    BY <2>1 DEF LocksInv, LocksTyped, Started, BeginMove, OrderlyKinds
  <2> QED BY <2>2 DEF Orderly
<1> DEFINE first == Unlocked(kind, o)
           r == Lock(Row(o), "write")
<1>1. /\ held' = held /\ a \in Txns /\ LoadCard(a, o)
      /\ work' = [work EXCEPT ![a] = Started(kind, {o}, first)]
      /\ status[o] \in PaidStatuses
  BY DEF BeginMove, Txns, PaidStatuses
<1>2. work'[a] = Started(kind, {o}, first) /\ held'[a] = {}
  BY <1>1 DEF LocksInv, LocksTyped, Sound
<1>3. work'[a].todo = first
  BY <1>2 DEF Started
<1>4. first = <<Queue>> \o <<r>> /\ Range(first) = {Queue, r}
  BY FirstLocks DEF Unlocked, Queue, CardMoves
<1>5. r.on = Row(o) /\ Queue.on = QueueLock
  BY LocksOfOrder
<1>6. paidAt'[o]
  BY <1>1 DEF LoadCard, LocksInv, PaidInv, WorkIsPaid
<1> HIDE DEF first
<1>7. AsksQueueOnce(a)'
  BY <1>3, <1>4, <1>6 DEF AsksQueueOnce
<1> QED BY <1>2, <1>3, <1>4, <1>5, <1>7, ThingsDiffer DEF InOrder, Coming

LEMMA BeginExpireInOrder ==
    ASSUME LocksInv, NEW t \in Tasks, NEW S \in SUBSET Orders, BeginExpire(t, S)
    PROVE  Orderly(t)'
<1> DEFINE rows == {Lock(Row(o), "update") : o \in S}
           payments(q) == [i \in 1..Len(q) |-> Lock(PendingPayment(q[i]), "write")]
<1>1. PICK seq \in SetToSeqs(S) :
          work' = [work EXCEPT ![t] = [Started("expire", S, payments(seq))
                                         EXCEPT !.from = {"waiting_payment"}]]
  BY DEF BeginExpire
<1>2. t \in Txns /\ held' = [held EXCEPT ![t] = rows]
  BY DEF BeginExpire, Txns
<1>3. S \in SUBSET Orders /\ Cardinality(S) \in Nat
  BY OrdersAssumption, FS_Subset, FS_CardinalityType
<1>4. seq \in [1..Cardinality(S) -> S] /\ Len(seq) = Cardinality(S)
  BY <1>3 DEF SetToSeqs
<1> DEFINE todo == payments(seq)
<1>5. \A l \in Range(todo) : \E x \in S : l = Lock(PendingPayment(x), "write")
  BY <1>4 DEF Range
<1>6. work'[t].todo = todo /\ held'[t] = rows
  BY <1>1, <1>2 DEF LocksInv, LocksTyped, Started
<1> HIDE DEF todo
<1>7. \A l \in Range(todo) : \E x \in S : l.on = PendingPayment(x)
  BY <1>5, LocksOfOrder
<1>8. \A l \in rows : \E x \in S : l.on = Row(x)
  BY LocksOfOrder
<1>9. \A x \in S : RowLock(x) \in rows
  BY DEF RowLock
<1>10. Queue.on = QueueLock
  BY DEF Queue, Lock
<1> HIDE DEF rows
<1>11. \A l \in Coming(t)', x \in Orders : l.on = PendingPayment(x) => RowLock(x) \in held'[t]
  BY <1>6, <1>7, <1>8, <1>9, ThingsDiffer DEF Coming
<1>12. \A l \in Range(todo), x \in Orders : l.on # Row(x)
  BY <1>7, ThingsDiffer
<1>13. Queue \notin Range(todo)
  BY <1>7, <1>10, ThingsDiffer
<1> QED BY <1>6, <1>11, <1>12, <1>13 DEF Orderly, InOrder

\* A handler that is granted its next lock stays in order.
LEMMA AcquireInOrder ==
    ASSUME LocksInv, NEW t \in Txns, Acquire(t), Orderly(t)
    PROVE  Orderly(t)'
<1> DEFINE w == work[t]
           lock == Head(w.todo)
           o == CHOOSE x \in w.orders : TRUE
           opening == /\ lock = Lock(Row(o), "update") /\ w.from = {}
                      /\ w.kind \in {"confirm", "withdraw", "cancel"}
           todo == w.todo
           next == work'[t].todo
<1>1. /\ w # Idle /\ todo # <<>> /\ held' = [held EXCEPT ![t] = @ \cup {lock}]
      /\ UNCHANGED boardVars
  BY DEF Acquire
<1>2. /\ work'[t].kind = w.kind
      /\ \/ /\ lock.on = QueueLock
            /\ \E rows \in QueueRows : next = rows \o Tail(todo)
         \/ opening /\ next = AfterLock(w.kind, o)
         \/ lock.on # QueueLock /\ ~opening /\ next = Tail(todo)
  BY ZenonT(30) DEF Acquire, LocksInv, LocksTyped, Transaction
<1>3. w \in Transaction /\ Sound(t) /\ Runs(t) /\ WorkIsPaid /\ TypeOK
  BY <1>1 DEF LocksInv, LocksTyped, Sound, PaidInv
<1>4. todo \in Seq(Locks)
  BY <1>3 DEF Transaction
<1> HIDE DEF next, todo
<1>5. /\ Head(todo) \in Locks /\ Tail(todo) \in Seq(Locks)
      /\ Range(todo) = {Head(todo)} \cup Range(Tail(todo))
  BY <1>1, <1>4, FirstAndRest
<1>6. held'[t] = held[t] \cup {lock} /\ lock = Head(todo)
  BY <1>1 DEF LocksInv, LocksTyped, todo
<1> SUFFICES ASSUME w.kind \in OrderlyKinds PROVE InOrder(t)'
  BY <1>2 DEF Orderly
<1>7. InOrder(t)
  BY <1>1 DEF Orderly
<1>8. /\ \A l \in held[t] \cup Range(todo), x \in Orders :
             l.on = PendingPayment(x) => RowLock(x) \in held[t]
      /\ \A l \in Range(todo), x \in Orders : l.on = Row(x) =>
             \/ Queue \in held[t] /\ paidAt[x]
             \/ held[t] = {} /\ (todo = <<RowLock(x)>> \/ Queue \in Range(todo))
      /\ Queue \in Range(todo) =>
             /\ AsksQueueOnce(t)
             /\ \A l \in held[t], x \in Orders : l.on = Row(x) => l = RowLock(x) /\ ~paidAt[x]
  BY <1>7 DEF InOrder, Coming, todo
<1>9. SUFFICES
        /\ \A l \in held[t] \cup {lock} \cup Range(next), x \in Orders :
             l.on = PendingPayment(x) => RowLock(x) \in held[t] \cup {lock}
        /\ \A l \in Range(next), x \in Orders : l.on = Row(x) =>
             Queue \in held[t] \cup {lock} /\ paidAt[x]
        /\ Queue \in Range(next) =>
             /\ AsksQueueOnce(t)'
             /\ \A l \in held[t] \cup {lock}, x \in Orders :
                    l.on = Row(x) => l = RowLock(x) /\ ~paidAt[x]
  BY <1>1, <1>6 DEF InOrder, Coming, next, boardVars
<1>10. Queue.on = QueueLock /\ \A x \in Orders : RowLock(x).on = Row(x)
  BY DEF Queue, RowLock, Lock
<1> HIDE DEF w, lock
<1>11. CASE lock.on = QueueLock
  <2>1. ~opening
    <3>1. opening => o \in Orders
      BY <1>3 DEF Runs, w
    <3>2. lock = Lock(Row(o), "update") => lock.on = Row(o)
      BY DEF Lock
    <3> QED BY <1>11, <3>1, <3>2, ThingsDiffer
  <2>2. PICK rows \in QueueRows : next = rows \o Tail(todo)
    BY <1>2, <1>11, <2>1
  <2>3. rows \in Seq(Locks) /\ \A l \in Range(rows) : \E x \in InQueue(status) : l = RowLock(x)
    BY QueueRowsAsked
  <2>4. lock = Queue
    BY <1>1, <1>3, <1>5, <1>6, <1>11 DEF Sound, Coming, todo, w
  <2>5. PICK x \in Orders :
           \/ todo \in {<<Lock(PendingPayment(x), "update")>> \o <<Queue>>, <<Queue>>}
           \/ todo = <<Queue>> \o <<Lock(Row(x), "write")>> /\ paidAt[x]
    BY <1>5, <1>6, <1>8, <2>4 DEF AsksQueueOnce, todo, w
  <2>6. Tail(todo) = <<>> \/ (Tail(todo) = <<Lock(Row(x), "write")>> /\ paidAt[x])
    <3>1. Lock(PendingPayment(x), "update") # Queue
      BY <1>10, LocksOfOrder, ThingsDiffer
    <3> QED BY <1>6, <2>4, <2>5, <3>1, QueueAsked
  <2>7. \A l \in Range(Tail(todo)) : l.on = Row(x) /\ paidAt[x]
    <3>1. Lock(Row(x), "write") \in Locks /\ Lock(Row(x), "write").on = Row(x)
      BY LocksOfOrder
    <3> QED BY <2>6, <3>1, ShortLists
  <2>8. Range(next) = Range(rows) \cup Range(Tail(todo))
    <3> DEFINE rest == Tail(todo)
    <3> HIDE DEF rest
    <3>1. Range(rows \o rest) = Range(rows) \cup Range(rest)
      BY <1>5, <2>3, ListsJoined DEF rest
    <3> QED BY <2>2, <3>1 DEF rest
  <2>9. ASSUME NEW l \in Range(next)
        PROVE  \E y \in Orders : l.on = Row(y) /\ paidAt[y]
    <3>1. CASE l \in Range(rows)
      BY <1>3, <1>10, <2>3, <3>1 DEF InQueue, WorkIsPaid, PaidStatuses
    <3>2. CASE l \in Range(Tail(todo))
      BY <2>7, <3>2
    <3> QED BY <2>8, <2>9, <3>1, <3>2
  <2>10. Queue \notin Range(next)
    BY <1>10, <2>9, ThingsDiffer
  <2>11. \A l \in Range(next), y \in Orders : l.on # PendingPayment(y) /\ (l.on = Row(y) => paidAt[y])
    BY <2>9, ThingsDiffer
  <2>12. \A y \in Orders : lock.on # PendingPayment(y)
    BY <1>11, ThingsDiffer
  <2> QED BY <1>8, <2>4, <2>10, <2>11, <2>12
<1>12. CASE lock.on # QueueLock /\ opening
  <2>1. w.kind \in {"confirm", "withdraw"} /\ w.kind \in OneOrder /\ next = AfterLock(w.kind, o)
    BY <1>2, <1>12 DEF OrderlyKinds, OneOrder
  <2>2. o \in Orders /\ held[t] = {} /\ lock = RowLock(o)
    BY <1>3, <1>12, <2>1 DEF Runs, w, RowLock
  <2>3. /\ Range(next) \subseteq {Lock(PendingPayment(o), m) : m \in {"update", "write", "refer"}}
                                   \cup {Queue}
        /\ Queue \in Range(next) => w.kind = "confirm" /\ ~paidAt[o]
             /\ next = <<Lock(PendingPayment(o), "update")>> \o <<Queue>>
    BY <2>1, <2>2, AfterLockAsks
  <2>4. \A l \in Range(next) : l.on = PendingPayment(o) \/ l = Queue
    BY <2>2, <2>3, LocksOfOrder
  <2>5. Queue \in Range(next) => AsksQueueOnce(t)'
    BY <2>2, <2>3 DEF AsksQueueOnce, next
  <2> QED BY <1>10, <2>2, <2>3, <2>4, <2>5, ThingsDiffer, ZenonT(30)
<1>13. CASE lock.on # QueueLock /\ ~opening
  <2>1. next = Tail(todo)
    BY <1>2, <1>13
  <2>2. ASSUME NEW x \in Orders, todo = <<RowLock(x)>> PROVE Range(next) = {}
    BY <2>1, <2>2, QueueAsked, ShortLists
  <2>3. ASSUME Queue \in Range(todo) PROVE
            \E x \in Orders : /\ todo = <<Lock(PendingPayment(x), "update")>> \o <<Queue>>
                              /\ lock = Lock(PendingPayment(x), "update") /\ next = <<Queue>>
    <3>1. PICK x \in Orders :
             \/ todo \in {<<Lock(PendingPayment(x), "update")>> \o <<Queue>>, <<Queue>>}
             \/ todo = <<Queue>> \o <<Lock(Row(x), "write")>> /\ paidAt[x]
      BY <1>8, <2>3 DEF AsksQueueOnce, todo, w
    <3>2. lock # Queue
      BY <1>10, <1>13
    <3> QED BY <1>6, <2>1, <3>1, <3>2, QueueAsked
  <2>4. Queue \in Locks
    BY DEF Queue, Lock, Locks
  <2>5. ASSUME Queue \in Range(todo) PROVE \A l \in Range(next) : l = Queue
    <3>1. next = <<Queue>>
      BY <2>3, <2>5
    <3> QED BY <2>4, <3>1, ShortLists
  <2>6. ASSUME Queue \in Range(next) PROVE
            /\ AsksQueueOnce(t)'
            /\ \A l \in held[t] \cup {lock}, x \in Orders :
                   l.on = Row(x) => l = RowLock(x) /\ ~paidAt[x]
    <3>1. Queue \in Range(todo)
      BY <1>5, <2>1, <2>6
    <3>2. PICK x \in Orders : lock = Lock(PendingPayment(x), "update") /\ next = <<Queue>>
      BY <2>3, <3>1
    <3>3. AsksQueueOnce(t)'
      BY <3>2 DEF AsksQueueOnce, next
    <3>4. lock.on = PendingPayment(x)
      BY <3>2, LocksOfOrder
    <3> QED BY <1>8, <3>1, <3>3, <3>4, ThingsDiffer
  <2>7. ASSUME NEW l \in Range(next), NEW x \in Orders, l.on = Row(x)
        PROVE  Queue \in held[t] \cup {lock} /\ paidAt[x]
    <3>1. l \in Range(todo)
      BY <1>5, <2>1
    <3>2. todo # <<RowLock(x)>>
      BY <2>2
    <3>3. Queue \notin Range(todo)
      BY <1>10, <2>5, <2>7, ThingsDiffer
    <3> QED BY <1>8, <2>7, <3>1, <3>2, <3>3
  <2>8. held[t] \cup {lock} \cup Range(next) = held[t] \cup Range(todo)
    BY <1>5, <1>6, <2>1
  <2> QED BY <1>8, <2>6, <2>7, <2>8
<1> QED BY <1>11, <1>12, <1>13

LEMMA OrderlyStep == OrderlyInv /\ [LocksNext]_lockVars => OrderlyInv'
<1> SUFFICES ASSUME OrderlyInv, [LocksNext]_lockVars PROVE OrderlyInv'
  OBVIOUS
<1>1. LocksInv /\ LocksInv' /\ \A t \in Txns : Orderly(t)
  BY LocksStep DEF OrderlyInv
<1>2. ASSUME NEW u \in Txns, Alone(u), Orderly(u)' PROVE OrderlyInv'
  <2>1. \A t \in Txns : Orderly(t)'
    BY <1>1, <1>2, OthersInOrder
  <2> QED BY <1>1, <2>1 DEF OrderlyInv, Txns
<1>3. ASSUME NEW t \in Tasks, NEW o \in Orders, NEW kind \in Kinds, Begin(t, kind, o)
      PROVE  OrderlyInv'
  <2>1. t \in Txns /\ Alone(t) /\ Orderly(t)'
    BY <1>1, <1>3, BeginStep, BeginInOrder DEF Txns
  <2> QED BY <1>2, <2>1
<1>4. ASSUME NEW t \in Tasks, NEW o \in Orders, BeginReissue(t, o) PROVE OrderlyInv'
  <2>1. t \in Txns /\ Alone(t)
    BY <1>1, <1>4, BeginReissueStep DEF Txns
  <2>2. work'[t].kind = "reissue"
    BY <1>1, <1>4, <2>1 DEF BeginReissue, Started, LocksInv, LocksTyped
  <2>3. Orderly(t)'
    BY <2>2 DEF Orderly, OrderlyKinds
  <2> QED BY <1>2, <2>1, <2>3
<1>5. ASSUME NEW t \in Tasks, NEW S \in SUBSET Orders, BeginExpire(t, S) PROVE OrderlyInv'
  <2>1. t \in Txns /\ Alone(t) /\ Orderly(t)'
    BY <1>1, <1>5, BeginExpireStep, BeginExpireInOrder DEF Txns
  <2> QED BY <1>2, <2>1
<1>6. ASSUME NEW a \in Admins, NEW kind \in Kinds, NEW o \in Orders, BeginMove(a, kind, o)
      PROVE  OrderlyInv'
  <2>1. a \in Txns /\ Alone(a)
    BY <1>1, <1>6, BeginMoveStep DEF Txns
  <2>2. work[a] = Idle
    BY <1>1, <1>6, IdleSession DEF BeginMove
  <2>3. Orderly(a)'
    BY <1>1, <1>6, <2>2, BeginMoveInOrder
  <2> QED BY <1>2, <2>1, <2>3
<1>7. ASSUME NEW t \in Txns, Acquire(t) PROVE OrderlyInv'
  <2>1. Alone(t) /\ Orderly(t)'
    BY <1>1, <1>7, AcquireStep, AcquireInOrder
  <2> QED BY <1>2, <2>1
<1>8. ASSUME NEW t \in Txns, Commit(t) \/ Abort(t) PROVE OrderlyInv'
  <2>1. Alone(t)
    BY <1>1, <1>8, CommitStep, AbortStep
  <2>2. work'[t] = Idle
    BY <1>1, <1>8 DEF Commit, Abort, Release, LocksInv, LocksTyped
  <2>3. Orderly(t)'
    BY <2>2 DEF Orderly
  <2> QED BY <1>2, <2>1, <2>3
<1>9. CASE UNCHANGED lockVars
  <2>1. UNCHANGED <<paidAt, work, held>>
    BY <1>9 DEF lockVars, boardVars
  <2>2. ASSUME NEW t \in Txns PROVE Orderly(t)'
    <3>1. Coming(t)' = Coming(t) /\ AsksQueueOnce(t)' = AsksQueueOnce(t)
      BY <2>1 DEF Coming, AsksQueueOnce
    <3>2. InOrder(t)' = InOrder(t)
      BY <2>1, <3>1 DEF InOrder
    <3> QED BY <1>1, <2>1, <3>2 DEF Orderly
  <2> QED BY <1>1, <2>2 DEF OrderlyInv, Txns
<1> QED BY <1>3, <1>4, <1>5, <1>6, <1>7, <1>8, <1>9 DEF LocksNext

\* Handlers that take their locks in this order do not wait in a circle: one
\* of them would wait for a row under the queue, which belongs to a paid order,
\* and the one that holds it would wait for the queue with only unpaid ones.
LEMMA NoOrderlyCircle == OrderlyInv => OrderlyKindsNeverCircle
<1> SUFFICES ASSUME OrderlyInv,
                    NEW S \in SUBSET {t \in Txns : work[t] # Idle /\ work[t].kind \in OrderlyKinds},
                    S # {}, Circle(S)
             PROVE  FALSE
  BY DEF OrderlyKindsNeverCircle
<1>1. ASSUME NEW t \in S PROVE
          /\ t \in Txns /\ work[t] # Idle /\ InOrder(t)
          /\ work[t].todo \in Seq(Locks) /\ work[t].todo # <<>>
          /\ \E u \in S : u # t /\ \E b \in held[u] : Conflict(Head(work[t].todo), b)
  <2>1. t \in Txns /\ work[t] # Idle /\ InOrder(t)
    BY DEF OrderlyInv, Orderly
  <2>2. work[t].todo \in Seq(Locks)
    BY <2>1 DEF OrderlyInv, LocksInv, LocksTyped, Transaction
  <2> QED BY <2>1, <2>2 DEF Circle, Blocked
<1>2. Exclusive
  BY DEF OrderlyInv, LocksInv
<1>3. ASSUME NEW t \in S PROVE
          /\ Head(work[t].todo) \in Range(work[t].todo)
          /\ Head(work[t].todo) \in Coming(t) /\ Head(work[t].todo) \in Locks
          /\ Head(work[t].todo).on = QueueLock => Head(work[t].todo) = Queue
  <2> DEFINE todo == work[t].todo
  <2>1. todo \in Seq(Locks) /\ todo # <<>>
    BY <1>1
  <2> HIDE DEF todo
  <2>2. Head(todo) \in Locks /\ Head(todo) \in Range(todo)
    BY <2>1, FirstAndRest
  <2>3. Sound(t) /\ work[t] # Idle
    BY <1>1 DEF OrderlyInv, LocksInv
  <2> QED BY <2>2, <2>3 DEF Coming, todo, Sound
\* Nobody of the circle waits for a payment.
<1>4. ASSUME NEW t \in S PROVE \A x \in Orders : Head(work[t].todo).on # PendingPayment(x)
  <2> SUFFICES ASSUME NEW x \in Orders, Head(work[t].todo).on = PendingPayment(x) PROVE FALSE
    OBVIOUS
  <2>1. PICK u \in S : u # t /\ \E b \in held[u] : Conflict(Head(work[t].todo), b)
    BY <1>1
  <2>2. PICK b \in held[u] : b.on = PendingPayment(x)
    BY <2>1 DEF Conflict
  <2>3. RowLock(x) \in held[t] /\ RowLock(x) \in held[u]
    BY <1>1, <1>3, <2>2 DEF InOrder, Coming
  <2>4. RowLock(x).mode = "update"
    BY DEF RowLock, Lock
  <2> QED BY <1>1, <1>2, <2>1, <2>3, <2>4, HeldByOne
\* Who holds something waits for the queue, or for the row of a paid order
\* while it holds the queue.
<1>5. ASSUME NEW t \in S, held[t] # {} PROVE
          \/ Head(work[t].todo) = Queue
          \/ Queue \in held[t] /\ \E x \in Orders : Head(work[t].todo).on = Row(x) /\ paidAt[x]
  <2>1. Head(work[t].todo).on \in {Row(x) : x \in Orders} \cup {PendingPayment(x) : x \in Orders}
                                    \cup {QueueLock}
    BY <1>3 DEF Locks
  <2>2. ASSUME NEW x \in Orders, Head(work[t].todo).on = Row(x)
        PROVE  Queue \in held[t] /\ paidAt[x]
    BY <1>1, <1>3, <1>5, <2>2 DEF InOrder
  <2> QED BY <1>3, <1>4, <2>1, <2>2
\* Some transaction of the circle holds the queue.
<1>6. PICK d \in S : Queue \in held[d]
  <2>1. PICK t \in S : TRUE
    OBVIOUS
  <2>2. PICK u \in S : held[u] # {}
    BY <1>1, <2>1
  <2>3. CASE Head(work[u].todo) = Queue
    <3>1. PICK v \in S : \E b \in held[v] : Conflict(Queue, b)
      BY <1>1, <2>3
    <3>2. PICK b \in held[v] : b.on = QueueLock
      BY <3>1 DEF Conflict, Queue, Lock
    <3>3. b = Queue
      BY <1>1, <3>2 DEF OrderlyInv, LocksInv, Sound, Coming
    <3> QED BY <3>2, <3>3
  <2> QED BY <1>5, <2>2, <2>3
<1>7. Queue.on = QueueLock /\ Queue.mode = "update"
  BY DEF Queue, Lock
<1>8. PICK x \in Orders : Head(work[d].todo).on = Row(x) /\ paidAt[x]
  <2>1. Head(work[d].todo) # Queue
    <3> SUFFICES ASSUME Head(work[d].todo) = Queue PROVE FALSE
      OBVIOUS
    <3>1. PICK v \in S : v # d /\ \E b \in held[v] : Conflict(Queue, b)
      BY <1>1
    <3>2. PICK b \in held[v] : b.on = QueueLock
      BY <1>7, <3>1 DEF Conflict
    <3> QED BY <1>1, <1>2, <1>6, <1>7, <3>1, <3>2, HeldByOne
  <2> QED BY <1>5, <1>6, <2>1
<1>9. PICK e \in S : e # d /\ \E b \in held[e] : b.on = Row(x)
  BY <1>1, <1>8 DEF Conflict
<1>10. Head(work[e].todo) = Queue
  <2>1. Queue \notin held[e]
    BY <1>1, <1>2, <1>6, <1>7, <1>9, HeldByOne
  <2> QED BY <1>5, <1>9, <2>1
<1>11. ~paidAt[x]
  BY <1>1, <1>3, <1>9, <1>10 DEF InOrder
<1> QED BY <1>8, <1>11

\* Payments, customers' cancels, expiries and cards taken out of the queue or
\* put back never wait for each other in a circle, however many of them run
\* beside whatever other handlers ("so that transactions do not wait for each
\* other in a circle", orders.lock).
THEOREM LocksOrderlyNeverCircle == LocksSpec => []OrderlyKindsNeverCircle
<1>1. LocksInit => OrderlyInv
  <2> SUFFICES ASSUME LocksInit PROVE OrderlyInv
    OBVIOUS
  <2>1. \A t \in Txns : work[t] = Idle
    BY DEF LocksInit
  <2> QED BY <2>1, LocksStart DEF OrderlyInv, Orderly
<1> QED BY <1>1, OrderlyStep, NoOrderlyCircle, PTL DEF LocksSpec

-----------------------------------------------------------------------------
(* The limit of orders in work, for any number of customers and any limits. *)

Stages == {"away", "queueing", "free", "guarded", "counting", "open"}
OrderStages == {"draft", "waiting", "queued", "expired", "ready"}

\* The orders of the count that came through the lock.
Guarded == InWork \ unguarded

\* Types, but for those of the settings, on which nothing depends.
Shapes ==
    /\ intake.limit \in Limits
    /\ order \in [Clients -> OrderStages]
    /\ stage \in [Clients -> Stages]
    /\ told \in [Clients -> Limits]
    /\ intakeLock \subseteq Clients

\* One holder; and whoever took the lock holds it until the transaction ends.
OneHolder == \A c, d \in intakeLock : c = d

HeldToTheEnd ==
    /\ \A c \in Clients : stage[c] = "guarded" => c \in intakeLock
    /\ \A c \in intakeLock : stage[c] \in {"guarded", "counting", "open"}

\* What the holder has counted is still so: nobody else can add to it.
CountHolds ==
    \A c \in intakeLock : stage[c] = "open" /\ told[c] # NoLimit => Cardinality(Guarded) < told[c]

IntakeInv == Shapes /\ OneHolder /\ HeldToTheEnd /\ CountHolds

USE LimitsAssumption

-----------------------------------------------------------------------------

LEMMA GuardedFinite ==
    ASSUME Shapes
    PROVE  IsFiniteSet(Guarded) /\ Cardinality(Guarded) \in Nat
<1>1. Guarded \subseteq Clients
  BY DEF Guarded, InWork
<1> QED
  BY <1>1, ClientsAssumption, FS_Subset, FS_CardinalityType

\* The count of the holder is not exceeded while the guarded orders do not grow.
LEMMA FewerStillFit ==
    ASSUME Shapes, CountHolds, Guarded' \subseteq Guarded,
           NEW c \in intakeLock, stage[c] = "open", told[c] # NoLimit
    PROVE  Cardinality(Guarded') < told[c]
<1>1. /\ IsFiniteSet(Guarded) /\ Cardinality(Guarded) \in Nat
      /\ Cardinality(Guarded') \in Nat /\ Cardinality(Guarded') <= Cardinality(Guarded)
  BY GuardedFinite, FS_Subset, FS_CardinalityType
<1>2. Cardinality(Guarded) < told[c] /\ told[c] \in Nat
  BY DEF CountHolds, Shapes
<1> QED
  BY <1>1, <1>2

\* An ending transaction gives the lock back; the others keep what they have.
LEMMA EndKeeps ==
    ASSUME NEW c \in Clients, IntakeInv, Ends(c), Guarded' \subseteq Guarded \/ c \in intakeLock,
           order' \in [Clients -> OrderStages], intake'.limit \in Limits
    PROVE  IntakeInv'
<1>1. Shapes'
  BY DEF IntakeInv, Shapes, Ends, Reaches, Stages
<1>2. OneHolder' /\ HeldToTheEnd'
  BY DEF IntakeInv, Shapes, OneHolder, HeldToTheEnd, Ends, Reaches
<1>3. CountHolds'
  <2> SUFFICES ASSUME NEW d \in intakeLock', stage'[d] = "open", told'[d] # NoLimit
               PROVE  Cardinality(Guarded') < told'[d]
    BY DEF CountHolds
  <2>1. d \in intakeLock /\ d # c /\ stage[d] = "open" /\ told'[d] = told[d]
    BY DEF Ends, Reaches, IntakeInv, Shapes
  <2>2. Guarded' \subseteq Guarded
    BY <2>1 DEF IntakeInv, OneHolder
  <2> QED
    BY <2>1, <2>2, FewerStillFit DEF IntakeInv
<1> QED
  BY <1>1, <1>2, <1>3 DEF IntakeInv

\* What moves only orders keeps the invariant, if the guarded ones do not grow.
LEMMA OrdersKeep ==
    ASSUME IntakeInv, Guarded' \subseteq Guarded, order' \in [Clients -> OrderStages],
           intake'.limit \in Limits, UNCHANGED <<stage, told, intakeLock>>
    PROVE  IntakeInv'
<1>1. Shapes' /\ OneHolder' /\ HeldToTheEnd'
  BY DEF IntakeInv, Shapes, OneHolder, HeldToTheEnd
<1>2. CountHolds'
  BY FewerStillFit DEF IntakeInv, CountHolds
<1> QED
  BY <1>1, <1>2 DEF IntakeInv

LEMMA MovesShape ==
    ASSUME NEW c \in Clients, NEW from \in OrderStages, NEW to \in OrderStages,
           Moves(c, from, to), Shapes
    PROVE  /\ order' = [order EXCEPT ![c] = to] /\ order' \in [Clients -> OrderStages]
           /\ order[c] = from
           /\ intake'.limit \in Limits /\ UNCHANGED <<stage, told, intakeLock>>
BY DEF Moves, Shapes

-----------------------------------------------------------------------------

LEMMA InvStarts == IntakeInit => IntakeInv
BY DEF IntakeInit, IntakeInv, Shapes, Stages, OrderStages, OneHolder, HeldToTheEnd, CountHolds

LEMMA InvKept == IntakeInv /\ [IntakeNext]_intakeVars => IntakeInv'
<1> SUFFICES ASSUME IntakeInv, [IntakeNext]_intakeVars
             PROVE  IntakeInv'
  OBVIOUS
<1>1. ASSUME NEW c \in Clients, AskLimit(c)
      PROVE  IntakeInv'
  <2>1. /\ UNCHANGED <<intake, order, told, intakeLock>> /\ Guarded' = Guarded
        /\ stage' \in [Clients -> Stages] /\ stage'[c] \in {"free", "queueing"}
        /\ c \notin intakeLock /\ \A d \in Clients \ {c} : stage'[d] = stage[d]
    BY <1>1 DEF AskLimit, Reaches, Guarded, InWork, IntakeInv, Shapes, Stages, HeldToTheEnd
  <2> QED
    BY <2>1 DEF IntakeInv, Shapes, OneHolder, HeldToTheEnd, CountHolds
<1>2. ASSUME NEW c \in Clients, TakeIntakeLock(c)
      PROVE  IntakeInv'
  <2>1. /\ UNCHANGED <<intake, order, told>> /\ intakeLock' = {c}
        /\ stage' \in [Clients -> Stages] /\ stage'[c] = "guarded"
        /\ \A d \in Clients \ {c} : stage'[d] = stage[d] /\ stage[d] # "guarded"
    BY <1>2 DEF TakeIntakeLock, Reaches, IntakeInv, Shapes, Stages, HeldToTheEnd
  <2> QED
    BY <2>1 DEF IntakeInv, Shapes, OneHolder, HeldToTheEnd, CountHolds
<1>3. ASSUME NEW c \in Clients, CheckSettings(c)
      PROVE  IntakeInv'
  <2>0. UNCHANGED <<intake, order>> /\ Guarded' = Guarded
    BY <1>3 DEF CheckSettings, Guarded, InWork
  <2>1. CASE Ends(c)
    BY <2>0, <2>1, EndKeeps DEF IntakeInv, Shapes
  <2>2. CASE ~Ends(c)
    <3>1. /\ stage' \in [Clients -> Stages] /\ told' \in [Clients -> Limits]
          /\ intakeLock' = intakeLock /\ stage'[c] \in {"open", "counting"}
          /\ stage'[c] = "open" => told'[c] = NoLimit
          /\ \A d \in Clients \ {c} : stage'[d] = stage[d] /\ told'[d] = told[d]
      BY <1>3, <2>2 DEF CheckSettings, Reaches, IntakeInv, Shapes, Stages
    <3> QED
      BY <2>0, <3>1 DEF IntakeInv, Shapes, OneHolder, HeldToTheEnd, CountHolds
  <2> QED
    BY <2>1, <2>2
<1>4. ASSUME NEW c \in Clients, CountLoad(c)
      PROVE  IntakeInv'
  <2>0. UNCHANGED <<intake, order>> /\ Guarded' = Guarded
    BY <1>4 DEF CountLoad, Guarded, InWork
  <2>1. CASE Ends(c)
    BY <2>0, <2>1, EndKeeps DEF IntakeInv, Shapes
  <2>2. CASE ~Ends(c)
    <3>1. /\ stage' \in [Clients -> Stages] /\ stage'[c] = "open"
          /\ UNCHANGED <<told, intakeLock>> /\ Cardinality(InWork) < told[c]
          /\ \A d \in Clients \ {c} : stage'[d] = stage[d]
      BY <1>4, <2>2 DEF CountLoad, Reaches, IntakeInv, Shapes, Stages
    <3>2. Cardinality(Guarded) < told[c]
      <4>1. InWork \subseteq Clients /\ Guarded \subseteq InWork
        BY DEF InWork, Guarded
      <4>2. IsFiniteSet(InWork) /\ Cardinality(InWork) \in Nat
        BY <4>1, ClientsAssumption, FS_Subset, FS_CardinalityType
      <4>3. Cardinality(Guarded) \in Nat /\ Cardinality(Guarded) <= Cardinality(InWork)
        BY <4>1, <4>2, FS_Subset, FS_CardinalityType
      <4>4. told[c] \in Nat
        BY DEF IntakeInv, Shapes
      <4> QED
        BY <3>1, <4>2, <4>3, <4>4
    <3> QED
      BY <2>0, <3>1, <3>2 DEF IntakeInv, Shapes, OneHolder, HeldToTheEnd, CountHolds
  <2> QED
    BY <2>1, <2>2
<1>5. ASSUME NEW c \in Clients, CommitOrder(c)
      PROVE  IntakeInv'
  <2>1. Guarded' \subseteq Guarded \/ c \in intakeLock
    BY <1>5 DEF CommitOrder, Guarded, InWork, IntakeInv, Shapes
  <2>2. Ends(c) /\ intake'.limit \in Limits /\ order' \in [Clients -> OrderStages]
    BY <1>5 DEF CommitOrder, IntakeInv, Shapes, OrderStages
  <2> QED
    BY <2>1, <2>2, EndKeeps
<1>6. ASSUME NEW c \in Clients, RollbackOrder(c)
      PROVE  IntakeInv'
  <2>1. Guarded' \subseteq Guarded
    BY <1>6 DEF RollbackOrder, Guarded, InWork
  <2>2. Ends(c) /\ intake'.limit \in Limits /\ order' \in [Clients -> OrderStages]
    BY <1>6 DEF RollbackOrder, IntakeInv, Shapes
  <2> QED
    BY <2>1, <2>2, EndKeeps
<1>7. ASSUME NEW c \in Clients, OrderGoesOn(c)
      PROVE  IntakeInv'
  <2>1. PICK from \in {"waiting", "queued"}, to \in {"queued", "expired", "ready"} : Moves(c, from, to)
    BY <1>7 DEF OrderGoesOn
  <2>2. /\ order' = [order EXCEPT ![c] = to] /\ order' \in [Clients -> OrderStages]
        /\ order[c] = from
        /\ intake'.limit \in Limits /\ UNCHANGED <<stage, told, intakeLock>>
    BY <2>1, MovesShape DEF OrderStages, IntakeInv
  <2>3. order'[c] = to /\ \A d \in Clients \ {c} : order'[d] = order[d]
    BY <2>2 DEF IntakeInv, Shapes
  <2>4. unguarded' = unguarded \/ (to # "queued" /\ unguarded' = unguarded \ {c})
    BY <1>7, <2>3 DEF OrderGoesOn
  <2>5. Guarded' \subseteq Guarded
    BY <2>2, <2>3, <2>4 DEF Guarded, InWork
  <2> QED
    BY <2>2, <2>5, OrdersKeep
<1>8. ASSUME NEW c \in Clients, OrderComesBack(c)
      PROVE  IntakeInv'
  <2>1. PICK from \in {"expired", "ready"} : Moves(c, from, "queued")
    BY <1>8 DEF OrderComesBack
  <2>2. /\ order' = [order EXCEPT ![c] = "queued"] /\ order' \in [Clients -> OrderStages]
        /\ intake'.limit \in Limits /\ UNCHANGED <<stage, told, intakeLock>>
    BY <2>1, MovesShape DEF OrderStages, IntakeInv
  <2>3. \A d \in Clients \ {c} : order'[d] = order[d]
    BY <2>2 DEF IntakeInv, Shapes
  <2>4. Guarded' \subseteq Guarded
    BY <1>8, <2>3 DEF OrderComesBack, Guarded, InWork
  <2> QED
    BY <2>2, <2>4, OrdersKeep
<1>9. ASSUME NEW accepting \in BOOLEAN, NEW resumeOn, NEW limit \in Limits,
             SaveIntake(accepting, resumeOn, limit)
      PROVE  IntakeInv'
  <2>1. intake'.limit \in Limits /\ Guarded' = Guarded
        /\ order' \in [Clients -> OrderStages] /\ UNCHANGED <<stage, told, intakeLock>>
    BY <1>9 DEF SaveIntake, Guarded, InWork, IntakeInv, Shapes
  <2> QED
    BY <2>1, OrdersKeep
<1>10. ASSUME NextDate \/ UNCHANGED intakeVars
       PROVE  IntakeInv'
  <2>1. intake'.limit \in Limits /\ Guarded' = Guarded
        /\ order' \in [Clients -> OrderStages] /\ UNCHANGED <<stage, told, intakeLock>>
    BY <1>10 DEF NextDate, intakeVars, Guarded, InWork, IntakeInv, Shapes
  <2> QED
    BY <2>1, OrdersKeep
<1> QED
  BY <1>1, <1>2, <1>3, <1>4, <1>5, <1>6, <1>7, <1>8, <1>9, <1>10 DEF IntakeNext

\* The lock has at most one holder, and the count its holder made stays true until the
\* transaction ends (intake.ensure_open and check under pg_advisory_xact_lock).
THEOREM CountUnderLockHolds == IntakeSpec => []IntakeInv
<1>1. IntakeInit => IntakeInv
  BY InvStarts
<1>2. IntakeInv /\ [IntakeNext]_intakeVars => IntakeInv'
  BY InvKept
<1> QED
  BY <1>1, <1>2, PTL DEF IntakeSpec

-----------------------------------------------------------------------------

\* Only the commit of submit takes an order out of the drafts.
LEMMA OnlyCommitPlaces ==
    ASSUME IntakeInv, [IntakeNext]_intakeVars, NEW c \in Clients,
           order[c] = "draft", order'[c] # "draft"
    PROVE  CommitOrder(c)
<1>1. order \in [Clients -> OrderStages]
  BY DEF IntakeInv, Shapes
<1>2. ASSUME NEW d \in Clients, NEW from \in {"waiting", "queued", "expired", "ready"}, NEW to,
             Moves(d, from, to)
      PROVE  FALSE
  BY <1>1, <1>2 DEF Moves
<1>3. ASSUME NEW d \in Clients, CommitOrder(d)
      PROVE  CommitOrder(c)
  BY <1>1, <1>3 DEF CommitOrder
<1>4. ASSUME UNCHANGED order
      PROVE  FALSE
  BY <1>4
<1>5. ASSUME NEW d \in Clients, OrderGoesOn(d) \/ OrderComesBack(d)
      PROVE  FALSE
  BY <1>2, <1>5 DEF OrderGoesOn, OrderComesBack
<1> QED
  BY <1>3, <1>4, <1>5
     DEF IntakeNext, intakeVars, AskLimit, TakeIntakeLock, CheckSettings, CountLoad,
         RollbackOrder, SaveIntake, NextDate

\* A set with one more element is finite and has at most one more.
LEMMA OneMore ==
    ASSUME NEW S, IsFiniteSet(S), NEW x
    PROVE  /\ IsFiniteSet(S \cup {x})
           /\ Cardinality(S \cup {x}) \in Nat
           /\ Cardinality(S \cup {x}) <= Cardinality(S) + 1
<1>1. Cardinality(S) \in Nat
  BY FS_CardinalityType
<1>2. CASE x \in S
  <2>1. S \cup {x} = S
    BY <1>2
  <2>2. Cardinality(S \cup {x}) = Cardinality(S) /\ IsFiniteSet(S \cup {x})
    BY <2>1
  <2> QED
    BY <1>1, <2>2
<1>3. CASE x \notin S
  <2>1. Cardinality(S \cup {x}) = Cardinality(S) + 1 /\ IsFiniteSet(S \cup {x})
    BY <1>3, FS_AddElement
  <2> QED
    BY <1>1, <2>1
<1> QED
  BY <1>2, <1>3

\* A free place is sold once: with any number of customers and any limits, an order counted
\* under the lock commits within the limit it was counted against (orders.submit).
THEOREM SoldOnce == IntakeSpec => PlaceSoldOnce
<1>1. IntakeInv /\ [IntakeNext]_intakeVars =>
        \A c \in Clients :
            order[c] = "draft" /\ order'[c] # "draft" /\ c \notin unguarded' /\ told[c] # NoLimit =>
                Cardinality({d \in Clients : order'[d] \in {"waiting", "queued"}} \ unguarded')
                    <= told[c]
  <2> SUFFICES ASSUME IntakeInv, [IntakeNext]_intakeVars, NEW c \in Clients,
                      order[c] = "draft", order'[c] # "draft", c \notin unguarded', told[c] # NoLimit
               PROVE  Cardinality({d \in Clients : order'[d] \in {"waiting", "queued"}} \ unguarded')
                        <= told[c]
    OBVIOUS
  <2> DEFINE after == {d \in Clients : order'[d] \in {"waiting", "queued"}} \ unguarded'
  <2>1. CommitOrder(c)
    BY OnlyCommitPlaces
  <2>2. stage[c] = "open" /\ c \in intakeLock /\ unguarded' = unguarded
    BY <2>1 DEF CommitOrder
  <2>3. Cardinality(Guarded) < told[c] /\ told[c] \in Nat
    BY <2>2 DEF IntakeInv, CountHolds, Shapes
  <2>4. IsFiniteSet(Guarded) /\ Cardinality(Guarded) \in Nat
    BY GuardedFinite DEF IntakeInv
  <2>5. after \subseteq Guarded \cup {c}
    BY <2>1, <2>2 DEF CommitOrder, Guarded, InWork, IntakeInv, Shapes
  <2>6. IsFiniteSet(Guarded \cup {c}) /\ Cardinality(Guarded \cup {c}) <= Cardinality(Guarded) + 1
        /\ Cardinality(Guarded \cup {c}) \in Nat
    BY <2>4, OneMore
  <2>7. Cardinality(after) \in Nat /\ Cardinality(after) <= Cardinality(Guarded \cup {c})
    BY <2>5, <2>6, FS_Subset, FS_CardinalityType
  <2> QED
    BY <2>3, <2>4, <2>6, <2>7
<1> QED
  BY <1>1, CountUnderLockHolds, PTL DEF IntakeSpec, PlaceSoldOnce

-----------------------------------------------------------------------------

\* The rest of IntakeOK: the settings, and what the history counts.
Settings == intake \in [accepting : BOOLEAN, resumeOn : 0..Never, limit : Limits]

History == unguarded \subseteq InWork

LEMMA SettingsKept ==
    Settings /\ [IntakeNext]_intakeVars => Settings'
<1> SUFFICES ASSUME Settings, [IntakeNext]_intakeVars
             PROVE  Settings'
  OBVIOUS
<1>1. ASSUME NEW accepting \in BOOLEAN, NEW resumeOn \in {LastDate, Never}, NEW limit \in Limits,
             SaveIntake(accepting, resumeOn, limit)
      PROVE  Settings'
  BY <1>1, DatesAssumption DEF SaveIntake, Settings, Never
<1>2. ASSUME UNCHANGED intake
      PROVE  Settings'
  BY <1>2 DEF Settings
<1> QED
  BY <1>1, <1>2
     DEF IntakeNext, intakeVars, AskLimit, TakeIntakeLock, CheckSettings, CountLoad, CommitOrder,
         RollbackOrder, OrderGoesOn, OrderComesBack, Moves, NextDate

LEMMA HistoryKept ==
    IntakeInv /\ History /\ [IntakeNext]_intakeVars => History'
<1> SUFFICES ASSUME IntakeInv, History, [IntakeNext]_intakeVars
             PROVE  History'
  OBVIOUS
<1>0. order \in [Clients -> OrderStages] /\ unguarded \subseteq Clients
  BY DEF IntakeInv, Shapes, History, InWork
<1>1. ASSUME NEW c \in Clients, CommitOrder(c)
      PROVE  History'
  BY <1>0, <1>1 DEF CommitOrder, History, InWork
<1>2. ASSUME NEW c \in Clients, OrderGoesOn(c)
      PROVE  History'
  <2>1. PICK from \in {"waiting", "queued"}, to \in {"queued", "expired", "ready"} : Moves(c, from, to)
    BY <1>2 DEF OrderGoesOn
  <2>2. order'[c] = to /\ \A d \in Clients \ {c} : order'[d] = order[d]
    BY <1>0, <2>1 DEF Moves
  <2>3. CASE to = "queued"
    BY <1>0, <1>2, <2>2, <2>3 DEF OrderGoesOn, History, InWork
  <2>4. CASE to # "queued"
    BY <1>0, <1>2, <2>2, <2>4 DEF OrderGoesOn, History, InWork
  <2> QED
    BY <2>3, <2>4
<1>3. ASSUME NEW c \in Clients, OrderComesBack(c)
      PROVE  History'
  <2>1. PICK from \in {"expired", "ready"} : Moves(c, from, "queued")
    BY <1>3 DEF OrderComesBack
  <2>2. order'[c] = "queued" /\ \A d \in Clients \ {c} : order'[d] = order[d]
    BY <1>0, <2>1 DEF Moves
  <2> QED
    BY <1>0, <1>3, <2>2 DEF OrderComesBack, History, InWork
<1>4. ASSUME UNCHANGED <<order, unguarded>>
      PROVE  History'
  BY <1>4 DEF History, InWork
<1> QED
  BY <1>1, <1>2, <1>3, <1>4
     DEF IntakeNext, intakeVars, AskLimit, TakeIntakeLock, CheckSettings, CountLoad,
         RollbackOrder, SaveIntake, NextDate

LEMMA OneHolderCounted ==
    ASSUME OneHolder
    PROVE  Cardinality(intakeLock) <= 1
<1>1. CASE intakeLock = {}
  BY <1>1, FS_EmptySet
<1>2. CASE intakeLock # {}
  <2>1. PICK c \in intakeLock : TRUE
    BY <1>2
  <2>2. intakeLock = {c}
    BY <2>1 DEF OneHolder
  <2>3. Cardinality({c}) = 1
    BY FS_Singleton
  <2> QED
    BY <2>2, <2>3
<1> QED
  BY <1>1, <1>2

\* Types, and the lock of the intake with at most one holder (intake.ensure_open).
THEOREM IntakeTyped == IntakeSpec => []IntakeOK
<1>1. IntakeInit => IntakeInv /\ Settings /\ History
  <2> SUFFICES ASSUME IntakeInit
               PROVE  IntakeInv /\ Settings /\ History
    OBVIOUS
  <2>1. Never \in 0..Never
    BY DatesAssumption DEF Never
  <2> QED
    BY <2>1, InvStarts DEF IntakeInit, Settings, History
<1>2. IntakeInv /\ Settings /\ History /\ [IntakeNext]_intakeVars => (IntakeInv /\ Settings /\ History)'
  BY InvKept, SettingsKept, HistoryKept
<1>3. IntakeInv /\ Settings /\ History => IntakeOK
  BY OneHolderCounted
     DEF IntakeInv, Shapes, HeldToTheEnd, Settings, History, InWork, IntakeOK, OrderStages, Stages
<1> QED
  BY <1>1, <1>2, <1>3, PTL DEF IntakeSpec

=============================================================================
