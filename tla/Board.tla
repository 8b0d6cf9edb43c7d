------------------------------- MODULE Board -------------------------------
(***************************************************************************)
(* The stage of every order and its place in the assembly queue: the        *)
(* status machine of core/services/orders.py, the queue of                  *)
(* core/services/board.py and the panel requests that move cards.           *)
(*                                                                          *)
(* Two kinds of handler change an order. A locked one (payment, cancel,     *)
(* expiry) takes the row lock and re-reads the order, so it is one atomic   *)
(* step on fresh values. A panel request that moves a card loads the order  *)
(* WITHOUT a lock and writes later: it is two steps, and the second works   *)
(* with the values the first one loaded, as the session's identity map does.*)
(***************************************************************************)
EXTENDS Lifecycle, Integers, FiniteSetsExt, TLC

CONSTANTS
    Orders,     \* the orders of the shop
    Admins,     \* concurrent panel requests: one per open panel session
    Idle        \* "no request in flight"

VARIABLES
    status,     \* orders.status
    paidAt,     \* orders.paid_at is set
    qpos,       \* orders.queue_position; 0 stands for NULL
    panel       \* per panel session: the order as its transaction loaded it

boardVars == <<status, paidAt, qpos, panel>>

\* The attributes of an order object that a handler carries in its session.
Loaded == [order : Orders, status : OrderStatus, paid : BOOLEAN, pos : Nat]

ASSUME IdleAssumption == Idle \notin Loaded
ASSUME OrdersAssumption == IsFiniteSet(Orders)

TypeOK ==
    /\ status \in [Orders -> OrderStatus]
    /\ paidAt \in [Orders -> BOOLEAN]
    /\ qpos \in [Orders -> Nat]
    /\ panel \in [Admins -> Loaded \cup {Idle}]

-----------------------------------------------------------------------------
(* The queue. *)

\* load_queue: the rows in a queue stage, in a table of stages st.
InQueue(st) == {o \in Orders : st[o] \in QueueStatuses}

RankFromEnd(S, pos, o) ==                         \* mutant: ORDER BY ... DESC
    Cardinality({x \in S : pos[x] >= pos[o]})

\* The place an order gets by its rank among the orders of S.
Rank(S, pos, o) == Cardinality({x \in S : pos[x] <= pos[o]})

\* A unit of work writes an attribute only when the handler changed it from
\* the value it had loaded; otherwise the column keeps what is in the table.
Written(loaded, new, stored) == IF new = loaded THEN stored ELSE new

\* append_to_queue: the place behind the last one taken. Among the rows of the
\* queue the handler's own order shows the place it was loaded with.
NextPlace(s) ==
    LET taken == {IF x = s.order THEN s.pos ELSE qpos[x] : x \in InQueue(status)} \ {0}
    IN  IF taken = {} THEN 1 ELSE Max(taken) + 1

LeaveHole(s) == [qpos EXCEPT ![s.order] = 0]      \* mutant: no renumbering

\* remove_from_queue: the order leaves and the numbers close up, in the order
\* of the places the rows hold.
ClosedUp(s) ==
    LET remaining == {x \in InQueue(status) \ {s.order} : qpos[x] # 0}
    IN  [x \in Orders |-> IF x = s.order THEN 0
                          ELSE IF x \in remaining THEN Rank(remaining, qpos, x)
                          ELSE qpos[x]]

\* The places change_status leaves behind when it moves the order loaded as s
\* to stage new.
PlacesAfter(s, new) ==
    IF new \in QueueStatuses /\ s.status \notin QueueStatuses
    THEN [qpos EXCEPT ![s.order] = Written(s.pos, NextPlace(s), @)]
    ELSE IF new \notin QueueStatuses /\ s.status \in QueueStatuses /\ s.pos # 0
    THEN ClosedUp(s)
    ELSE qpos

-----------------------------------------------------------------------------
(* change_status and the constraints of the orders table. *)

NeedsPaymentToAssemble(s, new) ==                 \* mutant: only one stage guarded
    new = "assembling" /\ s.status \notin PaidStatuses /\ ~s.paid

\* _needs_payment: work starts only on an order whose payment is recorded.
NeedsPayment(s, new) ==
    new \in PaidStatuses /\ s.status \notin PaidStatuses /\ ~s.paid

CanChangeUnchecked(s, new) == new # s.status /\ ~NeedsPayment(s, new)  \* mutant

CanChange(s, new) ==
    /\ new \in AllowedTransitions[s.status]
    /\ ~NeedsPayment(s, new)

\* ck_orders_queue_position_in_queue: a place only in a queue stage.
PlaceOnlyInQueue(st, pos) == \A o \in Orders : pos[o] # 0 => st[o] \in QueueStatuses

\* The deferred unique constraint on queue_position, checked at commit.
PlacesUnique(pos) ==
    \A x, y \in Orders : x # y /\ pos[x] # 0 => pos[x] # pos[y]

ChangeStatus(s, new) ==
    /\ CanChange(s, new)
    /\ status' = [status EXCEPT ![s.order] = new]
    /\ qpos' = PlacesAfter(s, new)
    /\ PlaceOnlyInQueue(status', qpos')
    /\ PlacesUnique(qpos')

FreshZeroBased(o) ==                              \* mutant: places from 0
    [order |-> o, status |-> status[o], paid |-> paidAt[o], pos |-> qpos[o] - 1]

\* lock: the row is locked and the order re-read, so it is loaded as stored.
Fresh(o) == [order |-> o, status |-> status[o], paid |-> paidAt[o], pos |-> qpos[o]]

-----------------------------------------------------------------------------
(* Locked handlers: one step on fresh values. *)

\* submit: the draft becomes an order that waits for payment. A draft belongs
\* to its customer's own session, nothing else writes it.
Submit(o) ==
    /\ status[o] = "draft"
    /\ ChangeStatus(Fresh(o), "waiting_payment")
    /\ UNCHANGED <<paidAt, panel>>

\* mark_paid on an order loaded in stage waiting_payment: paid_at first, then
\* the end of the queue.
Enqueue(o) ==
    /\ ChangeStatus([order |-> o, status |-> "waiting_payment", paid |-> TRUE,
                     pos |-> qpos[o]], "queued")
    /\ paidAt' = [paidAt EXCEPT ![o] = TRUE]
    /\ UNCHANGED panel

MarkPaid(o) ==
    /\ ~paidAt[o]
    /\ status[o] = "waiting_payment"
    /\ Enqueue(o)

\* revive_expired followed by mark_paid in the same transaction. Which
\* cancelled orders qualify is the payment's business (module OrderFlow).
Revive(o) ==
    /\ ~paidAt[o]
    /\ status[o] = "cancelled"
    /\ Enqueue(o)

\* cancel: the order is locked and re-read, then leaves for "cancelled".
Cancel(o) ==
    /\ ChangeStatus(Fresh(o), "cancelled")
    /\ UNCHANGED <<paidAt, panel>>

\* cancel(only_unpaid=True): the customer's button and the expiry task.
CancelUnpaid(o) ==
    /\ status[o] = "waiting_payment"
    /\ ~paidAt[o]
    /\ Cancel(o)

\* The owner cancels from a panel session that has nothing else in flight.
OwnerCancel(a, o) ==
    /\ panel[a] = Idle
    /\ status[o] # "draft"
    /\ Cancel(o)

-----------------------------------------------------------------------------
(* Panel requests that move a card: load now, write later, no lock between. *)

\* get_order: the request loads the order. The panel lists no drafts.
LoadCard(a, o) ==
    /\ panel[a] = Idle
    /\ status[o] # "draft"
    /\ panel' = [panel EXCEPT ![a] = Fresh(o)]
    /\ UNCHANGED <<status, paidAt, qpos>>

\* The request ends without a write: a refused transition, a stale board, a
\* violated constraint, a lost connection. The transaction rolls back.
GiveUp(a) ==
    /\ panel[a] # Idle
    /\ panel' = [panel EXCEPT ![a] = Idle]
    /\ UNCHANGED <<status, paidAt, qpos>>

\* The web container restarts: every request in flight is rolled back.
Restart ==
    /\ panel' = [a \in Admins |-> Idle]
    /\ UNCHANGED <<status, paidAt, qpos>>

\* POST /orders/{id}/status with a stage other than "cancelled", and a card
\* dropped on a board column that sends no queue order.
SetStatus(a, new) ==
    /\ panel[a] # Idle
    /\ new # "cancelled"
    /\ ChangeStatus(panel[a], new)
    /\ panel' = [panel EXCEPT ![a] = Idle]
    /\ UNCHANGED paidAt

\* POST /orders/{id}/arrived: only from "shipped" (from "arrived" nothing changes).
MarkArrived(a) ==
    /\ panel[a] # Idle
    /\ panel[a].status = "shipped"
    /\ SetStatus(a, "arrived")

\* The stages and places a card move has flushed before the queue is rewritten.
StagesMoved(s, new) == IF new = s.status THEN status ELSE [status EXCEPT ![s.order] = new]
PlacesMoved(s, new) == IF new = s.status THEN qpos ELSE PlacesAfter(s, new)

\* The place the moved card shows in the session when the queue is rewritten.
CarriedPlace(s, new) ==
    IF new = s.status \/ s.status \in QueueStatuses THEN s.pos ELSE NextPlace(s)

\* reorder_queue: the whole queue gets places 1..N in the order sent. A list
\* that is not exactly the current queue is refused.
Reordered(s, new, places) ==
    LET queue == InQueue(StagesMoved(s, new))
        moved == PlacesMoved(s, new)
    IN  [o \in Orders |->
            IF o \notin queue THEN moved[o]
            ELSE IF o = s.order THEN Written(CarriedPlace(s, new), places[o], moved[o])
            ELSE places[o]]

\* POST /board/move with a queue order: the stage, then the queue, then commit.
MoveCard(a, new) ==
    LET s == panel[a]
        queue == InQueue(StagesMoved(s, new))
    IN  /\ s # Idle
        /\ new = s.status \/ CanChange(s, new)
        /\ PlaceOnlyInQueue(StagesMoved(s, new), PlacesMoved(s, new))
        /\ queue # {}
        /\ \E places \in Bijection(queue, 1..Cardinality(queue)) :
              qpos' = Reordered(s, new, places)
        /\ status' = StagesMoved(s, new)
        /\ PlacesUnique(qpos')
        /\ panel' = [panel EXCEPT ![a] = Idle]
        /\ UNCHANGED paidAt

-----------------------------------------------------------------------------
(* The specification. *)

BoardInit ==
    /\ status = [o \in Orders |-> "draft"]
    /\ paidAt = [o \in Orders |-> FALSE]
    /\ qpos = [o \in Orders |-> 0]
    /\ panel = [a \in Admins |-> Idle]

PanelNext ==
    \/ Restart
    \/ \E a \in Admins :
           \/ GiveUp(a)
           \/ \E o \in Orders : LoadCard(a, o)
           \/ \E new \in OrderStatus : SetStatus(a, new)
           \/ MarkArrived(a)
           \/ \E new \in PaidStatuses : MoveCard(a, new)

BoardNext ==
    \/ \E o \in Orders : Submit(o) \/ MarkPaid(o) \/ Revive(o) \/ CancelUnpaid(o)
    \/ \E a \in Admins, o \in Orders : OwnerCancel(a, o)
    \/ PanelNext

BoardSpec == BoardInit /\ [][BoardNext]_boardVars

-----------------------------------------------------------------------------
(* Properties. *)

\* The queue is numbered 1..N without holes or doubles, every order in a queue
\* stage has a place and no other order has one ("сквозное 1..N").
QueueDense ==
    /\ {qpos[o] : o \in InQueue(status)} = 1..Cardinality(InQueue(status))
    /\ \A o \in Orders \ InQueue(status) : qpos[o] = 0

\* Whatever the panel does, an order is at a stage of accepted work only with
\* its payment recorded.
WorkIsPaid == \A o \in Orders : status[o] \in PaidStatuses => paidAt[o]

\* The only steps an order takes are those of the transition table, apart from
\* the revival of an unpaid cancelled order by its payment.
LegalSteps ==
    [][\A o \in Orders : status'[o] # status[o] =>
          \/ status'[o] \in AllowedTransitions[status[o]]
          \/ /\ status[o] = "cancelled" /\ ~paidAt[o]
             /\ status'[o] = "queued" /\ paidAt'[o]]_boardVars

\* First come, first served: unless a card move rewrites the queue, nobody
\* overtakes an order that stays in it, whoever is paid, leaves or comes back.
FirstComeFirstServed ==
    [][(~ \E a \in Admins, new \in PaidStatuses : MoveCard(a, new)) =>
          \A x \in InQueue(status) \cap InQueue(status'), y \in InQueue(status') :
              /\ y \in InQueue(status) /\ qpos[x] < qpos[y] => qpos'[x] < qpos'[y]
              /\ y \notin InQueue(status) => qpos'[x] < qpos'[y]]_boardVars

=============================================================================
