---------------------------- MODULE QueueLocks ----------------------------
(***************************************************************************)
(* The locks under the steps of module Board. There a handler is one step;  *)
(* here it is a PostgreSQL transaction that takes its locks one by one, in  *)
(* the order the code asks for them, and takes effect at commit with all of *)
(* them held: the rows of orders (orders.lock, load_queue(for_update), an   *)
(* UPDATE, a foreign key), the rows of pending payments and the advisory    *)
(* lock of the assembly queue.                                              *)
(*                                                                          *)
(* Two questions: does what a handler has read still hold when it commits,  *)
(* so that one step is a fair picture of it; and can handlers wait for each *)
(* other in a circle.                                                       *)
(***************************************************************************)
EXTENDS Board, SequencesExt

CONSTANTS
    Tasks,      \* concurrent transactions of locked handlers
    Kinds       \* the handlers that run: a subset of HandlerKinds

HandlerKinds == {"confirm", "withdraw", "expire", "cancel", "reissue",
                 "reorder", "leave", "return"}

ASSUME KindsAssumption == Kinds \subseteq HandlerKinds
ASSUME TasksAssumption == Tasks \cap Admins = {}

VARIABLES
    work,       \* per transaction: the handler and the locks it has yet to ask for
    held        \* per transaction: the locks it holds

lockVars == <<boardVars, work, held>>

Txns == Tasks \cup Admins

\* A lock, by mode: "update" is FOR UPDATE and the advisory lock, "write" a plain UPDATE,
\* "refer" the check of a foreign key.
Row(o) == <<"order", o>>
PendingPayment(o) == <<"payment", o>>
QueueLock == <<"queue", "advisory">>
Lock(thing, m) == [on |-> thing, mode |-> m]
Locks == [on : {Row(o) : o \in Orders} \cup {PendingPayment(o) : o \in Orders} \cup {QueueLock},
          mode : {"update", "write", "refer"}]

\* A transaction: its handler and orders, the locks it has yet to ask for in
\* turn, the stage and the queue it has read (none, or one).
Transaction == [kind : HandlerKinds, orders : SUBSET Orders, todo : Seq(Locks),
                from : SUBSET OrderStatus, queue : SUBSET [Orders -> Nat]]

ASSUME WorkAssumption == Idle \notin Transaction

-----------------------------------------------------------------------------
(* Which locks a handler asks for, in which order. *)

ConflictRowsOnly(a, b) ==                   \* mutant: no advisory lock
    a.on = b.on /\ a.on # QueueLock /\ {a.mode, b.mode} \notin {{"refer"}, {"refer", "write"}}

\* Two locks of different transactions on one thing exclude each other, except
\* foreign key checks among themselves and beside a plain UPDATE.
Conflict(a, b) ==
    a.on = b.on /\ {a.mode, b.mode} \notin {{"refer"}, {"refer", "write"}}

\* load_queue(for_update=True): the advisory lock, then every row of the queue
\* by place. The rows are those the query finds once it has the first lock;
\* rows at one place come in any order.
ByPlace(seq) == \A i, j \in DOMAIN seq : i < j => qpos[seq[i]] <= qpos[seq[j]]
QueueRows ==
    {[i \in 1..Len(seq) |-> Lock(Row(seq[i]), "update")] :
        seq \in {s \in SetToSeqs(InQueue(status)) : ByPlace(s)}}

PaymentFirst(kind, o) ==                    \* mutant: a cancel that starts at the payment
    IF kind = "withdraw"
    THEN <<Lock(PendingPayment(o), "update"), Lock(Row(o), "update")>>
    ELSE <<Lock(Row(o), "update")>>

\* orders.lock, the first statement of every locked handler.
Opening(kind, o) == <<Lock(Row(o), "update")>>

\* What follows once the row is locked and re-read: confirm_payment, cancel by
\* the customer ("withdraw") and cancel by the owner ("cancel"). A cancelled
\* order that is not revived ends before it asks for the queue.
AfterLock(kind, o) ==
    LET payable == status[o] \in {"waiting_payment", "cancelled"} /\ ~paidAt[o]
        queue == <<Lock(QueueLock, "update")>>
        payment(m) == <<Lock(PendingPayment(o), m)>>
    IN  CASE kind = "confirm"  -> payment("update")
                                  \o IF payable THEN queue ELSE <<>>
          [] kind = "withdraw" -> IF status[o] = "waiting_payment"
                                  THEN payment("write") ELSE <<>>
          [] kind = "cancel"   -> IF status[o] = "waiting_payment" THEN payment("write")
                                  ELSE payment("refer")
                                       \o IF status[o] \in QueueStatuses THEN queue ELSE <<>>

\* A handler that takes no lock first: a card dragged inside the queue writes
\* the stage before it locks the queue, a card that leaves or returns to the
\* queue locks the queue first; a pay link issued anew closes the old attempt
\* and inserts one that refers to the order.
Unlocked(kind, o) ==
    LET write == <<Lock(Row(o), "write")>>
        queue == <<Lock(QueueLock, "update")>>
    IN  CASE kind = "reorder" -> write \o queue
          [] kind \in {"leave", "return"} -> queue \o write
          [] kind = "reissue" -> <<Lock(PendingPayment(o), "write"), Lock(Row(o), "refer")>>

\* The queue as a statement of this moment reads it: 0 for a row not in it.
QueueRead == [o \in Orders |-> IF o \in InQueue(status) THEN qpos[o] ELSE 0]

\* A transaction at its start: nothing read, the first locks to ask for.
Started(kind, S, first) ==
    [kind |-> kind, orders |-> S, todo |-> first, from |-> {}, queue |-> {}]

-----------------------------------------------------------------------------
(* Transactions. *)

Begin(t, kind, o) ==
    /\ work[t] = Idle
    /\ status[o] # "draft"
    /\ kind \in Kinds \cap {"confirm", "withdraw", "cancel"}
    /\ work' = [work EXCEPT ![t] = Started(kind, {o}, Opening(kind, o))]
    /\ UNCHANGED <<boardVars, held>>

\* expire_unpaid: FOR UPDATE SKIP LOCKED takes the rows of overdue orders that
\* nobody holds, at once, then each pending payment in turn.
BeginExpire(t, S) ==
    LET rows == {Lock(Row(o), "update") : o \in S}
        payments(seq) == [i \in 1..Len(seq) |-> Lock(PendingPayment(seq[i]), "write")]
    IN  /\ "expire" \in Kinds
        /\ work[t] = Idle
        /\ S # {} /\ \A o \in S : status[o] = "waiting_payment"
        /\ \A u \in Txns \ {t}, a \in rows : \A b \in held[u] : ~Conflict(a, b)
        /\ held' = [held EXCEPT ![t] = rows]
        /\ \E seq \in SetToSeqs(S) :
              work' = [work EXCEPT ![t] = [Started("expire", S, payments(seq))
                                             EXCEPT !.from = {"waiting_payment"}]]
        /\ UNCHANGED boardVars

\* create_payment on an order read as waiting.
BeginReissue(t, o) ==
    /\ "reissue" \in Kinds
    /\ work[t] = Idle
    /\ status[o] = "waiting_payment"
    /\ work' = [work EXCEPT ![t] = Started("reissue", {o}, Unlocked("reissue", o))]
    /\ UNCHANGED <<boardVars, held>>

\* A panel request that moves a card loads the order first (module Board).
BeginMove(a, kind, o) ==
    /\ kind \in Kinds \cap {"reorder", "leave", "return"}
    /\ LoadCard(a, o)
    /\ IF kind = "return" THEN status[o] = "ready" ELSE status[o] \in QueueStatuses
    /\ work' = [work EXCEPT ![a] = Started(kind, {o}, Unlocked(kind, o))]
    /\ UNCHANGED held

Blocked(t, u) ==
    /\ t # u
    /\ work[t] # Idle /\ work[t].todo # <<>>
    /\ \E b \in held[u] : Conflict(Head(work[t].todo), b)

\* The next lock is granted, and what it protects is read.
Acquire(t) ==
    LET w == work[t]
        lock == Head(w.todo)
        o == CHOOSE x \in w.orders : TRUE
        opening == /\ lock = Lock(Row(o), "update") /\ w.from = {}
                   /\ w.kind \in {"confirm", "withdraw", "cancel"}
        Becomes(new) == work' = [work EXCEPT ![t] = new]
    IN  /\ w # Idle /\ w.todo # <<>>
        /\ \A u \in Txns : ~Blocked(t, u)
        /\ held' = [held EXCEPT ![t] = @ \cup {lock}]
        /\ \/ /\ lock.on = QueueLock
              /\ \E rows \in QueueRows :
                    Becomes([w EXCEPT !.todo = rows \o Tail(@), !.queue = {QueueRead}])
           \/ opening /\ Becomes([w EXCEPT !.todo = AfterLock(w.kind, o), !.from = {status[o]}])
           \/ lock.on # QueueLock /\ ~opening /\ Becomes([w EXCEPT !.todo = Tail(@)])
        /\ UNCHANGED boardVars

Release(t) ==
    /\ work' = [work EXCEPT ![t] = Idle]
    /\ held' = [held EXCEPT ![t] = {}]

\* The stages a card is dragged to.
Target == [kind \in {"reorder", "leave", "return"} |->
              CASE kind = "reorder" -> QueueStatuses
                [] kind = "leave"   -> {"ready"}
                [] kind = "return"  -> {"assembling"}]

\* The effect of a handler on the orders is the step of module Board.
Effect(t) ==
    LET kind == work[t].kind
        o == CHOOSE x \in work[t].orders : TRUE
    IN  \/ kind = "confirm" /\ (MarkPaid(o) \/ Revive(o))
        \/ kind = "withdraw" /\ CancelUnpaid(o)
        \/ kind = "cancel" /\ Cancel(o)
        \/ /\ kind \in {"reorder", "leave", "return"}
           /\ \E new \in Target[kind] :
                 IF kind = "reorder" THEN MoveCard(t, new) ELSE SetStatus(t, new)
        \/ kind = "reissue" /\ UNCHANGED boardVars
        \/ /\ kind = "expire"
           /\ status' = [x \in Orders |-> IF x \in work[t].orders THEN "cancelled" ELSE status[x]]
           /\ UNCHANGED <<paidAt, qpos, panel>>

Commit(t) ==
    /\ work[t] # Idle /\ work[t].todo = <<>>
    /\ Effect(t)
    /\ Release(t)

\* Rolled back: refused by the handler or the table, killed as the victim of a
\* deadlock, or the connection is lost.
Abort(t) ==
    /\ work[t] # Idle
    /\ IF t \in Admins THEN GiveUp(t) ELSE UNCHANGED boardVars
    /\ Release(t)

-----------------------------------------------------------------------------
(* The specification. *)

\* Orders that wait for payment, are ready, or stand in the queue in any order.
LocksInit ==
    /\ status \in [Orders -> {"waiting_payment", "queued", "ready"}]
    /\ paidAt = [o \in Orders |-> status[o] # "waiting_payment"]
    /\ qpos \in [Orders -> 0..Cardinality(Orders)]
    /\ QueueDense
    /\ panel = [a \in Admins |-> Idle]
    /\ work = [t \in Txns |-> Idle]
    /\ held = [t \in Txns |-> {}]

LocksNext ==
    \/ \E t \in Tasks, o \in Orders : \/ \E kind \in Kinds : Begin(t, kind, o)
                                      \/ BeginReissue(t, o)
    \/ \E t \in Tasks, S \in SUBSET Orders : BeginExpire(t, S)
    \/ \E a \in Admins, kind \in Kinds, o \in Orders : BeginMove(a, kind, o)
    \/ \E t \in Txns : Acquire(t) \/ Commit(t) \/ Abort(t)

LocksSpec == LocksInit /\ [][LocksNext]_lockVars

-----------------------------------------------------------------------------
(* Properties. *)

\* Until a transaction ends, the stage it has read under the row lock and the
\* queue it has read under the queue lock are what the table holds: taking a
\* place or closing a gap on that reading is as good as doing it in one step
\* ("both would take the same place" without it, board.py, load_queue).
ReadsHold ==
    \A t \in Txns : work[t] # Idle =>
        /\ \A s \in work[t].from : \A o \in work[t].orders : status[o] = s
        /\ \A q \in work[t].queue : q = QueueRead

\* Transactions that wait for each other in a circle.
Circle(S) == \A t \in S : \E u \in S : Blocked(t, u)

\* No circle of transactions each of which waits for another one of the circle
\* ("so that transactions do not wait for each other in a circle", orders.lock).
NoCircularWait == \A S \in (SUBSET Txns) \ {{}} : ~Circle(S)

\* The circles there are have an owner's cancel, a reissued link or a card
\* dragged inside the queue in them: payments, customers' cancels, expiries and
\* cards taken out of the queue or put back never wait for each other in one.
OrderlyKinds == {"confirm", "withdraw", "expire", "leave", "return"}
OrderlyKindsNeverCircle ==
    \A S \in (SUBSET {t \in Txns : work[t] # Idle /\ work[t].kind \in OrderlyKinds}) \ {{}} :
        ~Circle(S)

=============================================================================
