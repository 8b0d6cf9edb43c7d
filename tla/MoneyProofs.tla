----------------------------- MODULE MoneyProofs -----------------------------
(***************************************************************************)
(* Proofs about modules OrderFlow and Receipts, for any number of orders,   *)
(* attempts and panel sessions, any baskets and any succession of           *)
(* configurations. Of OrderFlow: types, that the handlers of money          *)
(* implement the board, and that recorded money is accounted for. Of        *)
(* Receipts: whose money is on record, who reports the sale and what the    *)
(* receipt says.                                                            *)
(***************************************************************************)
EXTENDS OrderFlow, BoardProofs, Receipts, Counting

-----------------------------------------------------------------------------
(* The handlers of money implement the board. *)

\* Every step of the handlers is a step of the board or leaves it alone.
LEMMA FlowRefines == [Next]_vars => [BoardNext]_boardVars
<1> SUFFICES ASSUME [Next]_vars PROVE [BoardNext]_boardVars
  OBVIOUS
<1>1. ASSUME NEW o \in Orders, CustomerNext(o) PROVE [BoardNext]_boardVars
  BY <1>1 DEF CustomerNext, Checkout, AskLink, ReturnLink, CreatePayment, DropAsk,
              CustomerCancel, BoardNext
<1>2. ASSUME NEW o \in Orders, Expire(o) PROVE [BoardNext]_boardVars
  BY <1>2 DEF Expire, BoardNext
<1>3. ASSUME NEW p \in Payments, Confirm(p) PROVE [BoardNext]_boardVars
  <2>1. OrderOf[p] \in Orders
    BY PaymentsAssumption
  <2>2. CASE ConfirmPending(p)
    BY <2>1, <2>2 DEF ConfirmPending, BoardNext
  <2>3. CASE LateRevives(p)
    BY <2>1, <2>3 DEF LateRevives, BoardNext
  <2>4. CASE LateRefunded(p) \/ LateDuplicate(p)
    BY <2>4 DEF LateRefunded, LateDuplicate
  <2> QED BY <1>3, <2>2, <2>3, <2>4 DEF Confirm
<1>4. ASSUME NEW p \in Payments, PaymentNext(p) PROVE [BoardNext]_boardVars
  BY <1>3, <1>4 DEF PaymentNext, GoToRobokassa, Charge, ResultUrl, Reconcile,
                    StubConfirm, CompleteRefund, WindowCloses
<1>5. ASSUME NEW a \in Admins, NEW o \in Orders, OwnerCancels(a, o)
      PROVE [BoardNext]_boardVars
  BY <1>5 DEF OwnerCancels, BoardNext
<1>6. ASSUME NEW m \in Modes, SwitchMode(m) PROVE [BoardNext]_boardVars
  BY <1>6 DEF SwitchMode, BoardNext, PanelNext
<1>7. CASE PanelNext
  BY <1>7 DEF BoardNext
<1>8. CASE UNCHANGED vars
  BY <1>8 DEF vars
<1> QED BY <1>1, <1>2, <1>4, <1>5, <1>6, <1>7, <1>8 DEF Next

\* The handlers that record, refuse and return money move orders only as the
\* board allows: what holds of every behaviour of the board holds of the shop.
THEOREM FlowImplementsBoard == Spec => BoardSpec
<1>1. Init => BoardInit
  BY DEF Init
<1> QED BY <1>1, FlowRefines, PTL DEF Spec, BoardSpec

-----------------------------------------------------------------------------
(* Types. *)

\* A confirmation keeps the types.
LEMMA ConfirmTypes ==
    ASSUME FlowTypeOK, TypeOK', NEW p \in Payments, Confirm(p)
    PROVE  FlowTypeOK'
<1>1. UNCHANGED <<payMode, started, charged, asking, mode, switches>>
  BY DEF Confirm
<1>2. CASE ConfirmPending(p)
  BY <1>1, <1>2 DEF ConfirmPending, RecordPaid, FlowTypeOK, PaymentStatus
<1>3. CASE LateRevives(p)
  BY <1>1, <1>3 DEF LateRevives, RecordPaid, FlowTypeOK, PaymentStatus, CancelReason
<1>4. CASE LateRefunded(p)
  BY <1>1, <1>4 DEF LateRefunded, RecordPaid, RefundRequired, FlowTypeOK,
                    PaymentStatus, RefundStatus
<1>5. CASE LateDuplicate(p)
  BY <1>1, <1>5 DEF LateDuplicate, RefundRequired, FlowTypeOK, RefundStatus
<1> QED BY <1>2, <1>3, <1>4, <1>5 DEF Confirm

\* Closing the money side of a cancelled order keeps the types.
LEMMA CloseMoneyTypes ==
    ASSUME FlowTypeOK, TypeOK', NEW o \in Orders, NEW why \in CancelReason,
           CloseMoney(o, why)
    PROVE  FlowTypeOK'
BY DEF CloseMoney, RefundRequired, FlowTypeOK, PaymentStatus, RefundStatus

\* Every step keeps the types.
LEMMA FlowTypeStep == FlowTypeOK /\ [Next]_vars => FlowTypeOK'
<1> SUFFICES ASSUME FlowTypeOK, [Next]_vars PROVE FlowTypeOK'
  OBVIOUS
<1>0. TypeOK'
  BY FlowRefines, TypeStep DEF FlowTypeOK
<1>1. ASSUME NEW o \in Orders, CustomerNext(o) PROVE FlowTypeOK'
  <2>1. ASSUME NEW p \in Payments, Issue(p) PROVE
            /\ payStatus' \in [Payments -> PaymentStatus]
            /\ payMode' \in [Payments -> Modes]
    BY <2>1 DEF Issue, FlowTypeOK, PaymentStatus
  <2>2. CASE Checkout(o)
    BY <1>0, <2>1, <2>2 DEF Checkout, FlowTypeOK
  <2>3. CASE AskLink(o) \/ ReturnLink(o) \/ DropAsk(o)
    BY <1>0, <2>3 DEF AskLink, ReturnLink, DropAsk, moneyVars, FlowTypeOK
  <2>4. CASE CreatePayment(o)
    BY <1>0, <2>1, <2>4 DEF CreatePayment, FlowTypeOK
  <2>5. CASE CustomerCancel(o)
    BY <1>0, <2>5, CloseMoneyTypes DEF CustomerCancel, CancelReason
  <2> QED BY <1>1, <2>2, <2>3, <2>4, <2>5 DEF CustomerNext
<1>2. ASSUME NEW o \in Orders, Expire(o) PROVE FlowTypeOK'
  BY <1>0, <1>2, CloseMoneyTypes DEF Expire, CancelReason
<1>3. ASSUME NEW p \in Payments, PaymentNext(p) PROVE FlowTypeOK'
  <2>1. CASE GoToRobokassa(p)
    BY <1>0, <2>1 DEF GoToRobokassa, moneyVars, FlowTypeOK
  <2>2. CASE Charge(p) \/ WindowCloses(p)
    BY <1>0, <2>2 DEF Charge, WindowCloses, moneyVars, FlowTypeOK
  <2>3. CASE ResultUrl(p) \/ Reconcile(p)
    BY <1>0, <2>3, ConfirmTypes DEF ResultUrl, Reconcile
  <2>4. CASE StubConfirm(p)
    BY <1>0, <2>4, ConfirmTypes DEF StubConfirm, FlowTypeOK, PaymentStatus
  <2>5. CASE CompleteRefund(p)
    BY <1>0, <2>5 DEF CompleteRefund, FlowTypeOK, RefundStatus
  <2> QED BY <1>3, <2>1, <2>2, <2>3, <2>4, <2>5 DEF PaymentNext
<1>4. ASSUME NEW a \in Admins, NEW o \in Orders, OwnerCancels(a, o) PROVE FlowTypeOK'
  BY <1>0, <1>4, CloseMoneyTypes DEF OwnerCancels, CancelReason
<1>5. ASSUME UNCHANGED flowVars PROVE FlowTypeOK'
  BY <1>0, <1>5 DEF flowVars, FlowTypeOK
<1>6. ASSUME NEW m \in Modes, SwitchMode(m) PROVE FlowTypeOK'
  BY <1>0, <1>6, SwitchesAssumption DEF SwitchMode, moneyVars, FlowTypeOK
<1> QED BY <1>1, <1>2, <1>3, <1>4, <1>5, <1>6 DEF Next, vars

\* The variables of orders and payments keep their types.
THEOREM FlowTypes == Spec => []FlowTypeOK
<1>1. Init => FlowTypeOK
  BY SwitchesAssumption
  DEF Init, BoardInit, FlowTypeOK, TypeOK, OrderStatus, CancelReason, PaymentStatus,
      RefundStatus
<1> QED BY <1>1, FlowTypeStep, PTL DEF Spec

-----------------------------------------------------------------------------
(* Work only on recorded money. *)

\* An order marked as paid has a successful attempt with money on record: the
\* flag on the order and the row of the payment are set together, and a
\* successful attempt is never withdrawn.
PaidByOne ==
    \A o \in Orders : paidAt[o] => \E p \in Attempts(o, "paid") : payPaid[p]

\* The inductive invariant of the money on record.
MoneyInv == FlowTypeOK /\ PaidInv /\ PaidByOne

\* A pending attempt of an order paid already cannot be confirmed: mark_paid
\* would let it pass, uq_payments_paid_order does not.
LEMMA PendingNeverPaysTwice ==
    ASSUME PaidByOne, NEW p \in Payments, payStatus[p] = "pending",
           paidAt[OrderOf[p]]
    PROVE  ~RecordPaid(p)
BY PaymentsAssumption DEF PaidByOne, RecordPaid, OnlyOne, Attempts

\* Money on record stays on record while no attempt is withdrawn and no order
\* becomes paid.
LEMMA PaidByOneKept ==
    ASSUME PaidByOne, UNCHANGED paidAt,
           \A p \in Payments : payStatus[p] = "paid" => payStatus'[p] = "paid",
           \A p \in Payments : payPaid[p] => payPaid'[p]
    PROVE  PaidByOne'
BY DEF PaidByOne, Attempts

\* A confirmation keeps it: an order becomes paid by the attempt recorded.
LEMMA ConfirmPaidByOne ==
    ASSUME FlowTypeOK, PaidByOne, NEW p \in Payments, Confirm(p)
    PROVE  PaidByOne'
<1> USE DEF FlowTypeOK
<1>0. OrderOf[p] \in Orders
  BY PaymentsAssumption
<1>1. ASSUME RecordPaid(p), paidAt' = [paidAt EXCEPT ![OrderOf[p]] = TRUE]
      PROVE  PaidByOne'
  <2>1. payStatus' = [payStatus EXCEPT ![p] = "paid"]
        /\ payPaid' = [payPaid EXCEPT ![p] = TRUE]
    BY <1>1 DEF RecordPaid
  <2>2. p \in Attempts(OrderOf[p], "paid")' /\ payPaid'[p]
    BY <2>1 DEF Attempts
  <2>3. \A o \in Orders, q \in Payments :
            q \in Attempts(o, "paid") /\ payPaid[q]
                => q \in Attempts(o, "paid")' /\ payPaid'[q]
    BY <2>1 DEF Attempts
  <2>4. \A o \in Orders : o # OrderOf[p] => paidAt'[o] = paidAt[o]
    BY <1>1 DEF TypeOK
  <2>5. \A o \in Orders, st \in PaymentStatus : Attempts(o, st) \subseteq Payments
    BY DEF Attempts
  <2> QED BY <2>2, <2>3, <2>4, <2>5 DEF PaidByOne, PaymentStatus
<1>2. CASE ConfirmPending(p)
  BY <1>1, <1>2 DEF ConfirmPending, MarkPaid, Enqueue
<1>3. CASE LateRevives(p)
  BY <1>1, <1>3 DEF LateRevives, Revive, Enqueue
<1>4. CASE LateRefunded(p)
  BY <1>4, PaidByOneKept DEF LateRefunded, RecordPaid, boardVars
<1>5. CASE LateDuplicate(p)
  BY <1>5, PaidByOneKept DEF LateDuplicate, boardVars
<1> QED BY <1>2, <1>3, <1>4, <1>5 DEF Confirm

\* Cancelling closes pending attempts only.
LEMMA CloseMoneyKeeps ==
    ASSUME FlowTypeOK, NEW o, NEW why, CloseMoney(o, why)
    PROVE  /\ \A p \in Payments : payStatus[p] = "paid" => payStatus'[p] = "paid"
           /\ UNCHANGED payPaid
BY DEF CloseMoney, Attempts

\* No cancel touches the flag that an order is paid.
LEMMA CancelKeepsPaid ==
    ASSUME NEW o \in Orders, Cancel(o)
    PROVE  UNCHANGED paidAt
BY DEF Cancel

\* Every step keeps the invariant.
LEMMA MoneyStep == MoneyInv /\ [Next]_vars => MoneyInv'
<1> SUFFICES ASSUME MoneyInv, [Next]_vars PROVE PaidByOne'
  BY FlowTypeStep, FlowRefines, PaidStep DEF MoneyInv
<1> USE DEF MoneyInv
<1>1. ASSUME NEW o \in Orders, CustomerNext(o) PROVE PaidByOne'
  <2>1. ASSUME NEW p \in Payments, Issue(p) PROVE
            \A q \in Payments : payStatus[q] = "paid" => payStatus'[q] = "paid"
    BY <2>1 DEF Issue, Attempts
  <2>2. CASE Checkout(o)
    BY <2>1, <2>2, PaidByOneKept DEF Checkout, Submit
  <2>3. CASE AskLink(o) \/ ReturnLink(o) \/ DropAsk(o)
    BY <2>3, PaidByOneKept DEF AskLink, ReturnLink, DropAsk, moneyVars, boardVars
  <2>4. CASE CreatePayment(o)
    BY <2>1, <2>4, PaidByOneKept DEF CreatePayment, boardVars
  <2>5. CASE CustomerCancel(o)
    BY <2>5, PaidByOneKept, CloseMoneyKeeps, CancelKeepsPaid
    DEF CustomerCancel, CancelUnpaid
  <2> QED BY <1>1, <2>2, <2>3, <2>4, <2>5 DEF CustomerNext
<1>2. ASSUME NEW o \in Orders, Expire(o) PROVE PaidByOne'
  BY <1>2, PaidByOneKept, CloseMoneyKeeps, CancelKeepsPaid DEF Expire, CancelUnpaid
<1>3. ASSUME NEW p \in Payments, PaymentNext(p) PROVE PaidByOne'
  <2>1. CASE GoToRobokassa(p) \/ Charge(p) \/ WindowCloses(p) \/ CompleteRefund(p)
    BY <2>1, PaidByOneKept
    DEF GoToRobokassa, Charge, WindowCloses, CompleteRefund, moneyVars, boardVars
  <2>2. ASSUME StubConfirm(p), ~Confirm(p) PROVE PaidByOne'
    BY <2>2, PaidByOneKept DEF StubConfirm, boardVars, FlowTypeOK
  <2> QED BY <1>3, <2>1, <2>2, ConfirmPaidByOne
          DEF PaymentNext, ResultUrl, Reconcile, StubConfirm
<1>4. ASSUME NEW a \in Admins, NEW o \in Orders, OwnerCancels(a, o) PROVE PaidByOne'
  BY <1>4, PaidByOneKept, CloseMoneyKeeps, CancelKeepsPaid
  DEF OwnerCancels, OwnerCancel, boardVars
<1>5. ASSUME PanelNext, UNCHANGED flowVars PROVE PaidByOne'
  <2>1. UNCHANGED paidAt
    BY <1>5 DEF PanelNext, Restart, GiveUp, LoadCard, SetStatus, MarkArrived, MoveCard
  <2> QED BY <1>5, <2>1, PaidByOneKept DEF flowVars, moneyVars
<1>6. ASSUME NEW m \in Modes, SwitchMode(m) PROVE PaidByOne'
  BY <1>6, PaidByOneKept DEF SwitchMode, Restart, moneyVars
<1>7. ASSUME UNCHANGED vars PROVE PaidByOne'
  BY <1>7, PaidByOneKept DEF vars, boardVars, flowVars, moneyVars
<1> QED BY <1>1, <1>2, <1>3, <1>4, <1>5, <1>6, <1>7 DEF Next

\* The invariant holds of every behaviour.
LEMMA MoneyInvariant == Spec => []MoneyInv
<1>1. Init => PaidInv /\ PaidByOne
  BY DEF Init, BoardInit, PaidInv, PaidByOne, TypeOK, WorkIsPaid, PanelKnowsPaid,
         OrderStatus, PaidStatuses, QueueStatuses
<1>2. Init => FlowTypeOK
  BY SwitchesAssumption
  DEF Init, BoardInit, FlowTypeOK, TypeOK, OrderStatus, CancelReason, PaymentStatus,
      RefundStatus
<1> QED BY <1>1, <1>2, MoneyStep, PTL DEF Spec, MoneyInv

\* An order is worked on only with a successful payment of its own on record,
\* whatever panel sessions, late payments and contours do (confirm_payment).
THEOREM FlowWorkHasMoney == Spec => []WorkHasMoney
<1>1. MoneyInv => WorkHasMoney
  BY DEF MoneyInv, PaidInv, WorkIsPaid, PaidByOne, WorkHasMoney
<1> QED BY <1>1, MoneyInvariant, PTL

-----------------------------------------------------------------------------
(* Recorded money is accounted for. *)

\* No panel request carries a draft: the panel lists none.
PanelNoDraft == \A a \in Admins : panel[a] # Idle => panel[a].status # "draft"

\* The inductive invariant of a shop without the payment stub.
AccountedInv == MoneyInv /\ PanelNoDraft /\ MoneyAccounted

\* However old its view, a panel request that is no cancel leads to a stage of
\* accepted work: no row of the table leads back to one before payment.
LEMMA PanelKeepsWork ==
    ASSUME TypeOK, PanelNoDraft, PanelNext, NEW o \in Orders,
           status[o] \in PaidStatuses
    PROVE  status'[o] \in PaidStatuses
<1>1. ASSUME NEW a \in Admins, NEW new \in OrderStatus, SetStatus(a, new)
      PROVE  status'[o] \in PaidStatuses
  <2>1. panel[a] \in Loaded /\ panel[a].status # "draft"
    BY <1>1 DEF SetStatus, PanelNoDraft, TypeOK
  <2>2. new \in AllowedTransitions[panel[a].status] /\ new # "cancelled"
        /\ status' = [status EXCEPT ![panel[a].order] = new]
    BY <1>1 DEF SetStatus, ChangeStatus, CanChange
  <2>3. panel[a].status \in OrderStatus
    BY <2>1 DEF Loaded
  <2>4. new \in PaidStatuses
    BY <2>1, <2>2, <2>3
    DEF AllowedTransitions, OrderStatus, PaidStatuses, QueueStatuses
  <2> QED BY <2>2, <2>4 DEF TypeOK
<1>2. ASSUME NEW a \in Admins, NEW new \in PaidStatuses, MoveCard(a, new)
      PROVE  status'[o] \in PaidStatuses
  BY <1>2 DEF MoveCard, StagesMoved, TypeOK
<1>3. ASSUME NEW a \in Admins, MarkArrived(a) PROVE status'[o] \in PaidStatuses
  BY <1>1, <1>3 DEF MarkArrived, OrderStatus
<1> QED BY <1>1, <1>2, <1>3 DEF PanelNext, Restart, GiveUp, LoadCard

\* No step puts a draft into a panel request.
LEMMA PanelNoDraftStep ==
    TypeOK /\ PanelNoDraft /\ [BoardNext]_boardVars => PanelNoDraft'
<1> SUFFICES ASSUME TypeOK, PanelNoDraft, [BoardNext]_boardVars PROVE PanelNoDraft'
  OBVIOUS
<1>1. ASSUME UNCHANGED panel PROVE PanelNoDraft'
  BY <1>1 DEF PanelNoDraft
<1>2. ASSUME NEW a \in Admins, panel' = [panel EXCEPT ![a] = Idle] PROVE PanelNoDraft'
  BY <1>2 DEF PanelNoDraft, TypeOK
<1>3. ASSUME NEW a \in Admins, NEW o \in Orders, LoadCard(a, o) PROVE PanelNoDraft'
  BY <1>3 DEF LoadCard, Fresh, PanelNoDraft, TypeOK
<1>4. CASE Restart
  BY <1>4 DEF Restart, PanelNoDraft
<1> QED BY <1>1, <1>2, <1>3, <1>4
        DEF BoardNext, PanelNext, Submit, MarkPaid, Revive, Enqueue, CancelUnpaid,
            OwnerCancel, Cancel, GiveUp, SetStatus, MarkArrived, MoveCard, boardVars

\* Money stays accounted for while nothing is withdrawn and no order leaves work.
LEMMA AccountedKept ==
    ASSUME FlowTypeOK, MoneyAccounted, UNCHANGED payPaid,
           \A p \in Payments : payStatus[p] = "paid" => payStatus'[p] = "paid",
           \A p \in Payments : refund[p] # "none" => refund'[p] # "none",
           receipts \subseteq receipts',
           \A o \in Orders : status[o] \in PaidStatuses => status'[o] \in PaidStatuses
    PROVE  MoneyAccounted'
BY PaymentsAssumption DEF MoneyAccounted

\* A cancel asks for the refund of the payment that paid the order.
LEMMA CancelAccounted ==
    ASSUME AccountedInv, NEW o \in Orders, NEW why, Cancel(o), CloseMoney(o, why)
    PROVE  MoneyAccounted'
<1> USE DEF AccountedInv, MoneyInv
<1>1. \A q \in Payments : payStatus[q] = "paid" => payStatus'[q] = "paid"
  BY CloseMoneyKeeps
<1>2. UNCHANGED <<payPaid, receipts>>
  BY DEF CloseMoney
<1>3. \A x \in Orders : x # o => status'[x] = status[x]
  BY DEF Cancel, ChangeStatus, Fresh, FlowTypeOK, TypeOK
<1>4. \A q \in Payments : refund[q] # "none" => refund'[q] # "none"
  BY DEF CloseMoney, RefundRequired, FlowTypeOK
<1>5. ASSUME NEW q \in Payments, OrderOf[q] = o, payStatus[q] = "paid",
             status[o] \in PaidStatuses
      PROVE  refund'[q] # "none"
  <2>1. paidAt[o] /\ status[o] # "cancelled"
    BY <1>5 DEF PaidInv, WorkIsPaid, PaidStatuses, QueueStatuses
  <2>2. q \in Attempts(o, "paid")
    BY <1>5 DEF Attempts
  <2> QED BY <2>1, <2>2 DEF CloseMoney, RefundRequired, FlowTypeOK
<1> QED BY <1>1, <1>2, <1>3, <1>4, <1>5, PaymentsAssumption DEF MoneyAccounted

\* A confirmation records money of an order in work, or asks for its refund.
LEMMA ConfirmAccounted ==
    ASSUME AccountedInv, NEW p \in Payments, Confirm(p)
    PROVE  MoneyAccounted'
<1> USE DEF AccountedInv, MoneyInv
<1>0. OrderOf[p] \in Orders
  BY PaymentsAssumption
<1>1. ASSUME RecordPaid(p), Enqueue(OrderOf[p]), UNCHANGED refund PROVE MoneyAccounted'
  <2>1. status' = [status EXCEPT ![OrderOf[p]] = "queued"]
    BY <1>1 DEF Enqueue, ChangeStatus
  <2>2. \A o \in Orders : status[o] \in PaidStatuses => status'[o] \in PaidStatuses
    BY <2>1 DEF FlowTypeOK, TypeOK, PaidStatuses, QueueStatuses
  <2>3. status'[OrderOf[p]] \in PaidStatuses
    BY <1>0, <2>1 DEF FlowTypeOK, TypeOK, PaidStatuses, QueueStatuses
  <2> QED BY <1>1, <2>2, <2>3, PaymentsAssumption
          DEF RecordPaid, MoneyAccounted, FlowTypeOK
<1>2. ASSUME refund' = RefundRequired({p}), UNCHANGED status,
             payPaid' = [payPaid EXCEPT ![p] = TRUE], receipts \subseteq receipts',
             \A q \in Payments \ {p} : payStatus'[q] = payStatus[q]
      PROVE  MoneyAccounted'
  <2>1. refund'[p] # "none"
    BY <1>2 DEF RefundRequired, FlowTypeOK
  <2>2. \A q \in Payments \ {p} : refund'[q] = refund[q] /\ payPaid'[q] = payPaid[q]
    BY <1>2 DEF RefundRequired, FlowTypeOK
  <2> QED BY <1>2, <2>1, <2>2 DEF MoneyAccounted
<1>3. CASE ConfirmPending(p)
  BY <1>1, <1>3 DEF ConfirmPending, MarkPaid
<1>4. CASE LateRevives(p)
  BY <1>1, <1>4 DEF LateRevives, Revive
<1>5. CASE LateRefunded(p)
  BY <1>2, <1>5 DEF LateRefunded, RecordPaid, FlowTypeOK, boardVars
<1>6. CASE LateDuplicate(p)
  BY <1>2, <1>6 DEF LateDuplicate, boardVars
<1> QED BY <1>3, <1>4, <1>5, <1>6 DEF Confirm

\* Every step of a shop without the stub keeps the invariant.
LEMMA AccountedStep ==
    ASSUME "stub" \notin Modes
    PROVE  AccountedInv /\ [Next]_vars => AccountedInv'
<1>1. SUFFICES ASSUME AccountedInv, [Next]_vars PROVE MoneyAccounted'
  BY MoneyStep, PanelNoDraftStep, FlowRefines DEF AccountedInv, MoneyInv, FlowTypeOK
<1> USE <1>1 DEF AccountedInv, MoneyInv
<1>2. ASSUME NEW o \in Orders, CustomerNext(o) PROVE MoneyAccounted'
  <2>1. ASSUME NEW p \in Payments, Issue(p) PROVE
            \A q \in Payments : payStatus[q] = "paid" => payStatus'[q] = "paid"
    BY <2>1 DEF Issue, Attempts
  <2>2. ASSUME Submit(o), NEW x \in Orders, status[x] \in PaidStatuses
        PROVE  status'[x] \in PaidStatuses
    BY <2>2 DEF Submit, ChangeStatus, Fresh, FlowTypeOK, TypeOK, PaidStatuses,
                QueueStatuses
  <2>3. CASE Checkout(o)
    BY <2>1, <2>2, <2>3, AccountedKept DEF Checkout
  <2>4. CASE AskLink(o) \/ ReturnLink(o) \/ DropAsk(o)
    BY <2>4, AccountedKept DEF AskLink, ReturnLink, DropAsk, moneyVars, boardVars
  <2>5. CASE CreatePayment(o)
    BY <2>1, <2>5, AccountedKept DEF CreatePayment, boardVars
  <2>6. CASE CustomerCancel(o)
    BY <2>6, CancelAccounted DEF CustomerCancel, CancelUnpaid
  <2> QED BY <1>2, <2>3, <2>4, <2>5, <2>6 DEF CustomerNext
<1>3. ASSUME NEW o \in Orders, Expire(o) PROVE MoneyAccounted'
  BY <1>3, CancelAccounted DEF Expire, CancelUnpaid
<1>4. ASSUME NEW p \in Payments, PaymentNext(p) PROVE MoneyAccounted'
  <2>1. ~StubConfirm(p)
    BY DEF StubConfirm, FlowTypeOK
  <2>2. CASE GoToRobokassa(p) \/ Charge(p) \/ WindowCloses(p)
    BY <2>2, AccountedKept DEF GoToRobokassa, Charge, WindowCloses, moneyVars, boardVars
  <2>3. CASE CompleteRefund(p)
    BY <2>3, AccountedKept DEF CompleteRefund, boardVars, FlowTypeOK
  <2> QED BY <1>4, <2>1, <2>2, <2>3, ConfirmAccounted
          DEF PaymentNext, ResultUrl, Reconcile
<1>5. ASSUME NEW a \in Admins, NEW o \in Orders, OwnerCancels(a, o)
      PROVE  MoneyAccounted'
  <2>1. CASE OwnerCancel(a, o)
    BY <1>5, <2>1, CancelAccounted DEF OwnerCancels, OwnerCancel
  <2>2. CASE UNCHANGED boardVars
    <3>1. \A q \in Payments : refund[q] # "none" => refund'[q] # "none"
      BY <1>5 DEF OwnerCancels, CloseMoney, RefundRequired, FlowTypeOK
    <3> QED BY <1>5, <2>2, <3>1, AccountedKept, CloseMoneyKeeps
            DEF OwnerCancels, CloseMoney, boardVars
  <2> QED BY <1>5, <2>1, <2>2 DEF OwnerCancels
<1>6. ASSUME PanelNext, UNCHANGED flowVars PROVE MoneyAccounted'
  BY <1>6, PanelKeepsWork, AccountedKept DEF FlowTypeOK, flowVars, moneyVars
<1>7. ASSUME NEW m \in Modes, SwitchMode(m) PROVE MoneyAccounted'
  BY <1>7, AccountedKept DEF SwitchMode, Restart, moneyVars
<1>8. ASSUME UNCHANGED vars PROVE MoneyAccounted'
  BY <1>8, AccountedKept DEF vars, boardVars, flowVars, moneyVars
<1> QED BY <1>2, <1>3, <1>4, <1>5, <1>6, <1>7, <1>8 DEF Next

\* In a shop that is never configured for the payment stub no recorded money is
\* forgotten: it belongs to an order in work or stands in the refunds.
THEOREM FlowMoneyAccounted ==
    ASSUME "stub" \notin Modes
    PROVE  Spec => []MoneyAccounted
<1>1. Init => PanelNoDraft /\ MoneyAccounted
  BY DEF Init, BoardInit, PanelNoDraft, MoneyAccounted
<1>2. MoneyInv /\ PanelNoDraft /\ MoneyAccounted /\ [Next]_vars
          => (PanelNoDraft /\ MoneyAccounted)'
  BY AccountedStep DEF AccountedInv
<1> QED BY <1>1, <1>2, MoneyInvariant, PTL DEF Spec

-----------------------------------------------------------------------------
(* An order in work is not refunded. *)

\* A successful attempt and an attempt to be returned both have their money on
\* record, so an attempt that is still to be confirmed is neither.
RefundsRecorded ==
    \A p \in Payments : payStatus[p] = "paid" \/ refund[p] # "none" => payPaid[p]

\* An order that has not been paid yet does not claim to be: it can leave for
\* the queue by a payment only, never by a card.
WaitingUnpaid ==
    \A o \in Orders : status[o] \in {"draft", "waiting_payment"} => ~paidAt[o]

\* The inductive invariant of a shop with one panel session.
NotRefundedInv ==
    MoneyInv /\ OneSessionInv /\ RefundsRecorded /\ WaitingUnpaid /\ WorkNotRefunded

\* Orders stay out of work, and no attempt newly counts as paid or returned.
LEMMA NotRefundedKept ==
    ASSUME WorkNotRefunded,
           \A p \in Payments : payStatus'[p] = "paid" /\ refund'[p] # "none"
                                   => payStatus[p] = "paid" /\ refund[p] # "none",
           \A o \in Orders : status'[o] \in PaidStatuses => status[o] \in PaidStatuses
    PROVE  WorkNotRefunded'
BY PaymentsAssumption DEF WorkNotRefunded

\* A request of the one session puts only an order to work that is in work.
LEMMA PanelPutsPaidToWork ==
    ASSUME OneSessionInv, WaitingUnpaid, PanelNext, NEW o \in Orders,
           status'[o] \in PaidStatuses
    PROVE  status[o] \in PaidStatuses
<1> USE DEF OneSessionInv
<1>1. ASSUME NEW a \in Admins, panel[a] # Idle, NEW new \in OrderStatus, new # "cancelled",
             CanChange(panel[a], new), status' = [status EXCEPT ![panel[a].order] = new]
      PROVE  status[o] \in PaidStatuses
  <2> DEFINE s == panel[a]
  <2>1. /\ s.order \in Orders
        /\ s.status = status[s.order] /\ s.paid = paidAt[s.order]
    BY <1>1, MovedAsItStands
  <2>2. s.status # "draft"
    BY <1>1 DEF ViewHolds
  <2>3. new \in AllowedTransitions[s.status] /\ ~NeedsPayment(s, new)
    BY <1>1 DEF CanChange
  <2>4. s.status \in OrderStatus
    BY <2>1 DEF TypeOK
  <2>5. s.status \in PaidStatuses
    <3>1. CASE s.status = "waiting_payment"
      <4>1. ~s.paid
        BY <2>1, <3>1 DEF WaitingUnpaid
      <4>2. new \in PaidStatuses
        BY <1>1, <2>3, <3>1 DEF AllowedTransitions, OrderStatus, PaidStatuses, QueueStatuses
      <4> QED BY <2>3, <3>1, <4>1, <4>2 DEF NeedsPayment, PaidStatuses, QueueStatuses
    <3>2. CASE s.status = "cancelled"
      BY <2>3, <3>2 DEF AllowedTransitions, OrderStatus
    <3> QED BY <2>2, <2>4, <3>1, <3>2 DEF OrderStatus, PaidStatuses, QueueStatuses
  <2> QED BY <1>1, <2>1, <2>5 DEF TypeOK
<1>2. ASSUME NEW a \in Admins, NEW new \in OrderStatus, SetStatus(a, new)
      PROVE  status[o] \in PaidStatuses
  BY <1>1, <1>2 DEF SetStatus, ChangeStatus
<1>3. ASSUME NEW a \in Admins, NEW new \in PaidStatuses, MoveCard(a, new)
      PROVE  status[o] \in PaidStatuses
  <2>1. new \in OrderStatus /\ new # "cancelled"
    BY PaidStatusesType DEF PaidStatuses, QueueStatuses
  <2>2. CASE new = panel[a].status
    BY <1>3, <2>2 DEF MoveCard, StagesMoved
  <2> QED BY <1>1, <1>3, <2>1, <2>2 DEF MoveCard, StagesMoved
<1>4. ASSUME NEW a \in Admins, MarkArrived(a) PROVE status[o] \in PaidStatuses
  BY <1>2, <1>4 DEF MarkArrived, OrderStatus
<1> QED BY <1>2, <1>3, <1>4 DEF PanelNext, Restart, GiveUp, LoadCard

\* Unpaid orders stay unpaid until they are queued.
LEMMA WaitingUnpaidStep ==
    ASSUME TypeOK, PanelNoDraft, WaitingUnpaid, [BoardNext]_boardVars
    PROVE  WaitingUnpaid'
<1>1. ASSUME NEW s \in Loaded, s.status # "draft" \/ ~paidAt[s.order], NEW new \in OrderStatus,
             ChangeStatus(s, new), UNCHANGED paidAt
      PROVE  WaitingUnpaid'
  <2>1. s.order \in Orders /\ s.status \in OrderStatus
        /\ status' = [status EXCEPT ![s.order] = new] /\ new \in AllowedTransitions[s.status]
    BY <1>1 DEF ChangeStatus, CanChange, Loaded
  <2>2. new \in {"draft", "waiting_payment"} => s.status = "draft"
    BY <2>1 DEF AllowedTransitions, OrderStatus
  <2> QED BY <1>1, <2>1, <2>2 DEF WaitingUnpaid, TypeOK
<1>2. ASSUME UNCHANGED <<status, paidAt>> PROVE WaitingUnpaid'
  BY <1>2 DEF WaitingUnpaid
<1>3. ASSUME NEW o \in Orders PROVE Fresh(o) \in Loaded /\ Fresh(o).order = o
                                    /\ Fresh(o).status = status[o]
  BY FreshType DEF Fresh
<1>4. ASSUME NEW o \in Orders, Submit(o) \/ Cancel(o) PROVE WaitingUnpaid'
  <2>1. Fresh(o).status # "draft" \/ ~paidAt[o]
    BY <1>3 DEF WaitingUnpaid
  <2> QED BY <1>1, <1>3, <1>4, <2>1 DEF Submit, Cancel, OrderStatus
<1>5. ASSUME NEW o \in Orders, Enqueue(o) PROVE WaitingUnpaid'
  BY <1>5 DEF Enqueue, ChangeStatus, WaitingUnpaid, TypeOK
<1>6. ASSUME NEW a \in Admins, NEW new \in OrderStatus, SetStatus(a, new)
      PROVE  WaitingUnpaid'
  <2>1. panel[a] \in Loaded /\ panel[a].status # "draft"
    BY <1>6 DEF SetStatus, PanelNoDraft, TypeOK
  <2> QED BY <1>1, <1>6, <2>1 DEF SetStatus
<1>7. ASSUME NEW a \in Admins, NEW new \in PaidStatuses, MoveCard(a, new)
      PROVE  WaitingUnpaid'
  BY <1>7 DEF MoveCard, StagesMoved, WaitingUnpaid, TypeOK, PaidStatuses, QueueStatuses
<1>8. ASSUME NEW a \in Admins, MarkArrived(a) PROVE WaitingUnpaid'
  BY <1>6, <1>8 DEF MarkArrived, OrderStatus
<1> QED BY <1>2, <1>4, <1>5, <1>6, <1>7, <1>8
        DEF BoardNext, PanelNext, Submit, MarkPaid, Revive, CancelUnpaid,
            OwnerCancel, GiveUp, LoadCard, Restart, boardVars

\* A cancel asks for the refund of orders it takes out of work.
LEMMA CancelNotRefunded ==
    ASSUME NotRefundedInv, NEW o \in Orders, NEW why, CloseMoney(o, why),
           Cancel(o) \/ (UNCHANGED boardVars /\ status[o] = "cancelled")
    PROVE  RefundsRecorded' /\ WorkNotRefunded'
<1> USE DEF NotRefundedInv, MoneyInv
<1>1. /\ UNCHANGED payPaid
      /\ payStatus' = [q \in Payments |->
            IF q \in Attempts(o, "pending") THEN "cancelled" ELSE payStatus[q]]
      /\ refund' = IF paidAt[o] /\ status[o] # "cancelled"
                   THEN RefundRequired(Attempts(o, "paid")) ELSE refund
  BY DEF CloseMoney
<1>2. \A q \in Payments : payStatus'[q] = "paid" => payStatus[q] = "paid"
  BY <1>1
<1>3. ASSUME NEW q \in Payments, refund'[q] # "none", refund[q] = "none"
      PROVE  /\ OrderOf[q] = o /\ payStatus[q] = "paid" /\ status[o] # "cancelled"
  BY <1>1, <1>3 DEF RefundRequired, Attempts
<1>4. RefundsRecorded'
  BY <1>1, <1>2, <1>3 DEF RefundsRecorded
<1>5. /\ \A x \in Orders \ {o} : status'[x] = status[x]
      /\ status'[o] = "cancelled"
  <2>1. CASE Cancel(o)
    BY <2>1 DEF Cancel, ChangeStatus, Fresh, OneSessionInv, TypeOK
  <2> QED BY <2>1 DEF boardVars
<1>6. WorkNotRefunded'
  <2> SUFFICES ASSUME NEW q \in Payments, payStatus'[q] = "paid", refund'[q] # "none"
               PROVE  status'[OrderOf[q]] \notin PaidStatuses
    BY DEF WorkNotRefunded
  <2>1. CASE OrderOf[q] = o
    BY <1>5, <2>1 DEF PaidStatuses, QueueStatuses
  <2>2. CASE OrderOf[q] # o
    <3>1. refund[q] # "none"
      BY <1>3, <2>2
    <3> QED BY <1>2, <1>5, <2>2, <3>1, PaymentsAssumption DEF WorkNotRefunded
  <2> QED BY <2>1, <2>2
<1> QED BY <1>4, <1>6

\* A confirmation puts to work only the order of the one successful attempt,
\* which nobody is told to return, or returns the money of an idle order.
LEMMA ConfirmNotRefunded ==
    ASSUME NotRefundedInv, NEW p \in Payments, Confirm(p)
    PROVE  RefundsRecorded' /\ WorkNotRefunded'
<1> USE DEF NotRefundedInv, MoneyInv
<1>0. OrderOf[p] \in Orders /\ ~payPaid[p] /\ refund[p] = "none" /\ payStatus[p] # "paid"
  BY PaymentsAssumption DEF Confirm, RefundsRecorded
<1>1. ASSUME RecordPaid(p) PROVE
          /\ payStatus'[p] = "paid" /\ payPaid'[p]
          /\ \A q \in Payments \ {p} : payStatus'[q] = payStatus[q] /\ payPaid'[q] = payPaid[q]
          /\ \A q \in Payments : OrderOf[q] = OrderOf[p] /\ payStatus[q] = "paid" => q = p
  BY <1>1 DEF RecordPaid, OnlyOne, Attempts, FlowTypeOK
<1>2. ASSUME RecordPaid(p), Enqueue(OrderOf[p]), UNCHANGED refund
      PROVE  RefundsRecorded' /\ WorkNotRefunded'
  <2>1. status' = [status EXCEPT ![OrderOf[p]] = "queued"]
    BY <1>2 DEF Enqueue, ChangeStatus
  <2>2. \A x \in Orders : x # OrderOf[p] => status'[x] = status[x]
    BY <2>1 DEF OneSessionInv, TypeOK
  <2>3. RefundsRecorded'
    BY <1>1, <1>2 DEF RefundsRecorded
  <2>4. ASSUME NEW q \in Payments, payStatus'[q] = "paid", refund[q] # "none"
        PROVE  status'[OrderOf[q]] \notin PaidStatuses
    <3>1. q # p /\ payStatus[q] = "paid" /\ OrderOf[q] # OrderOf[p]
      BY <1>0, <1>1, <1>2, <2>4
    <3> QED BY <2>2, <2>4, <3>1, PaymentsAssumption DEF WorkNotRefunded
  <2> QED BY <1>2, <2>3, <2>4 DEF WorkNotRefunded
<1>3. ASSUME refund' = RefundRequired({p})
      PROVE  \A q \in Payments \ {p} : refund'[q] = refund[q]
  BY <1>3 DEF RefundRequired
<1>4. CASE ConfirmPending(p)
  BY <1>2, <1>4 DEF ConfirmPending, MarkPaid
<1>5. CASE LateRevives(p)
  BY <1>2, <1>5 DEF LateRevives, Revive
<1>6. CASE LateRefunded(p)
  <2>1. /\ RecordPaid(p) /\ refund' = RefundRequired({p}) /\ UNCHANGED status
        /\ ~paidAt[OrderOf[p]]
    BY <1>6 DEF LateRefunded, boardVars
  <2>2. status[OrderOf[p]] \notin PaidStatuses
    BY <1>0, <2>1 DEF PaidInv, WorkIsPaid
  <2>3. RefundsRecorded'
    BY <1>1, <1>3, <2>1 DEF RefundsRecorded
  <2>4. WorkNotRefunded'
    BY <1>1, <1>3, <2>1, <2>2 DEF WorkNotRefunded
  <2> QED BY <2>3, <2>4
<1>7. CASE LateDuplicate(p)
  <2>1. /\ refund' = RefundRequired({p}) /\ UNCHANGED <<status, payStatus>>
        /\ payPaid' = [payPaid EXCEPT ![p] = TRUE]
    BY <1>7 DEF LateDuplicate, boardVars
  <2>2. payPaid'[p] /\ \A q \in Payments \ {p} : payPaid'[q] = payPaid[q]
    BY <2>1 DEF FlowTypeOK
  <2>3. RefundsRecorded'
    BY <1>3, <2>1, <2>2 DEF RefundsRecorded
  <2>4. WorkNotRefunded'
    BY <1>0, <1>3, <2>1 DEF WorkNotRefunded
  <2> QED BY <2>3, <2>4
<1> QED BY <1>4, <1>5, <1>6, <1>7 DEF Confirm

\* Every step of a shop with one panel session keeps the invariant.
LEMMA NotRefundedStep ==
    ASSUME OneSession, NotRefundedInv, [Next]_vars
    PROVE  NotRefundedInv'
<1> USE DEF NotRefundedInv, MoneyInv
<1>0. PanelNoDraft
  BY DEF OneSessionInv, ViewHolds, PanelNoDraft
<1>1. SUFFICES RefundsRecorded' /\ WorkNotRefunded'
  BY <1>0, MoneyStep, OneSessionStep, WaitingUnpaidStep, FlowRefines DEF OneSessionInv
<1>2. ASSUME UNCHANGED <<payPaid, refund>>,
             \A q \in Payments : payStatus'[q] = "paid" => payStatus[q] = "paid",
             \A o \in Orders : status'[o] \in PaidStatuses => status[o] \in PaidStatuses
      PROVE  RefundsRecorded' /\ WorkNotRefunded'
  BY <1>2, NotRefundedKept DEF RefundsRecorded
<1>3. ASSUME NEW o \in Orders, CustomerNext(o) PROVE RefundsRecorded' /\ WorkNotRefunded'
  <2>1. ASSUME NEW p \in Payments, Issue(p) PROVE
            \A q \in Payments : payStatus'[q] = "paid" => payStatus[q] = "paid"
    BY <2>1 DEF Issue, Attempts
  <2>2. ASSUME Submit(o), NEW x \in Orders, status'[x] \in PaidStatuses
        PROVE  status[x] \in PaidStatuses
    <3>1. status' = [status EXCEPT ![o] = "waiting_payment"]
      BY <2>2 DEF Submit, ChangeStatus, Fresh
    <3> QED BY <2>2, <3>1 DEF OneSessionInv, TypeOK, PaidStatuses, QueueStatuses
  <2>3. CASE Checkout(o)
    BY <1>2, <2>1, <2>2, <2>3 DEF Checkout
  <2>4. CASE AskLink(o) \/ ReturnLink(o) \/ DropAsk(o)
    BY <1>2, <2>4 DEF AskLink, ReturnLink, DropAsk, moneyVars, boardVars
  <2>5. CASE CreatePayment(o)
    BY <1>2, <2>1, <2>5 DEF CreatePayment, boardVars
  <2>6. CASE CustomerCancel(o)
    BY <2>6, CancelNotRefunded DEF CustomerCancel, CancelUnpaid
  <2> QED BY <1>3, <2>3, <2>4, <2>5, <2>6 DEF CustomerNext
<1>4. ASSUME NEW o \in Orders, Expire(o) PROVE RefundsRecorded' /\ WorkNotRefunded'
  BY <1>4, CancelNotRefunded DEF Expire, CancelUnpaid
<1>5. ASSUME NEW p \in Payments, PaymentNext(p) PROVE RefundsRecorded' /\ WorkNotRefunded'
  <2>1. CASE GoToRobokassa(p) \/ Charge(p) \/ WindowCloses(p)
    BY <1>2, <2>1 DEF GoToRobokassa, Charge, WindowCloses, moneyVars, boardVars
  <2>2. CASE CompleteRefund(p)
    <3>1. /\ refund[p] # "none" /\ \A q \in Payments \ {p} : refund'[q] = refund[q]
          /\ UNCHANGED <<status, payPaid, payStatus>>
      BY <2>2 DEF CompleteRefund, boardVars
    <3> QED BY <3>1 DEF RefundsRecorded, WorkNotRefunded
  <2>3. ASSUME StubConfirm(p), ~Confirm(p) PROVE RefundsRecorded' /\ WorkNotRefunded'
    <3>1. /\ ~payPaid[p] /\ payStatus' = [payStatus EXCEPT ![p] = "paid"]
          /\ payPaid' = [payPaid EXCEPT ![p] = TRUE] /\ UNCHANGED <<status, refund>>
      BY <2>3 DEF StubConfirm, boardVars
    <3>2. refund[p] = "none" /\ payPaid'[p]
          /\ \A q \in Payments \ {p} : payStatus'[q] = payStatus[q] /\ payPaid'[q] = payPaid[q]
      BY <3>1 DEF RefundsRecorded, FlowTypeOK
    <3> QED BY <3>1, <3>2 DEF RefundsRecorded, WorkNotRefunded
  <2> QED BY <1>5, <2>1, <2>2, <2>3, ConfirmNotRefunded
          DEF PaymentNext, ResultUrl, Reconcile, StubConfirm
<1>6. ASSUME NEW a \in Admins, NEW o \in Orders, OwnerCancels(a, o)
      PROVE  RefundsRecorded' /\ WorkNotRefunded'
  BY <1>6, CancelNotRefunded DEF OwnerCancels, OwnerCancel
<1>7. ASSUME PanelNext, UNCHANGED flowVars PROVE RefundsRecorded' /\ WorkNotRefunded'
  BY <1>2, <1>7, PanelPutsPaidToWork DEF flowVars
<1>8. ASSUME NEW m \in Modes, SwitchMode(m) PROVE RefundsRecorded' /\ WorkNotRefunded'
  BY <1>2, <1>8 DEF SwitchMode, Restart, moneyVars
<1>9. ASSUME UNCHANGED vars PROVE RefundsRecorded' /\ WorkNotRefunded'
  BY <1>2, <1>9 DEF vars, boardVars, flowVars
<1> QED BY <1>3, <1>4, <1>5, <1>6, <1>7, <1>8, <1>9 DEF Next

\* With one panel session the owner is never told to return the payment that
\* keeps an order in work, however payments, cancels and contours interleave.
THEOREM FlowWorkNotRefunded ==
    ASSUME OneSession
    PROVE  Spec => []WorkNotRefunded
<1>1. Init => RefundsRecorded /\ WaitingUnpaid /\ WorkNotRefunded
  BY DEF Init, BoardInit, RefundsRecorded, WaitingUnpaid, WorkNotRefunded
<1>2. MoneyInv /\ OneSessionInv /\ RefundsRecorded /\ WaitingUnpaid /\ WorkNotRefunded
        /\ [Next]_vars => (RefundsRecorded /\ WaitingUnpaid /\ WorkNotRefunded)'
  BY NotRefundedStep DEF NotRefundedInv
<1> QED BY <1>1, <1>2, MoneyInvariant, BoardOneSession, FlowImplementsBoard, PTL DEF Spec

-----------------------------------------------------------------------------
(* Receipts: whose money is on record, and who reports the sale. *)

IsAttempt(r) ==
    /\ DOMAIN r = {"status", "contour", "amount", "sent", "turned"}
    /\ r.sent \in BOOLEAN

IsReceipt(r) == DOMAIN r = {"provider", "status", "link", "sum", "told"}

Tables ==
    /\ attempt = [a \in Numbers |-> attempt[a]]
    /\ receipt = [a \in Numbers |-> receipt[a]]
    /\ forms \in [Numbers -> SUBSET BOOLEAN]
    /\ cash \in [Numbers -> {"none", "reported", "unreported"}]
    /\ paidWhen \in [Numbers -> Nat]
    /\ \A a \in Numbers : IsAttempt(attempt[a]) /\ IsReceipt(receipt[a])

\* The database remembers the form that was given last; Robokassa took one of them.
FormKnown(a) ==
    /\ forms[a] # {} => attempt[a].sent \in forms[a]
    /\ cash[a] = "reported" => TRUE \in forms[a]
    /\ cash[a] = "unreported" => FALSE \in forms[a]

\* Nothing of an attempt is on record before its money.
NoMoney(a) ==
    /\ attempt[a].status = "absent" => paidWhen[a] = 0 /\ forms[a] = {}
    /\ attempt[a].status = "paid" => paidWhen[a] > 0
    /\ paidWhen[a] = 0 => receipt[a] = NoReceipt

\* A live payment of the order has a receipt on its way, by whoever reports it.
OnItsWay(a) ==
    attempt[a].status = "paid" /\ attempt[a].contour = "prod" =>
        /\ receipt[a].provider \in {"robochecks", "manual"}
        /\ receipt[a].provider = "robochecks" <=> attempt[a].sent = TRUE
        /\ receipt[a].provider = "manual" => "owner" \in receipt[a].told

Linked(a) == receipt[a].link = TRUE => receipt[a].status = "registered"

Entry(a) == FormKnown(a) /\ NoMoney(a) /\ OnItsWay(a) /\ Linked(a)

ReceiptsInv ==
    /\ Tables
    /\ \A a \in Numbers : Entry(a)
    /\ MoneyIsOurs

------------------------------------------------------------------------------
LEMMA NoReceiptIs ==
    IsReceipt(NoReceipt) /\ NoReceipt.provider = "none" /\ NoReceipt.status = "none"
        /\ NoReceipt.link = FALSE
  <1>1. \A n : LET r == [provider |-> "none", status |-> "none", link |-> FALSE, sum |-> n,
                         told |-> {}]
               IN IsReceipt(r) /\ r.provider = "none" /\ r.status = "none" /\ r.link = FALSE
    BY DEF IsReceipt
  <1> QED
    BY <1>1, Zenon DEF NoReceipt

LEMMA PaidCountType ==
    ASSUME Tables
    PROVE  PaidCount \in Nat
  <1>1. IsFiniteSet(Numbers)
    BY TriesAssumption, FS_Interval DEF Numbers
  <1>2. IsFiniteSet({a \in Numbers : paidWhen[a] > 0})
    BY <1>1, FS_Subset
  <1> QED
    BY <1>2, FS_CardinalityType DEF PaidCount

LEMMA InitReceipts == ReceiptsInit => ReceiptsInv
  <1> SUFFICES ASSUME ReceiptsInit PROVE ReceiptsInv
    OBVIOUS
  <1>1. ASSUME NEW n
        PROVE  LET r == [status |-> "absent", contour |-> "stub", amount |-> n, sent |-> FALSE,
                         turned |-> FALSE]
               IN IsAttempt(r) /\ r.status = "absent" /\ r.contour = "stub"
    BY DEF IsAttempt
  <1>2. \A a \in Numbers :
            /\ IsAttempt(attempt[a]) /\ attempt[a].status = "absent"
            /\ attempt[a].contour = "stub"
    BY <1>1, Zenon DEF ReceiptsInit
  <1>3. \A a \in Numbers : /\ receipt[a] = NoReceipt /\ paidWhen[a] = 0 /\ forms[a] = {}
                           /\ cash[a] = "none"
    BY DEF ReceiptsInit
  <1>4. attempt = [a \in Numbers |-> attempt[a]] /\ receipt = [a \in Numbers |-> receipt[a]]
    BY Zenon DEF ReceiptsInit
  <1>5. Tables
    BY <1>2, <1>3, <1>4, NoReceiptIs DEF ReceiptsInit, Tables
  <1>6. \A a \in Numbers : Entry(a)
    BY <1>2, <1>3, NoReceiptIs DEF Entry, FormKnown, NoMoney, OnItsWay, Linked
  <1>7. MoneyIsOurs
    BY <1>2 DEF MoneyIsOurs
  <1> QED
    BY <1>5, <1>6, <1>7 DEF ReceiptsInv

------------------------------------------------------------------------------
(* Steps of one attempt, while nothing is recorded.                         *)

\* Of an attempt the step leaves all that the records rest on.
Harmless(a) ==
    /\ IsAttempt(attempt'[a])
    /\ \/ attempt[a].status = "absent"
       \/ /\ attempt'[a].contour = attempt[a].contour
          /\ attempt'[a].amount = attempt[a].amount
    /\ \/ attempt'[a].status = attempt[a].status
       \/ /\ attempt'[a].status \in {"pending", "cancelled"}
          /\ attempt[a].status \in {"absent", "pending"}
    /\ attempt[a].status = "paid" => attempt'[a].sent = attempt[a].sent
    /\ forms'[a] = forms[a] \/ attempt[a].status = "pending"
    /\ cash[a] # "none" => cash'[a] # "none"
    /\ FormKnown(a)'

LEMMA NothingRecorded ==
    ASSUME ReceiptsInv,
           attempt' = [a \in Numbers |-> attempt'[a]],
           forms' \in [Numbers -> SUBSET BOOLEAN],
           cash' \in [Numbers -> {"none", "reported", "unreported"}],
           UNCHANGED <<paidWhen, receipt>>,
           \A a \in Numbers : Harmless(a)
    PROVE  ReceiptsInv'
  <1>1. Tables'
    BY DEF ReceiptsInv, Tables, Harmless
  <1>2. \A a \in Numbers : Entry(a)'
    BY DEF ReceiptsInv, Entry, NoMoney, OnItsWay, Linked, Harmless
  <1>3. MoneyIsOurs'
    BY DEF ReceiptsInv, Entry, NoMoney, MoneyIsOurs, Mistakable, Harmless
  <1> QED
    BY <1>1, <1>2, <1>3 DEF ReceiptsInv

\* The pending attempts but a are closed, or kept.
Closed(r) == IF r.status = "pending" THEN [r EXCEPT !.status = "cancelled"] ELSE r

LEMMA ClosedIs ==
    ASSUME NEW r, IsAttempt(r)
    PROVE  /\ IsAttempt(Closed(r))
           /\ Closed(r).contour = r.contour /\ Closed(r).sent = r.sent
           /\ Closed(r).amount = r.amount
           /\ \/ Closed(r).status = r.status
              \/ Closed(r).status = "cancelled" /\ r.status = "pending"
  <1>1. CASE r.status = "pending"
    <2> DEFINE c == [r EXCEPT !.status = "cancelled"]
    <2>1. /\ DOMAIN c = DOMAIN r /\ c.contour = r.contour /\ c.sent = r.sent
          /\ c.amount = r.amount /\ c.status = "cancelled"
      BY DEF IsAttempt
    <2>2. Closed(r) = c
      BY <1>1 DEF Closed
    <2> HIDE DEF c
    <2> QED
      BY <1>1, <2>1, <2>2 DEF IsAttempt
  <1>2. CASE r.status # "pending"
    <2>1. Closed(r) = r
      BY <1>2 DEF Closed
    <2>2. IsAttempt(Closed(r))
      BY <2>1
    <2> QED
      BY <2>1, <2>2
  <1> QED
    BY <1>1, <1>2

LEMMA IssueStep ==
    ASSUME ReceiptsInv, NEW a \in Numbers, IssueTry(a)
    PROVE  ReceiptsInv'
  <1> DEFINE new == [status |-> "pending", contour |-> conf.contour, amount |-> Payable,
                     sent |-> FALSE, turned |-> FALSE]
  <1>1. attempt[a].status = "absent" /\ UNCHANGED <<paidWhen, receipt, forms, cash>>
    BY DEF IssueTry
  <1>2. attempt' = [b \in Numbers |-> IF b = a THEN new ELSE Closed(attempt[b])]
    BY DEF IssueTry, PendingTries, Closed
  <1>3. IsAttempt(new) /\ new.status = "pending" /\ new.sent = FALSE
    BY DEF IsAttempt
  <1> HIDE DEF new
  <1>4. attempt' = [b \in Numbers |-> attempt'[b]]
    BY <1>2, Zenon
  <1>5. forms[a] = {} /\ cash[a] = "none"
    BY <1>1 DEF ReceiptsInv, Tables, Entry, NoMoney, FormKnown
  <1>6. ASSUME NEW b \in Numbers, b # a
        PROVE  attempt'[b] = Closed(attempt[b]) /\ IsAttempt(attempt[b])
    BY <1>2, <1>6 DEF ReceiptsInv, Tables
  <1>7. attempt'[a] = new
    BY <1>2
  <1>8. ASSUME NEW b \in Numbers
        PROVE  Harmless(b)
    <2>1. CASE b = a
      BY <1>1, <1>3, <1>5, <1>7, <2>1 DEF FormKnown, Harmless
    <2>2. CASE b # a
      <3>1. attempt'[b] = Closed(attempt[b]) /\ IsAttempt(attempt[b])
        BY <1>6, <2>2
      <3>2. /\ IsAttempt(attempt'[b])
            /\ attempt'[b].contour = attempt[b].contour /\ attempt'[b].sent = attempt[b].sent
            /\ attempt'[b].amount = attempt[b].amount
            /\ \/ attempt'[b].status = attempt[b].status
               \/ attempt'[b].status = "cancelled" /\ attempt[b].status = "pending"
        BY <3>1, ClosedIs
      <3>3. FormKnown(b)
        BY DEF ReceiptsInv, Entry
      <3> QED
        BY <1>1, <3>2, <3>3 DEF FormKnown, Harmless
    <2> QED
      BY <2>1, <2>2
  <1>9. /\ forms' \in [Numbers -> SUBSET BOOLEAN]
        /\ cash' \in [Numbers -> {"none", "reported", "unreported"}]
    BY <1>1 DEF ReceiptsInv, Tables
  <1> QED
    BY <1>1, <1>4, <1>8, <1>9, NothingRecorded

LEMMA CloseStep ==
    ASSUME ReceiptsInv, NEW how, CloseDeal(how)
    PROVE  ReceiptsInv'
  <1>1. attempt' = [b \in Numbers |-> Closed(attempt[b])]
    BY DEF CloseDeal, PendingTries, Closed
  <1>2. UNCHANGED <<paidWhen, receipt, forms, cash>>
    BY DEF CloseDeal
  <1>3. attempt' = [b \in Numbers |-> attempt'[b]]
    BY <1>1, Zenon
  <1>4. ASSUME NEW b \in Numbers
        PROVE  attempt'[b] = Closed(attempt[b]) /\ IsAttempt(attempt[b]) /\ FormKnown(b)
    BY <1>1 DEF ReceiptsInv, Tables, Entry
  <1>5. /\ forms' \in [Numbers -> SUBSET BOOLEAN]
        /\ cash' \in [Numbers -> {"none", "reported", "unreported"}]
    BY <1>2 DEF ReceiptsInv, Tables
  <1>6. ASSUME NEW b \in Numbers
        PROVE  Harmless(b)
    <2>1. /\ IsAttempt(attempt'[b])
          /\ attempt'[b].contour = attempt[b].contour /\ attempt'[b].sent = attempt[b].sent
          /\ attempt'[b].amount = attempt[b].amount
          /\ \/ attempt'[b].status = attempt[b].status
             \/ attempt'[b].status = "cancelled" /\ attempt[b].status = "pending"
      BY <1>4, ClosedIs
    <2> QED
      BY <1>2, <1>4, <2>1 DEF Harmless, FormKnown
  <1> QED
    BY <1>2, <1>3, <1>5, <1>6, NothingRecorded

LEMMA GoStep ==
    ASSUME ReceiptsInv, NEW a \in Numbers, GoToCashDesk(a)
    PROVE  ReceiptsInv'
  <1>1. PICK f \in BOOLEAN : /\ attempt' = [attempt EXCEPT ![a].sent = f]
                             /\ forms' = [forms EXCEPT ![a] = @ \cup {f}]
    <2>1. ReceiptGoes(a) = FormHasReceipt(a)
      BY DEF ReceiptGoes, FormHasReceipt
    <2>2. ReceiptGoes(a) \in BOOLEAN
      BY Zenon DEF ReceiptGoes
    <2> HIDE DEF ReceiptGoes, FormHasReceipt
    <2> QED
      BY <2>1, <2>2, Zenon DEF GoToCashDesk
  <1>2. attempt[a].status = "pending" /\ UNCHANGED <<paidWhen, receipt, cash>>
    BY DEF GoToCashDesk
  <1>3. IsAttempt(attempt[a])
    BY DEF ReceiptsInv, Tables
  <1> DEFINE new == [attempt[a] EXCEPT !.sent = f]
  <1>4. /\ IsAttempt(new) /\ new.sent = f /\ new.status = "pending"
        /\ new.contour = attempt[a].contour /\ new.amount = attempt[a].amount
    BY <1>2, <1>3 DEF IsAttempt
  <1>5. attempt' = [attempt EXCEPT ![a] = new]
    BY <1>1
  <1> HIDE DEF new
  <1>6. \A b \in Numbers : attempt'[b] = IF b = a THEN new ELSE attempt[b]
    BY <1>5 DEF ReceiptsInv, Tables
  <1>7. attempt' = [b \in Numbers |-> attempt'[b]]
    <2>1. attempt = [b \in Numbers |-> attempt[b]]
      BY DEF ReceiptsInv, Tables
    <2> QED
      BY <1>5, <2>1, Zenon
  <1>8. /\ forms' \in [Numbers -> SUBSET BOOLEAN]
        /\ \A b \in Numbers : forms'[b] = IF b = a THEN forms[a] \cup {f} ELSE forms[b]
    BY <1>1 DEF ReceiptsInv, Tables
  <1>9. \A b \in Numbers : FormKnown(b)'
    BY <1>2, <1>4, <1>6, <1>8 DEF ReceiptsInv, Entry, FormKnown
  <1>10. \A b \in Numbers : IsAttempt(attempt'[b])
    BY <1>4, <1>6 DEF ReceiptsInv, Tables
  <1>11. cash' \in [Numbers -> {"none", "reported", "unreported"}]
    BY <1>2 DEF ReceiptsInv, Tables
  <1>12. \A b \in Numbers : Harmless(b)
    BY <1>2, <1>4, <1>6, <1>8, <1>9, <1>10 DEF Harmless
  <1> QED
    BY <1>2, <1>7, <1>8, <1>11, <1>12, NothingRecorded

LEMMA PayStep ==
    ASSUME ReceiptsInv, NEW a \in Numbers, NEW form \in BOOLEAN, PayOnForm(a, form)
    PROVE  ReceiptsInv'
  <1>1. PICK way \in {"reported", "unreported"} :
            /\ cash' = [cash EXCEPT ![a] = way]
            /\ way = "reported" => TRUE \in forms[a]
            /\ way = "unreported" => FALSE \in forms[a]
    BY DEF PayOnForm
  <1>2. cash[a] = "none" /\ UNCHANGED <<attempt, paidWhen, receipt, forms>>
    BY DEF PayOnForm
  <1>3. /\ cash' \in [Numbers -> {"none", "reported", "unreported"}]
        /\ \A b \in Numbers : cash'[b] = IF b = a THEN way ELSE cash[b]
    BY <1>1 DEF ReceiptsInv, Tables
  <1>4. \A b \in Numbers : FormKnown(b)'
    BY <1>1, <1>2, <1>3 DEF ReceiptsInv, Entry, FormKnown
  <1>5. attempt' = [b \in Numbers |-> attempt'[b]]
    BY <1>2 DEF ReceiptsInv, Tables
  <1>6. forms' \in [Numbers -> SUBSET BOOLEAN]
    BY <1>2 DEF ReceiptsInv, Tables
  <1>7. \A b \in Numbers : Harmless(b)
    BY <1>1, <1>2, <1>3, <1>4 DEF Harmless, ReceiptsInv, Tables
  <1> QED
    BY <1>2, <1>3, <1>5, <1>6, <1>7, NothingRecorded

LEMMA TurnStep ==
    ASSUME ReceiptsInv, NEW new, TurnConf(new)
    PROVE  ReceiptsInv'
  <1>1. ASSUME NEW r, IsAttempt(r), NEW v, NEW t, t = [r EXCEPT !.turned = v]
        PROVE  /\ IsAttempt(t) /\ t.status = r.status /\ t.contour = r.contour
               /\ t.sent = r.sent /\ t.amount = r.amount
    <2>1. /\ DOMAIN t = DOMAIN r /\ t.status = r.status /\ t.contour = r.contour
          /\ t.sent = r.sent /\ t.amount = r.amount
      BY <1>1 DEF IsAttempt
    <2> QED
      BY <1>1, <2>1 DEF IsAttempt
  <1>2. \A b \in Numbers : \E v : attempt'[b] = [attempt[b] EXCEPT !.turned = v]
    BY Zenon DEF TurnConf
  <1>3. \A b \in Numbers : IsAttempt(attempt[b])
    BY DEF ReceiptsInv, Tables
  <1>4. ASSUME NEW b \in Numbers
        PROVE  /\ IsAttempt(attempt'[b]) /\ attempt'[b].status = attempt[b].status
               /\ attempt'[b].contour = attempt[b].contour
               /\ attempt'[b].sent = attempt[b].sent
               /\ attempt'[b].amount = attempt[b].amount
    <2>1. PICK v : attempt'[b] = [attempt[b] EXCEPT !.turned = v]
      BY <1>2
    <2>2. IsAttempt(attempt[b])
      BY <1>3
    <2> QED
      BY <1>1, <2>1, <2>2
  <1>5. attempt' = [b \in Numbers |-> attempt'[b]]
    BY Zenon DEF TurnConf
  <1>6. UNCHANGED <<paidWhen, receipt, forms, cash>>
    BY DEF TurnConf
  <1>7. /\ forms' \in [Numbers -> SUBSET BOOLEAN]
        /\ cash' \in [Numbers -> {"none", "reported", "unreported"}]
    BY <1>6 DEF ReceiptsInv, Tables
  <1>8. \A b \in Numbers : Harmless(b)
    BY <1>4, <1>6 DEF ReceiptsInv, Entry, FormKnown, Harmless
  <1> QED
    BY <1>5, <1>6, <1>7, <1>8, NothingRecorded

------------------------------------------------------------------------------
(* Money on record, and links.                                              *)

\* A new receipt says who reports the sale, by what the database remembers of the form.
LEMMA NewReceiptIs ==
    ASSUME NEW a \in Numbers, receipt[a] = NoReceipt, attempt[a].sent \in BOOLEAN
    PROVE  LET r == NewReceipt(a)
           IN  /\ IsReceipt(r) /\ r.link = FALSE
               /\ attempt[a].contour = "prod" =>
                    /\ r.provider \in {"robochecks", "manual"}
                    /\ r.provider = "robochecks" <=> attempt[a].sent = TRUE
                    /\ r.provider = "manual" => "owner" \in r.told
  <1>1. PICK provider, stands, told :
            /\ NewReceipt(a) = [provider |-> provider, status |-> stands, link |-> FALSE,
                                sum |-> SumOf(ReceiptLines), told |-> told]
            /\ attempt[a].contour = "prod" =>
                 /\ provider = IF attempt[a].sent THEN "robochecks" ELSE "manual"
                 /\ told = IF attempt[a].sent THEN {} ELSE {"owner"}
    BY DEF NewReceipt
  <1> QED
    BY <1>1 DEF IsReceipt

LEMMA RecordStep ==
    ASSUME ReceiptsInv, NEW a \in Numbers, RecordMoney(a),
           attempt[a].contour # "stub" => cash[a] # "none" \/ Mistakable(a)
    PROVE  ReceiptsInv'
  <1>1. PICK s, r :
            /\ attempt' = [attempt EXCEPT ![a].status = s]
            /\ receipt' = [receipt EXCEPT ![a] = r]
            /\ \/ s = "paid" /\ r = NewReceipt(a)
               \/ s = attempt[a].status /\ r = receipt[a]
    BY Zenon DEF RecordMoney
  <1>2. /\ paidWhen[a] = 0 /\ attempt[a].status \in {"pending", "cancelled"}
        /\ paidWhen' = [paidWhen EXCEPT ![a] = PaidCount + 1]
        /\ UNCHANGED <<forms, cash>>
    BY DEF RecordMoney
  <1>3. IsAttempt(attempt[a]) /\ IsReceipt(receipt[a]) /\ receipt[a] = NoReceipt
    BY <1>2 DEF ReceiptsInv, Tables, Entry, NoMoney
  <1> DEFINE new == [attempt[a] EXCEPT !.status = s]
  <1>4. DOMAIN new = DOMAIN attempt[a] /\ new.status = s /\ new.contour = attempt[a].contour
            /\ new.sent = attempt[a].sent /\ new.amount = attempt[a].amount
    BY <1>3 DEF IsAttempt
  <1>5. attempt' = [attempt EXCEPT ![a] = new]
    BY <1>1
  <1> HIDE DEF new
  <1>6. IsAttempt(new)
    BY <1>3, <1>4 DEF IsAttempt
  <1>7. \A b \in Numbers : /\ attempt'[b] = IF b = a THEN new ELSE attempt[b]
                           /\ receipt'[b] = IF b = a THEN r ELSE receipt[b]
    BY <1>1, <1>5 DEF ReceiptsInv, Tables
  <1>8. \A b \in Numbers : paidWhen'[b] = IF b = a THEN PaidCount + 1 ELSE paidWhen[b]
    BY <1>2 DEF ReceiptsInv, Tables
  <1>9. PaidCount \in Nat
    BY PaidCountType DEF ReceiptsInv
  <1>10. /\ IsReceipt(r) /\ r.link = FALSE
         /\ s = "paid" /\ attempt[a].contour = "prod" =>
                /\ r.provider \in {"robochecks", "manual"}
                /\ r.provider = "robochecks" <=> attempt[a].sent = TRUE
                /\ r.provider = "manual" => "owner" \in r.told
    BY <1>1, <1>2, <1>3, NewReceiptIs, NoReceiptIs DEF IsAttempt
  <1>11. Tables'
    <2>1. attempt' = [b \in Numbers |-> attempt'[b]] /\ receipt' = [b \in Numbers |-> receipt'[b]]
      <3>1. attempt = [b \in Numbers |-> attempt[b]] /\ receipt = [b \in Numbers |-> receipt[b]]
        BY DEF ReceiptsInv, Tables
      <3> QED
        BY <1>1, <1>5, <3>1, Zenon
    <2>2. paidWhen' \in [Numbers -> Nat]
      BY <1>2, <1>9 DEF ReceiptsInv, Tables
    <2>3. \A b \in Numbers : IsAttempt(attempt'[b]) /\ IsReceipt(receipt'[b])
      BY <1>6, <1>7, <1>10 DEF ReceiptsInv, Tables
    <2> QED
      BY <1>2, <2>1, <2>2, <2>3 DEF ReceiptsInv, Tables
  <1>12. ASSUME NEW b \in Numbers
         PROVE  Entry(b)'
    <2>1. Entry(b)
      BY DEF ReceiptsInv
    <2>2. CASE b # a
      BY <1>2, <1>7, <1>8, <2>1, <2>2 DEF Entry, FormKnown, NoMoney, OnItsWay, Linked
    <2>3. CASE b = a
      <3>1. attempt'[a] = new /\ receipt'[a] = r /\ paidWhen'[a] > 0
        BY <1>7, <1>8, <1>9
      <3>2. FormKnown(a)'
        BY <1>2, <1>4, <2>1, <2>3, <3>1 DEF Entry, FormKnown
      <3>3. NoMoney(a)'
        BY <1>1, <1>2, <1>4, <3>1 DEF NoMoney
      <3>4. OnItsWay(a)'
        BY <1>1, <1>2, <1>4, <1>10, <3>1 DEF OnItsWay
      <3>5. Linked(a)'
        BY <1>10, <3>1 DEF Linked
      <3> QED
        BY <2>3, <3>2, <3>3, <3>4, <3>5 DEF Entry
    <2> QED
      BY <2>2, <2>3
  <1>13. MoneyIsOurs'
    BY <1>2, <1>4, <1>7, <1>8 DEF ReceiptsInv, MoneyIsOurs, Mistakable
  <1> QED
    BY <1>11, <1>12, <1>13 DEF ReceiptsInv

\* Money is recorded on an answer about this attempt, or about one mistaken for it.
LEMMA AnswerIsOurs ==
    ASSUME ReceiptsInv, NEW a \in Numbers,
           \/ ResultComes(a) \/ StubButton(a)
           \/ \E state \in OperationStates(a) : AskRobokassa(a, state)
    PROVE  /\ RecordMoney(a)
           /\ attempt[a].contour # "stub" => cash[a] # "none" \/ Mistakable(a)
  <1>1. CASE ResultComes(a)
    BY <1>1 DEF ResultComes, Mistakable
  <1>2. CASE StubButton(a)
    BY <1>2 DEF StubButton
  <1>3. ASSUME NEW state \in OperationStates(a), AskRobokassa(a, state), cash[a] = "none"
        PROVE  Mistakable(a)
    <2>1. state.date = "late" /\ state.sum >= attempt[a].amount
      BY <1>3 DEF AskRobokassa, IsSameOperation
    <2>2. state \in Older[a]
      BY <1>3 DEF OperationStates
    <2> QED
      BY <2>1, <2>2 DEF Mistakable
  <1>4. CASE \E state \in OperationStates(a) : AskRobokassa(a, state)
    BY <1>3, <1>4 DEF AskRobokassa
  <1> QED
    BY <1>1, <1>2, <1>4

LEMMA LinkStep ==
    ASSUME ReceiptsInv, PasteLink
    PROVE  ReceiptsInv'
  <1>0. PICK a \in PaidLast : \E provider, sum, told :
            /\ receipt' = [receipt EXCEPT ![a] =
                    [provider |-> provider, status |-> "registered", link |-> TRUE,
                     sum |-> sum, told |-> told]]
            /\ provider = IF receipt[a].provider = "robochecks" THEN "robochecks" ELSE "manual"
            /\ told = receipt[a].told \cup {"customer"}
    BY Zenon DEF PasteLink
  <1>1. PICK provider, sum, told :
            /\ receipt' = [receipt EXCEPT ![a] =
                    [provider |-> provider, status |-> "registered", link |-> TRUE,
                     sum |-> sum, told |-> told]]
            /\ provider = IF receipt[a].provider = "robochecks" THEN "robochecks" ELSE "manual"
            /\ told = receipt[a].told \cup {"customer"}
    BY <1>0
  <1>2. UNCHANGED <<attempt, paidWhen, forms, cash>>
    BY DEF PasteLink
  <1>3. a \in Numbers /\ paidWhen[a] > 0
    BY DEF PaidLast
  <1> DEFINE new == [provider |-> provider, status |-> "registered", link |-> TRUE,
                     sum |-> sum, told |-> told]
  <1>4. IsReceipt(new) /\ new.status = "registered" /\ new.provider = provider /\ new.told = told
    BY DEF IsReceipt
  <1>5. receipt' = [receipt EXCEPT ![a] = new]
    BY <1>1
  <1> HIDE DEF new
  <1>6. \A b \in Numbers : receipt'[b] = IF b = a THEN new ELSE receipt[b]
    BY <1>5 DEF ReceiptsInv, Tables
  <1>7. Tables'
    <2>1. receipt' = [b \in Numbers |-> receipt'[b]]
      <3>1. receipt = [b \in Numbers |-> receipt[b]]
        BY DEF ReceiptsInv, Tables
      <3> QED
        BY <1>5, <3>1, Zenon
    <2> QED
      BY <1>2, <1>4, <1>6, <2>1 DEF ReceiptsInv, Tables
  <1>8. ASSUME NEW b \in Numbers
        PROVE  Entry(b)'
    <2>1. Entry(b)
      BY DEF ReceiptsInv
    <2>2. CASE b # a
      BY <1>2, <1>6, <2>1, <2>2 DEF Entry, FormKnown, NoMoney, OnItsWay, Linked
    <2>3. CASE b = a
      <3>1. receipt'[a] = new
        BY <1>3, <1>6
      <3>2. FormKnown(a)'
        BY <1>2, <2>1, <2>3 DEF Entry, FormKnown
      <3>3. NoMoney(a)'
        BY <1>2, <1>3, <2>1, <2>3 DEF Entry, NoMoney, ReceiptsInv, Tables
      <3>4. OnItsWay(a)'
        BY <1>1, <1>2, <1>4, <2>1, <2>3, <3>1 DEF Entry, OnItsWay
      <3>5. Linked(a)'
        BY <1>4, <3>1 DEF Linked
      <3> QED
        BY <2>3, <3>2, <3>3, <3>4, <3>5 DEF Entry
    <2> QED
      BY <2>2, <2>3
  <1>9. MoneyIsOurs'
    BY <1>2 DEF ReceiptsInv, MoneyIsOurs, Mistakable
  <1> QED
    BY <1>7, <1>8, <1>9 DEF ReceiptsInv

------------------------------------------------------------------------------
LEMMA ReceiptsSteps ==
    ASSUME ReceiptsInv, [ReceiptsNext]_receiptVars
    PROVE  ReceiptsInv'
  <1>1. ASSUME NEW a \in Numbers, IssueTry(a) \/ GoToCashDesk(a)
        PROVE  ReceiptsInv'
    BY <1>1, IssueStep, GoStep
  <1>2. ASSUME NEW a \in Numbers,
               \/ ResultComes(a) \/ StubButton(a)
               \/ \E state \in OperationStates(a) : AskRobokassa(a, state)
        PROVE  ReceiptsInv'
    BY <1>2, AnswerIsOurs, RecordStep
  <1>3. ASSUME NEW a \in Numbers, NEW form \in BOOLEAN, PayOnForm(a, form)
        PROVE  ReceiptsInv'
    BY <1>3, PayStep
  <1>4. ASSUME NEW how, CloseDeal(how)
        PROVE  ReceiptsInv'
    BY <1>4, CloseStep
  <1>5. CASE PasteLink
    BY <1>5, LinkStep
  <1>6. ASSUME NEW new, TurnConf(new)
        PROVE  ReceiptsInv'
    BY <1>6, TurnStep
  <1>7. CASE UNCHANGED receiptVars
    BY <1>7 DEF receiptVars, ReceiptsInv, Tables, Entry, FormKnown, NoMoney, OnItsWay, Linked,
                MoneyIsOurs, Mistakable
  <1> QED
    BY <1>1, <1>2, <1>3, <1>4, <1>5, <1>6, <1>7 DEF ReceiptsNext

LEMMA ReceiptsInvariant == ReceiptsSpec => []ReceiptsInv
  <1>1. ReceiptsInv /\ [ReceiptsNext]_receiptVars => ReceiptsInv'
    BY ReceiptsSteps
  <1> QED
    BY <1>1, InitReceipts, PTL DEF ReceiptsSpec

\* Whatever operations older databases left, money on record is money Robokassa took for this
\* very attempt, or one of the operations the code cannot tell from it.
THEOREM ReceiptsMoneyIsOurs == ReceiptsSpec => []MoneyIsOurs
  <1>1. ReceiptsInv => MoneyIsOurs
    BY DEF ReceiptsInv
  <1> QED
    BY <1>1, ReceiptsInvariant, PTL

LEMMA OneWay ==
    ASSUME ReceiptsInv, NEW a \in Numbers, attempt[a].status = "paid",
           attempt[a].contour = "prod", Cardinality(forms[a]) = 1, cash[a] # "none"
    PROVE  /\ (cash[a] = "reported") = (receipt[a].provider = "robochecks")
           /\ receipt[a].provider = "manual" => "owner" \in receipt[a].told
  <1>1. forms[a] \subseteq BOOLEAN /\ attempt[a].sent \in BOOLEAN
        /\ cash[a] \in {"none", "reported", "unreported"}
    BY DEF ReceiptsInv, Tables, IsAttempt
  <1>2. IsFiniteSet(BOOLEAN)
    <2>1. BOOLEAN = {TRUE} \cup {FALSE}
      BY Zenon
    <2>2. \A x, y : IsFiniteSet({x} \cup {y})
      BY FS_Singleton, FS_Union
    <2> QED
      BY <2>1, <2>2, Zenon
  <1>3. IsFiniteSet(forms[a])
    BY <1>1, <1>2, FS_Subset
  <1>4. PICK f : forms[a] = {f}
    BY <1>3, FS_Singleton
  <1>5. FormKnown(a) /\ NoMoney(a) /\ OnItsWay(a)
    BY DEF ReceiptsInv, Entry
  <1>8. attempt[a].sent \in forms[a]
    BY <1>4, <1>5 DEF FormKnown
  <1>9. attempt[a].sent = f
    BY <1>4, <1>8
  <1>10. cash[a] = "reported" => attempt[a].sent = TRUE
    BY <1>4, <1>5, <1>9 DEF FormKnown
  <1>11. cash[a] = "unreported" => attempt[a].sent = FALSE
    BY <1>4, <1>5, <1>9 DEF FormKnown
  <1>12. (receipt[a].provider = "robochecks") <=> (attempt[a].sent = TRUE)
    BY <1>5 DEF OnItsWay
  <1>13. (cash[a] = "reported") <=> (receipt[a].provider = "robochecks")
    BY <1>1, <1>10, <1>11, <1>12
  <1>14. receipt[a].provider = "manual" => "owner" \in receipt[a].told
    BY <1>5 DEF OnItsWay
  <1> QED
    BY <1>13, <1>14

LEMMA OneLink ==
    ASSUME ReceiptsInv, PaidCount = 1, NEW a \in Numbers, receipt[a].link = TRUE,
           NEW b \in Numbers
    PROVE  receipt[b].status # "pending"
  <1> DEFINE P == {x \in Numbers : paidWhen[x] > 0}
  <1>1. IsFiniteSet(P)
    <2>1. IsFiniteSet(Numbers)
      BY TriesAssumption, FS_Interval DEF Numbers
    <2> QED
      BY <2>1, FS_Subset
  <1>2. Cardinality(P) = 1
    BY DEF PaidCount
  <1>3. PICK x : P = {x}
    <2> HIDE DEF P
    <2> QED
      BY <1>1, <1>2, FS_Singleton
  <1>4. \A y \in Numbers : paidWhen[y] = 0 => receipt[y] = NoReceipt
    BY DEF ReceiptsInv, Entry, NoMoney
  <1>5. \A y \in Numbers : paidWhen[y] \in Nat
    BY DEF ReceiptsInv, Tables
  <1>6. a = x
    BY <1>3, <1>4, <1>5, NoReceiptIs
  <1>7. receipt[b].status = "pending" => b = x
    BY <1>3, <1>4, <1>5, NoReceiptIs
  <1>8. receipt[a].status = "registered"
    BY DEF ReceiptsInv, Entry, Linked
  <1> QED
    BY <1>6, <1>7, <1>8

\* A sale is reported once: of live money that pays the order the database says Robokassa
\* reported it exactly if Robokassa did, else the owner is told, and her link settles it.
THEOREM ReceiptsReportedOnce == ReceiptsSpec => []ReportedOnce
  <1>1. ASSUME ReceiptsInv
        PROVE  ReportedOnce
    <2>1. \A a \in Numbers :
              attempt[a].status = "paid" /\ attempt[a].contour = "prod"
                  /\ Cardinality(forms[a]) = 1 /\ cash[a] # "none"
              => /\ (cash[a] = "reported") = (receipt[a].provider = "robochecks")
                 /\ receipt[a].provider = "manual" => "owner" \in receipt[a].told
      BY <1>1, OneWay
    <2>2. PaidCount = 1 /\ (\E a \in Numbers : receipt[a].link) =>
              \A a \in Numbers : receipt[a].status # "pending"
      BY <1>1, OneLink
    <2> QED
      BY <2>1, <2>2 DEF ReportedOnce
  <1> QED
    BY <1>1, ReceiptsInvariant, PTL

-----------------------------------------------------------------------------
(* What the lines of a receipt come to.                                      *)

\* What adding up a list goes through.
Adds(f, l) ==
    /\ f \in [0..Len(l) -> Nat] /\ f[0] = 0
    /\ \A i \in 1..Len(l) : f[i] = f[i - 1] + l[i]

LEMMA SumIs ==
    ASSUME NEW l \in Seq(Nat)
    PROVE  \E f : Adds(f, l) /\ SumOf(l) = f[Len(l)]
<1> DEFINE N == Len(l)
           Is(f) == f = [i \in 0..N |-> IF i = 0 THEN 0 ELSE f[i - 1] + l[i]]
           step == [i \in 1..N |-> [w \in Nat |-> w + l[i]]]
<1>1. N \in Nat /\ \A i \in 1..N : l[i] \in Nat
  OBVIOUS
<1>2. step \in Steps(N, Nat) /\ \A i \in 1..N : \A w \in Nat : step[i][w] = w + l[i]
  BY <1>1 DEF Steps
<1> HIDE DEF step, N
<1>3. PICK f : Follows(f, N, Nat, 0, step)
  BY <1>1, <1>2, StepByStep
<1>4. f \in [0..N -> Nat] /\ f[0] = 0 /\ \A i \in 1..N : f[i] = f[i - 1] + l[i]
  <2>1. f \in [0..N -> Nat] /\ f[0] = 0 /\ \A i \in 1..N : f[i] = step[i][f[i - 1]]
    BY <1>3 DEF Follows
  <2>2. \A i \in 1..N : f[i - 1] \in Nat
    BY <1>1, <2>1
  <2> QED BY <1>2, <2>1, <2>2
<1>5. Is(f)
  <2>1. \A i \in 0..N : f[i] = IF i = 0 THEN 0 ELSE f[i - 1] + l[i]
    BY <1>1, <1>4
  <2> QED BY <1>4, <2>1
<1>6. PICK g : Is(g) /\ SumOf(l) = g[N]
  <2> DEFINE upTo == CHOOSE g : Is(g)
  <2>1. Is(upTo)
    BY <1>5
  <2>2. SumOf(l) = upTo[N]
    BY DEF SumOf, N
  <2> QED BY <2>1, <2>2
<1>7. g[0] = 0 /\ \A i \in 1..N : g[i] = g[i - 1] + l[i]
  <2>1. \A i \in 0..N : g[i] = IF i = 0 THEN 0 ELSE g[i - 1] + l[i]
    BY <1>6
  <2>2. 0 \in 0..N /\ \A i \in 1..N : i \in 0..N /\ i # 0
    BY <1>1
  <2> QED BY <2>1, <2>2
<1>8. \A i \in 0..N : g[i] \in Nat
  <2>1. g[0] \in Nat /\ \A i \in 1..N : g[i - 1] \in Nat => g[i] \in Nat
    BY <1>1, <1>7
  <2> QED BY <1>1, <2>1, AllAlong
<1>9. g \in [0..N -> Nat]
  <2>1. g = [i \in 0..N |-> g[i]]
    BY <1>6
  <2> QED BY <1>8, <2>1
<1> QED BY <1>6, <1>7, <1>9 DEF Adds, N

\* Which lines cost something, up to each line.
Picks(g, l) ==
    /\ g \in [0..Len(l) -> Seq(Nat)] /\ g[0] = <<>>
    /\ \A i \in 1..Len(l) : g[i] = IF l[i] > 0 THEN Append(g[i - 1], l[i]) ELSE g[i - 1]

LEMMA CostingIs ==
    ASSUME NEW l \in Seq(Nat)
    PROVE  \E g : Picks(g, l) /\ Costing(l) = g[Len(l)]
<1> DEFINE N == Len(l)
           Onto(w, i) == IF l[i] > 0 THEN Append(w, l[i]) ELSE w
           Is(f) == f = [i \in 0..N |-> IF i = 0 THEN <<>> ELSE Onto(f[i - 1], i)]
           step == [i \in 1..N |-> [w \in Seq(Nat) |-> Onto(w, i)]]
<1>1. N \in Nat /\ \A i \in 1..N : l[i] \in Nat
  OBVIOUS
<1>2. \A i \in 1..N : \A w \in Seq(Nat) : Onto(w, i) \in Seq(Nat)
  BY <1>1
<1>3. <<>> \in Seq(Nat)
  OBVIOUS
<1>4. Costing(l) = (CHOOSE g : Is(g))[N]
  BY DEF Costing
<1>5. \A w, i : Onto(w, i) = IF l[i] > 0 THEN Append(w, l[i]) ELSE w
  OBVIOUS
<1> HIDE DEF Onto
<1>6. step \in Steps(N, Seq(Nat)) /\ \A i \in 1..N : \A w \in Seq(Nat) : step[i][w] = Onto(w, i)
  BY <1>2 DEF Steps
<1> HIDE DEF step, N
<1>7. PICK f : Follows(f, N, Seq(Nat), <<>>, step)
  BY <1>1, <1>3, <1>6, StepByStep
<1>8. f \in [0..N -> Seq(Nat)] /\ f[0] = <<>> /\ \A i \in 1..N : f[i] = Onto(f[i - 1], i)
  <2>1. f \in [0..N -> Seq(Nat)] /\ f[0] = <<>> /\ \A i \in 1..N : f[i] = step[i][f[i - 1]]
    BY <1>7 DEF Follows
  <2>2. \A i \in 1..N : f[i - 1] \in Seq(Nat)
    BY <1>1, <2>1
  <2> QED BY <1>6, <2>1, <2>2
<1>9. Is(f)
  <2>1. \A i \in 0..N : f[i] = IF i = 0 THEN <<>> ELSE Onto(f[i - 1], i)
    BY <1>1, <1>8
  <2> QED BY <1>8, <2>1
<1>10. PICK g : Is(g) /\ Costing(l) = g[N]
  <2> DEFINE upTo == CHOOSE g : Is(g)
  <2>1. Is(upTo)
    BY <1>9
  <2> QED BY <1>4, <2>1
<1>11. g[0] = <<>> /\ \A i \in 1..N : g[i] = Onto(g[i - 1], i)
  <2>1. \A i \in 0..N : g[i] = IF i = 0 THEN <<>> ELSE Onto(g[i - 1], i)
    BY <1>10
  <2>2. 0 \in 0..N /\ \A i \in 1..N : i \in 0..N /\ i # 0
    BY <1>1
  <2> QED BY <2>1, <2>2
<1>12. \A i \in 0..N : g[i] \in Seq(Nat)
  <2>1. g[0] \in Seq(Nat) /\ \A i \in 1..N : g[i - 1] \in Seq(Nat) => g[i] \in Seq(Nat)
    BY <1>2, <1>3, <1>11
  <2> QED BY <1>1, <2>1, AllAlong
<1>13. g \in [0..N -> Seq(Nat)]
  <2>1. g = [i \in 0..N |-> g[i]]
    BY <1>10
  <2> QED BY <1>12, <2>1
<1> QED BY <1>5, <1>10, <1>11, <1>13 DEF Picks, N

LEMMA SumEmpty == SumOf(<<>>) = 0
<1>1. <<>> \in Seq(Nat) /\ Len(<<>>) = 0
  OBVIOUS
<1> QED BY <1>1, SumIs DEF Adds

\* One line more.
LEMMA SumAppend ==
    ASSUME NEW l \in Seq(Nat), NEW x \in Nat
    PROVE  SumOf(Append(l, x)) = SumOf(l) + x
<1>1. PICK f : Adds(f, l) /\ SumOf(l) = f[Len(l)]
  BY SumIs
<1>2. PICK m : m = Append(l, x)
  OBVIOUS
<1>3. /\ m \in Seq(Nat) /\ Len(m) = Len(l) + 1 /\ m[Len(l) + 1] = x /\ Len(l) \in Nat
      /\ \A i \in 1..Len(l) : m[i] = l[i]
  BY <1>2
<1>4. PICK g : Adds(g, m) /\ SumOf(m) = g[Len(m)]
  BY <1>3, SumIs
<1> DEFINE G == {i \in Nat : g[i] = f[i]}
<1>5. 0 \in G
  BY <1>1, <1>4 DEF Adds
<1>6. \A n \in 0..(Len(l) - 1) : n \in G => n + 1 \in G
  <2> TAKE n \in 0..(Len(l) - 1)
  <2> HAVE n \in G
  <2>1. n + 1 \in 1..Len(l) /\ n + 1 \in 1..Len(m) /\ (n + 1) - 1 = n /\ n + 1 \in Nat
    BY <1>3
  <2>2. f[n + 1] = f[n] + l[n + 1]
    BY <1>1, <2>1 DEF Adds
  <2>3. g[n + 1] = g[n] + m[n + 1]
    BY <1>4, <2>1 DEF Adds
  <2> QED BY <1>3, <2>1, <2>2, <2>3
<1> HIDE DEF G
<1>7. \A i \in 0..Len(l) : i \in G
  BY <1>3, <1>5, <1>6, CountingUp
<1>8. g[Len(l)] = f[Len(l)]
  BY <1>3, <1>7 DEF G
<1>9. g[Len(m)] = g[Len(l)] + x
  <2>1. Len(m) \in 1..Len(m) /\ Len(m) - 1 = Len(l)
    BY <1>3
  <2>2. g[Len(m)] = g[Len(m) - 1] + m[Len(m)]
    BY <1>4, <2>1 DEF Adds
  <2> QED BY <1>3, <2>1, <2>2
<1> QED BY <1>1, <1>2, <1>4, <1>8, <1>9

\* Free lines cost nothing.
LEMMA SumOfCosting ==
    ASSUME NEW l \in Seq(Nat)
    PROVE  SumOf(Costing(l)) = SumOf(l)
<1>1. PICK f : Adds(f, l) /\ SumOf(l) = f[Len(l)]
  BY SumIs
<1>2. PICK g : Picks(g, l) /\ Costing(l) = g[Len(l)]
  BY CostingIs
<1> DEFINE G == {i \in Nat : SumOf(g[i]) = f[i]}
<1>3. 0 \in G
  BY <1>1, <1>2, SumEmpty DEF Adds, Picks
<1>4. \A n \in 0..(Len(l) - 1) : n \in G => n + 1 \in G
  <2> TAKE n \in 0..(Len(l) - 1)
  <2> HAVE n \in G
  <2>1. n + 1 \in 1..Len(l) /\ (n + 1) - 1 = n /\ n + 1 \in Nat /\ n \in 0..Len(l) /\ l[n + 1] \in Nat
    OBVIOUS
  <2>2. f[n + 1] = f[n] + l[n + 1] /\ f[n] \in Nat
    BY <1>1, <2>1 DEF Adds
  <2>3. g[n] \in Seq(Nat) /\ g[n + 1] = IF l[n + 1] > 0 THEN Append(g[n], l[n + 1]) ELSE g[n]
    BY <1>2, <2>1 DEF Picks
  <2>4. CASE l[n + 1] > 0
    <3>1. SumOf(Append(g[n], l[n + 1])) = SumOf(g[n]) + l[n + 1]
      BY <2>1, <2>3, SumAppend
    <3> QED BY <2>1, <2>2, <2>3, <2>4, <3>1
  <2>5. CASE l[n + 1] = 0
    BY <2>1, <2>2, <2>3, <2>5
  <2> QED BY <2>1, <2>4, <2>5
<1> HIDE DEF G
<1>5. Len(l) \in Nat
  OBVIOUS
<1>6. \A i \in 0..Len(l) : i \in G
  BY <1>3, <1>4, <1>5, CountingUp
<1> QED BY <1>1, <1>2, <1>5, <1>6 DEF G

\* What is asked for is what the lines of the receipt come to, in the check mode or not.
LEMMA LinesMakePayable ==
    ASSUME basket \in Seq(Nat)
    PROVE  SumOf(ReceiptLines) = Payable
<1>1. CASE conf.check
  BY <1>1 DEF Payable
<1>2. CASE ~ conf.check
  <2>1. \A i \in DOMAIN basket : LinePrice(basket[i]) = basket[i]
    BY <1>2 DEF LinePrice
  <2>2. [i \in DOMAIN basket |-> LinePrice(basket[i])] = basket
    BY <2>1
  <2>3. ReceiptLines = Costing(basket)
    BY <2>2 DEF ReceiptLines
  <2> QED BY <1>2, <2>3, SumOfCosting DEF Payable, OrderTotal
<1> QED BY <1>1, <1>2

\* It changes with the check mode alone.
LEMMA PayableStays ==
    ASSUME basket' = basket, conf'.check = conf.check
    PROVE  Payable' = Payable
<1>1. \A k : LinePrice(k)' = LinePrice(k)
  BY DEF LinePrice
<1>2. ReceiptLines' = ReceiptLines
  BY <1>1 DEF ReceiptLines
<1> QED BY <1>2 DEF Payable, OrderTotal

\* An attempt asks for what is payable, but one that was there when the mode was turned.
AmountsHold ==
    \A a \in Numbers :
        attempt[a].status # "absent" /\ ~attempt[a].turned => attempt[a].amount = Payable

AmountInv == basket \in Seq(Nat) /\ AmountsHold /\ LinesMakeAmount

\* A step that leaves the amounts, and gives out no receipt.
AmountLeft(a) ==
    /\ attempt'[a].amount = attempt[a].amount /\ attempt'[a].turned = attempt[a].turned
    /\ attempt'[a].status # "absent" => attempt[a].status # "absent"

ReceiptLeft(a) ==
    \/ receipt'[a] = receipt[a]
    \/ receipt[a] # NoReceipt /\ receipt'[a].sum = receipt[a].sum
    \/ attempt[a].status # "absent" /\ receipt'[a].sum = SumOf(ReceiptLines)

LEMMA AmountKept ==
    ASSUME AmountInv, basket' = basket, conf' = conf,
           \A a \in Numbers : AmountLeft(a) /\ ReceiptLeft(a)
    PROVE  AmountInv'
<1>1. Payable' = Payable /\ SumOf(ReceiptLines) = Payable
  BY PayableStays, LinesMakePayable DEF AmountInv
<1>2. AmountsHold'
  BY <1>1 DEF AmountInv, AmountsHold, AmountLeft, Numbers
<1>3. LinesMakeAmount'
  <2>1. ASSUME NEW a \in Numbers, receipt'[a] # NoReceipt, ~attempt'[a].turned
        PROVE  receipt'[a].sum = attempt'[a].amount
    <3>1. AmountLeft(a) /\ ReceiptLeft(a) /\ ~attempt[a].turned
      BY <2>1 DEF AmountLeft
    <3>2. CASE attempt[a].status # "absent" /\ receipt'[a].sum = SumOf(ReceiptLines)
      BY <1>1, <3>1, <3>2 DEF AmountInv, AmountsHold, AmountLeft
    <3>3. CASE receipt[a] # NoReceipt /\ receipt'[a].sum = receipt[a].sum
      BY <3>1, <3>3 DEF AmountInv, LinesMakeAmount, AmountLeft
    <3>4. CASE receipt'[a] = receipt[a]
      BY <2>1, <3>1, <3>4 DEF AmountInv, LinesMakeAmount, AmountLeft
    <3> QED BY <3>1, <3>2, <3>3, <3>4 DEF ReceiptLeft
  <2> QED BY <2>1 DEF LinesMakeAmount, Numbers, NoReceipt
<1> QED BY <1>2, <1>3 DEF AmountInv

LEMMA IssueAmount ==
    ASSUME ReceiptsInv, AmountInv, NEW a \in Numbers, IssueTry(a)
    PROVE  AmountInv'
<1>1. Payable' = Payable
  BY PayableStays DEF IssueTry
<1>2. /\ attempt[a].status = "absent" /\ receipt' = receipt /\ basket' = basket
      /\ attempt' = [b \in Numbers |->
            IF b = a THEN [status |-> "pending", contour |-> conf.contour, amount |-> Payable,
                           sent |-> FALSE, turned |-> FALSE]
            ELSE IF b \in PendingTries THEN [attempt[b] EXCEPT !.status = "cancelled"]
            ELSE attempt[b]]
  BY DEF IssueTry
<1>3. attempt'[a].amount = Payable
  BY <1>2
<1>4. ASSUME NEW b \in Numbers, b # a PROVE AmountLeft(b)
  <2>1. CASE b \in PendingTries
    <3>1. attempt'[b] = [attempt[b] EXCEPT !.status = "cancelled"]
      BY <1>2, <1>4, <2>1
    <3>2. attempt[b].status = "pending"
      BY <2>1 DEF PendingTries
    <3> QED BY <3>1, <3>2, <1>4 DEF AmountLeft, ReceiptsInv, Tables, IsAttempt
  <2>2. CASE b \notin PendingTries
    <3>1. attempt'[b] = attempt[b]
      BY <1>2, <1>4, <2>2
    <3> QED BY <3>1 DEF AmountLeft
  <2> QED BY <2>1, <2>2
<1>5. receipt[a] = NoReceipt
  BY <1>2 DEF ReceiptsInv, Entry, NoMoney
<1>6. AmountsHold'
  BY <1>1, <1>3, <1>4 DEF AmountInv, AmountsHold, AmountLeft, Numbers
<1>7. LinesMakeAmount'
  BY <1>2, <1>4, <1>5 DEF AmountInv, LinesMakeAmount, AmountLeft, Numbers, NoReceipt
<1> QED BY <1>2, <1>6, <1>7 DEF AmountInv

LEMMA TurnAmount ==
    ASSUME ReceiptsInv, AmountInv, NEW new, TurnConf(new)
    PROVE  AmountInv'
<1>1. /\ basket' = basket /\ receipt' = receipt /\ conf' = new
      /\ attempt' = [a \in Numbers |->
            [attempt[a] EXCEPT !.turned =
                (attempt[a].status # "absent") /\ (attempt[a].turned \/ new.check # conf.check)]]
  BY DEF TurnConf
<1>2. ASSUME NEW a \in Numbers
      PROVE  /\ attempt'[a].amount = attempt[a].amount /\ attempt'[a].status = attempt[a].status
             /\ attempt'[a].turned <=>
                    attempt[a].status # "absent" /\ (attempt[a].turned \/ new.check # conf.check)
  <2>1. attempt'[a] = [attempt[a] EXCEPT !.turned =
                (attempt[a].status # "absent") /\ (attempt[a].turned \/ new.check # conf.check)]
    BY <1>1
  <2>2. DOMAIN attempt[a] = {"status", "contour", "amount", "sent", "turned"}
    BY DEF ReceiptsInv, Tables, IsAttempt
  <2> QED BY <2>1, <2>2
<1>3. new.check = conf.check => Payable' = Payable
  BY <1>1, PayableStays
<1>4. AmountsHold'
  BY <1>2, <1>3 DEF AmountInv, AmountsHold, Numbers
<1>5. ASSUME NEW a \in Numbers, receipt[a] # NoReceipt PROVE attempt[a].status # "absent"
  BY <1>5 DEF ReceiptsInv, Entry, NoMoney
<1>6. LinesMakeAmount'
  BY <1>1, <1>2, <1>5 DEF AmountInv, LinesMakeAmount, Numbers, NoReceipt
<1> QED BY <1>1, <1>4, <1>6 DEF AmountInv

\* Of an attempt whose status alone is set.
LEMMA StatusAlone ==
    ASSUME ReceiptsInv, NEW a \in Numbers, NEW s, s # "absent",
           attempt[a].status # "absent" \/ s = attempt[a].status,
           attempt'[a] = [attempt[a] EXCEPT !.status = s]
    PROVE  AmountLeft(a)
  BY DEF AmountLeft, ReceiptsInv, Tables, IsAttempt

LEMMA RecordAmount ==
    ASSUME ReceiptsInv, AmountInv, NEW a \in Numbers, RecordMoney(a)
    PROVE  AmountInv'
<1>1. PICK s, r :
        /\ attempt' = [attempt EXCEPT ![a].status = s] /\ s # "absent"
        /\ receipt' = [receipt EXCEPT ![a] = r] /\ r \in {receipt[a], NewReceipt(a)}
  BY DEF RecordMoney
<1>2. attempt[a].status # "absent" /\ basket' = basket /\ conf' = conf
  BY DEF RecordMoney
<1>3. ASSUME NEW b \in Numbers PROVE AmountLeft(b)
  <2>1. CASE b = a
    <3>1. attempt'[a] = [attempt[a] EXCEPT !.status = s]
      BY <1>1 DEF ReceiptsInv, Tables
    <3> QED BY <1>1, <1>2, <2>1, <3>1, StatusAlone
  <2>2. CASE b # a
    <3>1. attempt'[b] = attempt[b]
      BY <1>1, <2>2 DEF ReceiptsInv, Tables
    <3> QED BY <3>1 DEF AmountLeft
  <2> QED BY <2>1, <2>2
<1>4. NewReceipt(a) = receipt[a] \/ NewReceipt(a).sum = SumOf(ReceiptLines)
  BY DEF NewReceipt
<1>5. ASSUME NEW b \in Numbers PROVE ReceiptLeft(b)
  <2>1. receipt'[b] = IF b = a THEN r ELSE receipt[b]
    BY <1>1 DEF ReceiptsInv, Tables
  <2> QED BY <1>1, <1>2, <1>4, <2>1 DEF ReceiptLeft
<1> QED BY <1>2, <1>3, <1>5, AmountKept

LEMMA LinkAmount ==
    ASSUME ReceiptsInv, AmountInv, PasteLink
    PROVE  AmountInv'
<1>1. PICK a \in PaidLast : receipt' = [receipt EXCEPT ![a] =
              [provider |-> IF receipt[a].provider = "robochecks" THEN "robochecks" ELSE "manual",
               status   |-> "registered",
               link     |-> TRUE,
               sum      |-> IF receipt[a] = NoReceipt THEN SumOf(ReceiptLines) ELSE receipt[a].sum,
               told     |-> receipt[a].told \cup {"customer"}]]
  BY DEF PasteLink
<1>2. PICK r :
        /\ receipt' = [receipt EXCEPT ![a] = r]
        /\ r.sum = IF receipt[a] = NoReceipt THEN SumOf(ReceiptLines) ELSE receipt[a].sum
  <2> DEFINE new == [provider |-> IF receipt[a].provider = "robochecks" THEN "robochecks" ELSE "manual",
               status   |-> "registered",
               link     |-> TRUE,
               sum      |-> IF receipt[a] = NoReceipt THEN SumOf(ReceiptLines) ELSE receipt[a].sum,
               told     |-> receipt[a].told \cup {"customer"}]
  <2>1. new.sum = IF receipt[a] = NoReceipt THEN SumOf(ReceiptLines) ELSE receipt[a].sum
    OBVIOUS
  <2>2. receipt' = [receipt EXCEPT ![a] = new]
    BY <1>1
  <2> HIDE DEF new
  <2> QED BY <2>1, <2>2
<1>3. a \in Numbers /\ paidWhen[a] > 0 /\ basket' = basket /\ conf' = conf /\ attempt' = attempt
  BY DEF PaidLast, PasteLink
<1>4. attempt[a].status # "absent"
  BY <1>3 DEF ReceiptsInv, Entry, NoMoney
<1>5. ASSUME NEW b \in Numbers PROVE ReceiptLeft(b)
  <2>1. receipt'[b] = IF b = a THEN r ELSE receipt[b]
    BY <1>2 DEF ReceiptsInv, Tables
  <2> QED BY <1>2, <1>4, <2>1 DEF ReceiptLeft
<1>6. \A b \in Numbers : AmountLeft(b)
  BY <1>3 DEF AmountLeft
<1> QED BY <1>3, <1>5, <1>6, AmountKept

LEMMA AmountStep ==
    ASSUME ReceiptsInv, AmountInv, [ReceiptsNext]_receiptVars
    PROVE  AmountInv'
<1>1. CASE UNCHANGED receiptVars
  BY <1>1, AmountKept DEF receiptVars, AmountLeft, ReceiptLeft
<1>2. ASSUME NEW a \in Numbers, IssueTry(a) PROVE AmountInv'
  BY <1>2, IssueAmount
<1>3. ASSUME NEW a \in Numbers, GoToCashDesk(a) PROVE AmountInv'
  <2>1. /\ attempt' = [attempt EXCEPT ![a].sent = ReceiptGoes(a)]
        /\ basket' = basket /\ conf' = conf /\ receipt' = receipt
    BY <1>3 DEF GoToCashDesk
  <2>2. \A b \in Numbers : AmountLeft(b)
    <3> TAKE b \in Numbers
    <3>1. attempt'[b] = IF b = a THEN [attempt[a] EXCEPT !.sent = ReceiptGoes(a)] ELSE attempt[b]
      BY <2>1 DEF ReceiptsInv, Tables
    <3> QED BY <3>1 DEF AmountLeft, ReceiptsInv, Tables, IsAttempt
  <2> QED BY <2>1, <2>2, AmountKept DEF ReceiptLeft
<1>4. ASSUME NEW a \in Numbers, RecordMoney(a) PROVE AmountInv'
  BY <1>4, RecordAmount
<1>5. ASSUME NEW a \in Numbers, NEW form, PayOnForm(a, form) PROVE AmountInv'
  BY <1>5, AmountKept DEF PayOnForm, AmountLeft, ReceiptLeft
<1>6. ASSUME NEW how, CloseDeal(how) PROVE AmountInv'
  <2>1. /\ attempt' = [a \in Numbers |->
            IF a \in PendingTries THEN [attempt[a] EXCEPT !.status = "cancelled"] ELSE attempt[a]]
        /\ basket' = basket /\ conf' = conf /\ receipt' = receipt
    BY <1>6 DEF CloseDeal
  <2>2. \A b \in Numbers : AmountLeft(b)
    <3> TAKE b \in Numbers
    <3>1. CASE b \in PendingTries
      <4>1. attempt'[b] = [attempt[b] EXCEPT !.status = "cancelled"] /\ attempt[b].status # "absent"
        BY <2>1, <3>1 DEF PendingTries
      <4> QED BY <4>1, StatusAlone
    <3>2. CASE b \notin PendingTries
      BY <2>1, <3>2 DEF AmountLeft
    <3> QED BY <3>1, <3>2
  <2> QED BY <2>1, <2>2, AmountKept DEF ReceiptLeft
<1>7. CASE PasteLink
  BY <1>7, LinkAmount
<1>8. ASSUME NEW new, TurnConf(new) PROVE AmountInv'
  BY <1>8, TurnAmount
<1>9. CASE ReceiptsNext
  <2>1. \A a, state : ResultComes(a) \/ StubButton(a) \/ AskRobokassa(a, state) => RecordMoney(a)
    BY DEF ResultComes, StubButton, AskRobokassa
  <2> QED BY <1>2, <1>3, <1>4, <1>5, <1>6, <1>7, <1>8, <1>9, <2>1 DEF ReceiptsNext
<1> QED BY <1>1, <1>9

\* The lines of a receipt make up the money it is for, free lines or not, however often the
\* check mode is turned: an attempt asks for what the lines come to until it is.
THEOREM ReceiptsLinesMakeAmount == ReceiptsSpec => []LinesMakeAmount
<1>1. ReceiptsInit => AmountInv
  <2> SUFFICES ASSUME ReceiptsInit PROVE AmountInv
    OBVIOUS
  <2>1. basket \in Seq(Nat)
    BY BasketsAssumption DEF ReceiptsInit
  <2>2. \A a \in Numbers : attempt[a].status = "absent" /\ receipt[a] = NoReceipt
    BY DEF ReceiptsInit
  <2> QED BY <2>1, <2>2 DEF AmountInv, AmountsHold, LinesMakeAmount
<1>2. ReceiptsInv /\ AmountInv /\ [ReceiptsNext]_receiptVars => AmountInv'
  BY AmountStep
<1>3. AmountInv => LinesMakeAmount
  BY DEF AmountInv
<1> QED BY <1>1, <1>2, <1>3, ReceiptsInvariant, PTL DEF ReceiptsSpec
=============================================================================
