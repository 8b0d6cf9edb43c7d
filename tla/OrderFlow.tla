----------------------------- MODULE OrderFlow -----------------------------
(***************************************************************************)
(* Money and orders together: the attempts to pay an order                  *)
(* (core/services/payments.py), the refunds the owner owes                  *)
(* (core/services/refunds.py), the pay pages and webhooks (web/routes/pay.py)*)
(* and the background tasks, over the stages and the queue of module Board. *)
(*                                                                          *)
(* Every handler that records money or cancels locks the order first, so it *)
(* is one step. Asking for a pay link takes no lock: it is two steps, and   *)
(* the second still believes the stage the first one read.                  *)
(***************************************************************************)
EXTENDS Board

CONSTANTS
    Payments,       \* rows of the payments table that may come to exist
    OrderOf,        \* the order a payment row belongs to
    Modes,          \* provider and contour the shop may be configured for
    MaxSwitches     \* bound: how often the configuration changes

ASSUME PaymentsAssumption == OrderOf \in [Payments -> Orders]
ASSUME ModesAssumption == Modes \subseteq {"stub", "test", "prod"}
ASSUME SwitchesAssumption == MaxSwitches \in Nat

VARIABLES
    reason,         \* orders.cancel_reason
    payStatus,      \* payments.status; "absent" before the row exists
    payPaid,        \* payments.paid_at is set: the money is on record
    payMode,        \* payments.provider and payments.environment
    started,        \* payments.checkout_started_at: unset, recent, or past the window
    receipts,       \* payments with a receipt
    refund,         \* the refund row of a payment: none, pending, done
    charged,        \* external: Robokassa has taken the money of this invoice
    asking,         \* a pay link request of the order's customer is in flight
    mode,           \* the current configuration
    switches        \* how often it has changed

moneyVars == <<payStatus, payPaid, receipts, refund>>
flowVars == <<reason, payStatus, payPaid, payMode, started, receipts, refund,
              charged, asking, mode, switches>>
vars == <<boardVars, flowVars>>

PaymentStatus == {"absent", "pending", "paid", "cancelled"}
CancelReason == {"none", "expired", "customer", "admin"}
RefundStatus == {"none", "pending", "done"}

FlowTypeOK ==
    /\ TypeOK
    /\ reason \in [Orders -> CancelReason]
    /\ payStatus \in [Payments -> PaymentStatus]
    /\ payPaid \in [Payments -> BOOLEAN]
    /\ payMode \in [Payments -> Modes]
    /\ started \in [Payments -> {"unset", "recent", "past"}]
    /\ receipts \subseteq Payments
    /\ refund \in [Payments -> RefundStatus]
    /\ charged \in [Payments -> BOOLEAN]
    /\ asking \in [Orders -> BOOLEAN]
    /\ mode \in Modes
    /\ switches \in 0..MaxSwitches

-----------------------------------------------------------------------------
(* Attempts to pay. *)

Attempts(o, st) == {p \in Payments : OrderOf[p] = o /\ payStatus[p] = st}

\* uq_payments_pending_order and uq_payments_paid_order: inside a transaction
\* that makes p the pending (paid) attempt of its order, there is no other.
OnlyOne(p, st) == Attempts(OrderOf[p], st) \subseteq {p}

\* Make p the pending attempt of its order, at the current configuration.
\* A pending attempt issued for another one is cancelled on the way.
Issue(p) ==
    LET replaced == {q \in Attempts(OrderOf[p], "pending") : payMode[q] # mode}
    IN  /\ payStatus[p] = "absent"
        /\ Attempts(OrderOf[p], "pending") = replaced
        /\ payStatus' = [q \in Payments |-> IF q = p THEN "pending"
                                            ELSE IF q \in replaced THEN "cancelled"
                                            ELSE payStatus[q]]
        /\ payMode' = [payMode EXCEPT ![p] = mode]

\* Step "pay" of the bot: submit and create_payment in one transaction.
Checkout(o) ==
    /\ Submit(o)
    /\ \E p \in Payments : OrderOf[p] = o /\ Issue(p)
    /\ UNCHANGED <<reason, payPaid, started, receipts, refund, charged, asking,
                   mode, switches>>

\* my_orders.pay_order and payment_page load the order; it waits for payment.
AskLink(o) ==
    /\ ~asking[o]
    /\ status[o] = "waiting_payment"
    /\ asking' = [asking EXCEPT ![o] = TRUE]
    /\ UNCHANGED <<boardVars, reason, moneyVars, payMode, started, charged, mode, switches>>

\* create_payment returns the current attempt: same amount, same configuration.
ReturnLink(o) ==
    /\ asking[o]
    /\ \E p \in Attempts(o, "pending") : payMode[p] = mode
    /\ asking' = [asking EXCEPT ![o] = FALSE]
    /\ UNCHANGED <<boardVars, reason, moneyVars, payMode, started, charged, mode, switches>>

\* create_payment issues a new attempt. The stage was read by AskLink and is
\* not read again.
CreatePayment(o) ==
    /\ asking[o]
    /\ \E p \in Payments : OrderOf[p] = o /\ Issue(p)
    /\ asking' = [asking EXCEPT ![o] = FALSE]
    /\ UNCHANGED <<boardVars, reason, payPaid, started, receipts, refund, charged,
                   mode, switches>>

\* GET /pay/{token}/go: the customer leaves for Robokassa with a signed form.
GoToRobokassa(p) ==
    /\ mode # "stub"
    /\ payMode[p] = mode
    /\ payStatus[p] = "pending"
    /\ status[OrderOf[p]] = "waiting_payment"
    /\ started' = [started EXCEPT ![p] = IF @ = "unset" THEN "recent" ELSE @]
    /\ UNCHANGED <<boardVars, reason, moneyVars, payMode, charged, asking, mode, switches>>

\* RECONCILE_WINDOW, three days since the first way to the cash desk, runs out. It is a step
\* of its own only where it decides anything, on a live charge not yet on record: a window
\* that closes earlier is one that closes right after the charge.
WindowCloses(p) ==
    /\ started[p] = "recent"
    /\ payMode[p] = "prod" /\ charged[p] /\ ~payPaid[p]
    /\ started' = [started EXCEPT ![p] = "past"]
    /\ UNCHANGED <<boardVars, reason, moneyVars, payMode, charged, asking, mode, switches>>

\* External: the customer pays on the open Robokassa page, whenever that is.
Charge(p) ==
    /\ started[p] # "unset"
    /\ ~charged[p]
    /\ charged' = [charged EXCEPT ![p] = TRUE]
    /\ UNCHANGED <<boardVars, reason, moneyVars, payMode, started, asking, mode, switches>>

-----------------------------------------------------------------------------
(* confirm_payment: the order is locked, then the payment. *)

RefundOrder(ps) ==                      \* mutant: looked up by order, not by payment
    [q \in Payments |-> IF payPaid[q] /\ refund[q] = "none"
                           /\ \E p \in ps : OrderOf[p] = OrderOf[q]
                        THEN "pending" ELSE refund[q]]

\* refunds.require: one refund per payment, an existing one is kept.
RefundRequired(ps) ==
    [q \in Payments |-> IF q \in ps /\ refund[q] = "none" THEN "pending" ELSE refund[q]]

RecordStatusOnly(p) ==                  \* mutant: the attempt keeps no payment date
    /\ OnlyOne(p, "paid")
    /\ payStatus' = [payStatus EXCEPT ![p] = "paid"]
    /\ receipts' = receipts \cup {p}
    /\ UNCHANGED payPaid

\* The payment becomes the successful one of its order and gets its receipt.
RecordPaid(p) ==
    /\ OnlyOne(p, "paid")
    /\ payStatus' = [payStatus EXCEPT ![p] = "paid"]
    /\ payPaid' = [payPaid EXCEPT ![p] = TRUE]
    /\ receipts' = receipts \cup {p}

\* A pending attempt: mark_paid moves the order into the queue. On an order
\* paid already mark_paid would do nothing, but there RecordPaid is refused by
\* the second paid attempt (invariant PaidByOne of the proofs); on an order at
\* another stage mark_paid refuses. Either way all is rolled back.
ConfirmPending(p) ==
    /\ payStatus[p] = "pending"
    /\ RecordPaid(p)
    /\ MarkPaid(OrderOf[p])
    /\ UNCHANGED <<reason, refund>>

\* _accept_late_payment, the order that expired: it comes back and is paid.
LateRevives(p) ==
    LET o == OrderOf[p]
    IN  /\ payStatus[p] = "cancelled"
        /\ reason[o] = "expired"
        /\ RecordPaid(p)
        /\ Revive(o)
        /\ reason' = [reason EXCEPT ![o] = "none"]
        /\ UNCHANGED refund

CanRevive(o) == status[o] = "cancelled" /\ reason[o] = "expired" /\ ~paidAt[o]

\* _accept_late_payment, an order without payment that cannot come back: the
\* money and its receipt are recorded and must be returned.
LateRefunded(p) ==
    LET o == OrderOf[p]
    IN  /\ payStatus[p] = "cancelled"
        /\ ~CanRevive(o)
        /\ ~paidAt[o]
        /\ RecordPaid(p)
        /\ refund' = RefundRequired({p})
        /\ UNCHANGED <<boardVars, reason>>

\* _accept_late_payment, an order paid by another attempt: the attempt stays
\* cancelled, with the money on record and to be returned.
LateDuplicate(p) ==
    /\ payStatus[p] = "cancelled"
    /\ paidAt[OrderOf[p]]
    /\ payPaid' = [payPaid EXCEPT ![p] = TRUE]
    /\ refund' = RefundRequired({p})
    /\ UNCHANGED <<boardVars, reason, payStatus, receipts>>

\* A second confirmation of recorded money changes nothing; a refusal or a
\* violated constraint rolls everything back.
Confirm(p) ==
    /\ ~payPaid[p]
    /\ \/ ConfirmPending(p) \/ LateRevives(p) \/ LateRefunded(p) \/ LateDuplicate(p)
    /\ UNCHANGED <<payMode, started, charged, asking, mode, switches>>

\* The ResultURL webhook. Its signature only fits the contour in force; it may
\* come late, twice or never.
ResultUrl(p) ==
    /\ charged[p]
    /\ mode # "stub"
    /\ payMode[p] = mode
    /\ Confirm(p)

ReconcilePending(p) ==                  \* mutant: closed attempts are not asked about
    /\ charged[p] /\ started[p] = "recent"
    /\ mode = "prod"
    /\ payMode[p] = "prod"
    /\ payStatus[p] = "pending"
    /\ Confirm(p)

\* The reconciliation task asks about the invoice, which it does within the window only, and
\* finds the operation in Robokassa.
Reconcile(p) ==
    /\ charged[p] /\ started[p] = "recent"
    /\ mode = "prod"
    /\ payMode[p] = "prod"
    /\ Confirm(p)

\* POST /pay/{token}/confirm. A refusal of mark_paid is caught and NOT rolled
\* back, so the attempt is committed as paid and nothing else is.
StubConfirm(p) ==
    /\ mode = "stub"
    /\ payMode[p] = "stub"
    /\ \/ Confirm(p)
       \/ /\ payStatus[p] = "pending" /\ ~payPaid[p]
          /\ ~paidAt[OrderOf[p]] /\ status[OrderOf[p]] # "waiting_payment"
          /\ OnlyOne(p, "paid")
          /\ payStatus' = [payStatus EXCEPT ![p] = "paid"]
          /\ payPaid' = [payPaid EXCEPT ![p] = TRUE]
          /\ UNCHANGED <<boardVars, reason, receipts, refund, payMode, started,
                         charged, asking, mode, switches>>

-----------------------------------------------------------------------------
(* Cancelling, and giving the money back. *)

ClosePending(o, why) ==                 \* mutant: the paid attempt is not refunded
    /\ payStatus' = [q \in Payments |->
            IF q \in Attempts(o, "pending") THEN "cancelled" ELSE payStatus[q]]
    /\ reason' = [reason EXCEPT ![o] = why]
    /\ UNCHANGED <<payPaid, payMode, started, receipts, refund, charged, asking,
                   mode, switches>>

\* cancel, beside the stage: the pending attempt is closed, the attempt that
\* paid an order not yet cancelled goes to the refunds, the reason is noted.
CloseMoney(o, why) ==
    /\ payStatus' = [q \in Payments |->
            IF q \in Attempts(o, "pending") THEN "cancelled" ELSE payStatus[q]]
    /\ refund' = IF paidAt[o] /\ status[o] # "cancelled"
                 THEN RefundRequired(Attempts(o, "paid")) ELSE refund
    /\ reason' = [reason EXCEPT ![o] = why]
    /\ UNCHANGED <<payPaid, payMode, started, receipts, charged, asking, mode, switches>>

CustomerCancelAny(o) == Cancel(o) /\ CloseMoney(o, "customer")  \* mutant: no only_unpaid

CustomerCancel(o) == CancelUnpaid(o) /\ CloseMoney(o, "customer")

ExpireUnstarted(o) ==                   \* mutant: a customer at the pay page is left alone
    /\ \A p \in Attempts(o, "pending") : started[p] = "unset"
    /\ CancelUnpaid(o) /\ CloseMoney(o, "expired")

\* expire_unpaid. Time is not modelled: the deadline may pass at any moment.
Expire(o) == CancelUnpaid(o) /\ CloseMoney(o, "expired")

\* The owner cancels any order the transition table lets go; on an order
\* already cancelled change_status does nothing, yet the reason is replaced.
OwnerCancels(a, o) ==
    /\ OwnerCancel(a, o) \/ /\ panel[a] = Idle
                            /\ status[o] = "cancelled"
                            /\ UNCHANGED boardVars
    /\ CloseMoney(o, "admin")

\* refunds.complete: the owner has returned the money.
CompleteRefund(p) ==
    /\ refund[p] = "pending"
    /\ refund' = [refund EXCEPT ![p] = "done"]
    /\ UNCHANGED <<boardVars, reason, payStatus, payPaid, payMode, started, receipts,
                   charged, asking, mode, switches>>

\* The containers restart with another configuration; requests in flight die.
SwitchMode(m) ==
    /\ switches < MaxSwitches
    /\ m # mode
    /\ mode' = m
    /\ switches' = switches + 1
    /\ Restart
    /\ asking' = [o \in Orders |-> FALSE]
    /\ UNCHANGED <<reason, moneyVars, payMode, started, charged>>

\* A pay link request fails: a constraint, a lost connection.
DropAsk(o) ==
    /\ asking[o]
    /\ asking' = [asking EXCEPT ![o] = FALSE]
    /\ UNCHANGED <<boardVars, reason, moneyVars, payMode, started, charged, mode, switches>>

-----------------------------------------------------------------------------
(* The specification. *)

Init ==
    /\ BoardInit
    /\ reason = [o \in Orders |-> "none"]
    /\ payStatus = [p \in Payments |-> "absent"]
    /\ payPaid = [p \in Payments |-> FALSE]
    /\ mode \in Modes
    /\ payMode = [p \in Payments |-> mode]
    /\ started = [p \in Payments |-> "unset"]
    /\ receipts = {}
    /\ refund = [p \in Payments |-> "none"]
    /\ charged = [p \in Payments |-> FALSE]
    /\ asking = [o \in Orders |-> FALSE]
    /\ switches = 0

CustomerNext(o) ==
    Checkout(o) \/ AskLink(o) \/ ReturnLink(o) \/ CreatePayment(o) \/ DropAsk(o)
    \/ CustomerCancel(o)

PaymentNext(p) ==
    GoToRobokassa(p) \/ Charge(p) \/ WindowCloses(p) \/ ResultUrl(p) \/ Reconcile(p)
    \/ StubConfirm(p) \/ CompleteRefund(p)

Next ==
    \/ \E o \in Orders : CustomerNext(o) \/ Expire(o)
    \/ \E p \in Payments : PaymentNext(p)
    \/ \E a \in Admins, o \in Orders : OwnerCancels(a, o)
    \/ PanelNext /\ UNCHANGED flowVars
    \/ \E m \in Modes : SwitchMode(m)

Spec == Init /\ [][Next]_vars

\* The scheduler runs the expiry task every 5 and the reconciliation every 10 minutes: neither
\* may be put off for ever, the reconciliation of an invoice as long as its window is open.
\* Nobody else has to act, and a window may close at any moment.
FairSpec == /\ Spec
            /\ \A o \in Orders : WF_vars(Expire(o))
            /\ \A p \in Payments : WF_vars(Reconcile(p))

-----------------------------------------------------------------------------
(* Properties. *)

\* No recorded money is forgotten: a payment on record is the receipted payment
\* of an order that is being worked on, or stands in the list of refunds
\* (README "Возвраты": cancelled paid orders, late and duplicate payments).
MoneyAccounted ==
    \A p \in Payments : payPaid[p] =>
        \/ refund[p] # "none"
        \/ /\ payStatus[p] = "paid"
           /\ p \in receipts
           /\ status[OrderOf[p]] \in PaidStatuses

\* An order is worked on only with a successful payment of its own on record.
WorkHasMoney ==
    \A o \in Orders : status[o] \in PaidStatuses =>
        \E p \in Attempts(o, "paid") : payPaid[p]

\* The owner is never told to return the money of an order she is working on:
\* a second payment of it is returned, the payment that keeps it in work is not.
WorkNotRefunded ==
    \A p \in Payments : payStatus[p] = "paid" /\ refund[p] # "none" =>
        status[OrderOf[p]] \notin PaidStatuses

\* "Payment is not lost", as far as the code goes: money Robokassa took is put on record by a
\* notification or by the reconciliation, unless the shop leaves the contour in which it was
\* taken or three days have passed since the customer left: after that nobody asks any more.
\* What lets a window close on unrecorded money is module ReconcileBatch's.
ChargeRecorded ==
    \A p \in Payments : (charged[p] /\ payMode[p] = "prod")
                            ~> (payPaid[p] \/ mode # "prod" \/ started[p] = "past")

\* An order does not wait for payment for ever.
WaitingEnds ==
    \A o \in Orders : status[o] = "waiting_payment" ~> status[o] # "waiting_payment"

=============================================================================
