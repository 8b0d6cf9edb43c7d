------------------------------ MODULE Receipts ------------------------------
(***************************************************************************)
(* Receipts of one order (core/services/receipts.py) and what Robokassa is    *)
(* told about them (core/services/robokassa.py). Sales of the self-employed   *)
(* are reported to the tax office once: by Robokassa, if the lines of the     *)
(* receipt went there with the payment, else by the owner.                    *)
(*                                                                          *)
(* Lines are priced anew whenever they are needed, by the setting of that     *)
(* moment (payments_test_amount_kopecks: every paid line costs one rouble),   *)
(* while the amount of an attempt is fixed when it is issued. Which attempt   *)
(* may be confirmed when is module OrderFlow's; here an order has its         *)
(* attempts, and requests are one step.                                       *)
(***************************************************************************)
EXTENDS Naturals, FiniteSets, Sequences

CONSTANTS
    Tries,          \* a number n: attempts 1..n of the order
    Baskets,        \* what the order may be: prices of its lines, free ones among them
    Rouble,         \* payments_test_amount_kopecks while it is set
    Contours,       \* of the configuration: stub, test or prod
    Older,          \* per number: operations of an older database's invoice of that number
    MaxTurns        \* bound: restarts with another configuration

\* The date of an operation against CLOCK_SLACK before checkout_started_at: early or late;
\* calls: its ResultURL still comes, for the older database never answered it.
Operation == [date : {"early", "late", "unknown"}, sum : Nat, calls : BOOLEAN]

ASSUME TriesAssumption == Tries \in Nat
ASSUME OlderAssumption == Older \in [1..Tries -> SUBSET Operation]
ASSUME BasketsAssumption == \A b \in Baskets : b \in Seq(Nat)
ASSUME RoubleAssumption == Rouble \in Nat \ {0}

VARIABLES
    basket,         \* order_items, addons, delivery
    deal,           \* the order: waiting, expired, cancelled or paid; and paid_at
    attempt,        \* payments: status, contour, amount_kopecks, receipt_sent
    paidWhen,       \* payments.paid_at: 0, or the how-manieth payment it is
    receipt,        \* receipts, by payment
    conf,           \* the configuration: contour, and whether lines cost a rouble
    turns,          \* how often it has changed
    forms,          \* external: the forms the customer was given: with a receipt or not
    cash            \* external: how Robokassa took the money of an attempt

receiptVars == <<basket, deal, attempt, paidWhen, receipt, conf, turns, forms, cash>>

Numbers == 1..Tries

NoReceipt == [provider |-> "none", status |-> "none", link |-> FALSE, sum |-> 0, told |-> {}]

\* line_kopecks.
LinePrice(k) == IF conf.check /\ k > 0 THEN Rouble ELSE k

\* Sums and selections line by line, as functions: FoldLeft and SelectSeq are recursive
\* operators, of which nothing can be proved.
SumOf(lines) ==
    LET upTo[i \in 0..Len(lines)] == IF i = 0 THEN 0 ELSE upTo[i - 1] + lines[i]
    IN upTo[Len(lines)]

Costing(lines) ==
    LET upTo[i \in 0..Len(lines)] ==
            IF i = 0 THEN <<>>
            ELSE IF lines[i] > 0 THEN Append(upTo[i - 1], lines[i]) ELSE upTo[i - 1]
    IN upTo[Len(lines)]

\* receipt_lines: those that cost something; one rule for the bot and for the cash desk.
ReceiptLines == Costing([i \in DOMAIN basket |-> LinePrice(basket[i])])

OrderTotal == SumOf(basket)

\* robokassa.receipt_items: free lines are left out before the others get their price.
ReceiptItems ==
    LET paidFor == Costing(basket)
    IN [i \in DOMAIN paidFor |-> IF conf.check THEN Rouble ELSE paidFor[i]]

\* Mutant of Payable: a free line costs a rouble, too.
PayableByLine == IF conf.check THEN Rouble * Len(basket) ELSE OrderTotal

\* payable_kopecks.
Payable == IF conf.check THEN SumOf(ReceiptLines) ELSE OrderTotal

ReceiptsInit ==
    /\ basket \in Baskets
    /\ deal = [stage |-> "waiting", paid |-> FALSE]
    /\ attempt = [a \in Numbers |->
            [status |-> "absent", contour |-> "stub", amount |-> 0, sent |-> FALSE,
             turned |-> FALSE]]
    /\ paidWhen = [a \in Numbers |-> 0]
    /\ receipt = [a \in Numbers |-> NoReceipt]
    /\ conf \in [contour : Contours, check : BOOLEAN]
    /\ turns = 0
    /\ forms = [a \in Numbers |-> {}]
    /\ cash = [a \in Numbers |-> "none"]

------------------------------------------------------------------------------
(* Attempts, the way to the cash desk, and the money.                         *)

PendingTries == {a \in Numbers : attempt[a].status = "pending"}

\* create_payment: an attempt of this amount and contour is kept, another one is closed.
IssueTry(a) ==
    /\ deal.stage = "waiting" /\ OrderTotal > 0
    /\ attempt[a].status = "absent"
    /\ \A b \in 1..(a - 1) : attempt[b].status # "absent"
    /\ \A b \in PendingTries : attempt[b].amount # Payable \/ attempt[b].contour # conf.contour
    /\ attempt' = [b \in Numbers |->
            IF b = a THEN [status |-> "pending", contour |-> conf.contour, amount |-> Payable,
                           sent |-> FALSE, turned |-> FALSE]
            ELSE IF b \in PendingTries THEN [attempt[b] EXCEPT !.status = "cancelled"]
            ELSE attempt[b]]
    /\ UNCHANGED <<basket, deal, paidWhen, receipt, conf, turns, forms, cash>>

\* Mutant of ReceiptGoes: held against the total of the order.
ReceiptGoesIfTotal(a) == ReceiptItems # <<>> /\ SumOf(ReceiptItems) = OrderTotal

\* receipt_json: Robokassa refuses a receipt whose lines do not make up the amount.
ReceiptGoes(a) == ReceiptItems # <<>> /\ SumOf(ReceiptItems) = attempt[a].amount

\* The Receipt field of checkout_fields.
FormHasReceipt(a) == ReceiptItems # <<>> /\ SumOf(ReceiptItems) = attempt[a].amount

\* /pay/{token}/go: mark_checkout_started notes whether the receipt goes along. The page may
\* be opened again, and an older one stays open.
GoToCashDesk(a) ==
    /\ attempt[a].status = "pending" /\ deal.stage = "waiting"
    /\ conf.contour # "stub" /\ attempt[a].contour = conf.contour
    /\ attempt' = [attempt EXCEPT ![a].sent = ReceiptGoes(a)]
    /\ forms' = [forms EXCEPT ![a] = @ \cup {FormHasReceipt(a)}]
    /\ UNCHANGED <<basket, deal, paidWhen, receipt, conf, turns, cash>>

\* External: Robokassa takes the money once, on any form of the attempt; if a receipt came
\* with it, the sale is reported.
PayOnForm(a, form) ==
    /\ cash[a] = "none" /\ form \in forms[a]
    /\ cash' = [cash EXCEPT ![a] = IF form THEN "reported" ELSE "unreported"]
    /\ UNCHANGED <<basket, deal, attempt, paidWhen, receipt, conf, turns, forms>>

\* The deadline, the customer or the owner; the pending attempt is closed.
CloseDeal(how) ==
    /\ how = "expired" => deal.stage = "waiting"
    /\ deal.stage \in {"waiting", "paid"}
    /\ deal' = [deal EXCEPT !.stage = how]
    /\ attempt' = [a \in Numbers |->
            IF a \in PendingTries THEN [attempt[a] EXCEPT !.status = "cancelled"] ELSE attempt[a]]
    /\ UNCHANGED <<basket, paidWhen, receipt, conf, turns, forms, cash>>

------------------------------------------------------------------------------
(* Money on record.                                                          *)

\* create_for_payment. Without money nothing is reported, but the receipt goes the same way
\* (register, with no link). The lines are those of now.
NewReceipt(a) ==
    LET stub  == attempt[a].contour # "prod"
        robot == ~stub /\ attempt[a].sent
    IN IF receipt[a] # NoReceipt THEN receipt[a]
       ELSE [provider |-> IF stub THEN "stub" ELSE IF robot THEN "robochecks" ELSE "manual",
             status   |-> IF stub THEN "registered" ELSE IF robot THEN "sent" ELSE "pending",
             link     |-> FALSE,
             sum      |-> SumOf(ReceiptLines),
             told     |-> IF stub \/ robot THEN {} ELSE {"owner"}]

PaidCount == Cardinality({a \in Numbers : paidWhen[a] > 0})

\* confirm_payment and _accept_late_payment. Money for an order another attempt has paid
\* goes on record and gets no receipt; it is to be returned.
RecordMoney(a) ==
    LET first == ~deal.paid
        comesBack == deal.stage = "expired"
    IN /\ paidWhen[a] = 0 /\ attempt[a].status \in {"pending", "cancelled"}
       /\ first => \A b \in Numbers : attempt[b].status # "paid"    \* uq_payments_paid_order
       /\ paidWhen' = [paidWhen EXCEPT ![a] = PaidCount + 1]
       /\ attempt' = [attempt EXCEPT ![a].status = IF first THEN "paid" ELSE @]
       /\ receipt' = [receipt EXCEPT ![a] = IF first THEN NewReceipt(a) ELSE @]
       /\ deal' = IF first /\ (attempt[a].status = "pending" \/ comesBack)
                  THEN [stage |-> "paid", paid |-> TRUE] ELSE deal
       /\ UNCHANGED <<basket, conf, turns, forms, cash>>

\* The ResultURL; its signature fits the contour in force. Of the operation it says the number
\* and the sum, which must be that of the attempt.
ResultComes(a) ==
    /\ cash[a] # "none" \/ \E old \in Older[a] : old.calls /\ old.sum = attempt[a].amount
    /\ conf.contour # "stub" /\ attempt[a].contour = conf.contour
    /\ RecordMoney(a)

\* Mutant of IsSameOperation: the sum is enough.
SumIsEnough(state, a) == state.sum >= attempt[a].amount

\* is_same_operation: one of long before the way to the cash desk is another one's. Clocks may
\* differ, so an operation of up to an hour before it counts as the attempt's own.
IsSameOperation(state, a) ==
    /\ forms[a] # {}
    /\ state.date = "late"
    /\ state.sum >= attempt[a].amount

\* The states OpStateExt may give of an invoice: this attempt's own, to which the buyer may
\* have added the fee, or that of an invoice of the same number in an older database.
OperationStates(a) ==
    IF cash[a] # "none"
    THEN [date : {"late"}, sum : {attempt[a].amount, attempt[a].amount + 1}, calls : {FALSE}]
    ELSE Older[a]

\* reconcile, in the live contour only.
AskRobokassa(a, state) ==
    /\ conf.contour = "prod" /\ attempt[a].contour = "prod"
    /\ forms[a] # {} /\ state \in OperationStates(a)
    /\ IsSameOperation(state, a)
    /\ RecordMoney(a)

\* The stub's button.
StubButton(a) ==
    /\ conf.contour = "stub" /\ attempt[a].contour = "stub"
    /\ attempt[a].status = "pending"
    /\ RecordMoney(a)

------------------------------------------------------------------------------
(* The owner, and the configuration.                                          *)

\* The payment a link belongs to: with money, the latest.
PaidLast == {a \in Numbers : paidWhen[a] > 0 /\ paidWhen[a] = PaidCount}

\* register_manual: a link to the tax office is pasted in (any other is refused and rolled
\* back). The receipt need not exist. What Robokassa reported stays reported by Robokassa.
PasteLink ==
    /\ \E a \in PaidLast :
        LET had == receipt[a]
        IN receipt' = [receipt EXCEPT ![a] =
              [provider |-> IF had.provider = "robochecks" THEN "robochecks" ELSE "manual",
               status   |-> "registered",
               link     |-> TRUE,
               sum      |-> IF had = NoReceipt THEN SumOf(ReceiptLines) ELSE had.sum,
               told     |-> had.told \cup {"customer"}]]
    /\ UNCHANGED <<basket, deal, attempt, paidWhen, conf, turns, forms, cash>>

\* A restart with another .env.
TurnConf(new) ==
    /\ turns < MaxTurns /\ new # conf
    /\ conf' = new
    /\ turns' = turns + 1
    /\ attempt' = [a \in Numbers |->
            [attempt[a] EXCEPT !.turned = (attempt[a].status # "absent") /\ (@ \/ new.check # conf.check)]]
    /\ UNCHANGED <<basket, deal, paidWhen, receipt, forms, cash>>

ReceiptsNext ==
    \/ \E a \in Numbers :
        \/ IssueTry(a) \/ GoToCashDesk(a) \/ ResultComes(a) \/ StubButton(a)
        \/ \E form \in BOOLEAN : PayOnForm(a, form)
        \/ \E state \in OperationStates(a) : AskRobokassa(a, state)
    \/ \E how \in {"expired", "cancelled"} : CloseDeal(how)
    \/ PasteLink
    \/ \E new \in [contour : Contours, check : BOOLEAN] : TurnConf(new)

ReceiptsSpec == ReceiptsInit /\ [][ReceiptsNext]_receiptVars

------------------------------------------------------------------------------
(* Properties.                                                              *)

\* A sale is reported once. Of live money of an attempt that pays the order, the database says Robokassa
\* reported it exactly if Robokassa did; else the owner is told to, and the link she pastes
\* settles it. Unless the forms given to the customer differ (mark_checkout_started remembers
\* the last one, and the customer may pay on any), or a second payment came: the link goes to
\* the latest.
ReportedOnce ==
    /\ \A a \in Numbers :
        attempt[a].status = "paid" /\ attempt[a].contour = "prod" /\ cash[a] # "none"
        /\ Cardinality(forms[a]) = 1
            => /\ (cash[a] = "reported") = (receipt[a].provider = "robochecks")
               /\ receipt[a].provider = "manual" => "owner" \in receipt[a].told
    /\ PaidCount = 1 /\ (\E a \in Numbers : receipt[a].link) =>
        \A a \in Numbers : receipt[a].status # "pending"

\* The lines of a receipt make up the money it is for, free lines or not, in the check mode
\* as in any other; only an attempt that was there when the check mode was turned may differ.
LinesMakeAmount ==
    \A a \in Numbers :
        receipt[a] # NoReceipt /\ ~attempt[a].turned => receipt[a].sum = attempt[a].amount

\* What the code cannot tell from the attempt's own money: an older operation for enough,
\* dated in the hour before the customer left or later, or one for the very sum whose
\* notification comes now.
Mistakable(a) ==
    \E old \in Older[a] :
        \/ old.date = "late" /\ old.sum >= attempt[a].amount
        \/ old.calls /\ old.sum = attempt[a].amount

\* Money on record is money Robokassa took for this attempt, though the numbers of invoices
\* may repeat those of an older database (is_same_operation): an older operation is taken for
\* it only in the hour CLOCK_SLACK leaves open, or by a notification, which has no date.
MoneyIsOurs ==
    \A a \in Numbers :
        paidWhen[a] > 0 /\ attempt[a].contour # "stub" => cash[a] # "none" \/ Mistakable(a)
=============================================================================
