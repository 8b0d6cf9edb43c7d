------------------------------ MODULE MCMoney ------------------------------
(* Instance for TLC of two components about money which share no state here:   *)
(* orders and their payments (OrderFlow), and the receipts of one order        *)
(* (Receipts). A behaviour is one of either; the other component keeps its     *)
(* initial state.                                                             *)
EXTENDS MCOrderFlow, Receipts

VARIABLE part       \* the component that moves

moneyPartsVars == <<part, vars, receiptVars>>

\* Prices in roubles: a box with a free extra and delivery, a box, two things for a rouble.
TheOrders == {<<3, 0, 2>>, <<4>>, <<1, 1>>}

\* Large operations the code can tell from the first attempt's own, and for the second one
\* that it takes for its own where the attempt is for no more.
TheOlder == <<{[date |-> "early", sum |-> 9, calls |-> FALSE],
               [date |-> "unknown", sum |-> 9, calls |-> TRUE]},
              {[date |-> "late", sum |-> 3, calls |-> FALSE],
               [date |-> "early", sum |-> 2, calls |-> TRUE]}>>

\* The attempts of one order are alike.
AttemptSymmetry == {f \in Permutations(Payments) : \A p \in Payments : OrderOf[f[p]] = OrderOf[p]}

Resting ==
    /\ ReceiptsInit
    /\ basket = <<4>> /\ conf = [contour |-> "prod", check |-> FALSE]

MoneyInit ==
    \/ part = "flow" /\ Init /\ Resting
    \/ part = "receipts" /\ Init /\ mode = "prod" /\ ReceiptsInit

MoneyNext ==
    /\ UNCHANGED part
    /\ \/ part = "flow" /\ Next /\ UNCHANGED receiptVars
       \/ part = "receipts" /\ ReceiptsNext /\ UNCHANGED vars

MoneySpec == MoneyInit /\ [][MoneyNext]_moneyPartsVars
=============================================================================
