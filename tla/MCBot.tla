------------------------------- MODULE MCBot -------------------------------
(* Instance for TLC of three components that share no state here: orders with  *)
(* their money (OrderFlow), the updates of the bot (SerialUpdates), and the    *)
(* search for a pickup point (PickupSearch). A behaviour is one of them; the   *)
(* others keep their initial state.                                           *)
EXTENDS MCOrderFlow, SerialUpdates, PickupSearch

VARIABLE part       \* the component that moves

botVars == <<part, vars, serialVars, searchVars>>

\* The last of the updates comes from another user than the rest.
Whose == [u \in Updates |-> IF u = CHOOSE v \in Updates : TRUE THEN "other" ELSE "one"]

\* Two houses of one street and one elsewhere in the town; points 3 and 4 share a house.
TheCarriers == [p \in Spots |-> "cdek"]
TheWords == [p \in Spots |-> IF p <= 2 THEN {"kazan", "mira"} ELSE {"kazan"}]
TheKeys == <<1, 2, 3, 3>>
TheKm == <<4, 1, 4, 7>>
TheRadii == <<2, 5>>
TheCut == {<<1, 5>>}
TheQueries == {<<"kazan">>, <<"kazan", "mira">>, <<>>}

BotInit ==
    /\ Init /\ SerialInit
    /\ \/ part \in {"flow", "serial"} /\ open = {} /\ enabled = {} /\ SearchStart
       \/ part = "search" /\ SearchInit /\ mode = "prod"

FlowMoves(A) == part = "flow" /\ A
SerialMoves(A) == part = "serial" /\ A

BotNext ==
    /\ UNCHANGED part
    /\ \/ FlowMoves(Next) /\ UNCHANGED <<serialVars, searchVars>>
       \/ SerialMoves(SerialNext) /\ UNCHANGED <<vars, searchVars>>
       \/ part = "search" /\ SearchNext /\ UNCHANGED <<vars, serialVars>>

\* The fairness of FairSpec and of SerialSpec, each for the behaviours of its component.
BotSpec ==
    /\ BotInit /\ [][BotNext]_botVars
    /\ \A o \in Orders : WF_vars(FlowMoves(Expire(o)))
    /\ \A p \in Payments : WF_vars(FlowMoves(Reconcile(p)))
    /\ \A u \in Updates :
        /\ WF_serialVars(SerialMoves(Enter(u)))
        /\ WF_serialVars(SerialMoves(Finish(u) \/ Fail(u)))
=============================================================================
