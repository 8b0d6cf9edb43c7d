------------------------------ MODULE MCPanel ------------------------------
(* Instance for TLC of two components that share no state here: the board    *)
(* (Board) and the dates of the queue (Workshop). A behaviour is one of      *)
(* them; the other keeps still.                                              *)
EXTENDS MCBoard, Workshop

VARIABLE part       \* the component that moves

panelVars == <<part, boardVars, workshopVars>>

\* The workshop of the documentation: "2 with a video or 4 without", on some weekdays.
Week(days, holidays, video, plain) ==
    [weekdays |-> days, holidays |-> holidays, video |-> video, plain |-> plain]
TheFirst == Week(0..4, {}, 2, 3)
TheCalendars == {TheFirst, Week({0, 2, 4}, {2}, 2, 4), Week({0}, {7, 14, 21}, 1, 2)}
TheBaskets ==
    {[video |-> 0, plain |-> 1, days |-> 1], [video |-> 1, plain |-> 0, days |-> 2],
     [video |-> 1, plain |-> 2, days |-> 2]}

PanelInit == BoardInit /\ WorkshopInit /\ part \in {"board", "workshop"}

PanelPartsNext ==
    /\ UNCHANGED part
    /\ \/ part = "board" /\ BoardNext /\ UNCHANGED workshopVars
       \/ part = "workshop" /\ WorkshopNext /\ UNCHANGED boardVars

PanelSpec == PanelInit /\ [][PanelPartsNext]_panelVars
=============================================================================
