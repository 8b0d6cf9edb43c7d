------------------------------ MODULE MCWorker ------------------------------
(* Instance for TLC of what the worker's timers set off, which shares no state *)
(* here: the messages (Outbox), the invoices (ReconcileBatch), the nights of   *)
(* the directories (NightlyRefresh) and the runs that write one (PickupSync).  *)
(* A behaviour is one of these; the others keep their initial state.           *)
EXTENDS Outbox, ReconcileBatch, NightlyRefresh, PickupSync

VARIABLE part       \* the component that moves

workerVars == <<part, vars, batchVars, nightVars, syncVars>>

InOrder == <<"yandex", "ozon">>

\* A border: the second point is in the answers of both parts.
Border == [p \in Points |-> IF p = "p1" THEN {"a"} ELSE {"a", "b"}]

Thing(kind, closing, placed) == [kind |-> kind, closing |-> closing, placed |-> placed]
Things == {Thing("office", FALSE, TRUE), Thing("partner", FALSE, TRUE),
           Thing("office", TRUE, TRUE), Thing("locker", FALSE, FALSE)}

WorkerInit ==
    /\ Init /\ BatchInit /\ NightInit
    /\ \/ part \in {"outbox", "batch", "night"} /\ carrier = "cdek" /\ SyncStart /\ Active = {}
       \/ part = "sync" /\ SyncInit

Moves(name, A) == part = name /\ A

WorkerNext ==
    /\ UNCHANGED part
    /\ \/ Moves("outbox", Next) /\ UNCHANGED <<batchVars, nightVars, syncVars>>
       \/ Moves("batch", BatchNext) /\ UNCHANGED <<vars, nightVars, syncVars>>
       \/ Moves("night", NightNext) /\ UNCHANGED <<vars, batchVars, syncVars>>
       \/ Moves("sync", SyncNext) /\ UNCHANGED <<vars, batchVars, nightVars>>

\* The fairness of FairSpec, for the behaviours of the outbox.
WorkerSpec ==
    /\ WorkerInit /\ [][WorkerNext]_workerVars
    /\ WF_vars(Moves("outbox", Tick))
    /\ WF_vars(Moves("outbox", \E d \in Dispatchers : Start(d)))
    /\ WF_vars(Moves("outbox", \E d \in Dispatchers : DispatcherStep(d)))
=============================================================================
