--------------------------- MODULE MCTransactions ---------------------------
(* Instance for TLC of two components whose transactions wait for locks and   *)
(* share no state here: the queue (QueueLocks) and the limit of orders in     *)
(* work (Intake). A behaviour is one of either; the other component keeps its *)
(* initial state.                                                            *)
EXTENDS MCQueueLocks, Intake

VARIABLE part       \* the component that moves

txnVars == <<part, lockVars, intakeVars>>

TxnInit ==
    /\ IntakeInit
    /\ \/ part = "locks" /\ LocksInit
       \/ part = "intake" /\ BoardInit /\ work = [t \in Txns |-> Idle] /\ held = [t \in Txns |-> {}]

TxnNext ==
    /\ UNCHANGED part
    /\ \/ part = "locks" /\ LocksNext /\ UNCHANGED intakeVars
       \/ part = "intake" /\ IntakeNext /\ UNCHANGED lockVars

TxnSpec == TxnInit /\ [][TxnNext]_txnVars

TxnSymmetry == LockSymmetry \cup Permutations(Clients)
=============================================================================
