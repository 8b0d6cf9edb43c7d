---------------------------- MODULE WorkerProofs ----------------------------
(***************************************************************************)
(* What the tasks of the worker never do: the dispatcher of messages, for    *)
(* any number of messages, runs and breaks (Outbox); the reconciliation, for *)
(* any number of invoices (ReconcileBatch); the nights of the directories,   *)
(* for any carriers and any length of a night's task (NightlyRefresh).       *)
(***************************************************************************)
EXTENDS Outbox, ReconcileBatch, NightlyRefresh, Counting, SequenceTheorems

-----------------------------------------------------------------------------
(* The dispatcher of messages. *)

Hand == [msg : 0..Last, got : Outcome]

\* wait is a function, whatever its values: the theorems need only whether it is 0.
Kept ==
    /\ state \in [Messages -> OutboxStatus]
    /\ attempts \in [Messages -> Nat]
    /\ wait = [m \in Messages |-> wait[m]]
    /\ run \in [Dispatchers -> Hand]
    /\ left \in [Dispatchers -> Nat]
    /\ delivered \in [Messages -> Nat]
    /\ breaks \in Nat

\* Only the run that holds _lock has a message in hand, or may take one.
OneHolder == \A d \in Dispatchers : lock # d => run[d] = Idle /\ left[d] = 0

\* A message in hand is pending, and has been counted as tried.
HandsOK ==
    \A d \in Dispatchers :
        run[d] # Idle => /\ run[d].msg \in Messages
                         /\ state[run[d].msg] = "pending"
                         /\ attempts[run[d].msg] > 0

Untaken(m) == \A d \in Dispatchers : run[d].msg # m

\* A message that is yet to be tried has used up fewer attempts than it may.
AttemptsLeft ==
    \A m \in Messages :
        /\ attempts[m] <= MaxAttempts + breaks
        /\ state[m] \notin Final /\ Untaken(m) => attempts[m] < MaxAttempts + breaks

Undone(m) == \A d \in Dispatchers : run[d].msg = m => run[d].got # "done"

\* A message that may be delivered again was delivered only by runs or answers lost.
DeliveriesLost ==
    \A m \in Messages :
        /\ delivered[m] <= 1 + breaks
        /\ state[m] \notin Final /\ Undone(m) => delivered[m] <= breaks

\* Only an attempt makes a message wait.
WaitsTried == \A m \in Messages : wait[m] # 0 => attempts[m] > 0

OutboxInv ==
    /\ Kept
    /\ OneHolder
    /\ HandsOK
    /\ AttemptsLeft
    /\ DeliveriesLost
    /\ WaitsTried

------------------------------------------------------------------------------
LEMMA IdleIsHand == Idle \in Hand /\ Idle.msg = 0 /\ Idle.got = "none"
  <1>1. 0 \in 0..Last
    BY LastAssumption
  <1>2. ASSUME NEW n \in 0..Last, NEW g \in Outcome
        PROVE  [msg |-> n, got |-> g] \in Hand
    BY DEF Hand
  <1>3. "none" \in Outcome
    BY DEF Outcome
  <1>4. [msg |-> 0, got |-> "none"] \in Hand
    BY <1>1, <1>2, <1>3, Zenon
  <1> QED
    BY <1>4 DEF Idle

LEMMA InitOutbox == Init => OutboxInv
  <1> SUFFICES ASSUME Init PROVE OutboxInv
    OBVIOUS
  <1>1. run = [d \in Dispatchers |-> Idle] /\ Idle \in Hand
    BY IdleIsHand DEF Init
  <1>2. run \in [Dispatchers -> Hand]
    BY <1>1, Zenon
  <1>3. Kept
    BY <1>2 DEF Init, Kept, OutboxStatus, Messages
  <1>4. OneHolder /\ HandsOK
    BY <1>1 DEF Init, OneHolder, HandsOK
  <1>5. AttemptsLeft /\ DeliveriesLost /\ WaitsTried
    BY AttemptsAssumption DEF Init, AttemptsLeft, DeliveriesLost, WaitsTried
  <1> QED
    BY <1>3, <1>4, <1>5 DEF OutboxInv

------------------------------------------------------------------------------
(* The transaction that changes an order, the purge and the clock.          *)

LEMMA MessageSteps ==
    ASSUME OutboxInv, NEW m \in Messages, NEW how \in OutboxStatus,
           Enqueue(m) \/ Purge(m) \/ EndTransaction(m, how)
    PROVE  OutboxInv'
  <1>1. PICK s \in OutboxStatus :
            /\ state' = [state EXCEPT ![m] = s]
            /\ state[m] # "pending"
            /\ s \notin Final => state[m] \notin Final
            /\ UNCHANGED <<attempts, wait, run, left, lock, delivered, breaks>>
    BY DEF Enqueue, Purge, EndTransaction, OutboxStatus, Final
  <1>2. Kept'
    BY <1>1 DEF OutboxInv, Kept
  <1>3. OneHolder' /\ WaitsTried'
    BY <1>1 DEF OutboxInv, OneHolder, WaitsTried
  <1>4. \A x \in Messages : state'[x] = IF x = m THEN s ELSE state[x]
    BY <1>1 DEF OutboxInv, Kept
  <1>5. HandsOK'
    BY <1>1, <1>4 DEF OutboxInv, HandsOK
  <1>6. AttemptsLeft' /\ DeliveriesLost'
    BY <1>1, <1>4 DEF OutboxInv, AttemptsLeft, DeliveriesLost, Untaken, Undone
  <1> QED
    BY <1>2, <1>3, <1>5, <1>6 DEF OutboxInv

LEMMA TickStep ==
    ASSUME OutboxInv, Tick
    PROVE  OutboxInv'
  <1>1. /\ wait' = [m \in Messages |-> IF wait[m] > 0 THEN wait[m] - 1 ELSE 0]
        /\ UNCHANGED <<state, attempts, run, left, lock, delivered, breaks>>
    BY DEF Tick
  <1>2. wait' = [m \in Messages |-> wait'[m]]
    BY <1>1, Zenon
  <1>3. Kept'
    BY <1>1, <1>2 DEF OutboxInv, Kept
  <1>4. WaitsTried'
    BY <1>1 DEF OutboxInv, WaitsTried
  <1>5. OneHolder' /\ HandsOK'
    BY <1>1 DEF OutboxInv, OneHolder, HandsOK
  <1>6. AttemptsLeft' /\ DeliveriesLost'
    BY <1>1 DEF OutboxInv, AttemptsLeft, DeliveriesLost, Untaken, Undone
  <1> QED
    BY <1>3, <1>4, <1>5, <1>6 DEF OutboxInv

------------------------------------------------------------------------------
(* The dispatcher.                                                          *)

LEMMA StartStep ==
    ASSUME OutboxInv, NEW d \in Dispatchers, Start(d) \/ Finish(d)
    PROVE  OutboxInv'
  <1>1. PICK n \in Nat :
            /\ left' = [left EXCEPT ![d] = n]
            /\ UNCHANGED <<state, attempts, wait, run, delivered, breaks>>
            /\ \/ lock = NoRun /\ lock' = d
               \/ lock = d /\ run[d] = Idle /\ n = 0
    BY BatchAssumption DEF Start, Finish
  <1>2. Kept'
    BY <1>1 DEF OutboxInv, Kept
  <1>3. OneHolder'
    BY <1>1, NoRunAssumption DEF OutboxInv, OneHolder, Kept
  <1>4. HandsOK' /\ WaitsTried'
    BY <1>1 DEF OutboxInv, HandsOK, WaitsTried
  <1>5. AttemptsLeft' /\ DeliveriesLost'
    BY <1>1 DEF OutboxInv, AttemptsLeft, DeliveriesLost, Untaken, Undone
  <1> QED
    BY <1>2, <1>3, <1>4, <1>5 DEF OutboxInv

\* Whoever has a message in hand is the only one.
LEMMA OnlyHand ==
    ASSUME OutboxInv, NEW d \in Dispatchers, run[d] # Idle \/ left[d] > 0
    PROVE  lock = d /\ \A e \in Dispatchers \ {d} : run[e] = Idle
  BY DEF OutboxInv, OneHolder

LEMMA ClaimStep ==
    ASSUME OutboxInv, NEW d \in Dispatchers, Claim(d)
    PROVE  OutboxInv'
  <1>1. PICK m \in Due :
            /\ attempts' = [attempts EXCEPT ![m] = @ + 1]
            /\ wait' = [wait EXCEPT ![m] = Lease]
            /\ run' = [run EXCEPT ![d] = [msg |-> m, got |-> "claimed"]]
    BY Zenon DEF Claim
  <1>2. /\ left[d] > 0 /\ run[d] = Idle
        /\ left' = [left EXCEPT ![d] = @ - 1]
        /\ UNCHANGED <<state, lock, delivered, breaks>>
    BY DEF Claim
  <1>3. m \in Messages /\ state[m] = "pending"
    BY <1>1 DEF Due
  <1>4. lock = d /\ \A e \in Dispatchers : run[e] = Idle
    BY <1>2, OnlyHand
  <1>5. Untaken(m)
    BY <1>3, <1>4, IdleIsHand DEF Untaken, Messages
  <1> DEFINE h == [msg |-> m, got |-> "claimed"]
  <1>6. h \in Hand /\ h.msg = m /\ h.got = "claimed"
    BY <1>3, LastAssumption DEF Hand, Outcome, Messages
  <1>7. run' = [run EXCEPT ![d] = h]
    BY <1>1
  <1> HIDE DEF h
  <1>8. run'[d] = h /\ \A e \in Dispatchers \ {d} : run'[e] = run[e]
    BY <1>7 DEF OutboxInv, Kept
  <1>9. \A x \in Messages : /\ attempts'[x] = IF x = m THEN attempts[m] + 1 ELSE attempts[x]
                            /\ wait'[x] = IF x = m THEN Lease ELSE wait[x]
    BY <1>1, <1>3 DEF OutboxInv, Kept
  <1>10. attempts[m] \in Nat /\ breaks \in Nat /\ MaxAttempts \in Nat
    BY <1>3, AttemptsAssumption DEF OutboxInv, Kept
  <1>11. Kept'
    <2>1. run' \in [Dispatchers -> Hand]
      BY <1>6, <1>7 DEF OutboxInv, Kept
    <2>2. attempts' \in [Messages -> Nat]
      BY <1>1, <1>3 DEF OutboxInv, Kept
    <2>3. wait' = [x \in Messages |-> wait'[x]]
      BY <1>1 DEF OutboxInv, Kept
    <2>4. left' \in [Dispatchers -> Nat]
      BY <1>2 DEF OutboxInv, Kept
    <2> QED
      BY <1>2, <2>1, <2>2, <2>3, <2>4 DEF OutboxInv, Kept
  <1>12. OneHolder'
    BY <1>2, <1>4, <1>8 DEF OutboxInv, OneHolder, Kept
  <1>13. HandsOK'
    BY <1>2, <1>3, <1>4, <1>6, <1>8, <1>9, <1>10 DEF HandsOK
  <1>14. AttemptsLeft'
    <2> SUFFICES ASSUME NEW x \in Messages
                 PROVE  /\ attempts'[x] <= MaxAttempts + breaks
                        /\ state[x] \notin Final /\ Untaken(x)' =>
                               attempts'[x] < MaxAttempts + breaks
      BY <1>2 DEF AttemptsLeft
    <2>1. CASE x = m
      <3>1. attempts[m] < MaxAttempts + breaks
        BY <1>3, <1>5 DEF OutboxInv, AttemptsLeft, Final
      <3>2. ~Untaken(m)'
        BY <1>6, <1>8 DEF Untaken
      <3> QED
        BY <2>1, <3>1, <3>2, <1>3, <1>9, <1>10
    <2>2. CASE x # m
      <3>1. Untaken(x)
        BY <1>4, IdleIsHand DEF Untaken, Messages
      <3> QED
        BY <2>2, <3>1, <1>9 DEF OutboxInv, AttemptsLeft
    <2> QED
      BY <2>1, <2>2
  <1>15. DeliveriesLost'
    <2>1. \A x \in Messages : Undone(x)
      BY <1>4, IdleIsHand DEF Undone, Messages
    <2> QED
      BY <1>2, <2>1 DEF OutboxInv, DeliveriesLost
  <1>16. WaitsTried'
    BY <1>9, <1>10 DEF OutboxInv, WaitsTried
  <1> QED
    BY <1>11, <1>12, <1>13, <1>14, <1>15, <1>16 DEF OutboxInv

\* A step with the message in hand that keeps it there.
LEMMA DeliverStep ==
    ASSUME OutboxInv, NEW d \in Dispatchers, NEW outcome \in Outcome,
           Deliver(d, outcome) \/ LoseAnswer(d)
    PROVE  OutboxInv'
  <1> DEFINE m == run[d].msg
  <1>1. PICK g \in {"done", "refused", "broken"} :
            /\ run' = [run EXCEPT ![d].got = g]
            /\ run[d].got = "claimed"
            /\ \/ delivered' = delivered /\ breaks' = breaks
               \/ g = "done" /\ delivered' = [delivered EXCEPT ![m] = @ + 1] /\ breaks' = breaks
               \/ g # "done" /\ delivered' = [delivered EXCEPT ![m] = @ + 1]
                              /\ breaks' = breaks + 1
            /\ UNCHANGED <<state, attempts, wait, left, lock>>
    BY Zenon DEF Deliver, LoseAnswer
  <1>2. run[d] # Idle /\ run[d] \in Hand
    BY <1>1, IdleIsHand DEF OutboxInv, Kept
  <1>3. m \in Messages /\ state[m] = "pending" /\ attempts[m] > 0
    BY <1>2 DEF OutboxInv, HandsOK
  <1>4. lock = d /\ \A e \in Dispatchers \ {d} : run[e] = Idle
    BY <1>2, OnlyHand
  <1>5. PICK h \in Hand : h.msg = m /\ h.got = g /\ run' = [run EXCEPT ![d] = h]
    <2>1. [run[d] EXCEPT !.got = g] \in Hand
      BY <1>1, <1>2 DEF Hand, Outcome
    <2>2. [run[d] EXCEPT !.got = g].msg = m /\ [run[d] EXCEPT !.got = g].got = g
      BY <1>2 DEF Hand
    <2>3. run' = [run EXCEPT ![d] = [run[d] EXCEPT !.got = g]]
      BY <1>1
    <2> QED
      BY <2>1, <2>2, <2>3
  <1>6. run'[d] = h /\ \A e \in Dispatchers \ {d} : run'[e] = Idle
    BY <1>4, <1>5 DEF OutboxInv, Kept
  <1>7. /\ breaks \in Nat /\ breaks' \in Nat /\ breaks' >= breaks /\ MaxAttempts \in Nat
        /\ attempts \in [Messages -> Nat] /\ delivered \in [Messages -> Nat]
    BY <1>1, AttemptsAssumption DEF OutboxInv, Kept
  <1>8. delivered' \in [Messages -> Nat]
    BY <1>1, <1>3, <1>7
  <1>9. Kept'
    <2>1. run' \in [Dispatchers -> Hand]
      BY <1>5 DEF OutboxInv, Kept
    <2> QED
      BY <1>1, <1>7, <1>8, <2>1 DEF OutboxInv, Kept
  <1>10. OneHolder' /\ HandsOK' /\ WaitsTried'
    BY <1>1, <1>3, <1>4, <1>5, <1>6 DEF OutboxInv, OneHolder, HandsOK, WaitsTried
  <1>11. AttemptsLeft'
    <2> SUFFICES ASSUME NEW x \in Messages
                 PROVE  /\ attempts[x] <= MaxAttempts + breaks'
                        /\ state[x] \notin Final /\ Untaken(x)' =>
                               attempts[x] < MaxAttempts + breaks'
      BY <1>1 DEF AttemptsLeft
    <2>1. Untaken(x)' => x # m
      BY <1>5, <1>6 DEF Untaken
    <2>2. x # m => Untaken(x)
      BY <1>4, IdleIsHand DEF Untaken, Messages
    <2>3. attempts[x] \in Nat
      BY <1>7
    <2> QED
      BY <1>7, <2>1, <2>2, <2>3 DEF OutboxInv, AttemptsLeft
  <1>12. DeliveriesLost'
    <2> SUFFICES ASSUME NEW x \in Messages
                 PROVE  /\ delivered'[x] <= 1 + breaks'
                        /\ state[x] \notin Final /\ Undone(x)' => delivered'[x] <= breaks'
      BY <1>1 DEF DeliveriesLost
    <2>1. Undone(x)
      BY <1>1, <1>4, IdleIsHand DEF Undone
    <2>2. x = m => state[x] \notin Final
      BY <1>3 DEF Final
    <2>3. delivered[x] \in Nat
      BY <1>7
    <2>4. x # m => delivered'[x] = delivered[x]
      BY <1>1, <1>7
    <2>5. /\ delivered[x] <= 1 + breaks
          /\ state[x] \notin Final => delivered[x] <= breaks
      BY <2>1 DEF OutboxInv, DeliveriesLost
    <2>6. x = m /\ Undone(x)' => g # "done"
      BY <1>5, <1>6 DEF Undone
    <2>7. x = m => delivered'[x] <= 1 + breaks' /\ (Undone(x)' => delivered'[x] <= breaks')
      BY <1>1, <1>7, <2>2, <2>3, <2>5, <2>6
    <2> QED
      BY <1>7, <2>3, <2>4, <2>5, <2>7
  <1> QED
    BY <1>9, <1>10, <1>11, <1>12 DEF OutboxInv

\* The outcome is written: the message is out of the hand.
LEMMA OutcomeStep ==
    ASSUME OutboxInv, NEW d \in Dispatchers, MarkSent(d) \/ MarkFailed(d)
    PROVE  OutboxInv'
  <1> DEFINE m == run[d].msg
  <1>1. PICK s \in OutboxStatus :
            /\ state' = [state EXCEPT ![m] = s]
            /\ \E w : wait' = [wait EXCEPT ![m] = w]
            /\ s \notin Final => attempts[m] < MaxAttempts /\ run[d].got = "broken"
            /\ run' = [run EXCEPT ![d] = Idle]
            /\ run[d].got # "none"
            /\ UNCHANGED <<attempts, left, lock, delivered, breaks>>
    <2>1. run[d].got # "none"
      BY DEF MarkSent, MarkFailed
    <2>2. m \in Messages
      BY <2>1, IdleIsHand DEF OutboxInv, HandsOK
    <2>3. state[m] \in OutboxStatus /\ state = [state EXCEPT ![m] = state[m]]
      BY <2>2 DEF OutboxInv, Kept
    <2>4. wait = [wait EXCEPT ![m] = wait[m]]
      <3>1. wait = [x \in Messages |-> wait[x]]
        BY DEF OutboxInv, Kept
      <3> QED
        BY <2>2, <3>1, Zenon
    <2>5. {"sent", "failed"} \subseteq OutboxStatus \cap Final
      BY DEF OutboxStatus, Final
    <2>6. CASE MarkSent(d)
      BY <2>1, <2>4, <2>5, <2>6 DEF MarkSent
    <2>7. CASE MarkFailed(d)
      BY <2>1, <2>3, <2>4, <2>5, <2>7 DEF MarkFailed
    <2> QED
      BY <2>6, <2>7
  <1>2. run[d] # Idle /\ m \in Messages /\ state[m] = "pending" /\ attempts[m] > 0
    BY <1>1, IdleIsHand DEF OutboxInv, HandsOK
  <1>3. lock = d /\ \A e \in Dispatchers \ {d} : run[e] = Idle
    BY <1>2, OnlyHand
  <1>4. \A e \in Dispatchers : run'[e] = Idle
    BY <1>1, <1>3 DEF OutboxInv, Kept
  <1>5. \A x \in Messages : x # m => state'[x] = state[x] /\ wait'[x] = wait[x]
    BY <1>1 DEF OutboxInv, Kept
  <1>6. state'[m] = s
    BY <1>1, <1>2 DEF OutboxInv, Kept
  <1>7. breaks \in Nat /\ MaxAttempts \in Nat
    BY AttemptsAssumption DEF OutboxInv, Kept
  <1>8. Kept'
    <2>1. run' \in [Dispatchers -> Hand]
      BY <1>1, IdleIsHand DEF OutboxInv, Kept
    <2>2. wait' = [x \in Messages |-> wait'[x]]
      <3>1. wait = [x \in Messages |-> wait[x]]
        BY DEF OutboxInv, Kept
      <3> QED
        BY <1>1, <3>1, Zenon
    <2> QED
      BY <1>1, <2>1, <2>2 DEF OutboxInv, Kept
  <1>9. OneHolder' /\ HandsOK'
    BY <1>1, <1>4 DEF OutboxInv, OneHolder, HandsOK
  <1>10. WaitsTried'
    BY <1>1, <1>2, <1>5 DEF OutboxInv, WaitsTried
  <1>11. \A x \in Messages : x # m => Untaken(x) /\ Undone(x)
    BY <1>3, IdleIsHand DEF Untaken, Undone, Messages
  <1>12. run[d].got = "broken" => Undone(m)
    BY <1>3, IdleIsHand DEF Undone
  <1>13. AttemptsLeft'
    <2> SUFFICES ASSUME NEW x \in Messages
                 PROVE  /\ attempts[x] <= MaxAttempts + breaks
                        /\ state'[x] \notin Final => attempts[x] < MaxAttempts + breaks
      BY <1>1 DEF AttemptsLeft
    <2>1. attempts[x] \in Nat
      BY DEF OutboxInv, Kept
    <2> QED
      BY <1>1, <1>5, <1>6, <1>7, <1>11, <2>1 DEF OutboxInv, AttemptsLeft
  <1>14. DeliveriesLost'
    <2> SUFFICES ASSUME NEW x \in Messages
                 PROVE  /\ delivered[x] <= 1 + breaks
                        /\ state'[x] \notin Final => delivered[x] <= breaks
      BY <1>1 DEF DeliveriesLost
    <2>1. state[m] \notin Final
      BY <1>2 DEF Final
    <2> QED
      BY <1>1, <1>5, <1>6, <1>11, <1>12, <2>1 DEF OutboxInv, DeliveriesLost
  <1> QED
    BY <1>8, <1>9, <1>10, <1>13, <1>14 DEF OutboxInv

LEMMA BreakStep ==
    ASSUME OutboxInv, Break
    PROVE  OutboxInv'
  <1>1. /\ run' = [d \in Dispatchers |-> Idle]
        /\ left' = [d \in Dispatchers |-> 0]
        /\ breaks' = breaks + 1
        /\ UNCHANGED <<state, attempts, wait, delivered>>
    BY DEF Break
  <1>2. \A d \in Dispatchers : run'[d] = Idle /\ left'[d] = 0
    BY <1>1, Zenon
  <1>3. /\ attempts \in [Messages -> Nat] /\ delivered \in [Messages -> Nat]
        /\ breaks \in Nat /\ MaxAttempts \in Nat
    BY AttemptsAssumption DEF OutboxInv, Kept
  <1>4. Kept'
    <2>1. run' \in [Dispatchers -> Hand]
      BY <1>1, IdleIsHand, Zenon
    <2>2. left' \in [Dispatchers -> Nat]
      BY <1>1
    <2> QED
      BY <1>1, <2>1, <2>2 DEF OutboxInv, Kept
  <1>5. OneHolder' /\ HandsOK' /\ WaitsTried'
    BY <1>1, <1>2 DEF OutboxInv, OneHolder, HandsOK, WaitsTried
  <1>6. AttemptsLeft' /\ DeliveriesLost'
    BY <1>1, <1>3 DEF OutboxInv, AttemptsLeft, DeliveriesLost
  <1> QED
    BY <1>4, <1>5, <1>6 DEF OutboxInv

------------------------------------------------------------------------------
LEMMA OutboxSteps ==
    ASSUME OutboxInv, [Next]_vars
    PROVE  OutboxInv'
  <1>1. ASSUME NEW m \in Messages, Enqueue(m) \/ Purge(m)
        PROVE  OutboxInv'
    <2>1. "pending" \in OutboxStatus
      BY DEF OutboxStatus
    <2> QED
      BY <1>1, <2>1, MessageSteps
  <1>2. ASSUME NEW m \in Messages, NEW how \in OutboxStatus, EndTransaction(m, how)
        PROVE  OutboxInv'
    BY <1>2, MessageSteps
  <1>3. ASSUME NEW d \in Dispatchers, Start(d) \/ DispatcherStep(d) \/ LoseAnswer(d)
        PROVE  OutboxInv'
    <2>1. CASE Start(d) \/ Finish(d)
      BY <2>1, StartStep
    <2>2. CASE Claim(d)
      BY <2>2, ClaimStep
    <2>3. CASE MarkSent(d) \/ MarkFailed(d)
      BY <2>3, OutcomeStep
    <2>4. ASSUME NEW outcome \in Outcome, Deliver(d, outcome) \/ LoseAnswer(d)
          PROVE  OutboxInv'
      BY <2>4, DeliverStep
    <2>5. "none" \in Outcome
      BY DEF Outcome
    <2> QED
      BY <1>3, <2>1, <2>2, <2>3, <2>4, <2>5 DEF DispatcherStep
  <1>4. CASE Break
    BY <1>4, BreakStep
  <1>5. CASE Tick
    BY <1>5, TickStep
  <1>6. CASE UNCHANGED vars
    BY <1>6 DEF vars, OutboxInv, Kept, OneHolder, HandsOK, AttemptsLeft, DeliveriesLost,
                WaitsTried, Untaken, Undone
  <1> QED
    BY <1>1, <1>2, <1>3, <1>4, <1>5, <1>6 DEF Next

LEMMA OutboxInvariant == Spec => []OutboxInv
  <1>1. Init => OutboxInv
    BY InitOutbox
  <1>2. OutboxInv /\ [Next]_vars => OutboxInv'
    BY OutboxSteps
  <1> QED
    BY <1>1, <1>2, PTL DEF Spec

-----------------------------------------------------------------------------
(* Types of the messages.                                                    *)

Waiting ==
    /\ wait \in [Messages -> Nat]
    /\ left \in [Dispatchers -> 0..BatchLimit]
    /\ lock \in Dispatchers \cup {NoRun}

LEMMA RetryDelayType ==
    ASSUME NEW n \in Nat \ {0}
    PROVE  RetryDelay(n) \in Nat
  <1> DEFINE N == n - 1
             Is(f) == f = [k \in 0..N |-> IF k = 0 THEN RetryBase ELSE 2 * f[k - 1]]
             step == [k \in 1..N |-> [w \in Nat |-> 2 * w]]
  <1>1. N \in Nat /\ RetryBase \in Nat /\ RetryMax \in Nat
    BY TimesAssumption
  <1>2. step \in Steps(N, Nat) /\ \A k \in 1..N : \A w \in Nat : step[k][w] = 2 * w
    BY DEF Steps
  <1>3. RetryDelay(n) = LET doubled == CHOOSE f : Is(f)
                        IN IF doubled[N] < RetryMax THEN doubled[N] ELSE RetryMax
    BY DEF RetryDelay
  <1> HIDE DEF step, N
  <1>4. PICK f : Follows(f, N, Nat, RetryBase, step)
    BY <1>1, <1>2, StepByStep
  <1>5. f \in [0..N -> Nat] /\ f[0] = RetryBase /\ \A k \in 1..N : f[k] = 2 * f[k - 1]
    <2>1. f \in [0..N -> Nat] /\ f[0] = RetryBase /\ \A k \in 1..N : f[k] = step[k][f[k - 1]]
      BY <1>4 DEF Follows
    <2>2. \A k \in 1..N : f[k - 1] \in Nat
      BY <1>1, <2>1
    <2> QED BY <1>2, <2>1, <2>2
  <1>6. Is(f)
    <2>1. \A k \in 0..N : f[k] = IF k = 0 THEN RetryBase ELSE 2 * f[k - 1]
      BY <1>1, <1>5
    <2> QED BY <1>5, <2>1
  <1>7. PICK g : Is(g) /\ RetryDelay(n) = IF g[N] < RetryMax THEN g[N] ELSE RetryMax
    <2> DEFINE doubled == CHOOSE x : Is(x)
    <2>1. Is(doubled)
      BY <1>6
    <2> QED BY <1>3, <2>1
  <1>8. g[0] = RetryBase /\ \A k \in 1..N : g[k] = 2 * g[k - 1]
    <2>1. \A k \in 0..N : g[k] = IF k = 0 THEN RetryBase ELSE 2 * g[k - 1]
      BY <1>7
    <2>2. 0 \in 0..N /\ \A k \in 1..N : k \in 0..N /\ k # 0
      BY <1>1
    <2> QED BY <2>1, <2>2
  <1>9. \A k \in 0..N : g[k] \in Nat
    <2>1. g[0] \in Nat /\ \A k \in 1..N : g[k - 1] \in Nat => g[k] \in Nat
      BY <1>1, <1>8
    <2> QED BY <1>1, <2>1, AllAlong
  <1>10. g[N] \in Nat
    BY <1>1, <1>9
  <1> QED
    BY <1>1, <1>7, <1>10

LEMMA WaitingKept ==
    ASSUME OutboxInv, Waiting, [Next]_vars
    PROVE  Waiting'
  <1>1. BatchLimit \in 0..BatchLimit /\ 0 \in 0..BatchLimit
    BY BatchAssumption
  <1>2. ASSUME NEW m \in Messages, Enqueue(m) \/ Purge(m) \/ \E how : EndTransaction(m, how)
        PROVE  Waiting'
    BY <1>2 DEF Enqueue, Purge, EndTransaction, Waiting
  <1>3. ASSUME NEW d \in Dispatchers, Start(d) \/ Finish(d)
        PROVE  Waiting'
    BY <1>1, <1>3 DEF Start, Finish, Waiting
  <1>4. ASSUME NEW d \in Dispatchers, Claim(d)
        PROVE  Waiting'
    <2>1. PICK m \in Messages : wait' = [wait EXCEPT ![m] = Lease]
      BY <1>4 DEF Claim, Due
    <2>2. left' = [left EXCEPT ![d] = @ - 1] /\ left[d] > 0 /\ lock' = lock
      BY <1>4 DEF Claim
    <2>3. left[d] - 1 \in 0..BatchLimit
      BY <2>2, BatchAssumption DEF Waiting
    <2> QED
      BY <2>1, <2>2, <2>3, TimesAssumption DEF Waiting
  <1>5. ASSUME NEW d \in Dispatchers, MarkFailed(d)
        PROVE  Waiting'
    <2> DEFINE m == run[d].msg
    <2>1. left' = left /\ lock' = lock /\ wait' \in {wait, [wait EXCEPT ![m] = RetryDelay(attempts[m])]}
      BY <1>5 DEF MarkFailed
    <2>2. run[d] # Idle
      BY <1>5 DEF MarkFailed, Idle
    <2>3. m \in Messages /\ attempts[m] \in Nat \ {0}
      BY <2>2 DEF OutboxInv, Kept, HandsOK
    <2>4. RetryDelay(attempts[m]) \in Nat
      BY <2>3, RetryDelayType
    <2> QED
      BY <2>1, <2>4 DEF Waiting
  <1>6. ASSUME NEW d \in Dispatchers, MarkSent(d) \/ LoseAnswer(d) \/ \E outcome : Deliver(d, outcome)
        PROVE  Waiting'
    BY <1>6 DEF MarkSent, LoseAnswer, Deliver, Waiting
  <1>7. CASE Break
    BY <1>1, <1>7 DEF Break, Waiting
  <1>8. CASE Tick
    BY <1>8 DEF Tick, Waiting
  <1>9. CASE UNCHANGED vars
    BY <1>9 DEF vars, Waiting
  <1> QED
    BY <1>2, <1>3, <1>4, <1>5, <1>6, <1>7, <1>8, <1>9 DEF Next, DispatcherStep

\* The variables of the outbox keep their types: a run has at most BATCH_LIMIT messages before
\* it, a wait is a number however many attempts it follows.
THEOREM MessagesTypes == Spec => []MessagesOK
  <1>1. Init => Waiting
    BY BatchAssumption DEF Init, Waiting
  <1>2. OutboxInv /\ Waiting /\ [Next]_vars => Waiting'
    BY WaitingKept
  <1>3. OutboxInv /\ Waiting => MessagesOK
    BY DEF OutboxInv, Kept, Waiting, MessagesOK, Hand
  <1> QED
    BY <1>1, <1>2, <1>3, OutboxInvariant, PTL DEF Spec

\* A message reaches its recipient again only if a run of the dispatcher, or an answer of
\* Telegram, was lost (worker/tasks/outbox.py: claim, deliver and outcome are three steps).
THEOREM NeverTwiceForNothing == Spec => []NoSpuriousDuplicate
  <1>1. OutboxInv => NoSpuriousDuplicate
    BY DEF OutboxInv, DeliveriesLost, NoSpuriousDuplicate
  <1> QED
    BY <1>1, OutboxInvariant, PTL

\* The attempts of a message are bounded, but for one for each run that was cut short
\* (claim_next counts the attempt before it is made).
THEOREM AttemptsEnd == Spec => []AttemptsBounded
  <1>1. OutboxInv => AttemptsBounded
    BY DEF OutboxInv, AttemptsLeft, AttemptsBounded
  <1> QED
    BY <1>1, OutboxInvariant, PTL

\* A message that was never tried is not overtaken by a later one (claim_next takes the
\* first that is due; one that was never tried is due at once).
THEOREM FirstTriedInOrder == Spec => FreshInOrder
  <1> DEFINE Fresh(d) ==
        run[d] = Idle /\ run'[d].got = "claimed" =>
            \A m \in 1..(run'[d].msg - 1) : state[m] = "pending" => attempts[m] > 0
  <1>1. ASSUME OutboxInv, [Next]_vars, NEW d \in Dispatchers
        PROVE  Fresh(d)
    <2> SUFFICES ASSUME run[d] = Idle, run'[d].got = "claimed",
                        NEW m \in 1..(run'[d].msg - 1), state[m] = "pending"
                 PROVE  attempts[m] > 0
      OBVIOUS
    <2>1. run'[d] # run[d]
      BY IdleIsHand
    <2>2. PICK e \in Dispatchers : Claim(e)
      <3>1. ASSUME NEW e \in Dispatchers, MarkSent(e) \/ MarkFailed(e) \/ LoseAnswer(e)
            PROVE  FALSE
        <4>1. run'[e] # run'[d] \/ e # d
          BY <3>1, <2>1, IdleIsHand DEF MarkSent, MarkFailed, LoseAnswer
        <4>2. e # d => run'[d] = run[d]
          BY <1>1, <3>1 DEF MarkSent, MarkFailed, LoseAnswer, OutboxInv, Kept
        <4> QED
          BY <2>1, <4>1, <4>2
      <3>2. ASSUME NEW e \in Dispatchers, NEW outcome, Deliver(e, outcome)
            PROVE  FALSE
        <4>1. e # d
          BY <3>2, IdleIsHand DEF Deliver
        <4> QED
          BY <1>1, <2>1, <3>2, <4>1 DEF Deliver, OutboxInv, Kept
      <3>3. ~Break
        BY <2>1 DEF Break
      <3> QED
        BY <1>1, <2>1, <3>1, <3>2, <3>3
           DEF Next, vars, DispatcherStep, Enqueue, Purge, EndTransaction, Start, Finish, Tick
    <2>3. PICK c \in Due : /\ \A x \in Due : c <= x
                          /\ run' = [run EXCEPT ![e] = [msg |-> c, got |-> "claimed"]]
      BY <2>2, Zenon DEF Claim
    <2>4. run'[d].msg = c
      BY <1>1, <2>1, <2>3 DEF OutboxInv, Kept
    <2>5. m \in Messages /\ m < c
      BY <2>3, <2>4, LastAssumption DEF Due, Messages
    <2>6. m \notin Due
      BY <2>3, <2>5, LastAssumption DEF Due, Messages
    <2>7. wait[m] # 0
      BY <2>5, <2>6 DEF Due
    <2> QED
      BY <1>1, <2>5, <2>7 DEF OutboxInv, WaitsTried
  <1>2. OutboxInv /\ [Next]_vars => [\A d \in Dispatchers : Fresh(d)]_vars
    BY <1>1
  <1> QED
    BY <1>2, OutboxInvariant, PTL DEF Spec, FreshInOrder
-----------------------------------------------------------------------------
(* Lists without doubles. *)

\* A list that has every element of a finite set once has them all.
LEMMA ListedAll ==
    ASSUME NEW S, NEW list, IsFiniteSet(S), list \in [1..Cardinality(S) -> S],
           \A i, j \in 1..Cardinality(S) : i # j => list[i] # list[j]
    PROVE  /\ list \in Seq(S) /\ Range(list) = S
           /\ \A i, j \in 1..Len(list) : list[i] = list[j] => i = j
<1> DEFINE N == Cardinality(S)
<1>1. N \in Nat
  BY FS_CardinalityType
<1>2. IsFiniteSet(1..N) /\ Cardinality(1..N) = N
  BY <1>1, FS_Interval
<1>3. list \in [1..N -> S] /\ \A i, j \in 1..N : i # j => list[i] # list[j]
  OBVIOUS
<1>4. list \in Injection(1..N, S)
  BY <1>3 DEF Injection, IsInjective
<1>5. list \in Surjection(1..N, S)
  BY <1>2, <1>4, FS_Injection
<1>6. list \in Seq(S) /\ Len(list) = N
  BY <1>1, <1>3
<1>7. Range(list) = S
  BY <1>3, <1>5 DEF Surjection, Range
<1> QED BY <1>3, <1>6, <1>7

\* Without its first element, a list without doubles has that element no more.
LEMMA RestOfList ==
    ASSUME NEW S, NEW list \in Seq(S), list # <<>>,
           \A i, j \in 1..Len(list) : list[i] = list[j] => i = j
    PROVE  /\ Head(list) \in S /\ Tail(list) \in Seq(S)
           /\ Range(Tail(list)) = Range(list) \ {Head(list)}
           /\ \A i, j \in 1..Len(Tail(list)) : Tail(list)[i] = Tail(list)[j] => i = j
           /\ Head(list) \in Range(list)
<1> DEFINE rest == Tail(list)
<1>1. /\ Head(list) \in S /\ rest \in Seq(S) /\ Len(rest) = Len(list) - 1
      /\ \A i \in 1..Len(rest) : rest[i] = list[i + 1]
      /\ Len(list) \in Nat \ {0} /\ Head(list) = list[1]
  BY HeadTailProperties, EmptySeq
<1> HIDE DEF rest
<1>2. Range(rest) = {rest[i] : i \in 1..Len(rest)} /\ Range(list) = {list[i] : i \in 1..Len(list)}
  BY <1>1, RangeEquality
<1>3. \A i, j \in 1..Len(rest) : rest[i] = rest[j] => i = j
  BY <1>1
<1>4. ASSUME NEW x \in Range(rest) PROVE x \in Range(list) \ {Head(list)}
  <2>1. PICK i \in 1..Len(rest) : x = rest[i]
    BY <1>2
  <2>2. i + 1 \in 1..Len(list) /\ 1 \in 1..Len(list) /\ i + 1 # 1 /\ x = list[i + 1]
    BY <1>1, <2>1
  <2> QED BY <1>1, <1>2, <2>2
<1>5. ASSUME NEW x \in Range(list) \ {Head(list)} PROVE x \in Range(rest)
  <2>1. PICK i \in 1..Len(list) : x = list[i]
    BY <1>2
  <2>2. i - 1 \in 1..Len(rest) /\ rest[i - 1] = list[(i - 1) + 1] /\ (i - 1) + 1 = i
    BY <1>1, <2>1
  <2> QED BY <1>2, <2>1, <2>2
<1>6. Head(list) \in Range(list)
  BY <1>1, <1>2
<1> QED BY <1>1, <1>3, <1>4, <1>5, <1>6 DEF rest

-----------------------------------------------------------------------------
(* The reconciliation. *)

BatchTyped ==
    /\ money \in [Invoice -> {"unstarted", "open", "charged", "recorded"}]
    /\ spent \in [Invoice -> Nat]
    /\ excused \in [Invoice -> Nat]
    /\ batch \in Seq(Invoice)
    /\ \A i, j \in 1..Len(batch) : batch[i] = batch[j] => i = j

\* A charged invoice whose turn is still to come in the run that was spent on
\* it, if any, lacks that one excuse.
ExcuseToCome(i) == IF i \in Range(batch) /\ spent[i] > 0 THEN 1 ELSE 0

TurnsCounted ==
    \A i \in Invoice :
        /\ money[i] \in {"unstarted", "open"} => spent[i] = 0 /\ excused[i] = 0
        /\ money[i] = "charged" => spent[i] = excused[i] + ExcuseToCome(i)

BatchInv == BatchTyped /\ TurnsCounted

\* The invoices of a run: a hundred at most, each once, and all but those that
\* are crowded out by later ones.
LEMMA CandidatesListed ==
    /\ Candidates \in Seq(Invoice)
    /\ \A i, j \in 1..Len(Candidates) : Candidates[i] = Candidates[j] => i = j
    /\ \A i \in Asked : i \in Range(Candidates) <=> ~Crowded(i)
    /\ Range(Candidates) \subseteq Asked
<1> DEFINE first == {i \in Asked : Cardinality({j \in Asked : j > i}) < Limit}
           N == Cardinality(first)
           rank == [i \in first |-> Cardinality({j \in first : j >= i})]
<1>1. Invoice \subseteq Nat /\ IsFiniteSet(Invoice)
  <2>1. Invoices \in Int /\ 1 \in Int
    BY InvoicesAssumption
  <2> QED BY <2>1, InvoicesAssumption, FS_Interval DEF Invoice
<1>2. Asked \subseteq Invoice /\ first \subseteq Invoice
  BY DEF Asked
<1>3. IsFiniteSet(Asked) /\ IsFiniteSet(first) /\ N \in Nat
  BY <1>1, <1>2, FS_Subset, FS_CardinalityType
<1>4. Candidates = [k \in 1..N |-> CHOOSE i \in first : Cardinality({j \in first : j >= i}) = k]
  BY DEF Candidates
<1>5. \A i \in Asked : i \in first <=> ~Crowded(i)
  <2> SUFFICES ASSUME NEW i \in Asked PROVE i \in first <=> ~Crowded(i)
    OBVIOUS
  <2> DEFINE later == {j \in Asked : j > i}
  <2>1. later \in SUBSET Asked
    OBVIOUS
  <2> HIDE DEF later
  <2>2. IsFiniteSet(later)
    BY <1>3, <2>1, FS_Subset
  <2>3. Cardinality(later) \in Nat /\ Limit \in Nat
    BY <2>2, FS_CardinalityType, InvoicesAssumption
  <2> QED BY <2>3 DEF Crowded, later
<1>6. first \subseteq Asked
  OBVIOUS
<1> HIDE DEF first
<1>7. ASSUME NEW i \in first PROVE rank[i] \in 1..N
  <2> DEFINE S == {j \in first : j >= i}
  <2>1. i \in S /\ S \in SUBSET first
    BY <1>1, <1>2
  <2> HIDE DEF S
  <2>2. IsFiniteSet(S) /\ Cardinality(S) <= N
    BY <1>3, <2>1, FS_Subset
  <2>3. Cardinality(S) \in Nat /\ Cardinality(S) # 0
    BY <2>1, <2>2, FS_CardinalityType, FS_EmptySet
  <2>4. rank[i] = Cardinality(S)
    BY DEF S
  <2> QED BY <1>3, <2>2, <2>3, <2>4
<1>8. ASSUME NEW i \in first, NEW j \in first, i < j PROVE rank[i] # rank[j]
  <2> DEFINE S == {k \in first : k >= i}
             T == {k \in first : k >= j}
  <2>0. \A k \in first : k \in Nat
    BY <1>1, <1>2
  <2>1. T \in SUBSET S
    BY <2>0, <1>8
  <2>5. i \in S /\ i \notin T /\ S \in SUBSET first
    BY <2>0, <1>8
  <2>2. rank[i] = Cardinality(S) /\ rank[j] = Cardinality(T)
    OBVIOUS
  <2> HIDE DEF S, T, rank
  <2>3. IsFiniteSet(S)
    BY <1>3, <2>5, FS_Subset
  <2> QED BY <2>1, <2>2, <2>3, <2>5, FS_Subset
<1>9. \A i, j \in first : rank[i] = rank[j] => i = j
  <2> SUFFICES ASSUME NEW i \in first, NEW j \in first, rank[i] = rank[j] PROVE i = j
    OBVIOUS
  <2>1. i < j \/ j < i \/ i = j
    BY <1>1, <1>2
  <2> HIDE DEF rank
  <2> QED BY <1>8, <2>1
<1>10. \A k \in 1..N : \E i \in first : rank[i] = k
  <2>1. rank \in Injection(first, 1..N)
    BY <1>7, <1>9 DEF Injection, IsInjective
  <2>2. IsFiniteSet(1..N) /\ Cardinality(1..N) = N
    BY <1>3, FS_Interval
  <2> HIDE DEF rank
  <2>3. rank \in Surjection(first, 1..N)
    BY <2>1, <2>2, FS_Injection
  <2> QED BY <2>3 DEF Surjection
<1>11. \A k \in 1..N : Candidates[k] \in first /\ rank[Candidates[k]] = k
  BY <1>4, <1>10
<1>12. Candidates \in Seq(Invoice) /\ Len(Candidates) = N
  <2>1. \A k \in 1..N : Candidates[k] \in Invoice
    BY <1>2, <1>11
  <2>2. Candidates \in [1..N -> Invoice]
    BY <1>4, <2>1
  <2> HIDE DEF N
  <2> QED BY <1>3, <2>2
<1>13. Range(Candidates) = {Candidates[k] : k \in 1..N}
  BY <1>12, RangeEquality
<1>14. ASSUME NEW i \in first PROVE i \in Range(Candidates)
  <2>1. Candidates[rank[i]] = i
    BY <1>7, <1>9, <1>11
  <2> QED BY <1>7, <1>13, <2>1
<1>15. \A i, j \in 1..Len(Candidates) : Candidates[i] = Candidates[j] => i = j
  <2> SUFFICES ASSUME NEW i \in 1..N, NEW j \in 1..N, Candidates[i] = Candidates[j]
               PROVE  i = j
    BY <1>12
  <2> HIDE DEF rank, N
  <2> QED BY <1>11
<1>16. \A i \in Asked : i \in Range(Candidates) => i \in first
  BY <1>11, <1>13
<1>17. Range(Candidates) \subseteq Asked
  BY <1>6, <1>11, <1>13
<1> QED BY <1>5, <1>12, <1>14, <1>15, <1>16, <1>17

LEMMA BatchStep == BatchInv /\ [BatchNext]_batchVars => BatchInv'
<1> SUFFICES ASSUME BatchInv, [BatchNext]_batchVars PROVE BatchInv'
  OBVIOUS
<1> USE DEF BatchInv
<1>1. ASSUME NEW i \in Invoice, StartCheckout(i) \/ ChargeInvoice(i) \/ Notified(i)
      PROVE  BatchInv'
  <2>1. /\ UNCHANGED <<batch, spent, excused>>
        /\ \E to \in {"open", "charged", "recorded"} :
              /\ money' = [money EXCEPT ![i] = to]
              /\ to = "open" => money[i] = "unstarted"
              /\ to = "charged" => money[i] = "open"
    BY <1>1 DEF StartCheckout, ChargeInvoice, Notified
  <2> QED BY <2>1 DEF BatchTyped, TurnsCounted, ExcuseToCome
<1>2. ASSUME BeginBatch PROVE BatchInv'
  <2>1. /\ batch = <<>> /\ batch' = Candidates /\ UNCHANGED money
        /\ spent' = [i \in Invoice |-> IF i \in Charged \cap Asked THEN spent[i] + 1 ELSE spent[i]]
        /\ excused' = [i \in Invoice |->
              IF i \in Charged \cap Asked /\ Crowded(i) THEN excused[i] + 1 ELSE excused[i]]
    BY <1>2 DEF BeginBatch
  <2>2. BatchTyped'
    BY <2>1, CandidatesListed DEF BatchTyped
  <2>3. \A i \in Invoice : i \notin Range(batch)
    BY <2>1, EmptySeq DEF Range
  <2>4. ASSUME NEW i \in Invoice, money[i] = "charged"
        PROVE  spent'[i] = excused'[i] + (IF i \in Range(Candidates) /\ spent'[i] > 0 THEN 1 ELSE 0)
    <3>1. spent[i] = excused[i] /\ spent[i] \in Nat /\ i \in Charged
      BY <2>3, <2>4 DEF TurnsCounted, ExcuseToCome, BatchTyped, Charged
    <3>2. CASE i \in Asked
      BY <2>1, <3>1, <3>2, CandidatesListed
    <3>3. CASE i \notin Asked
      BY <2>1, <3>1, <3>3, CandidatesListed
    <3> QED BY <3>2, <3>3
  <2>5. \A i \in Invoice : money[i] # "charged" => spent'[i] = spent[i] /\ excused'[i] = excused[i]
    BY <2>1 DEF Charged
  <2>6. TurnsCounted'
    BY <2>1, <2>4, <2>5 DEF TurnsCounted, ExcuseToCome
  <2> QED BY <2>2, <2>6
<1>3. ASSUME AskInvoice PROVE BatchInv'
  <2> DEFINE i == Head(batch)
  <2>1. /\ batch # <<>> /\ batch' = Tail(batch) /\ UNCHANGED spent
        /\ \/ /\ money[i] = "charged" /\ UNCHANGED excused
              /\ money' = [money EXCEPT ![i] = "recorded"]
           \/ money[i] # "charged" /\ UNCHANGED <<money, excused>>
           \/ /\ money[i] = "charged" /\ UNCHANGED money
              /\ excused' = [excused EXCEPT ![i] = IF spent[i] > 0 THEN @ + 1 ELSE @]
    BY <1>3 DEF AskInvoice
  <2>2. batch \in Seq(Invoice) /\ \A k, l \in 1..Len(batch) : batch[k] = batch[l] => k = l
    BY DEF BatchTyped
  <2>3. /\ i \in Invoice /\ batch' \in Seq(Invoice) /\ i \in Range(batch)
        /\ Range(batch') = Range(batch) \ {i}
        /\ \A k, l \in 1..Len(batch') : batch'[k] = batch'[l] => k = l
    BY <2>1, <2>2, RestOfList
  <2> HIDE DEF i
  <2>4. BatchTyped'
    <3>1. money' \in [Invoice -> {"unstarted", "open", "charged", "recorded"}]
      BY <2>1, <2>3 DEF BatchTyped
    <3>2. excused' \in [Invoice -> Nat]
      <4>1. excused \in [Invoice -> Nat] /\ excused[i] + 1 \in Nat /\ excused[i] \in Nat
        BY <2>3 DEF BatchTyped
      <4>2. excused' = excused \/ \E e \in Nat : excused' = [excused EXCEPT ![i] = e]
        BY <2>1, <4>1
      <4> QED BY <4>1, <4>2
    <3>3. spent' \in [Invoice -> Nat]
      BY <2>1 DEF BatchTyped
    <3> QED BY <2>3, <3>1, <3>2, <3>3 DEF BatchTyped
  <2>5. ASSUME NEW x \in Invoice, x # i
        PROVE  money'[x] = money[x] /\ excused'[x] = excused[x] /\ spent'[x] = spent[x]
               /\ (x \in Range(batch') <=> x \in Range(batch))
    BY <2>1, <2>3, <2>5 DEF BatchTyped
  <2>6. /\ money'[i] \in {"unstarted", "open"} => spent'[i] = 0 /\ excused'[i] = 0
        /\ money'[i] = "charged" => spent'[i] = excused'[i]
    BY <2>1, <2>3 DEF BatchTyped, TurnsCounted, ExcuseToCome
  <2>7. TurnsCounted'
    <3> SUFFICES ASSUME NEW x \in Invoice
                 PROVE  /\ money'[x] \in {"unstarted", "open"} => spent'[x] = 0 /\ excused'[x] = 0
                        /\ money'[x] = "charged" => spent'[x] = excused'[x] + ExcuseToCome(x)'
      BY DEF TurnsCounted
    <3>1. CASE x = i
      <4>1. ExcuseToCome(x)' = 0 /\ excused'[x] \in Nat
        BY <2>3, <2>4, <3>1 DEF ExcuseToCome, BatchTyped
      <4> QED BY <2>6, <3>1, <4>1
    <3>2. CASE x # i
      <4>1. ExcuseToCome(x)' = ExcuseToCome(x)
        BY <2>5, <3>2 DEF ExcuseToCome
      <4> QED BY <2>5, <3>2, <4>1 DEF TurnsCounted
    <3> QED BY <3>1, <3>2
  <2> QED BY <2>4, <2>7
<1>4. CASE UNCHANGED batchVars
  BY <1>4 DEF batchVars, BatchTyped, TurnsCounted, ExcuseToCome
<1> QED BY <1>1, <1>2, <1>3, <1>4 DEF BatchNext

\* With any number of invoices, any limit and any window: of the runs spent on
\* an invoice that is paid and not on record, each found a full batch of later
\* invoices or got no answer (payments_to_reconcile, reconcile_payments).
THEOREM BatchUnrecordedForAReason == BatchSpec => []UnrecordedForAReason
<1>1. BatchInit => BatchInv
  BY EmptySeq DEF BatchInit, BatchInv, BatchTyped, TurnsCounted, ExcuseToCome, Range
<1>2. BatchInv => UnrecordedForAReason
  BY EmptySeq DEF BatchInv, BatchTyped, TurnsCounted, ExcuseToCome, Range, UnrecordedForAReason,
                  Charged
<1> QED BY <1>1, <1>2, BatchStep, PTL DEF BatchSpec

-----------------------------------------------------------------------------
(* The nights of the directories. *)

NightTyped ==
    /\ hour \in 0..(Day - 1)
    /\ asked \in BOOLEAN
    /\ agenda \in Seq(AllCarriers)
    /\ \A i, j \in 1..Len(agenda) : agenda[i] = agenda[j] => i = j
    /\ agenda # <<>> => asked /\ hour <= LongestRun
    /\ age \in [AllCarriers -> Nat]
    /\ lost \in [AllCarriers -> Nat]

\* This night may still bring the carrier's directory up to date.
TonightOpen(c) == c \in Range(agenda) \/ (hour = 0 /\ ~asked)

\* The directory was read n nights ago, early in the night; with a night still
\* open n is 7 and the lost nights at most, and one less when it is over.
NightsSince(c) ==
    \E n \in Nat, h \in 0..LongestRun :
        /\ age[c] + h = n * Day + hour
        /\ n <= lost[c] + (IF TonightOpen(c) THEN 7 ELSE 6)

NightInv == NightTyped /\ \A c \in AllCarriers : NightsSince(c)

LEMMA WholeDays ==
    ASSUME NEW n \in Nat, NEW m \in Nat
    PROVE  /\ n * Day \in Nat /\ (n + m) * Day = n * Day + m * Day
           /\ Day * n = n * Day
           /\ n <= m => n * Day <= m * Day
<1>1. Day \in Nat
  BY NightsAssumption
<1>2. \A k, l \in Nat : k * l \in Nat /\ (k + m) * l = k * l + m * l /\ l * k = k * l
  OBVIOUS
<1>3. ASSUME n <= m PROVE n * Day <= m * Day
  <2> DEFINE k == m - n
  <2>1. k \in Nat /\ m = k + n
    BY <1>3
  <2>2. m * Day = k * Day + n * Day
    BY <1>1, <2>1
  <2>3. k * Day \in Nat /\ n * Day \in Nat /\ m * Day \in Nat
    BY <1>1, <2>1
  <2> QED BY <2>2, <2>3
<1> QED BY <1>1, <1>2, <1>3

LEMMA CarriersFinite == IsFiniteSet(AllCarriers)
<1>1. Carriers \in Seq(AllCarriers)
  BY CarriersAssumption DEF AllCarriers
<1>2. DOMAIN Carriers = 1..Len(Carriers) /\ Len(Carriers) \in Nat
  BY <1>1
<1>3. Carriers \in Surjection(1..Len(Carriers), AllCarriers)
  BY <1>1, <1>2 DEF Surjection, AllCarriers
<1>4. IsFiniteSet(1..Len(Carriers))
  BY <1>2, FS_Interval
<1> QED BY <1>3, <1>4, FS_Surjection

\* The agenda of a night has every carrier that is due.
LEMMA DueListed ==
    ASSUME NightTask
    PROVE  /\ agenda' \in Seq(AllCarriers)
           /\ Range(agenda') = {c \in AllCarriers : IsDue(c)}
           /\ \A i, j \in 1..Len(agenda') : agenda'[i] = agenda'[j] => i = j
<1> DEFINE due == {c \in AllCarriers : IsDue(c)}
           list == agenda'
<1>1. /\ list \in [1..Cardinality(due) -> due]
      /\ \A i, j \in 1..Cardinality(due) : i < j => Turn(list[i]) < Turn(list[j])
  BY DEF NightTask
<1>2. due \in SUBSET AllCarriers
  OBVIOUS
<1>3. \A c \in due : Turn(c) \in Nat
  <2>1. Carriers \in Seq(AllCarriers)
    BY CarriersAssumption DEF AllCarriers
  <2>2. DOMAIN Carriers = 1..Len(Carriers) /\ Len(Carriers) \in Nat
    BY <2>1
  <2>3. \A c \in AllCarriers : \E i \in DOMAIN Carriers : Carriers[i] = c
    BY DEF AllCarriers
  <2> QED BY <1>2, <2>2, <2>3 DEF Turn
<1> HIDE DEF due, list
<1>4. IsFiniteSet(due)
  BY <1>2, CarriersFinite, FS_Subset
<1>5. Cardinality(due) \in Nat
  BY <1>4, FS_CardinalityType
<1>6. \A i, j \in 1..Cardinality(due) : i # j => list[i] # list[j]
  <2> SUFFICES ASSUME NEW i \in 1..Cardinality(due), NEW j \in 1..Cardinality(due), i # j
               PROVE  list[i] # list[j]
    OBVIOUS
  <2>1. i < j \/ j < i
    BY <1>5
  <2>2. Turn(list[i]) < Turn(list[j]) \/ Turn(list[j]) < Turn(list[i])
    BY <1>1, <2>1
  <2>3. Turn(list[i]) \in Nat /\ Turn(list[j]) \in Nat
    BY <1>1, <1>3
  <2> QED BY <2>2, <2>3
<1>7. /\ list \in Seq(due) /\ Range(list) = due
      /\ \A i, j \in 1..Len(list) : list[i] = list[j] => i = j
  <2>1. PICK l : l = list
    OBVIOUS
  <2>2. l \in [1..Cardinality(due) -> due]
    BY <1>1, <2>1
  <2>3. \A i, j \in 1..Cardinality(due) : i # j => l[i] # l[j]
    BY <1>6, <2>1
  <2>4. /\ l \in Seq(due) /\ Range(l) = due
        /\ \A i, j \in 1..Len(l) : l[i] = l[j] => i = j
    BY <1>4, <2>2, <2>3, ListedAll
  <2> QED BY <2>1, <2>4
<1>8. list \in Seq(AllCarriers)
  BY <1>2, <1>7
<1> QED BY <1>7, <1>8 DEF due, list

LEMMA NightStep ==
    ASSUME RefreshEvery + LongestRun < 7 * Day, NightInv, [NightNext]_nightVars
    PROVE  NightInv'
<1>0. /\ Day \in Nat /\ Day # 0 /\ RefreshEvery \in Nat /\ LongestRun \in Nat
      /\ LongestRun <= Day - 1 /\ hour \in Nat /\ hour <= Day - 1
      /\ NightTyped /\ \A c \in AllCarriers : NightsSince(c)
  BY NightsAssumption DEF NightInv, NightTyped
<1>1. ASSUME NightTask PROVE NightInv'
  <2>1. hour = 0 /\ asked' = TRUE /\ UNCHANGED <<hour, age, lost>> /\ ~asked
    BY <1>1 DEF NightTask
  <2>2. NightTyped'
    BY <1>0, <1>1, <2>1, DueListed DEF NightTyped
  <2>3. ASSUME NEW c \in AllCarriers PROVE NightsSince(c)'
    <3>1. PICK n \in Nat, h \in 0..LongestRun :
            age[c] + h = n * Day + hour /\ n <= lost[c] + 7
      BY <1>0, <2>1 DEF NightsSince, TonightOpen, NightTyped
    <3>2. CASE IsDue(c)
      BY <1>1, <2>1, <3>1, <3>2, DueListed DEF NightsSince, TonightOpen
    <3>3. CASE ~IsDue(c)
      <4>1. age[c] <= RefreshEvery /\ age[c] \in Nat /\ lost[c] \in Nat
        BY <1>0, <3>3 DEF IsDue, NightTyped
      <4>2. n * Day \in Nat /\ (7 <= n => 7 * Day <= n * Day)
        BY WholeDays
      <4>3. n <= 6
        BY <1>0, <2>1, <3>1, <4>1, <4>2
      <4>4. n <= lost[c] + 6 /\ n <= lost[c] + 7
        BY <4>1, <4>3
      <4> QED BY <2>1, <3>1, <4>4 DEF NightsSince
    <3> QED BY <3>2, <3>3
  <2> QED BY <2>2, <2>3 DEF NightInv, AllCarriers
<1>2. ASSUME SyncSucceeds \/ SyncFails PROVE NightInv'
  <2>0. PICK d : d = Head(agenda)
    OBVIOUS
  <2>1. /\ agenda # <<>> /\ agenda' = Tail(agenda) /\ UNCHANGED <<hour, asked>>
        /\ \/ age' = [age EXCEPT ![d] = 0] /\ lost' = [lost EXCEPT ![d] = 0]
           \/ UNCHANGED age /\ lost' = [lost EXCEPT ![d] = @ + 1]
    BY <1>2, <2>0 DEF SyncSucceeds, SyncFails
  <2>2. agenda \in Seq(AllCarriers) /\ \A k, l \in 1..Len(agenda) : agenda[k] = agenda[l] => k = l
    BY <1>0 DEF NightTyped
  <2>3. /\ d \in AllCarriers /\ agenda' \in Seq(AllCarriers) /\ d \in Range(agenda)
        /\ Range(agenda') = Range(agenda) \ {d}
        /\ \A k, l \in 1..Len(agenda') : agenda'[k] = agenda'[l] => k = l
    BY <2>0, <2>1, <2>2, RestOfList
  <2>4. NightTyped'
    <3>0. /\ age' = age \/ age' = [age EXCEPT ![d] = 0]
          /\ lost' = [lost EXCEPT ![d] = 0] \/ lost' = [lost EXCEPT ![d] = lost[d] + 1]
      BY <2>1
    <3>1. age' \in [AllCarriers -> Nat]
      <4>1. age \in [AllCarriers -> Nat]
        BY <1>0 DEF NightTyped
      <4> QED BY <3>0, <4>1
    <3>2. lost[d] + 1 \in Nat
      BY <1>0, <2>3 DEF NightTyped
    <3>3. lost' \in [AllCarriers -> Nat]
      <4>1. lost \in [AllCarriers -> Nat]
        BY <1>0 DEF NightTyped
      <4> QED BY <3>0, <3>2, <4>1
    <3> QED BY <1>0, <2>1, <2>3, <3>1, <3>3 DEF NightTyped
  <2>5. ASSUME NEW c \in AllCarriers, c # d PROVE NightsSince(c)'
    <3>1. age'[c] = age[c] /\ lost'[c] = lost[c] /\ (TonightOpen(c)' <=> TonightOpen(c))
      BY <1>0, <2>1, <2>3, <2>5 DEF NightTyped, TonightOpen
    <3> QED BY <1>0, <2>1, <3>1 DEF NightsSince
  <2>6. NightsSince(d)'
    <3>1. lost[d] \in Nat /\ hour <= LongestRun /\ TonightOpen(d)
      BY <1>0, <2>1, <2>3 DEF NightTyped, TonightOpen
    <3>2. CASE age'[d] = 0 /\ lost'[d] = 0
      <4>1. 0 * Day = 0
        BY <1>0
      <4>2. /\ 0 \in Nat /\ hour \in 0..LongestRun /\ age'[d] + hour = 0 * Day + hour'
            /\ 0 <= lost'[d] + (IF TonightOpen(d)' THEN 7 ELSE 6)
        BY <1>0, <2>1, <3>1, <3>2, <4>1
      <4> QED BY <4>2 DEF NightsSince
    <3>3. CASE age'[d] = age[d] /\ lost'[d] = lost[d] + 1
      <4>1. PICK n \in Nat, h \in 0..LongestRun :
              age[d] + h = n * Day + hour /\ n <= lost[d] + 7
        BY <1>0, <2>3, <3>1 DEF NightsSince
      <4>2. n <= lost'[d] + 6 /\ n <= lost'[d] + 7
        BY <3>1, <3>3, <4>1
      <4> QED BY <2>1, <3>3, <4>1, <4>2 DEF NightsSince
    <3> QED BY <1>0, <2>1, <2>3, <3>2, <3>3 DEF NightTyped
  <2> QED BY <2>4, <2>5, <2>6 DEF NightInv, AllCarriers
<1>3. ASSUME WorkerRestarts PROVE NightInv'
  <2> DEFINE rest == {agenda[i] : i \in DOMAIN agenda}
  <2>1. /\ agenda' = <<>> /\ UNCHANGED <<hour, asked, age>>
        /\ lost' = [c \in AllCarriers |-> IF c \in rest THEN lost[c] + 1 ELSE lost[c]]
    BY <1>3 DEF WorkerRestarts
  <2>2. rest = Range(agenda) /\ Range(agenda') = {}
    BY <2>1 DEF Range
  <2> HIDE DEF rest
  <2>3. NightTyped'
    <3>1. agenda' \in Seq(AllCarriers) /\ Len(agenda') = 0
      BY <2>1
    <3>2. lost' \in [AllCarriers -> Nat]
      BY <1>0, <2>1 DEF NightTyped
    <3> QED BY <1>0, <2>1, <3>1, <3>2 DEF NightTyped
  <2>4. ASSUME NEW c \in AllCarriers PROVE NightsSince(c)'
    <3>1. lost[c] \in Nat
      BY <1>0 DEF NightTyped
    <3>2. CASE c \in rest
      <4>1. PICK n \in Nat, h \in 0..LongestRun :
              age[c] + h = n * Day + hour /\ n <= lost[c] + 7
        BY <1>0, <2>2, <3>2 DEF NightsSince, TonightOpen
      <4>2. n <= lost'[c] + 6 /\ n <= lost'[c] + 7
        BY <2>1, <3>1, <3>2, <4>1
      <4> QED BY <2>1, <4>1, <4>2 DEF NightsSince
    <3>3. CASE c \notin rest
      <4>1. lost'[c] = lost[c] /\ (TonightOpen(c)' <=> TonightOpen(c))
        BY <2>1, <2>2, <3>3 DEF TonightOpen
      <4> QED BY <1>0, <2>1, <4>1 DEF NightsSince
    <3> QED BY <3>2, <3>3
  <2> QED BY <2>3, <2>4 DEF NightInv, AllCarriers
<1>4. ASSUME HourPasses PROVE NightInv'
  <2>1. /\ hour = 0 => asked
        /\ agenda # <<>> => hour < LongestRun
        /\ hour' = (hour + 1) % Day
        /\ asked' = (asked /\ hour' # 0)
        /\ age' = [c \in AllCarriers |-> age[c] + 1]
        /\ UNCHANGED <<agenda, lost>>
    BY <1>4 DEF HourPasses
  <2>2. ASSUME NEW c \in AllCarriers
        PROVE  /\ age[c] \in Nat /\ lost[c] \in Nat /\ age'[c] = age[c] + 1
               /\ lost'[c] = lost[c] /\ (TonightOpen(c) <=> c \in Range(agenda))
    BY <1>0, <2>1 DEF NightTyped, TonightOpen
  <2>3. CASE hour + 1 < Day
    <3>1. hour' = hour + 1 /\ hour' # 0
      BY <1>0, <2>1, <2>3
    <3>2. NightTyped'
      <4>1. age' \in [AllCarriers -> Nat]
        BY <2>1, <2>2
      <4> QED BY <1>0, <2>1, <2>3, <3>1, <4>1 DEF NightTyped
    <3>3. ASSUME NEW c \in AllCarriers PROVE NightsSince(c)'
      <4>1. PICK n \in Nat, h \in 0..LongestRun :
              /\ age[c] + h = n * Day + hour
              /\ n <= lost[c] + (IF TonightOpen(c) THEN 7 ELSE 6)
        BY <1>0 DEF NightsSince
      <4>2. TonightOpen(c)' <=> TonightOpen(c)
        BY <2>1, <2>2, <3>1 DEF TonightOpen
      <4>3. n * Day \in Nat
        BY WholeDays
      <4>4. age'[c] + h = n * Day + hour'
        BY <1>0, <2>2, <3>1, <4>1, <4>3
      <4> QED BY <2>2, <4>1, <4>2, <4>4 DEF NightsSince
    <3> QED BY <3>2, <3>3 DEF NightInv, AllCarriers
  <2>4. CASE hour + 1 = Day
    <3>0. Day % Day = 0
      BY <1>0
    <3>1. hour' = 0 /\ asked' = FALSE /\ agenda = <<>> /\ agenda' = <<>>
      <4>1. hour' = 0
        BY <2>1, <2>4, <3>0
      <4>2. ~(hour < LongestRun)
        BY <1>0, <2>4
      <4> QED BY <2>1, <4>1, <4>2
    <3>2. NightTyped'
      <4>1. age' \in [AllCarriers -> Nat]
        BY <2>1, <2>2
      <4> QED BY <1>0, <2>1, <3>1, <4>1 DEF NightTyped
    <3>3. ASSUME NEW c \in AllCarriers PROVE NightsSince(c)'
      <4>1. c \notin Range(agenda)
        BY <3>1 DEF Range
      <4>2. PICK n \in Nat, h \in 0..LongestRun :
              age[c] + h = n * Day + hour /\ n <= lost[c] + 6
        BY <1>0, <2>2, <4>1 DEF NightsSince
      <4>3. n * Day \in Nat /\ (n + 1) * Day = n * Day + 1 * Day /\ 1 * Day = Day
        BY <1>0, WholeDays
      <4>6. age'[c] + h = n * Day + Day /\ n + 1 \in Nat /\ n + 1 <= lost'[c] + 7
        BY <1>0, <2>2, <2>4, <4>2, <4>3
      <4>7. (n + 1) * Day + hour' = n * Day + Day
        BY <1>0, <3>1, <4>3
      <4>4. n + 1 \in Nat /\ age'[c] + h = (n + 1) * Day + hour' /\ n + 1 <= lost'[c] + 7
        BY <4>6, <4>7
      <4>5. TonightOpen(c)'
        BY <3>1 DEF TonightOpen
      <4> QED BY <4>4, <4>5 DEF NightsSince
    <3> QED BY <3>2, <3>3 DEF NightInv, AllCarriers
  <2> QED BY <1>0, <2>3, <2>4
<1>5. CASE UNCHANGED nightVars
  <2>1. UNCHANGED <<hour, agenda, asked, age, lost>>
    BY <1>5 DEF nightVars
  <2>2. NightTyped'
    BY <1>0, <2>1 DEF NightTyped
  <2>3. \A c \in AllCarriers : NightsSince(c)'
    BY <1>0, <2>1 DEF NightsSince, TonightOpen
  <2> QED BY <2>2, <2>3 DEF NightInv, AllCarriers
<1> QED BY <1>1, <1>2, <1>3, <1>4, <1>5 DEF NightNext

\* With any carriers, and a night's task that ends before a directory read at
\* its start is due again on the seventh night after: REFRESH_EVERY and the task
\* are less than a week. Then no directory is older than a week and the task,
\* and a day for every night lost (providers_due, refresh_pickup_points).
THEOREM NightWeekOldAtMost ==
    ASSUME RefreshEvery + LongestRun < 7 * Day
    PROVE  NightSpec => []WeekOldAtMost
<1>1. NightInit => NightInv
  <2> SUFFICES ASSUME NightInit PROVE NightInv
    OBVIOUS
  <2>1. Day \in Nat /\ Day # 0 /\ LongestRun \in Nat /\ 0 * Day = 0
    BY NightsAssumption
  <2>2. /\ hour = 0 /\ agenda = <<>> /\ asked = FALSE
        /\ \A c \in AllCarriers : age[c] = 0 /\ lost[c] = 0
    BY DEF NightInit
  <2>3. NightTyped
    <3>1. agenda \in Seq(AllCarriers) /\ Len(agenda) = 0
      BY <2>2
    <3>2. age \in [AllCarriers -> Nat] /\ lost \in [AllCarriers -> Nat]
      BY DEF NightInit
    <3>3. 0 \in 0..(Day - 1) /\ agenda = <<>>
      BY <2>1, <2>2
    <3>4. \A i, j \in 1..Len(agenda) : agenda[i] = agenda[j] => i = j
      BY <3>1
    <3> QED BY <2>2, <3>1, <3>2, <3>3, <3>4 DEF NightTyped
  <2>4. ASSUME NEW c \in AllCarriers PROVE NightsSince(c)
    <3>1. /\ 0 \in Nat /\ 0 \in 0..LongestRun /\ age[c] + 0 = 0 * Day + hour
          /\ 0 <= lost[c] + (IF TonightOpen(c) THEN 7 ELSE 6)
      BY <2>1, <2>2
    <3> QED BY <3>1 DEF NightsSince
  <2> QED BY <2>3, <2>4 DEF NightInv
<1>2. NightInv => WeekOldAtMost
  <2> SUFFICES ASSUME NightInv, NEW c \in AllCarriers
               PROVE  age[c] <= 7 * Day + LongestRun + Day * lost[c]
    BY DEF WeekOldAtMost
  <2>1. /\ Day \in Nat /\ Day # 0 /\ LongestRun \in Nat /\ hour \in Nat /\ hour <= Day - 1
        /\ age[c] \in Nat /\ lost[c] \in Nat /\ NightTyped
    BY NightsAssumption DEF NightInv, NightTyped
  <2>2. PICK n \in Nat, h \in 0..LongestRun :
          /\ age[c] + h = n * Day + hour
          /\ n <= lost[c] + (IF TonightOpen(c) THEN 7 ELSE 6)
    BY DEF NightInv, NightsSince
  <2>3. CASE TonightOpen(c)
    <3>1. hour <= LongestRun
      BY <2>1, <2>3, EmptySeq DEF TonightOpen, NightTyped, Range
    <3>2. lost[c] + 7 \in Nat /\ n <= lost[c] + 7
      BY <2>1, <2>2, <2>3
    <3>3. /\ n * Day <= (lost[c] + 7) * Day /\ n * Day \in Nat /\ Day * lost[c] = lost[c] * Day
          /\ (lost[c] + 7) * Day = lost[c] * Day + 7 * Day
          /\ lost[c] * Day \in Nat /\ 7 * Day \in Nat
      BY <2>1, <3>2, WholeDays
    <3> QED BY <2>1, <2>2, <3>1, <3>3
  <2>4. CASE ~TonightOpen(c)
    <3>2. lost[c] + 6 \in Nat /\ n <= lost[c] + 6
      BY <2>1, <2>2, <2>4
    <3>3. /\ n * Day <= (lost[c] + 6) * Day /\ n * Day \in Nat /\ Day * lost[c] = lost[c] * Day
          /\ (lost[c] + 6) * Day = lost[c] * Day + 6 * Day
          /\ lost[c] * Day \in Nat
      BY <2>1, <3>2, WholeDays
    <3> QED BY <2>1, <2>2, <3>3
  <2> QED BY <2>3, <2>4
<1>3. NightInv /\ [NightNext]_nightVars => NightInv'
  BY NightStep
<1> QED BY <1>1, <1>2, <1>3, PTL DEF NightSpec

=============================================================================
