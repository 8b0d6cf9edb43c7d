------------------------------ MODULE Outbox ------------------------------
(***************************************************************************)
(* Messages to customers and to the owner: the outbox table                 *)
(* (core/services/outbox.py) and the worker task that empties it            *)
(* (worker/tasks/outbox.py).                                                *)
(*                                                                          *)
(* A message is inserted by the transaction that changes an order and is    *)
(* seen once that commits. The dispatcher claims the first message that is  *)
(* due, in a transaction of its own, which also puts its next attempt one   *)
(* lease away; it delivers the message outside any transaction and writes   *)
(* the outcome in a third. The worker may die between any two of these.     *)
(*                                                                          *)
(* Time is relative: wait[m] is how long until next_attempt_at. Tick lets a *)
(* unit pass, so no clock has to be bounded.                                *)
(***************************************************************************)
EXTENDS Integers, FiniteSets

CONSTANTS
    Last,           \* messages have the ids 1..Last
    Dispatchers,    \* runs of dispatch_outbox that may be under way at once
    NoRun,          \* "nobody holds the lock"
    MaxAttempts,    \* MAX_ATTEMPTS
    Lease,          \* LEASE, in units of time
    RetryBase,      \* RETRY_BASE
    RetryMax,       \* RETRY_MAX
    BatchLimit,     \* BATCH_LIMIT
    MaxBreaks       \* bound: how often the worker dies, or an answer is lost

ASSUME LastAssumption == Last \in Nat
ASSUME AttemptsAssumption == MaxAttempts \in Nat \ {0}
ASSUME TimesAssumption == Lease \in Nat /\ RetryBase \in Nat /\ RetryMax \in Nat
ASSUME BatchAssumption == BatchLimit \in Nat \ {0}
ASSUME BreaksAssumption == MaxBreaks \in Nat
ASSUME NoRunAssumption == NoRun \notin Dispatchers

VARIABLES
    state,          \* outbox.status, or where the inserting transaction stands
    attempts,       \* outbox.attempts
    wait,           \* time left until outbox.next_attempt_at
    run,            \* per dispatcher: the message in hand and how far it got
    left,           \* per dispatcher: messages it may still take in this run
    lock,           \* the dispatcher that holds _lock, or NoRun
    delivered,      \* external: how often the recipient has got the message
    breaks          \* how often a run, or an answer of Telegram, was lost

vars == <<state, attempts, wait, run, left, lock, delivered, breaks>>

Messages == 1..Last
Final == {"sent", "failed", "purged"}
OutboxStatus == {"absent", "inserted", "rolled_back", "pending"} \cup Final
Outcome == {"none", "claimed", "done", "refused", "broken"}
Idle == [msg |-> 0, got |-> "none"]

MessagesOK ==
    /\ state \in [Messages -> OutboxStatus]
    /\ attempts \in [Messages -> Nat]
    /\ wait \in [Messages -> Nat]
    /\ run \in [Dispatchers -> [msg : 0..Last, got : Outcome]]
    /\ left \in [Dispatchers -> 0..BatchLimit]
    /\ lock \in Dispatchers \cup {NoRun}
    /\ delivered \in [Messages -> Nat]
    /\ breaks \in Nat

-----------------------------------------------------------------------------
(* The transaction that changes an order. *)

\* enqueue: ids are given in the order of the inserts.
Enqueue(m) ==
    /\ state[m] = "absent"
    /\ \A x \in 1..(m - 1) : state[x] # "absent"
    /\ state' = [state EXCEPT ![m] = "inserted"]
    /\ UNCHANGED <<attempts, wait, run, left, lock, delivered, breaks>>

\* The transaction ends: with it the message appears, or it never existed.
EndTransaction(m, how) ==
    /\ state[m] = "inserted"
    /\ how \in {"pending", "rolled_back"}
    /\ state' = [state EXCEPT ![m] = how]
    /\ UNCHANGED <<attempts, wait, run, left, lock, delivered, breaks>>

-----------------------------------------------------------------------------
(* The dispatcher. *)

StartUnlocked(d) ==                         \* mutant: no asyncio.Lock
    /\ left[d] = 0 /\ run[d] = Idle
    /\ left' = [left EXCEPT ![d] = BatchLimit]
    /\ lock' = d
    /\ UNCHANGED <<state, attempts, wait, run, delivered, breaks>>

\* dispatch_outbox starts (after a commit, or by the clock every minute) and
\* gets _lock; until then it waits.
Start(d) ==
    /\ lock = NoRun
    /\ lock' = d
    /\ left' = [left EXCEPT ![d] = BatchLimit]
    /\ UNCHANGED <<state, attempts, wait, run, delivered, breaks>>

Due == {m \in Messages : state[m] = "pending" /\ wait[m] = 0}

ClaimLatest(d) ==                           \* mutant: ORDER BY id DESC
    /\ left[d] > 0 /\ run[d] = Idle
    /\ \E m \in Due :
          /\ \A x \in Due : x <= m
          /\ attempts' = [attempts EXCEPT ![m] = @ + 1]
          /\ wait' = [wait EXCEPT ![m] = Lease]
          /\ run' = [run EXCEPT ![d] = [msg |-> m, got |-> "claimed"]]
    /\ left' = [left EXCEPT ![d] = @ - 1]
    /\ UNCHANGED <<state, lock, delivered, breaks>>

\* claim_next: the first message that is due; the claim is a lease.
Claim(d) ==
    /\ left[d] > 0 /\ run[d] = Idle
    /\ \E m \in Due :
          /\ \A x \in Due : m <= x
          /\ attempts' = [attempts EXCEPT ![m] = @ + 1]
          /\ wait' = [wait EXCEPT ![m] = Lease]
          /\ run' = [run EXCEPT ![d] = [msg |-> m, got |-> "claimed"]]
    /\ left' = [left EXCEPT ![d] = @ - 1]
    /\ UNCHANGED <<state, lock, delivered, breaks>>

FinishHolding(d) ==                         \* mutant: _lock is not let go
    /\ lock = d /\ run[d] = Idle
    /\ Due = {} \/ left[d] = 0
    /\ left' = [left EXCEPT ![d] = 0]
    /\ UNCHANGED <<state, attempts, wait, run, lock, delivered, breaks>>

\* Nothing is due, or the batch is full: the run ends and lets go of _lock.
Finish(d) ==
    /\ lock = d /\ run[d] = Idle
    /\ Due = {} \/ left[d] = 0
    /\ lock' = NoRun
    /\ left' = [left EXCEPT ![d] = 0]
    /\ UNCHANGED <<state, attempts, wait, run, delivered, breaks>>

\* External: the handler of the message sends it or finds nothing to send (the
\* template is switched off), is refused for good (PermanentError), or fails.
Deliver(d, outcome) ==
    /\ run[d].got = "claimed"
    /\ outcome \in {"done", "refused", "broken"}
    /\ run' = [run EXCEPT ![d].got = outcome]
    /\ \/ outcome = "done" /\ delivered' = [delivered EXCEPT ![run[d].msg] = @ + 1]
       \/ UNCHANGED delivered
    /\ UNCHANGED <<state, attempts, wait, left, lock, breaks>>

\* External: the recipient gets the message, the answer to us is lost.
LoseAnswer(d) ==
    /\ breaks < MaxBreaks
    /\ run[d].got = "claimed"
    /\ run' = [run EXCEPT ![d].got = "broken"]
    /\ delivered' = [delivered EXCEPT ![run[d].msg] = @ + 1]
    /\ breaks' = breaks + 1
    /\ UNCHANGED <<state, attempts, wait, left, lock>>

MarkSent(d) ==
    /\ run[d].got = "done"
    /\ state' = [state EXCEPT ![run[d].msg] = "sent"]
    /\ run' = [run EXCEPT ![d] = Idle]
    /\ UNCHANGED <<attempts, wait, left, lock, delivered, breaks>>

\* retry_delay: RetryBase * 2^(n - 1), but not more than RetryMax; doubled step by step, as
\* the provers know nothing of powers.
RetryDelay(n) ==
    LET doubled[k \in 0..(n - 1)] == IF k = 0 THEN RetryBase ELSE 2 * doubled[k - 1]
    IN IF doubled[n - 1] < RetryMax THEN doubled[n - 1] ELSE RetryMax

MarkFailedForever(d) ==                     \* mutant: the attempts are not counted out
    LET m == run[d].msg
    IN  /\ run[d].got \in {"refused", "broken"}
        /\ IF run[d].got = "broken"
           THEN /\ wait' = [wait EXCEPT ![m] = RetryDelay(attempts[m])]
                /\ UNCHANGED state
           ELSE /\ state' = [state EXCEPT ![m] = "failed"]
                /\ UNCHANGED wait
        /\ run' = [run EXCEPT ![d] = Idle]
        /\ UNCHANGED <<attempts, left, lock, delivered, breaks>>

\* mark_failed: retried later while there are attempts left.
MarkFailed(d) ==
    LET m == run[d].msg
    IN  /\ run[d].got \in {"refused", "broken"}
        /\ IF run[d].got = "broken" /\ attempts[m] < MaxAttempts
           THEN /\ wait' = [wait EXCEPT ![m] = RetryDelay(attempts[m])]
                /\ UNCHANGED state
           ELSE /\ state' = [state EXCEPT ![m] = "failed"]
                /\ UNCHANGED wait
        /\ run' = [run EXCEPT ![d] = Idle]
        /\ UNCHANGED <<attempts, left, lock, delivered, breaks>>

\* The worker dies, or the outcome cannot be written: the run is over, the
\* message stays as its claim left it.
Break ==
    /\ breaks < MaxBreaks
    /\ lock # NoRun
    /\ breaks' = breaks + 1
    /\ run' = [d \in Dispatchers |-> Idle]
    /\ left' = [d \in Dispatchers |-> 0]
    /\ lock' = NoRun
    /\ UNCHANGED <<state, attempts, wait, delivered>>

\* The purge of old rows. Only messages that are done with have an age limit.
Purge(m) ==
    /\ state[m] \in {"sent", "failed"}
    /\ state' = [state EXCEPT ![m] = "purged"]
    /\ UNCHANGED <<attempts, wait, run, left, lock, delivered, breaks>>

Tick ==
    /\ \E m \in Messages : wait[m] > 0
    /\ wait' = [m \in Messages |-> IF wait[m] > 0 THEN wait[m] - 1 ELSE 0]
    /\ UNCHANGED <<state, attempts, run, left, lock, delivered, breaks>>

-----------------------------------------------------------------------------
(* The specification. *)

Init ==
    /\ state = [m \in Messages |-> "absent"]
    /\ attempts = [m \in Messages |-> 0]
    /\ wait = [m \in Messages |-> 0]
    /\ run = [d \in Dispatchers |-> Idle]
    /\ left = [d \in Dispatchers |-> 0]
    /\ lock = NoRun
    /\ delivered = [m \in Messages |-> 0]
    /\ breaks = 0

DispatcherStep(d) ==
    \/ Claim(d) \/ Finish(d) \/ MarkSent(d) \/ MarkFailed(d)
    \/ \E outcome \in Outcome : Deliver(d, outcome)

Next ==
    \/ \E m \in Messages : \/ Enqueue(m) \/ Purge(m)
                           \/ \E how \in OutboxStatus : EndTransaction(m, how)
    \/ \E d \in Dispatchers : Start(d) \/ DispatcherStep(d) \/ LoseAnswer(d)
    \/ Break \/ Tick

Spec == Init /\ [][Next]_vars

\* The clock goes on, the task is started every minute, and a run that is under
\* way goes on; nothing is assumed of the outcome of a delivery.
FairSpec == /\ Spec
            /\ WF_vars(Tick)
            /\ WF_vars(\E d \in Dispatchers : Start(d))
            /\ WF_vars(\E d \in Dispatchers : DispatcherStep(d))

-----------------------------------------------------------------------------
(* Properties. *)

\* Every message of a committed transaction is settled in the end: taken by
\* Telegram, or given up after the attempts it is granted.
Settled == \A m \in Messages : state[m] = "pending" ~> state[m] \in Final

\* A message reaches its recipient twice only if a run of the dispatcher or an
\* answer of Telegram was lost; no delivery is repeated because two runs hold
\* the same message, however long a delivery outlasts its lease.
NoSpuriousDuplicate == \A m \in Messages : delivered[m] <= 1 + breaks

\* The attempts are bounded: one beyond the limit takes a run that was cut short.
AttemptsBounded == \A m \in Messages : attempts[m] <= MaxAttempts + breaks

\* A message that was never tried is not overtaken: the dispatcher takes one in
\* hand only when every earlier message that is pending has had an attempt.
FreshInOrder ==
    [][\A d \in Dispatchers : run[d] = Idle /\ run'[d].got = "claimed" =>
          \A m \in 1..(run'[d].msg - 1) : state[m] = "pending" => attempts[m] > 0]_vars

=============================================================================
