------------------------------- MODULE Intake -------------------------------
(***************************************************************************)
(* The limit of orders in work and the pause (core/services/intake.py), as   *)
(* customers place orders at the same time: orders.submit asks               *)
(* intake.ensure_open inside the transaction that commits the order.         *)
(*                                                                          *)
(* Transactions are READ COMMITTED, and every statement of ensure_open reads *)
(* anew: the settings before the lock, the settings after it, the count of   *)
(* orders. Each is a step, so whatever commits in between is seen.           *)
(***************************************************************************)
EXTENDS Naturals, FiniteSets

CONSTANTS
    Clients,        \* each places one order
    Limits,         \* values of queue_limit the owner sets, NoLimit among them
    LastDate        \* bound: days that pass

NoLimit == 0

ASSUME LimitsAssumption == NoLimit \in Limits /\ Limits \subseteq Nat
ASSUME ClientsAssumption == IsFiniteSet(Clients)
ASSUME DatesAssumption == LastDate \in Nat

VARIABLES
    intake,         \* settings: accepting_orders, resume_on, queue_limit
    date,           \* today_moscow()
    order,          \* per client: the stage of the order
    stage,          \* per client: how far the transaction of submit has come
    told,           \* per client: the limit it has read
    intakeLock,     \* who holds the advisory lock of the intake: a set of at most one
    unguarded       \* history: orders in work that did not come through the lock

intakeVars == <<intake, date, order, stage, told, intakeLock, unguarded>>

Never == LastDate + 1

\* Mutant of InWork: orders that wait for payment take no place.
InWorkPaid == {c \in Clients : order[c] = "queued"}

\* LOAD_STATUSES.
InWork == {c \in Clients : order[c] \in {"waiting", "queued"}}

IsPaused == ~intake.accepting /\ date < intake.resumeOn

IntakeInit ==
    /\ intake = [accepting |-> TRUE, resumeOn |-> Never, limit |-> NoLimit]
    /\ date = 0
    /\ order = [c \in Clients |-> "draft"]
    /\ stage = [c \in Clients |-> "away"]
    /\ told = [c \in Clients |-> NoLimit]
    /\ intakeLock = {}
    /\ unguarded = {}

------------------------------------------------------------------------------
(* ensure_open, statement by statement.                                     *)

Reaches(c, next) == stage' = [stage EXCEPT ![c] = next]

\* The transaction ends, and with it its advisory lock.
Ends(c) ==
    /\ Reaches(c, "away")
    /\ told' = [told EXCEPT ![c] = NoLimit]
    /\ intakeLock' = intakeLock \ {c}

\* Is there a limit at all? Without one nobody queues for the lock.
AskLimit(c) ==
    /\ stage[c] = "away" /\ order[c] = "draft"
    /\ Reaches(c, IF intake.limit = NoLimit THEN "free" ELSE "queueing")
    /\ UNCHANGED <<intake, date, order, told, intakeLock, unguarded>>

\* Mutant of TakeIntakeLock: everybody goes on at once.
PassIntakeLock(c) ==
    /\ stage[c] = "queueing"
    /\ intakeLock' = intakeLock \cup {c}
    /\ Reaches(c, "guarded")
    /\ UNCHANGED <<intake, date, order, told, unguarded>>

TakeIntakeLock(c) ==
    /\ stage[c] = "queueing" /\ intakeLock = {}
    /\ intakeLock' = intakeLock \cup {c}
    /\ Reaches(c, "guarded")
    /\ UNCHANGED <<intake, date, order, told, unguarded>>

\* check reads the settings once more: closed, open without a limit, or up to the count.
CheckSettings(c) ==
    /\ stage[c] \in {"free", "guarded"}
    /\ \/ IsPaused /\ Ends(c)
       \/ /\ ~IsPaused
          /\ Reaches(c, IF intake.limit = NoLimit THEN "open" ELSE "counting")
          /\ told' = [told EXCEPT ![c] = intake.limit]
          /\ UNCHANGED intakeLock
    /\ UNCHANGED <<intake, date, order, unguarded>>

CountLoad(c) ==
    /\ stage[c] = "counting"
    /\ \/ /\ Cardinality(InWork) < told[c]
          /\ Reaches(c, "open")
          /\ UNCHANGED <<told, intakeLock>>
       \/ Cardinality(InWork) >= told[c] /\ Ends(c)
    /\ UNCHANGED <<intake, date, order, unguarded>>

\* The rest of submit and of the update, and the commit.
CommitOrder(c) ==
    /\ stage[c] = "open"
    /\ order' = [order EXCEPT ![c] = "waiting"]
    /\ unguarded' = IF c \in intakeLock THEN unguarded ELSE unguarded \cup {c}
    /\ Ends(c)
    /\ UNCHANGED <<intake, date>>

\* Refused further on (prices, delivery), or the update fails.
RollbackOrder(c) ==
    /\ stage[c] # "away"
    /\ Ends(c)
    /\ UNCHANGED <<intake, date, order, unguarded>>

------------------------------------------------------------------------------
(* What else moves orders and settings. None of it takes the lock.          *)

Moves(c, from, to) ==
    /\ order[c] = from
    /\ order' = [order EXCEPT ![c] = to]
    /\ UNCHANGED <<intake, date, stage, told, intakeLock>>

\* Paid, expired, made or cancelled: out of the count, or still in it.
OrderGoesOn(c) ==
    /\ \/ Moves(c, "waiting", "queued")
       \/ Moves(c, "waiting", "expired")
       \/ Moves(c, "queued", "ready")
    /\ unguarded' = IF order'[c] = "queued" THEN unguarded ELSE unguarded \ {c}

\* A payment after the deadline, or a ready card put back: "the limit is not checked here"
\* (orders.py:648).
OrderComesBack(c) ==
    /\ Moves(c, "expired", "queued") \/ Moves(c, "ready", "queued")
    /\ unguarded' = unguarded \cup {c}

SaveIntake(accepting, resumeOn, limit) ==
    /\ intake' = [accepting |-> accepting, resumeOn |-> resumeOn, limit |-> limit]
    /\ UNCHANGED <<date, order, stage, told, intakeLock, unguarded>>

\* External: midnight. A pause with a date ends by itself.
NextDate ==
    /\ date < LastDate
    /\ date' = date + 1
    /\ UNCHANGED <<intake, order, stage, told, intakeLock, unguarded>>

IntakeNext ==
    \/ \E c \in Clients :
        \/ AskLimit(c) \/ TakeIntakeLock(c) \/ CheckSettings(c) \/ CountLoad(c)
        \/ CommitOrder(c) \/ RollbackOrder(c) \/ OrderGoesOn(c) \/ OrderComesBack(c)
    \/ \E accepting \in BOOLEAN, resumeOn \in {LastDate, Never}, limit \in Limits :
        SaveIntake(accepting, resumeOn, limit)
    \/ NextDate

IntakeSpec == IntakeInit /\ [][IntakeNext]_intakeVars

------------------------------------------------------------------------------
(* Properties. *)

\* Types; the lock has at most one holder, and whoever is past it holds it.
IntakeOK ==
    /\ intake \in [accepting : BOOLEAN, resumeOn : 0..Never, limit : Limits]
    /\ order \in [Clients -> {"draft", "waiting", "queued", "expired", "ready"}]
    /\ stage \in [Clients -> {"away", "queueing", "free", "guarded", "counting", "open"}]
    /\ told \in [Clients -> Limits]
    /\ unguarded \subseteq {c \in Clients : order[c] \in {"waiting", "queued"}}
    /\ intakeLock \subseteq Clients
    /\ Cardinality(intakeLock) <= 1
    /\ \A c \in Clients : stage[c] = "guarded" => c \in intakeLock

\* A free place is sold once. When an order that was counted under the lock commits, the
\* orders in work are within the limit it was counted against, apart from those that never
\* pass the lock: late payments, returned cards and customers who began before there was a
\* limit. ("Otherwise two would see the one free place and both would take it",
\* intake.py:120; the orders that wait for payment are in the count "otherwise the limit
\* could turn out exceeded at the moment of the payment", intake.py:6.)
PlaceSoldOnce ==
    [][\A c \in Clients :
        order[c] = "draft" /\ order'[c] # "draft" /\ c \notin unguarded' /\ told[c] # NoLimit =>
            Cardinality({d \in Clients : order'[d] \in {"waiting", "queued"}} \ unguarded')
                <= told[c]]_intakeVars
=============================================================================
