--------------------------- MODULE NightlyRefresh ---------------------------
(***************************************************************************)
(* When the directories of pickup points are refreshed (worker/tasks/        *)
(* pickup.py): every night a task asks which carriers are due and takes them *)
(* one after another. Each run of a carrier is a run of module PickupSync;   *)
(* here only its end counts, and how much time has passed.                   *)
(***************************************************************************)
EXTENDS Naturals, Sequences, FiniteSets

CONSTANTS
    Carriers,       \* SOURCES, in the order of the dictionary: a sequence
    Day,            \* hours are counted in ticks, so many a day; a night begins at tick 0
    RefreshEvery,   \* REFRESH_EVERY = 6.5 days, in ticks
    LongestRun,     \* bound: ticks from the start of the task to the end of its last run
    MostLost        \* bound: nights lost in a row by one carrier

ASSUME CarriersAssumption == Carriers \in Seq({Carriers[i] : i \in DOMAIN Carriers})
ASSUME NightsAssumption ==
    /\ Day \in Nat \ {0} /\ RefreshEvery \in Nat
    /\ LongestRun \in 0..(Day - 1) /\ MostLost \in Nat

VARIABLES
    hour,           \* tick of the day
    agenda,         \* due: the carriers the task of this night has yet to run
    asked,          \* whether the task of this night has begun
    age,            \* per carrier: ticks since pickup_points_synced_at
    lost            \* history, per carrier: nights it was due and did not get through

nightVars == <<hour, agenda, asked, age, lost>>

AllCarriers == {Carriers[i] : i \in DOMAIN Carriers}

NightInit ==
    /\ hour = 0
    /\ agenda = <<>>
    /\ asked = FALSE
    /\ age = [c \in AllCarriers |-> 0]
    /\ lost = [c \in AllCarriers |-> 0]

\* Mutant of IsDue: a week is a week.
IsDueWeek(c) == age[c] > 7 * Day

\* providers_due: synced before now - REFRESH_EVERY.
IsDue(c) == age[c] > RefreshEvery

\* A carrier's place in the dictionary.
Turn(c) == CHOOSE i \in DOMAIN Carriers : Carriers[i] = c

\* Cron, at 0:40: the due ones, in the order of the dictionary.
NightTask ==
    LET due == {c \in AllCarriers : IsDue(c)}
    IN /\ hour = 0 /\ ~asked
       /\ asked' = TRUE
       /\ agenda' \in {list \in [1..Cardinality(due) -> due] :
                          \A i, j \in DOMAIN list : i < j => Turn(list[i]) < Turn(list[j])}
       /\ UNCHANGED <<hour, age, lost>>

SyncSucceeds ==
    /\ agenda # <<>>
    /\ age' = [age EXCEPT ![Head(agenda)] = 0]
    /\ lost' = [lost EXCEPT ![Head(agenda)] = 0]
    /\ agenda' = Tail(agenda)
    /\ UNCHANGED <<hour, asked>>

\* The alert is written and the loop goes on with the next carrier.
SyncFails ==
    /\ agenda # <<>> /\ lost[Head(agenda)] < MostLost
    /\ lost' = [lost EXCEPT ![Head(agenda)] = @ + 1]
    /\ agenda' = Tail(agenda)
    /\ UNCHANGED <<hour, asked, age>>

\* The worker is restarted in the middle: what is left is lost for this night.
WorkerRestarts ==
    LET rest == {agenda[i] : i \in DOMAIN agenda}
    IN /\ agenda # <<>> /\ \A c \in rest : lost[c] < MostLost
       /\ lost' = [c \in AllCarriers |-> IF c \in rest THEN lost[c] + 1 ELSE lost[c]]
       /\ agenda' = <<>>
       /\ UNCHANGED <<hour, asked, age>>

\* External: time. The task is not late, and ends within LongestRun.
HourPasses ==
    /\ hour = 0 => asked
    /\ agenda # <<>> => hour < LongestRun
    /\ hour' = (hour + 1) % Day
    /\ asked' = (asked /\ hour' # 0)
    /\ age' = [c \in AllCarriers |-> age[c] + 1]
    /\ UNCHANGED <<agenda, lost>>

NightNext == NightTask \/ SyncSucceeds \/ SyncFails \/ WorkerRestarts \/ HourPasses

NightSpec == NightInit /\ [][NightNext]_nightVars

\* Every directory is a week old at most, and the length of a night's task; each night on
\* which the carrier itself failed, or the worker died before it, costs one day and not a
\* week ("the next attempt is tomorrow night"; "a little less than a week: the nightly start
\* must not miss by some minutes", pickup.py:26). Another carrier's failure costs nothing.
WeekOldAtMost ==
    \A c \in AllCarriers : age[c] <= 7 * Day + LongestRun + Day * lost[c]
=============================================================================
