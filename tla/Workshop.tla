------------------------------ MODULE Workshop ------------------------------
(***************************************************************************)
(* When orders will be ready: the working calendar (core/workdays.py), its  *)
(* use by the board, the statistics and the intake (core/services/board.py, *)
(* analytics.py, intake.py), over a queue that is paid into, left and       *)
(* rearranged while days pass and the owner edits the calendar.             *)
(*                                                                          *)
(* Days are numbers, day 0 a Monday. An entry of the queue carries what the *)
(* dates depend on; the queue is a sequence, so its places are 1..N (module *)
(* Board is about the places themselves). The calendar of the settings      *)
(* always has a daily capacity (core/schemas/settings.py:50), so the branch *)
(* of compute_ready_dates without one is not reached and not modelled.      *)
(***************************************************************************)
EXTENDS Integers, Sequences, FiniteSets, SequencesExt

CONSTANTS
    Calendars,      \* records: weekdays, holidays, video and plain boxes per day
    FirstCalendar,  \* the calendar before the owner edits it
    Baskets,        \* what an order consists of: video and plain boxes, days to make
    LeadDays,       \* values of extra_lead_days the owner sets
    Lookahead,      \* _MAX_DAYS_LOOKAHEAD
    MaxLine,        \* bound: orders in the queue
    LastDay         \* bound: days that pass

ASSUME CalendarsAssumption ==
    /\ FirstCalendar \in Calendars
    /\ \A c \in Calendars :
        /\ c.weekdays \in (SUBSET (0..6)) \ {{}}
        /\ c.holidays \subseteq Nat
        /\ c.video \in 1..50 /\ c.plain \in 1..50
ASSUME BasketsAssumption ==
    \A b \in Baskets :
        /\ b.video \in Nat /\ b.plain \in Nat /\ b.video + b.plain > 0
        /\ b.days \in Nat \ {0}
ASSUME LookaheadAssumption == Lookahead \in Nat \ {0} /\ LeadDays \in SUBSET Nat

VARIABLES
    calendar,       \* settings: WORKING_CALENDAR
    today,          \* today_moscow()
    line            \* the orders of the queue, by queue_position

workshopVars == <<calendar, today, line>>

------------------------------------------------------------------------------
(* The calendar.                                                            *)

Refused == -1       \* ValidationError instead of a date

IsWorking(day, cal) == day % 7 \in cal.weekdays /\ day \notin cal.holidays

EnsureWorkingDay(day, cal) ==
    LET reach == day..(day + Lookahead - 1)
    IN IF \E d \in reach : IsWorking(d, cal)
       THEN CHOOSE d \in reach : IsWorking(d, cal) /\ \A e \in day..(d - 1) : ~IsWorking(e, cal)
       ELSE Refused

NextWorkingDay(day, cal) ==
    IF day = Refused THEN Refused ELSE EnsureWorkingDay(day + 1, cal)

ShiftWorkingDays(start, days, cal) ==
    LET shifted[n \in 0..days] ==
            IF n = 0 THEN EnsureWorkingDay(start, cal)
                     ELSE NextWorkingDay(shifted[n - 1], cal)
    IN IF start = Refused \/ days < 0 THEN Refused ELSE shifted[days]

EarliestReady(entry, cal) ==
    ShiftWorkingDays(NextWorkingDay(entry.start, cal), entry.days - 1, cal)

Later(d, e) == IF Refused \in {d, e} THEN Refused ELSE IF d > e THEN d ELSE e

------------------------------------------------------------------------------
(* Boxes are laid out day by day, within what the workshop makes in a day.   *)

\* The least common multiple of the two limits.
DayUnits(cal) ==
    cal.video * CHOOSE j \in 1..cal.plain :
        /\ (cal.video * j) % cal.plain = 0
        /\ \A i \in 1..(j - 1) : (cal.video * i) % cal.plain # 0

BoxUnits(withVideo, cal) == DayUnits(cal) \div (IF withVideo THEN cal.video ELSE cal.plain)

\* Mutant of BoxesOf: the boxes with a video are made first, whosever they are.
VideoFirst(q) ==
    LET made(withVideo) ==
            LET upTo[i \in 0..Len(q)] ==
                    IF i = 0 THEN <<>>
                    ELSE upTo[i - 1] \o [b \in 1..(IF withVideo THEN q[i].video ELSE q[i].plain) |->
                                            [order |-> i, withVideo |-> withVideo]]
            IN upTo[Len(q)]
    IN made(TRUE) \o made(FALSE)

\* The boxes of the queue in the order they are made: whose, and with a video or not.
BoxesOf(q) ==
    LET upTo[i \in 0..Len(q)] ==
            IF i = 0 THEN <<>>
            ELSE upTo[i - 1] \o [b \in 1..(q[i].video + q[i].plain) |->
                                    [order |-> i, withVideo |-> b <= q[i].video]]
    IN upTo[Len(q)]

\* Mutant of NextSlot: a day is closed one box early.
NextSlotEarly(slot, units, cal) ==
    IF slot.used + units >= DayUnits(cal)
    THEN [day |-> NextWorkingDay(slot.day, cal), used |-> units]
    ELSE [slot EXCEPT !.used = @ + units]

\* Where the next box goes after the last one: [day, units used on that day].
NextSlot(slot, units, cal) ==
    IF slot.used + units > DayUnits(cal)
    THEN [day |-> NextWorkingDay(slot.day, cal), used |-> units]
    ELSE [slot EXCEPT !.used = @ + units]

\* The slots of the boxes, from the first working day on. Each is taken from a set of one,
\* so that TLC evaluates it once.
Slots(boxes, cal, now) ==
    LET start == [day |-> EnsureWorkingDay(now, cal), used |-> 0]
        After(before, k) ==
            Append(before, NextSlot(IF k = 1 THEN start ELSE before[k - 1],
                                    BoxUnits(boxes[k].withVideo, cal), cal))
        laid[k \in 0..Len(boxes)] ==
            IF k = 0 THEN <<>>
            ELSE CHOOSE slots \in {After(before, k) : before \in {laid[k - 1]}} : TRUE
    IN laid[Len(boxes)]

PlannedDays(q, cal, now) ==
    LET boxes == BoxesOf(q)
        slots == Slots(boxes, cal, now)
        Ends(i) == CHOOSE k \in DOMAIN boxes :
            boxes[k].order = i /\ \A j \in DOMAIN boxes : boxes[j].order = i => j <= k
    IN [i \in DOMAIN q |-> slots[Ends(i)].day]

ReadyDates(q, cal, now) ==
    LET planned == PlannedDays(q, cal, now)
    IN [i \in DOMAIN q |-> Later(planned[i], EarliestReady(q[i], cal))]

\* One order without a date and none gets one: the error leaves compute_ready_dates.
Dated(dates) == \A i \in DOMAIN dates : dates[i] # Refused

ReadyNow == ReadyDates(line, calendar, today)

IsLate(entry, ready) == entry.promised # Refused /\ ready > entry.promised

------------------------------------------------------------------------------
(* The same queue as the statistics and the intake lay it out. The plan of  *)
(* the statistics page has loops of its own: where its cursor is and what is *)
(* used of that day, the boxes with their days, and the days of the orders.   *)

\* Mutant of Book: a new day does not begin empty.
BookOnTop(plan, withVideo, cal) ==
    LET units == BoxUnits(withVideo, cal)
        full  == plan.used + units > DayUnits(cal)
        day   == IF full THEN NextWorkingDay(plan.cursor, cal) ELSE plan.cursor
    IN [cursor |-> day, used |-> plan.used + units,
        made |-> Append(plan.made, [day |-> day, withVideo |-> withVideo]), ready |-> plan.ready]

\* One more box is put down.
Book(plan, withVideo, cal) ==
    LET units == BoxUnits(withVideo, cal)
        full  == plan.used + units > DayUnits(cal)
        day   == IF full THEN NextWorkingDay(plan.cursor, cal) ELSE plan.cursor
    IN [cursor |-> day, used |-> IF full THEN units ELSE plan.used + units,
        made |-> Append(plan.made, [day |-> day, withVideo |-> withVideo]), ready |-> plan.ready]

\* The inner loop, the boxes of one order: those with a video first. The order is listed on
\* the day the cursor is left on.
PlanEntry(plan, entry, cal) ==
    LET n == entry.video + entry.plain
        booked[b \in 0..n] ==
            IF b = 0 THEN plan
            ELSE CHOOSE p \in {Book(before, b <= entry.video, cal) : before \in {booked[b - 1]}} : TRUE
        Listed(p) == [p EXCEPT !.ready = Append(@, p.cursor)]
    IN Listed(booked[n])

\* production_plan: the outer loop.
ProductionPlan(q, cal, now) ==
    LET planned[i \in 0..Len(q)] ==
            IF i = 0 THEN [cursor |-> EnsureWorkingDay(now, cal), used |-> 0,
                           made |-> <<>>, ready |-> <<>>]
            ELSE CHOOSE p \in {PlanEntry(before, q[i], cal) : before \in {planned[i - 1]}} : TRUE
    IN planned[Len(q)]

\* next_free: the day on which one more box would be made.
NextFree(plan, withVideo, cal) ==
    IF plan.used + BoxUnits(withVideo, cal) <= DayUnits(cal)
    THEN plan.cursor ELSE NextWorkingDay(plan.cursor, cal)

Sorted(dates) ==
    LET n == Len(dates)
        p == CHOOSE p \in Bijection(1..n, 1..n) :
                \A i \in 1..n, j \in 1..n : i < j => dates[p[i]] <= dates[p[j]]
    IN [i \in 1..n |-> dates[p[i]]]

\* Mutant of FreeSlotDate: one order too few has to be finished.
FreeSlotDateEarly(dates, load, limit, cal) ==
    LET ordered == Sorted(dates)
        need    == load - limit
    IN IF need <= 0 \/ need > Len(ordered) THEN Refused
       ELSE NextWorkingDay(ordered[need], cal)

\* Refused stands for None: nothing to wait for, or nothing to count on.
FreeSlotDate(dates, load, limit, cal) ==
    LET ordered == Sorted(dates)
        need    == load - limit + 1
    IN IF need <= 0 \/ need > Len(ordered) THEN Refused
       ELSE NextWorkingDay(ordered[need], cal)

PromisedDate(ready, lead, cal) ==
    IF lead <= 0 THEN ready ELSE ShiftWorkingDays(ready, lead, cal)

------------------------------------------------------------------------------
(* The queue lives.                                                         *)

NewEntry(basket) ==
    [video |-> basket.video, plain |-> basket.plain, days |-> basket.days,
     start |-> today, promised |-> Refused, excused |-> FALSE]

\* What the summary shows before the payment.
EstimateSpot(basket) == LET q == Append(line, NewEntry(basket)) IN ReadyDates(q, calendar, today)[Len(q)]

\* Mutant of PayInto: the date is promised from the term alone, as if nobody were waiting.
PayByTerm(basket, lead) ==
    LET q    == Append(line, NewEntry(basket))
        told == PromisedDate(EarliestReady(NewEntry(basket), calendar), lead, calendar)
    IN /\ Len(line) < MaxLine
       /\ told # Refused
       /\ line' = [q EXCEPT ![Len(q)].promised = told]
       /\ UNCHANGED <<calendar, today>>

\* A payment puts the order at the end and fixes the date the customer is told, with the
\* lead days that are set at that moment. An error rolls the payment back.
PayInto(basket, lead) ==
    LET q     == Append(line, NewEntry(basket))
        dates == ReadyDates(q, calendar, today)
        told  == PromisedDate(dates[Len(q)], lead, calendar)
    IN /\ Len(line) < MaxLine
       /\ Dated(dates)
       /\ told # Refused
       /\ line' = [q EXCEPT ![Len(q)].promised = told]
       /\ UNCHANGED <<calendar, today>>

\* Finished or cancelled: those behind move up.
LeaveLine(i) ==
    /\ line' = RemoveAt(line, i)
    /\ UNCHANGED <<calendar, today>>

\* "excused" marks orders whose date may rightly have moved since it was promised.
Excused(q) == [i \in DOMAIN q |-> [q[i] EXCEPT !.excused = TRUE]]

\* The owner changes the places of two cards.
SwapCards(i) ==
    /\ i + 1 \in DOMAIN line
    /\ line' = Excused([line EXCEPT ![i] = line[i + 1], ![i + 1] = line[i]])
    /\ UNCHANGED <<calendar, today>>

SaveCalendar(cal) ==
    /\ calendar' = cal
    /\ line' = Excused(line)
    /\ UNCHANGED today

\* External: midnight. A working day that ends with boxes in the queue has cost a day.
DayPasses ==
    /\ today < LastDay
    /\ today' = today + 1
    /\ line' = IF IsWorking(today, calendar) THEN Excused(line) ELSE line
    /\ UNCHANGED calendar

WorkshopInit ==
    /\ calendar = FirstCalendar
    /\ today = 0
    /\ line = <<>>

WorkshopNext ==
    \/ \E b \in Baskets, lead \in LeadDays : PayInto(b, lead)
    \/ \E i \in DOMAIN line : LeaveLine(i)
    \/ \E i \in DOMAIN line : SwapCards(i)
    \/ \E c \in Calendars : SaveCalendar(c)
    \/ DayPasses

------------------------------------------------------------------------------
(* Properties.                                                              *)

\* A day never gets more boxes than the workshop makes: "2 with a video or 4 without"
\* (workdays.py:29) means that video/videoPerDay + plain/plainPerDay of them is at most one
\* day. Nor is a working day skipped or left while the next box still fits into it.
QueueFitsDays ==
    LET boxes == BoxesOf(line)
        slots == Slots(boxes, calendar, today)
        On(d, video) == Cardinality({k \in DOMAIN boxes : slots[k].day = d /\ boxes[k].withVideo = video})
        Fits(v, p) == v * calendar.plain + p * calendar.video <= calendar.video * calendar.plain
    IN (\A k \in DOMAIN boxes : slots[k].day # Refused) =>
        /\ \A k \in DOMAIN boxes :
            /\ IsWorking(slots[k].day, calendar)
            /\ slots[k].day >= today
            /\ Fits(On(slots[k].day, TRUE), On(slots[k].day, FALSE))
        /\ \A k \in 1..(Len(boxes) - 1) :
            LET day == slots[k].day
                next == slots[k + 1].day
                One(video) == IF boxes[k + 1].withVideo = video THEN 1 ELSE 0
            IN day # next =>
                /\ ~\E d \in (day + 1)..(next - 1) : IsWorking(d, calendar)
                /\ ~Fits(On(day, TRUE) + One(TRUE), On(day, FALSE) + One(FALSE))

\* The date the refused customer is told (intake.py:51) is the first working day on which
\* enough orders are ready for one more to fit under the limit, whoever else waits for payment.
FreeSlotIsFirst ==
    LET ready == ReadyNow
    IN Dated(ready) =>
        \A unpaid \in 0..1, limit \in 1..MaxLine :
            LET load    == Len(line) + unpaid
                told    == FreeSlotDate(ready, load, limit, calendar)
                Free(d) == load - Cardinality({i \in DOMAIN line : ready[i] < d}) < limit
            IN told # Refused =>
                /\ Free(told) /\ IsWorking(told, calendar) /\ ~Free(today)
                /\ ~\E d \in today..(told - 1) : Free(d) /\ IsWorking(d, calendar)

\* The plan of the statistics page, which has its own loop, is the layout the dates come from
\* ("так же, как это делает расчёт дат готовности", analytics.py:85): a day is shown with the
\* boxes that are made on it, an order is ready on the day it is listed or when its term is
\* over, and the day shown as free for one more box is the one the summary offers a customer.
PlanIsTheBoards ==
    LET plan  == ProductionPlan(line, calendar, today)
        boxes == BoxesOf(line)
        slots == Slots(boxes, calendar, today)
        ready == ReadyNow
        days  == {slots[k].day : k \in DOMAIN boxes} \cup {plan.made[k].day : k \in DOMAIN plan.made}
        Shown(d, video) == {k \in DOMAIN plan.made : plan.made[k] = [day |-> d, withVideo |-> video]}
        On(d, video) == {k \in DOMAIN boxes : slots[k].day = d /\ boxes[k].withVideo = video}
    IN  /\ \A d \in days, video \in BOOLEAN : Cardinality(Shown(d, video)) = Cardinality(On(d, video))
        /\ \A i \in DOMAIN line :
            ready[i] = Later(plan.ready[i], EarliestReady(line[i], calendar))
        /\ \A b \in Baskets : b.video + b.plain = 1 =>
            EstimateSpot(b) = Later(NextFree(plan, b.video = 1, calendar),
                                    EarliestReady(NewEntry(b), calendar))

\* An order is behind the date its customer was told (workdays.py:171) only if a working day
\* passed, the owner changed the calendar or moved cards since then: payments and cancels of
\* others never make it late.
LateForAReason ==
    LET ready == ReadyNow
    IN Dated(ready) => \A i \in DOMAIN line : line[i].excused \/ ~IsLate(line[i], ready[i])

\* What others do to the date of an order, under one calendar. A payment moves nobody; an
\* order that leaves delays nobody behind it, whatever mixture of boxes it held; a day off
\* moves nothing, and a working day that passes costs at most one working day.
OthersDelayNobody ==
    LET ready == ReadyNow
    IN Dated(ready) =>
        /\ \A b \in Baskets :
            LET more == ReadyDates(Append(line, NewEntry(b)), calendar, today)
            IN \A i \in DOMAIN line : more[i] = ready[i]
        /\ \A i \in DOMAIN line :
            LET less == ReadyDates(RemoveAt(line, i), calendar, today)
            IN \A j \in DOMAIN less : less[j] <= ready[IF j < i THEN j ELSE j + 1]
        /\ LET next == ReadyDates(line, calendar, today + 1)
           IN Dated(next) => \A i \in DOMAIN line :
                IF IsWorking(today, calendar)
                THEN next[i] \in {ready[i], NextWorkingDay(ready[i], calendar)}
                ELSE next[i] = ready[i]

WorkshopSpec == WorkshopInit /\ [][WorkshopNext]_workshopVars
=============================================================================
