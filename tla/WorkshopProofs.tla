--------------------------- MODULE WorkshopProofs ---------------------------
(***************************************************************************)
(* Theorems about module Workshop, for every queue, every mixture of boxes    *)
(* and every calendar of the settings: a day holds what the workshop makes   *)
(* in a day; an order is late only for a reason, and others delay nobody;     *)
(* the plan of the statistics page, which has a loop of its own, is the       *)
(* layout the dates come from, and the date a refused customer is told is the *)
(* first.                                                                    *)
(*                                                                          *)
(* Boxes are followed one by one (CountingUp): T tells how many boxes the     *)
(* first orders have (Laid), PlaceAt where a box goes, each after the one     *)
(* before it (PlacesAre). Two queues are compared box by box: NotAfter orders *)
(* places on one row of working days and is kept by the next box              *)
(* (NotAfterKept), so a queue without an order is nowhere later. WorkshopInv  *)
(* says that every order that may not have moved keeps the date it was told.  *)
(***************************************************************************)
EXTENDS Workshop, Counting, FunctionTheorems, SequenceTheorems

-----------------------------------------------------------------------------
(* The working calendar. *)

Days == Nat \cup {Refused}

\* The first working day from a day on, if it comes soon enough.
LEMMA EnsureIs ==
    ASSUME NEW cal, NEW day \in Nat
    PROVE  /\ EnsureWorkingDay(day, cal) \in Days
           /\ EnsureWorkingDay(day, cal) = Refused <=>
                \A d \in day..(day + Lookahead - 1) : ~IsWorking(d, cal)
           /\ EnsureWorkingDay(day, cal) # Refused =>
                /\ EnsureWorkingDay(day, cal) \in day..(day + Lookahead - 1)
                /\ IsWorking(EnsureWorkingDay(day, cal), cal)
                /\ \A e \in day..(EnsureWorkingDay(day, cal) - 1) : ~IsWorking(e, cal)
<1> DEFINE reach == day..(day + Lookahead - 1)
           Is(d) == d \in reach /\ IsWorking(d, cal) /\ \A e \in day..(d - 1) : ~IsWorking(e, cal)
<1>1. CASE \A d \in reach : ~IsWorking(d, cal)
  <2>1. EnsureWorkingDay(day, cal) = Refused
    BY <1>1 DEF EnsureWorkingDay
  <2> QED BY <1>1, <2>1 DEF Days
<1>2. CASE \E d \in reach : IsWorking(d, cal)
  <2>1. \E d : Is(d)
    <3> SUFFICES ASSUME \A d : ~ Is(d) PROVE FALSE
      OBVIOUS
    <3> DEFINE G == {n \in Nat : \A e \in day..(day + n - 1) : ~IsWorking(e, cal)}
    <3>1. 0 \in G
      OBVIOUS
    <3>2. \A n \in 0..(Lookahead - 1) : n \in G => n + 1 \in G
      <4> TAKE n \in 0..(Lookahead - 1)
      <4> HAVE n \in G
      <4>1. day + n \in reach
        BY LookaheadAssumption
      <4>2. ~ Is(day + n)
        OBVIOUS
      <4>3. ~ IsWorking(day + n, cal)
        BY <4>1, <4>2
      <4>4. \A e \in day..(day + (n + 1) - 1) : e = day + n \/ e \in day..(day + n - 1)
        BY LookaheadAssumption
      <4> QED BY <4>3, <4>4, LookaheadAssumption
    <3> HIDE DEF G
    <3>3. \A n \in 0..Lookahead : n \in G
      BY <3>1, <3>2, LookaheadAssumption, CountingUp
    <3>4. Lookahead \in G
      BY <3>3, LookaheadAssumption
    <3> QED BY <1>2, <3>4, LookaheadAssumption DEF G
  <2>2. EnsureWorkingDay(day, cal) = CHOOSE d \in reach : IsWorking(d, cal) /\ \A e \in day..(d - 1) : ~IsWorking(e, cal)
    BY <1>2 DEF EnsureWorkingDay
  <2>3. Is(EnsureWorkingDay(day, cal))
    BY <2>1, <2>2
  <2>4. EnsureWorkingDay(day, cal) \in Nat /\ EnsureWorkingDay(day, cal) # Refused
    BY <2>3, LookaheadAssumption DEF Refused
  <2> QED BY <1>2, <2>3, <2>4 DEF Days
<1> QED BY <1>1, <1>2

\* The day after, on which the workshop works.
LEMMA NextIs ==
    ASSUME NEW cal, NEW d \in Days
    PROVE  /\ NextWorkingDay(d, cal) \in Days
           /\ d = Refused => NextWorkingDay(d, cal) = Refused
           /\ d # Refused /\ NextWorkingDay(d, cal) # Refused =>
                /\ NextWorkingDay(d, cal) > d /\ NextWorkingDay(d, cal) <= d + Lookahead
                /\ IsWorking(NextWorkingDay(d, cal), cal)
                /\ \A e \in (d + 1)..(NextWorkingDay(d, cal) - 1) : ~IsWorking(e, cal)
           /\ d # Refused /\ NextWorkingDay(d, cal) = Refused =>
                \A e \in (d + 1)..(d + Lookahead) : ~IsWorking(e, cal)
<1>1. CASE d = Refused
  BY <1>1 DEF NextWorkingDay, Days
<1>2. CASE d # Refused
  <2>1. d \in Nat /\ d + 1 \in Nat /\ (d + 1) + Lookahead - 1 = d + Lookahead
    BY <1>2, LookaheadAssumption DEF Days
  <2>2. PICK w : w = EnsureWorkingDay(d + 1, cal)
    OBVIOUS
  <2>3. NextWorkingDay(d, cal) = w
    BY <1>2, <2>2 DEF NextWorkingDay
  <2>4. /\ w \in Days
        /\ w = Refused <=> \A e \in (d + 1)..(d + Lookahead) : ~IsWorking(e, cal)
        /\ w # Refused => /\ w \in (d + 1)..(d + Lookahead) /\ IsWorking(w, cal)
                          /\ \A e \in (d + 1)..(w - 1) : ~IsWorking(e, cal)
    BY <2>1, <2>2, EnsureIs
  <2> QED BY <1>2, <2>1, <2>3, <2>4
<1> QED BY <1>1, <1>2

\* From d on the working days follow each other closely enough to get to e.
Leads(d, e, cal) == d <= e /\ \A x \in d..(e - 1) : NextWorkingDay(x, cal) # Refused

\* A working day leads to the next one.
LEMMA LeadsToNext ==
    ASSUME NEW cal, NEW d \in Nat, NextWorkingDay(d, cal) # Refused
    PROVE  NextWorkingDay(d, cal) \in Nat /\ Leads(d, NextWorkingDay(d, cal), cal)
<1>1. PICK w : w = NextWorkingDay(d, cal)
  OBVIOUS
<1>2. w \in Nat /\ w > d /\ w <= d + Lookahead /\ IsWorking(w, cal)
  BY <1>1, NextIs DEF Days
<1>3. ASSUME NEW x \in d..(w - 1) PROVE NextWorkingDay(x, cal) # Refused
  <2>1. x \in Nat /\ x \in Days /\ x # Refused
    BY <1>2 DEF Days, Refused
  <2>2. w \in (x + 1)..(x + Lookahead)
    BY <1>2, <2>1, LookaheadAssumption
  <2> QED BY <1>2, <2>1, <2>2, NextIs
<1> QED BY <1>1, <1>2, <1>3 DEF Leads

\* Nor is the next working day passed over on the way to another.
LEMMA NextOnTheWay ==
    ASSUME NEW cal, NEW d \in Nat, NEW e \in Nat, d < e, Leads(d, e, cal), IsWorking(e, cal)
    PROVE  /\ NextWorkingDay(d, cal) \in Nat /\ NextWorkingDay(d, cal) # Refused
           /\ NextWorkingDay(d, cal) > d
           /\ NextWorkingDay(d, cal) <= e
           /\ Leads(NextWorkingDay(d, cal), e, cal)
<1>1. PICK w : w = NextWorkingDay(d, cal)
  OBVIOUS
<1>2. d \in d..(e - 1)
  OBVIOUS
<1>3. w # Refused
  BY <1>1, <1>2 DEF Leads
<1>4. d \in Days /\ d # Refused
  BY DEF Days, Refused
<1>5. w \in Nat /\ w > d /\ \A x \in (d + 1)..(w - 1) : ~IsWorking(x, cal)
  BY <1>1, <1>3, <1>4, NextIs DEF Days
<1>6. w <= e
  <2>1. e \notin (d + 1)..(w - 1)
    BY <1>5
  <2> QED BY <1>5, <2>1
<1>7. \A x \in w..(e - 1) : x \in d..(e - 1)
  BY <1>5
<1>8. Leads(w, e, cal)
  BY <1>6, <1>7 DEF Leads
<1> QED BY <1>1, <1>3, <1>5, <1>6, <1>8

LEMMA LeadsOn ==
    ASSUME NEW cal, NEW d \in Nat, NEW e \in Nat, NEW f \in Nat, Leads(d, e, cal), Leads(e, f, cal)
    PROVE  Leads(d, f, cal)
<1>1. \A x \in d..(f - 1) : x \in d..(e - 1) \/ x \in e..(f - 1)
  OBVIOUS
<1> QED BY <1>1 DEF Leads

-----------------------------------------------------------------------------
(* A place of a box: a day and the units used on it. *)

Places == [day : Days, used : Nat]

\* Of two places on one row of working days the first is not after the second.
NotAfter(a, b, cal) ==
    \/ b.day = Refused
    \/ /\ a.day # Refused /\ b.day # Refused
       /\ IsWorking(b.day, cal)
       /\ Leads(a.day, b.day, cal)
       /\ a.day = b.day => a.used <= b.used

\* The place after the last one.
LEMMA NextPlace ==
    ASSUME NEW cal, NEW a \in Places, NEW u \in Nat
    PROVE  /\ NextSlot(a, u, cal) \in Places
           /\ a.used + u > DayUnits(cal) =>
                NextSlot(a, u, cal).day = NextWorkingDay(a.day, cal) /\ NextSlot(a, u, cal).used = u
           /\ ~ (a.used + u > DayUnits(cal)) =>
                NextSlot(a, u, cal).day = a.day /\ NextSlot(a, u, cal).used = a.used + u
<1>1. a.day \in Days /\ a.used \in Nat
  BY DEF Places
<1>2. PICK w \in Days : w = NextWorkingDay(a.day, cal)
  BY <1>1, NextIs
<1>3. CASE a.used + u > DayUnits(cal)
  <2>1. NextSlot(a, u, cal) = [day |-> w, used |-> u]
    BY <1>2, <1>3 DEF NextSlot
  <2> QED BY <1>2, <1>3, <2>1 DEF Places
<1>4. CASE ~ (a.used + u > DayUnits(cal))
  <2>1. NextSlot(a, u, cal) = [a EXCEPT !.used = @ + u]
    BY <1>4 DEF NextSlot
  <2>2. /\ [a EXCEPT !.used = @ + u] \in Places
        /\ [a EXCEPT !.used = @ + u].day = a.day /\ [a EXCEPT !.used = @ + u].used = a.used + u
    BY <1>1 DEF Places
  <2> QED BY <1>4, <2>1, <2>2
<1> QED BY <1>3, <1>4

\* The same box goes no later behind a queue that is not longer.
LEMMA NotAfterKept ==
    ASSUME NEW cal, NEW a \in Places, NEW b \in Places, NEW u \in Nat, NotAfter(a, b, cal),
           DayUnits(cal) \in Nat
    PROVE  NotAfter(NextSlot(a, u, cal), NextSlot(b, u, cal), cal)
<1>1. PICK x : x = NextSlot(a, u, cal)
  OBVIOUS
<1>2. PICK y : y = NextSlot(b, u, cal)
  OBVIOUS
<1>3. /\ x \in Places
      /\ a.used + u > DayUnits(cal) => x.day = NextWorkingDay(a.day, cal) /\ x.used = u
      /\ ~ (a.used + u > DayUnits(cal)) => x.day = a.day /\ x.used = a.used + u
  BY <1>1, NextPlace
<1>4. /\ y \in Places
      /\ b.used + u > DayUnits(cal) => y.day = NextWorkingDay(b.day, cal) /\ y.used = u
      /\ ~ (b.used + u > DayUnits(cal)) => y.day = b.day /\ y.used = b.used + u
  BY <1>2, NextPlace
<1>5. a.day \in Days /\ b.day \in Days /\ a.used \in Nat /\ b.used \in Nat
  BY DEF Places
<1> DEFINE U == DayUnits(cal)
<1> HIDE DEF U
<1>6. SUFFICES ASSUME y.day # Refused PROVE NotAfter(x, y, cal)
  BY <1>1, <1>2 DEF NotAfter
<1>7. b.day # Refused
  BY <1>4, <1>5, <1>6, NextIs
<1>8. /\ a.day \in Nat /\ b.day \in Nat /\ IsWorking(b.day, cal) /\ Leads(a.day, b.day, cal)
      /\ a.day <= b.day
      /\ a.day = b.day => a.used <= b.used
  BY <1>5, <1>7 DEF NotAfter, Days, Leads
<1>9. CASE ~ (b.used + u > DayUnits(cal))
  <2>1. y.day = b.day /\ y.used = b.used + u
    BY <1>4, <1>9
  <2>2. CASE ~ (a.used + u > DayUnits(cal))
    <3>1. x.day = a.day /\ x.used = a.used + u
      BY <1>3, <2>2
    <3> QED BY <1>5, <1>8, <2>1, <3>1 DEF NotAfter, Refused
  <2>3. CASE a.used + u > DayUnits(cal)
    <3>1. x.day = NextWorkingDay(a.day, cal) /\ x.used = u
      BY <1>3, <2>3
    <3>2. a.day # b.day
      <4>1. SUFFICES ASSUME a.day = b.day PROVE FALSE
        OBVIOUS
      <4>2. a.used <= b.used
        BY <1>8, <4>1
      <4> QED BY <1>5, <1>9, <2>3, <4>2
    <3>3. a.day < b.day
      BY <1>8, <3>2
    <3>4. x.day \in Nat /\ x.day # Refused /\ Leads(x.day, b.day, cal)
      BY <1>8, <3>1, <3>3, NextOnTheWay
    <3> QED BY <1>5, <1>8, <2>1, <3>1, <3>4 DEF NotAfter, Refused
  <2> QED BY <2>2, <2>3
<1>10. CASE b.used + u > DayUnits(cal)
  <2>1. y.day = NextWorkingDay(b.day, cal) /\ y.used = u
    BY <1>4, <1>10
  <2>2. y.day \in Nat /\ y.day > b.day /\ Leads(b.day, y.day, cal) /\ IsWorking(y.day, cal)
    BY <1>5, <1>6, <1>7, <1>8, <2>1, LeadsToNext, NextIs
  <2>3. CASE ~ (a.used + u > DayUnits(cal))
    <3>1. x.day = a.day
      BY <1>3, <2>3
    <3>2. Leads(x.day, y.day, cal)
      BY <1>8, <2>2, <3>1, LeadsOn
    <3> QED BY <1>8, <1>6, <2>2, <3>1, <3>2 DEF NotAfter, Refused
  <2>4. CASE a.used + u > DayUnits(cal)
    <3>1. x.day = NextWorkingDay(a.day, cal) /\ x.used = u
      BY <1>3, <2>4
    <3>2. CASE a.day = b.day
      <4>1. x.day = y.day
        BY <2>1, <3>1, <3>2
      <4>2. Leads(x.day, y.day, cal)
        BY <2>2, <4>1 DEF Leads
      <4> QED BY <1>6, <2>1, <2>2, <3>1, <4>1, <4>2 DEF NotAfter
    <3>3. CASE a.day # b.day
      <4>1. a.day < b.day
        BY <1>8, <3>3
      <4>2. x.day \in Nat /\ x.day # Refused /\ x.day <= b.day /\ Leads(x.day, b.day, cal)
        BY <1>8, <3>1, <4>1, NextOnTheWay
      <4>3. Leads(x.day, y.day, cal) /\ x.day # y.day
        BY <1>8, <2>2, <4>2, LeadsOn
      <4> QED BY <1>6, <2>2, <4>2, <4>3 DEF NotAfter
    <3> QED BY <3>2, <3>3
  <2> QED BY <2>3, <2>4
<1> QED BY <1>9, <1>10

-----------------------------------------------------------------------------
(* What a day holds. *)

LEMMA MultipleMod == \A v \in Int, p \in 1..50 : (v * p) % p = 0
  BY SMTT(60)

\* A day divides into equal units for the boxes of either kind.
LEMMA DayUnitsIs ==
    ASSUME NEW cal \in Calendars
    PROVE  /\ cal.video \in 1..50 /\ cal.plain \in 1..50
           /\ \E j \in 1..cal.plain : (cal.video * j) % cal.plain = 0 /\ DayUnits(cal) = cal.video * j
           /\ DayUnits(cal) \in Nat \ {0}
           /\ \A withVideo : BoxUnits(withVideo, cal) \in Nat
<1> DEFINE v == cal.video
           p == cal.plain
<1>1. v \in 1..50 /\ p \in 1..50
  BY CalendarsAssumption
<1>2. (v * p) % p = 0
  BY <1>1, MultipleMod
<1> HIDE DEF v, p
<1> DEFINE S == {j \in 1..p : (v * j) % p = 0}
<1>3. p \in 0..p /\ p \in S /\ p \in Nat
  BY <1>1, <1>2
<1>4. PICK j \in 0..p : j \in S /\ \A m \in 0..(j - 1) : m \notin S
  <2> HIDE DEF S
  <2> QED BY <1>3, LeastUpTo
<1>5. /\ j \in 1..p /\ (v * j) % p = 0
      /\ \A i \in 1..(j - 1) : (v * i) % p # 0
  <2>1. \A i \in 1..(j - 1) : i \in 0..(j - 1) /\ i \in 1..p
    BY <1>3, <1>4
  <2> QED BY <1>4, <2>1
<1>6. PICK least : least = CHOOSE i \in 1..p : (v * i) % p = 0 /\ \A h \in 1..(i - 1) : (v * h) % p # 0
  OBVIOUS
<1>7. least \in 1..p /\ (v * least) % p = 0
  BY <1>5, <1>6
<1>8. DayUnits(cal) = v * least
  BY <1>6, Zenon DEF DayUnits, v, p
<1>9. v * least \in Nat \ {0}
  BY <1>1, <1>7
<1>10. ASSUME NEW withVideo PROVE BoxUnits(withVideo, cal) \in Nat
  <2>1. \A n \in 1..50 : (v * least) \div n \in Nat
    BY <1>9
  <2>2. (IF withVideo THEN v ELSE p) \in 1..50
    BY <1>1
  <2> QED BY <1>8, <2>1, <2>2 DEF BoxUnits, v, p
<1> QED BY <1>1, <1>7, <1>8, <1>9, <1>10 DEF v, p

-----------------------------------------------------------------------------
(* The boxes of a queue. *)

Box == [order : Nat, withVideo : BOOLEAN]

Size(e) == e.video + e.plain

\* A queue of which the boxes can be counted.
Lined(q) ==
    /\ q \in Seq({q[i] : i \in DOMAIN q})
    /\ \A i \in 1..Len(q) : q[i].video \in Nat /\ q[i].plain \in Nat /\ Size(q[i]) > 0

BoxOf(q, i, b) == [order |-> i, withVideo |-> b <= q[i].video]

\* T tells how many boxes the first orders of a queue have.
Laid(q, T) ==
    /\ T \in [0..Len(q) -> Nat] /\ T[0] = 0
    /\ \A i \in 1..Len(q) : T[i] = T[i - 1] + Size(q[i])
    /\ BoxesOf(q) \in Seq(Box) /\ Len(BoxesOf(q)) = T[Len(q)]
    /\ \A i \in 1..Len(q) : \A b \in 1..Size(q[i]) : BoxesOf(q)[T[i - 1] + b] = BoxOf(q, i, b)

LEMMA BoxesLaid ==
    ASSUME NEW q, Lined(q)
    PROVE  \E T : Laid(q, T)
<1> DEFINE N == Len(q)
           More(i) == [b \in 1..(q[i].video + q[i].plain) |-> [order |-> i, withVideo |-> b <= q[i].video]]
           Is(f) == f = [i \in 0..N |-> IF i = 0 THEN <<>> ELSE f[i - 1] \o More(i)]
<1>1. N \in Nat
  BY DEF Lined
<1>2. \A i \in 1..N : More(i) \in Seq(Box) /\ Len(More(i)) = Size(q[i]) /\ Size(q[i]) \in Nat
  <2> TAKE i \in 1..N
  <2>1. q[i].video \in Nat /\ q[i].plain \in Nat
    BY DEF Lined
  <2>2. ASSUME NEW b PROVE [order |-> i, withVideo |-> b <= q[i].video] \in Box
    <3>1. (b <= q[i].video) \in BOOLEAN
      OBVIOUS
    <3> QED BY <1>1, <3>1 DEF Box
  <2>3. Size(q[i]) \in Nat /\ Size(q[i]) = q[i].video + q[i].plain
    BY <2>1 DEF Size
  <2>4. PICK n \in Nat : n = q[i].video + q[i].plain
    BY <2>3
  <2>5. More(i) \in [1..n -> Box]
    BY <2>2, <2>4
  <2> HIDE DEF More
  <2>6. More(i) \in Seq(Box) /\ Len(More(i)) = n
    BY <2>4, <2>5
  <2> QED BY <2>3, <2>4, <2>6
<1>3. \E f : Is(f)
  <2> DEFINE step == [i \in 1..N |-> [w \in Seq(Box) |-> w \o More(i)]]
  <2> HIDE DEF More
  <2>1. step \in [1..N -> [Seq(Box) -> Seq(Box)]]
    BY <1>2
  <2>2. \A i \in 1..N : \A w \in Seq(Box) : step[i][w] = w \o More(i)
    OBVIOUS
  <2>3. <<>> \in Seq(Box)
    OBVIOUS
  <2> HIDE DEF step, N
  <2>4. PICK f \in [0..N -> Seq(Box)] : f[0] = <<>> /\ \A i \in 1..N : f[i] = step[i][f[i - 1]]
    <3>1. step \in Steps(N, Seq(Box))
      BY <2>1 DEF Steps
    <3>2. \E f : Follows(f, N, Seq(Box), <<>>, step)
      BY <1>1, <2>3, <3>1, StepByStep
    <3> QED BY <3>2 DEF Follows
  <2>5. \A i \in 0..N : f[i] = IF i = 0 THEN <<>> ELSE f[i - 1] \o More(i)
    <3> TAKE i \in 0..N
    <3>1. CASE i # 0
      <4>1. i \in 1..N /\ f[i - 1] \in Seq(Box)
        BY <1>1, <3>1
      <4> QED BY <2>2, <2>4, <3>1, <4>1
    <3> QED BY <2>4, <3>1
  <2>6. f = [i \in 0..N |-> IF i = 0 THEN <<>> ELSE f[i - 1] \o More(i)]
    BY <2>5
  <2> QED BY <2>6
<1>4. PICK f : Is(f) /\ BoxesOf(q) = f[N]
  <2> DEFINE upTo == CHOOSE f : Is(f)
  <2>1. Is(upTo)
    BY <1>3
  <2>2. BoxesOf(q) = upTo[N]
    BY DEF BoxesOf
  <2> QED BY <2>1, <2>2
<1> HIDE DEF More
<1>5. f[0] = <<>> /\ \A i \in 1..N : f[i] = f[i - 1] \o More(i)
  <2>1. \A i \in 0..N : f[i] = IF i = 0 THEN <<>> ELSE f[i - 1] \o More(i)
    BY <1>4
  <2> HIDE DEF N
  <2>2. 0 \in 0..N /\ \A i \in 1..N : i \in 0..N /\ i # 0
    BY <1>1
  <2>3. f[0] = <<>>
    BY <2>1, <2>2
  <2>4. ASSUME NEW i \in 1..N PROVE f[i] = f[i - 1] \o More(i)
    BY <2>1, <2>2
  <2> QED BY <2>3, <2>4
<1> HIDE DEF N
<1>6. \A i \in 0..N : f[i] \in Seq(Box)
  <2>1. f[0] \in Seq(Box)
    BY <1>5
  <2>2. \A i \in 1..N : f[i - 1] \in Seq(Box) => f[i] \in Seq(Box)
    <3> TAKE i \in 1..N
    <3> HAVE f[i - 1] \in Seq(Box)
    <3>1. More(i) \in Seq(Box) /\ f[i] = f[i - 1] \o More(i)
      BY <1>2, <1>5 DEF N
    <3> QED BY <3>1
  <2> QED BY <1>1, <2>1, <2>2, AllAlong
<1> DEFINE T == [i \in 0..N |-> Len(f[i])]
<1>7. T \in [0..N -> Nat] /\ T[0] = 0
  BY <1>1, <1>5, <1>6
<1>8. \A i \in 1..N : i - 1 \in 0..N /\ i \in 0..N
  BY <1>1
<1>9. \A i \in 1..N : T[i] = T[i - 1] + Size(q[i])
  <2> TAKE i \in 1..N
  <2>1. f[i - 1] \in Seq(Box) /\ More(i) \in Seq(Box) /\ f[i] = f[i - 1] \o More(i)
    BY <1>2, <1>5, <1>6, <1>8 DEF N
  <2>2. Len(f[i]) = Len(f[i - 1]) + Len(More(i))
    BY <2>1
  <2> QED BY <1>2, <1>8, <2>2 DEF N
<1> HIDE DEF T
<1>10. \A i \in 1..N : \A b \in 1..Size(q[i]) : More(i)[b] = BoxOf(q, i, b)
  BY DEF More, Size, BoxOf
<1> DEFINE G == {n \in Nat : \A i \in 1..n : \A b \in 1..Size(q[i]) :
                    T[i - 1] + b \in 1..T[n] /\ f[n][T[i - 1] + b] = BoxOf(q, i, b)}
<1>11. \A n \in 0..(N - 1) : n \in G => n + 1 \in G
  <2> TAKE n \in 0..(N - 1)
  <2> HAVE n \in G
  <2>1. n + 1 \in 1..N /\ n \in 0..N /\ n \in Nat /\ n + 1 \in 0..N
    BY <1>1
  <2>2. /\ f[n] \in Seq(Box) /\ More(n + 1) \in Seq(Box) /\ f[n + 1] = f[n] \o More(n + 1)
        /\ Len(f[n]) = T[n] /\ Len(More(n + 1)) = Size(q[n + 1]) /\ T[n + 1] = T[n] + Size(q[n + 1])
        /\ T[n] \in Nat /\ Size(q[n + 1]) \in Nat
    <3>1. (n + 1) - 1 = n
      BY <2>1
    <3> QED BY <1>2, <1>5, <1>6, <1>7, <1>9, <2>1, <3>1 DEF N, T
  <2>3. \A k \in 1..T[n + 1] : f[n + 1][k] = IF k <= T[n] THEN f[n][k] ELSE More(n + 1)[k - T[n]]
    <3>1. PICK w \in Seq(Box) : w = f[n]
      BY <2>2
    <3>2. PICK m \in Seq(Box) : m = More(n + 1)
      BY <2>2
    <3>3. \A k \in 1..(Len(w) + Len(m)) : (w \o m)[k] = IF k <= Len(w) THEN w[k] ELSE m[k - Len(w)]
      OBVIOUS
    <3> QED BY <2>2, <3>1, <3>2, <3>3
  <2>4. ASSUME NEW i \in 1..(n + 1), NEW b \in 1..Size(q[i])
        PROVE  T[i - 1] + b \in 1..T[n + 1] /\ f[n + 1][T[i - 1] + b] = BoxOf(q, i, b)
    <3>1. CASE i = n + 1
      <4>1. i - 1 = n /\ b \in 1..Size(q[n + 1])
        BY <2>1, <2>4, <3>1
      <4>2. T[i - 1] + b \in 1..T[n + 1] /\ ~ (T[i - 1] + b <= T[n]) /\ (T[i - 1] + b) - T[n] = b
        BY <2>2, <4>1, SMTT(30)
      <4> QED BY <1>10, <2>1, <2>3, <3>1, <4>1, <4>2
    <3>2. CASE i # n + 1
      <4>1. i \in 1..n
        BY <2>1, <3>2
      <4>2. T[i - 1] + b \in 1..T[n] /\ f[n][T[i - 1] + b] = BoxOf(q, i, b)
        BY <2>4, <4>1
      <4>3. T[i - 1] + b \in 1..T[n + 1] /\ T[i - 1] + b <= T[n]
        BY <2>2, <4>2
      <4> QED BY <2>3, <4>2, <4>3
    <3> QED BY <3>1, <3>2
  <2> QED
    <3>1. n + 1 \in Nat
      BY <2>1
    <3> QED BY <2>4, <3>1
<1>12. 0 \in G
  OBVIOUS
<1> HIDE DEF G
<1>13. N \in G
  <2>1. \A n \in 0..N : n \in G
    BY <1>1, <1>11, <1>12, CountingUp
  <2> QED BY <1>1, <2>1
<1>14. Len(BoxesOf(q)) = T[N] /\ BoxesOf(q) \in Seq(Box)
  BY <1>1, <1>4, <1>6 DEF T
<1>15. \A i \in 1..N : \A b \in 1..Size(q[i]) : f[N][T[i - 1] + b] = BoxOf(q, i, b)
  BY <1>13 DEF G
<1>16. Laid(q, T)
  <2>1. BoxesOf(q) = f[N]
    BY <1>4
  <2> QED BY <1>7, <1>9, <1>14, <1>15, <2>1 DEF Laid, N
<1> QED BY <1>16

\* Boxes of a later order are made later.
LEMMA LaidGrows ==
    ASSUME NEW q, Lined(q), NEW T, Laid(q, T),
           NEW i \in 0..Len(q), NEW j \in 0..Len(q), i <= j
    PROVE  T[i] <= T[j]
<1> DEFINE G == {n \in Nat : \A h \in 0..n : T[h] <= T[n]}
<1>1. Len(q) \in Nat
  BY DEF Lined
<1>2. T[0] \in Nat /\ \A n \in 0..Len(q) : T[n] \in Nat
  <2>1. T \in [0..Len(q) -> Nat] /\ T[0] = 0
    BY DEF Laid
  <2> QED BY <2>1
<1>3. \A n \in 0..(Len(q) - 1) : T[n + 1] >= T[n]
  <2> TAKE n \in 0..(Len(q) - 1)
  <2>1. n + 1 \in 1..Len(q) /\ (n + 1) - 1 = n /\ n \in 0..Len(q) /\ n + 1 \in 0..Len(q)
    BY <1>1
  <2>2. T[n + 1] = T[n] + Size(q[n + 1])
    BY <2>1 DEF Laid
  <2>3. Size(q[n + 1]) \in Nat
    BY <2>1 DEF Lined, Size
  <2> QED BY <1>2, <2>1, <2>2, <2>3
<1>4. 0 \in G
  BY <1>2
<1>5. \A n \in 0..(Len(q) - 1) : n \in G => n + 1 \in G
  <2> TAKE n \in 0..(Len(q) - 1)
  <2> HAVE n \in G
  <2>1. n \in 0..Len(q) /\ n + 1 \in 0..Len(q) /\ n + 1 \in Nat
    BY <1>1
  <2>2. \A h \in 0..(n + 1) : h \in 0..Len(q) /\ (h = n + 1 \/ h \in 0..n)
    BY <1>1, <2>1
  <2>3. \A h \in 0..n : T[h] <= T[n]
    OBVIOUS
  <2>4. \A h \in 0..(n + 1) : T[h] <= T[n + 1]
    BY <1>2, <1>3, <2>1, <2>2, <2>3
  <2> QED BY <2>1, <2>4
<1> HIDE DEF G
<1>6. \A n \in 0..Len(q) : n \in G
  BY <1>1, <1>4, <1>5, CountingUp
<1>7. i \in 0..j
  OBVIOUS
<1> QED BY <1>6, <1>7 DEF G

\* Each box is one of some order.
LEMMA BoxAt ==
    ASSUME NEW q, Lined(q), NEW T, Laid(q, T), NEW n \in 0..Len(q), NEW k \in 1..T[n]
    PROVE  \E i \in 1..n : \E b \in 1..Size(q[i]) : k = T[i - 1] + b
<1> DEFINE G == {c \in Nat : \A m \in 1..T[c] : \E i \in 1..c : \E b \in 1..Size(q[i]) : m = T[i - 1] + b}
<1>1. Len(q) \in Nat
  BY DEF Lined
<1>2. T[0] = 0 /\ \A c \in 0..Len(q) : T[c] \in Nat
  <2>1. T \in [0..Len(q) -> Nat] /\ T[0] = 0
    BY DEF Laid
  <2> QED BY <2>1
<1>3. 0 \in G
  BY <1>2
<1>4. \A c \in 0..(Len(q) - 1) : c \in G => c + 1 \in G
  <2> TAKE c \in 0..(Len(q) - 1)
  <2> HAVE c \in G
  <2>1. c + 1 \in 1..Len(q) /\ (c + 1) - 1 = c /\ c \in 0..Len(q) /\ c + 1 \in 0..Len(q) /\ c + 1 \in Nat
    BY <1>1
  <2>2. T[c + 1] = T[c] + Size(q[c + 1]) /\ Size(q[c + 1]) \in Nat /\ T[c] \in Nat
    <3>1. T[c + 1] = T[c] + Size(q[c + 1])
      BY <2>1 DEF Laid
    <3>2. Size(q[c + 1]) \in Nat
      <4>1. q[c + 1].video \in Nat /\ q[c + 1].plain \in Nat
        BY <2>1 DEF Lined
      <4> QED BY <4>1 DEF Size
    <3> QED BY <1>2, <2>1, <3>1, <3>2
  <2>3. ASSUME NEW m \in 1..T[c + 1]
        PROVE  \E i \in 1..(c + 1) : \E b \in 1..Size(q[i]) : m = T[i - 1] + b
    <3>1. CASE m \in 1..T[c]
      <4>1. PICK i \in 1..c : \E b \in 1..Size(q[i]) : m = T[i - 1] + b
        BY <3>1
      <4>2. i \in 1..(c + 1)
        BY <2>1
      <4> QED BY <4>1, <4>2
    <3>2. CASE m \notin 1..T[c]
      <4>1. m - T[c] \in 1..Size(q[c + 1]) /\ m = T[c] + (m - T[c])
        BY <2>2, <3>2
      <4>2. c + 1 \in 1..(c + 1)
        BY <2>1
      <4> QED BY <2>1, <4>1, <4>2
    <3> QED BY <3>1, <3>2
  <2> QED BY <2>1, <2>3
<1> HIDE DEF G
<1>5. \A c \in 0..Len(q) : c \in G
  BY <1>1, <1>3, <1>4, CountingUp
<1>6. n \in G
  BY <1>5
<1> QED BY <1>6 DEF G

\* The last box of an order.
LEMMA LastBox ==
    ASSUME NEW q, Lined(q), NEW T, Laid(q, T), NEW i \in 1..Len(q)
    PROVE  /\ T[i] \in DOMAIN BoxesOf(q) /\ T[i] \in 1..T[Len(q)] /\ T[i - 1] \in 0..(T[i] - 1)
           /\ \A k \in DOMAIN BoxesOf(q) :
                (BoxesOf(q)[k].order = i /\ \A j \in DOMAIN BoxesOf(q) : BoxesOf(q)[j].order = i => j <= k)
                    <=> k = T[i]
<1> DEFINE boxes == BoxesOf(q)
<1>1. Len(q) \in Nat /\ i - 1 \in 0..Len(q) /\ i \in 0..Len(q) /\ Len(q) \in 0..Len(q)
  BY DEF Lined
<1>2. T[i] \in Nat /\ T[i - 1] \in Nat /\ T[Len(q)] \in Nat
  BY <1>1 DEF Laid
<1>3. boxes \in Seq(Box) /\ Len(boxes) = T[Len(q)] /\ DOMAIN boxes = 1..T[Len(q)]
  BY DEF Laid
<1>4. Size(q[i]) \in Nat /\ Size(q[i]) > 0 /\ T[i] = T[i - 1] + Size(q[i])
  BY SMTT(30) DEF Laid, Lined, Size
<1>5. T[i] <= T[Len(q)]
  BY <1>1, LaidGrows
<1>6. T[i] \in 1..T[Len(q)] /\ T[i - 1] \in 0..(T[i] - 1)
  BY <1>2, <1>4, <1>5
<1>7. boxes[T[i]].order = i
  <2>1. Size(q[i]) \in 1..Size(q[i])
    BY <1>4
  <2>2. boxes[T[i]] = BoxOf(q, i, Size(q[i]))
    BY <1>4, <2>1 DEF Laid
  <2> QED BY <2>2 DEF BoxOf
<1>8. ASSUME NEW j \in DOMAIN boxes, boxes[j].order = i PROVE j <= T[i]
  <2>1. PICK h \in 1..Len(q) : \E b \in 1..Size(q[h]) : j = T[h - 1] + b
    BY <1>1, <1>3, <1>8, BoxAt
  <2>2. PICK b \in 1..Size(q[h]) : j = T[h - 1] + b
    BY <2>1
  <2>3. boxes[j] = BoxOf(q, h, b)
    BY <2>2 DEF Laid
  <2>4. h = i
    BY <1>8, <2>3 DEF BoxOf
  <2> QED BY <1>2, <1>4, <2>2, <2>4
<1> HIDE DEF boxes
<1>9. ASSUME NEW k \in DOMAIN boxes
      PROVE  (boxes[k].order = i /\ \A j \in DOMAIN boxes : boxes[j].order = i => j <= k) <=> k = T[i]
  <2>1. T[i] \in DOMAIN boxes /\ k \in Nat
    BY <1>3, <1>6, <1>9
  <2>2. ASSUME boxes[k].order = i, \A j \in DOMAIN boxes : boxes[j].order = i => j <= k
        PROVE  k = T[i]
    <3>1. k <= T[i] /\ T[i] <= k
      BY <1>7, <1>8, <2>1, <2>2
    <3> QED BY <1>2, <2>1, <3>1
  <2> QED BY <1>7, <1>8, <2>2
<1> QED BY <1>3, <1>6, <1>9 DEF boxes

\* The day of an order is the one of its last box.
LEMMA PlannedIs ==
    ASSUME NEW q, Lined(q), NEW T, Laid(q, T), NEW cal, NEW now, NEW i \in 1..Len(q)
    PROVE  /\ PlannedDays(q, cal, now)[i] = Slots(BoxesOf(q), cal, now)[T[i]].day
           /\ DOMAIN PlannedDays(q, cal, now) = 1..Len(q)
<1> DEFINE boxes == BoxesOf(q)
           Ends(h) == CHOOSE k \in DOMAIN boxes :
                boxes[k].order = h /\ \A j \in DOMAIN boxes : boxes[j].order = h => j <= k
<1>1. DOMAIN q = 1..Len(q)
  BY DEF Lined
<1>2. Ends(i) = T[i]
  <2> DEFINE Is(k) == boxes[k].order = i /\ \A j \in DOMAIN boxes : boxes[j].order = i => j <= k
  <2>1. T[i] \in DOMAIN boxes /\ \A k \in DOMAIN boxes : Is(k) <=> k = T[i]
    BY LastBox
  <2>2. Ends(i) = CHOOSE k \in DOMAIN boxes : Is(k)
    OBVIOUS
  <2> HIDE DEF Is, Ends
  <2> QED BY <2>1, <2>2
<1>3. PlannedDays(q, cal, now) = [h \in DOMAIN q |-> Slots(boxes, cal, now)[Ends(h)].day]
  BY DEF PlannedDays
<1> QED BY <1>1, <1>2, <1>3

-----------------------------------------------------------------------------
(* The places of the boxes. *)

FirstPlace(cal, now) == [day |-> EnsureWorkingDay(now, cal), used |-> 0]

\* The place of a box of a list; before the first one, where the first day begins.
PlaceAt(boxes, cal, now, k) ==
    IF k = 0 THEN FirstPlace(cal, now) ELSE Slots(boxes, cal, now)[k]

Units(boxes, cal, k) == BoxUnits(boxes[k].withVideo, cal)

\* The places of the first boxes, each after the one before it.
Placed(w, n, boxes, cal, now) ==
    /\ w \in Seq(Places) /\ Len(w) = n
    /\ \A k \in 1..n :
        w[k] = NextSlot(IF k = 1 THEN FirstPlace(cal, now) ELSE w[k - 1], Units(boxes, cal, k), cal)

LEMMA PlacedOn ==
    ASSUME NEW boxes, NEW cal \in Calendars, NEW now \in Nat, NEW n \in Nat,
           NEW w, Placed(w, n, boxes, cal, now)
    PROVE  Placed(Append(w, NextSlot(IF n + 1 = 1 THEN FirstPlace(cal, now) ELSE w[n],
                                     Units(boxes, cal, n + 1), cal)), n + 1, boxes, cal, now)
<1> DEFINE last == IF n + 1 = 1 THEN FirstPlace(cal, now) ELSE w[n]
<1>1. PICK x : x = NextSlot(last, Units(boxes, cal, n + 1), cal)
  OBVIOUS
<1>2. w \in Seq(Places) /\ Len(w) = n
  BY DEF Placed
<1>3. FirstPlace(cal, now) \in Places
  BY EnsureIs DEF FirstPlace, Places
<1>4. last \in Places
  BY <1>2, <1>3
<1>5. Units(boxes, cal, n + 1) \in Nat
  BY DayUnitsIs DEF Units
<1>6. x \in Places
  BY <1>1, <1>4, <1>5, NextPlace
<1> DEFINE more == Append(w, x)
<1>7. /\ more \in Seq(Places) /\ Len(more) = n + 1 /\ more[n + 1] = x
      /\ \A k \in 1..n : more[k] = w[k]
  BY <1>2, <1>6
<1> HIDE DEF more
<1>8. ASSUME NEW k \in 1..(n + 1)
      PROVE  more[k] = NextSlot(IF k = 1 THEN FirstPlace(cal, now) ELSE more[k - 1], Units(boxes, cal, k), cal)
  <2>1. CASE k = n + 1
    <3>1. (IF k = 1 THEN FirstPlace(cal, now) ELSE more[k - 1]) = last
      <4>1. CASE k = 1
        BY <2>1, <4>1
      <4>2. CASE k # 1
        <5>1. k - 1 = n /\ n \in 1..n
          BY <2>1, <4>2
        <5> QED BY <1>7, <2>1, <4>2, <5>1
      <4> QED BY <4>1, <4>2
    <3> HIDE DEF last
    <3> QED BY <1>1, <1>7, <2>1, <3>1
  <2>2. CASE k # n + 1
    <3>1. k \in 1..n /\ (k # 1 => k - 1 \in 1..n)
      BY <2>2
    <3>2. w[k] = NextSlot(IF k = 1 THEN FirstPlace(cal, now) ELSE w[k - 1], Units(boxes, cal, k), cal)
      BY <3>1 DEF Placed
    <3>3. more[k] = w[k] /\ (k # 1 => more[k - 1] = w[k - 1])
      BY <1>7, <3>1
    <3> QED BY <3>2, <3>3
  <2> QED BY <2>1, <2>2
<1>9. Placed(more, n + 1, boxes, cal, now)
  BY <1>7, <1>8 DEF Placed
<1> QED BY <1>1, <1>9 DEF more

LEMMA SlotsPlaced ==
    ASSUME NEW boxes \in Seq(Box), NEW cal \in Calendars, NEW now \in Nat
    PROVE  Placed(Slots(boxes, cal, now), Len(boxes), boxes, cal, now)
<1> DEFINE N == Len(boxes)
           start == [day |-> EnsureWorkingDay(now, cal), used |-> 0]
           After(before, k) ==
                Append(before, NextSlot(IF k = 1 THEN start ELSE before[k - 1],
                                        BoxUnits(boxes[k].withVideo, cal), cal))
           Is(f) == f = [k \in 0..N |-> IF k = 0 THEN <<>>
                            ELSE CHOOSE slots \in {After(before, k) : before \in {f[k - 1]}} : TRUE]
           P(w, n) == Placed(w, n, boxes, cal, now)
<1>1. N \in Nat
  OBVIOUS
<1>2. \A k, w : (CHOOSE slots \in {After(before, k) : before \in {w}} : TRUE) = After(w, k)
  <2> TAKE k, w
  <2> DEFINE S == {After(before, k) : before \in {w}}
  <2>1. \A x : x \in S <=> x = After(w, k)
    OBVIOUS
  <2> HIDE DEF S, After
  <2>2. (CHOOSE slots \in S : TRUE) \in S
    BY <2>1
  <2> QED BY <2>1, <2>2 DEF S
<1>3. \A n \in Nat : \A w : P(w, n) => P(After(w, n + 1), n + 1)
  <2> TAKE n \in Nat
  <2> TAKE w
  <2> HAVE P(w, n)
  <2>1. (n + 1) - 1 = n
    OBVIOUS
  <2>2. P(Append(w, NextSlot(IF n + 1 = 1 THEN FirstPlace(cal, now) ELSE w[n],
                             Units(boxes, cal, n + 1), cal)), n + 1)
    BY PlacedOn
  <2> QED BY <2>1, <2>2 DEF FirstPlace, Units
<1>4. P(<<>>, 0)
  BY DEF Placed
<1> HIDE DEF After, P
<1>5. \E f : Is(f)
  <2> DEFINE V == Seq(Places)
             step == [k \in 1..N |-> [w \in V |-> IF P(w, k - 1) THEN After(w, k) ELSE <<>>]]
  <2>1. \A w, n : P(w, n) => w \in V
    BY DEF P, Placed
  <2>2. ASSUME NEW k \in 1..N, NEW w \in V PROVE (IF P(w, k - 1) THEN After(w, k) ELSE <<>>) \in V
    <3>1. k - 1 \in Nat /\ (k - 1) + 1 = k
      BY <1>1
    <3>2. P(w, k - 1) => P(After(w, k), k)
      BY <1>3, <3>1
    <3> QED BY <2>1, <3>2
  <2>3. <<>> \in V
    OBVIOUS
  <2> HIDE DEF V
  <2>4. step \in Steps(N, V)
    BY <2>2 DEF Steps
  <2>5. \A k \in 1..N : \A w \in V : step[k][w] = IF P(w, k - 1) THEN After(w, k) ELSE <<>>
    OBVIOUS
  <2> HIDE DEF step, N
  <2>6. PICK f : Follows(f, N, V, <<>>, step)
    BY <1>1, <2>3, <2>4, StepByStep
  <2> DEFINE G == {n \in Nat : P(f[n], n)}
  <2>7. 0 \in G
    BY <1>4, <2>6 DEF Follows
  <2>8. \A n \in 0..(N - 1) : n \in G => n + 1 \in G /\ f[n + 1] = After(f[n], n + 1)
    <3> TAKE n \in 0..(N - 1)
    <3> HAVE n \in G
    <3>1. n + 1 \in 1..N /\ (n + 1) - 1 = n /\ n \in Nat /\ n + 1 \in Nat
      BY <1>1
    <3>2. P(f[n], n) /\ f[n] \in V
      BY <2>1
    <3>3. f[n + 1] = step[n + 1][f[n]]
      BY <2>6, <3>1 DEF Follows
    <3>4. f[n + 1] = After(f[n], n + 1)
      BY <2>5, <3>1, <3>2, <3>3
    <3>5. P(f[n + 1], n + 1)
      BY <1>3, <3>1, <3>2, <3>4
    <3> QED BY <3>1, <3>4, <3>5
  <2> HIDE DEF G
  <2>9. \A n \in 0..N : n \in G
    BY <1>1, <2>7, <2>8, CountingUp
  <2>10. \A k \in 0..N : f[k] = IF k = 0 THEN <<>>
                            ELSE CHOOSE slots \in {After(before, k) : before \in {f[k - 1]}} : TRUE
    <3> TAKE k \in 0..N
    <3>1. CASE k = 0
      BY <2>6, <3>1 DEF Follows
    <3>2. CASE k # 0
      <4>1. k - 1 \in 0..(N - 1) /\ k - 1 \in 0..N /\ (k - 1) + 1 = k
        BY <1>1, <3>2
      <4>2. f[k] = After(f[k - 1], k)
        BY <2>8, <2>9, <4>1
      <4> QED BY <1>2, <3>2, <4>2
    <3> QED BY <3>1, <3>2
  <2>11. DOMAIN f = 0..N /\ f = [k \in 0..N |-> f[k]]
    BY <2>6 DEF Follows
  <2>12. [k \in 0..N |-> f[k]]
            = [k \in 0..N |-> IF k = 0 THEN <<>>
                    ELSE CHOOSE slots \in {After(before, k) : before \in {f[k - 1]}} : TRUE]
    BY <2>10, Zenon
  <2> QED BY <2>11, <2>12, Zenon
<1>6. PICK f : Is(f) /\ Slots(boxes, cal, now) = f[N]
  <2> DEFINE laid == CHOOSE f : Is(f)
  <2>1. Is(laid)
    BY <1>5
  <2>2. Slots(boxes, cal, now) = laid[N]
    BY DEF Slots, After
  <2> QED BY <2>1, <2>2
<1> HIDE DEF N
<1>7. f[0] = <<>> /\ \A k \in 1..N : f[k] = After(f[k - 1], k)
  <2>1. 0 \in 0..N /\ \A k \in 1..N : k \in 0..N /\ k # 0
    BY <1>1
  <2>2. f[0] = <<>>
    BY <1>6, <2>1
  <2>3. ASSUME NEW k \in 1..N PROVE f[k] = After(f[k - 1], k)
    <3>1. f[k] = CHOOSE slots \in {After(before, k) : before \in {f[k - 1]}} : TRUE
      BY <1>6, <2>1
    <3> QED BY <1>2, <3>1
  <2> QED BY <2>2, <2>3
<1> DEFINE G == {n \in Nat : P(f[n], n)}
<1>8. 0 \in G
  BY <1>4, <1>7
<1>9. \A n \in 0..(N - 1) : n \in G => n + 1 \in G
  <2> TAKE n \in 0..(N - 1)
  <2> HAVE n \in G
  <2>1. n + 1 \in 1..N /\ (n + 1) - 1 = n /\ n \in Nat /\ n + 1 \in Nat
    BY <1>1
  <2>2. f[n + 1] = After(f[n], n + 1)
    BY <1>7, <2>1
  <2> QED BY <1>3, <2>1, <2>2
<1> HIDE DEF G
<1>10. N \in G
  <2>1. \A n \in 0..N : n \in G
    BY <1>1, <1>8, <1>9, CountingUp
  <2> QED BY <1>1, <2>1
<1> QED BY <1>6, <1>10 DEF G, P, N

\* A box goes after the one before it.
LEMMA PlacesAre ==
    ASSUME NEW boxes \in Seq(Box), NEW cal \in Calendars, NEW now \in Nat
    PROVE  /\ \A k \in 0..Len(boxes) : PlaceAt(boxes, cal, now, k) \in Places
           /\ \A k \in 1..Len(boxes) :
                /\ Units(boxes, cal, k) \in Nat
                /\ PlaceAt(boxes, cal, now, k)
                    = NextSlot(PlaceAt(boxes, cal, now, k - 1), Units(boxes, cal, k), cal)
           /\ \A k \in 1..Len(boxes) : Slots(boxes, cal, now)[k] = PlaceAt(boxes, cal, now, k)
<1>1. PICK w : w = Slots(boxes, cal, now)
  OBVIOUS
<1>2. Placed(w, Len(boxes), boxes, cal, now)
  BY <1>1, SlotsPlaced
<1>3. FirstPlace(cal, now) \in Places
  BY EnsureIs DEF FirstPlace, Places
<1>4. ASSUME NEW k \in 0..Len(boxes) PROVE PlaceAt(boxes, cal, now, k) \in Places
  <2>1. CASE k = 0
    BY <1>3, <2>1 DEF PlaceAt
  <2>2. CASE k # 0
    <3>1. k \in 1..Len(w) /\ w \in Seq(Places)
      BY <1>2, <2>2 DEF Placed
    <3> QED BY <1>1, <2>2, <3>1 DEF PlaceAt
  <2> QED BY <2>1, <2>2
<1>5. ASSUME NEW k \in 1..Len(boxes)
      PROVE  /\ Units(boxes, cal, k) \in Nat
             /\ PlaceAt(boxes, cal, now, k)
                = NextSlot(PlaceAt(boxes, cal, now, k - 1), Units(boxes, cal, k), cal)
             /\ w[k] = PlaceAt(boxes, cal, now, k)
  <2>1. w[k] = NextSlot(IF k = 1 THEN FirstPlace(cal, now) ELSE w[k - 1], Units(boxes, cal, k), cal)
    BY <1>2 DEF Placed
  <2>2. k # 0 /\ (k - 1 = 0 <=> k = 1)
    OBVIOUS
  <2>3. PlaceAt(boxes, cal, now, k) = w[k]
    BY <1>1, <2>2 DEF PlaceAt
  <2>4. PlaceAt(boxes, cal, now, k - 1) = IF k = 1 THEN FirstPlace(cal, now) ELSE w[k - 1]
    BY <1>1, <2>2 DEF PlaceAt
  <2>5. Units(boxes, cal, k) \in Nat
    BY DayUnitsIs DEF Units
  <2> QED BY <2>1, <2>3, <2>4, <2>5
<1> QED BY <1>1, <1>4, <1>5

-----------------------------------------------------------------------------
(* Two queues compared. *)

Alike(e, f) == e.video = f.video /\ e.plain = f.plain

SameTill(q, r, n) == n \in Nat /\ n <= Len(q) /\ n <= Len(r) /\ \A i \in 1..n : Alike(q[i], r[i])

\* Queues that begin alike are laid out alike as far as that goes.
LEMMA SameCounts ==
    ASSUME NEW q, NEW r, NEW n, Lined(q), Lined(r), SameTill(q, r, n),
           NEW T, NEW U, Laid(q, T), Laid(r, U)
    PROVE  /\ \A i \in 0..n : T[i] = U[i]
           /\ \A k \in 1..T[n] : BoxesOf(q)[k] = BoxesOf(r)[k]
<1> DEFINE G == {c \in Nat : T[c] = U[c]}
<1>1. Len(q) \in Nat /\ Len(r) \in Nat
  BY DEF Lined
<1> USE DEF SameTill
<1>2. 0 \in G
  BY DEF Laid
<1>3. ASSUME NEW i \in 1..n PROVE Size(q[i]) = Size(r[i]) /\ i \in 1..Len(q) /\ i \in 1..Len(r)
  BY <1>1 DEF Alike, Size
<1>4. \A c \in 0..(n - 1) : c \in G => c + 1 \in G
  <2> TAKE c \in 0..(n - 1)
  <2> HAVE c \in G
  <2>1. c + 1 \in 1..n /\ (c + 1) - 1 = c /\ c + 1 \in Nat
    OBVIOUS
  <2>2. T[c + 1] = T[c] + Size(q[c + 1]) /\ U[c + 1] = U[c] + Size(r[c + 1])
    BY <1>3, <2>1 DEF Laid
  <2> QED BY <1>3, <2>1, <2>2
<1> HIDE DEF G
<1>5. \A c \in 0..n : c \in G
  BY <1>2, <1>4, CountingUp
<1>6. \A i \in 0..n : T[i] = U[i]
  BY <1>5 DEF G
<1>7. ASSUME NEW k \in 1..T[n] PROVE BoxesOf(q)[k] = BoxesOf(r)[k]
  <2>1. n \in 0..Len(q)
    BY <1>1
  <2>2. PICK i \in 1..n : \E b \in 1..Size(q[i]) : k = T[i - 1] + b
    BY <1>7, <2>1, BoxAt
  <2>3. PICK b \in 1..Size(q[i]) : k = T[i - 1] + b
    BY <2>2
  <2>4. i - 1 \in 0..n /\ b \in 1..Size(r[i])
    BY <1>3
  <2>5. k = U[i - 1] + b
    BY <1>6, <2>3, <2>4
  <2>6. BoxesOf(q)[k] = BoxOf(q, i, b)
    BY <1>3, <2>3 DEF Laid
  <2>7. BoxesOf(r)[k] = BoxOf(r, i, b)
    BY <1>3, <2>4, <2>5 DEF Laid
  <2> QED BY <2>6, <2>7 DEF BoxOf, Alike
<1> QED BY <1>6, <1>7

LEMMA SamePlaces ==
    ASSUME NEW q, NEW r, NEW n, Lined(q), Lined(r), SameTill(q, r, n),
           NEW T, NEW U, Laid(q, T), Laid(r, U),
           NEW cal \in Calendars, NEW now \in Nat, NEW then \in Nat,
           EnsureWorkingDay(now, cal) = EnsureWorkingDay(then, cal)
    PROVE  \A k \in 0..T[n] : PlaceAt(BoxesOf(q), cal, now, k) = PlaceAt(BoxesOf(r), cal, then, k)
<1> DEFINE P(k) == PlaceAt(BoxesOf(q), cal, now, k)
           Q(k) == PlaceAt(BoxesOf(r), cal, then, k)
           G == {k \in Nat : P(k) = Q(k)}
<1>1. /\ Len(q) \in Nat /\ Len(r) \in Nat /\ n \in 0..n /\ n \in 0..Len(q) /\ n \in 0..Len(r)
      /\ Len(q) \in 0..Len(q) /\ Len(r) \in 0..Len(r)
  BY DEF Lined, SameTill
<1>2. T[n] = U[n] /\ \A k \in 1..T[n] : BoxesOf(q)[k] = BoxesOf(r)[k]
  BY <1>1, SameCounts
<1>3. T[n] \in Nat /\ T[n] <= T[Len(q)] /\ U[n] <= U[Len(r)] /\ T[Len(q)] \in Nat /\ U[Len(r)] \in Nat
  <2>1. T \in [0..Len(q) -> Nat] /\ U \in [0..Len(r) -> Nat]
    BY DEF Laid
  <2>2. T[n] <= T[Len(q)] /\ U[n] <= U[Len(r)]
    BY <1>1, LaidGrows DEF SameTill
  <2> QED BY <1>1, <2>1, <2>2
<1>4. /\ BoxesOf(q) \in Seq(Box) /\ BoxesOf(r) \in Seq(Box)
      /\ Len(BoxesOf(q)) = T[Len(q)] /\ Len(BoxesOf(r)) = U[Len(r)]
  BY DEF Laid
<1>5. 0 \in G
  BY DEF PlaceAt, FirstPlace
<1>6. \A k \in 0..(T[n] - 1) : k \in G => k + 1 \in G
  <2> TAKE k \in 0..(T[n] - 1)
  <2> HAVE k \in G
  <2>1. /\ k + 1 \in 1..T[n] /\ k + 1 \in 1..Len(BoxesOf(q)) /\ k + 1 \in 1..Len(BoxesOf(r))
        /\ (k + 1) - 1 = k /\ k + 1 \in Nat
    BY <1>2, <1>3, <1>4
  <2>2. P(k + 1) = NextSlot(P(k), Units(BoxesOf(q), cal, k + 1), cal)
    <3>1. P(k + 1) = NextSlot(P((k + 1) - 1), Units(BoxesOf(q), cal, k + 1), cal)
      BY <1>4, <2>1, PlacesAre
    <3> HIDE DEF P
    <3> QED BY <2>1, <3>1
  <2>3. Q(k + 1) = NextSlot(Q(k), Units(BoxesOf(r), cal, k + 1), cal)
    <3>1. Q(k + 1) = NextSlot(Q((k + 1) - 1), Units(BoxesOf(r), cal, k + 1), cal)
      BY <1>4, <2>1, PlacesAre
    <3> HIDE DEF Q
    <3> QED BY <2>1, <3>1
  <2>4. Units(BoxesOf(q), cal, k + 1) = Units(BoxesOf(r), cal, k + 1)
    BY <1>2, <2>1 DEF Units
  <2>5. P(k) = Q(k)
    OBVIOUS
  <2> HIDE DEF P, Q
  <2> QED BY <2>1, <2>2, <2>3, <2>4, <2>5
<1> HIDE DEF G
<1>7. \A k \in 0..T[n] : k \in G
  BY <1>3, <1>5, <1>6, CountingUp
<1> QED BY <1>7 DEF G

\* So the days that are planned for the orders of the beginning are the same.
LEMMA SamePlanned ==
    ASSUME NEW q, NEW r, NEW n, Lined(q), Lined(r), SameTill(q, r, n),
           NEW cal \in Calendars, NEW now \in Nat, NEW then \in Nat,
           EnsureWorkingDay(now, cal) = EnsureWorkingDay(then, cal)
    PROVE  \A i \in 1..n : PlannedDays(q, cal, now)[i] = PlannedDays(r, cal, then)[i]
<1> SUFFICES ASSUME NEW i \in 1..n
             PROVE  PlannedDays(q, cal, now)[i] = PlannedDays(r, cal, then)[i]
  OBVIOUS
<1>1. PICK T : Laid(q, T)
  BY BoxesLaid
<1>2. PICK U : Laid(r, U)
  BY BoxesLaid
<1>3. i \in 1..Len(q) /\ i \in 1..Len(r) /\ i \in 0..n /\ n \in 0..Len(q) /\ i \in 0..Len(q) /\ Len(q) \in Nat
  BY DEF Lined, SameTill
<1>4. PlannedDays(q, cal, now)[i] = Slots(BoxesOf(q), cal, now)[T[i]].day
  BY <1>1, <1>3, PlannedIs
<1>5. PlannedDays(r, cal, then)[i] = Slots(BoxesOf(r), cal, then)[U[i]].day
  BY <1>2, <1>3, PlannedIs
<1>6. T[i] = U[i]
  BY <1>1, <1>2, <1>3, SameCounts
<1>7. T[i] \in 1..T[Len(q)] /\ T[i] <= T[n]
  BY <1>1, <1>3, LastBox, LaidGrows
<1>8. T[i] # 0 /\ T[i] \in 0..T[n]
  <2>1. T[n] \in Nat /\ T[Len(q)] \in Nat
    <3>1. T \in [0..Len(q) -> Nat] /\ Len(q) \in 0..Len(q)
      BY <1>1, <1>3 DEF Laid
    <3> QED BY <1>3, <3>1
  <2> QED BY <1>7, <2>1
<1>9. PlaceAt(BoxesOf(q), cal, now, T[i]) = PlaceAt(BoxesOf(r), cal, then, T[i])
  BY <1>1, <1>2, <1>8, SamePlaces
<1> QED BY <1>4, <1>5, <1>6, <1>8, <1>9 DEF PlaceAt

-----------------------------------------------------------------------------
(* An order leaves the queue. *)

\* Boxes are made on working days.
LEMMA PlacesWork ==
    ASSUME NEW boxes \in Seq(Box), NEW cal \in Calendars, NEW now \in Nat
    PROVE  \A k \in 0..Len(boxes) :
                LET day == PlaceAt(boxes, cal, now, k).day
                IN day # Refused => IsWorking(day, cal) /\ day >= now
<1> DEFINE P(k) == PlaceAt(boxes, cal, now, k)
           Works(d) == d # Refused => IsWorking(d, cal) /\ d >= now
           G == {k \in Nat : Works(P(k).day)}
<1>1. 0 \in G
  <2>1. P(0).day = EnsureWorkingDay(now, cal)
    BY DEF PlaceAt, FirstPlace
  <2>2. Works(EnsureWorkingDay(now, cal))
    BY EnsureIs
  <2> QED BY <2>1, <2>2
<1>2. \A k \in 0..(Len(boxes) - 1) : k \in G => k + 1 \in G
  <2> TAKE k \in 0..(Len(boxes) - 1)
  <2> HAVE k \in G
  <2>1. k + 1 \in 1..Len(boxes) /\ (k + 1) - 1 = k /\ k + 1 \in Nat /\ k \in 0..Len(boxes)
    OBVIOUS
  <2>2. P(k + 1) = NextSlot(P((k + 1) - 1), Units(boxes, cal, k + 1), cal)
    BY <2>1, PlacesAre
  <2>3. P(k) \in Places /\ Units(boxes, cal, k + 1) \in Nat
    BY <2>1, PlacesAre
  <2>4. Works(P(k).day)
    OBVIOUS
  <2> HIDE DEF P
  <2>5. PICK a \in Places : a = P(k)
    BY <2>3
  <2>6. PICK b : b = P(k + 1)
    OBVIOUS
  <2>7. b = NextSlot(a, Units(boxes, cal, k + 1), cal)
    BY <2>1, <2>2, <2>5, <2>6
  <2>8. b.day = a.day \/ b.day = NextWorkingDay(a.day, cal)
    BY <2>3, <2>7, NextPlace
  <2>9. a.day \in Days /\ Works(a.day)
    BY <2>4, <2>5 DEF Places
  <2>10. Works(NextWorkingDay(a.day, cal))
    <3>1. PICK d : d = a.day
      OBVIOUS
    <3>2. PICK w : w = NextWorkingDay(d, cal)
      OBVIOUS
    <3>3. w \in Days /\ (w # Refused => d # Refused /\ w > d /\ IsWorking(w, cal))
      BY <2>9, <3>1, <3>2, NextIs
    <3>4. w # Refused => w >= now
      BY <2>9, <3>1, <3>3 DEF Days
    <3> QED BY <3>1, <3>2, <3>3, <3>4
  <2>11. Works(b.day)
    BY <2>8, <2>9, <2>10
  <2> QED BY <2>1, <2>6, <2>11
<1> HIDE DEF G
<1>3. \A k \in 0..Len(boxes) : k \in G
  BY <1>1, <1>2, CountingUp
<1> QED BY <1>3 DEF G

\* A place is not after the ones behind it.
LEMMA NotAfterNext ==
    ASSUME NEW cal, NEW a \in Places, NEW b \in Places, NEW u \in Nat, NotAfter(a, b, cal)
    PROVE  NotAfter(a, NextSlot(b, u, cal), cal)
<1>1. PICK y : y = NextSlot(b, u, cal)
  OBVIOUS
<1>2. /\ y \in Places
      /\ b.used + u > DayUnits(cal) => y.day = NextWorkingDay(b.day, cal) /\ y.used = u
      /\ ~ (b.used + u > DayUnits(cal)) => y.day = b.day /\ y.used = b.used + u
  BY <1>1, NextPlace
<1>3. a.day \in Days /\ b.day \in Days /\ a.used \in Nat /\ b.used \in Nat /\ y.day \in Days
  BY <1>2 DEF Places
<1>4. SUFFICES ASSUME y.day # Refused PROVE NotAfter(a, y, cal)
  BY <1>1 DEF NotAfter
<1>5. b.day # Refused
  BY <1>2, <1>3, <1>4, NextIs
<1>6. /\ a.day \in Nat /\ b.day \in Nat /\ IsWorking(b.day, cal) /\ Leads(a.day, b.day, cal)
      /\ a.day <= b.day /\ a.day # Refused
      /\ a.day = b.day => a.used <= b.used
  BY <1>3, <1>5 DEF NotAfter, Days, Leads
<1>7. CASE ~ (b.used + u > DayUnits(cal))
  BY <1>2, <1>3, <1>4, <1>6, <1>7 DEF NotAfter
<1>8. CASE b.used + u > DayUnits(cal)
  <2>1. y.day = NextWorkingDay(b.day, cal)
    BY <1>2, <1>8
  <2>2. y.day \in Nat /\ y.day > b.day /\ Leads(b.day, y.day, cal) /\ IsWorking(y.day, cal)
    BY <1>3, <1>4, <1>5, <1>6, <2>1, LeadsToNext, NextIs
  <2>3. Leads(a.day, y.day, cal) /\ a.day # y.day
    BY <1>6, <2>2, LeadsOn
  <2> QED BY <1>4, <1>6, <2>2, <2>3 DEF NotAfter
<1> QED BY <1>7, <1>8

LEMMA PlacesInOrder ==
    ASSUME NEW boxes \in Seq(Box), NEW cal \in Calendars, NEW now \in Nat,
           NEW c \in 0..Len(boxes), NEW s \in Nat, c + s <= Len(boxes)
    PROVE  NotAfter(PlaceAt(boxes, cal, now, c), PlaceAt(boxes, cal, now, c + s), cal)
<1> DEFINE P(k) == PlaceAt(boxes, cal, now, k)
           G == {m \in Nat : NotAfter(P(c), P(c + m), cal)}
<1>1. P(c) \in Places
  BY PlacesAre
<1>2. 0 \in G
  <2>1. c + 0 = c
    OBVIOUS
  <2>2. PICK a \in Places : a = P(c)
    BY <1>1
  <2>3. a.day # Refused => IsWorking(a.day, cal)
    BY <2>2, PlacesWork
  <2>4. a.day \in Days /\ a.used \in Nat
    BY DEF Places
  <2>5. a.day # Refused => Leads(a.day, a.day, cal)
    BY <2>4 DEF Leads, Days
  <2>6. NotAfter(a, a, cal)
    BY <2>3, <2>4, <2>5 DEF NotAfter
  <2> HIDE DEF P
  <2> QED BY <2>1, <2>2, <2>6
<1>3. \A m \in 0..(s - 1) : m \in G => m + 1 \in G
  <2> TAKE m \in 0..(s - 1)
  <2> HAVE m \in G
  <2>1. /\ (c + (m + 1)) \in 1..Len(boxes) /\ (c + (m + 1)) - 1 = c + m /\ m + 1 \in Nat
        /\ c + m \in 0..Len(boxes)
    OBVIOUS
  <2>2. P(c + (m + 1)) = NextSlot(P((c + (m + 1)) - 1), Units(boxes, cal, c + (m + 1)), cal)
    BY <2>1, PlacesAre
  <2>3. P(c + m) \in Places /\ Units(boxes, cal, c + (m + 1)) \in Nat
    BY <2>1, PlacesAre
  <2>4. NotAfter(P(c), P(c + m), cal)
    OBVIOUS
  <2> HIDE DEF P
  <2>5. NotAfter(P(c), NextSlot(P(c + m), Units(boxes, cal, c + (m + 1)), cal), cal)
    BY <1>1, <2>3, <2>4, NotAfterNext
  <2> QED BY <2>1, <2>2, <2>5
<1> HIDE DEF G
<1>4. \A m \in 0..s : m \in G
  BY <1>2, <1>3, CountingUp
<1>5. s \in G
  BY <1>4
<1> QED BY <1>5 DEF G

LEMMA RemoveAtIs ==
    ASSUME NEW S, NEW q \in Seq(S), NEW i \in 1..Len(q)
    PROVE  /\ RemoveAt(q, i) \in Seq(S) /\ Len(RemoveAt(q, i)) = Len(q) - 1
           /\ \A j \in 1..(Len(q) - 1) : RemoveAt(q, i)[j] = IF j < i THEN q[j] ELSE q[j + 1]
<1>1. Len(q) \in Nat
  OBVIOUS
<1>2. PICK w : w = SubSeq(q, 1, i - 1)
  OBVIOUS
<1>3. PICK m : m = SubSeq(q, i + 1, Len(q))
  OBVIOUS
<1>4. w \in Seq(S) /\ Len(w) = i - 1 /\ \A j \in 1..(i - 1) : w[j] = q[j]
  BY <1>1, <1>2
<1>5. m \in Seq(S) /\ Len(m) = Len(q) - i /\ \A j \in 1..(Len(q) - i) : m[j] = q[i + j]
  BY <1>1, <1>3
<1>6. RemoveAt(q, i) = w \o m
  BY <1>2, <1>3 DEF RemoveAt
<1>7. /\ w \o m \in Seq(S) /\ Len(w \o m) = Len(w) + Len(m)
      /\ \A j \in 1..(Len(w) + Len(m)) : (w \o m)[j] = IF j <= Len(w) THEN w[j] ELSE m[j - Len(w)]
  <2>1. w \in Seq(S) /\ m \in Seq(S)
    BY <1>4, <1>5
  <2> QED BY <2>1
<1>8. ASSUME NEW j \in 1..(Len(q) - 1) PROVE (w \o m)[j] = IF j < i THEN q[j] ELSE q[j + 1]
  <2>1. j \in 1..(Len(w) + Len(m))
    BY <1>1, <1>4, <1>5
  <2>2. CASE j < i
    BY <1>1, <1>4, <1>7, <2>1, <2>2
  <2>3. CASE ~ (j < i)
    <3>1. ~ (j <= Len(w)) /\ j - Len(w) \in 1..(Len(q) - i) /\ i + (j - Len(w)) = j + 1
      BY <1>1, <1>4, <2>3
    <3> QED BY <1>5, <1>7, <2>1, <2>3, <3>1
  <2> QED BY <2>2, <2>3
<1> HIDE DEF RemoveAt
<1> QED BY <1>1, <1>4, <1>5, <1>6, <1>7, <1>8

\* r is q without its order i.
Without(q, r, i) ==
    /\ i \in 1..Len(q) /\ Len(r) = Len(q) - 1
    /\ \A j \in 1..(Len(q) - 1) : r[j] = IF j < i THEN q[j] ELSE q[j + 1]

LEMMA SizeCounts ==
    ASSUME NEW q, Lined(q), NEW i \in 1..Len(q)
    PROVE  Size(q[i]) \in Nat /\ Size(q[i]) > 0
<1>1. q[i].video \in Nat /\ q[i].plain \in Nat /\ Size(q[i]) > 0
  BY DEF Lined
<1> QED BY <1>1 DEF Size

\* The orders behind the one that leaves have their boxes earlier in the list.
MovedUp(q, r, i, T, U) ==
    /\ T[i - 1] = U[i - 1]
    /\ \A j \in (i - 1)..Len(r) : T[j + 1] = U[j] + Size(q[i])
    /\ \A k \in (U[i - 1] + 1)..U[Len(r)] :
        BoxesOf(r)[k].withVideo = BoxesOf(q)[k + Size(q[i])].withVideo

LEMMA CountsLess ==
    ASSUME NEW q, NEW r, NEW i, Lined(q), Lined(r), Without(q, r, i),
           NEW T, NEW U, Laid(q, T), Laid(r, U)
    PROVE  MovedUp(q, r, i, T, U)
<1> USE DEF Without
<1>1. Len(q) \in Nat /\ Len(r) \in Nat /\ i - 1 \in Nat /\ i - 1 <= Len(q) /\ i - 1 <= Len(r)
  BY DEF Lined
<1>2. T[i - 1] = U[i - 1]
  <2>1. \A j \in 1..(i - 1) : Alike(q[j], r[j])
    BY <1>1 DEF Alike
  <2>2. PICK n : n = i - 1
    OBVIOUS
  <2>3. SameTill(q, r, n) /\ n \in 0..n
    BY <1>1, <2>1, <2>2 DEF SameTill
  <2>4. T[n] = U[n]
    BY <2>3, SameCounts
  <2> QED BY <2>2, <2>4
<1> DEFINE s == Size(q[i])
           G == {m \in Nat : T[(i - 1) + m + 1] = U[(i - 1) + m] + s}
<1>3. 0 \in G
  <2>1. (i - 1) + 0 + 1 = i /\ (i - 1) + 0 = i - 1
    OBVIOUS
  <2>2. T[i] = T[i - 1] + s
    BY DEF Laid
  <2> HIDE DEF s
  <2> QED BY <1>2, <2>1, <2>2
<1>4. \A m \in 0..(Len(r) - (i - 1) - 1) : m \in G => m + 1 \in G
  <2> TAKE m \in 0..(Len(r) - (i - 1) - 1)
  <2> HAVE m \in G
  <2>1. PICK j : j = (i - 1) + m + 1
    OBVIOUS
  <2>2. /\ j \in 1..Len(r) /\ j + 1 \in 1..Len(q) /\ (j + 1) - 1 = j /\ j - 1 = (i - 1) + m
        /\ ~ (j < i) /\ j \in 1..(Len(q) - 1) /\ m + 1 \in Nat
        /\ (i - 1) + (m + 1) + 1 = j + 1 /\ (i - 1) + (m + 1) = j
    BY <1>1, <2>1
  <2>3. T[j] = U[j - 1] + s
    BY <2>1, <2>2
  <2>4. T[j + 1] = T[j] + Size(q[j + 1])
    BY <2>2 DEF Laid
  <2>5. U[j] = U[j - 1] + Size(r[j])
    BY <2>2 DEF Laid
  <2>6. r[j] = q[j + 1]
    BY <2>2
  <2>7. U[j - 1] \in Nat /\ s \in Nat /\ Size(q[j + 1]) \in Nat
    <3>1. j - 1 \in 0..Len(r)
      BY <1>1, <2>2
    <3>2. U[j - 1] \in Nat
      BY <3>1 DEF Laid
    <3>4. Size(q[i]) \in Nat /\ Size(q[j + 1]) \in Nat
      BY <2>2, SizeCounts
    <3> QED BY <3>2, <3>4
  <2> HIDE DEF s
  <2>8. T[j + 1] = U[j] + s
    BY <2>3, <2>4, <2>5, <2>6, <2>7
  <2> QED BY <2>2, <2>8
<1> HIDE DEF G
<1>5. \A m \in 0..(Len(r) - (i - 1)) : m \in G
  <2>1. Len(r) - (i - 1) \in Nat
    BY <1>1
  <2> QED BY <1>3, <1>4, <2>1, CountingUp
<1>6. ASSUME NEW j \in (i - 1)..Len(r) PROVE T[j + 1] = U[j] + s
  <2>1. j - (i - 1) \in 0..(Len(r) - (i - 1)) /\ (i - 1) + (j - (i - 1)) = j
    BY <1>1
  <2>2. j - (i - 1) \in G
    BY <1>5, <2>1
  <2> QED BY <2>1, <2>2 DEF G
<1>7. ASSUME NEW k \in (U[i - 1] + 1)..U[Len(r)]
      PROVE  BoxesOf(r)[k].withVideo = BoxesOf(q)[k + s].withVideo
  <2>1. Len(r) \in 0..Len(r) /\ U \in [0..Len(r) -> Nat] /\ i - 1 \in 0..Len(r)
    BY <1>1 DEF Laid
  <2>2. k \in 1..U[Len(r)]
    BY <2>1
  <2>3. PICK j \in 1..Len(r) : \E b \in 1..Size(r[j]) : k = U[j - 1] + b
    <3>1. PICK n : n = Len(r)
      OBVIOUS
    <3>2. n \in 0..Len(r) /\ k \in 1..U[n]
      BY <2>1, <2>2, <3>1
    <3>3. \E j \in 1..n : \E b \in 1..Size(r[j]) : k = U[j - 1] + b
      BY <3>2, BoxAt, SMTT(30)
    <3> QED BY <3>1, <3>3
  <2>4. PICK b \in 1..Size(r[j]) : k = U[j - 1] + b
    BY <2>3
  <2>5. ~ (j < i)
    <3> SUFFICES ASSUME j < i PROVE FALSE
      OBVIOUS
    <3>1. j \in 0..Len(r) /\ j - 1 \in 0..Len(r) /\ j <= i - 1
      BY <1>1
    <3>2. U[j] <= U[i - 1]
      BY <2>1, <3>1, LaidGrows
    <3>3. U[j] = U[j - 1] + Size(r[j])
      BY DEF Laid
    <3>4. U[j] \in Nat /\ U[j - 1] \in Nat /\ U[i - 1] \in Nat
      BY <2>1, <3>1
    <3>5. PICK x \in Nat : x = U[j - 1]
      BY <3>4
    <3>6. PICK y \in Nat : y = U[i - 1]
      BY <3>4
    <3>7. PICK n \in Nat : n = Size(r[j])
      BY SizeCounts
    <3>8. b \in 1..n /\ x + n <= y /\ k = x + b /\ k \in (y + 1)..U[Len(r)]
      BY <2>4, <3>2, <3>3, <3>5, <3>6, <3>7
    <3>9. U[Len(r)] \in Nat
      BY <2>1
    <3> QED BY <3>8, <3>9
  <2>6. j \in 1..(Len(q) - 1) /\ j + 1 \in 1..Len(q) /\ (j + 1) - 1 = j /\ j - 1 \in (i - 1)..Len(r)
        /\ (j - 1) + 1 = j
    BY <1>1, <2>5
  <2>7. r[j] = q[j + 1]
    BY <2>5, <2>6
  <2>8. T[j] = U[j - 1] + s
    BY <1>6, <2>6
  <2>9. BoxesOf(r)[k] = BoxOf(r, j, b)
    BY <2>4 DEF Laid
  <2>10. BoxesOf(q)[T[j] + b] = BoxOf(q, j + 1, b)
    BY <2>4, <2>6, <2>7, SMTT(30) DEF Laid
  <2>11. T[j] + b = k + s
    <3>1. U[j - 1] \in Nat
      <4>1. j - 1 \in 0..Len(r)
        BY <1>1
      <4> QED BY <2>1, <4>1
    <3>2. q[i].video \in Nat /\ q[i].plain \in Nat
      BY DEF Lined
    <3>3. s \in Nat
      BY <3>2, SMTT(30) DEF Size
    <3> HIDE DEF s
    <3> QED BY <2>4, <2>8, <3>1, <3>3, SMTT(30)
  <2> QED BY <2>7, <2>9, <2>10, <2>11 DEF BoxOf
<1> QED BY <1>2, <1>6, <1>7 DEF MovedUp

\* Of two dates the first is kept whenever the second is.
Sooner(new, old) == old # Refused => new # Refused /\ new <= old

\* An order that leaves delays nobody, whatever boxes it had.
LEMMA LeavingPlanned ==
    ASSUME NEW q, NEW r, NEW i, Lined(q), Lined(r), Without(q, r, i),
           NEW cal \in Calendars, NEW now \in Nat
    PROVE  \A j \in 1..Len(r) :
                Sooner(PlannedDays(r, cal, now)[j], PlannedDays(q, cal, now)[IF j < i THEN j ELSE j + 1])
<1>1. PICK T : Laid(q, T)
  BY BoxesLaid
<1>2. PICK U : Laid(r, U)
  BY BoxesLaid
<1>3. /\ Len(q) \in Nat /\ Len(r) \in Nat /\ i - 1 \in Nat /\ i - 1 <= Len(q) /\ i - 1 <= Len(r)
      /\ i \in 1..Len(q) /\ Len(r) = Len(q) - 1
      /\ \A j \in 1..(Len(q) - 1) : r[j] = IF j < i THEN q[j] ELSE q[j + 1]
  BY DEF Lined, Without
<1>4. PICK s \in Nat : s = Size(q[i]) /\ s > 0
  BY <1>3, SizeCounts
<1>5. /\ T[i - 1] = U[i - 1]
      /\ \A j \in (i - 1)..Len(r) : T[j + 1] = U[j] + s
      /\ \A k \in (U[i - 1] + 1)..U[Len(r)] : BoxesOf(r)[k].withVideo = BoxesOf(q)[k + s].withVideo
  <2>1. /\ T[i - 1] = U[i - 1]
        /\ \A j \in (i - 1)..Len(r) : T[j + 1] = U[j] + Size(q[i])
        /\ \A k \in (U[i - 1] + 1)..U[Len(r)] :
                BoxesOf(r)[k].withVideo = BoxesOf(q)[k + Size(q[i])].withVideo
    <3>1. MovedUp(q, r, i, T, U)
      BY <1>1, <1>2, CountsLess
    <3> QED BY <3>1 DEF MovedUp
  <2> QED BY <1>4, <2>1
<1>6. /\ BoxesOf(q) \in Seq(Box) /\ Len(BoxesOf(q)) = T[Len(q)]
      /\ BoxesOf(r) \in Seq(Box) /\ Len(BoxesOf(r)) = U[Len(r)]
  BY <1>1, <1>2 DEF Laid
<1>7. PICK c : c = U[i - 1]
  OBVIOUS
<1>8. PICK n : n = U[Len(r)]
  OBVIOUS
<1>9. c \in Nat /\ n \in Nat /\ c <= n /\ T[Len(q)] = n + s /\ T[i - 1] = c
  <2>1. U \in [0..Len(r) -> Nat] /\ i - 1 \in 0..Len(r) /\ Len(r) \in 0..Len(r)
    BY <1>2, <1>3 DEF Laid
  <2>2. c \in Nat /\ n \in Nat
    BY <1>7, <1>8, <2>1
  <2>3. c <= n
    BY <1>2, <1>3, <1>7, <1>8, <2>1, LaidGrows
  <2>4. Len(r) \in (i - 1)..Len(r) /\ Len(r) + 1 = Len(q)
    BY <1>3
  <2>5. T[Len(q)] = n + s
    BY <1>5, <1>8, <2>4
  <2> QED BY <1>5, <1>7, <2>2, <2>3, <2>5
<1> DEFINE P(k) == PlaceAt(BoxesOf(q), cal, now, k)
           Q(k) == PlaceAt(BoxesOf(r), cal, now, k)
           G == {m \in Nat : NotAfter(Q(c + m), P(c + m + s), cal)}
<1>10. Q(c) = P(c)
  <2>1. \A j \in 1..(i - 1) : Alike(q[j], r[j])
    BY <1>3 DEF Alike
  <2>2. PICK h : h = i - 1
    OBVIOUS
  <2>3. SameTill(q, r, h)
    BY <1>3, <2>1, <2>2 DEF SameTill
  <2>4. \A k \in 0..T[h] : P(k) = Q(k)
    <3>1. EnsureWorkingDay(now, cal) = EnsureWorkingDay(now, cal)
      OBVIOUS
    <3> QED BY <1>1, <1>2, <2>3, <3>1, SamePlaces
  <2>5. c \in 0..T[h]
    BY <1>9, <2>2
  <2> QED BY <2>4, <2>5
<1>11. 0 \in G
  <2>1. c \in 0..Len(BoxesOf(q)) /\ c + s <= Len(BoxesOf(q))
    BY <1>6, <1>9
  <2>2. NotAfter(P(c), P(c + s), cal)
    BY <1>6, <2>1, PlacesInOrder
  <2>3. c + 0 = c /\ c + 0 + s = c + s
    BY <1>9
  <2> HIDE DEF P, Q
  <2> QED BY <1>10, <2>2, <2>3
<1>12. \A m \in 0..((n - c) - 1) : m \in G => m + 1 \in G
  <2> TAKE m \in 0..((n - c) - 1)
  <2> HAVE m \in G
  <2>1. PICK k : k = c + m + 1
    OBVIOUS
  <2>2. /\ k \in 1..Len(BoxesOf(r)) /\ k + s \in 1..Len(BoxesOf(q)) /\ k \in (c + 1)..n
        /\ k - 1 = c + m /\ (k + s) - 1 = c + m + s /\ c + (m + 1) = k /\ c + (m + 1) + s = k + s
        /\ m + 1 \in Nat /\ k - 1 \in 0..Len(BoxesOf(r)) /\ (k + s) - 1 \in 0..Len(BoxesOf(q))
    <3>1. m \in Nat /\ m + 1 <= n - c
      BY <1>9
    <3>2. k \in Nat /\ k >= c + 1 /\ k <= n /\ k >= 1
      BY <1>9, <2>1, <3>1
    <3>3. Len(BoxesOf(r)) = n /\ Len(BoxesOf(q)) = n + s
      BY <1>6, <1>8, <1>9
    <3> QED BY <1>9, <2>1, <3>1, <3>2, <3>3
  <2>3. Q(k) = NextSlot(Q(k - 1), Units(BoxesOf(r), cal, k), cal) /\ Units(BoxesOf(r), cal, k) \in Nat
    BY <1>6, <2>2, PlacesAre
  <2>4. P(k + s) = NextSlot(P((k + s) - 1), Units(BoxesOf(q), cal, k + s), cal)
    BY <1>6, <2>2, PlacesAre
  <2>5. Units(BoxesOf(r), cal, k) = Units(BoxesOf(q), cal, k + s)
    BY <1>5, <1>7, <1>8, <2>2 DEF Units
  <2>6. Q(k - 1) \in Places /\ P((k + s) - 1) \in Places
    BY <1>6, <2>2, PlacesAre
  <2>7. NotAfter(Q(c + m), P(c + m + s), cal)
    OBVIOUS
  <2> HIDE DEF P, Q
  <2>8. NotAfter(Q(k), P(k + s), cal)
    <3>1. NotAfter(Q(k - 1), P((k + s) - 1), cal)
      BY <2>2, <2>7
    <3>2. DayUnits(cal) \in Nat
      BY DayUnitsIs
    <3> QED BY <2>3, <2>4, <2>5, <2>6, <3>1, <3>2, NotAfterKept
  <2> QED BY <2>2, <2>8
<1> HIDE DEF G
<1>13. \A m \in 0..(n - c) : m \in G
  <2>1. n - c \in Nat
    BY <1>9
  <2> QED BY <1>11, <1>12, <2>1, CountingUp
<1>14. ASSUME NEW k \in c..n PROVE NotAfter(Q(k), P(k + s), cal)
  <2>1. k - c \in 0..(n - c) /\ c + (k - c) = k
    BY <1>9
  <2>2. k - c \in G
    BY <1>13, <2>1
  <2> HIDE DEF P, Q
  <2> QED BY <2>1, <2>2 DEF G
<1> SUFFICES ASSUME NEW j \in 1..Len(r)
             PROVE  Sooner(PlannedDays(r, cal, now)[j],
                           PlannedDays(q, cal, now)[IF j < i THEN j ELSE j + 1])
  OBVIOUS
<1>15. CASE j < i
  <2>1. PICK h : h = i - 1
    OBVIOUS
  <2>2. SameTill(r, q, h) /\ j \in 1..h
    BY <1>3, <1>15, <2>1 DEF Alike, SameTill
  <2>3. PlannedDays(r, cal, now)[j] = PlannedDays(q, cal, now)[j]
    BY <2>2, SamePlanned
  <2>4. PICK d : d = PlannedDays(q, cal, now)[j]
    OBVIOUS
  <2>5. d # Refused => d <= d
    <3>1. d \in Days
      <4>1. j \in 1..Len(q) /\ DayUnits(cal) \in Nat
        BY <1>3, DayUnitsIs
      <4>2. d = Slots(BoxesOf(q), cal, now)[T[j]].day
        BY <1>1, <2>4, <4>1, PlannedIs
      <4>3. T[j] \in 1..Len(BoxesOf(q))
        BY <1>1, <1>6, <4>1, LastBox
      <4>4. Slots(BoxesOf(q), cal, now)[T[j]] \in Places
        BY <1>6, <4>3, PlacesAre
      <4> QED BY <4>2, <4>4 DEF Places
    <3> QED BY <3>1 DEF Days
  <2> QED BY <1>15, <2>3, <2>4, <2>5 DEF Sooner
<1>16. CASE ~ (j < i)
  <2>1. j \in (i - 1)..Len(r) /\ j + 1 \in 1..Len(q)
    BY <1>3, <1>16
  <2>2. T[j + 1] = U[j] + s
    BY <1>5, <2>1
  <2>3. U[j] \in 1..n /\ U[j] \in c..n
    <3>1. U[j] \in 1..U[Len(r)]
      BY <1>2, LastBox
    <3>2. i - 1 \in 0..Len(r) /\ j \in 0..Len(r) /\ i - 1 <= j
      BY <1>3, <1>16
    <3>3. U[i - 1] <= U[j]
      BY <1>2, <3>2, LaidGrows
    <3> QED BY <1>7, <1>8, <1>9, <3>1, <3>3
  <2>4. PICK k \in 1..n : k = U[j]
    BY <2>3
  <2>5. NotAfter(Q(k), P(k + s), cal)
    BY <1>14, <2>3, <2>4
  <2>6. PlannedDays(r, cal, now)[j] = Q(k).day
    <3>1. PlannedDays(r, cal, now)[j] = Slots(BoxesOf(r), cal, now)[k].day
      BY <1>2, <2>4, PlannedIs
    <3> QED BY <1>6, <1>8, <2>4, <3>1, PlacesAre
  <2>7. PlannedDays(q, cal, now)[j + 1] = P(k + s).day
    <3>1. PlannedDays(q, cal, now)[j + 1] = Slots(BoxesOf(q), cal, now)[k + s].day
      BY <1>1, <2>1, <2>2, <2>4, PlannedIs
    <3>2. k + s \in 1..Len(BoxesOf(q))
      BY <1>6, <1>9, <2>4, SMTT(30)
    <3> QED BY <1>6, <3>1, <3>2, PlacesAre
  <2> HIDE DEF P, Q
  <2>8. Sooner(Q(k).day, P(k + s).day)
    BY <2>5 DEF NotAfter, Sooner, Leads
  <2> QED BY <1>16, <2>6, <2>7, <2>8
<1> QED BY <1>15, <1>16

-----------------------------------------------------------------------------
(* The dates of the orders. *)

\* So many working days on.
LEMMA ShiftIs ==
    ASSUME NEW cal, NEW start \in Days, NEW days \in Int
    PROVE  /\ ShiftWorkingDays(start, days, cal) \in Days
           /\ Sooner(start, ShiftWorkingDays(start, days, cal))
           /\ ShiftWorkingDays(start, days, cal) # Refused
                => IsWorking(ShiftWorkingDays(start, days, cal), cal)
<1>1. CASE start = Refused \/ days < 0
  BY <1>1 DEF ShiftWorkingDays, Days, Sooner
<1>2. CASE start # Refused /\ ~ (days < 0)
  <2> DEFINE Is(f) == f = [n \in 0..days |-> IF n = 0 THEN EnsureWorkingDay(start, cal)
                                                      ELSE NextWorkingDay(f[n - 1], cal)]
             V == {d \in Days : Sooner(start, d) /\ (d # Refused => IsWorking(d, cal))}
  <2>1. days \in Nat /\ start \in Nat
    BY <1>2 DEF Days
  <2>2. EnsureWorkingDay(start, cal) \in V
    <3>1. PICK d : d = EnsureWorkingDay(start, cal)
      OBVIOUS
    <3>2. d \in Days /\ (d # Refused => d \in start..(start + Lookahead - 1) /\ IsWorking(d, cal))
      BY <2>1, <3>1, EnsureIs
    <3>3. d # Refused => start <= d
      BY <2>1, <3>2, LookaheadAssumption
    <3> QED BY <1>2, <3>1, <3>2, <3>3 DEF Sooner
  <2>3. ASSUME NEW d \in V PROVE NextWorkingDay(d, cal) \in V
    <3>1. PICK e : e = NextWorkingDay(d, cal)
      OBVIOUS
    <3>2. e \in Days /\ (e # Refused => d # Refused /\ e > d /\ IsWorking(e, cal))
      BY <2>3, <3>1, NextIs
    <3>3. e # Refused => start <= e
      BY <2>1, <3>2, <2>3 DEF Days, Sooner
    <3> QED BY <1>2, <3>1, <3>2, <3>3 DEF Sooner
  <2> HIDE DEF V
  <2>4. \E f : Is(f)
    <3> DEFINE step == [n \in 1..days |-> [d \in V |-> NextWorkingDay(d, cal)]]
    <3>1. step \in Steps(days, V)
      BY <2>3 DEF Steps
    <3>2. \A n \in 1..days : \A d \in V : step[n][d] = NextWorkingDay(d, cal)
      OBVIOUS
    <3> HIDE DEF step
    <3>3. PICK f : Follows(f, days, V, EnsureWorkingDay(start, cal), step)
      BY <2>1, <2>2, <3>1, StepByStep
    <3>4. \A n \in 0..days : f[n] = IF n = 0 THEN EnsureWorkingDay(start, cal)
                                             ELSE NextWorkingDay(f[n - 1], cal)
      <4> TAKE n \in 0..days
      <4>1. CASE n # 0
        <5>1. n \in 1..days /\ n - 1 \in 0..days
          BY <2>1, <4>1
        <5>2. f[n - 1] \in V /\ f[n] = step[n][f[n - 1]]
          BY <3>3, <5>1 DEF Follows
        <5> QED BY <3>2, <4>1, <5>1, <5>2
      <4> QED BY <3>3, <4>1 DEF Follows
    <3>5. f = [n \in 0..days |-> f[n]]
      BY <3>3 DEF Follows
    <3>6. [n \in 0..days |-> f[n]] = [n \in 0..days |-> IF n = 0 THEN EnsureWorkingDay(start, cal)
                                                      ELSE NextWorkingDay(f[n - 1], cal)]
      BY <3>4, Zenon
    <3> QED BY <3>5, <3>6, Zenon
  <2>5. PICK f : Is(f) /\ ShiftWorkingDays(start, days, cal) = f[days]
    <3> DEFINE shifted == CHOOSE f : Is(f)
    <3>1. Is(shifted)
      BY <2>4
    <3>2. ShiftWorkingDays(start, days, cal) = shifted[days]
      BY <1>2 DEF ShiftWorkingDays
    <3> QED BY <3>1, <3>2
  <2>6. f[0] \in V
    <3>1. f[0] = EnsureWorkingDay(start, cal)
      BY <2>1, <2>5
    <3> QED BY <2>2, <3>1
  <2>7. ASSUME NEW n \in 1..days, f[n - 1] \in V PROVE f[n] \in V
    <3>1. f[n] = NextWorkingDay(f[n - 1], cal)
      BY <2>1, <2>5
    <3> QED BY <2>3, <2>7, <3>1
  <2> HIDE DEF Is
  <2>8. \A n \in 0..days : f[n] \in V
    BY <2>1, <2>6, <2>7, AllAlong
  <2>9. f[days] \in V
    BY <2>1, <2>8
  <2> QED BY <2>5, <2>9 DEF V
<1> QED BY <1>1, <1>2

Entry == [video : Nat, plain : Nat, days : Nat \ {0}, start : Nat, promised : Days, excused : BOOLEAN]

Entries == {e \in Entry : e.video + e.plain > 0}

LEMMA LineLined ==
    ASSUME NEW q \in Seq(Entries)
    PROVE  Lined(q) /\ DOMAIN q = 1..Len(q) /\ Len(q) \in Nat /\ \A i \in 1..Len(q) : q[i] \in Entries
<1>1. \A i \in 1..Len(q) : q[i] \in Entries
  OBVIOUS
<1>2. q \in Seq({q[i] : i \in DOMAIN q})
  OBVIOUS
<1>3. ASSUME NEW i \in 1..Len(q) PROVE q[i].video \in Nat /\ q[i].plain \in Nat /\ Size(q[i]) > 0
  <2>1. q[i] \in Entry /\ q[i].video + q[i].plain > 0
    BY <1>1 DEF Entries
  <2> QED BY <2>1 DEF Entry, Size
<1> QED BY <1>1, <1>2, <1>3 DEF Lined

LEMMA EarliestIs ==
    ASSUME NEW cal, NEW e \in Entries
    PROVE  /\ EarliestReady(e, cal) \in Days
           /\ EarliestReady(e, cal) # Refused => IsWorking(EarliestReady(e, cal), cal)
<1>1. e.start \in Days /\ e.days - 1 \in Int
  BY DEF Entries, Entry, Days
<1>2. NextWorkingDay(e.start, cal) \in Days
  BY <1>1, NextIs
<1> QED BY <1>1, <1>2, ShiftIs DEF EarliestReady

LEMMA LaterIs ==
    ASSUME NEW d \in Days, NEW e \in Days
    PROVE  /\ Later(d, e) \in Days
           /\ Later(d, e) # Refused => d # Refused /\ e # Refused /\ d <= Later(d, e) /\ e <= Later(d, e)
           /\ d # Refused /\ e # Refused => Later(d, e) # Refused
           /\ Later(d, e) = d \/ Later(d, e) = e
BY DEF Later, Days, Refused

\* The date of an order: of its last box, or when its term is over.
LEMMA ReadyIs ==
    ASSUME NEW q \in Seq(Entries), NEW cal \in Calendars, NEW now \in Nat, NEW i \in 1..Len(q)
    PROVE  /\ ReadyDates(q, cal, now)[i] = Later(PlannedDays(q, cal, now)[i], EarliestReady(q[i], cal))
           /\ PlannedDays(q, cal, now)[i] \in Days /\ EarliestReady(q[i], cal) \in Days
           /\ ReadyDates(q, cal, now)[i] \in Days
           /\ DOMAIN ReadyDates(q, cal, now) = 1..Len(q)
<1>1. Lined(q) /\ DOMAIN q = 1..Len(q) /\ q[i] \in Entries
  BY LineLined
<1>2. /\ ReadyDates(q, cal, now)[i] = Later(PlannedDays(q, cal, now)[i], EarliestReady(q[i], cal))
      /\ DOMAIN ReadyDates(q, cal, now) = 1..Len(q)
  BY <1>1 DEF ReadyDates
<1>3. PICK T : Laid(q, T)
  BY <1>1, BoxesLaid
<1>4. PlannedDays(q, cal, now)[i] = Slots(BoxesOf(q), cal, now)[T[i]].day
  BY <1>1, <1>3, PlannedIs
<1>5. T[i] \in 1..Len(BoxesOf(q)) /\ BoxesOf(q) \in Seq(Box)
  BY <1>1, <1>3, LastBox DEF Laid
<1>6. Slots(BoxesOf(q), cal, now)[T[i]] \in Places
  <2>1. T[i] \in 0..Len(BoxesOf(q))
    BY <1>5
  <2> QED BY <1>5, <2>1, PlacesAre
<1>7. PlannedDays(q, cal, now)[i] \in Days
  BY <1>4, <1>6 DEF Places
<1> QED BY <1>1, <1>2, <1>7, EarliestIs, LaterIs

-----------------------------------------------------------------------------
(* Nobody is late but for a reason. *)

SameTerm(e, f) == e.start = f.start /\ e.days = f.days

\* Orders with the same boxes before them and the same term have the same date.
LEMMA SameReady ==
    ASSUME NEW q \in Seq(Entries), NEW r \in Seq(Entries), NEW n, SameTill(q, r, n),
           NEW cal \in Calendars, NEW now \in Nat, NEW then \in Nat,
           EnsureWorkingDay(now, cal) = EnsureWorkingDay(then, cal),
           NEW i \in 1..n, SameTerm(q[i], r[i])
    PROVE  ReadyDates(q, cal, now)[i] = ReadyDates(r, cal, then)[i]
<1>1. Lined(q) /\ Lined(r) /\ i \in 1..Len(q) /\ i \in 1..Len(r)
  BY LineLined DEF SameTill
<1>2. PlannedDays(q, cal, now)[i] = PlannedDays(r, cal, then)[i]
  BY <1>1, SamePlanned
<1>3. EarliestReady(q[i], cal) = EarliestReady(r[i], cal)
  BY DEF EarliestReady, SameTerm
<1>4. ReadyDates(q, cal, now)[i] = Later(PlannedDays(q, cal, now)[i], EarliestReady(q[i], cal))
  BY <1>1, ReadyIs
<1>5. ReadyDates(r, cal, then)[i] = Later(PlannedDays(r, cal, then)[i], EarliestReady(r[i], cal))
  BY <1>1, ReadyIs
<1> QED BY <1>2, <1>3, <1>4, <1>5

\* An order that leaves delays nobody.
LEMMA LeavingReady ==
    ASSUME NEW q \in Seq(Entries), NEW r \in Seq(Entries), NEW i, Without(q, r, i),
           NEW cal \in Calendars, NEW now \in Nat, NEW j \in 1..Len(r)
    PROVE  Sooner(ReadyDates(r, cal, now)[j], ReadyDates(q, cal, now)[IF j < i THEN j ELSE j + 1])
<1>1. PICK h : h = IF j < i THEN j ELSE j + 1
  OBVIOUS
<1>2. Lined(q) /\ Lined(r) /\ h \in 1..Len(q) /\ r[j] = q[h]
  BY <1>1, LineLined DEF Without
<1>3. PICK a \in Days : a = PlannedDays(r, cal, now)[j]
  BY ReadyIs
<1>4. PICK b \in Days : b = PlannedDays(q, cal, now)[h]
  BY <1>2, ReadyIs
<1>5. PICK e \in Days : e = EarliestReady(q[h], cal)
  BY <1>2, ReadyIs
<1>6. Sooner(a, b)
  BY <1>1, <1>2, <1>3, <1>4, LeavingPlanned
<1>7. ReadyDates(r, cal, now)[j] = Later(a, e)
  BY <1>2, <1>3, <1>5, ReadyIs
<1>8. ReadyDates(q, cal, now)[h] = Later(b, e)
  BY <1>2, <1>4, <1>5, ReadyIs
<1>9. Sooner(Later(a, e), Later(b, e))
  BY <1>6 DEF Sooner, Later, Days, Refused
<1> QED BY <1>1, <1>7, <1>8, <1>9

\* The date an order has been promised holds, unless it may rightly have moved.
Kept(e, d) == e.excused \/ (d # Refused /\ d <= e.promised)

WorkshopInv ==
    /\ today \in Nat
    /\ calendar \in Calendars
    /\ line \in Seq(Entries)
    /\ \A i \in 1..Len(line) : Kept(line[i], ReadyNow[i])

\* Whose dates may move has nothing to keep.
LEMMA ExcusedKept ==
    ASSUME NEW q \in Seq(Entries)
    PROVE  /\ Excused(q) \in Seq(Entries) /\ Len(Excused(q)) = Len(q)
           /\ \A i \in 1..Len(q) : Excused(q)[i].excused /\ Excused(q)[i] \in Entries
<1>1. DOMAIN q = 1..Len(q) /\ Len(q) \in Nat /\ \A i \in 1..Len(q) : q[i] \in Entries
  BY LineLined
<1>2. \A e \in Entries : [e EXCEPT !.excused = TRUE] \in Entries /\ [e EXCEPT !.excused = TRUE].excused
  BY DEF Entries, Entry
<1>3. Excused(q) = [i \in 1..Len(q) |-> [q[i] EXCEPT !.excused = TRUE]]
  BY <1>1 DEF Excused
<1>4. \A i \in 1..Len(q) : Excused(q)[i] = [q[i] EXCEPT !.excused = TRUE]
  BY <1>3
<1>5. \A i \in 1..Len(q) : Excused(q)[i] \in Entries /\ Excused(q)[i].excused
  BY <1>1, <1>2, <1>4
<1>6. PICK n \in Nat : n = Len(q)
  BY <1>1
<1>7. Excused(q) \in [1..n -> Entries]
  BY <1>3, <1>5, <1>6
<1>8. Excused(q) \in Seq(Entries) /\ Len(Excused(q)) = n
  BY <1>7
<1> QED BY <1>5, <1>6, <1>8

\* What the customer is told holds of the queue with her order in it.
LEMMA PayKeeps ==
    ASSUME WorkshopInv, NEW b \in Baskets, NEW lead \in LeadDays, PayInto(b, lead)
    PROVE  WorkshopInv'
<1>1. today \in Nat /\ calendar \in Calendars /\ line \in Seq(Entries)
  BY DEF WorkshopInv
<1>2. PICK cal \in Calendars : cal = calendar
  BY <1>1
<1>3. PICK now \in Nat : now = today
  BY <1>1
<1>4. PICK old \in Seq(Entries) : old = line
  BY <1>1
<1>5. PICK e : e = NewEntry(b)
  OBVIOUS
<1>6. e \in Entries
  <2>1. b.video \in Nat /\ b.plain \in Nat /\ b.video + b.plain > 0 /\ b.days \in Nat \ {0}
    BY BasketsAssumption
  <2>2. e = [video |-> b.video, plain |-> b.plain, days |-> b.days,
             start |-> now, promised |-> Refused, excused |-> FALSE]
    BY <1>3, <1>5 DEF NewEntry
  <2> QED BY <2>1, <2>2 DEF Entries, Entry, Days
<1>7. PICK q : q = Append(old, e)
  OBVIOUS
<1>8. PICK n : n = Len(old) + 1
  OBVIOUS
<1>9. /\ q \in Seq(Entries) /\ Len(q) = n /\ q[n] = e /\ n \in Nat /\ n # 0 /\ Len(old) = n - 1
      /\ \A i \in 1..(n - 1) : q[i] = old[i]
  BY <1>4, <1>6, <1>7, <1>8
<1>10. PICK told : told = PromisedDate(ReadyDates(q, cal, now)[n], lead, cal)
  OBVIOUS
<1>11. /\ Dated(ReadyDates(q, cal, now)) /\ told # Refused
       /\ line' = [q EXCEPT ![n].promised = told]
       /\ calendar' = cal /\ today' = now
  BY <1>2, <1>3, <1>4, <1>5, <1>7, <1>9, <1>10 DEF PayInto
<1>12. PICK new : new = [q EXCEPT ![n].promised = told]
  OBVIOUS
<1>13. n \in 1..Len(q) /\ n \in 1..n
  BY <1>9
<1>14. PICK d \in Days : d = ReadyDates(q, cal, now)[n]
  BY <1>9, <1>13, ReadyIs
<1>15. d # Refused
  BY <1>9, <1>11, <1>13, <1>14, ReadyIs DEF Dated
<1>16. told \in Days /\ d <= told
  <2>1. lead \in Nat
    BY LookaheadAssumption
  <2>2. CASE lead <= 0
    BY <1>10, <1>14, <1>15, <2>2 DEF PromisedDate, Days
  <2>3. CASE ~ (lead <= 0)
    <3>1. told = ShiftWorkingDays(d, lead, cal)
      BY <1>10, <1>14, <2>3 DEF PromisedDate
    <3>2. lead \in Int
      BY <2>1
    <3> QED BY <1>11, <3>1, <3>2, ShiftIs DEF Sooner
  <2> QED BY <2>2, <2>3
<1>17. /\ new \in Seq(Entries) /\ Len(new) = n
       /\ \A i \in 1..(n - 1) : new[i] = old[i]
       /\ new[n].promised = told /\ Alike(new[n], q[n]) /\ SameTerm(new[n], q[n])
  <2>1. PICK f : f = [e EXCEPT !.promised = told]
    OBVIOUS
  <2>2. f \in Entries /\ f.promised = told /\ Alike(f, e) /\ SameTerm(f, e)
    BY <1>6, <1>16, <2>1 DEF Entries, Entry, Alike, SameTerm
  <2>3. new = [q EXCEPT ![n] = f]
    BY <1>9, <1>12, <2>1
  <2>4. new[n] = f /\ \A i \in 1..(n - 1) : new[i] = q[i]
    BY <1>9, <1>13, <2>3
  <2>5. new \in Seq(Entries) /\ Len(new) = n
    BY <1>9, <1>13, <2>2, <2>3
  <2> QED BY <1>9, <2>2, <2>4, <2>5
<1>18. ASSUME NEW i \in 1..n PROVE Kept(new[i], ReadyDates(new, cal, now)[i])
  <2>1. CASE i = n
    <3>1. SameTill(new, q, n)
      BY <1>9, <1>17 DEF SameTill, Alike
    <3>2. ReadyDates(new, cal, now)[n] = ReadyDates(q, cal, now)[n]
      BY <1>9, <1>13, <1>17, <3>1, SameReady
    <3> QED BY <1>14, <1>15, <1>16, <1>17, <2>1, <3>2 DEF Kept
  <2>2. CASE i # n
    <3>1. PICK m : m = n - 1
      OBVIOUS
    <3>2. SameTill(new, old, m) /\ i \in 1..m /\ SameTerm(new[i], old[i]) /\ new[i] = old[i]
      BY <1>9, <1>17, <2>2, <3>1 DEF SameTill, Alike, SameTerm
    <3>3. ReadyDates(new, cal, now)[i] = ReadyDates(old, cal, now)[i]
      BY <1>17, <3>2, SameReady
    <3>4. Kept(old[i], ReadyDates(old, cal, now)[i])
      BY <1>2, <1>3, <1>4, <1>9, <3>1, <3>2 DEF WorkshopInv, ReadyNow
    <3> QED BY <3>2, <3>3, <3>4
  <2> QED BY <2>1, <2>2
<1>19. line' = new
  BY <1>11, <1>12
<1>20. \A i \in 1..Len(line') : Kept(line'[i], ReadyNow'[i])
  BY <1>11, <1>17, <1>18, <1>19 DEF ReadyNow
<1> QED BY <1>11, <1>17, <1>19, <1>20 DEF WorkshopInv

LEMMA LeaveKeeps ==
    ASSUME WorkshopInv, NEW i \in DOMAIN line, LeaveLine(i)
    PROVE  WorkshopInv'
<1>1. today \in Nat /\ calendar \in Calendars /\ line \in Seq(Entries)
  BY DEF WorkshopInv
<1>2. PICK old \in Seq(Entries) : old = line
  BY <1>1
<1>3. PICK new : new = RemoveAt(old, i)
  OBVIOUS
<1>4. line' = new /\ calendar' = calendar /\ today' = today
  BY <1>2, <1>3 DEF LeaveLine
<1>5. i \in 1..Len(old)
  BY <1>2
<1>6. new \in Seq(Entries) /\ Without(old, new, i)
  BY <1>3, <1>5, RemoveAtIs DEF Without
<1>7. ASSUME NEW j \in 1..Len(new) PROVE Kept(new[j], ReadyDates(new, calendar, today)[j])
  <2>1. PICK h : h = IF j < i THEN j ELSE j + 1
    OBVIOUS
  <2>2. h \in 1..Len(old) /\ new[j] = old[h]
    BY <1>5, <1>6, <2>1, LineLined DEF Without
  <2>3. Kept(old[h], ReadyDates(old, calendar, today)[h])
    BY <1>2, <2>2 DEF WorkshopInv, ReadyNow
  <2>4. Sooner(ReadyDates(new, calendar, today)[j], ReadyDates(old, calendar, today)[h])
    BY <1>1, <1>6, <2>1, LeavingReady
  <2>5. old[h] \in Entries /\ ReadyDates(new, calendar, today)[j] \in Days
        /\ ReadyDates(old, calendar, today)[h] \in Days
    BY <1>1, <1>6, <2>2, ReadyIs, LineLined
  <2>6. PICK a \in Days : a = ReadyDates(new, calendar, today)[j]
    BY <2>5
  <2>7. PICK b \in Days : b = ReadyDates(old, calendar, today)[h]
    BY <2>5
  <2>8. old[h].promised \in Days
    BY <2>5 DEF Entries, Entry
  <2>9. Sooner(a, b) /\ Kept(old[h], b)
    BY <2>3, <2>4, <2>6, <2>7
  <2>10. Kept(old[h], a)
    BY <2>8, <2>9 DEF Kept, Sooner, Days, Refused
  <2> QED BY <2>2, <2>6, <2>10
<1> QED BY <1>1, <1>4, <1>6, <1>7 DEF WorkshopInv, ReadyNow

\* A day off moves no date.
LEMMA DayOff ==
    ASSUME NEW cal, NEW now \in Nat, ~IsWorking(now, cal), EnsureWorkingDay(now, cal) # Refused
    PROVE  EnsureWorkingDay(now + 1, cal) = EnsureWorkingDay(now, cal)
<1>1. PICK d : d = EnsureWorkingDay(now, cal)
  OBVIOUS
<1>2. PICK e : e = EnsureWorkingDay(now + 1, cal)
  OBVIOUS
<1>3. /\ d \in now..(now + Lookahead - 1) /\ IsWorking(d, cal)
      /\ \A x \in now..(d - 1) : ~IsWorking(x, cal)
  BY <1>1, EnsureIs
<1>4. /\ e \in Days
      /\ e = Refused <=> \A x \in (now + 1)..((now + 1) + Lookahead - 1) : ~IsWorking(x, cal)
      /\ e # Refused => /\ e \in (now + 1)..((now + 1) + Lookahead - 1) /\ IsWorking(e, cal)
                        /\ \A x \in (now + 1)..(e - 1) : ~IsWorking(x, cal)
  BY <1>2, EnsureIs
<1>5. d # now /\ d \in Nat
  BY <1>3, LookaheadAssumption
<1>6. d \in (now + 1)..((now + 1) + Lookahead - 1)
  BY <1>3, <1>5, LookaheadAssumption
<1>7. e # Refused
  BY <1>3, <1>4, <1>6
<1>8. e \in Nat /\ ~ (e < d) /\ ~ (d < e)
  BY <1>3, <1>4, <1>5, <1>6, <1>7, LookaheadAssumption
<1> QED BY <1>1, <1>2, <1>5, <1>8

\* Without a first day there are no dates.
LEMMA NoFirstDay ==
    ASSUME NEW q \in Seq(Entries), NEW cal \in Calendars, NEW now \in Nat,
           EnsureWorkingDay(now, cal) = Refused, NEW i \in 1..Len(q)
    PROVE  ReadyDates(q, cal, now)[i] = Refused
<1>1. PICK T : Laid(q, T)
  BY LineLined, BoxesLaid
<1>2. Lined(q)
  BY LineLined
<1>3. BoxesOf(q) \in Seq(Box) /\ T[i] \in 1..Len(BoxesOf(q)) /\ Len(BoxesOf(q)) \in Nat
  <2>1. BoxesOf(q) \in Seq(Box)
    BY <1>1 DEF Laid
  <2>2. Len(BoxesOf(q)) \in Nat
    BY <2>1
  <2>3. T[i] \in 1..Len(BoxesOf(q))
    BY <1>1, <1>2, LastBox
  <2> QED BY <2>1, <2>2, <2>3
<1>4. PICK k \in 1..Len(BoxesOf(q)) : k = T[i]
  BY <1>3
<1> DEFINE P(h) == PlaceAt(BoxesOf(q), cal, now, h)
<1>5. NotAfter(P(0), P(0 + k), cal)
  <2>1. 0 \in 0..Len(BoxesOf(q)) /\ k \in Nat /\ 0 + k <= Len(BoxesOf(q))
    BY <1>3, <1>4
  <2> QED BY <1>3, <2>1, PlacesInOrder
<1>6. P(0).day = Refused
  BY DEF PlaceAt, FirstPlace
<1>7. P(k).day = Refused
  <2>1. 0 + k = k
    BY <1>4
  <2> HIDE DEF P
  <2> QED BY <1>5, <1>6, <2>1 DEF NotAfter
<1>8. PlannedDays(q, cal, now)[i] = Slots(BoxesOf(q), cal, now)[k].day
  BY <1>1, <1>2, <1>4, PlannedIs
<1>9. PlannedDays(q, cal, now)[i] = Refused
  BY <1>3, <1>4, <1>7, <1>8, PlacesAre
<1> QED BY <1>9, ReadyIs, LaterIs

LEMMA DayKeeps ==
    ASSUME WorkshopInv, DayPasses
    PROVE  WorkshopInv'
<1>1. today \in Nat /\ calendar \in Calendars /\ line \in Seq(Entries)
  BY DEF WorkshopInv
<1>2. calendar' = calendar /\ today' = today + 1 /\ today' \in Nat
  BY <1>1 DEF DayPasses
<1>3. CASE IsWorking(today, calendar)
  <2>1. line' = Excused(line)
    BY <1>3 DEF DayPasses
  <2> QED BY <1>1, <1>2, <2>1, ExcusedKept DEF WorkshopInv, Kept
<1>4. CASE ~IsWorking(today, calendar)
  <2>1. line' = line
    BY <1>4 DEF DayPasses
  <2>2. ASSUME NEW i \in 1..Len(line) PROVE Kept(line[i], ReadyDates(line, calendar, today + 1)[i])
    <3>1. Kept(line[i], ReadyDates(line, calendar, today)[i])
      BY DEF WorkshopInv, ReadyNow
    <3>2. CASE EnsureWorkingDay(today, calendar) = Refused
      <4>1. ReadyDates(line, calendar, today)[i] = Refused
        BY <1>1, <3>2, NoFirstDay
      <4> QED BY <3>1, <4>1 DEF Kept
    <3>3. CASE EnsureWorkingDay(today, calendar) # Refused
      <4>1. EnsureWorkingDay(today + 1, calendar) = EnsureWorkingDay(today, calendar)
        BY <1>1, <1>4, <3>3, DayOff
      <4>2. PICK n : n = Len(line)
        OBVIOUS
      <4>3. SameTill(line, line, n) /\ i \in 1..n /\ SameTerm(line[i], line[i])
        BY <1>1, <4>2 DEF SameTill, Alike, SameTerm
      <4>4. today + 1 \in Nat
        BY <1>1
      <4>5. ReadyDates(line, calendar, today)[i] = ReadyDates(line, calendar, today + 1)[i]
        BY <1>1, <4>1, <4>3, <4>4, SameReady
      <4> QED BY <3>1, <4>5
    <3> QED BY <3>2, <3>3
  <2> QED BY <1>1, <1>2, <2>1, <2>2 DEF WorkshopInv, ReadyNow
<1> QED BY <1>3, <1>4

LEMMA SwapKeeps ==
    ASSUME WorkshopInv, NEW i \in DOMAIN line, SwapCards(i)
    PROVE  WorkshopInv'
<1>1. today \in Nat /\ calendar \in Calendars /\ line \in Seq(Entries)
  BY DEF WorkshopInv
<1>2. calendar' = calendar /\ today' = today /\ i + 1 \in DOMAIN line
  BY DEF SwapCards
<1>3. PICK q : q = [line EXCEPT ![i] = line[i + 1], ![i + 1] = line[i]]
  OBVIOUS
<1>4. q \in Seq(Entries)
  <2>1. PICK old \in Seq(Entries) : old = line
    BY <1>1
  <2>2. PICK n \in Nat : n = Len(old)
    OBVIOUS
  <2>3. old \in [1..n -> Entries] /\ i \in 1..n /\ i + 1 \in 1..n
    BY <1>2, <2>1, <2>2
  <2>4. PICK x \in Entries : x = old[i + 1]
    BY <2>3
  <2>5. PICK y \in Entries : y = old[i]
    BY <2>3
  <2>6. q = [[old EXCEPT ![i] = x] EXCEPT ![i + 1] = y]
    BY <1>3, <2>1, <2>4, <2>5
  <2>7. q \in [1..n -> Entries]
    BY <2>3, <2>6
  <2> QED BY <2>2, <2>7
<1>5. line' = Excused(q)
  BY <1>3 DEF SwapCards
<1> QED BY <1>1, <1>2, <1>4, <1>5, ExcusedKept DEF WorkshopInv, Kept

LEMMA WorkshopInvKept == WorkshopInv /\ [WorkshopNext]_workshopVars => WorkshopInv'
<1> SUFFICES ASSUME WorkshopInv, [WorkshopNext]_workshopVars PROVE WorkshopInv'
  OBVIOUS
<1>1. CASE UNCHANGED workshopVars
  BY <1>1 DEF workshopVars, WorkshopInv, ReadyNow
<1>2. ASSUME NEW c \in Calendars, SaveCalendar(c) PROVE WorkshopInv'
  <2>1. line \in Seq(Entries) /\ today' \in Nat /\ calendar' \in Calendars /\ line' = Excused(line)
    BY <1>2 DEF SaveCalendar, WorkshopInv
  <2> QED BY <2>1, ExcusedKept DEF WorkshopInv, Kept
<1> QED BY <1>1, <1>2, PayKeeps, LeaveKeeps, SwapKeeps, DayKeeps DEF WorkshopNext

LEMMA WorkshopInvStarts == WorkshopInit => WorkshopInv
<1> SUFFICES ASSUME WorkshopInit PROVE WorkshopInv
  OBVIOUS
<1>1. line = <<>> /\ today = 0 /\ calendar \in Calendars
  BY CalendarsAssumption DEF WorkshopInit
<1>2. line \in Seq(Entries) /\ Len(line) = 0
  BY <1>1
<1> QED BY <1>1, <1>2 DEF WorkshopInv

LEMMA WorkshopInvHolds == WorkshopSpec => []WorkshopInv
BY WorkshopInvStarts, WorkshopInvKept, PTL DEF WorkshopSpec

\* An order is behind the date its customer was told only if a working day passed, the owner
\* changed the calendar or moved cards since: whatever others pay for or cancel, in whatever
\* queue, with whatever calendar (compute_ready_dates, PAYMENT and removal in board.py).
THEOREM WorkshopLateForAReason == WorkshopSpec => []LateForAReason
<1>1. WorkshopInv => LateForAReason
  <2> SUFFICES ASSUME WorkshopInv, NEW i \in DOMAIN line
               PROVE  line[i].excused \/ ~IsLate(line[i], ReadyNow[i])
    BY DEF LateForAReason
  <2>1. i \in 1..Len(line) /\ line[i] \in Entries /\ ReadyNow[i] \in Days
    BY ReadyIs, LineLined DEF WorkshopInv, ReadyNow
  <2>2. Kept(line[i], ReadyNow[i])
    BY <2>1 DEF WorkshopInv
  <2> QED BY <2>1, <2>2 DEF Kept, IsLate, Entries, Entry, Days, Refused
<1> QED BY <1>1, WorkshopInvHolds, PTL

-----------------------------------------------------------------------------
(* What others do to the dates. *)

LEMMA NewEntryIs ==
    ASSUME today \in Nat, NEW b \in Baskets
    PROVE  NewEntry(b) \in Entries
<1>1. b.video \in Nat /\ b.plain \in Nat /\ b.video + b.plain > 0 /\ b.days \in Nat \ {0}
  BY BasketsAssumption
<1>2. NewEntry(b) = [video |-> b.video, plain |-> b.plain, days |-> b.days,
                     start |-> today, promised |-> Refused, excused |-> FALSE]
  BY DEF NewEntry
<1> QED BY <1>1, <1>2 DEF Entries, Entry, Days

\* The same place, a working day on.
DayOn(a, b, cal) == b.day = NextWorkingDay(a.day, cal) /\ b.used = a.used

LEMMA DayOnKept ==
    ASSUME NEW cal, NEW a \in Places, NEW b \in Places, NEW u \in Nat, DayOn(a, b, cal)
    PROVE  DayOn(NextSlot(a, u, cal), NextSlot(b, u, cal), cal)
<1>1. PICK x : x = NextSlot(a, u, cal)
  OBVIOUS
<1>2. PICK y : y = NextSlot(b, u, cal)
  OBVIOUS
<1>3. /\ a.used + u > DayUnits(cal) => x.day = NextWorkingDay(a.day, cal) /\ x.used = u
      /\ ~ (a.used + u > DayUnits(cal)) => x.day = a.day /\ x.used = a.used + u
  BY <1>1, NextPlace
<1>4. /\ b.used + u > DayUnits(cal) => y.day = NextWorkingDay(b.day, cal) /\ y.used = u
      /\ ~ (b.used + u > DayUnits(cal)) => y.day = b.day /\ y.used = b.used + u
  BY <1>2, NextPlace
<1>5. b.used = a.used /\ b.day = NextWorkingDay(a.day, cal)
  BY DEF DayOn
<1>6. DayOn(x, y, cal)
  <2>1. CASE a.used + u > DayUnits(cal)
    BY <1>3, <1>4, <1>5, <2>1 DEF DayOn
  <2>2. CASE ~ (a.used + u > DayUnits(cal))
    BY <1>3, <1>4, <1>5, <2>2 DEF DayOn
  <2> QED BY <2>1, <2>2
<1> QED BY <1>1, <1>2, <1>6

\* A working day that passes moves the work by a working day.
LEMMA DayOnPlaces ==
    ASSUME NEW boxes \in Seq(Box), NEW cal \in Calendars, NEW now \in Nat, IsWorking(now, cal)
    PROVE  \A k \in 0..Len(boxes) : DayOn(PlaceAt(boxes, cal, now, k), PlaceAt(boxes, cal, now + 1, k), cal)
<1> DEFINE P(k) == PlaceAt(boxes, cal, now, k)
           Q(k) == PlaceAt(boxes, cal, now + 1, k)
           G == {k \in Nat : DayOn(P(k), Q(k), cal)}
<1>1. now + 1 \in Nat /\ Len(boxes) \in Nat
  OBVIOUS
<1>2. DayOn(FirstPlace(cal, now), FirstPlace(cal, now + 1), cal)
  <2>1. PICK d : d = EnsureWorkingDay(now, cal)
    OBVIOUS
  <2>2. /\ d \in Days
        /\ d = Refused <=> \A x \in now..(now + Lookahead - 1) : ~IsWorking(x, cal)
        /\ d # Refused => /\ d \in now..(now + Lookahead - 1)
                          /\ \A x \in now..(d - 1) : ~IsWorking(x, cal)
    BY <2>1, EnsureIs
  <2>3. now \in now..(now + Lookahead - 1)
    BY LookaheadAssumption
  <2>4. d = now
    BY <2>2, <2>3, LookaheadAssumption
  <2>5. NextWorkingDay(now, cal) = EnsureWorkingDay(now + 1, cal)
    BY DEF NextWorkingDay, Refused
  <2> QED BY <2>1, <2>4, <2>5 DEF DayOn, FirstPlace
<1>3. 0 \in G
  BY <1>2 DEF PlaceAt
<1>4. \A k \in 0..(Len(boxes) - 1) : k \in G => k + 1 \in G
  <2> TAKE k \in 0..(Len(boxes) - 1)
  <2> HAVE k \in G
  <2>1. k + 1 \in 1..Len(boxes) /\ (k + 1) - 1 = k /\ k + 1 \in Nat /\ k \in 0..Len(boxes)
    BY <1>1
  <2>2. P(k + 1) = NextSlot(P((k + 1) - 1), Units(boxes, cal, k + 1), cal)
    BY <2>1, PlacesAre
  <2>3. Q(k + 1) = NextSlot(Q((k + 1) - 1), Units(boxes, cal, k + 1), cal)
    BY <1>1, <2>1, PlacesAre
  <2>4. P(k) \in Places /\ Q(k) \in Places /\ Units(boxes, cal, k + 1) \in Nat /\ DayOn(P(k), Q(k), cal)
    BY <1>1, <2>1, PlacesAre
  <2> HIDE DEF P, Q
  <2>5. DayOn(NextSlot(P(k), Units(boxes, cal, k + 1), cal), NextSlot(Q(k), Units(boxes, cal, k + 1), cal), cal)
    BY <2>4, DayOnKept
  <2> QED BY <2>1, <2>2, <2>3, <2>5
<1> HIDE DEF G
<1>5. \A k \in 0..Len(boxes) : k \in G
  BY <1>1, <1>3, <1>4, CountingUp
<1> QED BY <1>5 DEF G

\* Then an order's date stays or moves by one working day.
LEMMA DayOnReady ==
    ASSUME NEW q \in Seq(Entries), NEW cal \in Calendars, NEW now \in Nat, IsWorking(now, cal),
           NEW i \in 1..Len(q), ReadyDates(q, cal, now)[i] # Refused,
           ReadyDates(q, cal, now + 1)[i] # Refused
    PROVE  ReadyDates(q, cal, now + 1)[i]
            \in {ReadyDates(q, cal, now)[i], NextWorkingDay(ReadyDates(q, cal, now)[i], cal)}
<1>1. PICK T : Laid(q, T)
  BY LineLined, BoxesLaid
<1>2. Lined(q) /\ q[i] \in Entries /\ now + 1 \in Nat
  BY LineLined
<1>3. BoxesOf(q) \in Seq(Box) /\ T[i] \in 1..Len(BoxesOf(q)) /\ Len(BoxesOf(q)) \in Nat
  <2>1. BoxesOf(q) \in Seq(Box)
    BY <1>1 DEF Laid
  <2>2. Len(BoxesOf(q)) \in Nat
    BY <2>1
  <2>3. T[i] \in 1..Len(BoxesOf(q))
    BY <1>1, <1>2, LastBox
  <2> QED BY <2>1, <2>2, <2>3
<1>4. PICK k \in 1..Len(BoxesOf(q)) : k = T[i]
  BY <1>3
<1>5. PICK a : a = PlaceAt(BoxesOf(q), cal, now, k)
  OBVIOUS
<1>6. PICK b : b = PlaceAt(BoxesOf(q), cal, now + 1, k)
  OBVIOUS
<1>7. k \in 0..Len(BoxesOf(q))
  BY <1>3, <1>4
<1>8. DayOn(a, b, cal)
  BY <1>3, <1>5, <1>6, <1>7, DayOnPlaces
<1>9. a \in Places /\ (a.day # Refused => IsWorking(a.day, cal))
  BY <1>3, <1>5, <1>7, PlacesAre, PlacesWork
<1>10. PICK d \in Days : d = a.day
  BY <1>9 DEF Places
<1>11. PICK e \in Days : e = EarliestReady(q[i], cal)
  BY <1>2, EarliestIs
<1>12. e # Refused => IsWorking(e, cal)
  BY <1>2, <1>11, EarliestIs
<1>13. PlannedDays(q, cal, now)[i] = d
  <2>1. PlannedDays(q, cal, now)[i] = Slots(BoxesOf(q), cal, now)[k].day
    BY <1>1, <1>2, <1>4, PlannedIs
  <2>2. Slots(BoxesOf(q), cal, now)[k] = a
    BY <1>3, <1>4, <1>5, PlacesAre
  <2> QED BY <1>10, <2>1, <2>2
<1>14. PlannedDays(q, cal, now + 1)[i] = NextWorkingDay(d, cal)
  <2>1. PlannedDays(q, cal, now + 1)[i] = Slots(BoxesOf(q), cal, now + 1)[k].day
    BY <1>1, <1>2, <1>4, PlannedIs
  <2>2. Slots(BoxesOf(q), cal, now + 1)[k] = b
    BY <1>2, <1>3, <1>4, <1>6, PlacesAre
  <2> QED BY <1>8, <1>10, <2>1, <2>2 DEF DayOn
<1>15. PICK f \in Days : f = NextWorkingDay(d, cal)
  BY NextIs
<1>16. ReadyDates(q, cal, now)[i] = Later(d, e)
  BY <1>11, <1>13, ReadyIs
<1>17. ReadyDates(q, cal, now + 1)[i] = Later(f, e)
  BY <1>2, <1>11, <1>14, <1>15, ReadyIs
<1>18. d \in Nat /\ e \in Nat /\ f \in Nat /\ d # Refused /\ e # Refused /\ f # Refused /\ f > d
       /\ IsWorking(e, cal)
  <2>1. d # Refused /\ e # Refused /\ f # Refused
    BY <1>16, <1>17, LaterIs
  <2>2. d \in Nat /\ e \in Nat /\ f \in Nat
    BY <2>1 DEF Days
  <2> QED BY <1>12, <1>15, <2>1, <2>2, NextIs
<1>19. CASE e <= d
  <2>1. Later(d, e) = d /\ Later(f, e) = f
    BY <1>18, <1>19 DEF Later
  <2> QED BY <1>15, <1>16, <1>17, <2>1
<1>20. CASE ~ (e <= d)
  <2>1. Leads(d, f, cal)
    BY <1>15, <1>18, LeadsToNext
  <2>2. f <= e
    <3>1. SUFFICES ASSUME e < f PROVE FALSE
      BY <1>18
    <3>2. e \in (d + 1)..(f - 1)
      BY <1>18, <1>20, <3>1
    <3> QED BY <1>15, <1>18, <3>2, NextIs
  <2>3. Later(d, e) = e /\ Later(f, e) = e
    BY <1>18, <1>20, <2>2 DEF Later
  <2> QED BY <1>16, <1>17, <2>3
<1> QED BY <1>19, <1>20

\* A payment moves no date of another order, an order that leaves delays nobody, a day off
\* moves nothing, and a working day moves a date by one working day at most: of every queue,
\* every mixture of boxes and every calendar (compute_ready_dates, board.py).
THEOREM WorkshopOthersDelayNobody == WorkshopSpec => []OthersDelayNobody
<1>1. WorkshopInv => OthersDelayNobody
  <2> SUFFICES ASSUME WorkshopInv PROVE OthersDelayNobody
    OBVIOUS
  <2>1. PICK q \in Seq(Entries) : q = line
    BY DEF WorkshopInv
  <2>2. PICK cal \in Calendars : cal = calendar
    BY DEF WorkshopInv
  <2>3. PICK now \in Nat : now = today
    BY DEF WorkshopInv
  <2>4. PICK ready : ready = ReadyDates(q, cal, now)
    OBVIOUS
  <2>5. SUFFICES ASSUME Dated(ready)
        PROVE /\ \A b \in Baskets : \A i \in DOMAIN q :
                    ReadyDates(Append(q, NewEntry(b)), cal, now)[i] = ready[i]
              /\ \A i \in DOMAIN q : \A j \in DOMAIN ReadyDates(RemoveAt(q, i), cal, now) :
                    ReadyDates(RemoveAt(q, i), cal, now)[j] <= ready[IF j < i THEN j ELSE j + 1]
              /\ Dated(ReadyDates(q, cal, now + 1)) => \A i \in DOMAIN q :
                    IF IsWorking(now, cal)
                    THEN ReadyDates(q, cal, now + 1)[i] \in {ready[i], NextWorkingDay(ready[i], cal)}
                    ELSE ReadyDates(q, cal, now + 1)[i] = ready[i]
    BY <2>1, <2>2, <2>3, <2>4 DEF OthersDelayNobody, ReadyNow
  <2>6. DOMAIN q = 1..Len(q) /\ Len(q) \in Nat
    BY LineLined
  <2>7. \A i \in 1..Len(q) : ready[i] \in Days /\ ready[i] # Refused
    <3>1. \A i \in 1..Len(q) : i \in DOMAIN ready /\ ready[i] \in Days
      BY <2>4, ReadyIs
    <3> QED BY <2>5, <3>1 DEF Dated
  <2>8. ASSUME NEW b \in Baskets, NEW i \in DOMAIN q
        PROVE  ReadyDates(Append(q, NewEntry(b)), cal, now)[i] = ready[i]
    <3>1. PICK e \in Entries : e = NewEntry(b)
      BY <2>3, NewEntryIs
    <3>2. PICK r : r = Append(q, e)
      OBVIOUS
    <3>3. PICK n : n = Len(q)
      OBVIOUS
    <3>4. r \in Seq(Entries) /\ Len(r) = n + 1 /\ (\A h \in 1..n : r[h] = q[h]) /\ i \in 1..n
      BY <2>6, <3>2, <3>3
    <3>5. SameTill(r, q, n) /\ SameTerm(r[i], q[i])
      BY <2>6, <3>3, <3>4 DEF SameTill, Alike, SameTerm
    <3>6. ReadyDates(r, cal, now)[i] = ReadyDates(q, cal, now)[i]
      BY <3>4, <3>5, SameReady
    <3> QED BY <2>4, <3>1, <3>2, <3>6
  <2>9. ASSUME NEW i \in DOMAIN q, NEW j \in DOMAIN ReadyDates(RemoveAt(q, i), cal, now)
        PROVE  ReadyDates(RemoveAt(q, i), cal, now)[j] <= ready[IF j < i THEN j ELSE j + 1]
    <3>1. PICK r : r = RemoveAt(q, i)
      OBVIOUS
    <3>2. i \in 1..Len(q)
      BY <2>6
    <3>3. r \in Seq(Entries) /\ Without(q, r, i)
      BY <3>1, <3>2, RemoveAtIs DEF Without
    <3>4. j \in 1..Len(r)
      <4>1. DOMAIN r = 1..Len(r)
        BY <3>3, LineLined
      <4>2. DOMAIN ReadyDates(r, cal, now) = DOMAIN r
        BY DEF ReadyDates
      <4> QED BY <3>1, <4>1, <4>2
    <3>5. PICK h : h = IF j < i THEN j ELSE j + 1
      OBVIOUS
    <3>6. h \in 1..Len(q)
      BY <2>6, <3>2, <3>3, <3>4, <3>5 DEF Without
    <3>7. Sooner(ReadyDates(r, cal, now)[j], ready[h])
      BY <2>4, <3>3, <3>4, <3>5, LeavingReady
    <3> QED BY <2>7, <3>1, <3>5, <3>6, <3>7 DEF Sooner
  <2>10. ASSUME Dated(ReadyDates(q, cal, now + 1)), NEW i \in DOMAIN q
         PROVE  IF IsWorking(now, cal)
                THEN ReadyDates(q, cal, now + 1)[i] \in {ready[i], NextWorkingDay(ready[i], cal)}
                ELSE ReadyDates(q, cal, now + 1)[i] = ready[i]
    <3>1. i \in 1..Len(q) /\ now + 1 \in Nat /\ i \in DOMAIN ReadyDates(q, cal, now + 1)
      BY <2>6 DEF ReadyDates
    <3>2. ReadyDates(q, cal, now + 1)[i] # Refused
      BY <2>10, <3>1 DEF Dated
    <3>3. ReadyDates(q, cal, now)[i] # Refused
      BY <2>4, <2>7, <3>1
    <3>4. CASE IsWorking(now, cal)
      BY <2>4, <3>1, <3>2, <3>3, <3>4, DayOnReady
    <3>5. CASE ~IsWorking(now, cal)
      <4>1. EnsureWorkingDay(now, cal) # Refused
        BY <3>1, <3>3, NoFirstDay
      <4>2. EnsureWorkingDay(now + 1, cal) = EnsureWorkingDay(now, cal)
        BY <3>5, <4>1, DayOff
      <4>3. PICK n : n = Len(q)
        OBVIOUS
      <4>4. SameTill(q, q, n) /\ i \in 1..n /\ SameTerm(q[i], q[i])
        BY <2>6, <3>1, <4>3 DEF SameTill, Alike, SameTerm
      <4>5. ReadyDates(q, cal, now)[i] = ReadyDates(q, cal, now + 1)[i]
        BY <3>1, <4>2, <4>4, SameReady
      <4> QED BY <2>4, <3>5, <4>5
    <3> QED BY <3>4, <3>5
  <2> QED BY <2>8, <2>9, <2>10
<1> QED BY <1>1, WorkshopInvHolds, PTL

-----------------------------------------------------------------------------
(* The place of one more box. *)

\* The box of an order of one box goes after the last box of the queue.
LEMMA OneBoxNext ==
    ASSUME NEW q \in Seq(Entries), NEW cal \in Calendars, NEW now \in Nat,
           NEW e \in Entries, e.video + e.plain = 1, NEW n, n = Len(q)
    PROVE  PlannedDays(Append(q, e), cal, now)[n + 1]
             = NextSlot(PlaceAt(BoxesOf(q), cal, now, Len(BoxesOf(q))), BoxUnits(e.video = 1, cal), cal).day
<1>1. PICK r : r = Append(q, e)
  OBVIOUS
<1>2. /\ r \in Seq(Entries) /\ Len(r) = n + 1 /\ n \in Nat /\ r[n + 1] = e
      /\ \A i \in 1..n : r[i] = q[i]
  BY <1>1
<1>3. Lined(q) /\ Lined(r) /\ SameTill(q, r, n)
  BY <1>2, LineLined DEF SameTill, Alike
<1>4. PICK T : Laid(q, T)
  BY <1>3, BoxesLaid
<1>5. PICK U : Laid(r, U)
  BY <1>3, BoxesLaid
<1>6. Size(r[n + 1]) = 1 /\ n + 1 \in 1..Len(r) /\ (n + 1) - 1 = n /\ n \in 0..n /\ n \in 0..Len(r)
  BY <1>2 DEF Size
<1>7. U \in [0..Len(r) -> Nat] /\ T \in [0..Len(q) -> Nat]
  BY <1>4, <1>5 DEF Laid
<1>8. PICK c \in Nat : c = U[n]
  BY <1>6, <1>7
<1>9. U[n + 1] = c + 1
  <2>1. U[n + 1] = U[(n + 1) - 1] + Size(r[n + 1])
    BY <1>5, <1>6 DEF Laid
  <2> QED BY <1>6, <1>8, <2>1
<1>10. T[n] = c
  BY <1>3, <1>4, <1>5, <1>6, <1>8, SameCounts
<1>11. BoxesOf(q) \in Seq(Box) /\ Len(BoxesOf(q)) = c
  <2>1. BoxesOf(q) \in Seq(Box) /\ Len(BoxesOf(q)) = T[Len(q)]
    BY <1>4 DEF Laid
  <2> QED BY <1>10, <2>1
<1>12. BoxesOf(r) \in Seq(Box) /\ Len(BoxesOf(r)) = c + 1
  <2>1. BoxesOf(r) \in Seq(Box) /\ Len(BoxesOf(r)) = U[Len(r)]
    BY <1>5 DEF Laid
  <2> QED BY <1>2, <1>9, <2>1
<1>13. BoxesOf(r)[c + 1] = BoxOf(r, n + 1, 1)
  <2>1. 1 \in 1..Size(r[n + 1])
    BY <1>6
  <2>2. BoxesOf(r)[U[(n + 1) - 1] + 1] = BoxOf(r, n + 1, 1)
    BY <1>5, <1>6, <2>1 DEF Laid
  <2> QED BY <1>6, <1>8, <2>2
<1>14. PlaceAt(BoxesOf(q), cal, now, c) = PlaceAt(BoxesOf(r), cal, now, c)
  <2>1. c \in 0..T[n]
    BY <1>10
  <2> QED BY <1>3, <1>4, <1>5, <2>1, SamePlaces
<1>15. Units(BoxesOf(r), cal, c + 1) = BoxUnits(e.video = 1, cal)
  <2>1. BoxesOf(r)[c + 1].withVideo = (1 <= e.video)
    BY <1>2, <1>13 DEF BoxOf
  <2>2. e.video \in Nat /\ e.plain \in Nat
    BY DEF Entries, Entry
  <2>3. CASE e.video = 1
    <3>1. 1 <= e.video
      BY <2>3
    <3> QED BY <2>1, <2>3, <3>1 DEF Units, BoxUnits
  <2>4. CASE e.video # 1
    <3>1. ~ (1 <= e.video)
      BY <2>2, <2>4
    <3> QED BY <2>1, <2>4, <3>1 DEF Units, BoxUnits
  <2> QED BY <2>3, <2>4
<1>16. PlannedDays(r, cal, now)[n + 1] = Slots(BoxesOf(r), cal, now)[c + 1].day
  BY <1>3, <1>5, <1>6, <1>9, PlannedIs
<1>17. c + 1 \in 1..Len(BoxesOf(r)) /\ (c + 1) - 1 = c
  BY <1>12
<1>18. Slots(BoxesOf(r), cal, now)[c + 1] = PlaceAt(BoxesOf(r), cal, now, c + 1)
  BY <1>12, <1>17, PlacesAre
<1>19. PlaceAt(BoxesOf(r), cal, now, c + 1)
        = NextSlot(PlaceAt(BoxesOf(r), cal, now, (c + 1) - 1), Units(BoxesOf(r), cal, c + 1), cal)
  BY <1>12, <1>17, PlacesAre
<1>20. PICK last : last = PlaceAt(BoxesOf(q), cal, now, c)
  OBVIOUS
<1>21. PlannedDays(r, cal, now)[n + 1] = NextSlot(last, BoxUnits(e.video = 1, cal), cal).day
  BY <1>14, <1>15, <1>16, <1>17, <1>18, <1>19, <1>20
<1> QED BY <1>1, <1>11, <1>20, <1>21

-----------------------------------------------------------------------------
(* The plan of the statistics page. *)

PlannedBox == [day : Days, withVideo : BOOLEAN]

Plans == [cursor : Days, used : Nat, made : Seq(PlannedBox), ready : Seq(Days)]

LEMMA OnlyOne == \A x : (CHOOSE y \in {x} : TRUE) = x
  BY Zenon

\* One more box of the plan goes where the board puts it.
LEMMA BookIs ==
    ASSUME NEW plan \in Plans, NEW withVideo \in BOOLEAN, NEW cal \in Calendars, NEW next,
           next = NextSlot([day |-> plan.cursor, used |-> plan.used], BoxUnits(withVideo, cal), cal),
           NEW more, more = Book(plan, withVideo, cal)
    PROVE  /\ more \in Plans
           /\ more.cursor = next.day /\ more.used = next.used
           /\ more.made = Append(plan.made, [day |-> next.day, withVideo |-> withVideo])
           /\ more.ready = plan.ready
<1>1. /\ plan.cursor \in Days /\ plan.used \in Nat /\ plan.made \in Seq(PlannedBox) /\ plan.ready \in Seq(Days)
  BY DEF Plans
<1>2. PICK u \in Nat : u = BoxUnits(withVideo, cal)
  BY DayUnitsIs
<1>3. PICK place : place = [day |-> plan.cursor, used |-> plan.used]
  OBVIOUS
<1>4. place \in Places /\ place.day = plan.cursor /\ place.used = plan.used
  BY <1>1, <1>3 DEF Places
<1>5. next = NextSlot(place, u, cal)
  BY <1>2, <1>3
<1>6. /\ next \in Places
      /\ place.used + u > DayUnits(cal) => next.day = NextWorkingDay(place.day, cal) /\ next.used = u
      /\ ~ (place.used + u > DayUnits(cal)) => next.day = place.day /\ next.used = place.used + u
  BY <1>4, <1>5, NextPlace
<1>7. next.day \in Days /\ next.used \in Nat
  BY <1>6 DEF Places
<1>8. more = [cursor |-> next.day, used |-> next.used,
              made |-> Append(plan.made, [day |-> next.day, withVideo |-> withVideo]),
              ready |-> plan.ready]
  <2>1. CASE plan.used + u > DayUnits(cal)
    <3>1. next.day = NextWorkingDay(plan.cursor, cal) /\ next.used = u
      BY <1>4, <1>6, <2>1
    <3> QED BY <1>2, <2>1, <3>1, Zenon DEF Book
  <2>2. CASE ~ (plan.used + u > DayUnits(cal))
    <3>1. next.day = plan.cursor /\ next.used = plan.used + u
      BY <1>4, <1>6, <2>2
    <3> QED BY <1>2, <2>2, <3>1, Zenon DEF Book
  <2> QED BY <2>1, <2>2
<1>9. [day |-> next.day, withVideo |-> withVideo] \in PlannedBox
  BY <1>7 DEF PlannedBox
<1>10. Append(plan.made, [day |-> next.day, withVideo |-> withVideo]) \in Seq(PlannedBox)
  BY <1>1, <1>9
<1> QED BY <1>1, <1>7, <1>8, <1>10 DEF Plans

\* The boxes of an order are put down one by one, and the order is listed with the last.
Booked(f, plan, e, cal) ==
    /\ f \in [0..Size(e) -> Plans] /\ f[0] = plan
    /\ \A b \in 1..Size(e) : f[b] = Book(f[b - 1], b <= e.video, cal)
    /\ PlanEntry(plan, e, cal) = [f[Size(e)] EXCEPT !.ready = Append(@, f[Size(e)].cursor)]

LEMMA EntryBooked ==
    ASSUME NEW plan \in Plans, NEW e \in Entries, NEW cal \in Calendars
    PROVE  \E f : Booked(f, plan, e, cal)
<1> DEFINE n == Size(e)
           Is(f) == f = [b \in 0..n |-> IF b = 0 THEN plan
                        ELSE CHOOSE p \in {Book(before, b <= e.video, cal) : before \in {f[b - 1]}} : TRUE]
           step == [b \in 1..n |-> [p \in Plans |-> Book(p, b <= e.video, cal)]]
<1>1. n \in Nat /\ e.video \in Nat /\ n = e.video + e.plain
  BY DEF Entries, Entry, Size
<1>2. \A b \in 1..n : \A p \in Plans : Book(p, b <= e.video, cal) \in Plans
  <2> TAKE b \in 1..n
  <2> TAKE p \in Plans
  <2>1. (b <= e.video) \in BOOLEAN
    OBVIOUS
  <2> QED BY <2>1, BookIs
<1>3. \A b, w : (CHOOSE p \in {Book(before, b <= e.video, cal) : before \in {w}} : TRUE)
                    = Book(w, b <= e.video, cal)
  <2> TAKE b, w
  <2>1. {Book(before, b <= e.video, cal) : before \in {w}} = {Book(w, b <= e.video, cal)}
    BY Zenon
  <2> QED BY <2>1, OnlyOne, Zenon
<1> HIDE DEF n
<1>4. step \in Steps(n, Plans)
  BY <1>2 DEF Steps
<1>5. \A b \in 1..n : \A p \in Plans : step[b][p] = Book(p, b <= e.video, cal)
  OBVIOUS
<1> HIDE DEF step
<1>6. \E f : Is(f)
  <2>1. PICK f : Follows(f, n, Plans, plan, step)
    BY <1>1, <1>4, StepByStep
  <2>2. \A b \in 0..n : f[b] = IF b = 0 THEN plan
                        ELSE CHOOSE p \in {Book(before, b <= e.video, cal) : before \in {f[b - 1]}} : TRUE
    <3> TAKE b \in 0..n
    <3>1. CASE b = 0
      BY <2>1, <3>1 DEF Follows
    <3>2. CASE b # 0
      <4>1. b \in 1..n /\ b - 1 \in 0..n
        BY <1>1, <3>2
      <4>2. f[b - 1] \in Plans /\ f[b] = step[b][f[b - 1]]
        BY <2>1, <4>1 DEF Follows
      <4>3. f[b] = Book(f[b - 1], b <= e.video, cal)
        BY <1>5, <4>1, <4>2
      <4> QED BY <1>3, <3>2, <4>3
    <3> QED BY <3>1, <3>2
  <2>3. f = [b \in 0..n |-> f[b]]
    BY <2>1 DEF Follows
  <2>4. [b \in 0..n |-> f[b]]
          = [b \in 0..n |-> IF b = 0 THEN plan
                ELSE CHOOSE p \in {Book(before, b <= e.video, cal) : before \in {f[b - 1]}} : TRUE]
    BY <2>2, Zenon
  <2> QED BY <2>3, <2>4, Zenon
<1>7. PICK f : /\ Is(f)
               /\ PlanEntry(plan, e, cal) = [f[n] EXCEPT !.ready = Append(@, f[n].cursor)]
  <2> DEFINE booked == CHOOSE f : Is(f)
  <2>1. Is(booked)
    BY <1>6
  <2>2. PlanEntry(plan, e, cal) = [booked[n] EXCEPT !.ready = Append(@, booked[n].cursor)]
    BY DEF PlanEntry, n, Size
  <2> QED BY <2>1, <2>2
<1>8. f[0] = plan /\ \A b \in 1..n : f[b] = Book(f[b - 1], b <= e.video, cal)
  <2>1. 0 \in 0..n /\ \A b \in 1..n : b \in 0..n /\ b # 0
    BY <1>1
  <2>2. f[0] = plan
    BY <1>7, <2>1
  <2>3. ASSUME NEW b \in 1..n PROVE f[b] = Book(f[b - 1], b <= e.video, cal)
    <3>1. f[b] = CHOOSE p \in {Book(before, b <= e.video, cal) : before \in {f[b - 1]}} : TRUE
      BY <1>7, <2>1
    <3> QED BY <1>3, <3>1
  <2> QED BY <2>2, <2>3
<1>9. \A b \in 0..n : f[b] \in Plans
  <2>1. \A b \in 1..n : f[b - 1] \in Plans => f[b] \in Plans
    BY <1>2, <1>8
  <2> QED BY <1>1, <1>8, <2>1, AllAlong
<1>10. f \in [0..n -> Plans]
  BY <1>7, <1>9
<1> QED BY <1>7, <1>8, <1>10 DEF Booked, n

\* The plan has come as far as the board's layout has with the first boxes.
Reached(plan, boxes, k, cal, now) ==
    /\ plan \in Plans
    /\ plan.cursor = PlaceAt(boxes, cal, now, k).day /\ plan.used = PlaceAt(boxes, cal, now, k).used
    /\ Len(plan.made) = k
    /\ \A h \in 1..k : plan.made[h] = [day |-> PlaceAt(boxes, cal, now, h).day,
                                       withVideo |-> boxes[h].withVideo]

LEMMA BookReached ==
    ASSUME NEW boxes \in Seq(Box), NEW cal \in Calendars, NEW now \in Nat,
           NEW k \in 0..(Len(boxes) - 1), NEW plan, Reached(plan, boxes, k, cal, now),
           NEW withVideo, withVideo = boxes[k + 1].withVideo
    PROVE  /\ Reached(Book(plan, withVideo, cal), boxes, k + 1, cal, now)
           /\ Book(plan, withVideo, cal).ready = plan.ready
<1>1. k + 1 \in 1..Len(boxes) /\ (k + 1) - 1 = k /\ k \in 0..Len(boxes) /\ k \in Nat
  OBVIOUS
<1>2. withVideo \in BOOLEAN
  <2>1. boxes[k + 1] \in Box
    BY <1>1
  <2> QED BY <2>1 DEF Box
<1>3. PICK place \in Places : place = PlaceAt(boxes, cal, now, k)
  BY <1>1, PlacesAre
<1>4. PICK next : next = PlaceAt(boxes, cal, now, k + 1)
  OBVIOUS
<1>5. next = NextSlot(place, BoxUnits(withVideo, cal), cal)
  <2>1. PlaceAt(boxes, cal, now, k + 1)
          = NextSlot(PlaceAt(boxes, cal, now, (k + 1) - 1), Units(boxes, cal, k + 1), cal)
    BY <1>1, PlacesAre
  <2> QED BY <1>1, <1>3, <1>4, <2>1 DEF Units
<1>6. plan \in Plans /\ plan.cursor = place.day /\ plan.used = place.used /\ Len(plan.made) = k
  BY <1>3 DEF Reached
<1>7. place = [day |-> plan.cursor, used |-> plan.used]
  BY <1>3, <1>6 DEF Places
<1>8. PICK more : more = Book(plan, withVideo, cal)
  OBVIOUS
<1>9. /\ more \in Plans
      /\ more.cursor = next.day /\ more.used = next.used
      /\ more.made = Append(plan.made, [day |-> next.day, withVideo |-> withVideo])
      /\ more.ready = plan.ready
  BY <1>2, <1>5, <1>6, <1>7, <1>8, BookIs
<1>10. PICK w \in Seq(PlannedBox) : w = plan.made
  BY <1>6 DEF Plans
<1>11. PICK box : box = [day |-> next.day, withVideo |-> withVideo]
  OBVIOUS
<1>12. /\ Len(Append(w, box)) = k + 1 /\ Append(w, box)[k + 1] = box
       /\ \A h \in 1..k : Append(w, box)[h] = w[h]
  BY <1>6, <1>10
<1>13. ASSUME NEW h \in 1..(k + 1)
       PROVE  more.made[h] = [day |-> PlaceAt(boxes, cal, now, h).day, withVideo |-> boxes[h].withVideo]
  <2>1. CASE h = k + 1
    BY <1>4, <1>9, <1>10, <1>11, <1>12, <2>1
  <2>2. CASE h # k + 1
    <3>1. h \in 1..k
      BY <1>1, <2>2
    <3>2. more.made[h] = w[h]
      BY <1>9, <1>10, <1>11, <1>12, <3>1
    <3> QED BY <1>10, <3>1, <3>2 DEF Reached
  <2> QED BY <2>1, <2>2
<1>14. Len(more.made) = k + 1
  BY <1>9, <1>10, <1>11, <1>12
<1>15. Reached(more, boxes, k + 1, cal, now)
  BY <1>4, <1>9, <1>13, <1>14 DEF Reached
<1> QED BY <1>8, <1>9, <1>15

\* An order is listed on the day of its last box.
LEMMA EntryReached ==
    ASSUME NEW boxes \in Seq(Box), NEW cal \in Calendars, NEW now \in Nat, NEW t \in Nat,
           NEW e \in Entries, t + Size(e) <= Len(boxes),
           \A b \in 1..Size(e) : boxes[t + b].withVideo = (b <= e.video),
           NEW plan, Reached(plan, boxes, t, cal, now),
           NEW more, more = PlanEntry(plan, e, cal)
    PROVE  /\ Reached(more, boxes, t + Size(e), cal, now)
           /\ more.ready = Append(plan.ready, PlaceAt(boxes, cal, now, t + Size(e)).day)
<1>1. plan \in Plans
  BY DEF Reached
<1>2. PICK f : Booked(f, plan, e, cal)
  BY <1>1, EntryBooked
<1>3. PICK n \in Nat : n = Size(e)
  BY DEF Entries, Entry, Size
<1> DEFINE G == {b \in Nat : Reached(f[b], boxes, t + b, cal, now) /\ f[b].ready = plan.ready}
<1>4. 0 \in G
  BY <1>2 DEF Booked
<1>5. \A b \in 0..(n - 1) : b \in G => b + 1 \in G
  <2> TAKE b \in 0..(n - 1)
  <2> HAVE b \in G
  <2>1. /\ b + 1 \in 1..n /\ (b + 1) - 1 = b /\ t + b \in 0..(Len(boxes) - 1)
        /\ (t + b) + 1 = t + (b + 1) /\ b + 1 \in Nat
    BY <1>3
  <2>2. f[b + 1] = Book(f[b], b + 1 <= e.video, cal)
    BY <1>2, <1>3, <2>1 DEF Booked
  <2>3. boxes[(t + b) + 1].withVideo = (b + 1 <= e.video)
    BY <1>3, <2>1
  <2>4. Reached(f[b], boxes, t + b, cal, now) /\ f[b].ready = plan.ready
    OBVIOUS
  <2>5. PICK p : p = f[b]
    OBVIOUS
  <2>6. PICK v : v = (b + 1 <= e.video)
    OBVIOUS
  <2>7. /\ Reached(Book(p, v, cal), boxes, (t + b) + 1, cal, now)
        /\ Book(p, v, cal).ready = p.ready
    BY <2>1, <2>3, <2>4, <2>5, <2>6, BookReached
  <2> QED BY <2>1, <2>2, <2>4, <2>5, <2>6, <2>7
<1> HIDE DEF G
<1>6. n \in G
  <2>1. \A b \in 0..n : b \in G
    BY <1>4, <1>5, CountingUp
  <2> QED BY <2>1
<1>7. PICK p : p = f[n]
  OBVIOUS
<1>8. Reached(p, boxes, t + n, cal, now) /\ p.ready = plan.ready
  BY <1>6, <1>7 DEF G
<1>9. more = [p EXCEPT !.ready = Append(@, p.cursor)]
  BY <1>2, <1>3, <1>7 DEF Booked
<1>10. p \in Plans /\ p.cursor \in Days /\ p.ready \in Seq(Days)
  BY <1>8 DEF Reached, Plans
<1>11. Append(p.ready, p.cursor) \in Seq(Days)
  BY <1>10
<1>12. /\ more \in Plans /\ more.cursor = p.cursor /\ more.used = p.used /\ more.made = p.made
       /\ more.ready = Append(p.ready, p.cursor)
  BY <1>9, <1>10, <1>11 DEF Plans
<1>13. Reached(more, boxes, t + n, cal, now)
  BY <1>8, <1>12 DEF Reached
<1>14. p.cursor = PlaceAt(boxes, cal, now, t + n).day
  BY <1>8 DEF Reached
<1> QED BY <1>3, <1>8, <1>12, <1>13, <1>14

\* The plan goes through the queue order by order.
Listed(f, q, cal, now) ==
    /\ f \in [0..Len(q) -> Plans]
    /\ f[0] = [cursor |-> EnsureWorkingDay(now, cal), used |-> 0, made |-> <<>>, ready |-> <<>>]
    /\ \A i \in 1..Len(q) : f[i] = PlanEntry(f[i - 1], q[i], cal)
    /\ ProductionPlan(q, cal, now) = f[Len(q)]

LEMMA PlanListed ==
    ASSUME NEW q \in Seq(Entries), NEW cal \in Calendars, NEW now \in Nat
    PROVE  \E f : Listed(f, q, cal, now)
<1> DEFINE N == Len(q)
           first == [cursor |-> EnsureWorkingDay(now, cal), used |-> 0, made |-> <<>>, ready |-> <<>>]
           Is(f) == f = [i \in 0..N |-> IF i = 0 THEN first
                        ELSE CHOOSE p \in {PlanEntry(before, q[i], cal) : before \in {f[i - 1]}} : TRUE]
           step == [i \in 1..N |-> [p \in Plans |-> PlanEntry(p, q[i], cal)]]
<1>1. N \in Nat /\ \A i \in 1..N : q[i] \in Entries
  OBVIOUS
<1>2. \A e \in Entries : \A p \in Plans : PlanEntry(p, e, cal) \in Plans
  <2> TAKE e \in Entries
  <2> TAKE p \in Plans
  <2>1. PICK f : Booked(f, p, e, cal)
    BY EntryBooked
  <2>2. PICK last : last = f[Size(e)]
    OBVIOUS
  <2>3. last \in Plans
    <3>1. Size(e) \in 0..Size(e)
      BY DEF Entries, Entry, Size
    <3> QED BY <2>1, <2>2, <3>1 DEF Booked
  <2>4. Append(last.ready, last.cursor) \in Seq(Days)
    BY <2>3 DEF Plans
  <2>5. PlanEntry(p, e, cal) = [last EXCEPT !.ready = Append(@, last.cursor)]
    BY <2>1, <2>2 DEF Booked
  <2> QED BY <2>3, <2>4, <2>5 DEF Plans
<1>3. \A i, w : (CHOOSE p \in {PlanEntry(before, q[i], cal) : before \in {w}} : TRUE) = PlanEntry(w, q[i], cal)
  <2> TAKE i, w
  <2>1. {PlanEntry(before, q[i], cal) : before \in {w}} = {PlanEntry(w, q[i], cal)}
    BY Zenon
  <2> QED BY <2>1, OnlyOne, Zenon
<1>4. first \in Plans
  <2>1. EnsureWorkingDay(now, cal) \in Days
    BY EnsureIs
  <2> QED BY <2>1 DEF Plans
<1> HIDE DEF first
<1>5. step \in Steps(N, Plans)
  <2>1. \A i \in 1..N : \A p \in Plans : PlanEntry(p, q[i], cal) \in Plans
    BY <1>1, <1>2
  <2> QED BY <2>1 DEF Steps
<1>6. \A i \in 1..N : \A p \in Plans : step[i][p] = PlanEntry(p, q[i], cal)
  OBVIOUS
<1> HIDE DEF step, N
<1>7. \E f : Is(f)
  <2>1. PICK f : Follows(f, N, Plans, first, step)
    BY <1>1, <1>4, <1>5, StepByStep
  <2>2. \A i \in 0..N : f[i] = IF i = 0 THEN first
                        ELSE CHOOSE p \in {PlanEntry(before, q[i], cal) : before \in {f[i - 1]}} : TRUE
    <3> TAKE i \in 0..N
    <3>1. CASE i = 0
      BY <2>1, <3>1 DEF Follows
    <3>2. CASE i # 0
      <4>1. i \in 1..N /\ i - 1 \in 0..N
        BY <1>1, <3>2
      <4>2. f[i - 1] \in Plans /\ f[i] = step[i][f[i - 1]]
        BY <2>1, <4>1 DEF Follows
      <4>3. f[i] = PlanEntry(f[i - 1], q[i], cal)
        BY <1>6, <4>1, <4>2
      <4> QED BY <1>3, <3>2, <4>3
    <3> QED BY <3>1, <3>2
  <2>3. f = [i \in 0..N |-> f[i]]
    BY <2>1 DEF Follows
  <2>4. [i \in 0..N |-> f[i]]
          = [i \in 0..N |-> IF i = 0 THEN first
                ELSE CHOOSE p \in {PlanEntry(before, q[i], cal) : before \in {f[i - 1]}} : TRUE]
    BY <2>2, Zenon
  <2> QED BY <2>3, <2>4, Zenon
<1>8. PICK f : Is(f) /\ ProductionPlan(q, cal, now) = f[N]
  <2> DEFINE planned == CHOOSE f : Is(f)
  <2>1. Is(planned)
    BY <1>7
  <2>2. ProductionPlan(q, cal, now) = planned[N]
    BY DEF ProductionPlan, N, first
  <2> QED BY <2>1, <2>2
<1>9. f[0] = first /\ \A i \in 1..N : f[i] = PlanEntry(f[i - 1], q[i], cal)
  <2>1. 0 \in 0..N /\ \A i \in 1..N : i \in 0..N /\ i # 0
    BY <1>1
  <2>2. f[0] = first
    BY <1>8, <2>1
  <2>3. ASSUME NEW i \in 1..N PROVE f[i] = PlanEntry(f[i - 1], q[i], cal)
    <3>1. f[i] = CHOOSE p \in {PlanEntry(before, q[i], cal) : before \in {f[i - 1]}} : TRUE
      BY <1>8, <2>1
    <3> QED BY <1>3, <3>1
  <2> QED BY <2>2, <2>3
<1>10. \A i \in 0..N : f[i] \in Plans
  <2>1. f[0] \in Plans /\ \A i \in 1..N : f[i - 1] \in Plans => f[i] \in Plans
    BY <1>1, <1>2, <1>4, <1>9
  <2> QED BY <1>1, <2>1, AllAlong
<1>11. f \in [0..N -> Plans]
  BY <1>8, <1>10
<1> QED BY <1>8, <1>9, <1>11 DEF Listed, N, first

\* At the end the plan has put every box where the board puts it.
LEMMA PlanReached ==
    ASSUME NEW q \in Seq(Entries), NEW cal \in Calendars, NEW now \in Nat, NEW T, Laid(q, T),
           NEW plan, plan = ProductionPlan(q, cal, now)
    PROVE  /\ Reached(plan, BoxesOf(q), Len(BoxesOf(q)), cal, now)
           /\ \A i \in 1..Len(q) : plan.ready[i] = PlaceAt(BoxesOf(q), cal, now, T[i]).day
<1>1. PICK f : Listed(f, q, cal, now)
  BY PlanListed
<1>2. PICK N \in Nat : N = Len(q)
  OBVIOUS
<1>3. Lined(q) /\ \A i \in 1..N : q[i] \in Entries
  BY <1>2, LineLined
<1>4. PICK boxes \in Seq(Box) : boxes = BoxesOf(q)
  BY DEF Laid
<1>5. /\ T \in [0..N -> Nat] /\ T[0] = 0 /\ Len(boxes) = T[N]
      /\ \A i \in 1..N : T[i] = T[i - 1] + Size(q[i])
      /\ \A i \in 1..N : \A b \in 1..Size(q[i]) : boxes[T[i - 1] + b] = BoxOf(q, i, b)
  BY <1>2, <1>4 DEF Laid
<1> DEFINE Day(i) == PlaceAt(boxes, cal, now, T[i]).day
           G == {n \in Nat : /\ Reached(f[n], boxes, T[n], cal, now)
                             /\ Len(f[n].ready) = n
                             /\ \A i \in 1..n : f[n].ready[i] = Day(i)}
<1>6. 0 \in G
  <2>1. f[0] = [cursor |-> EnsureWorkingDay(now, cal), used |-> 0, made |-> <<>>, ready |-> <<>>]
    BY <1>1 DEF Listed
  <2>2. PlaceAt(boxes, cal, now, 0) = [day |-> EnsureWorkingDay(now, cal), used |-> 0]
    BY DEF PlaceAt, FirstPlace
  <2>3. f[0] \in Plans
    BY <1>1, <1>2 DEF Listed
  <2> QED BY <1>5, <2>1, <2>2, <2>3 DEF Reached
<1>7. \A n \in 0..(N - 1) : n \in G => n + 1 \in G
  <2> TAKE n \in 0..(N - 1)
  <2> HAVE n \in G
  <2>1. n + 1 \in 1..N /\ (n + 1) - 1 = n /\ n + 1 \in Nat /\ n \in 0..N /\ n + 1 \in 0..N
    BY <1>2
  <2>2. PICK t \in Nat : t = T[n]
    BY <1>5, <2>1
  <2>3. PICK e \in Entries : e = q[n + 1]
    BY <1>3, <2>1
  <2>4. T[n + 1] = t + Size(e)
    BY <1>5, <2>1, <2>2, <2>3
  <2>5. t + Size(e) <= Len(boxes)
    <3>1. T[n + 1] <= T[N]
      <4>1. n + 1 \in 0..Len(q) /\ Len(q) \in 0..Len(q) /\ n + 1 <= Len(q)
        BY <1>2, <2>1
      <4> QED BY <1>2, <1>3, <4>1, LaidGrows
    <3> QED BY <1>5, <2>4, <3>1
  <2>6. \A b \in 1..Size(e) : boxes[t + b].withVideo = (b <= e.video)
    <3> TAKE b \in 1..Size(e)
    <3>1. boxes[T[(n + 1) - 1] + b] = BoxOf(q, n + 1, b)
      BY <1>5, <2>1, <2>3
    <3>2. boxes[t + b] = BoxOf(q, n + 1, b)
      BY <2>1, <2>2, <3>1
    <3> QED BY <2>3, <3>2 DEF BoxOf
  <2>7. /\ Reached(f[n], boxes, t, cal, now) /\ Len(f[n].ready) = n
        /\ \A i \in 1..n : f[n].ready[i] = Day(i)
    BY <2>2
  <2>8. PICK p : p = f[n]
    OBVIOUS
  <2>9. PICK more : more = PlanEntry(p, e, cal)
    OBVIOUS
  <2>10. f[n + 1] = more
    BY <1>1, <1>2, <2>1, <2>3, <2>8, <2>9 DEF Listed
  <2>11. PICK day : day = Day(n + 1)
    OBVIOUS
  <2>12. Reached(more, boxes, T[n + 1], cal, now) /\ more.ready = Append(p.ready, day)
    <3>1. Reached(p, boxes, t, cal, now)
      BY <2>7, <2>8
    <3>2. /\ Reached(more, boxes, t + Size(e), cal, now)
          /\ more.ready = Append(p.ready, PlaceAt(boxes, cal, now, t + Size(e)).day)
      <4> HIDE DEF Day
      <4> QED BY <2>5, <2>6, <2>9, <3>1, EntryReached
    <3> QED BY <2>4, <2>11, <3>2
  <2>13. PICK w \in Seq(Days) : w = p.ready
    BY <2>7, <2>8 DEF Reached, Plans
  <2>14. /\ Len(Append(w, day)) = n + 1 /\ Append(w, day)[n + 1] = day
         /\ \A i \in 1..n : Append(w, day)[i] = w[i]
    BY <2>7, <2>8, <2>13
  <2>15. ASSUME NEW i \in 1..(n + 1) PROVE more.ready[i] = Day(i)
    <3>1. CASE i = n + 1
      BY <2>11, <2>12, <2>13, <2>14, <3>1
    <3>2. CASE i # n + 1
      <4>1. i \in 1..n
        BY <2>1, <3>2
      <4>2. w[i] = Day(i)
        BY <2>7, <2>8, <2>13, <4>1
      <4> HIDE DEF Day
      <4> QED BY <2>12, <2>13, <2>14, <4>1, <4>2
    <3> QED BY <3>1, <3>2
  <2>16. Len(more.ready) = n + 1
    BY <2>12, <2>13, <2>14
  <2> HIDE DEF Day
  <2> QED BY <2>1, <2>10, <2>12, <2>15, <2>16
<1> HIDE DEF G
<1>8. N \in G
  <2>1. \A n \in 0..N : n \in G
    BY <1>6, <1>7, CountingUp
  <2> QED BY <2>1
<1>9. plan = f[N]
  BY <1>1, <1>2 DEF Listed
<1>10. /\ Reached(plan, boxes, T[N], cal, now)
       /\ \A i \in 1..N : plan.ready[i] = Day(i)
  BY <1>8, <1>9 DEF G
<1> QED BY <1>2, <1>4, <1>5, <1>10

\* The plan of the statistics page is the layout the dates come from: a day is shown with the
\* boxes that are made on it, an order is ready on the day it is listed or when its term is
\* over, and the day shown as free for one more box is the one the summary offers a customer
\* for it, or the end of her term (analytics.py:107-147, board.py:223).
THEOREM WorkshopPlanIsTheBoards == WorkshopSpec => []PlanIsTheBoards
<1>1. WorkshopInv => PlanIsTheBoards
  <2> SUFFICES ASSUME WorkshopInv PROVE PlanIsTheBoards
    OBVIOUS
  <2>1. today \in Nat /\ calendar \in Calendars
    BY DEF WorkshopInv
  <2>2. PICK q \in Seq(Entries) : q = line
    BY DEF WorkshopInv
  <2>3. Lined(q) /\ DOMAIN q = 1..Len(q) /\ Len(q) \in Nat
    BY LineLined
  <2>4. PICK T : Laid(q, T)
    BY <2>3, BoxesLaid
  <2>5. PICK boxes \in Seq(Box) : boxes = BoxesOf(q)
    BY <2>4 DEF Laid
  <2>6. PICK plan : plan = ProductionPlan(q, calendar, today)
    OBVIOUS
  <2>7. PICK slots : slots = Slots(boxes, calendar, today)
    OBVIOUS
  <2>8. PICK m \in Nat : m = Len(boxes)
    OBVIOUS
  <2>9. /\ Reached(plan, boxes, m, calendar, today)
        /\ \A i \in 1..Len(q) : plan.ready[i] = PlaceAt(boxes, calendar, today, T[i]).day
    BY <2>1, <2>4, <2>5, <2>6, <2>8, PlanReached
  <2>10. /\ plan.made \in Seq(PlannedBox) /\ DOMAIN plan.made = 1..m /\ DOMAIN boxes = 1..m
    <3>1. PICK w \in Seq(PlannedBox) : w = plan.made
      BY <2>9 DEF Reached, Plans
    <3>2. Len(w) = m
      BY <2>9, <3>1 DEF Reached
    <3> QED BY <2>8, <3>1, <3>2
  <2>11. \A k \in 1..m : slots[k] = PlaceAt(boxes, calendar, today, k)
    BY <2>1, <2>7, <2>8, PlacesAre
  <2>12. \A k \in 1..m : plan.made[k] = [day |-> slots[k].day, withVideo |-> boxes[k].withVideo]
    BY <2>9, <2>11 DEF Reached
  <2>13. ASSUME NEW d, NEW video
         PROVE  {k \in DOMAIN plan.made : plan.made[k] = [day |-> d, withVideo |-> video]}
                    = {k \in DOMAIN boxes : slots[k].day = d /\ boxes[k].withVideo = video}
    <3>1. \A x, v : [day |-> x, withVideo |-> v] = [day |-> d, withVideo |-> video]
                        <=> x = d /\ v = video
      OBVIOUS
    <3>2. \A k \in 1..m : plan.made[k] = [day |-> d, withVideo |-> video]
                            <=> slots[k].day = d /\ boxes[k].withVideo = video
      BY <2>12, <3>1
    <3> QED BY <2>10, <3>2
  <2>14. ASSUME NEW i \in DOMAIN line
         PROVE  ReadyNow[i] = Later(plan.ready[i], EarliestReady(line[i], calendar))
    <3>1. i \in 1..Len(q)
      BY <2>2, <2>3
    <3>2. ReadyNow[i] = Later(PlannedDays(q, calendar, today)[i], EarliestReady(q[i], calendar))
      BY <2>1, <2>2, <3>1, ReadyIs DEF ReadyNow
    <3>3. PlannedDays(q, calendar, today)[i] = Slots(boxes, calendar, today)[T[i]].day
      BY <2>3, <2>4, <2>5, <3>1, PlannedIs
    <3>4. T[i] \in 1..m
      BY <2>3, <2>4, <2>5, <2>8, <3>1, LastBox DEF Laid
    <3>5. Slots(boxes, calendar, today)[T[i]] = PlaceAt(boxes, calendar, today, T[i])
      BY <2>7, <2>11, <3>4
    <3>6. PlannedDays(q, calendar, today)[i] = plan.ready[i]
      BY <2>9, <3>1, <3>3, <3>5
    <3> QED BY <2>2, <3>2, <3>6
  <2>15. ASSUME NEW b \in Baskets, b.video + b.plain = 1
         PROVE  EstimateSpot(b) = Later(NextFree(plan, b.video = 1, calendar),
                                        EarliestReady(NewEntry(b), calendar))
    <3>1. PICK e \in Entries : e = NewEntry(b)
      BY <2>1, NewEntryIs
    <3>2. e.video = b.video /\ e.plain = b.plain
      BY <3>1 DEF NewEntry
    <3>3. PICK n : n = Len(q)
      OBVIOUS
    <3>4. PICK r : r = Append(q, e)
      OBVIOUS
    <3>5. r \in Seq(Entries) /\ Len(r) = n + 1 /\ r[n + 1] = e /\ n + 1 \in 1..Len(r)
      BY <3>3, <3>4
    <3>6. EstimateSpot(b) = ReadyDates(r, calendar, today)[n + 1]
      BY <2>2, <3>1, <3>4, <3>5 DEF EstimateSpot
    <3>7. ReadyDates(r, calendar, today)[n + 1]
            = Later(PlannedDays(r, calendar, today)[n + 1], EarliestReady(e, calendar))
      BY <2>1, <3>5, ReadyIs
    <3>8. PICK u \in Nat : u = BoxUnits(b.video = 1, calendar)
      BY <2>1, DayUnitsIs
    <3>9. PICK last \in Places : last = PlaceAt(boxes, calendar, today, m)
      <4>1. m \in 0..Len(boxes)
        BY <2>8
      <4> QED BY <2>1, <4>1, PlacesAre
    <3>10. PlannedDays(r, calendar, today)[n + 1] = NextSlot(last, u, calendar).day
      BY <2>1, <2>5, <2>8, <2>15, <3>2, <3>3, <3>4, <3>8, <3>9, OneBoxNext
    <3>11. plan.cursor = last.day /\ plan.used = last.used
      BY <2>9, <3>9 DEF Reached
    <3>12. NextFree(plan, b.video = 1, calendar) = NextSlot(last, u, calendar).day
      <4>1. last.used \in Nat /\ DayUnits(calendar) \in Nat
        BY <2>1, <3>9, DayUnitsIs DEF Places
      <4>2. NextFree(plan, b.video = 1, calendar)
              = IF last.used + u <= DayUnits(calendar) THEN last.day ELSE NextWorkingDay(last.day, calendar)
        BY <3>8, <3>11 DEF NextFree
      <4>3. last.used + u <= DayUnits(calendar) <=> ~ (last.used + u > DayUnits(calendar))
        BY <3>8, <4>1
      <4> QED BY <3>8, <3>9, <4>2, <4>3, NextPlace
    <3> QED BY <3>1, <3>6, <3>7, <3>10, <3>12
  <2> DEFINE Shown(x, d, video) == {k \in DOMAIN x.made : x.made[k] = [day |-> d, withVideo |-> video]}
             On(x, y, d, video) == {k \in DOMAIN x : y[k].day = d /\ x[k].withVideo = video}
             Of(x, y, z) == {z[k].day : k \in DOMAIN y} \cup {x.made[k].day : k \in DOMAIN x.made}
             Is(x, y, z) ==
                /\ \A d \in Of(x, y, z), video \in BOOLEAN :
                    Cardinality(Shown(x, d, video)) = Cardinality(On(y, z, d, video))
                /\ \A i \in DOMAIN line : ReadyNow[i] = Later(x.ready[i], EarliestReady(line[i], calendar))
                /\ \A b \in Baskets : b.video + b.plain = 1 =>
                    EstimateSpot(b) = Later(NextFree(x, b.video = 1, calendar),
                                            EarliestReady(NewEntry(b), calendar))
  <2>16. Is(plan, boxes, slots)
    <3>1. \A d, video : Shown(plan, d, video) = On(boxes, slots, d, video)
      BY <2>13
    <3> HIDE DEF Shown, On, Of
    <3>2. \A d, video : Cardinality(Shown(plan, d, video)) = Cardinality(On(boxes, slots, d, video))
      BY <3>1
    <3> QED BY <2>14, <2>15, <3>2
  <2>17. Is(ProductionPlan(line, calendar, today), BoxesOf(line), Slots(BoxesOf(line), calendar, today))
    <3> HIDE DEF Is
    <3> QED BY <2>2, <2>5, <2>6, <2>7, <2>16
  <2> QED BY <2>17 DEF PlanIsTheBoards
<1> QED BY <1>1, WorkshopInvHolds, PTL

-----------------------------------------------------------------------------
(* A day holds what the workshop makes in a day. *)

LEMMA TimesLess == \A s \in Nat \ {0}, m \in Int, n \in Int : m <= n <=> s * m <= s * n
<1> SUFFICES ASSUME NEW s \in Nat \ {0}, NEW m \in Int, NEW n \in Int
             PROVE  m <= n <=> s * m <= s * n
  OBVIOUS
<1>1. ASSUME NEW t \in Nat PROVE s * t \in Nat
  OBVIOUS
<1>2. ASSUME m <= n PROVE s * m <= s * n
  <2>1. n - m \in Nat
    BY <1>2
  <2>2. s * (n - m) >= 0
    BY <1>1, <2>1
  <2>3. s * (n - m) = s * n - s * m
    OBVIOUS
  <2> QED BY <2>2, <2>3
<1>3. ASSUME m > n PROVE s * m > s * n
  <2>1. m - n - 1 \in Nat
    BY <1>3
  <2>2. s * (m - n - 1) >= 0
    BY <1>1, <2>1
  <2>3. s * (m - n - 1) = s * m - s * n - s
    OBVIOUS
  <2> QED BY <2>2, <2>3
<1>4. s * m \in Int /\ s * n \in Int
  OBVIOUS
<1> QED BY <1>2, <1>3, <1>4

\* Counted in units or in shares of the two limits, as much fits into a day.
LEMMA UnitsFit ==
    ASSUME NEW v \in Nat \ {0}, NEW p \in Nat \ {0}, NEW a \in Nat \ {0}, NEW b \in Nat \ {0},
           NEW L \in Nat \ {0}, v * a = L, p * b = L, NEW x \in Nat, NEW y \in Nat
    PROVE  x * a + y * b <= L <=> x * p + y * v <= v * p
<1>1. (v * p) * (x * a + y * b) = L * (x * p + y * v)
  <2>1. (v * p) * (x * a + y * b) = (v * a) * (x * p) + (p * b) * (y * v)
    OBVIOUS
  <2>2. L * (x * p + y * v) = L * (x * p) + L * (y * v)
    OBVIOUS
  <2> QED BY <2>1, <2>2
<1>2. v * p \in Nat \ {0} /\ x * a + y * b \in Int /\ x * p + y * v \in Int
  OBVIOUS
<1>3. x * a + y * b <= L <=> (v * p) * (x * a + y * b) <= (v * p) * L
  BY <1>2, TimesLess
<1>4. x * p + y * v <= v * p <=> L * (x * p + y * v) <= L * (v * p)
  BY <1>2, TimesLess
<1>5. (v * p) * L = L * (v * p)
  OBVIOUS
<1> QED BY <1>1, <1>3, <1>4, <1>5

LEMMA MultipleDiv ==
    \A m \in Int, p \in 1..50 : (m % p = 0 => p * (m \div p) = m) /\ (p * m) \div p = m
  BY SMTT(60)

LEMMA UnitsAre ==
    ASSUME NEW cal \in Calendars
    PROVE  /\ BoxUnits(TRUE, cal) \in Nat \ {0} /\ cal.video * BoxUnits(TRUE, cal) = DayUnits(cal)
           /\ BoxUnits(FALSE, cal) \in Nat \ {0} /\ cal.plain * BoxUnits(FALSE, cal) = DayUnits(cal)
           /\ DayUnits(cal) \in Nat \ {0} /\ cal.video \in 1..50 /\ cal.plain \in 1..50
           /\ \A withVideo \in BOOLEAN : BoxUnits(withVideo, cal) <= DayUnits(cal)
<1>1. PICK v \in 1..50 : v = cal.video
  BY DayUnitsIs
<1>2. PICK p \in 1..50 : p = cal.plain
  BY DayUnitsIs
<1>3. PICK j \in 1..p : (v * j) % p = 0 /\ DayUnits(cal) = v * j
  BY <1>1, <1>2, DayUnitsIs
<1>4. PICK L \in Nat \ {0} : L = DayUnits(cal)
  BY DayUnitsIs
<1>5. PICK a : a = BoxUnits(TRUE, cal)
  OBVIOUS
<1>6. PICK b : b = BoxUnits(FALSE, cal)
  OBVIOUS
<1>7. a = L \div v /\ b = L \div p
  BY <1>1, <1>2, <1>4, <1>5, <1>6 DEF BoxUnits
<1>8. L = v * j /\ L % p = 0 /\ L \in Int /\ j \in Int
  BY <1>3, <1>4
<1>9. v * a = L
  BY <1>7, <1>8, MultipleDiv
<1>10. p * b = L
  BY <1>7, <1>8, MultipleDiv
<1>11. a \in Nat /\ b \in Nat
  BY <1>5, <1>6, DayUnitsIs
<1>12. a # 0 /\ b # 0
  BY <1>9, <1>10
<1>13. a <= L /\ b <= L
  <2>1. \A u \in 1..50, x \in Nat : x <= u * x
    OBVIOUS
  <2> QED BY <1>9, <1>10, <1>11, <2>1
<1> QED BY <1>1, <1>2, <1>4, <1>5, <1>6, <1>9, <1>10, <1>11, <1>12, <1>13

\* The boxes of one kind among the first ones that are made on a day, and the units they take.
Made(boxes, slots, n, d, video) == {h \in 1..n : slots[h].day = d /\ boxes[h].withVideo = video}

MadeOn(boxes, slots, n, d, video) == Cardinality(Made(boxes, slots, n, d, video))

Load(boxes, slots, n, d, cal) ==
    MadeOn(boxes, slots, n, d, TRUE) * BoxUnits(TRUE, cal)
        + MadeOn(boxes, slots, n, d, FALSE) * BoxUnits(FALSE, cal)

LEMMA MadeIs ==
    ASSUME NEW boxes, NEW slots, NEW d, NEW n \in Nat, NEW video \in BOOLEAN
    PROVE  /\ MadeOn(boxes, slots, 0, d, video) = 0
           /\ MadeOn(boxes, slots, n, d, video) \in Nat
           /\ MadeOn(boxes, slots, n + 1, d, video) = MadeOn(boxes, slots, n, d, video)
                + (IF slots[n + 1].day = d /\ boxes[n + 1].withVideo = video THEN 1 ELSE 0)
<1>1. Made(boxes, slots, 0, d, video) = {}
  BY DEF Made
<1>2. PICK S : S = Made(boxes, slots, n, d, video)
  OBVIOUS
<1>3. IsFiniteSet(S)
  <2>1. IsFiniteSet(1..n)
    BY FS_Interval
  <2>2. S \subseteq 1..n
    BY <1>2 DEF Made
  <2> QED BY <2>1, <2>2, FS_Subset
<1>4. Cardinality(S) \in Nat /\ Cardinality({}) = 0
  BY <1>3, FS_CardinalityType, FS_EmptySet
<1>5. CASE slots[n + 1].day = d /\ boxes[n + 1].withVideo = video
  <2>1. Made(boxes, slots, n + 1, d, video) = S \cup {n + 1}
    <3>1. \A h : h \in 1..(n + 1) <=> h \in 1..n \/ h = n + 1
      OBVIOUS
    <3> QED BY <1>2, <1>5, <3>1 DEF Made
  <2>2. n + 1 \notin S
    BY <1>2 DEF Made
  <2>3. Cardinality(S \cup {n + 1}) = Cardinality(S) + 1
    BY <1>3, <2>2, FS_AddElement
  <2> QED BY <1>1, <1>2, <1>4, <1>5, <2>1, <2>3 DEF MadeOn
<1>6. CASE ~ (slots[n + 1].day = d /\ boxes[n + 1].withVideo = video)
  <2>1. Made(boxes, slots, n + 1, d, video) = S
    <3>1. \A h : h \in 1..(n + 1) <=> h \in 1..n \/ h = n + 1
      OBVIOUS
    <3> QED BY <1>2, <1>6, <3>1 DEF Made
  <2> QED BY <1>1, <1>2, <1>4, <1>6, <2>1 DEF MadeOn
<1> QED BY <1>5, <1>6

LEMMA LoadIs ==
    ASSUME NEW boxes \in Seq(Box), NEW slots, NEW d, NEW cal \in Calendars, NEW n \in Nat
    PROVE  /\ Load(boxes, slots, 0, d, cal) = 0
           /\ Load(boxes, slots, n, d, cal) \in Nat
           /\ n + 1 \in 1..Len(boxes) =>
                Load(boxes, slots, n + 1, d, cal) = Load(boxes, slots, n, d, cal)
                    + (IF slots[n + 1].day = d THEN Units(boxes, cal, n + 1) ELSE 0)
<1>1. PICK a \in Nat : a = BoxUnits(TRUE, cal)
  BY UnitsAre
<1>2. PICK b \in Nat : b = BoxUnits(FALSE, cal)
  BY UnitsAre
<1>3. PICK x \in Nat : x = MadeOn(boxes, slots, n, d, TRUE)
  BY MadeIs
<1>4. PICK y \in Nat : y = MadeOn(boxes, slots, n, d, FALSE)
  BY MadeIs
<1>5. Load(boxes, slots, n, d, cal) = x * a + y * b
  BY <1>1, <1>2, <1>3, <1>4 DEF Load
<1>6. Load(boxes, slots, 0, d, cal) = 0
  <2>1. PICK s : s = MadeOn(boxes, slots, 0, d, TRUE)
    OBVIOUS
  <2>2. PICK t : t = MadeOn(boxes, slots, 0, d, FALSE)
    OBVIOUS
  <2>3. s = 0 /\ t = 0
    BY <2>1, <2>2, MadeIs
  <2>4. Load(boxes, slots, 0, d, cal) = s * a + t * b
    BY <1>1, <1>2, <2>1, <2>2 DEF Load
  <2> QED BY <2>3, <2>4
<1>7. x * a + y * b \in Nat
  OBVIOUS
<1>8. ASSUME n + 1 \in 1..Len(boxes)
      PROVE  Load(boxes, slots, n + 1, d, cal) = Load(boxes, slots, n, d, cal)
                + (IF slots[n + 1].day = d THEN Units(boxes, cal, n + 1) ELSE 0)
  <2>1. boxes[n + 1] \in Box
    BY <1>8
  <2>2. boxes[n + 1].withVideo \in BOOLEAN
    BY <2>1 DEF Box
  <2>3. PICK s : s = MadeOn(boxes, slots, n + 1, d, TRUE)
    OBVIOUS
  <2>4. PICK t : t = MadeOn(boxes, slots, n + 1, d, FALSE)
    OBVIOUS
  <2>5. Load(boxes, slots, n + 1, d, cal) = s * a + t * b
    BY <1>1, <1>2, <2>3, <2>4 DEF Load
  <2>6. s = x + (IF slots[n + 1].day = d /\ boxes[n + 1].withVideo = TRUE THEN 1 ELSE 0)
    BY <1>3, <2>3, MadeIs
  <2>7. t = y + (IF slots[n + 1].day = d /\ boxes[n + 1].withVideo = FALSE THEN 1 ELSE 0)
    BY <1>4, <2>4, MadeIs
  <2>8. CASE slots[n + 1].day # d
    <3>1. s = x /\ t = y
      BY <2>6, <2>7, <2>8
    <3> QED BY <1>5, <1>7, <2>5, <2>8, <3>1
  <2>9. CASE slots[n + 1].day = d /\ boxes[n + 1].withVideo = TRUE
    <3>1. s = x + 1 /\ t = y
      BY <2>6, <2>7, <2>9
    <3>2. Units(boxes, cal, n + 1) = a
      BY <1>1, <2>9 DEF Units
    <3>3. (x + 1) * a + y * b = (x * a + y * b) + a
      OBVIOUS
    <3> QED BY <1>5, <2>5, <2>9, <3>1, <3>2, <3>3
  <2>10. CASE slots[n + 1].day = d /\ boxes[n + 1].withVideo = FALSE
    <3>1. s = x /\ t = y + 1
      BY <2>6, <2>7, <2>10
    <3>2. Units(boxes, cal, n + 1) = b
      BY <1>2, <2>10 DEF Units
    <3>3. x * a + (y + 1) * b = (x * a + y * b) + b
      OBVIOUS
    <3> QED BY <1>5, <2>5, <2>10, <3>1, <3>2, <3>3
  <2> QED BY <2>2, <2>8, <2>9, <2>10
<1> QED BY <1>5, <1>6, <1>7, <1>8

\* After the first n boxes, of which the last is at this place: a day holds no more than a day
\* holds, later days are empty, and a day that was left had no room for the next box.
Filled(boxes, slots, n, place, cal) ==
    /\ place.used = Load(boxes, slots, n, place.day, cal)
    /\ \A d \in Nat : Load(boxes, slots, n, d, cal) <= DayUnits(cal)
    /\ \A d \in Nat : d > place.day => Load(boxes, slots, n, d, cal) = 0
    /\ \A h \in 1..(n - 1) : slots[h].day # slots[h + 1].day
            => Load(boxes, slots, n, slots[h].day, cal) + Units(boxes, cal, h + 1) > DayUnits(cal)

LEMMA FilledOn ==
    ASSUME NEW boxes \in Seq(Box), NEW cal \in Calendars, NEW slots,
           NEW n \in Nat, n + 1 \in 1..Len(boxes),
           \A h \in 1..Len(boxes) : slots[h].day \in Nat,
           NEW a \in Places, Filled(boxes, slots, n, a, cal), n # 0 => a = slots[n],
           slots[n + 1] = NextSlot(a, Units(boxes, cal, n + 1), cal)
    PROVE  Filled(boxes, slots, n + 1, slots[n + 1], cal)
<1> DEFINE W(d) == Load(boxes, slots, n, d, cal)
           X(d) == Load(boxes, slots, n + 1, d, cal)
<1>1. PICK L \in Nat \ {0} : L = DayUnits(cal)
  BY DayUnitsIs
<1>2. PICK u \in Nat : u = Units(boxes, cal, n + 1) /\ u <= L
  <2>1. boxes[n + 1] \in Box
    OBVIOUS
  <2>2. boxes[n + 1].withVideo \in BOOLEAN
    BY <2>1 DEF Box
  <2>3. PICK t \in BOOLEAN : t = boxes[n + 1].withVideo
    BY <2>2
  <2>4. Units(boxes, cal, n + 1) = BoxUnits(t, cal)
    BY <2>3 DEF Units
  <2> QED BY <1>1, <2>4, UnitsAre, DayUnitsIs
<1>3. PICK b : b = slots[n + 1]
  OBVIOUS
<1>4. /\ b \in Places
      /\ a.used + u > L => b.day = NextWorkingDay(a.day, cal) /\ b.used = u
      /\ ~ (a.used + u > L) => b.day = a.day /\ b.used = a.used + u
  BY <1>1, <1>2, <1>3, NextPlace
<1>5. b.day \in Nat /\ a.used \in Nat /\ a.day \in Days
  BY <1>3 DEF Places
<1>6. \A d : W(d) \in Nat /\ X(d) = W(d) + (IF b.day = d THEN u ELSE 0)
  <2> TAKE d
  <2>1. W(d) \in Nat /\ X(d) = W(d) + (IF slots[n + 1].day = d THEN Units(boxes, cal, n + 1) ELSE 0)
    BY LoadIs
  <2> HIDE DEF W, X
  <2> QED BY <1>2, <1>3, <2>1
<1>7. /\ a.used = W(a.day)
      /\ \A d \in Nat : W(d) <= L
      /\ \A d \in Nat : d > a.day => W(d) = 0
      /\ \A h \in 1..(n - 1) : slots[h].day # slots[h + 1].day
            => W(slots[h].day) + Units(boxes, cal, h + 1) > L
  BY <1>1 DEF Filled
<1>8. a.day \in Nat /\ b.day >= a.day /\ (a.used + u > L => b.day > a.day)
  <2>1. a.day # Refused
    <3>1. a.day = Refused => b.day = Refused
      BY <1>4, <1>5, NextIs
    <3> QED BY <1>5, <3>1 DEF Refused
  <2>2. a.day \in Nat
    BY <1>5, <2>1 DEF Days
  <2>3. a.used + u > L => b.day > a.day
    <3>1. NextWorkingDay(a.day, cal) # Refused => NextWorkingDay(a.day, cal) > a.day
      BY <1>5, <2>1, NextIs
    <3>2. b.day # Refused
      BY <1>5 DEF Refused
    <3> QED BY <1>4, <3>1, <3>2
  <2>4. ~ (a.used + u > L) => b.day >= a.day
    BY <1>4, <2>2
  <2>5. a.used + u > L => b.day >= a.day
    BY <1>5, <2>2, <2>3
  <2> QED BY <2>2, <2>3, <2>4, <2>5
<1> HIDE DEF W, X
<1>9. b.used = X(b.day) /\ X(b.day) <= L
  <2>1. CASE a.used + u > L
    <3>1. W(b.day) = 0 /\ X(b.day) = W(b.day) + u
      BY <1>5, <1>6, <1>7, <1>8, <2>1
    <3> QED BY <1>2, <1>4, <2>1, <3>1
  <2>2. CASE ~ (a.used + u > L)
    <3>1. W(b.day) = a.used /\ X(b.day) = W(b.day) + u
      BY <1>4, <1>6, <1>7, <2>2
    <3> QED BY <1>1, <1>2, <1>4, <1>5, <2>2, <3>1
  <2> QED BY <2>1, <2>2
<1>10. ASSUME NEW d \in Nat
       PROVE  X(d) <= L /\ (d > b.day => X(d) = 0)
  <2>1. CASE d = b.day
    BY <1>5, <1>9, <2>1
  <2>2. CASE d # b.day
    <3>1. PICK w \in Nat : w = W(d)
      BY <1>6
    <3>2. X(d) = w
      BY <1>6, <2>2, <3>1
    <3>3. w <= L /\ (d > a.day => w = 0)
      BY <1>7, <3>1
    <3> QED BY <1>5, <1>8, <3>2, <3>3
  <2> QED BY <2>1, <2>2
<1>11. (\A d \in Nat : X(d) <= L) /\ (\A d \in Nat : d > b.day => X(d) = 0)
  BY <1>10
<1>12. ASSUME NEW h \in 1..((n + 1) - 1), slots[h].day # slots[h + 1].day
       PROVE  X(slots[h].day) + Units(boxes, cal, h + 1) > L
  <2>1. h \in 1..Len(boxes) /\ slots[h].day \in Nat /\ h + 1 \in 1..Len(boxes)
    OBVIOUS
  <2>2. Units(boxes, cal, h + 1) \in Nat
    <3>1. boxes[h + 1] \in Box
      BY <2>1
    <3> QED BY DayUnitsIs DEF Units
  <2>3. CASE h \in 1..(n - 1)
    <3>1. PICK w \in Nat : w = W(slots[h].day)
      BY <1>6
    <3>2. PICK x : x = X(slots[h].day)
      OBVIOUS
    <3>3. x >= w /\ x \in Nat
      BY <1>2, <1>6, <3>1, <3>2, SMTT(30)
    <3>4. w + Units(boxes, cal, h + 1) > L
      BY <1>7, <1>12, <2>3, <3>1
    <3> QED BY <1>1, <2>2, <3>2, <3>3, <3>4
  <2>4. CASE h = n
    <3>1. slots[h] = a /\ slots[h + 1] = b /\ Units(boxes, cal, h + 1) = u
      BY <1>2, <1>3, <2>4
    <3>2. b.day # a.day
      BY <1>12, <3>1
    <3>3. a.used + u > L
      BY <1>4, <3>2
    <3>4. X(a.day) = a.used
      <4>1. PICK w \in Nat : w = W(a.day)
        BY <1>6
      <4>2. X(a.day) = w
        BY <1>6, <3>2, <4>1
      <4> QED BY <1>7, <4>1, <4>2
    <3> QED BY <3>1, <3>3, <3>4
  <2>5. h \in 1..(n - 1) \/ h = n
    OBVIOUS
  <2> QED BY <2>3, <2>4, <2>5
<1> QED BY <1>1, <1>3, <1>9, <1>11, <1>12 DEF Filled, X

LEMMA DaysFilled ==
    ASSUME NEW boxes \in Seq(Box), NEW cal \in Calendars, NEW now \in Nat, NEW slots,
           slots = Slots(boxes, cal, now), boxes # <<>>,
           \A h \in 1..Len(boxes) : slots[h].day \in Nat
    PROVE  Filled(boxes, slots, Len(boxes), slots[Len(boxes)], cal)
<1> DEFINE P(k) == PlaceAt(boxes, cal, now, k)
           G == {k \in Nat : Filled(boxes, slots, k, P(k), cal)}
<1>1. /\ \A k \in 0..Len(boxes) : P(k) \in Places
      /\ \A k \in 1..Len(boxes) : P(k) = NextSlot(P(k - 1), Units(boxes, cal, k), cal)
      /\ \A k \in 1..Len(boxes) : slots[k] = P(k)
  BY PlacesAre
<1>2. Len(boxes) \in Nat /\ Len(boxes) # 0
  OBVIOUS
<1>3. 0 \in G
  <2>1. P(0).used = 0
    BY DEF PlaceAt, FirstPlace
  <2>2. \A d : Load(boxes, slots, 0, d, cal) = 0
    BY LoadIs
  <2>3. DayUnits(cal) \in Nat
    BY DayUnitsIs
  <2> HIDE DEF P
  <2> QED BY <2>1, <2>2, <2>3 DEF Filled
<1> HIDE DEF P
<1>4. \A k \in 0..(Len(boxes) - 1) : k \in G => k + 1 \in G
  <2> TAKE k \in 0..(Len(boxes) - 1)
  <2> HAVE k \in G
  <2>1. k + 1 \in 1..Len(boxes) /\ (k + 1) - 1 = k /\ k \in 0..Len(boxes) /\ k \in Nat /\ k + 1 \in Nat
        /\ (k # 0 => k \in 1..Len(boxes))
    BY <1>2
  <2>2. PICK a \in Places : a = P(k)
    BY <1>1, <2>1
  <2>3. Filled(boxes, slots, k, a, cal) /\ (k # 0 => a = slots[k])
    BY <1>1, <2>1, <2>2
  <2>4. slots[k + 1] = NextSlot(a, Units(boxes, cal, k + 1), cal)
    BY <1>1, <2>1, <2>2
  <2>5. Filled(boxes, slots, k + 1, slots[k + 1], cal)
    BY <2>1, <2>3, <2>4, FilledOn
  <2> QED BY <1>1, <2>1, <2>5
<1> HIDE DEF G
<1>5. \A k \in 0..Len(boxes) : k \in G
  BY <1>2, <1>3, <1>4, CountingUp
<1>6. Len(boxes) \in 0..Len(boxes) /\ Len(boxes) \in 1..Len(boxes)
  BY <1>2
<1> QED BY <1>1, <1>5, <1>6 DEF G

\* Of the boxes made on a day, those with a video and those without.
Numbers(boxes, slots, d, x, y) ==
    /\ x = MadeOn(boxes, slots, Len(boxes), d, TRUE)
    /\ y = MadeOn(boxes, slots, Len(boxes), d, FALSE)

LEMMA NumbersAre ==
    ASSUME NEW boxes \in Seq(Box), NEW slots, NEW d, NEW cal, NEW x, NEW y, Numbers(boxes, slots, d, x, y)
    PROVE  /\ x \in Nat /\ y \in Nat
           /\ Load(boxes, slots, Len(boxes), d, cal) = x * BoxUnits(TRUE, cal) + y * BoxUnits(FALSE, cal)
<1>1. Len(boxes) \in Nat
  OBVIOUS
<1>2. x \in Nat
  BY <1>1, MadeIs DEF Numbers
<1>3. y \in Nat
  BY <1>1, MadeIs DEF Numbers
<1> QED BY <1>2, <1>3, Zenon DEF Numbers, Load

LEMMA ProductNat == \A x \in Nat, y \in Nat, a \in Nat, b \in Nat : x * a + y * b \in Nat
OBVIOUS

DayFits(boxes, slots, k, d, x, y, cal, now) ==
    /\ IsWorking(d, cal) /\ d >= now
    /\ x * cal.plain + y * cal.video <= cal.video * cal.plain
    /\ k < Len(boxes) /\ d # slots[k + 1].day =>
         /\ ~\E e \in (d + 1)..(slots[k + 1].day - 1) : IsWorking(e, cal)
         /\ ~ ((x + (IF boxes[k + 1].withVideo = TRUE THEN 1 ELSE 0)) * cal.plain
                 + (y + (IF boxes[k + 1].withVideo = FALSE THEN 1 ELSE 0)) * cal.video
                     <= cal.video * cal.plain)

\* The days of a list of boxes that all have a place.
LEMMA DaysFit ==
    ASSUME NEW boxes \in Seq(Box), NEW cal \in Calendars, NEW now \in Nat, NEW slots,
           slots = Slots(boxes, cal, now), \A h \in 1..Len(boxes) : slots[h].day \in Nat,
           NEW k \in 1..Len(boxes), NEW d, d = slots[k].day,
           NEW x, NEW y, Numbers(boxes, slots, d, x, y)
    PROVE  DayFits(boxes, slots, k, d, x, y, cal, now)
<1>1. PICK v \in 1..50 : v = cal.video
  BY DayUnitsIs
<1>2. PICK p \in 1..50 : p = cal.plain
  BY DayUnitsIs
<1>3. PICK a \in Nat \ {0} : a = BoxUnits(TRUE, cal)
  BY UnitsAre
<1>4. PICK b \in Nat \ {0} : b = BoxUnits(FALSE, cal)
  BY UnitsAre
<1>5. PICK L \in Nat \ {0} : L = DayUnits(cal) /\ v * a = L /\ p * b = L
  BY <1>1, <1>2, <1>3, <1>4, UnitsAre
<1>6. x \in Nat /\ y \in Nat /\ d \in Nat /\ Len(boxes) \in Nat
  <2>1. x \in Nat /\ y \in Nat
    BY NumbersAre
  <2>2. d \in Nat
    OBVIOUS
  <2>3. Len(boxes) \in Nat
    OBVIOUS
  <2> QED BY <2>1, <2>2, <2>3
<1>7. /\ slots[k] = PlaceAt(boxes, cal, now, k) /\ slots[k] \in Places
      /\ IsWorking(d, cal) /\ d >= now
  <2>1. k \in 0..Len(boxes)
    OBVIOUS
  <2>2. slots[k] = PlaceAt(boxes, cal, now, k)
    BY PlacesAre
  <2>3. d # Refused
    BY <1>6 DEF Refused
  <2> QED BY <2>1, <2>2, <2>3, PlacesAre, PlacesWork
<1>8. Filled(boxes, slots, Len(boxes), slots[Len(boxes)], cal)
  <2>1. boxes # <<>>
    BY <1>6
  <2> QED BY <2>1, DaysFilled
<1>9. PICK w : w = Load(boxes, slots, Len(boxes), d, cal)
  OBVIOUS
<1>10. w = x * a + y * b
  <2>1. w = x * BoxUnits(TRUE, cal) + y * BoxUnits(FALSE, cal)
    BY <1>9, Zenon DEF Numbers, Load
  <2> QED BY <1>3, <1>4, <2>1, Zenon
<1>11. w <= L
  BY <1>5, <1>6, <1>8, <1>9 DEF Filled
<1>12. x * p + y * v <= v * p
  <2>1. v \in Nat \ {0} /\ p \in Nat \ {0}
    OBVIOUS
  <2> QED BY <1>5, <1>6, <1>10, <1>11, <2>1, UnitsFit
<1>13. ASSUME k < Len(boxes), NEW f, f = slots[k + 1].day, d # f
       PROVE  /\ ~\E e \in (d + 1)..(f - 1) : IsWorking(e, cal)
              /\ ~ ((x + (IF boxes[k + 1].withVideo = TRUE THEN 1 ELSE 0)) * p
                      + (y + (IF boxes[k + 1].withVideo = FALSE THEN 1 ELSE 0)) * v <= v * p)
  <2>1. k + 1 \in 1..Len(boxes) /\ (k + 1) - 1 = k /\ k \in 1..(Len(boxes) - 1)
    BY <1>6, <1>13
  <2>2. f \in Nat
    BY <1>13, <2>1
  <2>3. slots[k + 1] = NextSlot(slots[k], Units(boxes, cal, k + 1), cal)
    <3>1. slots[k + 1] = PlaceAt(boxes, cal, now, k + 1)
      BY <2>1, PlacesAre
    <3>2. PlaceAt(boxes, cal, now, k + 1)
            = NextSlot(PlaceAt(boxes, cal, now, (k + 1) - 1), Units(boxes, cal, k + 1), cal)
      BY <2>1, PlacesAre
    <3> QED BY <1>7, <2>1, <3>1, <3>2
  <2>4. Units(boxes, cal, k + 1) \in Nat
    BY <2>1, PlacesAre
  <2>5. f = NextWorkingDay(d, cal)
    <3>1. PICK u \in Nat : u = Units(boxes, cal, k + 1)
      BY <2>4
    <3>2. PICK a1 \in Places : a1 = slots[k]
      BY <1>7
    <3>3. f = NextSlot(a1, u, cal).day /\ a1.day = d
      BY <1>13, <2>3, <3>1, <3>2
    <3>4. CASE a1.used + u > DayUnits(cal)
      BY <3>3, <3>4, NextPlace
    <3>5. CASE ~ (a1.used + u > DayUnits(cal))
      BY <1>13, <3>3, <3>5, NextPlace
    <3> QED BY <3>4, <3>5
  <2>6. d \in Days /\ d # Refused /\ f # Refused
    BY <1>6, <2>2 DEF Days, Refused
  <2>7. ~\E e \in (d + 1)..(f - 1) : IsWorking(e, cal)
    BY <2>5, <2>6, NextIs
  <2>8. w + Units(boxes, cal, k + 1) > L
    BY <1>5, <1>8, <1>9, <1>13, <2>1 DEF Filled
  <2>9. boxes[k + 1].withVideo \in BOOLEAN
    <3>1. boxes[k + 1] \in Box
      BY <2>1
    <3> QED BY <3>1 DEF Box
  <2>10. v \in Nat \ {0} /\ p \in Nat \ {0} /\ x + 1 \in Nat /\ y + 1 \in Nat
    BY <1>6
  <2>11. CASE boxes[k + 1].withVideo = TRUE
    <3>1. Units(boxes, cal, k + 1) = a
      BY <1>3, <2>11 DEF Units
    <3>2. (x + 1) * a + y * b = (x * a + y * b) + a
      BY <1>6
    <3>3. ~ ((x + 1) * a + y * b <= L)
      <4>1. PICK z \in Nat : z = x * a + y * b
        BY <1>6, ProductNat
      <4> QED BY <1>10, <2>8, <3>1, <3>2, <4>1
    <3>4. ~ ((x + 1) * p + y * v <= v * p)
      <4>1. PICK x1 \in Nat : x1 = x + 1
        BY <1>6
      <4>2. ~ (x1 * a + y * b <= L)
        BY <3>3, <4>1
      <4>3. ~ (x1 * p + y * v <= v * p)
        BY <1>5, <1>6, <2>10, <4>2, UnitsFit
      <4> QED BY <4>1, <4>3
    <3>5. y + 0 = y
      BY <1>6
    <3> QED BY <2>7, <2>11, <3>4, <3>5
  <2>12. CASE boxes[k + 1].withVideo = FALSE
    <3>1. Units(boxes, cal, k + 1) = b
      BY <1>4, <2>12 DEF Units
    <3>2. x * a + (y + 1) * b = (x * a + y * b) + b
      BY <1>6
    <3>3. ~ (x * a + (y + 1) * b <= L)
      <4>1. PICK z \in Nat : z = x * a + y * b
        BY <1>6, ProductNat
      <4> QED BY <1>10, <2>8, <3>1, <3>2, <4>1
    <3>4. ~ (x * p + (y + 1) * v <= v * p)
      <4>1. PICK y1 \in Nat : y1 = y + 1
        BY <1>6
      <4>2. ~ (x * a + y1 * b <= L)
        BY <3>3, <4>1
      <4>3. ~ (x * p + y1 * v <= v * p)
        BY <1>5, <1>6, <2>10, <4>2, UnitsFit
      <4> QED BY <4>1, <4>3
    <3>5. x + 0 = x
      BY <1>6
    <3> QED BY <2>7, <2>12, <3>4, <3>5
  <2> QED BY <2>9, <2>11, <2>12
<1> QED BY <1>1, <1>2, <1>7, <1>12, <1>13 DEF DayFits

\* A day never gets more boxes than the workshop makes in a day, in whatever mixture of the
\* two kinds, and no working day is skipped or left while the next box still fits into it
\* (workdays.py:29, compute_ready_dates): for every queue and every calendar of the settings.
THEOREM WorkshopQueueFitsDays == WorkshopSpec => []QueueFitsDays
<1>1. WorkshopInv => QueueFitsDays
  <2> SUFFICES ASSUME WorkshopInv PROVE QueueFitsDays
    OBVIOUS
  <2> DEFINE boxes == BoxesOf(line)
             slots == Slots(boxes, calendar, today)
             On(d, video) == Cardinality({k \in DOMAIN boxes : slots[k].day = d /\ boxes[k].withVideo = video})
             Fits(v, p) == v * calendar.plain + p * calendar.video <= calendar.video * calendar.plain
             One(k, video) == IF boxes[k + 1].withVideo = video THEN 1 ELSE 0
             FitsAt(k) ==
                /\ IsWorking(slots[k].day, calendar)
                /\ slots[k].day >= today
                /\ Fits(On(slots[k].day, TRUE), On(slots[k].day, FALSE))
             LeftAt(k) ==
                slots[k].day # slots[k + 1].day =>
                    /\ ~\E d \in (slots[k].day + 1)..(slots[k + 1].day - 1) : IsWorking(d, calendar)
                    /\ ~Fits(On(slots[k].day, TRUE) + One(k, TRUE), On(slots[k].day, FALSE) + One(k, FALSE))
  <2>1. SUFFICES ASSUME \A k \in DOMAIN boxes : slots[k].day # Refused
                 PROVE  (\A k \in DOMAIN boxes : FitsAt(k)) /\ (\A k \in 1..(Len(boxes) - 1) : LeftAt(k))
    BY DEF QueueFitsDays
  <2>2. calendar \in Calendars /\ today \in Nat /\ line \in Seq(Entries)
    BY DEF WorkshopInv
  <2>3. boxes \in Seq(Box)
    <3>1. PICK T : Laid(line, T)
      BY <2>2, LineLined, BoxesLaid
    <3> QED BY <3>1 DEF Laid
  <2>4. slots = Slots(boxes, calendar, today)
    OBVIOUS
  <2> HIDE DEF boxes, slots
  <2>5. DOMAIN boxes = 1..Len(boxes) /\ Len(boxes) \in Nat
    BY <2>3
  <2>6. \A k \in 1..Len(boxes) : slots[k].day \in Nat
    <3> TAKE k \in 1..Len(boxes)
    <3>1. k \in 0..Len(boxes)
      BY <2>5
    <3>2. slots[k] \in Places
      BY <2>2, <2>3, <2>4, <3>1, PlacesAre
    <3> QED BY <2>1, <2>5, <3>2 DEF Places, Days
  <2>7. ASSUME NEW k \in 1..Len(boxes) PROVE FitsAt(k) /\ (k < Len(boxes) => LeftAt(k))
    <3>1. PICK d : d = slots[k].day
      OBVIOUS
    <3>2. PICK x : x = On(d, TRUE)
      OBVIOUS
    <3>3. PICK y : y = On(d, FALSE)
      OBVIOUS
    <3>4. Numbers(boxes, slots, d, x, y)
      BY <2>5, <3>2, <3>3 DEF Numbers, MadeOn, Made
    <3>5. DayFits(boxes, slots, k, d, x, y, calendar, today)
      <4> HIDE DEF On
      <4> QED BY <2>2, <2>3, <2>4, <2>6, <3>1, <3>4, DaysFit
    <3>6. /\ IsWorking(d, calendar) /\ d >= today
          /\ Fits(x, y)
          /\ k < Len(boxes) /\ d # slots[k + 1].day =>
               /\ ~\E e \in (d + 1)..(slots[k + 1].day - 1) : IsWorking(e, calendar)
               /\ ~Fits(x + One(k, TRUE), y + One(k, FALSE))
      BY <3>5, Zenon DEF DayFits
    <3> HIDE DEF On, Fits, One
    <3> QED BY <3>1, <3>2, <3>3, <3>6
  <2> HIDE DEF FitsAt, LeftAt
  <2>8. \A k \in 1..(Len(boxes) - 1) : k \in 1..Len(boxes) /\ k < Len(boxes)
    BY <2>5
  <2> QED BY <2>5, <2>7, <2>8
<1> QED BY <1>1, WorkshopInvHolds, PTL

-----------------------------------------------------------------------------
(* The dates in ascending order. *)

LEMMA Greatest ==
    ASSUME NEW n \in Nat \ {0}, NEW f \in [1..n -> Nat]
    PROVE  \E m \in 1..n : \A i \in 1..n : f[i] <= f[m]
<1> DEFINE G == {k \in Nat : \E m \in 1..(k + 1) : \A i \in 1..(k + 1) : f[i] <= f[m]}
<1>1. 0 \in G
  <2>1. \A i \in 1..(0 + 1) : i = 1
    OBVIOUS
  <2>2. f[1] \in Nat /\ 1 \in 1..(0 + 1)
    OBVIOUS
  <2> QED BY <2>1, <2>2
<1>2. \A k \in 0..((n - 1) - 1) : k \in G => k + 1 \in G
  <2> TAKE k \in 0..((n - 1) - 1)
  <2> HAVE k \in G
  <2>1. PICK m \in 1..(k + 1) : \A i \in 1..(k + 1) : f[i] <= f[m]
    OBVIOUS
  <2>2. m \in 1..n /\ k + 2 \in 1..n /\ k + 1 \in Nat /\ \A i \in 1..(k + 1) : i \in 1..n
    OBVIOUS
  <2>3. PICK h \in {m, k + 2} : f[m] <= f[h] /\ f[k + 2] <= f[h]
    <3>1. f[m] \in Nat /\ f[k + 2] \in Nat
      BY <2>2
    <3> QED BY <3>1
  <2>4. h \in 1..((k + 1) + 1) /\ h \in 1..n
    BY <2>2
  <2>5. \A i \in 1..((k + 1) + 1) : i = k + 2 \/ i \in 1..(k + 1)
    OBVIOUS
  <2>6. ASSUME NEW i \in 1..((k + 1) + 1) PROVE f[i] <= f[h]
    <3>1. CASE i = k + 2
      BY <2>3, <3>1
    <3>2. CASE i \in 1..(k + 1)
      <4>1. f[i] \in Nat /\ f[m] \in Nat /\ f[h] \in Nat
        BY <2>2, <2>4, <3>2
      <4> QED BY <2>1, <2>3, <3>2, <4>1
    <3> QED BY <2>5, <3>1, <3>2
  <2> QED BY <2>2, <2>4, <2>6
<1> HIDE DEF G
<1>3. \A k \in 0..(n - 1) : k \in G
  <2>1. n - 1 \in Nat
    OBVIOUS
  <2> QED BY <1>1, <1>2, <2>1, CountingUp
<1>4. n - 1 \in G /\ (n - 1) + 1 = n
  BY <1>3
<1> QED BY <1>4 DEF G

\* p puts the values of f in order.
Orders(p, f, n) ==
    /\ p \in Bijection(1..n, 1..n)
    /\ \A i \in 1..n, j \in 1..n : i < j => f[p[i]] <= f[p[j]]

LEMMA OrdersOn ==
    ASSUME NEW n \in Nat, NEW f \in [1..(n + 1) -> Nat],
           \A g \in [1..n -> Nat] : \E p : Orders(p, g, n)
    PROVE  \E p : Orders(p, f, n + 1)
<1>1. PICK m \in 1..(n + 1) : \A i \in 1..(n + 1) : f[i] <= f[m]
  <2>1. n + 1 \in Nat \ {0}
    OBVIOUS
  <2> QED BY <2>1, Greatest
<1> DEFINE g == [i \in 1..n |-> IF i = m THEN f[n + 1] ELSE f[i]]
<1>2. g \in [1..n -> Nat] /\ \A i \in 1..n : g[i] = IF i = m THEN f[n + 1] ELSE f[i]
  <2>1. \A i \in 1..n : (IF i = m THEN f[n + 1] ELSE f[i]) \in Nat
    OBVIOUS
  <2> QED BY <2>1
<1> HIDE DEF g
<1>3. PICK p : Orders(p, g, n)
  BY <1>2
<1>4. /\ p \in [1..n -> 1..n]
      /\ \A i \in 1..n, j \in 1..n : p[i] = p[j] => i = j
      /\ \A w \in 1..n : \E i \in 1..n : p[i] = w
      /\ \A i \in 1..n, j \in 1..n : i < j => g[p[i]] <= g[p[j]]
  <2>1. p \in Bijection(1..n, 1..n)
    BY <1>3 DEF Orders
  <2> QED BY <1>3, <2>1, Fun_IsBij DEF Orders, Bijection, Injection, Surjection, IsInjective
<1> DEFINE s == [i \in 1..(n + 1) |-> IF i = n + 1 THEN m ELSE IF p[i] = m THEN n + 1 ELSE p[i]]
<1>5. /\ s[n + 1] = m
      /\ \A i \in 1..n : s[i] = IF p[i] = m THEN n + 1 ELSE p[i]
  <2>1. n + 1 \in 1..(n + 1) /\ \A i \in 1..n : i \in 1..(n + 1) /\ i # n + 1
    OBVIOUS
  <2> QED BY <2>1
<1>6. s \in [1..(n + 1) -> 1..(n + 1)]
  <2>1. ASSUME NEW i \in 1..(n + 1)
        PROVE  (IF i = n + 1 THEN m ELSE IF p[i] = m THEN n + 1 ELSE p[i]) \in 1..(n + 1)
    <3>1. i = n + 1 \/ i \in 1..n
      OBVIOUS
    <3>2. CASE i \in 1..n
      <4>1. p[i] \in 1..n
        BY <1>4, <3>2
      <4> QED BY <4>1
    <3> QED BY <3>1, <3>2
  <2> QED BY <2>1
<1> HIDE DEF s
<1>7. \A i \in 1..n : f[s[i]] = g[p[i]] /\ s[i] # m /\ p[i] \in 1..n
  <2> TAKE i \in 1..n
  <2>1. p[i] \in 1..n
    BY <1>4
  <2>2. g[p[i]] = IF p[i] = m THEN f[n + 1] ELSE f[p[i]]
    BY <1>2, <2>1
  <2>3. s[i] = IF p[i] = m THEN n + 1 ELSE p[i]
    BY <1>5
  <2>4. CASE p[i] = m
    <3>1. n + 1 # m
      BY <2>1, <2>4
    <3> QED BY <2>1, <2>2, <2>3, <2>4, <3>1
  <2>5. CASE p[i] # m
    BY <2>1, <2>2, <2>3, <2>5
  <2> QED BY <2>4, <2>5
<1>8. ASSUME NEW i \in 1..(n + 1), NEW j \in 1..(n + 1), i < j PROVE f[s[i]] <= f[s[j]]
  <2>1. i \in 1..n /\ s[i] \in 1..(n + 1)
    BY <1>6, <1>8, SMTT(30)
  <2>2. CASE j = n + 1
    BY <1>1, <1>5, <2>1, <2>2
  <2>3. CASE j # n + 1
    <3>1. j \in 1..n
      BY <2>3
    <3> QED BY <1>4, <1>7, <1>8, <2>1, <3>1
  <2> QED BY <2>2, <2>3
<1>9. ASSUME NEW i \in 1..(n + 1), NEW j \in 1..(n + 1), s[i] = s[j] PROVE i = j
  <2>1. i \in 1..n \/ i = n + 1
    OBVIOUS
  <2>2. j \in 1..n \/ j = n + 1
    OBVIOUS
  <2>3. ASSUME i \in 1..n, j \in 1..n PROVE i = j
    <3>1. p[i] \in 1..n /\ p[j] \in 1..n
      BY <1>4, <2>3
    <3>2. p[i] = p[j]
      BY <1>5, <1>9, <2>3, <3>1
    <3> QED BY <1>4, <2>3, <3>2
  <2> QED BY <1>5, <1>7, <1>9, <2>1, <2>2, <2>3
<1>10. ASSUME NEW w \in 1..(n + 1) PROVE \E i \in 1..(n + 1) : s[i] = w
  <2>1. CASE w = m
    BY <1>5, <2>1
  <2>2. CASE w # m /\ w # n + 1
    <3>1. PICK i \in 1..n : p[i] = w
      BY <1>4, <2>2
    <3>2. i \in 1..(n + 1)
      OBVIOUS
    <3> QED BY <1>5, <2>2, <3>1, <3>2
  <2>3. CASE w # m /\ w = n + 1
    <3>1. m \in 1..n
      BY <2>3
    <3>2. PICK i \in 1..n : p[i] = m
      BY <1>4, <3>1
    <3>3. i \in 1..(n + 1)
      OBVIOUS
    <3> QED BY <1>5, <2>3, <3>2, <3>3
  <2> QED BY <2>1, <2>2, <2>3
<1>11. s \in Bijection(1..(n + 1), 1..(n + 1))
  BY <1>6, <1>9, <1>10, Fun_IsBij
<1> QED BY <1>8, <1>11 DEF Orders

Dates(dates, n) == dates \in [1..n -> Nat] /\ Len(dates) = n

\* The dates in order are the dates in the order of p.
SortedBy(p, dates, n) ==
    /\ p \in [1..n -> 1..n] /\ \A w \in 1..n : \E i \in 1..n : p[i] = w
    /\ Len(Sorted(dates)) = n /\ \A i \in 1..n : Sorted(dates)[i] = dates[p[i]]
    /\ \A i \in 1..n, j \in 1..n : i <= j => dates[p[i]] <= dates[p[j]]

LEMMA SortedIs ==
    ASSUME NEW n \in Nat, NEW dates, Dates(dates, n)
    PROVE  \E p : SortedBy(p, dates, n)
<1> USE DEF Dates
<1> DEFINE G == {k \in Nat : \A f \in [1..k -> Nat] : \E p : Orders(p, f, k)}
<1>1. 0 \in G
  <2>1. ASSUME NEW f \in [1..0 -> Nat] PROVE \E p : Orders(p, f, 0)
    <3>1. [i \in 1..0 |-> i] \in Bijection(1..0, 1..0)
      BY DEF Bijection, Injection, Surjection, IsInjective
    <3>2. Orders([i \in 1..0 |-> i], f, 0)
      BY <3>1 DEF Orders
    <3> QED BY <3>2
  <2> QED BY <2>1
<1>2. \A k \in 0..(n - 1) : k \in G => k + 1 \in G
  <2> TAKE k \in 0..(n - 1)
  <2> HAVE k \in G
  <2>1. k \in Nat /\ k + 1 \in Nat
    OBVIOUS
  <2>2. \A f \in [1..(k + 1) -> Nat] : \E p : Orders(p, f, k + 1)
    BY <2>1, OrdersOn
  <2> QED BY <2>1, <2>2
<1> HIDE DEF G
<1>3. n \in G
  <2>1. \A k \in 0..n : k \in G
    BY <1>1, <1>2, CountingUp
  <2> QED BY <2>1
<1>4. \E p : Orders(p, dates, n)
  BY <1>3 DEF G
<1> DEFINE Ascends(p) == \A i \in 1..n, j \in 1..n : i < j => dates[p[i]] <= dates[p[j]]
           c == CHOOSE p \in Bijection(1..n, 1..n) : Ascends(p)
<1>5. c \in Bijection(1..n, 1..n) /\ Ascends(c)
  BY <1>4 DEF Orders
<1>6. Sorted(dates) = [i \in 1..n |-> dates[c[i]]]
  BY DEF Sorted
<1> HIDE DEF c
<1>7. c \in [1..n -> 1..n] /\ \A w \in 1..n : \E i \in 1..n : c[i] = w
  BY <1>5 DEF Bijection, Surjection
<1>8. \A i \in 1..n : Sorted(dates)[i] = dates[c[i]]
  BY <1>6
<1>9. ASSUME NEW i \in 1..n, NEW j \in 1..n, i <= j PROVE dates[c[i]] <= dates[c[j]]
  <2>1. CASE i < j
    BY <1>5, <2>1
  <2>2. CASE i = j
    <3>1. c[i] \in 1..n
      BY <1>7
    <3>2. dates[c[i]] \in Nat
      BY <3>1
    <3> QED BY <2>2, <3>2
  <2> QED BY <1>9, <2>1, <2>2
<1>10. Len(Sorted(dates)) = n
  BY <1>6
<1> QED BY <1>7, <1>8, <1>9, <1>10 DEF SortedBy

\* So many places hold no more than so many values.
Held(S, p, a, b) == \A x \in S : \E j \in a..b : p[j] = x

LEMMA HeldBy ==
    ASSUME NEW a \in Int, NEW b \in Int, a <= b + 1, NEW S, NEW p, Held(S, p, a, b)
    PROVE  IsFiniteSet(S) /\ Cardinality(S) <= b - a + 1
<1> DEFINE T == {p[j] : j \in a..b}
           f == [j \in a..b |-> p[j]]
<1>1. IsFiniteSet(a..b) /\ Cardinality(a..b) = b - a + 1
  <2>1. IsFiniteSet(a..b) /\ Cardinality(a..b) = IF a > b THEN 0 ELSE b - a + 1
    BY FS_Interval
  <2> QED BY <2>1
<1>2. f \in Surjection(a..b, T)
  BY DEF Surjection
<1>3. IsFiniteSet(T) /\ Cardinality(T) <= b - a + 1
  BY <1>1, <1>2, FS_Surjection
<1>4. S \subseteq T
  BY DEF Held
<1> HIDE DEF T
<1>5. IsFiniteSet(S) /\ Cardinality(S) <= Cardinality(T)
  BY <1>3, <1>4, FS_Subset
<1>6. Cardinality(S) \in Nat /\ Cardinality(T) \in Nat
  BY <1>3, <1>5, FS_CardinalityType
<1> QED BY <1>3, <1>5, <1>6

\* So many orders are ready before a day as their dates in order say.
LEMMA ReadyBefore ==
    ASSUME NEW n \in Nat, NEW dates, Dates(dates, n),
           NEW need \in 1..n, NEW d \in Nat, NEW c, c = Cardinality({i \in 1..n : dates[i] < d})
    PROVE  c \in Nat /\ c <= n /\ (c >= need <=> Sorted(dates)[need] < d)
<1>0. PICK p : SortedBy(p, dates, n)
  BY SortedIs
<1>1. /\ p \in [1..n -> 1..n] /\ \A w \in 1..n : \E i \in 1..n : p[i] = w
      /\ \A i \in 1..n : Sorted(dates)[i] = dates[p[i]]
      /\ \A i \in 1..n, j \in 1..n : i <= j => dates[p[i]] <= dates[p[j]]
  BY <1>0 DEF SortedBy
<1> USE DEF Dates
<1> DEFINE S == {i \in 1..n : dates[i] < d}
<1>2. IsFiniteSet(1..n) /\ Cardinality(1..n) = n
  BY FS_Interval
<1>3. S \in SUBSET (1..n)
  OBVIOUS
<1> HIDE DEF S
<1>4. IsFiniteSet(S) /\ Cardinality(S) \in Nat /\ Cardinality(S) <= n
  <2>1. IsFiniteSet(S) /\ Cardinality(S) <= Cardinality(1..n)
    BY <1>2, <1>3, FS_Subset
  <2>2. Cardinality(S) \in Nat
    BY <2>1, FS_CardinalityType
  <2> QED BY <1>2, <2>1, <2>2
<1>5. PICK e \in Nat : e = Sorted(dates)[need] /\ e = dates[p[need]]
  <2>1. p[need] \in 1..n
    BY <1>1
  <2> QED BY <1>1, <2>1
<1>6. ASSUME e < d PROVE Cardinality(S) >= need
  <2> DEFINE R == (1..n) \ S
  <2>1. \A x \in R : \E j \in (need + 1)..n : p[j] = x
    <3> TAKE x \in R
    <3>1. x \in 1..n /\ ~ (dates[x] < d)
      BY DEF S
    <3>2. PICK j \in 1..n : p[j] = x
      BY <1>1, <3>1
    <3>3. j > need
      <4>1. SUFFICES ASSUME j <= need PROVE FALSE
        OBVIOUS
      <4>2. dates[x] <= e
        <5>1. dates[p[j]] <= dates[p[need]]
          BY <1>1, <4>1
        <5> QED BY <1>5, <3>2, <5>1
      <4>3. dates[x] \in Nat
        BY <3>1
      <4> QED BY <1>6, <3>1, <4>2, <4>3
    <3> QED BY <3>2, <3>3
  <2> HIDE DEF R
  <2>2. need + 1 \in Int /\ n \in Int /\ need + 1 <= n + 1 /\ n - (need + 1) + 1 = n - need
    OBVIOUS
  <2>3. Cardinality(R) <= n - need
    <3>1. Held(R, p, need + 1, n)
      BY <2>1 DEF Held
    <3>2. Cardinality(R) <= n - (need + 1) + 1
      BY <2>2, <3>1, HeldBy
    <3> QED BY <2>2, <3>2
  <2>4. Cardinality(R) = n - Cardinality((1..n) \cap S)
    BY <1>2, FS_Difference DEF R
  <2>5. (1..n) \cap S = S
    BY <1>3
  <2>6. PICK s \in Nat : s = Cardinality(S)
    BY <1>4
  <2>7. Cardinality(R) = n - s
    BY <2>4, <2>5, <2>6
  <2> QED BY <2>3, <2>6, <2>7
<1>7. ASSUME ~ (e < d) PROVE ~ (Cardinality(S) >= need)
  <2>1. \A x \in S : \E j \in 1..(need - 1) : p[j] = x
    <3> TAKE x \in S
    <3>1. x \in 1..n /\ dates[x] < d
      BY DEF S
    <3>2. PICK j \in 1..n : p[j] = x
      BY <1>1, <3>1
    <3>3. j < need
      <4>1. SUFFICES ASSUME need <= j PROVE FALSE
        OBVIOUS
      <4>2. e <= dates[x]
        <5>1. dates[p[need]] <= dates[p[j]]
          BY <1>1, <4>1
        <5> QED BY <1>5, <3>2, <5>1
      <4>3. dates[x] \in Nat
        BY <3>1
      <4> QED BY <1>7, <3>1, <4>2, <4>3
    <3> QED BY <3>2, <3>3
  <2>2. 1 \in Int /\ need - 1 \in Int /\ 1 <= (need - 1) + 1 /\ (need - 1) - 1 + 1 = need - 1
    OBVIOUS
  <2>3. Cardinality(S) <= need - 1
    <3>1. Held(S, p, 1, need - 1)
      BY <2>1 DEF Held
    <3>2. Cardinality(S) <= (need - 1) - 1 + 1
      BY <2>2, <3>1, HeldBy
    <3> QED BY <2>2, <3>2
  <2> QED BY <1>4, <2>3
<1> QED BY <1>4, <1>5, <1>6, <1>7 DEF S

\* No order of the queue is ready before today.
LEMMA ReadyFromToday ==
    ASSUME NEW q \in Seq(Entries), NEW cal \in Calendars, NEW now \in Nat, NEW i \in 1..Len(q),
           ReadyDates(q, cal, now)[i] # Refused
    PROVE  ReadyDates(q, cal, now)[i] \in Nat /\ ReadyDates(q, cal, now)[i] >= now
<1>1. PICK T : Laid(q, T)
  BY LineLined, BoxesLaid
<1>2. Lined(q) /\ q[i] \in Entries
  BY LineLined
<1>3. BoxesOf(q) \in Seq(Box) /\ T[i] \in 1..Len(BoxesOf(q)) /\ Len(BoxesOf(q)) \in Nat
  <2>1. BoxesOf(q) \in Seq(Box)
    BY <1>1 DEF Laid
  <2>2. Len(BoxesOf(q)) \in Nat
    BY <2>1
  <2>3. T[i] \in 1..Len(BoxesOf(q))
    BY <1>1, <1>2, LastBox
  <2> QED BY <2>1, <2>2, <2>3
<1>4. PICK k \in 1..Len(BoxesOf(q)) : k = T[i]
  BY <1>3
<1>5. PICK d \in Days : d = PlannedDays(q, cal, now)[i]
  BY ReadyIs
<1>6. d = PlaceAt(BoxesOf(q), cal, now, k).day
  BY <1>1, <1>2, <1>3, <1>4, <1>5, PlannedIs, PlacesAre
<1>7. k \in 0..Len(BoxesOf(q))
  BY <1>3
<1>8. d # Refused => d >= now
  BY <1>3, <1>6, <1>7, PlacesWork
<1>9. PICK e \in Days : e = EarliestReady(q[i], cal)
  BY ReadyIs
<1>10. PICK f \in Days : f = ReadyDates(q, cal, now)[i] /\ f = Later(d, e)
  BY <1>5, <1>9, ReadyIs
<1>11. f # Refused /\ f \in Nat
  BY <1>10 DEF Days
<1>12. d # Refused /\ d <= f /\ d \in Nat
  BY <1>10, <1>11, LaterIs DEF Days
<1> QED BY <1>8, <1>10, <1>11, <1>12

\* The date a refused customer is told is the first working day on which enough orders are
\* ready for one more to fit under the limit, and today is none: for every queue, every limit
\* and every number of orders that wait for payment (free_slot_date, intake.py:51).
THEOREM WorkshopFreeSlotIsFirst == WorkshopSpec => []FreeSlotIsFirst
<1>1. WorkshopInv => FreeSlotIsFirst
  <2> DEFINE Before(d) == Cardinality({i \in DOMAIN line : ReadyNow[i] < d})
             Free(load, limit, d) == load - Before(d) < limit
             Told(load, limit) == FreeSlotDate(ReadyNow, load, limit, calendar)
             First(load, limit, told) ==
                /\ Free(load, limit, told) /\ IsWorking(told, calendar) /\ ~Free(load, limit, today)
                /\ ~\E d \in today..(told - 1) : Free(load, limit, d) /\ IsWorking(d, calendar)
  <2> SUFFICES ASSUME WorkshopInv, Dated(ReadyNow), NEW unpaid \in 0..1, NEW limit \in 1..MaxLine,
                      Told(Len(line) + unpaid, limit) # Refused
               PROVE  First(Len(line) + unpaid, limit, Told(Len(line) + unpaid, limit))
    BY DEF FreeSlotIsFirst
  <2>0. PICK told : told = Told(Len(line) + unpaid, limit)
    OBVIOUS
  <2>1. PICK cal \in Calendars : cal = calendar
    BY DEF WorkshopInv
  <2>2. PICK now \in Nat : now = today
    BY DEF WorkshopInv
  <2>3. line \in Seq(Entries)
    BY DEF WorkshopInv
  <2>4. PICK n \in Nat : n = Len(line) /\ DOMAIN line = 1..n
    BY <2>3
  <2>5. PICK dates : dates = ReadyNow
    OBVIOUS
  <2>6. DOMAIN dates = 1..n /\ dates = [i \in 1..n |-> dates[i]]
    <3>1. dates = ReadyDates(line, calendar, today)
      BY <2>5 DEF ReadyNow
    <3>2. PICK planned : planned = PlannedDays(line, calendar, today)
      OBVIOUS
    <3>3. dates = [i \in DOMAIN line |-> Later(planned[i], EarliestReady(line[i], calendar))]
      BY <3>1, <3>2 DEF ReadyDates
    <3>4. DOMAIN dates = DOMAIN line /\ dates = [i \in DOMAIN line |-> dates[i]]
      BY <3>3
    <3> QED BY <2>4, <3>4
  <2>7. \A i \in 1..n : dates[i] \in Nat /\ dates[i] >= now
    <3> TAKE i \in 1..n
    <3>1. ReadyDates(line, calendar, today)[i] # Refused
      BY <2>5, <2>6 DEF Dated, ReadyNow
    <3>2. i \in 1..Len(line) /\ today \in Nat
      BY <2>2, <2>4
    <3> QED BY <2>1, <2>2, <2>3, <2>5, <3>1, <3>2, ReadyFromToday DEF ReadyNow
  <2>8. Dates(dates, n)
    BY <2>6, <2>7 DEF Dates
  <2>9. PICK need \in Int : need = (n + unpaid) - limit + 1
    OBVIOUS
  <2>10. /\ need \in 1..n /\ Len(Sorted(dates)) = n
         /\ told = NextWorkingDay(Sorted(dates)[need], cal)
    <3>1. PICK sorted : sorted = Sorted(dates)
      OBVIOUS
    <3>2. Len(sorted) = n
      BY <2>8, <3>1, SortedIs DEF SortedBy
    <3>3. told = IF need <= 0 \/ need > Len(sorted) THEN Refused
                 ELSE NextWorkingDay(sorted[need], cal)
      BY <2>0, <2>1, <2>4, <2>5, <2>9, <3>1 DEF FreeSlotDate
    <3> QED BY <2>0, <3>1, <3>2, <3>3
  <2>11. \A d \in Nat : /\ Before(d) \in Nat
                        /\ (Before(d) >= need <=> Sorted(dates)[need] < d)
    <3> TAKE d \in Nat
    <3>1. PICK c : c = Cardinality({i \in 1..n : dates[i] < d})
      OBVIOUS
    <3>2. c \in Nat /\ (c >= need <=> Sorted(dates)[need] < d)
      BY <2>8, <2>10, <3>1, ReadyBefore
    <3>3. Before(d) = c
      BY <2>4, <2>5, <3>1
    <3> QED BY <3>2, <3>3
  <2>12. PICK last \in Nat : last = Sorted(dates)[need] /\ last >= now
    <3>1. PICK p : SortedBy(p, dates, n)
      BY <2>8, SortedIs
    <3>2. p[need] \in 1..n
      BY <2>10, <3>1 DEF SortedBy
    <3>3. Sorted(dates)[need] = dates[p[need]]
      BY <2>10, <3>1 DEF SortedBy
    <3> QED BY <2>7, <3>2, <3>3
  <2> HIDE DEF Before
  <2>13. \A d \in Nat : Free(Len(line) + unpaid, limit, d) <=> last < d
    <3> TAKE d \in Nat
    <3>1. PICK c \in Nat : c = Before(d)
      BY <2>11
    <3>2. c >= need <=> last < d
      BY <2>11, <2>12, <3>1
    <3>3. (n + unpaid) - c < limit <=> c >= need
      BY <2>9
    <3> QED BY <2>4, <3>1, <3>2, <3>3
  <2> HIDE DEF Free
  <2>14. /\ told \in Nat /\ told > last /\ IsWorking(told, cal)
         /\ \A e \in (last + 1)..(told - 1) : ~IsWorking(e, cal)
    <3>1. last \in Days /\ last # Refused
      BY DEF Days, Refused
    <3>2. told = NextWorkingDay(last, cal)
      BY <2>10, <2>12
    <3>3. told # Refused
      BY <2>0
    <3>4. told \in Days
      BY <3>1, <3>2, NextIs
    <3> QED BY <3>1, <3>2, <3>3, <3>4, NextIs DEF Days
  <2>15. \A d \in today..(told - 1) : d \in Nat /\ (last < d => d \in (last + 1)..(told - 1))
    BY <2>2, <2>12, <2>14
  <2>16. ~Free(Len(line) + unpaid, limit, today)
    BY <2>2, <2>12, <2>13
  <2> QED BY <2>0, <2>1, <2>13, <2>14, <2>15, <2>16
<1> QED BY <1>1, WorkshopInvHolds, PTL
=============================================================================
