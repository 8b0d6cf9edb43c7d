----------------------------- MODULE SyncProofs -----------------------------
(* Two things about the pickup points: what a refresh of a directory may do to  *)
(* it, for any number of points, parts of a source and overlapping runs         *)
(* (PickupSync), and what a customer who searches is shown, for any directory,  *)
(* any queries, any circles and any size of a page (PickupSearch).              *)
EXTENDS PickupSync, PickupSearch, FiniteSetTheorems, SequenceTheorems, TLAPS

Marks == {"absent", "on", "off"}
Phases == {"idle", "asking", "writing", "importing"}

PartSets == SUBSET Parts
RowSets == SUBSET (Points \X (Parts \cup {"file"}))

Run == [phase : Phases, left : PartSets, tries : Int, rows : RowSets, failed : PartSets,
        at : Nat, known : Nat, loaded : SUBSET (Points \X Marks),
        absent : SUBSET Points, raced : BOOLEAN]

Shapes ==
    /\ carrier \in {"cdek", "yandex", "ozon"}
    /\ table \in [Points -> Marks]
    /\ stamp \in [Points -> Nat]
    /\ page \in [synced : Nat, raced : BOOLEAN, error : {"none", "partly", "failed"}]
    /\ job \in [Jobs -> Run]
    /\ clock \in Nat

\* What a run has read: of every part that has answered it knows each point, or knows
\* that it is not there.
Answered(r) ==
    r.phase \in {"asking", "writing"} =>
        \A part \in PartsAsked \ (r.left \cup r.failed) :
            Held(part) \subseteq PointsOf(r.rows) \cup r.absent

Single(rows) == \A x, y \in rows : x[1] = y[1] => x = y

\* What a transaction has read of the table holds, unless another has written since.
HasRead(r) ==
    /\ r.phase = "writing" => r.left = {} /\ Single(r.rows)
    /\ r.phase = "writing" /\ ~r.raced => r.known = Cardinality(Active)
    /\ r.phase = "importing" /\ ~r.raced => r.loaded = {<<p, table[p]>> : p \in Points}

RunOK(r) == Answered(r) /\ HasRead(r)

\* No two transactions have the same time, nor that of the last one that wrote.
Pending(r) == r.phase \in {"writing", "importing"}

Times ==
    /\ page.synced <= clock
    /\ \A j \in Jobs : Pending(job[j]) => job[j].at \in 1..clock /\ job[j].at # page.synced
    /\ \A j, k \in Jobs : Pending(job[j]) /\ Pending(job[k]) /\ job[j].at = job[k].at => j = k

SyncInv ==
    /\ Shapes
    /\ \A j \in Jobs : RunOK(job[j])
    /\ Times
    /\ CleanDateHolds

------------------------------------------------------------------------------
(* Rows.                                                                    *)

LEMMA UniqueRowsSound ==
    ASSUME NEW rows
    PROVE  /\ UniqueRows(rows) \subseteq rows
           /\ Single(UniqueRows(rows))
           /\ PointsOf(UniqueRows(rows)) = PointsOf(rows)
<1>1. ASSUME NEW row \in rows
      PROVE  row[1] \in PointsOf(UniqueRows(rows))
  <2> DEFINE first == CHOOSE r \in rows : r[1] = row[1]
  <2>1. first \in rows /\ first[1] = row[1]
    OBVIOUS
  <2>2. first = CHOOSE r \in rows : r[1] = first[1]
    BY <2>1
  <2>3. first \in UniqueRows(rows)
    BY <2>1, <2>2 DEF UniqueRows
  <2> QED
    BY <2>1, <2>3 DEF PointsOf
<1>2. UniqueRows(rows) \subseteq rows
  BY DEF UniqueRows
<1>3. Single(UniqueRows(rows))
  BY DEF Single, UniqueRows
<1> QED
  BY <1>1, <1>2, <1>3 DEF PointsOf

\* Rows without doubles are as many as their points.
LEMMA SingleRowsCount ==
    ASSUME NEW rows, Single(rows), PointsOf(rows) \subseteq Points
    PROVE  /\ Cardinality(rows) \in Nat
           /\ IsFiniteSet(PointsOf(rows))
           /\ Cardinality(PointsOf(rows)) = Cardinality(rows)
<1>1. IsFiniteSet(PointsOf(rows))
  BY SyncAssumption, FS_Subset
<1> DEFINE f == [row \in rows |-> row[1]]
<1>2. f \in [rows -> PointsOf(rows)]
  BY DEF PointsOf
<1>3. f \in Injection(rows, PointsOf(rows))
  BY <1>2 DEF Single, Injection, IsInjective
<1>4. f \in Surjection(rows, PointsOf(rows))
  BY <1>2 DEF Surjection, PointsOf
<1> HIDE DEF f
<1>5. IsFiniteSet(rows) /\ Cardinality(rows) = Cardinality(PointsOf(rows))
  BY <1>1, <1>3, <1>4, FS_Injection
<1> QED
  BY <1>1, <1>5, FS_CardinalityType

------------------------------------------------------------------------------
(* Two kinds of steps: a run goes on and leaves the table, or it writes it.   *)

LEMMA RunGoesOn ==
    ASSUME SyncInv, NEW j \in Jobs, NEW new \in Run, Set(j, new),
           UNCHANGED <<carrier, table, stamp>>,
           page' \in [synced : {page.synced}, raced : BOOLEAN, error : {"none", "partly", "failed"}],
           page' = page \/ page'.error = "failed",
           clock' \in {clock, clock + 1},
           Answered(new), HasRead(new),
           Pending(new) => \/ Pending(job[j]) /\ new.at = job[j].at
                           \/ clock' = clock + 1 /\ new.at = clock'
    PROVE  SyncInv'
<1>1. job' = [job EXCEPT ![j] = new]
  BY DEF Set
<1>2. Shapes'
  BY <1>1 DEF SyncInv, Shapes
<1>3. ASSUME NEW k \in Jobs
      PROVE  RunOK(job[k])'
  <2>1. CASE k = j
    BY <1>1, <2>1 DEF SyncInv, Shapes, RunOK, Answered, HasRead, Active, PartsAsked, Held, InPart
  <2>2. CASE k # j
    <3>1. job'[k] = job[k]
      BY <1>1, <2>2 DEF SyncInv, Shapes
    <3> QED
      BY <3>1 DEF SyncInv, RunOK, Answered, HasRead, Active, PartsAsked, Held, InPart
  <2> QED
    BY <2>1, <2>2
<1>4. Times'
  <2>1. page.synced \in Nat /\ clock \in Nat /\ page'.synced = page.synced
    BY DEF SyncInv, Shapes
  <2>2. job'[j] = new /\ \A k \in Jobs \ {j} : job'[k] = job[k]
    BY <1>1 DEF SyncInv, Shapes
  <2>3. \A k \in Jobs : job[k].at \in Nat
    BY DEF SyncInv, Shapes, Run
  <2> QED
    BY <2>1, <2>2, <2>3 DEF SyncInv, Times, Pending
<1>5. CleanDateHolds'
  BY DEF SyncInv, CleanDateHolds, Active
<1> QED
  BY <1>2, <1>3, <1>4, <1>5 DEF SyncInv

LEMMA RunStaysRun ==
    ASSUME NEW r \in Run, NEW raced \in BOOLEAN
    PROVE  [r EXCEPT !.raced = raced] \in Run
BY DEF Run

LEMMA TableWritten ==
    ASSUME SyncInv, NEW j \in Jobs, Pending(job[j]),
           job' = [Raced EXCEPT ![j] = Idling],
           table' \in [Points -> Marks], stamp' \in [Points -> Nat],
           page' \in [synced : {job[j].at}, raced : BOOLEAN, error : {"none", "partly", "failed"}],
           UNCHANGED <<carrier, clock>>,
           CleanDateHolds'
    PROVE  SyncInv'
<1>1. Idling \in Run
  BY DEF Idling, Run, Phases, PartSets, RowSets
<1>2. /\ job'[j] = Idling
      /\ \A k \in Jobs \ {j} :
            job'[k] = [job[k] EXCEPT !.raced = @ \/ job[k].phase \in {"importing", "writing"}]
  BY DEF SyncInv, Shapes, Raced
<1>3. ASSUME NEW k \in Jobs \ {j}
      PROVE  /\ job'[k] \in Run
             /\ job'[k].phase = job[k].phase /\ job'[k].left = job[k].left
             /\ job'[k].rows = job[k].rows /\ job'[k].failed = job[k].failed
             /\ job'[k].at = job[k].at /\ job'[k].known = job[k].known
             /\ job'[k].loaded = job[k].loaded /\ job'[k].absent = job[k].absent
             /\ Pending(job[k]) => job'[k].raced
  <2> DEFINE old == job[k]
  <2>1. old \in Run /\ job'[k] = [old EXCEPT !.raced = @ \/ old.phase \in {"importing", "writing"}]
    BY <1>2 DEF SyncInv, Shapes
  <2> HIDE DEF old
  <2>2. (old.raced \/ old.phase \in {"importing", "writing"}) \in BOOLEAN
    BY <2>1 DEF Run
  <2>3. job'[k] \in Run
    BY <2>1, <2>2, RunStaysRun, ZenonT(30)
  <2>4. old.phase \in {"importing", "writing"} => job'[k].raced
    BY <2>1 DEF Run
  <2>5. /\ job'[k].phase = old.phase /\ job'[k].left = old.left
        /\ job'[k].rows = old.rows /\ job'[k].failed = old.failed
        /\ job'[k].at = old.at /\ job'[k].known = old.known
        /\ job'[k].loaded = old.loaded /\ job'[k].absent = old.absent
    BY <2>1 DEF Run
  <2> QED
    BY <2>3, <2>4, <2>5 DEF old, Pending
<1>4. job' \in [Jobs -> Run]
  <2>1. DOMAIN job' = Jobs /\ job' = [k \in Jobs |-> job'[k]]
    BY DEF Raced
  <2> QED
    BY <1>1, <1>2, <1>3, <2>1
<1>5. job[j].at \in Nat
  BY DEF SyncInv, Shapes, Run
<1>6. Shapes'
  BY <1>4, <1>5 DEF SyncInv, Shapes
<1>7. ASSUME NEW k \in Jobs
      PROVE  RunOK(job[k])'
  <2>1. CASE k = j
    BY <1>2, <2>1 DEF RunOK, Answered, HasRead, Idling
  <2>2. CASE k # j
    <3>1. Answered(job[k])'
      BY <1>3, <2>2 DEF SyncInv, RunOK, Answered, PartsAsked, Held, InPart
    <3>2. HasRead(job[k])'
      BY <1>3, <2>2 DEF SyncInv, RunOK, HasRead, Pending
    <3> QED
      BY <3>1, <3>2 DEF RunOK
  <2> QED
    BY <2>1, <2>2
<1>8. Times'
  <2>1. ~Pending(job'[j])
    BY <1>2 DEF Pending, Idling
  <2>2. \A k \in Jobs \ {j} : Pending(job'[k]) = Pending(job[k]) /\ job'[k].at = job[k].at
    BY <1>3 DEF Pending
  <2>3. page'.synced = job[j].at
    OBVIOUS
  <2> QED
    BY <2>1, <2>2, <2>3, <1>5 DEF SyncInv, Shapes, Times, Pending
<1> QED
  BY <1>6, <1>7, <1>8 DEF SyncInv

------------------------------------------------------------------------------
(* The steps of a run.                                                       *)

LEMMA SomeParts ==
    /\ PartsAsked \subseteq Parts
    /\ \A p \in Points : \E part \in PartsAsked : p \in Held(part)
<1>1. CASE carrier = "cdek"
  BY <1>1, SyncAssumption DEF PartsAsked, Held, InPart
<1>2. CASE carrier # "cdek"
  <2>1. PartsAsked = Parts
    BY <1>2 DEF PartsAsked
  <2>2. \A p \in Points : PartsOf[p] # {} /\ PartsOf[p] \subseteq Parts
    BY SyncAssumption
  <2> QED
    BY <2>1, <2>2 DEF Held, InPart
<1> QED
  BY <1>1, <1>2

LEMMA IdlingRun == Idling \in Run /\ RunOK(Idling) /\ ~Pending(Idling)
<1>1. Idling \in Run
  BY DEF Idling, Run, Phases, PartSets, RowSets
<1>2. Idling.phase = "idle"
  BY DEF Idling
<1> QED
  BY <1>1, <1>2 DEF RunOK, Answered, HasRead, Pending

LEMMA StartKeeps ==
    ASSUME SyncInv, NEW j \in Jobs, StartSync(j)
    PROVE  SyncInv'
<1> DEFINE new == [Idling EXCEPT !.phase = "asking", !.left = PartsAsked]
<1>1. new \in Run /\ new.phase = "asking" /\ new.left = PartsAsked
  BY IdlingRun, SomeParts DEF Run, Phases, PartSets
<1>2. Set(j, new) /\ UNCHANGED <<carrier, table, stamp, page, clock>>
  BY DEF StartSync
<1> HIDE DEF new
<1>3. Answered(new) /\ HasRead(new) /\ ~Pending(new)
  BY <1>1 DEF Answered, HasRead, Pending
<1>4. page \in [synced : {page.synced}, raced : BOOLEAN, error : {"none", "partly", "failed"}]
  BY DEF SyncInv, Shapes
<1> QED
  BY <1>1, <1>2, <1>3, <1>4, RunGoesOn

LEMMA PageStays ==
    ASSUME SyncInv
    PROVE  page \in [synced : {page.synced}, raced : BOOLEAN, error : {"none", "partly", "failed"}]
BY DEF SyncInv, Shapes

\* Records stay runs. (The number of tries is a parameter: the literal 0 in an update of a
\* record is beyond the solver.)
LEMMA AskedStaysRun ==
    ASSUME NEW r \in Run, NEW left \in PartSets, NEW n \in Int, NEW rows \in RowSets,
           NEW absent \in SUBSET Points
    PROVE  [r EXCEPT !.left = left, !.tries = n, !.rows = rows, !.absent = absent] \in Run
BY DEF Run

LEMMA SkippedStaysRun ==
    ASSUME NEW r \in Run, NEW left \in PartSets, NEW n \in Int, NEW failed \in PartSets
    PROVE  [r EXCEPT !.left = left, !.tries = n, !.failed = failed] \in Run
BY DEF Run

\* What an answer adds: each point of the part is among the rows now, or said to be absent.
LEMMA AskKeeps ==
    ASSUME SyncInv, NEW j \in Jobs, NEW part \in Parts,
           NEW answer \in [Held(part) -> Items \cup {Gone}], AskPart(j, part, answer)
    PROVE  SyncInv'
<1> DEFINE r    == job[j]
           rows == r.rows \cup Yielded(part, answer, r.rows)
           gone == r.absent \cup (DOMAIN answer \ Taken(answer))
           left == r.left \ {part}
           new  == [r EXCEPT !.left = left, !.tries = 0, !.rows = rows, !.absent = gone]
<1>1. r \in Run /\ RunOK(r)
  BY DEF SyncInv, Shapes
<1>2. r.phase = "asking" /\ part \in r.left
  BY DEF AskPart
<1>3. Held(part) \subseteq Points /\ Taken(answer) \subseteq Held(part) /\ DOMAIN answer = Held(part)
  BY DEF Held, Taken
<1>4. Yielded(part, answer, r.rows) \subseteq Points \X {part}
  BY <1>3 DEF Yielded
<1>5. Taken(answer) \subseteq PointsOf(rows) /\ PointsOf(r.rows) \subseteq PointsOf(rows)
  <2>1. PointsOf(r.rows) \subseteq PointsOf(rows)
    BY DEF PointsOf
  <2>2. ASSUME NEW p \in Taken(answer) \ PointsOf(r.rows)
        PROVE  p \in PointsOf(rows)
    <3>1. <<p, part>> \in Yielded(part, answer, r.rows)
      BY <2>2 DEF Yielded
    <3> QED
      BY <3>1 DEF PointsOf
  <2> QED
    BY <2>1, <2>2
<1>6. rows \in RowSets /\ gone \in SUBSET Points /\ left \in PartSets
  BY <1>1, <1>3, <1>4 DEF Run, PartSets, RowSets
<1>7. Held(part) \subseteq PointsOf(rows) \cup gone /\ r.absent \subseteq gone
  BY <1>3, <1>5
<1>8. Set(j, new) /\ UNCHANGED <<carrier, table, stamp, page, clock>>
  BY DEF AskPart
<1>12. left = r.left \ {part}
  OBVIOUS
<1> HIDE DEF rows, gone, left, r
<1>9. /\ new \in Run /\ new.phase = "asking" /\ new.left = left
      /\ new.rows = rows /\ new.absent = gone /\ new.failed = r.failed
  <2>1. /\ new.phase = "asking" /\ new.left = left
        /\ new.rows = rows /\ new.absent = gone /\ new.failed = r.failed
    BY <1>1, <1>2, <1>6 DEF Run
  <2>2. 0 \in Int
    OBVIOUS
  <2>3. new \in Run
    BY <1>1, <1>6, <2>2, AskedStaysRun, Zenon
  <2> QED
    BY <2>1, <2>3
<1> HIDE DEF new
<1>10. Answered(new)
  BY <1>1, <1>2, <1>5, <1>7, <1>9, <1>12 DEF RunOK, Answered
<1>11. HasRead(new) /\ ~Pending(new)
  BY <1>9 DEF HasRead, Pending
<1> QED
  BY <1>8, <1>9, <1>10, <1>11, PageStays, RunGoesOn

LEMMA AgainKeeps ==
    ASSUME SyncInv, NEW j \in Jobs, AskAgain(j)
    PROVE  SyncInv'
<1> DEFINE r   == job[j]
           new == [r EXCEPT !.tries = @ + 1]
<1>1. r \in Run /\ RunOK(r) /\ r.phase = "asking"
  BY DEF SyncInv, Shapes, AskAgain
<1>2. Set(j, new) /\ UNCHANGED <<carrier, table, stamp, page, clock>>
  BY DEF AskAgain
<1> HIDE DEF r
<1>3. /\ new \in Run /\ new.phase = "asking" /\ new.left = r.left
      /\ new.rows = r.rows /\ new.absent = r.absent /\ new.failed = r.failed
  BY <1>1 DEF Run
<1> HIDE DEF new
<1>4. Answered(new) /\ HasRead(new) /\ ~Pending(new)
  BY <1>1, <1>3 DEF RunOK, Answered, HasRead, Pending
<1> QED
  BY <1>2, <1>3, <1>4, PageStays, RunGoesOn

LEMMA SkipKeeps ==
    ASSUME SyncInv, NEW j \in Jobs, NEW part \in Parts, SkipPart(j, part)
    PROVE  SyncInv'
<1> DEFINE r      == job[j]
           left   == r.left \ {part}
           failed == r.failed \cup {part}
           new    == [r EXCEPT !.left = left, !.tries = 0, !.failed = failed]
<1>1. r \in Run /\ RunOK(r) /\ r.phase = "asking"
  BY DEF SyncInv, Shapes, SkipPart
<1>2. Set(j, new) /\ UNCHANGED <<carrier, table, stamp, page, clock>>
  BY DEF SkipPart
<1>3. left \in PartSets /\ failed \in PartSets /\ r.left \cup r.failed \subseteq left \cup failed
  BY <1>1 DEF Run, PartSets
<1> HIDE DEF r, left, failed
<1>4. /\ new \in Run /\ new.phase = "asking" /\ new.left = left
      /\ new.rows = r.rows /\ new.absent = r.absent /\ new.failed = failed
  <2>1. /\ new.phase = "asking" /\ new.left = left
        /\ new.rows = r.rows /\ new.absent = r.absent /\ new.failed = failed
    BY <1>1, <1>3 DEF Run
  <2>2. 0 \in Int
    OBVIOUS
  <2>3. new \in Run
    BY <1>1, <1>3, <2>2, SkippedStaysRun, Zenon
  <2> QED
    BY <2>1, <2>3
<1> HIDE DEF new
<1>5. Answered(new) /\ HasRead(new) /\ ~Pending(new)
  BY <1>1, <1>3, <1>4 DEF RunOK, Answered, HasRead, Pending
<1> QED
  BY <1>2, <1>4, <1>5, PageStays, RunGoesOn

\* A run that ends without writing, with an error beside the date or without one.
LEMMA EndKeeps ==
    ASSUME SyncInv, NEW j \in Jobs, Set(j, Idling), UNCHANGED <<carrier, table, stamp, clock>>,
           page' = page \/ page' = [page EXCEPT !.error = "failed"]
    PROVE  SyncInv'
<1>1. /\ page' \in [synced : {page.synced}, raced : BOOLEAN, error : {"none", "partly", "failed"}]
      /\ page' = page \/ page'.error = "failed"
  BY PageStays DEF SyncInv, Shapes
<1> QED
  BY <1>1, IdlingRun, RunGoesOn DEF RunOK

LEMMA CountKeeps ==
    ASSUME SyncInv, NEW j \in Jobs, CountKnown(j)
    PROVE  SyncInv'
<1> DEFINE r   == job[j]
           new == [r EXCEPT !.phase = "writing", !.rows = UniqueRows(@), !.at = clock',
                            !.known = Cardinality(Active)]
<1>1. r \in Run /\ RunOK(r) /\ r.phase = "asking" /\ r.left = {}
  BY DEF SyncInv, Shapes, CountKnown
<1>2. Set(j, new) /\ UNCHANGED <<carrier, table, stamp, page>> /\ clock' = clock + 1
  BY DEF CountKnown
<1>3. clock' \in Nat /\ Cardinality(Active) \in Nat
  <2>1. IsFiniteSet(Active)
    BY SyncAssumption, FS_Subset DEF Active
  <2> QED
    BY <1>2, <2>1, FS_CardinalityType DEF SyncInv, Shapes
<1>4. /\ UniqueRows(r.rows) \subseteq r.rows /\ Single(UniqueRows(r.rows))
      /\ PointsOf(UniqueRows(r.rows)) = PointsOf(r.rows)
  BY UniqueRowsSound
<1>5. UniqueRows(r.rows) \in RowSets
  BY <1>1, <1>4 DEF Run, RowSets
<1> HIDE DEF r
<1>6. /\ new \in Run /\ new.phase = "writing" /\ new.left = {} /\ new.at = clock'
      /\ new.rows = UniqueRows(r.rows) /\ new.absent = r.absent /\ new.failed = r.failed
      /\ new.known = Cardinality(Active)
  BY <1>1, <1>3, <1>5 DEF Run, Phases
<1> HIDE DEF new
<1>7. Answered(new)
  BY <1>1, <1>4, <1>6 DEF RunOK, Answered
<1>8. HasRead(new)
  BY <1>4, <1>6 DEF HasRead
<1> QED
  BY <1>2, <1>6, <1>7, <1>8, PageStays, RunGoesOn

LEMMA LoadKeeps ==
    ASSUME SyncInv, NEW j \in Jobs, NEW file \in SUBSET Points, LoadForImport(j, file)
    PROVE  SyncInv'
<1> DEFINE loaded == {<<p, table[p]>> : p \in Points}
           new == [Idling EXCEPT !.phase = "importing", !.rows = file \X {"file"}, !.at = clock',
                                 !.loaded = loaded]
<1>1. Set(j, new) /\ UNCHANGED <<carrier, table, stamp, page>> /\ clock' = clock + 1
  BY DEF LoadForImport
<1>2. clock' \in Nat /\ loaded \subseteq Points \X Marks /\ file \X {"file"} \in RowSets
  BY <1>1 DEF SyncInv, Shapes, RowSets
<1>3. new \in Run /\ new.phase = "importing" /\ new.at = clock' /\ new.loaded = loaded
  BY <1>2, IdlingRun DEF Run, Phases
<1> HIDE DEF new
<1>4. Answered(new) /\ HasRead(new)
  BY <1>3 DEF Answered, HasRead
<1> QED
  BY <1>1, <1>3, <1>4, PageStays, RunGoesOn

------------------------------------------------------------------------------
(* The steps that write.                                                     *)

LEMMA WriteKeeps ==
    ASSUME SyncInv, NEW j \in Jobs, WritePoints(j)
    PROVE  SyncInv'
<1> DEFINE r   == job[j]
           now == [p \in Points |-> IF p \in PointsOf(r.rows) THEN r.at ELSE stamp[p]]
<1>1. r \in Run /\ Pending(r) /\ r.at \in Nat
  BY DEF SyncInv, Shapes, Run, WritePoints, Pending
<1>2. /\ stamp' = now /\ now \in [Points -> Nat]
      /\ table' = [p \in Points |-> IF p \in PointsOf(r.rows) THEN "on"
                                    ELSE IF p \in SwitchedOff(r, now) THEN "off" ELSE table[p]]
      /\ table' \in [Points -> Marks]
  BY <1>1 DEF SyncInv, Shapes, WritePoints, Marks
<1>3. /\ page' = [synced |-> r.at, raced |-> FALSE, error |-> IF r.failed = {} THEN "none" ELSE "partly"]
      /\ job' = [Raced EXCEPT ![j] = Idling] /\ UNCHANGED <<carrier, clock>>
  BY DEF WritePoints
<1>4. page' \in [synced : {r.at}, raced : BOOLEAN, error : {"none", "partly", "failed"}]
  BY <1>3
<1> HIDE DEF now
<1>5. CleanDateHolds'
  <2> SUFFICES ASSUME page'.error = "none", NEW p \in Points, table'[p] = "on"
               PROVE  stamp'[p] >= page'.synced
    BY DEF CleanDateHolds, Active
  <2>1. r.failed = {} /\ page'.synced = r.at
    BY <1>3
  <2>2. CASE p \in PointsOf(r.rows)
    BY <1>1, <1>2, <2>1, <2>2 DEF now
  <2>3. CASE p \notin PointsOf(r.rows)
    <3>1. p \notin SwitchedOff(r, now) /\ table[p] = "on"
      BY <1>2, <2>3
    <3>2. ~(now[p] < r.at)
      BY <2>1, <3>1 DEF SwitchedOff
    <3> QED
      BY <1>1, <1>2, <2>1, <3>2
  <2> QED
    BY <2>2, <2>3
<1> QED
  BY <1>1, <1>2, <1>3, <1>4, <1>5, TableWritten

LEMMA ImportKeeps ==
    ASSUME SyncInv, NEW j \in Jobs, ImportPoints(j)
    PROVE  SyncInv'
<1> DEFINE r    == job[j]
           file == PointsOf(r.rows)
           Loaded(p, s) == <<p, s>> \in r.loaded
<1>1. r \in Run /\ r.phase = "importing" /\ Pending(r) /\ r.at \in Nat /\ r.raced \in BOOLEAN
  BY DEF SyncInv, Shapes, Run, ImportPoints, Pending
<1>2. /\ stamp' = [p \in Points |-> IF p \in file THEN r.at ELSE stamp[p]]
      /\ table' = [p \in Points |->
                       IF p \in file /\ ~Loaded(p, "on") THEN "on"
                       ELSE IF p \notin file /\ Loaded(p, "on") THEN "off" ELSE table[p]]
  BY DEF ImportPoints
<1>3. stamp' \in [Points -> Nat] /\ table' \in [Points -> Marks]
  BY <1>1, <1>2 DEF SyncInv, Shapes, Marks
<1>4. /\ page' = [synced |-> r.at, raced |-> r.raced, error |-> "none"]
      /\ job' = [Raced EXCEPT ![j] = Idling] /\ UNCHANGED <<carrier, clock>>
  BY DEF ImportPoints
<1>5. page' \in [synced : {r.at}, raced : BOOLEAN, error : {"none", "partly", "failed"}]
  BY <1>1, <1>4
<1>6. CleanDateHolds'
  <2> SUFFICES ASSUME ~page'.raced, NEW p \in Points, table'[p] = "on"
               PROVE  stamp'[p] >= page'.synced
    BY DEF CleanDateHolds, Active
  <2>1. ~r.raced /\ page'.synced = r.at
    BY <1>4
  <2>2. r.loaded = {<<q, table[q]>> : q \in Points}
    BY <1>1, <2>1 DEF SyncInv, RunOK, HasRead
  <2>3. table[p] = "on" => Loaded(p, "on")
    BY <2>2
  <2>4. p \in file
    BY <1>2, <2>3
  <2> QED
    BY <1>1, <1>2, <2>1, <2>4
<1> QED
  BY <1>1, <1>3, <1>4, <1>5, <1>6, TableWritten

LEMMA SyncInvKept == SyncInv /\ [SyncNext]_syncVars => SyncInv'
<1> SUFFICES ASSUME SyncInv, [SyncNext]_syncVars
             PROVE  SyncInv'
  OBVIOUS
<1>1. ASSUME NEW j \in Jobs,
             StartSync(j) \/ AskAgain(j) \/ CountKnown(j) \/ WritePoints(j) \/ ImportPoints(j)
      PROVE  SyncInv'
  BY <1>1, StartKeeps, AgainKeeps, CountKeeps, WriteKeeps, ImportKeeps
<1>2. ASSUME NEW j \in Jobs, SourceFails(j) \/ JobDies(j) \/ Suspect(j)
      PROVE  SyncInv'
  BY <1>2, EndKeeps DEF SourceFails, JobDies, Suspect, RememberError
<1>3. ASSUME NEW j \in Jobs, NEW part \in Parts
      PROVE  /\ SkipPart(j, part) => SyncInv'
             /\ \A answer \in [Held(part) -> Items \cup {Gone}] : AskPart(j, part, answer) => SyncInv'
  BY SkipKeeps, AskKeeps
<1>4. ASSUME NEW j \in Jobs, NEW file \in SUBSET Points, LoadForImport(j, file)
      PROVE  SyncInv'
  BY <1>4, LoadKeeps
<1>5. CASE UNCHANGED syncVars
  BY <1>5 DEF syncVars, SyncInv, Shapes, RunOK, Answered, HasRead, Times, CleanDateHolds, Active,
              PartsAsked, Held, InPart
<1> QED
  BY <1>1, <1>2, <1>3, <1>4, <1>5 DEF SyncNext

LEMMA SyncInvStarts == SyncInit => SyncInv
<1> SUFFICES ASSUME SyncInit
             PROVE  SyncInv
  OBVIOUS
<1>1. page = [synced |-> 0, raced |-> FALSE, error |-> "none"] /\ clock = 0
  BY DEF SyncInit, SyncStart
<1>2. \A j \in Jobs : job[j] = Idling
  BY DEF SyncInit, SyncStart
<1>3. Shapes
  BY IdlingRun DEF SyncInit, SyncStart, Shapes, Marks
<1>4. Times
  BY <1>1, <1>2, IdlingRun DEF Times
<1>5. CleanDateHolds
  BY <1>1 DEF SyncInit, SyncStart, CleanDateHolds, Active
<1> QED
  BY <1>2, <1>3, <1>4, <1>5, IdlingRun DEF SyncInv

------------------------------------------------------------------------------

\* A date without an error beside it is true of every point on offer, for any number of
\* points, parts and overlapping runs (unless a file overlapped with another run).
THEOREM SyncDateHolds == SyncSpec => []CleanDateHolds
BY SyncInvStarts, SyncInvKept, PTL DEF SyncSpec, SyncInv

\* Only the run whose time becomes the date of the directory has written it.
LEMMA WhoWrote ==
    ASSUME SyncInv, SyncNext, NEW j \in Jobs, job[j].phase = "writing",
           page'.synced = job[j].at, page' # page
    PROVE  WritePoints(j)
<1>1. page.synced # job[j].at
  BY DEF SyncInv, Times, Pending
<1>2. page \in [synced : Nat, raced : BOOLEAN, error : {"none", "partly", "failed"}]
  BY DEF SyncInv, Shapes
<1>3. ASSUME NEW k \in Jobs, RememberError(k)
      PROVE  FALSE
  BY <1>1, <1>2, <1>3 DEF RememberError
<1>4. ASSUME NEW k \in Jobs, WritePoints(k)
      PROVE  k = j
  BY <1>4 DEF WritePoints, SyncInv, Times, Pending
<1>5. ASSUME NEW k \in Jobs, ImportPoints(k)
      PROVE  FALSE
  <2>1. job[k].phase = "importing" /\ page'.synced = job[k].at
    BY <1>5 DEF ImportPoints
  <2>2. k = j
    BY <2>1 DEF SyncInv, Times, Pending
  <2> QED
    BY <2>1, <2>2
<1> QED
  BY <1>3, <1>4, <1>5
     DEF SyncNext, StartSync, AskAgain, SourceFails, JobDies, CountKnown, Suspect, AskPart, SkipPart,
         LoadForImport

\* What is switched off, the run was told to be absent.
LEMMA OffIsAbsent ==
    ASSUME SyncInv, NEW j \in Jobs, WritePoints(j),
           NEW p \in Points, table[p] = "on", table'[p] = "off"
    PROVE  p \in job[j].absent
<1> DEFINE r   == job[j]
           now == [q \in Points |-> IF q \in PointsOf(r.rows) THEN r.at ELSE stamp[q]]
<1>1. p \notin PointsOf(r.rows) /\ p \in SwitchedOff(r, now)
  BY DEF WritePoints
<1>2. r.phase = "writing" /\ r.left = {} /\ r.failed = {} /\ Answered(r)
  BY <1>1 DEF SwitchedOff, WritePoints, SyncInv, RunOK, HasRead
<1>3. PICK part \in PartsAsked : p \in Held(part)
  BY SomeParts
<1> QED
  BY <1>1, <1>2, <1>3 DEF Answered

\* What a run leaves on is at least half of what it has counted.
LEMMA HalfStays ==
    ASSUME SyncInv, NEW j \in Jobs, WritePoints(j), ~job[j].raced
    PROVE  2 * Cardinality({p \in Points : table'[p] = "on"}) >= Cardinality(Active)
<1> DEFINE rows == job[j].rows
           on   == {p \in Points : table'[p] = "on"}
<1>1. job[j].phase = "writing" /\ Single(rows) /\ job[j].known = Cardinality(Active)
  BY DEF WritePoints, SyncInv, RunOK, HasRead
<1>2. PointsOf(rows) \subseteq Points
  BY DEF SyncInv, Shapes, Run, RowSets, PointsOf
<1>3. /\ Cardinality(rows) \in Nat /\ Cardinality(PointsOf(rows)) = Cardinality(rows)
  BY <1>1, <1>2, SingleRowsCount
<1>4. PointsOf(rows) \subseteq on
  BY <1>2 DEF WritePoints
<1>5. IsFiniteSet(on) /\ IsFiniteSet(Active)
  BY SyncAssumption, FS_Subset DEF Active
<1>6. Cardinality(PointsOf(rows)) <= Cardinality(on) /\ Cardinality(on) \in Nat
  BY <1>4, <1>5, FS_Subset, FS_CardinalityType
<1>7. ~(2 * Cardinality(rows) < Cardinality(Active)) /\ Cardinality(Active) \in Nat
  BY <1>1, <1>5, FS_CardinalityType DEF WritePoints, TooFew
<1> HIDE DEF rows, on
<1> QED
  BY <1>3, <1>6, <1>7 DEF on

\* A run takes off only what its source said is not there, and leaves at least half, for any
\* number of points, parts and overlapping runs, syncs and imports.
THEOREM SyncOffForAReason == SyncSpec => OffForAReason
<1>1. SyncInv /\ [SyncNext]_syncVars =>
        \A j \in Jobs :
            job[j].phase = "writing" /\ page'.synced = job[j].at /\ page' # page =>
                /\ \A p \in Points : table[p] = "on" /\ table'[p] = "off" => p \in job[j].absent
                /\ ~job[j].raced =>
                    2 * Cardinality({p \in Points : table'[p] = "on"}) >= Cardinality(Active)
  <2> SUFFICES ASSUME SyncInv, [SyncNext]_syncVars, NEW j \in Jobs, job[j].phase = "writing",
                      page'.synced = job[j].at, page' # page
               PROVE  /\ \A p \in Points : table[p] = "on" /\ table'[p] = "off" => p \in job[j].absent
                      /\ ~job[j].raced =>
                          2 * Cardinality({p \in Points : table'[p] = "on"}) >= Cardinality(Active)
    OBVIOUS
  <2>1. WritePoints(j)
    BY WhoWrote DEF syncVars
  <2> QED
    BY <2>1, OffIsAbsent, HalfStays
<1> QED
  BY <1>1, SyncInvStarts, SyncInvKept, PTL DEF SyncSpec, OffForAReason

-----------------------------------------------------------------------------
(* Types of the directory, and no double among the rows to be written.        *)

\* A point that is not in the table has no date; one that was loaded for an import never
\* leaves the table, whatever other runs write.
Dated ==
    /\ clock \in 0..LastTime
    /\ stamp \in [Points -> 0..LastTime]
    /\ page.synced \in 0..LastTime
    /\ \A p \in Points : table[p] = "absent" => stamp[p] = 0
    /\ \A j \in Jobs : job[j].phase = "importing" =>
            \A p \in Points :
                <<p, "on">> \in job[j].loaded \/ <<p, "off">> \in job[j].loaded => table[p] # "absent"

LEMMA DatedLeft ==
    ASSUME SyncInv, Dated, NEW j \in Jobs, NEW new, Set(j, new),
           UNCHANGED <<table, stamp>>, page'.synced = page.synced, clock' \in 0..LastTime,
           new.phase = "importing" => new.loaded = {<<p, table[p]>> : p \in Points}
    PROVE  Dated'
<1>1. job'[j] = new /\ \A k \in Jobs \ {j} : job'[k] = job[k]
  BY DEF Set, SyncInv, Shapes
<1>2. ASSUME NEW k \in Jobs, job'[k].phase = "importing", NEW p \in Points,
             <<p, "on">> \in job'[k].loaded \/ <<p, "off">> \in job'[k].loaded
      PROVE  table[p] # "absent"
  BY <1>1, <1>2 DEF Dated
<1> QED BY <1>2 DEF Dated

LEMMA DatedWrite ==
    ASSUME SyncInv, Dated, NEW j \in Jobs, job' = [Raced EXCEPT ![j] = Idling],
           stamp' \in [Points -> 0..LastTime], page'.synced \in 0..LastTime, clock' = clock,
           \A p \in Points : table'[p] = "absent" => stamp'[p] = 0,
           \A p \in Points : table[p] # "absent" => table'[p] # "absent"
    PROVE  Dated'
<1>1. ASSUME NEW k \in Jobs, job'[k].phase = "importing"
      PROVE  job[k].phase = "importing" /\ job'[k].loaded = job[k].loaded
  <2>1. job'[k] = IF k = j THEN Idling
                  ELSE [job[k] EXCEPT !.raced = @ \/ job[k].phase \in {"importing", "writing"}]
    BY DEF Raced
  <2>2. Idling.phase = "idle"
    BY DEF Idling
  <2>3. k # j
    BY <1>1, <2>1, <2>2
  <2>4. job[k] \in Run
    BY DEF SyncInv, Shapes
  <2> QED BY <1>1, <2>1, <2>3, <2>4 DEF Run
<1> QED BY <1>1 DEF Dated

LEMMA DatedKept ==
    ASSUME SyncInv, Dated, [SyncNext]_syncVars
    PROVE  Dated'
<1>1. CASE UNCHANGED syncVars
  BY <1>1 DEF syncVars, Dated
<1>2. Idling.phase = "idle"
  BY DEF Idling
<1>3. \A j \in Jobs : job[j] \in Run
  BY DEF SyncInv, Shapes
<1>4. clock \in 0..LastTime /\ clock \in Nat /\ LastTime \in Nat
  BY SyncAssumption DEF Dated
<1>5. page \in [synced : Nat, raced : BOOLEAN, error : {"none", "partly", "failed"}]
  BY DEF SyncInv, Shapes
<1>6. ASSUME NEW j \in Jobs, StartSync(j) \/ JobDies(j) PROVE Dated'
  <2>1. PICK new : Set(j, new) /\ new.phase # "importing"
    <3>1. [Idling EXCEPT !.phase = "asking", !.left = PartsAsked].phase = "asking"
      BY DEF Idling
    <3> QED BY <1>2, <1>6, <3>1 DEF StartSync, JobDies
  <2>2. UNCHANGED <<table, stamp, page, clock>>
    BY <1>6 DEF StartSync, JobDies
  <2> QED BY <1>4, <2>1, <2>2, DatedLeft
<1>7. ASSUME NEW j \in Jobs, SourceFails(j) \/ Suspect(j) PROVE Dated'
  <2>1. Set(j, Idling) /\ UNCHANGED <<table, stamp, clock>> /\ page' = [page EXCEPT !.error = "failed"]
    BY <1>7 DEF SourceFails, Suspect, RememberError
  <2>2. page'.synced = page.synced
    BY <1>5, <2>1
  <2> QED BY <1>2, <1>4, <2>1, <2>2, DatedLeft
<1>8. ASSUME NEW j \in Jobs, NEW part \in Parts,
             AskAgain(j) \/ SkipPart(j, part) \/ \E answer : AskPart(j, part, answer)
      PROVE  Dated'
  <2>1. job[j].phase = "asking" /\ UNCHANGED <<table, stamp, page, clock>>
    BY <1>8 DEF AskAgain, SkipPart, AskPart
  <2>2. \E new : Set(j, new) /\ new.phase = job[j].phase
    <3> DEFINE old == job[j]
    <3>1. old \in Run
      BY <1>3
    <3>2. CASE AskAgain(j)
      <4>1. [old EXCEPT !.tries = @ + 1].phase = old.phase
        BY <3>1 DEF Run
      <4> QED BY <3>2, <4>1 DEF AskAgain
    <3>3. CASE SkipPart(j, part)
      <4>1. [old EXCEPT !.left = @ \ {part}, !.tries = 0, !.failed = @ \cup {part}].phase = old.phase
        BY <3>1 DEF Run
      <4> QED BY <3>3, <4>1 DEF SkipPart
    <3>4. ASSUME NEW answer, AskPart(j, part, answer) PROVE \E new : Set(j, new) /\ new.phase = old.phase
      <4> DEFINE after == [old EXCEPT
            !.left = @ \ {part}, !.tries = 0,
            !.rows = @ \cup Yielded(part, answer, old.rows),
            !.absent = @ \cup (DOMAIN answer \ Taken(answer))]
      <4>1. after.phase = old.phase
        BY <3>1 DEF Run
      <4>2. Set(j, after)
        BY <3>4 DEF AskPart
      <4> HIDE DEF after
      <4> QED BY <4>1, <4>2
    <3> QED BY <1>8, <3>2, <3>3, <3>4
  <2>3. PICK new : Set(j, new) /\ new.phase = job[j].phase
    BY <2>2
  <2> QED BY <1>4, <2>1, <2>3, DatedLeft
<1>9. ASSUME NEW j \in Jobs, CountKnown(j) PROVE Dated'
  <2> DEFINE old == job[j]
             new == [old EXCEPT !.phase = "writing", !.rows = UniqueRows(@), !.at = clock',
                                !.known = Cardinality(Active)]
  <2>1. Set(j, new) /\ UNCHANGED <<table, stamp, page>> /\ clock' = clock + 1 /\ clock < LastTime
    BY <1>9 DEF CountKnown
  <2>2. new.phase = "writing"
    BY <1>3 DEF Run
  <2>3. clock' \in 0..LastTime
    BY <1>4, <2>1
  <2> HIDE DEF new
  <2> QED BY <2>1, <2>2, <2>3, DatedLeft
<1>10. ASSUME NEW j \in Jobs, NEW file \in SUBSET Points, LoadForImport(j, file) PROVE Dated'
  <2> DEFINE new == [Idling EXCEPT !.phase = "importing", !.rows = file \X {"file"}, !.at = clock',
                                   !.loaded = {<<p, table[p]>> : p \in Points}]
  <2>1. Set(j, new) /\ UNCHANGED <<table, stamp, page>> /\ clock' = clock + 1 /\ clock < LastTime
    BY <1>10 DEF LoadForImport
  <2>2. new.loaded = {<<p, table[p]>> : p \in Points}
    BY DEF Idling
  <2>3. clock' \in 0..LastTime
    BY <1>4, <2>1
  <2> HIDE DEF new
  <2> QED BY <2>1, <2>2, <2>3, DatedLeft
<1>11. ASSUME NEW j \in Jobs, WritePoints(j) PROVE Dated'
  <2> DEFINE r   == job[j]
             now == [p \in Points |-> IF p \in PointsOf(r.rows) THEN r.at ELSE stamp[p]]
  <2>1. /\ stamp' = now /\ r.phase = "writing" /\ page'.synced = r.at /\ clock' = clock
        /\ table' = [p \in Points |-> IF p \in PointsOf(r.rows) THEN "on"
                                      ELSE IF p \in SwitchedOff(r, now) THEN "off" ELSE table[p]]
        /\ job' = [Raced EXCEPT ![j] = Idling]
    BY <1>11 DEF WritePoints
  <2>2. r.at \in 0..LastTime
    BY <1>4, <2>1 DEF SyncInv, Times, Pending
  <2>3. now \in [Points -> 0..LastTime]
    BY <2>2 DEF Dated
  <2>4. ASSUME NEW p \in Points, table'[p] = "absent" PROVE table[p] = "absent" /\ now[p] = stamp[p]
    BY <2>1, <2>4
  <2>5. \A p \in Points : table'[p] = "absent" => stamp'[p] = 0
    BY <2>1, <2>4 DEF Dated
  <2> HIDE DEF now, r
  <2> QED BY <2>1, <2>2, <2>3, <2>4, <2>5, DatedWrite
<1>12. ASSUME NEW j \in Jobs, ImportPoints(j) PROVE Dated'
  <2> DEFINE r == job[j]
             file == PointsOf(r.rows)
             Loaded(p, s) == <<p, s>> \in r.loaded
  <2>1. /\ stamp' = [p \in Points |-> IF p \in file THEN r.at ELSE stamp[p]]
        /\ r.phase = "importing" /\ page'.synced = r.at /\ clock' = clock
        /\ table' = [p \in Points |->
                        IF p \in file /\ ~Loaded(p, "on") THEN "on"
                        ELSE IF p \notin file /\ Loaded(p, "on") THEN "off" ELSE table[p]]
        /\ job' = [Raced EXCEPT ![j] = Idling]
    BY <1>12 DEF ImportPoints
  <2>2. r.at \in 0..LastTime
    BY <1>4, <2>1 DEF SyncInv, Times, Pending
  <2>3. stamp' \in [Points -> 0..LastTime]
    BY <2>1, <2>2 DEF Dated
  <2>4. \A p \in Points : Loaded(p, "on") => table[p] # "absent"
    BY <2>1 DEF Dated
  <2>5. ASSUME NEW p \in Points, table'[p] = "absent"
        PROVE  table[p] = "absent" /\ stamp'[p] = stamp[p]
    BY <2>1, <2>4, <2>5
  <2>6. \A p \in Points : table'[p] = "absent" => stamp'[p] = 0
    BY <2>5 DEF Dated
  <2> HIDE DEF r
  <2> QED BY <2>1, <2>2, <2>3, <2>5, <2>6, DatedWrite
<1>13. CASE SyncNext
  <2>1. ASSUME NEW j \in Jobs,
               StartSync(j) \/ JobDies(j) \/ SourceFails(j) \/ Suspect(j) \/ CountKnown(j)
                   \/ WritePoints(j) \/ ImportPoints(j)
        PROVE  Dated'
    BY <1>6, <1>7, <1>9, <1>11, <1>12, <2>1
  <2>2. ASSUME NEW j \in Jobs, AskAgain(j) PROVE Dated'
    BY <1>8, <2>2, SyncAssumption
  <2>3. ASSUME NEW j \in Jobs, NEW part \in Parts,
               SkipPart(j, part) \/ \E answer \in [Held(part) -> Items \cup {Gone}] : AskPart(j, part, answer)
        PROVE  Dated'
    BY <1>8, <2>3
  <2>4. ASSUME NEW j \in Jobs, \E file \in SUBSET Points : LoadForImport(j, file) PROVE Dated'
    BY <1>10, <2>4
  <2> QED BY <1>13, <2>1, <2>2, <2>3, <2>4 DEF SyncNext
<1> QED
  BY <1>1, <1>13

\* Types of the directory, and of the rows about to be written none is double: one would make
\* the database refuse the whole load (unique_rows), however the parts of a source overlap.
THEOREM SyncTypes == SyncSpec => []SyncOK
<1>1. SyncInit => Dated
  BY SyncAssumption DEF SyncInit, SyncStart, Dated, Idling
<1>2. SyncInv /\ Dated /\ [SyncNext]_syncVars => Dated'
  BY DatedKept
<1>3. SyncInv /\ Dated => SyncOK
  <2> SUFFICES ASSUME SyncInv, Dated PROVE SyncOK
    OBVIOUS
  <2>1. ASSUME NEW j \in Jobs, job[j].phase = "writing"
        PROVE  Cardinality(job[j].rows) = Cardinality(PointsOf(job[j].rows))
    <3>1. Single(job[j].rows) /\ job[j].rows \in RowSets
      BY <2>1 DEF SyncInv, Shapes, Run, RunOK, HasRead
    <3>2. PointsOf(job[j].rows) \subseteq Points
      BY <3>1 DEF RowSets, PointsOf
    <3> QED BY <3>1, <3>2, SingleRowsCount
  <2>2. page \in [synced : 0..LastTime, raced : BOOLEAN, error : {"none", "partly", "failed"}]
    <3>1. page \in [synced : Nat, raced : BOOLEAN, error : {"none", "partly", "failed"}]
      BY DEF SyncInv, Shapes
    <3> QED BY <3>1 DEF Dated
  <2>3. table \in [Points -> {"absent", "on", "off"}]
    BY DEF SyncInv, Shapes, Marks
  <2> QED BY <2>1, <2>2, <2>3 DEF SyncOK, Dated
<1> QED BY <1>1, <1>2, <1>3, SyncInvStarts, SyncInvKept, PTL DEF SyncSpec

-----------------------------------------------------------------------------
(* The search for a point. *)

Once(s) == \A i, j \in 1..Len(s) : s[i] = s[j] => i = j

\* The ways to put a finite set in order have each of its elements once.
LEMMA InOrder ==
    ASSUME NEW S, IsFiniteSet(S), NEW key, NEW s \in InOrderOf(key, S)
    PROVE  /\ s \in Seq(S) /\ Len(s) = Cardinality(S) /\ Len(s) \in Nat
           /\ Range(s) = S /\ Once(s)
           /\ \A i, j \in 1..Len(s) : i < j => key[s[i]] <= key[s[j]]
<1> DEFINE N == Cardinality(S)
<1>1. N \in Nat
  BY FS_CardinalityType
<1>2. IsFiniteSet(1..N) /\ Cardinality(1..N) = N
  BY <1>1, FS_Interval
<1>3. /\ s \in [1..N -> S]
      /\ \A i, j \in 1..N : i # j => s[i] # s[j]
      /\ \A i, j \in 1..N : i < j => key[s[i]] <= key[s[j]]
  BY DEF InOrderOf, SetToSeqs
<1>4. s \in Injection(1..N, S)
  BY <1>3 DEF Injection, IsInjective
<1>5. s \in Surjection(1..N, S)
  BY <1>2, <1>4, FS_Injection
<1>6. s \in Seq(S) /\ Len(s) = N
  BY <1>1, <1>3
<1>7. Range(s) = S
  BY <1>3, <1>5 DEF Surjection, Range
<1>8. Once(s)
  BY <1>3, <1>6 DEF Once
<1> QED BY <1>1, <1>3, <1>6, <1>7, <1>8

\* A page of a list: what stands in it from an offset on.
LEMMA FirstOf ==
    ASSUME NEW S, NEW s \in Seq(S), NEW n \in Nat
    PROVE  /\ First(n, s) \in Seq(S)
           /\ Len(First(n, s)) = IF n < Len(s) THEN n ELSE Len(s)
           /\ \A i \in 1..Len(First(n, s)) : First(n, s)[i] = s[i] /\ i \in 1..Len(s)
<1> DEFINE m == IF n < Len(s) THEN n ELSE Len(s)
<1>1. Len(s) \in Nat
  OBVIOUS
<1>2. m \in Nat /\ m <= Len(s)
  BY <1>1
<1>3. First(n, s) = SubSeq(s, 1, m)
  BY DEF First
<1> HIDE DEF m
<1>4. \A i \in 1..m : i \in 1..Len(s)
  BY <1>1, <1>2
<1>5. /\ SubSeq(s, 1, m) \in Seq(S) /\ Len(SubSeq(s, 1, m)) = m
      /\ \A i \in 1..m : SubSeq(s, 1, m)[i] = s[i]
  BY <1>1, <1>2
<1> QED BY <1>3, <1>4, <1>5 DEF m

\* The least of some numbers: one with the fewest below it has none below it.
LEMMA LeastOfNumbers ==
    ASSUME NEW S, S \subseteq Nat, IsFiniteSet(S), S # {}
    PROVE  Min(S) \in S
<1> DEFINE Below(x) == {y \in S : y < x}
           T == {Below(x) : x \in S}
<1>1. IsWellFoundedOn(StrictSubsetOrdering(S), SUBSET S)
  BY FS_StrictSubsetOrderingWellFounded, FS_FiniteSubsetsOfFinite
<1>2. T \subseteq SUBSET S /\ T # {}
  OBVIOUS
<1>3. PICK U \in T : \A V \in T : <<V, U>> \notin StrictSubsetOrdering(S)
  <2> HIDE DEF T
  <2> QED BY <1>1, <1>2, WFMin
<1>4. PICK x \in S : U = Below(x)
  OBVIOUS
<1>5. \A y \in S : x <= y
  <2> SUFFICES ASSUME NEW y \in S, y < x PROVE FALSE
    OBVIOUS
  <2>1. Below(y) \subseteq U /\ Below(y) # U
    <3>1. y \in Below(x) /\ y \notin Below(y)
      OBVIOUS
    <3>2. \A z \in S : z < y => z < x
      OBVIOUS
    <3>3. Below(y) \subseteq Below(x)
      BY <3>2
    <3> QED BY <3>1, <3>3, <1>4
  <2>2. <<Below(y), U>> \in StrictSubsetOrdering(S)
    BY <2>1, <1>4 DEF StrictSubsetOrdering
  <2> QED BY <2>2, <1>3
<1> QED BY <1>5 DEF Min

\* What is shown is some of the directory, and can be counted.
LEMMA VisibleFinite ==
    ASSUME open \subseteq Spots
    PROVE  /\ Visible \subseteq Spots /\ IsFiniteSet(Visible)
           /\ \A V : V \subseteq Visible => IsFiniteSet(V) /\ Cardinality(V) \in Nat
                                            /\ Cardinality(V) <= Cardinality(Visible)
<1>1. Visible \subseteq Spots
  BY DEF Visible
<1>2. IsFiniteSet(Visible)
  BY <1>1, SpotsAssumption, FS_Subset
<1> QED BY <1>1, <1>2, FS_Subset, FS_CardinalityType

\* The first page of the points of a circle, in order of the distance: none that was left
\* out is nearer than one that was taken, unless a rectangle hid it.
LEMMA CircleListed ==
    ASSUME open \subseteq Spots,
           NEW from, from \subseteq Visible,
           \A p \in Visible \ from, q \in from : Km[p] >= Km[q] \/ \E cut \in Cut : cut[1] = p,
           NEW s \in InOrderOf(Km, from)
    PROVE  \A p \in Visible \ Range(First(PageSize, s)), q \in Range(First(PageSize, s)) :
               Km[p] >= Km[q] \/ \E cut \in Cut : cut[1] = p
<1> DEFINE shown == First(PageSize, s)
<1> SUFFICES ASSUME NEW p \in Visible \ Range(shown), NEW q \in Range(shown)
             PROVE  Km[p] >= Km[q] \/ \E cut \in Cut : cut[1] = p
  OBVIOUS
<1>1. IsFiniteSet(from)
  BY VisibleFinite
<1>2. /\ s \in Seq(from) /\ Len(s) \in Nat /\ Range(s) = from
      /\ \A i, j \in 1..Len(s) : i < j => Km[s[i]] <= Km[s[j]]
  BY <1>1, InOrder
<1>3. /\ shown \in Seq(from)
      /\ Len(shown) = IF PageSize < Len(s) THEN PageSize ELSE Len(s)
      /\ \A i \in 1..Len(shown) : shown[i] = s[i] /\ i \in 1..Len(s)
  BY <1>2, PageAssumption, FirstOf
<1> HIDE DEF shown
<1>4. PICK i \in 1..Len(shown) : q = shown[i]
  BY <1>3 DEF Range
<1>5. q = s[i] /\ i \in 1..Len(s) /\ q \in from
  BY <1>2, <1>3, <1>4
<1>6. CASE p \in from
  <2>1. PICK j \in 1..Len(s) : p = s[j]
    BY <1>2, <1>6 DEF Range
  <2>2. j \notin 1..Len(shown)
    <3> SUFFICES ASSUME j \in 1..Len(shown) PROVE FALSE
      OBVIOUS
    <3>1. shown[j] = p
      BY <1>3, <2>1
    <3>2. DOMAIN shown = 1..Len(shown)
      BY <1>3
    <3> QED BY <3>1, <3>2 DEF Range
  <2>3. Len(shown) \in Nat
    BY <1>3
  <2>4. i < j
    BY <1>2, <1>4, <2>1, <2>2, <2>3
  <2>5. Km[q] <= Km[p]
    BY <1>2, <1>5, <2>1, <2>4
  <2>6. Km[p] \in Nat /\ Km[q] \in Nat
    BY <1>5, SpotsAssumption, VisibleFinite
  <2> QED BY <2>5, <2>6
<1>7. CASE p \notin from
  BY <1>5, <1>7
<1> QED BY <1>6, <1>7

\* What a search by location lists.
LEMMA NearestOf ==
    ASSUME open \subseteq Spots, NEW t \in Nearest
    PROVE  /\ Len(t) = IF Cardinality(Visible) < PageSize THEN Cardinality(Visible) ELSE PageSize
           /\ \A p \in Visible \ Range(t), q \in Range(t) :
                  Km[p] >= Km[q] \/ \E cut \in Cut : cut[1] = p
<1> DEFINE wide == {i \in DOMAIN Radii : Enough(Radii[i])}
           from == IF wide = {} THEN Visible ELSE Within(Radii[Min(wide)])
<1>1. PICK s \in InOrderOf(Km, from) : t = First(PageSize, s)
  BY Zenon DEF Nearest
<1>2. /\ from \subseteq Visible
      /\ \A p \in Visible \ from, q \in from : Km[p] >= Km[q] \/ \E cut \in Cut : cut[1] = p
      /\ from = Visible \/ Cardinality(from) >= PageSize
  <2>1. CASE wide = {}
    BY <2>1
  <2>2. CASE wide # {}
    <3>1. DOMAIN Radii = 1..Len(Radii) /\ Len(Radii) \in Nat
      BY RadiiAssumption
    <3>2. IsFiniteSet(1..Len(Radii))
      BY <3>1, FS_Interval
    <3>3. wide \subseteq Nat /\ IsFiniteSet(wide)
      BY <3>1, <3>2, FS_Subset
    <3>4. Min(wide) \in wide
      <4> HIDE DEF wide
      <4> QED BY <2>2, <3>3, LeastOfNumbers
    <3>5. PICK r : r = Radii[Min(wide)]
      OBVIOUS
    <3>6. r \in Nat /\ Enough(r)
      BY <3>1, <3>4, <3>5, RadiiAssumption
    <3>7. from = Within(r)
      BY <2>2, <3>5
    <3>8. from \subseteq Visible
      BY <3>7 DEF Within
    <3>9. Cardinality(from) >= PageSize
      BY <3>6, <3>7 DEF Enough
    <3>10. ASSUME NEW p \in Visible \ from, NEW q \in from
           PROVE  Km[p] >= Km[q] \/ \E cut \in Cut : cut[1] = p
      <4>1. Km[q] <= r
        BY <3>7, <3>10 DEF Within, IsNear
      <4>2. ~ (Km[p] <= r) \/ <<p, r>> \in Cut
        BY <3>7, <3>10 DEF Within, IsNear
      <4>3. Km[p] \in Nat /\ Km[q] \in Nat
        BY <3>8, <3>10, SpotsAssumption, VisibleFinite
      <4>4. CASE <<p, r>> \in Cut
        <5>1. <<p, r>>[1] = p
          OBVIOUS
        <5> QED BY <4>4, <5>1
      <4>5. CASE ~ (Km[p] <= r)
        BY <4>1, <4>3, <4>5, <3>6
      <4> QED BY <4>2, <4>4, <4>5
    <3> HIDE DEF from
    <3> QED BY <3>8, <3>9, <3>10
  <2> QED BY <2>1, <2>2
<1> HIDE DEF from
<1>3. /\ IsFiniteSet(from) /\ Cardinality(from) \in Nat
      /\ Cardinality(from) <= Cardinality(Visible) /\ Cardinality(Visible) \in Nat
  BY <1>2, VisibleFinite
<1>4. s \in Seq(from) /\ Len(s) = Cardinality(from)
  BY <1>1, <1>3, InOrder
<1>5. Len(t) = IF PageSize < Len(s) THEN PageSize ELSE Len(s)
  BY <1>1, <1>4, PageAssumption, FirstOf
<1>6. Len(t) = IF Cardinality(Visible) < PageSize THEN Cardinality(Visible) ELSE PageSize
  BY <1>2, <1>3, <1>4, <1>5, PageAssumption
<1>7. \A p \in Visible \ Range(t), q \in Range(t) : Km[p] >= Km[q] \/ \E cut \in Cut : cut[1] = p
  BY <1>1, <1>2, CircleListed
<1> QED BY <1>6, <1>7

\* The directory holds rows of its own only.
LEMMA DirectoryKept == open \subseteq Spots /\ [SearchNext]_searchVars => (open \subseteq Spots)'
<1> SUFFICES ASSUME open \subseteq Spots, [SearchNext]_searchVars PROVE open' \subseteq Spots
  OBVIOUS
<1>1. ASSUME NEW offset, Paginate(offset) PROVE open' \subseteq Spots
  BY <1>1 DEF Paginate, OpenSearch, Show
<1>2. ASSUME NEW p \in Spots, DirectoryChanges(p) PROVE open' \subseteq Spots
  BY <1>2 DEF DirectoryChanges
<1> QED BY <1>1, <1>2
        DEF SearchNext, ReceiveLocation, OpenSearch, ReceiveCity, Show, SwitchCarrier, searchVars

LEMMA LocationStep ==
    ASSUME open \subseteq Spots, ReceiveLocation
    PROVE  LET listed == Range(screen'.spots)
           IN /\ Len(screen'.spots) = IF Cardinality(Visible) < PageSize THEN Cardinality(Visible) ELSE PageSize
              /\ \A p \in Visible \ listed, q \in listed :
                   Km[p] >= Km[q] \/ \E cut \in Cut : cut[1] = p
<1>1. PICK a : a = [query |-> NoQuery, here |-> TRUE, offset |-> 0]
  OBVIOUS
<1>2. a.here /\ screen' \in Lists(a)
  BY <1>1 DEF ReceiveLocation, Show
<1>3. PICK t \in Nearest : screen' = [spots |-> t, exact |-> TRUE, more |-> FALSE]
  BY <1>2 DEF Lists
<1>4. screen'.spots = t
  BY <1>3
<1> QED BY <1>4, NearestOf

\* The list by location holds the nearest points, for any directory, any circles and any
\* size of a page: as many as there are or as fit, and none that is not listed is nearer
\* than a listed one, but for those a rectangle leaves out (search_nearest).
THEOREM SearchNearestListed == SearchSpec => NearestListed
<1>1. SearchInit => open \subseteq Spots
  BY DEF SearchInit
<1>2. SearchSpec => [](open \subseteq Spots)
  BY <1>1, DirectoryKept, PTL DEF SearchSpec
<1>3. open \subseteq Spots /\ [SearchNext]_searchVars =>
        [ReceiveLocation =>
            LET listed == Range(screen'.spots)
            IN /\ Len(screen'.spots) = IF Cardinality(Visible) < PageSize THEN Cardinality(Visible) ELSE PageSize
               /\ \A p \in Visible \ listed, q \in listed :
                    Km[p] >= Km[q] \/ \E cut \in Cut : cut[1] = p]_searchVars
  BY LocationStep
<1> QED BY <1>2, <1>3, PTL DEF SearchSpec, NearestListed

-----------------------------------------------------------------------------
(* The search by words, page by page. *)

\* No two points share an address.
NoTies(found) == \A p, q \in found : KeyOf[p] = KeyOf[q] => p = q

\* In an order by distinct keys a point stands after as many as have a smaller key.
LEMMA PlaceByKey ==
    ASSUME NEW S, IsFiniteSet(S), \A p \in S : KeyOf[p] \in Nat, NoTies(S),
           NEW s \in InOrderOf(KeyOf, S), NEW i \in 1..Len(s)
    PROVE  Cardinality({q \in S : KeyOf[q] < KeyOf[s[i]]}) = i - 1
<1> DEFINE B == {q \in S : KeyOf[q] < KeyOf[s[i]]}
           f == [k \in 1..(i - 1) |-> s[k]]
<1>1. /\ s \in Seq(S) /\ Len(s) \in Nat /\ Range(s) = S /\ Once(s)
      /\ \A j, k \in 1..Len(s) : j < k => KeyOf[s[j]] <= KeyOf[s[k]]
  BY InOrder
<1>2. \A j \in 1..Len(s) : s[j] \in S
  BY <1>1
<1>3. \A j, k \in 1..Len(s) : j < k => KeyOf[s[j]] < KeyOf[s[k]]
  <2> TAKE j, k \in 1..Len(s)
  <2> HAVE j < k
  <2>1. s[j] # s[k]
    BY <1>1 DEF Once
  <2>2. KeyOf[s[j]] # KeyOf[s[k]]
    BY <1>2, <2>1 DEF NoTies
  <2> QED BY <1>1, <1>2, <2>2
<1>4. 1..(i - 1) \subseteq 1..Len(s)
  BY <1>1
<1>5. \A k \in 1..(i - 1) : s[k] \in B
  <2> TAKE k \in 1..(i - 1)
  <2>1. k < i /\ k \in 1..Len(s)
    BY <1>4
  <2> QED BY <1>2, <1>3, <2>1
<1>6. \A q \in B : \E k \in 1..(i - 1) : s[k] = q
  <2> TAKE q \in B
  <2>1. PICK k \in 1..Len(s) : s[k] = q
    BY <1>1 DEF Range
  <2>2. ~ (k = i) /\ ~ (i < k)
    <3>1. KeyOf[q] \in Nat /\ KeyOf[s[i]] \in Nat /\ KeyOf[q] < KeyOf[s[i]]
      BY <1>2
    <3> QED BY <1>3, <2>1, <3>1
  <2>3. k \in 1..(i - 1)
    BY <1>1, <2>2
  <2> QED BY <2>1, <2>3
<1>7. f \in Bijection(1..(i - 1), B)
  <2>1. f \in [1..(i - 1) -> B]
    BY <1>5
  <2>2. \A j, k \in 1..(i - 1) : f[j] = f[k] => j = k
    BY <1>1, <1>4 DEF Once
  <2>3. \A q \in B : \E k \in 1..(i - 1) : f[k] = q
    BY <1>6
  <2> HIDE DEF f, B
  <2> QED BY <2>1, <2>2, <2>3 DEF Bijection, Injection, Surjection, IsInjective
<1>8. i - 1 \in Nat
  BY <1>1
<1>9. ExistsBijection(1..(i - 1), B)
  BY <1>7 DEF ExistsBijection
<1> HIDE DEF B
<1>10. Cardinality(B) = i - 1
  BY <1>8, <1>9, FS_CountingElements
<1> QED BY <1>10 DEF B

\* Then there is one order only: the database shows the same list each time.
LEMMA OneOrder ==
    ASSUME NEW S, IsFiniteSet(S), \A p \in S : KeyOf[p] \in Nat, NoTies(S),
           NEW s \in InOrderOf(KeyOf, S), NEW t \in InOrderOf(KeyOf, S)
    PROVE  s = t
<1>1. /\ s \in Seq(S) /\ t \in Seq(S) /\ Len(s) = Len(t) /\ Len(s) \in Nat
      /\ Range(s) = S /\ Range(t) = S
  BY InOrder
<1>2. \A i \in 1..Len(s) : s[i] = t[i]
  <2> TAKE i \in 1..Len(s)
  <2>1. s[i] \in Range(t)
    BY <1>1
  <2>2. PICK j \in 1..Len(t) : t[j] = s[i]
    BY <1>1, <2>1 DEF Range
  <2>3. Cardinality({q \in S : KeyOf[q] < KeyOf[s[i]]}) = i - 1
    BY PlaceByKey
  <2>4. Cardinality({q \in S : KeyOf[q] < KeyOf[t[j]]}) = j - 1
    BY PlaceByKey
  <2>5. i = j
    BY <1>1, <2>2, <2>3, <2>4
  <2> QED BY <2>2, <2>5
<1> QED BY <1>1, <1>2

\* Whether something has all the words, or there is nothing less to ask for.
Exact(words) == enabled = {} \/ Matching(words) # {} \/ Len(words) <= 1

\* The words that what is shown has.
Told(words) == IF Exact(words) THEN words ELSE First(1, words)

LEMMA MatchingFinite ==
    ASSUME open \subseteq Spots, NEW words
    PROVE  /\ Matching(words) \subseteq Spots /\ IsFiniteSet(Matching(words))
           /\ Cardinality(Matching(words)) \in Nat
           /\ \A p \in Matching(words) : KeyOf[p] \in Nat
           /\ enabled = {} => Matching(words) = {}
<1>1. Matching(words) \subseteq Visible
  BY DEF Matching
<1>2. enabled = {} => Visible = {}
  BY DEF Visible
<1> QED BY <1>1, <1>2, VisibleFinite, SpotsAssumption

\* A page of a list in order.
PageIs(spots, more, offset, s) ==
    /\ spots \in Seq(Spots)
    /\ Len(spots) = IF PageSize + offset < Len(s) THEN PageSize ELSE Len(s) - offset
    /\ \A i \in 1..Len(spots) : spots[i] = s[offset + i]
    /\ more = (PageSize + offset < Len(s))

\* A row more than fits tells whether there is more.
LEMMA PageOfRows ==
    ASSUME NEW s \in Seq(Spots), NEW offset \in Nat, offset <= Len(s)
    PROVE  LET rows == First(AskedFor, SubSeq(s, offset + 1, Len(s)))
           IN PageIs(First(PageSize, rows), Len(rows) > PageSize, offset, s)
<1> DEFINE rest == SubSeq(s, offset + 1, Len(s))
           rows == First(AskedFor, rest)
           shown == First(PageSize, rows)
<1>1. Len(s) \in Nat
  OBVIOUS
<1>2. /\ rest \in Seq(Spots) /\ Len(rest) = Len(s) - offset
      /\ \A i \in 1..Len(rest) : rest[i] = s[offset + i]
  BY <1>1
<1>3. AskedFor \in Nat /\ AskedFor = PageSize + 1 /\ PageSize \in Nat
  BY PageAssumption DEF AskedFor
<1> HIDE DEF rest
<1>4. /\ rows \in Seq(Spots)
      /\ Len(rows) = IF AskedFor < Len(rest) THEN AskedFor ELSE Len(rest)
      /\ \A i \in 1..Len(rows) : rows[i] = rest[i] /\ i \in 1..Len(rest)
  BY <1>2, <1>3, FirstOf
<1> HIDE DEF rows
<1>5. /\ shown \in Seq(Spots)
      /\ Len(shown) = IF PageSize < Len(rows) THEN PageSize ELSE Len(rows)
      /\ \A i \in 1..Len(shown) : shown[i] = rows[i] /\ i \in 1..Len(rows)
  BY <1>3, <1>4, FirstOf
<1> HIDE DEF shown
<1>6. Len(shown) = IF PageSize + offset < Len(s) THEN PageSize ELSE Len(s) - offset
  BY <1>1, <1>2, <1>3, <1>4, <1>5
<1>7. (Len(rows) > PageSize) = (PageSize + offset < Len(s))
  BY <1>1, <1>2, <1>3, <1>4
<1>8. \A i \in 1..Len(shown) : shown[i] = s[offset + i]
  BY <1>2, <1>4, <1>5
<1>9. PageIs(shown, Len(rows) > PageSize, offset, s)
  BY <1>5, <1>6, <1>7, <1>8 DEF PageIs
<1> QED BY <1>9 DEF shown, rows, rest

\* The rows of an offset that the list reaches are none only if there are none at all.
LEMMA NoRows ==
    ASSUME open \subseteq Spots, NEW words, NEW offset \in Nat,
           offset = 0 \/ offset < Cardinality(Matching(words)),
           NEW rows \in Rows(words, AskedFor, offset)
    PROVE  (rows = <<>>) <=> (Matching(words) = {})
<1> DEFINE N == Cardinality(Matching(words))
<1>1. IsFiniteSet(Matching(words)) /\ N \in Nat
  BY MatchingFinite
<1>2. PICK s \in InOrderOf(KeyOf, Matching(words)) :
        rows = First(AskedFor, SubSeq(s, offset + 1, Len(s)))
  BY DEF Rows
<1>3. s \in Seq(Matching(words)) /\ Len(s) = N
  BY <1>1, <1>2, InOrder
<1> DEFINE rest == SubSeq(s, offset + 1, Len(s))
<1>4. rest \in Seq(Matching(words)) /\ Len(rest) = N - offset
  BY <1>1, <1>3
<1>5. AskedFor \in Nat /\ AskedFor > 0
  BY PageAssumption DEF AskedFor
<1> HIDE DEF rest
<1>6. /\ rows \in Seq(Matching(words))
      /\ Len(rows) = IF AskedFor < Len(rest) THEN AskedFor ELSE Len(rest)
  BY <1>2, <1>4, <1>5, FirstOf DEF rest
<1>7. (rows = <<>>) <=> (Len(rows) = 0)
  BY <1>6
<1>8. (N = 0) <=> (Matching(words) = {})
  BY <1>1, FS_EmptySet
<1> QED BY <1>1, <1>4, <1>5, <1>6, <1>7, <1>8

\* The one way to put nothing in order.
LEMMA NothingInOrder == <<>> \in InOrderOf(KeyOf, {})
<1>1. Cardinality({}) = 0
  BY FS_EmptySet
<1>2. <<>> \in [1..0 -> {}]
  OBVIOUS
<1>3. <<>> \in SetToSeqs({})
  BY <1>1, <1>2 DEF SetToSeqs
<1> QED BY <1>3 DEF InOrderOf

\* What is shown for words at an offset the list reaches: the page there of the points that
\* have them, or the first of them when no point has them all.
LEMMA ShownByText ==
    ASSUME open \subseteq Spots, NEW words \in Queries, words # <<>>, NEW offset \in Nat,
           offset = 0 \/ offset < Cardinality(Matching(Told(words))),
           NEW r \in ByText(words, AskedFor, offset)
    PROVE  /\ r.exact = Exact(words)
           /\ \E s \in InOrderOf(KeyOf, Matching(Told(words))) :
                PageIs(First(PageSize, r.spots), Len(r.spots) > PageSize, offset, s)
<1> DEFINE found == Matching(Told(words))
<1>1. IsFiniteSet(found) /\ found \subseteq Spots /\ Cardinality(found) \in Nat
  BY MatchingFinite
<1>2. ASSUME NEW s \in InOrderOf(KeyOf, found) PROVE s \in Seq(Spots) /\ offset <= Len(s)
  <2> HIDE DEF found
  <2>1. s \in Seq(found) /\ Len(s) = Cardinality(found)
    BY <1>1, <1>2, InOrder
  <2> QED BY <1>1, <2>1 DEF found
<1>3. ASSUME NEW rows \in Rows(Told(words), AskedFor, offset)
      PROVE  \E s \in InOrderOf(KeyOf, found) :
                PageIs(First(PageSize, rows), Len(rows) > PageSize, offset, s)
  <2>1. PICK s \in InOrderOf(KeyOf, found) :
          rows = First(AskedFor, SubSeq(s, offset + 1, Len(s)))
    BY <1>3 DEF Rows
  <2> QED BY <1>2, <2>1, PageOfRows
<1>4. CASE enabled = {}
  <2>1. Exact(words) /\ Told(words) = words /\ found = {}
    BY <1>4, MatchingFinite DEF Exact, Told
  <2>2. r = [spots |-> <<>>, exact |-> TRUE]
    BY <1>4 DEF ByText
  <2>3. offset = 0
    BY <2>1, FS_EmptySet
  <2>4. PICK s : s = <<>>
    OBVIOUS
  <2>5. s \in Seq(Spots) /\ Len(s) = 0 /\ SubSeq(s, offset + 1, Len(s)) = s
    BY <2>3, <2>4
  <2>6. First(AskedFor, s) = s
    <3>1. AskedFor \in Nat /\ ~ (AskedFor < 0)
      BY PageAssumption DEF AskedFor
    <3> QED BY <2>4, <2>5, <3>1 DEF First
  <2>7. PageIs(First(PageSize, s), Len(s) > PageSize, offset, s)
    <3>1. PageIs(First(PageSize, First(AskedFor, SubSeq(s, offset + 1, Len(s)))),
                 Len(First(AskedFor, SubSeq(s, offset + 1, Len(s)))) > PageSize, offset, s)
      <4>1. s \in Seq(Spots) /\ offset <= Len(s)
        BY <2>3, <2>5
      <4> QED BY <4>1, PageOfRows
    <3> QED BY <2>5, <2>6, <3>1
  <2>8. s \in InOrderOf(KeyOf, found)
    BY <2>1, <2>4, NothingInOrder
  <2>9. r.spots = s /\ r.exact = TRUE
    BY <2>2, <2>4
  <2>10. r.exact = Exact(words)
    BY <2>1, <2>9 DEF Exact
  <2> QED BY <2>7, <2>8, <2>9, <2>10
<1>5. CASE enabled # {}
  <2>1. PICK rows \in Rows(words, AskedFor, offset) :
          r \in IF FallsBack(words, rows)
                THEN {[spots |-> less, exact |-> FALSE] : less \in Rows(First(1, words), AskedFor, offset)}
                ELSE {[spots |-> rows, exact |-> TRUE]}
    BY <1>5 DEF ByText
  <2>2. Len(words) \in Nat
    BY QueriesAssumption
  <2>3. FallsBack(words, rows) = ~ Exact(words)
    <3>1. CASE Exact(words)
      <4>1. Told(words) = words
        BY <3>1 DEF Told
      <4>2. (rows = <<>>) <=> (Matching(words) = {})
        BY <2>1, <4>1, NoRows
      <4> QED BY <1>5, <2>2, <3>1, <4>2 DEF FallsBack, Exact
    <3>2. CASE ~ Exact(words)
      <4>1. Matching(words) = {} /\ Len(words) > 1
        BY <2>2, <3>2 DEF Exact
      <4>2. PICK s \in InOrderOf(KeyOf, Matching(words)) :
              rows = First(AskedFor, SubSeq(s, offset + 1, Len(s)))
        BY <2>1 DEF Rows
      <4>3. s \in Seq({}) /\ Len(s) = 0
        BY <4>1, <4>2, InOrder, FS_EmptySet
      <4>4. SubSeq(s, offset + 1, Len(s)) = <<>>
        BY <4>3
      <4>5. ~ (AskedFor < 0)
        BY PageAssumption DEF AskedFor
      <4>6. rows = <<>>
        BY <4>2, <4>4, <4>5 DEF First
      <4> QED BY <3>2, <4>1, <4>6 DEF FallsBack
    <3> QED BY <3>1, <3>2
  <2>4. CASE Exact(words)
    <3>1. r = [spots |-> rows, exact |-> TRUE] /\ Told(words) = words
      BY <2>1, <2>3, <2>4 DEF Told
    <3>2. r.spots = rows /\ r.exact = TRUE
      BY <3>1
    <3>3. rows \in Rows(Told(words), AskedFor, offset)
      BY <2>1, <3>1
    <3> HIDE DEF found
    <3>4. r.exact = Exact(words)
      BY <2>4, <3>2 DEF Exact
    <3> QED BY <1>3, <3>2, <3>3, <3>4 DEF found
  <2>5. CASE ~ Exact(words)
    <3>1. Told(words) = First(1, words)
      BY <2>5 DEF Told
    <3>2. PICK less \in Rows(Told(words), AskedFor, offset) : r = [spots |-> less, exact |-> FALSE]
      BY <2>1, <2>3, <2>5, <3>1
    <3>3. r.spots = less /\ r.exact = FALSE
      BY <3>2
    <3> HIDE DEF found
    <3>4. r.exact = Exact(words)
      BY <2>5, <3>3 DEF Exact
    <3> QED BY <1>3, <3>2, <3>3, <3>4 DEF found
  <2> QED BY <2>4, <2>5
<1> QED BY <1>4, <1>5

\* What has been read is where the list begins.
Begins(w, s) == Len(w) <= Len(s) /\ \A i \in 1..Len(w) : w[i] = s[i]

\* The page that stands on the screen is the one of its offset, in some order of the points
\* that match, and the pages turned over from the first on are the beginning of that list.
PageHolds ==
    LET found == Matching(Told(ask.query))
    IN /\ screen.exact = Exact(ask.query)
       /\ ask.offset = 0 \/ ask.offset < Cardinality(found)
       /\ read \in Seq(Spots)
       /\ \E s \in InOrderOf(KeyOf, found) : PageIs(screen.spots, screen.more, ask.offset, s)
       /\ NoTies(found) => \E s \in InOrderOf(KeyOf, found) : Begins(read, s)

PagesInv ==
    /\ open \subseteq Spots
    /\ ask \in [query : Queries \cup {NoQuery}, here : BOOLEAN, offset : Nat]
    /\ older \subseteq Nat
    /\ steady /\ ~ask.here => ask.query \in Queries
    /\ steady /\ ~ask.here /\ ask.query # <<>> => PageHolds

\* Buttons of a page of the list lead to offsets that the list reaches.
LEMMA ButtonsReach ==
    ASSUME PagesInv
    PROVE  /\ Buttons \subseteq Nat
           /\ steady /\ ~ask.here /\ ask.query # <<>> =>
                \A offset \in Buttons :
                    offset = 0 \/ offset < Cardinality(Matching(Told(ask.query)))
<1>1. ask.offset \in Nat /\ PageSize \in Nat
  BY PageAssumption DEF PagesInv
<1>2. Buttons \subseteq Nat
  BY <1>1 DEF Buttons
<1>3. ASSUME steady, ~ask.here, ask.query # <<>>, NEW offset \in Buttons
      PROVE  offset = 0 \/ offset < Cardinality(Matching(Told(ask.query)))
  <2> DEFINE found == Matching(Told(ask.query))
  <2>1. PageHolds
    BY <1>3 DEF PagesInv
  <2>2. IsFiniteSet(found) /\ Cardinality(found) \in Nat
    BY MatchingFinite DEF PagesInv
  <2>3. PICK s \in InOrderOf(KeyOf, found) : PageIs(screen.spots, screen.more, ask.offset, s)
    BY <2>1 DEF PageHolds
  <2>4. ask.offset = 0 \/ ask.offset < Cardinality(found)
    BY <2>1 DEF PageHolds
  <2> HIDE DEF found
  <2>5. Len(s) = Cardinality(found)
    BY <2>2, <2>3, InOrder
  <2>6. CASE screen.more /\ offset = ask.offset + PageSize
    <3>1. PageSize + ask.offset < Len(s)
      BY <2>3, <2>6 DEF PageIs
    <3> QED BY <1>1, <2>2, <2>5, <2>6, <3>1 DEF found
  <2>7. CASE offset = IF ask.offset > PageSize THEN ask.offset - PageSize ELSE 0
    BY <1>1, <2>2, <2>4, <2>7 DEF found
  <2> QED BY <1>3, <2>6, <2>7 DEF Buttons
<1> QED BY <1>2, <1>3

\* What a search by words puts on the screen, the directory as it is.
LEMMA WordsShown ==
    ASSUME PagesInv, NEW a, a.query \in Queries, a.query # <<>>, ~a.here, a.offset \in Nat,
           a.offset = 0 \/ a.offset < Cardinality(Matching(Told(a.query))),
           NEW list \in Lists(a)
    PROVE  /\ list.exact = Exact(a.query)
           /\ \E s \in InOrderOf(KeyOf, Matching(Told(a.query))) :
                PageIs(list.spots, list.more, a.offset, s)
<1>1. a.query # NoQuery
  BY QueriesAssumption
<1>2. PICK r \in ByText(a.query, AskedFor, a.offset) :
        list = [spots |-> First(PageSize, r.spots), exact |-> r.exact, more |-> Len(r.spots) > PageSize]
  BY <1>1 DEF Lists
<1>3. /\ list.spots = First(PageSize, r.spots) /\ list.exact = r.exact
      /\ list.more = (Len(r.spots) > PageSize)
  BY <1>2
<1>4. open \subseteq Spots
  BY DEF PagesInv
<1>5. /\ r.exact = Exact(a.query)
      /\ \E s \in InOrderOf(KeyOf, Matching(Told(a.query))) :
            PageIs(First(PageSize, r.spots), Len(r.spots) > PageSize, a.offset, s)
  BY <1>2, <1>4, ShownByText
<1> QED BY <1>3, <1>5

\* What holds of the list on the screen depends on the directory and the question only.
LEMMA HoldsNext ==
    ASSUME NEW a, ask' = a, open' = open, enabled' = enabled,
           screen'.exact = Exact(a.query),
           a.offset = 0 \/ a.offset < Cardinality(Matching(Told(a.query))),
           read' \in Seq(Spots),
           \E s \in InOrderOf(KeyOf, Matching(Told(a.query))) :
                PageIs(screen'.spots, screen'.more, a.offset, s),
           NoTies(Matching(Told(a.query))) =>
                \E s \in InOrderOf(KeyOf, Matching(Told(a.query))) : Begins(read', s)
    PROVE  PageHolds'
<1>1. \A w : Matching(w)' = Matching(w)
  BY DEF Matching, Visible
<1>2. Exact(a.query)' = Exact(a.query)
  BY <1>1 DEF Exact
<1>3. Told(a.query)' = Told(a.query)
  BY <1>2 DEF Told
<1>4. Matching(Told(ask.query))' = Matching(Told(a.query))
  <2>1. Told(ask.query)' = Told(a.query)
    BY <1>2 DEF Told, Exact, Matching, Visible
  <2> QED BY <2>1 DEF Matching, Visible
<1>5. Exact(ask.query)' = Exact(a.query)
  BY DEF Exact, Matching, Visible
<1> QED BY <1>4, <1>5 DEF PageHolds

\* A new question: what is read is the first page.
LEMMA CityKeeps ==
    ASSUME PagesInv, NEW words \in Queries, ReceiveCity(words)
    PROVE  PagesInv'
<1>1. PICK a : a = [query |-> words, here |-> FALSE, offset |-> 0]
  OBVIOUS
<1>2. a.query = words /\ ~ a.here /\ a.offset = 0
  BY <1>1
<1>3. /\ ask' = a /\ screen' \in Lists(a) /\ older' = Buttons
      /\ open' = open /\ enabled' = enabled /\ read' = screen'.spots /\ steady'
  BY <1>1 DEF ReceiveCity, Show, FirstPage
<1>4. open' \subseteq Spots /\ older' \subseteq Nat
  BY <1>3, ButtonsReach DEF PagesInv
<1>5. ask' \in [query : Queries \cup {NoQuery}, here : BOOLEAN, offset : Nat]
  BY <1>1, <1>3
<1>6. ask'.query = words
  BY <1>2, <1>3
<1>7. words # <<>> => PageHolds'
  <2> HAVE words # <<>>
  <2> DEFINE found == Matching(Told(words))
  <2>1. PICK list : list = screen'
    OBVIOUS
  <2>2. list.exact = Exact(a.query)
    BY <1>2, <1>3, <2>1, WordsShown
  <2>3. PICK s \in InOrderOf(KeyOf, found) : PageIs(list.spots, list.more, a.offset, s)
    BY <1>2, <1>3, <2>1, WordsShown
  <2>4. IsFiniteSet(found) /\ found \subseteq Spots
    BY MatchingFinite DEF PagesInv
  <2> HIDE DEF found
  <2>5. Len(s) \in Nat
    BY <2>3, <2>4, InOrder
  <2>6. list.spots \in Seq(Spots) /\ Begins(list.spots, s)
    BY <1>2, <2>3, <2>5, PageAssumption DEF PageIs, Begins
  <2>7. read' \in Seq(Spots) /\ Begins(read', s)
    BY <1>3, <2>1, <2>6
  <2>8. PageIs(screen'.spots, screen'.more, a.offset, s)
    BY <2>1, <2>3
  <2> QED BY <1>2, <1>3, <2>1, <2>2, <2>3, <2>7, <2>8, HoldsNext DEF found
<1> QED BY <1>3, <1>4, <1>5, <1>6, <1>7 DEF PagesInv

\* The next page of the list continues what has been read.
LEMMA ReadsOn ==
    ASSUME NEW s \in Seq(Spots), NEW w \in Seq(Spots), Begins(w, s),
           NEW spots, NEW more, NEW offset \in Nat, PageIs(spots, more, offset, s),
           offset = Len(w)
    PROVE  Begins(w \o spots, s)
<1> DEFINE both == w \o spots
<1>1. Len(s) \in Nat /\ Len(w) \in Nat /\ spots \in Seq(Spots) /\ Len(spots) \in Nat
  BY DEF PageIs
<1>2. /\ both \in Seq(Spots) /\ Len(both) = Len(w) + Len(spots)
      /\ \A i \in 1..Len(both) : both[i] = IF i <= Len(w) THEN w[i] ELSE spots[i - Len(w)]
  BY <1>1
<1> HIDE DEF both
<1>3. Len(both) <= Len(s)
  BY <1>1, <1>2, PageAssumption DEF PageIs, Begins
<1>4. ASSUME NEW i \in 1..Len(both) PROVE both[i] = s[i]
  <2>1. CASE i <= Len(w)
    BY <1>1, <1>2, <1>4, <2>1 DEF Begins
  <2>2. CASE ~ (i <= Len(w))
    <3>1. i - Len(w) \in 1..Len(spots) /\ offset + (i - Len(w)) = i
      BY <1>1, <1>2, <1>4, <2>2
    <3>2. spots[i - Len(w)] = s[i]
      BY <3>1 DEF PageIs
    <3> QED BY <1>2, <1>4, <2>2, <3>2
  <2> QED BY <2>1, <2>2
<1>5. Begins(both, s)
  BY <1>3, <1>4 DEF Begins
<1> QED BY <1>5 DEF both

LEMMA OpenKeeps ==
    ASSUME PagesInv, OpenSearch
    PROVE  PagesInv'
<1>1. ask' \in [query : Queries \cup {NoQuery}, here : BOOLEAN, offset : Nat]
  BY DEF PagesInv, OpenSearch
<1>2. open' \subseteq Spots /\ older' \subseteq Nat /\ ~ steady'
  BY ButtonsReach DEF PagesInv, OpenSearch
<1> QED BY <1>1, <1>2 DEF PagesInv

LEMMA LocationKeeps ==
    ASSUME PagesInv, ReceiveLocation
    PROVE  PagesInv'
<1>1. ask' \in [query : Queries \cup {NoQuery}, here : BOOLEAN, offset : Nat] /\ ask'.here
  BY DEF ReceiveLocation, Show
<1>2. open' \subseteq Spots /\ older' \subseteq Nat
  BY ButtonsReach DEF PagesInv, ReceiveLocation, Show
<1> QED BY <1>1, <1>2 DEF PagesInv

\* Another page of the question: the list is the same as long as the directory is.
LEMMA PaginateKeeps ==
    ASSUME PagesInv, NEW offset \in Buttons \cup older, Paginate(offset)
    PROVE  PagesInv'
<1>1. CASE ask.query = NoQuery /\ ~ask.here
  BY <1>1, OpenKeeps DEF Paginate
<1>2. CASE ~ (ask.query = NoQuery /\ ~ask.here)
  <2>1. /\ Show([ask EXCEPT !.offset = offset])
        /\ read' = IF offset = Len(read) THEN read \o screen'.spots ELSE read
        /\ steady' = (steady /\ offset \in Buttons)
    BY <1>2 DEF Paginate
  <2>2. offset \in Nat
    BY ButtonsReach DEF PagesInv
  <2>3. PICK a : a = [ask EXCEPT !.offset = offset]
    OBVIOUS
  <2>4. /\ a \in [query : Queries \cup {NoQuery}, here : BOOLEAN, offset : Nat]
        /\ a.query = ask.query /\ a.here = ask.here /\ a.offset = offset
    BY <2>2, <2>3 DEF PagesInv
  <2>5. /\ ask' = a /\ screen' \in Lists(a) /\ older' = Buttons
        /\ open' = open /\ enabled' = enabled
    BY <2>1, <2>3 DEF Show
  <2>6. open' \subseteq Spots /\ older' \subseteq Nat
    BY <2>5, ButtonsReach DEF PagesInv
  <2>7. steady' /\ ~ask'.here => ask'.query \in Queries
    BY <2>1, <2>4, <2>5 DEF PagesInv
  <2>8. ASSUME steady', ~ask'.here, ask'.query # <<>> PROVE PageHolds'
    <3> DEFINE found == Matching(Told(ask.query))
    <3>1. steady /\ offset \in Buttons
      BY <2>1, <2>8
    <3>2. ~ask.here /\ ask.query \in Queries /\ ask.query # <<>> /\ PageHolds
      BY <2>4, <2>5, <2>8, <3>1 DEF PagesInv
    <3>3. offset = 0 \/ offset < Cardinality(found)
      BY <3>1, <3>2, ButtonsReach
    <3>4. PICK list : list = screen'
      OBVIOUS
    <3>5. PICK q : q = ask.query
      OBVIOUS
    <3>6. /\ list.exact = Exact(a.query)
          /\ \E s \in InOrderOf(KeyOf, Matching(Told(a.query))) :
                PageIs(list.spots, list.more, a.offset, s)
      <4>1. a.query \in Queries /\ a.query # <<>> /\ ~a.here /\ a.offset \in Nat
        BY <2>2, <2>4, <3>2
      <4>2. a.offset = 0 \/ a.offset < Cardinality(Matching(Told(a.query)))
        BY <2>4, <3>3
      <4>3. list \in Lists(a)
        BY <2>5, <3>4
      <4> QED BY <4>1, <4>2, <4>3, WordsShown
    <3>7. found = Matching(Told(a.query))
      BY <2>4
    <3>8. PICK s \in InOrderOf(KeyOf, found) : PageIs(list.spots, list.more, offset, s)
      BY <2>4, <3>6
    <3>9. IsFiniteSet(found) /\ found \subseteq Spots /\ \A p \in found : KeyOf[p] \in Nat
      BY MatchingFinite DEF PagesInv
    <3>10. read \in Seq(Spots) /\ list.spots \in Seq(Spots)
      BY <3>2, <3>8 DEF PageHolds, PageIs
    <3>11. read' = IF offset = Len(read) THEN read \o list.spots ELSE read
      BY <2>1, <3>4
    <3>12. read' \in Seq(Spots)
      BY <3>10, <3>11
    <3>13. NoTies(found) => \E t \in InOrderOf(KeyOf, found) : Begins(read', t)
      <4> HAVE NoTies(found)
      <4>1. PICK t \in InOrderOf(KeyOf, found) : Begins(read, t)
        BY <3>2 DEF PageHolds
      <4> HIDE DEF found
      <4>2. s = t /\ s \in Seq(Spots)
        BY <3>8, <3>9, <4>1, OneOrder, InOrder
      <4>3. CASE offset = Len(read)
        <5>1. Begins(read \o list.spots, s)
          BY <2>2, <3>8, <3>10, <4>1, <4>2, <4>3, ReadsOn
        <5> QED BY <3>8, <3>11, <4>3, <5>1
      <4>4. CASE offset # Len(read)
        BY <3>11, <4>1, <4>4
      <4> QED BY <4>3, <4>4
    <3>14. screen'.exact = Exact(a.query)
      BY <3>4, <3>6
    <3>15. \E t \in InOrderOf(KeyOf, Matching(Told(a.query))) :
                PageIs(screen'.spots, screen'.more, a.offset, t)
      BY <3>4, <3>6
    <3>16. a.offset = 0 \/ a.offset < Cardinality(Matching(Told(a.query)))
      BY <2>4, <3>3
    <3>17. NoTies(Matching(Told(a.query))) =>
                \E t \in InOrderOf(KeyOf, Matching(Told(a.query))) : Begins(read', t)
      BY <3>7, <3>13
    <3> QED BY <2>5, <3>12, <3>14, <3>15, <3>16, <3>17, HoldsNext
  <2> QED BY <2>4, <2>5, <2>6, <2>7, <2>8 DEF PagesInv
<1> QED BY <1>1, <1>2

LEMMA PagesInvStarts == SearchInit => PagesInv
BY DEF SearchInit, SearchStart, NoAsk, PagesInv

LEMMA PagesInvKept == PagesInv /\ [SearchNext]_searchVars => PagesInv'
<1> SUFFICES ASSUME PagesInv, [SearchNext]_searchVars PROVE PagesInv'
  OBVIOUS
<1>1. CASE UNCHANGED searchVars
  <2>1. open' \subseteq Spots /\ older' \subseteq Nat
    BY <1>1 DEF searchVars, PagesInv
  <2>2. PageHolds' = PageHolds
    BY <1>1 DEF searchVars, PageHolds, Exact, Told, Matching, Visible
  <2> QED BY <1>1, <2>1, <2>2 DEF searchVars, PagesInv
<1>2. ASSUME NEW p \in Spots, DirectoryChanges(p) PROVE PagesInv'
  BY <1>2 DEF DirectoryChanges, PagesInv
<1>3. ASSUME NEW p \in Spots, SwitchCarrier(CarrierOf[p]) PROVE PagesInv'
  BY <1>3 DEF SwitchCarrier, PagesInv
<1> QED BY <1>1, <1>2, <1>3, LocationKeeps, OpenKeeps, CityKeeps, PaginateKeeps DEF SearchNext

\* Nobody who turns the pages in order misses a point or sees one twice, while the directory
\* stays as it is and no two of the points share an address; and that nothing has all the
\* words is said only when nothing has (search_by_text, paginate_points).
THEOREM SearchPagesCover == SearchSpec => []PagesCover
<1>1. SearchSpec => []PagesInv
  BY PagesInvStarts, PagesInvKept, PTL DEF SearchSpec
<1>2. PagesInv => PagesCover
  <2> SUFFICES ASSUME PagesInv, steady, ~ask.here, ask.query # <<>>
               PROVE  LET words == IF screen.exact THEN ask.query ELSE First(1, ask.query)
                          found == Matching(words)
                          onLast == ~screen.more /\ Len(read) = ask.offset + Len(screen.spots)
                          noTies == \A p, q \in found : (KeyOf[p] = KeyOf[q]) => (p = q)
                      IN /\ screen.exact \/ Matching(ask.query) = {}
                         /\ onLast /\ noTies => Range(read) = found /\ Len(read) = Cardinality(found)
    BY DEF PagesCover
  <2>1. PageHolds
    BY DEF PagesInv
  <2>2. screen.exact = Exact(ask.query)
    BY <2>1 DEF PageHolds
  <2>3. screen.exact \/ Matching(ask.query) = {}
    BY <2>2 DEF Exact
  <2> DEFINE found == Matching(Told(ask.query))
  <2>4. Told(ask.query) = IF screen.exact THEN ask.query ELSE First(1, ask.query)
    BY <2>2 DEF Told
  <2>5. ASSUME ~screen.more, Len(read) = ask.offset + Len(screen.spots), NoTies(found)
        PROVE  Range(read) = found /\ Len(read) = Cardinality(found)
    <3>1. IsFiniteSet(found) /\ Cardinality(found) \in Nat
      BY MatchingFinite DEF PagesInv
    <3>2. PICK s \in InOrderOf(KeyOf, found) : PageIs(screen.spots, screen.more, ask.offset, s)
      BY <2>1 DEF PageHolds
    <3>3. PICK t \in InOrderOf(KeyOf, found) : Begins(read, t)
      BY <2>1, <2>5 DEF PageHolds
    <3>4. read \in Seq(Spots) /\ ask.offset \in Nat
      BY <2>1 DEF PageHolds, PagesInv
    <3> HIDE DEF found
    <3>5. /\ s \in Seq(found) /\ t \in Seq(found) /\ Range(t) = found
          /\ Len(s) = Cardinality(found) /\ Len(t) = Cardinality(found)
      BY <3>1, <3>2, <3>3, InOrder
    <3>6. Len(read) = Len(t)
      <4>1. screen.more = (PageSize + ask.offset < Len(s))
        BY <3>2 DEF PageIs
      <4>2. ~ (PageSize + ask.offset < Len(s))
        BY <2>5, <4>1
      <4>3. Len(screen.spots) = Len(s) - ask.offset
        BY <3>2, <4>2 DEF PageIs
      <4>4. Len(read) = ask.offset + Len(screen.spots)
        BY <2>5
      <4> QED BY <3>1, <3>4, <3>5, <4>3, <4>4
    <3>7. read = t
      BY <3>3, <3>4, <3>5, <3>6 DEF Begins
    <3> QED BY <3>5, <3>7
  <2> QED BY <2>3, <2>4, <2>5 DEF NoTies
<1> QED BY <1>1, <1>2, PTL
=============================================================================
