----------------------------- MODULE PickupSync -----------------------------
(***************************************************************************)
(* The directory of pickup points of one carrier                            *)
(* (core/services/pickup_sync.py, pickup_import.py): a run asks the source   *)
(* part by part, outside any transaction and for minutes or hours, while the *)
(* source changes; then one transaction writes what was collected and        *)
(* switches off what has gone. Runs overlap: the nightly task, a run from    *)
(* the console, a file imported by hand.                                     *)
(*                                                                          *)
(* Times are values of a clock that moves when somebody reads it: only which *)
(* of two times is earlier matters. A transaction that writes is one step:   *)
(* two that touch the same rows wait for each other or one is rolled back.   *)
(***************************************************************************)
EXTENDS Integers, FiniteSets

CONSTANTS
    Points,
    Parts,          \* of the source: regions of Ozon, bands of latitude of Yandex
    PartsOf,        \* the parts whose answers hold a point: two for one on a border
    Items,          \* what a source says of a point
    Requests,       \* attempts to read one part from Overpass: two servers, three times
    Jobs,           \* runs that may overlap
    Importers,      \* those that may also be imports of a file
    LastTime        \* bound: times read

Gone == [kind |-> "gone", closing |-> FALSE, placed |-> FALSE]

ASSUME SyncAssumption ==
    /\ Parts # {}
    /\ PartsOf \in [Points -> (SUBSET Parts) \ {{}}]
    /\ \A i \in Items : i.kind \in {"office", "partner", "locker"}
    /\ IsFiniteSet(Points) /\ LastTime \in Nat

VARIABLES
    carrier,        \* the provider
    table,          \* pickup_points: absent, on or off (is_active)
    stamp,          \* pickup_points.synced_at
    page,           \* delivery_providers: pickup_points_synced_at, last_sync_error; and, for
                    \* the properties, whether an import wrote it that another run overtook
    job,            \* the runs
    clock

syncVars == <<carrier, table, stamp, page, job, clock>>

Idling == [phase |-> "idle", left |-> {}, tries |-> 0, rows |-> {}, failed |-> {},
           at |-> 0, known |-> 0, loaded |-> {}, absent |-> {}, raced |-> FALSE]

Active == {p \in Points : table[p] = "on"}

------------------------------------------------------------------------------
(* Which answers become rows. Boxes do not fit into lockers, and a parcel must *)
(* arrive before the point closes.                                            *)

YandexRow(i) == i.kind # "locker" /\ ~i.closing /\ i.placed

CdekRow(i) == i.kind = "office" /\ ~i.closing /\ i.placed

\* A volunteers' map: all that matters is an address at the point or at its house.
OzonRow(i) == i.placed

Takes(i) ==
    CASE carrier = "yandex" -> YandexRow(i)
      [] carrier = "cdek"   -> CdekRow(i)
      [] carrier = "ozon"   -> OzonRow(i)

\* CDEK's list comes in one piece.
PartsAsked == IF carrier = "cdek" THEN {CHOOSE part \in Parts : TRUE} ELSE Parts

InPart(p, part) == carrier = "cdek" \/ part \in PartsOf[p]

Held(part) == {p \in Points : InPart(p, part)}

\* The points taken from an answer: a source says anything of its points, and something
\* else a minute later.
Taken(answer) == {p \in DOMAIN answer : answer[p] # Gone /\ Takes(answer[p])}

\* The points of some rows. A row is a point and the part whose answer had it.
PointsOf(rows) == {row[1] : row \in rows}

\* A band of Yandex leaves out what an earlier band had ("seen").
Yielded(part, answer, rows) ==
    (Taken(answer) \ IF carrier = "yandex" THEN PointsOf(rows) ELSE {}) \X {part}

\* Mutant of UniqueRows: rows of the border stay double.
AllRows(rows) == rows

\* One row a point: an INSERT .. ON CONFLICT may not meet a row twice.
UniqueRows(rows) ==
    {row \in rows : row = CHOOSE r \in rows : r[1] = row[1]}

------------------------------------------------------------------------------
(* A run.                                                                    *)

Set(j, new) == job' = [job EXCEPT ![j] = new]

StartSync(j) ==
    /\ job[j].phase = "idle"
    /\ Set(j, [Idling EXCEPT !.phase = "asking", !.left = PartsAsked])
    /\ UNCHANGED <<carrier, table, stamp, page, clock>>

\* A part answers. Which of its points are not there is noted for the properties.
AskPart(j, part, answer) ==
    /\ job[j].phase = "asking" /\ part \in job[j].left
    /\ Set(j, [job[j] EXCEPT
            !.left = @ \ {part}, !.tries = 0,
            !.rows = @ \cup Yielded(part, answer, job[j].rows),
            !.absent = @ \cup (DOMAIN answer \ Taken(answer))])
    /\ UNCHANGED <<carrier, table, stamp, page, clock>>

\* Overpass is busy: the other server, then a pause and both again.
AskAgain(j) ==
    /\ carrier = "ozon"
    /\ job[j].phase = "asking" /\ job[j].left # {} /\ job[j].tries < Requests - 1
    /\ Set(j, [job[j] EXCEPT !.tries = @ + 1])
    /\ UNCHANGED <<carrier, table, stamp, page, clock>>

\* A region of Ozon is given up and left out.
SkipPart(j, part) ==
    /\ carrier = "ozon"
    /\ job[j].phase = "asking" /\ part \in job[j].left /\ job[j].tries = Requests - 1
    /\ Set(j, [job[j] EXCEPT !.left = @ \ {part}, !.tries = 0, !.failed = @ \cup {part}])
    /\ UNCHANGED <<carrier, table, stamp, page, clock>>

\* _remember_error: in a transaction of its own, then the error leaves.
RememberError(j) ==
    /\ page' = [page EXCEPT !.error = "failed"]
    /\ Set(j, Idling)

\* The other sources give up as a whole, and Ozon if the list of regions does not come.
SourceFails(j) ==
    /\ job[j].phase = "asking" /\ job[j].left # {}
    /\ carrier = "ozon" => job[j].left = PartsAsked /\ job[j].tries = Requests - 1
    /\ RememberError(j)
    /\ UNCHANGED <<carrier, table, stamp, clock>>

\* The process dies while it collects or before it commits: nothing is written.
JobDies(j) ==
    /\ job[j].phase # "idle"
    /\ Set(j, Idling)
    /\ UNCHANGED <<carrier, table, stamp, page, clock>>

\* All is collected: the time is read, the transaction begins and counts.
CountKnown(j) ==
    /\ job[j].phase = "asking" /\ job[j].left = {}
    /\ clock < LastTime
    /\ clock' = clock + 1
    /\ Set(j, [job[j] EXCEPT !.phase = "writing", !.rows = UniqueRows(@), !.at = clock',
                             !.known = Cardinality(Active)])
    /\ UNCHANGED <<carrier, table, stamp, page>>

\* Less than MIN_SHARE_OF_KNOWN = 0.5 of the known points.
TooFew(rows, known) == 2 * Cardinality(rows) < known

Suspect(j) ==
    /\ job[j].phase = "writing" /\ TooFew(job[j].rows, job[j].known)
    /\ RememberError(j)
    /\ UNCHANGED <<carrier, table, stamp, clock>>

\* Mutant of SwitchedOff: unread parts are forgotten.
SwitchedOffAlways(r, now) == {p \in Points : table[p] = "on" /\ now[p] < r.at}

\* The points that have gone: stamped neither now nor later, and only if all parts answered.
SwitchedOff(r, now) == {p \in Points : table[p] = "on" /\ now[p] < r.at /\ r.failed = {}}

\* Whoever loaded rows before this commit has read something that no longer holds.
Raced == [k \in Jobs |-> [job[k] EXCEPT !.raced = @ \/ job[k].phase \in {"importing", "writing"}]]

WritePoints(j) ==
    LET r   == job[j]
        now == [p \in Points |-> IF p \in PointsOf(r.rows) THEN r.at ELSE stamp[p]]
    IN /\ r.phase = "writing" /\ ~TooFew(r.rows, r.known)
       /\ stamp' = now
       /\ table' = [p \in Points |-> IF p \in PointsOf(r.rows) THEN "on"
                                     ELSE IF p \in SwitchedOff(r, now) THEN "off" ELSE table[p]]
       /\ page' = [synced |-> r.at, raced |-> FALSE,
                   error |-> IF r.failed = {} THEN "none" ELSE "partly"]
       /\ job' = [Raced EXCEPT ![j] = Idling]
       /\ UNCHANGED <<carrier, clock>>

------------------------------------------------------------------------------
(* A file imported from the console. Its rows are held against rows of the     *)
(* table that were loaded before, and the session writes what has changed      *)
(* since the load.                                                            *)

LoadForImport(j, file) ==
    /\ j \in Importers /\ job[j].phase = "idle" /\ file # {}
    /\ clock < LastTime
    /\ clock' = clock + 1
    /\ Set(j, [Idling EXCEPT !.phase = "importing", !.rows = file \X {"file"}, !.at = clock',
                             !.loaded = {<<p, table[p]>> : p \in Points}])
    /\ UNCHANGED <<carrier, table, stamp, page>>

\* Mutant of ImportPoints: what the file does not have stays.
ImportAdds(j) ==
    LET r == job[j]
        file == PointsOf(r.rows)
    IN /\ r.phase = "importing"
       /\ \A p \in file : <<p, "absent">> \in r.loaded => table[p] = "absent"
       /\ table' = [p \in Points |-> IF p \in file THEN "on" ELSE table[p]]
       /\ stamp' = [p \in Points |-> IF p \in file THEN r.at ELSE stamp[p]]
       /\ page' = [synced |-> r.at, raced |-> r.raced, error |-> "none"]
       /\ job' = [Raced EXCEPT ![j] = Idling]
       /\ UNCHANGED <<carrier, clock>>

\* A point inserted by another run meanwhile breaks the import (unique provider and code):
\* then only JobDies is left. A point loaded as active is not written as active again.
ImportPoints(j) ==
    LET r == job[j]
        file == PointsOf(r.rows)
        Loaded(p, s) == <<p, s>> \in r.loaded
    IN /\ r.phase = "importing"
       /\ \A p \in file : Loaded(p, "absent") => table[p] = "absent"
       /\ table' = [p \in Points |->
                        IF p \in file /\ ~Loaded(p, "on") THEN "on"
                        ELSE IF p \notin file /\ Loaded(p, "on") THEN "off" ELSE table[p]]
       /\ stamp' = [p \in Points |-> IF p \in file THEN r.at ELSE stamp[p]]
       /\ page' = [synced |-> r.at, raced |-> r.raced, error |-> "none"]
       /\ job' = [Raced EXCEPT ![j] = Idling]
       /\ UNCHANGED <<carrier, clock>>

------------------------------------------------------------------------------
SyncStart ==
    /\ table \in {[p \in Points |-> s] : s \in {"absent", "on"}}
    /\ stamp = [p \in Points |-> 0]
    /\ page = [synced |-> 0, raced |-> FALSE, error |-> "none"]
    /\ job = [j \in Jobs |-> Idling]
    /\ clock = 0

\* The directory starts empty, or as the carrier's points of old that no run has dated
\* (synced_at is null).
SyncInit ==
    /\ carrier \in {"cdek", "yandex", "ozon"}
    /\ SyncStart

SyncNext ==
    \/ \E j \in Jobs :
        \/ StartSync(j) \/ AskAgain(j) \/ SourceFails(j) \/ JobDies(j)
        \/ CountKnown(j) \/ Suspect(j) \/ WritePoints(j) \/ ImportPoints(j)
        \/ \E part \in Parts :
            \/ \E answer \in [Held(part) -> Items \cup {Gone}] : AskPart(j, part, answer)
            \/ SkipPart(j, part)
        \/ \E file \in SUBSET Points : LoadForImport(j, file)

SyncSpec == SyncInit /\ [][SyncNext]_syncVars

------------------------------------------------------------------------------
(* Properties.                                                              *)

\* Types, and rows ready to be written have no double: Postgres would refuse the INSERT and
\* "the whole load of many hours would fall" (pickup_sync.py, unique_rows).
SyncOK ==
    /\ table \in [Points -> {"absent", "on", "off"}]
    /\ stamp \in [Points -> 0..LastTime]
    /\ page \in [synced : 0..LastTime, raced : BOOLEAN, error : {"none", "partly", "failed"}]
    /\ \A p \in Points : table[p] = "absent" => stamp[p] = 0
    /\ \A j \in Jobs : job[j].phase = "writing" => Cardinality(job[j].rows) = Cardinality(PointsOf(job[j].rows))

\* A run that writes switches a point off only if the source said in that very run that the
\* point is not there: never because a part was not read ("otherwise the points of the unread
\* region would disappear", sync_provider). And a source that suddenly knows less than half of
\* the points does not empty the directory ("more likely the source broke than half of the
\* network closed"): at least half of what the run found stays, if nobody else wrote meanwhile.
OffForAReason ==
    [][\A j \in Jobs :
        job[j].phase = "writing" /\ page'.synced = job[j].at /\ page' # page =>
            /\ \A p \in Points : table[p] = "on" /\ table'[p] = "off" => p \in job[j].absent
            /\ ~job[j].raced =>
                2 * Cardinality({p \in Points : table'[p] = "on"}) >= Cardinality(Active)]_syncVars

\* When the panel shows no error beside the date of the last update, that date is true of
\* every point on offer: each was in an answer or a file of that date or of a later one.
\* Unless runs overlapped: a file held against rows loaded before another run committed
\* leaves points on that it has not seen.
CleanDateHolds ==
    page.error = "none" /\ ~page.raced => \A p \in Active : stamp[p] >= page.synced
=============================================================================
