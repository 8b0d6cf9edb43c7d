---------------------------- MODULE PickupSearch ----------------------------
(***************************************************************************)
(* A customer looks for a pickup point (bot/handlers/checkout.py from         *)
(* show_pickup_search_step on, bot/handlers/nearest_pickup.py,                *)
(* core/services/delivery.py): the nearest to where she is, or by words of    *)
(* the address, page by page, while the directory changes under the list.     *)
(*                                                                          *)
(* A point is known by the words its address has, by the place of its city    *)
(* and address in the alphabet (two carriers may share a house) and by its    *)
(* distance from the customer. The database may return rows with equal keys   *)
(* in any order, another one each time.                                       *)
(***************************************************************************)
EXTENDS Naturals, FiniteSets, Sequences, SequencesExt

CONSTANTS
    Spots,          \* the rows of pickup_points
    CarrierOf,      \* of a spot
    WordsOf,        \* of a spot: the words its search_text contains
    KeyOf,          \* of a spot: where (city, address) comes in the alphabet
    Km,             \* of a spot: from the customer
    Radii,          \* NEAREST_SEARCH_RADII_KM: a sequence
    Cut,            \* pairs of a spot and a radius: the rectangle of that radius leaves the
                    \* spot out, though it is in the circle
    Queries,        \* what the customer may write: sequences of words that signify
    PageSize        \* PICKUP_POINTS_PAGE_SIZE

\* Nothing was asked for in words.
NoQuery == <<"none">>

ASSUME SpotsAssumption ==
    /\ IsFiniteSet(Spots)
    /\ \A p \in Spots : Km[p] \in Nat /\ KeyOf[p] \in Nat
    /\ \A cut \in Cut : Km[cut[1]] <= cut[2]
ASSUME RadiiAssumption == Radii \in Seq(Nat)
ASSUME QueriesAssumption ==
    /\ NoQuery \notin Queries
    /\ \A words \in Queries : words \in Seq({words[i] : i \in DOMAIN words})
ASSUME PageAssumption == PageSize \in Nat \ {0}

VARIABLES
    open,           \* spots that are active
    enabled,        \* carriers enabled in the panel
    ask,            \* the conversation: the query, whether a location was sent, the offset
    screen,         \* the list on the screen
    older,          \* offsets on the buttons of the list before it: a tap may come late
    read,           \* history: the spots of the pages turned over from the first one on
    steady          \* history: the directory has not changed since the first page

searchVars == <<open, enabled, ask, screen, older, read, steady>>

NoList == [spots |-> <<>>, exact |-> TRUE, more |-> FALSE]
NoAsk == [query |-> NoQuery, here |-> FALSE, offset |-> 0]

\* _visible_providers, and is_active.
Visible == {p \in open : CarrierOf[p] \in enabled}

\* The ways to put spots in order of a key, equal ones in any order.
InOrderOf(key, spots) ==
    {s \in SetToSeqs(spots) : \A i, j \in DOMAIN s : i < j => key[s[i]] <= key[s[j]]}

First(n, s) == SubSeq(s, 1, IF n < Len(s) THEN n ELSE Len(s))

------------------------------------------------------------------------------
(* By location.                                                              *)

\* distance_km, and the same in SQL.
IsNear(p, radius) == Km[p] <= radius

\* _nearest_within, before the limit: in the circle and in the rectangle about it.
Within(radius) == {p \in Visible : IsNear(p, radius) /\ <<p, radius>> \notin Cut}

\* Mutant of Enough: the first circle with anything in it will do.
EnoughIfAny(radius) == Within(radius) # {}

Enough(radius) == Cardinality(Within(radius)) >= PageSize

\* search_nearest: the first circle that holds a page, or all there is.
Nearest ==
    LET wide == {i \in DOMAIN Radii : Enough(Radii[i])}
        from == IF wide = {} THEN Visible ELSE Within(Radii[Min(wide)])
    IN {First(PageSize, s) : s \in InOrderOf(Km, from)}

------------------------------------------------------------------------------
(* By words.                                                                 *)

\* normalize_search on both sides; search_words has dropped "street", "house" and the like.
HasWord(p, word) == word \in WordsOf[p]

Matching(words) == {p \in Visible : \A i \in DOMAIN words : HasWord(p, words[i])}

Rows(words, limit, offset) ==
    {First(limit, SubSeq(s, offset + 1, Len(s))) : s \in InOrderOf(KeyOf, Matching(words))}

\* Nothing has all the words, and there is more than the first.
FallsBack(words, found) == found = <<>> /\ Len(words) > 1

\* search_by_text.
ByText(words, limit, offset) ==
    IF words = <<>> \/ enabled = {} THEN {[spots |-> <<>>, exact |-> TRUE]}
    ELSE UNION {IF FallsBack(words, found)
                THEN {[spots |-> less, exact |-> FALSE] : less \in Rows(First(1, words), limit, offset)}
                ELSE {[spots |-> found, exact |-> TRUE]} : found \in Rows(words, limit, offset)}

\* Mutant of AskedFor: no row more than fits on the page.
PageOnly == PageSize

\* One more than is shown tells whether there is more.
AskedFor == PageSize + 1

\* _show_pickup_points: the list of the screen for a state of the conversation.
Lists(a) ==
    IF a.here THEN {[spots |-> s, exact |-> TRUE, more |-> FALSE] : s \in Nearest}
    ELSE IF a.query = NoQuery THEN {NoList}
    ELSE {[spots |-> First(PageSize, r.spots), exact |-> r.exact, more |-> Len(r.spots) > PageSize]
            : r \in ByText(a.query, AskedFor, a.offset)}

Buttons ==
    (IF screen.more THEN {ask.offset + PageSize} ELSE {})
        \cup (IF ask.offset > 0 /\ screen.spots # <<>>
              THEN {IF ask.offset > PageSize THEN ask.offset - PageSize ELSE 0} ELSE {})

------------------------------------------------------------------------------
(* The customer.                                                             *)

Show(a) ==
    /\ ask' = a
    /\ screen' \in Lists(a)
    /\ older' = Buttons
    /\ UNCHANGED <<open, enabled>>

FirstPage ==
    /\ read' = screen'.spots
    /\ steady' = TRUE

\* receive_location. nearest_points, outside the checkout, shows the same list.
ReceiveLocation ==
    /\ Show([query |-> NoQuery, here |-> TRUE, offset |-> 0])
    /\ FirstPage

\* receive_city; the query may have no word that signifies.
ReceiveCity(words) ==
    /\ Show([query |-> words, here |-> FALSE, offset |-> 0])
    /\ FirstPage

\* show_pickup_search_step: "back", or a query of one letter. The location stays.
OpenSearch ==
    /\ ask' = [ask EXCEPT !.query = NoQuery, !.offset = 0]
    /\ screen' = NoList
    /\ older' = Buttons
    /\ read' = <<>> /\ steady' = FALSE
    /\ UNCHANGED <<open, enabled>>

\* paginate_points: a button of the list, or of the one that was there before. A late tap
\* may find nothing to turn over (_show_pickup_points asks again), or a list by location.
Paginate(offset) ==
    IF ask.query = NoQuery /\ ~ask.here THEN OpenSearch ELSE
    /\ Show([ask EXCEPT !.offset = offset])
    /\ read' = IF offset = Len(read) THEN read \o screen'.spots ELSE read
    /\ steady' = (steady /\ offset \in Buttons)

\* The directory is refreshed, or the panel switches a carrier on or off.
DirectoryChanges(p) ==
    /\ open' = IF p \in open THEN open \ {p} ELSE open \cup {p}
    /\ steady' = FALSE
    /\ UNCHANGED <<enabled, ask, screen, older, read>>

SwitchCarrier(c) ==
    /\ enabled' = IF c \in enabled THEN enabled \ {c} ELSE enabled \cup {c}
    /\ steady' = FALSE
    /\ UNCHANGED <<open, ask, screen, older, read>>

SearchStart ==
    /\ ask = NoAsk
    /\ screen = NoList
    /\ older = {}
    /\ read = <<>>
    /\ steady = FALSE

SearchInit ==
    /\ open \in SUBSET Spots
    /\ enabled \in SUBSET {CarrierOf[p] : p \in Spots}
    /\ SearchStart

SearchNext ==
    \/ ReceiveLocation \/ OpenSearch
    \/ \E words \in Queries : ReceiveCity(words)
    \/ \E offset \in Buttons \cup older : Paginate(offset)
    \/ \E p \in Spots : DirectoryChanges(p)
    \/ \E p \in Spots : SwitchCarrier(CarrierOf[p])

SearchSpec == SearchInit /\ [][SearchNext]_searchVars

------------------------------------------------------------------------------
(* Properties.                                                              *)

\* The list by location holds the nearest points: a page of them if there are as many, and
\* none that is not listed is nearer than a listed one. "If the circle has enough, this is
\* the answer: all beyond it is farther" (search_nearest). Unless the rectangle of some
\* radius leaves the nearer point out.
NearestListed ==
    [][ReceiveLocation =>
        LET listed == Range(screen'.spots)
        IN /\ Len(screen'.spots) = IF Cardinality(Visible) < PageSize THEN Cardinality(Visible) ELSE PageSize
           /\ \A p \in Visible \ listed, q \in listed :
                Km[p] >= Km[q] \/ \E cut \in Cut : cut[1] = p]_searchVars

\* A customer who turns the pages in order while the directory stays as it is
\* - is told that nothing has the address she wrote only if nothing has, and
\* - has seen on the last page every point that matches, each once, unless two points share
\*   an address: then the database may change their order from page to page.
PagesCover ==
    LET words == IF screen.exact THEN ask.query ELSE First(1, ask.query)
        found == Matching(words)
        onLast == ~screen.more /\ Len(read) = ask.offset + Len(screen.spots)
        noTies == \A p, q \in found : (KeyOf[p] = KeyOf[q]) => (p = q)
    IN steady /\ ~ask.here /\ ask.query # <<>> =>
        /\ screen.exact \/ Matching(ask.query) = {}
        /\ onLast /\ noTies => Range(read) = found /\ Len(read) = Cardinality(found)
=============================================================================
