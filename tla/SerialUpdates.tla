--------------------------- MODULE SerialUpdates ---------------------------
(***************************************************************************)
(* SerialPerUserMiddleware (bot/middlewares/serial.py): a dictionary of      *)
(* locks, one per user with updates under way. aiogram runs every update as  *)
(* a task of its own; between two awaits a task is not interrupted, so a     *)
(* step here is what happens from one await to the next.                     *)
(*                                                                          *)
(* An entry of the dictionary is named after the update that created it.     *)
(* Inside the lock a handler reads the conversation and the draft, waits for *)
(* PostgreSQL, Redis and Telegram many times, and at its end has written     *)
(* what it made of that reading.                                            *)
(***************************************************************************)
EXTENDS Sequences, SequencesExt

CONSTANTS
    Users,
    Updates,
    UserOf,         \* whose update it is
    Gone            \* no entry, no holder

ASSUME UpdatesAssumption ==
    IsFiniteSet(Updates) /\ UserOf \in [Updates -> Users] /\ Gone \notin Updates

VARIABLES
    locks,          \* _locks: per user the entry of the dictionary, or Gone
    users,          \* entry.users: updates that hold the lock or wait for it
    holder,         \* entry.lock, an asyncio.Lock: who has it
    waiters,        \* and who waits for it
    entry,          \* per update: its entry, Gone before it came
    seen,           \* per update: the conversation as its handler read it
    conversation,   \* per user: the updates whose effect it holds
    arrived         \* history, per user: updates received and not over, in order

serialVars == <<locks, users, holder, waiters, entry, seen, conversation, arrived>>

------------------------------------------------------------------------------
\* The first statements of __call__, up to the lock.
Arrive(u) ==
    LET x == UserOf[u]
        e == IF locks[x] = Gone THEN u ELSE locks[x]
    IN /\ entry[u] = Gone
       /\ locks' = [locks EXCEPT ![x] = e]
       /\ users' = [users EXCEPT ![e] = @ + 1]
       /\ entry' = [entry EXCEPT ![u] = e]
       /\ waiters' = [waiters EXCEPT ![e] = Append(@, u)]
       /\ arrived' = [arrived EXCEPT ![x] = Append(@, u)]
       /\ UNCHANGED <<holder, seen, conversation>>

\* External: asyncio.Lock is given to the first in line. The handler begins and reads.
Enter(u) ==
    LET e == entry[u]
    IN /\ e # Gone /\ waiters[e] # <<>> /\ Head(waiters[e]) = u /\ holder[e] = Gone
       /\ holder' = [holder EXCEPT ![e] = u]
       /\ waiters' = [waiters EXCEPT ![e] = Tail(@)]
       /\ seen' = [seen EXCEPT ![u] = conversation[UserOf[u]]]
       /\ UNCHANGED <<locks, users, entry, conversation, arrived>>

\* Mutant of Leave: the entry is removed though others wait at it.
LeaveAlways(u) ==
    LET e == entry[u]
        x == UserOf[u]
    IN /\ users' = [users EXCEPT ![e] = @ - 1]
       /\ locks' = [locks EXCEPT ![x] = IF locks[x] = e THEN Gone ELSE @]
       /\ holder' = [holder EXCEPT ![e] = IF @ = u THEN Gone ELSE @]
       /\ waiters' = [waiters EXCEPT ![e] = RemoveFirst(@, u)]
       /\ arrived' = [arrived EXCEPT ![x] = RemoveFirst(@, u)]
       /\ UNCHANGED entry

\* The lock is given back and the finally block runs, also after an exception or when the
\* task is cancelled. Nothing is awaited in between: one step.
Leave(u) ==
    LET e    == entry[u]
        x    == UserOf[u]
        left == users[e] - 1
    IN /\ users' = [users EXCEPT ![e] = left]
       /\ locks' = [locks EXCEPT ![x] = IF left = 0 /\ locks[x] = e THEN Gone ELSE @]
       /\ holder' = [holder EXCEPT ![e] = IF @ = u THEN Gone ELSE @]
       /\ waiters' = [waiters EXCEPT ![e] = RemoveFirst(@, u)]
       /\ arrived' = [arrived EXCEPT ![x] = RemoveFirst(@, u)]
       /\ UNCHANGED entry

Runs(u) == entry[u] # Gone /\ holder[entry[u]] = u

\* The handler returns: what it has written rests on what it has read.
Finish(u) ==
    /\ Runs(u)
    /\ conversation' = [conversation EXCEPT ![UserOf[u]] = Append(seen[u], u)]
    /\ Leave(u)
    /\ UNCHANGED seen

\* Mutant of Fail: an update that fails is not taken off the count.
FailKeeping(u) ==
    LET e == entry[u]
        x == UserOf[u]
    IN /\ Runs(u)
       /\ holder' = [holder EXCEPT ![e] = Gone]
       /\ arrived' = [arrived EXCEPT ![x] = RemoveFirst(@, u)]
       /\ UNCHANGED <<locks, users, waiters, entry, seen, conversation>>

\* The handler raises: the transaction is rolled back.
Fail(u) ==
    /\ Runs(u)
    /\ Leave(u)
    /\ UNCHANGED <<seen, conversation>>

\* The task is cancelled while it waits for the lock.
CancelWaiting(u) ==
    /\ entry[u] # Gone /\ u \in ToSet(waiters[entry[u]])
    /\ Leave(u)
    /\ UNCHANGED <<seen, conversation>>

\* The process is restarted: the locks lived in its memory and so did the tasks. The
\* conversation is in Redis and PostgreSQL.
ProcessRestarts ==
    /\ locks' = [x \in Users |-> Gone]
    /\ users' = [u \in Updates |-> 0]
    /\ holder' = [u \in Updates |-> Gone]
    /\ waiters' = [u \in Updates |-> <<>>]
    /\ arrived' = [x \in Users |-> <<>>]
    /\ UNCHANGED <<entry, seen, conversation>>

------------------------------------------------------------------------------
SerialInit ==
    /\ locks = [x \in Users |-> Gone]
    /\ users = [u \in Updates |-> 0]
    /\ holder = [u \in Updates |-> Gone]
    /\ waiters = [u \in Updates |-> <<>>]
    /\ entry = [u \in Updates |-> Gone]
    /\ seen = [u \in Updates |-> <<>>]
    /\ conversation = [x \in Users |-> <<>>]
    /\ arrived = [x \in Users |-> <<>>]

SerialNext ==
    \/ \E u \in Updates : Arrive(u) \/ Enter(u) \/ Finish(u) \/ Fail(u) \/ CancelWaiting(u)
    \/ ProcessRestarts

\* The event loop wakes whoever may go on, and every handler comes to an end: its
\* requests to PostgreSQL, Redis and Telegram have timeouts.
SerialFairness ==
    \A u \in Updates : WF_serialVars(Enter(u)) /\ WF_serialVars(Finish(u) \/ Fail(u))

SerialSpec == SerialInit /\ [][SerialNext]_serialVars /\ SerialFairness

------------------------------------------------------------------------------
(* Properties. *)

SerialOK ==
    /\ locks \in [Users -> Updates \cup {Gone}]
    /\ users \in [Updates -> 0..Cardinality(Updates)]
    /\ holder \in [Updates -> Updates \cup {Gone}]
    /\ entry \in [Updates -> Updates \cup {Gone}]
    /\ \A x \in Users : ToSet(conversation[x]) \cap ToSet(arrived[x]) = {}

\* The dictionary holds exactly the users with updates under way ("so that the dictionary
\* does not grow for ever", serial.py:53), and all updates of a user that are under way are
\* at that one entry: nobody holds or waits for a lock that others no longer see.
OneEntryWhileBusy ==
    /\ SerialOK
    /\ \A x \in Users :
        /\ locks[x] = Gone <=> arrived[x] = <<>>
        /\ \A u \in ToSet(arrived[x]) : entry[u] = locks[x]
        /\ arrived[x] # <<>> => users[locks[x]] = Len(arrived[x])

\* Updates of one user are applied one by one in the order in which they came, each on top
\* of the one before: nothing a customer did is lost to a second tap ("two quick taps would
\* run at the same time", serial.py:3). Whoever waits is served.
P == INSTANCE OneAtATime WITH pending <- arrived, applied <- conversation
OneByOne == P!Promise
=============================================================================
