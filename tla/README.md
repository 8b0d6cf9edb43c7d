# elizabet_magic: a TLA+ model of the shop

The program is a shop for handmade goods: a Telegram bot takes orders, a web
application shows pay pages and the owner's panel, a worker runs background
tasks, PostgreSQL holds the state and Robokassa takes the money. This directory
models the part of it where things may happen in an order nobody wrote a test
for: how an order is put together in the bot, its life, the assembly queue and its
dates, money and receipts, locks, and what the worker does by the clock: messages,
reconciliation and the directories of pickup points. Paths below are relative to `src/src/`.

## 1. The system

### Processes

| process | entry | concurrency |
|---|---|---|
| bot | `bot/main.py` | asyncio; updates of one user one after another (`bot/middlewares/serial.py`), different users at once; one transaction per update |
| web | `web/app.py` | one transaction per request, any number of requests at once |
| worker | `worker/broker.py`, `worker/scheduler.py` | one process; tasks on a clock (expiry every 5 minutes, reconciliation every 10, outbox every minute and after each commit that filled it) |
| PostgreSQL | | READ COMMITTED; row locks, advisory locks, deferred unique constraints |
| Robokassa, Telegram | external | answer late, twice or never |

All sessions are made with `expire_on_commit=False` and `autoflush=False`
(`core/db.py`): an object loaded once keeps the values it was loaded with, and
a write goes out only at a flush, with the attributes that changed.

### Components

| component | state | operations | what makes it correct |
|---|---|---|---|
| order lifecycle (`core/enums.py`, `core/services/orders.py`) | `orders.status`, `paid_at`, `cancel_reason` | submit, mark_paid, revive_expired, change_status, cancel, mark_arrived, expire_unpaid | stages move only along the table; no work without payment |
| assembly queue (`core/services/board.py`) | `orders.queue_position` | append, remove, reorder, ready dates | numbered 1..N; first come, first served |
| panel (`web/routes/admin/board.py`, `orders.py`) | what each request has loaded | move card, change status, arrived, cancel | old views do no harm |
| payments (`core/services/payments.py`, `web/routes/pay.py`) | `payments.*` | create_payment, confirm_payment, late payments, reconcile, stub | money taken is recorded, once, for the right order |
| refunds (`core/services/refunds.py`) | `refunds.*` | require, complete | money to return is listed, money of an order in work is not |
| receipts (`core/services/receipts.py`, `robokassa.py`) | `receipts.*`, `payments.receipt_sent` | with a payment, with the form of the cash desk, registered by hand | a sale is reported once, for the money it brought |
| reconciliation batch (`core/services/payments.py`) | none of its own | which invoices a run asks about | no charged invoice is starved |
| locks (all of the above) | row and advisory locks | | what is read holds at commit; no circular waits |
| outbox (`core/services/outbox.py`, `worker/tasks/outbox.py`) | `outbox.*` | enqueue, claim, mark, retry, purge | every message settled; no needless doubles |
| intake (`core/services/intake.py`) | limit, pause | ensure_open, free_slot_date | the limit holds under concurrent submits |
| calendar (`core/workdays.py`) | none (pure) | working days, ready dates by capacity | capacity is not exceeded, dates slip only for a reason, all uses agree |
| checkout (`bot/handlers/checkout.py`) | conversation state, draft, items, price versions | steps, back, pay | the draft is complete when submitted, prices are those agreed |
| serial updates (`bot/middlewares/serial.py`) | a lock per active user | acquire, release | one update of a user at a time |
| pickup points (`core/services/pickup_sync.py`, `pickup_import.py`, `worker/tasks/pickup.py`) | `pickup_points.*`, `delivery_providers.*` | sync in parts, import of a file, nightly schedule | a partial answer switches nothing off, the date shown is true, no directory grows old |
| pickup search (`core/services/delivery.py`) | query and offset in the conversation | by location, by words, pages | the nearest ones; every match is on some page |
| panel login (`web/routes/admin/auth.py`) | failed attempts | login | apart from orders, not modelled |
| catalogue (`core/services/catalog.py`) | products, price versions | edit, recalculate | an order keeps the price it was made with |
| texts, screens, statistics, set-up | | | presentation and read-only code |

How they interact: the bot submits an order and creates its first payment in one
transaction; pay pages send the customer to Robokassa; its webhook, or the
reconciliation task, confirms the payment, which locks the order, marks it paid
and appends it to the queue; the panel moves it along; a cancel by customer,
owner or deadline closes the pending attempt and asks for a refund; each of
these inserts outbox messages in its own transaction. Submitting asks the intake
whether there is room, which counts the orders the queue and the open payments
hold; the calendar lays the queue out in days for the board, the summary before
the payment, the promised date, the refusal and the statistics. A recorded payment
gets a receipt. The search reads the directory that the nightly runs replace.

### Where it is hard

* Panel requests load an order without a lock and write it later.
* A payment may arrive after its order expired, was cancelled, was paid by
  another attempt, or was issued in another contour.
* Handlers take row locks, payment locks and the queue's advisory lock in
  different orders.
* The worker may die between claiming, sending and marking a message.
* The conversation with a customer is in Redis and the draft in PostgreSQL: an
  update that fails is taken back in one of them only.
* Catalogue, prices and carriers change while a draft is being filled.
* `ensure_open` reads settings, takes a lock, reads settings again and counts: four
  statements, each of which sees what has been committed until then.
* A refresh of pickup points collects for hours outside any transaction, may overlap
  with another one, and must tell "gone" from "not read".
* Pages of a list are separate queries over a directory that changes.
* Money, the receipt's lines and the form the customer pays on are fixed at
  different moments, under a configuration that may change between them.

`PROJECT.json` lists each hazard at its line, with the properties that watch it.

## 2. Modules

```
Lifecycle            stages, transitions                        (constants)
  Board              orders, queue, panel requests
    OrderFlow        money over Board; implements BoardSpec
    QueueLocks       the same handlers, lock by lock
Workshop             the queue in days: calendar, capacity, promised dates
Intake               the limit of orders in work, statement by statement
Receipts             receipts, forms of the cash desk, line prices of one order
Checkout             the conversation that makes a draft
PickupSearch         lists of pickup points, page by page
OneAtATime           what the bot promises of fast taps        (abstract)
  SerialUpdates      the middleware; implements OneAtATime!Promise
Outbox               messages and their dispatcher
ReconcileBatch       which invoices a run of the reconciliation asks about
NightlyRefresh       when the directories of pickup points are refreshed
PickupSync           one carrier's directory: runs, parts, the write, imports

Counting             lemmas: what is computed step by step
BoardProofs          theorems about Board
  MoneyProofs        theorems about OrderFlow and Receipts
  TransactionProofs  theorems about QueueLocks and Intake
ConversationProofs   theorems about Checkout and SerialUpdates
WorkshopProofs       theorems about Workshop
WorkerProofs         theorems about Outbox, ReconcileBatch and NightlyRefresh
SyncProofs           theorems about PickupSync and PickupSearch

MCBoard, MCOrderFlow, MCQueueLocks, MCCheckout     instances of one component
MCPanel          Board, Workshop                   )
MCBot            OrderFlow, SerialUpdates, PickupSearch ) instances of several
MCMoney          OrderFlow, Receipts               ) components side by side
MCTransactions   QueueLocks, Intake                )
MCWorker         Outbox, ReconcileBatch, NightlyRefresh, PickupSync  )
```

An instance of several components has a variable `part`, chosen at the start: a
behaviour moves that component and leaves the others at rest. Their state spaces
are added, not multiplied, and each is explored as if it were alone; this is for
components that share no state in these modules. Components that do share state
are composed by EXTENDS (`OrderFlow` and `QueueLocks` over `Board`).

### Board

`status`, `paidAt`, `qpos` are the columns of `orders` (`qpos = 0` is NULL);
`panel[a]` is what panel session `a` has loaded, or `Idle`. Two sorts of handler:

* Locked ones (`Submit`, `MarkPaid`, `Revive`, `CancelUnpaid`, `OwnerCancel`)
  lock the row with `populate_existing`, so they act on fresh values: one step.
  A draft is not locked, but only its customer's session touches it, and that
  is serial.
* Panel requests (`LoadCard`, then `SetStatus`, `MarkArrived` or `MoveCard`) are
  two steps; the second decides by what the first has loaded. `Written` is the
  identity map: an attribute goes to the table only if the handler changed it
  from its loaded value.

`ChangeStatus` is all of `change_status`: the transition, the payment, the
place given or taken away, and the constraints of the table as guards (a
violated one rolls the step back). `GiveUp` stands for every refusal, `Restart`
for a restart of the web process.

A panel session is a sequence of requests; a handler that locks (the owner's
cancel) is a step of a session that has nothing else in flight. Concurrency of
requests is the number of sessions.

### OrderFlow

Adds the payments, refunds and receipts, `charged` (Robokassa has taken the
money: external), `asking` (a pay link request has read the order and not yet
created its attempt; at most one per order) and `mode` (provider and contour).
`Confirm` has one disjunct for each way a confirmation can end:

| disjunct | code |
|---|---|
| `ConfirmPending` | pending attempt, mark_paid |
| `LateRevives` | closed attempt of an expired order: it comes back |
| `LateRefunded` | closed attempt of an unpaid order that cannot come back |
| `LateDuplicate` | closed attempt of an order another attempt has paid |
| (no step) | recorded already; refused; a constraint violated: rolled back |

`ResultUrl`, `Reconcile` and `StubConfirm` call it under their own guards. Every
handler is a step of `Board` together with what it does to the money. `started` is
`checkout_started_at` as far as the reconciliation tells it apart: not set, within the
window of three days, or past it. `WindowCloses` may come at any moment, and
`Reconcile` asks only before it; `ResultUrl` does not care. `Spec`
implements `BoardSpec` with the identity mapping (run `flow`, theorem
`FlowImplementsBoard`).

### QueueLocks

The handlers of `Board` once more, now as transactions that ask for their locks
one at a time (`work[t].todo`) and take effect at commit. It justifies the
atomic steps of `Board`: what was read under a lock is unchanged at commit
(`ReadsHold`); and it asks whether transactions can wait in a circle.
`Conflict` is PostgreSQL's: FOR UPDATE excludes all, a plain UPDATE and a foreign
key check go together. `BeginExpire` is FOR UPDATE SKIP LOCKED. `Kinds` selects
the handlers that run.

### Outbox

`state`, `attempts`, `wait` (time left until `next_attempt_at`, so that no clock
has to be bounded), `run` and `left` (each run of the dispatcher), `lock` (the
asyncio lock), `delivered` (how often the recipient got it) and `breaks` (how
often a run or an answer of Telegram was lost; bounded by `MaxBreaks`).
Claiming, sending and marking are separate steps and `Break` may come between
any two.

### Checkout

One customer. `conv` is the FSM state and data of the conversation (`step`, the
order it is about, the box in the making, `editing`: coming from the summary),
`db` the customer's rows (the latest order, consent, contacts, the sequences of
ids), `shop` what the owner, the carriers and the load of the shop decide.

One update of Telegram is one step, since `SerialPerUserMiddleware` serves the
updates of a user one after another. How it ends is in two operators:

* `Answer(c, d)`: the handler leaves conversation `c` and rows `d`; or the commit
  or an error of the handler's answer takes the rows back, and Redis keeps `c`.
* `AnswerOrOutage(c, d)`: in handlers that talk to Telegram after writing rows and
  before moving the conversation, `ContextMiddleware` commits on an outage: the
  rows change, the conversation does not.

A price is what it was made for and when: `priced` is the choice whose name and
price are in the row, `at` the edition of the catalogue; `quoted` is the edition of
the delivery tariff in the total, 0 if there is none. `Priceable` are the refusals
of `price_order`, `Recalculated` is `_recalculate`, with `_requote_delivery`.

`On(steps)` is the guard of a button: its own screen, and those it may lead to,
for a second tap or a next screen that was not drawn; after a refused box also
the cart's buttons, which that refusal shows.

### Workshop

`line` is the queue as a sequence of entries (boxes with and without a video, days to
make, day of the payment, promised date); `calendar` and `today` are the setting
and the clock. The functions of `core/workdays.py` are operators over recursive
functions: `BoxesOf`, `Slots` and `PlannedDays` are `_ready_dates_by_capacity`, in its
units of the least common multiple; `Refused` is the `ValidationError` of a calendar
without a working day in reach. `PayInto` fixes the promised date as `mark_paid`
does. The plan of the statistics page is not `Slots` but a loop of its own, over orders
and then boxes, with a cursor and the units used of its day: `ProductionPlan`, `PlanEntry`
and `Book` are that loop (`analytics.py:107-141`), `NextFree` reads its cursor
(`analytics.py:143`). `excused` is history: a working day passed, the owner moved cards or changed
the calendar since the date was promised.

### Intake

One client, one order. `stage[c]` is how far the transaction of `submit` has come:
each statement of `ensure_open` is a step (READ COMMITTED), so the settings may be
saved and orders may come and go between any two. `unguarded` is history: the orders
in work that did not come through the lock, which are late payments, cards put back
and customers who began while there was no limit.

### Receipts

One order with its attempts. `conf` is the configuration (contour, and the check mode
in which every paid line costs one rouble); `forms` are the pages of the cash desk the
customer has open, with or without a receipt in them; `cash` is what Robokassa did.
`LinePrice` is evaluated at the moment of use, as in the code; `attempt.amount` is
fixed at issue. `Older` gives for each number the operations Robokassa knows under it
from an older database: any sum, and a date that is early, late or unknown, "late" being
no earlier than `CLOCK_SLACK`, one hour, before the customer left for the cash desk
(`payments.py:461`), so that an operation of that hour counts as the attempt's own here
as it does there. `calls` are those whose ResultURL still comes: it carries a number and
a sum, no date, and nothing but the sum is compared (`payments.py:216`). `Mistakable` is
what no comparison of the code can tell from the attempt's own money.

### SerialUpdates and OneAtATime

`locks` is the dictionary, `users`, `holder` and `waiters` an entry of it, named after
the update that created it. A step reaches from one await to the next. `Finish`
writes `Append(seen[u], u)`: a handler's effect rests on what it read when it began, so
two handlers at once would lose one of the two. `OneAtATime` is the promise of the docstring;
`P == INSTANCE OneAtATime WITH pending <- arrived, applied <- conversation`.

### PickupSync and NightlyRefresh

A run (`job[j]`) asks part by part (`AskPart`, `AskAgain`, `SkipPart`), then reads the
clock and the count (`CountKnown`), then writes or refuses (`WritePoints`, `Suspect`);
only the last two are transactions. The three sources differ in `Takes`, `PartsAsked`,
`Yielded` and in which failures end a run. An import is `LoadForImport` and
`ImportPoints`: the session writes only what differs from what it loaded. `clock`
counts times read. `absent` and `raced` are history. `NightlyRefresh` has only the ends
of runs, and time in ticks: `IsDue` is the 6.5 days of `REFRESH_EVERY`.

### ReconcileBatch

Time is counted in runs of the task. `Candidates` is the query; `AskInvoice` is one
transaction. `spent` and `excused` are history: the runs that began while the charged
invoice was in the window, and those that found a full batch of later ones or got no
answer.

### PickupSearch

`ask` is the query, the location and the offset in the conversation, `screen` the
list, `older` the buttons of the list before it (a tap may come late). Rows with equal
keys come in any order, chosen anew by every query. `Cut` are the points which the
rectangle of a radius leaves out though they are in the circle. A steady reader is one
who turns the pages in order while the directory stays as it is.

## 3. Runs

| run | instance | shows |
|---|---|---|
| `board` (`MCPanel`) | 4 orders, 1 panel session; queue of 3 orders, 3 calendars, 3 baskets, 1 day passes | types, `QueueDense`, `LegalSteps`, `FirstComeFirstServed`; `QueueFitsDays`, `FreeSlotIsFirst`, `PlanIsTheBoards`, `LateForAReason`, `OthersDelayNobody` |
| `board_legal` | 1 order, 2 sessions | finding: `LegalSteps` fails |
| `board_dense` | 2 orders, 2 sessions | finding: `QueueDense` fails |
| `flow` (`MCMoney`) | 2 orders, 3 attempts, 1 session, {stub, prod}, 2 switches; receipts: 1 order of 3 kinds, 2 attempts, 2 turns of the configuration | `WorkHasMoney`, `WorkNotRefunded`, refinement of `BoardSpec`; `ReportedOnce`, `LinesMakeAmount`, `MoneyIsOurs` |
| `live` (`MCBot`) | 1 order, 2 attempts, 2 sessions, {test, prod}, 1 switch, fairness; 4 updates of 2 users; 4 points, pages of 2 | `MoneyAccounted`, `WorkIsPaid`, `ChargeRecorded`, `WaitingEnds`; `OneEntryWhileBusy`, `OneByOne`; `PagesCover`, `NearestListed` |
| `lost` | 1 order, 3 attempts, {test, prod}, 2 switches, fairness | finding: `ChargeRecorded` fails |
| `stub` | 1 order, 2 attempts, stub | finding: `MoneyAccounted` fails |
| `locks` (`MCTransactions`) | 3 orders, 2 transactions, 1 session, all handlers but drags inside the queue; 3 customers, limits 0 to 2 | `ReadsHold`, `OrderlyKindsNeverCircle`; `IntakeOK`, `PlaceSoldOnce` |
| `locks_cycle` | 3 orders, 2 transactions: payment and owner's cancel | finding: `NoCircularWait` fails |
| `checkout` | 1 product in 2 sizes, 2 drafts, 2 boxes, 1 upset | `TotalAddsUp`, `PlacedAsOffered`, `OneBoxPerPass`, `StaleChangesNothing` |
| `checkout_edit` | 2 products, 1 draft, 2 boxes, 1 upset | finding: `BoxesPricedAsChosen` fails |
| `outbox` (`MCWorker`) | 2 messages, 2 dispatchers, 3 attempts, 2 breaks, fairness; 3 invoices, batches of 2; 2 carriers, days of 4 ticks; 2 points, 2 parts, 2 runs | `NoSpuriousDuplicate`, `AttemptsBounded`, `FreshInOrder`, `Settled`; `UnrecordedForAReason`; `WeekOldAtMost`; types of a directory (`SyncOK`), `CleanDateHolds`, `OffForAReason` |

Why the bounds are enough. Four orders make a queue with an inside, so a gap,
a double and an overtaking can all occur away from the ends. Two panel sessions
are what a stale view needs: one that loaded, one that wrote since. In `flow` and
`lost` three attempts are a payment, a duplicate and one replaced by a change of
contour, and two switches leave a contour and come back, which is what reopens
the old page's signature; `live` has one switch, after which an order can have
one charged attempt that is late and one that is not. With two transactions
and one session on three orders a circle of two or three waits can form
(`locks_cycle` shows one); `OrderlyKindsNeverCircle` is about circles of any
length among those. In `checkout` a second draft is what an old conversation can
be mistaken about, a second box is what makes an order unpriceable while the
other is edited, and one upset (a failed update, or a change of catalogue, prices,
carriers or intake) is one surprise at any point of the conversation; two in one
conversation are not explored. A lease of 2 units lets a run outlast it; three
attempts let a message be retried twice, and two breaks cut a run and lose an answer.

In `Workshop` a queue of three has an order before and one behind the order that is
looked at; the calendars have one, three and five working days a week and capacities
whose least common multiples differ from both limits; the look-ahead of 10 days is
shorter than the days off of one calendar, so refusals occur. In `Intake` three
customers and limits up to two let one be in work, one be counting and one arrive. In
`Receipts` two attempts are a payment and its duplicate, two turns switch a mode on and
off again; older operations are all kinds the code can tell from the attempt's own and,
for the second attempt, some it cannot where the amount is small; the orders have a free line, no free line, and two lines of a rouble (where
the check mode changes nothing). In `SerialUpdates` three updates of one user are a
holder, one that waits and one that comes as the entry is dropped. In `ReconcileBatch`
three invoices exceed a batch of two. In `PickupSync` one point of two is on the border
of both parts, half of the directory is one point, and two runs overlap in all ways. In
`NightlyRefresh` 26 ticks of 4 a day are 6.5 days. In `PickupSearch` four points make
two pages, and a tie.

Symmetry is used only in runs without liveness: for orders, sessions,
transactions and customers in the runs of `Board`, `QueueLocks` and `Intake`, for the
two sizes in `checkout`, as no definition tells one from the other.

Fairness. `FairSpec` of `OrderFlow` asks that the expiry task and the
reconciliation are not put off for ever: both are on the worker's schedule.
The reconciliation is fair to an invoice only as long as its window is open, and
nothing keeps the window open. Nothing is asked of customers, the owner, webhooks or
Robokassa. `FairSpec` of
`Outbox` asks that time passes, that a free lock is taken by some run (the task
comes every minute) and that a run under way goes on; a delivery may fail every
time. `SerialSpec` asks that the event loop wakes the first in line at a free lock and
that a handler ends, by itself or by an error (its requests have timeouts); a handler
that fails every time satisfies it. Instances of several components state the
fairness of each for the behaviours of that component.

Deadlock checking stays on in every run but `flow`: the panel can always load another
card, the worker can always start, so a state without successors would be a mistake.
In `flow` it is off for `Receipts`: an order whose attempts are used up and settled has
nothing left to happen to it.

## 4. Findings

1. *A stale card move revives a cancelled order* (`board_legal`). Session A loads
   a card; B cancels the order, a refund is asked for; A's write checks the
   transition against the stage it loaded and puts the order back to work.
2. *A stale card move loses a place* (`board_dense`). A session loads an order in a
   queue stage; another takes it out (in the trace by the owner's cancel, a second card
   move does the same), then the first moves it within the queue: `was_queued`
   is computed from the loaded stage, the order is in the queue without a place.
3. *A second late payment is refused for ever* (`lost`). Two charged attempts of a
   cancelled order, possible after a change of contour: the first late one
   becomes the paid attempt of an order whose `paid_at` stays empty; the second
   runs into `uq_payments_paid_order` at every retry.
4. *Half a confirmation is committed* (`stub`). The stub's page catches the refusal
   and answers with a page, so the transaction commits.
5. *Circular waits* (`locks_cycle`). A payment holds the queue lock and waits for a
   queued row; the owner's cancel holds that row and waits for the queue lock.
   PostgreSQL breaks the circle, the comment of `orders.lock` says there is none.
   A reissued link and a customer's cancel can meet the same way: one holds the
   payment and needs the order's key, the other the reverse.

6. *A refused edit is half committed* (`checkout_edit`). A box is edited while
   another box of the order cannot be priced any more: `save_box` writes the new
   choice, the recalculation of the whole order raises, the bot shows the refusal
   and the update is committed. The cart then shows the old name, price and
   video, the row holds the new product. `PlacedAsOffered` shows that such a box is
   priced again before it is paid for. Two neighbours of this finding are in the
   model without a property: a box that is being *added* in that situation has no id
   yet, so drawing the cart fails and the update is rolled back; and with two
   boxes that cannot be priced neither can be removed, because each removal
   recalculates the other.

Further disagreements, met while modelling, which no run shows as a violation; the
properties state what is true instead:

* *A form of the cash desk outlives its setting.* `receipt_sent` is overwritten at every
  way to the cash desk (`payments.py:473`) while older forms stay open. A customer who pays
  on an older form than the last is reported twice or never. `ReportedOnce` is about
  attempts whose forms agree.
* *The amount is not looked at on the way to the cash desk.* `/pay/{token}/go` compares the
  contour only: an attempt issued while every line cost one rouble stays payable at
  that sum after the check mode is off.
* *The owner's link goes to the latest payment* (`receipts.py:179`), which may be a
  duplicate to be returned; the receipt she was asked for stays pending. `ReportedOnce`
  takes the link to settle orders with one payment only.
* *Lead days are promised, not shown.* The summary before the payment gives the ready
  date without `extra_lead_days` (`checkout.py:1325`), the date fixed at the payment has them.
* *"No exact address" on a later page.* Whether a query has an exact match is decided by
  the page being empty (`delivery.py:167`): a directory that shrank between two pages, or
  a late tap on a button of the query before, makes the bot say that nothing has
  the address. `PagesCover` is about readers of a directory that stays.
* *Ties between pages.* Rows are ordered by city and address; points of two carriers in
  one house may change places between two queries, so one is shown twice and the
  other never. `PagesCover` leaves them out.
* *An empty source is a success the first time*: with no point known, half of the known
  is zero, and the date of the update is set.
* *An import beside a sync* leaves points on that neither the file nor a later answer
  has (rows loaded before the sync committed). `CleanDateHolds` exempts it.
* *Three days, then nobody asks.* The project's README says of the reconciliation that a
  payment is not lost when its notification does not come (`README.md:264-266`). An invoice
  is asked about for three days after the customer left for the cash desk
  (`payments.py:357`), and only if it is among the 100 latest: a charge on a page kept open longer, or
  one the outage outlasts, is never on record if its notification is lost.
  `ChargeRecorded` ends with the window.
* *An hour for the clocks.* The docstring of `is_same_operation` says that an operation of
  somebody else is older than the way to the cash desk or smaller
  (`payments.py:455`). An older one of the hour before (`CLOCK_SLACK`) for enough money is
  taken for the attempt's own, and a late notification of an older operation for the same
  sum always is, as it has no date. `MoneyIsOurs` excepts exactly these (`Mistakable`).
* *The cancel button does not look.* The docstring of the conversation says of every button
  that it first checks that the draft it is about is still the present one
  (`bot/handlers/checkout.py:7`). The cancel button of the summary and `/cancel`
  (`checkout.py:1435`, `1489`) delete whatever draft the customer has: an old one deletes
  a draft begun since. `StaleChangesNothing` names it as an exception, beside the worker
  that deletes old drafts, and consent and "start anew", which put a new draft
  in the place of the present one.
* *Ready by the plan, not by the term.* The plan of the statistics page lists an order as
  ready on the day of its last box (`analytics.py:131`; `analytics.py:48`: «Заказы, которые в этот
  день будут готовы»), without `earliest_ready`: an order that takes two days to make may be
  listed a day before the date on its card. `PlanIsTheBoards` takes the later of the two.
* *A region without a name.* `ozon_rows` passes over a region of OpenStreetMap that has no name and
  does not count it as failed (`pickup_sync.py:464`): points that lie in such a region
  only would be switched off as gone. The assumption of `PickupSync` that each point lies in
  some part that is asked excludes it.
* *The lock of the intake is held while Telegram is answered*, since it belongs to the
  transaction of the update.

## 5. Proofs

Each theorem holds for every value of the constants its assumptions allow: any finite set
of orders, customers or points, any number of sessions, attempts, updates, transactions or
runs. All safety properties of the passing runs are proved; what remains with TLC is at the
end of this section.

### The board, money and receipts (`BoardProofs`, `MoneyProofs`)

| theorem | says | argument |
|---|---|---|
| `BoardTypes` | `[]TypeOK` | inductive; places are natural because the highest taken place exists (`MaxOfPlaces`, by well-foundedness of finite subsets) and ranks are cardinalities |
| `BoardWorkIsPaid` | `[]WorkIsPaid` | with `PanelKnowsPaid`: what a stale session believes about payment stays true, since `paid_at` is never taken back |
| `BoardQueueDense` | `[]QueueDense`, one session | `OneSessionInv`: with one session the card it has loaded is as it stands, or is that of an unpaid order that waits or is called off, which no move of the panel can take up (`ViewHolds`); an order that leaves closes the gap and one that comes gets N + 1 (`ChangeStatusDense`), a drag renumbers (`MoveCardDense`) |
| `BoardLegalSteps` | `LegalSteps`, one session | from `ViewHolds`: the stage the transition was checked against is the one in the table |
| `BoardFirstComeFirstServed` | `FirstComeFirstServed`, one session | the same, with `NobodyOvertakes` of each way to change the queue but the owner's sorting |
| `FlowImplementsBoard` | `Spec => BoardSpec` | action by action |
| `FlowTypes` | `[]FlowTypeOK` | inductive, over `TypeStep` and the refinement |
| `FlowWorkHasMoney` | `[]WorkHasMoney` | with `PaidByOne`: the flag on the order and the successful attempt are written together and never withdrawn; plus `PaidInv` |
| `FlowWorkNotRefunded` | `[]WorkNotRefunded`, one session | a refund is recorded against a payment that succeeded (`RefundsRecorded`), and an order that waits has none (`WaitingUnpaid`), so an order comes into work with a payment nobody has asked back |
| `FlowMoneyAccounted` | `[]MoneyAccounted` if the stub is not configured | with `PanelNoDraft`: a panel request that is no cancel never takes an order out of work, so only a cancel can, and it asks for the refund |
| `ReceiptsMoneyIsOurs` | `[]MoneyIsOurs` | by each way money gets on record: an answer about an older operation passes `IsSameOperation`, or an old notification the check of the sum, only if it is `Mistakable` |
| `ReceiptsReportedOnce` | `[]ReportedOnce` | the form the database remembers is one of those given (`FormKnown`), Robokassa took one of those given, and there was one; a receipt is only made with money (`NoMoney`) |
| `ReceiptsLinesMakeAmount` | `[]LinesMakeAmount` | the sum of the costing lines is the sum of all (`SumOfCosting`), line by line; in the check mode both are a rouble for each costing line |

Assumed: `OrdersAssumption`, `IdleAssumption`, `PaymentsAssumption`, `ModesAssumption`,
`SwitchesAssumption`; for `Receipts` `TriesAssumption`, `OlderAssumption` (any
set of older operations for each number), `BasketsAssumption`,
`RoubleAssumption`. "One session" is the hypothesis `OneSession` (any two members of
`Admins` are the same): the owner with one page open. It cannot be dropped, findings 1 and 2
are its counterexamples for `LegalSteps` and `QueueDense`, and `WorkNotRefunded` falls with
them. The theorems without it hold for any number of sessions.

`WorkIsPaid` is not inductive: nothing in it says that a stage carried by a
request in flight was backed by money. `WorkHasMoney` needs the link from
`paid_at` to a row of `payments`, `MoneyAccounted` both. The hypothesis of
`FlowMoneyAccounted` cannot be dropped: finding 4 is its counterexample.
`PendingNeverPaysTwice` is the reason `ConfirmPending` has no branch for an order
that is paid already: there the unique index refuses.

### Transactions (`TransactionProofs`)

| theorem | says | argument |
|---|---|---|
| `LocksReadsHold` | `[]ReadsHold` | `LocksInv`: locks of two transactions do not conflict (`Exclusive`), and what a transaction has read is locked by it and is what the table holds (`Sound`); so a commit of another one cannot have touched it, one lemma for each kind of handler |
| `LocksOrderlyNeverCircle` | `[]OrderlyKindsNeverCircle` | `OrderlyInv`: the handlers it is about take their locks along one order (`InOrder`): a payment after its row, a row first of all or under the queue and then that of a paid order; and who waits for the queue has locked rows of unpaid orders alone, so whoever has the queue waits for none of these |
| `CountUnderLockHolds` | `[]IntakeInv` | the lock has one holder, its stage says how far it has come, and what it has counted holds: every step of anybody else leaves the orders that came through the lock the same or fewer (`FewerStillFit`, over cardinalities of finite sets) |
| `SoldOnce` | `PlaceSoldOnce` | only `CommitOrder` takes an order out of the drafts (`OnlyCommitPlaces`); it adds one to a count that was below the limit |
| `IntakeTyped` | `[]IntakeOK` | the same invariant, with the settings and the history |

`LocksReadsHold` is what makes a locked handler one step in `Board`. Both theorems about
locks hold for any set of transactions and any choice of `Kinds`; the kinds that may meet in
a circle (finding 5) are those `OrderlyKinds` leaves out. Assumed: `KindsAssumption`,
`TasksAssumption`, `WorkAssumption` and those of `Board`; for `Intake` any finite set of
customers, any set of limits that contains "none", and settings saved at any moment
(`ClientsAssumption`, `LimitsAssumption`, `DatesAssumption`). `PlaceSoldOnce` alone is not
inductive, as it says nothing of a transaction that has counted and not yet committed: that
is `CountHolds`.

### The conversation (`ConversationProofs`)

| theorem | says | argument |
|---|---|---|
| `CheckoutAddsUp` | `[]TotalAddsUp` | `CheckoutInv`: the rows have their fields (so that a write to one leaves the others) and add up; one lemma for each handler that writes rows, over `RecalculatedSound` and `RequotedSound` |
| `CheckoutPlacesAsOffered` | `PlacedAsOffered` | only `Pay` places an order, and it recalculates it in the same step; whatever older prices or half-done edits the draft holds, `RecalculatedSound` gives present ones |
| `CheckoutTypes` | `[]CheckoutOK` | with `CheckoutInv`; one closure lemma for the screens (`Screens`), one for each handler that writes rows |
| `CheckoutStaleChangesNothing` | `StaleChangesNothing` | every handler that changes the rows of an order tests `Current`, but those the property names; one that begins a draft counts the sequence on, which is never rolled back, so no order is mistaken for an earlier one |
| `CheckoutOneBoxPerPass` | `OneBoxPerPass` | `Touched`: of all handlers only `FinishBox` adds a box, and its next screen is drawn for a conversation without one |
| `SerialOneEntryWhileBusy` | `[]OneEntryWhileBusy` | `SerialInv`: the entry of a user holds exactly the updates that have arrived, holder first, in order (`Served`); an entry nobody is at is empty and out of the dictionary (`Vacant`) |
| `SerialAppliesInOrder` | the safety part of `OneAtATime!Promise` | from `SerialInv`: the holder is the oldest update and has read the conversation as it still is, so `Finish` is `Apply`; failing and being cancelled are `Drop`, a restart `DropAll` |

`CheckoutAddsUp` and `CheckoutPlacesAsOffered` hold for every menu and every bound
and use no assumption on the constants; those that need the conversation assume that
the bounds are numbers and that a box of the menu has a product and a count
(`BoundsAssumption`, `MenuAssumption`). The last two assume only that the updates
are finitely many and each has a user (`UpdatesAssumption`).

### The workshop (`WorkshopProofs`)

| theorem | says | argument |
|---|---|---|
| `WorkshopQueueFitsDays` | `[]QueueFitsDays` | box by box: a day never gets more than its units, and a box goes to the next working day only if it does not fit (`PlacesAre`) |
| `WorkshopOthersDelayNobody` | `OthersDelayNobody` | two queues are compared box by box: `NotAfter` orders places on a row of working days and is kept by every next box (`NotAfterKept`), so a queue without an order is nowhere later |
| `WorkshopLateForAReason` | `[]LateForAReason` | `WorkshopInv`: each order that is not excused keeps the date it was promised; by the theorem before, neither a payment nor one that leaves moves it back |
| `WorkshopPlanIsTheBoards` | `[]PlanIsTheBoards` | after each box the loop of the plan stands where `Slots` has put that box (`BookReached`, `EntryReached`, `PlanReached`), by counting over the boxes of an order and then over the orders; one more box goes where the box after the last one goes (`OneBoxNext`) |
| `WorkshopFreeSlotIsFirst` | `[]FreeSlotIsFirst` | over the ready dates in order (`SortedIs`): as many orders as have to leave are ready before a day exactly if the date at that place is before it (`ReadyBefore`) |

They hold for every queue, every mixture of boxes with and without a video and every
calendar with a capacity (`CalendarsAssumption`, `BasketsAssumption`,
`LookaheadAssumption`). `LateForAReason` is not inductive: it says which orders are late,
and not that those that are not keep their date as others come and go.

### The worker and the directories (`WorkerProofs`, `SyncProofs`)

| theorem | says | argument |
|---|---|---|
| `NeverTwiceForNothing` | `[]NoSpuriousDuplicate` | only the holder of `_lock` has a message in hand (`OneHolder`), so no lease that runs out lets another take it; a message still to be tried was delivered at most as often as something broke (`DeliveriesLost`) |
| `AttemptsEnd` | `[]AttemptsBounded` | a message that is not in hand has an attempt left, or a run was cut short (`AttemptsLeft`) |
| `FirstTriedInOrder` | `FreshInOrder` | only an attempt makes a message wait (`WaitsTried`), so one that was never tried is due and its id is the lower one |
| `MessagesTypes` | `[]MessagesOK` | with `Waiting`; the delay after any number of attempts is a number (`RetryDelay`, doubled step by step) |
| `BatchUnrecordedForAReason` | `[]UnrecordedForAReason` | `BatchInv`: the runs spent are those excused and the one whose turn is still to come (`TurnsCounted`); an invoice that is not among the candidates is crowded out by a full batch of later ones (`CandidatesListed`) |
| `NightWeekOldAtMost` | `[]WeekOldAtMost`, if `REFRESH_EVERY` and the night's task are less than a week | `NightInv`: how old a directory is follows from the nights since (`NightsSince`): each was lost, or the directory was not yet due |
| `SyncTypes` | `[]SyncOK` | with `Dated`: a point that is not in the directory has no date |
| `SyncOffForAReason` | `OffForAReason` | of each part that has answered, a run knows every point, or that it is not there (`Answered`); the count it compares with is that of the table unless another wrote since (`HasRead`) |
| `SyncDateHolds` | `[]CleanDateHolds` | the times of two transactions differ (`Times`), and a clean run has stamped every point it left on |
| `SearchNearestListed` | `[]NearestListed` | by the order the query asks for: a point left out comes after those listed, or its circle was not reached, or a rectangle cut it off |
| `SearchPagesCover` | `[]PagesCover` | `PagesInv`: a page is a stretch of an ordering of the matches (`PageHolds`), and what a steady reader has read begins one; on the last page it is all of one |

The theorems about `Outbox` assume nothing of the lease, the delays and the batch but that
they are numbers; but for `MessagesTypes` the delays' values play no part, only whether time
is left. `BatchUnrecordedForAReason` holds for any number of invoices, any batch and any
window (`InvoicesAssumption`). `NightWeekOldAtMost` holds for any list of carriers and any
length of a day (`CarriersAssumption`, `NightsAssumption`); its hypothesis is that of the
schedule: 6.5 days, and a task that ends within twelve hours.
`PickupSync` has any finite set of points divided in any way into the parts of a source,
with at least one part and every point in some part (`SyncAssumption`); `PickupSearch` any
directory, circles, queries and size of a page (`SpotsAssumption`, `RadiiAssumption`,
`QueriesAssumption`, `PageAssumption`).

### How loops are proved about

The library's induction theorems take an operator as a parameter, which the provers cannot
instantiate. `Counting` does without: if a set of numbers contains 0, and with each number
the next, it contains all up to N, since otherwise the ones it misses are a finite set with
a least element (`CountingUp`; `StepByStep` and `AllAlong` say the same of sequences). So a
loop of the code that is proved about is a recursive function here (`Costing`, `SumOf`,
`Sorted`, `RetryDelay`, `Slots`) and not a fold or a power, which the provers cannot expand.

### Only model-checked

Liveness, which is out of the prover's reach: `ChargeRecorded`, `WaitingEnds`, `Settled`
and the liveness half of `OneByOne`. Of the runs that expect a violation
nothing is proved, naturally.

## 6. Abstractions

* Time is not modelled in `OrderFlow`: a deadline may pass at any moment while an
  order waits. In particular no run depends on the length of the deadline or of the
  reconciliation's window, which may close at any moment. Within the window an invoice is
  taken to be asked about in the end: when the limit of 100 rows prevents that is
  `ReconcileBatch`.
* The amount of an order is constant from submit on, so an attempt is current if
  its contour is. A test amount in the settings is in `Receipts` only.
* `payments.status = FAILED` does not occur: `fail_payment` has no caller.
* Changing the contour restarts all containers, so requests in flight die.
* `GoToRobokassa` reads the order and writes one column without a lock; it is one
  step because that column is not read by the handlers it could race with, only
  by `Charge` and the reconciliation.
* Drafts are not deleted, and the panel neither lists nor moves them.
* `Expire` treats one order per step; the task's batch is `BeginExpire` in `QueueLocks`.
* Texts, amounts and addresses are left out except where a module is about them;
  `Checkout` keeps of prices only
  what they were calculated for and when.
* In `Checkout` the wishes of a box, the search for a pickup point (it is
  `PickupSearch`) and the choice between carriers are left out, as they change no other row; so are buttons of
  messages older than the previous screen, and a product deleted between drawing
  and pressing its button ends in an error that changes nothing. The phone is
  always given before the email. Payment and everything after it is `OrderFlow`.
* That updates of one customer are served one after another, as `Checkout` takes it,
  is `OneByOne` of `SerialUpdates`, for one process of the bot.
* `Workshop` reads the queue as `Board` leaves it (1..N without holes) and has no
  calendar without a capacity, which the settings cannot hold. Every order has a box; the
  plan of the statistics page is taken without its calendar of 35 days, in which days after them
  are not shown.
* `Receipts` and `Intake` have one order per customer and take from `OrderFlow` which
  attempts may be confirmed; in `Receipts` a request is one step.
* `PickupSync` keeps of a source's answer what decides about a row. A source may say
  anything of a point, and something else a minute later. The transaction that writes
  is one step: two on the same rows wait for each other or one is rolled back.
* In `PickupSearch` a match of words is a set, a distance a number; parsing is left out.

Not modelled: shipments (texts for the owner), panel login and sessions (a counter in
Redis), texts, keyboards and templates, sums on the statistics pages, set-up and
migrations. The reasons are in `PROJECT.json`.

## 7. Plan

Done: all modules of section 2, and a theorem for every safety property that holds.

Next, in this order:

1. `Intake` over `OrderFlow`, so that late payments come from the handlers that make them.
2. The messages of one conversation (`bot/ui.py`): one message with buttons, whatever
   Telegram refuses.
3. The catalogue's deletions beside drafts.
4. Proofs: which of two sessions' moves keep the queue dense, in place of one session.
