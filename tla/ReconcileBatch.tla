--------------------------- MODULE ReconcileBatch ---------------------------
(***************************************************************************)
(* Which invoices a run of the reconciliation asks Robokassa about           *)
(* (payments.payments_to_reconcile, worker/tasks/payments.py): those of the   *)
(* last three days that are not on record, the latest first, a hundred at    *)
(* most. Module OrderFlow has what follows from an answer, and lets the       *)
(* window of an invoice close on money not yet on record at any moment; here  *)
(* is what that takes.                                                       *)
(***************************************************************************)
EXTENDS Naturals, Sequences, FiniteSets

CONSTANTS
    Invoices,       \* a number n: invoices 1..n in the order of checkout_started_at
    Limit,          \* of one run: 100
    After,          \* RECONCILE_AFTER, in runs of the task
    Window          \* RECONCILE_WINDOW, in runs of the task

ASSUME InvoicesAssumption == Invoices \in Nat /\ Limit \in Nat \ {0} /\ After < Window

VARIABLES
    since,          \* per invoice: runs since checkout_started_at
    money,          \* per invoice: unstarted, open, charged or recorded
    batch,          \* the invoices the run has yet to ask about
    spent,          \* history, per charged invoice: runs within the window since then
    excused         \* history: those of them that could not help it

batchVars == <<since, money, batch, spent, excused>>

Invoice == 1..Invoices

BatchInit ==
    /\ since = [i \in Invoice |-> 0]
    /\ money = [i \in Invoice |-> "unstarted"]
    /\ batch = <<>>
    /\ spent = [i \in Invoice |-> 0]
    /\ excused = [i \in Invoice |-> 0]

\* The customer goes to Robokassa, pays there or not, and the ResultURL comes or not.
StartCheckout(i) ==
    /\ money[i] = "unstarted" /\ \A j \in 1..(i - 1) : money[j] # "unstarted"
    /\ money' = [money EXCEPT ![i] = "open"]
    /\ UNCHANGED <<since, batch, spent, excused>>

ChargeInvoice(i) ==
    /\ money[i] = "open"
    /\ money' = [money EXCEPT ![i] = "charged"]
    /\ UNCHANGED <<since, batch, spent, excused>>

Notified(i) ==
    /\ money[i] = "charged"
    /\ money' = [money EXCEPT ![i] = "recorded"]
    /\ UNCHANGED <<since, batch, spent, excused>>

Asked == {i \in Invoice : money[i] \in {"open", "charged"} /\ since[i] > After /\ since[i] < Window}

\* Mutant of Candidates: the oldest first.
OldestFirst ==
    LET first == {i \in Asked : Cardinality({j \in Asked : j < i}) < Limit}
    IN [k \in 1..Cardinality(first) |->
            CHOOSE i \in first : Cardinality({j \in first : j <= i}) = k]

\* payments_to_reconcile: the latest first.
Candidates ==
    LET first == {i \in Asked : Cardinality({j \in Asked : j > i}) < Limit}
    IN [k \in 1..Cardinality(first) |->
            CHOOSE i \in first : Cardinality({j \in first : j >= i}) = k]

Charged == {i \in Invoice : money[i] = "charged"}

Crowded(i) == Cardinality({j \in Asked : j > i}) >= Limit

\* The task begins. For the properties: a run within the window is spent on every charged
\* invoice, and excused if as many as the limit are later than it.
BeginBatch ==
    /\ batch = <<>>
    /\ batch' = Candidates
    /\ since' = [i \in Invoice |->
            IF money[i] = "unstarted" \/ since[i] > Window THEN since[i] ELSE since[i] + 1]
    /\ spent' = [i \in Invoice |-> IF i \in Charged \cap Asked THEN spent[i] + 1 ELSE spent[i]]
    /\ excused' = [i \in Invoice |->
            IF i \in Charged \cap Asked /\ Crowded(i) THEN excused[i] + 1 ELSE excused[i]]
    /\ UNCHANGED money

\* One invoice, in a transaction of its own: Robokassa says it is paid and that goes on
\* record, says it is not, or does not answer; then the next.
AskInvoice ==
    LET i == Head(batch)
    IN /\ batch # <<>>
       /\ batch' = Tail(batch)
       /\ \/ /\ money[i] = "charged"
             /\ money' = [money EXCEPT ![i] = "recorded"]
             /\ UNCHANGED excused
          \/ /\ money[i] # "charged"
             /\ UNCHANGED <<money, excused>>
          \/ /\ money[i] = "charged"
             /\ excused' = [excused EXCEPT ![i] = IF spent[i] > 0 THEN @ + 1 ELSE @]
             /\ UNCHANGED money
       /\ UNCHANGED <<since, spent>>

BatchNext ==
    \/ \E i \in Invoice : StartCheckout(i) \/ ChargeInvoice(i) \/ Notified(i)
    \/ BeginBatch \/ AskInvoice

BatchSpec == BatchInit /\ [][BatchNext]_batchVars

\* Money Robokassa took stays off the record only for a reason: of the runs that began since
\* then and within three days of the way to the cash desk, each found a full batch of later
\* invoices, or got no answer about this one: older invoices nobody paid never crowd out a
\* new one, and no answer about one invoice does not cost another its turn.
UnrecordedForAReason ==
    batch = <<>> => \A i \in Charged : excused[i] = spent[i]
=============================================================================
