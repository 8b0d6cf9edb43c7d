----------------------------- MODULE OneAtATime -----------------------------
(***************************************************************************)
(* What the bot promises a customer who taps fast (the docstring of          *)
(* bot/middlewares/serial.py): updates of one user are applied one by one,   *)
(* in the order in which they came, each to what the one before has left;    *)
(* different users do not wait for each other. How that is done is left      *)
(* open: module SerialUpdates implements it.                                 *)
(***************************************************************************)
EXTENDS Sequences, SequencesExt

CONSTANTS
    Users,
    Updates,
    UserOf          \* whose update it is

VARIABLES
    pending,        \* per user: updates received and not yet over, in order
    applied         \* per user: updates whose effect is in the conversation

promiseVars == <<pending, applied>>

PromiseInit ==
    /\ pending = [x \in Users |-> <<>>]
    /\ applied = [x \in Users |-> <<>>]

Receive(u) ==
    /\ \A x \in Users : u \notin ToSet(pending[x]) \cup ToSet(applied[x])
    /\ pending' = [pending EXCEPT ![UserOf[u]] = Append(@, u)]
    /\ UNCHANGED applied

\* The oldest update takes effect, on top of all that came before.
Apply(x) ==
    /\ pending[x] # <<>>
    /\ applied' = [applied EXCEPT ![x] = Append(@, Head(pending[x]))]
    /\ pending' = [pending EXCEPT ![x] = Tail(@)]

\* An update fails or is cancelled: no effect, the rest keeps its order.
Drop(x) ==
    /\ \E u \in ToSet(pending[x]) : pending' = [pending EXCEPT ![x] = RemoveFirst(@, u)]
    /\ UNCHANGED applied

\* All of them are lost with the process.
DropAll ==
    /\ pending' = [x \in Users |-> <<>>]
    /\ UNCHANGED applied

PromiseNext ==
    \/ \E u \in Updates : Receive(u)
    \/ \E x \in Users : Apply(x) \/ Drop(x)
    \/ DropAll

\* Somebody who waits is served.
Promise ==
    /\ PromiseInit /\ [][PromiseNext]_promiseVars
    /\ \A x \in Users : (pending[x] # <<>>) ~> (pending[x] = <<>>)
=============================================================================
