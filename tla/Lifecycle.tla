----------------------------- MODULE Lifecycle -----------------------------
(***************************************************************************)
(* The stages of an order and the transitions between them (core/enums.py). *)
(* Constant-level: every module about orders extends it.                    *)
(***************************************************************************)

\* Stages an order is in before any money has been recorded for it, or after
\* it has been called off.
OrderStatus == {"draft", "waiting_payment", "queued", "assembling", "ready",
                "shipped", "arrived", "completed", "cancelled"}

\* Stages in which an order occupies a place in the assembly queue.
QueueStatuses == {"queued", "assembling"}

\* The columns of the panel's board, which are also the stages that count as
\* accepted work: BOARD_STATUSES and PAID_STATUSES hold the same six members.
PaidStatuses == QueueStatuses \cup {"ready", "shipped", "arrived", "completed"}

\* ALLOWED_TRANSITIONS: the stages reachable from a stage.
AllowedTransitions ==
    [s \in OrderStatus |->
        CASE s = "draft"           -> {"waiting_payment", "cancelled"}
          [] s = "waiting_payment" -> {"queued", "cancelled"}
          [] s = "queued"          -> {"assembling", "cancelled"}
          [] s = "assembling"      -> {"queued", "ready", "cancelled"}
          [] s = "ready"           -> {"assembling", "shipped", "cancelled"}
          [] s = "shipped"         -> {"ready", "arrived", "completed", "cancelled"}
          [] s = "arrived"         -> {"shipped", "completed", "cancelled"}
          [] s = "completed"       -> {"arrived", "shipped"}
          [] s = "cancelled"       -> {}]

=============================================================================
