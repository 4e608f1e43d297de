------------------------------ MODULE Statuses ------------------------------
(***************************************************************************)
(* The status enumerations of the backend and the transition tables that   *)
(* every service consults before it changes one                            *)
(* (backend/internal/domain/statemachine.go).  The tables are relations:   *)
(* <<from, to>> is a member exactly when the Validate...Transition function *)
(* of that entity returns nil.                                             *)
(***************************************************************************)

SessionStatus ==
  {"active", "payment_pending", "awaiting_reactivation",
   "closed", "abandoned", "expired"}

PaymentStatus ==
  {"pending", "requested", "provider_pending", "requires_staff_confirmation",
   "completed", "failed", "cancelled", "refunded", "partially_refunded"}

IsSessionTerminal(s) == s \in {"closed", "abandoned", "expired"}

IsSessionCartFrozen(s) == s = "payment_pending"

\* The statuses isTerminalPaymentStatus accepts; their complement is what the
\* partial unique index of migration 40 covers.
IsTerminalPayment(s) ==
  s \in {"completed", "failed", "cancelled", "refunded", "partially_refunded"}

-----------------------------------------------------------------------------

From(s, targets) == {s} \X targets

SessionTransitions ==
  From("active", SessionStatus \ {"active"})
    \cup From("payment_pending", SessionStatus \ {"payment_pending"})
    \cup From("awaiting_reactivation", SessionStatus \ {"awaiting_reactivation"})

PaymentTransitions ==
  From("pending", {"completed", "failed", "provider_pending",
                   "requires_staff_confirmation"})
    \cup From("requested", {"provider_pending", "requires_staff_confirmation",
                            "cancelled", "failed"})
    \cup From("provider_pending", {"completed", "failed", "cancelled"})
    \cup From("requires_staff_confirmation", {"completed", "failed", "cancelled"})
    \cup From("completed", {"refunded", "partially_refunded"})
    \cup From("partially_refunded", {"refunded"})
    \cup From("failed", {"pending", "requested"})

=============================================================================
