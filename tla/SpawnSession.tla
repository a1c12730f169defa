---------------------------- MODULE SpawnSession ----------------------------
(***************************************************************************)
(* The spawn session's state machine (session_transitions.rs, expiry.rs),  *)
(* as operators on a session record.  The record stands for the session    *)
(* and its escrow claim together: the factory writes the payment status,   *)
(* the scan cursor and the refundable flag of both in the same message.    *)
(* What is used of it here:                                                *)
(*   state, pay            the lifecycle state and the payment status      *)
(*   expires               the deadline, in ticks                          *)
(*   retryable, refundable flags derived from the above and then STORED    *)
(* updated_at is kept by the models that read it.                          *)
(***************************************************************************)
EXTENDS Naturals

CONSTANT SessionTtl   \* session_ttl_ms, in ticks

ASSUME SessionTtlAssumption == SessionTtl \in Nat

States == {"AwaitingPayment", "PaymentDetected", "Spawning",
           "BroadcastingRelease", "Complete", "Failed", "Expired"}

PaymentStatuses == {"Unpaid", "Partial", "Paid", "Refunded"}

Events == {"PaymentObserved", "SpawnStarted", "InstallSucceeded",
           "ReleaseBroadcast", "SpawnFailed", "RetryRequested", "SessionExpired"}

\* derive_retryable and derive_refundable.
Retryable(r, now) ==
    r.state = "Failed" /\ r.pay = "Paid" /\ now <= r.expires

Refundable(r) ==
    r.state \in {"Expired", "Failed"} /\ r.pay \in {"Partial", "Paid"}

\* sync_session_derived_flags_in_state: the flags are recomputed only when a
\* message writes the session, so retryable can outlive its deadline.
SyncFlags(r, now) ==
    [r EXCEPT !.retryable = Retryable(r, now), !.refundable = Refundable(r)]

\* The states in which an event is legal and the state it leads to.
Sources == [PaymentObserved  |-> {"AwaitingPayment"},
            SpawnStarted     |-> {"PaymentDetected"},
            InstallSucceeded |-> {"Spawning"},
            ReleaseBroadcast |-> {"BroadcastingRelease"},
            SpawnFailed      |-> {"PaymentDetected", "Spawning", "BroadcastingRelease"},
            RetryRequested   |-> {"Failed"},
            SessionExpired   |-> States]

Target == [PaymentObserved  |-> "PaymentDetected",
           SpawnStarted     |-> "Spawning",
           InstallSucceeded |-> "BroadcastingRelease",
           ReleaseBroadcast |-> "Complete",
           SpawnFailed      |-> "Failed",
           RetryRequested   |-> "PaymentDetected",
           SessionExpired   |-> "Expired"]

\* The guards of apply_session_event_in_state; the negation is an error that
\* leaves the session alone.
Accepts(r, event) ==
    /\ r.state \in Sources[event]
    /\ event = "PaymentObserved" => r.pay = "Paid"
    /\ event = "RetryRequested" => r.retryable /\ r.pay = "Paid"

\* SessionExpired is accepted everywhere and ignored where it does not apply.
IgnoresExpiry(r, now) ==
    \/ r.state \in {"Complete", "Expired"}
    \/ r.pay = "Refunded"
    \/ now <= r.expires

\* The session after an accepted event.
Apply(r, event, now) ==
    IF event = "SessionExpired" /\ IgnoresExpiry(r, now)
    THEN r
    ELSE SyncFlags([r EXCEPT !.state = Target[event],
                             !.expires = IF event = "RetryRequested"
                                         THEN now + SessionTtl ELSE @],
                   now)

\* session_needs_payment_poll.
NeedsPaymentPoll(r) ==
    r.state = "AwaitingPayment" /\ r.pay \notin {"Paid", "Refunded"}

=============================================================================
