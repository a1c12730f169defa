--------------------------- MODULE RecoveryPolicy ---------------------------
(***************************************************************************)
(* What the automaton's scheduler does about a failed job: the error is    *)
(* classified, and the class and the task's history decide between a       *)
(* retry, a backoff, a larger response limit, a skip and a fault           *)
(* (domain/recovery_policy.rs), and the two survival policies that gate    *)
(* work when cycles run low.                                               *)
(*                                                                         *)
(* The code classifies an error by the phrases its text contains, in a     *)
(* fixed order.  Here an error is the set of the phrases it contains.      *)
(***************************************************************************)
EXTENDS Naturals, Sequences, FiniteSetsExt

CONSTANTS MaxBackoff,  \* TaskScheduleConfig.max_backoff_secs
          LimitMin,    \* RESPONSE_BYTES_POLICY_MIN
          LimitMax     \* EVM_RPC_MAX_RESPONSE_BYTES_POLICY_MAX

ASSUME PolicyAssumption ==
  /\ MaxBackoff \in Nat /\ LimitMin \in Nat \ {0} /\ LimitMax \in Nat /\ LimitMin <= LimitMax
  /\ \A n \in 0..20 : 2 ^ n \in Nat

Outcall(k)   == [class |-> "Outcall", kind |-> k]
Operation(k) == [class |-> "Operation", kind |-> k]

OutcallFailureKinds ==
  {"ResponseTooLarge", "Timeout", "Transport", "UpstreamUnavailable", "RateLimited",
   "InvalidRequest", "RejectedByPolicy", "InvalidResponse", "Unknown"}

OperationFailureKinds ==
  {"BlockedBySurvivalPolicy", "InsufficientCycles", "MissingConfiguration",
   "InvalidConfiguration", "Unauthorized", "Deterministic", "Unknown"}

Failures == {Outcall(k) : k \in OutcallFailureKinds}
              \cup {Operation(k) : k \in OperationFailureKinds}

(***************************************************************************)
(* Classification: the first rule whose phrase occurs in the error.        *)
(***************************************************************************)
FirstMatch(rules, phrases, otherwise) ==
  LET hits == {i \in 1..Len(rules) : rules[i][1] \in phrases}
  IN  IF hits = {} THEN otherwise ELSE rules[Min(hits)][2]

InferenceOutcallKind(phrases) ==
  FirstMatch(<< <<"body too large", "ResponseTooLarge">>, <<"429", "RateLimited">>,
                <<"timeout", "Timeout">>, <<"50x", "UpstreamUnavailable">>,
                <<"40x auth", "RejectedByPolicy">>, <<"4xx", "InvalidRequest">>,
                <<"unparseable", "InvalidResponse">>, <<"transport", "Transport">> >>,
             phrases, "Unknown")

EvmOutcallKind(phrases) ==
  FirstMatch(<< <<"-32011", "UpstreamUnavailable">>, <<"-32005", "RateLimited">>,
                <<"-3260x", "InvalidRequest">>, <<"body too large", "ResponseTooLarge">>,
                <<"429", "RateLimited">>, <<"timeout", "Timeout">>,
                <<"50x", "UpstreamUnavailable">>, <<"40x auth", "RejectedByPolicy">>,
                <<"4xx", "InvalidRequest">>, <<"unparseable", "InvalidResponse">>,
                <<"transport", "Transport">> >>,
             phrases, "Unknown")

ClassifyInferenceFailure(phrases) ==
  FirstMatch(<< <<"insufficient cycles", Operation("InsufficientCycles")>>,
                <<"is not configured", Operation("MissingConfiguration")>>,
                <<"bad setting", Operation("InvalidConfiguration")>>,
                <<"unauthorized", Operation("Unauthorized")>> >>,
             phrases, Outcall(InferenceOutcallKind(phrases)))

ClassifyEvmFailure(phrases) ==
  FirstMatch(<< <<"insufficient cycles", Operation("InsufficientCycles")>>,
                <<"is not configured", Operation("MissingConfiguration")>>,
                <<"bad setting", Operation("InvalidConfiguration")>> >>,
             phrases, Outcall(EvmOutcallKind(phrases)))

\* Only the two kinds of task that talk to the outside are told apart.
ClassifyFailureForTask(kind, phrases) ==
  CASE kind = "AgentTurn" -> ClassifyInferenceFailure(phrases)
    [] kind = "PollInbox" -> ClassifyEvmFailure(phrases)
    [] OTHER -> Operation("Unknown")

(***************************************************************************)
(* The decision.  secs is meaningful for Backoff, limit for the tuning;    *)
(* a limit of 0 says that the context has no response limit to tune.       *)
(***************************************************************************)
Clamp(x, lo, hi) == IF x < lo THEN lo ELSE IF x > hi THEN hi ELSE x

ExponentialBackoff(failures) ==
  Clamp(2 ^ (IF failures < 20 THEN failures ELSE 20), 1, Max({MaxBackoff, 1}))

NextResponseLimit(current) ==
  LET top  == Max({LimitMin, LimitMax})
      from == Clamp(current, LimitMin, top)
  IN  [from |-> from, to |-> Clamp(2 * from, LimitMin, top)]

Decision(action, secs, limit) == [action |-> action, secs |-> secs, limit |-> limit]

DecideRecoveryAction(failure, failures, limit) ==
  LET backoff == Decision("Backoff", Clamp(ExponentialBackoff(failures), 1, Max({MaxBackoff, 1})), limit)
      step    == NextResponseLimit(limit)
      kind    == failure.kind
  IN  IF failure.class = "Outcall"
      THEN CASE kind = "ResponseTooLarge" /\ limit # 0 /\ step.to > step.from
                  -> Decision("TuneResponseLimit", 0, step.to)
             [] kind \in {"Timeout", "Transport", "UpstreamUnavailable"} /\ failures = 0
                  -> Decision("RetryImmediate", 0, limit)
             [] kind \in {"InvalidRequest", "RejectedByPolicy"}
                  -> Decision("EscalateFault", 0, limit)
             [] OTHER -> backoff
      ELSE CASE kind \in {"BlockedBySurvivalPolicy", "InsufficientCycles"}
                  -> Decision("Skip", 0, limit)
             [] kind \in {"MissingConfiguration", "InvalidConfiguration", "Unauthorized",
                          "Deterministic"}
                  -> Decision("EscalateFault", 0, limit)
             [] OTHER -> backoff

(***************************************************************************)
(* Survival policy: which operations a tier allows, and the tier's         *)
(* hysteresis (worse at once, Normal only after three checks in a row).    *)
(***************************************************************************)
SurvivalTiers == {"Normal", "LowCycles", "Critical", "OutOfCycles"}

RecoveryChecksRequired == 3

TierAllows(tier, operation) ==
  ~ \/ tier \in {"Critical", "OutOfCycles"}
    \/ tier = "LowCycles" /\ operation \in {"ThresholdSign", "EvmBroadcast"}

NextSurvivalTier(tier, checks, observed) ==
  IF observed # "Normal" THEN <<observed, 0>>
  ELSE IF tier = "Normal" \/ checks + 1 >= RecoveryChecksRequired THEN <<"Normal", 0>>
  ELSE <<tier, checks + 1>>

=============================================================================
