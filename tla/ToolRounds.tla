----------------------------- MODULE ToolRounds -----------------------------
(***************************************************************************)
(* The tool rounds of the automaton's turns: which of the calls the model  *)
(* plans are executed, in which order and under which gates, and what is   *)
(* remembered of them for later rounds and turns.                          *)
(*                                                                         *)
(* A call is a pair of its tool and its arguments, which is its            *)
(* fingerprint; the shape of the arguments that scopes a failure is        *)
(* abstracted to the tool.  Times are ticks from 1 on; 0 is "never".       *)
(***************************************************************************)
EXTENDS Naturals, SequencesExt, FiniteSetsExt

CONSTANTS ToolCalls,        \* the calls the model may plan
          PlanLength,       \* bound: calls of a round
          ToolBudget,       \* max_tool_calls_per_turn
          MaxToolRounds,    \* max_inference_rounds
          DegradeCap,       \* AUTONOMY_CONSECUTIVE_DEGRADE_CAP
          MaxBequests,      \* MAX_TERMINAL_BEQUESTS
          DedupeWindow, RepeatWindow, RepeatThreshold, FailureCooldown,
          TurnKinds,        \* the turns that begin: <<with messages, periodic, tool scope>>
          MaxTicks,         \* bound: the clock
          MaxToolTurns      \* bound: turns

ASSUME RoundsAssumption ==
  {ToolBudget, MaxBequests, PlanLength, FailureCooldown, MaxToolTurns} \subseteq Nat
    /\ MaxTicks \in Nat \ {0}

VARIABLES memo,       \* last successes and failure trackers, kept over turns
          backoff,    \* survival operation classes in backoff
          now,
          round,      \* the turn in progress, with the round it is at
          lastRun,    \* ghost: of each call the last success and whether it was recorded
          bequests,   \* ghost: transfers attempted by the terminal turn
          turnsRun

toolVars == <<memo, backoff, now, round, lastRun, bequests, turnsRun>>

SensitiveTools       == {"send_eth", "sign_message", "broadcast_transaction",
                         "update_prompt_layer", "register_strategy", "canister_call"}
UntrustedOutputTools == {"http_fetch", "web_search", "canister_call"}
HttpLikeTools        == {"http_fetch", "web_search", "market_fetch"}

ToolAllowed(tool, scope) ==
  CASE scope = "Full"             -> TRUE
    [] scope = "CoordinationOnly" -> tool \in {"think", "journal", "recall", "remember", "list_peers"}
    [] scope = "Terminal"         -> tool \in {"think", "journal", "recall", "send_eth"}

OperationClasses == {"ThresholdSign", "EvmBroadcast", "EvmPoll", "InterCanisterCall"}

\* The survival operations a tool is gated by.
ClassesOf(tool) ==
  CASE tool = "sign_message"                              -> {"ThresholdSign"}
    [] tool = "broadcast_transaction"                     -> {"EvmBroadcast"}
    [] tool \in {"evm_read", "simulate_strategy_action"}  -> {"EvmPoll"}
    [] tool \in {"post_room_message", "canister_call"}    -> {"InterCanisterCall"}
    [] tool \in {"send_eth", "set_min_prices"}            -> {"ThresholdSign", "EvmBroadcast"}
    [] tool = "execute_strategy_action" -> {"ThresholdSign", "EvmBroadcast", "EvmPoll"}
    [] tool \in {"pay_peer", "reproduce"}
         -> {"ThresholdSign", "EvmBroadcast", "InterCanisterCall"}
    [] OTHER                                              -> {}

\* The errors told apart: a bad argument, an outcall that failed, anything else.
ToolErrors == {"malformed", "outcall", "internal"}

Tools    == {c[1] : c \in ToolCalls}
Trackers == ToolCalls \cup (Tools \X ToolErrors)

NoTracker == [error |-> "none", count |-> 0, last |-> 0, until |-> 0]

NoRound == [pc |-> "none", external |-> FALSE, periodic |-> FALSE, scope |-> "Full",
            started |-> 0, number |-> 0, plan |-> <<>>, verdict |-> <<>>, result |-> <<>>,
            calls |-> 0, transfers |-> 0, mark |-> FALSE, counts |-> <<>>, capped |-> {},
            repeated |-> {}]

ToolTypeOK ==
  /\ \A c \in ToolCalls : memo.ok[c] \in 0..MaxTicks
  /\ \A k \in Trackers : /\ memo.failed[k].error \in ToolErrors \cup {"none"}
                         /\ memo.failed[k].until <= MaxTicks + FailureCooldown
  /\ backoff \subseteq OperationClasses /\ now \in 1..MaxTicks /\ turnsRun \in 0..MaxToolTurns
  /\ round.pc \in {"none", "infer", "run"} /\ Len(round.result) <= Len(round.plan)
  /\ Len(round.verdict) = Len(round.plan) /\ round.calls <= ToolBudget
  /\ round.capped \subseteq Tools

ToolInit ==
  /\ memo = [ok |-> [c \in ToolCalls |-> 0], failed |-> [k \in Trackers |-> NoTracker]]
  /\ backoff = {} /\ now = 1 /\ round = NoRound /\ bequests = 0 /\ turnsRun = 0
  /\ lastRun = [c \in ToolCalls |-> [at |-> 0, recorded |-> FALSE]]

(***************************************************************************)
(* What is remembered of a call.                                           *)
(***************************************************************************)
Tracked(t, error) ==
  LET n == IF t.error = error /\ now - t.last <= RepeatWindow THEN t.count + 1 ELSE 1
  IN  [error |-> error, count |-> Min({n, RepeatThreshold}), last |-> now,
       until |-> IF n >= RepeatThreshold THEN now + FailureCooldown ELSE 0]

\* A mutant of RecordOutcome: a success is remembered only for the tracker, which goes on
\* deduplicating failures.
RecordOutcomeForgetful(m, c, result) ==
  IF result = "ok" THEN [m EXCEPT !.failed[c] = NoTracker]
  ELSE [m EXCEPT !.failed[c] = Tracked(@, result), !.failed[<<c[1], result>>] = Tracked(@, result)]

RecordOutcome(m, c, result) ==
  IF result = "ok"
    THEN [ok     |-> [m.ok EXCEPT ![c] = now],
          failed |-> [k \in Trackers |-> IF k = c \/ k \in {c[1]} \X ToolErrors THEN NoTracker
                                         ELSE m.failed[k]]]
    ELSE [m EXCEPT !.failed[c] = Tracked(@, result), !.failed[<<c[1], result>>] = Tracked(@, result)]

\* What is remembered after i calls of the round; a call that was not executed leaves no trace.
RecordCall(m, c, result) ==
  IF result \in ToolErrors \cup {"ok"} THEN RecordOutcome(m, c, result) ELSE m

RecordFirst(m, plan, result) ==
  LET first[i \in 0..Len(plan)] ==
        IF i = 0 THEN m ELSE RecordCall(first[i - 1], plan[i], result[i])
  IN  first

RecordAll(m, plan, result) == RecordFirst(m, plan, result)[Len(plan)]

IsConfigRecall(c) == c = <<"recall", "config.endpoint">>

Deduped(c, at) == memo.ok[c] # 0 /\ at - memo.ok[c] < DedupeWindow

Cooling(c, at) == \E k \in {c} \cup ({c[1]} \X ToolErrors) : memo.failed[k].until > at

(***************************************************************************)
(* The verdict on each planned call: suppressed, not in the scope, blocked *)
(* behind untrusted content, or to be executed.                            *)
(***************************************************************************)
FirstAutonomousRound(r) == r.periodic /\ ~r.external /\ r.number = 1

Suppressed(r, c) ==
  \/ /\ FirstAutonomousRound(r) /\ ~IsConfigRecall(c)
     /\ Deduped(c, r.started) \/ Cooling(c, r.started)
  \/ ~r.external /\ c[1] \in r.capped

\* Whether the content before call i + 1 is untrusted: only calls that reach the validator count.
Marks(r, plan) ==
  LET Mark[i \in 0..Len(plan)] ==
        IF i = 0 THEN r.mark
        ELSE IF Suppressed(r, plan[i]) \/ ~ToolAllowed(plan[i][1], r.scope) THEN Mark[i - 1]
        ELSE plan[i][1] \in UntrustedOutputTools
  IN  Mark

Verdict(r, plan, i) ==
  LET tool == plan[i][1]
  IN  IF Suppressed(r, plan[i]) THEN IF tool \in r.capped THEN "capped" ELSE "suppressed"
      ELSE IF ~ToolAllowed(tool, r.scope) THEN "restricted"
      ELSE IF Marks(r, plan)[i - 1] /\ tool \in SensitiveTools \ UntrustedOutputTools THEN "blocked"
      ELSE "execute"

\* A turn begins; the inbox counts as untrusted content.
ToolTurnBegins(external, periodic, scope) ==
  /\ round.pc = "none" /\ turnsRun < MaxToolTurns /\ turnsRun' = turnsRun + 1
  /\ scope = "Terminal" => bequests = 0 /\ ~external
  /\ round' = [NoRound EXCEPT !.pc = "infer", !.external = external, !.periodic = periodic,
                 !.scope = scope, !.started = now, !.mark = external]
  /\ UNCHANGED <<memo, backoff, now, lastRun, bequests>>

\* The model answers with calls, of which the budget of the turn is executed.
RoundPlanned(calls) ==
  LET plan == SubSeq(calls, 1, Min({Len(calls), ToolBudget - round.calls}))
      r    == [round EXCEPT !.number = @ + 1]
  IN  /\ round.pc = "infer" /\ round.number < MaxToolRounds /\ round.calls < ToolBudget
      /\ round' = [r EXCEPT !.pc = "run", !.plan = plan, !.result = <<>>,
                     !.verdict = [i \in 1..Len(plan) |-> Verdict(r, plan, i)],
                     !.mark = Marks(r, plan)[Len(plan)]]
      /\ UNCHANGED <<memo, backoff, now, lastRun, bequests, turnsRun>>

\* No calls, no round or no budget left, the deadline, or an error of the inference.
ToolTurnEnds ==
  /\ round.pc = "infer" /\ round' = NoRound
  /\ UNCHANGED <<memo, backoff, now, lastRun, bequests, turnsRun>>

(***************************************************************************)
(* The execution of the planned calls.                                     *)
(***************************************************************************)
ToolAt(i) == round.plan[i][1]

\* The transfers of a terminal turn are counted and not gated.
TerminalTransfer(i) == round.scope = "Terminal" /\ ToolAt(i) = "send_eth"

Gated(i) ==
  IF TerminalTransfer(i) THEN round.transfers >= MaxBequests
  ELSE ClassesOf(ToolAt(i)) \cap backoff # {}

\* What call i may come to; a gated call fails with an error of its own.
CallResults(i) ==
  IF round.verdict[i] # "execute" THEN {round.verdict[i]}
  ELSE IF Gated(i) THEN {"internal"}
  ELSE IF ToolAt(i) = "think" THEN {"ok"}
  ELSE IF ToolAt(i) \in HttpLikeTools \cup {"evm_read"} THEN {"ok"} \cup ToolErrors
  ELSE {"ok", "internal"}

\* The classes that are booked on failure.
BookedOnFailure(i, result) ==
  CASE result \notin ToolErrors                      -> {}
    [] Gated(i)                                      -> {}
    [] ToolAt(i) = "evm_read" /\ result # "outcall"  -> {}
    [] ToolAt(i) \in {"reproduce", "set_min_prices"} -> {}
    [] OTHER                                         -> ClassesOf(ToolAt(i))

ClearedOnSuccess(i, result) ==
  IF result = "ok" /\ ToolAt(i) # "reproduce" THEN ClassesOf(ToolAt(i)) ELSE {}

\* The success of a call before this one that deduplication should have known of.
Repeats(i) ==
  /\ round.verdict[i] = "execute" /\ FirstAutonomousRound(round) /\ ~IsConfigRecall(round.plan[i])
  /\ lastRun[round.plan[i]].recorded
  /\ round.started - lastRun[round.plan[i]].at < DedupeWindow

\* The next call is executed. Calls that only read are joined in pairs by the code, never two
\* of one class of operations, so that they may as well come one after the other.
RunCall ==
  LET i == Len(round.result) + 1
      c == round.plan[i]
  IN  /\ round.pc = "run" /\ i <= Len(round.plan)
      /\ \E out \in CallResults(i) :
           /\ backoff' = (backoff \cup BookedOnFailure(i, out)) \ ClearedOnSuccess(i, out)
           /\ round' = [round EXCEPT !.result = Append(@, out),
                          !.transfers = @ + (IF c[1] = "send_eth" /\ round.verdict[i] = "execute" THEN 1 ELSE 0),
                          !.repeated = IF Repeats(i) THEN @ \cup {c} ELSE @]
           /\ lastRun' = IF out = "ok" THEN [lastRun EXCEPT ![c] = [at |-> now, recorded |-> FALSE]]
                         ELSE lastRun
      /\ bequests' = bequests + (IF TerminalTransfer(i) /\ round.verdict[i] = "execute" /\ ~Gated(i)
                                 THEN 1 ELSE 0)
      /\ UNCHANGED <<memo, now, turnsRun>>

(***************************************************************************)
(* After the last call.                                                    *)
(***************************************************************************)
Executed == {i \in 1..Len(round.plan) : round.verdict[i] = "execute"}
FailedCalls   == {i \in Executed : round.result[i] \in ToolErrors}

Recoverable(i) ==
  round.result[i] = "malformed" \/ (round.result[i] = "outcall" /\ ToolAt(i) \in HttpLikeTools)

\* Successes clear what is counted against their tool.
Cleared == {ToolAt(i) : i \in {i \in Executed : round.result[i] = "ok"}}

CountsKept == [k \in {k \in DOMAIN round.counts : k[1] \notin Cleared} |-> round.counts[k]]

\* One count per tool and class of this round; the pairs the round did not fail with start over.
Bumped(counts, failures) ==
  LET keys == {<<ToolAt(i), round.result[i]>> : i \in failures}
  IN  [k \in keys |-> 1 + (IF k \in DOMAIN counts THEN counts[k] ELSE 0)]

\* The deadline has passed during the execution: its records are dropped with the turn.
RoundDropped ==
  /\ round.pc = "run" /\ Len(round.result) = Len(round.plan)
  /\ round' = NoRound
  /\ UNCHANGED <<memo, backoff, now, lastRun, bequests, turnsRun>>

RoundRecorded ==
  LET autonomous == ~round.external
      degrade    == autonomous /\ FailedCalls # {} /\ \A i \in FailedCalls : Recoverable(i)
      kept       == IF autonomous THEN CountsKept ELSE round.counts
      counts     == IF degrade THEN Bumped(kept, FailedCalls) ELSE kept
      capped     == (IF autonomous THEN round.capped \ Cleared ELSE round.capped)
                      \cup {k[1] : k \in {k \in DOMAIN counts : degrade /\ counts[k] >= DegradeCap}}
      stops      == \/ FailedCalls # {} /\ ~degrade
                    \/ Executed = {} /\ \E i \in 1..Len(round.plan) : round.verdict[i] = "capped"
  IN  /\ round.pc = "run" /\ Len(round.result) = Len(round.plan)
      /\ memo' = IF autonomous THEN RecordAll(memo, round.plan, round.result) ELSE memo
      /\ lastRun' = [c \in ToolCalls |->
           IF autonomous /\ \E i \in Executed : round.plan[i] = c /\ round.result[i] = "ok"
           THEN [at |-> now, recorded |-> TRUE] ELSE lastRun[c]]
      /\ round' = IF stops THEN NoRound
                  ELSE [round EXCEPT !.pc = "infer", !.counts = counts, !.capped = capped,
                          !.calls = @ + Len(round.plan), !.plan = <<>>, !.verdict = <<>>,
                          !.result = <<>>, !.repeated = {},
                          !.transfers = @ + Cardinality({i \in DOMAIN round.plan \ Executed :
                                                           ToolAt(i) = "send_eth"})]
      /\ UNCHANGED <<backoff, now, bequests, turnsRun>>

\* Time passes, and with it every backoff.
ToolClock ==
  /\ now < MaxTicks /\ now' = now + 1 /\ backoff' = {}
  /\ UNCHANGED <<memo, round, lastRun, bequests, turnsRun>>

ToolNext ==
  \/ \E k \in TurnKinds : ToolTurnBegins(k[1], k[2], k[3])
  \/ \E n \in 1..PlanLength : \E calls \in [1..n -> ToolCalls] : RoundPlanned(calls)
  \/ ToolTurnEnds \/ RunCall \/ RoundDropped \/ RoundRecorded \/ ToolClock

ToolSpec == ToolInit /\ [][ToolNext]_toolVars

(***************************************************************************)
(* Properties.                                                             *)
(***************************************************************************)
\* The first round of an autonomous turn repeats a call within the window of its last success
\* only when that success was never recorded, because the deadline dropped it or the turn
\* answered a message.
\* And a terminal turn attempts a bounded number of transfers, over all its rounds.
RepeatOnlyIfForgotten == round.repeated = {} /\ bequests <= MaxBequests

=============================================================================
