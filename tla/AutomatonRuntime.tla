-------------------------- MODULE AutomatonRuntime --------------------------
(***************************************************************************)
(* The automaton canister's scheduler at work (scheduler.rs, lib.rs).      *)
(*                                                                         *)
(* Two ticks can be under way at once: the one of the interval timer,      *)
(* which never overlaps with itself, and the immediate one that an         *)
(* endpoint spawns.  A tick recovers what expired, materialises due jobs   *)
(* and dispatches up to MaxJobsPerTick of them; a dispatch that calls out  *)
(* is suspended, and everything else may happen before it comes back.      *)
(* cpu names the tick whose message is executing: a message runs to its    *)
(* next await without interruption.                                        *)
(***************************************************************************)
EXTENDS AutomatonJobs, Mortality

CONSTANTS Errors,          \* errors a dispatch can return, as sets of phrases
          Observations,    \* pairs <<survival tier, mortality tier>> CheckCycles may observe
          Cadence,         \* mortality tier -> interval of every task
          EnabledKinds,    \* the tasks enabled at the start
          WakeKeys,        \* names of the jobs that endpoints enqueue at once
          MaxJobsPerTick,  \* MAX_MUTATING_JOBS_PER_TICK
          Horizon,         \* bound: the clock
          MaxJobs,         \* bound: the jobs ever created
          MaxFaults        \* bound: traps, upgrades and controller calls together

ASSUME RtAssumption ==
  /\ Observations \subseteq SurvivalTiers \X MortalityTiers /\ Cadence \in [MortalityTiers -> Nat]
  /\ EnabledKinds \subseteq Kinds /\ MaxJobsPerTick \in Nat /\ Horizon \in Nat \ {0}
  /\ MaxJobs \in Nat /\ MaxFaults \in Nat

Ticks == {"timer", "wake"}

VARIABLES now,    \* the clock
          cpu,    \* the tick whose message is executing, or "none"
          ticks,  \* the two ticks and the dispatch each is suspended in
          q,      \* the job queue, see AutomatonJobs
          sched,  \* scheduler runtime: enabled, low (low_cycles_mode), tier, checks
          surv,   \* survival backoff of the two operations that gate tasks
          limit,  \* evm_rpc_max_response_bytes
          mort,   \* mortality runtime
          agent,  \* runtime snapshot: loop_enabled, turn_in_flight, turn_counter
          faults

rtVars == <<now, cpu, ticks, q, sched, surv, limit, mort, agent, faults>>

IdleTick == [pc |-> "idle", job |-> 0, n |-> 0, until |-> 0, turn |-> 0, last |-> FALSE,
             error |-> {}]

SurvivalOp(kind) == IF kind = "AgentTurn" THEN "Inference" ELSE "EvmPoll"

RtTypeOK ==
  /\ now \in 1..Horizon /\ faults \in 0..MaxFaults /\ limit \in LimitMin..LimitMax
  /\ cpu \in Ticks \cup {"none"}
  /\ ticks \in [Ticks -> [pc : {"idle", "start", "loop", "await", "turn", "report", "stuck"},
                          job : 0..MaxJobs, n : 0..MaxJobsPerTick, until : Nat, turn : Nat,
                          last : BOOLEAN, error : Errors \cup {{}}]]
  /\ q.jobs \in Seq([kind : Kinds, key : Kinds \X (WakeKeys \cup {"slot", "terminal", "singleton"}) \X Nat,
                     at : Nat, status : JobStatuses, attempts : Nat])
  /\ q.task \in [Kinds -> [enabled : BOOLEAN, interval : Nat, due : Nat, backoff : Nat,
                           failures : Nat, pending : 0..MaxJobs]]
  /\ q.lease \in [job : 0..MaxJobs, until : Nat]
  /\ sched \in [enabled : BOOLEAN, low : BOOLEAN, tier : SurvivalTiers,
                checks : 0 .. RecoveryChecksRequired - 1]
  /\ surv \in [{"Inference", "EvmPoll"} -> [failures : Nat, backoff : Nat]]
  /\ mort \in MortalityRuntime
  /\ agent \in [loop : BOOLEAN, lock : BOOLEAN, turns : Nat]

\* init_storage: every task is due one interval from now, PollInbox at once.
RtInit ==
  /\ now = 1 /\ cpu = "none" /\ faults = 0 /\ limit = LimitMin
  /\ ticks = [t \in Ticks |-> IdleTick]
  /\ q = [jobs |-> <<>>, lease |-> NoLease,
          task |-> [k \in Kinds |->
                      [enabled |-> k \in EnabledKinds, interval |-> Cadence["Active"],
                       due |-> IF k = "PollInbox" THEN 1 ELSE 1 + Cadence["Active"],
                       backoff |-> 0, failures |-> 0, pending |-> 0]]]
  /\ sched = [enabled |-> TRUE, low |-> FALSE, tier |-> "Normal", checks |-> 0]
  /\ surv = [o \in {"Inference", "EvmPoll"} |-> [failures |-> 0, backoff |-> 0]]
  /\ mort = Newborn
  /\ agent = [loop |-> TRUE, lock |-> FALSE, turns |-> 0]

Step(t, tick) == ticks' = [ticks EXCEPT ![t] = tick]

EndTick(t) == Step(t, IdleTick) /\ cpu' = "none"

\* The dispatch is over and the loop goes on in the same message.
NextJob(t) == Step(t, [IdleTick EXCEPT !.pc = "loop", !.n = ticks[t].n + 1]) /\ cpu' = t

(***************************************************************************)
(* scheduler_tick up to its loop.  The timer's message begins here; the    *)
(* spawned tick runs in the message of the endpoint that woke it.          *)
(***************************************************************************)
Begins(t) == \/ t = "timer" /\ cpu = "none" /\ ticks[t].pc = "idle"
             \/ t = "wake" /\ cpu = t /\ ticks[t].pc = "start"

TickOfTheDead(t) ==
  /\ Begins(t) /\ mort.phase = "Dead"
  /\ EndTick(t)
  /\ UNCHANGED <<now, q, sched, surv, limit, mort, agent, faults>>

\* recover_orphaned_turn_lock
RecoverOrphanedLock(a, queue) == IF LeaseActive(queue, now) THEN a ELSE [a EXCEPT !.lock = FALSE]

TickStart(t) ==
  LET recovered == RecoverStaleLease(q, now)
  IN  /\ Begins(t) /\ mort.phase # "Dead"
      /\ agent' = RecoverOrphanedLock(agent, recovered)
      /\ IF sched.enabled
         THEN /\ q' = RefreshDueJobs(recovered, sched.low, now)
              /\ Len(q'.jobs) <= MaxJobs
              /\ Step(t, [IdleTick EXCEPT !.pc = "loop"]) /\ cpu' = t
         ELSE q' = recovered /\ EndTick(t)
      /\ UNCHANGED <<now, sched, surv, limit, mort, faults>>

(***************************************************************************)
(* run_one_pending_mutating_job up to the dispatch.                        *)
(***************************************************************************)
InLoop(t) == cpu = t /\ ticks[t].pc = "loop"

NothingToRun(t) ==
  ticks[t].n = MaxJobsPerTick \/ LeaseActive(q, now) \/ NextPending(q, now) = 0

TickEnd(t) ==
  /\ InLoop(t) /\ NothingToRun(t)
  /\ EndTick(t)
  /\ UNCHANGED <<now, q, sched, surv, limit, mort, agent, faults>>

Taken == LET id == NextPending(q, now)
         IN  [id |-> id, kind |-> q.jobs[id].kind,
              q |-> AcquireMutatingLease(PopPendingJob(q, id), id, now)]

TerminalTurn == mort.phase \in {"TerminalPending", "TerminalInProgress"}

\* can_run_survival_operation gates turns and polls; the terminal turn passes.
SurvivalBlocks(kind) ==
  LET op == SurvivalOp(kind)
  IN  /\ kind \in {"AgentTurn", "PollInbox"}
      /\ ~(kind = "AgentTurn" /\ TerminalTurn)
      /\ ~TierAllows(sched.tier, op) \/ surv[op].backoff > now

SkipBlocked(t) ==
  /\ InLoop(t) /\ ~NothingToRun(t) /\ SurvivalBlocks(Taken.kind)
  /\ q' = CompleteJob(Taken.q, Taken.id, "Skipped", now, -1)
  /\ NextJob(t)
  /\ UNCHANGED <<now, sched, surv, limit, mort, agent, faults>>

Dispatches(t, kinds) ==
  InLoop(t) /\ ~NothingToRun(t) /\ Taken.kind \in kinds /\ ~SurvivalBlocks(Taken.kind)

Suspended(t, pc) ==
  [ticks[t] EXCEPT !.pc = pc, !.job = Taken.id, !.until = now + LeaseTtl[Taken.kind]]

\* The other tasks call out first; what they do is modelled in their own modules.
Dispatch(t) ==
  /\ Dispatches(t, {"PollInbox", "TopUpCycles", "Reconcile"})
  /\ q' = Taken.q
  /\ Step(t, Suspended(t, "await")) /\ cpu' = "none"
  /\ UNCHANGED <<now, sched, surv, limit, mort, agent, faults>>

(***************************************************************************)
(* The beginning of an agent turn: early returns, then the turn counter,   *)
(* the lock and, in TerminalPending, the terminal turn, which closes the   *)
(* scheduler and the loop.                                                 *)
(***************************************************************************)
TurnRefused == ~agent.loop \/ agent.lock \/ mort.phase = "Dead"

\* wallet_balance_bootstrap_pending or a periodic turn that waits for a proxy callback
MaySkipTurn == mort.phase # "TerminalPending"

TurnReturnsAtOnce(t) ==
  /\ Dispatches(t, {"AgentTurn"})
  /\ TurnRefused \/ MaySkipTurn
  /\ q' = CompleteJob(Taken.q, Taken.id, "Succeeded", now, -1)
  /\ NextJob(t)
  /\ UNCHANGED <<now, sched, surv, limit, mort, agent, faults>>

BeginTurn(t) ==
  LET turn == agent.turns + 1
      last == mort.phase = "TerminalPending"
  IN  /\ Dispatches(t, {"AgentTurn"}) /\ ~TurnRefused
      /\ q' = Taken.q
      /\ agent' = [loop |-> agent.loop /\ ~last, lock |-> TRUE, turns |-> turn]
      /\ mort' = BeginTerminalTurn(mort, turn)
      /\ sched' = [sched EXCEPT !.enabled = @ /\ ~last]
      /\ Step(t, [Suspended(t, "turn") EXCEPT !.turn = turn, !.last = last]) /\ cpu' = "none"
      /\ UNCHANGED <<now, surv, limit, faults>>

(***************************************************************************)
(* run_check_cycles: no await in it, so it runs inside the tick's message. *)
(***************************************************************************)
SetSurvivalTier(observed) ==
  LET tier == NextSurvivalTier(sched.tier, sched.checks, observed)
  IN  sched' = [sched EXCEPT !.tier = tier[1], !.checks = tier[2], !.low = tier[1] # "Normal"]

CheckCycles(t) ==
  /\ Dispatches(t, {"CheckCycles"})
  /\ \E seen \in Observations, topUp \in BOOLEAN :
       LET m     == ObserveMortality(mort, seen[2])
           paced == IF mort.phase = "Dead" THEN Taken.q ELSE SetCadence(Taken.q, Cadence[m.tier], now)
           final == IF m.phase = "TerminalPending"
                    THEN EnqueueJobIfAbsent(paced, "AgentTurn", <<"AgentTurn", "terminal", 0>>, now)
                    ELSE paced
           fed   == IF topUp THEN EnqueueJobIfAbsent(final, "TopUpCycles", TopUpKey, now) ELSE final
       IN  /\ Len(fed.jobs) <= MaxJobs
           /\ mort' = m
           /\ SetSurvivalTier(seen[1])
           /\ q' = CompleteJob(fed, Taken.id, "Succeeded", now, -1)
  /\ NextJob(t)
  /\ UNCHANGED <<now, surv, limit, agent, faults>>

(***************************************************************************)
(* A dispatch comes back, in time or long after its lease.                 *)
(***************************************************************************)
JobOf(t) == q.jobs[ticks[t].job]

NoteSurvival(kind, error) ==
  LET op == SurvivalOp(kind)
      failures == surv[op].failures + 1
  IN  IF kind \notin {"AgentTurn", "PollInbox"} THEN surv
      ELSE IF error = {} THEN [surv EXCEPT ![op] = [failures |-> 0, backoff |-> 0]]
      ELSE IF "insufficient cycles" \in error
           THEN [surv EXCEPT ![op] = [failures |-> failures, backoff |-> TaskBackoff(failures, now)]]
      ELSE surv

\* apply_recovery_policy_for_failed_job: the status and the retry delay of the job.
Recovery(job, error) ==
  LET kind     == job.kind
      decision == DecideRecoveryAction(ClassifyFailureForTask(kind, error), q.task[kind].failures,
                                       IF kind = "PollInbox" THEN limit ELSE 0)
      deferred == kind = "PollInbox" /\ "eth_getLogs" \in error
      retry    == CASE decision.action \in {"RetryImmediate", "TuneResponseLimit"} -> 0
                    [] decision.action = "Backoff" -> decision.secs
                    [] OTHER -> -1
  IN  [status |-> IF deferred \/ decision.action = "Skip" THEN "Skipped" ELSE "Failed",
       retry  |-> IF deferred THEN -1 ELSE retry,
       limit  |-> IF decision.action = "TuneResponseLimit" THEN decision.limit ELSE limit]

CompleteDispatch(t, error) ==
  LET recovery == Recovery(JobOf(t), error)
  IN  IF error = {}
      THEN q' = CompleteJob(q, ticks[t].job, "Succeeded", now, -1) /\ limit' = limit
      ELSE /\ q' = CompleteJob(q, ticks[t].job, recovery.status, now, recovery.retry)
           /\ limit' = recovery.limit

\* TopUpWaiting: the job succeeds and its continuation is enqueued one interval ahead.
DispatchReturns(t) ==
  /\ cpu = "none" /\ ticks[t].pc = "await"
  /\ \E error \in Errors \cup {{}} :
       /\ CompleteDispatch(t, error)
       /\ surv' = NoteSurvival(JobOf(t).kind, error)
  /\ NextJob(t)
  /\ UNCHANGED <<now, sched, mort, agent, faults>>

TopUpWaits(t) ==
  LET done == CompleteJob(q, ticks[t].job, "Succeeded", now, -1)
  IN  /\ cpu = "none" /\ ticks[t].pc = "await" /\ JobOf(t).kind = "TopUpCycles"
      /\ q' = EnqueueJobIfAbsent(done, "TopUpCycles", TopUpKey, now + q.task["TopUpCycles"].interval)
      /\ Len(q'.jobs) <= MaxJobs
      /\ NextJob(t)
      /\ UNCHANGED <<now, sched, surv, limit, mort, agent, faults>>

\* A mutant of CompleteTurn: an older turn releases the lock too.
CompleteAnyTurn(a, turn) == [a EXCEPT !.lock = FALSE]

\* complete_turn ignores a turn that is no longer the last one.
CompleteTurn(a, turn) == IF a.turns = turn THEN [a EXCEPT !.lock = FALSE] ELSE a

TurnReturns(t) ==
  /\ cpu = "none" /\ ticks[t].pc = "turn"
  /\ agent' = CompleteTurn(agent, ticks[t].turn)
  /\ \E error \in Errors \cup {{}} :
       /\ surv' = NoteSurvival("AgentTurn", error)
       /\ IF ticks[t].last
          THEN /\ Step(t, [ticks[t] EXCEPT !.pc = "report", !.error = error])
               /\ UNCHANGED <<cpu, q, limit>>
          ELSE CompleteDispatch(t, error) /\ NextJob(t)
  /\ UNCHANGED <<now, sched, mort, faults>>

\* finalize_terminal_turn after the report, whether the report was delivered or not.
Die(t) ==
  /\ cpu = "none" /\ ticks[t].pc = "report"
  /\ mort' = CompleteTerminalTurn(mort, ticks[t].turn)
  /\ IF CompletesTerminalTurn(mort, ticks[t].turn)
     THEN /\ agent' = [agent EXCEPT !.loop = FALSE, !.lock = FALSE]
          /\ sched' = [sched EXCEPT !.enabled = FALSE]
     ELSE UNCHANGED <<agent, sched>>
  /\ CompleteDispatch(t, ticks[t].error)
  /\ NextJob(t)
  /\ UNCHANGED <<now, surv, faults>>

(***************************************************************************)
(* The environment: time, endpoints that wake the scheduler, the           *)
(* controller, traps and upgrades.                                         *)
(***************************************************************************)
AdvanceTime ==
  /\ cpu = "none" /\ now < Horizon
  /\ now' = now + 1
  /\ UNCHANGED <<cpu, ticks, q, sched, surv, limit, mort, agent, faults>>

\* enqueue_immediate_agent_turn_if_absent and schedule_immediate_scheduler_tick
Wake(key) ==
  /\ cpu = "none" /\ Len(q.jobs) < MaxJobs
  /\ FindByDedupeKey(q, <<"AgentTurn", key, 0>>) = {}
  /\ q' = EnqueueJobIfAbsent(q, "AgentTurn", <<"AgentTurn", key, 0>>, now)
  /\ IF ticks["wake"].pc = "idle"
     THEN Step("wake", [IdleTick EXCEPT !.pc = "start"]) /\ cpu' = "wake"
     ELSE UNCHANGED <<ticks, cpu>>
  /\ UNCHANGED <<now, sched, surv, limit, mort, agent, faults>>

\* A trap undoes the message that resumed the tick.  Its lease and its lock stay,
\* and the flag that says a spawned tick is under way is never lowered.
Trap(t) ==
  /\ cpu = "none" /\ ticks[t].pc \in {"await", "turn", "report"}
  /\ faults < MaxFaults /\ faults' = faults + 1
  /\ Step(t, IF t = "wake" THEN [IdleTick EXCEPT !.pc = "stuck"] ELSE IdleTick)
  /\ UNCHANGED <<now, cpu, q, sched, surv, limit, mort, agent>>

\* A stopped canister has no open calls; the new code starts with the flag lowered.
Upgrade ==
  /\ cpu = "none" /\ faults < MaxFaults /\ faults' = faults + 1
  /\ \A t \in Ticks : ticks[t].pc \in {"idle", "stuck"}
  /\ ticks' = [t \in Ticks |-> IdleTick]
  /\ UNCHANGED <<now, cpu, q, sched, surv, limit, mort, agent>>

ControllerCall ==
  /\ cpu = "none" /\ faults < MaxFaults /\ faults' = faults + 1
  /\ \/ \E k \in EnabledKinds, b \in BOOLEAN :
          q' = SetTaskEnabled(q, k, b) /\ q' # q /\ UNCHANGED <<sched, agent>>
     \/ sched' = [sched EXCEPT !.enabled = ~@] /\ UNCHANGED <<q, agent>>
     \/ agent' = [agent EXCEPT !.loop = ~@] /\ UNCHANGED <<q, sched>>
  /\ UNCHANGED <<now, cpu, ticks, surv, limit, mort>>

RtNext ==
  \/ AdvanceTime \/ Upgrade \/ ControllerCall
  \/ \E key \in WakeKeys : Wake(key)
  \/ \E t \in Ticks :
       \/ TickOfTheDead(t) \/ TickStart(t) \/ TickEnd(t) \/ SkipBlocked(t)
       \/ Dispatch(t) \/ TurnReturnsAtOnce(t) \/ BeginTurn(t) \/ CheckCycles(t)
       \/ DispatchReturns(t) \/ TopUpWaits(t) \/ TurnReturns(t) \/ Die(t) \/ Trap(t)

RtSpec == RtInit /\ [][RtNext]_rtVars

(***************************************************************************)
(* Properties.                                                             *)
(***************************************************************************)
Running(t) == ticks[t].pc \in {"await", "turn", "report"}

\* While a dispatch is suspended within its lease, its job is in flight and holds the
\* lease: neither the other tick nor a late completion can take it away, so two dispatches
\* never act on the canister side by side before one of them has expired.  And a turn within
\* its lease keeps its lock: an older turn that comes back late does not release it, except
\* the terminal turn, whose end clears the lock of whatever turn runs beside it.
RunningHoldsTheLease ==
  \A t \in Ticks : Running(t) /\ now < ticks[t].until =>
    /\ q.lease = [job |-> ticks[t].job, until |-> ticks[t].until]
    /\ q.jobs[ticks[t].job].status = "InFlight"
    /\ ticks[t].pc = "turn" => agent.lock \/ mort.phase = "Dead"

\* A finished job is changed only by the continuation of a dispatch that outlived its lease.
FinishedStaysFinished ==
  [][\A i \in 1..Len(q.jobs) :
       IsTerminal(q.jobs[i]) /\ q'.jobs[i] # q.jobs[i] =>
         \E t \in Ticks : Running(t) /\ ticks[t].job = i /\ now >= ticks[t].until]_rtVars

\* Death is approached in one direction only, by one terminal turn, and no turn begins after it.
DeathIsFinal ==
  [][/\ PhaseRank(mort'.phase) >= PhaseRank(mort.phase)
     /\ mort.phase = "Dead" => agent'.turns = agent.turns /\ ~agent'.lock
     /\ mort'.phase = "Dead" => mort'.turn # 0 /\ mort'.turn <= agent'.turns]_rtVars

\* What scheduler.rs says at its first early return: after death no queue or recovery path acts.
DeathIsAbsolute ==
  [][mort.phase = "Dead" => \A t \in Ticks : Running(t)' => Running(t)]_rtVars

=============================================================================
