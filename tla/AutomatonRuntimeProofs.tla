----------------------- MODULE AutomatonRuntimeProofs -----------------------
(***************************************************************************)
(* Theorems about the automaton's scheduler (AutomatonRuntime), for any    *)
(* lease times, errors, observations, cadence, keys and bounds, about the  *)
(* turns of the agent (AgentTurn), for any number of messages, turns,      *)
(* rounds and lapses, about the executions of strategies                   *)
(* (StrategyExecution), for any calls, turns and transactions, and about   *)
(* the three together (MC_AutomatonRuntime).                               *)
(***************************************************************************)
EXTENDS MC_AutomatonRuntime, TableLemmas, FiniteSetTheorems, TLAPS

(***************************************************************************)
(* The queue.  A lease names a job that is in flight: whatever ends the    *)
(* job clears the lease with it.                                           *)
(***************************************************************************)
JobFields == {"kind", "key", "at", "status", "attempts"}

Jobs(x) == /\ {"jobs", "task", "lease"} \subseteq DOMAIN x
           /\ Table(x.jobs)
           /\ \A i \in 1..Len(x.jobs) : JobFields \subseteq DOMAIN x.jobs[i] /\ x.jobs[i].kind \in Kinds

LeasedInFlight(x) ==
  x.lease.job # 0 => x.lease.job \in 1..Len(x.jobs) /\ x.jobs[x.lease.job].status = "InFlight"

Queue(x) == Jobs(x) /\ LeasedInFlight(x)

\* y has the jobs of x, perhaps further ones, and the lease of x.
Grows(x, y) ==
  /\ Queue(y) /\ y.lease = x.lease
  /\ Len(x.jobs) <= Len(y.jobs) /\ \A i \in 1..Len(x.jobs) : y.jobs[i] = x.jobs[i]

\* y has the jobs of x but for the one with this id, which is no longer leased.
Ends(x, y, id) ==
  /\ Queue(y) /\ Len(y.jobs) = Len(x.jobs)
  /\ \A i \in 1..Len(x.jobs) : i # id => y.jobs[i] = x.jobs[i]
  /\ y.lease = IF x.lease.job = id THEN NoLease ELSE x.lease

\* The length of the table is a number.
LEMMA JobsLen == ASSUME NEW x, Jobs(x) PROVE Len(x.jobs) \in Nat
  BY LenProperties DEF Jobs, Table

\* Enqueueing keeps what there is.
LEMMA EnqueueGrows ==
  ASSUME NEW x, Queue(x), NEW kind \in Kinds, NEW key, NEW at
  PROVE  Grows(x, EnqueueJobIfAbsent(x, kind, key, at))
<1> DEFINE job == ScheduledJob(kind, key, at)
           y   == EnqueueJobIfAbsent(x, kind, key, at)
<1>0. Len(x.jobs) \in Nat
  BY JobsLen DEF Queue
<1>1. CASE FindByDedupeKey(x, key) # {}
  BY <1>0, <1>1 DEF EnqueueJobIfAbsent, Grows
<1>2. CASE FindByDedupeKey(x, key) = {}
  <2>1. /\ y.jobs = Append(x.jobs, job) /\ y.lease = x.lease
        /\ {"jobs", "task", "lease"} \subseteq DOMAIN y
    BY <1>2 DEF EnqueueJobIfAbsent, Queue, Jobs
  <2>2. JobFields \subseteq DOMAIN job /\ job.kind \in Kinds
    BY DEF ScheduledJob, JobFields
  <2> HIDE DEF y, job
  <2>3. /\ Table(y.jobs) /\ Len(y.jobs) = Len(x.jobs) + 1 /\ y.jobs[Len(x.jobs) + 1] = job
        /\ \A j \in 1..Len(x.jobs) : y.jobs[j] = x.jobs[j]
    BY <2>1, AppendTable DEF Queue, Jobs
  <2>4. Jobs(y)
    BY <1>0, <2>1, <2>2, <2>3 DEF Queue, Jobs
  <2>5. LeasedInFlight(y)
    BY <1>0, <2>1, <2>3 DEF Queue, LeasedInFlight
  <2>6. Grows(x, y)
    BY <1>0, <2>1, <2>3, <2>4, <2>5 DEF Grows, Queue
  <2> QED BY <2>6 DEF y
<1> QED BY <1>1, <1>2

\* Growing twice is growing.
LEMMA GrowsTwice ==
  ASSUME NEW x, NEW y, NEW z, Queue(x), Grows(x, y), Grows(y, z)
  PROVE  Grows(x, z)
  BY JobsLen DEF Grows, Queue

\* Tasks are not jobs: a queue with other tasks is the queue.
LEMMA TasksAreNotJobs ==
  ASSUME NEW x, Queue(x), NEW y, y.jobs = x.jobs, y.lease = x.lease,
         {"jobs", "task", "lease"} \subseteq DOMAIN y
  PROVE  Grows(x, y)
<1>1. Len(x.jobs) \in Nat
  BY JobsLen DEF Queue
<1>2. Queue(y)
  BY DEF Queue, Jobs, LeasedInFlight
<1> QED BY <1>1, <1>2 DEF Grows

\* The cadence is in the tasks.
LEMMA SetCadenceGrows ==
  ASSUME NEW x, Queue(x), NEW interval, NEW at
  PROVE  Grows(x, SetCadence(x, interval, at))
<1> DEFINE y == SetCadence(x, interval, at)
<1>1. y.jobs = x.jobs /\ y.lease = x.lease /\ {"jobs", "task", "lease"} \subseteq DOMAIN y
  BY DEF Queue, Jobs, SetCadence
<1> QED BY <1>1, TasksAreNotJobs

\* refresh_due_jobs, of one kind.
LEMMA RefreshKindGrows ==
  ASSUME NEW x, Queue(x), NEW kind \in Kinds, NEW low, NEW at
  PROVE  Grows(x, RefreshKind(x, kind, low, at))
<1> DEFINE y == RefreshKind(x, kind, low, at)
<1>1. CASE ~Due(x, kind, low, at)
  <2>1. y = x
    BY <1>1 DEF RefreshKind
  <2> QED BY <2>1, TasksAreNotJobs DEF Queue, Jobs
<1>2. CASE Due(x, kind, low, at)
  <2>1. \E k, slot, next : y = [EnqueueJobIfAbsent(x, kind, k, slot) EXCEPT !.task[kind] = next]
    BY <1>2 DEF RefreshKind
  <2>2. PICK z, next : Grows(x, z) /\ y = [z EXCEPT !.task[kind] = next]
    BY <2>1, EnqueueGrows
  <2> HIDE DEF y
  <2>3. y.jobs = z.jobs /\ y.lease = z.lease /\ {"jobs", "task", "lease"} \subseteq DOMAIN y
    BY <2>2 DEF Grows, Queue, Jobs
  <2>4. Grows(z, y)
    BY <2>2, <2>3, TasksAreNotJobs DEF Grows
  <2>5. Grows(x, y)
    BY <2>2, <2>4, GrowsTwice
  <2> QED BY <2>5 DEF y
<1> QED BY <1>1, <1>2

\* refresh_due_jobs, of the five kinds in turn.
LEMMA RefreshGrows ==
  ASSUME NEW x, Queue(x), NEW low, NEW at
  PROVE  Grows(x, RefreshDueJobs(x, low, at))
<1> DEFINE first  == RefreshKind(x, "AgentTurn", low, at)
           second == RefreshKind(first, "PollInbox", low, at)
           third  == RefreshKind(second, "CheckCycles", low, at)
           fourth == RefreshKind(third, "TopUpCycles", low, at)
           fifth  == RefreshKind(fourth, "Reconcile", low, at)
<1>0. {"AgentTurn", "PollInbox", "CheckCycles", "TopUpCycles", "Reconcile"} \subseteq Kinds
  BY DEF Kinds
<1>1. Grows(x, first)
  BY <1>0, RefreshKindGrows
<1> HIDE DEF first
<1>2. Grows(x, second)
  <2>1. Grows(first, second)
    BY <1>0, <1>1, RefreshKindGrows DEF Grows
  <2> QED BY <1>1, <2>1, GrowsTwice
<1> HIDE DEF second
<1>3. Grows(x, third)
  <2>1. Grows(second, third)
    BY <1>0, <1>2, RefreshKindGrows DEF Grows
  <2> QED BY <1>2, <2>1, GrowsTwice
<1> HIDE DEF third
<1>4. Grows(x, fourth)
  <2>1. Grows(third, fourth)
    BY <1>0, <1>3, RefreshKindGrows DEF Grows
  <2> QED BY <1>3, <2>1, GrowsTwice
<1> HIDE DEF fourth
<1>5. Grows(x, fifth)
  <2>1. Grows(fourth, fifth)
    BY <1>0, <1>4, RefreshKindGrows DEF Grows
  <2> QED BY <1>4, <2>1, GrowsTwice
<1> QED BY <1>5 DEF RefreshDueJobs, first, second, third, fourth

\* complete_job leaves the job its kind, and without a retry the status it is given.
LEMMA CompletedJob ==
  ASSUME NEW job, NEW status, NEW at, NEW retry, JobFields \subseteq DOMAIN job
  PROVE  /\ DOMAIN Completed(job, status, at, retry) = DOMAIN job
         /\ Completed(job, status, at, retry).kind = job.kind
         /\ retry = -1 => Completed(job, status, at, retry).status = status
  BY DEF Completed, Retries, JobFields

\* complete_job, whoever calls it: its own job changes, and loses the lease.
LEMMA CompleteEnds ==
  ASSUME NEW x, Queue(x), NEW id, NEW status, NEW at, NEW retry, id # 0
  PROVE  /\ Ends(x, CompleteJob(x, id, status, at, retry), id)
         /\ id \in 1..Len(x.jobs) /\ retry = -1
              => CompleteJob(x, id, status, at, retry).jobs[id].status = status
<1> DEFINE y   == CompleteJob(x, id, status, at, retry)
           job == Completed(x.jobs[id], status, at, retry)
<1>1. /\ y.jobs = Updated(x.jobs, id, job)
      /\ y.lease = IF x.lease.job = id THEN NoLease ELSE x.lease
      /\ {"jobs", "task", "lease"} \subseteq DOMAIN y
  BY DEF CompleteJob, Queue, Jobs, Updated
<1>2. id \in 1..Len(x.jobs) =>
        /\ JobFields \subseteq DOMAIN job /\ job.kind \in Kinds
        /\ retry = -1 => job.status = status
  BY CompletedJob DEF Queue, Jobs
<1> HIDE DEF y, job
<1>3. /\ Table(y.jobs) /\ Len(y.jobs) = Len(x.jobs) /\ Len(x.jobs) \in Nat
      /\ \A j \in 1..Len(x.jobs) : y.jobs[j] = IF j = id THEN job ELSE x.jobs[j]
  BY <1>1, UpdateTable DEF Queue, Jobs
<1>4. Jobs(y)
  BY <1>1, <1>2, <1>3 DEF Queue, Jobs
<1>5. LeasedInFlight(y)
  BY <1>1, <1>3 DEF Queue, LeasedInFlight, NoLease
<1>6. Ends(x, y, id)
  BY <1>1, <1>3, <1>4, <1>5 DEF Ends, Queue
<1>7. id \in 1..Len(x.jobs) /\ retry = -1 => y.jobs[id].status = status
  BY <1>2, <1>3
<1> QED BY <1>6, <1>7 DEF y

\* recover_stale_lease: at most the job of an expired lease ends, and is not pending again.
LEMMA RecoverEnds ==
  ASSUME NEW x, Queue(x), NEW at, NEW y, y = RecoverStaleLease(x, at)
  PROVE  /\ Queue(y) /\ Len(y.jobs) = Len(x.jobs)
         /\ x.lease.job = 0 \/ ~(x.lease.until <= at) => y = x
         /\ \A i \in 1..Len(x.jobs) : y.jobs[i] # x.jobs[i] =>
              x.jobs[i].status = "InFlight" /\ y.jobs[i].status = "TimedOut"
<1>1. CASE x.lease.job # 0 /\ x.lease.until <= at
  <2> DEFINE id == x.lease.job
  <2>1. y = CompleteJob(x, id, "TimedOut", at, -1)
    BY <1>1 DEF RecoverStaleLease
  <2>2. id \in 1..Len(x.jobs) /\ x.jobs[id].status = "InFlight"
    BY <1>1 DEF Queue, LeasedInFlight
  <2>3. Ends(x, y, id) /\ y.jobs[id].status = "TimedOut"
    BY <1>1, <2>1, <2>2, CompleteEnds
  <2> QED BY <1>1, <2>2, <2>3 DEF Ends
<1>2. CASE ~(x.lease.job # 0 /\ x.lease.until <= at)
  BY <1>2 DEF RecoverStaleLease
<1> QED BY <1>1, <1>2

\* set_task_enabled: at most a pending job is deleted.
LEMMA SetTaskClears ==
  ASSUME NEW x, Queue(x), NEW kind, NEW enabled, NEW y, y = SetTaskEnabled(x, kind, enabled)
  PROVE  /\ Queue(y) /\ Len(y.jobs) = Len(x.jobs) /\ y.lease = x.lease
         /\ \A i \in 1..Len(x.jobs) : y.jobs[i] # x.jobs[i] =>
              x.jobs[i].status = "Pending" /\ y.jobs[i].status = "Deleted"
<1> DEFINE set == [x EXCEPT !.task[kind].enabled = enabled]
<1>1. set.jobs = x.jobs /\ set.lease = x.lease /\ {"jobs", "task", "lease"} \subseteq DOMAIN set
  BY DEF Queue, Jobs
<1>2. y = set \/ y = ClearPendingJob(set, kind)
  BY DEF SetTaskEnabled
<1> HIDE DEF set
<1>3. Queue(set)
  BY <1>1 DEF Queue, Jobs, LeasedInFlight
<1> DEFINE id  == set.task[kind].pending
           job == [set.jobs[id] EXCEPT !.status = "Deleted"]
<1>4. y = set \/ (/\ set.jobs[id].status = "Pending"
                  /\ y.jobs = Updated(set.jobs, id, job) /\ y.lease = set.lease
                  /\ {"jobs", "task", "lease"} \subseteq DOMAIN y)
  BY <1>1, <1>2 DEF ClearPendingJob, Updated
<1>5. CASE y = set
  BY <1>1, <1>3, <1>5
<1>6. CASE /\ set.jobs[id].status = "Pending"
           /\ y.jobs = Updated(set.jobs, id, job) /\ y.lease = set.lease
           /\ {"jobs", "task", "lease"} \subseteq DOMAIN y
  <2> HIDE DEF id
  <2>1. id \in 1..Len(set.jobs) =>
          /\ JobFields \subseteq DOMAIN job /\ job.kind \in Kinds /\ job.status = "Deleted"
    BY <1>3 DEF Queue, Jobs, JobFields
  <2> HIDE DEF job
  <2>2. /\ Table(y.jobs) /\ Len(y.jobs) = Len(set.jobs) /\ Len(set.jobs) \in Nat
        /\ \A j \in 1..Len(set.jobs) : y.jobs[j] = IF j = id THEN job ELSE set.jobs[j]
    BY <1>3, <1>6, UpdateTable DEF Queue, Jobs
  <2>3. Queue(y)
    BY <1>3, <1>6, <2>1, <2>2 DEF Queue, Jobs, LeasedInFlight
  <2> QED BY <1>1, <1>6, <2>1, <2>2, <2>3
<1> QED BY <1>4, <1>5, <1>6

\* Every kind has a place in the order of priority.
LEMMA PriorityType == \A kind \in Kinds : Priority(kind) \in 1..5
<1>1. \A kind \in Kinds : \E i \in 1..5 : ByPriority[i] = kind
  BY DEF Kinds, ByPriority
<1> QED BY <1>1 DEF Priority

\* pop_next_pending_job returns a pending job if it returns one.
LEMMA NextPendingIsPending ==
  ASSUME NEW x, Queue(x), NEW at, NEW id, id = NextPending(x, at), id # 0
  PROVE  id \in 1..Len(x.jobs) /\ x.jobs[id].status = "Pending"
<1> DEFINE due   == {i \in 1..Len(x.jobs) : x.jobs[i].status = "Pending" /\ x.jobs[i].at <= at}
           ranks == {Priority(x.jobs[i].kind) : i \in due}
           best  == Min(ranks)
           first == {i \in due : Priority(x.jobs[i].kind) = best}
<1>1. due # {} /\ id = Min(first)
  BY DEF NextPending
<1>2. Len(x.jobs) \in Nat
  BY JobsLen DEF Queue
<1>3. ranks \in SUBSET Nat /\ ranks # {}
  BY <1>1, PriorityType DEF Queue, Jobs
<1>4. best \in ranks
  BY <1>3, MinIsLeast
<1> HIDE DEF best
<1>5. first \in SUBSET Nat /\ first # {}
  BY <1>2, <1>4
<1>6. id \in first
  BY <1>1, <1>5, MinIsLeast
<1> QED BY <1>6

(***************************************************************************)
(* Mortality.  The terminal turn is named when it begins and is one that   *)
(* did begin; nothing locks a dead automaton.                              *)
(***************************************************************************)
MortalityFields == {"tier", "phase", "candidate", "checks", "turn"}

AgentShape == {"loop", "lock", "turns"} \subseteq DOMAIN agent /\ agent.turns \in Nat

MortalityInv ==
  /\ AgentShape
  /\ MortalityFields \subseteq DOMAIN mort /\ mort.phase \in MortalityPhases
  /\ mort.phase \in {"TerminalInProgress", "Dead"} =>
       mort.turn \in Nat \ {0} /\ mort.turn <= agent.turns
  /\ mort.phase = "Dead" => ~agent.lock

\* What DeathIsFinal says of a step.
DeathStep ==
  /\ PhaseRank(mort'.phase) >= PhaseRank(mort.phase)
  /\ mort.phase = "Dead" => agent'.turns = agent.turns /\ ~agent'.lock
  /\ mort'.phase = "Dead" => mort'.turn # 0 /\ mort'.turn <= agent'.turns

\* A phase ranks with itself.
LEMMA PhaseRanks ==
  ASSUME NEW p \in MortalityPhases
  PROVE  PhaseRank(p) \in 0..3
  BY DEF PhaseRank, MortalityPhases

\* Steps that leave the phase, the terminal turn and the count of turns alone.
LEMMA LivingStep ==
  ASSUME MortalityInv, AgentShape', mort' = mort, agent'.turns = agent.turns,
         mort.phase = "Dead" => ~agent'.lock
  PROVE  MortalityInv' /\ DeathStep
  BY PhaseRanks DEF MortalityInv, DeathStep

\* observe_mortality_resources moves a living automaton to its last turn at most.
LEMMA ObservePhase ==
  ASSUME MortalityInv, NEW observed
  PROVE  LET m == ObserveMortality(mort, observed)
         IN  /\ MortalityFields \subseteq DOMAIN m /\ m.turn = mort.turn
             /\ \/ m.phase = mort.phase
                \/ mort.phase = "Alive" /\ m.phase = "TerminalPending"
<1> DEFINE seen == ObserveTier(mort, observed)
<1>1. MortalityFields \subseteq DOMAIN seen /\ seen.turn = mort.turn /\ seen.phase = mort.phase
  BY DEF ObserveTier, SettleTier, MortalityInv, MortalityFields
<1> HIDE DEF seen
<1>2. ObserveMortality(mort, observed)
        = IF mort.phase = "Dead" THEN mort
          ELSE IF seen.tier = "Terminal" /\ seen.phase = "Alive"
               THEN [seen EXCEPT !.phase = "TerminalPending"] ELSE seen
  BY DEF ObserveMortality, seen
<1> QED BY <1>1, <1>2 DEF MortalityInv, MortalityFields

\* Every step keeps what is known of the terminal turn, and is one DeathIsFinal allows.
LEMMA MortalityStep == MortalityInv /\ [RtNext]_rtVars => MortalityInv' /\ DeathStep
<1> SUFFICES ASSUME MortalityInv, [RtNext]_rtVars PROVE MortalityInv' /\ DeathStep
  OBVIOUS
<1>1. CASE mort' = mort /\ agent' = agent
  BY <1>1, LivingStep DEF MortalityInv, AgentShape
<1>2. CASE ControllerCall
  BY <1>2, LivingStep DEF ControllerCall, MortalityInv, AgentShape
<1>3. ASSUME NEW t \in Ticks, TickStart(t) PROVE MortalityInv' /\ DeathStep
  BY <1>3, LivingStep DEF TickStart, RecoverOrphanedLock, MortalityInv, AgentShape
<1>4. ASSUME NEW t \in Ticks, BeginTurn(t) PROVE MortalityInv' /\ DeathStep
  <2>1. /\ mort.phase # "Dead" /\ mort' = BeginTerminalTurn(mort, agent.turns + 1)
        /\ AgentShape' /\ agent'.turns = agent.turns + 1 /\ agent.turns \in Nat
    BY <1>4 DEF BeginTurn, TurnRefused, MortalityInv, AgentShape
  <2>2. CASE mort.phase = "TerminalPending"
    <3>1. /\ MortalityFields \subseteq DOMAIN mort' /\ mort'.turn = agent.turns + 1
          /\ mort'.phase = "TerminalInProgress"
      BY <2>1, <2>2 DEF BeginTerminalTurn, MortalityInv, MortalityFields
    <3> QED BY <2>1, <2>2, <3>1 DEF MortalityInv, DeathStep, MortalityPhases, PhaseRank
  <2>3. CASE mort.phase # "TerminalPending"
    <3>1. mort' = mort
      BY <2>1, <2>3 DEF BeginTerminalTurn
    <3> QED BY <2>1, <3>1, PhaseRanks DEF MortalityInv, DeathStep
  <2> QED BY <2>2, <2>3
<1>5. ASSUME NEW t \in Ticks, CheckCycles(t) PROVE MortalityInv' /\ DeathStep
  <2>1. agent' = agent /\ \E observed : mort' = ObserveMortality(mort, observed)
    BY <1>5 DEF CheckCycles
  <2>2. /\ MortalityFields \subseteq DOMAIN mort' /\ mort'.turn = mort.turn
        /\ \/ mort'.phase = mort.phase
           \/ mort.phase = "Alive" /\ mort'.phase = "TerminalPending"
    BY <2>1, ObservePhase
  <2>3. PhaseRank(mort'.phase) >= PhaseRank(mort.phase)
    <3>1. CASE mort'.phase = mort.phase
      BY <3>1, PhaseRanks DEF MortalityInv
    <3>2. CASE mort.phase = "Alive" /\ mort'.phase = "TerminalPending"
      BY <3>2 DEF PhaseRank
    <3> QED BY <2>2, <3>1, <3>2
  <2> QED BY <2>1, <2>2, <2>3 DEF MortalityInv, AgentShape, DeathStep, MortalityPhases
<1>6. ASSUME NEW t \in Ticks, TurnReturns(t) PROVE MortalityInv' /\ DeathStep
  BY <1>6, LivingStep DEF TurnReturns, CompleteTurn, MortalityInv, AgentShape
<1>7. ASSUME NEW t \in Ticks, Die(t) PROVE MortalityInv' /\ DeathStep
  <2>1. CASE CompletesTerminalTurn(mort, ticks[t].turn)
    <3>1. /\ mort.phase = "TerminalInProgress" /\ mort'.phase = "Dead" /\ mort'.turn = mort.turn
          /\ MortalityFields \subseteq DOMAIN mort'
      BY <1>7, <2>1 DEF Die, CompleteTerminalTurn, CompletesTerminalTurn, MortalityInv,
                        MortalityFields
    <3>2. AgentShape' /\ agent'.turns = agent.turns /\ ~agent'.lock
      BY <1>7, <2>1 DEF Die, MortalityInv, AgentShape
    <3> QED BY <3>1, <3>2 DEF MortalityInv, AgentShape, DeathStep, MortalityPhases, PhaseRank
  <2>2. CASE ~CompletesTerminalTurn(mort, ticks[t].turn)
    <3>1. mort' = mort /\ agent' = agent
      BY <1>7, <2>2 DEF Die, CompleteTerminalTurn
    <3> QED BY <1>1, <3>1
  <2> QED BY <2>1, <2>2
<1>8. ASSUME NEW t \in Ticks,
             \/ TickOfTheDead(t) \/ TickEnd(t) \/ SkipBlocked(t) \/ Dispatch(t)
             \/ TurnReturnsAtOnce(t) \/ DispatchReturns(t) \/ TopUpWaits(t) \/ Trap(t)
      PROVE  mort' = mort /\ agent' = agent
  BY <1>8 DEF TickOfTheDead, TickEnd, SkipBlocked, Dispatch, TurnReturnsAtOnce,
              DispatchReturns, TopUpWaits, Trap
<1>9. ASSUME AdvanceTime \/ Upgrade \/ (\E key \in WakeKeys : Wake(key)) \/ UNCHANGED rtVars
      PROVE  mort' = mort /\ agent' = agent
  BY <1>9 DEF AdvanceTime, Upgrade, Wake, rtVars
<1> QED BY <1>1, <1>2, <1>3, <1>4, <1>5, <1>6, <1>7, <1>8, <1>9 DEF RtNext

\* A newborn satisfies the invariant.
LEMMA MortalityInit == RtInit => MortalityInv
  BY DEF RtInit, MortalityInv, AgentShape, Newborn, MortalityFields, MortalityPhases

\* Death is approached in one direction, by the one terminal turn that was begun, and no turn
\* begins and no lock is taken after it, whatever a controller switches on again meanwhile.
THEOREM DeathIsFinalAlways == RtSpec => DeathIsFinal
<1>1. MortalityInv /\ [RtNext]_rtVars =>
        [/\ PhaseRank(mort'.phase) >= PhaseRank(mort.phase)
         /\ mort.phase = "Dead" => agent'.turns = agent.turns /\ ~agent'.lock
         /\ mort'.phase = "Dead" => mort'.turn # 0 /\ mort'.turn <= agent'.turns]_rtVars
  BY MortalityStep DEF DeathStep
<1> QED BY <1>1, MortalityInit, MortalityStep, PTL DEF RtSpec, DeathIsFinal

(***************************************************************************)
(* Leases.  That a suspended dispatch keeps its lease is not inductive: it *)
(* rests on the lease naming a job in flight (Queue), on dispatches having *)
(* jobs of their own that are not pending (JobsApart), so that a late one  *)
(* completes no other's, and on the turn within its lease being the last   *)
(* that began (TurnsApart), so that a late one releases no other's lock.   *)
(***************************************************************************)
TickFields == {"pc", "job", "n", "until", "turn", "last", "error"}

TicksShape == DOMAIN ticks = Ticks /\ \A t \in Ticks : TickFields \subseteq DOMAIN ticks[t]

JobsApart == \A t \in Ticks : Running(t) =>
  /\ ticks[t].until \in Nat
  /\ ticks[t].job \in 1..Len(q.jobs) /\ q.jobs[ticks[t].job].status # "Pending"
  /\ \A u \in Ticks \ {t} : Running(u) => ticks[u].job # ticks[t].job

TurnsApart == \A t \in Ticks : ticks[t].pc = "turn" =>
  /\ ticks[t].turn \in Nat /\ ticks[t].turn <= agent.turns
  /\ now < ticks[t].until => ticks[t].turn = agent.turns
  /\ \A u \in Ticks \ {t} : ticks[u].pc = "turn" => ticks[u].turn # ticks[t].turn

RtInv == /\ now \in Nat /\ TicksShape /\ Queue(q) /\ MortalityInv
         /\ JobsApart /\ TurnsApart /\ RunningHoldsTheLease

\* What FinishedStaysFinished says of a step.
FinishedStep ==
  \A i \in 1..Len(q.jobs) :
    IsTerminal(q.jobs[i]) /\ q'.jobs[i] # q.jobs[i] =>
      \E t \in Ticks : Running(t) /\ ticks[t].job = i /\ now >= ticks[t].until

\* A dispatch of t that was under way is under way still, in the same turn.
GoesOn(t) ==
  /\ Running(t) /\ ticks'[t].job = ticks[t].job
  /\ ticks'[t].until = ticks[t].until /\ ticks'[t].turn = ticks[t].turn
  /\ ticks'[t].pc = "turn" => ticks[t].pc = "turn"

\* The queue does nothing to the dispatches that go on.
Spares(t) ==
  /\ ticks[t].job \in 1..Len(q'.jobs) /\ q'.jobs[ticks[t].job].status # "Pending"
  /\ now < ticks[t].until =>
       q'.lease = q.lease /\ q'.jobs[ticks[t].job].status = "InFlight"

\* A dispatch within its lease keeps the lease active.
LEMMA LeaseIsActive ==
  ASSUME RtInv, NEW t \in Ticks, Running(t), now < ticks[t].until
  PROVE  /\ LeaseActive(q, now) /\ q.lease.job = ticks[t].job /\ q.lease.until = ticks[t].until
         /\ q.jobs[ticks[t].job].status = "InFlight"
<1>1. q.lease = [job |-> ticks[t].job, until |-> ticks[t].until]
      /\ q.jobs[ticks[t].job].status = "InFlight"
  BY DEF RtInv, RunningHoldsTheLease
<1>2. ticks[t].job # 0 /\ ticks[t].until \in Nat /\ now \in Nat
  BY DEF RtInv, JobsApart
<1> QED BY <1>1, <1>2 DEF LeaseActive

\* A step in which no dispatch begins, and those that go on are spared.
LEMMA NothingBegins ==
  ASSUME RtInv, TicksShape', Queue(q'), MortalityInv',
         now' \in Nat, now' >= now, agent'.turns = agent.turns,
         \A u \in Ticks : Running(u)' => GoesOn(u) /\ Spares(u),
         \A u \in Ticks : Running(u)' /\ ticks'[u].pc = "turn" /\ now < ticks[u].until =>
           agent'.lock \/ mort'.phase = "Dead"
  PROVE  RtInv'
<1>1. JobsApart'
  <2> SUFFICES ASSUME NEW t \in Ticks, Running(t)'
               PROVE  /\ ticks'[t].until \in Nat
                      /\ ticks'[t].job \in 1..Len(q'.jobs)
                      /\ q'.jobs[ticks'[t].job].status # "Pending"
                      /\ \A u \in Ticks \ {t} : Running(u)' => ticks'[u].job # ticks'[t].job
    BY DEF JobsApart
  <2> QED BY DEF RtInv, JobsApart, GoesOn, Spares
<1>2. TurnsApart'
  <2> SUFFICES ASSUME NEW t \in Ticks, ticks'[t].pc = "turn"
               PROVE  /\ ticks'[t].turn \in Nat /\ ticks'[t].turn <= agent'.turns
                      /\ now' < ticks'[t].until => ticks'[t].turn = agent'.turns
                      /\ \A u \in Ticks \ {t} : ticks'[u].pc = "turn" => ticks'[u].turn # ticks'[t].turn
    BY DEF TurnsApart
  <2>1. \A u \in Ticks : ticks'[u].pc = "turn" => ticks[u].pc = "turn" /\ GoesOn(u)
    BY DEF Running, GoesOn
  <2>2. ticks[t].until \in Nat
    BY <2>1 DEF RtInv, JobsApart, GoesOn
  <2> QED BY <2>1, <2>2 DEF RtInv, TurnsApart, GoesOn
<1>3. RunningHoldsTheLease'
  <2> SUFFICES ASSUME NEW t \in Ticks, Running(t)', now' < ticks'[t].until
               PROVE  /\ q'.lease = [job |-> ticks'[t].job, until |-> ticks'[t].until]
                      /\ q'.jobs[ticks'[t].job].status = "InFlight"
                      /\ ticks'[t].pc = "turn" => agent'.lock \/ mort'.phase = "Dead"
    BY DEF RunningHoldsTheLease
  <2>1. GoesOn(t) /\ Spares(t) /\ ticks[t].until \in Nat
    BY DEF GoesOn, RtInv, JobsApart
  <2>2. Running(t) /\ now < ticks[t].until
    BY <2>1 DEF GoesOn, RtInv
  <2> QED BY <2>1, <2>2 DEF RtInv, RunningHoldsTheLease, GoesOn, Spares
<1> QED BY <1>1, <1>2, <1>3 DEF RtInv

\* A tick that stops running leaves the other as it is.
LEMMA StepAway ==
  ASSUME RtInv, NEW t \in Ticks, NEW e, Step(t, e), TickFields \subseteq DOMAIN e,
         e.pc \notin {"await", "turn", "report"}
  PROVE  TicksShape' /\ \A u \in Ticks : Running(u)' => u # t /\ GoesOn(u) /\ ticks'[u] = ticks[u]
<1>1. DOMAIN ticks' = Ticks /\ \A u \in Ticks : ticks'[u] = IF u = t THEN e ELSE ticks[u]
  BY DEF RtInv, TicksShape, Step
<1>2. TicksShape'
  BY <1>1 DEF RtInv, TicksShape
<1> QED BY <1>1, <1>2 DEF Running, GoesOn

\* The ticks that end, go on with the loop or are thrown away are such.
LEMMA TickEnds ==
  ASSUME RtInv, NEW t \in Ticks, EndTick(t) \/ NextJob(t)
  PROVE  TicksShape' /\ \A u \in Ticks : Running(u)' => u # t /\ GoesOn(u) /\ ticks'[u] = ticks[u]
<1>1. CASE EndTick(t)
  <2>1. Step(t, IdleTick) /\ TickFields \subseteq DOMAIN IdleTick /\ IdleTick.pc = "idle"
    BY <1>1 DEF EndTick, IdleTick, TickFields
  <2> QED BY <2>1, StepAway
<1>2. CASE NextJob(t)
  <2> DEFINE e == [IdleTick EXCEPT !.pc = "loop", !.n = ticks[t].n + 1]
  <2>1. Step(t, e) /\ TickFields \subseteq DOMAIN e /\ e.pc = "loop"
    BY <1>2 DEF NextJob, IdleTick, TickFields
  <2> HIDE DEF e
  <2> QED BY <2>1, StepAway
<1> QED BY <1>1, <1>2

\* Steps that leave the queue alone.
LEMMA QueueRests ==
  ASSUME RtInv, q' = q
  PROVE  Queue(q') /\ FinishedStep /\ \A u \in Ticks : Running(u) => Spares(u)
<1>1. \A u \in Ticks : Running(u) => Spares(u)
  BY LeaseIsActive DEF RtInv, JobsApart, Spares
<1> QED BY <1>1 DEF RtInv, FinishedStep

\* The first ticks of a message, and the last: the queue is as it was.
LEMMA IdleSteps ==
  ASSUME RtInv, MortalityInv', NEW t \in Ticks, TickOfTheDead(t) \/ TickEnd(t)
  PROVE  RtInv' /\ FinishedStep
<1>1. EndTick(t) /\ UNCHANGED <<now, q, agent, mort>>
  BY DEF TickOfTheDead, TickEnd
<1>2. TicksShape' /\ \A u \in Ticks : Running(u)' => GoesOn(u) /\ ticks'[u] = ticks[u]
  BY <1>1, TickEnds
<1>3. Queue(q') /\ FinishedStep /\ \A u \in Ticks : Running(u)' => Spares(u)
  BY <1>1, <1>2, QueueRests DEF GoesOn
<1>4. \A u \in Ticks : Running(u)' /\ ticks'[u].pc = "turn" /\ now < ticks[u].until =>
        agent'.lock \/ mort'.phase = "Dead"
  BY <1>1, <1>2 DEF RtInv, RunningHoldsTheLease, GoesOn
<1> QED BY <1>1, <1>2, <1>3, <1>4, NothingBegins DEF RtInv

\* A tick begins: what it recovers is an expired lease, and the lock only without a lease.
LEMMA TickStartKeeps ==
  ASSUME RtInv, MortalityInv', NEW t \in Ticks, TickStart(t)
  PROVE  RtInv' /\ FinishedStep
<1> DEFINE rec == RecoverStaleLease(q, now)
<1>1. /\ now' = now /\ mort' = mort /\ agent' = RecoverOrphanedLock(agent, rec)
      /\ q' = rec \/ q' = RefreshDueJobs(rec, sched.low, now)
  BY DEF TickStart
<1>2. TicksShape' /\ \A u \in Ticks : Running(u)' => GoesOn(u) /\ ticks'[u] = ticks[u]
  <2>1. PICK e : Step(t, e) /\ TickFields \subseteq DOMAIN e /\ e.pc \notin {"await", "turn", "report"}
    BY DEF TickStart, EndTick, IdleTick, TickFields
  <2> QED BY <2>1, StepAway
<1>3. /\ Queue(rec) /\ Len(rec.jobs) = Len(q.jobs)
      /\ q.lease.job = 0 \/ ~(q.lease.until <= now) => rec = q
      /\ \A i \in 1..Len(q.jobs) : rec.jobs[i] # q.jobs[i] =>
           q.jobs[i].status = "InFlight" /\ rec.jobs[i].status = "TimedOut"
  BY RecoverEnds DEF RtInv
<1> HIDE DEF rec
<1>4. Grows(rec, q')
  BY <1>1, <1>3, RefreshGrows, TasksAreNotJobs DEF Queue, Jobs
<1>5. FinishedStep
  BY <1>3, <1>4 DEF FinishedStep, Grows, IsTerminal
<1>6. ASSUME NEW u \in Ticks, Running(u), now < ticks[u].until PROVE rec = q /\ LeaseActive(rec, now)
  <2>1. LeaseActive(q, now) /\ now \in Nat /\ q.lease.until \in Nat
    BY <1>6, LeaseIsActive DEF RtInv, JobsApart
  <2> QED BY <1>3, <2>1 DEF LeaseActive
<1>7. ASSUME NEW u \in Ticks, Running(u) PROVE Spares(u)
  <2>1. /\ ticks[u].job \in 1..Len(q.jobs) /\ q.jobs[ticks[u].job].status # "Pending"
        /\ Len(q.jobs) \in Nat /\ Len(q'.jobs) \in Nat
    BY <1>4, <1>7, JobsLen DEF RtInv, JobsApart, Queue, Grows
  <2>2. ticks[u].job \in 1..Len(q'.jobs) /\ q'.jobs[ticks[u].job] = rec.jobs[ticks[u].job]
    BY <1>3, <1>4, <2>1 DEF Grows
  <2>3. rec.jobs[ticks[u].job].status # "Pending"
    BY <1>3, <2>1
  <2>4. now < ticks[u].until => q'.lease = q.lease /\ q'.jobs[ticks[u].job].status = "InFlight"
    BY <1>4, <1>6, <1>7, <2>2, LeaseIsActive DEF Grows
  <2> QED BY <2>2, <2>3, <2>4 DEF Spares
<1>8. ASSUME NEW u \in Ticks, Running(u)', ticks'[u].pc = "turn", now < ticks[u].until
      PROVE  agent'.lock \/ mort'.phase = "Dead"
  <2>1. agent' = agent
    BY <1>1, <1>2, <1>6, <1>8 DEF GoesOn, RecoverOrphanedLock
  <2> QED BY <1>1, <1>2, <1>8, <2>1 DEF RtInv, RunningHoldsTheLease, GoesOn
<1>9. agent'.turns = agent.turns
  BY <1>1 DEF RecoverOrphanedLock, RtInv, MortalityInv, AgentShape
<1>10. Queue(q')
  BY <1>4 DEF Grows
<1>11. \A u \in Ticks : Running(u)' => GoesOn(u) /\ Spares(u)
  BY <1>2, <1>7 DEF GoesOn
<1> QED BY <1>1, <1>2, <1>5, <1>8, <1>9, <1>10, <1>11, NothingBegins DEF RtInv

\* run_one_pending_mutating_job takes a pending job, which then holds the lease.
LEMMA TakesPending ==
  ASSUME RtInv, NEW t \in Ticks, ~NothingToRun(t)
  PROVE  /\ Taken.id \in 1..Len(q.jobs) /\ q.jobs[Taken.id].status = "Pending"
         /\ Taken.kind \in Kinds /\ Queue(Taken.q) /\ Len(Taken.q.jobs) = Len(q.jobs)
         /\ \A i \in 1..Len(q.jobs) : i # Taken.id => Taken.q.jobs[i] = q.jobs[i]
         /\ Taken.q.jobs[Taken.id].status = "InFlight"
         /\ Taken.q.lease = [job |-> Taken.id, until |-> now + LeaseTtl[Taken.kind]]
         /\ now + LeaseTtl[Taken.kind] \in Nat /\ now < now + LeaseTtl[Taken.kind]
<1> DEFINE id  == NextPending(q, now)
           job == [q.jobs[id] EXCEPT !.status = "InFlight"]
           x   == PopPendingJob(q, id)
           y   == AcquireMutatingLease(x, id, now)
<1>1. id \in 1..Len(q.jobs) /\ q.jobs[id].status = "Pending" /\ q.jobs[id].kind \in Kinds
  BY NextPendingIsPending DEF NothingToRun, RtInv, Queue, Jobs
<1>2. Taken.id = id /\ Taken.kind = q.jobs[id].kind /\ Taken.q = y
  BY DEF Taken
<1>3. /\ x.jobs = Updated(q.jobs, id, job) /\ x.lease = q.lease
      /\ {"jobs", "task", "lease"} \subseteq DOMAIN x
  BY DEF PopPendingJob, Updated, RtInv, Queue, Jobs
<1>4. /\ JobFields \subseteq DOMAIN job /\ job.kind = q.jobs[id].kind /\ job.status = "InFlight"
  BY <1>1 DEF RtInv, Queue, Jobs, JobFields
<1> HIDE DEF x, job, id
<1>5. /\ Table(x.jobs) /\ Len(x.jobs) = Len(q.jobs) /\ Len(q.jobs) \in Nat
      /\ \A j \in 1..Len(q.jobs) : x.jobs[j] = IF j = id THEN job ELSE q.jobs[j]
  BY <1>3, UpdateTable DEF RtInv, Queue, Jobs
<1>6. /\ y.jobs = x.jobs /\ {"jobs", "task", "lease"} \subseteq DOMAIN y
      /\ y.lease = [job |-> id, until |-> now + LeaseTtl[q.jobs[id].kind]]
  BY <1>1, <1>3, <1>4, <1>5 DEF AcquireMutatingLease
<1> HIDE DEF y
<1>7. Queue(y)
  <2>1. Jobs(y)
    BY <1>1, <1>4, <1>5, <1>6 DEF RtInv, Queue, Jobs
  <2>2. LeasedInFlight(y)
    BY <1>1, <1>4, <1>5, <1>6 DEF LeasedInFlight
  <2> QED BY <2>1, <2>2 DEF Queue
<1>8. LeaseTtl[q.jobs[id].kind] \in Nat \ {0} /\ now \in Nat
  BY <1>1, JobsAssumption DEF RtInv
<1> QED BY <1>1, <1>2, <1>4, <1>5, <1>6, <1>7, <1>8

\* When a job is taken, no dispatch under way is within its lease, and none has that job.
LEMMA TakenIsNobodys ==
  ASSUME RtInv, NEW t \in Ticks, ~NothingToRun(t), NEW u \in Ticks, Running(u)
  PROVE  ~(now < ticks[u].until) /\ ticks[u].job # Taken.id
<1>1. ~LeaseActive(q, now)
  BY DEF NothingToRun
<1> QED BY <1>1, TakesPending, LeaseIsActive DEF RtInv, JobsApart

\* A job that is taken and completed in one message: skipped, an early return, or CheckCycles,
\* which enqueues others in between.
LEMMA TakenAndCompleted ==
  ASSUME RtInv, MortalityInv', NEW t \in Ticks, ~NothingToRun(t), NextJob(t),
         NEW z, Grows(Taken.q, z), NEW status, q' = CompleteJob(z, Taken.id, status, now, -1),
         now' = now, agent' = agent
  PROVE  RtInv' /\ FinishedStep
<1>1. /\ Taken.id \in 1..Len(q.jobs) /\ q.jobs[Taken.id].status = "Pending"
      /\ Queue(Taken.q) /\ Len(Taken.q.jobs) = Len(q.jobs)
      /\ \A i \in 1..Len(q.jobs) : i # Taken.id => Taken.q.jobs[i] = q.jobs[i]
  BY TakesPending
<1>2. Queue(z) /\ Len(q.jobs) \in Nat /\ Len(z.jobs) \in Nat
  BY JobsLen DEF Grows, Queue, RtInv
<1>3. Ends(z, q', Taken.id)
  BY <1>1, <1>2, CompleteEnds
<1>4. /\ Queue(q') /\ Len(q.jobs) <= Len(q'.jobs) /\ Len(q'.jobs) \in Nat
      /\ \A i \in 1..Len(q.jobs) : i # Taken.id => q'.jobs[i] = q.jobs[i]
  <2>1. /\ Len(q.jobs) <= Len(z.jobs)
        /\ \A i \in 1..Len(q.jobs) : z.jobs[i] = Taken.q.jobs[i]
    BY <1>1 DEF Grows
  <2>2. /\ Queue(q') /\ Len(q'.jobs) = Len(z.jobs)
        /\ \A i \in 1..Len(z.jobs) : i # Taken.id => q'.jobs[i] = z.jobs[i]
    BY <1>3 DEF Ends
  <2>3. \A i \in 1..Len(q.jobs) : i \in 1..Len(z.jobs)
    BY <1>2, <2>1
  <2>4. \A i \in 1..Len(q.jobs) : i # Taken.id => q'.jobs[i] = q.jobs[i]
    BY <1>1, <2>1, <2>2, <2>3
  <2> QED BY <1>2, <2>1, <2>2, <2>4
<1>5. FinishedStep
  BY <1>1, <1>4 DEF FinishedStep, IsTerminal
<1>6. TicksShape' /\ \A u \in Ticks : Running(u)' => GoesOn(u)
  BY TickEnds
<1>7. \A u \in Ticks : Running(u) => Spares(u) /\ ~(now < ticks[u].until)
  BY <1>2, <1>4, TakenIsNobodys DEF Spares, RtInv, JobsApart
<1> QED BY <1>4, <1>5, <1>6, <1>7, NothingBegins DEF RtInv, GoesOn

\* Skips, early returns and CheckCycles.
LEMMA InMessageKeeps ==
  ASSUME RtInv, MortalityInv', NEW t \in Ticks,
         SkipBlocked(t) \/ TurnReturnsAtOnce(t) \/ CheckCycles(t)
  PROVE  RtInv' /\ FinishedStep
<1>1. NextJob(t) /\ now' = now /\ agent' = agent /\ ~NothingToRun(t)
  BY DEF SkipBlocked, TurnReturnsAtOnce, CheckCycles, Dispatches
<1>2. Queue(Taken.q)
  BY <1>1, TakesPending
<1>3. CASE SkipBlocked(t) \/ TurnReturnsAtOnce(t)
  <2>1. \E status : q' = CompleteJob(Taken.q, Taken.id, status, now, -1)
    BY <1>3 DEF SkipBlocked, TurnReturnsAtOnce
  <2>2. Grows(Taken.q, Taken.q)
    BY <1>2, TasksAreNotJobs DEF Queue, Jobs
  <2> QED BY <1>1, <2>1, <2>2, TakenAndCompleted
<1>4. CASE CheckCycles(t)
  <2>1. PICK seen, topUp :
          LET m     == ObserveMortality(mort, seen[2])
              paced == IF mort.phase = "Dead" THEN Taken.q ELSE SetCadence(Taken.q, Cadence[m.tier], now)
              final == IF m.phase = "TerminalPending"
                       THEN EnqueueJobIfAbsent(paced, "AgentTurn", <<"AgentTurn", "terminal", 0>>, now)
                       ELSE paced
              fed   == IF topUp THEN EnqueueJobIfAbsent(final, "TopUpCycles", TopUpKey, now) ELSE final
          IN  q' = CompleteJob(fed, Taken.id, "Succeeded", now, -1)
    BY <1>4 DEF CheckCycles
  <2> DEFINE m     == ObserveMortality(mort, seen[2])
             paced == IF mort.phase = "Dead" THEN Taken.q ELSE SetCadence(Taken.q, Cadence[m.tier], now)
             final == IF m.phase = "TerminalPending"
                      THEN EnqueueJobIfAbsent(paced, "AgentTurn", <<"AgentTurn", "terminal", 0>>, now)
                      ELSE paced
             fed   == IF topUp THEN EnqueueJobIfAbsent(final, "TopUpCycles", TopUpKey, now) ELSE final
  <2>2. q' = CompleteJob(fed, Taken.id, "Succeeded", now, -1)
    BY <2>1
  <2>3. {"AgentTurn", "TopUpCycles"} \subseteq Kinds /\ Grows(Taken.q, Taken.q)
    BY <1>2, TasksAreNotJobs DEF Kinds, Queue, Jobs
  <2> HIDE DEF m
  <2>4. Grows(Taken.q, paced)
    BY <1>2, <2>3, SetCadenceGrows
  <2> HIDE DEF paced
  <2>5. Grows(Taken.q, final)
    <3>1. Grows(paced, final) \/ final = paced
      BY <2>3, <2>4, EnqueueGrows DEF Grows
    <3> HIDE DEF final
    <3> QED BY <1>2, <2>4, <3>1, GrowsTwice
  <2> HIDE DEF final
  <2>6. Grows(Taken.q, fed)
    <3>1. Grows(final, fed) \/ fed = final
      BY <2>3, <2>5, EnqueueGrows DEF Grows
    <3> HIDE DEF fed
    <3> QED BY <1>2, <2>5, <3>1, GrowsTwice
  <2> HIDE DEF fed
  <2> QED BY <1>1, <2>2, <2>6, TakenAndCompleted
<1> QED BY <1>3, <1>4

\* A dispatch that calls out begins with the lease, and a turn with the lock.
LEMMA DispatchBegins ==
  ASSUME RtInv, MortalityInv', TicksShape', NEW t \in Ticks, ~NothingToRun(t),
         q' = Taken.q, now' = now,
         \A u \in Ticks \ {t} : ticks'[u] = ticks[u],
         ticks'[t].job = Taken.id, ticks'[t].until = now + LeaseTtl[Taken.kind],
         \/ ticks'[t].pc = "await" /\ agent'.turns = agent.turns
         \/ /\ ticks'[t].pc = "turn" /\ ticks'[t].turn = agent.turns + 1
            /\ agent'.turns = agent.turns + 1 /\ agent'.lock
  PROVE  RtInv' /\ FinishedStep
<1>1. /\ Taken.id \in 1..Len(q.jobs) /\ q.jobs[Taken.id].status = "Pending"
      /\ Queue(q') /\ Len(q'.jobs) = Len(q.jobs)
      /\ \A i \in 1..Len(q.jobs) : i # Taken.id => q'.jobs[i] = q.jobs[i]
      /\ q'.jobs[Taken.id].status = "InFlight"
      /\ q'.lease = [job |-> Taken.id, until |-> now + LeaseTtl[Taken.kind]]
      /\ now + LeaseTtl[Taken.kind] \in Nat
  BY TakesPending
<1>2. \A u \in Ticks : Running(u) => ~(now < ticks[u].until) /\ ticks[u].job # Taken.id
  BY TakenIsNobodys
<1>3. agent.turns \in Nat /\ now \in Nat
  BY DEF RtInv, MortalityInv, AgentShape
<1>4. JobsApart'
  <2> SUFFICES ASSUME NEW r \in Ticks, Running(r)'
               PROVE  /\ ticks'[r].until \in Nat
                      /\ ticks'[r].job \in 1..Len(q'.jobs)
                      /\ q'.jobs[ticks'[r].job].status # "Pending"
                      /\ \A u \in Ticks \ {r} : Running(u)' => ticks'[u].job # ticks'[r].job
    BY DEF JobsApart
  <2>1. CASE r = t
    BY <1>1, <1>2, <2>1 DEF Running
  <2>2. CASE r # t
    <3>1. Running(r) /\ ticks'[r] = ticks[r]
      BY <2>2 DEF Running
    <3>2. /\ ticks[r].until \in Nat /\ ticks[r].job \in 1..Len(q.jobs)
          /\ q.jobs[ticks[r].job].status # "Pending" /\ ticks[r].job # Taken.id
          /\ \A u \in Ticks \ {r} : Running(u) => ticks[u].job # ticks[r].job
      BY <1>2, <3>1 DEF RtInv, JobsApart
    <3> QED BY <1>1, <3>1, <3>2 DEF Running
  <2> QED BY <2>1, <2>2
<1>5. TurnsApart'
  <2>1. \A u \in Ticks \ {t} : ticks[u].pc = "turn" =>
          ticks[u].turn \in Nat /\ ticks[u].turn <= agent.turns /\ ~(now < ticks[u].until)
    BY <1>2 DEF RtInv, TurnsApart, Running
  <2> QED BY <1>3, <2>1 DEF RtInv, TurnsApart
<1>6. RunningHoldsTheLease'
  <2> SUFFICES ASSUME NEW r \in Ticks, Running(r)', now' < ticks'[r].until
               PROVE  /\ q'.lease = [job |-> ticks'[r].job, until |-> ticks'[r].until]
                      /\ q'.jobs[ticks'[r].job].status = "InFlight"
                      /\ ticks'[r].pc = "turn" => agent'.lock \/ mort'.phase = "Dead"
    BY DEF RunningHoldsTheLease
  <2>1. r = t
    BY <1>2 DEF Running
  <2> QED BY <1>1, <2>1
<1>7. FinishedStep
  BY <1>1 DEF FinishedStep, IsTerminal
<1> QED BY <1>1, <1>3, <1>4, <1>5, <1>6, <1>7 DEF RtInv

\* The dispatch of a task that calls out.
LEMMA DispatchKeeps ==
  ASSUME RtInv, MortalityInv', NEW t \in Ticks, Dispatch(t)
  PROVE  RtInv' /\ FinishedStep
<1>1. /\ ~NothingToRun(t) /\ q' = Taken.q /\ now' = now /\ agent' = agent
      /\ Step(t, Suspended(t, "await"))
  BY DEF Dispatch, Dispatches
<1> DEFINE e == Suspended(t, "await")
<1>2. /\ TickFields \subseteq DOMAIN e /\ e.pc = "await" /\ e.job = Taken.id
      /\ e.until = now + LeaseTtl[Taken.kind]
  BY DEF Suspended, RtInv, TicksShape, TickFields
<1> HIDE DEF e
<1>3. DOMAIN ticks' = Ticks /\ \A u \in Ticks : ticks'[u] = IF u = t THEN e ELSE ticks[u]
  BY <1>1 DEF e, RtInv, TicksShape, Step
<1>4. TicksShape'
  BY <1>2, <1>3 DEF RtInv, TicksShape
<1> QED BY <1>1, <1>2, <1>3, <1>4, DispatchBegins

\* The beginning of a turn.
LEMMA BeginTurnKeeps ==
  ASSUME RtInv, MortalityInv', NEW t \in Ticks, BeginTurn(t)
  PROVE  RtInv' /\ FinishedStep
<1> DEFINE e == [Suspended(t, "turn") EXCEPT !.turn = agent.turns + 1,
                                             !.last = mort.phase = "TerminalPending"]
<1>1. /\ ~NothingToRun(t) /\ q' = Taken.q /\ now' = now
      /\ agent'.turns = agent.turns + 1 /\ agent'.lock /\ Step(t, e)
  BY DEF BeginTurn, Dispatches
<1>2. /\ TickFields \subseteq DOMAIN e /\ e.pc = "turn" /\ e.job = Taken.id
      /\ e.until = now + LeaseTtl[Taken.kind] /\ e.turn = agent.turns + 1
  BY DEF Suspended, RtInv, TicksShape, TickFields
<1> HIDE DEF e
<1>3. DOMAIN ticks' = Ticks /\ \A u \in Ticks : ticks'[u] = IF u = t THEN e ELSE ticks[u]
  BY <1>1 DEF RtInv, TicksShape, Step
<1>4. TicksShape'
  BY <1>2, <1>3 DEF RtInv, TicksShape
<1> QED BY <1>1, <1>2, <1>3, <1>4, DispatchBegins

\* A dispatch comes back and completes its job, which no other dispatch has; others may be
\* enqueued after it.
LEMMA CompletesItsOwn ==
  ASSUME RtInv, MortalityInv', NEW t \in Ticks, Running(t), NextJob(t), now' = now,
         agent'.turns = agent.turns, NEW z, Ends(q, z, ticks[t].job), Grows(z, q'),
         \A u \in Ticks \ {t} : ticks[u].pc = "turn" /\ now < ticks[u].until =>
           agent'.lock \/ mort'.phase = "Dead"
  PROVE  RtInv' /\ FinishedStep
<1>1. /\ ticks[t].job \in 1..Len(q.jobs)
      /\ now < ticks[t].until => q.jobs[ticks[t].job].status = "InFlight"
  BY LeaseIsActive DEF RtInv, JobsApart
<1>2. Len(q.jobs) \in Nat /\ Len(q'.jobs) \in Nat /\ Queue(q')
  BY JobsLen DEF RtInv, Queue, Grows
<1>3. /\ Len(q.jobs) <= Len(q'.jobs)
      /\ \A i \in 1..Len(q.jobs) : i # ticks[t].job => q'.jobs[i] = q.jobs[i]
      /\ q.lease.job # ticks[t].job => q'.lease = q.lease
  BY <1>2 DEF Ends, Grows
<1>4. FinishedStep
  <2>1. ticks[t].until \in Nat /\ now \in Nat
    BY DEF RtInv, JobsApart
  <2> QED BY <1>1, <1>3, <2>1 DEF FinishedStep, IsTerminal
<1>5. TicksShape' /\ \A u \in Ticks : Running(u)' => u # t /\ GoesOn(u) /\ ticks'[u] = ticks[u]
  BY TickEnds
<1>6. ASSUME NEW u \in Ticks, Running(u), u # t PROVE Spares(u)
  <2>1. /\ ticks[u].job \in 1..Len(q.jobs) /\ q.jobs[ticks[u].job].status # "Pending"
        /\ ticks[u].job # ticks[t].job
    BY <1>6 DEF RtInv, JobsApart
  <2>2. ticks[u].job \in 1..Len(q'.jobs) /\ q'.jobs[ticks[u].job] = q.jobs[ticks[u].job]
    BY <1>2, <1>3, <2>1
  <2>3. now < ticks[u].until => q.lease.job = ticks[u].job /\ q.jobs[ticks[u].job].status = "InFlight"
    BY <1>6, LeaseIsActive
  <2> QED BY <1>3, <2>1, <2>2, <2>3 DEF Spares
<1>7. \A u \in Ticks : Running(u)' => GoesOn(u) /\ Spares(u)
  BY <1>5, <1>6 DEF GoesOn
<1>8. \A u \in Ticks : Running(u)' /\ ticks'[u].pc = "turn" /\ now < ticks[u].until =>
        agent'.lock \/ mort'.phase = "Dead"
  BY <1>5
<1> QED BY <1>2, <1>4, <1>5, <1>7, <1>8, NothingBegins DEF RtInv

\* The end of a dispatch ends its job, with whatever status and retry.
LEMMA CompleteDispatchEnds ==
  ASSUME RtInv, NEW t \in Ticks, Running(t), NEW error, CompleteDispatch(t, error)
  PROVE  Ends(q, q', ticks[t].job) /\ Grows(q', q')
<1>1. ticks[t].job # 0
  BY DEF RtInv, JobsApart
<1>2. \E status, retry : q' = CompleteJob(q, ticks[t].job, status, now, retry)
  BY DEF CompleteDispatch
<1>3. Ends(q, q', ticks[t].job)
  BY <1>1, <1>2, CompleteEnds DEF RtInv
<1> QED BY <1>3, TasksAreNotJobs DEF Ends, Queue, Jobs

\* A dispatch other than a turn comes back, in time or late.
LEMMA DispatchReturnsKeeps ==
  ASSUME RtInv, MortalityInv', NEW t \in Ticks, DispatchReturns(t) \/ TopUpWaits(t)
  PROVE  RtInv' /\ FinishedStep
<1>1. Running(t) /\ NextJob(t) /\ now' = now /\ agent' = agent /\ mort' = mort
  BY DEF DispatchReturns, TopUpWaits, Running
<1>2. \A u \in Ticks : ticks[u].pc = "turn" /\ now < ticks[u].until =>
        agent'.lock \/ mort'.phase = "Dead"
  BY <1>1 DEF RtInv, RunningHoldsTheLease, Running
<1>3. CASE DispatchReturns(t)
  <2>1. Ends(q, q', ticks[t].job) /\ Grows(q', q')
    BY <1>1, <1>3, CompleteDispatchEnds DEF DispatchReturns
  <2> QED BY <1>1, <1>2, <2>1, CompletesItsOwn
<1>4. CASE TopUpWaits(t)
  <2> DEFINE z == CompleteJob(q, ticks[t].job, "Succeeded", now, -1)
  <2>1. q' = EnqueueJobIfAbsent(z, "TopUpCycles", TopUpKey, now + q.task["TopUpCycles"].interval)
    BY <1>4 DEF TopUpWaits
  <2>2. Ends(q, z, ticks[t].job)
    <3>1. ticks[t].job # 0 /\ Queue(q)
      BY <1>1 DEF RtInv, JobsApart
    <3> QED BY <3>1, CompleteEnds
  <2> HIDE DEF z
  <2>3. Grows(z, q')
    BY <2>1, <2>2, EnqueueGrows DEF Ends, Kinds
  <2> QED BY <1>1, <1>2, <2>2, <2>3, CompletesItsOwn
<1> QED BY <1>3, <1>4

\* A turn comes back; it releases the lock only if no later turn began.
LEMMA TurnReturnsKeeps ==
  ASSUME RtInv, MortalityInv', NEW t \in Ticks, TurnReturns(t)
  PROVE  RtInv' /\ FinishedStep
<1>1. /\ ticks[t].pc = "turn" /\ Running(t) /\ now' = now /\ mort' = mort
      /\ agent' = CompleteTurn(agent, ticks[t].turn)
  BY DEF TurnReturns, Running
<1>2. agent'.turns = agent.turns
  BY <1>1 DEF CompleteTurn, RtInv, MortalityInv, AgentShape
<1>3. \A u \in Ticks \ {t} : ticks[u].pc = "turn" /\ now < ticks[u].until =>
        agent'.lock \/ mort'.phase = "Dead"
  <2> SUFFICES ASSUME NEW u \in Ticks \ {t}, ticks[u].pc = "turn", now < ticks[u].until
               PROVE  agent'.lock \/ mort'.phase = "Dead"
    OBVIOUS
  <2>1. ticks[u].turn = agent.turns /\ ticks[u].turn # ticks[t].turn
    BY <1>1 DEF RtInv, TurnsApart
  <2>2. agent' = agent
    BY <1>1, <2>1 DEF CompleteTurn
  <2> QED BY <1>1, <2>2 DEF RtInv, RunningHoldsTheLease, Running
<1>4. CASE ticks[t].last
  <2>1. PICK error : Step(t, [ticks[t] EXCEPT !.pc = "report", !.error = error]) /\ q' = q
    BY <1>4 DEF TurnReturns
  <2> DEFINE e == [ticks[t] EXCEPT !.pc = "report", !.error = error]
  <2>2. /\ TickFields \subseteq DOMAIN e /\ e.pc = "report" /\ e.job = ticks[t].job
        /\ e.until = ticks[t].until /\ e.turn = ticks[t].turn
    BY DEF RtInv, TicksShape, TickFields
  <2>3. DOMAIN ticks' = Ticks /\ \A u \in Ticks : ticks'[u] = IF u = t THEN e ELSE ticks[u]
    BY <2>1 DEF RtInv, TicksShape, Step
  <2> HIDE DEF e
  <2>4. TicksShape' /\ \A u \in Ticks : Running(u)' => GoesOn(u)
    BY <1>1, <2>2, <2>3 DEF RtInv, TicksShape, GoesOn, Running
  <2>5. Queue(q') /\ FinishedStep /\ \A u \in Ticks : Running(u)' => GoesOn(u) /\ Spares(u)
    BY <2>1, <2>4, QueueRests DEF GoesOn
  <2>6. \A u \in Ticks : Running(u)' /\ ticks'[u].pc = "turn" /\ now < ticks[u].until =>
          agent'.lock \/ mort'.phase = "Dead"
    BY <1>3, <2>2, <2>3
  <2> QED BY <1>1, <1>2, <2>4, <2>5, <2>6, NothingBegins DEF RtInv
<1>5. CASE ~ticks[t].last
  <2>1. NextJob(t) /\ \E error : CompleteDispatch(t, error)
    BY <1>5 DEF TurnReturns
  <2>2. Ends(q, q', ticks[t].job) /\ Grows(q', q')
    BY <1>1, <2>1, CompleteDispatchEnds
  <2> QED BY <1>1, <1>2, <1>3, <2>1, <2>2, CompletesItsOwn
<1> QED BY <1>4, <1>5

\* The report of the terminal turn came back.
LEMMA DieKeeps ==
  ASSUME RtInv, MortalityInv', NEW t \in Ticks, Die(t)
  PROVE  RtInv' /\ FinishedStep
<1>1. Running(t) /\ NextJob(t) /\ now' = now /\ CompleteDispatch(t, ticks[t].error)
  BY DEF Die, Running
<1>2. mort'.phase = "Dead" \/ (mort' = mort /\ agent' = agent)
  BY DEF Die, CompleteTerminalTurn, CompletesTerminalTurn, RtInv, MortalityInv, MortalityFields
<1>3. agent'.turns = agent.turns
  BY DEF Die, RtInv, MortalityInv, AgentShape
<1>4. \A u \in Ticks : ticks[u].pc = "turn" /\ now < ticks[u].until =>
        agent'.lock \/ mort'.phase = "Dead"
  BY <1>2 DEF RtInv, RunningHoldsTheLease, Running
<1>5. Ends(q, q', ticks[t].job) /\ Grows(q', q')
  BY <1>1, CompleteDispatchEnds
<1> QED BY <1>1, <1>3, <1>4, <1>5, CompletesItsOwn

\* Time, upgrades and traps: the queue rests, and no dispatch begins.
LEMMA EnvironmentKeeps ==
  ASSUME RtInv, MortalityInv',
         AdvanceTime \/ Upgrade \/ (\E t \in Ticks : Trap(t)) \/ UNCHANGED rtVars
  PROVE  RtInv' /\ FinishedStep
<1>1. q' = q /\ agent' = agent /\ mort' = mort /\ now' \in Nat /\ now' >= now
  BY DEF AdvanceTime, Upgrade, Trap, rtVars, RtInv
<1>2. TicksShape' /\ \A u \in Ticks : Running(u)' => GoesOn(u) /\ ticks'[u] = ticks[u]
  <2>1. CASE ticks' = ticks
    BY <2>1 DEF RtInv, TicksShape, Running, GoesOn
  <2>2. CASE Upgrade
    BY <2>2 DEF Upgrade, TicksShape, Running, IdleTick, TickFields
  <2>3. ASSUME NEW t \in Ticks, Trap(t)
        PROVE  TicksShape' /\ \A u \in Ticks : Running(u)' => GoesOn(u) /\ ticks'[u] = ticks[u]
    <3> DEFINE e == IF t = "wake" THEN [IdleTick EXCEPT !.pc = "stuck"] ELSE IdleTick
    <3>1. Step(t, e)
      BY <2>3 DEF Trap
    <3>2. TickFields \subseteq DOMAIN e /\ e.pc \notin {"await", "turn", "report"}
      BY DEF IdleTick, TickFields
    <3> HIDE DEF e
    <3> QED BY <3>1, <3>2, StepAway
  <2> QED BY <2>1, <2>2, <2>3 DEF AdvanceTime, rtVars
<1>3. Queue(q') /\ FinishedStep /\ \A u \in Ticks : Running(u)' => GoesOn(u) /\ Spares(u)
  BY <1>1, <1>2, QueueRests DEF GoesOn
<1>4. \A u \in Ticks : Running(u)' /\ ticks'[u].pc = "turn" /\ now < ticks[u].until =>
        agent'.lock \/ mort'.phase = "Dead"
  BY <1>1, <1>2 DEF RtInv, RunningHoldsTheLease, GoesOn
<1> QED BY <1>1, <1>2, <1>3, <1>4, NothingBegins DEF RtInv

\* Endpoints that wake the scheduler, and the controller.
LEMMA CallsKeep ==
  ASSUME RtInv, MortalityInv', ControllerCall \/ \E key \in WakeKeys : Wake(key)
  PROVE  RtInv' /\ FinishedStep
<1>1. /\ now' = now /\ mort' = mort /\ agent'.turns = agent.turns /\ agent'.lock = agent.lock
  BY DEF ControllerCall, Wake, RtInv, MortalityInv, AgentShape
<1>2. TicksShape' /\ \A u \in Ticks : Running(u)' => GoesOn(u) /\ ticks'[u] = ticks[u]
  <2>1. CASE ticks' = ticks
    BY <2>1 DEF RtInv, TicksShape, Running, GoesOn
  <2>2. CASE ticks' # ticks
    <3> DEFINE e == [IdleTick EXCEPT !.pc = "start"]
    <3>1. Step("wake", e) /\ "wake" \in Ticks
      BY <2>2 DEF ControllerCall, Wake, Ticks
    <3>2. TickFields \subseteq DOMAIN e /\ e.pc = "start"
      BY DEF IdleTick, TickFields
    <3> HIDE DEF e
    <3> QED BY <3>1, <3>2, StepAway
  <2> QED BY <2>1, <2>2
<1>3. /\ Queue(q') /\ Len(q.jobs) <= Len(q'.jobs) /\ q'.lease = q.lease
      /\ Len(q.jobs) \in Nat /\ Len(q'.jobs) \in Nat
      /\ \A i \in 1..Len(q.jobs) : q'.jobs[i] # q.jobs[i] =>
           q.jobs[i].status = "Pending" /\ q'.jobs[i].status = "Deleted"
  <2> DEFINE Kept ==
        /\ Queue(q') /\ Len(q.jobs) <= Len(q'.jobs) /\ q'.lease = q.lease
        /\ Len(q.jobs) \in Nat /\ Len(q'.jobs) \in Nat
        /\ \A i \in 1..Len(q.jobs) : q'.jobs[i] # q.jobs[i] =>
             q.jobs[i].status = "Pending" /\ q'.jobs[i].status = "Deleted"
  <2> SUFFICES Kept
    OBVIOUS
  <2>1. Queue(q) /\ Len(q.jobs) \in Nat
    BY JobsLen DEF RtInv, Queue
  <2>2. CASE q' = q
    BY <2>1, <2>2
  <2>3. ASSUME NEW k, NEW b, q' = SetTaskEnabled(q, k, b) PROVE Kept
    BY <2>1, <2>3, SetTaskClears
  <2>4. ASSUME NEW key, Wake(key) PROVE Kept
    <3>1. Grows(q, q')
      BY <2>1, <2>4, EnqueueGrows DEF Wake, Kinds
    <3> QED BY <2>1, <3>1, JobsLen DEF Grows, Queue
  <2>5. CASE ControllerCall /\ q' # q
    <3>1. PICK k \in EnabledKinds, b \in BOOLEAN : q' = SetTaskEnabled(q, k, b)
      BY <2>5 DEF ControllerCall
    <3> HIDE DEF Kept
    <3> QED BY <3>1, <2>3
  <2>6. CASE \E key \in WakeKeys : Wake(key)
    <3> HIDE DEF Kept
    <3> QED BY <2>4, <2>6
  <2> QED BY <2>2, <2>5, <2>6
<1>4. FinishedStep
  BY <1>3 DEF FinishedStep, IsTerminal
<1>5. ASSUME NEW u \in Ticks, Running(u) PROVE Spares(u)
  <2>1. /\ ticks[u].job \in 1..Len(q.jobs) /\ q.jobs[ticks[u].job].status # "Pending"
        /\ now < ticks[u].until => q.jobs[ticks[u].job].status = "InFlight"
    BY <1>5, LeaseIsActive DEF RtInv, JobsApart
  <2> QED BY <1>3, <2>1 DEF Spares
<1>6. \A u \in Ticks : Running(u)' /\ ticks'[u].pc = "turn" /\ now < ticks[u].until =>
        agent'.lock \/ mort'.phase = "Dead"
  BY <1>1, <1>2 DEF RtInv, RunningHoldsTheLease, GoesOn
<1>7. \A u \in Ticks : Running(u)' => GoesOn(u) /\ Spares(u)
  BY <1>2, <1>5 DEF GoesOn
<1> QED BY <1>1, <1>2, <1>3, <1>4, <1>6, <1>7, NothingBegins DEF RtInv

\* Every step keeps the invariant, and changes no finished job but a late dispatch's own.
LEMMA RtStep == RtInv /\ [RtNext]_rtVars => RtInv' /\ FinishedStep
<1> SUFFICES ASSUME RtInv, [RtNext]_rtVars PROVE RtInv' /\ FinishedStep
  OBVIOUS
<1>1. MortalityInv'
  BY MortalityStep DEF RtInv
<1> QED
  BY <1>1, IdleSteps, TickStartKeeps, InMessageKeeps, DispatchKeeps, BeginTurnKeeps,
     DispatchReturnsKeeps, TurnReturnsKeeps, DieKeeps, EnvironmentKeeps, CallsKeep
     DEF RtNext

\* The scheduler of a new automaton has nothing under way.
LEMMA RtInitInv == RtInit => RtInv
<1> SUFFICES ASSUME RtInit PROVE RtInv
  OBVIOUS
<1>1. TicksShape /\ \A t \in Ticks : ticks[t].pc = "idle"
  BY DEF RtInit, TicksShape, IdleTick, TickFields
<1>2. Queue(q)
  <2>1. q.jobs = <<>> /\ q.lease = NoLease /\ {"jobs", "task", "lease"} \subseteq DOMAIN q
    BY DEF RtInit
  <2>2. Table(q.jobs) /\ Len(q.jobs) = 0
    BY <2>1, EmptySeq DEF Table
  <2> QED BY <2>1, <2>2 DEF Queue, Jobs, LeasedInFlight, NoLease
<1>3. now \in Nat
  BY DEF RtInit
<1> QED BY <1>1, <1>2, <1>3, MortalityInit
       DEF RtInv, JobsApart, TurnsApart, RunningHoldsTheLease, Running

\* While a dispatch is suspended within its lease, its job is in flight and holds the lease,
\* whatever the other tick, late completions, traps, upgrades and controllers do; and a turn
\* within its lease keeps its lock, but for the end of the terminal turn.
THEOREM RunningHoldsTheLeaseAlways == RtSpec => []RunningHoldsTheLease
<1>1. RtInv => RunningHoldsTheLease
  BY DEF RtInv
<1> QED BY <1>1, RtInitInv, RtStep, PTL DEF RtSpec

\* A finished job is changed only by the continuation of a dispatch that outlived its lease.
THEOREM FinishedStaysFinishedAlways == RtSpec => FinishedStaysFinished
<1>1. RtInv /\ [RtNext]_rtVars =>
        [\A i \in 1..Len(q.jobs) :
           IsTerminal(q.jobs[i]) /\ q'.jobs[i] # q.jobs[i] =>
             \E t \in Ticks : Running(t) /\ ticks[t].job = i /\ now >= ticks[t].until]_rtVars
  BY RtStep DEF FinishedStep
<1> QED BY <1>1, RtInitInv, RtStep, PTL DEF RtSpec, FinishedStaysFinished

-----------------------------------------------------------------------------
(***************************************************************************)
(* The turns and the correspondence (AgentTurn).  The invariant is stated  *)
(* of an inbox i, an outbox o, waits w, turns T, the number b of turns     *)
(* begun, the lock l and the turns s that lost it, so that the beginning   *)
(* of a turn can be told apart from what its first step goes on to do.     *)
(***************************************************************************)
Busy == {"infer", "tools", "retry"}

WaitRecords == [job : 0..MaxTurns, attempts : 0 .. MaxWaitAttempts - 1]

TurnRecords ==
  [pc : {"none", "infer", "tools", "retry", "done", "trapped"}, batch : SUBSET Messages,
   wait : WaitRecords, buffered : BOOLEAN, round : 1..MaxRounds, calls : 0..MaxToolCalls,
   ran : BOOLEAN, reply : Replies, seen : SUBSET Messages, plan : 0..MaxToolCalls]

ReplyRecords == [turn : TurnIds, batch : SUBSET Messages, reply : Replies, seen : SUBSET Messages]

Staging(i) == {m \in 1..Len(i) : i[m] = "Staged"}

\* A staged message that is among the oldest ones.
Early(i, m) == Cardinality({n \in Staging(i) : n < m}) < BatchSize

\* A turn that had lost its lock answered the message.
Stolen(m, o, s) == BatchSize > 1 /\ \E a \in o : a.turn \in s /\ m \in a.batch

\* What was seen covers the oldest message, or one that was answered beside it.
Saw(batch, seen, o, s) == Min(batch) \in seen \/ \E m \in seen : Stolen(m, o, s)

InboxOk(i) ==
  /\ i \in Seq({"Pending", "Staged", "Consumed"}) /\ Len(i) <= MaxMessages
  /\ \A n, m \in 1..Len(i) : n < m /\ i[n] = "Pending" => i[m] = "Pending"

TurnsOk(T, b, l, s) ==
  /\ T \in [TurnIds -> TurnRecords] /\ b \in 0..MaxTurns /\ l \in BOOLEAN /\ s \subseteq TurnIds
  /\ l => b \in TurnIds
  /\ \A t \in TurnIds : t > b => T[t].batch = {}
  /\ \A t \in TurnIds : T[t].calls + T[t].plan <= MaxToolCalls
  /\ \A t \in TurnIds : T[t].pc \in Busy => t <= b /\ (t \in s \/ (t = b /\ l))

RepliesOk(i, o, s) ==
  /\ o \subseteq ReplyRecords
  /\ \A r \in o : \A m \in r.batch : m \in 1..Len(i) /\ i[m] = "Consumed"
  /\ \A r \in o : r.reply = "text" => Saw(r.batch, r.seen, o, s)
  /\ \A r, a \in o : r.turn \notin s /\ a.turn \notin s /\ r.batch \cap a.batch # {} => r = a
  /\ \A m \in 1..Len(i) : i[m] = "Consumed" => \E r \in o : m \in r.batch

\* The batch of a suspended turn: the oldest messages when it began, of which only a turn that
\* had lost its lock may have answered some and not the others.
BatchOk(t, x, i, o, T, s) ==
  /\ \A m \in x.batch : m \in 1..Len(i) /\ i[m] # "Pending"
  /\ \A m \in x.batch : m \in Staging(i) =>
       Early(i, m) /\ \A n \in Staging(i) : n < m => n \in x.batch
  /\ \A n, m \in x.batch : n < m /\ n \notin Staging(i) /\ m \in Staging(i) => Stolen(n, o, s)
  /\ t \notin s => \A r \in o : r.batch \cap x.batch # {} => r.turn \in s
  /\ x.batch # {} /\ x.wait.job # 0 => Saw(x.batch, T[x.wait.job].batch, o, s)
  /\ x.batch # {} /\ x.reply = "text" => Saw(x.batch, x.seen, o, s)

BatchesOk(i, o, T, s) ==
  /\ \A t \in TurnIds : T[t].pc \in Busy => BatchOk(t, T[t], i, o, T, s)
  /\ \A t, u \in TurnIds : T[t].pc \in Busy /\ T[u].pc \in Busy /\ t < u =>
       \A m \in T[t].batch : m \in Staging(i) => m \in T[u].batch

\* The job a staged message waits for was submitted for it, or for an older message that
\* whoever keeps its lock answers together with it, or that was answered beside it.
Held(m, j, i, o, T, s) ==
  \/ m \in T[j].batch
  \/ \E n \in T[j].batch : Stolen(n, o, s)
  \/ \E n \in T[j].batch :
       /\ n < m /\ n \in Staging(i) /\ Early(i, m)
       /\ \A t \in TurnIds : T[t].pc \in Busy /\ t \notin s /\ n \in T[t].batch => m \in T[t].batch

WaitsOk(i, o, w, T, s) ==
  /\ w \in [Messages -> WaitRecords]
  /\ \A m \in Messages : (m \notin 1..Len(i) \/ i[m] = "Pending") => w[m] = NoWait
  /\ \A n, m \in Staging(i) : n < m /\ w[m].attempts # 0 => w[n].attempts # 0
  /\ \A m \in Staging(i) : w[m].job # 0 => Held(m, w[m].job, i, o, T, s)

MailOk(i, o, w, T, b, l, s) ==
  /\ InboxOk(i) /\ TurnsOk(T, b, l, s) /\ RepliesOk(i, o, s)
  /\ BatchesOk(i, o, T, s) /\ WaitsOk(i, o, w, T, s)

-----------------------------------------------------------------------------
\* Bounds as numbers.
LEMMA TurnNumbers ==
  /\ MaxMessages \in Nat /\ MaxTurns \in Nat /\ BatchSize \in Nat /\ BatchSize > 0
  /\ MaxRounds \in Nat /\ MaxRounds > 0 /\ MaxToolCalls \in Nat /\ MaxWaitAttempts \in Nat
  /\ MaxWaitAttempts > 0 /\ RejectionLimit \in Nat /\ RejectionLimit > 0
  BY TurnAssumption

\* An answer beside the batch stays one.
LEMMA StolenStays ==
  ASSUME NEW o, NEW o2, o \subseteq o2, NEW s, NEW s2, s \subseteq s2
  PROVE  /\ \A m : Stolen(m, o, s) => Stolen(m, o2, s2)
         /\ \A batch, seen : Saw(batch, seen, o, s) => Saw(batch, seen, o2, s2)
<1>1. \A m : Stolen(m, o, s) => Stolen(m, o2, s2)
  BY DEF Stolen
<1> QED BY <1>1 DEF Saw

\* The staged messages before one are finitely many.
LEMMA BeforeFinite ==
  ASSUME NEW i, InboxOk(i), NEW m
  PROVE  IsFiniteSet({n \in Staging(i) : n < m}) /\ Len(i) \in Nat
         /\ Cardinality({n \in Staging(i) : n < m}) \in Nat
<1> DEFINE k == Len(i)
<1>1. k \in Nat
  BY LenProperties DEF InboxOk
<1>2. {n \in Staging(i) : n < m} \in SUBSET (1..k)
  BY DEF Staging
<1>3. IsFiniteSet(1..k)
  <2> HIDE DEF k
  <2> QED BY <1>1, FS_Interval
<1>4. IsFiniteSet({n \in Staging(i) : n < m})
  <2> HIDE DEF k
  <2> QED BY <1>2, <1>3, FS_Subset
<1> QED BY <1>1, <1>4, FS_CardinalityType

\* A staged message is one of the messages.
LEMMA StagedAreMessages ==
  ASSUME NEW i, InboxOk(i)
  PROVE  Staging(i) \subseteq Messages /\ Messages \subseteq Nat /\ Len(i) \in Nat /\ DOMAIN i = 1..Len(i)
<1>1. Len(i) \in Nat /\ Len(i) <= MaxMessages /\ MaxMessages \in Nat /\ DOMAIN i = 1..Len(i)
  BY TurnNumbers, LenProperties DEF InboxOk
<1> QED BY <1>1 DEF Staging, Messages

\* As messages are consumed, the ones that are left stay among the oldest.
LEMMA EarlyStays ==
  ASSUME NEW i, InboxOk(i), NEW j, InboxOk(j), NEW m, NEW k, Early(i, k),
         \A n \in Staging(j) : n < m => n \in Staging(i) /\ n < k
  PROVE  Early(j, m)
<1> DEFINE A == {n \in Staging(i) : n < k}
           B == {n \in Staging(j) : n < m}
<1>1. IsFiniteSet(A) /\ Cardinality(A) \in Nat /\ Cardinality(B) \in Nat /\ Cardinality(A) < BatchSize
  BY BeforeFinite DEF Early
<1>2. B \in SUBSET A
  OBVIOUS
<1> HIDE DEF A, B
<1>3. Cardinality(B) <= Cardinality(A)
  BY <1>1, <1>2, FS_Subset
<1>4. Cardinality(B) < BatchSize
  BY <1>1, <1>3, TurnNumbers
<1> QED BY <1>4 DEF B, Early

\* A message behind another one is early only in batches of several.
LEMMA EarlyBehind ==
  ASSUME NEW i, InboxOk(i), NEW m, Early(i, m), NEW n \in Staging(i), n < m
  PROVE  BatchSize > 1
<1> DEFINE A == {k \in Staging(i) : k < m}
<1>1. IsFiniteSet(A) /\ Cardinality(A) \in Nat /\ Cardinality(A) < BatchSize /\ A # {}
  BY BeforeFinite DEF Early
<1> HIDE DEF A
<1>2. Cardinality(A) # 0
  BY <1>1, FS_EmptySet
<1> QED BY <1>1, <1>2, TurnNumbers

\* The batch that a new turn takes.
LEMMA BatchIsEarly ==
  Batch = {m \in Staging(inbox) : Early(inbox, m)} /\ Staged = Staging(inbox)
  BY DEF Batch, Staged, Staging, Early

-----------------------------------------------------------------------------
\* One turn moves: it goes on or ends, with the batch it has.
MovedTurns(T, t, x) == [T EXCEPT ![t] = x]

TurnMoved(T, t, x) ==
  /\ t \in TurnIds /\ T[t].pc \in Busy /\ x \in TurnRecords
  /\ x.calls + x.plan <= MaxToolCalls /\ x.batch = T[t].batch

\* The lock follows.
LEMMA MovedTurnsOk ==
  ASSUME NEW T, NEW b, NEW l, NEW s, TurnsOk(T, b, l, s), NEW t, NEW x, TurnMoved(T, t, x),
         NEW k \in BOOLEAN, x.pc \in Busy => (k <=> l), x.pc \notin Busy => (k <=> t < b /\ l)
  PROVE  TurnsOk(MovedTurns(T, t, x), b, k, s)
<1> DEFINE U == MovedTurns(T, t, x)
<1>1. U \in [TurnIds -> TurnRecords] /\ \A u \in TurnIds : U[u] = IF u = t THEN x ELSE T[u]
  BY DEF MovedTurns, TurnMoved, TurnsOk
<1>2. b \in Nat /\ t \in Nat /\ t <= b /\ l \in BOOLEAN /\ (k => l) /\ (k => b \in TurnIds)
  BY TurnNumbers DEF TurnsOk, TurnMoved, TurnIds
<1> HIDE DEF U
<1>3. \A u \in TurnIds : U[u].calls + U[u].plan <= MaxToolCalls /\ (u > b => U[u].batch = {})
  BY <1>1 DEF TurnsOk, TurnMoved
<1>4. ASSUME NEW u \in TurnIds, U[u].pc \in Busy
      PROVE  u <= b /\ (u \in s \/ (u = b /\ k))
  <2>1. CASE u = t
    BY <1>1, <1>4, <2>1 DEF TurnsOk, TurnMoved
  <2>2. CASE u # t
    <3>1. u <= b /\ (u \in s \/ (u = b /\ l))
      BY <1>1, <1>4, <2>2 DEF TurnsOk
    <3>2. u = b /\ l => k
      BY <1>2, <2>2, <1>1, TurnNumbers DEF TurnIds
    <3> QED BY <3>1, <3>2
  <2> QED BY <2>1, <2>2
<1> QED BY <1>1, <1>2, <1>3, <1>4 DEF TurnsOk, U

\* Batches are kept, and nobody becomes busy.
SameBatches(T, U) ==
  \A u \in TurnIds : U[u].batch = T[u].batch /\ (U[u].pc \in Busy => T[u].pc \in Busy)

\* What a message waits for, as turns end.
LEMMA HeldStays ==
  ASSUME NEW T, NEW U, SameBatches(T, U), NEW i, NEW o, NEW s, NEW m, NEW j \in TurnIds,
         Held(m, j, i, o, T, s)
  PROVE  Held(m, j, i, o, U, s)
  BY DEF Held, SameBatches

\* A turn that moves keeps the batches.
LEMMA MovedBatches ==
  ASSUME NEW T, NEW b, NEW l, NEW s, TurnsOk(T, b, l, s), NEW t, NEW x, TurnMoved(T, t, x)
  PROVE  /\ SameBatches(T, MovedTurns(T, t, x))
         /\ \A u \in TurnIds : MovedTurns(T, t, x)[u] = IF u = t THEN x ELSE T[u]
  BY DEF SameBatches, MovedTurns, TurnMoved, TurnsOk

\* The jobs that are waited for are turns.
LEMMA WaitJobs ==
  ASSUME NEW T, NEW b, NEW l, NEW s, TurnsOk(T, b, l, s), NEW t \in TurnIds
  PROVE  T[t].wait.job # 0 => T[t].wait.job \in TurnIds
<1>1. T[t] \in TurnRecords
  BY DEF TurnsOk
<1>2. T[t].wait \in WaitRecords
  BY <1>1 DEF TurnRecords
<1>3. T[t].wait.job \in 0..MaxTurns
  BY <1>2 DEF WaitRecords
<1> QED BY <1>3, TurnNumbers DEF TurnIds

\* The batches of the others and of the turn that moves, when no mail changes.
LEMMA MovedBatchesOk ==
  ASSUME NEW T, NEW b, NEW l, NEW s, TurnsOk(T, b, l, s), NEW t, NEW x, TurnMoved(T, t, x),
         NEW i, NEW o, BatchesOk(i, o, T, s),
         x.pc \in Busy => /\ x.wait = T[t].wait
                          /\ x.batch # {} /\ x.reply = "text" => Saw(x.batch, x.seen, o, s)
  PROVE  BatchesOk(i, o, MovedTurns(T, t, x), s)
<1> DEFINE U == MovedTurns(T, t, x)
<1>1. SameBatches(T, U) /\ (\A u \in TurnIds : U[u] = IF u = t THEN x ELSE T[u]) /\ t \in TurnIds
      /\ T[t].pc \in Busy /\ x.batch = T[t].batch
  BY MovedBatches DEF TurnMoved
<1>2. \A u \in TurnIds : T[u].wait.job # 0 => T[u].wait.job \in TurnIds
  BY WaitJobs
<1> HIDE DEF U
<1>3. ASSUME NEW u \in TurnIds, U[u].pc \in Busy
      PROVE  BatchOk(u, U[u], i, o, U, s)
  <2>1. BatchOk(u, T[u], i, o, T, s)
    BY <1>1, <1>3 DEF BatchesOk, SameBatches
  <2>2. U[u].batch = T[u].batch /\ U[u].wait = T[u].wait
    BY <1>1, <1>3
  <2>3. U[u].batch # {} /\ U[u].reply = "text" => Saw(U[u].batch, U[u].seen, o, s)
    BY <1>1, <1>3, <2>1 DEF BatchOk
  <2>4. U[u].batch # {} /\ U[u].wait.job # 0 => Saw(U[u].batch, U[U[u].wait.job].batch, o, s)
    BY <1>1, <1>2, <2>1, <2>2 DEF BatchOk, SameBatches
  <2> QED BY <2>1, <2>2, <2>3, <2>4 DEF BatchOk
<1>4. \A v, u \in TurnIds : U[v].pc \in Busy /\ U[u].pc \in Busy /\ v < u =>
        \A m \in U[v].batch : m \in Staging(i) => m \in U[u].batch
  BY <1>1 DEF BatchesOk, SameBatches
<1> QED BY <1>3, <1>4 DEF BatchesOk, U

\* What the waits say, when no mail changes.
LEMMA MovedWaitsOk ==
  ASSUME NEW T, NEW U, SameBatches(T, U), NEW i, NEW o, NEW w, NEW s, WaitsOk(i, o, w, T, s),
         InboxOk(i)
  PROVE  WaitsOk(i, o, w, U, s)
<1>1. \A m \in Staging(i) : m \in Messages /\ w[m].job \in 0..MaxTurns
  BY StagedAreMessages DEF WaitsOk, WaitRecords
<1>2. ASSUME NEW m \in Staging(i), w[m].job # 0
      PROVE  Held(m, w[m].job, i, o, U, s)
  <2>1. Held(m, w[m].job, i, o, T, s)
    BY <1>2 DEF WaitsOk
  <2>2. w[m].job \in TurnIds
    BY <1>1, <1>2, TurnNumbers DEF TurnIds
  <2> QED BY <2>1, <2>2, HeldStays
<1> QED BY <1>2 DEF WaitsOk

-----------------------------------------------------------------------------
\* A turn answers its batch.
Consuming(i, batch) ==
  [m \in 1..Len(i) |-> IF m \in batch /\ i[m] = "Staged" THEN "Consumed" ELSE i[m]]

Clearing(w, batch) == [m \in Messages |-> IF m \in batch THEN NoWait ELSE w[m]]

\* The inbox afterwards.
LEMMA ConsumeFacts ==
  ASSUME NEW i, InboxOk(i), NEW batch
  PROVE  LET j == Consuming(i, batch) IN
         /\ InboxOk(j) /\ Len(j) = Len(i) /\ Len(i) \in Nat
         /\ Staging(j) = {m \in Staging(i) : m \notin batch}
         /\ \A m \in 1..Len(i) : j[m] = IF m \in batch /\ i[m] = "Staged" THEN "Consumed" ELSE i[m]
<1> DEFINE j == Consuming(i, batch)
           n == Len(i)
           S == {"Pending", "Staged", "Consumed"}
<1>1. n \in Nat /\ DOMAIN i = 1..n /\ (\A m \in 1..n : i[m] \in S)
  BY LenProperties, ElementOfSeq DEF InboxOk
<1>2. j \in [1..n -> S] /\ \A m \in 1..n : j[m] = IF m \in batch /\ i[m] = "Staged" THEN "Consumed" ELSE i[m]
  BY <1>1 DEF Consuming
<1> HIDE DEF j, S
<1>3. j \in Seq(S)
  <2> HIDE DEF n
  <2> QED BY <1>1, <1>2, SeqDef
<1>4. Len(j) = n
  <2>1. DOMAIN j = 1..Len(j) /\ Len(j) \in Nat
    BY <1>3, LenProperties
  <2> HIDE DEF n
  <2> QED BY <1>1, <1>2, <2>1
<1>5. \A p, m \in 1..n : p < m /\ j[p] = "Pending" => j[m] = "Pending"
  BY <1>2 DEF InboxOk
<1>6. Staging(j) = {m \in Staging(i) : m \notin batch}
  BY <1>2, <1>4 DEF Staging
<1>7. InboxOk(j)
  BY <1>3, <1>4, <1>5 DEF InboxOk, S
<1> QED BY <1>1, <1>2, <1>4, <1>6, <1>7 DEF j

\* The batches of the turns that go on.
LEMMA AnsweredBatchesOk ==
  ASSUME NEW T, NEW b, NEW l, NEW s, TurnsOk(T, b, l, s), NEW t, NEW x, TurnMoved(T, t, x),
         x.pc \notin Busy, NEW i, InboxOk(i), NEW o, BatchesOk(i, o, T, s), NEW r,
         r.turn = t, r.batch = x.batch
  PROVE  BatchesOk(Consuming(i, x.batch), o \cup {r}, MovedTurns(T, t, x), s)
<1> DEFINE U == MovedTurns(T, t, x)
           j == Consuming(i, x.batch)
           p == o \cup {r}
<1>1. SameBatches(T, U) /\ (\A u \in TurnIds : U[u] = IF u = t THEN x ELSE T[u]) /\ t \in TurnIds
      /\ T[t].pc \in Busy /\ x.batch = T[t].batch
  BY MovedBatches DEF TurnMoved
<1>2. \A u \in TurnIds : T[u].wait.job # 0 => T[u].wait.job \in TurnIds
  BY WaitJobs
<1>3. /\ InboxOk(j) /\ Len(j) = Len(i) /\ Staging(j) = {m \in Staging(i) : m \notin x.batch}
      /\ \A m \in 1..Len(i) : j[m] = IF m \in x.batch /\ i[m] = "Staged" THEN "Consumed" ELSE i[m]
  BY ConsumeFacts
<1>4. BatchOk(t, T[t], i, o, T, s)
  BY <1>1 DEF BatchesOk
<1>5. o \subseteq p /\ r \in p
  OBVIOUS
<1> HIDE DEF U, j, p
<1>6. /\ \A m : Stolen(m, o, s) => Stolen(m, p, s)
      /\ \A batch, seen : Saw(batch, seen, o, s) => Saw(batch, seen, p, s)
  BY <1>5, StolenStays
<1>7. ASSUME NEW u \in TurnIds, U[u].pc \in Busy
      PROVE  BatchOk(u, U[u], j, p, U, s)
  <2>1. u # t /\ U[u] = T[u] /\ BatchOk(u, T[u], i, o, T, s) /\ T[u].pc \in Busy
    BY <1>1, <1>7 DEF BatchesOk
  <2>2. \A m \in T[u].batch : m \in 1..Len(j) /\ j[m] # "Pending"
    BY <1>3, <2>1 DEF BatchOk
  <2>3. ASSUME NEW m \in T[u].batch, m \in Staging(j)
        PROVE  Early(j, m) /\ \A n \in Staging(j) : n < m => n \in T[u].batch
    <3>1. Early(i, m) /\ \A n \in Staging(i) : n < m => n \in T[u].batch
      BY <1>3, <2>1, <2>3 DEF BatchOk
    <3>2. Early(j, m)
      BY <1>3, <3>1, EarlyStays
    <3> QED BY <1>3, <3>1, <3>2
  <2>4. ASSUME NEW n \in T[u].batch, NEW m \in T[u].batch, n < m, n \notin Staging(j), m \in Staging(j)
        PROVE  Stolen(n, p, s)
    <3>1. CASE n \notin Staging(i)
      BY <1>3, <1>6, <2>1, <2>4, <3>1 DEF BatchOk
    <3>2. CASE n \in Staging(i)
      <4>1. n \in x.batch /\ m \notin x.batch /\ m \in Staging(i)
        BY <1>3, <2>4, <3>2
      <4>2. BatchSize > 1
        <5>1. Early(i, m)
          BY <2>1, <4>1 DEF BatchOk
        <5> QED BY <2>4, <3>2, <5>1, EarlyBehind
      <4>3. t \in s
        <5>1. SUFFICES ASSUME t \notin s PROVE FALSE
          OBVIOUS
        <5>2. t = b /\ u <= b /\ u \in Nat /\ b \in Nat
          BY <1>1, <2>1, <5>1, TurnNumbers DEF TurnsOk, TurnIds
        <5>3. u < t
          BY <2>1, <5>2
        <5> QED BY <1>1, <2>1, <4>1, <5>3 DEF BatchesOk
      <4> QED BY <1>5, <4>1, <4>2, <4>3 DEF Stolen
    <3> QED BY <3>1, <3>2
  <2>5. ASSUME u \notin s, NEW a \in p, a.batch \cap T[u].batch # {}
        PROVE  a.turn \in s
    <3>1. CASE a \in o
      BY <2>1, <2>5, <3>1 DEF BatchOk
    <3>2. CASE a = r
      BY <1>1, <2>1, <2>5, <3>2 DEF TurnsOk
    <3> QED BY <3>1, <3>2 DEF p
  <2>6. T[u].batch # {} /\ T[u].wait.job # 0 => Saw(T[u].batch, U[T[u].wait.job].batch, p, s)
    BY <1>1, <1>2, <1>6, <2>1 DEF BatchOk, SameBatches
  <2>7. T[u].batch # {} /\ T[u].reply = "text" => Saw(T[u].batch, T[u].seen, p, s)
    BY <1>6, <2>1 DEF BatchOk
  <2> QED BY <2>1, <2>2, <2>3, <2>4, <2>5, <2>6, <2>7 DEF BatchOk
<1>8. \A v, u \in TurnIds : U[v].pc \in Busy /\ U[u].pc \in Busy /\ v < u =>
        \A m \in U[v].batch : m \in Staging(j) => m \in U[u].batch
  BY <1>1, <1>3 DEF BatchesOk, SameBatches
<1> QED BY <1>7, <1>8 DEF BatchesOk, U, j, p

\* The replies.
LEMMA AnsweredRepliesOk ==
  ASSUME NEW T, NEW b, NEW l, NEW s, TurnsOk(T, b, l, s), NEW t, NEW x, TurnMoved(T, t, x),
         NEW i, InboxOk(i), NEW o, BatchesOk(i, o, T, s), RepliesOk(i, o, s), NEW r \in ReplyRecords,
         r.turn = t, r.batch = x.batch, r.reply = "text" => Saw(r.batch, r.seen, o, s)
  PROVE  RepliesOk(Consuming(i, x.batch), o \cup {r}, s)
<1> DEFINE j == Consuming(i, x.batch)
           p == o \cup {r}
<1>1. t \in TurnIds /\ T[t].pc \in Busy /\ x.batch = T[t].batch /\ BatchOk(t, T[t], i, o, T, s)
  BY DEF TurnMoved, BatchesOk
<1>2. /\ InboxOk(j) /\ Len(j) = Len(i) /\ Len(i) \in Nat
      /\ \A m \in 1..Len(i) : j[m] = IF m \in x.batch /\ i[m] = "Staged" THEN "Consumed" ELSE i[m]
      /\ \A m \in 1..Len(i) : i[m] \in {"Pending", "Staged", "Consumed"}
  BY ConsumeFacts, ElementOfSeq DEF InboxOk
<1>3. o \subseteq p /\ r \in p /\ \A a \in p : a \in o \/ a = r
  OBVIOUS
<1> HIDE DEF j, p
<1>4. \A batch, seen : Saw(batch, seen, o, s) => Saw(batch, seen, p, s)
  BY <1>3, StolenStays
<1>5. p \subseteq ReplyRecords
  BY <1>3 DEF RepliesOk
<1>6. ASSUME NEW a \in p, NEW m \in a.batch PROVE m \in 1..Len(j) /\ j[m] = "Consumed"
  <2>1. CASE a \in o
    <3>1. m \in 1..Len(i) /\ i[m] = "Consumed"
      BY <1>6, <2>1 DEF RepliesOk
    <3> QED BY <1>2, <3>1
  <2>2. CASE a = r
    <3>1. m \in x.batch /\ m \in 1..Len(i) /\ i[m] # "Pending"
      BY <1>1, <1>6, <2>2 DEF BatchOk
    <3> QED BY <1>2, <3>1
  <2> QED BY <1>3, <2>1, <2>2
<1>7. \A a \in p : a.reply = "text" => Saw(a.batch, a.seen, p, s)
  BY <1>3, <1>4 DEF RepliesOk
<1>8. ASSUME NEW a \in p, NEW z \in p, a.turn \notin s, z.turn \notin s, a.batch \cap z.batch # {}
      PROVE  a = z
  <2>1. CASE a \in o /\ z \in o
    BY <1>8, <2>1 DEF RepliesOk
  <2>2. CASE a = r /\ z \in o
    BY <1>1, <1>8, <2>2 DEF BatchOk
  <2>3. CASE z = r /\ a \in o
    BY <1>1, <1>8, <2>3 DEF BatchOk
  <2> QED BY <1>3, <2>1, <2>2, <2>3
<1>9. ASSUME NEW m \in 1..Len(j), j[m] = "Consumed" PROVE \E a \in p : m \in a.batch
  <2>1. CASE i[m] = "Consumed"
    BY <1>2, <1>3, <2>1 DEF RepliesOk
  <2>2. CASE i[m] # "Consumed"
    BY <1>2, <1>3, <1>9, <2>2
  <2> QED BY <2>1, <2>2
<1> QED BY <1>5, <1>6, <1>7, <1>8, <1>9 DEF RepliesOk, j, p

\* The waits of the messages that are left.
LEMMA AnsweredWaitsOk ==
  ASSUME NEW T, NEW b, NEW l, NEW s, TurnsOk(T, b, l, s), NEW t, NEW x, TurnMoved(T, t, x),
         x.pc \notin Busy, NEW i, InboxOk(i), NEW o, BatchesOk(i, o, T, s), NEW r,
         r.turn = t, r.batch = x.batch, NEW w, WaitsOk(i, o, w, T, s)
  PROVE  WaitsOk(Consuming(i, x.batch), o \cup {r}, Clearing(w, x.batch), MovedTurns(T, t, x), s)
<1> DEFINE U == MovedTurns(T, t, x)
           j == Consuming(i, x.batch)
           p == o \cup {r}
           v == Clearing(w, x.batch)
<1>1. SameBatches(T, U) /\ (\A u \in TurnIds : U[u] = IF u = t THEN x ELSE T[u]) /\ t \in TurnIds
      /\ T[t].pc \in Busy /\ x.batch = T[t].batch
  BY MovedBatches DEF TurnMoved
<1>3. /\ InboxOk(j) /\ Len(j) = Len(i) /\ Staging(j) = {m \in Staging(i) : m \notin x.batch}
      /\ \A m \in 1..Len(i) : j[m] = IF m \in x.batch /\ i[m] = "Staged" THEN "Consumed" ELSE i[m]
  BY ConsumeFacts
<1>4. o \subseteq p /\ r \in p /\ Staging(i) \subseteq Messages
  BY StagedAreMessages
<1>5. NoWait \in WaitRecords
  BY TurnNumbers DEF NoWait, WaitRecords
<1>6. v \in [Messages -> WaitRecords] /\ \A m \in Messages : v[m] = IF m \in x.batch THEN NoWait ELSE w[m]
  BY <1>5 DEF Clearing, WaitsOk
<1> HIDE DEF U, j, p, v
<1>7. \A m : Stolen(m, o, s) => Stolen(m, p, s)
  BY <1>4, StolenStays
<1>8. \A m \in Messages : (m \notin 1..Len(j) \/ j[m] = "Pending") => v[m] = NoWait
  BY <1>3, <1>6 DEF WaitsOk
<1>9. \A n, m \in Staging(j) : n < m /\ v[m].attempts # 0 => v[n].attempts # 0
  BY <1>3, <1>4, <1>6 DEF WaitsOk
<1>10. ASSUME NEW m \in Staging(j), v[m].job # 0 PROVE Held(m, v[m].job, j, p, U, s)
  <2>1. m \in Staging(i) /\ m \notin x.batch /\ v[m] = w[m] /\ Held(m, w[m].job, i, o, T, s)
    BY <1>3, <1>4, <1>6, <1>10 DEF WaitsOk
  <2> DEFINE y == w[m].job
  <2>2. y \in TurnIds
    BY <1>4, <1>10, <2>1, TurnNumbers DEF WaitsOk, WaitRecords, TurnIds
  <2> HIDE DEF y
  <2>3. Held(m, y, i, o, T, s) /\ U[y].batch = T[y].batch
    BY <1>1, <2>1, <2>2 DEF y, SameBatches
  <2>4. ASSUME m \in T[y].batch \/ \E n \in T[y].batch : Stolen(n, o, s)
        PROVE  Held(m, y, j, p, U, s)
    BY <1>7, <2>3, <2>4 DEF Held
  <2>5. ASSUME NEW n \in T[y].batch, n < m, n \in Staging(i), Early(i, m),
               \A u \in TurnIds : T[u].pc \in Busy /\ u \notin s /\ n \in T[u].batch => m \in T[u].batch
        PROVE  Held(m, y, j, p, U, s)
    <3>1. CASE n \in x.batch
      <4>1. t \in s
        BY <1>1, <2>1, <2>5, <3>1
      <4>2. BatchSize > 1
        BY <2>5, EarlyBehind
      <4>3. Stolen(n, p, s)
        BY <1>4, <3>1, <4>1, <4>2 DEF Stolen
      <4> QED BY <2>3, <2>5, <4>3 DEF Held
    <3>2. CASE n \notin x.batch
      <4>1. n \in Staging(j)
        BY <1>3, <2>5, <3>2
      <4>2. Early(j, m)
        BY <1>3, <2>5, EarlyStays
      <4>3. \A u \in TurnIds : U[u].pc \in Busy /\ u \notin s /\ n \in U[u].batch => m \in U[u].batch
        BY <1>1, <2>5 DEF SameBatches
      <4> QED BY <2>3, <2>5, <4>1, <4>2, <4>3 DEF Held
    <3> QED BY <3>1, <3>2
  <2>6. Held(m, y, j, p, U, s)
    BY <2>3, <2>4, <2>5 DEF Held
  <2> QED BY <2>1, <2>6 DEF y
<1> QED BY <1>6, <1>8, <1>9, <1>10 DEF WaitsOk, U, j, p, v

-----------------------------------------------------------------------------
\* A batch waits for its callback.
Waiting(w, batch, wait) == [m \in Messages |-> IF m \in batch THEN wait ELSE w[m]]

\* The waits afterwards: the job was submitted by this turn, or is the one it already waited for.
LEMMA DeferredWaitsOk ==
  ASSUME NEW T, NEW b, NEW l, NEW s, TurnsOk(T, b, l, s), NEW t, NEW x, TurnMoved(T, t, x),
         x.pc \notin Busy, NEW i, InboxOk(i), NEW o, BatchesOk(i, o, T, s), NEW w,
         WaitsOk(i, o, w, T, s), NEW wait \in WaitRecords, wait.attempts # 0,
         wait.job \in {0, t, T[t].wait.job}
  PROVE  WaitsOk(i, o, Waiting(w, x.batch, wait), MovedTurns(T, t, x), s)
<1> DEFINE U == MovedTurns(T, t, x)
           v == Waiting(w, x.batch, wait)
<1>1. SameBatches(T, U) /\ (\A u \in TurnIds : U[u] = IF u = t THEN x ELSE T[u]) /\ t \in TurnIds
      /\ T[t].pc \in Busy /\ x.batch = T[t].batch
  BY MovedBatches DEF TurnMoved
<1>2. Staging(i) \subseteq Messages /\ Messages \subseteq Nat
  BY StagedAreMessages
<1>3. v \in [Messages -> WaitRecords] /\ \A m \in Messages : v[m] = IF m \in x.batch THEN wait ELSE w[m]
  BY DEF Waiting, WaitsOk
<1>4. BatchOk(t, T[t], i, o, T, s) /\ T[t].batch \subseteq Messages
  BY <1>1 DEF BatchesOk, TurnsOk, TurnRecords
<1>5. \A u \in TurnIds : U[u].pc \in Busy /\ u \notin s => u # t /\ T[u].pc \in Busy /\ t < u
  <2>1. b \in Nat /\ \A u \in TurnIds : u \in Nat
    BY TurnNumbers DEF TurnsOk, TurnIds
  <2>2. \A u \in TurnIds : U[u].pc \in Busy /\ u \notin s => u # t /\ T[u].pc \in Busy /\ u = b
    BY <1>1 DEF TurnsOk
  <2>3. t <= b
    BY <1>1 DEF TurnsOk
  <2> QED BY <1>1, <2>1, <2>2, <2>3
<1> HIDE DEF U, v
<1>6. \A m \in Messages : (m \notin 1..Len(i) \/ i[m] = "Pending") => v[m] = NoWait
  BY <1>1, <1>3, <1>4 DEF WaitsOk, BatchOk
<1>7. ASSUME NEW n \in Staging(i), NEW m \in Staging(i), n < m, v[m].attempts # 0
      PROVE  v[n].attempts # 0
  <2>1. CASE m \in x.batch
    <3>1. n \in x.batch
      BY <1>1, <1>4, <1>7, <2>1 DEF BatchOk
    <3> QED BY <1>2, <1>3, <3>1
  <2>2. CASE m \notin x.batch
    <3>1. w[n].attempts # 0
      BY <1>2, <1>3, <1>7, <2>2 DEF WaitsOk
    <3> QED BY <1>2, <1>3, <3>1
  <2> QED BY <2>1, <2>2
<1>8. ASSUME NEW m \in Staging(i), v[m].job # 0 PROVE Held(m, v[m].job, i, o, U, s)
  <2>1. CASE m \notin x.batch
    <3>1. v[m] = w[m] /\ w[m] \in WaitRecords /\ Held(m, w[m].job, i, o, T, s)
      BY <1>2, <1>3, <1>8, <2>1 DEF WaitsOk
    <3>2. w[m].job \in TurnIds
      BY <1>8, <3>1, TurnNumbers DEF WaitRecords, TurnIds
    <3> QED BY <1>1, <3>1, <3>2, HeldStays
  <2>2. CASE m \in x.batch /\ wait.job = t
    BY <1>1, <1>2, <1>3, <2>2 DEF Held, SameBatches
  <2>3. CASE m \in x.batch /\ wait.job = T[t].wait.job
    <3> DEFINE y == wait.job
               first == Min(x.batch)
    <3>1. v[m].job = y /\ y # 0
      BY <1>2, <1>3, <1>8, <2>3
    <3>2. y \in TurnIds
      BY <1>1, <2>3, <3>1, WaitJobs
    <3>3. Saw(x.batch, T[y].batch, o, s) /\ U[y].batch = T[y].batch
      BY <1>1, <1>4, <2>3, <3>1, <3>2 DEF BatchOk, SameBatches
    <3>4. first \in x.batch /\ first <= m /\ first \in Nat /\ m \in Nat
      BY <1>1, <1>2, <1>4, <2>3, MinIsLeast
    <3> HIDE DEF y, first
    <3>5. ASSUME \E n \in T[y].batch : Stolen(n, o, s) PROVE Held(m, y, i, o, U, s)
      BY <3>3, <3>5 DEF Held
    <3>6. ASSUME first \in T[y].batch PROVE Held(m, y, i, o, U, s)
      <4>1. CASE first = m
        BY <3>3, <3>6, <4>1 DEF Held
      <4>2. CASE first # m /\ first \notin Staging(i)
        <5>1. Stolen(first, o, s)
          BY <1>1, <1>4, <2>3, <3>4, <4>2 DEF BatchOk
        <5> QED BY <3>5, <3>6, <5>1
      <4>3. CASE first # m /\ first \in Staging(i)
        <5>1. Early(i, m) /\ first < m
          BY <1>1, <1>4, <2>3, <3>4, <4>3 DEF BatchOk
        <5>2. \A u \in TurnIds : U[u].pc \in Busy /\ u \notin s => m \in U[u].batch
          BY <1>1, <1>5, <2>3 DEF BatchesOk, SameBatches
        <5> QED BY <3>3, <3>6, <4>3, <5>1, <5>2 DEF Held
      <4> QED BY <4>1, <4>2, <4>3
    <3>7. Held(m, y, i, o, U, s)
      BY <3>3, <3>5, <3>6 DEF Saw, first
    <3> QED BY <3>1, <3>7
  <2> QED BY <1>2, <1>3, <1>8, <2>1, <2>2, <2>3
<1> QED BY <1>3, <1>6, <1>7, <1>8 DEF WaitsOk, U, v

-----------------------------------------------------------------------------
\* A turn begins with the oldest messages, and with the wait of the oldest.
BeginningTurns(T, b, x) == [T EXCEPT ![b + 1] = x]

Loaded(w, batch) ==
  LET waiting == {m \in batch : w[m].attempts # 0}
  IN  IF waiting = {} THEN NoWait ELSE w[Min(waiting)]

\* The batch is new to every reply, and the wait is for its oldest message.
LEMMA TurnBeginsOk ==
  ASSUME NEW i, NEW o, NEW w, NEW T, NEW b, NEW s, MailOk(i, o, w, T, b, FALSE, s),
         b < MaxTurns, NEW x \in TurnRecords, x.calls + x.plan <= MaxToolCalls,
         x.batch = {m \in Staging(i) : Early(i, m)}, x.reply = "none",
         x.wait \in {NoWait, Loaded(w, x.batch)}
  PROVE  /\ MailOk(i, o, w, BeginningTurns(T, b, x), b + 1, TRUE, s)
         /\ x.batch # {} /\ x.wait.job # 0 =>
              x.wait.job \in TurnIds /\ Saw(x.batch, T[x.wait.job].batch, o, s)
<1> DEFINE U == BeginningTurns(T, b, x)
           t == b + 1
<1>1. b \in Nat /\ t \in TurnIds /\ MaxTurns \in Nat /\ T \in [TurnIds -> TurnRecords]
  BY TurnNumbers DEF MailOk, TurnsOk, TurnIds
<1>2. U \in [TurnIds -> TurnRecords] /\ \A u \in TurnIds : U[u] = IF u = t THEN x ELSE T[u]
  BY <1>1 DEF BeginningTurns
<1>3. \A u \in TurnIds : u \in Nat /\ (T[u].pc \in Busy => u < t /\ u \in s)
  BY <1>1 DEF MailOk, TurnsOk, TurnIds
<1> HIDE DEF U
<1>4. TurnsOk(U, t, TRUE, s)
  <2>1. s \subseteq TurnIds /\ t \in 0..MaxTurns
    BY <1>1 DEF MailOk, TurnsOk, TurnIds
  <2>2. \A u \in TurnIds : U[u].calls + U[u].plan <= MaxToolCalls
    BY <1>2 DEF MailOk, TurnsOk
  <2>4. \A u \in TurnIds : u > t => U[u].batch = {}
    BY <1>1, <1>2, <1>3 DEF MailOk, TurnsOk
  <2>3. \A u \in TurnIds : U[u].pc \in Busy => u <= t /\ (u \in s \/ u = t)
    BY <1>1, <1>2, <1>3
  <2> QED BY <1>1, <1>2, <2>1, <2>2, <2>3, <2>4 DEF TurnsOk
<1>9. t > b /\ \A u \in TurnIds : T[u].batch \subseteq U[u].batch
  BY <1>1, <1>2 DEF MailOk, TurnsOk
<1> HIDE DEF t
<1>5. Staging(i) \subseteq Messages /\ Messages \subseteq Nat /\ InboxOk(i) /\ Len(i) \in Nat
  BY StagedAreMessages DEF MailOk
<1>6. ASSUME NEW m \in x.batch, NEW n \in Staging(i), n < m PROVE n \in x.batch
  <2>1. Early(i, m) /\ m \in Nat /\ n \in Nat /\ \A k \in Staging(i) : k \in Nat
    BY <1>5
  <2>2. \A k \in Staging(i) : k < n => k \in Staging(i) /\ k < m
    BY <1>6, <2>1
  <2>3. Early(i, n)
    BY <1>5, <2>1, <2>2, EarlyStays
  <2> QED BY <2>3
<1>7. ASSUME x.batch # {}, x.wait.job # 0
      PROVE  x.wait.job \in TurnIds /\ Saw(x.batch, T[x.wait.job].batch, o, s)
  <2> DEFINE waiting == {m \in x.batch : w[m].attempts # 0}
             first == Min(x.batch)
  <2>1. x.wait = Loaded(w, x.batch) /\ waiting # {} /\ x.wait = w[Min(waiting)]
    BY <1>7 DEF Loaded, NoWait
  <2>2. first \in x.batch /\ (\A m \in x.batch : first <= m) /\ first \in Staging(i) /\ first \in Messages
    BY <1>5, <1>7, MinIsLeast
  <2>3. Min(waiting) \in waiting /\ \A m \in waiting : Min(waiting) <= m
    BY <1>5, <2>1, MinIsLeast
  <2>4. first \in waiting
    <3>1. Min(waiting) \in x.batch /\ Min(waiting) \in Staging(i) /\ w[Min(waiting)].attempts # 0
      BY <2>3
    <3>2. first = Min(waiting) \/ first < Min(waiting)
      <4> HIDE DEF first, waiting
      <4> QED BY <1>5, <2>2, <3>1
    <3>3. first < Min(waiting) => w[first].attempts # 0
      <4> HIDE DEF first, waiting
      <4> QED BY <2>2, <3>1 DEF MailOk, WaitsOk
    <3> QED BY <2>2, <3>1, <3>2, <3>3
  <2>5. first = Min(waiting)
    <3>1. Min(waiting) \in x.batch /\ Min(waiting) <= first /\ first <= Min(waiting)
      BY <2>2, <2>3, <2>4
    <3> HIDE DEF first, waiting
    <3> QED BY <1>5, <2>2, <3>1
  <2>6. x.wait = w[first] /\ w[first] \in WaitRecords
    BY <2>1, <2>2, <2>5 DEF MailOk, WaitsOk
  <2>7. x.wait.job \in TurnIds
    BY <1>1, <1>7, <2>6 DEF WaitRecords, TurnIds
  <2>8. Held(first, x.wait.job, i, o, T, s)
    BY <1>7, <2>2, <2>6 DEF MailOk, WaitsOk
  <2>9. \A n \in Staging(i) : ~ (n < first)
    <3> HIDE DEF first
    <3>1. \A n \in Staging(i) : n < first => n \in x.batch /\ first <= n /\ n \in Nat /\ first \in Nat
      BY <1>5, <1>6, <2>2
    <3> QED BY <3>1
  <2>10. first \in T[x.wait.job].batch \/ \E m \in T[x.wait.job].batch : Stolen(m, o, s)
    <3> HIDE DEF first
    <3> QED BY <2>8, <2>9 DEF Held
  <2> QED BY <2>7, <2>10 DEF Saw
<1>8. \A j \in TurnIds : \A batch : Saw(batch, T[j].batch, o, s) => Saw(batch, U[j].batch, o, s)
  BY <1>9 DEF Saw
<1>10. BatchOk(t, x, i, o, U, s)
  <2>1. \A m \in x.batch : m \in 1..Len(i) /\ i[m] # "Pending"
    BY DEF Staging
  <2>2. \A m \in x.batch : m \in Staging(i) => Early(i, m) /\ \A n \in Staging(i) : n < m => n \in x.batch
    BY <1>6
  <2>3. \A n, m \in x.batch : n \in Staging(i)
    OBVIOUS
  <2>4. \A r \in o : ~ (r.batch \cap x.batch # {})
    BY DEF MailOk, RepliesOk, Staging
  <2>5. x.batch # {} /\ x.wait.job # 0 => Saw(x.batch, U[x.wait.job].batch, o, s)
    BY <1>7, <1>8
  <2> QED BY <2>1, <2>2, <2>3, <2>4, <2>5 DEF BatchOk
<1>11. ASSUME NEW u \in TurnIds, U[u].pc \in Busy PROVE BatchOk(u, U[u], i, o, U, s)
  <2>1. CASE u = t
    BY <1>1, <1>2, <1>10, <2>1
  <2>2. CASE u # t
    <3>1. U[u] = T[u] /\ BatchOk(u, T[u], i, o, T, s)
      BY <1>2, <1>11, <2>2 DEF MailOk, BatchesOk
    <3>2. T[u].wait.job # 0 => T[u].wait.job \in TurnIds
      BY WaitJobs DEF MailOk
    <3>3. T[u].batch # {} /\ T[u].wait.job # 0 => Saw(T[u].batch, U[T[u].wait.job].batch, o, s)
      BY <1>8, <3>1, <3>2 DEF BatchOk
    <3> QED BY <3>1, <3>3 DEF BatchOk
  <2> QED BY <2>1, <2>2
<1>12. ASSUME NEW v \in TurnIds, NEW u \in TurnIds, U[v].pc \in Busy, U[u].pc \in Busy, v < u,
              NEW m \in U[v].batch, m \in Staging(i)
       PROVE  m \in U[u].batch
  <2>1. CASE u = t
    <3>1. v # t /\ T[v].pc \in Busy /\ U[v] = T[v]
      BY <1>2, <1>3, <1>12, <2>1
    <3>2. Early(i, m)
      BY <1>12, <3>1 DEF MailOk, BatchesOk, BatchOk
    <3> QED BY <1>2, <1>12, <2>1, <3>2
  <2>2. CASE u # t
    <3>1. T[u].pc \in Busy /\ U[u] = T[u] /\ u < t
      BY <1>2, <1>3, <1>12, <2>2
    <3>2. v # t /\ U[v] = T[v]
      BY <1>1, <1>2, <1>3, <1>12, <3>1 DEF t
    <3> QED BY <1>12, <3>1, <3>2 DEF MailOk, BatchesOk
  <2> QED BY <2>1, <2>2
<1>13. ASSUME NEW m \in Staging(i), w[m].job # 0 PROVE Held(m, w[m].job, i, o, U, s)
  <2> DEFINE y == w[m].job
  <2>1. w[m] \in WaitRecords
    BY <1>5 DEF MailOk, WaitsOk
  <2>2. y \in TurnIds /\ Held(m, y, i, o, T, s)
    BY <1>1, <1>13, <2>1 DEF WaitRecords, TurnIds, MailOk, WaitsOk
  <2> HIDE DEF y
  <2>3. T[y].batch \subseteq U[y].batch
    BY <1>9, <2>2
  <2>4. ASSUME NEW n \in T[y].batch, n < m, n \in Staging(i), Early(i, m),
               \A u \in TurnIds : T[u].pc \in Busy /\ u \notin s /\ n \in T[u].batch => m \in T[u].batch
        PROVE  Held(m, y, i, o, U, s)
    <3>1. \A u \in TurnIds : U[u].pc \in Busy /\ u \notin s /\ n \in U[u].batch => m \in U[u].batch
      BY <1>2, <2>4
    <3> QED BY <2>3, <2>4, <3>1 DEF Held
  <2>5. Held(m, y, i, o, U, s)
    BY <2>2, <2>3, <2>4 DEF Held
  <2> QED BY <2>5 DEF y
<1>14. BatchesOk(i, o, U, s)
  BY <1>11, <1>12 DEF BatchesOk
<1>15. WaitsOk(i, o, w, U, s)
  BY <1>13 DEF MailOk, WaitsOk
<1> QED BY <1>4, <1>7, <1>14, <1>15 DEF MailOk, U, t

-----------------------------------------------------------------------------
\* What a turn in the middle of a step has made of itself.
Draft(t, y, T, o, s) ==
  /\ t \in TurnIds /\ T[t].pc \in Busy /\ y \in TurnRecords
  /\ y.batch = T[t].batch /\ y.wait = T[t].wait
  /\ y.batch # {} /\ y.reply = "text" => Saw(y.batch, y.seen, o, s)

Resting(y, pc, plan) == [y EXCEPT !.pc = pc, !.plan = plan]

Ended(batch) == TurnAt("done", batch, NoWait, FALSE)

\* The record of a turn that went on, and of one that is over.
LEMMA DraftMoves ==
  ASSUME NEW t, NEW T, NEW o, NEW s, NEW y, Draft(t, y, T, o, s), NEW pc \in Busy,
         NEW plan \in 0..MaxToolCalls, y.calls + plan <= MaxToolCalls
  PROVE  /\ TurnMoved(T, t, Resting(y, pc, plan)) /\ Resting(y, pc, plan).pc = pc
         /\ Resting(y, pc, plan).wait = y.wait /\ Resting(y, pc, plan).reply = y.reply
         /\ Resting(y, pc, plan).seen = y.seen /\ Resting(y, pc, plan).batch = y.batch
<1>1. Resting(y, pc, plan) \in TurnRecords
  BY DEF Draft, Resting, TurnRecords, Busy
<1>2. /\ Resting(y, pc, plan).pc = pc /\ Resting(y, pc, plan).plan = plan
      /\ Resting(y, pc, plan).calls = y.calls /\ Resting(y, pc, plan).batch = y.batch
      /\ Resting(y, pc, plan).wait = y.wait /\ Resting(y, pc, plan).reply = y.reply
      /\ Resting(y, pc, plan).seen = y.seen
  BY DEF Draft, Resting, TurnRecords
<1> QED BY <1>1, <1>2 DEF TurnMoved, Draft

\* A turn that is over keeps nothing but its batch.
LEMMA DraftEnds ==
  ASSUME NEW t, NEW T, NEW o, NEW s, NEW y, Draft(t, y, T, o, s)
  PROVE  /\ TurnMoved(T, t, Ended(y.batch)) /\ Ended(y.batch).batch = y.batch
         /\ Ended(y.batch).pc \notin Busy
<1>1. y.batch \in SUBSET Messages
  BY DEF Draft, TurnRecords
<1>2. NoWait \in WaitRecords /\ 1 \in 1..MaxRounds /\ 0 \in 0..MaxToolCalls
  BY TurnNumbers DEF NoWait, WaitRecords
<1> DEFINE w == NoWait
           c == y.batch
<1>3. Ended(c) = [pc |-> "done", batch |-> c, wait |-> w, buffered |-> FALSE, round |-> 1,
                  calls |-> 0, ran |-> FALSE, reply |-> "none", seen |-> {}, plan |-> 0]
  BY DEF Ended, TurnAt
<1> HIDE DEF w, c
<1>4. Ended(c) \in TurnRecords /\ Ended(c).calls + Ended(c).plan <= MaxToolCalls
      /\ Ended(c).batch = c /\ Ended(c).pc = "done"
  BY <1>1, <1>2, <1>3, TurnNumbers DEF TurnRecords, Replies, c, w
<1> QED BY <1>4 DEF TurnMoved, Draft, Busy, c

\* A turn is suspended.
LEMMA GoesOnOk ==
  ASSUME NEW i, NEW o, NEW w, NEW T, NEW b, NEW l, NEW s, MailOk(i, o, w, T, b, l, s),
         NEW t, NEW y, Draft(t, y, T, o, s), NEW pc \in Busy,
         NEW plan \in 0..MaxToolCalls, y.calls + plan <= MaxToolCalls
  PROVE  MailOk(i, o, w, MovedTurns(T, t, Resting(y, pc, plan)), b, l, s)
<1> DEFINE x == Resting(y, pc, plan)
<1>1. TurnMoved(T, t, x) /\ x.pc \in Busy /\ x.wait = T[t].wait
      /\ (x.batch # {} /\ x.reply = "text" => Saw(x.batch, x.seen, o, s))
  <2>1. /\ TurnMoved(T, t, x) /\ x.pc = pc /\ x.wait = y.wait /\ x.reply = y.reply
        /\ x.seen = y.seen /\ x.batch = y.batch
    BY DraftMoves
  <2> HIDE DEF x
  <2> QED BY <2>1 DEF Draft
<1> HIDE DEF x
<1>2. TurnsOk(T, b, l, s) /\ BatchesOk(i, o, T, s) /\ WaitsOk(i, o, w, T, s) /\ InboxOk(i) /\ l \in BOOLEAN
  BY DEF MailOk, TurnsOk
<1>3. TurnsOk(MovedTurns(T, t, x), b, l, s)
  BY <1>1, <1>2, MovedTurnsOk
<1>4. BatchesOk(i, o, MovedTurns(T, t, x), s)
  BY <1>1, <1>2, MovedBatchesOk
<1>5. WaitsOk(i, o, w, MovedTurns(T, t, x), s)
  BY <1>1, <1>2, MovedBatches, MovedWaitsOk
<1> QED BY <1>3, <1>4, <1>5 DEF MailOk, x

\* A turn ends without a word.
LEMMA EndsOk ==
  ASSUME NEW i, NEW o, NEW w, NEW T, NEW b, NEW l, NEW s, MailOk(i, o, w, T, b, l, s),
         NEW t, NEW y, Draft(t, y, T, o, s), NEW k \in BOOLEAN, k <=> t < b /\ l
  PROVE  MailOk(i, o, w, MovedTurns(T, t, Ended(y.batch)), b, k, s)
<1> DEFINE x == Ended(y.batch)
<1>1. TurnMoved(T, t, x) /\ x.pc \notin Busy
  BY DraftEnds
<1> HIDE DEF x
<1>2. TurnsOk(T, b, l, s) /\ BatchesOk(i, o, T, s) /\ WaitsOk(i, o, w, T, s) /\ InboxOk(i)
  BY DEF MailOk
<1>3. TurnsOk(MovedTurns(T, t, x), b, k, s)
  BY <1>1, <1>2, MovedTurnsOk
<1>4. BatchesOk(i, o, MovedTurns(T, t, x), s)
  BY <1>1, <1>2, MovedBatchesOk
<1>5. WaitsOk(i, o, w, MovedTurns(T, t, x), s)
  BY <1>1, <1>2, MovedBatches, MovedWaitsOk
<1> QED BY <1>3, <1>4, <1>5 DEF MailOk, x

ReplyOf(t, y, reply) == [turn |-> t, batch |-> y.batch, reply |-> reply, seen |-> y.seen]

\* A turn ends by answering.
LEMMA AnswersOk ==
  ASSUME NEW i, NEW o, NEW w, NEW T, NEW b, NEW l, NEW s, MailOk(i, o, w, T, b, l, s),
         NEW t, NEW y, Draft(t, y, T, o, s), NEW k \in BOOLEAN, k <=> t < b /\ l,
         NEW reply \in Replies, y.batch # {}, reply = "text" => y.reply = "text"
  PROVE  MailOk(Consuming(i, y.batch),
                o \cup {ReplyOf(t, y, reply)},
                Clearing(w, y.batch), MovedTurns(T, t, Ended(y.batch)), b, k, s)
<1> DEFINE x == Ended(y.batch)
           r == ReplyOf(t, y, reply)
<1>1. TurnMoved(T, t, x) /\ x.pc \notin Busy /\ x.batch = y.batch
  BY DraftEnds
<1>2. r \in ReplyRecords /\ r.turn = t /\ r.batch = y.batch /\ (r.reply = "text" => Saw(r.batch, r.seen, o, s))
  BY DEF Draft, TurnRecords, ReplyRecords, ReplyOf
<1> HIDE DEF x, r
<1>3. TurnsOk(T, b, l, s) /\ BatchesOk(i, o, T, s) /\ WaitsOk(i, o, w, T, s) /\ InboxOk(i) /\ RepliesOk(i, o, s)
  BY DEF MailOk
<1>4. TurnsOk(MovedTurns(T, t, x), b, k, s)
  BY <1>1, <1>3, MovedTurnsOk
<1>5. BatchesOk(Consuming(i, y.batch), o \cup {r}, MovedTurns(T, t, x), s)
  BY <1>1, <1>2, <1>3, AnsweredBatchesOk
<1>6. WaitsOk(Consuming(i, y.batch), o \cup {r}, Clearing(w, y.batch), MovedTurns(T, t, x), s)
  BY <1>1, <1>2, <1>3, AnsweredWaitsOk
<1>7. RepliesOk(Consuming(i, y.batch), o \cup {r}, s)
  BY <1>1, <1>2, <1>3, AnsweredRepliesOk
<1>8. InboxOk(Consuming(i, y.batch))
  BY <1>3, ConsumeFacts
<1> QED BY <1>4, <1>5, <1>6, <1>7, <1>8 DEF MailOk, x, r

\* A turn ends, and its batch waits.
LEMMA DefersOk ==
  ASSUME NEW i, NEW o, NEW w, NEW T, NEW b, NEW l, NEW s, MailOk(i, o, w, T, b, l, s),
         NEW t, NEW y, Draft(t, y, T, o, s), NEW k \in BOOLEAN, k <=> t < b /\ l,
         NEW wait \in WaitRecords, wait.attempts # 0, wait.job \in {0, t, y.wait.job}
  PROVE  MailOk(i, o, Waiting(w, y.batch, wait), MovedTurns(T, t, Ended(y.batch)), b, k, s)
<1> DEFINE x == Ended(y.batch)
<1>1. TurnMoved(T, t, x) /\ x.pc \notin Busy /\ x.batch = y.batch /\ y.wait = T[t].wait
  BY DraftEnds DEF Draft
<1> HIDE DEF x
<1>2. TurnsOk(T, b, l, s) /\ BatchesOk(i, o, T, s) /\ WaitsOk(i, o, w, T, s) /\ InboxOk(i)
  BY DEF MailOk
<1>3. TurnsOk(MovedTurns(T, t, x), b, k, s)
  BY <1>1, <1>2, MovedTurnsOk
<1>4. BatchesOk(i, o, MovedTurns(T, t, x), s)
  BY <1>1, <1>2, MovedBatchesOk
<1>5. WaitsOk(i, o, Waiting(w, y.batch, wait), MovedTurns(T, t, x), s)
  BY <1>1, <1>2, DeferredWaitsOk
<1> QED BY <1>3, <1>4, <1>5 DEF MailOk, x

-----------------------------------------------------------------------------
\* The ways in which a step of a turn comes out.
Outcome(t, y) ==
  \/ EndAnswering(t, y)
  \/ EndFailed(t, y)
  \/ \E pc \in Busy, plan \in 0..MaxToolCalls : y.calls + plan <= MaxToolCalls /\ Suspend(t, y, pc, plan)
  \/ \E job \in {0, t}, aged \in BOOLEAN : EndDeferred(t, y, job, aged)

\* The turn t is one of the turns T, of which b have begun, and holds the lock l or not:
\* it was already there, or it begins in this step.
Stands(t, T, b, l) ==
  /\ l \in BOOLEAN /\ (l <=> t > begun \/ lock) /\ (t < b /\ l <=> t < begun /\ lock)
  /\ \A x : [turn EXCEPT ![t] = x] = MovedTurns(T, t, x)

\* However a step comes out, the mail is in order.
LEMMA OutcomeOk ==
  ASSUME NEW T, NEW b, NEW l, NEW t, NEW y, MailOk(inbox, outbox, waits, T, b, l, stale),
         Draft(t, y, T, outbox, stale), Stands(t, T, b, l), Outcome(t, y)
  PROVE  MailOk(inbox', outbox', waits', turn', b, lock', stale)
<1>1. ASSUME FinishTurn(t, y)
      PROVE  turn' = MovedTurns(T, t, Ended(y.batch)) /\ lock' \in BOOLEAN /\ (lock' <=> t < b /\ l)
  <2>1. turn' = [turn EXCEPT ![t] = Ended(y.batch)] /\ lock' = (t < begun /\ lock)
    BY <1>1 DEF FinishTurn, Turn, Ended
  <2> QED BY <2>1 DEF Stands
<1>2. ASSUME EndFailed(t, y) PROVE MailOk(inbox', outbox', waits', turn', b, lock', stale)
  <2>1. turn' = MovedTurns(T, t, Ended(y.batch)) /\ lock' \in BOOLEAN /\ (lock' <=> t < b /\ l)
    BY <1>1, <1>2 DEF EndFailed
  <2>2. MailOk(inbox, outbox, waits, turn', b, lock', stale)
    BY <2>1, EndsOk
  <2> QED BY <1>2, <2>2 DEF EndFailed
<1>3. ASSUME NEW pc \in Busy, NEW plan \in 0..MaxToolCalls, y.calls + plan <= MaxToolCalls,
             Suspend(t, y, pc, plan)
      PROVE  MailOk(inbox', outbox', waits', turn', b, lock', stale)
  <2>1. turn' = MovedTurns(T, t, Resting(y, pc, plan)) /\ lock' = l
    <3>1. turn' = [turn EXCEPT ![t] = Resting(y, pc, plan)] /\ lock' = (t > begun \/ lock)
      BY <1>3 DEF Suspend, Turn, Resting
    <3> QED BY <3>1 DEF Stands
  <2>2. MailOk(inbox, outbox, waits, turn', b, lock', stale)
    BY <1>3, <2>1, GoesOnOk
  <2> QED BY <1>3, <2>2 DEF Suspend
<1>4. ASSUME NEW reply \in Replies, FinishTurn(t, y), Answer(t, y, reply), y.batch # {},
             reply = "text" => y.reply = "text"
      PROVE  MailOk(inbox', outbox', waits', turn', b, lock', stale)
  <2>1. turn' = MovedTurns(T, t, Ended(y.batch)) /\ lock' \in BOOLEAN /\ (lock' <=> t < b /\ l)
    BY <1>1, <1>4
  <2>2. /\ inbox' = Consuming(inbox, y.batch) /\ waits' = Clearing(waits, y.batch)
        /\ outbox' = outbox \cup {ReplyOf(t, y, reply)}
    BY <1>4 DEF Answer, ReplyOf, ConsumeStaged, Consuming, Clearing
  <2>3. MailOk(Consuming(inbox, y.batch), outbox \cup {ReplyOf(t, y, reply)},
               Clearing(waits, y.batch), MovedTurns(T, t, Ended(y.batch)), b, lock', stale)
    BY <1>4, <2>1, AnswersOk
  <2> QED BY <2>1, <2>2, <2>3
<1>5. ASSUME EndAnswering(t, y) PROVE MailOk(inbox', outbox', waits', turn', b, lock', stale)
  <2>1. CASE y.batch # {}
    <3> DEFINE reply == IF y.reply = "none" THEN "fallback" ELSE y.reply
    <3>1. FinishTurn(t, y) /\ Answer(t, y, reply)
      BY <1>5, <2>1 DEF EndAnswering
    <3>2. y.reply \in Replies
      BY DEF Draft, TurnRecords
    <3>3. reply \in Replies /\ (reply = "text" => y.reply = "text")
      BY <3>2 DEF Replies
    <3> HIDE DEF reply
    <3> QED BY <1>4, <2>1, <3>1, <3>3
  <2>2. CASE y.batch = {}
    <3>1. EndFailed(t, y) \/ (FinishTurn(t, y) /\ UNCHANGED <<inbox, outbox, waits>>)
      BY <1>5, <2>2 DEF EndAnswering
    <3>2. turn' = MovedTurns(T, t, Ended(y.batch)) /\ lock' \in BOOLEAN /\ (lock' <=> t < b /\ l)
      BY <1>1, <3>1 DEF EndFailed
    <3>3. MailOk(inbox, outbox, waits, turn', b, lock', stale)
      BY <3>2, EndsOk
    <3> QED BY <3>1, <3>3 DEF EndFailed
  <2> QED BY <2>1, <2>2
<1>6. ASSUME NEW job \in {0, t}, NEW aged \in BOOLEAN, EndDeferred(t, y, job, aged)
      PROVE  MailOk(inbox', outbox', waits', turn', b, lock', stale)
  <2> DEFINE wait == [job      |-> IF y.wait.job # 0 THEN y.wait.job ELSE job,
                      attempts |-> y.wait.attempts + 1]
  <2>1. FinishTurn(t, y)
    BY <1>6 DEF EndDeferred
  <2>2. turn' = MovedTurns(T, t, Ended(y.batch)) /\ lock' \in BOOLEAN /\ (lock' <=> t < b /\ l)
    BY <1>1, <2>1
  <2>3. CASE y.batch = {}
    <3>1. UNCHANGED <<inbox, outbox, waits>>
      BY <1>6, <2>3 DEF EndDeferred
    <3>2. MailOk(inbox, outbox, waits, turn', b, lock', stale)
      BY <2>2, EndsOk
    <3> QED BY <3>1, <3>2
  <2>4. CASE y.batch # {} /\ FailCloses(wait, aged)
    <3>1. Answer(t, y, "window closed")
      BY <1>6, <2>4 DEF EndDeferred
    <3> QED BY <1>4, <2>1, <2>4, <3>1 DEF Replies
  <2>5. CASE y.batch # {} /\ ~ FailCloses(wait, aged)
    <3>1. waits' = Waiting(waits, y.batch, wait) /\ UNCHANGED <<inbox, outbox>>
      BY <1>6, <2>5 DEF EndDeferred, Waiting
    <3>2. y.wait \in WaitRecords /\ t \in TurnIds
      BY DEF Draft, TurnRecords
    <3>3. y.wait.job \in 0..MaxTurns /\ y.wait.attempts \in Nat /\ t \in 0..MaxTurns /\ 0 \in 0..MaxTurns
      BY <3>2, TurnNumbers DEF WaitRecords, TurnIds
    <3>4. wait.job \in {0, t, y.wait.job} /\ wait.job \in 0..MaxTurns /\ wait.attempts = y.wait.attempts + 1
      BY <3>3
    <3>5. wait.attempts < MaxWaitAttempts
      BY <2>5, <3>3, <3>4, TurnNumbers DEF FailCloses
    <3>6. wait.attempts \in 0 .. MaxWaitAttempts - 1 /\ wait.attempts # 0
      BY <3>3, <3>4, <3>5, TurnNumbers
    <3>7. wait \in WaitRecords
      BY <3>4, <3>6 DEF WaitRecords
    <3> HIDE DEF wait
    <3>8. MailOk(inbox, outbox, waits', turn', b, lock', stale)
      BY <2>2, <3>1, <3>4, <3>6, <3>7, DefersOk
    <3> QED BY <3>1, <3>8
  <2> QED BY <2>3, <2>4, <2>5
<1> QED BY <1>2, <1>3, <1>5, <1>6 DEF Outcome

\* A step that comes to no inference.
LEMMA EndRoundsComesOut ==
  ASSUME NEW t, NEW y \in TurnRecords, EndRounds(t, y)
  PROVE  Outcome(t, y)
<1>1. y.calls \in 0..MaxToolCalls
  BY DEF TurnRecords
<1>2. y.calls + 0 <= MaxToolCalls /\ 0 \in 0..MaxToolCalls
  BY <1>1, TurnNumbers
<1> QED BY <1>2 DEF EndRounds, Outcome, Busy

\* The output of an inference, however it is used.
LEMMA ApplyComesOut ==
  ASSUME NEW t, NEW T, NEW o, NEW s, NEW y, Draft(t, y, T, o, s), NEW seen \in SUBSET Messages,
         NEW out \in DirectOutputs, NEW late \in BOOLEAN, ApplyOutput(t, y, out, seen, late),
         y.batch # {} /\ out \in {"text", "calls"} => Saw(y.batch, seen, o, s)
  PROVE  \E z : Draft(t, z, T, o, s) /\ Outcome(t, z)
<1> DEFINE said == [y EXCEPT !.reply = "text", !.seen = seen]
           skip == [y EXCEPT !.reply = "skipped"]
<1>1. y \in TurnRecords
  BY DEF Draft
<1>2. said \in TurnRecords /\ said.batch = y.batch /\ said.wait = y.wait /\ said.seen = seen
  BY <1>1 DEF TurnRecords, Replies
<1>3. skip \in TurnRecords /\ skip.batch = y.batch /\ skip.wait = y.wait /\ skip.reply = "skipped"
  BY <1>1 DEF TurnRecords, Replies
<1>4. Draft(t, skip, T, o, s) /\ (out \in {"text", "calls"} => Draft(t, said, T, o, s))
  BY <1>2, <1>3 DEF Draft
<1>5. \A z \in TurnRecords : EndRounds(t, z) => Outcome(t, z)
  BY EndRoundsComesOut
<1>6. \A z : EndAnswering(t, z) \/ EndFailed(t, z) => Outcome(t, z)
  BY DEF Outcome
<1>7. ASSUME NEW z \in TurnRecords, NEW n \in 1..MaxToolCalls, PlanTools(t, z, n)
      PROVE  Outcome(t, z)
  <2> DEFINE left == MaxToolCalls - z.calls
             m == Min({n, left})
  <2>1. z.calls \in 0..MaxToolCalls
    BY <1>7 DEF TurnRecords
  <2>2. left \in Nat /\ n \in Nat /\ z.calls + left = MaxToolCalls
    BY <2>1, TurnNumbers
  <2>3. m \in {n, left} /\ m <= left
    <3> HIDE DEF left
    <3> QED BY <2>2, MinIsLeast
  <2>4. m \in 0..MaxToolCalls /\ z.calls + m <= MaxToolCalls
    <3> HIDE DEF left, m
    <3> QED BY <2>1, <2>2, <2>3, TurnNumbers
  <2>5. EndRounds(t, z) \/ Suspend(t, z, "tools", m)
    BY <1>7 DEF PlanTools
  <2> HIDE DEF m
  <2> QED BY <1>5, <1>7, <2>4, <2>5 DEF Outcome, Busy
<1> HIDE DEF said, skip
<1>8. CASE late
  BY <1>1, <1>5, <1>8 DEF ApplyOutput
<1>9. CASE ~ late /\ out \in {"error", "rejected"}
  <2>1. InferenceFails(t, y)
    BY <1>9 DEF ApplyOutput
  <2> QED BY <1>6, <2>1 DEF InferenceFails
<1>10. CASE ~ late /\ out = "skipped"
  <2>1. EndAnswering(t, skip)
    BY <1>10 DEF ApplyOutput, skip
  <2> QED BY <1>4, <1>6, <2>1
<1>11. CASE ~ late /\ out = "text"
  <2>1. EndRounds(t, said)
    BY <1>11 DEF ApplyOutput, said
  <2> QED BY <1>2, <1>4, <1>5, <1>11, <2>1
<1>12. CASE ~ late /\ out = "empty"
  <2>1. EndRounds(t, y)
    BY <1>12 DEF ApplyOutput
  <2> QED BY <1>1, <1>5, <2>1
<1>13. CASE ~ late /\ out = "calls"
  <2>1. \E n \in 1..MaxToolCalls : PlanTools(t, y, n) \/ PlanTools(t, said, n)
    BY <1>13 DEF ApplyOutput, said
  <2> QED BY <1>1, <1>2, <1>4, <1>7, <1>13, <2>1
<1> QED BY <1>8, <1>9, <1>10, <1>11, <1>12, <1>13 DEF DirectOutputs

-----------------------------------------------------------------------------
\* The callbacks: a job is buffered once, and never again after it was used.
ProxyRecords == [pending : SUBSET TurnIds, results : Seq([job : TurnIds, out : WorkerOutputs]),
                 done : SUBSET TurnIds]

ProxyOk(p, u) ==
  /\ p \in ProxyRecords /\ u \in [TurnIds -> {0, 1}]
  /\ \A k \in 1..Len(p.results) : p.results[k].job \in p.done /\ u[p.results[k].job] = 0
  /\ \A k, m \in 1..Len(p.results) : p.results[k].job = p.results[m].job => k = m
  /\ \A t \in TurnIds : u[t] = 1 => t \in p.done

\* The rows of the buffer.
LEMMA Buffered ==
  ASSUME NEW p \in ProxyRecords
  PROVE  /\ p.results \in Seq([job : TurnIds, out : WorkerOutputs]) /\ Table(p.results)
         /\ Len(p.results) \in Nat /\ DOMAIN p.results = 1..Len(p.results)
         /\ \A k \in 1..Len(p.results) : p.results[k].job \in TurnIds /\ p.results[k].out \in WorkerOutputs
<1>1. p.results \in Seq([job : TurnIds, out : WorkerOutputs])
  BY DEF ProxyRecords
<1>2. \A k \in 1..Len(p.results) : p.results[k] \in [job : TurnIds, out : WorkerOutputs]
  BY <1>1, ElementOfSeq
<1>3. Len(p.results) \in Nat /\ DOMAIN p.results = 1..Len(p.results)
  BY <1>1, LenProperties
<1> QED BY <1>1, <1>2, <1>3 DEF Table

\* A callback is accepted only for a job that was not yet called back.
LEMMA CallbackOk ==
  ASSUME NEW p, NEW u, ProxyOk(p, u), NEW job \in TurnIds, NEW out \in WorkerOutputs
  PROVE  ProxyOk(ApplyCallback(p, job, out), u)
<1> DEFINE a == ApplyCallback(p, job, out)
           e == [job |-> job, out |-> out]
           R == [job : TurnIds, out : WorkerOutputs]
<1>1. CASE a = p
  BY <1>1
<1>2. CASE a # p
  <2> DEFINE new == Append(p.results, e)
             n == Len(p.results)
  <2>1. job \notin p.done /\ a = [pending |-> p.pending \ {job}, results |-> new, done |-> p.done \cup {job}]
    BY <1>2 DEF ApplyCallback
  <2>2. p \in ProxyRecords /\ p.results \in Seq(R) /\ e \in R /\ Table(p.results) /\ e.job = job
    BY Buffered DEF ProxyOk
  <2>3. /\ new \in Seq(R) /\ Len(new) = n + 1 /\ n \in Nat /\ new[n + 1] = e
        /\ \A k \in 1..n : new[k] = p.results[k]
    <3> HIDE DEF e, R
    <3> QED BY <2>2, AppendTable, AppendProperties
  <2>4. p.pending \in SUBSET TurnIds /\ p.done \in SUBSET TurnIds
    BY <2>2 DEF ProxyRecords
  <2> HIDE DEF new, e
  <2>5. a.results = new /\ a.done = p.done \cup {job} /\ a \in ProxyRecords
    BY <2>1, <2>3, <2>4 DEF ProxyRecords
  <2> HIDE DEF a, n
  <2>6. \A k \in 1 .. n + 1 : k = n + 1 \/ k \in 1..n
    BY <2>3
  <2>7. \A k \in 1..n : new[k].job \in p.done /\ new[k].job # job /\ u[new[k].job] = 0
    BY <2>1, <2>3 DEF ProxyOk, n
  <2>8. new[n + 1].job = job /\ u[job] = 0
    BY <2>1, <2>2, <2>3 DEF ProxyOk
  <2>9. \A k \in 1 .. n + 1 : new[k].job \in a.done /\ u[new[k].job] = 0
    BY <2>5, <2>6, <2>7, <2>8
  <2>10. \A k, m \in 1 .. n + 1 : new[k].job = new[m].job => k = m
    <3>1. \A k, m \in 1..n : new[k].job = new[m].job => k = m
      BY <2>3 DEF ProxyOk, n
    <3> QED BY <2>6, <2>7, <2>8, <3>1
  <2> QED BY <2>3, <2>5, <2>9, <2>10 DEF ProxyOk, a
<1> QED BY <1>1, <1>2

\* The submission and the expiry of a job touch no callback.
LEMMA PendingOk ==
  ASSUME NEW p, NEW u, ProxyOk(p, u), NEW job \in TurnIds
  PROVE  ProxyOk(UpsertPendingJob(p, job), u) /\ ProxyOk(ExpirePending(p, job), u)
<1>1. ASSUME NEW a \in {UpsertPendingJob(p, job), ExpirePending(p, job)}
      PROVE  a \in ProxyRecords /\ a.results = p.results /\ a.done = p.done
  BY DEF ProxyOk, ProxyRecords, UpsertPendingJob, ExpirePending
<1> QED BY <1>1 DEF ProxyOk

Using(u, job) == [u EXCEPT ![job] = @ + 1]

\* A callback that is taken is used up.
LEMMA TakeOk ==
  ASSUME NEW p, NEW u, ProxyOk(p, u), NEW job \in BufferedJobs(p)
  PROVE  /\ ProxyOk(TakeCallback(p, job), Using(u, job))
         /\ job \in TurnIds /\ Result(p, job) \in WorkerOutputs
<1> DEFINE n == Len(p.results)
           c == PlaceOf(p, job)
           R == [job : TurnIds, out : WorkerOutputs]
           new == [k \in 1 .. n - 1 |-> p.results[IF k < c THEN k ELSE k + 1]]
           a == TakeCallback(p, job)
           v == Using(u, job)
<1>1. p \in ProxyRecords /\ n \in Nat /\ \A k \in 1..n : p.results[k] \in R /\ p.results[k].job \in TurnIds
  BY Buffered, ElementOfSeq DEF ProxyOk
<1>2. c \in 1..n /\ p.results[c].job = job
  BY DEF BufferedJobs, PlaceOf
<1>3. job \in TurnIds /\ Result(p, job) \in WorkerOutputs
  BY <1>1, <1>2 DEF Result
<1>4. a = [p EXCEPT !.results = new]
  BY DEF TakeCallback
<1> HIDE DEF c, n
<1>5. n - 1 \in Nat /\ new \in [1 .. n - 1 -> R] /\ \A k \in 1 .. n - 1 :
        \E m \in 1..n : m # c /\ new[k] = p.results[m] /\ m = IF k < c THEN k ELSE k + 1
  <2>1. n - 1 \in Nat
    BY <1>1, <1>2
  <2>2. ASSUME NEW k \in 1 .. n - 1
        PROVE  \E m \in 1..n : m # c /\ new[k] = p.results[m] /\ m = IF k < c THEN k ELSE k + 1
    <3> DEFINE m == IF k < c THEN k ELSE k + 1
    <3>1. m \in 1..n /\ m # c
      BY <1>1, <1>2
    <3> QED BY <3>1
  <2>3. \A k \in 1 .. n - 1 : new[k] \in R
    <3> HIDE DEF new
    <3> QED BY <1>1, <2>2
  <2> QED BY <2>1, <2>2, <2>3
<1> HIDE DEF new, R
<1>6. new \in Seq(R) /\ Len(new) = n - 1
  <2> DEFINE d == n - 1
  <2>1. d \in Nat /\ new \in [1..d -> R]
    BY <1>5
  <2> HIDE DEF d
  <2>2. new \in Seq(R)
    BY <2>1, SeqDef
  <2>3. DOMAIN new = 1..Len(new) /\ Len(new) \in Nat
    BY <2>2, LenProperties
  <2>4. Len(new) = d
    BY <2>1, <2>3
  <2> QED BY <2>2, <2>4 DEF d
<1>7. a \in ProxyRecords /\ a.results = new /\ a.done = p.done
  BY <1>1, <1>4, <1>6 DEF ProxyRecords, R
<1>8. job \in p.done /\ u[job] = 0 /\ u \in [TurnIds -> {0, 1}]
  BY <1>2 DEF ProxyOk, n
<1>9. v \in [TurnIds -> {0, 1}] /\ \A t \in TurnIds : v[t] = IF t = job THEN 1 ELSE u[t]
  BY <1>3, <1>8 DEF Using
<1> HIDE DEF a, v
<1>10. \A k \in 1 .. n - 1 : new[k].job \in p.done /\ new[k].job # job /\ v[new[k].job] = 0
  <2> TAKE k \in 1 .. n - 1
  <2>1. PICK m \in 1..n : m # c /\ new[k] = p.results[m]
    BY <1>5
  <2>2. p.results[m].job \in p.done /\ u[p.results[m].job] = 0 /\ p.results[m].job \in TurnIds
    BY <1>1 DEF ProxyOk, n
  <2>3. p.results[m].job # job
    BY <1>2, <2>1 DEF ProxyOk, n
  <2> QED BY <1>9, <2>1, <2>2, <2>3
<1>11. ASSUME NEW k \in 1 .. n - 1, NEW m \in 1 .. n - 1, new[k].job = new[m].job PROVE k = m
  <2>1. PICK x \in 1..n : new[k] = p.results[x] /\ x = IF k < c THEN k ELSE k + 1
    BY <1>5
  <2>2. PICK y \in 1..n : new[m] = p.results[y] /\ y = IF m < c THEN m ELSE m + 1
    BY <1>5
  <2>3. x = y
    BY <1>11, <2>1, <2>2 DEF ProxyOk, n
  <2> QED BY <1>1, <1>2, <2>1, <2>2, <2>3
<1>12. \A t \in TurnIds : v[t] = 1 => t \in p.done
  BY <1>8, <1>9 DEF ProxyOk
<1> QED BY <1>3, <1>6, <1>7, <1>9, <1>10, <1>11, <1>12 DEF ProxyOk, a, v

\* An inference, with what the proxy has for it: the wait is for a job whose batch, as the
\* turns stand before the step, covers the oldest message.
LEMMA InferComesOut ==
  ASSUME NEW T, NEW t, NEW y, Draft(t, y, T, outbox, stale), Infer(t, y), ProxyOk(proxy, used),
         \A u \in TurnIds : turn[u].batch \subseteq Messages,
         y.batch # {} /\ y.wait.job # 0 => Saw(y.batch, turn[y.wait.job].batch, outbox, stale)
  PROVE  /\ \E z : Draft(t, z, T, outbox, stale) /\ Outcome(t, z)
         /\ ProxyOk(proxy', used')
<1>1. y \in TurnRecords /\ y.calls \in 0..MaxToolCalls
  BY DEF Draft, TurnRecords
<1>2. WorkerOutputs \subseteq DirectOutputs
  BY TurnAssumption DEF DirectOutputs
<1>3. ASSUME NEW job \in BufferedJobs(proxy), UseCallback(t, y, job), y.batch # {} => job = y.wait.job /\ job # 0
      PROVE  (\E z : Draft(t, z, T, outbox, stale) /\ Outcome(t, z)) /\ ProxyOk(proxy', used')
  <2>1. ProxyOk(TakeCallback(proxy, job), Using(used, job)) /\ job \in TurnIds /\ Result(proxy, job) \in DirectOutputs
    BY <1>2, TakeOk
  <2>2. ProxyOk(proxy', used')
    BY <1>3, <2>1 DEF UseCallback, Using
  <2>3. ApplyOutput(t, y, Result(proxy, job), turn[job].batch, FALSE)
    BY <1>3 DEF UseCallback
  <2>4. turn[job].batch \in SUBSET Messages
    BY <2>1
  <2>5. y.batch # {} => Saw(y.batch, turn[job].batch, outbox, stale)
    BY <1>3
  <2> DEFINE out == Result(proxy, job)
             seen == turn[job].batch
  <2> HIDE DEF out, seen
  <2>6. out \in DirectOutputs /\ seen \in SUBSET Messages /\ ApplyOutput(t, y, out, seen, FALSE)
        /\ (y.batch # {} => Saw(y.batch, seen, outbox, stale))
    BY <2>1, <2>3, <2>4, <2>5 DEF out, seen
  <2>7. \E z : Draft(t, z, T, outbox, stale) /\ Outcome(t, z)
    BY <2>6, ApplyComesOut
  <2> QED BY <2>2, <2>7
<1>4. CASE Resumes(y) /\ y.wait.job \in BufferedJobs(proxy) /\ UseCallback(t, y, y.wait.job)
  BY <1>3, <1>4 DEF Resumes
<1>5. CASE /\ \E aged \in BOOLEAN : EndDeferred(t, y, 0, aged)
           /\ UNCHANGED <<proxy, used, rejections>>
  BY <1>5 DEF Outcome
<1>6. CASE PopsCallback(y) /\ UseCallback(t, y, Head(proxy.results).job)
  <2>1. proxy.results # <<>> /\ y.batch = {} /\ proxy \in ProxyRecords
    BY <1>6 DEF PopsCallback, ProxyOk
  <2>2. proxy.results \in Seq([job : TurnIds, out : WorkerOutputs]) /\ Len(proxy.results) \in Nat
    BY <2>1, Buffered
  <2>3. Len(proxy.results) # 0 /\ Head(proxy.results) = proxy.results[1]
    BY <2>1, <2>2, EmptySeq, HeadTailProperties
  <2>4. Head(proxy.results).job \in BufferedJobs(proxy)
    BY <2>2, <2>3 DEF BufferedJobs
  <2> QED BY <1>3, <1>6, <2>1, <2>4
<1>7. CASE Suspend(t, y, "infer", 0) /\ UNCHANGED <<proxy, used, rejections>>
  <2>1. y.calls + 0 <= MaxToolCalls /\ 0 \in 0..MaxToolCalls
    BY <1>1, TurnNumbers
  <2> QED BY <1>7, <2>1 DEF Outcome, Busy
<1> QED BY <1>4, <1>5, <1>6, <1>7 DEF Infer

-----------------------------------------------------------------------------
\* The steps of a turn that has begun.
AgentInv == MailOk(inbox, outbox, waits, turn, begun, lock, stale) /\ ProxyOk(proxy, used)

\* What the state says of a turn that is busy.
LEMMA BusyTurn ==
  ASSUME AgentInv, NEW t \in TurnIds, turn[t].pc \in Busy
  PROVE  /\ Draft(t, turn[t], turn, outbox, stale) /\ Stands(t, turn, begun, lock)
         /\ turn[t].calls + turn[t].plan <= MaxToolCalls
         /\ turn[t].batch # {} /\ turn[t].wait.job # 0 => Saw(turn[t].batch, turn[turn[t].wait.job].batch, outbox, stale)
         /\ \A u \in TurnIds : turn[u].batch \subseteq Messages
<1>1. TurnsOk(turn, begun, lock, stale) /\ BatchOk(t, turn[t], inbox, outbox, turn, stale)
  BY DEF AgentInv, MailOk, BatchesOk
<1>2. lock \in BOOLEAN /\ turn \in [TurnIds -> TurnRecords] /\ t <= begun /\ begun \in Nat /\ t \in Nat
  BY <1>1, TurnNumbers DEF TurnsOk, TurnIds
<1>3. Stands(t, turn, begun, lock)
  BY <1>2 DEF Stands, MovedTurns
<1>4. \A u \in TurnIds : turn[u].batch \subseteq Messages
  BY <1>2 DEF TurnRecords
<1> QED BY <1>1, <1>2, <1>3, <1>4 DEF Draft, BatchOk, TurnsOk

\* A step of a busy turn that comes out.
LEMMA BusyComesOut ==
  ASSUME AgentInv, NEW t \in TurnIds, turn[t].pc \in Busy, ProxyOk(proxy', used'),
         UNCHANGED <<begun, stale>>, \E z : Draft(t, z, turn, outbox, stale) /\ Outcome(t, z)
  PROVE  AgentInv'
<1>1. PICK z : Draft(t, z, turn, outbox, stale) /\ Outcome(t, z)
  OBVIOUS
<1>2. MailOk(inbox, outbox, waits, turn, begun, lock, stale) /\ Stands(t, turn, begun, lock)
  BY BusyTurn DEF AgentInv
<1>3. MailOk(inbox', outbox', waits', turn', begun, lock', stale)
  BY <1>1, <1>2, OutcomeOk
<1> QED BY <1>3 DEF AgentInv

\* The provider comes back.
LEMMA InferenceReturnsOk ==
  ASSUME AgentInv, NEW t \in TurnIds, InferenceReturns(t) PROVE AgentInv'
<1> DEFINE y == turn[t]
<1>1. y.pc \in Busy /\ UNCHANGED <<begun, stale, proxy, used>>
  BY DEF InferenceReturns, Busy
<1>2. Draft(t, y, turn, outbox, stale) /\ y.batch \in SUBSET Messages
  BY <1>1, BusyTurn
<1>3. ASSUME y.batch # {} PROVE Saw(y.batch, y.batch, outbox, stale)
  <2>1. y.batch \in SUBSET Nat
    BY <1>2, TurnNumbers DEF Messages
  <2> QED BY <1>3, <2>1, MinIsLeast DEF Saw
<1>4. PICK out \in DirectOutputs, late \in BOOLEAN : ApplyOutput(t, y, out, y.batch, late)
  BY DEF InferenceReturns
<1> DEFINE seen == y.batch
<1>5. seen \in SUBSET Messages /\ ApplyOutput(t, y, out, seen, late) /\ (y.batch # {} => Saw(y.batch, seen, outbox, stale))
  BY <1>2, <1>3, <1>4
<1> HIDE DEF seen, y
<1>6. \E z : Draft(t, z, turn, outbox, stale) /\ Outcome(t, z)
  BY <1>2, <1>5, ApplyComesOut
<1>7. ProxyOk(proxy', used')
  BY <1>1 DEF AgentInv
<1> QED BY <1>1, <1>6, <1>7, BusyComesOut DEF y

\* The submission to the worker comes back.
LEMMA SubmitReturnsOk ==
  ASSUME AgentInv, NEW t \in TurnIds, SubmitReturns(t) PROVE AgentInv'
<1> DEFINE y == turn[t]
<1>1. y.pc \in Busy /\ UNCHANGED <<begun, stale, used>>
  BY DEF SubmitReturns, Busy
<1>2. Draft(t, y, turn, outbox, stale) /\ y \in TurnRecords
  BY <1>1, BusyTurn DEF Draft
<1>3. proxy' \in {proxy, UpsertPendingJob(proxy, t)}
  BY DEF SubmitReturns
<1>4. ProxyOk(proxy', used')
  BY <1>1, <1>3, PendingOk DEF AgentInv
<1>5. \E z : Draft(t, z, turn, outbox, stale) /\ Outcome(t, z)
  <2>1. CASE EndRounds(t, y)
    BY <1>2, <2>1, EndRoundsComesOut
  <2>2. CASE \E job \in {0, t}, aged \in BOOLEAN : EndDeferred(t, y, job, aged)
    BY <1>2, <2>2 DEF Outcome
  <2>3. CASE \E out \in {"error", "rejected", "skipped"}, late \in BOOLEAN : ApplyOutput(t, y, out, {}, late)
    <3>1. PICK out \in {"error", "rejected", "skipped"}, late \in BOOLEAN : ApplyOutput(t, y, out, {}, late)
      BY <2>3
    <3>2. out \in DirectOutputs /\ ~ (out \in {"text", "calls"}) /\ {} \in SUBSET Messages
      BY DEF DirectOutputs
    <3> HIDE DEF y
    <3> QED BY <1>2, <3>1, <3>2, ApplyComesOut
  <2> QED BY <2>1, <2>2, <2>3 DEF SubmitReturns
<1> QED BY <1>1, <1>4, <1>5, BusyComesOut

\* The tools come back.
LEMMA ToolsReturnOk ==
  ASSUME AgentInv, NEW t \in TurnIds, ToolsReturn(t) PROVE AgentInv'
<1> DEFINE y == turn[t]
           d == [y EXCEPT !.calls = @ + y.plan]
<1>1. y.pc \in Busy /\ UNCHANGED <<begun, stale>>
  BY DEF ToolsReturn, Busy
<1>2. /\ Draft(t, y, turn, outbox, stale) /\ y \in TurnRecords /\ y.calls + y.plan <= MaxToolCalls
      /\ y.batch # {} /\ y.wait.job # 0 => Saw(y.batch, turn[y.wait.job].batch, outbox, stale)
      /\ \A u \in TurnIds : turn[u].batch \subseteq Messages
  BY <1>1, BusyTurn DEF Draft
<1>3. y.calls + y.plan \in 0..MaxToolCalls
  <2>1. y.calls \in 0..MaxToolCalls /\ y.plan \in 0..MaxToolCalls
    BY <1>2 DEF TurnRecords
  <2> QED BY <1>2, <2>1, TurnNumbers
<1>4. d \in TurnRecords /\ d.batch = y.batch /\ d.wait = y.wait /\ d.reply = y.reply /\ d.seen = y.seen
  BY <1>2, <1>3 DEF TurnRecords
<1>5. ASSUME NEW z \in TurnRecords, z.batch = y.batch, z.wait = y.wait, z.reply = y.reply, z.seen = y.seen
      PROVE  Draft(t, z, turn, outbox, stale)
  BY <1>2, <1>5 DEF Draft
<1>6. ASSUME NEW ran \in BOOLEAN, NEW round \in 1..MaxRounds
      PROVE  LET z == [d EXCEPT !.ran = ran, !.round = round]
             IN  z \in TurnRecords /\ z.batch = y.batch /\ z.wait = y.wait /\ z.reply = y.reply /\ z.seen = y.seen
  <2> HIDE DEF d
  <2> QED BY <1>4, <1>6 DEF TurnRecords
<1>7. [d EXCEPT !.ran = TRUE] \in TurnRecords /\ [d EXCEPT !.ran = TRUE].batch = y.batch
      /\ [d EXCEPT !.ran = TRUE].wait = y.wait /\ [d EXCEPT !.ran = TRUE].reply = y.reply
      /\ [d EXCEPT !.ran = TRUE].seen = y.seen
  <2> HIDE DEF d
  <2> QED BY <1>4 DEF TurnRecords
<1>8. ASSUME UNCHANGED <<proxy, used, rejections>>,
             \/ EndRounds(t, y) \/ EndRounds(t, d) \/ EndFailed(t, [d EXCEPT !.ran = TRUE])
      PROVE  AgentInv'
  <2>1. \E z : Draft(t, z, turn, outbox, stale) /\ Outcome(t, z)
    <3> DEFINE f == [d EXCEPT !.ran = TRUE]
    <3>1. Draft(t, d, turn, outbox, stale)
      <4> HIDE DEF d
      <4> QED BY <1>4, <1>5
    <3>2. Draft(t, f, turn, outbox, stale)
      <4> HIDE DEF f
      <4> QED BY <1>5, <1>7 DEF f
    <3>3. EndRounds(t, y) => Outcome(t, y)
      BY <1>2, EndRoundsComesOut
    <3>4. EndRounds(t, d) => Outcome(t, d)
      <4> HIDE DEF d
      <4> QED BY <1>4, EndRoundsComesOut
    <3>5. EndFailed(t, f) => Outcome(t, f)
      BY DEF Outcome
    <3>6. EndRounds(t, y) \/ EndRounds(t, d) \/ EndFailed(t, f)
      BY <1>8
    <3> HIDE DEF d, f
    <3> QED BY <1>2, <3>1, <3>2, <3>3, <3>4, <3>5, <3>6
  <2>2. ProxyOk(proxy', used')
    BY <1>8 DEF AgentInv
  <2> QED BY <1>1, <2>1, <2>2, BusyComesOut
<1>9. ASSUME y.round < MaxRounds, NEW ran \in {y.ran, TRUE}, Infer(t, [d EXCEPT !.ran = ran, !.round = @ + 1])
      PROVE  AgentInv'
  <2> DEFINE n == y.round + 1
             z == [d EXCEPT !.ran = ran, !.round = n]
  <2>1. y.ran \in BOOLEAN /\ y.round \in 1..MaxRounds /\ d.round = y.round
    BY <1>2 DEF TurnRecords
  <2>2. n \in 1..MaxRounds /\ ran \in BOOLEAN
    <3>1. n \in 1..MaxRounds
      <4> HIDE DEF y, d
      <4> QED BY <1>9, <2>1, TurnNumbers
    <3>2. ran \in BOOLEAN
      BY <1>9, <2>1
    <3> QED BY <3>1, <3>2
  <2>3. Infer(t, z)
    BY <1>9, <2>1
  <2> HIDE DEF n
  <2>4. z \in TurnRecords /\ z.batch = y.batch /\ z.wait = y.wait /\ z.reply = y.reply /\ z.seen = y.seen
    BY <1>6, <2>2
  <2> HIDE DEF z
  <2>5. Draft(t, z, turn, outbox, stale)
    BY <1>5, <2>4
  <2>6. ProxyOk(proxy, used) /\ (z.batch # {} /\ z.wait.job # 0 => Saw(z.batch, turn[z.wait.job].batch, outbox, stale))
    BY <1>2, <2>4 DEF AgentInv
  <2>7. /\ \E c : Draft(t, c, turn, outbox, stale) /\ Outcome(t, c)
        /\ ProxyOk(proxy', used')
    BY <1>2, <2>3, <2>5, <2>6, InferComesOut
  <2> QED BY <1>1, <2>7, BusyComesOut
<1> QED BY <1>8, <1>9 DEF ToolsReturn

\* The question for a decision comes back.
LEMMA RetryReturnsOk ==
  ASSUME AgentInv, NEW t \in TurnIds, RetryReturns(t) PROVE AgentInv'
<1>1. turn[t].pc \in Busy /\ UNCHANGED <<begun, stale, proxy, used>>
  BY DEF RetryReturns, Busy
<1>2. Draft(t, turn[t], turn, outbox, stale)
  BY <1>1, BusyTurn
<1>3. Outcome(t, turn[t])
  BY DEF RetryReturns, Outcome
<1>4. ProxyOk(proxy', used')
  BY <1>1 DEF AgentInv
<1> QED BY <1>1, <1>2, <1>3, <1>4, BusyComesOut

-----------------------------------------------------------------------------
\* A turn begins, and its first step comes out.
LEMMA NewTurnComesOut ==
  ASSUME AgentInv, BeginsTurn
  PROVE  LET T == BeginningTurns(turn, begun, ThisTurn)
             t == begun + 1
         IN  /\ MailOk(inbox, outbox, waits, T, t, TRUE, stale)
             /\ Draft(t, ThisTurn, T, outbox, stale) /\ Stands(t, T, t, TRUE)
             /\ ThisTurn.batch # {} /\ ThisTurn.wait.job # 0 =>
                  Saw(ThisTurn.batch, turn[ThisTurn.wait.job].batch, outbox, stale)
             /\ \A u \in TurnIds : turn[u].batch \subseteq Messages
<1> DEFINE x == ThisTurn
           T == BeginningTurns(turn, begun, x)
           t == begun + 1
           wait == IF provider = "proxy" THEN LoadWait(Batch) ELSE NoWait
           buffered == (provider = "proxy" /\ proxy.results # <<>>)
           c == Batch
<1>1. lock = FALSE /\ begun < MaxTurns /\ begun \in Nat /\ turn \in [TurnIds -> TurnRecords]
      /\ MailOk(inbox, outbox, waits, turn, begun, FALSE, stale)
  BY TurnNumbers DEF BeginsTurn, AgentInv, MailOk, TurnsOk
<1>2. c = {m \in Staging(inbox) : Early(inbox, m)} /\ c \in SUBSET Messages /\ Messages \subseteq Nat
  BY <1>1, BatchIsEarly, StagedAreMessages DEF MailOk
<1>3. wait \in {NoWait, Loaded(waits, c)}
  BY DEF LoadWait, Loaded
<1>4. NoWait \in WaitRecords /\ waits \in [Messages -> WaitRecords]
  BY <1>1, TurnNumbers DEF NoWait, WaitRecords, MailOk, WaitsOk
<1>5. Loaded(waits, c) \in WaitRecords
  <2> DEFINE waiting == {m \in c : waits[m].attempts # 0}
  <2>1. waiting \in SUBSET Nat /\ waiting \subseteq Messages
    BY <1>2
  <2>2. waiting # {} => Min(waiting) \in Messages
    BY <2>1, MinIsLeast
  <2> HIDE DEF c
  <2> QED BY <1>4, <2>2 DEF Loaded
<1>6. x = TurnAt("infer", c, wait, buffered) /\ buffered \in BOOLEAN
  BY DEF ThisTurn
<1> HIDE DEF c, wait, buffered, x
<1>7. x = [pc |-> "infer", batch |-> c, wait |-> wait, buffered |-> buffered, round |-> 1,
           calls |-> 0, ran |-> FALSE, reply |-> "none", seen |-> {}, plan |-> 0]
  BY <1>6 DEF TurnAt
<1>8. wait \in WaitRecords /\ 1 \in 1..MaxRounds /\ 0 \in 0..MaxToolCalls /\ 0 + 0 <= MaxToolCalls
  BY <1>3, <1>4, <1>5, TurnNumbers
<1>9. /\ x \in TurnRecords /\ x.batch = c /\ x.wait = wait /\ x.reply = "none" /\ x.pc = "infer"
      /\ x.calls = 0 /\ x.plan = 0
  <2>1. c \in SUBSET Messages /\ buffered \in BOOLEAN /\ wait \in WaitRecords /\ {} \in SUBSET Messages
    BY <1>2, <1>6, <1>8
  <2>2. /\ x.batch = c /\ x.wait = wait /\ x.reply = "none" /\ x.pc = "infer"
        /\ x.calls = 0 /\ x.plan = 0
    BY <1>7
  <2>3. x \in TurnRecords
    BY <1>7, <1>8, <2>1 DEF TurnRecords, Replies
  <2> QED BY <2>2, <2>3
<1>10. /\ MailOk(inbox, outbox, waits, T, t, TRUE, stale)
       /\ x.batch # {} /\ x.wait.job # 0 => Saw(x.batch, turn[x.wait.job].batch, outbox, stale)
  BY <1>1, <1>2, <1>3, <1>8, <1>9, TurnBeginsOk
<1>11. t \in TurnIds /\ t > begun /\ ~ (t < begun)
  BY <1>1, TurnNumbers DEF TurnIds
<1>12. T \in [TurnIds -> TurnRecords] /\ T[t] = x
  BY <1>1, <1>9, <1>11 DEF BeginningTurns
<1>13. Draft(t, x, T, outbox, stale)
  BY <1>9, <1>11, <1>12 DEF Draft, Busy
<1>14. \A z : [turn EXCEPT ![t] = z] = MovedTurns(T, t, z)
  BY <1>1, <1>11 DEF MovedTurns, BeginningTurns
<1>15. Stands(t, T, t, TRUE)
  BY <1>1, <1>11, <1>14 DEF Stands
<1>16. \A u \in TurnIds : turn[u].batch \subseteq Messages
  BY <1>1 DEF TurnRecords
<1> QED BY <1>10, <1>13, <1>15, <1>16 DEF x

\* The two ways to begin.
LEMMA TurnBeginsStep ==
  ASSUME AgentInv, TurnBegins \/ TurnWithoutInference PROVE AgentInv'
<1> DEFINE T == BeginningTurns(turn, begun, ThisTurn)
           t == begun + 1
<1>1. BeginsTurn /\ begun' = t /\ stale' = stale
  BY DEF TurnBegins, TurnWithoutInference, BeginsTurn
<1>2. /\ MailOk(inbox, outbox, waits, T, t, TRUE, stale)
      /\ Draft(t, ThisTurn, T, outbox, stale) /\ Stands(t, T, t, TRUE)
      /\ ThisTurn.batch # {} /\ ThisTurn.wait.job # 0 =>
           Saw(ThisTurn.batch, turn[ThisTurn.wait.job].batch, outbox, stale)
      /\ \A u \in TurnIds : turn[u].batch \subseteq Messages
  BY <1>1, NewTurnComesOut
<1>3. TurnBegins => Infer(t, ThisTurn)
  BY DEF TurnBegins
<1>4. TurnWithoutInference => Outcome(t, ThisTurn) /\ UNCHANGED <<proxy, used>>
  BY DEF TurnWithoutInference, Outcome
<1>5. ProxyOk(proxy, used)
  BY DEF AgentInv
<1> HIDE DEF T, t
<1>6. (\E z : Draft(t, z, T, outbox, stale) /\ Outcome(t, z)) /\ ProxyOk(proxy', used')
  <2>1. CASE TurnBegins
    BY <1>2, <1>3, <1>5, <2>1, InferComesOut
  <2>2. CASE TurnWithoutInference
    BY <1>2, <1>4, <1>5, <2>2
  <2> QED BY <2>1, <2>2
<1>7. MailOk(inbox', outbox', waits', turn', t, lock', stale)
  BY <1>2, <1>6, OutcomeOk
<1> QED BY <1>1, <1>6, <1>7 DEF AgentInv

-----------------------------------------------------------------------------
\* The surroundings.  More turns that lost their lock excuse more.
LEMMA StaleGrows ==
  ASSUME NEW i, NEW o, NEW w, NEW T, NEW b, NEW l, NEW s, MailOk(i, o, w, T, b, l, s),
         NEW z, s \subseteq z, z \subseteq TurnIds
  PROVE  MailOk(i, o, w, T, b, l, z)
<1>1. /\ \A m : Stolen(m, o, s) => Stolen(m, o, z)
      /\ \A batch, seen : Saw(batch, seen, o, s) => Saw(batch, seen, o, z)
  BY StolenStays
<1>2. TurnsOk(T, b, l, z)
  BY DEF MailOk, TurnsOk
<1>3. RepliesOk(i, o, z)
  BY <1>1 DEF MailOk, RepliesOk
<1>4. \A t \in TurnIds : BatchOk(t, T[t], i, o, T, s) => BatchOk(t, T[t], i, o, T, z)
  BY <1>1 DEF BatchOk
<1>5. BatchesOk(i, o, T, z)
  BY <1>4 DEF MailOk, BatchesOk
<1>6. \A m, j : Held(m, j, i, o, T, s) => Held(m, j, i, o, T, z)
  BY <1>1 DEF Held
<1>7. WaitsOk(i, o, w, T, z)
  BY <1>6 DEF MailOk, WaitsOk
<1> QED BY <1>2, <1>3, <1>5, <1>7 DEF MailOk

\* The lease expires.
LEMMA RecoverLockOk ==
  ASSUME AgentInv, RecoverLock PROVE AgentInv'
<1>1. lock /\ lock' = FALSE /\ stale' = stale \cup {begun}
      /\ UNCHANGED <<inbox, outbox, waits, proxy, turn, begun, used>>
  BY DEF RecoverLock
<1>2. TurnsOk(turn, begun, lock, stale)
  BY DEF AgentInv, MailOk
<1>3. stale' \subseteq TurnIds
  BY <1>1, <1>2 DEF TurnsOk
<1>4. MailOk(inbox, outbox, waits, turn, begun, lock, stale')
  BY <1>1, <1>3, StaleGrows DEF AgentInv
<1>5. TurnsOk(turn, begun, FALSE, stale')
  BY <1>1, <1>2, <1>3 DEF TurnsOk
<1>6. MailOk(inbox, outbox, waits, turn, begun, FALSE, stale')
  BY <1>4, <1>5 DEF MailOk
<1> QED BY <1>1, <1>6 DEF AgentInv

\* A turn traps, and the lock is left behind.
LEMMA TurnTrapsOk ==
  ASSUME AgentInv, NEW t \in TurnIds, TurnTraps(t) PROVE AgentInv'
<1> DEFINE c == turn[t].batch
           x == TurnAt("trapped", c, NoWait, FALSE)
           s == stale \cup {t}
           U == MovedTurns(turn, t, x)
<1>1. turn[t].pc \in Busy /\ turn' = U /\ stale' = s /\ UNCHANGED <<inbox, outbox, waits, proxy, begun, lock, used>>
  BY DEF TurnTraps, Turn, Busy, MovedTurns
<1>2. TurnsOk(turn, begun, lock, stale) /\ s \subseteq TurnIds /\ stale \subseteq s /\ t \in s
  BY DEF AgentInv, MailOk, TurnsOk
<1>3. MailOk(inbox, outbox, waits, turn, begun, lock, s)
  BY <1>2, StaleGrows DEF AgentInv
<1>4. x = [pc |-> "trapped", batch |-> c, wait |-> NoWait, buffered |-> FALSE, round |-> 1,
           calls |-> 0, ran |-> FALSE, reply |-> "none", seen |-> {}, plan |-> 0]
  BY DEF TurnAt
<1>5. c \in SUBSET Messages
  BY <1>2 DEF TurnsOk, TurnRecords
<1>6. NoWait \in WaitRecords /\ 1 \in 1..MaxRounds /\ 0 \in 0..MaxToolCalls
  BY TurnNumbers DEF NoWait, WaitRecords
<1> HIDE DEF x, s
<1>7. x \in TurnRecords /\ x.calls + x.plan <= MaxToolCalls /\ x.batch = c /\ x.pc \notin Busy
  <2> HIDE DEF c
  <2> QED BY <1>4, <1>5, <1>6, TurnNumbers DEF TurnRecords, Replies, Busy
<1>8. TurnMoved(turn, t, x)
  BY <1>1, <1>7 DEF TurnMoved
<1>9. SameBatches(turn, U) /\ \A u \in TurnIds : U[u] = IF u = t THEN x ELSE turn[u]
  BY <1>2, <1>8, MovedBatches
<1>10. BatchesOk(inbox, outbox, U, s)
  BY <1>3, <1>7, <1>8, MovedBatchesOk DEF MailOk
<1>11. WaitsOk(inbox, outbox, waits, U, s)
  BY <1>3, <1>9, MovedWaitsOk DEF MailOk
<1>12. TurnsOk(U, begun, lock, s)
  <2>1. U \in [TurnIds -> TurnRecords]
    BY <1>2, <1>7 DEF MovedTurns, TurnsOk
  <2> HIDE DEF U
  <2> QED BY <1>3, <1>7, <1>9, <2>1 DEF MailOk, TurnsOk, SameBatches
<1>13. MailOk(inbox, outbox, waits, U, begun, lock, s)
  BY <1>3, <1>10, <1>11, <1>12 DEF MailOk
<1> QED BY <1>1, <1>13 DEF AgentInv

\* The inbox may change as long as it keeps what is staged and what is consumed, and what it
\* stages comes after what was staged before.
LEMMA InboxGrows ==
  ASSUME NEW i, NEW o, NEW w, NEW T, NEW b, NEW l, NEW s, MailOk(i, o, w, T, b, l, s),
         NEW j, InboxOk(j), Len(i) <= Len(j),
         \A m \in 1..Len(i) : i[m] # "Pending" => j[m] = i[m],
         \A m \in 1..Len(j) : j[m] = "Consumed" => m \in 1..Len(i) /\ i[m] = "Consumed",
         \A m \in 1..Len(j) : j[m] = "Staged" => m \in 1..Len(i)
  PROVE  MailOk(j, o, w, T, b, l, s)
<1>1. InboxOk(i) /\ Len(i) \in Nat /\ Len(j) \in Nat /\ 1..Len(i) \subseteq 1..Len(j)
  BY StagedAreMessages DEF MailOk
<1>2. \A m \in 1..Len(i) : i[m] \in {"Pending", "Staged", "Consumed"}
  BY <1>1, ElementOfSeq DEF InboxOk
<1>3. Staging(i) \subseteq Staging(j) /\ Staging(i) \subseteq Messages /\ Staging(j) \subseteq Messages
      /\ Messages \subseteq Nat
  BY <1>1, StagedAreMessages DEF Staging
\* what is staged now and was not was pending, and so was everything after it
<1>4. ASSUME NEW m \in Staging(i), NEW n \in Staging(j), n < m PROVE n \in Staging(i)
  <2>1. n \in 1..Len(i) /\ m \in 1..Len(i) /\ i[m] = "Staged" /\ j[n] = "Staged"
    BY <1>4 DEF Staging
  <2>2. i[n] # "Pending"
    BY <1>1, <1>4, <2>1 DEF InboxOk
  <2> QED BY <2>1, <2>2 DEF Staging
<1>5. ASSUME NEW m \in Staging(i), Early(i, m) PROVE Early(j, m)
  <2>1. \A n \in Staging(j) : n < m => n \in Staging(i) /\ n < m
    BY <1>4
  <2> QED BY <1>1, <1>5, <2>1, EarlyStays
<1>6. ASSUME NEW m \in 1..Len(i), i[m] # "Pending" PROVE m \in Staging(j) <=> m \in Staging(i)
  BY <1>1, <1>6 DEF Staging
<1>7. RepliesOk(j, o, s)
  <2>1. RepliesOk(i, o, s)
    BY DEF MailOk
  <2>2. \A r \in o : \A m \in r.batch : m \in 1..Len(j) /\ j[m] = "Consumed"
    <3>1. \A r \in o : \A m \in r.batch : m \in 1..Len(i) /\ i[m] = "Consumed"
      BY <2>1 DEF RepliesOk
    <3> QED BY <1>1, <3>1
  <2> QED BY <2>1, <2>2 DEF RepliesOk
<1>8. ASSUME NEW t \in TurnIds, T[t].pc \in Busy PROVE BatchOk(t, T[t], j, o, T, s)
  <2>1. BatchOk(t, T[t], i, o, T, s)
    BY <1>8 DEF MailOk, BatchesOk
  <2>2. \A m \in T[t].batch : m \in 1..Len(i) /\ i[m] # "Pending"
    BY <2>1 DEF BatchOk
  <2>3. \A m \in T[t].batch : (m \in 1..Len(j) /\ j[m] # "Pending") /\ (m \in Staging(j) <=> m \in Staging(i))
    BY <1>1, <1>6, <2>2
  <2>4. \A m \in T[t].batch : m \in Staging(j) =>
          Early(j, m) /\ \A n \in Staging(j) : n < m => n \in T[t].batch
    BY <1>4, <1>5, <2>1, <2>3 DEF BatchOk
  <2>5. \A n, m \in T[t].batch : n < m /\ n \notin Staging(j) /\ m \in Staging(j) => Stolen(n, o, s)
    BY <2>1, <2>3 DEF BatchOk
  <2> QED BY <2>1, <2>3, <2>4, <2>5 DEF BatchOk
<1>9. ASSUME NEW t \in TurnIds, NEW u \in TurnIds, T[t].pc \in Busy, T[u].pc \in Busy, t < u,
             NEW m \in T[t].batch, m \in Staging(j)
      PROVE  m \in T[u].batch
  <2>1. m \in 1..Len(i) /\ i[m] # "Pending"
    BY <1>9 DEF MailOk, BatchesOk, BatchOk
  <2> QED BY <1>6, <1>9, <2>1 DEF MailOk, BatchesOk
<1>10. WaitsOk(j, o, w, T, s)
  <2>1. WaitsOk(i, o, w, T, s)
    BY DEF MailOk
  <2>2. ASSUME NEW m \in Messages, m \notin 1..Len(i) \/ i[m] = "Pending" PROVE w[m] = NoWait
    BY <2>1, <2>2 DEF WaitsOk
  <2>3. \A m \in Messages : (m \notin 1..Len(j) \/ j[m] = "Pending") => w[m] = NoWait
    BY <1>1, <1>2, <2>2
  <2>4. ASSUME NEW m \in Staging(j), w[m] # NoWait PROVE m \in Staging(i)
    <3>1. m \in 1..Len(i) /\ i[m] # "Pending"
      BY <1>3, <2>2, <2>4
    <3> QED BY <1>6, <3>1
  <2>5. NoWait.attempts = 0 /\ NoWait.job = 0
    BY DEF NoWait
  <2>6. ASSUME NEW n \in Staging(j), NEW m \in Staging(j), n < m, w[m].attempts # 0 PROVE w[n].attempts # 0
    <3>1. m \in Staging(i)
      BY <2>4, <2>5, <2>6
    <3>2. n \in Staging(i)
      BY <1>4, <2>6, <3>1
    <3> QED BY <2>1, <2>6, <3>1, <3>2 DEF WaitsOk
  <2>7. ASSUME NEW m \in Staging(j), w[m].job # 0 PROVE Held(m, w[m].job, j, o, T, s)
    <3>1. m \in Staging(i)
      BY <2>4, <2>5, <2>7
    <3>2. Held(m, w[m].job, i, o, T, s)
      BY <2>1, <2>7, <3>1 DEF WaitsOk
    <3>3. Early(i, m) => Early(j, m)
      BY <1>5, <3>1
    <3> DEFINE y == w[m].job
    <3> HIDE DEF y
    <3>4. Held(m, y, i, o, T, s) => Held(m, y, j, o, T, s)
      BY <1>3, <3>3 DEF Held
    <3> QED BY <3>2, <3>4 DEF y
  <2> QED BY <2>1, <2>3, <2>6, <2>7 DEF WaitsOk
<1> QED BY <1>7, <1>8, <1>9, <1>10 DEF MailOk, BatchesOk

\* A message arrives.
LEMMA PostInboxMessageOk ==
  ASSUME AgentInv, PostInboxMessage PROVE AgentInv'
<1> DEFINE S == {"Pending", "Staged", "Consumed"}
           n == Len(inbox)
           j == Append(inbox, "Pending")
<1>1. InboxOk(inbox) /\ inbox \in Seq(S) /\ n < MaxMessages /\ n \in Nat /\ MaxMessages \in Nat
  BY StagedAreMessages, TurnNumbers DEF AgentInv, MailOk, InboxOk, PostInboxMessage
<1>2. j \in Seq(S) /\ Len(j) = n + 1 /\ j[n + 1] = "Pending" /\ \A m \in 1..n : j[m] = inbox[m]
  BY <1>1, AppendProperties
<1>3. \A m, k \in 1..n : m < k /\ inbox[m] = "Pending" => inbox[k] = "Pending"
  BY <1>1 DEF InboxOk
<1> HIDE DEF j, n
<1>4. \A m \in 1 .. n + 1 : m = n + 1 \/ m \in 1..n
  BY <1>1
<1>5. \A m, k \in 1 .. n + 1 : m < k /\ j[m] = "Pending" => j[k] = "Pending"
  BY <1>1, <1>2, <1>3, <1>4
<1>6. InboxOk(j) /\ n <= Len(j)
  BY <1>1, <1>2, <1>5 DEF InboxOk
<1>7. /\ \A m \in 1..n : inbox[m] # "Pending" => j[m] = inbox[m]
      /\ \A m \in 1..Len(j) : j[m] = "Consumed" => m \in 1..n /\ inbox[m] = "Consumed"
      /\ \A m \in 1..Len(j) : j[m] = "Staged" => m \in 1..n
  BY <1>2, <1>4
<1>8. MailOk(j, outbox, waits, turn, begun, lock, stale)
  BY <1>6, <1>7, InboxGrows DEF AgentInv, n
<1> QED BY <1>8 DEF AgentInv, PostInboxMessage, j

\* The poll stages the pending messages.
LEMMA StagePendingOk ==
  ASSUME AgentInv, StagePending PROVE AgentInv'
<1> DEFINE S == {"Pending", "Staged", "Consumed"}
           n == Len(inbox)
           j == [m \in 1..n |-> IF inbox[m] = "Pending" THEN "Staged" ELSE inbox[m]]
<1>1. InboxOk(inbox) /\ inbox \in Seq(S) /\ n <= MaxMessages /\ n \in Nat
  BY StagedAreMessages DEF AgentInv, MailOk, InboxOk
<1>2. \A m \in 1..n : inbox[m] \in S
  BY <1>1, ElementOfSeq
<1>3. j \in [1..n -> S] /\ \A m \in 1..n : j[m] = IF inbox[m] = "Pending" THEN "Staged" ELSE inbox[m]
  BY <1>2
<1>4. inbox' = j /\ UNCHANGED <<outbox, waits, turn, begun, lock, stale, proxy, used>>
  BY DEF StagePending
<1> HIDE DEF j, n, S
<1>5. j \in Seq(S) /\ Len(j) = n
  <2>1. j \in Seq(S)
    BY <1>1, <1>3, SeqDef
  <2>2. DOMAIN j = 1..Len(j) /\ Len(j) \in Nat
    BY <2>1, LenProperties
  <2> QED BY <1>1, <1>3, <2>1, <2>2
<1>6. InboxOk(j)
  BY <1>1, <1>3, <1>5 DEF InboxOk, S
<1>7. /\ \A m \in 1..n : inbox[m] # "Pending" => j[m] = inbox[m]
      /\ \A m \in 1..Len(j) : j[m] = "Consumed" => m \in 1..n /\ inbox[m] = "Consumed"
      /\ \A m \in 1..Len(j) : j[m] = "Staged" => m \in 1..n
      /\ n <= Len(j)
  BY <1>1, <1>3, <1>5
<1>8. MailOk(j, outbox, waits, turn, begun, lock, stale)
  BY <1>6, <1>7, InboxGrows DEF AgentInv, n
<1> QED BY <1>4, <1>8 DEF AgentInv

-----------------------------------------------------------------------------
\* AgentInv holds at the start and in every step of the agent.
THEOREM AgentInvAlways == AgentSpec => []AgentInv
<1>1. AgentInit => AgentInv
  <2> SUFFICES ASSUME AgentInit PROVE AgentInv
    OBVIOUS
  <2>1. Len(inbox) = 0 /\ inbox \in Seq({"Pending", "Staged", "Consumed"}) /\ Staging(inbox) = {}
    BY DEF AgentInit, Staging
  <2>2. InboxOk(inbox)
    BY <2>1, TurnNumbers DEF InboxOk
  <2>3. NoWait \in WaitRecords /\ 1 \in 1..MaxRounds /\ 0 \in 0..MaxToolCalls /\ 0 \in 0..MaxTurns
    BY TurnNumbers DEF NoWait, WaitRecords
  <2>4. NoTurn \in TurnRecords /\ NoTurn.batch = {} /\ NoTurn.pc \notin Busy /\ NoTurn.calls + NoTurn.plan <= MaxToolCalls
    BY <2>3, TurnNumbers DEF NoTurn, TurnAt, TurnRecords, Replies, Busy
  <2>5. turn \in [TurnIds -> TurnRecords] /\ \A t \in TurnIds : turn[t] = NoTurn
    BY <2>4 DEF AgentInit
  <2>6. TurnsOk(turn, begun, lock, stale)
    BY <2>3, <2>4, <2>5 DEF AgentInit, TurnsOk
  <2>7. RepliesOk(inbox, outbox, stale)
    BY <2>1 DEF AgentInit, RepliesOk
  <2>8. BatchesOk(inbox, outbox, turn, stale)
    BY <2>4, <2>5 DEF BatchesOk
  <2>9. WaitsOk(inbox, outbox, waits, turn, stale)
    BY <2>1, <2>3 DEF AgentInit, WaitsOk
  <2>10. ProxyOk(proxy, used)
    <3>1. proxy = [pending |-> {}, results |-> <<>>, done |-> {}] /\ used = [t \in TurnIds |-> 0]
      BY DEF AgentInit, NoProxyJobs
    <3>2. proxy \in ProxyRecords /\ proxy.results = <<>> /\ Len(proxy.results) = 0
      BY <3>1 DEF ProxyRecords
    <3>3. used \in [TurnIds -> {0, 1}] /\ \A t \in TurnIds : used[t] = 0
      BY <3>1
    <3> QED BY <3>2, <3>3 DEF ProxyOk
  <2> QED BY <2>2, <2>6, <2>7, <2>8, <2>9, <2>10 DEF AgentInv, MailOk
<1>2. AgentInv /\ [AgentNext]_agentVars => AgentInv'
  <2> SUFFICES ASSUME AgentInv, [AgentNext]_agentVars PROVE AgentInv'
    OBVIOUS
  <2>1. CASE PostInboxMessage
    BY <2>1, PostInboxMessageOk
  <2>2. CASE StagePending
    BY <2>2, StagePendingOk
  <2>3. CASE TurnBegins \/ TurnWithoutInference
    BY <2>3, TurnBeginsStep
  <2>4. CASE RecoverLock
    BY <2>4, RecoverLockOk
  <2>5. CASE SuppressionExpires
    BY <2>5 DEF SuppressionExpires, AgentInv
  <2>6. ASSUME NEW t \in TurnIds, InferenceReturns(t) \/ SubmitReturns(t) \/ ToolsReturn(t) \/ RetryReturns(t)
        PROVE  AgentInv'
    BY <2>6, InferenceReturnsOk, SubmitReturnsOk, ToolsReturnOk, RetryReturnsOk
  <2>7. ASSUME NEW t \in TurnIds, TurnTraps(t) PROVE AgentInv'
    BY <2>7, TurnTrapsOk
  <2>8. ASSUME NEW t \in TurnIds, WorkerReceives(t) PROVE AgentInv'
    BY <2>8 DEF WorkerReceives, AgentInv
  <2>9. ASSUME NEW t \in TurnIds, Callback(t) PROVE AgentInv'
    <3>1. PICK out \in WorkerOutputs : proxy' = ApplyCallback(proxy, t, out)
      BY <2>9 DEF Callback
    <3>2. ProxyOk(proxy', used)
      BY <3>1, CallbackOk DEF AgentInv
    <3> QED BY <2>9, <3>2 DEF Callback, AgentInv
  <2>10. ASSUME NEW t \in TurnIds, ExpireJob(t) PROVE AgentInv'
    <3>1. ProxyOk(proxy', used)
      BY <2>10, PendingOk DEF ExpireJob, AgentInv
    <3> QED BY <2>10, <3>1 DEF ExpireJob, AgentInv
  <2>11. CASE UNCHANGED agentVars
    BY <2>11 DEF agentVars, AgentInv
  <2> QED BY <2>1, <2>2, <2>3, <2>4, <2>5, <2>6, <2>7, <2>8, <2>9, <2>10, <2>11 DEF AgentNext
<1> QED BY <1>1, <1>2, PTL DEF AgentSpec

\* No message is consumed without a reply, two turns that kept their lock never answer the
\* same one, and a callback is used once: for every number of turns, messages and lapses.
THEOREM AnsweredOnceAlways == AgentSpec => []AnsweredOnce
<1>1. AgentInv => AnsweredOnce
  <2> SUFFICES ASSUME AgentInv PROVE AnsweredOnce
    OBVIOUS
  <2>1. RepliesOk(inbox, outbox, stale) /\ ProxyOk(proxy, used)
    BY DEF AgentInv, MailOk
  <2>2. \A m \in 1..Len(inbox) : inbox[m] = "Consumed" => \E r \in outbox : m \in r.batch
    BY <2>1 DEF RepliesOk
  <2>3. ASSUME NEW m \in Messages
        PROVE  Cardinality({r \in outbox : m \in r.batch /\ r.turn \notin stale}) <= 1
    <3> DEFINE S == {r \in outbox : m \in r.batch /\ r.turn \notin stale}
    <3>1. \A r, a \in S : r = a
      BY <2>1 DEF RepliesOk
    <3> HIDE DEF S
    <3>2. Cardinality(S) \in {0, 1}
      BY <3>1, AtMostOne
    <3>3. Cardinality(S) <= 1
      BY <3>2
    <3> QED BY <3>3 DEF S
  <2>4. ASSUME NEW t \in TurnIds
        PROVE  used[t] + Cardinality({k \in 1..Len(proxy.results) : proxy.results[k].job = t}) <= 1
    <3> DEFINE S == {k \in 1..Len(proxy.results) : proxy.results[k].job = t}
    <3>1. (\A k, m \in S : k = m) /\ (used[t] = 1 => S = {}) /\ used[t] \in {0, 1}
      BY <2>1 DEF ProxyOk
    <3> HIDE DEF S
    <3>2. Cardinality(S) \in {0, 1} /\ (used[t] = 1 => Cardinality(S) = 0)
      BY <3>1, AtMostOne
    <3>3. used[t] + Cardinality(S) <= 1
      BY <3>1, <3>2
    <3> QED BY <3>3 DEF S
  <2> QED BY <2>2, <2>3, <2>4 DEF AnsweredOnce
<1> QED BY <1>1, AgentInvAlways, PTL

\* A reply the model wrote saw the oldest message of its batch, or, in batches of several, one
\* that a turn without its lock had answered meanwhile.
THEOREM AnswerSawTheOldestAlways == AgentSpec => []AnswerSawTheOldest
<1>1. AgentInv => AnswerSawTheOldest
  BY DEF AgentInv, MailOk, RepliesOk, AnswerSawTheOldest, Saw, Stolen
<1> QED BY <1>1, AgentInvAlways, PTL

-----------------------------------------------------------------------------
(***************************************************************************)
(* Types of a turn.  AgentInv carries most of AgentTypeOK, the bound on    *)
(* the attempts of a wait included; left are the worker's jobs and two     *)
(* counters.                                                               *)
(***************************************************************************)
CountersOk == worker \subseteq TurnIds /\ rejections \in 0..RejectionLimit /\ decision \in 0..MaxTurns

\* The count of rejections stops at its limit.
LEMMA CountRejectionTyped ==
  ASSUME rejections \in 0..RejectionLimit, NEW next, NEW out, NEW late
  PROVE  CountRejection(next, out, late) \in 0..RejectionLimit
<1> DEFINE S == {rejections + 1, RejectionLimit}
<1>1. S \in SUBSET Nat /\ S # {} /\ RejectionLimit \in S
  BY TurnNumbers
<1>2. Min(S) \in S /\ Min(S) <= RejectionLimit
  <2> HIDE DEF S
  <2> QED BY <1>1, MinIsLeast
<1>3. Min(S) \in 0..RejectionLimit
  BY <1>1, <1>2, TurnNumbers
<1> HIDE DEF S
<1>4. CountRejection(next, out, late) \in {0, rejections, Min(S)}
  BY DEF CountRejection, S
<1> QED BY <1>3, <1>4, TurnNumbers

\* A turn records a decision of its own or none.
LEMMA EndRoundsDecides ==
  ASSUME NEW t, NEW next, EndRounds(t, next) \/ EndAnswering(t, next)
  PROVE  decision' \in {decision, t}
  BY DEF EndRounds, EndAnswering, Suspend

\* The same of a turn with the output of an inference.
LEMMA ApplyOutputDecides ==
  ASSUME rejections \in 0..RejectionLimit, NEW t, NEW next, NEW out, NEW seen, NEW late,
         out \in DirectOutputs, ApplyOutput(t, next, out, seen, late)
  PROVE  decision' \in {decision, t} /\ rejections' \in 0..RejectionLimit
<1>1. \A n, x : PlanTools(t, x, n) => decision' \in {decision, t}
  BY EndRoundsDecides DEF PlanTools, Suspend
<1>2. \A x : InferenceFails(t, x) => decision' \in {decision, t}
  BY EndRoundsDecides DEF InferenceFails, EndFailed
<1>3. \A x : EndRounds(t, x) \/ EndAnswering(t, x) => decision' \in {decision, t}
  BY EndRoundsDecides
<1>4. rejections' = CountRejection(next, out, late)
  BY DEF ApplyOutput
<1>5. decision' \in {decision, t}
  BY <1>1, <1>2, <1>3 DEF ApplyOutput, DirectOutputs
<1> QED BY <1>4, <1>5, CountRejectionTyped

\* The same of a turn up to the await of its inference.
LEMMA InferDecides ==
  ASSUME ProxyOk(proxy, used), CountersOk, NEW t, NEW next, Infer(t, next)
  PROVE  decision' \in {decision, t} /\ rejections' \in 0..RejectionLimit
<1>1. ASSUME NEW job \in BufferedJobs(proxy), UseCallback(t, next, job)
      PROVE  decision' \in {decision, t} /\ rejections' \in 0..RejectionLimit
  <2> DEFINE out == Result(proxy, job)
             seen == turn[job].batch
  <2>1. out \in DirectOutputs
    BY TakeOk, TurnAssumption DEF DirectOutputs
  <2>2. ApplyOutput(t, next, out, seen, FALSE)
    BY <1>1 DEF UseCallback
  <2> HIDE DEF out, seen
  <2> QED BY <2>1, <2>2, ApplyOutputDecides DEF CountersOk
<1>2. CASE Resumes(next) /\ next.wait.job \in BufferedJobs(proxy) /\ UseCallback(t, next, next.wait.job)
  BY <1>1, <1>2
<1>3. CASE /\ \E aged \in BOOLEAN : EndDeferred(t, next, 0, aged)
           /\ UNCHANGED <<proxy, used, rejections>>
  BY <1>3 DEF EndDeferred, CountersOk
<1>4. CASE PopsCallback(next) /\ UseCallback(t, next, Head(proxy.results).job)
  <2>1. proxy.results # <<>> /\ proxy \in ProxyRecords
    BY <1>4 DEF PopsCallback, ProxyOk
  <2>2. proxy.results \in Seq([job : TurnIds, out : WorkerOutputs]) /\ Len(proxy.results) \in Nat
    BY <2>1, Buffered
  <2>3. Len(proxy.results) # 0 /\ Head(proxy.results) = proxy.results[1]
    BY <2>1, <2>2, EmptySeq, HeadTailProperties
  <2>4. Head(proxy.results).job \in BufferedJobs(proxy)
    BY <2>2, <2>3 DEF BufferedJobs
  <2> QED BY <1>1, <1>4, <2>4
<1>5. CASE Suspend(t, next, "infer", 0) /\ UNCHANGED <<proxy, used, rejections>>
  BY <1>5 DEF Suspend, CountersOk
<1> QED BY <1>2, <1>3, <1>4, <1>5 DEF Infer

\* The worker's jobs and the counters keep their types in every step.
LEMMA CountersStep == AgentInv /\ CountersOk /\ [AgentNext]_agentVars => CountersOk'
<1> SUFFICES ASSUME AgentInv, CountersOk, [AgentNext]_agentVars PROVE CountersOk'
  OBVIOUS
<1>1. ProxyOk(proxy, used) /\ begun \in 0..MaxTurns /\ MaxTurns \in Nat
  BY TurnNumbers DEF AgentInv, MailOk, TurnsOk
<1>2. 0 \in 0..RejectionLimit /\ TurnIds \subseteq 0..MaxTurns
  BY TurnNumbers DEF TurnIds
<1>3. ASSUME NEW t \in TurnIds, worker' = worker, decision' \in {decision, t},
             rejections' \in 0..RejectionLimit
      PROVE  CountersOk'
  BY <1>2, <1>3 DEF CountersOk
<1>4. ASSUME BeginsTurn PROVE begun + 1 \in TurnIds
  BY <1>1, <1>4 DEF BeginsTurn, TurnIds
<1>5. CASE TurnBegins
  <2>1. Infer(begun + 1, ThisTurn) /\ worker' = worker /\ BeginsTurn
    BY <1>5 DEF TurnBegins
  <2>2. decision' \in {decision, begun + 1} /\ rejections' \in 0..RejectionLimit
    BY <1>1, <2>1, InferDecides
  <2> QED BY <1>3, <1>4, <2>1, <2>2
<1>6. CASE TurnWithoutInference
  <2>1. EndAnswering(begun + 1, ThisTurn) /\ worker' = worker /\ BeginsTurn /\ rejections' = rejections
    BY <1>6 DEF TurnWithoutInference
  <2>2. decision' \in {decision, begun + 1}
    BY <2>1, EndRoundsDecides
  <2> QED BY <1>3, <1>4, <2>1, <2>2 DEF CountersOk
<1>7. ASSUME NEW t \in TurnIds, InferenceReturns(t) PROVE CountersOk'
  <2>1. PICK out \in DirectOutputs, late \in BOOLEAN : ApplyOutput(t, turn[t], out, turn[t].batch, late)
    BY <1>7 DEF InferenceReturns
  <2>2. decision' \in {decision, t} /\ rejections' \in 0..RejectionLimit
    BY <2>1, ApplyOutputDecides DEF CountersOk
  <2> QED BY <1>3, <1>7, <2>2 DEF InferenceReturns
<1>8. ASSUME NEW t \in TurnIds, SubmitReturns(t) PROVE CountersOk'
  <2>1. ASSUME NEW out \in {"error", "rejected", "skipped"}, NEW late, ApplyOutput(t, turn[t], out, {}, late)
        PROVE  decision' \in {decision, t} /\ rejections' \in 0..RejectionLimit
    BY <2>1, ApplyOutputDecides DEF CountersOk, DirectOutputs
  <2>2. \A job, aged : EndDeferred(t, turn[t], job, aged) => decision' = decision
    BY DEF EndDeferred
  <2>3. decision' \in {decision, t} /\ rejections' \in 0..RejectionLimit
    BY <1>8, <2>1, <2>2, EndRoundsDecides DEF SubmitReturns, CountersOk
  <2> QED BY <1>3, <1>8, <2>3 DEF SubmitReturns
<1>9. ASSUME NEW t \in TurnIds, ToolsReturn(t) PROVE CountersOk'
  <2>1. \A x : Infer(t, x) => decision' \in {decision, t} /\ rejections' \in 0..RejectionLimit
    BY <1>1, InferDecides
  <2>2. \A x : EndRounds(t, x) \/ EndFailed(t, x) => decision' \in {decision, t}
    BY EndRoundsDecides DEF EndFailed
  <2>3. decision' \in {decision, t} /\ rejections' \in 0..RejectionLimit
    BY <1>9, <2>1, <2>2 DEF ToolsReturn, CountersOk
  <2> QED BY <1>3, <1>9, <2>3 DEF ToolsReturn
<1>10. ASSUME NEW t \in TurnIds, RetryReturns(t) PROVE CountersOk'
  <2>1. decision' \in {decision, t} /\ rejections' \in 0..RejectionLimit
    BY <1>2, <1>10, EndRoundsDecides DEF RetryReturns, EndFailed, CountersOk
  <2> QED BY <1>3, <1>10, <2>1 DEF RetryReturns
<1>11. CASE PostInboxMessage \/ StagePending \/ SuppressionExpires \/ RecoverLock
  BY <1>2, <1>11 DEF PostInboxMessage, StagePending, SuppressionExpires, RecoverLock, CountersOk
<1>12. ASSUME NEW t \in TurnIds, WorkerReceives(t) \/ Callback(t) \/ ExpireJob(t) \/ TurnTraps(t)
       PROVE  CountersOk'
  BY <1>12 DEF WorkerReceives, Callback, ExpireJob, TurnTraps, CountersOk
<1>13. CASE UNCHANGED agentVars
  BY <1>13 DEF agentVars, CountersOk
<1> QED BY <1>5, <1>6, <1>7, <1>8, <1>9, <1>10, <1>11, <1>12, <1>13 DEF AgentNext

\* A wait is closed before the count of its attempts reaches the limit, whatever happened to
\* the jobs it waited for; no turn calls more tools than its budget or goes past its rounds.
THEOREM AgentTyped == AgentSpec => []AgentTypeOK
<1>1. AgentInit => CountersOk
  BY TurnNumbers DEF AgentInit, CountersOk
<1>2. AgentInv /\ CountersOk => AgentTypeOK
  <2> SUFFICES ASSUME AgentInv, CountersOk PROVE AgentTypeOK
    OBVIOUS
  <2>1. InboxOk(inbox) /\ TurnsOk(turn, begun, lock, stale) /\ outbox \subseteq ReplyRecords
        /\ waits \in [Messages -> WaitRecords]
    BY DEF AgentInv, MailOk, RepliesOk, WaitsOk
  <2>2. proxy.pending \subseteq TurnIds /\ proxy.done \subseteq TurnIds /\ used \in [TurnIds -> Nat]
    BY DEF AgentInv, ProxyOk, ProxyRecords
  <2> QED BY <2>1, <2>2 DEF AgentTypeOK, InboxOk, TurnsOk, CountersOk, ReplyRecords, TurnRecords,
                            WaitRecords
<1>3. AgentInv /\ CountersOk /\ [AgentNext]_agentVars => CountersOk'
  BY CountersStep
<1> QED BY <1>1, <1>2, <1>3, AgentInvAlways, PTL DEF AgentSpec

-----------------------------------------------------------------------------
(***************************************************************************)
(* Types of the scheduler.  A schedule and the lease name jobs that exist, *)
(* which is why the queue may only grow; and a dispatch that is suspended  *)
(* has not used up the jobs of its tick.                                   *)
(***************************************************************************)
JobRecords  == [kind : Kinds, key : Kinds \X (WakeKeys \cup {"slot", "terminal", "singleton"}) \X Nat,
                at : Nat, status : JobStatuses, attempts : Nat]
TaskRecords == [enabled : BOOLEAN, interval : Nat, due : Nat, backoff : Nat, failures : Nat,
                pending : Nat]

QueueTyped(x) ==
  /\ x \in [jobs : Seq(JobRecords), task : [Kinds -> TaskRecords], lease : [job : Nat, until : Nat]]
  /\ \A k \in Kinds : x.task[k].pending <= Len(x.jobs)
  /\ x.lease.job <= Len(x.jobs)

\* y is typed, and has at least the jobs of x.
GrowsTyped(x, y) == QueueTyped(y) /\ Len(x.jobs) <= Len(y.jobs)

\* The queue of two parts that are typed.
LEMMA TypedQueue ==
  ASSUME NEW j \in Seq(JobRecords), NEW f \in [Kinds -> TaskRecords], NEW l \in [job : Nat, until : Nat],
         \A k \in Kinds : f[k].pending <= Len(j), l.job <= Len(j),
         NEW x, x = [jobs |-> j, task |-> f, lease |-> l]
  PROVE  QueueTyped(x)
  BY DEF QueueTyped

\* The parts of a typed queue.
LEMMA QueueParts ==
  ASSUME NEW x, QueueTyped(x)
  PROVE  /\ x = [jobs |-> x.jobs, task |-> x.task, lease |-> x.lease]
         /\ x.jobs \in Seq(JobRecords) /\ x.task \in [Kinds -> TaskRecords]
         /\ x.lease \in [job : Nat, until : Nat]
         /\ Len(x.jobs) \in Nat /\ \A i \in 1..Len(x.jobs) : x.jobs[i] \in JobRecords
<1>1. x.jobs \in Seq(JobRecords)
  BY DEF QueueTyped
<1>2. Len(x.jobs) \in Nat /\ \A i \in 1..Len(x.jobs) : x.jobs[i] \in JobRecords
  BY <1>1, LenProperties, ElementOfSeq
<1> QED BY <1>1, <1>2 DEF QueueTyped

\* A job that is written over another, or put behind the others.
LEMMA TypedJobs ==
  ASSUME NEW j \in Seq(JobRecords), NEW job \in JobRecords
  PROVE  /\ Append(j, job) \in Seq(JobRecords) /\ Len(Append(j, job)) = Len(j) + 1
         /\ \A i \in 1..Len(j) : /\ [j EXCEPT ![i] = job] \in Seq(JobRecords)
                                 /\ Len([j EXCEPT ![i] = job]) = Len(j)
<1>1. Append(j, job) \in Seq(JobRecords) /\ Len(Append(j, job)) = Len(j) + 1
  BY AppendProperties
<1>2. ASSUME NEW i \in 1..Len(j)
      PROVE  [j EXCEPT ![i] = job] \in Seq(JobRecords) /\ Len([j EXCEPT ![i] = job]) = Len(j)
  BY ExceptSeq
<1> QED BY <1>1, <1>2

\* A queue with other parts.
QueueOf(j, f, l) == [jobs |-> j, task |-> f, lease |-> l]

\* A task that is written over another: the table of tasks stays typed, and the others keep
\* the jobs they wait for.
LEMMA TypedTasks ==
  ASSUME NEW f \in [Kinds -> TaskRecords], NEW kind \in Kinds, NEW task \in TaskRecords, NEW n \in Nat,
         \A k \in Kinds : f[k].pending <= n, task.pending <= n
  PROVE  /\ [f EXCEPT ![kind] = task] \in [Kinds -> TaskRecords]
         /\ \A k \in Kinds : [f EXCEPT ![kind] = task][k].pending <= n
  OBVIOUS

\* The fields of a task.
LEMMA TaskFields ==
  ASSUME NEW task \in TaskRecords
  PROVE  /\ task = [enabled |-> task.enabled, interval |-> task.interval, due |-> task.due,
                    backoff |-> task.backoff, failures |-> task.failures, pending |-> task.pending]
         /\ task.enabled \in BOOLEAN /\ task.interval \in Nat /\ task.due \in Nat
         /\ task.backoff \in Nat /\ task.failures \in Nat /\ task.pending \in Nat
  BY DEF TaskRecords

\* A task that waits for another job.
LEMMA TaskWaits ==
  ASSUME NEW task \in TaskRecords, NEW n \in Nat
  PROVE  /\ [task EXCEPT !.pending = n] \in TaskRecords /\ [task EXCEPT !.pending = n].pending = n
  BY DEF TaskRecords

\* enqueue_job_if_absent
LEMMA EnqueueTyped ==
  ASSUME NEW x, QueueTyped(x), NEW kind \in Kinds, NEW name \in WakeKeys \cup {"slot", "terminal", "singleton"},
         NEW key, NEW n \in Nat, key = <<kind, name, n>>, NEW at \in Nat
  PROVE  GrowsTyped(x, EnqueueJobIfAbsent(x, kind, key, at))
<1> DEFINE job  == ScheduledJob(kind, key, at)
           j    == Append(x.jobs, job)
           m    == Len(x.jobs) + 1
           task == [x.task[kind] EXCEPT !.pending = m]
           f    == [x.task EXCEPT ![kind] = task]
           y    == EnqueueJobIfAbsent(x, kind, key, at)
<1>1. Len(x.jobs) \in Nat
  BY QueueParts
<1>2. CASE FindByDedupeKey(x, key) # {}
  <2>1. y = x
    BY <1>2 DEF EnqueueJobIfAbsent
  <2> QED BY <1>1, <2>1 DEF GrowsTyped
<1>3. CASE FindByDedupeKey(x, key) = {}
  <2>1. y = QueueOf(j, f, x.lease)
    <3>1. PICK a, b, c : x = [jobs |-> a, task |-> b, lease |-> c]
      BY QueueParts
    <3> QED BY <1>3, <3>1 DEF EnqueueJobIfAbsent, QueueOf
  <2>2. key \in Kinds \X (WakeKeys \cup {"slot", "terminal", "singleton"}) \X Nat
    OBVIOUS
  <2>3. job \in JobRecords
    BY <2>2 DEF JobRecords, ScheduledJob, JobStatuses
  <2> HIDE DEF job
  <2>4. j \in Seq(JobRecords) /\ Len(j) = m /\ m \in Nat
    BY <1>1, <2>3, QueueParts, TypedJobs
  <2>5. task \in TaskRecords /\ task.pending = m
    <3>1. x.task[kind] \in TaskRecords
      BY QueueParts
    <3>2. m \in Nat
      BY <1>1
    <3> HIDE DEF m
    <3> QED BY <3>1, <3>2, TaskWaits
  <2>6. \A k \in Kinds : x.task[k].pending <= m
    <3>1. \A k \in Kinds : x.task[k].pending \in Nat /\ x.task[k].pending <= Len(x.jobs)
      BY QueueParts, TaskFields DEF QueueTyped
    <3> QED BY <1>1, <3>1
  <2>7. x.lease.job <= m /\ x.lease \in [job : Nat, until : Nat]
    BY <1>1, QueueParts DEF QueueTyped
  <2> HIDE DEF task, m
  <2>8. f \in [Kinds -> TaskRecords] /\ \A k \in Kinds : f[k].pending <= m
    BY <2>4, <2>5, <2>6, QueueParts, TypedTasks
  <2> HIDE DEF j, f, y
  <2>9. QueueTyped(y) /\ y.jobs = j
    BY <2>1, <2>4, <2>7, <2>8, TypedQueue DEF QueueOf
  <2>10. Len(x.jobs) <= m
    BY <1>1 DEF m
  <2> QED BY <2>4, <2>9, <2>10 DEF GrowsTyped, y
<1> QED BY <1>2, <1>3

\* enqueue_job_if_absent adds at most one job.
LEMMA EnqueuesOne ==
  ASSUME NEW x, QueueTyped(x), NEW kind, NEW key, NEW at
  PROVE  Len(EnqueueJobIfAbsent(x, kind, key, at).jobs) <= Len(x.jobs) + 1
<1> DEFINE job == ScheduledJob(kind, key, at)
           y   == EnqueueJobIfAbsent(x, kind, key, at)
<1>1. PICK a, b, c : x = [jobs |-> a, task |-> b, lease |-> c]
  BY QueueParts
<1>2. x.jobs = a /\ a \in Seq(JobRecords) /\ Len(a) \in Nat
  BY <1>1, QueueParts
<1> HIDE DEF job
<1>3. y.jobs \in {a, Append(a, job)}
  <2>1. CASE FindByDedupeKey(x, key) # {}
    BY <1>2, <2>1 DEF EnqueueJobIfAbsent
  <2>2. CASE FindByDedupeKey(x, key) = {}
    <3> DEFINE f == [b EXCEPT ![kind].pending = Len(a) + 1]
    <3>1. y = [jobs |-> Append(a, job), task |-> f, lease |-> c]
      BY <1>1, <2>2 DEF EnqueueJobIfAbsent, job
    <3> HIDE DEF y, f
    <3> QED BY <3>1
  <2> QED BY <2>1, <2>2
<1>4. Len(Append(a, job)) = Len(a) + 1
  BY <1>2
<1> HIDE DEF y
<1>5. Len(y.jobs) <= Len(a) + 1
  BY <1>2, <1>3, <1>4
<1> QED BY <1>2, <1>5 DEF y

\* A slot is not after the time it is computed at.
LEMMA SlotTyped ==
  ASSUME NEW i \in Nat \ {0}, NEW at \in Nat
  PROVE  at - (at % i) \in Nat
<1>1. CASE i <= at
  <2>1. (at % i) \in 0 .. i - 1
    OBVIOUS
  <2> QED BY <1>1, <2>1
<1>2. CASE at < i
  <2>1. (at % i) = at
    BY <1>2
  <2> QED BY <2>1
<1> QED BY <1>1, <1>2

\* refresh_due_jobs, of one kind: the task is due later and waits for the job it waited for.
LEMMA RefreshKindTyped ==
  ASSUME NEW x, QueueTyped(x), NEW kind \in Kinds, NEW low, NEW at \in Nat
  PROVE  GrowsTyped(x, RefreshKind(x, kind, low, at))
<1> DEFINE old  == x.task[kind]
           slot == SlotOf(old, at)
           z    == EnqueueJobIfAbsent(x, kind, SlotKey(kind, slot), slot)
           next == NextSlot(old, slot)
           f    == [z.task EXCEPT ![kind] = next]
           y    == RefreshKind(x, kind, low, at)
<1>1. Len(x.jobs) \in Nat /\ old \in TaskRecords /\ old.pending <= Len(x.jobs)
  BY QueueParts DEF QueueTyped
<1>2. CASE ~Due(x, kind, low, at)
  <2>1. y = x
    BY <1>2 DEF RefreshKind
  <2> QED BY <1>1, <2>1 DEF GrowsTyped
<1>3. CASE Due(x, kind, low, at)
  <2>1. old.interval \in Nat \ {0} /\ old.due \in Nat /\ old.pending \in Nat
    BY <1>1, <1>3, TaskFields DEF Due
  <2>2. slot \in Nat
    BY <2>1, SlotTyped DEF SlotOf
  <2>3. y = [z EXCEPT !.task[kind] = next]
    BY <1>3 DEF RefreshKind
  <2> HIDE DEF slot
  <2>4. next \in TaskRecords /\ next.pending = old.pending
    <3> DEFINE a == old.due + old.interval
               b == slot + old.interval
    <3>1. a \in Nat /\ b \in Nat
      BY <2>1, <2>2
    <3>2. next = [old EXCEPT !.due = Max({a, b})]
      BY DEF NextSlot
    <3> HIDE DEF a, b, old
    <3>3. Max({a, b}) \in Nat
      <4>1. a \in Int /\ b \in Int
        BY <3>1
      <4>2. Max({a, b}) \in {a, b}
        BY <4>1, MaxOfTwo
      <4> QED BY <3>1, <4>2
    <3> QED BY <1>1, <3>2, <3>3 DEF TaskRecords
  <2>5. GrowsTyped(x, z)
    <3>1. CASE kind = "TopUpCycles"
      <4>1. SlotKey(kind, slot) = <<kind, "singleton", 0>>
        BY <3>1 DEF SlotKey, TopUpKey
      <4> QED BY <2>2, <4>1, EnqueueTyped
    <3>2. CASE kind # "TopUpCycles"
      <4>1. SlotKey(kind, slot) = <<kind, "slot", slot>>
        BY <3>2 DEF SlotKey
      <4> QED BY <2>2, <4>1, EnqueueTyped
    <3> QED BY <3>1, <3>2
  <2> HIDE DEF z, next, old
  <2>6. /\ QueueTyped(z) /\ Len(z.jobs) \in Nat /\ Len(x.jobs) <= Len(z.jobs)
        /\ z.jobs \in Seq(JobRecords) /\ z.lease \in [job : Nat, until : Nat]
        /\ z.lease.job <= Len(z.jobs) /\ z.task \in [Kinds -> TaskRecords]
        /\ \A k \in Kinds : z.task[k].pending <= Len(z.jobs)
    BY <2>5, QueueParts DEF GrowsTyped, QueueTyped
  <2>7. y = QueueOf(z.jobs, f, z.lease)
    <3>1. PICK a, b, c : z = [jobs |-> a, task |-> b, lease |-> c]
      BY <2>6, QueueParts
    <3> QED BY <2>3, <3>1 DEF QueueOf
  <2>8. next.pending <= Len(z.jobs)
    BY <1>1, <2>1, <2>4, <2>6
  <2> DEFINE n == Len(z.jobs)
  <2> HIDE DEF n, f, y
  <2>9. f \in [Kinds -> TaskRecords] /\ \A k \in Kinds : f[k].pending <= n
    BY <2>4, <2>6, <2>8, TypedTasks DEF n, f
  <2>10. QueueTyped(y) /\ y.jobs = z.jobs
    BY <2>6, <2>7, <2>9, TypedQueue DEF QueueOf, n
  <2> QED BY <2>6, <2>10 DEF GrowsTyped, y
<1> QED BY <1>2, <1>3

\* Growing twice is growing.
LEMMA GrowsTypedTwice ==
  ASSUME NEW x, NEW y, NEW z, QueueTyped(x), GrowsTyped(x, y), GrowsTyped(y, z)
  PROVE  GrowsTyped(x, z)
<1>1. Len(x.jobs) \in Nat /\ Len(y.jobs) \in Nat /\ Len(z.jobs) \in Nat
  BY QueueParts DEF GrowsTyped
<1> QED BY <1>1 DEF GrowsTyped

\* refresh_due_jobs
LEMMA RefreshTyped ==
  ASSUME NEW x, QueueTyped(x), NEW low, NEW at \in Nat
  PROVE  GrowsTyped(x, RefreshDueJobs(x, low, at))
<1> DEFINE first  == RefreshKind(x, "AgentTurn", low, at)
           second == RefreshKind(first, "PollInbox", low, at)
           third  == RefreshKind(second, "CheckCycles", low, at)
           fourth == RefreshKind(third, "TopUpCycles", low, at)
           fifth  == RefreshKind(fourth, "Reconcile", low, at)
<1>0. {"AgentTurn", "PollInbox", "CheckCycles", "TopUpCycles", "Reconcile"} \subseteq Kinds
  BY DEF Kinds
<1>1. GrowsTyped(x, first) /\ QueueTyped(first)
  BY <1>0, RefreshKindTyped DEF GrowsTyped
<1> HIDE DEF first
<1>2. GrowsTyped(x, second) /\ QueueTyped(second)
  BY <1>0, <1>1, RefreshKindTyped, GrowsTypedTwice DEF GrowsTyped
<1> HIDE DEF second
<1>3. GrowsTyped(x, third) /\ QueueTyped(third)
  BY <1>0, <1>2, RefreshKindTyped, GrowsTypedTwice DEF GrowsTyped
<1> HIDE DEF third
<1>4. GrowsTyped(x, fourth) /\ QueueTyped(fourth)
  BY <1>0, <1>3, RefreshKindTyped, GrowsTypedTwice DEF GrowsTyped
<1> HIDE DEF fourth
<1>5. GrowsTyped(x, fifth)
  BY <1>0, <1>4, RefreshKindTyped, GrowsTypedTwice DEF GrowsTyped
<1> QED BY <1>5 DEF RefreshDueJobs, first, second, third, fourth

\* The cadence: every task is due one interval from now.
LEMMA CadenceTyped ==
  ASSUME NEW x, QueueTyped(x), NEW interval \in Nat, NEW at \in Nat
  PROVE  GrowsTyped(x, SetCadence(x, interval, at))
<1> DEFINE Paced(task) == [task EXCEPT !.interval = interval, !.due = at + interval]
           f == [kind \in Kinds |-> Paced(x.task[kind])]
           y == SetCadence(x, interval, at)
<1>1. /\ Len(x.jobs) \in Nat /\ x.jobs \in Seq(JobRecords) /\ x.lease \in [job : Nat, until : Nat]
      /\ x.lease.job <= Len(x.jobs) /\ x.task \in [Kinds -> TaskRecords]
      /\ \A k \in Kinds : x.task[k].pending <= Len(x.jobs)
  BY QueueParts DEF QueueTyped
<1>2. \A k \in Kinds : SetTaskInterval(x, k, interval, at).task[k] = Paced(x.task[k])
  <2>1. PICK a, b, c : x = [jobs |-> a, task |-> b, lease |-> c] /\ DOMAIN b = Kinds
    BY <1>1, QueueParts
  <2> QED BY <2>1 DEF SetTaskInterval
<1>3. y = QueueOf(x.jobs, f, x.lease)
  <2>1. PICK a, b, c : x = [jobs |-> a, task |-> b, lease |-> c]
    BY QueueParts
  <2>2. y = [x EXCEPT !.task = f]
    <3> HIDE DEF Paced
    <3> QED BY <1>2 DEF SetCadence
  <2> QED BY <2>1, <2>2 DEF QueueOf
<1>4. ASSUME NEW task \in TaskRecords PROVE Paced(task) \in TaskRecords /\ Paced(task).pending = task.pending
  <2>1. at + interval \in Nat
    OBVIOUS
  <2> QED BY <2>1 DEF TaskRecords
<1> HIDE DEF Paced, y
<1>5. f \in [Kinds -> TaskRecords] /\ \A k \in Kinds : f[k].pending <= Len(x.jobs)
  BY <1>1, <1>4
<1> HIDE DEF f
<1>6. QueueTyped(y) /\ y.jobs = x.jobs
  BY <1>1, <1>3, <1>5, TypedQueue DEF QueueOf
<1> QED BY <1>1, <1>6 DEF GrowsTyped, y

\* A job of another status.
LEMMA JobMoves ==
  ASSUME NEW job \in JobRecords, NEW status \in JobStatuses
  PROVE  [job EXCEPT !.status = status] \in JobRecords /\ job.kind \in Kinds
  BY DEF JobRecords

\* A job that was completed.
LEMMA CompletedTyped ==
  ASSUME NEW job \in JobRecords, NEW status \in JobStatuses, NEW at \in Nat, NEW retry \in Nat \cup {-1}
  PROVE  Completed(job, status, at, retry) \in JobRecords
<1> DEFINE retried == Retries(job, status, retry)
           s == IF retried THEN "Pending" ELSE status
           w == IF retried THEN at + retry ELSE job.at
           n == job.attempts + 1
<1>1. n \in Nat /\ job.at \in Nat
  BY DEF JobRecords
<1>2. w \in Nat
  BY <1>1 DEF Retries
<1>3. s \in JobStatuses
  BY DEF JobStatuses
<1>4. Completed(job, status, at, retry) = [job EXCEPT !.attempts = n, !.status = s, !.at = w]
  BY DEF Completed
<1> HIDE DEF n, s, w
<1> QED BY <1>1, <1>2, <1>3, <1>4 DEF JobRecords

\* Backoffs are numbers, whatever was counted.
LEMMA ClampTyped ==
  ASSUME NEW x \in Nat
  PROVE  Clamp(x, 1, Max({MaxBackoff, 1})) \in Nat
<1>1. Max({MaxBackoff, 1}) \in Nat
  <2>1. MaxBackoff \in Int /\ 1 \in Int /\ MaxBackoff \in Nat
    BY PolicyAssumption
  <2>2. Max({MaxBackoff, 1}) \in {MaxBackoff, 1}
    BY <2>1, MaxOfTwo
  <2> QED BY <2>1, <2>2
<1> QED BY <1>1 DEF Clamp

\* The exponent is capped.
LEMMA PowerTyped ==
  ASSUME NEW failures \in Nat
  PROVE  2 ^ (IF failures < 20 THEN failures ELSE 20) \in Nat
<1>1. (IF failures < 20 THEN failures ELSE 20) \in 0..20
  OBVIOUS
<1> QED BY <1>1, PolicyAssumption

\* The backoff of a task.
LEMMA BackoffTyped ==
  ASSUME NEW failures \in Nat, NEW at \in Nat
  PROVE  TaskBackoff(failures, at) \in Nat
<1> DEFINE p == 2 ^ (IF failures < 20 THEN failures ELSE 20)
           c == Clamp(p, 1, Max({MaxBackoff, 1}))
<1>1. p \in Nat
  BY PowerTyped
<1>2. TaskBackoff(failures, at) = at + c
  BY DEF TaskBackoff
<1> HIDE DEF p
<1>3. c \in Nat
  BY <1>1, ClampTyped
<1> HIDE DEF c
<1> QED BY <1>2, <1>3

\* complete_job, whoever calls it.
LEMMA CompleteTyped ==
  ASSUME NEW x, QueueTyped(x), NEW id \in 1..Len(x.jobs), NEW status \in JobStatuses, NEW at \in Nat,
         NEW retry \in Nat \cup {-1}, NEW y, y = CompleteJob(x, id, status, at, retry)
  PROVE  QueueTyped(y) /\ Len(y.jobs) = Len(x.jobs)
<1> DEFINE job      == x.jobs[id]
           kind     == job.kind
           task     == x.task[kind]
           failed   == status \in {"Failed", "TimedOut"}
           failures == IF status = "Succeeded" THEN 0
                       ELSE IF failed THEN task.failures + 1 ELSE task.failures
           backoff  == IF status = "Succeeded" THEN 0
                       ELSE IF ~failed THEN task.backoff
                       ELSE IF retry # -1 THEN at + retry ELSE TaskBackoff(failures, at)
           pending  == IF Retries(job, status, retry) THEN id
                       ELSE IF task.pending = id THEN 0 ELSE task.pending
           done     == Completed(job, status, at, retry)
           next     == [task EXCEPT !.failures = failures, !.backoff = backoff, !.pending = pending]
           j        == [x.jobs EXCEPT ![id] = done]
           f        == [x.task EXCEPT ![kind] = next]
           l        == IF x.lease.job = id THEN NoLease ELSE x.lease
<1>1. /\ Len(x.jobs) \in Nat /\ x.jobs \in Seq(JobRecords) /\ x.lease \in [job : Nat, until : Nat]
      /\ x.lease.job <= Len(x.jobs) /\ x.task \in [Kinds -> TaskRecords]
      /\ \A k \in Kinds : x.task[k].pending <= Len(x.jobs)
      /\ job \in JobRecords
  BY QueueParts DEF QueueTyped
<1>2. kind \in Kinds
  BY <1>1, JobMoves
<1> HIDE DEF kind, job
<1>3. task \in TaskRecords /\ task.pending <= Len(x.jobs)
  BY <1>1, <1>2
<1>4. y = QueueOf(j, f, l)
  <2>1. PICK a, b, c : x = [jobs |-> a, task |-> b, lease |-> c]
    BY QueueParts
  <2>2. y = [x EXCEPT !.jobs[id] = done, !.task[kind] = next, !.lease = l]
    BY DEF CompleteJob, kind, job
  <2> HIDE DEF done, next, l
  <2> QED BY <2>1, <2>2 DEF QueueOf
<1> HIDE DEF task
<1>5. failures \in Nat
  BY <1>3, TaskFields
<1> HIDE DEF failures
<1>6. backoff \in Nat
  BY <1>3, <1>5, TaskFields, BackoffTyped
<1>7. pending \in Nat /\ pending <= Len(x.jobs)
  BY <1>1, <1>3, TaskFields
<1> HIDE DEF backoff, pending
<1>8. next \in TaskRecords /\ next.pending = pending
  BY <1>3, <1>5, <1>6, <1>7 DEF TaskRecords
<1>9. done \in JobRecords
  BY <1>1, CompletedTyped
<1> HIDE DEF done, next
<1>10. j \in Seq(JobRecords) /\ Len(j) = Len(x.jobs)
  BY <1>1, <1>9, TypedJobs
<1>11. f \in [Kinds -> TaskRecords] /\ \A k \in Kinds : f[k].pending <= Len(x.jobs)
  <2> DEFINE n == Len(x.jobs)
  <2>1. n \in Nat /\ next.pending <= n /\ \A k \in Kinds : x.task[k].pending <= n
    BY <1>1, <1>7, <1>8
  <2> HIDE DEF n
  <2>2. f \in [Kinds -> TaskRecords] /\ \A k \in Kinds : f[k].pending <= n
    BY <1>1, <1>2, <1>8, <2>1, TypedTasks
  <2> QED BY <2>2 DEF n
<1>12. l \in [job : Nat, until : Nat] /\ l.job <= Len(x.jobs)
  BY <1>1 DEF NoLease
<1> HIDE DEF j, f, l
<1>13. QueueTyped(y) /\ y.jobs = j
  BY <1>4, <1>10, <1>11, <1>12, TypedQueue DEF QueueOf
<1> QED BY <1>10, <1>13

\* recover_stale_lease: the lease names a job.
LEMMA RecoverTyped ==
  ASSUME NEW x, QueueTyped(x), NEW at \in Nat
  PROVE  GrowsTyped(x, RecoverStaleLease(x, at)) /\ Len(RecoverStaleLease(x, at).jobs) = Len(x.jobs)
<1>1. Len(x.jobs) \in Nat /\ x.lease.job \in Nat /\ x.lease.job <= Len(x.jobs)
  BY QueueParts DEF QueueTyped
<1>2. CASE x.lease.job # 0 /\ x.lease.until <= at
  <2>1. PICK y : y = CompleteJob(x, x.lease.job, "TimedOut", at, -1)
    OBVIOUS
  <2>2. RecoverStaleLease(x, at) = y
    BY <1>2, <2>1 DEF RecoverStaleLease
  <2>3. x.lease.job \in 1..Len(x.jobs) /\ "TimedOut" \in JobStatuses
    BY <1>1, <1>2 DEF JobStatuses
  <2>4. QueueTyped(y) /\ Len(y.jobs) = Len(x.jobs)
    BY <2>1, <2>3, CompleteTyped
  <2> QED BY <1>1, <2>2, <2>4 DEF GrowsTyped
<1>3. CASE ~(x.lease.job # 0 /\ x.lease.until <= at)
  <2>1. RecoverStaleLease(x, at) = x
    BY <1>3 DEF RecoverStaleLease
  <2> QED BY <1>1, <2>1 DEF GrowsTyped
<1> QED BY <1>2, <1>3

\* set_task_enabled
LEMMA SetTaskTyped ==
  ASSUME NEW x, QueueTyped(x), NEW kind \in Kinds, NEW enabled \in BOOLEAN, NEW y,
         y = SetTaskEnabled(x, kind, enabled)
  PROVE  QueueTyped(y) /\ Len(y.jobs) = Len(x.jobs)
<1> DEFINE old  == x.task[kind]
           task == [old EXCEPT !.enabled = enabled]
           f    == [x.task EXCEPT ![kind] = task]
           set  == [x EXCEPT !.task[kind].enabled = enabled]
<1>1. /\ Len(x.jobs) \in Nat /\ x.jobs \in Seq(JobRecords) /\ x.lease \in [job : Nat, until : Nat]
      /\ x.lease.job <= Len(x.jobs) /\ x.task \in [Kinds -> TaskRecords]
      /\ \A k \in Kinds : x.task[k].pending <= Len(x.jobs)
      /\ old \in TaskRecords /\ old.pending \in Nat
  BY QueueParts, TaskFields DEF QueueTyped
<1>2. set = QueueOf(x.jobs, f, x.lease)
  <2>1. PICK a, b, c : x = [jobs |-> a, task |-> b, lease |-> c]
    BY QueueParts
  <2> QED BY <2>1 DEF QueueOf
<1>3. y = set \/ y = ClearPendingJob(set, kind)
  BY DEF SetTaskEnabled
<1> HIDE DEF set, old
<1>4. task \in TaskRecords /\ task.pending = old.pending
  BY <1>1 DEF TaskRecords
<1> HIDE DEF task
<1> DEFINE n == Len(x.jobs)
<1>5. n \in Nat /\ old.pending <= n
  BY <1>1 DEF old
<1> HIDE DEF n
<1>6. f \in [Kinds -> TaskRecords] /\ (\A k \in Kinds : f[k].pending <= n) /\ f[kind] = task
  BY <1>1, <1>4, <1>5, TypedTasks DEF n
<1> HIDE DEF f
<1>7. QueueTyped(set) /\ set.jobs = x.jobs /\ set.task = f /\ set.lease = x.lease
  BY <1>1, <1>2, <1>6, TypedQueue DEF QueueOf, n
<1>8. CASE y = set
  BY <1>7, <1>8
<1>9. CASE y = ClearPendingJob(set, kind) /\ y # set
  <2> DEFINE id   == task.pending
             job  == [x.jobs[id] EXCEPT !.status = "Deleted"]
             none == [task EXCEPT !.pending = 0]
             j    == [x.jobs EXCEPT ![id] = job]
             g    == [f EXCEPT ![kind] = none]
  <2>1. id # 0 /\ y = [set EXCEPT !.jobs[id].status = "Deleted", !.task[kind].pending = 0]
    BY <1>6, <1>7, <1>9 DEF ClearPendingJob
  <2>2. y = QueueOf(j, g, x.lease)
    <3> HIDE DEF id
    <3> QED BY <1>2, <1>6, <2>1 DEF QueueOf
  <2>3. id \in 1..Len(x.jobs)
    BY <1>1, <1>4, <1>5, <2>1 DEF n
  <2>4. x.jobs[id] \in JobRecords /\ "Deleted" \in JobStatuses
    BY <2>3, QueueParts DEF JobStatuses
  <2> HIDE DEF id
  <2>5. job \in JobRecords
    BY <2>4, JobMoves
  <2> HIDE DEF job
  <2>6. j \in Seq(JobRecords) /\ Len(j) = Len(x.jobs)
    BY <1>1, <2>3, <2>5, TypedJobs
  <2>7. none \in TaskRecords /\ none.pending = 0 /\ 0 <= n
    BY <1>4, <1>5, TaskWaits
  <2> HIDE DEF none
  <2>8. g \in [Kinds -> TaskRecords] /\ \A k \in Kinds : g[k].pending <= n
    BY <1>5, <1>6, <2>7, TypedTasks
  <2> HIDE DEF j, g
  <2>9. QueueTyped(y) /\ y.jobs = j
    <3>1. (\A k \in Kinds : g[k].pending <= Len(j)) /\ x.lease.job <= Len(j)
      BY <1>1, <2>6, <2>8 DEF n
    <3>2. y = [jobs |-> j, task |-> g, lease |-> x.lease] /\ y.jobs = j
      BY <2>2 DEF QueueOf
    <3> QED BY <1>1, <2>6, <2>8, <3>1, <3>2, TypedQueue
  <2> QED BY <2>6, <2>9
<1> QED BY <1>3, <1>8, <1>9

-----------------------------------------------------------------------------
\* A new response limit is within the policy's limits.
LEMMA TunedLimit ==
  ASSUME NEW l \in Nat
  PROVE  NextResponseLimit(l).to \in LimitMin..LimitMax
<1> DEFINE top == Max({LimitMin, LimitMax})
<1>1. LimitMin \in Nat /\ LimitMax \in Nat /\ LimitMin <= LimitMax /\ LimitMin \in Int /\ LimitMax \in Int
  BY PolicyAssumption
<1>2. top \in {LimitMin, LimitMax} /\ top >= LimitMax
  BY <1>1, MaxOfTwo
<1>3. top = LimitMax
  <2> HIDE DEF top
  <2> QED BY <1>1, <1>2
<1> DEFINE from == Clamp(l, LimitMin, LimitMax)
<1>4. from \in Nat
  BY <1>1 DEF Clamp
<1>5. NextResponseLimit(l).to = Clamp(2 * from, LimitMin, LimitMax)
  <2> HIDE DEF from
  <2> QED BY <1>3 DEF NextResponseLimit, from
<1> HIDE DEF from
<1>6. 2 * from \in Nat
  BY <1>4
<1> QED BY <1>1, <1>5, <1>6 DEF Clamp

\* What the recovery policy decides.
LEMMA DecisionTyped ==
  ASSUME NEW failure, NEW failures \in Nat, NEW l \in Nat, NEW d, d = DecideRecoveryAction(failure, failures, l)
  PROVE  /\ d.secs \in Nat
         /\ d.action = "TuneResponseLimit" => d.limit \in LimitMin..LimitMax /\ l # 0
<1> DEFINE e == ExponentialBackoff(failures)
           c == Clamp(e, 1, Max({MaxBackoff, 1}))
           to == NextResponseLimit(l).to
<1>1. e \in Nat
  <2> DEFINE p == 2 ^ (IF failures < 20 THEN failures ELSE 20)
  <2>1. p \in Nat
    BY PowerTyped
  <2>2. e = Clamp(p, 1, Max({MaxBackoff, 1}))
    BY DEF ExponentialBackoff
  <2> HIDE DEF p, e
  <2> QED BY <2>1, <2>2, ClampTyped
<1> HIDE DEF e
<1>2. c \in Nat
  BY <1>1, ClampTyped
<1>3. to \in LimitMin..LimitMax
  BY TunedLimit
<1> HIDE DEF c, to
<1>4. \/ d = Decision("TuneResponseLimit", 0, to) /\ l # 0
      \/ d \in {Decision("RetryImmediate", 0, l), Decision("EscalateFault", 0, l),
                Decision("Skip", 0, l), Decision("Backoff", c, l)}
  BY DEF DecideRecoveryAction, c, to, e
<1> QED BY <1>2, <1>3, <1>4 DEF Decision

\* The status and the delay of a failed job, and the limit after it.
LEMMA RecoveryTyped ==
  ASSUME QueueTyped(q), limit \in LimitMin..LimitMax, NEW job, job.kind \in Kinds, NEW error,
         NEW r, r = Recovery(job, error)
  PROVE  r.status \in JobStatuses /\ r.retry \in Nat \cup {-1} /\ r.limit \in LimitMin..LimitMax
<1> DEFINE kind     == job.kind
           failure  == ClassifyFailureForTask(kind, error)
           failures == q.task[kind].failures
           l        == IF kind = "PollInbox" THEN limit ELSE 0
           decision2 == DecideRecoveryAction(failure, failures, l)
           deferred == kind = "PollInbox" /\ "eth_getLogs" \in error
           retry    == CASE decision2.action \in {"RetryImmediate", "TuneResponseLimit"} -> 0
                         [] decision2.action = "Backoff" -> decision2.secs
                         [] OTHER -> -1
<1>1. failures \in Nat
  BY QueueParts, TaskFields
<1>2. l \in Nat
  BY PolicyAssumption
<1> HIDE DEF failures, l, failure
<1>3. /\ decision2.secs \in Nat
      /\ decision2.action = "TuneResponseLimit" => decision2.limit \in LimitMin..LimitMax
  BY <1>1, <1>2, DecisionTyped
<1>4. r = [status |-> IF deferred \/ decision2.action = "Skip" THEN "Skipped" ELSE "Failed",
           retry  |-> IF deferred THEN -1 ELSE retry,
           limit  |-> IF decision2.action = "TuneResponseLimit" THEN decision2.limit ELSE limit]
  BY DEF Recovery, failures, l, failure
<1> HIDE DEF decision2, deferred
<1>5. retry \in Nat \cup {-1}
  BY <1>3
<1> QED BY <1>3, <1>4, <1>5 DEF JobStatuses

\* The survival backoffs.
SurvivalRecords == [{"Inference", "EvmPoll"} -> [failures : Nat, backoff : Nat]]

\* The note of a dispatch's outcome.
LEMMA SurvivalTyped ==
  ASSUME surv \in SurvivalRecords, now \in Nat, NEW kind, NEW error
  PROVE  NoteSurvival(kind, error) \in SurvivalRecords
<1> DEFINE op == SurvivalOp(kind)
           n  == surv[op].failures + 1
           b  == TaskBackoff(n, now)
<1>1. op \in {"Inference", "EvmPoll"}
  BY DEF SurvivalOp
<1>2. n \in Nat
  BY <1>1 DEF SurvivalRecords
<1> HIDE DEF n, op
<1>3. b \in Nat
  BY <1>2, BackoffTyped
<1>4. NoteSurvival(kind, error) \in
        {surv, [surv EXCEPT ![op] = [failures |-> 0, backoff |-> 0]],
         [surv EXCEPT ![op] = [failures |-> n, backoff |-> b]]}
  BY DEF NoteSurvival, n, op
<1> HIDE DEF b
<1> QED BY <1>1, <1>2, <1>3, <1>4 DEF SurvivalRecords

\* The mortality runtime: three observations of a better tier settle it.
LEMMA ObserveTyped ==
  ASSUME NEW m \in MortalityRuntime, NEW observed \in MortalityTiers
  PROVE  ObserveMortality(m, observed) \in MortalityRuntime
<1> DEFINE checks == IF m.candidate = observed THEN m.checks + 1 ELSE 1
           seen   == ObserveTier(m, observed)
<1>1. m.checks \in 0..2
  BY DEF MortalityRuntime, MortalityRecoveryChecks
<1>2. checks \in Nat /\ (~(checks >= MortalityRecoveryChecks) => checks \in 0..2)
  BY <1>1 DEF MortalityRecoveryChecks
<1>3. SettleTier(m, observed) \in MortalityRuntime
  <2>1. 0 \in 0 .. MortalityRecoveryChecks - 1 /\ "None" \in MortalityTiers \cup {"None"}
    BY DEF MortalityRecoveryChecks
  <2> QED BY <2>1 DEF SettleTier, MortalityRuntime
<1> DEFINE better == [m EXCEPT !.candidate = observed, !.checks = checks]
<1>4. seen \in {m, SettleTier(m, observed), better}
      /\ (seen \in {m, SettleTier(m, observed)} \/ ~(checks >= MortalityRecoveryChecks))
  <2> HIDE DEF checks
  <2>1. seen = IF m.phase # "Alive" \/ m.tier = "Dead" THEN m
               ELSE IF Severity(observed) >= Severity(m.tier) THEN SettleTier(m, observed)
               ELSE IF checks >= MortalityRecoveryChecks THEN SettleTier(m, observed) ELSE better
    BY DEF ObserveTier, checks
  <2> HIDE DEF seen, better
  <2> QED BY <2>1, Zenon
<1> HIDE DEF seen, checks
<1>5. checks \in 0..2 => better \in MortalityRuntime
  <2>1. 0..2 = 0 .. MortalityRecoveryChecks - 1 /\ observed \in MortalityTiers \cup {"None"}
    BY DEF MortalityRecoveryChecks
  <2> QED BY <2>1 DEF MortalityRuntime
<1> HIDE DEF better
<1>6. seen \in MortalityRuntime
  BY <1>2, <1>3, <1>4, <1>5
<1>7. ObserveMortality(m, observed) \in {m, seen, [seen EXCEPT !.phase = "TerminalPending"]}
  BY DEF ObserveMortality, seen
<1>8. [seen EXCEPT !.phase = "TerminalPending"] \in MortalityRuntime
  BY <1>6 DEF MortalityRuntime, MortalityPhases
<1> QED BY <1>6, <1>7, <1>8

\* The beginning and the end of the terminal turn.
LEMMA TerminalTyped ==
  ASSUME NEW m \in MortalityRuntime, NEW turn1 \in Nat
  PROVE  /\ BeginTerminalTurn(m, turn1) \in MortalityRuntime
         /\ CompleteTerminalTurn(m, turn1) \in MortalityRuntime
<1>1. [m EXCEPT !.phase = "TerminalInProgress", !.turn = turn1] \in MortalityRuntime
  BY DEF MortalityRuntime, MortalityPhases
<1>2. [m EXCEPT !.phase = "Dead", !.tier = "Dead"] \in MortalityRuntime
  BY DEF MortalityRuntime, MortalityPhases, MortalityTiers
<1> QED BY <1>1, <1>2 DEF BeginTerminalTurn, CompleteTerminalTurn

-----------------------------------------------------------------------------
TickRecords == [pc : {"idle", "start", "loop", "await", "turn", "report", "stuck"}, job : 0..MaxJobs,
                n : 0..MaxJobsPerTick, until : Nat, turn : Nat, last : BOOLEAN,
                error : Errors \cup {{}}]
SchedRecords == [enabled : BOOLEAN, low : BOOLEAN, tier : SurvivalTiers,
                 checks : 0 .. RecoveryChecksRequired - 1]
RuntimeRecords == [loop : BOOLEAN, lock : BOOLEAN, turns : Nat]

TicksTyped ==
  /\ ticks \in [Ticks -> TickRecords] /\ cpu \in Ticks \cup {"none"}
  /\ \A t \in Ticks : Running(t) => ticks[t].n < MaxJobsPerTick

JobsTyped == QueueTyped(q) /\ Len(q.jobs) <= MaxJobs

StateTyped ==
  /\ now \in 1..Horizon /\ faults \in 0..MaxFaults /\ limit \in LimitMin..LimitMax
  /\ sched \in SchedRecords /\ surv \in SurvivalRecords /\ mort \in MortalityRuntime
  /\ agent \in RuntimeRecords

RtTypes == TicksTyped /\ JobsTyped /\ StateTyped

\* Constants as numbers.
LEMMA RtNumbers ==
  /\ MaxJobsPerTick \in Nat /\ Horizon \in Nat \ {0} /\ MaxJobs \in Nat /\ MaxFaults \in Nat
  /\ LimitMin \in Nat /\ LimitMax \in Nat /\ LimitMin <= LimitMax
  /\ \A k \in Kinds : LeaseTtl[k] \in Nat
  BY RtAssumption, PolicyAssumption, JobsAssumption

\* A tick moves to another record.
LEMMA StepTyped ==
  ASSUME TicksTyped, NEW t \in Ticks, NEW x \in TickRecords, Step(t, x), cpu' \in Ticks \cup {"none"},
         x.pc \in {"await", "turn", "report"} => x.n < MaxJobsPerTick
  PROVE  TicksTyped'
<1>1. ticks' = [ticks EXCEPT ![t] = x] /\ ticks \in [Ticks -> TickRecords]
  BY DEF Step, TicksTyped
<1>2. ticks' \in [Ticks -> TickRecords] /\ ticks'[t] = x /\ \A u \in Ticks \ {t} : ticks'[u] = ticks[u]
  BY <1>1
<1> QED BY <1>2 DEF TicksTyped, Running

\* The fields of a tick that is not suspended.
LEMMA IdleFields ==
  ASSUME NEW pc, NEW n
  PROVE  /\ [IdleTick EXCEPT !.pc = pc, !.n = n] =
              [pc |-> pc, job |-> 0, n |-> n, until |-> 0, turn |-> 0, last |-> FALSE, error |-> {}]
         /\ [IdleTick EXCEPT !.pc = pc] =
              [pc |-> pc, job |-> 0, n |-> 0, until |-> 0, turn |-> 0, last |-> FALSE, error |-> {}]
<1>1. PICK r, a, zero, no, none :
        /\ r = IdleTick /\ zero = 0 /\ no = FALSE /\ none = {}
        /\ r = [pc |-> a, job |-> zero, n |-> zero, until |-> zero, turn |-> zero, last |-> no, error |-> none]
  <2>1. IdleTick = [pc |-> "idle", job |-> 0, n |-> 0, until |-> 0, turn |-> 0, last |-> FALSE, error |-> {}]
    BY DEF IdleTick
  <2> QED BY <2>1, Zenon
<1> DEFINE y == [r EXCEPT !.pc = pc]
           z == [y EXCEPT !.n = n]
<1>2. y = [pc |-> pc, job |-> zero, n |-> zero, until |-> zero, turn |-> zero, last |-> no, error |-> none]
  BY <1>1
<1>3. [r EXCEPT !.pc = pc, !.n = n] = z
  OBVIOUS
<1> HIDE DEF y
<1>4. z = [pc |-> pc, job |-> zero, n |-> n, until |-> zero, turn |-> zero, last |-> no, error |-> none]
  BY <1>2
<1> HIDE DEF z
<1>5. [IdleTick EXCEPT !.pc = pc, !.n = n] = z /\ [IdleTick EXCEPT !.pc = pc] = y
  BY <1>1, <1>3, Zenon DEF y
<1> QED BY <1>1, <1>2, <1>4, <1>5, Zenon

\* The ticks that are not suspended.
LEMMA IdleTyped ==
  ASSUME NEW pc \in {"idle", "start", "loop", "stuck"}, NEW n \in 0..MaxJobsPerTick
  PROVE  /\ [IdleTick EXCEPT !.pc = pc, !.n = n] \in TickRecords
         /\ [IdleTick EXCEPT !.pc = pc, !.n = n].pc = pc
<1>1. 0 \in 0..MaxJobs /\ {} \in Errors \cup {{}} /\ 0 \in Nat
  BY RtNumbers
<1> DEFINE x == [pc |-> pc, job |-> 0, n |-> n, until |-> 0, turn |-> 0, last |-> FALSE, error |-> {}]
<1>2. x \in TickRecords /\ x.pc = pc
  BY <1>1 DEF TickRecords
<1> HIDE DEF x
<1>3. [IdleTick EXCEPT !.pc = pc, !.n = n] = x
  BY IdleFields DEF x
<1> QED BY <1>2, <1>3

\* A tick that ends, begins, or gets stuck.
LEMMA EndTickTyped ==
  ASSUME TicksTyped, NEW t \in Ticks, NEW pc \in {"idle", "start", "loop", "stuck"},
         Step(t, [IdleTick EXCEPT !.pc = pc]), cpu' \in Ticks \cup {"none"}
  PROVE  TicksTyped'
<1> DEFINE x == [IdleTick EXCEPT !.pc = pc, !.n = 0]
<1>1. 0 \in 0..MaxJobsPerTick
  BY RtNumbers
<1>2. x \in TickRecords /\ x.pc = pc
  BY <1>1, IdleTyped
<1>3. [IdleTick EXCEPT !.pc = pc] = x
  BY IdleFields
<1> HIDE DEF x
<1>4. Step(t, x)
  BY <1>3
<1> QED BY <1>2, <1>4, StepTyped

\* The end of a tick.
LEMMA EndsTyped ==
  ASSUME TicksTyped, NEW t \in Ticks, EndTick(t)
  PROVE  TicksTyped'
<1>1. IdleTick = [IdleTick EXCEPT !.pc = "idle"] /\ 0 \in 0..MaxJobsPerTick
  BY RtNumbers DEF IdleTick
<1>2. Step(t, [IdleTick EXCEPT !.pc = "idle"]) /\ cpu' = "none"
  BY <1>1 DEF EndTick
<1> QED BY <1>2, EndTickTyped

\* The loop goes on to its next job: it has not had its jobs.
LEMMA NextJobTyped ==
  ASSUME TicksTyped, NEW t \in Ticks, NextJob(t), Running(t) \/ ~NothingToRun(t)
  PROVE  TicksTyped'
<1> DEFINE n == ticks[t].n + 1
           x == [IdleTick EXCEPT !.pc = "loop", !.n = n]
<1>1. ticks[t] \in TickRecords
  BY DEF TicksTyped
<1>2. ticks[t].n \in 0..MaxJobsPerTick
  BY <1>1 DEF TickRecords
<1>3. ticks[t].n # MaxJobsPerTick
  BY RtNumbers DEF TicksTyped, NothingToRun
<1>4. n \in 0..MaxJobsPerTick
  BY <1>2, <1>3, RtNumbers
<1>5. Step(t, x) /\ cpu' = t
  BY DEF NextJob
<1> HIDE DEF n
<1>6. x \in TickRecords /\ x.pc = "loop"
  BY <1>4, IdleTyped
<1> HIDE DEF x
<1> QED BY <1>5, <1>6, StepTyped

\* run_one_pending_mutating_job: the job is in flight and holds the lease.
LEMMA TakenTyped ==
  ASSUME RtInv, JobsTyped, StateTyped, NEW t \in Ticks, ~NothingToRun(t)
  PROVE  /\ QueueTyped(Taken.q) /\ Len(Taken.q.jobs) = Len(q.jobs) /\ Taken.id \in 1..Len(q.jobs)
         /\ Taken.kind \in Kinds /\ now \in Nat /\ now + LeaseTtl[Taken.kind] \in Nat
<1> DEFINE id  == NextPending(q, now)
           old == q.jobs[id]
           job == [old EXCEPT !.status = "InFlight"]
           j   == [q.jobs EXCEPT ![id] = job]
           l   == [job |-> id, until |-> now + LeaseTtl[job.kind]]
<1>1. /\ Taken.id \in 1..Len(q.jobs) /\ Taken.kind \in Kinds /\ now + LeaseTtl[Taken.kind] \in Nat
  BY TakesPending
<1>2. Taken.id = id /\ Taken.kind = old.kind
      /\ Taken.q = AcquireMutatingLease(PopPendingJob(q, id), id, now)
  BY DEF Taken
<1>3. /\ Len(q.jobs) \in Nat /\ q.jobs \in Seq(JobRecords) /\ q.task \in [Kinds -> TaskRecords]
      /\ \A k \in Kinds : q.task[k].pending <= Len(q.jobs)
      /\ old \in JobRecords /\ id \in 1..Len(q.jobs)
  BY <1>1, <1>2, QueueParts DEF JobsTyped, QueueTyped
<1> HIDE DEF id
<1>4. job \in JobRecords /\ job.kind = old.kind
  BY <1>3 DEF JobRecords, JobStatuses
<1>5. j \in Seq(JobRecords) /\ Len(j) = Len(q.jobs) /\ j[id] = job
  <2> HIDE DEF job
  <2>1. j \in Seq(JobRecords) /\ Len(j) = Len(q.jobs)
    BY <1>3, <1>4, TypedJobs
  <2> QED BY <1>3, <1>4, <2>1, ExceptSeq
<1>6. Taken.q = QueueOf(j, q.task, l)
  <2>1. PICK a, b, c : q = [jobs |-> a, task |-> b, lease |-> c]
    BY QueueParts DEF JobsTyped
  <2>2. PopPendingJob(q, id) = [jobs |-> j, task |-> b, lease |-> c]
    BY <2>1 DEF PopPendingJob
  <2> HIDE DEF j, job
  <2> QED BY <1>2, <1>5, <2>1, <2>2 DEF AcquireMutatingLease, QueueOf
<1>7. l \in [job : Nat, until : Nat] /\ l.job = id /\ id <= Len(q.jobs)
  BY <1>1, <1>2, <1>3, <1>4
<1> HIDE DEF l, j
<1> DEFINE y == Taken.q
<1> HIDE DEF y
<1>8. y = [jobs |-> j, task |-> q.task, lease |-> l] /\ y.jobs = j
  BY <1>6 DEF QueueOf, y
<1>9. QueueTyped(y)
  BY <1>3, <1>5, <1>7, <1>8, TypedQueue
<1>10. now \in Nat
  BY RtNumbers DEF StateTyped
<1> QED BY <1>1, <1>5, <1>8, <1>9, <1>10 DEF y

\* A dispatch is suspended.
LEMMA SuspendedTyped ==
  ASSUME RtInv, RtTypes, NEW t \in Ticks, ~NothingToRun(t), NEW pc \in {"await", "turn"}
  PROVE  Suspended(t, pc) \in TickRecords /\ Suspended(t, pc).n < MaxJobsPerTick
<1> DEFINE x == ticks[t]
           i == Taken.id
           w == now + LeaseTtl[Taken.kind]
<1>1. i \in 0..MaxJobs /\ w \in Nat
  <2>1. i \in 1..Len(q.jobs) /\ w \in Nat /\ Len(q.jobs) \in Nat /\ Len(q.jobs) <= MaxJobs
    BY TakenTyped, QueueParts DEF RtTypes, JobsTyped
  <2> QED BY <2>1, RtNumbers
<1>2. x \in TickRecords
  BY DEF RtTypes, TicksTyped
<1>3. x.n \in 0..MaxJobsPerTick /\ x.n # MaxJobsPerTick
  BY <1>2 DEF TickRecords, NothingToRun
<1>4. Suspended(t, pc) = [x EXCEPT !.pc = pc, !.job = i, !.until = w]
  BY DEF Suspended
<1> HIDE DEF x, i, w
<1>5. [x EXCEPT !.pc = pc, !.job = i, !.until = w] \in TickRecords
      /\ [x EXCEPT !.pc = pc, !.job = i, !.until = w].n = x.n
  BY <1>1, <1>2 DEF TickRecords
<1> QED BY <1>3, <1>4, <1>5, RtNumbers


\* What every action has at hand.
LEMMA RtParts ==
  ASSUME RtInv, RtTypes
  PROVE  /\ QueueTyped(q) /\ Len(q.jobs) \in Nat /\ Len(q.jobs) <= MaxJobs /\ now \in Nat
         /\ \A t \in Ticks : ticks[t] \in TickRecords
         /\ \A t \in Ticks : Running(t) => ticks[t].job \in 1..Len(q.jobs) /\ JobOf(t).kind \in Kinds
<1>1. QueueTyped(q) /\ Len(q.jobs) \in Nat /\ Len(q.jobs) <= MaxJobs
  BY QueueParts DEF RtTypes, JobsTyped
<1>2. now \in Nat /\ \A t \in Ticks : ticks[t] \in TickRecords
  BY RtNumbers DEF RtTypes, TicksTyped, StateTyped
<1>3. \A t \in Ticks : Running(t) => ticks[t].job \in 1..Len(q.jobs)
  BY DEF RtInv, JobsApart
<1>4. \A i \in 1..Len(q.jobs) : q.jobs[i].kind \in Kinds
  BY <1>1, QueueParts DEF JobRecords
<1> QED BY <1>1, <1>2, <1>3, <1>4 DEF JobOf

\* A tick of the dead, and the end of a tick.
LEMMA RtEndTyped ==
  ASSUME RtInv, RtTypes, NEW t \in Ticks, TickOfTheDead(t) \/ TickEnd(t)
  PROVE  RtTypes'
<1>1. EndTick(t) /\ UNCHANGED <<now, q, sched, surv, limit, mort, agent, faults>>
  BY DEF TickOfTheDead, TickEnd
<1>2. TicksTyped'
  BY <1>1, EndsTyped DEF RtTypes
<1> QED BY <1>1, <1>2 DEF RtTypes, JobsTyped, StateTyped

\* A tick recovers the lease and the lock, and materialises the due jobs.
LEMMA RtStartTyped ==
  ASSUME RtInv, RtTypes, NEW t \in Ticks, TickStart(t)
  PROVE  RtTypes'
<1> DEFINE x == RecoverStaleLease(q, now)
<1>1. QueueTyped(x) /\ Len(x.jobs) = Len(q.jobs) /\ Len(x.jobs) <= MaxJobs
  BY RtParts, RecoverTyped DEF GrowsTyped
<1> HIDE DEF x
<1>2. agent' \in RuntimeRecords
  <2>1. agent' \in {agent, [agent EXCEPT !.lock = FALSE]}
    BY DEF TickStart, RecoverOrphanedLock
  <2> QED BY <2>1 DEF RtTypes, StateTyped, RuntimeRecords
<1>3. UNCHANGED <<now, sched, surv, limit, mort, faults>>
  BY DEF TickStart
<1>4. CASE sched.enabled
  <2>1. q' = RefreshDueJobs(x, sched.low, now) /\ Len(q'.jobs) <= MaxJobs
        /\ Step(t, [IdleTick EXCEPT !.pc = "loop"]) /\ cpu' = t
    BY <1>4 DEF TickStart, x
  <2>2. QueueTyped(q')
    BY <1>1, <2>1, RtParts, RefreshTyped DEF GrowsTyped
  <2>3. TicksTyped'
    BY <2>1, EndTickTyped DEF RtTypes
  <2> QED BY <1>2, <1>3, <2>1, <2>2, <2>3 DEF RtTypes, JobsTyped, StateTyped
<1>5. CASE ~sched.enabled
  <2>1. q' = x /\ EndTick(t)
    BY <1>5 DEF TickStart, x
  <2>2. TicksTyped'
    BY <2>1, EndsTyped DEF RtTypes
  <2> QED BY <1>1, <1>2, <1>3, <2>1, <2>2 DEF RtTypes, JobsTyped, StateTyped
<1> QED BY <1>4, <1>5

\* A job that ends in the message that took it.
LEMMA RtAtOnceTyped ==
  ASSUME RtInv, RtTypes, NEW t \in Ticks, SkipBlocked(t) \/ TurnReturnsAtOnce(t)
  PROVE  RtTypes'
<1>1. ~NothingToRun(t) /\ NextJob(t) /\ UNCHANGED <<now, sched, surv, limit, mort, agent, faults>>
  BY DEF SkipBlocked, TurnReturnsAtOnce, Dispatches
<1>2. PICK status \in {"Skipped", "Succeeded"} : q' = CompleteJob(Taken.q, Taken.id, status, now, -1)
  BY DEF SkipBlocked, TurnReturnsAtOnce
<1> DEFINE x == Taken.q
           i == Taken.id
<1>3. QueueTyped(x) /\ i \in 1..Len(x.jobs) /\ Len(x.jobs) <= MaxJobs
  BY <1>1, RtParts, TakenTyped DEF RtTypes
<1> HIDE DEF x, i
<1>4. q' = CompleteJob(x, i, status, now, -1)
  BY <1>2 DEF x, i
<1>5. QueueTyped(q') /\ Len(q'.jobs) = Len(x.jobs)
  <2>1. status \in JobStatuses /\ -1 \in Nat \cup {-1}
    BY DEF JobStatuses
  <2> QED BY <1>3, <1>4, <2>1, RtParts, CompleteTyped
<1>6. TicksTyped'
  BY <1>1, NextJobTyped DEF RtTypes
<1> QED BY <1>1, <1>3, <1>5, <1>6 DEF RtTypes, JobsTyped, StateTyped

\* A dispatch that calls out.
LEMMA RtDispatchTyped ==
  ASSUME RtInv, RtTypes, NEW t \in Ticks, Dispatch(t)
  PROVE  RtTypes'
<1> DEFINE x == Suspended(t, "await")
<1>1. ~NothingToRun(t) /\ q' = Taken.q /\ Step(t, x) /\ cpu' = "none"
      /\ UNCHANGED <<now, sched, surv, limit, mort, agent, faults>>
  BY DEF Dispatch, Dispatches
<1>2. x \in TickRecords /\ x.n < MaxJobsPerTick
  BY <1>1, SuspendedTyped
<1>3. QueueTyped(q') /\ Len(q'.jobs) <= MaxJobs
  BY <1>1, RtParts, TakenTyped DEF RtTypes
<1> HIDE DEF x
<1>4. TicksTyped'
  BY <1>1, <1>2, StepTyped DEF RtTypes
<1> QED BY <1>1, <1>3, <1>4 DEF RtTypes, JobsTyped, StateTyped

\* A turn begins.
LEMMA RtBeginTyped ==
  ASSUME RtInv, RtTypes, NEW t \in Ticks, BeginTurn(t)
  PROVE  RtTypes'
<1> DEFINE turn1 == agent.turns + 1
           last == mort.phase = "TerminalPending"
           x == Suspended(t, "turn")
           y == [x EXCEPT !.turn = turn1, !.last = last]
<1>1. /\ ~NothingToRun(t) /\ q' = Taken.q /\ Step(t, y) /\ cpu' = "none"
      /\ agent' = [loop |-> agent.loop /\ ~last, lock |-> TRUE, turns |-> turn1]
      /\ mort' = BeginTerminalTurn(mort, turn1) /\ sched' = [sched EXCEPT !.enabled = @ /\ ~last]
      /\ UNCHANGED <<now, surv, limit, faults>>
  BY DEF BeginTurn, Dispatches
<1>2. x \in TickRecords /\ x.n < MaxJobsPerTick
  BY <1>1, SuspendedTyped
<1>3. QueueTyped(q') /\ Len(q'.jobs) <= MaxJobs
  BY <1>1, RtParts, TakenTyped DEF RtTypes
<1>4. turn1 \in Nat /\ agent.loop \in BOOLEAN /\ last \in BOOLEAN
  BY DEF RtTypes, StateTyped, RuntimeRecords
<1> HIDE DEF x, turn1, last
<1>5. y \in TickRecords /\ y.n = x.n
  BY <1>2, <1>4 DEF TickRecords
<1>6. mort' \in MortalityRuntime
  BY <1>1, <1>4, TerminalTyped DEF RtTypes, StateTyped
<1>7. agent' \in RuntimeRecords
  BY <1>1, <1>4 DEF RuntimeRecords
<1>8. sched' \in SchedRecords
  BY <1>1, <1>4 DEF SchedRecords, RtTypes, StateTyped
<1> HIDE DEF y
<1>9. TicksTyped'
  BY <1>1, <1>2, <1>5, StepTyped DEF RtTypes
<1> QED BY <1>1, <1>3, <1>6, <1>7, <1>8, <1>9 DEF RtTypes, JobsTyped, StateTyped

\* The survival tier that is kept and the checks it has passed.
LEMMA TierTyped ==
  ASSUME sched \in SchedRecords, NEW observed \in SurvivalTiers, SetSurvivalTier(observed)
  PROVE  sched' \in SchedRecords
<1> DEFINE tier == NextSurvivalTier(sched.tier, sched.checks, observed)
           a == tier[1]
           b == tier[2]
<1>1. sched.tier \in SurvivalTiers /\ sched.checks \in 0 .. RecoveryChecksRequired - 1
      /\ RecoveryChecksRequired \in Nat \ {0} /\ "Normal" \in SurvivalTiers
  BY DEF SchedRecords, SurvivalTiers, RecoveryChecksRequired
<1>2. \/ a = observed /\ b = 0
      \/ a = "Normal" /\ b = 0
      \/ a = sched.tier /\ b = sched.checks + 1 /\ ~(sched.checks + 1 >= RecoveryChecksRequired)
  BY DEF NextSurvivalTier
<1>3. sched' = [sched EXCEPT !.tier = a, !.checks = b, !.low = a # "Normal"]
  BY DEF SetSurvivalTier
<1> HIDE DEF tier, a, b
<1>4. a \in SurvivalTiers
  BY <1>1, <1>2
<1>5. b \in 0 .. RecoveryChecksRequired - 1
  BY <1>1, <1>2
<1> QED BY <1>3, <1>4, <1>5 DEF SchedRecords

\* run_check_cycles: the cadence, the terminal turn and the top-up, then the job is done.
LEMMA RtCheckTyped ==
  ASSUME RtInv, RtTypes, NEW t \in Ticks, CheckCycles(t)
  PROVE  RtTypes'
<1>1. ~NothingToRun(t) /\ NextJob(t) /\ UNCHANGED <<now, surv, limit, agent, faults>>
  BY DEF CheckCycles, Dispatches
<1> DEFINE taken == Taken.q
           i == Taken.id
<1>2. QueueTyped(taken) /\ i \in 1..Len(taken.jobs) /\ now \in Nat /\ Len(taken.jobs) \in Nat
  BY <1>1, RtParts, TakenTyped DEF RtTypes
<1> DEFINE M(seen) == ObserveMortality(mort, seen[2])
           Paced(seen) == IF mort.phase = "Dead" THEN taken ELSE SetCadence(taken, Cadence[M(seen).tier], now)
           Final(seen) == IF M(seen).phase = "TerminalPending"
                          THEN EnqueueJobIfAbsent(Paced(seen), "AgentTurn", <<"AgentTurn", "terminal", 0>>, now)
                          ELSE Paced(seen)
           Fed(seen, topUp) == IF topUp THEN EnqueueJobIfAbsent(Final(seen), "TopUpCycles", TopUpKey, now)
                               ELSE Final(seen)
<1>3. PICK seen \in Observations, topUp \in BOOLEAN :
        /\ Len(Fed(seen, topUp).jobs) <= MaxJobs /\ mort' = M(seen) /\ SetSurvivalTier(seen[1])
        /\ q' = CompleteJob(Fed(seen, topUp), i, "Succeeded", now, -1)
  BY DEF CheckCycles
<1> DEFINE m     == M(seen)
           paced == Paced(seen)
           final == Final(seen)
           fed   == Fed(seen, topUp)
<1>4. /\ m = ObserveMortality(mort, seen[2])
      /\ paced = IF mort.phase = "Dead" THEN taken ELSE SetCadence(taken, Cadence[m.tier], now)
      /\ final = IF m.phase = "TerminalPending"
                 THEN EnqueueJobIfAbsent(paced, "AgentTurn", <<"AgentTurn", "terminal", 0>>, now)
                 ELSE paced
      /\ fed = IF topUp THEN EnqueueJobIfAbsent(final, "TopUpCycles", TopUpKey, now) ELSE final
      /\ Len(fed.jobs) <= MaxJobs /\ mort' = m /\ SetSurvivalTier(seen[1])
      /\ q' = CompleteJob(fed, i, "Succeeded", now, -1)
  BY <1>3
<1> HIDE DEF M, Paced, Final, Fed, m, paced, final, fed
<1> HIDE DEF taken, i
<1>5. seen[1] \in SurvivalTiers /\ seen[2] \in MortalityTiers
  BY RtAssumption
<1>6. m \in MortalityRuntime /\ m.tier \in MortalityTiers
  <2>1. m \in MortalityRuntime
    BY <1>4, <1>5, ObserveTyped DEF RtTypes, StateTyped
  <2> QED BY <2>1 DEF MortalityRuntime
<1>7. sched' \in SchedRecords
  BY <1>4, <1>5, TierTyped DEF RtTypes, StateTyped
<1>8. GrowsTyped(taken, paced)
  <2>1. Cadence[m.tier] \in Nat
    BY <1>6, RtAssumption
  <2>2. GrowsTyped(taken, SetCadence(taken, Cadence[m.tier], now))
    BY <1>2, <2>1, CadenceTyped
  <2>3. GrowsTyped(taken, taken)
    BY <1>2 DEF GrowsTyped
  <2> QED BY <1>4, <2>2, <2>3
<1>9. QueueTyped(final) /\ Len(paced.jobs) <= Len(final.jobs) /\ GrowsTyped(paced, final)
  <2>1. "AgentTurn" \in Kinds /\ "terminal" \in WakeKeys \cup {"slot", "terminal", "singleton"} /\ 0 \in Nat
    BY DEF Kinds
  <2>2. QueueTyped(paced) /\ Len(paced.jobs) \in Nat
    BY <1>8, QueueParts DEF GrowsTyped
  <2>3. GrowsTyped(paced, EnqueueJobIfAbsent(paced, "AgentTurn", <<"AgentTurn", "terminal", 0>>, now))
    BY <1>2, <2>1, <2>2, EnqueueTyped
  <2>4. GrowsTyped(paced, paced)
    BY <2>2 DEF GrowsTyped
  <2>5. GrowsTyped(paced, final)
    BY <1>4, <2>3, <2>4
  <2> QED BY <2>5 DEF GrowsTyped
<1>10. GrowsTyped(final, fed)
  <2>1. "TopUpCycles" \in Kinds /\ "singleton" \in WakeKeys \cup {"slot", "terminal", "singleton"} /\ 0 \in Nat
        /\ TopUpKey = <<"TopUpCycles", "singleton", 0>>
    BY DEF Kinds, TopUpKey
  <2>2. GrowsTyped(final, EnqueueJobIfAbsent(final, "TopUpCycles", TopUpKey, now))
    BY <1>2, <1>9, <2>1, EnqueueTyped
  <2>3. GrowsTyped(final, final)
    BY <1>9, QueueParts DEF GrowsTyped
  <2> QED BY <1>4, <2>2, <2>3
<1>11. QueueTyped(fed) /\ i \in 1..Len(fed.jobs)
  <2>1. GrowsTyped(taken, fed)
    BY <1>2, <1>8, <1>9, <1>10, GrowsTypedTwice
  <2>2. Len(fed.jobs) \in Nat /\ Len(taken.jobs) <= Len(fed.jobs)
    BY <2>1, QueueParts DEF GrowsTyped
  <2> QED BY <1>2, <2>1, <2>2 DEF GrowsTyped
<1>12. QueueTyped(q') /\ Len(q'.jobs) = Len(fed.jobs)
  <2>1. "Succeeded" \in JobStatuses /\ -1 \in Nat \cup {-1}
    BY DEF JobStatuses
  <2> QED BY <1>2, <1>4, <1>11, <2>1, CompleteTyped
<1>13. TicksTyped'
  BY <1>1, NextJobTyped DEF RtTypes
<1> QED BY <1>1, <1>4, <1>6, <1>7, <1>12, <1>13 DEF RtTypes, JobsTyped, StateTyped

\* complete_job after a dispatch, with the decision about its error.
LEMMA CompleteDispatchTyped ==
  ASSUME RtInv, RtTypes, NEW t \in Ticks, Running(t), NEW error, CompleteDispatch(t, error)
  PROVE  JobsTyped' /\ limit' \in LimitMin..LimitMax
<1> DEFINE job == JobOf(t)
           r == Recovery(job, error)
           i == ticks[t].job
<1>1. QueueTyped(q) /\ i \in 1..Len(q.jobs) /\ job.kind \in Kinds /\ now \in Nat
      /\ limit \in LimitMin..LimitMax /\ Len(q.jobs) <= MaxJobs
  BY RtParts DEF RtTypes, StateTyped
<1> HIDE DEF job, i
<1>2. r.status \in JobStatuses /\ r.retry \in Nat \cup {-1} /\ r.limit \in LimitMin..LimitMax
  BY <1>1, RecoveryTyped
<1>3. \/ q' = CompleteJob(q, i, "Succeeded", now, -1) /\ limit' = limit
      \/ q' = CompleteJob(q, i, r.status, now, r.retry) /\ limit' = r.limit
  BY DEF CompleteDispatch, i, job
<1>4. "Succeeded" \in JobStatuses /\ -1 \in Nat \cup {-1}
  BY DEF JobStatuses
<1> HIDE DEF r
<1>5. QueueTyped(q') /\ Len(q'.jobs) = Len(q.jobs)
  <2>1. CASE q' = CompleteJob(q, i, "Succeeded", now, -1)
    BY <1>1, <1>4, <2>1, CompleteTyped
  <2>2. CASE q' = CompleteJob(q, i, r.status, now, r.retry)
    BY <1>1, <1>2, <2>2, CompleteTyped
  <2> QED BY <1>3, <2>1, <2>2
<1> QED BY <1>1, <1>2, <1>3, <1>5 DEF JobsTyped

\* A dispatch comes back.
LEMMA RtReturnsTyped ==
  ASSUME RtInv, RtTypes, NEW t \in Ticks, DispatchReturns(t)
  PROVE  RtTypes'
<1>1. Running(t) /\ NextJob(t) /\ UNCHANGED <<now, sched, mort, agent, faults>>
  BY DEF DispatchReturns, Running
<1>2. PICK error : CompleteDispatch(t, error) /\ surv' = NoteSurvival(JobOf(t).kind, error)
  BY DEF DispatchReturns
<1>3. surv' \in SurvivalRecords
  BY <1>2, RtParts, SurvivalTyped DEF RtTypes, StateTyped
<1>4. JobsTyped' /\ limit' \in LimitMin..LimitMax
  BY <1>1, <1>2, CompleteDispatchTyped
<1>5. TicksTyped'
  BY <1>1, NextJobTyped DEF RtTypes
<1> QED BY <1>1, <1>3, <1>4, <1>5 DEF RtTypes, StateTyped

\* A top-up that waits enqueues its continuation.
LEMMA RtTopUpTyped ==
  ASSUME RtInv, RtTypes, NEW t \in Ticks, TopUpWaits(t)
  PROVE  RtTypes'
<1> DEFINE done == CompleteJob(q, ticks[t].job, "Succeeded", now, -1)
           at == now + q.task["TopUpCycles"].interval
<1>1. /\ Running(t) /\ NextJob(t) /\ UNCHANGED <<now, sched, surv, limit, mort, agent, faults>>
      /\ q' = EnqueueJobIfAbsent(done, "TopUpCycles", TopUpKey, at) /\ Len(q'.jobs) <= MaxJobs
  BY DEF TopUpWaits, Running
<1>2. QueueTyped(done)
  <2>1. "Succeeded" \in JobStatuses /\ -1 \in Nat \cup {-1}
    BY DEF JobStatuses
  <2> QED BY <1>1, <2>1, RtParts, CompleteTyped
<1>3. at \in Nat
  <2>1. "TopUpCycles" \in Kinds /\ q.task \in [Kinds -> TaskRecords]
    BY RtParts, QueueParts DEF Kinds
  <2>2. q.task["TopUpCycles"] \in TaskRecords
    BY <2>1
  <2>3. q.task["TopUpCycles"].interval \in Nat
    BY <2>2, TaskFields
  <2> QED BY <2>3, RtParts
<1> HIDE DEF done, at
<1>4. QueueTyped(q')
  <2>1. "TopUpCycles" \in Kinds /\ "singleton" \in WakeKeys \cup {"slot", "terminal", "singleton"} /\ 0 \in Nat
        /\ TopUpKey = <<"TopUpCycles", "singleton", 0>>
    BY DEF Kinds, TopUpKey
  <2>2. GrowsTyped(done, EnqueueJobIfAbsent(done, "TopUpCycles", TopUpKey, at))
    BY <1>2, <1>3, <2>1, EnqueueTyped
  <2> QED BY <1>1, <2>2 DEF GrowsTyped
<1>5. TicksTyped'
  BY <1>1, NextJobTyped DEF RtTypes
<1> QED BY <1>1, <1>4, <1>5 DEF RtTypes, JobsTyped, StateTyped

\* A turn comes back; the terminal one goes on to its report.
LEMMA RtTurnTyped ==
  ASSUME RtInv, RtTypes, NEW t \in Ticks, TurnReturns(t)
  PROVE  RtTypes'
<1>1. Running(t) /\ UNCHANGED <<now, sched, mort, faults>>
  BY DEF TurnReturns, Running
<1>2. agent' \in RuntimeRecords
  <2>1. agent' \in {agent, [agent EXCEPT !.lock = FALSE]}
    BY DEF TurnReturns, CompleteTurn
  <2> QED BY <2>1 DEF RtTypes, StateTyped, RuntimeRecords
<1>3. PICK error \in Errors \cup {{}} :
        /\ surv' = NoteSurvival("AgentTurn", error)
        /\ \/ /\ Step(t, [ticks[t] EXCEPT !.pc = "report", !.error = error])
              /\ UNCHANGED <<cpu, q, limit>>
           \/ CompleteDispatch(t, error) /\ NextJob(t)
  BY DEF TurnReturns
<1>4. surv' \in SurvivalRecords
  BY <1>3, RtParts, SurvivalTyped DEF RtTypes, StateTyped
<1>5. CASE Step(t, [ticks[t] EXCEPT !.pc = "report", !.error = error]) /\ UNCHANGED <<cpu, q, limit>>
  <2> DEFINE x == ticks[t]
             y == [x EXCEPT !.pc = "report", !.error = error]
  <2>1. x \in TickRecords /\ x.n < MaxJobsPerTick /\ cpu' \in Ticks \cup {"none"}
    BY <1>1, <1>5, RtParts DEF RtTypes, TicksTyped
  <2>2. Step(t, y)
    BY <1>5
  <2> HIDE DEF x
  <2>3. y \in TickRecords /\ y.n = x.n
    BY <2>1 DEF TickRecords
  <2> HIDE DEF y
  <2>4. TicksTyped'
    BY <2>1, <2>2, <2>3, StepTyped DEF RtTypes
  <2> QED BY <1>1, <1>2, <1>4, <1>5, <2>4 DEF RtTypes, JobsTyped, StateTyped
<1>6. CASE CompleteDispatch(t, error) /\ NextJob(t)
  <2>1. JobsTyped' /\ limit' \in LimitMin..LimitMax
    BY <1>1, <1>6, CompleteDispatchTyped
  <2>2. TicksTyped'
    BY <1>1, <1>6, NextJobTyped DEF RtTypes
  <2> QED BY <1>1, <1>2, <1>4, <2>1, <2>2 DEF RtTypes, StateTyped
<1> QED BY <1>3, <1>5, <1>6

\* The terminal turn is reported.
LEMMA RtDieTyped ==
  ASSUME RtInv, RtTypes, NEW t \in Ticks, Die(t)
  PROVE  RtTypes'
<1>1. Running(t) /\ NextJob(t) /\ CompleteDispatch(t, ticks[t].error) /\ UNCHANGED <<now, surv, faults>>
      /\ mort' = CompleteTerminalTurn(mort, ticks[t].turn)
  BY DEF Die, Running
<1>2. agent' \in RuntimeRecords
  <2>1. agent' \in {agent, [agent EXCEPT !.loop = FALSE, !.lock = FALSE]}
    BY DEF Die
  <2> QED BY <2>1 DEF RtTypes, StateTyped, RuntimeRecords
<1>3. sched' \in SchedRecords
  <2>1. sched' \in {sched, [sched EXCEPT !.enabled = FALSE]}
    BY DEF Die
  <2> QED BY <2>1 DEF RtTypes, StateTyped, SchedRecords
<1>4. mort' \in MortalityRuntime
  <2>1. ticks[t].turn \in Nat
    BY RtParts DEF TickRecords
  <2> QED BY <1>1, <2>1, TerminalTyped DEF RtTypes, StateTyped
<1>5. JobsTyped' /\ limit' \in LimitMin..LimitMax
  BY <1>1, CompleteDispatchTyped
<1>6. TicksTyped'
  BY <1>1, NextJobTyped DEF RtTypes
<1> QED BY <1>1, <1>2, <1>3, <1>4, <1>5, <1>6 DEF RtTypes, StateTyped

\* An endpoint wakes the scheduler.
LEMMA RtWakeTyped ==
  ASSUME RtInv, RtTypes, NEW key \in WakeKeys, Wake(key)
  PROVE  RtTypes'
<1> DEFINE name == <<"AgentTurn", key, 0>>
<1>1. q' = EnqueueJobIfAbsent(q, "AgentTurn", name, now) /\ Len(q.jobs) < MaxJobs
      /\ UNCHANGED <<now, sched, surv, limit, mort, agent, faults>>
  BY DEF Wake
<1>2. QueueTyped(q') /\ Len(q'.jobs) <= MaxJobs
  <2>1. "AgentTurn" \in Kinds /\ key \in WakeKeys \cup {"slot", "terminal", "singleton"} /\ 0 \in Nat
    BY DEF Kinds
  <2>2. QueueTyped(q')
    BY <1>1, <2>1, RtParts, EnqueueTyped DEF GrowsTyped
  <2>3. Len(q'.jobs) <= Len(q.jobs) + 1
    BY <1>1, RtParts, EnqueuesOne
  <2>4. Len(q'.jobs) \in Nat
    BY <2>2, QueueParts
  <2> QED BY <1>1, <2>2, <2>3, <2>4, RtParts, RtNumbers
<1>3. TicksTyped'
  <2>1. \/ Step("wake", [IdleTick EXCEPT !.pc = "start"]) /\ cpu' = "wake"
        \/ UNCHANGED <<ticks, cpu>>
    BY DEF Wake
  <2>2. "wake" \in Ticks
    BY DEF Ticks
  <2>3. CASE Step("wake", [IdleTick EXCEPT !.pc = "start"]) /\ cpu' = "wake"
    BY <2>2, <2>3, EndTickTyped DEF RtTypes
  <2>4. CASE UNCHANGED <<ticks, cpu>>
    BY <2>4 DEF RtTypes, TicksTyped, Running
  <2> QED BY <2>1, <2>3, <2>4
<1> QED BY <1>1, <1>2, <1>3 DEF RtTypes, JobsTyped, StateTyped

\* Time, traps, upgrades and controllers.
LEMMA RtEnvironmentTyped ==
  ASSUME RtInv, RtTypes, AdvanceTime \/ Upgrade \/ ControllerCall \/ \E t \in Ticks : Trap(t)
  PROVE  RtTypes'
<1>1. CASE AdvanceTime
  <2>1. now < Horizon /\ now' = now + 1 /\ UNCHANGED <<cpu, ticks, q, sched, surv, limit, mort, agent, faults>>
    BY <1>1 DEF AdvanceTime
  <2>2. now' \in 1..Horizon
    BY <2>1, RtNumbers DEF RtTypes, StateTyped
  <2> QED BY <2>1, <2>2 DEF RtTypes, TicksTyped, Running, JobsTyped, StateTyped
<1>2. faults < MaxFaults /\ faults' = faults + 1 => faults' \in 0..MaxFaults
  BY RtNumbers DEF RtTypes, StateTyped
<1>3. CASE Upgrade
  <2>1. /\ faults' \in 0..MaxFaults /\ ticks' = [t \in Ticks |-> IdleTick]
        /\ UNCHANGED <<now, cpu, q, sched, surv, limit, mort, agent>>
    BY <1>2, <1>3 DEF Upgrade
  <2>2. IdleTick \in TickRecords /\ IdleTick.pc = "idle"
    <3>1. 0 \in 0..MaxJobs /\ 0 \in 0..MaxJobsPerTick /\ {} \in Errors \cup {{}}
      BY RtNumbers
    <3> QED BY <3>1 DEF IdleTick, TickRecords
  <2>3. TicksTyped'
    BY <2>1, <2>2 DEF RtTypes, TicksTyped, Running
  <2> QED BY <2>1, <2>3 DEF RtTypes, JobsTyped, StateTyped
<1>4. CASE ControllerCall
  <2>1. faults' \in 0..MaxFaults /\ UNCHANGED <<now, cpu, ticks, surv, limit, mort>>
    BY <1>2, <1>4 DEF ControllerCall
  <2>2. \/ \E k \in EnabledKinds, b \in BOOLEAN : q' = SetTaskEnabled(q, k, b)
        \/ q' = q
    BY <1>4 DEF ControllerCall
  <2>3. JobsTyped'
    <3>1. CASE q' = q
      BY <3>1 DEF RtTypes, JobsTyped
    <3>2. CASE \E k \in EnabledKinds, b \in BOOLEAN : q' = SetTaskEnabled(q, k, b)
      <4>1. PICK k \in EnabledKinds, b \in BOOLEAN : q' = SetTaskEnabled(q, k, b)
        BY <3>2
      <4>2. k \in Kinds
        BY RtAssumption
      <4> QED BY <4>1, <4>2, RtParts, SetTaskTyped DEF JobsTyped
    <3> QED BY <2>2, <3>1, <3>2
  <2>4. sched' \in SchedRecords
    <3>1. sched' \in {sched, [sched EXCEPT !.enabled = ~sched.enabled]}
      BY <1>4 DEF ControllerCall
    <3> QED BY <3>1 DEF RtTypes, StateTyped, SchedRecords
  <2>5. agent' \in RuntimeRecords
    <3>1. agent' \in {agent, [agent EXCEPT !.loop = ~agent.loop]}
      BY <1>4 DEF ControllerCall
    <3> QED BY <3>1 DEF RtTypes, StateTyped, RuntimeRecords
  <2> QED BY <2>1, <2>3, <2>4, <2>5 DEF RtTypes, TicksTyped, Running, StateTyped
<1>5. CASE \E t \in Ticks : Trap(t)
  <2>1. PICK t \in Ticks : Trap(t)
    BY <1>5
  <2>2. /\ faults' \in 0..MaxFaults /\ UNCHANGED <<now, cpu, q, sched, surv, limit, mort, agent>>
        /\ Step(t, IF t = "wake" THEN [IdleTick EXCEPT !.pc = "stuck"] ELSE IdleTick)
    BY <1>2, <2>1 DEF Trap
  <2>3. IdleTick = [IdleTick EXCEPT !.pc = "idle"]
    BY DEF IdleTick
  <2>4. PICK pc \in {"idle", "stuck"} : Step(t, [IdleTick EXCEPT !.pc = pc])
    BY <2>2, <2>3, Zenon
  <2>5. cpu' \in Ticks \cup {"none"}
    BY <2>2 DEF RtTypes, TicksTyped
  <2>6. TicksTyped'
    BY <2>4, <2>5, EndTickTyped DEF RtTypes
  <2> QED BY <2>2, <2>6 DEF RtTypes, JobsTyped, StateTyped
<1> QED BY <1>1, <1>3, <1>4, <1>5

\* A new automaton: every task is scheduled, nothing is under way.
LEMMA RtInitTyped == RtInit => RtTypes
<1> SUFFICES ASSUME RtInit PROVE RtTypes
  OBVIOUS
<1>1. TicksTyped
  <2>1. IdleTick \in TickRecords /\ IdleTick.pc = "idle"
    <3>1. 0 \in 0..MaxJobs /\ 0 \in 0..MaxJobsPerTick /\ {} \in Errors \cup {{}}
      BY RtNumbers
    <3> QED BY <3>1 DEF IdleTick, TickRecords
  <2>2. ticks = [t \in Ticks |-> IdleTick] /\ cpu = "none"
    BY DEF RtInit
  <2> QED BY <2>1, <2>2 DEF TicksTyped, Running
<1>2. JobsTyped
  <2> DEFINE c == Cadence["Active"]
             task(k) == [enabled |-> k \in EnabledKinds, interval |-> c,
                         due |-> IF k = "PollInbox" THEN 1 ELSE 1 + c,
                         backoff |-> 0, failures |-> 0, pending |-> 0]
             f == [k \in Kinds |-> task(k)]
  <2>1. q = [jobs |-> <<>>, lease |-> NoLease, task |-> f]
    BY DEF RtInit
  <2>2. c \in Nat
    BY RtAssumption DEF MortalityTiers
  <2> HIDE DEF c
  <2>3. \A k \in Kinds : task(k) \in TaskRecords /\ task(k).pending = 0
    BY <2>2 DEF TaskRecords
  <2> HIDE DEF task
  <2>4. f \in [Kinds -> TaskRecords] /\ \A k \in Kinds : f[k].pending <= 0
    BY <2>3
  <2> HIDE DEF f
  <2>5. NoLease \in [job : Nat, until : Nat] /\ NoLease.job <= 0
    BY DEF NoLease
  <2>6. <<>> \in Seq(JobRecords) /\ Len(<<>>) = 0
    BY EmptySeq
  <2>7. QueueTyped(q)
    BY <2>1, <2>4, <2>5, <2>6, TypedQueue
  <2>8. q.jobs = <<>>
    BY <2>1
  <2> QED BY <2>6, <2>7, <2>8, RtNumbers DEF JobsTyped
<1>3. StateTyped
  <2>1. now \in 1..Horizon /\ faults \in 0..MaxFaults /\ limit \in LimitMin..LimitMax
    BY RtNumbers DEF RtInit
  <2>2. sched \in SchedRecords
    BY DEF RtInit, SchedRecords, SurvivalTiers, RecoveryChecksRequired
  <2>3. surv \in SurvivalRecords
    BY DEF RtInit, SurvivalRecords
  <2>4. mort \in MortalityRuntime
    BY DEF RtInit, Newborn, MortalityRuntime, MortalityTiers, MortalityPhases, MortalityRecoveryChecks
  <2>5. agent \in RuntimeRecords
    BY DEF RtInit, RuntimeRecords
  <2> QED BY <2>1, <2>2, <2>3, <2>4, <2>5 DEF StateTyped
<1> QED BY <1>1, <1>2, <1>3 DEF RtTypes

\* Every step of the scheduler.
LEMMA RtTypesStep == RtInv /\ RtTypes /\ [RtNext]_rtVars => RtTypes'
<1> SUFFICES ASSUME RtInv, RtTypes, [RtNext]_rtVars PROVE RtTypes'
  OBVIOUS
<1>1. CASE UNCHANGED rtVars
  BY <1>1 DEF rtVars, RtTypes, TicksTyped, Running, JobsTyped, StateTyped
<1>2. CASE RtNext
  <2>1. CASE AdvanceTime \/ Upgrade \/ ControllerCall
    BY <2>1, RtEnvironmentTyped
  <2>2. CASE \E key \in WakeKeys : Wake(key)
    BY <2>2, RtWakeTyped
  <2>3. ASSUME NEW t \in Ticks,
               \/ TickOfTheDead(t) \/ TickStart(t) \/ TickEnd(t) \/ SkipBlocked(t)
               \/ Dispatch(t) \/ TurnReturnsAtOnce(t) \/ BeginTurn(t) \/ CheckCycles(t)
               \/ DispatchReturns(t) \/ TopUpWaits(t) \/ TurnReturns(t) \/ Die(t) \/ Trap(t)
        PROVE  RtTypes'
    BY <2>3, RtEndTyped, RtStartTyped, RtAtOnceTyped, RtDispatchTyped, RtBeginTyped, RtCheckTyped,
       RtReturnsTyped, RtTopUpTyped, RtTurnTyped, RtDieTyped, RtEnvironmentTyped
  <2> QED BY <1>2, <2>1, <2>2, <2>3 DEF RtNext
<1> QED BY <1>1, <1>2

\* The lease, the schedules and the suspended dispatches name jobs that exist, and no tick takes
\* more jobs than MAX_MUTATING_JOBS_PER_TICK, however its dispatches interleave with the other's.
THEOREM RtTyped == RtSpec => []RtTypeOK
<1>1. RtInv /\ RtTypes => RtTypeOK
  <2> SUFFICES ASSUME RtInv, RtTypes PROVE RtTypeOK
    OBVIOUS
  <2>1. QueueTyped(q) /\ Len(q.jobs) \in Nat /\ Len(q.jobs) <= MaxJobs /\ MaxJobs \in Nat
    BY RtParts, RtNumbers
  <2>2. q.jobs \in Seq(JobRecords) /\ q.task \in [Kinds -> TaskRecords] /\ q.lease \in [job : Nat, until : Nat]
    BY <2>1, QueueParts
  <2>3. q.lease \in [job : 0..MaxJobs, until : Nat]
    BY <2>1, <2>2 DEF QueueTyped
  <2>4. \A k \in Kinds : q.task[k] \in [enabled : BOOLEAN, interval : Nat, due : Nat, backoff : Nat,
                                         failures : Nat, pending : 0..MaxJobs]
    <3> TAKE k \in Kinds
    <3> DEFINE x == q.task[k]
    <3>1. x \in TaskRecords /\ x.pending <= Len(q.jobs)
      BY <2>1, <2>2 DEF QueueTyped
    <3> HIDE DEF x
    <3>2. x.pending \in 0..MaxJobs
      BY <2>1, <3>1, TaskFields
    <3>3. x \in [enabled : BOOLEAN, interval : Nat, due : Nat, backoff : Nat,
                 failures : Nat, pending : 0..MaxJobs]
      BY <3>1, <3>2 DEF TaskRecords
    <3> QED BY <3>3 DEF x
  <2>5. q.task \in [Kinds -> [enabled : BOOLEAN, interval : Nat, due : Nat, backoff : Nat,
                              failures : Nat, pending : 0..MaxJobs]]
    BY <2>2, <2>4
  <2> QED BY <2>2, <2>3, <2>5 DEF RtTypeOK, RtTypes, TicksTyped, StateTyped, TickRecords, JobRecords,
                                  SchedRecords, SurvivalRecords, RuntimeRecords
<1>2. RtInit => RtInv /\ RtTypes
  BY RtInitInv, RtInitTyped
<1>3. RtInv /\ RtTypes /\ [RtNext]_rtVars => RtInv' /\ RtTypes'
  BY RtStep, RtTypesStep
<1> QED BY <1>1, <1>2, <1>3, PTL DEF RtSpec

(***************************************************************************)
(* Executions of strategies.  Rows, the snapshots of the turns and of the  *)
(* reconciliations, and the transactions stay in order (SendsInv), and the *)
(* books follow the rows (BooksInv).                                       *)
(***************************************************************************)
\* The rows observed before any.
Unseen == [known |-> FALSE, amount |-> 0, error |-> FALSE]

\* Observing the first rows one after the other is well defined.
LEMMA ObserveDefined ==
  ASSUME NEW all, Len(created) \in Nat
  PROVE  /\ ObserveFirst(all)[0] = Unseen
         /\ \A n \in 1..Len(created) :
              ObserveFirst(all)[n] = ObserveRow(all, ObserveFirst(all)[n - 1], created[n])
<1> DEFINE L == Len(created)
           RowStep(f, n) == IF n = 0 THEN Unseen ELSE ObserveRow(all, f[n - 1], created[n])
           Good(k, f) == f = [n \in 0..k |-> RowStep(f, n)]
           S == {k \in Nat : ~ \E f : Good(k, f)}
<1>1. S = {}
  <2> SUFFICES ASSUME S # {} PROVE FALSE
    OBVIOUS
  <2>1. PICK x \in S : \A y \in S : x <= y
    BY LeastNat
  <2>2. x \in Nat /\ ~ \E f : Good(x, f)
    BY <2>1
  <2>3. x # 0
    <3>1. Good(0, [n \in 0..0 |-> Unseen])
      OBVIOUS
    <3> QED BY <2>2, <3>1
  <2>4. x - 1 \in Nat /\ x - 1 \notin S
    BY <2>1, <2>2, <2>3
  <2>5. PICK f : Good(x - 1, f)
    BY <2>4
  <2> DEFINE g == [n \in 0..x |-> RowStep(f, n)]
  <2>6. \A n \in 0 .. x - 1 : g[n] = f[n]
    <3>1. \A n \in 0 .. x - 1 : f[n] = RowStep(f, n)
      BY <2>5
    <3>2. \A n \in 0 .. x - 1 : n \in 0..x
      BY <2>2
    <3> HIDE DEF RowStep
    <3> QED BY <3>1, <3>2
  <2>7. \A n \in 0..x : RowStep(g, n) = RowStep(f, n)
    <3>1. \A n \in 0..x : n # 0 => n - 1 \in 0 .. x - 1
      BY <2>2
    <3>2. \A n \in 0..x : n # 0 => g[n - 1] = f[n - 1]
      BY <2>6, <3>1
    <3> HIDE DEF g
    <3> QED BY <3>2
  <2>8. Good(x, g)
    <3> HIDE DEF RowStep
    <3> QED BY <2>7
  <2> QED BY <2>2, <2>8
<1>2. \E f : Good(L, f)
  BY <1>1
<1>3. ObserveFirst(all) = CHOOSE f : Good(L, f)
  BY DEF ObserveFirst, Unseen
<1>4. Good(L, ObserveFirst(all))
  <2> HIDE DEF Good
  <2> QED BY <1>2, <1>3
<1> DEFINE h == ObserveFirst(all)
<1>5. \A n \in 0..L : h[n] = RowStep(h, n)
  <2> HIDE DEF RowStep, h
  <2> QED BY <1>4 DEF h
<1>6. 0 \in 0..L /\ \A n \in 1..L : n \in 0..L /\ n # 0
  OBVIOUS
<1> HIDE DEF h
<1> QED BY <1>5, <1>6 DEF h

-----------------------------------------------------------------------------
\* The row of an execution, once it was created.
RowsOf(d) == [state : RowStates, call : [CallsOf(d) -> CallStates], tx : [CallsOf(d) -> Nat]]

AnyRow == {NoRow} \cup UNION {RowsOf(d) : d \in Ids}

TxRecords == [id : Ids, call : Nat, status : {"pending", "mined", "reverted"}, raced : BOOLEAN]

RunnerRecords ==
  [live : BOOLEAN, simulated : SUBSET Plans, id : Ids \cup {NoId}, row : AnyRow, fresh : BOOLEAN]

ScanRecords == [on : BOOLEAN, left : SUBSET Ids, fresh : SUBSET Ids, snap : [Ids -> AnyRow]]

Open == {"None", "Pending"}

\* A call with a receipt has a transaction, and a confirmed one was mined: of a row x of d,
\* with the transactions T.
RowOk(d, x, T) ==
  /\ x \in RowsOf(d) /\ x.state # "None"
  /\ \A i \in CallsOf(d) : x.call[i] \in {"Submitted", "Confirmed"} => x.tx[i] \in 1..Len(T)
  /\ \A i \in CallsOf(d) : x.call[i] = "Confirmed" => T[x.tx[i]].status = "mined"
  /\ x.state = "Confirmed" => \A i \in CallsOf(d) : x.call[i] = "Confirmed"

RowsOk(R, T) == R \in [Ids -> AnyRow] /\ \A d \in Ids : R[d] = NoRow \/ RowOk(d, R[d], T)

\* A turn sends for executions of its own; its snapshot is the row as long as it is fresh.
RunnersOk(W, R, T) ==
  /\ W \in [StrategyTurns -> RunnerRecords]
  /\ \A t \in StrategyTurns : W[t].id # NoId =>
       /\ W[t].id[1] = t /\ RowOk(W[t].id, W[t].row, T) /\ NextCall(W[t].row) # 0 /\ W[t].row.state = "Pending"
       /\ R[W[t].id].state # "None" /\ (W[t].fresh => W[t].row = R[W[t].id])

ScansOk(S, R, T) ==
  /\ S \in [Scans -> ScanRecords]
  /\ \A r \in Scans : S[r].fresh \subseteq S[r].left
  /\ \A r \in Scans : \A d \in S[r].left :
       RowOk(d, S[r].snap[d], T) /\ S[r].snap[d].state = "Pending" /\ R[d].state # "None"
  /\ \A r \in Scans : \A d \in S[r].fresh : S[r].snap[d] = R[d]

\* Transaction k of T is one for d that the row knows of, or that ended it.
Counts(T, k, d) == k \in 1..Len(T) /\ T[k].id = d /\ ~ T[k].raced

\* What was sent for an open execution, or one that is being sent, has its hash there.
SendsOk(R, W, T) ==
  /\ T \in Seq(TxRecords)
  /\ \A t \in StrategyTurns : W[t].id # NoId => \A k : Counts(T, k, W[t].id) =>
       T[k].call \in CallsOf(W[t].id) /\ W[t].row.tx[T[k].call] # 0
  /\ \A d \in Ids : R[d].state \in Open => \A k : Counts(T, k, d) =>
       R[d].state = "Pending" /\ T[k].call \in CallsOf(d) /\ R[d].tx[T[k].call] # 0
  /\ \A d \in Ids : \A k, m : Counts(T, k, d) /\ Counts(T, m, d) /\ T[k].call = T[m].call => k = m

SendInv(R, W, S, T) == RowsOk(R, T) /\ RunnersOk(W, R, T) /\ ScansOk(S, R, T) /\ SendsOk(R, W, T)

\* Constants as numbers.
LEMMA StrategyNumbers ==
  /\ \A d \in Ids : d[1] \in StrategyTurns /\ d[2] \in Plans /\ CallCount[d[2]] \in Nat /\ CallCount[d[2]] > 0
  /\ \A d \in Ids : CallsOf(d) \subseteq Nat /\ 1 \in CallsOf(d)
  /\ NoId \notin Ids /\ StrategyTurns \subseteq Nat /\ \A t \in StrategyTurns : t # 0
<1>1. \A d \in Ids : d[1] \in StrategyTurns /\ d[2] \in Plans
  BY DEF Ids
<1>2. \A z \in Plans : CallCount[z] \in Nat /\ CallCount[z] > 0
  BY StrategyAssumption DEF Plans
<1>3. StrategyTurns \subseteq Nat /\ \A t \in StrategyTurns : t # 0
  BY StrategyAssumption DEF StrategyTurns
<1>4. NoId \notin Ids
  BY <1>1, <1>3 DEF NoId
<1>5. \A d \in Ids : CallsOf(d) \subseteq Nat /\ 1 \in CallsOf(d)
  BY <1>1, <1>2 DEF CallsOf
<1> QED BY <1>1, <1>2, <1>3, <1>4, <1>5

\* What a row may be.
LEMMA AnyRows ==
  /\ NoRow \in AnyRow /\ NoRow.state = "None"
  /\ \A d \in Ids : RowsOf(d) \subseteq AnyRow
<1>1. \A d \in Ids : \A x \in RowsOf(d) : x \in AnyRow
  BY DEF AnyRow
<1> QED BY <1>1 DEF AnyRow, NoRow

\* The first call that was not sent.
LEMMA NextCallIs ==
  ASSUME NEW d \in Ids, NEW x \in RowsOf(d)
  PROVE  /\ NextCall(x) # 0 => NextCall(x) \in CallsOf(d) /\ x.tx[NextCall(x)] = 0
         /\ DOMAIN x.tx = CallsOf(d) /\ DOMAIN x.call = CallsOf(d)
<1> DEFINE unsent == {i \in DOMAIN x.tx : x.tx[i] = 0}
<1>1. x.tx \in [CallsOf(d) -> Nat] /\ x.call \in [CallsOf(d) -> CallStates]
  BY DEF RowsOf
<1>2. unsent \in SUBSET Nat
  BY <1>1, StrategyNumbers
<1>3. NextCall(x) # 0 => unsent # {} /\ NextCall(x) = Min(unsent)
  BY DEF NextCall
<1>4. unsent # {} => Min(unsent) \in unsent
  BY <1>2, MinIsLeast
<1> QED BY <1>1, <1>3, <1>4

\* Transactions are added and mined, never taken back.
Later(T, U) ==
  /\ Len(T) \in Nat /\ Len(U) \in Nat /\ Len(T) <= Len(U)
  /\ \A k \in 1..Len(T) : T[k].status = "mined" => U[k].status = "mined"

\* A row stays in order as the chain goes on.
LEMMA RowStays ==
  ASSUME NEW T, NEW U, Later(T, U), NEW d, NEW x, RowOk(d, x, T)
  PROVE  RowOk(d, x, U)
<1>1. \A i \in CallsOf(d) : x.call[i] \in {"Submitted", "Confirmed"} => x.tx[i] \in 1..Len(T) /\ x.tx[i] \in 1..Len(U)
  BY DEF RowOk, Later
<1>2. \A i \in CallsOf(d) : x.call[i] = "Confirmed" => U[x.tx[i]].status = "mined"
  BY <1>1 DEF RowOk, Later
<1> QED BY <1>1, <1>2 DEF RowOk

\* A transaction is added.
LEMMA SentLater ==
  ASSUME NEW T \in Seq(TxRecords), NEW e \in TxRecords
  PROVE  /\ Later(T, Append(T, e)) /\ Append(T, e) \in Seq(TxRecords)
         /\ Len(Append(T, e)) = Len(T) + 1 /\ Len(T) \in Nat
         /\ \A k : \A d : Counts(Append(T, e), k, d) <=>
              Counts(T, k, d) \/ (k = Len(T) + 1 /\ e.id = d /\ ~ e.raced)
         /\ Append(T, e)[Len(T) + 1] = e /\ \A k \in 1..Len(T) : Append(T, e)[k] = T[k]
<1> DEFINE U == Append(T, e)
           n == Len(T)
<1>1. /\ n \in Nat /\ U \in Seq(TxRecords) /\ Len(U) = n + 1 /\ U[n + 1] = e
      /\ \A k \in 1..n : U[k] = T[k]
  BY AppendProperties, LenProperties
<1> HIDE DEF U, n
<1>2. \A k : k \in 1 .. n + 1 <=> k \in 1..n \/ k = n + 1
  BY <1>1
<1>3. Later(T, U)
  BY <1>1, <1>2 DEF Later, n
<1>4. \A k : \A d : Counts(U, k, d) <=> Counts(T, k, d) \/ (k = n + 1 /\ e.id = d /\ ~ e.raced)
  <2>1. \A k : \A d : Counts(U, k, d) <=> k \in 1 .. n + 1 /\ U[k].id = d /\ ~ U[k].raced
    BY <1>1 DEF Counts
  <2>2. \A k : \A d : Counts(T, k, d) <=> k \in 1..n /\ T[k].id = d /\ ~ T[k].raced
    BY DEF Counts, n
  <2>3. n + 1 \notin 1..n
    BY <1>1
  <2> QED BY <1>1, <1>2, <2>1, <2>2, <2>3
<1> QED BY <1>1, <1>3, <1>4 DEF U, n

-----------------------------------------------------------------------------
\* Snapshots are dropped, or become stale: those of the row d do, when it is written.
LessRunners(W, V, d) ==
  /\ V \in [StrategyTurns -> RunnerRecords]
  /\ \A t \in StrategyTurns : V[t].id # NoId =>
       V[t].id = W[t].id /\ V[t].row = W[t].row /\ (V[t].fresh => W[t].fresh /\ V[t].id # d)

LessScans(S, Z, d) ==
  /\ Z \in [Scans -> ScanRecords]
  /\ \A r \in Scans : /\ Z[r].left \subseteq S[r].left /\ Z[r].fresh \subseteq Z[r].left
                       /\ Z[r].fresh \subseteq S[r].fresh \ {d}
                       /\ \A c \in Z[r].left : Z[r].snap[c] = S[r].snap[c]

\* The row x of d takes the place of an open one: with the hashes that are there, or for good.
Writes(R, d, x) ==
  /\ d \in Ids /\ R[d].state = "Pending"
  /\ x.state \notin Open \/ (x.state = "Pending" /\ x.tx = R[d].tx)

Written(R, d, x) == [R EXCEPT ![d] = x]

\* Nothing is written.
LEMMA LessOk ==
  ASSUME NEW R, NEW W, NEW S, NEW T, SendInv(R, W, S, T), NEW V, LessRunners(W, V, NoId),
         NEW Z, LessScans(S, Z, NoId)
  PROVE  SendInv(R, V, Z, T)
<1>1. RunnersOk(V, R, T)
  BY DEF SendInv, RunnersOk, LessRunners
<1>2. ScansOk(Z, R, T)
  BY DEF SendInv, ScansOk, LessScans
<1>3. SendsOk(R, V, T)
  BY DEF SendInv, SendsOk, LessRunners
<1> QED BY <1>1, <1>2, <1>3 DEF SendInv

\* A row is written.
LEMMA WriteOk ==
  ASSUME NEW R, NEW W, NEW S, NEW T, SendInv(R, W, S, T), NEW d, NEW x, RowOk(d, x, T),
         Writes(R, d, x), NEW V, LessRunners(W, V, d), NEW Z, LessScans(S, Z, d)
  PROVE  SendInv(Written(R, d, x), V, Z, T)
<1> DEFINE Q == Written(R, d, x)
<1>1. d \in Ids /\ x \in AnyRow /\ R \in [Ids -> AnyRow] /\ x.state # "None"
  BY AnyRows DEF Writes, RowOk, SendInv, RowsOk
<1>2. Q \in [Ids -> AnyRow] /\ \A c \in Ids : Q[c] = IF c = d THEN x ELSE R[c]
  BY <1>1 DEF Written
<1> HIDE DEF Q
<1>3. RowsOk(Q, T)
  BY <1>1, <1>2 DEF SendInv, RowsOk
<1>4. RunnersOk(V, Q, T)
  <2> SUFFICES ASSUME NEW t \in StrategyTurns, V[t].id # NoId
               PROVE  /\ V[t].id[1] = t /\ RowOk(V[t].id, V[t].row, T) /\ NextCall(V[t].row) # 0 /\ V[t].row.state = "Pending"
                      /\ Q[V[t].id].state # "None" /\ (V[t].fresh => V[t].row = Q[V[t].id])
    BY DEF RunnersOk, LessRunners
  <2>1. V[t].id = W[t].id /\ V[t].row = W[t].row /\ (V[t].fresh => W[t].fresh /\ V[t].id # d)
    BY DEF LessRunners
  <2>2. /\ W[t].id[1] = t /\ RowOk(W[t].id, W[t].row, T) /\ NextCall(W[t].row) # 0 /\ W[t].row.state = "Pending" /\ W[t].id \in Ids
        /\ R[W[t].id].state # "None" /\ (W[t].fresh => W[t].row = R[W[t].id])
    BY <2>1 DEF SendInv, RunnersOk, RunnerRecords
  <2> QED BY <1>1, <1>2, <2>1, <2>2
<1>5. ScansOk(Z, Q, T)
  <2>1. \A r \in Scans : Z[r].left \subseteq Ids
    BY DEF LessScans, ScanRecords
  <2> QED BY <1>1, <1>2, <2>1 DEF SendInv, ScansOk, LessScans
<1>6. \A c \in Ids : Q[c].state \in Open => \A k : Counts(T, k, c) =>
        Q[c].state = "Pending" /\ T[k].call \in CallsOf(c) /\ Q[c].tx[T[k].call] # 0
  BY <1>2 DEF SendInv, SendsOk, Writes, Open
<1>7. SendsOk(Q, V, T)
  BY <1>6 DEF SendInv, SendsOk, LessRunners
<1> QED BY <1>3, <1>4, <1>5, <1>7 DEF SendInv, Q

\* Everything but the sends stays in order as the chain goes on.
LEMMA LaterOk ==
  ASSUME NEW R, NEW W, NEW S, NEW T, SendInv(R, W, S, T), NEW U, Later(T, U)
  PROVE  RowsOk(R, U) /\ RunnersOk(W, R, U) /\ ScansOk(S, R, U)
<1>1. \A d, x : RowOk(d, x, T) => RowOk(d, x, U)
  BY RowStays
<1> QED BY <1>1 DEF SendInv, RowsOk, RunnersOk, ScansOk

\* A transaction that no open row will know of: its hash lost the race, or it was the end of
\* the execution.
LEMMA StrayOk ==
  ASSUME NEW R, NEW W, NEW S, NEW T, SendInv(R, W, S, T), NEW e \in TxRecords,
         \/ e.raced
         \/ /\ R[e.id].state \notin Open /\ \A t \in StrategyTurns : W[t].id # e.id
            /\ \A k : Counts(T, k, e.id) => T[k].call # e.call
  PROVE  SendInv(R, W, S, Append(T, e))
<1> DEFINE U == Append(T, e)
           n == Len(T)
<1>1. /\ Later(T, U) /\ U \in Seq(TxRecords) /\ n \in Nat /\ T \in Seq(TxRecords)
      /\ \A k : \A d : Counts(U, k, d) <=> Counts(T, k, d) \/ (k = n + 1 /\ e.id = d /\ ~ e.raced)
      /\ U[n + 1] = e /\ \A k \in 1..n : U[k] = T[k]
  BY SentLater DEF SendInv, SendsOk
<1>2. \A k, d : Counts(T, k, d) => U[k] = T[k] /\ k # n + 1
  BY <1>1 DEF Counts
<1> HIDE DEF U, n
<1>3. \A t \in StrategyTurns : W[t].id # NoId => \A k : Counts(U, k, W[t].id) =>
        U[k].call \in CallsOf(W[t].id) /\ W[t].row.tx[U[k].call] # 0
  BY <1>1, <1>2 DEF SendInv, SendsOk
<1>4. \A d \in Ids : R[d].state \in Open => \A k : Counts(U, k, d) =>
        R[d].state = "Pending" /\ U[k].call \in CallsOf(d) /\ R[d].tx[U[k].call] # 0
  BY <1>1, <1>2 DEF SendInv, SendsOk
<1>5. ASSUME NEW d \in Ids, NEW k, NEW m, Counts(U, k, d), Counts(U, m, d), U[k].call = U[m].call
      PROVE  k = m
  <2>1. CASE Counts(T, k, d) /\ Counts(T, m, d)
    BY <1>2, <1>5, <2>1 DEF SendInv, SendsOk
  <2>2. CASE ~ (Counts(T, k, d) /\ Counts(T, m, d))
    BY <1>1, <1>2, <1>5, <2>2
  <2> QED BY <2>1, <2>2
<1>6. SendsOk(R, W, U)
  BY <1>1, <1>3, <1>4, <1>5 DEF SendsOk
<1> QED BY <1>1, <1>6, LaterOk DEF SendInv, U

\* A transaction is mined or reverts.
LEMMA MinedOk ==
  ASSUME NEW R, NEW W, NEW S, NEW T, SendInv(R, W, S, T), NEW k \in 1..Len(T),
         T[k].status = "pending", NEW z \in {"mined", "reverted"}
  PROVE  SendInv(R, W, S, [T EXCEPT ![k].status = z])
<1> DEFINE U == [T EXCEPT ![k].status = z]
<1>1. T \in Seq(TxRecords) /\ Len(T) \in Nat /\ DOMAIN T = 1..Len(T) /\ \A m \in 1..Len(T) : T[m] \in TxRecords
  BY ElementOfSeq, LenProperties DEF SendInv, SendsOk
<1> DEFINE e == [T[k] EXCEPT !.status = z]
<1>2. e \in TxRecords /\ e.id = T[k].id /\ e.call = T[k].call /\ e.raced = T[k].raced /\ e.status = z
  BY <1>1 DEF TxRecords
<1>3. U = [T EXCEPT ![k] = e]
  OBVIOUS
<1> HIDE DEF e, U
<1>4. U \in Seq(TxRecords) /\ Len(U) = Len(T) /\ \A m \in 1..Len(T) : U[m] = IF m = k THEN e ELSE T[m]
  BY <1>1, <1>2, <1>3, ExceptSeq
<1>5. \A m \in 1..Len(T) : U[m].id = T[m].id /\ U[m].call = T[m].call /\ U[m].raced = T[m].raced
  BY <1>2, <1>4
<1>6. \A m, d : Counts(U, m, d) <=> Counts(T, m, d)
  BY <1>4, <1>5 DEF Counts
<1>7. \A m, d : Counts(T, m, d) => U[m].call = T[m].call
  BY <1>5 DEF Counts
<1>8. Later(T, U)
  BY <1>1, <1>4 DEF Later
<1>9. SendsOk(R, W, U)
  <2>1. SendsOk(R, W, T)
    BY DEF SendInv
  <2>2. \A t \in StrategyTurns : W[t].id # NoId => \A m : Counts(U, m, W[t].id) =>
          U[m].call \in CallsOf(W[t].id) /\ W[t].row.tx[U[m].call] # 0
    BY <1>6, <1>7, <2>1 DEF SendsOk
  <2>3. \A d \in Ids : R[d].state \in Open => \A m : Counts(U, m, d) =>
          R[d].state = "Pending" /\ U[m].call \in CallsOf(d) /\ R[d].tx[U[m].call] # 0
    BY <1>6, <1>7, <2>1 DEF SendsOk
  <2>4. \A d \in Ids : \A m, n : Counts(U, m, d) /\ Counts(U, n, d) /\ U[m].call = U[n].call => m = n
    BY <1>6, <1>7, <2>1 DEF SendsOk
  <2> QED BY <1>4, <2>2, <2>3, <2>4 DEF SendsOk
<1> QED BY <1>8, <1>9, LaterOk DEF SendInv, U

\* The row of an execution that begins, or the one it goes on with.
Starting(R, d) == IF R[d].state = "None" THEN NewRow(d) ELSE R[d]

\* An execution is taken up: its row is stored, and a turn begins to send.
LEMMA StartOk ==
  ASSUME NEW R, NEW W, NEW S, NEW T, SendInv(R, W, S, T), NEW d \in Ids, NEW V, NEW Z, LessScans(S, Z, NoId),
         Starting(R, d).state = "Pending", V \in [StrategyTurns -> RunnerRecords],
         \A t \in StrategyTurns : V[t].id # NoId =>
           \/ V[t].id = W[t].id /\ V[t].row = W[t].row /\ V[t].fresh = W[t].fresh
           \/ d[1] = t /\ V[t].id = d /\ V[t].row = Starting(R, d) /\ NextCall(Starting(R, d)) # 0
  PROVE  /\ SendInv(Written(R, d, Starting(R, d)), V, Z, T)
         /\ R[d].state = "None" => R[d] = NoRow
<1> DEFINE x == Starting(R, d)
           Q == Written(R, d, x)
<1>1. R[d] = NoRow \/ RowOk(d, R[d], T)
  BY DEF SendInv, RowsOk
<1>2. NewRow(d) \in RowsOf(d) /\ NewRow(d).state = "Pending" /\ \A i \in CallsOf(d) : NewRow(d).call[i] = "Unattempted"
  BY DEF NewRow, RowsOf, RowStates, CallStates
<1>3. RowOk(d, NewRow(d), T)
  BY <1>2 DEF RowOk
<1>4. RowOk(d, x, T) /\ x.state = "Pending" /\ x \in AnyRow /\ (R[d].state # "None" => x = R[d])
      /\ (R[d].state = "None" => R[d] = NoRow)
  <2>1. RowOk(d, x, T)
    BY <1>1, <1>3, AnyRows DEF Starting
  <2> QED BY <1>1, <2>1, AnyRows DEF RowOk, Starting
<1>5. R \in [Ids -> AnyRow] /\ Q \in [Ids -> AnyRow] /\ \A c \in Ids : Q[c] = IF c = d THEN x ELSE R[c]
  BY <1>4 DEF SendInv, RowsOk, Written
<1> HIDE DEF x, Q
<1>6. RowsOk(Q, T)
  BY <1>4, <1>5 DEF SendInv, RowsOk
<1>7. RunnersOk(V, Q, T)
  <2> SUFFICES ASSUME NEW t \in StrategyTurns, V[t].id # NoId
               PROVE  /\ V[t].id[1] = t /\ RowOk(V[t].id, V[t].row, T) /\ NextCall(V[t].row) # 0 /\ V[t].row.state = "Pending"
                      /\ Q[V[t].id].state # "None" /\ (V[t].fresh => V[t].row = Q[V[t].id])
    BY DEF RunnersOk
  <2>1. CASE V[t].id = W[t].id /\ V[t].row = W[t].row /\ V[t].fresh = W[t].fresh
    <3>1. /\ W[t].id[1] = t /\ RowOk(W[t].id, W[t].row, T) /\ NextCall(W[t].row) # 0 /\ W[t].row.state = "Pending" /\ W[t].id \in Ids
          /\ R[W[t].id].state # "None" /\ (W[t].fresh => W[t].row = R[W[t].id])
      BY <2>1 DEF SendInv, RunnersOk, RunnerRecords
    <3>2. Q[W[t].id] = R[W[t].id]
      BY <1>4, <1>5, <3>1
    <3> QED BY <2>1, <3>1, <3>2
  <2>2. CASE d[1] = t /\ V[t].id = d /\ V[t].row = x /\ NextCall(x) # 0
    BY <1>4, <1>5, <2>2
  <2> QED BY <2>1, <2>2 DEF x
<1>8. ScansOk(Z, Q, T)
  <2>1. \A r \in Scans : Z[r].left \subseteq Ids
    BY DEF LessScans, ScanRecords
  <2>2. \A c \in Ids : R[c].state # "None" => Q[c] = R[c]
    BY <1>4, <1>5
  <2> QED BY <2>1, <2>2 DEF SendInv, ScansOk, LessScans
<1>9. \A c \in Ids : Q[c].state \in Open => \A k : Counts(T, k, c) =>
        Q[c].state = "Pending" /\ T[k].call \in CallsOf(c) /\ Q[c].tx[T[k].call] # 0
  <2>1. R[d].state = "None" => \A k : ~ Counts(T, k, d)
    BY DEF SendInv, SendsOk, Open
  <2> QED BY <1>4, <1>5, <2>1 DEF SendInv, SendsOk, Open
<1>10. SendsOk(Q, V, T)
  <2>1. ASSUME NEW t \in StrategyTurns, V[t].id # NoId, NEW k, Counts(T, k, V[t].id)
        PROVE  T[k].call \in CallsOf(V[t].id) /\ V[t].row.tx[T[k].call] # 0
    <3>1. CASE V[t].id = W[t].id /\ V[t].row = W[t].row
      BY <2>1, <3>1 DEF SendInv, SendsOk
    <3>2. CASE V[t].id = d /\ V[t].row = x
      BY <1>4, <1>5, <1>9, <2>1, <3>2 DEF Open
    <3> QED BY <2>1, <3>1, <3>2 DEF x
  <2> QED BY <1>9, <2>1 DEF SendInv, SendsOk
<1> QED BY <1>4, <1>6, <1>7, <1>8, <1>10 DEF SendInv, Q, x

\* A call was sent.
Sending(x, i, k) == [x EXCEPT !.call[i] = "Submitted", !.tx[i] = k]

\* The row with the hash.
LEMMA SendingRow ==
  ASSUME NEW d \in Ids, NEW T, NEW x, RowOk(d, x, T), NEW i \in CallsOf(d), Len(T) \in Nat, NEW U, Later(T, U),
         Len(U) = Len(T) + 1, x.state = "Pending"
  PROVE  LET y == Sending(x, i, Len(T) + 1)
         IN  /\ RowOk(d, y, U) /\ y.state = "Pending"
             /\ \A j \in CallsOf(d) : y.tx[j] = IF j = i THEN Len(T) + 1 ELSE x.tx[j]
<1> DEFINE n == Len(T) + 1
           y == Sending(x, i, n)
<1>1. n \in Nat /\ n \in 1..Len(U)
  OBVIOUS
<1>2. x.state \in RowStates /\ x.call \in [CallsOf(d) -> CallStates] /\ x.tx \in [CallsOf(d) -> Nat] /\ x \in RowsOf(d)
  BY DEF RowOk, RowsOf
<1>3. y = [x EXCEPT !.call = [@ EXCEPT ![i] = "Submitted"], !.tx = [@ EXCEPT ![i] = n]]
  BY DEF Sending
<1> HIDE DEF y, n
<1>4. y.state = x.state /\ y.call = [x.call EXCEPT ![i] = "Submitted"] /\ y.tx = [x.tx EXCEPT ![i] = n]
      /\ y \in RowsOf(d)
  BY <1>1, <1>2, <1>3 DEF RowsOf, CallStates
<1>5. \A j \in CallsOf(d) : /\ y.tx[j] = IF j = i THEN n ELSE x.tx[j]
                            /\ y.call[j] = IF j = i THEN "Submitted" ELSE x.call[j]
  BY <1>2, <1>4
<1>6. RowOk(d, x, U)
  BY RowStays
<1>7. RowOk(d, y, U)
  BY <1>1, <1>4, <1>5, <1>6 DEF RowOk
<1> QED BY <1>4, <1>5, <1>7 DEF y, n

\* A send succeeds, and its hash is stored.
LEMMA SentOk ==
  ASSUME NEW R, NEW W, NEW S, NEW T, SendInv(R, W, S, T), NEW t \in StrategyTurns, W[t].id # NoId, W[t].fresh,
         NEW e \in TxRecords, e.id = W[t].id, e.call = NextCall(W[t].row), NEW y,
         y = Sending(W[t].row, NextCall(W[t].row), Len(T) + 1), NEW Z, LessScans(S, Z, W[t].id),
         NEW V, V \in [StrategyTurns -> RunnerRecords],
         \A u \in StrategyTurns : u # t => V[u] = W[u],
         V[t].id # NoId => V[t].id = W[t].id /\ V[t].row = y /\ NextCall(y) # 0
  PROVE  SendInv(Written(R, W[t].id, y), V, Z, Append(T, e))
<1> DEFINE d == W[t].id
           i == NextCall(W[t].row)
           n == Len(T) + 1
           U == Append(T, e)
           Q == Written(R, d, y)
<1>1. /\ d \in Ids /\ d[1] = t /\ RowOk(d, W[t].row, T) /\ i # 0 /\ W[t].row = R[d] /\ T \in Seq(TxRecords)
      /\ W[t].row \in RowsOf(d) /\ W[t].row.state = "Pending"
  BY DEF SendInv, RunnersOk, RunnerRecords, RowOk, SendsOk
<1>2. i \in CallsOf(d) /\ W[t].row.tx[i] = 0
  BY <1>1, NextCallIs
<1>3. /\ Later(T, U) /\ U \in Seq(TxRecords) /\ Len(U) = n /\ Len(T) \in Nat
      /\ \A k : \A c : Counts(U, k, c) => Counts(T, k, c) \/ (k = n /\ c = d)
      /\ U[n] = e /\ \A k \in 1..Len(T) : U[k] = T[k]
  BY <1>1, SentLater
<1>4. \A k, c : Counts(T, k, c) => U[k] = T[k] /\ k # n
  BY <1>3 DEF Counts
<1>5. RowOk(d, y, U) /\ y.state = "Pending" /\ \A j \in CallsOf(d) : y.tx[j] = IF j = i THEN n ELSE W[t].row.tx[j]
  <2> DEFINE x == W[t].row
  <2>1. RowOk(d, x, T) /\ x.state = "Pending" /\ y = Sending(x, i, n)
    BY <1>1
  <2> HIDE DEF x, d, i, U
  <2>2. RowOk(d, y, U) /\ y.state = "Pending" /\ \A j \in CallsOf(d) : y.tx[j] = IF j = i THEN n ELSE x.tx[j]
    BY <1>1, <1>2, <1>3, <2>1, SendingRow
  <2> QED BY <2>2 DEF x
<1> HIDE DEF d, i, U, Q
<1>6. n # 0 /\ y \in AnyRow /\ R \in [Ids -> AnyRow]
  <2>1. n # 0
    BY <1>3
  <2>2. y \in RowsOf(d)
    BY <1>5 DEF RowOk
  <2>3. y \in AnyRow
    BY <1>1, <2>2, AnyRows
  <2>4. R \in [Ids -> AnyRow]
    BY DEF SendInv, RowsOk
  <2> QED BY <2>1, <2>3, <2>4
<1>7. Q \in [Ids -> AnyRow] /\ \A c \in Ids : Q[c] = IF c = d THEN y ELSE R[c]
  BY <1>1, <1>6 DEF Written, Q
<1>8. RowsOk(R, U) /\ RunnersOk(W, R, U) /\ ScansOk(S, R, U)
  BY <1>3, LaterOk
<1>9. e.id = d /\ e.call = i
  BY DEF d, i
<1> HIDE DEF n
<1>10. RowsOk(Q, U)
  BY <1>5, <1>7, <1>8 DEF RowsOk
<1>11. RunnersOk(V, Q, U)
  <2> SUFFICES ASSUME NEW u \in StrategyTurns, V[u].id # NoId
               PROVE  /\ V[u].id[1] = u /\ RowOk(V[u].id, V[u].row, U) /\ NextCall(V[u].row) # 0 /\ V[u].row.state = "Pending"
                      /\ Q[V[u].id].state # "None" /\ (V[u].fresh => V[u].row = Q[V[u].id])
    BY DEF RunnersOk
  <2>1. CASE u = t
    <3>1. V[u].id = d /\ V[u].row = y /\ NextCall(y) # 0
      BY <2>1 DEF d
    <3> QED BY <1>1, <1>5, <1>7, <2>1, <3>1
  <2>2. CASE u # t
    <3>1. V[u] = W[u]
      BY <2>2
    <3>2. /\ W[u].id[1] = u /\ RowOk(W[u].id, W[u].row, U) /\ NextCall(W[u].row) # 0 /\ W[u].row.state = "Pending" /\ W[u].id \in Ids
          /\ R[W[u].id].state # "None" /\ (W[u].fresh => W[u].row = R[W[u].id])
      BY <1>8, <3>1 DEF RunnersOk, RunnerRecords
    <3>3. W[u].id # d
      BY <1>1, <2>2, <3>2
    <3> QED BY <1>7, <3>1, <3>2, <3>3
  <2> QED BY <2>1, <2>2
<1>12. ScansOk(Z, Q, U)
  <2>1. \A r \in Scans : Z[r].left \subseteq Ids
    BY DEF LessScans, ScanRecords
  <2> QED BY <1>5, <1>7, <1>8, <2>1 DEF ScansOk, LessScans, d
<1>13. \A k : Counts(T, k, d) => T[k].call \in CallsOf(d) /\ W[t].row.tx[T[k].call] # 0
  BY DEF SendInv, SendsOk, d
<1>14. \A k : Counts(U, k, d) => U[k].call \in CallsOf(d) /\ y.tx[U[k].call] # 0
  BY <1>2, <1>3, <1>4, <1>5, <1>6, <1>9, <1>13
<1>15. ASSUME NEW u \in StrategyTurns, V[u].id # NoId, NEW k, Counts(U, k, V[u].id)
       PROVE  U[k].call \in CallsOf(V[u].id) /\ V[u].row.tx[U[k].call] # 0
  <2>1. CASE u = t
    BY <1>14, <1>15, <2>1 DEF d
  <2>2. CASE u # t
    <3>1. V[u] = W[u] /\ W[u].id # d
      BY <1>1, <1>15, <2>2 DEF SendInv, RunnersOk
    <3>2. Counts(T, k, W[u].id)
      BY <1>3, <1>15, <3>1
    <3> QED BY <1>4, <1>15, <3>1, <3>2 DEF SendInv, SendsOk
  <2> QED BY <2>1, <2>2
<1>16. ASSUME NEW c \in Ids, Q[c].state \in Open, NEW k, Counts(U, k, c)
       PROVE  Q[c].state = "Pending" /\ U[k].call \in CallsOf(c) /\ Q[c].tx[U[k].call] # 0
  <2>1. CASE c = d
    BY <1>5, <1>7, <1>14, <1>16, <2>1
  <2>2. CASE c # d
    <3>1. Counts(T, k, c) /\ Q[c] = R[c]
      BY <1>3, <1>7, <1>16, <2>2
    <3> QED BY <1>4, <1>16, <3>1 DEF SendInv, SendsOk
  <2> QED BY <2>1, <2>2
<1>17. ASSUME NEW c \in Ids, NEW k, NEW m, Counts(U, k, c), Counts(U, m, c), U[k].call = U[m].call
       PROVE  k = m
  <2>1. CASE Counts(T, k, c) /\ Counts(T, m, c)
    BY <1>4, <1>17, <2>1 DEF SendInv, SendsOk
  <2>2. CASE k = n /\ m = n
    BY <2>2
  <2>3. CASE (Counts(T, k, c) /\ m = n /\ c = d) \/ (Counts(T, m, c) /\ k = n /\ c = d)
    BY <1>2, <1>3, <1>4, <1>9, <1>13, <1>17, <2>3
  <2> QED BY <1>3, <1>17, <2>1, <2>2, <2>3
<1>18. SendsOk(Q, V, U)
  BY <1>3, <1>15, <1>16, <1>17 DEF SendsOk
<1> QED BY <1>10, <1>11, <1>12, <1>18 DEF SendInv, Q, U, d

-----------------------------------------------------------------------------
\* A reconciliation reads the rows that are due.
LEMMA ReadOk ==
  ASSUME NEW R, NEW W, NEW S, NEW T, SendInv(R, W, S, T), NEW r \in Scans, NEW D \in SUBSET Ids,
         \A d \in D : R[d].state = "Pending", NEW z, z \in ScanRecords, z.left = D, z.fresh = D,
         \A d \in D : z.snap[d] = R[d]
  PROVE  SendInv(R, W, [S EXCEPT ![r] = z], T)
<1> DEFINE Z == [S EXCEPT ![r] = z]
<1>1. Z \in [Scans -> ScanRecords] /\ \A u \in Scans : Z[u] = IF u = r THEN z ELSE S[u]
  BY DEF SendInv, ScansOk
<1>2. \A d \in D : RowOk(d, R[d], T)
  BY AnyRows DEF SendInv, RowsOk
<1> HIDE DEF Z
<1>3. ScansOk(Z, R, T)
  BY <1>1, <1>2 DEF SendInv, ScansOk
<1> QED BY <1>3 DEF SendInv, Z

\* What the receipts make of the calls.
LEMMA ReceiptsOk ==
  ASSUME NEW d \in Ids, NEW x, RowOk(d, x, txs), NEW n, NEW late, NEW f \in Receipts(x, n, late)
  PROVE  /\ f \in [CallsOf(d) -> CallStates]
         /\ \A i \in CallsOf(d) : f[i] \in {"Submitted", "Confirmed"} => x.tx[i] \in 1..Len(txs)
         /\ \A i \in CallsOf(d) : f[i] = "Confirmed" => txs[x.tx[i]].status = "mined"
<1>1. x \in RowsOf(d) /\ DOMAIN x.call = CallsOf(d) /\ \A i \in CallsOf(d) : x.call[i] \in CallStates
  BY DEF RowOk, RowsOf
<1>2. DOMAIN f = CallsOf(d) /\ f = [i \in CallsOf(d) |-> f[i]]
  BY <1>1 DEF Receipts
<1>3. \A i \in CallsOf(d) : f[i] = x.call[i] \/ f[i] \in Observed(x, i, late)
  BY <1>1, <1>2 DEF Receipts
<1>4. ASSUME NEW i \in CallsOf(d), f[i] \in Observed(x, i, late)
      PROVE  \/ f[i] = x.call[i] \/ f[i] = "Dropped" \/ f[i] = "Reverted"
             \/ f[i] = "Confirmed" /\ x.call[i] = "Submitted" /\ txs[x.tx[i]].status = "mined"
  BY <1>1, <1>4 DEF Observed, CallStates
<1>5. \A i \in CallsOf(d) : f[i] \in CallStates
  BY <1>1, <1>3, <1>4 DEF CallStates
<1>6. f \in [CallsOf(d) -> CallStates]
  BY <1>2, <1>5
<1> QED BY <1>3, <1>4, <1>6 DEF RowOk

\* A row whose calls and state are replaced.
Became(x, f, z) == [state |-> z, call |-> f, tx |-> x.tx]

\* It is in order when the calls and the state are.
LEMMA BecameOk ==
  ASSUME NEW d \in Ids, NEW T, NEW x, RowOk(d, x, T), NEW f \in [CallsOf(d) -> CallStates],
         \A i \in CallsOf(d) : f[i] \in {"Submitted", "Confirmed"} => x.tx[i] \in 1..Len(T),
         \A i \in CallsOf(d) : f[i] = "Confirmed" => T[x.tx[i]].status = "mined",
         NEW z \in RowStates \ {"None"}, z = "Confirmed" => \A i \in CallsOf(d) : f[i] = "Confirmed"
  PROVE  RowOk(d, Became(x, f, z), T)
<1>1. x.tx \in [CallsOf(d) -> Nat]
  BY DEF RowOk, RowsOf
<1>2. Became(x, f, z) \in RowsOf(d)
  BY <1>1 DEF Became, RowsOf
<1> QED BY <1>2 DEF RowOk, Became

-----------------------------------------------------------------------------
\* The book and the history, as far as the exposure is about them.
BookRecords  == [exposure : Nat, spent : Nat, failures : Nat, streak : Nat]
TrailRecords == [booked : [Ids -> Nat], blind : BOOLEAN, lapses : Nat, admin : Nat, turns : Nat]

\* The executions of a plan that were confirmed, in the rows R.
ConfirmedOf(R, plan) == {d \in Ids : d[2] = plan /\ R[d].state = "Confirmed"}

\* Those of them that are among the first n created.
ConfirmedUpTo(R, plan, n) == {d \in ConfirmedOf(R, plan) : \E m \in 1..n : created[m] = d}

\* Rows are created once, in a sequence C.
CreatedOk(R, C) ==
  /\ C \in Seq(Ids)
  /\ \A m, n \in 1..Len(C) : C[m] = C[n] => m = n
  /\ \A d \in Ids : R[d].state # "None" <=> \E m \in 1..Len(C) : C[m] = d

\* An exit was begun after an entry was confirmed.
Entered(R, C) ==
  \A n \in 1..Len(C) : C[n][2] = "exit" =>
    \E m \in 1 .. n - 1 : C[m][2] = "enter" /\ R[C[m]].state = "Confirmed"

\* The exposure is what the confirmed executions left open.
Balanced(R, b) == b.exposure + Cardinality(ConfirmedOf(R, "exit")) = Cardinality(ConfirmedOf(R, "enter"))

BooksOk(R, C, b, h) ==
  /\ CreatedOk(R, C) /\ b \in BookRecords /\ h \in TrailRecords
  /\ \A d \in Ids : h.booked[d] = IF R[d].state \in Open THEN 0 ELSE 1
  /\ ~ h.blind => Balanced(R, b) /\ Entered(R, C)

BooksInv == BooksOk(rows, created, book, trail)

\* There are finitely many executions.
LEMMA FiniteConfirmed ==
  ASSUME NEW R, NEW plan
  PROVE  /\ IsFiniteSet(ConfirmedOf(R, plan)) /\ Cardinality(ConfirmedOf(R, plan)) \in Nat
         /\ \A n : /\ IsFiniteSet(ConfirmedUpTo(R, plan, n))
                   /\ Cardinality(ConfirmedUpTo(R, plan, n)) \in Nat
<1>1. IsFiniteSet(StrategyTurns)
  <2> DEFINE n == MaxStrategyTurns
  <2>1. n \in Nat
    BY StrategyAssumption
  <2> HIDE DEF n
  <2>2. IsFiniteSet(1..n)
    BY <2>1, FS_Interval
  <2> QED BY <2>2 DEF StrategyTurns, n
<1>2. IsFiniteSet(Plans)
  <2>1. IsFiniteSet({"enter"}) /\ IsFiniteSet({"exit"})
    BY FS_Singleton
  <2>2. Plans = {"enter"} \cup {"exit"}
    BY DEF Plans
  <2> QED BY <2>1, <2>2, FS_Union
<1>3. IsFiniteSet(Ids)
  BY <1>1, <1>2, FS_Product DEF Ids
<1>4. IsFiniteSet(ConfirmedOf(R, plan)) /\ \A n : IsFiniteSet(ConfirmedUpTo(R, plan, n))
  BY <1>3, FS_Subset DEF ConfirmedOf, ConfirmedUpTo
<1> QED BY <1>4, FS_CardinalityType

\* One more element.
LEMMA OneMore ==
  ASSUME NEW S, IsFiniteSet(S), NEW x, x \notin S
  PROVE  Cardinality(S \cup {x}) = Cardinality(S) + 1 /\ Cardinality(S) \in Nat
BY FS_AddElement, FS_CardinalityType

-----------------------------------------------------------------------------
\* What is recomputed.
SeenRecords == [known : BOOLEAN, amount : Nat, error : BOOLEAN]

\* The observation s becomes y when the row of d is looked at.
SeenNext(R, s, d, y) ==
  /\ y \in SeenRecords
  /\ s.error => y.error
  /\ ~ s.error /\ R[d].state # "Confirmed" => y = s
  /\ ~ s.error /\ R[d].state = "Confirmed" /\ d[2] = "enter" => y.known /\ y.amount = s.amount + 1 /\ ~ y.error
  /\ ~ s.error /\ R[d].state = "Confirmed" /\ d[2] # "enter" /\ s.known =>
       y.known /\ (~ y.error => y.amount = s.amount - 1)

\* One row is observed.
LEMMA ObserveRowIs ==
  ASSUME NEW R, NEW s, s \in SeenRecords, NEW d
  PROVE  SeenNext(R, s, d, ObserveRow(R, s, d))
<1> SUFFICES ASSUME NEW y, y = ObserveRow(R, s, d)
             PROVE  SeenNext(R, s, d, y)
  OBVIOUS
<1> USE DEF SeenNext
<1>1. s.known \in BOOLEAN /\ s.amount \in Nat /\ s.error \in BOOLEAN
  BY DEF SeenRecords
<1>2. CASE s.error \/ R[d].state # "Confirmed"
  <2>1. y = s
    BY <1>2 DEF ObserveRow
  <2> QED BY <1>2, <2>1
<1>3. CASE ~ s.error /\ R[d].state = "Confirmed" /\ d[2] = "enter"
  <2>1. y = [s EXCEPT !.known = TRUE, !.amount = @ + 1]
    BY <1>3 DEF ObserveRow
  <2>2. s.amount + 1 \in Nat
    BY <1>1
  <2> QED BY <1>1, <1>3, <2>1, <2>2 DEF SeenRecords
<1>4. CASE ~ s.error /\ R[d].state = "Confirmed" /\ d[2] # "enter" /\ ~ s.known
  <2>1. y = s
    BY <1>4 DEF ObserveRow
  <2> QED BY <1>4, <2>1
<1>5. CASE ~ s.error /\ R[d].state = "Confirmed" /\ d[2] # "enter" /\ s.known /\ s.amount = 0
  <2>1. y = [s EXCEPT !.error = TRUE]
    BY <1>5 DEF ObserveRow
  <2> QED BY <1>1, <1>5, <2>1 DEF SeenRecords
<1>6. CASE ~ s.error /\ R[d].state = "Confirmed" /\ d[2] # "enter" /\ s.known /\ s.amount # 0
  <2>1. y = [s EXCEPT !.amount = @ - 1]
    BY <1>6 DEF ObserveRow
  <2>2. s.amount - 1 \in Nat
    BY <1>1, <1>6
  <2> QED BY <1>1, <1>6, <2>1, <2>2 DEF SeenRecords
<1> QED BY <1>2, <1>3, <1>4, <1>5, <1>6

\* The set S becomes Z when the row of c is looked at.
GrowsBy(R, plan, S, Z, c) ==
  /\ c \in Ids /\ c \notin S
  /\ Z = IF R[c].state = "Confirmed" /\ c[2] = plan THEN S \cup {c} ELSE S

\* The rows created up to n, and the next one.
LEMMA UpToNext ==
  ASSUME NEW R, CreatedOk(R, created), NEW n, n \in 1..Len(created), NEW plan
  PROVE  GrowsBy(R, plan, ConfirmedUpTo(R, plan, n - 1), ConfirmedUpTo(R, plan, n), created[n])
<1>1. created[n] \in Ids /\ n \in Nat /\ n - 1 \in Nat /\ Len(created) \in Nat
  BY ElementOfSeq, LenProperties DEF CreatedOk
<1>2. \A m : m \in 1..n <=> m \in 1 .. n - 1 \/ m = n
  BY <1>1
<1>3. \A m \in 1 .. n - 1 : m \in 1..Len(created) /\ m # n
  BY <1>1
<1>4. \A m \in 1 .. n - 1 : created[m] # created[n]
  BY <1>3 DEF CreatedOk
<1>5. \A d : (\E m \in 1..n : created[m] = d) <=> (\E m \in 1 .. n - 1 : created[m] = d) \/ d = created[n]
  BY <1>2
<1> QED BY <1>1, <1>4, <1>5 DEF ConfirmedUpTo, ConfirmedOf, GrowsBy

\* The observation after n rows: it is well-formed, and as long as exits follow confirmed
\* entries it counts what is open.
ObservedOk(R, n) ==
  LET s == ObserveFirst(R)[n]
  IN  /\ s \in SeenRecords
      /\ Entered(R, created) /\ ~ s.error =>
           /\ s.amount + Cardinality(ConfirmedUpTo(R, "exit", n)) = Cardinality(ConfirmedUpTo(R, "enter", n))
           /\ (\E m \in 1..n : created[m][2] = "enter" /\ R[created[m]].state = "Confirmed") => s.known

\* The next row is observed.
LEMMA ObservedNext ==
  ASSUME NEW R, CreatedOk(R, created), NEW n \in 1..Len(created), ObservedOk(R, n - 1)
  PROVE  ObservedOk(R, n)
<1> DEFINE s == ObserveFirst(R)[n - 1]
           y == ObserveFirst(R)[n]
           c == created[n]
           X == ConfirmedUpTo(R, "exit", n - 1)
           E == ConfirmedUpTo(R, "enter", n - 1)
           X2 == ConfirmedUpTo(R, "exit", n)
           E2 == ConfirmedUpTo(R, "enter", n)
<1>1. Len(created) \in Nat /\ n \in Nat
  BY LenProperties DEF CreatedOk
<1>2. y = ObserveRow(R, s, c)
  BY <1>1, ObserveDefined
<1>3. /\ s \in SeenRecords
      /\ Entered(R, created) /\ ~ s.error =>
           /\ s.amount + Cardinality(X) = Cardinality(E)
           /\ (\E m \in 1 .. n - 1 : created[m][2] = "enter" /\ R[created[m]].state = "Confirmed") => s.known
  BY DEF ObservedOk
<1>4. /\ c \in Ids /\ c \notin X /\ c \notin E /\ c[2] \in {"enter", "exit"}
      /\ X2 = IF R[c].state = "Confirmed" /\ c[2] = "exit" THEN X \cup {c} ELSE X
      /\ E2 = IF R[c].state = "Confirmed" /\ c[2] = "enter" THEN E \cup {c} ELSE E
  <2>1. GrowsBy(R, "exit", X, X2, c) /\ GrowsBy(R, "enter", E, E2, c)
    BY UpToNext, Zenon
  <2> HIDE DEF X, E, X2, E2, c
  <2>2. c[2] \in {"enter", "exit"}
    BY <2>1, StrategyNumbers DEF Plans, GrowsBy
  <2> QED BY <2>1, <2>2 DEF GrowsBy
<1>5. IsFiniteSet(X) /\ IsFiniteSet(E) /\ Cardinality(X) \in Nat /\ Cardinality(E) \in Nat
  BY FiniteConfirmed
<1> HIDE DEF s, y, X, E, X2, E2
<1>6. /\ y \in SeenRecords /\ (s.error => y.error) /\ (~ s.error /\ R[c].state # "Confirmed" => y = s)
      /\ ~ s.error /\ R[c].state = "Confirmed" /\ c[2] = "enter" => y.known /\ y.amount = s.amount + 1 /\ ~ y.error
      /\ ~ s.error /\ R[c].state = "Confirmed" /\ c[2] # "enter" /\ s.known =>
           y.known /\ (~ y.error => y.amount = s.amount - 1)
  <2>1. SeenNext(R, s, c, y)
    BY <1>2, <1>3, ObserveRowIs, Zenon
  <2> HIDE DEF c
  <2> QED BY <2>1 DEF SeenNext
<1>7. s.amount \in Nat
  BY <1>3 DEF SeenRecords
<1>8. ASSUME Entered(R, created), ~ y.error
      PROVE  /\ y.amount + Cardinality(X2) = Cardinality(E2)
             /\ (\E m \in 1..n : created[m][2] = "enter" /\ R[created[m]].state = "Confirmed") => y.known
  <2>1. ~ s.error /\ s.amount + Cardinality(X) = Cardinality(E)
    BY <1>3, <1>6, <1>8
  <2>2. \A m : m \in 1..n <=> m \in 1 .. n - 1 \/ m = n
    BY <1>1
  <2>3. CASE R[c].state # "Confirmed"
    BY <1>3, <1>4, <1>6, <1>8, <2>1, <2>2, <2>3
  <2>4. CASE R[c].state = "Confirmed" /\ c[2] = "enter"
    <3>1. Cardinality(E2) = Cardinality(E) + 1 /\ X2 = X /\ y.amount = s.amount + 1 /\ y.known
      BY <1>4, <1>5, <1>6, <2>1, <2>4, OneMore
    <3>2. y.amount + Cardinality(X2) = Cardinality(E2)
      BY <1>5, <1>7, <2>1, <3>1
    <3> QED BY <3>1, <3>2
  <2>5. CASE R[c].state = "Confirmed" /\ c[2] = "exit"
    <3>1. \E m \in 1 .. n - 1 : created[m][2] = "enter" /\ R[created[m]].state = "Confirmed"
      BY <1>8, <2>5 DEF Entered
    <3>2. s.known
      BY <1>3, <1>8, <2>1, <3>1
    <3>3. Cardinality(X2) = Cardinality(X) + 1 /\ E2 = E /\ y.amount = s.amount - 1 /\ y.known
      BY <1>4, <1>5, <1>6, <1>8, <2>1, <2>5, <3>2, OneMore
    <3>4. y.amount + Cardinality(X2) = Cardinality(E2)
      BY <1>5, <1>7, <2>1, <3>3
    <3> QED BY <3>3, <3>4
  <2> QED BY <1>4, <2>3, <2>4, <2>5
<1> QED BY <1>6, <1>8 DEF ObservedOk, y, X2, E2

\* All rows are observed: by the least number of rows for which it would fail.
LEMMA ObservedAll ==
  ASSUME NEW R, CreatedOk(R, created)
  PROVE  ObservedOk(R, Len(created))
<1> DEFINE L == Len(created)
           S == {n \in Nat : n <= L /\ ~ ObservedOk(R, n)}
<1>1. L \in Nat
  BY LenProperties DEF CreatedOk
<1>2. ObservedOk(R, 0)
  <2>1. ObserveFirst(R)[0] = Unseen
    BY <1>1, ObserveDefined
  <2>2. Unseen \in SeenRecords /\ Unseen.amount = 0
    BY DEF Unseen, SeenRecords
  <2>3. \A p : ConfirmedUpTo(R, p, 0) = {}
    BY DEF ConfirmedUpTo
  <2>4. Cardinality({}) = 0
    BY FS_EmptySet
  <2>5. ~ \E m \in 1..0 : created[m][2] = "enter" /\ R[created[m]].state = "Confirmed"
    OBVIOUS
  <2> QED BY <2>1, <2>2, <2>3, <2>4, <2>5 DEF ObservedOk
<1>3. S = {}
  <2> SUFFICES ASSUME S # {} PROVE FALSE
    OBVIOUS
  <2>1. PICK x \in S : \A y \in S : x <= y
    BY LeastNat
  <2>2. x \in Nat /\ x <= L /\ ~ ObservedOk(R, x) /\ x # 0
    BY <1>2, <2>1
  <2>3. x - 1 \in Nat /\ x - 1 <= L /\ x \in 1..L /\ ~ (x <= x - 1)
    BY <1>1, <2>2
  <2>4. x - 1 \notin S
    BY <2>1, <2>3
  <2>5. ObservedOk(R, x - 1)
    BY <2>3, <2>4
  <2> QED BY <2>2, <2>3, <2>5, ObservedNext
<1> QED BY <1>1, <1>3

\* A recomputed exposure is right.
LEMMA RepairOk ==
  ASSUME NEW R, NEW b, NEW h, BooksOk(R, created, b, h)
  PROVE  BooksOk(R, created, RepairExposure(b, R), h)
<1> DEFINE s == FoldObserved(R)
<1>1. CreatedOk(R, created) /\ b \in BookRecords
  BY DEF BooksOk
<1>2. ObservedOk(R, Len(created))
  BY <1>1, ObservedAll
<1>3. \A p : ConfirmedUpTo(R, p, Len(created)) = ConfirmedOf(R, p)
  BY <1>1 DEF ConfirmedUpTo, ConfirmedOf, CreatedOk
<1>4. /\ s \in SeenRecords
      /\ Entered(R, created) /\ ~ s.error =>
           s.amount + Cardinality(ConfirmedOf(R, "exit")) = Cardinality(ConfirmedOf(R, "enter"))
  BY <1>2, <1>3 DEF ObservedOk, FoldObserved
<1> HIDE DEF s
<1>5. CASE s.known /\ ~ s.error
  <2> DEFINE y == [b EXCEPT !.exposure = s.amount]
  <2>1. RepairExposure(b, R) = y
    BY <1>5 DEF RepairExposure, s
  <2>2. y \in BookRecords /\ y.exposure = s.amount
    BY <1>1, <1>4 DEF BookRecords, SeenRecords
  <2> HIDE DEF y
  <2>3. Entered(R, created) => Balanced(R, y)
    BY <1>4, <1>5, <2>2 DEF Balanced
  <2> QED BY <2>1, <2>2, <2>3 DEF BooksOk
<1>6. CASE ~ (s.known /\ ~ s.error)
  <2>1. RepairExposure(b, R) = b
    BY <1>6 DEF RepairExposure, s
  <2> QED BY <2>1
<1> QED BY <1>5, <1>6

-----------------------------------------------------------------------------
\* What an outcome does to the book: nothing, or it is booked with the row that ends it.
OutBooks(d, out) ==
  \/ /\ out.booked = 0 /\ out.book = book
     /\ out.row.state = rows[d].state
  \/ /\ rows[d].state = "Pending" /\ out.row.state \notin Open /\ out.booked = 1
     /\ out.book \in BookRecords
     /\ out.book.exposure = IF out.row.state # "Confirmed" THEN book.exposure
                            ELSE IF d[2] = "enter" THEN book.exposure + 1 ELSE book.exposure - 1
     /\ out.row.state = "Confirmed" /\ d[2] = "exit" => book.exposure > 0

\* The set of confirmed executions changes with a confirmed row only.
LEMMA ConfirmedChange ==
  ASSUME NEW R, NEW Q, NEW d \in Ids, \A c \in Ids : c # d => Q[c].state = R[c].state, R[d].state # "Confirmed",
         NEW plan
  PROVE  /\ d \notin ConfirmedOf(R, plan)
         /\ ConfirmedOf(Q, plan) = IF Q[d].state = "Confirmed" /\ d[2] = plan THEN ConfirmedOf(R, plan) \cup {d}
                                   ELSE ConfirmedOf(R, plan)
BY DEF ConfirmedOf

\* A failure keeps the exposure.
LEMMA FailedIs ==
  ASSUME NEW b \in BookRecords, NEW deterministic
  PROVE  /\ Failed(b, deterministic) \in BookRecords /\ Failed(b, deterministic).exposure = b.exposure
         /\ Refused(b) \in BookRecords /\ Refused(b).exposure = b.exposure
<1>1. b.exposure \in Nat /\ b.spent \in Nat /\ b.failures \in Nat /\ b.streak \in Nat
  BY DEF BookRecords
<1>2. \A n, m \in Nat : Min({n, m}) \in Nat
  <2> SUFFICES ASSUME NEW n \in Nat, NEW m \in Nat PROVE Min({n, m}) \in Nat
    OBVIOUS
  <2>1. {n, m} \in SUBSET Nat /\ {n, m} # {}
    OBVIOUS
  <2>2. Min({n, m}) \in {n, m}
    BY <2>1, MinIsLeast
  <2> QED BY <2>2
<1> DEFINE f == Min({b.failures + 1, QuarantineLimit})
           k == IF deterministic THEN Min({b.streak + 1, StreakLimit}) ELSE 0
<1>3. f \in Nat /\ k \in Nat
  <2>1. b.failures + 1 \in Nat /\ b.streak + 1 \in Nat /\ QuarantineLimit \in Nat /\ StreakLimit \in Nat
    BY <1>1, StrategyAssumption
  <2> QED BY <1>2, <2>1
<1>4. Refused(b) = [b EXCEPT !.failures = f]
  BY DEF Refused
<1> HIDE DEF f
<1>5. Refused(b) \in BookRecords /\ Refused(b).exposure = b.exposure /\ Refused(b).streak = b.streak
  BY <1>1, <1>3, <1>4 DEF BookRecords
<1>6. Failed(b, deterministic) = [Refused(b) EXCEPT !.streak = k]
  BY <1>5 DEF Failed
<1> HIDE DEF k
<1> QED BY <1>3, <1>5, <1>6 DEF BookRecords

\* An outcome is stored.
LEMMA BookOut ==
  ASSUME BooksInv, NEW d \in Ids, rows \in [Ids -> AnyRow], NEW out, OutBooks(d, out),
         out.row.state = "None" => rows[d].state = "None"
  PROVE  BooksOk(Written(rows, d, out.row), created, out.book, [trail EXCEPT !.booked[d] = @ + out.booked])
<1> DEFINE Q == Written(rows, d, out.row)
           h == [trail EXCEPT !.booked[d] = @ + out.booked]
<1>1. /\ CreatedOk(rows, created) /\ book \in BookRecords /\ trail \in TrailRecords
      /\ \A c \in Ids : trail.booked[c] = IF rows[c].state \in Open THEN 0 ELSE 1
      /\ ~ trail.blind => Balanced(rows, book) /\ Entered(rows, created)
  BY DEF BooksInv, BooksOk
<1>2. \A c \in Ids : Q[c] = IF c = d THEN out.row ELSE rows[c]
  BY DEF Written
<1>3. out.booked \in {0, 1} /\ out.book \in BookRecords
  BY <1>1 DEF OutBooks
<1>4. trail.booked \in [Ids -> Nat] /\ trail.blind \in BOOLEAN /\ trail.booked[d] + out.booked \in Nat
  BY <1>1, <1>3 DEF TrailRecords
<1>5. h = [trail EXCEPT !.booked = [trail.booked EXCEPT ![d] = trail.booked[d] + out.booked]]
  OBVIOUS
<1> HIDE DEF h, Q
<1>6. /\ h \in TrailRecords /\ h.blind = trail.blind
      /\ h.booked = [trail.booked EXCEPT ![d] = trail.booked[d] + out.booked]
  BY <1>1, <1>4, <1>5 DEF TrailRecords
<1>7. \A c \in Ids : h.booked[c] = IF c = d THEN trail.booked[d] + out.booked ELSE trail.booked[c]
  BY <1>4, <1>6
<1>8. CASE out.booked = 0 /\ out.book = book /\ out.row.state = rows[d].state
  <2>1. \A c \in Ids : Q[c].state = rows[c].state
    BY <1>2, <1>8
  <2>2. \A c \in Ids : h.booked[c] = trail.booked[c]
    BY <1>4, <1>7, <1>8
  <2>3. \A p : ConfirmedOf(Q, p) = ConfirmedOf(rows, p)
    BY <2>1 DEF ConfirmedOf
  <2>4. CreatedOk(Q, created)
    BY <1>1, <2>1 DEF CreatedOk
  <2>5. Balanced(rows, book) => Balanced(Q, book)
    BY <2>3 DEF Balanced
  <2>6. \A m \in 1..Len(created) : created[m] \in Ids
    BY <1>1, ElementOfSeq DEF CreatedOk
  <2>7. \A n \in 1..Len(created) : \A m \in 1 .. n - 1 : m \in 1..Len(created)
    BY <1>1, LenProperties DEF CreatedOk
  <2>8. Entered(rows, created) => Entered(Q, created)
    BY <2>1, <2>6, <2>7 DEF Entered
  <2> QED BY <1>1, <1>6, <1>8, <2>1, <2>2, <2>4, <2>5, <2>8 DEF BooksOk, Q, h
<1>9. CASE ~ (out.booked = 0 /\ out.book = book /\ out.row.state = rows[d].state)
  <2>1. /\ rows[d].state = "Pending" /\ out.row.state \notin Open /\ out.booked = 1
        /\ out.book.exposure = IF out.row.state # "Confirmed" THEN book.exposure
                               ELSE IF d[2] = "enter" THEN book.exposure + 1 ELSE book.exposure - 1
        /\ out.row.state = "Confirmed" /\ d[2] = "exit" => book.exposure > 0
    BY <1>9 DEF OutBooks
  <2>2. /\ \A c \in Ids : c # d => Q[c].state = rows[c].state
        /\ Q[d].state = out.row.state /\ rows[d].state # "Confirmed" /\ rows[d].state # "None" /\ Q[d].state # "None"
    BY <1>2, <2>1 DEF Open
  <2>3. CreatedOk(Q, created)
    BY <1>1, <2>2 DEF CreatedOk
  <2>4. \A c \in Ids : h.booked[c] = IF Q[c].state \in Open THEN 0 ELSE 1
    <3>1. trail.booked[d] = 0
      BY <1>1, <2>1 DEF Open
    <3> QED BY <1>1, <1>7, <2>1, <2>2, <3>1
  <2>5. \A m \in 1..Len(created) : created[m] \in Ids
    BY <1>1, ElementOfSeq DEF CreatedOk
  <2>6. \A n \in 1..Len(created) : \A m \in 1 .. n - 1 : m \in 1..Len(created)
    BY <1>1, LenProperties DEF CreatedOk
  <2>7. Entered(rows, created) => Entered(Q, created)
    BY <2>2, <2>5, <2>6 DEF Entered
  <2>8. Balanced(rows, book) => Balanced(Q, out.book)
    <3> DEFINE E == ConfirmedOf(rows, "enter")
               X == ConfirmedOf(rows, "exit")
               E2 == ConfirmedOf(Q, "enter")
               X2 == ConfirmedOf(Q, "exit")
    <3>1. IsFiniteSet(E) /\ IsFiniteSet(X) /\ Cardinality(E) \in Nat /\ Cardinality(X) \in Nat
      BY FiniteConfirmed
    <3>2. /\ d \notin E /\ d \notin X
          /\ E2 = IF Q[d].state = "Confirmed" /\ d[2] = "enter" THEN E \cup {d} ELSE E
          /\ X2 = IF Q[d].state = "Confirmed" /\ d[2] = "exit" THEN X \cup {d} ELSE X
      BY <2>2, ConfirmedChange
    <3>3. book.exposure \in Nat /\ d[2] \in {"enter", "exit"}
      BY <1>1, StrategyNumbers DEF BookRecords, Plans
    <3> HIDE DEF E, X, E2, X2
    <3>4. CASE Q[d].state # "Confirmed"
      BY <2>1, <2>2, <3>2, <3>4 DEF Balanced, E, X, E2, X2
    <3>5. CASE Q[d].state = "Confirmed" /\ d[2] = "enter"
      <4>1. Cardinality(E2) = Cardinality(E) + 1 /\ X2 = X /\ out.book.exposure = book.exposure + 1
        BY <2>1, <2>2, <3>1, <3>2, <3>5, OneMore
      <4>2. book.exposure + Cardinality(X) = Cardinality(E) => out.book.exposure + Cardinality(X2) = Cardinality(E2)
        BY <3>1, <3>3, <4>1
      <4> QED BY <4>2 DEF Balanced, E, X, E2, X2
    <3>6. CASE Q[d].state = "Confirmed" /\ d[2] = "exit"
      <4>1. Cardinality(X2) = Cardinality(X) + 1 /\ E2 = E /\ out.book.exposure = book.exposure - 1
        BY <2>1, <2>2, <3>1, <3>2, <3>6, OneMore
      <4>2. book.exposure + Cardinality(X) = Cardinality(E) => out.book.exposure + Cardinality(X2) = Cardinality(E2)
        BY <3>1, <3>3, <4>1
      <4> QED BY <4>2 DEF Balanced, E, X, E2, X2
    <3> QED BY <3>3, <3>4, <3>5, <3>6
  <2> QED BY <1>1, <1>3, <1>6, <2>3, <2>4, <2>7, <2>8 DEF BooksOk, Q, h
<1> QED BY <1>8, <1>9

\* The order of rows, snapshots and transactions, in the present state.
SendsInv == SendInv(rows, runner, scan, txs)

\* What becomes of a row: nothing, or a row that may be written.
OutOk(d, out) ==
  /\ \/ ~ out.wrote /\ out.row = rows[d]
     \/ out.wrote /\ RowOk(d, out.row, txs) /\ Writes(rows, d, out.row)
  /\ OutBooks(d, out)

\* The conclusion of a row is booked.
LEMMA ConcludeBooks ==
  ASSUME SendsInv, BooksInv, NEW r \in Scans, NEW d \in Ids, NEW out, OutOk(d, out), Conclude(r, d, out)
  PROVE  BooksInv'
<1>1. rows \in [Ids -> AnyRow]
  BY DEF SendsInv, SendInv, RowsOk
<1>2. out.row.state = "None" => rows[d].state = "None"
  BY DEF OutOk, RowOk
<1>3. BooksOk(Written(rows, d, out.row), created, out.book, [trail EXCEPT !.booked[d] = @ + out.booked])
  BY <1>1, <1>2, BookOut DEF OutOk
<1>4. /\ rows' = Written(rows, d, out.row) /\ trail' = [trail EXCEPT !.booked[d] = @ + out.booked] /\ created' = created
      /\ book' = RepairExposure(out.book, rows') \/ book' = out.book
  BY DEF Conclude, Store, Written
<1>5. BooksOk(rows', created, out.book, trail')
  BY <1>3, <1>4
<1>6. BooksOk(rows', created, RepairExposure(out.book, rows'), trail')
  BY <1>5, RepairOk
<1> QED BY <1>4, <1>5, <1>6 DEF BooksInv

\* A row is concluded.
LEMMA ConcludeOk ==
  ASSUME SendsInv, NEW r \in Scans, NEW d \in Ids, NEW out, OutOk(d, out), out.wrote \in BOOLEAN, Conclude(r, d, out)
  PROVE  SendsInv'
<1>1. runner \in [StrategyTurns -> RunnerRecords] /\ scan \in [Scans -> ScanRecords] /\ rows \in [Ids -> AnyRow]
      /\ (\A u \in Scans : scan[u].fresh \subseteq scan[u].left) /\ NoId \notin Ids
  BY StrategyNumbers DEF SendsInv, SendInv, RunnersOk, ScansOk, RowsOk
<1>2. rows' = Written(rows, d, out.row) /\ txs' = txs
  BY DEF Conclude, Store, Written
<1> DEFINE left == [scan[r] EXCEPT !.left = @ \ {d}, !.fresh = @ \ {d}, !.snap[d] = NoRow]
<1>3. /\ left \in ScanRecords /\ left.left = scan[r].left \ {d} /\ left.fresh = scan[r].fresh \ {d}
      /\ \A c \in Ids : c # d => left.snap[c] = scan[r].snap[c]
  <2>1. scan[r] \in ScanRecords
    BY <1>1
  <2>2. left = [scan[r] EXCEPT !.left = @ \ {d}, !.fresh = @ \ {d}, !.snap = [@ EXCEPT ![d] = NoRow]]
    OBVIOUS
  <2> QED BY <2>1, <2>2, AnyRows DEF ScanRecords
<1>4. NoScan \in ScanRecords /\ NoScan.left = {} /\ NoScan.fresh = {}
  BY AnyRows DEF NoScan, ScanRecords
<1>5. \E z \in {NoScan, left} : scan' = [(IF out.wrote THEN SpoilScans(scan, d) ELSE scan) EXCEPT ![r] = z]
  BY DEF Conclude
<1>6. PICK z \in {NoScan, left} : scan' = [(IF out.wrote THEN SpoilScans(scan, d) ELSE scan) EXCEPT ![r] = z]
  BY <1>5
<1>7. /\ z \in ScanRecords /\ z.left \subseteq scan[r].left \ {d} /\ z.fresh \subseteq z.left
      /\ z.fresh \subseteq scan[r].fresh \ {d} /\ \A c \in z.left : z.snap[c] = scan[r].snap[c]
  <2>1. scan[r].left \subseteq Ids
    BY <1>1 DEF ScanRecords
  <2> HIDE DEF left
  <2> QED BY <1>1, <1>3, <1>4, <1>6, <2>1
<1> HIDE DEF left
<1>8. CASE out.wrote
  <2>1. LessRunners(runner, SpoilRunners(runner, d), d)
    <3>1. ASSUME NEW t \in StrategyTurns
          PROVE  LET v == IF runner[t].id = d THEN [runner[t] EXCEPT !.fresh = FALSE] ELSE runner[t]
                 IN  v \in RunnerRecords /\ v.id = runner[t].id /\ v.row = runner[t].row
                       /\ (v.fresh => runner[t].fresh /\ v.id # d)
      BY <1>1 DEF RunnerRecords
    <3> QED BY <3>1 DEF LessRunners, SpoilRunners
  <2>2. LessScans(scan, scan', d)
    <3>1. \A u \in Scans : /\ SpoilScans(scan, d)[u] \in ScanRecords
                           /\ SpoilScans(scan, d)[u].left = scan[u].left
                           /\ SpoilScans(scan, d)[u].fresh = scan[u].fresh \ {d}
                           /\ SpoilScans(scan, d)[u].snap = scan[u].snap
      BY <1>1 DEF SpoilScans, ScanRecords
    <3>2. SpoilScans(scan, d) = [u \in Scans |-> SpoilScans(scan, d)[u]]
      BY DEF SpoilScans
    <3>3. scan' \in [Scans -> ScanRecords] /\ \A u \in Scans : scan'[u] = IF u = r THEN z ELSE SpoilScans(scan, d)[u]
      BY <1>6, <1>7, <1>8, <3>1, <3>2
    <3> QED BY <1>1, <1>7, <3>1, <3>3 DEF LessScans
  <2>3. runner' = SpoilRunners(runner, d) /\ RowOk(d, out.row, txs) /\ Writes(rows, d, out.row)
    BY <1>8 DEF Conclude, OutOk
  <2>4. SendInv(Written(rows, d, out.row), runner', scan', txs)
    BY <2>1, <2>2, <2>3, WriteOk DEF SendsInv
  <2> QED BY <1>2, <2>4 DEF SendsInv
<1>9. CASE ~ out.wrote
  <2>1. runner' = runner /\ rows' = rows
    BY <1>1, <1>2, <1>9 DEF Conclude, OutOk, Written
  <2>2. LessRunners(runner, runner, NoId)
    BY <1>1 DEF LessRunners
  <2>3. LessScans(scan, scan', NoId)
    <3>1. scan' \in [Scans -> ScanRecords] /\ \A u \in Scans : scan'[u] = IF u = r THEN z ELSE scan[u]
      BY <1>1, <1>6, <1>7, <1>9
    <3>2. \A u \in Scans : scan[u].fresh \ {NoId} = scan[u].fresh
      BY <1>1 DEF ScanRecords
    <3> QED BY <1>1, <1>7, <3>1, <3>2 DEF LessScans
  <2> QED BY <1>2, <2>1, <2>2, <2>3, LessOk DEF SendsInv
<1> QED BY <1>8, <1>9

-----------------------------------------------------------------------------
\* What a failure makes of the row.
LEMMA FailureOut ==
  ASSUME book \in BookRecords, NEW d \in Ids, NEW x, RowOk(d, x, txs), x.state \notin Open, x.state # "Confirmed",
         NEW deterministic
  PROVE  LET out == FailureBooked(d, x, deterministic)
         IN  /\ OutOk(d, out) /\ out.wrote = (rows[d].state = "Pending") /\ out.wrote \in BOOLEAN
             /\ out.row = IF rows[d].state = "Pending" THEN x ELSE rows[d]
<1> DEFINE out == FailureBooked(d, x, deterministic)
<1>1. CASE rows[d].state = "Pending"
  <2>1. out.wrote = TRUE /\ out.row = x /\ out.booked = 1 /\ out.book = Failed(book, deterministic)
    BY <1>1 DEF FailureBooked, Bookable, Progress, Untouched
  <2>2. out.book \in BookRecords /\ out.book.exposure = book.exposure
    BY <2>1, FailedIs
  <2> HIDE DEF out
  <2>3. OutBooks(d, out)
    BY <1>1, <2>1, <2>2 DEF OutBooks
  <2> QED BY <1>1, <2>1, <2>3 DEF OutOk, Writes, out
<1>2. CASE rows[d].state # "Pending"
  <2>1. out.wrote = FALSE /\ out.row = rows[d] /\ out.booked = 0 /\ out.book = book
    BY <1>2 DEF FailureBooked, Bookable, Untouched
  <2> HIDE DEF out
  <2> QED BY <1>2, <2>1 DEF OutOk, OutBooks, out
<1> QED BY <1>1, <1>2

\* What a success makes of it.
LEMMA SuccessOut ==
  ASSUME book \in BookRecords, NEW d \in Ids, NEW x, RowOk(d, x, txs), x.state = "Confirmed"
  PROVE  LET out == SuccessBooked(d, x)
         IN  OutOk(d, out) /\ out.wrote \in BOOLEAN
<1> DEFINE out == SuccessBooked(d, x)
<1>1. CASE CanSucceed(book, d[2]) /\ Bookable(d)
  <2>1. out.wrote = TRUE /\ out.row = x /\ out.booked = 1 /\ out.book = Succeeded(book, d[2])
    BY <1>1 DEF SuccessBooked, Progress, Untouched
  <2>2. d[2] \in {"enter", "exit"} /\ book.exposure \in Nat /\ book.spent \in Nat
    BY StrategyNumbers DEF Plans, BookRecords
  <2>3. d[2] = "exit" => book.exposure > 0
    BY <1>1 DEF CanSucceed
  <2>4. /\ Succeeded(book, d[2]) \in BookRecords
        /\ Succeeded(book, d[2]).exposure = IF d[2] = "enter" THEN book.exposure + 1 ELSE book.exposure - 1
    BY <2>2, <2>3 DEF Succeeded, BookRecords
  <2> HIDE DEF out
  <2>5. OutBooks(d, out)
    BY <1>1, <2>1, <2>3, <2>4 DEF OutBooks, Bookable, Open
  <2> QED BY <1>1, <2>1, <2>5 DEF OutOk, Writes, Bookable, Open, out
<1>2. CASE ~ (CanSucceed(book, d[2]) /\ Bookable(d))
  <2>1. out.wrote = FALSE /\ out.row = rows[d] /\ out.booked = 0 /\ out.book = book
    BY <1>2 DEF SuccessBooked, Untouched
  <2> HIDE DEF out
  <2> QED BY <2>1 DEF OutOk, OutBooks, out
<1> QED BY <1>1, <1>2

\* What progress makes of it.
LEMMA ProgressOut ==
  ASSUME NEW r \in Scans, NEW d \in Ids, NEW x, RowOk(d, x, txs), x.state = "Pending",
         d \in scan[r].fresh => rows[d].state = "Pending" /\ x.tx = rows[d].tx
  PROVE  LET out == ProgressIfFresh(r, d, x)
         IN  OutOk(d, out) /\ out.wrote \in BOOLEAN
<1> DEFINE out == ProgressIfFresh(r, d, x)
<1>1. CASE d \in scan[r].fresh
  <2>1. out.wrote = TRUE /\ out.row = x /\ out.booked = 0 /\ out.book = book
    BY <1>1 DEF ProgressIfFresh, Progress, Untouched
  <2> HIDE DEF out
  <2> QED BY <1>1, <2>1 DEF OutOk, Writes, OutBooks, out
<1>2. CASE d \notin scan[r].fresh
  <2>1. out.wrote = FALSE /\ out.row = rows[d] /\ out.booked = 0 /\ out.book = book
    BY <1>2 DEF ProgressIfFresh, Untouched
  <2> HIDE DEF out
  <2> QED BY <2>1 DEF OutOk, OutBooks, out
<1> QED BY <1>1, <1>2

\* The snapshot of a reconciliation.
LEMMA SnapOk ==
  ASSUME SendsInv, NEW r \in Scans, NEW d \in Ids, d \in scan[r].left
  PROVE  LET old == scan[r].snap[d]
         IN  RowOk(d, old, txs) /\ old.state = "Pending" /\ old \in RowsOf(d) /\ (d \in scan[r].fresh => rows[d] = old)
BY DEF SendsInv, SendInv, ScansOk, RowOk

\* The type of the book.
LEMMA BookTyped ==
  ASSUME BooksInv
  PROVE  book \in BookRecords
BY DEF BooksInv, BooksOk

\* The receipts of a row are read.
LEMMA ReturnKeepsSends ==
  ASSUME SendsInv, BooksInv, NEW r \in Scans, NEW d \in Ids, ReceiptsReturn(r, d)
  PROVE  SendsInv' /\ BooksInv'
<1> DEFINE old == scan[r].snap[d]
<1>1. PICK late \in BOOLEAN : \E f \in Receipts(old, Len(old.call) + 1, late) :
           LET row    == [old EXCEPT !.call = f]
               failed == [row EXCEPT !.state = IF "Confirmed" \in States(row) THEN "PartialFailure"
                                               ELSE IF "Reverted" \in States(row) THEN "Reverted"
                                               ELSE "Dropped"]
           IN  Conclude(r, d,
                 IF States(row) \cap {"Reverted", "Dropped"} # {}
                 THEN FailureBooked(d, failed, "Reverted" \in States(row))
                 ELSE IF States(row) = {"Confirmed"}
                 THEN SuccessBooked(d, [row EXCEPT !.state = "Confirmed"])
                 ELSE ProgressIfFresh(r, d, row))
  BY DEF ReceiptsReturn
<1>2. PICK f \in Receipts(old, Len(old.call) + 1, late) :
           LET row    == [old EXCEPT !.call = f]
               failed == [row EXCEPT !.state = IF "Confirmed" \in States(row) THEN "PartialFailure"
                                               ELSE IF "Reverted" \in States(row) THEN "Reverted"
                                               ELSE "Dropped"]
           IN  Conclude(r, d,
                 IF States(row) \cap {"Reverted", "Dropped"} # {}
                 THEN FailureBooked(d, failed, "Reverted" \in States(row))
                 ELSE IF States(row) = {"Confirmed"}
                 THEN SuccessBooked(d, [row EXCEPT !.state = "Confirmed"])
                 ELSE ProgressIfFresh(r, d, row))
  BY <1>1
<1> DEFINE row == [old EXCEPT !.call = f]
           z == IF "Confirmed" \in States(row) THEN "PartialFailure"
                ELSE IF "Reverted" \in States(row) THEN "Reverted" ELSE "Dropped"
           failed == [row EXCEPT !.state = z]
           done == [row EXCEPT !.state = "Confirmed"]
           failing == States(row) \cap {"Reverted", "Dropped"} # {}
           out == IF failing THEN FailureBooked(d, failed, "Reverted" \in States(row))
                  ELSE IF States(row) = {"Confirmed"} THEN SuccessBooked(d, done)
                  ELSE ProgressIfFresh(r, d, row)
<1>3. Conclude(r, d, out)
  BY <1>2
<1>4. d \in scan[r].left
  BY DEF ReceiptsReturn
<1>5. RowOk(d, old, txs) /\ old.state = "Pending" /\ old \in RowsOf(d) /\ (d \in scan[r].fresh => rows[d] = old)
  BY <1>4, SnapOk
<1> HIDE DEF old
<1>6. /\ f \in [CallsOf(d) -> CallStates]
      /\ \A i \in CallsOf(d) : f[i] \in {"Submitted", "Confirmed"} => old.tx[i] \in 1..Len(txs)
      /\ \A i \in CallsOf(d) : f[i] = "Confirmed" => txs[old.tx[i]].status = "mined"
  BY <1>2, <1>5, ReceiptsOk
<1>7. /\ row = Became(old, f, "Pending") /\ failed = Became(old, f, z) /\ done = Became(old, f, "Confirmed")
      /\ States(row) = {f[i] : i \in CallsOf(d)}
  <2>1. row = Became(old, f, "Pending")
    BY <1>5 DEF RowsOf, Became
  <2> HIDE DEF row
  <2>2. failed = Became(old, f, z) /\ done = Became(old, f, "Confirmed")
    <3> HIDE DEF z
    <3> QED BY <2>1 DEF Became
  <2>3. DOMAIN f = CallsOf(d)
    BY <1>6
  <2>4. States(row) = {f[i] : i \in CallsOf(d)}
    BY <2>1, <2>3 DEF States, Became
  <2> QED BY <2>1, <2>2, <2>4
<1>8. /\ row.state = "Pending" /\ row.tx = old.tx /\ done.state = "Confirmed"
      /\ failed.state = z /\ z \in {"PartialFailure", "Reverted", "Dropped"}
  BY <1>7 DEF Became
<1> HIDE DEF row, failed, done, z
<1>9. CASE failing
  <2>1. RowOk(d, failed, txs) /\ failed.state \notin Open /\ failed.state # "Confirmed"
    BY <1>5, <1>6, <1>7, <1>8, BecameOk DEF RowStates, Open
  <2>2. OutOk(d, out) /\ out.wrote \in BOOLEAN
    BY <1>9, <2>1, FailureOut, BookTyped
  <2> QED BY <1>3, <2>2, ConcludeOk, ConcludeBooks
<1>10. CASE ~ failing /\ States(row) = {"Confirmed"}
  <2>1. \A i \in CallsOf(d) : f[i] = "Confirmed"
    BY <1>7, <1>10
  <2>2. RowOk(d, done, txs) /\ done.state = "Confirmed"
    BY <1>5, <1>6, <1>7, <1>8, <2>1, BecameOk DEF RowStates, Open
  <2>3. OutOk(d, out) /\ out.wrote \in BOOLEAN
    BY <1>10, <2>2, SuccessOut, BookTyped
  <2> QED BY <1>3, <2>3, ConcludeOk, ConcludeBooks
<1>11. CASE ~ failing /\ States(row) # {"Confirmed"}
  <2>1. RowOk(d, row, txs)
    BY <1>5, <1>6, <1>7, BecameOk DEF RowStates
  <2>2. OutOk(d, out) /\ out.wrote \in BOOLEAN
    BY <1>5, <1>8, <1>11, <2>1, ProgressOut
  <2> QED BY <1>3, <2>2, ConcludeOk, ConcludeBooks
<1> QED BY <1>9, <1>10, <1>11

\* A receipt could not be read.
LEMMA FailKeepsSends ==
  ASSUME SendsInv, BooksInv, NEW r \in Scans, NEW d \in Ids, ReceiptFails(r, d)
  PROVE  SendsInv' /\ BooksInv'
<1> DEFINE old == scan[r].snap[d]
           broken == [Untouched(d) EXCEPT !.error = TRUE]
<1>1. d \in scan[r].left
  BY DEF ReceiptFails
<1>2. RowOk(d, old, txs) /\ old.state = "Pending" /\ old \in RowsOf(d) /\ (d \in scan[r].fresh => rows[d] = old)
  BY <1>1, SnapOk
<1>3. \/ \E n : \E late : \E f \in Receipts(old, n, late) : Conclude(r, d, ProgressIfFresh(r, d, [old EXCEPT !.call = f]))
      \/ Conclude(r, d, broken)
  BY DEF ReceiptFails
<1>4. OutOk(d, broken) /\ broken.wrote \in BOOLEAN
  BY DEF OutOk, OutBooks, Untouched
<1> HIDE DEF broken, old
<1>5. ASSUME NEW n, NEW late, NEW f \in Receipts(old, n, late), Conclude(r, d, ProgressIfFresh(r, d, [old EXCEPT !.call = f]))
      PROVE  SendsInv' /\ BooksInv'
  <2>1. /\ f \in [CallsOf(d) -> CallStates]
        /\ \A i \in CallsOf(d) : f[i] \in {"Submitted", "Confirmed"} => old.tx[i] \in 1..Len(txs)
        /\ \A i \in CallsOf(d) : f[i] = "Confirmed" => txs[old.tx[i]].status = "mined"
    BY <1>2, ReceiptsOk
  <2> DEFINE row == [old EXCEPT !.call = f]
             out == ProgressIfFresh(r, d, row)
  <2>2. row = Became(old, f, "Pending")
    BY <1>2 DEF RowsOf, Became
  <2>3. row.state = "Pending" /\ row.tx = old.tx
    BY <2>2 DEF Became
  <2>4. Conclude(r, d, out)
    BY <1>5
  <2> HIDE DEF row
  <2>5. RowOk(d, row, txs)
    BY <1>2, <2>1, <2>2, BecameOk DEF RowStates
  <2>6. OutOk(d, out) /\ out.wrote \in BOOLEAN
    BY <1>2, <2>3, <2>5, ProgressOut
  <2> QED BY <2>4, <2>6, ConcludeOk, ConcludeBooks
<1>6. ASSUME Conclude(r, d, broken) PROVE SendsInv' /\ BooksInv'
  BY <1>4, <1>6, ConcludeOk, ConcludeBooks
<1> QED BY <1>3, <1>5, <1>6

-----------------------------------------------------------------------------
\* The types of what is under way.
LEMMA SendsTyped ==
  ASSUME SendsInv
  PROVE  /\ runner \in [StrategyTurns -> RunnerRecords] /\ scan \in [Scans -> ScanRecords]
         /\ rows \in [Ids -> AnyRow] /\ txs \in Seq(TxRecords) /\ Len(txs) \in Nat
         /\ NoId \notin Ids /\ \A u \in Scans : scan[u].fresh \subseteq scan[u].left
<1>1. txs \in Seq(TxRecords)
  BY DEF SendsInv, SendInv, SendsOk
<1> QED BY <1>1, StrategyNumbers, LenProperties DEF SendsInv, SendInv, RunnersOk, ScansOk, RowsOk

\* A write spoils the snapshots of the row.
LEMMA SpoiltScans ==
  ASSUME SendsInv, NEW d
  PROVE  LessScans(scan, SpoilScans(scan, d), d)
<1>1. scan \in [Scans -> ScanRecords] /\ \A u \in Scans : scan[u].fresh \subseteq scan[u].left
  BY SendsTyped
<1>2. \A u \in Scans : LET z == [scan[u] EXCEPT !.fresh = @ \ {d}]
                       IN  /\ z \in ScanRecords /\ z.left = scan[u].left /\ z.fresh = scan[u].fresh \ {d}
                           /\ z.snap = scan[u].snap
  BY <1>1 DEF ScanRecords
<1> QED BY <1>1, <1>2 DEF LessScans, SpoilScans

\* Nothing becomes stale.
LEMMA SameScans ==
  ASSUME SendsInv
  PROVE  LessScans(scan, scan, NoId)
<1>1. \A u \in Scans : scan[u].fresh \ {NoId} = scan[u].fresh
  BY SendsTyped DEF ScanRecords
<1> QED BY <1>1, SendsTyped DEF LessScans

\* A turn that stops sending.
LEMMA IdleOk ==
  ASSUME SendsInv, NEW t \in StrategyTurns
  PROVE  /\ Idle(t) \in RunnerRecords /\ Idle(t).id = NoId
         /\ [runner EXCEPT ![t] = Idle(t)] \in [StrategyTurns -> RunnerRecords]
         /\ [runner EXCEPT ![t] = Idle(t)][t].id = NoId
         /\ \A u \in StrategyTurns : u # t => [runner EXCEPT ![t] = Idle(t)][u] = runner[u]
<1>1. runner[t] \in RunnerRecords /\ runner \in [StrategyTurns -> RunnerRecords]
  BY SendsTyped
<1>2. Idle(t) \in RunnerRecords /\ Idle(t).id = NoId
  BY <1>1, AnyRows DEF Idle, RunnerRecords
<1> QED BY <1>1, <1>2

\* A call is sent.
LEMMA SendKeepsSends ==
  ASSUME SendsInv, NEW t \in StrategyTurns, SendSucceeds(t)
  PROVE  SendsInv'
<1> DEFINE d == runner[t].id
           i == NextCall(runner[t].row)
           e == [id |-> d, call |-> i, status |-> "pending", raced |-> ~ runner[t].fresh]
           y == [runner[t].row EXCEPT !.call[i] = "Submitted", !.tx[i] = Len(txs) + 1]
<1>1. d # NoId /\ txs' = Append(txs, e)
  BY DEF SendSucceeds, Sent
<1>2. /\ runner[t] \in RunnerRecords /\ runner \in [StrategyTurns -> RunnerRecords] /\ scan \in [Scans -> ScanRecords]
      /\ d \in Ids /\ d[1] = t /\ RowOk(d, runner[t].row, txs) /\ runner[t].row \in RowsOf(d) /\ i # 0 /\ Len(txs) \in Nat
  BY <1>1, SendsTyped DEF SendsInv, SendInv, RunnersOk, RunnerRecords, RowOk
<1>3. i \in CallsOf(d)
  BY <1>2, NextCallIs
<1>4. e \in TxRecords /\ e.id = d /\ e.call = i /\ (e.raced <=> ~ runner[t].fresh)
  BY <1>2, <1>3, StrategyNumbers DEF TxRecords, RunnerRecords
<1>5. y = Sending(runner[t].row, i, Len(txs) + 1)
  BY DEF Sending
<1>6. CASE runner[t].fresh
  <2>1. /\ rows' = Written(rows, d, y) /\ scan' = SpoilScans(scan, d)
        /\ runner' = [runner EXCEPT ![t] = IF NextCall(y) = 0 THEN Idle(t) ELSE [runner[t] EXCEPT !.row = y]]
    BY <1>6 DEF SendSucceeds, Written
  <2>2. LessScans(scan, scan', d)
    BY <2>1, SpoiltScans
  <2>3. y \in RowsOf(d)
    <3>1. RowOk(d, y, Append(txs, e))
      <4>1. Later(txs, Append(txs, e)) /\ Len(Append(txs, e)) = Len(txs) + 1
        BY <1>4, SentLater, SendsTyped
      <4>2. runner[t].row.state = "Pending"
        BY <1>1 DEF SendsInv, SendInv, RunnersOk
      <4> DEFINE x == runner[t].row
                 U == Append(txs, e)
      <4>3. RowOk(d, x, txs) /\ y = Sending(x, i, Len(txs) + 1)
        BY <1>2, <1>5
      <4> HIDE DEF d, i, e, x, U, y
      <4>4. RowOk(d, Sending(x, i, Len(txs) + 1), U)
        BY <1>2, <1>3, <4>1, <4>2, <4>3, SendingRow DEF x, U
      <4> QED BY <4>3, <4>4 DEF U
    <3> QED BY <3>1 DEF RowOk
  <2> HIDE DEF y
  <2> DEFINE v == IF NextCall(y) = 0 THEN Idle(t) ELSE [runner[t] EXCEPT !.row = y]
  <2>4. v \in RunnerRecords /\ (v.id # NoId => v.id = d /\ v.row = y /\ NextCall(y) # 0)
    <3>1. y \in AnyRow
      BY <1>2, <2>3, AnyRows
    <3>2. CASE NextCall(y) = 0
      BY <3>2, IdleOk
    <3>3. CASE NextCall(y) # 0
      BY <1>2, <3>1, <3>3 DEF RunnerRecords
    <3> QED BY <3>2, <3>3
  <2>5. /\ runner' \in [StrategyTurns -> RunnerRecords] /\ runner'[t] = v
        /\ \A u \in StrategyTurns : u # t => runner'[u] = runner[u]
    <3>1. runner' = [runner EXCEPT ![t] = v]
      BY <2>1
    <3> HIDE DEF v
    <3> QED BY <1>2, <2>4, <3>1
  <2>6. SendInv(Written(rows, d, y), runner', scan', Append(txs, e))
    <3>1. \A V : /\ V \in [StrategyTurns -> RunnerRecords] /\ (\A u \in StrategyTurns : u # t => V[u] = runner[u])
                 /\ (V[t].id # NoId => V[t].id = runner[t].id /\ V[t].row = y /\ NextCall(y) # 0)
                 => SendInv(Written(rows, runner[t].id, y), V, scan', Append(txs, e))
      <4>1. y = Sending(runner[t].row, NextCall(runner[t].row), Len(txs) + 1) /\ e.call = NextCall(runner[t].row)
        BY <1>4, <1>5
      <4>2. LessScans(scan, scan', runner[t].id) /\ e.id = runner[t].id /\ runner[t].id # NoId
        BY <1>1, <1>4, <2>2
      <4>3. e \in TxRecords /\ SendInv(rows, runner, scan, txs)
        BY <1>4 DEF SendsInv
      <4> HIDE DEF e
      <4> QED BY <1>6, <4>1, <4>2, <4>3, SentOk
    <3> QED BY <2>4, <2>5, <3>1
  <2> QED BY <1>1, <2>1, <2>6 DEF SendsInv
<1>7. CASE ~ runner[t].fresh
  <2>1. runner' = [runner EXCEPT ![t] = Idle(t)] /\ rows' = rows /\ scan' = scan
    BY <1>7 DEF SendSucceeds
  <2>2. LessRunners(runner, runner', NoId)
    BY <2>1, IdleOk DEF LessRunners
  <2>3. SendInv(rows, runner', scan, txs)
    BY <2>2, LessOk, SameScans DEF SendsInv
  <2>4. e.raced
    BY <1>4, <1>7
  <2> HIDE DEF e
  <2>5. SendInv(rows, runner', scan, Append(txs, e))
    BY <1>4, <2>3, <2>4, StrayOk
  <2> QED BY <1>1, <2>1, <2>5 DEF SendsInv
<1> QED BY <1>6, <1>7

\* A call cannot be sent, or its answer was lost.
LEMMA LostKeepsSends ==
  ASSUME SendsInv, BooksInv, NEW t \in StrategyTurns, NEW arrived \in BOOLEAN, SendFails(t, arrived)
  PROVE  SendsInv' /\ BooksInv'
<1> DEFINE d == runner[t].id
           x == runner[t].row
           i == NextCall(x)
           e == [id |-> d, call |-> i, status |-> "pending", raced |-> FALSE]
           z == IF \A j \in CallsOf(d) : x.tx[j] = 0 THEN "Dropped" ELSE "PartialFailure"
           y == [x EXCEPT !.call[i] = "Dropped", !.state = z]
<1>1. d # NoId /\ txs' = (IF arrived THEN Append(txs, e) ELSE txs) /\ runner' = [runner EXCEPT ![t] = Idle(t)]
  BY DEF SendFails, Sent
<1>2. PICK deterministic \in BOOLEAN :
        LET out == FailureBooked(d, y, deterministic)
        IN  Store(d, out) /\ book' = out.book /\ scan' = IF out.wrote THEN SpoilScans(scan, d) ELSE scan
  BY DEF SendFails
<1>3. /\ runner[t] \in RunnerRecords /\ runner \in [StrategyTurns -> RunnerRecords] /\ scan \in [Scans -> ScanRecords]
      /\ d \in Ids /\ d[1] = t /\ RowOk(d, x, txs) /\ x \in RowsOf(d) /\ i # 0 /\ Len(txs) \in Nat
      /\ rows \in [Ids -> AnyRow] /\ rows[d].state # "None"
  BY <1>1, SendsTyped DEF SendsInv, SendInv, RunnersOk, RunnerRecords, RowOk
<1>4. i \in CallsOf(d) /\ x.tx[i] = 0
  BY <1>3, NextCallIs
<1>5. e \in TxRecords /\ e.id = d /\ e.call = i
  BY <1>3, <1>4, StrategyNumbers DEF TxRecords
<1>6. \A u \in StrategyTurns : runner'[u].id # NoId => u # t /\ runner'[u] = runner[u] /\ runner[u].id # d
  BY <1>1, <1>3, IdleOk DEF SendsInv, SendInv, RunnersOk
<1>7. \A k : Counts(txs, k, d) => txs[k].call # i
  BY <1>1, <1>4 DEF SendsInv, SendInv, SendsOk
<1>8. z \in {"Dropped", "PartialFailure"}
  OBVIOUS
<1> HIDE DEF d, i, e, x, z
<1>9. RowOk(d, y, txs) /\ y.state = z
  <2> DEFINE f == [x.call EXCEPT ![i] = "Dropped"]
  <2>1. y = [x EXCEPT !.call = [@ EXCEPT ![i] = "Dropped"], !.state = z]
    OBVIOUS
  <2>2. x.state \in RowStates /\ x.call \in [CallsOf(d) -> CallStates] /\ x.tx \in [CallsOf(d) -> Nat]
    BY <1>3 DEF RowsOf
  <2>3. f \in [CallsOf(d) -> CallStates] /\ \A j \in CallsOf(d) : f[j] = IF j = i THEN "Dropped" ELSE x.call[j]
    BY <1>4, <2>2 DEF CallStates
  <2>4. z \in RowStates /\ z # "None" /\ z # "Confirmed"
    BY <1>8 DEF RowStates
  <2> HIDE DEF y
  <2>5. y.state = z /\ y.call = f /\ y.tx = x.tx
    BY <1>3, <2>1 DEF RowsOf
  <2> HIDE DEF f
  <2>6. y \in RowsOf(d)
    BY <1>3, <2>1, <2>2, <2>3, <2>4 DEF RowsOf, f
  <2>7. \A j \in CallsOf(d) : f[j] \in {"Submitted", "Confirmed"} => x.tx[j] \in 1..Len(txs)
    BY <1>3, <2>3 DEF RowOk
  <2>8. \A j \in CallsOf(d) : f[j] = "Confirmed" => txs[x.tx[j]].status = "mined"
    BY <1>3, <2>3 DEF RowOk
  <2> QED BY <2>4, <2>5, <2>6, <2>7, <2>8 DEF RowOk
<1> HIDE DEF y
<1> DEFINE out == FailureBooked(d, y, deterministic)
<1>10. /\ OutOk(d, out) /\ (out.wrote <=> rows[d].state = "Pending")
       /\ out.row = IF rows[d].state = "Pending" THEN y ELSE rows[d]
  BY <1>3, <1>8, <1>9, FailureOut, BookTyped DEF Open
<1>11. rows' = Written(rows, d, out.row) /\ scan' = IF out.wrote THEN SpoilScans(scan, d) ELSE scan
  BY <1>2 DEF Store, Written
<1> HIDE DEF out
<1>12. \A c : LessRunners(runner, runner', c) <=> \A u \in StrategyTurns : runner'[u].id # NoId /\ runner'[u].fresh => runner'[u].id # c
  BY <1>1, <1>6, IdleOk DEF LessRunners
<1>13. LessRunners(runner, runner', d) /\ LessRunners(runner, runner', NoId)
  BY <1>6, <1>12
<1>14. SendInv(rows', runner', scan', txs) /\ rows'[d].state \notin Open
  <2>1. CASE rows[d].state = "Pending"
    <3>1. RowOk(d, out.row, txs) /\ Writes(rows, d, out.row) /\ scan' = SpoilScans(scan, d) /\ out.row = y
      BY <1>10, <1>11, <2>1 DEF OutOk
    <3>2. LessScans(scan, scan', d)
      BY <3>1, SpoiltScans
    <3>3. SendInv(Written(rows, d, out.row), runner', scan', txs)
      BY <1>13, <3>1, <3>2, WriteOk DEF SendsInv
    <3>4. rows'[d] = y
      BY <1>3, <1>11, <3>1 DEF Written
    <3> QED BY <1>8, <1>9, <1>11, <3>3, <3>4 DEF Open
  <2>2. CASE rows[d].state # "Pending"
    <3>1. rows' = rows /\ scan' = scan
      BY <1>3, <1>10, <1>11, <2>2 DEF Written
    <3>2. SendInv(rows, runner', scan, txs)
      BY <1>13, LessOk, SameScans DEF SendsInv
    <3> QED BY <1>3, <2>2, <3>1, <3>2 DEF Open
  <2> QED BY <2>1, <2>2
<1>15. BooksInv'
  <2>1. BooksOk(Written(rows, d, out.row), created, out.book, [trail EXCEPT !.booked[d] = @ + out.booked])
    BY <1>3, <1>10, BookOut DEF OutOk, RowOk
  <2>2. trail' = [trail EXCEPT !.booked[d] = @ + out.booked] /\ book' = out.book /\ created' = created
    BY <1>2 DEF Store, out, SendFails
  <2> QED BY <1>11, <2>1, <2>2 DEF BooksInv
<1>16. CASE arrived
  <2>1. \A u \in StrategyTurns : runner'[u].id # d
    BY <1>3, <1>6, StrategyNumbers
  <2>2. SendInv(rows', runner', scan', Append(txs, e))
    BY <1>5, <1>7, <1>14, <2>1, StrayOk
  <2> QED BY <1>1, <1>15, <1>16, <2>2 DEF SendsInv
<1>17. CASE ~ arrived
  BY <1>1, <1>14, <1>15, <1>17 DEF SendsInv
<1> QED BY <1>16, <1>17

\* An execution is taken up.
LEMMA ExecuteKeepsSends ==
  ASSUME SendsInv, NEW t \in StrategyTurns, NEW plan \in Plans, Execute(t, plan)
  PROVE  SendsInv'
<1> DEFINE d == <<t, plan>>
           x == Starting(rows, d)
<1>1. d \in Ids /\ d[1] = t
  BY DEF Ids
<1>2. /\ rows' = Written(rows, d, x) /\ x.state = "Pending" /\ txs' = txs
      /\ IF NextCall(x) = 0 THEN scan' = SpoilScans(scan, d) /\ runner' = runner
         ELSE runner' = [runner EXCEPT ![t] = [@ EXCEPT !.id = d, !.row = x, !.fresh = TRUE]] /\ scan' = scan
  BY DEF Execute, Written, Starting
<1> HIDE DEF d, x
<1>3. x \in AnyRow
  <2>1. NewRow(d) \in RowsOf(d)
    BY DEF NewRow, RowsOf, RowStates, CallStates
  <2> QED BY <1>1, <2>1, AnyRows, SendsTyped DEF x, Starting
<1>4. LessScans(scan, scan', NoId)
  <2>1. CASE NextCall(x) = 0
    <3>1. LessScans(scan, scan', d)
      BY <1>2, <2>1, SpoiltScans
    <3>2. \A u \in Scans : NoId \notin scan'[u].fresh
      BY <3>1, SendsTyped DEF LessScans, ScanRecords
    <3> QED BY <3>1, <3>2 DEF LessScans
  <2>2. CASE NextCall(x) # 0
    BY <1>2, <2>2, SameScans
  <2> QED BY <2>1, <2>2
<1>5. /\ runner' \in [StrategyTurns -> RunnerRecords]
      /\ \A u \in StrategyTurns : runner'[u].id # NoId =>
           \/ runner'[u].id = runner[u].id /\ runner'[u].row = runner[u].row /\ runner'[u].fresh = runner[u].fresh
           \/ d[1] = u /\ runner'[u].id = d /\ runner'[u].row = x /\ NextCall(x) # 0
  <2>1. CASE NextCall(x) = 0
    BY <1>2, <2>1, SendsTyped
  <2>2. CASE NextCall(x) # 0
    <3> DEFINE v == [runner[t] EXCEPT !.id = d, !.row = x, !.fresh = TRUE]
    <3>1. runner[t] \in RunnerRecords /\ runner \in [StrategyTurns -> RunnerRecords]
      BY SendsTyped
    <3>2. v \in RunnerRecords /\ v.id = d /\ v.row = x
      BY <1>1, <1>3, <3>1 DEF RunnerRecords
    <3>3. runner' = [runner EXCEPT ![t] = v]
      BY <1>2, <2>2
    <3> HIDE DEF v
    <3>4. runner' \in [StrategyTurns -> RunnerRecords] /\ runner'[t] = v /\ \A u \in StrategyTurns : u # t => runner'[u] = runner[u]
      BY <3>1, <3>2, <3>3
    <3> QED BY <1>1, <2>2, <3>2, <3>4
  <2> QED BY <2>1, <2>2
<1>6. SendInv(Written(rows, d, x), runner', scan', txs)
  BY <1>1, <1>2, <1>4, <1>5, StartOk DEF SendsInv, x
<1> QED BY <1>2, <1>6 DEF SendsInv

\* Turns begin, end and simulate; the operator changes a template: what is being sent stays.
LEMMA QuietKeepsSends ==
  ASSUME SendsInv, rows' = rows, scan' = scan, txs' = txs, runner' \in [StrategyTurns -> RunnerRecords],
         \A u \in StrategyTurns : runner'[u].id # NoId =>
           runner'[u].id = runner[u].id /\ runner'[u].row = runner[u].row /\ runner'[u].fresh = runner[u].fresh
  PROVE  SendsInv'
<1>1. LessRunners(runner, runner', NoId)
  BY DEF LessRunners
<1> QED BY <1>1, LessOk, SameScans DEF SendsInv

\* A reconciliation begins.
LEMMA BeginKeepsSends ==
  ASSUME SendsInv, NEW r \in Scans, NEW due \in SUBSET Ids, BeginReconcile(r, due)
  PROVE  SendsInv'
<1>1. rows' = rows /\ runner' = runner /\ txs' = txs /\ \A d \in due : rows[d].state = "Pending"
  BY DEF BeginReconcile
<1>2. CASE due = {}
  <2>1. scan' = scan
    BY <1>2 DEF BeginReconcile
  <2> QED BY <1>1, <2>1 DEF SendsInv
<1>3. CASE due # {}
  <2> DEFINE z == [on |-> TRUE, left |-> due, fresh |-> due, snap |-> [d \in Ids |-> IF d \in due THEN rows[d] ELSE NoRow]]
  <2>1. scan' = [scan EXCEPT ![r] = z]
    BY <1>3 DEF BeginReconcile
  <2>2. z \in ScanRecords /\ z.left = due /\ z.fresh = due /\ \A d \in due : z.snap[d] = rows[d]
    BY SendsTyped, AnyRows DEF ScanRecords
  <2> HIDE DEF z
  <2>3. SendInv(rows, runner, [scan EXCEPT ![r] = z], txs)
    BY <1>1, <2>2, ReadOk DEF SendsInv
  <2> QED BY <1>1, <2>1, <2>3 DEF SendsInv
<1> QED BY <1>2, <1>3

-----------------------------------------------------------------------------
\* Steps that leave the rows alone and the exposure as it was.
LEMMA QuietKeepsBooks ==
  ASSUME BooksInv, rows' = rows, created' = created, book' \in BookRecords, book'.exposure = book.exposure,
         trail' \in TrailRecords, trail'.booked = trail.booked, trail'.blind = trail.blind
  PROVE  BooksInv'
<1>1. Balanced(rows, book) => Balanced(rows', book')
  BY DEF Balanced, ConfirmedOf
<1>2. BooksOk(rows, created, book', trail')
  BY <1>1 DEF BooksInv, BooksOk
<1> QED BY <1>2 DEF BooksInv

\* Counting a job.
LEMMA JobKeepsTrail ==
  ASSUME trail \in TrailRecords, NEW h \in TrailRecords, h.booked = trail.booked, h.blind = trail.blind, JobBegins(h)
  PROVE  trail' \in TrailRecords /\ trail'.booked = trail.booked /\ trail'.blind = trail.blind
<1> DEFINE n == trail.lapses + (IF Overlapped THEN 1 ELSE 0)
<1>1. trail' = [h EXCEPT !.lapses = n]
  BY DEF JobBegins
<1>2. n \in Nat
  BY DEF TrailRecords
<1> HIDE DEF n
<1> QED BY <1>1, <1>2 DEF TrailRecords

\* An execution is taken up.
LEMMA ExecuteKeepsBooks ==
  ASSUME SendsInv, BooksInv, NEW t \in StrategyTurns, NEW plan \in Plans, Execute(t, plan)
  PROVE  BooksInv'
<1> DEFINE d == <<t, plan>>
           x == Starting(rows, d)
           new == rows[d].state = "None"
<1>1. d \in Ids /\ d[2] = plan
  BY DEF Ids
<1>2. /\ rows' = Written(rows, d, x) /\ x.state = "Pending" /\ book' = book
      /\ created' = IF new THEN Append(created, d) ELSE created
      /\ trail' = [trail EXCEPT !.blind = @ \/ (new /\ plan = "exit" /\ book.exposure = 0)]
  BY DEF Execute, Written, Starting
<1>3. /\ CreatedOk(rows, created) /\ book \in BookRecords /\ trail \in TrailRecords
      /\ \A c \in Ids : trail.booked[c] = IF rows[c].state \in Open THEN 0 ELSE 1
      /\ ~ trail.blind => Balanced(rows, book) /\ Entered(rows, created)
  BY DEF BooksInv, BooksOk
<1>4. rows \in [Ids -> AnyRow]
  BY SendsTyped
<1> HIDE DEF d, x
<1>5. \A c \in Ids : rows'[c] = IF c = d THEN x ELSE rows[c]
  BY <1>1, <1>2, <1>4 DEF Written
<1>6. CASE ~ new
  <2>1. x = rows[d] /\ created' = created
    BY <1>2, <1>6 DEF x, Starting
  <2>2. rows' = rows
    BY <1>1, <1>2, <1>4, <2>1 DEF Written
  <2>3. trail' \in TrailRecords /\ trail'.booked = trail.booked /\ trail'.blind = trail.blind
    <3>1. trail.blind \in BOOLEAN
      BY <1>3 DEF TrailRecords
    <3>2. (trail.blind \/ (new /\ plan = "exit" /\ book.exposure = 0)) = trail.blind
      BY <1>6, <3>1
    <3>3. trail' = [trail EXCEPT !.blind = trail.blind]
      BY <1>2, <3>2
    <3> QED BY <1>3, <3>1, <3>3 DEF TrailRecords
  <2> QED BY <1>2, <1>3, <2>1, <2>2, <2>3, QuietKeepsBooks
<1>7. CASE new
  <2> DEFINE L == Len(created)
  <2>1. /\ created' = Append(created, d) /\ created \in Seq(Ids) /\ L \in Nat /\ created' \in Seq(Ids)
        /\ Len(created') = L + 1 /\ created'[L + 1] = d /\ \A m \in 1..L : created'[m] = created[m]
    <3>1. created' = Append(created, d) /\ created \in Seq(Ids)
      BY <1>2, <1>3, <1>7 DEF CreatedOk
    <3> QED BY <1>1, <3>1, AppendProperties, LenProperties
  <2> HIDE DEF L
  <2>2. (\A m : m \in 1 .. L + 1 <=> m \in 1..L \/ m = L + 1) /\ L + 1 \notin 1..L /\ L = Len(created)
    BY <2>1 DEF L
  <2>3. \A m \in 1..L : created[m] # d /\ created[m] \in Ids
    BY <1>1, <1>3, <1>7, <2>1, <2>2, ElementOfSeq DEF CreatedOk
  <2>4. CreatedOk(rows', created')
    <3>1. \A m, n \in 1 .. L + 1 : created'[m] = created'[n] => m = n
      BY <1>3, <2>1, <2>2, <2>3 DEF CreatedOk
    <3>2. \A c \in Ids : rows'[c].state # "None" <=> c = d \/ rows[c].state # "None"
      BY <1>2, <1>5
    <3>3. \A c : (\E m \in 1 .. L + 1 : created'[m] = c) <=> c = d \/ \E m \in 1..L : created[m] = c
      BY <2>1, <2>2
    <3> QED BY <1>3, <2>1, <2>2, <3>1, <3>2, <3>3 DEF CreatedOk
  <2>5. \A p : ConfirmedOf(rows', p) = ConfirmedOf(rows, p)
    BY <1>2, <1>5, <1>7 DEF ConfirmedOf
  <2>6. trail.blind \in BOOLEAN /\ book.exposure \in Nat
    BY <1>3 DEF TrailRecords, BookRecords
  <2> DEFINE v == trail.blind \/ (plan = "exit" /\ book.exposure = 0)
  <2>7. v \in BOOLEAN /\ trail' = [trail EXCEPT !.blind = v]
    BY <1>2, <1>7, <2>6
  <2>8. trail' \in TrailRecords /\ trail'.booked = trail.booked /\ (trail'.blind <=> v)
    <3> HIDE DEF v
    <3> QED BY <1>3, <2>7 DEF TrailRecords
  <2>9. \A c \in Ids : trail'.booked[c] = IF rows'[c].state \in Open THEN 0 ELSE 1
    BY <1>2, <1>3, <1>5, <1>7, <2>8 DEF Open
  <2>10. ASSUME ~ trail'.blind
         PROVE  Balanced(rows', book') /\ Entered(rows', created')
    <3>1. ~ trail.blind /\ ~ (plan = "exit" /\ book.exposure = 0)
      BY <2>8, <2>10
    <3>2. Balanced(rows, book) /\ Entered(rows, created)
      BY <1>3, <3>1
    <3>3. Balanced(rows', book')
      BY <1>2, <2>5, <3>2 DEF Balanced
    <3>4. \A n \in 1..L : \A m \in 1 .. n - 1 : m \in 1..L
      BY <2>1
    <3>5. \A m \in 1..L : rows[created[m]].state = "Confirmed" => rows'[created'[m]].state = "Confirmed"
      BY <1>5, <2>1, <2>3
    <3>6. \A n \in 1..L : created'[n][2] = "exit" =>
            \E m \in 1 .. n - 1 : created'[m][2] = "enter" /\ rows'[created'[m]].state = "Confirmed"
      BY <2>1, <2>2, <3>2, <3>4, <3>5 DEF Entered
    <3>7. plan = "exit" => \E m \in 1..L : created'[m][2] = "enter" /\ rows'[created'[m]].state = "Confirmed"
      <4> SUFFICES ASSUME plan = "exit"
                   PROVE  \E m \in 1..L : created'[m][2] = "enter" /\ rows'[created'[m]].state = "Confirmed"
        OBVIOUS
      <4>1. book.exposure # 0
        BY <3>1
      <4>2. Cardinality(ConfirmedOf(rows, "exit")) \in Nat
        BY FiniteConfirmed
      <4>3. Cardinality(ConfirmedOf(rows, "enter")) # 0
        BY <2>6, <3>2, <4>1, <4>2 DEF Balanced
      <4>4. ConfirmedOf(rows, "enter") # {}
        BY <4>3, FS_EmptySet
      <4>5. PICK c \in Ids : c[2] = "enter" /\ rows[c].state = "Confirmed"
        BY <4>4 DEF ConfirmedOf
      <4>6. PICK m \in 1..L : created[m] = c
        BY <1>3, <2>2, <4>5 DEF CreatedOk
      <4> QED BY <2>1, <3>5, <4>5, <4>6
    <3>8. (L + 1) - 1 = L
      BY <2>1
    <3>9. Entered(rows', created')
      BY <1>1, <2>1, <2>2, <3>6, <3>7, <3>8 DEF Entered
    <3> QED BY <3>3, <3>9
  <2> QED BY <1>2, <1>3, <2>4, <2>8, <2>9, <2>10 DEF BooksInv, BooksOk
<1> QED BY <1>6, <1>7

\* Every step keeps the order of rows, snapshots and transactions.
LEMMA StepKeepsSends ==
  ASSUME SendsInv, BooksInv, StrategyNext
  PROVE  SendsInv'
<1>1. ASSUME NEW t \in StrategyTurns, BeginStrategyTurn(t) PROVE SendsInv'
  <2>1. rows' = rows /\ scan' = scan /\ txs' = txs /\ runner' = [runner EXCEPT ![t].live = TRUE]
    BY <1>1 DEF BeginStrategyTurn
  <2>2. runner \in [StrategyTurns -> RunnerRecords] /\ runner[t] \in RunnerRecords
    BY SendsTyped
  <2> DEFINE v == [runner[t] EXCEPT !.live = TRUE]
  <2>3. v \in RunnerRecords /\ v.id = runner[t].id /\ v.row = runner[t].row /\ v.fresh = runner[t].fresh
    BY <2>2 DEF RunnerRecords
  <2>4. runner' = [runner EXCEPT ![t] = v]
    BY <2>1
  <2> HIDE DEF v
  <2> QED BY <2>1, <2>2, <2>3, <2>4, QuietKeepsSends
<1>2. ASSUME NEW t \in StrategyTurns, EndStrategyTurn(t) PROVE SendsInv'
  <2>1. rows' = rows /\ scan' = scan /\ txs' = txs /\ runner' = [runner EXCEPT ![t] = NotSending]
    BY <1>2 DEF EndStrategyTurn
  <2>2. NotSending \in RunnerRecords /\ NotSending.id = NoId
    BY AnyRows DEF NotSending, RunnerRecords
  <2> QED BY <2>1, <2>2, SendsTyped, QuietKeepsSends
<1>3. ASSUME NEW t \in StrategyTurns, NEW plan \in Plans, Simulate(t, plan) PROVE SendsInv'
  <2>1. rows' = rows /\ scan' = scan /\ txs' = txs /\ runner' = [runner EXCEPT ![t].simulated = @ \cup {plan}]
    BY <1>3 DEF Simulate
  <2>2. runner \in [StrategyTurns -> RunnerRecords] /\ runner[t] \in RunnerRecords
    BY SendsTyped
  <2> DEFINE v == [runner[t] EXCEPT !.simulated = @ \cup {plan}]
  <2>3. v \in RunnerRecords /\ v.id = runner[t].id /\ v.row = runner[t].row /\ v.fresh = runner[t].fresh
    BY <2>2 DEF RunnerRecords
  <2>4. runner' = [runner EXCEPT ![t] = v]
    BY <2>1
  <2> HIDE DEF v
  <2> QED BY <2>1, <2>2, <2>3, <2>4, QuietKeepsSends
<1>4. ASSUME NEW t \in StrategyTurns, NEW plan \in Plans, ExecutionRefused(t, plan) PROVE SendsInv'
  BY <1>4 DEF ExecutionRefused, SendsInv
<1>5. ASSUME NEW k \in 1..Len(txs), Mined(k) PROVE SendsInv'
  <2>1. /\ rows' = rows /\ scan' = scan /\ runner' = runner /\ txs[k].status = "pending"
        /\ \E z \in {"mined", "reverted"} : txs' = [txs EXCEPT ![k].status = z]
    BY <1>5 DEF Mined
  <2>2. PICK z \in {"mined", "reverted"} : txs' = [txs EXCEPT ![k].status = z]
    BY <2>1
  <2>3. SendInv(rows, runner, scan, [txs EXCEPT ![k].status = z])
    BY <2>1, MinedOk DEF SendsInv
  <2> QED BY <2>1, <2>2, <2>3 DEF SendsInv
<1>6. ASSUME Administer PROVE SendsInv'
  <2>1. rows' = rows /\ scan' = scan /\ txs' = txs
    BY <1>6 DEF Administer
  <2>2. CASE runner' = runner
    BY <2>1, <2>2 DEF SendsInv
  <2>3. CASE runner' = [t \in StrategyTurns |-> [runner[t] EXCEPT !.simulated = {}]]
    <3>1. \A t \in StrategyTurns : LET v == [runner[t] EXCEPT !.simulated = {}]
                                  IN  /\ v \in RunnerRecords /\ v.id = runner[t].id /\ v.row = runner[t].row
                                      /\ v.fresh = runner[t].fresh
      BY SendsTyped DEF RunnerRecords
    <3> QED BY <2>1, <2>3, <3>1, QuietKeepsSends
  <2> QED BY <1>6, <2>2, <2>3 DEF Administer
<1> QED BY <1>1, <1>2, <1>3, <1>4, <1>5, <1>6, SendKeepsSends, LostKeepsSends, ExecuteKeepsSends, BeginKeepsSends,
           ReturnKeepsSends, FailKeepsSends DEF StrategyNext

\* Every step keeps the books.
LEMMA StepKeepsBooks ==
  ASSUME SendsInv, BooksInv, StrategyNext
  PROVE  BooksInv'
<1>1. trail \in TrailRecords /\ book \in BookRecords
  BY DEF BooksInv, BooksOk
<1>2. ASSUME NEW t \in StrategyTurns, BeginStrategyTurn(t) PROVE BooksInv'
  <2> DEFINE h == [trail EXCEPT !.turns = t]
  <2>1. rows' = rows /\ created' = created /\ book' = book /\ JobBegins(h)
    BY <1>2 DEF BeginStrategyTurn
  <2>2. h \in TrailRecords /\ h.booked = trail.booked /\ h.blind = trail.blind
    BY <1>1, StrategyNumbers DEF TrailRecords
  <2> HIDE DEF h
  <2> QED BY <1>1, <2>1, <2>2, JobKeepsTrail, QuietKeepsBooks
<1>3. ASSUME NEW r \in Scans, NEW due \in SUBSET Ids, BeginReconcile(r, due) PROVE BooksInv'
  <2>1. rows' = rows /\ created' = created /\ JobBegins(trail) /\ (book' = book \/ book' = RepairExposure(book, rows))
    BY <1>3 DEF BeginReconcile
  <2>2. trail' \in TrailRecords /\ trail'.booked = trail.booked /\ trail'.blind = trail.blind
    BY <1>1, <2>1, JobKeepsTrail
  <2>3. BooksOk(rows, created, book, trail')
    BY <2>2 DEF BooksInv, BooksOk
  <2>4. BooksOk(rows, created, RepairExposure(book, rows), trail')
    BY <2>3, RepairOk
  <2> QED BY <2>1, <2>3, <2>4 DEF BooksInv
<1>4. ASSUME NEW t \in StrategyTurns, NEW plan \in Plans, ExecutionRefused(t, plan) PROVE BooksInv'
  <2>1. rows' = rows /\ created' = created /\ book' = Refused(book) /\ trail' = trail
    BY <1>4 DEF ExecutionRefused
  <2>2. Refused(book) \in BookRecords /\ Refused(book).exposure = book.exposure
    BY <1>1, FailedIs
  <2> QED BY <1>1, <2>1, <2>2, QuietKeepsBooks
<1>5. ASSUME Administer PROVE BooksInv'
  <2>1. rows' = rows /\ created' = created /\ book' = book /\ trail' = [trail EXCEPT !.admin = @ + 1]
    BY <1>5 DEF Administer
  <2>2. trail' \in TrailRecords /\ trail'.booked = trail.booked /\ trail'.blind = trail.blind
    <3>1. trail.admin + 1 \in Nat
      BY <1>1 DEF TrailRecords
    <3> QED BY <1>1, <2>1, <3>1 DEF TrailRecords
  <2> QED BY <1>1, <2>1, <2>2, QuietKeepsBooks
<1>6. ASSUME NEW t \in StrategyTurns, NEW plan \in Plans, EndStrategyTurn(t) \/ Simulate(t, plan) PROVE BooksInv'
  BY <1>6 DEF EndStrategyTurn, Simulate, BooksInv
<1>7. ASSUME NEW k \in 1..Len(txs), Mined(k) PROVE BooksInv'
  BY <1>7 DEF Mined, BooksInv
<1>8. ASSUME NEW t \in StrategyTurns, SendSucceeds(t) PROVE BooksInv'
  <2>1. created' = created /\ book' = book /\ trail' = trail
    BY <1>8 DEF SendSucceeds
  <2>2. CASE ~ runner[t].fresh
    <3>1. rows' = rows
      BY <1>8, <2>2 DEF SendSucceeds
    <3> QED BY <2>1, <3>1 DEF BooksInv
  <2>3. CASE runner[t].fresh
    <3> DEFINE d == runner[t].id
               i == NextCall(runner[t].row)
               y == [runner[t].row EXCEPT !.call[i] = "Submitted", !.tx[i] = Len(txs) + 1]
    <3>1. d # NoId /\ rows' = Written(rows, d, y)
      BY <1>8, <2>3 DEF SendSucceeds, Written
    <3>2. d \in Ids /\ runner[t].row = rows[d] /\ runner[t].row \in RowsOf(d) /\ rows \in [Ids -> AnyRow]
      BY <2>3, <3>1, SendsTyped DEF SendsInv, SendInv, RunnersOk, RunnerRecords, RowOk
    <3>3. y.state = rows[d].state
      BY <3>2 DEF RowsOf
    <3> HIDE DEF y, d
    <3>4. \A c \in Ids : rows'[c].state = rows[c].state
      BY <3>1, <3>2, <3>3 DEF Written
    <3>5. \A m \in 1..Len(created) : created[m] \in Ids
      BY ElementOfSeq DEF BooksInv, BooksOk, CreatedOk
    <3>6. \A n \in 1..Len(created) : \A m \in 1 .. n - 1 : m \in 1..Len(created)
      BY LenProperties DEF BooksInv, BooksOk, CreatedOk
    <3>7. Entered(rows, created) => Entered(rows', created)
      BY <3>4, <3>5, <3>6 DEF Entered
    <3>8. CreatedOk(rows', created)
      BY <3>4 DEF BooksInv, BooksOk, CreatedOk
    <3>9. \A p : ConfirmedOf(rows', p) = ConfirmedOf(rows, p)
      BY <3>4 DEF ConfirmedOf
    <3>10. Balanced(rows, book) => Balanced(rows', book)
      BY <3>9 DEF Balanced
    <3>11. BooksOk(rows', created, book, trail)
      BY <3>4, <3>7, <3>8, <3>10 DEF BooksInv, BooksOk
    <3> QED BY <2>1, <3>11 DEF BooksInv
  <2> QED BY <2>2, <2>3
<1>9. \E plan : plan \in Plans
  BY DEF Plans
<1> QED BY <1>2, <1>3, <1>4, <1>5, <1>6, <1>7, <1>8, <1>9, LostKeepsSends, ExecuteKeepsBooks, ReturnKeepsSends,
           FailKeepsSends DEF StrategyNext

\* The order of rows, snapshots and transactions, and the books, are kept for ever.
THEOREM StrategyInvAlways == StrategySpec => [](SendsInv /\ BooksInv)
<1>1. StrategyInit => SendsInv /\ BooksInv
  <2> SUFFICES ASSUME StrategyInit PROVE SendsInv /\ BooksInv
    OBVIOUS
  <2>1. /\ rows = [d \in Ids |-> NoRow] /\ runner = [t \in StrategyTurns |-> NotSending]
        /\ scan = [r \in Scans |-> NoScan] /\ txs = <<>>
    BY DEF StrategyInit
  <2>2. RowsOk(rows, txs)
    BY <2>1, AnyRows DEF RowsOk
  <2>3. NotSending \in RunnerRecords /\ NotSending.id = NoId
    BY AnyRows DEF NotSending, RunnerRecords
  <2>4. RunnersOk(runner, rows, txs)
    BY <2>1, <2>3 DEF RunnersOk
  <2>5. NoScan \in ScanRecords /\ NoScan.left = {} /\ NoScan.fresh = {}
    BY AnyRows DEF NoScan, ScanRecords
  <2>6. ScansOk(scan, rows, txs)
    BY <2>1, <2>5 DEF ScansOk
  <2>7. txs \in Seq(TxRecords) /\ \A k, d : ~ Counts(txs, k, d)
    <3>1. Len(txs) = 0 /\ txs \in Seq(TxRecords)
      BY <2>1
    <3> QED BY <3>1 DEF Counts
  <2>8. SendsOk(rows, runner, txs)
    BY <2>7 DEF SendsOk
  <2>9. /\ created = <<>> /\ book = [exposure |-> 0, spent |-> 0, failures |-> 0, streak |-> 0]
        /\ trail = [booked |-> [d \in Ids |-> 0], blind |-> FALSE, lapses |-> 0, admin |-> 0, turns |-> 0]
    BY DEF StrategyInit
  <2>10. book \in BookRecords /\ book.exposure = 0 /\ trail \in TrailRecords /\ \A d \in Ids : trail.booked[d] = 0
    BY <2>9 DEF BookRecords, TrailRecords
  <2>11. CreatedOk(rows, created) /\ Entered(rows, created)
    <3>1. Len(created) = 0 /\ created \in Seq(Ids) /\ \A m : m \notin 1..Len(created)
      BY <2>9
    <3>2. \A d \in Ids : rows[d].state = "None"
      BY <2>1, AnyRows
    <3> QED BY <3>1, <3>2 DEF CreatedOk, Entered
  <2>12. Balanced(rows, book)
    <3>1. \A p : ConfirmedOf(rows, p) = {}
      BY <2>1, AnyRows DEF ConfirmedOf
    <3>2. Cardinality({}) = 0
      BY FS_EmptySet
    <3> QED BY <2>10, <3>1, <3>2 DEF Balanced
  <2>13. \A d \in Ids : trail.booked[d] = IF rows[d].state \in Open THEN 0 ELSE 1
    BY <2>1, <2>10, AnyRows DEF Open
  <2>14. BooksInv
    BY <2>10, <2>11, <2>12, <2>13 DEF BooksInv, BooksOk
  <2> QED BY <2>2, <2>4, <2>6, <2>8, <2>14 DEF SendsInv, SendInv
<1>2. SendsInv /\ BooksInv /\ [StrategyNext]_strategyVars => (SendsInv /\ BooksInv)'
  <2>1. CASE UNCHANGED strategyVars
    BY <2>1 DEF strategyVars, SendsInv, BooksInv
  <2> QED BY <2>1, StepKeepsSends, StepKeepsBooks
<1> QED BY <1>1, <1>2, PTL DEF StrategySpec

\* A call is sent again only when the hash of the earlier transaction lost the race for the row:
\* for any number of calls, turns, reconciliations that overlap, and transactions.
THEOREM SentOnceAlways == StrategySpec => []SentOnce
<1>1. SendsInv => SentOnce
  <2> SUFFICES ASSUME SendsInv, NEW d \in Ids, NEW i \in Calls
               PROVE  Cardinality({k \in 1..Len(txs) : txs[k].id = d /\ txs[k].call = i /\ ~txs[k].raced}) <= 1
    BY DEF SentOnce
  <2> DEFINE S == {k \in 1..Len(txs) : txs[k].id = d /\ txs[k].call = i /\ ~txs[k].raced}
  <2>1. \A k, m \in S : k = m
    BY DEF SendsInv, SendInv, SendsOk, Counts
  <2> HIDE DEF S
  <2>2. Cardinality(S) \in {0, 1}
    BY <2>1, AtMostOne
  <2>3. Cardinality(S) <= 1
    BY <2>2
  <2> QED BY <2>3 DEF S
<1> QED BY <1>1, StrategyInvAlways, PTL

\* An execution is booked once, a success only when every transaction was mined, and the
\* exposure is what the confirmed executions left open, whether it was booked or recomputed: for
\* any number of calls, turns and reconciliations.
THEOREM ExposureAccountedAlways == StrategySpec => []ExposureAccounted
<1>1. SendsInv /\ BooksInv => ExposureAccounted
  <2> SUFFICES ASSUME SendsInv, BooksInv PROVE ExposureAccounted
    OBVIOUS
  <2>1. \A d \in Ids : trail.booked[d] = (IF rows[d].state \in {"None", "Pending"} THEN 0 ELSE 1)
    BY DEF BooksInv, BooksOk, Open
  <2>2. ASSUME NEW d \in Ids, rows[d].state = "Confirmed"
        PROVE  \A i \in CallsOf(d) : txs[rows[d].tx[i]].status = "mined"
    <3>1. RowOk(d, rows[d], txs)
      BY <2>2, AnyRows DEF SendsInv, SendInv, RowsOk
    <3> QED BY <2>2, <3>1 DEF RowOk
  <2>3. ~ trail.blind => Balanced(rows, book)
    BY DEF BooksInv, BooksOk
  <2> QED BY <2>1, <2>2, <2>3 DEF ExposureAccounted, Balanced, ConfirmedOf
<1> QED BY <1>1, StrategyInvAlways, PTL

-----------------------------------------------------------------------------
(***************************************************************************)
(* Types of the executions.  SendsInv and BooksInv carry them but for the  *)
(* bounds: a hash is a number of a transaction that was sent, in rows and  *)
(* in snapshots, stale ones included (HashInv), and the counts of failures *)
(* stop at their thresholds (LimitsInv).                                   *)
(***************************************************************************)
Hashed(x) == \A i \in DOMAIN x.tx : x.tx[i] <= MaxSends

HashInv ==
  /\ \A d \in Ids : Hashed(rows[d])
  /\ \A t \in StrategyTurns : Hashed(runner[t].row)
  /\ \A r \in Scans : \A d \in Ids : Hashed(scan[r].snap[d])
  /\ Len(txs) <= MaxSends /\ \A k \in 1..Len(txs) : txs[k].call \in Calls

BookFits(b) == b \in BookRecords /\ b.failures <= QuarantineLimit /\ b.streak <= StreakLimit

TemplateRecords == [status : {"Active", "Deprecated", "Revoked"}, enabled : BOOLEAN,
                    revoked : BOOLEAN, killed : BOOLEAN, fit : BOOLEAN]

TrailFits(h) ==
  /\ h \in TrailRecords /\ h.lapses <= MaxStrategyLapses /\ h.admin <= MaxAdmin
  /\ h.turns <= MaxStrategyTurns

LimitsInv ==
  /\ BookFits(book) /\ TrailFits(trail) /\ template \in TemplateRecords
  /\ policy \in [autonomous : BOOLEAN, simulate : BOOLEAN]

\* What becomes of a row is within the bounds.
OutFits(out) == Hashed(out.row) /\ BookFits(out.book) /\ out.template \in TemplateRecords

\* Constants as numbers.
LEMMA StrategyBounds ==
  /\ QuarantineLimit \in Nat \ {0} /\ StreakLimit \in Nat \ {0} /\ MaxSends \in Nat
  /\ MaxStrategyLapses \in Nat /\ MaxAdmin \in Nat /\ MaxStrategyTurns \in Nat
  BY StrategyAssumption

\* Rows without a transaction.
LEMMA NoHash ==
  /\ Hashed(NoRow)
  /\ \A d \in Ids : Hashed(NewRow(d))
<1>1. DOMAIN NoRow.tx = {}
  BY DEF NoRow
<1>2. \A d \in Ids : NewRow(d).tx = [i \in CallsOf(d) |-> 0]
  BY DEF NewRow
<1>3. Hashed(NoRow)
  BY <1>1 DEF Hashed
<1>4. \A d \in Ids : Hashed(NewRow(d))
  <2> TAKE d \in Ids
  <2>1. \A i \in DOMAIN NewRow(d).tx : NewRow(d).tx[i] = 0
    BY <1>2
  <2> QED BY <2>1, StrategyBounds DEF Hashed
<1> QED BY <1>3, <1>4

\* The calls of an execution are calls.
LEMMA CallsAreCalls ==
  ASSUME NEW d \in Ids
  PROVE  CallsOf(d) \subseteq Calls
<1> DEFINE S == {CallCount[p] : p \in Plans}
           m == Max(S)
<1>1. CallCount[d[2]] \in S /\ CallCount["enter"] \in Nat /\ CallCount["exit"] \in Nat
  BY StrategyNumbers, StrategyAssumption
<1>2. S = {CallCount["enter"], CallCount["exit"]}
  BY DEF Plans
<1> DEFINE a == CallCount["enter"]
           b == CallCount["exit"]
<1> HIDE DEF a, b
<1>3. Max({a, b}) \in {a, b} /\ Max({a, b}) >= a /\ Max({a, b}) >= b
  <2>1. a \in Int /\ b \in Int
    BY <1>1 DEF a, b
  <2> QED BY <2>1, MaxOfTwo
<1>4. m = Max({a, b}) /\ CallCount[d[2]] \in {a, b}
  BY <1>1, <1>2 DEF a, b
<1>5. a \in Nat /\ b \in Nat
  BY <1>1 DEF a, b
<1> HIDE DEF m, S
<1>6. 1..CallCount[d[2]] \subseteq 1..m
  BY <1>3, <1>4, <1>5
<1> QED BY <1>6 DEF CallsOf, Calls, m, S

\* The counts stop at their limits.
LEMMA BookStops ==
  ASSUME NEW b, BookFits(b), NEW deterministic
  PROVE  BookFits(Refused(b)) /\ BookFits(Failed(b, deterministic))
<1> DEFINE F == {b.failures + 1, QuarantineLimit}
           K == {b.streak + 1, StreakLimit}
           f == Min(F)
           k == IF deterministic THEN Min(K) ELSE 0
<1>1. b \in BookRecords /\ b.failures \in Nat /\ b.streak \in Nat /\ b.streak <= StreakLimit
  BY DEF BookFits, BookRecords
<1>2. F \in SUBSET Nat /\ F # {} /\ QuarantineLimit \in F /\ K \in SUBSET Nat /\ K # {} /\ StreakLimit \in K
  BY <1>1, StrategyBounds
<1> HIDE DEF F, K
<1>3. f \in Nat /\ f <= QuarantineLimit /\ Min(K) \in Nat /\ Min(K) <= StreakLimit
  BY <1>2, MinIsLeast
<1>4. k \in Nat /\ k <= StreakLimit
  BY <1>3, StrategyBounds
<1>5. Refused(b) = [b EXCEPT !.failures = f]
  BY DEF Refused, F
<1> HIDE DEF f
<1>6. Refused(b) \in BookRecords /\ Refused(b).failures = f /\ Refused(b).streak = b.streak
  BY <1>1, <1>3, <1>5 DEF BookRecords
<1>7. Failed(b, deterministic) = [Refused(b) EXCEPT !.streak = k]
  BY <1>6 DEF Failed, K
<1> HIDE DEF k
<1> DEFINE y == Refused(b)
           z == Failed(b, deterministic)
<1>8. y \in BookRecords /\ y.failures = f /\ y.streak = b.streak /\ z = [y EXCEPT !.streak = k]
  BY <1>6, <1>7
<1> HIDE DEF y, z
<1>9. z \in BookRecords /\ z.failures = f /\ z.streak = k
  BY <1>4, <1>8 DEF BookRecords
<1>10. BookFits(y) /\ BookFits(z)
  BY <1>1, <1>3, <1>4, <1>8, <1>9 DEF BookFits
<1> QED BY <1>10 DEF y, z

\* The template after a failure, and after its review.
LEMMA TemplateStays ==
  ASSUME NEW x \in TemplateRecords, NEW b
  PROVE  Deactivated(x, b) \in TemplateRecords /\ ReviewTemplate(x) \in TemplateRecords
  BY DEF Deactivated, ReviewTemplate, TemplateRecords

\* The exposure is recomputed.
LEMMA RepairFits ==
  ASSUME NEW b, BookFits(b), NEW R, RepairExposure(b, R) \in BookRecords
  PROVE  BookFits(RepairExposure(b, R))
<1> DEFINE y == RepairExposure(b, R)
           n == FoldObserved(R).amount
<1>1. y = b \/ y = [b EXCEPT !.exposure = n]
  BY DEF RepairExposure
<1>2. b \in BookRecords
  BY DEF BookFits
<1> HIDE DEF y, n
<1>3. y.failures = b.failures /\ y.streak = b.streak
  BY <1>1, <1>2 DEF BookRecords
<1> QED BY <1>3 DEF BookFits, y

\* A failure.
LEMMA FailureFits ==
  ASSUME HashInv, LimitsInv, NEW d \in Ids, NEW x, Hashed(x), NEW deterministic,
         NEW out, out = FailureBooked(d, x, deterministic)
  PROVE  OutFits(out)
<1> DEFINE b == Failed(book, deterministic)
           m == Deactivated(template, b)
<1>1. BookFits(b) /\ m \in TemplateRecords /\ BookFits(book) /\ template \in TemplateRecords /\ Hashed(rows[d])
  BY BookStops, TemplateStays DEF LimitsInv, HashInv
<1>2. \/ out.row = x /\ out.book = b /\ out.template = m
      \/ out.row = rows[d] /\ out.book = book /\ out.template = template
  <2> HIDE DEF b, m
  <2> QED BY DEF FailureBooked, Progress, Untouched, b, m
<1> QED BY <1>1, <1>2 DEF OutFits

\* A success.
LEMMA SuccessFits ==
  ASSUME SendsInv, BooksInv, HashInv, LimitsInv, NEW d \in Ids, NEW x, Hashed(x), NEW out, out = SuccessBooked(d, x)
  PROVE  OutFits(out)
<1> DEFINE b == Succeeded(book, d[2])
<1>1. BookFits(book) /\ template \in TemplateRecords /\ Hashed(rows[d])
  BY DEF LimitsInv, HashInv
<1>2. \/ out.row = x /\ out.book = b /\ out.template = template /\ CanSucceed(book, d[2])
      \/ out.row = rows[d] /\ out.book = book /\ out.template = template
  <2> HIDE DEF b
  <2> QED BY DEF SuccessBooked, Progress, Untouched, b
<1>3. CanSucceed(book, d[2]) => BookFits(b)
  <2>1. d[2] \in {"enter", "exit"} /\ book.exposure \in Nat /\ book.spent \in Nat
    BY <1>1, StrategyNumbers DEF Plans, BookFits, BookRecords
  <2> QED BY <2>1, StrategyBounds DEF Succeeded, CanSucceed, BookFits, BookRecords
<1> QED BY <1>1, <1>2, <1>3 DEF OutFits

\* Progress, and a receipt that makes no sense.
LEMMA ProgressFits ==
  ASSUME HashInv, LimitsInv, NEW r \in Scans, NEW d \in Ids, NEW x, Hashed(x), NEW out,
         out \in {ProgressIfFresh(r, d, x), [Untouched(d) EXCEPT !.error = TRUE]}
  PROVE  OutFits(out)
<1>1. BookFits(book) /\ template \in TemplateRecords /\ Hashed(rows[d])
  BY DEF LimitsInv, HashInv
<1>2. CASE out = ProgressIfFresh(r, d, x)
  <2>1. out.row \in {x, rows[d]} /\ out.book = book /\ out.template = template
    BY <1>2 DEF ProgressIfFresh, Progress, Untouched
  <2> QED BY <1>1, <2>1 DEF OutFits
<1>3. CASE out = [Untouched(d) EXCEPT !.error = TRUE]
  <2>1. out.row = rows[d] /\ out.book = book /\ out.template = template
    BY <1>3 DEF Untouched
  <2> QED BY <1>1, <2>1 DEF OutFits
<1> QED BY <1>2, <1>3

\* A row is concluded.
LEMMA ConcludeFits ==
  ASSUME SendsInv, BooksInv, SendsInv', BooksInv', HashInv, LimitsInv, NEW r \in Scans, NEW d \in Ids, NEW out,
         OutFits(out), Conclude(r, d, out)
  PROVE  HashInv' /\ LimitsInv'
<1> DEFINE left == [scan[r] EXCEPT !.left = @ \ {d}, !.fresh = @ \ {d}, !.snap[d] = NoRow]
<1>1. /\ rows' = [rows EXCEPT ![d] = out.row] /\ trail' = [trail EXCEPT !.booked[d] = @ + out.booked]
      /\ runner' \in {runner, SpoilRunners(runner, d)} /\ txs' = txs /\ policy' = policy
      /\ book' \in {RepairExposure(out.book, rows'), out.book}
      /\ template' \in {ReviewTemplate(out.template), out.template}
  BY DEF Conclude, Store
<1>2. \E z \in {NoScan, left} : scan' = [(IF out.wrote THEN SpoilScans(scan, d) ELSE scan) EXCEPT ![r] = z]
  BY DEF Conclude
<1>3. \A c \in Ids : Hashed(rows'[c])
  <2>1. \A c \in Ids : rows'[c] \in {rows[c], out.row}
    BY <1>1, SendsTyped
  <2> QED BY <2>1 DEF HashInv, OutFits
<1>4. \A t \in StrategyTurns : Hashed(runner'[t].row)
  <2>1. \A t \in StrategyTurns : SpoilRunners(runner, d)[t].row = runner[t].row
    BY SendsTyped DEF SpoilRunners, RunnerRecords
  <2>2. \A t \in StrategyTurns : runner'[t].row = runner[t].row
    BY <1>1, <2>1
  <2> QED BY <2>2 DEF HashInv
<1>5. \A u \in Scans : \A c \in Ids : Hashed(scan'[u].snap[c])
  <2>1. scan \in [Scans -> ScanRecords] /\ scan[r] \in ScanRecords
    BY SendsTyped
  <2>2. \A c \in Ids : left.snap[c] \in {scan[r].snap[c], NoRow} /\ NoScan.snap[c] = NoRow
    <3>1. left = [scan[r] EXCEPT !.left = @ \ {d}, !.fresh = @ \ {d}, !.snap = [@ EXCEPT ![d] = NoRow]]
      OBVIOUS
    <3> QED BY <2>1, <3>1 DEF ScanRecords, NoScan
  <2>3. PICK z \in {NoScan, left} : scan' = [(IF out.wrote THEN SpoilScans(scan, d) ELSE scan) EXCEPT ![r] = z]
    BY <1>2
  <2>4. \A c \in Ids : z.snap[c] \in {scan[r].snap[c], NoRow}
    BY <2>2, <2>3
  <2> HIDE DEF left
  <2>5. \A u \in Scans : SpoilScans(scan, d)[u].snap = scan[u].snap
    BY <2>1 DEF SpoilScans, ScanRecords
  <2>6. SpoilScans(scan, d) = [u \in Scans |-> SpoilScans(scan, d)[u]]
    BY DEF SpoilScans
  <2>7. \A u \in Scans : scan'[u] \in {z, scan[u], SpoilScans(scan, d)[u]} /\ (scan'[u] = z => u = r \/ z = scan[u] \/ z = SpoilScans(scan, d)[u])
    BY <2>1, <2>3, <2>6
  <2>8. \A u \in Scans : \A c \in Ids : scan'[u].snap[c] \in {scan[u].snap[c], NoRow}
    BY <2>4, <2>5, <2>7
  <2> QED BY <2>8, NoHash DEF HashInv
<1>6. HashInv'
  BY <1>1, <1>3, <1>4, <1>5 DEF HashInv
<1>7. book' \in BookRecords /\ trail' \in TrailRecords
  BY DEF BooksInv, BooksOk
<1>8. BookFits(book')
  BY <1>1, <1>7, RepairFits DEF OutFits
<1>9. TrailFits(trail')
  <2>1. trail \in TrailRecords
    BY DEF LimitsInv, TrailFits
  <2>2. trail'.lapses = trail.lapses /\ trail'.admin = trail.admin /\ trail'.turns = trail.turns
    BY <1>1, <2>1 DEF TrailRecords
  <2> QED BY <1>7, <2>2 DEF LimitsInv, TrailFits
<1>10. template' \in TemplateRecords
  BY <1>1, TemplateStays DEF OutFits
<1> QED BY <1>1, <1>6, <1>8, <1>9, <1>10 DEF LimitsInv

\* A row whose calls became others has the hashes it had.
LEMMA SameHashes ==
  ASSUME NEW d \in Ids, NEW old \in RowsOf(d), Hashed(old), NEW f, NEW z
  PROVE  Hashed([old EXCEPT !.call = f]) /\ Hashed([[old EXCEPT !.call = f] EXCEPT !.state = z])
<1> DEFINE x == [old EXCEPT !.call = f]
           y == [x EXCEPT !.state = z]
<1>1. PICK a, b, c : old = [state |-> a, call |-> b, tx |-> c]
  BY DEF RowsOf
<1>2. x = [state |-> a, call |-> f, tx |-> c]
  BY <1>1
<1> HIDE DEF x
<1>3. y = [state |-> z, call |-> f, tx |-> c]
  BY <1>2
<1> HIDE DEF y
<1>4. x.tx = old.tx /\ y.tx = old.tx
  BY <1>1, <1>2, <1>3
<1>5. Hashed(x) /\ Hashed(y)
  BY <1>4 DEF Hashed
<1> QED BY <1>5 DEF x, y

\* The receipts of a row are read, or one of them could not be.
LEMMA ReceiptsFit ==
  ASSUME SendsInv, BooksInv, HashInv, LimitsInv, NEW r \in Scans, NEW d \in Ids,
         ReceiptsReturn(r, d) \/ ReceiptFails(r, d)
  PROVE  HashInv' /\ LimitsInv'
<1> DEFINE old == scan[r].snap[d]
<1>1. d \in scan[r].left
  BY DEF ReceiptsReturn, ReceiptFails
<1>2. old \in RowsOf(d) /\ Hashed(old)
  BY <1>1, SnapOk DEF HashInv
<1>3. SendsInv' /\ BooksInv'
  BY ReturnKeepsSends, FailKeepsSends
<1> DEFINE row(f) == [old EXCEPT !.call = f]
           end(f, z) == [row(f) EXCEPT !.state = z]
<1>4. \/ \E f, z, b : Conclude(r, d, FailureBooked(d, end(f, z), b))
      \/ \E f : Conclude(r, d, SuccessBooked(d, end(f, "Confirmed")))
      \/ \E f : Conclude(r, d, ProgressIfFresh(r, d, row(f)))
      \/ Conclude(r, d, [Untouched(d) EXCEPT !.error = TRUE])
  <2>1. CASE ReceiptFails(r, d)
    BY <2>1, Zenon DEF ReceiptFails
  <2>2. CASE ReceiptsReturn(r, d)
    <3>1. PICK late \in BOOLEAN, f \in UNION {Receipts(old, Len(old.call) + 1, l) : l \in BOOLEAN} :
            LET x == row(f)
            IN  Conclude(r, d,
                  IF States(x) \cap {"Reverted", "Dropped"} # {}
                  THEN FailureBooked(d, end(f, IF "Confirmed" \in States(x) THEN "PartialFailure"
                                               ELSE IF "Reverted" \in States(x) THEN "Reverted" ELSE "Dropped"),
                                     "Reverted" \in States(x))
                  ELSE IF States(x) = {"Confirmed"} THEN SuccessBooked(d, end(f, "Confirmed"))
                  ELSE ProgressIfFresh(r, d, x))
      BY <2>2 DEF ReceiptsReturn
    <3> DEFINE x == row(f)
               z == IF "Confirmed" \in States(x) THEN "PartialFailure"
                    ELSE IF "Reverted" \in States(x) THEN "Reverted" ELSE "Dropped"
               b == "Reverted" \in States(x)
    <3>2. \/ Conclude(r, d, FailureBooked(d, end(f, z), b))
          \/ Conclude(r, d, SuccessBooked(d, end(f, "Confirmed")))
          \/ Conclude(r, d, ProgressIfFresh(r, d, x))
      BY <3>1
    <3> HIDE DEF z, b
    <3> QED BY <3>2, Zenon
  <2> QED BY <2>1, <2>2
<1>5. \A f, z : Hashed(row(f)) /\ Hashed(end(f, z))
  BY <1>2, SameHashes
<1> HIDE DEF row, end, old
<1>6. ASSUME NEW f, NEW z, NEW b, Conclude(r, d, FailureBooked(d, end(f, z), b))
      PROVE  HashInv' /\ LimitsInv'
  <2>1. OutFits(FailureBooked(d, end(f, z), b))
    BY <1>5, FailureFits
  <2> QED BY <1>3, <1>6, <2>1, ConcludeFits
<1>7. ASSUME NEW f, Conclude(r, d, SuccessBooked(d, end(f, "Confirmed")))
      PROVE  HashInv' /\ LimitsInv'
  <2>1. OutFits(SuccessBooked(d, end(f, "Confirmed")))
    BY <1>5, SuccessFits
  <2> QED BY <1>3, <1>7, <2>1, ConcludeFits
<1>8. ASSUME NEW f, Conclude(r, d, ProgressIfFresh(r, d, row(f)))
      PROVE  HashInv' /\ LimitsInv'
  <2>1. OutFits(ProgressIfFresh(r, d, row(f)))
    BY <1>5, ProgressFits
  <2> QED BY <1>3, <1>8, <2>1, ConcludeFits
<1>9. ASSUME Conclude(r, d, [Untouched(d) EXCEPT !.error = TRUE])
      PROVE  HashInv' /\ LimitsInv'
  <2>1. OutFits([Untouched(d) EXCEPT !.error = TRUE])
    BY NoHash, ProgressFits
  <2> QED BY <1>3, <1>9, <2>1, ConcludeFits
<1> QED BY <1>4, <1>6, <1>7, <1>8, <1>9

\* A call that is sent: of the row x, the i-th, with the next number.
LEMMA NewHash ==
  ASSUME NEW d \in Ids, NEW x \in RowsOf(d), Hashed(x), NEW i, NEW n \in Nat, n <= MaxSends, NEW f, NEW y,
         y = [x EXCEPT !.call = f, !.tx = [@ EXCEPT ![i] = n]]
  PROVE  Hashed(y)
<1>1. PICK a, b, c : x = [state |-> a, call |-> b, tx |-> c]
  BY DEF RowsOf
<1>2. x.tx = c /\ c \in [CallsOf(d) -> Nat]
  BY <1>1 DEF RowsOf
<1> DEFINE h == [c EXCEPT ![i] = n]
<1>3. y = [x EXCEPT !.call = f, !.tx = h]
  BY <1>2
<1>4. h \in [CallsOf(d) -> Nat] /\ \A j \in CallsOf(d) : h[j] = IF j = i THEN n ELSE c[j]
  BY <1>2
<1> HIDE DEF h
<1>5. y.tx = h
  BY <1>1, <1>3
<1>6. \A j \in CallsOf(d) : c[j] <= MaxSends
  BY <1>2 DEF Hashed
<1>7. \A j \in CallsOf(d) : h[j] <= MaxSends
  BY <1>4, <1>6
<1> QED BY <1>4, <1>5, <1>7 DEF Hashed

\* The transactions with one more.
LEMMA SentFits ==
  ASSUME SendsInv, HashInv, NEW t \in StrategyTurns, runner[t].id # NoId, Len(txs) < MaxSends, NEW raced,
         NEW next, next = Sent(t, raced)
  PROVE  Len(next) <= MaxSends /\ \A k \in 1..Len(next) : next[k].call \in Calls
<1> DEFINE d == runner[t].id
           i == NextCall(runner[t].row)
           e == [id |-> d, call |-> i, status |-> "pending", raced |-> raced]
<1>1. d \in Ids /\ runner[t].row \in RowsOf(d) /\ i # 0 /\ Len(txs) \in Nat /\ txs \in Seq(TxRecords)
  BY SendsTyped DEF SendsInv, SendInv, RunnersOk, RunnerRecords, RowOk
<1>2. i \in Calls
  BY <1>1, NextCallIs, CallsAreCalls
<1>3. next = Append(txs, e)
  BY DEF Sent
<1> HIDE DEF i, d
<1>4. e.call \in Calls
  BY <1>2
<1> HIDE DEF e
<1>5. /\ Len(next) = Len(txs) + 1 /\ next[Len(txs) + 1] = e
      /\ \A k \in 1..Len(txs) : next[k] = txs[k]
  BY <1>1, <1>3, AppendProperties
<1>6. \A k \in 1..Len(next) : k \in 1..Len(txs) \/ k = Len(txs) + 1
  BY <1>1, <1>5
<1>7. Len(next) <= MaxSends
  BY <1>1, <1>5, StrategyBounds
<1> QED BY <1>4, <1>5, <1>6, <1>7 DEF HashInv

\* A turn that stops sending has no row.
LEMMA IdleFits ==
  ASSUME SendsInv, HashInv, NEW t \in StrategyTurns, runner' = [runner EXCEPT ![t] = Idle(t)]
  PROVE  \A u \in StrategyTurns : Hashed(runner'[u].row)
<1>1. runner[t] \in RunnerRecords /\ runner \in [StrategyTurns -> RunnerRecords]
  BY SendsTyped
<1>2. Idle(t).row = NoRow
  BY <1>1 DEF Idle, RunnerRecords
<1>3. \A u \in StrategyTurns : runner'[u] = IF u = t THEN Idle(t) ELSE runner[u]
  BY <1>1
<1> QED BY <1>2, <1>3, NoHash DEF HashInv

\* A write leaves the snapshots as they are, stale.
LEMMA SpoiltFits ==
  ASSUME SendsInv, HashInv, NEW d, scan' \in {scan, SpoilScans(scan, d)}
  PROVE  \A u \in Scans : \A c \in Ids : Hashed(scan'[u].snap[c])
<1>1. \A u \in Scans : SpoilScans(scan, d)[u].snap = scan[u].snap
  BY SendsTyped DEF SpoilScans, ScanRecords
<1>2. \A u \in Scans : scan'[u].snap = scan[u].snap
  BY <1>1
<1> QED BY <1>2 DEF HashInv

\* A call is sent.
LEMMA SendFits ==
  ASSUME SendsInv, HashInv, LimitsInv, NEW t \in StrategyTurns, SendSucceeds(t)
  PROVE  HashInv' /\ LimitsInv'
<1> DEFINE d == runner[t].id
           x == runner[t].row
           i == NextCall(x)
           n == Len(txs) + 1
           f == [x.call EXCEPT ![i] = "Submitted"]
           y == [x EXCEPT !.call[i] = "Submitted", !.tx[i] = n]
<1>1. /\ d # NoId /\ Len(txs) < MaxSends /\ txs' = Sent(t, ~runner[t].fresh)
      /\ UNCHANGED <<created, book, template, policy, trail>>
  BY DEF SendSucceeds
<1>2. /\ runner[t] \in RunnerRecords /\ runner \in [StrategyTurns -> RunnerRecords] /\ rows \in [Ids -> AnyRow]
      /\ d \in Ids /\ x \in RowsOf(d) /\ Hashed(x) /\ Len(txs) \in Nat
  BY <1>1, SendsTyped DEF SendsInv, SendInv, RunnersOk, RunnerRecords, RowOk, HashInv
<1>3. Hashed(y)
  <2>1. n \in Nat /\ n <= MaxSends
    BY <1>1, <1>2, StrategyBounds
  <2>2. y = [x EXCEPT !.call = [@ EXCEPT ![i] = "Submitted"], !.tx = [@ EXCEPT ![i] = n]]
    OBVIOUS
  <2> HIDE DEF n, x, i
  <2>3. y = [x EXCEPT !.call = f, !.tx = [@ EXCEPT ![i] = n]]
    BY <2>2
  <2> HIDE DEF f, y, d
  <2> QED BY <1>2, <2>1, <2>3, NewHash
<1>4. LimitsInv'
  BY <1>1 DEF LimitsInv
<1>5. Len(txs') <= MaxSends /\ \A k \in 1..Len(txs') : txs'[k].call \in Calls
  BY <1>1, SentFits
<1>6. CASE runner[t].fresh
  <2>1. /\ rows' = [rows EXCEPT ![d] = y] /\ scan' = SpoilScans(scan, d)
        /\ runner' = [runner EXCEPT ![t] = IF NextCall(y) = 0 THEN Idle(t) ELSE [runner[t] EXCEPT !.row = y]]
    BY <1>6 DEF SendSucceeds
  <2> HIDE DEF y
  <2>2. \A c \in Ids : Hashed(rows'[c])
    BY <1>2, <1>3, <2>1 DEF HashInv
  <2>3. \A u \in StrategyTurns : Hashed(runner'[u].row)
    <3>1. Idle(t).row = NoRow /\ [runner[t] EXCEPT !.row = y].row = y
      BY <1>2 DEF Idle, RunnerRecords
    <3>2. \A u \in StrategyTurns : runner'[u].row \in {runner[u].row, NoRow, y}
      BY <1>2, <2>1, <3>1
    <3> QED BY <1>3, <3>2, NoHash DEF HashInv
  <2>4. \A u \in Scans : \A c \in Ids : Hashed(scan'[u].snap[c])
    BY <2>1, SpoiltFits
  <2> QED BY <1>4, <1>5, <2>2, <2>3, <2>4 DEF HashInv
<1>7. CASE ~runner[t].fresh
  <2>1. runner' = [runner EXCEPT ![t] = Idle(t)] /\ rows' = rows /\ scan' = scan
    BY <1>7 DEF SendSucceeds
  <2>2. \A u \in StrategyTurns : Hashed(runner'[u].row)
    BY <2>1, IdleFits
  <2> QED BY <1>4, <1>5, <2>1, <2>2 DEF HashInv
<1> QED BY <1>6, <1>7

\* A call that cannot be sent.
LEMMA LostFits ==
  ASSUME SendsInv, BooksInv, BooksInv', HashInv, LimitsInv, NEW t \in StrategyTurns, NEW arrived \in BOOLEAN,
         SendFails(t, arrived)
  PROVE  HashInv' /\ LimitsInv'
<1> DEFINE d == runner[t].id
           x == runner[t].row
           i == NextCall(x)
           f == [x.call EXCEPT ![i] = "Dropped"]
           z == IF \A j \in CallsOf(d) : x.tx[j] = 0 THEN "Dropped" ELSE "PartialFailure"
           y == [x EXCEPT !.call[i] = "Dropped", !.state = z]
<1>1. /\ d # NoId /\ txs' = (IF arrived THEN Sent(t, FALSE) ELSE txs) /\ (arrived => Len(txs) < MaxSends)
      /\ runner' = [runner EXCEPT ![t] = Idle(t)] /\ UNCHANGED <<created, policy>>
  BY DEF SendFails
<1>2. PICK deterministic \in BOOLEAN :
        /\ Store(d, FailureBooked(d, y, deterministic))
        /\ book' = FailureBooked(d, y, deterministic).book
        /\ template' = FailureBooked(d, y, deterministic).template
        /\ scan' \in {scan, SpoilScans(scan, d)}
  BY DEF SendFails
<1>3. d \in Ids /\ x \in RowsOf(d) /\ Hashed(x) /\ rows \in [Ids -> AnyRow]
  BY <1>1, SendsTyped DEF SendsInv, SendInv, RunnersOk, RunnerRecords, RowOk, HashInv
<1>4. Hashed(y)
  <2>1. y = [[x EXCEPT !.call = [@ EXCEPT ![i] = "Dropped"]] EXCEPT !.state = z]
    OBVIOUS
  <2> HIDE DEF x, i, z, d
  <2>2. y = [[x EXCEPT !.call = f] EXCEPT !.state = z]
    BY <2>1
  <2> HIDE DEF f, y
  <2> QED BY <1>3, <2>2, SameHashes
<1> HIDE DEF y
<1> DEFINE out == FailureBooked(d, y, deterministic)
<1>5. OutFits(out)
  BY <1>3, <1>4, FailureFits
<1>6. rows' = [rows EXCEPT ![d] = out.row] /\ trail' = [trail EXCEPT !.booked[d] = @ + out.booked]
  BY <1>2 DEF Store
<1> HIDE DEF out, d
<1>7. \A c \in Ids : Hashed(rows'[c])
  BY <1>3, <1>5, <1>6 DEF HashInv, OutFits
<1>8. Len(txs') <= MaxSends /\ \A k \in 1..Len(txs') : txs'[k].call \in Calls
  <2>1. CASE arrived
    <3>1. txs' = Sent(t, FALSE) /\ Len(txs) < MaxSends /\ runner[t].id # NoId
      BY <1>1, <2>1 DEF d
    <3> QED BY <3>1, SentFits
  <2>2. CASE ~arrived
    BY <1>1, <2>2 DEF HashInv
  <2> QED BY <2>1, <2>2
<1>9. HashInv'
  <2>1. \A u \in StrategyTurns : Hashed(runner'[u].row)
    BY <1>1, IdleFits
  <2>2. \A u \in Scans : \A c \in Ids : Hashed(scan'[u].snap[c])
    BY <1>2, SpoiltFits
  <2> QED BY <1>7, <1>8, <2>1, <2>2 DEF HashInv
<1>10. TrailFits(trail')
  <2>1. trail \in TrailRecords /\ trail' \in TrailRecords
    BY DEF BooksInv, BooksOk
  <2>2. trail'.lapses = trail.lapses /\ trail'.admin = trail.admin /\ trail'.turns = trail.turns
    BY <1>6, <2>1 DEF TrailRecords
  <2> QED BY <2>1, <2>2 DEF LimitsInv, TrailFits
<1> QED BY <1>1, <1>2, <1>5, <1>9, <1>10 DEF LimitsInv, OutFits, out

\* An execution is taken up.
LEMMA ExecuteFits ==
  ASSUME SendsInv, BooksInv, BooksInv', HashInv, LimitsInv, NEW t \in StrategyTurns, NEW plan \in Plans,
         Execute(t, plan)
  PROVE  HashInv' /\ LimitsInv'
<1> DEFINE d == <<t, plan>>
           x == IF rows[d].state = "None" THEN NewRow(d) ELSE rows[d]
           v == [runner[t] EXCEPT !.id = d, !.row = x, !.fresh = TRUE]
<1>1. /\ rows' = [rows EXCEPT ![d] = x] /\ UNCHANGED <<book, template, policy, txs>>
      /\ scan' \in {scan, SpoilScans(scan, d)} /\ runner' \in {runner, [runner EXCEPT ![t] = v]}
  BY DEF Execute
<1>2. \E w : trail' = [trail EXCEPT !.blind = w]
  BY DEF Execute
<1>3. d \in Ids
  BY DEF Ids
<1> HIDE DEF d
<1>4. Hashed(x)
  BY <1>3, NoHash DEF HashInv
<1> HIDE DEF x
<1>5. v.row = x /\ runner \in [StrategyTurns -> RunnerRecords] /\ rows \in [Ids -> AnyRow]
  BY SendsTyped DEF RunnerRecords
<1> HIDE DEF v
<1>6. HashInv'
  <2>1. \A c \in Ids : Hashed(rows'[c])
    BY <1>1, <1>3, <1>4, <1>5 DEF HashInv
  <2>2. \A u \in StrategyTurns : Hashed(runner'[u].row)
    BY <1>1, <1>4, <1>5 DEF HashInv
  <2>3. \A u \in Scans : \A c \in Ids : Hashed(scan'[u].snap[c])
    BY <1>1, SpoiltFits
  <2> QED BY <1>1, <2>1, <2>2, <2>3 DEF HashInv
<1>7. TrailFits(trail')
  <2>1. trail \in TrailRecords /\ trail' \in TrailRecords
    BY DEF BooksInv, BooksOk
  <2>2. trail'.lapses = trail.lapses /\ trail'.admin = trail.admin /\ trail'.turns = trail.turns
    BY <1>2, <2>1 DEF TrailRecords
  <2> QED BY <2>1, <2>2 DEF LimitsInv, TrailFits
<1> QED BY <1>1, <1>6, <1>7 DEF LimitsInv

\* Counting a job.
LEMMA JobFits ==
  ASSUME LimitsInv, trail' \in TrailRecords, NEW h, TrailFits(h), JobBegins(h)
  PROVE  TrailFits(trail')
<1> DEFINE n == trail.lapses + (IF Overlapped THEN 1 ELSE 0)
<1>1. trail' = [h EXCEPT !.lapses = n] /\ n <= MaxStrategyLapses
  BY DEF JobBegins
<1>2. h \in TrailRecords
  BY DEF TrailFits
<1> HIDE DEF n
<1>3. trail'.lapses = n /\ trail'.admin = h.admin /\ trail'.turns = h.turns
  BY <1>1, <1>2 DEF TrailRecords
<1> QED BY <1>1, <1>3 DEF TrailFits

\* A reconciliation begins.
LEMMA BeginFits ==
  ASSUME SendsInv, BooksInv, BooksInv', HashInv, LimitsInv, NEW r \in Scans, NEW due \in SUBSET Ids,
         BeginReconcile(r, due)
  PROVE  HashInv' /\ LimitsInv'
<1> DEFINE z == [on |-> TRUE, left |-> due, fresh |-> due, snap |-> [c \in Ids |-> IF c \in due THEN rows[c] ELSE NoRow]]
<1>1. /\ JobBegins(trail) /\ UNCHANGED <<rows, created, policy, runner, txs>>
      /\ template' \in {template, ReviewTemplate(template)} /\ book' \in {book, RepairExposure(book, rows)}
      /\ scan' \in {scan, [scan EXCEPT ![r] = z]}
  BY DEF BeginReconcile
<1>2. trail' \in TrailRecords /\ book' \in BookRecords
  BY DEF BooksInv, BooksOk
<1>3. TrailFits(trail')
  BY <1>1, <1>2, JobFits DEF LimitsInv
<1>4. BookFits(book') /\ template' \in TemplateRecords
  BY <1>1, <1>2, RepairFits, TemplateStays DEF LimitsInv
<1>5. \A c \in Ids : Hashed(z.snap[c])
  BY NoHash DEF HashInv
<1> HIDE DEF z
<1>6. \A u \in Scans : \A c \in Ids : Hashed(scan'[u].snap[c])
  <2>1. \A u \in Scans : scan'[u] \in {scan[u], z}
    BY <1>1, SendsTyped
  <2> QED BY <1>5, <2>1 DEF HashInv
<1> QED BY <1>1, <1>3, <1>4, <1>6 DEF HashInv, LimitsInv

\* Turns begin, end, simulate and are refused.
LEMMA QuietFits ==
  ASSUME SendsInv, BooksInv, BooksInv', HashInv, LimitsInv, NEW t \in StrategyTurns, NEW plan \in Plans,
         BeginStrategyTurn(t) \/ EndStrategyTurn(t) \/ Simulate(t, plan) \/ ExecutionRefused(t, plan)
  PROVE  HashInv' /\ LimitsInv'
<1>1. runner \in [StrategyTurns -> RunnerRecords] /\ runner[t] \in RunnerRecords
  BY SendsTyped
<1>2. rows' = rows /\ scan' = scan /\ txs' = txs /\ template' = template /\ policy' = policy
  BY DEF BeginStrategyTurn, EndStrategyTurn, Simulate, ExecutionRefused
<1>3. \A u \in StrategyTurns : Hashed(runner'[u].row)
  <2> DEFINE w == [runner[t] EXCEPT !.live = TRUE]
             v == [runner[t] EXCEPT !.simulated = @ \cup {plan}]
  <2>1. w.row = runner[t].row
    BY <1>1 DEF RunnerRecords
  <2>2. v.row = runner[t].row
    BY <1>1 DEF RunnerRecords
  <2>3. NotSending.row = NoRow
    BY DEF NotSending
  <2>4. \/ runner' = runner
        \/ runner' = [runner EXCEPT ![t] = w]
        \/ runner' = [runner EXCEPT ![t] = NotSending]
        \/ runner' = [runner EXCEPT ![t] = v]
    BY <1>1 DEF BeginStrategyTurn, EndStrategyTurn, Simulate, ExecutionRefused
  <2> HIDE DEF w, v
  <2>5. ASSUME NEW u \in StrategyTurns
        PROVE  runner'[u].row \in {runner[u].row, NoRow}
    <3>1. CASE runner' = runner
      BY <3>1
    <3>2. CASE runner' = [runner EXCEPT ![t] = w]
      BY <1>1, <2>1, <3>2
    <3>3. CASE runner' = [runner EXCEPT ![t] = NotSending]
      BY <1>1, <2>3, <3>3
    <3>4. CASE runner' = [runner EXCEPT ![t] = v]
      BY <1>1, <2>2, <3>4
    <3> QED BY <2>4, <3>1, <3>2, <3>3, <3>4
  <2> QED BY <2>5, NoHash DEF HashInv
<1>4. BookFits(book')
  <2>1. book' \in {book, Refused(book)}
    BY DEF BeginStrategyTurn, EndStrategyTurn, Simulate, ExecutionRefused
  <2> QED BY <2>1, BookStops DEF LimitsInv
<1>5. TrailFits(trail')
  <2>1. trail \in TrailRecords /\ trail' \in TrailRecords
    BY DEF BooksInv, BooksOk
  <2>2. CASE trail' = trail
    BY <2>2 DEF LimitsInv
  <2>3. CASE BeginStrategyTurn(t)
    <3> DEFINE h == [trail EXCEPT !.turns = t]
    <3>1. t \in Nat /\ t <= MaxStrategyTurns
      BY StrategyBounds DEF StrategyTurns
    <3>2. h \in TrailRecords /\ h.lapses = trail.lapses /\ h.admin = trail.admin /\ h.turns = t
      BY <2>1, <3>1 DEF TrailRecords
    <3>3. JobBegins(h)
      BY <2>3 DEF BeginStrategyTurn
    <3> HIDE DEF h
    <3>4. TrailFits(h)
      BY <3>1, <3>2 DEF LimitsInv, TrailFits
    <3> QED BY <2>1, <3>3, <3>4, JobFits
  <2> QED BY <2>2, <2>3 DEF EndStrategyTurn, Simulate, ExecutionRefused
<1> QED BY <1>2, <1>3, <1>4, <1>5 DEF HashInv, LimitsInv

\* A transaction is mined.
LEMMA MinedFits ==
  ASSUME SendsInv, HashInv, LimitsInv, NEW k \in 1..Len(txs), Mined(k)
  PROVE  HashInv' /\ LimitsInv'
<1>1. UNCHANGED <<rows, created, book, template, policy, runner, scan, trail>>
  BY DEF Mined
<1>2. PICK z \in {"mined", "reverted"} : txs' = [txs EXCEPT ![k].status = z]
  BY DEF Mined
<1>3. txs \in Seq(TxRecords) /\ txs[k] \in TxRecords /\ Len(txs) \in Nat
  BY SendsTyped, ElementOfSeq
<1> DEFINE e == [txs[k] EXCEPT !.status = z]
<1>4. e \in TxRecords /\ e.call = txs[k].call
  BY <1>3 DEF TxRecords
<1>5. txs' = [txs EXCEPT ![k] = e]
  BY <1>2
<1> HIDE DEF e
<1>6. Len(txs') = Len(txs) /\ \A j \in 1..Len(txs) : txs'[j] = IF j = k THEN e ELSE txs[j]
  BY <1>3, <1>4, <1>5, ExceptSeq
<1>7. Len(txs') <= MaxSends /\ \A j \in 1..Len(txs') : txs'[j].call \in Calls
  BY <1>4, <1>6 DEF HashInv
<1> QED BY <1>1, <1>7 DEF HashInv, LimitsInv

\* The operator.
LEMMA AdministerFits ==
  ASSUME SendsInv, BooksInv, HashInv, LimitsInv, Administer
  PROVE  HashInv' /\ LimitsInv'
<1>1. UNCHANGED <<rows, created, book, policy, scan, txs>>
  BY DEF Administer
<1>2. \A u \in StrategyTurns : Hashed(runner'[u].row)
  <2>1. runner' \in {runner, [u \in StrategyTurns |-> [runner[u] EXCEPT !.simulated = {}]]}
    BY DEF Administer
  <2>2. \A u \in StrategyTurns : [runner[u] EXCEPT !.simulated = {}].row = runner[u].row
    BY SendsTyped DEF RunnerRecords
  <2>3. \A u \in StrategyTurns : runner'[u].row = runner[u].row
    BY <2>1, <2>2
  <2> QED BY <2>3 DEF HashInv
<1>3. template' \in TemplateRecords
  <2>1. template \in TemplateRecords
    BY DEF LimitsInv
  <2>2. template' \in {[template EXCEPT !.status = "Active", !.enabled = @ \/ template.fit],
                       [template EXCEPT !.status = "Deprecated", !.enabled = FALSE],
                       [template EXCEPT !.status = "Revoked", !.enabled = FALSE, !.revoked = TRUE],
                       [template EXCEPT !.killed = ~@], [template EXCEPT !.fit = ~@]}
    BY DEF Administer
  <2> QED BY <2>1, <2>2 DEF TemplateRecords
<1>4. TrailFits(trail')
  <2>1. trail' = [trail EXCEPT !.admin = @ + 1] /\ trail.admin < MaxAdmin /\ trail \in TrailRecords
    BY DEF Administer, LimitsInv, TrailFits
  <2>2. trail.admin + 1 \in Nat /\ trail.admin + 1 <= MaxAdmin
    BY <2>1, StrategyBounds DEF TrailRecords
  <2>3. trail' \in TrailRecords /\ trail'.admin = trail.admin + 1 /\ trail'.lapses = trail.lapses
        /\ trail'.turns = trail.turns
    BY <2>1, <2>2 DEF TrailRecords
  <2> QED BY <2>2, <2>3 DEF LimitsInv, TrailFits
<1> QED BY <1>1, <1>2, <1>3, <1>4 DEF HashInv, LimitsInv

\* Every step keeps the bounds.
LEMMA StepFits ==
  ASSUME SendsInv, BooksInv, HashInv, LimitsInv, StrategyNext
  PROVE  HashInv' /\ LimitsInv'
<1>1. SendsInv' /\ BooksInv'
  BY StepKeepsSends, StepKeepsBooks
<1>2. ASSUME NEW t \in StrategyTurns, BeginStrategyTurn(t) \/ EndStrategyTurn(t)
      PROVE  HashInv' /\ LimitsInv'
  <2>1. "enter" \in Plans
    BY DEF Plans
  <2> QED BY <1>1, <1>2, <2>1, QuietFits
<1>3. ASSUME NEW t \in StrategyTurns, NEW plan \in Plans, Simulate(t, plan) \/ ExecutionRefused(t, plan)
      PROVE  HashInv' /\ LimitsInv'
  BY <1>1, <1>3, QuietFits
<1> QED BY <1>1, <1>2, <1>3, SendFits, LostFits, ExecuteFits, BeginFits, ReceiptsFit, MinedFits, AdministerFits
        DEF StrategyNext

\* Every hash in a row or a snapshot, however stale, is the number of a transaction, and the
\* counts of failures stop at their thresholds: for any calls, turns, executions and limits.
THEOREM StrategyTyped == StrategySpec => []StrategyTypeOK
<1>1. StrategyInit => HashInv /\ LimitsInv
  <2> SUFFICES ASSUME StrategyInit PROVE HashInv /\ LimitsInv
    OBVIOUS
  <2>1. HashInv
    <3>1. /\ rows = [d \in Ids |-> NoRow] /\ runner = [t \in StrategyTurns |-> NotSending]
          /\ scan = [r \in Scans |-> NoScan] /\ txs = <<>>
      BY DEF StrategyInit
    <3>2. NotSending.row = NoRow /\ \A d \in Ids : NoScan.snap[d] = NoRow
      BY DEF NotSending, NoScan
    <3>3. Len(txs) = 0
      BY <3>1
    <3> QED BY <3>1, <3>2, <3>3, NoHash, StrategyBounds DEF HashInv
  <2>2. BookFits(book)
    BY StrategyBounds DEF StrategyInit, BookFits, BookRecords
  <2>3. TrailFits(trail)
    BY StrategyBounds DEF StrategyInit, TrailFits, TrailRecords
  <2>4. template \in TemplateRecords
    BY DEF StrategyInit, TemplateRecords
  <2>5. policy \in [autonomous : BOOLEAN, simulate : BOOLEAN]
    <3>1. \E a, e \in BOOLEAN : policy = [autonomous |-> a, simulate |-> e]
      BY DEF StrategyInit
    <3> QED BY <3>1
  <2> QED BY <2>1, <2>2, <2>3, <2>4, <2>5 DEF LimitsInv
<1>2. SendsInv /\ BooksInv /\ HashInv /\ LimitsInv /\ [StrategyNext]_strategyVars => HashInv' /\ LimitsInv'
  <2>1. CASE UNCHANGED strategyVars
    BY <2>1 DEF strategyVars, HashInv, LimitsInv
  <2> QED BY <2>1, StepFits
<1>3. SendsInv /\ BooksInv /\ HashInv /\ LimitsInv => StrategyTypeOK
  <2> SUFFICES ASSUME SendsInv, BooksInv, HashInv, LimitsInv PROVE StrategyTypeOK
    OBVIOUS
  <2>1. \A x \in AnyRow : Hashed(x) => x \in Rows
    <3> SUFFICES ASSUME NEW x \in AnyRow, Hashed(x) PROVE x \in Rows
      OBVIOUS
    <3>1. CASE x = NoRow
      BY <3>1 DEF NoRow, Rows
    <3>2. CASE \E d \in Ids : x \in RowsOf(d)
      <4>1. PICK d \in Ids : x \in RowsOf(d)
        BY <3>2
      <4> DEFINE p == d[2]
      <4>2. p \in Plans /\ CallsOf(d) = 1..CallCount[p]
        BY StrategyNumbers DEF CallsOf
      <4> HIDE DEF p
      <4>3. x.state \in RowStates /\ x.call \in [1..CallCount[p] -> CallStates] /\ x.tx \in [1..CallCount[p] -> Nat]
            /\ x = [state |-> x.state, call |-> x.call, tx |-> x.tx]
        BY <4>1, <4>2 DEF RowsOf
      <4>4. x.tx \in [1..CallCount[p] -> 0..MaxSends]
        <5>1. DOMAIN x.tx = 1..CallCount[p] /\ \A i \in 1..CallCount[p] : x.tx[i] \in Nat
          BY <4>3
        <5>2. \A i \in 1..CallCount[p] : x.tx[i] <= MaxSends
          BY <5>1 DEF Hashed
        <5>3. \A i \in 1..CallCount[p] : x.tx[i] \in 0..MaxSends
          BY <5>1, <5>2, StrategyBounds
        <5> QED BY <4>3, <5>3
      <4>5. x \in [state : RowStates, call : [1..CallCount[p] -> CallStates], tx : [1..CallCount[p] -> 0..MaxSends]]
        BY <4>3, <4>4
      <4> QED BY <4>2, <4>5 DEF Rows
    <3> QED BY <3>1, <3>2 DEF AnyRow
  <2>2. rows \in [Ids -> Rows]
    BY <2>1, SendsTyped DEF HashInv
  <2>3. runner \in [StrategyTurns -> [live : BOOLEAN, simulated : SUBSET Plans, id : Ids \cup {NoId},
                                      row : Rows, fresh : BOOLEAN]]
    <3>1. runner \in [StrategyTurns -> RunnerRecords] /\ \A t \in StrategyTurns : runner[t] \in RunnerRecords
      BY SendsTyped
    <3>2. \A t \in StrategyTurns : runner[t].row \in Rows
      BY <2>1, <3>1 DEF HashInv, RunnerRecords
    <3> QED BY <3>1, <3>2 DEF RunnerRecords
  <2>4. scan \in [Scans -> [on : BOOLEAN, left : SUBSET Ids, fresh : SUBSET Ids, snap : [Ids -> Rows]]]
    <3>1. scan \in [Scans -> ScanRecords] /\ \A r \in Scans : scan[r] \in ScanRecords
      BY SendsTyped
    <3>2. \A r \in Scans : scan[r].snap \in [Ids -> AnyRow]
      BY <3>1 DEF ScanRecords
    <3>3. \A r \in Scans : scan[r].snap \in [Ids -> Rows]
      BY <2>1, <3>2 DEF HashInv
    <3> QED BY <3>1, <3>3 DEF ScanRecords
  <2>5. txs \in Seq([id : Ids, call : Calls, status : {"pending", "mined", "reverted"}, raced : BOOLEAN])
    <3> DEFINE E == [id : Ids, call : Calls, status : {"pending", "mined", "reverted"}, raced : BOOLEAN]
    <3>1. txs \in Seq(TxRecords) /\ Len(txs) \in Nat
      BY SendsTyped
    <3>2. \A k \in 1..Len(txs) : txs[k] \in TxRecords
      BY <3>1, ElementOfSeq
    <3>3. \A k \in 1..Len(txs) : txs[k] \in E
      BY <3>2 DEF TxRecords, HashInv
    <3> HIDE DEF E
    <3>4. txs = [k \in 1..Len(txs) |-> txs[k]]
      BY <3>1
    <3>5. txs \in [1..Len(txs) -> E]
      BY <3>3, <3>4
    <3>6. txs \in Seq(E)
      BY <3>1, <3>5, FunctionIsSeq
    <3> QED BY <3>6 DEF E
  <2>6. created \in Seq(Ids)
    BY DEF BooksInv, BooksOk, CreatedOk
  <2>7. book \in [exposure : Nat, spent : Nat, failures : 0..QuarantineLimit, streak : 0..StreakLimit]
    BY StrategyBounds DEF LimitsInv, BookFits, BookRecords
  <2>8. trail \in [booked : [Ids -> Nat], blind : BOOLEAN, lapses : 0..MaxStrategyLapses,
                   admin : 0..MaxAdmin, turns : 0..MaxStrategyTurns]
    BY StrategyBounds DEF LimitsInv, TrailFits, TrailRecords
  <2> QED BY <2>2, <2>3, <2>4, <2>5, <2>6, <2>7, <2>8 DEF StrategyTypeOK, LimitsInv, TemplateRecords
<1> QED BY <1>1, <1>2, <1>3, StrategyInvAlways, PTL DEF StrategySpec

(***************************************************************************)
(* The three together.  What one of them does leaves the others alone.     *)
(***************************************************************************)
\* Whatever part a behaviour exercises, its state stays typed: for any bounds of the three.
THEOREM AutomatonTyped == AutomatonSpec => []AutomatonTypeOK
<1>1. AutomatonInit => RtInit /\ AgentInit /\ StrategyInit
  BY DEF AutomatonInit
<1>2. [AutomatonNext]_automatonVars => [RtNext]_rtVars
  BY DEF AutomatonNext, automatonVars
<1>3. [AutomatonNext]_automatonVars => [AgentNext]_agentVars
  BY DEF AutomatonNext, automatonVars
<1>4. [AutomatonNext]_automatonVars => [StrategyNext]_strategyVars
  BY DEF AutomatonNext, automatonVars
<1>5. AutomatonSpec => RtSpec
  BY <1>1, <1>2, PTL DEF AutomatonSpec, RtSpec
<1>6. AutomatonSpec => AgentSpec
  BY <1>1, <1>3, PTL DEF AutomatonSpec, AgentSpec
<1>7. AutomatonSpec => StrategySpec
  BY <1>1, <1>4, PTL DEF AutomatonSpec, StrategySpec
<1>8. RtTypeOK /\ AgentTypeOK /\ StrategyTypeOK => AutomatonTypeOK
  BY DEF AutomatonTypeOK
<1> QED BY <1>5, <1>6, <1>7, <1>8, RtTyped, AgentTyped, StrategyTyped, PTL

=============================================================================
