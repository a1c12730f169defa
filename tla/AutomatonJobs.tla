--------------------------- MODULE AutomatonJobs ---------------------------
(***************************************************************************)
(* The automaton's job queue: five kinds of task, their schedules, the     *)
(* jobs materialised from them, and the one mutating lease                 *)
(* (storage/stable.rs, storage/sqlite.rs, the end of scheduler.rs).        *)
(*                                                                         *)
(* Every operator takes the queue q and returns the queue afterwards:      *)
(*   jobs   the table of jobs; a job's id is its place in the sequence     *)
(*   task   per kind: enabled, interval, due, backoff (0: none), failures, *)
(*          and the id of the job the schedule waits for (0: none)         *)
(*   lease  the job that holds the mutating lease and its expiry           *)
(***************************************************************************)
EXTENDS RecoveryPolicy

CONSTANT LeaseTtl   \* lease_ttl_ns, per kind

Kinds == {"AgentTurn", "PollInbox", "CheckCycles", "TopUpCycles", "Reconcile"}

\* TaskKind::default_priority: the order of the table is the order of the kinds.
ByPriority == <<"AgentTurn", "PollInbox", "CheckCycles", "TopUpCycles", "Reconcile">>

Essential(kind) == kind # "Reconcile"

Priority(kind) == CHOOSE i \in 1..5 : ByPriority[i] = kind

ASSUME JobsAssumption == LeaseTtl \in [Kinds -> Nat \ {0}]

JobStatuses == {"Pending", "InFlight", "Succeeded", "Failed", "TimedOut", "Skipped", "Deleted"}

IsTerminal(job) == job.status \in {"Succeeded", "Failed", "TimedOut", "Skipped", "Deleted"}

MaxAttempts == 3

\* A dedupe key: the task's slot, or a name for jobs that no schedule creates.
TopUpKey == <<"TopUpCycles", "singleton", 0>>

NoLease == [job |-> 0, until |-> 0]

ScheduledJob(kind, key, at) ==
  [kind |-> kind, key |-> key, at |-> at, status |-> "Pending", attempts |-> 0]

(***************************************************************************)
(* enqueue_job_if_absent.  The query behind it selects the statuses        *)
(* 'Pending' and 'Running', and no job is ever stored as 'Running': a job  *)
(* in flight does not keep a second one with its key out.                  *)
(***************************************************************************)
FindByDedupeKey(q, key) ==
  {i \in 1..Len(q.jobs) : q.jobs[i].key = key /\ q.jobs[i].status = "Pending"}

EnqueueJobIfAbsent(q, kind, key, at) ==
  IF FindByDedupeKey(q, key) # {} THEN q
  ELSE [q EXCEPT !.jobs = Append(@, ScheduledJob(kind, key, at)),
                 !.task[kind].pending = Len(q.jobs) + 1]

\* The jobs the query of pop_next_pending_job finds first: by priority, then by age.
NextPending(q, now) ==
  LET due  == {i \in 1..Len(q.jobs) : q.jobs[i].status = "Pending" /\ q.jobs[i].at <= now}
      best == Min({Priority(q.jobs[i].kind) : i \in due})
  IN  IF due = {} THEN 0 ELSE Min({i \in due : Priority(q.jobs[i].kind) = best})

PopPendingJob(q, id) == [q EXCEPT !.jobs[id].status = "InFlight"]

LeaseActive(q, now) == q.lease.job # 0 /\ q.lease.until > now

\* Reached only when no lease is active and for a job that was just popped.
AcquireMutatingLease(q, id, now) ==
  [q EXCEPT !.lease = [job |-> id, until |-> now + LeaseTtl[q.jobs[id].kind]]]

(***************************************************************************)
(* complete_job: whoever calls it, and whatever the job's status is by     *)
(* then.  retry is the delay of a retry, or -1 for none.                   *)
(***************************************************************************)
TaskBackoff(failures, now) ==
  now + Clamp(2 ^ (IF failures < 20 THEN failures ELSE 20), 1, Max({MaxBackoff, 1}))

Retries(job, status, retry) ==
  /\ status \in {"Failed", "TimedOut"}
  /\ retry # -1
  /\ job.attempts + 1 < MaxAttempts

\* The job afterwards.
Completed(job, status, now, retry) ==
  LET retried == Retries(job, status, retry)
  IN  [job EXCEPT !.attempts = @ + 1,
                  !.status = IF retried THEN "Pending" ELSE status,
                  !.at = IF retried THEN now + retry ELSE @]

CompleteJob(q, id, status, now, retry) ==
  LET job      == q.jobs[id]
      task     == q.task[job.kind]
      retried  == Retries(job, status, retry)
      failed   == status \in {"Failed", "TimedOut"}
      failures == IF status = "Succeeded" THEN 0
                  ELSE IF failed THEN task.failures + 1 ELSE task.failures
      backoff  == IF status = "Succeeded" THEN 0
                  ELSE IF ~failed THEN task.backoff
                  ELSE IF retry # -1 THEN now + retry ELSE TaskBackoff(failures, now)
      pending  == IF retried THEN id ELSE IF task.pending = id THEN 0 ELSE task.pending
  IN  [q EXCEPT !.jobs[id] = Completed(@, status, now, retry),
                !.task[job.kind] = [@ EXCEPT !.failures = failures, !.backoff = backoff,
                                             !.pending = pending],
                !.lease = IF @.job = id THEN NoLease ELSE @]

\* A mutant of RecoverStaleLease: the lease is recovered before it expires.
RecoverEveryLease(q, now) ==
  IF q.lease.job # 0 THEN CompleteJob(q, q.lease.job, "TimedOut", now, -1) ELSE q

RecoverStaleLease(q, now) ==
  IF q.lease.job # 0 /\ q.lease.until <= now
  THEN CompleteJob(q, q.lease.job, "TimedOut", now, -1)
  ELSE q

(***************************************************************************)
(* Schedules.                                                              *)
(***************************************************************************)
SetTaskInterval(q, kind, interval, now) ==
  [q EXCEPT !.task[kind] = [@ EXCEPT !.interval = interval, !.due = now + interval]]

SetCadence(q, interval, now) ==
  [q EXCEPT !.task = [kind \in Kinds |-> SetTaskInterval(q, kind, interval, now).task[kind]]]

\* clear_pending_job_for_disabled_task deletes only the job the schedule remembers.
ClearPendingJob(q, kind) ==
  LET id == q.task[kind].pending
  IN  IF id = 0 \/ q.jobs[id].status # "Pending" THEN q
      ELSE [q EXCEPT !.jobs[id].status = "Deleted", !.task[kind].pending = 0]

SetTaskEnabled(q, kind, enabled) ==
  LET set == [q EXCEPT !.task[kind].enabled = enabled]
  IN  IF enabled THEN set ELSE ClearPendingJob(set, kind)

(***************************************************************************)
(* refresh_due_jobs.  The runtime of the task is read before the enqueue   *)
(* and saved after it, so the pending id that the enqueue recorded is      *)
(* overwritten by the one before it, which is none.                        *)
(***************************************************************************)
Due(q, kind, low, now) ==
  LET task == q.task[kind]
  IN  /\ task.enabled
      /\ low => Essential(kind)
      /\ task.interval # 0
      /\ task.pending = 0
      /\ task.backoff <= now
      /\ task.due <= now

SlotOf(task, now) == now - (now % task.interval)

SlotKey(kind, slot) == IF kind = "TopUpCycles" THEN TopUpKey ELSE <<kind, "slot", slot>>

NextSlot(task, slot) == [task EXCEPT !.due = Max({@ + task.interval, slot + task.interval})]

RefreshKind(q, kind, low, now) ==
  LET slot   == SlotOf(q.task[kind], now)
      queued == EnqueueJobIfAbsent(q, kind, SlotKey(kind, slot), slot)
  IN  IF ~Due(q, kind, low, now) THEN q
      ELSE [queued EXCEPT !.task[kind] = NextSlot(q.task[kind], slot)]

RefreshDueJobs(q, low, now) ==
  LET first  == RefreshKind(q, "AgentTurn", low, now)
      second == RefreshKind(first, "PollInbox", low, now)
      third  == RefreshKind(second, "CheckCycles", low, now)
      fourth == RefreshKind(third, "TopUpCycles", low, now)
  IN  RefreshKind(fourth, "Reconcile", low, now)

=============================================================================
