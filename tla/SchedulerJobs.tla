---------------------------- MODULE SchedulerJobs ----------------------------
(***************************************************************************)
(* The factory's job records (scheduler.rs), as operators on a job         *)
(*   next   next_run_at_ms, NoTime when the job is not scheduled           *)
(*   until  leased_until_ms, NoTime when nobody holds the lease            *)
(*   fails  consecutive_failure_count                                      *)
(* A job that was never inserted is UnscheduledJob.  The status field is   *)
(* only reported, never read, and is left out.                             *)
(***************************************************************************)
EXTENDS Integers

CONSTANTS LeaseTime,       \* JOB_LEASE_DURATION_MS, in ticks
          PollInterval,    \* PAYMENT_POLL_INTERVAL_MS
          InitialBackoff,  \* INITIAL_BACKOFF_MS
          MaxBackoff,      \* MAX_BACKOFF_MS
          FailureCap,      \* bound: failures are counted up to here
          Horizon          \* bound: time stops here, and whatever would be
                           \* scheduled later is scheduled for the horizon

ASSUME SchedulerAssumption ==
    /\ {LeaseTime, PollInterval, InitialBackoff, MaxBackoff, Horizon} \subseteq Nat
    /\ FailureCap \in Nat \ {0}

\* Arithmetic, stated because the provers know nothing of powers.
ASSUME PowersAssumption == \A n \in 0 .. FailureCap : 2 ^ n \in Nat

NoTime == -1

Times == 0 .. Horizon

Jobs == [next : Times \cup {NoTime}, until : Times \cup {NoTime}, fails : 0 .. FailureCap]

UnscheduledJob == [next |-> NoTime, until |-> NoTime, fails |-> 0]

Later(now, delay) == IF now + delay <= Horizon THEN now + delay ELSE Horizon

\* job_has_live_lease, job_is_due.
HasLiveLease(job, now) == job.until > now

IsDue(job, now) ==
    job.next # NoTime /\ job.next <= now /\ ~ HasLiveLease(job, now)

\* backoff_delay_ms: doubles from InitialBackoff up to MaxBackoff.
BackoffDelay(fails) ==
    LET delay == InitialBackoff * 2 ^ (fails - 1)
    IN IF delay <= MaxBackoff THEN delay ELSE MaxBackoff

\* sync_payment_poll_job_in_state.  Nothing happens to a leased job.
SyncPollJob(job, active, now) ==
    IF HasLiveLease(job, now) THEN job
    ELSE [job EXCEPT !.until = NoTime,
                     !.next = IF ~ active THEN NoTime
                              ELSE IF @ # NoTime /\ @ <= now THEN @ ELSE now]

\* enqueue_spawn_execution_in_state.  A leased job is not enqueued again.
Enqueue(job, now) ==
    IF HasLiveLease(job, now) THEN job
    ELSE [job EXCEPT !.next = now, !.until = NoTime]

\* lease_due_jobs, for one due job.
Lease(job, now) == [job EXCEPT !.until = Later(now, LeaseTime)]

\* finalize_job_success and finalize_job_failure.  Both clear the lease,
\* whoever holds it; "again" is the poll's next run, NoTime for a spawn job.
FinishOk(job, again) ==
    [next |-> again, until |-> NoTime, fails |-> 0]

\* A mutant of CountFailure: the counter does not saturate.
CountFailureUnbounded(fails) == fails + 1

\* The count saturates.
CountFailure(fails) == IF fails < FailureCap THEN fails + 1 ELSE fails

FinishFailed(job, action, again, now) ==
    LET fails == CountFailure(job.fails)
    IN [next  |-> CASE action = "Backoff" -> Later(now, BackoffDelay(fails))
                    [] action = "Skip" -> again
                    [] action = "Terminal" -> NoTime,
        until |-> NoTime,
        fails |-> fails]

\* When a poll runs again after it succeeded or was skipped.
PollAgain(active, now) == IF active THEN Later(now, PollInterval) ELSE NoTime

=============================================================================
