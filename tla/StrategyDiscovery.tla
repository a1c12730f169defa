------------------------- MODULE StrategyDiscovery -------------------------
(***************************************************************************)
(* A worker off the canister is asked for strategies and answers through a *)
(* callback.  The submission and the callback are two messages: either may *)
(* be lost, and the callback may come before the answer to the submission. *)
(***************************************************************************)
EXTENDS Naturals, FiniteSets

CONSTANTS Watchlists,        \* objectives and watchlists discovery is configured with
          ResultTtl,         \* result_ttl_secs
          MaxDiscoveryTime,  \* bound: clock
          MaxSubmissions,    \* bound: jobs submitted
          MaxSettings        \* bound: changes of the configuration

ASSUME DiscoveryAssumption == MaxDiscoveryTime \in Nat

VARIABLES discovery,   \* the worker's configuration: a watchlist, "off" if disabled
          submissions, \* jobs being submitted, and the ones the worker has
          pendingJobs, \* strategy_discovery_pending_jobs
          results,     \* strategy_discovery_results and the completed callback jobs
          clock,
          configured     \* bound

discoveryVars == <<discovery, submissions, pendingJobs, results, clock, configured>>

Jobs    == 0..MaxDiscoveryTime
Results == [status : {"Validated", "Rejected"}, watch : Watchlists, at : Jobs]

DiscoveryTypeOK ==
  /\ discovery \in Watchlists \cup {"off"} /\ clock \in Jobs
  /\ DOMAIN pendingJobs \subseteq Jobs /\ DOMAIN results \subseteq Jobs
  /\ \A job \in DOMAIN results : results[job] \in Results
  /\ \A s \in submissions : s.job \in Jobs /\ s.watch \in Watchlists

DiscoveryInit ==
  /\ discovery \in Watchlists /\ submissions = {} /\ pendingJobs = <<>> /\ results = <<>>
  /\ clock = 0 /\ configured = 0

\* set_strategy_discovery_worker_config: an enabled worker has a key, a principal, an objective
\* and a watchlist.
SetDiscoveryConfig ==
  /\ configured < MaxSettings /\ configured' = configured + 1
  /\ discovery' \in (Watchlists \cup {"off"}) \ {discovery}
  /\ UNCHANGED <<submissions, pendingJobs, results, clock>>

\* A result of this configuration that is validated and not too old.
FreshResult ==
  \E job \in DOMAIN results :
    /\ results[job].status = "Validated" /\ results[job].watch = discovery
    /\ clock <= results[job].at + ResultTtl

Unexpired == {job \in DOMAIN pendingJobs : pendingJobs[job].at + ResultTtl > clock}

\* A job is named for the time of its submission.
Submitted(watch) ==
  submissions \cup {[job |-> clock, watch |-> watch, acked |-> FALSE]}

\* reconcile: jobs that wait too long are dropped, and one is submitted if nothing is awaited.
DiscoveryReconcile ==
  /\ pendingJobs' = [job \in Unexpired |-> pendingJobs[job]]
  /\ submissions' = IF discovery # "off" /\ Unexpired = {} /\ ~FreshResult
                      THEN Submitted(discovery) ELSE submissions
  /\ Cardinality(submissions') <= MaxSubmissions
  /\ <<pendingJobs', submissions'>> # <<pendingJobs, submissions>>
  /\ UNCHANGED <<discovery, results, clock, configured>>

\* enqueue_strategy_discovery_job_admin, with a watchlist of the caller's choice.
DiscoveryEnqueue(watch) ==
  /\ discovery # "off" /\ submissions' = Submitted(watch)
  /\ Cardinality(submissions') <= MaxSubmissions
  /\ UNCHANGED <<discovery, pendingJobs, results, clock, configured>>

\* The worker's answer to the submission; only an acknowledged job is pending.
SubmitAcked(s) ==
  /\ s \in submissions /\ ~s.acked
  /\ submissions' = (submissions \ {s}) \cup {[s EXCEPT !.acked = TRUE]}
  /\ \/ pendingJobs' = [job \in DOMAIN pendingJobs \cup {s.job} |->
                          IF job = s.job THEN [watch |-> s.watch, at |-> s.job] ELSE pendingJobs[job]]
     \/ UNCHANGED pendingJobs
  /\ UNCHANGED <<discovery, results, clock, configured>>

\* A mutant of ValidPayload: the payload fits the job it is for; its sources are not looked at.
ValidPayloadAnyWatch(pending, watch, completed) == completed + ResultTtl >= clock

\* The objective and the watchlist are those of the job, the answer is not too old, and every
\* source is of a host of the watchlist.
ValidPayload(pending, watch, completed) ==
  pending.watch = watch /\ completed + ResultTtl >= clock

\* submit_strategy_discovery_result: the worker calls back, before its answer to the
\* submission is read too; the first callback of a job is the result, whatever it says.
DiscoveryCallback(job, watch, completed) ==
  /\ \E s \in submissions : s.job = job
  /\ completed \in job..clock /\ job \notin DOMAIN results
  /\ LET status == IF job \in DOMAIN pendingJobs
                        /\ ValidPayload(pendingJobs[job], watch, completed)
                     THEN "Validated" ELSE "Rejected"
         result == [status |-> status, watch |-> watch, at |-> clock]
     IN  results' = [j \in DOMAIN results \cup {job} |-> IF j = job THEN result ELSE results[j]]
  /\ pendingJobs' = [j \in DOMAIN pendingJobs \ {job} |-> pendingJobs[j]]
  /\ UNCHANGED <<discovery, submissions, clock, configured>>

DiscoveryTime ==
  /\ clock < MaxDiscoveryTime /\ clock' = clock + 1
  /\ UNCHANGED <<discovery, submissions, pendingJobs, results, configured>>

DiscoveryNext ==
  \/ SetDiscoveryConfig \/ DiscoveryReconcile \/ DiscoveryTime
  \/ \E watch \in Watchlists : DiscoveryEnqueue(watch)
  \/ \E s \in submissions : SubmitAcked(s)
  \/ \E job, completed \in Jobs, watch \in Watchlists : DiscoveryCallback(job, watch, completed)

DiscoverySpec == DiscoveryInit /\ [][DiscoveryNext]_discoveryVars

(***************************************************************************)
(* Properties.                                                             *)
(***************************************************************************)
\* A validated result answers a question this canister asked: a job it submitted with that
\* watchlist, not one of an earlier configuration or another job.
ValidatedWasAsked ==
  \A job \in DOMAIN results : results[job].status = "Validated" =>
    \E s \in submissions : s.job = job /\ s.watch = results[job].watch /\ s.acked

=============================================================================
