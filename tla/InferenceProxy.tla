--------------------------- MODULE InferenceProxy ---------------------------
(***************************************************************************)
(* Asynchronous inference: a turn submits a job to a worker and ends; the  *)
(* worker calls back with the result, which a later turn picks up          *)
(* (features/inference.rs, the proxy section of storage/stable.rs).        *)
(*                                                                         *)
(* p.pending  jobs that were acknowledged and wait for their callback      *)
(* p.results  callbacks that wait for a turn, oldest first                 *)
(* p.done     jobs whose callback was accepted                             *)
(* A job is named by the turn that submitted it: a turn submits one.       *)
(***************************************************************************)
EXTENDS Naturals, Sequences

NoProxyJobs == [pending |-> {}, results |-> <<>>, done |-> {}]

BufferedJobs(p) == {p.results[i].job : i \in 1..Len(p.results)}

\* upsert_pending_inference_proxy_job, after the worker's acknowledgement.
UpsertPendingJob(p, job) == [p EXCEPT !.pending = @ \cup {job}]

\* apply_inference_proxy_callback: a duplicate, or a callback for a job that is not
\* (not yet, or no longer) pending, changes nothing.
ApplyCallback(p, job, out) ==
  IF job \in BufferedJobs(p) \cup p.done \/ job \notin p.pending THEN p
  ELSE [pending |-> p.pending \ {job},
        results |-> Append(p.results, [job |-> job, out |-> out]),
        done    |-> p.done \cup {job}]

PlaceOf(p, job) == CHOOSE i \in 1..Len(p.results) : p.results[i].job = job

\* take_inference_proxy_callback_result, also used for the oldest one by pop_next.
TakeCallback(p, job) ==
  [p EXCEPT !.results = [i \in 1 .. Len(@) - 1 |-> @[IF i < PlaceOf(p, job) THEN i ELSE i + 1]]]

Result(p, job) == p.results[PlaceOf(p, job)].out

ExpirePending(p, job) == [p EXCEPT !.pending = @ \ {job}]

=============================================================================
