----------------------------- MODULE AgentTurn -----------------------------
(***************************************************************************)
(* Turns of the agent and the correspondence they serve (agent.rs).        *)
(*                                                                         *)
(* A turn takes the staged messages as one batch, runs rounds of inference *)
(* and tool calls, and ends by answering and consuming the batch; without  *)
(* a batch it records a decision.  Every await is a step of its own: while *)
(* a turn is suspended messages arrive, callbacks come in, and, once its   *)
(* lease has expired, the lock is recovered and another turn begins.       *)
(* What depends on time (deadlines, expiry, cooldowns) is a choice.        *)
(***************************************************************************)
EXTENDS InferenceProxy, FiniteSetsExt

CONSTANTS MaxMessages,      \* bound: messages that arrive
          MaxTurns,         \* bound: turns that begin
          MaxLapses,        \* bound: turns that lose their lock or trap
          BatchSize,        \* MAX_STAGED_INBOX_MESSAGES_PER_TURN
          MaxRounds,        \* max_inference_rounds
          MaxToolCalls,     \* max_tool_calls_per_turn
          MaxWaitAttempts,  \* PROXY_WAIT_MAX_ATTEMPTS_FOR_STAGED_INBOX
          WorkerOutputs,    \* what a callback of the proxy worker may carry
          RejectionLimit    \* AUTONOMY_INFERENCE_PROVIDER_REJECTION_THRESHOLD

ASSUME TurnAssumption ==
  /\ MaxMessages \in Nat /\ MaxTurns \in Nat /\ MaxLapses \in Nat /\ BatchSize \in Nat \ {0} /\ MaxRounds \in Nat \ {0}
  /\ MaxToolCalls \in Nat /\ MaxWaitAttempts \in Nat \ {0} /\ RejectionLimit \in Nat \ {0}
  /\ WorkerOutputs \subseteq {"error", "text", "calls"}

VARIABLES inbox,      \* status of the messages, in the order they came
          outbox,     \* replies: turn, messages answered, what the reply is, what it saw
          waits,      \* InboxProxyWaitState per message
          proxy,      \* see InferenceProxy
          worker,     \* external: jobs the proxy worker has been given
          provider,   \* "direct" or "proxy", the configured inference provider
          turn,       \* the turns
          begun,      \* turn_counter
          lock,       \* turn_in_flight
          stale,      \* history: turns that lost the lock while suspended, or trapped
          rejections, \* autonomy_inference_suppression: consecutive rejections
          decision,   \* the turn of the latest decision record
          used        \* history: how often the callback of a job was used

agentVars == <<inbox, outbox, waits, proxy, worker, provider, turn, begun, lock, stale,
               rejections, decision, used>>

TurnIds  == 1..MaxTurns
Messages == 1..MaxMessages
NoWait   == [job |-> 0, attempts |-> 0]
Replies  == {"none", "text", "skipped", "fallback", "window closed"}

TurnAt(pc, batch, wait, buffered) ==
  [pc |-> pc, batch |-> batch, wait |-> wait, buffered |-> buffered, round |-> 1,
   calls |-> 0, ran |-> FALSE, reply |-> "none", seen |-> {}, plan |-> 0]

NoTurn == TurnAt("none", {}, NoWait, FALSE)

AgentTypeOK ==
  /\ inbox \in Seq({"Pending", "Staged", "Consumed"}) /\ Len(inbox) <= MaxMessages
  /\ outbox \subseteq [turn : TurnIds, batch : SUBSET Messages, reply : Replies, seen : SUBSET Messages]
  /\ waits \in [Messages -> [job : 0..MaxTurns, attempts : 0 .. MaxWaitAttempts - 1]]
  /\ proxy.pending \subseteq TurnIds /\ proxy.done \subseteq TurnIds /\ worker \subseteq TurnIds
  /\ begun \in 0..MaxTurns /\ lock \in BOOLEAN /\ stale \subseteq TurnIds
  /\ turn \in [TurnIds -> [pc : {"none", "infer", "tools", "retry", "done", "trapped"},
                           batch : SUBSET Messages,
                           wait : [job : 0..MaxTurns, attempts : 0 .. MaxWaitAttempts - 1],
                           buffered : BOOLEAN, round : 1..MaxRounds, calls : 0..MaxToolCalls,
                           ran : BOOLEAN, reply : Replies, seen : SUBSET Messages,
                           plan : 0..MaxToolCalls]]
  /\ rejections \in 0..RejectionLimit /\ decision \in 0..MaxTurns
  /\ used \in [TurnIds -> Nat]

AgentInit ==
  /\ inbox = <<>> /\ outbox = {} /\ waits = [m \in Messages |-> NoWait]
  /\ proxy = NoProxyJobs /\ worker = {} /\ provider \in {"direct", "proxy"}
  /\ turn = [t \in TurnIds |-> NoTurn] /\ begun = 0 /\ lock = FALSE /\ stale = {}
  /\ rejections = 0 /\ decision = 0 /\ used = [t \in TurnIds |-> 0]

(***************************************************************************)
(* Correspondence: inbox, outbox, wait states.                             *)
(***************************************************************************)
Staged == {m \in 1..Len(inbox) : inbox[m] = "Staged"}

\* list_staged_inbox_messages: the oldest ones.
Batch == {m \in Staged : Cardinality({n \in Staged : n < m}) < BatchSize}

PostInboxMessage ==
  /\ Len(inbox) < MaxMessages
  /\ inbox' = Append(inbox, "Pending")
  /\ UNCHANGED <<outbox, waits, proxy, worker, provider, turn, begun, lock, stale, rejections,
                 decision, used>>

\* The poll stages what is pending; the size of its batch is no bound here.
StagePending ==
  /\ \E m \in 1..Len(inbox) : inbox[m] = "Pending"
  /\ inbox' = [m \in 1..Len(inbox) |-> IF inbox[m] = "Pending" THEN "Staged" ELSE inbox[m]]
  /\ UNCHANGED <<outbox, waits, proxy, worker, provider, turn, begun, lock, stale, rejections,
                 decision, used>>

\* A mutant of ConsumeStaged: all that is staged is consumed.
ConsumeAllStaged(batch) ==
  [m \in 1..Len(inbox) |-> IF inbox[m] = "Staged" THEN "Consumed" ELSE inbox[m]]

ConsumeStaged(batch) ==
  [m \in 1..Len(inbox) |-> IF m \in batch /\ inbox[m] = "Staged" THEN "Consumed" ELSE inbox[m]]

\* post_outbox_message, consume_staged_inbox_messages, remove_inbox_proxy_wait_states
Answer(t, next, reply) ==
  /\ outbox' = outbox \cup {[turn |-> t, batch |-> next.batch, reply |-> reply, seen |-> next.seen]}
  /\ inbox' = ConsumeStaged(next.batch)
  /\ waits' = [m \in Messages |-> IF m \in next.batch THEN NoWait ELSE waits[m]]

\* The wait state of the first message that has one is taken for the whole batch.
LoadWait(batch) ==
  LET waiting == {m \in batch : waits[m].attempts # 0}
  IN  IF waiting = {} THEN NoWait ELSE waits[Min(waiting)]

\* A mutant of FailCloses: only the age of the wait is looked at.
FailClosesByAge(wait, aged) == aged

FailCloses(wait, aged) == wait.attempts >= MaxWaitAttempts \/ aged

(***************************************************************************)
(* The end of a turn, in the message of its last step.                     *)
(***************************************************************************)
Turn(t, next) == turn' = [turn EXCEPT ![t] = next]

\* The first await of a new turn is where its lock shows; an older turn leaves it alone.
Suspend(t, next, pc, plan) ==
  /\ Turn(t, [next EXCEPT !.pc = pc, !.plan = plan])
  /\ lock' = (t > begun \/ lock)
  /\ UNCHANGED <<inbox, outbox, waits, decision>>

FinishTurn(t, next) ==
  /\ Turn(t, TurnAt("done", next.batch, NoWait, FALSE))
  /\ lock' = (t < begun /\ lock)

EndFailed(t, next) == FinishTurn(t, next) /\ UNCHANGED <<inbox, outbox, waits, decision>>

\* PersistCompleted: answer the batch, or record the decision of a turn without one.
\* A turn that found a callback buffered when it began records none.
EndAnswering(t, next) ==
  /\ FinishTurn(t, next)
  /\ IF next.batch # {}
     THEN /\ Answer(t, next, IF next.reply = "none" THEN "fallback" ELSE next.reply)
          /\ UNCHANGED decision
     ELSE /\ decision' = IF next.buffered THEN decision ELSE t
          /\ UNCHANGED <<inbox, outbox, waits>>

\* The rounds are over: without a batch the decision may have to be asked for once more.
EndRounds(t, next) ==
  \/ EndAnswering(t, next)
  \/ next.batch = {} /\ ~next.buffered /\ Suspend(t, next, "retry", 0)

\* Inference deferred to a callback.  A batch waits, and is answered once it waited too long.
EndDeferred(t, next, job, aged) ==
  LET wait == [job      |-> IF next.wait.job # 0 THEN next.wait.job ELSE job,
               attempts |-> next.wait.attempts + 1]
  IN  /\ FinishTurn(t, next) /\ UNCHANGED decision
      /\ IF next.batch = {} THEN UNCHANGED <<inbox, outbox, waits>>
         ELSE IF FailCloses(wait, aged) THEN Answer(t, next, "window closed")
         ELSE /\ waits' = [m \in Messages |-> IF m \in next.batch THEN wait ELSE waits[m]]
              /\ UNCHANGED <<inbox, outbox>>

(***************************************************************************)
(* What a turn does with the output of an inference.  late: the deadline   *)
(* has passed, and the output is dropped.                                  *)
(***************************************************************************)
InferenceFails(t, next) ==
  IF next.ran \/ (next.batch = {} /\ next.round = 1) THEN EndAnswering(t, next) ELSE EndFailed(t, next)

\* The plan is cut to what is left of the turn's budget of tool calls.
PlanTools(t, next, n) ==
  LET budget == MaxToolCalls - next.calls
  IN  IF budget = 0 THEN EndRounds(t, next)
      ELSE Suspend(t, next, "tools", Min({n, budget}))

\* Any output of the provider ends the count; an error of the provider in the first round
\* of a turn without input counts towards the suppression of such turns.
CountRejection(next, out, late) ==
  IF out \in {"text", "empty", "calls"} THEN 0
  ELSE IF late \/ next.batch # {} \/ next.round > 1 \/ out = "skipped" THEN rejections
  ELSE IF out = "rejected" THEN Min({rejections + 1, RejectionLimit}) ELSE 0

ApplyOutput(t, next, out, seen, late) ==
  LET said == [next EXCEPT !.reply = "text", !.seen = seen]
  IN  /\ rejections' = CountRejection(next, out, late)
      /\ IF late THEN EndRounds(t, next)
         ELSE CASE out \in {"error", "rejected"} -> InferenceFails(t, next)
                [] out = "skipped" -> EndAnswering(t, [next EXCEPT !.reply = "skipped"])
                [] out = "text" -> EndRounds(t, said)
                [] out = "empty" -> EndRounds(t, next)
                [] out = "calls" -> \E n \in 1..MaxToolCalls : PlanTools(t, next, n) \/ PlanTools(t, said, n)

(***************************************************************************)
(* Up to the inference's await.  With the proxy there is no await when a   *)
(* callback is there to be used or waited for: the output is applied in    *)
(* the same message.                                                       *)
(***************************************************************************)
UseCallback(t, next, job) ==
  /\ used' = [used EXCEPT ![job] = @ + 1]
  /\ proxy' = TakeCallback(proxy, job)
  /\ ApplyOutput(t, next, Result(proxy, job), turn[job].batch, FALSE)

Resumes(next) == provider = "proxy" /\ next.wait.job # 0

\* A mutant of PopsCallback: a turn with a batch takes any callback too.
PopsAnyCallback(next) == provider = "proxy" /\ next.wait.job = 0 /\ proxy.results # <<>>

PopsCallback(next) ==
  provider = "proxy" /\ next.wait.job = 0 /\ next.batch = {} /\ proxy.results # <<>>

Infer(t, next) ==
  \/ Resumes(next) /\ next.wait.job \in BufferedJobs(proxy) /\ UseCallback(t, next, next.wait.job)
  \/ /\ Resumes(next) /\ next.wait.job \notin BufferedJobs(proxy)
     /\ \E aged \in BOOLEAN : EndDeferred(t, next, 0, aged)
     /\ UNCHANGED <<proxy, used, rejections>>
  \/ PopsCallback(next) /\ UseCallback(t, next, Head(proxy.results).job)
  \/ /\ ~Resumes(next) /\ ~PopsCallback(next)
     /\ Suspend(t, next, "infer", 0)
     /\ UNCHANGED <<proxy, used, rejections>>

(***************************************************************************)
(* Steps of a turn.                                                        *)
(***************************************************************************)
BeginsTurn == ~lock /\ begun < MaxTurns /\ begun' = begun + 1

ThisTurn == LET wait == IF provider = "proxy" THEN LoadWait(Batch) ELSE NoWait
            IN  TurnAt("infer", Batch, wait, provider = "proxy" /\ proxy.results # <<>>)

TurnBegins ==
  /\ BeginsTurn
  /\ Batch = {} => rejections < RejectionLimit
  /\ Infer(begun + 1, ThisTurn)
  /\ UNCHANGED <<worker, provider, stale>>

\* A turn without input that the reserve forbids to infer, or whose inference is suppressed.
TurnWithoutInference ==
  /\ BeginsTurn /\ Batch = {}
  /\ EndAnswering(begun + 1, ThisTurn)
  /\ UNCHANGED <<proxy, worker, provider, stale, rejections, used>>

SuppressionExpires ==
  /\ rejections = RejectionLimit /\ rejections' = 0
  /\ UNCHANGED <<inbox, outbox, waits, proxy, worker, provider, turn, begun, lock, stale,
                 decision, used>>

\* What a provider that is called directly comes back with.
DirectOutputs == {"error", "rejected", "skipped", "text", "empty", "calls"}

InferenceReturns(t) ==
  /\ turn[t].pc = "infer" /\ provider = "direct"
  /\ \E out \in DirectOutputs, late \in BOOLEAN :
       ApplyOutput(t, turn[t], out, turn[t].batch, late)
  /\ UNCHANGED <<proxy, worker, provider, begun, stale, used>>

\* The submission to the worker: acknowledged, or failed whether it arrived or not.
SubmitReturns(t) ==
  /\ turn[t].pc = "infer" /\ provider = "proxy"
  /\ \/ /\ t \in worker
        /\ proxy' = UpsertPendingJob(proxy, t)
        /\ \/ EndRounds(t, turn[t])
           \/ \E aged \in BOOLEAN : EndDeferred(t, turn[t], t, aged)
        /\ UNCHANGED rejections
     \/ /\ \E out \in {"error", "rejected", "skipped"}, late \in BOOLEAN :
             ApplyOutput(t, turn[t], out, {}, late)
        /\ UNCHANGED proxy
     \/ /\ t \notin worker   \* insufficient cycles: deferred without a job
        /\ \E aged \in BOOLEAN : EndDeferred(t, turn[t], 0, aged)
        /\ UNCHANGED <<proxy, rejections>>
  /\ UNCHANGED <<worker, provider, begun, stale, used>>

\* Records of all planned calls, executed or suppressed, unless the deadline has passed.
ToolsReturn(t) ==
  LET now  == turn[t]
      done == [now EXCEPT !.calls = @ + now.plan]
  IN  /\ now.pc = "tools"
      /\ \/ EndRounds(t, now) /\ UNCHANGED <<proxy, used, rejections>>
         \/ EndFailed(t, [done EXCEPT !.ran = TRUE]) /\ UNCHANGED <<proxy, used, rejections>>
         \/ /\ now.batch = {}   \* the degrade cap suppressed every call
            /\ EndRounds(t, done) /\ UNCHANGED <<proxy, used, rejections>>
         \/ /\ now.round = MaxRounds
            /\ EndRounds(t, done) /\ UNCHANGED <<proxy, used, rejections>>
         \/ /\ now.round < MaxRounds
            /\ \E ran \in {now.ran, TRUE} :
                 Infer(t, [done EXCEPT !.ran = ran, !.round = @ + 1])
      /\ UNCHANGED <<worker, provider, begun, stale>>

\* The decision is recorded whatever the second answer is, unless it is an error.
RetryReturns(t) ==
  /\ turn[t].pc = "retry"
  /\ EndAnswering(t, turn[t]) \/ EndFailed(t, turn[t])
  /\ rejections' \in {rejections, 0}
  /\ UNCHANGED <<proxy, worker, provider, begun, stale, used>>

(***************************************************************************)
(* The surroundings: the worker, the scheduler's recovery, traps.          *)
(***************************************************************************)
WorkerReceives(t) ==
  /\ turn[t].pc = "infer" /\ provider = "proxy" /\ t \notin worker
  /\ worker' = worker \cup {t}
  /\ UNCHANGED <<inbox, outbox, waits, proxy, provider, turn, begun, lock, stale, rejections,
                 decision, used>>

\* submit_inference_result, once or several times for a job, before or after its acknowledgement.
Callback(t) ==
  /\ t \in worker
  /\ \E out \in WorkerOutputs : proxy' = ApplyCallback(proxy, t, out)
  /\ proxy' # proxy
  /\ UNCHANGED <<inbox, outbox, waits, worker, provider, turn, begun, lock, stale, rejections,
                 decision, used>>

ExpireJob(t) ==
  /\ t \in proxy.pending
  /\ proxy' = ExpirePending(proxy, t)
  /\ UNCHANGED <<inbox, outbox, waits, worker, provider, turn, begun, lock, stale, rejections,
                 decision, used>>

\* recover_orphaned_turn_lock, once the lease of the turn has expired.
RecoverLock ==
  /\ lock /\ lock' = FALSE
  /\ stale' = stale \cup {begun} /\ Cardinality(stale') <= MaxLapses
  /\ UNCHANGED <<inbox, outbox, waits, proxy, worker, provider, turn, begun, rejections,
                 decision, used>>

TurnTraps(t) ==
  /\ turn[t].pc \in {"infer", "tools", "retry"}
  /\ Turn(t, TurnAt("trapped", turn[t].batch, NoWait, FALSE))
  /\ stale' = stale \cup {t} /\ Cardinality(stale') <= MaxLapses
  /\ UNCHANGED <<inbox, outbox, waits, proxy, worker, provider, begun, lock, rejections, decision,
                 used>>

AgentNext ==
  \/ PostInboxMessage \/ StagePending \/ TurnBegins \/ TurnWithoutInference \/ SuppressionExpires
  \/ RecoverLock
  \/ \E t \in TurnIds : \/ InferenceReturns(t) \/ SubmitReturns(t) \/ ToolsReturn(t)
                        \/ RetryReturns(t) \/ WorkerReceives(t) \/ Callback(t) \/ ExpireJob(t)
                        \/ TurnTraps(t)

AgentSpec == AgentInit /\ [][AgentNext]_agentVars

(***************************************************************************)
(* Properties.                                                             *)
(***************************************************************************)
\* A message is consumed only together with a reply that names it: whatever interleaving of
\* turns, deadlines, errors and lost callbacks, no paid message disappears unanswered.  Among
\* the turns that kept their lock at most one answers a message, and the result of a proxy job
\* is used by one turn only, however often the worker calls back.
AnsweredOnce ==
  /\ \A m \in 1..Len(inbox) : inbox[m] = "Consumed" => \E r \in outbox : m \in r.batch
  /\ \A m \in Messages : Cardinality({r \in outbox : m \in r.batch /\ r.turn \notin stale}) <= 1
  /\ \A t \in TurnIds :
       used[t] + Cardinality({i \in 1..Len(proxy.results) : proxy.results[i].job = t}) <= 1

\* An answer the model wrote is based on the oldest message of the batch it answers: a
\* callback is never taken for the answer to messages that all came after its submission.
\* Only with batches of several messages may a turn that had lost its lock answer the message
\* the callback was for, and leave the wait to the others of the batch.
AnswerSawTheOldest ==
  \A r \in outbox : r.reply = "text" =>
    \/ Min(r.batch) \in r.seen
    \/ BatchSize > 1 /\ \E q \in outbox : q.turn \in stale /\ q.batch \cap r.seen # {}

=============================================================================
