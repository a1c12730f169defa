--------------------------- MODULE SpawnExecution ---------------------------
(***************************************************************************)
(* The spawn-execution job of the factory (execute_spawn, its resumption   *)
(* and its failure handling in spawn.rs, the release broadcast of evm.rs,  *)
(* the job's bookkeeping in scheduler.rs): create a canister, install the  *)
(* automaton, verify it, install its strategies, take control, release the *)
(* escrow to it and register it.                                           *)
(*                                                                         *)
(* An execution is a message that is suspended at every call to another    *)
(* canister or to an RPC node; each action is the code between two awaits. *)
(* It works on a SNAPSHOT of the session.  The job's lease does not fence: *)
(* an execution whose lease ran out goes on when its answer arrives, and   *)
(* only the release record's identity (the draft guard) stops it.          *)
(***************************************************************************)
EXTENDS SpawnSession, SchedulerJobs, PayoutChain

CONSTANTS Sessions,   \* sessions that were paid for
          Execs,      \* bound: executions that can be under way at once
          Canisters,  \* bound: canisters that can be created
          MaxNonce,   \* bound: nonces the factory can reserve
          NoCanister  \* model value

ASSUME SpawnAssumption ==
    /\ IsFiniteSet(Sessions)
    /\ MaxNonce \in Nat
    /\ NoCanister \notin Canisters

VARIABLES now,          \* the clock, in ticks
          sess,         \* sess[s]: session and escrow claim s
          job,          \* job[s]: the spawn-execution job of s
          exec,         \* exec[e]: a suspended execution
          nonceCursor,  \* next_release_nonce, 0 for None
          runtimes,     \* runtimes[c]: what the factory recorded of canister c
          live,         \* canisters that exist
          registry,     \* [session, can] of the registered automata
          secrets       \* sessions whose provider secrets are stored

factoryVars == <<sess, job, exec, nonceCursor, runtimes, registry, secrets>>
spawnVars == <<now, factoryVars, live, payoutVars>>

Nonces == 0 .. MaxNonce
NoNonce == -1

\* ReleaseBroadcastRecord: the nonce, the signed transaction if there is one
\* (raw_transaction_hash), and whether a node acknowledged it (rpc_tx_hash).
\* The nonce stands for release_broadcast_draft_identity.
NoRecord == [nonce |-> NoNonce, tx |-> NoTx, acked |-> FALSE]

Record(nonce, tx, acked) == [nonce |-> nonce, tx |-> tx, acked |-> acked]

\* An execution: its program counter, the session, the snapshot of the release
\* record and of the deadline, the canister it works on, the record it is
\* broadcasting, a captured time, and for a cleanup the runtime status to
\* persist and the scheduler's reaction.
Idle == [pc |-> "idle"]

ExecPcs == {"create", "install", "verify", "strategies", "handoff", "confirmOld",
            "nonce", "sign", "send", "sent", "confirm", "resume", "rehandoff", "cleanup"}

SnapshotOf(s, pc) ==
    [pc |-> pc, session |-> s, rel |-> sess[s].rel, expires |-> sess[s].expires,
     can |-> sess[s].can, draft |-> NoRecord, at |-> now,
     keep |-> "none", action |-> "none"]

SpawnTypeOK ==
    /\ now \in Times
    /\ \A s \in Sessions :
          /\ sess[s].state \in States
          /\ sess[s].pay \in PaymentStatuses
          /\ sess[s].can \in Canisters \cup {NoCanister}
          /\ sess[s].rel.nonce \in Nonces \cup {NoNonce}
    /\ job \in [Sessions -> Jobs]
    /\ \A e \in Execs : exec[e] = Idle \/ exec[e].pc \in ExecPcs
    /\ nonceCursor \in 0 .. MaxNonce + 1
    /\ runtimes \in [Canisters -> {"none", "created", "installed"}]
    /\ live \in SUBSET Canisters
    /\ registry \in SUBSET [session : Sessions, can : Canisters]
    /\ secrets \in SUBSET Sessions

\* The payment of every session was just detected.
SpawnInit ==
    /\ now = 0
    /\ sess = [s \in Sessions |->
                 [state |-> "PaymentDetected", pay |-> "Paid", expires |-> SessionTtl,
                  retryable |-> FALSE, refundable |-> FALSE, can |-> NoCanister,
                  rel |-> NoRecord, refund |-> NoRecord]]
    /\ job = [s \in Sessions |-> Enqueue(UnscheduledJob, 0)]
    /\ exec = [e \in Execs |-> Idle]
    /\ nonceCursor = 0
    /\ runtimes = [c \in Canisters |-> "none"]
    /\ live = {}
    /\ registry = {}
    /\ secrets = Sessions
    /\ ChainInit

-----------------------------------------------------------------------------
\* Helpers.

\* The execution e goes on waiting, with some fields changed.
Waits(e, x) == exec' = [exec EXCEPT ![e] = x]

\* The execution ends: finalize_job_success, finalize_job_failure.
Ends(e, s, j) ==
    /\ job' = [job EXCEPT ![s] = j]
    /\ exec' = [exec EXCEPT ![e] = Idle]

EndsWith(e, s, action) == Ends(e, s, FinishFailed(job[s], action, NoTime, now))

\* A mutant of SpawnFails: the state machine is not asked.
SpawnFailsAnyway(e, s, r, at, action) ==
    /\ sess' = [sess EXCEPT ![s] = Apply(r, "SpawnFailed", at)]
    /\ Ends(e, s, FinishFailed(job[s], action, NoTime, now))

\* mark_session_failed_in_state on the session record r, at the time "at" that
\* the caller captured, and the end of the execution.  A session that can no
\* longer fail stays as it is.
SpawnFails(e, s, r, at, action) ==
    LET legal == Accepts(r, "SpawnFailed")
        failed == IF legal THEN Apply(r, "SpawnFailed", at) ELSE r
        j == IF legal /\ failed.retryable THEN Enqueue(job[s], at) ELSE job[s]
    IN /\ sess' = [sess EXCEPT ![s] = failed]
       /\ Ends(e, s, FinishFailed(j, action, NoTime, now))

\* fail_spawn_session with a canister to clean up: the deletion comes first.
CleansUp(e, can, keep, action) ==
    Waits(e, [exec[e] EXCEPT !.pc = "cleanup", !.can = can, !.at = now,
                             !.keep = keep, !.action = action])

\* persist_failed_spawn_runtime.
WithCanister(r, c) == [r EXCEPT !.can = c]

Installed(s) ==
    sess[s].can # NoCanister /\ runtimes[sess[s].can] = "installed"

\* ensure_spawn_release_draft_guard: the release record is still the one of
\* the snapshot.
GuardHolds(x) == sess[x.session].rel.nonce = x.rel.nonce

\* A mutant of ReservedNonce: the cursor is ignored.
NonceOfTheNode(pending) == pending

\* reserve_release_nonce_value.
ReservedNonce(pending) == Max({nonceCursor, pending})

-----------------------------------------------------------------------------
\* The environment.

Tick ==
    /\ now < Horizon
    /\ now' = now + 1
    /\ UNCHANGED <<factoryVars, live, payoutVars>>

ChainStep ==
    /\ \/ \E tx \in mempool : MineTx(tx)
       \/ Finalize
       \/ \E dropped \in BOOLEAN : ReorgTx(dropped)
    /\ UNCHANGED <<now, factoryVars, live>>

\* A trap or an upgrade drops a suspended execution; its job keeps the lease.
Lose(e) ==
    /\ exec[e] # Idle
    /\ exec' = [exec EXCEPT ![e] = Idle]
    /\ UNCHANGED <<now, sess, job, nonceCursor, runtimes, registry, secrets, live, payoutVars>>

\* RetrySpawnSession of a steward or an admin.
RetrySession(s) ==
    /\ Accepts(sess[s], "RetryRequested")
    /\ now + SessionTtl <= Horizon   \* bound
    /\ sess' = [sess EXCEPT ![s] = Apply(@, "RetryRequested", now)]
    /\ job' = [job EXCEPT ![s] = Enqueue(@, now)]
    /\ UNCHANGED <<now, exec, nonceCursor, runtimes, registry, secrets, live, payoutVars>>

-----------------------------------------------------------------------------
\* execute_spawn up to its first await, when schedule_due_jobs leased the job.

Starts(e, s) ==
    /\ exec[e] = Idle
    /\ IsDue(job[s], now)

\* Nothing to do: the session completed, or it is not ready for a spawn.
StartNothing(e, s) ==
    /\ Starts(e, s)
    /\ \/ sess[s].pay # "Paid"
       \/ sess[s].state \notin {"PaymentDetected", "BroadcastingRelease"}
    /\ Ends(e, s, IF sess[s].pay = "Paid" /\ sess[s].state = "Complete"
                  THEN FinishOk(job[s], NoTime)
                  ELSE FinishFailed(job[s], "Skip", NoTime, now))
    /\ UNCHANGED <<now, sess, nonceCursor, runtimes, registry, secrets, live, payoutVars>>

\* A release is being broadcast: resume_broadcasting_release looks for its
\* receipt, if a node has ever acknowledged a transaction.
StartResume(e, s) ==
    /\ Starts(e, s)
    /\ sess[s].pay = "Paid"
    /\ sess[s].state = "BroadcastingRelease"
    /\ IF sess[s].rel.acked
       THEN /\ Waits(e, SnapshotOf(s, "resume"))
            /\ job' = [job EXCEPT ![s] = Lease(@, now)]
       ELSE EndsWith(e, s, "Backoff")
    /\ UNCHANGED <<now, sess, nonceCursor, runtimes, registry, secrets, live, payoutVars>>

\* No artifact or too few cycles (Backoff), or no child configuration (Skip).
StartMisconfigured(e, s, action) ==
    /\ Starts(e, s)
    /\ sess[s].pay = "Paid"
    /\ sess[s].state = "PaymentDetected"
    /\ SpawnFails(e, s, sess[s], now, action)
    /\ UNCHANGED <<now, nonceCursor, runtimes, registry, secrets, live, payoutVars>>

\* The spawn starts: with a new canister, or with the one that is installed.
StartSpawn(e, s) ==
    /\ Starts(e, s)
    /\ sess[s].pay = "Paid"
    /\ sess[s].state = "PaymentDetected"
    /\ LET started == Apply(sess[s], "SpawnStarted", now)
       IN IF Installed(s)
          THEN /\ sess' = [sess EXCEPT ![s] = Apply(started, "InstallSucceeded", now)]
               /\ Waits(e, SnapshotOf(s, "verify"))
          ELSE /\ sess' = [sess EXCEPT ![s] = started]
               /\ Waits(e, SnapshotOf(s, "create"))
    /\ job' = [job EXCEPT ![s] = Lease(@, now)]
    /\ UNCHANGED <<now, nonceCursor, runtimes, registry, secrets, live, payoutVars>>

-----------------------------------------------------------------------------
\* Creating, installing and verifying the automaton.

CreateFails(e) ==
    /\ exec[e].pc = "create"
    /\ SpawnFails(e, exec[e].session, sess[exec[e].session], now, "Backoff")
    /\ UNCHANGED <<now, nonceCursor, runtimes, registry, secrets, live, payoutVars>>

\* The canister is created but its EVM address cannot be derived.
CreatedUnusable(e, c) ==
    /\ exec[e].pc = "create"
    /\ c \notin live /\ runtimes[c] = "none"
    /\ live' = live \cup {c}
    /\ CleansUp(e, c, "none", "Backoff")
    /\ UNCHANGED <<now, sess, job, nonceCursor, runtimes, registry, secrets, payoutVars>>

Created(e, c) ==
    /\ exec[e].pc = "create"
    /\ c \notin live /\ runtimes[c] = "none"
    /\ LET s == exec[e].session
       IN sess' = [sess EXCEPT ![s] = WithCanister(@, c)]
    /\ live' = live \cup {c}
    /\ runtimes' = [runtimes EXCEPT ![c] = "created"]
    /\ IF now > exec[e].expires
       THEN CleansUp(e, c, "none", "Terminal")
       ELSE Waits(e, [exec[e] EXCEPT !.pc = "install", !.can = c])
    /\ UNCHANGED <<now, job, nonceCursor, registry, secrets, payoutVars>>

InstallFails(e) ==
    /\ exec[e].pc = "install"
    /\ CleansUp(e, exec[e].can, "none", "Backoff")
    /\ UNCHANGED <<now, sess, job, nonceCursor, runtimes, registry, secrets, live, payoutVars>>

\* The code is installed; the provider secrets are deleted.
InstallDone(e) ==
    /\ exec[e].pc = "install"
    /\ exec[e].can \in live
    /\ LET x == exec[e]
           s == x.session
           r == WithCanister(sess[s], x.can)
       IN /\ secrets' = secrets \ {s}
          /\ IF now > x.expires
             THEN /\ CleansUp(e, x.can, "none", "Terminal")
                  /\ UNCHANGED <<sess, job, runtimes>>
             ELSE /\ runtimes' = [runtimes EXCEPT ![x.can] = "installed"]
                  /\ IF Accepts(r, "InstallSucceeded")
                     THEN /\ sess' = [sess EXCEPT ![s] = Apply(r, "InstallSucceeded", now)]
                          /\ Waits(e, [x EXCEPT !.pc = "verify"])
                          /\ UNCHANGED job
                     ELSE /\ sess' = [sess EXCEPT ![s] = r]
                          /\ EndsWith(e, s, "Skip")
    /\ UNCHANGED <<now, nonceCursor, registry, live, payoutVars>>

\* The child's EVM address cannot be derived again: the canister is deleted,
\* its runtime stays recorded as installed.
RederiveFails(e) ==
    /\ exec[e].pc = "verify"
    /\ CleansUp(e, exec[e].can, "installed", "Backoff")
    /\ UNCHANGED <<now, sess, job, nonceCursor, runtimes, registry, secrets, live, payoutVars>>

\* The bootstrap evidence cannot be had (Backoff) or does not verify (Skip).
VerifyFails(e, action) ==
    /\ exec[e].pc = "verify"
    /\ action = "Skip" => exec[e].can \in live
    /\ LET x == exec[e]
       IN /\ runtimes' = [runtimes EXCEPT ![x.can] = "installed"]
          /\ SpawnFails(e, x.session, WithCanister(sess[x.session], x.can), now, action)
    /\ UNCHANGED <<now, nonceCursor, registry, secrets, live, payoutVars>>

Verified(e) ==
    /\ exec[e].pc = "verify"
    /\ exec[e].can \in live
    /\ LET x == exec[e]
       IN /\ runtimes' = [runtimes EXCEPT ![x.can] = "installed"]
          /\ sess' = [sess EXCEPT ![x.session] = WithCanister(@, x.can)]
          /\ Waits(e, [x EXCEPT !.pc = "strategies"])
    /\ UNCHANGED <<now, job, nonceCursor, registry, secrets, live, payoutVars>>

\* prepare_retryable_runtime_after_strategy_failure: a retry installs anew.
StrategiesFail(e) ==
    /\ exec[e].pc = "strategies"
    /\ CleansUp(e, exec[e].can, "created", "Backoff")
    /\ UNCHANGED <<now, sess, job, nonceCursor, runtimes, registry, secrets, live, payoutVars>>

StrategiesInstalled(e) ==
    /\ exec[e].pc = "strategies"
    /\ exec[e].can \in live
    /\ Waits(e, [exec[e] EXCEPT !.pc = "handoff"])
    /\ UNCHANGED <<now, sess, job, nonceCursor, runtimes, registry, secrets, live, payoutVars>>

HandoffFails(e) ==
    /\ exec[e].pc = "handoff"
    /\ CleansUp(e, exec[e].can, "none", "Backoff")
    /\ UNCHANGED <<now, sess, job, nonceCursor, runtimes, registry, secrets, live, payoutVars>>

\* The factory controls the canister.  A transaction that the snapshot knows
\* to be on its way is looked up before a new one is made.
HandedOff(e) ==
    /\ exec[e].pc = "handoff"
    /\ exec[e].can \in live
    /\ LET x == exec[e]
           s == x.session
       IN /\ runtimes' = [runtimes EXCEPT ![x.can] = "installed"]
          /\ sess' = [sess EXCEPT ![s] = WithCanister(@, x.can)]
          /\ IF x.rel.acked
             THEN IF GuardHolds(x)
                  THEN /\ Waits(e, [x EXCEPT !.pc = "confirmOld", !.at = now])
                       /\ UNCHANGED job
                  ELSE EndsWith(e, s, "Skip")
             ELSE /\ Waits(e, [x EXCEPT !.pc = "nonce", !.at = now])
                  /\ UNCHANGED job
    /\ UNCHANGED <<now, nonceCursor, registry, secrets, live, payoutVars>>

\* The base RPC endpoint is not configured.
HandedOffWithoutRpc(e) ==
    /\ exec[e].pc = "handoff"
    /\ exec[e].can \in live
    /\ LET x == exec[e]
       IN /\ runtimes' = [runtimes EXCEPT ![x.can] = "installed"]
          /\ SpawnFails(e, x.session, WithCanister(sess[x.session], x.can), now, "Skip")
    /\ UNCHANGED <<now, nonceCursor, registry, secrets, live, payoutVars>>

\* The answer of delete_canister is ignored; the session fails at the time
\* captured before it.
CleanupReply(e, deleted) ==
    /\ exec[e].pc = "cleanup"
    /\ LET x == exec[e]
           r == IF x.keep = "none" THEN sess[x.session]
                ELSE WithCanister(sess[x.session], x.can)
       IN /\ live' = IF deleted THEN live \ {x.can} ELSE live
          /\ runtimes' = IF x.keep = "none" THEN runtimes
                         ELSE [runtimes EXCEPT ![x.can] = x.keep]
          /\ SpawnFails(e, x.session, r, x.at, x.action)
    /\ UNCHANGED <<now, nonceCursor, registry, secrets, payoutVars>>

-----------------------------------------------------------------------------
\* The release transaction.

\* finalize_confirmed_release.  Record, runtime and registry entry are written
\* before the session's event, and stay when the event is refused.  The guard
\* was just checked.
Completes(e, x, record) ==
    LET s == x.session
        r == [sess[s] EXCEPT !.rel = record]
        legal == Accepts(r, "ReleaseBroadcast")
    IN /\ sess' = [sess EXCEPT ![s] = IF legal THEN Apply(r, "ReleaseBroadcast", x.at) ELSE r]
       /\ runtimes' = [runtimes EXCEPT ![x.can] = "installed"]
       /\ registry' = registry \cup {[session |-> s, can |-> x.can]}
       /\ secrets' = IF legal THEN secrets \ {s} ELSE secrets
       /\ Ends(e, s, IF legal THEN FinishOk(job[s], NoTime)
                     ELSE FinishFailed(job[s], "Skip", NoTime, now))

\* The record is written and the execution ends with an error; the session
\* keeps its state, and a later execution resumes.
StaysBroadcasting(e, x, record) ==
    /\ sess' = [sess EXCEPT ![x.session].rel = record]
    /\ EndsWith(e, x.session, "Backoff")
    /\ UNCHANGED <<runtimes, registry, secrets>>

\* The record is written and the session fails; the canister is kept.
BroadcastFails(e, x, record) ==
    LET r == WithCanister([sess[x.session] EXCEPT !.rel = record], x.can)
    IN /\ SpawnFails(e, x.session, r, now, "Backoff")
       /\ runtimes' = [runtimes EXCEPT ![x.can] = "installed"]
       /\ UNCHANGED <<registry, secrets>>

\* "stale spawn continuation": nothing is written.
Stale(e, x) ==
    /\ ~ GuardHolds(x)
    /\ EndsWith(e, x.session, "Skip")
    /\ UNCHANGED <<sess, runtimes, registry, secrets>>

\* The receipt of the transaction that the snapshot knew.
ConfirmOldReply(e, receipt) ==
    /\ exec[e].pc = "confirmOld"
    /\ receipt \in Receipts(exec[e].rel.tx)
    /\ LET x == exec[e]
       IN \/ Stale(e, x)
          \/ /\ GuardHolds(x)
             /\ CASE receipt = "confirmed" -> Completes(e, x, x.rel)
                  [] receipt \in {"pending", "rpcError"} -> StaysBroadcasting(e, x, x.rel)
                  [] receipt \in {"reverted", "forked"} -> BroadcastFails(e, x, x.rel)
    /\ UNCHANGED <<now, nonceCursor, live, payoutVars>>

NonceFails(e) ==
    /\ exec[e].pc = "nonce"
    /\ LET x == exec[e]
       IN /\ SpawnFails(e, x.session, WithCanister(sess[x.session], x.can), now, "Backoff")
          /\ runtimes' = [runtimes EXCEPT ![x.can] = "installed"]
    /\ UNCHANGED <<now, nonceCursor, registry, secrets, live, payoutVars>>

\* The nonce is reserved even when the execution is stale.
NonceReply(e) ==
    /\ exec[e].pc = "nonce"
    /\ LET x == exec[e]
           nonce == ReservedNonce(PendingNonce)
       IN /\ nonce <= MaxNonce
          /\ nonceCursor' = nonce + 1
          /\ IF GuardHolds(x)
             THEN /\ Waits(e, [x EXCEPT !.pc = "sign", !.draft = Record(nonce, NoTx, FALSE)])
                  /\ UNCHANGED job
             ELSE EndsWith(e, x.session, "Skip")
    /\ UNCHANGED <<now, sess, runtimes, registry, secrets, live, payoutVars>>

\* ecdsa_public_key and sign_with_ecdsa.
SignFails(e) ==
    /\ exec[e].pc = "sign"
    /\ LET x == exec[e]
       IN Stale(e, x) \/ (GuardHolds(x) /\ BroadcastFails(e, x, x.draft))
    /\ UNCHANGED <<now, nonceCursor, live, payoutVars>>

Signed(e) ==
    /\ exec[e].pc = "sign"
    /\ LET x == exec[e]
           tx == Tx("release", x.session, x.draft.nonce, x.can)
       IN \/ Stale(e, x)
          \/ /\ GuardHolds(x)
             /\ Waits(e, [x EXCEPT !.pc = "send", !.draft.tx = tx])
             /\ UNCHANGED <<sess, job, runtimes, registry, secrets>>
    /\ UNCHANGED <<now, nonceCursor, live, payoutVars>>

\* A node accepts the transaction; the answer is still on its way.
SendArrives(e) ==
    /\ exec[e].pc = "send"
    /\ Accept(exec[e].draft.tx)
    /\ Waits(e, [exec[e] EXCEPT !.pc = "sent"])
    /\ UNCHANGED <<now, sess, job, nonceCursor, runtimes, registry, secrets, live>>

\* The transaction was refused, or the answer was lost.
SendFails(e) ==
    /\ exec[e].pc \in {"send", "sent"}
    /\ LET x == exec[e]
       IN Stale(e, x) \/ (GuardHolds(x) /\ BroadcastFails(e, x, x.draft))
    /\ UNCHANGED <<now, nonceCursor, live, payoutVars>>

\* The hash is known but not written before the receipt was asked for.
Sent(e) ==
    /\ exec[e].pc = "sent"
    /\ LET x == exec[e]
       IN \/ Stale(e, x)
          \/ /\ GuardHolds(x)
             /\ Waits(e, [x EXCEPT !.pc = "confirm", !.draft.acked = TRUE])
             /\ UNCHANGED <<sess, job, runtimes, registry, secrets>>
    /\ UNCHANGED <<now, nonceCursor, live, payoutVars>>

\* A mutant of ConfirmReply: a release without a confirmed receipt will do.
ConfirmReplyEarly(e, receipt) ==
    /\ exec[e].pc = "confirm"
    /\ receipt \in Receipts(exec[e].draft.tx)
    /\ LET x == exec[e]
       IN \/ Stale(e, x)
          \/ GuardHolds(x) /\ Completes(e, x, x.draft)
    /\ UNCHANGED <<now, nonceCursor, live, payoutVars>>

ConfirmReply(e, receipt) ==
    /\ exec[e].pc = "confirm"
    /\ receipt \in Receipts(exec[e].draft.tx)
    /\ LET x == exec[e]
       IN \/ Stale(e, x)
          \/ /\ GuardHolds(x)
             /\ CASE receipt = "confirmed" -> Completes(e, x, x.draft)
                  [] receipt \in {"pending", "rpcError", "forked"} ->
                        StaysBroadcasting(e, x, x.draft)
                  [] receipt = "reverted" -> BroadcastFails(e, x, x.draft)
    /\ UNCHANGED <<now, nonceCursor, live, payoutVars>>

\* resume_broadcasting_release.  A terminal receipt leaves the runtime alone.
ResumeReply(e, receipt) ==
    /\ exec[e].pc = "resume"
    /\ receipt \in Receipts(exec[e].rel.tx)
    /\ LET x == exec[e]
           s == x.session
       IN \/ Stale(e, x)
          \/ /\ GuardHolds(x)
             /\ CASE receipt = "confirmed" ->
                       /\ Waits(e, [x EXCEPT !.pc = "rehandoff"])
                       /\ UNCHANGED <<sess, job>>
                  [] receipt \in {"pending", "rpcError"} ->
                       /\ EndsWith(e, s, "Backoff")
                       /\ sess' = [sess EXCEPT ![s].rel = x.rel]
                  [] receipt \in {"reverted", "forked"} ->
                       SpawnFails(e, s, WithCanister([sess[s] EXCEPT !.rel = x.rel], x.can),
                                  x.at, "Backoff")
             /\ UNCHANGED <<runtimes, registry, secrets>>
    /\ UNCHANGED <<now, nonceCursor, live, payoutVars>>

RehandoffFails(e) ==
    /\ exec[e].pc = "rehandoff"
    /\ EndsWith(e, exec[e].session, "Backoff")
    /\ UNCHANGED <<now, sess, nonceCursor, runtimes, registry, secrets, live, payoutVars>>

Rehandoff(e) ==
    /\ exec[e].pc = "rehandoff"
    /\ exec[e].can \in live
    /\ LET x == exec[e]
       IN Stale(e, x) \/ (GuardHolds(x) /\ Completes(e, x, x.rel))
    /\ UNCHANGED <<now, nonceCursor, live, payoutVars>>

-----------------------------------------------------------------------------
StartStep(e, s) ==
    \/ StartNothing(e, s)
    \/ StartResume(e, s)
    \/ \E action \in {"Backoff", "Skip"} : StartMisconfigured(e, s, action)
    \/ StartSpawn(e, s)

BuildStep(e) ==
    \/ CreateFails(e)
    \/ \E c \in Canisters : CreatedUnusable(e, c) \/ Created(e, c)
    \/ InstallFails(e) \/ InstallDone(e)
    \/ RederiveFails(e)
    \/ \E action \in {"Backoff", "Skip"} : VerifyFails(e, action)
    \/ Verified(e)
    \/ StrategiesFail(e) \/ StrategiesInstalled(e)
    \/ HandoffFails(e) \/ HandedOff(e) \/ HandedOffWithoutRpc(e)
    \/ \E deleted \in BOOLEAN : CleanupReply(e, deleted)

ReleaseStep(e) ==
    \/ NonceFails(e) \/ NonceReply(e)
    \/ SignFails(e) \/ Signed(e)
    \/ SendArrives(e) \/ SendFails(e) \/ Sent(e)
    \/ \E receipt \in {"confirmed", "pending", "rpcError", "reverted", "forked"} :
          ConfirmOldReply(e, receipt) \/ ConfirmReply(e, receipt) \/ ResumeReply(e, receipt)
    \/ RehandoffFails(e) \/ Rehandoff(e)

SpawnStep ==
    \/ \E s \in Sessions : RetrySession(s)
    \/ \E e \in Execs :
          \/ Lose(e)
          \/ \E s \in Sessions : StartStep(e, s)
          \/ BuildStep(e)
          \/ ReleaseStep(e)

=============================================================================
