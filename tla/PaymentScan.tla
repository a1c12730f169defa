----------------------------- MODULE PaymentScan -----------------------------
(***************************************************************************)
(* How the factory finds out that a spawn session was paid for: the        *)
(* payment-poll job, the scan of the escrow's Deposited logs, and the      *)
(* reconciliation of what it found (escrow.rs, scheduler.rs, and session   *)
(* creation and refund claims of api/public.rs).                           *)
(*                                                                         *)
(* A poll is a canister message that is suspended at every RPC call; each  *)
(* action below is the code between two such awaits.  Leases do not fence: *)
(* a poll whose lease ran out goes on when its answer arrives, so several  *)
(* polls can be under way.                                                 *)
(*                                                                         *)
(* Every deposit is worth one unit and a claim gets at most one per block, *)
(* so a claim's evidence is the set of the blocks it was paid in.          *)
(***************************************************************************)
EXTENDS SpawnSession, SchedulerJobs, FiniteSetsExt

CONSTANTS Sessions,       \* session ids; numbers, for the BTreeMap's order
          Polls,          \* bound: polls that can be under way at once
          Required,       \* the gross amount of a session, in deposits
          Depth,          \* evm_confirmation_depth
          LogWindow,      \* BASE_LOG_WINDOW_LIMIT, in blocks
          InitialCursor,  \* payment_last_scanned_block at the start
          MaxHead,        \* bound: the blocks of the chain
          MaxDeposits     \* bound: deposits made, over all claims

NoBlock == -1

ASSUME ScanAssumption ==
    /\ Sessions \subseteq Nat
    /\ IsFiniteSet(Sessions)
    /\ Required \in Nat \ {0}
    /\ Depth \in Nat \ {0}
    /\ LogWindow \in Nat \ {0}
    /\ {MaxHead, MaxDeposits} \subseteq Nat
    /\ InitialCursor \in {NoBlock, 0}
    /\ InitialCursor # NoBlock => Depth - 1 <= MaxHead   \* the chain has been scanned to there

VARIABLES now,       \* the clock, in ticks
          head,      \* the latest Base block
          deposits,  \* deposits[s]: the blocks in which claim s was paid
          sess,      \* sess[s]: session and escrow claim s
          cursor,    \* payment_last_scanned_block
          pollJob,   \* the payment-poll job
          poll,      \* poll[p]: a suspended poll
          queued,    \* sessions whose spawn-execution job was enqueued
          secrets    \* sessions whose provider secrets are stored

chainVars == <<head, deposits>>
factoryVars == <<sess, cursor, pollJob, poll, queued, secrets>>
vars == <<now, chainVars, factoryVars>>

Blocks == 0 .. MaxHead

Absent == [state |-> "Absent"]

SessionRecords ==
    [state : States, pay : PaymentStatuses, expires : Nat, retryable : BOOLEAN,
     refundable : BOOLEAN, upd : Times, last : Blocks \cup {NoBlock},
     evidence : SUBSET Blocks, paid : Nat]

Idle == [pc |-> "idle"]

\* A poll waits for the head's number, for the logs of its plan, or for the
\* canonical hashes of the evidence of the first session of todo.
PollRecords ==
    {Idle}
    \cup [pc : {"head"}, started : Times]
    \cup [pc : {"logs"}, started : Times, claims : SUBSET Sessions,
          from : Blocks, to : Blocks]
    \cup [pc : {"hash"}, started : Times, to : Blocks,
          snapshot : [Sessions -> SessionRecords \cup {Absent}],
          logs : [Sessions -> SUBSET Blocks],
          todo : SUBSET Sessions, forked : SUBSET Sessions]

TypeOK ==
    /\ now \in Times
    /\ head \in Blocks
    /\ deposits \in [Sessions -> SUBSET Blocks]
    /\ DOMAIN sess = Sessions
    /\ \A s \in Sessions : sess[s] = Absent \/ sess[s] \in SessionRecords
    /\ cursor \in Blocks \cup {NoBlock}
    /\ pollJob \in Jobs
    /\ DOMAIN poll = Polls
    /\ \A p \in Polls : poll[p].pc \in {"idle", "head", "logs", "hash"}
    /\ queued \in SUBSET Sessions
    /\ secrets \in SUBSET Sessions

Exists(s) == sess[s] # Absent

\* Sessions that the payment poll looks for, in a state f of the sessions.
ActiveIn(f) == {s \in Sessions : f[s] # Absent /\ NeedsPaymentPoll(f[s])}

Active == ActiveIn(sess)

\* A mutant of SafeHead: one confirmation is enough.
SafeHeadUnconfirmed(latest) == latest

SafeHead(latest) == latest - (Depth - 1)

Init ==
    /\ now = 0
    /\ head = IF InitialCursor = NoBlock THEN 0 ELSE InitialCursor + (Depth - 1)
    /\ deposits = [s \in Sessions |-> {}]
    /\ sess = [s \in Sessions |-> Absent]
    /\ cursor = InitialCursor
    /\ pollJob = UnscheduledJob
    /\ poll = [p \in Polls |-> Idle]
    /\ queued = {}
    /\ secrets = {}

-----------------------------------------------------------------------------
\* The environment.

Tick ==
    /\ now < Horizon
    /\ now' = now + 1
    /\ UNCHANGED <<chainVars, factoryVars>>

\* As long as nothing was ever scanned the first scan reaches back LogWindow
\* blocks only.  The chain is assumed not to outrun it (10 000 blocks).
WithinFirstWindow ==
    cursor = NoBlock => SafeHead(head + 1) - (LogWindow - 1) <= 1

DepositsIn(f) == MapThenSumSet(LAMBDA s : Cardinality(f[s]), Sessions)

\* A block is mined, with deposits for some of the sessions.
Mine(paying) ==
    /\ head < MaxHead
    /\ WithinFirstWindow
    /\ \A s \in paying : Exists(s)
    /\ head' = head + 1
    /\ deposits' = [s \in Sessions |->
                       IF s \in paying THEN deposits[s] \cup {head + 1} ELSE deposits[s]]
    /\ DepositsIn(deposits') <= MaxDeposits
    /\ UNCHANGED <<now, factoryVars>>

\* A reorganisation drops a deposit from a block that has fewer than Depth
\* confirmations; deeper blocks are final.
Reorg(s, b) ==
    /\ b \in deposits[s]
    /\ b + (Depth - 1) > head
    /\ deposits' = [deposits EXCEPT ![s] = @ \ {b}]
    /\ UNCHANGED <<now, head, factoryVars>>

-----------------------------------------------------------------------------
\* Messages of users.

\* A mutant of CreateSession: the poll job is not woken.
CreateSessionQuietly(s) ==
    /\ ~ Exists(s)
    /\ now + SessionTtl < Horizon
    /\ sess' = [sess EXCEPT ![s] =
                  [state |-> "AwaitingPayment", pay |-> "Unpaid",
                   expires |-> now + SessionTtl, retryable |-> FALSE,
                   refundable |-> FALSE, upd |-> now, last |-> cursor,
                   evidence |-> {}, paid |-> 0]]
    /\ secrets' = secrets \cup {s}
    /\ UNCHANGED <<now, chainVars, cursor, pollJob, poll, queued>>

\* create_spawn_session: the session, its claim and its provider secrets are
\* stored, and the poll job is woken.
CreateSession(s) ==
    /\ ~ Exists(s)
    /\ now + SessionTtl < Horizon   \* bound: the horizon lies past every deadline
    /\ sess' = [sess EXCEPT ![s] =
                  [state |-> "AwaitingPayment", pay |-> "Unpaid",
                   expires |-> now + SessionTtl, retryable |-> FALSE,
                   refundable |-> FALSE, upd |-> now, last |-> cursor,
                   evidence |-> {}, paid |-> 0]]
    /\ secrets' = secrets \cup {s}
    /\ pollJob' = SyncPollJob(pollJob, TRUE, now)
    /\ UNCHANGED <<now, chainVars, cursor, poll, queued>>

\* A steward claims a refund: authorize_and_consume expires the session first
\* and keeps that even when it then refuses the refund.
ExpireOnClaim(s) ==
    /\ Exists(s)
    /\ ~ IgnoresExpiry(sess[s], now)
    /\ sess' = [sess EXCEPT ![s] = [Apply(@, "SessionExpired", now) EXCEPT !.upd = now]]
    /\ UNCHANGED <<now, chainVars, cursor, pollJob, poll, queued, secrets>>

\* An upgrade drops the suspended polls.  The state is kept, post_upgrade
\* starts the timer again, and the job keeps its lease until it runs out.
Upgrade ==
    /\ \E p \in Polls : poll[p] # Idle
    /\ poll' = [p \in Polls |-> Idle]
    /\ UNCHANGED <<now, chainVars, sess, cursor, pollJob, queued, secrets>>

-----------------------------------------------------------------------------
\* The poll.

\* schedule_due_jobs: the timer, or the end of another job, leases the job.
\* The poll keeps the time of the lease as its now_ms.
StartPoll(p) ==
    /\ poll[p] = Idle
    /\ IsDue(pollJob, now)
    /\ pollJob' = Lease(pollJob, now)
    /\ poll' = [poll EXCEPT ![p] = [pc |-> "head", started |-> now]]
    /\ UNCHANGED <<now, chainVars, sess, cursor, queued, secrets>>

\* The poll p ends; the job's next run depends on the sessions f it leaves.
PollSucceeds(p, job, f) ==
    /\ pollJob' = FinishOk(job, PollAgain(ActiveIn(f) # {}, now))
    /\ poll' = [poll EXCEPT ![p] = Idle]

PollFails(p, action, f) ==
    /\ pollJob' = FinishFailed(pollJob, action, PollAgain(ActiveIn(f) # {}, now), now)
    /\ poll' = [poll EXCEPT ![p] = Idle]

\* payment_poll_prerequisite_failure: no RPC endpoint or no escrow address is
\* configured, and the job is skipped before its first call.
PollMisconfigured ==
    /\ IsDue(pollJob, now)
    /\ pollJob' = FinishFailed(pollJob, "Skip", PollAgain(Active # {}, now), now)
    /\ UNCHANGED <<now, chainVars, sess, cursor, poll, queued, secrets>>

\* Any of the poll's RPC calls fails: classify_payment_poll_error backs off.
RpcFails(p) ==
    /\ poll[p] # Idle
    /\ PollFails(p, "Backoff", sess)
    /\ UNCHANGED <<now, chainVars, sess, cursor, queued, secrets>>

\* A mutant of FirstBlock: the scan starts from the most advanced session.
FirstBlockOfTheLast(safe) ==
    LET cursors == {sess[s].last : s \in Active} \ {NoBlock}
        from == CASE cursors # {} -> Max(cursors) + 2
                  [] cursors = {} /\ cursor # NoBlock -> cursor + 1
                  [] OTHER -> Max({0, safe - (LogWindow - 1)})
    IN Min({from, safe})

\* next_payment_scan_plan: the first block to scan.
FirstBlock(safe) ==
    LET cursors == {sess[s].last : s \in Active} \ {NoBlock}
        from == CASE cursors # {} -> Min(cursors) + 1
                  [] cursors = {} /\ cursor # NoBlock -> cursor + 1
                  [] OTHER -> Max({0, safe - (LogWindow - 1)})
    IN Min({from, safe})

\* The latest block number arrives and the scan is planned.
HeadReply(p) ==
    /\ poll[p].pc = "head"
    /\ IF Active = {} \/ head < Depth - 1
       THEN PollSucceeds(p, pollJob, sess)
       ELSE LET from == FirstBlock(SafeHead(head))
            IN /\ poll' = [poll EXCEPT ![p] =
                             [pc |-> "logs", started |-> poll[p].started,
                              claims |-> Active, from |-> from,
                              to |-> Min({from + LogWindow - 1, SafeHead(head)})]]
               /\ UNCHANGED pollJob
    /\ UNCHANGED <<now, chainVars, sess, cursor, queued, secrets>>

-----------------------------------------------------------------------------
\* reconcile_escrow_payments.

\* A mutant of Merge: a block that is scanned again is counted again.
MergeTwice(r, found) ==
    [r EXCEPT !.evidence = @ \cup found,
              !.paid = @ + Cardinality(found),
              !.last = Max({@} \cup found)]

\* merged_claim_evidence_for_session: blocks that are evidence already are
\* skipped, the others are added to the evidence and to the total.
Merge(r, found) ==
    LET new == found \ r.evidence
    IN [r EXCEPT !.evidence = @ \cup new,
                 !.paid = @ + Cardinality(new),
                 !.last = Max({@} \cup new)]

\* payment_status_for_amount, finalize_payment_status_for_escrow.
StatusFor(paid, forked) ==
    IF paid >= Required THEN (IF forked THEN "Partial" ELSE "Paid")
    ELSE IF paid > 0 THEN "Partial" ELSE "Unpaid"

\* The snapshot's sessions whose evidence has to be proved canonical.
ToProve(snapshot, logs) ==
    {s \in ActiveIn(snapshot) : Merge(snapshot[s], logs[s]).paid >= Required}

\* A mutant of Fresh: the scan guard is missing.
AlwaysFresh(snapshot, s) == TRUE

\* ensure_payment_scan_guard: the session is what it was in the snapshot.
Fresh(snapshot, s) == sess[s] = snapshot[s]

\* A mutant of Reconciled: a session that was not paid does not expire.
ReconciledForever(r, found, forked, to, started) ==
    LET merged == Merge(r, found)
        status == StatusFor(merged.paid, forked)
        synced == SyncFlags([merged EXCEPT !.pay = status,
                                           !.last = Max({to, @}),
                                           !.upd = started], started)
        detected == r.state = "AwaitingPayment" /\ status = "Paid"
                    /\ started <= r.expires
    IN IF detected THEN Apply(synced, "PaymentObserved", started) ELSE synced

\* What an update makes of one session.
Reconciled(r, found, forked, to, started) ==
    LET merged == Merge(r, found)
        status == StatusFor(merged.paid, forked)
        synced == SyncFlags([merged EXCEPT !.pay = status,
                                           !.last = Max({to, @}),
                                           !.upd = started], started)
        detected == r.state = "AwaitingPayment" /\ status = "Paid"
                    /\ started <= r.expires
    IN IF detected THEN Apply(synced, "PaymentObserved", started)
       ELSE Apply(synced, "SessionExpired", started)

\* The final write.  The cursor moves first; the sessions are then updated in
\* order up to the first one that changed since the snapshot, and what was
\* written stays written when that one makes the call fail.
WriteBack(p, snapshot, logs, to, forked) ==
    LET started == poll[p].started
        planned == ActiveIn(snapshot)
        written == {s \in planned : \A t \in planned : t <= s => Fresh(snapshot, t)}
        result == [s \in Sessions |->
                     IF s \in written
                     THEN Reconciled(snapshot[s], logs[s], s \in forked, to, started)
                     ELSE sess[s]]
        detected == {s \in written : result[s].state = "PaymentDetected"}
    IN /\ cursor' = to
       /\ sess' = result
       /\ queued' = queued \cup detected
       /\ IF written = planned
          THEN /\ PollSucceeds(p, SyncPollJob(pollJob, ActiveIn(result) # {}, started), result)
               /\ secrets' = {s \in secrets : result[s].state # "Expired"}
          ELSE /\ PollFails(p, "Skip", result)
               /\ UNCHANGED secrets

\* The poll gives up because a session changed under it: nothing is written.
GiveUp(p) ==
    /\ PollFails(p, "Skip", sess)
    /\ UNCHANGED <<sess, cursor, queued, secrets>>

\* The logs arrive.  The sessions are read now, not when the plan was made.
LogsReply(p) ==
    /\ poll[p].pc = "logs"
    /\ LET plan == poll[p]
           logs == [s \in Sessions |->
                      IF s \in plan.claims \cap Active
                      THEN deposits[s] \cap (plan.from .. plan.to) ELSE {}]
           snapshot == [s \in Sessions |-> IF s \in Active THEN sess[s] ELSE Absent]
           todo == ToProve(snapshot, logs)
       IN IF todo = {}
          THEN WriteBack(p, snapshot, logs, plan.to, {})
          ELSE /\ poll' = [poll EXCEPT ![p] =
                             [pc |-> "hash", started |-> plan.started, to |-> plan.to,
                              snapshot |-> snapshot, logs |-> logs,
                              todo |-> todo, forked |-> {}]]
               /\ UNCHANGED <<sess, cursor, pollJob, queued, secrets>>
    /\ UNCHANGED <<now, chainVars>>

\* The canonical hashes for the first session of todo arrive.  Before the
\* next session is proved every planned session up to it must be unchanged.
HashReply(p, canonical) ==
    /\ poll[p].pc = "hash"
    /\ LET call == poll[p]
           s == Min(call.todo)
           rest == call.todo \ {s}
           forked == IF canonical THEN call.forked ELSE call.forked \cup {s}
           passed == {t \in ActiveIn(call.snapshot) :
                        t >= s /\ (rest # {} => t <= Min(rest))}
       IN IF \E t \in passed : ~ Fresh(call.snapshot, t)
          THEN GiveUp(p)
          ELSE IF rest = {}
          THEN WriteBack(p, call.snapshot, call.logs, call.to, forked)
          ELSE /\ poll' = [poll EXCEPT ![p].todo = rest, ![p].forked = forked]
               /\ UNCHANGED <<sess, cursor, pollJob, queued, secrets>>
    /\ UNCHANGED <<now, chainVars>>

-----------------------------------------------------------------------------
Environment ==
    \/ Tick
    \/ \E paying \in SUBSET Sessions : Mine(paying)
    \/ \E s \in Sessions : \E b \in deposits[s] : Reorg(s, b)

User ==
    \E s \in Sessions : CreateSession(s) \/ ExpireOnClaim(s)

PollStep(p) ==
    \/ StartPoll(p)
    \/ HeadReply(p)
    \/ LogsReply(p)
    \/ HashReply(p, TRUE)
    \/ HashReply(p, FALSE)
    \/ RpcFails(p)

Next ==
    \/ Environment
    \/ User
    \/ Upgrade
    \/ PollMisconfigured
    \/ \E p \in Polls : PollStep(p)

Spec == Init /\ [][Next]_vars

\* Time passes, the chain grows, the timer fires and finds the factory
\* configured; an RPC call made again and again is eventually answered.
Fairness ==
    /\ WF_vars(Tick)
    /\ WF_vars(\E paying \in SUBSET Sessions : Mine(paying))
    /\ \A p \in Polls :
          /\ WF_vars(StartPoll(p))
          /\ SF_vars(HeadReply(p))
          /\ SF_vars(LogsReply(p))
          /\ SF_vars(HashReply(p, TRUE))

FairSpec == Spec /\ Fairness

-----------------------------------------------------------------------------
\* Properties.

\* The scan never runs past a deposit: whatever was paid into the claim of a
\* session in a block that the session's cursor has passed is evidence.
\* Overlapping polls, a lost poll, a session created while the logs are being
\* fetched and a half-written reconciliation could each break this.
NoDepositSkipped ==
    \A s \in Sessions : Exists(s) =>
        deposits[s] \cap (0 .. sess[s].last) \subseteq sess[s].evidence

\* Evidence is on the chain and counted once, whatever was reorganised and
\* however often a block was scanned: confirmation depth and deduplication.
EvidenceSound ==
    \A s \in Sessions : Exists(s) =>
        /\ sess[s].evidence \subseteq deposits[s]
        /\ sess[s].paid = Cardinality(sess[s].evidence)

\* A spawn is started for sessions only that were paid in full in time, and
\* a session for which payment was detected does not miss its spawn job.
SpawnIffPaid ==
    \A s \in Sessions : Exists(s) =>
        /\ s \in queued => Cardinality(deposits[s]) >= Required
        /\ sess[s].state = "PaymentDetected" => s \in queued

\* While a session waits for payment the poll job is scheduled: no order of
\* creations, polls that finish late and claims loses the wake-up.
PollNeverForgotten ==
    Active # {} => pollJob.next # NoTime

\* What a session learned it keeps: cursors and evidence never move back, and
\* an expired session is never written again by a late poll.
Progressing ==
    \A s \in Sessions : Exists(s) =>
        /\ sess'[s].last >= sess[s].last
        /\ sess[s].evidence \subseteq sess'[s].evidence
        /\ sess[s].state = "Expired" => sess'[s] = sess[s]

LateScansHarmless == [][Progressing]_vars

\* Every session leaves AwaitingPayment: it is either paid or expires.
SessionSettles ==
    \A s \in Sessions :
        (Exists(s) /\ sess[s].state = "AwaitingPayment")
            ~> (sess[s].state # "AwaitingPayment")

\* "Expired ... (refund available)": a session whose deposit was confirmed
\* before the deadline ends up with its spawn queued or a refund available.
ExpiredRefundAvailable ==
    \A s \in Sessions :
        (/\ Exists(s)
         /\ NeedsPaymentPoll(sess[s])
         /\ now <= sess[s].expires
         /\ \E b \in deposits[s] : b <= SafeHead(head))
        ~> (s \in queued \/ (Exists(s) /\ sess[s].refundable))

=============================================================================
