---------------------------- MODULE PaymentScanProofs ----------------------------
(***************************************************************************)
(* Theorems about the payment scan, for any sessions, number of polls,     *)
(* amounts, confirmation depth, window and bounds: what the chain was paid *)
(* and what the factory believes it was paid.                              *)
(***************************************************************************)
EXTENDS PaymentScan, TableLemmas, FiniteSetTheorems, TLAPS

(***************************************************************************)
(* The session's state machine, on records.                                *)
(***************************************************************************)

\* Recomputing the derived flags changes nothing else of a session.
LEMMA SyncKeeps ==
  ASSUME NEW r \in SessionRecords, NEW t \in Int
  PROVE  LET r2 == SyncFlags(r, t) IN
         /\ r2 \in SessionRecords
         /\ r2.state = r.state /\ r2.pay = r.pay /\ r2.expires = r.expires /\ r2.upd = r.upd
         /\ r2.last = r.last /\ r2.evidence = r.evidence /\ r2.paid = r.paid
<1>1. Retryable(r, t) \in BOOLEAN /\ Refundable(r) \in BOOLEAN
  BY DEF Retryable, Refundable
<1> QED BY <1>1 DEF SyncFlags, SessionRecords

\* An expiry changes the state or nothing; what was learned of the payment stays.
LEMMA ExpiryKeeps ==
  ASSUME NEW r \in SessionRecords, NEW t \in Int
  PROVE  LET r2 == Apply(r, "SessionExpired", t) IN
         /\ r2 \in SessionRecords
         /\ r2.state \in {r.state, "Expired"} /\ r2.pay = r.pay /\ r2.expires = r.expires
         /\ r2.upd = r.upd /\ r2.last = r.last /\ r2.evidence = r.evidence /\ r2.paid = r.paid
<1>1. CASE IgnoresExpiry(r, t)
  BY <1>1 DEF Apply
<1>2. CASE ~ IgnoresExpiry(r, t)
  <2> DEFINE x == [r EXCEPT !.state = "Expired", !.expires = r.expires]
  <2>1. x \in SessionRecords /\ x.state = "Expired" /\ x.pay = r.pay /\ x.expires = r.expires
        /\ x.upd = r.upd /\ x.last = r.last /\ x.evidence = r.evidence /\ x.paid = r.paid
    BY DEF SessionRecords, States
  <2>2. Apply(r, "SessionExpired", t) = SyncFlags(x, t)
    BY <1>2 DEF Apply, Target
  <2> HIDE DEF x
  <2> QED BY <2>1, <2>2, SyncKeeps
<1> QED BY <1>1, <1>2

\* An observed payment changes the state only.
LEMMA ObservationKeeps ==
  ASSUME NEW r \in SessionRecords, NEW t \in Int
  PROVE  LET r2 == Apply(r, "PaymentObserved", t) IN
         /\ r2 \in SessionRecords
         /\ r2.state = "PaymentDetected" /\ r2.pay = r.pay /\ r2.expires = r.expires
         /\ r2.upd = r.upd /\ r2.last = r.last /\ r2.evidence = r.evidence /\ r2.paid = r.paid
<1> DEFINE x == [r EXCEPT !.state = "PaymentDetected", !.expires = r.expires]
<1>1. x \in SessionRecords /\ x.state = "PaymentDetected" /\ x.pay = r.pay /\ x.expires = r.expires
      /\ x.upd = r.upd /\ x.last = r.last /\ x.evidence = r.evidence /\ x.paid = r.paid
  BY DEF SessionRecords, States
<1>2. Apply(r, "PaymentObserved", t) = SyncFlags(x, t)
  BY DEF Apply, Target
<1> HIDE DEF x
<1> QED BY <1>1, <1>2, SyncKeeps

\* Sets of blocks are finite.
LEMMA BlocksFinite ==
  ASSUME NEW S \in SUBSET Blocks
  PROVE  IsFiniteSet(S) /\ Cardinality(S) \in Nat
<1>1. IsFiniteSet(Blocks)
  BY FS_Interval, ScanAssumption DEF Blocks
<1> QED BY <1>1, FS_Subset, FS_CardinalityType

\* A scan cursor is a number of the chain.
LEMMA CursorIsNumber ==
  ASSUME NEW b \in Blocks \cup {NoBlock}
  PROVE  b \in Int /\ b <= MaxHead /\ b >= NoBlock /\ (b \in Nat \/ b = NoBlock)
  BY ScanAssumption DEF Blocks, NoBlock

\* Merging adds the blocks that were found, and counts those that were not known before.
LEMMA MergeAdds ==
  ASSUME NEW r \in SessionRecords, NEW to \in Blocks, NEW found \in SUBSET (0..to),
         NEW m, m = Merge(r, found)
  PROVE  /\ m \in SessionRecords
         /\ m.state = r.state /\ m.pay = r.pay /\ m.expires = r.expires /\ m.upd = r.upd
         /\ m.evidence = r.evidence \cup found
         /\ m.paid = r.paid + Cardinality(found \ r.evidence)
         /\ m.last \in {r.last} \cup (0..to) /\ m.last >= r.last
<1> DEFINE new == found \ r.evidence
           last == Max({r.last} \cup new)
<1>1. MaxHead \in Nat /\ to \in Nat /\ to <= MaxHead
  BY ScanAssumption DEF Blocks
<1>2. r.last \in Int /\ r.last <= MaxHead /\ r.evidence \subseteq Blocks /\ r.paid \in Nat
      /\ r.last \in Blocks \cup {NoBlock}
  <2>1. r.last \in Blocks \cup {NoBlock} /\ r.evidence \in SUBSET Blocks /\ r.paid \in Nat
    BY DEF SessionRecords
  <2> QED BY <1>1, <2>1, CursorIsNumber
<1>3. new \subseteq Blocks /\ found \subseteq Blocks /\ r.evidence \cup new = r.evidence \cup found
  <2>1. \A b \in 0..to : b \in Blocks
    BY <1>1 DEF Blocks
  <2>2. r.evidence \cup new = r.evidence \cup found
    BY Zenon
  <2> QED BY <2>1, <2>2
<1>4. Cardinality(new) \in Nat
  BY <1>3, BlocksFinite
<1>5. last \in {r.last} \cup new /\ r.last <= last
  <2> DEFINE S == {r.last} \cup new
  <2>1. S \in SUBSET Int /\ S # {} /\ \A x \in S : x <= MaxHead
    BY <1>1, <1>2, <1>3 DEF Blocks
  <2>2. r.last \in S
    OBVIOUS
  <2> HIDE DEF S
  <2>3. Max(S) \in S /\ \A y \in S : y <= Max(S)
    BY <1>1, <2>1, MaxIsLargest
  <2> QED BY <2>2, <2>3 DEF S
<1>6. last \in Blocks \cup {NoBlock} /\ last >= r.last /\ last \in {r.last} \cup (0..to)
  <2> HIDE DEF last
  <2> QED BY <1>1, <1>2, <1>3, <1>5 DEF Blocks, NoBlock
<1>7. m = [r EXCEPT !.evidence = r.evidence \cup new, !.paid = r.paid + Cardinality(new), !.last = last]
  BY DEF Merge
<1>8. r.paid + Cardinality(new) \in Nat /\ r.evidence \cup new \in SUBSET Blocks
  BY <1>2, <1>3, <1>4
<1> DEFINE card == Cardinality(new)
<1> HIDE DEF last, card
<1> QED BY <1>3, <1>6, <1>7, <1>8 DEF SessionRecords, card

\* What a settled session has learned.
Learned(r2, r, found, to) ==
  /\ r2 \in SessionRecords
  /\ r2.evidence = r.evidence \cup found
  /\ r2.paid = r.paid + Cardinality(found \ r.evidence)
  /\ r2.last \in {r.last, to} /\ r2.last >= r.last /\ r2.last >= to
  /\ r2.state \in {"AwaitingPayment", "PaymentDetected", "Expired"}
  /\ r2.state = "PaymentDetected" => r2.paid >= Required

\* What a reconciliation makes of a session that waits for payment.
LEMMA ReconciledRecord ==
  ASSUME NEW r \in SessionRecords, NeedsPaymentPoll(r), NEW to \in Blocks,
         NEW found \in SUBSET (0..to), NEW forked \in BOOLEAN, NEW started \in Times
  PROVE  Learned(Reconciled(r, found, forked, to, started), r, found, to)
<1> DEFINE m == Merge(r, found)
<1>0. m = Merge(r, found)
  OBVIOUS
<1> HIDE DEF m
<1>1. /\ m \in SessionRecords /\ m.state = r.state /\ m.evidence = r.evidence \cup found
      /\ m.paid = r.paid + Cardinality(found \ r.evidence)
      /\ m.last \in {r.last} \cup (0..to) /\ m.last >= r.last
  BY <1>0, MergeAdds
<1> DEFINE status == StatusFor(m.paid, forked)
           last == Max({to, m.last})
           x == [m EXCEPT !.pay = status, !.last = last, !.upd = started]
           synced == SyncFlags(x, started)
           detected == r.state = "AwaitingPayment" /\ status = "Paid" /\ started <= r.expires
<1>2. status \in PaymentStatuses /\ (status = "Paid" => m.paid >= Required)
  BY DEF StatusFor, PaymentStatuses
<1>3. Reconciled(r, found, forked, to, started) =
        IF detected THEN Apply(synced, "PaymentObserved", started)
        ELSE Apply(synced, "SessionExpired", started)
  BY DEF Reconciled, m
<1>4. to \in Nat /\ MaxHead \in Nat /\ started \in Int
  BY ScanAssumption, SchedulerAssumption DEF Blocks, Times
<1> HIDE DEF m, status
<1>5. r.last \in Int /\ m.last \in Int /\ m.last \in Blocks \cup {NoBlock}
  <2>1. r.last \in Blocks \cup {NoBlock} /\ m.last \in Blocks \cup {NoBlock}
    BY <1>1 DEF SessionRecords
  <2> QED BY <2>1, CursorIsNumber
<1>6. last \in {to, m.last} /\ last >= to /\ last >= m.last
  <2> DEFINE l == m.last
  <2>1. l \in Int /\ to \in Int
    BY <1>4, <1>5
  <2> HIDE DEF l
  <2>2. Max({to, l}) \in {to, l} /\ Max({to, l}) >= to /\ Max({to, l}) >= l
    BY <2>1, MaxOfTwo
  <2> QED BY <2>2 DEF l
<1> HIDE DEF last
<1>7. last \in Blocks \cup {NoBlock} /\ last \in {r.last, to} /\ last >= r.last
  BY <1>1, <1>4, <1>5, <1>6 DEF Blocks, NoBlock
<1>8. x \in SessionRecords /\ x.state = m.state /\ x.evidence = m.evidence /\ x.paid = m.paid
      /\ x.last = last
  BY <1>1, <1>2, <1>7 DEF SessionRecords
<1> HIDE DEF x
<1>9. synced \in SessionRecords /\ synced.state = m.state /\ synced.evidence = m.evidence
      /\ synced.paid = m.paid /\ synced.last = last
  BY <1>4, <1>8, SyncKeeps
<1> HIDE DEF synced
<1>10. r.state = "AwaitingPayment"
  BY DEF NeedsPaymentPoll
<1>11. CASE detected
  <2> DEFINE y == Apply(synced, "PaymentObserved", started)
  <2>1. y \in SessionRecords /\ y.state = "PaymentDetected" /\ y.last = synced.last
        /\ y.evidence = synced.evidence /\ y.paid = synced.paid
    BY <1>4, <1>9, ObservationKeeps
  <2>2. Reconciled(r, found, forked, to, started) = y /\ m.paid >= Required
    BY <1>2, <1>3, <1>11
  <2> HIDE DEF y, detected
  <2> QED BY <1>1, <1>6, <1>7, <1>9, <2>1, <2>2 DEF Learned
<1>12. CASE ~ detected
  <2> DEFINE y == Apply(synced, "SessionExpired", started)
  <2>1. y \in SessionRecords /\ y.state \in {synced.state, "Expired"} /\ y.last = synced.last
        /\ y.evidence = synced.evidence /\ y.paid = synced.paid
    BY <1>4, <1>9, ExpiryKeeps
  <2> HIDE DEF detected
  <2>2. Reconciled(r, found, forked, to, started) = y
    BY <1>3, <1>12
  <2> HIDE DEF y
  <2> QED BY <1>1, <1>6, <1>7, <1>9, <1>10, <2>1, <2>2 DEF Learned
<1> QED BY <1>11, <1>12

(***************************************************************************)
(* The job.  A job that is leased is scheduled: that is why a session that *)
(* is created while the job is leased need not wake it.                    *)
(***************************************************************************)
JobFits(job, active) ==
  /\ job \in Jobs
  /\ job.until # NoTime => job.next # NoTime
  /\ active => job.next # NoTime

\* A time that is clipped to the horizon is a time.
LEMMA LaterIsTime ==
  ASSUME NEW t \in Times, NEW d \in Nat
  PROVE  Later(t, d) \in Times /\ Later(t, d) # NoTime
  BY SchedulerAssumption DEF Times, NoTime, Later

\* Waking the job leaves it scheduled, leased or not.
LEMMA WakingFits ==
  ASSUME NEW job, NEW t \in Times, NEW active \in BOOLEAN, JobFits(job, active)
  PROVE  JobFits(SyncPollJob(job, TRUE, t), TRUE)
<1>1. job \in Jobs /\ t # NoTime /\ t \in Int
  BY SchedulerAssumption DEF JobFits, Times, NoTime
<1>2. job.next \in Times \cup {NoTime} /\ job.until \in Times \cup {NoTime}
  BY <1>1 DEF Jobs
<1>3. CASE HasLiveLease(job, t)
  <2>1. job.until # NoTime
    BY <1>1, <1>2, <1>3 DEF HasLiveLease, NoTime, Times
  <2> QED BY <1>3, <2>1 DEF JobFits, SyncPollJob
<1>4. CASE ~ HasLiveLease(job, t)
  <2> DEFINE n == IF job.next # NoTime /\ job.next <= t THEN job.next ELSE t
  <2>1. SyncPollJob(job, TRUE, t) = [job EXCEPT !.until = NoTime, !.next = n]
    BY <1>1, <1>4 DEF SyncPollJob, Jobs
  <2>2. n \in Times \cup {NoTime} /\ n # NoTime
    BY <1>1, <1>2
  <2> HIDE DEF n
  <2> QED BY <1>1, <2>1, <2>2 DEF JobFits, Jobs
<1> QED BY <1>3, <1>4

\* The job of a poll that ended well runs again exactly while somebody waits.
LEMMA SuccessFits ==
  ASSUME NEW job, NEW t \in Times, NEW active \in BOOLEAN
  PROVE  JobFits(FinishOk(job, PollAgain(active, t)), active)
<1> DEFINE n == PollAgain(active, t)
<1>1. n \in Times \cup {NoTime} /\ (active => n # NoTime)
  BY LaterIsTime, SchedulerAssumption DEF PollAgain
<1> HIDE DEF n
<1>2. FinishOk(job, n) = [next |-> n, until |-> NoTime, fails |-> 0]
  BY DEF FinishOk
<1>3. JobFits(FinishOk(job, n), active)
  BY <1>1, <1>2, SchedulerAssumption DEF JobFits, Jobs
<1> QED BY <1>3 DEF n

\* A backoff is a number of ticks.
LEMMA BackoffIsNumber ==
  ASSUME NEW fails \in 1..FailureCap
  PROVE  BackoffDelay(fails) \in Nat
<1> DEFINE power == 2 ^ (fails - 1)
<1>1. fails - 1 \in 0..FailureCap
  BY SchedulerAssumption
<1>2. power \in Nat
  BY <1>1, PowersAssumption
<1>3. InitialBackoff \in Nat /\ MaxBackoff \in Nat
  BY SchedulerAssumption
<1>4. BackoffDelay(fails) = IF InitialBackoff * power <= MaxBackoff THEN InitialBackoff * power
                            ELSE MaxBackoff
  BY DEF BackoffDelay
<1> HIDE DEF power
<1>5. InitialBackoff * power \in Nat
  BY <1>2, <1>3
<1> QED BY <1>3, <1>4, <1>5

\* Nor does a poll that failed leave anybody waiting without a next run.
LEMMA FailureFits ==
  ASSUME NEW job \in Jobs, NEW t \in Times, NEW active \in BOOLEAN,
         NEW action \in {"Backoff", "Skip"}
  PROVE  JobFits(FinishFailed(job, action, PollAgain(active, t), t), active)
<1> DEFINE again == PollAgain(active, t)
           fails == CountFailure(job.fails)
           n == IF action = "Backoff" THEN Later(t, BackoffDelay(fails)) ELSE again
<1>1. again \in Times \cup {NoTime} /\ (active => again # NoTime)
  BY LaterIsTime, SchedulerAssumption DEF PollAgain
<1>2. fails \in 1..FailureCap
  <2>1. job.fails \in 0..FailureCap
    BY DEF Jobs
  <2> QED BY <2>1, SchedulerAssumption DEF CountFailure
<1>3. FinishFailed(job, action, again, t) = [next |-> n, until |-> NoTime, fails |-> fails]
  BY DEF FinishFailed
<1> HIDE DEF again, fails
<1>4. n \in Times \cup {NoTime} /\ (active => n # NoTime)
  BY <1>1, <1>2, BackoffIsNumber, LaterIsTime
<1>5. fails \in 0..FailureCap
  BY <1>2, SchedulerAssumption
<1> HIDE DEF n
<1>6. JobFits(FinishFailed(job, action, again, t), active)
  BY <1>3, <1>4, <1>5 DEF JobFits, Jobs
<1> QED BY <1>6 DEF again

\* Leasing a due job leaves it scheduled.
LEMMA LeaseFits ==
  ASSUME NEW job, NEW t \in Times, NEW active \in BOOLEAN, JobFits(job, active), IsDue(job, t)
  PROVE  JobFits(Lease(job, t), active)
<1> DEFINE u == Later(t, LeaseTime)
<1>1. u \in Times
  BY LaterIsTime, SchedulerAssumption
<1>2. Lease(job, t) = [job EXCEPT !.until = u] /\ job.next # NoTime /\ job \in Jobs
  BY DEF Lease, IsDue, JobFits
<1> HIDE DEF u
<1> QED BY <1>1, <1>2 DEF JobFits, Jobs

(***************************************************************************)
(* The invariant.  A block that has its confirmations is never touched by  *)
(* the chain again, and everything the factory knows or is about to write  *)
(* concerns such blocks only: the cursors, the evidence, and the windows   *)
(* and logs of the polls that are under way.                               *)
(***************************************************************************)
SessionFits(r, paidIn, latest, isQueued) ==
  /\ paidIn \subseteq 0 .. latest
  /\ r = Absent => paidIn = {} /\ ~ isQueued
  /\ r # Absent =>
       /\ r \in SessionRecords
       /\ r.evidence \subseteq paidIn
       /\ \A b \in r.evidence : b <= SafeHead(latest)
       /\ r.paid = Cardinality(r.evidence)
       /\ r.last = NoBlock \/ r.last <= SafeHead(latest)
       /\ isQueued => r.paid >= Required
       /\ r.state = "PaymentDetected" => isQueued

\* A suspended poll: its window is confirmed, and what it found is on the chain.
PollFits(q, latest, paidIn) ==
  /\ q.pc \in {"idle", "head", "logs", "hash"}
  /\ q.pc # "idle" => q.started \in Times
  /\ q.pc \in {"logs", "hash"} => q.to \in Blocks /\ q.to <= SafeHead(latest)
  /\ q.pc = "hash" =>
       /\ {"pc", "started", "to", "snapshot", "logs"} \subseteq DOMAIN q
       /\ \A t \in ActiveIn(q.snapshot) : q.logs[t] \subseteq paidIn[t] \cap (0 .. q.to)

SessionsFit(f, paidIn, latest, inQueue) ==
  DOMAIN f = Sessions /\ \A s \in Sessions : SessionFits(f[s], paidIn[s], latest, s \in inQueue)

PollsFit(f, latest, paidIn) ==
  DOMAIN f = Polls /\ \A p \in Polls : PollFits(f[p], latest, paidIn)

ScanInv ==
  /\ now \in Times /\ head \in Blocks /\ deposits \in [Sessions -> SUBSET Blocks]
  /\ queued \subseteq Sessions /\ secrets \subseteq Sessions
  /\ cursor \in Blocks \cup {NoBlock}
  /\ cursor = NoBlock \/ cursor <= SafeHead(head)
  /\ SessionsFit(sess, deposits, head, queued)
  /\ JobFits(pollJob, Active # {})
  /\ PollsFit(poll, head, deposits)

\* A session's record stands apart from the mark of a session that does not exist.
LEMMA AbsentIsNoRecord == Absent \notin SessionRecords
<1>1. ASSUME NEW r \in SessionRecords PROVE r.state \in States
  BY DEF SessionRecords
<1>2. Absent.state = "Absent"
  BY DEF Absent
<1> QED BY <1>1, <1>2 DEF States

\* The confirmed part of the chain ends below its head.
LEMMA SafeHeadBelow ==
  ASSUME NEW h \in Int, NEW k \in Int, h <= k
  PROVE  SafeHead(h) \in Int /\ SafeHead(h) <= h /\ SafeHead(h) <= SafeHead(k)
  BY ScanAssumption DEF SafeHead

\* What a block more or a reorganisation does: below the confirmed head it does nothing.
ChainMoves ==
  /\ UNCHANGED <<now, factoryVars>>
  /\ head' \in Blocks /\ head' >= head
  /\ deposits' \in [Sessions -> SUBSET Blocks]
  /\ \A s \in Sessions : deposits'[s] \subseteq 0 .. head'
  /\ \A s \in Sessions : ~ Exists(s) => deposits'[s] \subseteq deposits[s]
  /\ \A s \in Sessions : \A b \in Blocks :
        b <= SafeHead(head) => (b \in deposits'[s] <=> b \in deposits[s])

\* Mining is such a step.
LEMMA MineMoves == ASSUME ScanInv, NEW paying \in SUBSET Sessions, Mine(paying) PROVE ChainMoves
<1>1. head \in Nat /\ head + 1 \in Blocks /\ head' = head + 1 /\ SafeHead(head) <= head
      /\ SafeHead(head) \in Int
  BY ScanAssumption DEF ScanInv, Mine, Blocks, SafeHead
<1>2. \A s \in Sessions : deposits'[s] = IF s \in paying THEN deposits[s] \cup {head + 1}
                                                          ELSE deposits[s]
  BY DEF Mine
<1>3. deposits' \in [Sessions -> SUBSET Blocks]
  BY <1>1 DEF Mine, ScanInv
<1>4. ASSUME NEW s \in Sessions PROVE deposits'[s] \subseteq 0 .. head + 1
  <2>1. deposits[s] \subseteq 0 .. head
    BY DEF ScanInv, SessionsFit, SessionFits
  <2>2. head + 1 \in 0 .. head + 1 /\ \A b \in 0 .. head : b \in 0 .. head + 1
    BY <1>1
  <2>3. \A b \in deposits'[s] : b \in deposits[s] \/ b = head + 1
    BY <1>2
  <2> QED BY <2>1, <2>2, <2>3
<1>5. ASSUME NEW s \in Sessions, ~ Exists(s) PROVE deposits'[s] \subseteq deposits[s]
  BY <1>2, <1>5 DEF Mine
<1>6. ASSUME NEW s \in Sessions, NEW b \in Blocks, b <= SafeHead(head)
      PROVE  b \in deposits'[s] <=> b \in deposits[s]
  <2>1. b # head + 1
    BY <1>1, <1>6 DEF Blocks
  <2> QED BY <1>2, <2>1
<1> QED BY <1>1, <1>3, <1>4, <1>5, <1>6 DEF ChainMoves, Mine

\* A reorganisation is one too: it takes deposits that are not confirmed.
LEMMA ReorgMoves ==
  ASSUME ScanInv, NEW s \in Sessions, NEW b \in deposits[s], Reorg(s, b) PROVE ChainMoves
<1>1. head \in Nat /\ head' = head /\ b \in Blocks /\ b > SafeHead(head) /\ SafeHead(head) \in Int
  BY ScanAssumption DEF ScanInv, Reorg, Blocks, SafeHead
<1>2. \A t \in Sessions : deposits'[t] = IF t = s THEN deposits[s] \ {b} ELSE deposits[t]
  BY DEF Reorg, ScanInv
<1>3. deposits' \in [Sessions -> SUBSET Blocks]
  BY DEF Reorg, ScanInv
<1>4. \A t \in Sessions : deposits'[t] \subseteq deposits[t] /\ deposits[t] \subseteq 0 .. head
  BY <1>2 DEF ScanInv, SessionsFit, SessionFits
<1>5. ASSUME NEW t \in Sessions, NEW c \in Blocks, c <= SafeHead(head)
      PROVE  c \in deposits'[t] <=> c \in deposits[t]
  <2>1. c # b
    BY <1>1, <1>5, ScanAssumption DEF Blocks
  <2>2. CASE t = s
    BY <1>2, <2>1, <2>2
  <2>3. CASE t # s
    BY <1>2, <2>3
  <2> QED BY <2>2, <2>3
<1>6. head >= head
  BY <1>1
<1> QED BY <1>1, <1>3, <1>4, <1>5, <1>6 DEF ChainMoves, Reorg, ScanInv

\* The chain cannot take back what the factory knows.
LEMMA ChainKeepsInv == ASSUME ScanInv, ChainMoves PROVE ScanInv'
<1>1. head \in Int /\ head' \in Int /\ head' >= head
  BY ScanAssumption DEF ScanInv, ChainMoves, Blocks
<1>2. SafeHead(head) \in Int /\ SafeHead(head') \in Int /\ SafeHead(head) <= SafeHead(head')
  BY <1>1, SafeHeadBelow
<1>3. UNCHANGED <<now, sess, cursor, pollJob, poll, queued, secrets>>
  BY DEF ChainMoves, factoryVars
<1>4. ASSUME NEW s \in Sessions, NEW S \in SUBSET deposits[s], \A b \in S : b <= SafeHead(head)
      PROVE  S \subseteq deposits'[s]
  BY <1>4 DEF ChainMoves, ScanInv
<1>5. ASSUME NEW s \in Sessions PROVE SessionFits(sess[s], deposits'[s], head', s \in queued)
  <2>1. SessionFits(sess[s], deposits[s], head, s \in queued)
    BY DEF ScanInv, SessionsFit
  <2>2. deposits'[s] \subseteq 0 .. head' /\ (sess[s] = Absent => deposits'[s] = {})
    BY <2>1 DEF ChainMoves, SessionFits, Exists
  <2>3. CASE sess[s] # Absent
    <3>1. sess[s].last \in Int /\ \A b \in sess[s].evidence : b \in Int
      BY <2>1, <2>3, CursorIsNumber, ScanAssumption DEF SessionFits, SessionRecords, Blocks
    <3>2. sess[s].evidence \subseteq deposits'[s]
      BY <1>4, <2>1, <2>3 DEF SessionFits
    <3> QED BY <1>2, <2>1, <2>2, <2>3, <3>1, <3>2 DEF SessionFits
  <2> QED BY <2>1, <2>2, <2>3 DEF SessionFits
<1>6. ASSUME NEW p \in Polls PROVE PollFits(poll[p], head', deposits')
  <2> DEFINE q == poll[p]
  <2>1. PollFits(q, head, deposits)
    BY DEF ScanInv, PollsFit
  <2> HIDE DEF q
  <2>2. q.pc \in {"logs", "hash"} => q.to \in Int /\ q.to <= SafeHead(head')
    BY <1>2, <2>1, ScanAssumption DEF PollFits, Blocks
  <2>3. ASSUME q.pc = "hash", NEW t \in ActiveIn(q.snapshot)
        PROVE  q.logs[t] \subseteq deposits'[t] \cap (0 .. q.to)
    <3>1. t \in Sessions /\ q.logs[t] \subseteq deposits[t] \cap (0 .. q.to)
          /\ q.to <= SafeHead(head) /\ q.to \in Int
      BY <2>1, <2>2, <2>3 DEF PollFits, ActiveIn
    <3>2. \A b \in q.logs[t] : b <= SafeHead(head)
      BY <1>2, <3>1
    <3> QED BY <1>4, <3>1, <3>2
  <2>4. PollFits(q, head', deposits')
    BY <2>1, <2>2, <2>3 DEF PollFits
  <2> QED BY <2>4 DEF q
<1>7. Active' = Active
  BY <1>3 DEF Active, ActiveIn
<1>8. cursor = NoBlock \/ cursor <= SafeHead(head')
  <2>1. cursor \in Int
    BY CursorIsNumber DEF ScanInv
  <2> QED BY <1>2, <2>1 DEF ScanInv
<1> QED BY <1>3, <1>5, <1>6, <1>7, <1>8 DEF ScanInv, SessionsFit, PollsFit, ChainMoves

(***************************************************************************)
(* The steps that write sessions one by one.                               *)
(***************************************************************************)

\* A new session starts with nothing behind it and wakes the job.
LEMMA CreateKeepsInv == ASSUME ScanInv, NEW s \in Sessions, CreateSession(s) PROVE ScanInv'
<1> DEFINE r == [state |-> "AwaitingPayment", pay |-> "Unpaid",
                 expires |-> now + SessionTtl, retryable |-> FALSE,
                 refundable |-> FALSE, upd |-> now, last |-> cursor,
                 evidence |-> {}, paid |-> 0]
<1>1. /\ sess' = [sess EXCEPT ![s] = r] /\ secrets' = secrets \cup {s}
      /\ pollJob' = SyncPollJob(pollJob, TRUE, now) /\ ~ Exists(s)
      /\ UNCHANGED <<now, head, deposits, cursor, poll, queued>>
  BY DEF CreateSession, chainVars
<1>2. now + SessionTtl \in Nat
  BY SessionTtlAssumption, SchedulerAssumption DEF ScanInv, Times
<1>3. r \in SessionRecords
  BY <1>2 DEF SessionRecords, States, PaymentStatuses, ScanInv
<1>4. r.evidence = {} /\ r.paid = 0 /\ r.last = cursor /\ r.state = "AwaitingPayment"
  OBVIOUS
<1> HIDE DEF r
<1>5. Cardinality({}) = 0
  BY FS_EmptySet
<1>6. SessionsFit(sess, deposits, head, queued)
  BY DEF ScanInv
<1>7. s \notin queued
  BY <1>1, <1>6 DEF SessionsFit, SessionFits, Exists
<1>8. SessionFits(r, deposits[s], head, s \in queued)
  <2>1. deposits[s] \subseteq 0 .. head
    BY <1>6 DEF SessionsFit, SessionFits
  <2>2. r # Absent
    BY <1>3, AbsentIsNoRecord
  <2>3. cursor = NoBlock \/ cursor <= SafeHead(head)
    BY DEF ScanInv
  <2> QED BY <1>3, <1>4, <1>5, <1>7, <2>1, <2>2, <2>3 DEF SessionFits
<1>9. SessionsFit(sess', deposits, head, queued)
  BY <1>1, <1>6, <1>8 DEF SessionsFit
<1>10. JobFits(pollJob', TRUE)
  BY <1>1, WakingFits DEF ScanInv
<1>11. JobFits(pollJob', Active' # {})
  BY <1>10 DEF JobFits
<1> QED BY <1>1, <1>9, <1>11 DEF ScanInv

\* A refund claim expires a session and leaves what is known of its payments.
LEMMA ClaimKeepsInv == ASSUME ScanInv, NEW s \in Sessions, ExpireOnClaim(s) PROVE ScanInv'
<1> DEFINE x == Apply(sess[s], "SessionExpired", now)
           r == [x EXCEPT !.upd = now]
<1>1. /\ sess' = [sess EXCEPT ![s] = r] /\ Exists(s) /\ ~ IgnoresExpiry(sess[s], now)
      /\ UNCHANGED <<now, head, deposits, cursor, pollJob, poll, queued, secrets>>
  BY DEF ExpireOnClaim, chainVars
<1>2. SessionsFit(sess, deposits, head, queued) /\ now \in Times /\ now \in Int
  BY SchedulerAssumption DEF ScanInv, Times
<1>3. sess[s] \in SessionRecords /\ SessionFits(sess[s], deposits[s], head, s \in queued)
  BY <1>1, <1>2 DEF SessionsFit, SessionFits, Exists
<1>4. /\ x \in SessionRecords /\ x.last = sess[s].last /\ x.evidence = sess[s].evidence
      /\ x.paid = sess[s].paid
  BY <1>2, <1>3, ExpiryKeeps
<1>5. x.state = "Expired"
  <2> DEFINE y == [sess[s] EXCEPT !.state = "Expired", !.expires = sess[s].expires]
  <2>1. y \in SessionRecords /\ y.state = "Expired"
    BY <1>3 DEF SessionRecords, States
  <2>2. x = SyncFlags(y, now)
    BY <1>1 DEF Apply, Target
  <2> HIDE DEF x, y
  <2> QED BY <1>2, <2>1, <2>2, SyncKeeps
<1> HIDE DEF x
<1>6. r \in SessionRecords /\ r.state = "Expired" /\ r.last = sess[s].last
      /\ r.evidence = sess[s].evidence /\ r.paid = sess[s].paid
  BY <1>2, <1>4, <1>5 DEF SessionRecords
<1> HIDE DEF r
<1>7. SessionFits(r, deposits[s], head, s \in queued)
  BY <1>1, <1>3, <1>6, AbsentIsNoRecord DEF SessionFits, Exists
<1>8. SessionsFit(sess', deposits, head, queued)
  BY <1>1, <1>2, <1>7 DEF SessionsFit
<1>9. ActiveIn(sess') \subseteq ActiveIn(sess)
  BY <1>1, <1>2, <1>6 DEF ActiveIn, NeedsPaymentPoll, SessionsFit
<1>10. JobFits(pollJob, Active' # {})
  BY <1>9 DEF ScanInv, JobFits, Active
<1> QED BY <1>1, <1>8, <1>10 DEF ScanInv

(***************************************************************************)
(* The steps of a poll that write nothing but the poll and its job.        *)
(***************************************************************************)

\* One poll at a time takes a step.
LEMMA PollPut ==
  ASSUME ScanInv, NEW p \in Polls, NEW q, PollFits(q, head, deposits)
  PROVE  PollsFit([poll EXCEPT ![p] = q], head, deposits)
  BY DEF ScanInv, PollsFit

\* A poll that is over is no poll.
LEMMA IdleFits == PollFits(Idle, head, deposits)
  BY DEF PollFits, Idle

QuietStep == UNCHANGED <<now, head, deposits, sess, cursor, queued, secrets>>

\* Such a step keeps the invariant if poll and job do.
LEMMA QuietKeepsInv ==
  ASSUME ScanInv, QuietStep, PollsFit(poll', head, deposits), JobFits(pollJob', Active # {})
  PROVE  ScanInv'
<1>1. Active' = Active
  BY DEF QuietStep, Active, ActiveIn
<1> QED BY <1>1 DEF QuietStep, ScanInv

\* The first block to scan is confirmed; it lies behind the cursor of every session that
\* waits and has one.
LEMMA FirstBlockFits ==
  ASSUME ScanInv, NEW safe \in Nat, safe <= MaxHead
  PROVE  /\ FirstBlock(safe) \in Nat /\ FirstBlock(safe) <= safe
         /\ \A s \in Active : sess[s].last # NoBlock => FirstBlock(safe) <= sess[s].last + 1
<1> DEFINE cursors == {sess[s].last : s \in Active} \ {NoBlock}
           back == Max({0, safe - (LogWindow - 1)})
           from == CASE cursors # {} -> Min(cursors) + 1
                     [] cursors = {} /\ cursor # NoBlock -> cursor + 1
                     [] OTHER -> back
<1>1. FirstBlock(safe) = Min({from, safe})
  BY DEF FirstBlock
<1>2. \A s \in Active : sess[s].last \in Blocks \cup {NoBlock}
  BY DEF ScanInv, SessionsFit, SessionFits, Active, ActiveIn, SessionRecords
<1>3. cursors \in SUBSET Nat
  BY <1>2, CursorIsNumber
<1>4. back \in Nat
  <2> DEFINE low == safe - (LogWindow - 1)
  <2>1. low \in Int
    BY ScanAssumption
  <2> HIDE DEF low
  <2>2. Max({0, low}) \in {0, low} /\ Max({0, low}) >= 0
    BY <2>1, MaxOfTwo
  <2> QED BY <2>1, <2>2 DEF low
<1>5. cursors # {} => Min(cursors) \in Nat /\ \A c \in cursors : Min(cursors) <= c
  <2> HIDE DEF cursors
  <2> QED BY <1>3, MinIsLeast
<1>6. cursor # NoBlock => cursor \in Nat
  BY CursorIsNumber DEF ScanInv
<1>7. from \in Nat /\ (cursors # {} => from = Min(cursors) + 1)
  <2> HIDE DEF cursors, back
  <2> QED BY <1>4, <1>5, <1>6
<1>8. ASSUME NEW s \in Active, sess[s].last # NoBlock PROVE from <= sess[s].last + 1
  <2>1. sess[s].last \in cursors
    BY <1>8
  <2> HIDE DEF cursors, from
  <2>2. sess[s].last \in Nat
    BY <1>3, <2>1
  <2> QED BY <1>5, <1>7, <2>1, <2>2
<1> HIDE DEF from
<1>9. Min({from, safe}) \in {from, safe} /\ Min({from, safe}) <= from /\ Min({from, safe}) <= safe
  <2> DEFINE S == {from, safe}
  <2>1. S \in SUBSET Nat /\ S # {} /\ from \in S /\ safe \in S
    BY <1>7
  <2> HIDE DEF S
  <2>2. Min(S) \in S /\ \A y \in S : Min(S) <= y
    BY <2>1, MinIsLeast
  <2> QED BY <2>1, <2>2 DEF S
<1>10. FirstBlock(safe) \in Nat /\ FirstBlock(safe) <= safe /\ FirstBlock(safe) <= from
  BY <1>1, <1>7, <1>9
<1>11. ASSUME NEW s \in Active, sess[s].last # NoBlock
       PROVE  FirstBlock(safe) <= sess[s].last + 1
  <2>1. sess[s].last \in Int
    BY <1>2, CursorIsNumber
  <2> QED BY <1>7, <1>8, <1>10, <1>11, <2>1
<1> QED BY <1>10, <1>11

\* The window of a plan is confirmed.
LEMMA WindowFits ==
  ASSUME NEW safe \in Nat, NEW from \in Nat, from <= safe
  PROVE  LET to == Min({from + LogWindow - 1, safe}) IN to \in Nat /\ to <= safe
<1> DEFINE w == from + LogWindow - 1
           S == {w, safe}
<1>1. w \in Nat
  BY ScanAssumption
<1> HIDE DEF w
<1>2. S \in SUBSET Nat /\ S # {} /\ safe \in S
  BY <1>1
<1> HIDE DEF S
<1>3. Min(S) \in Nat /\ Min(S) <= safe
  BY <1>2, MinIsLeast
<1> QED BY <1>3 DEF S, w

\* What the plan of a poll is when the head's number arrives.
LEMMA PlanIs ==
  ASSUME ScanInv, NEW p \in Polls, HeadReply(p), ~ (Active = {} \/ head < Depth - 1)
  PROVE  LET q == poll'[p] IN
         /\ poll' = [poll EXCEPT ![p] = q] /\ UNCHANGED pollJob /\ QuietStep
         /\ q.pc = "logs" /\ q.started \in Times /\ q.claims = Active
         /\ q.from = FirstBlock(SafeHead(head)) /\ q.from \in Nat
         /\ q.to \in Blocks /\ q.to <= SafeHead(head)
         /\ SafeHead(head) \in Nat /\ SafeHead(head) <= MaxHead
<1> DEFINE safe == SafeHead(head)
           from == FirstBlock(safe)
           to == Min({from + LogWindow - 1, safe})
           r == [pc |-> "logs", started |-> poll[p].started, claims |-> Active,
                 from |-> from, to |-> to]
<1>1. poll' = [poll EXCEPT ![p] = r] /\ UNCHANGED pollJob /\ QuietStep /\ poll[p].pc = "head"
  BY DEF HeadReply, QuietStep, chainVars
<1>2. safe \in Nat /\ safe <= MaxHead
  BY ScanAssumption DEF ScanInv, Blocks, SafeHead
<1>3. from \in Nat /\ from <= safe
  <2> HIDE DEF safe
  <2> QED BY <1>2, FirstBlockFits
<1>4. to \in Nat /\ to <= safe
  <2> HIDE DEF safe, from
  <2> QED BY <1>2, <1>3, WindowFits
<1>5. poll[p].started \in Times /\ DOMAIN poll = Polls
  BY <1>1 DEF ScanInv, PollsFit, PollFits
<1>6. r.pc = "logs" /\ r.started = poll[p].started /\ r.claims = Active /\ r.from = from /\ r.to = to
  OBVIOUS
<1>7. to \in Blocks
  <2> HIDE DEF safe, to
  <2> QED BY <1>2, <1>4, ScanAssumption DEF Blocks
<1> HIDE DEF r, to
<1>8. poll'[p] = r
  BY <1>1, <1>5
<1> QED BY <1>1, <1>2, <1>3, <1>4, <1>5, <1>6, <1>7, <1>8

\* The head's number ends the poll or makes a plan of it.
LEMMA HeadKeepsInv == ASSUME ScanInv, NEW p \in Polls, HeadReply(p) PROVE ScanInv'
<1>1. CASE Active = {} \/ head < Depth - 1
  <2>1. QuietStep /\ poll' = [poll EXCEPT ![p] = Idle]
        /\ pollJob' = FinishOk(pollJob, PollAgain(ActiveIn(sess) # {}, now))
    BY <1>1 DEF HeadReply, QuietStep, PollSucceeds, chainVars
  <2>2. JobFits(pollJob', Active # {})
    BY <2>1, SuccessFits DEF ScanInv, Active
  <2> QED BY <2>1, <2>2, PollPut, IdleFits, QuietKeepsInv
<1>2. CASE ~ (Active = {} \/ head < Depth - 1)
  <2> DEFINE q == poll'[p]
  <2>1. /\ poll' = [poll EXCEPT ![p] = q] /\ UNCHANGED pollJob /\ QuietStep
        /\ q.pc = "logs" /\ q.started \in Times /\ q.to \in Blocks /\ q.to <= SafeHead(head)
    BY <1>2, PlanIs
  <2> HIDE DEF q
  <2>2. PollFits(q, head, deposits)
    BY <2>1 DEF PollFits
  <2>3. PollsFit(poll', head, deposits)
    BY <2>1, <2>2, PollPut
  <2> QED BY <2>1, <2>3, QuietKeepsInv DEF ScanInv
<1> QED BY <1>1, <1>2

\* A poll that starts, is refused, fails or gives up.
LEMMA QuietPolls ==
  ASSUME ScanInv, NEW p \in Polls,
         StartPoll(p) \/ RpcFails(p) \/ PollMisconfigured \/ Upgrade
           \/ (GiveUp(p) /\ UNCHANGED <<now, chainVars>>)
  PROVE  QuietStep /\ PollsFit(poll', head, deposits) /\ JobFits(pollJob', Active # {})
         /\ \A o \in Polls : poll'[o] = poll[o] \/ poll'[o].pc \in {"idle", "head"}
<1>1. PollsFit(poll, head, deposits) /\ JobFits(pollJob, Active # {}) /\ now \in Times
      /\ pollJob \in Jobs /\ DOMAIN poll = Polls
  BY DEF ScanInv, JobFits, PollsFit
<1>2. CASE StartPoll(p)
  <2> DEFINE q == [pc |-> "head", started |-> now]
  <2>1. QuietStep /\ poll' = [poll EXCEPT ![p] = q] /\ pollJob' = Lease(pollJob, now)
        /\ IsDue(pollJob, now)
    BY <1>2 DEF StartPoll, QuietStep, chainVars
  <2>2. PollFits(q, head, deposits) /\ q.pc = "head"
    BY <1>1 DEF PollFits
  <2> HIDE DEF q
  <2> QED BY <1>1, <2>1, <2>2, PollPut, LeaseFits
<1>3. CASE RpcFails(p) \/ (GiveUp(p) /\ UNCHANGED <<now, chainVars>>)
  <2>1. QuietStep /\ poll' = [poll EXCEPT ![p] = Idle]
        /\ \E action \in {"Backoff", "Skip"} :
              pollJob' = FinishFailed(pollJob, action, PollAgain(Active # {}, now), now)
    BY <1>3 DEF RpcFails, GiveUp, PollFails, QuietStep, chainVars, Active
  <2>2. Idle.pc = "idle"
    BY DEF Idle
  <2> QED BY <1>1, <2>1, <2>2, PollPut, IdleFits, FailureFits
<1>4. CASE PollMisconfigured
  <2>1. QuietStep /\ poll' = poll
        /\ pollJob' = FinishFailed(pollJob, "Skip", PollAgain(Active # {}, now), now)
    BY <1>4 DEF PollMisconfigured, QuietStep, chainVars
  <2> QED BY <1>1, <2>1, FailureFits
<1>5. CASE Upgrade
  <2>1. QuietStep /\ poll' = [o \in Polls |-> Idle] /\ pollJob' = pollJob
    BY <1>5 DEF Upgrade, QuietStep, chainVars
  <2>2. Idle.pc = "idle"
    BY DEF Idle
  <2> QED BY <1>1, <2>1, <2>2, IdleFits DEF PollsFit
<1> QED BY <1>2, <1>3, <1>4, <1>5

(***************************************************************************)
(* The final write.                                                        *)
(***************************************************************************)

\* What a poll brings to the write.
Brought(p, snapshot, logs, to) ==
  /\ poll[p].started \in Times /\ to \in Blocks /\ to <= SafeHead(head)
  /\ \A t \in ActiveIn(snapshot) : logs[t] \subseteq deposits[t] \cap (0 .. to)

WritePoll(p, snapshot, logs, to, forked) ==
  WriteBack(p, snapshot, logs, to, forked) /\ UNCHANGED <<now, chainVars>>

\* A session is reconciled with what was found for it, as it is now.
Settles(s, snapshot, logs, to, started) ==
  /\ s \in ActiveIn(snapshot) /\ sess[s] = snapshot[s] /\ s \in Active
  /\ \E fork \in BOOLEAN : sess'[s] = Reconciled(sess[s], logs[s], fork, to, started)
  /\ sess'[s].state = "PaymentDetected" => s \in queued'

\* The write touches the sessions of the snapshot that are still the same, and no others.
LEMMA WriteTouches ==
  ASSUME ScanInv, NEW p \in Polls, NEW snapshot, NEW logs, NEW to, NEW forked,
         WritePoll(p, snapshot, logs, to, forked)
  PROVE  /\ UNCHANGED <<now, head, deposits>> /\ cursor' = to /\ DOMAIN sess' = Sessions
         /\ \A s \in Sessions :
               \/ sess'[s] = sess[s] /\ (s \in queued' <=> s \in queued)
               \/ /\ Settles(s, snapshot, logs, to, poll[p].started)
                  /\ s \in queued' => (s \in queued \/ sess'[s].state = "PaymentDetected")
         /\ queued \subseteq queued' /\ queued' \subseteq Sessions /\ secrets' \subseteq secrets
         /\ poll' = [poll EXCEPT ![p] = Idle] /\ JobFits(pollJob', Active' # {})
<1> DEFINE started == poll[p].started
           planned == ActiveIn(snapshot)
           written == {s \in planned : \A t \in planned : t <= s => Fresh(snapshot, t)}
           result == [s \in Sessions |->
                       IF s \in written
                       THEN Reconciled(snapshot[s], logs[s], s \in forked, to, started)
                       ELSE sess[s]]
           detected == {s \in written : result[s].state = "PaymentDetected"}
<1>1. /\ cursor' = to /\ sess' = result /\ queued' = queued \cup detected
      /\ IF written = planned
         THEN /\ PollSucceeds(p, SyncPollJob(pollJob, ActiveIn(result) # {}, started), result)
              /\ secrets' = {s \in secrets : result[s].state # "Expired"}
         ELSE /\ PollFails(p, "Skip", result)
              /\ UNCHANGED secrets
      /\ UNCHANGED <<now, head, deposits>>
  BY Zenon DEF WritePoll, WriteBack, chainVars
<1>2. planned \subseteq Sessions
  BY DEF ActiveIn
<1>3. ASSUME NEW s \in written
      PROVE  s \in planned /\ s \in Sessions /\ sess[s] = snapshot[s] /\ s \in Active
  <2>0. s \in planned /\ s \in Sessions
    BY <1>2, <1>3
  <2>1. s \in planned /\ s \in Sessions /\ s <= s
    <3> HIDE DEF planned, written
    <3> QED BY <2>0, ScanAssumption
  <2>2. sess[s] = snapshot[s]
    BY <1>3, <2>1 DEF Fresh
  <2> QED BY <2>1, <2>2 DEF Active, ActiveIn
<1> HIDE DEF written, planned
<1>4. \A s \in Sessions :
        result[s] = IF s \in written
                    THEN Reconciled(snapshot[s], logs[s], s \in forked, to, started)
                    ELSE sess[s]
  OBVIOUS
<1>5. DOMAIN result = Sessions
  OBVIOUS
<1> HIDE DEF result
<1>6. ASSUME NEW s \in Sessions, s \notin written
      PROVE  sess'[s] = sess[s] /\ (s \in queued' <=> s \in queued)
  BY <1>1, <1>4, <1>6
<1>7. ASSUME NEW s \in Sessions, s \in written
      PROVE  /\ Settles(s, snapshot, logs, to, started)
             /\ (s \in queued' => s \in queued \/ sess'[s].state = "PaymentDetected")
  <2>1. sess'[s] = Reconciled(sess[s], logs[s], s \in forked, to, started)
    BY <1>1, <1>3, <1>4, <1>7
  <2>2. (s \in forked) \in BOOLEAN
    OBVIOUS
  <2>3. \E fork \in BOOLEAN : sess'[s] = Reconciled(sess[s], logs[s], fork, to, started)
    BY <2>1, <2>2
  <2> QED BY <1>1, <1>3, <1>7, <2>3 DEF Settles, planned
<1>8. JobFits(pollJob', Active' # {}) /\ poll' = [poll EXCEPT ![p] = Idle] /\ secrets' \subseteq secrets
  <2>1. Active' = ActiveIn(result)
    BY <1>1 DEF Active, ActiveIn
  <2>2. now \in Times /\ pollJob \in Jobs
    BY DEF ScanInv, JobFits
  <2>3. CASE written = planned
    <3>1. pollJob' = FinishOk(SyncPollJob(pollJob, ActiveIn(result) # {}, started),
                              PollAgain(ActiveIn(result) # {}, now))
          /\ poll' = [poll EXCEPT ![p] = Idle] /\ secrets' \subseteq secrets
      BY <1>1, <2>3 DEF PollSucceeds
    <3> QED BY <2>1, <2>2, <3>1, SuccessFits
  <2>4. CASE written # planned
    <3>1. pollJob' = FinishFailed(pollJob, "Skip", PollAgain(ActiveIn(result) # {}, now), now)
          /\ poll' = [poll EXCEPT ![p] = Idle] /\ secrets' = secrets
      BY <1>1, <2>4 DEF PollFails
    <3> QED BY <2>1, <2>2, <3>1, FailureFits
  <2> QED BY <2>3, <2>4
<1>9. queued \subseteq queued' /\ queued' \subseteq Sessions
  BY <1>1, <1>3 DEF ScanInv
<1> QED BY <1>1, <1>5, <1>6, <1>7, <1>8, <1>9

\* What a reconciliation counts is the evidence it leaves.
LEMMA CountedOnce ==
  ASSUME NEW S \in SUBSET Blocks, NEW T \in SUBSET Blocks
  PROVE  Cardinality(S \cup T) = Cardinality(S) + Cardinality(T \ S)
<1> DEFINE D == T \ S
<1>1. D \in SUBSET Blocks /\ S \cup T = S \cup D /\ S \cap D = {}
  OBVIOUS
<1> HIDE DEF D
<1>2. Cardinality(S \cup D) = Cardinality(S) + Cardinality(D) - Cardinality(S \cap D)
  BY <1>1, BlocksFinite, FS_Union
<1>3. Cardinality({}) = 0 /\ Cardinality(S) \in Nat /\ Cardinality(D) \in Nat
  BY <1>1, BlocksFinite, FS_EmptySet
<1>4. Cardinality(S \cup D) = Cardinality(S) + Cardinality(D)
  <2>1. Cardinality(S \cap D) = 0
    BY <1>1, <1>3, Zenon
  <2> QED BY <1>2, <1>3, <2>1
<1>5. Cardinality(S \cup T) = Cardinality(S) + Cardinality(D)
  BY <1>1, <1>4, Zenon
<1> QED BY <1>5 DEF D

\* What a session is after it was settled.
LEMMA SettledRecord ==
  ASSUME ScanInv, NEW p \in Polls, NEW snapshot, NEW logs, NEW to, NEW s \in Sessions,
         Brought(p, snapshot, logs, to), Settles(s, snapshot, logs, to, poll[p].started)
  PROVE  /\ sess[s] \in SessionRecords /\ sess[s].state = "AwaitingPayment" /\ s \in Active
         /\ Learned(sess'[s], sess[s], logs[s], to)
         /\ logs[s] \in SUBSET (0 .. to) /\ logs[s] \subseteq deposits[s]
         /\ sess'[s].state = "PaymentDetected" => s \in queued'
<1> DEFINE r == sess[s]
           found == logs[s]
           started == poll[p].started
<1>1. r \in SessionRecords /\ NeedsPaymentPoll(r) /\ s \in Active
  BY DEF ScanInv, SessionsFit, SessionFits, Settles, Active, ActiveIn
<1>2. found \in SUBSET (0 .. to) /\ found \subseteq deposits[s]
  BY DEF Settles, Brought
<1>3. to \in Blocks /\ started \in Times
  BY DEF Brought
<1>4. PICK fork \in BOOLEAN : sess'[s] = Reconciled(r, found, fork, to, started)
  BY DEF Settles
<1>5. sess'[s].state = "PaymentDetected" => s \in queued'
  BY DEF Settles
<1>6. r.state = "AwaitingPayment"
  BY <1>1 DEF NeedsPaymentPoll
<1> HIDE DEF r, found, started
<1>7. Learned(Reconciled(r, found, fork, to, started), r, found, to)
  BY <1>1, <1>2, <1>3, <1>4, ReconciledRecord
<1>8. Learned(sess'[s], r, found, to)
  BY <1>4, <1>7
<1> QED BY <1>1, <1>2, <1>5, <1>6, <1>8 DEF r, found

\* The write keeps the books.
LEMMA WriteKeepsInv ==
  ASSUME ScanInv, NEW p \in Polls, NEW snapshot, NEW logs, NEW to, NEW forked,
         Brought(p, snapshot, logs, to), WritePoll(p, snapshot, logs, to, forked)
  PROVE  ScanInv'
<1>1. /\ UNCHANGED <<now, head, deposits>> /\ cursor' = to /\ DOMAIN sess' = Sessions
      /\ queued \subseteq queued' /\ queued' \subseteq Sessions /\ secrets' \subseteq secrets
      /\ poll' = [poll EXCEPT ![p] = Idle] /\ JobFits(pollJob', Active' # {})
  BY WriteTouches
<1>2. to \in Blocks /\ to \in Int /\ to <= SafeHead(head) /\ SafeHead(head) \in Int
  BY ScanAssumption, SafeHeadBelow DEF Brought, Blocks, ScanInv
<1>3. ASSUME NEW s \in Sessions PROVE SessionFits(sess'[s], deposits[s], head, s \in queued')
  <2>1. SessionFits(sess[s], deposits[s], head, s \in queued)
    BY DEF ScanInv, SessionsFit
  <2>2. CASE sess'[s] = sess[s] /\ (s \in queued' <=> s \in queued)
    BY <2>1, <2>2 DEF SessionFits
  <2>3. CASE /\ Settles(s, snapshot, logs, to, poll[p].started)
             /\ s \in queued' => (s \in queued \/ sess'[s].state = "PaymentDetected")
    <3> DEFINE r == sess[s]
               r2 == sess'[s]
               found == logs[s]
    <3>0. /\ r \in SessionRecords /\ Learned(r2, r, found, to)
          /\ found \in SUBSET (0 .. to) /\ found \subseteq deposits[s]
          /\ r2.state = "PaymentDetected" => s \in queued'
      BY <2>3, SettledRecord
    <3>1. /\ r \in SessionRecords /\ r2 \in SessionRecords
          /\ found \in SUBSET (0 .. to) /\ found \subseteq deposits[s]
          /\ r2.evidence = r.evidence \cup found
          /\ r2.paid = r.paid + Cardinality(found \ r.evidence)
          /\ r2.last \in {r.last, to}
          /\ r2.state = "PaymentDetected" => r2.paid >= Required /\ s \in queued'
      <4> HIDE DEF r, r2, found
      <4> QED BY <3>0 DEF Learned
    <3>2. r # Absent /\ r2 # Absent
      BY <3>1, AbsentIsNoRecord
    <3>3. deposits[s] \subseteq Blocks /\ r.evidence \subseteq Blocks
      BY <3>1 DEF ScanInv, SessionRecords
    <3> HIDE DEF r, r2, found
    <3>4. Cardinality(r.evidence \cup found) = Cardinality(r.evidence) + Cardinality(found \ r.evidence)
      BY <3>1, <3>3, CountedOnce
    <3>5. SessionFits(r, deposits[s], head, s \in queued)
      BY <2>1 DEF r
    <3>6. r2.paid = Cardinality(r2.evidence)
      BY <3>1, <3>2, <3>4, <3>5 DEF SessionFits
    <3>7. \A b \in r2.evidence : b <= SafeHead(head)
      <4>1. \A b \in found : b <= SafeHead(head)
        BY <1>2, <3>1
      <4> QED BY <3>1, <3>2, <3>5, <4>1 DEF SessionFits
    <3>8. r2.last = NoBlock \/ r2.last <= SafeHead(head)
      BY <1>2, <3>1, <3>2, <3>5 DEF SessionFits
    <3>9. s \in queued' => r2.paid >= Required
      <4>1. found \ r.evidence \in SUBSET Blocks /\ r.paid \in Nat
        BY <3>1, <3>3 DEF SessionRecords
      <4>2. Cardinality(found \ r.evidence) \in Nat
        BY <4>1, BlocksFinite
      <4>3. r2.paid >= r.paid /\ r2.paid \in Nat
        BY <3>1, <4>1, <4>2
      <4>4. s \in queued => r2.paid >= Required
        BY <3>2, <3>5, <4>1, <4>3, ScanAssumption DEF SessionFits
      <4> QED BY <2>3, <3>1, <4>4 DEF r2
    <3>10. deposits[s] \subseteq 0 .. head /\ r2.evidence \subseteq deposits[s]
      BY <3>1, <3>2, <3>5 DEF SessionFits
    <3>11. SessionFits(r2, deposits[s], head, s \in queued')
      BY <3>1, <3>2, <3>6, <3>7, <3>8, <3>9, <3>10 DEF SessionFits
    <3> QED BY <3>11 DEF r2
  <2> QED BY <2>2, <2>3, WriteTouches
<1>4. SessionsFit(sess', deposits, head, queued')
  BY <1>1, <1>3 DEF SessionsFit
<1>5. PollsFit(poll', head, deposits)
  BY <1>1, PollPut, IdleFits
<1> QED BY <1>1, <1>2, <1>4, <1>5 DEF ScanInv

\* The logs and the snapshot of LogsReply.
FoundLogs(plan) == [s \in Sessions |-> IF s \in plan.claims \cap Active
                                       THEN deposits[s] \cap (plan.from .. plan.to) ELSE {}]

Snapshot == [s \in Sessions |-> IF s \in Active THEN sess[s] ELSE Absent]

HashPoll(plan, todo) ==
  [pc |-> "hash", started |-> plan.started, to |-> plan.to, snapshot |-> Snapshot,
   logs |-> FoundLogs(plan), todo |-> todo, forked |-> {}]

\* When the logs arrive they are written or wait for the canonical hashes.
LEMMA LogsCases ==
  ASSUME NEW p, LogsReply(p)
  PROVE  /\ poll[p].pc = "logs"
         /\ \/ WritePoll(p, Snapshot, FoundLogs(poll[p]), poll[p].to, {})
            \/ /\ \E todo : poll' = [poll EXCEPT ![p] = HashPoll(poll[p], todo)]
               /\ QuietStep /\ UNCHANGED pollJob
<1> DEFINE todo == ToProve(Snapshot, FoundLogs(poll[p]))
<1>1. /\ poll[p].pc = "logs" /\ UNCHANGED <<now, chainVars>>
      /\ IF todo = {} THEN WriteBack(p, Snapshot, FoundLogs(poll[p]), poll[p].to, {})
         ELSE /\ poll' = [poll EXCEPT ![p] = HashPoll(poll[p], todo)]
              /\ UNCHANGED <<sess, cursor, pollJob, queued, secrets>>
  BY Zenon DEF LogsReply, Snapshot, FoundLogs, HashPoll
<1> HIDE DEF todo
<1>2. CASE todo = {}
  BY <1>1, <1>2 DEF WritePoll
<1>3. CASE todo # {}
  BY <1>1, <1>3 DEF QuietStep, chainVars
<1> QED BY <1>1, <1>2, <1>3

\* The snapshot holds the sessions that wait, as they are.
LEMMA SnapshotIsNow == ActiveIn(Snapshot) \subseteq Active /\ \A s \in Active : Snapshot[s] = sess[s]
  BY DEF ActiveIn, Snapshot, Active

\* What was found lies in the window and on the chain.
LEMMA FoundIsSound ==
  ASSUME ScanInv, NEW p \in Polls, poll[p].pc = "logs"
  PROVE  Brought(p, Snapshot, FoundLogs(poll[p]), poll[p].to)
<1> DEFINE q == poll[p]
<1>1. q.started \in Times /\ q.to \in Blocks /\ q.to <= SafeHead(head)
  BY DEF ScanInv, PollsFit, PollFits
<1>2. ASSUME NEW t \in ActiveIn(Snapshot)
      PROVE  FoundLogs(q)[t] \subseteq deposits[t] \cap (0 .. q.to)
  <2>1. t \in Sessions /\ deposits[t] \subseteq Blocks
    BY DEF ActiveIn, ScanInv
  <2>2. FoundLogs(q)[t] \subseteq deposits[t] \cap (q.from .. q.to)
    BY <2>1 DEF FoundLogs
  <2>3. ASSUME NEW b \in deposits[t], b \in q.from .. q.to PROVE b \in 0 .. q.to
    <3>1. b \in Nat
      BY <2>1, ScanAssumption DEF Blocks
    <3>2. b <= q.to /\ q.to \in Nat
      BY <1>1, <2>3, ScanAssumption DEF Blocks
    <3> QED BY <3>1, <3>2
  <2> QED BY <2>2, <2>3
<1> QED BY <1>1, <1>2 DEF Brought

\* The logs keep the invariant.
LEMMA LogsKeepInv == ASSUME ScanInv, NEW p \in Polls, LogsReply(p) PROVE ScanInv'
<1>1. poll[p].pc = "logs" /\ Brought(p, Snapshot, FoundLogs(poll[p]), poll[p].to)
  BY LogsCases, FoundIsSound
<1>2. CASE WritePoll(p, Snapshot, FoundLogs(poll[p]), poll[p].to, {})
  BY <1>1, <1>2, WriteKeepsInv
<1>3. ASSUME NEW todo, poll' = [poll EXCEPT ![p] = HashPoll(poll[p], todo)],
             QuietStep, UNCHANGED pollJob
      PROVE  ScanInv'
  <2> DEFINE q == HashPoll(poll[p], todo)
  <2>1. /\ q.pc = "hash" /\ q.started = poll[p].started /\ q.to = poll[p].to
        /\ q.snapshot = Snapshot /\ q.logs = FoundLogs(poll[p])
        /\ {"pc", "started", "to", "snapshot", "logs"} \subseteq DOMAIN q
    BY DEF HashPoll
  <2> HIDE DEF q
  <2>2. PollFits(q, head, deposits)
    BY <1>1, <2>1 DEF PollFits, Brought
  <2>3. PollsFit(poll', head, deposits)
    BY <1>3, <2>2, PollPut DEF q
  <2> QED BY <1>3, <2>3, QuietKeepsInv DEF ScanInv
<1> QED BY <1>2, <1>3, LogsCases

\* When a session's hashes arrive the poll gives up, writes, or asks for the next one's.
LEMMA HashCases ==
  ASSUME NEW p, NEW canonical, HashReply(p, canonical)
  PROVE  /\ poll[p].pc = "hash"
         /\ \/ GiveUp(p) /\ UNCHANGED <<now, chainVars>>
            \/ \E forked : WritePoll(p, poll[p].snapshot, poll[p].logs, poll[p].to, forked)
            \/ /\ \E rest, forked : poll' = [poll EXCEPT ![p].todo = rest, ![p].forked = forked]
               /\ QuietStep /\ UNCHANGED pollJob
<1> DEFINE call == poll[p]
           s == Min(call.todo)
           rest == call.todo \ {s}
           forked == IF canonical THEN call.forked ELSE call.forked \cup {s}
           passed == {t \in ActiveIn(call.snapshot) : t >= s /\ (rest # {} => t <= Min(rest))}
           stale == \E t \in passed : ~ Fresh(call.snapshot, t)
<1>1. /\ poll[p].pc = "hash" /\ UNCHANGED <<now, chainVars>>
      /\ IF stale THEN GiveUp(p)
         ELSE IF rest = {}
         THEN WriteBack(p, call.snapshot, call.logs, call.to, forked)
         ELSE /\ poll' = [poll EXCEPT ![p].todo = rest, ![p].forked = forked]
              /\ UNCHANGED <<sess, cursor, pollJob, queued, secrets>>
  BY Zenon DEF HashReply
<1> HIDE DEF stale, rest, forked
<1>2. CASE stale
  BY <1>1, <1>2
<1>3. CASE ~ stale /\ rest = {}
  BY <1>1, <1>3 DEF WritePoll
<1>4. CASE ~ stale /\ rest # {}
  <2>1. poll' = [poll EXCEPT ![p].todo = rest, ![p].forked = forked]
    BY <1>1, <1>4
  <2>2. QuietStep /\ UNCHANGED pollJob
    BY <1>1, <1>4 DEF QuietStep, chainVars
  <2> QED BY <1>1, <2>1, <2>2
<1> QED BY <1>2, <1>3, <1>4, <1>1

\* Asking for the next session's hashes changes nothing of what the poll brings.
LEMMA NextHash ==
  ASSUME ScanInv, NEW p \in Polls, poll[p].pc = "hash", NEW rest, NEW forked,
         poll' = [poll EXCEPT ![p].todo = rest, ![p].forked = forked]
  PROVE  LET q == poll'[p] IN
         /\ poll' = [poll EXCEPT ![p] = q]
         /\ {"pc", "started", "to", "snapshot", "logs"} \subseteq DOMAIN q
         /\ q.pc = "hash" /\ q.started = poll[p].started /\ q.to = poll[p].to
         /\ q.snapshot = poll[p].snapshot /\ q.logs = poll[p].logs
<1> DEFINE c == poll[p]
           q == [c EXCEPT !.todo = rest, !.forked = forked]
<1>1. DOMAIN poll = Polls /\ {"pc", "started", "to", "snapshot", "logs"} \subseteq DOMAIN c
  BY DEF ScanInv, PollsFit, PollFits
<1>2. poll' = [poll EXCEPT ![p] = q]
  BY <1>1
<1>3. poll'[p] = q
  BY <1>1, <1>2
<1>4. DOMAIN q = DOMAIN c /\ q.pc = c.pc /\ q.started = c.started /\ q.to = c.to
      /\ q.snapshot = c.snapshot /\ q.logs = c.logs
  BY <1>1
<1> HIDE DEF q
<1> QED BY <1>1, <1>2, <1>3, <1>4

\* What a poll brings when it has its hashes.
LEMMA HashIsSound ==
  ASSUME ScanInv, NEW p \in Polls, poll[p].pc = "hash"
  PROVE  Brought(p, poll[p].snapshot, poll[p].logs, poll[p].to)
  BY DEF ScanInv, PollsFit, PollFits, Brought

\* The hashes keep the invariant.
LEMMA HashKeepsInv ==
  ASSUME ScanInv, NEW p \in Polls, NEW canonical, HashReply(p, canonical) PROVE ScanInv'
<1>1. poll[p].pc = "hash" /\ Brought(p, poll[p].snapshot, poll[p].logs, poll[p].to)
  BY HashCases, HashIsSound
<1>2. CASE GiveUp(p) /\ UNCHANGED <<now, chainVars>>
  BY <1>2, QuietPolls, QuietKeepsInv
<1>3. ASSUME NEW forked, WritePoll(p, poll[p].snapshot, poll[p].logs, poll[p].to, forked)
      PROVE  ScanInv'
  BY <1>1, <1>3, WriteKeepsInv
<1>4. ASSUME NEW rest, NEW forked, QuietStep, UNCHANGED pollJob,
             poll' = [poll EXCEPT ![p].todo = rest, ![p].forked = forked]
      PROVE  ScanInv'
  <2> DEFINE q == poll'[p]
  <2>1. /\ poll' = [poll EXCEPT ![p] = q]
        /\ {"pc", "started", "to", "snapshot", "logs"} \subseteq DOMAIN q
        /\ q.pc = "hash" /\ q.started = poll[p].started /\ q.to = poll[p].to
        /\ q.snapshot = poll[p].snapshot /\ q.logs = poll[p].logs
    BY <1>1, <1>4, NextHash
  <2> HIDE DEF q
  <2>2. PollFits(q, head, deposits)
    BY <1>1, <2>1 DEF PollFits, Brought
  <2>3. PollsFit(poll', head, deposits)
    BY <2>1, <2>2, PollPut
  <2> QED BY <1>4, <2>3, QuietKeepsInv DEF ScanInv
<1> QED BY <1>2, <1>3, <1>4, HashCases

\* Every step keeps the invariant.
LEMMA ScanStep == ScanInv /\ [Next]_vars => ScanInv'
<1> SUFFICES ASSUME ScanInv, [Next]_vars PROVE ScanInv'
  OBVIOUS
<1>1. CASE Tick
  <2>1. now' \in Times
    BY <1>1, SchedulerAssumption DEF Tick, ScanInv, Times
  <2>2. Active' = Active /\ UNCHANGED <<head, deposits, sess, cursor, pollJob, poll, queued, secrets>>
    BY <1>1 DEF Tick, chainVars, factoryVars, Active, ActiveIn
  <2> QED BY <2>1, <2>2 DEF ScanInv
<1>2. ASSUME NEW paying \in SUBSET Sessions, Mine(paying) PROVE ScanInv'
  BY <1>2, MineMoves, ChainKeepsInv
<1>3. ASSUME NEW s \in Sessions, NEW b \in deposits[s], Reorg(s, b) PROVE ScanInv'
  BY <1>3, ReorgMoves, ChainKeepsInv
<1>4. ASSUME NEW s \in Sessions, CreateSession(s) \/ ExpireOnClaim(s) PROVE ScanInv'
  BY <1>4, CreateKeepsInv, ClaimKeepsInv
<1>5. CASE Upgrade \/ PollMisconfigured
  <2>1. CASE Polls = {}
    <3>1. QuietStep /\ poll' = poll
          /\ pollJob' \in {pollJob, FinishFailed(pollJob, "Skip", PollAgain(Active # {}, now), now)}
      BY <1>5, <2>1 DEF Upgrade, PollMisconfigured, QuietStep, chainVars
    <3>2. JobFits(pollJob', Active # {})
      BY <3>1, FailureFits DEF ScanInv, JobFits
    <3> QED BY <3>1, <3>2, QuietKeepsInv DEF ScanInv
  <2>2. CASE Polls # {}
    BY <1>5, <2>2, QuietPolls, QuietKeepsInv
  <2> QED BY <2>1, <2>2
<1>6. ASSUME NEW p \in Polls, PollStep(p) PROVE ScanInv'
  <2>1. CASE StartPoll(p) \/ RpcFails(p)
    BY <2>1, QuietPolls, QuietKeepsInv
  <2> QED BY <1>6, <2>1, HeadKeepsInv, LogsKeepInv, HashKeepsInv DEF PollStep
<1>7. CASE UNCHANGED vars
  <2>1. QuietStep /\ poll' = poll /\ pollJob' = pollJob
    BY <1>7 DEF vars, chainVars, factoryVars, QuietStep
  <2> QED BY <2>1, QuietKeepsInv DEF ScanInv
<1> QED BY <1>1, <1>2, <1>3, <1>4, <1>5, <1>6, <1>7 DEF Next, Environment, User

\* The factory starts with nothing to account for.
LEMMA ScanStart == Init => ScanInv
<1> SUFFICES ASSUME Init PROVE ScanInv
  OBVIOUS
<1>1. now \in Times /\ NoBlock = -1 /\ NoTime = -1
  BY SchedulerAssumption DEF Init, Times, NoBlock, NoTime
<1>2. head \in Blocks /\ (cursor = NoBlock \/ cursor <= SafeHead(head))
      /\ cursor \in Blocks \cup {NoBlock}
  BY ScanAssumption, <1>1 DEF Init, Blocks, SafeHead
<1>3. SessionsFit(sess, deposits, head, queued)
  BY DEF Init, SessionsFit, SessionFits
<1>4. Active = {}
  BY DEF Init, Active, ActiveIn
<1>5. UnscheduledJob \in Jobs /\ UnscheduledJob.until = NoTime
  BY SchedulerAssumption DEF UnscheduledJob, Jobs
<1>6. JobFits(pollJob, Active # {})
  BY <1>4, <1>5 DEF JobFits, Init
<1>7. PollsFit(poll, head, deposits)
  BY IdleFits DEF Init, PollsFit
<1> QED BY <1>1, <1>2, <1>3, <1>6, <1>7 DEF Init, ScanInv

\* So the invariant holds throughout.
LEMMA ScanAlways == Spec => []ScanInv
  BY ScanStart, ScanStep, PTL DEF Spec

\* The state of the scan is always of its type.
THEOREM TypeOKAlways == Spec => []TypeOK
<1>1. ScanInv => TypeOK
  BY DEF ScanInv, TypeOK, SessionsFit, SessionFits, JobFits, PollsFit, PollFits
<1> QED BY <1>1, ScanAlways, PTL

\* Evidence is on the chain and counted once, whatever was reorganised, however often a
\* block was scanned and however many polls overlap: merged_claim_evidence_for_session and
\* the confirmation depth of next_payment_scan_plan.
THEOREM EvidenceSoundAlways == Spec => []EvidenceSound
<1>1. ScanInv => EvidenceSound
  BY DEF ScanInv, SessionsFit, SessionFits, EvidenceSound, Exists
<1> QED BY <1>1, ScanAlways, PTL

\* A spawn job is enqueued for sessions only that were paid in full on the confirmed chain,
\* and for each session whose payment was detected (reconcile_escrow_payments).
THEOREM SpawnIffPaidAlways == Spec => []SpawnIffPaid
<1>1. ScanInv => SpawnIffPaid
  <2> SUFFICES ASSUME ScanInv, NEW s \in Sessions, Exists(s)
               PROVE  /\ s \in queued => Cardinality(deposits[s]) >= Required
                      /\ sess[s].state = "PaymentDetected" => s \in queued
    BY DEF SpawnIffPaid
  <2>1. SessionFits(sess[s], deposits[s], head, s \in queued) /\ deposits[s] \in SUBSET Blocks
    BY DEF ScanInv, SessionsFit
  <2>2. /\ sess[s].evidence \subseteq deposits[s] /\ sess[s].paid = Cardinality(sess[s].evidence)
        /\ (s \in queued => sess[s].paid >= Required)
        /\ (sess[s].state = "PaymentDetected" => s \in queued)
    BY <2>1 DEF SessionFits, Exists
  <2> DEFINE E == sess[s].evidence
             D == deposits[s]
  <2>3. IsFiniteSet(D) /\ E \in SUBSET D /\ Cardinality(D) \in Nat /\ Cardinality(E) \in Nat
    BY <2>1, <2>2, BlocksFinite
  <2>4. Cardinality(E) <= Cardinality(D)
    <3> HIDE DEF E, D
    <3> QED BY <2>3, FS_Subset
  <2> QED BY <2>2, <2>3, <2>4, ScanAssumption
<1> QED BY <1>1, ScanAlways, PTL

\* While a session waits for payment the poll job is scheduled, in every order of creations,
\* late polls, failures and claims (sync_payment_poll_job_in_state, finalize_job_success,
\* finalize_job_failure).
THEOREM PollNeverForgottenAlways == Spec => []PollNeverForgotten
<1>1. ScanInv => PollNeverForgotten
  BY DEF ScanInv, JobFits, PollNeverForgotten
<1> QED BY <1>1, ScanAlways, PTL

(***************************************************************************)
(* What a step may make of a session.                                      *)
(***************************************************************************)
Grown(r2, r) ==
  /\ r \in SessionRecords /\ r2 \in SessionRecords
  /\ r2.last >= r.last /\ r.evidence \subseteq r2.evidence /\ r.state # "Expired"
  /\ NeedsPaymentPoll(r2) => NeedsPaymentPoll(r)

SessionEffect(s) ==
  \/ sess'[s] = sess[s]
  \/ sess[s] = Absent /\ sess'[s] # Absent /\ deposits[s] = {} /\ deposits'[s] = {}
  \/ sess[s] # Absent /\ sess'[s] # Absent /\ Grown(sess'[s], sess[s])

\* A write settles sessions, and these have grown.
LEMMA SettledGrew ==
  ASSUME ScanInv, NEW p \in Polls, NEW snapshot, NEW logs, NEW to, NEW forked,
         Brought(p, snapshot, logs, to), WritePoll(p, snapshot, logs, to, forked), NEW s \in Sessions
  PROVE  SessionEffect(s)
<1>1. CASE sess'[s] = sess[s]
  BY <1>1 DEF SessionEffect
<1>2. CASE Settles(s, snapshot, logs, to, poll[p].started)
  <2> DEFINE r == sess[s]
             r2 == sess'[s]
             found == logs[s]
  <2>1. r \in SessionRecords /\ r.state = "AwaitingPayment" /\ s \in Active
        /\ Learned(r2, r, found, to)
    BY <1>2, SettledRecord
  <2>2. NeedsPaymentPoll(r)
    BY <2>1 DEF Active, ActiveIn
  <2> HIDE DEF r, r2, found
  <2>3. Grown(r2, r)
    BY <2>1, <2>2 DEF Learned, Grown
  <2>4. r # Absent /\ r2 # Absent
    BY <2>3, AbsentIsNoRecord DEF Grown
  <2> QED BY <2>3, <2>4 DEF SessionEffect, r, r2
<1> QED BY <1>1, <1>2, WriteTouches

\* Sessions are created, grow, and are left alone once they expired.
LEMMA SessionsGrow == ASSUME ScanInv, [Next]_vars, NEW s \in Sessions PROVE SessionEffect(s)
<1>1. CASE UNCHANGED sess
  BY <1>1 DEF SessionEffect
<1>2. ASSUME NEW o \in Sessions, CreateSession(o) PROVE SessionEffect(s)
  <2>1. DOMAIN sess = Sessions /\ SessionFits(sess[o], deposits[o], head, o \in queued)
    BY DEF ScanInv, SessionsFit
  <2>2. sess[o] = Absent /\ deposits' = deposits /\ \A t \in Sessions : t # o => sess'[t] = sess[t]
    BY <1>2, <2>1 DEF CreateSession, Exists, chainVars
  <2>3. sess'[o].state = "AwaitingPayment"
    BY <1>2, <2>1 DEF CreateSession
  <2>4. sess'[o] # Absent
    BY <2>3 DEF Absent
  <2> QED BY <2>1, <2>2, <2>4 DEF SessionEffect, SessionFits
<1>3. ASSUME NEW o \in Sessions, ExpireOnClaim(o) PROVE SessionEffect(s)
  <2> DEFINE r == sess[o]
             x == Apply(r, "SessionExpired", now)
             r2 == [x EXCEPT !.upd = now]
  <2>1. DOMAIN sess = Sessions /\ r # Absent /\ r \in SessionRecords /\ now \in Int /\ now \in Times
        /\ r.last \in Blocks \cup {NoBlock} /\ ~ IgnoresExpiry(r, now)
    BY <1>3, SchedulerAssumption
       DEF ScanInv, SessionsFit, SessionFits, ExpireOnClaim, Exists, Times, SessionRecords
  <2>2. sess'[o] = r2 /\ \A t \in Sessions : t # o => sess'[t] = sess[t]
    BY <1>3, <2>1 DEF ExpireOnClaim
  <2>3. x \in SessionRecords /\ x.last = r.last /\ x.evidence = r.evidence /\ x.pay = r.pay
        /\ x.state \in {r.state, "Expired"}
    BY <2>1, ExpiryKeeps
  <2> HIDE DEF x
  <2>4. r2 \in SessionRecords /\ r2.last = r.last /\ r2.evidence = r.evidence /\ r2.pay = r.pay
        /\ r2.state \in {r.state, "Expired"}
    BY <2>1, <2>3 DEF SessionRecords
  <2>5. r.state # "Expired" /\ r.last \in Int
    BY <2>1, CursorIsNumber DEF IgnoresExpiry
  <2> HIDE DEF r, r2
  <2>6. Grown(r2, r) /\ r2 # Absent
    BY <2>1, <2>4, <2>5, AbsentIsNoRecord DEF Grown, NeedsPaymentPoll
  <2> QED BY <2>1, <2>2, <2>6 DEF SessionEffect, r
<1>4. ASSUME NEW p \in Polls, PollStep(p) PROVE SessionEffect(s)
  <2>1. CASE StartPoll(p) \/ RpcFails(p) \/ HeadReply(p)
    BY <1>1, <2>1 DEF StartPoll, RpcFails, HeadReply
  <2>2. CASE LogsReply(p)
    <3>1. poll[p].pc = "logs" /\ Brought(p, Snapshot, FoundLogs(poll[p]), poll[p].to)
      BY <2>2, LogsCases, FoundIsSound
    <3> QED BY <1>1, <2>2, <3>1, LogsCases, SettledGrew DEF QuietStep
  <2>3. ASSUME NEW canonical, HashReply(p, canonical) PROVE SessionEffect(s)
    <3>1. poll[p].pc = "hash" /\ Brought(p, poll[p].snapshot, poll[p].logs, poll[p].to)
      BY <2>3, HashCases, HashIsSound
    <3>2. CASE GiveUp(p) \/ QuietStep
      BY <1>1, <3>2 DEF GiveUp, QuietStep
    <3> QED BY <2>3, <3>1, <3>2, HashCases, SettledGrew
  <2> QED BY <1>4, <2>1, <2>2, <2>3 DEF PollStep
<1>5. CASE Environment \/ Upgrade \/ PollMisconfigured \/ UNCHANGED vars
  BY <1>1, <1>5 DEF Environment, Tick, Mine, Reorg, Upgrade, PollMisconfigured, vars, factoryVars
<1> QED BY <1>2, <1>3, <1>4, <1>5 DEF Next, User

\* What a session learned it keeps: cursors and evidence never move back, and a late poll
\* does not write an expired session again (ensure_payment_scan_guard).
THEOREM LateScansHarmlessAlways == Spec => LateScansHarmless
<1>1. ScanInv /\ [Next]_vars => [Progressing]_vars
  <2> SUFFICES ASSUME ScanInv, [Next]_vars, NEW s \in Sessions, Exists(s)
               PROVE  /\ sess'[s].last >= sess[s].last
                      /\ sess[s].evidence \subseteq sess'[s].evidence
                      /\ sess[s].state = "Expired" => sess'[s] = sess[s]
    BY DEF Progressing
  <2>1. sess[s] \in SessionRecords
    BY DEF ScanInv, SessionsFit, SessionFits, Exists
  <2>2. sess[s].last \in Int
    BY <2>1, CursorIsNumber DEF SessionRecords
  <2>3. SessionEffect(s)
    BY SessionsGrow
  <2> QED BY <2>2, <2>3 DEF SessionEffect, Grown, Exists
<1> QED BY <1>1, ScanAlways, PTL DEF Spec, LateScansHarmless

(***************************************************************************)
(* Nothing is skipped, once a first scan has been written.  Every plan     *)
(* starts behind the cursor of every session it looks for; what was        *)
(* fetched, with what the session knew then, is all that lies before the   *)
(* end of the window; and a session that was created after the plan was    *)
(* made was paid after that window.                                        *)
(***************************************************************************)
Covered(snapshot, logs, to, paidIn) ==
  \A s \in ActiveIn(snapshot) :
    paidIn[s] \cap (0 .. to) \subseteq snapshot[s].evidence \cup logs[s]

PollCovers(q, paidIn, f) ==
  /\ q.pc = "logs" =>
       /\ q.from \in Nat
       /\ \A s \in q.claims : s \in Sessions /\ f[s] # Absent
       /\ \A s \in ActiveIn(f) : s \in q.claims => q.from <= f[s].last + 1
       /\ \A s \in ActiveIn(f) : s \notin q.claims => paidIn[s] \cap (0 .. q.to) = {}
  /\ q.pc = "hash" => Covered(q.snapshot, q.logs, q.to, paidIn)

CoverInv ==
  /\ cursor # NoBlock
  /\ \A s \in Sessions : Exists(s) => sess[s].last # NoBlock
  /\ NoDepositSkipped
  /\ \A p \in Polls : PollCovers(poll[p], deposits, sess)

\* The chain takes nothing out of a window and puts nothing into one.
LEMMA ChainKeepsCover == ASSUME ScanInv, CoverInv, ChainMoves PROVE CoverInv'
<1>1. UNCHANGED <<now, sess, cursor, pollJob, poll, queued, secrets>>
  BY DEF ChainMoves, factoryVars
<1>2. SafeHead(head) \in Int
  BY SafeHeadBelow, ScanAssumption DEF ScanInv, Blocks
<1>3. ASSUME NEW s \in Sessions, NEW to \in Int, to <= SafeHead(head)
      PROVE  deposits'[s] \cap (0 .. to) \subseteq deposits[s] \cap (0 .. to)
  <2> SUFFICES ASSUME NEW b \in deposits'[s], b \in 0 .. to PROVE b \in deposits[s]
    OBVIOUS
  <2>1. b \in Blocks
    BY DEF ChainMoves
  <2>2. b <= SafeHead(head)
    BY <1>2, <1>3
  <2> QED BY <2>1, <2>2 DEF ChainMoves
<1>4. NoDepositSkipped'
  <2> SUFFICES ASSUME NEW s \in Sessions, Exists(s)
               PROVE  deposits'[s] \cap (0 .. sess[s].last) \subseteq sess[s].evidence
    BY <1>1 DEF NoDepositSkipped, Exists
  <2>1. sess[s].last # NoBlock /\ sess[s] \in SessionRecords /\ sess[s].last <= SafeHead(head)
    BY DEF CoverInv, ScanInv, SessionsFit, SessionFits, Exists
  <2>2. sess[s].last \in Int
    BY <2>1, CursorIsNumber DEF SessionRecords
  <2> QED BY <1>3, <2>1, <2>2 DEF CoverInv, NoDepositSkipped
<1>5. ASSUME NEW p \in Polls PROVE PollCovers(poll[p], deposits', sess)
  <2> DEFINE q == poll[p]
  <2>1. PollFits(q, head, deposits) /\ PollCovers(q, deposits, sess)
    BY DEF ScanInv, PollsFit, CoverInv
  <2> HIDE DEF q
  <2>2. q.pc \in {"logs", "hash"} => q.to \in Int /\ q.to <= SafeHead(head)
    BY <2>1, ScanAssumption DEF PollFits, Blocks
  <2>3. \A f : ActiveIn(f) \subseteq Sessions
    BY DEF ActiveIn
  <2>4. PollCovers(q, deposits', sess)
    BY <1>3, <2>1, <2>2, <2>3 DEF PollCovers, Covered
  <2> QED BY <2>4 DEF q
<1> QED BY <1>1, <1>4, <1>5 DEF CoverInv, Exists

\* A poll that waits is not disturbed by what becomes of the sessions.
LEMMA SessionsKeepPlans ==
  ASSUME ScanInv, CoverInv, \A s \in Sessions : SessionEffect(s), UNCHANGED deposits, NEW p \in Polls
  PROVE  PollCovers(poll[p], deposits, sess')
<1> DEFINE q == poll[p]
<1>1. PollCovers(q, deposits, sess) /\ PollFits(q, head, deposits)
  BY DEF CoverInv, ScanInv, PollsFit
<1> HIDE DEF q
<1> SUFFICES ASSUME q.pc = "logs"
             PROVE  /\ \A s \in q.claims : s \in Sessions /\ sess'[s] # Absent
                    /\ \A s \in ActiveIn(sess') : s \in q.claims => q.from <= sess'[s].last + 1
                    /\ \A s \in ActiveIn(sess') : s \notin q.claims => deposits[s] \cap (0 .. q.to) = {}
  BY <1>1 DEF PollCovers, q
<1>2. /\ \A s \in q.claims : s \in Sessions /\ sess[s] # Absent
      /\ \A s \in ActiveIn(sess) : s \in q.claims => q.from <= sess[s].last + 1
      /\ \A s \in ActiveIn(sess) : s \notin q.claims => deposits[s] \cap (0 .. q.to) = {}
  BY <1>1 DEF PollCovers
<1>3. \A s \in q.claims : s \in Sessions /\ sess'[s] # Absent
  BY <1>2 DEF SessionEffect
<1>4. ASSUME NEW s \in ActiveIn(sess')
      PROVE  s \in Sessions
             /\ (\/ s \in ActiveIn(sess) /\ sess'[s] = sess[s]
                 \/ s \in ActiveIn(sess) /\ sess'[s].last >= sess[s].last
                    /\ sess'[s] \in SessionRecords /\ sess[s] \in SessionRecords
                 \/ s \notin q.claims /\ deposits[s] = {})
  <2>1. s \in Sessions /\ sess'[s] # Absent /\ NeedsPaymentPoll(sess'[s])
    BY DEF ActiveIn
  <2> QED BY <1>2, <2>1 DEF SessionEffect, Grown, ActiveIn
<1>5. ASSUME NEW s \in ActiveIn(sess'), s \in q.claims PROVE q.from <= sess'[s].last + 1
  <2>1. CASE s \in ActiveIn(sess) /\ sess'[s] = sess[s]
    BY <1>2, <1>5, <2>1
  <2>2. CASE /\ s \in ActiveIn(sess) /\ sess'[s].last >= sess[s].last
             /\ sess'[s] \in SessionRecords /\ sess[s] \in SessionRecords
    <3>1. sess'[s].last \in Int /\ sess[s].last \in Int
      BY <2>2, CursorIsNumber DEF SessionRecords
    <3>2. q.from \in Int
      BY <1>1 DEF PollCovers
    <3>3. q.from <= sess[s].last + 1
      BY <1>2, <1>5, <2>2
    <3> QED BY <2>2, <3>1, <3>2, <3>3
  <2> QED BY <1>4, <1>5, <2>1, <2>2
<1>6. ASSUME NEW s \in ActiveIn(sess'), s \notin q.claims PROVE deposits[s] \cap (0 .. q.to) = {}
  BY <1>2, <1>4, <1>6
<1> QED BY <1>3, <1>5, <1>6

\* A step that leaves the chain and the sessions alone, of one poll or of all.
LEMMA QuietKeepsCover ==
  ASSUME ScanInv, CoverInv, QuietStep, \A p \in Polls : PollCovers(poll'[p], deposits, sess)
  PROVE  CoverInv'
<1>1. NoDepositSkipped' /\ \A s \in Sessions : Exists(s)' => sess'[s].last # NoBlock
  BY DEF QuietStep, CoverInv, NoDepositSkipped, Exists
<1> QED BY <1>1 DEF QuietStep, CoverInv, Exists

\* A plan covers every session that waits.
LEMMA PlanCovers ==
  ASSUME ScanInv, CoverInv, NEW p \in Polls, HeadReply(p) PROVE CoverInv'
<1>1. CASE Active = {} \/ head < Depth - 1
  <2>1. QuietStep /\ poll' = [poll EXCEPT ![p] = Idle] /\ DOMAIN poll = Polls
    BY <1>1 DEF HeadReply, QuietStep, PollSucceeds, chainVars, ScanInv, PollsFit
  <2>2. PollCovers(Idle, deposits, sess)
    BY DEF PollCovers, Idle
  <2> QED BY <2>1, <2>2, QuietKeepsCover DEF CoverInv
<1>2. CASE ~ (Active = {} \/ head < Depth - 1)
  <2> DEFINE q == poll'[p]
             safe == SafeHead(head)
  <2>1. /\ poll' = [poll EXCEPT ![p] = q] /\ QuietStep /\ q.pc = "logs" /\ q.claims = Active
        /\ q.from = FirstBlock(safe) /\ q.from \in Nat /\ safe \in Nat /\ safe <= MaxHead
    BY <1>2, PlanIs
  <2> HIDE DEF q, safe
  <2>2. \A s \in Active : sess[s].last # NoBlock => q.from <= sess[s].last + 1
    BY <2>1, FirstBlockFits
  <2>3. \A s \in Active : s \in Sessions /\ sess[s] # Absent /\ sess[s].last # NoBlock
    BY DEF Active, ActiveIn, CoverInv, Exists
  <2>4. PollCovers(q, deposits, sess)
    BY <2>1, <2>2, <2>3 DEF PollCovers, Active
  <2>5. DOMAIN poll = Polls
    BY DEF ScanInv, PollsFit
  <2> QED BY <2>1, <2>4, <2>5, QuietKeepsCover DEF CoverInv
<1> QED BY <1>1, <1>2

\* What is fetched, with what is known already, is all there is up to the window's end.
LEMMA FoundCovers ==
  ASSUME ScanInv, CoverInv, NEW p \in Polls, poll[p].pc = "logs"
  PROVE  Covered(Snapshot, FoundLogs(poll[p]), poll[p].to, deposits)
<1> DEFINE q == poll[p]
<1>1. PollCovers(q, deposits, sess) /\ q.to \in Blocks /\ q.pc = "logs"
  BY DEF ScanInv, CoverInv, PollsFit, PollFits
<1> SUFFICES ASSUME NEW s \in ActiveIn(Snapshot), NEW b \in deposits[s], b \in 0 .. q.to
             PROVE  b \in Snapshot[s].evidence \cup FoundLogs(q)[s]
  BY DEF Covered
<1>2. s \in Active /\ s \in Sessions /\ Snapshot[s] = sess[s] /\ sess[s] # Absent
  BY SnapshotIsNow DEF Active, ActiveIn
<1>3. CASE s \notin q.claims
  BY <1>1, <1>2, <1>3 DEF PollCovers, Active
<1>4. CASE s \in q.claims
  <2>1. q.from <= sess[s].last + 1 /\ q.from \in Nat
    BY <1>1, <1>2, <1>4 DEF PollCovers, Active
  <2>2. sess[s].last \in Int
    BY <1>2, CursorIsNumber DEF ScanInv, SessionsFit, SessionFits, SessionRecords
  <2>3. q.to \in Nat /\ b \in Nat /\ b <= q.to
    BY <1>1, ScanAssumption DEF Blocks
  <2>4. CASE b <= sess[s].last
    <3>1. b \in 0 .. sess[s].last
      BY <2>2, <2>3, <2>4
    <3> QED BY <1>2, <3>1 DEF CoverInv, NoDepositSkipped, Exists
  <2>5. CASE ~ (b <= sess[s].last)
    <3>1. b \in q.from .. q.to
      BY <2>1, <2>2, <2>3, <2>5
    <3> QED BY <1>2, <1>4, <3>1 DEF FoundLogs
  <2> QED BY <2>4, <2>5
<1> QED BY <1>3, <1>4

\* A write moves a session's cursor over what was covered only.
LEMMA WriteKeepsCover ==
  ASSUME ScanInv, CoverInv, NEW p \in Polls, NEW snapshot, NEW logs, NEW to, NEW forked,
         Brought(p, snapshot, logs, to), Covered(snapshot, logs, to, deposits),
         WritePoll(p, snapshot, logs, to, forked)
  PROVE  CoverInv'
<1>1. /\ UNCHANGED <<now, head, deposits>> /\ cursor' = to
      /\ poll' = [poll EXCEPT ![p] = Idle] /\ DOMAIN poll = Polls
  BY WriteTouches DEF ScanInv, PollsFit
<1>2. to \in Nat /\ to # NoBlock
  BY ScanAssumption DEF Brought, Blocks, NoBlock
<1>3. \A s \in Sessions : SessionEffect(s)
  BY SettledGrew
<1>4. ASSUME NEW s \in Sessions, sess'[s] # Absent
      PROVE  /\ sess'[s].last # NoBlock
             /\ deposits[s] \cap (0 .. sess'[s].last) \subseteq sess'[s].evidence
  <2>1. CASE sess'[s] = sess[s]
    BY <1>4, <2>1 DEF CoverInv, NoDepositSkipped, Exists
  <2>2. CASE Settles(s, snapshot, logs, to, poll[p].started)
    <3> DEFINE r == sess[s]
               r2 == sess'[s]
               found == logs[s]
    <3>1. Learned(r2, r, found, to) /\ r \in SessionRecords /\ s \in ActiveIn(snapshot)
          /\ snapshot[s] = r
      BY <2>2, SettledRecord DEF Settles
    <3>2. deposits[s] \cap (0 .. to) \subseteq r.evidence \cup found
      BY <3>1 DEF Covered
    <3>3. r # Absent
      BY <3>1, AbsentIsNoRecord
    <3>4. deposits[s] \cap (0 .. r.last) \subseteq r.evidence
      BY <3>3 DEF CoverInv, NoDepositSkipped, Exists
    <3> HIDE DEF r, r2, found
    <3>5. r2.last \in {r.last, to} /\ r2.evidence = r.evidence \cup found /\ r2.last >= to
      BY <3>1 DEF Learned
    <3>6. r.last \in Int
      BY <3>1, CursorIsNumber DEF SessionRecords
    <3>7. r2.last # NoBlock
      BY <1>2, <3>5, <3>6 DEF NoBlock
    <3>8. deposits[s] \cap (0 .. r2.last) \subseteq r2.evidence
      <4>1. CASE r2.last = to
        BY <3>2, <3>5, <4>1
      <4>2. CASE r2.last = r.last
        BY <3>4, <3>5, <4>2
      <4> QED BY <3>5, <4>1, <4>2
    <3> QED BY <3>7, <3>8 DEF r2
  <2> QED BY <2>1, <2>2, WriteTouches
<1>5. ASSUME NEW o \in Polls PROVE PollCovers(poll'[o], deposits, sess')
  <2>1. CASE o = p
    <3>1. poll'[o] = Idle
      BY <1>1, <2>1
    <3> QED BY <3>1 DEF PollCovers, Idle
  <2>2. CASE o # p
    <3>1. poll'[o] = poll[o]
      BY <1>1, <2>2
    <3> QED BY <1>1, <1>3, <3>1, SessionsKeepPlans
  <2> QED BY <2>1, <2>2
<1> QED BY <1>1, <1>2, <1>4, <1>5 DEF CoverInv, NoDepositSkipped, Exists

\* The logs keep every session covered.
LEMMA LogsKeepCover == ASSUME ScanInv, CoverInv, NEW p \in Polls, LogsReply(p) PROVE CoverInv'
<1>1. poll[p].pc = "logs" /\ Brought(p, Snapshot, FoundLogs(poll[p]), poll[p].to)
  BY LogsCases, FoundIsSound
<1>2. Covered(Snapshot, FoundLogs(poll[p]), poll[p].to, deposits)
  BY <1>1, FoundCovers
<1>3. CASE WritePoll(p, Snapshot, FoundLogs(poll[p]), poll[p].to, {})
  BY <1>1, <1>2, <1>3, WriteKeepsCover
<1>4. ASSUME NEW todo, poll' = [poll EXCEPT ![p] = HashPoll(poll[p], todo)], QuietStep
      PROVE  CoverInv'
  <2> DEFINE q == HashPoll(poll[p], todo)
  <2>1. q.pc = "hash" /\ q.to = poll[p].to /\ q.snapshot = Snapshot /\ q.logs = FoundLogs(poll[p])
    BY DEF HashPoll
  <2>2. DOMAIN poll = Polls /\ poll' = [poll EXCEPT ![p] = q]
    BY <1>4 DEF ScanInv, PollsFit
  <2> HIDE DEF q
  <2>3. PollCovers(q, deposits, sess)
    BY <1>2, <2>1 DEF PollCovers
  <2> QED BY <1>4, <2>2, <2>3, QuietKeepsCover DEF CoverInv
<1> QED BY <1>3, <1>4, LogsCases

\* So do the hashes.
LEMMA HashKeepsCover ==
  ASSUME ScanInv, CoverInv, NEW p \in Polls, NEW canonical, HashReply(p, canonical) PROVE CoverInv'
<1>1. poll[p].pc = "hash" /\ Brought(p, poll[p].snapshot, poll[p].logs, poll[p].to)
  BY HashCases, HashIsSound
<1>2. Covered(poll[p].snapshot, poll[p].logs, poll[p].to, deposits)
  BY <1>1 DEF CoverInv, PollCovers
<1>3. CASE GiveUp(p) /\ UNCHANGED <<now, chainVars>>
  <2>1. QuietStep /\ \A o \in Polls : poll'[o] = poll[o] \/ poll'[o].pc \in {"idle", "head"}
    BY <1>3, QuietPolls
  <2>2. \A o \in Polls : PollCovers(poll'[o], deposits, sess)
    BY <2>1 DEF CoverInv, PollCovers
  <2> QED BY <2>1, <2>2, QuietKeepsCover
<1>4. ASSUME NEW forked, WritePoll(p, poll[p].snapshot, poll[p].logs, poll[p].to, forked)
      PROVE  CoverInv'
  BY <1>1, <1>2, <1>4, WriteKeepsCover
<1>5. ASSUME NEW rest, NEW forked, QuietStep,
             poll' = [poll EXCEPT ![p].todo = rest, ![p].forked = forked]
      PROVE  CoverInv'
  <2> DEFINE q == poll'[p]
  <2>1. /\ poll' = [poll EXCEPT ![p] = q] /\ q.pc = "hash" /\ q.to = poll[p].to
        /\ q.snapshot = poll[p].snapshot /\ q.logs = poll[p].logs
    BY <1>1, <1>5, NextHash
  <2> HIDE DEF q
  <2>2. PollCovers(q, deposits, sess) /\ DOMAIN poll = Polls
    BY <1>2, <2>1 DEF PollCovers, ScanInv, PollsFit
  <2> QED BY <1>5, <2>1, <2>2, QuietKeepsCover DEF CoverInv
<1> QED BY <1>3, <1>4, <1>5, HashCases

\* The sessions' own steps leave every other session, and every plan, covered.
LEMMA UserKeepsCover ==
  ASSUME ScanInv, CoverInv, NEW s \in Sessions, CreateSession(s) \/ ExpireOnClaim(s), [Next]_vars
  PROVE  CoverInv'
<1>1. \A t \in Sessions : SessionEffect(t)
  BY SessionsGrow
<1>2. UNCHANGED <<deposits, cursor, poll>> /\ DOMAIN sess = Sessions
  BY DEF CreateSession, ExpireOnClaim, chainVars, ScanInv, SessionsFit
<1>3. \A t \in Sessions : t # s => sess'[t] = sess[t]
  BY <1>2 DEF CreateSession, ExpireOnClaim
<1>4. sess'[s].last # NoBlock /\ deposits[s] \cap (0 .. sess'[s].last) \subseteq sess'[s].evidence
  <2>1. CASE CreateSession(s)
    <3>1. sess'[s].last = cursor /\ ~ Exists(s)
      BY <1>2, <2>1 DEF CreateSession
    <3>2. deposits[s] = {}
      BY <3>1 DEF ScanInv, SessionsFit, SessionFits, Exists
    <3> QED BY <3>1, <3>2 DEF CoverInv
  <2>2. CASE ExpireOnClaim(s)
    <3> DEFINE x == Apply(sess[s], "SessionExpired", now)
    <3>1. Exists(s) /\ sess[s] \in SessionRecords /\ now \in Int
      BY <2>2, SchedulerAssumption
         DEF ExpireOnClaim, Exists, ScanInv, SessionsFit, SessionFits, Times
    <3>2. x \in SessionRecords /\ x.last = sess[s].last /\ x.evidence = sess[s].evidence
      BY <3>1, ExpiryKeeps
    <3>3. sess'[s] = [x EXCEPT !.upd = now]
      BY <1>2, <2>2 DEF ExpireOnClaim
    <3> HIDE DEF x
    <3>4. sess'[s].last = sess[s].last /\ sess'[s].evidence = sess[s].evidence
      BY <3>2, <3>3 DEF SessionRecords
    <3> QED BY <3>1, <3>4 DEF CoverInv, NoDepositSkipped
  <2> QED BY <2>1, <2>2
<1>5. \A p \in Polls : PollCovers(poll[p], deposits, sess')
  BY <1>1, <1>2, SessionsKeepPlans
<1> QED BY <1>2, <1>3, <1>4, <1>5 DEF CoverInv, NoDepositSkipped, Exists

\* Every step keeps every session covered.
LEMMA CoverStep == ScanInv /\ CoverInv /\ [Next]_vars => CoverInv'
<1> SUFFICES ASSUME ScanInv, CoverInv, [Next]_vars PROVE CoverInv'
  OBVIOUS
<1>1. CASE Tick \/ UNCHANGED vars
  BY <1>1 DEF Tick, vars, chainVars, factoryVars, CoverInv, NoDepositSkipped, Exists
<1>2. ASSUME NEW paying \in SUBSET Sessions, Mine(paying) PROVE CoverInv'
  BY <1>2, MineMoves, ChainKeepsCover
<1>3. ASSUME NEW s \in Sessions, NEW b \in deposits[s], Reorg(s, b) PROVE CoverInv'
  BY <1>3, ReorgMoves, ChainKeepsCover
<1>4. ASSUME NEW s \in Sessions, CreateSession(s) \/ ExpireOnClaim(s) PROVE CoverInv'
  BY <1>4, UserKeepsCover
<1>5. CASE PollMisconfigured
  <2>1. QuietStep /\ poll' = poll
    BY <1>5 DEF PollMisconfigured, QuietStep, chainVars
  <2> QED BY <2>1, QuietKeepsCover DEF CoverInv
<1>6. ASSUME NEW p \in Polls, StartPoll(p) \/ RpcFails(p) \/ Upgrade PROVE CoverInv'
  <2>1. QuietStep /\ \A o \in Polls : poll'[o] = poll[o] \/ poll'[o].pc \in {"idle", "head"}
    BY <1>6, QuietPolls
  <2>2. \A o \in Polls : PollCovers(poll'[o], deposits, sess)
    BY <2>1 DEF CoverInv, PollCovers
  <2> QED BY <2>1, <2>2, QuietKeepsCover
<1>7. CASE Upgrade
  BY <1>6, <1>7 DEF Upgrade
<1>8. ASSUME NEW p \in Polls, PollStep(p) PROVE CoverInv'
  BY <1>6, <1>8, PlanCovers, LogsKeepCover, HashKeepsCover DEF PollStep
<1> QED BY <1>1, <1>2, <1>3, <1>4, <1>5, <1>7, <1>8 DEF Next, Environment, User

\* The scan never runs past a deposit: whatever was paid into a session's claim in a block
\* that the session's cursor has passed is evidence, under overlapping and lost polls,
\* sessions created during a fetch and half-written reconciliations (next_payment_scan_plan,
\* reconcile_escrow_payments).  The factory is one that has scanned before: without a cursor
\* of its own a session's first window starts at the cursor that others have moved.
THEOREM NoDepositSkippedAlways == InitialCursor # NoBlock /\ Spec => []NoDepositSkipped
<1>1. InitialCursor # NoBlock /\ Init => CoverInv
  <2> SUFFICES ASSUME InitialCursor # NoBlock, Init PROVE CoverInv
    OBVIOUS
  <2>1. \A s \in Sessions : sess[s] = Absent
    BY DEF Init
  <2>2. \A p \in Polls : poll[p] = Idle
    BY DEF Init
  <2>3. cursor # NoBlock
    BY DEF Init
  <2>4. PollCovers(Idle, deposits, sess)
    BY DEF PollCovers, Idle
  <2> QED BY <2>1, <2>2, <2>3, <2>4 DEF CoverInv, NoDepositSkipped, Exists
<1>2. CoverInv => NoDepositSkipped
  BY DEF CoverInv
<1> QED BY <1>1, <1>2, ScanAlways, CoverStep, PTL DEF Spec

=============================================================================
