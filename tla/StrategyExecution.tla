------------------------- MODULE StrategyExecution -------------------------
(***************************************************************************)
(* Executing a strategy: a plan of calls is stored, sent call by call and  *)
(* booked once its receipts are known (tools.rs, features/evm.rs,          *)
(* scheduler.rs, strategy/, storage/sqlite.rs).                            *)
(*                                                                         *)
(* Two parties work on the stored rows across their awaits: the turn that  *)
(* sends, and the Reconcile job that reads receipts.  The lease keeps them *)
(* apart until one outlives it.  Progress is written by comparing the      *)
(* stored row with the snapshot; here a snapshot is fresh as long as       *)
(* nobody wrote the row.                                                   *)
(***************************************************************************)
EXTENDS Naturals, Sequences, FiniteSetsExt

CONSTANTS CallCount,          \* the calls of an "enter" and of an "exit" action of one template
          Budget,             \* template_budget_wei, in units of one entry
          StreakLimit,        \* AUTO_DEACTIVATE_DETERMINISTIC_STREAK
          QuarantineLimit,    \* failure_quarantine_threshold
          ScanLimit,          \* PENDING_STRATEGY_EXECUTION_SCAN_LIMIT
          MaxStrategyTurns,   \* bound: turns
          MaxExecutions,      \* bound: rows created
          MaxSends,           \* bound: transactions sent
          MaxStrategyLapses,  \* bound: jobs that begin while another is under way
          MaxAdmin            \* bound: changes of the template by its operator

ASSUME StrategyAssumption ==
  /\ CallCount \in [{"enter", "exit"} -> Nat \ {0}] /\ Budget \in Nat /\ StreakLimit \in Nat \ {0}
  /\ QuarantineLimit \in Nat \ {0} /\ ScanLimit \in Nat /\ MaxStrategyTurns \in Nat
  /\ MaxExecutions \in Nat /\ MaxSends \in Nat
  /\ MaxStrategyLapses \in Nat /\ MaxAdmin \in Nat

VARIABLES rows,      \* pending_strategy_executions
          created,   \* their ids in the order of creation
          book,      \* exposure, budget spent, quarantine failures, outcome streak
          template,  \* status, activation, revocation and kill switch; fit: fresh and compiles
          policy,    \* autonomous_execution_enabled and require_simulation_first
          runner,    \* by turn: whether it is under way, what it simulated, the call it sends
          scan,      \* the Reconcile jobs: their snapshot, what is left of it, what is fresh
          txs,       \* external: the transactions sent
          trail      \* history: bookings by execution, an exit begun without exposure, counts

strategyVars == <<rows, created, book, template, policy, runner, scan, txs, trail>>

StrategyTurns == 1..MaxStrategyTurns
Plans         == {"enter", "exit"}
Ids           == StrategyTurns \X Plans
Calls         == 1 .. Max({CallCount[p] : p \in Plans})
CallsOf(id)   == 1 .. CallCount[id[2]]
Scans         == 1..2
NoId          == <<0, "none">>

CallStates == {"Unattempted", "Submitted", "Confirmed", "Reverted", "Dropped"}
RowStates  == {"None", "Pending", "Confirmed", "PartialFailure", "Reverted", "Dropped"}
Rows       == {[state |-> "None", call |-> <<>>, tx |-> <<>>]} \cup
  UNION {[state : RowStates, call : [1..CallCount[p] -> CallStates], tx : [1..CallCount[p] -> 0..MaxSends]]
           : p \in Plans}

NoRow == [state |-> "None", call |-> <<>>, tx |-> <<>>]

NewRow(id) ==
  [state |-> "Pending", call |-> [i \in CallsOf(id) |-> "Unattempted"], tx |-> [i \in CallsOf(id) |-> 0]]

NotSending == [live |-> FALSE, simulated |-> {}, id |-> NoId, row |-> NoRow, fresh |-> FALSE]
NoScan     == [on |-> FALSE, left |-> {}, fresh |-> {}, snap |-> [d \in Ids |-> NoRow]]

StrategyTypeOK ==
  /\ rows \in [Ids -> Rows] /\ created \in Seq(Ids)
  /\ book \in [exposure : Nat, spent : Nat, failures : 0..QuarantineLimit, streak : 0..StreakLimit]
  /\ template \in [status : {"Active", "Deprecated", "Revoked"}, enabled : BOOLEAN,
                   revoked : BOOLEAN, killed : BOOLEAN, fit : BOOLEAN]
  /\ policy \in [autonomous : BOOLEAN, simulate : BOOLEAN]
  /\ runner \in [StrategyTurns -> [live : BOOLEAN, simulated : SUBSET Plans, id : Ids \cup {NoId},
                                   row : Rows, fresh : BOOLEAN]]
  /\ scan \in [Scans -> [on : BOOLEAN, left : SUBSET Ids, fresh : SUBSET Ids, snap : [Ids -> Rows]]]
  /\ txs \in Seq([id : Ids, call : Calls, status : {"pending", "mined", "reverted"}, raced : BOOLEAN])
  /\ trail \in [booked : [Ids -> Nat], blind : BOOLEAN, lapses : 0..MaxStrategyLapses,
                admin : 0..MaxAdmin, turns : 0..MaxStrategyTurns]

StrategyInit ==
  /\ rows = [d \in Ids |-> NoRow] /\ created = <<>>
  /\ book = [exposure |-> 0, spent |-> 0, failures |-> 0, streak |-> 0]
  /\ template = [status |-> "Active", enabled |-> TRUE, revoked |-> FALSE, killed |-> FALSE, fit |-> TRUE]
  /\ policy \in {[autonomous |-> TRUE, simulate |-> TRUE], [autonomous |-> TRUE, simulate |-> FALSE],
                 [autonomous |-> FALSE, simulate |-> TRUE]}
  /\ runner = [t \in StrategyTurns |-> NotSending] /\ scan = [r \in Scans |-> NoScan]
  /\ txs = <<>>
  /\ trail = [booked |-> [d \in Ids |-> 0], blind |-> FALSE, lapses |-> 0, admin |-> 0,
              turns |-> 0]

(***************************************************************************)
(* The stored rows.                                                        *)
(***************************************************************************)
\* A write makes every other snapshot of the row stale.
SpoilRunners(runners, id) ==
  [t \in StrategyTurns |-> IF runners[t].id = id THEN [runners[t] EXCEPT !.fresh = FALSE] ELSE runners[t]]

SpoilScans(scans, id) == [r \in Scans |-> [scans[r] EXCEPT !.fresh = @ \ {id}]]

\* A mutant of Bookable: the stored row is not looked at again.
BookableAlways(id) == TRUE

\* The two transactions that book an outcome look at the state of the stored row, not at the
\* snapshot; the two flags of the row are set together with its terminal state.
Bookable(id) == rows[id].state = "Pending"

(***************************************************************************)
(* The book.                                                               *)
(***************************************************************************)
\* Quarantine and statistics; a mere refusal (record_strategy_failure) counts for the former.
Refused(b) == [b EXCEPT !.failures = Min({@ + 1, QuarantineLimit})]

Failed(b, deterministic) ==
  [Refused(b) EXCEPT !.streak = IF deterministic THEN Min({@ + 1, StreakLimit}) ELSE 0]

Deactivated(tmpl, b) == [tmpl EXCEPT !.enabled = @ /\ b.streak < StreakLimit]

\* The release time of a quarantine is not looked at once the count has reached the limit.
Quarantined == book.failures >= QuarantineLimit

\* Exposure, budget and statistics; the quarantine is deleted.
Succeeded(b, plan) ==
  [exposure |-> IF plan = "enter" THEN b.exposure + 1 ELSE b.exposure - 1,
   spent    |-> IF plan = "enter" THEN b.spent + 1 ELSE b.spent,
   failures |-> 0, streak |-> 0]

\* update_exposure_after_exit: there must be an exposure to leave.
CanSucceed(b, plan) == plan = "exit" => b.exposure > 0

\* The exposure recomputed from the confirmed rows in the order of their creation; an exit
\* before the first entry is passed over, one that exceeds the amount is an error.
ObserveRow(all, seen, id) ==
  IF seen.error \/ all[id].state # "Confirmed" THEN seen
  ELSE IF id[2] = "enter" THEN [seen EXCEPT !.known = TRUE, !.amount = @ + 1]
  ELSE IF ~seen.known THEN seen
  ELSE IF seen.amount = 0 THEN [seen EXCEPT !.error = TRUE]
  ELSE [seen EXCEPT !.amount = @ - 1]

ObserveFirst(all) ==
  LET first[n \in 0..Len(created)] ==
        IF n = 0 THEN [known |-> FALSE, amount |-> 0, error |-> FALSE]
        ELSE ObserveRow(all, first[n - 1], created[n])
  IN  first

FoldObserved(all) == ObserveFirst(all)[Len(created)]

RepairExposure(b, all) ==
  LET seen == FoldObserved(all)
  IN  IF seen.known /\ ~seen.error THEN [b EXCEPT !.exposure = seen.amount] ELSE b

\* A template that is stale or does not compile is disabled, any other active one enabled.
ReviewTemplate(tmpl) ==
  [tmpl EXCEPT !.enabled = tmpl.fit /\ (@ \/ tmpl.status = "Active")]

(***************************************************************************)
(* What becomes of a row: the row, the book and the template after it.     *)
(***************************************************************************)
Untouched(id) ==
  [wrote |-> FALSE, row |-> rows[id], book |-> book, template |-> template, booked |-> 0, error |-> FALSE]

Progress(id, row) == [Untouched(id) EXCEPT !.wrote = TRUE, !.row = row]

\* apply_terminal_strategy_failure, fail_strategy_execution_atomically
FailureBooked(id, row, deterministic) ==
  LET b == Failed(book, deterministic)
  IN  IF Bookable(id)
      THEN [Progress(id, row) EXCEPT !.book = b, !.template = Deactivated(template, b), !.booked = 1]
      ELSE Untouched(id)

\* apply_confirmed_strategy_execution, confirm_strategy_execution_atomically
SuccessBooked(id, row) ==
  CASE ~CanSucceed(book, id[2]) -> [Untouched(id) EXCEPT !.error = TRUE]
    [] CanSucceed(book, id[2]) /\ Bookable(id) ->
         [Progress(id, row) EXCEPT !.book = Succeeded(book, id[2]), !.booked = 1]
    [] OTHER -> Untouched(id)

Store(id, out) ==
  /\ rows' = [rows EXCEPT ![id] = out.row]
  /\ trail' = [trail EXCEPT !.booked[id] = @ + out.booked]

(***************************************************************************)
(* The turn: simulate, execute, send.                                      *)
(***************************************************************************)
\* The lease keeps jobs apart; one that outlived its lease may still be under way.
Overlapped ==
  (\E t \in StrategyTurns : runner[t].live) \/ (\E r \in Scans : scan[r].on)

JobBegins(history) ==
  LET lapses == trail.lapses + (IF Overlapped THEN 1 ELSE 0)
  IN  lapses <= MaxStrategyLapses /\ trail' = [history EXCEPT !.lapses = lapses]

BeginStrategyTurn(t) ==
  /\ t = trail.turns + 1
  /\ JobBegins([trail EXCEPT !.turns = t])
  /\ runner' = [runner EXCEPT ![t].live = TRUE]
  /\ UNCHANGED <<rows, created, book, template, policy, scan, txs>>

MayAct(t) == runner[t].live /\ runner[t].id = NoId

EndStrategyTurn(t) ==
  /\ MayAct(t)
  /\ runner' = [runner EXCEPT ![t] = NotSending]
  /\ UNCHANGED <<rows, created, book, template, policy, scan, txs, trail>>

\* simulate_strategy_action: compiled and called; the validation's verdict does not matter.
Simulate(t, plan) ==
  /\ MayAct(t) /\ policy.simulate /\ plan \notin runner[t].simulated
  /\ runner' = [runner EXCEPT ![t].simulated = @ \cup {plan}]
  /\ UNCHANGED <<rows, created, book, template, policy, scan, txs, trail>>

\* validate_execution_plan, as far as it depends on stored state.
Valid(plan) ==
  /\ template.status = "Active" /\ template.enabled /\ ~template.revoked /\ ~template.killed
  /\ plan = "enter" => book.spent < Budget

\* The intent does not compile, or the plan is not valid.
ExecutionRefused(t, plan) ==
  /\ MayAct(t) /\ policy.autonomous /\ ~Quarantined
  /\ template.fit => ~Valid(plan)
  /\ book' = Refused(book)
  /\ UNCHANGED <<rows, created, template, policy, runner, scan, txs, trail>>

\* enforce_strategy_execution_policy; its limits on value, reserves and concentration may
\* refuse as well, which changes nothing.
PolicyAllows(t, plan) == policy.simulate => plan \in runner[t].simulated

\* A mutant of NextCall: it starts from the first call whatever was sent.
NextCallFirst(row) == 1

\* The first call without a transaction hash; 0 when there is none.
NextCall(row) ==
  LET unsent == {i \in DOMAIN row.tx : row.tx[i] = 0} IN IF unsent = {} THEN 0 ELSE Min(unsent)

\* The row of this turn and plan is inserted, or taken up again while it is pending; then the
\* first call is sent.  When all are sent the row is only written once more.
Execute(t, plan) ==
  LET id  == <<t, plan>>
      new == rows[id].state = "None"
      row == IF new THEN NewRow(id) ELSE rows[id]
  IN  /\ MayAct(t) /\ policy.autonomous /\ ~Quarantined /\ template.fit /\ Valid(plan)
      /\ PolicyAllows(t, plan) /\ row.state = "Pending"
      /\ rows' = [rows EXCEPT ![id] = row]
      /\ new => Len(created) < MaxExecutions
      /\ created' = IF new THEN Append(created, id) ELSE created
      /\ trail' = [trail EXCEPT !.blind = @ \/ (new /\ plan = "exit" /\ book.exposure = 0)]
      /\ IF NextCall(row) = 0
         THEN scan' = SpoilScans(scan, id) /\ UNCHANGED runner
         ELSE /\ runner' = [runner EXCEPT ![t] = [@ EXCEPT !.id = id, !.row = row, !.fresh = TRUE]]
              /\ UNCHANGED scan
      /\ UNCHANGED <<book, template, policy, txs>>

Sent(t, raced) ==
  Append(txs, [id |-> runner[t].id, call |-> NextCall(runner[t].row), status |-> "pending",
               raced |-> raced])

Idle(t) == [runner[t] EXCEPT !.id = NoId, !.row = NoRow, !.fresh = FALSE]

\* The hash is stored if the snapshot is fresh, and the next call is sent; a lost race ends
\* the execution, and the hash of what was sent is not recorded.
SendSucceeds(t) ==
  LET id  == runner[t].id
      i   == NextCall(runner[t].row)
      row == [runner[t].row EXCEPT !.call[i] = "Submitted", !.tx[i] = Len(txs) + 1]
  IN  /\ id # NoId /\ Len(txs) < MaxSends
      /\ txs' = Sent(t, ~runner[t].fresh)
      /\ IF runner[t].fresh
         THEN /\ rows' = [rows EXCEPT ![id] = row]
              /\ runner' = [runner EXCEPT ![t] = IF NextCall(row) = 0 THEN Idle(t)
                                                  ELSE [@ EXCEPT !.row = row]]
              /\ scan' = SpoilScans(scan, id)
         ELSE runner' = [runner EXCEPT ![t] = Idle(t)] /\ UNCHANGED <<rows, scan>>
      /\ UNCHANGED <<created, book, template, policy, trail>>

\* A call that cannot be encoded or sent ends the execution, whether or not it reached the chain.
SendFails(t, arrived) ==
  LET id  == runner[t].id
      i   == NextCall(runner[t].row)
      row == [runner[t].row EXCEPT !.call[i] = "Dropped",
                !.state = IF \A j \in CallsOf(id) : runner[t].row.tx[j] = 0 THEN "Dropped" ELSE "PartialFailure"]
  IN  /\ id # NoId
      /\ arrived => Len(txs) < MaxSends
      /\ txs' = IF arrived THEN Sent(t, FALSE) ELSE txs
      /\ \E deterministic \in BOOLEAN :
           LET out == FailureBooked(id, row, deterministic)
           IN  /\ Store(id, out)
               /\ book' = out.book /\ template' = out.template
               /\ scan' = IF out.wrote THEN SpoilScans(scan, id) ELSE scan
      /\ runner' = [runner EXCEPT ![t] = Idle(t)]
      /\ UNCHANGED <<created, policy>>

(***************************************************************************)
(* The Reconcile job.                                                      *)
(***************************************************************************)
\* External: a transaction is mined, or it reverts.  One that is dropped stays pending.
Mined(k) ==
  /\ txs[k].status = "pending"
  /\ \E s \in {"mined", "reverted"} : txs' = [txs EXCEPT ![k].status = s]
  /\ UNCHANGED <<rows, created, book, template, policy, runner, scan, trail>>

\* The rows that are due, at most so many, are read at once.
BeginReconcile(r, due) ==
  /\ ~scan[r].on
  /\ r = 2 => scan[1].on
  /\ JobBegins(trail)
  /\ due \subseteq {d \in Ids : rows[d].state = "Pending"} /\ Cardinality(due) <= ScanLimit
  /\ IF due = {}
     THEN /\ template' = ReviewTemplate(template) /\ book' = RepairExposure(book, rows)
          /\ UNCHANGED scan
     ELSE /\ scan' = [scan EXCEPT ![r] = [on |-> TRUE, left |-> due, fresh |-> due,
                        snap |-> [d \in Ids |-> IF d \in due THEN rows[d] ELSE NoRow]]]
          /\ UNCHANGED <<template, book>>
  /\ UNCHANGED <<rows, created, policy, runner, txs>>

\* The row is done; after the last one the templates are reviewed and the exposure is
\* recomputed.  An error ends the job.
Conclude(r, id, out) ==
  LET now   == [scan[r] EXCEPT !.left = @ \ {id}, !.fresh = @ \ {id}, !.snap[id] = NoRow]
      last  == now.left = {} /\ ~out.error
      scans == IF out.wrote THEN SpoilScans(scan, id) ELSE scan
  IN  /\ Store(id, out)
      /\ scan' = [scans EXCEPT ![r] = IF last \/ out.error THEN NoScan ELSE now]
      /\ runner' = IF out.wrote THEN SpoilRunners(runner, id) ELSE runner
      /\ book' = IF last THEN RepairExposure(out.book, rows') ELSE out.book
      /\ template' = IF last THEN ReviewTemplate(out.template) ELSE out.template
      /\ UNCHANGED <<created, policy, txs>>

\* What a call may become: an unattempted one expires with the execution, a submitted one is
\* confirmed or reverted by its receipt, or dropped when there has been none for too long.
\* A receipt may be missing, too recent, or read before the transaction was mined.
Observed(row, i, late) ==
  CASE row.call[i] = "Unattempted" -> {IF late THEN "Dropped" ELSE "Unattempted"}
    [] row.call[i] = "Submitted" ->
         {"Submitted"} \cup (IF late THEN {"Dropped"} ELSE {})
           \cup (CASE txs[row.tx[i]].status = "mined" -> {"Confirmed"}
                   [] txs[row.tx[i]].status = "reverted" -> {"Reverted"}
                   [] OTHER -> {})
    [] OTHER -> {row.call[i]}

\* Reading the receipts of the calls before the n-th one.
Receipts(row, n, late) ==
  LET Found(i) == IF i < n \/ row.call[i] = "Unattempted" THEN Observed(row, i, late)
                  ELSE {row.call[i]}
  IN  {f \in [DOMAIN row.call -> UNION {Found(i) : i \in DOMAIN row.call}] :
         \A i \in DOMAIN f : f[i] \in Found(i)}

States(row) == {row.call[i] : i \in DOMAIN row.call}

ProgressIfFresh(r, id, row) == IF id \in scan[r].fresh THEN Progress(id, row) ELSE Untouched(id)

\* The receipts of a row's calls, all read.
ReceiptsReturn(r, id) ==
  LET old == scan[r].snap[id]
  IN  /\ id \in scan[r].left
      /\ \E late \in BOOLEAN : \E calls \in Receipts(old, Len(old.call) + 1, late) :
           LET row    == [old EXCEPT !.call = calls]
               failed == [row EXCEPT !.state = IF "Confirmed" \in States(row) THEN "PartialFailure"
                                               ELSE IF "Reverted" \in States(row) THEN "Reverted"
                                               ELSE "Dropped"]
           IN  Conclude(r, id,
                 IF States(row) \cap {"Reverted", "Dropped"} # {}
                 THEN FailureBooked(id, failed, "Reverted" \in States(row))
                 ELSE IF States(row) = {"Confirmed"}
                 THEN SuccessBooked(id, [row EXCEPT !.state = "Confirmed"])
                 ELSE ProgressIfFresh(r, id, row))

\* The n-th receipt could not be read: what was found before it is stored.  One that makes no
\* sense ends the job.
ReceiptFails(r, id) ==
  LET old == scan[r].snap[id]
  IN  /\ id \in scan[r].left
      /\ \E n \in DOMAIN old.call :
           /\ old.call[n] = "Submitted"
           /\ \/ \E late \in BOOLEAN : \E calls \in Receipts(old, n, late) :
                   Conclude(r, id, ProgressIfFresh(r, id, [old EXCEPT !.call = calls]))
              \/ Conclude(r, id, [Untouched(id) EXCEPT !.error = TRUE])

(***************************************************************************)
(* The operator: activate, deprecate, revoke, kill switch; the template    *)
(* becomes stale or is registered again, and plans of it change.           *)
(***************************************************************************)
Administer ==
  /\ trail.admin < MaxAdmin /\ trail' = [trail EXCEPT !.admin = @ + 1]
  /\ \/ /\ \E next \in {[template EXCEPT !.status = "Active", !.enabled = @ \/ template.fit],
                        [template EXCEPT !.status = "Deprecated", !.enabled = FALSE],
                        [template EXCEPT !.status = "Revoked", !.enabled = FALSE, !.revoked = TRUE],
                        [template EXCEPT !.killed = ~@]} : template' = next
        /\ UNCHANGED runner
     \/ /\ template' = [template EXCEPT !.fit = ~@]
        /\ runner' = [t \in StrategyTurns |-> [runner[t] EXCEPT !.simulated = {}]]
  /\ template' # template
  /\ UNCHANGED <<rows, created, book, policy, scan, txs>>

StrategyNext ==
  \/ \E t \in StrategyTurns :
       \/ BeginStrategyTurn(t) \/ EndStrategyTurn(t) \/ SendSucceeds(t)
       \/ \E arrived \in BOOLEAN : SendFails(t, arrived)
       \/ \E plan \in Plans : Simulate(t, plan) \/ ExecutionRefused(t, plan) \/ Execute(t, plan)
  \/ \E k \in 1..Len(txs) : Mined(k)
  \/ \E r \in Scans : \/ \E due \in SUBSET Ids : BeginReconcile(r, due)
                      \/ \E id \in Ids : ReceiptsReturn(r, id) \/ ReceiptFails(r, id)
  \/ Administer

StrategySpec == StrategyInit /\ [][StrategyNext]_strategyVars

(***************************************************************************)
(* Properties.                                                             *)
(***************************************************************************)
\* A call is sent again only when the hash of the earlier transaction lost the race for the row.
SentOnce ==
  \A d \in Ids, i \in Calls :
    Cardinality({k \in 1..Len(txs) : txs[k].id = d /\ txs[k].call = i /\ ~txs[k].raced}) <= 1

\* An execution is booked once, as a success or as a failure, however the sending turn and
\* two reconciling jobs race; and a success only when every recorded transaction was mined.
\* The exposure is what the confirmed executions left open, whether it was booked or
\* recomputed, as long as no exit was begun without an exposure.
ExposureAccounted ==
  LET Count(plan) == Cardinality({d \in Ids : d[2] = plan /\ rows[d].state = "Confirmed"})
  IN  /\ \A d \in Ids :
           /\ trail.booked[d] = (IF rows[d].state \in {"None", "Pending"} THEN 0 ELSE 1)
           /\ rows[d].state = "Confirmed" =>
                \A i \in CallsOf(d) : txs[rows[d].tx[i]].status = "mined"
      /\ ~trail.blind => book.exposure + Count("exit") = Count("enter")

=============================================================================
