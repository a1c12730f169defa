---------------------------- MODULE Counterparty ----------------------------
(***************************************************************************)
(* What an automaton pays to others and what it remembers of it: payments  *)
(* to peers (pay_peer) and the endowment of a child (reproduce), both sent *)
(* by a turn, and the job that follows up on their transactions.           *)
(*                                                                         *)
(* The notes are memory facts, which other facts may evict.  A turn and    *)
(* the job overlap only when the lease of one has run out: a lapse.        *)
(***************************************************************************)
EXTENDS Naturals, Sequences, FiniteSetsExt

CONSTANTS MaxPayTurns,       \* bound: turns that pay
          MaxTxs,            \* bound: transactions
          MaxPayLapses,      \* bound: overlaps of a turn and the job
          MaxEvictions,      \* bound: notes evicted
          MixPayments        \* bound: whether a behaviour both pays a peer and endows a child

ASSUME CounterpartyAssumption == MaxPayTurns \in Nat /\ MaxTxs \in Nat

VARIABLES pendings,    \* turns with a note counterparty.<peer>.pending.<hash of the turn's call>
          deals,       \* notes counterparty.<peer>.deal.<tx>: a status per transaction
          receipts,    \* notes counterparty_pending_receipt.<tx>
          child,       \* the note counterparty.child.pending.<session>
          session,     \* external: the state of the reproduction session
          payer,       \* the turn's tool in flight
          recovery,    \* the job in flight
          sent,        \* external: the transactions of the wallet
          payLog       \* ghost: lapses, evictions, the transactions excused, and whether the
                       \* note of the payment in flight was evicted

counterpartyVars == <<pendings, deals, receipts, child, session, payer, recovery,
                      sent, payLog>>

PayTurns  == 1..MaxPayTurns
Txs       == 0..MaxTxs
NoChild   == [status |-> "none", approve |-> 0, deposit |-> 0]
NoPayer   == [pc |-> "idle", turn |-> 0, approve |-> 0]
NoRecovery == [pc |-> "idle", note |-> NoChild, action |-> "Wait"]
SessionStates == {"none", "AwaitingPayment", "PaymentDetected", "Complete", "Failed", "Expired"}

CounterpartyTypeOK ==
  /\ pendings \subseteq PayTurns /\ receipts \subseteq 1..MaxTxs
  /\ DOMAIN deals \subseteq 1..MaxTxs
  /\ \A tx \in DOMAIN deals : deals[tx] \in {"submitted", "paid", "failed"}
  /\ child.approve \in Txs /\ child.deposit \in Txs /\ session \in SessionStates
  /\ payer.pc \in {"idle", "peer", "paying", "approving", "depositing"}
  /\ recovery.pc \in {"idle", "receipts", "sending"}
  /\ Len(sent) <= MaxTxs

CounterpartyInit ==
  /\ pendings = {} /\ deals = <<>> /\ receipts = {}
  /\ child = NoChild /\ session = "none" /\ payer = NoPayer /\ recovery = NoRecovery
  /\ sent = <<>>
  /\ payLog = [turns |-> 0, lapses |-> 0, evictions |-> 0, excused |-> {}, orphan |-> FALSE]

\* send_eth: nothing was sent, or it was and the answer is lost; or the hash comes back.
SendTx(what, turn) ==
  /\ Len(sent) < MaxTxs
  /\ sent' = Append(sent, [what |-> what, turn |-> turn, status |-> "pending"])

MaybeSent(what, turn) == SendTx(what, turn) \/ UNCHANGED sent

NewTx == Len(sent) + 1

\* A tool begins beside the job, or the job beside a tool, only in a lapse.
Beside(busy, log) ==
  /\ busy => payLog.lapses < MaxPayLapses
  /\ payLog' = [log EXCEPT !.lapses = IF busy THEN @ + 1 ELSE @]

(***************************************************************************)
(* pay_peer.                                                               *)
(***************************************************************************)
\* The call is checked and the peer is looked up at the factory. The turn may call again after
\* an error; the note of both calls has one key.
PayPeer(turn) ==
  /\ payer = NoPayer /\ turn \in {payLog.turns, payLog.turns + 1} \cap PayTurns
  /\ MixPayments \/ session = "none"
  /\ payer' = [NoPayer EXCEPT !.pc = "peer", !.turn = turn]
  /\ Beside(recovery # NoRecovery, [payLog EXCEPT !.turns = turn])
  /\ UNCHANGED <<pendings, deals, receipts, child, session, recovery, sent>>

NotesPending(turn) == pendings \cup {turn}

\* The peer is alive and a note is left before the payment, or the call ends.
PeerReturns ==
  /\ payer.pc = "peer"
  /\ \/ payer' = NoPayer /\ UNCHANGED <<pendings, payLog>>
     \/ /\ payer' = [payer EXCEPT !.pc = "paying"]
        /\ pendings' = NotesPending(payer.turn)
        /\ payLog' = [payLog EXCEPT !.excused = @ \cup
             {k \in 1..Len(sent) : payer.turn \in pendings /\ sent[k].turn = payer.turn}]
  /\ UNCHANGED <<deals, receipts, child, session, recovery, sent>>

\* record_counterparty_deal; the standing it also writes is the digest of the deals.
RecordDeal(tx, status) ==
  deals' = [k \in DOMAIN deals \cup {tx} |-> IF k = tx THEN status ELSE deals[k]]

PaymentReturns ==
  /\ payer.pc = "paying" /\ payer' = NoPayer
  /\ \/ /\ SendTx("pay", payer.turn) /\ RecordDeal(NewTx, "submitted")
        /\ receipts' = receipts \cup {NewTx} /\ pendings' = pendings \ {payer.turn}
        /\ payLog' = [payLog EXCEPT !.orphan = FALSE]
     \/ /\ MaybeSent("pay", payer.turn) /\ UNCHANGED <<deals, receipts, pendings>>
        /\ payLog' = [payLog EXCEPT !.orphan = FALSE, !.excused =
                        IF payLog.orphan /\ sent' # sent THEN @ \cup {NewTx} ELSE @]
  /\ UNCHANGED <<child, session, recovery>>

\* The job asks for the receipt of a watched payment; the deal may have been evicted.
ReceiptReconciled(tx) ==
  /\ tx \in receipts /\ tx \in DOMAIN deals /\ deals[tx] = "submitted"
  /\ sent[tx].status # "pending"
  /\ RecordDeal(tx, IF sent[tx].status = "mined" THEN "paid" ELSE "failed")
  /\ receipts' = receipts \ {tx}
  /\ UNCHANGED <<pendings, child, session, payer, recovery, sent, payLog>>

(***************************************************************************)
(* reproduce.                                                              *)
(***************************************************************************)
\* Constitution, inheritance, reserve and eligibility are checked and the factory opens a
\* session; the note is left before anything is sent.
Reproduce ==
  /\ payer = NoPayer /\ session = "none" /\ (MixPayments \/ payLog.turns = 0)
  /\ session' = "AwaitingPayment" /\ payer' = [NoPayer EXCEPT !.pc = "approving"]
  /\ child' = [NoChild EXCEPT !.status = "approval_submitting"]
  /\ Beside(recovery # NoRecovery, payLog)
  /\ UNCHANGED <<pendings, deals, receipts, recovery, sent>>

ApprovalReturns ==
  /\ payer.pc = "approving"
  /\ \/ /\ SendTx("approve", 0)
        /\ child' = [NoChild EXCEPT !.status = "approval_broadcast", !.approve = NewTx]
        /\ payer' = [payer EXCEPT !.pc = "depositing", !.approve = NewTx]
     \/ MaybeSent("approve", 0) /\ payer' = NoPayer /\ UNCHANGED child
  /\ UNCHANGED <<pendings, deals, receipts, session, recovery, payLog>>

DepositReturns ==
  /\ payer.pc = "depositing" /\ payer' = NoPayer
  /\ \/ /\ SendTx("deposit", 0)
        /\ child' = [status |-> "awaiting_factory_completion", approve |-> payer.approve,
                     deposit |-> NewTx]
     \/ MaybeSent("deposit", 0) /\ UNCHANGED child
  /\ UNCHANGED <<pendings, deals, receipts, session, recovery, payLog>>

(***************************************************************************)
(* The job follows up on the endowment.                                    *)
(***************************************************************************)
\* The factory answers for the session of the note.
RecoveryBegins ==
  /\ recovery = NoRecovery /\ child.status \notin {"none", "failed", "expired"}
  /\ \/ /\ session = "Complete" /\ child' = NoChild /\ UNCHANGED <<recovery, payLog>>
     \/ /\ session \in {"Failed", "Expired"} /\ UNCHANGED <<recovery, payLog>>
        /\ child' = [NoChild EXCEPT !.status = IF session = "Failed" THEN "failed" ELSE "expired"]
     \/ /\ session = "AwaitingPayment" /\ UNCHANGED child
        /\ recovery' = [NoRecovery EXCEPT !.pc = "receipts", !.note = child]
        /\ Beside(payer # NoPayer, payLog)
  /\ UNCHANGED <<pendings, deals, receipts, session, payer, sent>>

\* A receipt that cannot be fetched counts as none.
Receipt(tx) == IF tx = 0 THEN {"none"} ELSE {"none", sent[tx].status}

RecoveryAction(note, approved, deposited) ==
  CASE note.approve = 0 \/ approved = "reverted" -> "BroadcastApproval"
    [] approved = "mined" /\ (note.deposit = 0 \/ deposited = "reverted") -> "BroadcastDeposit"
    [] OTHER -> "Wait"

\* A mutant of RetryValue: a fresh approval leaves the old deposit in the note.
RetryValueKeepsDeposit(note, action) ==
  IF action = "BroadcastApproval" THEN [note EXCEPT !.approve = 0] ELSE note

RetryValue(note, action) ==
  IF action = "BroadcastApproval" THEN [note EXCEPT !.approve = 0, !.deposit = 0] ELSE note

\* The cleared note is written before the approval is sent again.
ReceiptsFetched ==
  /\ recovery.pc = "receipts"
  /\ \E a \in Receipt(recovery.note.approve), d \in Receipt(recovery.note.deposit) :
       LET action == RecoveryAction(recovery.note, a, d)
           note   == RetryValue(recovery.note, action)
       IN  IF action = "Wait" THEN recovery' = NoRecovery /\ UNCHANGED child
           ELSE /\ recovery' = [pc |-> "sending", note |-> note, action |-> action]
                /\ child' = IF action = "BroadcastApproval"
                              THEN [note EXCEPT !.status = "approval_rebroadcasting"] ELSE child
  /\ UNCHANGED <<pendings, deals, receipts, session, payer, sent, payLog>>

\* The note is written back with the hash, or as it was with the error; a trap writes nothing.
RebroadcastReturns ==
  LET what == IF recovery.action = "BroadcastApproval" THEN "approve" ELSE "deposit"
  IN  /\ recovery.pc = "sending" /\ recovery' = NoRecovery
      /\ \/ /\ SendTx(what, 0)
            /\ child' = IF what = "approve"
                          THEN [recovery.note EXCEPT !.approve = NewTx, !.status = "approval_broadcast"]
                          ELSE [recovery.note EXCEPT !.deposit = NewTx, !.status = "deposit_broadcast"]
         \/ /\ MaybeSent(what, 0)
            /\ child' \in {child, [recovery.note EXCEPT !.status = "payment_recovery_retryable"]}
      /\ UNCHANGED <<pendings, deals, receipts, session, payer, payLog>>

(***************************************************************************)
(* The world: the chain, the factory, and other facts.                     *)
(***************************************************************************)
\* A deposit succeeds once, and only after an approval; anything else may fail for gas.
TxSettles(k) ==
  LET mined(what) == \E j \in 1..Len(sent) : sent[j].what = what /\ sent[j].status = "mined"
      possible    == IF sent[k].what = "deposit" /\ (mined("deposit") \/ ~mined("approve"))
                       THEN {"reverted"} ELSE {"mined", "reverted"}
  IN  /\ k \in 1..Len(sent) /\ sent[k].status = "pending"
      /\ \E status \in possible : sent' = [sent EXCEPT ![k].status = status]
      /\ UNCHANGED <<pendings, deals, receipts, child, session, payer, recovery, payLog>>

SessionMoves ==
  /\ \/ /\ session = "AwaitingPayment"
        /\ IF \E k \in 1..Len(sent) : sent[k].what = "deposit" /\ sent[k].status = "mined"
             THEN session' \in {"PaymentDetected", "Expired"} ELSE session' = "Expired"
     \/ session = "PaymentDetected" /\ session' \in {"Complete", "Failed"}
  /\ UNCHANGED <<pendings, deals, receipts, child, payer, recovery, sent, payLog>>

\* set_memory_fact of another key at capacity evicts the oldest note.
EvictNote ==
  /\ payLog.evictions < MaxEvictions
  /\ \/ /\ \E turn \in pendings :
             /\ pendings' = pendings \ {turn}
             /\ payLog' = [payLog EXCEPT !.evictions = @ + 1,
                             !.orphan = @ \/ (payer.pc = "paying" /\ payer.turn = turn),
                             !.excused = @ \cup {k \in 1..Len(sent) : sent[k].turn = turn}]
        /\ UNCHANGED <<deals, receipts, child>>
     \/ /\ \E tx \in DOMAIN deals :
             /\ deals' = [k \in DOMAIN deals \ {tx} |-> deals[k]]
             /\ payLog' = [payLog EXCEPT !.evictions = @ + 1, !.excused = @ \cup {tx}]
        /\ UNCHANGED <<pendings, receipts, child>>
     \/ /\ receipts # {} /\ \E tx \in receipts : receipts' = receipts \ {tx}
        /\ payLog' = [payLog EXCEPT !.evictions = @ + 1] /\ UNCHANGED <<pendings, deals, child>>
     \/ /\ child # NoChild /\ child' = NoChild
        /\ payLog' = [payLog EXCEPT !.evictions = @ + 1] /\ UNCHANGED <<pendings, deals, receipts>>
  /\ UNCHANGED <<session, payer, recovery, sent>>

CounterpartyNext ==
  \/ \E turn \in PayTurns : PayPeer(turn)
  \/ PeerReturns \/ PaymentReturns \/ Reproduce \/ ApprovalReturns \/ DepositReturns
  \/ RecoveryBegins \/ ReceiptsFetched \/ RebroadcastReturns \/ SessionMoves \/ EvictNote
  \/ \E k \in 1..MaxTxs : TxSettles(k)
  \/ \E k \in 1..MaxTxs : ReceiptReconciled(k)

CounterpartySpec == CounterpartyInit /\ [][CounterpartyNext]_counterpartyVars

(***************************************************************************)
(* Properties.                                                             *)
(***************************************************************************)
\* No payment to a peer is forgotten: its deal is on record, or the note that was left before
\* it was sent, unless the note was evicted or a later call of the same turn replaced it.
\* And the note of a child never pairs a deposit with an approval that was sent after it:
\* whatever crashes or overlaps, a stale deposit hash does not survive a new approval.
PaymentsRemembered ==
  /\ \A k \in 1..Len(sent) : sent[k].what = "pay" =>
       k \in DOMAIN deals \/ sent[k].turn \in pendings \/ k \in payLog.excused
  /\ child.deposit # 0 => child.approve # 0 /\ child.approve < child.deposit

=============================================================================
