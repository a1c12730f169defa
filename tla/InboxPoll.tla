----------------------------- MODULE InboxPoll -----------------------------
(***************************************************************************)
(* The PollInbox job: paid messages and gifts from the Inbox contract, and *)
(* the wallet's balances (scheduler.rs, features/evm.rs).  Its last part,  *)
(* the factory's room, is in RoomPoll.                                     *)
(*                                                                         *)
(* The job works on the runtime snapshot it took when it began.  Between   *)
(* its awaits the chain grows, and a second poll can run when the job      *)
(* outlived its lease; the cursor it then writes is that of its own        *)
(* snapshot.                                                               *)
(***************************************************************************)
EXTENDS Naturals, Sequences, FiniteSetsExt

CONSTANTS ConfirmationDepth,  \* confirmation_depth of the cursor
          BlockRange,         \* MAX_BLOCK_RANGE_PER_POLL
          MaxLag,             \* MAX_CURSOR_LAG_BEFORE_FAST_FORWARD_BLOCKS
          Lookback,           \* evm_bootstrap_lookback_blocks
          MaxLogs,            \* DEFAULT_MAX_LOGS_PER_POLL
          MaxBlocks,          \* bound: blocks mined
          MaxEvents,          \* bound: events emitted
          MaxPolls            \* bound: polls begun

ASSUME PollAssumption ==
  /\ ConfirmationDepth \in Nat /\ BlockRange \in Nat /\ MaxLag \in Nat /\ Lookback \in Nat
  /\ MaxLogs \in Nat \ {0} /\ MaxBlocks \in Nat /\ MaxEvents \in Nat /\ MaxPolls \in Nat

VARIABLES chain,     \* external: the head, and the events as [block, index, gift]
          cursor,    \* evm_cursor: next_block, next_log_index, consecutive_empty_polls > 0
          marked,    \* events marked as ingested
          delivered, \* how often an event became an inbox message or a counted gift
          skipped,   \* history: events a fast-forward of the cursor passed over
          wallet,    \* wallet_balance_bootstrap_pending
          poll,      \* the two polls
          polls      \* history: polls begun

pollVars == <<chain, cursor, marked, delivered, skipped, wallet, poll, polls>>

chainSide == <<chain, cursor, marked, delivered, skipped>>

NoPoll == [pc |-> "idle", cursor |-> [block |-> 0, index |-> 0, empty |-> FALSE], from |-> 0,
           to |-> 0, events |-> {}]

Events == [block : 1..MaxBlocks, index : 0..MaxEvents, gift : BOOLEAN]

PollTypeOK ==
  /\ chain.head \in 0..MaxBlocks /\ chain.events \subseteq Events
  /\ cursor \in [block : 0 .. MaxBlocks + 1, index : 0 .. MaxEvents + 1, empty : BOOLEAN]
  /\ marked \subseteq Events /\ skipped \subseteq Events
  /\ DOMAIN delivered \subseteq Events /\ wallet \in BOOLEAN
  /\ polls \in 0..MaxPolls
  /\ \A p \in 1..2 : /\ poll[p].pc \in {"idle", "head", "logs", "peers", "balance"}
                     /\ poll[p].events \subseteq Events

PollInit ==
  /\ chain = [head |-> 0, events |-> {}] /\ cursor = NoPoll.cursor
  /\ marked = {} /\ delivered = <<>> /\ skipped = {} /\ wallet = TRUE
  /\ poll = [p \in 1..2 |-> NoPoll] /\ polls = 0

(***************************************************************************)
(* External: a block of the chain with the events of the Inbox contract    *)
(* for this automaton.                                                     *)
(***************************************************************************)
\* queueMessage and queueMessageEth emit a message, patronize a gift; both are paid.
MineBlock(n, gifts) ==
  LET block == chain.head + 1
  IN  /\ chain.head < MaxBlocks /\ Cardinality(chain.events) + n <= MaxEvents
      /\ chain' = [head   |-> block,
                   events |-> chain.events \cup
                                {[block |-> block, index |-> i, gift |-> i \in gifts] : i \in 0 .. n - 1}]
      /\ UNCHANGED <<cursor, marked, delivered, skipped, wallet, poll, polls>>

(***************************************************************************)
(* HttpEvmPoller::poll.                                                    *)
(***************************************************************************)
Poll(p, next) == poll' = [poll EXCEPT ![p] = next]

Minus(a, b) == IF a > b THEN a - b ELSE 0

\* A cursor that lags too far is moved forward; what lies between is never read.
EffectiveFromBlock(c, head) ==
  IF c.block = 0 \/ Minus(head, c.block) > MaxLag THEN Minus(head, Lookback) ELSE c.block

Before(e, f) == e.block < f.block \/ (e.block = f.block /\ e.index < f.index)

\* filter_route_matched_logs: not before the cursor, in order, at most MaxLogs.
RouteMatchedLogs(logs, c) ==
  LET fresh == {e \in logs : ~Before(e, c)}
  IN  {e \in fresh : Cardinality({f \in fresh : Before(f, e)}) < MaxLogs}

\* A mutant of NextCursor: after a full page the rest of the range is passed over.
NextCursorPastRange(c, events, to) == [c EXCEPT !.block = to + 1, !.index = 0]

\* After a full page the cursor stays behind the last event, otherwise behind the range.
NextCursor(c, events, to) ==
  LET last == CHOOSE e \in events : \A f \in events : ~Before(e, f)
  IN  IF Cardinality(events) = MaxLogs
      THEN [c EXCEPT !.block = last.block, !.index = last.index + 1]
      ELSE [c EXCEPT !.block = to + 1, !.index = 0]

\* Not configured, or backing off after empty polls: the chain is not asked.  The second
\* slot is for a poll that overlaps with the first.
BeginPoll(p, due) ==
  /\ poll[p].pc = "idle" /\ polls < MaxPolls
  /\ p = 2 => poll[1].pc # "idle"
  /\ due \/ cursor.empty
  /\ Poll(p, [NoPoll EXCEPT !.pc = IF due THEN "head" ELSE "balance", !.cursor = cursor])
  /\ polls' = polls + 1
  /\ UNCHANGED <<chainSide, wallet>>

\* eth_blockNumber; without a confirmed block to read the cursor is written back as it was.
HeadReturns(p) ==
  LET head == Minus(chain.head, ConfirmationDepth)
      from == EffectiveFromBlock(poll[p].cursor, head)
      to   == Min({head, from + BlockRange})
  IN  /\ poll[p].pc = "head"
      /\ IF from > to
         THEN /\ cursor' = [poll[p].cursor EXCEPT !.empty = TRUE]
              /\ Poll(p, [poll[p] EXCEPT !.pc = "balance"])
         ELSE /\ Poll(p, [poll[p] EXCEPT !.pc = "logs", !.from = from, !.to = to])
              /\ UNCHANGED cursor
      /\ UNCHANGED <<chain, marked, delivered, skipped, wallet, polls>>

\* The two eth_getLogs calls, then, when there are events, the directory of peers.
LogsReturn(p) ==
  LET now    == poll[p]
      events == RouteMatchedLogs({e \in chain.events : e.block \in now.from .. now.to}, now.cursor)
  IN  /\ now.pc = "logs"
      /\ Poll(p, [now EXCEPT !.pc = "peers", !.events = events])
      /\ UNCHANGED <<chainSide, wallet, polls>>

\* try_mark_evm_event_ingested
Fresh(events) == events \ marked

\* A message goes to the inbox, a gift to the patronage counter; an event that cannot be
\* decoded is delivered as its raw log.
Deliver(events) ==
  [e \in DOMAIN delivered \cup events |->
     (IF e \in DOMAIN delivered THEN delivered[e] ELSE 0) + (IF e \in events THEN 1 ELSE 0)]

\* The events are marked and ingested, a message into the inbox and a gift into the counter.
\* After an error (the deal of a peer cannot be recorded) the rest of the page is left, and so
\* is the cursor: the events before it, and the one in error, are marked.
EventsIngested(p) ==
  LET now  == poll[p]
      new  == Fresh(now.events)
      next == [NextCursor(now.cursor, now.events, now.to) EXCEPT !.empty = new = {}]
      passed == {e \in chain.events : e.block < now.from /\ ~Before(e, now.cursor)}
  IN  /\ now.pc = "peers"
      /\ \/ /\ cursor' = next
            /\ marked' = marked \cup new
            /\ delivered' = Deliver(new)
            /\ skipped' = skipped \cup passed
            /\ Poll(p, [now EXCEPT !.pc = "balance"])
         \/ \E bad \in {e \in new : ~e.gift} :
              LET done == {e \in new : ~Before(bad, e)}
              IN  /\ marked' = marked \cup done
                  /\ delivered' = Deliver(done)
                  /\ Poll(p, NoPoll)
                  /\ UNCHANGED <<cursor, skipped>>
      /\ UNCHANGED <<chain, wallet, polls>>

\* A failed call ends the job; the cursor has not moved.
PollFails(p) ==
  /\ poll[p].pc \in {"head", "logs"}
  /\ Poll(p, NoPoll)
  /\ UNCHANGED <<chainSide, wallet, polls>>

(***************************************************************************)
(* maybe_sync_wallet_balances, then the pending messages are staged.       *)
(***************************************************************************)
\* A sync that fails is repeated once when its response limit was tuned or the failure is
\* transient; the gate of the first turn opens with a success, or when there is no route.
WalletSynced(p) ==
  /\ poll[p].pc = "balance"
  /\ wallet' \in {wallet, FALSE}
  /\ Poll(p, NoPoll)
  /\ UNCHANGED <<chainSide, polls>>

PollNext ==
  \/ \E n \in 0..2, gifts \in {{}, {0}} : MineBlock(n, gifts)
  \/ \E p \in 1..2 :
       \/ \E due \in BOOLEAN : BeginPoll(p, due)
       \/ HeadReturns(p) \/ LogsReturn(p) \/ EventsIngested(p) \/ PollFails(p)
       \/ WalletSynced(p)

PollSpec == PollInit /\ [][PollNext]_pollVars

(***************************************************************************)
(* Properties.                                                             *)
(***************************************************************************)
\* Whatever two overlapping polls write over each other, no confirmed event behind the cursor
\* is lost: it was delivered, or a fast-forward passed over it.  And an event is delivered
\* once, however often the range is read.
NoPaidMessageLost ==
  /\ \A e \in chain.events : Before(e, cursor) => e \in DOMAIN delivered \cup skipped
  /\ \A e \in DOMAIN delivered : delivered[e] = 1

=============================================================================
