---------------------------- MODULE CycleTopUp ----------------------------
(***************************************************************************)
(* The top-up pipeline: USDC is locked on the EVM chain, bridged to the    *)
(* IC, swapped to ICP and turned into cycles (features/cycle_topup).       *)
(*                                                                         *)
(* The stage is saved after every call to the outside.  A dispatch of the  *)
(* TopUpCycles job advances it until it has to wait; when the dispatch     *)
(* outlives its lease a second one starts from the saved stage.            *)
(***************************************************************************)
EXTENDS Naturals, FiniteSetsExt

CONSTANTS Wallet,          \* USDC at the start, in units of one top-up
          Reserve,         \* min_usdc_reserve
          MaxBridgePolls,  \* max_bridge_polls
          MaxRuns,         \* bound: pipelines started
          MaxTopUpLapses   \* bound: dispatches that overlap or trap

ASSUME TopUpAssumption ==
  /\ Wallet \in Nat /\ Reserve \in Nat /\ MaxBridgePolls \in Nat
  /\ MaxRuns \in Nat /\ MaxTopUpLapses \in Nat

VARIABLES stage,     \* the stored TopUpStage, or Idle, with its polls
          advancing, \* the two dispatches: the stage each one's open call was made in
          funds,     \* external: units by place
          topups     \* history: runs started, failed and completed, locks, lapses

topUpVars == <<stage, advancing, funds, topups>>

Waiting  == {"WaitingApprovalConfirmation", "WaitingLockConfirmation", "WaitingForBridgedUSDC"}
Terminal == {"Completed", "Failed"}

\* The stages in their order.
Pipeline ==
  <<"Preflight", "ApprovingLocker", "WaitingApprovalConfirmation", "LockingUSDC",
    "WaitingLockConfirmation", "ValidatingOnOnesec", "WaitingForBridgedUSDC", "ApprovingKongSwap",
    "SwappingToICP", "TransferringToCMC", "MintingCycles", "Completed">>

StageNames == {Pipeline[i] : i \in 1..12} \cup {"Idle", "Failed"}

Stage(name) == [name |-> name, polls |-> 0]

Successor(name) == Pipeline[1 + CHOOSE i \in 1..11 : Pipeline[i] = name]

Places == {"wallet", "locked", "bridged", "icp", "cmc", "minted"}

TopUpTypeOK ==
  /\ stage \in [name : StageNames, polls : 0..MaxBridgePolls]
  /\ advancing \in [1..2 -> [name : StageNames, polls : 0..MaxBridgePolls]]
  /\ funds \in [Places -> 0..Wallet]
  /\ topups \in [runs : 0..MaxRuns, failed : Nat, completed : Nat, locks : Nat,
                 lapses : 0..MaxTopUpLapses]

NotAdvancing == Stage("Idle")

TopUpInit ==
  /\ stage = Stage("Idle") /\ advancing = [e \in 1..2 |-> NotAdvancing]
  /\ funds = [p \in Places |-> IF p = "wallet" THEN Wallet ELSE 0]
  /\ topups = [runs |-> 0, failed |-> 0, completed |-> 0, locks |-> 0, lapses |-> 0]

(***************************************************************************)
(* Starting a run: CheckCycles and the tool when the pipeline is idle or   *)
(* complete, and the recovery of a failed one, which resets it first.      *)
(***************************************************************************)
MayStart(name) == name \in {"Idle", "Completed"}

TopUpStart ==
  /\ MayStart(stage.name)
  /\ topups.runs < MaxRuns
  /\ stage' = Stage("Preflight")
  /\ topups' = [topups EXCEPT !.runs = @ + 1]
  /\ UNCHANGED <<advancing, funds>>

\* maybe_recover_failed_topup, once the cooldown is over: reset, then start.
RecoverFailedTopUp ==
  /\ stage.name = "Failed"
  /\ topups.runs < MaxRuns
  /\ stage' = Stage("Preflight")
  /\ topups' = [topups EXCEPT !.runs = @ + 1]
  /\ UNCHANGED <<advancing, funds>>

(***************************************************************************)
(* A dispatch loads the stage and makes its call.                          *)
(***************************************************************************)
Active(e) == advancing[e] # NotAdvancing

TopUpDispatch(e) ==
  /\ ~Active(e) /\ stage.name \notin Terminal \cup {"Idle"}
  /\ Active(3 - e) => topups.lapses < MaxTopUpLapses
  /\ advancing' = [advancing EXCEPT ![e] = stage]
  /\ topups' = IF Active(3 - e) THEN [topups EXCEPT !.lapses = @ + 1] ELSE topups
  /\ UNCHANGED <<stage, funds>>

\* What the call of each stage does to the funds f when it takes effect, if it can.
Moved(f, from, to) == IF f[from] > 0 THEN {[f EXCEPT ![from] = @ - 1, ![to] = @ + 1]} ELSE {}

Preflight(f)        == IF f["wallet"] > Reserve THEN {f} ELSE {}
ApproveLocker(f)    == {f}
PollTx(f)           == {f}
LockUsdc(f)         == Moved(f, "wallet", "locked")
ValidateOnOnesec(f) == {f}
PollBridge(f)       == Moved(f, "locked", "bridged")
ApproveKongswap(f)  == {f}
SwapToIcp(f)        == Moved(f, "bridged", "icp")
TransferToCmc(f)    == Moved(f, "icp", "cmc")
\* notify_top_up answers a block it has already seen with the same cycles.
MintCycles(f)       == IF f["cmc"] = 0 /\ f["minted"] > 0 THEN {f} ELSE Moved(f, "cmc", "minted")

Effects(name, f) ==
  CASE name = "Preflight"             -> Preflight(f)
    [] name = "ApprovingLocker"       -> ApproveLocker(f)
    [] name = "LockingUSDC"           -> LockUsdc(f)
    [] name = "ValidatingOnOnesec"    -> ValidateOnOnesec(f)
    [] name = "WaitingForBridgedUSDC" -> PollBridge(f)
    [] name = "ApprovingKongSwap"     -> ApproveKongswap(f)
    [] name = "SwappingToICP"         -> SwapToIcp(f)
    [] name = "TransferringToCMC"     -> TransferToCmc(f)
    [] name = "MintingCycles"         -> MintCycles(f)
    [] OTHER                          -> PollTx(f)

TakesEffect(name) == funds' \in Effects(name, funds)

\* A mutant of Save: the wait for the lock is not saved.
SaveButTheLock(e, next) ==
  /\ stage' = IF next.name = "WaitingLockConfirmation" THEN stage ELSE next
  /\ advancing' = [advancing EXCEPT ![e] = IF next.name \in Terminal \cup Waiting
                                           THEN NotAdvancing ELSE next]

\* The next stage, saved over whatever is stored; the loop goes on unless it ends or waits.
Save(e, next) ==
  /\ stage' = next
  /\ advancing' = [advancing EXCEPT ![e] = IF next.name \in Terminal \cup Waiting
                                           THEN NotAdvancing ELSE next]

Counted(name) ==
  [topups EXCEPT !.locks = @ + (IF name = "LockingUSDC" /\ funds' # funds THEN 1 ELSE 0)]

CallSucceeds(e) ==
  LET name == advancing[e].name
  IN  /\ Active(e)
      /\ name = "WaitingForBridgedUSDC" => advancing[e].polls < MaxBridgePolls
      /\ TakesEffect(name)
      /\ Save(e, Stage(Successor(name)))
      /\ topups' = [Counted(name) EXCEPT !.completed = @ + (IF name = "MintingCycles" THEN 1 ELSE 0)]

\* A receipt that is not there yet, too few confirmations, a bridge transfer that is pending:
\* the stage is saved again.  The validation that is still fetching is repeated at once.
CallPending(e) ==
  LET now == advancing[e]
  IN  /\ Active(e) /\ now.name \in Waiting \cup {"ValidatingOnOnesec"}
      /\ now.name = "WaitingForBridgedUSDC" => now.polls < MaxBridgePolls
      /\ Save(e, [now EXCEPT !.polls = IF now.name = "WaitingForBridgedUSDC" THEN @ + 1 ELSE @])
      /\ UNCHANGED <<funds, topups>>

\* The call failed, or took effect and its answer was lost; or the polls are used up.
CallFails(e) ==
  /\ Active(e)
  /\ \/ funds' = funds
     \/ advancing[e].polls = 0 /\ TakesEffect(advancing[e].name) /\ funds' # funds
  /\ Save(e, Stage("Failed"))
  /\ topups' = [Counted(advancing[e].name) EXCEPT !.failed = @ + 1]

\* A trap in the continuation: the call took effect and the stage was not saved.
DispatchTraps(e) ==
  /\ Active(e) /\ topups.lapses < MaxTopUpLapses
  /\ TakesEffect(advancing[e].name)
  /\ advancing' = [advancing EXCEPT ![e] = NotAdvancing]
  /\ topups' = [Counted(advancing[e].name) EXCEPT !.lapses = @ + 1]
  /\ UNCHANGED stage

TopUpNext ==
  \/ TopUpStart
  \/ RecoverFailedTopUp
  \/ \E e \in 1..2 : TopUpDispatch(e) \/ CallSucceeds(e) \/ CallPending(e) \/ CallFails(e)
                       \/ DispatchTraps(e)

TopUpSpec == TopUpInit /\ [][TopUpNext]_topUpVars

(***************************************************************************)
(* Properties.                                                             *)
(***************************************************************************)
\* However often a run is continued, it locks USDC once: more locks than runs take a dispatch
\* that overlapped with another or trapped after its call.  What is on its way is accounted for
\* by the run in progress, by runs that failed after their lock, and by lapses: a run that ends
\* well leaves nothing behind on the way.
TransitAccounted ==
  /\ topups.locks <= topups.runs + topups.lapses
  /\ funds["locked"] + funds["bridged"] + funds["icp"] + funds["cmc"]
       <= topups.failed + topups.lapses
          + (IF stage.name \in Terminal \cup {"Idle"} THEN 0 ELSE 1)

=============================================================================
