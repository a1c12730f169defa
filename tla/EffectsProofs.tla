--------------------------- MODULE EffectsProofs ---------------------------
(***************************************************************************)
(* Proofs about the subsystems of an automaton that keep books of their    *)
(* own: the cycle top-up, the Inbox poll, payments to peers and children,  *)
(* memory, outcalls and tool rounds, for any sizes, limits and bounds. Each*)
(* section states an inductive invariant, shows that every action keeps    *)
(* it, with one lemma per action or per kind of step, and ends with the    *)
(* theorem that its property always holds.                                 *)
(***************************************************************************)
EXTENDS CycleTopUp, InboxPoll, ToolRounds, Counterparty, Memory, Outcalls, TableLemmas,
        FiniteSetTheorems, TLAPS

-----------------------------------------------------------------------------
(* The cycle top-up. *)

BeforeLock == {"Preflight", "ApprovingLocker", "WaitingApprovalConfirmation", "LockingUSDC"}
OnTheWay1  == {"WaitingLockConfirmation", "ValidatingOnOnesec", "WaitingForBridgedUSDC"}
OnTheWay2  == {"ApprovingKongSwap", "SwappingToICP"}
UnderWay   == BeforeLock \cup OnTheWay1 \cup OnTheWay2 \cup {"TransferringToCMC", "MintingCycles"}

One(b) == IF b THEN 1 ELSE 0

\* How many places a pipeline in this stage has taken its unit.
Leg(name) ==
  IF name \in OnTheWay1 THEN 1 ELSE IF name \in OnTheWay2 THEN 2
  ELSE IF name = "TransferringToCMC" THEN 3 ELSE IF name = "MintingCycles" THEN 4 ELSE 0

\* The dispatches under way stand for the units on each leg; without one, the stored stage does.
Busy(a, b) == a \in UnderWay \/ b \in UnderWay
Carried(s, a, b, l) == IF Busy(a, b) THEN One(Leg(a) = l) + One(Leg(b) = l) ELSE One(Leg(s) = l)
Carriers(s, a, b) == IF Busy(a, b) THEN One(a \in UnderWay) + One(b \in UnderWay)
                                   ELSE One(s \in UnderWay)

Excess(x, t) == IF x > t THEN x - t ELSE 0

\* Units that no dispatch stands for, and the dispatches.
Owed(f, s, a, b) ==
  Excess(f["locked"], Carried(s, a, b, 1)) + Excess(f["bridged"], Carried(s, a, b, 2))
    + Excess(f["icp"], Carried(s, a, b, 3)) + Excess(f["cmc"], Carried(s, a, b, 4))
    + Carriers(s, a, b)

TopUpFunds == [Places -> Nat]
TopUpBooks == [runs : Nat, failed : Nat, completed : Nat, locks : Nat, lapses : Nat]

\* Every lock belongs to a run or to a lapse, counting those still to come.
LocksFit(h, s, a, b) ==
  /\ h.locks + One(a \in BeforeLock) + One(b \in BeforeLock) <= h.runs + h.lapses
  /\ h.locks + One(s \in BeforeLock) <= h.runs + h.lapses

UnitsFit(h, f, s, a, b) == Owed(f, s, a, b) <= h.failed + h.lapses + One(s \in UnderWay)

DispatchFits(d) == d = NotAdvancing \/ (d.name \in UnderWay /\ {"name", "polls"} \subseteq DOMAIN d)

TopUpInv ==
  /\ stage.name \in UnderWay \cup {"Idle", "Completed", "Failed"} /\ {"name", "polls"} \subseteq DOMAIN stage
  /\ DOMAIN advancing = 1..2 /\ \A e \in 1..2 : DispatchFits(advancing[e])
  /\ funds \in TopUpFunds /\ topups \in TopUpBooks
  /\ LocksFit(topups, stage.name, advancing[1].name, advancing[2].name)
  /\ UnitsFit(topups, funds, stage.name, advancing[1].name, advancing[2].name)

\* A call's effect: the unit goes one leg further with the pipeline, or a mint is repeated.
LegFollows(x2, x, t2, t) ==
  \/ x2 = x /\ t2 = t
  \/ x > 0 /\ x2 = x - 1 /\ t = 1 /\ t2 = 0
  \/ x2 = x + 1 /\ t = 0 /\ t2 = 1
  \/ x = 0 /\ x2 = 0

FundsFollow(f2, f, next, name) ==
  /\ LegFollows(f2["locked"], f["locked"], One(Leg(next) = 1), One(Leg(name) = 1))
  /\ LegFollows(f2["bridged"], f["bridged"], One(Leg(next) = 2), One(Leg(name) = 2))
  /\ LegFollows(f2["icp"], f["icp"], One(Leg(next) = 3), One(Leg(name) = 3))
  /\ LegFollows(f2["cmc"], f["cmc"], One(Leg(next) = 4), One(Leg(name) = 4))

\* The stages in their order.
LEMMA Successors ==
  /\ Successor("Preflight") = "ApprovingLocker"
  /\ Successor("ApprovingLocker") = "WaitingApprovalConfirmation"
  /\ Successor("WaitingApprovalConfirmation") = "LockingUSDC"
  /\ Successor("LockingUSDC") = "WaitingLockConfirmation"
  /\ Successor("WaitingLockConfirmation") = "ValidatingOnOnesec"
  /\ Successor("ValidatingOnOnesec") = "WaitingForBridgedUSDC"
  /\ Successor("WaitingForBridgedUSDC") = "ApprovingKongSwap"
  /\ Successor("ApprovingKongSwap") = "SwappingToICP"
  /\ Successor("SwappingToICP") = "TransferringToCMC"
  /\ Successor("TransferringToCMC") = "MintingCycles"
  /\ Successor("MintingCycles") = "Completed"
<1>1. /\ Pipeline[1] = "Preflight" /\ Pipeline[2] = "ApprovingLocker"
      /\ Pipeline[3] = "WaitingApprovalConfirmation" /\ Pipeline[4] = "LockingUSDC"
      /\ Pipeline[5] = "WaitingLockConfirmation" /\ Pipeline[6] = "ValidatingOnOnesec"
      /\ Pipeline[7] = "WaitingForBridgedUSDC" /\ Pipeline[8] = "ApprovingKongSwap"
      /\ Pipeline[9] = "SwappingToICP" /\ Pipeline[10] = "TransferringToCMC"
      /\ Pipeline[11] = "MintingCycles" /\ Pipeline[12] = "Completed"
  BY DEF Pipeline
<1>2. ASSUME NEW k \in 1..11, NEW name, Pipeline[k] = name,
             \A i \in 1..11 : Pipeline[i] = name => i = k
      PROVE  Successor(name) = Pipeline[1 + k]
  <2>1. (CHOOSE i \in 1..11 : Pipeline[i] = name) = k
    BY <1>2
  <2> QED BY <2>1 DEF Successor
<1>3. \A i \in 1..11 :
        \/ i = 1 \/ i = 2 \/ i = 3 \/ i = 4 \/ i = 5 \/ i = 6
        \/ i = 7 \/ i = 8 \/ i = 9 \/ i = 10 \/ i = 11
  OBVIOUS
<1>4. \A i, k \in 1..11 : Pipeline[i] = Pipeline[k] => i = k
  BY <1>1, <1>3
<1>5. \A k \in 1..11 : Successor(Pipeline[k]) = Pipeline[1 + k]
  BY <1>2, <1>4
<1> QED BY <1>1, <1>5

\* What a call that takes effect does to the units on their way.
LEMMA CallMovesUnit ==
  ASSUME NEW f \in TopUpFunds, NEW name \in UnderWay, NEW f2 \in Effects(name, f)
  PROVE  /\ f2 \in TopUpFunds /\ FundsFollow(f2, f, Successor(name), name)
         /\ name \notin BeforeLock => Successor(name) \notin BeforeLock
         /\ name \in BeforeLock \ {"LockingUSDC"} => Successor(name) \in BeforeLock
         /\ Successor("LockingUSDC") \notin BeforeLock
         /\ Successor(name) \in UnderWay \cup {"Completed"}
<1>1. /\ \A p \in Places : f[p] \in Nat
      /\ Places = {"wallet", "locked", "bridged", "icp", "cmc", "minted"}
  BY DEF TopUpFunds, Places
<1>2. ASSUME NEW from \in Places, NEW to \in Places, from # to, f2 \in Moved(f, from, to)
      PROVE  /\ f2 \in TopUpFunds /\ f[from] > 0 /\ f2[from] = f[from] - 1 /\ f2[to] = f[to] + 1
             /\ \A p \in Places \ {from, to} : f2[p] = f[p]
  <2>1. f[from] > 0 /\ f2 = [f EXCEPT ![from] = @ - 1, ![to] = @ + 1]
    BY <1>2 DEF Moved
  <2>2. f[from] - 1 \in Nat /\ f[to] + 1 \in Nat
    BY <1>1, <2>1
  <2> QED BY <1>2, <2>1, <2>2 DEF TopUpFunds
<1>3. CASE name \notin {"LockingUSDC", "WaitingForBridgedUSDC", "SwappingToICP", "TransferringToCMC",
                        "MintingCycles"}
  <2>1. f2 = f
    BY <1>3 DEF Effects, Preflight, ApproveLocker, PollTx, ValidateOnOnesec, ApproveKongswap,
                UnderWay, BeforeLock, OnTheWay1, OnTheWay2
  <2>2. Leg(Successor(name)) = Leg(name)
    BY <1>3, Successors DEF Leg, UnderWay, BeforeLock, OnTheWay1, OnTheWay2
  <2>3. FundsFollow(f2, f, Successor(name), name)
    BY <2>1, <2>2 DEF FundsFollow, LegFollows
  <2> QED BY <1>3, <2>1, <2>3, Successors DEF UnderWay, BeforeLock, OnTheWay1, OnTheWay2
<1>4. CASE name = "LockingUSDC"
  <2>1. f2 \in Moved(f, "wallet", "locked")
    BY <1>4 DEF Effects, LockUsdc
  <2>2. /\ f2 \in TopUpFunds /\ f2["locked"] = f["locked"] + 1 /\ f2["bridged"] = f["bridged"]
        /\ f2["icp"] = f["icp"] /\ f2["cmc"] = f["cmc"]
    BY <1>1, <1>2, <2>1
  <2>3. Leg(name) = 0 /\ Leg(Successor(name)) = 1
    BY <1>4, Successors DEF Leg, OnTheWay1, OnTheWay2
  <2>4. FundsFollow(f2, f, Successor(name), name)
    BY <2>2, <2>3 DEF FundsFollow, LegFollows, One
  <2> QED BY <1>4, <2>2, <2>4, Successors DEF UnderWay, BeforeLock, OnTheWay1, OnTheWay2
<1>5. CASE name = "WaitingForBridgedUSDC"
  <2>1. f2 \in Moved(f, "locked", "bridged")
    BY <1>5 DEF Effects, PollBridge
  <2>2. /\ f2 \in TopUpFunds /\ f["locked"] > 0 /\ f2["locked"] = f["locked"] - 1
        /\ f2["bridged"] = f["bridged"] + 1 /\ f2["icp"] = f["icp"] /\ f2["cmc"] = f["cmc"]
    BY <1>1, <1>2, <2>1
  <2>3. Leg(name) = 1 /\ Leg(Successor(name)) = 2
    BY <1>5, Successors DEF Leg, OnTheWay1, OnTheWay2
  <2>4. FundsFollow(f2, f, Successor(name), name)
    BY <2>2, <2>3 DEF FundsFollow, LegFollows, One
  <2> QED BY <1>5, <2>2, <2>4, Successors DEF UnderWay, BeforeLock, OnTheWay1, OnTheWay2
<1>6. CASE name = "SwappingToICP"
  <2>1. f2 \in Moved(f, "bridged", "icp")
    BY <1>6 DEF Effects, SwapToIcp
  <2>2. /\ f2 \in TopUpFunds /\ f["bridged"] > 0 /\ f2["bridged"] = f["bridged"] - 1
        /\ f2["icp"] = f["icp"] + 1 /\ f2["locked"] = f["locked"] /\ f2["cmc"] = f["cmc"]
    BY <1>1, <1>2, <2>1
  <2>3. Leg(name) = 2 /\ Leg(Successor(name)) = 3
    BY <1>6, Successors DEF Leg, OnTheWay1, OnTheWay2
  <2>4. FundsFollow(f2, f, Successor(name), name)
    BY <2>2, <2>3 DEF FundsFollow, LegFollows, One
  <2> QED BY <1>6, <2>2, <2>4, Successors DEF UnderWay, BeforeLock, OnTheWay1, OnTheWay2
<1>7. CASE name = "TransferringToCMC"
  <2>1. f2 \in Moved(f, "icp", "cmc")
    BY <1>7 DEF Effects, TransferToCmc
  <2>2. /\ f2 \in TopUpFunds /\ f["icp"] > 0 /\ f2["icp"] = f["icp"] - 1
        /\ f2["cmc"] = f["cmc"] + 1 /\ f2["locked"] = f["locked"] /\ f2["bridged"] = f["bridged"]
    BY <1>1, <1>2, <2>1
  <2>3. Leg(name) = 3 /\ Leg(Successor(name)) = 4
    BY <1>7, Successors DEF Leg, OnTheWay1, OnTheWay2
  <2>4. FundsFollow(f2, f, Successor(name), name)
    BY <2>2, <2>3 DEF FundsFollow, LegFollows, One
  <2> QED BY <1>7, <2>2, <2>4, Successors DEF UnderWay, BeforeLock, OnTheWay1, OnTheWay2
<1>8. CASE name = "MintingCycles"
  <2>1. (f["cmc"] = 0 /\ f2 = f) \/ f2 \in Moved(f, "cmc", "minted")
    BY <1>8 DEF Effects, MintCycles
  <2>2. /\ f2 \in TopUpFunds /\ f2["locked"] = f["locked"] /\ f2["bridged"] = f["bridged"]
        /\ f2["icp"] = f["icp"]
        /\ (f["cmc"] = 0 /\ f2["cmc"] = 0) \/ (f["cmc"] > 0 /\ f2["cmc"] = f["cmc"] - 1)
    BY <1>1, <1>2, <2>1
  <2>3. Leg(name) = 4 /\ Leg(Successor(name)) = 0
    BY <1>8, Successors DEF Leg, OnTheWay1, OnTheWay2
  <2>4. FundsFollow(f2, f, Successor(name), name)
    BY <2>2, <2>3 DEF FundsFollow, LegFollows, One
  <2> QED BY <1>8, <2>2, <2>4, Successors DEF UnderWay, BeforeLock, OnTheWay1, OnTheWay2
<1> QED BY <1>3, <1>4, <1>5, <1>6, <1>7, <1>8

\* On one leg: a unit that goes along with its pipeline owes no more, one that is left behind
\* owes one more.
LEMMA LegOwes ==
  ASSUME NEW x \in Nat, NEW x2 \in Nat, NEW t \in {0, 1}, NEW t2 \in {0, 1}, NEW b \in {0, 1},
         LegFollows(x2, x, t2, t)
  PROVE  /\ Excess(x2, t2 + b) <= Excess(x, t + b) /\ Excess(x2, b) <= Excess(x, t + b) + t2
         /\ Excess(x2, t2) <= Excess(x, t)
         /\ Excess(x, t + b) \in Nat /\ Excess(x2, t2 + b) \in Nat /\ Excess(x2, b) \in Nat
         /\ Excess(x, b) \in Nat /\ Excess(x2, t2) \in Nat
  BY DEF LegFollows, Excess

\* The dispatch in stage name is the only one, or goes along with one in stage b.
LEMMA OwedFollows ==
  ASSUME NEW f \in TopUpFunds, NEW f2 \in TopUpFunds, NEW name \in UnderWay, NEW next,
         NEW b \in UnderWay \cup {"Idle"}, FundsFollow(f2, f, next, name), NEW s, NEW s2
  PROVE  /\ next \in UnderWay => Owed(f2, next, next, b) <= Owed(f, s, name, b)
         /\ next \in UnderWay => Owed(f2, next, "Idle", b) <= Owed(f, s, name, b)
         /\ next = "Completed" => Owed(f2, next, "Idle", b) + 1 <= Owed(f, s, name, b)
         /\ Owed(f2, s2, "Idle", b) <= Owed(f, s, name, b) + One(s2 \in UnderWay)
         /\ Owed(f, s, name, b) \in Nat /\ Owed(f2, s2, "Idle", b) \in Nat
<1> DEFINE x1 == f["locked"]   y1 == f2["locked"]
           x2 == f["bridged"]  y2 == f2["bridged"]
           x3 == f["icp"]      y3 == f2["icp"]
           x4 == f["cmc"]      y4 == f2["cmc"]
           T(n, l) == One(Leg(n) = l)
<1>1. /\ x1 \in Nat /\ x2 \in Nat /\ x3 \in Nat /\ x4 \in Nat
      /\ y1 \in Nat /\ y2 \in Nat /\ y3 \in Nat /\ y4 \in Nat
  BY DEF TopUpFunds, Places
<1>2. /\ LegFollows(y1, x1, T(next, 1), T(name, 1)) /\ LegFollows(y2, x2, T(next, 2), T(name, 2))
      /\ LegFollows(y3, x3, T(next, 3), T(name, 3)) /\ LegFollows(y4, x4, T(next, 4), T(name, 4))
  BY DEF FundsFollow
<1>3. \A n, l : T(n, l) \in {0, 1}
  BY DEF One
<1>4. \A n : T(n, 1) + T(n, 2) + T(n, 3) + T(n, 4) <= 1
  BY DEF One, Leg
<1>5. /\ T("Idle", 1) = 0 /\ T("Idle", 2) = 0 /\ T("Idle", 3) = 0 /\ T("Idle", 4) = 0
      /\ T("Completed", 1) = 0 /\ T("Completed", 2) = 0
      /\ T("Completed", 3) = 0 /\ T("Completed", 4) = 0
      /\ One(name \in UnderWay) = 1 /\ One("Idle" \in UnderWay) = 0 /\ "Completed" \notin UnderWay
  BY DEF One, Leg, UnderWay, BeforeLock, OnTheWay1, OnTheWay2
<1> HIDE DEF x1, x2, x3, x4, y1, y2, y3, y4, T
<1>6. /\ Excess(y1, T(next, 1) + T(b, 1)) <= Excess(x1, T(name, 1) + T(b, 1))
      /\ Excess(y2, T(next, 2) + T(b, 2)) <= Excess(x2, T(name, 2) + T(b, 2))
      /\ Excess(y3, T(next, 3) + T(b, 3)) <= Excess(x3, T(name, 3) + T(b, 3))
      /\ Excess(y4, T(next, 4) + T(b, 4)) <= Excess(x4, T(name, 4) + T(b, 4))
      /\ Excess(y1, T(b, 1)) <= Excess(x1, T(name, 1) + T(b, 1)) + T(next, 1)
      /\ Excess(y2, T(b, 2)) <= Excess(x2, T(name, 2) + T(b, 2)) + T(next, 2)
      /\ Excess(y3, T(b, 3)) <= Excess(x3, T(name, 3) + T(b, 3)) + T(next, 3)
      /\ Excess(y4, T(b, 4)) <= Excess(x4, T(name, 4) + T(b, 4)) + T(next, 4)
  <2>1. ASSUME NEW l, NEW x \in Nat, NEW y \in Nat, LegFollows(y, x, T(next, l), T(name, l))
        PROVE  /\ Excess(y, T(next, l) + T(b, l)) <= Excess(x, T(name, l) + T(b, l))
               /\ Excess(y, T(b, l)) <= Excess(x, T(name, l) + T(b, l)) + T(next, l)
    <3>1. T(next, l) \in {0, 1} /\ T(name, l) \in {0, 1} /\ T(b, l) \in {0, 1}
      BY <1>3
    <3> QED BY <2>1, <3>1, LegOwes
  <2> QED BY <1>1, <1>2, <2>1
<1>7. \A x \in Nat, i, j \in {0, 1} : /\ Excess(x, i + j) \in Nat /\ Excess(x, i) \in Nat
                                      /\ Excess(x, i + j) <= Excess(x, i)
  BY DEF Excess
<1>8. Owed(f, s, name, b) = Excess(x1, T(name, 1) + T(b, 1)) + Excess(x2, T(name, 2) + T(b, 2))
                              + Excess(x3, T(name, 3) + T(b, 3)) + Excess(x4, T(name, 4) + T(b, 4))
                              + (1 + One(b \in UnderWay))
  <2>1. Busy(name, b)
    BY DEF Busy
  <2>2. \A l : Carried(s, name, b, l) = T(name, l) + T(b, l)
    BY <2>1 DEF Carried, T
  <2>3. Carriers(s, name, b) = 1 + One(b \in UnderWay)
    BY <1>5, <2>1 DEF Carriers
  <2> QED BY <2>2, <2>3 DEF Owed, x1, x2, x3, x4
<1>9. ASSUME next \in UnderWay
      PROVE  Owed(f2, next, next, b) = Excess(y1, T(next, 1) + T(b, 1)) + Excess(y2, T(next, 2) + T(b, 2))
                              + Excess(y3, T(next, 3) + T(b, 3)) + Excess(y4, T(next, 4) + T(b, 4))
                              + (1 + One(b \in UnderWay))
  <2>1. Busy(next, b) /\ One(next \in UnderWay) = 1
    BY <1>9 DEF Busy, One
  <2>2. \A l : Carried(next, next, b, l) = T(next, l) + T(b, l)
    BY <2>1 DEF Carried, T
  <2>3. Carriers(next, next, b) = 1 + One(b \in UnderWay)
    BY <2>1 DEF Carriers
  <2> QED BY <2>2, <2>3 DEF Owed, y1, y2, y3, y4
<1>10. ASSUME NEW z
       PROVE  /\ b \in UnderWay =>
                   Owed(f2, z, "Idle", b) = Excess(y1, T(b, 1)) + Excess(y2, T(b, 2))
                              + Excess(y3, T(b, 3)) + Excess(y4, T(b, 4)) + 1
              /\ b = "Idle" =>
                   Owed(f2, z, "Idle", b) = Excess(y1, T(z, 1)) + Excess(y2, T(z, 2))
                              + Excess(y3, T(z, 3)) + Excess(y4, T(z, 4)) + One(z \in UnderWay)
  <2>1. CASE b \in UnderWay
    <3>1. /\ Busy("Idle", b) /\ One(b \in UnderWay) = 1 /\ One("Idle" \in UnderWay) = 0 /\ b # "Idle"
          /\ Carriers(z, "Idle", b) = 1
      BY <1>5, <2>1 DEF Busy, One, Carriers
    <3>2. \A l : Carried(z, "Idle", b, l) = T("Idle", l) + T(b, l)
      BY <3>1 DEF Carried, T
    <3>3. /\ Carried(z, "Idle", b, 1) = T(b, 1) /\ Carried(z, "Idle", b, 2) = T(b, 2)
          /\ Carried(z, "Idle", b, 3) = T(b, 3) /\ Carried(z, "Idle", b, 4) = T(b, 4)
      BY <1>3, <1>5, <3>2
    <3> QED BY <3>1, <3>3 DEF Owed, y1, y2, y3, y4
  <2>2. CASE b = "Idle"
    <3>1. ~Busy("Idle", b) /\ b \notin UnderWay
      BY <2>2 DEF Busy, UnderWay, BeforeLock, OnTheWay1, OnTheWay2
    <3> QED BY <3>1 DEF Owed, Carried, Carriers, y1, y2, y3, y4, T
  <2> QED BY <2>1, <2>2
<1>11. One(b \in UnderWay) = (IF b \in UnderWay THEN 1 ELSE 0) /\ One(s2 \in UnderWay) \in {0, 1}
  BY DEF One
<1>12. ASSUME next \in UnderWay PROVE Owed(f2, next, next, b) <= Owed(f, s, name, b)
  <2> DEFINE a1 == Excess(x1, T(name, 1) + T(b, 1))  b1 == Excess(y1, T(next, 1) + T(b, 1))
             a2 == Excess(x2, T(name, 2) + T(b, 2))  b2 == Excess(y2, T(next, 2) + T(b, 2))
             a3 == Excess(x3, T(name, 3) + T(b, 3))  b3 == Excess(y3, T(next, 3) + T(b, 3))
             a4 == Excess(x4, T(name, 4) + T(b, 4))  b4 == Excess(y4, T(next, 4) + T(b, 4))
             c == 1 + One(b \in UnderWay)
  <2>1. /\ a1 \in Nat /\ a2 \in Nat /\ a3 \in Nat /\ a4 \in Nat
        /\ b1 \in Nat /\ b2 \in Nat /\ b3 \in Nat /\ b4 \in Nat
    BY <1>1, <1>3, <1>7
  <2>2. b1 <= a1 /\ b2 <= a2 /\ b3 <= a3 /\ b4 <= a4
    BY <1>6
  <2>3. Owed(f, s, name, b) = a1 + a2 + a3 + a4 + c /\ Owed(f2, next, next, b) = b1 + b2 + b3 + b4 + c
    BY <1>8, <1>9, <1>12
  <2>4. c \in Nat
    BY <1>11
  <2> HIDE DEF a1, a2, a3, a4, b1, b2, b3, b4, c
  <2> QED BY <2>1, <2>2, <2>3, <2>4
<1>13. ASSUME b \in UnderWay
       PROVE  /\ Owed(f2, s2, "Idle", b) <= Owed(f, s, name, b)
              /\ next \in UnderWay => Owed(f2, next, "Idle", b) <= Owed(f, s, name, b)
              /\ next = "Completed" => Owed(f2, next, "Idle", b) + 1 <= Owed(f, s, name, b)
              /\ Owed(f, s, name, b) \in Nat /\ Owed(f2, s2, "Idle", b) \in Nat
  <2> DEFINE R == Excess(y1, T(b, 1)) + Excess(y2, T(b, 2)) + Excess(y3, T(b, 3)) + Excess(y4, T(b, 4))
             W == Excess(x1, T(name, 1) + T(b, 1)) + Excess(x2, T(name, 2) + T(b, 2))
                    + Excess(x3, T(name, 3) + T(b, 3)) + Excess(x4, T(name, 4) + T(b, 4))
             N == T(next, 1) + T(next, 2) + T(next, 3) + T(next, 4)
  <2>1. R \in Nat /\ W \in Nat
    BY <1>1, <1>3, <1>7
  <2>2. N \in Nat /\ N <= 1 /\ (next = "Completed" => N = 0)
    BY <1>3, <1>4, <1>5
  <2>3. R <= W + N
    <3>1. ASSUME NEW r1 \in Nat, NEW r2 \in Nat, NEW r3 \in Nat, NEW r4 \in Nat,
                 NEW w1 \in Nat, NEW w2 \in Nat, NEW w3 \in Nat, NEW w4 \in Nat,
                 NEW n1 \in Nat, NEW n2 \in Nat, NEW n3 \in Nat, NEW n4 \in Nat,
                 r1 <= w1 + n1, r2 <= w2 + n2, r3 <= w3 + n3, r4 <= w4 + n4
          PROVE  r1 + r2 + r3 + r4 <= w1 + w2 + w3 + w4 + (n1 + n2 + n3 + n4)
      BY <3>1
    <3>2. /\ Excess(y1, T(b, 1)) \in Nat /\ Excess(y2, T(b, 2)) \in Nat
          /\ Excess(y3, T(b, 3)) \in Nat /\ Excess(y4, T(b, 4)) \in Nat
          /\ Excess(x1, T(name, 1) + T(b, 1)) \in Nat /\ Excess(x2, T(name, 2) + T(b, 2)) \in Nat
          /\ Excess(x3, T(name, 3) + T(b, 3)) \in Nat /\ Excess(x4, T(name, 4) + T(b, 4)) \in Nat
      BY <1>1, <1>3, <1>7
    <3>3. \A l : T(next, l) \in Nat
      BY <1>3
    <3> QED BY <1>6, <3>1, <3>2, <3>3
  <2>4. Owed(f, s, name, b) = W + (1 + 1) /\ \A z : Owed(f2, z, "Idle", b) = R + 1
    BY <1>8, <1>10, <1>11, <1>13
  <2> HIDE DEF R, W, N
  <2> QED BY <2>1, <2>2, <2>3, <2>4
<1>14. ASSUME b = "Idle"
       PROVE  /\ Owed(f2, s2, "Idle", b) <= Owed(f, s, name, b) + One(s2 \in UnderWay)
              /\ next \in UnderWay => Owed(f2, next, "Idle", b) <= Owed(f, s, name, b)
              /\ next = "Completed" => Owed(f2, next, "Idle", b) + 1 <= Owed(f, s, name, b)
              /\ Owed(f, s, name, b) \in Nat /\ Owed(f2, s2, "Idle", b) \in Nat
  <2> DEFINE R(z) == Excess(y1, T(z, 1)) + Excess(y2, T(z, 2)) + Excess(y3, T(z, 3)) + Excess(y4, T(z, 4))
             Z == Excess(y1, 0) + Excess(y2, 0) + Excess(y3, 0) + Excess(y4, 0)
             W == Excess(x1, T(name, 1)) + Excess(x2, T(name, 2)) + Excess(x3, T(name, 3))
                    + Excess(x4, T(name, 4))
  <2>1. /\ T(b, 1) = 0 /\ T(b, 2) = 0 /\ T(b, 3) = 0 /\ T(b, 4) = 0 /\ b \notin UnderWay
    BY <1>5, <1>14 DEF UnderWay, BeforeLock, OnTheWay1, OnTheWay2
  <2>2. \A z \in {next, s2} : R(z) \in Nat /\ R(z) <= Z
    <3> TAKE z \in {next, s2}
    <3>1. /\ 0 + T(z, 1) = T(z, 1) /\ 0 + T(z, 2) = T(z, 2) /\ 0 + T(z, 3) = T(z, 3)
          /\ 0 + T(z, 4) = T(z, 4) /\ 0 \in {0, 1}
      BY <1>3
    <3>2. /\ Excess(y1, T(z, 1)) <= Excess(y1, 0) /\ Excess(y2, T(z, 2)) <= Excess(y2, 0)
          /\ Excess(y3, T(z, 3)) <= Excess(y3, 0) /\ Excess(y4, T(z, 4)) <= Excess(y4, 0)
      BY <1>1, <1>3, <1>7, <3>1
    <3> QED BY <1>1, <1>3, <1>7, <3>1, <3>2
  <2>3. W \in Nat /\ Z \in Nat
    BY <1>1, <1>3, <1>7
  <2>4. Owed(f, s, name, b) = W + 1
    <3>1. /\ T(name, 1) + T(b, 1) = T(name, 1) /\ T(name, 2) + T(b, 2) = T(name, 2)
          /\ T(name, 3) + T(b, 3) = T(name, 3) /\ T(name, 4) + T(b, 4) = T(name, 4)
      BY <1>3, <2>1
    <3>2. Owed(f, s, name, b) = W + (1 + One(b \in UnderWay))
      BY <1>8, <3>1
    <3> QED BY <1>11, <2>1, <2>3, <3>2
  <2>5. \A z : Owed(f2, z, "Idle", b) = R(z) + One(z \in UnderWay)
    BY <1>10, <1>14
  <2>6. R(next) <= W
    <3>1. /\ T(name, 1) + 0 = T(name, 1) /\ T(name, 2) + 0 = T(name, 2) /\ T(name, 3) + 0 = T(name, 3)
          /\ T(name, 4) + 0 = T(name, 4) /\ T(next, 1) + 0 = T(next, 1) /\ T(next, 2) + 0 = T(next, 2)
          /\ T(next, 3) + 0 = T(next, 3) /\ T(next, 4) + 0 = T(next, 4)
      BY <1>3
    <3> QED BY <1>1, <1>3, <1>6, <1>7, <2>1, <3>1
  <2>7. Z <= W + T(next, 1) + T(next, 2) + T(next, 3) + T(next, 4)
    <3>1. /\ T(name, 1) + 0 = T(name, 1) /\ T(name, 2) + 0 = T(name, 2) /\ T(name, 3) + 0 = T(name, 3)
          /\ T(name, 4) + 0 = T(name, 4)
      BY <1>3
    <3>2. /\ Excess(y1, 0) <= Excess(x1, T(name, 1)) + T(next, 1)
          /\ Excess(y2, 0) <= Excess(x2, T(name, 2)) + T(next, 2)
          /\ Excess(y3, 0) <= Excess(x3, T(name, 3)) + T(next, 3)
          /\ Excess(y4, 0) <= Excess(x4, T(name, 4)) + T(next, 4)
      BY <1>6, <2>1, <3>1
    <3> QED BY <1>1, <1>3, <1>7, <3>2
  <2>8. Z <= W + 1
    BY <1>3, <1>4, <2>3, <2>7
  <2>9. One(next \in UnderWay) = (IF next \in UnderWay THEN 1 ELSE 0)
    BY DEF One
  <2> HIDE DEF R, Z, W
  <2>10. R(s2) \in Nat /\ R(s2) <= Z /\ R(next) \in Nat
    BY <2>2
  <2> QED BY <1>5, <1>11, <2>3, <2>4, <2>5, <2>6, <2>8, <2>9, <2>10
<1>15. One(s2 \in UnderWay) \in Nat
  BY <1>11
<1> QED BY <1>12, <1>13, <1>14, <1>15

\* It does not matter which of the two dispatches is which.
LEMMA OwedSymmetric ==
  ASSUME NEW f, NEW s, NEW a, NEW b
  PROVE  Owed(f, s, a, b) = Owed(f, s, b, a)
<1>1. \A l : One(Leg(a) = l) \in Nat /\ One(Leg(b) = l) \in Nat
  BY DEF One
<1>2. One(a \in UnderWay) \in Nat /\ One(b \in UnderWay) \in Nat
  BY DEF One
<1>3. Busy(a, b) <=> Busy(b, a)
  BY DEF Busy
<1>4. \A l : Carried(s, a, b, l) = Carried(s, b, a, l)
  BY <1>1, <1>3 DEF Carried
<1>5. Carriers(s, a, b) = Carriers(s, b, a)
  BY <1>2, <1>3 DEF Carriers
<1> QED BY <1>4, <1>5 DEF Owed

\* A run that starts, and a dispatch that picks up the stored stage, owe at most one more.
LEMMA OwedStarts ==
  ASSUME NEW f \in TopUpFunds, NEW a \in UnderWay \cup {"Idle"}, NEW b \in UnderWay \cup {"Idle"}, NEW s
  PROVE  /\ s \in {"Idle", "Completed", "Failed"} => Owed(f, "Preflight", a, b) <= Owed(f, s, a, b) + 1
         /\ s \in UnderWay /\ b = "Idle" => Owed(f, s, s, b) = Owed(f, s, "Idle", b)
         /\ s \in UnderWay /\ b # "Idle" => Owed(f, s, s, b) <= Owed(f, s, "Idle", b) + 1
         /\ Owed(f, s, a, b) \in Nat
<1>1. f["locked"] \in Nat /\ f["bridged"] \in Nat /\ f["icp"] \in Nat /\ f["cmc"] \in Nat
  BY DEF TopUpFunds, Places
<1>2. \A z, c, d, l : Carriers(z, c, d) \in Nat /\ Carried(z, c, d, l) \in Nat
  BY DEF Carriers, Carried, One
<1>3. \A x, t \in Nat : Excess(x, t) \in Nat
  BY DEF Excess
<1>4. ASSUME NEW z, NEW c, NEW d
      PROVE  /\ Excess(f["locked"], Carried(z, c, d, 1)) \in Nat
             /\ Excess(f["bridged"], Carried(z, c, d, 2)) \in Nat
             /\ Excess(f["icp"], Carried(z, c, d, 3)) \in Nat
             /\ Excess(f["cmc"], Carried(z, c, d, 4)) \in Nat
             /\ Owed(f, z, c, d) \in Nat
  <2>1. /\ Carried(z, c, d, 1) \in Nat /\ Carried(z, c, d, 2) \in Nat
        /\ Carried(z, c, d, 3) \in Nat /\ Carried(z, c, d, 4) \in Nat /\ Carriers(z, c, d) \in Nat
    BY <1>2
  <2>2. /\ Excess(f["locked"], Carried(z, c, d, 1)) \in Nat
        /\ Excess(f["bridged"], Carried(z, c, d, 2)) \in Nat
        /\ Excess(f["icp"], Carried(z, c, d, 3)) \in Nat
        /\ Excess(f["cmc"], Carried(z, c, d, 4)) \in Nat
    BY <1>1, <1>3, <2>1
  <2> QED BY <2>1, <2>2 DEF Owed
<1>5. "Idle" \notin UnderWay /\ "Preflight" \in UnderWay /\ "Completed" \notin UnderWay /\ "Failed" \notin UnderWay
  BY DEF UnderWay, BeforeLock, OnTheWay1, OnTheWay2
<1>6. Leg("Idle") = 0 /\ Leg("Preflight") = 0 /\ Leg("Completed") = 0 /\ Leg("Failed") = 0
  BY DEF Leg, OnTheWay1, OnTheWay2
<1>7. ASSUME s \in {"Idle", "Completed", "Failed"}
      PROVE  Owed(f, "Preflight", a, b) <= Owed(f, s, a, b) + 1
  <2>1. \A l : Carried("Preflight", a, b, l) = Carried(s, a, b, l)
    BY <1>6, <1>7 DEF Carried
  <2>2. Carriers("Preflight", a, b) <= Carriers(s, a, b) + 1
    BY <1>2, <1>5, <1>7 DEF Carriers, One
  <2> DEFINE E == Excess(f["locked"], Carried(s, a, b, 1)) + Excess(f["bridged"], Carried(s, a, b, 2))
                    + Excess(f["icp"], Carried(s, a, b, 3)) + Excess(f["cmc"], Carried(s, a, b, 4))
  <2>3. Owed(f, "Preflight", a, b) = E + Carriers("Preflight", a, b) /\ Owed(f, s, a, b) = E + Carriers(s, a, b)
    BY <2>1 DEF Owed
  <2>4. E \in Nat
    BY <1>4
  <2> HIDE DEF E
  <2> QED BY <1>2, <2>2, <2>3, <2>4
<1>8. ASSUME s \in UnderWay, b = "Idle" PROVE Owed(f, s, s, b) = Owed(f, s, "Idle", b)
  <2>1. Busy(s, b) /\ ~Busy("Idle", b) /\ b \notin UnderWay
    BY <1>5, <1>8 DEF Busy
  <2>2. \A l \in 1..4 : Carried(s, s, b, l) = Carried(s, "Idle", b, l)
    BY <1>6, <1>8, <2>1 DEF Carried, One
  <2>3. Carriers(s, s, b) = Carriers(s, "Idle", b)
    BY <1>8, <2>1 DEF Carriers, One
  <2> QED BY <2>2, <2>3 DEF Owed
<1>9. ASSUME s \in UnderWay, b # "Idle" PROVE Owed(f, s, s, b) <= Owed(f, s, "Idle", b) + 1
  <2>1. Busy(s, b) /\ Busy("Idle", b)
    BY <1>9 DEF Busy
  <2>2. Carriers(s, s, b) = Carriers(s, "Idle", b) + 1
    BY <1>5, <1>9, <2>1 DEF Carriers, One
  <2>3. \A l \in 1..4 : Carried(s, s, b, l) >= Carried(s, "Idle", b, l)
    BY <1>6, <2>1 DEF Carried, One
  <2>4. \A x, t, u \in Nat : t >= u => Excess(x, t) <= Excess(x, u)
    BY DEF Excess
  <2>5. /\ Excess(f["locked"], Carried(s, s, b, 1)) <= Excess(f["locked"], Carried(s, "Idle", b, 1))
        /\ Excess(f["bridged"], Carried(s, s, b, 2)) <= Excess(f["bridged"], Carried(s, "Idle", b, 2))
        /\ Excess(f["icp"], Carried(s, s, b, 3)) <= Excess(f["icp"], Carried(s, "Idle", b, 3))
        /\ Excess(f["cmc"], Carried(s, s, b, 4)) <= Excess(f["cmc"], Carried(s, "Idle", b, 4))
    BY <1>1, <1>2, <2>3, <2>4
  <2>6. ASSUME NEW r1 \in Nat, NEW r2 \in Nat, NEW r3 \in Nat, NEW r4 \in Nat, NEW r \in Nat,
               NEW w1 \in Nat, NEW w2 \in Nat, NEW w3 \in Nat, NEW w4 \in Nat, NEW w \in Nat,
               r1 <= w1, r2 <= w2, r3 <= w3, r4 <= w4, r = w + 1
        PROVE  r1 + r2 + r3 + r4 + r <= w1 + w2 + w3 + w4 + w + 1
    BY <2>6
  <2>7. \A c \in {s, "Idle"} : /\ Excess(f["locked"], Carried(s, c, b, 1)) \in Nat
                               /\ Excess(f["bridged"], Carried(s, c, b, 2)) \in Nat
                               /\ Excess(f["icp"], Carried(s, c, b, 3)) \in Nat
                               /\ Excess(f["cmc"], Carried(s, c, b, 4)) \in Nat
    BY <1>4
  <2> QED BY <1>2, <2>2, <2>5, <2>6, <2>7 DEF Owed
<1> QED BY <1>4, <1>7, <1>8, <1>9

\* The invariant seen from one of the dispatches.
LEMMA TopUpSeenFrom ==
  ASSUME TopUpInv, NEW e \in 1..2
  PROVE  /\ 3 - e \in 1..2 /\ 3 - e # e
         /\ DispatchFits(advancing[e]) /\ DispatchFits(advancing[3 - e])
         /\ LocksFit(topups, stage.name, advancing[e].name, advancing[3 - e].name)
         /\ UnitsFit(topups, funds, stage.name, advancing[e].name, advancing[3 - e].name)
<1>1. (e = 1 /\ 3 - e = 2) \/ (e = 2 /\ 3 - e = 1)
  OBVIOUS
<1>2. DispatchFits(advancing[1]) /\ DispatchFits(advancing[2])
  BY DEF TopUpInv
<1>3. LocksFit(topups, stage.name, advancing[2].name, advancing[1].name)
  BY DEF TopUpInv, LocksFit, One, TopUpBooks
<1>4. UnitsFit(topups, funds, stage.name, advancing[2].name, advancing[1].name)
  BY OwedSymmetric DEF TopUpInv, UnitsFit
<1> QED BY <1>1, <1>2, <1>3, <1>4 DEF TopUpInv

\* A step of one dispatch that keeps what is seen from it.
LEMMA TopUpSeenTo ==
  ASSUME TopUpInv, NEW e \in 1..2, NEW d, advancing' = [advancing EXCEPT ![e] = d], DispatchFits(d),
         stage'.name \in UnderWay \cup {"Idle", "Completed", "Failed"},
         {"name", "polls"} \subseteq DOMAIN stage', funds' \in TopUpFunds, topups' \in TopUpBooks,
         LocksFit(topups', stage'.name, d.name, advancing[3 - e].name),
         UnitsFit(topups', funds', stage'.name, d.name, advancing[3 - e].name)
  PROVE  TopUpInv'
<1>1. DOMAIN advancing' = 1..2 /\ advancing'[e] = d /\ \A o \in 1..2 : o # e => advancing'[o] = advancing[o]
  BY DEF TopUpInv
<1>2. \A o \in 1..2 : DispatchFits(advancing'[o])
  BY <1>1 DEF TopUpInv
<1>3. CASE e = 1
  <2>1. 3 - e = 2 /\ advancing'[1] = d /\ advancing'[2] = advancing[2]
    BY <1>1, <1>3
  <2> QED BY <1>1, <1>2, <2>1 DEF TopUpInv
<1>4. CASE e = 2
  <2>1. 3 - e = 1 /\ advancing'[2] = d /\ advancing'[1] = advancing[1]
    BY <1>1, <1>4
  <2>2. LocksFit(topups', stage'.name, advancing[1].name, d.name)
    BY <2>1 DEF LocksFit, One, TopUpBooks
  <2>3. UnitsFit(topups', funds', stage'.name, advancing[1].name, d.name)
    BY <2>1, OwedSymmetric DEF UnitsFit
  <2> QED BY <1>1, <1>2, <2>1, <2>2, <2>3 DEF TopUpInv
<1> QED BY <1>3, <1>4

\* A dispatch is idle or in a stage of the pipeline.
LEMMA DispatchName ==
  ASSUME NEW d, DispatchFits(d)
  PROVE  /\ d.name \in UnderWay \cup {"Idle"} /\ {"name", "polls"} \subseteq DOMAIN d
         /\ d # NotAdvancing <=> d.name \in UnderWay
         /\ "Idle" \notin UnderWay /\ "Completed" \notin UnderWay /\ "Failed" \notin UnderWay
<1>1. /\ NotAdvancing.name = "Idle" /\ {"name", "polls"} \subseteq DOMAIN NotAdvancing
      /\ "Idle" \notin UnderWay /\ "Completed" \notin UnderWay /\ "Failed" \notin UnderWay
  BY DEF NotAdvancing, Stage, UnderWay, BeforeLock, OnTheWay1, OnTheWay2
<1> QED BY <1>1 DEF DispatchFits

\* The books of a call: a lock is counted.
LEMMA CountedBooks ==
  ASSUME topups \in TopUpBooks, NEW name
  PROVE  /\ Counted(name) \in TopUpBooks
         /\ Counted(name).locks \in {topups.locks, topups.locks + 1}
         /\ Counted(name).locks = topups.locks + 1 => name = "LockingUSDC"
         /\ Counted(name).runs = topups.runs /\ Counted(name).failed = topups.failed
         /\ Counted(name).completed = topups.completed /\ Counted(name).lapses = topups.lapses
<1> DEFINE k == topups.locks + (IF name = "LockingUSDC" /\ funds' # funds THEN 1 ELSE 0)
<1>1. topups.locks \in Nat
  BY DEF TopUpBooks
<1>2. k \in Nat /\ k \in {topups.locks, topups.locks + 1} /\ (k = topups.locks + 1 => name = "LockingUSDC")
  BY <1>1
<1>3. Counted(name) = [topups EXCEPT !.locks = k]
  BY DEF Counted
<1> HIDE DEF k
<1> QED BY <1>2, <1>3 DEF TopUpBooks

\* A run starts: it will lock once, and its unit will be on its way.
LEMMA TopUpStartStep ==
  ASSUME TopUpInv, stage.name \in {"Idle", "Completed", "Failed"}, stage' = Stage("Preflight"),
         topups' = [topups EXCEPT !.runs = @ + 1], UNCHANGED <<advancing, funds>>
  PROVE  TopUpInv'
<1> DEFINE a == advancing[1].name
           b == advancing[2].name
<1>1. /\ topups \in TopUpBooks /\ funds \in TopUpFunds /\ DispatchFits(advancing[1])
      /\ DispatchFits(advancing[2]) /\ LocksFit(topups, stage.name, a, b)
      /\ UnitsFit(topups, funds, stage.name, a, b)
  BY DEF TopUpInv
<1>2. a \in UnderWay \cup {"Idle"} /\ b \in UnderWay \cup {"Idle"}
  BY <1>1, DispatchName
<1>3. /\ topups.runs \in Nat /\ topups.locks \in Nat /\ topups.lapses \in Nat /\ topups.failed \in Nat
      /\ {"runs", "locks", "lapses", "failed", "completed"} \subseteq DOMAIN topups
  BY <1>1 DEF TopUpBooks
<1>4. /\ topups' \in TopUpBooks /\ topups'.runs = topups.runs + 1 /\ topups'.locks = topups.locks
      /\ topups'.lapses = topups.lapses /\ topups'.failed = topups.failed
  BY <1>1, <1>3 DEF TopUpBooks
<1>5. /\ stage'.name = "Preflight" /\ {"name", "polls"} \subseteq DOMAIN stage'
      /\ "Preflight" \in UnderWay /\ stage.name \notin UnderWay
  BY DEF Stage, UnderWay, BeforeLock, OnTheWay1, OnTheWay2
<1> HIDE DEF a, b
<1>6. LocksFit(topups', stage'.name, a, b)
  <2>1. \A x : One(x \in BeforeLock) \in {0, 1}
    BY DEF One
  <2> QED BY <1>1, <1>3, <1>4, <2>1 DEF LocksFit
<1>7. UnitsFit(topups', funds, stage'.name, a, b)
  <2>1. Owed(funds, "Preflight", a, b) <= Owed(funds, stage.name, a, b) + 1
    BY <1>1, <1>2, OwedStarts
  <2>2. Owed(funds, "Preflight", a, b) \in Nat /\ Owed(funds, stage.name, a, b) \in Nat
    BY <1>1, <1>2, OwedStarts
  <2>3. One(stage'.name \in UnderWay) = 1 /\ One(stage.name \in UnderWay) = 0
    BY <1>5 DEF One
  <2>4. Owed(funds, stage.name, a, b) <= topups.failed + topups.lapses + 0
    BY <1>1, <2>3 DEF UnitsFit
  <2>5. Owed(funds, "Preflight", a, b) <= topups.failed + topups.lapses + 1
    BY <1>3, <2>1, <2>2, <2>4
  <2> QED BY <1>4, <1>5, <2>3, <2>5 DEF UnitsFit
<1> QED BY <1>1, <1>4, <1>5, <1>6, <1>7 DEF TopUpInv, a, b

\* A dispatch picks up the stored stage, alone or over another one.
LEMMA TopUpDispatchStep == ASSUME TopUpInv, NEW e \in 1..2, TopUpDispatch(e) PROVE TopUpInv'
<1> DEFINE a == advancing[e].name
           b == advancing[3 - e].name
           s == stage.name
<1>1. /\ ~Active(e) /\ s \notin Terminal \cup {"Idle"} /\ advancing' = [advancing EXCEPT ![e] = stage]
      /\ topups' = IF Active(3 - e) THEN [topups EXCEPT !.lapses = @ + 1] ELSE topups
      /\ UNCHANGED <<stage, funds>>
  BY DEF TopUpDispatch
<1>2. /\ topups \in TopUpBooks /\ funds \in TopUpFunds /\ {"name", "polls"} \subseteq DOMAIN stage
      /\ s \in UnderWay
  BY <1>1 DEF TopUpInv, Terminal
<1>3. /\ DispatchFits(advancing[e]) /\ DispatchFits(advancing[3 - e]) /\ LocksFit(topups, s, a, b)
      /\ UnitsFit(topups, funds, s, a, b)
  BY TopUpSeenFrom
<1>4. a = "Idle" /\ b \in UnderWay \cup {"Idle"} /\ (Active(3 - e) <=> b \in UnderWay) /\ "Idle" \notin UnderWay
  BY <1>1, <1>3, DispatchName DEF Active
<1>5. DispatchFits(stage)
  BY <1>2 DEF DispatchFits
<1>6. /\ topups.runs \in Nat /\ topups.locks \in Nat /\ topups.lapses \in Nat /\ topups.failed \in Nat
      /\ {"runs", "locks", "lapses", "failed", "completed"} \subseteq DOMAIN topups
  BY <1>2 DEF TopUpBooks
<1>7. /\ topups' \in TopUpBooks /\ topups'.runs = topups.runs /\ topups'.locks = topups.locks
      /\ topups'.lapses = topups.lapses + One(b \in UnderWay) /\ topups'.failed = topups.failed
  <2>1. CASE Active(3 - e)
    BY <1>1, <1>2, <1>4, <1>6, <2>1 DEF TopUpBooks, One
  <2>2. CASE ~Active(3 - e)
    BY <1>1, <1>2, <1>4, <1>6, <2>2 DEF One
  <2> QED BY <2>1, <2>2
<1> HIDE DEF a, b, s
<1>8. LocksFit(topups', s, s, b)
  <2>1. One(a \in BeforeLock) = 0 /\ One(s \in BeforeLock) \in {0, 1} /\ One(b \in BeforeLock) \in {0, 1}
    BY <1>4 DEF One, BeforeLock
  <2>2. b \notin UnderWay => One(b \in BeforeLock) = 0
    BY DEF One, UnderWay
  <2>3. One(b \in UnderWay) = (IF b \in UnderWay THEN 1 ELSE 0)
    BY DEF One
  <2> QED BY <1>3, <1>6, <1>7, <2>1, <2>2, <2>3 DEF LocksFit
<1>9. UnitsFit(topups', funds, s, s, b)
  <2>1. Owed(funds, s, s, b) <= Owed(funds, s, "Idle", b) + One(b \in UnderWay)
    <3>1. CASE b = "Idle"
      <4>1. Owed(funds, s, s, b) = Owed(funds, s, "Idle", b) /\ Owed(funds, s, s, b) \in Nat
        BY <1>2, <1>4, <3>1, OwedStarts
      <4> QED BY <1>4, <3>1, <4>1 DEF One
    <3>2. CASE b # "Idle"
      <4>1. Owed(funds, s, s, b) <= Owed(funds, s, "Idle", b) + 1
        BY <1>2, <1>4, <3>2, OwedStarts
      <4>2. One(b \in UnderWay) = 1
        BY <1>4, <3>2 DEF One
      <4> QED BY <4>1, <4>2
    <3> QED BY <3>1, <3>2
  <2>2. Owed(funds, s, s, b) \in Nat /\ Owed(funds, s, "Idle", b) \in Nat
    BY <1>2, <1>4, OwedStarts
  <2>3. Owed(funds, s, "Idle", b) <= topups.failed + topups.lapses + One(s \in UnderWay)
    BY <1>3, <1>4 DEF UnitsFit
  <2>4. One(s \in UnderWay) \in Nat /\ One(b \in UnderWay) \in Nat
    BY DEF One
  <2> HIDE DEF One
  <2> QED BY <1>6, <1>7, <2>1, <2>2, <2>3, <2>4 DEF UnitsFit
<1>10. stage' = stage /\ funds' = funds
  BY <1>1
<1> QED BY <1>1, <1>2, <1>5, <1>7, <1>8, <1>9, <1>10, TopUpSeenTo DEF b, s

\* The end of a call: the books h2, the units f2 and the stage it saves.
LEMMA TopUpCallStep ==
  ASSUME TopUpInv, NEW e \in 1..2, NEW next, next.name \in UnderWay \cup {"Completed"},
         {"name", "polls"} \subseteq DOMAIN next, Active(e), Save(e, next),
         funds' \in TopUpFunds, FundsFollow(funds', funds, next.name, advancing[e].name),
         topups' \in TopUpBooks, topups'.runs = topups.runs, topups'.lapses = topups.lapses,
         topups'.failed = topups.failed,
         \/ topups'.locks = topups.locks /\ (next.name \in BeforeLock => advancing[e].name \in BeforeLock)
         \/ /\ topups'.locks = topups.locks + 1 /\ advancing[e].name \in BeforeLock
            /\ next.name \notin BeforeLock
  PROVE  TopUpInv'
<1> DEFINE a == advancing[e].name
           b == advancing[3 - e].name
           s == stage.name
           n == next.name
           d == IF n \in Terminal \cup Waiting THEN NotAdvancing ELSE next
<1>1. stage' = next /\ advancing' = [advancing EXCEPT ![e] = d]
  BY DEF Save
<1>2. topups \in TopUpBooks /\ funds \in TopUpFunds
  BY DEF TopUpInv
<1>3. /\ DispatchFits(advancing[e]) /\ DispatchFits(advancing[3 - e]) /\ LocksFit(topups, s, a, b)
      /\ UnitsFit(topups, funds, s, a, b)
  BY TopUpSeenFrom
<1>4. /\ a \in UnderWay /\ b \in UnderWay \cup {"Idle"}
      /\ "Idle" \notin UnderWay /\ "Completed" \notin UnderWay
  BY <1>3, DispatchName DEF Active
<1>5. /\ topups.runs \in Nat /\ topups.locks \in Nat /\ topups.lapses \in Nat /\ topups.failed \in Nat
  BY <1>2 DEF TopUpBooks
<1>6. /\ DispatchFits(d) /\ d.name \in {n, "Idle"} /\ (n = "Completed" => d.name = "Idle")
      /\ "Idle" \notin BeforeLock
  <2>1. NotAdvancing.name = "Idle" /\ "Idle" \notin BeforeLock
    BY DEF NotAdvancing, Stage, BeforeLock
  <2> QED BY <2>1 DEF DispatchFits, Terminal
<1> HIDE DEF a, b, s, n, d
<1>7. LocksFit(topups', n, d.name, b)
  <2>1. \A x : One(x \in BeforeLock) = (IF x \in BeforeLock THEN 1 ELSE 0)
    BY DEF One
  <2>2. /\ topups.locks + One(a \in BeforeLock) + One(b \in BeforeLock) <= topups.runs + topups.lapses
        /\ One(b \in BeforeLock) \in {0, 1}
    BY <1>3, <2>1 DEF LocksFit
  <2>3. \/ topups'.locks = topups.locks /\ (n \in BeforeLock => a \in BeforeLock)
        \/ topups'.locks = topups.locks + 1 /\ a \in BeforeLock /\ n \notin BeforeLock
    BY DEF a, n
  <2>4. One(n \in BeforeLock) = (IF n \in BeforeLock THEN 1 ELSE 0)
        /\ One(a \in BeforeLock) = (IF a \in BeforeLock THEN 1 ELSE 0)
        /\ (One(d.name \in BeforeLock) = One(n \in BeforeLock) \/ One(d.name \in BeforeLock) = 0)
    BY <1>6, <2>1
  <2> HIDE DEF One
  <2>5. /\ topups'.locks + One(d.name \in BeforeLock) + One(b \in BeforeLock) <= topups.runs + topups.lapses
        /\ topups'.locks + One(n \in BeforeLock) <= topups.runs + topups.lapses
    BY <1>5, <2>2, <2>3, <2>4
  <2> QED BY <2>5 DEF LocksFit
<1>8. FundsFollow(funds', funds, n, a)
  BY DEF n, a
<1>9. UnitsFit(topups', funds', n, d.name, b)
  <2>1. /\ n \in UnderWay => Owed(funds', n, n, b) <= Owed(funds, s, a, b)
        /\ n \in UnderWay => Owed(funds', n, "Idle", b) <= Owed(funds, s, a, b)
        /\ n = "Completed" => Owed(funds', n, "Idle", b) + 1 <= Owed(funds, s, a, b)
        /\ Owed(funds, s, a, b) \in Nat
    BY <1>2, <1>4, <1>8, OwedFollows
  <2>2. Owed(funds', n, "Idle", b) \in Nat /\ (n \in UnderWay => Owed(funds', n, n, b) \in Nat)
    BY <1>4, OwedStarts
  <2>3. Owed(funds, s, a, b) <= topups.failed + topups.lapses + One(s \in UnderWay)
    BY <1>3 DEF UnitsFit
  <2>4. One(s \in UnderWay) \in {0, 1} /\ One(n \in UnderWay) = (IF n \in UnderWay THEN 1 ELSE 0)
    BY DEF One
  <2>5. Owed(funds', n, d.name, b) <= topups.failed + topups.lapses + One(n \in UnderWay)
    <3>1. CASE n \in UnderWay
      <4>1. Owed(funds', n, d.name, b) <= Owed(funds, s, a, b) /\ Owed(funds', n, d.name, b) \in Nat
        BY <1>6, <2>1, <2>2, <3>1
      <4> QED BY <1>5, <2>1, <2>3, <2>4, <3>1, <4>1
    <3>2. CASE n = "Completed"
      <4>1. Owed(funds', n, d.name, b) + 1 <= Owed(funds, s, a, b) /\ Owed(funds', n, d.name, b) \in Nat
        BY <1>6, <2>1, <2>2, <3>2
      <4>2. One(n \in UnderWay) = 0
        BY <1>4, <2>4, <3>2
      <4> QED BY <1>5, <2>1, <2>3, <2>4, <4>1, <4>2
    <3> QED BY <3>1, <3>2 DEF n
  <2> QED BY <2>5 DEF UnitsFit
<1>10. stage'.name = n
  BY <1>1 DEF n
<1> QED BY <1>1, <1>6, <1>7, <1>9, <1>10, TopUpSeenTo DEF b, n

\* A call that fails or traps: the dispatch is over, its unit may be left behind.
LEMMA TopUpLostStep ==
  ASSUME TopUpInv, NEW e \in 1..2, Active(e), advancing' = [advancing EXCEPT ![e] = NotAdvancing],
         stage' \in {stage, Stage("Failed")}, funds' \in TopUpFunds, NEW next,
         FundsFollow(funds', funds, next, advancing[e].name),
         topups' \in TopUpBooks, topups'.runs = topups.runs,
         topups'.locks \in {topups.locks, topups.locks + 1},
         topups'.locks = topups.locks + 1 => advancing[e].name \in BeforeLock,
         \/ /\ topups'.failed = topups.failed + 1 /\ topups'.lapses = topups.lapses
            /\ stage' = Stage("Failed")
         \/ topups'.failed = topups.failed /\ topups'.lapses = topups.lapses + 1
  PROVE  TopUpInv'
<1> DEFINE a == advancing[e].name
           b == advancing[3 - e].name
           s == stage.name
           n == stage'.name
<1>1. topups \in TopUpBooks /\ funds \in TopUpFunds
  BY DEF TopUpInv
<1>2. /\ DispatchFits(advancing[e]) /\ DispatchFits(advancing[3 - e]) /\ LocksFit(topups, s, a, b)
      /\ UnitsFit(topups, funds, s, a, b)
  BY TopUpSeenFrom
<1>3. /\ a \in UnderWay /\ b \in UnderWay \cup {"Idle"} /\ "Idle" \notin UnderWay /\ "Failed" \notin UnderWay
  BY <1>2, DispatchName DEF Active
<1>4. /\ topups.runs \in Nat /\ topups.locks \in Nat /\ topups.lapses \in Nat /\ topups.failed \in Nat
  BY <1>1 DEF TopUpBooks
<1>5. /\ DispatchFits(NotAdvancing) /\ NotAdvancing.name = "Idle" /\ Stage("Failed").name = "Failed"
      /\ "Idle" \notin BeforeLock /\ "Failed" \notin BeforeLock
      /\ {"name", "polls"} \subseteq DOMAIN Stage("Failed")
  BY DEF DispatchFits, NotAdvancing, Stage, BeforeLock
<1>6. /\ n \in UnderWay \cup {"Idle", "Completed", "Failed"} /\ {"name", "polls"} \subseteq DOMAIN stage'
      /\ n \in {s, "Failed"} /\ (stage' = Stage("Failed") => n = "Failed")
  BY <1>5 DEF TopUpInv
<1>7. FundsFollow(funds', funds, next, a)
  OBVIOUS
<1>8. topups'.locks = topups.locks + 1 => a \in BeforeLock
  OBVIOUS
<1> HIDE DEF a, b, s, n
<1>9. LocksFit(topups', n, "Idle", b)
  <2>1. \A x : One(x \in BeforeLock) = (IF x \in BeforeLock THEN 1 ELSE 0)
    BY DEF One
  <2>2. /\ topups.locks + One(a \in BeforeLock) + One(b \in BeforeLock) <= topups.runs + topups.lapses
        /\ topups.locks + One(s \in BeforeLock) <= topups.runs + topups.lapses
        /\ One(b \in BeforeLock) \in {0, 1} /\ One(s \in BeforeLock) \in {0, 1}
    BY <1>2, <2>1 DEF LocksFit
  <2>3. One(a \in BeforeLock) = (IF a \in BeforeLock THEN 1 ELSE 0)
        /\ (One(n \in BeforeLock) = One(s \in BeforeLock) \/ One(n \in BeforeLock) = 0)
        /\ (n = "Failed" => One(n \in BeforeLock) = 0)
        /\ One("Idle" \in BeforeLock) = 0
    BY <1>5, <1>6, <2>1
  <2> HIDE DEF One
  <2>4. /\ topups'.locks + One("Idle" \in BeforeLock) + One(b \in BeforeLock) <= topups'.runs + topups'.lapses
        /\ topups'.locks + One(n \in BeforeLock) <= topups'.runs + topups'.lapses
    BY <1>4, <1>6, <1>8, <2>2, <2>3
  <2> QED BY <2>4 DEF LocksFit
<1>10. UnitsFit(topups', funds', n, "Idle", b)
  <2>1. /\ Owed(funds', n, "Idle", b) <= Owed(funds, s, a, b) + One(n \in UnderWay)
        /\ Owed(funds, s, a, b) \in Nat /\ Owed(funds', n, "Idle", b) \in Nat
    BY <1>1, <1>3, <1>7, OwedFollows
  <2>2. Owed(funds, s, a, b) <= topups.failed + topups.lapses + One(s \in UnderWay)
    BY <1>2 DEF UnitsFit
  <2>3. /\ One(s \in UnderWay) \in {0, 1} /\ One(n \in UnderWay) \in {0, 1}
        /\ (One(n \in UnderWay) = One(s \in UnderWay) \/ n = "Failed")
        /\ (n = "Failed" => One(n \in UnderWay) = 0)
    BY <1>3, <1>6 DEF One
  <2> HIDE DEF One
  <2>4. Owed(funds', n, "Idle", b) <= topups'.failed + topups'.lapses + One(n \in UnderWay)
    BY <1>4, <1>6, <2>1, <2>2, <2>3
  <2> QED BY <2>4 DEF UnitsFit
<1> QED BY <1>5, <1>6, <1>9, <1>10, TopUpSeenTo DEF b, n

\* Every step of the pipeline keeps locks and units accounted for.
LEMMA TopUpStep == ASSUME TopUpInv, [TopUpNext]_topUpVars PROVE TopUpInv'
<1>1. CASE TopUpStart \/ RecoverFailedTopUp
  BY <1>1, TopUpStartStep DEF TopUpStart, RecoverFailedTopUp, MayStart
<1>2. ASSUME NEW e \in 1..2, Active(e), CallSucceeds(e) \/ CallPending(e) \/ CallFails(e) \/ DispatchTraps(e)
      PROVE  TopUpInv'
  <2> DEFINE this == advancing[e]
             name == this.name
  <2>1. topups \in TopUpBooks /\ funds \in TopUpFunds /\ DispatchFits(this)
    BY DEF TopUpInv
  <2>2. name \in UnderWay /\ {"name", "polls"} \subseteq DOMAIN this
    BY <1>2, <2>1, DispatchName DEF Active
  <2>3. /\ Counted(name) \in TopUpBooks
        /\ Counted(name).locks \in {topups.locks, topups.locks + 1}
        /\ Counted(name).locks = topups.locks + 1 => name = "LockingUSDC"
        /\ Counted(name).runs = topups.runs /\ Counted(name).failed = topups.failed
        /\ Counted(name).completed = topups.completed /\ Counted(name).lapses = topups.lapses
    BY <2>1, CountedBooks
  <2>4. \A c \in TopUpBooks : /\ {"runs", "failed", "completed", "locks", "lapses"} \subseteq DOMAIN c
                              /\ c.completed \in Nat /\ c.failed \in Nat /\ c.lapses \in Nat /\ c.locks \in Nat
    BY DEF TopUpBooks
  <2>5. FundsFollow(funds, funds, name, name) /\ topups.locks \in Nat /\ "LockingUSDC" \in BeforeLock
    BY <2>1, <2>4 DEF FundsFollow, LegFollows, BeforeLock
  <2>6. ASSUME TakesEffect(name)
        PROVE  /\ funds' \in TopUpFunds /\ FundsFollow(funds', funds, Successor(name), name)
               /\ name \notin BeforeLock => Successor(name) \notin BeforeLock
               /\ Successor("LockingUSDC") \notin BeforeLock
               /\ Successor(name) \in UnderWay \cup {"Completed"}
    BY <2>1, <2>2, <2>6, CallMovesUnit DEF TakesEffect
  <2>7. CASE CallSucceeds(e)
    <3> DEFINE k == IF name = "MintingCycles" THEN 1 ELSE 0
               h == [Counted(name) EXCEPT !.completed = @ + k]
               next == Stage(Successor(name))
    <3>1. TakesEffect(name) /\ Save(e, next) /\ topups' = h
      BY <2>7 DEF CallSucceeds
    <3>2. /\ h \in TopUpBooks /\ h.locks = Counted(name).locks /\ h.runs = topups.runs
          /\ h.failed = topups.failed /\ h.lapses = topups.lapses
      <4>1. k \in Nat
        OBVIOUS
      <4> HIDE DEF k
      <4>2. Counted(name).completed + k \in Nat
        BY <2>3, <2>4, <4>1
      <4> QED BY <2>3, <2>4, <4>2 DEF TopUpBooks
    <3>3. next.name = Successor(name) /\ {"name", "polls"} \subseteq DOMAIN next
      BY DEF Stage
    <3>4. \/ h.locks = topups.locks /\ (next.name \in BeforeLock => name \in BeforeLock)
          \/ h.locks = topups.locks + 1 /\ name \in BeforeLock /\ next.name \notin BeforeLock
      <4> HIDE DEF h, next
      <4> QED BY <2>3, <2>5, <2>6, <3>1, <3>2, <3>3
    <3> HIDE DEF h, next
    <3> QED BY <1>2, <2>6, <3>1, <3>2, <3>3, <3>4, TopUpCallStep
  <2>8. CASE CallPending(e)
    <3> DEFINE p == IF name = "WaitingForBridgedUSDC" THEN this.polls + 1 ELSE this.polls
               next == [this EXCEPT !.polls = p]
    <3>1. Save(e, next) /\ funds' = funds /\ topups' = topups
      BY <2>8 DEF CallPending
    <3>2. next.name = name /\ {"name", "polls"} \subseteq DOMAIN next
      <4> HIDE DEF p
      <4> QED BY <2>2
    <3> HIDE DEF next
    <3> QED BY <1>2, <2>1, <2>2, <2>5, <3>1, <3>2, TopUpCallStep
  <2>9. CASE CallFails(e)
    <3> DEFINE h == [Counted(name) EXCEPT !.failed = @ + 1]
    <3>1. /\ Save(e, Stage("Failed")) /\ topups' = h
          /\ funds' = funds \/ TakesEffect(name)
      BY <2>9 DEF CallFails
    <3>2. advancing' = [advancing EXCEPT ![e] = NotAdvancing] /\ stage' = Stage("Failed")
      <4>1. Stage("Failed").name \in Terminal
        BY DEF Stage, Terminal
      <4> QED BY <3>1, <4>1 DEF Save
    <3>3. /\ h \in TopUpBooks /\ h.locks = Counted(name).locks /\ h.runs = topups.runs
          /\ h.failed = topups.failed + 1 /\ h.lapses = topups.lapses
      <4>1. Counted(name).failed + 1 \in Nat
        BY <2>3, <2>4
      <4> QED BY <2>3, <2>4, <4>1 DEF TopUpBooks
    <3>4. PICK next : funds' \in TopUpFunds /\ FundsFollow(funds', funds, next, name)
      BY <2>1, <2>5, <2>6, <3>1
    <3> HIDE DEF h
    <3> QED BY <1>2, <2>3, <2>5, <3>1, <3>2, <3>3, <3>4, TopUpLostStep
  <2>10. CASE DispatchTraps(e)
    <3> DEFINE h == [Counted(name) EXCEPT !.lapses = @ + 1]
    <3>1. /\ advancing' = [advancing EXCEPT ![e] = NotAdvancing] /\ topups' = h
          /\ TakesEffect(name) /\ stage' = stage
      BY <2>10 DEF DispatchTraps
    <3>2. /\ h \in TopUpBooks /\ h.locks = Counted(name).locks /\ h.runs = topups.runs
          /\ h.failed = topups.failed /\ h.lapses = topups.lapses + 1
      <4>1. Counted(name).lapses + 1 \in Nat
        BY <2>3, <2>4
      <4> QED BY <2>3, <2>4, <4>1 DEF TopUpBooks
    <3> HIDE DEF h
    <3> QED BY <1>2, <2>3, <2>5, <2>6, <3>1, <3>2, TopUpLostStep
  <2> QED BY <1>2, <2>7, <2>8, <2>9, <2>10
<1>3. CASE UNCHANGED topUpVars
  BY <1>3 DEF topUpVars, TopUpInv
<1>4. ASSUME NEW e \in 1..2,
             TopUpDispatch(e) \/ CallSucceeds(e) \/ CallPending(e) \/ CallFails(e) \/ DispatchTraps(e)
      PROVE  TopUpInv'
  <2>1. TopUpDispatch(e) \/ Active(e)
    BY <1>4 DEF CallSucceeds, CallPending, CallFails, DispatchTraps
  <2> QED BY <1>2, <1>4, <2>1, TopUpDispatchStep
<1> QED BY <1>1, <1>3, <1>4 DEF TopUpNext

\* TopUpInv holds throughout.
LEMMA TopUpInvAlways == TopUpSpec => []TopUpInv
<1>1. ASSUME TopUpInit PROVE TopUpInv
  <2>1. /\ stage = Stage("Idle") /\ advancing = [e \in 1..2 |-> NotAdvancing]
        /\ funds = [p \in Places |-> IF p = "wallet" THEN Wallet ELSE 0]
        /\ topups = [runs |-> 0, failed |-> 0, completed |-> 0, locks |-> 0, lapses |-> 0]
    BY <1>1 DEF TopUpInit
  <2>2. /\ stage.name = "Idle" /\ {"name", "polls"} \subseteq DOMAIN stage
        /\ DOMAIN advancing = 1..2 /\ (\A e \in 1..2 : advancing[e] = NotAdvancing)
        /\ NotAdvancing.name = "Idle"
    BY <2>1 DEF Stage, NotAdvancing
  <2>3. /\ funds \in TopUpFunds /\ funds["locked"] = 0 /\ funds["bridged"] = 0
        /\ funds["icp"] = 0 /\ funds["cmc"] = 0
    BY <2>1, TopUpAssumption DEF TopUpFunds, Places
  <2>4. /\ topups \in TopUpBooks /\ topups.runs = 0 /\ topups.failed = 0 /\ topups.locks = 0
        /\ topups.lapses = 0
    BY <2>1 DEF TopUpBooks
  <2>5. /\ One("Idle" \in BeforeLock) = 0 /\ One("Idle" \in UnderWay) = 0 /\ ~Busy("Idle", "Idle")
        /\ Leg("Idle") = 0
    BY DEF One, Busy, Leg, UnderWay, BeforeLock, OnTheWay1, OnTheWay2
  <2>6. Owed(funds, "Idle", "Idle", "Idle") = 0
    <3>1. \A l \in 1..4 : Carried("Idle", "Idle", "Idle", l) = 0
      BY <2>5 DEF Carried, One
    <3>2. Carriers("Idle", "Idle", "Idle") = 0 /\ Excess(0, 0) = 0
      BY <2>5 DEF Carriers, Excess
    <3> QED BY <2>3, <3>1, <3>2 DEF Owed
  <2>7. LocksFit(topups, "Idle", "Idle", "Idle") /\ UnitsFit(topups, funds, "Idle", "Idle", "Idle")
    BY <2>4, <2>5, <2>6 DEF LocksFit, UnitsFit
  <2>8. 1 \in 1..2 /\ 2 \in 1..2
    OBVIOUS
  <2> QED BY <2>2, <2>3, <2>4, <2>7, <2>8 DEF TopUpInv, DispatchFits
<1> QED BY <1>1, TopUpStep, PTL DEF TopUpSpec

\* What is locked, bridged, swapped or handed to the CMC and not yet minted is covered by the
\* runs that failed, by the lapses and by the run in progress, and USDC is locked once for each
\* run or lapse, for any wallet and any number of runs, however two dispatches of the TopUpCycles
\* job overlap, fail and trap (features/cycle_topup: advance, save_stage).
THEOREM TransitAccountedAlways == TopUpSpec => []TransitAccounted
<1>2. ASSUME TopUpInv PROVE TransitAccounted
  <2> DEFINE a == advancing[1].name
             b == advancing[2].name
             s == stage.name
             x1 == funds["locked"]  x2 == funds["bridged"]  x3 == funds["icp"]  x4 == funds["cmc"]
             t1 == Carried(s, a, b, 1)  t2 == Carried(s, a, b, 2)
             t3 == Carried(s, a, b, 3)  t4 == Carried(s, a, b, 4)
  <2>1. /\ topups \in TopUpBooks /\ funds \in TopUpFunds /\ DispatchFits(advancing[1])
        /\ DispatchFits(advancing[2]) /\ LocksFit(topups, s, a, b) /\ UnitsFit(topups, funds, s, a, b)
        /\ s \in UnderWay \cup {"Idle", "Completed", "Failed"}
    BY <1>2 DEF TopUpInv
  <2>2. a \in UnderWay \cup {"Idle"} /\ b \in UnderWay \cup {"Idle"}
    BY <2>1, DispatchName
  <2>3. /\ topups.runs \in Nat /\ topups.locks \in Nat /\ topups.lapses \in Nat /\ topups.failed \in Nat
        /\ x1 \in Nat /\ x2 \in Nat /\ x3 \in Nat /\ x4 \in Nat
    BY <2>1 DEF TopUpBooks, TopUpFunds, Places
  <2>4. topups.locks <= topups.runs + topups.lapses
    <3>1. One(s \in BeforeLock) \in {0, 1}
      BY DEF One
    <3> QED BY <2>1, <2>3, <3>1 DEF LocksFit
  <2>5. One(s \in UnderWay) = (IF s \in Terminal \cup {"Idle"} THEN 0 ELSE 1)
    BY <2>1 DEF One, Terminal, UnderWay, BeforeLock, OnTheWay1, OnTheWay2
  <2>6. \A z \in UnderWay \cup {"Idle", "Completed", "Failed"} :
          One(Leg(z) = 1) + One(Leg(z) = 2) + One(Leg(z) = 3) + One(Leg(z) = 4) <= One(z \in UnderWay)
    BY DEF One, Leg, UnderWay, BeforeLock, OnTheWay1, OnTheWay2
  <2>7. /\ t1 \in Nat /\ t2 \in Nat /\ t3 \in Nat /\ t4 \in Nat /\ Carriers(s, a, b) \in Nat
        /\ t1 + t2 + t3 + t4 <= Carriers(s, a, b)
    <3>1. \A z, l : One(Leg(z) = l) \in Nat
      BY DEF One
    <3>2. \A z : One(z \in UnderWay) \in Nat
      BY DEF One
    <3>3. CASE Busy(a, b)
      <4>1. /\ t1 = One(Leg(a) = 1) + One(Leg(b) = 1) /\ t2 = One(Leg(a) = 2) + One(Leg(b) = 2)
            /\ t3 = One(Leg(a) = 3) + One(Leg(b) = 3) /\ t4 = One(Leg(a) = 4) + One(Leg(b) = 4)
            /\ Carriers(s, a, b) = One(a \in UnderWay) + One(b \in UnderWay)
        BY <3>3 DEF Carried, Carriers
      <4>2. /\ One(Leg(a) = 1) + One(Leg(a) = 2) + One(Leg(a) = 3) + One(Leg(a) = 4) <= One(a \in UnderWay)
            /\ One(Leg(b) = 1) + One(Leg(b) = 2) + One(Leg(b) = 3) + One(Leg(b) = 4) <= One(b \in UnderWay)
        BY <2>2, <2>6
      <4>3. /\ One(Leg(a) = 1) \in Nat /\ One(Leg(a) = 2) \in Nat /\ One(Leg(a) = 3) \in Nat
            /\ One(Leg(a) = 4) \in Nat /\ One(Leg(b) = 1) \in Nat /\ One(Leg(b) = 2) \in Nat
            /\ One(Leg(b) = 3) \in Nat /\ One(Leg(b) = 4) \in Nat
            /\ One(a \in UnderWay) \in Nat /\ One(b \in UnderWay) \in Nat
        BY DEF One
      <4> HIDE DEF a, b, s, t1, t2, t3, t4
      <4> QED BY <4>1, <4>2, <4>3
    <3>4. CASE ~Busy(a, b)
      BY <2>1, <2>6, <3>1, <3>2, <3>4 DEF Carried, Carriers
    <3> QED BY <3>3, <3>4
  <2>8. \A x, t \in Nat : Excess(x, t) \in Nat /\ x <= Excess(x, t) + t
    BY DEF Excess
  <2>9. /\ Owed(funds, s, a, b)
            = Excess(x1, t1) + Excess(x2, t2) + Excess(x3, t3) + Excess(x4, t4) + Carriers(s, a, b)
        /\ Owed(funds, s, a, b) <= topups.failed + topups.lapses + One(s \in UnderWay)
    BY <2>1 DEF Owed, UnitsFit
  <2> HIDE DEF a, b, s, x1, x2, x3, x4, t1, t2, t3, t4
  <2>10. One(s \in UnderWay) \in Nat
    BY DEF One
  <2>11. x1 + x2 + x3 + x4 <= topups.failed + topups.lapses + One(s \in UnderWay)
    <3>1. /\ Excess(x1, t1) \in Nat /\ x1 <= Excess(x1, t1) + t1
          /\ Excess(x2, t2) \in Nat /\ x2 <= Excess(x2, t2) + t2
          /\ Excess(x3, t3) \in Nat /\ x3 <= Excess(x3, t3) + t3
          /\ Excess(x4, t4) \in Nat /\ x4 <= Excess(x4, t4) + t4
      BY <2>3, <2>7, <2>8
    <3> QED BY <2>3, <2>7, <2>9, <2>10, <3>1
  <2> QED BY <2>4, <2>5, <2>11 DEF TransitAccounted, s, x1, x2, x3, x4
<1> QED BY <1>2, TopUpInvAlways, PTL

\* Units are neither made nor lost, wherever a pipeline stops, and the polls of the bridge are
\* counted in the copies of the stage that dispatches carry as well.
UnitsOf(f) == f["wallet"] + f["locked"] + f["bridged"] + f["icp"] + f["cmc"] + f["minted"]

StageRecords == [name : StageNames, polls : 0..MaxBridgePolls]

TopUpLimits ==
  /\ stage \in StageRecords /\ advancing \in [1..2 -> StageRecords]
  /\ UnitsOf(funds) = Wallet /\ topups.runs <= MaxRuns /\ topups.lapses <= MaxTopUpLapses

\* The names of the stages.
LEMMA UnderWayAreStages == UnderWay \cup {"Idle", "Failed", "Completed"} \subseteq StageNames
<1>1. /\ Pipeline[1] = "Preflight" /\ Pipeline[2] = "ApprovingLocker"
      /\ Pipeline[3] = "WaitingApprovalConfirmation" /\ Pipeline[4] = "LockingUSDC"
      /\ Pipeline[5] = "WaitingLockConfirmation" /\ Pipeline[6] = "ValidatingOnOnesec"
      /\ Pipeline[7] = "WaitingForBridgedUSDC" /\ Pipeline[8] = "ApprovingKongSwap"
      /\ Pipeline[9] = "SwappingToICP" /\ Pipeline[10] = "TransferringToCMC"
      /\ Pipeline[11] = "MintingCycles" /\ Pipeline[12] = "Completed"
  BY DEF Pipeline
<1>2. /\ 1 \in 1..12 /\ 2 \in 1..12 /\ 3 \in 1..12 /\ 4 \in 1..12 /\ 5 \in 1..12 /\ 6 \in 1..12
      /\ 7 \in 1..12 /\ 8 \in 1..12 /\ 9 \in 1..12 /\ 10 \in 1..12 /\ 11 \in 1..12 /\ 12 \in 1..12
  OBVIOUS
<1>3. \A i \in 1..12 : Pipeline[i] \in StageNames
  BY DEF StageNames
<1>4. "Idle" \in StageNames /\ "Failed" \in StageNames
  BY DEF StageNames
<1>5. \A name \in UnderWay \cup {"Completed"} : name \in StageNames
  BY <1>1, <1>2, <1>3 DEF UnderWay, BeforeLock, OnTheWay1, OnTheWay2
<1> QED BY <1>4, <1>5

\* A stage that was just entered.
LEMMA FreshStage ==
  ASSUME NEW name \in UnderWay \cup {"Idle", "Failed", "Completed"}
  PROVE  Stage(name) \in StageRecords
  BY UnderWayAreStages, TopUpAssumption DEF Stage, StageRecords

\* A call moves units from place to place.
LEMMA CallKeepsUnits ==
  ASSUME NEW f \in TopUpFunds, NEW name, NEW f2 \in Effects(name, f)
  PROVE  UnitsOf(f2) = UnitsOf(f)
<1>1. /\ f \in [Places -> Nat] /\ \A p \in Places : f[p] \in Nat
      /\ Places = {"wallet", "locked", "bridged", "icp", "cmc", "minted"}
  BY DEF TopUpFunds, Places
<1>2. ASSUME NEW from \in Places, NEW to \in Places, from # to, f2 \in Moved(f, from, to)
      PROVE  /\ f[from] > 0 /\ f2[from] = f[from] - 1 /\ f2[to] = f[to] + 1
             /\ \A p \in Places \ {from, to} : f2[p] = f[p]
  <2>1. f[from] > 0 /\ f2 = [f EXCEPT ![from] = @ - 1, ![to] = @ + 1]
    BY <1>2 DEF Moved
  <2> QED BY <1>1, <1>2, <2>1
<1>3. \/ f2 = f
      \/ f2 \in Moved(f, "wallet", "locked") \/ f2 \in Moved(f, "locked", "bridged")
      \/ f2 \in Moved(f, "bridged", "icp") \/ f2 \in Moved(f, "icp", "cmc")
      \/ f2 \in Moved(f, "cmc", "minted")
  BY DEF Effects, Preflight, ApproveLocker, PollTx, LockUsdc, ValidateOnOnesec, PollBridge, ApproveKongswap,
         SwapToIcp, TransferToCmc, MintCycles
<1>4. CASE f2 = f
  BY <1>4
<1>5. CASE f2 \in Moved(f, "wallet", "locked")
  <2>1. /\ f2["wallet"] = f["wallet"] - 1 /\ f2["locked"] = f["locked"] + 1 /\ f2["bridged"] = f["bridged"]
        /\ f2["icp"] = f["icp"] /\ f2["cmc"] = f["cmc"] /\ f2["minted"] = f["minted"]
    BY <1>1, <1>2, <1>5
  <2> QED BY <1>1, <2>1 DEF UnitsOf
<1>6. CASE f2 \in Moved(f, "locked", "bridged")
  <2>1. /\ f2["wallet"] = f["wallet"] /\ f2["locked"] = f["locked"] - 1 /\ f2["bridged"] = f["bridged"] + 1
        /\ f2["icp"] = f["icp"] /\ f2["cmc"] = f["cmc"] /\ f2["minted"] = f["minted"]
    BY <1>1, <1>2, <1>6
  <2> QED BY <1>1, <2>1 DEF UnitsOf
<1>7. CASE f2 \in Moved(f, "bridged", "icp")
  <2>1. /\ f2["wallet"] = f["wallet"] /\ f2["locked"] = f["locked"] /\ f2["bridged"] = f["bridged"] - 1
        /\ f2["icp"] = f["icp"] + 1 /\ f2["cmc"] = f["cmc"] /\ f2["minted"] = f["minted"]
    BY <1>1, <1>2, <1>7
  <2> QED BY <1>1, <2>1 DEF UnitsOf
<1>8. CASE f2 \in Moved(f, "icp", "cmc")
  <2>1. /\ f2["wallet"] = f["wallet"] /\ f2["locked"] = f["locked"] /\ f2["bridged"] = f["bridged"]
        /\ f2["icp"] = f["icp"] - 1 /\ f2["cmc"] = f["cmc"] + 1 /\ f2["minted"] = f["minted"]
    BY <1>1, <1>2, <1>8
  <2> QED BY <1>1, <2>1 DEF UnitsOf
<1>9. CASE f2 \in Moved(f, "cmc", "minted")
  <2>1. /\ f2["wallet"] = f["wallet"] /\ f2["locked"] = f["locked"] /\ f2["bridged"] = f["bridged"]
        /\ f2["icp"] = f["icp"] /\ f2["cmc"] = f["cmc"] - 1 /\ f2["minted"] = f["minted"] + 1
    BY <1>1, <1>2, <1>9
  <2> QED BY <1>1, <2>1 DEF UnitsOf
<1> QED BY <1>3, <1>4, <1>5, <1>6, <1>7, <1>8, <1>9

\* Saving a stage.
LEMMA SaveFits ==
  ASSUME TopUpLimits, NEW e \in 1..2, NEW next \in StageRecords, Save(e, next)
  PROVE  stage' \in StageRecords /\ advancing' \in [1..2 -> StageRecords]
<1>1. NotAdvancing \in StageRecords
  BY FreshStage DEF NotAdvancing
<1> DEFINE d == IF next.name \in Terminal \cup Waiting THEN NotAdvancing ELSE next
<1>2. d \in StageRecords /\ stage' = next /\ advancing' = [advancing EXCEPT ![e] = d]
  BY <1>1 DEF Save
<1> HIDE DEF d
<1> QED BY <1>2 DEF TopUpLimits

\* Every step of the top-up keeps them.
LEMMA LimitsStep == ASSUME TopUpInv, TopUpInv', TopUpLimits, [TopUpNext]_topUpVars PROVE TopUpLimits'
<1>1. /\ stage \in StageRecords /\ advancing \in [1..2 -> StageRecords]
      /\ UnitsOf(funds) = Wallet /\ topups.runs <= MaxRuns /\ topups.lapses <= MaxTopUpLapses
      /\ funds \in TopUpFunds /\ topups \in TopUpBooks
  BY DEF TopUpLimits, TopUpInv
<1>2. /\ topups.runs \in Nat /\ topups.lapses \in Nat /\ MaxRuns \in Nat /\ MaxTopUpLapses \in Nat
      /\ MaxBridgePolls \in Nat
  BY <1>1, TopUpAssumption DEF TopUpBooks
<1>3. CASE TopUpStart \/ RecoverFailedTopUp
  <2>1. /\ topups.runs < MaxRuns /\ stage' = Stage("Preflight") /\ topups' = [topups EXCEPT !.runs = @ + 1]
        /\ UNCHANGED <<advancing, funds>>
    BY <1>3 DEF TopUpStart, RecoverFailedTopUp
  <2>2. topups'.runs = topups.runs + 1 /\ topups'.lapses = topups.lapses
    BY <1>1, <2>1 DEF TopUpBooks
  <2>3. Stage("Preflight") \in StageRecords
    BY FreshStage DEF UnderWay, BeforeLock
  <2> QED BY <1>1, <1>2, <2>1, <2>2, <2>3 DEF TopUpLimits
<1>4. ASSUME NEW e \in 1..2, TopUpDispatch(e)
      PROVE  TopUpLimits'
  <2>1. /\ advancing' = [advancing EXCEPT ![e] = stage] /\ UNCHANGED <<stage, funds>>
        /\ topups' = topups \/ (topups.lapses < MaxTopUpLapses /\ topups' = [topups EXCEPT !.lapses = @ + 1])
    BY <1>4 DEF TopUpDispatch
  <2>2. topups'.runs = topups.runs /\ topups'.lapses <= MaxTopUpLapses
    <3>1. CASE topups' = topups
      BY <1>1, <3>1
    <3>2. CASE topups.lapses < MaxTopUpLapses /\ topups' = [topups EXCEPT !.lapses = @ + 1]
      <4>1. topups'.runs = topups.runs /\ topups'.lapses = topups.lapses + 1
        BY <1>1, <3>2 DEF TopUpBooks
      <4> QED BY <1>2, <3>2, <4>1
    <3> QED BY <2>1, <3>1, <3>2
  <2>3. advancing' \in [1..2 -> StageRecords]
    BY <1>1, <2>1
  <2> QED BY <1>1, <2>1, <2>2, <2>3 DEF TopUpLimits
<1>5. ASSUME NEW e \in 1..2, Active(e), CallSucceeds(e) \/ CallPending(e) \/ CallFails(e) \/ DispatchTraps(e)
      PROVE  TopUpLimits'
  <2> DEFINE this == advancing[e]
             name == this.name
  <2>1. name \in UnderWay /\ this \in StageRecords
    BY <1>1, <1>5, DispatchName DEF TopUpInv, Active
  <2>2. TakesEffect(name) => UnitsOf(funds') = Wallet /\ Successor(name) \in UnderWay \cup {"Completed"}
    BY <1>1, <2>1, CallKeepsUnits, CallMovesUnit DEF TakesEffect
  <2>3. /\ Counted(name) \in TopUpBooks
        /\ Counted(name).runs = topups.runs /\ Counted(name).lapses = topups.lapses
    BY <1>1, CountedBooks
  <2>4. CASE CallSucceeds(e)
    <3> DEFINE next == Stage(Successor(name))
               c == Counted(name)
               k == c.completed + (IF name = "MintingCycles" THEN 1 ELSE 0)
    <3>1. TakesEffect(name) /\ Save(e, next) /\ topups' = [c EXCEPT !.completed = k]
      BY <2>4 DEF CallSucceeds
    <3>2. next \in StageRecords
      BY <2>2, <3>1, FreshStage
    <3> HIDE DEF next, c, k
    <3>3. topups'.runs = topups.runs /\ topups'.lapses = topups.lapses
      BY <2>3, <3>1 DEF TopUpBooks, c
    <3>4. stage' \in StageRecords /\ advancing' \in [1..2 -> StageRecords]
      BY <3>1, <3>2, SaveFits
    <3> QED BY <1>1, <2>2, <3>1, <3>3, <3>4 DEF TopUpLimits
  <2>5. CASE CallPending(e)
    <3> DEFINE n == IF name = "WaitingForBridgedUSDC" THEN this.polls + 1 ELSE this.polls
               next == [this EXCEPT !.polls = n]
    <3>1. /\ Save(e, next) /\ UNCHANGED <<funds, topups>>
          /\ name = "WaitingForBridgedUSDC" => this.polls < MaxBridgePolls
      BY <2>5 DEF CallPending
    <3>2. this.polls \in 0..MaxBridgePolls
      BY <2>1 DEF StageRecords
    <3>3. n \in 0..MaxBridgePolls
      BY <1>2, <3>1, <3>2
    <3> HIDE DEF n, this
    <3>4. next \in StageRecords
      BY <2>1, <3>3 DEF StageRecords
    <3> HIDE DEF next
    <3>5. stage' \in StageRecords /\ advancing' \in [1..2 -> StageRecords]
      BY <3>1, <3>4, SaveFits
    <3> QED BY <1>1, <3>1, <3>5 DEF TopUpLimits
  <2>6. CASE CallFails(e)
    <3> DEFINE c == Counted(name)
               next == Stage("Failed")
    <3>1. /\ Save(e, next) /\ topups' = [c EXCEPT !.failed = @ + 1]
          /\ funds' = funds \/ TakesEffect(name)
      BY <2>6 DEF CallFails
    <3>2. next \in StageRecords
      BY FreshStage
    <3> HIDE DEF next, c
    <3>3. topups'.runs = topups.runs /\ topups'.lapses = topups.lapses
      BY <2>3, <3>1 DEF TopUpBooks, c
    <3>4. stage' \in StageRecords /\ advancing' \in [1..2 -> StageRecords]
      BY <3>1, <3>2, SaveFits
    <3>5. UnitsOf(funds') = Wallet
      BY <1>1, <2>2, <3>1
    <3> QED BY <1>1, <3>3, <3>4, <3>5 DEF TopUpLimits
  <2>7. CASE DispatchTraps(e)
    <3> DEFINE c == Counted(name)
    <3>1. /\ topups.lapses < MaxTopUpLapses /\ TakesEffect(name) /\ stage' = stage
          /\ advancing' = [advancing EXCEPT ![e] = NotAdvancing] /\ topups' = [c EXCEPT !.lapses = @ + 1]
      BY <2>7 DEF DispatchTraps
    <3> HIDE DEF c
    <3>2. topups'.runs = topups.runs /\ topups'.lapses = topups.lapses + 1
      BY <2>3, <3>1 DEF TopUpBooks, c
    <3>3. NotAdvancing \in StageRecords
      BY FreshStage DEF NotAdvancing
    <3>4. advancing' \in [1..2 -> StageRecords]
      BY <1>1, <3>1, <3>3
    <3>5. topups'.runs <= MaxRuns /\ topups'.lapses <= MaxTopUpLapses
      BY <1>1, <1>2, <3>1, <3>2
    <3> QED BY <1>1, <2>2, <3>1, <3>4, <3>5 DEF TopUpLimits
  <2> QED BY <1>5, <2>4, <2>5, <2>6, <2>7
<1>6. CASE UNCHANGED topUpVars
  BY <1>6 DEF topUpVars, TopUpLimits
<1>7. ASSUME NEW e \in 1..2,
             TopUpDispatch(e) \/ CallSucceeds(e) \/ CallPending(e) \/ CallFails(e) \/ DispatchTraps(e)
      PROVE  TopUpLimits'
  <2>1. TopUpDispatch(e) \/ Active(e)
    BY <1>7 DEF CallSucceeds, CallPending, CallFails, DispatchTraps
  <2> QED BY <1>4, <1>5, <1>7, <2>1
<1> QED BY <1>3, <1>6, <1>7 DEF TopUpNext

\* Units are conserved, so no place holds more than the wallet had, and the polls of the bridge
\* stop at their limit although two dispatches save their own copies of the stage over each
\* other (features/cycle_topup: advance, save_stage).
THEOREM TopUpTyped == TopUpSpec => []TopUpTypeOK
<1>1. TopUpInit => TopUpLimits
  <2> SUFFICES ASSUME TopUpInit PROVE TopUpLimits
    OBVIOUS
  <2>1. Stage("Idle") \in StageRecords /\ NotAdvancing \in StageRecords
    BY FreshStage DEF NotAdvancing
  <2>2. UnitsOf(funds) = Wallet
    <3>1. /\ funds["wallet"] = Wallet /\ funds["locked"] = 0 /\ funds["bridged"] = 0 /\ funds["icp"] = 0
          /\ funds["cmc"] = 0 /\ funds["minted"] = 0
      BY DEF TopUpInit, Places
    <3> QED BY <3>1, TopUpAssumption DEF UnitsOf
  <2>3. topups.runs = 0 /\ topups.lapses = 0
    BY DEF TopUpInit
  <2> QED BY <2>1, <2>2, <2>3, TopUpAssumption DEF TopUpInit, TopUpLimits
<1>2. TopUpInv /\ TopUpLimits => TopUpTypeOK
  <2> SUFFICES ASSUME TopUpInv, TopUpLimits PROVE TopUpTypeOK
    OBVIOUS
  <2>1. funds \in [Places -> Nat] /\ topups \in TopUpBooks
    BY DEF TopUpInv, TopUpFunds
  <2>2. \A p \in Places : funds[p] \in 0..Wallet
    <3>1. /\ funds["wallet"] \in Nat /\ funds["locked"] \in Nat /\ funds["bridged"] \in Nat
          /\ funds["icp"] \in Nat /\ funds["cmc"] \in Nat /\ funds["minted"] \in Nat
      BY <2>1 DEF Places
    <3>2. funds["wallet"] + funds["locked"] + funds["bridged"] + funds["icp"] + funds["cmc"]
            + funds["minted"] = Wallet
      BY DEF TopUpLimits, UnitsOf
    <3>3. /\ funds["wallet"] \in 0..Wallet /\ funds["locked"] \in 0..Wallet /\ funds["bridged"] \in 0..Wallet
          /\ funds["icp"] \in 0..Wallet /\ funds["cmc"] \in 0..Wallet /\ funds["minted"] \in 0..Wallet
      BY <3>1, <3>2, TopUpAssumption
    <3> QED BY <3>3 DEF Places
  <2>3. funds \in [Places -> 0..Wallet]
    BY <2>1, <2>2
  <2>4. topups \in [runs : 0..MaxRuns, failed : Nat, completed : Nat, locks : Nat, lapses : 0..MaxTopUpLapses]
    BY <2>1, TopUpAssumption DEF TopUpBooks, TopUpLimits
  <2> QED BY <2>3, <2>4 DEF TopUpTypeOK, TopUpLimits, StageRecords
<1>3. TopUpInv /\ TopUpInv' /\ TopUpLimits /\ [TopUpNext]_topUpVars => TopUpLimits'
  BY LimitsStep
<1> QED BY <1>1, <1>2, <1>3, TopUpInvAlways, PTL DEF TopUpSpec

-----------------------------------------------------------------------------
(* The paid messages of the Inbox contract. *)

\* A place in the log of the chain: of an event, or of a cursor.
Placed(e) == e.block \in Nat /\ e.index \in Nat

\* The events are those of the blocks mined, each at a place of its own.
ChainFits(c) ==
  /\ c.head \in Nat /\ IsFiniteSet(c.events)
  /\ \A e \in c.events : Placed(e) /\ e.block <= c.head /\ e.index <= 1
  /\ \A e, f \in c.events : e.block = f.block /\ e.index = f.index => e = f

\* A cursor points into the blocks mined or at the beginning of the next one, and every event
\* behind it is settled.
CursorFits(cur, c, settled) ==
  /\ Placed(cur) /\ {"block", "index", "empty"} \subseteq DOMAIN cur
  /\ cur.block <= c.head \/ (cur.block = c.head + 1 /\ cur.index = 0)
  /\ \A e \in c.events : Before(e, cur) => e \in settled

InRange(c, from, to) == {e \in c.events : e.block \in from .. to}

\* A poll under way: its snapshot, the range it reads, and the page it was answered.
InboxFits(q, c, settled) ==
  /\ CursorFits(q.cursor, c, settled)
  /\ {"pc", "cursor", "from", "to", "events"} \subseteq DOMAIN q
  /\ q.pc \in {"logs", "peers"} => q.from \in Nat /\ q.to \in Nat /\ q.to <= c.head
  /\ q.pc = "peers" => q.events = RouteMatchedLogs(InRange(c, q.from, q.to), q.cursor)

Settled == DOMAIN delivered \cup skipped

InboxInv ==
  /\ ChainFits(chain) /\ {"head", "events"} \subseteq DOMAIN chain
  /\ CursorFits(cursor, chain, Settled)
  /\ marked = DOMAIN delivered /\ \A e \in DOMAIN delivered : delivered[e] = 1
  /\ DOMAIN poll = 1..2 /\ \A p \in 1..2 : InboxFits(poll[p], chain, Settled)

\* Of the events of a set, one comes first and one comes last.
LEMMA FirstAndLast ==
  ASSUME NEW S, S # {}, NEW n \in Nat, \A e \in S : Placed(e) /\ e.block <= n /\ e.index <= 1
  PROVE  /\ \E e \in S : \A f \in S : ~Before(f, e)
         /\ \E e \in S : \A f \in S : ~Before(e, f)
<1> DEFINE At(e) == 2 * e.block + e.index
           A == {At(e) : e \in S}
           b == 2 * n + 1
<1>1. \A e \in S : At(e) \in Nat /\ At(e) <= b
  BY DEF Placed
<1>2. \A e, f \in S : Before(e, f) => At(e) < At(f)
  BY DEF Before, Placed
<1>3. A \in SUBSET Nat /\ A \in SUBSET Int /\ A # {} /\ b \in Int /\ \A x \in A : x <= b
  BY <1>1
<1>4. \E x \in A : \A y \in A : x <= y
  BY <1>3, LeastNat
<1>5. Max(A) \in A /\ \A y \in A : y <= Max(A)
  <2> HIDE DEF A, b
  <2> QED BY <1>3, MaxIsLargest
<1>6. PICK e \in S : \A f \in S : At(e) <= At(f)
  BY <1>4
<1>7. PICK l \in S : \A f \in S : At(f) <= At(l)
  BY <1>5
<1> HIDE DEF At
<1> QED BY <1>1, <1>2, <1>6, <1>7

\* A page holds the first events of its range from the cursor on: an event it leaves out comes
\* after all of it, and then the page is full.
LEMMA PageOfLogs ==
  ASSUME NEW n \in Nat, NEW logs, IsFiniteSet(logs),
         \A e \in logs : Placed(e) /\ e.block <= n /\ e.index <= 1,
         \A e, f \in logs : e.block = f.block /\ e.index = f.index => e = f,
         NEW c, Placed(c)
  PROVE  /\ RouteMatchedLogs(logs, c) \subseteq logs
         /\ \A e \in logs, f \in RouteMatchedLogs(logs, c) :
              ~Before(e, c) /\ ~Before(f, e) => e \in RouteMatchedLogs(logs, c)
         /\ \A e \in logs : ~Before(e, c) /\ e \notin RouteMatchedLogs(logs, c)
              => Cardinality(RouteMatchedLogs(logs, c)) = MaxLogs
<1> DEFINE fresh == {e \in logs : ~Before(e, c)}
           Rank(e) == {f \in fresh : Before(f, e)}
           page == {e \in fresh : Cardinality(Rank(e)) < MaxLogs}
<1>1. RouteMatchedLogs(logs, c) = page
  BY DEF RouteMatchedLogs
<1>2. /\ IsFiniteSet(fresh) /\ fresh \subseteq logs
      /\ \A e \in fresh : Placed(e) /\ e.block <= n /\ e.index <= 1
      /\ \A e, f \in fresh : e.block = f.block /\ e.index = f.index => e = f
  BY FS_Subset
<1>3. MaxLogs \in Nat /\ MaxLogs > 0
  BY PollAssumption
<1>3a. \A e \in logs : e \in fresh <=> ~Before(e, c)
  OBVIOUS
<1> HIDE DEF fresh
<1>4. \A e \in fresh : IsFiniteSet(Rank(e)) /\ Cardinality(Rank(e)) \in Nat
  <2> TAKE e \in fresh
  <2>1. Rank(e) \in SUBSET fresh
    OBVIOUS
  <2> HIDE DEF Rank
  <2> QED BY <1>2, <2>1, FS_Subset, FS_CardinalityType
<1>5. ASSUME NEW e \in fresh, NEW f \in page, ~Before(f, e)
      PROVE  e \in page
  <2>1. f \in fresh /\ Cardinality(Rank(f)) < MaxLogs
    OBVIOUS
  <2>2. Rank(e) \in SUBSET Rank(f)
    BY <1>2, <1>5, <2>1 DEF Before, Placed
  <2>3. Cardinality(Rank(e)) <= Cardinality(Rank(f))
    <3> HIDE DEF Rank
    <3> QED BY <1>4, <2>1, <2>2, FS_Subset
  <2>4. Cardinality(Rank(e)) < MaxLogs
    <3> HIDE DEF Rank
    <3> QED BY <1>3, <1>4, <2>1, <2>3
  <2> QED BY <2>4
<1>6. ASSUME NEW e \in fresh, e \notin page
      PROVE  Cardinality(page) = MaxLogs
  <2> DEFINE out == fresh \ page
  <2>1. out # {} /\ \A x \in out : Placed(x) /\ x.block <= n /\ x.index <= 1
    BY <1>2, <1>6
  <2>2. PICK first \in out : \A f \in out : ~Before(f, first)
    <3> HIDE DEF out
    <3> QED BY <2>1, FirstAndLast
  <2>3. page = Rank(first)
    <3>1. ASSUME NEW f \in page PROVE f \in Rank(first)
      BY <3>1, <1>5, <2>2
    <3>2. ASSUME NEW f \in Rank(first) PROVE f \in page
      BY <3>2, <2>2
    <3> QED BY <3>1, <3>2
  <2>4. first \in fresh /\ ~(Cardinality(Rank(first)) < MaxLogs)
    BY <2>2
  <2>5. page # {}
    <3>1. SUFFICES ASSUME page = {} PROVE FALSE
      OBVIOUS
    <3>2. Cardinality(page) = 0
      BY <3>1, FS_EmptySet
    <3> QED BY <3>2, <2>3, <2>4, <1>3
  <2>6. PICK last \in page : \A f \in page : ~Before(last, f)
    <3>1. \A x \in page : Placed(x) /\ x.block <= n /\ x.index <= 1
      BY <1>2
    <3> HIDE DEF page
    <3> QED BY <2>5, <3>1, FirstAndLast
  <2>7. last \in fresh /\ Cardinality(Rank(last)) < MaxLogs
    BY <2>6
  <2>8. page \subseteq Rank(last) \cup {last}
    <3> SUFFICES ASSUME NEW f \in page, f # last PROVE Before(f, last)
      OBVIOUS
    <3>1. f \in fresh /\ ~Before(last, f) /\ Placed(f) /\ Placed(last)
      BY <1>2, <2>6, <2>7
    <3> QED BY <1>2, <2>7, <3>1 DEF Before, Placed
  <2>9. Cardinality(page) <= MaxLogs
    <3> DEFINE R == Rank(last)
               m == Cardinality(R)
    <3>1. IsFiniteSet(R) /\ m \in Nat /\ m < MaxLogs
      BY <1>4, <2>7
    <3> HIDE DEF R
    <3>2. IsFiniteSet(R \cup {last})
          /\ Cardinality(R \cup {last}) \in {m, m + 1}
      BY <3>1, FS_AddElement
    <3>3. Cardinality(page) <= Cardinality(R \cup {last}) /\ IsFiniteSet(page)
      <4>1. page \in SUBSET (R \cup {last})
        BY <2>8 DEF R
      <4> HIDE DEF page
      <4> QED BY <4>1, <3>2, FS_Subset
    <3>4. Cardinality(page) \in Nat
      BY <3>3, FS_CardinalityType
    <3> HIDE DEF m, page
    <3> QED BY <3>1, <3>2, <3>3, <3>4, <1>3
  <2>10. Cardinality(page) = Cardinality(Rank(first)) /\ Cardinality(Rank(first)) \in Nat
    BY <2>3, <2>4, <1>4
  <2> HIDE DEF page, Rank
  <2> QED BY <2>4, <2>9, <2>10, <1>3
<1> HIDE DEF page
<1>7. page \subseteq fresh
  BY DEF page
<1> QED BY <1>1, <1>2, <1>3a, <1>5, <1>6, <1>7

\* What is settled only grows.
LEMMA SettledGrows ==
  ASSUME NEW c, NEW settled, NEW more, settled \subseteq more
  PROVE  /\ \A cur : CursorFits(cur, c, settled) => CursorFits(cur, c, more)
         /\ \A q : InboxFits(q, c, settled) => InboxFits(q, c, more)
  BY DEF CursorFits, InboxFits

\* The cursor a poll writes: behind it lies what the page holds, what the snapshot had behind it
\* and what the fast-forward passed over.
LEMMA NextCursorFits ==
  ASSUME NEW c, ChainFits(c), NEW cur, NEW settled, CursorFits(cur, c, settled),
         NEW from \in Nat, NEW to \in Nat, to <= c.head,
         NEW page, page = RouteMatchedLogs(InRange(c, from, to), cur),
         NEW more, settled \subseteq more, page \subseteq more,
         \A e \in c.events : e.block < from /\ ~Before(e, cur) => e \in more, NEW x
  PROVE  CursorFits([NextCursor(cur, page, to) EXCEPT !.empty = x], c, more)
<1> DEFINE logs == InRange(c, from, to)
           last == CHOOSE e \in page : \A f \in page : ~Before(e, f)
           next == NextCursor(cur, page, to)
           new  == [next EXCEPT !.empty = x]
<1>1. /\ IsFiniteSet(logs) /\ logs \subseteq c.events
      /\ \A e \in logs : Placed(e) /\ e.block <= c.head /\ e.block <= to /\ e.index <= 1
      /\ \A e, f \in logs : e.block = f.block /\ e.index = f.index => e = f
      /\ \A e \in c.events : e.block >= from /\ e.block <= to => e \in logs
  BY FS_Subset DEF ChainFits, InRange, Placed
<1>2. Placed(cur) /\ c.head \in Nat /\ \A e \in c.events : Placed(e) /\ e.block <= c.head
  BY DEF CursorFits, ChainFits
<1> HIDE DEF logs
<1>3. /\ page \subseteq logs
      /\ \A e \in logs, f \in page : ~Before(e, cur) /\ ~Before(f, e) => e \in page
      /\ \A e \in logs : ~Before(e, cur) /\ e \notin page => Cardinality(page) = MaxLogs
  BY <1>1, <1>2, PageOfLogs DEF logs
\* Whatever is behind the range's end and not in the page comes after a full page.
<1>4. ASSUME NEW e \in c.events, e.block <= to, e \notin more
      PROVE  Cardinality(page) = MaxLogs /\ \A f \in page : Before(f, e)
  <2>1. ~Before(e, cur)
    BY <1>4 DEF CursorFits
  <2>2. e.block >= from
    BY <1>2, <1>4, <2>1 DEF Placed
  <2> QED BY <1>1, <1>3, <1>4, <2>1, <2>2
<1>5. /\ next = IF Cardinality(page) = MaxLogs
                  THEN [cur EXCEPT !.block = last.block, !.index = last.index + 1]
                  ELSE [cur EXCEPT !.block = to + 1, !.index = 0]
  BY DEF NextCursor
<1>6. CASE Cardinality(page) = MaxLogs
  <2>1. page # {}
    BY <1>6, PollAssumption, FS_EmptySet
  <2>2. \E e \in page : \A f \in page : ~Before(e, f)
    BY <1>1, <1>2, <1>3, <2>1, FirstAndLast
  <2>3. last \in page /\ \A f \in page : ~Before(last, f)
    BY <2>2
  <2> HIDE DEF last
  <2>4. Placed(last) /\ last.block <= c.head /\ last.block <= to
    BY <1>1, <1>3, <2>3
  <2>5. /\ new.block = last.block /\ new.index = last.index + 1
        /\ {"block", "index", "empty"} \subseteq DOMAIN new
    BY <1>5, <1>6 DEF CursorFits
  <2> HIDE DEF new
  <2>6. ASSUME NEW e \in c.events, Before(e, new)
        PROVE  e \in more
    <3>1. e.block <= to /\ ~Before(last, e)
      BY <1>2, <2>4, <2>5, <2>6 DEF Before, Placed
    <3> QED BY <1>4, <2>3, <3>1
  <2>7. CursorFits(new, c, more)
    BY <2>4, <2>5, <2>6 DEF CursorFits, Placed
  <2> QED BY <2>7 DEF new
<1>7. CASE Cardinality(page) # MaxLogs
  <2>1. /\ new.block = to + 1 /\ new.index = 0
        /\ {"block", "index", "empty"} \subseteq DOMAIN new
    BY <1>5, <1>7 DEF CursorFits
  <2> HIDE DEF new
  <2>2. ASSUME NEW e \in c.events, Before(e, new)
        PROVE  e \in more
    <3>1. e.block <= to
      BY <1>2, <2>1, <2>2 DEF Before, Placed
    <3> QED BY <1>4, <1>7, <3>1
  <2>3. new.block <= c.head \/ (new.block = c.head + 1 /\ new.index = 0)
    BY <1>2, <2>1
  <2>4. CursorFits(new, c, more)
    BY <2>1, <2>2, <2>3 DEF CursorFits, Placed
  <2> QED BY <2>4 DEF new
<1> QED BY <1>6, <1>7

\* A step that leaves the chain and what is settled alone, and changes one poll.
LEMMA OnePollMoves ==
  ASSUME InboxInv, UNCHANGED <<chain, marked, delivered, skipped>>, NEW p \in 1..2, NEW next,
         Poll(p, next), InboxFits(next, chain, Settled), CursorFits(cursor', chain, Settled)
  PROVE  InboxInv'
<1>1. Settled' = Settled /\ poll' = [poll EXCEPT ![p] = next] /\ DOMAIN poll = 1..2
  BY DEF Settled, InboxInv, Poll
<1>2. DOMAIN poll' = 1..2 /\ \A q \in 1..2 : poll'[q] = IF q = p THEN next ELSE poll[q]
  BY <1>1
<1>3. \A q \in 1..2 : InboxFits(poll'[q], chain, Settled)
  BY <1>2 DEF InboxInv
<1> QED BY <1>1, <1>2, <1>3 DEF InboxInv

\* A poll at rest.
LEMMA NoPollFits ==
  ASSUME NEW c, NEW settled, ChainFits(c)
  PROVE  /\ CursorFits(NoPoll.cursor, c, settled) /\ NoPoll.pc = "idle"
         /\ {"pc", "cursor", "from", "to", "events"} \subseteq DOMAIN NoPoll
         /\ InboxFits(NoPoll, c, settled)
  BY DEF CursorFits, NoPoll, InboxFits, ChainFits, Placed, Before

\* A poll that begins takes a copy of a cursor whose past is settled.
LEMMA BeginPollKeeps ==
  ASSUME InboxInv, NEW p \in 1..2, NEW due, BeginPoll(p, due)
  PROVE  InboxInv'
<1> DEFINE next == [NoPoll EXCEPT !.pc = IF due THEN "head" ELSE "balance", !.cursor = cursor]
<1>1. UNCHANGED <<chain, cursor, marked, delivered, skipped>> /\ Poll(p, next)
  BY DEF BeginPoll, chainSide
<1>2. /\ next.pc \in {"head", "balance"} /\ next.cursor = cursor
      /\ {"pc", "cursor", "from", "to", "events"} \subseteq DOMAIN next
  BY DEF NoPoll
<1> HIDE DEF next
<1>3. InboxFits(next, chain, Settled) /\ CursorFits(cursor', chain, Settled)
  BY <1>1, <1>2 DEF InboxFits, InboxInv
<1> QED BY <1>1, <1>3, OnePollMoves

\* The head fixes the range of the poll; a fast-forward over what it cannot read is recorded as skipped.
LEMMA HeadReturnsKeeps ==
  ASSUME InboxInv, NEW p \in 1..2, HeadReturns(p)
  PROVE  InboxInv'
<1> DEFINE head == Minus(chain.head, ConfirmationDepth)
           from == EffectiveFromBlock(poll[p].cursor, head)
           to   == Min({head, from + BlockRange})
<1>1. UNCHANGED <<chain, marked, delivered, skipped>>
  BY DEF HeadReturns
<1>2. InboxFits(poll[p], chain, Settled) /\ chain.head \in Nat /\ CursorFits(cursor, chain, Settled)
  BY DEF InboxInv, ChainFits
<1>3. head \in Nat /\ head <= chain.head
  BY <1>2, PollAssumption DEF Minus
<1>4. from \in Nat
  <2> HIDE DEF head
  <2>1. poll[p].cursor.block \in Nat
    BY <1>2 DEF InboxFits, CursorFits, Placed
  <2> QED BY <1>3, <2>1, PollAssumption DEF EffectiveFromBlock, Minus
<1>5. to \in Nat /\ to <= head
  <2> HIDE DEF head, from
  <2>1. {head, from + BlockRange} \in SUBSET Nat /\ {head, from + BlockRange} # {}
    BY <1>3, <1>4, PollAssumption
  <2> QED BY <2>1, MinIsLeast
<1>6. CASE from > to
  <2> DEFINE next == [poll[p] EXCEPT !.pc = "balance"]
  <2>1. cursor' = [poll[p].cursor EXCEPT !.empty = TRUE] /\ Poll(p, next)
    BY <1>6 DEF HeadReturns
  <2>2. CursorFits(cursor', chain, Settled)
    BY <1>2, <2>1 DEF InboxFits, CursorFits, Placed, Before
  <2>3. /\ next.pc = "balance" /\ next.cursor = poll[p].cursor
        /\ {"pc", "cursor", "from", "to", "events"} \subseteq DOMAIN next
    BY <1>2 DEF InboxFits
  <2> HIDE DEF next
  <2>4. InboxFits(next, chain, Settled)
    BY <1>2, <2>3 DEF InboxFits
  <2> QED BY <1>1, <2>1, <2>2, <2>4, OnePollMoves
<1>7. CASE ~(from > to)
  <2> DEFINE next == [poll[p] EXCEPT !.pc = "logs", !.from = from, !.to = to]
  <2>1. UNCHANGED cursor /\ Poll(p, next)
    BY <1>7 DEF HeadReturns
  <2> HIDE DEF from, to
  <2>2. /\ next.pc = "logs" /\ next.cursor = poll[p].cursor /\ next.from = from /\ next.to = to
        /\ {"pc", "cursor", "from", "to", "events"} \subseteq DOMAIN next
    BY <1>2 DEF InboxFits
  <2> HIDE DEF next, head
  <2>3. to <= chain.head
    BY <1>2, <1>3, <1>5
  <2>4. InboxFits(next, chain, Settled)
    BY <1>2, <1>4, <1>5, <2>2, <2>3 DEF InboxFits
  <2> QED BY <1>1, <1>2, <2>1, <2>4, OnePollMoves
<1> QED BY <1>6, <1>7

\* The page read is the first unread events of the range.
LEMMA LogsReturnKeeps ==
  ASSUME InboxInv, NEW p \in 1..2, LogsReturn(p)
  PROVE  InboxInv'
<1> DEFINE this == poll[p]
           events == RouteMatchedLogs(InRange(chain, this.from, this.to), this.cursor)
           next == [this EXCEPT !.pc = "peers", !.events = events]
<1>1. /\ UNCHANGED <<chain, cursor, marked, delivered, skipped>> /\ Poll(p, next)
      /\ this.pc = "logs"
  BY DEF LogsReturn, InRange, chainSide
<1>2. InboxFits(this, chain, Settled) /\ CursorFits(cursor', chain, Settled)
  BY <1>1 DEF InboxInv
<1>3. /\ next.pc = "peers" /\ next.cursor = this.cursor /\ next.from = this.from /\ next.to = this.to
      /\ next.events = events /\ {"pc", "cursor", "from", "to", "events"} \subseteq DOMAIN next
  BY <1>2 DEF InboxFits
<1>4. InboxFits(next, chain, Settled)
  <2> HIDE DEF next, this
  <2> QED BY <1>1, <1>2, <1>3 DEF InboxFits
<1> QED BY <1>1, <1>2, <1>4, OnePollMoves

\* A poll that fails, or ends with the wallet, moves no cursor.
LEMMA PollEndsKeeps ==
  ASSUME InboxInv, NEW p \in 1..2, PollFails(p) \/ WalletSynced(p)
  PROVE  InboxInv'
<1>1. UNCHANGED <<chain, cursor, marked, delivered, skipped>> /\ Poll(p, NoPoll)
  BY DEF PollFails, WalletSynced, chainSide
<1>2. InboxFits(NoPoll, chain, Settled) /\ CursorFits(cursor', chain, Settled)
  BY <1>1, NoPollFits DEF InboxInv
<1> QED BY <1>1, <1>2, OnePollMoves

\* New events are delivered for the first time.
LEMMA DeliveredOnce ==
  ASSUME marked = DOMAIN delivered, \A e \in DOMAIN delivered : delivered[e] = 1,
         NEW new, new \cap marked = {}, delivered' = Deliver(new), marked' = marked \cup new
  PROVE  /\ marked' = DOMAIN delivered' /\ DOMAIN delivered' = DOMAIN delivered \cup new
         /\ \A e \in DOMAIN delivered' : delivered'[e] = 1
<1>1. DOMAIN delivered' = DOMAIN delivered \cup new
  BY DEF Deliver
<1>2. ASSUME NEW e \in DOMAIN delivered \cup new PROVE delivered'[e] = 1
  <2>1. delivered'[e] = (IF e \in DOMAIN delivered THEN delivered[e] ELSE 0) + (IF e \in new THEN 1 ELSE 0)
    BY DEF Deliver
  <2>2. CASE e \in DOMAIN delivered
    BY <2>1, <2>2
  <2>3. CASE e \notin DOMAIN delivered
    BY <2>1, <2>3
  <2> QED BY <2>2, <2>3
<1> QED BY <1>1, <1>2

\* Ingesting a page settles every event up to the cursor it then stores.
LEMMA EventsIngestedKeeps ==
  ASSUME InboxInv, NEW p \in 1..2, EventsIngested(p)
  PROVE  InboxInv'
<1> DEFINE this == poll[p]
           new == Fresh(this.events)
           next == [NextCursor(this.cursor, this.events, this.to) EXCEPT !.empty = new = {}]
           skippedNow == {e \in chain.events : e.block < this.from /\ ~Before(e, this.cursor)}
<1>1. UNCHANGED chain /\ this.pc = "peers" /\ ChainFits(chain)
  BY DEF EventsIngested, InboxInv
<1>2. /\ InboxFits(this, chain, Settled) /\ DOMAIN poll = 1..2
      /\ marked = DOMAIN delivered /\ \A e \in DOMAIN delivered : delivered[e] = 1
      /\ CursorFits(cursor, chain, Settled)
  BY DEF InboxInv
<1>3. /\ CursorFits(this.cursor, chain, Settled) /\ this.from \in Nat /\ this.to \in Nat
      /\ this.to <= chain.head
      /\ this.events = RouteMatchedLogs(InRange(chain, this.from, this.to), this.cursor)
  BY <1>1, <1>2 DEF InboxFits
<1>4. new \cap marked = {} /\ this.events \subseteq marked \cup new
  BY DEF Fresh
<1>5. ASSUME NEW q, Poll(p, q), InboxFits(q, chain, Settled), Settled \subseteq Settled',
             CursorFits(cursor', chain, Settled'), marked' = DOMAIN delivered',
             \A e \in DOMAIN delivered' : delivered'[e] = 1
      PROVE  InboxInv'
  <2>1. poll' = [poll EXCEPT ![p] = q]
    BY <1>5 DEF Poll
  <2>2. DOMAIN poll' = 1..2 /\ \A r \in 1..2 : poll'[r] = IF r = p THEN q ELSE poll[r]
    BY <1>2, <2>1
  <2>3. \A r \in 1..2 : InboxFits(poll'[r], chain, Settled)
    BY <2>2, <1>5 DEF InboxInv
  <2>4. \A r \in 1..2 : InboxFits(poll'[r], chain, Settled')
    BY <2>3, <1>5, SettledGrows
  <2> QED BY <1>1, <1>5, <2>2, <2>4 DEF InboxInv
<1>6. CASE /\ cursor' = next /\ marked' = marked \cup new /\ delivered' = Deliver(new)
           /\ skipped' = skipped \cup skippedNow /\ Poll(p, [this EXCEPT !.pc = "balance"])
  <2> DEFINE q == [this EXCEPT !.pc = "balance"]
  <2>1. /\ marked' = DOMAIN delivered' /\ DOMAIN delivered' = DOMAIN delivered \cup new
        /\ \A e \in DOMAIN delivered' : delivered'[e] = 1
    <3> HIDE DEF new
    <3> QED BY <1>2, <1>4, <1>6, DeliveredOnce
  <2>2. Settled \subseteq Settled' /\ this.events \subseteq Settled'
        /\ \A e \in chain.events : e.block < this.from /\ ~Before(e, this.cursor) => e \in Settled'
    BY <1>2, <1>4, <1>6, <2>1 DEF Settled
  <2>3. CursorFits(cursor', chain, Settled')
    <3> DEFINE more == Settled'
               ev == this.events
               cur == this.cursor
               settled == Settled
    <3>1. settled \subseteq more /\ ev \subseteq more
          /\ \A e \in chain.events : e.block < this.from /\ ~Before(e, cur) => e \in more
      BY <2>2
    <3>2. CursorFits(cur, chain, settled) /\ ev = RouteMatchedLogs(InRange(chain, this.from, this.to), cur)
      BY <1>3
    <3>3. cursor' = [NextCursor(cur, ev, this.to) EXCEPT !.empty = new = {}]
      BY <1>6
    <3> HIDE DEF more, ev, cur, settled, new
    <3>4. CursorFits([NextCursor(cur, ev, this.to) EXCEPT !.empty = new = {}], chain, more)
      BY <1>1, <1>3, <3>1, <3>2, NextCursorFits
    <3> QED BY <3>3, <3>4 DEF more
  <2>4. /\ q.pc = "balance" /\ q.cursor = this.cursor
        /\ {"pc", "cursor", "from", "to", "events"} \subseteq DOMAIN q
    BY <1>2 DEF InboxFits
  <2>5. InboxFits(q, chain, Settled)
    <3> HIDE DEF q
    <3> QED BY <1>3, <2>4 DEF InboxFits
  <2> HIDE DEF q
  <2> QED BY <1>5, <1>6, <2>1, <2>2, <2>3, <2>5 DEF q
<1>7. CASE \E bad \in {e \in new : ~e.gift} :
              /\ marked' = marked \cup {e \in new : ~Before(bad, e)}
              /\ delivered' = Deliver({e \in new : ~Before(bad, e)})
              /\ Poll(p, NoPoll) /\ UNCHANGED <<cursor, skipped>>
  <2>1. PICK bad :
              /\ marked' = marked \cup {e \in new : ~Before(bad, e)}
              /\ delivered' = Deliver({e \in new : ~Before(bad, e)})
              /\ Poll(p, NoPoll) /\ UNCHANGED <<cursor, skipped>>
    BY <1>7
  <2> DEFINE done == {e \in new : ~Before(bad, e)}
  <2>2. done \cap marked = {} /\ marked' = marked \cup done /\ delivered' = Deliver(done)
    BY <1>4, <2>1
  <2> HIDE DEF done
  <2>3. /\ marked' = DOMAIN delivered' /\ DOMAIN delivered' = DOMAIN delivered \cup done
        /\ \A e \in DOMAIN delivered' : delivered'[e] = 1
    BY <1>2, <2>2, DeliveredOnce
  <2>4. Settled \subseteq Settled'
    BY <2>1, <2>3 DEF Settled
  <2>5. CursorFits(cursor', chain, Settled')
    BY <1>2, <2>1, <2>4, SettledGrows
  <2> QED BY <1>1, <1>5, <2>1, <2>3, <2>4, <2>5, NoPollFits
<1> QED BY <1>6, <1>7 DEF EventsIngested

\* A new block lies behind no cursor and no range already read.
LEMMA MineBlockKeeps ==
  ASSUME InboxInv, NEW n \in 0..2, NEW gifts, MineBlock(n, gifts)
  PROVE  InboxInv'
<1> DEFINE block == chain.head + 1
           Emitted(i) == [block |-> block, index |-> i, gift |-> i \in gifts]
           mined == {Emitted(i) : i \in 0 .. n - 1}
<1>1. /\ chain' = [head |-> block, events |-> chain.events \cup mined]
      /\ UNCHANGED <<cursor, marked, delivered, skipped, poll>>
  BY DEF MineBlock
<1>2. ChainFits(chain) /\ chain.head \in Nat /\ block \in Nat
  BY DEF InboxInv, ChainFits
<1>3. \A e \in mined : /\ Placed(e) /\ e.block = block /\ e.index <= 1
                       /\ e = Emitted(e.index) /\ e.index \in 0..1
  BY <1>2 DEF Placed
<1>4. IsFiniteSet(mined)
  <2>1. mined \in SUBSET ({Emitted(0)} \cup {Emitted(1)})
    BY <1>3
  <2>2. IsFiniteSet({Emitted(0)} \cup {Emitted(1)})
    <3> HIDE DEF Event
    <3> QED BY FS_Singleton, FS_Union
  <2> HIDE DEF mined, Event
  <2> QED BY <2>1, <2>2, FS_Subset
<1>5. \A e, f \in mined : e.index = f.index => e = f
  BY <1>3
<1>6. chain'.head = block /\ chain'.events = chain.events \cup mined
      /\ {"head", "events"} \subseteq DOMAIN chain'
  BY <1>1
<1> HIDE DEF mined, Event
<1>7. ChainFits(chain')
  <2>1. IsFiniteSet(chain'.events)
    BY <1>2, <1>4, <1>6, FS_Union DEF ChainFits
  <2>2. \A e \in chain'.events : Placed(e) /\ e.block <= block /\ e.index <= 1
    BY <1>2, <1>3, <1>6 DEF ChainFits, Placed
  <2>3. \A e \in chain.events : e.block # block
    BY <1>2 DEF ChainFits, Placed
  <2>4. \A e, f \in chain'.events : e.block = f.block /\ e.index = f.index => e = f
    BY <1>2, <1>3, <1>5, <1>6, <2>3 DEF ChainFits
  <2> QED BY <1>2, <1>6, <2>1, <2>2, <2>4 DEF ChainFits
<1>8. ASSUME NEW cur, CursorFits(cur, chain, Settled)
      PROVE  CursorFits(cur, chain', Settled)
  <2>1. Placed(cur) /\ cur.block <= block /\ (cur.block = block => cur.index = 0)
    BY <1>2, <1>8 DEF CursorFits, Placed
  <2>2. \A e \in mined : ~Before(e, cur)
    BY <1>2, <1>3, <2>1 DEF Before, Placed
  <2>3. cur.block <= block
    BY <2>1
  <2> QED BY <1>6, <1>8, <2>2, <2>3 DEF CursorFits
<1>9. ASSUME NEW q, InboxFits(q, chain, Settled)
      PROVE  InboxFits(q, chain', Settled)
  <2>1. q.pc \in {"logs", "peers"} => /\ q.from \in Nat /\ q.to \in Nat /\ q.to <= chain'.head
                                      /\ InRange(chain', q.from, q.to) = InRange(chain, q.from, q.to)
    <3> SUFFICES ASSUME q.pc \in {"logs", "peers"}
                 PROVE  /\ q.from \in Nat /\ q.to \in Nat /\ q.to <= chain'.head
                        /\ InRange(chain', q.from, q.to) = InRange(chain, q.from, q.to)
      OBVIOUS
    <3>1. q.from \in Nat /\ q.to \in Nat /\ q.to <= chain.head
      BY <1>9 DEF InboxFits
    <3>2. q.to <= block /\ ~(block <= q.to)
      BY <1>2, <3>1
    <3>3. \A e \in mined : e.block \notin q.from .. q.to
      BY <1>3, <3>1, <3>2
    <3> HIDE DEF block
    <3> QED BY <1>6, <3>1, <3>2, <3>3 DEF InRange
  <2>2. CursorFits(q.cursor, chain', Settled)
    BY <1>8, <1>9 DEF InboxFits
  <2> QED BY <1>9, <2>1, <2>2 DEF InboxFits
<1>10. Settled' = Settled
  BY <1>1 DEF Settled
<1> QED BY <1>1, <1>6, <1>7, <1>8, <1>9, <1>10 DEF InboxInv

\* The poller starts with nothing on chain and nothing settled.
LEMMA InboxInit == PollInit => InboxInv
<1> SUFFICES ASSUME PollInit PROVE InboxInv
  OBVIOUS
<1>1. chain.head = 0 /\ chain.events = {} /\ {"head", "events"} \subseteq DOMAIN chain
  BY DEF PollInit
<1>2. ChainFits(chain)
  BY <1>1, FS_EmptySet DEF ChainFits
<1>3. CursorFits(cursor, chain, Settled) /\ \A p \in 1..2 : InboxFits(poll[p], chain, Settled)
  BY <1>2, NoPollFits DEF PollInit
<1> QED BY <1>1, <1>2, <1>3 DEF PollInit, InboxInv

\* The invariant of the Inbox poll always holds.
LEMMA InboxInvAlways == PollSpec => []InboxInv
<1>1. ASSUME InboxInv, PollNext
      PROVE  InboxInv'
  <2>1. CASE \E n \in 0..2, gifts \in {{}, {0}} : MineBlock(n, gifts)
    BY <1>1, <2>1, MineBlockKeeps
  <2>2. ASSUME NEW p \in 1..2, (\E due \in BOOLEAN : BeginPoll(p, due)) \/ HeadReturns(p) \/ LogsReturn(p)
                 \/ EventsIngested(p) \/ PollFails(p) \/ WalletSynced(p)
        PROVE  InboxInv'
    BY <1>1, <2>2, BeginPollKeeps, HeadReturnsKeeps, LogsReturnKeeps, EventsIngestedKeeps, PollEndsKeeps
  <2> QED BY <1>1, <2>1, <2>2 DEF PollNext
<1>2. ASSUME InboxInv, UNCHANGED pollVars
      PROVE  InboxInv'
  BY <1>2 DEF InboxInv, pollVars, Settled
<1> QED BY InboxInit, <1>1, <1>2, PTL DEF PollSpec

\* Whatever overlapping polls write over each other, every paid event behind the cursor was
\* delivered, once, or a fast-forward passed over it.
THEOREM NoPaidMessageLostAlways == PollSpec => []NoPaidMessageLost
<1>1. InboxInv => NoPaidMessageLost
  BY DEF InboxInv, NoPaidMessageLost, CursorFits, Settled
<1> QED BY <1>1, InboxInvAlways, PTL

\* The cursor points into the blocks that can be mined or at the one after them, and so do the
\* copies of it that polls under way work on: overlapping polls write back no cursor that never
\* was one.
Cursors == [block : 0 .. MaxBlocks + 1, index : 0 .. MaxEvents + 1, empty : BOOLEAN]

PollRecords ==
  [pc : {"idle", "head", "logs", "peers", "balance"}, cursor : Cursors, from : Nat,
   to : 0..MaxBlocks, events : SUBSET Events]

PollLimits ==
  /\ chain.head \in 0..MaxBlocks /\ chain.events \subseteq Events /\ cursor \in Cursors
  /\ marked \subseteq Events /\ skipped \subseteq Events
  /\ wallet \in BOOLEAN /\ polls \in 0..MaxPolls /\ poll \in [1..2 -> PollRecords]

\* A new record of a poll is one of the records.
LEMMA PollWritten ==
  ASSUME PollLimits, NEW p \in 1..2, NEW next \in PollRecords, Poll(p, next)
  PROVE  poll' \in [1..2 -> PollRecords]
BY DEF PollLimits, Poll

\* No poll.
LEMMA NoPollRecord == NoPoll \in PollRecords /\ NoPoll.cursor \in Cursors
BY PollAssumption DEF NoPoll, PollRecords, Cursors

\* The events of a block have places within the bound on their number.
LEMMA MinedEvents ==
  ASSUME InboxInv, PollLimits, NEW n \in 0..2, NEW gifts, MineBlock(n, gifts)
  PROVE  PollLimits'
<1> DEFINE block == chain.head + 1
           mined == {[block |-> block, index |-> i, gift |-> i \in gifts] : i \in 0 .. n - 1}
<1>1. /\ chain' = [head |-> block, events |-> chain.events \cup mined]
      /\ chain.head < MaxBlocks /\ Cardinality(chain.events) + n <= MaxEvents
      /\ UNCHANGED <<cursor, marked, skipped, wallet, poll, polls>>
  BY DEF MineBlock
<1>2. Cardinality(chain.events) \in Nat /\ chain.head \in Nat
  BY FS_CardinalityType DEF InboxInv, ChainFits
<1>3. block \in 1..MaxBlocks /\ n <= MaxEvents
  BY <1>1, <1>2, PollAssumption
<1>4. mined \subseteq Events
  <2> SUFFICES ASSUME NEW i \in 0 .. n - 1
               PROVE  [block |-> block, index |-> i, gift |-> i \in gifts] \in Events
    OBVIOUS
  <2>1. i \in 0..MaxEvents
    BY <1>3, PollAssumption
  <2> HIDE DEF block
  <2>2. (i \in gifts) \in BOOLEAN
    OBVIOUS
  <2> QED BY <1>3, <2>1, <2>2 DEF Events
<1>5. chain'.head = block /\ chain'.events = chain.events \cup mined
  BY <1>1
<1> HIDE DEF block, mined
<1> QED BY <1>1, <1>3, <1>4, <1>5 DEF PollLimits

\* The cursor after a page is behind an event of it, or behind the range.
LEMMA CursorInLog ==
  ASSUME InboxInv, PollLimits, NEW p \in 1..2, poll[p].pc = "peers"
  PROVE  NextCursor(poll[p].cursor, poll[p].events, poll[p].to) \in Cursors
<1> DEFINE q == poll[p]
           last == CHOOSE e \in q.events : \A f \in q.events : ~Before(e, f)
<1>1. q \in PollRecords
  BY DEF PollLimits
<1>2. q.cursor \in Cursors /\ q.to \in 0..MaxBlocks /\ q.events \subseteq Events
  BY <1>1 DEF PollRecords
<1>3. q.events \subseteq chain.events
  BY DEF InboxInv, InboxFits, RouteMatchedLogs, InRange
<1> HIDE DEF q
<1>4. CASE Cardinality(q.events) = MaxLogs
  <2>1. q.events # {}
    BY <1>4, FS_EmptySet, PollAssumption
  <2>2. chain.head \in Nat /\ \A e \in q.events : Placed(e) /\ e.block <= chain.head /\ e.index <= 1
    BY <1>3 DEF InboxInv, ChainFits
  <2>3. \E e \in q.events : \A f \in q.events : ~Before(e, f)
    BY <2>1, <2>2, FirstAndLast
  <2>4. last \in q.events
    BY <2>3
  <2> HIDE DEF last
  <2>5. last.block \in 1..MaxBlocks /\ last.index \in 0..MaxEvents
    BY <1>2, <2>4 DEF Events
  <2>6. last.block \in 0 .. MaxBlocks + 1 /\ last.index + 1 \in 0 .. MaxEvents + 1
    BY <2>5, PollAssumption
  <2>7. [q.cursor EXCEPT !.block = last.block, !.index = last.index + 1] \in Cursors
    BY <1>2, <2>6 DEF Cursors
  <2> USE DEF last
  <2> QED BY <1>4, <2>7 DEF NextCursor, q
<1>5. CASE Cardinality(q.events) # MaxLogs
  <2>1. q.to + 1 \in 0 .. MaxBlocks + 1 /\ 0 \in 0 .. MaxEvents + 1
    BY <1>2, PollAssumption
  <2>2. [q.cursor EXCEPT !.block = q.to + 1, !.index = 0] \in Cursors
    BY <1>2, <2>1 DEF Cursors
  <2> QED BY <1>5, <2>2 DEF NextCursor, q
<1> QED BY <1>4, <1>5

\* A poll reads no block beyond the head.
LEMMA HeadLimits ==
  ASSUME InboxInv, PollLimits, NEW p \in 1..2, HeadReturns(p)
  PROVE  PollLimits'
<1> DEFINE q == poll[p]
           head == Minus(chain.head, ConfirmationDepth)
           from == EffectiveFromBlock(q.cursor, head)
           to == Min({head, from + BlockRange})
<1>1. q \in PollRecords /\ q.cursor \in Cursors
  BY DEF PollLimits, PollRecords
<1>2. head \in 0..MaxBlocks
  BY PollAssumption DEF PollLimits, Minus
<1>3. from \in Nat
  <2>1. q.cursor.block \in Nat
    BY <1>1, PollAssumption DEF Cursors
  <2> HIDE DEF q, head
  <2>2. Minus(head, Lookback) \in Nat
    BY <1>2, PollAssumption DEF Minus
  <2> QED BY <2>1, <2>2 DEF EffectiveFromBlock
<1>4. UNCHANGED <<chain, marked, skipped, wallet, polls>>
  BY DEF HeadReturns
<1>5. CASE from > to
  <2>1. cursor' = [q.cursor EXCEPT !.empty = TRUE] /\ Poll(p, [q EXCEPT !.pc = "balance"])
    BY <1>5 DEF HeadReturns
  <2>2. [q EXCEPT !.pc = "balance"] \in PollRecords /\ [q.cursor EXCEPT !.empty = TRUE] \in Cursors
    BY <1>1 DEF PollRecords, Cursors
  <2>3. poll' \in [1..2 -> PollRecords] /\ cursor' \in Cursors
    BY <2>1, <2>2, PollWritten
  <2> QED BY <1>4, <2>3 DEF PollLimits
<1>6. CASE ~(from > to)
  <2>1. cursor' = cursor /\ Poll(p, [q EXCEPT !.pc = "logs", !.from = from, !.to = to])
    BY <1>6 DEF HeadReturns
  <2>2. to \in 0..MaxBlocks
    <3> HIDE DEF head, from
    <3>1. {head, from + BlockRange} \in SUBSET Nat /\ {head, from + BlockRange} # {}
      BY <1>2, <1>3, PollAssumption
    <3>2. to \in {head, from + BlockRange} /\ to <= head
      BY <3>1, MinIsLeast
    <3> HIDE DEF to
    <3> QED BY <1>2, <3>1, <3>2, PollAssumption
  <2> HIDE DEF head, from, to, q
  <2>3. [q EXCEPT !.pc = "logs"] \in PollRecords
    BY <1>1 DEF PollRecords
  <2>4. [q EXCEPT !.pc = "logs", !.from = from] \in PollRecords
    BY <1>1, <1>3 DEF PollRecords
  <2>5. [q EXCEPT !.pc = "logs", !.from = from, !.to = to] \in PollRecords
    BY <1>1, <1>3, <2>2 DEF PollRecords
  <2>6. poll' \in [1..2 -> PollRecords]
    BY <2>1, <2>5, PollWritten
  <2> QED BY <1>4, <2>1, <2>6 DEF PollLimits
<1> QED BY <1>5, <1>6

\* What is ingested was on the page, and what is passed over was on chain.
LEMMA IngestLimits ==
  ASSUME InboxInv, PollLimits, NEW p \in 1..2, EventsIngested(p)
  PROVE  PollLimits'
<1> DEFINE q == poll[p]
           new == Fresh(q.events)
           turned == NextCursor(q.cursor, q.events, q.to)
           behind == {e \in chain.events : e.block < q.from /\ ~Before(e, q.cursor)}
<1>1. q \in PollRecords /\ q.pc = "peers" /\ new \subseteq Events /\ behind \subseteq Events
  BY DEF PollLimits, PollRecords, EventsIngested, Fresh
<1>2. turned \in Cursors
  <2>1. poll[p].pc = "peers"
    BY <1>1
  <2>2. NextCursor(poll[p].cursor, poll[p].events, poll[p].to) \in Cursors
    BY <2>1, CursorInLog
  <2> QED BY <2>2
<1>3. UNCHANGED <<chain, wallet, polls>>
  BY DEF EventsIngested
<1>4. \/ /\ cursor' = [turned EXCEPT !.empty = new = {}] /\ marked' = marked \cup new
         /\ skipped' = skipped \cup behind /\ Poll(p, [q EXCEPT !.pc = "balance"])
      \/ /\ \E bad \in new : marked' = marked \cup {e \in new : ~Before(bad, e)}
         /\ UNCHANGED <<cursor, skipped>> /\ Poll(p, NoPoll)
  BY DEF EventsIngested
<1> HIDE DEF new, turned, behind
<1>5. [turned EXCEPT !.empty = new = {}] \in Cursors
  BY <1>2 DEF Cursors
<1>6. [q EXCEPT !.pc = "balance"] \in PollRecords
  BY <1>1 DEF PollRecords
<1>7. poll' \in [1..2 -> PollRecords]
  BY <1>4, <1>6, NoPollRecord, PollWritten
<1>8. cursor' \in Cursors /\ marked' \subseteq Events /\ skipped' \subseteq Events
  BY <1>1, <1>4, <1>5 DEF PollLimits
<1> QED BY <1>3, <1>7, <1>8 DEF PollLimits

\* The other steps of a poll.
LEMMA PollLimitsStep ==
  ASSUME InboxInv, PollLimits, [PollNext]_pollVars
  PROVE  PollLimits'
<1>1. CASE UNCHANGED pollVars
  BY <1>1 DEF PollLimits, pollVars
<1>2. CASE \E n \in 0..2, gifts \in {{}, {0}} : MineBlock(n, gifts)
  BY <1>2, MinedEvents
<1>3. ASSUME NEW p \in 1..2, NEW due \in BOOLEAN, BeginPoll(p, due)
      PROVE  PollLimits'
  <2> DEFINE pc == IF due THEN "head" ELSE "balance"
             next == [NoPoll EXCEPT !.pc = pc, !.cursor = cursor]
  <2>1. Poll(p, next) /\ polls < MaxPolls /\ polls' = polls + 1
        /\ UNCHANGED <<chain, cursor, marked, delivered, skipped, wallet>>
    BY <1>3 DEF BeginPoll, chainSide
  <2>2. pc \in {"head", "balance"} /\ cursor \in Cursors
    BY DEF PollLimits
  <2> HIDE DEF pc
  <2>3. next \in PollRecords
    BY <2>2, NoPollRecord DEF PollRecords
  <2> HIDE DEF next
  <2>4. poll' \in [1..2 -> PollRecords]
    BY <2>1, <2>3, PollWritten
  <2>5. polls' \in 0..MaxPolls
    BY <2>1, PollAssumption DEF PollLimits
  <2> QED BY <2>1, <2>4, <2>5 DEF PollLimits
<1>4. ASSUME NEW p \in 1..2, HeadReturns(p)
      PROVE  PollLimits'
  BY <1>4, HeadLimits
<1>5. ASSUME NEW p \in 1..2, LogsReturn(p)
      PROVE  PollLimits'
  <2> DEFINE q == poll[p]
             page == RouteMatchedLogs({e \in chain.events : e.block \in q.from .. q.to}, q.cursor)
  <2>1. Poll(p, [q EXCEPT !.pc = "peers", !.events = page])
        /\ UNCHANGED <<chain, cursor, marked, delivered, skipped, wallet, polls>>
    BY <1>5 DEF LogsReturn, chainSide
  <2>2. q \in PollRecords /\ page \subseteq Events
    BY DEF PollLimits, RouteMatchedLogs
  <2> HIDE DEF page
  <2>3. [q EXCEPT !.pc = "peers", !.events = page] \in PollRecords
    BY <2>2 DEF PollRecords
  <2>4. poll' \in [1..2 -> PollRecords]
    BY <2>1, <2>3, PollWritten
  <2> QED BY <2>1, <2>4 DEF PollLimits
<1>6. ASSUME NEW p \in 1..2, EventsIngested(p)
      PROVE  PollLimits'
  BY <1>6, IngestLimits
<1>7. ASSUME NEW p \in 1..2, PollFails(p) \/ WalletSynced(p)
      PROVE  PollLimits'
  <2>1. Poll(p, NoPoll) /\ UNCHANGED <<chain, cursor, marked, delivered, skipped, polls>>
        /\ wallet' \in {wallet, FALSE}
    BY <1>7 DEF PollFails, WalletSynced, chainSide
  <2>2. poll' \in [1..2 -> PollRecords]
    BY <2>1, NoPollRecord, PollWritten
  <2> QED BY <2>1, <2>2 DEF PollLimits
<1> QED BY <1>1, <1>2, <1>3, <1>4, <1>5, <1>6, <1>7 DEF PollNext

\* However two polls overlap, every cursor stored or carried points into the log of the chain or
\* just behind it, and nothing is marked, counted or passed over that was not emitted (HttpEvmPoller::poll,
\* try_mark_evm_event_ingested).
THEOREM PollTyped == PollSpec => []PollTypeOK
<1>1. PollInit => PollLimits
  BY PollAssumption, NoPollRecord DEF PollInit, PollLimits
<1>2. ASSUME InboxInv, PollLimits
      PROVE  PollTypeOK
  <2>1. DOMAIN delivered \subseteq Events
    BY <1>2 DEF InboxInv, PollLimits
  <2>2. \A p \in 1..2 : /\ poll[p].pc \in {"idle", "head", "logs", "peers", "balance"}
                        /\ poll[p].events \subseteq Events
    BY <1>2 DEF PollLimits, PollRecords
  <2> QED BY <1>2, <2>1, <2>2 DEF PollLimits, PollTypeOK, Cursors
<1>3. InboxInv /\ PollLimits /\ [PollNext]_pollVars => PollLimits'
  BY PollLimitsStep
<1> QED BY <1>1, <1>2, <1>3, InboxInvAlways, PTL DEF PollSpec

-----------------------------------------------------------------------------
(* Payments to peers and the endowment of a child. *)

\* Payment k is on record, promised by a note, or excused.
Remembered(k, row, d, notes, log) ==
  row.what = "pay" => k \in DOMAIN d \/ row.turn \in notes \/ k \in log.excused

\* The note of a child, and the copy the job works on.
NoteFits(note, n) ==
  /\ note.approve \in 0..n /\ note.deposit \in 0..n
  /\ note.deposit # 0 => note.approve # 0 /\ note.approve < note.deposit
  /\ {"status", "approve", "deposit"} \subseteq DOMAIN note

\* The turn that pays has its note, or lost it; what it sent before is accounted for without.
PayerFits(p, s, d, notes, log) ==
  /\ p.pc = "depositing" => p.approve \in 1..Len(s)
  /\ p.pc = "paying" =>
       /\ p.turn \in notes \/ log.orphan
       /\ \A k \in 1..Len(s) : s[k].what = "pay" /\ s[k].turn = p.turn
                                 => k \in DOMAIN d \/ k \in log.excused
  /\ {"pc", "turn", "approve"} \subseteq DOMAIN p

RecoveryFits(r, n) ==
  /\ NoteFits(r.note, n)
  /\ r.pc = "sending" /\ r.action = "BroadcastApproval" => r.note.approve = 0 /\ r.note.deposit = 0
  /\ r.pc = "sending" /\ r.action # "BroadcastApproval" => r.note.approve # 0

LogFits(log) ==
  {"turns", "lapses", "evictions", "excused", "orphan"} \subseteq DOMAIN log

PayInv ==
  /\ Table(sent) /\ LogFits(payLog)
  /\ \A k \in 1..Len(sent) : /\ {"what", "turn", "status"} \subseteq DOMAIN sent[k]
                             /\ Remembered(k, sent[k], deals, pendings, payLog)
  /\ NoteFits(child, Len(sent)) /\ RecoveryFits(recovery, Len(sent))
  /\ PayerFits(payer, sent, deals, pendings, payLog)

\* A transaction leaves the earlier ones as they are.
LEMMA SentGrows ==
  ASSUME PayInv, NEW what, NEW turn, SendTx(what, turn)
  PROVE  /\ Table(sent') /\ Len(sent) \in Nat /\ Len(sent') = Len(sent) + 1 /\ NewTx = Len(sent) + 1
         /\ \A k \in 1..Len(sent) : sent'[k] = sent[k]
         /\ sent'[Len(sent) + 1].what = what /\ sent'[Len(sent) + 1].turn = turn
         /\ {"what", "turn", "status"} \subseteq DOMAIN sent'[Len(sent) + 1]
         /\ sent' # sent
<1> DEFINE row == [what |-> what, turn |-> turn, status |-> "pending"]
<1>1. sent' = Append(sent, row) /\ row.what = what /\ row.turn = turn
      /\ {"what", "turn", "status"} \subseteq DOMAIN row
  BY DEF SendTx
<1> HIDE DEF row
<1>2. /\ Table(sent') /\ Len(sent) \in Nat /\ Len(sent') = Len(sent) + 1
      /\ sent'[Len(sent) + 1] = row /\ \A k \in 1..Len(sent) : sent'[k] = sent[k]
  BY <1>1, AppendTable DEF PayInv
<1>3. sent' # sent
  BY <1>2
<1> QED BY <1>1, <1>2, <1>3 DEF NewTx

\* What a step may do: transactions are only added, and a payment there was stays remembered.
LEMMA PayKept ==
  ASSUME PayInv, Table(sent'), LogFits(payLog'), NEW n \in Nat, Len(sent') = n, Len(sent) \in Nat,
         Len(sent) <= n,
         \A k \in 1..Len(sent) : /\ sent'[k].what = sent[k].what /\ sent'[k].turn = sent[k].turn
                                 /\ {"what", "turn", "status"} \subseteq DOMAIN sent'[k],
         \A k \in 1..Len(sent) : Remembered(k, sent[k], deals', pendings', payLog'),
         \A k \in 1..n : k > Len(sent) => /\ {"what", "turn", "status"} \subseteq DOMAIN sent'[k]
                                          /\ Remembered(k, sent'[k], deals', pendings', payLog'),
         NoteFits(child', n), RecoveryFits(recovery', n),
         PayerFits(payer', sent', deals', pendings', payLog')
  PROVE  PayInv'
<1>1. ASSUME NEW k \in 1..n
      PROVE  /\ {"what", "turn", "status"} \subseteq DOMAIN sent'[k]
             /\ Remembered(k, sent'[k], deals', pendings', payLog')
  <2>1. CASE k \in 1..Len(sent)
    BY <2>1 DEF Remembered
  <2>2. CASE k > Len(sent)
    BY <2>2
  <2> QED BY <2>1, <2>2
<1> QED BY <1>1 DEF PayInv

\* The notes stay right while transactions are added.
LEMMA NotesStay ==
  ASSUME NEW m \in Nat, NEW n \in Nat, m <= n
  PROVE  /\ \A note : NoteFits(note, m) => NoteFits(note, n)
         /\ \A r : RecoveryFits(r, m) => RecoveryFits(r, n)
  BY DEF NoteFits, RecoveryFits

\* A step that sends nothing and forgets no payment.
LEMMA NothingSent ==
  ASSUME PayInv, UNCHANGED sent, LogFits(payLog'),
         \A k \in 1..Len(sent) : Remembered(k, sent[k], deals', pendings', payLog'),
         NoteFits(child', Len(sent)), RecoveryFits(recovery', Len(sent)),
         PayerFits(payer', sent, deals', pendings', payLog')
  PROVE  PayInv'
  BY DEF PayInv

\* A transaction that is not a payment, or that a deal, a note or an excuse accounts for.
LEMMA OneSent ==
  ASSUME PayInv, NEW what, NEW turn, SendTx(what, turn), LogFits(payLog'),
         \A k \in 1..Len(sent) : Remembered(k, sent[k], deals', pendings', payLog'),
         what = "pay" => NewTx \in DOMAIN deals' \/ turn \in pendings' \/ NewTx \in payLog'.excused,
         NoteFits(child', Len(sent) + 1), RecoveryFits(recovery', Len(sent) + 1),
         PayerFits(payer', sent', deals', pendings', payLog')
  PROVE  PayInv'
<1> DEFINE n == Len(sent) + 1
<1>1. /\ Table(sent') /\ Len(sent) \in Nat /\ Len(sent') = n /\ NewTx = n
      /\ \A k \in 1..Len(sent) : sent'[k] = sent[k]
      /\ sent'[n].what = what /\ sent'[n].turn = turn
      /\ {"what", "turn", "status"} \subseteq DOMAIN sent'[n]
  BY SentGrows
<1>2. n \in Nat /\ Len(sent) <= n /\ \A k \in 1..n : k > Len(sent) => k = n
  BY <1>1
<1>3. Remembered(n, sent'[n], deals', pendings', payLog')
  BY <1>1 DEF Remembered
<1>4. \A k \in 1..Len(sent) : {"what", "turn", "status"} \subseteq DOMAIN sent[k]
  BY DEF PayInv
<1> HIDE DEF n
<1> QED BY <1>1, <1>2, <1>3, <1>4, PayKept DEF n

\* A payer that is not waiting for the peer's payment or deposit.
LEMMA NotPaying ==
  ASSUME NEW p, {"pc", "turn", "approve"} \subseteq DOMAIN p, p.pc \notin {"paying", "depositing"}
  PROVE  \A s, d, notes, log : PayerFits(p, s, d, notes, log)
  BY DEF PayerFits

\* The notes at rest.
LEMMA RestingNotes ==
  ASSUME NEW n \in Nat
  PROVE  /\ NoteFits(NoChild, n) /\ RecoveryFits(NoRecovery, n)
         /\ {"pc", "turn", "approve"} \subseteq DOMAIN NoPayer /\ NoPayer.pc = "idle"
         /\ {"status", "approve", "deposit"} \subseteq DOMAIN NoChild
         /\ NoChild.approve = 0 /\ NoChild.deposit = 0
  BY DEF NoteFits, RecoveryFits, NoChild, NoRecovery, NoPayer

\* What the turn in flight relies on survives a step of somebody else.
LEMMA PayerStays ==
  ASSUME NEW p, NEW s, NEW s2, NEW d, NEW d2, NEW notes, NEW notes2, NEW log, NEW log2,
         PayerFits(p, s, d, notes, log),
         Len(s) \in Nat, Len(s2) \in Nat, Len(s) <= Len(s2),
         \A k \in 1..Len(s) : s2[k].what = s[k].what /\ s2[k].turn = s[k].turn,
         \A k \in 1..Len(s2) : k > Len(s) => s2[k].what # "pay",
         p.turn \in notes \/ log.orphan => p.turn \in notes2 \/ log2.orphan,
         \A k \in DOMAIN d : k \in DOMAIN d2 \/ k \in log2.excused,
         \A k \in log.excused : k \in log2.excused
  PROVE  PayerFits(p, s2, d2, notes2, log2)
<1>1. \A k \in 1..Len(s2) : k \in 1..Len(s) \/ k > Len(s)
  OBVIOUS
<1>2. ASSUME p.pc = "paying", NEW k \in 1..Len(s2), s2[k].what = "pay", s2[k].turn = p.turn
      PROVE  k \in DOMAIN d2 \/ k \in log2.excused
  BY <1>1, <1>2 DEF PayerFits
<1> QED BY <1>2 DEF PayerFits

\* A lapse is counted and nothing else of the log that matters here changes.
LEMMA BesideKeeps ==
  ASSUME LogFits(payLog), NEW busy \in BOOLEAN, NEW log, LogFits(log),
         log.excused = payLog.excused, log.orphan = payLog.orphan, Beside(busy, log)
  PROVE  LogFits(payLog') /\ payLog'.excused = payLog.excused /\ payLog'.orphan = payLog.orphan
  BY DEF Beside, LogFits

\* The number of transactions, and what the invariant says of each.
LEMMA PayFacts ==
  ASSUME PayInv
  PROVE  /\ Len(sent) \in Nat /\ Len(sent) + 1 \in Nat /\ LogFits(payLog)
         /\ \A k \in 1..Len(sent) : Remembered(k, sent[k], deals, pendings, payLog)
         /\ NoteFits(child, Len(sent)) /\ NoteFits(child, Len(sent) + 1)
         /\ RecoveryFits(recovery, Len(sent)) /\ RecoveryFits(recovery, Len(sent) + 1)
         /\ PayerFits(payer, sent, deals, pendings, payLog)
<1>1. Len(sent) \in Nat
  BY TableDomain DEF PayInv
<1> QED BY <1>1, NotesStay DEF PayInv

\* Nothing sent, notes of the child and of the job apart: the payments are as they were.
LEMMA PaymentsStand ==
  ASSUME PayInv, UNCHANGED <<pendings, deals, sent>>, LogFits(payLog'),
         payLog'.excused = payLog.excused, payLog'.orphan = payLog.orphan
  PROVE  /\ \A k \in 1..Len(sent) : Remembered(k, sent[k], deals', pendings', payLog')
         /\ \A p : PayerFits(p, sent, deals, pendings, payLog)
                     => PayerFits(p, sent, deals', pendings', payLog')
  BY PayFacts DEF Remembered, PayerFits

\* Opening a payment only asks the peer: nothing is sent yet.
LEMMA PayPeerKeeps ==
  ASSUME PayInv, NEW turn, PayPeer(turn)
  PROVE  PayInv'
<1> DEFINE log == [payLog EXCEPT !.turns = turn]
<1>1. LogFits(log) /\ log.excused = payLog.excused /\ log.orphan = payLog.orphan
  BY PayFacts DEF LogFits
<1>2. (recovery # NoRecovery) \in BOOLEAN /\ Beside(recovery # NoRecovery, log)
  BY DEF PayPeer
<1> HIDE DEF log
<1>3. LogFits(payLog') /\ payLog'.excused = payLog.excused /\ payLog'.orphan = payLog.orphan
  BY <1>1, <1>2, BesideKeeps, PayFacts
<1>4. payer'.pc = "peer" /\ {"pc", "turn", "approve"} \subseteq DOMAIN payer'
  BY DEF PayPeer, NoPayer
<1>5. PayerFits(payer', sent, deals', pendings', payLog')
  BY <1>4, NotPaying
<1>6. UNCHANGED <<pendings, deals, child, recovery, sent>>
  BY DEF PayPeer
<1> QED BY <1>3, <1>5, <1>6, PaymentsStand, PayFacts, NothingSent

\* Starting a reproduction writes its deposit note before anything is sent.
LEMMA ReproduceKeeps ==
  ASSUME PayInv, Reproduce
  PROVE  PayInv'
<1>2. (recovery # NoRecovery) \in BOOLEAN /\ Beside(recovery # NoRecovery, payLog)
  BY DEF Reproduce
<1>3. LogFits(payLog') /\ payLog'.excused = payLog.excused /\ payLog'.orphan = payLog.orphan
  BY <1>2, BesideKeeps, PayFacts
<1>4. payer'.pc = "approving" /\ {"pc", "turn", "approve"} \subseteq DOMAIN payer'
  BY DEF Reproduce, NoPayer
<1>5. PayerFits(payer', sent, deals', pendings', payLog')
  BY <1>4, NotPaying
<1>6. UNCHANGED <<pendings, deals, recovery, sent>>
      /\ child' = [NoChild EXCEPT !.status = "approval_submitting"]
  BY DEF Reproduce
<1>7. NoteFits(child', Len(sent))
  BY <1>6, PayFacts DEF NoteFits, NoChild
<1> QED BY <1>3, <1>5, <1>6, <1>7, PaymentsStand, PayFacts, NothingSent

\* The factory moving the session of a child touches no payment.
LEMMA SessionMovesKeeps ==
  ASSUME PayInv, SessionMoves
  PROVE  PayInv'
  BY DEF SessionMoves, PayInv

\* The quote of the peer either ends the payment or leads to the note that precedes the transfer.
LEMMA PeerReturnsKeeps ==
  ASSUME PayInv, PeerReturns
  PROVE  PayInv'
<1>1. UNCHANGED <<deals, child, recovery, sent>> /\ payer.pc = "peer"
  BY DEF PeerReturns
<1>2. CASE payer' = NoPayer /\ UNCHANGED <<pendings, payLog>>
  <2>1. PayerFits(payer', sent, deals', pendings', payLog')
    BY <1>2, NotPaying, RestingNotes, PayFacts
  <2> QED BY <1>1, <1>2, <2>1, PaymentsStand, PayFacts, NothingSent
<1>3. CASE /\ payer' = [payer EXCEPT !.pc = "paying"] /\ pendings' = pendings \cup {payer.turn}
           /\ payLog' = [payLog EXCEPT !.excused = @ \cup
                {k \in 1..Len(sent) : payer.turn \in pendings /\ sent[k].turn = payer.turn}]
  <2>1. /\ LogFits(payLog') /\ payLog'.excused = payLog.excused \cup
                {k \in 1..Len(sent) : payer.turn \in pendings /\ sent[k].turn = payer.turn}
    BY <1>3, PayFacts DEF LogFits
  <2>2. /\ payer'.pc = "paying" /\ payer'.turn = payer.turn
        /\ {"pc", "turn", "approve"} \subseteq DOMAIN payer'
    BY <1>3, PayFacts DEF PayerFits
  <2>3. \A k \in 1..Len(sent) : Remembered(k, sent[k], deals', pendings', payLog')
    BY <1>1, <1>3, <2>1, PayFacts DEF Remembered
  <2>4. ASSUME NEW k \in 1..Len(sent), sent[k].what = "pay", sent[k].turn = payer.turn
        PROVE  k \in DOMAIN deals' \/ k \in payLog'.excused
    <3>1. k \in DOMAIN deals \/ sent[k].turn \in pendings \/ k \in payLog.excused
      BY <2>4, PayFacts DEF Remembered
    <3> QED BY <3>1, <2>4, <2>1, <1>1
  <2>5. PayerFits(payer', sent, deals', pendings', payLog')
    BY <2>2, <2>4, <1>3 DEF PayerFits
  <2> QED BY <1>1, <2>1, <2>3, <2>5, PayFacts, NothingSent
<1> QED BY <1>2, <1>3 DEF PeerReturns, NotesPending

\* A payment that returns is remembered by its deal, or by the note it left.
LEMMA PaymentReturnsKeeps ==
  ASSUME PayInv, PaymentReturns
  PROVE  PayInv'
<1> DEFINE turn == payer.turn
<1>1. UNCHANGED <<child, recovery>> /\ payer.pc = "paying" /\ payer' = NoPayer
  BY DEF PaymentReturns
<1>2. PayerFits(payer', sent', deals', pendings', payLog') /\ PayerFits(payer', sent, deals', pendings', payLog')
  BY <1>1, NotPaying, RestingNotes, PayFacts
<1>3. /\ turn \in pendings \/ payLog.orphan
      /\ \A k \in 1..Len(sent) : sent[k].what = "pay" /\ sent[k].turn = turn
                                 => k \in DOMAIN deals \/ k \in payLog.excused
  BY <1>1, PayFacts DEF PayerFits
<1>4. CASE /\ SendTx("pay", turn) /\ RecordDeal(NewTx, "submitted")
           /\ pendings' = pendings \ {turn}
           /\ payLog' = [payLog EXCEPT !.orphan = FALSE]
  <2>1. LogFits(payLog') /\ payLog'.excused = payLog.excused
    BY <1>4, PayFacts DEF LogFits
  <2>2. DOMAIN deals' = DOMAIN deals \cup {NewTx}
    BY <1>4 DEF RecordDeal
  <2>3. \A k \in 1..Len(sent) : Remembered(k, sent[k], deals', pendings', payLog')
    BY <1>3, <1>4, <2>1, <2>2, PayFacts DEF Remembered
  <2> QED BY <1>1, <1>2, <1>4, <2>1, <2>2, <2>3, PayFacts, OneSent
<1>5. CASE /\ MaybeSent("pay", turn) /\ UNCHANGED <<deals, pendings>>
           /\ payLog' = [payLog EXCEPT !.orphan = FALSE, !.excused =
                        IF payLog.orphan /\ sent' # sent THEN @ \cup {NewTx} ELSE @]
  <2>1. LogFits(payLog') /\ payLog'.excused =
                        IF payLog.orphan /\ sent' # sent THEN payLog.excused \cup {NewTx} ELSE payLog.excused
    BY <1>5, PayFacts DEF LogFits
  <2>2. \A k \in 1..Len(sent) : Remembered(k, sent[k], deals', pendings', payLog')
    BY <1>5, <2>1, PayFacts DEF Remembered
  <2>3. CASE SendTx("pay", turn)
    <3>1. sent' # sent
      BY <2>3, SentGrows
    <3>2. turn \in pendings' \/ NewTx \in payLog'.excused
      BY <3>1, <2>1, <1>3, <1>5
    <3> QED BY <1>1, <1>2, <2>3, <2>1, <2>2, <3>2, PayFacts, OneSent
  <2>4. CASE UNCHANGED sent
    BY <1>1, <1>2, <2>4, <2>1, <2>2, PayFacts, NothingSent
  <2> QED BY <1>5, <2>3, <2>4 DEF MaybeSent
<1> QED BY <1>4, <1>5 DEF PaymentReturns

\* Reconciling a receipt keeps the deal on record, as paid or failed.
LEMMA ReceiptReconciledKeeps ==
  ASSUME PayInv, NEW tx, ReceiptReconciled(tx)
  PROVE  PayInv'
<1>1. UNCHANGED <<pendings, child, payer, recovery, sent, payLog>> /\ tx \in DOMAIN deals
      /\ DOMAIN deals' = DOMAIN deals \cup {tx}
  BY DEF ReceiptReconciled, RecordDeal
<1>2. DOMAIN deals' = DOMAIN deals
  BY <1>1
<1>3. \A k \in 1..Len(sent) : Remembered(k, sent[k], deals', pendings', payLog')
  BY <1>1, <1>2, PayFacts DEF Remembered
<1>4. PayerFits(payer', sent, deals', pendings', payLog')
  BY <1>1, <1>2, PayFacts DEF PayerFits
<1> QED BY <1>1, <1>3, <1>4, PayFacts, NothingSent

\* A transaction of the endowment: it is no payment, and the turn in flight keeps what it had.
LEMMA EndowmentSent ==
  ASSUME PayInv, NEW what \in {"approve", "deposit"}, SendTx(what, 0),
         UNCHANGED <<pendings, deals, payLog>>,
         NoteFits(child', Len(sent) + 1), RecoveryFits(recovery', Len(sent) + 1),
         PayerFits(payer', sent', deals', pendings', payLog') \/ UNCHANGED payer
  PROVE  PayInv'
<1>1. /\ Len(sent) \in Nat /\ Len(sent') = Len(sent) + 1
      /\ \A k \in 1..Len(sent) : sent'[k] = sent[k]
      /\ sent'[Len(sent) + 1].what = what
  BY SentGrows
<1>2. \A k \in 1..Len(sent') : k > Len(sent) => sent'[k].what # "pay"
  BY <1>1
<1>3. Len(sent') \in Nat /\ Len(sent) <= Len(sent')
  BY <1>1
<1>4. ASSUME UNCHANGED payer
      PROVE  PayerFits(payer', sent', deals', pendings', payLog')
  BY <1>1, <1>2, <1>3, <1>4, PayFacts, PayerStays
<1>5. \A k \in 1..Len(sent) : Remembered(k, sent[k], deals', pendings', payLog')
  BY PayFacts
<1>6. what # "pay" /\ LogFits(payLog')
  BY PayFacts
<1> QED BY <1>4, <1>5, <1>6, OneSent

\* A step of the endowment that sends nothing.
LEMMA EndowmentNoted ==
  ASSUME PayInv, UNCHANGED <<sent, pendings, deals, payLog>>,
         NoteFits(child', Len(sent)), RecoveryFits(recovery', Len(sent)),
         PayerFits(payer', sent, deals', pendings', payLog') \/ UNCHANGED payer
  PROVE  PayInv'
  BY PayFacts, NothingSent

\* The approval of a reproduction sends no deposit.
LEMMA ApprovalReturnsKeeps ==
  ASSUME PayInv, ApprovalReturns
  PROVE  PayInv'
<1>1. UNCHANGED <<pendings, deals, recovery, payLog>> /\ "approve" \in {"approve", "deposit"}
  BY DEF ApprovalReturns
<1>2. CASE /\ SendTx("approve", 0)
           /\ child' = [NoChild EXCEPT !.status = "approval_broadcast", !.approve = NewTx]
           /\ payer' = [payer EXCEPT !.pc = "depositing", !.approve = NewTx]
  <2>1. NewTx = Len(sent) + 1 /\ Len(sent) \in Nat /\ Len(sent') = Len(sent) + 1
    BY <1>2, SentGrows
  <2>2. NoteFits(child', Len(sent) + 1)
    BY <1>2, <2>1 DEF NoteFits, NoChild
  <2>3. payer'.pc = "depositing" /\ payer'.approve = NewTx
        /\ {"pc", "turn", "approve"} \subseteq DOMAIN payer'
    BY <1>2, PayFacts DEF PayerFits
  <2>4. PayerFits(payer', sent', deals', pendings', payLog')
    BY <2>1, <2>3 DEF PayerFits
  <2> QED BY <1>1, <1>2, <2>2, <2>4, PayFacts, EndowmentSent
<1>3. CASE MaybeSent("approve", 0) /\ payer' = NoPayer /\ UNCHANGED child
  <2>1. /\ PayerFits(payer', sent', deals', pendings', payLog')
        /\ PayerFits(payer', sent, deals', pendings', payLog')
    BY <1>3, NotPaying, RestingNotes, PayFacts
  <2> QED BY <1>1, <1>3, <2>1, PayFacts, EndowmentSent, EndowmentNoted DEF MaybeSent
<1> QED BY <1>2, <1>3 DEF ApprovalReturns

\* A deposit is noted beside the approval that was sent before it.
LEMMA DepositReturnsKeeps ==
  ASSUME PayInv, DepositReturns
  PROVE  PayInv'
<1>1. UNCHANGED <<pendings, deals, recovery, payLog>> /\ "deposit" \in {"approve", "deposit"}
      /\ payer.pc = "depositing" /\ payer' = NoPayer
  BY DEF DepositReturns
<1>2. /\ PayerFits(payer', sent', deals', pendings', payLog')
      /\ PayerFits(payer', sent, deals', pendings', payLog')
  BY <1>1, NotPaying, RestingNotes, PayFacts
<1>3. CASE /\ SendTx("deposit", 0)
           /\ child' = [status |-> "awaiting_factory_completion", approve |-> payer.approve,
                        deposit |-> NewTx]
  <2>1. NewTx = Len(sent) + 1 /\ Len(sent) \in Nat /\ payer.approve \in 1..Len(sent)
    BY <1>1, <1>3, SentGrows, PayFacts DEF PayerFits
  <2>2. NoteFits(child', Len(sent) + 1)
    BY <1>3, <2>1 DEF NoteFits
  <2> QED BY <1>1, <1>2, <1>3, <2>2, PayFacts, EndowmentSent
<1>4. CASE MaybeSent("deposit", 0) /\ UNCHANGED child
  BY <1>1, <1>2, <1>4, PayFacts, EndowmentSent, EndowmentNoted DEF MaybeSent
<1> QED BY <1>3, <1>4 DEF DepositReturns

\* A recovery works on a copy of the note of the child.
LEMMA RecoveryBeginsKeeps ==
  ASSUME PayInv, RecoveryBegins
  PROVE  PayInv'
<1>1. UNCHANGED <<pendings, deals, payer, sent>>
  BY DEF RecoveryBegins
<1>2. CASE child' = NoChild /\ UNCHANGED <<recovery, payLog>>
  BY <1>1, <1>2, PayFacts, RestingNotes, EndowmentNoted
<1>3. CASE /\ UNCHANGED <<recovery, payLog>>
           /\ child' = [NoChild EXCEPT !.status = IF session = "Failed" THEN "failed" ELSE "expired"]
  <2>1. NoteFits(child', Len(sent))
    BY <1>3, PayFacts DEF NoteFits, NoChild
  <2> QED BY <1>1, <1>3, <2>1, PayFacts, EndowmentNoted
<1>4. CASE /\ UNCHANGED child /\ Beside(payer # NoPayer, payLog)
           /\ recovery' = [NoRecovery EXCEPT !.pc = "receipts", !.note = child]
  <2>1. (payer # NoPayer) \in BOOLEAN
    OBVIOUS
  <2>2. LogFits(payLog') /\ payLog'.excused = payLog.excused /\ payLog'.orphan = payLog.orphan
    BY <1>4, <2>1, BesideKeeps, PayFacts
  <2>3. recovery'.pc = "receipts" /\ recovery'.note = child
    BY <1>4 DEF NoRecovery
  <2>4. RecoveryFits(recovery', Len(sent))
    BY <2>3, PayFacts DEF RecoveryFits
  <2> QED BY <1>1, <1>4, <2>2, <2>4, PaymentsStand, PayFacts, NothingSent
<1> QED BY <1>2, <1>3, <1>4 DEF RecoveryBegins

\* The receipts a recovery fetched decide whether the deposit is sent again.
LEMMA ReceiptsFetchedKeeps ==
  ASSUME PayInv, ReceiptsFetched
  PROVE  PayInv'
<1> DEFINE old == recovery.note
<1>1. UNCHANGED <<pendings, deals, payer, sent, payLog>>
  BY DEF ReceiptsFetched
<1>2. PICK a \in Receipt(old.approve), d \in Receipt(old.deposit) :
        IF RecoveryAction(old, a, d) = "Wait" THEN recovery' = NoRecovery /\ UNCHANGED child
        ELSE /\ recovery' = [pc |-> "sending", note |-> RetryValue(old, RecoveryAction(old, a, d)),
                             action |-> RecoveryAction(old, a, d)]
             /\ child' = IF RecoveryAction(old, a, d) = "BroadcastApproval"
                           THEN [RetryValue(old, RecoveryAction(old, a, d))
                                   EXCEPT !.status = "approval_rebroadcasting"] ELSE child
  BY DEF ReceiptsFetched
<1> DEFINE action == RecoveryAction(old, a, d)
           note   == RetryValue(old, action)
<1>3. NoteFits(old, Len(sent))
  BY PayFacts DEF RecoveryFits
<1>4. action \in {"BroadcastApproval", "BroadcastDeposit", "Wait"}
      /\ (action = "BroadcastDeposit" => old.approve # 0)
  BY DEF RecoveryAction, Receipt
<1>5. IF action = "Wait" THEN recovery' = NoRecovery /\ UNCHANGED child
      ELSE /\ recovery' = [pc |-> "sending", note |-> note, action |-> action]
           /\ child' = IF action = "BroadcastApproval"
                         THEN [note EXCEPT !.status = "approval_rebroadcasting"] ELSE child
  BY <1>2
<1>6. action = "BroadcastApproval" => note = [old EXCEPT !.approve = 0, !.deposit = 0]
  BY DEF RetryValue
<1>7. action = "BroadcastDeposit" => note = old
  BY DEF RetryValue
<1> HIDE DEF old, action, note
<1>8. CASE action = "Wait"
  BY <1>1, <1>5, <1>8, PayFacts, RestingNotes, EndowmentNoted
<1>9. CASE action = "BroadcastDeposit"
  <2>1. recovery'.pc = "sending" /\ recovery'.note = old /\ recovery'.action = action /\ child' = child
    BY <1>5, <1>7, <1>9
  <2>2. RecoveryFits(recovery', Len(sent))
    BY <2>1, <1>3, <1>4, <1>9 DEF RecoveryFits
  <2> QED BY <1>1, <2>1, <2>2, PayFacts, EndowmentNoted
<1>10. CASE action = "BroadcastApproval"
  <2>1. recovery'.pc = "sending" /\ recovery'.note = note /\ recovery'.action = action
    BY <1>5, <1>10
  <2>2. /\ note.approve = 0 /\ note.deposit = 0
        /\ {"status", "approve", "deposit"} \subseteq DOMAIN note
    BY <1>3, <1>6, <1>10 DEF NoteFits
  <2>3. /\ child'.approve = 0 /\ child'.deposit = 0
        /\ {"status", "approve", "deposit"} \subseteq DOMAIN child'
    BY <1>5, <1>10, <2>2
  <2>4. NoteFits(note, Len(sent)) /\ NoteFits(child', Len(sent))
    BY <2>2, <2>3, PayFacts DEF NoteFits
  <2>5. RecoveryFits(recovery', Len(sent))
    BY <2>1, <2>2, <2>4, <1>10 DEF RecoveryFits
  <2> QED BY <1>1, <2>4, <2>5, EndowmentNoted
<1> QED BY <1>4, <1>8, <1>9, <1>10

\* A rebroadcast writes its copy of the note back with the new hash, or as it was.
LEMMA RebroadcastReturnsKeeps ==
  ASSUME PayInv, RebroadcastReturns
  PROVE  PayInv'
<1> DEFINE what == IF recovery.action = "BroadcastApproval" THEN "approve" ELSE "deposit"
           note == recovery.note
           sentNote == IF what = "approve"
                         THEN [note EXCEPT !.approve = NewTx, !.status = "approval_broadcast"]
                         ELSE [note EXCEPT !.deposit = NewTx, !.status = "deposit_broadcast"]
           errorNote == [note EXCEPT !.status = "payment_recovery_retryable"]
<1>1. /\ UNCHANGED <<pendings, deals, payer, payLog>> /\ what \in {"approve", "deposit"}
      /\ recovery' = NoRecovery
  BY DEF RebroadcastReturns
<1>2. /\ NoteFits(note, Len(sent)) /\ Len(sent) \in Nat
      /\ what = "approve" => note.approve = 0 /\ note.deposit = 0
      /\ what = "deposit" => note.approve # 0
  BY PayFacts DEF RecoveryFits, RebroadcastReturns
<1>3. \/ SendTx(what, 0) /\ child' = sentNote
      \/ MaybeSent(what, 0) /\ child' \in {child, errorNote}
  BY DEF RebroadcastReturns
<1>4. RecoveryFits(recovery', Len(sent)) /\ RecoveryFits(recovery', Len(sent) + 1)
  BY <1>1, PayFacts, RestingNotes
<1>5. NewTx = Len(sent) + 1
  BY DEF NewTx
<1> HIDE DEF note
<1>6. NoteFits(sentNote, Len(sent) + 1)
  BY <1>2, <1>5 DEF NoteFits
<1>7. NoteFits(errorNote, Len(sent))
  BY <1>2 DEF NoteFits
<1> HIDE DEF sentNote, errorNote, what
<1>8. NoteFits(errorNote, Len(sent) + 1)
  <2>1. Len(sent) + 1 \in Nat /\ Len(sent) <= Len(sent) + 1
    BY <1>2
  <2> QED BY <1>7, <1>2, <2>1, NotesStay
<1>9. CASE SendTx(what, 0)
  <2>1. NoteFits(child', Len(sent) + 1)
    BY <1>3, <1>6, <1>8, PayFacts
  <2> QED BY <1>1, <1>4, <1>9, <2>1, EndowmentSent
<1>10. CASE UNCHANGED sent
  <2>1. child' = sentNote => SendTx(what, 0) \/ child' \in {child, errorNote}
    BY <1>3
  <2>2. CASE child' \in {child, errorNote}
    BY <1>1, <1>4, <1>7, <1>10, <2>2, PayFacts, EndowmentNoted
  <2> QED BY <1>3, <1>9, <2>2
<1> QED BY <1>3, <1>9, <1>10 DEF MaybeSent

\* A transaction that settles on chain stays among those sent.
LEMMA TxSettlesKeeps ==
  ASSUME PayInv, NEW k, TxSettles(k)
  PROVE  PayInv'
<1> DEFINE n == Len(sent)
<1>1. UNCHANGED <<pendings, deals, child, payer, recovery, payLog>> /\ k \in 1..n
  BY DEF TxSettles
<1>2. PICK status : sent' = [sent EXCEPT ![k].status = status]
  BY DEF TxSettles
<1>3. n \in Nat /\ Table(sent)
  BY PayFacts DEF PayInv
<1>4. \A j \in 1..n : {"what", "turn", "status"} \subseteq DOMAIN sent[j]
  BY DEF PayInv
<1>5. DOMAIN sent = 1..n
  BY TableDomain, <1>3
<1> DEFINE row == [sent[k] EXCEPT !.status = status]
<1>6. sent' = [sent EXCEPT ![k] = row]
  BY <1>2
<1>7. row.what = sent[k].what /\ row.turn = sent[k].turn /\ {"what", "turn", "status"} \subseteq DOMAIN row
  BY <1>1, <1>4
<1> HIDE DEF row
<1>8. /\ Table(sent') /\ Len(sent') = n
      /\ \A j \in 1..n : sent'[j] = IF j = k THEN row ELSE sent[j]
  BY <1>1, <1>3, <1>5, <1>6, UpdateTable DEF Updated
<1>9. \A j \in 1..n : /\ sent'[j].what = sent[j].what /\ sent'[j].turn = sent[j].turn
                      /\ {"what", "turn", "status"} \subseteq DOMAIN sent'[j]
  BY <1>4, <1>7, <1>8
<1> HIDE DEF n
<1>10. PayerFits(payer', sent', deals', pendings', payLog')
  BY <1>1, <1>3, <1>8, <1>9, PayFacts, PayerStays DEF n
<1>11. NoteFits(child', n) /\ RecoveryFits(recovery', n) /\ LogFits(payLog')
       /\ \A j \in 1..n : Remembered(j, sent[j], deals', pendings', payLog')
  BY <1>1, PayFacts DEF n
<1>12. n <= n /\ \A j \in 1..n : ~(j > n)
  BY <1>3
<1> QED BY <1>3, <1>8, <1>9, <1>10, <1>11, <1>12, PayKept DEF n

\* An evicted note excuses its payments, and marks the one under way that relied on it.
LEMMA EvictNoteKeeps ==
  ASSUME PayInv, EvictNote
  PROVE  PayInv'
<1>1. UNCHANGED <<payer, recovery, sent>>
  BY DEF EvictNote
<1>2. CASE /\ \E turn \in pendings :
                /\ pendings' = pendings \ {turn}
                /\ payLog' = [payLog EXCEPT !.evictions = @ + 1,
                                !.orphan = @ \/ (payer.pc = "paying" /\ payer.turn = turn),
                                !.excused = @ \cup {k \in 1..Len(sent) : sent[k].turn = turn}]
           /\ UNCHANGED <<deals, child>>
  <2>1. PICK turn \in pendings :
             /\ pendings' = pendings \ {turn}
             /\ payLog' = [payLog EXCEPT !.evictions = @ + 1,
                                !.orphan = @ \/ (payer.pc = "paying" /\ payer.turn = turn),
                                !.excused = @ \cup {k \in 1..Len(sent) : sent[k].turn = turn}]
    BY <1>2
  <2>2. LogFits(payLog')
    BY <2>1, PayFacts DEF LogFits
  <2>3. payLog'.excused = payLog.excused \cup {k \in 1..Len(sent) : sent[k].turn = turn}
    BY <2>1, PayFacts DEF LogFits
  <2>4. payLog'.orphan = (payLog.orphan \/ (payer.pc = "paying" /\ payer.turn = turn))
    BY <2>1, PayFacts DEF LogFits
  <2>5. \A k \in 1..Len(sent) : Remembered(k, sent[k], deals', pendings', payLog')
    BY <1>2, <2>1, <2>3, PayFacts DEF Remembered
  <2>6. PayerFits(payer', sent, deals', pendings', payLog')
    <3>1. payer.pc = "paying" => payer.turn \in pendings' \/ payLog'.orphan
      BY <2>1, <2>4, PayFacts DEF PayerFits
    <3> QED BY <3>1, <1>1, <1>2, <2>3, PayFacts DEF PayerFits
  <2> QED BY <1>1, <1>2, <2>2, <2>5, <2>6, PayFacts, NothingSent
<1>3. CASE /\ \E tx \in DOMAIN deals :
                /\ deals' = [k \in DOMAIN deals \ {tx} |-> deals[k]]
                /\ payLog' = [payLog EXCEPT !.evictions = @ + 1, !.excused = @ \cup {tx}]
           /\ UNCHANGED <<pendings, child>>
  <2>1. PICK tx \in DOMAIN deals :
                /\ deals' = [k \in DOMAIN deals \ {tx} |-> deals[k]]
                /\ payLog' = [payLog EXCEPT !.evictions = @ + 1, !.excused = @ \cup {tx}]
    BY <1>3
  <2>2. LogFits(payLog') /\ payLog'.excused = payLog.excused \cup {tx} /\ payLog'.orphan = payLog.orphan
    BY <2>1, PayFacts DEF LogFits
  <2>3. DOMAIN deals' = DOMAIN deals \ {tx}
    BY <2>1
  <2>4. \A k \in 1..Len(sent) : Remembered(k, sent[k], deals', pendings', payLog')
    BY <1>3, <2>2, <2>3, PayFacts DEF Remembered
  <2>5. PayerFits(payer', sent, deals', pendings', payLog')
    BY <1>1, <1>3, <2>2, <2>3, PayFacts DEF PayerFits
  <2> QED BY <1>1, <1>3, <2>2, <2>4, <2>5, PayFacts, NothingSent
<1>4. CASE /\ child' \in {child, NoChild} /\ UNCHANGED <<pendings, deals>>
           /\ payLog' = [payLog EXCEPT !.evictions = @ + 1]
  <2>1. LogFits(payLog') /\ payLog'.excused = payLog.excused /\ payLog'.orphan = payLog.orphan
    BY <1>4, PayFacts DEF LogFits
  <2>2. NoteFits(child', Len(sent))
    BY <1>4, PayFacts, RestingNotes
  <2> QED BY <1>1, <1>4, <2>1, <2>2, PaymentsStand, PayFacts, NothingSent
<1> QED BY <1>2, <1>3, <1>4 DEF EvictNote

\* The inductive invariant implies the property.
LEMMA PayInvImplies == PayInv => PaymentsRemembered
  BY DEF PayInv, PaymentsRemembered, Remembered, NoteFits

\* Nothing is sent in the initial state.
LEMMA PayInit == CounterpartyInit => PayInv
<1> SUFFICES ASSUME CounterpartyInit PROVE PayInv
  OBVIOUS
<1>1. sent = <<>> /\ Len(sent) = 0 /\ Table(sent)
  BY DEF CounterpartyInit, Table
<1>2. LogFits(payLog)
  BY DEF CounterpartyInit, LogFits
<1>3. NoteFits(child, 0) /\ RecoveryFits(recovery, 0)
  BY RestingNotes DEF CounterpartyInit
<1>4. PayerFits(payer, sent, deals, pendings, payLog)
  BY RestingNotes, NotPaying DEF CounterpartyInit
<1> QED BY <1>1, <1>2, <1>3, <1>4 DEF PayInv

\* The invariant of the payments always holds.
LEMMA PayInvAlways == CounterpartySpec => []PayInv
<1>1. ASSUME PayInv, CounterpartyNext
      PROVE  PayInv'
  BY <1>1, PayPeerKeeps, PeerReturnsKeeps, PaymentReturnsKeeps, ReproduceKeeps, ApprovalReturnsKeeps,
     DepositReturnsKeeps, RecoveryBeginsKeeps, ReceiptsFetchedKeeps, RebroadcastReturnsKeeps,
     SessionMovesKeeps, EvictNoteKeeps, TxSettlesKeeps, ReceiptReconciledKeeps
     DEF CounterpartyNext
<1>2. ASSUME PayInv, UNCHANGED counterpartyVars
      PROVE  PayInv'
  BY <1>2 DEF PayInv, counterpartyVars
<1> QED BY PayInit, <1>1, <1>2, PTL DEF CounterpartySpec

\* No payment to a peer is forgotten, and the note of a child never pairs a stale deposit with
\* a new approval: in every behaviour of the turns and of the job that follows them up.
THEOREM PaymentsRememberedAlways == CounterpartySpec => []PaymentsRemembered
  BY PayInvAlways, PayInvImplies, PTL

\* A deal or a watched receipt is of a transaction that was sent, and the turn that pays is one
\* of the turns.
DealStatuses == {"submitted", "paid", "failed"}

PayLimits ==
  /\ pendings \subseteq PayTurns /\ receipts \subseteq 1..Len(sent)
  /\ DOMAIN deals \subseteq 1..Len(sent) /\ \A tx \in DOMAIN deals : deals[tx] \in DealStatuses
  /\ session \in SessionStates
  /\ payer.pc \in {"idle", "peer", "paying", "approving", "depositing"}
  /\ payer.pc \in {"peer", "paying"} => payer.turn \in PayTurns
  /\ recovery.pc \in {"idle", "receipts", "sending"}
  /\ Len(sent) \in 0..MaxTxs

\* What a step may do to the notes while transactions are added.
LEMMA PayLimitsKept ==
  ASSUME PayLimits, PayInv, Len(sent') \in 0..MaxTxs, Len(sent) <= Len(sent'),
         pendings' \subseteq PayTurns,
         receipts' \subseteq receipts, DOMAIN deals' \subseteq DOMAIN deals,
         \A tx \in DOMAIN deals' : deals'[tx] \in DealStatuses,
         session' \in SessionStates,
         payer' = NoPayer \/ (payer'.pc \in {"idle", "peer", "paying", "approving", "depositing"}
           /\ (payer'.pc \in {"peer", "paying"} => payer'.turn \in PayTurns)),
         recovery'.pc \in {"idle", "receipts", "sending"}
  PROVE  PayLimits'
<1>1. Len(sent) \in Nat /\ 1..Len(sent) \subseteq 1..Len(sent')
  BY DEF PayLimits
<1>2. NoPayer.pc = "idle"
  BY DEF NoPayer
<1> QED BY <1>1, <1>2 DEF PayLimits

\* Sending, or not, keeps within the bound.
LEMMA SentLimit ==
  ASSUME PayInv, PayLimits, NEW what, NEW turn, MaybeSent(what, turn)
  PROVE  Len(sent') \in 0..MaxTxs /\ Len(sent) <= Len(sent')
<1>1. Len(sent) \in Nat
  BY DEF PayLimits
<1>2. CASE SendTx(what, turn)
  <2>1. Len(sent') = Len(sent) + 1 /\ Len(sent) < MaxTxs
    BY <1>2, SentGrows DEF SendTx
  <2> QED BY <1>1, <2>1, CounterpartyAssumption
<1>3. CASE UNCHANGED sent
  BY <1>1, <1>3 DEF PayLimits
<1> QED BY <1>2, <1>3 DEF MaybeSent

\* The payment of a turn: a deal and a receipt to watch for the transaction that was sent.
LEMMA PaymentLimits ==
  ASSUME PayInv, PayLimits, PaymentReturns
  PROVE  PayLimits'
<1>1. UNCHANGED <<session, recovery>> /\ payer' = NoPayer /\ NoPayer.pc = "idle"
  BY DEF PaymentReturns, NoPayer
<1>2. CASE /\ SendTx("pay", payer.turn) /\ RecordDeal(NewTx, "submitted")
           /\ receipts' = receipts \cup {NewTx} /\ pendings' = pendings \ {payer.turn}
  <2>1. /\ Len(sent) \in Nat /\ Len(sent') = Len(sent) + 1 /\ NewTx = Len(sent) + 1
    BY <1>2, SentGrows
  <2>2. Len(sent') \in 0..MaxTxs
    BY <1>2, SentLimit DEF MaybeSent
  <2>3. NewTx \in 1..Len(sent') /\ 1..Len(sent) \subseteq 1..Len(sent')
    BY <2>1
  <2> HIDE DEF NewTx
  <2>4. DOMAIN deals' = DOMAIN deals \cup {NewTx}
        /\ \A tx \in DOMAIN deals' : deals'[tx] = (IF tx = NewTx THEN "submitted" ELSE deals[tx])
    BY <1>2 DEF RecordDeal
  <2>5. \A tx \in DOMAIN deals' : deals'[tx] \in DealStatuses
    BY <2>4 DEF PayLimits, DealStatuses
  <2> QED BY <1>1, <1>2, <2>2, <2>3, <2>4, <2>5 DEF PayLimits
<1>3. CASE MaybeSent("pay", payer.turn) /\ UNCHANGED <<deals, receipts, pendings>>
  <2>1. Len(sent') \in 0..MaxTxs /\ Len(sent) <= Len(sent')
    BY <1>3, SentLimit
  <2>2. pendings' \subseteq PayTurns /\ (\A tx \in DOMAIN deals' : deals'[tx] \in DealStatuses)
        /\ session' \in SessionStates /\ recovery'.pc \in {"idle", "receipts", "sending"}
    BY <1>1, <1>3 DEF PayLimits
  <2> QED BY <1>1, <1>3, <2>1, <2>2, PayLimitsKept
<1> QED BY <1>2, <1>3 DEF PaymentReturns

\* The tool's other steps.
LEMMA PayingLimits ==
  ASSUME PayInv, PayLimits,
         (\E turn \in PayTurns : PayPeer(turn)) \/ PeerReturns \/ Reproduce \/ ApprovalReturns \/ DepositReturns
  PROVE  PayLimits'
<1>1. /\ UNCHANGED <<deals, receipts, recovery>> /\ Len(sent) \in 0..MaxTxs
      /\ {"pc", "turn", "approve"} \subseteq DOMAIN payer
  BY DEF PayPeer, PeerReturns, Reproduce, ApprovalReturns, DepositReturns, PayLimits, PayInv, PayerFits
<1>2. NoPayer.pc = "idle" /\ {"pc", "turn", "approve"} \subseteq DOMAIN NoPayer
  BY DEF NoPayer
<1>3. ASSUME NEW turn \in PayTurns, PayPeer(turn)
      PROVE  PayLimits'
  <2>1. payer' = [NoPayer EXCEPT !.pc = "peer", !.turn = turn] /\ UNCHANGED <<pendings, session, sent>>
    BY <1>3 DEF PayPeer
  <2>2. payer'.pc = "peer" /\ payer'.turn = turn
    BY <2>1 DEF NoPayer
  <2> QED BY <1>1, <1>3, <2>1, <2>2 DEF PayLimits
<1>4. CASE PeerReturns
  <2>1. UNCHANGED <<session, sent>> /\ payer.pc = "peer" /\ payer.turn \in PayTurns
    BY <1>4 DEF PeerReturns, PayLimits
  <2>2. \/ payer' = NoPayer /\ pendings' = pendings
        \/ payer' = [payer EXCEPT !.pc = "paying"] /\ pendings' = pendings \cup {payer.turn}
    BY <1>4 DEF PeerReturns, NotesPending
  <2>3. pendings' \subseteq PayTurns /\ payer'.pc \in {"idle", "paying"}
        /\ (payer'.pc = "paying" => payer'.turn \in PayTurns)
    BY <1>1, <1>2, <2>1, <2>2 DEF PayLimits
  <2> QED BY <1>1, <2>1, <2>3 DEF PayLimits
<1>5. CASE Reproduce
  <2>1. UNCHANGED <<pendings, sent>> /\ session' = "AwaitingPayment"
        /\ payer' = [NoPayer EXCEPT !.pc = "approving"]
    BY <1>5 DEF Reproduce
  <2>2. payer'.pc = "approving" /\ session' \in SessionStates
    BY <2>1 DEF NoPayer, SessionStates
  <2> QED BY <1>1, <2>1, <2>2 DEF PayLimits
<1>6. CASE ApprovalReturns
  <2>1. UNCHANGED <<pendings, session>> /\ payer.pc = "approving" /\ MaybeSent("approve", 0)
        /\ (payer' = NoPayer \/ payer' = [payer EXCEPT !.pc = "depositing", !.approve = NewTx])
    BY <1>6 DEF ApprovalReturns, MaybeSent
  <2>2. Len(sent') \in 0..MaxTxs /\ Len(sent) <= Len(sent')
    BY <2>1, SentLimit
  <2>3. payer'.pc \in {"idle", "depositing"}
    BY <1>1, <1>2, <2>1
  <2>4. pendings' \subseteq PayTurns /\ (\A tx \in DOMAIN deals' : deals'[tx] \in DealStatuses)
        /\ session' \in SessionStates /\ recovery'.pc \in {"idle", "receipts", "sending"}
    BY <1>1, <2>1 DEF PayLimits
  <2> QED BY <1>1, <2>2, <2>3, <2>4, PayLimitsKept
<1>7. CASE DepositReturns
  <2>1. UNCHANGED <<pendings, session>> /\ MaybeSent("deposit", 0) /\ payer' = NoPayer
    BY <1>7 DEF DepositReturns, MaybeSent
  <2>2. Len(sent') \in 0..MaxTxs /\ Len(sent) <= Len(sent')
    BY <2>1, SentLimit
  <2>3. pendings' \subseteq PayTurns /\ (\A tx \in DOMAIN deals' : deals'[tx] \in DealStatuses)
        /\ session' \in SessionStates /\ recovery'.pc \in {"idle", "receipts", "sending"}
    BY <1>1, <2>1 DEF PayLimits
  <2> QED BY <1>1, <2>1, <2>2, <2>3, PayLimitsKept
<1> QED BY <1>3, <1>4, <1>5, <1>6, <1>7

\* The job's steps.
LEMMA FollowUpLimits ==
  ASSUME PayInv, PayLimits, RecoveryBegins \/ ReceiptsFetched \/ RebroadcastReturns
  PROVE  PayLimits'
<1>1. UNCHANGED <<pendings, deals, receipts, session, payer>> /\ Len(sent) \in 0..MaxTxs
  BY DEF RecoveryBegins, ReceiptsFetched, RebroadcastReturns, PayLimits
<1>2. Len(sent') \in 0..MaxTxs /\ Len(sent) <= Len(sent')
  <2>1. CASE UNCHANGED sent
    BY <1>1, <2>1
  <2>2. CASE RebroadcastReturns
    <3>1. \E what : MaybeSent(what, 0)
      BY <2>2 DEF RebroadcastReturns, MaybeSent
    <3> QED BY <3>1, SentLimit
  <2> QED BY <2>1, <2>2 DEF RecoveryBegins, ReceiptsFetched
<1>3. recovery'.pc \in {"idle", "receipts", "sending"}
  <2>1. CASE RecoveryBegins
    <3>1. recovery' = recovery \/ recovery' = [NoRecovery EXCEPT !.pc = "receipts", !.note = child]
      BY <2>1 DEF RecoveryBegins
    <3> QED BY <3>1 DEF NoRecovery, PayLimits
  <2>2. CASE ReceiptsFetched
    <3>1. recovery' = NoRecovery \/ recovery'.pc = "sending"
      BY <2>2 DEF ReceiptsFetched
    <3> QED BY <3>1 DEF NoRecovery
  <2>3. CASE RebroadcastReturns
    BY <2>3 DEF RebroadcastReturns, NoRecovery
  <2> QED BY <2>1, <2>2, <2>3
<1>4. pendings' \subseteq PayTurns /\ (\A tx \in DOMAIN deals' : deals'[tx] \in DealStatuses)
      /\ session' \in SessionStates
      /\ payer'.pc \in {"idle", "peer", "paying", "approving", "depositing"}
      /\ (payer'.pc \in {"peer", "paying"} => payer'.turn \in PayTurns)
  BY <1>1 DEF PayLimits
<1> QED BY <1>1, <1>2, <1>3, <1>4, PayLimitsKept

\* A receipt settles a deal that is there.
LEMMA ReceiptLimits ==
  ASSUME PayInv, PayLimits, NEW k, ReceiptReconciled(k)
  PROVE  PayLimits'
<1>1. /\ UNCHANGED <<pendings, session, payer, recovery, sent>> /\ k \in DOMAIN deals
      /\ receipts' = receipts \ {k}
      /\ RecordDeal(k, IF sent[k].status = "mined" THEN "paid" ELSE "failed")
  BY DEF ReceiptReconciled
<1> DEFINE status == IF sent[k].status = "mined" THEN "paid" ELSE "failed"
<1>2. status \in DealStatuses /\ RecordDeal(k, status)
  BY <1>1 DEF DealStatuses
<1> HIDE DEF status
<1>3. DOMAIN deals' = DOMAIN deals
      /\ \A tx \in DOMAIN deals' : deals'[tx] = (IF tx = k THEN status ELSE deals[tx])
  BY <1>1, <1>2 DEF RecordDeal
<1>4. \A tx \in DOMAIN deals' : deals'[tx] \in DealStatuses
  BY <1>2, <1>3 DEF PayLimits
<1> QED BY <1>1, <1>3, <1>4 DEF PayLimits

\* The world's steps.
LEMMA PayWorldLimits ==
  ASSUME PayInv, PayLimits, (\E k \in 1..MaxTxs : TxSettles(k)) \/ SessionMoves \/ EvictNote
  PROVE  PayLimits'
<1>1. CASE \E k \in 1..MaxTxs : TxSettles(k)
  <2>1. PICK k \in 1..MaxTxs : TxSettles(k)
    BY <1>1
  <2>2. UNCHANGED <<pendings, deals, receipts, session, payer, recovery>>
        /\ k \in 1..Len(sent) /\ \E status : sent' = [sent EXCEPT ![k].status = status]
    BY <2>1 DEF TxSettles
  <2>3. Len(sent') = Len(sent)
    <3>1. PICK status : sent' = [sent EXCEPT ![k].status = status]
      BY <2>2
    <3> DEFINE row == [sent[k] EXCEPT !.status = status]
    <3>2. sent' = [sent EXCEPT ![k] = row] /\ Table(sent)
      BY <3>1 DEF PayInv
    <3> HIDE DEF row
    <3> QED BY <2>2, <3>2, UpdateTable DEF Updated
  <2> QED BY <2>2, <2>3 DEF PayLimits
<1>2. CASE SessionMoves
  <2>1. UNCHANGED <<pendings, deals, receipts, payer, recovery, sent>>
        /\ session' \in {"PaymentDetected", "Expired", "Complete", "Failed"}
    BY <1>2 DEF SessionMoves
  <2> QED BY <2>1 DEF PayLimits, SessionStates
<1>3. CASE EvictNote
  <2>1. /\ UNCHANGED <<session, payer, recovery, sent>>
        /\ pendings' \subseteq pendings /\ receipts' \subseteq receipts
        /\ deals' = deals \/ \E tx \in DOMAIN deals : deals' = [k \in DOMAIN deals \ {tx} |-> deals[k]]
    BY <1>3 DEF EvictNote
  <2>2. DOMAIN deals' \subseteq DOMAIN deals /\ \A tx \in DOMAIN deals' : deals'[tx] = deals[tx]
    BY <2>1
  <2> QED BY <2>1, <2>2 DEF PayLimits
<1> QED BY <1>1, <1>2, <1>3

\* Every step keeps the limits.
LEMMA PayLimitsStep ==
  ASSUME PayInv, PayLimits, [CounterpartyNext]_counterpartyVars
  PROVE  PayLimits'
<1>1. CASE UNCHANGED counterpartyVars
  BY <1>1 DEF PayLimits, counterpartyVars
<1>2. CASE CounterpartyNext
  BY <1>2, PayingLimits, PaymentLimits, FollowUpLimits, ReceiptLimits, PayWorldLimits DEF CounterpartyNext
<1> QED BY <1>1, <1>2

\* Whatever crashes, overlaps or is evicted, every note left - a deal, a receipt to watch, the
\* hashes in the note of a child - names a transaction that was sent (pay_peer, reproduce and
\* the job that follows them up).
THEOREM CounterpartyTyped == CounterpartySpec => []CounterpartyTypeOK
<1>1. CounterpartyInit => PayLimits
  BY CounterpartyAssumption DEF CounterpartyInit, PayLimits, NoPayer, NoRecovery, SessionStates
<1>2. ASSUME PayInv, PayLimits
      PROVE  CounterpartyTypeOK
  <2>1. Len(sent) \in Nat /\ Len(sent) <= MaxTxs
    BY <1>2, CounterpartyAssumption DEF PayLimits
  <2>2. child.approve \in 0..Len(sent) /\ child.deposit \in 0..Len(sent)
    BY <1>2 DEF PayInv, NoteFits
  <2>3. child.approve \in Txs /\ child.deposit \in Txs /\ 1..Len(sent) \subseteq 1..MaxTxs
    BY <2>1, <2>2, CounterpartyAssumption DEF Txs
  <2> QED BY <1>2, <2>1, <2>3 DEF PayLimits, CounterpartyTypeOK, DealStatuses
<1>3. PayInv /\ PayLimits /\ [CounterpartyNext]_counterpartyVars => PayLimits'
  BY PayLimitsStep
<1> QED BY <1>1, <1>2, <1>3, PayInvAlways, PTL DEF CounterpartySpec

-----------------------------------------------------------------------------
(* The memory. *)

TurnsIn(rows, w) == {r \in rows : r.kind = "turn" /\ Window(r.at) = w}

\* The records have ids of their own, and a turn is recorded when it is over.
RecordsFit(rows, next) ==
  /\ next \in Nat /\ IsFiniteSet(rows)
  /\ \A r \in rows : /\ r.id \in Nat /\ r.id < next /\ (r.kind = "turn" => ~r.open)
                     /\ {"kind", "id", "at", "open"} \subseteq DOMAIN r

WindowsAdd(sums, rows, total) ==
  /\ sums \in [Windows -> Nat] /\ total \in [Windows -> Nat]
  /\ \A w \in Windows : total[w] = sums[w] + Cardinality(TurnsIn(rows, w))

\* The newest entry of the journal is the last one published.
JournalFits(ids, count) ==
  /\ count \in Nat /\ IsFiniteSet(ids) /\ ids \subseteq 1..count
  /\ ids # {} => count \in ids
  /\ ids = {} => count = 0

PlanFits(plan) ==
  /\ plan.step \in 1..MaxSteps /\ DOMAIN plan.steps = 1..MaxSteps
  /\ {"id", "status", "step", "steps", "at"} \subseteq DOMAIN plan
  /\ \A s \in 1..MaxSteps : /\ s < plan.step => plan.steps[s] \in {"completed", "skipped"}
                            /\ s > plan.step => plan.steps[s] = "pending"

MemoryInv ==
  /\ RecordsFit(records, ops) /\ WindowsAdd(summaries, records, recorded)
  /\ JournalFits(journal, published)
  /\ \A plan \in plans : PlanFits(plan)

\* The newest entry is the number of entries published.
LEMMA NewestEntry ==
  ASSUME NEW ids, NEW count, JournalFits(ids, count), ids # {}
  PROVE  Max(ids) = count
<1> DEFINE m == Max(ids)
<1>1. count \in Nat /\ ids \in SUBSET Int /\ count \in ids /\ \A x \in ids : x <= count
  BY DEF JournalFits
<1>2. m \in ids /\ \A y \in ids : y <= m
  BY <1>1, MaxIsLargest
<1> HIDE DEF m
<1>3. m \in Int /\ m <= count /\ count <= m
  BY <1>1, <1>2
<1>4. m = count
  BY <1>1, <1>3
<1> QED BY <1>4 DEF m

\* The newest entry outlives the ones it drops, and the next id follows it.
LEMMA JournalGrows ==
  ASSUME NEW ids, NEW count, JournalFits(ids, count)
  PROVE  JournalFits(Kept(ids \cup {NextEntry(ids)}), count + 1)
<1>1. count \in Nat /\ ids \in SUBSET Int /\ \A x \in ids : x <= count
  BY DEF JournalFits
<1>2. NextEntry(ids) = count + 1
  <2>1. CASE ids = {}
    BY <2>1 DEF JournalFits, NextEntry
  <2>2. CASE ids # {}
    <3>2. Max(ids) = count
      BY <2>2, NewestEntry
    <3> QED BY <2>2, <3>2 DEF NextEntry
  <2> QED BY <2>1, <2>2
<1> DEFINE more == ids \cup {count + 1}
           Newer(i) == {j \in more : j > i}
<1>3. IsFiniteSet(more) /\ more \subseteq 1..(count + 1)
  BY <1>1, FS_AddElement DEF JournalFits
<1>4. Kept(more) = {i \in more : Cardinality(Newer(i)) < MaxJournal}
  BY DEF Kept
<1>5. Newer(count + 1) = {}
  BY <1>3
<1>6. Cardinality(Newer(count + 1)) = 0
  BY <1>5, FS_EmptySet
<1>7. count + 1 \in Kept(more)
  BY <1>4, <1>6, MemoryAssumption
<1>8. Kept(more) \in SUBSET more
  BY <1>4
<1>9. IsFiniteSet(Kept(more))
  <2> HIDE DEF more
  <2> QED BY <1>3, <1>8, FS_Subset
<1> DEFINE kept == Kept(more)
<1>10. /\ kept = Kept(ids \cup {NextEntry(ids)}) /\ kept # {} /\ count + 1 \in kept
       /\ IsFiniteSet(kept) /\ kept \subseteq 1..(count + 1) /\ count + 1 \in Nat
  <2>1. kept = Kept(ids \cup {NextEntry(ids)})
    BY <1>2
  <2> HIDE DEF more
  <2>2. count + 1 \in Nat
    BY <1>1
  <2> QED BY <1>3, <1>7, <1>8, <1>9, <2>1, <2>2
<1> HIDE DEF kept
<1> QED BY <1>10 DEF JournalFits

\* A table of plans gets no row but the one stored.
LEMMA StoresOnly ==
  ASSUME NEW rows, NEW row, NEW rows2 \in Stores(rows, row)
  PROVE  rows2 \subseteq rows \cup {row}
  BY DEF Stores, Upserted

\* A plan goes on in order.
LEMMA AdvanceKeepsOrder ==
  ASSUME NEW plan, PlanFits(plan), NEW status, NEW override
  PROVE  PlanFits(Advanced(plan, status)) /\ PlanFits([Advanced(plan, status) EXCEPT !.status = override])
<1> DEFINE noted == [plan EXCEPT !.steps[plan.step] = status, !.at = instant]
           on == [noted EXCEPT !.step = @ + 1, !.steps[plan.step + 1] = "in_progress"]
           over == [noted EXCEPT !.status = "completed"]
<1>1. MaxSteps \in Nat /\ plan.step \in 1..MaxSteps /\ DOMAIN plan.steps = 1..MaxSteps
      /\ {"id", "status", "step", "steps", "at"} \subseteq DOMAIN plan
  BY MemoryAssumption DEF PlanFits
<1>2. /\ noted.step = plan.step /\ DOMAIN noted.steps = 1..MaxSteps
      /\ {"id", "status", "step", "steps", "at"} \subseteq DOMAIN noted
      /\ \A s \in 1..MaxSteps : noted.steps[s] = IF s = plan.step THEN status ELSE plan.steps[s]
  BY <1>1
<1> HIDE DEF noted
<1>3. PlanFits(noted)
  BY <1>1, <1>2 DEF PlanFits
<1>4. /\ over.step = plan.step /\ over.steps = noted.steps
      /\ {"id", "status", "step", "steps", "at"} \subseteq DOMAIN over
  BY <1>2
<1>5. PlanFits(over)
  <2> HIDE DEF over
  <2> QED BY <1>2, <1>3, <1>4 DEF PlanFits
<1>6. ASSUME StepOver(status), plan.step # MaxSteps
      PROVE  PlanFits(on)
  <2>1. /\ on.step = plan.step + 1 /\ DOMAIN on.steps = 1..MaxSteps
        /\ {"id", "status", "step", "steps", "at"} \subseteq DOMAIN on
        /\ \A s \in 1..MaxSteps : on.steps[s] = IF s = plan.step + 1 THEN "in_progress" ELSE noted.steps[s]
    BY <1>1, <1>2
  <2> HIDE DEF on
  <2>2. status \in {"completed", "skipped"} /\ on.step \in 1..MaxSteps
    BY <1>1, <1>6, <2>1 DEF StepOver
  <2>3. ASSUME NEW s \in 1..MaxSteps
        PROVE  /\ s < on.step => on.steps[s] \in {"completed", "skipped"}
               /\ s > on.step => on.steps[s] = "pending"
    <3>1. s < on.step => s = plan.step \/ s < plan.step
      BY <1>1, <2>1
    <3>2. s > on.step => s > plan.step /\ s # plan.step + 1 /\ s # plan.step
      BY <1>1, <2>1
    <3>3. s < on.step => s # plan.step + 1
      BY <1>1, <2>1
    <3>4. on.steps[s] = (IF s = plan.step + 1 THEN "in_progress"
                         ELSE IF s = plan.step THEN status ELSE plan.steps[s])
      BY <1>2, <2>1
    <3>5. /\ s < plan.step => plan.steps[s] \in {"completed", "skipped"}
          /\ s > plan.step => plan.steps[s] = "pending"
      BY DEF PlanFits
    <3> QED BY <2>2, <3>1, <3>2, <3>3, <3>4, <3>5
  <2> QED BY <2>1, <2>2, <2>3 DEF PlanFits
<1>7. Advanced(plan, status) = CASE ~StepOver(status) -> noted
                                 [] StepOver(status) /\ plan.step = MaxSteps -> over
                                 [] OTHER -> on
  BY DEF Advanced, noted
<1> HIDE DEF on, over
<1>8. PlanFits(Advanced(plan, status))
  BY <1>3, <1>5, <1>6, <1>7
<1> DEFINE next == Advanced(plan, status)
<1> HIDE DEF next
<1>9. ASSUME PlanFits(next) PROVE PlanFits([next EXCEPT !.status = override])
  BY <1>9 DEF PlanFits
<1> QED BY <1>8, <1>9 DEF next

\* What the windows add up to when a turn is recorded.
LEMMA TurnRecorded ==
  ASSUME NEW rows, NEW next, RecordsFit(rows, next), NEW sums, NEW total, WindowsAdd(sums, rows, total),
         NEW r, r.id = next, {"kind", "id", "at", "open"} \subseteq DOMAIN r, r.kind = "turn" => ~r.open
  PROVE  /\ RecordsFit(rows \cup {r}, next + 1)
         /\ r.kind # "turn" => WindowsAdd(sums, rows \cup {r}, total)
         /\ r.kind = "turn" => WindowsAdd(sums, rows \cup {r}, [total EXCEPT ![Window(r.at)] = @ + 1])
<1>1. next \in Nat /\ IsFiniteSet(rows) /\ r \notin rows
  BY DEF RecordsFit
<1>2. RecordsFit(rows \cup {r}, next + 1)
  <2>1. IsFiniteSet(rows \cup {r})
    BY <1>1, FS_AddElement
  <2>2. \A x \in rows : x.id \in Nat /\ x.id < next + 1
    BY <1>1 DEF RecordsFit
  <2>3. r.id \in Nat /\ r.id < next + 1
    BY <1>1
  <2> QED BY <1>1, <2>1, <2>2, <2>3 DEF RecordsFit
<1>3. ASSUME NEW w
      PROVE  /\ ~(r.kind = "turn" /\ Window(r.at) = w) => TurnsIn(rows \cup {r}, w) = TurnsIn(rows, w)
             /\ r.kind = "turn" /\ Window(r.at) = w =>
                  Cardinality(TurnsIn(rows \cup {r}, w)) = Cardinality(TurnsIn(rows, w)) + 1
             /\ Cardinality(TurnsIn(rows, w)) \in Nat
  <2> DEFINE T == TurnsIn(rows, w)
  <2>1. IsFiniteSet(T) /\ Cardinality(T) \in Nat
    <3>1. T \in SUBSET rows
      BY DEF TurnsIn
    <3> HIDE DEF T
    <3> QED BY <1>1, <3>1, FS_Subset, FS_CardinalityType
  <2>2. r \notin T
    BY <1>1 DEF TurnsIn
  <2>3. TurnsIn(rows \cup {r}, w) = IF r.kind = "turn" /\ Window(r.at) = w THEN T \cup {r} ELSE T
    BY DEF TurnsIn
  <2> HIDE DEF T
  <2>4. Cardinality(T \cup {r}) = Cardinality(T) + 1
    BY <2>1, <2>2, FS_AddElement
  <2> QED BY <2>1, <2>3, <2>4 DEF T
<1>4. ASSUME r.kind # "turn" PROVE WindowsAdd(sums, rows \cup {r}, total)
  BY <1>3, <1>4 DEF WindowsAdd
<1>5. ASSUME r.kind = "turn"
      PROVE  WindowsAdd(sums, rows \cup {r}, [total EXCEPT ![Window(r.at)] = @ + 1])
  <2> DEFINE more == [total EXCEPT ![Window(r.at)] = @ + 1]
             here == Window(r.at)
  <2>1. total \in [Windows -> Nat] /\ sums \in [Windows -> Nat]
    BY DEF WindowsAdd
  <2>2. more \in [Windows -> Nat] /\ \A w \in Windows : more[w] = IF w = here THEN total[w] + 1 ELSE total[w]
    <3>1. ASSUME NEW h
          PROVE  /\ [total EXCEPT ![h] = @ + 1] \in [Windows -> Nat]
                 /\ \A w \in Windows : [total EXCEPT ![h] = @ + 1][w] = IF w = h THEN total[w] + 1 ELSE total[w]
      <4>1. CASE h \in Windows
        <5>1. total[h] \in Nat
          BY <2>1, <4>1
        <5>2. total[h] + 1 \in Nat
          BY <5>1
        <5> QED BY <2>1, <4>1, <5>2
      <4>2. CASE h \notin Windows
        BY <2>1, <4>2
      <4> QED BY <4>1, <4>2
    <3> QED BY <3>1
  <2> HIDE DEF more, here
  <2>3. ASSUME NEW w \in Windows
        PROVE  more[w] = sums[w] + Cardinality(TurnsIn(rows \cup {r}, w))
    <3>1. total[w] = sums[w] + Cardinality(TurnsIn(rows, w)) /\ sums[w] \in Nat /\ total[w] \in Nat
      BY <2>1 DEF WindowsAdd
    <3>2. CASE w = here
      <4>1. /\ Cardinality(TurnsIn(rows \cup {r}, w)) = Cardinality(TurnsIn(rows, w)) + 1
            /\ Cardinality(TurnsIn(rows, w)) \in Nat /\ more[w] = total[w] + 1
        BY <1>3, <1>5, <2>2, <3>2 DEF here
      <4> QED BY <3>1, <4>1
    <3>3. CASE w # here
      BY <1>3, <1>5, <2>2, <3>1, <3>3 DEF here
    <3> QED BY <3>2, <3>3
  <2> QED BY <2>1, <2>2, <2>3 DEF WindowsAdd, more
<1> QED BY <1>2, <1>4, <1>5

\* A pass takes the turns of its batch from the records and counts them in their windows.
LEMMA TurnsSummedUp ==
  ASSUME NEW next, RecordsFit(records, next), WindowsAdd(summaries, records, recorded),
         NEW turns, turns \subseteq records, \A t \in turns : t.kind = "turn",
         NEW others, \A t \in others : t.kind # "turn"
  PROVE  /\ RecordsFit(records \ (turns \cup others), next)
         /\ WindowsAdd(Summaries(turns), records \ (turns \cup others), recorded)
<1> DEFINE left == records \ (turns \cup others)
<1>1. RecordsFit(left, next)
  BY FS_Subset DEF RecordsFit
<1>2. ASSUME NEW w
      PROVE  /\ Cardinality(TurnsIn(left, w)) \in Nat /\ Cardinality({t \in turns : Window(t.at) = w}) \in Nat
             /\ Cardinality(TurnsIn(records, w)) =
                  Cardinality({t \in turns : Window(t.at) = w}) + Cardinality(TurnsIn(left, w))
  <2> DEFINE A == TurnsIn(records, w)
             B == {t \in turns : Window(t.at) = w}
             C == TurnsIn(left, w)
  <2>1. A = B \cup C /\ B \cap C = {}
    BY DEF TurnsIn
  <2>2. IsFiniteSet(records) /\ A \in SUBSET records /\ B \in SUBSET records /\ C \in SUBSET records
    BY DEF RecordsFit, TurnsIn
  <2> HIDE DEF A, B, C
  <2>3. IsFiniteSet(A) /\ IsFiniteSet(B) /\ IsFiniteSet(C)
    BY <2>2, FS_Subset
  <2>4. Cardinality(A) \in Nat /\ Cardinality(B) \in Nat /\ Cardinality(C) \in Nat
    BY <2>3, FS_CardinalityType
  <2>5. Cardinality(B \cup C) = Cardinality(B) + Cardinality(C) - Cardinality(B \cap C)
    BY <2>3, FS_Union
  <2>6. Cardinality(B \cap C) = 0
    BY <2>1, FS_EmptySet
  <2> QED BY <2>1, <2>4, <2>5, <2>6 DEF A, B, C
<1> HIDE DEF left
<1> DEFINE Batch(w) == Cardinality({t \in turns : Window(t.at) = w})
<1>3. /\ \A w \in Windows : Summaries(turns)[w] = summaries[w] + Batch(w)
      /\ DOMAIN Summaries(turns) = Windows /\ Summaries(turns) = [w \in Windows |-> Summaries(turns)[w]]
  BY DEF Summaries
<1>4. ASSUME NEW w \in Windows
      PROVE  /\ Summaries(turns)[w] \in Nat
             /\ recorded[w] = Summaries(turns)[w] + Cardinality(TurnsIn(left, w))
  <2>1. recorded[w] = summaries[w] + Cardinality(TurnsIn(records, w)) /\ summaries[w] \in Nat
    BY DEF WindowsAdd
  <2>2. /\ Batch(w) \in Nat /\ Cardinality(TurnsIn(left, w)) \in Nat
        /\ Cardinality(TurnsIn(records, w)) = Batch(w) + Cardinality(TurnsIn(left, w))
    BY <1>2
  <2> HIDE DEF Batch
  <2> QED BY <1>3, <2>1, <2>2
<1>5. recorded \in [Windows -> Nat]
  BY DEF WindowsAdd
<1>6. Summaries(turns) \in [Windows -> Nat]
  BY <1>3, <1>4
<1> QED BY <1>1, <1>4, <1>5, <1>6 DEF WindowsAdd, left

\* Closing a job or a message changes no turn.
LEMMA RecordCloses ==
  ASSUME NEW next, RecordsFit(records, next), WindowsAdd(summaries, records, recorded),
         NEW r \in records, r.open
  PROVE  /\ RecordsFit((records \ {r}) \cup {[r EXCEPT !.open = FALSE]}, next)
         /\ WindowsAdd(summaries, (records \ {r}) \cup {[r EXCEPT !.open = FALSE]}, recorded)
<1> DEFINE c == [r EXCEPT !.open = FALSE]
           rows == (records \ {r}) \cup {c}
<1>1. r.kind # "turn" /\ {"kind", "id", "at", "open"} \subseteq DOMAIN r /\ IsFiniteSet(records)
      /\ r.id \in Nat /\ r.id < next
  BY DEF RecordsFit
<1>2. c.kind = r.kind /\ c.id = r.id /\ {"kind", "id", "at", "open"} \subseteq DOMAIN c
  BY <1>1
<1> HIDE DEF c
<1>3. IsFiniteSet(rows)
  <2>1. IsFiniteSet(records \ {r})
    BY <1>1, FS_RemoveElement
  <2> QED BY <2>1, FS_AddElement
<1>4. RecordsFit(rows, next)
  BY <1>1, <1>2, <1>3 DEF RecordsFit
<1>5. \A w : TurnsIn(rows, w) = TurnsIn(records, w)
  BY <1>1, <1>2 DEF TurnsIn
<1> HIDE DEF rows
<1>6. WindowsAdd(summaries, rows, recorded)
  BY <1>5 DEF WindowsAdd
<1> QED BY <1>4, <1>6 DEF rows, c

\* A tool counts towards the operations; whatever else it writes, the records stay.
LEMMA ToolKeepsRecords ==
  ASSUME MemoryInv, ops' = ops + 1, UNCHANGED <<records, summaries, recorded>>
  PROVE  RecordsFit(records', ops') /\ WindowsAdd(summaries', records', recorded')
<1>1. ops \in Nat /\ RecordsFit(records, ops)
  BY DEF MemoryInv, RecordsFit
<1>2. \A r \in records : r.id \in Nat /\ r.id < ops + 1
  BY <1>1 DEF RecordsFit
<1>3. RecordsFit(records, ops + 1)
  BY <1>1, <1>2 DEF RecordsFit
<1> QED BY <1>3 DEF MemoryInv

\* Every action keeps the invariant.
LEMMA MemoryStep ==
  ASSUME MemoryInv, MemoryNext
  PROVE  MemoryInv'
<1>1. ASSUME ops' = ops + 1, UNCHANGED <<records, summaries, recorded, plans, journal, published>>
      PROVE  MemoryInv'
  BY <1>1, ToolKeepsRecords DEF MemoryInv
<1>2. CASE \/ \E stem \in Stems, segment \in {"plain", "timestamp"} :
                Remember(stem, segment) \/ Forget(stem, segment)
           \/ \E id \in GoalIds : SetGoal(id)
           \/ \E goal \in goals, status \in {"completed", "abandoned"} : UpdateGoal(goal, status)
           \/ \E subject \in Subjects : LessonFailed(subject) \/ LessonWorked(subject)
  <2>1. ops' = ops + 1 /\ UNCHANGED <<records, summaries, recorded, plans, journal, published>>
    BY <1>2 DEF Remember, Forget, SetGoal, UpdateGoal, LessonFailed, LessonWorked, Uses
  <2> QED BY <1>1, <2>1
<1>3. ASSUME NEW row, PlanFits(row), plans' \in Stores(plans, row), ops' = ops + 1,
             UNCHANGED <<records, summaries, recorded, journal, published>>
      PROVE  MemoryInv'
  <2>1. \A plan \in plans' : PlanFits(plan)
    BY <1>3, StoresOnly DEF MemoryInv
  <2> QED BY <1>3, <2>1, ToolKeepsRecords DEF MemoryInv
<1>4. ASSUME NEW id \in GoalIds, CreatePlan(id)
      PROVE  MemoryInv'
  <2> DEFINE row == [id |-> id, status |-> "active", step |-> 1, at |-> instant,
                     steps |-> [s \in 1..MaxSteps |-> "pending"]]
  <2>1. plans' \in Stores(plans, row) /\ ops' = ops + 1
        /\ UNCHANGED <<records, summaries, recorded, journal, published>>
    BY <1>4 DEF CreatePlan, Uses
  <2>2. PlanFits(row)
    BY MemoryAssumption DEF PlanFits
  <2> HIDE DEF row
  <2> QED BY <1>3, <2>1, <2>2
<1>5. ASSUME NEW plan \in plans, NEW status, NEW override, AdvancePlan(plan, status, override)
      PROVE  MemoryInv'
  <2> DEFINE next == Advanced(plan, status)
             row == IF override = "active" THEN next ELSE [next EXCEPT !.status = override]
  <2>1. plans' \in Stores(plans, row) /\ ops' = ops + 1
        /\ UNCHANGED <<records, summaries, recorded, journal, published>>
    BY <1>5 DEF AdvancePlan, Uses
  <2>2. PlanFits(plan)
    BY DEF MemoryInv
  <2>3. PlanFits(next) /\ PlanFits([next EXCEPT !.status = override])
    BY <2>2, AdvanceKeepsOrder
  <2>4. PlanFits(row)
    BY <2>3
  <2> HIDE DEF row
  <2> QED BY <1>3, <2>1, <2>4
<1>6. ASSUME NEW kind \in {"turn", "job", "inbox"}, NEW open \in BOOLEAN, Record(kind, open)
      PROVE  MemoryInv'
  <2> DEFINE r == [kind |-> kind, id |-> ops, at |-> instant, open |-> open]
  <2>1. /\ ops' = ops + 1 /\ (kind = "turn" => ~open) /\ records' = records \cup {r}
        /\ recorded' = IF kind = "turn" THEN [recorded EXCEPT ![Window(instant)] = @ + 1] ELSE recorded
        /\ UNCHANGED <<plans, journal, summaries, published>>
    BY <1>6 DEF Record, Uses
  <2>2. r.id = ops /\ {"kind", "id", "at", "open"} \subseteq DOMAIN r /\ (r.kind = "turn" => ~r.open)
        /\ r.kind = kind /\ r.at = instant
    BY <2>1
  <2> HIDE DEF r
  <2>3. RecordsFit(records, ops) /\ WindowsAdd(summaries, records, recorded)
    BY DEF MemoryInv
  <2>4. /\ RecordsFit(records \cup {r}, ops + 1)
        /\ r.kind # "turn" => WindowsAdd(summaries, records \cup {r}, recorded)
        /\ r.kind = "turn" => WindowsAdd(summaries, records \cup {r}, [recorded EXCEPT ![Window(r.at)] = @ + 1])
    BY <2>2, <2>3, TurnRecorded
  <2>5. RecordsFit(records', ops') /\ WindowsAdd(summaries', records', recorded')
    BY <2>1, <2>2, <2>4
  <2> QED BY <2>1, <2>5 DEF MemoryInv
<1>7. ASSUME NEW r \in records, CloseRecord(r)
      PROVE  MemoryInv'
  <2>1. r.open /\ records' = (records \ {r}) \cup {[r EXCEPT !.open = FALSE]}
        /\ UNCHANGED <<plans, journal, summaries, recorded, published, ops>>
    BY <1>7 DEF CloseRecord
  <2>2. RecordsFit(records', ops) /\ WindowsAdd(summaries, records', recorded)
    BY <2>1, RecordCloses DEF MemoryInv
  <2> QED BY <2>1, <2>2 DEF MemoryInv
<1>8. CASE AppendJournal
  <2>1. /\ ops' = ops + 1 /\ journal' = Kept(journal \cup {NextEntry(journal)})
        /\ published' = published + 1
        /\ UNCHANGED <<plans, records, summaries, recorded>>
    BY <1>8 DEF AppendJournal, Uses
  <2>2. JournalFits(journal', published')
    BY <2>1, JournalGrows DEF MemoryInv
  <2> QED BY <2>1, <2>2, ToolKeepsRecords DEF MemoryInv
<1>9. CASE Retention
  <2>1. PICK turns, jobs, inbox :
          /\ turns \in OldestOf(Prunable("turn"), PruneBatch)
          /\ jobs \in OldestOf(Prunable("job"), PruneBatch)
          /\ inbox \in OldestOf(Prunable("inbox"), PruneBatch)
          /\ records' = records \ (turns \cup jobs \cup inbox) /\ summaries' = Summaries(turns)
    BY <1>9 DEF Retention
  <2>2. UNCHANGED <<plans, journal, recorded, published, ops>>
    BY <1>9 DEF Retention
  <2>3. \A kind : \A T \in OldestOf(Prunable(kind), PruneBatch) :
          T \subseteq records /\ \A t \in T : t.kind = kind
    BY DEF OldestOf, Prunable
  <2> DEFINE others == jobs \cup inbox
  <2>4. turns \subseteq records /\ (\A t \in turns : t.kind = "turn") /\ (\A t \in others : t.kind # "turn")
        /\ records' = records \ (turns \cup others)
    BY <2>1, <2>3
  <2> HIDE DEF others
  <2>5. RecordsFit(records', ops) /\ WindowsAdd(summaries', records', recorded)
    BY <2>1, <2>4, TurnsSummedUp DEF MemoryInv
  <2> QED BY <2>2, <2>5 DEF MemoryInv
<1>10. CASE MemoryTime
  BY <1>10 DEF MemoryTime, MemoryInv
<1> QED BY <1>2, <1>4, <1>5, <1>6, <1>7, <1>8, <1>9, <1>10 DEF MemoryNext

\* The initial memory satisfies the invariant.
LEMMA MemoryStart == MemoryInit => MemoryInv
<1> SUFFICES ASSUME MemoryInit PROVE MemoryInv
  OBVIOUS
<1>1. RecordsFit(records, ops) /\ JournalFits(journal, published)
  BY FS_EmptySet DEF MemoryInit, RecordsFit, JournalFits
<1>2. \A w : TurnsIn(records, w) = {}
  BY DEF MemoryInit, TurnsIn
<1>3. Cardinality({}) = 0
  BY FS_EmptySet
<1>4. WindowsAdd(summaries, records, recorded)
  BY <1>2, <1>3 DEF MemoryInit, WindowsAdd
<1> QED BY <1>1, <1>4 DEF MemoryInit, MemoryInv

\* MemoryInv holds throughout.
LEMMA MemoryInvAlways == MemorySpec => []MemoryInv
<1>1. ASSUME MemoryInv, UNCHANGED memoryVars
      PROVE  MemoryInv'
  BY <1>1 DEF MemoryInv, memoryVars
<1> QED BY MemoryStart, MemoryStep, <1>1, PTL DEF MemorySpec

\* No turn is forgotten by the retention, no journal id is given twice, and plans are worked
\* off in order.
THEOREM MemoryAccountedAlways == MemorySpec => []MemoryAccounted
<1>1. ASSUME MemoryInv
      PROVE  MemoryAccounted
  <2>1. \A w \in Windows : recorded[w] = summaries[w]
          + Cardinality({r \in records : r.kind = "turn" /\ Window(r.at) = w})
    BY <1>1 DEF MemoryInv, WindowsAdd, TurnsIn
  <2>2. journal # {} => Max(journal) = published
    BY <1>1, NewestEntry DEF MemoryInv
  <2> QED BY <1>1, <2>1, <2>2 DEF MemoryAccounted, MemoryInv, PlanFits
<1> QED BY <1>1, MemoryInvAlways, PTL

\* The tables of the memory stay within their limits.  A subject has one lesson, so that noting
\* a success adds none.
OneLesson(rows) == \A k, l \in rows : k.subject = l.subject => k = l

LessonRecords == [subject : Subjects, failed : Instants, worked : BOOLEAN, at : Instants]

GoalRecords == [id : GoalIds, status : {"active", "completed", "abandoned"}, at : Instants]

FactRecords == [key : Keys, at : Instants]

FactsFit(rows) == rows \subseteq FactRecords /\ IsFiniteSet(rows) /\ Cardinality(rows) <= MaxFacts

LessonsFit(rows) ==
  /\ rows \subseteq LessonRecords /\ IsFiniteSet(rows) /\ Cardinality(rows) <= MaxLessons
  /\ OneLesson(rows)

TablesInv ==
  /\ instant \in Instants /\ FactsFit(facts) /\ LessonsFit(lessons)
  /\ goals \subseteq GoalRecords /\ plans \subseteq Plan
  /\ Cardinality(journal) <= MaxJournal

\* The lesser of two numbers.
LEMMA LesserOf ==
  ASSUME NEW m \in Nat, NEW n \in Nat
  PROVE  Min({m, n}) = (IF m <= n THEN m ELSE n)
<1> DEFINE x == Min({m, n})
<1>1. {m, n} \in SUBSET Nat /\ {m, n} # {}
  OBVIOUS
<1>2. x \in {m, n} /\ x <= m /\ x <= n
  BY <1>1, MinIsLeast
<1> HIDE DEF x
<1>3. x = IF m <= n THEN m ELSE n
  BY <1>2
<1> QED BY <1>3 DEF x

\* Taking the n oldest away leaves what is beyond n.
LEMMA OldestTaken ==
  ASSUME NEW all, IsFiniteSet(all), NEW n \in Nat, NEW T \in OldestOf(all, n)
  PROVE  /\ T \subseteq all /\ IsFiniteSet(all \ T) /\ Cardinality(all) \in Nat
         /\ Cardinality(T) = (IF n <= Cardinality(all) THEN n ELSE Cardinality(all))
         /\ Cardinality(all \ T) = Cardinality(all) - Cardinality(T)
<1> DEFINE c == Cardinality(all)
<1>1. T \in SUBSET all /\ Cardinality(T) = Min({n, c})
  BY DEF OldestOf
<1>2. c \in Nat
  BY FS_CardinalityType
<1> HIDE DEF c
<1>3. Cardinality(T) = IF n <= c THEN n ELSE c
  BY <1>1, <1>2, LesserOf
<1>4. all \cap T = T
  BY <1>1
<1>5. IsFiniteSet(all \ T) /\ Cardinality(all \ T) = c - Cardinality(T)
  BY <1>4, FS_Difference DEF c
<1> QED BY <1>1, <1>2, <1>3, <1>5 DEF c

\* Replacing rows, at least one, by one adds none.
LEMMA ReplacedByOne ==
  ASSUME NEW all, IsFiniteSet(all), NEW out, out \subseteq all, NEW new
  PROVE  /\ IsFiniteSet((all \ out) \cup {new}) /\ Cardinality(all) \in Nat
         /\ Cardinality((all \ out) \cup {new}) \in Nat
         /\ Cardinality((all \ out) \cup {new}) <= Cardinality(all) + 1
         /\ out # {} => Cardinality((all \ out) \cup {new}) <= Cardinality(all)
<1> DEFINE L == all \ out
           M == L \cup {new}
<1>1. L \in SUBSET all /\ Cardinality(all) \in Nat
  BY FS_CardinalityType
<1>2. IsFiniteSet(L) /\ Cardinality(L) <= Cardinality(all) /\ (Cardinality(all) = Cardinality(L) => all = L)
  BY <1>1, FS_Subset
<1>3. Cardinality(L) \in Nat
  BY <1>2, FS_CardinalityType
<1>4. out # {} => all # L
  OBVIOUS
<1> HIDE DEF L
<1>5. IsFiniteSet(M) /\ Cardinality(M) \in {Cardinality(L), Cardinality(L) + 1}
  BY <1>2, FS_AddElement
<1> HIDE DEF M
<1>6. /\ IsFiniteSet(M) /\ Cardinality(M) \in Nat /\ Cardinality(M) <= Cardinality(all) + 1
      /\ out # {} => Cardinality(M) <= Cardinality(all)
  BY <1>1, <1>2, <1>3, <1>4, <1>5
<1> QED BY <1>1, <1>6 DEF M, L

\* What is remembered stays within the limit: where nothing may be evicted, nothing is stored.
LEMMA RememberFits ==
  ASSUME TablesInv, NEW stem \in Stems, NEW segment \in {"plain", "timestamp"},
         Remember(stem, segment) \/ Forget(stem, segment)
  PROVE  FactsFit(facts')
<1> DEFINE key == Canonical(stem, segment)
           old == {f \in facts : f.key = key}
           new == [key |-> key, at |-> instant]
<1>1. key \in Keys
  BY DEF Canonical, Keys
<1>2. new \in FactRecords
  BY <1>1 DEF TablesInv, FactRecords
<1>3. facts \subseteq FactRecords /\ IsFiniteSet(facts) /\ Cardinality(facts) <= MaxFacts /\ MaxFacts \in Nat
  BY MemoryAssumption DEF TablesInv, FactsFit
<1>4. CASE Forget(stem, segment)
  <2>1. facts' \in SUBSET facts
    BY <1>4 DEF Forget
  <2>2. Cardinality(facts') \in Nat /\ Cardinality(facts) \in Nat /\ Cardinality(facts') <= Cardinality(facts)
        /\ IsFiniteSet(facts')
    BY <1>3, <2>1, FS_Subset, FS_CardinalityType
  <2> QED BY <1>3, <2>1, <2>2 DEF FactsFit
<1>5. CASE Remember(stem, segment)
  <2>1. \/ (old # {} \/ Cardinality(facts) < MaxFacts) /\ facts' = (facts \ old) \cup {new}
        \/ facts' = facts
        \/ Evictable(facts) # {} /\ \E out \in OldestOf(Evictable(facts), 1) : facts' = (facts \ out) \cup {new}
    BY <1>5 DEF Remember
  <2>2. old \subseteq facts
    OBVIOUS
  <2> HIDE DEF old, new
  <2>3. CASE (old # {} \/ Cardinality(facts) < MaxFacts) /\ facts' = (facts \ old) \cup {new}
    <3>1. /\ IsFiniteSet(facts') /\ Cardinality(facts) \in Nat /\ Cardinality(facts') \in Nat
          /\ Cardinality(facts') <= Cardinality(facts) + 1
          /\ old # {} => Cardinality(facts') <= Cardinality(facts)
      BY <1>3, <2>2, <2>3, ReplacedByOne
    <3>2. Cardinality(facts') <= MaxFacts
      BY <1>3, <2>3, <3>1
    <3> QED BY <1>2, <1>3, <2>3, <3>1, <3>2 DEF FactsFit
  <2>4. CASE facts' = facts
    BY <2>4 DEF TablesInv
  <2>5. CASE Evictable(facts) # {} /\ \E out \in OldestOf(Evictable(facts), 1) : facts' = (facts \ out) \cup {new}
    <3> DEFINE E == Evictable(facts)
    <3>1. E \in SUBSET facts /\ E # {}
      BY <2>5 DEF Evictable
    <3>2. IsFiniteSet(E) /\ Cardinality(E) \in Nat /\ Cardinality(E) # 0
      <4> HIDE DEF E
      <4> QED BY <1>3, <3>1, FS_Subset, FS_CardinalityType, FS_EmptySet
    <3>3. PICK out \in OldestOf(E, 1) : facts' = (facts \ out) \cup {new}
      BY <2>5
    <3> HIDE DEF E
    <3>4. out \subseteq E /\ Cardinality(out) = 1
      <4>1. Cardinality(out) = (IF 1 <= Cardinality(E) THEN 1 ELSE Cardinality(E)) /\ out \subseteq E
        BY <3>2, <3>3, OldestTaken
      <4> QED BY <3>2, <4>1
    <3>5. out # {}
      BY <3>4, FS_EmptySet
    <3>6. IsFiniteSet(facts') /\ Cardinality(facts) \in Nat /\ Cardinality(facts') \in Nat
          /\ Cardinality(facts') <= Cardinality(facts)
      BY <1>3, <3>1, <3>3, <3>4, <3>5, ReplacedByOne
    <3> QED BY <1>2, <1>3, <3>3, <3>6 DEF FactsFit
  <2> QED BY <2>1, <2>3, <2>4, <2>5
<1> QED BY <1>4, <1>5

\* Pruning leaves no more lessons than the limit.
LEMMA PrunedFits ==
  ASSUME NEW all, all \subseteq LessonRecords, IsFiniteSet(all), OneLesson(all), NEW left \in Pruned(all)
  PROVE  LessonsFit(left)
<1> DEFINE fresh == {l \in all : FreshLesson(l)}
           excess == IF Cardinality(fresh) > MaxLessons THEN Cardinality(fresh) - MaxLessons ELSE 0
<1>1. fresh \in SUBSET all
  OBVIOUS
<1>2. PICK T \in OldestOf(fresh, excess) : left = fresh \ T
  BY DEF Pruned
<1> HIDE DEF fresh
<1>3. IsFiniteSet(fresh) /\ Cardinality(fresh) \in Nat /\ MaxLessons \in Nat
  BY <1>1, FS_Subset, FS_CardinalityType, MemoryAssumption
<1>4. excess \in Nat /\ (excess <= Cardinality(fresh)) /\ Cardinality(fresh) - excess <= MaxLessons
  BY <1>3
<1> HIDE DEF excess
<1>5. /\ IsFiniteSet(left) /\ Cardinality(left) = Cardinality(fresh) - Cardinality(T)
      /\ Cardinality(T) = (IF excess <= Cardinality(fresh) THEN excess ELSE Cardinality(fresh))
  BY <1>2, <1>3, <1>4, OldestTaken
<1>6. Cardinality(left) <= MaxLessons
  BY <1>3, <1>4, <1>5
<1>7. left \subseteq all
  BY <1>1, <1>2
<1>8. OneLesson(left)
  BY <1>7 DEF OneLesson
<1> QED BY <1>5, <1>6, <1>7, <1>8 DEF LessonsFit

\* A lesson replaces the ones of its subject.
LEMMA LessonReplaced ==
  ASSUME LessonsFit(lessons), NEW subject \in Subjects, NEW new \in LessonRecords, new.subject = subject,
         NEW left \in Pruned((lessons \ Lessons(subject)) \cup {new})
  PROVE  LessonsFit(left)
<1> DEFINE all == (lessons \ Lessons(subject)) \cup {new}
<1>1. Lessons(subject) \subseteq lessons /\ \A l \in lessons \ Lessons(subject) : l.subject # subject
  BY DEF Lessons
<1>2. all \subseteq LessonRecords /\ IsFiniteSet(lessons)
  BY DEF LessonsFit
<1>3. IsFiniteSet(all)
  BY <1>1, <1>2, ReplacedByOne
<1>4. OneLesson(all)
  <2>1. OneLesson(lessons)
    BY DEF LessonsFit
  <2> QED BY <1>1, <2>1 DEF OneLesson
<1> HIDE DEF all
<1>5. left \in Pruned(all)
  BY DEF all
<1> QED BY <1>2, <1>3, <1>4, <1>5, PrunedFits

\* Noting a failure or a success.
LEMMA LessonFits ==
  ASSUME TablesInv, NEW subject \in Subjects, LessonFailed(subject) \/ LessonWorked(subject)
  PROVE  LessonsFit(lessons')
<1> DEFINE old == Lessons(subject)
<1>1. LessonsFit(lessons) /\ instant \in Instants
  BY DEF TablesInv
<1>2. CASE LessonFailed(subject)
  <2> DEFINE w == \E l \in old : l.worked
             new == [subject |-> subject, failed |-> instant, at |-> instant, worked |-> w]
  <2>1. lessons' \in Pruned((lessons \ old) \cup {new})
    BY <1>2 DEF LessonFailed
  <2>2. w \in BOOLEAN
    OBVIOUS
  <2> HIDE DEF w
  <2>3. new \in LessonRecords /\ new.subject = subject
    BY <1>1, <2>2 DEF LessonRecords
  <2> HIDE DEF new
  <2> QED BY <1>1, <2>1, <2>3, LessonReplaced
<1>3. CASE LessonWorked(subject)
  <2>1. old # {} /\ lessons' \in Pruned((lessons \ old) \cup {[l EXCEPT !.worked = TRUE, !.at = instant] : l \in old})
    BY <1>3 DEF LessonWorked
  <2>2. PICK k \in old : TRUE
    BY <2>1
  <2>3. k \in LessonRecords /\ k.subject = subject /\ \A l \in old : l = k
    BY <1>1, <2>2 DEF Lessons, LessonsFit, OneLesson
  <2> DEFINE new == [k EXCEPT !.worked = TRUE, !.at = instant]
  <2>4. {[l EXCEPT !.worked = TRUE, !.at = instant] : l \in old} = {new}
    <3> HIDE DEF old
    <3> QED BY <2>2, <2>3
  <2>5. new \in LessonRecords /\ new.subject = subject
    BY <1>1, <2>3 DEF LessonRecords
  <2>6. lessons' \in Pruned((lessons \ old) \cup {new})
    BY <2>1, <2>4
  <2> HIDE DEF new
  <2> QED BY <1>1, <2>5, <2>6, LessonReplaced
<1> QED BY <1>2, <1>3

\* A plan that goes on is a plan.
LEMMA AdvancedIsPlan ==
  ASSUME instant \in Instants, NEW plan \in Plan, NEW status \in StepStatuses, NEW override \in PlanStatuses
  PROVE  Advanced(plan, status) \in Plan /\ [Advanced(plan, status) EXCEPT !.status = override] \in Plan
<1> DEFINE noted == [plan EXCEPT !.steps[plan.step] = status, !.at = instant]
           over == [noted EXCEPT !.status = "completed"]
           on == [noted EXCEPT !.step = @ + 1, !.steps[plan.step + 1] = "in_progress"]
<1>1. MaxSteps \in Nat \ {0} /\ plan.step \in 1..MaxSteps
  BY MemoryAssumption DEF Plan
<1>2. noted \in Plan /\ noted.step = plan.step
  <2> DEFINE f == [plan.steps EXCEPT ![plan.step] = status]
  <2>1. plan.steps \in [1..MaxSteps -> StepStatuses]
    BY DEF Plan
  <2>2. f \in [1..MaxSteps -> StepStatuses]
    BY <2>1
  <2>3. noted = [plan EXCEPT !.steps = f, !.at = instant]
    OBVIOUS
  <2> HIDE DEF f, noted
  <2>4. noted \in Plan /\ noted.step = plan.step
    BY <2>2, <2>3 DEF Plan
  <2> QED BY <2>4
<1> HIDE DEF noted
<1>3. over \in Plan
  BY <1>2 DEF Plan, PlanStatuses
<1>4. ASSUME plan.step # MaxSteps PROVE on \in Plan
  <2> DEFINE g == [noted.steps EXCEPT ![plan.step + 1] = "in_progress"]
             m == plan.step + 1
  <2>1. noted.steps \in [1..MaxSteps -> StepStatuses] /\ "in_progress" \in StepStatuses
    BY <1>2 DEF Plan, StepStatuses
  <2>2. g \in [1..MaxSteps -> StepStatuses]
    BY <2>1
  <2>3. m \in 1..MaxSteps
    BY <1>1, <1>4
  <2>4. on = [noted EXCEPT !.step = m, !.steps = g]
    BY <1>2
  <2> HIDE DEF g, m, on
  <2> QED BY <1>2, <2>2, <2>3, <2>4 DEF Plan
<1>5. Advanced(plan, status) = CASE ~StepOver(status) -> noted
                                 [] StepOver(status) /\ plan.step = MaxSteps -> over
                                 [] OTHER -> on
  BY DEF Advanced, noted
<1> HIDE DEF on, over
<1>6. Advanced(plan, status) \in Plan
  BY <1>2, <1>3, <1>4, <1>5
<1> DEFINE next == Advanced(plan, status)
<1> HIDE DEF next
<1>7. ASSUME next \in Plan PROVE [next EXCEPT !.status = override] \in Plan
  BY <1>7 DEF Plan
<1> QED BY <1>6, <1>7 DEF next

\* Every action keeps the tables within their limits.
LEMMA TablesStep == ASSUME MemoryInv, TablesInv, [MemoryNext]_memoryVars PROVE TablesInv'
<1>1. /\ instant \in Instants /\ FactsFit(facts) /\ LessonsFit(lessons)
      /\ goals \subseteq GoalRecords /\ plans \subseteq Plan /\ Cardinality(journal) <= MaxJournal
  BY DEF TablesInv
<1>2. CASE \E stem \in Stems, segment \in {"plain", "timestamp"} : Remember(stem, segment) \/ Forget(stem, segment)
  <2>1. FactsFit(facts')
    BY <1>2, RememberFits
  <2>2. UNCHANGED <<instant, lessons, goals, plans, journal>>
    BY <1>2 DEF Remember, Forget
  <2> QED BY <1>1, <2>1, <2>2 DEF TablesInv
<1>3. ASSUME NEW id \in GoalIds, SetGoal(id) \/ CreatePlan(id)
      PROVE  TablesInv'
  <2>1. CASE SetGoal(id)
    <3> DEFINE row == [id |-> id, status |-> "active", at |-> instant]
    <3>1. row \in GoalRecords
      BY <1>1 DEF GoalRecords
    <3>2. goals' \in Stores(goals, row) /\ UNCHANGED <<instant, facts, lessons, plans, journal>>
      BY <2>1 DEF SetGoal
    <3> HIDE DEF row
    <3>3. goals' \subseteq goals \cup {row}
      BY <3>2, StoresOnly
    <3>4. goals' \subseteq GoalRecords
      BY <1>1, <3>1, <3>3
    <3> QED BY <1>1, <3>2, <3>4 DEF TablesInv
  <2>2. CASE CreatePlan(id)
    <3> DEFINE row == [id |-> id, status |-> "active", step |-> 1, at |-> instant,
                       steps |-> [s \in 1..MaxSteps |-> "pending"]]
    <3>1. row \in Plan
      BY <1>1, MemoryAssumption DEF Plan, PlanStatuses, StepStatuses
    <3>2. plans' \in Stores(plans, row) /\ UNCHANGED <<instant, facts, lessons, goals, journal>>
      BY <2>2 DEF CreatePlan
    <3> HIDE DEF row
    <3>3. plans' \subseteq plans \cup {row}
      BY <3>2, StoresOnly
    <3>4. plans' \subseteq Plan
      BY <1>1, <3>1, <3>3
    <3> QED BY <1>1, <3>2, <3>4 DEF TablesInv
  <2> QED BY <1>3, <2>1, <2>2
<1>4. ASSUME NEW goal \in goals, NEW status \in {"completed", "abandoned"}, UpdateGoal(goal, status)
      PROVE  TablesInv'
  <2> DEFINE row == [goal EXCEPT !.status = status, !.at = instant]
  <2>1. goal \in GoalRecords
    BY <1>1
  <2>2. row \in GoalRecords
    BY <1>1, <2>1 DEF GoalRecords
  <2>3. goals' \in Stores(goals, row) /\ UNCHANGED <<instant, facts, lessons, plans, journal>>
    BY <1>4 DEF UpdateGoal
  <2> HIDE DEF row
  <2>4. goals' \subseteq goals \cup {row}
    BY <2>3, StoresOnly
  <2>5. goals' \subseteq GoalRecords
    BY <1>1, <2>2, <2>4
  <2> QED BY <1>1, <2>3, <2>5 DEF TablesInv
<1>5. ASSUME NEW plan \in plans, NEW status \in StepStatuses, NEW override \in PlanStatuses,
             AdvancePlan(plan, status, override)
      PROVE  TablesInv'
  <2> DEFINE next == Advanced(plan, status)
             row == IF override = "active" THEN next ELSE [next EXCEPT !.status = override]
  <2>1. next \in Plan /\ [next EXCEPT !.status = override] \in Plan
    BY <1>1, AdvancedIsPlan
  <2>2. row \in Plan
    <3> HIDE DEF next
    <3> QED BY <2>1
  <2>3. plans' \in Stores(plans, row) /\ UNCHANGED <<instant, facts, lessons, goals, journal>>
    BY <1>5 DEF AdvancePlan
  <2> HIDE DEF row
  <2>4. plans' \subseteq plans \cup {row}
    BY <2>3, StoresOnly
  <2>5. plans' \subseteq Plan
    BY <1>1, <2>2, <2>4
  <2> QED BY <1>1, <2>3, <2>5 DEF TablesInv
<1>6. CASE \E subject \in Subjects : LessonFailed(subject) \/ LessonWorked(subject)
  <2>1. LessonsFit(lessons')
    BY <1>6, LessonFits
  <2>2. UNCHANGED <<instant, facts, goals, plans, journal>>
    BY <1>6 DEF LessonFailed, LessonWorked
  <2> QED BY <1>1, <2>1, <2>2 DEF TablesInv
<1>7. CASE \/ \E kind \in {"turn", "job", "inbox"}, open \in BOOLEAN : Record(kind, open)
           \/ \E r \in records : CloseRecord(r)
           \/ UNCHANGED memoryVars
  <2>1. UNCHANGED <<instant, facts, lessons, goals, plans, journal>>
    BY <1>7 DEF Record, CloseRecord, memoryVars
  <2> QED BY <1>1, <2>1 DEF TablesInv
<1>8. CASE AppendJournal
  <2> DEFINE all == journal \cup {NextEntry(journal)}
  <2>1. journal' = Kept(all) /\ UNCHANGED <<instant, facts, lessons, goals, plans>>
    BY <1>8 DEF AppendJournal
  <2>2. IsFiniteSet(journal) /\ journal \in SUBSET Nat /\ published \in Nat
    BY DEF MemoryInv, JournalFits
  <2>3. NextEntry(journal) \in Nat
    <3>1. CASE journal = {}
      BY <3>1 DEF NextEntry
    <3>2. CASE journal # {}
      <4>1. Max(journal) = published
        BY <3>2, NewestEntry DEF MemoryInv
      <4> QED BY <2>2, <3>2, <4>1 DEF NextEntry
    <3> QED BY <3>1, <3>2
  <2>4. IsFiniteSet(all) /\ all \in SUBSET Nat
    BY <2>2, <2>3, FS_AddElement
  <2> HIDE DEF all
  <2>5. Cardinality(Kept(all)) <= MaxJournal
    BY <2>4, NewestAreFew, MemoryAssumption DEF Kept
  <2> QED BY <1>1, <2>1, <2>5 DEF TablesInv
<1>9. CASE Retention
  <2>1. \E stale \in OldestOf(StaleFacts, PruneBatch) : facts' = facts \ stale
    BY <1>9 DEF Retention
  <2>2. lessons' \in Pruned(lessons) /\ UNCHANGED <<instant, goals, plans, journal>>
    BY <1>9 DEF Retention
  <2>3. facts' \in SUBSET facts
    BY <2>1
  <2>4. FactsFit(facts')
    <3>1. IsFiniteSet(facts) /\ facts \subseteq FactRecords /\ Cardinality(facts) <= MaxFacts /\ MaxFacts \in Nat
      BY <1>1, MemoryAssumption DEF FactsFit
    <3>2. IsFiniteSet(facts') /\ Cardinality(facts') <= Cardinality(facts)
          /\ Cardinality(facts') \in Nat /\ Cardinality(facts) \in Nat
      BY <2>3, <3>1, FS_Subset, FS_CardinalityType
    <3> QED BY <2>3, <3>1, <3>2 DEF FactsFit
  <2>5. LessonsFit(lessons')
    BY <1>1, <2>2, PrunedFits DEF LessonsFit
  <2> QED BY <1>1, <2>2, <2>4, <2>5 DEF TablesInv
<1>10. CASE MemoryTime
  <2>1. instant' \in Instants /\ UNCHANGED <<facts, lessons, goals, plans, journal>>
    BY <1>1, <1>10, MemoryAssumption DEF MemoryTime, Instants
  <2> QED BY <1>1, <2>1 DEF TablesInv
<1> QED BY <1>2, <1>3, <1>4, <1>5, <1>6, <1>7, <1>8, <1>9, <1>10 DEF MemoryNext

\* Facts, lessons and the journal never outgrow their limits, whatever the tools of a turn and
\* the retention pass write in whatever order, and where everything stored is critical a new
\* fact is refused (set_memory_fact, prune_reflection_memory, append_journal_entry).
THEOREM MemoryTyped == MemorySpec => []MemoryTypeOK
<1>1. MemoryInit => TablesInv
  <2> SUFFICES ASSUME MemoryInit PROVE TablesInv
    OBVIOUS
  <2>1. facts = {} /\ goals = {} /\ plans = {} /\ lessons = {} /\ journal = {} /\ instant = 0
    BY DEF MemoryInit
  <2>2. IsFiniteSet({}) /\ Cardinality({}) = 0
    BY FS_EmptySet
  <2>3. FactsFit(facts) /\ LessonsFit(lessons)
    BY <2>1, <2>2, MemoryAssumption DEF FactsFit, LessonsFit, OneLesson
  <2>4. instant \in Instants
    BY <2>1, MemoryAssumption DEF Instants
  <2>5. Cardinality(journal) <= MaxJournal
    BY <2>1, <2>2, MemoryAssumption
  <2> QED BY <2>1, <2>3, <2>4, <2>5 DEF TablesInv
<1>2. MemoryInv /\ TablesInv => MemoryTypeOK
  BY DEF MemoryInv, WindowsAdd, TablesInv, FactsFit, LessonsFit, MemoryTypeOK, FactRecords, GoalRecords,
         LessonRecords
<1>3. MemoryInv /\ TablesInv /\ [MemoryNext]_memoryVars => TablesInv'
  BY TablesStep
<1> QED BY <1>1, <1>2, <1>3, MemoryInvAlways, PTL DEF MemorySpec

-----------------------------------------------------------------------------
(* The outcalls. *)

Ledgers == [fetched : Nat, other : Nat, unchecked : Nat]

\* The two reserves, and a balance that is never negative.
MoneyFits(balance, books, last) ==
  /\ balance \in Nat /\ books \in Ledgers /\ last \in BOOLEAN
  /\ balance + books.other + books.unchecked >= ReserveFloor
  /\ last \/ balance + books.fetched + books.unchecked >= TerminalReserve

\* The reservations are in the order of the turns, but for one that came late; each has the
\* number of its turn's searches, and no live turn that searched is without.
UsageFits(u, done, this) ==
  /\ Table(u) /\ this \in OutcallTurns /\ done \in [OutcallTurns -> Nat]
  /\ \A t \in OutcallTurns : done[t] <= SearchesPerTurn /\ (t > this => done[t] = 0)
  /\ \A i \in 1..Len(u) : /\ {"turn", "count"} \subseteq DOMAIN u[i]
                          /\ u[i].turn \in 1..this /\ u[i].count \in Nat \ {0}
                          /\ u[i].count = done[u[i].turn]
  /\ \A i, j \in 1..Len(u) : i < j => u[i].turn # u[j].turn /\ u[j].turn >= u[i].turn - 1
  /\ \A t \in OutcallTurns : t >= this - 1 /\ done[t] > 0 => \E i \in 1..Len(u) : u[i].turn = t

\* An extract the runtime uses by itself worked before, or the agent wrote it.
CallFits(call, good) ==
  /\ call.size \in Nat /\ (call.stored => call.extract \in good)
  /\ {"tool", "size", "left", "extract", "stored"} \subseteq DOMAIN call

ExtractFits(point, good) ==
  /\ {"status", "failures", "extract"} \subseteq DOMAIN point
  /\ point.extract # NoExtract => point.extract \in good

OutcallInv ==
  /\ MoneyFits(cycles, ledger, terminal)
  /\ UsageFits(usage, searched, nowTurn)
  /\ ExtractFits(endpoint, vouched)
  /\ DOMAIN waiting = OutcallTurns /\ \A t \in OutcallTurns : CallFits(waiting[t], vouched)

-----------------------------------------------------------------------------

\* A payment that leaves the floor, with its margin, in the balance.
LEMMA FetchPaid ==
  ASSUME MoneyFits(cycles, ledger, terminal), NEW cost \in Nat, CanAfford(cost, ReserveFloor),
         Pay(cost, "fetched"), UNCHANGED terminal
  PROVE  MoneyFits(cycles', ledger', terminal')
<1>1. cycles >= cost + (cost * 2500) \div 10000 + ReserveFloor /\ ReserveFloor \in Nat /\ TerminalReserve \in Nat
  BY OutcallAssumption DEF CanAfford, Required
<1> DEFINE margin == (cost * 2500) \div 10000
<1>2. margin \in Nat
  OBVIOUS
<1> HIDE DEF margin
<1>3. cycles \in Nat /\ ledger.fetched \in Nat /\ ledger.other \in Nat /\ ledger.unchecked \in Nat
  BY DEF MoneyFits, Ledgers
<1>4. cycles' = cycles - cost /\ cycles' >= ReserveFloor /\ cycles' \in Nat
  BY <1>1, <1>2, <1>3 DEF Pay, margin
<1>5. ledger' = [ledger EXCEPT !.fetched = @ + cost]
  BY DEF Pay
<1>6. ledger' \in Ledgers /\ ledger'.fetched = ledger.fetched + cost
      /\ ledger'.other = ledger.other /\ ledger'.unchecked = ledger.unchecked
  BY <1>3, <1>5 DEF Ledgers, MoneyFits
<1>7. cycles' + ledger'.other + ledger'.unchecked >= ReserveFloor
  BY <1>1, <1>3, <1>4, <1>6
<1>8. cycles' + ledger'.fetched + ledger'.unchecked = cycles + ledger.fetched + ledger.unchecked
  BY <1>3, <1>4, <1>6
<1> QED BY <1>4, <1>6, <1>7, <1>8 DEF MoneyFits

\* An operation paid for after the check against its floor leaves the reserve in place.
LEMMA OtherPaid ==
  ASSUME MoneyFits(cycles, ledger, terminal), NEW cost \in Nat, CanAfford(cost, OperationFloor),
         Pay(cost, "other"), UNCHANGED terminal
  PROVE  MoneyFits(cycles', ledger', terminal')
<1>1. /\ cycles >= cost + (cost * 2500) \div 10000 + OperationFloor /\ ReserveFloor \in Nat
      /\ TerminalReserve \in Nat /\ OperationFloor \in Nat /\ (~terminal => OperationFloor = TerminalReserve)
  BY OutcallAssumption DEF CanAfford, Required, OperationFloor
<1> DEFINE margin == (cost * 2500) \div 10000
<1>2. margin \in Nat
  OBVIOUS
<1> HIDE DEF margin
<1>3. cycles \in Nat /\ ledger.fetched \in Nat /\ ledger.other \in Nat /\ ledger.unchecked \in Nat
  BY DEF MoneyFits, Ledgers
<1>4. cycles' = cycles - cost /\ cycles' >= OperationFloor /\ cycles' \in Nat
  BY <1>1, <1>2, <1>3 DEF Pay, margin
<1>5. ledger' = [ledger EXCEPT !.other = @ + cost]
  BY DEF Pay
<1>6. ledger' \in Ledgers /\ ledger'.other = ledger.other + cost
      /\ ledger'.fetched = ledger.fetched /\ ledger'.unchecked = ledger.unchecked
  BY <1>3, <1>5 DEF Ledgers, MoneyFits
<1>7. cycles' + ledger'.other + ledger'.unchecked = cycles + ledger.other + ledger.unchecked
  BY <1>3, <1>4, <1>6
<1>8. ~terminal => cycles' + ledger'.fetched + ledger'.unchecked >= TerminalReserve
  BY <1>1, <1>3, <1>4, <1>6
<1> QED BY <1>4, <1>6, <1>7, <1>8 DEF MoneyFits

\* A cost charged without a check is entered in the ledger as such.
LEMMA UncheckedPaid ==
  ASSUME MoneyFits(cycles, ledger, terminal), NEW cost \in Nat, cycles >= cost,
         Pay(cost, "unchecked"), UNCHANGED terminal
  PROVE  MoneyFits(cycles', ledger', terminal')
<1>3. cycles \in Nat /\ ledger.fetched \in Nat /\ ledger.other \in Nat /\ ledger.unchecked \in Nat
  BY DEF MoneyFits, Ledgers
<1>4. cycles' = cycles - cost /\ cycles' \in Nat
  BY <1>3 DEF Pay
<1>5. ledger' = [ledger EXCEPT !.unchecked = @ + cost]
  BY DEF Pay
<1>6. ledger' \in Ledgers /\ ledger'.unchecked = ledger.unchecked + cost
      /\ ledger'.fetched = ledger.fetched /\ ledger'.other = ledger.other
  BY <1>3, <1>5 DEF Ledgers, MoneyFits
<1>7. cycles' + ledger'.other + ledger'.unchecked = cycles + ledger.other + ledger.unchecked
  BY <1>3, <1>4, <1>6
<1>8. cycles' + ledger'.fetched + ledger'.unchecked = cycles + ledger.fetched + ledger.unchecked
  BY <1>3, <1>4, <1>6
<1> QED BY <1>4, <1>6, <1>7, <1>8 DEF MoneyFits

-----------------------------------------------------------------------------

\* A turn's reservations are its searches, if it is live.
LEMMA ReservedIsSearched ==
  ASSUME UsageFits(usage, searched, nowTurn), NEW t \in OutcallTurns, t >= nowTurn - 1
  PROVE  /\ Reserved(t) = searched[t] /\ searched[t] \in Nat
         /\ Reserved(t) > 0 <=> \E i \in 1..Len(usage) : usage[i].turn = t
<1> DEFINE mine == {i \in DOMAIN usage : usage[i].turn = t}
           pick == CHOOSE i \in mine : TRUE
<1>1. DOMAIN usage = 1..Len(usage) /\ Len(usage) \in Nat /\ searched[t] \in Nat
  BY TableDomain DEF UsageFits
<1>2. Reserved(t) = IF mine = {} THEN 0 ELSE usage[pick].count
  BY DEF Reserved
<1>3. CASE mine = {}
  <2>1. ~ \E i \in 1..Len(usage) : usage[i].turn = t
    BY <1>1, <1>3
  <2>2. ~(searched[t] > 0)
    BY <2>1 DEF UsageFits
  <2> QED BY <1>1, <1>2, <1>3, <2>1, <2>2
<1>4. CASE mine # {}
  <2>1. pick \in mine
    BY <1>4
  <2> HIDE DEF pick
  <2>2. pick \in 1..Len(usage) /\ usage[pick].turn = t
    BY <1>1, <2>1
  <2>3. usage[pick].count = searched[t] /\ usage[pick].count \in Nat \ {0}
    BY <2>2 DEF UsageFits
  <2> QED BY <1>1, <1>2, <1>4, <2>2, <2>3
<1> QED BY <1>3, <1>4

\* One more search of a live turn: its reservation counts it, and no live turn's is dropped.
LEMMA SearchReserved ==
  ASSUME UsageFits(usage, searched, nowTurn), NEW t \in OutcallTurns, Live(t),
         Reserved(t) < SearchesPerTurn
  PROVE  UsageFits(WithReservation(t), [searched EXCEPT ![t] = @ + 1], nowTurn)
<1> DEFINE done == [searched EXCEPT ![t] = @ + 1]
           n == Len(usage)
           this == nowTurn
<1>1. /\ Table(usage) /\ n \in Nat /\ DOMAIN usage = 1..n /\ this \in OutcallTurns /\ this \in Nat
      /\ searched \in [OutcallTurns -> Nat] /\ t \in Nat /\ (t = this \/ t = this - 1) /\ t >= 1
      /\ SearchesPerTurn \in Nat /\ UsageEntries \in Nat /\ UsageEntries >= 3
      /\ \A x \in OutcallTurns : x \in Nat
  BY OutcallAssumption, TableDomain DEF UsageFits, Live, OutcallTurns
<1>2. /\ done \in [OutcallTurns -> Nat]
      /\ \A x \in OutcallTurns : done[x] = IF x = t THEN searched[t] + 1 ELSE searched[x]
  BY <1>1
<1> HIDE DEF done
<1>3. /\ Reserved(t) = searched[t] /\ searched[t] \in Nat
      /\ Reserved(t) > 0 <=> \E i \in 1..n : usage[i].turn = t
  BY <1>1, ReservedIsSearched
<1>4. \A x \in OutcallTurns : done[x] <= SearchesPerTurn /\ (x > this => done[x] = 0)
  BY <1>1, <1>2, <1>3 DEF UsageFits
<1>5. \A i \in 1..n : /\ {"turn", "count"} \subseteq DOMAIN usage[i]
                      /\ usage[i].turn \in 1..this /\ usage[i].count \in Nat \ {0}
                      /\ usage[i].count = searched[usage[i].turn]
                      /\ usage[i].turn \in OutcallTurns /\ usage[i].turn \in Nat /\ usage[i].turn <= this
  <2> TAKE i \in 1..n
  <2>1. /\ {"turn", "count"} \subseteq DOMAIN usage[i]
        /\ usage[i].turn \in 1..this /\ usage[i].count \in Nat \ {0}
        /\ usage[i].count = searched[usage[i].turn]
    BY DEF UsageFits
  <2>2. this <= MaxOutcallTurns /\ MaxOutcallTurns \in Nat
    BY <1>1, OutcallAssumption DEF OutcallTurns
  <2>3. \A k \in 1..this : k \in OutcallTurns /\ k \in Nat /\ k <= this
    BY <1>1, <2>2 DEF OutcallTurns
  <2> QED BY <2>1, <2>3
<1>6. \A i, j \in 1..n : i < j => usage[i].turn # usage[j].turn /\ usage[j].turn >= usage[i].turn - 1
  BY DEF UsageFits
<1>7. \A x \in OutcallTurns : x >= this - 1 /\ searched[x] > 0 => \E i \in 1..n : usage[i].turn = x
  BY DEF UsageFits
<1>8. CASE Reserved(t) > 0
  <2> DEFINE u == WithReservation(t)
  <2>1. u = [i \in 1..n |-> IF usage[i].turn = t THEN [usage[i] EXCEPT !.count = @ + 1] ELSE usage[i]]
    BY <1>1, <1>8 DEF WithReservation
  <2>2. DOMAIN u = 1..n /\ u = [i \in 1..n |-> u[i]]
    BY <2>1
  <2>3. ASSUME NEW i \in 1..n
        PROVE  /\ {"turn", "count"} \subseteq DOMAIN u[i] /\ u[i].turn = usage[i].turn
               /\ u[i].count = IF usage[i].turn = t THEN usage[i].count + 1 ELSE usage[i].count
    <3>1. u[i] = IF usage[i].turn = t THEN [usage[i] EXCEPT !.count = @ + 1] ELSE usage[i]
      BY <2>1
    <3> HIDE DEF u
    <3> QED BY <1>5, <3>1
  <2> HIDE DEF u
  <2>4. Table(u) /\ Len(u) = n
    BY <1>1, <2>2, MappedTable
  <2>5. \A i \in 1..n : u[i].turn \in 1..this /\ u[i].count \in Nat \ {0} /\ u[i].count = done[u[i].turn]
    <3> TAKE i \in 1..n
    <3>1. CASE usage[i].turn = t
      <4>1. usage[i].count \in Nat /\ usage[i].count = searched[t] /\ u[i].turn = t
            /\ u[i].count = usage[i].count + 1 /\ done[t] = searched[t] + 1 /\ t \in 1..this
        BY <1>2, <1>5, <2>3, <3>1
      <4> QED BY <4>1
    <3>2. CASE usage[i].turn # t
      BY <1>2, <1>5, <2>3, <3>2
    <3> QED BY <3>1, <3>2
  <2>6. \A i, j \in 1..n : i < j => u[i].turn # u[j].turn /\ u[j].turn >= u[i].turn - 1
    BY <1>6, <2>3
  <2>7. \A x \in OutcallTurns : x >= this - 1 /\ done[x] > 0 => \E i \in 1..n : u[i].turn = x
    BY <1>2, <1>3, <1>7, <1>8, <2>3
  <2> QED BY <1>1, <1>2, <1>4, <2>3, <2>4, <2>5, <2>6, <2>7 DEF UsageFits, u, done
<1>9. CASE ~(Reserved(t) > 0)
  <2> DEFINE row == [turn |-> t, count |-> 1]
             longer == Append(usage, row)
             m == n + 1
  <2>1. WithReservation(t) = IF Len(longer) > UsageEntries THEN Tail(longer) ELSE longer
    BY <1>9 DEF WithReservation
  <2>2. row.turn = t /\ row.count = 1 /\ {"turn", "count"} \subseteq DOMAIN row
    OBVIOUS
  <2> HIDE DEF row
  <2>3. /\ Table(longer) /\ Len(longer) = m /\ longer[m] = row
        /\ \A i \in 1..n : longer[i] = usage[i]
    BY <1>1, AppendTable
  <2>4. searched[t] = 0 /\ \A i \in 1..n : usage[i].turn # t
    BY <1>3, <1>9
  <2> HIDE DEF longer
  <2>5. /\ done[t] = 1 /\ \A x \in OutcallTurns : x # t => done[x] = searched[x]
    BY <1>2, <2>4
  <2>6. m \in Nat /\ \A i \in 1..m : i = m \/ i \in 1..n
    BY <1>1
  <2>7. \A i \in 1..m : /\ {"turn", "count"} \subseteq DOMAIN longer[i]
                        /\ longer[i].turn \in 1..this /\ longer[i].count \in Nat \ {0}
                        /\ longer[i].count = done[longer[i].turn]
    <3> TAKE i \in 1..m
    <3>1. CASE i = m
      BY <1>1, <2>2, <2>3, <2>5, <3>1
    <3>2. CASE i \in 1..n
      BY <1>5, <2>3, <2>4, <2>5, <3>2
    <3> QED BY <2>6, <3>1, <3>2
  <2>8. \A i, j \in 1..m : i < j => longer[i].turn # longer[j].turn /\ longer[j].turn >= longer[i].turn - 1
    <3> SUFFICES ASSUME NEW i \in 1..m, NEW j \in 1..m, i < j
                 PROVE  longer[i].turn # longer[j].turn /\ longer[j].turn >= longer[i].turn - 1
      OBVIOUS
    <3>1. i \in 1..n
      BY <1>1
    <3>2. CASE j \in 1..n
      BY <1>6, <2>3, <3>1, <3>2
    <3>3. CASE j = m
      <4>1. longer[j].turn = t /\ longer[i].turn = usage[i].turn /\ usage[i].turn # t
        BY <2>2, <2>3, <2>4, <3>1, <3>3
      <4>2. usage[i].turn \in Nat /\ usage[i].turn <= this
        BY <1>5, <3>1
      <4> QED BY <1>1, <4>1, <4>2
    <3> QED BY <2>6, <3>2, <3>3
  <2>9. \A x \in OutcallTurns : x >= this - 1 /\ done[x] > 0 => \E i \in 1..m : longer[i].turn = x
    <3> SUFFICES ASSUME NEW x \in OutcallTurns, x >= this - 1, done[x] > 0
                 PROVE  \E i \in 1..m : longer[i].turn = x
      OBVIOUS
    <3>1. CASE x = t
      BY <2>2, <2>3, <2>6, <3>1
    <3>2. CASE x # t
      <4>1. PICK i \in 1..n : usage[i].turn = x
        BY <1>7, <2>5, <3>2
      <4>2. i \in 1..m
        BY <1>1
      <4> QED BY <2>3, <4>1, <4>2
    <3> QED BY <3>1, <3>2
  <2>10. CASE ~(Len(longer) > UsageEntries)
    <3>1. WithReservation(t) = longer /\ Len(longer) = m /\ Table(longer)
      BY <2>1, <2>3, <2>10
    <3> HIDE DEF m
    <3>2. UsageFits(longer, done, this)
      BY <1>1, <1>2, <1>4, <2>7, <2>8, <2>9, <3>1 DEF UsageFits
    <3> QED BY <3>1, <3>2 DEF done
  <2>11. CASE Len(longer) > UsageEntries
    <3> DEFINE u == Tail(longer)
    <3>1. m > 3
      BY <1>1, <2>3, <2>6, <2>11
    <3>2. Table(u) /\ Len(u) = n /\ \A i \in 1..n : u[i] = longer[i + 1]
      <4>1. Len(longer) > 0
        BY <2>3, <2>6, <3>1
      <4>2. Table(u) /\ Len(u) = Len(longer) - 1 /\ \A i \in 1..Len(u) : u[i] = longer[i + 1]
        BY <2>3, <4>1, TailTable
      <4>3. Len(u) = n
        BY <1>1, <2>3, <4>2
      <4> QED BY <4>2, <4>3
    <3> HIDE DEF u
    <3>3. \A i \in 1..n : i + 1 \in 1..m
      BY <1>1
    <3>4. \A i \in 1..n : /\ {"turn", "count"} \subseteq DOMAIN u[i]
                          /\ u[i].turn \in 1..this /\ u[i].count \in Nat \ {0}
                          /\ u[i].count = done[u[i].turn]
      BY <2>7, <3>2, <3>3
    <3>5. \A i, j \in 1..n : i < j => u[i].turn # u[j].turn /\ u[j].turn >= u[i].turn - 1
      <4> SUFFICES ASSUME NEW i \in 1..n, NEW j \in 1..n, i < j
                   PROVE  u[i].turn # u[j].turn /\ u[j].turn >= u[i].turn - 1
        OBVIOUS
      <4>1. i + 1 < j + 1
        BY <1>1
      <4> QED BY <2>8, <3>2, <3>3, <4>1
    \* The row dropped is of no live turn: three others, all different, would have to be among
    \* the turn before it and the two live ones.
    <3>6. longer[1].turn < this - 1
      <4>1. 1 \in 1..m /\ 2 \in 1..m /\ 3 \in 1..m /\ 4 \in 1..m
        BY <2>6, <3>1
      <4>2. \A i \in 1..m : longer[i].turn \in Nat /\ longer[i].turn <= this
        <5>1. \A k \in 1..this : k \in Nat /\ k <= this
          BY <1>1
        <5> HIDE DEF m
        <5> QED BY <2>7, <5>1
      <4>3. /\ longer[1].turn # longer[2].turn /\ longer[1].turn # longer[3].turn
            /\ longer[2].turn # longer[3].turn /\ longer[1].turn # longer[4].turn
            /\ longer[2].turn # longer[4].turn /\ longer[3].turn # longer[4].turn
            /\ longer[2].turn >= longer[1].turn - 1 /\ longer[3].turn >= longer[1].turn - 1
            /\ longer[4].turn >= longer[1].turn - 1
        BY <2>8, <4>1
      <4>4. \A a, b, c, d, k \in Nat :
              (/\ a <= k /\ b <= k /\ c <= k /\ d <= k /\ a # b /\ a # c /\ a # d /\ b # c /\ b # d /\ c # d
               /\ b >= a - 1 /\ c >= a - 1 /\ d >= a - 1) => a < k - 1
        OBVIOUS
      <4>5. /\ longer[1].turn \in Nat /\ longer[2].turn \in Nat /\ longer[3].turn \in Nat
            /\ longer[4].turn \in Nat /\ longer[1].turn <= this /\ longer[2].turn <= this
            /\ longer[3].turn <= this /\ longer[4].turn <= this
        BY <4>1, <4>2
      <4> QED BY <1>1, <4>3, <4>4, <4>5
    <3>7. \A x \in OutcallTurns : x >= this - 1 /\ done[x] > 0 => \E i \in 1..n : u[i].turn = x
      <4> SUFFICES ASSUME NEW x \in OutcallTurns, x >= this - 1, done[x] > 0
                   PROVE  \E i \in 1..n : u[i].turn = x
        OBVIOUS
      <4>1. PICK i \in 1..m : longer[i].turn = x
        BY <2>9
      <4>2. i # 1
        BY <1>1, <3>6, <4>1
      <4>3. i - 1 \in 1..n /\ (i - 1) + 1 = i
        BY <1>1, <4>2
      <4> QED BY <3>2, <4>1, <4>3
    <3>8. WithReservation(t) = u
      BY <2>1, <2>11 DEF u
    <3> QED BY <1>1, <1>2, <1>4, <3>2, <3>4, <3>5, <3>7, <3>8 DEF UsageFits, done
  <2> QED BY <2>10, <2>11
<1> QED BY <1>8, <1>9

-----------------------------------------------------------------------------

\* A step that keeps the money, the reservations and the extract; one call may change.
LEMMA OutcallKept ==
  ASSUME OutcallInv, MoneyFits(cycles', ledger', terminal'), UsageFits(usage', searched', nowTurn'),
         ExtractFits(endpoint', vouched'), vouched \subseteq vouched', NEW t \in OutcallTurns, NEW call,
         UNCHANGED waiting \/ (Waits(t, call) /\ CallFits(call, vouched'))
  PROVE  OutcallInv'
<1>1. \A x \in OutcallTurns : CallFits(waiting[x], vouched')
  BY DEF OutcallInv, CallFits
<1>2. DOMAIN waiting' = OutcallTurns /\ \A x \in OutcallTurns : CallFits(waiting'[x], vouched')
  <2>1. CASE UNCHANGED waiting
    BY <1>1, <2>1 DEF OutcallInv
  <2>2. CASE Waits(t, call) /\ CallFits(call, vouched')
    <3>1. waiting' = [waiting EXCEPT ![t] = call] /\ DOMAIN waiting = OutcallTurns
      BY <2>2 DEF Waits, OutcallInv
    <3>2. DOMAIN waiting' = OutcallTurns
          /\ \A x \in OutcallTurns : waiting'[x] = IF x = t THEN call ELSE waiting[x]
      BY <3>1
    <3> QED BY <1>1, <2>2, <3>2
  <2> QED BY <2>1, <2>2
<1> QED BY <1>2 DEF OutcallInv

\* A call at rest, and a call for which only numbers matter.
LEMMA NoCallFits ==
  /\ {"tool", "size", "left", "extract", "stored"} \subseteq DOMAIN NoCall
  /\ NoCall.size = 0 /\ NoCall.stored = FALSE
  /\ \A good : CallFits(NoCall, good)
  BY DEF NoCall, CallFits

\* A call that stores no extract vouches for nothing.
LEMMA PlainCallFits ==
  ASSUME NEW call, {"tool", "size", "left", "extract", "stored"} \subseteq DOMAIN call,
         call.size \in Nat, call.stored = FALSE
  PROVE  \A good : CallFits(call, good)
  BY DEF CallFits

\* What the invariant says now.
LEMMA OutcallFacts ==
  ASSUME OutcallInv
  PROVE  /\ MoneyFits(cycles, ledger, terminal) /\ UsageFits(usage, searched, nowTurn)
         /\ ExtractFits(endpoint, vouched) /\ \A t \in OutcallTurns : CallFits(waiting[t], vouched)
         /\ 1 \in OutcallTurns
  BY OutcallAssumption DEF OutcallInv, OutcallTurns

\* The end of a market fetch, or of another one, keeps the extract vouched for.
LEMMA ConcludesKeeps ==
  ASSUME OutcallInv, NEW t \in OutcallTurns, NEW succeeded \in BOOLEAN, Concludes(t, succeeded)
  PROVE  ExtractFits(endpoint', vouched') /\ vouched \subseteq vouched'
<1>1. CASE UNCHANGED <<endpoint, vouched>>
  BY <1>1, OutcallFacts
<1>2. CASE HandshakeSucceeds(waiting[t].extract)
  BY <1>2 DEF HandshakeSucceeds, ExtractFits
<1>3. CASE HandshakeFails
  <2>1. endpoint'.extract = endpoint.extract /\ {"status", "failures", "extract"} \subseteq DOMAIN endpoint'
        /\ vouched' = vouched
    BY <1>3, OutcallFacts DEF HandshakeFails, ExtractFits
  <2> QED BY <2>1, OutcallFacts DEF ExtractFits
<1> QED BY <1>1, <1>2, <1>3 DEF Concludes

\* A failed handshake leaves the extract of the endpoint as it was.
LEMMA HandshakeFailsKeeps ==
  ASSUME OutcallInv, HandshakeFails
  PROVE  ExtractFits(endpoint', vouched') /\ vouched \subseteq vouched'
<1>1. endpoint'.extract = endpoint.extract /\ {"status", "failures", "extract"} \subseteq DOMAIN endpoint'
      /\ vouched' = vouched
  BY OutcallFacts DEF HandshakeFails, ExtractFits
<1> QED BY <1>1, OutcallFacts DEF ExtractFits

\* A fetch that starts pays for its first size.
LEMMA StartFetchKeeps ==
  ASSUME OutcallInv, NEW t \in OutcallTurns, NEW host, StartFetch(t, host)
  PROVE  OutcallInv'
<1> DEFINE call == [NoCall EXCEPT !.tool = "http_fetch", !.size = FirstSize]
<1>1. /\ Pay(FirstSize, "fetched") /\ CanAfford(FirstSize, ReserveFloor) /\ Waits(t, call)
      /\ UNCHANGED <<endpoint, vouched, usage, searched, nowTurn, terminal>>
  BY DEF StartFetch, FetchRefused, Settings
<1>2. FirstSize \in Nat
  BY OutcallAssumption
<1>3. MoneyFits(cycles', ledger', terminal')
  BY <1>1, <1>2, OutcallFacts, FetchPaid
<1>4. call.size = FirstSize /\ call.stored = FALSE
      /\ {"tool", "size", "left", "extract", "stored"} \subseteq DOMAIN call
  BY DEF NoCall
<1> HIDE DEF call
<1>5. CallFits(call, vouched')
  BY <1>2, <1>4, PlainCallFits
<1> QED BY <1>1, <1>3, <1>5, OutcallFacts, OutcallKept

\* A market fetch that starts pays for its first size, or its handshake fails at once.
LEMMA StartMarketFetchKeeps ==
  ASSUME OutcallInv, NEW t \in OutcallTurns, NEW host, NEW own, NEW asked,
         StartMarketFetch(t, host, own, asked)
  PROVE  OutcallInv'
<1> DEFINE call == [NoCall EXCEPT !.tool = "market_fetch", !.size = FirstSize,
                           !.extract = ExtractFor(own), !.stored = (own = NoExtract)]
<1>1. UNCHANGED <<usage, searched, nowTurn, terminal>> /\ ExtractFor(own) # NoExtract
  BY DEF StartMarketFetch, Settings
<1>2. CASE FetchRefused(host, FirstSize)
  <2>1. HandshakeFails /\ UNCHANGED <<cycles, ledger, waiting>>
    BY <1>2 DEF StartMarketFetch
  <2> QED BY <1>1, <2>1, HandshakeFailsKeeps, OutcallFacts, OutcallKept
<1>3. CASE ~FetchRefused(host, FirstSize)
  <2>1. /\ Pay(FirstSize, "fetched") /\ Waits(t, call) /\ UNCHANGED <<endpoint, vouched>>
        /\ CanAfford(FirstSize, ReserveFloor)
    BY <1>3 DEF StartMarketFetch, FetchRefused
  <2>2. FirstSize \in Nat
    BY OutcallAssumption
  <2>3. MoneyFits(cycles', ledger', terminal')
    BY <1>1, <2>1, <2>2, OutcallFacts, FetchPaid
  <2>4. /\ call.size = FirstSize /\ call.stored = (own = NoExtract) /\ call.extract = ExtractFor(own)
        /\ {"tool", "size", "left", "extract", "stored"} \subseteq DOMAIN call
    BY DEF NoCall
  <2> HIDE DEF call
  <2>5. own = NoExtract => ExtractFor(own) \in vouched
    BY <1>1, OutcallFacts DEF ExtractFor, Verified, ExtractFits
  <2>6. CallFits(call, vouched')
    BY <2>1, <2>2, <2>4, <2>5 DEF CallFits
  <2> QED BY <1>1, <2>1, <2>3, <2>6, OutcallFacts, OutcallKept
<1> QED BY <1>2, <1>3

\* A fetch that ends, answered or failed, pays nothing more.
LEMMA FetchEndsKeeps ==
  ASSUME OutcallInv, NEW t \in OutcallTurns, NEW extracted \in BOOLEAN,
         FetchReplies(t, extracted) \/ FetchFails(t)
  PROVE  OutcallInv'
<1>1. /\ Waits(t, NoCall) /\ UNCHANGED <<cycles, ledger, usage, searched, nowTurn, terminal>>
      /\ Concludes(t, extracted) \/ Concludes(t, FALSE)
  BY DEF FetchReplies, FetchFails, Answered, Settings
<1>2. ExtractFits(endpoint', vouched') /\ vouched \subseteq vouched'
  BY <1>1, ConcludesKeeps
<1> QED BY <1>1, <1>2, NoCallFits, OutcallFacts, OutcallKept

\* A fetch whose answer was too large pays again for the larger size, or ends.
LEMMA FetchTooLargeKeeps ==
  ASSUME OutcallInv, NEW t \in OutcallTurns, FetchTooLarge(t)
  PROVE  OutcallInv'
<1> DEFINE larger == Min({2 * waiting[t].size, LastSize})
           call == [waiting[t] EXCEPT !.size = larger]
<1>1. UNCHANGED <<usage, searched, nowTurn, terminal>> /\ CallFits(waiting[t], vouched)
  BY OutcallFacts DEF FetchTooLarge, Settings
<1>2. larger \in Nat
  <2>1. waiting[t].size \in Nat /\ LastSize \in Nat
    BY <1>1, OutcallAssumption DEF CallFits
  <2>2. {2 * waiting[t].size, LastSize} \in SUBSET Nat /\ {2 * waiting[t].size, LastSize} # {}
    BY <2>1
  <2> QED BY <2>2, MinIsLeast
<1>3. \/ /\ CanAfford(larger, ReserveFloor) /\ Pay(larger, "fetched") /\ Waits(t, call)
         /\ UNCHANGED <<endpoint, vouched>>
      \/ Waits(t, NoCall) /\ Concludes(t, FALSE) /\ UNCHANGED <<cycles, ledger>>
  BY DEF FetchTooLarge, RetryAffordable, Answered
<1> HIDE DEF larger
<1>4. CASE /\ CanAfford(larger, ReserveFloor) /\ Pay(larger, "fetched") /\ Waits(t, call)
           /\ UNCHANGED <<endpoint, vouched>>
  <2>1. MoneyFits(cycles', ledger', terminal')
    BY <1>1, <1>2, <1>4, OutcallFacts, FetchPaid
  <2>2. /\ call.size = larger /\ call.stored = waiting[t].stored /\ call.extract = waiting[t].extract
        /\ {"tool", "size", "left", "extract", "stored"} \subseteq DOMAIN call
    BY <1>1 DEF CallFits
  <2> HIDE DEF call
  <2>3. CallFits(call, vouched')
    BY <1>1, <1>2, <1>4, <2>2 DEF CallFits
  <2> QED BY <1>1, <1>4, <2>1, <2>3, OutcallFacts, OutcallKept
<1>5. CASE Waits(t, NoCall) /\ Concludes(t, FALSE) /\ UNCHANGED <<cycles, ledger>>
  <2>1. ExtractFits(endpoint', vouched') /\ vouched \subseteq vouched'
    BY <1>5, ConcludesKeeps
  <2> QED BY <1>1, <1>5, <2>1, NoCallFits, OutcallFacts, OutcallKept
<1> QED BY <1>3, <1>4, <1>5

\* An extract the agent writes into the facts is one it vouches for.
LEMMA AgentEditsFactsKeeps ==
  ASSUME OutcallInv, NEW status, NEW extract, AgentEditsFacts(status, extract)
  PROVE  OutcallInv'
<1>1. /\ UNCHANGED <<cycles, ledger, usage, searched, waiting, nowTurn, terminal>>
      /\ endpoint' = [endpoint EXCEPT !.status = status, !.extract = extract]
      /\ vouched' = IF extract = NoExtract THEN vouched ELSE vouched \cup {extract}
  BY DEF AgentEditsFacts, Settings
<1>2. endpoint'.extract = extract /\ {"status", "failures", "extract"} \subseteq DOMAIN endpoint'
  BY <1>1, OutcallFacts DEF ExtractFits
<1>3. ExtractFits(endpoint', vouched') /\ vouched \subseteq vouched'
  BY <1>1, <1>2 DEF ExtractFits
<1> QED BY <1>1, <1>3, OutcallFacts, OutcallKept

\* A search that starts is paid for and entered in the usage of its turn.
LEMMA StartSearchKeeps ==
  ASSUME OutcallInv, NEW t \in OutcallTurns, NEW keyed, NEW count, NEW scoped,
         StartSearch(t, keyed, count, scoped)
  PROVE  OutcallInv'
<1> DEFINE call == [NoCall EXCEPT !.tool = "web_search", !.left = Cardinality(RetryPlan(count, scoped))]
<1>1. /\ Live(t) /\ Reserved(t) < SearchesPerTurn /\ usage' = WithReservation(t)
      /\ searched' = [searched EXCEPT ![t] = @ + 1]
      /\ UNCHANGED <<endpoint, vouched, nowTurn, terminal>>
  BY DEF StartSearch, Starts, Settings
<1>2. UsageFits(usage', searched', nowTurn')
  BY <1>1, OutcallFacts, SearchReserved
<1>3. \/ CanAfford(SearchCost, ReserveFloor) /\ Pay(SearchCost, "fetched") /\ Waits(t, call)
      \/ UNCHANGED <<cycles, ledger, waiting>>
  BY DEF StartSearch
<1>4. call.size \in Nat /\ call.stored = FALSE
      /\ {"tool", "size", "left", "extract", "stored"} \subseteq DOMAIN call
  BY DEF NoCall
<1> HIDE DEF call
<1>5. CallFits(call, vouched')
  BY <1>4, PlainCallFits
<1>6. CASE CanAfford(SearchCost, ReserveFloor) /\ Pay(SearchCost, "fetched") /\ Waits(t, call)
  <2>1. MoneyFits(cycles', ledger', terminal')
    BY <1>1, <1>6, OutcallAssumption, OutcallFacts, FetchPaid
  <2> QED BY <1>1, <1>2, <1>5, <1>6, <2>1, OutcallFacts, OutcallKept
<1>7. CASE UNCHANGED <<cycles, ledger, waiting>>
  BY <1>1, <1>2, <1>7, OutcallFacts, OutcallKept
<1> QED BY <1>3, <1>6, <1>7

\* A call that ends with nothing to record.
LEMMA CallEndsKeeps ==
  ASSUME OutcallInv, NEW t \in OutcallTurns, SearchEnds(t) \/ CallReplies(t) \/ CallLapses(t)
  PROVE  OutcallInv'
<1>1. /\ Waits(t, NoCall)
      /\ UNCHANGED <<cycles, ledger, endpoint, vouched, usage, searched, nowTurn, terminal>>
  BY DEF SearchEnds, CallReplies, CallLapses, Answered, Settings
<1> QED BY <1>1, NoCallFits, OutcallFacts, OutcallKept

\* A retry of a call: its attempts left change, nothing else of it.
LEMMA AttemptFits ==
  ASSUME OutcallInv, NEW t \in OutcallTurns, NEW left
  PROVE  CallFits([waiting[t] EXCEPT !.left = left], vouched)
<1>1. CallFits(waiting[t], vouched)
  BY OutcallFacts
<1> DEFINE old == waiting[t]
<1> HIDE DEF old
<1>2. CallFits(old, vouched) => CallFits([old EXCEPT !.left = left], vouched)
  BY DEF CallFits
<1> QED BY <1>1, <1>2 DEF old

\* A search whose answer was too large pays again for the larger size.
LEMMA SearchTooLargeKeeps ==
  ASSUME OutcallInv, NEW t \in OutcallTurns, SearchTooLarge(t)
  PROVE  OutcallInv'
<1> DEFINE call == [waiting[t] EXCEPT !.left = @ - 1]
<1>1. /\ CanAfford(SearchCost, ReserveFloor) /\ Pay(SearchCost, "fetched") /\ Waits(t, call)
      /\ UNCHANGED <<endpoint, vouched, usage, searched, nowTurn, terminal>>
  BY DEF SearchTooLarge, Settings
<1>2. CallFits(call, vouched)
  BY AttemptFits
<1> HIDE DEF call
<1>3. MoneyFits(cycles', ledger', terminal')
  BY <1>1, OutcallAssumption, OutcallFacts, FetchPaid
<1> QED BY <1>1, <1>2, <1>3, OutcallFacts, OutcallKept

\* A signing or RPC operation is paid for after the check against its floor.
LEMMA StartOperationKeeps ==
  ASSUME OutcallInv, NEW t \in OutcallTurns, StartRpc(t) \/ StartSign(t)
  PROVE  OutcallInv'
<1> DEFINE rpc == [NoCall EXCEPT !.tool = "rpc", !.left = 1]
           sign == [NoCall EXCEPT !.tool = "sign"]
<1>1. /\ UNCHANGED <<endpoint, vouched, usage, searched, nowTurn, terminal>>
      /\ \/ CanAfford(RpcCost, OperationFloor) /\ Pay(RpcCost, "other") /\ Waits(t, rpc)
         \/ CanAfford(SignCost, OperationFloor) /\ Pay(SignCost, "other") /\ Waits(t, sign)
  BY DEF StartRpc, StartSign, Settings
<1>2. /\ rpc.size \in Nat /\ rpc.stored = FALSE /\ sign.size \in Nat /\ sign.stored = FALSE
      /\ {"tool", "size", "left", "extract", "stored"} \subseteq DOMAIN rpc
      /\ {"tool", "size", "left", "extract", "stored"} \subseteq DOMAIN sign
  BY DEF NoCall
<1> HIDE DEF rpc, sign
<1>3. CallFits(rpc, vouched') /\ CallFits(sign, vouched')
  BY <1>2, PlainCallFits
<1>4. MoneyFits(cycles', ledger', terminal')
  BY <1>1, OutcallAssumption, OutcallFacts, OtherPaid
<1> QED BY <1>1, <1>3, <1>4, OutcallFacts, OutcallKept

\* The fallback of an RPC call is charged without a second check.
LEMMA RpcFallsBackKeeps ==
  ASSUME OutcallInv, NEW t \in OutcallTurns, RpcFallsBack(t)
  PROVE  OutcallInv'
<1> DEFINE call == [waiting[t] EXCEPT !.left = 0]
<1>1. /\ cycles >= RpcCost /\ Pay(RpcCost, "unchecked") /\ Waits(t, call)
      /\ UNCHANGED <<endpoint, vouched, usage, searched, nowTurn, terminal>>
  BY DEF RpcFallsBack, Settings
<1>2. CallFits(call, vouched)
  BY AttemptFits
<1> HIDE DEF call
<1>3. MoneyFits(cycles', ledger', terminal')
  BY <1>1, OutcallAssumption, OutcallFacts, UncheckedPaid
<1> QED BY <1>1, <1>2, <1>3, OutcallFacts, OutcallKept

\* A canister call moves no cycles of the ledger.
LEMMA StartCanisterCallKeeps ==
  ASSUME OutcallInv, NEW t \in OutcallTurns, StartCanisterCall(t)
  PROVE  OutcallInv'
<1> DEFINE call == [NoCall EXCEPT !.tool = "canister_call"]
<1>1. /\ Waits(t, call)
      /\ UNCHANGED <<cycles, ledger, endpoint, vouched, usage, searched, nowTurn, terminal>>
  BY DEF StartCanisterCall, Settings
<1>2. call.size \in Nat /\ call.stored = FALSE
      /\ {"tool", "size", "left", "extract", "stored"} \subseteq DOMAIN call
  BY DEF NoCall
<1> HIDE DEF call
<1>3. CallFits(call, vouched')
  BY <1>2, PlainCallFits
<1> QED BY <1>1, <1>3, OutcallFacts, OutcallKept

\* The next turn has searched for nothing yet, and the one before the last is no longer live.
LEMMA NextOutcallTurnKeeps ==
  ASSUME OutcallInv, NextOutcallTurn
  PROVE  OutcallInv'
<1>1. /\ nowTurn < MaxOutcallTurns /\ nowTurn' = nowTurn + 1
      /\ UNCHANGED <<cycles, ledger, endpoint, vouched, usage, searched, waiting, terminal>>
  BY DEF NextOutcallTurn
<1>2. /\ UsageFits(usage, searched, nowTurn) /\ nowTurn \in Nat /\ nowTurn \in OutcallTurns
      /\ MaxOutcallTurns \in Nat /\ searched \in [OutcallTurns -> Nat] /\ \A x \in OutcallTurns : x \in Nat
  BY OutcallFacts, OutcallAssumption DEF UsageFits, OutcallTurns
<1> DEFINE next == nowTurn + 1
<1>3. next \in OutcallTurns /\ next \in Nat /\ \A k \in 1..nowTurn : k \in 1..next
  BY <1>1, <1>2 DEF OutcallTurns
<1>4. \A x \in OutcallTurns : searched[x] <= SearchesPerTurn /\ (x > next => searched[x] = 0)
  BY <1>2 DEF UsageFits
<1>5. \A x \in OutcallTurns : x >= next - 1 /\ searched[x] > 0 => \E i \in 1..Len(usage) : usage[i].turn = x
  <2>1. \A x \in OutcallTurns : x >= next - 1 => x >= nowTurn - 1
    BY <1>2
  <2> QED BY <1>2, <2>1 DEF UsageFits
<1> HIDE DEF next
<1>6. UsageFits(usage, searched, next)
  BY <1>2, <1>3, <1>4, <1>5 DEF UsageFits
<1> QED BY <1>1, <1>6, OutcallFacts, OutcallKept DEF next

\* Settings, the terminal turn, and what is burned.
LEMMA OutcallRestKeeps ==
  ASSUME OutcallInv,
         (\E domains \in SUBSET Hosts, grant \in BOOLEAN : SetAllowed(domains, grant))
           \/ BeginTerminal \/ BurnCycles
  PROVE  OutcallInv'
<1>1. UNCHANGED <<endpoint, vouched, usage, searched, waiting, nowTurn>>
  BY DEF SetAllowed, BeginTerminal, BurnCycles, Settings
<1>2. CASE UNCHANGED <<cycles, ledger>> /\ (UNCHANGED terminal \/ terminal' = TRUE)
  <2>1. MoneyFits(cycles', ledger', terminal')
    <3>1. MoneyFits(cycles, ledger, terminal) => MoneyFits(cycles, ledger, TRUE)
      BY DEF MoneyFits
    <3> QED BY <1>2, <3>1, OutcallFacts
  <2> QED BY <1>1, <2>1, OutcallFacts, OutcallKept
<1>3. CASE cycles > 0 /\ Pay(1, "unchecked") /\ UNCHANGED terminal
  <2>1. cycles >= 1 /\ 1 \in Nat
    BY <1>3, OutcallFacts DEF MoneyFits
  <2>2. MoneyFits(cycles', ledger', terminal')
    BY <1>3, <2>1, OutcallFacts, UncheckedPaid
  <2> QED BY <1>1, <2>2, OutcallFacts, OutcallKept
<1> QED BY <1>2, <1>3 DEF SetAllowed, BeginTerminal, BurnCycles, Settings

\* The initial balance covers both reserves.
LEMMA OutcallStart == OutcallInit => OutcallInv
<1> SUFFICES ASSUME OutcallInit PROVE OutcallInv
  OBVIOUS
<1>1. MoneyFits(cycles, ledger, terminal)
  <2>1. /\ cycles = FirstCycles /\ terminal = FALSE /\ ledger \in Ledgers
        /\ ledger.fetched = 0 /\ ledger.other = 0 /\ ledger.unchecked = 0
    BY DEF OutcallInit, Ledgers
  <2>2. /\ FirstCycles \in Nat /\ FirstCycles + 0 + 0 = FirstCycles
        /\ FirstCycles >= ReserveFloor /\ FirstCycles >= TerminalReserve
    BY OutcallAssumption
  <2>3. /\ cycles + ledger.other + ledger.unchecked = FirstCycles
        /\ cycles + ledger.fetched + ledger.unchecked = FirstCycles
    BY <2>1, <2>2
  <2>4. cycles \in Nat /\ terminal \in BOOLEAN
    BY <2>1, <2>2
  <2> QED BY <2>1, <2>2, <2>3, <2>4, Zenon DEF MoneyFits
<1>2. Table(usage) /\ Len(usage) = 0
  BY DEF OutcallInit, Table
<1>3. 1 \in OutcallTurns /\ searched \in [OutcallTurns -> Nat] /\ \A t \in OutcallTurns : searched[t] = 0
  BY OutcallAssumption DEF OutcallInit, OutcallTurns
<1>4. UsageFits(usage, searched, nowTurn)
  BY <1>2, <1>3, OutcallAssumption DEF OutcallInit, UsageFits
<1>5. ExtractFits(endpoint, vouched)
  BY DEF OutcallInit, ExtractFits
<1>6. DOMAIN waiting = OutcallTurns /\ \A t \in OutcallTurns : CallFits(waiting[t], vouched)
  BY NoCallFits DEF OutcallInit
<1> QED BY <1>1, <1>4, <1>5, <1>6 DEF OutcallInv

\* OutcallInv holds throughout.
LEMMA OutcallInvAlways == OutcallSpec => []OutcallInv
<1>1. ASSUME OutcallInv, OutcallNext
      PROVE  OutcallInv'
  <2>1. ASSUME NEW t \in OutcallTurns,
               \/ \E host \in Hosts :
                    \/ StartFetch(t, host)
                    \/ \E own \in Extracts \cup {NoExtract}, asked \in SUBSET Extracts :
                         StartMarketFetch(t, host, own, asked)
               \/ \E extracted \in BOOLEAN : FetchReplies(t, extracted)
               \/ FetchFails(t) \/ FetchTooLarge(t)
        PROVE  OutcallInv'
    BY <1>1, <2>1, StartFetchKeeps, StartMarketFetchKeeps, FetchEndsKeeps, FetchTooLargeKeeps
  <2>2. ASSUME NEW t \in OutcallTurns,
               \/ \E keyed \in BOOLEAN, count \in 1..2, scoped \in BOOLEAN :
                    StartSearch(t, keyed, count, scoped)
               \/ SearchEnds(t) \/ SearchTooLarge(t) \/ StartRpc(t) \/ RpcFallsBack(t)
               \/ StartSign(t) \/ StartCanisterCall(t) \/ CallReplies(t) \/ CallLapses(t)
        PROVE  OutcallInv'
    BY <1>1, <2>2, StartSearchKeeps, CallEndsKeeps, SearchTooLargeKeeps, StartOperationKeeps,
       RpcFallsBackKeeps, StartCanisterCallKeeps
  <2>3. CASE \E status \in {"verified", "unverified"}, extract \in Extracts \cup {NoExtract} :
               AgentEditsFacts(status, extract)
    BY <1>1, <2>3, AgentEditsFactsKeeps
  <2> QED BY <1>1, <2>1, <2>2, <2>3, NextOutcallTurnKeeps, OutcallRestKeeps DEF OutcallNext
<1>2. ASSUME OutcallInv, UNCHANGED outcallVars
      PROVE  OutcallInv'
  BY <1>2 DEF OutcallInv, outcallVars
<1> QED BY OutcallStart, <1>1, <1>2, PTL DEF OutcallSpec

\* However the calls of two overlapping turns interleave, the reserves are kept from checked
\* spending, no turn exceeds its searches, and an extract filled in is vouched for.
THEOREM OutcallsPaidForAlways == OutcallSpec => []OutcallsPaidFor
<1>1. OutcallInv => OutcallsPaidFor
  BY DEF OutcallInv, OutcallsPaidFor, MoneyFits, UsageFits, CallFits
<1> QED BY <1>1, OutcallInvAlways, PTL

\* Nothing but a payment changes the balance, so that it never grows; a response is never
\* asked for beyond the largest size, and the table of reservations stays within its entries.
EndpointStatuses == {"unverified", "verified", "stale"}

OutcallLimits ==
  /\ cycles <= FirstCycles /\ endpoint.status \in EndpointStatuses
  /\ \A t \in OutcallTurns : waiting[t].size <= LastSize
  /\ Len(usage) <= UsageEntries

\* Cycles are kept or paid.
Spends == cycles' = cycles \/ \E cost \in Nat : Pay(cost, "fetched") \/ Pay(cost, "other") \/ Pay(cost, "unchecked")

\* What a step does to the limits: it pays, gives the endpoint a status, and lets a call of
\* one turn wait that asks for no more than the largest size.
LEMMA LimitsKept ==
  ASSUME OutcallInv, OutcallLimits, Spends, endpoint'.status \in EndpointStatuses,
         Len(usage') <= UsageEntries, NEW t \in OutcallTurns, NEW call, call.size <= LastSize,
         UNCHANGED waiting \/ Waits(t, call)
  PROVE  OutcallLimits'
<1>1. cycles' <= FirstCycles
  <2>1. cycles \in Nat /\ FirstCycles \in Nat /\ cycles <= FirstCycles
    BY OutcallAssumption, OutcallFacts DEF MoneyFits, OutcallLimits
  <2>2. CASE cycles' = cycles
    BY <2>1, <2>2
  <2>3. CASE cycles' # cycles
    <3>1. PICK cost \in Nat : cycles' = cycles - cost
      BY <2>3 DEF Spends, Pay
    <3> QED BY <2>1, <3>1
  <2> QED BY <2>2, <2>3
<1>2. \A x \in OutcallTurns : waiting'[x].size <= LastSize
  <2>1. CASE UNCHANGED waiting
    BY <2>1 DEF OutcallLimits
  <2>2. CASE Waits(t, call)
    <3>1. DOMAIN waiting = OutcallTurns /\ waiting' = [waiting EXCEPT ![t] = call]
      BY <2>2 DEF OutcallInv, Waits
    <3>2. \A x \in OutcallTurns : waiting'[x] = IF x = t THEN call ELSE waiting[x]
      BY <3>1
    <3> QED BY <3>2 DEF OutcallLimits
  <2> QED BY <2>1, <2>2
<1> QED BY <1>1, <1>2 DEF OutcallLimits

\* The statuses a handshake gives.
LEMMA HandshakeStatus ==
  ASSUME OutcallInv, OutcallLimits,
         UNCHANGED endpoint \/ HandshakeFails \/ \E extract : HandshakeSucceeds(extract)
  PROVE  endpoint'.status \in EndpointStatuses
<1>1. endpoint.status \in EndpointStatuses /\ {"status", "failures", "extract"} \subseteq DOMAIN endpoint
  BY OutcallFacts DEF OutcallLimits, ExtractFits
<1>2. CASE UNCHANGED endpoint
  BY <1>1, <1>2
<1>3. CASE HandshakeFails
  <2> DEFINE status == IF endpoint.failures + 1 >= StaleAfter THEN "stale" ELSE endpoint.status
  <2>1. endpoint' = [endpoint EXCEPT !.failures = endpoint.failures + 1, !.status = status]
    BY <1>3 DEF HandshakeFails
  <2>2. status \in EndpointStatuses
    BY <1>1 DEF EndpointStatuses
  <2> HIDE DEF status
  <2>3. endpoint'.status = status
    BY <1>1, <2>1
  <2> QED BY <2>2, <2>3
<1>4. CASE \E extract : HandshakeSucceeds(extract)
  BY <1>4 DEF HandshakeSucceeds, EndpointStatuses
<1> QED BY <1>2, <1>3, <1>4

\* A fetch asks for the first size, then for twice as much, never for more than the last.
LEMMA FetchLimits ==
  ASSUME OutcallInv, OutcallLimits, NEW t \in OutcallTurns, NEW host, NEW own, NEW asked,
         NEW extracted,
         \/ StartFetch(t, host) \/ StartMarketFetch(t, host, own, asked)
         \/ FetchReplies(t, extracted) \/ FetchFails(t) \/ FetchTooLarge(t)
  PROVE  OutcallLimits'
<1> DEFINE larger == Min({2 * waiting[t].size, LastSize})
           first == [NoCall EXCEPT !.tool = "http_fetch", !.size = FirstSize]
           market == [NoCall EXCEPT !.tool = "market_fetch", !.size = FirstSize,
                           !.extract = ExtractFor(own), !.stored = (own = NoExtract)]
           retry == [waiting[t] EXCEPT !.size = larger]
<1>1. CallFits(waiting[t], vouched) /\ waiting[t].size \in Nat /\ LastSize \in Nat /\ FirstSize \in Nat
      /\ FirstSize <= LastSize
  BY OutcallFacts, OutcallAssumption DEF CallFits
<1>2. larger \in Nat /\ larger <= LastSize
  <2>1. {2 * waiting[t].size, LastSize} \in SUBSET Nat /\ {2 * waiting[t].size, LastSize} # {}
    BY <1>1
  <2> QED BY <2>1, MinIsLeast
<1>3. UNCHANGED usage /\ Len(usage) <= UsageEntries
  BY DEF StartFetch, StartMarketFetch, FetchReplies, FetchFails, FetchTooLarge, OutcallLimits
<1>4. Spends
  <2> HIDE DEF larger
  <2>1. \/ UNCHANGED cycles \/ Pay(FirstSize, "fetched") \/ Pay(larger, "fetched")
    BY DEF StartFetch, StartMarketFetch, FetchReplies, FetchFails, FetchTooLarge, larger
  <2> QED BY <1>1, <1>2, <2>1 DEF Spends
<1>5. endpoint'.status \in EndpointStatuses
  <2>1. UNCHANGED endpoint \/ HandshakeFails \/ HandshakeSucceeds(waiting[t].extract)
    BY DEF StartFetch, StartMarketFetch, FetchReplies, FetchFails, FetchTooLarge, Concludes
  <2> QED BY <2>1, HandshakeStatus
<1>6. UNCHANGED waiting \/ Waits(t, first) \/ Waits(t, market) \/ Waits(t, NoCall) \/ Waits(t, retry)
  BY DEF StartFetch, StartMarketFetch, FetchReplies, FetchFails, FetchTooLarge, Answered
<1>7. first.size = FirstSize /\ market.size = FirstSize /\ NoCall.size = 0
  BY DEF NoCall
<1> HIDE DEF larger, first, market
<1>8. retry.size = larger
  BY <1>1 DEF CallFits
<1> HIDE DEF retry
<1>9. first.size <= LastSize /\ market.size <= LastSize /\ NoCall.size <= LastSize /\ retry.size <= LastSize
  BY <1>1, <1>2, <1>7, <1>8
<1> QED BY <1>3, <1>4, <1>5, <1>6, <1>9, LimitsKept

\* The oldest reservation gives way when the table is full.
LEMMA ReservationFits ==
  ASSUME OutcallInv, OutcallLimits, NEW t
  PROVE  Len(WithReservation(t)) <= UsageEntries
<1> DEFINE new == [turn |-> t, count |-> 1]
           longer == Append(usage, new)
           n == Len(usage)
<1>1. Table(usage) /\ n \in Nat /\ DOMAIN usage = 1..n /\ n <= UsageEntries /\ UsageEntries \in Nat
      /\ UsageEntries >= 3
  BY OutcallFacts, TableDomain, OutcallAssumption DEF UsageFits, OutcallLimits
<1>2. CASE Reserved(t) > 0
  <2> DEFINE f == [i \in 1..n |->
                IF usage[i].turn = t THEN [usage[i] EXCEPT !.count = @ + 1] ELSE usage[i]]
  <2>1. WithReservation(t) = f
    BY <1>1, <1>2 DEF WithReservation
  <2>2. DOMAIN f = 1..n /\ f = [i \in 1..n |-> f[i]]
    OBVIOUS
  <2> HIDE DEF f, n
  <2>3. Len(f) = n
    BY <1>1, <2>2, MappedTable
  <2> QED BY <1>1, <2>1, <2>3
<1>3. CASE ~ (Reserved(t) > 0)
  <2>1. WithReservation(t) = IF Len(longer) > UsageEntries THEN Tail(longer) ELSE longer
    BY <1>3 DEF WithReservation
  <2> HIDE DEF new
  <2>2. PICK S : usage \in Seq(S)
    BY <1>1 DEF Table
  <2>3. longer \in Seq(S \cup {new}) /\ Len(longer) = n + 1 /\ longer # <<>>
    <3>1. usage \in Seq(S \cup {new})
      BY <2>2
    <3> QED BY <3>1, AppendProperties
  <2> HIDE DEF longer
  <2>4. Len(Tail(longer)) = n
    BY <1>1, <2>3
  <2> QED BY <1>1, <2>1, <2>3, <2>4
<1> QED BY <1>2, <1>3

\* A search and the other calls ask for no response of a size of their own.
LEMMA CallLimits ==
  ASSUME OutcallInv, OutcallLimits, NEW t \in OutcallTurns, NEW keyed, NEW count, NEW scoped,
         \/ StartSearch(t, keyed, count, scoped)
         \/ SearchEnds(t) \/ SearchTooLarge(t) \/ StartRpc(t) \/ RpcFallsBack(t)
         \/ StartSign(t) \/ StartCanisterCall(t) \/ CallReplies(t) \/ CallLapses(t)
  PROVE  OutcallLimits'
<1> DEFINE search == [NoCall EXCEPT !.tool = "web_search",
                           !.left = Cardinality(RetryPlan(count, scoped))]
           rpc == [NoCall EXCEPT !.tool = "rpc", !.left = 1]
           sign == [NoCall EXCEPT !.tool = "sign"]
           call == [NoCall EXCEPT !.tool = "canister_call"]
           again == [waiting[t] EXCEPT !.left = @ - 1]
           last == [waiting[t] EXCEPT !.left = 0]
<1>1. /\ CallFits(waiting[t], vouched) /\ waiting[t].size \in Nat /\ waiting[t].size <= LastSize
      /\ LastSize \in Nat /\ SearchCost \in Nat /\ RpcCost \in Nat /\ SignCost \in Nat
  BY OutcallFacts, OutcallAssumption DEF CallFits, OutcallLimits
<1>2. UNCHANGED endpoint
  BY DEF StartSearch, SearchEnds, SearchTooLarge, StartRpc, RpcFallsBack, StartSign,
         StartCanisterCall, CallReplies, CallLapses
<1>3. endpoint'.status \in EndpointStatuses
  BY <1>2 DEF OutcallLimits
<1>4. UNCHANGED usage \/ usage' = WithReservation(t)
  BY DEF StartSearch, SearchEnds, SearchTooLarge, StartRpc, RpcFallsBack, StartSign,
         StartCanisterCall, CallReplies, CallLapses
<1>5. Len(usage') <= UsageEntries
  BY <1>4, ReservationFits DEF OutcallLimits
<1>6. \/ UNCHANGED cycles \/ Pay(SearchCost, "fetched") \/ Pay(RpcCost, "other")
      \/ Pay(RpcCost, "unchecked") \/ Pay(SignCost, "other")
  BY DEF StartSearch, SearchEnds, SearchTooLarge, StartRpc, RpcFallsBack, StartSign,
         StartCanisterCall, CallReplies, CallLapses
<1>7. Spends
  BY <1>1, <1>6 DEF Spends
<1>8. \/ UNCHANGED waiting \/ Waits(t, search) \/ Waits(t, NoCall) \/ Waits(t, again)
      \/ Waits(t, rpc) \/ Waits(t, last) \/ Waits(t, sign) \/ Waits(t, call)
  BY DEF StartSearch, SearchEnds, SearchTooLarge, StartRpc, RpcFallsBack, StartSign,
         StartCanisterCall, CallReplies, CallLapses, Answered
<1>9. search.size = 0 /\ NoCall.size = 0 /\ rpc.size = 0 /\ sign.size = 0 /\ call.size = 0
  BY DEF NoCall
<1>10. again.size = waiting[t].size /\ last.size = waiting[t].size
  <2> DEFINE old == waiting[t]
  <2> HIDE DEF old
  <2>1. \A left : [old EXCEPT !.left = left].size = old.size
    BY <1>1 DEF CallFits, old
  <2> QED BY <2>1 DEF old
<1> HIDE DEF search, rpc, sign, call, again, last
<1>11. /\ search.size <= LastSize /\ NoCall.size <= LastSize /\ rpc.size <= LastSize
       /\ sign.size <= LastSize /\ call.size <= LastSize /\ again.size <= LastSize
       /\ last.size <= LastSize
  BY <1>1, <1>9, <1>10
<1> QED BY <1>3, <1>5, <1>7, <1>8, <1>11, LimitsKept

\* OutcallLimits is inductive beside OutcallInv.
LEMMA OutcallLimitsStep ==
  ASSUME OutcallInv, OutcallLimits, [OutcallNext]_outcallVars
  PROVE  OutcallLimits'
<1>1. CASE \E t \in OutcallTurns :
             \/ \E host \in Hosts :
                  \/ StartFetch(t, host)
                  \/ \E own \in Extracts \cup {NoExtract}, asked \in SUBSET Extracts :
                       StartMarketFetch(t, host, own, asked)
             \/ \E extracted \in BOOLEAN : FetchReplies(t, extracted)
             \/ FetchFails(t) \/ FetchTooLarge(t)
  BY <1>1, FetchLimits
<1>2. CASE \E t \in OutcallTurns :
             \/ \E keyed \in BOOLEAN, count \in 1..2, scoped \in BOOLEAN :
                  StartSearch(t, keyed, count, scoped)
             \/ SearchEnds(t) \/ SearchTooLarge(t) \/ StartRpc(t) \/ RpcFallsBack(t)
             \/ StartSign(t) \/ StartCanisterCall(t) \/ CallReplies(t) \/ CallLapses(t)
  BY <1>2, CallLimits
<1>3. Len(usage) <= UsageEntries /\ endpoint.status \in EndpointStatuses /\ 1 \in OutcallTurns
      /\ NoCall.size <= LastSize
  BY OutcallFacts, NoCallFits, OutcallAssumption DEF OutcallLimits
<1>4. CASE \E status \in {"verified", "unverified"}, extract \in Extracts \cup {NoExtract} :
             AgentEditsFacts(status, extract)
  <2>1. PICK status \in {"verified", "unverified"}, extract \in Extracts \cup {NoExtract} :
          AgentEditsFacts(status, extract)
    BY <1>4
  <2>2. /\ endpoint' = [endpoint EXCEPT !.status = status, !.extract = extract]
        /\ UNCHANGED <<cycles, usage, waiting>>
    BY <2>1 DEF AgentEditsFacts
  <2>3. endpoint'.status = status
    BY <2>2, OutcallFacts DEF ExtractFits
  <2>4. Spends /\ endpoint'.status \in EndpointStatuses /\ Len(usage') <= UsageEntries
    BY <1>3, <2>2, <2>3 DEF Spends, EndpointStatuses
  <2> QED BY <1>3, <2>2, <2>4, LimitsKept
<1>5. CASE \/ \E domains \in SUBSET Hosts, grant \in BOOLEAN : SetAllowed(domains, grant)
           \/ NextOutcallTurn \/ BeginTerminal \/ BurnCycles \/ UNCHANGED outcallVars
  <2>1. UNCHANGED <<endpoint, usage, waiting>> /\ (UNCHANGED cycles \/ Pay(1, "unchecked"))
    BY <1>5 DEF SetAllowed, NextOutcallTurn, BeginTerminal, BurnCycles, outcallVars
  <2>2. Spends /\ endpoint'.status \in EndpointStatuses /\ Len(usage') <= UsageEntries
    BY <1>3, <2>1 DEF Spends
  <2> QED BY <1>3, <2>1, <2>2, LimitsKept
<1> QED BY <1>1, <1>2, <1>4, <1>5 DEF OutcallNext

\* The balance stays between zero and what it was at first, no response is asked for beyond the
\* largest size, and no more reservations than fit are kept, for costs, sizes and turns of any size
\* (features/http_fetch, reserve_web_search_budget).
THEOREM OutcallTyped == OutcallSpec => []OutcallTypeOK
<1>1. OutcallInit => OutcallLimits
  <2> SUFFICES ASSUME OutcallInit PROVE OutcallLimits
    OBVIOUS
  <2>1. cycles <= FirstCycles /\ Len(usage) <= UsageEntries
    BY OutcallAssumption DEF OutcallInit
  <2>2. endpoint.status \in EndpointStatuses
    BY DEF OutcallInit, EndpointStatuses
  <2>3. \A t \in OutcallTurns : waiting[t].size <= LastSize
    BY NoCallFits, OutcallAssumption DEF OutcallInit
  <2> QED BY <2>1, <2>2, <2>3 DEF OutcallLimits
<1>2. OutcallInv /\ OutcallLimits /\ [OutcallNext]_outcallVars => OutcallLimits'
  BY OutcallLimitsStep
<1>3. OutcallInv /\ OutcallLimits => OutcallTypeOK
  <2> SUFFICES ASSUME OutcallInv, OutcallLimits PROVE OutcallTypeOK
    OBVIOUS
  <2>1. cycles \in 0..FirstCycles
    BY OutcallFacts, OutcallAssumption DEF MoneyFits, OutcallLimits
  <2>2. \A t \in OutcallTurns : waiting[t].size \in 0..LastSize
    BY OutcallFacts, OutcallAssumption DEF CallFits, OutcallLimits
  <2>3. nowTurn \in OutcallTurns
    BY OutcallFacts DEF UsageFits
  <2> QED BY <2>1, <2>2, <2>3 DEF OutcallTypeOK, OutcallLimits, EndpointStatuses
<1> QED BY <1>1, <1>2, <1>3, OutcallInvAlways, PTL DEF OutcallSpec

-----------------------------------------------------------------------------
(* The tool rounds. *)

\* Recording the calls of a round one after the other is well defined.
LEMMA RecordDefined ==
  ASSUME NEW m, NEW plan, NEW result, Len(plan) \in Nat
  PROVE  /\ RecordFirst(m, plan, result)[0] = m
         /\ \A n \in 1..Len(plan) :
              RecordFirst(m, plan, result)[n]
                = RecordCall(RecordFirst(m, plan, result)[n - 1], plan[n], result[n])
<1> DEFINE L == Len(plan)
           Step(f, n) == IF n = 0 THEN m ELSE RecordCall(f[n - 1], plan[n], result[n])
           Good(k, f) == f = [n \in 0..k |-> Step(f, n)]
           S == {k \in Nat : ~ \E f : Good(k, f)}
<1>1. S = {}
  <2> SUFFICES ASSUME S # {} PROVE FALSE
    OBVIOUS
  <2>1. PICK x \in S : \A y \in S : x <= y
    BY LeastNat
  <2>2. x \in Nat /\ ~ \E f : Good(x, f)
    BY <2>1
  <2>3. x # 0
    <3>1. Good(0, [n \in 0..0 |-> m])
      OBVIOUS
    <3> QED BY <2>2, <3>1
  <2>4. x - 1 \in Nat /\ x - 1 \notin S
    <3>1. x - 1 \in Nat /\ ~ (x <= x - 1)
      BY <2>2, <2>3
    <3> HIDE DEF S
    <3> QED BY <2>1, <3>1
  <2>5. PICK f : Good(x - 1, f)
    BY <2>4
  <2> DEFINE g == [n \in 0..x |-> Step(f, n)]
  <2>6. \A n \in 0 .. x - 1 : g[n] = f[n]
    <3>1. \A n \in 0 .. x - 1 : f[n] = Step(f, n)
      BY <2>5
    <3>2. \A n \in 0 .. x - 1 : n \in 0..x
      BY <2>2
    <3> HIDE DEF Step
    <3> QED BY <3>1, <3>2
  <2>7. \A n \in 0..x : Step(g, n) = Step(f, n)
    <3>1. \A n \in 0..x : n # 0 => n - 1 \in 0 .. x - 1
      BY <2>2
    <3>2. \A n \in 0..x : n # 0 => g[n - 1] = f[n - 1]
      BY <2>6, <3>1
    <3> HIDE DEF g
    <3> QED BY <3>2
  <2>8. Good(x, g)
    <3> HIDE DEF Step
    <3> QED BY <2>7
  <2> QED BY <2>2, <2>8
<1>2. \E f : Good(L, f)
  BY <1>1
<1>3. RecordFirst(m, plan, result) = CHOOSE f : Good(L, f)
  BY DEF RecordFirst
<1>4. Good(L, RecordFirst(m, plan, result))
  <2> HIDE DEF Good
  <2> QED BY <1>2, <1>3
<1> DEFINE h == RecordFirst(m, plan, result)
<1>5. \A n \in 0..L : h[n] = Step(h, n)
  <2> HIDE DEF Step, h
  <2> QED BY <1>4 DEF h
<1>6. 0 \in 0..L /\ \A n \in 1..L : n \in 0..L /\ n # 0
  OBVIOUS
<1> HIDE DEF h
<1> QED BY <1>5, <1>6 DEF h

\* The successes remembered: after the first n calls those of these calls are remembered with
\* the time t, the others as before.
OksAfter(m, x, plan, result, n, t) ==
  /\ x.ok \in [ToolCalls -> Nat]
  /\ x = [ok |-> x.ok, failed |-> x.failed]
  /\ \A c \in ToolCalls :
       x.ok[c] = IF \E i \in 1..n : plan[i] = c /\ result[i] = "ok" THEN t ELSE m.ok[c]

\* One more call.
LEMMA RecordOne ==
  ASSUME NEW m, NEW x, NEW plan \in Seq(ToolCalls), NEW result, NEW n \in 1..Len(plan), now \in Nat,
         OksAfter(m, x, plan, result, n - 1, now)
  PROVE  OksAfter(m, RecordCall(x, plan[n], result[n]), plan, result, n, now)
<1> DEFINE c == plan[n]
           y == RecordCall(x, c, result[n])
<1>1. c \in ToolCalls /\ Len(plan) \in Nat
  BY LenProperties, ElementOfSeq
<1>2. x.ok \in [ToolCalls -> Nat] /\ x = [ok |-> x.ok, failed |-> x.failed]
  BY DEF OksAfter
<1> HIDE DEF c
<1>3. /\ y = [ok |-> y.ok, failed |-> y.failed]
      /\ y.ok = IF result[n] = "ok" THEN [x.ok EXCEPT ![c] = now] ELSE x.ok
  <2>1. CASE result[n] = "ok"
    BY <2>1 DEF RecordCall, RecordOutcome
  <2>2. CASE result[n] # "ok" /\ result[n] \in ToolErrors
    <3> DEFINE z == RecordOutcome(x, c, result[n])
    <3>1. y = z
      BY <2>2 DEF RecordCall
    <3>2. z = [ok |-> z.ok, failed |-> z.failed] /\ z.ok = x.ok
      BY <1>2, <2>2 DEF RecordOutcome
    <3> QED BY <2>2, <3>1, <3>2
  <2>3. CASE result[n] \notin ToolErrors \cup {"ok"}
    BY <1>2, <2>3 DEF RecordCall
  <2> QED BY <2>1, <2>2, <2>3
<1>4. y.ok \in [ToolCalls -> Nat]
  BY <1>1, <1>2, <1>3
<1>5. \A i : i \in 1..n <=> i \in 1 .. n - 1 \/ i = n
  BY <1>1
<1> HIDE DEF y
<1>6. \A d \in ToolCalls : y.ok[d] = IF \E i \in 1..n : plan[i] = d /\ result[i] = "ok" THEN now ELSE m.ok[d]
  BY <1>1, <1>2, <1>3, <1>5 DEF OksAfter, c
<1>7. OksAfter(m, y, plan, result, n, now)
  BY <1>3, <1>4, <1>6 DEF OksAfter
<1> QED BY <1>7 DEF y, c

\* All calls: by the least number of calls for which it would fail.
LEMMA RecordedAll ==
  ASSUME NEW m, m.ok \in [ToolCalls -> Nat], m = [ok |-> m.ok, failed |-> m.failed],
         NEW plan \in Seq(ToolCalls), NEW result, now \in Nat
  PROVE  OksAfter(m, RecordAll(m, plan, result), plan, result, Len(plan), now)
<1> DEFINE L == Len(plan)
           F == RecordFirst(m, plan, result)
           P(n) == OksAfter(m, F[n], plan, result, n, now)
           S == {n \in Nat : n <= L /\ ~ P(n)}
<1>1. L \in Nat
  BY LenProperties
<1>2. F[0] = m /\ \A n \in 1..L : F[n] = RecordCall(F[n - 1], plan[n], result[n])
  BY <1>1, RecordDefined
<1> HIDE DEF F
<1>3. P(0)
  BY <1>2 DEF OksAfter
<1>4. S = {}
  <2> SUFFICES ASSUME S # {} PROVE FALSE
    OBVIOUS
  <2>1. PICK n \in S : \A k \in S : n <= k
    BY LeastNat
  <2>2. n \in Nat /\ n <= L /\ ~ P(n)
    BY <2>1
  <2>3. n # 0
    BY <1>3, <2>2
  <2>4. n \in 1..L /\ n - 1 \in Nat /\ n - 1 <= L /\ ~ (n <= n - 1)
    BY <1>1, <2>2, <2>3
  <2>5. P(n - 1)
    <3> HIDE DEF P
    <3> QED BY <2>1, <2>4
  <2>6. P(n)
    BY <1>2, <2>4, <2>5, RecordOne
  <2> QED BY <2>2, <2>6
<1>5. P(L)
  <2> HIDE DEF P
  <2> QED BY <1>1, <1>4
<1> QED BY <1>5 DEF RecordAll, F

-----------------------------------------------------------------------------
Verdicts == {"suppressed", "capped", "restricted", "blocked", "execute"}
Outcomes == Verdicts \cup {"ok", "malformed", "outcall", "internal"}

\* A round is a record with these fields.
IsRound(r) ==
  r = [pc |-> r.pc, external |-> r.external, periodic |-> r.periodic, scope |-> r.scope,
       started |-> r.started, number |-> r.number, plan |-> r.plan, verdict |-> r.verdict,
       result |-> r.result, calls |-> r.calls, transfers |-> r.transfers, mark |-> r.mark,
       counts |-> r.counts, capped |-> r.capped, repeated |-> r.repeated]

\* A plan has a verdict on every call and results for the first of them, and only an executed
\* call comes to "ok".
PlanOk(plan, verdict, result) ==
  /\ plan \in Seq(ToolCalls) /\ result \in Seq(Outcomes) /\ Len(result) <= Len(plan)
  /\ verdict \in [1..Len(plan) -> Verdicts]
  /\ \A i \in 1..Len(result) : result[i] = "ok" => verdict[i] = "execute"

\* What the first round of an autonomous turn executes was not deduplicated by the memo m.
FreshOk(m, r) ==
  FirstAutonomousRound(r) =>
    \A i \in 1..Len(r.plan) :
      r.verdict[i] = "execute" /\ ~ IsConfigRecall(r.plan[i]) =>
        ~ (m.ok[r.plan[i]] # 0 /\ r.started - m.ok[r.plan[i]] < DedupeWindow)

\* A recorded success is the one the memo has.
MemoOk(m, last) ==
  /\ m.ok \in [ToolCalls -> Nat] /\ m = [ok |-> m.ok, failed |-> m.failed]
  /\ last \in [ToolCalls -> [at : Nat, recorded : BOOLEAN]]
  /\ \A c \in ToolCalls : last[c].recorded => last[c].at # 0 /\ m.ok[c] = last[c].at

\* The terminal turn counts at least the transfers it attempted.
BequestsOk(r, b) ==
  /\ b \in Nat /\ b <= MaxBequests /\ r.transfers \in Nat
  /\ r.scope = "Terminal" => b <= r.transfers

RoundInv ==
  /\ IsRound(round) /\ PlanOk(round.plan, round.verdict, round.result) /\ FreshOk(memo, round)
  /\ MemoOk(memo, lastRun) /\ now \in Nat \ {0}
  /\ BequestsOk(round, bequests) /\ round.calls \in Nat /\ round.repeated = {}

\* A round that is not under way is as it should be.
LEMMA IdleRound ==
  ASSUME NEW r, IsRound(r), r.plan = <<>>, r.verdict = <<>>, r.result = <<>>
  PROVE  PlanOk(r.plan, r.verdict, r.result) /\ \A m : FreshOk(m, r)
<1>1. <<>> \in Seq(ToolCalls) /\ <<>> \in Seq(Outcomes) /\ Len(<<>>) = 0
  OBVIOUS
<1>2. <<>> \in [1..0 -> Verdicts] /\ 1..0 = {}
  OBVIOUS
<1> QED BY <1>1, <1>2 DEF PlanOk, FreshOk

\* Between turns.
LEMMA NoRoundIsOk ==
  ASSUME NEW b, b \in Nat /\ b <= MaxBequests
  PROVE  /\ IsRound(NoRound) /\ PlanOk(NoRound.plan, NoRound.verdict, NoRound.result)
         /\ \A m : FreshOk(m, NoRound)
         /\ BequestsOk(NoRound, b) /\ NoRound.calls \in Nat /\ NoRound.repeated = {}
<1>1. /\ IsRound(NoRound) /\ NoRound.plan = <<>> /\ NoRound.verdict = <<>> /\ NoRound.result = <<>>
      /\ NoRound.transfers = 0 /\ NoRound.scope = "Full" /\ NoRound.calls = 0 /\ NoRound.repeated = {}
  BY DEF IsRound, NoRound
<1> QED BY <1>1, IdleRound DEF BequestsOk

\* Nothing is planned at first.
LEMMA RoundInit == ToolInit => RoundInv
<1> SUFFICES ASSUME ToolInit PROVE RoundInv
  OBVIOUS
<1>1. round = NoRound /\ bequests = 0 /\ now = 1 /\ MaxBequests \in Nat
  BY RoundsAssumption DEF ToolInit
<1>2. MemoOk(memo, lastRun)
  BY DEF ToolInit, MemoOk
<1>3. /\ IsRound(NoRound) /\ PlanOk(NoRound.plan, NoRound.verdict, NoRound.result)
      /\ FreshOk(memo, NoRound) /\ BequestsOk(NoRound, 0) /\ NoRound.calls \in Nat /\ NoRound.repeated = {}
  BY <1>1, NoRoundIsOk
<1> QED BY <1>1, <1>2, <1>3 DEF RoundInv

\* The turn ends, and what is remembered may have been updated.
LEMMA RoundEnds ==
  ASSUME RoundInv, round' = NoRound, UNCHANGED <<bequests, now>>, MemoOk(memo', lastRun')
  PROVE  RoundInv'
<1>1. bequests \in Nat /\ bequests <= MaxBequests /\ now \in Nat \ {0}
  BY DEF RoundInv, BequestsOk
<1>2. /\ IsRound(NoRound) /\ PlanOk(NoRound.plan, NoRound.verdict, NoRound.result)
      /\ FreshOk(memo', NoRound)
      /\ BequestsOk(NoRound, bequests) /\ NoRound.calls \in Nat /\ NoRound.repeated = {}
  BY <1>1, NoRoundIsOk
<1> HIDE DEF NoRound
<1>3. RoundInv'
  BY <1>1, <1>2 DEF RoundInv
<1> QED BY <1>3

\* A terminal turn begins before any transfer.
LEMMA TurnBeginsKeepsRound ==
  ASSUME RoundInv, NEW external, NEW periodic, NEW scope, ToolTurnBegins(external, periodic, scope)
  PROVE  RoundInv'
<1>1. /\ IsRound(round') /\ round'.plan = <<>> /\ round'.verdict = <<>> /\ round'.result = <<>>
      /\ round'.transfers = 0 /\ round'.scope = scope /\ round'.calls = 0 /\ round'.repeated = {}
  BY DEF ToolTurnBegins, NoRound, IsRound
<1>2. PlanOk(round'.plan, round'.verdict, round'.result) /\ FreshOk(memo, round')
  BY <1>1, IdleRound
<1>3. UNCHANGED <<memo, now, lastRun, bequests>> /\ (scope = "Terminal" => bequests = 0)
  BY DEF ToolTurnBegins
<1>4. BequestsOk(round', bequests)
  BY <1>1, <1>3 DEF BequestsOk, RoundInv
<1> QED BY <1>1, <1>2, <1>3, <1>4 DEF RoundInv

\* The smaller of two numbers.
LEMMA MinOfTwo ==
  ASSUME NEW a \in Nat, NEW b \in Nat
  PROVE  Min({a, b}) \in Nat /\ Min({a, b}) <= a
<1>1. \E x \in {a, b} : \A y \in {a, b} : x <= y
  <2>1. CASE a <= b
    BY <2>1
  <2>2. CASE b <= a
    BY <2>2
  <2> QED BY <2>1, <2>2
<1>2. Min({a, b}) \in {a, b} /\ \A y \in {a, b} : Min({a, b}) <= y
  BY <1>1 DEF Min
<1> QED BY <1>2

\* What is to be executed was not deduplicated.
LEMMA PlannedKeepsRound ==
  ASSUME RoundInv, NEW n \in 1..PlanLength, NEW calls \in [1..n -> ToolCalls], RoundPlanned(calls)
  PROVE  RoundInv'
<1> DEFINE k == Min({Len(calls), ToolBudget - round.calls})
           plan == SubSeq(calls, 1, k)
           r == [round EXCEPT !.number = @ + 1]
           verdict == [i \in 1..Len(plan) |-> Verdict(r, plan, i)]
           mark == Marks(r, plan)[Len(plan)]
<1>1. n \in Nat /\ calls \in Seq(ToolCalls) /\ Len(calls) = n
  BY RoundsAssumption
<1>2. ToolBudget - round.calls \in Nat
  BY RoundsAssumption DEF RoundPlanned, RoundInv
<1>3. k \in Nat /\ k <= Len(calls)
  BY <1>1, <1>2, MinOfTwo
<1> HIDE DEF k
<1>4. plan \in Seq(ToolCalls) /\ Len(plan) \in Nat
  BY <1>1, <1>3, LenProperties
<1>5. round' = [r EXCEPT !.pc = "run", !.plan = plan, !.result = <<>>, !.verdict = verdict, !.mark = mark]
  BY DEF RoundPlanned, k
<1> HIDE DEF plan, verdict, mark
<1>6. /\ IsRound(round') /\ round'.plan = plan /\ round'.verdict = verdict /\ round'.result = <<>>
      /\ round'.transfers = round.transfers /\ round'.scope = round.scope /\ round'.calls = round.calls
      /\ round'.repeated = round.repeated /\ round'.started = round.started
      /\ round'.number = round.number + 1 /\ round'.periodic = round.periodic
      /\ round'.external = round.external
      /\ r.started = round.started
      /\ r.number = round.number + 1 /\ r.periodic = round.periodic /\ r.external = round.external
  BY <1>5 DEF RoundInv, IsRound
<1> HIDE DEF r
<1>7. \A i \in 1..Len(plan) : Verdict(r, plan, i) \in Verdicts
  BY DEF Verdict, Verdicts
<1>8. PlanOk(plan, verdict, <<>>)
  <2>1. verdict \in [1..Len(plan) -> Verdicts]
    BY <1>7 DEF verdict
  <2>2. <<>> \in Seq(Outcomes) /\ Len(<<>>) = 0 /\ 1..0 = {}
    OBVIOUS
  <2> QED BY <1>4, <2>1, <2>2 DEF PlanOk
<1>9. \A i \in 1..Len(plan) : verdict[i] = "execute" => ~ Suppressed(r, plan[i])
  BY DEF verdict, Verdict
<1>10. FreshOk(memo, round')
  BY <1>6, <1>9 DEF FreshOk, Suppressed, FirstAutonomousRound, Deduped
<1>11. UNCHANGED <<memo, now, lastRun, bequests>>
  BY DEF RoundPlanned
<1>12. BequestsOk(round', bequests)
  BY <1>6 DEF BequestsOk, RoundInv
<1> QED BY <1>6, <1>8, <1>10, <1>11, <1>12 DEF RoundInv

\* A call of the plan under way, and its recorded success.
LEMMA NothingRepeats ==
  ASSUME RoundInv, NEW i \in 1..Len(round.plan)
  PROVE  ~ Repeats(i)
<1> SUFFICES ASSUME Repeats(i) PROVE FALSE
  OBVIOUS
<1> DEFINE c == round.plan[i]
<1>1. c \in ToolCalls
  BY ElementOfSeq DEF RoundInv, PlanOk
<1>2. lastRun[c].recorded /\ round.started - lastRun[c].at < DedupeWindow
  BY DEF Repeats
<1>3. memo.ok[c] = lastRun[c].at /\ memo.ok[c] # 0
  BY <1>1, <1>2 DEF RoundInv, MemoOk
<1> QED BY <1>2, <1>3 DEF Repeats, RoundInv, FreshOk

\* The next call: a success is not recorded yet, and a transfer is counted.
LEMMA RunCallKeepsRound ==
  ASSUME RoundInv, RunCall
  PROVE  RoundInv'
<1> DEFINE i == Len(round.result) + 1
           c == round.plan[i]
           more == IF c[1] = "send_eth" /\ round.verdict[i] = "execute" THEN 1 ELSE 0
<1>1. PICK out \in CallResults(i) :
        /\ round' = [round EXCEPT !.result = Append(@, out), !.transfers = @ + more,
                        !.repeated = IF Repeats(i) THEN @ \cup {c} ELSE @]
        /\ lastRun' = IF out = "ok" THEN [lastRun EXCEPT ![c] = [at |-> now, recorded |-> FALSE]]
                      ELSE lastRun
  BY DEF RunCall
<1>2. /\ i <= Len(round.plan) /\ UNCHANGED <<memo, now>>
      /\ bequests' = bequests + (IF TerminalTransfer(i) /\ round.verdict[i] = "execute" /\ ~Gated(i)
                                 THEN 1 ELSE 0)
  BY DEF RunCall
<1>3. /\ round.plan \in Seq(ToolCalls) /\ round.result \in Seq(Outcomes)
      /\ Len(round.plan) \in Nat /\ Len(round.result) \in Nat
      /\ round.verdict \in [1..Len(round.plan) -> Verdicts]
      /\ \A j \in 1..Len(round.result) : round.result[j] = "ok" => round.verdict[j] = "execute"
  BY LenProperties DEF RoundInv, PlanOk
<1>4. i \in 1..Len(round.plan)
  BY <1>2, <1>3
<1>5. c \in ToolCalls /\ ~ Repeats(i)
  BY <1>3, <1>4, ElementOfSeq, NothingRepeats
<1>6. out \in Outcomes /\ (out = "ok" => round.verdict[i] = "execute")
  <2>1. round.verdict[i] \in Verdicts
    BY <1>3, <1>4
  <2>2. \/ out = round.verdict[i] /\ round.verdict[i] # "execute"
        \/ round.verdict[i] = "execute" /\ out \in {"ok", "malformed", "outcall", "internal"}
    BY DEF CallResults, ToolErrors
  <2> HIDE DEF i
  <2>3. "ok" \notin Verdicts
    BY DEF Verdicts
  <2> QED BY <2>1, <2>2, <2>3 DEF Outcomes
<1> HIDE DEF i, c, more
<1> DEFINE res == Append(round.result, out)
<1>7. /\ IsRound(round') /\ round'.plan = round.plan /\ round'.verdict = round.verdict
      /\ round'.result = res /\ round'.transfers = round.transfers + more
      /\ round'.scope = round.scope /\ round'.calls = round.calls /\ round'.repeated = round.repeated
      /\ round'.started = round.started /\ round'.number = round.number
      /\ round'.periodic = round.periodic /\ round'.external = round.external
  BY <1>1, <1>5 DEF RoundInv, IsRound
<1>8. PlanOk(round.plan, round.verdict, res)
  <2>1. res \in Seq(Outcomes) /\ Len(res) = i
    BY <1>3, <1>6 DEF i
  <2>2. \A j \in 1..i : j \in 1..Len(round.result) \/ j = i
    BY <1>3 DEF i
  <2>3. \A j \in 1..Len(round.result) : res[j] = round.result[j]
    BY <1>3, <1>6
  <2>4. res[i] = out
    BY <1>3, <1>6 DEF i
  <2> HIDE DEF res
  <2>5. \A j \in 1..i : res[j] = "ok" => round.verdict[j] = "execute"
    BY <1>3, <1>6, <2>2, <2>3, <2>4
  <2> QED BY <1>2, <1>3, <2>1, <2>5 DEF PlanOk
<1>9. FreshOk(memo', round')
  BY <1>2, <1>7 DEF RoundInv, FreshOk, FirstAutonomousRound
<1>10. MemoOk(memo', lastRun')
  BY <1>1, <1>2, <1>5 DEF RoundInv, MemoOk
<1>11. BequestsOk(round', bequests')
  <2>1. /\ bequests \in Nat /\ bequests <= MaxBequests /\ round.transfers \in Nat
        /\ round.scope = "Terminal" => bequests <= round.transfers
    BY DEF RoundInv, BequestsOk
  <2>2. MaxBequests \in Nat
    BY RoundsAssumption
  <2>3. CASE TerminalTransfer(i) /\ round.verdict[i] = "execute" /\ ~Gated(i)
    <3>1. bequests' = bequests + 1 /\ round.scope = "Terminal" /\ more = 1
      BY <1>2, <2>3 DEF TerminalTransfer, ToolAt, more, c
    <3>2. ~ (round.transfers >= MaxBequests)
      BY <2>3 DEF Gated
    <3> QED BY <1>7, <2>1, <2>2, <3>1, <3>2 DEF BequestsOk
  <2>4. CASE ~ (TerminalTransfer(i) /\ round.verdict[i] = "execute" /\ ~Gated(i))
    <3>1. bequests' = bequests /\ more \in Nat
      BY <1>2, <2>1, <2>4 DEF more
    <3> QED BY <1>7, <2>1, <3>1 DEF BequestsOk
  <2> QED BY <2>3, <2>4
<1> HIDE DEF res
<1> QED BY <1>2, <1>7, <1>8, <1>9, <1>10, <1>11 DEF RoundInv

\* The successes of an autonomous round are remembered with the time they are recorded at, all
\* of them and no other.
LEMMA RecordedKeepsMemo ==
  ASSUME RoundInv, RoundRecorded
  PROVE  MemoOk(memo', lastRun')
<1> DEFINE ran(c) == \E i \in Executed : round.plan[i] = c /\ round.result[i] = "ok"
<1>1. /\ Len(round.result) = Len(round.plan) /\ UNCHANGED now
      /\ memo' = IF ~round.external THEN RecordAll(memo, round.plan, round.result) ELSE memo
      /\ lastRun' = [c \in ToolCalls |-> IF ~round.external /\ ran(c)
                                         THEN [at |-> now, recorded |-> TRUE] ELSE lastRun[c]]
  BY DEF RoundRecorded
<1>2. \A c : ran(c) <=> \E i \in 1..Len(round.plan) : round.plan[i] = c /\ round.result[i] = "ok"
  BY <1>1 DEF Executed, RoundInv, PlanOk
<1>3. /\ now \in Nat \ {0} /\ memo.ok \in [ToolCalls -> Nat]
      /\ memo = [ok |-> memo.ok, failed |-> memo.failed]
      /\ lastRun \in [ToolCalls -> [at : Nat, recorded : BOOLEAN]]
      /\ \A c \in ToolCalls : lastRun[c].recorded => lastRun[c].at # 0 /\ memo.ok[c] = lastRun[c].at
      /\ round.plan \in Seq(ToolCalls)
  BY DEF RoundInv, MemoOk, PlanOk
<1> HIDE DEF ran
<1>4. CASE round.external
  <2>1. \A c \in ToolCalls : lastRun'[c] = lastRun[c]
    BY <1>1, <1>4
  <2>2. lastRun' = lastRun /\ memo' = memo
    BY <1>1, <1>3, <1>4, <2>1
  <2> QED BY <2>2 DEF RoundInv
<1>5. CASE ~ round.external
  <2>1. OksAfter(memo, memo', round.plan, round.result, Len(round.plan), now)
    BY <1>1, <1>3, <1>5, RecordedAll
  <2>2. \A c \in ToolCalls : memo'.ok[c] = IF ran(c) THEN now ELSE memo.ok[c]
    BY <1>2, <2>1 DEF OksAfter
  <2>3. \A c \in ToolCalls : lastRun'[c] = IF ran(c) THEN [at |-> now, recorded |-> TRUE] ELSE lastRun[c]
    BY <1>1, <1>5
  <2>4. lastRun' \in [ToolCalls -> [at : Nat, recorded : BOOLEAN]]
    BY <1>1, <1>3
  <2>5. memo'.ok \in [ToolCalls -> Nat] /\ memo' = [ok |-> memo'.ok, failed |-> memo'.failed]
    BY <2>1 DEF OksAfter
  <2>6. ASSUME NEW c \in ToolCalls, lastRun'[c].recorded
        PROVE  lastRun'[c].at # 0 /\ memo'.ok[c] = lastRun'[c].at
    <3>1. CASE ran(c)
      BY <1>3, <2>2, <2>3, <3>1
    <3>2. CASE ~ ran(c)
      BY <1>3, <2>2, <2>3, <2>6, <3>2
    <3> QED BY <3>1, <3>2
  <2> QED BY <2>4, <2>5, <2>6 DEF MemoOk
<1> QED BY <1>4, <1>5

\* The round is over; suppressed transfers are counted as well.
LEMMA RecordedKeepsRound ==
  ASSUME RoundInv, RoundRecorded
  PROVE  RoundInv'
<1>1. MemoOk(memo', lastRun') /\ UNCHANGED <<bequests, now>>
  BY RecordedKeepsMemo DEF RoundRecorded
<1>2. CASE round' = NoRound
  BY <1>1, <1>2, RoundEnds
<1>3. CASE round' # NoRound
  <2> DEFINE more == Cardinality({i \in DOMAIN round.plan \ Executed : ToolAt(i) = "send_eth"})
  <2>1. PICK counts, capped :
          round' = [round EXCEPT !.pc = "infer", !.counts = counts, !.capped = capped,
                          !.calls = @ + Len(round.plan), !.plan = <<>>, !.verdict = <<>>,
                          !.result = <<>>, !.repeated = {}, !.transfers = @ + more]
    BY <1>3 DEF RoundRecorded
  <2>2. more \in Nat /\ Len(round.plan) \in Nat
    <3>1. round.plan \in Seq(ToolCalls) /\ Len(round.plan) \in Nat /\ DOMAIN round.plan = 1..Len(round.plan)
      BY LenProperties DEF RoundInv, PlanOk
    <3>2. IsFiniteSet(1..Len(round.plan))
      BY <3>1, FS_Interval
    <3>3. IsFiniteSet({i \in DOMAIN round.plan \ Executed : ToolAt(i) = "send_eth"})
      BY <3>1, <3>2, FS_Subset
    <3> QED BY <3>1, <3>3, FS_CardinalityType
  <2> HIDE DEF more
  <2>3. /\ IsRound(round') /\ round'.plan = <<>> /\ round'.verdict = <<>> /\ round'.result = <<>>
        /\ round'.transfers = round.transfers + more /\ round'.scope = round.scope
        /\ round'.calls = round.calls + Len(round.plan) /\ round'.repeated = {}
    BY <2>1 DEF RoundInv, IsRound
  <2>4. PlanOk(round'.plan, round'.verdict, round'.result) /\ FreshOk(memo', round')
    BY <2>3, IdleRound
  <2>5. BequestsOk(round', bequests) /\ round'.calls \in Nat
    BY <2>2, <2>3 DEF RoundInv, BequestsOk
  <2> QED BY <1>1, <2>3, <2>4, <2>5 DEF RoundInv
<1> QED BY <1>2, <1>3

\* RoundInv is inductive.
LEMMA RoundStep == RoundInv /\ [ToolNext]_toolVars => RoundInv'
<1> SUFFICES ASSUME RoundInv, [ToolNext]_toolVars PROVE RoundInv'
  OBVIOUS
<1>1. CASE \E k \in TurnKinds : ToolTurnBegins(k[1], k[2], k[3])
  BY <1>1, TurnBeginsKeepsRound
<1>2. CASE \E n \in 1..PlanLength : \E calls \in [1..n -> ToolCalls] : RoundPlanned(calls)
  BY <1>2, PlannedKeepsRound
<1>3. CASE ToolTurnEnds \/ RoundDropped
  <2>1. round' = NoRound /\ UNCHANGED <<memo, lastRun, bequests, now>>
    BY <1>3 DEF ToolTurnEnds, RoundDropped
  <2>2. MemoOk(memo', lastRun')
    BY <2>1 DEF RoundInv
  <2> QED BY <2>1, <2>2, RoundEnds
<1>4. CASE RunCall
  BY <1>4, RunCallKeepsRound
<1>5. CASE RoundRecorded
  BY <1>5, RecordedKeepsRound
<1>6. CASE ToolClock
  <2>1. now' \in Nat \ {0} /\ UNCHANGED <<memo, round, lastRun, bequests>>
    BY <1>6 DEF ToolClock, RoundInv
  <2> QED BY <2>1 DEF RoundInv
<1>7. CASE UNCHANGED toolVars
  BY <1>7 DEF toolVars, RoundInv
<1> QED BY <1>1, <1>2, <1>3, <1>4, <1>5, <1>6, <1>7 DEF ToolNext

\* The invariant of the rounds always holds.
LEMMA RoundInvAlways == ToolSpec => []RoundInv
  BY RoundInit, RoundStep, PTL DEF ToolSpec

\* The first round of an autonomous turn never repeats a success that was recorded within the
\* deduplication window, and the terminal turn never attempts more transfers than
\* MAX_TERMINAL_BEQUESTS, for any calls, budgets and windows.
THEOREM RepeatOnlyIfForgottenAlways == ToolSpec => []RepeatOnlyIfForgotten
<1>1. RoundInv => RepeatOnlyIfForgotten
  BY DEF RoundInv, BequestsOk, RepeatOnlyIfForgotten
<1> QED BY <1>1, RoundInvAlways, PTL

\* What is remembered of a failure: its class, and a cooldown that ends within the bound.
TrackerOk(t) ==
  /\ t.error \in ToolErrors \cup {"none"}
  /\ t.until \in Nat /\ t.until <= MaxTicks + FailureCooldown

FailedOk(f) == DOMAIN f = Trackers /\ \A k \in Trackers : TrackerOk(f[k])

\* The calls of a round under way are within the budget of the turn together with those before,
\* and only tools that there are reach the cap.
RoundLimits ==
  /\ \A c \in ToolCalls : memo.ok[c] \in 0..MaxTicks
  /\ FailedOk(memo.failed)
  /\ backoff \subseteq OperationClasses /\ now \in 1..MaxTicks /\ turnsRun \in 0..MaxToolTurns
  /\ round.pc \in {"none", "infer", "run"} /\ round.capped \subseteq Tools
  /\ round.calls + Len(round.plan) <= ToolBudget

\* A tracker after one more failure, and after none.
LEMMA TrackedOk ==
  ASSUME now \in 1..MaxTicks, NEW t, NEW error \in ToolErrors
  PROVE  TrackerOk(Tracked(t, error)) /\ TrackerOk(NoTracker)
<1> DEFINE n == IF t.error = error /\ now - t.last <= RepeatWindow THEN t.count + 1 ELSE 1
           u == IF n >= RepeatThreshold THEN now + FailureCooldown ELSE 0
<1>1. u \in {now + FailureCooldown, 0}
  OBVIOUS
<1>2. Tracked(t, error).error = error /\ Tracked(t, error).until = u
  BY DEF Tracked
<1> HIDE DEF u
<1>3. u \in Nat /\ u <= MaxTicks + FailureCooldown
  BY <1>1, RoundsAssumption
<1>4. NoTracker.error = "none" /\ NoTracker.until = 0 /\ MaxTicks + FailureCooldown \in Nat
  BY RoundsAssumption DEF NoTracker
<1> QED BY <1>2, <1>3, <1>4 DEF TrackerOk

\* One call recorded.
LEMMA FailureRecorded ==
  ASSUME now \in 1..MaxTicks, NEW x, x = [ok |-> x.ok, failed |-> x.failed], FailedOk(x.failed),
         NEW c, NEW result
  PROVE  FailedOk(RecordCall(x, c, result).failed)
<1> DEFINE y == RecordCall(x, c, result)
<1>1. CASE result = "ok"
  <2>1. y.failed = [k \in Trackers |-> IF k = c \/ k \in {c[1]} \X ToolErrors THEN NoTracker
                                       ELSE x.failed[k]]
    BY <1>1 DEF RecordCall, RecordOutcome
  <2>2. TrackerOk(NoTracker)
    <3>1. "internal" \in ToolErrors
      BY DEF ToolErrors
    <3> QED BY <3>1, TrackedOk
  <2> HIDE DEF y
  <2>3. DOMAIN y.failed = Trackers /\ \A k \in Trackers : y.failed[k] \in {NoTracker, x.failed[k]}
    BY <2>1
  <2>4. FailedOk(y.failed)
    BY <2>2, <2>3 DEF FailedOk
  <2> QED BY <2>4 DEF y
<1>2. CASE result # "ok" /\ result \in ToolErrors
  <2> DEFINE a == Tracked(x.failed[c], result)
             f == [x.failed EXCEPT ![c] = a]
             b == Tracked(f[<<c[1], result>>], result)
             g == [f EXCEPT ![<<c[1], result>>] = b]
  <2>1. y = [x EXCEPT !.failed[c] = Tracked(@, result), !.failed[<<c[1], result>>] = Tracked(@, result)]
    BY <1>2 DEF RecordCall, RecordOutcome
  <2>2. y.failed = g
    BY <2>1
  <2>3. TrackerOk(a) /\ TrackerOk(b)
    BY <1>2, TrackedOk
  <2> HIDE DEF a, b, y
  <2>4. DOMAIN f = Trackers /\ \A k \in Trackers : f[k] \in {a, x.failed[k]}
    BY DEF FailedOk
  <2> HIDE DEF f
  <2>5. DOMAIN g = Trackers /\ \A k \in Trackers : g[k] \in {b, f[k]}
    BY <2>4
  <2> HIDE DEF g
  <2>6. FailedOk(y.failed)
    BY <2>2, <2>3, <2>4, <2>5 DEF FailedOk
  <2> QED BY <2>6 DEF y
<1>3. CASE result \notin ToolErrors \cup {"ok"}
  BY <1>3 DEF RecordCall
<1> QED BY <1>1, <1>2, <1>3

\* All calls of a round: by the least number of calls for which it would fail.
LEMMA FailuresRecorded ==
  ASSUME now \in 1..MaxTicks, NEW m, m.ok \in [ToolCalls -> Nat],
         m = [ok |-> m.ok, failed |-> m.failed], FailedOk(m.failed),
         NEW plan \in Seq(ToolCalls), NEW result
  PROVE  FailedOk(RecordAll(m, plan, result).failed)
<1> DEFINE L == Len(plan)
           F == RecordFirst(m, plan, result)
           P(n) == FailedOk(F[n].failed) /\ OksAfter(m, F[n], plan, result, n, now)
           S == {n \in Nat : n <= L /\ ~ P(n)}
<1>1. L \in Nat /\ now \in Nat
  BY LenProperties
<1>2. F[0] = m /\ \A n \in 1..L : F[n] = RecordCall(F[n - 1], plan[n], result[n])
  BY <1>1, RecordDefined
<1> HIDE DEF F
<1>3. P(0)
  BY <1>2 DEF OksAfter
<1>4. S = {}
  <2> SUFFICES ASSUME S # {} PROVE FALSE
    OBVIOUS
  <2>1. PICK n \in S : \A k \in S : n <= k
    BY LeastNat
  <2>2. n \in Nat /\ n <= L /\ ~ P(n)
    BY <2>1
  <2>3. n # 0
    BY <1>3, <2>2
  <2>4. n \in 1..L /\ n - 1 \in Nat /\ n - 1 <= L /\ ~ (n <= n - 1)
    BY <1>1, <2>2, <2>3
  <2>5. P(n - 1)
    <3> HIDE DEF P
    <3> QED BY <2>1, <2>4
  <2>6. F[n - 1] = [ok |-> F[n - 1].ok, failed |-> F[n - 1].failed]
    BY <2>5 DEF OksAfter
  <2>7. FailedOk(F[n].failed)
    BY <1>2, <2>4, <2>5, <2>6, FailureRecorded
  <2>8. OksAfter(m, F[n], plan, result, n, now)
    BY <1>1, <1>2, <2>4, <2>5, RecordOne
  <2> QED BY <2>2, <2>7, <2>8
<1>5. P(L)
  <2> HIDE DEF P
  <2> QED BY <1>1, <1>4
<1> QED BY <1>5 DEF RecordAll, F

\* Between turns.
LEMMA NoRoundLimits ==
  /\ NoRound.pc = "none" /\ NoRound.capped \subseteq Tools
  /\ NoRound.calls + Len(NoRound.plan) <= ToolBudget
BY RoundsAssumption DEF NoRound

\* The tool of a planned call is one of the tools.
LEMMA PlannedTools ==
  ASSUME RoundInv, NEW i \in 1..Len(round.plan)
  PROVE  ToolAt(i) \in Tools
<1>1. round.plan[i] \in ToolCalls
  BY ElementOfSeq DEF RoundInv, PlanOk
<1> QED BY <1>1 DEF ToolAt, Tools

\* What the recorded round leaves behind.
LEMMA RecordedLimits ==
  ASSUME RoundInv, RoundLimits, RoundRecorded
  PROVE  RoundLimits'
<1>1. UNCHANGED <<backoff, now, turnsRun>>
      /\ memo' = IF ~round.external THEN RecordAll(memo, round.plan, round.result) ELSE memo
  BY DEF RoundRecorded
<1>2. /\ round.plan \in Seq(ToolCalls) /\ now \in Nat /\ now \in 1..MaxTicks
      /\ memo.ok \in [ToolCalls -> Nat] /\ memo = [ok |-> memo.ok, failed |-> memo.failed]
  BY DEF RoundInv, MemoOk, PlanOk, RoundLimits
<1>3. FailedOk(memo'.failed)
  BY <1>1, <1>2, FailuresRecorded DEF RoundLimits
<1>4. \A c \in ToolCalls : memo'.ok[c] \in 0..MaxTicks
  <2>1. CASE round.external
    BY <1>1, <2>1 DEF RoundLimits
  <2>2. CASE ~round.external
    <3>1. OksAfter(memo, memo', round.plan, round.result, Len(round.plan), now)
      BY <1>1, <1>2, <2>2, RecordedAll
    <3>2. \A c \in ToolCalls : memo'.ok[c] \in {now, memo.ok[c]}
      BY <3>1 DEF OksAfter
    <3>3. now \in 0..MaxTicks
      BY <1>2, RoundsAssumption
    <3> QED BY <3>2, <3>3 DEF RoundLimits
  <2> QED BY <2>1, <2>2
<1>5. CASE round' = NoRound
  BY <1>1, <1>3, <1>4, <1>5, NoRoundLimits DEF RoundLimits
<1>6. CASE round' # NoRound
  <2> DEFINE autonomous == ~round.external
             degrade == autonomous /\ FailedCalls # {} /\ \A i \in FailedCalls : Recoverable(i)
             kept == IF autonomous THEN CountsKept ELSE round.counts
             counts == IF degrade THEN Bumped(kept, FailedCalls) ELSE kept
             reached == {k[1] : k \in {k \in DOMAIN counts : degrade /\ counts[k] >= DegradeCap}}
             capped == (IF autonomous THEN round.capped \ Cleared ELSE round.capped) \cup reached
             more == Cardinality({i \in DOMAIN round.plan \ Executed : ToolAt(i) = "send_eth"})
  <2>1. round' = [round EXCEPT !.pc = "infer", !.counts = counts, !.capped = capped,
                     !.calls = @ + Len(round.plan), !.plan = <<>>, !.verdict = <<>>,
                     !.result = <<>>, !.repeated = {}, !.transfers = @ + more]
    BY <1>6 DEF RoundRecorded
  <2>2. reached \subseteq Tools
    <3>1. CASE ~degrade
      BY <3>1
    <3>2. CASE degrade
      <4>1. counts = Bumped(kept, FailedCalls)
        BY <3>2
      <4> HIDE DEF kept
      <4>2. DOMAIN counts = {<<ToolAt(i), round.result[i]>> : i \in FailedCalls}
        BY <4>1 DEF Bumped
      <4>3. \A i \in FailedCalls : i \in 1..Len(round.plan)
        BY DEF FailedCalls, Executed
      <4> HIDE DEF counts, degrade
      <4>4. \A k \in DOMAIN counts : \E i \in 1..Len(round.plan) : k[1] = ToolAt(i)
        BY <4>2, <4>3
      <4>5. \A k \in DOMAIN counts : k[1] \in Tools
        BY <4>4, PlannedTools
      <4> QED BY <4>5
    <3> QED BY <3>1, <3>2
  <2> HIDE DEF reached
  <2>3. capped \subseteq Tools
    BY <2>2 DEF RoundLimits
  <2> HIDE DEF counts, capped, more
  <2>4. /\ round'.pc = "infer" /\ round'.capped = capped /\ round'.plan = <<>>
        /\ round'.calls = round.calls + Len(round.plan)
    BY <2>1 DEF RoundInv, IsRound
  <2>5. Len(<<>>) = 0 /\ Len(round.plan) \in Nat /\ round.calls \in Nat
    BY <1>2, LenProperties DEF RoundInv
  <2>6. round'.calls + Len(round'.plan) <= ToolBudget
    BY <2>4, <2>5, RoundsAssumption DEF RoundLimits
  <2> QED BY <1>1, <1>3, <1>4, <2>3, <2>4, <2>6 DEF RoundLimits
<1> QED BY <1>5, <1>6

\* The plan takes at most what is left of the budget.
LEMMA PlannedLimits ==
  ASSUME RoundInv, RoundLimits, NEW n \in 1..PlanLength, NEW calls \in [1..n -> ToolCalls],
         RoundPlanned(calls)
  PROVE  RoundLimits'
<1> DEFINE rest == ToolBudget - round.calls
           k == Min({Len(calls), rest})
           plan == SubSeq(calls, 1, k)
           r == [round EXCEPT !.number = @ + 1]
           verdict == [i \in 1..Len(plan) |-> Verdict(r, plan, i)]
           mark == Marks(r, plan)[Len(plan)]
<1>1. n \in Nat /\ calls \in Seq(ToolCalls) /\ Len(calls) = n
  BY RoundsAssumption
<1>2. round.calls \in Nat /\ rest \in Nat
  BY RoundsAssumption DEF RoundPlanned, RoundInv
<1> HIDE DEF rest
<1>3. k \in Nat /\ k <= Len(calls) /\ k <= rest
  <2>1. k \in Nat /\ k <= Len(calls)
    BY <1>1, <1>2, MinOfTwo
  <2>2. {Len(calls), rest} = {rest, Len(calls)}
    OBVIOUS
  <2>3. k <= rest
    BY <1>1, <1>2, <2>2, MinOfTwo
  <2> QED BY <2>1, <2>3
<1>4. round' = [r EXCEPT !.pc = "run", !.plan = plan, !.result = <<>>, !.verdict = verdict, !.mark = mark]
  BY DEF RoundPlanned, k, rest
<1> HIDE DEF k
<1>5. Len(plan) = k
  BY <1>1, <1>3
<1> HIDE DEF plan, verdict, mark
<1>6. round'.pc = "run" /\ round'.plan = plan /\ round'.calls = round.calls /\ round'.capped = round.capped
  BY <1>4 DEF RoundInv, IsRound
<1>7. round'.calls + Len(round'.plan) <= ToolBudget
  <2>1. round.calls + k <= ToolBudget
    BY <1>2, <1>3, RoundsAssumption DEF rest
  <2> QED BY <1>5, <1>6, <2>1
<1>8. UNCHANGED <<memo, backoff, now, turnsRun>>
  BY DEF RoundPlanned
<1> QED BY <1>6, <1>7, <1>8 DEF RoundLimits

\* A call books the classes of its operations, and clears them.
LEMMA RunCallLimits ==
  ASSUME RoundInv, RoundLimits, RunCall
  PROVE  RoundLimits'
<1>1. \A tool : ClassesOf(tool) \subseteq OperationClasses
  BY DEF ClassesOf, OperationClasses
<1> DEFINE i == Len(round.result) + 1
<1>2. \A out : BookedOnFailure(i, out) \subseteq OperationClasses
  BY <1>1 DEF BookedOnFailure
<1> HIDE DEF i
<1>3. backoff' \subseteq OperationClasses
  BY <1>2 DEF RunCall, RoundLimits, i
<1>4. round'.pc = round.pc /\ round'.plan = round.plan /\ round'.calls = round.calls
      /\ round'.capped = round.capped
  BY DEF RunCall, RoundInv, IsRound
<1>5. UNCHANGED <<memo, now, turnsRun>>
  BY DEF RunCall
<1> QED BY <1>3, <1>4, <1>5 DEF RoundLimits

\* Every step keeps the limits.
LEMMA RoundLimitsStep ==
  ASSUME RoundInv, RoundLimits, [ToolNext]_toolVars
  PROVE  RoundLimits'
<1>1. ASSUME NEW external, NEW periodic, NEW scope, ToolTurnBegins(external, periodic, scope)
      PROVE  RoundLimits'
  <2>1. UNCHANGED <<memo, backoff, now>> /\ turnsRun < MaxToolTurns /\ turnsRun' = turnsRun + 1
    BY <1>1 DEF ToolTurnBegins
  <2>2. round'.pc = "infer" /\ round'.capped = NoRound.capped /\ round'.calls = NoRound.calls
        /\ round'.plan = NoRound.plan
    BY <1>1 DEF ToolTurnBegins, NoRound
  <2>3. turnsRun' \in 0..MaxToolTurns
    BY <2>1, RoundsAssumption DEF RoundLimits
  <2> QED BY <2>1, <2>2, <2>3, NoRoundLimits DEF RoundLimits
<1>2. ASSUME NEW n \in 1..PlanLength, NEW calls \in [1..n -> ToolCalls], RoundPlanned(calls)
      PROVE  RoundLimits'
  BY <1>2, PlannedLimits
<1>3. CASE ToolTurnEnds \/ RoundDropped
  <2>1. round' = NoRound /\ UNCHANGED <<memo, backoff, now, turnsRun>>
    BY <1>3 DEF ToolTurnEnds, RoundDropped
  <2> QED BY <2>1, NoRoundLimits DEF RoundLimits
<1>4. CASE RunCall
  BY <1>4, RunCallLimits
<1>5. CASE RoundRecorded
  BY <1>5, RecordedLimits
<1>6. CASE ToolClock
  <2>1. UNCHANGED <<memo, round, turnsRun>> /\ backoff' = {} /\ now < MaxTicks /\ now' = now + 1
    BY <1>6 DEF ToolClock
  <2>2. now' \in 1..MaxTicks
    BY <2>1, RoundsAssumption DEF RoundLimits
  <2> QED BY <2>1, <2>2 DEF RoundLimits
<1>7. CASE UNCHANGED toolVars
  BY <1>7 DEF toolVars, RoundLimits
<1> QED BY <1>1, <1>2, <1>3, <1>4, <1>5, <1>6, <1>7 DEF ToolNext

\* The calls of a turn never exceed max_tool_calls_per_turn, however its rounds share it; no
\* cooldown reaches further than its length past the last tick; and only tools and classes of
\* operations that there are are capped or backed off (the tool rounds of agent.rs).
THEOREM ToolTyped == ToolSpec => []ToolTypeOK
<1>1. ToolInit => RoundLimits
  <2> SUFFICES ASSUME ToolInit PROVE RoundLimits
    OBVIOUS
  <2>1. TrackerOk(NoTracker)
    BY RoundsAssumption DEF TrackerOk, NoTracker
  <2>2. memo.ok = [c \in ToolCalls |-> 0] /\ memo.failed = [k \in Trackers |-> NoTracker]
        /\ backoff = {} /\ now = 1 /\ round = NoRound /\ turnsRun = 0
    BY DEF ToolInit
  <2>3. FailedOk(memo.failed)
    BY <2>1, <2>2 DEF FailedOk
  <2>4. (\A c \in ToolCalls : memo.ok[c] \in 0..MaxTicks) /\ now \in 1..MaxTicks /\ turnsRun \in 0..MaxToolTurns
    BY <2>2, RoundsAssumption
  <2> QED BY <2>2, <2>3, <2>4, NoRoundLimits DEF RoundLimits
<1>2. ASSUME RoundInv, RoundLimits
      PROVE  ToolTypeOK
  <2>1. /\ round.plan \in Seq(ToolCalls) /\ Len(round.plan) \in Nat /\ round.calls \in Nat
        /\ round.verdict \in [1..Len(round.plan) -> Verdicts] /\ Len(round.result) <= Len(round.plan)
    BY <1>2, LenProperties DEF RoundInv, PlanOk
  <2>2. Len(round.verdict) = Len(round.plan)
    BY <2>1, FunctionIsSeq
  <2>3. round.calls <= ToolBudget
    BY <1>2, <2>1, RoundsAssumption DEF RoundLimits
  <2>4. \A k \in Trackers : /\ memo.failed[k].error \in ToolErrors \cup {"none"}
                            /\ memo.failed[k].until <= MaxTicks + FailureCooldown
    BY <1>2 DEF RoundLimits, FailedOk, TrackerOk
  <2> QED BY <1>2, <2>1, <2>2, <2>3, <2>4 DEF RoundLimits, ToolTypeOK
<1>3. RoundInv /\ RoundLimits /\ [ToolNext]_toolVars => RoundLimits'
  BY RoundLimitsStep
<1> QED BY <1>1, <1>2, <1>3, RoundInvAlways, PTL DEF ToolSpec
=============================================================================
