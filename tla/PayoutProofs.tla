----------------------------- MODULE PayoutProofs -----------------------------
(***************************************************************************)
(* Theorems about the factory's payouts (RefundCommand, which composes     *)
(* SpawnExecution with the chain): for any number of sessions, executions, *)
(* refund commands and canisters, and for any bounds.                      *)
(***************************************************************************)
EXTENDS RefundCommand, TableLemmas, FiniteSetTheorems, TLAPS

(***************************************************************************)
(* What has a nonce belongs to one payout.  The code keeps no table of the *)
(* owners, so the invariant says that there is one: own[n] is the kind and *)
(* the session that the cursor gave nonce n to.                            *)
(***************************************************************************)
TxOk(own, cur, tx) ==
  /\ tx.nonce \in Nat /\ tx.nonce < cur /\ tx.kind \in {"release", "refund"}
  /\ own[tx.nonce] = <<tx.kind, tx.session>>

RecOk(own, cur, rec, kind, s) ==
  \/ rec = NoRecord
  \/ /\ {"nonce", "tx", "acked"} \subseteq DOMAIN rec
     /\ rec.nonce \in Nat /\ rec.nonce < cur /\ own[rec.nonce] = <<kind, s>>
     /\ \/ rec.tx = NoTx
        \/ TxOk(own, cur, rec.tx) /\ rec.tx.kind = kind /\ rec.tx.session = s

\* own2 continues own at the nonces the cursor had not reached.
Extends(own, cur, own2, cur2) ==
  /\ cur \in Nat /\ cur2 \in Nat /\ cur <= cur2
  /\ \A n \in Nat : n < cur => own2[n] = own[n]

\* What a payout owns it still owns when another nonce is given out.
LEMMA TxGrows ==
  ASSUME NEW own, NEW cur, NEW own2, NEW cur2, Extends(own, cur, own2, cur2),
         NEW tx, TxOk(own, cur, tx)
  PROVE  TxOk(own2, cur2, tx)
BY DEF TxOk, Extends

\* So does the record of a payout.
LEMMA RecGrows ==
  ASSUME NEW own, NEW cur, NEW own2, NEW cur2, Extends(own, cur, own2, cur2),
         NEW rec, NEW kind, NEW s, RecOk(own, cur, rec, kind, s)
  PROVE  RecOk(own2, cur2, rec, kind, s)
<1>1. CASE rec = NoRecord
  BY <1>1 DEF RecOk
<1>2. CASE rec # NoRecord
  <2>1. rec.nonce < cur2 /\ own2[rec.nonce] = own[rec.nonce]
    BY <1>2 DEF RecOk, Extends
  <2>2. TxOk(own, cur, rec.tx) => TxOk(own2, cur2, rec.tx)
    BY TxGrows
  <2> QED BY <1>2, <2>1, <2>2 DEF RecOk
<1> QED BY <1>1, <1>2

(***************************************************************************)
(* Sessions, executions and commands.                                      *)
(***************************************************************************)
SessFields == {"state", "pay", "expires", "retryable", "refundable", "can", "rel", "refund"}

ExecFields == {"pc", "session", "rel", "expires", "can", "draft", "at", "keep", "action"}

CallFields == {"pc", "session", "gen", "rec", "fresh", "at"}

\* A refunded session has failed or expired, and stays so.
PayOk(r) ==
  \/ r.pay = "Paid"
  \/ r.pay = "Refunded" /\ r.state \in {"Expired", "Failed"}

SessOk(own, cur, s, r) ==
  /\ SessFields \subseteq DOMAIN r /\ PayOk(r)
  /\ RecOk(own, cur, r.rel, "release", s) /\ RecOk(own, cur, r.refund, "refund", s)

\* Where an execution is says which of its two records a node has acknowledged: a new
\* release is made only when the one of the snapshot was not.
PcOk(x) ==
  /\ x.pc \in {"nonce", "sign", "send", "sent", "confirm"} => ~ x.rel.acked
  /\ x.pc \in {"confirmOld", "resume", "rehandoff"} => x.rel.acked
  /\ x.pc \in {"sign", "send", "sent", "confirm"} <=> x.draft # NoRecord
  /\ x.pc \in {"send", "sent"} => x.draft.tx # NoTx
  /\ x.pc = "confirm" => x.draft.acked

ExecOk(own, cur, x) ==
  \/ x = Idle
  \/ /\ ExecFields \subseteq DOMAIN x /\ x.session \in Sessions /\ PcOk(x)
     /\ RecOk(own, cur, x.rel, "release", x.session)
     /\ RecOk(own, cur, x.draft, "release", x.session)

CallOk(own, cur, y) ==
  \/ y = Idle
  \/ /\ CallFields \subseteq DOMAIN y /\ y.session \in Sessions
     /\ y.pc \in {"sign", "send", "sent"} => y.rec # NoRecord
     /\ y.pc \in {"send", "sent"} => y.rec.tx # NoTx
     /\ RecOk(own, cur, y.rec, "refund", y.session)

\* The transaction tx settled its claim for good.
Settles(tx) == \E i \in 1 .. final : mined[i] = tx /\ Succeeded(i)

Shape ==
  /\ IsFiniteSet(mempool) /\ Table(mined)
  /\ final \in Nat /\ final <= Len(mined) /\ nonceCursor \in Nat
  /\ DOMAIN sess = Sessions /\ DOMAIN exec = Execs /\ DOMAIN call = Calls

Owned(own) ==
  /\ \A tx \in mempool : TxOk(own, nonceCursor, tx)
  /\ \A i \in 1 .. Len(mined) : TxOk(own, nonceCursor, mined[i])
  /\ \A s \in Sessions : SessOk(own, nonceCursor, s, sess[s])
  /\ \A e \in Execs : ExecOk(own, nonceCursor, exec[e])
  /\ \A k \in Calls : CallOk(own, nonceCursor, call[k])

\* The draft of an execution is known to nobody else until it is written.
DraftsPrivate ==
  \A e \in Execs : exec[e] # Idle /\ exec[e].draft # NoRecord =>
    /\ \A s \in Sessions : sess[s].rel.nonce # exec[e].draft.nonce
    /\ \A f \in Execs : exec[f] # Idle =>
         /\ exec[f].rel.nonce # exec[e].draft.nonce
         /\ f # e => exec[f].draft.nonce # exec[e].draft.nonce

\* The guard compares identities of drafts; what it lets through is the same record.
GuardIsExact ==
  \A e \in Execs : exec[e] # Idle /\ GuardHolds(exec[e]) =>
    exec[e].rel = sess[exec[e].session].rel

Settled ==
  /\ \A s \in Sessions :
       /\ sess[s].state = "Complete" => sess[s].rel.acked /\ Settles(sess[s].rel.tx)
       /\ sess[s].pay = "Refunded" => SettledBy(s, "refund")
  /\ \A entry \in registry : SettledBy(entry.session, "release")
  /\ \A e \in Execs : exec[e].pc = "rehandoff" => Settles(exec[e].rel.tx)

PayoutInv(own) == Shape /\ Owned(own) /\ DraftsPrivate /\ GuardIsExact /\ Settled

(***************************************************************************)
(* The chain.                                                              *)
(***************************************************************************)
\* eth_getTransactionCount answers with a number: a pool of so many transactions leaves one
\* of the next nonces free.
LEMMA PendingNonceType ==
  ASSUME IsFiniteSet(mempool), Table(mined)
  PROVE  PendingNonce \in Nat
<1> DEFINE A == Len(mined) .. Len(mined) + Cardinality(mempool)
           B == {tx.nonce : tx \in mempool}
           f == [tx \in mempool |-> tx.nonce]
<1>1. Len(mined) \in Nat /\ Cardinality(mempool) \in Nat
  BY TableDomain, FS_CardinalityType
<1>2. IsFiniteSet(B) /\ Cardinality(B) <= Cardinality(mempool) /\ Cardinality(B) \in Nat
  <2>1. f \in Surjection(mempool, B)
    BY DEF Surjection
  <2> HIDE DEF f, B
  <2> QED BY <2>1, FS_Surjection, FS_CardinalityType
<1>3. IsFiniteSet(A) /\ Cardinality(A) = Cardinality(mempool) + 1
  <2> DEFINE m == Len(mined)
             b == Len(mined) + Cardinality(mempool)
  <2>1. m \in Int /\ b \in Int /\ ~ (m > b) /\ b - m + 1 = Cardinality(mempool) + 1
    BY <1>1
  <2>2. A = m .. b
    OBVIOUS
  <2> HIDE DEF m, b, A
  <2>3. IsFiniteSet(m .. b) /\ Cardinality(m .. b) = IF m > b THEN 0 ELSE b - m + 1
    BY <2>1, FS_Interval
  <2> QED BY <2>1, <2>2, <2>3
<1>4. A \ B # {}
  <2> SUFFICES ASSUME A \subseteq B PROVE FALSE
    OBVIOUS
  <2> HIDE DEF A, B
  <2>1. Cardinality(A) <= Cardinality(B)
    BY <1>2, FS_Subset
  <2> QED BY <1>1, <1>2, <1>3, <2>1
<1>5. A \ B \in SUBSET Nat
  BY <1>1
<1>6. Min(A \ B) \in Nat
  <2> HIDE DEF A, B
  <2> QED BY <1>4, <1>5, MinIsLeast
<1> QED BY <1>6 DEF PendingNonce

\* A reserved nonce is one the cursor has not reached.
LEMMA ReservedIsFresh ==
  ASSUME Shape
  PROVE  ReservedNonce(PendingNonce) \in Nat /\ ReservedNonce(PendingNonce) >= nonceCursor
<1>1. PendingNonce \in Nat /\ nonceCursor \in Nat
  BY PendingNonceType DEF Shape
<1> HIDE DEF PendingNonce
<1> QED BY <1>1, MaxOfTwo DEF ReservedNonce

\* What was settled stays settled as long as the final part of the chain is kept.
ChainKept == final \in Nat /\ final' \in Nat /\ final <= final' /\ \A i \in 1 .. final : mined'[i] = mined[i]

\* A settlement on the final part of the chain stays one.
LEMMA SettlementStays ==
  ASSUME ChainKept
  PROVE  /\ \A tx : Settles(tx) => Settles(tx)'
         /\ \A s, kind : SettledBy(s, kind) => SettledBy(s, kind)'
<1>1. \A i \in 1 .. final : i \in 1 .. final' /\ (Succeeded(i) => Succeeded(i)')
  BY DEF ChainKept, Succeeded
<1> QED BY <1>1 DEF ChainKept, Settles, SettledBy

\* A receipt at full depth is that of a transaction that settled its claim.
LEMMA ConfirmedSettles ==
  ASSUME NEW tx, "confirmed" \in Receipts(tx), Shape
  PROVE  Settles(tx)
<1>1. PICK i \in DOMAIN mined : mined[i] = tx /\ Succeeded(i) /\ i <= final
  BY DEF Receipts
<1>2. i \in 1 .. final
  BY <1>1, TableDomain DEF Shape
<1> QED BY <1>1, <1>2 DEF Settles

\* The record of a payout whose transaction settled a claim, settled that of its session.
LEMMA RecordSettles ==
  ASSUME NEW own, Shape, Owned(own), NEW s, NEW kind, NEW rec, NEW cur,
         RecOk(own, cur, rec, kind, s), rec # NoRecord, Settles(rec.tx)
  PROVE  SettledBy(s, kind)
<1>1. PICK i \in 1 .. final : mined[i] = rec.tx /\ Succeeded(i)
  BY DEF Settles
<1>2. TxOk(own, nonceCursor, rec.tx)
  BY <1>1, TableDomain DEF Shape, Owned
<1>3. rec.tx.kind = kind /\ rec.tx.session = s
  BY <1>2 DEF RecOk, TxOk, NoTx
<1> QED BY <1>1, <1>3 DEF SettledBy

(***************************************************************************)
(* What a step of an execution may do, and that this keeps the invariant.  *)
(***************************************************************************)
\* The session's release record stays, or becomes the draft, which the execution gives up.
RelFate(e, s) ==
  \/ sess'[s].rel = sess[s].rel
  \/ /\ exec[e] # Idle /\ exec[e].draft # NoRecord
     /\ sess'[s].rel = exec[e].draft /\ exec'[e] = Idle

\* The execution keeps its snapshot or has just taken it, and a new draft has a new nonce.
ExecFate(e, s) ==
  \/ exec'[e] = Idle
  \/ /\ \/ /\ exec[e] # Idle
           /\ exec'[e].session = exec[e].session /\ exec'[e].rel = exec[e].rel
        \/ exec'[e].session = s /\ exec'[e].rel = sess[s].rel
     /\ \/ exec'[e].draft = NoRecord
        \/ /\ exec[e] # Idle /\ exec[e].draft # NoRecord
           /\ exec'[e].draft.nonce = exec[e].draft.nonce
        \/ exec'[e].draft.nonce \in Nat /\ exec'[e].draft.nonce >= nonceCursor

ExecEffect(own, e, s) ==
  /\ DOMAIN sess' = Sessions /\ \A t \in Sessions : t # s => sess'[t] = sess[t]
  /\ DOMAIN exec' = Execs /\ \A f \in Execs : f # e => exec'[f] = exec[f]
  /\ SessOk(own, nonceCursor', s, sess'[s]) /\ ExecOk(own, nonceCursor', exec'[e])
  /\ sess'[s].pay = sess[s].pay
  /\ sess[s].state = "Complete" => sess'[s].state = "Complete"
  /\ sess'[s].state = "Complete" => sess'[s].rel.acked /\ Settles(sess'[s].rel.tx)
  /\ exec'[e].pc = "rehandoff" => Settles(exec'[e].rel.tx)
  /\ RelFate(e, s) /\ ExecFate(e, s)

RegistryEffect == \A entry \in registry' : entry \in registry \/ SettledBy(entry.session, "release")

PoolEffect(own) ==
  /\ UNCHANGED <<mined, final, call>> /\ IsFiniteSet(mempool')
  /\ \A tx \in mempool' : TxOk(own, nonceCursor', tx)

\* The records that exist have nonces below the cursor, or none.
Below(rec) == rec.nonce = NoNonce \/ (rec.nonce \in Nat /\ rec.nonce < nonceCursor)

\* No release record has a nonce that the cursor has not given out.
LEMMA RecordsBelow ==
  ASSUME NEW own, PayoutInv(own)
  PROVE  /\ \A s \in Sessions : Below(sess[s].rel)
         /\ \A e \in Execs : exec[e] # Idle => Below(exec[e].rel) /\ Below(exec[e].draft)
BY DEF PayoutInv, Owned, SessOk, ExecOk, RecOk, Below, NoRecord

\* A draft stays private under a step of an execution.
LEMMA PrivateKept ==
  ASSUME NEW own, PayoutInv(own), NEW own2, NEW e \in Execs, NEW s \in Sessions,
         ExecEffect(own2, e, s)
  PROVE  DraftsPrivate'
<1> SUFFICES ASSUME NEW d \in Execs, exec'[d] # Idle, exec'[d].draft # NoRecord
             PROVE  /\ \A t \in Sessions : sess'[t].rel.nonce # exec'[d].draft.nonce
                    /\ \A f \in Execs : exec'[f] # Idle =>
                         /\ exec'[f].rel.nonce # exec'[d].draft.nonce
                         /\ f # d => exec'[f].draft.nonce # exec'[d].draft.nonce
  BY DEF DraftsPrivate
<1>1. /\ \A t \in Sessions : Below(sess[t].rel)
      /\ \A f \in Execs : exec[f] # Idle => Below(exec[f].rel) /\ Below(exec[f].draft)
      /\ nonceCursor \in Nat /\ DraftsPrivate
  BY RecordsBelow DEF PayoutInv, Shape
<1>2. CASE d # e
  <2>1. exec'[d] = exec[d] /\ exec[d] # Idle /\ exec[d].draft # NoRecord
    BY <1>2 DEF ExecEffect
  <2>2. ASSUME NEW t \in Sessions PROVE sess'[t].rel.nonce # exec[d].draft.nonce
    BY <1>1, <1>2, <2>1 DEF ExecEffect, RelFate, DraftsPrivate
  <2>3. ASSUME NEW f \in Execs, exec'[f] # Idle, f # e
        PROVE  /\ exec'[f].rel.nonce # exec[d].draft.nonce
               /\ f # d => exec'[f].draft.nonce # exec[d].draft.nonce
    BY <1>1, <2>1, <2>3 DEF ExecEffect, DraftsPrivate
  <2>4. ASSUME exec'[e] # Idle
        PROVE  /\ exec'[e].rel.nonce # exec[d].draft.nonce
               /\ exec'[e].draft.nonce # exec[d].draft.nonce
    <3>1. Below(exec[d].draft) /\ exec[d].draft.nonce # NoNonce
      BY <1>1, <2>1 DEF PayoutInv, Owned, ExecOk, RecOk, NoNonce
    <3>2. exec'[e].rel.nonce # exec[d].draft.nonce
      BY <1>1, <2>1, <2>4 DEF ExecEffect, ExecFate, DraftsPrivate
    <3>3. exec'[e].draft.nonce # exec[d].draft.nonce
      BY <1>1, <1>2, <2>1, <2>4, <3>1 DEF ExecEffect, ExecFate, DraftsPrivate, Below, NoRecord
    <3> QED BY <3>2, <3>3
  <2> QED BY <2>1, <2>2, <2>3, <2>4
<1>3. CASE d = e
  <2>1. exec'[e] # Idle /\ exec'[e].draft # NoRecord /\ sess'[s].rel = sess[s].rel
    BY <1>3 DEF ExecEffect, RelFate
  <2>2. \A t \in Sessions : sess'[t].rel = sess[t].rel
    BY <2>1 DEF ExecEffect
  <2>3. CASE /\ exec[e] # Idle /\ exec[e].draft # NoRecord
             /\ exec'[e].draft.nonce = exec[e].draft.nonce
    BY <1>1, <1>3, <2>1, <2>2, <2>3 DEF ExecEffect, ExecFate, DraftsPrivate
  <2>4. CASE exec'[e].draft.nonce \in Nat /\ exec'[e].draft.nonce >= nonceCursor
    BY <1>1, <1>3, <2>1, <2>2, <2>4 DEF ExecEffect, ExecFate, Below, NoNonce
  <2> QED BY <2>1, <2>3, <2>4 DEF ExecEffect, ExecFate
<1> QED BY <1>2, <1>3

\* The guard stays exact under a step of an execution.
LEMMA GuardKept ==
  ASSUME NEW own, PayoutInv(own), NEW own2, NEW e \in Execs, NEW s \in Sessions,
         ExecEffect(own2, e, s)
  PROVE  GuardIsExact'
<1> SUFFICES ASSUME NEW d \in Execs, exec'[d] # Idle,
                    sess'[exec'[d].session].rel.nonce = exec'[d].rel.nonce
             PROVE  exec'[d].rel = sess'[exec'[d].session].rel
  BY DEF GuardIsExact, GuardHolds
<1>1. DraftsPrivate /\ GuardIsExact
  BY DEF PayoutInv
<1>2. CASE d # e
  <2>1. exec'[d] = exec[d] /\ exec[d] # Idle /\ exec[d].session \in Sessions
    BY <1>2 DEF ExecEffect, PayoutInv, Owned, ExecOk
  <2> QED BY <1>1, <2>1 DEF ExecEffect, RelFate, DraftsPrivate, GuardIsExact, GuardHolds
<1>3. CASE d = e
  <2>1. sess'[s].rel = sess[s].rel /\ exec'[e].session \in Sessions
    BY <1>3 DEF ExecEffect, RelFate, ExecOk
  <2>2. \A t \in Sessions : sess'[t].rel = sess[t].rel
    BY <2>1 DEF ExecEffect
  <2> QED BY <1>1, <1>3, <2>1, <2>2 DEF ExecEffect, ExecFate, GuardIsExact, GuardHolds
<1> QED BY <1>2, <1>3

\* A step of an execution keeps the invariant, and what is settled.
LEMMA ExecEffectKeeps ==
  ASSUME NEW own, PayoutInv(own), NEW own2, Extends(own, nonceCursor, own2, nonceCursor'),
         NEW e \in Execs, NEW s \in Sessions, ExecEffect(own2, e, s),
         PoolEffect(own2), RegistryEffect
  PROVE  PayoutInv(own2)' /\ SettledForGood
<1>1. Shape'
  BY DEF PayoutInv, Shape, ExecEffect, PoolEffect, Extends
<1>2. Owned(own2)'
  <2>1. \A tx \in mempool' : TxOk(own2, nonceCursor', tx)
    BY DEF PoolEffect
  <2>2. \A i \in 1 .. Len(mined') : TxOk(own2, nonceCursor', mined'[i])
    BY TxGrows DEF PayoutInv, Owned, PoolEffect
  <2>3. ASSUME NEW t \in Sessions PROVE SessOk(own2, nonceCursor', t, sess'[t])
    <3>1. CASE t = s
      BY <3>1 DEF ExecEffect
    <3>2. CASE t # s
      <4>1. SessOk(own, nonceCursor, t, sess[t]) /\ sess'[t] = sess[t]
        BY <3>2 DEF ExecEffect, PayoutInv, Owned
      <4> QED BY <4>1, RecGrows DEF SessOk
    <3> QED BY <3>1, <3>2
  <2>4. ASSUME NEW f \in Execs PROVE ExecOk(own2, nonceCursor', exec'[f])
    <3>1. CASE f = e
      BY <3>1 DEF ExecEffect
    <3>2. CASE f # e
      <4>1. ExecOk(own, nonceCursor, exec[f]) /\ exec'[f] = exec[f]
        BY <3>2 DEF ExecEffect, PayoutInv, Owned
      <4> QED BY <4>1, RecGrows DEF ExecOk
    <3> QED BY <3>1, <3>2
  <2>5. ASSUME NEW k \in Calls PROVE CallOk(own2, nonceCursor', call'[k])
    <3>1. CallOk(own, nonceCursor, call[k]) /\ call'[k] = call[k]
      BY DEF PoolEffect, PayoutInv, Owned
    <3> QED BY <3>1, RecGrows DEF CallOk
  <2> QED BY <2>1, <2>2, <2>3, <2>4, <2>5 DEF Owned
<1>3. DraftsPrivate' /\ GuardIsExact'
  BY PrivateKept, GuardKept
<1>4. Settled'
  <2>1. /\ \A tx : Settles(tx) => Settles(tx)'
        /\ \A t, kind : SettledBy(t, kind) => SettledBy(t, kind)'
    BY SettlementStays DEF ChainKept, PoolEffect, PayoutInv, Shape
  <2>2. ASSUME NEW t \in Sessions
        PROVE  /\ sess'[t].state = "Complete" => sess'[t].rel.acked /\ Settles(sess'[t].rel.tx)
               /\ sess'[t].pay = "Refunded" => SettledBy(t, "refund")
    BY DEF ExecEffect, PayoutInv, Settled
  <2>3. ASSUME NEW f \in Execs, exec'[f].pc = "rehandoff" PROVE Settles(exec'[f].rel.tx)
    BY <2>3 DEF ExecEffect, PayoutInv, Settled
  <2>4. \A entry \in registry' : SettledBy(entry.session, "release")
    BY DEF RegistryEffect, PayoutInv, Settled
  <2> QED BY <2>1, <2>2, <2>3, <2>4 DEF Settled, Settles, SettledBy, Succeeded, PoolEffect
<1>5. SettledForGood
  <2> SUFFICES ASSUME NEW t \in Sessions
               PROVE  /\ sess[t].state = "Complete" => sess'[t].state = "Complete" /\ sess'[t].pay = "Paid"
                      /\ sess[t].pay = "Refunded" => sess'[t].pay = "Refunded" /\ sess'[t].state # "Complete"
    BY DEF SettledForGood
  <2>1. SessOk(own2, nonceCursor', t, sess'[t])
    BY <1>2 DEF Owned
  <2>2. sess'[t].pay = sess[t].pay /\ (sess[t].state = "Complete" => sess'[t].state = "Complete")
    BY DEF ExecEffect
  <2> QED BY <2>1, <2>2 DEF SessOk, PayOk
<1> QED BY <1>1, <1>2, <1>3, <1>4, <1>5 DEF PayoutInv

(***************************************************************************)
(* Session records.                                                        *)
(***************************************************************************)
\* r2 is r as far as payouts go: same records, same payment, complete if r is.
Kin(r2, r) ==
  /\ SessFields \subseteq DOMAIN r2 /\ PayOk(r2)
  /\ r2.pay = r.pay /\ r2.rel = r.rel /\ r2.refund = r.refund
  /\ r2.state = "Complete" <=> r.state = "Complete"

\* Every event but the release's leaves a session that is complete or refunded as it is.
LEMMA ApplyKin ==
  ASSUME NEW r, SessFields \subseteq DOMAIN r, PayOk(r), NEW event \in Events, NEW at,
         event = "SessionExpired" \/ Accepts(r, event), event # "ReleaseBroadcast"
  PROVE  Kin(Apply(r, event, at), r)
<1>1. CASE event = "SessionExpired" /\ IgnoresExpiry(r, at)
  BY <1>1 DEF Apply, Kin
<1>2. CASE ~ (event = "SessionExpired" /\ IgnoresExpiry(r, at))
  <2> DEFINE r1 == [r EXCEPT !.state = Target[event],
                             !.expires = IF event = "RetryRequested"
                                         THEN at + SessionTtl ELSE @]
  <2>1. /\ SessFields \subseteq DOMAIN r1 /\ r1.pay = r.pay /\ r1.rel = r.rel
        /\ r1.refund = r.refund /\ r1.state = Target[event]
    BY DEF SessFields
  <2>2. Apply(r, event, at) = SyncFlags(r1, at)
    BY <1>2 DEF Apply
  <2> HIDE DEF r1
  <2>3. /\ SessFields \subseteq DOMAIN SyncFlags(r1, at) /\ SyncFlags(r1, at).pay = r1.pay
        /\ SyncFlags(r1, at).rel = r1.rel /\ SyncFlags(r1, at).refund = r1.refund
        /\ SyncFlags(r1, at).state = r1.state
    BY <2>1 DEF SyncFlags, SessFields
  <2>4. r.state # "Complete" /\ Target[event] # "Complete"
    BY <1>2 DEF Accepts, Sources, Target, Events, IgnoresExpiry
  <2>5. r.pay = "Paid"
    BY <1>2 DEF Accepts, Sources, Events, IgnoresExpiry, PayOk
  <2> QED BY <2>1, <2>2, <2>3, <2>4, <2>5 DEF Kin, PayOk
<1> QED BY <1>1, <1>2

\* A release is accepted only by a session that is paid and broadcasts, and completes it.
LEMMA ApplyRelease ==
  ASSUME NEW r, SessFields \subseteq DOMAIN r, PayOk(r), NEW at, Accepts(r, "ReleaseBroadcast")
  PROVE  LET r2 == Apply(r, "ReleaseBroadcast", at)
         IN  /\ SessFields \subseteq DOMAIN r2 /\ PayOk(r2) /\ r2.state = "Complete"
             /\ r2.pay = r.pay /\ r2.rel = r.rel /\ r2.refund = r.refund
<1> DEFINE r1 == [r EXCEPT !.state = "Complete", !.expires = @]
<1>1. /\ SessFields \subseteq DOMAIN r1 /\ r1.pay = r.pay /\ r1.rel = r.rel
      /\ r1.refund = r.refund /\ r1.state = "Complete"
  BY DEF SessFields
<1>2. Apply(r, "ReleaseBroadcast", at) = SyncFlags(r1, at)
  BY DEF Apply, Target
<1> HIDE DEF r1
<1>3. r.pay = "Paid"
  BY DEF Accepts, Sources, PayOk
<1> QED BY <1>1, <1>2, <1>3 DEF SyncFlags, SessFields, PayOk

\* The canister that is written into a session changes no record.
LEMMA WithCanisterKin ==
  ASSUME NEW r, NEW r0, Kin(r, r0), NEW c
  PROVE  Kin(WithCanister(r, c), r0)
BY DEF WithCanister, Kin, SessFields, PayOk

\* Kinship goes through.
LEMMA KinTrans ==
  ASSUME NEW r, NEW r1, NEW r2, Kin(r1, r), Kin(r2, r1) PROVE Kin(r2, r)
BY DEF Kin

\* What is kin to a session of the invariant satisfies it.
LEMMA KinOk ==
  ASSUME NEW own, NEW cur, NEW s, NEW r, SessOk(own, cur, s, r), NEW r2, Kin(r2, r)
  PROVE  SessOk(own, cur, s, r2)
BY DEF SessOk, Kin

\* A session of the invariant is kin to itself.
LEMMA KinSelf ==
  ASSUME NEW own, PayoutInv(own), NEW s \in Sessions PROVE Kin(sess[s], sess[s])
BY DEF PayoutInv, Owned, SessOk, Kin

(***************************************************************************)
(* The steps of an execution, by what they write.                          *)
(***************************************************************************)
SessOnly(s) == DOMAIN sess' = Sessions /\ \A t \in Sessions : t # s => sess'[t] = sess[t]

ExecOnly(e) == DOMAIN exec' = Execs /\ \A f \in Execs : f # e => exec'[f] = exec[f]

NoPayout == UNCHANGED <<nonceCursor, mempool, mined, final, call>>

\* A step that reserves nothing keeps every owner.
LEMMA SameCursor ==
  ASSUME NEW own, PayoutInv(own), UNCHANGED nonceCursor
  PROVE  Extends(own, nonceCursor, own, nonceCursor')
BY DEF PayoutInv, Shape, Extends

\* A step that writes no release record, and leaves its own execution with the records it had.
LEMMA QuietKeeps ==
  ASSUME NEW own, PayoutInv(own), NEW e \in Execs, NEW s \in Sessions,
         SessOnly(s), Kin(sess'[s], sess[s]), ExecOnly(e),
         NoPayout, UNCHANGED registry,
         ExecOk(own, nonceCursor, exec'[e]),
         exec'[e].pc = "rehandoff" => Settles(exec'[e].rel.tx),
         \/ exec'[e] = Idle
         \/ /\ exec[e] # Idle /\ exec'[e].session = exec[e].session
            /\ exec'[e].rel = exec[e].rel /\ exec'[e].draft = exec[e].draft
         \/ /\ exec'[e].session = s /\ exec'[e].rel = sess[s].rel
            /\ exec'[e].draft = NoRecord
  PROVE  PayoutInv(own)' /\ SettledForGood
<1>1. Extends(own, nonceCursor, own, nonceCursor')
  BY SameCursor DEF NoPayout
<1>2. PoolEffect(own) /\ RegistryEffect
  BY DEF NoPayout, PoolEffect, RegistryEffect, PayoutInv, Shape, Owned
<1>3. ExecEffect(own, e, s)
  <2>1. SessOk(own, nonceCursor', s, sess'[s])
    BY KinOk DEF PayoutInv, Owned, NoPayout
  <2>2. RelFate(e, s) /\ ExecFate(e, s)
    BY DEF RelFate, ExecFate, Kin
  <2>3. sess'[s].state = "Complete" => sess'[s].rel.acked /\ Settles(sess'[s].rel.tx)
    BY DEF PayoutInv, Settled, Kin
  <2> QED BY <2>1, <2>2, <2>3 DEF ExecEffect, SessOnly, ExecOnly, NoPayout, Kin
<1> QED BY <1>1, <1>2, <1>3, ExecEffectKeeps

\* mark_session_failed_in_state ends the execution, and never fails a complete session.
LEMMA FailsIsKin ==
  ASSUME NEW own, PayoutInv(own), NEW e \in Execs, NEW s \in Sessions,
         NEW r, SessFields \subseteq DOMAIN r, PayOk(r), NEW at, NEW action, SpawnFails(e, s, r, at, action)
  PROVE  SessOnly(s) /\ ExecOnly(e) /\ exec'[e] = Idle /\ Kin(sess'[s], r)
<1>1. SessOnly(s) /\ ExecOnly(e) /\ exec'[e] = Idle
  BY DEF SpawnFails, Ends, SessOnly, ExecOnly, PayoutInv, Shape
<1>2. sess'[s] = IF Accepts(r, "SpawnFailed") THEN Apply(r, "SpawnFailed", at) ELSE r
  BY DEF SpawnFails, PayoutInv, Shape
<1>3. Accepts(r, "SpawnFailed") => Kin(Apply(r, "SpawnFailed", at), r)
  BY ApplyKin DEF Events
<1>4. Kin(r, r)
  BY DEF Kin
<1> QED BY <1>1, <1>2, <1>3, <1>4

\* A failure that writes no release record.
LEMMA FailsKeeps ==
  ASSUME NEW own, PayoutInv(own), NEW e \in Execs, NEW s \in Sessions,
         NEW r, Kin(r, sess[s]), NEW at, NEW action, SpawnFails(e, s, r, at, action),
         NoPayout, UNCHANGED registry
  PROVE  PayoutInv(own)' /\ SettledForGood
<1>1. SessOnly(s) /\ ExecOnly(e) /\ exec'[e] = Idle /\ Kin(sess'[s], r)
  BY FailsIsKin DEF Kin
<1>2. Kin(sess'[s], sess[s])
  BY <1>1, KinTrans
<1> QED BY <1>1, <1>2, QuietKeeps DEF ExecOk, Idle

\* An execution that ends without having written anything but its job.
LEMMA EndsKeeps ==
  ASSUME NEW own, PayoutInv(own), NEW e \in Execs, NEW s \in Sessions,
         SessOnly(s), Kin(sess'[s], sess[s]), ExecOnly(e), exec'[e] = Idle,
         NoPayout, UNCHANGED registry
  PROVE  PayoutInv(own)' /\ SettledForGood
BY QuietKeeps DEF ExecOk, Idle

\* An execution that goes on with its records, at a place they allow.
LEMMA GoesOnKeeps ==
  ASSUME NEW own, PayoutInv(own), NEW e \in Execs, NEW s \in Sessions, exec[e] # Idle,
         SessOnly(s), Kin(sess'[s], sess[s]), ExecOnly(e),
         ExecFields \subseteq DOMAIN exec'[e], PcOk(exec'[e]), exec'[e].session = exec[e].session,
         exec'[e].rel = exec[e].rel, exec'[e].draft = exec[e].draft,
         exec'[e].pc = "rehandoff" => Settles(exec'[e].rel.tx),
         NoPayout, UNCHANGED registry
  PROVE  PayoutInv(own)' /\ SettledForGood
<1>1. ExecOk(own, nonceCursor, exec'[e])
  BY DEF PayoutInv, Owned, ExecOk
<1> QED BY <1>1, QuietKeeps

\* A release record that the guard lets through is written, and the execution ends.
LEMMA WriteKeeps ==
  ASSUME NEW own, PayoutInv(own), NEW e \in Execs, exec[e] # Idle, GuardHolds(exec[e]),
         NEW rec, rec = exec[e].rel \/ (rec = exec[e].draft /\ rec # NoRecord),
         NEW s, s = exec[e].session,
         SessOnly(s), ExecOnly(e), exec'[e] = Idle,
         Kin(sess'[s], [sess[s] EXCEPT !.rel = rec]),
         NoPayout, UNCHANGED registry
  PROVE  PayoutInv(own)' /\ SettledForGood
<1>1. /\ s \in Sessions /\ SessOk(own, nonceCursor, s, sess[s]) /\ PcOk(exec[e])
      /\ RecOk(own, nonceCursor, rec, "release", s)
  BY DEF PayoutInv, Owned, ExecOk
<1> DEFINE r == [sess[s] EXCEPT !.rel = rec]
<1>2. r.rel = rec /\ r.pay = sess[s].pay /\ r.refund = sess[s].refund /\ r.state = sess[s].state
  BY <1>1 DEF SessOk, SessFields
<1> HIDE DEF r
<1>3. Kin(sess'[s], r)
  BY DEF r
<1>4. exec[e].rel = sess[s].rel
  BY DEF PayoutInv, GuardIsExact
<1>5. SessOk(own, nonceCursor', s, sess'[s])
  BY <1>1, <1>2, <1>3 DEF SessOk, Kin, NoPayout
<1>6. sess[s].state = "Complete" => rec = sess[s].rel
  <2> SUFFICES ASSUME sess[s].state = "Complete", rec # exec[e].rel PROVE FALSE
    BY <1>4
  <2>1. sess[s].rel.acked
    BY <1>1 DEF PayoutInv, Settled
  <2>2. exec[e].draft # NoRecord
    OBVIOUS
  <2> QED BY <1>1, <1>4, <2>1, <2>2 DEF PcOk
<1>7. ExecEffect(own, e, s)
  <2>1. RelFate(e, s) /\ ExecFate(e, s)
    BY <1>2, <1>3, <1>4 DEF RelFate, ExecFate, Kin
  <2>2. sess'[s].state = "Complete" => sess'[s].rel.acked /\ Settles(sess'[s].rel.tx)
    BY <1>1, <1>2, <1>3, <1>6 DEF PayoutInv, Settled, Kin
  <2>3. ExecOk(own, nonceCursor', exec'[e]) /\ exec'[e].pc # "rehandoff"
    BY DEF ExecOk, Idle
  <2> QED BY <1>2, <1>3, <1>5, <2>1, <2>2, <2>3 DEF ExecEffect, SessOnly, ExecOnly, Kin
<1>8. PoolEffect(own) /\ RegistryEffect
  BY DEF NoPayout, PoolEffect, RegistryEffect, PayoutInv, Shape, Owned
<1>9. Extends(own, nonceCursor, own, nonceCursor')
  BY SameCursor DEF NoPayout
<1> QED BY <1>1, <1>7, <1>8, <1>9, ExecEffectKeeps

\* The release is confirmed: the session may complete, and the automaton is registered.
LEMMA CompletesKeeps ==
  ASSUME NEW own, PayoutInv(own), NEW e \in Execs, exec[e] # Idle, GuardHolds(exec[e]),
         NEW rec, rec = exec[e].rel \/ rec = exec[e].draft, rec.acked, Settles(rec.tx),
         Completes(e, exec[e], rec), NoPayout
  PROVE  PayoutInv(own)' /\ SettledForGood
<1> DEFINE s == exec[e].session
           r == [sess[s] EXCEPT !.rel = rec]
<1>1. /\ s \in Sessions /\ SessOk(own, nonceCursor, s, sess[s])
      /\ RecOk(own, nonceCursor, rec, "release", s) /\ rec # NoRecord
  BY DEF PayoutInv, Owned, ExecOk, NoRecord
<1>2. /\ r.rel = rec /\ r.pay = sess[s].pay /\ r.refund = sess[s].refund
      /\ r.state = sess[s].state /\ SessFields \subseteq DOMAIN r /\ PayOk(r)
  BY <1>1 DEF SessOk, SessFields, PayOk
<1>3. /\ SessOnly(s) /\ ExecOnly(e) /\ exec'[e] = Idle
      /\ sess'[s] = IF Accepts(r, "ReleaseBroadcast") THEN Apply(r, "ReleaseBroadcast", exec[e].at) ELSE r
      /\ registry' = registry \cup {[session |-> s, can |-> exec[e].can]}
  BY <1>1 DEF Completes, Ends, SessOnly, ExecOnly, PayoutInv, Shape
<1>4. exec[e].rel = sess[s].rel
  BY DEF PayoutInv, GuardIsExact
<1> HIDE DEF r
<1>5. /\ SessFields \subseteq DOMAIN sess'[s] /\ PayOk(sess'[s]) /\ sess'[s].rel = rec
      /\ sess'[s].pay = sess[s].pay /\ sess'[s].refund = sess[s].refund
      /\ sess[s].state = "Complete" => sess'[s].state = "Complete"
  <2>1. CASE Accepts(r, "ReleaseBroadcast")
    BY <1>2, <1>3, <2>1, ApplyRelease
  <2>2. CASE ~ Accepts(r, "ReleaseBroadcast")
    BY <1>2, <1>3, <2>2
  <2> QED BY <2>1, <2>2
<1>6. SettledBy(s, "release")
  BY <1>1, RecordSettles DEF PayoutInv
<1>7. ExecEffect(own, e, s)
  <2>1. RelFate(e, s) /\ ExecFate(e, s)
    BY <1>1, <1>3, <1>4, <1>5 DEF RelFate, ExecFate
  <2>2. SessOk(own, nonceCursor', s, sess'[s])
    BY <1>1, <1>5 DEF SessOk, NoPayout
  <2>3. ExecOk(own, nonceCursor', exec'[e]) /\ exec'[e].pc # "rehandoff"
    BY <1>3 DEF ExecOk, Idle
  <2> QED BY <1>3, <1>5, <2>1, <2>2, <2>3 DEF ExecEffect, SessOnly, ExecOnly
<1>8. PoolEffect(own)
  BY DEF NoPayout, PoolEffect, PayoutInv, Shape, Owned
<1>9. RegistryEffect
  BY <1>3, <1>6 DEF RegistryEffect
<1>10. Extends(own, nonceCursor, own, nonceCursor')
  BY SameCursor DEF NoPayout
<1> QED BY <1>1, <1>7, <1>8, <1>9, <1>10, ExecEffectKeeps

(***************************************************************************)
(* The actions of an execution.                                            *)
(***************************************************************************)
\* A step that leaves the sessions alone.
LEMMA SessSame ==
  ASSUME NEW own, PayoutInv(own), NEW s \in Sessions, UNCHANGED sess
  PROVE  SessOnly(s) /\ Kin(sess'[s], sess[s])
BY KinSelf DEF SessOnly, PayoutInv, Shape

\* An execution under way has a session, and its records fit its place.
LEMMA UnderWay ==
  ASSUME NEW own, PayoutInv(own), NEW e \in Execs, exec[e].pc # "idle"
  PROVE  /\ exec[e] # Idle /\ ExecFields \subseteq DOMAIN exec[e] /\ exec[e].session \in Sessions
         /\ PcOk(exec[e]) /\ SessFields \subseteq DOMAIN sess[exec[e].session]
BY DEF PayoutInv, Owned, ExecOk, SessOk, Idle

\* execute_spawn up to its first await.
LEMMA StartKeeps ==
  ASSUME NEW own, PayoutInv(own), NEW e \in Execs, NEW s \in Sessions, StartStep(e, s),
         UNCHANGED call
  PROVE  PayoutInv(own)' /\ SettledForGood
<1>1. CASE StartNothing(e, s)
  <2>1. SessOnly(s) /\ Kin(sess'[s], sess[s])
    BY <1>1, SessSame DEF StartNothing
  <2>2. ExecOnly(e) /\ exec'[e] = Idle
    BY <1>1 DEF StartNothing, Ends, ExecOnly, PayoutInv, Shape
  <2>3. NoPayout /\ UNCHANGED registry
    BY <1>1 DEF StartNothing, NoPayout, payoutVars
  <2> QED BY <2>1, <2>2, <2>3, EndsKeeps
<1>2. CASE StartResume(e, s)
  <2>1. SessOnly(s) /\ Kin(sess'[s], sess[s])
    BY <1>2, SessSame DEF StartResume
  <2>2. NoPayout /\ UNCHANGED registry
    BY <1>2 DEF StartResume, NoPayout, payoutVars
  <2>3. CASE sess[s].rel.acked
    <3> DEFINE x == SnapshotOf(s, "resume")
    <3>1. ExecOnly(e) /\ exec'[e] = x
      BY <1>2, <2>3 DEF StartResume, Waits, ExecOnly, PayoutInv, Shape
    <3>2. /\ ExecFields \subseteq DOMAIN x /\ x.session = s /\ x.rel = sess[s].rel
          /\ x.draft = NoRecord /\ x.pc = "resume"
      BY DEF SnapshotOf, ExecFields
    <3> HIDE DEF x
    <3>3. ExecOk(own, nonceCursor, x)
      BY <2>3, <3>2 DEF ExecOk, PcOk, RecOk, PayoutInv, Owned, SessOk
    <3> QED BY <2>1, <2>2, <3>1, <3>2, <3>3, QuietKeeps
  <2>4. CASE ~ sess[s].rel.acked
    <3>1. ExecOnly(e) /\ exec'[e] = Idle
      BY <1>2, <2>4 DEF StartResume, EndsWith, Ends, ExecOnly, PayoutInv, Shape
    <3> QED BY <2>1, <2>2, <3>1, EndsKeeps
  <2> QED BY <2>3, <2>4
<1>3. ASSUME NEW action, StartMisconfigured(e, s, action) PROVE PayoutInv(own)' /\ SettledForGood
  <2>1. NoPayout /\ UNCHANGED registry /\ SpawnFails(e, s, sess[s], now, action)
    BY <1>3 DEF StartMisconfigured, NoPayout, payoutVars
  <2> QED BY <2>1, KinSelf, FailsKeeps
<1>4. CASE StartSpawn(e, s)
  <2> DEFINE r1 == Apply(sess[s], "SpawnStarted", now)
             r2 == Apply(r1, "InstallSucceeded", now)
  <2>1. Kin(sess[s], sess[s])
    BY KinSelf
  <2>2. Kin(r1, sess[s]) /\ r1.state = "Spawning"
    <3>1. Accepts(sess[s], "SpawnStarted")
      BY <1>4 DEF StartSpawn, Accepts, Sources
    <3>2. Kin(r1, sess[s])
      BY <2>1, <3>1, ApplyKin DEF Kin, Events
    <3>3. r1.state = "Spawning"
      BY <2>1 DEF Apply, SyncFlags, Target, Kin, SessFields
    <3> QED BY <3>2, <3>3
  <2> HIDE DEF r1
  <2>3. Kin(r2, sess[s])
    <3>1. Accepts(r1, "InstallSucceeded")
      BY <2>2 DEF Accepts, Sources
    <3>2. Kin(r2, r1)
      BY <2>2, <3>1, ApplyKin DEF Kin, Events
    <3> QED BY <2>2, <3>2, KinTrans
  <2> HIDE DEF r2
  <2>4. SessOnly(s) /\ Kin(sess'[s], sess[s])
    BY <1>4, <2>2, <2>3 DEF StartSpawn, SessOnly, PayoutInv, Shape, r1, r2
  <2>5. NoPayout /\ UNCHANGED registry
    BY <1>4 DEF StartSpawn, NoPayout, payoutVars
  <2>6. ASSUME NEW pc \in {"verify", "create"}, Waits(e, SnapshotOf(s, pc))
        PROVE  PayoutInv(own)' /\ SettledForGood
    <3> DEFINE x == SnapshotOf(s, pc)
    <3>1. ExecOnly(e) /\ exec'[e] = x
      BY <2>6 DEF Waits, ExecOnly, PayoutInv, Shape
    <3>2. /\ ExecFields \subseteq DOMAIN x /\ x.session = s /\ x.rel = sess[s].rel
          /\ x.draft = NoRecord /\ x.pc = pc
      BY DEF SnapshotOf, ExecFields
    <3> HIDE DEF x
    <3>3. ExecOk(own, nonceCursor, x)
      BY <3>2 DEF ExecOk, PcOk, RecOk, PayoutInv, Owned, SessOk
    <3> QED BY <2>4, <2>5, <3>1, <3>2, <3>3, QuietKeeps
  <2>7. Waits(e, SnapshotOf(s, "verify")) \/ Waits(e, SnapshotOf(s, "create"))
    BY <1>4 DEF StartSpawn
  <2> QED BY <2>6, <2>7
<1> QED BY <1>1, <1>2, <1>3, <1>4 DEF StartStep

\* The execution goes on somewhere before the release, with the records it has.
LEMMA BuildsOn ==
  ASSUME NEW own, PayoutInv(own), NEW e \in Execs,
         exec[e].pc \in {"create", "install", "verify", "strategies", "handoff"},
         NEW s \in Sessions, SessOnly(s), Kin(sess'[s], sess[s]), ExecOnly(e),
         ExecFields \subseteq DOMAIN exec'[e],
         exec'[e].session = exec[e].session, exec'[e].rel = exec[e].rel, exec'[e].draft = exec[e].draft,
         \/ exec'[e].pc \in {"install", "verify", "strategies", "handoff", "cleanup"}
         \/ exec'[e].pc = "nonce" /\ ~ exec[e].rel.acked
         \/ exec'[e].pc = "confirmOld" /\ exec[e].rel.acked,
         NoPayout, UNCHANGED registry
  PROVE  PayoutInv(own)' /\ SettledForGood
<1>1. exec[e] # Idle /\ PcOk(exec[e])
  BY UnderWay
<1>2. PcOk(exec'[e]) /\ exec'[e].pc # "rehandoff"
  BY <1>1 DEF PcOk
<1> QED BY <1>1, <1>2, GoesOnKeeps

\* A canister is deleted before the session fails.
LEMMA CleansUpKeeps ==
  ASSUME NEW own, PayoutInv(own), NEW e \in Execs,
         exec[e].pc \in {"create", "install", "verify", "strategies", "handoff"},
         NEW s \in Sessions, SessOnly(s), Kin(sess'[s], sess[s]),
         NEW can, NEW keep, NEW action, CleansUp(e, can, keep, action),
         NoPayout, UNCHANGED registry
  PROVE  PayoutInv(own)' /\ SettledForGood
<1>1. ExecFields \subseteq DOMAIN exec[e]
  BY UnderWay
<1>2. /\ ExecOnly(e) /\ ExecFields \subseteq DOMAIN exec'[e] /\ exec'[e].pc = "cleanup"
      /\ exec'[e].session = exec[e].session /\ exec'[e].rel = exec[e].rel
      /\ exec'[e].draft = exec[e].draft
  BY <1>1 DEF CleansUp, Waits, ExecOnly, ExecFields, PayoutInv, Shape
<1> QED BY <1>2, BuildsOn

\* The execution waits at another place.
LEMMA MovesOn ==
  ASSUME NEW own, PayoutInv(own), NEW e \in Execs,
         exec[e].pc \in {"create", "install", "verify", "strategies", "handoff"},
         NEW s \in Sessions, SessOnly(s), Kin(sess'[s], sess[s]),
         NEW pc, NEW can, NEW at, Waits(e, [exec[e] EXCEPT !.pc = pc, !.can = can, !.at = at]),
         \/ pc \in {"install", "verify", "strategies", "handoff"}
         \/ pc = "nonce" /\ ~ exec[e].rel.acked
         \/ pc = "confirmOld" /\ exec[e].rel.acked,
         NoPayout, UNCHANGED registry
  PROVE  PayoutInv(own)' /\ SettledForGood
<1>1. ExecFields \subseteq DOMAIN exec[e]
  BY UnderWay
<1>2. /\ ExecOnly(e) /\ ExecFields \subseteq DOMAIN exec'[e] /\ exec'[e].pc = pc
      /\ exec'[e].session = exec[e].session /\ exec'[e].rel = exec[e].rel
      /\ exec'[e].draft = exec[e].draft
  BY <1>1 DEF Waits, ExecOnly, ExecFields, PayoutInv, Shape
<1> QED BY <1>2, BuildsOn

\* Creating, installing, verifying and handing over write the canister only.
LEMMA BuildKeeps ==
  ASSUME NEW own, PayoutInv(own), NEW e \in Execs, BuildStep(e), UNCHANGED call
  PROVE  PayoutInv(own)' /\ SettledForGood
<1> DEFINE s == exec[e].session
           x == exec[e]
<1>0. x.pc # "idle"
  BY DEF BuildStep, CreateFails, CreatedUnusable, Created, InstallFails, InstallDone,
         RederiveFails, VerifyFails, Verified, StrategiesFail, StrategiesInstalled, HandoffFails,
         HandedOff, HandedOffWithoutRpc, CleanupReply
<1>1. /\ x # Idle /\ ExecFields \subseteq DOMAIN x /\ s \in Sessions /\ PcOk(x)
      /\ SessFields \subseteq DOMAIN sess[s]
  BY <1>0, UnderWay
<1>2. Kin(sess[s], sess[s]) /\ \A c : Kin(WithCanister(sess[s], c), sess[s])
  BY <1>1, KinSelf, WithCanisterKin
<1>3. ASSUME UNCHANGED sess PROVE SessOnly(s) /\ Kin(sess'[s], sess[s])
  BY <1>1, <1>3, SessSame
<1>4. ASSUME NEW c, sess' = [sess EXCEPT ![s] = WithCanister(@, c)]
      PROVE  SessOnly(s) /\ Kin(sess'[s], sess[s])
  BY <1>1, <1>2, <1>4 DEF SessOnly, PayoutInv, Shape
<1>5. NoPayout /\ UNCHANGED registry
  BY DEF BuildStep, CreateFails, CreatedUnusable, Created, InstallFails, InstallDone,
         RederiveFails, VerifyFails, Verified, StrategiesFail, StrategiesInstalled, HandoffFails,
         HandedOff, HandedOffWithoutRpc, CleanupReply, NoPayout, payoutVars
<1>6. CASE CreateFails(e)
  BY <1>1, <1>2, <1>5, <1>6, FailsKeeps DEF CreateFails
<1>7. ASSUME NEW c, CreatedUnusable(e, c) PROVE PayoutInv(own)' /\ SettledForGood
  BY <1>1, <1>3, <1>5, <1>7, CleansUpKeeps DEF CreatedUnusable
<1>8. ASSUME NEW c, Created(e, c) PROVE PayoutInv(own)' /\ SettledForGood
  <2>1. SessOnly(s) /\ Kin(sess'[s], sess[s]) /\ x.pc = "create"
    BY <1>4, <1>8 DEF Created
  <2>2. CASE CleansUp(e, c, "none", "Terminal")
    BY <1>1, <1>5, <2>1, <2>2, CleansUpKeeps
  <2>3. CASE Waits(e, [x EXCEPT !.pc = "install", !.can = c])
    <3>1. [x EXCEPT !.pc = "install", !.can = c] = [x EXCEPT !.pc = "install", !.can = c, !.at = x.at]
      BY <1>1 DEF ExecFields
    <3>2. Waits(e, [x EXCEPT !.pc = "install", !.can = c, !.at = x.at])
      BY <2>3, <3>1
    <3> QED BY <1>1, <1>5, <2>1, <3>2, MovesOn
  <2> QED BY <1>8, <2>2, <2>3 DEF Created
<1>9. CASE InstallFails(e) \/ RederiveFails(e) \/ StrategiesFail(e) \/ HandoffFails(e)
  BY <1>1, <1>3, <1>5, <1>9, CleansUpKeeps
     DEF InstallFails, RederiveFails, StrategiesFail, HandoffFails
<1>11. ASSUME NEW action, VerifyFails(e, action) PROVE PayoutInv(own)' /\ SettledForGood
  BY <1>1, <1>2, <1>5, <1>11, FailsKeeps DEF VerifyFails
<1>14. CASE HandedOffWithoutRpc(e)
  BY <1>1, <1>2, <1>5, <1>14, FailsKeeps DEF HandedOffWithoutRpc
<1>16. ASSUME NEW deleted, CleanupReply(e, deleted) PROVE PayoutInv(own)' /\ SettledForGood
  BY <1>1, <1>2, <1>5, <1>16, FailsKeeps DEF CleanupReply
<1>10. CASE InstallDone(e)
  <2> DEFINE r == WithCanister(sess[s], x.can)
  <2>0. x.pc = "install"
    BY <1>10 DEF InstallDone
  <2>1. CASE now > x.expires
    BY <1>1, <1>3, <1>5, <1>10, <2>0, <2>1, CleansUpKeeps DEF InstallDone
  <2>2. CASE ~ (now > x.expires) /\ Accepts(r, "InstallSucceeded")
    <3>1. Kin(Apply(r, "InstallSucceeded", now), sess[s])
      BY <1>2, <2>2, ApplyKin, KinTrans DEF Events, Kin
    <3>2. sess' = [sess EXCEPT ![s] = Apply(r, "InstallSucceeded", now)]
          /\ Waits(e, [x EXCEPT !.pc = "verify"])
      BY <1>10, <2>2 DEF InstallDone
    <3>3. SessOnly(s) /\ Kin(sess'[s], sess[s])
      BY <1>1, <3>1, <3>2 DEF SessOnly, PayoutInv, Shape
    <3>4. [x EXCEPT !.pc = "verify"] = [x EXCEPT !.pc = "verify", !.can = x.can, !.at = x.at]
      BY <1>1 DEF ExecFields
    <3>5. Waits(e, [x EXCEPT !.pc = "verify", !.can = x.can, !.at = x.at])
      BY <3>2, <3>4
    <3> QED BY <1>1, <1>5, <2>0, <3>3, <3>5, MovesOn
  <2>3. CASE ~ (now > x.expires) /\ ~ Accepts(r, "InstallSucceeded")
    <3>1. sess' = [sess EXCEPT ![s] = r] /\ EndsWith(e, s, "Skip")
      BY <1>10, <2>3 DEF InstallDone
    <3>2. SessOnly(s) /\ Kin(sess'[s], sess[s])
      BY <1>1, <1>2, <3>1 DEF SessOnly, PayoutInv, Shape
    <3>3. ExecOnly(e) /\ exec'[e] = Idle
      BY <3>1 DEF EndsWith, Ends, ExecOnly, PayoutInv, Shape
    <3> QED BY <1>1, <1>5, <3>2, <3>3, EndsKeeps
  <2> QED BY <2>1, <2>2, <2>3
<1>12. CASE Verified(e)
  <2>1. SessOnly(s) /\ Kin(sess'[s], sess[s]) /\ x.pc = "verify"
    BY <1>4, <1>12 DEF Verified
  <2>2. Waits(e, [x EXCEPT !.pc = "strategies", !.can = x.can, !.at = x.at])
    <3>1. [x EXCEPT !.pc = "strategies"] = [x EXCEPT !.pc = "strategies", !.can = x.can, !.at = x.at]
      BY <1>1 DEF ExecFields
    <3> QED BY <1>12, <3>1 DEF Verified
  <2> QED BY <1>1, <1>5, <2>1, <2>2, MovesOn
<1>13. CASE StrategiesInstalled(e)
  <2>1. SessOnly(s) /\ Kin(sess'[s], sess[s]) /\ x.pc = "strategies"
    BY <1>3, <1>13 DEF StrategiesInstalled
  <2>2. Waits(e, [x EXCEPT !.pc = "handoff", !.can = x.can, !.at = x.at])
    <3>1. [x EXCEPT !.pc = "handoff"] = [x EXCEPT !.pc = "handoff", !.can = x.can, !.at = x.at]
      BY <1>1 DEF ExecFields
    <3> QED BY <1>13, <3>1 DEF StrategiesInstalled
  <2> QED BY <1>1, <1>5, <2>1, <2>2, MovesOn
<1>15. CASE HandedOff(e)
  <2>1. SessOnly(s) /\ Kin(sess'[s], sess[s]) /\ x.pc = "handoff"
    BY <1>4, <1>15 DEF HandedOff
  <2>2. CASE x.rel.acked /\ ~ GuardHolds(x)
    <3>1. ExecOnly(e) /\ exec'[e] = Idle
      BY <1>15, <2>2 DEF HandedOff, EndsWith, Ends, ExecOnly, PayoutInv, Shape
    <3> QED BY <1>1, <1>5, <2>1, <3>1, EndsKeeps
  <2>3. ASSUME NEW pc, Waits(e, [x EXCEPT !.pc = pc, !.at = now]),
               (pc = "nonce" /\ ~ x.rel.acked) \/ (pc = "confirmOld" /\ x.rel.acked)
        PROVE  PayoutInv(own)' /\ SettledForGood
    <3>1. [x EXCEPT !.pc = pc, !.at = now] = [x EXCEPT !.pc = pc, !.can = x.can, !.at = now]
      BY <1>1 DEF ExecFields
    <3>2. Waits(e, [x EXCEPT !.pc = pc, !.can = x.can, !.at = now])
      BY <2>3, <3>1
    <3> QED BY <1>1, <1>5, <2>1, <2>3, <3>2, MovesOn
  <2>4. \/ x.rel.acked /\ ~ GuardHolds(x)
        \/ x.rel.acked /\ Waits(e, [x EXCEPT !.pc = "confirmOld", !.at = now])
        \/ ~ x.rel.acked /\ Waits(e, [x EXCEPT !.pc = "nonce", !.at = now])
    BY <1>15 DEF HandedOff
  <2>5. CASE x.rel.acked /\ Waits(e, [x EXCEPT !.pc = "confirmOld", !.at = now])
    BY <2>3, <2>5
  <2>6. CASE ~ x.rel.acked /\ Waits(e, [x EXCEPT !.pc = "nonce", !.at = now])
    BY <2>3, <2>6
  <2> QED BY <2>2, <2>4, <2>5, <2>6
<1> QED BY <1>6, <1>7, <1>8, <1>9, <1>10, <1>11, <1>12, <1>13, <1>14, <1>15, <1>16 DEF BuildStep

(***************************************************************************)
(* The release.                                                            *)
(***************************************************************************)
\* A continuation that the guard stops writes nothing.
LEMMA StaleKeeps ==
  ASSUME NEW own, PayoutInv(own), NEW e \in Execs, exec[e].session \in Sessions,
         Stale(e, exec[e]), NoPayout
  PROVE  PayoutInv(own)' /\ SettledForGood
<1>1. SessOnly(exec[e].session) /\ Kin(sess'[exec[e].session], sess[exec[e].session])
  BY SessSame DEF Stale
<1>2. ExecOnly(e) /\ exec'[e] = Idle /\ UNCHANGED registry
  BY DEF Stale, EndsWith, Ends, ExecOnly, PayoutInv, Shape
<1> QED BY <1>1, <1>2, EndsKeeps

\* The record is written and the session goes on broadcasting.
LEMMA StaysKeeps ==
  ASSUME NEW own, PayoutInv(own), NEW e \in Execs, exec[e].pc # "idle", GuardHolds(exec[e]),
         NEW rec, rec = exec[e].rel \/ (rec = exec[e].draft /\ rec # NoRecord),
         StaysBroadcasting(e, exec[e], rec), NoPayout
  PROVE  PayoutInv(own)' /\ SettledForGood
<1> DEFINE s == exec[e].session
           r == [sess[s] EXCEPT !.rel = rec]
<1>1. exec[e] # Idle /\ s \in Sessions
  BY UnderWay
<1>2. SessOnly(s) /\ sess'[s] = r /\ ExecOnly(e) /\ exec'[e] = Idle /\ UNCHANGED registry
  BY <1>1 DEF StaysBroadcasting, EndsWith, Ends, SessOnly, ExecOnly, PayoutInv, Shape
<1>3. Kin(r, r)
  BY <1>1 DEF Kin, PayoutInv, Owned, SessOk, PayOk, SessFields
<1> QED BY <1>1, <1>2, <1>3, WriteKeeps

\* The record is written and the session fails.
LEMMA FailedWriteKeeps ==
  ASSUME NEW own, PayoutInv(own), NEW e \in Execs, exec[e].pc # "idle", GuardHolds(exec[e]),
         NEW rec, rec = exec[e].rel \/ (rec = exec[e].draft /\ rec # NoRecord),
         NEW at, NEW action,
         SpawnFails(e, exec[e].session,
                    WithCanister([sess[exec[e].session] EXCEPT !.rel = rec], exec[e].can), at, action),
         NoPayout, UNCHANGED registry
  PROVE  PayoutInv(own)' /\ SettledForGood
<1> DEFINE s == exec[e].session
           r == [sess[s] EXCEPT !.rel = rec]
           w == WithCanister(r, exec[e].can)
<1>1. exec[e] # Idle /\ s \in Sessions
  BY UnderWay
<1>2. Kin(r, r)
  BY <1>1 DEF Kin, PayoutInv, Owned, SessOk, PayOk, SessFields
<1> HIDE DEF r
<1>3. Kin(w, r)
  BY <1>2, WithCanisterKin
<1>4. SpawnFails(e, s, w, at, action)
  BY DEF r
<1> HIDE DEF w
<1>5. SessOnly(s) /\ ExecOnly(e) /\ exec'[e] = Idle /\ Kin(sess'[s], w)
  BY <1>1, <1>3, <1>4, FailsIsKin DEF Kin
<1>6. Kin(sess'[s], r)
  BY <1>3, <1>5, KinTrans
<1>7. Kin(sess'[s], [sess[s] EXCEPT !.rel = rec])
  BY <1>6 DEF r
<1> QED BY <1>1, <1>5, <1>7, WriteKeeps

\* A nonce is reserved: the draft that gets it owns it, and so does nobody else.
LEMMA NonceReplyKeeps ==
  ASSUME NEW own, PayoutInv(own), NEW e \in Execs, NonceReply(e), UNCHANGED call
  PROVE  (\E own2 : PayoutInv(own2)') /\ SettledForGood
<1> DEFINE x == exec[e]
           s == x.session
           n == ReservedNonce(PendingNonce)
           own2 == [m \in Nat |-> IF m = n THEN <<"release", s>> ELSE own[m]]
<1>1. /\ x # Idle /\ ExecFields \subseteq DOMAIN x /\ s \in Sessions /\ PcOk(x) /\ x.pc = "nonce"
  BY UnderWay DEF NonceReply
<1>2. n \in Nat /\ n >= nonceCursor /\ nonceCursor \in Nat
  BY ReservedIsFresh DEF PayoutInv, Shape
<1>3. nonceCursor' = n + 1 /\ UNCHANGED <<sess, registry, mempool, mined, final>>
  BY DEF NonceReply, payoutVars
<1> HIDE DEF n
<1>4. Extends(own, nonceCursor, own2, nonceCursor')
  BY <1>2, <1>3 DEF Extends
<1>5. own2[n] = <<"release", s>>
  BY <1>2
<1> HIDE DEF own2
<1>6. PoolEffect(own2) /\ RegistryEffect
  BY <1>3, <1>4, TxGrows DEF PoolEffect, RegistryEffect, PayoutInv, Shape, Owned
<1>7. SessOk(own2, nonceCursor', s, sess'[s])
  BY <1>1, <1>3, <1>4, RecGrows DEF PayoutInv, Owned, SessOk
<1>8. ExecOnly(e)
  BY DEF NonceReply, Waits, EndsWith, Ends, ExecOnly, PayoutInv, Shape
<1>9. CASE GuardHolds(x)
  <2> DEFINE y == [x EXCEPT !.pc = "sign", !.draft = Record(n, NoTx, FALSE)]
  <2>1. exec'[e] = y
    BY <1>9 DEF NonceReply, Waits, PayoutInv, Shape, n
  <2>2. /\ ExecFields \subseteq DOMAIN y /\ y.session = s /\ y.rel = x.rel /\ y.pc = "sign"
        /\ y.draft = Record(n, NoTx, FALSE)
    BY <1>1 DEF ExecFields
  <2> HIDE DEF y
  <2>3. y.draft.nonce = n /\ y.draft # NoRecord
    BY <1>2, <2>2 DEF Record, NoRecord, NoNonce
  <2>4. RecOk(own2, nonceCursor', y.draft, "release", s)
    BY <1>2, <1>3, <1>5, <2>2 DEF RecOk, Record
  <2>5. RecOk(own2, nonceCursor', x.rel, "release", s)
    BY <1>1, <1>4, RecGrows DEF PayoutInv, Owned, ExecOk
  <2>6. PcOk(y)
    BY <1>1, <2>2, <2>3 DEF PcOk
  <2>7. ExecOk(own2, nonceCursor', exec'[e])
    BY <1>1, <2>1, <2>2, <2>4, <2>5, <2>6 DEF ExecOk
  <2>8. RelFate(e, s) /\ ExecFate(e, s)
    BY <1>1, <1>2, <1>3, <2>1, <2>2, <2>3 DEF RelFate, ExecFate
  <2>9. ExecEffect(own2, e, s)
    BY <1>1, <1>3, <1>7, <1>8, <2>1, <2>2, <2>7, <2>8
       DEF ExecEffect, ExecOnly, PayoutInv, Shape, Settled
  <2> QED BY <1>1, <1>4, <1>6, <2>9, ExecEffectKeeps
<1>10. CASE ~ GuardHolds(x)
  <2>1. exec'[e] = Idle
    BY <1>10 DEF NonceReply, EndsWith, Ends, PayoutInv, Shape
  <2>2. RelFate(e, s) /\ ExecFate(e, s) /\ ExecOk(own2, nonceCursor', exec'[e])
        /\ exec'[e].pc # "rehandoff"
    BY <1>3, <2>1 DEF RelFate, ExecFate, ExecOk, Idle
  <2>3. ExecEffect(own2, e, s)
    BY <1>1, <1>3, <1>7, <1>8, <2>2 DEF ExecEffect, ExecOnly, PayoutInv, Shape, Settled
  <2> QED BY <1>1, <1>4, <1>6, <2>3, ExecEffectKeeps
<1> QED BY <1>9, <1>10

\* The execution goes on with its draft signed, accepted by a node, or acknowledged.
LEMMA DraftMoves ==
  ASSUME NEW own, PayoutInv(own), NEW e \in Execs, exec[e].pc \in {"sign", "send", "sent"},
         NEW rec, NEW pc, ExecOnly(e), exec'[e] = [exec[e] EXCEPT !.pc = pc, !.draft = rec],
         rec.nonce = exec[e].draft.nonce, rec # NoRecord,
         RecOk(own, nonceCursor, rec, "release", exec[e].session),
         \/ pc \in {"send", "sent"} /\ rec.tx # NoTx
         \/ pc = "confirm" /\ rec.acked,
         UNCHANGED <<sess, registry, nonceCursor>>, PoolEffect(own)
  PROVE  PayoutInv(own)' /\ SettledForGood
<1> DEFINE x == exec[e]
           y == [x EXCEPT !.pc = pc, !.draft = rec]
           s == x.session
<1>1. /\ x # Idle /\ ExecFields \subseteq DOMAIN x /\ s \in Sessions /\ PcOk(x)
  BY UnderWay
<1>2. /\ ExecFields \subseteq DOMAIN y /\ y.session = s /\ y.rel = x.rel /\ y.pc = pc /\ y.draft = rec
  BY <1>1 DEF ExecFields
<1> HIDE DEF y
<1>3. PcOk(y)
  BY <1>1, <1>2 DEF PcOk
<1>4. ExecOk(own, nonceCursor', exec'[e])
  BY <1>1, <1>2, <1>3 DEF ExecOk, PayoutInv, Owned, y
<1>5. RelFate(e, s) /\ ExecFate(e, s)
  BY <1>1, <1>2 DEF RelFate, ExecFate, PcOk, y
<1>6. SessOk(own, nonceCursor', s, sess'[s])
  BY <1>1 DEF PayoutInv, Owned
<1>7. exec'[e].pc # "rehandoff"
  BY <1>2 DEF y
<1>8. ExecEffect(own, e, s)
  BY <1>1, <1>4, <1>5, <1>6, <1>7 DEF ExecEffect, ExecOnly, PayoutInv, Shape, Settled
<1>9. RegistryEffect
  BY DEF RegistryEffect
<1> QED BY <1>1, <1>8, <1>9, SameCursor, ExecEffectKeeps

\* Every step of a release keeps the invariant, with the new nonce's owner if it reserves one.
LEMMA ReleaseKeeps ==
  ASSUME NEW own, PayoutInv(own), NEW e \in Execs, ReleaseStep(e), UNCHANGED call
  PROVE  (\E own2 : PayoutInv(own2)') /\ SettledForGood
<1> DEFINE x == exec[e]
           s == x.session
           Goal == PayoutInv(own)' /\ SettledForGood
<1>0. x.pc # "idle"
  BY DEF ReleaseStep, NonceFails, NonceReply, SignFails, Signed, SendArrives, SendFails, Sent,
         ConfirmOldReply, ConfirmReply, ResumeReply, RehandoffFails, Rehandoff
<1>1. /\ x # Idle /\ ExecFields \subseteq DOMAIN x /\ s \in Sessions /\ PcOk(x)
      /\ SessFields \subseteq DOMAIN sess[s]
  BY <1>0, UnderWay
<1>2. Kin(sess[s], sess[s]) /\ \A c : Kin(WithCanister(sess[s], c), sess[s])
  BY <1>1, KinSelf, WithCanisterKin
<1>3. ASSUME NoPayout, Stale(e, x) PROVE Goal
  BY <1>1, <1>3, StaleKeeps
<1>4. ASSUME NoPayout, GuardHolds(x), NEW rec, BroadcastFails(e, x, rec),
             rec = x.rel \/ (rec = x.draft /\ rec # NoRecord)
      PROVE  Goal
  BY <1>0, <1>4, FailedWriteKeeps DEF BroadcastFails
<1>5. ASSUME NoPayout, GuardHolds(x), NEW rec, Completes(e, x, rec),
             rec = x.rel \/ rec = x.draft, rec.acked, "confirmed" \in Receipts(rec.tx)
      PROVE  Goal
  <2>1. Settles(rec.tx)
    BY <1>5, ConfirmedSettles DEF PayoutInv
  <2> QED BY <1>1, <1>5, <2>1, CompletesKeeps
<1>6. ASSUME NoPayout, GuardHolds(x), NEW rec, StaysBroadcasting(e, x, rec),
             rec = x.rel \/ (rec = x.draft /\ rec # NoRecord)
      PROVE  Goal
  BY <1>0, <1>6, StaysKeeps
<1>7. CASE NonceFails(e)
  <2>1. NoPayout /\ UNCHANGED registry
    BY <1>7 DEF NonceFails, NoPayout, payoutVars
  <2>2. SpawnFails(e, s, WithCanister(sess[s], x.can), now, "Backoff")
    BY <1>7 DEF NonceFails
  <2> QED BY <1>1, <1>2, <2>1, <2>2, FailsKeeps
<1>8. CASE NonceReply(e)
  BY <1>8, NonceReplyKeeps
<1>9. CASE SignFails(e) \/ SendFails(e)
  <2>1. NoPayout /\ x.draft # NoRecord
    BY <1>1, <1>9 DEF SignFails, SendFails, NoPayout, payoutVars, PcOk
  <2>2. Stale(e, x) \/ (GuardHolds(x) /\ BroadcastFails(e, x, x.draft))
    BY <1>9 DEF SignFails, SendFails
  <2> QED BY <1>3, <1>4, <2>1, <2>2
<1>10. CASE Signed(e)
  <2>1. NoPayout /\ x.pc = "sign" /\ x.draft # NoRecord
    BY <1>1, <1>10 DEF Signed, NoPayout, payoutVars, PcOk
  <2> DEFINE tx == Tx("release", s, x.draft.nonce, x.can)
             rec == [x.draft EXCEPT !.tx = tx]
  <2>2. CASE GuardHolds(x) /\ Waits(e, [x EXCEPT !.pc = "send", !.draft.tx = tx])
             /\ UNCHANGED <<sess, registry>>
    <3>1. ExecOnly(e) /\ exec'[e] = [x EXCEPT !.pc = "send", !.draft = rec]
      BY <1>1, <2>2 DEF Waits, ExecOnly, PayoutInv, Shape, ExecFields
    <3>2. RecOk(own, nonceCursor, x.draft, "release", s)
      BY <1>1 DEF PayoutInv, Owned, ExecOk
    <3>3. tx.kind = "release" /\ tx.session = s /\ tx.nonce = x.draft.nonce /\ tx # NoTx
      BY DEF Tx, NoTx
    <3> HIDE DEF tx
    <3>4. /\ {"nonce", "tx", "acked"} \subseteq DOMAIN rec /\ rec.nonce = x.draft.nonce
          /\ rec.tx = tx
      BY <2>1, <3>2 DEF RecOk
    <3> HIDE DEF rec
    <3>5. RecOk(own, nonceCursor, rec, "release", s) /\ rec # NoRecord
      BY <2>1, <3>2, <3>3, <3>4 DEF RecOk, TxOk, NoRecord
    <3>6. PoolEffect(own)
      BY <2>1 DEF NoPayout, PoolEffect, PayoutInv, Shape, Owned
    <3> QED BY <2>1, <2>2, <3>1, <3>3, <3>4, <3>5, <3>6, DraftMoves DEF NoPayout
  <2>3. \/ Stale(e, x)
        \/ GuardHolds(x) /\ Waits(e, [x EXCEPT !.pc = "send", !.draft.tx = tx])
           /\ UNCHANGED <<sess, registry>>
    BY <1>10 DEF Signed
  <2> QED BY <1>3, <2>1, <2>2, <2>3
<1>11. CASE SendArrives(e)
  <2>1. /\ x.pc = "send" /\ x.draft # NoRecord /\ x.draft.tx # NoTx
        /\ RecOk(own, nonceCursor, x.draft, "release", s)
        /\ UNCHANGED <<sess, registry, nonceCursor, mined, final>>
        /\ mempool' = mempool \cup {x.draft.tx}
    BY <1>1, <1>11 DEF SendArrives, Accept, PcOk, PayoutInv, Owned, ExecOk
  <2>2. PoolEffect(own)
    <3>1. TxOk(own, nonceCursor, x.draft.tx)
      BY <2>1 DEF RecOk
    <3>2. IsFiniteSet(mempool')
      BY <2>1, FS_AddElement DEF PayoutInv, Shape
    <3> QED BY <2>1, <3>1, <3>2 DEF PoolEffect, PayoutInv, Shape, Owned
  <2>3. ExecOnly(e) /\ exec'[e] = [x EXCEPT !.pc = "sent", !.draft = x.draft]
    <3>1. [x EXCEPT !.pc = "sent"] = [x EXCEPT !.pc = "sent", !.draft = x.draft]
      BY <1>1 DEF ExecFields
    <3> QED BY <1>11, <3>1 DEF SendArrives, Waits, ExecOnly, PayoutInv, Shape
  <2> QED BY <2>1, <2>2, <2>3, DraftMoves
<1>12. CASE Sent(e)
  <2>1. NoPayout /\ x.pc = "sent" /\ x.draft # NoRecord /\ x.draft.tx # NoTx
    BY <1>1, <1>12 DEF Sent, NoPayout, payoutVars, PcOk
  <2> DEFINE rec == [x.draft EXCEPT !.acked = TRUE]
  <2>2. CASE GuardHolds(x) /\ Waits(e, [x EXCEPT !.pc = "confirm", !.draft.acked = TRUE])
             /\ UNCHANGED <<sess, registry>>
    <3>1. ExecOnly(e) /\ exec'[e] = [x EXCEPT !.pc = "confirm", !.draft = rec]
      BY <1>1, <2>2 DEF Waits, ExecOnly, PayoutInv, Shape, ExecFields
    <3>2. RecOk(own, nonceCursor, x.draft, "release", s)
      BY <1>1 DEF PayoutInv, Owned, ExecOk
    <3>3. /\ {"nonce", "tx", "acked"} \subseteq DOMAIN rec /\ rec.nonce = x.draft.nonce
          /\ rec.tx = x.draft.tx /\ rec.acked
      BY <2>1, <3>2 DEF RecOk
    <3> HIDE DEF rec
    <3>4. RecOk(own, nonceCursor, rec, "release", s) /\ rec # NoRecord
      BY <2>1, <3>2, <3>3 DEF RecOk, NoRecord
    <3>5. PoolEffect(own)
      BY <2>1 DEF NoPayout, PoolEffect, PayoutInv, Shape, Owned
    <3> QED BY <2>1, <2>2, <3>1, <3>3, <3>4, <3>5, DraftMoves DEF NoPayout
  <2>3. \/ Stale(e, x)
        \/ GuardHolds(x) /\ Waits(e, [x EXCEPT !.pc = "confirm", !.draft.acked = TRUE])
           /\ UNCHANGED <<sess, registry>>
    BY <1>12 DEF Sent
  <2> QED BY <1>3, <2>1, <2>2, <2>3
<1>13. ASSUME NEW receipt \in {"confirmed", "pending", "rpcError", "reverted", "forked"},
              ConfirmOldReply(e, receipt)
       PROVE  Goal
  <2>1. NoPayout /\ x.rel.acked
    BY <1>1, <1>13 DEF ConfirmOldReply, NoPayout, payoutVars, PcOk
  <2>2. \/ Stale(e, x)
        \/ /\ GuardHolds(x)
           /\ \/ Completes(e, x, x.rel) /\ "confirmed" \in Receipts(x.rel.tx)
              \/ StaysBroadcasting(e, x, x.rel)
              \/ BroadcastFails(e, x, x.rel)
    BY <1>13 DEF ConfirmOldReply
  <2> HIDE DEF Goal
  <2> QED BY <1>3, <1>4, <1>5, <1>6, <2>1, <2>2
<1>14. ASSUME NEW receipt \in {"confirmed", "pending", "rpcError", "reverted", "forked"},
              ConfirmReply(e, receipt)
       PROVE  Goal
  <2>1. NoPayout /\ x.draft.acked /\ x.draft # NoRecord
    BY <1>1, <1>14 DEF ConfirmReply, NoPayout, payoutVars, PcOk
  <2>2. \/ Stale(e, x)
        \/ /\ GuardHolds(x)
           /\ \/ Completes(e, x, x.draft) /\ "confirmed" \in Receipts(x.draft.tx)
              \/ StaysBroadcasting(e, x, x.draft)
              \/ BroadcastFails(e, x, x.draft)
    BY <1>14 DEF ConfirmReply
  <2> HIDE DEF Goal
  <2> QED BY <1>3, <1>4, <1>5, <1>6, <2>1, <2>2
<1>15. ASSUME NEW receipt \in {"confirmed", "pending", "rpcError", "reverted", "forked"},
              ResumeReply(e, receipt)
       PROVE  Goal
  <2>1. NoPayout /\ x.pc = "resume"
    BY <1>15 DEF ResumeReply, NoPayout, payoutVars
  <2>2. CASE Stale(e, x)
    BY <1>3, <2>1, <2>2
  <2>3. CASE ~ Stale(e, x)
    <3>1. GuardHolds(x) /\ UNCHANGED registry /\ receipt \in Receipts(x.rel.tx)
      BY <1>15, <2>3 DEF ResumeReply
    <3>2. CASE receipt = "confirmed"
      <4>1. Waits(e, [x EXCEPT !.pc = "rehandoff"]) /\ UNCHANGED sess
        BY <1>15, <2>3, <3>2 DEF ResumeReply
      <4>2. /\ ExecOnly(e) /\ ExecFields \subseteq DOMAIN exec'[e] /\ exec'[e].pc = "rehandoff"
            /\ exec'[e].session = s /\ exec'[e].rel = x.rel /\ exec'[e].draft = x.draft
        BY <1>1, <4>1 DEF Waits, ExecOnly, ExecFields, PayoutInv, Shape
      <4>3. PcOk(exec'[e])
        BY <1>1, <2>1, <4>2 DEF PcOk
      <4>4. Settles(x.rel.tx)
        BY <3>1, <3>2, ConfirmedSettles DEF PayoutInv
      <4>5. SessOnly(s) /\ Kin(sess'[s], sess[s])
        BY <1>1, <4>1, SessSame
      <4> QED BY <1>1, <2>1, <3>1, <4>2, <4>3, <4>4, <4>5, GoesOnKeeps
    <3>3. CASE receipt \in {"pending", "rpcError"}
      <4>1. EndsWith(e, s, "Backoff") /\ sess' = [sess EXCEPT ![s].rel = x.rel]
        BY <1>15, <2>3, <3>3 DEF ResumeReply
      <4> DEFINE r == [sess[s] EXCEPT !.rel = x.rel]
      <4>3. SessOnly(s) /\ sess'[s] = r /\ ExecOnly(e) /\ exec'[e] = Idle
        BY <1>1, <4>1 DEF EndsWith, Ends, SessOnly, ExecOnly, PayoutInv, Shape
      <4>4. Kin(r, r)
        BY <1>1 DEF Kin, PayoutInv, Owned, SessOk, PayOk, SessFields
      <4> QED BY <1>1, <2>1, <3>1, <4>3, <4>4, WriteKeeps
    <3>4. CASE receipt \in {"reverted", "forked"}
      <4>1. SpawnFails(e, s, WithCanister([sess[s] EXCEPT !.rel = x.rel], x.can), x.at, "Backoff")
        BY <1>15, <2>3, <3>4 DEF ResumeReply
      <4> QED BY <1>0, <2>1, <3>1, <4>1, FailedWriteKeeps
    <3> QED BY <3>2, <3>3, <3>4
  <2> QED BY <2>2, <2>3
<1>16. CASE RehandoffFails(e)
  <2>1. NoPayout /\ UNCHANGED <<sess, registry>> /\ ExecOnly(e) /\ exec'[e] = Idle
    BY <1>16 DEF RehandoffFails, NoPayout, payoutVars, EndsWith, Ends, ExecOnly, PayoutInv, Shape
  <2>2. SessOnly(s) /\ Kin(sess'[s], sess[s])
    BY <1>1, <2>1, SessSame
  <2> QED BY <1>1, <2>1, <2>2, EndsKeeps
<1>17. CASE Rehandoff(e)
  <2>1. NoPayout /\ x.rel.acked /\ Settles(x.rel.tx)
    BY <1>1, <1>17 DEF Rehandoff, NoPayout, payoutVars, PcOk, PayoutInv, Settled
  <2>2. Stale(e, x) \/ (GuardHolds(x) /\ Completes(e, x, x.rel))
    BY <1>17 DEF Rehandoff
  <2>3. CASE GuardHolds(x) /\ Completes(e, x, x.rel)
    BY <1>1, <2>1, <2>3, CompletesKeeps
  <2> QED BY <1>3, <2>1, <2>2, <2>3
<1> QED BY <1>7, <1>8, <1>9, <1>10, <1>11, <1>12, <1>13, <1>14, <1>15, <1>16, <1>17 DEF ReleaseStep

(***************************************************************************)
(* The environment.                                                        *)
(***************************************************************************)
\* A chain step that keeps the final blocks, and adds no transaction of anybody else.
LEMMA ChainEffectKeeps ==
  ASSUME NEW own, PayoutInv(own), ChainKept, IsFiniteSet(mempool'), Table(mined'),
         final' <= Len(mined'),
         \A tx \in mempool' : TxOk(own, nonceCursor, tx),
         \A i \in 1 .. Len(mined') : TxOk(own, nonceCursor, mined'[i]),
         UNCHANGED <<sess, exec, call, nonceCursor, registry>>
  PROVE  PayoutInv(own)' /\ SettledForGood
<1>1. Shape' /\ Owned(own)' /\ DraftsPrivate' /\ GuardIsExact'
  BY DEF PayoutInv, Shape, Owned, DraftsPrivate, GuardIsExact, GuardHolds, ChainKept
<1>2. Settled'
  <2>1. /\ \A tx : Settles(tx) => Settles(tx)'
        /\ \A t, kind : SettledBy(t, kind) => SettledBy(t, kind)'
    BY SettlementStays
  <2>2. /\ \A s \in Sessions : sess[s].state = "Complete" => Settles(sess[s].rel.tx)'
        /\ \A e \in Execs : exec[e].pc = "rehandoff" => Settles(exec[e].rel.tx)'
    <3>1. ASSUME NEW s \in Sessions, sess[s].state = "Complete" PROVE Settles(sess[s].rel.tx)'
      <4>1. PICK i \in 1 .. final : mined[i] = sess[s].rel.tx /\ Succeeded(i)
        BY <3>1 DEF PayoutInv, Settled, Settles
      <4>2. i \in 1 .. final' /\ mined'[i] = sess'[s].rel.tx /\ Succeeded(i)'
        BY <4>1 DEF ChainKept, Succeeded
      <4> QED BY <4>2 DEF Settles
    <3>2. ASSUME NEW e \in Execs, exec[e].pc = "rehandoff" PROVE Settles(exec[e].rel.tx)'
      <4>1. PICK i \in 1 .. final : mined[i] = exec[e].rel.tx /\ Succeeded(i)
        BY <3>2 DEF PayoutInv, Settled, Settles
      <4>2. i \in 1 .. final' /\ mined'[i] = exec'[e].rel.tx /\ Succeeded(i)'
        BY <4>1 DEF ChainKept, Succeeded
      <4> QED BY <4>2 DEF Settles
    <3> QED BY <3>1, <3>2
  <2> QED BY <2>1, <2>2 DEF PayoutInv, Settled
<1>3. SettledForGood
  BY DEF SettledForGood, PayoutInv, Owned, SessOk, PayOk
<1> QED BY <1>1, <1>2, <1>3 DEF PayoutInv

\* Transactions are mined in the order of their nonces, become final, or go back.
LEMMA ChainStepKeeps ==
  ASSUME NEW own, PayoutInv(own), ChainStep, UNCHANGED call
  PROVE  PayoutInv(own)' /\ SettledForGood
<1>1. Shape /\ Len(mined) \in Nat /\ Table(mined)
      /\ UNCHANGED <<sess, exec, call, nonceCursor, registry>>
  BY TableDomain DEF PayoutInv, Shape, ChainStep, factoryVars
<1>2. ASSUME NEW tx \in mempool, MineTx(tx) PROVE PayoutInv(own)' /\ SettledForGood
  <2>1. /\ Table(mined') /\ Len(mined') = Len(mined) + 1 /\ mined'[Len(mined) + 1] = tx
        /\ \A j \in 1 .. Len(mined) : mined'[j] = mined[j]
    BY <1>1, <1>2, AppendTable DEF MineTx
  <2>2. mempool' = mempool \ {tx} /\ final' = final /\ IsFiniteSet(mempool')
    BY <1>1, <1>2, FS_RemoveElement DEF MineTx, Shape
  <2>3. ChainKept /\ final' <= Len(mined')
    BY <1>1, <2>1, <2>2 DEF ChainKept, Shape
  <2>4. \A i \in 1 .. Len(mined') : TxOk(own, nonceCursor, mined'[i])
    <3> TAKE i \in 1 .. Len(mined')
    <3>1. i \in 1 .. Len(mined) \/ i = Len(mined) + 1
      BY <1>1, <2>1
    <3> QED BY <2>1, <3>1 DEF PayoutInv, Owned
  <2> QED BY <1>1, <2>1, <2>2, <2>3, <2>4, ChainEffectKeeps DEF PayoutInv, Owned
<1>3. CASE Finalize
  <2>1. ChainKept /\ final' <= Len(mined') /\ UNCHANGED <<mempool, mined>>
    BY <1>1, <1>3 DEF Finalize, ChainKept, Shape
  <2> QED BY <1>1, <2>1, ChainEffectKeeps DEF PayoutInv, Owned, Shape
<1>4. ASSUME NEW dropped \in BOOLEAN, ReorgTx(dropped) PROVE PayoutInv(own)' /\ SettledForGood
  <2>1. Len(mined) > 0 /\ final < Len(mined) /\ final' = final
    BY <1>1, <1>4 DEF ReorgTx, Shape
  <2>2. /\ Table(mined') /\ Len(mined') = Len(mined) - 1
        /\ \A j \in 1 .. Len(mined) - 1 : mined'[j] = mined[j]
    BY <1>1, <1>4, <2>1, CutTable DEF ReorgTx
  <2>3. ChainKept /\ final' <= Len(mined')
    BY <1>1, <2>1, <2>2 DEF ChainKept, Shape
  <2>4. IsFiniteSet(mempool') /\ \A tx \in mempool' : TxOk(own, nonceCursor, tx)
    <3>1. mempool' = mempool \/ mempool' = mempool \cup {mined[Len(mined)]}
      BY <1>4 DEF ReorgTx
    <3>2. TxOk(own, nonceCursor, mined[Len(mined)])
      BY <1>1, <2>1 DEF PayoutInv, Owned
    <3> QED BY <1>1, <3>1, <3>2, FS_AddElement DEF PayoutInv, Owned, Shape
  <2>5. \A i \in 1 .. Len(mined') : TxOk(own, nonceCursor, mined'[i])
    BY <1>1, <2>2 DEF PayoutInv, Owned
  <2> QED BY <1>1, <2>2, <2>3, <2>4, <2>5, ChainEffectKeeps
<1> QED BY <1>2, <1>3, <1>4 DEF ChainStep

\* A lost execution and a retry.
LEMMA LoseKeeps ==
  ASSUME NEW own, PayoutInv(own), NEW e \in Execs, Lose(e), UNCHANGED call
  PROVE  PayoutInv(own)' /\ SettledForGood
<1>1. exec[e] # Idle
  BY DEF Lose
<1>2. exec[e].session \in Sessions
  BY <1>1 DEF PayoutInv, Owned, ExecOk
<1>3. SessOnly(exec[e].session) /\ Kin(sess'[exec[e].session], sess[exec[e].session])
  BY <1>2, SessSame DEF Lose
<1>4. ExecOnly(e) /\ exec'[e] = Idle /\ NoPayout /\ UNCHANGED registry
  BY DEF Lose, ExecOnly, NoPayout, payoutVars, PayoutInv, Shape
<1> QED BY <1>2, <1>3, <1>4, EndsKeeps

(***************************************************************************)
(* Refund commands.                                                        *)
(***************************************************************************)
\* What a step of a refund command, or a retry, may do.
CallEffect(own, s) ==
  /\ SessOnly(s) /\ DOMAIN call' = Calls /\ \A k \in Calls : CallOk(own, nonceCursor', call'[k])
  /\ SessOk(own, nonceCursor', s, sess'[s])
  /\ sess'[s].rel = sess[s].rel
  /\ sess'[s].state = "Complete" <=> sess[s].state = "Complete"
  /\ sess'[s].pay = sess[s].pay \/ (sess'[s].pay = "Refunded" /\ SettledBy(s, "refund"))
  /\ UNCHANGED <<exec, registry, mined, final>>
  /\ IsFiniteSet(mempool') /\ \A tx \in mempool' : TxOk(own, nonceCursor', tx)

\* A step of a refund command keeps the invariant, and what is settled.
LEMMA CallEffectKeeps ==
  ASSUME NEW own, PayoutInv(own), NEW own2, Extends(own, nonceCursor, own2, nonceCursor'),
         NEW s \in Sessions, CallEffect(own2, s)
  PROVE  PayoutInv(own2)' /\ SettledForGood
<1>1. Shape'
  BY DEF PayoutInv, Shape, CallEffect, SessOnly, Extends
<1>2. Owned(own2)'
  <2>1. \A tx \in mempool' : TxOk(own2, nonceCursor', tx)
    BY DEF CallEffect
  <2>2. \A i \in 1 .. Len(mined') : TxOk(own2, nonceCursor', mined'[i])
    BY TxGrows DEF PayoutInv, Owned, CallEffect
  <2>3. ASSUME NEW t \in Sessions PROVE SessOk(own2, nonceCursor', t, sess'[t])
    <3>1. CASE t = s
      BY <3>1 DEF CallEffect
    <3>2. CASE t # s
      <4>1. SessOk(own, nonceCursor, t, sess[t]) /\ sess'[t] = sess[t]
        BY <3>2 DEF CallEffect, SessOnly, PayoutInv, Owned
      <4> QED BY <4>1, RecGrows DEF SessOk
    <3> QED BY <3>1, <3>2
  <2>4. ASSUME NEW f \in Execs PROVE ExecOk(own2, nonceCursor', exec'[f])
    <3>1. ExecOk(own, nonceCursor, exec[f]) /\ exec'[f] = exec[f]
      BY DEF CallEffect, PayoutInv, Owned
    <3> QED BY <3>1, RecGrows DEF ExecOk
  <2>5. \A k \in Calls : CallOk(own2, nonceCursor', call'[k])
    BY DEF CallEffect
  <2> QED BY <2>1, <2>2, <2>3, <2>4, <2>5 DEF Owned
<1>3. \A t \in Sessions : sess'[t].rel = sess[t].rel
  BY DEF CallEffect, SessOnly
<1>4. DraftsPrivate' /\ GuardIsExact'
  <2>1. \A e \in Execs : exec[e] # Idle => exec[e].session \in Sessions
    BY DEF PayoutInv, Owned, ExecOk
  <2> QED BY <1>3, <2>1 DEF PayoutInv, CallEffect, DraftsPrivate, GuardIsExact, GuardHolds
<1>5. Settled'
  <2>1. ASSUME NEW t \in Sessions
        PROVE  /\ sess'[t].state = "Complete" => sess'[t].rel.acked /\ Settles(sess'[t].rel.tx)
               /\ sess'[t].pay = "Refunded" => SettledBy(t, "refund")
    BY DEF CallEffect, SessOnly, PayoutInv, Settled
  <2> QED BY <2>1 DEF PayoutInv, Settled, CallEffect, Settles, SettledBy, Succeeded
<1>6. SettledForGood
  <2> SUFFICES ASSUME NEW t \in Sessions
               PROVE  /\ sess[t].state = "Complete" => sess'[t].state = "Complete" /\ sess'[t].pay = "Paid"
                      /\ sess[t].pay = "Refunded" => sess'[t].pay = "Refunded" /\ sess'[t].state # "Complete"
    BY DEF SettledForGood
  <2>1. SessOk(own2, nonceCursor', t, sess'[t])
    BY <1>2 DEF Owned
  <2>2. /\ sess'[t].pay = sess[t].pay \/ sess'[t].pay = "Refunded"
        /\ sess'[t].state = "Complete" <=> sess[t].state = "Complete"
    BY DEF CallEffect, SessOnly
  <2> QED BY <2>1, <2>2 DEF SessOk, PayOk
<1> QED BY <1>1, <1>2, <1>4, <1>5, <1>6 DEF PayoutInv

CallOnly(k) == DOMAIN call' = Calls /\ \A l \in Calls : l # k => call'[l] = call[l]

Payouts == <<exec, registry, nonceCursor, mempool, mined, final>>

\* A step that reserves no nonce and sends nothing.
LEMMA CallKeeps ==
  ASSUME NEW own, PayoutInv(own), NEW k \in Calls, NEW s \in Sessions, SessOnly(s),
         SessFields \subseteq DOMAIN sess'[s], PayOk(sess'[s]), sess'[s].rel = sess[s].rel,
         RecOk(own, nonceCursor, sess'[s].refund, "refund", s),
         sess'[s].state = "Complete" <=> sess[s].state = "Complete",
         sess'[s].pay = sess[s].pay \/ (sess'[s].pay = "Refunded" /\ SettledBy(s, "refund")),
         CallOnly(k), CallOk(own, nonceCursor, call'[k]), UNCHANGED Payouts
  PROVE  PayoutInv(own)' /\ SettledForGood
<1>1. Extends(own, nonceCursor, own, nonceCursor')
  BY SameCursor DEF Payouts
<1>2. SessOk(own, nonceCursor', s, sess'[s])
  BY DEF SessOk, PayoutInv, Owned, Payouts
<1>3. \A l \in Calls : CallOk(own, nonceCursor', call'[l])
  BY DEF CallOnly, PayoutInv, Owned, Payouts
<1>4. CallEffect(own, s)
  BY <1>2, <1>3 DEF CallEffect, CallOnly, Payouts, PayoutInv, Shape, Owned
<1> QED BY <1>1, <1>4, CallEffectKeeps

\* A step that leaves the sessions alone, or expires one.
LEMMA CallKinKeeps ==
  ASSUME NEW own, PayoutInv(own), NEW k \in Calls, NEW s \in Sessions, SessOnly(s),
         Kin(sess'[s], sess[s]), CallOnly(k), CallOk(own, nonceCursor, call'[k]), UNCHANGED Payouts
  PROVE  PayoutInv(own)' /\ SettledForGood
<1>1. RecOk(own, nonceCursor, sess'[s].refund, "refund", s)
  BY DEF Kin, PayoutInv, Owned, SessOk
<1> QED BY <1>1, CallKeeps DEF Kin

\* A step that writes a refund record.
LEMMA CallSaves ==
  ASSUME NEW own, PayoutInv(own), NEW k \in Calls, NEW s \in Sessions,
         NEW rec, RecOk(own, nonceCursor, rec, "refund", s), SaveRefund(s, rec),
         CallOnly(k), CallOk(own, nonceCursor, call'[k]), UNCHANGED Payouts
  PROVE  PayoutInv(own)' /\ SettledForGood
<1>1. SessOnly(s) /\ sess'[s] = [sess[s] EXCEPT !.refund = rec]
  BY DEF SaveRefund, SessOnly, PayoutInv, Shape
<1>2. SessFields \subseteq DOMAIN sess[s] /\ PayOk(sess[s])
  BY DEF PayoutInv, Owned, SessOk
<1>3. /\ SessFields \subseteq DOMAIN sess'[s] /\ sess'[s].refund = rec /\ sess'[s].rel = sess[s].rel
      /\ sess'[s].state = sess[s].state /\ sess'[s].pay = sess[s].pay /\ PayOk(sess'[s])
  BY <1>1, <1>2 DEF SessFields, PayOk
<1> QED BY <1>1, <1>3, CallKeeps

\* A command under way has a session and a record of its own.
LEMMA CallUnderWay ==
  ASSUME NEW own, PayoutInv(own), NEW k \in Calls, call[k] # Idle
  PROVE  /\ CallFields \subseteq DOMAIN call[k] /\ call[k].session \in Sessions
         /\ call[k].pc \in {"sign", "send", "sent"} => call[k].rec # NoRecord
         /\ call[k].pc \in {"send", "sent"} => call[k].rec.tx # NoTx
         /\ RecOk(own, nonceCursor, call[k].rec, "refund", call[k].session)
BY DEF PayoutInv, Owned, CallOk

\* A command whose generation is not current writes nothing.
LEMMA CallStaleKeeps ==
  ASSUME NEW own, PayoutInv(own), NEW k \in Calls, call[k] # Idle, CallStale(k),
         UNCHANGED <<exec, registry, mempool, mined, final>>
  PROVE  PayoutInv(own)' /\ SettledForGood
<1>1. call[k].session \in Sessions
  BY CallUnderWay
<1>2. SessOnly(call[k].session) /\ Kin(sess'[call[k].session], sess[call[k].session])
  BY <1>1, SessSame DEF CallStale
<1>3. CallOnly(k) /\ CallOk(own, nonceCursor, call'[k]) /\ UNCHANGED Payouts
  BY DEF CallStale, CallEnds, CallOnly, CallOk, Payouts, PayoutInv, Shape
<1> QED BY <1>1, <1>2, <1>3, CallKinKeeps

\* A claim expires the session, unless that is of no account.
LEMMA ClaimedKin ==
  ASSUME NEW own, PayoutInv(own), NEW s \in Sessions PROVE Kin(Claimed(s), sess[s])
<1>1. Kin(sess[s], sess[s])
  BY KinSelf
<1>2. Kin(Apply(sess[s], "SessionExpired", now), sess[s])
  BY <1>1, ApplyKin DEF Kin, Events
<1> QED BY <1>1, <1>2 DEF Claimed

\* Claims.
LEMMA ClaimKeeps ==
  ASSUME NEW own, PayoutInv(own), NEW k \in Calls, NEW s \in Sessions, ClaimRefund(k, s)
  PROVE  PayoutInv(own)' /\ SettledForGood
<1> DEFINE rec == sess[s].refund
<1>1. SessOnly(s) /\ Kin(sess'[s], sess[s])
  BY ClaimedKin DEF ClaimRefund, SessOnly, PayoutInv, Shape
<1>2. CallOnly(k) /\ UNCHANGED Payouts
  BY DEF ClaimRefund, CallOnly, Payouts, payoutVars, PayoutInv, Shape
<1>3. /\ CallFields \subseteq DOMAIN call'[k] /\ call'[k].session = s /\ call'[k].rec = rec
      /\ call'[k].pc = CASE rec.acked -> "confirm"
                         [] ~ rec.acked /\ rec.tx # NoTx -> "send"
                         [] OTHER -> "nonce"
  BY DEF ClaimRefund, CallFields, PayoutInv, Shape
<1>4. RecOk(own, nonceCursor, rec, "refund", s)
  BY DEF PayoutInv, Owned, SessOk
<1>5. rec.tx # NoTx => rec # NoRecord
  BY DEF NoRecord
<1>6. call'[k].pc \in {"sign", "send", "sent"} => rec.tx # NoTx
  BY <1>3
<1>7. CallOk(own, nonceCursor, call'[k])
  BY <1>3, <1>4, <1>5, <1>6 DEF CallOk
<1> QED BY <1>1, <1>2, <1>7, CallKinKeeps

\* Claims that start no command, and retries.
LEMMA NoCommandKeeps ==
  ASSUME NEW own, PayoutInv(own), NEW s \in Sessions,
         \/ ClaimRefused(s)
         \/ ClaimAgain(s)
         \/ RetrySession(s) /\ UNCHANGED call
  PROVE  PayoutInv(own)' /\ SettledForGood
<1>1. SessOnly(s) /\ Kin(sess'[s], sess[s])
  <2>1. CASE ClaimRefused(s)
    BY <2>1, ClaimedKin DEF ClaimRefused, SessOnly, PayoutInv, Shape
  <2>2. CASE ClaimAgain(s)
    BY <2>2, SessSame DEF ClaimAgain, spawnVars, factoryVars
  <2>3. CASE RetrySession(s)
    <3>1. Kin(Apply(sess[s], "RetryRequested", now), sess[s])
      BY <2>3, KinSelf, ApplyKin DEF RetrySession, Kin, Events
    <3> QED BY <2>3, <3>1 DEF RetrySession, SessOnly, PayoutInv, Shape
  <2> QED BY <2>1, <2>2, <2>3
<1>2. UNCHANGED Payouts /\ UNCHANGED call
  BY DEF ClaimRefused, ClaimAgain, RetrySession, Payouts, payoutVars, spawnVars, factoryVars,
         refundVars
<1>3. CallEffect(own, s)
  <2>1. SessOk(own, nonceCursor', s, sess'[s])
    BY <1>1, <1>2, KinOk DEF PayoutInv, Owned, Payouts
  <2> QED BY <1>1, <1>2, <2>1 DEF CallEffect, Kin, Payouts, PayoutInv, Shape, Owned
<1> QED BY <1>2, <1>3, SameCursor, CallEffectKeeps DEF Payouts

\* The pending nonce arrives: the old draft's nonce, or a new one that the refund owns.
LEMMA RefundNonceKeeps ==
  ASSUME NEW own, PayoutInv(own), NEW k \in Calls, RefundNonce(k)
  PROVE  (\E own2 : PayoutInv(own2)') /\ SettledForGood
<1> DEFINE x == call[k]
           s == x.session
           old == sess[s].refund
           n == ReservedNonce(PendingNonce)
<1>1. call[k] # Idle /\ x.pc = "nonce"
  BY DEF RefundNonce, Idle
<1>2. /\ CallFields \subseteq DOMAIN x /\ s \in Sessions
      /\ UNCHANGED <<exec, registry, mempool, mined, final>>
  BY <1>1, CallUnderWay DEF RefundNonce, payoutVars
<1>3. CASE CallStale(k)
  BY <1>1, <1>2, <1>3, CallStaleKeeps
<1>4. ASSUME NEW own2, NEW cur, NEW m, RecOk(own2, cur, Record(m, NoTx, FALSE), "refund", s),
             m \in Nat,
             CallWaits(k, [x EXCEPT !.pc = "sign", !.rec = Record(m, NoTx, FALSE)])
      PROVE  CallOnly(k) /\ CallOk(own2, cur, call'[k])
  <2>1. CallOnly(k) /\ call'[k] = [x EXCEPT !.pc = "sign", !.rec = Record(m, NoTx, FALSE)]
    BY <1>4 DEF CallWaits, CallOnly, PayoutInv, Shape
  <2>2. /\ CallFields \subseteq DOMAIN call'[k] /\ call'[k].pc = "sign" /\ call'[k].session = s
        /\ call'[k].rec = Record(m, NoTx, FALSE)
    BY <1>2, <2>1 DEF CallFields
  <2>3. Record(m, NoTx, FALSE) # NoRecord
    BY <1>4 DEF Record, NoRecord, NoNonce
  <2> QED BY <1>2, <1>4, <2>1, <2>2, <2>3 DEF CallOk
<1>5. CASE /\ old # NoRecord
           /\ CallWaits(k, [x EXCEPT !.pc = "sign", !.rec = Record(old.nonce, NoTx, FALSE)])
           /\ UNCHANGED <<sess, nonceCursor>>
  <2>1. RecOk(own, nonceCursor, old, "refund", s)
    BY <1>2 DEF PayoutInv, Owned, SessOk
  <2>2. old.nonce \in Nat /\ RecOk(own, nonceCursor, Record(old.nonce, NoTx, FALSE), "refund", s)
    BY <1>5, <2>1 DEF RecOk, Record
  <2>3. CallOnly(k) /\ CallOk(own, nonceCursor, call'[k])
    BY <1>4, <1>5, <2>2
  <2>4. SessOnly(s) /\ Kin(sess'[s], sess[s])
    BY <1>2, <1>5, SessSame
  <2>5. UNCHANGED Payouts
    BY <1>2, <1>5 DEF Payouts
  <2> QED BY <1>2, <2>3, <2>4, <2>5, CallKinKeeps
<1>6. CASE /\ nonceCursor' = n + 1
           /\ SaveRefund(s, Record(n, NoTx, FALSE))
           /\ CallWaits(k, [x EXCEPT !.pc = "sign", !.rec = Record(n, NoTx, FALSE)])
  <2> DEFINE own2 == [m \in Nat |-> IF m = n THEN <<"refund", s>> ELSE own[m]]
             rec == Record(n, NoTx, FALSE)
  <2>1. n \in Nat /\ n >= nonceCursor /\ nonceCursor \in Nat /\ nonceCursor' = n + 1
    BY <1>6, ReservedIsFresh DEF PayoutInv, Shape
  <2> HIDE DEF n
  <2>2. Extends(own, nonceCursor, own2, nonceCursor') /\ own2[n] = <<"refund", s>>
    BY <2>1 DEF Extends
  <2> HIDE DEF own2
  <2>3. RecOk(own2, nonceCursor', rec, "refund", s)
    BY <2>1, <2>2 DEF RecOk, Record
  <2>4. CallOnly(k) /\ CallOk(own2, nonceCursor', call'[k])
    BY <1>4, <1>6, <2>1, <2>3
  <2>5. SessOnly(s) /\ sess'[s] = [sess[s] EXCEPT !.refund = rec]
    BY <1>2, <1>6 DEF SaveRefund, SessOnly, PayoutInv, Shape
  <2> HIDE DEF rec
  <2>6. SessFields \subseteq DOMAIN sess[s] /\ PayOk(sess[s])
        /\ RecOk(own2, nonceCursor', sess[s].rel, "release", s)
    BY <1>2, <2>2, RecGrows DEF PayoutInv, Owned, SessOk
  <2>7. /\ SessFields \subseteq DOMAIN sess'[s] /\ sess'[s].refund = rec /\ sess'[s].rel = sess[s].rel
        /\ sess'[s].state = sess[s].state /\ sess'[s].pay = sess[s].pay /\ PayOk(sess'[s])
    BY <2>5, <2>6 DEF SessFields, PayOk
  <2>8. SessOk(own2, nonceCursor', s, sess'[s])
    BY <2>3, <2>6, <2>7 DEF SessOk
  <2>9. \A l \in Calls : CallOk(own2, nonceCursor', call'[l])
    <3> TAKE l \in Calls
    <3>1. CASE l = k
      BY <2>4, <3>1
    <3>2. CASE l # k
      <4>1. CallOk(own, nonceCursor, call[l]) /\ call'[l] = call[l]
        BY <2>4, <3>2 DEF CallOnly, PayoutInv, Owned
      <4> QED BY <2>2, <4>1, RecGrows DEF CallOk
    <3> QED BY <3>1, <3>2
  <2>10. IsFiniteSet(mempool') /\ \A tx \in mempool' : TxOk(own2, nonceCursor', tx)
    BY <1>2, <2>2, TxGrows DEF PayoutInv, Shape, Owned
  <2>11. CallEffect(own2, s)
    BY <1>2, <2>4, <2>5, <2>7, <2>8, <2>9, <2>10 DEF CallEffect, CallOnly
  <2> QED BY <1>2, <2>2, <2>11, CallEffectKeeps
<1> QED BY <1>3, <1>5, <1>6 DEF RefundNonce

\* The command goes on with its record.
LEMMA CallMoves ==
  ASSUME NEW own, PayoutInv(own), NEW k \in Calls, call[k] # Idle, NEW pc, NEW rec,
         CallWaits(k, [call[k] EXCEPT !.pc = pc, !.rec = rec]),
         RecOk(own, nonceCursor, rec, "refund", call[k].session), rec # NoRecord, rec.tx # NoTx
  PROVE  CallOnly(k) /\ CallOk(own, nonceCursor, call'[k])
<1>1. CallFields \subseteq DOMAIN call[k] /\ call[k].session \in Sessions
  BY CallUnderWay
<1>2. CallOnly(k) /\ call'[k] = [call[k] EXCEPT !.pc = pc, !.rec = rec]
  BY DEF CallWaits, CallOnly, PayoutInv, Shape
<1>3. /\ CallFields \subseteq DOMAIN call'[k] /\ call'[k].session = call[k].session
      /\ call'[k].rec = rec
  BY <1>1, <1>2 DEF CallFields
<1> QED BY <1>1, <1>2, <1>3 DEF CallOk

\* The other steps of a command.
LEMMA CommandKeeps ==
  ASSUME NEW own, PayoutInv(own), NEW k \in Calls, call[k] # Idle,
         \/ RefundSigned(k) \/ RefundArrives(k) \/ RefundSent(k) \/ RefundFails(k)
         \/ RefundPending(k) \/ RefundConfirmed(k) \/ LoseCall(k)
  PROVE  PayoutInv(own)' /\ SettledForGood
<1> DEFINE x == call[k]
           s == x.session
           Goal == PayoutInv(own)' /\ SettledForGood
<1>1. /\ CallFields \subseteq DOMAIN x /\ s \in Sessions
      /\ x.pc \in {"sign", "send", "sent"} => x.rec # NoRecord
      /\ x.pc \in {"send", "sent"} => x.rec.tx # NoTx
      /\ RecOk(own, nonceCursor, x.rec, "refund", s)
  BY CallUnderWay
<1>2. ASSUME CallStale(k), UNCHANGED <<exec, registry, mempool, mined, final>> PROVE Goal
  BY <1>2, CallStaleKeeps
<1>3. ASSUME CallEnds(k) PROVE CallOnly(k) /\ CallOk(own, nonceCursor, call'[k])
  BY <1>3 DEF CallEnds, CallOnly, CallOk, PayoutInv, Shape
<1>4. CASE RefundSigned(k)
  <2>1. /\ x.pc = "sign" /\ UNCHANGED <<exec, registry, mempool, mined, final>>
    BY <1>4 DEF RefundSigned, payoutVars
  <2> DEFINE tx == Tx("refund", s, x.rec.nonce, k)
             rec == Record(x.rec.nonce, tx, FALSE)
  <2>2. CASE /\ SaveRefund(s, rec) /\ CallWaits(k, [x EXCEPT !.pc = "send", !.rec = rec])
             /\ UNCHANGED nonceCursor
    <3>1. tx.kind = "refund" /\ tx.session = s /\ tx.nonce = x.rec.nonce /\ tx # NoTx
      BY DEF Tx, NoTx
    <3> HIDE DEF tx
    <3>2. /\ {"nonce", "tx", "acked"} \subseteq DOMAIN rec /\ rec.nonce = x.rec.nonce
          /\ rec.tx = tx
      BY DEF Record
    <3> HIDE DEF rec
    <3>3. RecOk(own, nonceCursor, rec, "refund", s) /\ rec # NoRecord
      BY <1>1, <2>1, <3>1, <3>2 DEF RecOk, TxOk, NoRecord
    <3>4. CallOnly(k) /\ CallOk(own, nonceCursor, call'[k])
      BY <2>2, <3>1, <3>2, <3>3, CallMoves
    <3>5. UNCHANGED Payouts
      BY <2>1, <2>2 DEF Payouts
    <3> QED BY <1>1, <2>2, <3>3, <3>4, <3>5, CallSaves
  <2>3. \/ CallStale(k)
        \/ /\ SaveRefund(s, rec) /\ CallWaits(k, [x EXCEPT !.pc = "send", !.rec = rec])
           /\ UNCHANGED nonceCursor
    BY <1>4 DEF RefundSigned
  <2> QED BY <1>2, <2>1, <2>2, <2>3
<1>5. CASE RefundArrives(k)
  <2>1. /\ x.pc = "send" /\ mempool' = mempool \cup {x.rec.tx}
        /\ UNCHANGED <<sess, exec, registry, nonceCursor, mined, final>>
    BY <1>5 DEF RefundArrives, Accept, factoryVars
  <2>2. [x EXCEPT !.pc = "sent"] = [x EXCEPT !.pc = "sent", !.rec = x.rec]
    BY <1>1 DEF CallFields
  <2>3. CallWaits(k, [x EXCEPT !.pc = "sent", !.rec = x.rec])
    BY <1>5, <2>2 DEF RefundArrives
  <2>4. CallOnly(k) /\ CallOk(own, nonceCursor, call'[k])
    BY <1>1, <2>1, <2>3, CallMoves
  <2>5. \A l \in Calls : CallOk(own, nonceCursor', call'[l])
    BY <2>1, <2>4 DEF CallOnly, PayoutInv, Owned
  <2>6. TxOk(own, nonceCursor, x.rec.tx)
    BY <1>1, <2>1 DEF RecOk
  <2>7. IsFiniteSet(mempool') /\ \A tx \in mempool' : TxOk(own, nonceCursor', tx)
    BY <2>1, <2>6, FS_AddElement DEF PayoutInv, Shape, Owned
  <2>8. SessOk(own, nonceCursor', s, sess'[s]) /\ SessOnly(s)
    BY <1>1, <2>1 DEF PayoutInv, Owned, Shape, SessOnly
  <2>9. CallEffect(own, s)
    BY <2>1, <2>4, <2>5, <2>7, <2>8 DEF CallEffect, CallOnly
  <2> QED BY <1>1, <2>1, <2>9, SameCursor, CallEffectKeeps
<1>6. CASE RefundSent(k)
  <2>1. /\ x.pc = "sent" /\ UNCHANGED <<exec, registry, mempool, mined, final>>
    BY <1>6 DEF RefundSent, payoutVars
  <2> DEFINE rec == [x.rec EXCEPT !.acked = TRUE]
  <2>2. CASE /\ SaveRefund(s, rec) /\ CallWaits(k, [x EXCEPT !.pc = "confirm", !.rec = rec])
             /\ UNCHANGED nonceCursor
    <3>1. /\ {"nonce", "tx", "acked"} \subseteq DOMAIN rec /\ rec.nonce = x.rec.nonce
          /\ rec.tx = x.rec.tx
      BY <1>1, <2>1 DEF RecOk
    <3> HIDE DEF rec
    <3>2. RecOk(own, nonceCursor, rec, "refund", s) /\ rec # NoRecord
      BY <1>1, <2>1, <3>1 DEF RecOk, NoRecord
    <3>3. CallOnly(k) /\ CallOk(own, nonceCursor, call'[k])
      BY <1>1, <2>1, <2>2, <3>1, <3>2, CallMoves
    <3>4. UNCHANGED Payouts
      BY <2>1, <2>2 DEF Payouts
    <3> QED BY <1>1, <2>2, <3>2, <3>3, <3>4, CallSaves
  <2>3. \/ CallStale(k)
        \/ /\ SaveRefund(s, rec) /\ CallWaits(k, [x EXCEPT !.pc = "confirm", !.rec = rec])
           /\ UNCHANGED nonceCursor
    BY <1>6 DEF RefundSent
  <2> QED BY <1>2, <2>1, <2>2, <2>3
<1>7. CASE RefundFails(k) \/ RefundPending(k)
  <2>1. UNCHANGED <<exec, registry, mempool, mined, final>>
    BY <1>7 DEF RefundFails, RefundPending, payoutVars
  <2>2. \/ CallStale(k)
        \/ SaveRefund(s, x.rec) /\ CallEnds(k) /\ UNCHANGED nonceCursor
        \/ UNCHANGED sess /\ CallEnds(k) /\ UNCHANGED nonceCursor
    BY <1>7 DEF RefundFails, RefundPending, CallFails
  <2>3. CASE SaveRefund(s, x.rec) /\ CallEnds(k) /\ UNCHANGED nonceCursor
    BY <1>1, <1>3, <2>1, <2>3, CallSaves DEF Payouts
  <2>4. CASE UNCHANGED sess /\ CallEnds(k) /\ UNCHANGED nonceCursor
    <3>1. SessOnly(s) /\ Kin(sess'[s], sess[s])
      BY <1>1, <2>4, SessSame
    <3> QED BY <1>1, <1>3, <2>1, <2>4, <3>1, CallKinKeeps DEF Payouts
  <2> QED BY <1>2, <2>1, <2>2, <2>3, <2>4
<1>8. CASE RefundConfirmed(k)
  <2>1. UNCHANGED <<exec, registry, mempool, mined, final>> /\ "confirmed" \in Receipts(x.rec.tx)
    BY <1>8 DEF RefundConfirmed, payoutVars
  <2> DEFINE r == [sess[s] EXCEPT !.refund = x.rec]
             r1 == [r EXCEPT !.pay = "Refunded"]
             r2 == SyncFlags(r1, x.at)
  <2>2. CASE CallStale(k)
    BY <1>2, <2>1, <2>2
  <2>3. CASE ~ CallStale(k)
    <3>1. /\ sess' = [sess EXCEPT ![s] = IF r.pay # "Refunded" /\ MayRefund(r) THEN r2 ELSE r]
          /\ CallEnds(k) /\ UNCHANGED nonceCursor
      BY <1>8, <2>3 DEF RefundConfirmed
    <3>2. SessFields \subseteq DOMAIN sess[s] /\ PayOk(sess[s])
      BY <1>1 DEF PayoutInv, Owned, SessOk
    <3>3. /\ SessFields \subseteq DOMAIN r /\ r.refund = x.rec /\ r.rel = sess[s].rel
          /\ r.state = sess[s].state /\ r.pay = sess[s].pay /\ PayOk(r)
      BY <3>2 DEF SessFields, PayOk
    <3> HIDE DEF r
    <3>4. /\ SessFields \subseteq DOMAIN r1 /\ r1.refund = r.refund /\ r1.rel = r.rel
          /\ r1.state = r.state /\ r1.pay = "Refunded"
      BY <3>3 DEF SessFields
    <3> HIDE DEF r1
    <3>5. /\ SessFields \subseteq DOMAIN r2 /\ r2.refund = r.refund /\ r2.rel = r.rel
          /\ r2.state = r.state /\ r2.pay = "Refunded"
      BY <3>4 DEF SyncFlags, SessFields
    <3> HIDE DEF r2
    <3>6. SessOnly(s) /\ sess'[s] = IF r.pay # "Refunded" /\ MayRefund(r) THEN r2 ELSE r
      BY <1>1, <3>1 DEF SessOnly, PayoutInv, Shape
    <3>7. CASE r.pay # "Refunded" /\ MayRefund(r)
      <4>1. PayOk(r2)
        BY <3>5, <3>7 DEF PayOk, MayRefund
      <4>2. Settles(x.rec.tx)
        BY <2>1, ConfirmedSettles DEF PayoutInv
      <4>3. x.rec # NoRecord
        <5> SUFFICES ASSUME x.rec = NoRecord PROVE FALSE
          OBVIOUS
        <5>1. PICK i \in 1 .. final : mined[i] = NoTx
          BY <4>2 DEF Settles, NoRecord
        <5>2. TxOk(own, nonceCursor, NoTx)
          BY <5>1, TableDomain DEF PayoutInv, Shape, Owned
        <5> QED BY <5>2 DEF TxOk, NoTx
      <4>4. SettledBy(s, "refund")
        BY <1>1, <4>2, <4>3, RecordSettles DEF PayoutInv
      <4> QED BY <1>1, <1>3, <2>1, <3>1, <3>3, <3>5, <3>6, <3>7, <4>1, <4>4, CallKeeps DEF Payouts
    <3>8. CASE ~ (r.pay # "Refunded" /\ MayRefund(r))
      BY <1>1, <1>3, <2>1, <3>1, <3>3, <3>6, <3>8, CallKeeps DEF Payouts
    <3> QED BY <3>7, <3>8
  <2> QED BY <2>2, <2>3
<1>9. CASE LoseCall(k)
  <2>1. UNCHANGED sess /\ UNCHANGED Payouts
    BY <1>9 DEF LoseCall, spawnVars, factoryVars, payoutVars, Payouts
  <2>2. SessOnly(s) /\ Kin(sess'[s], sess[s])
    BY <1>1, <2>1, SessSame
  <2>3. CallOnly(k) /\ CallOk(own, nonceCursor, call'[k])
    BY <1>9 DEF LoseCall, CallOnly, CallOk, PayoutInv, Shape
  <2> QED BY <1>1, <2>1, <2>2, <2>3, CallKinKeeps
<1> QED BY <1>4, <1>5, <1>6, <1>7, <1>8, <1>9

(***************************************************************************)
(* The specification.                                                      *)
(***************************************************************************)
PayoutsAccounted == \E own : PayoutInv(own)

\* Nothing has a nonce when the payments are detected.
LEMMA PayoutInitInv == Init => PayoutsAccounted
<1> SUFFICES ASSUME Init PROVE PayoutInv([n \in Nat |-> 0])
  BY DEF PayoutsAccounted
<1> USE DEF Init, SpawnInit, ChainInit
<1>1. Shape
  <2>1. Table(mined) /\ Len(mined) = 0
    BY DEF Table
  <2> QED BY <2>1, FS_EmptySet DEF Shape
<1>2. /\ \A s \in Sessions : /\ SessFields \subseteq DOMAIN sess[s] /\ sess[s].pay = "Paid"
                             /\ sess[s].state = "PaymentDetected"
                             /\ sess[s].rel = NoRecord /\ sess[s].refund = NoRecord
      /\ \A e \in Execs : exec[e] = Idle
      /\ \A k \in Calls : call[k] = Idle
  BY DEF SessFields
<1>3. Owned([n \in Nat |-> 0])
  BY <1>2 DEF Owned, SessOk, PayOk, RecOk, ExecOk, CallOk
<1>4. DraftsPrivate /\ GuardIsExact /\ Settled
  BY <1>2 DEF DraftsPrivate, GuardIsExact, Settled, Idle
<1> QED BY <1>1, <1>3, <1>4 DEF PayoutInv

\* Every step keeps the invariant, and no step undoes a completion or a refund.
LEMMA PayoutStep ==
  PayoutsAccounted /\ [Next]_vars => PayoutsAccounted' /\ (SettledForGood \/ UNCHANGED vars)
<1> SUFFICES ASSUME PayoutsAccounted, [Next]_vars
             PROVE  PayoutsAccounted' /\ (SettledForGood \/ UNCHANGED vars)
  OBVIOUS
<1>1. PICK own : PayoutInv(own)
  BY DEF PayoutsAccounted
<1> DEFINE Goal == (\E own2 : PayoutInv(own2)') /\ SettledForGood
<1>2. ASSUME UNCHANGED <<sess, exec, call, nonceCursor, registry, mempool, mined, final>>
      PROVE  Goal
  BY <1>1, <1>2, ChainEffectKeeps DEF ChainKept, PayoutInv, Shape, Owned
<1>3. CASE Tick /\ UNCHANGED refundVars
  BY <1>2, <1>3 DEF Tick, factoryVars, payoutVars, refundVars, PayoutsAccounted
<1>4. CASE ChainStep /\ UNCHANGED refundVars
  BY <1>1, <1>4, ChainStepKeeps DEF refundVars, PayoutsAccounted
<1>5. CASE SpawnStep /\ UNCHANGED refundVars
  <2>1. UNCHANGED call
    BY <1>5 DEF refundVars
  <2>2. ASSUME NEW s \in Sessions, RetrySession(s) PROVE Goal
    BY <1>1, <2>1, <2>2, NoCommandKeeps
  <2>3. ASSUME NEW e \in Execs, Lose(e) PROVE Goal
    BY <1>1, <2>1, <2>3, LoseKeeps
  <2>4. ASSUME NEW e \in Execs, NEW s \in Sessions, StartStep(e, s) PROVE Goal
    BY <1>1, <2>1, <2>4, StartKeeps
  <2>5. ASSUME NEW e \in Execs, BuildStep(e) PROVE Goal
    BY <1>1, <2>1, <2>5, BuildKeeps
  <2>6. ASSUME NEW e \in Execs, ReleaseStep(e) PROVE Goal
    BY <1>1, <2>1, <2>6, ReleaseKeeps
  <2> HIDE DEF Goal
  <2>7. Goal
    BY <1>5, <2>2, <2>3, <2>4, <2>5, <2>6 DEF SpawnStep
  <2> QED BY <2>7 DEF Goal, PayoutsAccounted
<1>6. CASE RefundStep
  <2>1. ASSUME NEW s \in Sessions, ClaimRefused(s) \/ ClaimAgain(s) PROVE Goal
    BY <1>1, <2>1, NoCommandKeeps
  <2>2. ASSUME NEW k \in Calls, NEW s \in Sessions, ClaimRefund(k, s) PROVE Goal
    BY <1>1, <2>2, ClaimKeeps
  <2>3. ASSUME NEW k \in Calls, RefundNonce(k) PROVE Goal
    BY <1>1, <2>3, RefundNonceKeeps
  <2>4. ASSUME NEW k \in Calls,
               \/ RefundSigned(k) \/ RefundArrives(k) \/ RefundSent(k) \/ RefundFails(k)
               \/ RefundPending(k) \/ RefundConfirmed(k) \/ LoseCall(k)
        PROVE  Goal
    <3>1. call[k] # Idle
      <4>1. call[k].pc \in {"sign", "send", "sent", "confirm"} \/ call[k] # Idle
        BY <2>4 DEF RefundSigned, RefundArrives, RefundSent, RefundFails, RefundPending,
                    RefundConfirmed, LoseCall
      <4> QED BY <4>1 DEF Idle
    <3> QED BY <1>1, <2>4, <3>1, CommandKeeps
  <2> HIDE DEF Goal
  <2>5. Goal
    BY <1>6, <2>1, <2>2, <2>3, <2>4 DEF RefundStep
  <2> QED BY <2>5 DEF Goal, PayoutsAccounted
<1>7. CASE UNCHANGED vars
  BY <1>2, <1>7 DEF vars, spawnVars, factoryVars, payoutVars, refundVars, PayoutsAccounted
<1> QED BY <1>2, <1>3, <1>4, <1>5, <1>6, <1>7 DEF Next, PayoutsAccounted

\* Two payouts never compete for one nonce: releases and refunds take theirs from one cursor,
\* across suspended calls, retries and takeovers.
THEOREM NonceUniqueAlways == Spec => []NonceUnique
<1>1. PayoutsAccounted => NonceUnique
  <2> SUFFICES ASSUME NEW own, PayoutInv(own), NEW a \in Signatures \ {NoTx}
               PROVE  TxOk(own, nonceCursor, a)
    BY DEF PayoutsAccounted, NonceUnique, TxOk
  <2>1. ASSUME a \in Range(mined) PROVE TxOk(own, nonceCursor, a)
    BY <2>1, TableDomain DEF Range, PayoutInv, Shape, Owned
  <2>2. ASSUME NEW rec, NEW kind, NEW s, RecOk(own, nonceCursor, rec, kind, s), a = rec.tx
        PROVE  TxOk(own, nonceCursor, a)
    BY <2>2 DEF RecOk, NoRecord
  <2>3. /\ \A e \in Execs : exec[e] # Idle =>
             RecOk(own, nonceCursor, exec[e].draft, "release", exec[e].session)
        /\ \A k \in Calls : call[k] # Idle =>
             RecOk(own, nonceCursor, call[k].rec, "refund", call[k].session)
        /\ \A s \in Sessions : /\ RecOk(own, nonceCursor, sess[s].rel, "release", s)
                               /\ RecOk(own, nonceCursor, sess[s].refund, "refund", s)
        /\ \A tx \in mempool : TxOk(own, nonceCursor, tx)
    BY DEF PayoutInv, Owned, SessOk, ExecOk, CallOk
  <2> QED BY <2>1, <2>2, <2>3 DEF Signatures
<1> QED BY <1>1, PayoutInitInv, PayoutStep, PTL DEF Spec

\* An automaton is registered and its session complete only when the escrow was released for
\* good, and a session is refunded only when the refund was executed for good.
THEOREM BooksFollowTheChainAlways == Spec => []BooksFollowTheChain
<1>1. PayoutsAccounted => BooksFollowTheChain
  <2> SUFFICES ASSUME NEW own, PayoutInv(own) PROVE BooksFollowTheChain
    BY DEF PayoutsAccounted
  <2>1. ASSUME NEW s \in Sessions, sess[s].state = "Complete" PROVE SettledBy(s, "release")
    <3>1. sess[s].rel.acked /\ Settles(sess[s].rel.tx)
      BY <2>1 DEF PayoutInv, Settled
    <3>2. sess[s].rel # NoRecord /\ RecOk(own, nonceCursor, sess[s].rel, "release", s)
      BY <3>1 DEF NoRecord, PayoutInv, Owned, SessOk
    <3> QED BY <3>1, <3>2, RecordSettles DEF PayoutInv
  <2> QED BY <2>1 DEF BooksFollowTheChain, PayoutInv, Settled
<1> QED BY <1>1, PayoutInitInv, PayoutStep, PTL DEF Spec

\* The release record of a complete session is the transaction that settled its escrow,
\* however many releases were signed for it.
THEOREM RecordedReleaseSettledAlways == Spec => []RecordedReleaseSettled
<1>1. PayoutsAccounted => RecordedReleaseSettled
  BY DEF PayoutsAccounted, PayoutInv, Settled, Settles, RecordedReleaseSettled
<1> QED BY <1>1, PayoutInitInv, PayoutStep, PTL DEF Spec

\* No execution and no refund command that comes back late undoes a completion or a refund.
THEOREM LateStepsHarmlessAlways == Spec => LateStepsHarmless
<1>1. PayoutsAccounted /\ [Next]_vars => [SettledForGood]_vars
  BY PayoutStep
<1> QED BY <1>1, PayoutInitInv, PayoutStep, PTL DEF Spec, LateStepsHarmless

\* ensure_spawn_release_draft_guard compares the identity of the draft and nothing else: what
\* it lets through still has the very record of the session, acknowledgement included.
THEOREM GuardIsExactAlways == Spec => []GuardIsExact
<1>1. PayoutsAccounted => GuardIsExact
  BY DEF PayoutsAccounted, PayoutInv
<1> QED BY <1>1, PayoutInitInv, PayoutStep, PTL DEF Spec

(***************************************************************************)
(* Types.  Every record has exactly its fields; what a step relies on of   *)
(* them is what the step before it made sure of: a session that broadcasts *)
(* has a canister, an execution past its creation too, a draft that is     *)
(* signed has its nonce, and what is sent is a transaction.                *)
(***************************************************************************)
Txs == [kind : {"release", "refund"}, session : Sessions, nonce : Nonces, by : Canisters \cup Calls]

Records == {NoRecord} \cup [nonce : Nonces, tx : Txs \cup {NoTx}, acked : BOOLEAN]

SessRecords ==
  [state : States, pay : PaymentStatuses, expires : Nat, retryable : BOOLEAN, refundable : BOOLEAN,
   can : Canisters \cup {NoCanister}, rel : Records, refund : Records]

SessTypes == {r \in SessRecords : r.state = "BroadcastingRelease" => r.can \in Canisters}

ExecRecords ==
  [pc : ExecPcs, session : Sessions, rel : Records, expires : Nat,
   can : Canisters \cup {NoCanister}, draft : Records, at : Times,
   keep : {"none", "created", "installed"}, action : {"none", "Backoff", "Skip", "Terminal"}]

ExecTypes ==
  {Idle} \cup
  {x \in ExecRecords :
     /\ x.pc # "create" => x.can \in Canisters
     /\ x.pc = "cleanup" => x.action # "none"
     /\ x.pc = "sign" => x.draft # NoRecord
     /\ x.pc \in {"send", "sent"} => x.draft.tx # NoTx}

CallRecords ==
  [pc : CallPcs, session : Sessions, gen : 0 .. MaxGeneration, rec : Records, fresh : BOOLEAN, at : Times]

CallTypes ==
  {Idle} \cup
  {y \in CallRecords :
     /\ y.pc = "sign" => y.rec # NoRecord
     /\ y.pc \in {"send", "sent"} => y.rec.tx # NoTx}

FactoryTypes ==
  /\ now \in Times
  /\ sess \in [Sessions -> SessTypes]
  /\ job \in [Sessions -> Jobs]
  /\ exec \in [Execs -> ExecTypes]
  /\ nonceCursor \in 0 .. MaxNonce + 1
  /\ runtimes \in [Canisters -> {"none", "created", "installed"}]
  /\ live \in SUBSET Canisters
  /\ registry \in SUBSET [session : Sessions, can : Canisters]
  /\ secrets \in SUBSET Sessions

CommandTypes ==
  /\ call \in [Calls -> CallTypes]
  /\ lease \in [Sessions -> [gen : 0 .. MaxGeneration, until : Times]]

PayoutTypes == FactoryTypes /\ CommandTypes /\ ChainTypeOK(Txs)

\* A record that is there has a nonce, and of one with a transaction the transaction is one.
LEMMA RecordKinds ==
  ASSUME NEW rec \in Records
  PROVE  /\ rec.acked \in BOOLEAN /\ rec.tx \in Txs \cup {NoTx} /\ rec.nonce \in Nonces \cup {NoNonce}
         /\ rec # NoRecord => rec \in [nonce : Nonces, tx : Txs \cup {NoTx}, acked : BOOLEAN]
         /\ rec.tx # NoTx => rec # NoRecord
<1>1. CASE rec = NoRecord
  BY <1>1 DEF NoRecord
<1>2. CASE rec # NoRecord
  <2>1. rec \in [nonce : Nonces, tx : Txs \cup {NoTx}, acked : BOOLEAN]
    BY <1>2 DEF Records
  <2> QED BY <1>2, <2>1
<1> QED BY <1>1, <1>2

\* A session's event leaves it a session, as long as a release is broadcast for a canister only.
LEMMA ApplyTyped ==
  ASSUME NEW r \in SessTypes, NEW event \in Events, NEW at \in Nat,
         event = "InstallSucceeded" => r.can \in Canisters
  PROVE  Apply(r, event, at) \in SessTypes /\ Apply(r, event, at).can = r.can
<1>1. CASE event = "SessionExpired" /\ IgnoresExpiry(r, at)
  BY <1>1 DEF Apply
<1>2. CASE ~ (event = "SessionExpired" /\ IgnoresExpiry(r, at))
  <2> DEFINE state == Target[event]
             expires == IF event = "RetryRequested" THEN at + SessionTtl ELSE r.expires
             r1 == [r EXCEPT !.state = state, !.expires = expires]
             retryable == Retryable(r1, at)
             refundable == Refundable(r1)
  <2>1. r \in SessRecords
    BY DEF SessTypes
  <2>2. state \in States /\ (state = "BroadcastingRelease" <=> event = "InstallSucceeded")
    BY DEF Events, Target, States
  <2>3. expires \in Nat
    BY <2>1, SessionTtlAssumption DEF SessRecords
  <2>4. retryable \in BOOLEAN /\ refundable \in BOOLEAN
    BY DEF Retryable, Refundable
  <2>5. Apply(r, event, at) = [r1 EXCEPT !.retryable = retryable, !.refundable = refundable]
    <3>1. r1 = [r EXCEPT !.state = Target[event],
                         !.expires = IF event = "RetryRequested" THEN at + SessionTtl ELSE @]
      BY <2>1 DEF SessRecords
    <3> QED BY <1>2, <3>1 DEF Apply, SyncFlags
  <2> HIDE DEF state, expires, retryable, refundable
  <2>6. [r1 EXCEPT !.retryable = retryable, !.refundable = refundable] \in SessRecords
    BY <2>1, <2>2, <2>3, <2>4 DEF SessRecords
  <2>7. /\ Apply(r, event, at).state = state /\ Apply(r, event, at).can = r.can
    BY <2>1, <2>5 DEF SessRecords
  <2> QED BY <2>2, <2>5, <2>6, <2>7 DEF SessTypes
<1> QED BY <1>1, <1>2

\* The flags of a session are recomputed to flags.
LEMMA SyncTyped ==
  ASSUME NEW r \in SessTypes, NEW at
  PROVE  SyncFlags(r, at) \in SessTypes
<1> DEFINE retryable == Retryable(r, at)
           refundable == Refundable(r)
<1>1. retryable \in BOOLEAN /\ refundable \in BOOLEAN
  BY DEF Retryable, Refundable
<1>2. SyncFlags(r, at) = [r EXCEPT !.retryable = retryable, !.refundable = refundable]
  BY DEF SyncFlags
<1> HIDE DEF retryable, refundable
<1> QED BY <1>1, <1>2 DEF SessTypes, SessRecords

\* So does writing its canister.
LEMMA CanisterTyped ==
  ASSUME NEW r \in SessTypes, NEW c \in Canisters
  PROVE  WithCanister(r, c) \in SessTypes /\ WithCanister(r, c).can = c
<1>1. r \in SessRecords
  BY DEF SessTypes
<1>2. [r EXCEPT !.can = c] \in SessRecords /\ [r EXCEPT !.can = c].can = c
  BY <1>1 DEF SessRecords
<1> QED BY <1>2 DEF SessTypes, WithCanister

\* So does writing its payment and its payout records.
LEMMA WritesTyped ==
  ASSUME NEW r \in SessTypes, NEW rec \in Records
  PROVE  /\ [r EXCEPT !.rel = rec] \in SessTypes
         /\ [r EXCEPT !.refund = rec] \in SessTypes
         /\ [r EXCEPT !.pay = "Refunded"] \in SessTypes
<1>1. r \in SessRecords /\ (r.state = "BroadcastingRelease" => r.can \in Canisters)
  BY DEF SessTypes
<1>2. /\ [r EXCEPT !.rel = rec] \in SessRecords /\ [r EXCEPT !.refund = rec] \in SessRecords
      /\ [r EXCEPT !.pay = "Refunded"] \in SessRecords
  BY <1>1 DEF SessRecords, PaymentStatuses
<1>3. /\ [r EXCEPT !.rel = rec].state = r.state /\ [r EXCEPT !.rel = rec].can = r.can
      /\ [r EXCEPT !.refund = rec].state = r.state /\ [r EXCEPT !.refund = rec].can = r.can
      /\ [r EXCEPT !.pay = "Refunded"].state = r.state /\ [r EXCEPT !.pay = "Refunded"].can = r.can
  BY <1>1 DEF SessRecords
<1> QED BY <1>1, <1>2, <1>3 DEF SessTypes

(***************************************************************************)
(* Jobs.                                                                   *)
(***************************************************************************)
\* A time that is clipped to the horizon is a time.
LEMMA LaterTyped ==
  ASSUME NEW t \in Times, NEW d \in Nat
  PROVE  Later(t, d) \in Times
  BY SchedulerAssumption DEF Times, Later

\* A backoff is a number of ticks.
LEMMA BackoffTyped ==
  ASSUME NEW fails \in 1 .. FailureCap
  PROVE  BackoffDelay(fails) \in Nat
<1> DEFINE power == 2 ^ (fails - 1)
<1>1. fails - 1 \in 0 .. FailureCap
  BY SchedulerAssumption
<1>2. power \in Nat /\ InitialBackoff \in Nat /\ MaxBackoff \in Nat
  BY <1>1, PowersAssumption, SchedulerAssumption
<1>3. BackoffDelay(fails) = IF InitialBackoff * power <= MaxBackoff THEN InitialBackoff * power
                            ELSE MaxBackoff
  BY DEF BackoffDelay
<1> HIDE DEF power
<1>4. InitialBackoff * power \in Nat
  BY <1>2
<1> QED BY <1>2, <1>3, <1>4

\* A job that is enqueued, leased or finished is a job.
LEMMA JobTyped ==
  ASSUME NEW j \in Jobs, NEW t \in Times, NEW action \in {"Backoff", "Skip", "Terminal"}
  PROVE  /\ Enqueue(j, t) \in Jobs /\ Lease(j, t) \in Jobs
         /\ FinishOk(j, NoTime) \in Jobs /\ FinishFailed(j, action, NoTime, t) \in Jobs
<1>1. Enqueue(j, t) \in Jobs
  BY DEF Enqueue, Jobs
<1>2. Lease(j, t) \in Jobs
  <2> DEFINE u == Later(t, LeaseTime)
  <2>1. u \in Times
    BY LaterTyped, SchedulerAssumption
  <2>2. Lease(j, t) = [j EXCEPT !.until = u]
    BY DEF Lease
  <2> HIDE DEF u
  <2> QED BY <2>1, <2>2 DEF Jobs
<1>3. FinishOk(j, NoTime) \in Jobs
  BY SchedulerAssumption DEF FinishOk, Jobs
<1>4. FinishFailed(j, action, NoTime, t) \in Jobs
  <2> DEFINE fails == CountFailure(j.fails)
             n == IF action = "Backoff" THEN Later(t, BackoffDelay(fails)) ELSE NoTime
  <2>1. fails \in 1 .. FailureCap
    <3>1. j.fails \in 0 .. FailureCap
      BY DEF Jobs
    <3> QED BY <3>1, SchedulerAssumption DEF CountFailure
  <2>2. FinishFailed(j, action, NoTime, t) = [next |-> n, until |-> NoTime, fails |-> fails]
    BY DEF FinishFailed
  <2> HIDE DEF fails
  <2>3. n \in Times \cup {NoTime} /\ fails \in 0 .. FailureCap
    BY <2>1, BackoffTyped, LaterTyped, SchedulerAssumption
  <2> HIDE DEF n
  <2> QED BY <2>2, <2>3 DEF Jobs
<1> QED BY <1>1, <1>2, <1>3, <1>4

(***************************************************************************)
(* Executions.                                                             *)
(***************************************************************************)
\* An execution that is under way has all its fields.
LEMMA ExecRecorded ==
  ASSUME FactoryTypes, NEW e \in Execs, exec[e].pc \in ExecPcs
  PROVE  /\ exec[e] # Idle /\ exec[e] \in ExecRecords
         /\ exec[e].pc # "create" => exec[e].can \in Canisters
         /\ exec[e].pc = "cleanup" => exec[e].action # "none"
         /\ exec[e].pc = "sign" => exec[e].draft # NoRecord
         /\ exec[e].pc \in {"send", "sent"} => exec[e].draft.tx # NoTx
         /\ exec[e].session \in Sessions /\ sess[exec[e].session] \in SessTypes
<1>1. exec[e] # Idle
  BY DEF Idle, ExecPcs
<1>2. exec[e] \in ExecTypes /\ sess \in [Sessions -> SessTypes]
  BY DEF FactoryTypes
<1>3. exec[e] \in ExecRecords
  BY <1>1, <1>2 DEF ExecTypes
<1>4. exec[e].session \in Sessions
  BY <1>3 DEF ExecRecords
<1> QED BY <1>1, <1>2, <1>3, <1>4 DEF ExecTypes

\* An execution that ends is idle, and its job is one.
LEMMA EndsTyped ==
  ASSUME FactoryTypes, NEW e \in Execs, NEW s \in Sessions, NEW j \in Jobs, Ends(e, s, j)
  PROVE  job' \in [Sessions -> Jobs] /\ exec' \in [Execs -> ExecTypes]
<1>1. Idle \in ExecTypes
  BY DEF ExecTypes
<1> QED BY <1>1 DEF FactoryTypes, Ends

\* The reaction of the scheduler included.
LEMMA EndsWithTyped ==
  ASSUME FactoryTypes, NEW e \in Execs, NEW s \in Sessions,
         NEW action \in {"Backoff", "Skip", "Terminal"}, EndsWith(e, s, action)
  PROVE  job' \in [Sessions -> Jobs] /\ exec' \in [Execs -> ExecTypes]
<1>1. FinishFailed(job[s], action, NoTime, now) \in Jobs
  BY JobTyped DEF FactoryTypes
<1> QED BY <1>1, EndsTyped DEF EndsWith

\* A session that a spawn fails stays a session.
LEMMA SpawnFailsTyped ==
  ASSUME FactoryTypes, NEW e \in Execs, NEW s \in Sessions, NEW r \in SessTypes, NEW at \in Times,
         NEW action \in {"Backoff", "Skip", "Terminal"}, SpawnFails(e, s, r, at, action)
  PROVE  /\ sess' \in [Sessions -> SessTypes] /\ job' \in [Sessions -> Jobs]
         /\ exec' \in [Execs -> ExecTypes]
<1> DEFINE legal == Accepts(r, "SpawnFailed")
           failed == IF legal THEN Apply(r, "SpawnFailed", at) ELSE r
           j == IF legal /\ failed.retryable THEN Enqueue(job[s], at) ELSE job[s]
<1>1. at \in Nat
  BY SchedulerAssumption DEF Times
<1>2. failed \in SessTypes
  BY <1>1, ApplyTyped DEF Events
<1>3. job[s] \in Jobs /\ now \in Times
  BY DEF FactoryTypes
<1>4. j \in Jobs
  BY <1>3, JobTyped
<1>5. FinishFailed(j, action, NoTime, now) \in Jobs
  BY <1>3, <1>4, JobTyped
<1>6. sess' = [sess EXCEPT ![s] = failed] /\ Ends(e, s, FinishFailed(j, action, NoTime, now))
  BY DEF SpawnFails
<1> HIDE DEF failed, j
<1> QED BY <1>2, <1>5, <1>6, EndsTyped DEF FactoryTypes

\* An execution that waits on has its fields.
LEMMA WaitsTyped ==
  ASSUME FactoryTypes, NEW e \in Execs, NEW x \in ExecTypes, Waits(e, x)
  PROVE  exec' \in [Execs -> ExecTypes]
BY DEF FactoryTypes, Waits

\* A cleanup knows its canister, what to keep and what the scheduler does.
LEMMA CleansUpTyped ==
  ASSUME FactoryTypes, NEW e \in Execs, exec[e].pc \in ExecPcs, NEW c \in Canisters,
         NEW keep \in {"none", "created", "installed"}, NEW action \in {"Backoff", "Skip", "Terminal"},
         CleansUp(e, c, keep, action)
  PROVE  exec' \in [Execs -> ExecTypes]
<1> DEFINE x == [exec[e] EXCEPT !.pc = "cleanup", !.can = c, !.at = now,
                                !.keep = keep, !.action = action]
<1>1. exec[e] \in ExecRecords /\ now \in Times
  BY ExecRecorded DEF FactoryTypes
<1>2. x \in ExecRecords /\ x.pc = "cleanup" /\ x.can = c /\ x.action = action
  BY <1>1 DEF ExecRecords, ExecPcs
<1>3. x \in ExecTypes
  BY <1>2 DEF ExecTypes
<1> HIDE DEF x
<1> QED BY <1>3, WaitsTyped DEF CleansUp, x

\* The snapshot of a session with a canister, or of one that is to get one.
LEMMA SnapshotTyped ==
  ASSUME FactoryTypes, NEW s \in Sessions, NEW pc \in {"create", "verify", "resume"},
         pc # "create" => sess[s].can \in Canisters
  PROVE  SnapshotOf(s, pc) \in ExecTypes
<1>1. sess[s] \in SessRecords /\ now \in Times
  BY DEF FactoryTypes, SessTypes
<1>2. NoRecord \in Records
  BY DEF Records
<1>3. SnapshotOf(s, pc) \in ExecRecords
  BY <1>1, <1>2 DEF SnapshotOf, SessRecords, ExecRecords, ExecPcs
<1>4. SnapshotOf(s, pc).pc = pc /\ SnapshotOf(s, pc).can = sess[s].can
  BY DEF SnapshotOf
<1> QED BY <1>3, <1>4 DEF ExecTypes

\* An execution takes one step on with the canister it has, or has just been given.
LEMMA StepsOnTyped ==
  ASSUME FactoryTypes, NEW e \in Execs, exec[e].pc \in ExecPcs, NEW c \in Canisters, NEW at \in Times,
         NEW pc \in {"install", "verify", "strategies", "handoff", "confirmOld", "nonce", "rehandoff"}
  PROVE  /\ [exec[e] EXCEPT !.pc = pc, !.can = c] \in ExecTypes
         /\ exec[e].can \in Canisters => [exec[e] EXCEPT !.pc = pc] \in ExecTypes
         /\ exec[e].can \in Canisters => [exec[e] EXCEPT !.pc = pc, !.at = at] \in ExecTypes
<1>1. exec[e] \in ExecRecords
  BY ExecRecorded
<1>2. /\ [exec[e] EXCEPT !.pc = pc, !.can = c] \in ExecRecords
      /\ [exec[e] EXCEPT !.pc = pc] \in ExecRecords
      /\ [exec[e] EXCEPT !.pc = pc, !.at = at] \in ExecRecords
  BY <1>1 DEF ExecRecords, ExecPcs
<1>3. /\ [exec[e] EXCEPT !.pc = pc, !.can = c].pc = pc /\ [exec[e] EXCEPT !.pc = pc, !.can = c].can = c
      /\ [exec[e] EXCEPT !.pc = pc].pc = pc /\ [exec[e] EXCEPT !.pc = pc].can = exec[e].can
      /\ [exec[e] EXCEPT !.pc = pc, !.at = at].pc = pc
      /\ [exec[e] EXCEPT !.pc = pc, !.at = at].can = exec[e].can
  BY <1>1 DEF ExecRecords
<1> QED BY <1>2, <1>3 DEF ExecTypes

\* The chain is left alone.
LEMMA ChainSame ==
  ASSUME ChainTypeOK(Txs), UNCHANGED payoutVars
  PROVE  ChainTypeOK(Txs)'
BY DEF ChainTypeOK, payoutVars, Txs

\* Starting an execution.
LEMMA StartTyped ==
  ASSUME FactoryTypes, ChainTypeOK(Txs), NEW e \in Execs, NEW s \in Sessions, StartStep(e, s)
  PROVE  FactoryTypes' /\ ChainTypeOK(Txs)'
<1>1. /\ sess[s] \in SessTypes /\ job[s] \in Jobs /\ now \in Times
      /\ sess[s].state = "BroadcastingRelease" => sess[s].can \in Canisters
  BY DEF FactoryTypes, SessTypes
<1>2. Lease(job[s], now) \in Jobs /\ FinishOk(job[s], NoTime) \in Jobs
  BY <1>1, JobTyped
<1>3. ASSUME StartNothing(e, s) PROVE FactoryTypes' /\ ChainTypeOK(Txs)'
  <2>1. FinishFailed(job[s], "Skip", NoTime, now) \in Jobs
    BY <1>1, JobTyped
  <2>2. job' \in [Sessions -> Jobs] /\ exec' \in [Execs -> ExecTypes]
    BY <1>2, <1>3, <2>1, EndsTyped DEF StartNothing
  <2> QED BY <1>3, <2>2, ChainSame DEF StartNothing, FactoryTypes
<1>4. ASSUME StartResume(e, s) PROVE FactoryTypes' /\ ChainTypeOK(Txs)'
  <2>1. CASE sess[s].rel.acked
    <3>1. SnapshotOf(s, "resume") \in ExecTypes
      BY <1>1, <1>4, SnapshotTyped DEF StartResume
    <3>2. exec' \in [Execs -> ExecTypes]
      BY <1>4, <2>1, <3>1, WaitsTyped DEF StartResume
    <3>3. job' \in [Sessions -> Jobs]
      BY <1>2, <1>4, <2>1 DEF StartResume, FactoryTypes
    <3> QED BY <1>4, <3>2, <3>3, ChainSame DEF StartResume, FactoryTypes
  <2>2. CASE ~ sess[s].rel.acked
    <3>1. job' \in [Sessions -> Jobs] /\ exec' \in [Execs -> ExecTypes]
      BY <1>4, <2>2, EndsWithTyped DEF StartResume
    <3> QED BY <1>4, <3>1, ChainSame DEF StartResume, FactoryTypes
  <2> QED BY <2>1, <2>2
<1>5. ASSUME NEW action \in {"Backoff", "Skip"}, StartMisconfigured(e, s, action)
      PROVE  FactoryTypes' /\ ChainTypeOK(Txs)'
  <2>1. /\ sess' \in [Sessions -> SessTypes] /\ job' \in [Sessions -> Jobs]
        /\ exec' \in [Execs -> ExecTypes]
    BY <1>1, <1>5, SpawnFailsTyped DEF StartMisconfigured
  <2> QED BY <1>5, <2>1, ChainSame DEF StartMisconfigured, FactoryTypes
<1>6. ASSUME StartSpawn(e, s) PROVE FactoryTypes' /\ ChainTypeOK(Txs)'
  <2> DEFINE started == Apply(sess[s], "SpawnStarted", now)
             installed == Apply(started, "InstallSucceeded", now)
  <2>1. started \in SessTypes /\ started.can = sess[s].can /\ now \in Nat
    <3>1. now \in Nat
      BY <1>1, SchedulerAssumption DEF Times
    <3> QED BY <1>1, <3>1, ApplyTyped DEF Events
  <2>2. Installed(s) => sess[s].can \in Canisters
    BY <1>1 DEF Installed, SessTypes, SessRecords
  <2>3. Installed(s) => installed \in SessTypes
    BY <2>1, <2>2, ApplyTyped DEF Events
  <2>4. job' \in [Sessions -> Jobs]
    BY <1>2, <1>6 DEF StartSpawn, FactoryTypes
  <2>5. CASE Installed(s)
    <3>1. SnapshotOf(s, "verify") \in ExecTypes
      BY <2>2, <2>5, SnapshotTyped
    <3>2. exec' \in [Execs -> ExecTypes]
      BY <1>6, <2>5, <3>1, WaitsTyped DEF StartSpawn
    <3>3. sess' = [sess EXCEPT ![s] = installed]
      BY <1>6, <2>5 DEF StartSpawn
    <3> HIDE DEF installed
    <3>4. sess' \in [Sessions -> SessTypes]
      BY <2>3, <2>5, <3>3 DEF FactoryTypes
    <3> QED BY <1>6, <2>4, <3>2, <3>4, ChainSame DEF StartSpawn, FactoryTypes
  <2>6. CASE ~ Installed(s)
    <3>1. SnapshotOf(s, "create") \in ExecTypes
      BY SnapshotTyped
    <3>2. exec' \in [Execs -> ExecTypes]
      BY <1>6, <2>6, <3>1, WaitsTyped DEF StartSpawn
    <3>3. sess' = [sess EXCEPT ![s] = started]
      BY <1>6, <2>6 DEF StartSpawn
    <3> HIDE DEF started
    <3>4. sess' \in [Sessions -> SessTypes]
      BY <2>1, <3>3 DEF FactoryTypes
    <3> QED BY <1>6, <2>4, <3>2, <3>4, ChainSame DEF StartSpawn, FactoryTypes
  <2> QED BY <2>5, <2>6
<1> QED BY <1>3, <1>4, <1>5, <1>6 DEF StartStep

\* Creating, installing and verifying the automaton.
LEMMA BuildTyped ==
  ASSUME FactoryTypes, ChainTypeOK(Txs), NEW e \in Execs, BuildStep(e)
  PROVE  FactoryTypes' /\ ChainTypeOK(Txs)'
<1> DEFINE x == exec[e]
           s == exec[e].session
           Goal == FactoryTypes' /\ ChainTypeOK(Txs)'
<1>1. x.pc \in {"create", "install", "verify", "strategies", "handoff", "cleanup"}
  BY DEF BuildStep, CreateFails, CreatedUnusable, Created, InstallFails, InstallDone, RederiveFails,
         VerifyFails, Verified, StrategiesFail, StrategiesInstalled, HandoffFails, HandedOff,
         HandedOffWithoutRpc, CleanupReply
<1>2. x.pc \in ExecPcs
  BY <1>1 DEF ExecPcs
<1>3. /\ x \in ExecRecords /\ s \in Sessions /\ sess[s] \in SessTypes
      /\ x.pc # "create" => x.can \in Canisters
      /\ x.pc = "cleanup" => x.action # "none"
  BY <1>2, ExecRecorded
<1>4. now \in Times /\ now \in Nat /\ x.at \in Times
  BY <1>3, SchedulerAssumption DEF FactoryTypes, Times, ExecRecords
<1>5. x.can \in Canisters => WithCanister(sess[s], x.can) \in SessTypes
                             /\ WithCanister(sess[s], x.can).can = x.can
  BY <1>3, CanisterTyped
<1> HIDE DEF x, s
<1>6. ASSUME CreateFails(e) PROVE Goal
  <2>1. /\ sess' \in [Sessions -> SessTypes] /\ job' \in [Sessions -> Jobs]
        /\ exec' \in [Execs -> ExecTypes]
    BY <1>3, <1>4, <1>6, SpawnFailsTyped DEF CreateFails, s
  <2> QED BY <1>6, <2>1, ChainSame DEF CreateFails, FactoryTypes
<1>7. ASSUME NEW c \in Canisters, CreatedUnusable(e, c) PROVE Goal
  <2>1. exec' \in [Execs -> ExecTypes]
    BY <1>2, <1>7, CleansUpTyped DEF CreatedUnusable, x
  <2> QED BY <1>7, <2>1, ChainSame DEF CreatedUnusable, FactoryTypes
<1>8. ASSUME NEW c \in Canisters, Created(e, c) PROVE Goal
  <2>1. WithCanister(sess[s], c) \in SessTypes
    BY <1>3, CanisterTyped
  <2>2. sess' = [sess EXCEPT ![s] = WithCanister(sess[s], c)]
    BY <1>3, <1>8 DEF Created, s, FactoryTypes
  <2>3. sess' \in [Sessions -> SessTypes]
    BY <2>1, <2>2 DEF FactoryTypes
  <2>4. exec' \in [Execs -> ExecTypes]
    <3>1. CASE now > x.expires
      BY <1>2, <1>8, <3>1, CleansUpTyped DEF Created, x
    <3>2. CASE ~ (now > x.expires)
      <4>1. [exec[e] EXCEPT !.pc = "install", !.can = c] \in ExecTypes
        BY <1>2, <1>4, StepsOnTyped DEF x
      <4> QED BY <1>8, <3>2, <4>1, WaitsTyped DEF Created, x
    <3> QED BY <3>1, <3>2
  <2> QED BY <1>8, <2>3, <2>4, ChainSame DEF Created, FactoryTypes
<1>9. ASSUME InstallFails(e) PROVE Goal
  <2>1. exec' \in [Execs -> ExecTypes]
    BY <1>2, <1>3, <1>9, CleansUpTyped DEF InstallFails, x
  <2> QED BY <1>9, <2>1, ChainSame DEF InstallFails, FactoryTypes
<1>10. ASSUME InstallDone(e) PROVE Goal
  <2> DEFINE r == WithCanister(sess[s], x.can)
             installed == Apply(r, "InstallSucceeded", now)
  <2>1. x.can \in Canisters /\ r \in SessTypes /\ r.can = x.can
    BY <1>3, <1>5, <1>10 DEF InstallDone, x
  <2> HIDE DEF r
  <2>2. installed \in SessTypes
    BY <1>4, <2>1, ApplyTyped DEF Events
  <2> HIDE DEF installed
  <2>3. /\ secrets' \in SUBSET Sessions
        /\ UNCHANGED <<now, nonceCursor, registry, live, payoutVars>>
    BY <1>10 DEF InstallDone, FactoryTypes
  <2>4. CASE now > x.expires
    <3>1. CleansUp(e, x.can, "none", "Terminal") /\ UNCHANGED <<sess, job, runtimes>>
      BY <1>10, <2>4 DEF InstallDone, x
    <3>2. exec' \in [Execs -> ExecTypes]
      BY <1>2, <2>1, <3>1, CleansUpTyped DEF x
    <3> QED BY <2>3, <3>1, <3>2, ChainSame DEF FactoryTypes
  <2>5. CASE ~ (now > x.expires) /\ Accepts(r, "InstallSucceeded")
    <3>1. /\ runtimes' = [runtimes EXCEPT ![x.can] = "installed"]
          /\ sess' = [sess EXCEPT ![s] = installed]
          /\ Waits(e, [x EXCEPT !.pc = "verify"]) /\ UNCHANGED job
      BY <1>10, <2>5 DEF InstallDone, x, s, r, installed
    <3>2. [exec[e] EXCEPT !.pc = "verify"] \in ExecTypes
      BY <1>2, <1>4, <2>1, StepsOnTyped DEF x
    <3>3. exec' \in [Execs -> ExecTypes]
      BY <3>1, <3>2, WaitsTyped DEF x
    <3> QED BY <2>2, <2>3, <3>1, <3>3, ChainSame DEF FactoryTypes
  <2>6. CASE ~ (now > x.expires) /\ ~ Accepts(r, "InstallSucceeded")
    <3>1. /\ runtimes' = [runtimes EXCEPT ![x.can] = "installed"]
          /\ sess' = [sess EXCEPT ![s] = r] /\ EndsWith(e, s, "Skip")
      BY <1>10, <2>6 DEF InstallDone, x, s, r
    <3>2. job' \in [Sessions -> Jobs] /\ exec' \in [Execs -> ExecTypes]
      BY <1>3, <3>1, EndsWithTyped
    <3> QED BY <2>1, <2>3, <3>1, <3>2, ChainSame DEF FactoryTypes
  <2> QED BY <2>4, <2>5, <2>6
<1>11. ASSUME RederiveFails(e) PROVE Goal
  <2>1. exec' \in [Execs -> ExecTypes]
    BY <1>2, <1>3, <1>11, CleansUpTyped DEF RederiveFails, x
  <2> QED BY <1>11, <2>1, ChainSame DEF RederiveFails, FactoryTypes
<1>12. ASSUME NEW action \in {"Backoff", "Skip"}, VerifyFails(e, action) PROVE Goal
  <2>1. WithCanister(sess[s], x.can) \in SessTypes
    BY <1>3, <1>5, <1>12 DEF VerifyFails, x
  <2>2. /\ sess' \in [Sessions -> SessTypes] /\ job' \in [Sessions -> Jobs]
        /\ exec' \in [Execs -> ExecTypes]
    BY <1>3, <1>4, <1>12, <2>1, SpawnFailsTyped DEF VerifyFails, x, s
  <2> QED BY <1>12, <2>2, ChainSame DEF VerifyFails, FactoryTypes
<1>13. ASSUME Verified(e) PROVE Goal
  <2>1. WithCanister(sess[s], x.can) \in SessTypes /\ x.can \in Canisters
    BY <1>3, <1>5, <1>13 DEF Verified, x
  <2>2. [exec[e] EXCEPT !.pc = "strategies"] \in ExecTypes
    BY <1>2, <1>4, <2>1, StepsOnTyped DEF x
  <2>3. exec' \in [Execs -> ExecTypes]
    BY <1>13, <2>2, WaitsTyped DEF Verified
  <2>4. sess' = [sess EXCEPT ![s] = WithCanister(sess[s], x.can)]
    BY <1>3, <1>13 DEF Verified, s, x, FactoryTypes
  <2>5. sess' \in [Sessions -> SessTypes]
    BY <2>1, <2>4 DEF FactoryTypes
  <2> QED BY <1>13, <2>3, <2>5, ChainSame DEF Verified, FactoryTypes
<1>14. ASSUME StrategiesFail(e) PROVE Goal
  <2>1. exec' \in [Execs -> ExecTypes]
    BY <1>2, <1>3, <1>14, CleansUpTyped DEF StrategiesFail, x
  <2> QED BY <1>14, <2>1, ChainSame DEF StrategiesFail, FactoryTypes
<1>15. ASSUME StrategiesInstalled(e) PROVE Goal
  <2>1. [exec[e] EXCEPT !.pc = "handoff"] \in ExecTypes
    BY <1>2, <1>3, <1>4, <1>15, StepsOnTyped DEF StrategiesInstalled, x
  <2>2. exec' \in [Execs -> ExecTypes]
    BY <1>15, <2>1, WaitsTyped DEF StrategiesInstalled
  <2> QED BY <1>15, <2>2, ChainSame DEF StrategiesInstalled, FactoryTypes
<1>16. ASSUME HandoffFails(e) PROVE Goal
  <2>1. exec' \in [Execs -> ExecTypes]
    BY <1>2, <1>3, <1>16, CleansUpTyped DEF HandoffFails, x
  <2> QED BY <1>16, <2>1, ChainSame DEF HandoffFails, FactoryTypes
<1>17. ASSUME HandedOff(e) PROVE Goal
  <2>1. WithCanister(sess[s], x.can) \in SessTypes /\ x.can \in Canisters
    BY <1>3, <1>5, <1>17 DEF HandedOff, x
  <2>2. sess' = [sess EXCEPT ![s] = WithCanister(sess[s], x.can)]
    BY <1>3, <1>17 DEF HandedOff, s, x, FactoryTypes
  <2>3. sess' \in [Sessions -> SessTypes]
    BY <2>1, <2>2 DEF FactoryTypes
  <2>4. /\ [exec[e] EXCEPT !.pc = "confirmOld", !.at = now] \in ExecTypes
        /\ [exec[e] EXCEPT !.pc = "nonce", !.at = now] \in ExecTypes
    BY <1>2, <1>4, <2>1, StepsOnTyped DEF x
  <2>5. \/ EndsWith(e, s, "Skip")
        \/ UNCHANGED job /\ Waits(e, [exec[e] EXCEPT !.pc = "confirmOld", !.at = now])
        \/ UNCHANGED job /\ Waits(e, [exec[e] EXCEPT !.pc = "nonce", !.at = now])
    BY <1>17 DEF HandedOff, s
  <2>6. job' \in [Sessions -> Jobs] /\ exec' \in [Execs -> ExecTypes]
    BY <1>3, <2>4, <2>5, WaitsTyped, EndsWithTyped DEF FactoryTypes
  <2> QED BY <1>17, <2>3, <2>6, ChainSame DEF HandedOff, FactoryTypes
<1>18. ASSUME HandedOffWithoutRpc(e) PROVE Goal
  <2>1. WithCanister(sess[s], x.can) \in SessTypes
    BY <1>3, <1>5, <1>18 DEF HandedOffWithoutRpc, x
  <2>2. /\ sess' \in [Sessions -> SessTypes] /\ job' \in [Sessions -> Jobs]
        /\ exec' \in [Execs -> ExecTypes]
    BY <1>3, <1>4, <1>18, <2>1, SpawnFailsTyped DEF HandedOffWithoutRpc, x, s
  <2> QED BY <1>18, <2>2, ChainSame DEF HandedOffWithoutRpc, FactoryTypes
<1>19. ASSUME NEW deleted \in BOOLEAN, CleanupReply(e, deleted) PROVE Goal
  <2> DEFINE r == IF x.keep = "none" THEN sess[s] ELSE WithCanister(sess[s], x.can)
  <2>1. x.can \in Canisters /\ x.action # "none"
    BY <1>3, <1>19 DEF CleanupReply, x
  <2>2. /\ x.action \in {"Backoff", "Skip", "Terminal"}
        /\ x.keep \in {"none", "created", "installed"}
    BY <1>3, <2>1 DEF ExecRecords
  <2>3. r \in SessTypes
    BY <1>3, <1>5, <2>1
  <2>4. SpawnFails(e, s, r, x.at, x.action)
    BY <1>19 DEF CleanupReply, x, s
  <2> HIDE DEF r
  <2>5. /\ sess' \in [Sessions -> SessTypes] /\ job' \in [Sessions -> Jobs]
        /\ exec' \in [Execs -> ExecTypes]
    BY <1>3, <1>4, <2>2, <2>3, <2>4, SpawnFailsTyped
  <2>6. /\ live' \in SUBSET Canisters /\ UNCHANGED <<now, nonceCursor, registry, secrets, payoutVars>>
        /\ runtimes' = IF x.keep = "none" THEN runtimes ELSE [runtimes EXCEPT ![x.can] = x.keep]
    BY <1>19 DEF CleanupReply, FactoryTypes, x
  <2>7. runtimes' \in [Canisters -> {"none", "created", "installed"}]
    BY <2>2, <2>6 DEF FactoryTypes
  <2> QED BY <2>5, <2>6, <2>7, ChainSame DEF FactoryTypes
<1> HIDE DEF Goal
<1>20. Goal
  BY <1>6, <1>7, <1>8, <1>9, <1>10, <1>11, <1>12, <1>13, <1>14, <1>15, <1>16, <1>17, <1>18, <1>19
     DEF BuildStep
<1> QED BY <1>20 DEF Goal

(***************************************************************************)
(* The release.                                                            *)
(***************************************************************************)
\* A session completes with a record, for the canister of the execution.
LEMMA CompletesTyped ==
  ASSUME FactoryTypes, NEW e \in Execs, NEW x, x.session \in Sessions, x.can \in Canisters, x.at \in Times,
         NEW rec \in Records, Completes(e, x, rec),
         UNCHANGED <<now, nonceCursor, live>>
  PROVE  FactoryTypes'
<1> DEFINE s == x.session
           r == [sess[s] EXCEPT !.rel = rec]
           legal == Accepts(r, "ReleaseBroadcast")
           done == IF legal THEN Apply(r, "ReleaseBroadcast", x.at) ELSE r
           j == IF legal THEN FinishOk(job[s], NoTime) ELSE FinishFailed(job[s], "Skip", NoTime, now)
<1>1. sess[s] \in SessTypes /\ job[s] \in Jobs /\ now \in Times /\ x.at \in Nat
  BY SchedulerAssumption DEF FactoryTypes, Times
<1>2. r \in SessTypes
  BY <1>1, WritesTyped
<1>3. done \in SessTypes
  <2> HIDE DEF r, legal
  <2> QED BY <1>1, <1>2, ApplyTyped DEF Events
<1>4. j \in Jobs
  <2> HIDE DEF legal
  <2> QED BY <1>1, JobTyped
<1>5. /\ sess' = [sess EXCEPT ![s] = done] /\ Ends(e, s, j)
      /\ runtimes' = [runtimes EXCEPT ![x.can] = "installed"]
      /\ registry' = registry \cup {[session |-> s, can |-> x.can]}
      /\ secrets' \subseteq secrets
  BY DEF Completes
<1> HIDE DEF done, j
<1>6. job' \in [Sessions -> Jobs] /\ exec' \in [Execs -> ExecTypes]
  BY <1>4, <1>5, EndsTyped
<1>7. sess' \in [Sessions -> SessTypes]
  BY <1>3, <1>5 DEF FactoryTypes
<1> QED BY <1>5, <1>6, <1>7 DEF FactoryTypes

\* A stale execution writes nothing.
LEMMA StaleTyped ==
  ASSUME FactoryTypes, NEW e \in Execs, NEW x, x.session \in Sessions, Stale(e, x),
         UNCHANGED <<now, nonceCursor, live>>
  PROVE  FactoryTypes'
<1>1. job' \in [Sessions -> Jobs] /\ exec' \in [Execs -> ExecTypes]
  BY EndsWithTyped DEF Stale
<1> QED BY <1>1 DEF Stale, FactoryTypes

\* A record is written and the execution ends.
LEMMA StaysTyped ==
  ASSUME FactoryTypes, NEW e \in Execs, NEW s \in Sessions, NEW rec \in Records,
         sess' = [sess EXCEPT ![s].rel = rec], EndsWith(e, s, "Backoff"),
         UNCHANGED <<now, nonceCursor, live, runtimes, registry, secrets>>
  PROVE  FactoryTypes'
<1>1. job' \in [Sessions -> Jobs] /\ exec' \in [Execs -> ExecTypes]
  BY EndsWithTyped
<1>2. [sess[s] EXCEPT !.rel = rec] \in SessTypes
  <2>1. sess[s] \in SessTypes
    BY DEF FactoryTypes
  <2> QED BY <2>1, WritesTyped
<1>3. sess' = [sess EXCEPT ![s] = [sess[s] EXCEPT !.rel = rec]]
  BY DEF FactoryTypes
<1>4. sess' \in [Sessions -> SessTypes]
  BY <1>2, <1>3 DEF FactoryTypes
<1> QED BY <1>1, <1>4 DEF FactoryTypes

\* A record is written and the session fails.
LEMMA BroadcastFailsTyped ==
  ASSUME FactoryTypes, NEW e \in Execs, NEW s \in Sessions, NEW c \in Canisters, NEW rec \in Records,
         NEW at \in Times, SpawnFails(e, s, WithCanister([sess[s] EXCEPT !.rel = rec], c), at, "Backoff"),
         runtimes' \in [Canisters -> {"none", "created", "installed"}],
         UNCHANGED <<now, nonceCursor, live, registry, secrets>>
  PROVE  FactoryTypes'
<1> DEFINE r == [sess[s] EXCEPT !.rel = rec]
<1>1. sess[s] \in SessTypes
  BY DEF FactoryTypes
<1>2. r \in SessTypes
  BY <1>1, WritesTyped
<1> HIDE DEF r
<1>3. WithCanister(r, c) \in SessTypes
  BY <1>2, CanisterTyped
<1>4. /\ sess' \in [Sessions -> SessTypes] /\ job' \in [Sessions -> Jobs]
      /\ exec' \in [Execs -> ExecTypes]
  BY <1>3, SpawnFailsTyped DEF r
<1> QED BY <1>4 DEF FactoryTypes

\* An execution goes on with its draft.
LEMMA DraftTyped ==
  ASSUME FactoryTypes, NEW e \in Execs, exec[e].pc \in ExecPcs \ {"create"}, NEW draft \in Records,
         NEW pc \in {"sign", "send", "sent", "confirm"}, draft # NoRecord,
         pc \in {"send", "sent"} => draft.tx # NoTx
  PROVE  [exec[e] EXCEPT !.pc = pc, !.draft = draft] \in ExecTypes
<1>1. exec[e] \in ExecRecords /\ exec[e].can \in Canisters
  BY ExecRecorded
<1>2. [exec[e] EXCEPT !.pc = pc, !.draft = draft] \in ExecRecords
  BY <1>1 DEF ExecRecords, ExecPcs
<1>3. /\ [exec[e] EXCEPT !.pc = pc, !.draft = draft].pc = pc
      /\ [exec[e] EXCEPT !.pc = pc, !.draft = draft].can = exec[e].can
      /\ [exec[e] EXCEPT !.pc = pc, !.draft = draft].draft = draft
  BY <1>1 DEF ExecRecords
<1> QED BY <1>1, <1>2, <1>3 DEF ExecTypes

\* An execution that only waits, with the rest of the factory left alone.
LEMMA OnlyWaitsTyped ==
  ASSUME FactoryTypes, NEW e \in Execs, NEW x \in ExecTypes, Waits(e, x),
         UNCHANGED <<now, sess, job, live, runtimes, registry, secrets>>,
         nonceCursor' \in 0 .. MaxNonce + 1
  PROVE  FactoryTypes'
<1>1. exec' \in [Execs -> ExecTypes]
  BY WaitsTyped
<1> QED BY <1>1 DEF FactoryTypes

\* A reserved nonce within the bound keeps the cursor within it.
LEMMA NonceTyped ==
  ASSUME Shape, NEW nonce, nonce = ReservedNonce(PendingNonce), nonce <= MaxNonce
  PROVE  nonce \in Nonces /\ nonce + 1 \in 0 .. MaxNonce + 1
<1>1. nonce \in Nat
  BY ReservedIsFresh
<1> QED BY <1>1, SpawnAssumption DEF Nonces

\* A record with a nonce is one.
LEMMA RecordTyped ==
  ASSUME NEW nonce \in Nonces, NEW tx \in Txs \cup {NoTx}, NEW acked \in BOOLEAN
  PROVE  Record(nonce, tx, acked) \in Records /\ Record(nonce, tx, acked) # NoRecord
         /\ Record(nonce, tx, acked).tx = tx
<1>1. nonce # NoNonce
  BY SpawnAssumption DEF Nonces, NoNonce
<1>2. Record(nonce, tx, acked).nonce = nonce /\ NoRecord.nonce = NoNonce
  BY DEF Record, NoRecord
<1> QED BY <1>1, <1>2 DEF Record, Records

\* A signed payout is a transaction.
LEMMA TxTyped ==
  ASSUME NEW kind \in {"release", "refund"}, NEW s \in Sessions, NEW nonce \in Nonces,
         NEW by \in Canisters \cup Calls
  PROVE  Tx(kind, s, nonce, by) \in Txs /\ Tx(kind, s, nonce, by) # NoTx
BY DEF Tx, Txs, NoTx

\* A node accepts a transaction.
LEMMA AcceptTyped ==
  ASSUME ChainTypeOK(Txs), NEW tx \in Txs, Accept(tx)
  PROVE  ChainTypeOK(Txs)'
<1>1. mempool' \in SUBSET Txs /\ mined' = mined /\ final' = final
  BY DEF ChainTypeOK, Accept
<1> QED BY <1>1 DEF ChainTypeOK, Txs

\* The steps of the release.
LEMMA ReleaseTyped ==
  ASSUME Shape, FactoryTypes, ChainTypeOK(Txs), NEW e \in Execs, ReleaseStep(e)
  PROVE  FactoryTypes' /\ ChainTypeOK(Txs)'
<1> DEFINE x == exec[e]
           s == exec[e].session
           Goal == FactoryTypes' /\ ChainTypeOK(Txs)'
<1>1. x.pc \in {"nonce", "sign", "send", "sent", "confirmOld", "confirm", "resume", "rehandoff"}
  BY DEF ReleaseStep, NonceFails, NonceReply, SignFails, Signed, SendArrives, SendFails, Sent,
         ConfirmOldReply, ConfirmReply, ResumeReply, RehandoffFails, Rehandoff
<1>2. x.pc \in ExecPcs \ {"create"}
  BY <1>1 DEF ExecPcs
<1>3. /\ x \in ExecRecords /\ s \in Sessions /\ sess[s] \in SessTypes /\ x.can \in Canisters
      /\ x.pc = "sign" => x.draft # NoRecord
      /\ x.pc \in {"send", "sent"} => x.draft.tx # NoTx
  BY <1>2, ExecRecorded
<1>4. x.at \in Times /\ x.rel \in Records /\ x.draft \in Records /\ x.session = s
  BY <1>3 DEF ExecRecords
<1>5. /\ now \in Times /\ nonceCursor \in 0 .. MaxNonce + 1
      /\ [runtimes EXCEPT ![x.can] = "installed"] \in [Canisters -> {"none", "created", "installed"}]
  BY DEF FactoryTypes
<1> HIDE DEF x, s, Goal
<1>6. ASSUME NEW rec \in Records, Completes(e, x, rec), UNCHANGED <<now, nonceCursor, live, payoutVars>>
      PROVE  Goal
  BY <1>3, <1>4, <1>6, CompletesTyped, ChainSame DEF Goal
<1>7. ASSUME Stale(e, x), UNCHANGED <<now, nonceCursor, live, payoutVars>> PROVE Goal
  BY <1>3, <1>4, <1>7, StaleTyped, ChainSame DEF Goal
<1>8. ASSUME NEW rec \in Records, StaysBroadcasting(e, x, rec),
             UNCHANGED <<now, nonceCursor, live, payoutVars>>
      PROVE  Goal
  BY <1>3, <1>4, <1>8, StaysTyped, ChainSame DEF Goal, StaysBroadcasting
<1>9. ASSUME NEW rec \in Records, BroadcastFails(e, x, rec),
             UNCHANGED <<now, nonceCursor, live, payoutVars>>
      PROVE  Goal
  <2>1. SpawnFails(e, s, WithCanister([sess[s] EXCEPT !.rel = rec], x.can), now, "Backoff")
    BY <1>4, <1>9 DEF BroadcastFails
  <2>2. /\ runtimes' \in [Canisters -> {"none", "created", "installed"}]
        /\ UNCHANGED <<registry, secrets>>
    BY <1>5, <1>9 DEF BroadcastFails
  <2> QED BY <1>3, <1>5, <1>9, <2>1, <2>2, BroadcastFailsTyped, ChainSame DEF Goal
<1>10. ASSUME NonceFails(e) PROVE Goal
  <2>1. WithCanister(sess[s], x.can) \in SessTypes
    BY <1>3, CanisterTyped
  <2>2. /\ SpawnFails(e, s, WithCanister(sess[s], x.can), now, "Backoff")
        /\ runtimes' = [runtimes EXCEPT ![x.can] = "installed"]
        /\ UNCHANGED <<now, nonceCursor, registry, secrets, live, payoutVars>>
    BY <1>10 DEF NonceFails, x, s
  <2>3. /\ sess' \in [Sessions -> SessTypes] /\ job' \in [Sessions -> Jobs]
        /\ exec' \in [Execs -> ExecTypes]
    BY <1>3, <1>5, <2>1, <2>2, SpawnFailsTyped
  <2> QED BY <1>5, <2>2, <2>3, ChainSame DEF FactoryTypes, Goal
<1>11. ASSUME NonceReply(e) PROVE Goal
  <2>1. PICK nonce : nonce = ReservedNonce(PendingNonce)
    OBVIOUS
  <2>2. /\ nonce <= MaxNonce /\ nonceCursor' = nonce + 1
        /\ UNCHANGED <<now, sess, runtimes, registry, secrets, live, payoutVars>>
        /\ \/ /\ Waits(e, [exec[e] EXCEPT !.pc = "sign", !.draft = Record(nonce, NoTx, FALSE)])
              /\ UNCHANGED job
           \/ EndsWith(e, s, "Skip")
    BY <1>11, <2>1 DEF NonceReply, s
  <2>3. nonce \in Nonces /\ nonceCursor' \in 0 .. MaxNonce + 1
    BY <2>1, <2>2, NonceTyped
  <2>4. Record(nonce, NoTx, FALSE) \in Records /\ Record(nonce, NoTx, FALSE) # NoRecord
    BY <2>3, RecordTyped
  <2>5. [exec[e] EXCEPT !.pc = "sign", !.draft = Record(nonce, NoTx, FALSE)] \in ExecTypes
    BY <1>2, <2>4, DraftTyped DEF x
  <2>6. CASE EndsWith(e, s, "Skip")
    <3>1. job' \in [Sessions -> Jobs] /\ exec' \in [Execs -> ExecTypes]
      BY <1>3, <2>6, EndsWithTyped
    <3> QED BY <2>2, <2>3, <3>1, ChainSame DEF FactoryTypes, Goal
  <2> QED BY <2>2, <2>3, <2>5, <2>6, OnlyWaitsTyped, ChainSame DEF Goal
<1>12. ASSUME SignFails(e) PROVE Goal
  BY <1>4, <1>7, <1>9, <1>12 DEF SignFails, x
<1>13. ASSUME Signed(e) PROVE Goal
  <2> DEFINE tx == Tx("release", s, x.draft.nonce, x.can)
             draft == [x.draft EXCEPT !.tx = tx]
  <2>1. x.draft \in [nonce : Nonces, tx : Txs \cup {NoTx}, acked : BOOLEAN] /\ x.draft.nonce \in Nonces
    BY <1>3, <1>4, <1>13, RecordKinds DEF Signed, x
  <2>2. tx \in Txs /\ tx # NoTx
    BY <1>3, <2>1, TxTyped
  <2> HIDE DEF tx
  <2>3. draft \in [nonce : Nonces, tx : Txs \cup {NoTx}, acked : BOOLEAN] /\ draft.tx = tx
    BY <2>1, <2>2
  <2> HIDE DEF draft
  <2>4. draft \in Records /\ draft # NoRecord
    BY <2>2, <2>3 DEF Records, NoRecord
  <2>5. [exec[e] EXCEPT !.pc = "send", !.draft = draft] \in ExecTypes
    BY <1>2, <2>2, <2>3, <2>4, DraftTyped DEF x
  <2>6. /\ \/ Stale(e, x)
           \/ /\ Waits(e, [x EXCEPT !.pc = "send", !.draft = draft])
              /\ UNCHANGED <<sess, job, runtimes, registry, secrets>>
        /\ UNCHANGED <<now, nonceCursor, live, payoutVars>>
    BY <1>3, <1>13 DEF Signed, x, s, tx, draft, ExecRecords
  <2> QED BY <1>5, <1>7, <2>5, <2>6, OnlyWaitsTyped, ChainSame DEF Goal, x
<1>14. ASSUME SendArrives(e) PROVE Goal
  <2>1. x.draft.tx \in Txs /\ x.draft # NoRecord /\ x.draft.tx # NoTx
    BY <1>3, <1>4, <1>14, RecordKinds DEF SendArrives, x
  <2>2. [exec[e] EXCEPT !.pc = "sent", !.draft = x.draft] \in ExecTypes
    BY <1>2, <1>4, <2>1, DraftTyped DEF x
  <2>3. [exec[e] EXCEPT !.pc = "sent", !.draft = x.draft] = [exec[e] EXCEPT !.pc = "sent"]
    BY <1>3 DEF x, ExecRecords
  <2>4. ChainTypeOK(Txs)'
    BY <1>14, <2>1, AcceptTyped DEF SendArrives, x
  <2> QED BY <1>5, <1>14, <2>2, <2>3, <2>4, OnlyWaitsTyped DEF Goal, SendArrives
<1>15. ASSUME SendFails(e) PROVE Goal
  BY <1>4, <1>7, <1>9, <1>15 DEF SendFails, x
<1>16. ASSUME Sent(e) PROVE Goal
  <2> DEFINE draft == [x.draft EXCEPT !.acked = TRUE]
  <2>1. x.draft \in [nonce : Nonces, tx : Txs \cup {NoTx}, acked : BOOLEAN]
    BY <1>3, <1>4, <1>16, RecordKinds DEF Sent, x
  <2>2. draft \in [nonce : Nonces, tx : Txs \cup {NoTx}, acked : BOOLEAN] /\ draft.acked = TRUE
    BY <2>1
  <2> HIDE DEF draft
  <2>3. draft \in Records /\ draft # NoRecord
    BY <2>2 DEF Records, NoRecord
  <2>4. [exec[e] EXCEPT !.pc = "confirm", !.draft = draft] \in ExecTypes
    BY <1>2, <2>3, DraftTyped DEF x
  <2>5. /\ \/ Stale(e, x)
           \/ /\ Waits(e, [x EXCEPT !.pc = "confirm", !.draft = draft])
              /\ UNCHANGED <<sess, job, runtimes, registry, secrets>>
        /\ UNCHANGED <<now, nonceCursor, live, payoutVars>>
    BY <1>3, <1>16 DEF Sent, x, s, draft, ExecRecords
  <2> QED BY <1>5, <1>7, <2>4, <2>5, OnlyWaitsTyped, ChainSame DEF Goal, x
<1>17. ASSUME NEW receipt \in {"confirmed", "pending", "rpcError", "reverted", "forked"},
              ConfirmOldReply(e, receipt)
       PROVE  Goal
  <2>1. /\ UNCHANGED <<now, nonceCursor, live, payoutVars>>
        /\ Stale(e, x) \/ Completes(e, x, x.rel) \/ StaysBroadcasting(e, x, x.rel)
             \/ BroadcastFails(e, x, x.rel)
    BY <1>17 DEF ConfirmOldReply, x
  <2> QED BY <1>4, <1>6, <1>7, <1>8, <1>9, <2>1
<1>18. ASSUME NEW receipt \in {"confirmed", "pending", "rpcError", "reverted", "forked"},
              ConfirmReply(e, receipt)
       PROVE  Goal
  <2>1. /\ UNCHANGED <<now, nonceCursor, live, payoutVars>>
        /\ Stale(e, x) \/ Completes(e, x, x.draft) \/ StaysBroadcasting(e, x, x.draft)
             \/ BroadcastFails(e, x, x.draft)
    BY <1>18 DEF ConfirmReply, x
  <2> QED BY <1>4, <1>6, <1>7, <1>8, <1>9, <2>1
<1>19. ASSUME NEW receipt \in {"confirmed", "pending", "rpcError", "reverted", "forked"},
              ResumeReply(e, receipt)
       PROVE  Goal
  <2>1. UNCHANGED <<now, nonceCursor, live, payoutVars>>
    BY <1>19 DEF ResumeReply
  <2>2. \/ Stale(e, x)
        \/ /\ UNCHANGED <<runtimes, registry, secrets>>
           /\ \/ Waits(e, [x EXCEPT !.pc = "rehandoff"]) /\ UNCHANGED <<sess, job>>
              \/ EndsWith(e, s, "Backoff") /\ sess' = [sess EXCEPT ![s].rel = x.rel]
              \/ SpawnFails(e, s, WithCanister([sess[s] EXCEPT !.rel = x.rel], x.can), x.at, "Backoff")
    BY <1>19 DEF ResumeReply, x, s
  <2>3. CASE Waits(e, [x EXCEPT !.pc = "rehandoff"]) /\ UNCHANGED <<sess, job, runtimes, registry, secrets>>
    <3>1. [exec[e] EXCEPT !.pc = "rehandoff"] \in ExecTypes
      BY <1>2, <1>3, <1>5, StepsOnTyped DEF x
    <3> QED BY <1>5, <2>1, <2>3, <3>1, OnlyWaitsTyped, ChainSame DEF Goal, x
  <2>4. CASE /\ EndsWith(e, s, "Backoff") /\ sess' = [sess EXCEPT ![s].rel = x.rel]
             /\ UNCHANGED <<runtimes, registry, secrets>>
    BY <1>3, <1>4, <2>1, <2>4, StaysTyped, ChainSame DEF Goal
  <2>5. CASE /\ SpawnFails(e, s, WithCanister([sess[s] EXCEPT !.rel = x.rel], x.can), x.at, "Backoff")
             /\ UNCHANGED <<runtimes, registry, secrets>>
    <3>1. runtimes' \in [Canisters -> {"none", "created", "installed"}]
      BY <2>5 DEF FactoryTypes
    <3> QED BY <1>3, <1>4, <2>1, <2>5, <3>1, BroadcastFailsTyped, ChainSame DEF Goal
  <2> QED BY <1>7, <2>1, <2>2, <2>3, <2>4, <2>5
<1>20. ASSUME RehandoffFails(e) PROVE Goal
  <2>1. job' \in [Sessions -> Jobs] /\ exec' \in [Execs -> ExecTypes]
    BY <1>3, <1>20, EndsWithTyped DEF RehandoffFails, s
  <2> QED BY <1>20, <2>1, ChainSame DEF RehandoffFails, FactoryTypes, Goal
<1>21. ASSUME Rehandoff(e) PROVE Goal
  BY <1>4, <1>6, <1>7, <1>21 DEF Rehandoff, x
<1>22. Goal
  BY <1>10, <1>11, <1>12, <1>13, <1>14, <1>15, <1>16, <1>17, <1>18, <1>19, <1>20, <1>21
     DEF ReleaseStep
<1> QED BY <1>22 DEF Goal

(***************************************************************************)
(* Refund commands.                                                        *)
(***************************************************************************)
\* A command that is under way has all its fields.
LEMMA CallRecorded ==
  ASSUME FactoryTypes, CommandTypes, NEW k \in Calls, call[k] # Idle
  PROVE  /\ call[k] \in CallRecords
         /\ call[k].pc = "sign" => call[k].rec # NoRecord
         /\ call[k].pc \in {"send", "sent"} => call[k].rec.tx # NoTx
         /\ call[k].session \in Sessions /\ call[k].rec \in Records /\ call[k].at \in Times
         /\ sess[call[k].session] \in SessTypes
<1>1. call[k] \in CallTypes
  BY DEF CommandTypes
<1>2. call[k] \in CallRecords
  BY <1>1 DEF CallTypes
<1>3. call[k].session \in Sessions /\ call[k].rec \in Records /\ call[k].at \in Times
  BY <1>2 DEF CallRecords
<1> QED BY <1>1, <1>2, <1>3 DEF CallTypes, FactoryTypes

\* A command that ends is idle and takes its lease away.
LEMMA CallEndsTyped ==
  ASSUME CommandTypes, NEW k \in Calls, CallEnds(k)
  PROVE  CommandTypes'
<1>1. Idle \in CallTypes /\ NoLease \in [gen : 0 .. MaxGeneration, until : Times]
  BY RefundAssumption, SchedulerAssumption DEF CallTypes, NoLease, Times
<1> QED BY <1>1 DEF CommandTypes, CallEnds

\* A command that waits on has its fields.
LEMMA CallWaitsTyped ==
  ASSUME CommandTypes, NEW k \in Calls, NEW y \in CallTypes, CallWaits(k, y)
  PROVE  CommandTypes'
BY DEF CommandTypes, CallWaits

\* A command goes on with its record.
LEMMA CallMovesTyped ==
  ASSUME FactoryTypes, CommandTypes, NEW k \in Calls, call[k] # Idle, NEW rec \in Records, rec # NoRecord,
         NEW pc \in {"sign", "send", "sent", "confirm"}, pc \in {"send", "sent"} => rec.tx # NoTx
  PROVE  [call[k] EXCEPT !.pc = pc, !.rec = rec] \in CallTypes
<1>1. call[k] \in CallRecords
  BY CallRecorded
<1>2. [call[k] EXCEPT !.pc = pc, !.rec = rec] \in CallRecords
  BY <1>1 DEF CallRecords, CallPcs
<1>3. /\ [call[k] EXCEPT !.pc = pc, !.rec = rec].pc = pc
      /\ [call[k] EXCEPT !.pc = pc, !.rec = rec].rec = rec
  BY <1>1 DEF CallRecords
<1> QED BY <1>2, <1>3 DEF CallTypes

\* What a command leaves alone and what it writes of a session.
LEMMA WroteTyped ==
  ASSUME FactoryTypes, NEW s \in Sessions, NEW r \in SessTypes,
         UNCHANGED sess \/ sess' = [sess EXCEPT ![s] = r],
         nonceCursor' \in 0 .. MaxNonce + 1, secrets' \subseteq secrets,
         UNCHANGED <<now, job, exec, runtimes, registry, live>>
  PROVE  FactoryTypes'
BY DEF FactoryTypes

\* A refund record is written.
LEMMA SavesTyped ==
  ASSUME FactoryTypes, NEW s \in Sessions, NEW rec \in Records,
         UNCHANGED sess \/ SaveRefund(s, rec),
         nonceCursor' \in 0 .. MaxNonce + 1, UNCHANGED <<now, job, exec, runtimes, registry, live, secrets>>
  PROVE  FactoryTypes'
<1>1. PICK r : r = [sess[s] EXCEPT !.refund = rec]
  OBVIOUS
<1>2. sess[s] \in SessTypes
  BY DEF FactoryTypes
<1>3. r \in SessTypes
  BY <1>1, <1>2, WritesTyped
<1>4. UNCHANGED sess \/ sess' = [sess EXCEPT ![s] = r]
  BY <1>1 DEF SaveRefund, FactoryTypes
<1> QED BY <1>3, <1>4, WroteTyped

\* The steps of a command that is under way.
LEMMA CommandTyped ==
  ASSUME Shape, FactoryTypes, CommandTypes, ChainTypeOK(Txs), NEW k \in Calls, call[k] # Idle,
         \/ RefundNonce(k) \/ RefundSigned(k) \/ RefundArrives(k) \/ RefundSent(k)
         \/ RefundFails(k) \/ RefundPending(k) \/ RefundConfirmed(k) \/ LoseCall(k)
  PROVE  FactoryTypes' /\ CommandTypes' /\ ChainTypeOK(Txs)'
<1> DEFINE y == call[k]
           s == call[k].session
           Goal == FactoryTypes' /\ CommandTypes' /\ ChainTypeOK(Txs)'
<1>1. /\ y \in CallRecords /\ s \in Sessions /\ y.rec \in Records /\ y.at \in Times
      /\ y.pc = "sign" => y.rec # NoRecord
      /\ y.pc \in {"send", "sent"} => y.rec.tx # NoTx
      /\ sess[s] \in SessTypes
  BY CallRecorded
<1>2. nonceCursor \in 0 .. MaxNonce + 1
  BY DEF FactoryTypes
<1> HIDE DEF y, s, Goal
<1>3. ASSUME NEW rec \in Records, UNCHANGED sess \/ SaveRefund(s, rec),
             nonceCursor' \in 0 .. MaxNonce + 1,
             UNCHANGED <<now, job, exec, runtimes, registry, live, secrets, payoutVars>>,
             CallEnds(k) \/ \E z \in CallTypes : CallWaits(k, z)
      PROVE  Goal
  <2>1. CommandTypes'
    BY <1>3, CallEndsTyped, CallWaitsTyped
  <2> QED BY <1>1, <1>3, <2>1, SavesTyped, ChainSame DEF Goal
<1>4. ASSUME CallStale(k), UNCHANGED <<now, job, exec, runtimes, registry, live, payoutVars>> PROVE Goal
  BY <1>1, <1>2, <1>3, <1>4 DEF CallStale
<1>5. ASSUME RefundNonce(k) PROVE Goal
  <2>1. PICK nonce : nonce = ReservedNonce(PendingNonce)
    OBVIOUS
  <2>2. PICK old : old = sess[s].refund
    OBVIOUS
  <2>3. old \in Records
    BY <1>1, <2>2 DEF SessTypes, SessRecords
  <2>4. /\ UNCHANGED <<now, job, exec, runtimes, registry, live, payoutVars>>
        /\ \/ CallStale(k)
           \/ /\ old # NoRecord
              /\ CallWaits(k, [call[k] EXCEPT !.pc = "sign", !.rec = Record(old.nonce, NoTx, FALSE)])
              /\ UNCHANGED <<sess, nonceCursor, secrets>>
           \/ /\ nonce <= MaxNonce /\ nonceCursor' = nonce + 1
              /\ SaveRefund(s, Record(nonce, NoTx, FALSE))
              /\ CallWaits(k, [call[k] EXCEPT !.pc = "sign", !.rec = Record(nonce, NoTx, FALSE)])
              /\ UNCHANGED secrets
    BY <1>5, <2>1, <2>2 DEF RefundNonce, s
  <2>5. CASE /\ old # NoRecord
             /\ CallWaits(k, [call[k] EXCEPT !.pc = "sign", !.rec = Record(old.nonce, NoTx, FALSE)])
             /\ UNCHANGED <<sess, nonceCursor, secrets>>
    <3>1. old.nonce \in Nonces
      BY <2>3, <2>5, RecordKinds
    <3>2. Record(old.nonce, NoTx, FALSE) \in Records /\ Record(old.nonce, NoTx, FALSE) # NoRecord
      BY <3>1, RecordTyped
    <3>3. [call[k] EXCEPT !.pc = "sign", !.rec = Record(old.nonce, NoTx, FALSE)] \in CallTypes
      BY <3>2, CallMovesTyped
    <3>4. \E z \in CallTypes : CallWaits(k, z)
      BY <2>5, <3>3
    <3> QED BY <1>2, <1>3, <2>3, <2>4, <2>5, <3>4
  <2>6. CASE /\ nonce <= MaxNonce /\ nonceCursor' = nonce + 1
             /\ SaveRefund(s, Record(nonce, NoTx, FALSE))
             /\ CallWaits(k, [call[k] EXCEPT !.pc = "sign", !.rec = Record(nonce, NoTx, FALSE)])
             /\ UNCHANGED secrets
    <3>1. nonce \in Nonces /\ nonceCursor' \in 0 .. MaxNonce + 1
      BY <2>1, <2>6, NonceTyped
    <3>2. Record(nonce, NoTx, FALSE) \in Records /\ Record(nonce, NoTx, FALSE) # NoRecord
      BY <3>1, RecordTyped
    <3>3. [call[k] EXCEPT !.pc = "sign", !.rec = Record(nonce, NoTx, FALSE)] \in CallTypes
      BY <3>2, CallMovesTyped
    <3>4. \E z \in CallTypes : CallWaits(k, z)
      BY <2>6, <3>3
    <3> QED BY <1>3, <2>4, <2>6, <3>1, <3>2, <3>4
  <2> QED BY <1>4, <2>4, <2>5, <2>6
<1>6. ASSUME RefundSigned(k) PROVE Goal
  <2>1. PICK tx : tx = Tx("refund", s, y.rec.nonce, k)
    OBVIOUS
  <2>2. y.rec.nonce \in Nonces
    BY <1>1, <1>6, RecordKinds DEF RefundSigned, y
  <2>3. tx \in Txs /\ tx # NoTx
    BY <1>1, <2>1, <2>2, TxTyped
  <2>4. PICK rec : rec = Record(y.rec.nonce, tx, FALSE)
    OBVIOUS
  <2>5. rec \in Records /\ rec # NoRecord /\ rec.tx # NoTx
    BY <2>2, <2>3, <2>4, RecordTyped
  <2>6. [call[k] EXCEPT !.pc = "send", !.rec = rec] \in CallTypes
    BY <2>5, CallMovesTyped
  <2>7. /\ UNCHANGED <<now, job, exec, runtimes, registry, live, payoutVars>>
        /\ \/ CallStale(k)
           \/ /\ SaveRefund(s, rec) /\ CallWaits(k, [call[k] EXCEPT !.pc = "send", !.rec = rec])
              /\ UNCHANGED <<nonceCursor, secrets>>
    BY <1>6, <2>1, <2>4 DEF RefundSigned, s, y
  <2> QED BY <1>2, <1>3, <1>4, <2>5, <2>6, <2>7
<1>7. ASSUME RefundArrives(k) PROVE Goal
  <2>1. y.rec.tx \in Txs /\ y.rec.tx # NoTx /\ y.rec # NoRecord
    BY <1>1, <1>7, RecordKinds DEF RefundArrives, y
  <2>2. [call[k] EXCEPT !.pc = "sent", !.rec = y.rec] \in CallTypes
    BY <1>1, <2>1, CallMovesTyped
  <2>3. [call[k] EXCEPT !.pc = "sent", !.rec = y.rec] = [call[k] EXCEPT !.pc = "sent"]
    BY <1>1 DEF y, CallRecords
  <2>4. ChainTypeOK(Txs)'
    BY <1>7, <2>1, AcceptTyped DEF RefundArrives, y
  <2>5. CommandTypes'
    BY <1>7, <2>2, <2>3, CallWaitsTyped DEF RefundArrives
  <2> QED BY <1>7, <2>4, <2>5 DEF Goal, RefundArrives, factoryVars, FactoryTypes
<1>8. ASSUME RefundSent(k) PROVE Goal
  <2>1. PICK rec : rec = [y.rec EXCEPT !.acked = TRUE]
    OBVIOUS
  <2>2. y.rec \in [nonce : Nonces, tx : Txs \cup {NoTx}, acked : BOOLEAN]
    BY <1>1, <1>8, RecordKinds DEF RefundSent, y
  <2>3. rec \in [nonce : Nonces, tx : Txs \cup {NoTx}, acked : BOOLEAN] /\ rec.acked = TRUE
    BY <2>1, <2>2
  <2>4. rec \in Records /\ rec # NoRecord
    BY <2>3 DEF Records, NoRecord
  <2>5. [call[k] EXCEPT !.pc = "confirm", !.rec = rec] \in CallTypes
    BY <2>4, CallMovesTyped
  <2>6. /\ UNCHANGED <<now, job, exec, runtimes, registry, live, payoutVars>>
        /\ \/ CallStale(k)
           \/ /\ SaveRefund(s, rec) /\ CallWaits(k, [call[k] EXCEPT !.pc = "confirm", !.rec = rec])
              /\ UNCHANGED <<nonceCursor, secrets>>
    BY <1>8, <2>1 DEF RefundSent, s, y
  <2> QED BY <1>2, <1>3, <1>4, <2>4, <2>5, <2>6
<1>9. ASSUME RefundFails(k) PROVE Goal
  <2>1. /\ UNCHANGED <<now, job, exec, runtimes, registry, live, payoutVars>>
        /\ \/ CallStale(k)
           \/ /\ UNCHANGED sess \/ SaveRefund(s, y.rec)
              /\ CallEnds(k) /\ UNCHANGED <<nonceCursor, secrets>>
    BY <1>9 DEF RefundFails, CallFails, s, y
  <2> QED BY <1>1, <1>2, <1>3, <1>4, <2>1
<1>10. ASSUME RefundPending(k) PROVE Goal
  <2>1. /\ UNCHANGED <<now, job, exec, runtimes, registry, live, payoutVars>>
        /\ \/ CallStale(k)
           \/ SaveRefund(s, y.rec) /\ CallEnds(k) /\ UNCHANGED <<nonceCursor, secrets>>
    BY <1>10 DEF RefundPending, s, y
  <2> QED BY <1>1, <1>2, <1>3, <1>4, <2>1
<1>11. ASSUME RefundConfirmed(k) PROVE Goal
  <2>1. PICK r : r = [sess[s] EXCEPT !.refund = y.rec]
    OBVIOUS
  <2>2. PICK paid : paid = [r EXCEPT !.pay = "Refunded"]
    OBVIOUS
  <2>3. r \in SessTypes
    BY <1>1, <2>1, WritesTyped
  <2>4. paid \in SessTypes
    BY <1>1, <2>2, <2>3, WritesTyped
  <2>5. SyncFlags(paid, y.at) \in SessTypes
    BY <2>4, SyncTyped
  <2>6. /\ UNCHANGED <<now, job, exec, runtimes, registry, live, payoutVars>>
        /\ \/ CallStale(k)
           \/ /\ \/ sess' = [sess EXCEPT ![s] = SyncFlags(paid, y.at)]
                 \/ sess' = [sess EXCEPT ![s] = r]
              /\ secrets' \subseteq secrets /\ CallEnds(k) /\ UNCHANGED nonceCursor
    BY <1>11, <2>1, <2>2 DEF RefundConfirmed, s, y
  <2>7. CASE ~ CallStale(k)
    <3>1. CommandTypes'
      BY <2>6, <2>7, CallEndsTyped
    <3>2. FactoryTypes'
      BY <1>1, <1>2, <2>3, <2>5, <2>6, <2>7, WroteTyped
    <3> QED BY <2>6, <3>1, <3>2, ChainSame DEF Goal
  <2> QED BY <1>4, <2>6, <2>7
<1>12. ASSUME LoseCall(k) PROVE Goal
  <2>1. Idle \in CallTypes
    BY DEF CallTypes
  <2>2. CommandTypes' /\ FactoryTypes'
    BY <1>12, <2>1 DEF LoseCall, CommandTypes, FactoryTypes, spawnVars, factoryVars
  <2> QED BY <1>12, <2>2, ChainSame DEF Goal, LoseCall, spawnVars
<1>13. Goal
  BY <1>5, <1>6, <1>7, <1>8, <1>9, <1>10, <1>11, <1>12
<1> QED BY <1>13 DEF Goal

\* A command that is claimed, refused or answered at once.
LEMMA ClaimTyped ==
  ASSUME FactoryTypes, CommandTypes, ChainTypeOK(Txs), NEW s \in Sessions,
         ClaimRefused(s) \/ ClaimAgain(s) \/ \E k \in Calls : ClaimRefund(k, s)
  PROVE  FactoryTypes' /\ CommandTypes' /\ ChainTypeOK(Txs)'
<1>1. sess[s] \in SessTypes /\ now \in Times /\ now \in Nat
  BY SchedulerAssumption DEF FactoryTypes, Times
<1>2. Claimed(s) \in SessTypes
  <2>1. Apply(sess[s], "SessionExpired", now) \in SessTypes
    BY <1>1, ApplyTyped DEF Events
  <2> QED BY <1>1, <2>1 DEF Claimed
<1>3. ASSUME ClaimRefused(s) PROVE FactoryTypes' /\ CommandTypes' /\ ChainTypeOK(Txs)'
  <2>1. FactoryTypes' /\ CommandTypes'
    BY <1>2, <1>3 DEF ClaimRefused, FactoryTypes, CommandTypes, refundVars
  <2> QED BY <1>3, <2>1, ChainSame DEF ClaimRefused
<1>4. ASSUME ClaimAgain(s) PROVE FactoryTypes' /\ CommandTypes' /\ ChainTypeOK(Txs)'
  <2>1. NoLease \in [gen : 0 .. MaxGeneration, until : Times]
    BY RefundAssumption, SchedulerAssumption DEF NoLease, Times
  <2>2. FactoryTypes' /\ CommandTypes'
    BY <1>4, <2>1 DEF ClaimAgain, FactoryTypes, CommandTypes, spawnVars, factoryVars
  <2> QED BY <1>4, <2>2, ChainSame DEF ClaimAgain, spawnVars
<1>5. ASSUME NEW k \in Calls, ClaimRefund(k, s)
      PROVE  FactoryTypes' /\ CommandTypes' /\ ChainTypeOK(Txs)'
  <2>1. PICK rec : rec = sess[s].refund
    OBVIOUS
  <2>2. PICK pc : pc = CASE rec.acked -> "confirm"
                         [] ~ rec.acked /\ rec.tx # NoTx -> "send"
                         [] OTHER -> "nonce"
    OBVIOUS
  <2>3. PICK gen : gen = lease[s].gen + 1
    OBVIOUS
  <2>4. PICK until : until = Later(now, RefundLease)
    OBVIOUS
  <2>5. PICK fresh \in BOOLEAN : fresh = (rec.tx = NoTx)
    OBVIOUS
  <2>6. rec \in Records
    BY <1>1, <2>1 DEF SessTypes, SessRecords
  <2>7. pc \in CallPcs \ {"sign", "sent"} /\ (pc = "send" => rec.tx # NoTx)
    BY <2>2 DEF CallPcs
  <2>8. gen \in 0 .. MaxGeneration /\ until \in Times
    <3>1. lease[s].gen \in 0 .. MaxGeneration /\ lease[s].gen < MaxGeneration
      BY <1>5 DEF ClaimRefund, CommandTypes
    <3> QED BY <1>1, <2>3, <2>4, <3>1, LaterTyped, RefundAssumption
  <2>9. PICK y : y = [pc |-> pc, session |-> s, gen |-> gen, rec |-> rec, fresh |-> fresh, at |-> now]
    OBVIOUS
  <2>10. y \in CallTypes
    <3>1. y \in CallRecords /\ y.pc = pc /\ y.rec = rec
      BY <1>1, <2>6, <2>7, <2>8, <2>9 DEF CallRecords
    <3> QED BY <2>7, <3>1 DEF CallTypes
  <2>11. call' = [call EXCEPT ![k] = y]
    BY <1>5, <2>1, <2>2, <2>3, <2>5, <2>9 DEF ClaimRefund
  <2>12. lease' = [lease EXCEPT ![s] = [gen |-> gen, until |-> until]]
    BY <1>5, <2>3, <2>4 DEF ClaimRefund, CommandTypes
  <2>13. CommandTypes'
    BY <2>8, <2>10, <2>11, <2>12 DEF CommandTypes
  <2>14. FactoryTypes'
    BY <1>2, <1>5 DEF ClaimRefund, FactoryTypes
  <2> QED BY <1>5, <2>13, <2>14, ChainSame DEF ClaimRefund
<1> QED BY <1>3, <1>4, <1>5

(***************************************************************************)
(* The environment, and all steps together.                                *)
(***************************************************************************)
\* The chain mines, finalizes and reorganises transactions.
LEMMA ChainStepTyped ==
  ASSUME ChainTypeOK(Txs), ChainStep
  PROVE  ChainTypeOK(Txs)'
<1> DEFINE T == Txs
<1>1. mempool \in SUBSET T /\ mined \in Seq(T) /\ final \in 0 .. Len(mined) /\ Len(mined) \in Nat
  BY DEF ChainTypeOK
<1>2. T' = T
  BY DEF Txs
<1> HIDE DEF T
<1>3. ASSUME NEW tx \in mempool, MineTx(tx)
      PROVE  mempool' \in SUBSET T /\ mined' \in Seq(T) /\ final' \in 0 .. Len(mined')
  BY <1>1, <1>3 DEF MineTx
<1>4. ASSUME Finalize
      PROVE  mempool' \in SUBSET T /\ mined' \in Seq(T) /\ final' \in 0 .. Len(mined')
  BY <1>1, <1>4 DEF Finalize
<1>5. ASSUME NEW dropped \in BOOLEAN, ReorgTx(dropped)
      PROVE  mempool' \in SUBSET T /\ mined' \in Seq(T) /\ final' \in 0 .. Len(mined')
  <2>1. final < Len(mined) /\ Len(mined) \in 1 .. Len(mined) /\ mined[Len(mined)] \in T
    BY <1>1, <1>5 DEF ReorgTx
  <2>2. /\ mined' = SubSeq(mined, 1, Len(mined) - 1) /\ final' = final
        /\ mempool' = mempool \/ mempool' = mempool \cup {mined[Len(mined)]}
    BY <1>5 DEF ReorgTx
  <2>3. mined' \in Seq(T) /\ Len(mined') = Len(mined) - 1
    <3>1. PICK n : n = Len(mined) - 1
      OBVIOUS
    <3>2. n \in Int /\ n >= 0 /\ \A i \in 1 .. n : mined[i] \in T
      BY <1>1, <2>1, <3>1
    <3>3. /\ SubSeq(mined, 1, n) \in Seq(T)
          /\ Len(SubSeq(mined, 1, n)) = IF 1 <= n THEN n - 1 + 1 ELSE 0
      BY <3>2, SubSeqProperties
    <3> QED BY <2>2, <3>1, <3>2, <3>3
  <2> QED BY <1>1, <2>1, <2>2, <2>3
<1>6. mempool' \in SUBSET T /\ mined' \in Seq(T) /\ final' \in 0 .. Len(mined')
  BY <1>3, <1>4, <1>5 DEF ChainStep
<1> QED BY <1>2, <1>6 DEF ChainTypeOK, T

\* A session that is retried, and an execution that is lost.
LEMMA RetryTyped ==
  ASSUME FactoryTypes, ChainTypeOK(Txs),
         (\E s \in Sessions : RetrySession(s)) \/ \E e \in Execs : Lose(e)
  PROVE  FactoryTypes' /\ ChainTypeOK(Txs)'
<1>1. ASSUME NEW s \in Sessions, RetrySession(s) PROVE FactoryTypes' /\ ChainTypeOK(Txs)'
  <2>1. sess[s] \in SessTypes /\ job[s] \in Jobs /\ now \in Times /\ now \in Nat
    BY SchedulerAssumption DEF FactoryTypes, Times
  <2>2. PICK r : r = Apply(sess[s], "RetryRequested", now)
    OBVIOUS
  <2>3. r \in SessTypes
    BY <2>1, <2>2, ApplyTyped DEF Events
  <2>4. Enqueue(job[s], now) \in Jobs
    BY <2>1, JobTyped
  <2>5. sess' = [sess EXCEPT ![s] = r] /\ job' = [job EXCEPT ![s] = Enqueue(job[s], now)]
    BY <1>1, <2>2 DEF RetrySession, FactoryTypes
  <2> QED BY <1>1, <2>3, <2>4, <2>5, ChainSame DEF RetrySession, FactoryTypes
<1>2. ASSUME NEW e \in Execs, Lose(e) PROVE FactoryTypes' /\ ChainTypeOK(Txs)'
  <2>1. Idle \in ExecTypes
    BY DEF ExecTypes
  <2> QED BY <1>2, <2>1, ChainSame DEF Lose, FactoryTypes
<1> QED BY <1>1, <1>2

\* At the start every session is paid for and nothing is under way.
LEMMA PayoutTypesInit == Init => PayoutTypes
<1> SUFFICES ASSUME Init PROVE PayoutTypes
  OBVIOUS
<1>1. 0 \in Times /\ UnscheduledJob \in Jobs /\ NoRecord \in Records
  BY SchedulerAssumption DEF Times, UnscheduledJob, Jobs, NoTime, Records
<1>2. Enqueue(UnscheduledJob, 0) \in Jobs
  BY <1>1, JobTyped
<1>3. PICK r : r = [state |-> "PaymentDetected", pay |-> "Paid", expires |-> SessionTtl,
                    retryable |-> FALSE, refundable |-> FALSE, can |-> NoCanister,
                    rel |-> NoRecord, refund |-> NoRecord]
  OBVIOUS
<1>4. r \in SessTypes
  <2>1. r \in SessRecords /\ r.state = "PaymentDetected"
    BY <1>1, <1>3, SessionTtlAssumption DEF SessRecords, States, PaymentStatuses
  <2> QED BY <2>1 DEF SessTypes
<1>5. sess = [s \in Sessions |-> r]
  BY <1>3 DEF Init, SpawnInit
<1>6. Idle \in ExecTypes /\ Idle \in CallTypes
  BY DEF ExecTypes, CallTypes
<1>7. NoLease \in [gen : 0 .. MaxGeneration, until : Times]
  BY RefundAssumption, SchedulerAssumption DEF NoLease, Times
<1>8. FactoryTypes
  <2>1. 0 \in 0 .. MaxNonce + 1
    BY SpawnAssumption
  <2> QED BY <1>1, <1>2, <1>4, <1>5, <1>6, <2>1 DEF Init, SpawnInit, FactoryTypes
<1>9. CommandTypes
  BY <1>6, <1>7 DEF Init, CommandTypes
<1>10. ChainTypeOK(Txs)
  <2> DEFINE T == Txs
  <2> HIDE DEF T
  <2>1. mempool \in SUBSET T /\ mined \in Seq(T) /\ final \in 0 .. Len(mined)
    BY DEF Init, SpawnInit, ChainInit
  <2> QED BY <2>1 DEF T, ChainTypeOK
<1> QED BY <1>8, <1>9, <1>10 DEF PayoutTypes

\* Every step keeps the types, as long as the cursor and the pool are accounted for.
LEMMA PayoutTypesStep ==
  PayoutsAccounted /\ PayoutTypes /\ [Next]_vars => PayoutTypes'
<1> SUFFICES ASSUME PayoutsAccounted, PayoutTypes, [Next]_vars PROVE PayoutTypes'
  OBVIOUS
<1>1. Shape /\ FactoryTypes /\ CommandTypes /\ ChainTypeOK(Txs)
  BY DEF PayoutsAccounted, PayoutInv, PayoutTypes
<1>2. ASSUME UNCHANGED refundVars PROVE CommandTypes'
  BY <1>1, <1>2 DEF CommandTypes, refundVars
<1>3. ASSUME Tick, UNCHANGED refundVars PROVE PayoutTypes'
  <2>1. FactoryTypes'
    <3>1. now' \in Times
      BY <1>1, <1>3, SchedulerAssumption DEF Tick, FactoryTypes, Times
    <3> QED BY <1>1, <1>3, <3>1 DEF Tick, FactoryTypes, factoryVars
  <2>2. ChainTypeOK(Txs)'
    BY <1>1, <1>3, ChainSame DEF Tick
  <2> QED BY <1>2, <1>3, <2>1, <2>2 DEF PayoutTypes
<1>4. ASSUME ChainStep, UNCHANGED refundVars PROVE PayoutTypes'
  <2>1. FactoryTypes'
    BY <1>1, <1>4 DEF ChainStep, FactoryTypes, factoryVars
  <2>2. ChainTypeOK(Txs)'
    BY <1>1, <1>4, ChainStepTyped
  <2> QED BY <1>2, <1>4, <2>1, <2>2 DEF PayoutTypes
<1>5. ASSUME SpawnStep, UNCHANGED refundVars PROVE PayoutTypes'
  <2>1. FactoryTypes' /\ ChainTypeOK(Txs)'
    BY <1>1, <1>5, RetryTyped, StartTyped, BuildTyped, ReleaseTyped DEF SpawnStep
  <2> QED BY <1>2, <1>5, <2>1 DEF PayoutTypes
<1>6. ASSUME RefundStep PROVE PayoutTypes'
  <2>1. ASSUME NEW k \in Calls,
               \/ RefundNonce(k) \/ RefundSigned(k) \/ RefundArrives(k) \/ RefundSent(k)
               \/ RefundFails(k) \/ RefundPending(k) \/ RefundConfirmed(k) \/ LoseCall(k)
        PROVE  PayoutTypes'
    <3>1. call[k] # Idle
      <4>1. call[k].pc \in {"nonce", "sign", "send", "sent", "confirm"} \/ call[k] # Idle
        BY <2>1 DEF RefundNonce, RefundSigned, RefundArrives, RefundSent, RefundFails, RefundPending,
                    RefundConfirmed, LoseCall
      <4> QED BY <4>1 DEF Idle
    <3> QED BY <1>1, <2>1, <3>1, CommandTyped DEF PayoutTypes
  <2>2. ASSUME NEW s \in Sessions, ClaimRefused(s) \/ ClaimAgain(s) \/ \E k \in Calls : ClaimRefund(k, s)
        PROVE  PayoutTypes'
    BY <1>1, <2>2, ClaimTyped DEF PayoutTypes
  <2> QED BY <1>6, <2>1, <2>2 DEF RefundStep
<1>7. CASE UNCHANGED vars
  <2>1. FactoryTypes' /\ CommandTypes'
    BY <1>1, <1>7 DEF vars, spawnVars, factoryVars, refundVars, FactoryTypes, CommandTypes
  <2>2. ChainTypeOK(Txs)'
    BY <1>1, <1>7, ChainSame DEF vars, spawnVars
  <2> QED BY <2>1, <2>2 DEF PayoutTypes
<1> QED BY <1>3, <1>4, <1>5, <1>6, <1>7 DEF Next

\* The records of the factory stay what their types say, whatever executions and commands
\* interleave: what is signed and sent is a transaction for a session with a nonce the cursor
\* gave out, a release goes to a canister that was created, and the job, the lease and the
\* cursor stay within their bounds.
THEOREM PayoutsTyped == Spec => []TypeOK
<1>1. PayoutTypes => TypeOK
  <2> SUFFICES ASSUME PayoutTypes PROVE TypeOK
    OBVIOUS
  <2>1. FactoryTypes /\ CommandTypes /\ ChainTypeOK(Txs)
    BY DEF PayoutTypes
  <2>2. ASSUME NEW s \in Sessions
        PROVE  /\ sess[s].state \in States /\ sess[s].pay \in PaymentStatuses
               /\ sess[s].can \in Canisters \cup {NoCanister}
               /\ sess[s].rel.nonce \in Nonces \cup {NoNonce}
    <3>1. sess[s] \in SessRecords
      BY <2>1 DEF FactoryTypes, SessTypes
    <3>2. sess[s].rel \in Records
      BY <3>1 DEF SessRecords
    <3> QED BY <3>1, <3>2, RecordKinds DEF SessRecords
  <2>3. \A e \in Execs : exec[e] = Idle \/ exec[e].pc \in ExecPcs
    BY <2>1 DEF FactoryTypes, ExecTypes, ExecRecords
  <2>4. \A k \in Calls : call[k] = Idle \/ call[k].pc \in CallPcs
    BY <2>1 DEF CommandTypes, CallTypes, CallRecords
  <2> QED BY <2>1, <2>2, <2>3, <2>4 DEF FactoryTypes, CommandTypes, TypeOK, SpawnTypeOK, Txs
<1> QED BY <1>1, PayoutTypesInit, PayoutTypesStep, PayoutInitInv, PayoutStep, PTL DEF Spec

=============================================================================
