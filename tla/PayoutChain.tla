---------------------------- MODULE PayoutChain ----------------------------
(***************************************************************************)
(* The Base chain as the factory's payout transactions meet it.  It is not *)
(* part of the repository: it is modelled from how base_rpc.rs and evm.rs  *)
(* use it (eth_getTransactionCount, eth_sendRawTransaction,                *)
(* eth_getTransactionReceipt, eth_blockNumber, eth_getBlockByNumber) and   *)
(* from the one-shot settlement that LocalEscrow guarantees.               *)
(*                                                                         *)
(* All transactions come from the factory's key, so they are mined in the  *)
(* order of their nonces: the i-th mined one has nonce i - 1.  The first   *)
(* final of them have evm_confirmation_depth confirmations and stay.       *)
(***************************************************************************)
EXTENDS Integers, Sequences, FiniteSetsExt, Functions

VARIABLES mempool,  \* transactions a node has accepted
          mined,    \* transactions that were executed, in order
          final     \* how many of them are beyond reorganisation

payoutVars == <<mempool, mined, final>>

\* A signed call of release() or refund(); "by" stands for the signature.
Tx(kind, s, nonce, by) == [kind |-> kind, session |-> s, nonce |-> nonce, by |-> by]

NoTx == [kind |-> "none"]

ChainInit ==
    /\ mempool = {}
    /\ mined = <<>>
    /\ final = 0

ChainTypeOK(txs) ==
    /\ mempool \in SUBSET txs
    /\ mined \in Seq(txs)
    /\ final \in 0 .. Len(mined)

\* release() and refund() revert once the claim was settled.
Succeeded(i) == \A j \in 1 .. i - 1 : mined[j].session # mined[i].session

\* The claim of s was settled for good, and by which call.
SettledBy(s, kind) ==
    \E i \in 1 .. final : mined[i].session = s /\ mined[i].kind = kind /\ Succeeded(i)

\* eth_getTransactionCount with the "pending" tag: the first nonce that no
\* mined or waiting transaction uses.
PendingNonce ==
    Min((Len(mined) .. Len(mined) + Cardinality(mempool)) \ {tx.nonce : tx \in mempool})

\* A node accepts a transaction whose nonce is not used.
Acceptable(tx) ==
    /\ tx.nonce >= Len(mined)
    /\ \A other \in mempool : other.nonce # tx.nonce

Accept(tx) ==
    /\ Acceptable(tx)
    /\ mempool' = mempool \cup {tx}
    /\ UNCHANGED <<mined, final>>

MineTx(tx) ==
    /\ tx.nonce = Len(mined)
    /\ mined' = Append(mined, tx)
    /\ mempool' = mempool \ {tx}
    /\ UNCHANGED final

Finalize ==
    /\ final < Len(mined)
    /\ final' = final + 1
    /\ UNCHANGED <<mempool, mined>>

\* The last block is replaced; its transaction waits again or is dropped.
ReorgTx(dropped) ==
    /\ final < Len(mined)
    /\ mined' = SubSeq(mined, 1, Len(mined) - 1)
    /\ mempool' = IF dropped THEN mempool ELSE mempool \cup {mined[Len(mined)]}
    /\ UNCHANGED final

\* A mutant of Receipts: the receipt's status is not looked at.
ReceiptsOfAnyStatus(tx) ==
    {"rpcError", "pending"} \cup
    {receipt \in {"forked", "confirmed"} :
        \E i \in DOMAIN mined :
            /\ mined[i] = tx
            /\ receipt = IF i <= final THEN "confirmed" ELSE "forked"}

\* What confirm_release_receipt_depth can find out about tx: a failure of one
\* of its RPC calls; no receipt yet, or too few confirmations as of the block
\* number asked for first; a revert, reported without waiting for
\* confirmations; a block that was replaced between the receipt and the check
\* of its hash; or success at full depth.
Receipts(tx) ==
    {"rpcError", "pending"} \cup
    {receipt \in {"reverted", "forked", "confirmed"} :
        \E i \in DOMAIN mined :
            /\ mined[i] = tx
            /\ receipt = CASE ~ Succeeded(i) -> "reverted"
                            [] Succeeded(i) /\ i <= final -> "confirmed"
                            [] OTHER -> "forked"}

=============================================================================
