------------------------------ MODULE MockUSDC ------------------------------
(***************************************************************************)
(* The ERC-20 token of evm/src/MockUSDC.sol, as the escrow contract uses   *)
(* it.  Holders are the externally owned accounts; Escrow is the address   *)
(* of the LocalEscrow contract, the only spender anybody approves.  A call *)
(* that the contract reverts changes nothing, so a revert is the absence   *)
(* of a step: every revert condition of the code is a guard here.          *)
(***************************************************************************)
EXTENDS Naturals

CONSTANTS Holders,     \* externally owned accounts
          Escrow,      \* the address of the LocalEscrow contract
          MaxSupply    \* bound: the tokens ever minted

ASSUME EscrowAssumption == Escrow \notin Holders
ASSUME SupplyAssumption == MaxSupply \in Nat

VARIABLES totalSupply,  \* tokens minted so far
          balanceOf,    \* tokens of every account, the escrow included
          allowance     \* what the escrow may still take from a holder

tokenVars == <<totalSupply, balanceOf, allowance>>

Accounts == Holders \cup {Escrow}
Amounts == 0 .. MaxSupply

TokenTypeOK ==
    /\ totalSupply \in Amounts
    /\ balanceOf \in [Accounts -> Nat]
    /\ allowance \in [Holders -> Nat]

TokenInit ==
    /\ totalSupply = 0
    /\ balanceOf = [a \in Accounts |-> 0]
    /\ allowance = [a \in Holders |-> 0]

\* mint(to, amount): anybody may mint the mock token.
Mint(to, amount) ==
    /\ totalSupply + amount <= MaxSupply
    /\ totalSupply' = totalSupply + amount
    /\ balanceOf' = [balanceOf EXCEPT ![to] = @ + amount]
    /\ UNCHANGED allowance

\* approve(escrow, amount): overwrites the previous allowance.
Approve(owner, amount) ==
    /\ allowance' = [allowance EXCEPT ![owner] = amount]
    /\ UNCHANGED <<totalSupply, balanceOf>>

\* A mutant of TransferFrom: the InsufficientBalance check is missing.
TransferFromUnchecked(from, amount) ==
    /\ allowance[from] >= amount
    /\ allowance' = [allowance EXCEPT ![from] = @ - amount]
    /\ balanceOf' = [balanceOf EXCEPT ![from] = @ - amount,
                                      ![Escrow] = @ + amount]
    /\ UNCHANGED totalSupply

\* transferFrom(from, escrow, amount), called by the escrow.  Both reverts,
\* InsufficientAllowance and InsufficientBalance, undo the whole call.
TransferFrom(from, amount) ==
    /\ allowance[from] >= amount
    /\ balanceOf[from] >= amount
    /\ allowance' = [allowance EXCEPT ![from] = @ - amount]
    /\ balanceOf' = [balanceOf EXCEPT ![from] = @ - amount,
                                      ![Escrow] = @ + amount]
    /\ UNCHANGED totalSupply

\* The transfers the escrow makes in one call: it pays every holder a its
\* share pay[a], total tokens in all.  (A transfer of zero has no effect.)
PayOut(pay, total) ==
    /\ balanceOf[Escrow] >= total
    /\ balanceOf' = [a \in Accounts |->
                        IF a = Escrow THEN balanceOf[a] - total
                                      ELSE balanceOf[a] + pay[a]]
    /\ UNCHANGED <<totalSupply, allowance>>

=============================================================================
