----------------------------- MODULE LocalEscrow -----------------------------
(***************************************************************************)
(* The escrow contract of evm/src/LocalEscrow.sol over the token of        *)
(* MockUSDC.  Contract calls are atomic, so each external function is one  *)
(* action whose guards are the code's revert conditions.  Stewards and     *)
(* parent automatons deposit; the factory's key (Releaser) pays out.       *)
(*                                                                         *)
(* stake and endowed are history variables: they record who contributed    *)
(* what and are never read by an action.                                   *)
(***************************************************************************)
EXTENDS MockUSDC, FiniteSetsExt

CONSTANTS Claims,     \* claim ids
          Releaser,   \* the immutable releaser of the contract
          NoAddress   \* address(0)

ASSUME ReleaserAssumption == Releaser \in Holders
ASSUME ClaimsAssumption == IsFiniteSet(Claims)
ASSUME NoAddressAssumption == NoAddress \notin Holders

VARIABLES claimBalances,   \* what the contract holds for a claim
          releasedClaims,  \* claims that were paid out
          claimPayers,     \* who deposited, address(0) when nobody
          stake,           \* history: a holder's contribution to a claim
          endowed          \* history: depositReproduction calls that succeeded

bookVars == <<claimBalances, releasedClaims, claimPayers>>
historyVars == <<stake, endowed>>
vars == <<tokenVars, bookVars, historyVars>>

TypeOK ==
    /\ TokenTypeOK
    /\ claimBalances \in [Claims -> Nat]
    /\ releasedClaims \in [Claims -> BOOLEAN]
    /\ claimPayers \in [Claims -> Holders \cup {NoAddress}]
    /\ stake \in [Claims -> [Holders -> Nat]]
    /\ endowed \in [Claims -> Nat]

Init ==
    /\ TokenInit
    /\ claimBalances = [c \in Claims |-> 0]
    /\ releasedClaims = [c \in Claims |-> FALSE]
    /\ claimPayers = [c \in Claims |-> NoAddress]
    /\ stake = [c \in Claims |-> [a \in Holders |-> 0]]
    /\ endowed = [c \in Claims |-> 0]

-----------------------------------------------------------------------------
\* Deposits.

\* A mutant of Deposit: anybody may add to a claim.
DepositByAnyone(c, sender, amount) ==
    /\ amount # 0
    /\ TransferFrom(sender, amount)
    /\ claimPayers' = [claimPayers EXCEPT ![c] = sender]
    /\ claimBalances' = [claimBalances EXCEPT ![c] = @ + amount]
    /\ stake' = [stake EXCEPT ![c][sender] = @ + amount]
    /\ UNCHANGED <<releasedClaims, endowed>>

Deposit(c, sender, amount) ==
    /\ amount # 0
    /\ claimPayers[c] \in {NoAddress, sender}
    /\ TransferFrom(sender, amount)
    /\ claimPayers' = [claimPayers EXCEPT ![c] = sender]
    /\ claimBalances' = [claimBalances EXCEPT ![c] = @ + amount]
    /\ stake' = [stake EXCEPT ![c][sender] = @ + amount]
    /\ UNCHANGED <<releasedClaims, endowed>>

\* A mutant of DepositReproduction: a settled claim may be endowed again.
DepositReproductionAgain(c, sender, amount) ==
    /\ claimBalances[c] = 0
    /\ amount # 0
    /\ TransferFrom(sender, amount)
    /\ claimPayers' = [claimPayers EXCEPT ![c] = sender]
    /\ claimBalances' = [claimBalances EXCEPT ![c] = amount]
    /\ stake' = [stake EXCEPT ![c][sender] = @ + amount]
    /\ endowed' = [endowed EXCEPT ![c] = @ + 1]
    /\ UNCHANGED releasedClaims

DepositReproduction(c, sender, amount) ==
    /\ claimBalances[c] = 0
    /\ ~ releasedClaims[c]
    /\ amount # 0
    /\ TransferFrom(sender, amount)
    /\ claimPayers' = [claimPayers EXCEPT ![c] = sender]
    /\ claimBalances' = [claimBalances EXCEPT ![c] = amount]
    /\ stake' = [stake EXCEPT ![c][sender] = @ + amount]
    /\ endowed' = [endowed EXCEPT ![c] = @ + 1]
    /\ UNCHANGED releasedClaims

-----------------------------------------------------------------------------
\* Settlements.

\* A mutant of SettleClaim: the balance is not reset.
SettleKeepingBalance(c) ==
    /\ ~ releasedClaims[c]
    /\ claimBalances[c] # 0
    /\ releasedClaims' = [releasedClaims EXCEPT ![c] = TRUE]
    /\ claimPayers' = [claimPayers EXCEPT ![c] = NoAddress]
    /\ stake' = [stake EXCEPT ![c] = [a \in Holders |-> 0]]
    /\ UNCHANGED <<claimBalances, endowed>>

\* A mutant of SettleClaim: a claim is settled whenever it holds money.
SettleAgain(c) ==
    /\ claimBalances[c] # 0
    /\ releasedClaims' = [releasedClaims EXCEPT ![c] = TRUE]
    /\ claimBalances' = [claimBalances EXCEPT ![c] = 0]
    /\ claimPayers' = [claimPayers EXCEPT ![c] = NoAddress]
    /\ stake' = [stake EXCEPT ![c] = [a \in Holders |-> 0]]
    /\ UNCHANGED endowed

\* What release, refund and releaseReproduction do to the claim before they
\* transfer anything.
SettleClaim(c) ==
    /\ ~ releasedClaims[c]
    /\ claimBalances[c] # 0
    /\ releasedClaims' = [releasedClaims EXCEPT ![c] = TRUE]
    /\ claimBalances' = [claimBalances EXCEPT ![c] = 0]
    /\ claimPayers' = [claimPayers EXCEPT ![c] = NoAddress]
    /\ stake' = [stake EXCEPT ![c] = [a \in Holders |-> 0]]
    /\ UNCHANGED endowed

\* amount for who, nothing for the others.
Only(who, amount) == [a \in Holders |-> IF a = who THEN amount ELSE 0]

Release(c, sender, recipient) ==
    /\ sender = Releaser
    /\ recipient # NoAddress
    /\ SettleClaim(c)
    /\ PayOut(Only(recipient, claimBalances[c]), claimBalances[c])

Refund(c, sender) ==
    /\ sender = Releaser
    /\ claimPayers[c] # NoAddress
    /\ SettleClaim(c)
    /\ PayOut(Only(claimPayers[c], claimBalances[c]), claimBalances[c])

\* The royalties and the child's endowment come out of the claim; the rest
\* goes to the releaser.  Recipients may coincide.
ReleaseReproduction(c, sender, child, childAmount, one, amountOne, two, amountTwo) ==
    LET amount == claimBalances[c]
        distributed == childAmount + amountOne + amountTwo
        share == [a \in Holders |-> Only(child, childAmount)[a]
                                    + Only(one, amountOne)[a]
                                    + Only(two, amountTwo)[a]
                                    + Only(Releaser, amount - distributed)[a]]
    IN /\ sender = Releaser
       /\ NoAddress \notin {child, one, two}
       /\ distributed <= amount
       /\ childAmount # 0
       /\ SettleClaim(c)
       /\ PayOut(share, amount)

-----------------------------------------------------------------------------
TokenCall ==
    /\ \E a \in Holders, n \in Amounts : Mint(a, n) \/ Approve(a, n)
    /\ UNCHANGED <<bookVars, historyVars>>

DepositCall ==
    \E c \in Claims, a \in Holders, n \in Amounts :
        Deposit(c, a, n) \/ DepositReproduction(c, a, n)

ReleaseCall ==
    \E c \in Claims, a \in Holders, r \in Holders \cup {NoAddress} :
        Release(c, a, r)

RefundCall ==
    \E c \in Claims, a \in Holders : Refund(c, a)

ReproductionCall ==
    \E c \in Claims, a \in Holders,
       child, one, two \in Holders \cup {NoAddress},
       childAmount, amountOne, amountTwo \in Amounts :
        ReleaseReproduction(c, a, child, childAmount, one, amountOne, two, amountTwo)

Next ==
    \/ TokenCall
    \/ DepositCall
    \/ ReleaseCall
    \/ RefundCall
    \/ ReproductionCall

Spec == Init /\ [][Next]_vars

-----------------------------------------------------------------------------
\* Properties.

\* The contract remembers one payer and one total per claim, never who paid
\* what.  They determine it: the recorded payer contributed everything the
\* claim holds and nobody else has money in it, whatever deposits and
\* settlements came before.  This is why refund() can pay the recorded payer.
PayerOwnsTheClaim ==
    \A c \in Claims :
        /\ claimPayers[c] = NoAddress => claimBalances[c] = 0
        /\ \A a \in Holders :
              stake[c][a] = IF a = claimPayers[c] THEN claimBalances[c] ELSE 0

\* The token balance of the contract is exactly what its claims add up to, so
\* no claim is ever paid with another claim's money.
Solvent ==
    balanceOf[Escrow] = FoldSet(LAMBDA c, sum : claimBalances[c] + sum, 0, Claims)

\* "A retry after a crash may spend gas, but can never transfer the endowment
\* twice": depositReproduction succeeds at most once per claim.
EndowedAtMostOnce ==
    \A c \in Claims :
        /\ endowed[c] <= 1
        /\ endowed[c] = 1 => claimBalances[c] > 0 \/ releasedClaims[c]

\* Every contract call is a step of the promise made to depositors: what a
\* holder is owed only changes by its own deposit or by the claim's single
\* settlement, and refund() returns to every contributor its own money.
Promise == INSTANCE EscrowPromise
              WITH owed <- stake,
                   settled <- releasedClaims,
                   purse <- [a \in Holders |-> balanceOf[a]]

KeepsPromise == Promise!Spec

=============================================================================
