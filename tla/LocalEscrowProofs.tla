-------------------------- MODULE LocalEscrowProofs --------------------------
(***************************************************************************)
(* Theorems about LocalEscrow, for any set of holders and claims and any   *)
(* supply.  EscrowInv is inductive: the type invariant is needed for       *)
(* arithmetic, and PayerOwnsTheClaim is what makes refund() pay the right  *)
(* holder in the refinement.  Solvent is inductive relative to it; the sum *)
(* over the claims is unfolded by the least set for which it would fail.   *)
(***************************************************************************)
EXTENDS LocalEscrow, TableLemmas, FiniteSetTheorems, TLAPS

EscrowInv == TypeOK /\ PayerOwnsTheClaim /\ EndowedAtMostOnce

\* A freshly deployed contract satisfies the inductive invariant.
LEMMA InitEstablishesInv == Init => EscrowInv
  BY EscrowAssumption, SupplyAssumption
     DEF Init, TokenInit, EscrowInv, TypeOK, TokenTypeOK, PayerOwnsTheClaim,
         EndowedAtMostOnce, Accounts, Amounts

\* TransferFrom keeps the token state well typed.
LEMMA TransferFromTypes ==
  ASSUME TokenTypeOK, NEW a \in Holders, NEW n \in Amounts, TransferFrom(a, n)
  PROVE  TokenTypeOK'
  BY EscrowAssumption, SupplyAssumption
     DEF TransferFrom, TokenTypeOK, Accounts, Amounts

\* PayOut keeps the token state well typed.
LEMMA PayOutTypes ==
  ASSUME TokenTypeOK, NEW total \in Nat, NEW pay \in [Holders -> Nat],
         PayOut(pay, total)
  PROVE  TokenTypeOK'
<1>1. balanceOf' \in [Accounts -> Nat]
  <2>1. \A a \in Accounts : IF a = Escrow THEN balanceOf[a] - total \in Nat
                                          ELSE balanceOf[a] + pay[a] \in Nat
    BY EscrowAssumption DEF PayOut, TokenTypeOK, Accounts
  <2> QED BY <2>1 DEF PayOut
<1> QED BY <1>1 DEF PayOut, TokenTypeOK

\* Only(who, amount) is a distribution of tokens.
LEMMA OnlyTypes ==
  ASSUME NEW who, NEW amount \in Nat
  PROVE  /\ Only(who, amount) \in [Holders -> Nat]
         /\ \A a \in Holders : Only(who, amount)[a] = IF a = who THEN amount ELSE 0
  BY DEF Only

\* deposit() accepts the recorded payer only, so the claim stays its own.
LEMMA DepositKeepsInv ==
  ASSUME EscrowInv, NEW c \in Claims, NEW a \in Holders, NEW n \in Amounts,
         Deposit(c, a, n)
  PROVE  EscrowInv'
<1> n \in Nat /\ n > 0
  BY SupplyAssumption DEF Deposit, Amounts
<1>1. TypeOK'
  BY TransferFromTypes DEF EscrowInv, TypeOK, Deposit
<1>2. PayerOwnsTheClaim'
  BY NoAddressAssumption DEF EscrowInv, TypeOK, PayerOwnsTheClaim, Deposit
<1>3. EndowedAtMostOnce'
  BY DEF EscrowInv, TypeOK, EndowedAtMostOnce, Deposit
<1> QED BY <1>1, <1>2, <1>3 DEF EscrowInv

\* depositReproduction() takes over an empty claim, once.
LEMMA DepositReproductionKeepsInv ==
  ASSUME EscrowInv, NEW c \in Claims, NEW a \in Holders, NEW n \in Amounts,
         DepositReproduction(c, a, n)
  PROVE  EscrowInv'
<1> n \in Nat /\ n > 0
  BY SupplyAssumption DEF DepositReproduction, Amounts
<1>1. TypeOK'
  BY TransferFromTypes DEF EscrowInv, TypeOK, DepositReproduction
<1>2. PayerOwnsTheClaim'
  BY NoAddressAssumption DEF EscrowInv, TypeOK, PayerOwnsTheClaim, DepositReproduction
<1>3. EndowedAtMostOnce'
  BY DEF EscrowInv, TypeOK, EndowedAtMostOnce, DepositReproduction
<1> QED BY <1>1, <1>2, <1>3 DEF EscrowInv

\* A settlement, whoever is paid.
LEMMA SettleKeepsInv ==
  ASSUME EscrowInv, NEW c \in Claims, SettleClaim(c), TokenTypeOK'
  PROVE  EscrowInv'
<1>1. TypeOK'
  BY DEF EscrowInv, TypeOK, SettleClaim
<1>2. PayerOwnsTheClaim'
  BY NoAddressAssumption DEF EscrowInv, TypeOK, PayerOwnsTheClaim, SettleClaim
<1>3. EndowedAtMostOnce'
  BY DEF EscrowInv, TypeOK, EndowedAtMostOnce, SettleClaim
<1> QED BY <1>1, <1>2, <1>3 DEF EscrowInv

\* The distribution of releaseReproduction is a distribution of tokens.
LEMMA SharesTypes ==
  ASSUME NEW amount \in Nat, NEW childAmount \in Nat, NEW amountOne \in Nat,
         NEW amountTwo \in Nat, NEW child, NEW one, NEW two,
         childAmount + amountOne + amountTwo <= amount
  PROVE  [a \in Holders |-> Only(child, childAmount)[a]
                            + Only(one, amountOne)[a]
                            + Only(two, amountTwo)[a]
                            + Only(Releaser, amount - (childAmount + amountOne + amountTwo))[a]]
           \in [Holders -> Nat]
<1> DEFINE rest == amount - (childAmount + amountOne + amountTwo)
<1>1. rest \in Nat
  OBVIOUS
<1> HIDE DEF rest
<1>2. \A a \in Holders :
        /\ Only(child, childAmount)[a] \in Nat
        /\ Only(one, amountOne)[a] \in Nat
        /\ Only(two, amountTwo)[a] \in Nat
        /\ Only(Releaser, rest)[a] \in Nat
  BY <1>1, OnlyTypes
<1> QED BY <1>2 DEF rest

\* EscrowInv holds in every reachable state of LocalEscrow, for any holders,
\* claims and supply.
THEOREM EscrowInvariant == Spec => []EscrowInv
<1>1. Init => EscrowInv
  BY InitEstablishesInv
<1>2. EscrowInv /\ [Next]_vars => EscrowInv'
  <2> SUFFICES ASSUME EscrowInv, [Next]_vars PROVE EscrowInv'
    OBVIOUS
  <2>1. CASE TokenCall
    <3>1. PICK a \in Holders, n \in Amounts : Mint(a, n) \/ Approve(a, n)
      BY <2>1 DEF TokenCall
    <3>2. TokenTypeOK'
      <4> USE SupplyAssumption DEF EscrowInv, TypeOK, TokenTypeOK, Amounts
      <4>1. CASE Mint(a, n)
        BY <4>1 DEF Mint, Accounts
      <4>2. CASE Approve(a, n)
        BY <4>2 DEF Approve
      <4> QED BY <3>1, <4>1, <4>2
    <3> QED
      BY <2>1, <3>2 DEF TokenCall, bookVars, historyVars, EscrowInv, TypeOK,
                        PayerOwnsTheClaim, EndowedAtMostOnce
  <2>2. CASE DepositCall
    BY <2>2, DepositKeepsInv, DepositReproductionKeepsInv DEF DepositCall
  <2>3. CASE ReleaseCall
    <3>1. PICK c \in Claims, a \in Holders, r \in Holders \cup {NoAddress} :
             Release(c, a, r)
      BY <2>3 DEF ReleaseCall
    <3>2. claimBalances[c] \in Nat /\ TokenTypeOK
      BY DEF EscrowInv, TypeOK
    <3>3. TokenTypeOK'
      BY <3>1, <3>2, OnlyTypes, PayOutTypes DEF Release
    <3> QED BY <3>1, <3>3, SettleKeepsInv DEF Release
  <2>4. CASE RefundCall
    <3>1. PICK c \in Claims, a \in Holders : Refund(c, a)
      BY <2>4 DEF RefundCall
    <3>2. claimBalances[c] \in Nat /\ TokenTypeOK
      BY DEF EscrowInv, TypeOK
    <3>3. TokenTypeOK'
      BY <3>1, <3>2, OnlyTypes, PayOutTypes DEF Refund
    <3> QED BY <3>1, <3>3, SettleKeepsInv DEF Refund
  <2>5. CASE ReproductionCall
    <3>1. PICK c \in Claims, a \in Holders,
               child \in Holders \cup {NoAddress}, one \in Holders \cup {NoAddress},
               two \in Holders \cup {NoAddress},
               childAmount \in Amounts, amountOne \in Amounts, amountTwo \in Amounts :
             ReleaseReproduction(c, a, child, childAmount, one, amountOne, two, amountTwo)
      BY <2>5 DEF ReproductionCall
    <3>2. /\ claimBalances[c] \in Nat
          /\ TokenTypeOK
          /\ childAmount \in Nat
          /\ amountOne \in Nat
          /\ amountTwo \in Nat
      BY SupplyAssumption DEF EscrowInv, TypeOK, Amounts
    <3>3. TokenTypeOK'
      BY <3>1, <3>2, SharesTypes, PayOutTypes DEF ReleaseReproduction
    <3> QED BY <3>1, <3>3, SettleKeepsInv DEF ReleaseReproduction
  <2>6. CASE UNCHANGED vars
    BY <2>6 DEF vars, tokenVars, bookVars, historyVars, EscrowInv, TypeOK,
                TokenTypeOK, PayerOwnsTheClaim, EndowedAtMostOnce
  <2> QED BY <2>1, <2>2, <2>3, <2>4, <2>5, <2>6 DEF Next
<1> QED BY <1>1, <1>2, PTL DEF Spec

\* The balances, allowances and claim books of LocalEscrow and MockUSDC never
\* leave their types: no subtraction of the Solidity code underflows.
THEOREM TypeTheorem == Spec => []TypeOK
<1>1. EscrowInv => TypeOK
  BY DEF EscrowInv
<1> QED BY <1>1, EscrowInvariant, PTL

\* The recorded payer owns the whole claim: the inductive core of refund().
THEOREM PayerTheorem == Spec => []PayerOwnsTheClaim
<1>1. EscrowInv => PayerOwnsTheClaim
  BY DEF EscrowInv
<1> QED BY <1>1, EscrowInvariant, PTL

\* depositReproduction() transfers an endowment at most once per claim.
THEOREM EndowmentTheorem == Spec => []EndowedAtMostOnce
<1>1. EscrowInv => EndowedAtMostOnce
  BY DEF EscrowInv
<1> QED BY <1>1, EscrowInvariant, PTL

-----------------------------------------------------------------------------
(* The contract implements EscrowPromise. *)

\* Either deposit is a contribution to a claim nobody else has a stake in.
LEMMA DepositRefines ==
  ASSUME EscrowInv, NEW c \in Claims, NEW a \in Holders, NEW n \in Amounts,
         Deposit(c, a, n) \/ DepositReproduction(c, a, n)
  PROVE  Promise!Contribute(c, a)
<1> DEFINE purse == [b \in Holders |-> balanceOf[b]]
<1>1. n \in Nat /\ n > 0 /\ TransferFrom(a, n) /\ UNCHANGED releasedClaims
  BY SupplyAssumption DEF Deposit, DepositReproduction, Amounts
<1>2. \A b \in Holders : balanceOf[b] \in Nat
  BY DEF EscrowInv, TypeOK, TokenTypeOK, Accounts
<1>3. \A b \in Holders : balanceOf'[b] = IF b = a THEN balanceOf[b] - n ELSE balanceOf[b]
  BY <1>1, EscrowAssumption DEF EscrowInv, TypeOK, TokenTypeOK, TransferFrom, Accounts
<1>4. purse' = [purse EXCEPT ![a] = purse'[a]]
  BY <1>3
<1>5. purse[a] - purse'[a] = n /\ purse'[a] < purse[a]
  BY <1>1, <1>2, <1>3
<1>6. \A b \in Holders \ {a} : stake[c][b] = 0
  BY NoAddressAssumption
     DEF EscrowInv, TypeOK, PayerOwnsTheClaim, Deposit, DepositReproduction
<1>7. stake' = [stake EXCEPT ![c][a] = @ + n]
  BY DEF Deposit, DepositReproduction
<1> QED BY <1>1, <1>4, <1>5, <1>6, <1>7 DEF Promise!Contribute, Promise!OnlyPurseOf

\* settling is allowed once, for a claim that holds money.
LEMMA SettleRefines ==
  ASSUME EscrowInv, NEW c \in Claims, SettleClaim(c)
  PROVE  Promise!Settle(c)
<1>1. claimPayers[c] \in Holders /\ stake[c][claimPayers[c]] > 0
  BY DEF EscrowInv, TypeOK, PayerOwnsTheClaim, SettleClaim
<1> QED BY <1>1 DEF SettleClaim, Promise!Settle, Promise!Nothing

\* A settlement that pays out anything hands the claim over.
LEMMA PayOutRefines ==
  ASSUME EscrowInv, NEW c \in Claims, SettleClaim(c),
         NEW total \in Nat, NEW pay \in [Holders -> Nat], PayOut(pay, total)
  PROVE  Promise!HandOver(c)
<1>1. \A a \in Holders : balanceOf'[a] >= balanceOf[a]
  BY EscrowAssumption DEF EscrowInv, TypeOK, TokenTypeOK, PayOut, Accounts
<1> QED BY <1>1, SettleRefines DEF Promise!HandOver

\* refund() gives every contributor back its own money.
LEMMA RefundRefines ==
  ASSUME EscrowInv, NEW c \in Claims, NEW a \in Holders, Refund(c, a)
  PROVE  Promise!GiveBack(c)
<1>1. \A b \in Holders : Only(claimPayers[c], claimBalances[c])[b] = stake[c][b]
  BY DEF EscrowInv, TypeOK, PayerOwnsTheClaim, Only
<1>2. \A b \in Holders : balanceOf'[b] = balanceOf[b] + stake[c][b]
  BY <1>1, EscrowAssumption DEF EscrowInv, TypeOK, TokenTypeOK, PayOut, Refund, Accounts
<1> QED BY <1>2, SettleRefines DEF Refund, Promise!GiveBack

\* Every contract call is a step of the promise to depositors or leaves it
\* alone: owed money moves only by its owner's deposit or the one settlement,
\* and refund() gives every contributor back exactly what it put in.
THEOREM EscrowKeepsPromise == Spec => KeepsPromise
<1>1. Init => Promise!Init
  BY DEF Init, TokenInit, Promise!Init, Promise!Nothing, Accounts
<1>2. EscrowInv /\ [Next]_vars => [Promise!Next]_(Promise!vars)
  <2> SUFFICES ASSUME EscrowInv, [Next]_vars PROVE [Promise!Next]_(Promise!vars)
    OBVIOUS
  <2>1. CASE TokenCall
    <3>1. PICK a \in Holders, n \in Amounts : Mint(a, n) \/ Approve(a, n)
      BY <2>1 DEF TokenCall
    <3>2. CASE Mint(a, n)
      <4>1. \A b \in Holders :
               balanceOf'[b] = IF b = a THEN balanceOf[b] + n ELSE balanceOf[b]
        BY <3>2 DEF Mint, EscrowInv, TypeOK, TokenTypeOK, Accounts
      <4>2. balanceOf[a] \in Nat /\ n \in Nat
        BY SupplyAssumption DEF EscrowInv, TypeOK, TokenTypeOK, Accounts, Amounts
      <4>3. Promise!OnlyPurseOf(a)
        BY <4>1 DEF Promise!OnlyPurseOf
      <4>4. [b \in Holders |-> balanceOf[b]]'[a] >= [b \in Holders |-> balanceOf[b]][a]
        BY <4>1, <4>2
      <4>5. UNCHANGED <<stake, releasedClaims>>
        BY <2>1 DEF TokenCall, bookVars, historyVars
      <4>6. Promise!Earn(a)
        BY <4>3, <4>4, <4>5 DEF Promise!Earn
      <4> QED BY <4>6 DEF Promise!Next
    <3>3. CASE Approve(a, n)
      BY <2>1, <3>3 DEF TokenCall, bookVars, historyVars, Approve, Promise!vars
    <3> QED BY <3>1, <3>2, <3>3
  <2>2. CASE DepositCall
    BY <2>2, DepositRefines DEF DepositCall, Promise!Next
  <2>3. CASE ReleaseCall
    <3>1. PICK c \in Claims, a \in Holders, r \in Holders \cup {NoAddress} :
             Release(c, a, r)
      BY <2>3 DEF ReleaseCall
    <3>2. claimBalances[c] \in Nat
      BY DEF EscrowInv, TypeOK
    <3>3. Promise!HandOver(c)
      BY <3>1, <3>2, OnlyTypes, PayOutRefines DEF Release
    <3> QED BY <3>3 DEF Promise!Next
  <2>4. CASE RefundCall
    BY <2>4, RefundRefines DEF RefundCall, Promise!Next
  <2>5. CASE ReproductionCall
    <3>1. PICK c \in Claims, a \in Holders,
               child \in Holders \cup {NoAddress}, one \in Holders \cup {NoAddress},
               two \in Holders \cup {NoAddress},
               childAmount \in Amounts, amountOne \in Amounts, amountTwo \in Amounts :
             ReleaseReproduction(c, a, child, childAmount, one, amountOne, two, amountTwo)
      BY <2>5 DEF ReproductionCall
    <3>2. /\ claimBalances[c] \in Nat
          /\ childAmount \in Nat
          /\ amountOne \in Nat
          /\ amountTwo \in Nat
      BY SupplyAssumption DEF EscrowInv, TypeOK, Amounts
    <3>3. Promise!HandOver(c)
      BY <3>1, <3>2, SharesTypes, PayOutRefines DEF ReleaseReproduction
    <3> QED BY <3>3 DEF Promise!Next
  <2>6. CASE UNCHANGED vars
    BY <2>6 DEF vars, tokenVars, bookVars, historyVars, Promise!vars
  <2> QED BY <2>1, <2>2, <2>3, <2>4, <2>5, <2>6 DEF Next
<1> QED BY <1>1, <1>2, EscrowInvariant, PTL DEF Spec, Promise!Spec, KeepsPromise

-----------------------------------------------------------------------------
(* The contract is solvent. *)

\* The balances b added up over a set of claims, one claim after the other.
Some(s) == CHOOSE x \in s : TRUE

SumStep(b, f, s) == IF s = {} THEN 0 ELSE b[Some(s)] + f[s \ {Some(s)}]

Sums(b) == CHOOSE f : f = [s \in SUBSET Claims |-> SumStep(b, f, s)]

\* Solvent speaks of that sum over all claims.
LEMMA SolventIs ==
  /\ Solvent <=> balanceOf[Escrow] = Sums(claimBalances)[Claims]
  /\ Solvent' <=> balanceOf'[Escrow] = Sums(claimBalances')[Claims]
BY DEF Solvent, FoldSet, MapThenFoldSet, Sums, SumStep, Some

\* A set of claims without one of them is smaller.
LEMMA OneLess ==
  ASSUME NEW s \in SUBSET Claims
  PROVE  /\ IsFiniteSet(s) /\ Cardinality(s) \in Nat /\ (Cardinality(s) = 0 <=> s = {})
         /\ Cardinality(s) <= Cardinality(Claims) /\ Cardinality(Claims) \in Nat
         /\ s # {} => /\ Some(s) \in s /\ s \ {Some(s)} \in SUBSET Claims
                      /\ Cardinality(s \ {Some(s)}) = Cardinality(s) - 1
<1>1. IsFiniteSet(s) /\ Cardinality(s) <= Cardinality(Claims)
  BY ClaimsAssumption, FS_Subset
<1>2. Cardinality(s) \in Nat /\ (Cardinality(s) = 0 <=> s = {}) /\ Cardinality(Claims) \in Nat
  BY <1>1, ClaimsAssumption, FS_EmptySet, FS_CardinalityType
<1>3. s # {} => Some(s) \in s
  BY DEF Some
<1>4. s # {} => Cardinality(s \ {Some(s)}) = Cardinality(s) - 1
  BY <1>1, <1>3, FS_RemoveElement
<1> QED BY <1>1, <1>2, <1>3, <1>4

\* The sums are well defined: by the least size for which they would not be.
LEMMA SumsDefined ==
  ASSUME NEW b
  PROVE  \A s \in SUBSET Claims : Sums(b)[s] = SumStep(b, Sums(b), s)
<1> DEFINE Small(k) == {s \in SUBSET Claims : Cardinality(s) <= k}
           Good(k, f) == f = [s \in Small(k) |-> SumStep(b, f, s)]
           Bad == {k \in Nat : ~ \E f : Good(k, f)}
<1>0. \A s \in SUBSET Claims : Cardinality(s) \in Nat /\ (Cardinality(s) = 0 <=> s = {})
  BY OneLess
<1>1. Bad = {}
  <2> SUFFICES ASSUME Bad # {} PROVE FALSE
    OBVIOUS
  <2>1. PICK k \in Bad : \A m \in Bad : k <= m
    BY LeastNat
  <2>2. k \in Nat /\ ~ \E f : Good(k, f)
    BY <2>1
  <2>3. k # 0
    <3> DEFINE g == [s \in Small(0) |-> 0]
    <3>1. \A s \in Small(0) : s = {}
      BY <1>0
    <3>2. \A s \in Small(0) : SumStep(b, g, s) = 0
      BY <3>1 DEF SumStep
    <3>3. Good(0, g)
      BY <3>2
    <3> QED BY <2>2, <3>3
  <2>4. k - 1 \in Nat /\ k - 1 \notin Bad
    <3>1. k - 1 \in Nat /\ ~ (k <= k - 1)
      BY <2>2, <2>3
    <3> HIDE DEF Bad
    <3> QED BY <2>1, <3>1
  <2>5. PICK f : Good(k - 1, f)
    BY <2>4
  <2> DEFINE g == [s \in Small(k) |-> SumStep(b, f, s)]
  <2>6. \A s \in Small(k - 1) : s \in Small(k) /\ f[s] = SumStep(b, f, s)
    <3>1. \A s \in Small(k - 1) : s \in Small(k)
      BY <1>0, <2>2
    <3>2. \A s \in Small(k - 1) : f[s] = SumStep(b, f, s)
      <4> HIDE DEF Small
      <4> QED BY <2>5
    <3> QED BY <3>1, <3>2
  <2>7. \A s \in Small(k - 1) : g[s] = f[s]
    <3> HIDE DEF Small
    <3> QED BY <2>6
  <2>8. \A s \in Small(k) : s # {} => s \ {Some(s)} \in Small(k - 1)
    BY <2>2, OneLess
  <2>9. \A s \in Small(k) : SumStep(b, g, s) = SumStep(b, f, s)
    <3> HIDE DEF g, Small
    <3> QED BY <2>7, <2>8 DEF SumStep
  <2>10. Good(k, g)
    <3> HIDE DEF Small
    <3> QED BY <2>9
  <2> QED BY <2>2, <2>10
<1>2. Small(Cardinality(Claims)) = SUBSET Claims /\ Cardinality(Claims) \in Nat
  BY OneLess
<1>3. \E f : f = [s \in SUBSET Claims |-> SumStep(b, f, s)]
  <2>1. \E f : Good(Cardinality(Claims), f)
    BY <1>1, <1>2
  <2> HIDE DEF Small
  <2> QED BY <1>2, <2>1
<1>4. Sums(b) = [s \in SUBSET Claims |-> SumStep(b, Sums(b), s)]
  BY <1>3 DEF Sums
<1> DEFINE h == Sums(b)
<1>5. h = [s \in SUBSET Claims |-> SumStep(b, h, s)]
  BY <1>4
<1> HIDE DEF h
<1>6. \A s \in SUBSET Claims : h[s] = SumStep(b, h, s)
  BY <1>5
<1> QED BY <1>6 DEF h

\* The sums over s of b and of d, which differ in the claim c.
Differ(b, d, c, s) ==
  /\ Sums(b)[s] \in Nat /\ Sums(d)[s] \in Nat
  /\ Sums(d)[s] = Sums(b)[s] + (IF c \in s THEN d[c] - b[c] ELSE 0)

\* The balances differ in one claim: so do the sums.
LEMMA SumsDiffer ==
  ASSUME NEW b \in [Claims -> Nat], NEW d \in [Claims -> Nat], NEW c \in Claims,
         \A a \in Claims : a # c => d[a] = b[a]
  PROVE  \A s \in SUBSET Claims : Differ(b, d, c, s)
<1> DEFINE Bad == {s \in SUBSET Claims : ~ Differ(b, d, c, s)}
           Sizes == {Cardinality(s) : s \in Bad}
<1> SUFFICES ASSUME Bad # {} PROVE FALSE
  OBVIOUS
<1>0. \A s \in SUBSET Claims : Cardinality(s) \in Nat
  BY OneLess
<1>1. Sizes \in SUBSET Nat /\ Sizes # {}
  BY <1>0
<1>2. PICK k \in Sizes : \A m \in Sizes : k <= m
  BY <1>1, LeastNat
<1>3. PICK s \in Bad : \A z \in Bad : Cardinality(s) <= Cardinality(z)
  BY <1>2
<1>4. s \in SUBSET Claims /\ ~ Differ(b, d, c, s)
  BY <1>3
<1>5. Sums(b)[s] = SumStep(b, Sums(b), s) /\ Sums(d)[s] = SumStep(d, Sums(d), s)
  BY <1>4, SumsDefined
<1>6. CASE s = {}
  BY <1>4, <1>5, <1>6 DEF Differ, SumStep
<1>7. CASE s # {}
  <2> DEFINE x == Some(s)
             z == s \ {x}
  <2>1. /\ x \in s /\ x \in Claims /\ z \in SUBSET Claims
        /\ Cardinality(z) = Cardinality(s) - 1 /\ Cardinality(s) \in Nat
    BY <1>4, <1>7, OneLess
  <2>2. ~ (Cardinality(s) <= Cardinality(z))
    BY <2>1
  <2>3. Differ(b, d, c, z)
    BY <1>3, <2>1, <2>2
  <2>4. Sums(b)[s] = b[x] + Sums(b)[z] /\ Sums(d)[s] = d[x] + Sums(d)[z]
    BY <1>5, <1>7 DEF SumStep
  <2>5. c \in s <=> c \in z \/ c = x
    BY <2>1
  <2>6. (c = x => c \notin z) /\ (c # x => d[x] = b[x])
    BY <2>1
  <2>7. b[x] \in Nat /\ d[x] \in Nat /\ b[c] \in Nat /\ d[c] \in Nat
    BY <2>1
  <2> HIDE DEF x, z
  <2>8. Sums(b)[s] \in Nat /\ Sums(d)[s] \in Nat
    BY <2>3, <2>4, <2>7 DEF Differ
  <2>9. CASE c = x
    BY <1>4, <2>3, <2>4, <2>5, <2>6, <2>7, <2>8, <2>9 DEF Differ
  <2>10. CASE c # x
    BY <1>4, <2>3, <2>4, <2>5, <2>6, <2>7, <2>8, <2>10 DEF Differ
  <2> QED BY <2>9, <2>10
<1> QED BY <1>6, <1>7

\* Nothing adds up to nothing.
LEMMA SumsOfNothing ==
  ASSUME NEW b, \A a \in Claims : b[a] = 0
  PROVE  Sums(b)[Claims] = 0
<1> DEFINE Bad == {s \in SUBSET Claims : Sums(b)[s] # 0}
           Sizes == {Cardinality(s) : s \in Bad}
<1> SUFFICES ASSUME Bad # {} PROVE FALSE
  OBVIOUS
<1>0. \A s \in SUBSET Claims : Cardinality(s) \in Nat
  BY OneLess
<1>1. Sizes \in SUBSET Nat /\ Sizes # {}
  BY <1>0
<1>2. PICK k \in Sizes : \A m \in Sizes : k <= m
  BY <1>1, LeastNat
<1>3. PICK s \in Bad : \A z \in Bad : Cardinality(s) <= Cardinality(z)
  BY <1>2
<1>4. s \in SUBSET Claims /\ Sums(b)[s] # 0 /\ Sums(b)[s] = SumStep(b, Sums(b), s)
  BY <1>3, SumsDefined
<1>5. s # {}
  BY <1>4 DEF SumStep
<1> DEFINE x == Some(s)
           z == s \ {x}
<1>6. /\ x \in Claims /\ z \in SUBSET Claims
      /\ Cardinality(z) = Cardinality(s) - 1 /\ Cardinality(s) \in Nat
  BY <1>4, <1>5, OneLess
<1>7. ~ (Cardinality(s) <= Cardinality(z))
  BY <1>6
<1>8. Sums(b)[z] = 0
  BY <1>3, <1>6, <1>7
<1>9. Sums(b)[s] = b[x] + Sums(b)[z]
  BY <1>4, <1>5 DEF SumStep
<1> QED BY <1>4, <1>6, <1>8, <1>9

\* The escrow's tokens and one claim move by the same amount.
LEMMA MoveKeepsSolvent ==
  ASSUME EscrowInv, Solvent, EscrowInv', NEW c \in Claims,
         \A a \in Claims \ {c} : claimBalances'[a] = claimBalances[a],
         balanceOf'[Escrow] - balanceOf[Escrow] = claimBalances'[c] - claimBalances[c]
  PROVE  Solvent'
<1>1. claimBalances \in [Claims -> Nat] /\ claimBalances' \in [Claims -> Nat]
  BY DEF EscrowInv, TypeOK
<1>2. balanceOf[Escrow] \in Nat /\ balanceOf'[Escrow] \in Nat
  BY DEF EscrowInv, TypeOK, TokenTypeOK, Accounts
<1>3. Differ(claimBalances, claimBalances', c, Claims)
  BY <1>1, SumsDiffer
<1>4. claimBalances[c] \in Nat /\ claimBalances'[c] \in Nat
  BY <1>1
<1>5. balanceOf[Escrow] = Sums(claimBalances)[Claims]
  BY SolventIs
<1>6. balanceOf'[Escrow] = Sums(claimBalances')[Claims]
  BY <1>2, <1>3, <1>4, <1>5 DEF Differ
<1> QED BY <1>6, SolventIs

\* The books and the escrow's tokens stay.
LEMMA RestKeepsSolvent ==
  ASSUME Solvent, claimBalances' = claimBalances, balanceOf'[Escrow] = balanceOf[Escrow]
  PROVE  Solvent'
  BY SolventIs

\* A settlement pays out exactly what the claim holds.
LEMMA SettleKeepsSolvent ==
  ASSUME EscrowInv, Solvent, EscrowInv', NEW c \in Claims, NEW pay,
         SettleClaim(c), PayOut(pay, claimBalances[c])
  PROVE  Solvent'
<1>1. claimBalances[c] \in Nat /\ balanceOf[Escrow] \in Nat
  BY DEF EscrowInv, TypeOK, TokenTypeOK, Accounts
<1>2. \A a \in Claims \ {c} : claimBalances'[a] = claimBalances[a]
  BY DEF SettleClaim, EscrowInv, TypeOK
<1>3. claimBalances'[c] = 0
  BY DEF SettleClaim, EscrowInv, TypeOK
<1>4. balanceOf'[Escrow] = balanceOf[Escrow] - claimBalances[c]
  BY DEF PayOut, EscrowInv, TypeOK, TokenTypeOK, Accounts
<1>5. balanceOf'[Escrow] - balanceOf[Escrow] = claimBalances'[c] - claimBalances[c]
  BY <1>1, <1>3, <1>4
<1> QED BY <1>2, <1>5, MoveKeepsSolvent

\* A deposit adds to the claim what it takes from the sender.
LEMMA DepositKeepsSolvent ==
  ASSUME EscrowInv, Solvent, EscrowInv', NEW c \in Claims, NEW a \in Holders,
         NEW n \in Amounts, Deposit(c, a, n) \/ DepositReproduction(c, a, n)
  PROVE  Solvent'
<1>1. claimBalances[c] \in Nat /\ balanceOf[Escrow] \in Nat /\ n \in Nat
  BY SupplyAssumption DEF EscrowInv, TypeOK, TokenTypeOK, Accounts, Amounts
<1>2. \A b \in Claims \ {c} : claimBalances'[b] = claimBalances[b]
  BY DEF Deposit, DepositReproduction, EscrowInv, TypeOK
<1>3. claimBalances'[c] = claimBalances[c] + n
  BY <1>1 DEF Deposit, DepositReproduction, EscrowInv, TypeOK
<1>4. balanceOf'[Escrow] = balanceOf[Escrow] + n
  BY EscrowAssumption
     DEF Deposit, DepositReproduction, TransferFrom, EscrowInv, TypeOK, TokenTypeOK, Accounts
<1>5. balanceOf'[Escrow] - balanceOf[Escrow] = claimBalances'[c] - claimBalances[c]
  BY <1>1, <1>3, <1>4
<1> QED BY <1>2, <1>5, MoveKeepsSolvent

\* LocalEscrow always holds exactly what its claims add up to, for any finite
\* set of claims: no claim is paid with another claim's money.
THEOREM SolventTheorem == Spec => []Solvent
<1>1. Init => Solvent
  <2> SUFFICES ASSUME Init PROVE Solvent
    OBVIOUS
  <2>1. \A c \in Claims : claimBalances[c] = 0
    BY DEF Init
  <2>2. balanceOf[Escrow] = 0
    BY DEF Init, TokenInit, Accounts
  <2> QED BY <2>1, <2>2, SumsOfNothing, SolventIs
<1>2. EscrowInv /\ EscrowInv' /\ Solvent /\ [Next]_vars => Solvent'
  <2> SUFFICES ASSUME EscrowInv, EscrowInv', Solvent, [Next]_vars PROVE Solvent'
    OBVIOUS
  <2>1. CASE TokenCall
    <3>1. claimBalances' = claimBalances
      BY <2>1 DEF TokenCall, bookVars
    <3>2. balanceOf'[Escrow] = balanceOf[Escrow]
      BY <2>1, EscrowAssumption
         DEF TokenCall, Mint, Approve, EscrowInv, TypeOK, TokenTypeOK, Accounts
    <3> QED BY <3>1, <3>2, RestKeepsSolvent
  <2>2. CASE DepositCall
    BY <2>2, DepositKeepsSolvent DEF DepositCall
  <2>3. CASE ReleaseCall
    BY <2>3, SettleKeepsSolvent DEF ReleaseCall, Release
  <2>4. CASE RefundCall
    BY <2>4, SettleKeepsSolvent DEF RefundCall, Refund
  <2>5. CASE ReproductionCall
    BY <2>5, SettleKeepsSolvent DEF ReproductionCall, ReleaseReproduction
  <2>6. CASE UNCHANGED vars
    BY <2>6, RestKeepsSolvent DEF vars, tokenVars, bookVars
  <2> QED BY <2>1, <2>2, <2>3, <2>4, <2>5, <2>6 DEF Next
<1> QED BY <1>1, <1>2, EscrowInvariant, PTL DEF Spec
=============================================================================
