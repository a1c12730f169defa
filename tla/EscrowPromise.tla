---------------------------- MODULE EscrowPromise ----------------------------
(***************************************************************************)
(* What the escrow promises a depositor, without saying how the contract   *)
(* keeps its books.  For every claim it owes every holder what that holder *)
(* put in.  A claim is settled once: either every contributor gets back    *)
(* exactly what it is owed, or the whole claim is paid out to recipients   *)
(* named by the factory.  Nothing else ever reduces what is owed.          *)
(***************************************************************************)
EXTENDS Integers

CONSTANTS Holders, Claims

VARIABLES owed,     \* owed[c][a]: what claim c holds of holder a's money
          settled,  \* settled[c]: claim c has been paid out
          purse     \* purse[a]: the tokens holder a has itself

vars == <<owed, settled, purse>>

Nothing == [a \in Holders |-> 0]

Init ==
    /\ owed = [c \in Claims |-> Nothing]
    /\ settled = [c \in Claims |-> FALSE]
    /\ purse = Nothing

\* Holder a's purse is the only one that changes.
OnlyPurseOf(a) == purse' = [purse EXCEPT ![a] = purse'[a]]

\* A holder gets tokens from outside.
Earn(a) ==
    /\ OnlyPurseOf(a)
    /\ purse'[a] >= purse[a]
    /\ UNCHANGED <<owed, settled>>

\* A holder moves money into a claim in which nobody else has a stake.
Contribute(c, a) ==
    /\ OnlyPurseOf(a)
    /\ purse'[a] < purse[a]
    /\ \A b \in Holders \ {a} : owed[c][b] = 0
    /\ owed' = [owed EXCEPT ![c][a] = @ + (purse[a] - purse'[a])]
    /\ UNCHANGED settled

\* The one settlement of a claim that holds money.
Settle(c) ==
    /\ ~ settled[c]
    /\ \E a \in Holders : owed[c][a] > 0
    /\ owed' = [owed EXCEPT ![c] = Nothing]
    /\ settled' = [settled EXCEPT ![c] = TRUE]

\* Everybody gets its own money back.
GiveBack(c) ==
    /\ Settle(c)
    /\ purse' = [a \in Holders |-> purse[a] + owed[c][a]]

\* The factory names the recipients; nobody loses by it.
HandOver(c) ==
    /\ Settle(c)
    /\ purse' = [a \in Holders |-> purse'[a]]
    /\ \A a \in Holders : purse'[a] >= purse[a]

Next ==
    \/ \E a \in Holders : Earn(a)
    \/ \E c \in Claims, a \in Holders : Contribute(c, a)
    \/ \E c \in Claims : GiveBack(c) \/ HandOver(c)

Spec == Init /\ [][Next]_vars

=============================================================================
