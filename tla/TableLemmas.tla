------------------------------ MODULE TableLemmas ------------------------------
(***************************************************************************)
(* Lemmas about numbers and tables that the proofs of several components   *)
(* rest on.  A table is a sequence whatever its rows are: the stable maps  *)
(* and logs of the program are modelled as sequences or functions that are *)
(* appended to, cut at the end or changed in one row.                      *)
(***************************************************************************)
EXTENDS SequenceTheorems, FiniteSetsExt, FiniteSetTheorems, TLAPS

WF == INSTANCE WellFoundedInduction

\* A set of natural numbers that is not empty has a least element.
LEMMA LeastNat ==
  ASSUME NEW S \in SUBSET Nat, S # {}
  PROVE  \E x \in S : \A y \in S : x <= y
<1> DEFINE R == {ss \in Nat \X Nat : ss[1] < ss[2]}
<1>1. R = WF!OpToRel(<, Nat)
  BY DEF WF!OpToRel
<1>2. WF!IsWellFoundedOn(R, Nat)
  BY <1>1, WF!NatLessThanWellFounded, Zenon
<1> HIDE DEF R
<1>3. PICK x \in S : \A y \in S : ~ (<<y, x>> \in R)
  BY <1>2, WF!WFMin
<1>4. \A y \in S : ~ (y < x)
  BY <1>3 DEF R
<1> QED BY <1>4

\* Min, by which jobs, nonces and windows are chosen, takes an element of its set.
LEMMA MinIsLeast ==
  ASSUME NEW S \in SUBSET Nat, S # {}
  PROVE  Min(S) \in S /\ \A y \in S : Min(S) <= y
  BY LeastNat DEF Min

\* A table, whatever its rows are.
Table(s) == \E S : s \in Seq(S)

Updated(s, i, e) == [s EXCEPT ![i] = e]

\* Changing a row changes that row only.
LEMMA UpdateTable ==
  ASSUME NEW s, Table(s), NEW i, NEW e
  PROVE  /\ Table(Updated(s, i, e)) /\ Len(Updated(s, i, e)) = Len(s) /\ Len(s) \in Nat
         /\ \A j \in 1..Len(s) : Updated(s, i, e)[j] = IF j = i THEN e ELSE s[j]
<1>1. PICK S : s \in Seq(S)
  BY DEF Table
<1> DEFINE T == S \cup {e}
<1>2. s \in Seq(T) /\ Len(s) \in Nat /\ DOMAIN s = 1..Len(s) /\ \A j \in 1..Len(s) : s[j] \in T
  BY <1>1, SeqMonotonic, LenProperties, ElementOfSeq
<1>3. CASE i \in 1..Len(s)
  <2>1. e \in T
    OBVIOUS
  <2> HIDE DEF T
  <2> QED BY <1>2, <1>3, <2>1, ExceptSeq DEF Table, Updated
<1>4. CASE i \notin 1..Len(s)
  <2>1. Updated(s, i, e) = s
    BY <1>2, <1>4 DEF Updated
  <2> QED BY <1>1, <1>2, <1>4, <2>1 DEF Table
<1> QED BY <1>3, <1>4

\* Appending a row keeps the rows there are.
LEMMA AppendTable ==
  ASSUME NEW s, Table(s), NEW e
  PROVE  /\ Table(Append(s, e)) /\ Len(Append(s, e)) = Len(s) + 1
         /\ Len(s) \in Nat /\ Append(s, e)[Len(s) + 1] = e
         /\ \A j \in 1..Len(s) : Append(s, e)[j] = s[j]
<1>1. PICK S : s \in Seq(S)
  BY DEF Table
<1> DEFINE T == S \cup {e}
<1>2. s \in Seq(T) /\ Len(s) \in Nat /\ e \in T
  BY <1>1, SeqMonotonic, LenProperties
<1> HIDE DEF T
<1> QED BY <1>2, AppendProperties DEF Table

\* The larger of two numbers.
LEMMA MaxOfTwo ==
  ASSUME NEW m \in Int, NEW n \in Int
  PROVE  Max({m, n}) \in {m, n} /\ Max({m, n}) >= m /\ Max({m, n}) >= n
<1> DEFINE P(x) == x \in {m, n} /\ \A y \in {m, n} : x >= y
<1>1. \E x : P(x)
  <2>1. CASE m >= n
    BY <2>1
  <2>2. CASE ~ (m >= n)
    BY <2>2
  <2> QED BY <2>1, <2>2
<1>2. P(CHOOSE x : P(x))
  BY <1>1
<1>3. Max({m, n}) = CHOOSE x : P(x)
  BY DEF Max
<1> QED BY <1>2, <1>3

\* A set of integers that is bounded and not empty has a largest element, and Max takes it.
LEMMA MaxIsLargest ==
  ASSUME NEW S \in SUBSET Int, S # {}, NEW n \in Int, \A x \in S : x <= n
  PROVE  Max(S) \in S /\ \A y \in S : y <= Max(S)
<1> DEFINE D == {n - x : x \in S}
<1>1. D \in SUBSET Nat /\ D # {}
  <2>1. \A x \in S : n - x \in Nat
    <3> TAKE x \in S
    <3>1. x \in Int /\ x <= n
      OBVIOUS
    <3> QED BY <3>1
  <2> QED BY <2>1
<1>2. PICK d \in D : \A e \in D : d <= e
  BY <1>1, LeastNat
<1>3. PICK x \in S : d = n - x
  BY <1>2
<1>4. \A y \in S : x >= y
  <2> TAKE y \in S
  <2>1. n - y \in D /\ x \in Int /\ y \in Int
    OBVIOUS
  <2>2. n - x <= n - y
    BY <1>2, <1>3, <2>1
  <2> QED BY <2>1, <2>2
<1>5. \E m : m \in S /\ \A y \in S : m >= y
  BY <1>3, <1>4
<1>6. Max(S) \in S /\ \A y \in S : Max(S) >= y
  BY <1>5 DEF Max
<1> QED BY <1>6

\* Cutting the last row off keeps the others.
LEMMA CutTable ==
  ASSUME NEW s, Table(s), Len(s) > 0
  PROVE  /\ Table(SubSeq(s, 1, Len(s) - 1)) /\ Len(SubSeq(s, 1, Len(s) - 1)) = Len(s) - 1
         /\ Len(s) \in Nat
         /\ \A j \in 1..Len(s) - 1 : SubSeq(s, 1, Len(s) - 1)[j] = s[j]
<1>1. PICK S : s \in Seq(S)
  BY DEF Table
<1>2. Len(s) \in Nat /\ \A i \in 1..Len(s) - 1 : s[i] \in S
  BY <1>1, LenProperties, ElementOfSeq
<1> DEFINE n == Len(s) - 1
<1>3. n \in Int /\ n >= 0
  BY <1>2
<1>4. /\ SubSeq(s, 1, n) \in Seq(S) /\ Len(SubSeq(s, 1, n)) = IF 1 <= n THEN n - 1 + 1 ELSE 0
      /\ \A i \in 1..n - 1 + 1 : SubSeq(s, 1, n)[i] = s[1 + i - 1]
  <2> HIDE DEF n
  <2>1. \A i \in 1..n : s[i] \in S
    BY <1>2 DEF n
  <2> QED BY <1>3, <2>1, SubSeqProperties
<1>5. Len(SubSeq(s, 1, n)) = n
  <2> HIDE DEF n
  <2> QED BY <1>3, <1>4
<1>6. ASSUME NEW j \in 1..n PROVE SubSeq(s, 1, n)[j] = s[j]
  <2>1. j \in 1..n - 1 + 1 /\ 1 + j - 1 = j
    BY <1>3
  <2> QED BY <1>4, <2>1
<1> QED BY <1>2, <1>4, <1>5, <1>6 DEF Table

\* The rows of a table.
LEMMA TableDomain == ASSUME NEW s, Table(s) PROVE DOMAIN s = 1..Len(s) /\ Len(s) \in Nat
<1>1. PICK S : s \in Seq(S)
  BY DEF Table
<1> QED BY <1>1, LenProperties

\* Dropping the oldest row keeps the others, each one place further on.
LEMMA TailTable ==
  ASSUME NEW s, Table(s), Len(s) > 0
  PROVE  /\ Table(Tail(s)) /\ Len(s) \in Nat /\ Len(Tail(s)) = Len(s) - 1
         /\ \A i \in 1..Len(Tail(s)) : Tail(s)[i] = s[i + 1]
<1>1. PICK S : s \in Seq(S)
  BY DEF Table
<1>2. Len(s) \in Nat /\ s # <<>>
  BY <1>1, LenProperties
<1> QED BY <1>1, <1>2, HeadTailProperties DEF Table

\* A function on the rows of a table is a table.
LEMMA MappedTable ==
  ASSUME NEW n \in Nat, NEW f, DOMAIN f = 1..n, f = [i \in 1..n |-> f[i]]
  PROVE  Table(f) /\ Len(f) = n
<1> DEFINE S == {f[i] : i \in 1..n}
<1>1. f \in [1..n -> S]
  OBVIOUS
<1> HIDE DEF S
<1>2. f \in Seq(S)
  BY <1>1, SeqDef
<1>3. DOMAIN f = 1..Len(f) /\ Len(f) \in Nat
  BY <1>2, LenProperties
<1> QED BY <1>2, <1>3 DEF Table

\* A set no two elements of which differ has at most one.
LEMMA AtMostOne ==
  ASSUME NEW S, \A x, y \in S : x = y
  PROVE  Cardinality(S) \in {0, 1} /\ (S = {} => Cardinality(S) = 0)
<1>1. CASE S = {}
  BY <1>1, FS_EmptySet
<1>2. CASE S # {}
  <2>1. PICK x : x \in S
    BY <1>2
  <2>2. S = {x}
    BY <2>1
  <2> QED BY <1>2, <2>2, FS_Singleton
<1> QED BY <1>1, <1>2

\* A function on 1..n is a sequence of length n.
LEMMA FunctionIsSeq ==
  ASSUME NEW m \in Nat, NEW S, NEW f \in [1..m -> S]
  PROVE  f \in Seq(S) /\ Len(f) = m
<1>1. f \in Seq(S)
  BY SeqDef
<1>2. DOMAIN f = 1..m /\ DOMAIN f = 1..Len(f) /\ Len(f) \in Nat
  BY <1>1, LenProperties
<1> QED BY <1>1, <1>2

\* However many there are, the n newest of a set of numbers are at most n.
LEMMA NewestAreFew ==
  ASSUME NEW S \in SUBSET Nat, IsFiniteSet(S), NEW n \in Nat,
         NEW K, K = {s \in S : Cardinality({r \in S : r > s}) < n}
  PROVE  IsFiniteSet(K) /\ Cardinality(K) <= n
<1> DEFINE Above(s) == {r \in S : r > s}
<1>1. K \in SUBSET S /\ IsFiniteSet(K) /\ Cardinality(K) \in Nat
  <2>1. K \in SUBSET S
    OBVIOUS
  <2> QED BY <2>1, FS_Subset, FS_CardinalityType
<1>2. CASE K = {}
  <2>1. Cardinality(K) = 0
    BY <1>2, FS_EmptySet
  <2> QED BY <1>1, <2>1
<1>3. CASE K # {}
  <2>1. PICK m \in K : \A k \in K : m <= k
    BY <1>1, <1>3, LeastNat
  <2>2. IsFiniteSet(K \ {m}) /\ Cardinality(K \ {m}) = Cardinality(K) - 1
    BY <1>1, <2>1, FS_RemoveElement
  <2>3. m \in S /\ Cardinality(Above(m)) < n
    BY <2>1
  <2>4. K \ {m} \in SUBSET Above(m) /\ Above(m) \in SUBSET S
    <3>1. \A k \in K : k \in S /\ k \in Nat
      BY <1>1
    <3>2. \A k \in K : k # m => k > m
      BY <2>1, <3>1
    <3> QED BY <3>1, <3>2
  <2> HIDE DEF Above
  <2>5. IsFiniteSet(Above(m)) /\ Cardinality(Above(m)) \in Nat
    BY <2>4, FS_Subset, FS_CardinalityType
  <2>6. Cardinality(K \ {m}) <= Cardinality(Above(m))
    BY <2>4, <2>5, FS_Subset
  <2> QED BY <1>1, <2>2, <2>3, <2>5, <2>6
<1> QED BY <1>2, <1>3

=============================================================================
